--------------------------- MODULE MCProcessClock ---------------------------
EXTENDS ProcessClock

CONSTANT MaxStarts  \* bound: starts of the process in a window

FewStarts == Len(Starts) <= MaxStarts
=============================================================================
