--------------------------- MODULE MCRequestRate ---------------------------
EXTENDS RequestRate

CONSTANT MaxStarts  \* bound: starts of the process in a window

FewStarts == Len(Starts) <= MaxStarts
=============================================================================
