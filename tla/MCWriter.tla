------------------------------ MODULE MCWriter ------------------------------
(* Two order-book rows; three trades, two of which have one key. *)
EXTENDS Writer
MCBookRow == {"b1", "b2"}
MCTradeRow == {"t1", "t1 again", "t2"}
MCKeyOf == [row \in MCTradeRow |-> IF row = "t2" THEN 2 ELSE 1]
=============================================================================
