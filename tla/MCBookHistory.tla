--------------------------- MODULE MCBookHistory ---------------------------
(* Two texts of one price, a second price, a price that is no decimal; a    *)
(* positive size, a zero that is not written "0", a size that is no decimal. *)
EXTENDS BookHistory

MCText == {"1.5", "1.50", "2", "0.0", "x"}
\* values are in tenths
MCValueOf == [t \in MCText |-> CASE t \in {"1.5", "1.50"} -> 15
                                 [] t = "2" -> 20
                                 [] t = "0.0" -> 0
                                 [] t = "x" -> NotADecimal]
MCLevel == [price : {"1.5", "1.50", "2"}, size : {"2", "0.0"}]
             \cup [price : {"x"}, size : {"2"}] \cup [price : {"1.5"}, size : {"x"}]
UpTo(n) == UNION {[1..k -> MCLevel] : k \in 0..n}
MCMessage == {m \in [bids : UpTo(2), asks : UpTo(2)] : Len(m.bids) + Len(m.asks) <= 2}
=============================================================================
