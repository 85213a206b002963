------------------------- MODULE MCOrderBookReader -------------------------
(* Update 1 removes the bid at 1, with a zero written "0.0", and adds an ask;  *)
(* update 2 brings the bid back.  A book that misses update 1 shows it.       *)
EXTENDS OrderBookReader

MCText == {"1", "2", "5", "7", "0.0", "x"}
MCValueOf == [t \in MCText |-> CASE t = "1" -> 1 [] t = "2" -> 2 [] t = "5" -> 5
                                 [] t = "7" -> 7 [] t = "0.0" -> 0
                                 [] t = "x" -> NotADecimal]
L(price, size) == [price |-> price, size |-> size]
Only(bids, asks) == [bids |-> bids, asks |-> asks]
MCSnapAt == [m \in Market |-> [n \in Nonce |->
  CASE n = 0 -> Only(<<L("1", "5")>>, <<>>)
    [] n = 1 -> Only(<<>>, <<L("2", "5")>>)
    [] n = 2 -> Only(<<L("1", "7")>>, <<L("2", "5")>>)]]
MCDeltaAt == [m \in Market |-> [n \in Nonce |->
  CASE n = 0 -> Only(<<>>, <<>>)
    [] n = 1 -> Only(<<L("1", "0.0")>>, <<L("2", "5")>>)
    [] n = 2 -> Only(<<L("1", "7")>>, <<>>)]]
\* Two updates may carry one time.
MCTimeAt == [m \in Market |-> [n \in Nonce |-> n \div 2]]
\* Times that go back once, at update 2, which the session meets as a delta
\* from the past.
MCRegressingTimeAt == [m \in Market |-> [n \in Nonce |-> IF n = 1 THEN 1 ELSE 0]]
MCInstant == 0..1
MCBadTime == -7
\* A good bid, then an ask that does not parse: half applied when it fails.
MCBadLevels == Only(<<L("2", "7")>>, <<L("x", "5")>>)
=============================================================================
