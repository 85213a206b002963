------------------------ MODULE MCOrderBookPipeline ------------------------
(* One market with one update, and one trade: the book without its bid at 1.  *)
EXTENDS OrderBookPipeline
CONSTANT t1
MCTrade == {t1}
MCText == {"1", "2", "5", "0.0", "x"}
MCValueOf == [t \in MCText |-> CASE t = "1" -> 1 [] t = "2" -> 2 [] t = "5" -> 5
                                 [] t = "0.0" -> 0 [] t = "x" -> NotADecimal]
Holding(bids, asks) ==
  [bids |-> [i \in DOMAIN bids |-> [price |-> bids[i][1], size |-> bids[i][2]]],
   asks |-> [i \in DOMAIN asks |-> [price |-> asks[i][1], size |-> asks[i][2]]]]
MCSnapAt == [m \in Market |-> [n \in Nonce |->
  IF n = 0 THEN Holding(<<<<"1", "5">>>>, <<>>) ELSE Holding(<<>>, <<<<"2", "5">>>>)]]
MCDeltaAt == [m \in Market |-> [n \in Nonce |->
  IF n = 0 THEN Holding(<<>>, <<>>) ELSE Holding(<<<<"1", "0.0">>>>, <<<<"2", "5">>>>)]]
MCTimeAt == [m \in Market |-> [n \in Nonce |-> n]]
MCInstant == 0..1
MCBadTime == -7
MCBadLevels == Holding(<<>>, <<<<"x", "5">>>>)
=============================================================================
