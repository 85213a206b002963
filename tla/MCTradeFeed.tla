---------------------------- MODULE MCTradeFeed ----------------------------
(* One market has two trades with a liquidation between them: a replay of one *)
(* does not reach the older trade, which is good or is never accepted.  The   *)
(* other market has one trade.                                                *)
EXTENDS TradeFeed
CONSTANTS m1, m2
MCTradesOf ==
  [m \in Market |-> IF m = m1 THEN <<"trade", "liquidation", "trade">> ELSE <<"trade">>]
MCKinds ==
  {[m \in Market |-> IF m = m1 THEN <<first, "good", "good">> ELSE <<"good">>] :
     first \in {"good", "unreadable", "unstorable"}}
=============================================================================
