---------------------------- MODULE MCSymbolSync ----------------------------
(* Lists of an exchange that adds, delists, renames, swaps and reuses names. *)
EXTENDS SymbolSync
MCName == {"BTC", "ETH", "WETH"}
MCMarketId == {0, 1, 2}
Market(id, name, type) == [symbol |-> name, market_id |-> id, market_type |-> type]

First == <<Market(1, "ETH", "perp"), Market(0, "BTC", "perp")>>
WithSpot == <<Market(2, "BTC", "spot"), Market(1, "ETH", "perp"), Market(0, "BTC", "perp")>>
Delisted == <<Market(0, "BTC", "perp")>>
\* Market 0 takes the name that market 1 gives up in the same list.
Renamed == <<Market(1, "WETH", "perp"), Market(0, "ETH", "perp")>>

\* Refused after First: a swap, with a good row before it.
Swapped == <<Market(2, "WETH", "spot"), Market(0, "ETH", "perp"), Market(1, "BTC", "perp")>>
\* Refused after First: a new market has the name of one no longer listed.
Reused == <<Market(1, "ETH", "perp"), Market(2, "BTC", "perp")>>
Unsupported == <<Market(0, "WETH", "perp"), Market(2, "ETH", "index")>>

MCListings == {First, WithSpot, Delisted, Renamed, Swapped, Reused, Unsupported, <<>>}
TwoListings == {First, Reused}
=============================================================================
