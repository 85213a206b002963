----------------------------- MODULE MCFunding -----------------------------
(* Hours of two units.  One market settles from before the backfill start     *)
(* on, once in the middle of an hour; the other one was listed late.           *)
EXTENDS Funding
MCMarkets == <<"m1", "m2">>
MCSettlements == [m \in {"m1", "m2"} |-> IF m = "m1" THEN {0, 3, 4, 6, 8} ELSE {6}]
=============================================================================
