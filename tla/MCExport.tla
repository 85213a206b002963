------------------------------ MODULE MCExport ------------------------------
(* A perp and a spot market of one name and a third, the first of which may be
   renamed; a row that came late, with a time before the others; batches of two. *)
EXTENDS Export, TLC
LOCAL NamesWith(first) == (1 :> first) @@ (2 :> "BTC") @@ (3 :> "ETH")
MCNames == {NamesWith("BTC"), NamesWith("XBT")}
LOCAL Row(id, symbol, time) == [id |-> id, symbol |-> symbol, time |-> time]
MCRows ==
  [d \in Dataset |->
     IF d = "trades" THEN {Row(1, 1, 1), Row(2, 2, 0), Row(3, 3, 1)}
                     ELSE {Row(1, 1, 0), Row(2, 3, 1)}]
LOCAL Request(orderbooks, symbols, hours, overwrite) ==
  [trades |-> TRUE, orderbooks |-> orderbooks, symbols |-> symbols, hours |-> hours,
   overwrite |-> overwrite]
MCRequests ==
  {Request(orderbooks, {}, AllRows, overwrite) : orderbooks, overwrite \in BOOLEAN}
  \cup {Request(orderbooks, {"BTC"}, 1, overwrite) : orderbooks, overwrite \in BOOLEAN}
  \cup {[trades |-> FALSE, orderbooks |-> FALSE, symbols |-> {}, hours |-> AllRows,
         overwrite |-> TRUE],
        [trades |-> FALSE, orderbooks |-> TRUE, symbols |-> {"SOL"}, hours |-> AllRows,
         overwrite |-> TRUE],
        [trades |-> FALSE, orderbooks |-> TRUE, symbols |-> {"ETH"}, hours |-> AllRows,
         overwrite |-> FALSE]}
=============================================================================
