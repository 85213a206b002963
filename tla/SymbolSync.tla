----------------------------- MODULE SymbolSync -----------------------------
(***************************************************************************)
(* The start of a process: sync_symbols and the caches that main loads     *)
(* after it (src/src/main.rs, src/src/lib.rs), over the symbols table with *)
(* its two unique keys, and the rows that the tasks then write under the   *)
(* ids of that table.  The list of markets is the exchange's, and changes  *)
(* from one start to the next: markets come, go, and are renamed.          *)
(***************************************************************************)
EXTENDS Integers, Sequences

CONSTANTS Name,       \* ticker names
          MarketId,   \* the exchange's market ids
          Listings,   \* the market lists the exchange may show
          MaxRelists, \* bound: changes of the list
          MaxEnds     \* bound: ends of a process before the last start

MarketType == {"perp", "spot"}
ASSUME ListingsAssumption ==
  Listings \subseteq Seq([symbol : Name, market_id : MarketId, market_type : STRING])
\* A list names each market once.
ASSUME ListedOnce ==
  \A list \in Listings : \A i, j \in DOMAIN list :
    list[i].market_id = list[j].market_id => i = j

VARIABLES listing,   \* the exchange: what /api/v1/orderBooks shows now
          relists,   \* how often it changed
          phase,     \* of main: "down", "fetching", "upserting", "loading" or "running"
          resp,      \* the order_books of the response
          at,        \* how many of them the transaction has upserted
          draft,     \* the symbols table as the open transaction sees it
          symbols,   \* the symbols table, as committed
          serial,    \* the last value of the id sequence
          cache,     \* symbol_cache: pairs of market id and symbols.id
          perps,     \* perp_markets: pairs of market id and symbols.id
          written,   \* rows of any table: pairs of their market and the id they carry
          synced,    \* history: the list that was last committed
          ends       \* how many processes have ended

vars == <<listing, relists, phase, resp, at, draft, symbols, serial,
          cache, perps, written, synced, ends>>

Entries(list) == {list[i] : i \in DOMAIN list}
Symbol == [id : Nat \ {0}, name : Name, market_type : MarketType,
           lighter_market_id : MarketId]

Init ==
  /\ listing \in Listings
  /\ relists = 0
  /\ phase = "down"
  /\ resp = <<>> /\ at = 0
  /\ draft = {} /\ symbols = {} /\ serial = 0
  /\ cache = {} /\ perps = {}
  /\ written = {}
  /\ synced = <<>>
  /\ ends = 0

Relist ==
  /\ relists < MaxRelists
  /\ \E list \in Listings \ {listing} : listing' = list
  /\ relists' = relists + 1
  /\ UNCHANGED <<phase, resp, at, draft, symbols, serial, cache, perps, written, synced, ends>>

\* main connects to the database; the container was started or restarted.
Start ==
  /\ phase = "down"
  /\ ends <= MaxEnds
  /\ phase' = "fetching"
  /\ UNCHANGED <<listing, relists, resp, at, draft, symbols, serial, cache, perps,
                 written, synced, ends>>

AcceptedWhateverType(list) == list # <<>>
Accepted(list) ==
  /\ list # <<>>
  /\ \A market \in Entries(list) : market.market_type \in MarketType

\* The process is gone, and an open transaction with it.
EndProcess ==
  /\ phase' = "down"
  /\ resp' = <<>> /\ at' = 0
  /\ draft' = {}
  /\ cache' = {} /\ perps' = {}
  /\ ends' = ends + 1

\* The response is checked before the transaction begins.
Fetch ==
  /\ phase = "fetching"
  /\ Accepted(listing)
  /\ phase' = "upserting"
  /\ resp' = listing
  /\ at' = 0
  /\ draft' = symbols
  /\ UNCHANGED <<listing, relists, symbols, serial, cache, perps, written, synced, ends>>
FetchRefused ==
  /\ phase = "fetching"
  /\ ~Accepted(listing)
  /\ EndProcess
  /\ UNCHANGED <<listing, relists, symbols, serial, written, synced>>

\* The unique index on (market_type, name): another row holds the name.
Clash(table, market) ==
  \E row \in table : /\ row.lighter_market_id # market.market_id
                     /\ row.market_type = market.market_type
                     /\ row.name = market.symbol

SymbolRow(id, market) ==
  [id |-> id, name |-> market.symbol, market_type |-> market.market_type,
   lighter_market_id |-> market.market_id]

\* INSERT .. ON CONFLICT (lighter_market_id) DO UPDATE: the id of a market
\* that has a row stays; the sequence moves on in any case.
UpsertedWithNewId(table, market) ==
  LET old == {row \in table : row.lighter_market_id = market.market_id}
  IN (table \ old) \cup {SymbolRow(serial + 1, market)}
Upserted(table, market) ==
  LET old == {row \in table : row.lighter_market_id = market.market_id}
  IN (table \ old) \cup
       (IF old = {} THEN {SymbolRow(serial + 1, market)}
                    ELSE {SymbolRow(row.id, market) : row \in old})

UpsertNextOutsideTransaction ==
  /\ phase = "upserting"
  /\ at < Len(resp)
  /\ ~Clash(draft, resp[at + 1])
  /\ draft' = Upserted(draft, resp[at + 1])
  /\ symbols' = draft'
  /\ at' = at + 1
  /\ serial' = serial + 1
  /\ UNCHANGED <<listing, relists, phase, resp, cache, perps, written, synced, ends>>
UpsertNextWithoutIndex ==
  /\ phase = "upserting"
  /\ at < Len(resp)
  /\ draft' = Upserted(draft, resp[at + 1])
  /\ at' = at + 1
  /\ serial' = serial + 1
  /\ UNCHANGED <<listing, relists, phase, resp, symbols, cache, perps, written, synced, ends>>
UpsertNext ==
  /\ phase = "upserting"
  /\ at < Len(resp)
  /\ ~Clash(draft, resp[at + 1])
  /\ draft' = Upserted(draft, resp[at + 1])
  /\ at' = at + 1
  /\ serial' = serial + 1
  /\ UNCHANGED <<listing, relists, phase, resp, symbols, cache, perps, written, synced, ends>>

\* The statement fails, the transaction rolls back and main returns the
\* error.  A sequence is not rolled back.
UpsertRefused ==
  /\ phase = "upserting"
  /\ at < Len(resp)
  /\ Clash(draft, resp[at + 1])
  /\ serial' = serial + 1
  /\ EndProcess
  /\ UNCHANGED <<listing, relists, symbols, written, synced>>

Commit ==
  /\ phase = "upserting"
  /\ at = Len(resp)
  /\ phase' = "loading"
  /\ symbols' = draft
  /\ synced' = resp
  /\ draft' = {}
  /\ UNCHANGED <<listing, relists, resp, at, serial, cache, perps, written, ends>>

\* load_symbol_cache and load_perp_markets, over what the table holds: also
\* the markets that are no longer listed.
PairsOfSwapped(table) == {<<row.id, row.lighter_market_id>> : row \in table}
PairsOf(table) == {<<row.lighter_market_id, row.id>> : row \in table}
PerpPairsOf(table) == PairsOf({row \in table : row.market_type = "perp"})
LoadCaches ==
  /\ phase = "loading"
  /\ phase' = "running"
  /\ cache' = PairsOf(symbols)
  /\ perps' = PerpPairsOf(symbols)
  /\ UNCHANGED <<listing, relists, resp, at, draft, symbols, serial, written, synced, ends>>

\* A trade or an order-book row: the id of its market in the cache.  A frame
\* of a market that is not there is skipped.
WriteMarketData ==
  /\ phase = "running"
  /\ \E entry \in cache : written' = written \cup {entry}
  /\ UNCHANGED <<listing, relists, phase, resp, at, draft, symbols, serial, cache, perps,
                 synced, ends>>

\* A funding row of the poller.
WriteFunding ==
  /\ phase = "running"
  /\ \E entry \in perps : written' = written \cup {entry}
  /\ UNCHANGED <<listing, relists, phase, resp, at, draft, symbols, serial, cache, perps,
                 synced, ends>>

\* Any failure of the database or of the request, a writer or poller that
\* exits, or a crash.
Exit ==
  /\ phase # "down"
  /\ ends < MaxEnds
  /\ EndProcess
  /\ UNCHANGED <<listing, relists, symbols, serial, written, synced>>

Next ==
  \/ Relist
  \/ Start
  \/ Fetch
  \/ FetchRefused
  \/ UpsertNext
  \/ UpsertRefused
  \/ Commit
  \/ LoadCaches
  \/ WriteMarketData
  \/ WriteFunding
  \/ Exit

Spec == Init /\ [][Next]_vars
-----------------------------------------------------------------------------
\* Types; what is upserted passed the checks of sync_symbols.
TypeOK ==
  /\ listing \in Listings
  /\ resp \in Listings \cup {<<>>}
  /\ phase \in {"down", "fetching", "upserting", "loading", "running"}
  /\ at \in 0..Len(resp)
  /\ draft \subseteq Symbol
  /\ symbols \subseteq Symbol
  /\ serial \in Nat
  /\ ends \in Nat
  /\ cache \subseteq MarketId \X Nat
  /\ perps \subseteq cache
  /\ phase = "upserting" => \A market \in Entries(resp) : market.market_type \in MarketType

\* No two rows of the table share an id, a market id, or a type and name.
UniqueIn(table) ==
  \A row1, row2 \in table :
    \/ row1 = row2
    \/ /\ row1.id # row2.id
       /\ row1.lighter_market_id # row2.lighter_market_id
       /\ <<row1.market_type, row1.name>> # <<row2.market_type, row2.name>>
SymbolsUnique == UniqueIn(symbols)

\* The id that a stored row carries belongs, now and after any number of
\* restarts, renames and relistings, to the market the row came from: an id is
\* never given to another market and a market never gets another id
\* (upsert_symbol, load_symbol_cache, load_perp_markets).
RowsKeepTheirMarket ==
  \A entry \in written :
    \E row \in symbols : <<row.lighter_market_id, row.id>> = entry

\* The table holds one list of the exchange, whole: a sync that failed
\* half-way, or was cut off, left no market with its newer name.
TableHoldsOneListing ==
  \A market \in Entries(synced) :
    \E row \in symbols : SymbolRow(row.id, market) = row

\* A running process serves all markets of the list it synced, each under the id
\* of its row, and collects funding for the perps among them.
EveryListedMarketIsServed ==
  phase = "running" =>
    \A market \in Entries(synced) : \E row \in symbols :
      /\ SymbolRow(row.id, market) = row
      /\ <<market.market_id, row.id>> \in cache
      /\ market.market_type = "perp" => <<market.market_id, row.id>> \in perps

\* "Upserts one market by Lighter's stable market ID": whatever the name, the
\* market id decides, so the sync of a list that passed the checks goes through.
EveryListedMarketIsUpserted ==
  phase = "upserting" /\ at < Len(resp) => ~Clash(draft, resp[at + 1])
=============================================================================
