-------------------------- MODULE SymbolSyncProofs --------------------------
(***************************************************************************)
(* Proofs about SymbolSync, for any lists of markets.  The invariant says  *)
(* what the open transaction has reached: its draft keeps the id of every  *)
(* row of the table, is unique like the table, and holds the markets that  *)
(* were upserted so far.                                                   *)
(***************************************************************************)
EXTENDS SymbolSync, TLAPS

Market == [symbol : Name, market_id : MarketId, market_type : STRING]

Holds(table, market) == \E row \in table : SymbolRow(row.id, market) = row

IdsAreSpent == \A row \in symbols \cup draft : row.id <= serial
DraftIsUnique == UniqueIn(draft)
DraftKeepsIds ==
  phase = "upserting" =>
    \A row \in symbols : \E new \in draft :
      new.id = row.id /\ new.lighter_market_id = row.lighter_market_id
DraftHoldsSoFar ==
  phase = "upserting" => \A i \in 1..at : Holds(draft, resp[i])
LoadingTheListSynced == phase \in {"loading", "running"} => synced = resp
CachesFollowTable ==
  /\ \A entry \in cache : \E row \in symbols : <<row.lighter_market_id, row.id>> = entry
  /\ phase = "running" =>
       /\ cache = PairsOf(symbols)
       /\ perps = PerpPairsOf(symbols)
  /\ phase # "running" => cache = {} /\ perps = {}

IInv ==
  /\ TypeOK
  /\ SymbolsUnique
  /\ DraftIsUnique
  /\ IdsAreSpent
  /\ DraftKeepsIds
  /\ DraftHoldsSoFar
  /\ LoadingTheListSynced
  /\ CachesFollowTable
  /\ RowsKeepTheirMarket
  /\ TableHoldsOneListing

-----------------------------------------------------------------------------
(* One statement: INSERT .. ON CONFLICT (lighter_market_id) DO UPDATE *)

\* A row made for a market that passed the checks is a row of the table.
LEMMA SymbolRowType ==
  ASSUME NEW market \in Market, market.market_type \in MarketType, NEW id \in Nat \ {0}
  PROVE  /\ SymbolRow(id, market) \in Symbol
         /\ SymbolRow(id, market).id = id
         /\ SymbolRow(id, market).name = market.symbol
         /\ SymbolRow(id, market).market_type = market.market_type
         /\ SymbolRow(id, market).lighter_market_id = market.market_id
  BY DEF Market, MarketType, Symbol, SymbolRow

\* A statement of the transaction replaces the row of its market, if there is
\* one, and gives the new row its id; any other row stays.
LEMMA UpsertReplaces ==
  ASSUME NEW table \in SUBSET Symbol, UniqueIn(table), NEW market \in Market,
         serial \in Nat
  PROVE  \E id \in Nat \ {0} :
           /\ Upserted(table, market) =
                {row \in table : row.lighter_market_id # market.market_id}
                  \cup {SymbolRow(id, market)}
           /\ \/ \E row \in table : row.lighter_market_id = market.market_id /\ row.id = id
              \/ /\ id = serial + 1
                 /\ \A row \in table : row.lighter_market_id # market.market_id
  <1> DEFINE old == {row \in table : row.lighter_market_id = market.market_id}
  <1>1. table \ old = {row \in table : row.lighter_market_id # market.market_id}
    OBVIOUS
  <1>2. CASE old = {}
    <2>1. Upserted(table, market) = (table \ old) \cup {SymbolRow(serial + 1, market)}
      BY <1>2 DEF Upserted
    <2>2. \A row \in table : row.lighter_market_id # market.market_id
      BY <1>2
    <2>. QED
      BY <1>1, <2>1, <2>2
  <1>3. CASE old # {}
    <2>1. PICK row \in old : TRUE
      BY <1>3
    <2>2. \A other \in old : other = row
      BY <2>1 DEF UniqueIn
    <2>3. old = {row}
      BY <2>1, <2>2
    <2>4. Upserted(table, market) =
            (table \ old) \cup {SymbolRow(other.id, market) : other \in old}
      BY <1>3 DEF Upserted
    <2>5. {SymbolRow(other.id, market) : other \in old} = {SymbolRow(row.id, market)}
      BY <2>3
    <2>6. row.id \in Nat \ {0} /\ row \in table /\ row.lighter_market_id = market.market_id
      BY <2>1 DEF Symbol
    <2>. QED
      BY <1>1, <2>4, <2>5, <2>6
  <1>. QED
    BY <1>2, <1>3

\* What a statement that is not refused leaves true of the table it works on.
LEMMA UpsertKeeps ==
  ASSUME NEW table \in SUBSET Symbol, UniqueIn(table), NEW market \in Market,
         market.market_type \in MarketType, serial \in Nat,
         \A row \in table : row.id <= serial, ~Clash(table, market)
  PROVE  /\ Upserted(table, market) \subseteq Symbol
         /\ UniqueIn(Upserted(table, market))
         /\ \A row \in Upserted(table, market) : row.id <= serial + 1
         /\ \A row \in table : \E new \in Upserted(table, market) :
              new.id = row.id /\ new.lighter_market_id = row.lighter_market_id
         /\ Holds(Upserted(table, market), market)
         /\ \A other \in Market :
              other.market_id # market.market_id /\ Holds(table, other)
                => Holds(Upserted(table, market), other)
  <1> DEFINE rest == {row \in table : row.lighter_market_id # market.market_id}
  <1>1. PICK id \in Nat \ {0} :
          /\ Upserted(table, market) = rest \cup {SymbolRow(id, market)}
          /\ \/ \E row \in table : row.lighter_market_id = market.market_id /\ row.id = id
             \/ /\ id = serial + 1
                /\ \A row \in table : row.lighter_market_id # market.market_id
    BY UpsertReplaces
  <1> DEFINE made == SymbolRow(id, market)
  <1>2. /\ made \in Symbol /\ made.id = id /\ made.name = market.symbol
        /\ made.market_type = market.market_type /\ made.lighter_market_id = market.market_id
    BY SymbolRowType
  <1> HIDE DEF made
  <1>3. Upserted(table, market) = rest \cup {made}
    BY <1>1 DEF made
  <1>4. \A row \in rest : row.id # made.id
    BY <1>1, <1>2 DEF UniqueIn, Symbol
  <1>5. \A row \in rest : <<row.market_type, row.name>> # <<made.market_type, made.name>>
    BY <1>2 DEF Clash
  <1>6. Upserted(table, market) \subseteq Symbol
    BY <1>2, <1>3
  <1>7. UniqueIn(Upserted(table, market))
    <2> SUFFICES ASSUME NEW row1 \in rest \cup {made}, NEW row2 \in rest \cup {made},
                        row1 # row2
                 PROVE  /\ row1.id # row2.id
                        /\ row1.lighter_market_id # row2.lighter_market_id
                        /\ <<row1.market_type, row1.name>> # <<row2.market_type, row2.name>>
      BY <1>3 DEF UniqueIn
    <2>1. CASE row1 \in rest /\ row2 \in rest
      BY <2>1 DEF UniqueIn
    <2>2. CASE row1 = made
      BY <2>2, <1>2, <1>4, <1>5
    <2>3. CASE row2 = made
      BY <2>3, <1>2, <1>4, <1>5
    <2>. QED
      BY <2>1, <2>2, <2>3
  <1>8. made.id <= serial + 1
    BY <1>1, <1>2 DEF Symbol
  <1>9. \A row \in Upserted(table, market) : row.id <= serial + 1
    BY <1>3, <1>8 DEF Symbol
  <1>10. ASSUME NEW row \in table
         PROVE  \E new \in Upserted(table, market) :
                  new.id = row.id /\ new.lighter_market_id = row.lighter_market_id
    <2>1. CASE row \in rest
      BY <2>1, <1>3
    <2>2. CASE row \notin rest
      <3>1. row.lighter_market_id = market.market_id
        BY <2>2
      <3>2. row.id = id
        BY <3>1, <1>1 DEF UniqueIn
      <3>. QED
        BY <3>1, <3>2, <1>2, <1>3
    <2>. QED
      BY <2>1, <2>2
  <1>11. Holds(Upserted(table, market), market)
    BY <1>2, <1>3 DEF Holds, made
  <1>12. ASSUME NEW other \in Market, other.market_id # market.market_id, Holds(table, other)
         PROVE  Holds(Upserted(table, market), other)
    <2>1. PICK row \in table : SymbolRow(row.id, other) = row
      BY <1>12 DEF Holds
    <2>2. row.lighter_market_id = other.market_id
      BY <2>1 DEF SymbolRow
    <2>. QED
      BY <2>1, <2>2, <1>3, <1>12 DEF Holds
  <1>. QED
    BY <1>6, <1>7, <1>9, <1>10, <1>11, <1>12
-----------------------------------------------------------------------------
(* The actions *)

\* An entry of a list is a market, and no other entry is of the same market.
LEMMA EntryOfListing ==
  ASSUME NEW list \in Listings, NEW i \in 1..Len(list)
  PROVE  /\ list[i] \in Market
         /\ \A j \in 1..Len(list) : list[j].market_id = list[i].market_id => i = j
  <1>1. list \in Seq(Market)
    BY ListingsAssumption DEF Market
  <1>2. DOMAIN list = 1..Len(list)
    BY <1>1
  <1>3. list[i] \in Market
    BY <1>1
  <1>. QED
    BY <1>2, <1>3, ListedOnce

\* What a process has fetched is a list of markets; it is one the exchange showed
\* as soon as there is an entry to upsert.
LEMMA RespIsList ==
  ASSUME TypeOK
  PROVE  /\ resp \in Seq(Market) /\ Len(resp) \in Nat
         /\ Len(resp) > 0 => resp \in Listings
  <1>1. CASE resp \in Listings
    <2>1. resp \in Seq(Market)
      BY <1>1, ListingsAssumption DEF Market
    <2>. QED
      BY <1>1, <2>1
  <1>2. CASE resp = <<>>
    BY <1>2
  <1>. QED
    BY <1>1, <1>2 DEF TypeOK

LEMMA InitIInv == Init => IInv
  <1> SUFFICES ASSUME Init PROVE IInv
    OBVIOUS
  <1>1. TypeOK
    BY DEF Init, TypeOK
  <1>2. SymbolsUnique /\ DraftIsUnique
    BY DEF Init, SymbolsUnique, DraftIsUnique, UniqueIn
  <1>3. IdsAreSpent /\ DraftKeepsIds /\ DraftHoldsSoFar /\ LoadingTheListSynced
    BY DEF Init, IdsAreSpent, DraftKeepsIds, DraftHoldsSoFar, LoadingTheListSynced
  <1>4. CachesFollowTable /\ RowsKeepTheirMarket
    BY DEF Init, CachesFollowTable, RowsKeepTheirMarket
  <1>5. TableHoldsOneListing
    BY DEF Init, TableHoldsOneListing, Entries
  <1>. QED
    BY <1>1, <1>2, <1>3, <1>4, <1>5 DEF IInv

\* The end of a process, whatever the cause: only the table, the id sequence
\* and the rows outlive it.
LEMMA EndKeepsIInv ==
  ASSUME IInv, EndProcess, listing' = listing, symbols' = symbols, written' = written,
         synced' = synced, serial' = serial \/ serial' = serial + 1
  PROVE  IInv'
  <1>1. TypeOK'
    BY DEF IInv, TypeOK, EndProcess
  <1>2. SymbolsUnique' /\ DraftIsUnique'
    BY DEF IInv, EndProcess, SymbolsUnique, DraftIsUnique, UniqueIn
  <1>3. IdsAreSpent'
    BY DEF IInv, EndProcess, IdsAreSpent, TypeOK, Symbol
  <1>4. DraftKeepsIds' /\ DraftHoldsSoFar' /\ LoadingTheListSynced'
    BY DEF EndProcess, DraftKeepsIds, DraftHoldsSoFar, LoadingTheListSynced
  <1>5. CachesFollowTable' /\ RowsKeepTheirMarket' /\ TableHoldsOneListing'
    BY DEF IInv, EndProcess, CachesFollowTable, RowsKeepTheirMarket, TableHoldsOneListing
  <1>. QED
    BY <1>1, <1>2, <1>3, <1>4, <1>5 DEF IInv

\* The transaction begins with the table as it is.
LEMMA FetchKeepsIInv == IInv /\ Fetch => IInv'
  <1> SUFFICES ASSUME IInv, Fetch PROVE IInv'
    OBVIOUS
  <1>1. resp' \in Listings /\ resp' \in Seq(Market)
    BY ListingsAssumption DEF Fetch, IInv, TypeOK, Market
  <1>2. TypeOK'
    BY <1>1 DEF IInv, TypeOK, Fetch, Accepted, Entries
  <1>3. SymbolsUnique' /\ DraftIsUnique'
    BY DEF IInv, Fetch, SymbolsUnique, DraftIsUnique, UniqueIn
  <1>4. IdsAreSpent' /\ DraftKeepsIds' /\ DraftHoldsSoFar' /\ LoadingTheListSynced'
    BY DEF IInv, Fetch, IdsAreSpent, DraftKeepsIds, DraftHoldsSoFar, LoadingTheListSynced
  <1>5. CachesFollowTable' /\ RowsKeepTheirMarket' /\ TableHoldsOneListing'
    BY DEF IInv, Fetch, CachesFollowTable, RowsKeepTheirMarket, TableHoldsOneListing
  <1>. QED
    BY <1>2, <1>3, <1>4, <1>5 DEF IInv

LEMMA UpsertNextKeepsIInv == IInv /\ UpsertNext => IInv'
  <1> SUFFICES ASSUME IInv, UpsertNext PROVE IInv'
    OBVIOUS
  <1> DEFINE market == resp[at + 1]
  <1>1. phase = "upserting" /\ at < Len(resp) /\ at \in Nat
    BY DEF UpsertNext, IInv, TypeOK
  <1>2. resp \in Listings /\ resp \in Seq(Market) /\ Len(resp) \in Nat /\ at + 1 \in 1..Len(resp)
    BY <1>1, RespIsList DEF IInv
  <1>3. market \in Market /\ \A i \in 1..at : resp[i].market_id # market.market_id
    BY <1>1, <1>2, EntryOfListing
  <1>4. market.market_type \in MarketType
    BY <1>1, <1>2 DEF IInv, TypeOK, Entries
  <1>5. draft \in SUBSET Symbol /\ UniqueIn(draft) /\ serial \in Nat
        /\ \A row \in draft : row.id <= serial
    BY DEF IInv, TypeOK, DraftIsUnique, IdsAreSpent
  <1>6. ~Clash(draft, market) /\ draft' = Upserted(draft, market)
    BY DEF UpsertNext
  <1> HIDE DEF market
  <1>7. /\ draft' \subseteq Symbol
        /\ UniqueIn(draft')
        /\ \A row \in draft' : row.id <= serial + 1
        /\ \A row \in draft : \E new \in draft' :
             new.id = row.id /\ new.lighter_market_id = row.lighter_market_id
        /\ Holds(draft', market)
        /\ \A other \in Market :
             other.market_id # market.market_id /\ Holds(draft, other) => Holds(draft', other)
    BY <1>3, <1>4, <1>5, <1>6, UpsertKeeps
  <1>8. TypeOK'
    BY <1>1, <1>2, <1>7 DEF IInv, TypeOK, UpsertNext
  <1>9. SymbolsUnique' /\ DraftIsUnique'
    BY <1>7 DEF IInv, UpsertNext, SymbolsUnique, DraftIsUnique, UniqueIn
  <1>10. IdsAreSpent'
    <2>1. \A row \in symbols : row.id <= serial + 1
      BY <1>5 DEF IInv, IdsAreSpent, TypeOK, Symbol
    <2>. QED
      BY <2>1, <1>7 DEF UpsertNext, IdsAreSpent
  <1>11. DraftKeepsIds'
    <2> SUFFICES ASSUME NEW row \in symbols
                 PROVE  \E new \in draft' :
                          new.id = row.id /\ new.lighter_market_id = row.lighter_market_id
      BY DEF UpsertNext, DraftKeepsIds
    <2>1. PICK mid \in draft :
            mid.id = row.id /\ mid.lighter_market_id = row.lighter_market_id
      BY <1>1 DEF IInv, DraftKeepsIds
    <2>. QED
      BY <2>1, <1>7
  <1>12. DraftHoldsSoFar'
    <2> SUFFICES ASSUME NEW i \in 1..(at + 1)
                 PROVE  Holds(draft', resp[i])
      BY DEF UpsertNext, DraftHoldsSoFar
    <2>1. CASE i = at + 1
      BY <2>1, <1>7 DEF market
    <2>2. CASE i \in 1..at
      <3>1. Holds(draft, resp[i])
        BY <2>2, <1>1 DEF IInv, DraftHoldsSoFar
      <3>2. resp[i] \in Market /\ resp[i].market_id # market.market_id
        BY <2>2, <1>1, <1>2, <1>3, EntryOfListing
      <3>. QED
        BY <3>1, <3>2, <1>7
    <2>. QED
      BY <2>1, <2>2, <1>1
  <1>13. LoadingTheListSynced' /\ CachesFollowTable' /\ RowsKeepTheirMarket'
         /\ TableHoldsOneListing'
    BY DEF IInv, UpsertNext, LoadingTheListSynced, CachesFollowTable, RowsKeepTheirMarket,
           TableHoldsOneListing
  <1>. QED
    BY <1>8, <1>9, <1>10, <1>11, <1>12, <1>13 DEF IInv

\* The draft becomes the table: it holds the whole list, and the rows written
\* before keep their market because no id moved.
LEMMA CommitKeepsIInv == IInv /\ Commit => IInv'
  <1> SUFFICES ASSUME IInv, Commit PROVE IInv'
    OBVIOUS
  <1>1. phase = "upserting" /\ at = Len(resp) /\ symbols' = draft /\ synced' = resp
        /\ cache = {} /\ perps = {}
    BY DEF Commit, IInv, CachesFollowTable
  <1>2. TypeOK'
    BY DEF IInv, TypeOK, Commit
  <1>3. SymbolsUnique' /\ DraftIsUnique'
    BY DEF IInv, Commit, SymbolsUnique, DraftIsUnique, UniqueIn
  <1>4. IdsAreSpent' /\ DraftKeepsIds' /\ DraftHoldsSoFar' /\ LoadingTheListSynced'
    BY DEF IInv, Commit, IdsAreSpent, DraftKeepsIds, DraftHoldsSoFar, LoadingTheListSynced
  <1>5. CachesFollowTable'
    BY <1>1 DEF Commit, CachesFollowTable
  <1>6. RowsKeepTheirMarket'
    <2> SUFFICES ASSUME NEW entry \in written
                 PROVE  \E new \in draft : <<new.lighter_market_id, new.id>> = entry
      BY <1>1 DEF Commit, RowsKeepTheirMarket
    <2>1. PICK row \in symbols : <<row.lighter_market_id, row.id>> = entry
      BY DEF IInv, RowsKeepTheirMarket
    <2>2. PICK new \in draft :
            new.id = row.id /\ new.lighter_market_id = row.lighter_market_id
      BY <1>1 DEF IInv, DraftKeepsIds
    <2>. QED
      BY <2>1, <2>2
  <1>7. TableHoldsOneListing'
    <2>1. resp \in Seq(Market)
      BY RespIsList DEF IInv
    <2>2. \A i \in 1..Len(resp) : Holds(draft, resp[i])
      BY <1>1 DEF IInv, DraftHoldsSoFar
    <2>3. \A market \in Entries(resp) : Holds(draft, market)
      BY <2>1, <2>2 DEF Entries
    <2>. QED
      BY <1>1, <2>3 DEF TableHoldsOneListing, Holds, SymbolRow
  <1>. QED
    BY <1>2, <1>3, <1>4, <1>5, <1>6, <1>7 DEF IInv

LEMMA LoadCachesKeepsIInv == IInv /\ LoadCaches => IInv'
  <1> SUFFICES ASSUME IInv, LoadCaches PROVE IInv'
    OBVIOUS
  <1>1. TypeOK'
    <2>1. PairsOf(symbols) \subseteq MarketId \X Nat
      BY DEF IInv, TypeOK, PairsOf, Symbol
    <2>2. PerpPairsOf(symbols) \subseteq PairsOf(symbols)
      BY DEF PerpPairsOf, PairsOf
    <2>. QED
      BY <2>1, <2>2 DEF IInv, TypeOK, LoadCaches
  <1>2. SymbolsUnique' /\ DraftIsUnique'
    BY DEF IInv, LoadCaches, SymbolsUnique, DraftIsUnique, UniqueIn
  <1>3. IdsAreSpent' /\ DraftKeepsIds' /\ DraftHoldsSoFar' /\ LoadingTheListSynced'
    BY DEF IInv, LoadCaches, IdsAreSpent, DraftKeepsIds, DraftHoldsSoFar, LoadingTheListSynced
  <1>4. CachesFollowTable'
    BY DEF LoadCaches, CachesFollowTable, PairsOf
  <1>5. RowsKeepTheirMarket' /\ TableHoldsOneListing'
    BY DEF IInv, LoadCaches, RowsKeepTheirMarket, TableHoldsOneListing
  <1>. QED
    BY <1>1, <1>2, <1>3, <1>4, <1>5 DEF IInv

\* A row is written under a pair of the cache, and such a pair is in the table.
LEMMA WriteKeepsIInv ==
  ASSUME IInv, NEW entry \in cache, written' = written \cup {entry},
         UNCHANGED <<listing, relists, phase, resp, at, draft, symbols, serial, cache,
                     perps, synced, ends>>
  PROVE  IInv'
  <1>1. TypeOK'
    BY DEF IInv, TypeOK
  <1>2. SymbolsUnique' /\ DraftIsUnique' /\ IdsAreSpent' /\ DraftKeepsIds'
        /\ DraftHoldsSoFar' /\ LoadingTheListSynced' /\ CachesFollowTable'
        /\ TableHoldsOneListing'
    BY DEF IInv, SymbolsUnique, DraftIsUnique, IdsAreSpent, DraftKeepsIds, DraftHoldsSoFar,
           LoadingTheListSynced, CachesFollowTable, TableHoldsOneListing
  <1>3. RowsKeepTheirMarket'
    BY DEF IInv, CachesFollowTable, RowsKeepTheirMarket
  <1>. QED
    BY <1>1, <1>2, <1>3 DEF IInv

\* Steps that leave the table and everything the process holds alone.
LEMMA NothingTouched ==
  ASSUME IInv, listing' \in Listings, ends' \in Nat,
         \/ phase' = phase
         \/ phase = "down" /\ phase' = "fetching",
         UNCHANGED <<resp, at, draft, symbols, serial, cache, perps, written, synced>>
  PROVE  IInv'
  <1>1. TypeOK'
    BY DEF IInv, TypeOK
  <1>2. SymbolsUnique' /\ DraftIsUnique' /\ IdsAreSpent' /\ RowsKeepTheirMarket'
        /\ TableHoldsOneListing'
    BY DEF IInv, SymbolsUnique, DraftIsUnique, IdsAreSpent, RowsKeepTheirMarket,
           TableHoldsOneListing
  <1>3. DraftKeepsIds' /\ DraftHoldsSoFar' /\ LoadingTheListSynced' /\ CachesFollowTable'
    BY DEF IInv, DraftKeepsIds, DraftHoldsSoFar, LoadingTheListSynced, CachesFollowTable
  <1>. QED
    BY <1>1, <1>2, <1>3 DEF IInv

LEMMA NextKeepsIInv == IInv /\ [Next]_vars => IInv'
  <1> SUFFICES ASSUME IInv, [Next]_vars PROVE IInv'
    OBVIOUS
  <1>1. CASE Relist
    BY <1>1, NothingTouched DEF Relist, IInv, TypeOK
  <1>2. CASE Start
    BY <1>2, NothingTouched DEF Start, IInv, TypeOK
  <1>3. CASE Fetch
    BY <1>3, FetchKeepsIInv
  <1>4. CASE FetchRefused
    BY <1>4, EndKeepsIInv DEF FetchRefused
  <1>5. CASE UpsertNext
    BY <1>5, UpsertNextKeepsIInv
  <1>6. CASE UpsertRefused
    BY <1>6, EndKeepsIInv DEF UpsertRefused
  <1>7. CASE Commit
    BY <1>7, CommitKeepsIInv
  <1>8. CASE LoadCaches
    BY <1>8, LoadCachesKeepsIInv
  <1>9. CASE WriteMarketData
    BY <1>9, WriteKeepsIInv DEF WriteMarketData
  <1>10. CASE WriteFunding
    <2>1. PICK entry \in perps : written' = written \cup {entry}
      BY <1>10 DEF WriteFunding
    <2>2. entry \in cache
      BY <2>1 DEF IInv, TypeOK
    <2>. QED
      BY <1>10, <2>1, <2>2, WriteKeepsIInv DEF WriteFunding
  <1>11. CASE Exit
    BY <1>11, EndKeepsIInv DEF Exit
  <1>12. CASE UNCHANGED vars
    BY <1>12, NothingTouched DEF vars, IInv, TypeOK
  <1>. QED
    BY <1>1, <1>2, <1>3, <1>4, <1>5, <1>6, <1>7, <1>8, <1>9, <1>10, <1>11, <1>12 DEF Next

\* A running process read its caches from the table that holds its list.
LEMMA InvariantServes == IInv => EveryListedMarketIsServed
  <1> SUFFICES ASSUME IInv, phase = "running", NEW market \in Entries(synced)
               PROVE  \E row \in symbols :
                        /\ SymbolRow(row.id, market) = row
                        /\ <<market.market_id, row.id>> \in cache
                        /\ market.market_type = "perp" => <<market.market_id, row.id>> \in perps
    BY DEF EveryListedMarketIsServed
  <1>1. PICK row \in symbols : SymbolRow(row.id, market) = row
    BY DEF IInv, TableHoldsOneListing
  <1>2. row.lighter_market_id = market.market_id /\ row.market_type = market.market_type
    BY <1>1 DEF SymbolRow
  <1>3. cache = PairsOf(symbols) /\ perps = PerpPairsOf(symbols)
    BY DEF IInv, CachesFollowTable
  <1>. QED
    BY <1>1, <1>2, <1>3 DEF PairsOf, PerpPairsOf
-----------------------------------------------------------------------------
(* Theorems *)

\* The inductive invariant holds in every reachable state.
THEOREM Invariance == Spec => []IInv
  BY InitIInv, NextKeepsIInv, PTL DEF Spec

\* Types of the table, the transaction and the caches.
THEOREM TypeCorrect == Spec => []TypeOK
  <1>1. IInv => TypeOK
    BY DEF IInv
  <1>. QED
    BY <1>1, Invariance, PTL

\* Every statement keeps all three keys of the symbols table, so an upsert that
\* is not refused never stores two rows of one market, id or name.
THEOREM TableUnique == Spec => []SymbolsUnique
  <1>1. IInv => SymbolsUnique
    BY DEF IInv
  <1>. QED
    BY <1>1, Invariance, PTL

\* The id of a stored row belongs to its market for ever (upsert_symbol).
THEOREM IdsStay == Spec => []RowsKeepTheirMarket
  <1>1. IInv => RowsKeepTheirMarket
    BY DEF IInv
  <1>. QED
    BY <1>1, Invariance, PTL

\* The transaction of sync_symbols leaves a whole list or nothing.
THEOREM WholeLists == Spec => []TableHoldsOneListing
  <1>1. IInv => TableHoldsOneListing
    BY DEF IInv
  <1>. QED
    BY <1>1, Invariance, PTL

\* Whatever was listed when the process started is served under its own id
\* (load_symbol_cache, load_perp_markets).
THEOREM AllServed == Spec => []EveryListedMarketIsServed
  BY InvariantServes, Invariance, PTL
=============================================================================
