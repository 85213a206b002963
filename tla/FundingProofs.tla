--------------------------- MODULE FundingProofs ---------------------------
(***************************************************************************)
(* Theorems about the funding poller for any markets, settlements, grid,   *)
(* page size and faults.  The argument: `start` is never past a settlement *)
(* that is not stored, and a page that passes validate_page goes on from   *)
(* `start` without leaving one out.                                        *)
(* Then about the requests of the poller and of the syncs (RequestRate).   *)
(* The argument: from any request on, the ones that are not starts, less   *)
(* one for each start, each took a spacing of the time since.              *)
(***************************************************************************)
EXTENDS Funding, RequestRate, SequenceTheorems, TLAPS

(* Hours *)

LEMMA HourIsPositive == Hour \in Nat \ {0}
  BY FundingAssumption

\* The grid: an hour begins at or before the time and ends after it.
LEMMA FloorHourBounds ==
  ASSUME NEW t \in Nat
  PROVE  /\ FloorHour(t) \in Nat
         /\ FloorHour(t) <= t
         /\ t < FloorHour(t) + Hour
  BY HourIsPositive DEF FloorHour

\* The beginning of an hour is a whole number of hours.
LEMMA FloorHourOnGrid ==
  ASSUME NEW t \in Nat
  PROVE  \E q \in Nat : FloorHour(t) = q * Hour
  BY HourIsPositive DEF FloorHour

\* A time lies in one hour only.
LEMMA OneHour ==
  ASSUME NEW p \in Nat, NEW q \in Nat, NEW t \in Nat,
         p * Hour <= t, t < p * Hour + Hour,
         q * Hour <= t, t < q * Hour + Hour
  PROVE  p = q
  BY HourIsPositive

\* Every time of an hour has the beginning of that hour as its floor.
LEMMA SameHour ==
  ASSUME NEW s \in Nat, NEW t \in Nat,
         FloorHour(s) <= t, t < FloorHour(s) + Hour
  PROVE  FloorHour(t) = FloorHour(s)
<1>1. PICK p \in Nat : FloorHour(s) = p * Hour
  BY FloorHourOnGrid
<1>2. PICK q \in Nat : FloorHour(t) = q * Hour
  BY FloorHourOnGrid
<1>3. p = q
  BY <1>1, <1>2, FloorHourBounds, OneHour
<1> QED
  BY <1>1, <1>2, <1>3

\* ceil_hour does not go back, and reaches less than an hour ahead.
LEMMA CeilHourBounds ==
  ASSUME NEW t \in Nat
  PROVE  CeilHour(t) \in Nat /\ t <= CeilHour(t)
  BY FloorHourBounds, HourIsPositive DEF CeilHour

\* Nothing settles between a settlement and the request start that follows it.
LEMMA NothingBeforeNextStart ==
  ASSUME NEW m \in Market, NEW s \in Settlements[m], NEW t \in Settlements[m],
         s < t
  PROVE  CeilHour(s + 1) <= t
<1>1. s \in Nat /\ t \in Nat
  BY HourlySettlements
<1>2. SUFFICES ASSUME t < CeilHour(s + 1) PROVE FALSE
  BY <1>1, CeilHourBounds
<1>3. FloorHour(s + 1) # s + 1
  BY <1>1, <1>2 DEF CeilHour
<1>4. CeilHour(s + 1) = FloorHour(s + 1) + Hour
  BY <1>3 DEF CeilHour
<1>5. FloorHour(s + 1) <= s /\ s < FloorHour(s + 1) + Hour
  <2>1. s + 1 \in Nat
    BY <1>1
  <2>2. /\ FloorHour(s + 1) \in Nat
        /\ FloorHour(s + 1) <= s + 1
        /\ s + 1 < FloorHour(s + 1) + Hour
    BY <2>1, FloorHourBounds
  <2> QED
    BY <1>1, <1>3, <2>2, HourIsPositive
<1>6. FloorHour(s) = FloorHour(s + 1)
  <2>1. s + 1 \in Nat
    BY <1>1
  <2> QED
    BY <1>1, <1>5, <2>1, SameHour
<1>7. FloorHour(t) = FloorHour(s + 1)
  <2>1. FloorHour(s + 1) \in Nat
    BY <1>1, FloorHourBounds
  <2>2. FloorHour(s + 1) <= t /\ t < FloorHour(s + 1) + Hour
    BY <1>1, <1>2, <1>4, <1>5, <2>1, HourIsPositive
  <2> QED
    BY <1>1, <2>2, SameHour, s + 1 \in Nat
<1> QED
  BY <1>1, <1>6, <1>7, HourlySettlements
-----------------------------------------------------------------------------
(* The inductive invariant *)

\* The API shows settlements in the order of their times.
ShownInOrder ==
  \A m \in Market : \A u \in settled[m] : \A t \in Settlements[m] \ settled[m] : u < t

\* The newest stored settlement exists.
HasNewest ==
  \A m \in Market : table[m] # {} => \E t \in table[m] : \A u \in table[m] : u <= t

\* The request start is past everything stored, and past nothing that is wanted
\* and not stored.
StartFollowsTable ==
  pc \in {"deciding", "asking", "fetched"} =>
    /\ CeilHour(BackfillStart) <= start
    /\ \A t \in table[Polled] : t < start
    /\ \A t \in Wanted(Polled) : t < start => t \in table[Polled]

\* An answer that validate_page can accept, now or later, holds settlements the
\* API shows, and leaves none out before its last one.
Acceptable(rows) ==
  /\ \A i \in DOMAIN rows : start <= rows[i] /\ rows[i] <= MaxTime
  /\ Increasing(rows)
PageLeavesNothingOut ==
  (pc = "fetched" /\ Acceptable(page)) =>
    /\ Contents(page) \subseteq settled[Polled]
    /\ \A t \in Settlements[Polled] : \A i \in DOMAIN page :
         (start <= t /\ t < page[i]) => t \in Contents(page)

IInv ==
  /\ TypeOK
  /\ OnlySettlements
  /\ NoGapBelowNewest
  /\ ShownInOrder
  /\ HasNewest
  /\ StartFollowsTable
  /\ PageLeavesNothingOut

LEMMA PolledIsMarket ==
  ASSUME turn \in DOMAIN Markets
  PROVE  Polled \in Market
  BY DEF Polled, Market

LEMMA BackfillHour == CeilHour(BackfillStart) \in Nat
  BY CeilHourBounds, FundingAssumption

\* The newest of a set that has one.
LEMMA NewestIsNewest ==
  ASSUME NEW S, \E t \in S : \A u \in S : u <= t
  PROVE  Newest(S) \in S /\ \A u \in S : u <= Newest(S)
  BY DEF Newest

LEMMA FirstMarket == 1 \in DOMAIN Markets
  BY FundingAssumption

LEMMA InitIInv == Init => IInv
<1> SUFFICES ASSUME Init PROVE IInv
  OBVIOUS
<1>1. TypeOK
  BY FirstMarket, FundingAssumption DEF Init, TypeOK
<1>2. OnlySettlements /\ NoGapBelowNewest /\ ShownInOrder /\ HasNewest
  BY DEF Init, OnlySettlements, NoGapBelowNewest, ShownInOrder, HasNewest, Wanted
<1>3. StartFollowsTable /\ PageLeavesNothingOut
  BY DEF Init, StartFollowsTable, PageLeavesNothingOut
<1> QED
  BY <1>1, <1>2, <1>3 DEF IInv
-----------------------------------------------------------------------------
(* Every step keeps it *)

LEMMA Finished == ASSUME NEW rows \in Seq(Nat), rows # <<>>
                  PROVE  Len(rows) \in DOMAIN rows /\ rows[Len(rows)] \in Nat
  OBVIOUS

\* A step that leaves the tables alone and poll_market behind.
LEMMA LeavingPollMarket ==
  ASSUME IInv, TypeOK', UNCHANGED <<settled, table>>,
         pc' \in {"reading", "sleeping"}
  PROVE  IInv'
<1>1. OnlySettlements' /\ NoGapBelowNewest'
  BY DEF IInv, OnlySettlements, NoGapBelowNewest, Wanted
<1>2. ShownInOrder' /\ HasNewest'
  BY DEF IInv, ShownInOrder, HasNewest
<1>3. StartFollowsTable' /\ PageLeavesNothingOut'
  BY DEF StartFollowsTable, PageLeavesNothingOut
<1> QED
  BY <1>1, <1>2, <1>3 DEF IInv

LEMMA MarketDoneTyped ==
  ASSUME TypeOK, MarketDone
  PROVE  /\ pc' \in {"reading", "sleeping"}
         /\ turn' \in DOMAIN Markets
         /\ page' = <<>>
<1>1. Markets \in Seq(Market)
  BY FundingAssumption
<1> QED
  BY <1>1, FirstMarket DEF MarketDone, TypeOK

LEMMA SettleKeepsIInv ==
  ASSUME IInv, NEW m \in Market, Settle(m)
  PROVE  IInv'
<1>1. PICK t \in Settlements[m] \ settled[m] :
        /\ \A u \in Settlements[m] \ settled[m] : t <= u
        /\ settled' = [settled EXCEPT ![m] = @ \cup {t}]
  BY DEF Settle
<1>2. \A k \in Market : settled[k] \subseteq settled'[k]
  BY <1>1 DEF IInv, TypeOK
<1>3. UNCHANGED <<now, table, pc, turn, start, page, faults>>
  BY DEF Settle
<1>4. Polled' = Polled /\ Polled \in Market
  BY <1>3, PolledIsMarket DEF IInv, TypeOK, Polled
<1>5. \A k \in Market : Settlements[k] \subseteq Nat
  BY HourlySettlements
<1>6. TypeOK'
  BY <1>1, <1>3 DEF IInv, TypeOK
<1>7. OnlySettlements'
  BY <1>2, <1>3 DEF IInv, OnlySettlements, Wanted
<1>8. NoGapBelowNewest' /\ HasNewest'
  BY <1>3 DEF IInv, NoGapBelowNewest, HasNewest, Wanted
<1>9. ShownInOrder'
  <2> SUFFICES ASSUME NEW k \in Market, NEW u \in settled'[k],
                      NEW v \in Settlements[k] \ settled'[k]
               PROVE  u < v
    BY DEF ShownInOrder
  <2>1. CASE u \in settled[k]
    BY <1>2, <2>1 DEF IInv, ShownInOrder
  <2>2. CASE u \notin settled[k]
    <3>1. k = m /\ u = t
      BY <1>1, <2>2 DEF IInv, TypeOK
    <3>2. v \in Settlements[m] \ settled[m] /\ v # t
      BY <1>1, <1>2, <3>1 DEF IInv, TypeOK
    <3>3. t <= v /\ t \in Nat /\ v \in Nat
      BY <1>1, <1>5, <3>2
    <3> QED
      BY <3>1, <3>2, <3>3
  <2> QED
    BY <2>1, <2>2
<1>10. StartFollowsTable'
  BY <1>3, <1>4 DEF IInv, StartFollowsTable, Wanted
<1>11. PageLeavesNothingOut'
  BY <1>2, <1>3, <1>4 DEF IInv, PageLeavesNothingOut, Acceptable, Contents
<1> QED
  BY <1>6, <1>7, <1>8, <1>9, <1>10, <1>11 DEF IInv

LEMMA ReadNewestKeepsIInv ==
  ASSUME IInv, ReadNewest
  PROVE  IInv'
<1>1. /\ pc' = "deciding"
      /\ start' = NextRequestStart(table[Polled])
      /\ UNCHANGED <<now, settled, table, turn, page, faults>>
  BY DEF ReadNewest
<1>2. Polled' = Polled /\ Polled \in Market
  BY <1>1, PolledIsMarket DEF IInv, TypeOK, Polled
<1>3. /\ start' \in Nat
      /\ CeilHour(BackfillStart) <= start'
      /\ \A t \in table[Polled] : t < start'
      /\ \A t \in Wanted(Polled) : t < start' => t \in table[Polled]
  <2>1. CASE table[Polled] = {}
    BY <1>1, <2>1, BackfillHour, HourlySettlements, <1>2 DEF NextRequestStart, Wanted
  <2>2. CASE table[Polled] # {}
    <3> DEFINE s == Newest(table[Polled])
    <3>1. s \in table[Polled] /\ \A u \in table[Polled] : u <= s
      BY <1>2, <2>2, NewestIsNewest DEF IInv, HasNewest
    <3>2. s \in Wanted(Polled) /\ table[Polled] \subseteq Wanted(Polled)
      BY <1>2, <3>1 DEF IInv, OnlySettlements
    <3>3. Wanted(Polled) \subseteq Nat /\ Wanted(Polled) \subseteq Settlements[Polled]
      BY <1>2, HourlySettlements DEF Wanted
    <3>4. start' = CeilHour(s + 1)
      BY <1>1, <2>2 DEF NextRequestStart
    <3>5. start' \in Nat /\ s + 1 <= start' /\ s \in Nat
      <4>1. s \in Nat
        BY <3>2, <3>3
      <4>2. s + 1 \in Nat
        BY <4>1
      <4>3. CeilHour(s + 1) \in Nat /\ s + 1 <= CeilHour(s + 1)
        BY <4>2, CeilHourBounds
      <4> QED
        BY <3>4, <4>1, <4>3
    <3>6. CeilHour(BackfillStart) <= start'
      <4>1. CeilHour(BackfillStart) <= s
        BY <3>2 DEF Wanted
      <4> QED
        BY <3>5, <4>1, BackfillHour
    <3>7. ASSUME NEW t \in table[Polled] PROVE t < start'
      <4>1. t <= s /\ t \in Nat
        BY <3>1, <3>2, <3>3
      <4> QED
        BY <3>5, <4>1
    <3>8. ASSUME NEW t \in Wanted(Polled), t < start' PROVE t \in table[Polled]
      <4>1. t \in Nat /\ t \in Settlements[Polled] /\ s \in Settlements[Polled]
        BY <3>2, <3>3
      <4>2. ~(s < t)
        BY <1>2, <3>4, <3>5, <3>8, <4>1, NothingBeforeNextStart
      <4>3. t <= s
        BY <3>5, <4>1, <4>2
      <4> QED
        BY <1>2, <3>1, <4>3 DEF IInv, NoGapBelowNewest
    <3> QED
      BY <3>5, <3>6, <3>7, <3>8
  <2> QED
    BY <2>1, <2>2
<1>4. TypeOK'
  BY <1>1, <1>3 DEF IInv, TypeOK
<1>5. OnlySettlements' /\ NoGapBelowNewest' /\ ShownInOrder' /\ HasNewest'
  BY <1>1 DEF IInv, OnlySettlements, NoGapBelowNewest, ShownInOrder, HasNewest, Wanted
<1>6. StartFollowsTable'
  BY <1>1, <1>2, <1>3 DEF StartFollowsTable, Wanted
<1>7. PageLeavesNothingOut'
  BY <1>1 DEF PageLeavesNothingOut
<1> QED
  BY <1>4, <1>5, <1>6, <1>7 DEF IInv

LEMMA DecideKeepsIInv ==
  ASSUME IInv, Decide
  PROVE  IInv'
<1>1. UNCHANGED <<now, settled, table, start, faults>>
  BY DEF Decide
<1>2. CASE HourClosed
  <2>1. pc' = "asking" /\ UNCHANGED <<turn, page>> /\ pc = "deciding"
    BY <1>2 DEF Decide
  <2>2. Polled' = Polled
    BY <2>1 DEF Polled
  <2>3. TypeOK'
    BY <1>1, <2>1 DEF IInv, TypeOK
  <2>4. OnlySettlements' /\ NoGapBelowNewest' /\ ShownInOrder' /\ HasNewest'
    BY <1>1 DEF IInv, OnlySettlements, NoGapBelowNewest, ShownInOrder, HasNewest, Wanted
  <2>5. StartFollowsTable' /\ PageLeavesNothingOut'
    BY <1>1, <2>1, <2>2 DEF IInv, StartFollowsTable, PageLeavesNothingOut, Wanted
  <2> QED
    BY <2>3, <2>4, <2>5 DEF IInv
<1>3. CASE ~HourClosed
  <2>1. MarketDone /\ TypeOK
    BY <1>3 DEF Decide, IInv
  <2>2. pc' \in {"reading", "sleeping"} /\ turn' \in DOMAIN Markets /\ page' = <<>>
    BY <2>1, MarketDoneTyped
  <2>3. TypeOK'
    BY <1>1, <2>1, <2>2 DEF TypeOK
  <2> QED
    BY <1>1, <2>2, <2>3, LeavingPollMarket
<1> QED
  BY <1>2, <1>3

\* What the API answers, or a fault makes of it, leaves nothing out if
\* validate_page can accept it.
LEMMA AnswerLeavesNothingOut ==
  ASSUME IInv, NEW m \in Market, NEW rows \in Seq(Nat), Answer(m, rows), Acceptable(rows)
  PROVE  /\ Contents(rows) \subseteq settled[m]
         /\ \A t \in Settlements[m] : \A i \in DOMAIN rows :
              (start <= t /\ t < rows[i]) => t \in Contents(rows)
<1>1. Increasing(rows) /\ \A i \in DOMAIN rows : start <= rows[i] /\ rows[i] # Milliseconds
  BY FundingAssumption DEF Acceptable
<1>2. start \in Nat /\ now \in Nat /\ \A i \in DOMAIN rows : rows[i] \in Nat
  BY FundingAssumption DEF IInv, TypeOK
<1>3. rows \in Pages(Window(m)) /\ Earliest(m, rows)
  BY <1>1, <1>2 DEF Answer
<1>4. \A i \in DOMAIN rows : rows[i] \in Window(m)
  BY <1>3 DEF Pages
<1>5. Contents(rows) \subseteq settled[m]
  BY <1>4 DEF Contents, Window
<1>6. ASSUME NEW t \in Settlements[m], NEW i \in DOMAIN rows, start <= t, t < rows[i]
      PROVE  t \in Contents(rows)
  <2>1. rows[i] \in settled[m] /\ rows[i] <= FloorHour(now) /\ t \in Nat
    BY <1>4, HourlySettlements DEF Window
  <2>2. t \in settled[m]
    BY <1>2, <1>6, <2>1 DEF IInv, ShownInOrder
  <2>3. t <= FloorHour(now)
    BY <1>2, <1>6, <2>1, FloorHourBounds
  <2>4. t \in Window(m)
    BY <1>6, <2>2, <2>3 DEF Window
  <2> QED
    BY <1>3, <1>6, <2>4 DEF Earliest
<1> QED
  BY <1>5, <1>6

LEMMA FetchPageKeepsIInv ==
  ASSUME IInv, FetchPage
  PROVE  IInv'
<1>1. /\ pc = "asking" /\ pc' = "fetched"
      /\ UNCHANGED <<now, settled, table, turn, start>>
  BY DEF FetchPage
<1>2. page' \in Pages(Settlements[Polled] \cup {Milliseconds}) /\ Answer(Polled, page')
  BY DEF FetchPage
<1>3. Polled' = Polled /\ Polled \in Market
  BY <1>1, PolledIsMarket DEF IInv, TypeOK, Polled
<1>4. page' \in Seq(Nat)
  <2>1. Settlements[Polled] \cup {Milliseconds} \subseteq Nat
    BY <1>3, HourlySettlements, FundingAssumption
  <2>2. PICK n \in 0..MaxPage : page' \in [1..n -> Settlements[Polled] \cup {Milliseconds}]
    BY <1>2 DEF Pages
  <2>3. n \in Nat /\ page' \in [1..n -> Nat]
    BY <2>1, <2>2, FundingAssumption
  <2> QED
    BY <2>3
<1>5. faults' \in 0..MaxFaults
  BY <1>2, FundingAssumption DEF Answer, Inject, IInv, TypeOK
<1>6. TypeOK'
  BY <1>1, <1>4, <1>5 DEF IInv, TypeOK
<1>7. OnlySettlements' /\ NoGapBelowNewest' /\ ShownInOrder' /\ HasNewest'
  BY <1>1 DEF IInv, OnlySettlements, NoGapBelowNewest, ShownInOrder, HasNewest, Wanted
<1>8. StartFollowsTable'
  BY <1>1, <1>3 DEF IInv, StartFollowsTable, Wanted
<1>9. PageLeavesNothingOut'
  <2>1. SUFFICES ASSUME Acceptable(page')
        PROVE  /\ Contents(page') \subseteq settled[Polled]
               /\ \A t \in Settlements[Polled] : \A i \in DOMAIN page' :
                    (start <= t /\ t < page'[i]) => t \in Contents(page')
    BY <1>1, <1>3 DEF PageLeavesNothingOut, Acceptable, Contents
  <2> QED
    BY <1>2, <1>3, <1>4, <2>1, AnswerLeavesNothingOut
<1> QED
  BY <1>6, <1>7, <1>8, <1>9 DEF IInv

LEMMA StorePageKeepsIInv ==
  ASSUME IInv, StorePage
  PROVE  IInv'
<1> DEFINE m == Polled
           last == page[Len(page)]
<1>1. pc = "fetched" /\ ValidatePage(page) /\ UNCHANGED <<now, settled, faults>>
  BY DEF StorePage
<1>2. m \in Market /\ TypeOK
  BY PolledIsMarket DEF IInv, TypeOK
<1>3. CASE page = <<>>
  <2>1. MarketDone /\ UNCHANGED <<table, start>>
    BY <1>3 DEF StorePage
  <2>2. pc' \in {"reading", "sleeping"} /\ turn' \in DOMAIN Markets /\ page' = <<>>
    BY <1>2, <2>1, MarketDoneTyped
  <2>3. TypeOK'
    BY <1>1, <1>2, <2>1, <2>2 DEF TypeOK
  <2> QED
    BY <1>1, <2>1, <2>2, <2>3, LeavingPollMarket
<1>4. CASE page # <<>>
  <2>1. table' = [table EXCEPT ![m] = @ \cup Contents(page)]
    BY <1>4 DEF StorePage
  <2>2. /\ Len(page) \in DOMAIN page /\ last \in Nat /\ start \in Nat /\ now \in 0..MaxTime
        /\ \A i \in DOMAIN page : page[i] \in Nat
    BY <1>2, <1>4, Finished DEF TypeOK
  <2>3. Acceptable(page)
    BY <1>1, <2>2, FundingAssumption DEF ValidatePage, Acceptable, Increasing
  <2>4. /\ Contents(page) \subseteq settled[m]
        /\ \A t \in Settlements[m] : \A i \in DOMAIN page :
             (start <= t /\ t < page[i]) => t \in Contents(page)
    BY <1>1, <2>3 DEF IInv, PageLeavesNothingOut
  <2>5. /\ CeilHour(BackfillStart) <= start
        /\ \A t \in table[m] : t < start
        /\ \A t \in Wanted(m) : t < start => t \in table[m]
    BY <1>1 DEF IInv, StartFollowsTable
  <2>6. \A u \in Contents(page) : u \in Nat /\ start <= u
    BY <1>1, <2>2 DEF ValidatePage, Contents
  <2>7. Contents(page) \subseteq Wanted(m)
    BY <1>2, <2>2, <2>4, <2>5, <2>6, BackfillHour DEF Wanted, TypeOK
  <2>8. last \in Contents(page) /\ \A u \in Contents(page) : u <= last
    <3>1. \A i \in DOMAIN page : i = Len(page) \/ i < Len(page)
      BY <1>2 DEF TypeOK
    <3> QED
      BY <2>2, <2>3, <3>1 DEF Acceptable, Increasing, Contents
  <2>9. /\ \A k \in Market \ {m} : table'[k] = table[k]
        /\ table'[m] = table[m] \cup Contents(page)
        /\ table' \in [Market -> SUBSET Nat]
    BY <1>2, <2>1, <2>6 DEF TypeOK
  <2>10. \A u \in table'[m] : u <= last
    <3>1. \A u \in table[m] : u \in Nat
      BY <1>2 DEF TypeOK
    <3> QED
      BY <2>2, <2>5, <2>6, <2>8, <2>9, <3>1
  <2>11. ASSUME NEW t \in Wanted(m), NEW u \in table'[m], t <= u
         PROVE  t \in table'[m]
    <3>1. t \in Nat /\ t \in Settlements[m]
      BY <1>2, HourlySettlements DEF Wanted
    <3>2. CASE t < start
      BY <2>5, <2>9, <3>2
    <3>3. CASE start <= t
      <4>1. u \in Contents(page)
        <5>1. CASE u \in table[m]
          <6>1. u \in Nat /\ u < start
            BY <1>2, <2>5, <5>1 DEF TypeOK
          <6> QED
            BY <2>2, <2>11, <3>1, <3>3, <6>1
        <5> QED
          BY <2>9, <2>11, <5>1
      <4>2. PICK i \in DOMAIN page : u = page[i]
        BY <4>1 DEF Contents
      <4>3. t = u \/ t < page[i]
        BY <2>2, <2>11, <3>1, <4>2
      <4> QED
        BY <2>4, <2>9, <3>1, <3>3, <4>1, <4>3
    <3> QED
      BY <2>2, <3>1, <3>2, <3>3
  <2>12. OnlySettlements'
    BY <1>1, <2>4, <2>7, <2>9 DEF IInv, OnlySettlements, Wanted
  <2>13. NoGapBelowNewest'
    BY <2>9, <2>11 DEF IInv, NoGapBelowNewest, Wanted
  <2>14. ShownInOrder'
    BY <1>1 DEF IInv, ShownInOrder
  <2>15. HasNewest'
    BY <2>8, <2>9, <2>10 DEF IInv, HasNewest
  <2>16. CASE Len(page) < MaxPage
    <3>1. MarketDone /\ UNCHANGED start
      BY <1>4, <2>16 DEF StorePage
    <3>2. pc' \in {"reading", "sleeping"} /\ turn' \in DOMAIN Markets /\ page' = <<>>
      BY <1>2, <3>1, MarketDoneTyped
    <3>3. TypeOK'
      BY <1>1, <1>2, <2>9, <3>1, <3>2 DEF TypeOK
    <3>4. StartFollowsTable' /\ PageLeavesNothingOut'
      BY <3>2 DEF StartFollowsTable, PageLeavesNothingOut
    <3> QED
      BY <2>12, <2>13, <2>14, <2>15, <3>3, <3>4 DEF IInv
  <2>17. CASE ~(Len(page) < MaxPage)
    <3>1. /\ start' = NextRequestStart({last})
          /\ pc' = "deciding" /\ page' = <<>>
          /\ UNCHANGED turn
      BY <1>4, <2>17 DEF StorePage
    <3>2. Newest({last}) = last
      BY <2>2 DEF Newest
    <3>3. start' = CeilHour(last + 1)
      BY <3>1, <3>2 DEF NextRequestStart
    <3>4. start' \in Nat /\ last + 1 <= start'
      <4>1. last + 1 \in Nat
        BY <2>2
      <4> QED
        BY <3>3, <4>1, CeilHourBounds
    <3>5. TypeOK'
      BY <1>1, <1>2, <2>9, <3>1, <3>4 DEF TypeOK
    <3>6. CeilHour(BackfillStart) <= start'
      BY <2>2, <2>5, <2>6, <2>8, <3>4, BackfillHour
    <3>7. \A t \in table'[m] : t < start'
      <4>1. \A t \in table'[m] : t \in Nat
        BY <1>2, <2>9
      <4> QED
        BY <2>2, <2>10, <3>4, <4>1
    <3>8. ASSUME NEW t \in Wanted(m), t < start' PROVE t \in table'[m]
      <4>1. t \in Nat /\ t \in Settlements[m] /\ last \in Settlements[m]
        BY <1>2, <2>7, <2>8, HourlySettlements DEF Wanted
      <4>2. ~(last < t)
        BY <1>2, <3>3, <3>4, <3>8, <4>1, NothingBeforeNextStart
      <4>3. t <= last /\ last \in table'[m]
        BY <2>2, <2>8, <2>9, <4>1, <4>2
      <4> QED
        BY <2>11, <4>3
    <3>9. StartFollowsTable'
      <4>1. Polled' = m
        BY <3>1 DEF Polled
      <4> QED
        BY <3>6, <3>7, <3>8, <4>1 DEF StartFollowsTable, Wanted
    <3>10. PageLeavesNothingOut'
      BY <3>1 DEF PageLeavesNothingOut
    <3> QED
      BY <2>12, <2>13, <2>14, <2>15, <3>5, <3>9, <3>10 DEF IInv
  <2> QED
    BY <2>16, <2>17
<1> QED
  BY <1>3, <1>4

LEMMA RestartKeepsIInv ==
  ASSUME IInv, Restart, faults' \in 0..MaxFaults
  PROVE  IInv'
<1>1. TypeOK'
  BY FirstMarket DEF Restart, IInv, TypeOK
<1> QED
  BY <1>1, LeavingPollMarket DEF Restart

LEMMA TickKeepsIInv ==
  ASSUME IInv, Tick
  PROVE  IInv'
<1>1. UNCHANGED <<settled, table, pc, turn, start, page>> /\ Polled' = Polled
  BY DEF Tick, Polled
<1>2. TypeOK'
  BY <1>1, FundingAssumption DEF Tick, Inject, IInv, TypeOK
<1>3. OnlySettlements' /\ NoGapBelowNewest' /\ ShownInOrder' /\ HasNewest'
  BY <1>1 DEF IInv, OnlySettlements, NoGapBelowNewest, ShownInOrder, HasNewest, Wanted
<1>4. StartFollowsTable' /\ PageLeavesNothingOut'
  BY <1>1 DEF IInv, StartFollowsTable, PageLeavesNothingOut, Acceptable, Increasing,
              Contents, Wanted
<1> QED
  BY <1>2, <1>3, <1>4 DEF IInv

LEMMA NextKeepsIInv == IInv /\ [Next]_vars => IInv'
<1> SUFFICES ASSUME IInv, [Next]_vars PROVE IInv'
  OBVIOUS
<1>1. CASE \E m \in Market : Settle(m)
  BY <1>1, SettleKeepsIInv
<1>2. CASE Tick
  BY <1>2, TickKeepsIInv
<1>3. CASE ReadNewest
  BY <1>3, ReadNewestKeepsIInv
<1>4. CASE Decide
  BY <1>4, DecideKeepsIInv
<1>5. CASE FetchPage
  BY <1>5, FetchPageKeepsIInv
<1>6. CASE RequestRefused
  BY <1>6, RestartKeepsIInv DEF RequestRefused, IInv, TypeOK
<1>7. CASE StorePage
  BY <1>7, StorePageKeepsIInv
<1>8. CASE RefusePage
  BY <1>8, RestartKeepsIInv DEF RefusePage, IInv, TypeOK
<1>9. CASE Wake
  <2>1. TypeOK' /\ UNCHANGED <<settled, table>> /\ pc' = "reading"
    BY <1>9 DEF Wake, IInv, TypeOK
  <2> QED
    BY <2>1, LeavingPollMarket
<1>10. CASE Exit
  <2>1. faults' \in 0..MaxFaults
    BY <1>10, FundingAssumption DEF Exit, Inject, IInv, TypeOK
  <2> QED
    BY <1>10, <2>1, RestartKeepsIInv DEF Exit
<1>11. CASE UNCHANGED vars
  <2>1. UNCHANGED <<now, settled, table, pc, turn, start, page, faults>> /\ Polled' = Polled
    BY <1>11 DEF vars, Polled
  <2>2. TypeOK'
    BY <2>1 DEF IInv, TypeOK
  <2>3. OnlySettlements' /\ NoGapBelowNewest' /\ ShownInOrder' /\ HasNewest'
    BY <2>1 DEF IInv, OnlySettlements, NoGapBelowNewest, ShownInOrder, HasNewest, Wanted
  <2>4. StartFollowsTable' /\ PageLeavesNothingOut'
    BY <2>1 DEF IInv, StartFollowsTable, PageLeavesNothingOut, Acceptable, Increasing,
                Contents, Wanted
  <2> QED
    BY <2>2, <2>3, <2>4 DEF IInv
<1> QED
  BY <1>1, <1>2, <1>3, <1>4, <1>5, <1>6, <1>7, <1>8, <1>9, <1>10, <1>11 DEF Next

\* A page was stored and paging goes on: the new start is past the page.
LEMMA StorePageAdvances ==
  ASSUME IInv, StorePage, pc' = "deciding"
  PROVE  start' > start
<1>1. page # <<>> /\ pc = "fetched" /\ ValidatePage(page)
  BY DEF StorePage, MarketDone
<1>2. start' = NextRequestStart({page[Len(page)]})
  BY <1>1 DEF StorePage, MarketDone
<1>3. page[Len(page)] \in Nat /\ start \in Nat /\ start <= page[Len(page)]
  BY <1>1, Finished DEF IInv, TypeOK, ValidatePage
<1>4. Newest({page[Len(page)]}) = page[Len(page)]
  BY <1>3 DEF Newest
<1>5. start' = CeilHour(page[Len(page)] + 1)
  BY <1>2, <1>4 DEF NextRequestStart
<1>6. page[Len(page)] + 1 \in Nat
  BY <1>3
<1>7. start' \in Nat /\ page[Len(page)] + 1 <= start'
  BY <1>5, <1>6, CeilHourBounds
<1> QED
  BY <1>3, <1>7
-----------------------------------------------------------------------------
(* Theorems *)

\* The inductive invariant holds in every reachable state.
THEOREM Invariance == Spec => []IInv
  BY InitIInv, NextKeepsIInv, PTL DEF Spec

\* Types of the poller, its table and the pages it is given.
THEOREM TypeCorrect == Spec => []TypeOK
<1>1. IInv => TypeOK
  BY DEF IInv
<1> QED
  BY <1>1, Invariance, PTL

\* Nothing but settlements from the backfill start on is ever stored
\* (validate_page).
THEOREM StoredAreSettlements == Spec => []OnlySettlements
<1>1. IInv => OnlySettlements
  BY DEF IInv
<1> QED
  BY <1>1, Invariance, PTL

\* No settlement is ever left out below the newest stored one
\* (next_request_start, poll_market), wherever pages end and processes exit.
THEOREM NoGap == Spec => []NoGapBelowNewest
<1>1. IInv => NoGapBelowNewest
  BY DEF IInv
<1> QED
  BY <1>1, Invariance, PTL

\* Each request of a market starts later than the one before, so its paging
\* ends (poll_market).
THEOREM PagingAdvances == Spec => RequestsAdvance
<1>1. IInv /\ [Next]_vars => [(pc = "fetched" /\ pc' = "deciding") => start' > start]_vars
  <2> SUFFICES ASSUME IInv, Next, pc = "fetched", pc' = "deciding"
               PROVE  start' > start
    BY DEF RequestsAdvance
  <2>1. StorePage
    BY DEF Next, Settle, Tick, ReadNewest, Decide, FetchPage, RequestRefused, RefusePage,
           Wake, Exit, Restart
  <2> QED
    BY <2>1, StorePageAdvances
<1> QED
  BY <1>1, Invariance, PTL DEF Spec, RequestsAdvance
-----------------------------------------------------------------------------
(* RequestRate: the requests in a rolling minute *)

\* The proofs about the writer, for its lemmas on rows of one kind.
WP == INSTANCE WriterProofs WITH
  BookRow <- {}, TradeRow <- {}, KeyOf <- <<>>, ChannelCapacity <- 1, BatchCapacity <- 1,
  MaxSent <- 0, MaxExits <- 0, channel <- <<>>, batch <- <<>>, writing <- <<>>,
  phase <- "idle", trades <- {}, orderbook <- <<>>, sent <- <<>>, before <- 0, exits <- 0

\* Both modules take OfKind from one place.
LEMMA SameOfKind == \A kind, rows : WP!OfKind(kind, rows) = OfKind(kind, rows)
BY Zenon DEF WP!OfKind, OfKind

LEMMA WriterAssumed == WP!WriterAssumption
BY DEF WP!WriterAssumption

\* How many of some requests are starts, and what one more adds.
StartsIn(requests) == Len(OfKind(Start, requests))

LEMMA StartsAppend ==
  ASSUME NEW requests \in Seq(Request), NEW request \in Request
  PROVE  /\ StartsIn(requests) \in Nat
         /\ StartsIn(Append(requests, request)) =
              StartsIn(requests) + (IF request.of = "orderBooks" THEN 1 ELSE 0)
<1>1. OfKind(Start, requests) \in Seq(Start \cap Request)
  BY SameOfKind, WP!OfKindType, WriterAssumed
<1>2. OfKind(Start, Append(requests, request)) =
        IF request \in Start THEN Append(OfKind(Start, requests), request)
        ELSE OfKind(Start, requests)
  BY SameOfKind, WP!OfKindAppend, WriterAssumed
<1>3. request \in Start <=> request.of = "orderBooks"
  BY DEF Start, Request
<1>4. request \in Start => request \in Start \cap Request
  OBVIOUS
<1>. QED
  BY <1>1, <1>2, <1>3, <1>4, LenProperties, AppendProperties DEF StartsIn

\* The requests from one on.
From(requests, i) == SubSeq(requests, i, Len(requests))

LEMMA FromElements ==
  ASSUME NEW S, NEW requests \in Seq(S), NEW i \in 1..(Len(requests) + 1)
  PROVE  /\ From(requests, i) \in Seq(S)
         /\ Len(From(requests, i)) = Len(requests) - i + 1
         /\ \A m \in 1..(Len(requests) - i + 1) : From(requests, i)[m] = requests[i + m - 1]
<1>1. Len(requests) \in Nat /\ \A k \in 1..Len(requests) : requests[k] \in S
  BY LenProperties, ElementOfSeq
<1>2. CASE i = Len(requests) + 1
  BY <1>1, <1>2, SubSeqProperties DEF From
<1>3. CASE i <= Len(requests)
  BY <1>1, <1>3, SubSeqProperties DEF From
<1>. QED  BY <1>1, <1>2, <1>3

\* One more request is one more from each of the others on.
LEMMA FromAppend ==
  ASSUME NEW S, NEW requests \in Seq(S), NEW request \in S, NEW i \in 1..(Len(requests) + 1)
  PROVE  From(Append(requests, request), i) = Append(From(requests, i), request)
<1>1. /\ Append(requests, request) \in Seq(S)
      /\ Len(Append(requests, request)) = Len(requests) + 1
      /\ \A k \in 1..Len(requests) : Append(requests, request)[k] = requests[k]
      /\ Append(requests, request)[Len(requests) + 1] = request
      /\ Len(requests) \in Nat
  BY AppendProperties, LenProperties
<1>2. PICK more : more = Append(requests, request)
  OBVIOUS
<1>3. /\ From(more, i) \in Seq(S) /\ Len(From(more, i)) = Len(requests) - i + 2
      /\ \A m \in 1..(Len(requests) - i + 2) : From(more, i)[m] = more[i + m - 1]
  <2>1. i \in 1..(Len(more) + 1) /\ Len(more) - i + 1 = Len(requests) - i + 2
    BY <1>1, <1>2
  <2>2. /\ From(more, i) \in Seq(S) /\ Len(From(more, i)) = Len(more) - i + 1
        /\ \A m \in 1..(Len(more) - i + 1) : From(more, i)[m] = more[i + m - 1]
    BY <1>1, <1>2, <2>1, FromElements
  <2>. QED  BY <2>1, <2>2
<1>4. PICK from \in Seq(S) : from = From(requests, i)
  BY FromElements
<1>5. /\ Len(from) = Len(requests) - i + 1
      /\ \A m \in 1..(Len(requests) - i + 1) : from[m] = requests[i + m - 1]
  BY <1>4, FromElements
<1>6. /\ Append(from, request) \in Seq(S)
      /\ Len(Append(from, request)) = Len(requests) - i + 2
      /\ \A m \in 1..(Len(requests) - i + 1) : Append(from, request)[m] = requests[i + m - 1]
      /\ Append(from, request)[Len(requests) - i + 2] = request
  <2>1. /\ Append(from, request) \in Seq(S)
        /\ Len(Append(from, request)) = Len(from) + 1
        /\ \A m \in 1..Len(from) : Append(from, request)[m] = from[m]
        /\ Append(from, request)[Len(from) + 1] = request
    BY AppendProperties
  <2>2. Len(from) + 1 = Len(requests) - i + 2
    BY <1>1, <1>5
  <2>. QED  BY <1>5, <2>1, <2>2
<1>7. \A m \in 1..(Len(requests) - i + 2) : From(more, i)[m] = Append(from, request)[m]
  <2>. SUFFICES ASSUME NEW m \in 1..(Len(requests) - i + 2)
                PROVE  From(more, i)[m] = Append(from, request)[m]
    OBVIOUS
  <2>1. From(more, i)[m] = more[i + m - 1]
    BY <1>3
  <2>2. CASE m <= Len(requests) - i + 1
    BY <1>1, <1>2, <1>6, <2>1, <2>2
  <2>3. CASE m = Len(requests) - i + 2
    <3>1. i + m - 1 = Len(requests) + 1
      BY <1>1, <2>3
    <3>2. more[i + m - 1] = request
      BY <1>1, <1>2, <3>1, Zenon
    <3>3. Append(from, request)[m] = request
      BY <1>6, <2>3, Zenon
    <3>. QED  BY <2>1, <3>2, <3>3
  <2>4. m <= Len(requests) - i + 1 \/ m = Len(requests) - i + 2
    BY <1>1
  <2>. QED  BY <2>2, <2>3, <2>4, Zenon
<1>8. From(more, i) = Append(from, request)
  BY <1>3, <1>6, <1>7, SeqEqual
<1>. QED  BY <1>2, <1>4, <1>8

\* Whether requests are starts is all that counts them.
LEMMA StartsAgree ==
  ASSUME NEW s \in Seq(Request), NEW t \in Seq(Request), Len(s) = Len(t),
         \A m \in 1..Len(s) : s[m].of = t[m].of
  PROVE  StartsIn(s) = StartsIn(t)
<1>. DEFINE R == Request
            Agree(u, v) == Len(u) = Len(v) /\ \A m \in 1..Len(u) : u[m].of = v[m].of
            T == {u \in Seq(R) : \A v \in Seq(R) : Agree(u, v) => StartsIn(u) = StartsIn(v)}
<1>1. <<>> \in T
  <2>1. ASSUME NEW v \in Seq(R), Agree(<<>>, v) PROVE v = <<>>
    BY <2>1, EmptySeq, LenProperties
  <2>. QED  BY <2>1, EmptySeq
<1>2. ASSUME NEW u \in Seq(R), NEW e \in R, u \in T PROVE Append(u, e) \in T
  <2>1. /\ Append(u, e) \in Seq(R) /\ Len(Append(u, e)) = Len(u) + 1
        /\ \A m \in 1..Len(u) : Append(u, e)[m] = u[m]
        /\ Append(u, e)[Len(u) + 1] = e
        /\ Len(u) \in Nat
    BY AppendProperties, LenProperties
  <2>. SUFFICES ASSUME NEW v \in Seq(R), Agree(Append(u, e), v)
                PROVE  StartsIn(Append(u, e)) = StartsIn(v)
    BY <2>1, Zenon
  <2>2. Len(v) = Len(u) + 1
    BY <2>1
  <2>3. v # <<>>
    BY <2>1, <2>2
  <2>4. PICK front \in Seq(R), last \in R : v = Append(front, last)
    BY <2>3, SequenceEmptyOrAppend
  <2>5. /\ Len(v) = Len(front) + 1
        /\ \A m \in 1..Len(front) : v[m] = front[m]
        /\ v[Len(front) + 1] = last
        /\ Len(front) \in Nat
    BY <2>4, AppendProperties, LenProperties
  <2>6. Len(front) = Len(u)
    BY <2>1, <2>2, <2>5
  <2>7. ASSUME NEW m \in 1..Len(u) PROVE u[m].of = front[m].of
    <3>1. m \in 1..Len(Append(u, e)) /\ m \in 1..Len(front)
      BY <2>1, <2>6
    <3>2. Append(u, e)[m].of = v[m].of
      BY <3>1, Zenon
    <3>. QED  BY <2>1, <2>5, <3>1, <3>2, Zenon
  <2>8. e.of = last.of
    <3>1. Len(u) + 1 \in 1..Len(Append(u, e))
      BY <2>1
    <3>. QED  BY <2>1, <2>5, <2>6, <3>1, Zenon
  <2>9. StartsIn(u) = StartsIn(front)
    BY <1>2, <2>6, <2>7, Zenon
  <2>10. /\ StartsIn(Append(u, e)) = StartsIn(u) + (IF e.of = "orderBooks" THEN 1 ELSE 0)
         /\ StartsIn(v) = StartsIn(front) + (IF last.of = "orderBooks" THEN 1 ELSE 0)
    BY <2>4, StartsAppend
  <2>. QED  BY <2>8, <2>9, <2>10
<1>. HIDE DEF T
<1>3. Seq(R) \subseteq T
  BY <1>1, <1>2, WP!SeqSetInduction, WriterAssumed
<1>. QED  BY <1>3 DEF T

\* Of rows that are all of the kind it keeps all, of those of others none.
LEMMA OfKindWhole ==
  ASSUME NEW kind, NEW S, NEW rows \in Seq(S)
  PROVE  /\ S \subseteq kind => OfKind(kind, rows) = rows
         /\ S \cap kind = {} => OfKind(kind, rows) = <<>>
<1>1. ASSUME S \subseteq kind PROVE OfKind(kind, rows) = rows
  <2>. DEFINE T == {s \in Seq(S) : OfKind(kind, s) = s}
  <2>1. <<>> \in T
    BY SameOfKind, WP!OfKindEmpty, WriterAssumed, EmptySeq
  <2>2. ASSUME NEW s \in Seq(S), NEW e \in S, s \in T PROVE Append(s, e) \in T
    <3>1. OfKind(kind, Append(s, e)) = Append(OfKind(kind, s), e)
      BY <1>1, SameOfKind, WP!OfKindAppend, WriterAssumed
    <3>. QED  BY <2>2, <3>1, AppendProperties
  <2>. HIDE DEF T
  <2>3. Seq(S) \subseteq T
    BY <2>1, <2>2, WP!SeqSetInduction, WriterAssumed
  <2>. QED  BY <2>3 DEF T
<1>2. ASSUME S \cap kind = {} PROVE OfKind(kind, rows) = <<>>
  <2>1. OfKind(kind, rows) \in Seq(kind \cap S)
    BY SameOfKind, WP!OfKindType, WriterAssumed
  <2>2. \A s \in Seq({}) : s = <<>>
    BY ElementOfSeq, LenProperties, EmptySeq
  <2>. QED  BY <1>2, <2>1, <2>2
<1>. QED  BY <1>1, <1>2

\* Of rows that are of the kind from one of them on, it drops those before.
LEMMA OfKindSuffix ==
  ASSUME NEW kind, NEW S, NEW rows \in Seq(S), NEW d \in 0..Len(rows),
         \A i \in 1..d : rows[i] \notin kind,
         \A i \in (d + 1)..Len(rows) : rows[i] \in kind
  PROVE  OfKind(kind, rows) = From(rows, d + 1)
<1>1. /\ Len(rows) \in Nat /\ d + 1 \in 1..(Len(rows) + 1) /\ d \in Nat
      /\ \A i \in 1..Len(rows) : rows[i] \in S
  BY LenProperties, ElementOfSeq
<1>2. PICK old : old = SubSeq(rows, 1, d)
  OBVIOUS
<1>3. /\ old \in Seq(S \ kind) /\ Len(old) = d
      /\ \A i \in 1..d : old[i] = rows[i]
  <2>1. \A i \in 1..d : rows[i] \in S \ kind
    BY <1>1
  <2>2. /\ SubSeq(rows, 1, d) \in Seq(S \ kind)
        /\ Len(SubSeq(rows, 1, d)) = IF 1 <= d THEN d - 1 + 1 ELSE 0
        /\ \A i \in 1..(d - 1 + 1) : SubSeq(rows, 1, d)[i] = rows[1 + i - 1]
    BY <1>1, <2>1, SubSeqProperties
  <2>. QED  BY <1>1, <1>2, <2>2
<1>4. PICK young : young = From(rows, d + 1)
  OBVIOUS
<1>5. /\ young \in Seq(S \cap kind) /\ Len(young) = Len(rows) - d
      /\ \A i \in 1..(Len(rows) - d) : young[i] = rows[d + i]
  <2>1. \A i \in (d + 1)..Len(rows) : rows[i] \in S \cap kind
    BY <1>1
  <2>2. /\ SubSeq(rows, d + 1, Len(rows)) \in Seq(S \cap kind)
        /\ Len(SubSeq(rows, d + 1, Len(rows))) =
             IF d + 1 <= Len(rows) THEN Len(rows) - (d + 1) + 1 ELSE 0
        /\ \A i \in 1..(Len(rows) - (d + 1) + 1) :
             SubSeq(rows, d + 1, Len(rows))[i] = rows[(d + 1) + i - 1]
    BY <1>1, <2>1, SubSeqProperties
  <2>. QED  BY <1>1, <1>4, <2>2 DEF From
<1>6. rows = old \o young
  <2>1. 1 \in 1..(Len(rows) + 1) /\ d \in (1 - 1)..Len(rows) /\ Len(rows) \in d..Len(rows)
    BY <1>1
  <2>2. SubSeq(rows, 1, d) \o SubSeq(rows, d + 1, Len(rows)) = SubSeq(rows, 1, Len(rows))
    BY <2>1, ConcatAdjacentSubSeq
  <2>. QED  BY <1>2, <1>4, <2>2, SubSeqFull DEF From
<1>7. OfKind(kind, old) = <<>> /\ OfKind(kind, young) = young
  <2>1. (S \ kind) \cap kind = {} /\ S \cap kind \subseteq kind
    OBVIOUS
  <2>. QED  BY <1>3, <1>5, <2>1, OfKindWhole
<1>8. OfKind(kind, rows) = OfKind(kind, old) \o OfKind(kind, young)
  <2>1. \A K, s : s \in Seq(S \ K) \/ s \in Seq(S \cap K) => s \in Seq(S)
    BY ElementOfSeq, LenProperties
  <2>2. old \in Seq(S) /\ young \in Seq(S)
    BY <1>3, <1>5, <2>1, Zenon
  <2>3. WP!OfKind(kind, old \o young) = WP!OfKind(kind, old) \o WP!OfKind(kind, young)
    BY <2>2, WP!OfKindConcat, WriterAssumed
  <2>. QED  BY <1>6, <2>3, SameOfKind, Zenon
<1>9. <<>> \o young = young
  BY <1>5, ConcatEmptySeq
<1>. QED  BY <1>4, <1>7, <1>8, <1>9, Zenon
-----------------------------------------------------------------------------
(* The inductive invariant *)

\* What the next request of the poller still has to wait; after the end of a
\* process, at most a spacing was cut short.
Left == IF process = "polling" THEN sleep ELSE Spacing

\* The requests stand in the order they were sent in.
Oldest == \A i, j \in 1..Len(recent) : i <= j => recent[j].age <= recent[i].age

\* From any request on, each one took a spacing, except that a start waits for
\* nothing and lets the request before it not be waited for.
Spaced(left) ==
  \A i \in 1..Len(recent) :
    Spacing * (Len(recent) - i + 1 - 2 * StartsIn(From(recent, i))) <= recent[i].age + left

RateInv ==
  /\ RequestsTypeOK
  /\ sleep \in 0..Spacing
  /\ sleep > 0 => recent # <<>>
  /\ Oldest
  /\ Spaced(Left)

\* Those that are a minute old are the first: the others stay and grow older.
LEMMA ElapseDropsOldest ==
  ASSUME RateInv, RequestsAge
  PROVE  \E d \in 0..Len(recent) :
           /\ recent' \in Seq(Request)
           /\ Len(recent') = Len(recent) - d
           /\ \A k \in 1..(Len(recent) - d) :
                recent'[k] = [of |-> recent[d + k].of, age |-> recent[d + k].age + 1]
           /\ \A i \in 1..d : ~ (recent[i].age + 1 < Minute)
<1>. DEFINE n == Len(recent)
            aged == [i \in DOMAIN recent |-> [recent[i] EXCEPT !.age = @ + 1]]
            Aged == [of : {"orderBooks", "fundings"}, age : Nat]
<1>1. /\ recent \in Seq(Request) /\ n \in Nat /\ DOMAIN recent = 1..n
      /\ \A i \in 1..n : recent[i] \in Request
  BY LenProperties, ElementOfSeq DEF RateInv, RequestsTypeOK
<1>2. Minute \in Nat
  BY RequestRateAssumption
<1>3. \A r \in Request : /\ [r EXCEPT !.age = @ + 1] = [of |-> r.of, age |-> r.age + 1]
                              /\ [of |-> r.of, age |-> r.age + 1] \in Aged
                              /\ r.age \in 0..(Minute - 1)
                              /\ r.of \in {"orderBooks", "fundings"}
  BY <1>2 DEF Request
<1>. HIDE DEF n
<1>4. \A i \in 1..n : recent[i].age \in 0..(Minute - 1)
  BY <1>1, <1>3
<1>5. /\ aged \in Seq(Aged) /\ Len(aged) = n
      /\ \A i \in 1..n : aged[i] = [of |-> recent[i].of, age |-> recent[i].age + 1]
  <2>1. \A i \in 1..n : aged[i] = [of |-> recent[i].of, age |-> recent[i].age + 1]
    BY <1>1, <1>3
  <2>2. \A i \in 1..n : aged[i] \in Aged
    BY <1>1, <1>3, <2>1
  <2>3. aged \in [1..n -> Aged]
    BY <1>1, <2>2, Zenon
  <2>. HIDE DEF aged
  <2>4. aged \in Seq(Aged) /\ Len(aged) = n
    <3>1. \A S : \A m \in Nat : \A f \in [1..m -> S] : f \in Seq(S) /\ DOMAIN f = 1..m
      BY SeqDef
    <3>2. aged \in Seq(Aged) /\ DOMAIN aged = 1..n
      BY <1>1, <2>3, <3>1, Zenon
    <3>3. Len(aged) \in Nat /\ DOMAIN aged = 1..Len(aged)
      BY <3>2, LenProperties
    <3>. QED  BY <1>1, <3>2, <3>3
  <2>. QED  BY <2>1, <2>4
<1>6. recent' = OfKind(Request, aged)
  BY DEF RequestsAge
<1>. HIDE DEF aged
<1>7. \A i \in 1..n : aged[i] \in Request <=> recent[i].age + 1 < Minute
  <2>. SUFFICES ASSUME NEW i \in 1..n
                PROVE  aged[i] \in Request <=> recent[i].age + 1 < Minute
    OBVIOUS
  <2>. PICK r \in Request : r = recent[i]
    BY <1>1
  <2>1. aged[i] = [of |-> r.of, age |-> r.age + 1]
    BY <1>5
  <2>2. r.age \in 0..(Minute - 1) /\ r.of \in {"orderBooks", "fundings"}
    BY <1>3
  <2>3. r.age + 1 \in 0..(Minute - 1) <=> r.age + 1 < Minute
    BY <1>2, <2>2
  <2>4. \A a : [of |-> r.of, age |-> a] \in Request <=> a \in 0..(Minute - 1)
    BY <2>2 DEF Request
  <2>. QED  BY <2>1, <2>3, <2>4
<1>. DEFINE T == {d \in Nat : d <= n /\ \A i \in (d + 1)..n : recent[i].age + 1 < Minute}
<1>8. n \in T
  BY <1>1
<1>9. PICK d \in T : \A e \in T : d <= e
  <2>1. T # {} /\ T \subseteq Nat
    BY <1>8
  <2>. HIDE DEF T
  <2>. QED  BY <2>1, WP!LeastNat, WriterAssumed
<1>10. d \in 0..n /\ \A i \in (d + 1)..n : recent[i].age + 1 < Minute
  BY <1>1
<1>11. \A i \in 1..d : ~ (recent[i].age + 1 < Minute)
  <2>. SUFFICES ASSUME NEW i \in 1..d, recent[i].age + 1 < Minute PROVE FALSE
    OBVIOUS
  <2>1. ASSUME NEW j \in i..n PROVE recent[j].age + 1 < Minute
    <3>1. recent[j].age <= recent[i].age
      BY <1>1, <1>10 DEF RateInv, Oldest, n
    <3>2. recent[j].age \in Int /\ recent[i].age \in Int
      BY <1>1, <1>4, <1>10
    <3>. QED  BY <1>2, <3>1, <3>2
  <2>2. i - 1 \in Nat /\ i - 1 <= n /\ (i - 1) + 1 = i
    BY <1>1, <1>10
  <2>3. i - 1 \in T
    BY <2>1, <2>2
  <2>4. d <= i - 1
    BY <1>9, <2>3
  <2>. QED  BY <1>10, <2>4
<1>12. recent' = From(aged, d + 1)
  <2>1. /\ d \in 0..Len(aged)
        /\ \A i \in 1..d : aged[i] \notin Request
        /\ \A i \in (d + 1)..Len(aged) : aged[i] \in Request
    <3>1. Len(aged) = n /\ d \in 0..n /\ n \in Nat
      BY <1>1, <1>5, <1>10
    <3>2. (\A i \in 1..d : i \in 1..n) /\ (\A i \in (d + 1)..n : i \in 1..n)
      BY <3>1
    <3>. QED  BY <1>7, <1>10, <1>11, <3>1, <3>2, Zenon
  <2>. QED  BY <1>5, <1>6, <2>1, OfKindSuffix
<1>13. /\ Len(recent') = n - d
       /\ \A k \in 1..(n - d) : recent'[k] = aged[d + k]
  <2>1. d + 1 \in 1..(Len(aged) + 1)
    BY <1>1, <1>5, <1>10
  <2>2. /\ Len(From(aged, d + 1)) = Len(aged) - (d + 1) + 1
        /\ \A m \in 1..(Len(aged) - (d + 1) + 1) : From(aged, d + 1)[m] = aged[(d + 1) + m - 1]
    BY <1>5, <2>1, FromElements
  <2>. QED  BY <1>1, <1>5, <1>10, <1>12, <2>2
<1>14. recent' \in Seq(Request)
  <2>1. OfKind(Request, aged) \in Seq(Request \cap Aged)
    BY <1>5, SameOfKind, WP!OfKindType, WriterAssumed
  <2>2. Request \cap Aged = Request
    <3>1. \A a : a \in 0..(Minute - 1) => a \in Nat
      BY <1>2
    <3>2. Request \subseteq Aged
      BY <3>1 DEF Request
    <3>. QED  BY <3>2
  <2>. QED  BY <1>6, <2>1, <2>2
<1>15. \A k \in 1..(n - d) : recent'[k] = [of |-> recent[d + k].of, age |-> recent[d + k].age + 1]
  <2>1. \A k \in 1..(n - d) : d + k \in 1..n
    BY <1>1, <1>10
  <2>. QED  BY <1>5, <1>13, <2>1, Zenon
<1>. QED  BY <1>10, <1>11, <1>13, <1>14, <1>15, Zenon DEF n

\* What one more request does to the sequence, to the order and to the starts.
LEMMA SendAppends ==
  ASSUME recent \in Seq(Request), Oldest,
         NEW of \in {"orderBooks", "fundings"}, Ask(of),
         NEW new \in Nat, new = IF of = "orderBooks" THEN 1 ELSE 0
  PROVE  /\ recent' \in Seq(Request)
         /\ Len(recent') = Len(recent) + 1
         /\ \A i \in 1..Len(recent) :
              /\ recent'[i] = recent[i]
              /\ StartsIn(From(recent', i)) = StartsIn(From(recent, i)) + new
         /\ recent'[Len(recent) + 1] = [of |-> of, age |-> 0]
         /\ StartsIn(From(recent', Len(recent) + 1)) = new
         /\ StartsIn(recent) \in Nat /\ StartsIn(recent') = StartsIn(recent) + new
         /\ Oldest'
<1>. DEFINE n == Len(recent)
<1>. PICK r : r = [of |-> of, age |-> 0]
  OBVIOUS
<1>1. r \in Request /\ r.of = of /\ r.age = 0
  BY RequestRateAssumption DEF Request
<1>2. recent' = Append(recent, r)
  BY DEF Ask
<1>3. /\ recent' \in Seq(Request) /\ Len(recent') = n + 1
      /\ \A i \in 1..n : recent'[i] = recent[i]
      /\ recent'[n + 1] = r
      /\ n \in Nat
      /\ \A i \in 1..n : recent[i] \in Request
  BY <1>1, <1>2, AppendProperties, LenProperties, ElementOfSeq
<1>4. \A s \in Seq(Request) : StartsIn(s) \in Nat /\ StartsIn(Append(s, r)) = StartsIn(s) + new
  BY <1>1, StartsAppend
<1>5. ASSUME NEW i \in 1..(n + 1)
      PROVE  StartsIn(From(recent', i)) = StartsIn(From(recent, i)) + new
  <2>1. From(recent', i) = Append(From(recent, i), r)
    BY <1>1, <1>2, FromAppend
  <2>2. From(recent, i) \in Seq(Request)
    BY FromElements
  <2>. QED  BY <1>4, <2>1, <2>2, Zenon
<1>6. StartsIn(From(recent, n + 1)) = 0
  <2>1. From(recent, n + 1) = <<>>
    BY <1>3, SubSeqEmpty DEF From
  <2>2. StartsIn(<<>>) = Len(<<>>)
    BY SameOfKind, WP!OfKindEmpty, WriterAssumed, Zenon DEF StartsIn
  <2>. QED  BY <2>1, <2>2, EmptySeq
<1>7. Oldest'
  <2>1. \A q \in Request : q.age \in Nat
    BY RequestRateAssumption DEF Request
  <2>. SUFFICES ASSUME NEW i \in 1..(n + 1), NEW j \in 1..(n + 1), i <= j
                PROVE  recent'[j].age <= recent'[i].age
    BY <1>3 DEF Oldest
  <2>2. CASE j = n + 1
    <3>1. recent'[i] \in Request
      BY <1>1, <1>3
    <3>2. recent'[i].age \in Nat
      BY <2>1, <3>1
    <3>3. recent'[j].age = 0
      BY <1>1, <1>3, <2>2, Zenon
    <3>. QED  BY <3>2, <3>3
  <2>3. CASE j # n + 1
    <3>1. i \in 1..n /\ j \in 1..n
      BY <1>3, <2>3
    <3>. QED  BY <1>3, <3>1 DEF Oldest
  <2>. QED  BY <2>2, <2>3
<1>8. StartsIn(From(recent', n + 1)) = new
  <2>1. n + 1 \in 1..(n + 1)
    BY <1>3
  <2>2. StartsIn(From(recent', n + 1)) = StartsIn(From(recent, n + 1)) + new
    BY <1>5, <2>1
  <2>. QED  BY <1>6, <2>2
<1>9. \A i \in 1..n : StartsIn(From(recent', i)) = StartsIn(From(recent, i)) + new
  BY <1>3, <1>5
<1>10. StartsIn(recent) \in Nat /\ StartsIn(recent') = StartsIn(recent) + new
  BY <1>2, <1>4, Zenon
<1>. QED  BY <1>3, <1>7, <1>8, <1>9, <1>10, Zenon

\* The spacing, by the assumption.
LEMMA SpacingRange ==
  Spacing \in Nat \ {0} /\ Spacing <= Minute /\ Minute \in Nat \ {0}
BY RequestRateAssumption

\* Multiples of the spacing.
LEMMA Spacings ==
  /\ Spacing * 0 = 0
  /\ \A k \in Int : /\ Spacing * k \in Int
                    /\ Spacing * (k + 1) = Spacing * k + Spacing
                    /\ Spacing * (k - 1) = Spacing * k - Spacing
<1>1. Spacing \in Nat \ {0}
  BY SpacingRange
<1>. QED  BY <1>1

\* What a request adds to the starts, and to the time the ones before it need.
New(of) == IF of = "orderBooks" THEN 1 ELSE 0
Gap(of) == IF of = "orderBooks" THEN -Spacing ELSE Spacing

LEMMA GapOfRequest ==
  ASSUME NEW of \in {"orderBooks", "fundings"}
  PROVE  /\ New(of) \in Nat /\ Gap(of) \in Int
         /\ Spacing * (1 - 2 * New(of)) = Gap(of)
         /\ \A n, i, b \in Int :
              Spacing * ((n + 1) - i + 1 - 2 * (b + New(of))) =
                Spacing * (n - i + 1 - 2 * b) + Gap(of)
<1>1. Spacing \in Int
  BY SpacingRange
<1>2. CASE of = "orderBooks"
  <2>1. New(of) = 1 /\ Gap(of) = -Spacing
    BY <1>2 DEF New, Gap
  <2>2. Spacing * (0 - 1) = -Spacing
    BY Spacings, SpacingRange
  <2>3. ASSUME NEW n \in Int, NEW i \in Int, NEW b \in Int
        PROVE  Spacing * ((n + 1) - i + 1 - 2 * (b + 1)) = Spacing * (n - i + 1 - 2 * b) - Spacing
    <3>1. (n + 1) - i + 1 - 2 * (b + 1) = (n - i + 1 - 2 * b) - 1
      OBVIOUS
    <3>. QED  BY <3>1, Spacings
  <2>. QED  BY <1>1, <2>1, <2>2, <2>3
<1>3. CASE of = "fundings"
  <2>1. New(of) = 0 /\ Gap(of) = Spacing
    BY <1>3 DEF New, Gap
  <2>2. Spacing * (0 + 1) = Spacing
    BY Spacings, SpacingRange
  <2>3. ASSUME NEW n \in Int, NEW i \in Int, NEW b \in Int
        PROVE  Spacing * ((n + 1) - i + 1 - 2 * (b + 0)) = Spacing * (n - i + 1 - 2 * b) + Spacing
    <3>1. (n + 1) - i + 1 - 2 * (b + 0) = (n - i + 1 - 2 * b) + 1
      OBVIOUS
    <3>. QED  BY <3>1, Spacings
  <2>. QED  BY <1>1, <2>1, <2>2, <2>3
<1>. QED  BY <1>2, <1>3

\* The numbers that requests come with.
LEMMA RequestNumbers ==
  ASSUME NEW requests \in Seq(Request)
  PROVE  /\ Len(requests) \in Nat /\ StartsIn(requests) \in Nat
         /\ \A i \in 1..Len(requests) : /\ requests[i].age \in Nat
                                        /\ requests[i].age < Minute
                                        /\ StartsIn(From(requests, i)) \in Nat
<1>1. \A q \in Request : q.age \in Nat /\ q.age < Minute
  BY SpacingRange DEF Request
<1>2. Len(requests) \in Nat /\ \A i \in 1..Len(requests) : requests[i] \in Request
  BY LenProperties, ElementOfSeq
<1>3. \A s \in Seq(Request) : StartsIn(s) \in Nat
  <2>1. [of |-> "fundings", age |-> 0] \in Request
    BY SpacingRange DEF Request
  <2>. QED  BY <2>1, StartsAppend
<1>4. \A i \in 1..Len(requests) : From(requests, i) \in Seq(Request)
  <2>1. \A i \in 1..Len(requests) : i \in 1..(Len(requests) + 1)
    BY <1>2
  <2>. QED  BY <2>1, FromElements
<1>. QED  BY <1>1, <1>2, <1>3, <1>4

\* A request keeps the others spaced, if what is left makes up for it.
LEMMA SpacedAppend ==
  ASSUME recent \in Seq(Request), Oldest,
         NEW of \in {"orderBooks", "fundings"}, Ask(of),
         NEW left \in Int, NEW later \in Int, NEW gap \in Int, gap = Gap(of),
         Spaced(left), left + gap <= later, gap <= later
  PROVE  Spaced(later)'
<1>1. PICK n : n = Len(recent)
  OBVIOUS
<1>2. New(of) \in Nat
  BY GapOfRequest
<1>3. /\ Len(recent') = n + 1
      /\ \A i \in 1..n : /\ recent'[i] = recent[i]
                         /\ StartsIn(From(recent', i)) = StartsIn(From(recent, i)) + New(of)
      /\ recent'[n + 1] = [of |-> of, age |-> 0]
      /\ StartsIn(From(recent', n + 1)) = New(of)
  BY <1>2, <1>1, SendAppends DEF New
<1>4. /\ n \in Nat
      /\ \A i \in 1..n : recent[i].age \in Nat
      /\ \A i \in 1..n : StartsIn(From(recent, i)) \in Nat
  BY <1>1, RequestNumbers
<1>5. Spacing \in Int
  BY SpacingRange
<1>6. \A m, j, b \in Int :
        Spacing * ((m + 1) - j + 1 - 2 * (b + New(of))) = Spacing * (m - j + 1 - 2 * b) + Gap(of)
  BY GapOfRequest, Zenon
<1>. SUFFICES ASSUME NEW i \in 1..(n + 1)
              PROVE  Spacing * (Len(recent') - i + 1 - 2 * StartsIn(From(recent', i)))
                       <= recent'[i].age + later
  BY <1>3 DEF Spaced
<1>7. CASE i \in 1..n
  <2>1. PICK b \in Nat : b = StartsIn(From(recent, i))
    BY <1>4, <1>7
  <2>2. n \in Int /\ i \in Int /\ b \in Int /\ recent[i].age \in Int
    BY <1>4, <1>7
  <2>3. PICK c \in Int : c = Spacing * (n - i + 1 - 2 * b)
    BY <1>5, <2>2
  <2>4. \A x \in Int : Spacing * ((n + 1) - i + 1 - 2 * (x + New(of))) =
                       Spacing * (n - i + 1 - 2 * x) + Gap(of)
    BY <1>6, <2>2, ZenonT(30)
  <2>5. Spacing * ((n + 1) - i + 1 - 2 * (b + New(of))) = c + gap
    BY <2>2, <2>3, <2>4, Zenon
  <2>6. c <= recent[i].age + left
    BY <1>7, <1>1, <2>1, <2>3 DEF Spaced
  <2>7. c + gap <= recent[i].age + later
    BY <2>2, <2>6
  <2>8. StartsIn(From(recent', i)) = b + New(of) /\ recent'[i].age = recent[i].age
    BY <1>3, <1>7, <2>1
  <2>. QED  BY <1>3, <2>5, <2>7, <2>8, Zenon
<1>8. CASE i = n + 1
  <2>1. Len(recent') - i + 1 - 2 * StartsIn(From(recent', i)) = 1 - 2 * New(of)
    BY <1>2, <1>3, <1>4, <1>8
  <2>2. recent'[i].age = 0
    BY <1>3, <1>8
  <2>3. Spacing * (1 - 2 * New(of)) = gap
    BY GapOfRequest
  <2>4. 0 + later = later
    OBVIOUS
  <2>. QED  BY <2>1, <2>2, <2>3, <2>4
<1>9. i \in 1..n \/ i = n + 1
  BY <1>4
<1>. QED  BY <1>7, <1>8, <1>9, Zenon
-----------------------------------------------------------------------------
(* The steps *)

\* Nothing was sent yet.
LEMMA RateInit == ASSUME RequestsInit PROVE RateInv
<1>1. recent = <<>> /\ process = "starting" /\ sleep = 0
  BY DEF RequestsInit
<1>2. Len(recent) = 0 /\ recent \in Seq(Request)
  BY <1>1, EmptySeq, LenProperties
<1>3. StartsIn(recent) = 0
  <2>1. StartsIn(<<>>) = Len(<<>>)
    BY SameOfKind, WP!OfKindEmpty, WriterAssumed, Zenon DEF StartsIn
  <2>. QED  BY <1>1, <2>1, EmptySeq
<1>4. Spacing \in Nat
  BY SpacingRange
<1>5. Oldest /\ Spaced(Left)
  BY <1>2 DEF Oldest, Spaced
<1>. QED  BY <1>1, <1>2, <1>3, <1>4, <1>5 DEF RateInv, RequestsTypeOK

\* The types and the bounds, as each step gives them.
LEMMA RateInvNext ==
  ASSUME recent' \in Seq(Request), process' \in {"starting", "polling"},
         sleep' \in 0..Spacing,
         sleep' > 0 => /\ process' = "polling" /\ recent' # <<>>
                       /\ recent'[Len(recent')] = [of |-> "fundings", age |-> Spacing - sleep'],
         Oldest',
         NEW left, left = Left', Spaced(left)'
  PROVE  RateInv'
<1>1. Spaced(Left)'
  BY DEF Spaced
<1>. QED  BY <1>1 DEF RateInv, RequestsTypeOK

\* The request of a start uses up the spacing that the last process had left.
LEMMA RateSyncSymbols ==
  ASSUME RateInv, SyncSymbols PROVE RateInv'
<1>1. /\ process = "starting" /\ process' \in {"starting", "polling"}
      /\ Ask("orderBooks") /\ sleep' = sleep
  BY DEF SyncSymbols
<1>2. /\ recent \in Seq(Request) /\ Oldest /\ Spaced(Left)
      /\ sleep = 0 /\ Left = Spacing
  BY <1>1, SpacingRange DEF RateInv, RequestsTypeOK, Left
<1>3. /\ recent' \in Seq(Request) /\ Oldest'
      /\ StartsIn(recent) \in Nat /\ StartsIn(recent') = StartsIn(recent) + 1
  BY <1>1, <1>2, SendAppends
<1>4. PICK later \in Int : later = Left' /\ 0 <= later
  BY <1>1, <1>2, SpacingRange DEF Left
<1>5. Spaced(later)'
  <2>1. Gap("orderBooks") = -Spacing /\ Spacing \in Nat
    BY SpacingRange DEF Gap
  <2>2. -Spacing \in Int /\ Spacing + (-Spacing) <= later /\ -Spacing <= later /\ Spacing \in Int
    BY <1>4, <2>1
  <2>3. Spaced(Spacing)
    BY <1>2
  <2>. QED  BY <1>1, <1>2, <2>1, <2>2, <2>3, SpacedAppend
<1>. QED  BY <1>1, <1>2, <1>3, <1>4, <1>5, SpacingRange, RateInvNext

\* A request of the poller, answered or not.
LEMMA RateFetch ==
  ASSUME RateInv, Fetch \/ FetchFails PROVE RateInv'
<1>1. /\ process = "polling" /\ sleep = 0 /\ Ask("fundings")
      /\ \/ process' = "polling" /\ sleep' = Spacing
         \/ process' = "starting" /\ sleep' = 0
  BY DEF Fetch, FetchFails
<1>2. /\ recent \in Seq(Request) /\ Oldest /\ Spaced(0)
  BY <1>1 DEF RateInv, RequestsTypeOK, Left
<1>3. /\ recent' \in Seq(Request) /\ Oldest'
      /\ StartsIn(recent) \in Nat /\ StartsIn(recent') = StartsIn(recent) + 0
      /\ Len(recent') = Len(recent) + 1
      /\ recent'[Len(recent) + 1] = [of |-> "fundings", age |-> 0]
  BY <1>1, <1>2, SendAppends
<1>4. Left' = Spacing
  BY <1>1 DEF Left
<1>5. Spaced(Spacing)'
  <2>1. Gap("fundings") = Spacing /\ Spacing \in Int /\ 0 + Spacing <= Spacing
    BY SpacingRange DEF Gap
  <2>. QED  BY <1>1, <1>2, <2>1, SpacedAppend
<1>6. sleep' > 0 => /\ process' = "polling" /\ recent' # <<>>
                    /\ recent'[Len(recent')] = [of |-> "fundings", age |-> Spacing - sleep']
  BY <1>1, <1>2, <1>3, SpacingRange, EmptySeq, RequestNumbers
<1>7. sleep' \in 0..Spacing
  BY <1>1, SpacingRange
<1>. QED  BY <1>1, <1>3, <1>4, <1>5, <1>6, <1>7, RateInvNext

\* A process that ends cuts short at most a spacing.
LEMMA RateExit ==
  ASSUME RateInv, EndProcess PROVE RateInv'
<1>1. process = "polling" /\ process' = "starting" /\ sleep' = 0 /\ recent' = recent
  BY DEF EndProcess
<1>2. /\ recent \in Seq(Request) /\ Oldest /\ Spaced(sleep) /\ sleep \in 0..Spacing
  BY <1>1 DEF RateInv, RequestsTypeOK, Left
<1>3. Oldest' /\ Left' = Spacing
  BY <1>1, <1>2 DEF Oldest, Left
<1>4. \A i \in 1..Len(recent) :
        Spacing * (Len(recent) - i + 1 - 2 * StartsIn(From(recent, i))) <= recent[i].age + Spacing
  <2>. SUFFICES ASSUME NEW i \in 1..Len(recent)
                PROVE  Spacing * (Len(recent) - i + 1 - 2 * StartsIn(From(recent, i)))
                         <= recent[i].age + Spacing
    OBVIOUS
  <2>1. recent[i].age \in Int
    BY <1>2, RequestNumbers
  <2>2. PICK c \in Int : c = Spacing * (Len(recent) - i + 1 - 2 * StartsIn(From(recent, i)))
    <3>1. PICK k \in Int : k = Len(recent) - i + 1 - 2 * StartsIn(From(recent, i))
      BY <1>2, RequestNumbers
    <3>2. Spacing * k \in Int
      BY SpacingRange
    <3>. QED  BY <3>1, <3>2
  <2>3. c <= recent[i].age + sleep
    BY <1>2, <2>2 DEF Spaced
  <2>4. c <= recent[i].age + Spacing
    BY <1>2, <2>1, <2>3, SpacingRange
  <2>. QED  BY <2>2, <2>4, Zenon
<1>5. Spaced(Spacing)'
  BY <1>1, <1>4, Zenon DEF Spaced
<1>. QED  BY <1>1, <1>2, <1>3, <1>5, SpacingRange, RateInvNext

\* A tick: all grow older, and the oldest leave the window.
LEMMA RateElapse ==
  ASSUME RateInv, RequestsAge PROVE RateInv'
<1>1. /\ sleep' = (IF sleep > 0 THEN sleep - 1 ELSE 0) /\ process' = process
  BY DEF RequestsAge
<1>2. /\ recent \in Seq(Request) /\ Oldest /\ Spaced(Left) /\ sleep \in 0..Spacing
      /\ process \in {"starting", "polling"}
      /\ sleep > 0 => /\ process = "polling"
                      /\ recent[Len(recent)] = [of |-> "fundings", age |-> Spacing - sleep]
  BY DEF RateInv, RequestsTypeOK
<1>3. PICK d \in 0..Len(recent) :
        /\ recent' \in Seq(Request)
        /\ Len(recent') = Len(recent) - d
        /\ \A k \in 1..(Len(recent) - d) :
             recent'[k] = [of |-> recent[d + k].of, age |-> recent[d + k].age + 1]
        /\ \A i \in 1..d : ~ (recent[i].age + 1 < Minute)
  BY ElapseDropsOldest
<1>4. PICK n \in Nat : n = Len(recent)
  BY <1>2, LenProperties
<1>5. d \in 0..n /\ Len(recent') = n - d /\ n - d \in Nat
  BY <1>3, <1>4
<1>6. \A k \in 1..(n - d) : /\ d + k \in 1..n
                            /\ recent'[k].of = recent[d + k].of
                            /\ recent'[k].age = recent[d + k].age + 1
  <2>1. \A k \in 1..(n - d) : d + k \in 1..n
    BY <1>5
  <2>2. ASSUME NEW k \in 1..(n - d)
        PROVE  recent'[k].of = recent[d + k].of /\ recent'[k].age = recent[d + k].age + 1
    <3>1. recent'[k] = [of |-> recent[d + k].of, age |-> recent[d + k].age + 1]
      BY <1>3, <1>4, Zenon
    <3>. QED  BY <3>1
  <2>. QED  BY <2>1, <2>2, Zenon
<1>7. \A i \in 1..n : recent[i].age \in Nat /\ StartsIn(From(recent, i)) \in Nat
  BY <1>2, <1>4, RequestNumbers
<1>8. ASSUME NEW k \in 1..(n - d)
      PROVE  StartsIn(From(recent', k)) = StartsIn(From(recent, d + k))
  <2>1. /\ From(recent', k) \in Seq(Request)
        /\ Len(From(recent', k)) = (n - d) - k + 1
        /\ \A m \in 1..((n - d) - k + 1) : From(recent', k)[m] = recent'[k + m - 1]
    <3>1. k \in 1..(Len(recent') + 1)
      BY <1>5
    <3>2. /\ From(recent', k) \in Seq(Request)
          /\ Len(From(recent', k)) = Len(recent') - k + 1
          /\ \A m \in 1..(Len(recent') - k + 1) : From(recent', k)[m] = recent'[k + m - 1]
      BY <1>3, <3>1, FromElements
    <3>. QED  BY <1>5, <3>2
  <2>2. /\ From(recent, d + k) \in Seq(Request)
        /\ Len(From(recent, d + k)) = n - (d + k) + 1
        /\ \A m \in 1..(n - (d + k) + 1) : From(recent, d + k)[m] = recent[(d + k) + m - 1]
    <3>1. d + k \in 1..(Len(recent) + 1)
      BY <1>4, <1>5
    <3>. QED  BY <1>2, <1>4, <3>1, FromElements
  <2>3. n - (d + k) + 1 = (n - d) - k + 1
    BY <1>5
  <2>4. ASSUME NEW m \in 1..((n - d) - k + 1)
        PROVE  From(recent', k)[m].of = From(recent, d + k)[m].of
    <3>1. k + m - 1 \in 1..(n - d) /\ d + (k + m - 1) = (d + k) + m - 1
      BY <1>5
    <3>2. recent'[k + m - 1].of = recent[d + (k + m - 1)].of
      BY <1>6, <3>1, Zenon
    <3>. QED  BY <2>1, <2>2, <2>3, <3>1, <3>2, Zenon
  <2>. QED  BY <2>1, <2>2, <2>3, <2>4, StartsAgree
<1>9. Oldest'
  <2>. SUFFICES ASSUME NEW i \in 1..(n - d), NEW j \in 1..(n - d), i <= j
                PROVE  recent'[j].age <= recent'[i].age
    BY <1>5 DEF Oldest
  <2>1. d + i \in 1..n /\ d + j \in 1..n /\ d + i <= d + j
    BY <1>5, <1>6
  <2>2. recent[d + j].age <= recent[d + i].age
    BY <1>2, <1>4, <2>1 DEF Oldest
  <2>3. /\ recent'[i].age = recent[d + i].age + 1 /\ recent[d + i].age \in Nat
        /\ recent'[j].age = recent[d + j].age + 1 /\ recent[d + j].age \in Nat
    BY <1>6, <1>7, <2>1, Zenon
  <2>4. \A a, b \in Nat : a <= b => a + 1 <= b + 1
    OBVIOUS
  <2>. QED  BY <2>2, <2>3, <2>4, Zenon
<1>10. PICK left \in Int : left = Left /\ left >= 0
  BY <1>2, SpacingRange DEF Left
<1>11. PICK later \in Int : later = Left' /\ left <= 1 + later
  <2>1. CASE process = "polling"
    <3>1. Left' = sleep' /\ left = sleep
      BY <1>1, <1>10, <2>1 DEF Left
    <3>2. sleep' \in Int /\ sleep <= 1 + sleep'
      BY <1>1, <1>2
    <3>. QED  BY <3>1, <3>2
  <2>2. CASE process = "starting"
    <3>1. Left' = Spacing /\ left = Spacing
      BY <1>1, <1>10, <2>2 DEF Left
    <3>. QED  BY <3>1, SpacingRange
  <2>. QED  BY <1>2, <2>1, <2>2
<1>12. Spaced(later)'
  <2>. SUFFICES ASSUME NEW k \in 1..(n - d)
                PROVE  Spacing * ((n - d) - k + 1 - 2 * StartsIn(From(recent', k)))
                         <= recent'[k].age + later
    BY <1>5 DEF Spaced
  <2>1. PICK s \in Int : s = StartsIn(From(recent, d + k))
    BY <1>6, <1>7
  <2>2. (n - d) - k + 1 - 2 * s = n - (d + k) + 1 - 2 * s
    BY <1>5, <2>1
  <2>3. PICK c \in Int : c = Spacing * (n - (d + k) + 1 - 2 * s)
    <3>1. PICK q \in Int : q = n - (d + k) + 1 - 2 * s
      BY <1>5, <2>1
    <3>2. Spacing * q \in Int
      BY SpacingRange
    <3>. QED  BY <3>1, <3>2
  <2>4. c <= recent[d + k].age + left
    <3>1. Spaced(left)
      BY <1>2, <1>10
    <3>. QED  BY <1>4, <1>6, <2>1, <2>3, <3>1, Zenon DEF Spaced
  <2>5. c <= recent'[k].age + later
    <3>1. recent'[k].age = recent[d + k].age + 1 /\ recent[d + k].age \in Nat
      BY <1>6, <1>7, Zenon
    <3>2. left <= 1 + later
      BY <1>11, Zenon
    <3>3. PICK b \in Nat : b = recent[d + k].age
      BY <3>1
    <3>4. c <= b + left
      BY <2>4, <3>3, Zenon
    <3>5. c <= (b + 1) + later
      BY <3>2, <3>4
    <3>. QED  BY <3>1, <3>3, <3>5, Zenon
  <2>. QED  BY <1>8, <2>1, <2>2, <2>3, <2>5, Zenon
<1>13. sleep' > 0 => /\ process' = "polling" /\ recent' # <<>>
                     /\ recent'[Len(recent')] = [of |-> "fundings", age |-> Spacing - sleep']
  <2>. SUFFICES ASSUME sleep' > 0
                PROVE  /\ process' = "polling" /\ recent' # <<>>
                       /\ recent'[Len(recent')] = [of |-> "fundings", age |-> Spacing - sleep']
    OBVIOUS
  <2>1. /\ sleep > 1 /\ sleep' = sleep - 1 /\ process' = "polling"
        /\ recent[n] = [of |-> "fundings", age |-> Spacing - sleep]
    BY <1>1, <1>2, <1>4
  <2>2. n # 0 /\ d # n
    <3>1. recent # <<>>
      BY <2>1, SpacingRange DEF RateInv
    <3>2. n # 0
      BY <1>2, <1>4, <3>1, EmptySeq
    <3>3. recent[n].age = Spacing - sleep
      BY <2>1
    <3>4. recent[n].age + 1 < Minute
      BY <1>2, <2>1, <3>3, SpacingRange
    <3>5. d = n => n \in 1..d
      BY <3>2
    <3>. QED  BY <1>3, <3>2, <3>4, <3>5, Zenon
  <2>3. n - d \in 1..(n - d) /\ d + (n - d) = n
    BY <1>5, <2>2
  <2>4. recent'[n - d] = [of |-> recent[n].of, age |-> recent[n].age + 1]
    BY <1>3, <1>4, <2>3, Zenon
  <2>5. recent[n].of = "fundings" /\ recent[n].age + 1 = Spacing - sleep'
    BY <1>2, <2>1, SpacingRange
  <2>6. recent' # <<>>
    BY <1>3, <1>5, <2>2, EmptySeq
  <2>. QED  BY <1>5, <2>1, <2>4, <2>5, <2>6, Zenon
<1>14. sleep' \in 0..Spacing /\ process' \in {"starting", "polling"}
  BY <1>1, <1>2, SpacingRange
<1>. QED  BY <1>3, <1>9, <1>11, <1>12, <1>13, <1>14, RateInvNext

\* Every step keeps the invariant.
LEMMA RateStep ==
  ASSUME RateInv, [RequestsNext]_requestVars PROVE RateInv'
<1>1. CASE UNCHANGED requestVars
  <2>1. recent' = recent /\ process' = process /\ sleep' = sleep
    BY <1>1 DEF requestVars
  <2>. QED  BY <2>1 DEF RateInv, RequestsTypeOK, Oldest, Spaced, Left
<1>. QED  BY <1>1, RateSyncSymbols, RateFetch, RateExit, RateElapse DEF RequestsNext

\* The requests of sync_symbols and fetch_page have their types, and the sleep of
\* fetch_page is what is left of the spacing after the last one.
THEOREM RateTypes == RequestsSpec => []RequestsTypeOK
<1>1. RequestsInit => RateInv
  BY RateInit
<1>2. RateInv /\ [RequestsNext]_requestVars => RateInv'
  BY RateStep
<1>3. RateInv => RequestsTypeOK
  BY DEF RateInv
<1>. QED  BY <1>1, <1>2, <1>3, PTL DEF RequestsSpec

\* Division by the spacing, and what a smaller multiple of it says.
LEMMA QuotientBound == \A a, b \in Nat : b # 0 => a < b * ((a \div b) + 1)
OBVIOUS

LEMMA SmallerMultiple ==
  ASSUME NEW x \in Int, NEW y \in Int, Spacing * x < Spacing * y
  PROVE  x < y
<1>1. Spacing \in Nat \ {0}
  BY SpacingRange
<1>2. \A a \in Nat \ {0} : \A b, c \in Int : a * b < a * c => b < c
  OBVIOUS
<1>. QED  BY <1>1, <1>2

\* Of all requests in a window but the starts, each waited for a spacing.
LEMMA RateInvPaces == ASSUME RateInv PROVE PacedBetweenStarts
<1>1. /\ recent \in Seq(Request) /\ Spaced(Left)
      /\ sleep \in 0..Spacing
  BY DEF RateInv, RequestsTypeOK
<1>2. PICK n \in Nat : n = Len(recent)
  BY <1>1, LenProperties
<1>3. Minute \in Nat /\ Spacing \in 1..Minute
  BY RequestRateAssumption
<1>4. PICK q \in Int : q = (Minute - 1) \div Spacing /\ 0 <= q
  BY <1>3
<1>5. Paced = q + 1 /\ Len(Starts) = StartsIn(recent)
  BY <1>4 DEF Paced, Starts, StartsIn
<1>6. Minute - 1 < Spacing * (q + 1)
  <2>1. Minute - 1 \in Nat /\ Spacing \in Nat /\ Spacing # 0
    BY <1>3
  <2>. QED  BY <1>4, <2>1, QuotientBound, Zenon
<1>7. CASE n # 0
  <2>1. PICK s \in Nat : s = StartsIn(recent)
    BY <1>1, RequestNumbers
  <2>2. From(recent, 1) = recent
    BY <1>1, SubSeqFull DEF From
  <2>3. PICK left \in Int : left = Left /\ left <= Spacing
    BY <1>1, <1>3 DEF Left
  <2>4. PICK age \in Nat : age = recent[1].age /\ age < Minute
    BY <1>1, <1>2, <1>7, RequestNumbers
  <2>5. Spacing * (n - 1 + 1 - 2 * s) <= age + left
    BY <1>1, <1>2, <1>7, <2>1, <2>2, <2>3, <2>4 DEF Spaced
  <2>6. PICK c \in Int, e \in Int : c = Spacing * (n - 2 * s) /\ e = Spacing * (q + 1)
    <3>1. n - 2 * s \in Int /\ q + 1 \in Int /\ Spacing \in Int
      BY <1>3
    <3>. QED  BY <3>1
  <2>7. Spacing * (q + 2) = e + Spacing
    <3>1. q + 1 \in Int /\ (q + 1) + 1 = q + 2
      OBVIOUS
    <3>. QED  BY <2>6, <3>1, Spacings, Zenon
  <2>8. c < e + Spacing
    <3>1. n - 1 + 1 - 2 * s = n - 2 * s
      OBVIOUS
    <3>2. c <= age + left /\ Minute - 1 < e
      BY <1>6, <2>5, <2>6, <3>1, Zenon
    <3>. QED  BY <1>3, <2>3, <2>4, <3>2
  <2>9. n - 2 * s < q + 2
    <3>1. n - 2 * s \in Int /\ q + 2 \in Int
      OBVIOUS
    <3>2. Spacing * (n - 2 * s) < Spacing * (q + 2)
      BY <2>6, <2>7, <2>8, Zenon
    <3>. QED  BY <3>1, <3>2, SmallerMultiple
  <2>. QED  BY <1>1, <1>2, <1>3, <1>5, <1>4, <2>1, <2>9 DEF PacedBetweenStarts
<1>8. CASE n = 0
  <2>1. StartsIn(recent) \in Nat
    BY <1>1, RequestNumbers
  <2>. QED  BY <1>2, <1>4, <1>5, <1>8, <2>1 DEF PacedBetweenStarts
<1>. QED  BY <1>7, <1>8

-----------------------------------------------------------------------------
\* Across failed requests, exits and restarts, any rolling minute holds the
\* requests of a poller that waits after each one (fetch_page), and for each
\* start in it (sync_symbols) at most two more, for every window and spacing.
THEOREM PacedBetween == RequestsSpec => []PacedBetweenStarts
<1>1. RequestsInit => RateInv
  BY RateInit
<1>2. RateInv /\ [RequestsNext]_requestVars => RateInv'
  BY RateStep
<1>3. RateInv => PacedBetweenStarts
  BY RateInvPaces
<1>. QED  BY <1>1, <1>2, <1>3, PTL DEF RequestsSpec
=============================================================================
