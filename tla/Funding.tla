------------------------------ MODULE Funding ------------------------------
(***************************************************************************)
(* The funding poller, src/src/funding.rs: run_funding_poller polls every  *)
(* perp market in turn, for ever; poll_market pages through what settled   *)
(* after the newest stored settlement.  Any error ends the process, and    *)
(* the next process starts again from the table.  The API is external: it  *)
(* shows the settlements of a market in the order of their times, and      *)
(* answers with the earliest rows of the window it is asked for.           *)
(***************************************************************************)
EXTENDS Integers, Sequences, RowSequences

CONSTANTS Markets,        \* the perp markets, in the order of polling
          Settlements,    \* Settlements[m]: when market m settles
          Hour,           \* seconds of the funding grid (3600)
          BackfillStart,  \* LIGHTER_FUNDING_BACKFILL_START
          MaxPage,        \* MAX_FUNDINGS_PER_CALL
          Milliseconds,   \* a settlement in a wrong unit: a far-future time
          Fault,          \* the kinds of fault that may happen
          MaxFaults,      \* bound: faults in a behaviour
          MaxTime         \* bound: where the clock stops

Market == {Markets[i] : i \in DOMAIN Markets}

FloorHour(time) == time - (time % Hour)
CeilHour(time) == IF FloorHour(time) = time THEN time ELSE FloorHour(time) + Hour

ASSUME FundingAssumption ==
  /\ Markets \in Seq(Market) /\ Markets # <<>>
  /\ Hour \in Nat \ {0}
  /\ MaxPage \in Nat \ {0}
  /\ BackfillStart \in Nat /\ MaxTime \in Nat /\ MaxFaults \in Nat
  /\ Milliseconds \in Nat /\ Milliseconds > MaxTime

\* Funding settles once an hour.
ASSUME HourlySettlements ==
  \A m \in Market :
    /\ Settlements[m] \subseteq Nat
    /\ \A s, t \in Settlements[m] : FloorHour(s) = FloorHour(t) => s = t

VARIABLES now,      \* Utc::now()
          settled,  \* the API: the settlements it shows, for each market
          table,    \* funding_rates: the times stored for each market
          pc,       \* "sleeping", or what the poller does next
          turn,     \* which market is polled
          start,    \* the start of the next request
          page,     \* the times of the rows of the last answer
          faults    \* how many faults there have been

vars == <<now, settled, table, pc, turn, start, page, faults>>

Polled == Markets[turn]
Newest(times) == CHOOSE t \in times : \A u \in times : u <= t

\* next_request_start, for the times stored so far.
NextRequestStart(times) ==
  IF times # {} THEN CeilHour(Newest(times) + 1) ELSE CeilHour(BackfillStart)

HourClosedBefore == start < FloorHour(now)
HourClosed == start <= FloorHour(now)

ValidatePageInAnyOrder(rows) ==
  \A i \in DOMAIN rows : start <= rows[i] /\ rows[i] <= now
ValidatePageBeyondNow(rows) ==
  /\ \A i \in DOMAIN rows : start <= rows[i]
  /\ \A i, j \in DOMAIN rows : i < j => rows[i] < rows[j]
ValidatePageFromAnyTime(rows) ==
  /\ \A i \in DOMAIN rows : rows[i] <= now
  /\ \A i, j \in DOMAIN rows : i < j => rows[i] < rows[j]
ValidatePage(rows) ==
  /\ \A i \in DOMAIN rows : start <= rows[i] /\ rows[i] <= now
  /\ \A i, j \in DOMAIN rows : i < j => rows[i] < rows[j]
-----------------------------------------------------------------------------
(* The API *)

\* It rounds the end of the window down to the hour, and answers 400 when
\* that is before the start.
WindowIsEmpty == FloorHour(now) < start
Window(m) == {t \in settled[m] : start <= t /\ t <= FloorHour(now)}

Pages(times) == UNION {[1..n -> times] : n \in 0..MaxPage}
Increasing(rows) == \A i, j \in DOMAIN rows : i < j => rows[i] < rows[j]
\* The rows of a window from the earliest on, with nothing left out between.
Earliest(m, rows) ==
  /\ Increasing(rows)
  /\ \A t \in Window(m) : \A i \in DOMAIN rows : t < rows[i] => t \in Contents(rows)
AsManyAsAllowed(m, rows) == Len(rows) = MaxPage \/ Contents(rows) = Window(m)

Inject(kind) ==
  /\ kind \in Fault
  /\ faults < MaxFaults
  /\ faults' = faults + 1

Answer(m, rows) ==
  \/ /\ rows \in Pages(Window(m))
     /\ Earliest(m, rows)
     /\ \/ AsManyAsAllowed(m, rows) /\ UNCHANGED faults
        \/ Inject("short")
  \/ /\ Inject("garbled")
     /\ rows \in Pages(settled[m] \cup {Milliseconds})
     /\ \/ ~Increasing(rows)
        \/ \E i \in DOMAIN rows : rows[i] < start \/ rows[i] = Milliseconds

Settle(m) ==
  /\ \E t \in Settlements[m] \ settled[m] :
       /\ \A u \in Settlements[m] \ settled[m] : t <= u
       /\ settled' = [settled EXCEPT ![m] = @ \cup {t}]
  /\ UNCHANGED <<now, table, pc, turn, start, page, faults>>

\* Time passes, also while a request is on its way.  The clock of the host is
\* not monotonic: it may be set back.
Tick ==
  /\ \/ now < MaxTime /\ now' = now + 1 /\ UNCHANGED faults
     \/ Inject("clock") /\ now > 0 /\ now' = now - 1
  /\ UNCHANGED <<settled, table, pc, turn, start, page>>
-----------------------------------------------------------------------------
(* The poller *)

Init ==
  /\ now \in 0..MaxTime
  /\ settled = [m \in Market |-> {}]
  /\ table = [m \in Market |-> {}]
  /\ pc = "reading"
  /\ turn = 1
  /\ start = 0
  /\ page = <<>>
  /\ faults = 0

ReadNewest ==
  /\ pc = "reading"
  /\ start' = NextRequestStart(table[Polled])
  /\ pc' = "deciding"
  /\ UNCHANGED <<now, settled, table, turn, page, faults>>

\* poll_market returned Ok: on to the next market, or to sleep.
MarketDoneOneTooMany ==
  /\ IF turn <= Len(Markets)
     THEN turn' = turn + 1 /\ pc' = "reading"
     ELSE turn' = 1 /\ pc' = "sleeping"
  /\ page' = <<>>
MarketDone ==
  /\ IF turn < Len(Markets)
     THEN turn' = turn + 1 /\ pc' = "reading"
     ELSE turn' = 1 /\ pc' = "sleeping"
  /\ page' = <<>>

\* The error left poll_market: the process exits and is started again.
Restart ==
  /\ pc' = "reading"
  /\ turn' = 1
  /\ page' = <<>>
  /\ UNCHANGED <<now, settled, table, start>>

Decide ==
  /\ pc = "deciding"
  /\ IF HourClosed
     THEN pc' = "asking" /\ UNCHANGED <<turn, page>>
     ELSE MarketDone
  /\ UNCHANGED <<now, settled, table, start, faults>>

\* fetch_page; the end of the window is the clock at this time.
FetchPage ==
  /\ pc = "asking"
  /\ ~WindowIsEmpty
  /\ \E rows \in Pages(Settlements[Polled] \cup {Milliseconds}) :
       Answer(Polled, rows) /\ page' = rows
  /\ pc' = "fetched"
  /\ UNCHANGED <<now, settled, table, turn, start>>

\* 400, when the clock was set back after the hour was found closed.
RequestRefused ==
  /\ pc = "asking"
  /\ WindowIsEmpty
  /\ Restart
  /\ UNCHANGED faults

StorePage ==
  /\ pc = "fetched"
  /\ ValidatePage(page)
  /\ IF page = <<>>
     THEN MarketDone /\ UNCHANGED <<table, start>>
     ELSE /\ table' = [table EXCEPT ![Polled] = @ \cup Contents(page)]
          /\ IF Len(page) < MaxPage
             THEN MarketDone /\ UNCHANGED start
             ELSE /\ start' = NextRequestStart({page[Len(page)]})
                  /\ pc' = "deciding" /\ page' = <<>>
                  /\ UNCHANGED turn
  /\ UNCHANGED <<now, settled, faults>>

RefusePage ==
  /\ pc = "fetched"
  /\ ~ValidatePage(page)
  /\ Restart
  /\ UNCHANGED faults

Wake ==
  /\ pc = "sleeping"
  /\ pc' = "reading"
  /\ UNCHANGED <<now, settled, table, turn, start, page, faults>>

\* A failed request, an answer that does not parse, a database error; or an
\* exit of the writer, or a crash.
Exit == Inject("exit") /\ Restart

Next ==
  \/ \E m \in Market : Settle(m)
  \/ Tick
  \/ ReadNewest
  \/ Decide
  \/ FetchPage
  \/ RequestRefused
  \/ StorePage
  \/ RefusePage
  \/ Wake
  \/ Exit

Spec == Init /\ [][Next]_vars

\* Time passes, hours settle and show, and the poller's task is scheduled; a
\* request or a database call returns or fails.
FairSpec ==
  /\ Spec
  /\ WF_vars(Tick) /\ \A m \in Market : WF_vars(Settle(m))
  /\ WF_vars(ReadNewest) /\ WF_vars(Decide) /\ WF_vars(FetchPage)
  /\ WF_vars(RequestRefused) /\ WF_vars(StorePage) /\ WF_vars(RefusePage)
  /\ WF_vars(Wake)
-----------------------------------------------------------------------------
\* Types.
TypeOK ==
  /\ now \in 0..MaxTime
  /\ \A m \in Market : settled[m] \subseteq Settlements[m]
  /\ DOMAIN settled = Market
  /\ table \in [Market -> SUBSET Nat]
  /\ pc \in {"reading", "deciding", "asking", "fetched", "sleeping"}
  /\ turn \in DOMAIN Markets
  /\ start \in Nat
  /\ page \in Seq(Nat)
  /\ faults \in 0..MaxFaults

Wanted(m) == {t \in Settlements[m] : CeilHour(BackfillStart) <= t}

\* What is stored are settlements of the market, none of them from before
\* the backfill start: a page with a row out of its window, or in a wrong unit,
\* leaves nothing in the table (validate_page).
OnlySettlements == \A m \in Market : table[m] \subseteq Wanted(m) \cap settled[m]

\* No settlement is left out below the newest stored one, where the poller
\* would never ask for it again: whatever page was cut short or garbled, and
\* wherever the process exited (next_request_start, poll_market).
NoGapBelowNewest ==
  \A m \in Market : \A t \in Wanted(m) :
    (\E u \in table[m] : t <= u) => t \in table[m]

\* While poll_market pages through a market, each request starts later
\* than the one before (next_request_start).
RequestsAdvance ==
  [][(pc = "fetched" /\ pc' = "deciding") => start' > start]_vars

\* Every settlement whose hour closed is stored in the end, through cut or
\* garbled pages, a clock set back and exits, as long as these do not go on
\* for ever, and for the last market of the round as for the first
\* (run_funding_poller).
EverySettlementIsStored ==
  \A m \in Market : \A t \in Settlements[m] :
    (t \in Wanted(m) /\ t <= FloorHour(MaxTime)) => <>(t \in table[m])
=============================================================================
