---------------------------- MODULE RequestRate ----------------------------
(***************************************************************************)
(* The requests of the ingestor to the REST API, against its limit for any *)
(* rolling minute: one of sync_symbols at each start (src/src/main.rs),    *)
(* then those of fetch_page (src/src/funding.rs), which sleeps after each  *)
(* answer.  A failed request is not slept after: it ends the process, and  *)
(* the container's restart starts the next one, which asks at once: nothing*)
(* bounds the starts in a minute.                                          *)
(***************************************************************************)
EXTENDS Integers, Sequences, RowSequences

CONSTANTS Minute,   \* the length of the rolling window, in ticks
          Limit,    \* the requests it may hold
          Spacing   \* REQUEST_SPACING

\* The requests of a window in which the poller waits after each one: one for
\* each spacing that fits in it, and the first.
Paced == ((Minute - 1) \div Spacing) + 1

\* The spacing keeps a poller that never fails within the limit.
ASSUME RequestRateAssumption ==
  /\ Minute \in Nat /\ Spacing \in 1..Minute /\ Limit \in Nat
  /\ Paced <= Limit

VARIABLES recent,   \* the requests of the last minute: of what, how old
          process,  \* "starting", or "polling"
          sleep     \* what is left of the sleep of fetch_page

requestVars == <<recent, process, sleep>>

Request == [of : {"orderBooks", "fundings"}, age : 0..(Minute - 1)]
Ask(of) == recent' = Append(recent, [of |-> of, age |-> 0])
Start == [of : {"orderBooks"}, age : 0..(Minute - 1)]
Starts == OfKind(Start, recent)

RequestsInit == recent = <<>> /\ process = "starting" /\ sleep = 0

\* sync_symbols, or its error, which ends the process.
SyncSymbols ==
  /\ process = "starting"
  /\ Ask("orderBooks")
  /\ process' \in {"starting", "polling"}
  /\ UNCHANGED sleep

FetchWithoutSleep ==
  /\ process = "polling"
  /\ sleep = 0
  /\ Ask("fundings")
  /\ UNCHANGED <<process, sleep>>
Fetch ==
  /\ process = "polling"
  /\ sleep = 0
  /\ Ask("fundings")
  /\ sleep' = Spacing
  /\ UNCHANGED process

\* send, error_for_status or text returned Err, before the sleep.
FetchFails ==
  /\ process = "polling"
  /\ sleep = 0
  /\ Ask("fundings")
  /\ process' = "starting"
  /\ UNCHANGED sleep

\* An answer or a row that is refused, the writer's exit, or a crash.
EndProcess ==
  /\ process = "polling"
  /\ process' = "starting"
  /\ sleep' = 0
  /\ UNCHANGED recent

RequestsAge ==
  /\ recent' = OfKind(Request, [i \in DOMAIN recent |-> [recent[i] EXCEPT !.age = @ + 1]])
  /\ sleep' = IF sleep > 0 THEN sleep - 1 ELSE 0
  /\ UNCHANGED process

RequestsNext ==
  \/ SyncSymbols
  \/ Fetch
  \/ FetchFails
  \/ EndProcess
  \/ RequestsAge

RequestsSpec == RequestsInit /\ [][RequestsNext]_requestVars
-----------------------------------------------------------------------------
\* Types; the sleep is what is left of the spacing after the last request, and
\* ends with the process.
RequestsTypeOK ==
  /\ recent \in Seq(Request)
  /\ process \in {"starting", "polling"}
  /\ sleep > 0 => /\ process = "polling"
                  /\ recent[Len(recent)] = [of |-> "fundings", age |-> Spacing - sleep]

\* Whatever fails, and whenever the process ends and is started again, a window
\* holds the requests of a poller that waits after each one, and for each start
\* in it at most two more: its own, and the one whose sleep it cut short.
PacedBetweenStarts == Len(recent) <= Paced + 2 * Len(Starts)

\* README, "The poller waits 1.1 seconds after each request.  This keeps a
\* Standard account under its 60 requests per minute": no rolling minute holds
\* more than the limit.
LimitKept == Len(recent) <= Limit
=============================================================================
