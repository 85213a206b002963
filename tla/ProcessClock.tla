---------------------------- MODULE ProcessClock ----------------------------
(***************************************************************************)
(* The timers of one process against one clock (src/src/main.rs): main     *)
(* asks for the symbols, then spawns the writer and the poller and runs the*)
(* session.  When the poller fails the process exits, the session and the  *)
(* channel with it, and the container starts the next one (`restart:       *)
(* unless-stopped` in src/docker-compose.yml).                             *)
(***************************************************************************)
EXTENDS Keepalive, RequestRate

clockVars == <<keepaliveVars, requestVars>>

ClockInit == KeepaliveInit /\ RequestsInit

\* Nothing of the session or the writer runs before the symbols are synced.
StartUp == SyncSymbols /\ UNCHANGED keepaliveVars

RunSession ==
  /\ process = "polling"
  /\ KeepaliveStep
  /\ UNCHANGED requestVars
RunPoller == Fetch /\ UNCHANGED keepaliveVars

\* The next process has a channel, a batch and timers of its own.
Exit ==
  /\ FetchFails \/ EndProcess
  /\ idle' = 0 /\ due' = KeepaliveInterval /\ overtaken' = 0 /\ toSend' = 0
  /\ inChannel' = 0 /\ inBatch' = 0 /\ flush' = 0

\* Time passes for the tasks that are there, and for the API's minute always.
TimePasses ==
  /\ RequestsAge
  /\ IF process = "polling" THEN Elapse ELSE UNCHANGED keepaliveVars

ClockNext ==
  \/ StartUp
  \/ RunSession
  \/ RunPoller
  \/ Exit
  \/ TimePasses

ClockSpec == ClockInit /\ [][ClockNext]_clockVars
=============================================================================
