----------------------------- MODULE Keepalive -----------------------------
(***************************************************************************)
(* The keepalive of run_ws_ingestion against the clock (src/src/ws.rs).    *)
(* The server's proxy closes a connection on which it has read nothing from*)
(* us for ReadDeadline; a ping every KeepaliveInterval is to prevent that. *)
(* But the ping is one branch of a select!, and while the handler of       *)
(* another branch waits for room in the channel, it waits with it, for the *)
(* writer, which receives nothing while a flush is running.                *)
(*                                                                         *)
(* Time is counted in ticks, and passes only when no task can go on; rows  *)
(* are counted, not named.                                                 *)
(***************************************************************************)
EXTENDS Integers

CONSTANTS ReadDeadline,       \* of the proxy
          KeepaliveInterval,  \* KEEPALIVE_INTERVAL
          FlushTime,          \* the longest flush, getting a connection included
          MaxFrameRows,       \* the most rows of one handler
          ChannelRoom, BatchRoom,  \* of the channel and the batch of Writer
          MaxOvertakes        \* branches that select! may take before a ping that is due

ASSUME KeepaliveAssumption ==
  /\ {KeepaliveInterval, FlushTime, MaxFrameRows} \subseteq Nat \ {0}
  /\ {ChannelRoom, BatchRoom} \subseteq Nat \ {0}
  /\ {ReadDeadline, MaxOvertakes} \subseteq Nat
  /\ KeepaliveInterval + (MaxOvertakes + 1) * MaxFrameRows * FlushTime <= ReadDeadline

VARIABLES idle,      \* time since the session last wrote to the connection
          due,       \* time to the next tick of the keepalive; 0: it is due
          overtaken, \* branches taken since the ping was due
          toSend,    \* rows that the running handler has still to send
          inChannel, \* rows in the channel
          inBatch,   \* rows in the writer's batch
          flush      \* what is left of the running flush; 0: none

sessionVars == <<idle, due, overtaken, toSend>>
queueVars == <<inBatch, flush>>
keepaliveVars == <<sessionVars, inChannel, queueVars>>

KeepaliveInit ==
  /\ idle = 0 /\ due = KeepaliveInterval /\ overtaken = 0 /\ toSend = 0
  /\ inChannel = 0 /\ inBatch = 0 /\ flush = 0
-----------------------------------------------------------------------------
(* The session *)

Waiting == toSend = 0

\* A book or trade frame, or the snapshot timer, with its rows.
RunHandlerResettingKeepalive(rows) ==
  /\ Waiting
  /\ toSend' = rows
  /\ due' = KeepaliveInterval
  /\ UNCHANGED <<idle, overtaken, inChannel, queueVars>>
RunHandler(rows) ==
  /\ Waiting
  /\ due = 0 => overtaken < MaxOvertakes
  /\ toSend' = rows
  /\ overtaken' = IF due = 0 THEN overtaken + 1 ELSE 0
  /\ UNCHANGED <<idle, due, inChannel, queueVars>>

\* tx.send(row).await.
Send ==
  /\ toSend > 0
  /\ inChannel < ChannelRoom
  /\ toSend' = toSend - 1
  /\ inChannel' = inChannel + 1
  /\ UNCHANGED <<idle, due, overtaken, queueVars>>

\* The interval keeps its schedule: when this tick is late, the next one comes
\* that much sooner, or at once.
KeepaliveTick ==
  /\ Waiting
  /\ due = 0
  /\ due' \in 0..KeepaliveInterval
  /\ idle' = 0
  /\ overtaken' = 0
  /\ UNCHANGED <<toSend, inChannel, queueVars>>

\* A ping frame of the server is answered; a new connection starts with the
\* subscriptions and with a timer of its own.  The channel stays as full as it is.
AnswerPing ==
  /\ Waiting
  /\ due = 0 => overtaken < MaxOvertakes
  /\ idle' = 0
  /\ overtaken' = IF due = 0 THEN overtaken + 1 ELSE 0
  /\ UNCHANGED <<due, toSend, inChannel, queueVars>>
Reconnect ==
  /\ Waiting
  /\ idle' = 0 /\ due' = KeepaliveInterval /\ overtaken' = 0
  /\ UNCHANGED <<toSend, inChannel, queueVars>>
-----------------------------------------------------------------------------
(* The writer *)

FlushStarts == inBatch' = 0 /\ flush' \in 0..FlushTime

ReceiveDuringFlush ==
  /\ inChannel > 0
  /\ inChannel' = inChannel - 1
  /\ IF inBatch + 1 = BatchRoom THEN FlushStarts ELSE inBatch' = inBatch + 1 /\ UNCHANGED flush
  /\ UNCHANGED sessionVars
Receive ==
  /\ flush = 0
  /\ inChannel > 0
  /\ inChannel' = inChannel - 1
  /\ IF inBatch + 1 = BatchRoom THEN FlushStarts ELSE inBatch' = inBatch + 1 /\ UNCHANGED flush
  /\ UNCHANGED sessionVars

\* The ticker may be due whenever the writer waits: it keeps its schedule, so
\* after a long flush several ticks are, and each may flush a single row.
Tick ==
  /\ flush = 0
  /\ inBatch > 0
  /\ FlushStarts
  /\ UNCHANGED <<sessionVars, inChannel>>
-----------------------------------------------------------------------------
SomeTaskCanGoOn ==
  \/ Waiting /\ due = 0
  \/ toSend > 0 /\ inChannel < ChannelRoom
  \/ flush = 0 /\ inChannel > 0

\* A timer stops at zero.
AfterOneTick(timer) == IF timer > 0 THEN timer - 1 ELSE 0
Elapse ==
  /\ ~SomeTaskCanGoOn
  /\ idle' = idle + 1
  /\ due' = AfterOneTick(due)
  /\ flush' = AfterOneTick(flush)
  /\ UNCHANGED <<overtaken, toSend, inChannel, inBatch>>

KeepaliveStep ==
  \/ \E rows \in 1..MaxFrameRows : RunHandler(rows)
  \/ Send
  \/ KeepaliveTick
  \/ AnswerPing
  \/ Reconnect
  \/ Receive
  \/ Tick

KeepaliveNext == KeepaliveStep \/ Elapse

KeepaliveSpec == KeepaliveInit /\ [][KeepaliveNext]_keepaliveVars
-----------------------------------------------------------------------------
\* Types; nothing is received while a flush is running.
KeepaliveTypeOK ==
  /\ idle \in Nat
  /\ due \in 0..KeepaliveInterval
  /\ overtaken \in 0..MaxOvertakes
  /\ toSend \in 0..MaxFrameRows
  /\ inChannel \in 0..ChannelRoom
  /\ inBatch \in 0..(BatchRoom - 1)
  /\ flush \in 0..FlushTime
  /\ flush > 0 => inBatch = 0

\* The proxy never sees us silent for its deadline, although the ping waits
\* behind handlers that wait for a channel that a slow table keeps full: even
\* if every row they send costs a flush, the ping comes in time as long as the
\* assumption on the constants holds (KEEPALIVE_INTERVAL, "well under that
\* window").
NeverSilentTooLong == idle < ReadDeadline
=============================================================================
