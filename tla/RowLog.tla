------------------------------- MODULE RowLog -------------------------------
(***************************************************************************)
(* What the writer task (src/src/ws.rs) promises to the WebSocket session: *)
(* rows are stored in the order they were sent, a stored row stays, and    *)
(* only rows that are not stored yet are lost when the process exits.  The *)
(* index of a row stands for its id (a BIGSERIAL).                         *)
(***************************************************************************)
EXTENDS Integers, Sequences

CONSTANT Row

VARIABLES log,    \* the rows sent and not lost, in the order of sending
          stored  \* how many of them, from the first, are in the table

vars == <<log, stored>>

TypeOK ==
  /\ log \in Seq(Row)
  /\ stored \in 0..Len(log)

Init ==
  /\ log = <<>>
  /\ stored = 0

\* tx.send(row).await returned.
Accept(row) ==
  /\ log' = Append(log, row)
  /\ UNCHANGED stored

\* A flush stored the oldest rows that were waiting.
Persist ==
  /\ \E n \in 1..(Len(log) - stored) : stored' = stored + n
  /\ UNCHANGED log

\* The process exits: what was in the channel or the batch is gone.
LoseUnstored ==
  /\ log' = SubSeq(log, 1, stored)
  /\ UNCHANGED stored

Next ==
  \/ \E row \in Row : Accept(row)
  \/ Persist
  \/ LoseUnstored

Spec == Init /\ [][Next]_vars
=============================================================================
