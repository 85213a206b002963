--------------------------- MODULE OrderBookFeed ---------------------------
(***************************************************************************)
(* The order-book path of the ingestor: the session of BookSession sends   *)
(* its rows to a writer that keeps the promise of RowLog, and the whole    *)
(* process may exit and be started again between any two steps.            *)
(***************************************************************************)
EXTENDS BookSession

CONSTANT MaxRows  \* bound: rows sent before the snapshot timer stops

VARIABLES log,    \* the orderbook rows sent to the writer and not lost
          stored  \* how many of them are in orderbook_messages

vars == <<published, feed, asked, wire, session, conn, books, outbox, faults, log, stored>>

Rows == INSTANCE RowLog

Init ==
  /\ SessionInit
  /\ Rows!Init

ExchangeStep ==
  /\ \E m \in Market : Publish(m) \/ ServeRequest(m)
  /\ UNCHANGED <<log, stored>>

\* A step of the session that does not hand a row over.
SessionStep ==
  /\ \/ Connect
     \/ ConnectionEnds
     \/ ReadFrame
     \/ Len(log) < MaxRows /\ SnapshotTick
     \/ BookCheckTick
  /\ UNCHANGED <<log, stored>>

SendRow ==
  \E row \in outbox :
    /\ TakeFromOutbox(row)
    /\ Rows!Accept(row)

Flush ==
  /\ Rows!Persist
  /\ UNCHANGED sessionVars

\* exit(1) in the writer or the funding poller, or a crash; the container
\* restarts the process, which comes back to the reconnect loop.
Crash ==
  /\ Inject("crash")
  /\ EndSession
  /\ Rows!LoseUnstored

Next ==
  \/ ExchangeStep
  \/ SessionStep
  \/ SendRow
  \/ Flush
  \/ Crash

Spec == Init /\ [][Next]_vars
-----------------------------------------------------------------------------
\* Types.  Frames in flight are what the exchange sends or a garbled form
\* of it; rows carry the levels of a message or of a book.
TypeOK ==
  /\ published \in [Market -> Nonce]
  /\ feed \subseteq Market
  /\ asked \in [Market -> Seq({"subscribe", "unsubscribe"})]
  /\ wire \in Seq(Frame)
  /\ session \in {"open", "waiting"}
  /\ conn \in Nat
  /\ \A m \in DOMAIN books : books[m] = NoBook \/ books[m].nonce \in Nonce
  /\ DOMAIN books = Market
  /\ outbox \subseteq Row
  /\ faults \in 0..MaxFaults
  /\ Rows!TypeOK

\* The book of a market is the exchange's book at its nonce, with that
\* nonce's time: whatever was lost, repeated, garbled or resubscribed, an
\* accepted message never leaves a wrong or half-changed book
\* (apply_orderbook_message).
BooksFollowTheExchange ==
  \A m \in Market : books[m] # NoBook => books[m] = MarketBookAt(m, books[m].nonce)

PreviousRow(i, j) ==
  /\ j < i
  /\ log[j].symbol = log[i].symbol
  /\ \A k \in (j + 1)..(i - 1) : log[k].symbol # log[i].symbol

\* The nonce chain of the README: a delta row comes right after a row of
\* its symbol from its own connection, whose sequence is its begin_nonce.
\* So every connection starts with a snapshot row and no update is missing
\* between two rows, across reconnects, resubscriptions, periodic snapshots
\* and restarts that lose rows (apply_orderbook_message, run_ws_ingestion).
ChainUnbroken ==
  \A i \in 1..Len(log) : log[i].message_type = "delta" =>
    \E j \in 1..Len(log) :
      /\ PreviousRow(i, j)
      /\ log[j].sequence = log[i].begin_nonce
      /\ log[j].conn = log[i].conn

\* A row says what the exchange said: a snapshot row, from a message or
\* from the timer, reads back as the exchange's book at its sequence; a delta
\* row holds that update's levels; both carry the time of that update
\* (orderbook_row, book_snapshot_row).
Truthful(row) ==
  /\ row.time = TimeAt[row.symbol][row.sequence]
  /\ CASE row.message_type = "snapshot" ->
            FromSnapshot(row.levels) = Ok(BookAt(row.symbol, row.sequence))
       [] row.message_type = "delta" ->
            /\ row.sequence > 0
            /\ row.begin_nonce = row.sequence - 1
            /\ row.levels = DeltaAt[row.symbol][row.sequence]
RowsTruthful == \A i \in 1..Len(log) : Truthful(log[i])

\* Why the chain holds, at every step: the last row of a market that the
\* running connection sent is where its book stands, and the row that
\* is still in the outbox, if any, goes on from there.
LastRow(m, n) ==
  \E j \in 1..Len(log) :
    /\ log[j].symbol = m
    /\ log[j].sequence = n
    /\ log[j].conn = conn
    /\ \A k \in (j + 1)..Len(log) : log[k].symbol # m

OutboxFollowsBooks ==
  /\ \A row \in outbox :
       /\ row.conn = conn
       /\ books[row.symbol] # NoBook
       /\ row.sequence = books[row.symbol].nonce
       /\ row.message_type = "delta" => LastRow(row.symbol, row.begin_nonce)
  /\ \A row1, row2 \in outbox : row1.symbol = row2.symbol => row1 = row2

LogEndsAtBooks ==
  \A m \in Market :
    (books[m] # NoBook /\ \A row \in outbox : row.symbol # m)
      => LastRow(m, books[m].nonce)

NothingWhileWaiting ==
  session = "waiting" => outbox = {} /\ \A m \in Market : books[m] = NoBook

OutboxTruthful == \A row \in outbox : Truthful(row)

\* The inductive invariant: the types, what books, rows and outbox say, and
\* where the log ends.
IInv ==
  /\ TypeOK
  /\ BooksFollowTheExchange
  /\ RowsTruthful
  /\ OutboxTruthful
  /\ ChainUnbroken
  /\ OutboxFollowsBooks
  /\ LogEndsAtBooks
  /\ NothingWhileWaiting

Reached(m, n) ==
  \E i \in 1..stored : log[i].symbol = m /\ log[i].sequence >= n

\* The blind spot of book_check: a market that got a book and then lost its
\* subscription (a second request, sent while the first answer was on its way,
\* was met with silence) is not missing a book, so nothing asks again.
Silenced(m) ==
  /\ session = "open"
  /\ books[m] # NoBook
  /\ m \notin feed
  /\ asked[m] = <<>>

\* Every update that the exchange publishes is, in the end, in the table or
\* overtaken there by a later row of its market, through repeated frames (which
\* the session refuses, and reconnects), silent or refused subscriptions,
\* disconnects and crashes; the only exception is a market left for ever in the
\* blind spot above.  A lost frame is not among the faults: the loss of the last
\* update is seen only when another one follows.  OrderBookPipeline states the
\* fairness and checks it (reconnect loop, book_check, the gap check).
EveryUpdateReachesTheTable ==
  \A m \in Market : []<>~Silenced(m) =>
    \A n \in 1..MaxNonce : (published[m] >= n) ~> Reached(m, n)
=============================================================================
