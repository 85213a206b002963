------------------------- MODULE OrderBookPipeline -------------------------
(***************************************************************************)
(* The order-book session of BookSession composed with the channel, writer *)
(* and tables of Writer in one process (main in src/src/main.rs), as       *)
(* the code runs them: trades share the session's loop, the channel and    *)
(* the flushes with the books, a full channel stops the whole loop, and    *)
(* an exit takes channel, batch and books with it.  OrderBookFeed is what  *)
(* this composition promises.                                              *)
(***************************************************************************)
EXTENDS BookSession

CONSTANTS Trade,    \* trades rows: model values, each one its own key
          MaxRows,  \* bound: order-book rows before the snapshot timer stops
          ChannelCapacity, BatchCapacity  \* of Writer

ASSUME PipelineAssumption ==
  /\ \A trade \in Trade : trade \notin Row
  /\ ChannelCapacity \in Nat \ {0}
  /\ BatchCapacity \in Nat \ {0}

VARIABLES channel, batch, writing, phase, trades, orderbook

writerVars == <<channel, batch, writing, phase, trades, orderbook>>
vars == <<sessionVars, writerVars>>

\* Without Writer's histories: exits are counted among the faults.
Writer == INSTANCE Writer WITH
  BookRow <- Row, TradeRow <- Trade, KeyOf <- [trade \in Trade |-> trade],
  sent <- <<>>, before <- 0, exits <- 0, MaxSent <- 0, MaxExits <- 0

BookRowsInFlight == Writer!OfKind(Row, Writer!InFlight)

Init == SessionInit /\ Writer!Init

ExchangeStep ==
  /\ \E m \in Market : Publish(m) \/ ServeRequest(m)
  /\ UNCHANGED writerVars

\* A trade frame (bound: of a trade that is neither stored nor on its way): as
\* for a book, the handler keeps the loop until the row is in the channel.
HandleTradeFrameCancelling ==
  /\ session = "open"
  /\ \E trade \in Trade \ (trades \cup Writer!Contents(Writer!InFlight)) : outbox' = {trade}
  /\ UNCHANGED <<published, feed, asked, wire, session, conn, books, faults>>
HandleTradeFrame ==
  /\ Idle
  /\ \E trade \in Trade \ (trades \cup Writer!Contents(Writer!InFlight)) : outbox' = {trade}
  /\ UNCHANGED <<published, feed, asked, wire, session, conn, books, faults>>

SessionStep ==
  /\ \/ Connect
     \/ ConnectionEnds
     \/ ReadFrame
     \/ Len(orderbook \o BookRowsInFlight) < MaxRows /\ SnapshotTick
     \/ BookCheckTick
     \/ HandleTradeFrame
  /\ UNCHANGED writerVars

\* tx.send(row).await, which waits while the channel is full.
SendRow ==
  \E row \in outbox :
    /\ TakeFromOutbox(row)
    /\ Writer!Enqueue(row)

WriterStep ==
  /\ \/ Writer!Receive
     \/ Writer!Tick
     \/ Writer!InsertTrades
     \/ Writer!InsertOrderbookMessages
  /\ UNCHANGED sessionVars

\* exit(1) in the writer or the funding poller, or a crash, at any moment: also
\* between the two inserts of a flush.
Crash ==
  /\ Inject("crash")
  /\ EndSession
  /\ Writer!EndProcess

Next ==
  \/ ExchangeStep
  \/ SessionStep
  \/ SendRow
  \/ WriterStep
  \/ Crash

Spec == Init /\ [][Next]_vars

\* The exchange answers the requests it gets; the reconnect loop and the session's
\* loop go on, and so do the writer's loop, its ticker and its inserts.  This is
\* weaker than fairness of each branch: of those that are ready, any one runs.
SessionLoop == Connect \/ ReadFrame \/ BookCheckTick
FairSpec ==
  /\ Spec
  /\ \A m \in Market : WF_vars(ServeRequest(m) /\ UNCHANGED writerVars)
  /\ WF_vars((SessionLoop /\ UNCHANGED writerVars) \/ SendRow)
  /\ WF_vars(WriterStep)
-----------------------------------------------------------------------------
\* The rows of OrderBookFeed are the table and what is in flight behind it; its
\* outbox is ours without the trades.
Feed == INSTANCE OrderBookFeed WITH
  log    <- orderbook \o BookRowsInFlight,
  stored <- Len(orderbook),
  outbox <- outbox \cap Row

\* The composition is an OrderBookFeed: trades between the books, a handler
\* that waits for the channel, batches that mix both kinds of row and exits in
\* the middle of a flush never reorder, lose or repeat an order-book row within
\* a process, nor touch one that is stored.  So all that is proved of
\* OrderBookFeed holds of the tables (writer_task, flush, run_ws_ingestion).
ImplementsOrderBookFeed == Feed!Spec

\* Every update of the exchange is in the table in the end, or overtaken there
\* by a later row of its market: see OrderBookFeed, of which this is the
\* property, through the real channel, batches and flushes.
EveryUpdateReachesTheTable == Feed!EveryUpdateReachesTheTable
=============================================================================
