---------------------- MODULE OrderBookPipelineProofs ----------------------
(***************************************************************************)
(* Proof that the composition of session, channel, writer and tables is an *)
(* OrderBookFeed, for every set of markets and trades, every capacity and  *)
(* all faults.                                                             *)
(*                                                                         *)
(* The writer's lemmas (WriterProofs) say what each of its steps does to   *)
(* the log of rows; those of the abstract feed (OrderBookFeedProofs) carry *)
(* its inductive invariant along, as soon as each step is known to be a    *)
(* step of it.  Both come in by INSTANCE, so each operator of Book,        *)
(* BookSession and Writer has two names here: the first lemmas say that    *)
(* the two are the same.                                                   *)
(***************************************************************************)
EXTENDS OrderBookPipeline, SequenceTheorems, TLAPS

\* The log that refines OrderBookFeed's: the table and what is on its way.
Log == orderbook \o BookRowsInFlight

\* The proofs about the writer, with the trades and rows of this module.
WP == INSTANCE WriterProofs WITH
  BookRow <- Row, TradeRow <- Trade, KeyOf <- [trade \in Trade |-> trade],
  sent <- <<>>, before <- 0, exits <- 0, MaxSent <- 0, MaxExits <- 0

\* The proofs about the feed, under the refinement of OrderBookPipeline.
FP == INSTANCE OrderBookFeedProofs WITH
  log    <- Log,
  stored <- Len(orderbook),
  outbox <- outbox \cap Row

-----------------------------------------------------------------------------
(* One operator, two names *)

\* The book's operators (src/src/book.rs).
LEMMA SameResults ==
  /\ \A x : FP!FromSnapshot(x) = FromSnapshot(x)
  /\ \A x, y : FP!ApplyDelta(x, y) = ApplyDelta(x, y)
  /\ \A x : FP!LevelsOf(x) = LevelsOf(x)
<1>1. \A x : FP!SideFromSnapshot(x) = SideFromSnapshot(x)
  BY Zenon
     DEF FP!SideFromSnapshot, SideFromSnapshot, FP!SnapshotLevel, SnapshotLevel,
         FP!Parses, Parses, FP!ZeroSize, ZeroSize, FP!Ok, Ok, FP!Err, Err, FP!Insert,
         Insert, FP!Price, Price, FP!EmptySide, EmptySide
<1>2. \A x, y : FP!ApplySide(x, y) = ApplySide(x, y)
  BY Zenon
     DEF FP!ApplySide, ApplySide, FP!ApplyLevel, ApplyLevel, FP!Delete, Delete,
         FP!Parses, Parses, FP!ZeroSize, ZeroSize, FP!Ok, Ok, FP!Err, Err, FP!Insert,
         Insert, FP!Price, Price
<1>3. \A x : FP!FromSnapshot(x) = FromSnapshot(x)
  BY <1>1, Zenon
     DEF FP!FromSnapshot, FromSnapshot, FP!Ok, Ok, FP!Err, Err, FP!EmptyBook, EmptyBook,
         FP!EmptySide, EmptySide
<1>4. \A x, y : FP!ApplyDelta(x, y) = ApplyDelta(x, y)
  BY <1>2, Zenon DEF FP!ApplyDelta, ApplyDelta, FP!Err, Err
<1>5. \A x : FP!LevelsOf(x) = LevelsOf(x)
  BY Zenon
     DEF FP!LevelsOf, LevelsOf, FP!Bids, Bids, FP!Asks, Asks, FP!Ascending, Ascending,
         FP!Descending, Descending, FP!LevelsAt, LevelsAt, FP!Cardinality, Cardinality
<1>. QED  BY <1>3, <1>4, <1>5

\* The frames and rows of the exchange.
LEMMA SameConstants ==
  /\ FP!Nonce = Nonce
  /\ \A m, n : FP!BookAt(m, n) = BookAt(m, n)
  /\ \A m, n : FP!SnapshotFrame(m, n) = SnapshotFrame(m, n)
  /\ \A m, n : FP!UpdateFrame(m, n) = UpdateFrame(m, n)
  /\ \A f : FP!Garbled(f) = Garbled(f)
  /\ FP!Other = Other
  /\ FP!Row = Row
<1>1. FP!Nonce = Nonce
  BY Zenon DEF FP!Nonce, Nonce
<1>2. \A m, n : FP!BookAt(m, n) = BookAt(m, n)
  BY SameResults, Zenon DEF FP!BookAt, BookAt
<1>3. /\ \A m, n : FP!SnapshotFrame(m, n) = SnapshotFrame(m, n)
      /\ \A m, n : FP!UpdateFrame(m, n) = UpdateFrame(m, n)
      /\ \A f : FP!Garbled(f) = Garbled(f)
      /\ FP!Other = Other
  BY Zenon
     DEF FP!SnapshotFrame, SnapshotFrame, FP!UpdateFrame, UpdateFrame, FP!Garbled,
         Garbled, FP!Malformed, Malformed, FP!Other, Other
<1>4. FP!Payload = Payload
  <2>1. \A m, n : FP!LevelsOf(FP!BookAt(m, n)) = LevelsOf(BookAt(m, n))
    BY SameResults, <1>2
  <2>. QED  BY <1>1, <2>1 DEF FP!Payload, Payload
<1>5. FP!Row = Row
  BY <1>1, <1>4, Zenon DEF FP!Row, Row, FP!NoNonce, NoNonce
<1>. QED  BY <1>1, <1>2, <1>3, <1>5

\* What OrderBookFeed assumes of its constants is assumed here.
LEMMA SameAssumptions ==
  /\ FP!BoundsAssumption
  /\ FP!ExchangeContract
  /\ FP!BadLevelsAreRefused
  /\ FP!LevelsAssumption
  /\ FP!DecimalAssumption
<1>1. FP!BoundsAssumption
  <2>1. \A m, n : FP!MarketBookAt(m, n) = MarketBookAt(m, n)
    BY SameConstants, Zenon DEF FP!MarketBookAt, MarketBookAt
  <2>. QED  BY BoundsAssumption, SameConstants, <2>1
     DEF FP!BoundsAssumption, BoundsAssumption
<1>2. FP!ExchangeContract
  BY ExchangeContract, SameConstants, SameResults, Zenon
     DEF FP!ExchangeContract, ExchangeContract, FP!Ok, Ok
<1>3. FP!BadLevelsAreRefused
  BY BadLevelsAreRefused, SameConstants, SameResults, Zenon
     DEF FP!BadLevelsAreRefused, BadLevelsAreRefused
<1>4. FP!LevelsAssumption
  BY LevelsAssumption, SameConstants, Zenon
     DEF FP!LevelsAssumption, LevelsAssumption, FP!Levels, Levels, FP!Level, Level
<1>5. FP!DecimalAssumption
  BY DecimalAssumption, Zenon DEF FP!DecimalAssumption, DecimalAssumption
<1>. QED  BY <1>1, <1>2, <1>3, <1>4, <1>5
-----------------------------------------------------------------------------
(* The invariant, and the writer in the names of its proofs *)

\* The types of the writer's state, beyond TypeOK (WriterProofs).
Typed == WP!Typed

\* The inductive invariant: the feed's own, under the refinement, the types of
\* the writer, and an outbox that holds nothing but rows of the two tables.
Inv ==
  /\ FP!IInv
  /\ Typed
  /\ outbox \subseteq Row \cup Trade

\* The writer's actions and the log, in the names of WriterProofs.
LEMMA SameWriter ==
  /\ WP!WriterAssumption
  /\ Log = WP!Log /\ Log' = WP!Log'
  /\ Writer!Init <=> WP!Init
  /\ \A row : Writer!Enqueue(row) <=> WP!Enqueue(row)
  /\ Writer!Receive <=> WP!Receive
  /\ Writer!Tick <=> WP!Tick
  /\ Writer!InsertTrades <=> WP!InsertTrades
  /\ Writer!InsertOrderbookMessages <=> WP!InsertOrderbookMessages
  /\ Writer!EndProcess <=> WP!EndProcess
<1>0. WP!WriterAssumption
  BY PipelineAssumption DEF WP!WriterAssumption
<1>1. Log = WP!Log /\ Log' = WP!Log'
  BY Zenon
     DEF Log, WP!Log, BookRowsInFlight, Writer!OfKind, WP!OfKind, Writer!InFlight,
         WP!InFlight
<1>2. Writer!Init <=> WP!Init
  BY Zenon DEF Writer!Init, WP!Init
<1>3. \A row : Writer!Enqueue(row) <=> WP!Enqueue(row)
  BY Zenon DEF Writer!Enqueue, WP!Enqueue
<1>4. Writer!Receive <=> WP!Receive
  BY Zenon
     DEF Writer!Receive, WP!Receive, Writer!StartFlush, WP!StartFlush, Writer!Inserts,
         WP!Inserts
<1>5. Writer!Tick <=> WP!Tick
  BY Zenon
     DEF Writer!Tick, WP!Tick, Writer!StartFlush, WP!StartFlush, Writer!Inserts,
         WP!Inserts
<1>6. Writer!InsertTrades <=> WP!InsertTrades
  BY Zenon
     DEF Writer!InsertTrades, WP!InsertTrades, Writer!InsertDone, WP!InsertDone,
         Writer!Inserts, WP!Inserts,
         Writer!Inserted, WP!Inserted, Writer!Keys, WP!Keys, Writer!OfKind, WP!OfKind
<1>7. Writer!InsertOrderbookMessages <=> WP!InsertOrderbookMessages
  BY Zenon
     DEF Writer!InsertOrderbookMessages, WP!InsertOrderbookMessages, Writer!InsertDone,
         WP!InsertDone, Writer!Inserts, WP!Inserts, Writer!OfKind, WP!OfKind
<1>8. Writer!EndProcess <=> WP!EndProcess
  BY Zenon DEF Writer!EndProcess, WP!EndProcess
<1>. QED  BY <1>0, <1>1, <1>2, <1>3, <1>4, <1>5, <1>6, <1>7, <1>8

\* A step that leaves the writer alone leaves the log.
LEMMA LogAlone ==
  ASSUME UNCHANGED writerVars
  PROVE  Log' = Log /\ Len(orderbook)' = Len(orderbook)
<1>1. UNCHANGED <<channel, batch, writing, orderbook>>
  BY DEF writerVars
<1>. QED  BY <1>1 DEF Log, BookRowsInFlight, Writer!InFlight

\* The rows of a message and of the periodic snapshot.
LEMMA SameSessionRows ==
  /\ \A frame : FP!OrderbookRow(frame) = OrderbookRow(frame)
  /\ \A m : FP!BookSnapshotRow(m) = BookSnapshotRow(m)
<1>1. \A frame : FP!OrderbookRow(frame) = OrderbookRow(frame)
  BY Zenon DEF FP!OrderbookRow, OrderbookRow, FP!NoNonce, NoNonce
<1>2. \A m : FP!BookSnapshotRow(m) = BookSnapshotRow(m)
  BY SameResults, Zenon DEF FP!BookSnapshotRow, BookSnapshotRow, FP!NoNonce, NoNonce
<1>. QED  BY <1>1, <1>2

\* When a message is taken, and the book after it.
LEMMA SameMessages ==
  /\ \A frame : FP!SnapshotAccepted(frame) <=> SnapshotAccepted(frame)
  /\ \A frame : FP!UpdateAccepted(frame) <=> UpdateAccepted(frame)
  /\ \A frame : FP!BookAfter(frame) = BookAfter(frame)
BY SameResults, Zenon
   DEF FP!SnapshotAccepted, SnapshotAccepted, FP!UpdateAccepted, UpdateAccepted,
       FP!BookAfter, BookAfter

-----------------------------------------------------------------------------
(* Every step is a step of the feed, or leaves it alone *)

\* The exchange knows nothing of outbox and log.
LEMMA ExchangeStepMaps ==
  ASSUME ExchangeStep
  PROVE  FP!ExchangeStep
<1>1. UNCHANGED <<Log, Len(orderbook)>>
  BY LogAlone DEF ExchangeStep
<1>2. \A frame : Deliver(frame) => FP!Deliver(frame)
  BY SameConstants, Zenon DEF Deliver, FP!Deliver, Inject, FP!Inject
<1>3. ASSUME NEW m \in Market, Publish(m)
      PROVE  FP!Publish(m)
  BY <1>2, <1>3, SameConstants, Zenon DEF Publish, FP!Publish
<1>4. ASSUME NEW m \in Market, ServeRequest(m)
      PROVE  FP!ServeRequest(m)
  BY <1>2, <1>4, SameConstants, Zenon DEF ServeRequest, FP!ServeRequest, Inject, FP!Inject
<1>. QED  BY <1>1, <1>3, <1>4 DEF ExchangeStep, FP!ExchangeStep

\* A trade in the outbox is not seen by the feed.
LEMMA TradesAreNoBookRows == \A trade \in Trade : {trade} \cap Row = {}
BY PipelineAssumption

\* The end of a session drops the trades with the rows.
LEMMA EndSessionMaps ==
  ASSUME EndSession
  PROVE  FP!EndSession
BY Zenon DEF EndSession, FP!EndSession

\* A message that is taken leaves one genuine row to send (OrderBookFeedProofs).
LEMMA AcceptedRow ==
  ASSUME Inv, ReadFrame, AcceptMessage(Head(wire))
  PROVE  /\ FP!SnapshotAccepted(Head(wire)) \/ FP!UpdateAccepted(Head(wire))
         /\ outbox' \subseteq Row
         /\ (outbox \cap Row)' = {FP!OrderbookRow(Head(wire))}
<1>1. FP!SnapshotAccepted(Head(wire)) \/ FP!UpdateAccepted(Head(wire))
  BY SameMessages DEF AcceptMessage
<1>2. FP!OrderbookRow(Head(wire)) \in FP!Row
  BY <1>1, FP!AcceptedRow, SameAssumptions DEF Inv, ReadFrame
<1>3. OrderbookRow(Head(wire)) \in Row
  BY <1>2, SameSessionRows, SameConstants
<1>4. outbox' = {OrderbookRow(Head(wire))}
  BY DEF AcceptMessage
<1>. QED  BY <1>1, <1>3, <1>4, SameSessionRows

\* The session reads a frame when no row, and so no book row, waits to be sent.
LEMMA ReadFrameMaps ==
  ASSUME Inv, ReadFrame
  PROVE  FP!ReadFrame
<1>. DEFINE frame == Head(wire)
<1>1. /\ Idle /\ wire # <<>>
      /\ AcceptMessage(frame) \/ SkipFrame(frame) \/ RejectFrame(frame)
  BY DEF ReadFrame
<1>2. FP!Idle
  BY <1>1 DEF Idle, FP!Idle
<1>3. ASSUME AcceptMessage(frame)
      PROVE  FP!AcceptMessage(frame)
  BY <1>3, AcceptedRow, SameMessages DEF AcceptMessage, FP!AcceptMessage
<1>4. ASSUME SkipFrame(frame)
      PROVE  FP!SkipFrame(frame)
  BY <1>4, Zenon DEF SkipFrame, FP!SkipFrame
<1>5. ASSUME RejectFrame(frame)
      PROVE  FP!RejectFrame(frame)
  BY <1>5, EndSessionMaps, SameMessages DEF RejectFrame, FP!RejectFrame
<1>. QED  BY <1>1, <1>2, <1>3, <1>4, <1>5 DEF FP!ReadFrame

\* The periodic snapshots are book rows, all of them.
LEMMA SnapshotTickMaps ==
  ASSUME Inv, SnapshotTick
  PROVE  FP!SnapshotTick /\ outbox' \subseteq Row
<1>. DEFINE held == {k \in Market : books[k] # NoBook}
<1>1. outbox' = {BookSnapshotRow(m) : m \in held}
  BY DEF SnapshotTick
<1>2. ASSUME NEW m \in held
      PROVE  BookSnapshotRow(m) \in Row
  <2>1. FP!BookSnapshotRow(m) \in FP!Row
    BY FP!SnapshotOfBook, SameAssumptions DEF Inv
  <2>. QED  BY <2>1, SameSessionRows, SameConstants
<1>3. outbox' \subseteq Row
  BY <1>1, <1>2
<1>4. (outbox \cap Row)' = {FP!BookSnapshotRow(m) : m \in held}
  BY <1>1, <1>3, SameSessionRows
<1>5. FP!Idle
  BY DEF SnapshotTick, Idle, FP!Idle
<1>. QED  BY <1>3, <1>4, <1>5 DEF SnapshotTick, FP!SnapshotTick

\* Each branch of the select! loop; a trade frame is a stutter of the feed.
LEMMA SessionStepMaps ==
  ASSUME Inv, SessionStep
  PROVE  FP!SessionStep \/ UNCHANGED FP!vars
<1>1. UNCHANGED <<Log, Len(orderbook)>>
  BY LogAlone DEF SessionStep
<1>2. ASSUME Connect
      PROVE  FP!Connect
  BY <1>2, Zenon DEF Connect, FP!Connect
<1>3. ASSUME ConnectionEnds
      PROVE  FP!ConnectionEnds
  BY <1>3, EndSessionMaps
     DEF ConnectionEnds, FP!ConnectionEnds, Inject, FP!Inject, Idle, FP!Idle
<1>4. ASSUME BookCheckTick
      PROVE  FP!BookCheckTick
  <2>1. FP!Idle
    BY <1>4 DEF BookCheckTick, Idle, FP!Idle
  <2>. QED  BY <1>4, <2>1, Zenon
     DEF BookCheckTick, FP!BookCheckTick, MissingBooks, FP!MissingBooks
<1>5. ASSUME HandleTradeFrame
      PROVE  UNCHANGED FP!vars
  <2>1. PICK trade \in Trade : outbox' = {trade}
    BY <1>5 DEF HandleTradeFrame
  <2>2. (outbox \cap Row)' = outbox \cap Row
    BY <1>5, <2>1, TradesAreNoBookRows DEF HandleTradeFrame, Idle
  <2>. QED  BY <1>1, <1>5, <2>2 DEF HandleTradeFrame, FP!vars
<1>6. ASSUME Len(Log) < MaxRows, SnapshotTick
      PROVE  Len(Log) < MaxRows /\ FP!SnapshotTick
  BY <1>6, SnapshotTickMaps
<1>7. \/ Connect \/ ConnectionEnds \/ ReadFrame
      \/ Len(Log) < MaxRows /\ SnapshotTick
      \/ BookCheckTick \/ HandleTradeFrame
  BY DEF SessionStep, Log
<1>. QED  BY <1>1, <1>2, <1>3, <1>4, <1>5, <1>6, <1>7, ReadFrameMaps DEF FP!SessionStep

\* A book row that enters the channel is accepted by the log, a trade leaves
\* the log as it is (WP!LogGrows).
LEMMA SendRowMaps ==
  ASSUME Inv, SendRow
  PROVE  FP!SendRow \/ UNCHANGED FP!vars
<1>1. PICK row \in outbox : TakeFromOutbox(row) /\ Writer!Enqueue(row)
  BY DEF SendRow
<1>2. row \in WP!AnyRow /\ WP!Enqueue(row)
  BY <1>1, SameWriter DEF Inv, WP!AnyRow
<1>3. Log' = IF row \in Row THEN Append(Log, row) ELSE Log
  BY <1>2, WP!LogGrows, SameWriter DEF Inv, Typed
<1>4. orderbook' = orderbook
  BY <1>1 DEF Writer!Enqueue
<1>5. CASE row \in Row
  <2>1. FP!TakeFromOutbox(row)
    BY <1>1, <1>5 DEF TakeFromOutbox, FP!TakeFromOutbox
  <2>2. FP!Rows!Accept(row)
    BY <1>3, <1>4, <1>5 DEF FP!Rows!Accept
  <2>. QED  BY <1>5, <2>1, <2>2 DEF FP!SendRow, FP!TakeFromOutbox
<1>6. CASE row \notin Row
  BY <1>1, <1>3, <1>4, <1>6 DEF FP!vars, TakeFromOutbox
<1>. QED  BY <1>5, <1>6

\* The writer moves rows towards the table without a change of the log, and
\* the insert of a batch without book rows is a stutter (WP!LogStays).
LEMMA WriterStepMaps ==
  ASSUME Inv, WriterStep
  PROVE  FP!Flush \/ UNCHANGED FP!vars
<1>1. /\ WP!Receive \/ WP!Tick \/ WP!InsertTrades \/ WP!InsertOrderbookMessages
      /\ UNCHANGED sessionVars
  BY SameWriter DEF WriterStep
<1>2. /\ WP!Log' = WP!Log /\ Log' = Log
      /\ \E n \in 0..(Len(Log) - Len(orderbook)) : Len(orderbook') = Len(orderbook) + n
  BY <1>1, WP!LogStays, SameWriter DEF Inv, Typed
<1>3. UNCHANGED FP!sessionVars
  BY <1>1, Zenon DEF sessionVars, FP!sessionVars
<1>4. PICK n \in 0..(Len(Log) - Len(orderbook)) : Len(orderbook') = Len(orderbook) + n
  BY <1>2
<1>5. Len(orderbook) \in Nat
  BY DEF Inv, Typed, WP!Typed
<1>6. CASE n = 0
  BY <1>1, <1>2, <1>4, <1>5, <1>6 DEF FP!vars, sessionVars
<1>7. CASE n # 0
  <2>1. n \in 1..(Len(Log) - Len(orderbook))
    BY <1>7
  <2>. QED  BY <1>2, <1>3, <1>4, <2>1 DEF FP!Flush, FP!Rows!Persist
<1>. QED  BY <1>6, <1>7

\* A crash leaves of the log what the table holds (WP!LogCut).
LEMMA CrashMaps ==
  ASSUME Inv, Crash
  PROVE  FP!Crash
<1>1. WP!EndProcess /\ EndSession /\ Inject("crash")
  BY SameWriter DEF Crash
<1>2. Log' = SubSeq(Log, 1, Len(orderbook)) /\ orderbook' = orderbook
  BY <1>1, WP!LogCut, SameWriter DEF Inv, Typed
<1>3. FP!EndSession /\ FP!Inject("crash")
  BY <1>1, EndSessionMaps DEF Inject, FP!Inject
<1>. QED  BY <1>2, <1>3 DEF FP!Crash, FP!Rows!LoseUnstored

\* So every step is one of the feed's.
LEMMA NextMaps ==
  ASSUME Inv, [Next]_vars
  PROVE  [FP!Next]_FP!vars
<1>1. CASE UNCHANGED vars
  <2>1. UNCHANGED sessionVars /\ UNCHANGED writerVars
    BY <1>1 DEF vars
  <2>. QED  BY <2>1, LogAlone DEF sessionVars, FP!vars
<1>2. CASE Next
  BY <1>2, ExchangeStepMaps, SessionStepMaps, SendRowMaps, WriterStepMaps, CrashMaps
     DEF Next, FP!Next
<1>. QED  BY <1>1, <1>2

-----------------------------------------------------------------------------
(* The inductive invariant and the theorems *)

\* Nothing is stored, on its way or subscribed at the start.
LEMMA InitMaps ==
  ASSUME Init
  PROVE  FP!Init
<1>1. Log = <<>> /\ orderbook = <<>>
  <2>1. /\ writing = <<>> /\ batch = <<>> /\ channel = <<>> /\ orderbook = <<>>
    BY DEF Init, Writer!Init
  <2>2. WP!Log = <<>> \o WP!OfKind(Row, <<>>)
    BY <2>1, ConcatEmptySeq, EmptySeq DEF WP!Log, WP!InFlight
  <2>. QED  BY <2>1, <2>2, WP!OfKindEmpty, SameWriter, ConcatEmptySeq, EmptySeq
<1>2. FP!SessionInit
  BY DEF Init, SessionInit, FP!SessionInit
<1>. QED  BY <1>1, <1>2 DEF FP!Init, FP!Rows!Init

\* The invariant holds at the start.
LEMMA InitInv ==
  ASSUME Init
  PROVE  Inv
<1>1. WP!Typed
  BY WP!InitTyped, SameWriter DEF Init
<1>. QED  BY <1>1, InitMaps, FP!InitInv, SameAssumptions DEF Inv, Typed, Init, SessionInit

\* The feed's part of the invariant follows from NextMaps; the types of the
\* writer and of the outbox are kept by each action.
LEMMA NextInv ==
  ASSUME Inv, [Next]_vars
  PROVE  Inv'
<1>1. FP!IInv'
  BY NextMaps, FP!NextInv, SameAssumptions DEF Inv
<1>2. Typed'
  <2>1. CASE UNCHANGED writerVars
    BY <2>1, Zenon DEF Inv, Typed, WP!Typed, writerVars
  <2>2. ASSUME NEW row \in outbox, Writer!Enqueue(row)
        PROVE  Typed'
    <3>1. row \in WP!AnyRow /\ WP!Enqueue(row)
      BY <2>2, SameWriter DEF Inv, WP!AnyRow
    <3>. QED  BY <3>1, EmptySeq, WP!EnqueueTyped, SameWriter DEF Inv, Typed
  <2>3. CASE WriterStep
    <3>1. WP!Next
      BY <2>3, SameWriter DEF WriterStep, WP!Next
    <3>. QED  BY <3>1, WP!NextTyped, SameWriter DEF Inv, Typed
  <2>4. CASE Crash
    <3>1. WP!EndProcess
      BY <2>4, SameWriter DEF Crash
    <3>. QED  BY <3>1, EmptySeq, WP!EndProcessTyped, SameWriter DEF Inv, Typed
  <2>. QED  BY <2>1, <2>2, <2>3, <2>4 DEF Next, vars, ExchangeStep, SessionStep, SendRow
<1>3. (outbox \subseteq Row \cup Trade)'
  <2>1. CASE SessionStep
    <3>1. CASE ReadFrame
      <4>1. ASSUME AcceptMessage(Head(wire))
            PROVE  outbox' \subseteq Row
        BY <3>1, <4>1, AcceptedRow
      <4>2. CASE SkipFrame(Head(wire)) \/ RejectFrame(Head(wire))
        BY <4>2 DEF Inv, SkipFrame, RejectFrame, EndSession
      <4>. QED  BY <3>1, <4>1, <4>2 DEF ReadFrame
    <3>2. CASE SnapshotTick
      BY <3>2, SnapshotTickMaps
    <3>3. CASE HandleTradeFrame
      BY <3>3 DEF HandleTradeFrame
    <3>. QED  BY <2>1, <3>1, <3>2, <3>3
         DEF Inv, SessionStep, Connect, ConnectionEnds, EndSession, BookCheckTick
  <2>2. CASE UNCHANGED outbox
    BY <2>2 DEF Inv
  <2>3. CASE SendRow \/ Crash
    BY <2>3 DEF Inv, SendRow, TakeFromOutbox, Crash, EndSession
  <2>. QED  BY <2>1, <2>2, <2>3
       DEF Next, vars, sessionVars, ExchangeStep, Publish, ServeRequest, WriterStep
<1>. QED  BY <1>1, <1>2, <1>3 DEF Inv

\* The feed of OrderBookPipeline is the one of the proofs: the same operators on
\* books and frames, and the same actions.
LEMMA SameBooks ==
  /\ \A levels : FP!FromSnapshot(levels) = Feed!FromSnapshot(levels)
  /\ \A book, levels : FP!ApplyDelta(book, levels) = Feed!ApplyDelta(book, levels)
  /\ \A book : FP!LevelsOf(book) = Feed!LevelsOf(book)
  /\ \A value : FP!Ok(value) = Feed!Ok(value)
<1>. USE DEF FP!Ok, Feed!Ok, FP!Err, Feed!Err, FP!EmptySide, Feed!EmptySide
<1>1. \A levels : FP!FromSnapshot(levels) = Feed!FromSnapshot(levels)
  <2>1. \A list : FP!SideFromSnapshot(list) = Feed!SideFromSnapshot(list)
    BY Zenon
       DEF FP!SideFromSnapshot, Feed!SideFromSnapshot, FP!SnapshotLevel,
           Feed!SnapshotLevel, FP!Parses, Feed!Parses, FP!Price, Feed!Price, FP!ZeroSize,
           Feed!ZeroSize, FP!Insert, Feed!Insert
  <2>. QED  BY <2>1, Zenon DEF FP!FromSnapshot, Feed!FromSnapshot, FP!EmptyBook, Feed!EmptyBook
<1>2. \A book, levels : FP!ApplyDelta(book, levels) = Feed!ApplyDelta(book, levels)
  <2>1. \A side, list : FP!ApplySide(side, list) = Feed!ApplySide(side, list)
    BY Zenon
       DEF FP!ApplySide, Feed!ApplySide, FP!ApplyLevel, Feed!ApplyLevel, FP!Parses,
           Feed!Parses, FP!Price, Feed!Price, FP!ZeroSize, Feed!ZeroSize, FP!Insert,
           Feed!Insert, FP!Delete, Feed!Delete
  <2>. QED  BY <2>1, Zenon DEF FP!ApplyDelta, Feed!ApplyDelta
<1>3. \A book : FP!LevelsOf(book) = Feed!LevelsOf(book)
  BY Zenon
     DEF FP!LevelsOf, Feed!LevelsOf, FP!Bids, Feed!Bids, FP!Asks, Feed!Asks, FP!Ascending,
         Feed!Ascending, FP!Descending, Feed!Descending, FP!LevelsAt, Feed!LevelsAt,
         FP!Cardinality, Feed!Cardinality
<1>. QED  BY <1>1, <1>2, <1>3, Zenon DEF FP!Ok, Feed!Ok

LEMMA SameFeed ==
  /\ FP!Init => Feed!Init
  /\ FP!Next => Feed!Next
  /\ FP!vars = Feed!vars /\ FP!vars' = Feed!vars'
<1>1. FP!Init => Feed!Init
  BY DEF FP!Init, Feed!Init, FP!SessionInit, Feed!SessionInit, FP!Rows!Init, Feed!Rows!Init, Log
<1>2. FP!vars = Feed!vars /\ FP!vars' = Feed!vars'
  BY DEF FP!vars, Feed!vars, Log
<1>. USE DEF Log, FP!EndSession, Feed!EndSession, FP!Idle, Feed!Idle, FP!Inject, Feed!Inject,
         FP!sessionVars, Feed!sessionVars
<1>3. FP!ExchangeStep => Feed!ExchangeStep
  BY Zenon
     DEF FP!ExchangeStep, Feed!ExchangeStep, FP!Publish, Feed!Publish, FP!Deliver,
         Feed!Deliver, FP!UpdateFrame, Feed!UpdateFrame, FP!SnapshotFrame,
         Feed!SnapshotFrame, FP!Garbled, Feed!Garbled, FP!Malformed, Feed!Malformed,
         FP!Other, Feed!Other, FP!ServeRequest, Feed!ServeRequest
<1>4. FP!ReadFrame => Feed!ReadFrame
  BY SameBooks, Zenon
     DEF FP!ReadFrame, Feed!ReadFrame, FP!AcceptMessage, Feed!AcceptMessage,
         FP!SnapshotAccepted, Feed!SnapshotAccepted, FP!UpdateAccepted,
         Feed!UpdateAccepted, FP!BookAfter, Feed!BookAfter, FP!OrderbookRow,
         Feed!OrderbookRow, FP!NoNonce, Feed!NoNonce, FP!SkipFrame, Feed!SkipFrame,
         FP!RejectFrame, Feed!RejectFrame, FP!Other, Feed!Other
<1>5. FP!SnapshotTick => Feed!SnapshotTick
  <2>1. \A m : FP!BookSnapshotRow(m) = Feed!BookSnapshotRow(m)
    BY SameBooks, Zenon
       DEF FP!BookSnapshotRow, Feed!BookSnapshotRow, FP!NoNonce, Feed!NoNonce
  <2>. QED  BY <2>1, Zenon DEF FP!SnapshotTick, Feed!SnapshotTick
<1>6. FP!BookCheckTick => Feed!BookCheckTick
  BY Zenon DEF FP!BookCheckTick, Feed!BookCheckTick, FP!MissingBooks, Feed!MissingBooks
<1>7. FP!SessionStep => Feed!SessionStep
  BY <1>4, <1>5, <1>6, Zenon
     DEF FP!SessionStep, Feed!SessionStep, FP!Connect, Feed!Connect, FP!ConnectionEnds,
         Feed!ConnectionEnds
<1>8. FP!Next => Feed!Next
  BY <1>3, <1>7, Zenon
     DEF FP!Next, Feed!Next, FP!SendRow, Feed!SendRow, FP!TakeFromOutbox,
         Feed!TakeFromOutbox, FP!Rows!Accept, Feed!Rows!Accept, FP!Flush, Feed!Flush,
         FP!Rows!Persist, Feed!Rows!Persist, FP!Crash, Feed!Crash, FP!Rows!LoseUnstored,
         Feed!Rows!LoseUnstored
<1>. QED  BY <1>1, <1>2, <1>8

\* Inv holds in every state of the composition.
THEOREM Invariance == Spec => []Inv
<1>1. Init => Inv
  BY InitInv
<1>2. Inv /\ [Next]_vars => Inv'
  BY NextInv
<1>. QED  BY <1>1, <1>2, PTL DEF Spec

\* The composition of session, channel, writer and tables implements
\* OrderBookFeed: see ImplementsOrderBookFeed (main, writer_task, flush).
THEOREM ImplementsTheFeed == Spec => ImplementsOrderBookFeed
<1>1. Init => Inv /\ Feed!Init
  BY InitInv, InitMaps, SameFeed
<1>2. Inv /\ [Next]_vars => [Feed!Next]_Feed!vars
  BY NextMaps, SameFeed
<1>. QED  BY <1>1, <1>2, Invariance, PTL DEF Spec, ImplementsOrderBookFeed, Feed!Spec

\* What OrderBookFeed promises of its rows holds of the table and of what is on
\* its way there: the nonce chain has no hole and every row says what the
\* exchange said, in batches that mix books and trades, and after every crash.
THEOREM TablesTellTheTruth == Spec => [](Feed!ChainUnbroken /\ Feed!RowsTruthful)
<1>1. FP!ChainUnbroken => Feed!ChainUnbroken
  BY Zenon DEF FP!ChainUnbroken, Feed!ChainUnbroken, FP!PreviousRow, Feed!PreviousRow, Log
<1>2. FP!RowsTruthful => Feed!RowsTruthful
  BY SameBooks, Zenon
     DEF FP!RowsTruthful, Feed!RowsTruthful, FP!Truthful, Feed!Truthful, Log, FP!BookAt,
         Feed!BookAt
<1>3. Inv => Feed!ChainUnbroken /\ Feed!RowsTruthful
  BY <1>1, <1>2 DEF Inv, FP!IInv
<1>. QED  BY <1>3, Invariance, PTL

\* So both ways to rebuild a book from the real table work, behind the channel,
\* mixed batches and flushes that an exit interrupts, and whatever retention has
\* dropped, if the source times follow the nonces (README, "To rebuild a book").
THEOREM TheTableRebuilds ==
  FP!TimesFollowNonces => (Spec => [](FP!ReaderRebuildsTheBook /\ FP!ReplayRebuildsTheBook))
<1>. SUFFICES ASSUME FP!TimesFollowNonces
              PROVE  Spec => [](FP!ReaderRebuildsTheBook /\ FP!ReplayRebuildsTheBook)
  OBVIOUS
<1>1. Init => FP!NoncesRise
  BY InitMaps, FP!InitRises, SameAssumptions
<1>2. Inv /\ FP!NoncesRise /\ [Next]_vars => FP!NoncesRise'
  BY NextMaps, FP!NextRises, SameAssumptions DEF Inv
<1>3. Inv /\ FP!NoncesRise => FP!ReaderRebuildsTheBook /\ FP!ReplayRebuildsTheBook
  BY FP!BothRebuild, SameAssumptions DEF Inv
<1>. QED  BY <1>1, <1>2, <1>3, Invariance, PTL DEF Spec
=============================================================================
