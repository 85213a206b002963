------------------------ MODULE OrderBookFeedProofs ------------------------
(***************************************************************************)
(* Proofs about OrderBookFeed for every set of markets, every exchange     *)
(* that keeps its contract, every set of faults and all bounds.            *)
(*                                                                         *)
(* IInv is inductive.  Its step is proved action by action; the frames     *)
(* that the session accepts are genuine (AcceptedSnapshot, AcceptedUpdate),*)
(* so books and rows stay true, and the chain holds because the log of a   *)
(* market always ends where its book stands.                               *)
(***************************************************************************)
EXTENDS OrderBookReader, SequenceTheorems, TLAPS

\* A snapshot that the session accepts is a book of the exchange, whatever
\* garbled frames the connection carries (from_snapshot, micros_to_datetime).
LEMMA AcceptedSnapshot ==
  ASSUME NEW frame \in Frame, SnapshotAccepted(frame)
  PROVE  \E m \in Market, n \in Nonce : frame = SnapshotFrame(m, n)
<1>1. CASE frame \in BookFrames
  BY <1>1 DEF BookFrames, SnapshotFrames, UpdateFrames, SnapshotAccepted,
              UpdateFrame
<1>2. CASE frame = Other
  BY <1>2 DEF Other, SnapshotAccepted
<1>3. ASSUME NEW f \in BookFrames, frame \in Garbled(f)
      PROVE  FALSE
  <2>1. CASE frame = [f EXCEPT !.levels = BadLevels]
    <3>1. frame.levels = BadLevels
      BY <1>3, <2>1 DEF BookFrames, SnapshotFrames, UpdateFrames, SnapshotFrame, UpdateFrame
    <3>2. QED
      BY <3>1, BadLevelsAreRefused DEF SnapshotAccepted
  <2>2. CASE frame = [f EXCEPT !.last_updated_at = BadTime]
    <3>1. frame.last_updated_at = BadTime
      BY <1>3, <2>2 DEF BookFrames, SnapshotFrames, UpdateFrames, SnapshotFrame, UpdateFrame
    <3>2. QED
      BY <3>1, BoundsAssumption DEF SnapshotAccepted
  <2>3. CASE frame = Malformed
    BY <2>3 DEF Malformed, SnapshotAccepted
  <2>4. QED
    BY <1>3, <2>1, <2>2, <2>3 DEF Garbled
<1>4. QED
  BY <1>1, <1>2, <1>3 DEF Frame

\* An update that the session accepts is the update of the exchange that
\* comes right after the one its book stands at (the begin_nonce check,
\* apply_delta).
LEMMA AcceptedUpdate ==
  ASSUME NEW frame \in Frame, UpdateAccepted(frame), TypeOK, BooksFollowTheExchange
  PROVE  \E m \in Market, n \in Nonce \ {0} :
           /\ frame = UpdateFrame(m, n)
           /\ books[m] # NoBook
           /\ books[m].nonce = n - 1
           /\ n - 1 \in Nonce
<1>1. CASE frame \in BookFrames
  <2>1. PICK m \in Market, n \in Nonce \ {0} : frame = UpdateFrame(m, n)
    BY <1>1 DEF BookFrames, SnapshotFrames, UpdateFrames, UpdateAccepted, SnapshotFrame
  <2>2. books[m] # NoBook /\ books[m].nonce = n - 1
    BY <2>1 DEF UpdateAccepted, UpdateFrame
  <2>3. n - 1 \in Nonce
    BY <2>1, BoundsAssumption DEF Nonce
  <2>4. QED
    BY <2>1, <2>2, <2>3
<1>2. CASE frame = Other
  BY <1>2 DEF Other, UpdateAccepted
<1>3. ASSUME NEW f \in BookFrames, frame \in Garbled(f)
      PROVE  FALSE
  <2>1. CASE frame = [f EXCEPT !.levels = BadLevels]
    <3>1. /\ frame.levels = BadLevels
          /\ frame.market \in Market
      BY <1>3, <2>1 DEF BookFrames, SnapshotFrames, UpdateFrames, SnapshotFrame, UpdateFrame
    <3>2. PICK n \in Nonce : books[frame.market].book = BookAt(frame.market, n)
      BY <3>1 DEF UpdateAccepted, BooksFollowTheExchange, MarketBookAt, TypeOK
    <3>3. QED
      BY <3>1, <3>2, BadLevelsAreRefused DEF UpdateAccepted
  <2>2. CASE frame = [f EXCEPT !.last_updated_at = BadTime]
    <3>1. frame.last_updated_at = BadTime
      BY <1>3, <2>2 DEF BookFrames, SnapshotFrames, UpdateFrames, SnapshotFrame, UpdateFrame
    <3>2. QED
      BY <3>1, BoundsAssumption DEF UpdateAccepted
  <2>3. CASE frame = Malformed
    BY <2>3 DEF Malformed, UpdateAccepted
  <2>4. QED
    BY <1>3, <2>1, <2>2, <2>3 DEF Garbled
<1>4. QED
  BY <1>1, <1>2, <1>3 DEF Frame
-----------------------------------------------------------------------------
(* FromSnapshot *)

\* A snapshot that is read is Ok of the book it gives (from_snapshot).
LEMMA SnapshotIsAResult ==
  ASSUME NEW levels, FromSnapshot(levels).ok
  PROVE  FromSnapshot(levels) = Ok(FromSnapshot(levels).value)
BY DEF FromSnapshot, Ok, Err
-----------------------------------------------------------------------------
(* Steps that leave the books, the outbox and the log alone, and steps that  *)
(* end the connection, keep all of IInv but the types without more ado.      *)

\* A step that sends no row leaves what the log says as it was.
LEMMA LogUnchanged ==
  ASSUME IInv, UNCHANGED log
  PROVE  RowsTruthful' /\ ChainUnbroken'
<1>1. RowsTruthful'
  BY DEF IInv, RowsTruthful, Truthful
<1>2. ChainUnbroken'
  BY DEF IInv, ChainUnbroken, PreviousRow
<1>3. QED
  BY <1>1, <1>2

\* The books and the rows are not disturbed by what the exchange does.
LEMMA StepAside ==
  ASSUME IInv, TypeOK', UNCHANGED <<session, conn, books, outbox, log>>
  PROVE  IInv'
<1>1. BooksFollowTheExchange' /\ NothingWhileWaiting'
  BY DEF IInv, BooksFollowTheExchange, NothingWhileWaiting
<1>2. OutboxTruthful'
  BY DEF IInv, OutboxTruthful, Truthful
<1>3. RowsTruthful' /\ ChainUnbroken'
  BY LogUnchanged
<1>4. OutboxFollowsBooks' /\ LogEndsAtBooks'
  BY DEF IInv, OutboxFollowsBooks, LogEndsAtBooks, LastRow
<1>5. QED
  BY <1>1, <1>2, <1>3, <1>4 DEF IInv

\* With the books and the outbox gone, only what the log says remains.
LEMMA StepWithoutBooks ==
  ASSUME TypeOK', RowsTruthful', ChainUnbroken',
         outbox' = {}, books' = [m \in Market |-> NoBook]
  PROVE  IInv'
<1>1. BooksFollowTheExchange' /\ NothingWhileWaiting'
  BY DEF BooksFollowTheExchange, NothingWhileWaiting
<1>2. OutboxTruthful' /\ OutboxFollowsBooks'
  BY DEF OutboxTruthful, OutboxFollowsBooks
<1>3. LogEndsAtBooks'
  BY DEF LogEndsAtBooks
<1>4. QED
  BY <1>1, <1>2, <1>3 DEF IInv

LEMMA EndSessionTypes ==
  ASSUME TypeOK, EndSession, faults' \in 0..MaxFaults, Rows!TypeOK'
  PROVE  TypeOK'
<1>1. /\ wire' \in Seq(Frame)
      /\ asked' \in [Market -> Seq({"subscribe", "unsubscribe"})]
  BY EmptySeq DEF EndSession
<1>2. QED
  BY <1>1 DEF TypeOK, EndSession

\* The first frame on the wire.
LEMMA NextFrame ==
  ASSUME TypeOK, wire # <<>>
  PROVE  Head(wire) \in Frame /\ Tail(wire) \in Seq(Frame)
BY HeadTailProperties DEF TypeOK
-----------------------------------------------------------------------------
(* The exchange *)

\* The count of faults stays within its bound.
LEMMA InjectTypes ==
  ASSUME TypeOK, NEW kind, Inject(kind)
  PROVE  faults' \in 0..MaxFaults
BY BoundsAssumption DEF TypeOK, Inject

\* Whatever the network does to a frame of the exchange, the wire holds frames.
LEMMA DeliverTypes ==
  ASSUME TypeOK, NEW frame \in BookFrames, Deliver(frame)
  PROVE  wire' \in Seq(Frame) /\ faults' \in 0..MaxFaults
<1>1. /\ frame \in Frame
      /\ \A garbled \in Garbled(frame) : garbled \in Frame
  BY DEF Frame
<1>2. \A f \in Frame : Append(wire, f) \in Seq(Frame)
  BY AppendProperties DEF TypeOK
<1>3. wire \o <<frame, frame>> \in Seq(Frame)
  <2>1. <<frame, frame>> \in Seq(Frame)
    BY <1>1
  <2>2. QED
    BY <2>1, ConcatProperties DEF TypeOK
<1>4. wire \in Seq(Frame) /\ faults \in 0..MaxFaults
  BY DEF TypeOK
<1>5. faults' \in 0..MaxFaults
  BY <1>4, InjectTypes DEF Deliver
<1>6. wire' \in Seq(Frame)
  <2>1. CASE wire' = Append(wire, frame) \/ wire' = wire \/ wire' = wire \o <<frame, frame>>
    BY <1>1, <1>2, <1>3, <1>4, <2>1
  <2>2. CASE \E garbled \in Garbled(frame) : wire' = Append(wire, garbled)
    BY <1>1, <1>2, <2>2
  <2>3. QED
    BY <2>1, <2>2 DEF Deliver
<1>7. QED
  BY <1>5, <1>6

LEMMA PublishStep ==
  ASSUME IInv, NEW m \in Market, Publish(m), UNCHANGED <<log, stored>>
  PROVE  IInv'
<1>1. published[m] + 1 \in Nonce \ {0}
  BY BoundsAssumption DEF IInv, TypeOK, Publish, Nonce
<1>2. published' \in [Market -> Nonce]
  BY <1>1 DEF IInv, TypeOK, Publish
<1>3. wire' \in Seq(Frame) /\ faults' \in 0..MaxFaults
  <2>1. UpdateFrame(m, published[m] + 1) \in BookFrames
    BY <1>1 DEF BookFrames, UpdateFrames
  <2>2. QED
    BY <2>1, DeliverTypes DEF IInv, TypeOK, Publish
<1>4. TypeOK'
  BY <1>2, <1>3 DEF IInv, TypeOK, Publish, Rows!TypeOK
<1>5. QED
  BY <1>4, StepAside DEF Publish

LEMMA ServeRequestStep ==
  ASSUME IInv, NEW m \in Market, ServeRequest(m), UNCHANGED <<log, stored>>
  PROVE  IInv'
<1>1. asked' \in [Market -> Seq({"subscribe", "unsubscribe"})]
  <2>1. Tail(asked[m]) \in Seq({"subscribe", "unsubscribe"})
    BY HeadTailProperties DEF IInv, TypeOK, ServeRequest
  <2>2. QED
    BY <2>1 DEF IInv, TypeOK, ServeRequest
<1>2. wire' \in Seq(Frame) /\ faults' \in 0..MaxFaults
  <2>1. SnapshotFrame(m, published[m]) \in BookFrames
    BY DEF IInv, TypeOK, BookFrames, SnapshotFrames
  <2>2. Other \in Frame
    BY DEF Frame
  <2>3. Append(wire, Other) \in Seq(Frame)
    BY <2>2, AppendProperties DEF IInv, TypeOK
  <2>4. wire \in Seq(Frame) /\ faults \in 0..MaxFaults /\ TypeOK
    BY DEF IInv, TypeOK
  <2>5. CASE Deliver(SnapshotFrame(m, published[m]))
    BY <2>1, <2>4, <2>5, DeliverTypes
  <2>6. CASE wire' = wire /\ (UNCHANGED faults \/ Inject("silent"))
    BY <2>4, <2>6, InjectTypes
  <2>7. CASE wire' = Append(wire, Other) /\ Inject("refused")
    BY <2>3, <2>4, <2>7, InjectTypes
  <2>8. QED
    BY <2>5, <2>6, <2>7 DEF ServeRequest
<1>3. feed' \subseteq Market
  BY DEF IInv, TypeOK, ServeRequest
<1>4. TypeOK'
  BY <1>1, <1>2, <1>3 DEF IInv, TypeOK, ServeRequest, Rows!TypeOK
<1>5. QED
  BY <1>4, StepAside DEF ServeRequest
-----------------------------------------------------------------------------
(* The session *)

LEMMA ConnectStep ==
  ASSUME IInv, Connect, UNCHANGED <<log, stored>>
  PROVE  IInv'
<1>1. asked' \in [Market -> Seq({"subscribe", "unsubscribe"})]
  BY DEF Connect
<1>2. TypeOK'
  BY <1>1 DEF IInv, TypeOK, Connect, Rows!TypeOK
<1>3. RowsTruthful' /\ ChainUnbroken'
  BY LogUnchanged
<1>4. outbox' = {} /\ \A m \in Market : books'[m] = NoBook
  BY DEF IInv, NothingWhileWaiting, Connect
<1>5. QED
  BY <1>2, <1>3, <1>4 DEF IInv, BooksFollowTheExchange, OutboxTruthful,
     OutboxFollowsBooks, LogEndsAtBooks, NothingWhileWaiting, Connect

LEMMA SessionEndsStep ==
  ASSUME IInv, EndSession, faults' \in 0..MaxFaults, UNCHANGED <<log, stored>>
  PROVE  IInv'
<1>1. TypeOK'
  BY EndSessionTypes DEF IInv, TypeOK, Rows!TypeOK
<1>2. RowsTruthful' /\ ChainUnbroken'
  BY LogUnchanged
<1>3. QED
  BY <1>1, <1>2, StepWithoutBooks DEF EndSession

\* The message of the exchange's book n, or of its update n, is taken into the
\* book and its row is true.
LEMMA GenuineMessage ==
  ASSUME IInv, NEW m \in Market, NEW n \in Nonce, NEW frame \in Frame,
         \/ frame = SnapshotFrame(m, n)
         \/ /\ frame = UpdateFrame(m, n)
            /\ n \in Nonce \ {0}
            /\ books[m] # NoBook
            /\ books[m].nonce = n - 1
            /\ n - 1 \in Nonce
  PROVE  /\ frame.market = m
         /\ [nonce |-> frame.nonce, source_time |-> frame.last_updated_at,
             book |-> BookAfter(frame)] = MarketBookAt(m, n)
         /\ OrderbookRow(frame) \in Row
         /\ Truthful(OrderbookRow(frame))
         /\ OrderbookRow(frame).symbol = m
         /\ OrderbookRow(frame).sequence = n
         /\ OrderbookRow(frame).conn = conn
         /\ OrderbookRow(frame).message_type = "delta" =>
              /\ books[m] # NoBook
              /\ OrderbookRow(frame).begin_nonce = books[m].nonce
<1>1. conn \in Nat /\ TimeAt[m][n] \in Instant
  BY BoundsAssumption DEF IInv, TypeOK
<1>2. CASE frame = SnapshotFrame(m, n)
  <2>1. /\ frame.market = m
        /\ frame.nonce = n
        /\ frame.last_updated_at = TimeAt[m][n]
        /\ frame.levels = SnapAt[m][n]
        /\ frame.type = "subscribed/order_book"
    BY <1>2 DEF SnapshotFrame
  <2>2. BookAfter(frame) = BookAt(m, n)
    BY <2>1 DEF BookAfter, BookAt
  <2>3. OrderbookRow(frame) =
          [time |-> TimeAt[m][n], symbol |-> m, message_type |-> "snapshot",
           sequence |-> n, begin_nonce |-> NoNonce, levels |-> SnapAt[m][n],
           conn |-> conn]
    BY <2>1 DEF OrderbookRow
  <2>4. OrderbookRow(frame) \in Row
    BY <1>1, <2>3 DEF Row, Payload
  <2>5. FromSnapshot(SnapAt[m][n]) = Ok(BookAt(m, n))
    BY ExchangeContract, SnapshotIsAResult DEF BookAt
  <2>6. Truthful(OrderbookRow(frame))
    BY <2>3, <2>5 DEF Truthful
  <2>7. QED
    BY <2>1, <2>2, <2>3, <2>4, <2>6 DEF MarketBookAt
<1>3. CASE frame = UpdateFrame(m, n) /\ frame # SnapshotFrame(m, n)
  <2>1. /\ frame.market = m
        /\ frame.begin_nonce = n - 1
        /\ frame.nonce = n
        /\ frame.last_updated_at = TimeAt[m][n]
        /\ frame.levels = DeltaAt[m][n]
        /\ frame.type = "update/order_book"
    BY <1>3 DEF UpdateFrame
  <2>2. /\ n > 0
        /\ n \in Nonce \ {0}
        /\ n - 1 \in Nonce
        /\ books[m] # NoBook
        /\ books[m].nonce = n - 1
    BY <1>3, BoundsAssumption DEF Nonce
  <2>3. books[m].book = BookAt(m, n - 1)
    <3>1. books[m] = MarketBookAt(m, n - 1)
      BY <2>2 DEF IInv, BooksFollowTheExchange
    <3>2. QED
      BY <3>1 DEF MarketBookAt
  <2>4. BookAfter(frame) = BookAt(m, n)
    <3>1. ApplyDelta(BookAt(m, n - 1), DeltaAt[m][n]) = Ok(BookAt(m, n))
      BY <2>2, ExchangeContract
    <3>2. Ok(BookAt(m, n)).value = BookAt(m, n)
      BY DEF Ok
    <3>3. BookAfter(frame) = ApplyDelta(books[m].book, frame.levels).value
      BY <2>1 DEF BookAfter
    <3>4. QED
      BY <2>1, <2>3, <3>1, <3>2, <3>3
  <2>5. OrderbookRow(frame) =
          [time |-> TimeAt[m][n], symbol |-> m, message_type |-> "delta",
           sequence |-> n, begin_nonce |-> n - 1, levels |-> DeltaAt[m][n],
           conn |-> conn]
    BY <2>1 DEF OrderbookRow
  <2>6. OrderbookRow(frame) \in Row
    BY <1>1, <2>2, <2>5 DEF Row, Payload
  <2>7. Truthful(OrderbookRow(frame))
    BY <2>2, <2>5 DEF Truthful
  <2>8. QED
    BY <2>1, <2>2, <2>4, <2>5, <2>6, <2>7 DEF MarketBookAt
<1>4. QED
  BY <1>2, <1>3

\* So the row of a message that is taken has the type of the rows.
LEMMA AcceptedRow ==
  ASSUME IInv, wire # <<>>, SnapshotAccepted(Head(wire)) \/ UpdateAccepted(Head(wire))
  PROVE  OrderbookRow(Head(wire)) \in Row
<1>1. Head(wire) \in Frame
  BY NextFrame DEF IInv
<1>2. CASE SnapshotAccepted(Head(wire))
  <2>1. PICK m \in Market, n \in Nonce : Head(wire) = SnapshotFrame(m, n)
    BY <1>1, <1>2, AcceptedSnapshot
  <2>. QED  BY <1>1, <2>1, GenuineMessage
<1>3. CASE UpdateAccepted(Head(wire))
  <2>1. PICK m \in Market, n \in Nonce \ {0} :
          /\ Head(wire) = UpdateFrame(m, n)
          /\ books[m] # NoBook
          /\ books[m].nonce = n - 1
          /\ n - 1 \in Nonce
    BY <1>1, <1>3, AcceptedUpdate DEF IInv
  <2>. QED  BY <1>1, <2>1, GenuineMessage
<1>. QED  BY <1>2, <1>3

\* A message taken into a book: the log of its market ended where the book
\* stood, and the row goes on from there.
LEMMA AcceptMessageStep ==
  ASSUME IInv, wire # <<>>, Idle, AcceptMessage(Head(wire)), UNCHANGED <<log, stored>>
  PROVE  IInv'
<1> DEFINE frame == Head(wire)
           row == OrderbookRow(frame)
<1>1. frame \in Frame /\ Tail(wire) \in Seq(Frame)
  BY NextFrame DEF IInv
<1>2. PICK m \in Market, n \in Nonce :
         \/ frame = SnapshotFrame(m, n)
         \/ /\ frame = UpdateFrame(m, n)
            /\ n \in Nonce \ {0}
            /\ books[m] # NoBook
            /\ books[m].nonce = n - 1
            /\ n - 1 \in Nonce
  <2>1. CASE SnapshotAccepted(frame)
    BY <1>1, <2>1, AcceptedSnapshot
  <2>2. CASE UpdateAccepted(frame)
    BY <1>1, <2>2, AcceptedUpdate DEF IInv
  <2>3. QED
    BY <2>1, <2>2 DEF AcceptMessage
<1>3. /\ frame.market = m
      /\ [nonce |-> frame.nonce, source_time |-> frame.last_updated_at,
          book |-> BookAfter(frame)] = MarketBookAt(m, n)
      /\ row \in Row
      /\ Truthful(row)
      /\ row.symbol = m
      /\ row.sequence = n
      /\ row.conn = conn
      /\ row.message_type = "delta" =>
           books[m] # NoBook /\ row.begin_nonce = books[m].nonce
  BY <1>1, <1>2, GenuineMessage
<1> HIDE DEF frame, row
<1>4. /\ books' = [books EXCEPT ![m] = MarketBookAt(m, n)]
      /\ outbox' = {row}
      /\ wire' = Tail(wire)
      /\ UNCHANGED <<published, feed, asked, session, conn, faults>>
  <2>1. books' = [books EXCEPT ![frame.market] =
           [nonce |-> frame.nonce, source_time |-> frame.last_updated_at,
            book |-> BookAfter(frame)]]
    BY DEF AcceptMessage, frame
  <2>2. QED
    BY <1>3, <2>1 DEF AcceptMessage, frame, row
<1>5. /\ MarketBookAt(m, n) # NoBook
      /\ MarketBookAt(m, n).nonce = n
  BY BoundsAssumption DEF MarketBookAt
<1>6. /\ DOMAIN books = Market
      /\ books'[m] = MarketBookAt(m, n)
      /\ \A k \in Market \ {m} : books'[k] = books[k]
      /\ DOMAIN books' = Market
  BY <1>4 DEF IInv, TypeOK
<1>7. TypeOK'
  <2>1. \A k \in Market : books'[k] = NoBook \/ books'[k].nonce \in Nonce
    BY <1>5, <1>6 DEF IInv, TypeOK
  <2>2. QED
    BY <1>1, <1>3, <1>4, <1>6, <2>1 DEF IInv, TypeOK, Rows!TypeOK
<1>8. BooksFollowTheExchange'
  BY <1>5, <1>6 DEF IInv, BooksFollowTheExchange
<1>9. RowsTruthful' /\ ChainUnbroken'
  BY LogUnchanged
<1>10. OutboxTruthful'
  BY <1>3, <1>4 DEF OutboxTruthful, Truthful
<1>11. OutboxFollowsBooks'
  <2>1. row.message_type = "delta" => LastRow(m, row.begin_nonce)
    BY <1>3 DEF IInv, LogEndsAtBooks, Idle
  <2>2. ASSUME NEW b, LastRow(m, b)
        PROVE  LastRow(m, b)'
    BY <1>4, <2>2 DEF LastRow
  <2>3. ASSUME NEW r \in outbox'
        PROVE  /\ r.conn = conn'
               /\ books'[r.symbol] # NoBook
               /\ r.sequence = books'[r.symbol].nonce
               /\ r.message_type = "delta" => LastRow(r.symbol, r.begin_nonce)'
    <3>1. r = row /\ r.symbol = m
      BY <1>3, <1>4
    <3>2. r.message_type = "delta" => LastRow(m, r.begin_nonce)
      BY <2>1, <3>1
    <3>3. r.message_type = "delta" => LastRow(m, r.begin_nonce)'
      BY <2>2, <3>2
    <3>4. QED
      BY <1>3, <1>4, <1>5, <1>6, <3>1, <3>3
  <2>4. \A r1, r2 \in outbox' : r1 = r2
    BY <1>4
  <2>5. QED
    BY <2>3, <2>4 DEF OutboxFollowsBooks
<1>12. LogEndsAtBooks'
  <2> SUFFICES ASSUME NEW k \in Market, books'[k] # NoBook,
                      \A r \in outbox' : r.symbol # k
               PROVE  LastRow(k, books[k].nonce)'
    BY DEF LogEndsAtBooks
  <2>1. k # m
    BY <1>3, <1>4
  <2>2. books'[k] = books[k]
    BY <1>6, <2>1
  <2>3. LastRow(k, books[k].nonce)
    BY <2>2 DEF IInv, LogEndsAtBooks, Idle
  <2>4. QED
    BY <1>4, <2>2, <2>3 DEF LastRow
<1>13. NothingWhileWaiting'
  BY <1>4 DEF NothingWhileWaiting, Idle
<1>14. QED
  BY <1>7, <1>8, <1>9, <1>10, <1>11, <1>12, <1>13 DEF IInv

LEMMA ReadFrameStep ==
  ASSUME IInv, ReadFrame, UNCHANGED <<log, stored>>
  PROVE  IInv'
<1>1. CASE AcceptMessage(Head(wire))
  BY <1>1, AcceptMessageStep DEF ReadFrame
<1>2. CASE SkipFrame(Head(wire))
  <2>1. TypeOK'
    BY <1>2, NextFrame DEF IInv, TypeOK, ReadFrame, SkipFrame, Rows!TypeOK
  <2>2. QED
    BY <1>2, <2>1, StepAside DEF SkipFrame
<1>3. CASE RejectFrame(Head(wire))
  <2>1. faults' \in 0..MaxFaults
    BY <1>3 DEF IInv, TypeOK, RejectFrame
  <2>2. QED
    BY <1>3, <2>1, SessionEndsStep DEF RejectFrame
<1>4. QED
  BY <1>1, <1>2, <1>3 DEF ReadFrame

LEMMA ConnectionEndsStep ==
  ASSUME IInv, ConnectionEnds, UNCHANGED <<log, stored>>
  PROVE  IInv'
<1>1. faults' \in 0..MaxFaults
  BY InjectTypes DEF IInv, ConnectionEnds
<1>2. QED
  BY <1>1, SessionEndsStep DEF ConnectionEnds

\* The proofs about the book, of which the operators of Book are all that is
\* needed here: there are no calls.
BP == INSTANCE BookHistoryProofs WITH
  Message <- {}, MaxMentions <- 0, book <- EmptyBook, mentions <- <<>>, usable <- FALSE

\* The book's operators under their two names (src/src/book.rs).
LEMMA SameBook ==
  /\ \A x : BP!FromSnapshot(x) = FromSnapshot(x)
  /\ \A x : BP!LevelsOf(x) = LevelsOf(x)
  /\ \A x : BP!Ok(x) = Ok(x)
  /\ BP!Levels = Levels
<1>1. \A x : BP!SideFromSnapshot(x) = SideFromSnapshot(x)
  BY Zenon
     DEF BP!SideFromSnapshot, SideFromSnapshot, BP!SnapshotLevel, SnapshotLevel,
         BP!Parses, Parses, BP!ZeroSize, ZeroSize, BP!Ok, Ok, BP!Err, Err, BP!Insert,
         Insert, BP!Price, Price, BP!EmptySide, EmptySide
<1>2. \A x : BP!FromSnapshot(x) = FromSnapshot(x)
  BY <1>1, Zenon
     DEF BP!FromSnapshot, FromSnapshot, BP!Ok, Ok, BP!Err, Err, BP!EmptyBook, EmptyBook,
         BP!EmptySide, EmptySide
<1>3. \A x : BP!LevelsOf(x) = LevelsOf(x)
  BY Zenon
     DEF BP!LevelsOf, LevelsOf, BP!Bids, Bids, BP!Asks, Asks, BP!Ascending, Ascending,
         BP!Descending, Descending, BP!LevelsAt, LevelsAt, BP!Cardinality, Cardinality
<1>4. (\A x : BP!Ok(x) = Ok(x)) /\ BP!Levels = Levels
  BY Zenon DEF BP!Ok, Ok, BP!Levels, Levels, BP!Level, Level
<1>. QED  BY <1>2, <1>3, <1>4

\* A periodic snapshot of a book of the exchange can be read back
\* (book_snapshot_row, from_snapshot).
LEMMA SnapshotRoundTrip ==
  ASSUME NEW m \in Market, NEW n \in Nonce
  PROVE  FromSnapshot(LevelsOf(BookAt(m, n))) = Ok(BookAt(m, n))
<1>1. PICK levels \in Levels : levels = SnapAt[m][n]
  BY LevelsAssumption
<1>2. FromSnapshot(levels).ok
  BY <1>1, ExchangeContract
<1>3. BP!DecimalAssumption
  BY DecimalAssumption, Zenon DEF BP!DecimalAssumption, DecimalAssumption
<1>4. BP!MessageAssumption
  BY DEF BP!MessageAssumption
<1>5. levels \in BP!Levels /\ BP!FromSnapshot(levels).ok
  BY <1>2, SameBook
<1>6. BP!FromSnapshot(BP!LevelsOf(BP!FromSnapshot(levels).value))
        = BP!Ok(BP!FromSnapshot(levels).value)
  BY <1>3, <1>4, <1>5, BP!ReadAgain
<1>. QED  BY <1>1, <1>6, SameBook, Zenon DEF BookAt

\* The row of a periodic snapshot is a true row of the book it comes from.
LEMMA SnapshotOfBook ==
  ASSUME IInv, NEW m \in Market, books[m] # NoBook
  PROVE  /\ BookSnapshotRow(m) \in Row
         /\ Truthful(BookSnapshotRow(m))
         /\ BookSnapshotRow(m).symbol = m
         /\ BookSnapshotRow(m).sequence = books[m].nonce
         /\ BookSnapshotRow(m).conn = conn
         /\ BookSnapshotRow(m).message_type = "snapshot"
<1>1. PICK n \in Nonce : n = books[m].nonce
  BY DEF IInv, TypeOK
<1>2. books[m] = MarketBookAt(m, n)
  BY <1>1 DEF IInv, BooksFollowTheExchange
<1>3. BookSnapshotRow(m) =
        [time |-> TimeAt[m][n], symbol |-> m, message_type |-> "snapshot",
         sequence |-> n, begin_nonce |-> NoNonce,
         levels |-> LevelsOf(BookAt(m, n)), conn |-> conn]
  BY <1>2 DEF BookSnapshotRow, MarketBookAt
<1>4. conn \in Nat /\ TimeAt[m][n] \in Instant
  BY BoundsAssumption DEF IInv, TypeOK
<1>5. BookSnapshotRow(m) \in Row
  BY <1>3, <1>4 DEF Row, Payload
<1>6. Truthful(BookSnapshotRow(m))
  BY <1>3, SnapshotRoundTrip DEF Truthful
<1>. QED
  BY <1>1, <1>3, <1>5, <1>6

\* The timer's rows repeat where the books stand.
LEMMA SnapshotTickStep ==
  ASSUME IInv, SnapshotTick, UNCHANGED <<log, stored>>
  PROVE  IInv'
<1>1. ASSUME NEW m \in Market, books[m] # NoBook
      PROVE  /\ BookSnapshotRow(m) \in Row
             /\ Truthful(BookSnapshotRow(m))
             /\ BookSnapshotRow(m).symbol = m
             /\ BookSnapshotRow(m).sequence = books[m].nonce
             /\ BookSnapshotRow(m).conn = conn
             /\ BookSnapshotRow(m).message_type = "snapshot"
  BY <1>1, SnapshotOfBook
<1>2. outbox' = {BookSnapshotRow(m) : m \in {k \in Market : books[k] # NoBook}}
  BY DEF SnapshotTick
<1>3. TypeOK'
  <2>1. outbox' \subseteq Row
    BY <1>1, <1>2
  <2>2. QED
    BY <2>1 DEF IInv, TypeOK, SnapshotTick, Rows!TypeOK
<1>4. BooksFollowTheExchange' /\ NothingWhileWaiting'
  BY DEF IInv, BooksFollowTheExchange, NothingWhileWaiting, SnapshotTick, Idle
<1>5. RowsTruthful' /\ ChainUnbroken'
  BY LogUnchanged
<1>6. OutboxTruthful'
  <2>1. \A row \in outbox' : Truthful(row)
    BY <1>1, <1>2
  <2>2. QED
    BY <2>1 DEF OutboxTruthful, Truthful
<1>7. OutboxFollowsBooks'
  <2>1. conn' = conn /\ books' = books
    BY DEF SnapshotTick
  <2>2. ASSUME NEW row \in outbox'
        PROVE  /\ row.conn = conn'
               /\ books'[row.symbol] # NoBook
               /\ row.sequence = books'[row.symbol].nonce
               /\ row.message_type # "delta"
    BY <1>1, <1>2, <2>1, <2>2
  <2>3. ASSUME NEW row1 \in outbox', NEW row2 \in outbox', row1.symbol = row2.symbol
        PROVE  row1 = row2
    BY <1>1, <1>2, <2>3
  <2>4. QED
    BY <2>2, <2>3 DEF OutboxFollowsBooks
<1>8. LogEndsAtBooks'
  BY <1>1, <1>2 DEF LogEndsAtBooks, SnapshotTick
<1>9. QED
  BY <1>3, <1>4, <1>5, <1>6, <1>7, <1>8 DEF IInv

LEMMA BookCheckTickStep ==
  ASSUME IInv, BookCheckTick, UNCHANGED <<log, stored>>
  PROVE  IInv'
<1>1. asked' \in [Market -> Seq({"subscribe", "unsubscribe"})]
  <2>1. ASSUME NEW m \in Market
        PROVE  asked[m] \o <<"unsubscribe", "subscribe">> \in Seq({"subscribe", "unsubscribe"})
    <3>1. <<"unsubscribe", "subscribe">> \in Seq({"subscribe", "unsubscribe"})
      OBVIOUS
    <3>2. QED
      BY <3>1, ConcatProperties DEF IInv, TypeOK
  <2>2. QED
    BY <2>1 DEF IInv, TypeOK, BookCheckTick
<1>2. TypeOK'
  BY <1>1 DEF IInv, TypeOK, BookCheckTick, Rows!TypeOK
<1>3. QED
  BY <1>2, StepAside DEF BookCheckTick
-----------------------------------------------------------------------------
(* The log *)

\* A row is appended: it continues its market, and it becomes the last row.
LEMMA SendRowStep ==
  ASSUME IInv, SendRow
  PROVE  IInv'
<1>1. PICK row \in outbox : TakeFromOutbox(row) /\ Rows!Accept(row)
  BY DEF SendRow
<1>2. /\ log \in Seq(Row)
      /\ Len(log) \in Nat
      /\ row \in Row
      /\ log' = Append(log, row)
      /\ outbox' = outbox \ {row}
      /\ UNCHANGED <<published, feed, asked, wire, session, conn, books, faults, stored>>
  BY <1>1, LenProperties DEF IInv, TypeOK, Rows!TypeOK, Rows!Accept, TakeFromOutbox
<1>3. /\ log' \in Seq(Row)
      /\ Len(log') = Len(log) + 1
      /\ \A i \in 1..Len(log) : log'[i] = log[i]
      /\ log'[Len(log) + 1] = row
  BY <1>2, AppendProperties
<1>4. /\ row.conn = conn
      /\ books[row.symbol] # NoBook
      /\ row.sequence = books[row.symbol].nonce
      /\ row.message_type = "delta" => LastRow(row.symbol, row.begin_nonce)
      /\ \A other \in outbox' : other.symbol # row.symbol
  BY <1>2 DEF IInv, OutboxFollowsBooks
<1>5. TypeOK'
  BY <1>2, <1>3 DEF IInv, TypeOK, Rows!TypeOK
<1>6. BooksFollowTheExchange' /\ NothingWhileWaiting'
  BY <1>2 DEF IInv, BooksFollowTheExchange, NothingWhileWaiting
<1>7. RowsTruthful'
  <2>1. Truthful(row) /\ \A i \in 1..Len(log) : Truthful(log[i])
    BY <1>2 DEF IInv, OutboxTruthful, RowsTruthful
  <2>2. \A i \in 1..Len(log') : Truthful(log'[i])
    BY <1>2, <1>3, <2>1
  <2>3. QED
    BY <2>2 DEF RowsTruthful, Truthful
<1>8. OutboxTruthful'
  BY <1>2 DEF IInv, OutboxTruthful, Truthful
<1>9. ASSUME NEW m, NEW n, LastRow(m, n), m # row.symbol
      PROVE  LastRow(m, n)'
  <2>1. PICK j \in 1..Len(log) :
           /\ log[j].symbol = m
           /\ log[j].sequence = n
           /\ log[j].conn = conn
           /\ \A k \in (j + 1)..Len(log) : log[k].symbol # m
    BY <1>9 DEF LastRow
  <2>2. /\ j \in 1..Len(log')
        /\ log'[j] = log[j]
        /\ \A k \in (j + 1)..Len(log') : log'[k].symbol # m
    BY <1>2, <1>3, <1>9, <2>1
  <2>3. QED
    BY <1>2, <2>1, <2>2 DEF LastRow
<1>10. LastRow(row.symbol, row.sequence)'
  <2>1. /\ Len(log) + 1 \in 1..Len(log')
        /\ log'[Len(log) + 1] = row
        /\ row.conn = conn'
        /\ \A k \in (Len(log) + 1 + 1)..Len(log') : FALSE
    BY <1>2, <1>3, <1>4
  <2>2. \A m, n : (m = row.symbol /\ n = row.sequence) => LastRow(m, n)'
    BY <2>1 DEF LastRow
  <2>3. QED
    BY <2>1, <2>2 DEF LastRow
<1>11. ChainUnbroken'
  <2> SUFFICES ASSUME NEW i \in 1..Len(log'), log'[i].message_type = "delta"
               PROVE  \E j \in 1..Len(log') :
                        /\ PreviousRow(i, j)'
                        /\ log'[j].sequence = log'[i].begin_nonce
                        /\ log'[j].conn = log'[i].conn
    BY DEF ChainUnbroken
  <2>1. CASE i \in 1..Len(log)
    <3>1. PICK j \in 1..Len(log) :
             /\ PreviousRow(i, j)
             /\ log[j].sequence = log[i].begin_nonce
             /\ log[j].conn = log[i].conn
      BY <1>3, <2>1 DEF IInv, ChainUnbroken
    <3>2. /\ j \in 1..Len(log')
          /\ log'[j] = log[j]
          /\ log'[i] = log[i]
          /\ \A k \in (j + 1)..(i - 1) : log'[k] = log[k]
      BY <1>2, <1>3, <2>1, <3>1 DEF PreviousRow
    <3>3. PreviousRow(i, j)'
      BY <3>1, <3>2 DEF PreviousRow
    <3>4. QED
      BY <3>1, <3>2, <3>3
  <2>2. CASE i = Len(log) + 1
    <3>1. LastRow(row.symbol, row.begin_nonce)
      BY <1>3, <1>4, <2>2
    <3>2. PICK j \in 1..Len(log) :
             /\ log[j].symbol = row.symbol
             /\ log[j].sequence = row.begin_nonce
             /\ log[j].conn = conn
             /\ \A k \in (j + 1)..Len(log) : log[k].symbol # row.symbol
      BY <3>1 DEF LastRow
    <3>3. /\ j \in 1..Len(log')
          /\ j < i
          /\ log'[j] = log[j]
          /\ log'[i] = row
          /\ \A k \in (j + 1)..(i - 1) : log'[k] = log[k] /\ k \in (j + 1)..Len(log)
      BY <1>2, <1>3, <2>2, <3>2
    <3>4. PreviousRow(i, j)'
      BY <3>2, <3>3 DEF PreviousRow
    <3>5. QED
      BY <1>4, <3>2, <3>3, <3>4
  <2>3. QED
    BY <1>2, <1>3, <2>1, <2>2
<1>12. OutboxFollowsBooks'
  <2>1. ASSUME NEW other \in outbox'
        PROVE  /\ other.conn = conn'
               /\ books'[other.symbol] # NoBook
               /\ other.sequence = books'[other.symbol].nonce
               /\ other.message_type = "delta" => LastRow(other.symbol, other.begin_nonce)'
    <3>1. other \in outbox /\ other.symbol # row.symbol
      BY <1>2, <1>4
    <3>2. /\ other.conn = conn
          /\ books[other.symbol] # NoBook
          /\ other.sequence = books[other.symbol].nonce
          /\ other.message_type = "delta" => LastRow(other.symbol, other.begin_nonce)
      BY <3>1 DEF IInv, OutboxFollowsBooks
    <3>3. QED
      BY <1>2, <1>9, <3>1, <3>2
  <2>2. \A r1, r2 \in outbox' : r1.symbol = r2.symbol => r1 = r2
    BY <1>2 DEF IInv, OutboxFollowsBooks
  <2>3. QED
    BY <2>1, <2>2 DEF OutboxFollowsBooks
<1>13. LogEndsAtBooks'
  <2> SUFFICES ASSUME NEW m \in Market, books'[m] # NoBook,
                      \A r \in outbox' : r.symbol # m
               PROVE  LastRow(m, books[m].nonce)'
    BY DEF LogEndsAtBooks
  <2>1. CASE m = row.symbol
    <3>1. \A n : n = books[m].nonce => n = row.sequence
      BY <1>4, <2>1
    <3>2. QED
      BY <1>2, <1>4, <1>10, <2>1 DEF LastRow
  <2>2. CASE m # row.symbol
    <3>1. \A r \in outbox : r.symbol # m
      BY <1>2, <2>2
    <3>2. LastRow(m, books[m].nonce)
      BY <1>2, <3>1 DEF IInv, LogEndsAtBooks
    <3>3. QED
      BY <1>2, <1>9, <2>2, <3>2 DEF LastRow
  <2>3. QED
    BY <2>1, <2>2
<1>14. QED
  BY <1>5, <1>6, <1>7, <1>8, <1>11, <1>12, <1>13 DEF IInv

LEMMA FlushStep ==
  ASSUME IInv, Flush
  PROVE  IInv'
<1>1. UNCHANGED log /\ stored' \in 0..Len(log')
  <2>1. PICK n \in 1..(Len(log) - stored) : stored' = stored + n /\ log' = log
    BY DEF Flush, Rows!Persist
  <2>2. Len(log) \in Nat /\ stored \in 0..Len(log)
    BY LenProperties DEF IInv, TypeOK, Rows!TypeOK
  <2>3. QED
    BY <2>1, <2>2
<1>2. TypeOK'
  BY <1>1 DEF IInv, TypeOK, Rows!TypeOK, Flush, sessionVars
<1>3. QED
  BY <1>1, <1>2, StepAside DEF Flush, sessionVars

\* A crash cuts the log at a row that was stored: what is left is a prefix,
\* and a prefix of an unbroken chain is one.
LEMMA CrashStep ==
  ASSUME IInv, Crash
  PROVE  IInv'
<1>1. /\ log \in Seq(Row)
      /\ Len(log) \in Nat
      /\ stored \in 0..Len(log)
      /\ \A i \in 1..Len(log) : log[i] \in Row
  BY LenProperties, ElementOfSeq DEF IInv, TypeOK, Rows!TypeOK
<1>2. log' = SubSeq(log, 1, stored) /\ stored' = stored
  BY DEF Crash, Rows!LoseUnstored
<1>3. /\ log' \in Seq(Row)
      /\ Len(log') = stored
      /\ \A i \in 1..stored : log'[i] = log[i]
  <2>1. /\ SubSeq(log, 1, stored) \in Seq(Row)
        /\ Len(SubSeq(log, 1, stored)) = IF 1 <= stored THEN stored - 1 + 1 ELSE 0
        /\ \A i \in 1..(stored - 1 + 1) : SubSeq(log, 1, stored)[i] = log[1 + i - 1]
    <3>1. \A i \in 1..stored : log[i] \in Row
      BY <1>1
    <3>2. 1 \in Int /\ stored \in Int
      BY <1>1
    <3>3. QED
      BY <3>1, <3>2, SubSeqProperties
  <2>2. QED
    BY <1>1, <1>2, <2>1
<1>4. TypeOK'
  <2>1. faults' \in 0..MaxFaults
    BY InjectTypes DEF IInv, Crash
  <2>2. Rows!TypeOK'
    BY <1>1, <1>2, <1>3 DEF Rows!TypeOK
  <2>3. QED
    BY <2>1, <2>2, EndSessionTypes DEF IInv, Crash
<1>5. RowsTruthful'
  <2>1. \A i \in 1..Len(log') : Truthful(log'[i])
    BY <1>1, <1>3 DEF IInv, RowsTruthful
  <2>2. QED
    BY <2>1 DEF RowsTruthful, Truthful
<1>6. ChainUnbroken'
  <2> SUFFICES ASSUME NEW i \in 1..Len(log'), log'[i].message_type = "delta"
               PROVE  \E j \in 1..Len(log') :
                        /\ PreviousRow(i, j)'
                        /\ log'[j].sequence = log'[i].begin_nonce
                        /\ log'[j].conn = log'[i].conn
    BY DEF ChainUnbroken
  <2>1. i \in 1..Len(log) /\ log'[i] = log[i]
    BY <1>1, <1>3
  <2>2. PICK j \in 1..Len(log) :
           /\ PreviousRow(i, j)
           /\ log[j].sequence = log[i].begin_nonce
           /\ log[j].conn = log[i].conn
    BY <2>1 DEF IInv, ChainUnbroken
  <2>3. /\ j \in 1..Len(log')
        /\ log'[j] = log[j]
        /\ \A k \in (j + 1)..(i - 1) : log'[k] = log[k]
    BY <1>1, <1>3, <2>1, <2>2 DEF PreviousRow
  <2>4. PreviousRow(i, j)'
    BY <2>1, <2>2, <2>3 DEF PreviousRow
  <2>5. QED
    BY <2>1, <2>2, <2>3, <2>4
<1>7. QED
  BY <1>4, <1>5, <1>6, StepWithoutBooks DEF Crash, EndSession
-----------------------------------------------------------------------------
(* The theorems *)

LEMMA InitInv ==
  ASSUME Init
  PROVE  IInv
<1>1. TypeOK
  BY BoundsAssumption, EmptySeq DEF Init, SessionInit, Rows!Init, TypeOK, Rows!TypeOK, Nonce
<1>2. \A m \in Market : books[m] = NoBook
  BY DEF Init, SessionInit
<1>3. outbox = {} /\ Len(log) = 0
  BY DEF Init, SessionInit, Rows!Init
<1>4. QED
  BY <1>1, <1>2, <1>3 DEF IInv, BooksFollowTheExchange, RowsTruthful, OutboxTruthful,
     ChainUnbroken, OutboxFollowsBooks, LogEndsAtBooks, NothingWhileWaiting

LEMMA NextInv ==
  ASSUME IInv, [Next]_vars
  PROVE  IInv'
<1>1. CASE ExchangeStep
  BY <1>1, PublishStep, ServeRequestStep DEF ExchangeStep
<1>2. CASE SessionStep
  BY <1>2, ConnectStep, ConnectionEndsStep, ReadFrameStep, SnapshotTickStep,
     BookCheckTickStep DEF SessionStep
<1>3. CASE UNCHANGED vars
  <2>1. TypeOK'
    BY <1>3 DEF IInv, TypeOK, vars, Rows!TypeOK
  <2>2. QED
    BY <1>3, <2>1, StepAside DEF vars
<1>4. QED
  BY <1>1, <1>2, <1>3, SendRowStep, FlushStep, CrashStep DEF Next

\* The inductive invariant holds in every reachable state.
THEOREM Invariance == Spec => []IInv
<1>1. Init => IInv
  BY InitInv
<1>2. IInv /\ [Next]_vars => IInv'
  BY NextInv
<1>3. QED
  BY <1>1, <1>2, PTL DEF Spec

\* Type correctness: no garbled level ever reaches a row.
THEOREM TypeCorrect == Spec => []TypeOK
<1>1. IInv => TypeOK
  BY DEF IInv
<1>2. QED
  BY <1>1, Invariance, PTL

\* The nonce chain of the README, for any number of markets, faults, crashes
\* and reconnects: a delta row directly follows, in its market, the row of its
\* own connection whose sequence is its begin_nonce (ws.rs, the gap check).
THEOREM ChainHolds == Spec => []ChainUnbroken
<1>1. IInv => ChainUnbroken
  BY DEF IInv
<1>2. QED
  BY <1>1, Invariance, PTL

\* Every row says what the exchange said, whatever was lost, repeated or
\* garbled on the way (apply_orderbook_message, book_snapshot_row).
THEOREM RowsAreTrue == Spec => []RowsTruthful
<1>1. IInv => RowsTruthful
  BY DEF IInv
<1>2. QED
  BY <1>1, Invariance, PTL

\* The books of the session are the exchange's at their nonces.
THEOREM BooksAreTrue == Spec => []BooksFollowTheExchange
<1>1. IInv => BooksFollowTheExchange
  BY DEF IInv
<1>2. QED
  BY <1>1, Invariance, PTL

\* The order-book path gives and takes rows as RowLog allows: the session and
\* the exchange are invisible to it.
THEOREM ImplementsRowLog == Spec => Rows!Spec
<1>1. Init => Rows!Init
  BY DEF Init
<1>2. IInv /\ [Next]_vars => [Rows!Next]_(Rows!vars)
  <2> SUFFICES ASSUME IInv, [Next]_vars
               PROVE  [Rows!Next]_(Rows!vars)
    OBVIOUS
  <2>1. CASE SendRow
    BY <2>1 DEF SendRow, IInv, TypeOK, Rows!Next
  <2>2. CASE Flush
    BY <2>2 DEF Flush, Rows!Next
  <2>3. CASE Crash
    BY <2>3 DEF Crash, Rows!Next
  <2>4. CASE UNCHANGED <<log, stored>>
    BY <2>4 DEF Rows!vars
  <2>5. QED
    BY <2>1, <2>2, <2>3, <2>4 DEF Next, ExchangeStep, SessionStep, vars
<1>3. QED
  BY <1>1, <1>2, Invariance, PTL DEF Spec, Rows!Spec
-----------------------------------------------------------------------------
(* The nonces rise: from the log over the book and the wire to the exchange *)

\* A frame with a nonce is about a market, also in its garbled forms.
LEMMA GarbledNonce ==
  ASSUME NEW m \in Market, NEW n \in Nonce, NEW frame \in {SnapshotFrame(m, n), UpdateFrame(m, n)}
  PROVE  /\ frame.market = m /\ frame.nonce = n
         /\ \A garbled \in Garbled(frame) : Numbered(garbled) =>
              garbled.market = m /\ garbled.nonce = n
<1>1. /\ frame.market = m /\ frame.nonce = n
      /\ [frame EXCEPT !.levels = BadLevels].market = m
      /\ [frame EXCEPT !.levels = BadLevels].nonce = n
      /\ [frame EXCEPT !.last_updated_at = BadTime].market = m
      /\ [frame EXCEPT !.last_updated_at = BadTime].nonce = n
  BY DEF SnapshotFrame, UpdateFrame
<1>2. ~Numbered(Malformed)
  BY DEF Numbered, Malformed
<1>. QED  BY <1>1, <1>2, Zenon DEF Garbled

LEMMA NumberedFrames ==
  ASSUME NEW frame \in Frame, Numbered(frame)
  PROVE  frame.market \in Market /\ frame.nonce \in Nonce
<1>1. frame # Other
  BY DEF Numbered, Other
<1>2. PICK genuine \in BookFrames : frame = genuine \/ frame \in Garbled(genuine)
  BY <1>1, Zenon DEF Frame
<1>3. PICK m \in Market, n \in Nonce : genuine \in {SnapshotFrame(m, n), UpdateFrame(m, n)}
  BY <1>2 DEF BookFrames, SnapshotFrames, UpdateFrames
<1>4. /\ genuine.market = m /\ genuine.nonce = n
      /\ \A garbled \in Garbled(genuine) : Numbered(garbled) =>
           garbled.market = m /\ garbled.nonce = n
  BY <1>3, GarbledNonce
<1>. QED  BY <1>2, <1>4, Zenon

\* The numbers that NoncesRise compares.
LEMMA NonceTypes ==
  ASSUME TypeOK
  PROVE  /\ Len(log) \in Nat /\ Len(wire) \in Nat
         /\ \A m \in Market : /\ published[m] \in Int
                              /\ books[m] # NoBook => books[m].nonce \in Int
         /\ \A i \in 1..Len(log) : log[i].symbol \in Market /\ log[i].sequence \in Int
         /\ \A k \in 1..Len(wire) : Numbered(wire[k]) =>
              wire[k].market \in Market /\ wire[k].nonce \in Int
<1>1. /\ Len(log) \in Nat /\ Len(wire) \in Nat
      /\ \A i \in 1..Len(log) : log[i] \in Row
      /\ \A k \in 1..Len(wire) : wire[k] \in Frame
  BY LenProperties, ElementOfSeq DEF TypeOK, Rows!TypeOK
<1>2. Nonce \subseteq Int
  BY DEF Nonce
<1>3. \A i \in 1..Len(log) : log[i].symbol \in Market /\ log[i].sequence \in Nonce
  BY <1>1 DEF Row
<1>4. \A k \in 1..Len(wire) : Numbered(wire[k]) =>
        wire[k].market \in Market /\ wire[k].nonce \in Nonce
  BY <1>1, NumberedFrames, Zenon
<1>5. \A m \in Market : /\ published[m] \in Nonce
                        /\ books[m] # NoBook => books[m].nonce \in Nonce
  BY DEF TypeOK
<1>. QED  BY <1>1, <1>2, <1>3, <1>4, <1>5

\* What the exchange adds to the wire has the nonce it has come to.
LEMMA WireGrows ==
  ASSUME TypeOK, NoncesRise, UNCHANGED <<log, books>>,
         \A m \in Market : published'[m] \in Int /\ published[m] <= published'[m],
         Len(wire') \in Nat, Len(wire) <= Len(wire'),
         \A k \in 1..Len(wire) : wire'[k] = wire[k],
         \A k \in (Len(wire) + 1)..Len(wire') : Numbered(wire'[k]) =>
           wire'[k].market \in Market /\ wire'[k].nonce = published'[wire'[k].market]
  PROVE  NoncesRise'
<1>1. \A k \in 1..Len(wire') : k \in 1..Len(wire) \/ k \in (Len(wire) + 1)..Len(wire')
  BY NonceTypes
<1>2. LogRises'
  BY DEF NoncesRise, LogRises
<1>3. LogIsBehind'
  <2>. SUFFICES ASSUME NEW i \in 1..Len(log)
       PROVE  /\ log[i].sequence <= published'[log[i].symbol]
              /\ books[log[i].symbol] # NoBook => log[i].sequence <= books[log[i].symbol].nonce
              /\ \A k \in 1..Len(wire') : Numbered(wire'[k]) /\ wire'[k].market = log[i].symbol
                   => log[i].sequence <= wire'[k].nonce
    BY DEF LogIsBehind
  <2>1. /\ log[i].symbol \in Market /\ log[i].sequence \in Int
        /\ log[i].sequence <= published'[log[i].symbol]
    BY NonceTypes DEF NoncesRise, LogIsBehind
  <2>2. \A k \in 1..Len(wire) : Numbered(wire'[k]) /\ wire'[k].market = log[i].symbol
          => log[i].sequence <= wire'[k].nonce
    BY DEF NoncesRise, LogIsBehind
  <2>. QED  BY <1>1, <2>1, <2>2 DEF NoncesRise, LogIsBehind
<1>4. BooksAreBehind'
  <2>. SUFFICES ASSUME NEW m \in Market, books[m] # NoBook
       PROVE  /\ books[m].nonce <= published'[m]
              /\ \A k \in 1..Len(wire') : Numbered(wire'[k]) /\ wire'[k].market = m
                   => books[m].nonce <= wire'[k].nonce
    BY DEF BooksAreBehind
  <2>1. books[m].nonce <= published'[m]
    BY NonceTypes DEF NoncesRise, BooksAreBehind
  <2>2. \A k \in 1..Len(wire) : Numbered(wire'[k]) /\ wire'[k].market = m
          => books[m].nonce <= wire'[k].nonce
    BY DEF NoncesRise, BooksAreBehind
  <2>. QED  BY <1>1, <2>1, <2>2
<1>5. WireRises'
  <2>. SUFFICES ASSUME NEW k \in 1..Len(wire'), Numbered(wire'[k])
       PROVE  /\ wire'[k].nonce <= published'[wire'[k].market]
              /\ \A l \in 1..k : Numbered(wire'[l]) /\ wire'[l].market = wire'[k].market
                   => wire'[l].nonce <= wire'[k].nonce
    BY DEF WireRises
  <2>1. \A l \in 1..Len(wire) : Numbered(wire'[l]) =>
          /\ wire'[l].market \in Market /\ wire'[l].nonce \in Int
          /\ wire'[l].nonce <= published[wire'[l].market]
    BY NonceTypes DEF NoncesRise, WireRises
  <2>2. \A l \in 1..Len(wire') : Numbered(wire'[l]) =>
          wire'[l].market \in Market /\ wire'[l].nonce <= published'[wire'[l].market]
    <3>. SUFFICES ASSUME NEW l \in 1..Len(wire'), Numbered(wire'[l])
         PROVE  wire'[l].market \in Market /\ wire'[l].nonce <= published'[wire'[l].market]
      OBVIOUS
    <3>1. CASE l \in 1..Len(wire)
      <4>1. \A m \in Market : published[m] \in Int
        BY NonceTypes
      <4>. QED  BY <2>1, <3>1, <4>1
    <3>2. CASE l \in (Len(wire) + 1)..Len(wire')
      BY <3>2
    <3>. QED  BY <1>1, <3>1, <3>2
  <2>3. CASE k \in 1..Len(wire)
    <3>1. \A l \in 1..k : l \in 1..Len(wire)
      BY <2>3, NonceTypes
    <3>. QED  BY <2>2, <2>3, <3>1 DEF NoncesRise, WireRises
  <2>4. CASE k \in (Len(wire) + 1)..Len(wire')
    <3>1. \A l \in 1..k : l \in 1..Len(wire')
      BY <2>4, NonceTypes
    <3>. QED  BY <2>2, <2>4, <3>1
  <2>. QED  BY <1>1, <2>3, <2>4
<1>. QED  BY <1>2, <1>3, <1>4, <1>5 DEF NoncesRise

\* The network adds frames of the exchange, whole or garbled.
LEMMA Delivered ==
  ASSUME TypeOK, NEW m \in Market, NEW n \in Nonce,
         NEW frame \in {SnapshotFrame(m, n), UpdateFrame(m, n)}, frame \in BookFrames, Deliver(frame)
  PROVE  /\ Len(wire') \in Nat /\ Len(wire) <= Len(wire')
         /\ \A k \in 1..Len(wire) : wire'[k] = wire[k]
         /\ \A k \in (Len(wire) + 1)..Len(wire') : Numbered(wire'[k]) =>
              wire'[k].market = m /\ wire'[k].nonce = n
<1>1. wire \in Seq(Frame) /\ Len(wire) \in Nat
  BY NonceTypes DEF TypeOK
<1>2. \A f \in Frame : /\ Len(Append(wire, f)) = Len(wire) + 1
                       /\ Append(wire, f)[Len(wire) + 1] = f
                       /\ \A k \in 1..Len(wire) : Append(wire, f)[k] = wire[k]
  BY <1>1, AppendProperties
<1>3. frame \in Frame /\ \A garbled \in Garbled(frame) : garbled \in Frame
  BY DEF Frame
<1>4. \A f \in Frame : (f = frame \/ f \in Garbled(frame)) /\ Numbered(f) =>
        f.market = m /\ f.nonce = n
  BY GarbledNonce
<1>5. ASSUME NEW f \in Frame, f = frame \/ f \in Garbled(frame), wire' = Append(wire, f)
      PROVE  /\ Len(wire') \in Nat /\ Len(wire) <= Len(wire')
             /\ \A k \in 1..Len(wire) : wire'[k] = wire[k]
             /\ \A k \in (Len(wire) + 1)..Len(wire') : Numbered(wire'[k]) =>
                  wire'[k].market = m /\ wire'[k].nonce = n
  BY <1>1, <1>2, <1>4, <1>5
<1>6. CASE wire' = wire \o <<frame, frame>>
  <2>1. <<frame, frame>> \in Seq(Frame) /\ Len(<<frame, frame>>) = 2
        /\ <<frame, frame>>[1] = frame /\ <<frame, frame>>[2] = frame
    BY <1>3
  <2>2. /\ Len(wire') = Len(wire) + 2
        /\ \A k \in 1..Len(wire) : wire'[k] = wire[k]
        /\ \A k \in (Len(wire) + 1)..Len(wire') : wire'[k] = <<frame, frame>>[k - Len(wire)]
    BY <1>1, <1>6, <2>1, ConcatProperties
  <2>3. \A k \in (Len(wire) + 1)..Len(wire') : wire'[k] = frame
    <3>1. \A k \in (Len(wire) + 1)..Len(wire') : k - Len(wire) = 1 \/ k - Len(wire) = 2
      BY <1>1, <2>2
    <3>. QED  BY <2>1, <2>2, <3>1
  <2>. QED  BY <1>1, <1>3, <1>4, <2>2, <2>3
<1>7. CASE wire' = wire
  BY <1>1, <1>7
<1>. QED  BY <1>3, <1>5, <1>6, <1>7 DEF Deliver

\* The session takes the first frame, into the book of its market or not at all.
LEMMA WireShrinks ==
  ASSUME TypeOK, NoncesRise, wire # <<>>, wire' = Tail(wire), UNCHANGED <<log, published>>,
         \A m \in Market :
           \/ books'[m] = books[m]
           \/ /\ Numbered(wire[1]) /\ wire[1].market = m
              /\ books'[m].nonce = wire[1].nonce
  PROVE  NoncesRise'
<1>1. /\ Len(wire) \in Nat \ {0} /\ Len(wire') = Len(wire) - 1
      /\ \A k \in 1..Len(wire') : wire'[k] = wire[k + 1]
  BY HeadTailProperties, NonceTypes, EmptySeq DEF TypeOK
<1>2. /\ \A k \in 1..Len(wire') : k + 1 \in 1..Len(wire) /\ 1 \in 1..(k + 1)
      /\ 1 \in 1..Len(wire)
      /\ \A k \in 1..Len(wire') : \A l \in 1..k : l \in 1..Len(wire') /\ l + 1 \in 1..(k + 1)
  BY <1>1
<1>3. LogRises'
  BY DEF NoncesRise, LogRises
<1>4. LogIsBehind'
  <2>. SUFFICES ASSUME NEW i \in 1..Len(log)
       PROVE  /\ log[i].sequence <= published[log[i].symbol]
              /\ books'[log[i].symbol] # NoBook => log[i].sequence <= books'[log[i].symbol].nonce
              /\ \A k \in 1..Len(wire') : Numbered(wire'[k]) /\ wire'[k].market = log[i].symbol
                   => log[i].sequence <= wire'[k].nonce
    BY DEF LogIsBehind
  <2>1. log[i].symbol \in Market
    BY NonceTypes
  <2>2. books'[log[i].symbol] # NoBook => log[i].sequence <= books'[log[i].symbol].nonce
    BY <1>2, <2>1 DEF NoncesRise, LogIsBehind
  <2>. QED  BY <1>1, <1>2, <2>2 DEF NoncesRise, LogIsBehind
<1>5. BooksAreBehind'
  <2>. SUFFICES ASSUME NEW m \in Market, books'[m] # NoBook
       PROVE  /\ books'[m].nonce <= published[m]
              /\ \A k \in 1..Len(wire') : Numbered(wire'[k]) /\ wire'[k].market = m
                   => books'[m].nonce <= wire'[k].nonce
    BY DEF BooksAreBehind
  <2>1. CASE books'[m] = books[m]
    BY <1>1, <1>2, <2>1 DEF NoncesRise, BooksAreBehind
  <2>2. CASE Numbered(wire[1]) /\ wire[1].market = m /\ books'[m].nonce = wire[1].nonce
    BY <1>1, <1>2, <2>2 DEF NoncesRise, WireRises
  <2>. QED  BY <2>1, <2>2
<1>6. WireRises'
  BY <1>1, <1>2 DEF NoncesRise, WireRises
<1>. QED  BY <1>3, <1>4, <1>5, <1>6 DEF NoncesRise

\* The connection is over; rows may be lost from the end of the log.
LEMMA ConnectionGone ==
  ASSUME TypeOK, NoncesRise, EndSession,
         Len(log') \in Nat, Len(log') <= Len(log), \A i \in 1..Len(log') : log'[i] = log[i]
  PROVE  NoncesRise'
<1>1. \A i \in 1..Len(log') : i \in 1..Len(log) /\ log[i].symbol \in Market
  BY NonceTypes
<1>2. wire' = <<>> /\ Len(wire') = 0 /\ published' = published /\ \A m \in Market : books'[m] = NoBook
  BY EmptySeq DEF EndSession
<1>3. LogRises'
  BY <1>1 DEF NoncesRise, LogRises
<1>4. LogIsBehind'
  BY <1>1, <1>2 DEF NoncesRise, LogIsBehind
<1>5. BooksAreBehind' /\ WireRises'
  BY <1>2 DEF BooksAreBehind, WireRises
<1>. QED  BY <1>3, <1>4, <1>5 DEF NoncesRise

\* A row that is sent stands where the book of its market stands.
LEMMA RowSent ==
  ASSUME IInv, NoncesRise, SendRow
  PROVE  NoncesRise'
<1>1. PICK row \in outbox : log' = Append(log, row) /\ UNCHANGED <<published, wire, books>>
  BY DEF SendRow, TakeFromOutbox, Rows!Accept
<1>2. /\ row \in Row /\ row.symbol \in Market
      /\ books[row.symbol] # NoBook /\ row.sequence = books[row.symbol].nonce
  BY DEF IInv, TypeOK, OutboxFollowsBooks, Row
<1>3. /\ Len(log) \in Nat /\ Len(log') = Len(log) + 1 /\ log'[Len(log) + 1] = row
      /\ \A i \in 1..Len(log) : log'[i] = log[i]
  BY <1>1, <1>2, AppendProperties, NonceTypes DEF IInv, TypeOK, Rows!TypeOK
<1>4. \A i \in 1..Len(log') : i \in 1..Len(log) \/ i = Len(log) + 1
  BY <1>3
<1>5. LogRises'
  <2>. SUFFICES ASSUME NEW i \in 1..Len(log'), NEW j \in 1..Len(log'), i < j,
                       log'[i].symbol = log'[j].symbol
                PROVE  log'[i].sequence <= log'[j].sequence
    BY DEF LogRises
  <2>1. i \in 1..Len(log)
    BY <1>3
  <2>2. CASE j \in 1..Len(log)
    BY <1>3, <2>1, <2>2 DEF NoncesRise, LogRises
  <2>3. CASE j = Len(log) + 1
    BY <1>2, <1>3, <2>1, <2>3 DEF NoncesRise, LogIsBehind
  <2>. QED  BY <1>4, <2>2, <2>3
<1>6. LogIsBehind'
  <2>. SUFFICES ASSUME NEW i \in 1..Len(log')
       PROVE  /\ log'[i].sequence <= published[log'[i].symbol]
              /\ books[log'[i].symbol] # NoBook => log'[i].sequence <= books[log'[i].symbol].nonce
              /\ \A k \in 1..Len(wire) : Numbered(wire[k]) /\ wire[k].market = log'[i].symbol
                   => log'[i].sequence <= wire[k].nonce
    BY <1>1 DEF LogIsBehind
  <2>1. CASE i \in 1..Len(log)
    BY <1>3, <2>1 DEF NoncesRise, LogIsBehind
  <2>2. CASE i = Len(log) + 1
    <3>1. row.sequence \in Int
      BY <1>2, NonceTypes DEF IInv
    <3>. QED  BY <1>2, <1>3, <2>2, <3>1 DEF NoncesRise, BooksAreBehind
  <2>. QED  BY <1>4, <2>1, <2>2
<1>7. BooksAreBehind' /\ WireRises'
  BY <1>1 DEF NoncesRise, BooksAreBehind, WireRises
<1>. QED  BY <1>5, <1>6, <1>7 DEF NoncesRise

\* Nothing that NoncesRise speaks of has moved.
LEMMA NoncesStay ==
  ASSUME NoncesRise, UNCHANGED <<published, wire, books, log>>
  PROVE  NoncesRise'
BY DEF NoncesRise, LogRises, LogIsBehind, BooksAreBehind, WireRises

LEMMA InitRises == Init => NoncesRise
<1>. SUFFICES ASSUME Init PROVE NoncesRise
  OBVIOUS
<1>1. Len(log) = 0 /\ Len(wire) = 0 /\ \A m \in Market : books[m] = NoBook
  BY DEF Init, SessionInit, Rows!Init
<1>. QED  BY <1>1 DEF NoncesRise, LogRises, LogIsBehind, BooksAreBehind, WireRises

\* An update is published, and sent to those that are subscribed.
LEMMA PublishRises ==
  ASSUME TypeOK, NoncesRise, NEW m \in Market, Publish(m), UNCHANGED log
  PROVE  NoncesRise'
<1>1. /\ published \in [Market -> Nonce] /\ published[m] + 1 \in Nonce \ {0}
      /\ published' = [published EXCEPT ![m] = @ + 1] /\ UNCHANGED books
  BY BoundsAssumption DEF TypeOK, Publish, Nonce
<1>2. /\ \A k \in Market : published'[k] \in Int /\ published[k] <= published'[k]
      /\ published'[m] = published[m] + 1
  BY <1>1 DEF Nonce
<1>3. CASE UNCHANGED wire
  BY <1>1, <1>2, <1>3, NonceTypes, WireGrows
<1>4. CASE Deliver(UpdateFrame(m, published[m] + 1))
  <2>1. UpdateFrame(m, published[m] + 1) \in BookFrames
    BY <1>1 DEF BookFrames, UpdateFrames
  <2>. DEFINE n == published[m] + 1
              frame == UpdateFrame(m, n)
  <2>2. n \in Nonce /\ frame \in {SnapshotFrame(m, n), UpdateFrame(m, n)}
        /\ frame \in BookFrames /\ Deliver(frame) /\ published'[m] = n
    BY <1>1, <1>2, <1>4, <2>1
  <2>. HIDE DEF n, frame
  <2>3. /\ Len(wire') \in Nat /\ Len(wire) <= Len(wire')
        /\ \A k \in 1..Len(wire) : wire'[k] = wire[k]
        /\ \A k \in (Len(wire) + 1)..Len(wire') : Numbered(wire'[k]) =>
             wire'[k].market = m /\ wire'[k].nonce = n
    BY <2>2, Delivered
  <2>. QED  BY <1>1, <1>2, <2>2, <2>3, WireGrows
<1>. QED  BY <1>3, <1>4 DEF Publish

\* An answer holds the book that the exchange has come to.
LEMMA ServeRises ==
  ASSUME TypeOK, NoncesRise, NEW m \in Market, ServeRequest(m), UNCHANGED log
  PROVE  NoncesRise'
<1>1. /\ published[m] \in Nonce /\ UNCHANGED <<published, books>>
      /\ \A k \in Market : published'[k] \in Int /\ published[k] <= published'[k]
  BY DEF TypeOK, ServeRequest, Nonce
<1>2. CASE UNCHANGED wire
  BY <1>1, <1>2, NonceTypes, WireGrows
<1>3. CASE wire' = Append(wire, Other)
  <2>1. /\ Len(wire') = Len(wire) + 1 /\ wire'[Len(wire) + 1] = Other
        /\ \A k \in 1..Len(wire) : wire'[k] = wire[k]
    <3>1. Other \in Frame
      BY DEF Frame
    <3>. QED  BY <1>3, <3>1, AppendProperties DEF TypeOK
  <2>2. ~Numbered(Other)
    BY DEF Numbered, Other
  <2>3. \A k \in (Len(wire) + 1)..Len(wire') : ~Numbered(wire'[k])
    BY <2>1, <2>2, NonceTypes
  <2>. QED  BY <1>1, <2>1, <2>3, NonceTypes, WireGrows
<1>4. CASE Deliver(SnapshotFrame(m, published[m]))
  <2>. DEFINE n == published[m]
              frame == SnapshotFrame(m, n)
  <2>1. n \in Nonce /\ frame \in {SnapshotFrame(m, n), UpdateFrame(m, n)}
        /\ frame \in BookFrames /\ Deliver(frame) /\ published'[m] = n
    BY <1>1, <1>4 DEF BookFrames, SnapshotFrames
  <2>. HIDE DEF n, frame
  <2>2. /\ Len(wire') \in Nat /\ Len(wire) <= Len(wire')
        /\ \A k \in 1..Len(wire) : wire'[k] = wire[k]
        /\ \A k \in (Len(wire) + 1)..Len(wire') : Numbered(wire'[k]) =>
             wire'[k].market = m /\ wire'[k].nonce = n
    BY <2>1, Delivered
  <2>. QED  BY <1>1, <2>1, <2>2, WireGrows
<1>. QED  BY <1>2, <1>3, <1>4 DEF ServeRequest

\* A frame is taken into the book, skipped, or ends the connection.
LEMMA ReadRises ==
  ASSUME IInv, NoncesRise, ReadFrame, UNCHANGED log
  PROVE  NoncesRise'
<1>1. TypeOK /\ wire # <<>> /\ Head(wire) = wire[1] /\ Head(wire) \in Frame
  BY NextFrame DEF IInv, ReadFrame, TypeOK
<1>2. CASE AcceptMessage(Head(wire))
  <2>1. Numbered(Head(wire))
    BY <1>2 DEF AcceptMessage, SnapshotAccepted, UpdateAccepted, Numbered
  <2>2. /\ books' = [books EXCEPT ![Head(wire).market] =
              [nonce |-> Head(wire).nonce, source_time |-> Head(wire).last_updated_at,
               book |-> BookAfter(Head(wire))]]
        /\ wire' = Tail(wire) /\ UNCHANGED published /\ DOMAIN books = Market
    BY <1>2 DEF AcceptMessage, IInv, TypeOK
  <2>3. \A m \in Market : \/ books'[m] = books[m]
                          \/ Head(wire).market = m /\ books'[m].nonce = Head(wire).nonce
    BY <2>2
  <2>. QED  BY <1>1, <2>1, <2>2, <2>3, WireShrinks
<1>3. CASE SkipFrame(Head(wire))
  BY <1>1, <1>3, WireShrinks DEF SkipFrame
<1>4. CASE RejectFrame(Head(wire))
  BY <1>1, <1>4, NonceTypes, ConnectionGone DEF RejectFrame
<1>. QED  BY <1>2, <1>3, <1>4 DEF ReadFrame

\* The nonces rise at every step.
LEMMA NextRises ==
  ASSUME IInv, NoncesRise, [Next]_vars
  PROVE  NoncesRise'
<1>1. TypeOK
  BY DEF IInv
<1>2. CASE ExchangeStep
  BY <1>1, <1>2, PublishRises, ServeRises DEF ExchangeStep
<1>3. CASE SessionStep
  <2>1. CASE ReadFrame
    BY <1>3, <2>1, ReadRises DEF SessionStep
  <2>2. CASE ConnectionEnds
    BY <1>1, <1>3, <2>2, NonceTypes, ConnectionGone DEF SessionStep, ConnectionEnds
  <2>. QED  BY <1>3, <2>1, <2>2, NoncesStay DEF SessionStep, Connect, SnapshotTick, BookCheckTick
<1>4. CASE Flush
  BY <1>4, NoncesStay DEF Flush, sessionVars, Rows!Persist
<1>5. CASE Crash
  <2>1. /\ log \in Seq(Row) /\ stored \in 0..Len(log) /\ log' = SubSeq(log, 1, stored)
        /\ \A i \in 1..stored : log[i] \in Row
    BY <1>5, ElementOfSeq DEF IInv, TypeOK, Rows!TypeOK, Crash, Rows!LoseUnstored
  <2>2. /\ Len(log') = stored /\ \A i \in 1..stored : log'[i] = log[i]
    BY <2>1, SubSeqProperties
  <2>. QED  BY <1>1, <1>5, <2>1, <2>2, ConnectionGone DEF Crash
<1>. QED  BY <1>2, <1>3, <1>4, <1>5, RowSent, NoncesStay DEF Next, vars

\* Along the log, the books and the wire the nonces of a market never fall,
\* whatever reconnects, repeated frames, second subscriptions and crashes there
\* were (apply_orderbook_message, run_ws_ingestion).
THEOREM NoncesNeverFall == Spec => []NoncesRise
<1>1. IInv /\ NoncesRise /\ [Next]_vars => NoncesRise'
  BY NextRises
<1>. QED  BY InitRises, <1>1, Invariance, PTL DEF Spec
-----------------------------------------------------------------------------
(* Reading the table back *)

\* The order takes these rows by their ids.
Agrees(order, rows) == \A i, j \in rows : <<i, j>> \in order <=> i < j

\* f is what the recursive function of Replay computes for the subsets of rows.
IsReplay(f, rows, order) ==
  f = [read \in SUBSET rows |->
         IF read = {} THEN Nothing
         ELSE ReadRow(f[read \ {LastOf(read, order)}], LastOf(read, order))]

LEMMA LastIsGreatest ==
  ASSUME NEW read \in SUBSET Nat, NEW order, Agrees(order, read),
         NEW n \in read, \A j \in read : j <= n
  PROVE  LastOf(read, order) = n
<1>1. \A j \in read \ {n} : <<j, n>> \in order
  BY DEF Agrees
<1>2. ASSUME NEW i \in read, \A j \in read \ {i} : <<j, i>> \in order
      PROVE  i = n
  <2>1. i # n => <<n, i>> \in order
    BY <1>2
  <2>2. i # n => n < i
    BY <2>1 DEF Agrees
  <2>3. i <= n /\ i \in Nat /\ n \in Nat
    OBVIOUS
  <2>. QED  BY <2>2, <2>3
<1>. DEFINE IsLast(i) == \A j \in read \ {i} : <<j, i>> \in order
<1>3. IsLast(n) /\ \A i \in read : IsLast(i) => i = n
  BY <1>1, <1>2
<1>4. LastOf(read, order) = CHOOSE i \in read : IsLast(i)
  BY DEF LastOf
<1>. HIDE DEF IsLast
<1>. QED  BY <1>3, <1>4

\* The recursion of Replay defines a function.
LEMMA ReplayExists ==
  ASSUME NEW rows \in SUBSET (Nat \ {0}), NEW order, Agrees(order, rows)
  PROVE  \A n \in Nat : \E f : IsReplay(f, rows \cap (1..n), order)
<1>. DEFINE S == {n \in Nat : \E f : IsReplay(f, rows \cap (1..n), order)}
<1>1. 0 \in S
  <2>1. IsReplay([read \in SUBSET (rows \cap (1..0)) |-> Nothing], rows \cap (1..0), order)
    BY DEF IsReplay
  <2>. QED  BY <2>1
<1>2. ASSUME NEW n \in Nat, n \in S PROVE n + 1 \in S
  <2>1. PICK f : IsReplay(f, rows \cap (1..n), order)
    BY <1>2
  <2>. DEFINE old == rows \cap (1..n)
              new == rows \cap (1..(n + 1))
              g == [read \in SUBSET new |->
                      IF n + 1 \in read THEN ReadRow(f[read \ {n + 1}], n + 1) ELSE f[read]]
  <2>2. \A read \in SUBSET new : read \ {n + 1} \in SUBSET old /\ (n + 1 \notin read => read \in SUBSET old)
    OBVIOUS
  <2>3. \A read \in SUBSET old : read \in SUBSET new /\ n + 1 \notin read
    OBVIOUS
  <2>4. \A read \in SUBSET new : n + 1 \in read => LastOf(read, order) = n + 1
    <3>. SUFFICES ASSUME NEW read \in SUBSET new, n + 1 \in read
                  PROVE  LastOf(read, order) = n + 1
      OBVIOUS
    <3>1. read \in SUBSET Nat /\ Agrees(order, read) /\ \A j \in read : j <= n + 1
      BY DEF Agrees
    <3>. QED  BY <3>1, LastIsGreatest
  <2>. HIDE DEF old, new
  <2>5. \A read \in SUBSET old :
          f[read] = IF read = {} THEN Nothing
                    ELSE ReadRow(f[read \ {LastOf(read, order)}], LastOf(read, order))
    BY <2>1, Zenon DEF IsReplay, old
  <2>6. \A read \in SUBSET new : g[read] =
          IF n + 1 \in read THEN ReadRow(f[read \ {n + 1}], n + 1) ELSE f[read]
    BY Zenon
  <2>7. \A read \in SUBSET old : g[read] = f[read]
    BY <2>3, <2>6, Zenon
  <2>8. ASSUME NEW read \in SUBSET new
        PROVE  g[read] = IF read = {} THEN Nothing
                         ELSE ReadRow(g[read \ {LastOf(read, order)}], LastOf(read, order))
    <3>. HIDE DEF g
    <3>1. CASE n + 1 \in read
      <4>1. LastOf(read, order) = n + 1 /\ read # {}
        BY <2>4, <3>1
      <4>2. g[read \ {n + 1}] = f[read \ {n + 1}]
        BY <2>2, <2>7, Zenon
      <4>. QED  BY <2>6, <3>1, <4>1, <4>2, Zenon
    <3>2. CASE n + 1 \notin read
      <4>1. read \in SUBSET old
        BY <2>2, <3>2
      <4>2. \A x : read \ {x} \in SUBSET old
        BY <4>1
      <4>. QED  BY <2>5, <2>7, <4>1, <4>2, Zenon
    <3>. QED  BY <3>1, <3>2
  <2>9. IsReplay(g, new, order)
    BY <2>8, Zenon DEF IsReplay
  <2>. QED  BY <2>9 DEF new
<1>. HIDE DEF S
<1>3. Nat \subseteq S
  <2>1. BP!DecimalAssumption
    BY DecimalAssumption, Zenon DEF BP!DecimalAssumption, DecimalAssumption
  <2>2. BP!MessageAssumption
    BY DEF BP!MessageAssumption
  <2>. QED  BY <1>1, <1>2, <2>1, <2>2, BP!NatSetInduction
<1>. QED  BY <1>3 DEF S

\* Row by row: h[k] is what the reader holds after the rows up to id k.
LEMMA ReplaySteps ==
  ASSUME NEW n \in Nat, NEW rows \in SUBSET (1..n), NEW order, Agrees(order, rows)
  PROVE  \E h : /\ h[0] = Nothing
                /\ \A k \in 0..(n - 1) :
                     h[k + 1] = IF k + 1 \in rows THEN ReadRow(h[k], k + 1) ELSE h[k]
                /\ Replay(rows, order) = h[n]
<1>. DEFINE Body(f) == [read \in SUBSET rows |->
                IF read = {} THEN Nothing
                ELSE ReadRow(f[read \ {LastOf(read, order)}], LastOf(read, order))]
            f == CHOOSE f : f = Body(f)
            Upto(k) == rows \cap (1..k)
            h == [k \in 0..n |-> f[Upto(k)]]
<1>1. f = Body(f)
  <2>1. rows \in SUBSET (Nat \ {0})
    OBVIOUS
  <2>2. rows \cap (1..n) = rows
    OBVIOUS
  <2>3. \E g : IsReplay(g, rows, order)
    BY <2>1, <2>2, ReplayExists
  <2>. QED  BY <2>3, Zenon DEF IsReplay
<1>2. Replay(rows, order) = f[rows]
  BY Zenon DEF Replay
<1>. HIDE DEF f
<1>3. \A read \in SUBSET rows :
        f[read] = IF read = {} THEN Nothing
                  ELSE ReadRow(f[read \ {LastOf(read, order)}], LastOf(read, order))
  BY <1>1, Zenon
<1>4. /\ Upto(0) = {} /\ Upto(n) = rows
      /\ \A k \in 0..n : Upto(k) \in SUBSET rows
      /\ \A k \in 0..(n - 1) : k + 1 \notin rows => Upto(k + 1) = Upto(k)
      /\ \A k \in 0..(n - 1) : k + 1 \in rows =>
           Upto(k + 1) # {} /\ k + 1 \in Upto(k + 1) /\ Upto(k + 1) \ {k + 1} = Upto(k)
  <2>1. Upto(0) = {}
    OBVIOUS
  <2>2. Upto(n) = rows
    OBVIOUS
  <2>3. \A k \in 0..n : Upto(k) \in SUBSET rows
    OBVIOUS
  <2>4. ASSUME NEW k \in 0..(n - 1), k + 1 \notin rows
        PROVE  Upto(k + 1) = Upto(k)
    BY <2>4
  <2>5. ASSUME NEW k \in 0..(n - 1), k + 1 \in rows
        PROVE  Upto(k + 1) # {} /\ k + 1 \in Upto(k + 1) /\ Upto(k + 1) \ {k + 1} = Upto(k)
    BY <2>5
  <2>. QED  BY <2>1, <2>2, <2>3, <2>4, <2>5, Zenon
<1>5. ASSUME NEW k \in 0..(n - 1), k + 1 \in rows
      PROVE  LastOf(Upto(k + 1), order) = k + 1
  <2>1. /\ Upto(k + 1) \in SUBSET Nat /\ Agrees(order, Upto(k + 1))
        /\ \A j \in Upto(k + 1) : j <= k + 1
    BY DEF Agrees
  <2>. QED  BY <1>4, <1>5, <2>1, LastIsGreatest
<1>. HIDE DEF Upto
<1>6. \A k \in 0..n : h[k] = f[Upto(k)]
  BY Zenon
<1>. HIDE DEF h
<1>7. h[0] = Nothing
  <2>1. 0 \in 0..n
    OBVIOUS
  <2>. QED  BY <1>3, <1>4, <1>6, <2>1, Zenon
<1>8. ASSUME NEW k \in 0..(n - 1)
      PROVE  h[k + 1] = IF k + 1 \in rows THEN ReadRow(h[k], k + 1) ELSE h[k]
  <2>1. k \in 0..n /\ k + 1 \in 0..n
    OBVIOUS
  <2>2. CASE k + 1 \in rows
    <3>1. f[Upto(k + 1)] = ReadRow(f[Upto(k + 1) \ {k + 1}], k + 1)
      BY <1>3, <1>4, <1>5, <2>1, <2>2, Zenon
    <3>. QED  BY <1>4, <1>6, <2>1, <2>2, <3>1, Zenon
  <2>3. CASE k + 1 \notin rows
    <3>1. Upto(k + 1) = Upto(k)
      BY <1>4, <2>3, Zenon
    <3>2. h[k + 1] = f[Upto(k + 1)] /\ h[k] = f[Upto(k)]
      BY <1>6, <2>1, Zenon
    <3>. QED  BY <2>3, <3>1, <3>2, Zenon
  <2>. QED  BY <2>2, <2>3
<1>9. Replay(rows, order) = h[n]
  <2>1. n \in 0..n
    OBVIOUS
  <2>. QED  BY <1>2, <1>4, <1>6, <2>1, Zenon
<1>. QED  BY <1>7, <1>8, <1>9

\* What is gone is a first part of the rows of the market.
FirstPartOf(gone, m) ==
  \A i, j \in 1..stored :
    i < j /\ log[i].symbol = m /\ log[j].symbol = m /\ j \in gone => i \in gone

\* A reader that is at the exchange's book n.
StandsAt(m, n) == [chained |-> TRUE, nonce |-> n, book |-> BookAt(m, n)]

\* One row more: a snapshot is the book of its nonce, and the delta that follows
\* the last row read continues it.
LEMMA ReadRowOn ==
  ASSUME IInv, NEW m \in Market, NEW gone, FirstPartOf(gone, m),
         NEW i \in RowsOf(m, gone),
         NEW held,
         \/ held = Nothing
         \/ \E j \in RowsOf(m, gone) :
              /\ j < i /\ \A l \in RowsOf(m, gone) : l < i => l <= j
              /\ held = StandsAt(m, log[j].sequence)
  PROVE  ReadRow(held, i) \in {Nothing, StandsAt(m, log[i].sequence)}
<1>1. /\ Len(log) \in Nat /\ stored \in 0..Len(log) /\ i \in 1..stored /\ i \in 1..Len(log)
      /\ log[i].symbol = m /\ i \notin gone
      /\ \A k \in 1..Len(log) : log[k] \in Row
  BY LenProperties, ElementOfSeq DEF IInv, TypeOK, Rows!TypeOK, RowsOf
<1>2. /\ log[i].sequence \in Nonce /\ log[i].message_type \in {"snapshot", "delta"}
      /\ Truthful(log[i])
  BY <1>1 DEF IInv, RowsTruthful, Row
<1>3. CASE log[i].message_type = "snapshot"
  <2>1. FromSnapshot(log[i].levels).value = BookAt(m, log[i].sequence)
    BY <1>1, <1>2, <1>3 DEF Truthful, Ok
  <2>2. held = Nothing \/ \E n : held = StandsAt(m, n)
    OBVIOUS
  <2>3. held.chained = TRUE
    BY <2>2 DEF Nothing, StandsAt
  <2>. QED  BY <1>3, <2>1, <2>3 DEF ReadRow, StandsAt
<1>4. CASE log[i].message_type = "delta" /\ held = Nothing
  BY <1>4 DEF ReadRow, Nothing
<1>5. CASE log[i].message_type = "delta" /\ held # Nothing
  <2>1. PICK j \in RowsOf(m, gone) :
           /\ j < i /\ \A l \in RowsOf(m, gone) : l < i => l <= j
           /\ held = StandsAt(m, log[j].sequence)
    BY <1>5
  <2>2. PICK p \in 1..Len(log) : PreviousRow(i, p) /\ log[p].sequence = log[i].begin_nonce
    BY <1>1, <1>5 DEF IInv, ChainUnbroken
  <2>3. p = j
    <3>1. /\ j \in 1..stored /\ log[j].symbol = m /\ j \notin gone
          /\ p < i /\ log[p].symbol = m /\ \A k \in (p + 1)..(i - 1) : log[k].symbol # m
      BY <1>1, <2>1, <2>2 DEF PreviousRow, RowsOf
    <3>2. j <= p /\ p \in 1..stored
      BY <1>1, <2>1, <3>1
    <3>3. p \notin gone
      BY <3>1, <3>2 DEF FirstPartOf
    <3>4. p \in RowsOf(m, gone)
      BY <3>1, <3>2, <3>3 DEF RowsOf
    <3>. QED  BY <2>1, <3>1, <3>2, <3>4
  <2>4. /\ log[i].sequence > 0 /\ log[i].begin_nonce = log[i].sequence - 1
        /\ log[i].levels = DeltaAt[m][log[i].sequence]
    BY <1>1, <1>2, <1>5 DEF Truthful
  <2>. DEFINE n == log[i].sequence
  <2>5. /\ held.nonce = log[i].begin_nonce /\ held.nonce # NoNonce /\ held.chained
        /\ held.book = BookAt(m, n - 1)
    BY <1>2, <2>1, <2>2, <2>3, <2>4 DEF StandsAt, NoNonce, Nonce
  <2>6. ApplyDelta(BookAt(m, n - 1), DeltaAt[m][n]).value = BookAt(m, n)
    <3>1. n \in Nonce /\ n > 0
      BY <1>2, <2>4
    <3>2. ApplyDelta(BookAt(m, n - 1), DeltaAt[m][n]) = Ok(BookAt(m, n))
      BY <3>1, ExchangeContract
    <3>3. Ok(BookAt(m, n)).value = BookAt(m, n)
      BY DEF Ok
    <3>. QED  BY <3>2, <3>3, Zenon
  <2>7. [chained |-> held.chained /\ log[i].begin_nonce = held.nonce,
         nonce |-> n, book |-> ApplyDelta(held.book, log[i].levels).value] = StandsAt(m, n)
    BY <2>4, <2>5, <2>6 DEF StandsAt
  <2>. QED  BY <1>5, <2>5, <2>7 DEF ReadRow
<1>. QED  BY <1>2, <1>3, <1>4, <1>5

\* Whatever first part of a market's rows is gone, what is left of them, read
\* by id, gives the exchange's book.
LEMMA RowsRebuild ==
  ASSUME IInv, NEW m \in Market, NEW gone, FirstPartOf(gone, m),
         NEW order, Agrees(order, RowsOf(m, gone))
  PROVE  Rebuilds(m, RowsOf(m, gone), order)
<1>. DEFINE rows == RowsOf(m, gone)
<1>1. stored \in Nat /\ rows \in SUBSET (1..stored)
  BY NonceTypes DEF IInv, TypeOK, Rows!TypeOK, RowsOf
<1>. HIDE DEF rows
<1>2. PICK h : /\ h[0] = Nothing
               /\ \A k \in 0..(stored - 1) :
                    h[k + 1] = IF k + 1 \in rows THEN ReadRow(h[k], k + 1) ELSE h[k]
               /\ Replay(rows, order) = h[stored]
  <2>1. Agrees(order, rows)
    BY DEF rows
  <2>. QED  BY <1>1, <2>1, ReplaySteps
<1>. DEFINE Good(k) == \/ h[k] = Nothing
                       \/ \E j \in rows : /\ j <= k /\ \A l \in rows : l <= k => l <= j
                                          /\ h[k] = StandsAt(m, log[j].sequence)
            S == {k \in Nat : k <= stored => Good(k)}
<1>3. 0 \in S
  BY <1>2
<1>4. ASSUME NEW k \in Nat, k \in S PROVE k + 1 \in S
  <2>. SUFFICES ASSUME k + 1 <= stored PROVE Good(k + 1)
    OBVIOUS
  <2>1. Good(k) /\ k \in 0..(stored - 1)
    BY <1>1, <1>4
  <2>2. CASE k + 1 \notin rows
    <3>1. h[k + 1] = h[k]
      BY <1>2, <2>1, <2>2
    <3>2. \A l \in rows : l <= k + 1 <=> l <= k
      BY <1>1, <2>2
    <3>3. \A j \in rows : j <= k => j <= k + 1
      BY <1>1
    <3>. QED  BY <2>1, <3>1, <3>2, <3>3
  <2>3. CASE k + 1 \in rows
    <3>1. h[k + 1] = ReadRow(h[k], k + 1)
      BY <1>2, <2>1, <2>3
    <3>2. \A l \in rows : l < k + 1 <=> l <= k
      BY <1>1
    <3>3. \/ h[k] = Nothing
          \/ \E j \in rows : /\ j < k + 1 /\ \A l \in rows : l < k + 1 => l <= j
                             /\ h[k] = StandsAt(m, log[j].sequence)
      BY <2>1, <3>2
    <3>4. ReadRow(h[k], k + 1) \in {Nothing, StandsAt(m, log[k + 1].sequence)}
      BY <2>3, <3>3, ReadRowOn DEF rows
    <3>5. k + 1 <= k + 1 /\ \A l \in rows : l <= k + 1 => l <= k + 1
      OBVIOUS
    <3>. QED  BY <2>3, <3>1, <3>4, <3>5
  <2>. QED  BY <2>2, <2>3
<1>. HIDE DEF S
<1>5. Nat \subseteq S
  <2>1. BP!DecimalAssumption
    BY DecimalAssumption, Zenon DEF BP!DecimalAssumption, DecimalAssumption
  <2>2. BP!MessageAssumption
    BY DEF BP!MessageAssumption
  <2>. QED  BY <1>3, <1>4, <2>1, <2>2, BP!NatSetInduction
<1>6. h[stored] = Nothing \/ \E n : h[stored] = StandsAt(m, n)
  BY <1>1, <1>5 DEF S
<1>7. /\ Nothing.chained /\ Nothing.nonce = NoNonce
      /\ \A n : /\ StandsAt(m, n).chained
                /\ StandsAt(m, n).book = BookAt(m, StandsAt(m, n).nonce)
  BY DEF Nothing, StandsAt
<1>8. /\ h[stored].chained
      /\ h[stored].nonce # NoNonce => h[stored].book = BookAt(m, h[stored].nonce)
  BY <1>6, <1>7, Zenon
<1>. QED  BY <1>2, <1>8, Zenon DEF Rebuilds, rows

\* The order of the ids is one, and so is that of the times if they follow the
\* nonces.
LEMMA IdsAgree ==
  ASSUME NEW m, NEW gone
  PROVE  Agrees(ById, RowsOf(m, gone))
BY DEF Agrees, ById, RowsOf

LEMMA TimesRise ==
  ASSUME IInv, NoncesRise, TimesFollowNonces, NEW i \in 1..stored, NEW j \in 1..stored,
         i < j, log[i].symbol = log[j].symbol
  PROVE  /\ log[i].time \in Int /\ log[j].time \in Int
         /\ log[i].time <= log[j].time
<1>1. /\ Len(log) \in Nat /\ stored \in 0..Len(log) /\ i \in 1..Len(log) /\ j \in 1..Len(log)
      /\ log[i] \in Row /\ log[j] \in Row
  BY LenProperties, ElementOfSeq DEF IInv, TypeOK, Rows!TypeOK
<1>2. log[i].sequence <= log[j].sequence
  BY <1>1 DEF NoncesRise, LogRises
<1>3. /\ log[i].time = TimeAt[log[i].symbol][log[i].sequence]
      /\ log[j].time = TimeAt[log[j].symbol][log[j].sequence]
  BY <1>1 DEF IInv, RowsTruthful, Truthful
<1>4. /\ log[i].symbol \in Market /\ log[i].sequence \in Nonce /\ log[j].sequence \in Nonce
      /\ log[i].time \in Instant /\ log[j].time \in Instant
  BY <1>1 DEF Row
<1>5. log[i].time <= log[j].time
  BY <1>2, <1>3, <1>4 DEF TimesFollowNonces
<1>. QED  BY <1>4, <1>5, BoundsAssumption

LEMMA TimesAgree ==
  ASSUME IInv, NoncesRise, TimesFollowNonces, NEW m \in Market, NEW gone
  PROVE  Agrees(ByTime, RowsOf(m, gone))
<1>. SUFFICES ASSUME NEW i \in RowsOf(m, gone), NEW j \in RowsOf(m, gone)
     PROVE  <<i, j>> \in ByTime <=> i < j
  BY DEF Agrees
<1>1. /\ stored \in Nat /\ i \in 1..stored /\ j \in 1..stored
      /\ log[i].symbol = log[j].symbol
  BY NonceTypes DEF RowsOf, IInv, TypeOK, Rows!TypeOK
<1>2. /\ i < j => /\ log[i].time \in Int /\ log[j].time \in Int
                  /\ log[i].time <= log[j].time
      /\ j < i => /\ log[i].time \in Int /\ log[j].time \in Int
                  /\ log[j].time <= log[i].time
  BY <1>1, TimesRise
<1>3. <<i, j>> \in ByTime <=> \/ log[i].time < log[j].time
                              \/ log[i].time = log[j].time /\ i < j
  BY <1>1 DEF ByTime
<1>4. i = j => ~(log[i].time < log[j].time)
  <2>1. i \in 1..Len(log) /\ log[i] \in Row
    BY <1>1, NonceTypes, ElementOfSeq DEF IInv, TypeOK, Rows!TypeOK
  <2>2. log[i].time \in Int
    BY <2>1, BoundsAssumption DEF Row
  <2>. QED  BY <2>2
<1>. QED  BY <1>1, <1>2, <1>3, <1>4

\* A run of retention drops a first part of the rows of each market.
LEMMA GoneIsFirstPart ==
  ASSUME IInv, NoncesRise, TimesFollowNonces, NEW m \in Market, NEW gone \in Gone
  PROVE  FirstPartOf(gone, m)
<1>1. PICK horizon \in Instant, n \in 0..stored : gone = Dropped(horizon, n)
  BY DEF Gone
<1>. SUFFICES ASSUME NEW i \in 1..stored, NEW j \in 1..stored, i < j,
                     log[i].symbol = m, log[j].symbol = m, j \in gone
              PROVE  i \in gone
  BY DEF FirstPartOf
<1>2. /\ log[i].time \in Int /\ log[j].time \in Int
      /\ log[i].time <= log[j].time
  BY TimesRise
<1>3. j \in 1..n /\ log[j].time < horizon /\ horizon \in Int /\ i \in 1..n
  BY <1>1, BoundsAssumption DEF Dropped
<1>. QED  BY <1>1, <1>2, <1>3 DEF Dropped

\* Both replays of every market, from what IInv and NoncesRise say of a state.
LEMMA BothRebuild ==
  ASSUME IInv, NoncesRise, TimesFollowNonces
  PROVE  ReaderRebuildsTheBook /\ ReplayRebuildsTheBook
<1>1. ReaderRebuildsTheBook
  BY RowsRebuild, TimesAgree, GoneIsFirstPart DEF ReaderRebuildsTheBook
<1>2. ReplayRebuildsTheBook
  BY RowsRebuild, IdsAgree, GoneIsFirstPart DEF ReplayRebuildsTheBook
<1>. QED  BY <1>1, <1>2

\* The README's rebuild, in the order of (time, id): whatever was lost, repeated
\* or garbled, whatever reconnects and crashes there were, and whatever a run
\* of the retention policy has dropped, the rows of a market from any snapshot
\* that is left are an unbroken chain to the exchange's book at the last nonce.
\* The source times have to follow the nonces: the run reader_time_regress
\* shows that the session does not see to it.
THEOREM ReadersRebuild == TimesFollowNonces => (Spec => []ReaderRebuildsTheBook)
<1>. SUFFICES ASSUME TimesFollowNonces PROVE Spec => []ReaderRebuildsTheBook
  OBVIOUS
<1>1. IInv /\ NoncesRise => ReaderRebuildsTheBook
  BY BothRebuild
<1>. QED  BY <1>1, Invariance, NoncesNeverFall, PTL

\* The same for a replay by id, the cursor of migration 000007.
THEOREM ReplaysRebuild == TimesFollowNonces => (Spec => []ReplayRebuildsTheBook)
<1>. SUFFICES ASSUME TimesFollowNonces PROVE Spec => []ReplayRebuildsTheBook
  OBVIOUS
<1>1. IInv /\ NoncesRise => ReplayRebuildsTheBook
  BY BothRebuild
<1>. QED  BY <1>1, Invariance, NoncesNeverFall, PTL

\* A replay by id of a table from which nothing was dropped needs nothing of the
\* source times.
THEOREM WholeTableRebuilds == Spec => [](\A m \in Market : Rebuilds(m, RowsOf(m, {}), ById))
<1>1. IInv => \A m \in Market : Rebuilds(m, RowsOf(m, {}), ById)
  <2>1. \A m : FirstPartOf({}, m)
    BY DEF FirstPartOf
  <2>. QED  BY <2>1, RowsRebuild, IdsAgree
<1>. QED  BY <1>1, Invariance, PTL
=============================================================================
