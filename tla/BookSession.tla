---------------------------- MODULE BookSession ----------------------------
(***************************************************************************)
(* The order-book half of run_ws_ingestion (src/src/ws.rs) and of the      *)
(* reconnect loop around it (src/src/main.rs), with the exchange it talks  *)
(* to.  The exchange is external: it numbers the updates of each market,   *)
(* answers a subscription with a complete book, then sends each update,    *)
(* over a connection that faults of the kinds in Fault may disturb.        *)
(*                                                                         *)
(* A handler that has rows to send is in the middle of `tx.send(..).await`:*)
(* `outbox` holds those rows, and the select! loop does nothing else until *)
(* it is empty.  The modules that compose the session with a writer take   *)
(* the rows out of it.                                                     *)
(***************************************************************************)
EXTENDS Book

CONSTANTS Market,     \* the markets subscribed, all of them in the symbol cache
          MaxNonce,   \* bound: updates the exchange publishes for a market
          SnapAt,     \* SnapAt[m][n]: the complete book of m after update n
          DeltaAt,    \* DeltaAt[m][n]: the levels that update n changes
          TimeAt,     \* TimeAt[m][n]: last_updated_at of update n, in micros
          Instant,    \* the micros that are a DateTime
          BadTime,    \* a last_updated_at that is not
          BadLevels,  \* levels that the book refuses
          NoBook,     \* a market that has no entry in `markets`
          Fault,      \* the kinds of fault the exchange and network may commit
          MaxFaults,  \* bound: faults in a behaviour
          MaxWire,    \* bound: frames in flight
          MaxAsked    \* bound: subscription requests in flight for a market

VARIABLES published,  \* the exchange: the nonce of the last update of each market
          feed,       \* the exchange: the markets whose updates it sends us
          asked,      \* requests on their way to the exchange, per market
          wire,       \* frames on their way to the session, in order
          session,    \* "open", or "waiting" for the next connection
          conn,       \* history: how many connections there have been
          books,      \* `markets`: the book of each market in this connection
          outbox,     \* rows the running handler has still to send
          faults      \* how many faults there have been

sessionVars == <<published, feed, asked, wire, session, conn, books, outbox, faults>>

Nonce == 0..MaxNonce
BookAt(m, n) == FromSnapshot(SnapAt[m][n]).value
MarketBookAt(m, n) ==
  [nonce |-> n, source_time |-> TimeAt[m][n], book |-> BookAt(m, n)]

ASSUME BoundsAssumption ==
  /\ MaxNonce \in Nat
  /\ MaxFaults \in Nat
  /\ TimeAt \in [Market -> [Nonce -> Instant]]
  /\ Instant \subseteq Int
  /\ BadTime \notin Instant
  /\ \A m \in Market : \A n \in Nonce : NoBook # MarketBookAt(m, n)

\* What the exchange promises: a complete book can be read, and an update
\* takes the book of the nonce before to the book of its own.
ASSUME ExchangeContract ==
  \A m \in Market : \A n \in Nonce :
    /\ FromSnapshot(SnapAt[m][n]).ok
    /\ n > 0 => ApplyDelta(BookAt(m, n - 1), DeltaAt[m][n]) = Ok(BookAt(m, n))

\* What a garbled message carries is never taken for a book.
ASSUME BadLevelsAreRefused ==
  /\ ~FromSnapshot(BadLevels).ok
  /\ \A m \in Market : \A n \in Nonce : ~ApplyDelta(BookAt(m, n), BadLevels).ok

\* A complete book is made of price levels, whatever their texts.
ASSUME LevelsAssumption ==
  \A m \in Market : \A n \in Nonce : SnapAt[m][n] \in Levels
-----------------------------------------------------------------------------
(* Frames and rows *)

SnapshotFrame(m, n) ==
  [type |-> "subscribed/order_book", market |-> m, begin_nonce |-> n, nonce |-> n,
   last_updated_at |-> TimeAt[m][n], levels |-> SnapAt[m][n]]
UpdateFrame(m, n) ==
  [type |-> "update/order_book", market |-> m, begin_nonce |-> n - 1, nonce |-> n,
   last_updated_at |-> TimeAt[m][n], levels |-> DeltaAt[m][n]]

\* Text that is not JSON, or an order_book message that does not deserialize.
Malformed == [type |-> "malformed"]
\* A frame that is logged and skipped, such as the error frame that answers
\* a refused subscription.
Other == [type |-> "other"]

Garbled(frame) ==
  {[frame EXCEPT !.levels = BadLevels], [frame EXCEPT !.last_updated_at = BadTime],
   Malformed}

SnapshotFrames == {SnapshotFrame(m, n) : m \in Market, n \in Nonce}
UpdateFrames == {UpdateFrame(m, n) : m \in Market, n \in Nonce \ {0}}
BookFrames == SnapshotFrames \cup UpdateFrames
Frame == BookFrames \cup (UNION {Garbled(f) : f \in BookFrames}) \cup {Other}

NoNonce == -1
Payload ==
  {SnapAt[m][n] : m \in Market, n \in Nonce}
    \cup {LevelsOf(BookAt(m, n)) : m \in Market, n \in Nonce}
    \cup {DeltaAt[m][n] : m \in Market, n \in Nonce \ {0}}
Row ==
  [time : Instant, symbol : Market, message_type : {"snapshot", "delta"},
   sequence : Nonce, begin_nonce : Nonce \cup {NoNonce}, levels : Payload, conn : Nat]

\* orderbook_row: the message as it came.  conn is not in the table: it is a
\* history field that says which connection the row came from.
OrderbookRowBeginningAtItself(frame) ==
  LET delta == frame.type = "update/order_book" IN
  [time |-> frame.last_updated_at, symbol |-> frame.market,
   message_type |-> IF delta THEN "delta" ELSE "snapshot",
   sequence |-> frame.nonce,
   begin_nonce |-> IF delta THEN frame.nonce ELSE NoNonce,
   levels |-> frame.levels, conn |-> conn]
OrderbookRow(frame) ==
  LET delta == frame.type = "update/order_book" IN
  [time |-> frame.last_updated_at, symbol |-> frame.market,
   message_type |-> IF delta THEN "delta" ELSE "snapshot",
   sequence |-> frame.nonce,
   begin_nonce |-> IF delta THEN frame.begin_nonce ELSE NoNonce,
   levels |-> frame.levels, conn |-> conn]

BookSnapshotRowStale(m) ==
  [time |-> books[m].source_time, symbol |-> m, message_type |-> "snapshot",
   sequence |-> published[m], begin_nonce |-> NoNonce,
   levels |-> LevelsOf(books[m].book), conn |-> conn]
BookSnapshotRowAtWriteTime(m) ==
  [time |-> TimeAt[m][published[m]], symbol |-> m, message_type |-> "snapshot",
   sequence |-> books[m].nonce, begin_nonce |-> NoNonce,
   levels |-> LevelsOf(books[m].book), conn |-> conn]
BookSnapshotRow(m) ==
  [time |-> books[m].source_time, symbol |-> m, message_type |-> "snapshot",
   sequence |-> books[m].nonce, begin_nonce |-> NoNonce,
   levels |-> LevelsOf(books[m].book), conn |-> conn]
-----------------------------------------------------------------------------
(* The exchange and the network *)

Inject(kind) ==
  /\ kind \in Fault
  /\ faults < MaxFaults
  /\ faults' = faults + 1

Deliver(frame) ==
  \/ /\ wire' = Append(wire, frame)
     /\ UNCHANGED faults
  \/ Inject("lost") /\ UNCHANGED wire
  \/ Inject("repeated") /\ wire' = wire \o <<frame, frame>>
  \/ Inject("garbled") /\ \E garbled \in Garbled(frame) : wire' = Append(wire, garbled)

\* The book of m changes; the update is sent if m is subscribed.
Publish(m) ==
  /\ published[m] < MaxNonce
  /\ published' = [published EXCEPT ![m] = @ + 1]
  /\ IF m \in feed
     THEN Len(wire) < MaxWire /\ Deliver(UpdateFrame(m, published[m] + 1))
     ELSE UNCHANGED <<wire, faults>>
  /\ UNCHANGED <<feed, asked, session, conn, books, outbox>>

\* The exchange takes the next request for m: it answers a subscription
\* with the complete book, with silence, or with an error frame.
ServeRequest(m) ==
  /\ asked[m] # <<>>
  /\ Len(wire) < MaxWire
  /\ asked' = [asked EXCEPT ![m] = Tail(@)]
  /\ \/ /\ Head(asked[m]) = "unsubscribe"
        /\ feed' = feed \ {m}
        /\ UNCHANGED <<wire, faults>>
     \/ /\ Head(asked[m]) = "subscribe"
        /\ \/ feed' = feed \cup {m} /\ Deliver(SnapshotFrame(m, published[m]))
           \/ UNCHANGED <<feed, wire>> /\ Inject("silent")
           \/ UNCHANGED feed /\ Inject("refused") /\ wire' = Append(wire, Other)
  /\ UNCHANGED <<published, session, conn, books, outbox>>
-----------------------------------------------------------------------------
(* The session *)

SessionInit ==
  /\ published = [m \in Market |-> 0]
  /\ feed = {}
  /\ asked = [m \in Market |-> <<>>]
  /\ wire = <<>>
  /\ session = "waiting"
  /\ conn = 0
  /\ books = [m \in Market |-> NoBook]
  /\ outbox = {}
  /\ faults = 0

\* run_ws_ingestion connects and subscribes to every market.
Connect ==
  /\ session = "waiting"
  /\ session' = "open"
  /\ conn' = conn + 1
  /\ asked' = [m \in Market |-> <<"subscribe">>]
  /\ UNCHANGED <<published, feed, wire, books, outbox, faults>>

\* The connection and everything on it are gone, and `markets` with them:
\* the next call of run_ws_ingestion starts with a fresh map.
EndSession ==
  /\ session' = "waiting"
  /\ feed' = {}
  /\ asked' = [m \in Market |-> <<>>]
  /\ wire' = <<>>
  /\ books' = [m \in Market |-> NoBook]
  /\ outbox' = {}
  /\ UNCHANGED <<published, conn>>

Idle == session = "open" /\ outbox = {}

\* The stream ended, failed or brought a Close frame.
ConnectionEnds ==
  /\ Idle
  /\ Inject("disconnect")
  /\ EndSession

SnapshotAccepted(frame) ==
  /\ frame.type = "subscribed/order_book"
  /\ frame.last_updated_at \in Instant
  /\ FromSnapshot(frame.levels).ok

UpdateAcceptedInAnyOrder(frame) ==
  /\ frame.type = "update/order_book"
  /\ books[frame.market] # NoBook
  /\ frame.last_updated_at \in Instant
  /\ frame.last_updated_at >= books[frame.market].source_time
  /\ ApplyDelta(books[frame.market].book, frame.levels).ok
UpdateAcceptedHalfApplied(frame) ==
  /\ frame.type = "update/order_book"
  /\ books[frame.market] # NoBook
  /\ frame.begin_nonce = books[frame.market].nonce
  /\ frame.last_updated_at \in Instant
  /\ frame.last_updated_at >= books[frame.market].source_time
UpdateAccepted(frame) ==
  /\ frame.type = "update/order_book"
  /\ books[frame.market] # NoBook
  /\ frame.begin_nonce = books[frame.market].nonce
  /\ frame.last_updated_at \in Instant
  /\ frame.last_updated_at >= books[frame.market].source_time
  /\ ApplyDelta(books[frame.market].book, frame.levels).ok

BookAfter(frame) ==
  IF frame.type = "subscribed/order_book"
  THEN FromSnapshot(frame.levels).value
  ELSE ApplyDelta(books[frame.market].book, frame.levels).value

AcceptMessage(frame) ==
  /\ SnapshotAccepted(frame) \/ UpdateAccepted(frame)
  /\ books' = [books EXCEPT ![frame.market] =
                 [nonce |-> frame.nonce, source_time |-> frame.last_updated_at,
                  book |-> BookAfter(frame)]]
  /\ outbox' = {OrderbookRow(frame)}
  /\ wire' = Tail(wire)
  /\ UNCHANGED <<published, feed, asked, session, conn, faults>>

SkipFrame(frame) ==
  /\ frame.type = "other"
  /\ wire' = Tail(wire)
  /\ UNCHANGED <<published, feed, asked, session, conn, books, outbox, faults>>

\* A gap, an update without a book, a time that moved backwards, levels or
\* a frame that cannot be read: run_ws_ingestion returns Err.
RejectFrame(frame) ==
  /\ frame.type # "other"
  /\ ~SnapshotAccepted(frame)
  /\ ~UpdateAccepted(frame)
  /\ EndSession
  /\ UNCHANGED faults

ReadFrame ==
  /\ Idle
  /\ wire # <<>>
  /\ \/ AcceptMessage(Head(wire))
     \/ SkipFrame(Head(wire))
     \/ RejectFrame(Head(wire))

\* write_periodic_snapshots: a row for each market that has a book.
SnapshotTick ==
  /\ Idle
  /\ outbox' = {BookSnapshotRow(m) : m \in {k \in Market : books[k] # NoBook}}
  /\ UNCHANGED <<published, feed, asked, wire, session, conn, books, faults>>

MissingBooks == {m \in Market : books[m] = NoBook}

\* book_check: subscribe again, only to the markets without a book.
BookCheckTickWithoutSubscribe ==
  /\ Idle
  /\ MissingBooks # {}
  /\ \A m \in MissingBooks : Len(asked[m]) < MaxAsked
  /\ asked' = [m \in Market |-> IF m \in MissingBooks
                                THEN Append(asked[m], "unsubscribe") ELSE asked[m]]
  /\ UNCHANGED <<published, feed, wire, session, conn, books, outbox, faults>>
BookCheckTick ==
  /\ Idle
  /\ MissingBooks # {}
  /\ \A m \in MissingBooks : Len(asked[m]) < MaxAsked
  /\ asked' = [m \in Market |-> IF m \in MissingBooks
                                THEN asked[m] \o <<"unsubscribe", "subscribe">>
                                ELSE asked[m]]
  /\ UNCHANGED <<published, feed, wire, session, conn, books, outbox, faults>>

\* The row leaves the handler: tx.send(row).await returned.
TakeFromOutbox(row) ==
  /\ row \in outbox
  /\ outbox' = outbox \ {row}
  /\ UNCHANGED <<published, feed, asked, wire, session, conn, books, faults>>
=============================================================================
