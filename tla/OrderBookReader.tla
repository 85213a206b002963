-------------------------- MODULE OrderBookReader --------------------------
(***************************************************************************)
(* The two ways to read orderbook_messages back, beside the ingestor that  *)
(* writes it and the retention policy that drops its old rows: by source   *)
(* time, as the README describes a rebuild, and by ingestion id, the cursor*)
(* of the read indexes (migrations 000001 and 000007).                     *)
(***************************************************************************)
EXTENDS OrderBookFeed

\* drop_after => INTERVAL '4 days': a run drops the rows that are stored and by
\* their source time older than its horizon; a row that comes later with an
\* older time stays.  A run with a later horizon drops all that earlier runs
\* did, and stored rows stay as they are, so the last run, made when there were
\* n rows, says what is gone, and retention needs no state of its own.
DroppedDeltas(horizon, n) ==
  {i \in 1..n : log[i].time < horizon /\ log[i].message_type = "delta"}
Dropped(horizon, n) == {i \in 1..n : log[i].time < horizon}
Gone == {Dropped(horizon, n) : horizon \in Instant, n \in 0..stored}

RowsOf(m, gone) == {i \in 1..stored : log[i].symbol = m /\ i \notin gone}

\* The two orders in which a reader may take rows, as relations on their ids.
ById == {p \in (1..stored) \X (1..stored) : p[1] < p[2]}
ByTime ==
  {p \in (1..stored) \X (1..stored) :
     \/ log[p[1]].time < log[p[2]].time
     \/ log[p[1]].time = log[p[2]].time /\ p[1] < p[2]}

\* What the reader holds: nothing before the first snapshot row, then a book and
\* its nonce; or it has met a delta that does not continue the chain.  A
\* snapshot replaces the book, so to start at the first one covers the others.
Nothing == [chained |-> TRUE, nonce |-> NoNonce, book |-> EmptyBook]
ReadRow(held, i) ==
  LET row == log[i] IN
  CASE row.message_type = "snapshot" ->
         [chained |-> held.chained, nonce |-> row.sequence,
          book |-> FromSnapshot(row.levels).value]
    [] row.message_type = "delta" /\ held.nonce = NoNonce -> held
    [] row.message_type = "delta" /\ held.nonce # NoNonce ->
         [chained |-> held.chained /\ row.begin_nonce = held.nonce,
          nonce |-> row.sequence,
          book |-> ApplyDelta(held.book, row.levels).value]

\* The row that an order puts last.
LastOf(rows, order) == CHOOSE i \in rows : \A j \in rows \ {i} : <<j, i>> \in order
\* All rows read, in that order.
Replay(rows, order) ==
  LET held[read \in SUBSET rows] ==
        IF read = {} THEN Nothing
        ELSE LET last == LastOf(read, order) IN ReadRow(held[read \ {last}], last)
  IN  held[rows]

Rebuilds(m, rows, order) ==
  LET held == Replay(rows, order) IN
  /\ held.chained
  /\ held.nonce # NoNonce => held.book = BookAt(m, held.nonce)

\* README, "To rebuild a book": from any snapshot row that is left, the rows
\* that follow it in (time, id) order are one unbroken chain to the exchange's
\* book at the last nonce, whatever reconnects, timers, crashes and runs of
\* the retention policy there were.  It needs the source times to follow the
\* order of the nonces.
ReaderRebuildsTheBook ==
  \A m \in Market : \A gone \in Gone : Rebuilds(m, RowsOf(m, gone), ByTime)

\* The same in the order of the ids, the cursor of migration 000007: what
\* retention drops by source time leaves no hole behind a snapshot that is left.
ReplayRebuildsTheBook ==
  \A m \in Market : \A gone \in Gone : Rebuilds(m, RowsOf(m, gone), ById)

\* The source times follow the order of the nonces, or are equal.
TimesFollowNonces ==
  \A m \in Market : \A n1, n2 \in Nonce : n1 <= n2 => TimeAt[m][n1] <= TimeAt[m][n2]

-----------------------------------------------------------------------------
(* Why the order of the times, if they follow the nonces, is that of the ids *)

\* A frame with a nonce, in whatever state its levels and time are.
Numbered(frame) == frame.type \in {"subscribed/order_book", "update/order_book"}
LogRises ==
  \A i, j \in 1..Len(log) :
    i < j /\ log[i].symbol = log[j].symbol => log[i].sequence <= log[j].sequence
LogIsBehind ==
  \A i \in 1..Len(log) :
    /\ log[i].sequence <= published[log[i].symbol]
    /\ books[log[i].symbol] # NoBook => log[i].sequence <= books[log[i].symbol].nonce
    /\ \A k \in 1..Len(wire) : Numbered(wire[k]) /\ wire[k].market = log[i].symbol
         => log[i].sequence <= wire[k].nonce
BooksAreBehind ==
  \A m \in Market : books[m] # NoBook =>
    /\ books[m].nonce <= published[m]
    /\ \A k \in 1..Len(wire) : Numbered(wire[k]) /\ wire[k].market = m
         => books[m].nonce <= wire[k].nonce
WireRises ==
  \A k \in 1..Len(wire) : Numbered(wire[k]) =>
    /\ wire[k].nonce <= published[wire[k].market]
    /\ \A l \in 1..k : Numbered(wire[l]) /\ wire[l].market = wire[k].market
         => wire[l].nonce <= wire[k].nonce
\* Along the log, then the book, then the frames that are on their way, up to
\* the exchange, the nonces of a market never fall: neither a repeated frame, nor
\* the answer to a second subscription, nor the first snapshot of a new
\* connection puts an older book behind a newer row (apply_orderbook_message
\* takes any snapshot, and run_ws_ingestion drops all with its connection).
NoncesRise == LogRises /\ LogIsBehind /\ BooksAreBehind /\ WireRises
=============================================================================
