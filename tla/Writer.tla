------------------------------- MODULE Writer -------------------------------
(***************************************************************************)
(* writer_task and flush (src/src/ws.rs) with the bounded channel in front *)
(* of them (src/src/main.rs) and the two tables behind (src/src/lib.rs).   *)
(* A flush is two inserts, trades then order-book rows, that are not one   *)
(* transaction; any failure, and any exit elsewhere in the process, ends   *)
(* the process, and the next one starts with an empty channel and batch.   *)
(***************************************************************************)
EXTENDS Integers, Sequences, RowSequences

CONSTANTS BookRow,          \* orderbook_messages rows
          TradeRow,         \* trades rows
          KeyOf,            \* the unique key of each trade row
          ChannelCapacity,  \* WRITE_CHANNEL_CAPACITY
          BatchCapacity,    \* BATCH_CAPACITY
          MaxSent,          \* bound: rows sent by one process
          MaxExits          \* bound: exits of the process

ASSUME WriterAssumption ==
  /\ BookRow \cap TradeRow = {}
  /\ ChannelCapacity \in Nat \ {0}
  /\ BatchCapacity \in Nat \ {0}

VARIABLES channel,    \* rows sent and not received
          batch,      \* rows received and not flushed
          writing,    \* rows that the running flush drained from the batch
          phase,      \* "idle", or the insert that the flush does next
          trades,     \* the trades table: a set, with no two rows of one key
          orderbook,  \* the orderbook_messages table, in the order of its ids
          sent,       \* history: rows sent by this process
          before,     \* history: Len(orderbook) when this process started
          exits       \* how many times the process exited

vars == <<channel, batch, writing, phase, trades, orderbook, sent, before, exits>>

Keys(table) == {KeyOf[row] : row \in table}

Init ==
  /\ channel = <<>> /\ batch = <<>> /\ writing = <<>>
  /\ phase = "idle"
  /\ trades = {}
  /\ orderbook = <<>>
  /\ sent = <<>> /\ before = 0 /\ exits = 0

\* tx.send(row).await: it waits while the channel is full.
Enqueue(row) ==
  /\ Len(channel) < ChannelCapacity
  /\ channel' = Append(channel, row)
  /\ UNCHANGED <<batch, writing, phase, trades, orderbook>>
Send(row) ==
  /\ Len(sent) < MaxSent
  /\ Enqueue(row)
  /\ sent' = Append(sent, row)
  /\ UNCHANGED <<before, exits>>

\* The closure of flush: trades first, and each insert on its own.
InsertsSwapped == <<"orderbook", "trades">>
Inserts == <<"trades", "orderbook">>

\* The flush drains the batch; nothing is received until it is done.
StartFlush(rows) ==
  /\ writing' = rows
  /\ batch' = <<>>
  /\ phase' = Inserts[1]

InsertDone ==
  IF phase = Inserts[1]
  THEN phase' = Inserts[2] /\ UNCHANGED writing
  ELSE phase' = "idle" /\ writing' = <<>>

ReceiveBeyondCapacity ==
  /\ phase = "idle"
  /\ channel # <<>>
  /\ channel' = Tail(channel)
  /\ LET received == Append(batch, Head(channel)) IN
     IF Len(received) > BatchCapacity
     THEN StartFlush(received)
     ELSE batch' = received /\ UNCHANGED <<writing, phase>>
  /\ UNCHANGED <<trades, orderbook, sent, before, exits>>
Receive ==
  /\ phase = "idle"
  /\ channel # <<>>
  /\ channel' = Tail(channel)
  /\ LET received == Append(batch, Head(channel)) IN
     IF Len(received) >= BatchCapacity
     THEN StartFlush(received)
     ELSE batch' = received /\ UNCHANGED <<writing, phase>>
  /\ UNCHANGED <<trades, orderbook, sent, before, exits>>

\* The ticker: flush returns at once when the batch is empty.
TickAtCapacity ==
  /\ phase = "idle"
  /\ Len(batch) >= BatchCapacity
  /\ StartFlush(batch)
  /\ UNCHANGED <<channel, trades, orderbook, sent, before, exits>>
Tick ==
  /\ phase = "idle"
  /\ batch # <<>>
  /\ StartFlush(batch)
  /\ UNCHANGED <<channel, trades, orderbook, sent, before, exits>>

\* ON CONFLICT DO NOTHING: of the rows of one key the first one stays.
InsertedAll(table, rows) == table \cup Contents(rows)
InsertedUnlessConflict(table, rows) ==
  IF \/ \E i \in DOMAIN rows : KeyOf[rows[i]] \in Keys(table)
     \/ \E i, j \in DOMAIN rows : i # j /\ KeyOf[rows[i]] = KeyOf[rows[j]]
  THEN table ELSE table \cup Contents(rows)
Inserted(table, rows) ==
  table \cup
    {rows[i] : i \in {k \in DOMAIN rows :
       /\ KeyOf[rows[k]] \notin Keys(table)
       /\ \A j \in 1..(k - 1) : KeyOf[rows[j]] # KeyOf[rows[k]]}}

InsertTrades ==
  /\ phase = "trades"
  /\ trades' = Inserted(trades, OfKind(TradeRow, writing))
  /\ InsertDone
  /\ UNCHANGED <<channel, batch, orderbook, sent, before, exits>>

InsertOrderbookMessagesPopped ==
  /\ phase = "orderbook"
  /\ LET popped == [i \in DOMAIN writing |-> writing[Len(writing) + 1 - i]]
     IN  orderbook' = orderbook \o OfKind(BookRow, popped)
  /\ InsertDone
  /\ UNCHANGED <<channel, batch, trades, sent, before, exits>>
InsertOrderbookMessages ==
  /\ phase = "orderbook"
  /\ orderbook' = orderbook \o OfKind(BookRow, writing)
  /\ InsertDone
  /\ UNCHANGED <<channel, batch, trades, sent, before, exits>>

\* Only the tables outlive the process.
EndProcess ==
  /\ channel' = <<>> /\ batch' = <<>> /\ writing' = <<>>
  /\ phase' = "idle"
  /\ UNCHANGED <<trades, orderbook>>

\* exit(1) after a failed or panicked flush, after a failed funding poll,
\* or a crash; docker compose starts the next process.
Exit ==
  /\ exits < MaxExits
  /\ exits' = exits + 1
  /\ sent' = <<>> /\ before' = Len(orderbook)
  /\ EndProcess

Next ==
  \/ \E row \in BookRow \cup TradeRow : Send(row)
  \/ Receive
  \/ Tick
  \/ InsertTrades
  \/ InsertOrderbookMessages
  \/ Exit

Spec == Init /\ [][Next]_vars

\* The writer's loop runs, its ticker keeps firing and a database call that
\* does not fail returns.  Nothing obliges anyone to send, or to exit.
FairSpec == Spec /\ WF_vars(Receive) /\ WF_vars(Tick)
                 /\ WF_vars(InsertTrades) /\ WF_vars(InsertOrderbookMessages)
-----------------------------------------------------------------------------
InFlight == writing \o batch \o channel

\* Types; a flush is running exactly when the rows it drained are there, and the
\* batch is below its capacity whenever the writer waits for a message.
TypeOK ==
  /\ \A rows \in {channel, batch, writing, sent} : Contents(rows) \subseteq BookRow \cup TradeRow
  /\ Len(channel) <= ChannelCapacity
  /\ Len(batch) < BatchCapacity
  /\ (phase = "idle") = (writing = <<>>)
  /\ phase # "idle" => batch = <<>>
  /\ trades \subseteq TradeRow
  /\ Contents(orderbook) \subseteq BookRow

\* No trade is stored twice, however often the exchange sends it: each
\* subscription replays the recent trades (insert_trades, the unique key).
TradesUnique == \A row1, row2 \in trades : KeyOf[row1] = KeyOf[row2] => row1 = row2

\* A running process drops nothing: a trade it sent is stored, under its key,
\* or still on its way to the insert.
NoTradeDropped ==
  \A row \in Contents(sent) \cap TradeRow :
    KeyOf[row] \in Keys(trades) \/ row \in Contents(InFlight)

\* The k-th order-book row of this process is in the table.
StoredByThisProcess(k) == k <= Len(orderbook) - before
\* The table of books never runs ahead of the table of trades: when a row of
\* orderbook_messages is there, every trade that the same process sent before
\* it is there, even if the process dies between the two inserts of a flush.
BookNeverAheadOfTrades ==
  \A j \in DOMAIN sent :
    (sent[j] \in BookRow /\ StoredByThisProcess(Len(OfKind(BookRow, SubSeq(sent, 1, j)))))
      => \A i \in 1..(j - 1) : sent[i] \in TradeRow => KeyOf[sent[i]] \in Keys(trades)

\* The writer keeps the promise of RowLog for order-book rows: they are stored
\* in the order of sending, all of them unless the process exits.
RowLog == INSTANCE RowLog WITH
  Row    <- BookRow,
  log    <- orderbook \o OfKind(BookRow, InFlight),
  stored <- Len(orderbook)
ImplementsRowLog == RowLog!Spec

\* A row does not wait for ever: the n-th order-book row, and any trade, is
\* stored or lost to an exit, also when the batch never fills (the ticker).
EveryRowIsFlushed ==
  /\ \A n \in 1..MaxSent :
       (Len(orderbook \o OfKind(BookRow, InFlight)) >= n)
         ~> (Len(orderbook) >= n \/ Len(orderbook \o OfKind(BookRow, InFlight)) < n)
  /\ \A row \in TradeRow :
       (row \in Contents(InFlight)) ~> (KeyOf[row] \in Keys(trades) \/ sent = <<>>)
=============================================================================
