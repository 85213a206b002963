# TLA+ models of the Lighter ingestor

The ingestor reads the order books and trades of an exchange over a WebSocket,
polls settled funding over REST, and stores all three in TimescaleDB. These
modules model what the tables may rely on: the nonce chain of the order-book
rows, the truth of every row, what survives an exit, and what is stored in the
end. `PROJECT.json` lists components, runs, the source lines of each definition,
the bugs each property is known to see, the hazards and the theorems.

## The system

| part | source | state | operations |
|---|---|---|---|
| order book | `book.rs` | two maps, price value to level as written | `from_snapshot`, `apply_delta`, `bids`, `asks` |
| WebSocket session | `ws.rs` 130-400, reconnect loop `main.rs` 174-191 | `markets`: book, nonce and source time per market, for one connection | connect and subscribe, read a frame, snapshot timer, `book_check` timer, keepalive, return `Err` |
| trade path | `ws.rs` 402-455 | none | one row for each trade of a frame |
| writer | `ws.rs` 57-128, `lib.rs` 45-63 | channel (1024), batch (128), the running flush | receive, tick, insert trades, insert order-book rows, exit |
| funding poller | `funding.rs`, `lib.rs` 65-91 | market of the round, request start, page in hand | read newest, decide, fetch, validate and store, sleep |
| symbol sync and caches | `main.rs` 194-243, `lib.rs` 18-43, 93-139 | `symbols` table, cache of ids | upsert all in one transaction, load |
| process | `main.rs`, `docker-compose.yml` | | any writer or poller error exits; the container restarts |
| Parquet export | `export.rs` | two files | check, query, write |
| tables | `migrations/` | `orderbook_messages`, `trades`, `funding_rates`, `symbols` | unique keys |

The session, the writer and the poller are tasks of one process. The session
sends rows to the writer through a bounded channel and waits while it is full.
The poller shares only the database, the rate limit of the API and the fate of the
process with them: when it fails, rows in the channel and the batch are lost. A session error
loses the session's books but no row. Startup (migrations, symbol sync, caches)
comes before all three tasks; the export is another process.

What is hard here: a chain of deltas that must not break across lost, repeated or
malformed frames, reconnects, resubscription that races with an answer, timers
that write rows in between, and exits between any two steps; a delta that
fails half-way; a flush of two inserts that are not one transaction; books, trades and the
keepalive behind one bounded channel; a poller that never looks back. The list, with source lines, is in `PROJECT.json` under
`hazards`.

What makes each part correct:

- order book: the last mention of a price value decides; a snapshot row written
  from a book reads back as that book.
- session: a book is the exchange's book at its nonce; a delta row follows the
  row it continues; a row says what the exchange said; the keepalive is in time.
- writer: order kept, nothing stored is changed, nothing dropped while it runs, no
  trade twice, books never ahead of trades, no row waits for ever.
- poller: only settlements, none left out below the newest, all in the end; requests
  are paced, whatever restarts come between.
- reader: both ways to replay give the exchange's book, whatever retention has dropped.
- trade path: a connection leaves no trade out that its replay reaches.
- symbol sync: ids keep their market, a list is taken whole or not at all.
- export: a closed file is whole, files of others stay.

## Modules

- `Book`: `book.rs` as operators. A text is a member of a set and `ValueOf` is the
  decimal parser, so "1.5" and "1.50" are two texts of one price, and a text that
  is no decimal makes a call fail. A result carries the map as it is after an
  error, because `apply_delta` works in place.
- `BookHistory`: one book through any sequence of calls, beside a history of
  the levels mentioned, which is the reference definition.
- `RowLog`: the abstract specification of the writer. Rows are appended, a prefix
  is stored, an exit cuts the log back to that prefix. An index is the row's id.
- `BookSession`: the order-book half of `run_ws_ingestion` with the exchange as its
  environment. One action for each branch of the `select!` loop. A handler that
  is inside `tx.send(..).await` is a non-empty `outbox`: no other branch runs
  until it is empty, and the rows of a periodic snapshot leave in any order,
  which is the order of a `HashMap`. `EndSession` is the `Err` return: the next call
  starts with an empty map. `conn` counts connections and, as a field of a
  row, says which one it came from; the table has no such column.
- `OrderBookFeed`: `BookSession` on top of `RowLog` (as `Rows`), with the
  exit and restart of the process. It states the order-book properties.
- `OrderBookPipeline`: `BookSession` on the real `Writer`: trades between the books, a
  bounded channel that stops the loop, batches that mix both kinds of row, exits inside a
  flush. It is shown to implement `OrderBookFeed` (as `Feed`: the log is the table and what is
  in flight behind it), and it states the liveness of the order-book path.
- `OrderBookReader`: `OrderBookFeed` with the two replays of the repository: by `(time, id)`, as
  its README describes, and by id, the cursor of migration 000007. Retention drops whole
  days of rows by source time; a horizon is the end of such a day. It is not a step: stored rows
  stay as they are and horizons grow, so the last run of the policy says what is gone, and
  the properties speak of every one that could have been (`Gone`).
- `Writer`: channel, batch, ticker and flush. The two inserts are two steps,
  and the process may exit between them.
- `Keepalive`: the session's timer, handlers, channel and flushes against a clock. Rows are
  counted. Time passes only when no task can go on.
- `RequestRate`: the requests of `sync_symbols` and `fetch_page` against a clock, over any number of
  restarts.
- `ProcessClock`: `Keepalive` and `RequestRate` in one process, on one clock. The session and the writer run
  once the symbols are synced; a poller that fails ends them, and the next process starts with a
  new channel, batch and timers.
- `Funding`: the poller and the fundings API. The three readings of the clock in
  `hour_closed`, in `fetch_page` and before `validate_page` are three steps, and time
  may pass, or be set back, between them.
- `TradeFeed`: the trade channel and `handle_trade_frame` in front of the real `Writer`. A
  frame has two lists; the handler sends its trades one by one and may fail at any of
  them. `joined` is a history variable: how far a market's trades had come when the
  exchange answered this connection. A trade of a type that the table's CHECK does not admit
  fails the flush and ends the process. A trade may be refused in one frame (a fault) or in every
  frame that holds it (`kind`).
- `SymbolSync`: the start of a process over a list of markets that changes from start to
  start. The transaction of `sync_symbols` is one step for each upsert, on a draft that
  becomes the table at the commit. The id sequence moves on also when a row exists or the
  transaction fails. `written` holds the pairs of market and id under which rows of any
  table were stored.
- `Export`: runs of the export command. A file is opened, filled batch by batch and
  closed; only a closed file can be read. Other programs add and remove files, and the
  ingestor stores rows and, at a start, renames markets meanwhile.
- `RowSequences`: what `Writer` and `OrderBookPipeline` say of sequences of rows: the rows of one kind
  (`OfKind`, the two inserts of a flush) and the row of each number (`Contents`).
- `WriterProofs`, `OrderBookFeedProofs`, `OrderBookPipelineProofs`, `BookHistoryProofs`,
  `TradeFeedProofs`, `FundingProofs`, `SymbolSyncProofs`, `ExportProofs`: theorems and proofs, each
  on the module it is named after. Three have a second part: `OrderBookFeedProofs` on
  `OrderBookReader`, `TradeFeedProofs` on `Keepalive` and `FundingProofs` on `RequestRate`;
  the names of the latter two (`KeepaliveNext`, `RequestsNext`, ...) tell them from those beside them.
- `MCBookHistory`, `MCOrderBookReader`, `MCOrderBookPipeline`, `MCProcessClock`, `MCRequestRate`,
  `MCWriter`, `MCFunding`, `MCTradeFeed`, `MCSymbolSync`, `MCExport`: the values that the configurations give to
  constants.

`Book` is extended by `BookHistory` and `BookSession`; `BookSession` by
`OrderBookFeed` and `OrderBookPipeline`, and `OrderBookFeed` by `OrderBookReader`. `Writer` and
`OrderBookFeed` both instantiate `RowLog`: the first is shown to implement it, the second
relies on it. `TradeFeed` and `OrderBookPipeline` instantiate `Writer` and drive it.
`SymbolSync`, `Funding` and `Export` meet the others only in the database. `Keepalive` and
`RequestRate` look at code of the other modules again, with time in place of content, and
`ProcessClock` extends both.

The exchange is not in the repository. What the models take from it is what the
code takes: it numbers updates per market, an answer to a subscription is
the complete book (`ExchangeContract`), fundings are shown in the order of their
times, and a full page holds the earliest rows of the window. What the code
does not trust (loss, repetition, malformed or refused messages, silence, pages
out of order or out of the window) is a fault that the models commit.

A definition with a name like `UpdateAcceptedHalfApplied`, standing before the definition it
varies, is a plausible bug of that code. No specification uses it; `PROJECT.json`
says which property it breaks.

## Runs

`tlc -config X.cfg M`; times are for two workers.

| run | what it asks | bounds |
|---|---|---|
| `book_history` | do map operations, by value and with half-way failures, agree with "the last mention wins"; does a snapshot row read back | messages of up to two levels over 8 levels, up to three mentions after a snapshot: two texts of one price, a zero written "0.0", a bad price, a bad size; 6 s |
| `feed` | all order-book safety, and do both replays give the book when times follow the nonces (two of them are equal) | one market, two updates, two faults of six kinds (not refused subscriptions, which `pipeline` has), two frames in flight, one pending resubscription, three rows before the timer stops, any retention; 850 thousand states, 110 s |
| `reader_time_regress` | does the replay by `(time, id)` hold when a source time goes back once: violated, see below | no fault at all |
| `pipeline` | session and writer together: `OrderBookPipeline => OrderBookFeed`, and does every update reach the table | one update, two faults of five kinds, one trade, a channel of one and batches of two, two rows before the timer stops; 700 thousand states, 115 s |
| `process_clock` | is the ping in time behind a full channel and slow flushes; are requests paced over failures and restarts, which cost two each | interval 4, deadline 16, flushes of 0 to 2 ticks, handlers of up to three rows, a channel of two, batches of three, one branch that overtakes the ping; a minute of eight ticks with a spacing of three, two starts in it; 2.5 million states, 35 s |
| `request_rate` | does a rolling minute keep the limit over failures and restarts: violated, see below | ten ticks, a spacing of three, a limit of nine, three starts in the minute before the last one; 2 s |
| `writer` | writer safety, `Writer => RowLog`, is every row flushed | capacity two for channel and batch, three rows, one exit; three trades of which two have one key; 9 s |
| `funding` | poller safety, is every settlement stored | two markets, pages of two, five settlements of which one is off the hour and one before the backfill start, two faults of four kinds; 6 s |
| `trade_feed` | is a trade in reach ever left out, is every trade stored | two markets, one with two trades and a liquidation and one with one trade, a replay of one each, a first trade that is good, unreadable or unstorable, a channel of one row, two faults of four kinds; 290 thousand states, 95 s |
| `symbol_sync` | safety of sync and caches | eight lists (additions, a delisting, a rename into a freed name, a swap, a reused name, an unsupported type, none), two changes, two processes; 1 s |
| `symbol_sync_reuse` | does the market id alone decide: violated, see below | two lists |
| `export` | are closed files whole, do other files stay | two runs out of 11 command lines, three and two rows, batches of two, two sets of names, any failure; 3 million states, 55 s |

Why the bounds are enough: the chain relates a delta to the row before it, so
two updates, a timer row and a reconnect between them show every way to break it,
and two faults allow one to hide what the other did (a lost frame and a
repeated one, a disconnect and a crash). In the book data of the feed, update 1
removes a level that update 2 brings back, so a book that missed one differs from the
right one. Batches of two make both flush triggers happen. Pages of two with four
wanted settlements give two full pages and then the request that finds the hour
still open. A replay of one trade and a market with two is the smallest case in which
a trade falls out of reach, and in which one that is never accepted can be pushed out. In
`pipeline` a channel of one makes the handler of a snapshot wait while a flush of mixed rows is
running, and one trade is enough to stand before, between and after the rows. One market
is enough for safety: the theorems on `OrderBookFeed` hold for any number of them, and the
session and the writer never look at two markets together, except for the timers. In
`process_clock` the assumption on the deadline holds with equality, and it is checked to
be needed: with a deadline of 15, and no assumption, `NeverSilentTooLong` fails. `PacedBetweenStarts` is reached with
equality as well. The number of starts in a minute is bounded by a state constraint of the two `MC` modules
(`FewStarts`) and by nothing in `RequestRate`; the theorem has no such bound. In `request_rate` the
limit has room for what the code's has: the paced requests and five more (55 and five are 60).
Three markets and two changes of the list give every pair of old and new list, with the two refusals (a name still held, and two names swapped) met
after an upsert that succeeded. Three rows and batches of two give a full batch and a rest.

`CHECK_DEADLOCK FALSE` stands where the bounds let the system stop (no more
updates, rows, starts or faults); `book_history`, `funding` and `process_clock` check
for deadlock: time can always pass, or a task go on.

### Fairness

- In `OrderBookPipeline`, the runtime runs the session's task whenever a branch of its `select!`
  or the waiting `send` can go on, the timers keep firing and the reconnect loop never ends:
  weak fairness of `Connect`, `ReadFrame`, `BookCheckTick` and `SendRow` together as one
  action, not of each. `SnapshotTick` and trades need none; the bounds make them finitely many, so
  the property is about what happens between them.
- The exchange answers each request it gets, if only with silence
  (a bounded fault): weak fairness of `ServeRequest`. It is not obliged to publish.
- A flush that does not fail returns, and the ticker fires each second: weak fairness of
  `WriterStep` in `OrderBookPipeline` and `TradeFeed`, and in `Writer` of `Receive`, `Tick` and
  the two inserts.
- Time passes and hours settle; the poller's task runs: weak fairness of each action
  of `Funding` but `Exit`.
- `TradeFeed` takes the fairness of the session, the exchange and the writer together.
- No fault is ever obliged to happen, and each run has finitely many of them. A fault that
  lasts for ever (a market whose request always fails) stops the service for
  ever, and no property claims otherwise.

### What the runs found

1. `reader_time_regress` (a finding). `apply_orderbook_message` refuses a delta whose
   source time is earlier than the book's and lets the session reconnect, but it stores the
   snapshot of the new connection with whatever time that has. A reader in `(time, id)` order
   then reads it before older rows and meets a broken chain, although nothing is
   missing. The `feed` run shows that the README's contract holds when source times
   follow the nonces. A replay by id needs it only where retention is at
   work, which may drop such a snapshot and keep older rows before it.
2. A blind spot of `book_check`, which `EveryUpdateReachesTheTable` names as
   `Silenced` and excludes. The timer fires while the first snapshot of a market is in
   flight; the snapshot arrives, then the unsubscribe takes effect and the second
   subscribe is met with silence. The market has a book and no subscription;
   `missing_books` does not see it, and snapshot rows of its stale book go on. Only a
   reconnect ends it.
3. The loss of the last update of a market is seen only when the next one arrives.
   `pipeline` therefore has no lost frames; `feed` does, and garbled ones too, which end a
   connection as a disconnect does.
4. `symbol_sync_reuse` (a finding). The upsert goes by market id, but the table is also
   unique on type and name, and markets that are no longer listed keep their rows. A new
   market with the ticker of a delisted one, or two markets that swap tickers, fail
   the sync, and every restart fails in the same way. A rename into a name that another market
   gives up in the same list works or fails with the order of that list.
5. `EveryTradeIsStored` needs two exceptions. Trades that a lost connection or an exit
   took away come back only as far as the next answer reaches, and nothing notices what does
   not. A trade subscription that the exchange never answers is never sent again, because
   `book_check` looks at order books (`Silenced`).
6. A trade that cannot be read or stored is met again in every replay that holds
   it: until newer trades push it out, each connection (or process) ends there, and with
   it the feeds of all markets. `EveryTradeIsStored` names that as `HeldUp`, and shows that the
   other trades are stored once it is over, if they are still in reach themselves.
7. The export selects symbols by name and writes only the name. A perp and a spot
   market of one name come out as one (`WhereClause`). The names are checked once and
   resolved again by each query: after a rename in between, a query finds no rows of the
   market, and the run succeeds with an empty file, or with one file that has it and
   one that has not.
8. A settlement that the API shows only after a later one was stored is never asked for.
   `Funding` assumes it does not happen; the code could not notice.
9. The ping waits with the handler that waits for the channel, and the channel is drained only
   between flushes. The ticker of the writer keeps its schedule, so after a long flush several
   ticks are due and each may flush one row. The bound that TLC confirms is
   `KeepaliveInterval + (MaxOvertakes + 1) * MaxFrameRows * FlushTime <= ReadDeadline`: with
   30 s and 120 s, `(MaxOvertakes + 1) * MaxFrameRows * FlushTime` may be 90 s. A timer snapshot of 90
   markets that meets a full channel and such a burst keeps it if a flush takes less than half
   a second; a slower table lets the proxy close the connection, which is a reconnect and
   loses no stored row. `select!` takes a ready branch at random: `MaxOvertakes` bounds its bad
   luck.
10. `request_rate` (a finding). The sentences "Waits `REQUEST_SPACING` after every request" (`funding.rs` 218)
   and "This keeps a Standard account under its 60 requests per minute REST limit" (the
   repository's README, line 52) hold for answered requests only. A failed one ends the process at once, the
   container starts the next one, and a start makes two requests without a pause. Nothing bounds
   the starts in a minute. `PacedBetweenStarts` says what is left of the claim: with 1.1 s,
   55 requests and two more for each start, so two starts in a minute are within the
   limit and a third need not be.
11. In a market without messages the timer's snapshots keep the source time of the last one, as
   they must. Retention goes by source time, so after four silent days each run of it removes
   every snapshot of that market, also those written since the run before. `Rebuilds` asks
   for nothing when no snapshot is left.

## Proofs

`tlapm M.tla` checks each of the eight modules. The theorems hold for every value of the
constants that satisfies the named assumptions, so for any markets, number
of updates, faults, capacities, pages, settlements and tables. Every invariant and every action
property of the passing runs is proved, and so are the two refinements.

`OrderBookFeedProofs` proves `TypeOK`, `BooksFollowTheExchange`, `ChainUnbroken` and `RowsTruthful`
of `OrderBookFeed`, and that its rows are a `RowLog` step by step.
`ChainUnbroken` is not inductive: a delta row is added at the end of the log, and
nothing in it says what the log ends with. The invariant `IInv` adds `LogEndsAtBooks` (the last
row of a market, unless the handler is still sending it, was sent by this connection
and stands at the book's nonce), `OutboxFollowsBooks` (a row in the outbox
stands at the book's nonce and, if it is a delta, continues the last row),
`NothingWhileWaiting` and `OutboxTruthful`. Cutting the log back at an exit
keeps the chain, since a prefix of a chain is a chain, and the books are gone
with it. The proof has one lemma for each action.

The same module proves the README's rebuild (`ReadersRebuild`, `ReplaysRebuild`): for any rows that
retention left, both replays end at the exchange's book. `NoncesRise` is a second invariant: from the log over the
book and the frames on the wire to the exchange, the nonces of a market never fall (TLC agrees within the
bounds of `feed`). With source times
that follow the nonces (`TimesFollowNonces`, a hypothesis of the two theorems: the session does
not see to it, as `reader_time_regress` shows), the order of the times is that of the ids, and what a run
of the policy drops is a first part of each market's rows. Then a delta that is read after some row finds
there the row that `ChainUnbroken` says it continues, by induction along the ids. Without retention
a replay by id needs nothing of the times (`WholeTableRebuilds`). The replay is a recursive function over
sets of rows that reads the last of them, in the order asked for, at the end (`Replay`, `LastOf`).

`BookHistoryProofs` proves all four invariants of `BookHistory`. The invariant is that the two maps
reflect the mentions (`Reflects`): a price value has a level exactly if its last mention has a size that is
not zero, and then the level of that mention, also where an error stops `apply_delta`
half-way. `ReadAgain` is the fact that the order-book proofs need: a book written out as
a snapshot (its sides in the order of the map) and read by `from_snapshot` gives the
same book, for any number of levels. The sides are written as the rising and the falling list of
their prices (`Ascending`, `Descending`), which exist because a finite set of numbers can be sorted.

`WriterProofs` proves `TypeOK`, `TradesUnique`, `NoTradeDropped`, `BookNeverAheadOfTrades` and that
`Writer` implements `RowLog` step by step. The invariant is an account of every row (`Accounted`): what was
sent is `Flushed`, which the flushes are done with, followed by what is in flight in the order flush, batch,
channel. Of `Flushed`, every book row is in the table, counted from the start of the process, and every trade
has its key there; between the two inserts of a flush its trades are there already. Batches mix both
kinds of row, so the proof needs that `OfKind` of a concatenation is the concatenation of `OfKind`
of the parts, for sequences of any length.

`OrderBookPipelineProofs` proves that `OrderBookPipeline` implements `OrderBookFeed`: every step of the session is the
same step there, a flush that stores order-book rows is `Rows!Persist`, other steps of the writer
stutter, and an exit inside a flush cuts the log back to the table. With that, the invariant of
`OrderBookFeedProofs` holds of the real channel and table (`TablesTellTheTruth`), and so do both rebuilds (`TheTableRebuilds`).

`TradeFeedProofs` proves `TypeOK` and `NoTradeLeftOut`. The invariant `AllHeld` says where a trade is that this
connection can have seen: in a frame on its way, with the handler, with the writer or in the table. An
answer starts it, because it holds the last `Replay` of the good trades, and `InReach` is counted in the same
way (`AnswerHolds`: in a rising list, what has fewer than `Replay` good ones after it is among the last `Replay`).
Every way to lose a trade (a frame or trade that does not parse, a row refused, an exit) ends the connection, and `joined` with it. The writer's part is
the invariant of `WriterProofs`, with one addition: while the order-book insert runs, the trades of the
flush are in the table.

The second part of `TradeFeedProofs` proves `NeverSilentTooLong` of `Keepalive` (`KeptAlive`).
The invariant is a budget of time. Until the ping is due, the
silence and the time to the tick stay within the interval. From then on, the silence, the longest that the running
handler may still wait (`Delay`: one row is received, and one flush can start, for each row it has no room
for) and the time of the branches that may still overtake the ping (`Allowance`) stay below `Budget`. The induction needs that a
flush takes time at all: with `FlushTime = 0` or `MaxFrameRows = 0` and a
deadline equal to the interval, the connection is silent for as long as the deadline when the
ping is sent, and the strict bound fails. `KeepaliveAssumption` therefore has both at least one.

`FundingProofs` proves `TypeOK`, `OnlySettlements`, `NoGapBelowNewest` and
`RequestsAdvance`. The invariant adds `StartFollowsTable` (the request start is past
everything stored and past nothing that is wanted and not stored) and
`PageLeavesNothingOut` (an answer that `validate_page` can accept has no hole after the
start), and that the API shows settlements in order. The lemmas on `floor_hour` and
`ceil_hour` show that no settlement lies between a stored one and the next start;
that is where "once an hour" is needed, and "on the hour" is not. `HasNewest` carries the
existence of a maximum along, so that no induction over the table is needed.

The second part of `FundingProofs` proves `PacedBetweenStarts` of `RequestRate` (`PacedBetween`): any rolling minute
holds at most the requests of a poller that always waits (`Paced`) and two more for each start in it, however many there
are. The sum over the minute is not inductive, because what leaves the window
says nothing of what stays. The invariant `RateInv` is therefore about every suffix of the requests of the
last minute (`Spaced`): from any one of them on, each took a spacing, except that a start
waits for nothing and cuts the wait of the request before it short, which gives back two spacings for
each start in the suffix. A request is sent when `sleep` is over, so it adds a suffix of one and a spacing
to all others; the clock ages all of them alike, and what turns a minute old is a first part, since they stand in the
order of sending (`Oldest`, `ElapseDropsOldest`). The whole window is the suffix from the first request, which is
less than a minute old; dividing by the spacing gives the
bound.

`SymbolSyncProofs` proves every safety property of `SymbolSync`. `RowsKeepTheirMarket` speaks of
the table only and the table changes only at the commit, so the invariant says what the open
transaction has reached: its draft has, for each row of the table, a row with the same id
and market (`DraftKeepsIds`); it is unique; it holds the markets upserted so far
(`DraftHoldsSoFar`), which at the end are all of the list; and no id is above the sequence
(`IdsAreSpent`), so that a new id is new. `UpsertReplaces` and `UpsertKeeps` state what one
statement does to any table that satisfies these.

`ExportProofs` proves `TypeOK`, `ReadableFilesAreWhole`, `SuccessMeansWritten` and `OthersFilesStay`. The
invariant (`Reading`): while a dataset is read, the rows in its file, those in the batch and those the
query has still to return are, one after the other, a listing of the answer. A push moves one row over, a full batch goes
to the file, and when nothing is left to return, the file with the rest of the batch is the listing. That holds for
any batch size, with the row count a multiple of it or not. A file closed by this run stays what it is while the second
dataset is read (`InOrder`), whatever is stored, renamed or put there meanwhile, and no file carries the number of a
later run (`Runs`), so a file of an earlier run is never taken for one of this run. `QueryAnswers` shows that `Query` does
not exclude behaviours: any finite set of answers has a listing by `(time, id)`, since ids
are unique within a table; without it the other theorems could hold because nothing is ever read.

Assumptions: constants have their types and capacities are not zero (`DecimalAssumption`, `BoundsAssumption`,
`LevelsAssumption`, `MessageAssumption`, `WriterAssumption`, `PipelineAssumption`,
`TradeFeedAssumption`, `FundingAssumption`, `ListingsAssumption`, `ExportAssumption`, which also says that
ids are unique within a table); the flushes are short enough for the deadline
(`KeepaliveAssumption`); the limit has room for the paced requests (`RequestRateAssumption`);
the exchange sends complete books and correct updates
(`ExchangeContract`) and lists that name each market once (`ListedOnce`); a garbled message does not
parse as a book (`BadLevelsAreRefused`); at most one settlement an hour (`HourlySettlements`). TLC
evaluates all of them on the instances of the runs.

Induction in these proofs goes over numbers, as the fact that a set of numbers that holds what follows
from its smaller members is all of them (`NatSetInduction`), proved in the module from the
well-ordering of the numbers: the library's theorem takes a predicate, which the provers at hand cannot
instantiate.

Only model-checked: liveness (`EveryUpdateReachesTheTable`, `EveryRowIsFlushed`,
`EverySettlementIsStored`, `EveryTradeIsStored`), which needs fairness and `ENABLED` and is out of the
prover's reach. The three properties that the runs refute are, of course, not proved:
`ReaderRebuildsTheBook` is proved under the hypothesis whose failure `reader_time_regress` shows, and
that `SymbolSync` keeps ids, rows and uniqueness is proved also where `symbol_sync_reuse` makes the sync fail,
and `PacedBetweenStarts` is proved in place of the `LimitKept` that `request_rate` refutes.

## Not modelled

- The connection pool: each task holds at most one of its two connections, so neither waits for
  the other. The time to get one is part of `FlushTime`.
- Retention of `trades`, compression, and the reading of `funding_rates`.
- Parquet columns and their conversion.
- Frames for an unknown market, which are skipped: every market subscribed is in
  the cache.
- A closed channel: `main` holds a sender for ever, and the writer never returns.
- The width of integers: nonces are `i64` that the code compares and never computes
  with; times are checked against what `chrono` can hold (`Instant`).
- Wording, logging, argument parsing, packaging.

## Plan

1. Done: `Book`, `BookHistory`; `RowLog`, `BookSession`, `OrderBookFeed` and its proofs;
   `OrderBookReader`; `Writer`; `OrderBookPipeline`; `Funding` and its proofs; `TradeFeed`;
   `SymbolSync` and its proofs; `Export`; `Keepalive`; `RequestRate`; `ProcessClock`.
2. Done: the proofs of `Writer`, `OrderBookPipeline`, `BookHistory`, `TradeFeed`, `Keepalive`,
   `OrderBookReader`, `RequestRate` and `Export`.
3. Open: what is listed under "Not modelled"; and the safety part of the liveness properties, that
   an update, a row, a trade or a settlement that is not stored yet is always on its way or named by an exception,
   which is proved for the connection (`NoTradeLeftOut`) and the writer (`NoTradeDropped`) only.
