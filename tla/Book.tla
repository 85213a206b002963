-------------------------------- MODULE Book --------------------------------
(***************************************************************************)
(* The in-memory order book of one market, src/src/book.rs: two maps from  *)
(* the VALUE of a price to the price level exactly as the exchange wrote   *)
(* it.  A text is a member of Text and ValueOf is the decimal parser, so   *)
(* two texts of one value ("1.5" and "1.50") name one level, and a text    *)
(* that is no decimal makes the operation fail part of the way through.    *)
(***************************************************************************)
\* Definitions named ...ByText, ...ByBlanking, ...KeepingFirst and so on, here
\* and in the other modules, stand just before the definition of the code
\* they vary: each is a plausible bug of that code, and the properties are
\* known to see it (PROJECT.json, "mutants").  No specification uses them.
EXTENDS Integers, Sequences, FiniteSets

CONSTANTS Text,        \* the texts that prices and sizes are written with
          ValueOf,     \* BigDecimal::from_str: the value of each text
          NotADecimal  \* the value of a text that does not parse

ASSUME DecimalAssumption ==
  /\ ValueOf \in [Text -> Int \cup {NotADecimal}]
  /\ NotADecimal \notin Int

Level == [price : Text, size : Text]
Levels == [bids : Seq(Level), asks : Seq(Level)]

Parses(level) ==
  /\ ValueOf[level.price] # NotADecimal
  /\ ValueOf[level.size] # NotADecimal
Price(level) == ValueOf[level.price]
ZeroSize(level) == ValueOf[level.size] = 0

EmptySide == [price \in {} |-> {}]
EmptyBook == [bids |-> EmptySide, asks |-> EmptySide]

Insert(side, level) ==
  [price \in DOMAIN side \cup {Price(level)} |->
     IF price = Price(level) THEN level ELSE side[price]]
DeleteByBlanking(side, price) == [side EXCEPT ![price] = <<>>]
Delete(side, price) == [p \in DOMAIN side \ {price} |-> side[p]]

\* A Result<()> together with the map it was filling: after an error the
\* map keeps what the levels before the bad one did to it.
Ok(value) == [ok |-> TRUE, value |-> value]
Err(value) == [ok |-> FALSE, value |-> value]

\* The body of the loop of apply_side, and of that of side_from_snapshot.
ApplyLevelByText(result, level) ==
  IF ~result.ok \/ ~Parses(level) THEN Err(result.value)
  ELSE IF level.size = "0" THEN Ok(Delete(result.value, Price(level)))
  ELSE Ok(Insert(result.value, level))
ApplyLevel(result, level) ==
  IF ~result.ok \/ ~Parses(level) THEN Err(result.value)
  ELSE IF ZeroSize(level) THEN Ok(Delete(result.value, Price(level)))
  ELSE Ok(Insert(result.value, level))

SnapshotLevel(result, level) ==
  IF ~result.ok \/ ~Parses(level) \/ ZeroSize(level) THEN Err(result.value)
  ELSE Ok(Insert(result.value, level))

ApplySide(side, levels) ==
  LET after[i \in 0..Len(levels)] ==
        IF i = 0 THEN Ok(side) ELSE ApplyLevel(after[i - 1], levels[i])
  IN  after[Len(levels)]
SideFromSnapshot(levels) ==
  LET after[i \in 0..Len(levels)] ==
        IF i = 0 THEN Ok(EmptySide) ELSE SnapshotLevel(after[i - 1], levels[i])
  IN  after[Len(levels)]

FromSnapshot(levels) ==
  LET bids == SideFromSnapshot(levels.bids)
      asks == SideFromSnapshot(levels.asks)
  IN  IF bids.ok /\ asks.ok
      THEN Ok([bids |-> bids.value, asks |-> asks.value])
      ELSE Err(EmptyBook)

\* A bad bid ends the call before any ask is applied.
ApplyDelta(book, levels) ==
  LET bids == ApplySide(book.bids, levels.bids)
      asks == ApplySide(book.asks, levels.asks)
  IN  IF bids.ok
      THEN [asks EXCEPT !.value = [bids |-> bids.value, asks |-> asks.value]]
      ELSE Err([book EXCEPT !.bids = bids.value])

\* The prices of a side as a BTreeMap iterates over them, and backwards.
Ascending(prices) ==
  CHOOSE list \in [1..Cardinality(prices) -> prices] :
    \A i, j \in DOMAIN list : i < j => list[i] < list[j]
Descending(prices) ==
  CHOOSE list \in [1..Cardinality(prices) -> prices] :
    \A i, j \in DOMAIN list : i < j => list[i] > list[j]
LevelsAt(side, list) == [i \in DOMAIN list |-> side[list[i]]]
BidsFromTheLowest(book) == LevelsAt(book.bids, Ascending(DOMAIN book.bids))
Bids(book) == LevelsAt(book.bids, Descending(DOMAIN book.bids))
Asks(book) == LevelsAt(book.asks, Ascending(DOMAIN book.asks))
LevelsOfSwapped(book) == [bids |-> Asks(book), asks |-> Bids(book)]
LevelsOf(book) == [bids |-> Bids(book), asks |-> Asks(book)]
=============================================================================
