---------------------------- MODULE BookHistory ----------------------------
(***************************************************************************)
(* One book through any legal sequence of calls: from_snapshot, then       *)
(* apply_delta, with messages that may fail.  `mentions` is the reference: *)
(* every level the messages since the snapshot named, in the order the     *)
(* code meets them, up to the first bad one of a message that failed.      *)
(***************************************************************************)
EXTENDS Book

CONSTANTS Message,      \* the payloads a message may carry
          MaxMentions   \* bound: levels named since the last snapshot

ASSUME MessageAssumption == Message \subseteq Levels

VARIABLES book,         \* the Book the calls work on
          mentions,     \* history: the levels named so far, with their side
          usable        \* FALSE once a call failed: the caller drops the book

vars == <<book, mentions, usable>>

OnSide(side, levels) == [i \in DOMAIN levels |-> [side |-> side, level |-> levels[i]]]
Mentions(message) == OnSide("bids", message.bids) \o OnSide("asks", message.asks)

\* The mentions before the first one that a call refuses.
BeforeRefusal(list) ==
  CHOOSE n \in 0..Len(list) :
    /\ \A i \in 1..n : Parses(list[i].level)
    /\ n < Len(list) => ~Parses(list[n + 1].level)
AppliedBy(message) ==
  LET list == Mentions(message) IN SubSeq(list, 1, BeforeRefusal(list))

Init ==
  /\ book = EmptyBook
  /\ mentions = <<>>
  /\ usable = FALSE

NewSnapshot(message) ==
  LET result == FromSnapshot(message) IN
  /\ usable' = result.ok
  /\ IF result.ok
     THEN book' = result.value /\ mentions' = Mentions(message)
     ELSE UNCHANGED <<book, mentions>>

Delta(message) ==
  LET result == ApplyDelta(book, message) IN
  /\ usable
  /\ Len(mentions) + Len(Mentions(message)) <= MaxMentions
  /\ usable' = result.ok
  /\ book' = result.value
  /\ mentions' = mentions \o AppliedBy(message)

Next == \E message \in Message : NewSnapshot(message) \/ Delta(message)

Spec == Init /\ [][Next]_vars
-----------------------------------------------------------------------------
Mentioned(side, price) ==
  {i \in DOMAIN mentions : mentions[i].side = side /\ Price(mentions[i].level) = price}
LastMention(side, price) ==
  mentions[CHOOSE i \in Mentioned(side, price) :
             \A j \in Mentioned(side, price) : j <= i].level
PricesNamed == {Price(mentions[i].level) : i \in DOMAIN mentions}

\* Types: each side maps the values of prices to levels.
TypeOK ==
  /\ usable \in BOOLEAN
  /\ \A i \in DOMAIN mentions : mentions[i].level \in Level
  /\ \A side \in {"bids", "asks"} : \A p \in DOMAIN book[side] : book[side][p] \in Level

\* The book is decided by the last message that named each price value,
\* whatever text it used: a level is there iff its last mention had a non-zero
\* size, with the text of that mention.  A call that failed half-way
\* leaves exactly the levels before the bad one applied, bids first
\* (apply_delta, apply_side, side_from_snapshot).
LastMentionWins ==
  \A side \in {"bids", "asks"} :
    /\ DOMAIN book[side] =
         {p \in PricesNamed : /\ Mentioned(side, p) # {}
                              /\ ~ZeroSize(LastMention(side, p))}
    /\ \A p \in DOMAIN book[side] : book[side][p] = LastMention(side, p)

\* A snapshot row written from the book (bids(), asks()) is itself a valid
\* snapshot, and reading it back with from_snapshot gives the same book.
SnapshotRowFaithful == FromSnapshot(LevelsOf(book)) = Ok(book)

\* bids() goes from the highest price down and asks() from the lowest up,
\* with no price value twice.
BestPriceFirst ==
  LET levels == LevelsOf(book) IN
  /\ \A i, j \in DOMAIN levels.bids : i < j => Price(levels.bids[i]) > Price(levels.bids[j])
  /\ \A i, j \in DOMAIN levels.asks : i < j => Price(levels.asks[i]) < Price(levels.asks[j])
=============================================================================
