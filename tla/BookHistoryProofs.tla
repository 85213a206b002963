------------------------- MODULE BookHistoryProofs -------------------------
(***************************************************************************)
(* Proofs about BookHistory, for every set of texts, parser and messages.  *)
(*                                                                         *)
(* A side is compared with a list of mentions, not with the calls: it      *)
(* Reflects the mentions when each of its levels is the last mention of    *)
(* its price, and each last mention of a size that is not zero is one of   *)
(* its levels.  One more mention is one more insert or delete, so by       *)
(* induction on the levels of a message apply_side and side_from_snapshot  *)
(* keep that relation, up to the level they refuse.  The invariants follow *)
(* from it, and from the fact that a finite set of prices can be sorted.   *)
(***************************************************************************)
EXTENDS BookHistory, FiniteSetTheorems, SequenceTheorems, WellFoundedInduction, TLAPS

\* A side: a finite map from the values of prices to levels that parse, have
\* that price and a size that is not zero.
IsSide(f) ==
  /\ f = [p \in DOMAIN f |-> f[p]]
  /\ DOMAIN f \subseteq Int
  /\ IsFiniteSet(DOMAIN f)
  /\ \A p \in DOMAIN f :
       f[p] \in Level /\ Parses(f[p]) /\ Price(f[p]) = p /\ ~ZeroSize(f[p])

\* A mention of a price level by a message, on one side.
Mention == [side : {"bids", "asks"}, level : Level]
Names(m, s, p) == m.side = s /\ Price(m.level) = p
\* Mention i is the last that names price p of side s.
IsLast(i, list, s, p) ==
  /\ i \in 1..Len(list)
  /\ Names(list[i], s, p)
  /\ \A j \in (i + 1)..Len(list) : ~Names(list[j], s, p)

\* f is the side s that the mentions describe: every level of f is the last
\* mention of its price, and a last mention that is not zero has its level.
Reflects(f, s, list) ==
  /\ \A p \in DOMAIN f : \E i \in 1..Len(list) : IsLast(i, list, s, p) /\ f[p] = list[i].level
  /\ \A i \in 1..Len(list) : \A p :
       IsLast(i, list, s, p) /\ ~ZeroSize(list[i].level) => p \in DOMAIN f

-----------------------------------------------------------------------------
(* Induction, on sets of numbers: the library's theorems take a predicate, *)
(* which none of the provers can instantiate; its theorem on minimal       *)
(* elements takes sets only.                                               *)

\* A set of naturals that is not empty has a least element.
LEMMA LeastNat ==
  ASSUME NEW T, T \subseteq Nat, T # {}
  PROVE  \E n \in T : \A m \in T : n <= m
<1>. DEFINE R == OpToRel(<, Nat)
<1>1. R = {p \in Nat \X Nat : p[1] < p[2]}
  BY Zenon DEF OpToRel
<1>2. IsWellFoundedOn(R, Nat)
  BY NatLessThanWellFounded, Zenon
<1>. HIDE DEF R
<1>3. PICK n \in T : \A m \in T : ~ (<<m, n>> \in R)
  BY <1>2, WFMin, Zenon
<1>4. ASSUME NEW m \in T PROVE n <= m
  <2>1. ~ (<<m, n>> \in R) /\ m \in Nat /\ n \in Nat
    BY <1>3
  <2>. QED  BY <2>1, <1>1
<1>. QED
  BY <1>3, <1>4

\* Induction over the naturals, for the set S of those that have a property.
LEMMA NatSetInduction ==
  ASSUME NEW S, 0 \in S, \A n \in Nat : n \in S => n + 1 \in S
  PROVE  Nat \subseteq S
<1>. SUFFICES ASSUME Nat \ S # {} PROVE FALSE
  OBVIOUS
<1>1. PICK n \in Nat \ S : \A m \in Nat \ S : n <= m
  BY LeastNat
<1>2. n # 0 /\ n - 1 \in Nat /\ (n - 1) + 1 = n /\ ~ (n <= n - 1)
  OBVIOUS
<1>. QED
  BY <1>1, <1>2

\* A row appended to the second part is appended to the whole.
LEMMA ConcatAppend ==
  ASSUME NEW S, NEW s \in Seq(S), NEW t \in Seq(S), NEW e \in S
  PROVE  s \o Append(t, e) = Append(s \o t, e)
<1>1. <<e>> \in Seq(S) /\ s \o t \in Seq(S)
  BY ConcatProperties
<1>2. Append(t, e) = t \o <<e>> /\ Append(s \o t, e) = (s \o t) \o <<e>>
  BY <1>1, AppendIsConcat
<1>3. (s \o t) \o <<e>> = s \o (t \o <<e>>)
  BY <1>1, ConcatAssociative
<1>. QED  BY <1>2, <1>3
-----------------------------------------------------------------------------
\* A price that parses has a number for its value (parse_level).
LEMMA ParsedPrice ==
  ASSUME NEW level \in Level, Parses(level)
  PROVE  Price(level) \in Int
BY DecimalAssumption DEF Parses, Price, Level

\* A level inserted into a side leaves a side (apply_side, side_from_snapshot).
LEMMA InsertIsSide ==
  ASSUME NEW f, IsSide(f), NEW level \in Level, Parses(level), ~ZeroSize(level)
  PROVE  IsSide(Insert(f, level))
<1>. DEFINE g == Insert(f, level)
<1>1. DOMAIN g = DOMAIN f \cup {Price(level)}
  BY DEF Insert
<1>2. \A p \in DOMAIN g : g[p] = IF p = Price(level) THEN level ELSE f[p]
  BY DEF Insert
<1>3. g = [p \in DOMAIN g |-> g[p]]
  BY DEF Insert
<1>4. IsFiniteSet(DOMAIN f \cup {Price(level)})
  BY FS_AddElement DEF IsSide
<1>. HIDE DEF g
<1>5. \A p \in DOMAIN g :
        g[p] \in Level /\ Parses(g[p]) /\ Price(g[p]) = p /\ ~ZeroSize(g[p])
  BY <1>1, <1>2 DEF IsSide
<1>6. DOMAIN g \subseteq Int
  BY <1>1, ParsedPrice DEF IsSide
<1>. QED  BY <1>1, <1>3, <1>4, <1>5, <1>6, Zenon DEF IsSide, g

\* A price removed from a side leaves a side (apply_side).
LEMMA DeleteIsSide ==
  ASSUME NEW f, IsSide(f), NEW price
  PROVE  IsSide(Delete(f, price))
<1>. DEFINE g == Delete(f, price)
<1>1. DOMAIN g = DOMAIN f \ {price} /\ g = [p \in DOMAIN g |-> g[p]]
  BY DEF Delete
<1>2. \A p \in DOMAIN g : g[p] = f[p]
  BY DEF Delete
<1>4. IsFiniteSet(DOMAIN f \ {price})
  BY FS_RemoveElement DEF IsSide
<1>. HIDE DEF g
<1>5. \A p \in DOMAIN g :
        g[p] \in Level /\ Parses(g[p]) /\ Price(g[p]) = p /\ ~ZeroSize(g[p])
  BY <1>1, <1>2 DEF IsSide
<1>6. DOMAIN g \subseteq Int
  BY <1>1 DEF IsSide
<1>. QED  BY <1>1, <1>4, <1>5, <1>6, Zenon DEF IsSide, g

\* Which mention is the last of a price, once one more mention is made.
LEMMA LastAfterAppend ==
  ASSUME NEW list \in Seq(Mention), NEW m \in Mention, NEW s, NEW p
  PROVE  /\ \A i \in 1..Len(list) :
              IsLast(i, Append(list, m), s, p) <=> IsLast(i, list, s, p) /\ ~Names(m, s, p)
         /\ IsLast(Len(list) + 1, Append(list, m), s, p) <=> Names(m, s, p)
<1>. DEFINE longer == Append(list, m)
<1>1. /\ Len(list) \in Nat /\ Len(longer) = Len(list) + 1 /\ longer[Len(list) + 1] = m
      /\ \A i \in 1..Len(list) : longer[i] = list[i]
  BY AppendProperties, LenProperties
<1>. HIDE DEF longer
<1>2. ASSUME NEW i \in 1..Len(list)
      PROVE  IsLast(i, longer, s, p) <=> IsLast(i, list, s, p) /\ ~Names(m, s, p)
  <2>1. (i + 1)..Len(longer) = ((i + 1)..Len(list)) \cup {Len(list) + 1}
    BY <1>1
  <2>2. \A j \in (i + 1)..Len(list) : longer[j] = list[j]
    BY <1>1
  <2>. QED  BY <1>1, <2>1, <2>2 DEF IsLast
<1>3. IsLast(Len(list) + 1, longer, s, p) <=> Names(m, s, p)
  BY <1>1 DEF IsLast
<1>. QED  BY <1>2, <1>3 DEF longer

\* Inserting a level is what mentioning it with a size that is not zero means.
LEMMA InsertReflects ==
  ASSUME NEW f, NEW s \in {"bids", "asks"}, NEW list \in Seq(Mention), Reflects(f, s, list),
         NEW level \in Level, ~ZeroSize(level)
  PROVE  Reflects(Insert(f, level), s, Append(list, [side |-> s, level |-> level]))
<1>. DEFINE m == [side |-> s, level |-> level]
            longer == Append(list, m)
            g == Insert(f, level)
<1>0. m \in Mention /\ m.level = level /\ \A p : Names(m, s, p) <=> p = Price(level)
  BY DEF Mention, Names
<1>. HIDE DEF m
<1>1. /\ Len(list) \in Nat /\ Len(longer) = Len(list) + 1 /\ longer[Len(list) + 1] = m
      /\ \A i \in 1..Len(list) : longer[i] = list[i]
  BY <1>0, AppendProperties, LenProperties
<1>2. \A p : /\ \A i \in 1..Len(list) :
                  IsLast(i, longer, s, p) <=> IsLast(i, list, s, p) /\ p # Price(level)
             /\ IsLast(Len(list) + 1, longer, s, p) <=> p = Price(level)
  BY <1>0, LastAfterAppend
<1>3. /\ DOMAIN g = DOMAIN f \cup {Price(level)}
      /\ g[Price(level)] = level
      /\ \A p \in DOMAIN f : p # Price(level) => g[p] = f[p]
  BY DEF Insert
<1>. HIDE DEF longer, g
<1>4. 1..Len(longer) = 1..Len(list) \cup {Len(list) + 1}
  BY <1>1
<1>5. ASSUME NEW p \in DOMAIN g
      PROVE  \E i \in 1..Len(longer) : IsLast(i, longer, s, p) /\ g[p] = longer[i].level
  <2>1. CASE p = Price(level)
    BY <1>0, <1>1, <1>2, <1>3, <1>4, <2>1
  <2>2. CASE p # Price(level)
    <3>1. p \in DOMAIN f /\ g[p] = f[p]
      BY <1>3, <2>2
    <3>2. PICK i \in 1..Len(list) : IsLast(i, list, s, p) /\ f[p] = list[i].level
      BY <3>1 DEF Reflects
    <3>. QED  BY <1>1, <1>2, <1>4, <2>2, <3>1, <3>2
  <2>. QED  BY <2>1, <2>2
<1>6. ASSUME NEW i \in 1..Len(longer), NEW p, IsLast(i, longer, s, p), ~ZeroSize(longer[i].level)
      PROVE  p \in DOMAIN g
  <2>1. CASE p = Price(level)
    BY <1>3, <2>1
  <2>2. CASE p # Price(level)
    <3>1. i \in 1..Len(list) /\ IsLast(i, list, s, p) /\ longer[i] = list[i]
      BY <1>1, <1>2, <1>4, <1>6, <2>2
    <3>. QED  BY <1>3, <1>6, <3>1 DEF Reflects
  <2>. QED  BY <2>1, <2>2
<1>. QED  BY <1>5, <1>6 DEF Reflects, longer, g, m

\* Removing a price is what mentioning it with a zero size means.
LEMMA DeleteReflects ==
  ASSUME NEW f, NEW s \in {"bids", "asks"}, NEW list \in Seq(Mention), Reflects(f, s, list),
         NEW level \in Level, ZeroSize(level)
  PROVE  Reflects(Delete(f, Price(level)), s, Append(list, [side |-> s, level |-> level]))
<1>. DEFINE m == [side |-> s, level |-> level]
            longer == Append(list, m)
            g == Delete(f, Price(level))
<1>0. m \in Mention /\ m.level = level /\ \A p : Names(m, s, p) <=> p = Price(level)
  BY DEF Mention, Names
<1>. HIDE DEF m
<1>1. /\ Len(list) \in Nat /\ Len(longer) = Len(list) + 1 /\ longer[Len(list) + 1] = m
      /\ \A i \in 1..Len(list) : longer[i] = list[i]
  BY <1>0, AppendProperties, LenProperties
<1>2. \A p : /\ \A i \in 1..Len(list) :
                  IsLast(i, longer, s, p) <=> IsLast(i, list, s, p) /\ p # Price(level)
             /\ IsLast(Len(list) + 1, longer, s, p) <=> p = Price(level)
  BY <1>0, LastAfterAppend
<1>3. DOMAIN g = DOMAIN f \ {Price(level)} /\ \A p \in DOMAIN g : g[p] = f[p]
  BY DEF Delete
<1>. HIDE DEF longer, g
<1>4. 1..Len(longer) = 1..Len(list) \cup {Len(list) + 1}
  BY <1>1
<1>5. ASSUME NEW p \in DOMAIN g
      PROVE  \E i \in 1..Len(longer) : IsLast(i, longer, s, p) /\ g[p] = longer[i].level
  <2>1. PICK i \in 1..Len(list) : IsLast(i, list, s, p) /\ f[p] = list[i].level
    BY <1>3 DEF Reflects
  <2>. QED  BY <1>1, <1>2, <1>3, <1>4, <2>1
<1>6. ASSUME NEW i \in 1..Len(longer), NEW p, IsLast(i, longer, s, p), ~ZeroSize(longer[i].level)
      PROVE  p \in DOMAIN g
  <2>1. i # Len(list) + 1
    BY <1>0, <1>1, <1>6
  <2>2. i \in 1..Len(list) /\ p # Price(level) /\ longer[i] = list[i] /\ IsLast(i, list, s, p)
    BY <1>1, <1>2, <1>4, <1>6, <2>1
  <2>. QED  BY <1>3, <1>6, <2>2 DEF Reflects
<1>. QED  BY <1>5, <1>6 DEF Reflects, longer, g, m

\* What is said of the other side afterwards does not concern this one.
LEMMA OtherSideAfter ==
  ASSUME NEW f, NEW s, NEW list \in Seq(Mention), NEW more \in Seq(Mention),
         Reflects(f, s, list), \A i \in 1..Len(more) : more[i].side # s
  PROVE  Reflects(f, s, list \o more)
<1>. DEFINE longer == list \o more
<1>1. /\ Len(list) \in Nat /\ Len(more) \in Nat /\ Len(longer) = Len(list) + Len(more)
      /\ \A i \in 1..Len(list) : longer[i] = list[i]
      /\ \A i \in (Len(list) + 1)..Len(longer) :
           i - Len(list) \in 1..Len(more) /\ longer[i] = more[i - Len(list)]
  BY ConcatProperties, LenProperties
<1>. HIDE DEF longer
<1>2. \A i \in (Len(list) + 1)..Len(longer) : \A p : ~Names(longer[i], s, p)
  BY <1>1 DEF Names
<1>3. ASSUME NEW i \in 1..Len(list), NEW p
      PROVE  IsLast(i, longer, s, p) <=> IsLast(i, list, s, p)
  <2>1. \A j \in (i + 1)..Len(longer) :
          j \in (i + 1)..Len(list) \/ j \in (Len(list) + 1)..Len(longer)
    BY <1>1
  <2>2. \A j \in (i + 1)..Len(list) : j \in (i + 1)..Len(longer) /\ longer[j] = list[j]
    BY <1>1
  <2>3. i \in 1..Len(longer) /\ longer[i] = list[i]
    BY <1>1
  <2>. QED  BY <1>2, <2>1, <2>2, <2>3 DEF IsLast
<1>4. ASSUME NEW p \in DOMAIN f
      PROVE  \E i \in 1..Len(longer) : IsLast(i, longer, s, p) /\ f[p] = longer[i].level
  <2>1. PICK i \in 1..Len(list) : IsLast(i, list, s, p) /\ f[p] = list[i].level
    BY DEF Reflects
  <2>2. i \in 1..Len(longer) /\ longer[i] = list[i]
    BY <1>1
  <2>. QED  BY <1>3, <2>1, <2>2
<1>5. ASSUME NEW i \in 1..Len(longer), NEW p, IsLast(i, longer, s, p), ~ZeroSize(longer[i].level)
      PROVE  p \in DOMAIN f
  <2>1. i \in 1..Len(list)
    BY <1>1, <1>2, <1>5 DEF IsLast
  <2>2. IsLast(i, list, s, p) /\ longer[i] = list[i]
    BY <1>1, <1>3, <1>5, <2>1
  <2>. QED  BY <1>5, <2>1, <2>2 DEF Reflects
<1>. QED  BY <1>4, <1>5 DEF Reflects, longer

\* What was said of the other side before does not concern this one.
LEMMA OtherSideBefore ==
  ASSUME NEW f, NEW s, NEW list \in Seq(Mention), NEW first \in Seq(Mention),
         Reflects(f, s, list), \A i \in 1..Len(first) : first[i].side # s
  PROVE  Reflects(f, s, first \o list)
<1>. DEFINE longer == first \o list
            n == Len(first)
<1>1. /\ Len(list) \in Nat /\ n \in Nat /\ Len(longer) = n + Len(list)
      /\ \A i \in 1..n : longer[i] = first[i]
      /\ \A i \in 1..Len(list) : n + i \in 1..Len(longer) /\ longer[n + i] = list[i]
      /\ \A i \in (n + 1)..Len(longer) :
           i - n \in 1..Len(list) /\ longer[i] = list[i - n] /\ i = n + (i - n)
  BY ConcatProperties, LenProperties
<1>2. \A i \in 1..n : \A p : ~Names(longer[i], s, p)
  BY <1>1 DEF Names
<1>. HIDE DEF longer, n
<1>3. ASSUME NEW i \in 1..Len(list), NEW p
      PROVE  IsLast(n + i, longer, s, p) <=> IsLast(i, list, s, p)
  <2>1. \A j \in ((n + i) + 1)..Len(longer) :
          j - n \in (i + 1)..Len(list) /\ longer[j] = list[j - n]
    BY <1>1
  <2>2. \A j \in (i + 1)..Len(list) :
          n + j \in ((n + i) + 1)..Len(longer) /\ longer[n + j] = list[j]
    BY <1>1
  <2>3. n + i \in 1..Len(longer) /\ longer[n + i] = list[i]
    BY <1>1
  <2>. QED  BY <2>1, <2>2, <2>3 DEF IsLast
<1>4. ASSUME NEW p \in DOMAIN f
      PROVE  \E i \in 1..Len(longer) : IsLast(i, longer, s, p) /\ f[p] = longer[i].level
  <2>1. PICK i \in 1..Len(list) : IsLast(i, list, s, p) /\ f[p] = list[i].level
    BY DEF Reflects
  <2>2. n + i \in 1..Len(longer) /\ longer[n + i] = list[i]
    BY <1>1
  <2>. QED  BY <1>3, <2>1, <2>2
<1>5. ASSUME NEW i \in 1..Len(longer), NEW p, IsLast(i, longer, s, p), ~ZeroSize(longer[i].level)
      PROVE  p \in DOMAIN f
  <2>0. i \notin 1..n
    BY <1>2, <1>5 DEF IsLast
  <2>1. i \in (n + 1)..Len(longer)
    <3>1. n \in Nat /\ Len(longer) \in Nat
      BY <1>1
    <3>. QED  BY <2>0, <3>1
  <2>2. PICK k \in 1..Len(list) : i = n + k /\ longer[i] = list[k]
    BY <1>1, <2>1
  <2>3. IsLast(k, list, s, p)
    BY <1>3, <1>5, <2>2
  <2>. QED  BY <1>5, <2>2, <2>3 DEF Reflects
<1>. QED  BY <1>4, <1>5 DEF Reflects, longer
-----------------------------------------------------------------------------
\* after is what the recursive function of ApplySide computes for the first n
\* levels.
IsApplied(after, f, levels, n) ==
  after = [i \in 0..n |-> IF i = 0 THEN Ok(f) ELSE ApplyLevel(after[i - 1], levels[i])]

\* The recursion of ApplySide defines a function.
LEMMA AppliedExists ==
  ASSUME NEW f, NEW levels, NEW n \in Nat
  PROVE  \E after : IsApplied(after, f, levels, n)
<1>. DEFINE S == {m \in Nat : \E after : IsApplied(after, f, levels, m)}
<1>1. 0 \in S
  <2>1. IsApplied([i \in 0..0 |-> Ok(f)], f, levels, 0)
    BY DEF IsApplied
  <2>. QED  BY <2>1
<1>2. ASSUME NEW m \in Nat, m \in S PROVE m + 1 \in S
  <2>1. PICK after : IsApplied(after, f, levels, m)
    BY <1>2
  <2>. DEFINE g == [i \in 0..(m + 1) |->
                      IF i <= m THEN after[i] ELSE ApplyLevel(after[i - 1], levels[i])]
  <2>2. \A i \in 0..m :
          after[i] = IF i = 0 THEN Ok(f) ELSE ApplyLevel(after[i - 1], levels[i])
    BY <2>1 DEF IsApplied
  <2>3. \A i \in 0..(m + 1) :
          g[i] = IF i = 0 THEN Ok(f) ELSE ApplyLevel(g[i - 1], levels[i])
    BY <2>2
  <2>4. IsApplied(g, f, levels, m + 1)
    BY <2>3 DEF IsApplied
  <2>. QED  BY <2>4
<1>. HIDE DEF S
<1>3. Nat \subseteq S
  BY <1>1, <1>2, NatSetInduction
<1>. QED  BY <1>3 DEF S

\* ApplySide goes through the levels one by one (the loop of apply_side).
LEMMA ApplySideSteps ==
  ASSUME NEW f, NEW levels, Len(levels) \in Nat
  PROVE  \E after : /\ after[0] = Ok(f)
                    /\ \A i \in 0..(Len(levels) - 1) :
                         after[i + 1] = ApplyLevel(after[i], levels[i + 1])
                    /\ ApplySide(f, levels) = after[Len(levels)]
<1>. DEFINE after == CHOOSE after : IsApplied(after, f, levels, Len(levels))
<1>1. IsApplied(after, f, levels, Len(levels))
  BY AppliedExists
<1>2. ApplySide(f, levels) = after[Len(levels)]
  BY Zenon DEF ApplySide, IsApplied
<1>. HIDE DEF after
<1>3. \A i \in 0..Len(levels) :
        after[i] = IF i = 0 THEN Ok(f) ELSE ApplyLevel(after[i - 1], levels[i])
  BY <1>1 DEF IsApplied
<1>4. after[0] = Ok(f)
  <2>1. 0 \in 0..Len(levels)
    OBVIOUS
  <2>. QED  BY <1>3, <2>1, Zenon
<1>5. ASSUME NEW i \in 0..(Len(levels) - 1)
      PROVE  after[i + 1] = ApplyLevel(after[i], levels[i + 1])
  <2>1. i + 1 \in 0..Len(levels) /\ i + 1 # 0 /\ (i + 1) - 1 = i
    OBVIOUS
  <2>. QED  BY <1>3, <2>1
<1>. QED  BY <1>2, <1>4, <1>5

\* One turn of the loop of apply_side, for a level that parses.
LEMMA OneLevel ==
  ASSUME NEW f, IsSide(f), NEW s \in {"bids", "asks"}, NEW list \in Seq(Mention),
         Reflects(f, s, list), NEW level \in Level, Parses(level)
  PROVE  \E g : /\ ApplyLevel(Ok(f), level) = Ok(g)
               /\ IsSide(g)
               /\ Reflects(g, s, Append(list, [side |-> s, level |-> level]))
<1>1. Ok(f).ok /\ Ok(f).value = f
  BY DEF Ok
<1>2. CASE ZeroSize(level)
  <2>1. ApplyLevel(Ok(f), level) = Ok(Delete(f, Price(level)))
    BY <1>1, <1>2 DEF ApplyLevel
  <2>. QED  BY <1>2, <2>1, DeleteIsSide, DeleteReflects
<1>3. CASE ~ZeroSize(level)
  <2>1. ApplyLevel(Ok(f), level) = Ok(Insert(f, level))
    BY <1>1, <1>3 DEF ApplyLevel
  <2>. QED  BY <1>3, <2>1, InsertIsSide, InsertReflects
<1>. QED  BY <1>2, <1>3

\* The mentions of the first n levels.
Upto(s, levels, n) == [i \in 1..n |-> [side |-> s, level |-> levels[i]]]

\* The mentions of the first levels, one longer with each level.
LEMMA UptoProperties ==
  ASSUME NEW s \in {"bids", "asks"}, NEW levels \in Seq(Level)
  PROVE  /\ \A n \in 0..Len(levels) : Upto(s, levels, n) \in Seq(Mention)
         /\ Upto(s, levels, 0) = <<>>
         /\ \A n \in 0..(Len(levels) - 1) :
              Upto(s, levels, n + 1)
                = Append(Upto(s, levels, n), [side |-> s, level |-> levels[n + 1]])
         /\ Upto(s, levels, Len(levels)) = OnSide(s, levels)
<1>1. ASSUME NEW n \in 0..Len(levels)
      PROVE  Upto(s, levels, n) \in Seq(Mention) /\ Len(Upto(s, levels, n)) = n
  <2>1. \A i \in 1..n : [side |-> s, level |-> levels[i]] \in Mention
    BY ElementOfSeq DEF Mention
  <2>. QED  BY <2>1 DEF Upto
<1>2. Upto(s, levels, 0) = <<>>
  BY <1>1, EmptySeq
<1>3. ASSUME NEW n \in 0..(Len(levels) - 1)
      PROVE  Upto(s, levels, n + 1)
                = Append(Upto(s, levels, n), [side |-> s, level |-> levels[n + 1]])
  BY <1>1 DEF Upto
<1>4. Upto(s, levels, Len(levels)) = OnSide(s, levels)
  BY DEF Upto, OnSide
<1>. QED  BY <1>1, <1>2, <1>3, <1>4

\* apply_side leaves exactly the levels before the first one that does not parse
\* applied, and fails iff there is one.
LEMMA ApplySideReflects ==
  ASSUME NEW f, IsSide(f), NEW s \in {"bids", "asks"}, NEW list \in Seq(Mention),
         Reflects(f, s, list), NEW levels \in Seq(Level), NEW n \in 0..Len(levels),
         \A i \in 1..n : Parses(levels[i]),
         n < Len(levels) => ~Parses(levels[n + 1])
  PROVE  \E g : /\ ApplySide(f, levels) = IF n = Len(levels) THEN Ok(g) ELSE Err(g)
               /\ IsSide(g)
               /\ Reflects(g, s, list \o Upto(s, levels, n))
<1>0. Len(levels) \in Nat
  BY LenProperties
<1>1. PICK after : /\ after[0] = Ok(f)
                   /\ \A i \in 0..(Len(levels) - 1) :
                        after[i + 1] = ApplyLevel(after[i], levels[i + 1])
                   /\ ApplySide(f, levels) = after[Len(levels)]
  BY <1>0, ApplySideSteps
<1>. DEFINE Good(i) == \E g : /\ after[i] = Ok(g)
                             /\ IsSide(g)
                             /\ Reflects(g, s, list \o Upto(s, levels, i))
            S == {i \in Nat : i <= n => Good(i)}
<1>2. 0 \in S
  <2>1. list \o Upto(s, levels, 0) = list
    BY UptoProperties, ConcatEmptySeq
  <2>. QED  BY <1>1, <2>1
<1>3. ASSUME NEW i \in Nat, i \in S PROVE i + 1 \in S
  <2>. SUFFICES ASSUME i + 1 <= n PROVE Good(i + 1)
    OBVIOUS
  <2>1. /\ i \in 0..(Len(levels) - 1) /\ i \in 0..Len(levels) /\ i <= n
        /\ i + 1 \in 1..n /\ i + 1 \in 1..Len(levels)
    BY <1>0
  <2>2. PICK g : /\ after[i] = Ok(g)
                 /\ IsSide(g)
                 /\ Reflects(g, s, list \o Upto(s, levels, i))
    BY <1>3, <2>1
  <2>. DEFINE m == [side |-> s, level |-> levels[i + 1]]
  <2>3. /\ Upto(s, levels, i) \in Seq(Mention)
        /\ Upto(s, levels, i + 1) = Append(Upto(s, levels, i), m)
        /\ m \in Mention /\ levels[i + 1] \in Level /\ Parses(levels[i + 1])
    BY <2>1, UptoProperties, ElementOfSeq DEF Mention
  <2>4. list \o Upto(s, levels, i) \in Seq(Mention)
    BY <2>3, ConcatProperties
  <2>5. list \o Upto(s, levels, i + 1) = Append(list \o Upto(s, levels, i), m)
    <3>1. \A t \in Seq(Mention) : \A x \in Mention :
            list \o Append(t, x) = Append(list \o t, x)
      BY ConcatAppend
    <3>. HIDE DEF m
    <3>. QED  BY <2>3, <3>1, Zenon
  <2>6. after[i + 1] = ApplyLevel(Ok(g), levels[i + 1])
    BY <1>1, <2>1, <2>2
  <2>7. \E h : /\ ApplyLevel(Ok(g), levels[i + 1]) = Ok(h)
               /\ IsSide(h)
               /\ Reflects(h, s, Append(list \o Upto(s, levels, i), m))
    BY <2>2, <2>3, <2>4, OneLevel
  <2>. QED  BY <2>5, <2>6, <2>7, Zenon
<1>. HIDE DEF S
<1>4. n \in S
  BY <1>2, <1>3, NatSetInduction
<1>5. PICK g : /\ after[n] = Ok(g)
               /\ IsSide(g)
               /\ Reflects(g, s, list \o Upto(s, levels, n))
  BY <1>4 DEF S
<1>6. CASE n = Len(levels)
  BY <1>1, <1>5, <1>6
<1>7. CASE n < Len(levels)
  <2>. DEFINE T == {i \in Nat : n + 1 + i <= Len(levels) => after[n + 1 + i] = Err(g)}
  <2>1. 0 \in T
    <3>1. ~Parses(levels[n + 1]) /\ n \in 0..(Len(levels) - 1) /\ n + 1 + 0 = n + 1
      BY <1>7
    <3>2. ApplyLevel(Ok(g), levels[n + 1]) = Err(g)
      BY <3>1 DEF ApplyLevel, Ok
    <3>. QED  BY <1>1, <1>5, <3>1, <3>2
  <2>2. ASSUME NEW i \in Nat, i \in T PROVE i + 1 \in T
    <3>. SUFFICES ASSUME n + 1 + (i + 1) <= Len(levels) PROVE after[n + 1 + (i + 1)] = Err(g)
      OBVIOUS
    <3>1. /\ n + 1 + i \in 0..(Len(levels) - 1) /\ n + 1 + i <= Len(levels)
          /\ n + 1 + (i + 1) = (n + 1 + i) + 1
      BY <1>0
    <3>2. after[n + 1 + (i + 1)] = ApplyLevel(Err(g), levels[(n + 1 + i) + 1])
      BY <1>1, <2>2, <3>1
    <3>. QED  BY <3>2 DEF ApplyLevel, Err
  <2>. HIDE DEF T
  <2>3. Len(levels) - (n + 1) \in T
    <3>1. Len(levels) - (n + 1) \in Nat
      BY <1>0, <1>7
    <3>. QED  BY <2>1, <2>2, <3>1, NatSetInduction
  <2>4. n + 1 + (Len(levels) - (n + 1)) = Len(levels)
    BY <1>0
  <2>5. after[Len(levels)] = Err(g)
    BY <2>3, <2>4, <1>0 DEF T
  <2>. QED  BY <1>1, <1>5, <1>7, <2>5
<1>. QED  BY <1>0, <1>6, <1>7

\* after is what the recursive function of SideFromSnapshot computes for the
\* first n levels.
IsRead(after, levels, n) ==
  after = [i \in 0..n |-> IF i = 0 THEN Ok(EmptySide)
                          ELSE SnapshotLevel(after[i - 1], levels[i])]

\* The recursion of SideFromSnapshot defines a function.
LEMMA ReadExists ==
  ASSUME NEW levels, NEW n \in Nat
  PROVE  \E after : IsRead(after, levels, n)
<1>. DEFINE S == {m \in Nat : \E after : IsRead(after, levels, m)}
<1>1. 0 \in S
  <2>1. IsRead([i \in 0..0 |-> Ok(EmptySide)], levels, 0)
    BY DEF IsRead
  <2>. QED  BY <2>1
<1>2. ASSUME NEW m \in Nat, m \in S PROVE m + 1 \in S
  <2>1. PICK after : IsRead(after, levels, m)
    BY <1>2
  <2>. DEFINE g == [i \in 0..(m + 1) |->
                      IF i <= m THEN after[i] ELSE SnapshotLevel(after[i - 1], levels[i])]
  <2>2. \A i \in 0..m :
          after[i] = IF i = 0 THEN Ok(EmptySide) ELSE SnapshotLevel(after[i - 1], levels[i])
    BY <2>1 DEF IsRead
  <2>3. \A i \in 0..(m + 1) :
          g[i] = IF i = 0 THEN Ok(EmptySide) ELSE SnapshotLevel(g[i - 1], levels[i])
    BY <2>2
  <2>4. IsRead(g, levels, m + 1)
    BY <2>3 DEF IsRead
  <2>. QED  BY <2>4
<1>. HIDE DEF S
<1>3. Nat \subseteq S
  BY <1>1, <1>2, NatSetInduction
<1>. QED  BY <1>3 DEF S

\* SideFromSnapshot goes through the levels one by one (side_from_snapshot).
LEMMA SideFromSnapshotSteps ==
  ASSUME NEW levels, Len(levels) \in Nat
  PROVE  \E after : /\ after[0] = Ok(EmptySide)
                    /\ \A i \in 0..(Len(levels) - 1) :
                         after[i + 1] = SnapshotLevel(after[i], levels[i + 1])
                    /\ SideFromSnapshot(levels) = after[Len(levels)]
<1>. DEFINE after == CHOOSE after : IsRead(after, levels, Len(levels))
<1>1. IsRead(after, levels, Len(levels))
  BY ReadExists
<1>2. SideFromSnapshot(levels) = after[Len(levels)]
  BY Zenon DEF SideFromSnapshot, IsRead
<1>. HIDE DEF after
<1>3. \A i \in 0..Len(levels) :
        after[i] = IF i = 0 THEN Ok(EmptySide) ELSE SnapshotLevel(after[i - 1], levels[i])
  BY <1>1 DEF IsRead
<1>4. after[0] = Ok(EmptySide)
  <2>1. 0 \in 0..Len(levels)
    OBVIOUS
  <2>. QED  BY <1>3, <2>1, Zenon
<1>5. ASSUME NEW i \in 0..(Len(levels) - 1)
      PROVE  after[i + 1] = SnapshotLevel(after[i], levels[i + 1])
  <2>1. i + 1 \in 0..Len(levels) /\ i + 1 # 0 /\ (i + 1) - 1 = i
    OBVIOUS
  <2>. QED  BY <1>3, <2>1
<1>. QED  BY <1>2, <1>4, <1>5

\* An empty side is what no mention at all means.
LEMMA EmptySideReflects ==
  IsSide(EmptySide) /\ \A s : Reflects(EmptySide, s, <<>>)
<1>1. DOMAIN EmptySide = {} /\ EmptySide = [p \in DOMAIN EmptySide |-> EmptySide[p]]
  BY DEF EmptySide
<1>2. IsFiniteSet({})
  BY FS_EmptySet
<1>3. IsSide(EmptySide)
  BY <1>1, <1>2, Zenon DEF IsSide
<1>4. \A s : Reflects(EmptySide, s, <<>>)
  <2>1. 1..Len(<<>>) = {}
    OBVIOUS
  <2>. QED  BY <1>1, <2>1, Zenon DEF Reflects
<1>. QED  BY <1>3, <1>4

\* side_from_snapshot, when it succeeds, gives what the mentions of all its
\* levels mean.
LEMMA SideFromSnapshotReflects ==
  ASSUME NEW s \in {"bids", "asks"}, NEW levels \in Seq(Level), SideFromSnapshot(levels).ok
  PROVE  \E g : /\ SideFromSnapshot(levels) = Ok(g)
               /\ IsSide(g)
               /\ Reflects(g, s, OnSide(s, levels))
<1>0. Len(levels) \in Nat
  BY LenProperties
<1>1. PICK after : /\ after[0] = Ok(EmptySide)
                   /\ \A i \in 0..(Len(levels) - 1) :
                        after[i + 1] = SnapshotLevel(after[i], levels[i + 1])
                   /\ SideFromSnapshot(levels) = after[Len(levels)]
  BY <1>0, SideFromSnapshotSteps
<1>. DEFINE Good(i) == \E g : /\ after[i] = Ok(g)
                             /\ IsSide(g)
                             /\ Reflects(g, s, Upto(s, levels, i))
            S == {i \in Nat : i <= Len(levels) /\ after[i].ok => Good(i)}
<1>2. 0 \in S
  BY <1>1, EmptySideReflects, UptoProperties
<1>3. ASSUME NEW i \in Nat, i \in S PROVE i + 1 \in S
  <2>. SUFFICES ASSUME i + 1 <= Len(levels), after[i + 1].ok PROVE Good(i + 1)
    OBVIOUS
  <2>1. /\ i \in 0..(Len(levels) - 1) /\ i \in 0..Len(levels) /\ i <= Len(levels)
        /\ i + 1 \in 1..Len(levels)
    BY <1>0
  <2>. DEFINE level == levels[i + 1]
              m == [side |-> s, level |-> level]
  <2>2. after[i + 1] = SnapshotLevel(after[i], level)
    BY <1>1, <2>1
  <2>3. /\ after[i].ok /\ Parses(level) /\ ~ZeroSize(level)
        /\ after[i + 1] = Ok(Insert(after[i].value, level))
    BY <2>2 DEF SnapshotLevel, Err
  <2>4. PICK g : /\ after[i] = Ok(g)
                 /\ IsSide(g)
                 /\ Reflects(g, s, Upto(s, levels, i))
    BY <1>3, <2>1, <2>3
  <2>5. after[i].value = g
    BY <2>4 DEF Ok
  <2>6. /\ Upto(s, levels, i) \in Seq(Mention)
        /\ Upto(s, levels, i + 1) = Append(Upto(s, levels, i), m)
        /\ level \in Level
    BY <2>1, UptoProperties, ElementOfSeq
  <2>7. Reflects(Insert(g, level), s, Append(Upto(s, levels, i), m))
    BY <2>3, <2>4, <2>6, InsertReflects
  <2>8. IsSide(Insert(g, level))
    BY <2>3, <2>4, <2>6, InsertIsSide
  <2>. QED  BY <2>3, <2>5, <2>6, <2>7, <2>8, Zenon
<1>. HIDE DEF S
<1>4. Len(levels) \in S
  BY <1>0, <1>2, <1>3, NatSetInduction
<1>. QED  BY <1>0, <1>1, <1>4, UptoProperties DEF S
-----------------------------------------------------------------------------
\* n is how many of the levels come before the first one that does not parse.
Prefix(levels, n) ==
  /\ n \in 0..Len(levels)
  /\ \A i \in 1..n : Parses(levels[i])
  /\ n < Len(levels) => ~Parses(levels[n + 1])

\* There is a first level that does not parse, or all of them do.
LEMMA PrefixExists ==
  ASSUME NEW levels \in Seq(Level)
  PROVE  \E n : Prefix(levels, n)
<1>. DEFINE T == {n \in 0..Len(levels) : n < Len(levels) => ~Parses(levels[n + 1])}
<1>0. Len(levels) \in Nat
  BY LenProperties
<1>1. T \subseteq Nat /\ Len(levels) \in T
  BY <1>0
<1>2. PICK n \in T : \A m \in T : n <= m
  BY <1>1, LeastNat
<1>3. ASSUME NEW i \in 1..n PROVE Parses(levels[i])
  <2>1. /\ i - 1 \in 0..Len(levels) /\ i - 1 < Len(levels) /\ (i - 1) + 1 = i
        /\ ~(n <= i - 1)
    BY <1>0
  <2>. QED  BY <1>2, <2>1
<1>. QED  BY <1>2, <1>3 DEF Prefix

\* How many mentions come before the first that is refused.
LEMMA BeforeRefusalIs ==
  ASSUME NEW list \in Seq(Mention), NEW n \in 0..Len(list),
         \A i \in 1..n : Parses(list[i].level),
         n < Len(list) => ~Parses(list[n + 1].level)
  PROVE  BeforeRefusal(list) = n
<1>. DEFINE Q(k) == /\ \A i \in 1..k : Parses(list[i].level)
                    /\ k < Len(list) => ~Parses(list[k + 1].level)
<1>0. Len(list) \in Nat
  BY LenProperties
<1>1. ASSUME NEW k \in 0..Len(list), Q(k) PROVE k = n
  <2>1. CASE k < n
    BY <1>0, <1>1, <2>1
  <2>2. CASE n < k
    BY <1>0, <1>1, <2>2
  <2>. QED  BY <1>0, <2>1, <2>2
<1>2. Q(n)
  OBVIOUS
<1>3. BeforeRefusal(list) = CHOOSE k \in 0..Len(list) : Q(k)
  BY DEF BeforeRefusal
<1>. HIDE DEF Q
<1>. QED  BY <1>1, <1>2, <1>3

\* The mentions of a message's levels, in their order.
LEMMA OnSideProperties ==
  ASSUME NEW s \in {"bids", "asks"}, NEW levels \in Seq(Level)
  PROVE  /\ OnSide(s, levels) \in Seq(Mention)
         /\ Len(OnSide(s, levels)) = Len(levels)
         /\ \A i \in 1..Len(levels) : OnSide(s, levels)[i] = [side |-> s, level |-> levels[i]]
         /\ \A i \in 1..Len(levels) :
              OnSide(s, levels)[i].side = s /\ OnSide(s, levels)[i].level = levels[i]
<1>1. Len(levels) \in Nat /\ DOMAIN levels = 1..Len(levels)
  BY LenProperties
<1>2. \A i \in 1..Len(levels) : [side |-> s, level |-> levels[i]] \in Mention
  BY ElementOfSeq DEF Mention
<1>3. OnSide(s, levels) = [i \in 1..Len(levels) |-> [side |-> s, level |-> levels[i]]]
  BY <1>1, Zenon DEF OnSide
<1>. DEFINE t == OnSide(s, levels)
<1>. HIDE DEF t
<1>4. t = [i \in 1..Len(levels) |-> [side |-> s, level |-> levels[i]]]
  BY <1>3 DEF t
<1>5. t \in Seq(Mention)
  BY <1>1, <1>2, <1>4
<1>6. Len(t) = Len(levels)
  BY <1>1, <1>4, <1>5
<1>7. \A i \in 1..Len(levels) : t[i] = [side |-> s, level |-> levels[i]]
  BY <1>4
<1>8. \A i \in 1..Len(levels) : t[i].side = s /\ t[i].level = levels[i]
  BY <1>4
<1>. QED  BY <1>5, <1>6, <1>7, <1>8, Zenon DEF t

\* The mentions of the first levels are the first mentions.
LEMMA UptoIsPart ==
  ASSUME NEW s \in {"bids", "asks"}, NEW levels \in Seq(Level), NEW n \in 0..Len(levels)
  PROVE  Upto(s, levels, n) = SubSeq(OnSide(s, levels), 1, n)
<1>1. \A i \in 1..n : OnSide(s, levels)[i] = [side |-> s, level |-> levels[i]]
  <2>1. \A i \in 1..n : i \in 1..Len(levels)
    BY LenProperties
  <2>. QED  BY <2>1, OnSideProperties
<1>2. n + 1 - 1 = n /\ \A i \in 1..n : 1 + i - 1 = i
  OBVIOUS
<1>. DEFINE t == OnSide(s, levels)
<1>3. SubSeq(t, 1, n) = [i \in 1..n |-> t[i]]
  BY <1>2
<1>4. [i \in 1..n |-> t[i]] = [i \in 1..n |-> [side |-> s, level |-> levels[i]]]
  BY <1>1
<1>. QED  BY <1>3, <1>4, Zenon DEF Upto

\* A refusal among the bids: nothing of the asks is applied.
LEMMA RefusedInFirst ==
  ASSUME NEW l1 \in Seq(Mention), NEW l2 \in Seq(Mention), NEW n \in Nat, n < Len(l1),
         \A i \in 1..n : Parses(l1[i].level), ~Parses(l1[n + 1].level)
  PROVE  SubSeq(l1 \o l2, 1, BeforeRefusal(l1 \o l2)) = SubSeq(l1, 1, n)
<1>. DEFINE list == l1 \o l2
<1>1. /\ list \in Seq(Mention) /\ Len(l1) \in Nat /\ Len(l2) \in Nat
      /\ Len(list) = Len(l1) + Len(l2)
      /\ \A i \in 1..Len(l1) : list[i] = l1[i]
  BY ConcatProperties, LenProperties
<1>. HIDE DEF list
<1>2. n \in 0..Len(list) /\ n + 1 \in 1..Len(l1) /\ \A i \in 1..n : i \in 1..Len(l1)
  BY <1>1
<1>3. BeforeRefusal(list) = n
  BY <1>1, <1>2, BeforeRefusalIs
<1>4. SubSeq(list, 1, n) = SubSeq(l1, 1, n)
  <2>1. \A i \in 1..n : list[i] = l1[i]
    BY <1>1, <1>2
  <2>. QED  BY <2>1
<1>. QED  BY <1>3, <1>4 DEF list

\* No refusal among the bids: all of them are applied, and the asks up to theirs.
LEMMA RefusedInSecond ==
  ASSUME NEW l1 \in Seq(Mention), NEW l2 \in Seq(Mention), NEW n \in 0..Len(l2),
         \A i \in 1..Len(l1) : Parses(l1[i].level),
         \A i \in 1..n : Parses(l2[i].level), n < Len(l2) => ~Parses(l2[n + 1].level)
  PROVE  SubSeq(l1 \o l2, 1, BeforeRefusal(l1 \o l2)) = l1 \o SubSeq(l2, 1, n)
<1>. DEFINE list == l1 \o l2
            k == Len(l1) + n
            part == SubSeq(l2, 1, n)
            whole == l1 \o part
<1>1. /\ list \in Seq(Mention) /\ Len(l1) \in Nat /\ Len(l2) \in Nat
      /\ Len(list) = Len(l1) + Len(l2)
      /\ \A i \in 1..Len(l1) : list[i] = l1[i]
      /\ \A i \in (Len(l1) + 1)..(Len(l1) + Len(l2)) : list[i] = l2[i - Len(l1)]
  BY ConcatProperties, LenProperties
<1>. HIDE DEF list
<1>2. k \in 0..Len(list)
  BY <1>1
<1>3. ASSUME NEW i \in 1..k PROVE Parses(list[i].level)
  <2>1. CASE i <= Len(l1)
    BY <1>1, <2>1
  <2>2. CASE ~(i <= Len(l1))
    <3>1. i - Len(l1) \in 1..n /\ i \in (Len(l1) + 1)..(Len(l1) + Len(l2))
      BY <1>1, <2>2
    <3>. QED  BY <1>1, <3>1
  <2>. QED  BY <2>1, <2>2
<1>4. ASSUME k < Len(list) PROVE ~Parses(list[k + 1].level)
  <2>1. /\ n < Len(l2) /\ (k + 1) - Len(l1) = n + 1
        /\ k + 1 \in (Len(l1) + 1)..(Len(l1) + Len(l2))
    BY <1>1, <1>4
  <2>. QED  BY <1>1, <2>1
<1>. HIDE DEF k
<1>5. BeforeRefusal(list) = k
  BY <1>1, <1>2, <1>3, <1>4, BeforeRefusalIs
<1>6. /\ part \in Seq(Mention) /\ Len(part) = n
      /\ \A i \in 1..n : part[i] = l2[i]
  <2>1. n \in 0..Len(l2) /\ \A i \in 1..n : i \in 1..Len(l2)
    BY <1>1
  <2>2. part = [i \in 1..n |-> l2[i]]
    OBVIOUS
  <2>3. \A i \in 1..n : l2[i] \in Mention
    BY <2>1, ElementOfSeq
  <2>. HIDE DEF part
  <2>. QED  BY <2>1, <2>2, <2>3
<1>. HIDE DEF part
<1>7. /\ whole \in Seq(Mention) /\ Len(whole) = Len(l1) + n
      /\ \A i \in 1..Len(l1) : whole[i] = l1[i]
      /\ \A i \in (Len(l1) + 1)..(Len(l1) + n) : whole[i] = part[i - Len(l1)]
  BY <1>1, <1>6, ConcatProperties
<1>. HIDE DEF whole
<1>8. ASSUME NEW i \in 1..k PROVE list[i] = whole[i]
  <2>1. CASE i <= Len(l1)
    BY <1>1, <1>7, <2>1
  <2>2. CASE ~(i <= Len(l1))
    <3>1. /\ i - Len(l1) \in 1..n /\ i \in (Len(l1) + 1)..(Len(l1) + Len(l2))
          /\ i \in (Len(l1) + 1)..(Len(l1) + n)
      BY <1>1, <2>2 DEF k
    <3>. QED  BY <1>1, <1>6, <1>7, <3>1
  <2>. QED  BY <2>1, <2>2
<1>9. SubSeq(list, 1, k) = whole
  <2>1. SubSeq(list, 1, k) = [i \in 1..k |-> list[i]]
    <3>1. k \in Int
      BY <1>1 DEF k
    <3>. QED  BY <3>1
  <2>2. whole = [i \in 1..k |-> whole[i]]
    BY <1>7, LenProperties DEF k
  <2>3. [i \in 1..k |-> list[i]] = [i \in 1..k |-> whole[i]]
    BY <1>8
  <2>. QED  BY <2>1, <2>2, <2>3, Zenon
<1>. QED  BY <1>5, <1>9 DEF list, whole, part

\* What a delta with a bad bid applies (apply_delta).
LEMMA AppliedOfBids ==
  ASSUME NEW bids \in Seq(Level), NEW asks \in Seq(Level), NEW n,
         Prefix(bids, n), n < Len(bids),
         NEW message, message.bids = bids, message.asks = asks
  PROVE  AppliedBy(message) = Upto("bids", bids, n)
<1>. DEFINE l1 == OnSide("bids", bids)
            l2 == OnSide("asks", asks)
<1>1. /\ l1 \in Seq(Mention) /\ Len(l1) = Len(bids)
      /\ \A i \in 1..Len(bids) : l1[i].level = bids[i]
      /\ l2 \in Seq(Mention)
  BY OnSideProperties
<1>2. /\ Len(bids) \in Nat /\ n \in Nat /\ n + 1 \in 1..Len(bids)
      /\ \A i \in 1..n : i \in 1..Len(bids)
  BY LenProperties DEF Prefix
<1>. HIDE DEF l1, l2
<1>3. \A i \in 1..n : Parses(l1[i].level)
  BY <1>1, <1>2 DEF Prefix
<1>4. ~Parses(l1[n + 1].level)
  BY <1>1, <1>2 DEF Prefix
<1>5. n < Len(l1)
  BY <1>1
<1>6. SubSeq(l1 \o l2, 1, BeforeRefusal(l1 \o l2)) = SubSeq(l1, 1, n)
  BY <1>1, <1>2, <1>3, <1>4, <1>5, RefusedInFirst
<1>7. Mentions(message) = l1 \o l2
  BY Zenon DEF Mentions, l1, l2
<1>8. Upto("bids", bids, n) = SubSeq(l1, 1, n)
  BY UptoIsPart DEF Prefix, l1
<1>. QED  BY <1>6, <1>7, <1>8, Zenon DEF AppliedBy

\* What a delta with no bad bid applies (apply_delta).
LEMMA AppliedOfBoth ==
  ASSUME NEW bids \in Seq(Level), NEW asks \in Seq(Level), NEW n,
         \A i \in 1..Len(bids) : Parses(bids[i]), Prefix(asks, n),
         NEW message, message.bids = bids, message.asks = asks
  PROVE  AppliedBy(message) = OnSide("bids", bids) \o Upto("asks", asks, n)
<1>. DEFINE l1 == OnSide("bids", bids)
            l2 == OnSide("asks", asks)
<1>1. /\ l1 \in Seq(Mention) /\ Len(l1) = Len(bids)
      /\ \A i \in 1..Len(bids) : l1[i].level = bids[i]
      /\ l2 \in Seq(Mention) /\ Len(l2) = Len(asks)
      /\ \A i \in 1..Len(asks) : l2[i].level = asks[i]
  BY OnSideProperties
<1>2. /\ Len(asks) \in Nat /\ n \in Nat /\ n \in 0..Len(asks)
      /\ \A i \in 1..n : i \in 1..Len(asks)
      /\ n < Len(asks) => n + 1 \in 1..Len(asks)
  BY LenProperties DEF Prefix
<1>. HIDE DEF l1, l2
<1>3. \A i \in 1..Len(l1) : Parses(l1[i].level)
  BY <1>1
<1>4. \A i \in 1..n : Parses(l2[i].level)
  BY <1>1, <1>2 DEF Prefix
<1>5. n < Len(l2) => ~Parses(l2[n + 1].level)
  BY <1>1, <1>2 DEF Prefix
<1>6. n \in 0..Len(l2)
  BY <1>1, <1>2
<1>7. SubSeq(l1 \o l2, 1, BeforeRefusal(l1 \o l2)) = l1 \o SubSeq(l2, 1, n)
  BY <1>1, <1>3, <1>4, <1>5, <1>6, RefusedInSecond
<1>8. Mentions(message) = l1 \o l2
  BY Zenon DEF Mentions, l1, l2
<1>9. Upto("asks", asks, n) = SubSeq(l2, 1, n)
  BY <1>2, UptoIsPart DEF l2
<1>. QED  BY <1>7, <1>8, <1>9, Zenon DEF AppliedBy, l1
-----------------------------------------------------------------------------
\* The book b has the two sides that the mentions describe.
Agrees(b, list) ==
  /\ b = [bids |-> b.bids, asks |-> b.asks]
  /\ list \in Seq(Mention)
  /\ IsSide(b.bids) /\ Reflects(b.bids, "bids", list)
  /\ IsSide(b.asks) /\ Reflects(b.asks, "asks", list)

\* The inductive invariant.
Inv == usable \in BOOLEAN /\ Agrees(book, mentions)

\* Two sides that agree with the mentions make a book that does.
LEMMA AgreesOfSides ==
  ASSUME NEW f, NEW g, NEW list \in Seq(Mention), IsSide(f), IsSide(g),
         Reflects(f, "bids", list), Reflects(g, "asks", list)
  PROVE  Agrees([bids |-> f, asks |-> g], list)
<1>1. [bids |-> f, asks |-> g].bids = f /\ [bids |-> f, asks |-> g].asks = g
  OBVIOUS
<1>. QED  BY <1>1, Zenon DEF Agrees

\* A snapshot that is read gives the book its own mentions mean (from_snapshot).
LEMMA SnapshotAgrees ==
  ASSUME NEW bids \in Seq(Level), NEW asks \in Seq(Level),
         NEW message, message.bids = bids, message.asks = asks
  PROVE  FromSnapshot(message).ok =>
           Agrees(FromSnapshot(message).value, Mentions(message))
<1>. SUFFICES ASSUME FromSnapshot(message).ok
              PROVE  Agrees(FromSnapshot(message).value, Mentions(message))
  OBVIOUS
<1>. DEFINE l1 == OnSide("bids", bids)
            l2 == OnSide("asks", asks)
<1>1. FromSnapshot(message) =
        IF SideFromSnapshot(bids).ok /\ SideFromSnapshot(asks).ok
        THEN Ok([bids |-> SideFromSnapshot(bids).value, asks |-> SideFromSnapshot(asks).value])
        ELSE Err(EmptyBook)
  BY Zenon DEF FromSnapshot
<1>2. SideFromSnapshot(bids).ok /\ SideFromSnapshot(asks).ok
  BY <1>1 DEF Err
<1>3. PICK f : SideFromSnapshot(bids) = Ok(f) /\ IsSide(f) /\ Reflects(f, "bids", l1)
  BY <1>2, SideFromSnapshotReflects
<1>4. PICK g : SideFromSnapshot(asks) = Ok(g) /\ IsSide(g) /\ Reflects(g, "asks", l2)
  BY <1>2, SideFromSnapshotReflects
<1>5. SideFromSnapshot(bids).value = f /\ SideFromSnapshot(asks).value = g
  BY <1>3, <1>4 DEF Ok
<1>6. FromSnapshot(message).value = [bids |-> f, asks |-> g]
  BY <1>1, <1>2, <1>5 DEF Ok
<1>7. /\ l1 \in Seq(Mention) /\ l2 \in Seq(Mention)
      /\ \A i \in 1..Len(l1) : l1[i].side # "asks"
      /\ \A i \in 1..Len(l2) : l2[i].side # "bids"
  BY OnSideProperties
<1>8. Mentions(message) = l1 \o l2
  BY Zenon DEF Mentions
<1>. HIDE DEF l1, l2
<1>9. l1 \o l2 \in Seq(Mention)
  BY <1>7, ConcatProperties
<1>10. Reflects(f, "bids", l1 \o l2)
  BY <1>3, <1>7, OtherSideAfter
<1>11. Reflects(g, "asks", l1 \o l2)
  BY <1>4, <1>7, OtherSideBefore
<1>12. Agrees([bids |-> f, asks |-> g], l1 \o l2)
  BY <1>3, <1>4, <1>9, <1>10, <1>11, AgreesOfSides
<1>. QED  BY <1>6, <1>8, <1>12, Zenon

\* A delta, successful or not, gives the book that the mentions so far and those
\* it applied mean (apply_delta).
LEMMA DeltaAgrees ==
  ASSUME NEW b, NEW list, Agrees(b, list),
         NEW bids \in Seq(Level), NEW asks \in Seq(Level),
         NEW message, message.bids = bids, message.asks = asks
  PROVE  /\ Agrees(ApplyDelta(b, message).value, list \o AppliedBy(message))
         /\ ApplyDelta(b, message).ok \in BOOLEAN
<1>0. /\ b = [bids |-> b.bids, asks |-> b.asks]
      /\ list \in Seq(Mention)
      /\ IsSide(b.bids) /\ Reflects(b.bids, "bids", list)
      /\ IsSide(b.asks) /\ Reflects(b.asks, "asks", list)
  BY Zenon DEF Agrees
<1>1. PICK n : Prefix(bids, n)
  BY PrefixExists
<1>2. PICK k : Prefix(asks, k)
  BY PrefixExists
<1>3. /\ n \in 0..Len(bids) /\ \A i \in 1..n : Parses(bids[i])
      /\ n < Len(bids) => ~Parses(bids[n + 1])
      /\ k \in 0..Len(asks) /\ \A i \in 1..k : Parses(asks[i])
      /\ k < Len(asks) => ~Parses(asks[k + 1])
      /\ Len(bids) \in Nat /\ Len(asks) \in Nat
  BY <1>1, <1>2, LenProperties DEF Prefix
<1>. DEFINE u1 == Upto("bids", bids, n)
            u2 == Upto("asks", asks, k)
<1>4. PICK f : /\ ApplySide(b.bids, bids) = IF n = Len(bids) THEN Ok(f) ELSE Err(f)
               /\ IsSide(f) /\ Reflects(f, "bids", list \o u1)
  BY <1>0, <1>3, ApplySideReflects
<1>5. /\ ApplySide(b.bids, bids).value = f
      /\ n = Len(bids) => ApplySide(b.bids, bids).ok
      /\ n # Len(bids) => ~ApplySide(b.bids, bids).ok
  <2>1. /\ Ok(f).value = f /\ Ok(f).ok = TRUE
        /\ Err(f).value = f /\ Err(f).ok = FALSE
    BY DEF Ok, Err
  <2>. QED  BY <1>4, <2>1
<1>6. ApplyDelta(b, message) =
        IF ApplySide(b.bids, bids).ok
        THEN [ApplySide(b.asks, asks) EXCEPT
                !.value = [bids |-> ApplySide(b.bids, bids).value,
                           asks |-> ApplySide(b.asks, asks).value]]
        ELSE Err([b EXCEPT !.bids = ApplySide(b.bids, bids).value])
  BY Zenon DEF ApplyDelta
<1>7. /\ u1 \in Seq(Mention) /\ u2 \in Seq(Mention)
      /\ \A i \in 1..Len(u1) : u1[i].side # "asks"
      /\ \A i \in 1..Len(u2) : u2[i].side # "bids"
  <2>1. u1 \in Seq(Mention) /\ u2 \in Seq(Mention)
    BY <1>3, UptoProperties
  <2>2. \A i \in 1..Len(u1) : u1[i].side = "bids"
    BY <1>3, <2>1 DEF Upto
  <2>3. \A i \in 1..Len(u2) : u2[i].side = "asks"
    BY <1>3, <2>1 DEF Upto
  <2>. QED  BY <2>1, <2>2, <2>3
<1>. HIDE DEF u1, u2
<1>8. list \o u1 \in Seq(Mention)
  BY <1>0, <1>7, ConcatProperties
<1>9. CASE n < Len(bids)
  <2>1. ApplyDelta(b, message) = Err([b EXCEPT !.bids = f])
    <3>1. ~ApplySide(b.bids, bids).ok
      BY <1>3, <1>5, <1>9
    <3>. QED  BY <1>5, <1>6, <3>1, Zenon
  <2>2. [b EXCEPT !.bids = f] = [bids |-> f, asks |-> b.asks]
    BY <1>0
  <2>3. Reflects(b.asks, "asks", list \o u1)
    BY <1>0, <1>7, OtherSideAfter
  <2>4. Agrees([bids |-> f, asks |-> b.asks], list \o u1)
    BY <1>0, <1>4, <1>8, <2>3, AgreesOfSides
  <2>5. AppliedBy(message) = u1
    BY <1>1, <1>9, AppliedOfBids DEF u1
  <2>6. ApplyDelta(b, message).value = [bids |-> f, asks |-> b.asks]
        /\ ApplyDelta(b, message).ok = FALSE
    BY <2>1, <2>2 DEF Err
  <2>. QED  BY <2>4, <2>5, <2>6, Zenon
<1>10. CASE n = Len(bids)
  <2>1. u1 = OnSide("bids", bids)
    BY <1>10, UptoProperties DEF u1
  <2>2. Reflects(b.asks, "asks", list \o u1)
    BY <1>0, <1>7, OtherSideAfter
  <2>3. PICK g : /\ ApplySide(b.asks, asks) = IF k = Len(asks) THEN Ok(g) ELSE Err(g)
                 /\ IsSide(g) /\ Reflects(g, "asks", (list \o u1) \o u2)
    BY <1>0, <1>3, <1>8, <2>2, ApplySideReflects DEF u2
  <2>4. /\ (list \o u1) \o u2 = list \o (u1 \o u2)
        /\ (list \o u1) \o u2 \in Seq(Mention)
    BY <1>0, <1>7, <1>8, ConcatAssociative, ConcatProperties
  <2>5. Reflects(f, "bids", (list \o u1) \o u2)
    <3>. DEFINE w == list \o u1
    <3>1. w \in Seq(Mention) /\ Reflects(f, "bids", w)
      BY <1>4, <1>8 DEF u1
    <3>. HIDE DEF w
    <3>2. Reflects(f, "bids", w \o u2)
      BY <1>7, <3>1, OtherSideAfter
    <3>. QED  BY <3>2 DEF w
  <2>6. Agrees([bids |-> f, asks |-> g], list \o (u1 \o u2))
    <3>. DEFINE w == (list \o u1) \o u2
    <3>1. w \in Seq(Mention) /\ Reflects(f, "bids", w) /\ Reflects(g, "asks", w)
      BY <2>3, <2>4, <2>5
    <3>2. w = list \o (u1 \o u2)
      BY <2>4
    <3>. HIDE DEF w
    <3>3. Agrees([bids |-> f, asks |-> g], w)
      BY <1>4, <2>3, <3>1, AgreesOfSides
    <3>. QED  BY <3>2, <3>3, Zenon
  <2>7. AppliedBy(message) = u1 \o u2
    <3>1. \A i \in 1..Len(bids) : Parses(bids[i])
      BY <1>3, <1>10
    <3>2. AppliedBy(message) = OnSide("bids", bids) \o Upto("asks", asks, k)
      BY <1>2, <3>1, AppliedOfBoth
    <3>. QED  BY <2>1, <3>2, Zenon DEF u2
  <2>8. ApplyDelta(b, message).value = [bids |-> f, asks |-> g]
        /\ ApplyDelta(b, message).ok = (k = Len(asks))
    <3>1. ApplySide(b.asks, asks) = [ok |-> (k = Len(asks)), value |-> g]
      BY <2>3 DEF Ok, Err
    <3>2. ApplyDelta(b, message) =
            [ApplySide(b.asks, asks) EXCEPT
                !.value = [bids |-> f, asks |-> ApplySide(b.asks, asks).value]]
      BY <1>5, <1>6, <1>10
    <3>. QED  BY <3>1, <3>2
  <2>. QED  BY <2>6, <2>7, <2>8, Zenon
<1>. QED  BY <1>3, <1>9, <1>10

\* The sides hold, at every moment, what the last mentions of the prices say,
\* whether the calls succeeded or stopped half-way (from_snapshot, apply_delta).
THEOREM Invariance == Spec => []Inv
<1>1. Init => Inv
  <2>. SUFFICES ASSUME Init PROVE Inv
    OBVIOUS
  <2>1. EmptyBook = [bids |-> EmptySide, asks |-> EmptySide] /\ <<>> \in Seq(Mention)
    BY EmptySeq DEF EmptyBook
  <2>2. Agrees(EmptyBook, <<>>)
    BY <2>1, EmptySideReflects, AgreesOfSides
  <2>. QED  BY <2>2 DEF Init, Inv
<1>2. Inv /\ [Next]_vars => Inv'
  <2>. SUFFICES ASSUME Inv, [Next]_vars PROVE Inv'
    OBVIOUS
  <2>1. ASSUME NEW message \in Message
        PROVE  message.bids \in Seq(Level) /\ message.asks \in Seq(Level)
    BY <2>1, MessageAssumption DEF Levels
  <2>2. ASSUME NEW message \in Message, NewSnapshot(message) PROVE Inv'
    <3>1. /\ usable' = FromSnapshot(message).ok
          /\ IF FromSnapshot(message).ok
             THEN book' = FromSnapshot(message).value /\ mentions' = Mentions(message)
             ELSE UNCHANGED <<book, mentions>>
      BY <2>2, Zenon DEF NewSnapshot
    <3>2. FromSnapshot(message).ok \in BOOLEAN
      BY DEF FromSnapshot, Ok, Err
    <3>3. FromSnapshot(message).ok => Agrees(FromSnapshot(message).value, Mentions(message))
      BY <2>1, SnapshotAgrees
    <3>. QED  BY <3>1, <3>2, <3>3 DEF Inv
  <2>3. ASSUME NEW message \in Message, Delta(message) PROVE Inv'
    <3>1. /\ usable' = ApplyDelta(book, message).ok
          /\ book' = ApplyDelta(book, message).value
          /\ mentions' = mentions \o AppliedBy(message)
      BY <2>3, Zenon DEF Delta
    <3>2. /\ Agrees(ApplyDelta(book, message).value, mentions \o AppliedBy(message))
          /\ ApplyDelta(book, message).ok \in BOOLEAN
      BY <2>1, DeltaAgrees DEF Inv
    <3>. QED  BY <3>1, <3>2 DEF Inv
  <2>4. CASE UNCHANGED vars
    BY <2>4 DEF Inv, vars
  <2>. QED  BY <2>2, <2>3, <2>4 DEF Next
<1>. QED  BY <1>1, <1>2, PTL DEF Spec

\* A set of indices that is not empty has a greatest.
LEMMA GreatestOf ==
  ASSUME NEW n \in Nat, NEW M, M \subseteq 1..n, M # {}
  PROVE  \E i \in M : \A j \in M : j <= i
<1>. DEFINE T == {n - i : i \in M}
<1>1. T \subseteq Nat /\ T # {}
  <2>1. \A i \in M : n - i \in Nat
    OBVIOUS
  <2>2. PICK i : i \in M
    OBVIOUS
  <2>. QED  BY <2>1, <2>2
<1>2. PICK m \in T : \A k \in T : m <= k
  BY <1>1, LeastNat
<1>3. PICK i \in M : m = n - i
  BY <1>2
<1>4. ASSUME NEW j \in M PROVE j <= i
  <2>1. n - j \in T
    OBVIOUS
  <2>2. n - i <= n - j
    BY <1>2, <1>3, <2>1
  <2>. QED  BY <2>2
<1>. QED  BY <1>4

\* Mentioned and LastMention, of any list of mentions.
MentionedIn(list, s, p) == {i \in DOMAIN list : list[i].side = s /\ Price(list[i].level) = p}
LastOf(list, s, p) ==
  list[CHOOSE i \in MentionedIn(list, s, p) : \A j \in MentionedIn(list, s, p) : j <= i].level

\* The mention with the greatest index is the last one, and there is one.
LEMMA LastOfIs ==
  ASSUME NEW list \in Seq(Mention), NEW s, NEW p
  PROVE  /\ \A i : IsLast(i, list, s, p) => /\ i \in DOMAIN list
                                            /\ i \in MentionedIn(list, s, p)
                                            /\ LastOf(list, s, p) = list[i].level
         /\ MentionedIn(list, s, p) # {} => \E i : IsLast(i, list, s, p)
<1>. DEFINE M == MentionedIn(list, s, p)
<1>1. Len(list) \in Nat /\ DOMAIN list = 1..Len(list)
  BY LenProperties
<1>2. \A i : i \in M <=> i \in 1..Len(list) /\ Names(list[i], s, p)
  BY <1>1 DEF MentionedIn, Names
<1>. HIDE DEF M
<1>3. ASSUME NEW i \in M, \A j \in M : j <= i PROVE IsLast(i, list, s, p)
  <2>1. ASSUME NEW j \in (i + 1)..Len(list) PROVE ~Names(list[j], s, p)
    <3>1. i \in 1..Len(list) /\ j \in 1..Len(list) /\ ~(j <= i)
      BY <1>1, <1>2
    <3>. QED  BY <1>2, <1>3, <3>1
  <2>. QED  BY <1>2, <2>1 DEF IsLast
<1>4. ASSUME NEW i, IsLast(i, list, s, p) PROVE i \in M /\ \A j \in M : j <= i
  <2>1. i \in M /\ i \in 1..Len(list)
    BY <1>2, <1>4 DEF IsLast
  <2>2. ASSUME NEW j \in M, ~(j <= i) PROVE FALSE
    <3>1. j \in (i + 1)..Len(list)
      BY <1>1, <1>2, <2>1, <2>2
    <3>. QED  BY <1>2, <1>4, <3>1 DEF IsLast
  <2>. QED  BY <2>1, <2>2
<1>5. ASSUME NEW i, IsLast(i, list, s, p) PROVE LastOf(list, s, p) = list[i].level
  <2>1. ASSUME NEW k \in M, \A j \in M : j <= k PROVE k = i
    <3>1. i <= k /\ k <= i /\ k \in 1..Len(list) /\ i \in 1..Len(list)
      BY <1>2, <1>4, <1>5, <2>1
    <3>. QED  BY <3>1
  <2>2. i = CHOOSE k \in M : \A j \in M : j <= k
    BY <1>4, <1>5, <2>1
  <2>. QED  BY <2>2 DEF LastOf, M
<1>6. ASSUME M # {} PROVE \E i : IsLast(i, list, s, p)
  <2>1. PICK i \in M : \A j \in M : j <= i
    BY <1>1, <1>2, <1>6, GreatestOf
  <2>. QED  BY <1>3, <2>1
<1>. QED  BY <1>1, <1>2, <1>4, <1>5, <1>6 DEF M

\* What LastMentionWins says of one side.
LastDecides(f, s, list) ==
  /\ DOMAIN f = {p \in {Price(list[i].level) : i \in DOMAIN list} :
                   /\ MentionedIn(list, s, p) # {}
                   /\ ~ZeroSize(LastOf(list, s, p))}
  /\ \A p \in DOMAIN f : f[p] = LastOf(list, s, p)

\* A side that reflects the mentions is the side LastMentionWins describes.
LEMMA LastWins ==
  ASSUME NEW f, NEW s, NEW list \in Seq(Mention), IsSide(f), Reflects(f, s, list)
  PROVE  LastDecides(f, s, list)
<1>1. \A p : /\ \A i : IsLast(i, list, s, p) => /\ i \in DOMAIN list
                                                /\ i \in MentionedIn(list, s, p)
                                                /\ LastOf(list, s, p) = list[i].level
             /\ MentionedIn(list, s, p) # {} => \E i : IsLast(i, list, s, p)
  BY LastOfIs
<1>2. ASSUME NEW p \in DOMAIN f
      PROVE  /\ p \in {Price(list[i].level) : i \in DOMAIN list}
             /\ MentionedIn(list, s, p) # {}
             /\ ~ZeroSize(LastOf(list, s, p))
             /\ f[p] = LastOf(list, s, p)
  <2>1. PICK i \in 1..Len(list) : IsLast(i, list, s, p) /\ f[p] = list[i].level
    BY DEF Reflects
  <2>2. i \in DOMAIN list /\ i \in MentionedIn(list, s, p) /\ LastOf(list, s, p) = f[p]
    BY <1>1, <2>1
  <2>3. Price(list[i].level) = p
    BY <2>1 DEF IsLast, Names
  <2>4. ~ZeroSize(f[p])
    BY DEF IsSide
  <2>. QED  BY <2>2, <2>3, <2>4
<1>3. ASSUME NEW p, MentionedIn(list, s, p) # {}, ~ZeroSize(LastOf(list, s, p))
      PROVE  p \in DOMAIN f
  <2>1. PICK i : IsLast(i, list, s, p)
    BY <1>1, <1>3
  <2>2. i \in 1..Len(list) /\ ~ZeroSize(list[i].level)
    BY <1>1, <1>3, <2>1 DEF IsLast
  <2>. QED  BY <2>1, <2>2 DEF Reflects
<1>. QED  BY <1>2, <1>3 DEF LastDecides

\* A side maps the values of prices to levels, at every moment (book.rs).
THEOREM TypeCorrect == Spec => []TypeOK
<1>1. Inv => TypeOK
  <2>. SUFFICES ASSUME Inv PROVE TypeOK
    OBVIOUS
  <2>1. usable \in BOOLEAN /\ mentions \in Seq(Mention) /\ IsSide(book.bids) /\ IsSide(book.asks)
    BY DEF Inv, Agrees
  <2>2. \A i \in DOMAIN mentions : mentions[i].level \in Level
    <3>1. \A m \in Mention : m.level \in Level
      BY DEF Mention
    <3>2. \A i \in DOMAIN mentions : mentions[i] \in Mention
      BY <2>1, LenProperties, ElementOfSeq
    <3>. QED  BY <3>1, <3>2
  <2>3. \A side \in {"bids", "asks"} : \A p \in DOMAIN book[side] : book[side][p] \in Level
    BY <2>1 DEF IsSide
  <2>. QED  BY <2>1, <2>2, <2>3 DEF TypeOK
<1>. QED  BY <1>1, Invariance, PTL

\* The last message that named a price value decides it, also after a call that
\* failed half-way (apply_delta, apply_side, side_from_snapshot).
THEOREM LastMessageWins == Spec => []LastMentionWins
<1>1. Inv => LastMentionWins
  <2>. SUFFICES ASSUME Inv, NEW s \in {"bids", "asks"}
                PROVE  /\ DOMAIN book[s] =
                            {p \in PricesNamed : /\ Mentioned(s, p) # {}
                                                 /\ ~ZeroSize(LastMention(s, p))}
                       /\ \A p \in DOMAIN book[s] : book[s][p] = LastMention(s, p)
    BY Zenon DEF LastMentionWins
  <2>1. /\ mentions \in Seq(Mention) /\ IsSide(book[s]) /\ Reflects(book[s], s, mentions)
    BY DEF Inv, Agrees
  <2>2. \A p : Mentioned(s, p) = MentionedIn(mentions, s, p)
    BY Zenon DEF Mentioned, MentionedIn
  <2>3. \A p : LastMention(s, p) = LastOf(mentions, s, p)
    BY Zenon DEF LastMention, LastOf, Mentioned, MentionedIn
  <2>4. LastDecides(book[s], s, mentions)
    <3>1. /\ mentions \in Seq(Mention)
          /\ IsSide(book[s]) /\ Reflects(book[s], s, mentions)
      BY <2>1
    <3>2. \A f : \A list \in Seq(Mention) :
            IsSide(f) /\ Reflects(f, s, list) => LastDecides(f, s, list)
      BY LastWins
    <3>. QED  BY <3>1, <3>2, Zenon
  <2>. QED  BY <2>2, <2>3, <2>4 DEF LastDecides, PricesNamed
<1>. QED  BY <1>1, Invariance, PTL
-----------------------------------------------------------------------------
\* A finite set of prices that is not empty has a highest price.
LEMMA GreatestPrice ==
  ASSUME NEW prices, prices \subseteq Int, IsFiniteSet(prices), prices # {}
  PROVE  \E m \in prices : \A p \in prices : p <= m
<1>. DEFINE HasGreatest(P) == P # {} => \E m \in P : \A p \in P : p <= m
            N == {n \in Nat : \A P \in SUBSET Int :
                    IsFiniteSet(P) /\ Cardinality(P) = n => HasGreatest(P)}
<1>1. 0 \in N
  BY FS_EmptySet
<1>2. ASSUME NEW n \in Nat, n \in N PROVE n + 1 \in N
  <2>. SUFFICES ASSUME NEW P \in SUBSET Int, IsFiniteSet(P), Cardinality(P) = n + 1, P # {}
                PROVE  \E m \in P : \A p \in P : p <= m
    OBVIOUS
  <2>1. PICK x : x \in P
    OBVIOUS
  <2>. DEFINE Q == P \ {x}
  <2>2. Q \in SUBSET Int /\ IsFiniteSet(Q) /\ Cardinality(Q) = n
    <3>1. IsFiniteSet(Q) /\ Cardinality(Q) = Cardinality(P) - 1
      BY <2>1, FS_RemoveElement
    <3>2. (n + 1) - 1 = n
      OBVIOUS
    <3>3. Q \in SUBSET Int
      BY Zenon
    <3>. QED  BY <3>1, <3>2, <3>3
  <2>3. HasGreatest(Q)
    BY <1>2, <2>2
  <2>4. CASE Q = {}
    BY <2>1, <2>4
  <2>5. CASE Q # {}
    <3>1. PICK m \in Q : \A p \in Q : p <= m
      BY <2>3, <2>5
    <3>2. /\ m \in P /\ m \in Int /\ x \in Int
          /\ \A p \in P : p = x \/ p <= m
      BY <2>1, <3>1
    <3>3. CASE x <= m
      BY <3>2, <3>3
    <3>4. CASE m <= x
      <4>1. \A p \in P : p <= x
        BY <2>1, <3>2, <3>4
      <4>. QED  BY <2>1, <4>1
    <3>. QED  BY <3>2, <3>3, <3>4
  <2>. QED  BY <2>4, <2>5
<1>. HIDE DEF N
<1>3. Nat \subseteq N
  BY <1>1, <1>2, NatSetInduction
<1>4. Cardinality(prices) \in Nat
  BY FS_CardinalityType
<1>. QED  BY <1>3, <1>4 DEF N

\* Strictly sorted lists of prices.
Rising(list) == \A i, j \in DOMAIN list : i < j => list[i] < list[j]
Falling(list) == \A i, j \in DOMAIN list : i < j => list[i] > list[j]

\* A finite set of prices has a list from the lowest price up: what Ascending
\* chooses exists (Book::asks).
LEMMA RisingExists ==
  ASSUME NEW prices, prices \subseteq Int, IsFiniteSet(prices)
  PROVE  \E list \in [1..Cardinality(prices) -> prices] : Rising(list)
<1>. DEFINE Sorted(P, n) == \E list \in [1..n -> P] : Rising(list)
            N == {n \in Nat : \A P \in SUBSET Int :
                    IsFiniteSet(P) /\ Cardinality(P) = n => Sorted(P, n)}
<1>1. 0 \in N
  <2>1. \A P : <<>> \in [1..0 -> P] /\ Rising(<<>>)
    BY DEF Rising
  <2>. QED  BY <2>1
<1>2. ASSUME NEW n \in Nat, n \in N PROVE n + 1 \in N
  <2>. SUFFICES ASSUME NEW P \in SUBSET Int, IsFiniteSet(P), Cardinality(P) = n + 1
                PROVE  Sorted(P, n + 1)
    OBVIOUS
  <2>1. P # {}
    BY FS_EmptySet
  <2>2. PICK m \in P : \A p \in P : p <= m
    BY <2>1, GreatestPrice
  <2>3. IsFiniteSet(P \ {m}) /\ Cardinality(P \ {m}) = n
    BY FS_RemoveElement
  <2>4. PICK list \in [1..n -> P \ {m}] : Rising(list)
    BY <1>2, <2>3
  <2>. DEFINE longer == [i \in 1..(n + 1) |-> IF i = n + 1 THEN m ELSE list[i]]
  <2>5. \A i \in 1..n : list[i] \in P /\ list[i] < m /\ longer[i] = list[i]
    <3>. SUFFICES ASSUME NEW i \in 1..n
                  PROVE  list[i] \in P /\ list[i] < m /\ longer[i] = list[i]
      OBVIOUS
    <3>1. list[i] \in P /\ list[i] # m /\ list[i] <= m
      BY <2>2, <2>4
    <3>2. list[i] \in Int /\ m \in Int
      BY <3>1
    <3>3. longer[i] = list[i]
      OBVIOUS
    <3>. QED  BY <3>1, <3>2, <3>3
  <2>6. longer[n + 1] = m
    OBVIOUS
  <2>7. \A i \in 1..(n + 1) : i \in 1..n \/ i = n + 1
    OBVIOUS
  <2>8. DOMAIN longer = 1..(n + 1) /\ longer = [i \in 1..(n + 1) |-> longer[i]]
    OBVIOUS
  <2>. HIDE DEF longer
  <2>9. longer \in [1..(n + 1) -> P]
    BY <2>5, <2>6, <2>7, <2>8
  <2>10. ASSUME NEW i \in 1..(n + 1), NEW j \in 1..(n + 1), i < j
         PROVE  longer[i] < longer[j]
    <3>1. i \in 1..n
      BY <2>10
    <3>2. CASE j = n + 1
      BY <2>5, <2>6, <3>1, <3>2
    <3>3. CASE j \in 1..n
      <4>1. list[i] < list[j]
        BY <2>4, <2>10, <3>1, <3>3 DEF Rising
      <4>. QED  BY <2>5, <3>1, <3>3, <4>1
    <3>. QED  BY <2>7, <3>2, <3>3
  <2>11. Rising(longer)
    BY <2>8, <2>10 DEF Rising
  <2>. QED  BY <2>9, <2>11
<1>. HIDE DEF N
<1>3. Nat \subseteq N
  BY <1>1, <1>2, NatSetInduction
<1>4. Cardinality(prices) \in Nat
  BY FS_CardinalityType
<1>. QED  BY <1>3, <1>4 DEF N

\* The same from the highest price down: what Descending chooses exists
\* (Book::bids).
LEMMA FallingExists ==
  ASSUME NEW prices, prices \subseteq Int, IsFiniteSet(prices)
  PROVE  \E list \in [1..Cardinality(prices) -> prices] : Falling(list)
<1>1. PICK n \in Nat : n = Cardinality(prices)
  BY FS_CardinalityType
<1>2. PICK list \in [1..n -> prices] : Rising(list)
  BY <1>1, RisingExists
<1>. DEFINE back == [i \in 1..n |-> list[n + 1 - i]]
<1>3. \A i \in 1..n : n + 1 - i \in 1..n
  OBVIOUS
<1>4. back \in [1..n -> prices]
  BY <1>2, <1>3
<1>5. ASSUME NEW i \in 1..n, NEW j \in 1..n, i < j PROVE back[i] > back[j]
  <2>1. n + 1 - i \in 1..n /\ n + 1 - j \in 1..n /\ n + 1 - j < n + 1 - i
    BY <1>5
  <2>2. list[n + 1 - j] < list[n + 1 - i]
    BY <1>2, <2>1 DEF Rising
  <2>3. list[n + 1 - j] \in Int /\ list[n + 1 - i] \in Int
    BY <1>2, <2>1
  <2>. QED  BY <2>2, <2>3
<1>6. Falling(back)
  BY <1>5 DEF Falling
<1>. HIDE DEF back
<1>. QED  BY <1>1, <1>4, <1>6

\* A strictly sorted list as long as the set leaves no price out.
LEMMA SortedCoversAll ==
  ASSUME NEW prices, prices \subseteq Int, IsFiniteSet(prices),
         NEW list \in [1..Cardinality(prices) -> prices], Rising(list) \/ Falling(list)
  PROVE  \A p \in prices : \E i \in 1..Cardinality(prices) : list[i] = p
<1>1. PICK n \in Nat : n = Cardinality(prices)
  BY FS_CardinalityType
<1>2. list \in [1..n -> prices]
  BY <1>1
<1>3. ASSUME NEW i \in 1..n, NEW j \in 1..n, list[i] = list[j] PROVE i = j
  <2>1. list[i] \in Int /\ list[j] \in Int
    BY <1>2
  <2>2. ~(list[i] < list[j]) /\ ~(list[j] < list[i])
        /\ ~(list[i] > list[j]) /\ ~(list[j] > list[i])
    BY <1>3, <2>1
  <2>3. DOMAIN list = 1..n
    BY <1>2
  <2>4. ~(i < j) /\ ~(j < i)
    BY <2>2, <2>3, Zenon DEF Rising, Falling
  <2>. QED  BY <2>4
<1>4. list \in Injection(1..n, prices)
  BY <1>2, <1>3 DEF Injection, IsInjective
<1>5. Cardinality(1..n) = n
  BY FS_Interval
<1>6. list \in Surjection(1..n, prices)
  BY <1>1, <1>4, <1>5, FS_Injection
<1>. QED  BY <1>1, <1>6 DEF Surjection

\* What Ascending and Descending are (the iteration of a BTreeMap).
LEMMA SortedPrices ==
  ASSUME NEW prices, prices \subseteq Int, IsFiniteSet(prices)
  PROVE  /\ Ascending(prices) \in [1..Cardinality(prices) -> prices]
         /\ Rising(Ascending(prices))
         /\ Descending(prices) \in [1..Cardinality(prices) -> prices]
         /\ Falling(Descending(prices))
<1>1. Ascending(prices) \in [1..Cardinality(prices) -> prices] /\ Rising(Ascending(prices))
  BY RisingExists, Zenon DEF Ascending, Rising
<1>2. Descending(prices) \in [1..Cardinality(prices) -> prices] /\ Falling(Descending(prices))
  BY FallingExists, Zenon DEF Descending, Falling
<1>. QED  BY <1>1, <1>2

\* The part of side f that the first n prices of the list make up.
First(f, list, n) == [p \in {list[j] : j \in 1..n} |-> f[p]]

\* One more level of the list that is read back.
LEMMA FirstSteps ==
  ASSUME NEW f, NEW list, NEW n \in Nat, NEW level, Price(level) = list[n + 1],
         level = f[list[n + 1]]
  PROVE  Insert(First(f, list, n), level) = First(f, list, n + 1)
<1>. DEFINE P(k) == {list[j] : j \in 1..k}
            g == First(f, list, n)
<1>1. P(n + 1) = P(n) \cup {list[n + 1]}
  <2>1. 1..(n + 1) = 1..n \cup {n + 1}
    OBVIOUS
  <2>. QED  BY <2>1
<1>. HIDE DEF P
<1>2. DOMAIN g = P(n) /\ \A p \in P(n) : g[p] = f[p]
  BY DEF First, P
<1>3. First(f, list, n + 1) = [p \in P(n + 1) |-> f[p]]
  BY DEF First, P
<1>. HIDE DEF g
<1>4. Insert(g, level) = [p \in P(n + 1) |-> IF p = list[n + 1] THEN level ELSE g[p]]
  BY <1>1, <1>2 DEF Insert
<1>5. \A p \in P(n + 1) : (IF p = list[n + 1] THEN level ELSE g[p]) = f[p]
  BY <1>1, <1>2
<1>. QED  BY <1>3, <1>4, <1>5 DEF g

\* Reading the levels of a side, in any order that leaves none out, gives the
\* side (side_from_snapshot).
LEMMA ReadBack ==
  ASSUME NEW f, IsSide(f), NEW n \in Nat, NEW list \in [1..n -> DOMAIN f],
         \A p \in DOMAIN f : \E i \in 1..n : list[i] = p
  PROVE  SideFromSnapshot(LevelsAt(f, list)) = Ok(f)
<1>. DEFINE levels == LevelsAt(f, list)
<1>1. \A i \in 1..n : /\ levels[i] = f[list[i]]
                      /\ Parses(levels[i]) /\ Price(levels[i]) = list[i]
                      /\ ~ZeroSize(levels[i])
  <2>. SUFFICES ASSUME NEW i \in 1..n
                PROVE  /\ levels[i] = f[list[i]]
                       /\ Parses(levels[i]) /\ Price(levels[i]) = list[i]
                       /\ ~ZeroSize(levels[i])
    OBVIOUS
  <2>1. list[i] \in DOMAIN f /\ levels[i] = f[list[i]]
    BY DEF LevelsAt
  <2>2. Parses(f[list[i]]) /\ Price(f[list[i]]) = list[i] /\ ~ZeroSize(f[list[i]])
    BY <2>1 DEF IsSide
  <2>. QED  BY <2>1, <2>2, Zenon
<1>2. Len(levels) = n
  <2>1. levels = [i \in 1..n |-> f[list[i]]]
    BY DEF LevelsAt
  <2>2. levels \in Seq({f[p] : p \in DOMAIN f})
    BY <2>1
  <2>. QED  BY <2>1, <2>2, LenProperties
<1>. HIDE DEF levels
<1>3. PICK after : /\ after[0] = Ok(EmptySide)
                   /\ \A i \in 0..(n - 1) :
                        after[i + 1] = SnapshotLevel(after[i], levels[i + 1])
                   /\ SideFromSnapshot(levels) = after[n]
  BY <1>2, SideFromSnapshotSteps
<1>. DEFINE S == {i \in Nat : i <= n => after[i] = Ok(First(f, list, i))}
<1>4. 0 \in S
  <2>1. First(f, list, 0) = EmptySide
    <3>1. {list[j] : j \in 1..0} = {}
      OBVIOUS
    <3>2. First(f, list, 0) = [p \in {} |-> f[p]]
      BY <3>1, Zenon DEF First
    <3>. QED  BY <3>2 DEF EmptySide
  <2>. QED  BY <1>3, <2>1
<1>5. ASSUME NEW i \in Nat, i \in S PROVE i + 1 \in S
  <2>. SUFFICES ASSUME i + 1 <= n PROVE after[i + 1] = Ok(First(f, list, i + 1))
    OBVIOUS
  <2>1. i \in 0..(n - 1) /\ i + 1 \in 1..n /\ after[i] = Ok(First(f, list, i))
    BY <1>5
  <2>2. after[i + 1] = SnapshotLevel(Ok(First(f, list, i)), levels[i + 1])
    BY <1>3, <2>1
  <2>3. after[i + 1] = Ok(Insert(First(f, list, i), levels[i + 1]))
    <3>1. /\ Ok(First(f, list, i)).ok /\ Ok(First(f, list, i)).value = First(f, list, i)
      BY DEF Ok
    <3>. QED  BY <1>1, <2>1, <2>2, <3>1, Zenon DEF SnapshotLevel
  <2>4. Insert(First(f, list, i), levels[i + 1]) = First(f, list, i + 1)
    BY <1>1, <2>1, FirstSteps
  <2>. QED  BY <2>3, <2>4, Zenon
<1>. HIDE DEF S
<1>6. n \in S
  BY <1>4, <1>5, NatSetInduction
<1>7. First(f, list, n) = f
  <2>1. {list[j] : j \in 1..n} = DOMAIN f
    OBVIOUS
  <2>2. First(f, list, n) = [p \in DOMAIN f |-> f[p]]
    BY <2>1, Zenon DEF First
  <2>. QED  BY <2>2, Zenon DEF IsSide
<1>. QED  BY <1>3, <1>6, <1>7 DEF S, levels

\* Both orders are read back (Book::bids, Book::asks, side_from_snapshot).
LEMMA SidesOfBook ==
  ASSUME NEW f, IsSide(f)
  PROVE  /\ SideFromSnapshot(LevelsAt(f, Ascending(DOMAIN f))) = Ok(f)
         /\ SideFromSnapshot(LevelsAt(f, Descending(DOMAIN f))) = Ok(f)
<1>1. PICK prices : prices = DOMAIN f
  OBVIOUS
<1>2. prices \subseteq Int /\ IsFiniteSet(prices)
  BY <1>1 DEF IsSide
<1>3. PICK n \in Nat : n = Cardinality(prices)
  BY <1>2, FS_CardinalityType
<1>4. PICK up : up = Ascending(prices)
  OBVIOUS
<1>5. PICK down : down = Descending(prices)
  OBVIOUS
<1>6. /\ up \in [1..n -> prices] /\ Rising(up)
      /\ down \in [1..n -> prices] /\ Falling(down)
  BY <1>2, <1>3, <1>4, <1>5, SortedPrices
<1>0. \A list \in [1..Cardinality(prices) -> prices] : Rising(list) \/ Falling(list)
        => \A p \in prices : \E i \in 1..Cardinality(prices) : list[i] = p
  BY <1>2, SortedCoversAll
<1>7. \A p \in prices : \E i \in 1..n : up[i] = p
  BY <1>0, <1>3, <1>6, Zenon
<1>8. \A p \in prices : \E i \in 1..n : down[i] = p
  BY <1>0, <1>3, <1>6, Zenon
<1>9. SideFromSnapshot(LevelsAt(f, up)) = Ok(f)
  BY <1>1, <1>6, <1>7, ReadBack
<1>10. SideFromSnapshot(LevelsAt(f, down)) = Ok(f)
  BY <1>1, <1>6, <1>8, ReadBack
<1>. QED  BY <1>1, <1>4, <1>5, <1>9, <1>10

\* A book whose levels are written down is read back as it was.
LEMMA RoundTrip ==
  ASSUME NEW b, b = [bids |-> b.bids, asks |-> b.asks], IsSide(b.bids), IsSide(b.asks)
  PROVE  FromSnapshot(LevelsOf(b)) = Ok(b)
<1>1. /\ LevelsOf(b).bids = LevelsAt(b.bids, Descending(DOMAIN b.bids))
      /\ LevelsOf(b).asks = LevelsAt(b.asks, Ascending(DOMAIN b.asks))
  BY DEF LevelsOf, Bids, Asks
<1>2. /\ SideFromSnapshot(LevelsOf(b).bids) = Ok(b.bids)
      /\ SideFromSnapshot(LevelsOf(b).asks) = Ok(b.asks)
  <2>1. PICK f, g : f = b.bids /\ g = b.asks
    OBVIOUS
  <2>2. IsSide(f) /\ IsSide(g)
    BY <2>1
  <2>3. /\ SideFromSnapshot(LevelsAt(f, Descending(DOMAIN f))) = Ok(f)
        /\ SideFromSnapshot(LevelsAt(g, Ascending(DOMAIN g))) = Ok(g)
    BY <2>2, SidesOfBook
  <2>. QED  BY <1>1, <2>1, <2>3
<1>3. \A v : Ok(v).ok = TRUE /\ Ok(v).value = v
  BY DEF Ok
<1>4. FromSnapshot(LevelsOf(b)) = Ok([bids |-> b.bids, asks |-> b.asks])
  BY <1>2, <1>3, Zenon DEF FromSnapshot
<1>. QED  BY <1>4

\* What from_snapshot reads, written down again, is read as the same book.
LEMMA ReadAgain ==
  ASSUME NEW levels \in Levels, FromSnapshot(levels).ok
  PROVE  FromSnapshot(LevelsOf(FromSnapshot(levels).value)) = Ok(FromSnapshot(levels).value)
<1>1. PICK bids \in Seq(Level), asks \in Seq(Level) : levels.bids = bids /\ levels.asks = asks
  BY DEF Levels
<1>2. Agrees(FromSnapshot(levels).value, Mentions(levels))
  BY <1>1, SnapshotAgrees
<1>3. PICK b : b = FromSnapshot(levels).value
  OBVIOUS
<1>4. b = [bids |-> b.bids, asks |-> b.asks] /\ IsSide(b.bids) /\ IsSide(b.asks)
  BY <1>2, <1>3, Zenon DEF Agrees
<1>5. FromSnapshot(LevelsOf(b)) = Ok(b)
  BY <1>4, RoundTrip
<1>. QED  BY <1>3, <1>5

\* The levels of a side in the order of their prices.
LEMMA BestFirst ==
  ASSUME NEW f, IsSide(f)
  PROVE  /\ LET levels == LevelsAt(f, Ascending(DOMAIN f)) IN
            \A i, j \in DOMAIN levels : i < j => Price(levels[i]) < Price(levels[j])
         /\ LET levels == LevelsAt(f, Descending(DOMAIN f)) IN
            \A i, j \in DOMAIN levels : i < j => Price(levels[i]) > Price(levels[j])
<1>1. PICK prices : prices = DOMAIN f
  OBVIOUS
<1>2. prices \subseteq Int /\ IsFiniteSet(prices) /\ \A p \in prices : Price(f[p]) = p
  BY <1>1 DEF IsSide
<1>3. ASSUME NEW list \in [1..Cardinality(prices) -> prices]
      PROVE  /\ DOMAIN LevelsAt(f, list) = DOMAIN list
             /\ \A i \in DOMAIN list : Price(LevelsAt(f, list)[i]) = list[i]
  BY <1>2 DEF LevelsAt
<1>4. PICK up \in [1..Cardinality(prices) -> prices] : up = Ascending(prices) /\ Rising(up)
  BY <1>2, SortedPrices
<1>5. PICK down \in [1..Cardinality(prices) -> prices] :
        down = Descending(prices) /\ Falling(down)
  BY <1>2, SortedPrices
<1>6. \A i, j \in DOMAIN LevelsAt(f, up) :
        i < j => Price(LevelsAt(f, up)[i]) < Price(LevelsAt(f, up)[j])
  <2>1. DOMAIN LevelsAt(f, up) = DOMAIN up
        /\ \A i \in DOMAIN up : Price(LevelsAt(f, up)[i]) = up[i]
    BY <1>3, <1>4
  <2>2. \A i, j \in DOMAIN up : i < j => up[i] < up[j]
    BY <1>4, Zenon DEF Rising
  <2>. QED  BY <2>1, <2>2, Zenon
<1>7. \A i, j \in DOMAIN LevelsAt(f, down) :
        i < j => Price(LevelsAt(f, down)[i]) > Price(LevelsAt(f, down)[j])
  <2>1. DOMAIN LevelsAt(f, down) = DOMAIN down
        /\ \A i \in DOMAIN down : Price(LevelsAt(f, down)[i]) = down[i]
    BY <1>3
  <2>. QED  BY <1>5, <2>1, Zenon DEF Falling
<1>. QED  BY <1>1, <1>4, <1>5, <1>6, <1>7, Zenon

\* A snapshot row written from the book is a valid snapshot of that book
\* (book_snapshot_row, from_snapshot).
THEOREM SnapshotRowsFaithful == Spec => []SnapshotRowFaithful
<1>1. Inv => SnapshotRowFaithful
  BY RoundTrip DEF Inv, Agrees, SnapshotRowFaithful
<1>. QED  BY <1>1, Invariance, PTL

\* bids() goes down from the best bid and asks() up from the best ask, with no
\* price value twice (Book::bids, Book::asks).
THEOREM SidesAreSorted == Spec => []BestPriceFirst
<1>1. Inv => BestPriceFirst
  <2>. SUFFICES ASSUME Inv PROVE BestPriceFirst
    OBVIOUS
  <2>1. PICK f, g : f = book.bids /\ g = book.asks
    OBVIOUS
  <2>2. IsSide(f) /\ IsSide(g)
    BY <2>1 DEF Inv, Agrees
  <2>3. PICK bids, asks : /\ bids = LevelsAt(f, Descending(DOMAIN f))
                          /\ asks = LevelsAt(g, Ascending(DOMAIN g))
    OBVIOUS
  <2>4. /\ \A i, j \in DOMAIN bids : i < j => Price(bids[i]) > Price(bids[j])
        /\ \A i, j \in DOMAIN asks : i < j => Price(asks[i]) < Price(asks[j])
    BY <2>2, <2>3, BestFirst
  <2>5. LevelsOf(book) = [bids |-> bids, asks |-> asks]
    BY <2>1, <2>3 DEF LevelsOf, Bids, Asks
  <2>6. LevelsOf(book).bids = bids /\ LevelsOf(book).asks = asks
    BY <2>5
  <2>. QED  BY <2>4, <2>6, Zenon DEF BestPriceFirst
<1>. QED  BY <1>1, Invariance, PTL
=============================================================================
