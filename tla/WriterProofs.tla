---------------------------- MODULE WriterProofs ----------------------------
(***************************************************************************)
(* Proofs about Writer for every set of rows, every assignment of keys and *)
(* every capacity of the channel and the batch.                            *)
(*                                                                         *)
(* What was sent splits into what the flushes are done with and what is in *)
(* flight (Accounted): the first part is in the tables, row by row for the *)
(* books and key by key for the trades.  Everything else follows from it.  *)
(*                                                                         *)
(* The induction theorems of the library take a predicate, which none of   *)
(* the provers can instantiate.  Its theorem on minimal elements takes     *)
(* sets only: induction is stated here for the set of the numbers, or of   *)
(* the sequences, that have a property, and so is within their reach.      *)
(***************************************************************************)
EXTENDS Writer, SequenceTheorems, WellFoundedInduction, TLAPS

AnyRow == BookRow \cup TradeRow

\* The types that the sequences and histories have, beyond TypeOK.
Typed ==
  /\ channel \in Seq(AnyRow) /\ batch \in Seq(AnyRow)
  /\ writing \in Seq(AnyRow) /\ sent \in Seq(AnyRow)
  /\ orderbook \in Seq(BookRow)
  /\ trades \subseteq TradeRow
  /\ phase \in {"idle", "trades", "orderbook"}
  /\ before \in Nat
  /\ (phase = "idle") = (writing = <<>>)
  /\ phase # "idle" => batch = <<>>
  /\ Len(channel) <= ChannelCapacity
  /\ Len(batch) < BatchCapacity

\* The keys of the trades among some rows are in the table.
TradesStored(rows) == \A row \in Contents(rows) \cap TradeRow : KeyOf[row] \in Keys(trades)

\* The rows that this process sent and that no longer are in flight.
Flushed == SubSeq(sent, 1, Len(sent) - Len(InFlight))

\* What was sent is what the flushes are done with and then what is in flight:
\* of the former every book row is in the table and every trade has its key
\* there, and between the two inserts of a flush its trades are there already.
Accounted ==
  /\ sent = Flushed \o InFlight
  /\ Len(orderbook) = before + Len(OfKind(BookRow, Flushed))
  /\ TradesStored(Flushed)
  /\ phase = "orderbook" => TradesStored(writing)

IInv == Typed /\ TradesUnique /\ Accounted
-----------------------------------------------------------------------------
(* Induction, and the rows of one kind *)

\* A set of naturals that is not empty has a least element.
LEMMA LeastNat ==
  ASSUME NEW T, T \subseteq Nat, T # {}
  PROVE  \E n \in T : \A m \in T : n <= m
<1>. DEFINE R == OpToRel(<, Nat)
<1>1. R = {p \in Nat \X Nat : p[1] < p[2]}
  BY Zenon DEF OpToRel
<1>2. IsWellFoundedOn(R, Nat)
  BY NatLessThanWellFounded, Zenon
<1>. HIDE DEF R
<1>3. PICK n \in T : \A m \in T : ~ (<<m, n>> \in R)
  BY <1>2, WFMin, Zenon
<1>4. ASSUME NEW m \in T PROVE n <= m
  <2>1. ~ (<<m, n>> \in R) /\ m \in Nat /\ n \in Nat
    BY <1>3
  <2>. QED  BY <2>1, <1>1
<1>. QED
  BY <1>3, <1>4

\* Induction over the naturals, for the set S of those that have a property.
LEMMA NatSetInduction ==
  ASSUME NEW S, 0 \in S, \A n \in Nat : n \in S => n + 1 \in S
  PROVE  Nat \subseteq S
<1>. SUFFICES ASSUME Nat \ S # {} PROVE FALSE
  OBVIOUS
<1>1. PICK n \in Nat \ S : \A m \in Nat \ S : n <= m
  BY LeastNat
<1>2. n # 0 /\ n - 1 \in Nat /\ (n - 1) + 1 = n /\ ~ (n <= n - 1)
  OBVIOUS
<1>. QED
  BY <1>1, <1>2

\* f is what the recursive function of OfKind computes for the first n rows.
IsAmong(f, kind, rows, n) ==
  f = [i \in 0..n |-> IF i = 0 THEN <<>>
                      ELSE IF rows[i] \in kind THEN Append(f[i - 1], rows[i]) ELSE f[i - 1]]

\* The recursion of OfKind defines a function.
LEMMA AmongExists ==
  ASSUME NEW kind, NEW rows, NEW n \in Nat
  PROVE  \E f : IsAmong(f, kind, rows, n)
<1>. DEFINE S == {m \in Nat : \E f : IsAmong(f, kind, rows, m)}
<1>1. 0 \in S
  <2>1. IsAmong([i \in 0..0 |-> <<>>], kind, rows, 0)
    BY DEF IsAmong
  <2>. QED  BY <2>1
<1>2. ASSUME NEW m \in Nat, m \in S PROVE m + 1 \in S
  <2>1. PICK f : IsAmong(f, kind, rows, m)
    BY <1>2
  <2>. DEFINE g == [i \in 0..(m + 1) |-> IF i <= m THEN f[i]
                      ELSE IF rows[i] \in kind THEN Append(f[i - 1], rows[i]) ELSE f[i - 1]]
  <2>2. \A i \in 0..m : f[i] = IF i = 0 THEN <<>>
              ELSE IF rows[i] \in kind THEN Append(f[i - 1], rows[i]) ELSE f[i - 1]
    BY <2>1 DEF IsAmong
  <2>3. \A i \in 0..(m + 1) : g[i] = IF i = 0 THEN <<>>
              ELSE IF rows[i] \in kind THEN Append(g[i - 1], rows[i]) ELSE g[i - 1]
    BY <2>2
  <2>4. IsAmong(g, kind, rows, m + 1)
    BY <2>3 DEF IsAmong
  <2>. QED  BY <2>4
<1>. HIDE DEF S
<1>3. Nat \subseteq S
  BY <1>1, <1>2, NatSetInduction
<1>. QED BY <1>3 DEF S

\* What that function is at 0, and at each further row.
LEMMA AmongStep ==
  ASSUME NEW kind, NEW rows, NEW n \in Nat, NEW f, IsAmong(f, kind, rows, n)
  PROVE  /\ f[0] = <<>>
         /\ \A i \in 0..(n - 1) :
              f[i + 1] = IF rows[i + 1] \in kind THEN Append(f[i], rows[i + 1]) ELSE f[i]
<1>1. \A i \in 0..n : f[i] = IF i = 0 THEN <<>>
              ELSE IF rows[i] \in kind THEN Append(f[i - 1], rows[i]) ELSE f[i - 1]
  BY DEF IsAmong
<1>2. f[0] = <<>>
  <2>1. 0 \in 0..n
    OBVIOUS
  <2>. QED  BY <1>1, <2>1, Zenon
<1>3. ASSUME NEW i \in 0..(n - 1)
      PROVE  f[i + 1] = IF rows[i + 1] \in kind THEN Append(f[i], rows[i + 1]) ELSE f[i]
  <2>1. i + 1 \in 0..n /\ i + 1 # 0 /\ (i + 1) - 1 = i
    OBVIOUS
  <2>. QED  BY <1>1, <2>1
<1>. QED  BY <1>2, <1>3

\* The function at k depends on the first k rows only.
LEMMA AmongAgree ==
  ASSUME NEW kind, NEW rows1, NEW rows2, NEW n1 \in Nat, NEW n2 \in Nat, NEW f, NEW g,
         IsAmong(f, kind, rows1, n1), IsAmong(g, kind, rows2, n2),
         NEW k \in Nat, k <= n1, k <= n2, \A i \in 1..k : rows1[i] = rows2[i]
  PROVE  f[k] = g[k]
<1>. DEFINE S == {i \in Nat : i <= k => f[i] = g[i]}
<1>1. /\ f[0] = <<>>
      /\ \A i \in 0..(n1 - 1) :
           f[i + 1] = IF rows1[i + 1] \in kind THEN Append(f[i], rows1[i + 1]) ELSE f[i]
  BY AmongStep
<1>2. /\ g[0] = <<>>
      /\ \A i \in 0..(n2 - 1) :
           g[i + 1] = IF rows2[i + 1] \in kind THEN Append(g[i], rows2[i + 1]) ELSE g[i]
  BY AmongStep
<1>3. 0 \in S
  BY <1>1, <1>2
<1>4. ASSUME NEW i \in Nat, i \in S PROVE i + 1 \in S
  <2>. SUFFICES ASSUME i + 1 <= k PROVE f[i + 1] = g[i + 1]
    OBVIOUS
  <2>1. f[i] = g[i] /\ i \in 0..(n1 - 1) /\ i \in 0..(n2 - 1) /\ rows1[i + 1] = rows2[i + 1]
    BY <1>4
  <2>. QED  BY <1>1, <1>2, <2>1
<1>. HIDE DEF S
<1>5. k \in S
  BY <1>3, <1>4, NatSetInduction
<1>. QED  BY <1>5 DEF S

\* One more row at the end adds itself, or nothing.
LEMMA AmongOneMore ==
  ASSUME NEW kind, NEW rows, NEW more, NEW n \in Nat, NEW f, NEW g,
         IsAmong(f, kind, rows, n), IsAmong(g, kind, more, n + 1),
         \A i \in 1..n : rows[i] = more[i]
  PROVE  g[n + 1] = IF more[n + 1] \in kind THEN Append(f[n], more[n + 1]) ELSE f[n]
<1>1. n + 1 \in Nat /\ n <= n /\ n <= n + 1 /\ n \in 0..((n + 1) - 1)
  OBVIOUS
<1>2. f[n] = g[n]
  BY <1>1, AmongAgree
<1>3. g[n + 1] = IF more[n + 1] \in kind THEN Append(g[n], more[n + 1]) ELSE g[n]
  BY <1>1, AmongStep
<1>. QED  BY <1>2, <1>3

\* OfKind is the function of its recursion, at the length of the rows.
LEMMA OfKindIsAmong ==
  ASSUME NEW kind, NEW rows, Len(rows) \in Nat
  PROVE  \E f : IsAmong(f, kind, rows, Len(rows)) /\ OfKind(kind, rows) = f[Len(rows)]
<1>. DEFINE f == CHOOSE f : IsAmong(f, kind, rows, Len(rows))
<1>1. IsAmong(f, kind, rows, Len(rows))
  BY AmongExists
<1>2. OfKind(kind, rows) = f[Len(rows)]
  BY Zenon DEF OfKind, IsAmong
<1>. QED  BY <1>1, <1>2

\* An empty batch has no rows for any table (flush).
LEMMA OfKindEmpty == \A kind : OfKind(kind, <<>>) = <<>>
<1>. TAKE kind
<1>1. PICK f : IsAmong(f, kind, <<>>, Len(<<>>)) /\ OfKind(kind, <<>>) = f[Len(<<>>)]
  BY OfKindIsAmong
<1>. QED  BY <1>1 DEF IsAmong

\* A row that comes last is the last of its kind (flush goes through the batch in
\* its order).
LEMMA OfKindAppend ==
  ASSUME NEW kind, NEW S, NEW rows \in Seq(S), NEW row \in S
  PROVE  OfKind(kind, Append(rows, row)) =
           IF row \in kind THEN Append(OfKind(kind, rows), row) ELSE OfKind(kind, rows)
<1>. DEFINE n == Len(rows)
            more == Append(rows, row)
<1>1. /\ n \in Nat /\ Len(more) = n + 1 /\ more[n + 1] = row
      /\ \A i \in 1..n : more[i] = rows[i]
  BY AppendProperties, LenProperties
<1>. HIDE DEF n, more
<1>2. PICK f : IsAmong(f, kind, rows, n) /\ OfKind(kind, rows) = f[n]
  BY <1>1, OfKindIsAmong DEF n
<1>3. PICK g : IsAmong(g, kind, more, n + 1) /\ OfKind(kind, more) = g[n + 1]
  BY <1>1, OfKindIsAmong
<1>4. n \in Nat /\ IsAmong(f, kind, rows, n) /\ IsAmong(g, kind, more, n + 1)
      /\ \A i \in 1..n : rows[i] = more[i]
  BY <1>1, <1>2, <1>3
<1>5. g[n + 1] = IF more[n + 1] \in kind THEN Append(f[n], more[n + 1]) ELSE f[n]
  BY <1>4, AmongOneMore
<1>. QED  BY <1>1, <1>2, <1>3, <1>5 DEF more

\* Induction over sequences, for the set T of those that have a property.
LEMMA SeqSetInduction ==
  ASSUME NEW S, NEW T, <<>> \in T,
         \A s \in Seq(S) : \A e \in S : s \in T => Append(s, e) \in T
  PROVE  Seq(S) \subseteq T
<1>. DEFINE N == {n \in Nat : \A s \in Seq(S) : Len(s) = n => s \in T}
<1>1. 0 \in N
  BY EmptySeq, LenProperties
<1>2. ASSUME NEW n \in Nat, n \in N PROVE n + 1 \in N
  <2>. SUFFICES ASSUME NEW s \in Seq(S), Len(s) = n + 1 PROVE s \in T
    OBVIOUS
  <2>1. PICK t \in Seq(S), e \in S : s = Append(t, e)
    BY SequenceEmptyOrAppend, EmptySeq
  <2>2. Len(t) = n
    BY <2>1, AppendProperties, LenProperties
  <2>. QED  BY <1>2, <2>1, <2>2
<1>. HIDE DEF N
<1>3. Nat \subseteq N
  BY <1>1, <1>2, NatSetInduction
<1>. QED  BY <1>3, LenProperties DEF N

\* A row appended to the second part is appended to the whole.
LEMMA ConcatAppend ==
  ASSUME NEW S, NEW s \in Seq(S), NEW t \in Seq(S), NEW e \in S
  PROVE  s \o Append(t, e) = Append(s \o t, e)
<1>1. <<e>> \in Seq(S) /\ s \o t \in Seq(S)
  BY ConcatProperties
<1>2. Append(t, e) = t \o <<e>> /\ Append(s \o t, e) = (s \o t) \o <<e>>
  BY <1>1, AppendIsConcat
<1>3. (s \o t) \o <<e>> = s \o (t \o <<e>>)
  BY <1>1, ConcatAssociative
<1>. QED  BY <1>2, <1>3

\* The rows of one kind are of that kind.
LEMMA OfKindType ==
  ASSUME NEW kind, NEW S, NEW rows \in Seq(S)
  PROVE  OfKind(kind, rows) \in Seq(kind \cap S)
<1>. DEFINE T == {s \in Seq(S) : OfKind(kind, s) \in Seq(kind \cap S)}
<1>1. <<>> \in T
  BY OfKindEmpty, EmptySeq
<1>2. ASSUME NEW s \in Seq(S), NEW e \in S, s \in T
      PROVE  Append(s, e) \in T
  <2>1. Append(s, e) \in Seq(S)
    BY AppendProperties
  <2>2. OfKind(kind, Append(s, e)) =
           IF e \in kind THEN Append(OfKind(kind, s), e) ELSE OfKind(kind, s)
    BY OfKindAppend
  <2>3. e \in kind => Append(OfKind(kind, s), e) \in Seq(kind \cap S)
    BY <1>2, AppendProperties
  <2>. QED  BY <1>2, <2>1, <2>2, <2>3
<1>. HIDE DEF T
<1>3. Seq(S) \subseteq T
  BY <1>1, <1>2, SeqSetInduction
<1>. QED  BY <1>3 DEF T

\* Two batches in a row give the rows of a table in the same order as one batch
\* of both (flush).
LEMMA OfKindConcat ==
  ASSUME NEW kind, NEW S, NEW s \in Seq(S), NEW t \in Seq(S)
  PROVE  OfKind(kind, s \o t) = OfKind(kind, s) \o OfKind(kind, t)
<1>. DEFINE T == {u \in Seq(S) : OfKind(kind, s \o u) = OfKind(kind, s) \o OfKind(kind, u)}
<1>0. OfKind(kind, s) \in Seq(kind \cap S)
  BY OfKindType
<1>1. <<>> \in T
  <2>1. s \o <<>> = s /\ OfKind(kind, s) \o <<>> = OfKind(kind, s)
    BY <1>0, ConcatEmptySeq
  <2>. QED  BY <2>1, OfKindEmpty, EmptySeq
<1>2. ASSUME NEW u \in Seq(S), NEW e \in S, u \in T
      PROVE  Append(u, e) \in T
  <2>1. Append(u, e) \in Seq(S) /\ s \o u \in Seq(S)
    BY AppendProperties, ConcatProperties
  <2>2. s \o Append(u, e) = Append(s \o u, e)
    BY ConcatAppend
  <2>3. \A v \in Seq(S) : OfKind(kind, Append(v, e)) =
           IF e \in kind THEN Append(OfKind(kind, v), e) ELSE OfKind(kind, v)
    BY OfKindAppend
  <2>5. OfKind(kind, u) \in Seq(kind \cap S)
    BY OfKindType
  <2>6. ASSUME e \in kind
        PROVE  OfKind(kind, s) \o Append(OfKind(kind, u), e)
                 = Append(OfKind(kind, s) \o OfKind(kind, u), e)
    <3>1. e \in kind \cap S
      BY <2>6
    <3>. QED  BY <1>0, <2>5, <3>1, ConcatAppend
  <2>. QED  BY <1>2, <2>1, <2>2, <2>3, <2>6
<1>. HIDE DEF T
<1>3. Seq(S) \subseteq T
  BY <1>1, <1>2, SeqSetInduction
<1>. QED  BY <1>3 DEF T

\* The contents of a sequence are its elements by index, all of its type.
LEMMA ContentsOfSeq ==
  ASSUME NEW S, NEW rows \in Seq(S)
  PROVE  /\ Contents(rows) = {rows[i] : i \in 1..Len(rows)}
         /\ Contents(rows) \subseteq S
<1>1. DOMAIN rows = 1..Len(rows)
  BY LenProperties
<1>2. \A i \in 1..Len(rows) : rows[i] \in S
  BY ElementOfSeq
<1>. QED  BY <1>1, <1>2 DEF Contents

\* The contents of two sequences in a row.
LEMMA ContentsConcat ==
  ASSUME NEW S, NEW s \in Seq(S), NEW t \in Seq(S)
  PROVE  Contents(s \o t) = Contents(s) \cup Contents(t)
<1>1. /\ s \o t \in Seq(S)
      /\ Len(s \o t) = Len(s) + Len(t)
      /\ \A i \in 1..(Len(s) + Len(t)) :
           (s \o t)[i] = IF i <= Len(s) THEN s[i] ELSE t[i - Len(s)]
  BY ConcatProperties
<1>2. /\ Contents(s \o t) = {(s \o t)[i] : i \in 1..(Len(s) + Len(t))}
      /\ Contents(s) = {s[i] : i \in 1..Len(s)}
      /\ Contents(t) = {t[i] : i \in 1..Len(t)}
  BY <1>1, ContentsOfSeq
<1>3. Len(s) \in Nat /\ Len(t) \in Nat
  BY LenProperties
<1>4. ASSUME NEW i \in 1..Len(t) PROVE t[i] = (s \o t)[i + Len(s)] /\ i + Len(s) \in 1..(Len(s) + Len(t))
  <2>1. i + Len(s) \in 1..(Len(s) + Len(t)) /\ ~(i + Len(s) <= Len(s)) /\ (i + Len(s)) - Len(s) = i
    BY <1>3
  <2>. QED  BY <1>1, <2>1
<1>5. ASSUME NEW i \in 1..Len(s) PROVE s[i] = (s \o t)[i] /\ i \in 1..(Len(s) + Len(t))
  <2>1. i \in 1..(Len(s) + Len(t)) /\ i <= Len(s)
    BY <1>3
  <2>. QED  BY <1>1, <2>1
<1>6. ASSUME NEW i \in 1..(Len(s) + Len(t))
      PROVE  (s \o t)[i] \in {s[j] : j \in 1..Len(s)} \cup {t[j] : j \in 1..Len(t)}
  <2>1. CASE i <= Len(s)
    BY <1>1, <1>3, <2>1
  <2>2. CASE ~(i <= Len(s))
    <3>1. i - Len(s) \in 1..Len(t)
      BY <1>3, <2>2
    <3>. QED  BY <1>1, <2>2, <3>1
  <2>. QED  BY <2>1, <2>2
<1>. QED  BY <1>2, <1>4, <1>5, <1>6

\* The contents of a sequence with one more element.
LEMMA ContentsAppend ==
  ASSUME NEW S, NEW s \in Seq(S), NEW e \in S
  PROVE  Contents(Append(s, e)) = Contents(s) \cup {e}
<1>1. Append(s, e) = s \o <<e>> /\ <<e>> \in Seq(S)
  BY AppendIsConcat
<1>2. Contents(<<e>>) = {e}
  BY DEF Contents
<1>3. Contents(s \o <<e>>) = Contents(s) \cup Contents(<<e>>)
  <2>1. \A t \in Seq(S) : Contents(s \o t) = Contents(s) \cup Contents(t)
    BY ContentsConcat
  <2>. QED  BY <1>1, <2>1, Zenon
<1>4. Contents(Append(s, e)) = Contents(s) \cup Contents(<<e>>)
  BY <1>1, <1>3, Zenon
<1>. QED  BY <1>2, <1>4, Zenon

\* An empty sequence has no contents.
LEMMA ContentsEmpty == Contents(<<>>) = {}
BY DEF Contents

\* No row of the kind is left out, and no other comes in (flush).
LEMMA OfKindContents ==
  ASSUME NEW kind, NEW S, NEW rows \in Seq(S)
  PROVE  Contents(OfKind(kind, rows)) = Contents(rows) \cap kind
<1>. DEFINE T == {s \in Seq(S) : Contents(OfKind(kind, s)) = Contents(s) \cap kind}
<1>1. <<>> \in T
  BY OfKindEmpty, EmptySeq, ContentsEmpty
<1>2. ASSUME NEW s \in Seq(S), NEW e \in S, s \in T
      PROVE  Append(s, e) \in T
  <2>1. Append(s, e) \in Seq(S) /\ Contents(Append(s, e)) = Contents(s) \cup {e}
    BY AppendProperties, ContentsAppend
  <2>2. OfKind(kind, Append(s, e)) =
           IF e \in kind THEN Append(OfKind(kind, s), e) ELSE OfKind(kind, s)
    BY OfKindAppend
  <2>3. OfKind(kind, s) \in Seq(kind \cap S)
    BY OfKindType
  <2>4. e \in kind => Contents(Append(OfKind(kind, s), e)) = Contents(OfKind(kind, s)) \cup {e}
    BY <2>3, ContentsAppend
  <2>. QED  BY <1>2, <2>1, <2>2, <2>4
<1>. HIDE DEF T
<1>3. Seq(S) \subseteq T
  BY <1>1, <1>2, SeqSetInduction
<1>. QED  BY <1>3 DEF T
-----------------------------------------------------------------------------
(* What the inserts do *)

\* The rows that an insert adds to trades are rows that it was given.
LEMMA InsertedIsTyped ==
  ASSUME NEW S, NEW table, table \subseteq S, NEW rows \in Seq(S)
  PROVE  Inserted(table, rows) \subseteq S
BY ElementOfSeq, LenProperties DEF Inserted

\* After an insert, no key is there twice (ON CONFLICT DO NOTHING).
LEMMA InsertedIsUnique ==
  ASSUME NEW S, NEW table, table \subseteq S, NEW rows \in Seq(S),
         \A row1, row2 \in table : KeyOf[row1] = KeyOf[row2] => row1 = row2
  PROVE  \A row1, row2 \in Inserted(table, rows) : KeyOf[row1] = KeyOf[row2] => row1 = row2
<1>. DEFINE First == {k \in DOMAIN rows :
                        /\ KeyOf[rows[k]] \notin Keys(table)
                        /\ \A j \in 1..(k - 1) : KeyOf[rows[j]] # KeyOf[rows[k]]}
<1>1. Inserted(table, rows) = table \cup {rows[i] : i \in First}
  BY DEF Inserted
<1>2. First \subseteq Nat /\ First \subseteq 1..Len(rows) /\ Len(rows) \in Nat
  BY LenProperties
<1>3. ASSUME NEW row \in table, NEW i \in First PROVE KeyOf[row] # KeyOf[rows[i]]
  BY DEF Keys
<1>4. ASSUME NEW i \in First, NEW j \in First, KeyOf[rows[i]] = KeyOf[rows[j]]
      PROVE  i = j
  <2>1. ~ (i < j)
    <3>. SUFFICES ASSUME i < j PROVE FALSE
      OBVIOUS
    <3>1. i \in 1..(j - 1)
      BY <1>2
    <3>. QED  BY <1>4, <3>1
  <2>2. ~ (j < i)
    <3>. SUFFICES ASSUME j < i PROVE FALSE
      OBVIOUS
    <3>1. j \in 1..(i - 1)
      BY <1>2
    <3>. QED  BY <1>4, <3>1
  <2>. QED  BY <1>2, <2>1, <2>2
<1>. HIDE DEF First
<1>. QED  BY <1>1, <1>3, <1>4

\* After an insert, the key of every row that it was given is there, and so is
\* what was there before.
LEMMA InsertedHasKeys ==
  ASSUME NEW S, NEW table, NEW rows \in Seq(S)
  PROVE  /\ Keys(table) \subseteq Keys(Inserted(table, rows))
         /\ \A row \in Contents(rows) : KeyOf[row] \in Keys(Inserted(table, rows))
<1>. DEFINE First == {k \in DOMAIN rows :
                        /\ KeyOf[rows[k]] \notin Keys(table)
                        /\ \A j \in 1..(k - 1) : KeyOf[rows[j]] # KeyOf[rows[k]]}
<1>1. Inserted(table, rows) = table \cup {rows[i] : i \in First}
  BY DEF Inserted
<1>2. Keys(table) \subseteq Keys(Inserted(table, rows))
  BY <1>1 DEF Keys
<1>3. ASSUME NEW row \in Contents(rows), KeyOf[row] \notin Keys(table)
      PROVE  KeyOf[row] \in Keys(Inserted(table, rows))
  <2>. DEFINE Same == {k \in DOMAIN rows : KeyOf[rows[k]] = KeyOf[row]}
  <2>1. DOMAIN rows = 1..Len(rows) /\ Len(rows) \in Nat
    BY LenProperties
  <2>2. Same \subseteq Nat /\ Same # {}
    BY <2>1 DEF Contents
  <2>3. PICK k \in Same : \A j \in Same : k <= j
    <3>. HIDE DEF Same
    <3>. QED  BY <2>2, LeastNat
  <2>4. ASSUME NEW j \in 1..(k - 1) PROVE KeyOf[rows[j]] # KeyOf[rows[k]]
    <3>1. j \in DOMAIN rows /\ ~ (k <= j)
      BY <2>1
    <3>. QED  BY <2>3, <3>1
  <2>5. k \in First
    BY <1>3, <2>3, <2>4
  <2>. QED  BY <1>1, <2>5 DEF Keys
<1>. QED  BY <1>2, <1>3
-----------------------------------------------------------------------------
(* What each action does to the rows in flight *)

\* A row that goes from the front of the channel to the end of the batch stays
\* where it is among all rows (recv, batch.push).
LEMMA MoveRow ==
  ASSUME NEW S, NEW s \in Seq(S), NEW t \in Seq(S), t # <<>>
  PROVE  /\ Append(s, Head(t)) \in Seq(S)
         /\ Tail(t) \in Seq(S)
         /\ Append(s, Head(t)) \o Tail(t) = s \o t
<1>1. Head(t) \in S /\ Tail(t) \in Seq(S) /\ Len(t) \in Nat \ {0}
  BY HeadTailProperties, EmptySeq
<1>2. Append(s, Head(t)) = s \o <<Head(t)>> /\ <<Head(t)>> \in Seq(S)
  BY <1>1, AppendIsConcat
<1>3. <<Head(t)>> \o Tail(t) = t
  <2>1. SubSeq(t, 1, Len(t)) = <<t[1]>> \o SubSeq(t, 2, Len(t))
    BY <1>1, SubSeqRecursiveFirst
  <2>2. SubSeq(t, 1, Len(t)) = t /\ SubSeq(t, 2, Len(t)) = Tail(t) /\ t[1] = Head(t)
    BY <1>1, SubSeqFull, TailIsSubSeq
  <2>. QED  BY <2>1, <2>2
<1>4. (s \o <<Head(t)>>) \o Tail(t) = s \o (<<Head(t)>> \o Tail(t))
  BY <1>1, <1>2, ConcatAssociative
<1>5. Append(s, Head(t)) \in Seq(S)
  BY <1>1, AppendProperties
<1>. QED  BY <1>1, <1>2, <1>3, <1>4, <1>5

\* The first part of two is what is left without the length of the second.
LEMMA FirstPart ==
  ASSUME NEW S, NEW d \in Seq(S), NEW t \in Seq(S)
  PROVE  SubSeq(d \o t, 1, Len(d \o t) - Len(t)) = d
<1>1. /\ d \o t \in Seq(S) /\ Len(d \o t) = Len(d) + Len(t)
      /\ \A i \in 1..(Len(d) + Len(t)) : (d \o t)[i] = IF i <= Len(d) THEN d[i] ELSE t[i - Len(d)]
      /\ Len(d) \in Nat /\ Len(t) \in Nat
  BY ConcatProperties, LenProperties
<1>2. Len(d \o t) - Len(t) = Len(d)
  BY <1>1
<1>3. \A i \in 1..Len(d) : (d \o t)[i] = d[i] /\ d[i] \in S
  <2>. SUFFICES ASSUME NEW i \in 1..Len(d) PROVE (d \o t)[i] = d[i] /\ d[i] \in S
    OBVIOUS
  <2>1. i \in 1..(Len(d) + Len(t)) /\ i <= Len(d)
    BY <1>1
  <2>. QED  BY <1>1, <2>1, ElementOfSeq
<1>4. /\ SubSeq(d \o t, 1, Len(d)) \in Seq(S)
      /\ Len(SubSeq(d \o t, 1, Len(d))) = Len(d)
      /\ \A i \in 1..Len(d) : SubSeq(d \o t, 1, Len(d))[i] = (d \o t)[i]
  <2>. DEFINE u == d \o t
  <2>1. \A i \in 1..Len(d) : u[i] \in S
    BY <1>3
  <2>. HIDE DEF u
  <2>2. /\ SubSeq(u, 1, Len(d)) \in Seq(S)
        /\ Len(SubSeq(u, 1, Len(d))) = IF 1 <= Len(d) THEN Len(d) - 1 + 1 ELSE 0
        /\ \A i \in 1..(Len(d) - 1 + 1) : SubSeq(u, 1, Len(d))[i] = u[1 + i - 1]
    BY <1>1, <2>1, SubSeqProperties
  <2>. QED  BY <1>1, <2>2 DEF u
<1>5. SubSeq(d \o t, 1, Len(d)) = d
  BY <1>3, <1>4, SeqEqual
<1>. QED  BY <1>2, <1>5

\* What is in flight has its type, and is what it looks like without a flush.
LEMMA InFlightTyped ==
  ASSUME Typed
  PROVE  /\ InFlight \in Seq(AnyRow)
         /\ phase = "idle" => InFlight = batch \o channel
         /\ phase # "idle" => InFlight = writing \o channel
<1>1. /\ channel \in Seq(AnyRow) /\ batch \in Seq(AnyRow) /\ writing \in Seq(AnyRow)
      /\ (phase = "idle") = (writing = <<>>)
      /\ phase # "idle" => batch = <<>>
  BY DEF Typed
<1>2. writing \o batch \in Seq(AnyRow)
  BY <1>1, ConcatProperties
<1>3. InFlight \in Seq(AnyRow)
  BY <1>1, <1>2, ConcatProperties DEF InFlight
<1>4. writing = <<>> => writing \o batch = batch
  BY <1>1, ConcatEmptySeq
<1>5. batch = <<>> => writing \o batch = writing
  BY <1>1, ConcatEmptySeq
<1>. QED  BY <1>1, <1>3, <1>4, <1>5 DEF InFlight

\* The types hold at the start.
LEMMA InitTyped == Init => Typed
BY WriterAssumption, EmptySeq DEF Init, Typed

\* A row that enters the channel keeps the types (tx.send).
LEMMA EnqueueTyped ==
  ASSUME Typed, NEW row \in AnyRow, Enqueue(row), sent' \in Seq(AnyRow), UNCHANGED before
  PROVE  Typed'
<1>1. channel' \in Seq(AnyRow) /\ Len(channel') = Len(channel) + 1 /\ Len(channel) \in Nat
  BY AppendProperties, LenProperties DEF Typed, Enqueue
<1>2. Len(channel') <= ChannelCapacity
  BY <1>1, WriterAssumption DEF Enqueue
<1>. QED  BY <1>1, <1>2 DEF Typed, Enqueue

\* So does the end of the process, of which only the tables are left.
LEMMA EndProcessTyped ==
  ASSUME Typed, EndProcess, sent' \in Seq(AnyRow), before' \in Nat
  PROVE  Typed'
BY EmptySeq, WriterAssumption DEF Typed, EndProcess

\* Every action keeps the types: Send and Receive the lengths of channel and
\* batch, Receive, Tick and the inserts the drained rows, the inserts the tables.
LEMMA NextTyped ==
  ASSUME Typed, [Next]_vars
  PROVE  Typed'
<1>. USE DEF Typed
<1>1. ASSUME NEW row \in AnyRow, Send(row)
      PROVE  Typed'
  <2>1. sent' \in Seq(AnyRow)
    BY <1>1, AppendProperties DEF Send
  <2>. QED  BY <1>1, <2>1, EnqueueTyped DEF Send
<1>2. CASE Receive
  <2>. DEFINE received == Append(batch, Head(channel))
  <2>1. /\ received \in Seq(AnyRow) /\ received # <<>> /\ Len(received) \in Nat
        /\ Tail(channel) \in Seq(AnyRow) /\ Len(Tail(channel)) = Len(channel) - 1
        /\ Len(channel) \in Nat
    BY <1>2, HeadTailProperties, AppendProperties, LenProperties DEF Receive
  <2>. HIDE DEF received
  <2>2. Len(channel') <= ChannelCapacity /\ channel' \in Seq(AnyRow)
    BY <1>2, <2>1, WriterAssumption DEF Receive
  <2>3. CASE Len(received) >= BatchCapacity
    <3>1. writing' = received /\ batch' = <<>> /\ phase' = "trades"
      BY <1>2, <2>3 DEF Receive, StartFlush, Inserts, received
    <3>. QED  BY <1>2, <2>1, <2>2, <3>1, EmptySeq, WriterAssumption DEF Receive
  <2>4. CASE ~(Len(received) >= BatchCapacity)
    <3>1. batch' = received /\ UNCHANGED <<writing, phase>>
      BY <1>2, <2>4 DEF Receive, received
    <3>. QED  BY <1>2, <2>1, <2>2, <2>4, <3>1, WriterAssumption DEF Receive
  <2>. QED  BY <2>3, <2>4
<1>3. CASE Tick
  <2>1. writing' = batch /\ batch' = <<>> /\ phase' = "trades"
    BY <1>3 DEF Tick, StartFlush, Inserts
  <2>. QED  BY <1>3, <2>1, EmptySeq, WriterAssumption DEF Tick
<1>4. CASE InsertTrades
  <2>1. phase' = "orderbook" /\ UNCHANGED writing
    BY <1>4 DEF InsertTrades, InsertDone, Inserts
  <2>2. trades' \subseteq TradeRow
    <3>1. OfKind(TradeRow, writing) \in Seq(TradeRow \cap AnyRow)
      BY OfKindType
    <3>2. OfKind(TradeRow, writing) \in Seq(TradeRow)
      BY <3>1, SeqMonotonic
    <3>. QED  BY <1>4, <3>2, InsertedIsTyped DEF InsertTrades
  <2>. QED  BY <1>4, <2>1, <2>2 DEF InsertTrades
<1>5. CASE InsertOrderbookMessages
  <2>1. phase' = "idle" /\ writing' = <<>>
    BY <1>5 DEF InsertOrderbookMessages, InsertDone, Inserts
  <2>2. orderbook' \in Seq(BookRow)
    <3>1. OfKind(BookRow, writing) \in Seq(BookRow \cap AnyRow)
      BY OfKindType
    <3>2. OfKind(BookRow, writing) \in Seq(BookRow)
      BY <3>1, SeqMonotonic
    <3>. QED  BY <1>5, <3>2, ConcatProperties DEF InsertOrderbookMessages
  <2>. QED  BY <1>5, <2>1, <2>2, EmptySeq DEF InsertOrderbookMessages
<1>6. CASE Exit
  <2>1. sent' \in Seq(AnyRow) /\ before' \in Nat
    BY <1>6, EmptySeq, LenProperties DEF Exit
  <2>. QED  BY <1>6, <2>1, EndProcessTyped DEF Exit
<1>7. CASE UNCHANGED vars
  BY <1>7 DEF vars
<1>. QED  BY <1>1, <1>2, <1>3, <1>4, <1>5, <1>6, <1>7 DEF Next, AnyRow

\* A step that only moves rows from channel to batch, or from batch to the
\* flush, leaves what is in flight, and so does the first insert of a flush.
LEMMA InFlightStays ==
  ASSUME Typed, Receive \/ Tick \/ InsertTrades
  PROVE  InFlight' = InFlight
<1>. USE DEF Typed
<1>1. CASE Receive
  <2>. DEFINE received == Append(batch, Head(channel))
  <2>1. /\ received \in Seq(AnyRow) /\ Tail(channel) \in Seq(AnyRow)
        /\ received \o Tail(channel) = batch \o channel
    <3>1. batch \in Seq(AnyRow) /\ channel \in Seq(AnyRow) /\ channel # <<>>
      BY <1>1 DEF Receive
    <3>. QED  BY ONLY <3>1, MoveRow
  <2>2. InFlight = batch \o channel
    BY <1>1, InFlightTyped DEF Receive
  <2>3. <<>> \o received = received /\ received \o <<>> = received
    BY <2>1, ConcatEmptySeq
  <2>4. \/ writing' = received /\ batch' = <<>>
        \/ writing' = <<>> /\ batch' = received
    BY <1>1 DEF Receive, StartFlush
  <2>5. writing' \o batch' = received
    BY <2>3, <2>4
  <2>. QED  BY <1>1, <2>1, <2>2, <2>5 DEF InFlight, Receive
<1>2. CASE Tick
  <2>1. batch \o <<>> = batch
    BY ConcatEmptySeq
  <2>. QED  BY <1>2, <2>1, InFlightTyped DEF InFlight, Tick, StartFlush
<1>3. CASE InsertTrades
  <2>1. UNCHANGED <<writing, batch, channel>>
    BY <1>3 DEF InsertTrades, InsertDone, Inserts
  <2>. QED  BY <2>1 DEF InFlight
<1>. QED  BY <1>1, <1>2, <1>3

\* A row that is sent comes last of what is in flight.
LEMMA InFlightGrows ==
  ASSUME Typed, NEW row \in AnyRow, Enqueue(row)
  PROVE  InFlight' = Append(InFlight, row)
<1>1. writing \o batch \in Seq(AnyRow) /\ channel \in Seq(AnyRow)
  BY ConcatProperties DEF Typed
<1>2. \A s \in Seq(AnyRow) : s \o Append(channel, row) = Append(s \o channel, row)
  BY <1>1, ConcatAppend
<1>3. (writing \o batch) \o Append(channel, row) = Append((writing \o batch) \o channel, row)
  BY <1>1, <1>2, Zenon
<1>. QED  BY <1>3 DEF InFlight, Enqueue

\* The second insert of a flush takes the rows that it drained out of flight,
\* which are the first ones.
LEMMA InFlightShrinks ==
  ASSUME Typed, InsertOrderbookMessages
  PROVE  InFlight = writing \o InFlight' /\ InFlight' = channel
<1>1. InFlight = writing \o channel
  BY InFlightTyped DEF InsertOrderbookMessages
<1>2. writing' = <<>> /\ batch' = <<>> /\ channel' = channel
  BY DEF InsertOrderbookMessages, InsertDone, Inserts, Typed
<1>3. (<<>> \o <<>>) \o channel = channel
  BY ConcatEmptySeq, EmptySeq DEF Typed
<1>. QED  BY <1>1, <1>2, <1>3 DEF InFlight
-----------------------------------------------------------------------------
(* What was sent is stored or in flight *)

\* To be accounted for, it is enough that some rows before those in flight are.
LEMMA AccountedBy ==
  ASSUME NEW done \in Seq(AnyRow), Typed', sent' = done \o InFlight'
  PROVE  Flushed' = done
<1>1. InFlight' \in Seq(AnyRow)
  <2>1. channel' \in Seq(AnyRow) /\ batch' \in Seq(AnyRow) /\ writing' \in Seq(AnyRow)
    BY DEF Typed
  <2>2. writing' \o batch' \in Seq(AnyRow)
    BY <2>1, ConcatProperties
  <2>. QED  BY <2>1, <2>2, ConcatProperties DEF InFlight
<1>. QED  BY <1>1, FirstPart DEF Flushed

\* The flushed rows have their type.
LEMMA FlushedTyped ==
  ASSUME Typed
  PROVE  Flushed \in Seq(AnyRow)
<1>1. /\ sent \in Seq(AnyRow) /\ Len(sent) \in Nat /\ Len(InFlight) \in Nat
      /\ \A i \in 1..Len(sent) : sent[i] \in AnyRow
  BY InFlightTyped, LenProperties, ElementOfSeq DEF Typed
<1>2. \A i \in 1..(Len(sent) - Len(InFlight)) : sent[i] \in AnyRow
  BY <1>1
<1>3. Len(sent) - Len(InFlight) \in Int
  BY <1>1
<1>. QED  BY <1>2, <1>3, SubSeqProperties DEF Flushed

\* Keys stay in the table.
LEMMA KeysStay ==
  ASSUME Typed, [Next]_vars
  PROVE  Keys(trades) \subseteq Keys(trades')
<1>1. CASE InsertTrades
  <2>1. OfKind(TradeRow, writing) \in Seq(TradeRow \cap AnyRow)
    BY OfKindType DEF Typed
  <2>. QED  BY <1>1, <2>1, InsertedHasKeys DEF InsertTrades
<1>2. CASE UNCHANGED trades
  BY <1>2 DEF Keys
<1>. QED
  BY <1>1, <1>2 DEF Next, vars, Send, Enqueue, Receive, Tick, InsertOrderbookMessages, Exit, EndProcess

\* Nothing is in flight, and nothing was sent, when a process starts.
LEMMA InitAccounted == Init => Accounted
<1>. SUFFICES ASSUME Init PROVE Accounted
  OBVIOUS
<1>1. InFlight = <<>>
  BY DEF Init, InFlight
<1>2. Flushed = <<>>
  BY <1>1 DEF Init, Flushed
<1>. QED
  BY <1>1, <1>2, OfKindEmpty, ContentsEmpty DEF Init, Accounted, TradesStored

\* Every action keeps what was sent accounted for: the trades of a flush are
\* stored before its book rows are, and a row leaves the flight only with its
\* flush (writer_task, flush).
LEMMA NextAccounted ==
  ASSUME Typed, Accounted, [Next]_vars
  PROVE  Accounted'
<1>. PICK d : d = Flushed
  OBVIOUS
<1>0. /\ Typed' /\ InFlight \in Seq(AnyRow)
      /\ sent = d \o InFlight /\ d \in Seq(AnyRow)
      /\ Len(orderbook) = before + Len(OfKind(BookRow, d)) /\ TradesStored(d)
      /\ phase = "orderbook" => TradesStored(writing)
  BY FlushedTyped, NextTyped, InFlightTyped DEF Accounted
<1>1. ASSUME InFlight' = InFlight, sent' = sent, UNCHANGED <<orderbook, before>>,
             phase' = "orderbook" => TradesStored(writing)'
      PROVE  Accounted'
  <2>1. Flushed' = d
    BY <1>0, <1>1, AccountedBy
  <2>2. TradesStored(d)'
    BY <1>0, KeysStay DEF TradesStored
  <2>. QED  BY <1>0, <1>1, <2>1, <2>2 DEF Accounted
<1>2. ASSUME NEW row \in AnyRow, Send(row)
      PROVE  Accounted'
  <2>1. InFlight' = Append(InFlight, row)
    BY <1>2, InFlightGrows DEF Send
  <2>2. sent' = d \o InFlight'
    <3>1. d \o Append(InFlight, row) = Append(d \o InFlight, row)
      BY <1>0, ConcatAppend
    <3>. QED  BY <1>0, <1>2, <2>1, <3>1 DEF Send
  <2>3. Flushed' = d
    BY <1>0, <2>2, AccountedBy
  <2>. QED  BY <1>0, <1>2, <2>2, <2>3 DEF Accounted, Send, Enqueue, TradesStored, Keys
<1>3. CASE Receive \/ Tick
  <2>1. phase' # "orderbook"
    BY <1>3 DEF Receive, Tick, StartFlush, Inserts
  <2>2. UNCHANGED <<sent, orderbook, before>>
    BY <1>3 DEF Receive, Tick
  <2>. QED  BY <1>1, <1>3, <2>1, <2>2, InFlightStays
<1>4. CASE InsertTrades
  <2>1. writing' = writing /\ UNCHANGED <<sent, orderbook, before>>
    BY <1>4 DEF InsertTrades, InsertDone, Inserts
  <2>2. TradesStored(writing)'
    <3>1. /\ OfKind(TradeRow, writing) \in Seq(TradeRow \cap AnyRow)
          /\ Contents(OfKind(TradeRow, writing)) = Contents(writing) \cap TradeRow
      BY OfKindType, OfKindContents DEF Typed
    <3>2. \A row \in Contents(writing) \cap TradeRow : KeyOf[row] \in Keys(trades')
      BY <1>4, <3>1, InsertedHasKeys DEF InsertTrades
    <3>. QED  BY <2>1, <3>2 DEF TradesStored
  <2>. QED  BY <1>1, <1>4, <2>1, <2>2, InFlightStays
<1>5. CASE InsertOrderbookMessages
  <2>. PICK e : e = d \o writing
    OBVIOUS
  <2>1. writing \in Seq(AnyRow) /\ e \in Seq(AnyRow)
    BY <1>0, ConcatProperties DEF Typed
  <2>2. sent' = e \o InFlight'
    <3>1. InFlight = writing \o channel /\ InFlight' = channel /\ channel \in Seq(AnyRow)
      BY <1>5, InFlightShrinks DEF Typed
    <3>2. (d \o writing) \o channel = d \o (writing \o channel)
      <4>1. d \in Seq(AnyRow) /\ writing \in Seq(AnyRow) /\ channel \in Seq(AnyRow)
        BY <1>0, <2>1, <3>1
      <4>2. \A s, t, u \in Seq(AnyRow) : (s \o t) \o u = s \o (t \o u)
        BY ConcatAssociative
      <4>. QED  BY <4>1, <4>2, Zenon
    <3>. QED  BY <1>0, <1>5, <3>1, <3>2 DEF InsertOrderbookMessages
  <2>3. Flushed' = e
    BY <1>0, <2>1, <2>2, AccountedBy
  <2>4. OfKind(BookRow, e) = OfKind(BookRow, d) \o OfKind(BookRow, writing)
    BY <1>0, <2>1, OfKindConcat
  <2>5. Len(orderbook') = Len(orderbook) + Len(OfKind(BookRow, writing))
    <3>1. OfKind(BookRow, writing) \in Seq(AnyRow) /\ orderbook \in Seq(AnyRow)
      <4>1. OfKind(BookRow, writing) \in Seq(BookRow \cap AnyRow)
        BY <2>1, OfKindType
      <4>. QED  BY <4>1, SeqMonotonic DEF Typed, AnyRow
    <3>. QED  BY <1>5, <3>1, ConcatProperties DEF InsertOrderbookMessages
  <2>6. Len(OfKind(BookRow, e)) = Len(OfKind(BookRow, d)) + Len(OfKind(BookRow, writing))
    <3>1. /\ OfKind(BookRow, d) \in Seq(BookRow \cap AnyRow)
          /\ OfKind(BookRow, writing) \in Seq(BookRow \cap AnyRow)
      BY <1>0, <2>1, OfKindType
    <3>. QED  BY <2>4, <3>1, ConcatProperties
  <2>7. Len(orderbook') = before' + Len(OfKind(BookRow, e))
    <3>1. /\ Len(OfKind(BookRow, d)) \in Nat /\ Len(OfKind(BookRow, writing)) \in Nat
          /\ before \in Nat /\ before' = before
      BY <1>0, <1>5, <2>1, OfKindType, LenProperties DEF Typed, InsertOrderbookMessages
    <3>. QED  BY <1>0, <2>5, <2>6, <3>1
  <2>8. TradesStored(e)'
    <3>1. Contents(e) = Contents(d) \cup Contents(writing)
      BY <1>0, <2>1, ContentsConcat
    <3>2. trades' = trades /\ phase = "orderbook"
      BY <1>5 DEF InsertOrderbookMessages
    <3>. QED  BY <1>0, <3>1, <3>2 DEF TradesStored
  <2>9. phase' # "orderbook"
    BY <1>5 DEF InsertOrderbookMessages, InsertDone, Inserts
  <2>. QED  BY <2>2, <2>3, <2>7, <2>8, <2>9 DEF Accounted
<1>6. CASE Exit
  <2>1. InFlight' = <<>> /\ sent' = <<>> /\ phase' = "idle" /\ before' = Len(orderbook)
        /\ orderbook' = orderbook
    BY <1>6 DEF InFlight, Exit, EndProcess
  <2>2. Flushed' = <<>>
    BY <2>1 DEF Flushed
  <2>3. Len(orderbook) = Len(orderbook) + 0
    BY LenProperties DEF Typed
  <2>. QED  BY <2>1, <2>2, <2>3, OfKindEmpty, ContentsEmpty DEF Accounted, TradesStored
<1>7. CASE UNCHANGED vars
  BY <1>0, <1>1, <1>7 DEF vars, InFlight, TradesStored, Keys
<1>. QED  BY <1>2, <1>3, <1>4, <1>5, <1>6, <1>7 DEF Next, AnyRow
-----------------------------------------------------------------------------
(* The theorems *)

\* The trades table keeps its keys apart: only an insert changes it.
LEMMA NextUnique ==
  ASSUME Typed, TradesUnique, [Next]_vars
  PROVE  TradesUnique'
<1>1. CASE InsertTrades
  <2>1. OfKind(TradeRow, writing) \in Seq(TradeRow \cap AnyRow)
    BY OfKindType DEF Typed
  <2>2. OfKind(TradeRow, writing) \in Seq(TradeRow) /\ trades \subseteq TradeRow
    BY <2>1, SeqMonotonic DEF Typed
  <2>. QED  BY <1>1, <2>2, InsertedIsUnique DEF InsertTrades, TradesUnique
<1>2. CASE UNCHANGED trades
  BY <1>2 DEF TradesUnique
<1>. QED
  BY <1>1, <1>2 DEF Next, vars, Send, Enqueue, Receive, Tick, InsertOrderbookMessages, Exit, EndProcess

\* The inductive invariant holds in every reachable state.
THEOREM Invariance == Spec => []IInv
<1>1. Init => IInv
  BY InitTyped, InitAccounted DEF Init, IInv, TradesUnique
<1>2. IInv /\ [Next]_vars => IInv'
  BY NextTyped, NextAccounted, NextUnique DEF IInv
<1>. QED  BY <1>1, <1>2, PTL DEF Spec

\* Type correctness: the batch is below its capacity whenever the writer waits
\* for a row, and a flush is running exactly when its rows are there.
THEOREM TypeCorrect == Spec => []TypeOK
<1>1. IInv => TypeOK
  <2>. SUFFICES ASSUME Typed PROVE TypeOK
    BY DEF IInv
  <2>1. \A rows \in {channel, batch, writing, sent} : Contents(rows) \subseteq BookRow \cup TradeRow
    BY ContentsOfSeq DEF Typed, AnyRow
  <2>2. Contents(orderbook) \subseteq BookRow
    BY ContentsOfSeq DEF Typed
  <2>. QED  BY <2>1, <2>2 DEF Typed, TypeOK
<1>. QED  BY <1>1, Invariance, PTL

\* No trade is stored twice, however often the exchange sends it (insert_trades).
THEOREM TradesStoredOnce == Spec => []TradesUnique
<1>1. IInv => TradesUnique
  BY DEF IInv
<1>. QED  BY <1>1, Invariance, PTL

\* A running process drops no trade that it sent (writer_task, flush).
THEOREM NoTradeLost == Spec => []NoTradeDropped
<1>1. IInv => NoTradeDropped
  <2>. SUFFICES ASSUME Typed, Accounted PROVE NoTradeDropped
    BY DEF IInv
  <2>1. Contents(sent) = Contents(Flushed) \cup Contents(InFlight)
    <3>1. InFlight \in Seq(AnyRow) /\ Flushed \in Seq(AnyRow)
      BY InFlightTyped, FlushedTyped
    <3>. QED  BY <3>1, ContentsConcat DEF Accounted
  <2>. QED  BY <2>1 DEF Accounted, TradesStored, NoTradeDropped
<1>. QED  BY <1>1, Invariance, PTL

\* A book row in the table has every trade that the process sent before it in
\* the other table: the flush inserts the trades first, and flushes come in the
\* order of sending (flush, insert_trades, insert_orderbook_messages).
THEOREM BookBehindTrades == Spec => []BookNeverAheadOfTrades
<1>1. IInv => BookNeverAheadOfTrades
  <2>. SUFFICES ASSUME Typed, Accounted,
                       NEW j \in DOMAIN sent, sent[j] \in BookRow,
                       StoredByThisProcess(Len(OfKind(BookRow, SubSeq(sent, 1, j)))),
                       NEW i \in 1..(j - 1), sent[i] \in TradeRow
                PROVE  KeyOf[sent[i]] \in Keys(trades)
    BY DEF IInv, BookNeverAheadOfTrades
  <2>. PICK d : d = Flushed
    OBVIOUS
  <2>1. /\ sent \in Seq(AnyRow) /\ InFlight \in Seq(AnyRow) /\ d \in Seq(AnyRow)
        /\ sent = d \o InFlight
        /\ Len(orderbook) = before + Len(OfKind(BookRow, d))
        /\ \A row \in Contents(d) \cap TradeRow : KeyOf[row] \in Keys(trades)
    BY InFlightTyped, FlushedTyped DEF Typed, Accounted, TradesStored
  <2>2. /\ Len(sent) = Len(d) + Len(InFlight)
        /\ \A k \in 1..(Len(d) + Len(InFlight)) :
             sent[k] = IF k <= Len(d) THEN d[k] ELSE InFlight[k - Len(d)]
        /\ Len(d) \in Nat /\ Len(InFlight) \in Nat
    BY <2>1, ConcatProperties, LenProperties
  <2>3. j \in 1..Len(sent) /\ Len(sent) \in Nat
    BY <2>1, LenProperties
  <2>4. CASE j <= Len(d)
    <3>1. i \in 1..Len(d) /\ i \in 1..(Len(d) + Len(InFlight)) /\ i <= Len(d)
      BY <2>2, <2>3, <2>4
    <3>2. sent[i] = d[i] /\ d[i] \in Contents(d)
      BY <2>1, <2>2, <3>1, ContentsOfSeq
    <3>. QED  BY <2>1, <3>2
  <2>5. CASE j > Len(d)
    <3>. DEFINE s == SubSeq(sent, 1, j - 1)
                u == SubSeq(sent, Len(d) + 1, j - 1)
    <3>1. s = d \o u /\ u \in Seq(AnyRow)
      <4>1. SubSeq(sent, 1, Len(d)) = d
        <5>1. SubSeq(d \o InFlight, 1, Len(d \o InFlight) - Len(InFlight)) = d
          BY <2>1, FirstPart
        <5>. QED  BY <2>1, <2>2, <5>1
      <4>2. /\ 1 \in 1..(Len(sent) + 1) /\ Len(d) \in (1 - 1)..Len(sent)
            /\ j - 1 \in Len(d)..Len(sent)
        BY <2>2, <2>3, <2>5
      <4>3. SubSeq(sent, 1, Len(d)) \o SubSeq(sent, Len(d) + 1, j - 1) = SubSeq(sent, 1, j - 1)
        BY <2>1, <4>2, ConcatAdjacentSubSeq
      <4>4. u \in Seq(AnyRow)
        <5>1. \A k \in (Len(d) + 1)..(j - 1) : sent[k] \in AnyRow
          BY <2>1, <2>2, <2>3, ElementOfSeq
        <5>2. Len(d) + 1 \in Int /\ j - 1 \in Int
          BY <2>2, <2>3
        <5>. QED  BY <5>1, <5>2, SubSeqProperties
      <4>. QED  BY <4>1, <4>3, <4>4
    <3>2. SubSeq(sent, 1, j) = Append(s, sent[j]) /\ s \in Seq(AnyRow) /\ sent[j] \in AnyRow
      <4>1. s \in Seq(AnyRow) /\ sent[j] \in AnyRow
        <5>1. \A k \in 1..(j - 1) : sent[k] \in AnyRow
          BY <2>1, <2>3, ElementOfSeq
        <5>2. 1 \in Int /\ j - 1 \in Int
          BY <2>3
        <5>. QED  BY <5>1, <5>2, SubSeqProperties DEF AnyRow
      <4>2. SubSeq(sent, 1, j) = s \o <<sent[j]>>
        <5>1. 1 \in 1..Len(sent) /\ j \in 1..Len(sent)
          BY <2>3
        <5>. QED  BY <2>1, <5>1, SubSeqRecursiveSecond
      <4>. QED  BY <4>1, <4>2, AppendIsConcat
    <3>. HIDE DEF s, u
    <3>3. OfKind(BookRow, SubSeq(sent, 1, j)) = Append(OfKind(BookRow, s), sent[j])
      BY <3>2, OfKindAppend
    <3>4. OfKind(BookRow, s) = OfKind(BookRow, d) \o OfKind(BookRow, u)
      BY <2>1, <3>1, OfKindConcat
    <3>5. /\ OfKind(BookRow, d) \in Seq(BookRow \cap AnyRow)
          /\ OfKind(BookRow, u) \in Seq(BookRow \cap AnyRow)
          /\ sent[j] \in BookRow \cap AnyRow
      BY <2>1, <3>1, <3>2, OfKindType
    <3>6. /\ Len(OfKind(BookRow, SubSeq(sent, 1, j)))
               = Len(OfKind(BookRow, d)) + Len(OfKind(BookRow, u)) + 1
          /\ Len(OfKind(BookRow, d)) \in Nat /\ Len(OfKind(BookRow, u)) \in Nat
      <4>1. OfKind(BookRow, s) \in Seq(BookRow \cap AnyRow)
        BY <3>4, <3>5, ConcatProperties
      <4>. QED  BY <3>3, <3>4, <3>5, <4>1, ConcatProperties, AppendProperties, LenProperties
    <3>. QED  BY <2>1, <3>6 DEF StoredByThisProcess, Typed
  <2>. QED  BY <2>2, <2>3, <2>4, <2>5
<1>. QED  BY <1>1, Invariance, PTL
-----------------------------------------------------------------------------
(* The refinement of RowLog *)

Log == orderbook \o OfKind(BookRow, InFlight)

\* The rows of books, and those among what is in flight, have their type.
LEMMA BookRowsTyped ==
  ASSUME Typed
  PROVE  /\ orderbook \in Seq(BookRow) /\ OfKind(BookRow, InFlight) \in Seq(BookRow)
         /\ OfKind(BookRow, writing) \in Seq(BookRow)
<1>1. /\ OfKind(BookRow, InFlight) \in Seq(BookRow \cap AnyRow)
      /\ OfKind(BookRow, writing) \in Seq(BookRow \cap AnyRow)
  BY InFlightTyped, OfKindType DEF Typed
<1>. QED  BY <1>1, SeqMonotonic DEF Typed

\* A book row that is sent comes last of the log, and a trade is not in it.
LEMMA LogGrows ==
  ASSUME Typed, NEW row \in AnyRow, Enqueue(row)
  PROVE  Log' = IF row \in BookRow THEN Append(Log, row) ELSE Log
<1>1. InFlight' = Append(InFlight, row) /\ orderbook' = orderbook
  BY InFlightGrows DEF Enqueue
<1>2. OfKind(BookRow, Append(InFlight, row)) =
        IF row \in BookRow THEN Append(OfKind(BookRow, InFlight), row) ELSE OfKind(BookRow, InFlight)
  BY InFlightTyped, OfKindAppend
<1>3. ASSUME row \in BookRow
      PROVE  orderbook \o Append(OfKind(BookRow, InFlight), row) = Append(Log, row)
  <2>1. \A s, t \in Seq(BookRow) : s \o Append(t, row) = Append(s \o t, row)
    BY <1>3, ConcatAppend
  <2>. QED  BY <2>1, BookRowsTyped, Zenon DEF Log
<1>. QED  BY <1>1, <1>2, <1>3 DEF Log

\* A step of the writer leaves the log, and stores rows from its front.
LEMMA LogStays ==
  ASSUME Typed, Receive \/ Tick \/ InsertTrades \/ InsertOrderbookMessages
  PROVE  /\ Log' = Log
         /\ \E n \in 0..(Len(Log) - Len(orderbook)) : Len(orderbook') = Len(orderbook) + n
<1>. DEFINE w == OfKind(BookRow, writing)
            f == OfKind(BookRow, InFlight)
<1>0. /\ orderbook \in Seq(BookRow) /\ f \in Seq(BookRow) /\ w \in Seq(BookRow)
      /\ Len(Log) = Len(orderbook) + Len(f)
      /\ Len(orderbook) \in Nat /\ Len(f) \in Nat /\ Len(w) \in Nat
  BY BookRowsTyped, ConcatProperties, LenProperties DEF Log
<1>1. CASE Receive \/ Tick \/ InsertTrades
  <2>1. InFlight' = InFlight /\ orderbook' = orderbook
    BY <1>1, InFlightStays DEF Receive, Tick, InsertTrades
  <2>2. 0 \in 0..(Len(Log) - Len(orderbook)) /\ Len(orderbook) = Len(orderbook) + 0
    BY <1>0
  <2>. QED  BY <2>1, <2>2 DEF Log
<1>2. CASE InsertOrderbookMessages
  <2>. PICK rest : rest = InFlight'
    OBVIOUS
  <2>1. /\ InFlight = writing \o rest /\ rest = channel
        /\ writing \in Seq(AnyRow) /\ rest \in Seq(AnyRow)
        /\ orderbook' = orderbook \o w
    BY <1>2, InFlightShrinks DEF Typed, InsertOrderbookMessages
  <2>2. f = w \o OfKind(BookRow, rest) /\ OfKind(BookRow, rest) \in Seq(BookRow)
    <3>1. OfKind(BookRow, rest) \in Seq(BookRow \cap AnyRow)
      BY <2>1, OfKindType
    <3>. QED  BY <2>1, <3>1, OfKindConcat, SeqMonotonic
  <2>3. (orderbook \o w) \o OfKind(BookRow, rest) = orderbook \o (w \o OfKind(BookRow, rest))
    <3>1. \A s, t, u \in Seq(BookRow) : (s \o t) \o u = s \o (t \o u)
      BY ConcatAssociative
    <3>. QED  BY <1>0, <2>2, <3>1, Zenon
  <2>4. Log' = Log
    BY <2>1, <2>2, <2>3 DEF Log
  <2>5. Len(orderbook') = Len(orderbook) + Len(w) /\ Len(f) = Len(w) + Len(OfKind(BookRow, rest))
        /\ Len(OfKind(BookRow, rest)) \in Nat
    BY <1>0, <2>1, <2>2, ConcatProperties, LenProperties
  <2>. QED  BY <1>0, <2>4, <2>5
<1>. QED  BY <1>1, <1>2

\* An exit leaves the rows of the log that are stored.
LEMMA LogCut ==
  ASSUME Typed, EndProcess
  PROVE  /\ Log' = SubSeq(Log, 1, Len(orderbook))
         /\ orderbook' = orderbook
<1>1. InFlight' = <<>> /\ orderbook' = orderbook
  BY DEF InFlight, EndProcess
<1>2. /\ orderbook \in Seq(BookRow) /\ OfKind(BookRow, InFlight) \in Seq(BookRow)
      /\ orderbook \o <<>> = orderbook
  BY BookRowsTyped, ConcatEmptySeq
<1>3. Len(Log) - Len(OfKind(BookRow, InFlight)) = Len(orderbook)
  BY <1>2, ConcatProperties, LenProperties DEF Log
<1>4. SubSeq(Log, 1, Len(Log) - Len(OfKind(BookRow, InFlight))) = orderbook
  BY <1>2, FirstPart DEF Log
<1>. QED  BY <1>1, <1>2, <1>3, <1>4, OfKindEmpty DEF Log

\* The writer keeps the promise of RowLog: through the channel, the batches, the
\* two inserts of a flush and the exits in the middle of one, the book rows
\* reach the table in the order of sending, each once, and only rows that
\* are not stored are lost (writer_task, flush).
THEOREM KeepsRowLog == Spec => ImplementsRowLog
<1>1. Init => RowLog!Init
  BY OfKindEmpty DEF Init, InFlight, RowLog!Init
<1>2. IInv /\ [Next]_vars => [RowLog!Next]_(RowLog!vars)
  <2>. SUFFICES ASSUME Typed, [Next]_vars
                PROVE  [RowLog!Next]_(RowLog!vars)
    BY DEF IInv
  <2>1. RowLog!vars = <<Log, Len(orderbook)>>
    BY DEF RowLog!vars, Log
  <2>2. ASSUME NEW row \in AnyRow, Send(row)
        PROVE  [RowLog!Next]_(RowLog!vars)
    <3>1. /\ Log' = IF row \in BookRow THEN Append(Log, row) ELSE Log
          /\ orderbook' = orderbook
      BY <2>2, LogGrows DEF Send, Enqueue
    <3>. QED  BY <3>1 DEF RowLog!Next, RowLog!Accept, RowLog!vars, Log
  <2>3. CASE Receive \/ Tick \/ InsertTrades \/ InsertOrderbookMessages
    <3>1. PICK n \in 0..(Len(Log) - Len(orderbook)) :
            Log' = Log /\ Len(orderbook') = Len(orderbook) + n
      BY <2>3, LogStays
    <3>2. CASE n = 0
      <4>1. Len(orderbook') = Len(orderbook)
        BY <3>1, <3>2, BookRowsTyped, LenProperties
      <4>. QED  BY <3>1, <4>1 DEF RowLog!vars, Log
    <3>3. CASE n # 0
      <4>1. n \in 1..(Len(Log) - Len(orderbook))
        BY <3>3
      <4>2. RowLog!Persist
        BY <3>1, <4>1 DEF RowLog!Persist, Log
      <4>. QED  BY <4>2 DEF RowLog!Next
    <3>. QED  BY <3>2, <3>3
  <2>4. CASE Exit
    <3>1. Log' = SubSeq(Log, 1, Len(orderbook)) /\ orderbook' = orderbook
      BY <2>4, LogCut DEF Exit
    <3>. QED  BY <3>1 DEF RowLog!Next, RowLog!LoseUnstored, Log
  <2>5. CASE UNCHANGED vars
    BY <2>5 DEF vars, RowLog!vars, InFlight
  <2>. QED  BY <2>2, <2>3, <2>4, <2>5 DEF Next, AnyRow
<1>. QED  BY <1>1, <1>2, Invariance, PTL DEF Spec, ImplementsRowLog, RowLog!Spec
=============================================================================
