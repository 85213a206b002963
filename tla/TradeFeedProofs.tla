-------------------------- MODULE TradeFeedProofs --------------------------
(***************************************************************************)
(* Proofs about TradeFeed, for any markets, trades, replay and capacities, *)
(* and about Keepalive, the pings of the same session, for any interval,   *)
(* deadline, capacities and flush time.                                    *)
(*                                                                         *)
(* A trade that the running connection can have seen is never gone: it is  *)
(* in a frame, with the handler, with the writer or in the table (Held),   *)
(* and a step moves it from one to the next.  A row leaves the writer when *)
(* the second insert is done, and by then its number is in the table.  All *)
(* else ends the connection, and with it what NoTradeLeftOut speaks of.    *)
(***************************************************************************)
EXTENDS TradeFeed, Keepalive, FiniteSetTheorems, SequenceTheorems, TLAPS

\* The proofs about the writer, with the trades and keys of this module.
WP == INSTANCE WriterProofs WITH
  BookRow <- {},
  TradeRow <- {trade \in Trade : trade.is # "unreadable"},
  KeyOf <- [trade \in Trade |-> <<trade.market, trade.n>>],
  orderbook <- <<>>, sent <- <<>>, before <- 0, exits <- 0, MaxSent <- 0, MaxExits <- 0

-----------------------------------------------------------------------------
(* Lists *)

\* The operators on rows of this module are those of WriterProofs.
LEMMA SameRows ==
  /\ \A K, rows : WP!OfKind(K, rows) = OfKind(K, rows)
  /\ \A rows : WP!Contents(rows) = Contents(rows)
BY Zenon DEF WP!OfKind, OfKind, WP!Contents, Contents

\* The capacities are what the writer's proofs assume.
LEMMA WriterAssumed == WP!WriterAssumption
BY TradeFeedAssumption DEF WP!WriterAssumption

\* What a list holds.
LEMMA ContentsFacts ==
  ASSUME NEW S
  PROVE  /\ Contents(<<>>) = {}
         /\ \A s \in Seq(S) : /\ Contents(s) \subseteq S
                              /\ \A i \in 1..Len(s) : s[i] \in Contents(s)
                              /\ \A e \in Contents(s) : \E i \in 1..Len(s) : s[i] = e
         /\ \A s \in Seq(S) : \A e \in S : Contents(Append(s, e)) = Contents(s) \cup {e}
         /\ \A s, t \in Seq(S) : Contents(s \o t) = Contents(s) \cup Contents(t)
<1>1. WP!Contents(<<>>) = {}
  BY WP!ContentsEmpty, WriterAssumed
<1>2. \A s \in Seq(S) : /\ WP!Contents(s) \subseteq S
                        /\ \A i \in 1..Len(s) : s[i] \in WP!Contents(s)
                        /\ \A e \in WP!Contents(s) : \E i \in 1..Len(s) : s[i] = e
  <2>. SUFFICES ASSUME NEW s \in Seq(S)
                PROVE  /\ WP!Contents(s) \subseteq S
                       /\ \A i \in 1..Len(s) : s[i] \in WP!Contents(s)
                       /\ \A e \in WP!Contents(s) : \E i \in 1..Len(s) : s[i] = e
    OBVIOUS
  <2>1. WP!Contents(s) = {s[i] : i \in 1..Len(s)} /\ WP!Contents(s) \subseteq S
    BY WP!ContentsOfSeq, WriterAssumed
  <2>. QED  BY <2>1
<1>3. \A s \in Seq(S) : \A e \in S : WP!Contents(Append(s, e)) = WP!Contents(s) \cup {e}
  BY WP!ContentsAppend, WriterAssumed
<1>4. \A s, t \in Seq(S) : WP!Contents(s \o t) = WP!Contents(s) \cup WP!Contents(t)
  BY WP!ContentsConcat, WriterAssumed
<1>. QED  BY <1>1, <1>2, <1>3, <1>4, SameRows, Zenon

\* The first element and the rest.
LEMMA ContentsHeadTail ==
  ASSUME NEW S, NEW s \in Seq(S), s # <<>>
  PROVE  /\ Head(s) \in S /\ Tail(s) \in Seq(S) /\ Len(Tail(s)) = Len(s) - 1
         /\ Contents(s) = {Head(s)} \cup Contents(Tail(s))
<1>1. /\ Head(s) \in S /\ Tail(s) \in Seq(S) /\ Len(Tail(s)) = Len(s) - 1
      /\ Head(s) = s[1] /\ \A i \in 1..Len(Tail(s)) : Tail(s)[i] = s[i + 1]
      /\ Len(s) \in Nat \ {0}
  <2>1. Len(s) \in Nat \ {0}
    BY EmptySeq, LenProperties
  <2>2. Head(s) \in S /\ Head(s) = s[1]
    BY <2>1, ElementOfSeq
  <2>3. Tail(s) \in Seq(S) /\ Len(Tail(s)) = Len(s) - 1
    BY HeadTailProperties
  <2>4. \A i \in 1..(Len(s) - 1) : Tail(s)[i] = s[i + 1]
    BY HeadTailProperties
  <2>. QED  BY <2>1, <2>2, <2>3, <2>4
<1>. PICK rest \in Seq(S) : rest = Tail(s)
  BY <1>1
<1>2. ASSUME NEW e \in Contents(s) PROVE e \in {Head(s)} \cup Contents(rest)
  <2>1. PICK i \in 1..Len(s) : s[i] = e
    BY ContentsFacts
  <2>2. i = 1 \/ (i - 1 \in 1..Len(rest) /\ (i - 1) + 1 = i)
    BY <1>1
  <2>3. \A k \in 1..Len(rest) : rest[k] \in Contents(rest)
    BY ContentsFacts
  <2>. QED  BY <1>1, <2>1, <2>2, <2>3
<1>3. ASSUME NEW e \in Contents(rest) PROVE e \in Contents(s)
  <2>0. \A t \in Seq(S) : \A d \in Contents(t) : \E i \in 1..Len(t) : t[i] = d
    BY ContentsFacts
  <2>1. PICK i \in 1..Len(rest) : rest[i] = e
    BY <1>3, <2>0
  <2>2. i + 1 \in 1..Len(s) /\ s[i + 1] = e
    BY <1>1, <2>1
  <2>. QED  BY <2>2, ContentsFacts
<1>4. Head(s) \in Contents(s)
  <2>1. 1 \in 1..Len(s)
    BY <1>1
  <2>. QED  BY <1>1, <2>1, ContentsFacts
<1>. QED  BY <1>1, <1>2, <1>3, <1>4

\* A list in the order of its numbers.
Rising(list) == \A i, j \in 1..Len(list) : i < j => list[i] < list[j]

\* The list of numbers in OfType: those of K up to u, in their order.
LEMMA NumbersUpto ==
  ASSUME NEW K, NEW u \in Nat
  PROVE  /\ OfKind(K, [n \in 1..u |-> n]) \in Seq(Nat)
         /\ Contents(OfKind(K, [n \in 1..u |-> n])) = K \cap (1..u)
<1>. DEFINE upto == [n \in 1..u |-> n]
<1>1. upto \in Seq(Nat) /\ Len(upto) = u /\ \A n \in 1..u : upto[n] = n
  BY IsASeq
<1>. HIDE DEF upto
<1>2. Contents(upto) = 1..u
  <2>1. /\ \A i \in 1..u : upto[i] \in Contents(upto)
        /\ \A e \in Contents(upto) : \E i \in 1..u : upto[i] = e
    BY <1>1, ContentsFacts
  <2>2. 1..u \subseteq Contents(upto)
    BY <1>1, <2>1
  <2>3. Contents(upto) \subseteq 1..u
    BY <1>1, <2>1
  <2>. QED  BY <2>2, <2>3
<1>3. WP!OfKind(K, upto) \in Seq(K \cap Nat)
  BY <1>1, WP!OfKindType, WriterAssumed
<1>4. Seq(K \cap Nat) \subseteq Seq(Nat)
  BY SeqMonotonic
<1>5. WP!Contents(WP!OfKind(K, upto)) = WP!Contents(upto) \cap K
  BY <1>1, WP!OfKindContents, WriterAssumed
<1>6. OfKind(K, upto) \in Seq(Nat) /\ Contents(OfKind(K, upto)) = K \cap (1..u)
  BY <1>2, <1>3, <1>4, <1>5, SameRows, Zenon
<1>. QED  BY <1>6 DEF upto

LEMMA NumbersRise ==
  ASSUME NEW K
  PROVE  \A u \in Nat : Rising(OfKind(K, [n \in 1..u |-> n]))
<1>. DEFINE Upto(u) == [n \in 1..u |-> n]
            T == {u \in Nat : Rising(OfKind(K, Upto(u)))}
<1>1. 0 \in T
  <2>1. Contents(OfKind(K, Upto(0))) = K \cap (1..0) /\ OfKind(K, Upto(0)) \in Seq(Nat)
    BY NumbersUpto
  <2>2. PICK list \in Seq(Nat) : list = OfKind(K, Upto(0)) /\ Contents(list) = {}
    BY <2>1
  <2>3. \A i \in 1..Len(list) : list[i] \in {}
    BY <2>2, ContentsFacts
  <2>4. Rising(list)
    BY <2>3 DEF Rising
  <2>. QED  BY <2>2, <2>4
<1>2. ASSUME NEW u \in Nat, u \in T PROVE u + 1 \in T
  <2>1. PICK list \in Seq(Nat) : /\ list = OfKind(K, Upto(u))
                                 /\ Contents(list) = K \cap (1..u) /\ Rising(list)
    BY <1>2, NumbersUpto
  <2>2. Upto(u + 1) = Append(Upto(u), u + 1) /\ Upto(u) \in Seq(Nat)
    OBVIOUS
  <2>3. OfKind(K, Upto(u + 1)) = IF u + 1 \in K THEN Append(list, u + 1) ELSE list
    <3>1. WP!OfKind(K, Append(Upto(u), u + 1)) =
            IF u + 1 \in K THEN Append(WP!OfKind(K, Upto(u)), u + 1) ELSE WP!OfKind(K, Upto(u))
      <4>1. \A rows \in Seq(Nat) : \A e \in Nat :
              WP!OfKind(K, Append(rows, e)) =
                IF e \in K THEN Append(WP!OfKind(K, rows), e) ELSE WP!OfKind(K, rows)
        BY WP!OfKindAppend, WriterAssumed
      <4>2. u + 1 \in Nat
        OBVIOUS
      <4>. QED  BY <2>2, <4>1, <4>2, Zenon
    <3>. QED  BY <2>1, <2>2, <3>1, SameRows, Zenon
  <2>4. Rising(Append(list, u + 1))
    <3>1. /\ Len(list) \in Nat /\ Len(Append(list, u + 1)) = Len(list) + 1
          /\ \A i \in 1..Len(list) : Append(list, u + 1)[i] = list[i]
          /\ Append(list, u + 1)[Len(list) + 1] = u + 1
      BY AppendProperties, LenProperties
    <3>2. \A i \in 1..Len(list) : list[i] \in 1..u
      <4>1. \A i \in 1..Len(list) : list[i] \in Contents(list)
        BY ContentsFacts
      <4>. QED  BY <2>1, <4>1
    <3>3. PICK more : more = Append(list, u + 1)
      OBVIOUS
    <3>4. ASSUME NEW i \in 1..Len(more), NEW j \in 1..Len(more), i < j
          PROVE  more[i] < more[j]
      <4>1. i \in 1..Len(list) /\ more[i] = list[i]
        BY <3>1, <3>3, <3>4
      <4>2. CASE j \in 1..Len(list)
        BY <2>1, <3>1, <3>3, <3>4, <4>1, <4>2 DEF Rising
      <4>3. CASE j = Len(list) + 1
        BY <3>1, <3>2, <3>3, <4>1, <4>3
      <4>. QED  BY <3>1, <3>3, <4>2, <4>3
    <3>. QED  BY <3>3, <3>4 DEF Rising
  <2>5. Rising(OfKind(K, Upto(u + 1)))
    BY <2>1, <2>3, <2>4, Zenon
  <2>. QED  BY <2>5
<1>. HIDE DEF T
<1>3. Nat \subseteq T
  BY <1>1, <1>2, WP!NatSetInduction, WriterAssumed
<1>. QED  BY <1>3 DEF T

-----------------------------------------------------------------------------
(* What an answer of the exchange holds *)

\* Numbers after n that are in a rising list behind position j are as many as
\* there are places behind it.
LEMMA ManyAfter ==
  ASSUME NEW S, IsFiniteSet(S), NEW list \in Seq(Nat), Rising(list), NEW j \in 1..Len(list),
         \A i \in 1..Len(list) : list[i] > list[j] => list[i] \in S
  PROVE  Len(list) - j <= Cardinality(S)
<1>. DEFINE after == [i \in 1..(Len(list) - j) |-> list[j + i]]
<1>1. Len(list) \in Nat /\ \A i \in 1..Len(list) : list[i] \in Nat
  BY ElementOfSeq, LenProperties
<1>2. \A i \in 1..(Len(list) - j) : j + i \in 1..Len(list) /\ j < j + i
  BY <1>1
<1>3. \A i \in 1..(Len(list) - j) : after[i] \in S
  BY <1>1, <1>2 DEF Rising
<1>4. ASSUME NEW i \in 1..(Len(list) - j), NEW k \in 1..(Len(list) - j), i < k
      PROVE  after[i] < after[k]
  BY <1>1, <1>2, <1>4 DEF Rising
<1>5. \A i, k \in 1..(Len(list) - j) : after[i] = after[k] => i = k
  <2>1. \A i \in 1..(Len(list) - j) : after[i] \in Nat
    BY <1>1, <1>2
  <2>. QED  BY <1>1, <1>4, <2>1
<1>. HIDE DEF after
<1>6. after \in Injection(1..(Len(list) - j), S)
  BY <1>3, <1>5 DEF Injection, IsInjective, after
<1>7. Cardinality(1..(Len(list) - j)) <= Cardinality(S)
  BY <1>6, FS_Injection
<1>8. Len(list) - j \in Nat
  BY <1>1
<1>9. \A d \in Nat : Cardinality(1..d) = d
  BY FS_Interval
<1>. QED  BY <1>7, <1>8, <1>9

\* A trade as a frame carries it is one of the trades.
LEMMA TradeFacts ==
  /\ \A t \in Trade : /\ t = [market |-> t.market, n |-> t.n, is |-> t.is]
               /\ t.market \in Market /\ t.n \in 1..Len(TradesOf[t.market])
  /\ \A m \in Market : \A n \in 1..Len(TradesOf[m]) :
       /\ Len(TradesOf[m]) \in Nat /\ TradesOf[m][n] \in {"trade", "liquidation"}
       /\ \A is \in {"good", "unreadable", "unstorable"} : [market |-> m, n |-> n, is |-> is] \in Trade
       /\ \A kinds \in Kinds : kinds[m][n] \in {"good", "unreadable", "unstorable"}
<1>1. \A m \in Market : /\ TradesOf[m] \in Seq({"trade", "liquidation"})
                        /\ Len(TradesOf[m]) \in Nat /\ DOMAIN TradesOf[m] = 1..Len(TradesOf[m])
  BY TradeFeedAssumption, LenProperties
<1>2. \A m \in Market : \A n \in 1..Len(TradesOf[m]) : TradesOf[m][n] \in {"trade", "liquidation"}
  BY <1>1, ElementOfSeq
<1>3. \A m \in Market : \A n \in 1..Len(TradesOf[m]) :
        \A kinds \in Kinds : kinds[m][n] \in {"good", "unreadable", "unstorable"}
  BY <1>1, TradeFeedAssumption
<1>4. ASSUME NEW t \in Trade
      PROVE  /\ t = [market |-> t.market, n |-> t.n, is |-> t.is]
             /\ t.market \in Market /\ t.n \in 1..Len(TradesOf[t.market])
  <2>1. PICK m \in Market : \E n \in DOMAIN TradesOf[m], is \in {"good", "unreadable", "unstorable"} :
               t = [market |-> m, n |-> n, is |-> is]
    BY DEF Trade
  <2>2. PICK n \in DOMAIN TradesOf[m], is \in {"good", "unreadable", "unstorable"} :
               t = [market |-> m, n |-> n, is |-> is]
    BY <2>1
  <2>3. t.market = m /\ t.n = n /\ t.is = is
    BY <2>2
  <2>4. n \in 1..Len(TradesOf[m])
    BY <1>1
  <2>. QED  BY <2>2, <2>3, <2>4, Zenon
<1>5. ASSUME NEW m \in Market, NEW n \in 1..Len(TradesOf[m]),
             NEW is \in {"good", "unreadable", "unstorable"}
      PROVE  [market |-> m, n |-> n, is |-> is] \in Trade
  <2>1. n \in DOMAIN TradesOf[m]
    BY <1>1
  <2>. DEFINE Of(k) == {[market |-> k, n |-> j, is |-> as] :
                 j \in DOMAIN TradesOf[k], as \in {"good", "unreadable", "unstorable"}}
  <2>2. [market |-> m, n |-> n, is |-> is] \in Of(m)
    BY <2>1
  <2>3. Trade = UNION {Of(k) : k \in Market}
    BY DEF Trade
  <2>. HIDE DEF Of
  <2>. QED  BY <2>2, <2>3
<1>. QED  BY <1>1, <1>2, <1>3, <1>4, <1>5

\* The trades of m that were executed when there were u of them.
Past(m, u) == {trade \in Trade : trade.market = m /\ trade.n <= u}

\* The numbers of one list of the exchange's answer.
LEMMA OfTypeList ==
  ASSUME NEW m \in Market, NEW u \in 0..Len(TradesOf[m]), NEW type, kind \in Kinds
  PROVE  \E numbers \in Seq(Nat) :
           /\ Rising(numbers)
           /\ Contents(numbers) = {n \in 1..u : TradesOf[m][n] = type}
           /\ OfType(type, m, u) \in Seq(Past(m, u))
           /\ Len(OfType(type, m, u)) = Len(numbers)
           /\ \A i \in 1..Len(numbers) : OfType(type, m, u)[i] = Sent(m, numbers[i])
<1>1. u \in Nat /\ u <= Len(TradesOf[m]) /\ Len(TradesOf[m]) \in Nat
  BY TradeFeedAssumption, LenProperties
<1>2. PICK K : K = {n \in 1..u : TradesOf[m][n] = type}
  OBVIOUS
<1>3. PICK numbers : numbers = OfKind(K, [n \in 1..u |-> n])
  OBVIOUS
<1>4. numbers \in Seq(Nat) /\ Contents(numbers) = K /\ Rising(numbers)
  <2>1. numbers \in Seq(Nat) /\ Contents(numbers) = K \cap (1..u)
    BY <1>1, <1>3, NumbersUpto
  <2>2. Rising(numbers)
    BY <1>1, <1>3, NumbersRise
  <2>3. K \cap (1..u) = K
    BY <1>2
  <2>. QED  BY <2>1, <2>2, <2>3, Zenon
<1>5. \A i \in 1..Len(numbers) : numbers[i] \in 1..u
  <2>1. \A i \in 1..Len(numbers) : numbers[i] \in Contents(numbers)
    BY <1>4, ContentsFacts
  <2>. QED  BY <1>2, <1>4, <2>1
<1>6. \A i \in 1..Len(numbers) : Sent(m, numbers[i]) \in Past(m, u)
  <2>1. \A i \in 1..Len(numbers) : numbers[i] \in 1..Len(TradesOf[m])
    BY <1>1, <1>5
  <2>2. \A i \in 1..Len(numbers) : kind[m][numbers[i]] \in {"good", "unreadable", "unstorable"}
    BY <2>1, TradeFacts
  <2>3. \A n \in 1..Len(TradesOf[m]) : \A is \in {"good", "unreadable", "unstorable"} :
          [market |-> m, n |-> n, is |-> is] \in Trade
    BY TradeFacts, Zenon
  <2>4. \A i \in 1..Len(numbers) : Sent(m, numbers[i]) \in Trade
    BY <2>1, <2>2, <2>3, Zenon DEF Sent
  <2>5. \A i \in 1..Len(numbers) : /\ Sent(m, numbers[i]).market = m
                                   /\ Sent(m, numbers[i]).n <= u
    BY <1>5 DEF Sent
  <2>. QED  BY <2>4, <2>5 DEF Past
<1>7. OfType(type, m, u) = [i \in 1..Len(numbers) |-> Sent(m, numbers[i])]
  <2>1. DOMAIN numbers = 1..Len(numbers)
    BY <1>4, LenProperties
  <2>. QED  BY <1>2, <1>3, <2>1, Zenon DEF OfType
<1>8. PICK list : list = [i \in 1..Len(numbers) |-> Sent(m, numbers[i])]
  OBVIOUS
<1>9. list \in Seq(Past(m, u)) /\ Len(list) = Len(numbers)
  <2>1. Len(numbers) \in Nat
    BY <1>4, LenProperties
  <2>. QED  BY <1>6, <1>8, <2>1, IsASeq
<1>. QED  BY <1>2, <1>4, <1>7, <1>8, <1>9

\* The answer's list holds elements of the whole list, from its end.
LEMMA RecentList ==
  ASSUME NEW S, NEW list \in Seq(S)
  PROVE  /\ Recent(list) \in Seq(S)
         /\ Contents(Recent(list)) \subseteq Contents(list)
         /\ \A j \in 1..Len(list) : Len(list) - j < Replay => list[j] \in Contents(Recent(list))
<1>1. Replay \in Nat /\ Len(list) \in Nat
  BY TradeFeedAssumption, LenProperties
<1>2. PICK reach : reach = IF Len(list) <= Replay THEN Len(list) ELSE Replay
  OBVIOUS
<1>3. PICK recent : recent = [i \in 1..reach |-> list[Len(list) + 1 - i]]
  OBVIOUS
<1>4. Recent(list) = recent
  BY <1>2, <1>3 DEF Recent
<1>5. reach \in Nat /\ reach <= Len(list)
  BY <1>1, <1>2
<1>6. \A i \in 1..reach : Len(list) + 1 - i \in 1..Len(list)
  BY <1>1, <1>5
<1>7. recent \in Seq(S) /\ Len(recent) = reach
  <2>1. \A i \in 1..reach : list[Len(list) + 1 - i] \in S
    BY <1>6, ElementOfSeq
  <2>. QED  BY <1>3, <1>5, <2>1, IsASeq
<1>8. ASSUME NEW e \in Contents(recent) PROVE e \in Contents(list)
  <2>1. PICK i \in 1..Len(recent) : recent[i] = e
    BY <1>7, ContentsFacts
  <2>2. e = list[Len(list) + 1 - i] /\ Len(list) + 1 - i \in 1..Len(list)
    BY <1>3, <1>6, <1>7, <2>1
  <2>3. \A k \in 1..Len(list) : list[k] \in Contents(list)
    BY ContentsFacts
  <2>. QED  BY <2>2, <2>3
<1>9. ASSUME NEW j \in 1..Len(list), Len(list) - j < Replay
      PROVE  list[j] \in Contents(recent)
  <2>1. Len(list) + 1 - j \in 1..reach /\ Len(list) + 1 - (Len(list) + 1 - j) = j
    BY <1>1, <1>2, <1>9
  <2>2. recent[Len(list) + 1 - j] = list[j]
    BY <1>3, <2>1
  <2>3. \A k \in 1..Len(recent) : recent[k] \in Contents(recent)
    BY <1>7, ContentsFacts
  <2>. QED  BY <1>7, <2>1, <2>2, <2>3
<1>. QED  BY <1>4, <1>7, <1>8, <1>9

\* The answer holds every trade that is in its reach (InReach): in the list of
\* the trade's own type there are not as many newer ones as it reaches back.
LEMMA AnswerHolds ==
  ASSUME kind \in Kinds, NEW m \in Market, NEW u \in 0..Len(TradesOf[m]), NEW n \in 1..u,
         InReach(m, n, u)
  PROVE  Sent(m, n) \in Contents(Recent(OfType(TradesOf[m][n], m, u)))
<1>. DEFINE newer == {k \in (n + 1)..u : TradesOf[m][k] = TradesOf[m][n]}
<1>0. u \in Nat
  BY TradeFeedAssumption, LenProperties
<1>1. PICK numbers \in Seq(Nat) :
        /\ Rising(numbers)
        /\ Contents(numbers) = {k \in 1..u : TradesOf[m][k] = TradesOf[m][n]}
        /\ OfType(TradesOf[m][n], m, u) \in Seq(Past(m, u))
        /\ Len(OfType(TradesOf[m][n], m, u)) = Len(numbers)
        /\ \A i \in 1..Len(numbers) : OfType(TradesOf[m][n], m, u)[i] = Sent(m, numbers[i])
  BY OfTypeList
<1>2. PICK j \in 1..Len(numbers) : numbers[j] = n
  <2>1. n \in Contents(numbers)
    BY <1>1
  <2>. QED  BY <2>1, ContentsFacts
<1>3. IsFiniteSet(newer) /\ Cardinality(newer) \in Nat
  <2>1. \A a, b \in Int : IsFiniteSet(a..b)
    BY FS_Interval
  <2>2. n + 1 \in Int /\ u \in Int
    BY <1>0
  <2>3. newer \subseteq (n + 1)..u
    OBVIOUS
  <2>. HIDE DEF newer
  <2>4. IsFiniteSet(newer)
    BY <2>1, <2>2, <2>3, FS_Subset, Zenon
  <2>. QED  BY <2>4, FS_CardinalityType
<1>4. \A i \in 1..Len(numbers) : numbers[i] > numbers[j] => numbers[i] \in newer
  <2>1. \A i \in 1..Len(numbers) : numbers[i] \in Contents(numbers)
    BY ContentsFacts
  <2>. QED  BY <1>0, <1>1, <1>2, <2>1
<1>5. Cardinality(newer) < Replay
  BY DEF InReach
<1>. HIDE DEF newer
<1>6. Len(numbers) - j <= Cardinality(newer)
  BY <1>1, <1>3, <1>4, ManyAfter
<1>. PICK list \in Seq(Past(m, u)) : list = OfType(TradesOf[m][n], m, u)
  BY <1>1
<1>7. j \in 1..Len(list) /\ Len(list) - j < Replay
  <2>1. Len(numbers) \in Nat /\ Replay \in Nat
    BY TradeFeedAssumption, LenProperties
  <2>. QED  BY <1>1, <1>3, <1>5, <1>6, <2>1
<1>8. list[j] \in Contents(Recent(list))
  BY <1>7, RecentList
<1>. QED  BY <1>1, <1>2, <1>8

-----------------------------------------------------------------------------
(* Frames and the network *)

\* Trade n of m, in whatever state, is among some trades.
Among(set, m, n) == \E trade \in set : trade.market = m /\ trade.n = n

\* The frames whose trades are from S.
FrameOf(S) == [market : Market, trades : Seq(S), liquidation_trades : Seq(S), json : BOOLEAN]
InFrame(frame, m, n) ==
  Among(Contents(frame.trades), m, n) \/ Among(Contents(frame.liquidation_trades), m, n)
OnWire(frames, m, n) == \E frame \in Contents(frames) : InFrame(frame, m, n)

\* A set of trades that has each of its trades in every state.
Closed(S) ==
  /\ S \subseteq Trade
  /\ \A trade \in S : \A is \in {"good", "unreadable", "unstorable"} :
       [market |-> trade.market, n |-> trade.n, is |-> is] \in S

\* A spoiled list has the same trades in the same places.
LEMMA SpoilKeeps ==
  ASSUME NEW S, Closed(S), NEW list \in Seq(S), NEW is \in {"unreadable", "unstorable"},
         NEW bad \in Spoil(list, is)
  PROVE  /\ bad \in Seq(S)
         /\ \A m, n : Among(Contents(list), m, n) => Among(Contents(bad), m, n)
<1>1. DOMAIN list = 1..Len(list) /\ Len(list) \in Nat /\ \A i \in 1..Len(list) : list[i] \in S
  BY LenProperties, ElementOfSeq
<1>2. PICK i \in 1..Len(list) : bad = [list EXCEPT ![i].is = is]
  BY <1>1 DEF Spoil
<1>3. PICK other : other = [market |-> list[i].market, n |-> list[i].n, is |-> is]
  OBVIOUS
<1>4. other \in S /\ other.market = list[i].market /\ other.n = list[i].n
  BY <1>1, <1>3 DEF Closed
<1>5. [list[i] EXCEPT !.is = is] = other
  <2>1. list[i] \in Trade
    BY <1>1 DEF Closed
  <2>2. list[i] = [market |-> list[i].market, n |-> list[i].n, is |-> list[i].is]
    BY <2>1, TradeFacts
  <2>. PICK m, n, as : list[i] = [market |-> m, n |-> n, is |-> as]
    BY <2>2
  <2>. QED  BY <1>3
<1>6. bad = [list EXCEPT ![i] = other]
  BY <1>2, <1>5
<1>7. bad \in Seq(S) /\ Len(bad) = Len(list)
      /\ \A k \in 1..Len(list) : bad[k] = IF k = i THEN other ELSE list[k]
  BY <1>1, <1>4, <1>6, ExceptSeq
<1>8. ASSUME NEW m, NEW n, Among(Contents(list), m, n)
      PROVE  Among(Contents(bad), m, n)
  <2>1. PICK trade \in Contents(list) : trade.market = m /\ trade.n = n
    BY <1>8 DEF Among
  <2>2. PICK k \in 1..Len(list) : list[k] = trade
    BY ContentsFacts
  <2>3. bad[k].market = m /\ bad[k].n = n
    BY <1>4, <1>7, <2>1, <2>2
  <2>4. bad[k] \in Contents(bad)
    BY <1>7, ContentsFacts
  <2>. QED  BY <2>3, <2>4 DEF Among
<1>. QED  BY <1>7, <1>8

\* So does a garbled frame.
LEMMA GarbledKeeps ==
  ASSUME NEW S, Closed(S), NEW frame \in FrameOf(S), NEW bad \in Garbled(frame)
  PROVE  /\ bad \in FrameOf(S)
         /\ \A m, n : InFrame(frame, m, n) => InFrame(bad, m, n)
<1>0. /\ frame.market \in Market /\ frame.trades \in Seq(S)
      /\ frame.liquidation_trades \in Seq(S) /\ frame.json \in BOOLEAN
  BY DEF FrameOf
<1>1. CASE bad = [frame EXCEPT !.json = FALSE]
  BY <1>1 DEF FrameOf, InFrame
<1>2. ASSUME NEW is \in {"unreadable", "unstorable"}, NEW list \in Spoil(frame.trades, is),
             bad = [frame EXCEPT !.trades = list]
      PROVE  /\ bad \in FrameOf(S)
             /\ \A m, n : InFrame(frame, m, n) => InFrame(bad, m, n)
  <2>1. /\ list \in Seq(S)
        /\ \A m, n : Among(Contents(frame.trades), m, n) => Among(Contents(list), m, n)
    BY <1>0, SpoilKeeps
  <2>2. bad \in FrameOf(S) /\ bad.trades = list /\ bad.liquidation_trades = frame.liquidation_trades
    BY <1>2, <2>1 DEF FrameOf
  <2>. QED  BY <2>1, <2>2 DEF InFrame
<1>3. ASSUME NEW is \in {"unreadable", "unstorable"},
             NEW list \in Spoil(frame.liquidation_trades, is),
             bad = [frame EXCEPT !.liquidation_trades = list]
      PROVE  /\ bad \in FrameOf(S)
             /\ \A m, n : InFrame(frame, m, n) => InFrame(bad, m, n)
  <2>1. /\ list \in Seq(S)
        /\ \A m, n : Among(Contents(frame.liquidation_trades), m, n) => Among(Contents(list), m, n)
    BY <1>0, SpoilKeeps
  <2>2. bad \in FrameOf(S) /\ bad.trades = frame.trades /\ bad.liquidation_trades = list
    BY <1>3, <2>1 DEF FrameOf
  <2>. QED  BY <2>1, <2>2 DEF InFrame
<1>4. \/ bad = [frame EXCEPT !.json = FALSE]
      \/ \E is \in {"unreadable", "unstorable"} :
           \/ \E list \in Spoil(frame.trades, is) : bad = [frame EXCEPT !.trades = list]
           \/ \E list \in Spoil(frame.liquidation_trades, is) :
                bad = [frame EXCEPT !.liquidation_trades = list]
  BY DEF Garbled
<1>. QED  BY <1>1, <1>2, <1>3, <1>4, Zenon

\* A frame that is sent arrives behind those before it, garbled or not.
LEMMA DeliverKeeps ==
  ASSUME NEW S, Closed(S), NEW frame \in FrameOf(S), wire \in Seq(FrameOf(S)),
         Len(wire) < MaxWire, Deliver(frame)
  PROVE  /\ wire' \in Seq(FrameOf(S)) /\ Len(wire') <= MaxWire
         /\ \A m, n : OnWire(wire, m, n) \/ InFrame(frame, m, n) => OnWire(wire', m, n)
<1>1. PICK got \in FrameOf(S) : /\ wire' = Append(wire, got)
                                /\ \A m, n : InFrame(frame, m, n) => InFrame(got, m, n)
  <2>1. CASE wire' = Append(wire, frame)
    BY <2>1
  <2>2. CASE \E bad \in Garbled(frame) : wire' = Append(wire, bad)
    BY <2>2, GarbledKeeps
  <2>. QED  BY <2>1, <2>2 DEF Deliver
<1>2. wire' \in Seq(FrameOf(S)) /\ Len(wire') = Len(wire) + 1 /\ Len(wire) \in Nat
  BY <1>1, AppendProperties, LenProperties
<1>3. Contents(wire') = Contents(wire) \cup {got}
  BY <1>1, ContentsFacts
<1>. QED  BY <1>1, <1>2, <1>3, TradeFeedAssumption DEF OnWire

-----------------------------------------------------------------------------
(* The invariant, and the writer in the names of its proofs *)

\* The trades that the exchange has executed.
Executed == {trade \in Trade : trade.n <= executed[trade.market]}

\* Trade n of m is in a frame, with the handler, with the writer or stored.
Held(m, n) ==
  \/ OnWire(wire, m, n)
  \/ Among(Contents(pending), m, n)
  \/ Among(Contents(WP!InFlight), m, n)
  \/ Among(trades, m, n)

FeedTyped ==
  /\ kind \in Kinds
  /\ executed \in [Market -> Nat]
  /\ \A m \in Market : executed[m] <= Len(TradesOf[m])
  /\ asked \subseteq Market /\ live \subseteq Market
  /\ wire \in Seq(FrameOf(Executed)) /\ Len(wire) <= MaxWire
  /\ pending \in Seq(Executed)
  /\ session = "waiting" => wire = <<>> /\ pending = <<>> /\ asked = {} /\ live = {}
  /\ joined \in [Market -> Nat \cup {NotJoined}]
  /\ \A m \in Market : joined[m] # NotJoined => m \in live /\ joined[m] <= executed[m]

\* Nothing but executed trades reaches the writer and the table; what a flush
\* is to forget after its second insert is in the table since the first.
WriterTyped ==
  /\ WP!Typed
  /\ Contents(WP!InFlight) \subseteq Executed
  /\ trades \subseteq {trade \in Executed : trade.is = "good"}
  /\ phase = "orderbook" =>
       \A row \in Contents(writing) : Among(trades, row.market, row.n)

\* NoTradeLeftOut, in terms of Held.
AllHeld ==
  \A m \in Market : joined[m] # NotJoined =>
    \A n \in 1..executed[m] :
      (n > joined[m] \/ InReach(m, n, joined[m])) => Held(m, n)

IInv == FeedTyped /\ WriterTyped /\ AllHeld

\* The writer's actions, in the names of WriterProofs.
LEMMA SameWriter ==
  /\ Writer!InFlight = WP!InFlight
  /\ Writer!Init <=> WP!Init
  /\ \A row : Writer!Enqueue(row) <=> WP!Enqueue(row)
  /\ Writer!Receive <=> WP!Receive
  /\ Writer!Tick <=> WP!Tick
  /\ Writer!InsertTrades <=> WP!InsertTrades
  /\ Writer!InsertOrderbookMessages <=> WP!InsertOrderbookMessages
  /\ Writer!EndProcess <=> WP!EndProcess
<1>0. Writer!InFlight = WP!InFlight
  BY Zenon DEF Writer!InFlight, WP!InFlight
<1>2. Writer!Init <=> WP!Init
  BY Zenon DEF Writer!Init, WP!Init
<1>3. \A row : Writer!Enqueue(row) <=> WP!Enqueue(row)
  BY Zenon DEF Writer!Enqueue, WP!Enqueue
<1>4. Writer!Receive <=> WP!Receive
  BY Zenon
     DEF Writer!Receive, WP!Receive, Writer!StartFlush, WP!StartFlush, Writer!Inserts,
         WP!Inserts
<1>5. Writer!Tick <=> WP!Tick
  BY Zenon
     DEF Writer!Tick, WP!Tick, Writer!StartFlush, WP!StartFlush, Writer!Inserts,
         WP!Inserts
<1>6. Writer!InsertTrades <=> WP!InsertTrades
  BY Zenon
     DEF Writer!InsertTrades, WP!InsertTrades, Writer!InsertDone, WP!InsertDone,
         Writer!Inserts, WP!Inserts,
         Writer!Inserted, WP!Inserted, Writer!Keys, WP!Keys, Writer!OfKind, WP!OfKind
<1>7. Writer!InsertOrderbookMessages <=> WP!InsertOrderbookMessages
  BY Zenon
     DEF Writer!InsertOrderbookMessages, WP!InsertOrderbookMessages, Writer!InsertDone,
         WP!InsertDone, Writer!Inserts, WP!Inserts, Writer!OfKind, WP!OfKind
<1>8. Writer!EndProcess <=> WP!EndProcess
  BY Zenon DEF Writer!EndProcess, WP!EndProcess
<1>. QED  BY <1>0, <1>2, <1>3, <1>4, <1>5, <1>6, <1>7, <1>8

\* As long as the numbers grow, what was executed stays executed.
LEMMA ExecutedGrows ==
  ASSUME FeedTyped, executed' \in [Market -> Nat], \A m \in Market : executed[m] <= executed'[m]
  PROVE  /\ Executed \subseteq Executed'
         /\ Seq(Executed) \subseteq Seq(Executed')
         /\ Seq(FrameOf(Executed)) \subseteq Seq(FrameOf(Executed'))
<1>1. Executed \subseteq Executed'
  <2>1. ASSUME NEW trade \in Trade, trade.n <= executed[trade.market]
        PROVE  trade.n <= executed'[trade.market]
    <3>1. trade.market \in Market /\ trade.n \in 1..Len(TradesOf[trade.market])
          /\ Len(TradesOf[trade.market]) \in Nat
      BY TradeFacts, TradeFeedAssumption, LenProperties
    <3>2. executed[trade.market] \in Nat /\ executed'[trade.market] \in Nat
          /\ executed[trade.market] <= executed'[trade.market]
      BY <3>1 DEF FeedTyped
    <3>. QED  BY <2>1, <3>1, <3>2
  <2>. QED  BY <2>1 DEF Executed
<1>2. Seq(Executed) \subseteq Seq(Executed')
  BY <1>1, SeqMonotonic
<1>3. FrameOf(Executed) \subseteq FrameOf(Executed')
  BY <1>2 DEF FrameOf
<1>. QED  BY <1>1, <1>2, <1>3, SeqMonotonic

\* A trade stays executed in whatever state a frame has it.
LEMMA ExecutedClosed ==
  /\ \A numbers : Closed({trade \in Trade : trade.n <= numbers[trade.market]})
  /\ Closed(Executed) /\ Closed(Executed')
<1>1. ASSUME NEW numbers
      PROVE  Closed({trade \in Trade : trade.n <= numbers[trade.market]})
  <2>. DEFINE S == {trade \in Trade : trade.n <= numbers[trade.market]}
  <2>1. ASSUME NEW trade \in S, NEW is \in {"good", "unreadable", "unstorable"}
        PROVE  [market |-> trade.market, n |-> trade.n, is |-> is] \in S
    <3>1. trade \in Trade /\ trade.n <= numbers[trade.market]
      OBVIOUS
    <3>2. trade.market \in Market /\ trade.n \in 1..Len(TradesOf[trade.market])
      BY <3>1, TradeFacts
    <3>. PICK m, n : m = trade.market /\ n = trade.n
      OBVIOUS
    <3>3. [market |-> m, n |-> n, is |-> is] \in Trade
      BY <3>2, TradeFacts, Zenon
    <3>. QED  BY <3>1, <3>3
  <2>. QED  BY <2>1 DEF Closed
<1>. QED  BY <1>1, Zenon DEF Executed

\* What the table refers to a trade by: its market and number.
LEMMA KeysAreNumbers ==
  ASSUME NEW table \in SUBSET Trade, NEW row \in Trade
  PROVE  [trade \in Trade |-> <<trade.market, trade.n>>][row] \in WP!Keys(table)
           <=> Among(table, row.market, row.n)
BY DEF WP!Keys, Among

-----------------------------------------------------------------------------
(* The writer's side of a step *)

\* The rows of the channel: every trade that can be read.
TradeRow == {trade \in Trade : trade.is # "unreadable"}
LEMMA RowsAreTrades == WP!AnyRow = TradeRow
BY DEF WP!AnyRow, TradeRow

\* A step that leaves the writer alone.
LEMMA WriterAlone ==
  ASSUME WriterTyped, UNCHANGED writerVars, Executed \subseteq Executed'
  PROVE  /\ WriterTyped'
         /\ \A m, n : /\ Among(Contents(WP!InFlight), m, n) => Among(Contents(WP!InFlight), m, n)'
                      /\ Among(trades, m, n) => Among(trades, m, n)'
<1>1. UNCHANGED <<channel, batch, writing, phase, trades>>
  BY DEF writerVars
<1>2. WP!InFlight' = WP!InFlight /\ (WP!Typed)'
  BY <1>1 DEF WP!InFlight, WP!Typed, WriterTyped
<1>. QED  BY <1>1, <1>2 DEF WriterTyped

\* A trade that is sent comes to the rows in flight.
LEMMA WriterTakes ==
  ASSUME WriterTyped, NEW row \in Executed, row.is # "unreadable", Writer!Enqueue(row),
         Executed' = Executed
  PROVE  /\ WriterTyped'
         /\ Contents(WP!InFlight') = Contents(WP!InFlight) \cup {row}
         /\ UNCHANGED trades
<1>1. row \in WP!AnyRow /\ WP!Enqueue(row) /\ WP!Typed
  BY RowsAreTrades, SameWriter DEF WriterTyped, Executed, TradeRow
<1>2. (WP!Typed)'
  <2>1. <<>> \in Seq(WP!AnyRow)
    BY EmptySeq
  <2>. QED  BY <1>1, <2>1, WP!EnqueueTyped, WriterAssumed
<1>3. WP!InFlight' = Append(WP!InFlight, row) /\ WP!InFlight \in Seq(WP!AnyRow)
  BY <1>1, WP!InFlightGrows, WP!InFlightTyped, WriterAssumed
<1>4. Contents(WP!InFlight') = Contents(WP!InFlight) \cup {row}
  BY <1>1, <1>3, ContentsFacts
<1>5. UNCHANGED <<trades, phase, writing>>
  BY DEF Writer!Enqueue
<1>. QED  BY <1>2, <1>4, <1>5 DEF WriterTyped

\* The end of a process leaves nothing in flight.
LEMMA WriterEnds ==
  ASSUME WriterTyped, Writer!EndProcess, Executed' = Executed
  PROVE  WriterTyped'
<1>1. (WP!Typed)'
  <2>1. <<>> \in Seq(WP!AnyRow) /\ 0 \in Nat
    BY EmptySeq
  <2>. QED  BY <2>1, SameWriter, WP!EndProcessTyped, WriterAssumed DEF WriterTyped
<1>2. WP!InFlight' = <<>> /\ phase' = "idle" /\ trades' = trades
  BY DEF Writer!EndProcess, WP!InFlight
<1>. QED  BY <1>1, <1>2, ContentsFacts DEF WriterTyped

\* The rows that a flush drained are executed trades, in flight with the channel.
LEMMA WritingTyped ==
  ASSUME WriterTyped, phase # "idle"
  PROVE  /\ writing \in Seq(TradeRow) /\ channel \in Seq(TradeRow)
         /\ Contents(WP!InFlight) = Contents(writing) \cup Contents(channel)
         /\ Contents(writing) \subseteq Executed
<1>1. writing \in Seq(TradeRow) /\ channel \in Seq(TradeRow)
  BY RowsAreTrades DEF WriterTyped, WP!Typed
<1>2. WP!InFlight = writing \o channel
  BY WP!InFlightTyped, WriterAssumed DEF WriterTyped
<1>3. Contents(WP!InFlight) = Contents(writing) \cup Contents(channel)
  BY <1>1, <1>2, ContentsFacts
<1>. QED  BY <1>1, <1>3 DEF WriterTyped

\* The first insert of a flush: all its rows were admitted, and their numbers
\* are in the table after it, whichever of them were there before.
LEMMA TradesInserted ==
  ASSUME WriterTyped, InsertTrades, Executed' = Executed
  PROVE  /\ trades \subseteq trades'
         /\ trades' \subseteq {trade \in Executed : trade.is = "good"}
         /\ \A row \in Contents(writing) : Among(trades', row.market, row.n)
<1>. DEFINE G == {trade \in Executed : trade.is = "good"}
            rows == WP!OfKind(TradeRow, writing)
<1>1. AdmittedTypes /\ WP!InsertTrades /\ phase = "trades"
  BY SameWriter DEF InsertTrades, Writer!InsertTrades
<1>2. /\ writing \in Seq(TradeRow) /\ Contents(writing) \subseteq Executed
  BY <1>1, WritingTyped
<1>3. Contents(writing) \subseteq G
  <2>1. DOMAIN writing = 1..Len(writing)
    BY <1>2, LenProperties
  <2>2. \A e \in Contents(writing) : \E i \in 1..Len(writing) : writing[i] = e
    BY <1>2, ContentsFacts
  <2>. QED  BY <1>1, <1>2, <2>1, <2>2 DEF AdmittedTypes
<1>4. Contents(rows) = Contents(writing) /\ rows \in Seq(TradeRow)
  <2>1. WP!Contents(rows) = WP!Contents(writing) \cap TradeRow
    BY <1>2, WP!OfKindContents, WriterAssumed
  <2>2. Contents(writing) \subseteq TradeRow
    BY <1>2, ContentsFacts
  <2>3. rows \in Seq(TradeRow \cap TradeRow)
    BY <1>2, WP!OfKindType, WriterAssumed
  <2>4. TradeRow \cap TradeRow = TradeRow
    OBVIOUS
  <2>. HIDE DEF rows
  <2>5. Contents(rows) = Contents(writing) \cap TradeRow
    BY <2>1, SameRows, Zenon
  <2>. QED  BY <2>2, <2>3, <2>4, <2>5
<1>5. trades' = WP!Inserted(trades, rows)
  BY <1>1 DEF WP!InsertTrades, TradeRow
<1>. HIDE DEF rows
<1>6. rows \in Seq(G)
  <2>1. \A i \in 1..Len(rows) : rows[i] \in G
    <3>1. \A i \in 1..Len(rows) : rows[i] \in Contents(rows)
      BY <1>4, ContentsFacts
    <3>. QED  BY <1>3, <1>4, <3>1
  <2>2. rows = [i \in 1..Len(rows) |-> rows[i]] /\ Len(rows) \in Nat
    BY <1>4, LenProperties
  <2>. QED  BY <2>1, <2>2, IsASeq
<1>7. trades' \subseteq G
  BY <1>5, <1>6, WP!InsertedIsTyped, WriterAssumed DEF WriterTyped
<1>8. trades \subseteq trades'
  BY <1>5 DEF WP!Inserted
<1>9. ASSUME NEW row \in Contents(writing)
      PROVE  Among(trades', row.market, row.n)
  <2>1. [trade \in Trade |-> <<trade.market, trade.n>>][row] \in WP!Keys(trades')
    <3>1. \A r \in WP!Contents(rows) :
            [trade \in Trade |-> <<trade.market, trade.n>>][r] \in WP!Keys(WP!Inserted(trades, rows))
      BY <1>4, WP!InsertedHasKeys, WriterAssumed
    <3>2. row \in WP!Contents(rows)
      BY <1>4, SameRows, Zenon
    <3>. QED  BY <1>5, <3>1, <3>2
  <2>2. trades' \in SUBSET Trade /\ row \in Trade
    BY <1>2, <1>7 DEF Executed
  <2>. QED  BY <2>1, <2>2, KeysAreNumbers
<1>. QED  BY <1>7, <1>8, <1>9

\* A step of the writer: what leaves the flight with the second insert of a
\* flush is in the table, where the first one put it.
LEMMA WriterMoves ==
  ASSUME WriterTyped, WriterStep
  PROVE  /\ WriterTyped'
         /\ \A m, n : Among(Contents(WP!InFlight), m, n) \/ Among(trades, m, n)
                        => Among(Contents(WP!InFlight), m, n)' \/ Among(trades, m, n)'
<1>1. /\ Executed' = Executed
      /\ WP!Receive \/ WP!Tick \/ InsertTrades \/ WP!InsertOrderbookMessages
  BY SameWriter DEF WriterStep, feedVars, Executed
<1>2. (WP!Typed)'
  <2>1. WP!Next
    BY <1>1, SameWriter DEF WP!Next, InsertTrades
  <2>. QED  BY <2>1, WP!NextTyped, WriterAssumed DEF WriterTyped
<1>3. ASSUME WP!Receive \/ WP!Tick \/ InsertTrades
      PROVE  WP!InFlight' = WP!InFlight
  <2>1. WP!Receive \/ WP!Tick \/ WP!InsertTrades
    BY <1>3, SameWriter DEF InsertTrades
  <2>. QED  BY <2>1, WP!InFlightStays, WriterAssumed DEF WriterTyped
<1>4. CASE WP!Receive \/ WP!Tick
  <2>1. trades' = trades /\ phase' # "orderbook"
    BY <1>4
       DEF WP!Receive, WP!Tick, WP!StartFlush, WP!Inserts, WriterTyped, WP!Typed
  <2>. QED  BY <1>1, <1>2, <1>3, <1>4, <2>1 DEF WriterTyped
<1>5. CASE InsertTrades
  <2>1. /\ trades \subseteq trades'
        /\ trades' \subseteq {trade \in Executed : trade.is = "good"}
        /\ \A row \in Contents(writing) : Among(trades', row.market, row.n)
    BY <1>1, <1>5, TradesInserted
  <2>2. writing' = writing
    BY <1>5, SameWriter DEF InsertTrades, WP!InsertTrades, WP!InsertDone, WP!Inserts
  <2>. QED  BY <1>1, <1>2, <1>3, <1>5, <2>1, <2>2 DEF WriterTyped, Among
<1>6. CASE WP!InsertOrderbookMessages
  <2>1. phase = "orderbook" /\ phase' = "idle" /\ trades' = trades
    BY <1>6
       DEF WP!InsertOrderbookMessages, WP!InsertDone, WP!Inserts
  <2>2. WP!InFlight' = channel
    BY <1>6, WP!InFlightShrinks, WriterAssumed DEF WriterTyped
  <2>3. Contents(WP!InFlight) = Contents(writing) \cup Contents(channel)
    BY <2>1, WritingTyped
  <2>4. \A row \in Contents(writing) : Among(trades, row.market, row.n)
    BY <2>1 DEF WriterTyped
  <2>. QED  BY <1>1, <1>2, <2>1, <2>2, <2>3, <2>4 DEF WriterTyped, Among
<1>. QED  BY <1>1, <1>4, <1>5, <1>6
-----------------------------------------------------------------------------
(* The steps *)

\* A step that keeps what is held, and neither executes a trade nor answers.
LEMMA HeldStays ==
  ASSUME AllHeld, UNCHANGED <<executed, joined>>, \A m, n : Held(m, n) => Held(m, n)'
  PROVE  AllHeld'
BY DEF AllHeld, InReach

\* The end of a connection: nothing is promised until the next answer.
LEMMA SessionEnds ==
  ASSUME FeedTyped, EndSession
  PROVE  FeedTyped' /\ AllHeld' /\ Executed' = Executed
<1>1. Executed' = Executed
  BY DEF EndSession, Executed
<1>2. \A m \in Market : joined'[m] = NotJoined
  BY DEF EndSession
<1>3. FeedTyped'
  <2>1. <<>> \in Seq(FrameOf(Executed)) /\ <<>> \in Seq(Executed) /\ Len(<<>>) <= MaxWire
    BY EmptySeq, TradeFeedAssumption
  <2>2. joined' \in [Market -> Nat \cup {NotJoined}]
    BY DEF EndSession
  <2>. QED  BY <1>1, <1>2, <2>1, <2>2 DEF FeedTyped, EndSession
<1>. QED  BY <1>1, <1>2, <1>3 DEF AllHeld

\* A trade is executed: a connection that was answered gets it.
LEMMA ExecuteKeeps ==
  ASSUME IInv, NEW market \in Market, Execute(market)
  PROVE  IInv'
<1>. DEFINE e == executed[market] + 1
<1>1. /\ executed[market] \in Nat /\ Len(TradesOf[market]) \in Nat
      /\ e \in 1..Len(TradesOf[market])
      /\ executed' = [executed EXCEPT ![market] = e]
  BY TradeFeedAssumption, LenProperties DEF Execute, IInv, FeedTyped
<1>2. /\ executed' \in [Market -> Nat] /\ executed'[market] = e
      /\ \A m \in Market : m # market => executed'[m] = executed[m]
      /\ \A m \in Market : executed[m] <= executed'[m] /\ executed'[m] <= Len(TradesOf[m])
  BY <1>1 DEF IInv, FeedTyped
<1>3. /\ Executed \subseteq Executed'
      /\ Seq(Executed) \subseteq Seq(Executed')
      /\ Seq(FrameOf(Executed)) \subseteq Seq(FrameOf(Executed'))
  BY <1>2, ExecutedGrows DEF IInv
<1>4. /\ Sent(market, e) \in Executed'
      /\ UpdateFrame(market, e) \in FrameOf(Executed')
      /\ InFrame(UpdateFrame(market, e), market, e)
  <2>1. Sent(market, e) \in Executed'
    <3>1. kind[market][e] \in {"good", "unreadable", "unstorable"}
      BY <1>1, TradeFacts DEF IInv, FeedTyped
    <3>2. Sent(market, e) \in Trade
      BY <1>1, <3>1, TradeFacts DEF Sent
    <3>. QED  BY <1>1, <1>2, <3>2 DEF Sent, Executed
  <2>. PICK trade : trade = Sent(market, e)
    OBVIOUS
  <2>2. trade.market = market /\ trade.n = e
    BY DEF Sent
  <2>3. /\ <<trade>> \in Seq(Executed') /\ <<>> \in Seq(Executed')
        /\ Contents(<<trade>>) = {trade}
    BY <2>1 DEF Contents
  <2>4. UpdateFrame(market, e) = Frame(market, <<trade>>, <<>>)
        \/ UpdateFrame(market, e) = Frame(market, <<>>, <<trade>>)
    BY DEF UpdateFrame
  <2>5. UpdateFrame(market, e) \in FrameOf(Executed')
    <3>1. \A s, t \in Seq(Executed') : Frame(market, s, t) \in FrameOf(Executed')
      BY DEF Frame, FrameOf
    <3>. QED  BY <2>3, <2>4, <3>1, Zenon
  <2>6. InFrame(UpdateFrame(market, e), market, e)
    BY <2>2, <2>3, <2>4 DEF Frame, InFrame, Among
  <2>. QED  BY <2>1, <2>5, <2>6
<1>. HIDE DEF e
<1>5. /\ wire' \in Seq(FrameOf(Executed')) /\ Len(wire') <= MaxWire
      /\ \A m, n : OnWire(wire, m, n) => OnWire(wire', m, n)
      /\ market \in live => OnWire(wire', market, e)
  <2>1. CASE market \in live
    <3>1. Len(wire) < MaxWire /\ Deliver(UpdateFrame(market, e))
      BY <2>1 DEF Execute, e
    <3>2. wire \in Seq(FrameOf(Executed'))
      BY <1>3 DEF IInv, FeedTyped
    <3>. QED  BY <1>4, <3>1, <3>2, ExecutedClosed, DeliverKeeps
  <2>2. CASE market \notin live
    BY <1>3, <2>2 DEF Execute, IInv, FeedTyped
  <2>. QED  BY <2>1, <2>2
<1>6. UNCHANGED <<kind, asked, live, session, pending, joined, writerVars>>
  BY DEF Execute
<1>7. FeedTyped'
  <2>1. session = "waiting" => wire' = <<>>
    BY DEF Execute, IInv, FeedTyped
  <2>2. \A m \in Market : joined[m] # NotJoined => joined[m] <= executed'[m]
    <3>1. \A m \in Market : joined[m] # NotJoined =>
            /\ joined[m] \in Nat /\ executed[m] \in Nat /\ executed'[m] \in Nat
            /\ joined[m] <= executed[m] /\ executed[m] <= executed'[m]
      BY <1>2 DEF IInv, FeedTyped
    <3>. QED  BY <3>1
  <2>. QED  BY <1>2, <1>3, <1>5, <1>6, <2>1, <2>2 DEF IInv, FeedTyped
<1>8. /\ WriterTyped'
      /\ \A m, n : /\ Among(Contents(WP!InFlight), m, n) => Among(Contents(WP!InFlight), m, n)'
                   /\ Among(trades, m, n) => Among(trades, m, n)'
  BY <1>3, <1>6, WriterAlone DEF IInv
<1>9. \A m, n : Held(m, n) => Held(m, n)'
  BY <1>5, <1>6, <1>8 DEF Held
<1>10. AllHeld'
  <2>. SUFFICES ASSUME NEW m \in Market, joined[m] # NotJoined, NEW n \in 1..executed'[m],
                       n > joined[m] \/ InReach(m, n, joined[m])
                PROVE  Held(m, n)'
    BY <1>6 DEF AllHeld, InReach
  <2>1. CASE n \in 1..executed[m]
    BY <1>9, <2>1 DEF IInv, AllHeld
  <2>2. CASE n \notin 1..executed[m]
    <3>1. m = market /\ n = e
      BY <1>1, <1>2, <2>2 DEF IInv, FeedTyped, e
    <3>2. m \in live
      BY DEF IInv, FeedTyped
    <3>. QED  BY <1>5, <3>1, <3>2 DEF Held
  <2>. QED  BY <2>1, <2>2
<1>. QED  BY <1>7, <1>8, <1>10 DEF IInv

\* A subscription is answered: what is in reach of the answer is on its way, and
\* nothing is executed yet that is after it.
LEMMA AnswerKeeps ==
  ASSUME IInv, NEW market \in Market, Answer(market)
  PROVE  IInv'
<1>. DEFINE u == executed[market]
            regular == Recent(OfType("trade", market, u))
            liquidations == Recent(OfType("liquidation", market, u))
<1>1. UNCHANGED <<kind, executed, session, pending, writerVars>> /\ asked' \subseteq Market
  BY DEF Answer, IInv, FeedTyped
<1>2. Executed' = Executed
  BY <1>1 DEF Executed
<1>3. WriterTyped'
      /\ \A m, n : /\ Among(Contents(WP!InFlight), m, n) => Among(Contents(WP!InFlight), m, n)'
                   /\ Among(trades, m, n) => Among(trades, m, n)'
  BY <1>1, <1>2, WriterAlone DEF IInv
<1>4. session # "waiting" /\ Len(wire) < MaxWire
  BY DEF Answer, IInv, FeedTyped
<1>5. u \in 0..Len(TradesOf[market]) /\ u \in Nat
  BY TradeFeedAssumption, LenProperties DEF IInv, FeedTyped
<1>6. CASE UNCHANGED <<wire, live, joined>>
  <2>1. \A m, n : Held(m, n) => Held(m, n)'
    BY <1>1, <1>3, <1>6 DEF Held
  <2>2. FeedTyped'
    BY <1>1, <1>2, <1>4, <1>6 DEF IInv, FeedTyped
  <2>. QED  BY <1>1, <1>3, <1>6, <2>1, <2>2, HeldStays DEF IInv
<1>7. CASE /\ Deliver(SubscribedFrame(market))
           /\ live' = live \cup {market}
           /\ joined' = [joined EXCEPT ![market] = executed[market]]
  <2>1. \A type : /\ Recent(OfType(type, market, u)) \in Seq(Executed)
                  /\ \A n \in 1..u : (InReach(market, n, u) /\ type = TradesOf[market][n])
                       => Sent(market, n) \in Contents(Recent(OfType(type, market, u)))
    <3>. TAKE type
    <3>1. PICK list \in Seq(Past(market, u)) : list = OfType(type, market, u)
      BY <1>5, OfTypeList DEF IInv, FeedTyped
    <3>2. Recent(list) \in Seq(Past(market, u))
      BY RecentList
    <3>3. Past(market, u) \subseteq Executed
      BY DEF Past, Executed
    <3>4. Seq(Past(market, u)) \subseteq Seq(Executed)
      BY <3>3, SeqMonotonic
    <3>5. ASSUME NEW n \in 1..u, InReach(market, n, u), type = TradesOf[market][n]
          PROVE  Sent(market, n) \in Contents(Recent(OfType(type, market, u)))
      BY <1>5, <3>5, AnswerHolds DEF IInv, FeedTyped
    <3>. QED  BY <3>1, <3>2, <3>4, <3>5
  <2>2. SubscribedFrame(market) = Frame(market, regular, liquidations)
    BY DEF SubscribedFrame
  <2>3. SubscribedFrame(market) \in FrameOf(Executed)
    <3>1. \A s, t \in Seq(Executed) : Frame(market, s, t) \in FrameOf(Executed)
      BY DEF Frame, FrameOf
    <3>. QED  BY <2>1, <2>2, <3>1, Zenon
  <2>4. ASSUME NEW n \in 1..u, InReach(market, n, u)
        PROVE  InFrame(SubscribedFrame(market), market, n)
    <3>1. TradesOf[market][n] \in {"trade", "liquidation"}
      <4>. HIDE DEF u
      <4>1. n \in 1..Len(TradesOf[market])
        BY <1>5
      <4>. QED  BY <4>1, TradeFacts
    <3>2. Sent(market, n) \in Contents(regular) \/ Sent(market, n) \in Contents(liquidations)
      BY <2>1, <2>4, <3>1
    <3>. HIDE DEF regular, liquidations
    <3>. PICK trade : trade = Sent(market, n)
      OBVIOUS
    <3>3. trade.market = market /\ trade.n = n
      BY DEF Sent
    <3>. QED  BY <2>2, <3>2, <3>3 DEF InFrame, Frame, Among
  <2>. HIDE DEF regular, liquidations
  <2>5. /\ wire' \in Seq(FrameOf(Executed)) /\ Len(wire') <= MaxWire
        /\ \A m, n : OnWire(wire, m, n) \/ InFrame(SubscribedFrame(market), m, n)
                       => OnWire(wire', m, n)
    BY <1>4, <1>7, <2>3, ExecutedClosed, DeliverKeeps DEF IInv, FeedTyped
  <2>6. \A m, n : Held(m, n) => Held(m, n)'
    BY <1>1, <1>3, <2>5 DEF Held
  <2>7. /\ joined' \in [Market -> Nat \cup {NotJoined}] /\ joined'[market] = u
        /\ \A m \in Market : m # market => joined'[m] = joined[m]
    BY <1>5, <1>7 DEF IInv, FeedTyped
  <2>8. \A m \in Market : joined'[m] # NotJoined => m \in live' /\ joined'[m] <= executed'[m]
    BY <1>1, <1>5, <1>7, <2>7 DEF IInv, FeedTyped
  <2>9. FeedTyped'
    BY <1>1, <1>2, <1>4, <1>7, <2>5, <2>7, <2>8 DEF IInv, FeedTyped
  <2>10. AllHeld'
    <3>. SUFFICES ASSUME NEW m \in Market, joined'[m] # NotJoined, NEW n \in 1..executed[m],
                         n > joined'[m] \/ InReach(m, n, joined'[m])
                  PROVE  Held(m, n)'
      BY <1>1 DEF AllHeld, InReach
    <3>1. CASE m # market
      BY <2>6, <2>7, <3>1 DEF IInv, AllHeld
    <3>2. CASE m = market
      <4>0. joined'[m] = u /\ n \in 1..u /\ u \in Nat
        BY <1>5, <2>7, <3>2
      <4>1. n \in 1..u /\ InReach(market, n, u)
        <5>. HIDE DEF u
        <5>1. ~(n > u)
          BY <4>0
        <5>. QED  BY <3>2, <4>0, <5>1
      <4>. QED  BY <2>4, <2>5, <3>2, <4>1 DEF Held
    <3>. QED  BY <3>1, <3>2
  <2>. QED  BY <1>3, <2>9, <2>10 DEF IInv
<1>. QED  BY <1>6, <1>7 DEF Answer

\* A frame is taken from the network: its trades are now with the handler.
LEMMA HandleKeeps ==
  ASSUME IInv, HandleTradeFrame
  PROVE  IInv'
<1>1. /\ UNCHANGED <<kind, executed, asked, live, session, joined, writerVars>>
      /\ wire # <<>> /\ wire' = Tail(wire)
      /\ pending = <<>> /\ pending' = Head(wire).trades \o Head(wire).liquidation_trades
      /\ session # "waiting"
  BY DEF HandleTradeFrame, Idle, TradesIn
<1>2. Executed' = Executed
  BY <1>1 DEF Executed
<1>3. WriterTyped'
      /\ \A m, n : /\ Among(Contents(WP!InFlight), m, n) => Among(Contents(WP!InFlight), m, n)'
                   /\ Among(trades, m, n) => Among(trades, m, n)'
  BY <1>1, <1>2, WriterAlone DEF IInv
<1>4. wire \in Seq(FrameOf(Executed)) /\ Len(wire) \in Nat /\ Len(wire) <= MaxWire
  BY LenProperties DEF IInv, FeedTyped
<1>5. /\ Head(wire) \in FrameOf(Executed)
      /\ wire' \in Seq(FrameOf(Executed)) /\ Len(wire') = Len(wire) - 1
      /\ Contents(wire) = {Head(wire)} \cup Contents(wire')
  BY <1>1, <1>4, ContentsHeadTail
<1>6. Head(wire).trades \in Seq(Executed) /\ Head(wire).liquidation_trades \in Seq(Executed)
  BY <1>5 DEF FrameOf
<1>7. /\ pending' \in Seq(Executed)
      /\ Contents(pending') =
           Contents(Head(wire).trades) \cup Contents(Head(wire).liquidation_trades)
  BY <1>1, <1>6, ConcatProperties, ContentsFacts
<1>8. \A m, n : OnWire(wire, m, n) => OnWire(wire', m, n) \/ Among(Contents(pending'), m, n)
  BY <1>5, <1>7 DEF OnWire, InFrame, Among
<1>9. \A m, n : Held(m, n) => Held(m, n)'
  <2>1. \A m, n : ~Among(Contents(pending), m, n)
    BY <1>1, ContentsFacts DEF Among
  <2>. QED  BY <1>3, <1>8, <2>1 DEF Held
<1>10. FeedTyped'
  BY <1>1, <1>2, <1>4, <1>5, <1>7, TradeFeedAssumption DEF IInv, FeedTyped
<1>. QED  BY <1>1, <1>3, <1>9, <1>10, HeldStays DEF IInv

\* The handler sends the next trade to the writer.
LEMMA SendRowKeeps ==
  ASSUME IInv, SendRow
  PROVE  IInv'
<1>. PICK row : row = Head(pending)
  OBVIOUS
<1>1. /\ UNCHANGED <<kind, executed, asked, live, wire, session, joined>>
      /\ pending # <<>> /\ pending' = Tail(pending)
      /\ row.is # "unreadable" /\ Writer!Enqueue(row)
  BY DEF SendRow
<1>2. Executed' = Executed
  BY <1>1 DEF Executed
<1>3. /\ row \in Executed /\ pending' \in Seq(Executed)
      /\ Contents(pending) = {row} \cup Contents(pending')
  BY <1>1, ContentsHeadTail DEF IInv, FeedTyped
<1>4. /\ WriterTyped'
      /\ Contents(WP!InFlight') = Contents(WP!InFlight) \cup {row}
      /\ UNCHANGED trades
  BY <1>1, <1>2, <1>3, WriterTakes DEF IInv
<1>5. \A m, n : Held(m, n) => Held(m, n)'
  BY <1>1, <1>3, <1>4 DEF Held, Among
<1>6. FeedTyped'
  BY <1>1, <1>2, <1>3 DEF IInv, FeedTyped
<1>. QED  BY <1>1, <1>4, <1>5, <1>6, HeldStays DEF IInv

-----------------------------------------------------------------------------
(* The theorems *)

LEMMA InitInv == Init => IInv
<1>. SUFFICES ASSUME Init PROVE IInv
  OBVIOUS
<1>1. FeedTyped
  <2>1. /\ <<>> \in Seq(FrameOf(Executed)) /\ <<>> \in Seq(Executed) /\ Len(<<>>) <= MaxWire
        /\ \A m \in Market : Len(TradesOf[m]) \in Nat
    BY EmptySeq, LenProperties, TradeFeedAssumption
  <2>. QED  BY <2>1 DEF Init, FeedTyped
<1>2. WriterTyped
  <2>1. WP!Init
    BY SameWriter DEF Init
  <2>2. WP!Typed
    BY <2>1, WP!InitTyped, WriterAssumed
  <2>3. WP!InFlight = <<>> /\ trades = {} /\ phase = "idle"
    BY <2>1 DEF WP!Init, WP!InFlight
  <2>. QED  BY <2>2, <2>3, ContentsFacts DEF WriterTyped
<1>3. AllHeld
  BY DEF Init, AllHeld
<1>. QED  BY <1>1, <1>2, <1>3 DEF IInv

\* Every step keeps the invariant.
LEMMA NextInv ==
  ASSUME IInv, [Next]_vars
  PROVE  IInv'
<1>1. ASSUME NEW m \in Market, Execute(m) \/ Answer(m)
      PROVE  IInv'
  BY <1>1, ExecuteKeeps, AnswerKeeps
<1>2. CASE Connect
  <2>1. Executed' = Executed /\ UNCHANGED <<executed, joined, wire, pending, writerVars>>
    BY <1>2 DEF Connect, Executed
  <2>2. FeedTyped'
    BY <1>2, <2>1 DEF Connect, IInv, FeedTyped
  <2>3. WriterTyped' /\ \A m, n : Held(m, n) => Held(m, n)'
    BY <2>1, WriterAlone DEF IInv, Held
  <2>. QED  BY <2>1, <2>2, <2>3, HeldStays DEF IInv
<1>3. ASSUME EndSession, UNCHANGED writerVars
      PROVE  IInv'
  <2>1. FeedTyped' /\ AllHeld' /\ Executed' = Executed
    BY <1>3, SessionEnds DEF IInv
  <2>. QED  BY <1>3, <2>1, WriterAlone DEF IInv
<1>4. ASSUME EndSession, Writer!EndProcess
      PROVE  IInv'
  <2>1. FeedTyped' /\ AllHeld' /\ Executed' = Executed
    BY <1>4, SessionEnds DEF IInv
  <2>. QED  BY <1>4, <2>1, WriterEnds DEF IInv
<1>5. CASE HandleTradeFrame \/ SendRow
  BY <1>5, HandleKeeps, SendRowKeeps
<1>6. CASE WriterStep
  <2>1. Executed' = Executed /\ UNCHANGED feedVars
    BY <1>6 DEF WriterStep, feedVars, Executed
  <2>2. FeedTyped' /\ UNCHANGED <<executed, joined, wire, pending>>
    BY <2>1 DEF feedVars, IInv, FeedTyped
  <2>3. /\ WriterTyped'
        /\ \A m, n : Among(Contents(WP!InFlight), m, n) \/ Among(trades, m, n)
                       => Among(Contents(WP!InFlight), m, n)' \/ Among(trades, m, n)'
    BY <1>6, WriterMoves DEF IInv
  <2>4. \A m, n : Held(m, n) => Held(m, n)'
    BY <2>2, <2>3 DEF Held
  <2>. QED  BY <2>2, <2>3, <2>4, HeldStays DEF IInv
<1>7. CASE UNCHANGED vars
  <2>1. Executed' = Executed /\ UNCHANGED feedVars /\ UNCHANGED writerVars
    BY <1>7 DEF vars, feedVars, Executed
  <2>2. FeedTyped' /\ UNCHANGED <<executed, joined, wire, pending>>
    BY <2>1 DEF feedVars, IInv, FeedTyped
  <2>3. WriterTyped' /\ \A m, n : Held(m, n) => Held(m, n)'
    BY <2>1, <2>2, WriterAlone DEF IInv, Held
  <2>. QED  BY <2>2, <2>3, HeldStays DEF IInv
<1>8. CASE ConnectionEnds \/ RejectFrame \/ TradeRowFails
  BY <1>3, <1>8 DEF ConnectionEnds, RejectFrame, TradeRowFails
<1>9. CASE FlushFails \/ Exit
  BY <1>4, <1>9 DEF FlushFails, Exit
<1>. QED  BY <1>1, <1>2, <1>5, <1>6, <1>7, <1>8, <1>9 DEF Next

\* The invariant holds of every behaviour of the trade path: through garbled
\* frames, lost connections, refused rows and exits, whatever the markets, their
\* trades, the capacities and the replay.
THEOREM Invariance == Spec => []IInv
<1>. QED  BY InitInv, NextInv, PTL DEF Spec

\* What the table holds are trades that the exchange executed, unchanged, and
\* a session that waits has nothing left of the connection before
\* (handle_trade_frame, run_ws_ingestion, insert_trades).
THEOREM TypeCorrect == Spec => []TypeOK
<1>1. IInv => TypeOK
  <2>. SUFFICES ASSUME IInv PROVE TypeOK
    OBVIOUS
  <2>1. ASSUME NEW row \in trades
        PROVE  \E m \in Market : \E n \in 1..executed[m] : row = Good(m, n)
    <3>1. row \in Trade /\ row.n <= executed[row.market] /\ row.is = "good"
      BY DEF IInv, WriterTyped, Executed
    <3>2. /\ row = [market |-> row.market, n |-> row.n, is |-> row.is]
          /\ row.market \in Market /\ row.n \in 1..Len(TradesOf[row.market])
      BY <3>1, TradeFacts
    <3>. PICK m, n : m = row.market /\ n = row.n
      OBVIOUS
    <3>3. m \in Market /\ n \in 1..executed[m]
      <4>1. executed[m] \in Nat /\ Len(TradesOf[m]) \in Nat
        BY <3>2, TradeFeedAssumption, LenProperties DEF IInv, FeedTyped
      <4>. QED  BY <3>1, <3>2, <4>1
    <3>4. row = Good(m, n)
      BY <3>1, <3>2 DEF Good
    <3>. QED  BY <3>3, <3>4
  <2>. QED  BY <2>1 DEF TypeOK, IInv, FeedTyped
<1>. QED  BY <1>1, Invariance, PTL

\* No trade is left out (NoTradeLeftOut): a connection that was answered for a
\* market has every trade in the answer's reach, and every later one, stored or
\* on its way, also those that a handler, a batch or a process lost before
\* (the subscription's answer read by handle_trade_frame; the trades of a flush
\* stay in writer_task's hands until insert_trades is done).
THEOREM NothingLeftOut == Spec => []NoTradeLeftOut
<1>1. IInv => NoTradeLeftOut
  <2>. SUFFICES ASSUME IInv, NEW m, NEW n, Held(m, n)
                PROVE  <<m, n>> \in Stored \cup OnItsWay
    BY DEF NoTradeLeftOut, IInv, AllHeld
  <2>1. \A list : Among(Contents(list), m, n) => <<m, n>> \in Numbers(list)
    BY DEF Among, Contents, Numbers
  <2>2. CASE OnWire(wire, m, n)
    <3>1. PICK i \in DOMAIN wire : InFrame(wire[i], m, n)
      BY <2>2 DEF OnWire, Contents
    <3>2. <<m, n>> \in Numbers(wire[i].trades) \cup Numbers(wire[i].liquidation_trades)
      BY <2>1, <3>1 DEF InFrame
    <3>. QED  BY <3>2 DEF OnItsWay
  <2>3. CASE Among(Contents(pending), m, n)
    BY <2>1, <2>3 DEF OnItsWay
  <2>4. CASE Among(Contents(WP!InFlight), m, n)
    BY <2>1, <2>4, SameWriter DEF OnItsWay
  <2>5. CASE Among(trades, m, n)
    BY <2>5 DEF Among, Stored
  <2>. QED  BY <2>2, <2>3, <2>4, <2>5 DEF Held
<1>. QED  BY <1>1, Invariance, PTL
-----------------------------------------------------------------------------
(* Keepalive: the time between two writes to the connection.               *)
(*                                                                         *)
(* The invariant is a budget of time.  Until the ping is due, the time we  *)
(* have been silent and the time to the tick stay within the interval.     *)
(* From then on, time passes only while a handler waits for a full channel *)
(* behind a flush.  A row of that handler finds room when one is received, *)
(* and at most one flush can start for each row that is received, so what  *)
(* it may still have to wait is bounded by Delay; each branch that         *)
(* overtakes the ping has a budget of its own.                             *)

\* The longest that one handler can wait for the channel.
HandlerTime == MaxFrameRows * FlushTime

\* Rows of the running handler that there is no room for yet.
Short == toSend + inChannel - ChannelRoom

\* The longest that the running handler may still wait: a row is received,
\* and a flush can start, for each of them but the one that waits already.
Delay ==
  IF Short <= 0 THEN 0
  ELSE IF flush = 0 /\ inBatch > 0 THEN Short * FlushTime
  ELSE flush + (Short - 1) * FlushTime

\* The time for the branches that may still overtake a ping that is due, when o
\* have, and for all of them, the handler that is running and the interval.
Allowance(o) == (MaxOvertakes - o) * HandlerTime
Budget == KeepaliveInterval + (MaxOvertakes + 1) * HandlerTime

\* The inductive invariant.
AliveInv ==
  /\ KeepaliveTypeOK
  /\ due > 0 => idle + due <= KeepaliveInterval /\ overtaken = 0
  /\ due = 0 => idle + Delay + Allowance(overtaken) < Budget
-----------------------------------------------------------------------------
LEMMA AliveConstants ==
  /\ KeepaliveInterval \in Nat \ {0} /\ FlushTime \in Nat \ {0}
  /\ MaxFrameRows \in Nat \ {0}
  /\ ChannelRoom \in Nat \ {0} /\ BatchRoom \in Nat \ {0}
  /\ ReadDeadline \in Nat /\ MaxOvertakes \in Nat
BY KeepaliveAssumption

\* Products of the constants, for provers that do not multiply.
LEMMA AliveProducts ==
  /\ HandlerTime \in Nat \ {0}
  /\ \A k \in Int : k * FlushTime \in Int /\ (k - 1) * FlushTime = k * FlushTime - FlushTime
  /\ \A k \in 1..MaxFrameRows : FlushTime <= k * FlushTime /\ k * FlushTime <= HandlerTime
  /\ \A o \in 0..MaxOvertakes :
       /\ Allowance(o) \in Nat
       /\ Allowance(o) + KeepaliveInterval + HandlerTime <= Budget
       /\ Allowance(o + 1) = Allowance(o) - HandlerTime
  /\ Budget \in Nat /\ Budget <= ReadDeadline
<1>1. /\ FlushTime \in Nat \ {0} /\ MaxFrameRows \in Nat \ {0} /\ MaxOvertakes \in Nat
  BY AliveConstants
<1>2. HandlerTime \in Nat \ {0}
  BY <1>1 DEF HandlerTime
<1>3. \A k \in Int : k * FlushTime \in Int /\ (k - 1) * FlushTime = k * FlushTime - FlushTime
  BY <1>1
<1>4. ASSUME NEW k \in 1..MaxFrameRows
      PROVE  FlushTime <= k * FlushTime /\ k * FlushTime <= HandlerTime
  <2>1. \A a, b, c \in Nat : a <= b => a * c <= b * c
    OBVIOUS
  <2>2. k \in Nat /\ 1 \in Nat /\ 1 <= k /\ k <= MaxFrameRows /\ 1 * FlushTime = FlushTime
    BY <1>1
  <2>. QED  BY <1>1, <2>1, <2>2 DEF HandlerTime
<1>. PICK h \in Nat \ {0} : h = HandlerTime
  BY <1>2
<1>5. ASSUME NEW o \in 0..MaxOvertakes
      PROVE  /\ Allowance(o) \in Nat
             /\ Allowance(o) + KeepaliveInterval + HandlerTime <= Budget
             /\ Allowance(o + 1) = Allowance(o) - HandlerTime
  <2>1. \A a, b, c \in Nat : a <= b => a * c <= b * c
    OBVIOUS
  <2>2. MaxOvertakes - o \in Nat /\ MaxOvertakes - o <= MaxOvertakes
    BY <1>1
  <2>3. (MaxOvertakes - o) * h \in Nat /\ (MaxOvertakes - o) * h <= MaxOvertakes * h
    BY <1>1, <2>1, <2>2
  <2>4. (MaxOvertakes - (o + 1)) * h = (MaxOvertakes - o) * h - h
    BY <1>1
  <2>5. (MaxOvertakes + 1) * h = MaxOvertakes * h + h /\ MaxOvertakes * h \in Nat
    BY <1>1
  <2>6. KeepaliveInterval \in Nat
    BY AliveConstants
  <2>. QED  BY <2>3, <2>4, <2>5, <2>6 DEF Allowance, Budget
<1>6. Budget \in Nat /\ Budget <= ReadDeadline
  <2>1. (MaxOvertakes + 1) * MaxFrameRows * FlushTime = (MaxOvertakes + 1) * HandlerTime
    BY <1>1 DEF HandlerTime
  <2>2. KeepaliveInterval \in Nat /\ (MaxOvertakes + 1) * h \in Nat
    BY <1>1, AliveConstants
  <2>3. KeepaliveInterval + (MaxOvertakes + 1) * MaxFrameRows * FlushTime <= ReadDeadline
    BY KeepaliveAssumption
  <2>. QED  BY <2>1, <2>2, <2>3 DEF Budget
<1>. QED  BY <1>2, <1>3, <1>4, <1>5, <1>6

\* What TypeOK says of the two queues, as numbers.
LEMMA AliveNumbers ==
  ASSUME KeepaliveTypeOK
  PROVE  /\ ChannelRoom \in Nat \ {0} /\ BatchRoom \in Nat \ {0}
         /\ FlushTime \in Nat \ {0} /\ MaxFrameRows \in Nat \ {0}
         /\ toSend \in 0..MaxFrameRows /\ inChannel \in 0..ChannelRoom
         /\ inBatch \in 0..(BatchRoom - 1) /\ flush \in 0..FlushTime
         /\ flush > 0 => inBatch = 0
         /\ Short \in Int /\ Short <= toSend
BY AliveConstants DEF KeepaliveTypeOK, Short

\* A summand is at most the sum.
LEMMA SumBounds == \A a, b, c \in Nat : a + b <= c => a <= c
  OBVIOUS

\* No handler waits longer than a flush for each of its rows.
LEMMA DelayBound ==
  ASSUME KeepaliveTypeOK
  PROVE  /\ Delay \in Nat
         /\ Delay <= HandlerTime
         /\ toSend = 0 => Delay = 0
<1>1. CASE Short <= 0
  BY <1>1, AliveProducts DEF Delay
<1>2. CASE Short > 0
  <2>1. Short \in 1..MaxFrameRows /\ toSend # 0 /\ flush \in 0..FlushTime
    BY <1>2, AliveNumbers
  <2>2. /\ Short * FlushTime \in Int
        /\ (Short - 1) * FlushTime = Short * FlushTime - FlushTime
        /\ FlushTime <= Short * FlushTime /\ Short * FlushTime <= HandlerTime
    BY <2>1, AliveProducts
  <2>3. FlushTime \in Nat /\ HandlerTime \in Nat
    BY AliveProducts, AliveNumbers
  <2>. QED  BY <1>2, <2>1, <2>2, <2>3 DEF Delay
<1>. QED  BY <1>1, <1>2, AliveNumbers

\* Time that passes while a handler waits is taken from what it may wait: it
\* waits for a flush, behind a full channel.
LEMMA DelayElapses ==
  ASSUME KeepaliveTypeOK, Elapse, toSend > 0
  PROVE  Delay > 0 /\ Delay' = Delay - 1
<1>1. /\ inChannel = ChannelRoom /\ flush > 0 /\ inBatch = 0 /\ flush' = flush - 1
      /\ toSend' = toSend /\ inChannel' = inChannel /\ inBatch' = inBatch
  BY AliveNumbers DEF Elapse, SomeTaskCanGoOn, AfterOneTick
<1>2. Short = toSend /\ Short' = toSend /\ toSend \in 1..MaxFrameRows
  BY <1>1, AliveNumbers DEF Short
<1>3. (toSend - 1) * FlushTime \in Nat
  BY <1>2, AliveNumbers
<1>4. Delay = flush + (toSend - 1) * FlushTime
  BY <1>1, <1>2 DEF Delay
<1>5. Delay' = flush' + (toSend - 1) * FlushTime
  <2>1. ~(Short' <= 0) /\ ~(flush' = 0 /\ inBatch' > 0)
    BY <1>1, <1>2
  <2>. QED  BY <1>2, <2>1 DEF Delay
<1>. QED  BY <1>1, <1>3, <1>4, <1>5, AliveNumbers

\* The writer's steps never make the wait longer: a flush that starts is one of
\* those counted, and each row received makes room for one.
LEMMA DelayOfWriter ==
  ASSUME KeepaliveTypeOK, Receive \/ Tick
  PROVE  Delay' <= Delay
<1>0. Delay \in Nat
  BY DelayBound, Zenon
<1>1. toSend' = toSend /\ flush = 0
  BY DEF Receive, Tick, sessionVars
<1>2. CASE Receive /\ inBatch + 1 # BatchRoom
  <2>1. /\ Short' = Short - 1 /\ flush' = 0 /\ inBatch' > 0
    BY <1>1, <1>2, AliveNumbers DEF Receive, Short
  <2>2. CASE Short' <= 0
    BY <1>0, <2>2 DEF Delay
  <2>3. CASE ~(Short' <= 0)
    <3>1. /\ ~(Short <= 0) /\ Short \in 1..MaxFrameRows
      BY <2>1, <2>3, AliveNumbers
    <3>2. Delay' = Short' * FlushTime
      BY <2>1, <2>3 DEF Delay
    <3>3. /\ (Short - 1) * FlushTime = Short * FlushTime - FlushTime
          /\ Short * FlushTime \in Int /\ FlushTime \in Nat
      BY <3>1, AliveProducts, AliveNumbers
    <3>4. Delay = Short * FlushTime \/ Delay = (Short - 1) * FlushTime
      BY <1>1, <3>1, <3>3 DEF Delay
    <3>. QED  BY <2>1, <3>2, <3>3, <3>4
  <2>. QED  BY <2>2, <2>3
<1>3. CASE Receive /\ inBatch + 1 = BatchRoom
  <2>1. Short' = Short - 1 /\ inBatch' = 0 /\ flush' \in 0..FlushTime
    BY <1>1, <1>3, AliveNumbers DEF Receive, FlushStarts, Short
  <2>2. CASE Short' <= 0
    BY <1>0, <2>2 DEF Delay
  <2>3. CASE ~(Short' <= 0)
    <3>1. /\ ~(Short <= 0) /\ Short \in 1..MaxFrameRows /\ Short - 1 \in Int
      BY <2>1, <2>3, AliveNumbers
    <3>2. Delay' = flush' + (Short' - 1) * FlushTime
      BY <2>1, <2>3 DEF Delay
    <3>3. /\ (Short - 1) * FlushTime = Short * FlushTime - FlushTime
          /\ ((Short - 1) - 1) * FlushTime = (Short - 1) * FlushTime - FlushTime
          /\ Short * FlushTime \in Int /\ FlushTime \in Nat
      BY <3>1, AliveProducts, AliveNumbers
    <3>4. Delay = Short * FlushTime \/ Delay = (Short - 1) * FlushTime
      BY <1>1, <3>1, <3>3 DEF Delay
    <3>. QED  BY <2>1, <3>2, <3>3, <3>4
  <2>. QED  BY <2>2, <2>3
<1>4. CASE Tick
  <2>1. Short' = Short /\ inBatch' = 0 /\ flush' \in 0..FlushTime /\ inBatch > 0
    BY <1>1, <1>4 DEF Tick, FlushStarts, Short
  <2>2. CASE Short' <= 0
    BY <1>0, <2>2 DEF Delay
  <2>3. CASE ~(Short' <= 0)
    <3>1. ~(Short <= 0) /\ Short \in 1..MaxFrameRows
      BY <2>1, <2>3, AliveNumbers
    <3>2. Delay' = flush' + (Short' - 1) * FlushTime
      BY <2>1, <2>3 DEF Delay
    <3>3. /\ (Short - 1) * FlushTime = Short * FlushTime - FlushTime
          /\ Short * FlushTime \in Int /\ FlushTime \in Nat
      BY <3>1, AliveProducts, AliveNumbers
    <3>4. Delay = Short * FlushTime
      BY <1>1, <2>1, <3>1 DEF Delay
    <3>. QED  BY <2>1, <3>2, <3>3, <3>4
  <2>. QED  BY <2>2, <2>3
<1>. QED  BY <1>2, <1>3, <1>4
-----------------------------------------------------------------------------
\* Every step keeps the types (run_ws_ingestion, run_db_writer).
LEMMA AliveTypesKept ==
  ASSUME KeepaliveTypeOK, [KeepaliveNext]_keepaliveVars
  PROVE  KeepaliveTypeOK'
<1>. USE DEF KeepaliveTypeOK
<1>1. ASSUME NEW rows \in 1..MaxFrameRows, RunHandler(rows) PROVE KeepaliveTypeOK'
  <2>1. overtaken' \in 0..MaxOvertakes
    BY <1>1, AliveConstants DEF RunHandler
  <2>. QED  BY <1>1, <2>1 DEF RunHandler, queueVars
<1>2. CASE Send
  BY <1>2, AliveConstants DEF Send, queueVars
<1>3. CASE KeepaliveTick
  BY <1>3, AliveConstants DEF KeepaliveTick, queueVars
<1>4. CASE AnswerPing
  <2>1. overtaken' \in 0..MaxOvertakes
    BY <1>4, AliveConstants DEF AnswerPing
  <2>. QED  BY <1>4, <2>1 DEF AnswerPing, queueVars
<1>5. CASE Reconnect
  BY <1>5, AliveConstants DEF Reconnect, queueVars
<1>6. CASE Receive
  BY <1>6, AliveConstants DEF Receive, FlushStarts, sessionVars
<1>7. CASE Tick
  BY <1>7, AliveConstants DEF Tick, FlushStarts, sessionVars
<1>8. CASE Elapse
  BY <1>8, AliveConstants DEF Elapse, AfterOneTick
<1>9. CASE UNCHANGED keepaliveVars
  BY <1>9 DEF keepaliveVars, sessionVars, queueVars
<1>. QED  BY <1>1, <1>2, <1>3, <1>4, <1>5, <1>6, <1>7, <1>8, <1>9 DEF KeepaliveNext, KeepaliveStep

THEOREM AliveInvariance == KeepaliveSpec => []AliveInv
<1>1. KeepaliveInit => AliveInv
  <2>. SUFFICES ASSUME KeepaliveInit PROVE AliveInv
    OBVIOUS
  <2>1. KeepaliveTypeOK
    BY AliveConstants DEF KeepaliveInit, KeepaliveTypeOK
  <2>. QED  BY <2>1, AliveConstants DEF KeepaliveInit, AliveInv
<1>2. AliveInv /\ [KeepaliveNext]_keepaliveVars => AliveInv'
  <2>. SUFFICES ASSUME AliveInv, [KeepaliveNext]_keepaliveVars PROVE AliveInv'
    OBVIOUS
  <2>1. KeepaliveTypeOK /\ KeepaliveTypeOK'
    BY AliveTypesKept DEF AliveInv
  <2>2. /\ Delay \in Nat /\ Delay <= HandlerTime /\ (toSend = 0 => Delay = 0)
        /\ Delay' \in Nat /\ Delay' <= HandlerTime /\ (toSend' = 0 => Delay' = 0)
    <3>1. KeepaliveTypeOK => Delay \in Nat /\ Delay <= HandlerTime /\ (toSend = 0 => Delay = 0)
      BY DelayBound
    <3>2. (KeepaliveTypeOK => Delay \in Nat /\ Delay <= HandlerTime /\ (toSend = 0 => Delay = 0))'
      BY DelayBound, PTL
    <3>3. HandlerTime' = HandlerTime
      BY DEF HandlerTime
    <3>. QED  BY <2>1, <3>1, <3>2, <3>3
  <2>3. /\ idle \in Nat /\ idle' \in Nat
        /\ due \in 0..KeepaliveInterval /\ due' \in 0..KeepaliveInterval
        /\ overtaken \in 0..MaxOvertakes /\ overtaken' \in 0..MaxOvertakes
    BY <2>1 DEF KeepaliveTypeOK
  <2>4. /\ HandlerTime \in Nat \ {0} /\ KeepaliveInterval \in Nat \ {0}
        /\ Budget \in Nat
        /\ \A o \in 0..MaxOvertakes :
             /\ Allowance(o) \in Nat
             /\ Allowance(o) + KeepaliveInterval + HandlerTime <= Budget
             /\ Allowance(o + 1) = Allowance(o) - HandlerTime
    BY AliveProducts, AliveConstants
  <2>5. \A o \in 0..MaxOvertakes : \A d, i \in Nat :
          d <= HandlerTime /\ (i = 0 \/ (i <= KeepaliveInterval /\ d < HandlerTime))
            => i + d + Allowance(o) < Budget
    BY <2>4
  <2>6. ASSUME idle' = idle, due' = due, overtaken' = overtaken, Delay' <= Delay
        PROVE  AliveInv'
    BY <2>1, <2>2, <2>3, <2>4, <2>6 DEF AliveInv
  <2>7. ASSUME idle' = 0, due' > 0 => overtaken' = 0
        PROVE  AliveInv'
    BY <2>1, <2>2, <2>3, <2>5, <2>7 DEF AliveInv
  <2>8. ASSUME NEW rows \in 1..MaxFrameRows, RunHandler(rows) PROVE AliveInv'
    <3>1. /\ Delay = 0 /\ idle' = idle /\ due' = due
          /\ overtaken' = IF due = 0 THEN overtaken + 1 ELSE 0
      BY <2>2, <2>8 DEF RunHandler, Waiting
    <3>2. CASE due = 0
      BY <2>1, <2>2, <2>3, <2>4, <3>1, <3>2 DEF AliveInv
    <3>3. CASE due # 0
      BY <2>1, <2>3, <3>1, <3>3 DEF AliveInv
    <3>. QED  BY <3>2, <3>3
  <2>9. CASE Send
    <3>1. Short' = Short /\ flush' = flush /\ inBatch' = inBatch
      BY <2>9, AliveNumbers, <2>1 DEF Send, Short, queueVars
    <3>2. Delay' = Delay
      BY <3>1 DEF Delay
    <3>. QED  BY <2>2, <2>6, <2>9, <3>2 DEF Send
  <2>10. CASE KeepaliveTick
    BY <2>7, <2>10 DEF KeepaliveTick
  <2>11. CASE AnswerPing
    BY <2>3, <2>7, <2>11 DEF AnswerPing
  <2>12. CASE Reconnect
    BY <2>7, <2>12 DEF Reconnect
  <2>13. CASE Receive \/ Tick
    BY <2>1, <2>6, <2>13, DelayOfWriter DEF Receive, Tick, sessionVars
  <2>14. CASE Elapse
    <3>1. idle' = idle + 1 /\ overtaken' = overtaken /\ toSend' = toSend
          /\ due' = IF due > 0 THEN due - 1 ELSE 0
      BY <2>14 DEF Elapse, AfterOneTick
    <3>2. toSend > 0 => Delay > 0 /\ Delay' = Delay - 1
      BY <2>1, <2>14, DelayElapses
    <3>3. CASE due = 0
      <4>1. toSend > 0
        BY <2>1, <2>14, <3>3, AliveNumbers DEF Elapse, SomeTaskCanGoOn, Waiting
      <4>. QED  BY <2>1, <2>2, <2>3, <2>4, <3>1, <3>2, <3>3, <4>1 DEF AliveInv
    <3>4. CASE due > 0
      <4>1. idle + due <= KeepaliveInterval /\ overtaken = 0
        BY <3>4 DEF AliveInv
      <4>2. Delay' < HandlerTime
        <5>1. CASE toSend = 0
          BY <2>2, <2>4, <3>1, <5>1
        <5>2. CASE toSend > 0
          BY <2>2, <2>4, <3>2, <5>2
        <5>. QED  BY <2>1, <5>1, <5>2, AliveNumbers
      <4>3. due' = due - 1 /\ idle' + due' <= KeepaliveInterval /\ overtaken' = 0
        BY <2>3, <3>1, <3>4, <4>1
      <4>4. idle' <= KeepaliveInterval
        <5>1. idle' \in Nat /\ due' \in Nat /\ KeepaliveInterval \in Nat
          BY <2>3, AliveConstants
        <5>2. idle' + due' <= KeepaliveInterval
          BY <4>3
        <5>. QED  BY <5>1, <5>2, SumBounds, Zenon
      <4>5. idle' + Delay' + Allowance(overtaken') < Budget
        BY <2>2, <2>3, <2>5, <4>2, <4>4, Zenon
      <4>. QED  BY <2>1, <4>3, <4>5 DEF AliveInv
    <3>. QED  BY <2>3, <3>3, <3>4
  <2>15. CASE UNCHANGED keepaliveVars
    <3>1. Delay' = Delay
      BY <2>15 DEF Delay, Short, keepaliveVars, sessionVars, queueVars
    <3>. QED  BY <2>2, <2>6, <2>15, <3>1 DEF keepaliveVars, sessionVars
  <2>. QED  BY <2>8, <2>9, <2>10, <2>11, <2>12, <2>13, <2>14, <2>15 DEF KeepaliveNext, KeepaliveStep
<1>. QED  BY <1>1, <1>2, PTL DEF KeepaliveSpec

\* Nothing is received during a flush, and the ping is overtaken no more often
\* than the bound says (run_ws_ingestion, run_db_writer).
THEOREM AliveTypes == KeepaliveSpec => []KeepaliveTypeOK
<1>1. AliveInv => KeepaliveTypeOK
  BY DEF AliveInv
<1>. QED  BY <1>1, AliveInvariance, PTL

\* The proxy never waits for its deadline, for any interval, channel, batch and
\* flush time that the assumption allows (KEEPALIVE_INTERVAL).
THEOREM KeptAlive == KeepaliveSpec => []NeverSilentTooLong
<1>1. AliveInv => NeverSilentTooLong
  <2>. SUFFICES ASSUME AliveInv PROVE idle < ReadDeadline
    BY DEF NeverSilentTooLong
  <2>1. /\ KeepaliveTypeOK /\ idle \in Nat /\ due \in 0..KeepaliveInterval
        /\ overtaken \in 0..MaxOvertakes
    BY DEF AliveInv, KeepaliveTypeOK
  <2>2. /\ Delay \in Nat /\ Allowance(overtaken) \in Nat
        /\ Budget \in Nat /\ Budget <= ReadDeadline
        /\ KeepaliveInterval + HandlerTime <= Budget
        /\ HandlerTime \in Nat \ {0} /\ KeepaliveInterval \in Nat /\ ReadDeadline \in Nat
    <3>1. Delay \in Nat
      BY <2>1, DelayBound, Zenon
    <3>2. Allowance(overtaken) \in Nat /\ Allowance(overtaken) + KeepaliveInterval + HandlerTime <= Budget
      BY <2>1, AliveProducts
    <3>. QED  BY <3>1, <3>2, AliveProducts, AliveConstants
  <2>. QED  BY <2>1, <2>2 DEF AliveInv
<1>. QED  BY <1>1, AliveInvariance, PTL
=============================================================================
