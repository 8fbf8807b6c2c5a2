---------------------------- MODULE SequenceLemmas ----------------------------
(***************************************************************************)
(* Lemmas about sequences, finite sets, sums and quotients, cited by the    *)
(* proofs of the components: what happens to a counting sequence in the     *)
(* hands of the agents, what Filter leaves of a list, induction on numbers  *)
(* and on finite sets, lists as enumerations of sets, sums over sets.       *)
(***************************************************************************)
EXTENDS Counting, Collections, FiniteSets, FiniteSetsExt, SequencesExt,
        SequenceTheorems, FiniteSetTheorems, TLAPS

-----------------------------------------------------------------------------
(* Counting sequences. *)

\* Appending the next number keeps a counting sequence counting: what an event
\* does to a channel or a batch.
LEMMA CountsAppend ==
    ASSUME NEW n \in Nat, NEW s \in Seq(Nat), NEW e, e = n + Len(s) + 1, CountsFrom(n, s)
    PROVE  /\ CountsFrom(n, Append(s, e))
           /\ Append(s, e) \in Seq(Nat)
           /\ Len(Append(s, e)) = Len(s) + 1
<1>1. e \in Nat  BY LenProperties
<1>2. /\ Append(s, e) \in Seq(Nat)
      /\ Len(Append(s, e)) = Len(s) + 1
      /\ \A i \in 1 .. Len(s) : Append(s, e)[i] = s[i]
      /\ Append(s, e)[Len(s) + 1] = e
  BY <1>1, AppendProperties
<1>3. DOMAIN Append(s, e) = 1 .. Len(s) + 1 /\ DOMAIN s = 1 .. Len(s) /\ Len(s) \in Nat
  BY <1>2, LenProperties
<1>4. QED  BY <1>2, <1>3 DEF CountsFrom

\* Taking the head off a counting sequence: the head is the first number, the
\* tail counts on from it.
LEMMA CountsTail ==
    ASSUME NEW n \in Nat, NEW s \in Seq(Nat), s # <<>>, CountsFrom(n, s)
    PROVE  /\ Head(s) = n + 1
           /\ CountsFrom(n + 1, Tail(s))
           /\ Tail(s) \in Seq(Nat)
           /\ Len(Tail(s)) = Len(s) - 1
<1>1. /\ Tail(s) \in Seq(Nat)
      /\ Len(Tail(s)) = Len(s) - 1
      /\ \A i \in 1 .. Len(Tail(s)) : Tail(s)[i] = s[i + 1]
  BY HeadTailProperties
<1>2. DOMAIN s = 1 .. Len(s) /\ DOMAIN Tail(s) = 1 .. Len(s) - 1
  BY <1>1, LenProperties
<1>3. Len(s) \in Nat \ {0}  BY EmptySeq
<1>4. Head(s) = n + 1
  <2>1. Head(s) = s[1]  OBVIOUS
  <2>2. 1 \in DOMAIN s  BY <1>2, <1>3
  <2>3. QED  BY <2>1, <2>2 DEF CountsFrom
<1>5. CountsFrom(n + 1, Tail(s))
  <2>1. ASSUME NEW i \in DOMAIN Tail(s)  PROVE Tail(s)[i] = n + 1 + i
    <3>1. i \in 1 .. Len(Tail(s)) /\ i + 1 \in DOMAIN s  BY <1>1, <1>2, <1>3, <2>1
    <3>2. Tail(s)[i] = s[i + 1] /\ s[i + 1] = n + (i + 1)  BY <1>1, <3>1 DEF CountsFrom
    <3>3. QED  BY <3>1, <3>2
  <2>2. QED  BY <2>1 DEF CountsFrom
<1>6. QED  BY <1>1, <1>4, <1>5

\* What a counting sequence contains.
LEMMA CountsRange ==
    ASSUME NEW n \in Nat, NEW s \in Seq(Nat), CountsFrom(n, s)
    PROVE  Range(s) = n + 1 .. n + Len(s)
<1>1. DOMAIN s = 1 .. Len(s) /\ Len(s) \in Nat  BY LenProperties
<1>2. ASSUME NEW x \in Range(s)  PROVE x \in n + 1 .. n + Len(s)
  <2>1. PICK i \in DOMAIN s : x = s[i]  BY <1>2 DEF Range
  <2>2. x = n + i  BY <2>1 DEF CountsFrom
  <2>3. QED  BY <1>1, <2>1, <2>2
<1>3. ASSUME NEW x \in n + 1 .. n + Len(s)  PROVE x \in Range(s)
  <2>1. x - n \in DOMAIN s  BY <1>1, <1>3
  <2>2. s[x - n] = n + (x - n)  BY <2>1 DEF CountsFrom
  <2>3. s[x - n] = x  BY <1>1, <1>3, <2>2
  <2>4. QED  BY <2>1, <2>3 DEF Range
<1>4. QED  BY <1>2, <1>3

\* The empty sequence counts from anywhere.
LEMMA CountsEmpty ==
    ASSUME NEW n
    PROVE  CountsFrom(n, <<>>)
BY DEF CountsFrom

\* A single event.
LEMMA CountsOne ==
    ASSUME NEW n \in Nat
    PROVE  CountsFrom(n, <<n + 1>>) /\ <<n + 1>> \in Seq(Nat) /\ Len(<<n + 1>>) = 1
BY DEF CountsFrom

\* Two queues of which the second counts on where the first ends are one.
LEMMA CountsConcat ==
    ASSUME NEW n \in Nat, NEW s \in Seq(Nat), NEW t \in Seq(Nat),
           CountsFrom(n, s), CountsFrom(n + Len(s), t)
    PROVE  /\ CountsFrom(n, s \o t)
           /\ s \o t \in Seq(Nat)
           /\ Len(s \o t) = Len(s) + Len(t)
<1>1. /\ s \o t \in Seq(Nat)
      /\ Len(s \o t) = Len(s) + Len(t)
      /\ \A i \in 1 .. Len(s) + Len(t) : (s \o t)[i] = IF i <= Len(s) THEN s[i] ELSE t[i - Len(s)]
  BY ConcatProperties
<1>2. /\ DOMAIN (s \o t) = 1 .. Len(s) + Len(t)
      /\ DOMAIN s = 1 .. Len(s) /\ DOMAIN t = 1 .. Len(t)
      /\ Len(s) \in Nat /\ Len(t) \in Nat
  BY <1>1, LenProperties
<1>3. ASSUME NEW i \in DOMAIN (s \o t)  PROVE (s \o t)[i] = n + i
  <2>1. CASE i <= Len(s)
    <3>1. i \in DOMAIN s /\ (s \o t)[i] = s[i]  BY <1>1, <1>2, <2>1
    <3>2. QED  BY <3>1 DEF CountsFrom
  <2>2. CASE ~(i <= Len(s))
    <3>1. i - Len(s) \in DOMAIN t /\ (s \o t)[i] = t[i - Len(s)]  BY <1>1, <1>2, <2>2
    <3>2. t[i - Len(s)] = n + Len(s) + (i - Len(s))  BY <3>1 DEF CountsFrom
    <3>3. QED  BY <1>2, <3>1, <3>2
  <2>3. QED  BY <2>1, <2>2
<1>4. QED  BY <1>1, <1>3 DEF CountsFrom

\* The first n numbers of a counting sequence.
LEMMA CountsPrefix ==
    ASSUME NEW b \in Nat, NEW s \in Seq(Nat), NEW n \in 1 .. Len(s), CountsFrom(b, s)
    PROVE  /\ SubSeq(s, 1, n) \in Seq(Nat)
           /\ Len(SubSeq(s, 1, n)) = n
           /\ CountsFrom(b, SubSeq(s, 1, n))
           /\ Range(SubSeq(s, 1, n)) \subseteq Range(s)
<1>1. DOMAIN s = 1 .. Len(s) /\ Len(s) \in Nat  BY LenProperties
<1>2. \A i \in 1 .. n : i \in DOMAIN s /\ s[i] \in Nat  BY <1>1, ElementOfSeq
<1>3. /\ SubSeq(s, 1, n) \in Seq(Nat)
      /\ Len(SubSeq(s, 1, n)) = n
      /\ \A i \in 1 .. n : SubSeq(s, 1, n)[i] = s[i]
  BY <1>1, <1>2, SubSeqProperties
<1>4. DOMAIN SubSeq(s, 1, n) = 1 .. n  BY <1>3, LenProperties
<1>5. CountsFrom(b, SubSeq(s, 1, n))  BY <1>2, <1>3, <1>4 DEF CountsFrom
<1>6. Range(SubSeq(s, 1, n)) \subseteq Range(s)  BY <1>2, <1>3, <1>4 DEF Range
<1>7. QED  BY <1>3, <1>5, <1>6

\* Every element of q comes after all smaller positive numbers.
FirstInOrder(q) == \A j \in DOMAIN q : \A e \in 1 .. q[j] : \E i \in 1 .. j : q[i] = e

\* Appending a run keeps that when all the numbers below the run are there.
LEMMA RunKeepsOrder ==
    ASSUME NEW b \in Nat, NEW q \in Seq(Nat), NEW s \in Seq(Nat), CountsFrom(b, s),
           1 .. b \subseteq Range(q), FirstInOrder(q)
    PROVE  FirstInOrder(q \o s)
<1>1. /\ q \o s \in Seq(Nat)
      /\ Len(q \o s) = Len(q) + Len(s)
      /\ \A i \in 1 .. Len(q) + Len(s) : (q \o s)[i] = IF i <= Len(q) THEN q[i] ELSE s[i - Len(q)]
  BY ConcatProperties
<1>2. /\ DOMAIN (q \o s) = 1 .. Len(q) + Len(s)
      /\ DOMAIN q = 1 .. Len(q) /\ DOMAIN s = 1 .. Len(s)
      /\ Len(q) \in Nat /\ Len(s) \in Nat
  BY <1>1, LenProperties
<1>3. \A i \in DOMAIN q : i \in DOMAIN (q \o s) /\ (q \o s)[i] = q[i]  BY <1>1, <1>2
<1>4. \A k \in DOMAIN s : Len(q) + k \in DOMAIN (q \o s) /\ (q \o s)[Len(q) + k] = b + k
  <2>1. \A k \in DOMAIN s : s[k] = b + k  BY DEF CountsFrom
  <2>2. QED  BY <1>1, <1>2, <2>1
<1>5. SUFFICES ASSUME NEW j \in DOMAIN (q \o s), NEW e \in 1 .. (q \o s)[j]
               PROVE  \E i \in 1 .. j : (q \o s)[i] = e
  BY DEF FirstInOrder
<1>6. CASE j \in DOMAIN q
  <2>1. (q \o s)[j] = q[j]  BY <1>3, <1>6
  <2>2. PICK i \in 1 .. j : q[i] = e  BY <1>5, <1>6, <2>1 DEF FirstInOrder
  <2>3. i \in DOMAIN q  BY <1>2, <1>6, <2>2
  <2>4. QED  BY <1>3, <2>2, <2>3
<1>7. CASE j \notin DOMAIN q
  <2>1. j - Len(q) \in DOMAIN s /\ Len(q) + (j - Len(q)) = j /\ j > Len(q) /\ j \in Nat
    BY <1>2, <1>7
  <2>2. (q \o s)[j] = b + (j - Len(q))  BY <1>4, <2>1
  <2>3. CASE e <= b
    <3>1. e \in Range(q)  BY <1>5, <2>3
    <3>2. PICK i \in DOMAIN q : q[i] = e  BY <3>1 DEF Range
    <3>3. i \in 1 .. j  BY <1>2, <2>1, <3>2
    <3>4. QED  BY <1>3, <3>2, <3>3
  <2>4. CASE ~(e <= b)
    <3>1. e \in Nat /\ e <= b + (j - Len(q))  BY <1>2, <1>5, <2>1, <2>2
    <3>2. e - b \in DOMAIN s /\ Len(q) + (e - b) \in 1 .. j
      BY <1>2, <2>1, <2>4, <3>1
    <3>3. (q \o s)[Len(q) + (e - b)] = b + (e - b)  BY <1>4, <3>2
    <3>4. b + (e - b) = e  BY <3>1
    <3>5. QED  BY <3>2, <3>3, <3>4
  <2>5. QED  BY <2>3, <2>4
<1>8. QED  BY <1>6, <1>7

-----------------------------------------------------------------------------
(* Lists without repetition. *)

Distinct(s) == \A i, j \in DOMAIN s : i # j => s[i] # s[j]

\* Two lists that have nothing in common are one that repeats nothing.
LEMMA DistinctConcat ==
    ASSUME NEW S, NEW s \in Seq(S), NEW t \in Seq(S), Distinct(s), Distinct(t),
           Range(s) \cap Range(t) = {}
    PROVE  s \o t \in Seq(S) /\ Distinct(s \o t) /\ Range(s \o t) = Range(s) \cup Range(t)
<1>1. /\ s \o t \in Seq(S)
      /\ Len(s \o t) = Len(s) + Len(t)
      /\ \A i \in 1 .. Len(s) + Len(t) : (s \o t)[i] = IF i <= Len(s) THEN s[i] ELSE t[i - Len(s)]
  BY ConcatProperties
<1>2. /\ DOMAIN (s \o t) = 1 .. Len(s) + Len(t)
      /\ DOMAIN s = 1 .. Len(s) /\ DOMAIN t = 1 .. Len(t)
      /\ Len(s) \in Nat /\ Len(t) \in Nat
  BY <1>1, LenProperties
<1>3. ASSUME NEW i \in DOMAIN (s \o t)
      PROVE  \/ i \in DOMAIN s /\ (s \o t)[i] = s[i] /\ s[i] \in Range(s)
             \/ /\ i \notin DOMAIN s /\ i - Len(s) \in DOMAIN t
                /\ (s \o t)[i] = t[i - Len(s)] /\ t[i - Len(s)] \in Range(t)
  <2>1. CASE i <= Len(s)
    <3>1. i \in DOMAIN s /\ (s \o t)[i] = s[i]  BY <1>1, <1>2, <2>1
    <3>2. QED  BY <3>1 DEF Range
  <2>2. CASE ~(i <= Len(s))
    <3>1. i \notin DOMAIN s /\ i - Len(s) \in DOMAIN t /\ (s \o t)[i] = t[i - Len(s)]
      BY <1>1, <1>2, <2>2
    <3>2. QED  BY <3>1 DEF Range
  <2>3. QED  BY <2>1, <2>2
<1>4. ASSUME NEW i \in DOMAIN (s \o t), NEW j \in DOMAIN (s \o t), (s \o t)[i] = (s \o t)[j]
      PROVE  i = j
  <2>1. CASE i \in DOMAIN s /\ j \in DOMAIN s  BY <1>3, <1>4, <2>1 DEF Distinct
  <2>2. CASE i \notin DOMAIN s /\ j \notin DOMAIN s
    <3>1. i - Len(s) = j - Len(s)  BY <1>3, <1>4, <2>2 DEF Distinct
    <3>2. QED  BY <1>2, <3>1
  <2>3. CASE (i \in DOMAIN s) # (j \in DOMAIN s)
    <3>1. \E x \in Range(s) : x \in Range(t)  BY <1>3, <1>4, <2>3
    <3>2. QED  BY <3>1
  <2>4. QED  BY <2>1, <2>2, <2>3
<1>5. QED  BY <1>1, <1>4, RangeConcatenation DEF Distinct

\* A counting sequence repeats nothing.
LEMMA CountsDistinct ==
    ASSUME NEW n \in Nat, NEW s \in Seq(Nat), CountsFrom(n, s)
    PROVE  Distinct(s)
<1>1. DOMAIN s = 1 .. Len(s) /\ Len(s) \in Nat  BY LenProperties
<1>2. ASSUME NEW i \in DOMAIN s, NEW j \in DOMAIN s, i # j  PROVE s[i] # s[j]
  <2>1. s[i] = n + i /\ s[j] = n + j  BY DEF CountsFrom
  <2>2. QED  BY <1>1, <1>2, <2>1
<1>3. QED  BY <1>2 DEF Distinct

\* Nor does one that is continued by larger numbers.
LEMMA RunDistinct ==
    ASSUME NEW n \in Nat, NEW q \in Seq(Nat), NEW s \in Seq(Nat), CountsFrom(n, s),
           \A x \in Range(q) : x <= n, Distinct(q)
    PROVE  Distinct(q \o s)
<1>1. Distinct(s)  BY CountsDistinct
<1>2. Range(s) = n + 1 .. n + Len(s)  BY CountsRange
<1>3. \A x \in Range(s) : x \in Int /\ ~(x <= n)
  <2>1. Len(s) \in Nat  BY LenProperties
  <2>2. QED  BY <1>2, <2>1
<1>4. Range(q) \cap Range(s) = {}  BY <1>3
<1>5. QED  BY <1>1, <1>4, DistinctConcat

-----------------------------------------------------------------------------
(* Filtered lists.  The library's induction theorems take an operator as a  *)
(* parameter, so an induction is a proof by least counterexample here.      *)

\* The first of the numbers in a set: what induction rests on.
LEMMA Least ==
    ASSUME NEW T \in SUBSET Nat, T # {}
    PROVE  \E n \in T : \A m \in T : ~(m < n)
<1>1. IsWellFoundedOn(OpToRel(<, Nat), Nat)  BY NatLessThanWellFounded, Zenon
<1>2. \E n \in T : \A m \in T : <<m, n>> \notin OpToRel(<, Nat)  BY <1>1, WFMin, Zenon
<1>3. QED  BY <1>2, Zenon DEF OpToRel

\* g is what Filter computes, up to length m.
FilterWalk(g, s, T, m) ==
    g = [n \in 0 .. m |->
            IF n = 0 THEN <<>>
            ELSE IF s[n] \in T THEN Append(g[n - 1], s[n]) ELSE g[n - 1]]

\* The walk of Filter is defined for every sequence.
LEMMA FilterDefined ==
    ASSUME NEW s, NEW T, NEW l \in Nat
    PROVE  \E g : FilterWalk(g, s, T, l)
<1>. DEFINE Bad == {m \in Nat : ~\E g : FilterWalk(g, s, T, m)}
<1>1. SUFFICES ASSUME Bad # {}  PROVE FALSE  OBVIOUS
<1>2. PICK m \in Bad : \A k \in Bad : ~(k < m)
  <2>. HIDE DEF Bad
  <2>1. Bad \in SUBSET Nat  BY DEF Bad
  <2>. QED  BY <1>1, <2>1, Least
<1>3. m \in Nat /\ ~\E g : FilterWalk(g, s, T, m)  OBVIOUS
<1>4. CASE m = 0
  <2>1. FilterWalk([n \in 0 .. 0 |-> <<>>], s, T, 0)  BY DEF FilterWalk
  <2>2. QED  BY <1>3, <1>4, <2>1
<1>5. CASE m # 0
  <2>1. m - 1 \in Nat /\ m - 1 < m  BY <1>3, <1>5
  <2>2. PICK g : FilterWalk(g, s, T, m - 1)  BY <1>2, <2>1
  <2>3. PICK last : last = IF s[m] \in T THEN Append(g[m - 1], s[m]) ELSE g[m - 1]  OBVIOUS
  <2>4. PICK h : h = [n \in 0 .. m |-> IF n = m THEN last ELSE g[n]]  OBVIOUS
  <2>5. ASSUME NEW n \in 0 .. m
        PROVE  h[n] = IF n = 0 THEN <<>>
                      ELSE IF s[n] \in T THEN Append(h[n - 1], s[n]) ELSE h[n - 1]
    <3>1. CASE n = m
      <4>1. h[n] = last /\ h[n - 1] = g[m - 1]  BY <1>3, <1>5, <2>4, <3>1
      <4>2. QED  BY <1>5, <2>3, <3>1, <4>1
    <3>2. CASE n # m
      <4>1. n \in 0 .. m - 1 /\ h[n] = g[n]  BY <1>3, <2>4, <3>2
      <4>2. n # 0 => h[n - 1] = g[n - 1]  BY <1>3, <2>4, <3>2
      <4>3. g[n] = IF n = 0 THEN <<>>
                   ELSE IF s[n] \in T THEN Append(g[n - 1], s[n]) ELSE g[n - 1]
        BY <2>2, <4>1 DEF FilterWalk
      <4>4. QED  BY <4>1, <4>2, <4>3
    <3>3. QED  BY <3>1, <3>2
  <2>6. FilterWalk(h, s, T, m)
    <3>1. h = [n \in 0 .. m |-> h[n]]  BY <2>4
    <3>2. [n \in 0 .. m |-> h[n]] =
          [n \in 0 .. m |-> IF n = 0 THEN <<>>
                            ELSE IF s[n] \in T THEN Append(h[n - 1], s[n]) ELSE h[n - 1]]
      BY <2>5
    <3>3. QED  BY <3>1, <3>2 DEF FilterWalk
  <2>7. QED  BY <1>3, <2>6
<1>6. QED  BY <1>4, <1>5

\* e says where in s the elements of the filtered list f come from, when the
\* first n elements of s have been looked at.
Picks(e, f, s, T, n) ==
    /\ e \in [1 .. Len(f) -> 1 .. n]
    /\ \A i, j \in 1 .. Len(f) : i < j => e[i] < e[j]
    /\ \A i \in 1 .. Len(f) : f[i] = s[e[i]] /\ f[i] \in T
    /\ \A k \in 1 .. n : s[k] \in T => \E i \in 1 .. Len(f) : e[i] = k

\* Filter keeps the elements of s that are in T, each once and in order.
LEMMA FilterPicks ==
    ASSUME NEW S, NEW s \in Seq(S), NEW T
    PROVE  /\ Filter(s, T) \in Seq(S)
           /\ \E e : Picks(e, Filter(s, T), s, T, Len(s))
<1>0. Len(s) \in Nat /\ \A k \in 1 .. Len(s) : s[k] \in S  BY LenProperties, ElementOfSeq
<1>1. PICK g : FilterWalk(g, s, T, Len(s)) /\ Filter(s, T) = g[Len(s)]
  <2>1. \E g : FilterWalk(g, s, T, Len(s))  BY <1>0, FilterDefined
  <2>2. Filter(s, T) = (CHOOSE g : FilterWalk(g, s, T, Len(s)))[Len(s)]
    BY DEF Filter, FilterWalk
  <2>3. QED  BY <2>1, <2>2
<1>2. \A n \in 0 .. Len(s) :
         g[n] = IF n = 0 THEN <<>>
                ELSE IF s[n] \in T THEN Append(g[n - 1], s[n]) ELSE g[n - 1]
  BY <1>1 DEF FilterWalk
<1>. DEFINE Good(n) == g[n] \in Seq(S) /\ \E e : Picks(e, g[n], s, T, n)
            Bad == {n \in 0 .. Len(s) : ~Good(n)}
<1>3. Good(0)
  <2>1. g[0] = <<>>  BY <1>0, <1>2
  <2>2. Picks(<<>>, <<>>, s, T, 0)  BY DEF Picks
  <2>3. <<>> \in Seq(S)  OBVIOUS
  <2>4. QED  BY <2>1, <2>2, <2>3
<1>4. ASSUME NEW n \in 1 .. Len(s), Good(n - 1)  PROVE Good(n)
  <2>0. n \in 0 .. Len(s) /\ n # 0 /\ n \in Nat /\ n - 1 \in Nat  BY <1>0
  <2>. DEFINE f == g[n - 1]
  <2>1. f \in Seq(S)  BY <1>4
  <2>2. PICK e : Picks(e, f, s, T, n - 1)  BY <1>4
  <2>. HIDE DEF f
  <2>3. Len(f) \in Nat  BY <2>1, LenProperties
  <2>4. CASE s[n] \in T
    <3>1. g[n] = Append(f, s[n])  BY <1>2, <2>0, <2>4 DEF f
    <3>2. PICK h : h = Append(f, s[n])  OBVIOUS
    <3>3. /\ h \in Seq(S) /\ Len(h) = Len(f) + 1
          /\ \A i \in 1 .. Len(f) : h[i] = f[i]
          /\ h[Len(f) + 1] = s[n]
      BY <1>0, <2>1, <3>2, AppendProperties
    <3>4. PICK d : d = [i \in 1 .. Len(f) + 1 |-> IF i = Len(f) + 1 THEN n ELSE e[i]]  OBVIOUS
    <3>5. ASSUME NEW i \in 1 .. Len(f) + 1
          PROVE  \/ i \in 1 .. Len(f) /\ d[i] = e[i] /\ d[i] \in 1 .. n - 1 /\ h[i] = f[i]
                 \/ i = Len(f) + 1 /\ d[i] = n /\ h[i] = s[n]
      BY <2>2, <2>3, <3>3, <3>4 DEF Picks
    <3>6. d \in [1 .. Len(h) -> 1 .. n]
      <4>1. \A i \in 1 .. Len(f) + 1 : d[i] \in 1 .. n  BY <2>0, <3>5
      <4>2. QED  BY <3>3, <3>4, <4>1
    <3>7. \A i, j \in 1 .. Len(h) : i < j => d[i] < d[j]
      <4>1. SUFFICES ASSUME NEW i \in 1 .. Len(f) + 1, NEW j \in 1 .. Len(f) + 1, i < j
                     PROVE  d[i] < d[j]
        BY <3>3
      <4>2. i \in 1 .. Len(f) /\ i # Len(f) + 1  BY <2>3, <4>1
      <4>3. d[i] = e[i] /\ d[i] \in 1 .. n - 1  BY <3>5, <4>2
      <4>4. CASE j = Len(f) + 1  BY <2>0, <3>4, <4>3, <4>4
      <4>5. CASE j # Len(f) + 1
        <5>1. j \in 1 .. Len(f) /\ d[j] = e[j]  BY <3>5, <4>5
        <5>2. QED  BY <2>2, <4>1, <4>2, <4>3, <5>1 DEF Picks
      <4>6. QED  BY <4>4, <4>5
    <3>8. \A i \in 1 .. Len(h) : h[i] = s[d[i]] /\ h[i] \in T
      BY <2>2, <2>4, <3>3, <3>5 DEF Picks
    <3>9. ASSUME NEW k \in 1 .. n, s[k] \in T  PROVE \E i \in 1 .. Len(h) : d[i] = k
      <4>1. CASE k = n
        <5>1. Len(f) + 1 \in 1 .. Len(f) + 1 /\ d[Len(f) + 1] = n  BY <2>3, <3>4
        <5>2. QED  BY <3>3, <4>1, <5>1
      <4>2. CASE k # n
        <5>1. k \in 1 .. n - 1  BY <2>0, <4>2
        <5>2. PICK i \in 1 .. Len(f) : e[i] = k  BY <2>2, <3>9, <5>1 DEF Picks
        <5>3. i \in 1 .. Len(f) + 1 /\ i # Len(f) + 1  BY <2>3
        <5>4. QED  BY <3>3, <3>4, <5>2, <5>3
      <4>3. QED  BY <4>1, <4>2
    <3>10. Picks(d, h, s, T, n)  BY <3>6, <3>7, <3>8, <3>9 DEF Picks
    <3>11. QED  BY <3>1, <3>2, <3>3, <3>10
  <2>5. CASE s[n] \notin T
    <3>1. g[n] = f  BY <1>2, <2>0, <2>5 DEF f
    <3>2. e \in [1 .. Len(f) -> 1 .. n]
      <4>1. \A i \in 1 .. Len(f) : e[i] \in 1 .. n - 1  BY <2>2 DEF Picks
      <4>2. 1 .. n - 1 \subseteq 1 .. n  BY <2>0
      <4>3. QED  BY <2>2, <4>1, <4>2 DEF Picks
    <3>3. \A k \in 1 .. n : s[k] \in T => k \in 1 .. n - 1  BY <2>0, <2>5
    <3>4. Picks(e, f, s, T, n)  BY <2>2, <3>2, <3>3 DEF Picks
    <3>5. QED  BY <2>1, <3>1, <3>4
  <2>6. QED  BY <2>4, <2>5
<1>5. Bad = {}
  <2>1. SUFFICES ASSUME Bad # {}  PROVE FALSE  OBVIOUS
  <2>2. PICK n \in Bad : \A m \in Bad : ~(m < n)
    <3>1. Bad \in SUBSET Nat  BY <1>0
    <3>. HIDE DEF Bad
    <3>2. QED  BY <2>1, <3>1, Least
  <2>3. n \in 0 .. Len(s) /\ ~Good(n)  OBVIOUS
  <2>. HIDE DEF Good
  <2>4. n # 0  BY <1>3, <2>3
  <2>5. n \in 1 .. Len(s) /\ n - 1 \in 0 .. Len(s) /\ n - 1 < n  BY <1>0, <2>3, <2>4
  <2>6. Good(n - 1)  BY <2>2, <2>5
  <2>7. QED  BY <1>4, <2>3, <2>5, <2>6
<1>6. Good(Len(s))
  <2>1. Len(s) \in 0 .. Len(s)  BY <1>0
  <2>. HIDE DEF Good
  <2>2. QED  BY <1>5, <2>1
<1>7. QED  BY <1>1, <1>6

\* What the filtered list contains, and that it repeats nothing.
LEMMA FilterProperties ==
    ASSUME NEW S, NEW s \in Seq(S), NEW T
    PROVE  /\ Filter(s, T) \in Seq(S)
           /\ Range(Filter(s, T)) = Range(s) \cap T
           /\ Distinct(s) => Distinct(Filter(s, T))
<1>1. PICK f, e : f = Filter(s, T) /\ f \in Seq(S) /\ Picks(e, f, s, T, Len(s))  BY FilterPicks
<1>2. /\ DOMAIN s = 1 .. Len(s) /\ DOMAIN f = 1 .. Len(f)
      /\ Len(s) \in Nat /\ Len(f) \in Nat
  BY <1>1, LenProperties
<1>3. \A i \in DOMAIN f : e[i] \in DOMAIN s /\ e[i] \in Nat /\ f[i] = s[e[i]] /\ f[i] \in T
  BY <1>1, <1>2 DEF Picks
<1>4. \A k \in DOMAIN s : s[k] \in T => \E i \in DOMAIN f : e[i] = k
  BY <1>1, <1>2 DEF Picks
<1>5. Range(f) = Range(s) \cap T
  <2>1. Range(f) \subseteq Range(s) \cap T  BY <1>3 DEF Range
  <2>2. Range(s) \cap T \subseteq Range(f)  BY <1>3, <1>4 DEF Range
  <2>3. QED  BY <2>1, <2>2
<1>6. ASSUME Distinct(s), NEW i \in DOMAIN f, NEW j \in DOMAIN f, f[i] = f[j]
      PROVE  i = j
  <2>1. e[i] = e[j] /\ e[i] \in Nat  BY <1>3, <1>6 DEF Distinct
  <2>2. ~(i < j) /\ ~(j < i)  BY <1>1, <1>2, <2>1 DEF Picks
  <2>3. QED  BY <1>2, <2>2
<1>7. QED  BY <1>1, <1>5, <1>6 DEF Distinct

\* As many of the first n elements of a list that repeats nothing are different.
LEMMA PrefixCount ==
    ASSUME NEW S, NEW s \in Seq(S), Distinct(s), NEW n \in Nat, n <= Len(s)
    PROVE  /\ Range(SubSeq(s, 1, n)) \subseteq Range(s)
           /\ Cardinality(Range(SubSeq(s, 1, n))) = n
<1>1. DOMAIN s = 1 .. Len(s) /\ Len(s) \in Nat  BY LenProperties
<1>2. \A i \in 1 .. n : i \in DOMAIN s /\ s[i] \in S  BY <1>1, ElementOfSeq
<1>3. PICK p : p = SubSeq(s, 1, n)  OBVIOUS
<1>4. p \in Seq(S) /\ Len(p) = n /\ \A i \in 1 .. n : p[i] = s[i]
  BY <1>2, <1>3, SubSeqProperties
<1>5. DOMAIN p = 1 .. n  BY <1>4, LenProperties
<1>6. Range(p) \subseteq Range(s)  BY <1>2, <1>4, <1>5 DEF Range
<1>7. \A i, j \in 1 .. n : p[i] = p[j] => i = j  BY <1>2, <1>4 DEF Distinct
<1>8. p \in Bijection(1 .. n, Range(p))
  <2>1. p = [i \in 1 .. n |-> p[i]]  BY <1>4, <1>5
  <2>2. p \in [1 .. n -> Range(p)]  BY <2>1, <1>5 DEF Range
  <2>3. QED  BY <2>2, <1>5, <1>7 DEF Bijection, Injection, Surjection, IsInjective, Range
<1>9. ExistsBijection(1 .. n, Range(p))  BY <1>8 DEF ExistsBijection
<1>10. Cardinality(Range(p)) = n  BY <1>9, FS_CountingElements
<1>11. QED  BY <1>3, <1>6, <1>10

-----------------------------------------------------------------------------
(* Induction.  The library's induction theorems take an operator as a       *)
(* parameter; these take the set of the values the operator holds for.      *)

\* Whatever 0 has and goes on from m - 1 to m, every number up to n has.
LEMMA Upwards ==
    ASSUME NEW n \in Nat, NEW T, 0 \in T, \A m \in 1 .. n : m - 1 \in T => m \in T
    PROVE  \A m \in 0 .. n : m \in T
<1>. DEFINE Bad == {m \in 0 .. n : m \notin T}
<1>1. SUFFICES ASSUME Bad # {}  PROVE FALSE  OBVIOUS
<1>2. PICK m \in Bad : \A k \in Bad : ~(k < m)
  <2>1. Bad \in SUBSET Nat  OBVIOUS
  <2>. HIDE DEF Bad
  <2>2. QED  BY <1>1, <2>1, Least
<1>3. m \in 1 .. n /\ m - 1 \in 0 .. n /\ m - 1 < m  OBVIOUS
<1>4. m - 1 \in T  BY <1>2, <1>3
<1>5. QED  BY <1>3, <1>4

\* Whatever the empty set has and a set keeps when an element is added, a
\* finite set has.
LEMMA Elementwise ==
    ASSUME NEW D, IsFiniteSet(D), NEW T, {} \in T,
           \A S \in SUBSET D : \A x \in D \ S : S \in T => S \cup {x} \in T
    PROVE  D \in T
<1>1. PICK n \in Nat : \E e : e \in Bijection(1 .. n, D)
  <2>1. Cardinality(D) \in Nat /\ ExistsBijection(1 .. Cardinality(D), D)  BY FS_CardinalityType
  <2>2. QED  BY <2>1 DEF ExistsBijection
<1>. PICK e : e \in Bijection(1 .. n, D)  BY <1>1
<1>2. /\ \A i \in 1 .. n : e[i] \in D
      /\ \A i, j \in 1 .. n : e[i] = e[j] => i = j
      /\ \A d \in D : \E i \in 1 .. n : e[i] = d
  BY DEF Bijection, Injection, Surjection, IsInjective
<1>. DEFINE Up(m) == {e[i] : i \in 1 .. m}
            Good == {m \in 0 .. n : Up(m) \in T}
<1>3. 0 \in Good
  <2>1. 1 .. 0 = {}  OBVIOUS
  <2>2. Up(0) = {}  BY <2>1
  <2>3. Up(0) \in T  BY <2>2, Zenon
  <2>4. 0 \in 0 .. n  OBVIOUS
  <2>. HIDE DEF Up
  <2>5. QED  BY <2>3, <2>4
<1>4. ASSUME NEW m \in 1 .. n, m - 1 \in Good  PROVE m \in Good
  <2>1. Up(m - 1) \in SUBSET D /\ Up(m - 1) \in T
    <3>1. 1 .. m - 1 \subseteq 1 .. n  OBVIOUS
    <3>2. QED  BY <1>2, <1>4, <3>1
  <2>2. e[m] \in D /\ e[m] \notin Up(m - 1)
    <3>1. \A i \in 1 .. m - 1 : i \in 1 .. n /\ i # m  OBVIOUS
    <3>2. QED  BY <1>2, <3>1
  <2>3. Up(m) = Up(m - 1) \cup {e[m]}
    <3>1. 1 .. m = 1 .. (m - 1) \cup {m}  OBVIOUS
    <3>2. QED  BY <3>1
  <2>4. Up(m) \in T
    <3>. HIDE DEF Up
    <3>. QED  BY <2>1, <2>2, <2>3
  <2>5. m \in 0 .. n  OBVIOUS
  <2>6. QED  BY <2>4, <2>5
<1>5. n \in Good
  <2>. HIDE DEF Good
  <2>1. \A m \in 0 .. n : m \in Good  BY <1>3, <1>4, Upwards
  <2>2. QED  BY <2>1
<1>6. Up(n) = D  BY <1>2
<1>7. QED  BY <1>5, <1>6

\* What a recursive function along 1 .. n computes exists.
IsStep(step, n, A) == step \in [(1 .. n) \X A -> A]

\* A walk of n steps from a, each step a function of the last value, exists.
LEMMA WalkDefined ==
    ASSUME NEW n \in Nat, NEW A, NEW a \in A, NEW step, IsStep(step, n, A)
    PROVE  \E g \in [0 .. n -> A] : g[0] = a /\ \A m \in 1 .. n : g[m] = step[<<m, g[m - 1]>>]
<1>0. step \in [(1 .. n) \X A -> A]  BY DEF IsStep
<1>. DEFINE Is(g, l) == g \in [0 .. l -> A] /\ g[0] = a /\ \A m \in 1 .. l : g[m] = step[<<m, g[m - 1]>>]
            Good == {l \in 0 .. n : \E g : Is(g, l)}
<1>1. 0 \in Good
  <2>1. PICK g : g = [m \in 0 .. 0 |-> a]  OBVIOUS
  <2>2. Is(g, 0)  BY <2>1
  <2>3. QED  BY <2>2
<1>2. ASSUME NEW l \in 1 .. n, l - 1 \in Good  PROVE l \in Good
  <2>1. PICK g : Is(g, l - 1)  BY <1>2
  <2>2. PICK h : h = [m \in 0 .. l |-> IF m = l THEN step[<<l, g[l - 1]>>] ELSE g[m]]  OBVIOUS
  <2>3. g[l - 1] \in A  BY <2>1
  <2>4. step[<<l, g[l - 1]>>] \in A  BY <1>0, <2>3
  <2>5. \A m \in 0 .. l - 1 : h[m] = g[m] /\ h[m] \in A
    <3>1. \A m \in 0 .. l - 1 : m \in 0 .. l /\ m # l  OBVIOUS
    <3>2. QED  BY <2>1, <2>2, <3>1
  <2>6. h[l] = step[<<l, g[l - 1]>>]  BY <2>2
  <2>7. h \in [0 .. l -> A]
    <3>1. \A m \in 0 .. l : m = l \/ m \in 0 .. l - 1  OBVIOUS
    <3>2. \A m \in 0 .. l : h[m] \in A  BY <2>4, <2>5, <2>6, <3>1
    <3>3. QED  BY <2>2, <3>2
  <2>8. h[0] = a
    <3>1. 0 \in 0 .. l - 1  OBVIOUS
    <3>2. QED  BY <2>1, <2>5, <3>1
  <2>9. ASSUME NEW m \in 1 .. l  PROVE h[m] = step[<<m, h[m - 1]>>]
    <3>1. m - 1 \in 0 .. l - 1  OBVIOUS
    <3>2. h[m - 1] = g[m - 1]  BY <2>5, <3>1
    <3>3. CASE m = l  BY <2>6, <3>2, <3>3
    <3>4. CASE m # l
      <4>1. m \in 1 .. l - 1 /\ m \in 0 .. l - 1  BY <3>4
      <4>2. g[m] = step[<<m, g[m - 1]>>]  BY <2>1, <4>1
      <4>3. QED  BY <2>5, <3>2, <4>1, <4>2
    <3>5. QED  BY <3>3, <3>4
  <2>10. Is(h, l)  BY <2>7, <2>8, <2>9
  <2>11. l \in 0 .. n  OBVIOUS
  <2>. HIDE DEF Is
  <2>12. QED  BY <2>10, <2>11
<1>3. n \in Good
  <2>. HIDE DEF Good
  <2>1. \A m \in 0 .. n : m \in Good  BY <1>1, <1>2, Upwards
  <2>2. QED  BY <2>1
<1>4. QED  BY <1>3

-----------------------------------------------------------------------------
(* Enumerations of a set: what a sorted answer is.                          *)

Enumerates(s, S) == s \in Seq(S) /\ Distinct(s) /\ Range(s) = S

\* A list that repeats nothing is as long as it has elements.
LEMMA DistinctLength ==
    ASSUME NEW S, NEW s \in Seq(S), Distinct(s)
    PROVE  IsFiniteSet(Range(s)) /\ Cardinality(Range(s)) = Len(s)
<1>1. DOMAIN s = 1 .. Len(s) /\ Len(s) \in Nat  BY LenProperties
<1>2. \A i, j \in 1 .. Len(s) : s[i] = s[j] => i = j  BY <1>1 DEF Distinct
<1>3. s \in Bijection(1 .. Len(s), Range(s))
  <2>1. s = [i \in 1 .. Len(s) |-> s[i]]  BY <1>1
  <2>2. s \in [1 .. Len(s) -> Range(s)]  BY <2>1, <1>1 DEF Range
  <2>3. QED  BY <2>2, <1>1, <1>2 DEF Bijection, Injection, Surjection, IsInjective, Range
<1>4. IsFiniteSet(1 .. Len(s)) /\ Cardinality(1 .. Len(s)) = Len(s)  BY <1>1, FS_Interval
<1>5. QED  BY <1>3, <1>4, FS_Bijection DEF ExistsBijection

\* The library's set of the enumerations of a finite set.
LEMMA SetToSeqsEnumerates ==
    ASSUME NEW S, IsFiniteSet(S), NEW s
    PROVE  s \in SetToSeqs(S) <=> Enumerates(s, S)
<1>. DEFINE n == Cardinality(S)
<1>1. n \in Nat  BY FS_CardinalityType
<1>2. ASSUME s \in SetToSeqs(S)  PROVE Enumerates(s, S)
  <2>1. s \in [1 .. n -> S] /\ \A i, j \in 1 .. n : i # j => s[i] # s[j]
    BY <1>2 DEF SetToSeqs
  <2>2. s \in Seq(S) /\ DOMAIN s = 1 .. n  BY <1>1, <2>1
  <2>3. Distinct(s)  BY <2>1, <2>2 DEF Distinct
  <2>4. s \in Injection(1 .. n, S)  BY <2>1 DEF Injection, IsInjective
  <2>5. IsFiniteSet(1 .. n) /\ Cardinality(1 .. n) = n  BY <1>1, FS_Interval
  <2>6. s \in Surjection(1 .. n, S)  BY <2>4, <2>5, FS_Injection
  <2>7. Range(s) = S  BY <2>2, <2>6 DEF Surjection, Range
  <2>8. QED  BY <2>2, <2>3, <2>7 DEF Enumerates
<1>3. ASSUME Enumerates(s, S)  PROVE s \in SetToSeqs(S)
  <2>1. Len(s) = n  BY <1>3, DistinctLength DEF Enumerates
  <2>2. s \in [1 .. n -> S]  BY <1>3, <2>1, LenProperties DEF Enumerates
  <2>3. \A i, j \in 1 .. n : i # j => s[i] # s[j]  BY <1>3, <2>2 DEF Enumerates, Distinct
  <2>4. QED  BY <2>2, <2>3 DEF SetToSeqs
<1>4. QED  BY <1>2, <1>3

\* The image of a finite set under a function.
LEMMA FiniteImage ==
    ASSUME NEW S, IsFiniteSet(S), NEW f, f = [x \in S |-> f[x]]
    PROVE  IsFiniteSet({f[x] : x \in S}) /\ Cardinality({f[x] : x \in S}) <= Cardinality(S)
<1>1. [x \in S |-> f[x]] \in Surjection(S, {f[x] : x \in S})  BY DEF Surjection
<1>2. QED  BY <1>1, FS_Surjection

\* The greatest and the least of a set.
LEMMA MaxIs ==
    ASSUME NEW S \in SUBSET Int, NEW m \in S, \A x \in S : m >= x
    PROVE  Max(S) = m
<1>1. \A k \in S : (\A x \in S : k >= x) => k = m  OBVIOUS
<1>2. QED  BY <1>1 DEF Max

\* The least of a set is the one that is not above any other.
LEMMA MinIs ==
    ASSUME NEW S \in SUBSET Int, NEW m \in S, \A x \in S : m =< x
    PROVE  Min(S) = m
<1>1. \A k \in S : (\A x \in S : k =< x) => k = m  OBVIOUS
<1>2. QED  BY <1>1 DEF Min

\* A finite set of numbers that is not empty has both.
LEMMA MaxExists ==
    ASSUME NEW S \in SUBSET Int, IsFiniteSet(S), S # {}
    PROVE  Max(S) \in S /\ \A x \in S : Max(S) >= x
<1>. DEFINE T == {U \in SUBSET S : U = {} \/ \E m \in U : \A x \in U : m >= x}
<1>1. {} \in T  OBVIOUS
<1>2. ASSUME NEW U \in SUBSET S, NEW y \in S \ U, U \in T  PROVE U \cup {y} \in T
  <2>1. CASE U = {}  BY <2>1
  <2>2. CASE U # {}
    <3>1. PICK m \in U : \A x \in U : m >= x  BY <1>2, <2>2
    <3>2. m \in Int /\ y \in Int /\ \A x \in U : x \in Int  OBVIOUS
    <3>3. CASE m >= y
      <4>1. \A x \in U \cup {y} : m >= x  BY <3>1, <3>3
      <4>2. QED  BY <4>1
    <3>4. CASE y >= m
      <4>1. \A x \in U \cup {y} : y >= x  BY <3>1, <3>2, <3>4
      <4>2. QED  BY <4>1
    <3>5. QED  BY <3>2, <3>3, <3>4
  <2>3. QED  BY <2>1, <2>2
<1>3. S \in T
  <2>. HIDE DEF T
  <2>1. QED  BY <1>1, <1>2, Elementwise
<1>4. PICK m \in S : \A x \in S : m >= x  BY <1>3
<1>5. Max(S) = m  BY <1>4, MaxIs
<1>6. QED  BY <1>4, <1>5

\* A finite set of numbers that is not empty has a least.
LEMMA MinExists ==
    ASSUME NEW S \in SUBSET Int, IsFiniteSet(S), S # {}
    PROVE  Min(S) \in S /\ \A x \in S : Min(S) =< x
<1>. DEFINE T == {U \in SUBSET S : U = {} \/ \E m \in U : \A x \in U : m =< x}
<1>1. {} \in T  OBVIOUS
<1>2. ASSUME NEW U \in SUBSET S, NEW y \in S \ U, U \in T  PROVE U \cup {y} \in T
  <2>1. CASE U = {}  BY <2>1
  <2>2. CASE U # {}
    <3>1. PICK m \in U : \A x \in U : m =< x  BY <1>2, <2>2
    <3>2. m \in Int /\ y \in Int /\ \A x \in U : x \in Int  OBVIOUS
    <3>3. CASE m =< y
      <4>1. \A x \in U \cup {y} : m =< x  BY <3>1, <3>3
      <4>2. QED  BY <4>1
    <3>4. CASE y =< m
      <4>1. \A x \in U \cup {y} : y =< x  BY <3>1, <3>2, <3>4
      <4>2. QED  BY <4>1
    <3>5. QED  BY <3>2, <3>3, <3>4
  <2>3. QED  BY <2>1, <2>2
<1>3. S \in T
  <2>. HIDE DEF T
  <2>1. QED  BY <1>1, <1>2, Elementwise
<1>4. PICK m \in S : \A x \in S : m =< x  BY <1>3
<1>5. Min(S) = m  BY <1>4, MinIs
<1>6. QED  BY <1>4, <1>5

-----------------------------------------------------------------------------
(* Sums.                                                                    *)

\* g is what Sum computes on the sets of D.
Sums(g, f, D) ==
    g = [T \in D |->
            IF T = {} THEN 0
            ELSE LET x == CHOOSE x \in T : TRUE IN f[x] + g[T \ {x}]]

UpTo(S, m) == {T \in SUBSET S : Cardinality(T) <= m}

\* The recursion of SumOver is defined on the subsets of a finite set.
LEMMA SumDefined ==
    ASSUME NEW S, IsFiniteSet(S), NEW f, \A x \in S : f[x] \in Int
    PROVE  \E g : Sums(g, f, SUBSET S) /\ \A T \in SUBSET S : g[T] \in Int
<1>0. \A T \in SUBSET S : IsFiniteSet(T) /\ Cardinality(T) \in Nat /\ Cardinality(T) <= Cardinality(S)
  BY FS_Subset, FS_CardinalityType
<1>1. Cardinality(S) \in Nat  BY FS_CardinalityType
<1>. DEFINE IsIt(g, m) == Sums(g, f, UpTo(S, m)) /\ \A T \in UpTo(S, m) : g[T] \in Int
            Good == {m \in 0 .. Cardinality(S) : \E g : IsIt(g, m)}
<1>2. 0 \in Good
  <2>1. PICK g : g = [T \in UpTo(S, 0) |-> 0]  OBVIOUS
  <2>2. \A T \in UpTo(S, 0) : T = {}
    <3>1. ASSUME NEW T \in UpTo(S, 0)  PROVE T = {}
      <4>1. T \in SUBSET S /\ Cardinality(T) <= 0  BY DEF UpTo
      <4>2. Cardinality(T) = 0  BY <1>0, <4>1
      <4>3. QED  BY <1>0, <4>1, <4>2, FS_EmptySet
    <3>2. QED  BY <3>1
  <2>3. Sums(g, f, UpTo(S, 0))  BY <2>1, <2>2 DEF Sums
  <2>4. IsIt(g, 0)  BY <2>1, <2>3
  <2>. HIDE DEF IsIt
  <2>5. QED  BY <1>1, <2>4
<1>3. ASSUME NEW m \in 1 .. Cardinality(S), m - 1 \in Good  PROVE m \in Good
  <2>1. PICK g : IsIt(g, m - 1)  BY <1>3
  <2>. DEFINE c(T) == CHOOSE x \in T : TRUE
              next(T) == IF T = {} THEN 0 ELSE f[c(T)] + g[T \ {c(T)}]
  <2>2. PICK h : h = [T \in UpTo(S, m) |-> next(T)]  OBVIOUS
  <2>3. \A T \in UpTo(S, m - 1) : g[T] = next(T)  BY <2>1 DEF Sums
  <2>4. \A T \in UpTo(S, m - 1) : T \in UpTo(S, m)  BY <1>0, <1>1 DEF UpTo
  <2>5. \A T \in UpTo(S, m - 1) : h[T] = g[T]  BY <2>2, <2>3, <2>4
  <2>6. ASSUME NEW T \in UpTo(S, m), T # {}
        PROVE  T \ {c(T)} \in UpTo(S, m - 1) /\ c(T) \in S
    <3>1. T \in SUBSET S /\ Cardinality(T) <= m  BY DEF UpTo
    <3>2. c(T) \in T  BY <2>6
    <3>3. Cardinality(T \ {c(T)}) = Cardinality(T) - 1  BY <1>0, <3>1, <3>2, FS_RemoveElement
    <3>4. Cardinality(T \ {c(T)}) <= m - 1  BY <1>0, <3>1, <3>3
    <3>5. T \ {c(T)} \in SUBSET S /\ c(T) \in S  BY <3>1, <3>2
    <3>6. QED  BY <3>4, <3>5 DEF UpTo
  <2>7. ASSUME NEW T \in UpTo(S, m)
        PROVE  next(T) \in Int /\ next(T) = IF T = {} THEN 0 ELSE f[c(T)] + h[T \ {c(T)}]
    <3>. HIDE DEF c
    <3>1. CASE T = {}  BY <3>1
    <3>2. CASE T # {}
      <4>1. T \ {c(T)} \in UpTo(S, m - 1) /\ f[c(T)] \in Int  BY <2>6, <3>2
      <4>2. g[T \ {c(T)}] \in Int /\ h[T \ {c(T)}] = g[T \ {c(T)}]  BY <2>1, <2>5, <4>1
      <4>3. QED  BY <3>2, <4>1, <4>2
    <3>3. QED  BY <3>1, <3>2
  <2>8. Sums(h, f, UpTo(S, m))
    <3>1. [T \in UpTo(S, m) |-> next(T)]
            = [T \in UpTo(S, m) |-> IF T = {} THEN 0 ELSE f[c(T)] + h[T \ {c(T)}]]
      <4>. HIDE DEF next
      <4>. QED  BY <2>7
    <3>2. QED  BY <2>2, <3>1 DEF Sums
  <2>9. \A T \in UpTo(S, m) : h[T] \in Int
    <3>. HIDE DEF next
    <3>. QED  BY <2>2, <2>7
  <2>10. IsIt(h, m) /\ m \in 0 .. Cardinality(S)  BY <1>1, <2>8, <2>9
  <2>. HIDE DEF IsIt
  <2>11. QED  BY <2>10
<1>4. Cardinality(S) \in Good
  <2>. HIDE DEF Good
  <2>1. \A m \in 0 .. Cardinality(S) : m \in Good  BY <1>1, <1>2, <1>3, Upwards
  <2>2. QED  BY <1>1, <2>1
<1>5. UpTo(S, Cardinality(S)) = SUBSET S  BY <1>0 DEF UpTo
<1>6. QED  BY <1>4, <1>5

\* The choice of the element to add first does not matter, nor does the set the
\* function is defined on.
Summing(g, f, S) ==
    /\ IsFiniteSet(S) /\ Sums(g, f, SUBSET S)
    /\ \A x \in S : f[x] \in Int
    /\ \A T \in SUBSET S : g[T] \in Int

\* Any element may be the one to add last.
LEMMA SumPicks ==
    ASSUME NEW S, NEW f, NEW g, Summing(g, f, S),
           NEW R \in SUBSET S, NEW h, Sums(h, f, SUBSET R)
    PROVE  \A T \in SUBSET R : h[T] = g[T] /\ \A x \in T : g[T] = f[x] + g[T \ {x}]
<1>. /\ IsFiniteSet(S) /\ Sums(g, f, SUBSET S)
    /\ \A x \in S : f[x] \in Int
    /\ \A T \in SUBSET S : g[T] \in Int
  BY DEF Summing
<1>0. \A T \in SUBSET S : IsFiniteSet(T) /\ Cardinality(T) \in Nat /\ Cardinality(T) <= Cardinality(S)
  BY FS_Subset, FS_CardinalityType
<1>1. Cardinality(S) \in Nat  BY FS_CardinalityType
<1>. DEFINE Fine(T) == h[T] = g[T] /\ \A x \in T : g[T] = f[x] + g[T \ {x}]
            Good == {m \in 0 .. Cardinality(S) : \A T \in SUBSET R : Cardinality(T) <= m => Fine(T)}
            c(T) == CHOOSE x \in T : TRUE
<1>2. \A T \in SUBSET S : g[T] = IF T = {} THEN 0 ELSE f[c(T)] + g[T \ {c(T)}]  BY DEF Sums
<1>3. \A T \in SUBSET R : h[T] = IF T = {} THEN 0 ELSE f[c(T)] + h[T \ {c(T)}]  BY DEF Sums
<1>4. \A T \in SUBSET R : T \in SUBSET S  OBVIOUS
<1>5. \A T : T # {} => c(T) \in T  OBVIOUS
<1>. HIDE DEF c
<1>6. 0 \in Good
  <2>1. ASSUME NEW T \in SUBSET R, Cardinality(T) <= 0  PROVE Fine(T)
    <3>1. T = {}
      <4>1. Cardinality(T) = 0  BY <1>0, <1>4, <2>1
      <4>2. QED  BY <1>0, <1>4, <4>1, FS_EmptySet
    <3>2. h[T] = 0 /\ g[T] = 0  BY <1>2, <1>3, <1>4, <3>1
    <3>3. QED  BY <3>1, <3>2
  <2>. HIDE DEF Fine
  <2>2. QED  BY <1>1, <2>1
<1>7. ASSUME NEW m \in 1 .. Cardinality(S), m - 1 \in Good  PROVE m \in Good
  <2>1. ASSUME NEW T \in SUBSET R, T # {}, Cardinality(T) <= m  PROVE Fine(T)
    <3>1. \A x \in T : Cardinality(T \ {x}) <= m - 1 /\ T \ {x} \in SUBSET R
      <4>1. \A x \in T : Cardinality(T \ {x}) = Cardinality(T) - 1  BY <1>0, <1>4, FS_RemoveElement
      <4>2. QED  BY <1>0, <1>4, <2>1, <4>1
    <3>2. \A x \in T : Fine(T \ {x})  BY <1>7, <3>1
    <3>3. c(T) \in T  BY <1>5, <2>1
    <3>4. h[T] = g[T]
      <4>1. h[T \ {c(T)}] = g[T \ {c(T)}]  BY <3>2, <3>3
      <4>2. QED  BY <1>2, <1>3, <1>4, <2>1, <4>1
    <3>5. ASSUME NEW x \in T  PROVE g[T] = f[x] + g[T \ {x}]
      <4>1. g[T] = f[c(T)] + g[T \ {c(T)}]  BY <1>2, <1>4, <2>1
      <4>2. CASE x = c(T)  BY <4>1, <4>2
      <4>3. CASE x # c(T)
        <5>1. x \in T \ {c(T)} /\ c(T) \in T \ {x}  BY <3>3, <4>3
        <5>2. g[T \ {c(T)}] = f[x] + g[(T \ {c(T)}) \ {x}]  BY <3>2, <3>3, <5>1
        <5>3. g[T \ {x}] = f[c(T)] + g[(T \ {x}) \ {c(T)}]  BY <3>2, <5>1
        <5>4. PICK a \in Int, b \in Int, r \in Int :
                 a = f[x] /\ b = f[c(T)] /\ r = g[(T \ {x}) \ {c(T)}]
          BY <3>3
        <5>5. (T \ {c(T)}) \ {x} = (T \ {x}) \ {c(T)}  OBVIOUS
        <5>6. g[T \ {c(T)}] = a + r /\ g[T \ {x}] = b + r  BY <5>2, <5>3, <5>4, <5>5
        <5>7. g[T] = b + (a + r)  BY <4>1, <5>4, <5>6
        <5>8. b + (a + r) = a + (b + r)  OBVIOUS
        <5>9. QED  BY <5>4, <5>6, <5>7, <5>8
      <4>4. QED  BY <4>2, <4>3
    <3>6. QED  BY <3>4, <3>5
  <2>2. Fine({})  BY <1>2, <1>3
  <2>3. m \in 0 .. Cardinality(S)  BY <1>1
  <2>. HIDE DEF Fine
  <2>4. \A T \in SUBSET R : Cardinality(T) <= m => Fine(T)  BY <2>1, <2>2
  <2>5. QED  BY <2>3, <2>4
<1>8. Cardinality(S) \in Good
  <2>. HIDE DEF Good
  <2>1. \A m \in 0 .. Cardinality(S) : m \in Good  BY <1>1, <1>6, <1>7, Upwards
  <2>2. QED  BY <1>1, <2>1
<1>9. QED  BY <1>0, <1>4, <1>8

\* The unfolding equations of a sum.
LEMMA SumProperties ==
    ASSUME NEW S, IsFiniteSet(S), NEW f, \A x \in S : f[x] \in Int
    PROVE  /\ SumOver(f, {}) = 0
           /\ \A T \in SUBSET S : SumOver(f, T) \in Int
           /\ \A T \in SUBSET S : \A x \in S \ T : SumOver(f, T \cup {x}) = SumOver(f, T) + f[x]
<1>1. PICK g : Sums(g, f, SUBSET S) /\ \A T \in SUBSET S : g[T] \in Int  BY SumDefined
<1>0. Summing(g, f, S)  BY <1>1 DEF Summing
<1>2. ASSUME NEW T \in SUBSET S  PROVE SumOver(f, T) = g[T]
  <2>1. IsFiniteSet(T) /\ \A x \in T : f[x] \in Int  BY FS_Subset
  <2>2. PICK h : h = CHOOSE k : Sums(k, f, SUBSET T)  OBVIOUS
  <2>3. Sums(h, f, SUBSET T)  BY <2>1, <2>2, SumDefined
  <2>4. SumOver(f, T) = h[T]  BY <2>2 DEF SumOver, Sums
  <2>5. \A U \in SUBSET T : h[U] = g[U]  BY <1>0, <2>3, SumPicks
  <2>6. QED  BY <2>4, <2>5
<1>3. SumOver(f, {}) = 0
  <2>1. g[{}] = 0  BY <1>1 DEF Sums
  <2>2. QED  BY <1>2, <2>1
<1>4. ASSUME NEW T \in SUBSET S, NEW x \in S \ T  PROVE SumOver(f, T \cup {x}) = SumOver(f, T) + f[x]
  <2>1. PICK U \in SUBSET S : U = T \cup {x}  OBVIOUS
  <2>2. PICK R \in SUBSET S : R = S  OBVIOUS
  <2>3. \A V \in SUBSET R : \A y \in V : g[V] = f[y] + g[V \ {y}]
    <3>1. PICK h : h = g /\ Sums(h, f, SUBSET R)  BY <1>1, <2>2
    <3>2. \A V \in SUBSET R : h[V] = g[V] /\ \A y \in V : g[V] = f[y] + g[V \ {y}]
      BY <1>0, <3>1, SumPicks
    <3>3. QED  BY <3>2
  <2>4. g[U] = f[x] + g[U \ {x}]  BY <2>1, <2>2, <2>3
  <2>5. U \ {x} = T  BY <2>1
  <2>6. f[x] \in Int /\ g[T] \in Int  BY <1>1
  <2>7. g[U] = f[x] + g[T]  BY <2>4, <2>5
  <2>8. QED  BY <1>2, <2>1, <2>6, <2>7
<1>5. QED  BY <1>1, <1>2, <1>3, <1>4

-----------------------------------------------------------------------------
(* Quotients. *)

\* A remainder is below the divisor and not negative.
LEMMA ModRange ==
    ASSUME NEW a \in Int, NEW b \in Nat \ {0}
    PROVE  a % b \in Int /\ 0 <= a % b /\ a % b < b
OBVIOUS

\* A quotient is the number of whole divisors in the dividend.
LEMMA DivRange ==
    ASSUME NEW a \in Int, NEW b \in Nat \ {0}
    PROVE  a \div b \in Int /\ (a \div b) * b <= a /\ a < (a \div b) * b + b
OBVIOUS

\* Quotient and remainder make up the dividend.
LEMMA DivMod ==
    ASSUME NEW a \in Int, NEW b \in Nat \ {0}
    PROVE  a = (a \div b) * b + (a % b)
OBVIOUS

\* No other number is the quotient.
LEMMA DivUnique ==
    ASSUME NEW a \in Int, NEW b \in Nat \ {0}, NEW q \in Int, q * b <= a, a < q * b + b
    PROVE  a \div b = q
<1>1. PICK p \in Int : p = a \div b /\ p * b <= a /\ a < p * b + b  BY DivRange
<1>2. CASE p < q
  <2>1. q = p + 1 + (q - p - 1) /\ q - p - 1 \in Nat  BY <1>2
  <2>2. PICK d \in Nat : q = p + 1 + d  BY <2>1
  <2>3. q * b = p * b + b + d * b  BY <2>2
  <2>4. d * b >= 0  OBVIOUS
  <2>5. QED  BY <1>1, <2>3, <2>4
<1>3. CASE q < p
  <2>1. p = q + 1 + (p - q - 1) /\ p - q - 1 \in Nat  BY <1>3
  <2>2. PICK d \in Nat : p = q + 1 + d  BY <2>1
  <2>3. p * b = q * b + b + d * b  BY <2>2
  <2>4. d * b >= 0  OBVIOUS
  <2>5. QED  BY <1>1, <2>3, <2>4
<1>4. QED  BY <1>1, <1>2, <1>3
=============================================================================
