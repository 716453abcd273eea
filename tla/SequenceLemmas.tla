--------------------------- MODULE SequenceLemmas ---------------------------
(* What the proofs need of natural numbers, sequences and folds. Induction  *)
(* and iteration are about sets and functions rather than operators, so    *)
(* that a proof can instantiate them.                                      *)
EXTENDS Integers, Sequences, SequencesExt, FiniteSetsExt,
        SequenceTheorems, FiniteSetTheorems, WellFoundedInduction, TLAPS

-----------------------------------------------------------------------------
(* Induction and iteration                                                 *)

\* A set of numbers with 0 and the successors of its elements holds all of them.
LEMMA SetInduction ==
    ASSUME NEW S, S \subseteq Nat, 0 \in S, \A n \in S : n + 1 \in S
    PROVE  S = Nat
  <1> DEFINE T == Nat \ S
             R == OpToRel(<, Nat)
  <1>1. SUFFICES ASSUME T # {} PROVE FALSE
    OBVIOUS
  <1>2. IsWellFoundedOn(R, Nat) /\ T \subseteq Nat
    BY NatLessThanWellFounded
  <1>3. \A m, n \in Nat : m < n => <<m, n>> \in R
    BY DEF OpToRel
  <1> HIDE DEF R, T
  <1>4. PICK x \in T : \A y \in T : ~ (<<y, x>> \in R)
    BY <1>1, <1>2, WFMin
  <1>5. x \in Nat /\ x # 0
    BY <1>4 DEF T
  <1>6. x - 1 \in T
    BY <1>4, <1>5 DEF T
  <1>7. <<x - 1, x>> \in R
    BY <1>3, <1>5
  <1>8. QED
    BY <1>4, <1>6, <1>7

\* A set of numbers has a least element.
LEMMA LeastOf ==
    ASSUME NEW T, T \subseteq Nat, T # {}
    PROVE  Min(T) \in T /\ \A y \in T : Min(T) <= y
  <1> DEFINE R == OpToRel(<, Nat)
  <1>1. IsWellFoundedOn(R, Nat)
    BY NatLessThanWellFounded
  <1>2. \A m, n \in Nat : m < n => <<m, n>> \in R
    BY DEF OpToRel
  <1> HIDE DEF R
  <1>3. PICK x \in T : \A y \in T : ~ (<<y, x>> \in R)
    BY <1>1, WFMin
  <1>4. \A y \in T : x =< y
    <2>1. SUFFICES ASSUME NEW y \in T PROVE ~ (y < x)
      OBVIOUS
    <2>2. QED
      BY <1>2, <1>3
  <1>5. QED
    BY <1>4 DEF Min

\* The values that the step function F gives, one after the other, from v.
Iterates(f, n, V, v, F) ==
    /\ f \in [0..n -> V]
    /\ f[0] = v
    /\ \A i \in 1..n : f[i] = F[<<i, f[i - 1]>>]

\* There are such values, whatever the function.
LEMMA FiniteRecursion ==
    ASSUME NEW n \in Nat, NEW V, NEW v \in V, NEW F \in [(1..n) \X V -> V]
    PROVE  \E f : Iterates(f, n, V, v, F)
  <1> DEFINE Good(k, f) == f[0] = v /\ \A i \in 1..k : f[i] = F[<<i, f[i - 1]>>]
             S == {k \in Nat : k <= n => \E f \in [0..k -> V] : Good(k, f)}
  <1>1. 0 \in S
    <2> DEFINE f == [i \in 0..0 |-> v]
    <2>1. f \in [0..0 -> V] /\ Good(0, f)
      OBVIOUS
    <2>2. QED
      BY <2>1
  <1>2. ASSUME NEW k \in S PROVE k + 1 \in S
    <2>1. SUFFICES ASSUME k + 1 <= n PROVE \E f \in [0..(k + 1) -> V] : Good(k + 1, f)
      BY <1>2
    <2>2. PICK g \in [0..k -> V] : Good(k, g)
      BY <1>2, <2>1
    <2> DEFINE f == [i \in 0..(k + 1) |-> IF i <= k THEN g[i] ELSE F[<<k + 1, g[k]>>]]
    <2>3. k \in Nat /\ k + 1 \in 1..n /\ g[k] \in V
      BY <1>2, <2>1, <2>2
    <2>4. F[<<k + 1, g[k]>>] \in V
      BY <2>3
    <2>5. f \in [0..(k + 1) -> V]
      BY <2>2, <2>3, <2>4
    <2>6. Good(k + 1, f)
      <3>1. f[0] = v /\ f[k + 1] = F[<<k + 1, g[k]>>] /\ \A i \in 0..k : f[i] = g[i]
        BY <2>2, <2>3
      <3>2. ASSUME NEW i \in 1..(k + 1) PROVE f[i] = F[<<i, f[i - 1]>>]
        <4> HIDE DEF f
        <4>1. CASE i = k + 1
          BY <4>1, <3>1, <2>3
        <4>2. CASE i # k + 1
          <5>1. i \in 1..k /\ i \in 0..k /\ i - 1 \in 0..k
            BY <4>2, <2>3
          <5>2. QED
            BY <5>1, <3>1, <2>2
        <4>3. QED
          BY <4>1, <4>2
      <3>3. QED
        BY <3>1, <3>2
    <2>7. QED
      BY <2>5, <2>6
  <1>3. S = Nat
    <2> HIDE DEF Good
    <2>1. S \subseteq Nat
      OBVIOUS
    <2> HIDE DEF S
    <2>2. QED
      BY <1>1, <1>2, <2>1, SetInduction
  <1>4. PICK f \in [0..n -> V] : Good(n, f)
    BY <1>3
  <1>5. QED
    BY <1>4 DEF Iterates

-----------------------------------------------------------------------------
(* Strings: the set V of them is left abstract where only \o matters       *)

Assoc(a, b, c) == (a \o b) \o c = a \o (b \o c)

Strings(V) ==
    /\ <<>> \in V
    /\ \A a, b \in V : a \o b \in V
    /\ \A a \in V : a \o <<>> = a /\ <<>> \o a = a
    /\ \A a, b, c \in V : Assoc(a, b, c)

LEMMA SeqStrings == ASSUME NEW S PROVE Strings(Seq(S))
  <1>1. \A a, b \in Seq(S) : a \o b \in Seq(S)
    BY ConcatProperties
  <1>2. \A a \in Seq(S) : a \o <<>> = a /\ <<>> \o a = a
    BY ConcatEmptySeq
  <1>3. \A a, b, c \in Seq(S) : Assoc(a, b, c)
    BY ConcatAssociative DEF Assoc
  <1>4. <<>> \in Seq(S)
    OBVIOUS
  <1>5. QED
    BY <1>1, <1>2, <1>3, <1>4, Zenon DEF Strings

LEMMA Associative ==
    ASSUME NEW V, Strings(V), NEW a \in V, NEW b \in V, NEW c \in V
    PROVE  Assoc(a, b, c)
  BY DEF Strings

-----------------------------------------------------------------------------
(* The bytes of a queue                                                    *)

\* One string after the other, f has the bytes of the first ones of q.
Goes(q, f) ==
    /\ f[0] = <<>>
    /\ \A i \in 1..Len(q) : f[i] = f[i - 1] \o q[i]

LEMMA FlattensExists ==
    ASSUME NEW V, Strings(V), NEW q \in Seq(V)
    PROVE  \E f \in [0..Len(q) -> V] : Goes(q, f)
  <1> DEFINE n == Len(q)
             F == [iu \in (1..n) \X V |-> iu[2] \o q[iu[1]]]
  <1>1. n \in Nat /\ \A i \in 1..n : q[i] \in V
    OBVIOUS
  <1>2. <<>> \in V /\ \A u, v \in V : u \o v \in V
    BY DEF Strings
  <1>3. F \in [(1..n) \X V -> V]
    BY <1>1, <1>2
  <1>4. \A i \in 1..n : \A u \in V : F[<<i, u>>] = u \o q[i]
    OBVIOUS
  <1> HIDE DEF n, F
  <1>5. PICK f : Iterates(f, n, V, <<>>, F)
    BY <1>1, <1>2, <1>3, FiniteRecursion
  <1>6. f \in [0..n -> V] /\ f[0] = <<>> /\ \A i \in 1..n : f[i] = F[<<i, f[i - 1]>>]
    BY <1>5 DEF Iterates
  <1>7. \A i \in 1..n : f[i - 1] \in V
    <2>1. \A i \in 1..n : i - 1 \in 0..n
      BY <1>1
    <2>2. QED
      BY <1>6, <2>1
  <1>8. \A i \in 1..n : f[i] = f[i - 1] \o q[i]
    BY <1>4, <1>6, <1>7, Zenon
  <1>9. Goes(q, f)
    BY <1>6, <1>8 DEF Goes, n
  <1>10. QED
    BY <1>6, <1>9 DEF n

LEMMA FlattensUnique ==
    ASSUME NEW q, Len(q) \in Nat, NEW f, NEW g, Goes(q, f), Goes(q, g)
    PROVE  \A i \in 0..Len(q) : g[i] = f[i]
  <1> DEFINE n == Len(q)
             T == {i \in Nat : i <= n => g[i] = f[i]}
  <1>1. n \in Nat
    OBVIOUS
  <1>2. /\ f[0] = <<>> /\ \A i \in 1..n : f[i] = f[i - 1] \o q[i]
        /\ g[0] = <<>> /\ \A i \in 1..n : g[i] = g[i - 1] \o q[i]
    BY Zenon DEF Goes
  <1> HIDE DEF n
  <1>3. 0 \in T
    BY <1>2
  <1>4. ASSUME NEW i \in T PROVE i + 1 \in T
    <2>1. SUFFICES ASSUME i + 1 <= n PROVE g[i + 1] = f[i + 1]
      BY <1>4
    <2>2. i \in Nat /\ g[i] = f[i] /\ i + 1 \in 1..n /\ (i + 1) - 1 = i
      BY <1>1, <1>4, <2>1
    <2>3. f[i + 1] = f[i] \o q[i + 1] /\ g[i + 1] = g[i] \o q[i + 1]
      BY <1>2, <2>2
    <2>4. QED
      BY <2>2, <2>3
  <1>5. T = Nat
    <2>1. T \subseteq Nat
      OBVIOUS
    <2> HIDE DEF T
    <2>2. QED
      BY <1>3, <1>4, <2>1, SetInduction
  <1>6. \A i \in 0..n : i \in T /\ i <= n
    BY <1>1, <1>5
  <1>7. QED
    BY <1>6 DEF n

\* FlattenSeq goes from one string to the next.
LEMMA FlattenSeqDef ==
    ASSUME NEW V, Strings(V), NEW q \in Seq(V), NEW f, Goes(q, f)
    PROVE  FlattenSeq(q) = f[Len(q)]
  <1> DEFINE n == Len(q)
  <1>1. n \in Nat /\ \A i \in 1..n : q[i] \in V
    OBVIOUS
  <1>2. f[0] = <<>> /\ \A i \in 1..n : f[i] = f[i - 1] \o q[i]
    BY Zenon DEF Goes
  <1>3. CASE n = 0
    <2>1. q = <<>>
      BY <1>3
    <2>2. FlattenSeq(q) = q
      BY <1>3 DEF FlattenSeq
    <2>3. QED
      BY <1>2, <1>3, <2>1, <2>2
  <1>4. CASE n # 0
    <2> DEFINE Real(h) == [i \in 1..n |-> IF i = 1 THEN q[i] ELSE h[i - 1] \o q[i]]
               real == CHOOSE h : h = Real(h)
               fs == [i \in 1..n |-> f[i]]
    <2>1. fs = Real(fs)
      <3>1. ASSUME NEW i \in 1..n PROVE f[i] = IF i = 1 THEN q[i] ELSE fs[i - 1] \o q[i]
        <4>1. f[i] = f[i - 1] \o q[i] /\ q[i] \in V
          BY <1>1, <1>2
        <4>2. CASE i = 1
          <5>1. <<>> \o q[i] = q[i]
            BY <4>1 DEF Strings
          <5>2. i - 1 = 0
            BY <4>2
          <5>3. f[i] = <<>> \o q[i]
            BY <1>2, <4>1, <5>2
          <5>4. QED
            BY <4>2, <5>1, <5>3
        <4>3. CASE i # 1
          <5>1. i - 1 \in 1..n
            BY <1>1, <4>3
          <5>2. QED
            BY <4>1, <4>3, <5>1
        <4>4. QED
          BY <4>2, <4>3
      <3>2. QED
        BY <3>1
    <2>2. real = Real(real)
      BY <2>1
    <2>3. FlattenSeq(q) = real[n]
      BY <1>4 DEF FlattenSeq
    <2> HIDE DEF real
    <2>4. \A i \in 1..n : real[i] = IF i = 1 THEN q[i] ELSE real[i - 1] \o q[i]
      <3>1. \A i \in 1..n : Real(real)[i] = IF i = 1 THEN q[i] ELSE real[i - 1] \o q[i]
        OBVIOUS
      <3> HIDE DEF Real
      <3>2. QED
        BY <2>2, <3>1, Zenon
    <2> DEFINE g == [i \in 0..n |-> IF i = 0 THEN <<>> ELSE real[i]]
    <2>5. g[0] = <<>> /\ \A i \in 1..n : g[i] = real[i]
      BY <1>1
    <2> HIDE DEF g
    <2>6. ASSUME NEW i \in 1..n PROVE g[i] = g[i - 1] \o q[i]
      <3>1. CASE i = 1
        <4>1. i - 1 = 0 /\ q[i] \in V
          BY <1>1, <3>1
        <4>2. <<>> \o q[i] = q[i]
          BY <4>1 DEF Strings
        <4>3. real[i] = q[i]
          BY <2>4, <3>1
        <4>4. QED
          BY <2>5, <4>1, <4>2, <4>3
      <3>2. CASE i # 1
        <4>1. i - 1 \in 1..n
          BY <1>1, <3>2
        <4>2. real[i] = real[i - 1] \o q[i]
          BY <2>4, <3>2
        <4>3. QED
          BY <2>5, <4>1, <4>2
      <3>3. QED
        BY <3>1, <3>2
    <2>7. Goes(q, g)
      BY <2>5, <2>6 DEF Goes
    <2>8. \A i \in 0..n : g[i] = f[i]
      BY <1>1, <2>7, FlattensUnique
    <2>9. n \in 0..n /\ n \in 1..n
      BY <1>1, <1>4
    <2>10. QED
      BY <2>3, <2>5, <2>8, <2>9
  <1>5. QED
    BY <1>3, <1>4

LEMMA FlattenSeqType ==
    ASSUME NEW V, Strings(V), NEW q \in Seq(V)
    PROVE  FlattenSeq(q) \in V
  <1>1. PICK f \in [0..Len(q) -> V] : Goes(q, f)
    BY FlattensExists
  <1>2. FlattenSeq(q) = f[Len(q)]
    BY <1>1, FlattenSeqDef
  <1>3. Len(q) \in 0..Len(q)
    OBVIOUS
  <1>4. QED
    BY <1>1, <1>2, <1>3

LEMMA FlattenSeqEmpty == FlattenSeq(<<>>) = <<>>
  BY DEF FlattenSeq

\* The bytes of two queues, one after the other.
LEMMA FlattenSeqConcat ==
    ASSUME NEW V, Strings(V), NEW p \in Seq(V), NEW q \in Seq(V)
    PROVE  FlattenSeq(p \o q) = FlattenSeq(p) \o FlattenSeq(q)
  <1>1. PICK f \in [0..Len(p) -> V] : Goes(p, f)
    BY FlattensExists
  <1>2. PICK g \in [0..Len(q) -> V] : Goes(q, g)
    BY FlattensExists
  <1> DEFINE r == p \o q
             m == Len(p)
             n == Len(q)
             k == [i \in 0..(m + n) |-> IF i <= m THEN f[i] ELSE f[m] \o g[i - m]]
  <1>3. /\ m \in Nat /\ n \in Nat /\ Len(r) = m + n /\ r \in Seq(V)
        /\ \A i \in 1..(m + n) : r[i] = IF i <= m THEN p[i] ELSE q[i - m]
        /\ \A i \in 1..n : q[i] \in V
    BY ConcatProperties
  <1>4. FlattenSeq(p) = f[m] /\ FlattenSeq(q) = g[n]
    BY <1>1, <1>2, FlattenSeqDef
  <1>5. /\ f \in [0..m -> V] /\ f[0] = <<>> /\ \A i \in 1..m : f[i] = f[i - 1] \o p[i]
        /\ g \in [0..n -> V] /\ g[0] = <<>> /\ \A i \in 1..n : g[i] = g[i - 1] \o q[i]
    BY <1>1, <1>2, Zenon DEF Goes
  <1> HIDE DEF r, m, n
  <1>6. /\ k[0] = <<>> /\ \A i \in 0..m : k[i] = f[i]
        /\ \A i \in 1..n : k[m + i] = f[m] \o g[i]
    <2>1. \A i \in 0..m : i \in 0..(m + n) /\ i <= m
      BY <1>3
    <2>2. \A i \in 1..n : m + i \in 0..(m + n) /\ ~(m + i <= m) /\ (m + i) - m = i
      BY <1>3
    <2>3. 0 \in 0..m
      BY <1>3
    <2>4. QED
      BY <1>5, <2>1, <2>2, <2>3
  <1> HIDE DEF k
  <1>7. \A i \in 0..n : k[m + i] = f[m] \o g[i]
    <2>1. f[m] \in V /\ m \in 0..m /\ m + 0 = m
      BY <1>3, <1>5
    <2>2. f[m] \o <<>> = f[m]
      BY <2>1 DEF Strings
    <2>3. k[m + 0] = f[m] \o g[0]
      BY <1>5, <1>6, <2>1, <2>2
    <2>4. \A i \in 0..n : i = 0 \/ i \in 1..n
      BY <1>3
    <2>5. QED
      BY <1>6, <2>3, <2>4
  <1>8. ASSUME NEW i \in 1..(m + n) PROVE k[i] = k[i - 1] \o r[i]
    <2>1. CASE i <= m
      <3>1. i \in 1..m /\ i \in 0..m /\ i - 1 \in 0..m
        BY <1>3, <2>1
      <3>2. k[i] = f[i] /\ k[i - 1] = f[i - 1] /\ r[i] = p[i]
        BY <1>3, <1>6, <2>1, <3>1
      <3>3. QED
        BY <1>5, <3>1, <3>2
    <2>2. CASE ~(i <= m)
      <3> DEFINE j == i - m
      <3>1. j \in 1..n /\ i = m + j /\ i - 1 = m + (j - 1) /\ j \in 0..n /\ j - 1 \in 0..n
        BY <1>3, <2>2
      <3>2. r[i] = q[j]
        BY <1>3, <2>2
      <3> HIDE DEF j
      <3>3. f[m] \in V /\ g[j - 1] \in V /\ q[j] \in V
        BY <1>3, <1>5, <3>1
      <3>4. k[i] = f[m] \o g[j] /\ k[i - 1] = f[m] \o g[j - 1] /\ g[j] = g[j - 1] \o q[j]
        BY <1>5, <1>7, <3>1
      <3>5. (f[m] \o g[j - 1]) \o q[j] = f[m] \o (g[j - 1] \o q[j])
        <4>1. Assoc(f[m], g[j - 1], q[j])
          BY <3>3, Associative
        <4>2. QED
          BY <4>1, Zenon DEF Assoc
      <3>6. QED
        BY <3>2, <3>4, <3>5
    <2>3. QED
      BY <2>1, <2>2
  <1>9. Goes(r, k)
    BY <1>3, <1>6, <1>8 DEF Goes
  <1>10. FlattenSeq(r) = k[m + n]
    BY <1>3, <1>9, FlattenSeqDef
  <1>11. k[m + n] = f[m] \o g[n]
    <2>1. n \in 0..n
      BY <1>3
    <2>2. QED
      BY <1>7, <2>1
  <1>12. QED
    BY <1>4, <1>10, <1>11 DEF r

LEMMA FlattenSeqOne ==
    ASSUME NEW V, Strings(V), NEW x \in V
    PROVE  FlattenSeq(<<x>>) = x
  <1> DEFINE q == <<x>>
             f == [i \in 0..1 |-> IF i = 0 THEN <<>> ELSE x]
  <1>1. q \in Seq(V) /\ Len(q) = 1 /\ q[1] = x
    OBVIOUS
  <1>2. f[0] = <<>> /\ f[1] = x
    OBVIOUS
  <1>3. <<>> \o x = x
    BY DEF Strings
  <1> HIDE DEF q, f
  <1>4. \A i \in 1..1 : i = 1 /\ i - 1 = 0
    OBVIOUS
  <1>5. Goes(q, f)
    BY <1>1, <1>2, <1>3, <1>4 DEF Goes
  <1>6. FlattenSeq(q) = f[1]
    BY <1>1, <1>5, FlattenSeqDef
  <1>7. QED
    BY <1>2, <1>6 DEF q

\* A queue is what comes before an element, the element, and what comes after.
LEMMA SplitAt ==
    ASSUME NEW V, NEW q \in Seq(V), NEW n \in 0..(Len(q) - 1)
    PROVE  /\ SubSeq(q, 1, n) \in Seq(V) /\ q[n + 1] \in V
           /\ SubSeq(q, n + 2, Len(q)) \in Seq(V)
           /\ q = SubSeq(q, 1, n) \o (<<q[n + 1]>> \o SubSeq(q, n + 2, Len(q)))
  <1> DEFINE m == Len(q)
             a == SubSeq(q, 1, n)
             b == SubSeq(q, n + 1, m)
             c == SubSeq(q, n + 2, m)
  <1>1. m \in Nat /\ n \in Nat /\ n + 1 \in 1..m /\ m \in (n + 1)..m
    OBVIOUS
  <1>2. \A i \in 1..m : q[i] \in V
    OBVIOUS
  <1>3. a \in Seq(V) /\ c \in Seq(V) /\ q[n + 1] \in V
    BY <1>1, <1>2, SubSeqProperties
  <1>4. q = SubSeq(q, 1, m)
    BY SubSeqFull
  <1>5. SubSeq(q, 1, m) = a \o b
    <2>1. 1 \in 1..(m + 1) /\ n \in 0..m /\ m \in n..m
      BY <1>1
    <2>2. QED
      BY <2>1, ConcatAdjacentSubSeq
  <1>6. b = <<q[n + 1]>> \o c
    <2>1. b = <<q[n + 1]>> \o SubSeq(q, (n + 1) + 1, m)
      BY <1>1, SubSeqRecursiveFirst
    <2>2. (n + 1) + 1 = n + 2
      BY <1>1
    <2>3. QED
      BY <2>1, <2>2
  <1>7. QED
    BY <1>3, <1>4, <1>5, <1>6

\* A string is its first k elements and the rest.
LEMMA Cut ==
    ASSUME NEW S, NEW x \in Seq(S), NEW k \in 0..Len(x)
    PROVE  /\ SubSeq(x, 1, k) \in Seq(S) /\ Len(SubSeq(x, 1, k)) = k
           /\ SubSeq(x, k + 1, Len(x)) \in Seq(S)
           /\ x = SubSeq(x, 1, k) \o SubSeq(x, k + 1, Len(x))
  <1> DEFINE m == Len(x)
  <1>1. m \in Nat /\ k \in Nat /\ 1 \in 1..(m + 1) /\ k \in 0..m /\ m \in k..m
    OBVIOUS
  <1>2. \A i \in 1..m : x[i] \in S
    OBVIOUS
  <1>3. SubSeq(x, 1, k) \in Seq(S) /\ Len(SubSeq(x, 1, k)) = k
    BY <1>1, <1>2, SubSeqProperties
  <1>4. SubSeq(x, k + 1, m) \in Seq(S)
    BY <1>1, <1>2, SubSeqProperties
  <1>5. SubSeq(x, 1, m) = SubSeq(x, 1, k) \o SubSeq(x, k + 1, m)
    <2>1. 1 \in 1..(Len(x) + 1) /\ k \in (1 - 1)..Len(x) /\ Len(x) \in k..Len(x)
      BY <1>1
    <2>2. SubSeq(x, 1, k) \o SubSeq(x, k + 1, Len(x)) = SubSeq(x, 1, Len(x))
      BY <2>1, ConcatAdjacentSubSeq
    <2>3. QED
      BY <2>2
  <1>6. QED
    BY <1>3, <1>4, <1>5, SubSeqFull

LEMMA PrefixOfConcat ==
    ASSUME NEW S, NEW s \in Seq(S), NEW t \in Seq(S)
    PROVE  IsPrefix(s, s \o t)
  <1> DEFINE u == s \o t
  <1>1. /\ u \in Seq(S) /\ Len(u) = Len(s) + Len(t) /\ Len(s) \in Nat /\ Len(t) \in Nat
        /\ \A i \in 1..(Len(s) + Len(t)) : u[i] = IF i <= Len(s) THEN s[i] ELSE t[i - Len(s)]
    BY ConcatProperties
  <1> HIDE DEF u
  <1>2. \A i \in 1..Len(s) : u[i] = s[i] /\ s[i] \in S
    BY <1>1
  <1>3. /\ SubSeq(u, 1, Len(s)) \in Seq(S) /\ Len(SubSeq(u, 1, Len(s))) = Len(s)
        /\ \A i \in 1..Len(s) : SubSeq(u, 1, Len(s))[i] = u[i]
    BY <1>1, <1>2, SubSeqProperties
  <1>4. SubSeq(u, 1, Len(s)) = s
    BY <1>2, <1>3, SeqEqual
  <1>5. SubSeq(s, 1, Len(s)) = s
    BY SubSeqFull
  <1>6. Len(s) <= Len(u)
    BY <1>1
  <1>7. QED
    BY <1>4, <1>5, <1>6 DEF IsPrefix, u

LEMMA FlattenSplit ==
    ASSUME NEW V, Strings(V), NEW q \in Seq(V), NEW n \in 0..(Len(q) - 1)
    PROVE  FlattenSeq(q) = FlattenSeq(SubSeq(q, 1, n))
                           \o (q[n + 1] \o FlattenSeq(SubSeq(q, n + 2, Len(q))))
  <1> DEFINE a == SubSeq(q, 1, n)
             x == q[n + 1]
             c == SubSeq(q, n + 2, Len(q))
  <1>1. a \in Seq(V) /\ x \in V /\ c \in Seq(V) /\ q = a \o (<<x>> \o c)
    BY SplitAt
  <1> HIDE DEF a, x, c
  <1>2. <<x>> \in Seq(V) /\ FlattenSeq(<<x>>) = x
    BY <1>1, FlattenSeqOne
  <1>3. <<x>> \o c \in Seq(V) /\ FlattenSeq(<<x>> \o c) = FlattenSeq(<<x>>) \o FlattenSeq(c)
    BY <1>1, <1>2, ConcatProperties, FlattenSeqConcat
  <1>4. FlattenSeq(a \o (<<x>> \o c)) = FlattenSeq(a) \o FlattenSeq(<<x>> \o c)
    BY <1>1, <1>3, FlattenSeqConcat
  <1>5. FlattenSeq(q) = FlattenSeq(a) \o (x \o FlattenSeq(c))
    BY <1>1, <1>2, <1>3, <1>4
  <1>6. QED
    BY <1>5 DEF a, x, c

-----------------------------------------------------------------------------
(* Folds over the positions of a sequence                                  *)

\* What a fold from v with F gives for the positions in a set.
Folds(it, n, v, F) ==
    it = [T \in SUBSET (1..n) |-> IF T = {} THEN v ELSE F[<<Max(T), it[T \ {Max(T)}]>>]]

LEMMA MaxIs ==
    ASSUME NEW T, NEW m \in T, T \subseteq Nat, \A x \in T : x <= m
    PROVE  Max(T) = m
  <1>1. \A y \in T : m >= y
    OBVIOUS
  <1>2. /\ Max(T) \in T /\ \A y \in T : Max(T) >= y
    BY <1>1 DEF Max
  <1>3. Max(T) \in Nat /\ m \in Nat /\ Max(T) <= m /\ m <= Max(T)
    BY <1>2
  <1>4. QED
    BY <1>3

LEMMA FoldsExist ==
    ASSUME NEW n \in Nat, NEW V, NEW v \in V, NEW F \in [(1..n) \X V -> V]
    PROVE  \E it \in [SUBSET (1..n) -> V] : Folds(it, n, v, F)
  <1> DEFINE Good(k, it) == \A T \in SUBSET (1..k) : it[T] = IF T = {} THEN v ELSE F[<<Max(T), it[T \ {Max(T)}]>>]
             Has(k) == \E it \in [SUBSET (1..k) -> V] : Good(k, it)
             S == {k \in Nat : k <= n => Has(k)}
  <1>1. 0 \in S
    <2> DEFINE it == [T \in SUBSET (1..0) |-> v]
    <2>1. \A T \in SUBSET (1..0) : T = {}
      OBVIOUS
    <2>2. it \in [SUBSET (1..0) -> V] /\ Good(0, it)
      BY <2>1
    <2>3. QED
      BY <2>2
  <1> HIDE DEF Good, Has
  <1>2. ASSUME NEW k \in S PROVE k + 1 \in S
    <2>1. SUFFICES ASSUME k + 1 <= n PROVE Has(k + 1)
      BY <1>2
    <2>2. PICK g \in [SUBSET (1..k) -> V] : Good(k, g)
      <3>1. Has(k)
        BY <1>2, <2>1
      <3>2. QED
        BY <3>1, Zenon DEF Has
    <2> DEFINE it == [T \in SUBSET (1..(k + 1)) |->
                         IF k + 1 \in T THEN F[<<k + 1, g[T \ {k + 1}]>>] ELSE g[T]]
    <2>3. k \in Nat /\ k + 1 \in 1..n
      BY <1>2, <2>1
    <2>4. \A T \in SUBSET (1..(k + 1)) : T \ {k + 1} \in SUBSET (1..k)
      BY <2>3
    <2>5. \A T \in SUBSET (1..(k + 1)) : k + 1 \notin T => T \in SUBSET (1..k)
      BY <2>3
    <2>6. it \in [SUBSET (1..(k + 1)) -> V]
      <3>1. ASSUME NEW T \in SUBSET (1..(k + 1))
            PROVE  (IF k + 1 \in T THEN F[<<k + 1, g[T \ {k + 1}]>>] ELSE g[T]) \in V
        <4>1. CASE k + 1 \in T
          <5>1. g[T \ {k + 1}] \in V
            BY <2>2, <2>4
          <5>2. <<k + 1, g[T \ {k + 1}]>> \in (1..n) \X V
            BY <5>1, <2>3
          <5>3. QED
            BY <5>2, <4>1
        <4>2. CASE k + 1 \notin T
          BY <4>2, <2>2, <2>5
        <4>3. QED
          BY <4>1, <4>2
      <3>2. QED
        BY <3>1
    <2>7. \A T \in SUBSET (1..k) : it[T] = g[T] /\ T \in SUBSET (1..(k + 1))
      <3>1. \A T \in SUBSET (1..k) : k + 1 \notin T /\ T \in SUBSET (1..(k + 1))
        BY <2>3
      <3>2. QED
        BY <3>1
    <2>8. \A T \in SUBSET (1..(k + 1)) : k + 1 \in T => it[T] = F[<<k + 1, g[T \ {k + 1}]>>]
      OBVIOUS
    <2> HIDE DEF it
    <2>9. ASSUME NEW T \in SUBSET (1..(k + 1))
          PROVE  it[T] = IF T = {} THEN v ELSE F[<<Max(T), it[T \ {Max(T)}]>>]
      <3>1. CASE k + 1 \in T
        <4>1. Max(T) = k + 1
          <5>1. T \subseteq Nat /\ \A x \in T : x <= k + 1
            BY <2>3
          <5>2. QED
            BY <5>1, <3>1, MaxIs
        <4>2. it[T \ {k + 1}] = g[T \ {k + 1}]
          BY <2>4, <2>7
        <4>3. T # {}
          BY <3>1
        <4>4. QED
          BY <3>1, <4>1, <4>2, <4>3, <2>8
      <3>2. CASE k + 1 \notin T /\ T # {}
        <4>1. T \in SUBSET (1..k) /\ T \ {Max(T)} \in SUBSET (1..k)
          BY <3>2, <2>5
        <4>2. it[T] = g[T] /\ it[T \ {Max(T)}] = g[T \ {Max(T)}]
          BY <4>1, <2>7
        <4>3. g[T] = F[<<Max(T), g[T \ {Max(T)}]>>]
          BY <4>1, <3>2, <2>2 DEF Good
        <4>4. QED
          BY <4>2, <4>3, <3>2
      <3>3. CASE T = {}
        <4>1. T \in SUBSET (1..k)
          BY <3>3
        <4>2. QED
          BY <4>1, <3>3, <2>2, <2>7 DEF Good
      <3>4. QED
        BY <3>1, <3>2, <3>3
    <2>10. Good(k + 1, it)
      BY <2>9 DEF Good
    <2>11. QED
      BY <2>6, <2>10 DEF Has
  <1>3. S = Nat
    <2>1. S \subseteq Nat
      OBVIOUS
    <2> HIDE DEF S
    <2>2. QED
      BY <1>1, <1>2, <2>1, SetInduction
  <1>4. PICK it \in [SUBSET (1..n) -> V] : Good(n, it)
    <2>1. Has(n)
      BY <1>3
    <2>2. QED
      BY <2>1, Zenon DEF Has
  <1>5. it = [T \in SUBSET (1..n) |-> IF T = {} THEN v ELSE F[<<Max(T), it[T \ {Max(T)}]>>]]
    BY <1>4 DEF Good
  <1>6. QED
    BY <1>4, <1>5 DEF Folds

LEMMA GreatestOf ==
    ASSUME NEW n \in Nat, NEW T \in SUBSET (1..n), T # {}
    PROVE  Max(T) \in T
  <1> DEFINE D == {n - x : x \in T}
  <1>1. D \subseteq Nat /\ D # {}
    <2>1. D \subseteq Nat
      OBVIOUS
    <2>2. PICK x \in T : TRUE
      OBVIOUS
    <2>3. n - x \in D
      OBVIOUS
    <2>4. QED
      BY <2>1, <2>3
  <1>2. Min(D) \in D /\ \A y \in D : Min(D) <= y
    BY <1>1, LeastOf
  <1>3. PICK m \in T : Min(D) = n - m
    BY <1>2
  <1>4. \A x \in T : n - m <= n - x
    BY <1>2, <1>3
  <1>5. T \subseteq Nat /\ \A x \in T : x <= m
    BY <1>4
  <1>6. QED
    BY <1>5, MaxIs

\* A fold takes one position after the other.
FoldsUp(it, n, V, v, F) ==
    /\ it[{}] = v
    /\ \A i \in 1..n : it[1..(i - 1)] \in V => it[1..i] = F[<<i, it[1..(i - 1)]>>]

IteratesTo(r, n, V, v, F) == \E f : Iterates(f, n, V, v, F) /\ f[n] = r

LEMMA FoldIterates ==
    ASSUME NEW n \in Nat, NEW V, NEW v \in V, NEW F \in [(1..n) \X V -> V], NEW it,
           FoldsUp(it, n, V, v, F)
    PROVE  IteratesTo(it[1..n], n, V, v, F)
  <1> DEFINE f == [i \in 0..n |-> it[1..i]]
             S == {i \in Nat : i <= n => f[i] \in V}
  <1>1. \A i \in 0..n : f[i] = it[1..i]
    OBVIOUS
  <1>2. f[0] = v
    <2>1. 1..0 = {} /\ 0 \in 0..n
      OBVIOUS
    <2>2. QED
      BY <1>1, <2>1 DEF FoldsUp
  <1>3. \A i \in 1..n : f[i - 1] \in V => f[i] = F[<<i, f[i - 1]>>]
    <2>1. \A i \in 1..n : i \in 0..n /\ i - 1 \in 0..n
      OBVIOUS
    <2>2. QED
      BY <1>1, <2>1 DEF FoldsUp
  <1> HIDE DEF f
  <1>4. 0 \in S
    BY <1>2
  <1>5. ASSUME NEW i \in S PROVE i + 1 \in S
    <2>1. SUFFICES ASSUME i + 1 <= n PROVE f[i + 1] \in V
      BY <1>5
    <2>2. i + 1 \in 1..n /\ (i + 1) - 1 = i /\ f[i] \in V
      BY <1>5, <2>1
    <2>3. QED
      BY <1>3, <2>2
  <1>6. S = Nat
    <2>1. S \subseteq Nat
      OBVIOUS
    <2> HIDE DEF S
    <2>2. QED
      BY <1>4, <1>5, <2>1, SetInduction
  <1>7. \A i \in 0..n : f[i] \in V
    BY <1>6
  <1>8. f \in [0..n -> V]
    BY <1>7 DEF f
  <1>9. \A i \in 1..n : f[i] = F[<<i, f[i - 1]>>]
    <2>1. \A i \in 1..n : i - 1 \in 0..n
      OBVIOUS
    <2>2. QED
      BY <1>3, <1>7, <2>1
  <1>10. Iterates(f, n, V, v, F)
    BY <1>2, <1>8, <1>9 DEF Iterates
  <1>11. it[1..n] = f[n]
    <2>1. n \in 0..n
      OBVIOUS
    <2>2. QED
      BY <1>1, <2>1
  <1>12. QED
    BY <1>10, <1>11 DEF IteratesTo

-----------------------------------------------------------------------------
(* Slices of a text                                                        *)

LEMMA Slice ==
    ASSUME NEW V, NEW s \in Seq(V), NEW a \in 1..(Len(s) + 1), NEW b \in (a - 1)..Len(s)
    PROVE  /\ SubSeq(s, a, b) \in Seq(V)
           /\ Len(SubSeq(s, a, b)) = b - a + 1
           /\ DOMAIN SubSeq(s, a, b) = 1..(b - a + 1)
           /\ \A i \in 1..(b - a + 1) : SubSeq(s, a, b)[i] = s[a + i - 1]
  <1>1. a \in Int /\ b \in Int /\ Len(s) \in Nat
    OBVIOUS
  <1>2. \A i \in a..b : s[i] \in V
    <2>1. \A i \in a..b : i \in 1..Len(s)
      BY <1>1
    <2>2. QED
      BY <2>1, ElementOfSeq
  <1>3. /\ SubSeq(s, a, b) \in Seq(V)
        /\ Len(SubSeq(s, a, b)) = IF a <= b THEN b - a + 1 ELSE 0
        /\ \A i \in 1..(b - a + 1) : SubSeq(s, a, b)[i] = s[a + i - 1]
    BY <1>1, <1>2, SubSeqProperties
  <1>4. Len(SubSeq(s, a, b)) = b - a + 1
    BY <1>1, <1>3
  <1>5. QED
    BY <1>3, <1>4, LenProperties

\* Element by element.
IsConcat(u, s, t, V) ==
    /\ u \in Seq(V) /\ Len(u) = Len(s) + Len(t)
    /\ \A i \in 1..Len(s) : u[i] = s[i]
    /\ \A i \in 1..Len(t) : u[Len(s) + i] = t[i]

LEMMA ConcatIs ==
    ASSUME NEW V, NEW s \in Seq(V), NEW t \in Seq(V)
    PROVE  IsConcat(s \o t, s, t, V)
  <1>1. /\ s \o t \in Seq(V) /\ Len(s \o t) = Len(s) + Len(t)
        /\ \A i \in 1..(Len(s) + Len(t)) : (s \o t)[i] = IF i <= Len(s) THEN s[i] ELSE t[i - Len(s)]
    BY ConcatProperties
  <1>2. Len(s) \in Nat /\ Len(t) \in Nat
    OBVIOUS
  <1> DEFINE u == s \o t
             m == Len(s)
             n == Len(t)
  <1> HIDE DEF u, m, n
  <1>3. /\ m \in Nat /\ n \in Nat
        /\ \A i \in 1..(m + n) : u[i] = IF i <= m THEN s[i] ELSE t[i - m]
    BY <1>1, <1>2 DEF u, m, n
  <1>4. \A i \in 1..m : i \in 1..(m + n) /\ i <= m
    BY <1>3
  <1>5. \A i \in 1..n : m + i \in 1..(m + n) /\ ~(m + i <= m) /\ (m + i) - m = i
    BY <1>3
  <1>6. (\A i \in 1..m : u[i] = s[i]) /\ \A i \in 1..n : u[m + i] = t[i]
    BY <1>3, <1>4, <1>5
  <1>7. QED
    BY <1>1, <1>6 DEF IsConcat, u, m, n

LEMMA SliceOfSlice ==
    ASSUME NEW V, NEW t \in Seq(V), NEW x \in Nat, NEW n \in Nat, x + n <= Len(t),
           NEW a \in 1..(n + 1), NEW b \in (a - 1)..n
    PROVE  SubSeq(SubSeq(t, x + 1, x + n), a, b) = SubSeq(t, x + a, x + b)
  <1> DEFINE u == SubSeq(t, x + 1, x + n)
             v == SubSeq(u, a, b)
             w == SubSeq(t, x + a, x + b)
  <1>0. /\ Len(t) \in Nat /\ x + 1 \in 1..(Len(t) + 1) /\ x + n \in ((x + 1) - 1)..Len(t)
        /\ x + a \in 1..(Len(t) + 1) /\ x + b \in ((x + a) - 1)..Len(t)
        /\ (x + n) - (x + 1) + 1 = n /\ (x + b) - (x + a) + 1 = b - a + 1
    OBVIOUS
  <1>1. u \in Seq(V) /\ Len(u) = n /\ \A i \in 1..n : u[i] = t[(x + 1) + i - 1]
    BY <1>0, Slice
  <1>2. w \in Seq(V) /\ Len(w) = b - a + 1 /\ \A i \in 1..(b - a + 1) : w[i] = t[(x + a) + i - 1]
    BY <1>0, Slice
  <1> HIDE DEF u, w
  <1>3. v \in Seq(V) /\ Len(v) = b - a + 1 /\ \A i \in 1..(b - a + 1) : v[i] = u[a + i - 1]
    BY <1>1, Slice
  <1> HIDE DEF v
  <1>4. ASSUME NEW i \in 1..(b - a + 1) PROVE v[i] = w[i]
    <2>1. a + i - 1 \in 1..n /\ (x + 1) + (a + i - 1) - 1 = (x + a) + i - 1
      BY <1>0
    <2>2. QED
      BY <1>1, <1>2, <1>3, <2>1
  <1>5. v = w
    BY <1>2, <1>3, <1>4, SeqEqual
  <1>6. QED
    BY <1>5 DEF u, v, w

\* A prefix and what comes next are a prefix.
LEMMA PrefixGrows ==
    ASSUME NEW V, NEW t \in Seq(V), NEW a \in Nat, NEW b \in Nat, a <= b, b <= Len(t)
    PROVE  SubSeq(t, 1, a) \o SubSeq(t, a + 1, b) = SubSeq(t, 1, b)
  <1>1. 1 \in 1..(Len(t) + 1) /\ a \in (1 - 1)..Len(t) /\ b \in a..Len(t)
    OBVIOUS
  <1>2. QED
    BY <1>1, ConcatAdjacentSubSeq

LEMMA PrefixOfWhole ==
    ASSUME NEW V, NEW s \in Seq(V), NEW t \in Seq(V), NEW a \in 0..Len(s)
    PROVE  SubSeq(s \o t, 1, a) = SubSeq(s, 1, a)
  <1> DEFINE u == s \o t
  <1>1. /\ u \in Seq(V) /\ Len(u) = Len(s) + Len(t) /\ Len(s) \in Nat /\ Len(t) \in Nat
        /\ \A i \in 1..(Len(s) + Len(t)) : u[i] = IF i <= Len(s) THEN s[i] ELSE t[i - Len(s)]
    BY ConcatProperties
  <1> HIDE DEF u
  <1>2. 1 \in 1..(Len(s) + 1) /\ a \in (1 - 1)..Len(s) /\ 1 \in 1..(Len(u) + 1) /\ a \in (1 - 1)..Len(u) /\ a - 1 + 1 = a
    BY <1>1
  <1>3. SubSeq(u, 1, a) \in Seq(V) /\ Len(SubSeq(u, 1, a)) = a /\ \A i \in 1..a : SubSeq(u, 1, a)[i] = u[1 + i - 1]
    BY <1>1, <1>2, Slice
  <1>4. SubSeq(s, 1, a) \in Seq(V) /\ Len(SubSeq(s, 1, a)) = a /\ \A i \in 1..a : SubSeq(s, 1, a)[i] = s[1 + i - 1]
    BY <1>2, Slice
  <1>5. ASSUME NEW i \in 1..a PROVE SubSeq(u, 1, a)[i] = SubSeq(s, 1, a)[i]
    <2>1. 1 + i - 1 = i /\ i \in 1..(Len(s) + Len(t)) /\ i <= Len(s)
      BY <1>1
    <2>2. QED
      BY <1>1, <1>3, <1>4, <2>1
  <1>6. SubSeq(u, 1, a) = SubSeq(s, 1, a)
    BY <1>3, <1>4, <1>5, SeqEqual
  <1>7. QED
    BY <1>6 DEF u

LEMMA NarrowerSeq ==
    ASSUME NEW V, NEW A, NEW s \in Seq(V), \A i \in 1..Len(s) : s[i] \in A
    PROVE  s \in Seq(A)
  <1> DEFINE n == Len(s)
  <1>1. n \in Nat /\ s = [i \in 1..n |-> s[i]] /\ \A i \in 1..n : s[i] \in A
    OBVIOUS
  <1> HIDE DEF n
  <1>2. s \in [1..n -> A]
    BY <1>1
  <1>3. QED
    BY <1>1, <1>2

\* A sequence over a smaller set.
LEMMA SmallerSeq ==
    ASSUME NEW A, NEW V, A \subseteq V
    PROVE  Seq(A) \subseteq Seq(V)
  <1>1. SUFFICES ASSUME NEW s \in Seq(A) PROVE s \in Seq(V)
    OBVIOUS
  <1>2. Len(s) \in Nat /\ s = [i \in 1..Len(s) |-> s[i]] /\ \A i \in 1..Len(s) : s[i] \in V
    <2>1. Len(s) \in Nat /\ DOMAIN s = 1..Len(s) /\ s = [i \in DOMAIN s |-> s[i]]
      BY LenProperties
    <2>2. \A i \in 1..Len(s) : s[i] \in A
      BY ElementOfSeq
    <2>3. QED
      BY <2>1, <2>2
  <1>3. [i \in 1..Len(s) |-> s[i]] \in Seq(V)
    BY <1>2
  <1>4. QED
    BY <1>2, <1>3

-----------------------------------------------------------------------------
(* Lines and their ends                                                    *)

\* The text of some lines, each with what ends it.
Joined(s, end) == FlattenSeq([i \in DOMAIN s |-> s[i] \o end])

LEMMA EndedLines ==
    ASSUME NEW W, Strings(W), NEW s \in Seq(W), NEW end \in W
    PROVE  LET m == [i \in DOMAIN s |-> s[i] \o end]
           IN m \in Seq(W) /\ Len(m) = Len(s) /\ \A i \in 1..Len(s) : m[i] = s[i] \o end
  <1> DEFINE m == [i \in DOMAIN s |-> s[i] \o end]
             n == Len(s)
  <1>1. n \in Nat /\ DOMAIN s = 1..n
    BY LenProperties
  <1>2. ASSUME NEW i \in 1..n PROVE s[i] \o end \in W
    <2>1. s[i] \in W
      BY ElementOfSeq
    <2>2. QED
      BY <2>1 DEF Strings
  <1>3. m = [i \in 1..n |-> s[i] \o end]
    BY <1>1
  <1> HIDE DEF n
  <1>4. [i \in 1..n |-> s[i] \o end] \in Seq(W) /\ Len([i \in 1..n |-> s[i] \o end]) = n
    BY <1>1, <1>2
  <1>5. \A i \in 1..n : m[i] = s[i] \o end
    BY <1>3
  <1>6. QED
    BY <1>3, <1>4, <1>5 DEF n

LEMMA JoinedType ==
    ASSUME NEW W, Strings(W), NEW s \in Seq(W), NEW end \in W
    PROVE  Joined(s, end) \in W
  <1> DEFINE m == [i \in DOMAIN s |-> s[i] \o end]
  <1>1. m \in Seq(W)
    BY EndedLines
  <1> HIDE DEF m
  <1>2. FlattenSeq(m) \in W
    BY <1>1, FlattenSeqType
  <1>3. QED
    BY <1>2 DEF Joined, m

LEMMA JoinedEmpty == ASSUME NEW end PROVE Joined(<<>>, end) = <<>>
  <1>1. [i \in DOMAIN <<>> |-> <<>>[i] \o end] = <<>>
    OBVIOUS
  <1>2. QED
    BY <1>1, FlattenSeqEmpty DEF Joined

LEMMA JoinedConcat ==
    ASSUME NEW W, Strings(W), NEW s \in Seq(W), NEW t \in Seq(W), NEW end \in W
    PROVE  Joined(s \o t, end) = Joined(s, end) \o Joined(t, end)
  <1> DEFINE M(q) == [i \in DOMAIN q |-> q[i] \o end]
             u == s \o t
             a == M(s)
             b == M(t)
             c == M(u)
  <1>1. /\ u \in Seq(W) /\ Len(u) = Len(s) + Len(t) /\ Len(s) \in Nat /\ Len(t) \in Nat
        /\ \A i \in 1..(Len(s) + Len(t)) : u[i] = IF i <= Len(s) THEN s[i] ELSE t[i - Len(s)]
    BY ConcatProperties, SMTT(30)
  <1> HIDE DEF u
  <1>2. /\ a \in Seq(W) /\ Len(a) = Len(s) /\ \A i \in 1..Len(s) : a[i] = s[i] \o end
        /\ b \in Seq(W) /\ Len(b) = Len(t) /\ \A i \in 1..Len(t) : b[i] = t[i] \o end
    BY EndedLines, ZenonT(60)
  <1>3. c \in Seq(W) /\ Len(c) = Len(u) /\ \A i \in 1..Len(u) : c[i] = u[i] \o end
    BY <1>1, EndedLines
  <1>4. Joined(u, end) = FlattenSeq(c) /\ Joined(s, end) = FlattenSeq(a) /\ Joined(t, end) = FlattenSeq(b)
    BY DEF Joined
  <1> HIDE DEF a, b, c, M
  <1>5. /\ a \o b \in Seq(W) /\ Len(a \o b) = Len(a) + Len(b)
        /\ \A i \in 1..(Len(a) + Len(b)) : (a \o b)[i] = IF i <= Len(a) THEN a[i] ELSE b[i - Len(a)]
    <2>1. a \in Seq(W) /\ b \in Seq(W)
      BY <1>2
    <2>2. QED
      BY <2>1, ConcatProperties
  <1>6. c = a \o b
    <2>1. ASSUME NEW i \in 1..(Len(s) + Len(t)) PROVE c[i] = (a \o b)[i]
      <3>1. c[i] = u[i] \o end
        BY <1>1, <1>3
      <3>2. CASE i <= Len(s)
        <4>1. i \in 1..Len(s)
          BY <3>2, <1>1
        <4>2. QED
          BY <4>1, <3>1, <3>2, <1>1, <1>2, <1>5
      <3>3. CASE ~ (i <= Len(s))
        <4>1. i - Len(s) \in 1..Len(t)
          BY <3>3, <1>1
        <4>2. QED
          BY <4>1, <3>1, <3>3, <1>1, <1>2, <1>5
      <3>4. QED
        BY <3>2, <3>3
    <2>2. QED
      BY <2>1, <1>1, <1>2, <1>3, <1>5, SeqEqual, SMTT(30)
  <1>7. FlattenSeq(a \o b) = FlattenSeq(a) \o FlattenSeq(b)
    BY <1>2, FlattenSeqConcat
  <1>8. QED
    BY <1>4, <1>6, <1>7 DEF u

LEMMA JoinedOne ==
    ASSUME NEW W, Strings(W), NEW x \in W, NEW end \in W
    PROVE  Joined(<<x>>, end) = x \o end
  <1>1. x \o end \in W
    BY DEF Strings
  <1>2. [i \in DOMAIN <<x>> |-> <<x>>[i] \o end] = <<x \o end>>
    OBVIOUS
  <1>3. FlattenSeq(<<x \o end>>) = x \o end
    BY <1>1, FlattenSeqOne
  <1>4. QED
    BY <1>2, <1>3 DEF Joined

LEMMA JoinedAppend ==
    ASSUME NEW W, Strings(W), NEW s \in Seq(W), NEW x \in W, NEW end \in W
    PROVE  /\ Joined(Append(s, x), end) = Joined(s, end) \o (x \o end)
           /\ Joined(s, end) \in W /\ x \o end \in W
  <1>1. Append(s, x) = s \o <<x>>
    BY AppendIsConcat
  <1>2. Joined(s \o <<x>>, end) = Joined(s, end) \o Joined(<<x>>, end)
    <2> DEFINE one == <<x>>
    <2>1. one \in Seq(W)
      OBVIOUS
    <2> HIDE DEF one
    <2>2. Joined(s \o one, end) = Joined(s, end) \o Joined(one, end)
      BY <2>1, JoinedConcat
    <2>3. QED
      BY <2>2 DEF one
  <1>3. Joined(<<x>>, end) = x \o end
    BY JoinedOne
  <1>4. Joined(s, end) \in W
    BY JoinedType
  <1>5. x \o end \in W
    BY DEF Strings
  <1>6. QED
    BY <1>1, <1>2, <1>3, <1>4, <1>5

LEMMA JoinedFirst ==
    ASSUME NEW W, Strings(W), NEW h \in W, NEW t \in Seq(W), NEW end \in W
    PROVE  Joined(Cons(h, t), end) = (h \o end) \o Joined(t, end)
  <1> DEFINE one == <<h>>
  <1>1. one \in Seq(W)
    OBVIOUS
  <1>2. Joined(one, end) = h \o end
    BY JoinedOne
  <1>3. Cons(h, t) = one \o t
    BY DEF Cons
  <1> HIDE DEF one
  <1>4. Joined(one \o t, end) = Joined(one, end) \o Joined(t, end)
    BY <1>1, JoinedConcat
  <1>5. QED
    BY <1>2, <1>3, <1>4

\* A first line and the others.
HasFirst(s, end, U, W) ==
    \E h \in U : \E t \in Seq(U) :
       /\ s = Cons(h, t) /\ Len(s) = Len(t) + 1
       /\ Joined(s, end) = (h \o end) \o Joined(t, end)
       /\ Joined(t, end) \in W

LEMMA FirstOfLines ==
    ASSUME NEW W, Strings(W), NEW U, U \subseteq W, NEW s \in Seq(U), Len(s) # 0, NEW end \in W
    PROVE  HasFirst(s, end, U, W)
  <1>1. PICK h \in U : \E t \in Seq(U) : s = Cons(h, t) /\ Len(s) = Len(t) + 1
    <2> DEFINE h == Head(s)
               t == Tail(s)
    <2>1. s # <<>>
      BY EmptySeq
    <2>2. h \in U /\ t \in Seq(U) /\ Len(t) = Len(s) - 1 /\ Len(s) \in Nat
      BY <2>1, HeadTailProperties, LenProperties
    <2>3. s = Cons(h, t)
      BY <2>1 DEF Cons
    <2> HIDE DEF h, t
    <2>4. Len(s) = Len(t) + 1
      BY <2>2
    <2>5. QED
      BY <2>2, <2>3, <2>4
  <1>2. PICK t \in Seq(U) : s = Cons(h, t) /\ Len(s) = Len(t) + 1
    BY <1>1
  <1>3. h \in W /\ t \in Seq(W)
    BY SmallerSeq
  <1>4. Joined(s, end) = (h \o end) \o Joined(t, end)
    BY <1>2, <1>3, JoinedFirst
  <1>5. Joined(t, end) \in W
    BY <1>3, JoinedType
  <1>6. QED
    BY <1>1, <1>2, <1>4, <1>5 DEF HasFirst

LEMMA ConsConcat ==
    ASSUME NEW W, NEW h \in W, NEW s \in Seq(W), NEW t \in Seq(W)
    PROVE  Cons(h, s) \o t = Cons(h, s \o t)
  <1> DEFINE one == <<h>>
  <1>1. one \in Seq(W)
    OBVIOUS
  <1>2. Cons(h, s) = one \o s /\ Cons(h, s \o t) = one \o (s \o t)
    BY DEF Cons
  <1> HIDE DEF one
  <1>3. (one \o s) \o t = one \o (s \o t)
    BY <1>1, ConcatAssociative
  <1>4. QED
    BY <1>2, <1>3

\* What ends a line does not begin like the rest of it.
Ends(end, A, V) == A \subseteq V /\ end \in Seq(V) /\ end # <<>> /\ end[1] \notin A

\* Up to the end of the first line, nothing can be taken for its end.
LEMMA FirstEnd ==
    ASSUME NEW V, NEW A, NEW end, Ends(end, A, V), NEW x \in Seq(A), NEW y \in Seq(V),
           NEW r \in Seq(A), NEW q \in Seq(V), x \o y = (r \o end) \o q
    PROVE  Len(x) <= Len(r)
  <1> DEFINE u == x \o y
             e == r \o end
  <1>1. /\ A \subseteq V /\ end \in Seq(V) /\ end # <<>> /\ end[1] \notin A
        /\ x \in Seq(V) /\ r \in Seq(V)
    BY SmallerSeq DEF Ends
  <1>2. /\ Len(x) \in Nat /\ Len(y) \in Nat /\ Len(r) \in Nat /\ Len(end) \in Nat /\ Len(end) >= 1
        /\ Len(q) \in Nat
    BY <1>1, LenProperties, EmptySeq
  <1>3. \A i \in 1..(Len(x) + Len(y)) : u[i] = IF i <= Len(x) THEN x[i] ELSE y[i - Len(x)]
    BY <1>1, ConcatProperties
  <1>4. /\ e \in Seq(V) /\ Len(e) = Len(r) + Len(end)
        /\ \A i \in 1..(Len(r) + Len(end)) : e[i] = IF i <= Len(r) THEN r[i] ELSE end[i - Len(r)]
    BY <1>1, ConcatProperties
  <1> HIDE DEF e
  <1>5. \A i \in 1..(Len(e) + Len(q)) : (e \o q)[i] = IF i <= Len(e) THEN e[i] ELSE q[i - Len(e)]
    BY <1>4, ConcatProperties
  <1>6. u = e \o q
    BY DEF e
  <1>7. SUFFICES ASSUME Len(r) < Len(x) PROVE FALSE
    BY <1>2
  <1> DEFINE i == Len(r) + 1
  <1>8. /\ i \in 1..(Len(x) + Len(y)) /\ i <= Len(x) /\ i \in 1..Len(x)
        /\ i \in 1..(Len(r) + Len(end)) /\ ~ (i <= Len(r)) /\ i - Len(r) = 1
        /\ i \in 1..(Len(e) + Len(q)) /\ i <= Len(e)
    BY <1>2, <1>4, <1>7
  <1> HIDE DEF i, u
  <1>9. u[i] = x[i] /\ x[i] \in A
    BY <1>3, <1>8, ElementOfSeq
  <1>10. (e \o q)[i] = end[1]
    BY <1>4, <1>5, <1>8
  <1>11. QED
    BY <1>1, <1>6, <1>9, <1>10

LEMMA SameFront ==
    ASSUME NEW V, NEW a \in Seq(V), NEW b \in Seq(V), NEW c \in Seq(V), NEW d \in Seq(V),
           a \o b = c \o d, Len(a) = Len(c)
    PROVE  a = c /\ b = d
  <1>1. Len(a) \in Nat /\ Len(a) \in 0..Len(a) /\ Len(c) \in 0..Len(c)
    BY LenProperties
  <1>2. SubSeq(a \o b, 1, Len(a)) = SubSeq(a, 1, Len(a))
    BY <1>1, PrefixOfWhole
  <1>3. SubSeq(c \o d, 1, Len(c)) = SubSeq(c, 1, Len(c))
    BY <1>1, PrefixOfWhole
  <1>4. SubSeq(a, 1, Len(a)) = a /\ SubSeq(c, 1, Len(c)) = c
    BY SubSeqFull
  <1>5. a = c
    BY <1>2, <1>3, <1>4
  <1>6. a \o b = a \o d
    BY <1>5
  <1>7. b = d
    BY <1>6, ConcatSimplifications, Zenon
  <1>8. QED
    BY <1>5, <1>7

SameText(l, p, w, q, end) == (l \o end) \o p = (w \o end) \o q

LEMMA SameFirstLine ==
    ASSUME NEW V, NEW A, NEW end, Ends(end, A, V), NEW l \in Seq(A), NEW w \in Seq(A),
           NEW p \in Seq(V), NEW q \in Seq(V), SameText(l, p, w, q, end)
    PROVE  l = w /\ p = q
  <1> USE DEF SameText
  <1>1. end \in Seq(V) /\ l \in Seq(V) /\ w \in Seq(V)
    BY SmallerSeq DEF Ends
  <1>2. /\ (l \o end) \o p = l \o (end \o p) /\ (w \o end) \o q = w \o (end \o q)
    <2> DEFINE W == Seq(V)
    <2>1. Strings(W) /\ l \in W /\ w \in W /\ end \in W /\ p \in W /\ q \in W
      BY <1>1, SeqStrings
    <2> HIDE DEF W
    <2>2. Assoc(l, end, p) /\ Assoc(w, end, q)
      BY <2>1, Associative
    <2>3. QED
      BY <2>2, Zenon DEF Assoc
  <1>3. /\ end \o p \in Seq(V) /\ end \o q \in Seq(V)
        /\ l \o end \in Seq(V) /\ Len(l \o end) = Len(l) + Len(end)
        /\ w \o end \in Seq(V) /\ Len(w \o end) = Len(w) + Len(end)
    BY <1>1, ConcatProperties
  <1>4. Len(l) <= Len(w)
    BY <1>2, <1>3, FirstEnd
  <1>5. Len(w) <= Len(l)
    BY <1>2, <1>3, FirstEnd
  <1>6. Len(l) = Len(w) /\ Len(l \o end) = Len(w \o end)
    <2>1. Len(l) \in Nat /\ Len(w) \in Nat
      BY LenProperties
    <2>2. Len(l) = Len(w)
      BY <2>1, <1>4, <1>5
    <2>3. QED
      BY <2>2, <1>3
  <1>7. l \o end = w \o end /\ p = q
    BY <1>3, <1>6, SameFront
  <1>8. l = w
    BY <1>1, <1>6, <1>7, SameFront
  <1>9. QED
    BY <1>7, <1>8

LEMMA NoEndInside ==
    ASSUME NEW V, NEW A, NEW end, Ends(end, A, V), NEW l \in Seq(A), NEW torn \in Seq(A),
           NEW p \in Seq(V), (l \o end) \o p = torn
    PROVE  FALSE
  <1>1. end \in Seq(V) /\ l \in Seq(V) /\ torn \in Seq(V) /\ <<>> \in Seq(V) /\ end # <<>>
    BY SmallerSeq DEF Ends
  <1>2. torn \o <<>> = torn
    BY <1>1, ConcatEmptySeq
  <1>3. torn \o <<>> = (l \o end) \o p
    BY <1>2
  <1>4. Len(torn) <= Len(l)
    BY <1>1, <1>3, FirstEnd
  <1>5. l \o end \in Seq(V) /\ Len(l \o end) = Len(l) + Len(end)
    BY <1>1, ConcatProperties
  <1>6. Len(torn) = Len(l \o end) + Len(p)
    BY <1>5, ConcatProperties
  <1>7. Len(end) \in Nat /\ Len(end) # 0 /\ Len(l) \in Nat /\ Len(p) \in Nat
    BY <1>1, LenProperties, EmptySeq
  <1>8. QED
    BY <1>4, <1>5, <1>6, <1>7

\* A text is made of its lines in one way only.
BothAre(ls, z, ws, torn, end) == Joined(ls, end) \o z = Joined(ws, end) \o torn

HasRest(ls, z, ws, torn, end, L) ==
    \E rest \in L : ws = ls \o rest /\ z = Joined(rest, end) \o torn

LEMMA Decode ==
    ASSUME NEW V, NEW A, NEW end, Ends(end, A, V)
    PROVE  \A ls, ws \in Seq(Seq(A)) : \A torn \in Seq(A) : \A z \in Seq(V) :
              BothAre(ls, z, ws, torn, end) => HasRest(ls, z, ws, torn, end, Seq(Seq(A)))
  <1> DEFINE U == Seq(A)
             W == Seq(V)
             L == Seq(U)
             Cat(a, b) == a \o b
             J(s) == Joined(s, end)
             Found(ls, ws, torn, z) == \E rest \in L : ws = Cat(ls, rest) /\ z = Cat(J(rest), torn)
             Decodes(ls) == \A ws \in L : \A torn \in U : \A z \in W :
                Cat(J(ls), z) = Cat(J(ws), torn) => Found(ls, ws, torn, z)
             P(n) == \A ls \in L : Len(ls) = n => Decodes(ls)
             S == {n \in Nat : P(n)}
  <1>1. U \subseteq W /\ Strings(W) /\ end \in W
    BY SmallerSeq, SeqStrings DEF Ends
  <1>2. \A a, b \in W : Cat(a, b) \in W
    BY ConcatProperties
  <1>3. \A a \in W : Cat(<<>>, a) = a
    BY ConcatEmptySeq
  <1>4. \A a, b, c \in W : Cat(Cat(a, b), c) = Cat(a, Cat(b, c))
    BY ConcatAssociative
  <1>5. ASSUME NEW l \in U, NEW w \in U, NEW p \in W, NEW q \in W,
               Cat(Cat(l, end), p) = Cat(Cat(w, end), q)
        PROVE  l = w /\ p = q
    <2>1. /\ l \in Seq(A) /\ w \in Seq(A) /\ p \in Seq(V) /\ q \in Seq(V)
          /\ SameText(l, p, w, q, end)
      BY <1>5 DEF SameText
    <2>2. QED
      BY <2>1, SameFirstLine, Zenon
  <1>6. ASSUME NEW l \in U, NEW torn \in U, NEW p \in W, Cat(Cat(l, end), p) = torn
        PROVE  FALSE
    BY <1>6, NoEndInside
  <1>7. ASSUME NEW s \in L, Len(s) # 0
        PROVE  \E h \in U : \E t \in L :
                  /\ s = Cons(h, t) /\ Len(s) = Len(t) + 1
                  /\ J(s) = Cat(Cat(h, end), J(t)) /\ J(t) \in W
    <2>1. s \in Seq(U)
      OBVIOUS
    <2> HIDE DEF U, W, L, S
    <2>2. HasFirst(s, end, U, W)
      BY <1>1, <1>7, <2>1, FirstOfLines
    <2>3. QED
      BY <2>2 DEF L, HasFirst
  <1>8. ASSUME NEW h \in U, NEW s \in L, NEW t \in L
        PROVE  Cat(Cons(h, s), t) = Cons(h, Cat(s, t))
    <2> HIDE DEF U
    <2>1. QED
      BY ConsConcat
  <1>9. \A s \in L : Len(s) \in Nat
    BY LenProperties
  <1>10. ASSUME NEW s \in L, Len(s) = 0
         PROVE  J(s) = <<>> /\ \A t \in L : Cat(s, t) = t
    <2> HIDE DEF U
    <2>1. s = <<>>
      BY <1>10, EmptySeq
    <2>2. \A t \in L : <<>> \o t = t
      BY ConcatEmptySeq
    <2>3. QED
      BY <2>1, <2>2, JoinedEmpty
  <1> HIDE DEF U, W, L, Cat, J, S
  <1>11. 0 \in S
    <2>1. SUFFICES ASSUME NEW ls \in L, Len(ls) = 0, NEW ws \in L, NEW torn \in U, NEW z \in W,
                          Cat(J(ls), z) = Cat(J(ws), torn)
                   PROVE  Found(ls, ws, torn, z)
      BY DEF S
    <2>2. J(ls) = <<>> /\ Cat(ls, ws) = ws
      BY <1>10, <2>1
    <2>3. Cat(J(ls), z) = z
      BY <1>3, <2>2
    <2>4. QED
      BY <2>1, <2>2, <2>3
  <1> HIDE DEF Found
  <1>12. ASSUME NEW k \in S PROVE k + 1 \in S
    <2>1. k \in Nat /\ P(k)
      BY DEF S
    <2>2. SUFFICES ASSUME NEW ls \in L, Len(ls) = k + 1, NEW ws \in L, NEW torn \in U, NEW z \in W,
                          Cat(J(ls), z) = Cat(J(ws), torn)
                   PROVE  Found(ls, ws, torn, z)
      BY <2>1 DEF S
    <2> HIDE DEF Decodes
    <2>3. Len(ls) # 0
      BY <2>1, <2>2
    <2>4. PICK l \in U, lt \in L :
             /\ ls = Cons(l, lt) /\ Len(ls) = Len(lt) + 1
             /\ J(ls) = Cat(Cat(l, end), J(lt)) /\ J(lt) \in W
      BY <1>7, <2>3
    <2>5. Decodes(lt)
      <3>1. Len(lt) = k
        BY <1>9, <2>1, <2>2, <2>4
      <3>2. QED
        BY <2>1, <3>1
    <2> HIDE DEF P
    <2>6. l \in W /\ Cat(l, end) \in W /\ torn \in W
      BY <1>1, <1>2
    <2>7. Cat(J(lt), z) \in W /\ Cat(J(ls), z) = Cat(Cat(l, end), Cat(J(lt), z))
      BY <1>2, <1>4, <2>4, <2>6
    <2>8. Len(ws) # 0
      <3>1. SUFFICES ASSUME Len(ws) = 0 PROVE FALSE
        OBVIOUS
      <3>2. J(ws) = <<>>
        BY <1>10, <3>1
      <3>3. Cat(J(ws), torn) = torn
        BY <1>3, <2>6, <3>2
      <3>4. Cat(Cat(l, end), Cat(J(lt), z)) = torn
        BY <2>2, <2>7, <3>3
      <3>5. QED
        BY <1>6, <2>7, <3>4
    <2>9. PICK w \in U, wt \in L :
             /\ ws = Cons(w, wt) /\ Len(ws) = Len(wt) + 1
             /\ J(ws) = Cat(Cat(w, end), J(wt)) /\ J(wt) \in W
      BY <1>7, <2>8
    <2>10. w \in W /\ Cat(w, end) \in W
      BY <1>1, <1>2
    <2>11. Cat(J(wt), torn) \in W /\ Cat(J(ws), torn) = Cat(Cat(w, end), Cat(J(wt), torn))
      BY <1>2, <1>4, <2>6, <2>9, <2>10
    <2>12. l = w /\ Cat(J(lt), z) = Cat(J(wt), torn)
      <3>1. Cat(Cat(l, end), Cat(J(lt), z)) = Cat(Cat(w, end), Cat(J(wt), torn))
        BY <2>2, <2>7, <2>11
      <3>2. QED
        BY <1>5, <2>7, <2>11, <3>1
    <2>13. Found(lt, wt, torn, z)
      BY <2>5, <2>12 DEF Decodes
    <2>14. PICK rest \in L : wt = Cat(lt, rest) /\ z = Cat(J(rest), torn)
      BY <2>13 DEF Found
    <2>15. Cat(Cons(l, lt), rest) = Cons(l, Cat(lt, rest))
      BY <1>8
    <2>16. ws = Cat(ls, rest)
      BY <2>4, <2>9, <2>12, <2>14, <2>15
    <2>17. QED
      BY <2>14, <2>16 DEF Found
  <1>13. S = Nat
    <2>1. S \subseteq Nat
      BY DEF S
    <2>2. QED
      BY <1>11, <1>12, <2>1, SetInduction
  <1>14. \A ls \in L : Decodes(ls)
    <2> HIDE DEF Decodes
    <2>1. QED
      BY <1>9, <1>13 DEF S
  <1>15. QED
    BY <1>14 DEF U, W, L, Cat, J, Found, BothAre, HasRest

\* Lines that are read from the beginning of a text, and what is read of the
\* next one.
Reads(ls, x, ws, torn) ==
    /\ Len(ls) <= Len(ws) /\ ls = SubSeq(ws, 1, Len(ls))
    /\ Len(ls) < Len(ws) => Len(x) <= Len(ws[Len(ls) + 1])
    /\ Len(ls) = Len(ws) => Len(x) <= Len(torn)

LEMMA DecodeNext ==
    ASSUME NEW V, NEW A, NEW end, Ends(end, A, V), NEW ws \in Seq(Seq(A)), NEW torn \in Seq(A),
           NEW ls \in Seq(Seq(A)), NEW x \in Seq(A), NEW y \in Seq(V),
           BothAre(ls, x \o y, ws, torn, end)
    PROVE  Reads(ls, x, ws, torn)
  <1> DEFINE U == Seq(A)
             W == Seq(V)
             L == Seq(U)
  <1>1. U \subseteq W /\ Strings(W) /\ end \in W
    BY SmallerSeq, SeqStrings DEF Ends
  <1>2. x \in U /\ x \in W /\ torn \in W /\ x \o y \in W
    BY <1>1, ConcatProperties
  <1>3. HasRest(ls, x \o y, ws, torn, end, L)
    BY <1>2, Decode, Zenon
  <1>4. PICK rest \in L : ws = ls \o rest /\ x \o y = Joined(rest, end) \o torn
    BY <1>3, Zenon DEF HasRest
  <1>5. ls \in Seq(U) /\ rest \in Seq(U)
    OBVIOUS
  <1> HIDE DEF L
  <1>6. /\ Len(ws) = Len(ls) + Len(rest) /\ Len(ls) \in Nat /\ Len(rest) \in Nat
        /\ \A i \in 1..(Len(ls) + Len(rest)) : ws[i] = IF i <= Len(ls) THEN ls[i] ELSE rest[i - Len(ls)]
    <2> HIDE DEF U
    <2>1. QED
      BY <1>4, <1>5, ConcatProperties, LenProperties
  <1>7. ls = SubSeq(ws, 1, Len(ls))
    <2>1. Len(ls) \in 0..Len(ls)
      BY <1>6
    <2> HIDE DEF U
    <2>2. SubSeq(ls \o rest, 1, Len(ls)) = SubSeq(ls, 1, Len(ls))
      BY <1>5, <2>1, PrefixOfWhole
    <2>3. SubSeq(ls, 1, Len(ls)) = ls
      BY <1>5, SubSeqFull
    <2>4. QED
      BY <1>4, <2>2, <2>3
  <1>8. ASSUME Len(ls) = Len(ws) PROVE Len(x) <= Len(torn)
    <2>1. Len(rest) = 0
      BY <1>6, <1>8
    <2>2. rest = <<>>
      BY <1>5, <2>1, EmptySeq
    <2>3. Joined(rest, end) \o torn = torn
      BY <1>2, <2>2, JoinedEmpty, ConcatEmptySeq
    <2>4. x \o y = torn
      BY <1>4, <2>3
    <2>5. Len(x \o y) = Len(x) + Len(y) /\ Len(x) \in Nat /\ Len(y) \in Nat
      BY <1>2, ConcatProperties, LenProperties
    <2>6. QED
      BY <2>4, <2>5
  <1>9. ASSUME Len(ls) < Len(ws) PROVE Len(x) <= Len(ws[Len(ls) + 1])
    <2>1. Len(rest) # 0
      BY <1>6, <1>9
    <2>2. HasFirst(rest, end, U, W)
      <3> HIDE DEF U, W
      <3>1. QED
        BY <1>1, <1>5, <2>1, FirstOfLines
    <2>3. PICK h \in U, r \in Seq(U) :
             /\ rest = Cons(h, r) /\ Joined(rest, end) = (h \o end) \o Joined(r, end) /\ Joined(r, end) \in W
      BY <2>2, Zenon DEF HasFirst
    <2>4. h \in W /\ h \o end \in W /\ Joined(r, end) \o torn \in W
      BY <1>1, <1>2, <2>3, ConcatProperties
    <2>5. x \o y = (h \o end) \o (Joined(r, end) \o torn)
      <3>1. Assoc(h \o end, Joined(r, end), torn)
        <4>1. h \o end \in W /\ Joined(r, end) \in W /\ torn \in W
          BY <1>2, <2>3, <2>4
        <4> HIDE DEF W, U
        <4>2. QED
          BY <1>1, <4>1, Associative, Zenon
      <3>2. QED
        BY <1>4, <2>3, <3>1, Zenon DEF Assoc
    <2>6. Len(x) <= Len(h)
      BY <2>4, <2>5, FirstEnd
    <2>7. rest[1] = h
      <3> HIDE DEF U, W
      <3>1. r \in Seq(U) /\ h \in U
        OBVIOUS
      <3>2. QED
        BY <2>3, <3>1 DEF Cons
    <2>8. ws[Len(ls) + 1] = rest[1]
      <3>1. Len(ls) + 1 \in 1..(Len(ls) + Len(rest)) /\ ~ (Len(ls) + 1 <= Len(ls)) /\ (Len(ls) + 1) - Len(ls) = 1
        BY <1>6, <1>9
      <3> HIDE DEF U, W
      <3>2. QED
        BY <1>6, <3>1
    <2>9. QED
      BY <2>6, <2>7, <2>8
  <1>10. Len(ls) <= Len(ws)
    BY <1>6
  <1>11. QED
    BY <1>7, <1>8, <1>9, <1>10, Zenon DEF Reads

LEMMA DecodePrefix ==
    ASSUME NEW V, NEW A, NEW end, Ends(end, A, V), NEW ws \in Seq(Seq(A)), NEW torn \in Seq(A),
           NEW t, t = Joined(ws, end) \o torn, NEW m \in 0..Len(t),
           NEW ls \in Seq(Seq(A)), NEW x \in Seq(A), Joined(ls, end) \o x = SubSeq(t, 1, m)
    PROVE  Reads(ls, x, ws, torn)
  <1> DEFINE U == Seq(A)
             W == Seq(V)
             y == SubSeq(t, m + 1, Len(t))
  <1>1. U \subseteq W /\ Strings(W) /\ end \in W
    BY SmallerSeq, SeqStrings DEF Ends
  <1>2. torn \in W /\ x \in W /\ ws \in Seq(W) /\ ls \in Seq(W)
    <2>1. torn \in U /\ x \in U /\ ws \in Seq(U) /\ ls \in Seq(U)
      OBVIOUS
    <2> HIDE DEF U, W
    <2>2. QED
      BY <1>1, <2>1, SmallerSeq
  <1>3. Joined(ws, end) \in W /\ Joined(ls, end) \in W
    <2> HIDE DEF U, W
    <2>1. QED
      BY <1>1, <1>2, JoinedType
  <1>4. t \in W
    BY <1>2, <1>3, ConcatProperties
  <1>5. y \in W /\ t = SubSeq(t, 1, m) \o y
    BY <1>4, Cut
  <1> HIDE DEF y
  <1>6. BothAre(ls, x \o y, ws, torn, end)
    <2>1. Assoc(Joined(ls, end), x, y)
      <3> HIDE DEF U, W
      <3>1. QED
        BY <1>1, <1>2, <1>3, <1>5, Associative
    <2>2. QED
      BY <2>1, <1>5, Zenon DEF BothAre, Assoc
  <1>7. y \in Seq(V)
    BY <1>5
  <1>8. QED
    BY <1>6, <1>7, DecodeNext, Zenon


-----------------------------------------------------------------------------
(* How many lines have come completely                                     *)

\* The length of the first n lines with their ends.
LinesLength(ws, n, end) == Len(Joined(SubSeq(ws, 1, n), end))

LEMMA JoinedBoth ==
    ASSUME NEW V, NEW end \in Seq(V), NEW p \in Seq(Seq(V)), NEW q \in Seq(Seq(V))
    PROVE  /\ Joined(p, end) \in Seq(V) /\ Joined(q, end) \in Seq(V)
           /\ Joined(p \o q, end) = Joined(p, end) \o Joined(q, end)
  <1> DEFINE W == Seq(V)
  <1>1. Strings(W) /\ end \in W /\ p \in Seq(W) /\ q \in Seq(W)
    BY SeqStrings
  <1> HIDE DEF W
  <1>2. Joined(p \o q, end) = Joined(p, end) \o Joined(q, end)
    BY <1>1, JoinedConcat
  <1>3. Joined(p, end) \in W /\ Joined(q, end) \in W
    BY <1>1, JoinedType
  <1>4. QED
    BY <1>2, <1>3 DEF W

LEMMA JoinedMore ==
    ASSUME NEW V, NEW end \in Seq(V), NEW p \in Seq(Seq(V)), NEW h \in Seq(V)
    PROVE  /\ Joined(Append(p, h), end) = Joined(p, end) \o (h \o end)
           /\ Joined(p, end) \in Seq(V)
  <1> DEFINE one == <<h>>
  <1>1. one \in Seq(Seq(V)) /\ Append(p, h) = p \o one
    BY AppendIsConcat
  <1>2. Joined(one, end) = h \o end
    BY SeqStrings, JoinedOne
  <1> HIDE DEF one
  <1>3. Joined(p \o one, end) = Joined(p, end) \o Joined(one, end) /\ Joined(p, end) \in Seq(V)
    BY <1>1, JoinedBoth
  <1>4. QED
    BY <1>1, <1>2, <1>3

LEMMA LinesLengthGrows ==
    ASSUME NEW V, NEW end \in Seq(V), NEW ws \in Seq(Seq(V)),
           NEW a \in Nat, NEW b \in Nat, a <= b, b <= Len(ws)
    PROVE  /\ LinesLength(ws, a, end) \in Nat /\ LinesLength(ws, b, end) \in Nat
           /\ LinesLength(ws, a, end) <= LinesLength(ws, b, end)
  <1> DEFINE W == Seq(V)
             p == SubSeq(ws, 1, a)
             q == SubSeq(ws, a + 1, b)
             w == SubSeq(ws, 1, b)
  <1>1. p \in Seq(W) /\ q \in Seq(W) /\ w \in Seq(W) /\ p \o q = w
    <2> HIDE DEF W
    <2>1. ws \in Seq(W)
      BY DEF W
    <2>2. Len(ws) \in Nat /\ 1 \in 1..(Len(ws) + 1) /\ a \in (1 - 1)..Len(ws) /\ b \in (1 - 1)..Len(ws)
          /\ a + 1 \in 1..(Len(ws) + 1) /\ b \in ((a + 1) - 1)..Len(ws)
      BY <2>1
    <2>3. p \in Seq(W) /\ q \in Seq(W) /\ w \in Seq(W)
      BY <2>1, <2>2, Slice
    <2>4. p \o q = w
      BY <2>1, PrefixGrows
    <2>5. QED
      BY <2>3, <2>4
  <1>2. Strings(W) /\ end \in W
    BY SeqStrings
  <1> HIDE DEF p, q, w
  <1>3. Joined(p, end) \in W /\ Joined(q, end) \in W /\ Joined(p \o q, end) = Joined(p, end) \o Joined(q, end)
    <2>1. p \in Seq(Seq(V)) /\ q \in Seq(Seq(V))
      BY <1>1
    <2>2. QED
      BY <2>1, JoinedBoth, Zenon
  <1> DEFINE x == Joined(p, end)
             y == Joined(q, end)
  <1>4. x \in Seq(V) /\ y \in Seq(V) /\ Joined(w, end) = x \o y
    BY <1>1, <1>3
  <1> HIDE DEF x, y
  <1>5. Len(x) \in Nat /\ Len(x \o y) \in Nat /\ Len(x) <= Len(x \o y)
    BY <1>4
  <1>6. LinesLength(ws, a, end) = Len(x) /\ LinesLength(ws, b, end) = Len(x \o y)
    BY <1>4 DEF LinesLength, x, p, w
  <1>7. QED
    BY <1>5, <1>6

LEMMA LinesLengthNext ==
    ASSUME NEW V, NEW end \in Seq(V), NEW ws \in Seq(Seq(V)),
           NEW a \in Nat, NEW b, b = a + 1, b <= Len(ws)
    PROVE  /\ LinesLength(ws, b, end) = LinesLength(ws, a, end) + Len(ws[b]) + Len(end)
           /\ ws[b] \in Seq(V)
  <1> DEFINE W == Seq(V)
             p == SubSeq(ws, 1, a)
             w == SubSeq(ws, 1, b)
             h == ws[b]
  <1>0. ws \in Seq(W) /\ Strings(W) /\ end \in W
    BY SeqStrings
  <1>1. p \in Seq(W) /\ h \in W /\ w = Append(p, h)
    <2> HIDE DEF W
    <2>1. Len(ws) \in Nat /\ 1 \in 1..(Len(ws) + 1) /\ a \in (1 - 1)..Len(ws) /\ b \in 1..Len(ws) /\ b \in (1 - 1)..Len(ws)
          /\ a - 1 + 1 = a /\ b - 1 + 1 = b
      BY <1>0
    <2>2. /\ p \in Seq(W) /\ Len(p) = a /\ \A i \in 1..a : p[i] = ws[1 + i - 1]
          /\ w \in Seq(W) /\ Len(w) = b /\ \A i \in 1..b : w[i] = ws[1 + i - 1]
      BY <1>0, <2>1, Slice
    <2>3. h \in W
      BY <1>0, <2>1
    <2> HIDE DEF p, w
    <2>4. \A i \in 1..b : i = b \/ i \in 1..a
      BY <2>1
    <2>5. \A i \in 1..a : p[i] = ws[i]
      BY <2>2
    <2>6. \A i \in 1..b : w[i] = ws[i]
      BY <2>2
    <2> HIDE DEF h
    <2>7. Append(p, h) \in Seq(W) /\ Len(Append(p, h)) = b /\ Append(p, h)[b] = h
          /\ \A i \in 1..a : Append(p, h)[i] = p[i]
      BY <2>2, <2>3
    <2>8. \A i \in 1..b : w[i] = Append(p, h)[i]
      BY <2>4, <2>5, <2>6, <2>7 DEF h
    <2>9. w = Append(p, h)
      BY <2>2, <2>7, <2>8, SeqEqual
    <2>10. QED
      BY <2>2, <2>3, <2>9
  <1> HIDE DEF p, w, h
  <1>2. Joined(w, end) = Joined(p, end) \o (h \o end) /\ Joined(p, end) \in W
    <2>1. p \in Seq(Seq(V)) /\ h \in Seq(V)
      BY <1>1
    <2>2. Joined(Append(p, h), end) = Joined(p, end) \o (h \o end) /\ Joined(p, end) \in Seq(V)
      BY <2>1, JoinedMore
    <2>3. QED
      BY <1>1, <2>2
  <1> DEFINE x == Joined(p, end)
  <1> HIDE DEF x
  <1>3. x \in Seq(V) /\ h \in Seq(V) /\ Joined(w, end) = x \o (h \o end)
    BY <1>1, <1>2 DEF x
  <1>4. Len(x \o (h \o end)) = Len(x) + Len(h) + Len(end)
    <2> DEFINE u == h \o end
    <2>1. u \in Seq(V) /\ Len(u) = Len(h) + Len(end)
      BY <1>3
    <2> HIDE DEF u
    <2>2. IsConcat(x \o u, x, u, V)
      BY <1>3, <2>1, ConcatIs
    <2>3. Len(x \o u) = Len(x) + Len(u)
      BY <2>2 DEF IsConcat
    <2>4. Len(x) \in Nat /\ Len(h) \in Nat /\ Len(end) \in Nat
      BY <1>3
    <2>5. Len(x) + (Len(h) + Len(end)) = Len(x) + Len(h) + Len(end)
      BY <2>4
    <2>6. QED
      BY <2>1, <2>3, <2>5 DEF u
  <1>5. LinesLength(ws, a, end) = Len(x) /\ LinesLength(ws, b, end) = Len(Joined(w, end))
    BY DEF LinesLength, x, p, w
  <1>6. QED
    BY <1>3, <1>4, <1>5 DEF h

\* Of a text that was read up to its m-th byte into lines, those lines are the
\* first ones, and they are the ones that have come with their ends.
LEMMA CompleteLines ==
    ASSUME NEW V, NEW A, NEW end, Ends(end, A, V), NEW ws \in Seq(Seq(A)), NEW torn \in Seq(A),
           NEW t, t = Joined(ws, end) \o torn, NEW m \in 0..Len(t),
           NEW ls \in Seq(Seq(A)), NEW x \in Seq(A), Joined(ls, end) \o x = SubSeq(t, 1, m)
    PROVE  /\ Reads(ls, x, ws, torn)
           /\ \A n \in 1..Len(ws) : LinesLength(ws, n, end) <= m <=> n <= Len(ls)
  <1> DEFINE U == Seq(A)
             W == Seq(V)
             k == Len(ls)
  <1>1. Reads(ls, x, ws, torn)
    BY DecodePrefix
  <1>2. ls = SubSeq(ws, 1, k) /\ k \in Nat /\ k <= Len(ws) /\ Len(ws) \in Nat
    BY <1>1 DEF Reads
  <1>3. U \subseteq W /\ end \in W /\ end # <<>> /\ Strings(W)
    BY SmallerSeq, SeqStrings DEF Ends
  <1>4. torn \in W /\ x \in W /\ ws \in Seq(W) /\ ls \in Seq(W)
    <2>1. torn \in U /\ x \in U /\ ws \in Seq(U) /\ ls \in Seq(U)
      OBVIOUS
    <2> HIDE DEF U, W
    <2>2. QED
      BY <1>3, <2>1, SmallerSeq
  <1>5. Joined(ws, end) \in W /\ Joined(ls, end) \in W
    <2> HIDE DEF U, W
    <2>1. QED
      BY <1>3, <1>4, JoinedType
  <1> DEFINE T(n) == LinesLength(ws, n, end)
             e == Len(end)
  <1>6. m = T(k) + Len(x) /\ T(k) \in Nat /\ Len(x) \in Nat /\ e \in Nat /\ e >= 1
    <2>1. T(k) = Len(Joined(ls, end))
      BY <1>2 DEF LinesLength
    <2> DEFINE j == Joined(ls, end)
               w == Joined(ws, end)
    <2>2. t \in W
      BY <1>4, <1>5, ConcatProperties
    <2>3. 1 \in 1..(Len(t) + 1) /\ m \in (1 - 1)..Len(t) /\ m - 1 + 1 = m
      BY <2>2
    <2>4. Len(SubSeq(t, 1, m)) = m
      BY <2>2, <2>3, Slice
    <2>5. j \in Seq(V) /\ x \in Seq(V) /\ j \o x = SubSeq(t, 1, m)
      BY <1>4, <1>5
    <2> HIDE DEF j
    <2>6. Len(j \o x) = Len(j) + Len(x) /\ Len(j) \in Nat /\ Len(x) \in Nat
      BY <2>5
    <2>7. e \in Nat /\ e >= 1
      BY <1>3
    <2>8. QED
      BY <2>1, <2>4, <2>5, <2>6, <2>7 DEF j
  <1>7. ASSUME NEW n \in 1..Len(ws), n <= k PROVE T(n) <= m
    <2>1. n \in Nat /\ n <= k /\ k \in Nat /\ k <= Len(ws)
      BY <1>2, <1>7
    <2>2. T(n) \in Nat /\ T(n) <= T(k)
      BY <1>3, <1>4, <2>1, LinesLengthGrows
    <2>3. QED
      BY <1>6, <2>2
  <1>8. ASSUME NEW n \in 1..Len(ws), ~(n <= k) PROVE T(n) > m
    <2> DEFINE b == k + 1
    <2>1. b = k + 1 /\ b \in Nat /\ b <= n /\ n \in Nat /\ n <= Len(ws) /\ k < Len(ws) /\ b <= Len(ws)
      BY <1>2, <1>8
    <2>2. Len(x) <= Len(ws[b])
      BY <1>1, <2>1 DEF Reads
    <2> HIDE DEF b
    <2>3. T(b) = T(k) + Len(ws[b]) + e /\ ws[b] \in Seq(V)
      BY <1>2, <1>3, <1>4, <2>1, LinesLengthNext, SMTT(30)
    <2>4. T(b) \in Nat /\ T(n) \in Nat /\ T(b) <= T(n)
      BY <1>3, <1>4, <2>1, LinesLengthGrows
    <2>5. Len(ws[b]) \in Nat
      BY <2>3
    <2> DEFINE y == Len(ws[b])
               Tb == T(b)
               Tk == T(k)
               Tn == T(n)
    <2>6. y \in Nat /\ Tb = Tk + y + e /\ Len(x) <= y /\ Tb <= Tn /\ m = Tk + Len(x)
          /\ Tk \in Nat /\ Tn \in Nat /\ Len(x) \in Nat /\ e \in Nat /\ e >= 1
      BY <1>6, <2>2, <2>3, <2>4, <2>5
    <2> HIDE DEF y, Tb, Tk, Tn, e
    <2>7. Tn > m
      BY <2>6
    <2>8. QED
      BY <2>7 DEF Tn
  <1>9. \A n \in 1..Len(ws) : T(n) <= m <=> n <= k
    <2> SUFFICES ASSUME NEW n \in 1..Len(ws) PROVE T(n) <= m <=> n <= k
      OBVIOUS
    <2>1. n \in Nat /\ T(n) \in Nat
      <3>1. n \in Nat /\ n <= Len(ws)
        BY <1>2
      <3>2. QED
        BY <1>3, <1>4, <3>1, LinesLengthGrows
    <2>2. m \in Nat
      BY <1>6
    <2> HIDE DEF T, k
    <2>3. QED
      BY <1>7, <1>8, <2>1, <2>2
  <1>10. QED
    BY <1>1, <1>9
=============================================================================
