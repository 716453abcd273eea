---------------------------- MODULE ReadersProofs ----------------------------
(***************************************************************************)
(* Proofs about modules Lines and TraceFile, the two readers that split    *)
(* chunks of text and put its lines together again: nothing that Tor       *)
(* writes is lost, and a trace is restored unless a chunk of it ends right *)
(* before a newline.                                                       *)
(***************************************************************************)
EXTENDS MCReaders, SequenceLemmas, TimespecProofs

-----------------------------------------------------------------------------
(* Split                                                                   *)

\* The pieces p of s begin at b: each but the last ends at the next separator.
Cuts(p, s, separator, b) ==
    LET n == Len(p)
        w == Len(separator)
    IN /\ n \in Nat \ {0} /\ DOMAIN p = 1..n /\ p = [k \in 1..n |-> p[k]]
       /\ b[1] = 1
       /\ \A k \in 1..n : b[k] \in 1..(Len(s) + 1)
       /\ \A k \in 1..(n - 1) :
             /\ b[k] + w <= b[k + 1]
             /\ b[k + 1] - w \in Separators(s, separator)
             /\ p[k] = SubSeq(s, b[k], b[k + 1] - w - 1)
             /\ \A j \in Separators(s, separator) : ~ (b[k] <= j /\ j < b[k + 1] - w)
       /\ p[n] = SubSeq(s, b[n], Len(s))
       /\ \A j \in Separators(s, separator) : j < b[n]

LEMMA SplitCuts ==
    ASSUME NEW V, NEW s \in Seq(V), NEW separator \in Seq(V), Len(separator) >= 1,
           \A i, j \in Separators(s, separator) : i < j => i + Len(separator) <= j
    PROVE  \E b : Cuts(Split(s, separator), s, separator, b)
  <1> DEFINE m == Len(s)
             w == Len(separator)
             seps == Separators(s, separator)
             count == Cardinality(seps)
             From(i) == {j \in seps : j >= i}
             Found(i) == NextSeparator(s, separator, i)
             p == Split(s, separator)
  <1>1. m \in Nat /\ w \in Nat /\ w >= 1
    BY LenProperties
  <1>2. /\ seps \subseteq 1..(m - w + 1) /\ seps \subseteq 1..m /\ seps \subseteq Nat
    BY <1>1 DEF Separators
  <1>3. IsFiniteSet(seps) /\ count \in Nat
    <2>1. IsFiniteSet(1..m)
      BY <1>1, FS_Interval
    <2>2. IsFiniteSet(seps)
      BY <1>2, <2>1, FS_Subset
    <2>3. QED
      BY <2>2, FS_CardinalityType
  <1>4. \A i \in Nat : Found(i) = Min(From(i) \cup {m + 1})
    BY DEF NextSeparator
  <1>5. \A i, j \in seps : i < j => i + w <= j
    OBVIOUS
  <1> DEFINE Real(h) == [n \in 0..count |-> IF n = 0 THEN 1 ELSE Found(h[n - 1]) + w]
             real == CHOOSE h : h = Real(h)
  <1>6. p = [n \in 1..(count + 1) |-> SubSeq(s, real[n - 1], Found(real[n - 1]) - 1)]
    BY DEF Split
  <1> HIDE DEF m, w, seps, count, p, Found, From, real, Real
  <1>22. \A i \in Nat : \A j : j \in From(i) <=> j \in seps /\ j >= i
    BY DEF From
  <1>23. \A i \in Nat : /\ From(i) \subseteq seps /\ From(i) \subseteq 1..m /\ From(i) \subseteq Nat
                        /\ From(i) \cup {m + 1} \subseteq Nat /\ From(i) \cup {m + 1} # {}
    <2>1. SUFFICES ASSUME NEW i \in Nat
                   PROVE  /\ From(i) \subseteq seps /\ From(i) \subseteq 1..m /\ From(i) \subseteq Nat
                          /\ From(i) \cup {m + 1} \subseteq Nat /\ From(i) \cup {m + 1} # {}
      OBVIOUS
    <2>2. From(i) \subseteq seps
      BY <1>22
    <2>3. From(i) \subseteq 1..m /\ From(i) \subseteq Nat
      BY <1>2, <2>2
    <2>4. m + 1 \in Nat
      BY <1>1
    <2>5. QED
      BY <2>2, <2>3, <2>4, Zenon
  <1>7. \A i \in Nat : Found(i) \in Nat
    <2>1. ASSUME NEW i \in Nat PROVE Found(i) \in Nat
      <3>1. From(i) \cup {m + 1} \subseteq Nat /\ From(i) \cup {m + 1} # {}
        BY <1>23
      <3>2. Min(From(i) \cup {m + 1}) \in From(i) \cup {m + 1}
        BY <3>1, LeastOf
      <3>3. QED
        BY <1>4, <3>1, <3>2
    <2>2. QED
      BY <2>1
  <1>8. \A i \in Nat : From(i) # {} =>
           Found(i) \in From(i) /\ \A j \in From(i) : Found(i) <= j
    <2>1. SUFFICES ASSUME NEW i \in Nat, From(i) # {}
                   PROVE  Found(i) \in From(i) /\ \A j \in From(i) : Found(i) <= j
      OBVIOUS
    <2> DEFINE Z == From(i) \cup {m + 1}
    <2>2. Z \subseteq Nat /\ Z # {} /\ From(i) \subseteq 1..m
      BY <1>23
    <2>3. Min(Z) \in Z /\ \A j \in Z : Min(Z) <= j
      BY <2>2, LeastOf
    <2>4. PICK j \in From(i) : j <= m
      BY <2>1, <2>2
    <2>5. Min(Z) # m + 1
      <3>1. Min(Z) <= j /\ j \in Nat
        BY <2>2, <2>3, <2>4
      <3>2. QED
        BY <1>1, <2>4, <3>1
    <2>6. Found(i) = Min(Z)
      BY <1>4
    <2>7. QED
      <3>1. Min(Z) \in From(i) /\ \A x \in From(i) : Min(Z) <= x
        BY <2>3, <2>5
      <3> HIDE DEF Z
      <3>2. QED
        BY <2>6, <3>1
  <1>9. \A i \in Nat : From(i) = {} => Found(i) = m + 1
    <2>1. \A x \in Nat : Min({x}) = x
      <3>1. \A x \in Nat : {x} \subseteq Nat /\ {x} # {}
        OBVIOUS
      <3>2. QED
        BY <3>1, LeastOf
    <2>2. m + 1 \in Nat
      BY <1>1
    <2>3. QED
      BY <1>4, <2>1, <2>2
  <1>10. /\ real[0] = 1 /\ \A n \in 1..count : real[n] = Found(real[n - 1]) + w
         /\ \A n \in 0..count : real[n] \in Nat
    <2>10. \A u \in Nat : Found(u) + w \in Nat
      <3>1. \A a, c \in Nat : a + c \in Nat
        OBVIOUS
      <3>2. w \in Nat
        BY <1>1, Zenon
      <3>3. QED
        BY <1>7, <3>1, <3>2, Zenon
    <2> DEFINE F == [ku \in (1..count) \X Nat |-> Found(ku[2]) + w]
    <2>1. F \in [(1..count) \X Nat -> Nat] /\ \A k \in 1..count : \A u \in Nat : F[<<k, u>>] = Found(u) + w
      <3>2. \A ku \in (1..count) \X Nat : ku[2] \in Nat
        OBVIOUS
      <3>3. \A ku \in (1..count) \X Nat : Found(ku[2]) + w \in Nat
        BY <2>10, <3>2
      <3>4. QED
        BY <3>3
    <2> HIDE DEF F
    <2>2. PICK f : Iterates(f, count, Nat, 1, F)
      BY <1>3, <2>1, FiniteRecursion
    <2>3. f \in [0..count -> Nat] /\ f[0] = 1 /\ \A k \in 1..count : f[k] = F[<<k, f[k - 1]>>]
      BY <2>2 DEF Iterates
    <2>4. f = Real(f)
      <3>1. ASSUME NEW n \in 0..count PROVE f[n] = IF n = 0 THEN 1 ELSE Found(f[n - 1]) + w
        <4>1. CASE n = 0
          BY <2>3, <4>1
        <4>2. CASE n # 0
          <5>1. n \in 1..count /\ n - 1 \in 0..count
            BY <1>3, <4>2
          <5>2. f[n - 1] \in Nat
            BY <2>3, <5>1
          <5>3. QED
            BY <2>1, <2>3, <4>2, <5>1, <5>2
        <4>3. QED
          BY <4>1, <4>2
      <3>2. QED
        BY <2>3, <3>1 DEF Real
    <2>5. real = Real(real)
      BY <2>4 DEF real
    <2>6. \A n \in 0..count : real[n] = IF n = 0 THEN 1 ELSE Found(real[n - 1]) + w
      <3>1. \A n \in 0..count : Real(real)[n] = IF n = 0 THEN 1 ELSE Found(real[n - 1]) + w
        BY DEF Real
      <3>2. QED
        BY <2>5, <3>1, Zenon
    <2>7. real[0] = 1 /\ \A n \in 1..count : real[n] = Found(real[n - 1]) + w
      BY <1>3, <2>6
    <2>8. \A n \in 0..count : real[n] \in Nat
      <3> DEFINE Z == {n \in Nat : n <= count => real[n] \in Nat}
      <3>1. 0 \in Z
        BY <2>7
      <3>2. ASSUME NEW n \in Z PROVE n + 1 \in Z
        <4>1. SUFFICES ASSUME n + 1 <= count PROVE real[n + 1] \in Nat
          BY <3>2
        <4>2. n + 1 \in 1..count /\ real[n] \in Nat /\ (n + 1) - 1 = n
          BY <1>3, <3>2, <4>1
        <4>3. real[n + 1] = Found(real[n]) + w
          BY <2>7, <4>2
        <4>4. Found(real[n]) \in Nat
          BY <1>7, <4>2
        <4>5. QED
          BY <1>1, <4>3, <4>4
      <3>3. Z = Nat
        <4>1. Z \subseteq Nat
          OBVIOUS
        <4> HIDE DEF Z
        <4>2. QED
          BY <3>1, <3>2, <4>1, SetInduction
      <3>4. QED
        BY <1>3, <3>3
    <2>9. QED
      BY <2>7, <2>8
  <1>11. \A i \in Nat : IsFiniteSet(From(i)) /\ Cardinality(From(i)) \in Nat
    <2>1. \A i \in Nat : From(i) \in SUBSET seps
      BY DEF From
    <2>2. QED
      BY <1>3, <2>1, FS_Subset, FS_CardinalityType
  <1>12. \A i \in Nat : From(i) # {} =>
            /\ From(Found(i) + w) = From(i) \ {Found(i)}
            /\ Cardinality(From(Found(i) + w)) = Cardinality(From(i)) - 1
    <2>1. SUFFICES ASSUME NEW i \in Nat, From(i) # {}
                   PROVE  /\ From(Found(i) + w) = From(i) \ {Found(i)}
                          /\ Cardinality(From(Found(i) + w)) = Cardinality(From(i)) - 1
      OBVIOUS
    <2> DEFINE e == Found(i)
    <2>2. e \in seps /\ e \in Nat /\ i <= e /\ \A j \in seps : j >= i => e <= j
      BY <1>2, <1>8, <2>1 DEF From
    <2> HIDE DEF e
    <2>3. From(e + w) = From(i) \ {e}
      <3>1. \A j \in seps : j >= e + w <=> j >= i /\ j # e
        BY <1>1, <1>2, <1>5, <2>2
      <3>2. QED
        BY <3>1 DEF From
    <2>4. e \in From(i)
      BY <2>2 DEF From
    <2>5. Cardinality(From(i) \ {e}) = Cardinality(From(i)) - 1
      BY <1>11, <2>4, FS_RemoveElement
    <2>6. QED
      BY <2>3, <2>5 DEF e
  <1>13. \A n \in 0..count : real[n] \in 1..(m + 1) /\ Cardinality(From(real[n])) = count - n
    <2> DEFINE Good(n) == real[n] \in 1..(m + 1) /\ Cardinality(From(real[n])) = count - n
               Z == {n \in Nat : n <= count => Good(n)}
    <2>1. 0 \in Z
      <3>1. From(1) = seps
        <4>1. \A j \in seps : j >= 1
          BY <1>1, <1>2
        <4>2. \A j : j \in From(1) <=> j \in seps
          BY <1>22, <4>1
        <4>3. QED
          BY <4>2
      <3>2. real[0] = 1 /\ 1 \in 1..(m + 1)
        BY <1>1, <1>10
      <3>3. QED
        BY <1>3, <3>1, <3>2 DEF count
    <2>2. ASSUME NEW n \in Z PROVE n + 1 \in Z
      <3>1. SUFFICES ASSUME n + 1 <= count PROVE Good(n + 1)
        BY <2>2
      <3>2. /\ n \in Nat /\ n + 1 \in 1..count /\ n \in 0..count /\ (n + 1) - 1 = n
            /\ real[n] \in 1..(m + 1) /\ real[n] \in Nat /\ Cardinality(From(real[n])) = count - n
        BY <1>1, <1>3, <2>2, <3>1
      <3>3. From(real[n]) # {}
        <4>1. Cardinality(From(real[n])) # 0
          BY <1>3, <3>1, <3>2
        <4>2. QED
          BY <4>1, FS_EmptySet
      <3>4. real[n + 1] = Found(real[n]) + w
        BY <1>10, <3>2
      <3>5. Found(real[n]) \in 1..(m - w + 1)
        BY <1>2, <1>8, <1>22, <3>2, <3>3
      <3>6. real[n + 1] \in 1..(m + 1)
        BY <1>1, <3>4, <3>5
      <3>7. Cardinality(From(real[n + 1])) = (count - n) - 1
        BY <1>12, <3>2, <3>3, <3>4
      <3>8. QED
        BY <1>3, <3>2, <3>6, <3>7
    <2>3. Z = Nat
      <3>1. Z \subseteq Nat
        OBVIOUS
      <3> HIDE DEF Z
      <3>2. QED
        BY <2>1, <2>2, <3>1, SetInduction
    <2>4. QED
      BY <1>3, <2>3
  <1> DEFINE b == [k \in 1..(count + 1) |-> real[k - 1]]
  <1>14. /\ Len(p) = count + 1 /\ DOMAIN p = 1..(count + 1)
         /\ \A k \in 1..(count + 1) : p[k] = SubSeq(s, real[k - 1], Found(real[k - 1]) - 1)
         /\ \A k \in 1..(count + 1) : b[k] = real[k - 1]
    <2>1. DOMAIN p = 1..(count + 1) /\ count + 1 \in Nat
      BY <1>3, <1>6
    <2>2. Len(p) = count + 1
      <3> DEFINE n == count + 1
                 G(k) == SubSeq(s, real[k - 1], Found(real[k - 1]) - 1)
      <3>1. n \in Nat /\ p = [k \in 1..n |-> G(k)]
        BY <1>6, <2>1
      <3> HIDE DEF n, G
      <3>2. Len([k \in 1..n |-> G(k)]) = n
        BY <3>1
      <3>3. QED
        BY <3>1, <3>2 DEF n
    <2>3. QED
      BY <1>6, <2>1, <2>2
  <1> HIDE DEF b
  <1>15. b[1] = 1
    BY <1>3, <1>10, <1>14
  <1>16. \A k \in 1..(count + 1) : b[k] \in 1..(m + 1)
    <2>1. ASSUME NEW k \in 1..(count + 1) PROVE b[k] \in 1..(m + 1)
      <3>1. k - 1 \in 0..count
        BY <1>3
      <3>2. QED
        BY <1>13, <1>14, <3>1
    <2>2. QED
      BY <2>1
  <1>17. ASSUME NEW k \in 1..count
         PROVE  /\ b[k] + w <= b[k + 1] /\ b[k + 1] - w \in seps
                /\ p[k] = SubSeq(s, b[k], b[k + 1] - w - 1)
                /\ \A j \in seps : ~ (b[k] <= j /\ j < b[k + 1] - w)
    <2> DEFINE i == b[k]
               e == Found(i)
    <2>1. /\ k \in 1..(count + 1) /\ k + 1 \in 1..(count + 1) /\ k - 1 \in 0..count /\ (k + 1) - 1 = k
          /\ k \in 0..count
      BY <1>3
    <2>2. b[k] = real[k - 1] /\ b[k + 1] = real[k] /\ real[k] = e + w
      BY <1>10, <1>14, <2>1
    <2>3. i \in Nat /\ Cardinality(From(i)) = count - (k - 1)
      BY <1>13, <2>1, <2>2
    <2>4. From(i) # {}
      <3>1. Cardinality(From(i)) # 0
        BY <1>3, <2>3
      <3>2. QED
        BY <3>1, FS_EmptySet
    <2>5. e \in seps /\ e >= i /\ \A j \in seps : j >= i => e <= j
      BY <1>8, <2>3, <2>4 DEF From
    <2>6. e \in Nat /\ b[k + 1] = e + w
      BY <1>2, <2>2, <2>5
    <2>7. p[k] = SubSeq(s, i, e - 1)
      BY <1>14, <2>1, <2>2
    <2> HIDE DEF e, i
    <2>8. b[k + 1] - w = e /\ b[k + 1] - w - 1 = e - 1
      BY <1>1, <2>6
    <2>9. i + w <= b[k + 1]
      BY <1>1, <2>3, <2>5, <2>6
    <2>10. \A j \in seps : ~ (i <= j /\ j < e)
      BY <1>2, <2>3, <2>5, <2>6
    <2>11. QED
      BY <2>5, <2>7, <2>8, <2>9, <2>10 DEF i
  <1>18. /\ p[count + 1] = SubSeq(s, b[count + 1], m)
         /\ \A j \in seps : j < b[count + 1]
    <2> DEFINE i == b[count + 1]
    <2>1. count + 1 \in 1..(count + 1) /\ (count + 1) - 1 = count /\ count \in 0..count
      BY <1>3
    <2>2. i = real[count] /\ i \in Nat /\ Cardinality(From(i)) = count - count
      <3>1. real[count] \in 1..(m + 1) /\ Cardinality(From(real[count])) = count - count
        BY <1>13, <2>1
      <3>2. b[count + 1] = real[count]
        BY <1>14, <2>1
      <3>3. \A x \in 1..(m + 1) : x \in Nat
        BY <1>1
      <3>4. QED
        BY <3>1, <3>2, <3>3
    <2>3. From(i) = {}
      <3>1. Cardinality(From(i)) = 0
        BY <1>3, <2>2
      <3>2. QED
        BY <1>11, <2>2, <3>1, FS_EmptySet
    <2>4. Found(i) = m + 1
      BY <1>9, <2>2, <2>3
    <2>5. p[count + 1] = SubSeq(s, i, (m + 1) - 1)
      BY <1>14, <2>1, <2>2, <2>4
    <2>6. (m + 1) - 1 = m
      BY <1>1
    <2>7. \A j \in seps : j < i
      BY <1>2, <2>2, <2>3 DEF From
    <2>8. QED
      BY <2>5, <2>6, <2>7
  <1>19. /\ Len(p) \in Nat \ {0} /\ DOMAIN p = 1..Len(p) /\ Len(p) - 1 = count
         /\ p = [k \in 1..Len(p) |-> p[k]]
    <2>1. p = [k \in 1..(count + 1) |-> p[k]]
      BY <1>6
    <2>2. count + 1 \in Nat \ {0} /\ (count + 1) - 1 = count
      BY <1>3
    <2> HIDE DEF p
    <2>3. QED
      BY <1>14, <2>1, <2>2
  <1>20. Cuts(p, s, separator, b)
    <2>1. /\ b[1] = 1 /\ \A k \in 1..Len(p) : b[k] \in 1..(m + 1)
          /\ p[Len(p)] = SubSeq(s, b[Len(p)], m) /\ \A j \in seps : j < b[Len(p)]
      BY <1>14, <1>15, <1>16, <1>18
    <2>2. \A k \in 1..(Len(p) - 1) :
             /\ b[k] + w <= b[k + 1] /\ b[k + 1] - w \in seps
             /\ p[k] = SubSeq(s, b[k], b[k + 1] - w - 1)
             /\ \A j \in seps : ~ (b[k] <= j /\ j < b[k + 1] - w)
      BY <1>17, <1>19
    <2>3. QED
      BY <1>19, <2>1, <2>2 DEF Cuts, m, w, seps
  <1>21. QED
    BY <1>20 DEF p

-----------------------------------------------------------------------------
(* The two loops over the pieces                                           *)

\* What the loop of receiveLines works on.
Receiving == [buffer : Seq(Byte), lines : Seq(Seq(Byte))]

LEMMA TakeType ==
    ASSUME NEW pieces \in Seq(Seq(Byte)), NEW i \in 1..Len(pieces), NEW s \in Receiving, NEW chunk
    PROVE  Take(chunk, pieces, s, i) \in Receiving
  <1> DEFINE W == Seq(Byte)
  <1>1. s.buffer \in W /\ s.lines \in Seq(W) /\ pieces[i] \in W
    BY DEF Receiving
  <1>2. \A a, b \in W : a \o b \in W
    OBVIOUS
  <1>3. <<>> \in W
    OBVIOUS
  <1> HIDE DEF W
  <1>4. s.buffer \o pieces[i] \in W
    BY <1>1, <1>2
  <1> DEFINE joined == s.buffer \o pieces[i]
  <1> HIDE DEF joined
  <1>5. joined \in W
    BY <1>4 DEF joined
  <1>6. Append(s.lines, joined) \in Seq(W)
    BY <1>1, <1>5
  <1>7. [s EXCEPT !.buffer = joined] \in Receiving
    BY <1>5 DEF Receiving, W
  <1>8. [buffer |-> <<>>, lines |-> Append(s.lines, joined)] \in Receiving
    BY <1>3, <1>6 DEF Receiving, W
  <1>9. QED
    BY <1>7, <1>8, Zenon DEF Take, joined

\* Received is what the last piece leaves.
ReceivedAlong(g, chunk, pieces) ==
    /\ g \in [0..Len(pieces) -> Receiving]
    /\ g[0] = [buffer |-> buffer, lines |-> lines]
    /\ \A i \in 1..Len(pieces) : g[i] = Take(chunk, pieces, g[i - 1], i)
    /\ Received(chunk) = g[Len(pieces)]

LEMMA ReceivedSteps ==
    ASSUME NEW chunk, NEW pieces, pieces = Split(chunk, CRLF),
           pieces \in Seq(Seq(Byte)), [buffer |-> buffer, lines |-> lines] \in Receiving
    PROVE  \E g : ReceivedAlong(g, chunk, pieces)
  <1> DEFINE n == Len(pieces)
             base == [buffer |-> buffer, lines |-> lines]
             P(s, i) == Take(chunk, pieces, s, i)
             F == [is \in (1..n) \X Receiving |-> P(is[2], is[1])]
             d == [i \in DOMAIN pieces |-> i]
             Real(h) == [Z \in SUBSET DOMAIN d |->
                            IF Z = {} THEN base ELSE P(h[Z \ {Max(Z)}], d[Max(Z)])]
             real == CHOOSE h : h = Real(h)
  <1>1. n \in Nat /\ DOMAIN pieces = 1..n /\ DOMAIN d = 1..n /\ \A i \in 1..n : d[i] = i
    OBVIOUS
  <1>2. Received(chunk) = real[DOMAIN d]
    BY DEF Received, FoldLeftDomain, FoldLeft, MapThenFoldSet
  <1>3. base \in Receiving
    OBVIOUS
  <1>4. \A s \in Receiving : \A i \in 1..n : P(s, i) \in Receiving
    BY TakeType, Zenon
  <1> HIDE DEF d, base, P, n, real
  <1>5. F \in [(1..n) \X Receiving -> Receiving]
    <2>1. \A is \in (1..n) \X Receiving : is[1] \in 1..n /\ is[2] \in Receiving
      OBVIOUS
    <2>2. \A is \in (1..n) \X Receiving : P(is[2], is[1]) \in Receiving
      BY <1>4, <2>1
    <2>3. QED
      BY <2>2
  <1>6. \A i \in 1..n : \A s \in Receiving : F[<<i, s>>] = P(s, i)
    OBVIOUS
  <1> HIDE DEF F
  <1>7. real = Real(real)
    <2>1. PICK it \in [SUBSET (1..n) -> Receiving] : Folds(it, n, base, F)
      BY <1>1, <1>3, <1>5, FoldsExist
    <2>2. ASSUME NEW Z \in SUBSET (1..n), Z # {}
          PROVE  F[<<Max(Z), it[Z \ {Max(Z)}]>>] = P(it[Z \ {Max(Z)}], d[Max(Z)])
      <3>1. Max(Z) \in Z
        BY <1>1, <2>2, GreatestOf
      <3>2. it[Z \ {Max(Z)}] \in Receiving /\ Max(Z) \in 1..n
        BY <3>1
      <3>3. QED
        BY <1>1, <1>6, <3>2
    <2>3. it = [Z \in SUBSET (1..n) |-> IF Z = {} THEN base ELSE F[<<Max(Z), it[Z \ {Max(Z)}]>>]]
      BY <2>1 DEF Folds
    <2>4. it = Real(it)
      BY <1>1, <2>2, <2>3
    <2> HIDE DEF Real
    <2>5. QED
      BY <2>4, Zenon DEF real
  <1>8. \A Z \in SUBSET (1..n) : real[Z] = IF Z = {} THEN base ELSE P(real[Z \ {Max(Z)}], d[Max(Z)])
    <2>1. \A h : \A Z \in SUBSET (1..n) : Real(h)[Z] = IF Z = {} THEN base ELSE P(h[Z \ {Max(Z)}], d[Max(Z)])
      BY <1>1
    <2> HIDE DEF Real
    <2>2. QED
      BY <1>7, <2>1, Zenon
  <1>9. real[{}] = base
    BY <1>8
  <1>10. \A i \in 1..n : real[1..i] = P(real[1..(i - 1)], i)
    <2>1. SUFFICES ASSUME NEW i \in 1..n PROVE real[1..i] = P(real[1..(i - 1)], i)
      OBVIOUS
    <2>2. i \in 1..i /\ 1..i \subseteq Nat /\ (\A x \in 1..i : x <= i) /\ 1..i \in SUBSET (1..n)
      BY <1>1
    <2>3. Max(1..i) = i
      BY <2>2, MaxIs
    <2>4. (1..i) \ {i} = 1..(i - 1) /\ 1..i # {}
      <3>1. i \in Nat /\ i >= 1
        BY <1>1
      <3>2. (1..i) \ {i} = 1..(i - 1)
        BY <3>1
      <3>3. i \in 1..i
        BY <3>1
      <3>4. QED
        BY <3>2, <3>3
    <2>5. QED
      BY <1>1, <1>8, <2>2, <2>3, <2>4
  <1>11. PICK g : Iterates(g, n, Receiving, base, F) /\ real[1..n] = g[n]
    <2>1. \A i \in 1..n : real[1..(i - 1)] \in Receiving => real[1..i] = F[<<i, real[1..(i - 1)]>>]
      BY <1>6, <1>10
    <2>2. n \in Nat
      BY <1>1, Zenon
    <2>3. FoldsUp(real, n, Receiving, base, F)
      BY <1>9, <2>1 DEF FoldsUp
    <2>4. IteratesTo(real[1..n], n, Receiving, base, F)
      BY <1>3, <1>5, <2>2, <2>3, FoldIterates, Zenon
    <2>5. QED
      BY <2>4 DEF IteratesTo
  <1>12. \A i \in 1..n : g[i] = P(g[i - 1], i)
    <2>1. \A i \in 1..n : i - 1 \in 0..n
      BY <1>1
    <2>2. g \in [0..n -> Receiving] /\ \A i \in 1..n : g[i] = F[<<i, g[i - 1]>>]
      BY <1>11 DEF Iterates
    <2>3. QED
      BY <1>6, <2>1, <2>2
  <1>13. g \in [0..n -> Receiving] /\ g[0] = base /\ Received(chunk) = g[n]
    BY <1>1, <1>2, <1>11 DEF Iterates
  <1>14. QED
    BY <1>12, <1>13, Zenon DEF ReceivedAlong, n, base, P

\* What the loop of getLines works on, when the texts of the lines are over A.
Reading(A) == [partial : Seq(A), lines : Seq(Seq(A) \ {<<>>})]

LEMMA TakePieceType ==
    ASSUME NEW A, NEW pieces \in Seq(Seq(A)), NEW i \in 1..Len(pieces), NEW s \in Reading(A), NEW last
    PROVE  TakePiece(pieces, last, s, i) \in Reading(A)
  <1> DEFINE W == Seq(A)
             Z == W \ {<<>>}
             piece == pieces[i]
  <1>1. s.partial \in W /\ s.lines \in Seq(Z) /\ piece \in W /\ <<>> \in W
    BY DEF Reading
  <1>2. piece # <<>> => s.partial \o piece \in Z
    <2> DEFINE B == s.partial
    <2>1. \A a, b \in W : a \o b \in W /\ (b # <<>> => a \o b # <<>>)
      <3>1. SUFFICES ASSUME NEW a \in W, NEW b \in W PROVE a \o b \in W /\ (b # <<>> => a \o b # <<>>)
        OBVIOUS
      <3>2. a \o b \in W /\ Len(a \o b) = Len(a) + Len(b) /\ Len(a) \in Nat /\ Len(b) \in Nat
        OBVIOUS
      <3>3. b # <<>> => Len(b) # 0
        OBVIOUS
      <3>4. a \o b = <<>> => Len(a \o b) = 0
        OBVIOUS
      <3>5. QED
        BY <3>2, <3>3, <3>4
    <2> HIDE DEF W, piece, B
    <2>2. piece # <<>> => B \o piece \in W /\ B \o piece # <<>>
      BY <1>1, <2>1 DEF B
    <2>3. QED
      BY <2>2 DEF B
  <1> DEFINE joined == s.partial \o piece
  <1> HIDE DEF W, piece, joined
  <1>3. piece # <<>> => joined \in Z /\ piece \in Z
    BY <1>1, <1>2 DEF joined
  <1> HIDE DEF Z
  <1>4. piece # <<>> => Append(s.lines, joined) \in Seq(Z) /\ Append(s.lines, piece) \in Seq(Z)
    BY <1>1, <1>3
  <1>5. Reading(A) = [partial : W, lines : Seq(Z)]
    BY DEF Reading, W, Z
  <1>6. [s EXCEPT !.partial = piece] \in Reading(A)
    <2> DEFINE K == Seq(Z)
    <2>1. s \in [partial : W, lines : K] /\ piece \in W
      BY <1>1, <1>5
    <2> HIDE DEF K
    <2>2. [s EXCEPT !.partial = piece] \in [partial : W, lines : K]
      BY <2>1
    <2>3. QED
      BY <1>5, <2>2 DEF K
  <1>7. piece # <<>> => [partial |-> <<>>, lines |-> Append(s.lines, joined)] \in Reading(A)
    BY <1>1, <1>4, <1>5
  <1>8. piece # <<>> => [s EXCEPT !.lines = Append(@, piece)] \in Reading(A)
    BY <1>4, <1>5
  <1>9. QED
    BY <1>6, <1>7, <1>8, Zenon DEF TakePiece, joined, piece

\* What the loop leaves: the LET of ReadChunk.
Read(last, pieces) ==
    FoldLeftDomain(LAMBDA s, i : TakePiece(pieces, last, s, i),
                   [partial |-> partial, lines |-> lineQueue], pieces)

\* Read is what the last piece leaves.
ReadAlong(g, last, pieces, A) ==
    /\ g \in [0..Len(pieces) -> Reading(A)]
    /\ g[0] = [partial |-> partial, lines |-> lineQueue]
    /\ \A i \in 1..Len(pieces) : g[i] = TakePiece(pieces, last, g[i - 1], i)
    /\ Read(last, pieces) = g[Len(pieces)]

LEMMA ReadSteps ==
    ASSUME NEW A, NEW last \in BOOLEAN, NEW pieces \in Seq(Seq(A)),
           [partial |-> partial, lines |-> lineQueue] \in Reading(A)
    PROVE  \E g : ReadAlong(g, last, pieces, A)
  <1> DEFINE n == Len(pieces)
             R == Reading(A)
             base == [partial |-> partial, lines |-> lineQueue]
             P(s, i) == TakePiece(pieces, last, s, i)
             F == [is \in (1..n) \X R |-> P(is[2], is[1])]
             d == [i \in DOMAIN pieces |-> i]
             Real(h) == [Z \in SUBSET DOMAIN d |->
                            IF Z = {} THEN base ELSE P(h[Z \ {Max(Z)}], d[Max(Z)])]
             real == CHOOSE h : h = Real(h)
  <1>1. n \in Nat /\ DOMAIN pieces = 1..n /\ DOMAIN d = 1..n /\ \A i \in 1..n : d[i] = i
    OBVIOUS
  <1>2. Read(last, pieces) = real[DOMAIN d]
    BY DEF Read, FoldLeftDomain, FoldLeft, MapThenFoldSet
  <1>3. base \in R
    OBVIOUS
  <1>4. \A s \in R : \A i \in 1..n : P(s, i) \in R
    BY TakePieceType, Zenon
  <1> HIDE DEF d, base, P, n, real, R
  <1>5. F \in [(1..n) \X R -> R]
    <2>1. \A is \in (1..n) \X R : is[1] \in 1..n /\ is[2] \in R
      OBVIOUS
    <2>2. \A is \in (1..n) \X R : P(is[2], is[1]) \in R
      BY <1>4, <2>1
    <2>3. QED
      BY <2>2
  <1>6. \A i \in 1..n : \A s \in R : F[<<i, s>>] = P(s, i)
    OBVIOUS
  <1> HIDE DEF F
  <1>7. real = Real(real)
    <2>1. PICK it \in [SUBSET (1..n) -> R] : Folds(it, n, base, F)
      BY <1>1, <1>3, <1>5, FoldsExist
    <2>2. ASSUME NEW Z \in SUBSET (1..n), Z # {}
          PROVE  F[<<Max(Z), it[Z \ {Max(Z)}]>>] = P(it[Z \ {Max(Z)}], d[Max(Z)])
      <3>1. Max(Z) \in Z
        BY <1>1, <2>2, GreatestOf
      <3>2. it[Z \ {Max(Z)}] \in R /\ Max(Z) \in 1..n
        BY <3>1
      <3>3. QED
        BY <1>1, <1>6, <3>2
    <2>3. it = [Z \in SUBSET (1..n) |-> IF Z = {} THEN base ELSE F[<<Max(Z), it[Z \ {Max(Z)}]>>]]
      BY <2>1 DEF Folds
    <2>4. it = Real(it)
      BY <1>1, <2>2, <2>3
    <2> HIDE DEF Real
    <2>5. QED
      BY <2>4, Zenon DEF real
  <1>8. \A Z \in SUBSET (1..n) : real[Z] = IF Z = {} THEN base ELSE P(real[Z \ {Max(Z)}], d[Max(Z)])
    <2>1. \A h : \A Z \in SUBSET (1..n) : Real(h)[Z] = IF Z = {} THEN base ELSE P(h[Z \ {Max(Z)}], d[Max(Z)])
      BY <1>1
    <2> HIDE DEF Real
    <2>2. QED
      BY <1>7, <2>1, Zenon
  <1>9. real[{}] = base
    BY <1>8
  <1>10. \A i \in 1..n : real[1..i] = P(real[1..(i - 1)], i)
    <2>1. SUFFICES ASSUME NEW i \in 1..n PROVE real[1..i] = P(real[1..(i - 1)], i)
      OBVIOUS
    <2>2. i \in 1..i /\ 1..i \subseteq Nat /\ (\A x \in 1..i : x <= i) /\ 1..i \in SUBSET (1..n)
      BY <1>1
    <2>3. Max(1..i) = i
      BY <2>2, MaxIs
    <2>4. (1..i) \ {i} = 1..(i - 1) /\ 1..i # {}
      <3>1. i \in Nat /\ i >= 1
        BY <1>1
      <3>2. (1..i) \ {i} = 1..(i - 1)
        BY <3>1
      <3>3. i \in 1..i
        BY <3>1
      <3>4. QED
        BY <3>2, <3>3
    <2>5. QED
      BY <1>1, <1>8, <2>2, <2>3, <2>4
  <1>11. PICK g : Iterates(g, n, R, base, F) /\ real[1..n] = g[n]
    <2>1. \A i \in 1..n : real[1..(i - 1)] \in R => real[1..i] = F[<<i, real[1..(i - 1)]>>]
      BY <1>6, <1>10
    <2>2. n \in Nat
      BY <1>1, Zenon
    <2>3. FoldsUp(real, n, R, base, F)
      BY <1>9, <2>1 DEF FoldsUp
    <2>4. IteratesTo(real[1..n], n, R, base, F)
      BY <1>3, <1>5, <2>2, <2>3, FoldIterates, Zenon
    <2>5. QED
      BY <2>4 DEF IteratesTo
  <1>12. \A i \in 1..n : g[i] = P(g[i - 1], i)
    <2>1. \A i \in 1..n : i - 1 \in 0..n
      BY <1>1
    <2>2. g \in [0..n -> R] /\ \A i \in 1..n : g[i] = F[<<i, g[i - 1]>>]
      BY <1>11 DEF Iterates
    <2>3. QED
      BY <1>6, <2>1, <2>2
  <1>13. g \in [0..n -> R] /\ g[0] = base /\ Read(last, pieces) = g[n]
    BY <1>1, <1>2, <1>11 DEF Iterates
  <1>14. QED
    BY <1>12, <1>13, Zenon DEF ReadAlong, n, base, P, R

-----------------------------------------------------------------------------
(* The bytes that Tor writes                                               *)

\* No line is empty, and CR and LF stand only at its end.
Shaped(t) ==
    /\ t \in Seq(Byte)
    /\ Len(t) # 0 => t[1] \in Nat
    /\ \A i \in 1..Len(t) :
          /\ t[i] = CR => i < Len(t) /\ t[i + 1] = LF
          /\ t[i] = LF => i > 1 /\ t[i - 1] = CR
          /\ t[i] = LF /\ i < Len(t) => t[i + 1] \in Nat

LEMMA EndBytes ==
    /\ CRLF \in Seq(Byte) /\ Len(CRLF) = 2 /\ CRLF[1] = CR /\ CRLF[2] = LF /\ CRLF # <<>>
    /\ CR \in Byte /\ LF \in Byte /\ CR # LF /\ CR \notin Nat /\ LF \notin Nat /\ Nat \subseteq Byte
    /\ \A x \in Byte : x \in Nat \/ x = CR \/ x = LF
  <1>1. CR \in Byte /\ LF \in Byte /\ Nat \subseteq Byte /\ \A x \in Byte : x \in Nat \/ x = CR \/ x = LF
    BY DEF Byte
  <1>2. CRLF \in Seq(Byte)
    BY <1>1 DEF CRLF
  <1>3. Len(CRLF) = 2 /\ CRLF[1] = CR /\ CRLF[2] = LF
    BY DEF CRLF
  <1>4. CRLF # <<>>
    BY <1>3
  <1>5. QED
    BY <1>1, <1>2, <1>3, <1>4, LinesAssumption

LEMMA IsCRLF ==
    ASSUME NEW s \in Seq(Byte), Len(s) = 2
    PROVE  s = CRLF <=> s[1] = CR /\ s[2] = LF
  <1>1. ASSUME s[1] = CR, s[2] = LF PROVE s = CRLF
    <2>1. \A i \in 1..2 : i = 1 \/ i = 2
      OBVIOUS
    <2>2. \A i \in 1..2 : s[i] = CRLF[i]
      BY <1>1, <2>1, EndBytes
    <2> DEFINE c == CRLF
    <2>3. c \in Seq(Byte) /\ Len(c) = 2 /\ \A i \in 1..2 : s[i] = c[i]
      BY <2>2, EndBytes
    <2> HIDE DEF c
    <2>4. s = c
      BY <2>3
    <2>5. QED
      BY <2>4 DEF c
  <1>2. QED
    BY <1>1, EndBytes

LEMMA ShapedGrows ==
    ASSUME NEW t, Shaped(t), NEW x \in Seq(Nat), x # <<>>
    PROVE  Shaped(t \o (x \o CRLF))
  <1> DEFINE u == x \o CRLF
             m == Len(t)
             k == Len(x)
             v == t \o u
  <1>1. t \in Seq(Byte) /\ m \in Nat /\ k \in Nat /\ k >= 1 /\ x \in Seq(Byte)
    <2>1. Seq(Nat) \subseteq Seq(Byte)
      BY EndBytes, SmallerSeq
    <2>2. t \in Seq(Byte)
      BY DEF Shaped
    <2>3. QED
      BY <2>1, <2>2
  <1>2. /\ u \in Seq(Byte) /\ Len(u) = k + 2
        /\ \A i \in 1..k : u[i] \in Nat
        /\ u[k + 1] = CR /\ u[k + 2] = LF
    <2> DEFINE c == CRLF
    <2>1. c \in Seq(Byte) /\ Len(c) = 2 /\ c[1] = CR /\ c[2] = LF
      BY EndBytes
    <2> HIDE DEF c
    <2>2. /\ x \o c \in Seq(Byte) /\ Len(x \o c) = Len(x) + Len(c)
          /\ \A i \in 1..Len(x) : (x \o c)[i] = x[i]
          /\ \A i \in 1..Len(c) : (x \o c)[Len(x) + i] = c[i]
      <3>1. IsConcat(x \o c, x, c, Byte)
        BY <1>1, <2>1, ConcatIs
      <3>2. QED
        BY <3>1 DEF IsConcat
    <2>3. \A i \in 1..k : (x \o c)[i] \in Nat
      BY <1>1, <2>2
    <2>4. (x \o c)[k + 1] = c[1] /\ (x \o c)[k + 2] = c[2]
      <3>1. 1 \in 1..Len(c) /\ 2 \in 1..Len(c)
        BY <2>1
      <3>2. QED
        BY <2>2, <3>1
    <2>5. QED
      BY <2>1, <2>2, <2>3, <2>4 DEF c
  <1> HIDE DEF u
  <1>3. /\ v \in Seq(Byte) /\ Len(v) = m + Len(u)
        /\ \A i \in 1..m : v[i] = t[i]
        /\ \A i \in 1..Len(u) : v[m + i] = u[i]
    <2>1. IsConcat(v, t, u, Byte)
      BY <1>1, <1>2, ConcatIs
    <2>2. QED
      BY <2>1 DEF IsConcat
  <1>4. /\ m # 0 => t[1] \in Nat
        /\ \A i \in 1..m : /\ t[i] = CR => i < m /\ t[i + 1] = LF
                           /\ t[i] = LF => i > 1 /\ t[i - 1] = CR
                           /\ t[i] = LF /\ i < m => t[i + 1] \in Nat
    BY DEF Shaped
  <1> HIDE DEF v, m, k
  <1>5. \A i \in 1..m : v[i] = t[i]
    BY <1>3
  <1>6. \A i \in 1..(k + 2) : v[m + i] = u[i]
    BY <1>2, <1>3
  <1>7. (\A i \in 1..k : v[m + i] \in Nat) /\ v[m + k + 1] = CR /\ v[m + k + 2] = LF
    <2>1. k + 1 \in 1..(k + 2) /\ k + 2 \in 1..(k + 2) /\ m + (k + 1) = m + k + 1 /\ m + (k + 2) = m + k + 2
      BY <1>1
    <2>2. \A i \in 1..k : i \in 1..(k + 2)
      BY <1>1
    <2>3. QED
      BY <1>2, <1>6, <2>1, <2>2
  <1>8. v[1] \in Nat
    <2>1. CASE m = 0
      <3>1. v[m + 1] \in Nat
        BY <1>1, <1>7
      <3>2. QED
        BY <2>1, <3>1
    <2>2. CASE m # 0
      BY <1>1, <1>4, <1>5, <2>2
    <2>3. QED
      BY <2>1, <2>2
  <1>9. CR # LF /\ CR \notin Nat /\ LF \notin Nat
    BY EndBytes
  <1>10. ASSUME NEW i \in 1..Len(v)
         PROVE  /\ v[i] = CR => i < Len(v) /\ v[i + 1] = LF
                /\ v[i] = LF => i > 1 /\ v[i - 1] = CR
                /\ v[i] = LF /\ i < Len(v) => v[i + 1] \in Nat
    <2>1. i \in Nat /\ 1 <= i /\ i <= m + k + 2 /\ Len(v) = m + k + 2
      BY <1>1, <1>2, <1>3
    <2>2. CASE i < m
      <3>1. i \in 1..m /\ i + 1 \in 1..m /\ (i > 1 => i - 1 \in 1..m)
        BY <1>1, <2>1, <2>2
      <3>2. v[i] = t[i] /\ v[i + 1] = t[i + 1] /\ (i > 1 => v[i - 1] = t[i - 1])
        BY <1>5, <3>1
      <3>3. QED
        BY <1>1, <1>4, <2>1, <2>2, <3>1, <3>2
    <2>3. CASE i = m
      <3>1. i \in 1..m /\ (i > 1 => i - 1 \in 1..m)
        BY <1>1, <2>1, <2>3
      <3>2. v[i] = t[i] /\ (i > 1 => v[i - 1] = t[i - 1])
        BY <1>5, <3>1
      <3>3. v[m + 1] \in Nat
        BY <1>1, <1>7
      <3>4. QED
        BY <1>1, <1>4, <2>1, <2>3, <3>1, <3>2, <3>3
    <2>4. CASE m < i /\ i <= m + k
      <3>1. i - m \in 1..k /\ m + (i - m) = i
        BY <1>1, <2>1, <2>4
      <3>2. v[i] \in Nat
        BY <1>7, <3>1
      <3>3. QED
        BY <1>9, <3>2
    <2>5. CASE i = m + k + 1
      <3>1. v[i] = CR /\ v[i + 1] = LF /\ i < Len(v)
        BY <1>1, <1>7, <2>1, <2>5
      <3>2. QED
        BY <1>9, <3>1
    <2>6. CASE i = m + k + 2
      <3>1. v[i] = LF /\ v[i - 1] = CR /\ i > 1 /\ ~(i < Len(v))
        BY <1>1, <1>7, <2>1, <2>6
      <3>2. QED
        BY <1>9, <3>1
    <2>7. QED
      BY <1>1, <2>1, <2>2, <2>3, <2>4, <2>5, <2>6
  <1>11. QED
    BY <1>3, <1>8, <1>10 DEF Shaped, v, u

-----------------------------------------------------------------------------
(* A chunk of the text and its pieces                                      *)

LEMMA CRLFSeparators ==
    ASSUME NEW s \in Seq(Byte)
    PROVE  /\ \A j : j \in Separators(s, CRLF) <=> j \in 1..(Len(s) - 1) /\ s[j] = CR /\ s[j + 1] = LF
           /\ \A i, j \in Separators(s, CRLF) : i < j => i + Len(CRLF) <= j
           /\ \A j \in Separators(s, CRLF) : SubSeq(s, j, j + 1) = CRLF
  <1> DEFINE n == Len(s)
  <1>1. n \in Nat /\ Len(CRLF) = 2
    BY EndBytes
  <1>2. ASSUME NEW j \in 1..(n - 1)
        PROVE  SubSeq(s, j, j + 1) = CRLF <=> s[j] = CR /\ s[j + 1] = LF
    <2>1. j \in 1..(Len(s) + 1) /\ j + 1 \in (j - 1)..Len(s)
      BY <1>1
    <2> DEFINE u == SubSeq(s, j, j + 1)
    <2>2. /\ u \in Seq(Byte) /\ Len(u) = (j + 1) - j + 1
          /\ \A i \in 1..((j + 1) - j + 1) : u[i] = s[j + i - 1]
      BY <2>1, Slice
    <2> HIDE DEF u
    <2>3. Len(u) = 2 /\ u[1] = s[j] /\ u[2] = s[j + 1]
      <3>1. (j + 1) - j + 1 = 2 /\ j + 1 - 1 = j /\ j + 2 - 1 = j + 1
        OBVIOUS
      <3>2. 1 \in 1..2 /\ 2 \in 1..2
        OBVIOUS
      <3>3. QED
        BY <2>2, <3>1, <3>2
    <2>4. u = CRLF <=> u[1] = CR /\ u[2] = LF
      BY <2>2, <2>3, IsCRLF
    <2>5. QED
      BY <2>3, <2>4 DEF u
  <1>3. \A j : j \in Separators(s, CRLF) <=> j \in 1..(n - 1) /\ SubSeq(s, j, j + 1) = CRLF
    <2>1. Separators(s, CRLF) = {i \in 1..(n - 2 + 1) : SubSeq(s, i, i + 2 - 1) = CRLF}
      BY <1>1 DEF Separators
    <2>2. 1..(n - 2 + 1) = 1..(n - 1) /\ \A i \in 1..(n - 1) : i + 2 - 1 = i + 1
      BY <1>1
    <2>3. QED
      BY <2>1, <2>2
  <1>4. \A j : j \in Separators(s, CRLF) <=> j \in 1..(n - 1) /\ s[j] = CR /\ s[j + 1] = LF
    BY <1>2, <1>3
  <1>5. ASSUME NEW i \in Separators(s, CRLF), NEW j \in Separators(s, CRLF), i < j PROVE i + 2 <= j
    <2>1. i \in Nat /\ j \in Nat /\ s[i + 1] = LF /\ s[j] = CR
      BY <1>4
    <2>2. j # i + 1
      BY <2>1, EndBytes
    <2>3. QED
      BY <1>5, <2>1, <2>2
  <1>6. QED
    BY <1>1, <1>3, <1>4, <1>5

\* The n bytes of t behind the first m.
ChunkAt(chunk, t, m, n) ==
    /\ Shaped(t) /\ m \in Nat /\ n \in Nat \ {0} /\ m + n <= Len(t)
    /\ chunk = SubSeq(t, m + 1, m + n)

LEMMA ChunkBytes ==
    ASSUME NEW chunk, NEW t, NEW m, NEW n, ChunkAt(chunk, t, m, n)
    PROVE  /\ t \in Seq(Byte) /\ m \in Nat /\ n \in Nat /\ n >= 1 /\ m + n <= Len(t) /\ Len(t) \in Nat
           /\ chunk \in Seq(Byte) /\ Len(chunk) = n /\ chunk = SubSeq(t, m + 1, m + n)
           /\ \A j \in 1..n : chunk[j] = t[m + j]
  <1>1. t \in Seq(Byte) /\ m \in Nat /\ n \in Nat /\ n >= 1 /\ m + n <= Len(t) /\ Len(t) \in Nat
    BY DEF ChunkAt, Shaped
  <1>2. m + 1 \in 1..(Len(t) + 1) /\ m + n \in ((m + 1) - 1)..Len(t)
    BY <1>1
  <1>3. /\ chunk \in Seq(Byte) /\ Len(chunk) = (m + n) - (m + 1) + 1
        /\ \A j \in 1..((m + n) - (m + 1) + 1) : chunk[j] = t[(m + 1) + j - 1]
    <2>1. chunk = SubSeq(t, m + 1, m + n)
      BY DEF ChunkAt
    <2>2. QED
      BY <1>1, <1>2, <2>1, Slice
  <1>4. (m + n) - (m + 1) + 1 = n /\ \A j \in 1..n : (m + 1) + j - 1 = m + j
    BY <1>1
  <1>5. chunk = SubSeq(t, m + 1, m + n)
    BY DEF ChunkAt
  <1>6. QED
    BY <1>1, <1>3, <1>4, <1>5

SameSlice(s, a, b, t, x, y) == SubSeq(s, a, b) = SubSeq(t, x, y)

LEMMA ChunkSlice ==
    ASSUME NEW chunk, NEW t, NEW m, NEW n, ChunkAt(chunk, t, m, n),
           NEW a \in Nat, NEW c \in Nat, 1 <= a, a <= c + 1, c <= n
    PROVE  SameSlice(chunk, a, c, t, m + a, m + c)
  <1>1. t \in Seq(Byte) /\ m \in Nat /\ n \in Nat /\ m + n <= Len(t) /\ chunk = SubSeq(t, m + 1, m + n)
    BY ChunkBytes
  <1>2. a \in 1..(n + 1) /\ c \in (a - 1)..n
    BY <1>1
  <1>3. SubSeq(SubSeq(t, m + 1, m + n), a, c) = SubSeq(t, m + a, m + c)
    BY <1>1, <1>2, SliceOfSlice
  <1>4. QED
    BY <1>1, <1>3 DEF SameSlice

\* What a shaped text says of a byte of a chunk and its neighbours.
LEMMA ChunkShape ==
    ASSUME NEW chunk, NEW t, NEW m, NEW n, ChunkAt(chunk, t, m, n), NEW j \in 1..n
    PROVE  /\ chunk[j] = CR /\ j < n => chunk[j + 1] = LF
           /\ chunk[j] = LF /\ j > 1 => chunk[j - 1] = CR
           /\ chunk[j] = LF /\ j < n => chunk[j + 1] \in Nat
           /\ chunk[j] = LF /\ j = 1 => m >= 1 /\ t[m] = CR
           /\ chunk[j] = CR /\ j = 1 => m >= 1 /\ t[m] \in Nat
  <1>1. /\ t \in Seq(Byte) /\ m \in Nat /\ n \in Nat /\ m + n <= Len(t) /\ Len(t) \in Nat
        /\ \A i \in 1..n : chunk[i] = t[m + i]
    BY ChunkBytes
  <1>2. /\ Len(t) # 0 => t[1] \in Nat
        /\ \A i \in 1..Len(t) : /\ t[i] = CR => i < Len(t) /\ t[i + 1] = LF
                                /\ t[i] = LF => i > 1 /\ t[i - 1] = CR
                                /\ t[i] = LF /\ i < Len(t) => t[i + 1] \in Nat
    BY DEF ChunkAt, Shaped
  <1>3. CR # LF /\ CR \notin Nat /\ LF \notin Nat /\ \A x \in Byte : x \in Nat \/ x = CR \/ x = LF
    BY EndBytes
  <1> DEFINE k == Len(t)
             i == m + j
  <1> HIDE DEF k, i
  <1>4. i \in 1..k /\ k \in Nat /\ chunk[j] = t[i] /\ j \in Nat /\ i \in Nat
    BY <1>1 DEF k, i
  <1>5. j < n => chunk[j + 1] = t[i + 1]
    <2>1. ASSUME j < n PROVE chunk[j + 1] = t[i + 1]
      <3>1. j + 1 \in 1..n /\ m + (j + 1) = i + 1
        BY <1>1, <2>1 DEF i
      <3>2. QED
        BY <1>1, <3>1
    <2>2. QED
      BY <2>1
  <1>6. j > 1 => chunk[j - 1] = t[i - 1]
    <2>1. ASSUME j > 1 PROVE chunk[j - 1] = t[i - 1]
      <3>1. j - 1 \in 1..n /\ m + (j - 1) = i - 1
        BY <1>1, <2>1 DEF i
      <3>2. QED
        BY <1>1, <3>1
    <2>2. QED
      BY <2>1
  <1>7. j < n => i < k
    BY <1>1 DEF i, k
  <1>8. j = 1 => i = m + 1 /\ i - 1 = m
    BY <1>1 DEF i
  <1>9. /\ t[1] \in Nat
        /\ t[i] = CR => t[i + 1] = LF
        /\ t[i] = LF => i > 1 /\ t[i - 1] = CR
        /\ t[i] = LF /\ i < k => t[i + 1] \in Nat
    BY <1>2, <1>4 DEF k
  <1>10. chunk[j] = CR /\ j = 1 => m >= 1 /\ t[m] \in Nat
    <2>1. SUFFICES ASSUME chunk[j] = CR, j = 1 PROVE m >= 1 /\ t[m] \in Nat
      OBVIOUS
    <2>2. t[i] = CR /\ i = m + 1
      BY <1>4, <1>8, <2>1
    <2>3. m # 0
      BY <1>3, <1>9, <2>2
    <2>4. m \in 1..k /\ m + 1 = i /\ m < k
      BY <1>1, <1>4, <2>2, <2>3
    <2>5. t[m] # CR /\ t[m] # LF
      BY <1>2, <1>3, <2>2, <2>4 DEF k
    <2>6. t[m] \in Byte
      BY <1>1, <2>4 DEF k
    <2>7. QED
      BY <1>3, <2>4, <2>5, <2>6
  <1>11. chunk[j] = LF /\ j = 1 => m >= 1 /\ t[m] = CR
    BY <1>1, <1>4, <1>8, <1>9
  <1>12. QED
    BY <1>4, <1>5, <1>6, <1>7, <1>9, <1>10, <1>11

\* No line ends from a to c.
NoEnd(chunk, a, c) == \A j \in Separators(chunk, CRLF) : ~(a <= j /\ j <= c)

\* Between two ends of lines there is the text of a line.
LEMMA PieceIsText ==
    ASSUME NEW chunk, NEW t, NEW m, NEW n, ChunkAt(chunk, t, m, n),
           NEW a \in 1..(n + 1), NEW c \in (a - 1)..n,
           NoEnd(chunk, a, c),
           a = 1 => m = 0 \/ t[m] # CR, a > 1 => chunk[a - 1] # CR,
           c < n \/ chunk[n] # CR
    PROVE  SubSeq(chunk, a, c) \in Seq(Nat)
  <1> DEFINE seps == Separators(chunk, CRLF)
  <1>1. m \in Nat /\ n \in Nat /\ chunk \in Seq(Byte) /\ Len(chunk) = n
    BY ChunkBytes
  <1>2. \A j : j \in seps <=> j \in 1..(n - 1) /\ chunk[j] = CR /\ chunk[j + 1] = LF
    BY <1>1, CRLFSeparators
  <1>3. CR # LF /\ \A x \in Byte : x \in Nat \/ x = CR \/ x = LF
    BY EndBytes
  <1> HIDE DEF seps
  <1>4. ASSUME NEW j \in a..c PROVE chunk[j] \in Nat
    <2>1. j \in 1..n /\ j \in Nat /\ a <= j /\ j <= c /\ c <= n /\ a \in Nat /\ a >= 1
      BY <1>1
    <2>2. j \notin seps
      BY <2>1 DEF seps, NoEnd
    <2>3. /\ chunk[j] = CR /\ j < n => chunk[j + 1] = LF
          /\ chunk[j] = LF /\ j > 1 => chunk[j - 1] = CR
          /\ chunk[j] = LF /\ j = 1 => m >= 1 /\ t[m] = CR
      BY <2>1, ChunkShape
    <2>4. chunk[j] # CR
      <3>1. SUFFICES ASSUME chunk[j] = CR PROVE FALSE
        OBVIOUS
      <3>2. CASE j < n
        <4>1. j \in 1..(n - 1)
          BY <1>1, <2>1, <3>2
        <4>2. QED
          BY <1>2, <2>2, <2>3, <3>1, <3>2, <4>1
      <3>3. CASE j = n
        <4>1. ~(c < n)
          BY <1>1, <2>1, <3>3
        <4>2. QED
          BY <3>1, <3>3, <4>1
      <3>4. QED
        BY <1>1, <2>1, <3>2, <3>3
    <2>5. chunk[j] # LF
      <3>1. SUFFICES ASSUME chunk[j] = LF PROVE FALSE
        OBVIOUS
      <3>2. CASE j = 1
        BY <1>1, <2>1, <2>3, <3>1, <3>2
      <3>3. CASE j > 1
        <4>1. chunk[j - 1] = CR /\ (j - 1) + 1 = j /\ j - 1 \in 1..(n - 1)
          BY <1>1, <2>1, <2>3, <3>1, <3>3
        <4>2. j - 1 \in seps
          BY <1>2, <3>1, <4>1
        <4>3. CASE a = j
          BY <3>3, <4>1, <4>3
        <4>4. CASE a # j
          <5>1. a <= j - 1 /\ j - 1 <= c
            BY <1>1, <2>1, <4>4
          <5>2. QED
            BY <4>2, <5>1 DEF seps, NoEnd
        <4>5. QED
          BY <4>3, <4>4
      <3>4. QED
        BY <2>1, <3>2, <3>3
    <2>6. chunk[j] \in Byte
      BY <1>1, <2>1
    <2>7. QED
      BY <1>3, <2>4, <2>5, <2>6
  <1> DEFINE u == SubSeq(chunk, a, c)
  <1>5. u \in Seq(Byte) /\ Len(u) = c - a + 1 /\ \A i \in 1..(c - a + 1) : u[i] = chunk[a + i - 1]
    <2>1. a \in 1..(Len(chunk) + 1) /\ c \in (a - 1)..Len(chunk)
      BY <1>1
    <2>2. QED
      BY <1>1, <2>1, Slice
  <1>6. \A i \in 1..(c - a + 1) : a + i - 1 \in a..c
    BY <1>1
  <1> HIDE DEF u
  <1>7. \A i \in 1..Len(u) : u[i] \in Nat
    BY <1>4, <1>5, <1>6
  <1>8. u \in Seq(Nat)
    BY <1>5, <1>7, NarrowerSeq
  <1>9. QED
    BY <1>8 DEF u

-----------------------------------------------------------------------------
(* The body of the loop                                                    *)

\* What was processed and what waits are the first x bytes of t.
TakenTo(s, t, x) ==
    /\ s \in [buffer : Seq(Byte), lines : Seq(Seq(Byte) \ {<<>>})]
    /\ Joined(s.lines, CRLF) \o s.buffer = SubSeq(t, 1, x)

LEMMA TakeRest ==
    ASSUME NEW t \in Seq(Byte), NEW x \in Nat, NEW c \in Nat, x <= c, c <= Len(t),
           NEW s, TakenTo(s, t, x)
    PROVE  TakenTo([s EXCEPT !.buffer = s.buffer \o SubSeq(t, x + 1, c)], t, c)
  <1> DEFINE W == Seq(Byte)
             L == s.lines
             B == s.buffer
             P == SubSeq(t, x + 1, c)
             J == Joined(L, CRLF)
             H == SubSeq(t, 1, x)
             u == [s EXCEPT !.buffer = B \o P]
  <1>1. B \in W /\ L \in Seq(W \ {<<>>}) /\ J \o B = H
    BY DEF TakenTo
  <1>2. Strings(W)
    BY SeqStrings
  <1>3. L \in Seq(W)
    <2>1. W \ {<<>>} \subseteq W
      OBVIOUS
    <2>2. Seq(W \ {<<>>}) \subseteq Seq(W)
      BY <2>1, SmallerSeq
    <2>3. QED
      BY <1>1, <2>2
  <1>4. J \in W
    <2>1. CRLF \in W
      BY EndBytes
    <2> HIDE DEF W, L
    <2>2. QED
      BY <1>2, <1>3, <2>1, JoinedType
  <1>5. P \in W /\ H \o P = SubSeq(t, 1, c)
    <2>1. x + 1 \in 1..(Len(t) + 1) /\ c \in ((x + 1) - 1)..Len(t)
      OBVIOUS
    <2>2. P \in W
      BY <2>1, Slice
    <2>3. H \o P = SubSeq(t, 1, c)
      BY PrefixGrows
    <2>4. QED
      BY <2>2, <2>3
  <1>6. u \in [buffer : W, lines : Seq(W \ {<<>>})] /\ u.lines = L /\ u.buffer = B \o P
    <2>1. B \o P \in W
      <3> HIDE DEF B, P, W
      <3>1. QED
        BY <1>1, <1>2, <1>5 DEF Strings
    <2>2. s \in [buffer : W, lines : Seq(W \ {<<>>})]
      BY DEF TakenTo
    <2> DEFINE Q == B \o P
    <2> HIDE DEF Q, W
    <2>3. Q \in W
      BY <2>1 DEF Q
    <2>4. [s EXCEPT !.buffer = Q] \in [buffer : W, lines : Seq(W \ {<<>>})]
          /\ [s EXCEPT !.buffer = Q].lines = s.lines /\ [s EXCEPT !.buffer = Q].buffer = Q
      BY <2>2, <2>3
    <2>5. QED
      BY <2>4 DEF Q
  <1> HIDE DEF W, L, B, P, J, H, u
  <1>7. J \o (B \o P) = SubSeq(t, 1, c)
    <2>1. Assoc(J, B, P)
      BY <1>1, <1>2, <1>4, <1>5, Associative
    <2>2. QED
      BY <1>1, <1>5, <2>1, Zenon DEF Assoc
  <1>8. Joined(u.lines, CRLF) \o u.buffer = SubSeq(t, 1, c)
    BY <1>6, <1>7, Zenon DEF J
  <1>9. TakenTo(u, t, c)
    BY <1>6, <1>8 DEF TakenTo, W
  <1>10. QED
    BY <1>9 DEF u, B, P

LEMMA TakeLine ==
    ASSUME NEW t \in Seq(Byte), NEW x \in Nat, NEW c \in Nat, x <= c, c + 2 <= Len(t),
           SubSeq(t, c + 1, c + 2) = CRLF, NEW s, TakenTo(s, t, x),
           s.buffer \o SubSeq(t, x + 1, c) # <<>>
    PROVE  TakenTo([buffer |-> <<>>, lines |-> Append(s.lines, s.buffer \o SubSeq(t, x + 1, c))], t, c + 2)
  <1> DEFINE W == Seq(Byte)
             L == s.lines
             B == s.buffer
             P == SubSeq(t, x + 1, c)
             u == [s EXCEPT !.buffer = B \o P]
             Q == B \o P
             J == Joined(L, CRLF)
             C == CRLF
             G == SubSeq(t, 1, c)
             v == [buffer |-> <<>>, lines |-> Append(L, Q)]
  <1>1. TakenTo(u, t, c)
    <2>1. c <= Len(t)
      OBVIOUS
    <2>2. QED
      BY <2>1, TakeRest, Zenon
  <1>2. /\ L \in Seq(W \ {<<>>}) /\ Q \in W \ {<<>>} /\ J \o Q = G
    <2>1. s \in [buffer : W, lines : Seq(W \ {<<>>})]
      BY DEF TakenTo
    <2>2. u.lines = L /\ u.buffer = Q
      BY <2>1
    <2>3. u.buffer \in W /\ Joined(u.lines, CRLF) \o u.buffer = G
      BY <1>1, Zenon DEF TakenTo
    <2>4. L \in Seq(W \ {<<>>})
      BY <2>1
    <2>5. Q \in W /\ J \o Q = G
      BY <2>2, <2>3, Zenon
    <2> HIDE DEF Q
    <2>6. Q # <<>>
      BY DEF Q
    <2>7. QED
      BY <2>4, <2>5, <2>6
  <1>3. Strings(W) /\ C \in W
    BY SeqStrings, EndBytes
  <1>4. G \o C = SubSeq(t, 1, c + 2)
    <2>1. G \o SubSeq(t, c + 1, c + 2) = SubSeq(t, 1, c + 2)
      <3>1. c + 2 \in Nat /\ c <= c + 2
        OBVIOUS
      <3>2. QED
        BY <3>1, PrefixGrows
    <2>2. QED
      BY <2>1
  <1>5. <<>> \in W
    OBVIOUS
  <1> DEFINE Z == W \ {<<>>}
  <1>6. Z \subseteq W /\ L \in Seq(Z) /\ Q \in Z
    BY <1>2
  <1> HIDE DEF W, L, Q, J, C, G, Z
  <1>7. Append(L, Q) \in Seq(Z) /\ L \in Seq(W) /\ Q \in W
    <2>1. Seq(Z) \subseteq Seq(W)
      BY <1>6, SmallerSeq
    <2>2. QED
      BY <1>6, <2>1
  <1>8. Joined(Append(L, Q), C) = J \o (Q \o C) /\ J \in W /\ Q \o C \in W
    <2>1. Strings(W) /\ L \in Seq(W) /\ Q \in W /\ C \in W
      BY <1>3, <1>7
    <2>2. /\ Joined(Append(L, Q), C) = Joined(L, C) \o (Q \o C)
          /\ Joined(L, C) \in W /\ Q \o C \in W
      BY <2>1, JoinedAppend, Zenon
    <2>3. J = Joined(L, C)
      BY Zenon DEF J, C
    <2>4. QED
      BY <2>2, <2>3
  <1>9. J \o (Q \o C) = SubSeq(t, 1, c + 2)
    <2>1. Assoc(J, Q, C)
      BY <1>3, <1>7, <1>8, Associative
    <2>2. QED
      BY <1>2, <1>4, <2>1, Zenon DEF Assoc
  <1>10. Joined(Append(L, Q), C) \o <<>> = SubSeq(t, 1, c + 2)
    <2>1. J \o (Q \o C) \in W
      BY <1>3, <1>8 DEF Strings
    <2>2. QED
      BY <1>3, <1>8, <1>9, <2>1 DEF Strings
  <1>11. v \in [buffer : W, lines : Seq(Z)] /\ v.lines = Append(L, Q) /\ v.buffer = <<>>
    BY <1>5, <1>7
  <1> HIDE DEF v
  <1>12. Joined(v.lines, C) \o v.buffer = SubSeq(t, 1, c + 2)
    BY <1>10, <1>11, Zenon
  <1>13. TakenTo(v, t, c + 2)
    BY <1>11, <1>12 DEF TakenTo, W, Z, C
  <1>14. QED
    BY <1>13 DEF v, L, Q, B, P

LEMMA PrefixIsCRLF ==
    ASSUME NEW s \in Seq(Byte)
    PROVE  IsPrefix(CRLF, s) <=> 1 \in Separators(s, CRLF)
  <1> DEFINE c == CRLF
             n == Len(s)
             u == SubSeq(s, 1, 2)
  <1>1. c \in Seq(Byte) /\ Len(c) = 2 /\ n \in Nat
    BY EndBytes
  <1>2. SubSeq(c, 1, Len(c)) = c
    <2> HIDE DEF c
    <2>1. QED
      BY <1>1
  <1>3. IsPrefix(c, s) <=> 2 <= n /\ c = u
    BY <1>1, <1>2 DEF IsPrefix
  <1>4. ASSUME 2 <= n PROVE c = u <=> s[1] = CR /\ s[2] = LF
    <2>1. 1 \in 1..(n + 1) /\ 2 \in (1 - 1)..n
      BY <1>1, <1>4
    <2>2. u \in Seq(Byte) /\ Len(u) = 2 - 1 + 1 /\ \A i \in 1..(2 - 1 + 1) : u[i] = s[1 + i - 1]
      BY <2>1, Slice
    <2>3. Len(u) = 2 /\ u[1] = s[1] /\ u[2] = s[2]
      <3>1. 2 - 1 + 1 = 2 /\ 1 + 1 - 1 = 1 /\ 1 + 2 - 1 = 2 /\ 1 \in 1..2 /\ 2 \in 1..2
        OBVIOUS
      <3> HIDE DEF u
      <3>2. QED
        BY <2>2, <3>1
    <2>4. u = CRLF <=> u[1] = CR /\ u[2] = LF
      <3> HIDE DEF u
      <3>1. QED
        BY <2>2, <2>3, IsCRLF
    <2>5. QED
      BY <2>3, <2>4
  <1>5. 1 \in Separators(s, CRLF) <=> 1 \in 1..(n - 1) /\ s[1] = CR /\ s[1 + 1] = LF
    BY CRLFSeparators
  <1> HIDE DEF n, u, c
  <1>6. 1 \in 1..(n - 1) <=> 2 <= n
    BY <1>1
  <1>7. IsPrefix(c, s) <=> 1 \in Separators(s, CRLF)
    <2>1. 1 + 1 = 2
      OBVIOUS
    <2>2. QED
      BY <1>3, <1>4, <1>5, <1>6, <2>1
  <1>8. QED
    BY <1>7 DEF c

LEMMA SuffixIsCRLF ==
    ASSUME NEW s \in Seq(Byte), IsSuffix(CRLF, s)
    PROVE  Len(s) - 1 \in Separators(s, CRLF)
  <1> DEFINE n == Len(s)
             r == [i \in 1..n |-> s[(n - i) + 1]]
             d == [i \in 1..2 |-> CRLF[(2 - i) + 1]]
  <1>1. n \in Nat /\ Len(CRLF) = 2 /\ CRLF[1] = CR /\ CRLF[2] = LF
    BY EndBytes
  <1>2. Reverse(s) = r /\ Reverse(CRLF) = d
    BY <1>1 DEF Reverse
  <1>3. Len(r) = n /\ Len(d) = 2
    BY <1>1
  <1>4. 2 <= n /\ SubSeq(d, 1, 2) = SubSeq(r, 1, 2)
    <2>1. IsPrefix(d, r)
      BY <1>2 DEF IsSuffix
    <2> HIDE DEF d, r
    <2>2. QED
      BY <1>3, <2>1 DEF IsPrefix
  <1>5. r \in Seq(Byte) /\ d \in Seq(Byte)
    <2>1. \A i \in 1..n : s[(n - i) + 1] \in Byte
      <3>1. \A i \in 1..n : (n - i) + 1 \in 1..n
        BY <1>1
      <3>2. QED
        BY <3>1
    <2>2. \A i \in 1..2 : CRLF[(2 - i) + 1] \in Byte
      <3>1. \A i \in 1..2 : (2 - i) + 1 \in 1..2
        OBVIOUS
      <3>2. \A i \in 1..2 : CRLF[i] \in Byte
        BY EndBytes
      <3>3. QED
        BY <3>1, <3>2
    <2>3. QED
      BY <1>1, <2>1, <2>2
  <1>6. r[1] = s[n] /\ r[2] = s[n - 1] /\ d[1] = LF /\ d[2] = CR
    <2>1. 1 \in 1..n /\ 2 \in 1..n /\ (n - 1) + 1 = n /\ (n - 2) + 1 = n - 1
      BY <1>1, <1>4
    <2>2. 1 \in 1..2 /\ 2 \in 1..2 /\ (2 - 1) + 1 = 2 /\ (2 - 2) + 1 = 1
      OBVIOUS
    <2>3. QED
      BY <1>1, <2>1, <2>2
  <1> HIDE DEF r, d, n
  <1>7. \A q \in Seq(Byte) : 2 <= Len(q) => SubSeq(q, 1, 2)[1] = q[1] /\ SubSeq(q, 1, 2)[2] = q[2]
    <2>1. SUFFICES ASSUME NEW q \in Seq(Byte), 2 <= Len(q)
                   PROVE  SubSeq(q, 1, 2)[1] = q[1] /\ SubSeq(q, 1, 2)[2] = q[2]
      OBVIOUS
    <2>2. 1 \in 1..(Len(q) + 1) /\ 2 \in (1 - 1)..Len(q)
      BY <2>1
    <2>3. \A i \in 1..(2 - 1 + 1) : SubSeq(q, 1, 2)[i] = q[1 + i - 1]
      BY <2>2, Slice
    <2>4. 2 - 1 + 1 = 2 /\ 1 + 1 - 1 = 1 /\ 1 + 2 - 1 = 2 /\ 1 \in 1..2 /\ 2 \in 1..2
      OBVIOUS
    <2>5. QED
      BY <2>3, <2>4
  <1>8. d[1] = r[1] /\ d[2] = r[2]
    <2>1. 2 <= Len(d) /\ 2 <= Len(r)
      BY <1>3, <1>4
    <2>2. QED
      BY <1>4, <1>5, <1>7, <2>1
  <1>9. s[n - 1] = CR /\ s[n] = LF
    BY <1>6, <1>8
  <1>10. n - 1 \in 1..(n - 1) /\ (n - 1) + 1 = n
    BY <1>1, <1>4
  <1>11. n - 1 \in Separators(s, CRLF)
    BY <1>9, <1>10, CRLFSeparators DEF n
  <1>12. QED
    BY <1>11 DEF n

\* What the loop knows after the first x bytes of t; clean says that no chunk
\* has ended between CR and LF.
Fits(s, t, x, clean) ==
    /\ TakenTo(s, t, x)
    /\ s.buffer = <<>> => x = 0 \/ t[x] = LF
    /\ clean => s.lines \in Seq(Seq(Nat)) /\ s.buffer \in Seq(Nat) /\ (x = 0 \/ t[x] # CR)

\* In front of the piece that begins at a.
Ready(s, t, m, a, clean) == Fits(s, t, m + a - 1, clean) /\ (a > 1 => s.buffer = <<>>)

\* The i-th piece begins at a and has its end; the next one begins behind that.
EndedPiece(pieces, i, chunk, n, a, next) ==
    /\ a \in 1..(n + 1) /\ next - 2 \in Separators(chunk, CRLF) /\ next \in Nat /\ a <= next - 2
    /\ NoEnd(chunk, a, next - 2 - 1)
    /\ i \in Nat /\ i # Len(pieces) /\ pieces[i] = SubSeq(chunk, a, next - 2 - 1)
    /\ (i = 1 <=> a = 1) /\ (a > 1 => chunk[a - 1] = LF)

\* A piece that has its end makes a line.
LEMMA TakesLine ==
    ASSUME NEW chunk, NEW t, NEW m, NEW n, ChunkAt(chunk, t, m, n),
           NEW pieces, NEW i, NEW a, NEW next, EndedPiece(pieces, i, chunk, n, a, next),
           NEW s, NEW clean \in BOOLEAN, Ready(s, t, m, a, clean)
    PROVE  Ready(Take(chunk, pieces, s, i), t, m, next, clean)
  <1> SUFFICES ASSUME a \in 1..(n + 1), NEW e \in Separators(chunk, CRLF), a <= e,
                      NoEnd(chunk, a, e - 1),
                      i \in Nat, i # Len(pieces), pieces[i] = SubSeq(chunk, a, e - 1),
                      i = 1 <=> a = 1, a > 1 => chunk[a - 1] = LF,
                      NEW x, x = m + a - 1, Fits(s, t, x, clean), a > 1 => s.buffer = <<>>
               PROVE  /\ Fits(Take(chunk, pieces, s, i), t, m + e + 1, clean)
                      /\ Take(chunk, pieces, s, i).buffer = <<>>
    <2> DEFINE e == next - 2
               x == m + a - 1
    <2>1. /\ a \in 1..(n + 1) /\ e \in Separators(chunk, CRLF) /\ a <= e
          /\ NoEnd(chunk, a, e - 1)
          /\ i \in Nat /\ i # Len(pieces) /\ pieces[i] = SubSeq(chunk, a, e - 1)
          /\ (i = 1 <=> a = 1) /\ (a > 1 => chunk[a - 1] = LF)
      BY DEF EndedPiece
    <2>2. Fits(s, t, x, clean) /\ (a > 1 => s.buffer = <<>>)
      BY DEF Ready
    <2>3. m + e + 1 = m + next - 1
      <3>1. m \in Nat /\ next \in Nat
        BY ChunkBytes DEF EndedPiece
      <3>2. QED
        BY <3>1
    <2> DEFINE r == Take(chunk, pieces, s, i)
    <2>4. SUFFICES Fits(r, t, m + e + 1, clean) /\ r.buffer = <<>>
      <3> DEFINE y == m + next - 1
      <3> HIDE DEF e, r, y
      <3>1. Fits(r, t, y, clean)
        BY <2>3, <2>4 DEF y
      <3>2. QED
        BY <2>4, <3>1, Zenon DEF Ready, r, y
    <2> HIDE DEF e, x
    <2>5. QED
      BY <2>1, <2>2 DEF x
  <1> DEFINE seps == Separators(chunk, CRLF)
             c == m + e - 1
             piece == pieces[i]
             joined == s.buffer \o piece
             r == [buffer |-> <<>>, lines |-> Append(s.lines, joined)]
  <1>1. /\ t \in Seq(Byte) /\ m \in Nat /\ n \in Nat /\ n >= 1 /\ m + n <= Len(t) /\ Len(t) \in Nat
        /\ chunk \in Seq(Byte) /\ Len(chunk) = n
        /\ chunk = SubSeq(t, m + 1, m + n)
        /\ \A j \in 1..n : chunk[j] = t[m + j]
    BY ChunkBytes
  <1>23. /\ c = m + e - 1 /\ piece = SubSeq(chunk, a, e - 1) /\ e \in seps
         /\ joined = s.buffer \o piece /\ r = [buffer |-> <<>>, lines |-> Append(s.lines, joined)]
    OBVIOUS
  <1>2. \A j : j \in seps <=> j \in 1..(n - 1) /\ chunk[j] = CR /\ chunk[j + 1] = LF
    BY <1>1, CRLFSeparators
  <1>3. CR # LF /\ CR \notin Nat /\ LF \notin Nat
    BY EndBytes
  <1>4. SubSeq(chunk, e, e + 1) = CRLF
    BY <1>1, CRLFSeparators
  <1> HIDE DEF seps, c, piece, joined, r
  <1>5. /\ e \in 1..(n - 1) /\ e \in Nat /\ a \in Nat /\ a >= 1 /\ e + 1 \in 1..n
        /\ chunk[e] = CR /\ chunk[e + 1] = LF
    <2>1. e \in 1..(n - 1) /\ chunk[e] = CR /\ chunk[e + 1] = LF
      BY <1>2, <1>23
    <2>2. QED
      BY <1>1, <2>1
  <1>24. e \in Nat /\ 1 <= e /\ e + 1 <= n /\ a \in Nat /\ 1 <= a /\ n \in Nat /\ m \in Nat
    BY <1>1, <1>5
  <1>6. /\ x \in Nat /\ c \in Nat /\ x <= c /\ c + 2 <= Len(t) /\ c + 2 = m + e + 1
        /\ x + 1 = m + a /\ c + 1 = m + e /\ m + (e - 1) = c /\ m + (e + 1) = c + 2
    BY <1>1, <1>5, <1>23
  <1>7. piece = SubSeq(t, x + 1, c)
    <2>1. e - 1 \in Nat /\ a <= (e - 1) + 1 /\ e - 1 <= n
      BY <1>24
    <2>2. SameSlice(chunk, a, e - 1, t, m + a, m + (e - 1))
      BY <1>24, <2>1, ChunkSlice
    <2>3. QED
      BY <1>6, <1>23, <2>2 DEF SameSlice
  <1>8. SubSeq(t, c + 1, c + 2) = CRLF
    <2>1. e + 1 \in Nat /\ e <= (e + 1) + 1 /\ e + 1 <= n
      BY <1>24
    <2>2. SameSlice(chunk, e, e + 1, t, m + e, m + (e + 1))
      BY <1>24, <2>1, ChunkSlice
    <2>3. QED
      BY <1>4, <1>6, <2>2 DEF SameSlice
  <1>9. piece = <<>> => a = e
    <2>1. a \in 1..(Len(chunk) + 1) /\ e - 1 \in (a - 1)..Len(chunk)
      BY <1>1, <1>5
    <2>2. Len(SubSeq(chunk, a, e - 1)) = (e - 1) - a + 1
      BY <1>1, <2>1, Slice
    <2>3. Len(piece) = e - a
      BY <1>5, <1>23, <2>2
    <2>4. QED
      BY <1>5, <2>3
  <1>10. s.buffer \in Seq(Byte) /\ s.lines \in Seq(Seq(Byte) \ {<<>>}) /\ TakenTo(s, t, x)
    <2>1. s \in [buffer : Seq(Byte), lines : Seq(Seq(Byte) \ {<<>>})]
      BY DEF Fits, TakenTo
    <2>2. QED
      BY <2>1 DEF Fits
  <1>11. piece \in Seq(Byte)
    <2>1. a \in 1..(Len(chunk) + 1) /\ e - 1 \in (a - 1)..Len(chunk)
      BY <1>1, <1>5
    <2>2. QED
      BY <1>1, <1>23, <2>1, Slice
  <1>12. ASSUME piece = <<>> PROVE ~Waits(chunk, pieces, i) /\ joined # <<>>
    <2>1. a = e
      BY <1>9, <1>12
    <2>2. a = 1
      <3>1. SUFFICES ASSUME a > 1 PROVE FALSE
        BY <1>5
      <3>2. chunk[a - 1] = LF /\ a - 1 \in 1..n /\ a - 1 < n /\ (a - 1) + 1 = a
        BY <1>1, <1>5, <2>1, <3>1
      <3>3. chunk[a] \in Nat
        BY <3>2, ChunkShape
      <3>4. QED
        BY <1>3, <1>5, <2>1, <3>3
    <2>3. IsPrefix(CRLF, chunk) /\ i = 1
      BY <1>1, <2>1, <2>2, PrefixIsCRLF
    <2>4. ~Waits(chunk, pieces, i)
      BY <2>3 DEF Waits
    <2>5. s.buffer # <<>>
      <3>1. SUFFICES ASSUME s.buffer = <<>> PROVE FALSE
        OBVIOUS
      <3>2. x = m
        BY <1>1, <2>2
      <3>3. m = 0 \/ t[m] = LF
        BY <3>1, <3>2 DEF Fits
      <3>4. 1 \in 1..n /\ chunk[1] = CR
        BY <1>1, <1>5, <2>1, <2>2
      <3>5. m >= 1 /\ t[m] \in Nat
        BY <3>4, ChunkShape
      <3>6. QED
        BY <1>3, <3>3, <3>5
    <2>6. joined # <<>>
      <3>1. joined = s.buffer
        <4> DEFINE B == s.buffer
        <4>1. B \in Seq(Byte)
          BY <1>10
        <4> HIDE DEF B
        <4>2. B \o <<>> = B
          BY <4>1
        <4>3. QED
          BY <1>12, <1>23, <4>2 DEF B
      <3>2. QED
        BY <2>5, <3>1
    <2>7. QED
      BY <2>4, <2>6
  <1>13. ASSUME piece # <<>> PROVE ~Waits(chunk, pieces, i) /\ joined # <<>>
    <2>1. ~Waits(chunk, pieces, i)
      BY <1>13 DEF Waits, piece
    <2>2. joined # <<>>
      <3> DEFINE B == s.buffer
      <3>1. B \in Seq(Byte) /\ piece \in Seq(Byte)
        BY <1>10, <1>11
      <3> HIDE DEF B
      <3>2. Len(B \o piece) = Len(B) + Len(piece) /\ Len(piece) # 0 /\ Len(B) \in Nat /\ Len(piece) \in Nat
        BY <1>13, <3>1
      <3>3. Len(B \o piece) # 0
        BY <3>2
      <3>4. B \o piece # <<>>
        BY <3>3
      <3>5. QED
        BY <1>23, <3>4 DEF B
    <2>3. QED
      BY <2>1, <2>2
  <1>14. ~Waits(chunk, pieces, i) /\ joined # <<>>
    BY <1>12, <1>13
  <1>15. Take(chunk, pieces, s, i) = r
    BY <1>14, Zenon DEF Take, r, joined, piece
  <1>16. TakenTo(r, t, c + 2)
    <2>1. s.buffer \o SubSeq(t, x + 1, c) # <<>>
      BY <1>7, <1>14, <1>23, Zenon
    <2>2. TakenTo([buffer |-> <<>>, lines |-> Append(s.lines, s.buffer \o SubSeq(t, x + 1, c))], t, c + 2)
      BY <1>1, <1>6, <1>8, <1>10, <2>1, TakeLine, Zenon
    <2>3. QED
      BY <1>7, <1>23, <2>2, Zenon
  <1>17. t[m + e + 1] = LF
    <2>1. t[m + (e + 1)] = LF
      BY <1>1, <1>5
    <2>2. m + (e + 1) = m + e + 1
      BY <1>1, <1>5
    <2>3. QED
      BY <2>1, <2>2
  <1>18. ASSUME clean PROVE r.lines \in Seq(Seq(Nat)) /\ r.buffer \in Seq(Nat)
    <2> DEFINE A == Seq(Nat)
               B == s.buffer
               L == s.lines
    <2>1. L \in Seq(A) /\ B \in A /\ (x = 0 \/ t[x] # CR)
      BY <1>18 DEF Fits
    <2>2. piece \in A
      <3>1. a \in 1..(n + 1) /\ e - 1 \in (a - 1)..n /\ e - 1 < n
        BY <1>24
      <3>3. a = 1 => m = 0 \/ t[m] # CR
        <4>1. a = 1 => x = m
          BY <1>1
        <4>2. QED
          BY <2>1, <4>1
      <3>4. a > 1 => chunk[a - 1] # CR
        BY <1>3
      <3>5. QED
        BY <1>23, <3>1, <3>3, <3>4, PieceIsText
    <2>3. \A u, v \in A : u \o v \in A
      OBVIOUS
    <2>4. <<>> \in A
      OBVIOUS
    <2> HIDE DEF A, B, L
    <2>5. B \o piece \in A
      BY <2>1, <2>2, <2>3
    <2>6. Append(L, B \o piece) \in Seq(A)
      <3> DEFINE q == B \o piece
      <3> HIDE DEF q
      <3>1. q \in A
        BY <2>5 DEF q
      <3>2. Append(L, q) \in Seq(A)
        BY <2>1, <3>1
      <3>3. QED
        BY <3>2 DEF q
    <2>7. r.lines = Append(L, B \o piece) /\ r.buffer = <<>>
      BY <1>23 DEF L, B
    <2>8. QED
      BY <2>4, <2>6, <2>7, Zenon DEF A
  <1>19. r.buffer = <<>>
    BY <1>23
  <1>20. Fits(r, t, m + e + 1, clean)
    BY <1>3, <1>6, <1>16, <1>17, <1>18 DEF Fits
  <1>21. QED
    BY <1>15, <1>19, <1>20, Zenon

\* The i-th piece begins at a and is the last one.
LastPiece(pieces, i, chunk, n, a) ==
    /\ a \in 1..(n + 1) /\ NoEnd(chunk, a, n)
    /\ i = Len(pieces) /\ pieces[i] = SubSeq(chunk, a, n)
    /\ (i = 1 <=> a = 1) /\ (a > 1 => a - 2 \in Separators(chunk, CRLF))

\* Behind the chunk.
FitsAfter(s, t, m, n, chunk, clean) == Fits(s, t, m + n, clean /\ chunk[n] # CR)

\* What follows the last end waits for its own.
LEMMA TakesRest ==
    ASSUME NEW chunk, NEW t, NEW m, NEW n, ChunkAt(chunk, t, m, n),
           NEW pieces, NEW i, NEW a, LastPiece(pieces, i, chunk, n, a),
           NEW s, NEW clean \in BOOLEAN, Ready(s, t, m, a, clean)
    PROVE  FitsAfter(Take(chunk, pieces, s, i), t, m, n, chunk, clean)
  <1> SUFFICES ASSUME a \in 1..(n + 1), NoEnd(chunk, a, n),
                      i = Len(pieces), pieces[i] = SubSeq(chunk, a, n),
                      i = 1 <=> a = 1, a > 1 => a - 2 \in Separators(chunk, CRLF),
                      NEW x, x = m + a - 1, Fits(s, t, x, clean), a > 1 => s.buffer = <<>>
               PROVE  Fits(Take(chunk, pieces, s, i), t, m + n, clean /\ chunk[n] # CR)
    <2> DEFINE x == m + a - 1
    <2>1. /\ a \in 1..(n + 1) /\ NoEnd(chunk, a, n)
          /\ i = Len(pieces) /\ pieces[i] = SubSeq(chunk, a, n)
          /\ (i = 1 <=> a = 1) /\ (a > 1 => a - 2 \in Separators(chunk, CRLF))
      BY DEF LastPiece
    <2>2. Fits(s, t, x, clean) /\ (a > 1 => s.buffer = <<>>)
      BY DEF Ready
    <2> DEFINE r == Take(chunk, pieces, s, i)
    <2>3. SUFFICES Fits(r, t, m + n, clean /\ chunk[n] # CR)
      BY <2>3, Zenon DEF FitsAfter
    <2> HIDE DEF x
    <2>4. QED
      BY <2>1, <2>2 DEF x
  <1> DEFINE seps == Separators(chunk, CRLF)
             c == m + n
             piece == pieces[i]
             joined == s.buffer \o piece
             r == [s EXCEPT !.buffer = joined]
  <1>1. /\ t \in Seq(Byte) /\ m \in Nat /\ n \in Nat /\ n >= 1 /\ m + n <= Len(t) /\ Len(t) \in Nat
        /\ chunk \in Seq(Byte) /\ Len(chunk) = n
        /\ chunk = SubSeq(t, m + 1, m + n)
        /\ \A j \in 1..n : chunk[j] = t[m + j]
    BY ChunkBytes
  <1>23. /\ c = m + n /\ piece = SubSeq(chunk, a, n) /\ (a > 1 => a - 2 \in seps)
         /\ joined = s.buffer \o piece /\ r = [s EXCEPT !.buffer = joined]
         /\ \A j \in seps : ~(a <= j /\ j <= n)
    BY DEF NoEnd
  <1>2. \A j : j \in seps <=> j \in 1..(n - 1) /\ chunk[j] = CR /\ chunk[j + 1] = LF
    BY <1>1, CRLFSeparators
  <1>3. CR # LF /\ CR \notin Nat /\ LF \notin Nat
    BY EndBytes
  <1> HIDE DEF seps, c, piece, joined, r
  <1>24. a \in Nat /\ 1 <= a /\ a <= n + 1 /\ n \in Nat /\ n >= 1 /\ m \in Nat /\ m + n <= Len(t) /\ Len(t) \in Nat
    BY <1>1
  <1>4. a \in Nat /\ a >= 1 /\ a <= n + 1 /\ x \in Nat /\ c \in Nat /\ x <= c /\ c <= Len(t) /\ x + 1 = m + a
    <2>1. c = m + n
      BY <1>23
    <2>2. QED
      BY <1>24, <2>1
  <1>5. piece = SubSeq(t, x + 1, c) /\ piece \in Seq(Byte) /\ (piece = <<>> => a = n + 1)
    <2>1. a \in 1..(n + 1) /\ n \in (a - 1)..n
      BY <1>1, <1>4
    <2>2. SameSlice(chunk, a, n, t, m + a, m + n)
      <3>1. n <= n
        BY <1>24
      <3>2. QED
        BY <1>24, <3>1, ChunkSlice
    <2>3. SubSeq(chunk, a, n) \in Seq(Byte) /\ Len(SubSeq(chunk, a, n)) = n - a + 1
      BY <1>1, <2>1, Slice
    <2>4. Len(<<>>) = 0
      OBVIOUS
    <2>5. piece = <<>> => n - a + 1 = 0
      BY <1>23, <2>3, <2>4
    <2>6. piece = <<>> => a = n + 1
      <3>1. n - a + 1 = 0 => a = n + 1
        BY <1>24
      <3>2. QED
        BY <2>5, <3>1, Zenon
    <2>7. QED
      BY <1>1, <1>4, <1>23, <2>2, <2>3, <2>6, Zenon DEF SameSlice
  <1>6. a > 1 => a - 2 \in 1..(n - 1) /\ chunk[a - 2] = CR /\ chunk[a - 1] = LF
    <2>1. SUFFICES ASSUME a > 1 PROVE a - 2 \in 1..(n - 1) /\ chunk[a - 2] = CR /\ chunk[a - 1] = LF
      OBVIOUS
    <2>2. a - 2 \in 1..(n - 1) /\ chunk[a - 2] = CR /\ chunk[(a - 2) + 1] = LF
      BY <1>2, <1>23, <2>1
    <2>3. (a - 2) + 1 = a - 1
      BY <1>4
    <2>4. QED
      BY <2>2, <2>3
  <1>7. s.buffer \in Seq(Byte) /\ s.lines \in Seq(Seq(Byte) \ {<<>>}) /\ TakenTo(s, t, x)
        /\ s \in [buffer : Seq(Byte), lines : Seq(Seq(Byte) \ {<<>>})]
    <2>1. s \in [buffer : Seq(Byte), lines : Seq(Seq(Byte) \ {<<>>})]
      BY DEF Fits, TakenTo
    <2>2. QED
      BY <2>1 DEF Fits
  <1>8. ~(i = 1 /\ IsPrefix(CRLF, chunk))
    <2>1. SUFFICES ASSUME i = 1, IsPrefix(CRLF, chunk) PROVE FALSE
      OBVIOUS
    <2>2. 1 \in seps /\ a = 1
      BY <1>1, <2>1, PrefixIsCRLF DEF seps
    <2>3. QED
      BY <1>1, <1>23, <2>2
  <1>9. piece = <<>> \/ ~IsSuffix(CRLF, chunk)
    <2>1. SUFFICES ASSUME piece # <<>>, IsSuffix(CRLF, chunk) PROVE FALSE
      OBVIOUS
    <2>2. n - 1 \in seps
      BY <1>1, <2>1, SuffixIsCRLF DEF seps
    <2>3. n - 1 \in 1..(n - 1) /\ chunk[n - 1] = CR
      BY <1>2, <2>2
    <2>8. n - 1 < a
      <3>1. n - 1 \in Nat /\ ~(a <= n - 1 /\ n - 1 <= n)
        <4>1. n - 1 \in Nat
          BY <1>24
        <4>2. QED
          BY <1>23, <2>2, <4>1
      <3>2. QED
        BY <1>24, <3>1
    <2>4. a <= n
      <3>1. a # n + 1
        <4>1. SUFFICES ASSUME a = n + 1 PROVE FALSE
          OBVIOUS
        <4>2. piece \in Seq(Byte) /\ Len(piece) = 0
          <5>1. a \in 1..(n + 1) /\ n \in (a - 1)..n
            BY <1>1, <1>4
          <5>2. Len(SubSeq(chunk, a, n)) = n - a + 1
            BY <1>1, <5>1, Slice
          <5>3. n - a + 1 = 0
            BY <1>1, <4>1
          <5>4. QED
            BY <1>5, <1>23, <5>2, <5>3
        <4>3. piece = <<>>
          BY <4>2
        <4>4. QED
          BY <2>1, <4>3
      <3>2. QED
        BY <1>1, <1>4, <3>1
    <2>5. a = n /\ a > 1
      BY <1>1, <1>4, <2>3, <2>4, <2>8, SMTT(30)
    <2>6. chunk[n - 1] = LF
      BY <1>6, <2>5
    <2>7. QED
      BY <1>3, <2>3, <2>6
  <1>10. Waits(chunk, pieces, i)
    BY <1>8, <1>9 DEF Waits, piece
  <1>11. Take(chunk, pieces, s, i) = r
    BY <1>10, Zenon DEF Take, r, joined, piece
  <1>12. TakenTo(r, t, c)
    <2>1. TakenTo([s EXCEPT !.buffer = s.buffer \o SubSeq(t, x + 1, c)], t, c)
      BY <1>1, <1>4, <1>7, TakeRest, Zenon
    <2>2. QED
      BY <1>5, <1>23, <2>1, Zenon
  <1>13. r.lines = s.lines /\ r.buffer = joined
    BY <1>7, <1>23
  <1>14. joined = <<>> => t[c] = LF
    <2>1. SUFFICES ASSUME joined = <<>> PROVE t[c] = LF
      OBVIOUS
    <2>2. piece = <<>>
      <3> DEFINE B == s.buffer
      <3>1. B \in Seq(Byte) /\ piece \in Seq(Byte) /\ B \o piece = <<>>
        BY <1>5, <1>7, <1>23, <2>1
      <3> HIDE DEF B
      <3>2. Len(B \o piece) = Len(B) + Len(piece) /\ Len(B) \in Nat /\ Len(piece) \in Nat /\ Len(B \o piece) = 0
        BY <3>1
      <3>3. Len(piece) = 0
        BY <3>2
      <3>4. QED
        BY <3>1, <3>3
    <2>3. a = n + 1 /\ a > 1 /\ n \in 1..n /\ a - 1 = n
      BY <1>1, <1>5, <2>2
    <2>4. chunk[n] = LF
      BY <1>6, <2>3
    <2>5. QED
      BY <1>1, <1>23, <2>3, <2>4
  <1>15. ASSUME clean, chunk[n] # CR
         PROVE  r.lines \in Seq(Seq(Nat)) /\ r.buffer \in Seq(Nat) /\ t[c] # CR
    <2> DEFINE A == Seq(Nat)
               B == s.buffer
    <2>1. s.lines \in Seq(A) /\ B \in A /\ (x = 0 \/ t[x] # CR)
      BY <1>15 DEF Fits
    <2>2. piece \in A
      <3>1. a \in 1..(n + 1) /\ n \in (a - 1)..n
        BY <1>1, <1>4
      <3>3. a = 1 => m = 0 \/ t[m] # CR
        <4>1. a = 1 => x = m
          BY <1>1
        <4>2. QED
          BY <2>1, <4>1
      <3>4. a > 1 => chunk[a - 1] # CR
        BY <1>3, <1>6
      <3>5. QED
        BY <1>15, <1>23, <3>1, <3>3, <3>4, PieceIsText
    <2>3. \A u, v \in A : u \o v \in A
      OBVIOUS
    <2> HIDE DEF A, B
    <2>4. B \o piece \in A
      BY <2>1, <2>2, <2>3
    <2>5. t[c] = chunk[n]
      <3>1. n \in 1..n /\ c = m + n
        BY <1>23, <1>24
      <3>2. QED
        BY <1>1, <3>1
    <2>6. QED
      BY <1>13, <1>15, <1>23, <2>1, <2>4, <2>5, Zenon DEF A, B
  <1>16. Fits(r, t, c, clean /\ chunk[n] # CR)
    BY <1>12, <1>13, <1>14, <1>15 DEF Fits
  <1>17. QED
    BY <1>11, <1>16, <1>23, Zenon

-----------------------------------------------------------------------------
(* The loop                                                                *)

\* The bytes before the first separator, between two, and behind the last.
CutsCRLF(p, chunk, n, b) ==
    LET N == Len(p)
        seps == Separators(chunk, CRLF)
    IN /\ N \in Nat \ {0} /\ p = [k \in 1..N |-> p[k]]
       /\ b[1] = 1
       /\ \A k \in 1..N : b[k] \in 1..(n + 1) /\ (k > 1 => b[k] - 2 \in seps)
       /\ \A k \in 1..(N - 1) :
             /\ b[k] + 2 <= b[k + 1] /\ p[k] = SubSeq(chunk, b[k], b[k + 1] - 2 - 1)
             /\ NoEnd(chunk, b[k], b[k + 1] - 2 - 1)
       /\ p[N] = SubSeq(chunk, b[N], n) /\ NoEnd(chunk, b[N], n)

LEMMA SplitAtCRLF ==
    ASSUME NEW chunk \in Seq(Byte), NEW n, n = Len(chunk)
    PROVE  \E b : CutsCRLF(Split(chunk, CRLF), chunk, n, b)
  <1> DEFINE p == Split(chunk, CRLF)
             N == Len(p)
             seps == Separators(chunk, CRLF)
  <1>1. CRLF \in Seq(Byte) /\ Len(CRLF) = 2 /\ n \in Nat
    BY EndBytes
  <1>2. PICK b : Cuts(p, chunk, CRLF, b)
    <2>1. \A i, j \in seps : i < j => i + Len(CRLF) <= j
      BY CRLFSeparators
    <2>2. Len(CRLF) >= 1
      BY <1>1
    <2>3. QED
      BY <1>1, <2>1, <2>2, SplitCuts
  <1>3. /\ N \in Nat \ {0} /\ p = [k \in 1..N |-> p[k]]
        /\ b[1] = 1
        /\ \A k \in 1..N : b[k] \in 1..(n + 1)
        /\ \A k \in 1..(N - 1) :
              /\ b[k] + 2 <= b[k + 1]
              /\ b[k + 1] - 2 \in seps
              /\ p[k] = SubSeq(chunk, b[k], b[k + 1] - 2 - 1)
              /\ \A j \in seps : ~ (b[k] <= j /\ j < b[k + 1] - 2)
        /\ p[N] = SubSeq(chunk, b[N], n)
        /\ \A j \in seps : j < b[N]
    BY <1>1, <1>2 DEF Cuts
  <1> HIDE DEF p
  <1>4. \A j \in seps : j \in Nat
    <2>1. \A j : j \in seps <=> j \in 1..(Len(chunk) - 1) /\ chunk[j] = CR /\ chunk[j + 1] = LF
      BY CRLFSeparators
    <2>2. QED
      BY <1>1, <2>1
  <1>5. \A k \in 1..N : k > 1 => b[k] - 2 \in seps
    <2>1. ASSUME NEW k \in 1..N, k > 1 PROVE b[k] - 2 \in seps
      <3>1. k - 1 \in 1..(N - 1) /\ (k - 1) + 1 = k
        BY <1>3, <2>1
      <3>2. QED
        BY <1>3, <3>1
    <2>2. QED
      BY <2>1
  <1>6. \A k \in 1..(N - 1) : NoEnd(chunk, b[k], b[k + 1] - 2 - 1)
    <2>1. ASSUME NEW k \in 1..(N - 1) PROVE NoEnd(chunk, b[k], b[k + 1] - 2 - 1)
      <3>1. k \in 1..N /\ k + 1 \in 1..N
        BY <1>3, <2>1
      <3>2. b[k] \in Nat /\ b[k + 1] \in Nat
        BY <1>1, <1>3, <3>1
      <3>3. \A j \in seps : ~ (b[k] <= j /\ j < b[k + 1] - 2)
        BY <1>3, <2>1
      <3>4. \A j \in seps : ~ (b[k] <= j /\ j <= b[k + 1] - 2 - 1)
        BY <1>4, <3>2, <3>3
      <3>5. QED
        BY <3>4 DEF NoEnd
    <2>2. QED
      BY <2>1
  <1>7. NoEnd(chunk, b[N], n)
    <2>1. b[N] \in Nat
      BY <1>1, <1>3
    <2>2. \A j \in seps : ~ (b[N] <= j /\ j <= n)
      BY <1>3, <1>4, <2>1
    <2>3. QED
      BY <2>2 DEF NoEnd
  <1>8. CutsCRLF(p, chunk, n, b)
    BY <1>3, <1>5, <1>6, <1>7 DEF CutsCRLF
  <1>9. QED
    BY <1>8 DEF p

\* A chunk leaves the loop as the chunks before it left it.
LEMMA ReceivedFits ==
    ASSUME NEW chunk, NEW t, NEW m, NEW n, ChunkAt(chunk, t, m, n), NEW clean \in BOOLEAN,
           Fits([buffer |-> buffer, lines |-> lines], t, m, clean)
    PROVE  FitsAfter(Received(chunk), t, m, n, chunk, clean)
  <1> DEFINE p == Split(chunk, CRLF)
             N == Len(p)
             seps == Separators(chunk, CRLF)
             base == [buffer |-> buffer, lines |-> lines]
  <1>1. m \in Nat /\ n \in Nat /\ n >= 1 /\ chunk \in Seq(Byte) /\ Len(chunk) = n
    BY ChunkBytes
  <1>2. PICK b : CutsCRLF(p, chunk, n, b)
    BY <1>1, SplitAtCRLF
  <1>3. /\ N \in Nat \ {0} /\ p = [k \in 1..N |-> p[k]]
        /\ b[1] = 1
        /\ \A k \in 1..N : b[k] \in 1..(n + 1) /\ (k > 1 => b[k] - 2 \in seps)
        /\ \A k \in 1..(N - 1) :
              /\ b[k] + 2 <= b[k + 1] /\ p[k] = SubSeq(chunk, b[k], b[k + 1] - 2 - 1)
              /\ NoEnd(chunk, b[k], b[k + 1] - 2 - 1)
        /\ p[N] = SubSeq(chunk, b[N], n) /\ NoEnd(chunk, b[N], n)
    BY <1>2 DEF CutsCRLF
  <1>4. p \in Seq(Seq(Byte))
    <2>1. ASSUME NEW k \in 1..N PROVE p[k] \in Seq(Byte)
      <3>1. CASE k = N
        <4>1. b[N] \in 1..(Len(chunk) + 1) /\ n \in (b[N] - 1)..Len(chunk)
          BY <1>1, <1>3
        <4>2. SubSeq(chunk, b[N], n) \in Seq(Byte)
          BY <1>1, <4>1, Slice
        <4>3. QED
          BY <1>3, <3>1, <4>2
      <3>2. CASE k # N
        <4> DEFINE c == b[k + 1] - 2 - 1
        <4>1. k \in 1..(N - 1) /\ k + 1 \in 1..N
          BY <1>3, <3>2
        <4>2. b[k] \in 1..(n + 1) /\ b[k + 1] \in 1..(n + 1) /\ b[k] + 2 <= b[k + 1] /\ p[k] = SubSeq(chunk, b[k], c)
          BY <1>3, <4>1
        <4>3. b[k] \in 1..(Len(chunk) + 1) /\ c \in (b[k] - 1)..Len(chunk)
          BY <1>1, <4>2, SMTT(30)
        <4> HIDE DEF c, p
        <4>4. SubSeq(chunk, b[k], c) \in Seq(Byte)
          BY <1>1, <4>3, Slice
        <4>5. QED
          BY <4>2, <4>4
      <3>3. QED
        BY <3>1, <3>2
    <2> HIDE DEF p
    <2> DEFINE W == Seq(Byte)
    <2>2. \A k \in 1..N : p[k] \in W
      BY <2>1
    <2> HIDE DEF W
    <2>3. p \in Seq(W)
      BY <1>3, <2>2
    <2>4. QED
      BY <2>3 DEF W
  <1>5. base \in Receiving
    <2>1. base \in [buffer : Seq(Byte), lines : Seq(Seq(Byte) \ {<<>>})]
      BY DEF Fits, TakenTo
    <2>2. Seq(Seq(Byte) \ {<<>>}) \subseteq Seq(Seq(Byte))
      <3> DEFINE W == Seq(Byte)
                 Z == W \ {<<>>}
      <3>1. Z \subseteq W
        OBVIOUS
      <3> HIDE DEF W, Z
      <3>2. Seq(Z) \subseteq Seq(W)
        BY <3>1, SmallerSeq
      <3>3. QED
        BY <3>2 DEF W, Z
    <2>3. QED
      BY <2>1, <2>2 DEF Receiving
  <1>6. PICK g : ReceivedAlong(g, chunk, p)
    BY <1>4, <1>5, ReceivedSteps
  <1>7. g[0] = base /\ Received(chunk) = g[N] /\ \A i \in 1..N : g[i] = Take(chunk, p, g[i - 1], i)
    BY <1>6 DEF ReceivedAlong
  <1>8. \A j : j \in seps <=> j \in 1..(n - 1) /\ chunk[j] = CR /\ chunk[j + 1] = LF
    BY <1>1, CRLFSeparators
  <1> HIDE DEF p, N, base
  <1>9. ASSUME NEW k \in 1..N
        PROVE  /\ b[k] \in 1..(n + 1) /\ b[k] \in Nat /\ b[k] >= 1 /\ (k = 1 <=> b[k] = 1)
               /\ b[k] > 1 => b[k] - 2 \in seps /\ chunk[b[k] - 1] = LF
    <2>1. b[k] \in 1..(n + 1) /\ (k > 1 => b[k] - 2 \in seps)
      BY <1>3
    <2>2. b[k] \in Nat /\ b[k] >= 1 /\ k \in Nat /\ k >= 1
      BY <1>1, <1>3, <2>1
    <2>3. CASE k = 1
      BY <1>3, <2>1, <2>2, <2>3
    <2>4. CASE k > 1
      <3>1. b[k] - 2 \in 1..(n - 1) /\ chunk[(b[k] - 2) + 1] = LF
        BY <1>8, <2>1, <2>4
      <3>2. (b[k] - 2) + 1 = b[k] - 1 /\ b[k] > 1
        BY <1>1, <2>2, <3>1
      <3>3. QED
        BY <2>1, <2>2, <2>4, <3>1, <3>2
    <2>5. QED
      BY <2>2, <2>3, <2>4
  <1> DEFINE Good(k) == Ready(g[k - 1], t, m, b[k], clean)
             Q == {k \in Nat : k + 1 <= N => Good(k + 1)}
  <1>10. Good(1)
    <2>1. m + 1 - 1 = m /\ ~(1 > 1)
      BY <1>1
    <2>2. Fits(base, t, m, clean)
      BY DEF base
    <2>3. Ready(base, t, m, 1, clean)
      BY <2>1, <2>2 DEF Ready
    <2>4. QED
      BY <1>3, <1>7, <2>3
  <1>11. ASSUME NEW k \in 1..(N - 1), Good(k) PROVE Good(k + 1)
    <2> DEFINE a == b[k]
               next == b[k + 1]
               s == g[k - 1]
               i == k
    <2>1. k \in 1..N /\ k + 1 \in 1..N /\ k \in Nat /\ k # N /\ (k + 1) - 1 = k /\ k + 1 > 1
      BY <1>3
    <2>2. a \in 1..(n + 1) /\ (k = 1 <=> a = 1) /\ (a > 1 => chunk[a - 1] = LF) /\ a \in Nat
      BY <1>9, <2>1
    <2>3. /\ next - 2 \in seps /\ next \in Nat /\ a <= next - 2
          /\ p[k] = SubSeq(chunk, a, next - 2 - 1) /\ NoEnd(chunk, a, next - 2 - 1)
      <3>1. b[k + 1] \in Nat /\ b[k + 1] - 2 \in seps /\ a + 2 <= b[k + 1]
        BY <1>3, <1>9, <2>1
      <3>2. a <= b[k + 1] - 2
        BY <2>2, <3>1
      <3>3. QED
        BY <1>3, <3>1, <3>2
    <2>4. Ready(s, t, m, a, clean)
      BY <1>11
    <2>5. g[k] = Take(chunk, p, s, k)
      BY <1>7, <2>1
    <2> HIDE DEF a, next, s
    <2>6. EndedPiece(p, k, chunk, n, a, next)
      BY <2>1, <2>2, <2>3 DEF EndedPiece, N
    <2> HIDE DEF i
    <2>7. EndedPiece(p, i, chunk, n, a, next)
      BY <2>6 DEF i
    <2>8. Ready(Take(chunk, p, s, i), t, m, next, clean)
      BY <2>4, <2>7, TakesLine, Zenon
    <2>9. QED
      BY <2>1, <2>5, <2>8 DEF i, next
  <1>12. Good(N)
    <2> HIDE DEF Good
    <2>1. 0 \in Q
      BY <1>10
    <2>2. ASSUME NEW k \in Q PROVE k + 1 \in Q
      <3>1. SUFFICES ASSUME (k + 1) + 1 <= N PROVE Good((k + 1) + 1)
        OBVIOUS
      <3>2. k + 1 \in 1..(N - 1) /\ Good(k + 1)
        BY <1>3, <2>2, <3>1
      <3>3. QED
        BY <1>11, <3>2
    <2>3. Q = Nat
      <3>1. Q \subseteq Nat
        OBVIOUS
      <3> HIDE DEF Q
      <3>2. QED
        BY <2>1, <2>2, <3>1, SetInduction
    <2>4. N - 1 \in Nat /\ (N - 1) + 1 = N
      BY <1>3
    <2>5. QED
      BY <2>3, <2>4
  <1>13. FitsAfter(g[N], t, m, n, chunk, clean)
    <2> DEFINE a == b[N]
               s == g[N - 1]
    <2>1. N \in 1..N
      BY <1>3
    <2>2. a \in 1..(n + 1) /\ (N = 1 <=> a = 1) /\ (a > 1 => a - 2 \in seps)
      BY <1>9, <2>1
    <2>3. p[N] = SubSeq(chunk, a, n) /\ NoEnd(chunk, a, n)
      BY <1>3
    <2>4. Ready(s, t, m, a, clean)
      BY <1>12
    <2>5. g[N] = Take(chunk, p, s, N)
      BY <1>7, <2>1
    <2> HIDE DEF a, s
    <2>6. LastPiece(p, N, chunk, n, a)
      BY <2>2, <2>3 DEF LastPiece, N
    <2>7. FitsAfter(Take(chunk, p, s, N), t, m, n, chunk, clean)
      BY <2>4, <2>6, TakesRest, Zenon
    <2>8. QED
      BY <2>5, <2>7
  <1>14. QED
    BY <1>7, <1>13

-----------------------------------------------------------------------------
(* Module Lines                                                            *)

\* What is written later does not change what has been received.
LEMMA FitsGrows ==
    ASSUME NEW t \in Seq(Byte), NEW u \in Seq(Byte), NEW x \in 0..Len(t), NEW s, NEW clean,
           Fits(s, t, x, clean)
    PROVE  Fits(s, t \o u, x, clean)
  <1>1. SubSeq(t \o u, 1, x) = SubSeq(t, 1, x)
    BY PrefixOfWhole
  <1>2. x # 0 => (t \o u)[x] = t[x]
    <2>1. IsConcat(t \o u, t, u, Byte)
      BY ConcatIs
    <2>2. \A i \in 1..Len(t) : (t \o u)[i] = t[i]
      BY <2>1 DEF IsConcat
    <2>3. x # 0 => x \in 1..Len(t)
      OBVIOUS
    <2>4. QED
      BY <2>2, <2>3
  <1> DEFINE v == t \o u
  <1> HIDE DEF v
  <1>3. SubSeq(v, 1, x) = SubSeq(t, 1, x) /\ (x # 0 => v[x] = t[x])
    BY <1>1, <1>2 DEF v
  <1>4. Fits(s, v, x, clean)
    BY <1>3 DEF Fits, TakenTo
  <1>5. QED
    BY <1>4 DEF v

LEMMA FitsRecord ==
    ASSUME NEW t, NEW x, NEW s, NEW clean, Fits(s, t, x, clean)
    PROVE  Fits([buffer |-> s.buffer, lines |-> s.lines], t, x, clean)
  <1>1. s \in [buffer : Seq(Byte), lines : Seq(Seq(Byte) \ {<<>>})]
    BY DEF Fits, TakenTo
  <1> DEFINE r == [buffer |-> s.buffer, lines |-> s.lines]
  <1>2. s = r
    BY <1>1
  <1> HIDE DEF r
  <1>3. Fits(r, t, x, clean)
    BY <1>2
  <1>4. QED
    BY <1>3 DEF r

\* What was processed and what waits fits what was received, all along.
LinesIInv ==
    /\ written \in Seq(Seq(Nat) \ {<<>>})
    /\ taken \in 0..Len(Stream(written))
    /\ cut \in BOOLEAN
    /\ Shaped(Stream(written))
    /\ Fits([buffer |-> buffer, lines |-> lines], Stream(written), taken, ~cut)

LEMMA LinesInit == Init => LinesIInv
  <1> SUFFICES ASSUME Init PROVE LinesIInv
    OBVIOUS
  <1>1. written = <<>> /\ taken = 0 /\ buffer = <<>> /\ lines = <<>> /\ cut = FALSE
    BY DEF Init
  <1>2. Joined(<<>>, CRLF) = <<>>
    BY JoinedEmpty
  <1>3. Stream(written) = <<>>
    BY <1>1, <1>2 DEF Stream, Joined
  <1> DEFINE W == Seq(Byte) \ {<<>>}
             A == Seq(Nat)
             r == [buffer |-> buffer, lines |-> lines]
  <1>4. <<>> \in Seq(Byte) /\ <<>> \in A /\ <<>> \in Seq(W) /\ <<>> \in Seq(A) /\ <<>> \in Seq(A \ {<<>>})
        /\ Len(<<>>) = 0
    <2> HIDE DEF W
    <2>1. <<>> \in Seq(Byte) /\ <<>> \in A
      OBVIOUS
    <2> HIDE DEF A
    <2>2. QED
      BY <2>1
  <1>5. Shaped(<<>>)
    BY <1>4 DEF Shaped
  <1>6. <<>> \o <<>> = SubSeq(<<>>, 1, 0)
    <2>1. <<>> \in Seq(Byte)
      OBVIOUS
    <2>2. <<>> \o <<>> = <<>>
      OBVIOUS
    <2>3. SubSeq(<<>>, 1, 0) = <<>>
      OBVIOUS
    <2>4. QED
      BY <2>2, <2>3
  <1>7. r.buffer = <<>> /\ r.lines = <<>> /\ r \in [buffer : Seq(Byte), lines : Seq(W)]
    BY <1>1, <1>4
  <1> HIDE DEF r, A
  <1>8. Fits(r, <<>>, 0, ~cut)
    BY <1>2, <1>4, <1>6, <1>7 DEF Fits, TakenTo, A
  <1>9. written \in Seq(Seq(Nat) \ {<<>>})
    BY <1>1, <1>4, Zenon DEF A
  <1>10. taken \in 0..Len(Stream(written))
    BY <1>1, <1>3, <1>4
  <1>11. cut \in BOOLEAN
    BY <1>1
  <1>12. Shaped(Stream(written))
    BY <1>3, <1>5, Zenon
  <1>13. Fits(r, Stream(written), taken, ~cut)
    BY <1>1, <1>3, <1>8, Zenon
  <1>14. QED
    BY <1>9, <1>10, <1>11, <1>12, <1>13, Zenon DEF LinesIInv, r

LEMMA LinesTorWrites == LinesIInv /\ TorWrites => LinesIInv'
  <1> SUFFICES ASSUME LinesIInv, TorWrites PROVE LinesIInv'
    OBVIOUS
  <1>1. PICK length \in 1..MaxLength : written' = Append(written, Line(Len(written) + 1, length))
    BY DEF TorWrites
  <1>2. taken' = taken /\ buffer' = buffer /\ lines' = lines /\ cut' = cut
    BY DEF TorWrites
  <1> DEFINE A == Seq(Nat)
             Z == A \ {<<>>}
             x == Line(Len(written) + 1, length)
             t == Stream(written)
             u == x \o CRLF
             W == Seq(Byte)
  <1>3. /\ written \in Seq(Z) /\ taken \in 0..Len(t) /\ cut \in BOOLEAN /\ Shaped(t)
        /\ Fits([buffer |-> buffer, lines |-> lines], t, taken, ~cut)
    BY DEF LinesIInv
  <1>4. x \in A /\ x # <<>>
    <2> DEFINE k == Len(written) + 1
    <2>1. k \in Nat
      <3> HIDE DEF Z
      <3>1. QED
        BY <1>3
    <2>2. length \in Nat /\ length >= 1
      BY LinesAssumption
    <2> HIDE DEF k
    <2>3. [i \in 1..length |-> k] \in A /\ Len([i \in 1..length |-> k]) = length
      BY <2>1, <2>2
    <2>4. [i \in 1..length |-> k] # <<>>
      BY <2>2, <2>3
    <2>5. QED
      BY <2>3, <2>4 DEF Line, k
  <1>5. t \in W /\ CRLF \in W /\ Strings(W) /\ x \in W /\ u \in W
    <2>1. t \in W
      BY <1>3 DEF Shaped
    <2>2. CRLF \in W /\ Strings(W)
      BY EndBytes, SeqStrings
    <2>3. A \subseteq W
      BY EndBytes, SmallerSeq
    <2> HIDE DEF x, A, W
    <2>4. QED
      BY <1>4, <2>1, <2>2, <2>3 DEF Strings
  <1>6. written \in Seq(W)
    <2>1. Z \subseteq W
      <3>1. A \subseteq W
        BY EndBytes, SmallerSeq
      <3>2. QED
        BY <3>1
    <2> HIDE DEF Z, W
    <2>2. Seq(Z) \subseteq Seq(W)
      BY <2>1, SmallerSeq
    <2>3. QED
      BY <1>3, <2>2
  <1>7. Stream(written)' = t \o u
    <2> DEFINE C == CRLF
               s == written
    <2>0. s \in Seq(Seq(Byte)) /\ x \in Seq(Byte)
      BY <1>5, <1>6
    <2> HIDE DEF W, x, C, s
    <2>1. Joined(Append(s, x), C) = Joined(s, C) \o (x \o C)
      BY <2>0, EndBytes, JoinedMore DEF C
    <2>2. Stream(written)' = Joined(Append(s, x), C)
      BY <1>1, Zenon DEF Stream, Joined, C, s, x
    <2>3. t = Joined(s, C)
      BY DEF Stream, Joined, C, s
    <2>4. QED
      BY <2>1, <2>2, <2>3 DEF C
  <1>8. Shaped(t \o u)
    <2> HIDE DEF x, t
    <2>1. QED
      BY <1>3, <1>4, ShapedGrows
  <1>9. Fits([buffer |-> buffer, lines |-> lines], t \o u, taken, ~cut)
    <2> HIDE DEF u, t, W
    <2>1. QED
      BY <1>3, <1>5, FitsGrows DEF W
  <1>10. taken \in 0..Len(t \o u)
    <2>1. IsConcat(t \o u, t, u, Byte)
      BY <1>5, ConcatIs
    <2> HIDE DEF t, u
    <2>2. Len(t \o u) = Len(t) + Len(u) /\ Len(t) \in Nat /\ Len(u) \in Nat
      BY <1>5, <2>1 DEF IsConcat
    <2>3. QED
      BY <1>3, <2>2
  <1>11. written' \in Seq(Z)
    <2>1. x \in Z
      BY <1>4
    <2> HIDE DEF Z, x
    <2>2. Append(written, x) \in Seq(Z)
      BY <1>3, <2>1
    <2>3. QED
      BY <1>1, <2>2 DEF x
  <1> DEFINE v == t \o u
  <1> HIDE DEF v
  <1>12. Stream(written)' = v /\ Shaped(v) /\ taken \in 0..Len(v)
         /\ Fits([buffer |-> buffer, lines |-> lines], v, taken, ~cut)
    BY <1>7, <1>8, <1>9, <1>10 DEF v
  <1>13. QED
    BY <1>2, <1>3, <1>11, <1>12 DEF LinesIInv

LEMMA LinesReceiveLines == LinesIInv /\ ReceiveLines => LinesIInv'
  <1> SUFFICES ASSUME LinesIInv, ReceiveLines PROVE LinesIInv'
    OBVIOUS
  <1> DEFINE t == Stream(written)
             m == taken
             Z == Seq(Nat) \ {<<>>}
  <1>1. /\ written \in Seq(Z) /\ m \in 0..Len(t) /\ cut \in BOOLEAN /\ Shaped(t)
        /\ Fits([buffer |-> buffer, lines |-> lines], t, m, ~cut)
    BY DEF LinesIInv
  <1>2. PICK n \in 1..Min({ChunkSize, Len(t) - m}) :
            LET chunk == SubSeq(t, m + 1, m + n)
            IN /\ taken' = m + n
               /\ buffer' = Received(chunk).buffer
               /\ lines' = Received(chunk).lines
               /\ cut' = (cut \/ Last(chunk) = CR)
               /\ UNCHANGED written
    BY DEF ReceiveLines
  <1> DEFINE chunk == SubSeq(t, m + 1, m + n)
             r == Received(chunk)
  <1>3. taken' = m + n /\ buffer' = r.buffer /\ lines' = r.lines /\ cut' = (cut \/ Last(chunk) = CR) /\ written' = written
    BY <1>2
  <1>4. n \in Nat \ {0} /\ m \in Nat /\ m + n <= Len(t) /\ Len(t) \in Nat
    <2>1. Len(t) \in Nat
      BY <1>1 DEF Shaped
    <2> DEFINE k == Len(t) - m
               Q == {ChunkSize, k}
    <2>2. k \in Nat /\ m \in Nat /\ ChunkSize \in Nat
      BY <1>1, <2>1, LinesAssumption
    <2> HIDE DEF k
    <2>3. Q \subseteq Nat /\ Q # {} /\ k \in Q
      BY <2>2
    <2>4. Min(Q) \in Nat /\ Min(Q) <= k
      BY <2>3, LeastOf
    <2>5. n \in Nat /\ n >= 1 /\ n <= k
      BY <1>2, <2>2, <2>4 DEF k
    <2>6. QED
      BY <2>1, <2>2, <2>5 DEF k
  <1>5. ChunkAt(chunk, t, m, n)
    BY <1>1, <1>4 DEF ChunkAt
  <1> HIDE DEF chunk, r, t, Z
  <1>6. FitsAfter(r, t, m, n, chunk, ~cut)
    <2> DEFINE still == ~cut
    <2>1. still \in BOOLEAN
      BY <1>1
    <2> HIDE DEF still
    <2>2. Fits([buffer |-> buffer, lines |-> lines], t, m, still)
      BY <1>1 DEF still
    <2>3. FitsAfter(r, t, m, n, chunk, still)
      BY <1>1, <1>5, <2>1, <2>2, ReceivedFits, Zenon DEF r
    <2>4. QED
      BY <2>3 DEF still
  <1>7. ~cut' <=> ~cut /\ chunk[n] # CR
    <2>1. Len(chunk) = n
      BY <1>5, ChunkBytes
    <2>2. QED
      BY <1>3, <2>1 DEF Last
  <1> DEFINE y == m + n
             clean == ~cut /\ chunk[n] # CR
  <1>8. y \in 0..Len(t)
    BY <1>4
  <1>9. Fits(r, t, y, clean)
    BY <1>6, Zenon DEF FitsAfter
  <1> HIDE DEF y, clean
  <1>10. Fits([buffer |-> r.buffer, lines |-> r.lines], t, y, clean)
    BY <1>9, FitsRecord
  <1>11. taken' = y /\ (~cut') = clean /\ cut' \in BOOLEAN
    BY <1>1, <1>3, <1>7 DEF y, clean
  <1>12. Stream(written)' = t
    BY <1>3, Zenon DEF Stream, t
  <1>13. Fits([buffer |-> buffer, lines |-> lines]', t, y, (~cut)')
    BY <1>3, <1>10, <1>11
  <1>14. QED
    BY <1>1, <1>3, <1>8, <1>11, <1>12, <1>13 DEF LinesIInv, Z

LEMMA LinesInvariant == Spec => []LinesIInv
  <1>1. Init => LinesIInv
    BY LinesInit
  <1>2. LinesIInv /\ [Next]_vars => LinesIInv'
    <2>1. ASSUME LinesIInv, UNCHANGED vars PROVE LinesIInv'
      <3>1. written' = written /\ taken' = taken /\ buffer' = buffer /\ lines' = lines /\ cut' = cut
        BY <2>1 DEF vars
      <3>2. QED
        BY <2>1, <3>1 DEF LinesIInv, Stream
    <2>2. QED
      BY <2>1, LinesTorWrites, LinesReceiveLines DEF Next
  <1>3. QED
    BY <1>1, <1>2, PTL DEF Spec

\* However the text of Tor is cut into chunks, what receiveLines has processed
\* and what waits in its buffer is what was received.
THEOREM NothingIsLost == Spec => []NothingLost
  <1>1. LinesIInv => NothingLost
    <2> SUFFICES ASSUME LinesIInv PROVE NothingLost
      OBVIOUS
    <2> DEFINE r == [buffer |-> buffer, lines |-> lines]
    <2>1. Fits(r, Stream(written), taken, ~cut)
      BY DEF LinesIInv
    <2>2. r.lines = lines /\ r.buffer = buffer
      OBVIOUS
    <2> HIDE DEF r
    <2>3. Joined(r.lines, CRLF) \o r.buffer = SubSeq(Stream(written), 1, taken)
      BY <2>1 DEF Fits, TakenTo
    <2>4. Stream(lines) \o buffer = SubSeq(Stream(written), 1, taken)
      BY <2>2, <2>3, Zenon DEF Stream, Joined
    <2>5. QED
      BY <2>4 DEF NothingLost
  <1>2. QED
    BY <1>1, LinesInvariant, PTL

LEMMA LinesTypes == LinesIInv => TypeOK
  <1> SUFFICES ASSUME LinesIInv PROVE TypeOK
    OBVIOUS
  <1>1. /\ written \in Seq(Seq(Nat) \ {<<>>}) /\ taken \in 0..Len(Stream(written)) /\ cut \in BOOLEAN
        /\ Fits([buffer |-> buffer, lines |-> lines], Stream(written), taken, ~cut)
    BY DEF LinesIInv
  <1>2. written \in Seq(Seq(Byte) \ {<<>>})
    <2> DEFINE A == Seq(Nat) \ {<<>>}
               V == Seq(Byte) \ {<<>>}
    <2>1. A \subseteq V
      BY EndBytes, SmallerSeq
    <2>2. written \in Seq(A)
      BY <1>1
    <2> HIDE DEF A, V
    <2>3. written \in Seq(V)
      BY <2>1, <2>2, SmallerSeq
    <2>4. QED
      BY <2>3 DEF V
  <1>3. [buffer |-> buffer, lines |-> lines] \in [buffer : Seq(Byte), lines : Seq(Seq(Byte) \ {<<>>})]
    BY <1>1 DEF Fits, TakenTo
  <1>4. buffer \in Seq(Byte) /\ lines \in Seq(Seq(Byte) \ {<<>>})
    BY <1>3
  <1>5. QED
    BY <1>1, <1>2, <1>4 DEF TypeOK

\* receiveLines keeps its buffer and its lines of the right type, and gives no
\* empty line to processLine.
THEOREM LinesTypeCorrect == Spec => []TypeOK
  BY LinesInvariant, LinesTypes, PTL

LEMMA LinesWhole == LinesIInv => WholeUnlessCut
  <1> SUFFICES ASSUME LinesIInv, ~cut PROVE LinesAreWhole
    BY DEF WholeUnlessCut
  <1> DEFINE r == [buffer |-> buffer, lines |-> lines]
             t == Stream(written)
             ws == written
             k == Len(lines)
  <1>1. ws \in Seq(Seq(Nat) \ {<<>>}) /\ taken \in 0..Len(t) /\ t \in Seq(Byte) /\ Fits(r, t, taken, ~cut)
    BY DEF LinesIInv, Shaped
  <1>2. ws \in Seq(Seq(Nat))
    <2> DEFINE A == Seq(Nat)
    <2>1. A \ {<<>>} \subseteq A /\ ws \in Seq(A \ {<<>>})
      BY <1>1
    <2> HIDE DEF A
    <2>2. ws \in Seq(A)
      BY <2>1, SmallerSeq
    <2>3. QED
      BY <2>2 DEF A
  <1>3. /\ r.lines \in Seq(Seq(Nat)) /\ r.buffer \in Seq(Nat)
        /\ Joined(r.lines, CRLF) \o r.buffer = SubSeq(t, 1, taken)
    <2> HIDE DEF r, t
    <2>1. QED
      BY <1>1 DEF Fits, TakenTo
  <1>4. lines \in Seq(Seq(Nat)) /\ buffer \in Seq(Nat) /\ Joined(lines, CRLF) \o buffer = SubSeq(t, 1, taken)
    BY <1>3
  <1>5. Ends(CRLF, Nat, Byte)
    BY EndBytes DEF Ends
  <1>6. t = Joined(ws, CRLF) \o <<>> /\ <<>> \in Seq(Nat)
    <2>1. t = Joined(ws, CRLF)
      BY Zenon DEF Stream, Joined
    <2> HIDE DEF t
    <2>2. t \o <<>> = t /\ <<>> \in Seq(Nat)
      BY <1>1
    <2>3. QED
      BY <2>1, <2>2
  <1> HIDE DEF t, ws, r
  <1>7. /\ Reads(lines, buffer, ws, <<>>)
        /\ \A n \in 1..Len(ws) : LinesLength(ws, n, CRLF) <= taken <=> n <= Len(lines)
    BY <1>1, <1>2, <1>4, <1>5, <1>6, CompleteLines
  <1>8. lines = SubSeq(ws, 1, k) /\ k \in Nat /\ k <= Len(ws)
    BY <1>4, <1>7 DEF Reads
  <1>9. DOMAIN ws = 1..Len(ws) /\ Len(ws) \in Nat
    BY <1>1
  <1> DEFINE complete == {n \in DOMAIN ws : LinesLength(ws, n, CRLF) <= taken}
  <1>10. complete = 1..k
    <2> HIDE DEF k
    <2>1. \A n \in 1..Len(ws) : n \in complete <=> n <= k
      BY <1>7, <1>9 DEF k
    <2>2. complete \subseteq 1..Len(ws)
      BY <1>9
    <2> DEFINE N == Len(ws)
    <2> HIDE DEF complete, N
    <2>3. N \in Nat /\ k \in Nat /\ k <= N /\ complete \subseteq 1..N /\ \A n \in 1..N : n \in complete <=> n <= k
      BY <1>8, <1>9, <2>1, <2>2 DEF N
    <2>4. \A n : n \in 1..k <=> n \in 1..N /\ n <= k
      BY <2>3
    <2>5. QED
      BY <2>3, <2>4
  <1> HIDE DEF complete
  <1>11. Cardinality(complete) = k
    <2> HIDE DEF k
    <2>1. k \in Int /\ 1 \in Int /\ (1 > k => k = 0) /\ k - 1 + 1 = k
      BY <1>8
    <2>2. Cardinality(1..k) = k
      BY <2>1, FS_Interval
    <2>3. QED
      BY <1>10, <2>2
  <1>12. {n \in DOMAIN written : Len(Stream(SubSeq(written, 1, n))) <= taken} = complete
    <2>1. \A n : Len(Stream(SubSeq(written, 1, n))) = LinesLength(ws, n, CRLF)
      BY Zenon DEF LinesLength, Stream, Joined, ws
    <2>2. QED
      BY <2>1 DEF complete, ws
  <1>13. QED
    BY <1>8, <1>11, <1>12 DEF LinesAreWhole, ws

\* Unless a chunk has ended between CR and LF, receiveLines gives processLine
\* the lines that Tor wrote, each of them when all of it has come.
THEOREM LinesAreWholeUnlessCut == Spec => []WholeUnlessCut
  BY LinesInvariant, LinesWhole, PTL

-----------------------------------------------------------------------------
(* A chunk of the trace file and its pieces                                *)

NewLine == <<NL>>

LEMMA NewLineSeparators ==
    ASSUME NEW V, NEW s \in Seq(V)
    PROVE  /\ \A j : j \in Separators(s, NewLine) <=> j \in 1..Len(s) /\ s[j] = NL
           /\ \A i, j \in Separators(s, NewLine) : i < j => i + Len(NewLine) <= j
  <1> DEFINE n == Len(s)
  <1>1. n \in Nat /\ Len(NewLine) = 1
    BY DEF NewLine
  <1>2. ASSUME NEW j \in 1..n PROVE SubSeq(s, j, j) = NewLine <=> s[j] = NL
    <2> DEFINE u == SubSeq(s, j, j)
    <2>1. j \in 1..(Len(s) + 1) /\ j \in (j - 1)..Len(s) /\ j - j + 1 = 1 /\ j + 1 - 1 = j /\ 1 \in 1..1
      BY <1>1
    <2>2. u \in Seq(V) /\ Len(u) = 1 /\ u[1] = s[j]
      BY <2>1, Slice
    <2> HIDE DEF u
    <2>3. u = <<u[1]>>
      BY <2>2
    <2>4. NewLine[1] = NL
      BY DEF NewLine
    <2>5. QED
      BY <2>2, <2>3, <2>4 DEF NewLine, u
  <1>3. \A j : j \in Separators(s, NewLine) <=> j \in 1..n /\ SubSeq(s, j, j) = NewLine
    <2>1. Separators(s, NewLine) = {i \in 1..(n - 1 + 1) : SubSeq(s, i, i + 1 - 1) = NewLine}
      BY <1>1 DEF Separators
    <2>2. 1..(n - 1 + 1) = 1..n /\ \A i \in 1..n : i + 1 - 1 = i
      BY <1>1
    <2>3. QED
      BY <2>1, <2>2
  <1>4. \A j : j \in Separators(s, NewLine) <=> j \in 1..n /\ s[j] = NL
    BY <1>2, <1>3
  <1>5. \A i, j \in Separators(s, NewLine) : i < j => i + 1 <= j
    <2>1. \A i \in Separators(s, NewLine) : i \in Nat
      BY <1>1, <1>4
    <2> HIDE DEF n
    <2>2. QED
      BY <2>1
  <1>6. QED
    BY <1>1, <1>4, <1>5

\* The bytes of a file whose lines are over A.
Bytes(A) == A \cup {NL}

\* The n bytes of t behind the first m.
FileChunkAt(chunk, t, m, n, A) ==
    /\ NL \notin A /\ t \in Seq(Bytes(A))
    /\ m \in Nat /\ n \in Nat \ {0} /\ m + n <= Len(t)
    /\ chunk = SubSeq(t, m + 1, m + n)

LEMMA FileChunkBytes ==
    ASSUME NEW chunk, NEW t, NEW m, NEW n, NEW A, FileChunkAt(chunk, t, m, n, A)
    PROVE  /\ NL \notin A /\ t \in Seq(Bytes(A)) /\ m \in Nat /\ n \in Nat /\ n >= 1 /\ m + n <= Len(t) /\ Len(t) \in Nat
           /\ chunk \in Seq(Bytes(A)) /\ Len(chunk) = n /\ chunk = SubSeq(t, m + 1, m + n)
           /\ \A j \in 1..n : chunk[j] = t[m + j]
  <1> DEFINE V == Bytes(A)
  <1>1. NL \notin A /\ t \in Seq(V) /\ m \in Nat /\ n \in Nat /\ n >= 1 /\ m + n <= Len(t) /\ Len(t) \in Nat
        /\ chunk = SubSeq(t, m + 1, m + n)
    BY DEF FileChunkAt
  <1> HIDE DEF V
  <1>2. m + 1 \in 1..(Len(t) + 1) /\ m + n \in ((m + 1) - 1)..Len(t)
    BY <1>1
  <1>3. /\ chunk \in Seq(V) /\ Len(chunk) = (m + n) - (m + 1) + 1
        /\ \A j \in 1..((m + n) - (m + 1) + 1) : chunk[j] = t[(m + 1) + j - 1]
    BY <1>1, <1>2, Slice
  <1>4. (m + n) - (m + 1) + 1 = n /\ \A j \in 1..n : (m + 1) + j - 1 = m + j
    BY <1>1
  <1>5. QED
    BY <1>1, <1>3, <1>4 DEF V

\* The bytes behind the first x, without the end of the line at y, or up to y.
EndedAt(piece, t, x, y, A) ==
    /\ x \in Nat /\ y \in Nat /\ x < y /\ y <= Len(t)
    /\ t[y] = NL /\ piece = SubSeq(t, x + 1, y - 1) /\ piece \in Seq(A)

RestAt(piece, t, x, y, A) ==
    /\ x \in Nat /\ y \in Nat /\ x <= y /\ y <= Len(t)
    /\ piece = SubSeq(t, x + 1, y) /\ piece \in Seq(A)

\* The k-th piece of a chunk begins behind the first b[k] bytes.
CutsText(p, t, m, n, b, A) ==
    LET N == Len(p)
    IN /\ N \in Nat \ {0} /\ p \in Seq(Seq(A)) /\ b[1] = m
       /\ \A k \in 1..N : b[k] \in Nat /\ m <= b[k] /\ (k > 1 => b[k] > m /\ t[b[k]] = NL)
       /\ \A k \in 1..(N - 1) : EndedAt(p[k], t, b[k], b[k + 1], A)
       /\ RestAt(p[N], t, b[N], m + n, A)

\* What stands between two ends of lines is over A.
LEMMA TextBetween ==
    ASSUME NEW chunk, NEW t, NEW m, NEW n, NEW A, FileChunkAt(chunk, t, m, n, A),
           NEW a \in Nat, NEW c \in Nat, 1 <= a, a <= c + 1, c <= n,
           \A j \in Separators(chunk, NewLine) : ~(a <= j /\ j <= c)
    PROVE  /\ SameSlice(chunk, a, c, t, m + a, m + c)
           /\ SubSeq(chunk, a, c) \in Seq(A)
  <1> DEFINE V == Bytes(A)
             u == SubSeq(chunk, a, c)
  <1>1. /\ t \in Seq(V) /\ m \in Nat /\ n \in Nat /\ m + n <= Len(t)
        /\ chunk \in Seq(V) /\ Len(chunk) = n /\ chunk = SubSeq(t, m + 1, m + n)
    BY FileChunkBytes
  <1>2. \A x \in V : x # NL => x \in A
    BY DEF Bytes
  <1> HIDE DEF V
  <1>3. a \in 1..(n + 1) /\ c \in (a - 1)..n
    BY <1>1
  <1>4. SubSeq(SubSeq(t, m + 1, m + n), a, c) = SubSeq(t, m + a, m + c)
    BY <1>1, <1>3, SliceOfSlice
  <1>5. /\ u \in Seq(V) /\ Len(u) = c - a + 1
        /\ \A i \in 1..(c - a + 1) : u[i] = chunk[a + i - 1]
    BY <1>1, <1>3, Slice
  <1>6. ASSUME NEW j \in a..c PROVE chunk[j] \in A
    <2>1. j \in 1..Len(chunk) /\ a <= j /\ j <= c
      BY <1>1, <1>3
    <2>2. j \notin Separators(chunk, NewLine)
      BY <2>1
    <2>3. chunk[j] # NL
      BY <1>1, <2>1, <2>2, NewLineSeparators
    <2>4. chunk[j] \in V
      BY <1>1, <2>1
    <2>5. QED
      BY <1>2, <2>3, <2>4
  <1>7. \A i \in 1..(c - a + 1) : a + i - 1 \in a..c
    BY <1>3
  <1> HIDE DEF u
  <1>8. u \in Seq(A)
    <2>1. \A i \in 1..Len(u) : u[i] \in A
      BY <1>5, <1>6, <1>7
    <2>2. QED
      BY <1>5, <2>1, NarrowerSeq
  <1>9. QED
    BY <1>1, <1>4, <1>8 DEF SameSlice, u

LEMMA SplitText ==
    ASSUME NEW chunk, NEW t, NEW m, NEW n, NEW A, FileChunkAt(chunk, t, m, n, A)
    PROVE  \E b : CutsText(Split(chunk, NewLine), t, m, n, b, A)
  <1> DEFINE V == Bytes(A)
             p == Split(chunk, NewLine)
             N == Len(p)
             seps == Separators(chunk, NewLine)
  <1>1. /\ t \in Seq(V) /\ m \in Nat /\ n \in Nat /\ n >= 1 /\ m + n <= Len(t) /\ Len(t) \in Nat
        /\ chunk \in Seq(V) /\ Len(chunk) = n /\ \A j \in 1..n : chunk[j] = t[m + j]
    BY FileChunkBytes
  <1>2. NewLine \in Seq(V) /\ Len(NewLine) = 1
    BY DEF NewLine, Bytes
  <1> HIDE DEF V
  <1>3. /\ \A j : j \in seps <=> j \in 1..n /\ chunk[j] = NL
        /\ \A i, j \in seps : i < j => i + Len(NewLine) <= j
    BY <1>1, NewLineSeparators
  <1>4. PICK c : Cuts(p, chunk, NewLine, c)
    <2>1. Len(NewLine) >= 1
      BY <1>2
    <2>2. QED
      BY <1>1, <1>2, <1>3, <2>1, SplitCuts
  <1>5. /\ N \in Nat \ {0} /\ p = [k \in 1..N |-> p[k]]
        /\ c[1] = 1
        /\ \A k \in 1..N : c[k] \in 1..(n + 1)
        /\ \A k \in 1..(N - 1) :
              /\ c[k] + 1 <= c[k + 1]
              /\ c[k + 1] - 1 \in seps
              /\ p[k] = SubSeq(chunk, c[k], c[k + 1] - 1 - 1)
              /\ \A j \in seps : ~ (c[k] <= j /\ j < c[k + 1] - 1)
        /\ p[N] = SubSeq(chunk, c[N], n)
        /\ \A j \in seps : j < c[N]
    BY <1>1, <1>2, <1>4 DEF Cuts
  <1> DEFINE b == [k \in 1..N |-> m + c[k] - 1]
  <1> HIDE DEF p, N, seps
  <1>6. \A j \in seps : j \in 1..n /\ j \in Nat /\ chunk[j] = NL
    BY <1>1, <1>3
  <1>7. \A k \in 1..N : b[k] = m + c[k] - 1 /\ c[k] \in Nat /\ c[k] >= 1 /\ c[k] <= n + 1 /\ b[k] \in Nat /\ m <= b[k]
    BY <1>1, <1>5, SMTT(30)
  <1> HIDE DEF b
  <1>8. ASSUME NEW k \in 1..(N - 1)
        PROVE  /\ EndedAt(p[k], t, b[k], b[k + 1], A)
               /\ b[k + 1] > m /\ t[b[k + 1]] = NL
    <2> DEFINE a == c[k]
               e == c[k + 1] - 1
               x == b[k]
               y == b[k + 1]
    <2>1. k \in 1..N /\ k + 1 \in 1..N
      BY <1>5
    <2>2. a \in Nat /\ a >= 1 /\ a + 1 <= e + 1 /\ e \in seps /\ p[k] = SubSeq(chunk, a, e - 1)
          /\ \A j \in seps : ~(a <= j /\ j < e)
      <3>1. a \in Nat /\ a >= 1 /\ c[k + 1] \in Nat
        BY <1>7, <2>1
      <3>2. a + 1 <= c[k + 1] /\ e \in seps /\ p[k] = SubSeq(chunk, a, c[k + 1] - 1 - 1)
            /\ \A j \in seps : ~(a <= j /\ j < e)
        BY <1>5
      <3>3. a + 1 <= e + 1
        BY <3>1, <3>2
      <3>4. QED
        BY <3>1, <3>2, <3>3
    <2>3. e \in 1..n /\ e \in Nat /\ chunk[e] = NL /\ chunk[e] = t[m + e]
      BY <1>1, <1>6, <2>2
    <2>4. x = m + a - 1 /\ y = m + (e + 1) - 1
      BY <1>7, <2>1
    <2> HIDE DEF a, e, x, y
    <2>5. x \in Nat /\ y \in Nat /\ x < y /\ y <= Len(t) /\ y = m + e /\ y > m
          /\ m + a = x + 1 /\ m + (e - 1) = y - 1
          /\ e - 1 \in Nat /\ a <= (e - 1) + 1 /\ e - 1 <= n /\ 1 <= a
      BY <1>1, <2>2, <2>3, <2>4
    <2>6. \A j \in seps : ~(a <= j /\ j <= e - 1)
      BY <1>6, <2>2, <2>3
    <2>7. SameSlice(chunk, a, e - 1, t, m + a, m + (e - 1)) /\ SubSeq(chunk, a, e - 1) \in Seq(A)
      BY <2>2, <2>5, <2>6, TextBetween DEF seps
    <2>8. p[k] = SubSeq(t, x + 1, y - 1) /\ p[k] \in Seq(A)
      BY <2>2, <2>5, <2>7 DEF SameSlice
    <2>9. t[y] = NL
      BY <2>3, <2>5
    <2>10. EndedAt(p[k], t, x, y, A) /\ y > m
      BY <2>5, <2>8, <2>9 DEF EndedAt
    <2>11. QED
      BY <2>9, <2>10 DEF x, y
  <1>9. RestAt(p[N], t, b[N], m + n, A)
    <2> DEFINE a == c[N]
               x == b[N]
    <2>1. N \in 1..N
      BY <1>5
    <2>2. a \in Nat /\ a >= 1 /\ a <= n + 1 /\ x = m + a - 1 /\ x \in Nat /\ p[N] = SubSeq(chunk, a, n)
          /\ \A j \in seps : j < a
      BY <1>5, <1>7, <2>1
    <2> HIDE DEF a, x
    <2>3. x + 1 = m + a /\ x <= m + n /\ n <= n /\ 1 <= a
      BY <1>1, <2>2
    <2>4. \A j \in seps : ~(a <= j /\ j <= n)
      BY <1>6, <2>2
    <2>5. SameSlice(chunk, a, n, t, m + a, m + n) /\ SubSeq(chunk, a, n) \in Seq(A)
      BY <1>1, <2>2, <2>3, <2>4, TextBetween DEF seps
    <2>6. p[N] = SubSeq(t, x + 1, m + n) /\ p[N] \in Seq(A)
      BY <2>2, <2>3, <2>5 DEF SameSlice
    <2>7. RestAt(p[N], t, x, m + n, A)
      BY <1>1, <2>2, <2>3, <2>6 DEF RestAt
    <2>8. QED
      BY <2>7 DEF x
  <1>10. p \in Seq(Seq(A))
    <2> DEFINE W == Seq(A)
    <2>1. ASSUME NEW k \in 1..N PROVE p[k] \in W
      <3>1. CASE k = N
        BY <1>9, <3>1 DEF RestAt
      <3>2. CASE k # N
        <4>1. k \in 1..(N - 1)
          BY <1>5, <3>2
        <4>2. QED
          BY <1>8, <4>1 DEF EndedAt
      <3>3. QED
        BY <3>1, <3>2
    <2> HIDE DEF W
    <2>2. p \in Seq(W)
      BY <1>5, <2>1
    <2>3. QED
      BY <2>2 DEF W
  <1>11. \A k \in 1..N : k > 1 => b[k] > m /\ t[b[k]] = NL
    <2>1. ASSUME NEW k \in 1..N, k > 1 PROVE b[k] > m /\ t[b[k]] = NL
      <3>1. k - 1 \in 1..(N - 1) /\ (k - 1) + 1 = k
        BY <1>5, <2>1
      <3>2. QED
        BY <1>8, <3>1
    <2>2. QED
      BY <2>1
  <1>12. b[1] = m
    <2>1. 1 \in 1..N /\ m + 1 - 1 = m
      BY <1>1, <1>5
    <2>2. QED
      BY <1>5, <1>7, <2>1
  <1>13. CutsText(p, t, m, n, b, A)
    BY <1>5, <1>7, <1>8, <1>9, <1>10, <1>11, <1>12 DEF CutsText, N
  <1>14. QED
    BY <1>13 DEF p

-----------------------------------------------------------------------------
(* The body of the loop of getLines                                        *)

LEMMA TextIsBytes ==
    ASSUME NEW A
    PROVE  /\ Seq(A) \subseteq Seq(Bytes(A)) /\ NewLine \in Seq(Bytes(A)) /\ Strings(Seq(Bytes(A)))
           /\ Seq(Seq(A) \ {<<>>}) \subseteq Seq(Seq(Bytes(A)))
           /\ Seq(Seq(A) \ {<<>>}) \subseteq Seq(Seq(A))
  <1>1. A \subseteq Bytes(A) /\ NL \in Bytes(A)
    BY DEF Bytes
  <1> DEFINE U == Seq(A)
             W == Seq(Bytes(A))
             Z == U \ {<<>>}
  <1>2. U \subseteq W
    BY <1>1, SmallerSeq
  <1>3. NewLine \in W
    BY <1>1 DEF NewLine
  <1>4. Strings(W)
    BY SeqStrings
  <1>5. Z \subseteq W /\ Z \subseteq U
    BY <1>2
  <1> HIDE DEF U, W, Z
  <1>6. Seq(Z) \subseteq Seq(W) /\ Seq(Z) \subseteq Seq(U)
    BY <1>5, SmallerSeq
  <1>7. QED
    BY <1>2, <1>3, <1>4, <1>6 DEF U, W, Z

\* What was read and what waits are the first x bytes of t.
HasRead(s, t, x, A) ==
    /\ s \in Reading(A)
    /\ Joined(s.lines, NewLine) \o s.partial = SubSeq(t, 1, x)

LEMMA RestRead ==
    ASSUME NEW A, NEW t \in Seq(Bytes(A)), NEW x, NEW y, NEW piece, RestAt(piece, t, x, y, A),
           NEW s, HasRead(s, t, x, A)
    PROVE  HasRead([s EXCEPT !.partial = s.partial \o piece], t, y, A)
  <1> DEFINE U == Seq(A)
             W == Seq(Bytes(A))
             Z == U \ {<<>>}
             L == s.lines
             B == s.partial
             J == Joined(L, NewLine)
             H == SubSeq(t, 1, x)
             Q == B \o piece
             u == [s EXCEPT !.partial = Q]
  <1>1. /\ x \in Nat /\ y \in Nat /\ x <= y /\ y <= Len(t)
        /\ piece = SubSeq(t, x + 1, y) /\ piece \in U
    BY DEF RestAt
  <1>2. s \in [partial : U, lines : Seq(Z)] /\ J \o B = H
    BY DEF HasRead, Reading
  <1>3. B \in U /\ L \in Seq(Z)
    BY <1>2
  <1>4. U \subseteq W /\ NewLine \in W /\ Strings(W) /\ Seq(Z) \subseteq Seq(W)
    BY TextIsBytes
  <1>5. Q \in U
    BY <1>1, <1>3
  <1>6. H \o piece = SubSeq(t, 1, y)
    BY <1>1, PrefixGrows
  <1> HIDE DEF U, W, Z, L, B, J, H
  <1>7. J \in W
    BY <1>3, <1>4, JoinedType DEF J
  <1>8. J \o Q = SubSeq(t, 1, y)
    <2>1. Assoc(J, B, piece)
      BY <1>1, <1>3, <1>4, <1>7, Associative
    <2>2. QED
      BY <1>2, <1>6, <2>1, Zenon DEF Assoc
  <1> HIDE DEF Q
  <1>9. u \in [partial : U, lines : Seq(Z)] /\ u.partial = Q /\ u.lines = L
    BY <1>2, <1>5 DEF L
  <1> HIDE DEF u
  <1>10. HasRead(u, t, y, A)
    BY <1>8, <1>9 DEF HasRead, Reading, U, Z, J
  <1>11. QED
    BY <1>10, Zenon DEF u, Q, B

LEMMA LineRead ==
    ASSUME NEW A, NEW t \in Seq(Bytes(A)), NEW x, NEW y, NEW piece, EndedAt(piece, t, x, y, A),
           NEW s, HasRead(s, t, x, A), piece # <<>>
    PROVE  HasRead([partial |-> <<>>, lines |-> Append(s.lines, s.partial \o piece)], t, y, A)
  <1> DEFINE U == Seq(A)
             W == Seq(Bytes(A))
             Z == U \ {<<>>}
             L == s.lines
             Q == s.partial \o piece
             J == Joined(L, NewLine)
             u == [s EXCEPT !.partial = Q]
             c == y - 1
             G == SubSeq(t, 1, c)
             v == [partial |-> <<>>, lines |-> Append(L, Q)]
  <1>1. /\ x \in Nat /\ y \in Nat /\ x <= c /\ c \in Nat /\ c + 1 = y /\ y <= Len(t) /\ Len(t) \in Nat
        /\ t[y] = NL /\ piece = SubSeq(t, x + 1, c) /\ piece \in U
    BY DEF EndedAt
  <1>2. HasRead(u, t, c, A)
    <2>1. RestAt(piece, t, x, c, A)
      BY <1>1 DEF RestAt
    <2> HIDE DEF c
    <2>2. QED
      BY <2>1, RestRead
  <1>3. s \in [partial : U, lines : Seq(Z)]
    BY DEF HasRead, Reading
  <1>4. u.partial = Q /\ u.lines = L /\ L \in Seq(Z) /\ s.partial \in U
    BY <1>3
  <1>5. Q \in U /\ J \o Q = G
    <2>1. u.partial \in U /\ Joined(u.lines, NewLine) \o u.partial = G
      BY <1>2 DEF HasRead, Reading
    <2>2. QED
      BY <1>4, <2>1, Zenon
  <1>6. Q # <<>>
    <2> DEFINE B == s.partial
    <2>1. B \in U /\ piece \in U /\ piece # <<>>
      BY <1>1, <1>4
    <2> HIDE DEF B
    <2>2. Len(B \o piece) = Len(B) + Len(piece) /\ Len(B) \in Nat /\ Len(piece) \in Nat /\ Len(piece) # 0
      BY <2>1
    <2>3. B \o piece # <<>>
      BY <2>2
    <2>4. QED
      BY <2>3 DEF B
  <1>7. G \o NewLine = SubSeq(t, 1, y)
    <2>1. SubSeq(t, y, y) = NewLine
      <3>1. y \in 1..Len(t)
        BY <1>1
      <3>2. y \in Separators(t, NewLine)
        BY <1>1, <3>1, NewLineSeparators
      <3>3. Len(NewLine) = 1
        BY DEF NewLine
      <3>4. y + Len(NewLine) - 1 = y
        BY <1>1, <3>3
      <3>5. SubSeq(t, y, y + Len(NewLine) - 1) = NewLine
        BY <3>2 DEF Separators
      <3>6. QED
        BY <3>4, <3>5
    <2> HIDE DEF c
    <2>2. G \o SubSeq(t, c + 1, y) = SubSeq(t, 1, y)
      <3>1. c <= y
        BY <1>1
      <3>2. QED
        BY <1>1, <3>1, PrefixGrows
    <2>3. QED
      BY <1>1, <2>1, <2>2
  <1>8. U \subseteq W /\ NewLine \in W /\ Strings(W) /\ Seq(Z) \subseteq Seq(W)
    BY TextIsBytes
  <1>9. Q \in Z /\ <<>> \in U
    BY <1>5, <1>6
  <1> DEFINE e == NewLine
  <1> HIDE DEF U, W, Z, L, Q, J, G, e
  <1>10. L \in Seq(W) /\ Q \in W /\ e \in W
    BY <1>4, <1>5, <1>8 DEF e
  <1>11. Joined(Append(L, Q), e) = J \o (Q \o e) /\ J \in W /\ Q \o e \in W
    <2>1. L \in Seq(Seq(Bytes(A))) /\ Q \in Seq(Bytes(A)) /\ e \in Seq(Bytes(A))
      BY <1>10 DEF W
    <2>2. Joined(Append(L, Q), e) = Joined(L, e) \o (Q \o e) /\ Joined(L, e) \in Seq(Bytes(A))
      BY <2>1, JoinedMore
    <2>3. J = Joined(L, e)
      BY Zenon DEF J, e
    <2>4. Q \o e \in W
      BY <1>8, <1>10 DEF Strings
    <2>5. QED
      BY <2>2, <2>3, <2>4 DEF W
  <1>12. J \o (Q \o e) = SubSeq(t, 1, y)
    <2>1. Assoc(J, Q, e)
      BY <1>8, <1>10, <1>11, Associative
    <2>2. QED
      BY <1>5, <1>7, <2>1, Zenon DEF Assoc, e
  <1>13. Joined(Append(L, Q), e) \o <<>> = SubSeq(t, 1, y)
    <2>1. J \o (Q \o e) \in W
      BY <1>8, <1>11 DEF Strings
    <2>2. QED
      BY <1>8, <1>11, <1>12, <2>1 DEF Strings
  <1>14. v \in [partial : U, lines : Seq(Z)] /\ v.lines = Append(L, Q) /\ v.partial = <<>>
    BY <1>4, <1>9
  <1> HIDE DEF v
  <1>15. Joined(v.lines, e) \o v.partial = SubSeq(t, 1, y)
    BY <1>13, <1>14, Zenon
  <1>16. HasRead(v, t, y, A)
    BY <1>14, <1>15 DEF HasRead, Reading, U, Z, e
  <1>17. QED
    BY <1>16, Zenon DEF v, L, Q

\* A piece that has its end makes a line.
LEMMA PieceRead ==
    ASSUME NEW A, NEW t \in Seq(Bytes(A)), NEW x, NEW y, NEW pieces, NEW i, NEW last,
           EndedAt(pieces[i], t, x, y, A), pieces[i] # <<>>, ~(i = Len(pieces)),
           NEW s, HasRead(s, t, x, A), i = 1 \/ s.partial = <<>>
    PROVE  /\ HasRead(TakePiece(pieces, last, s, i), t, y, A)
           /\ TakePiece(pieces, last, s, i).partial = <<>>
  <1> DEFINE piece == pieces[i]
             v == [partial |-> <<>>, lines |-> Append(s.lines, s.partial \o piece)]
  <1>1. HasRead(v, t, y, A) /\ v.partial = <<>>
    BY LineRead
  <1>2. TakePiece(pieces, last, s, i) = v
    <2>1. CASE s.partial # <<>>
      BY <2>1, Zenon DEF TakePiece
    <2>2. CASE s.partial = <<>>
      <3>1. s \in [partial : Seq(A), lines : Seq(Seq(A) \ {<<>>})] /\ piece \in Seq(A)
        BY DEF HasRead, Reading, EndedAt
      <3>2. s.partial \o piece = piece
        BY <2>2, <3>1
      <3>3. TakePiece(pieces, last, s, i) = [s EXCEPT !.lines = Append(@, piece)]
        BY <2>2, Zenon DEF TakePiece
      <3> DEFINE U == Seq(A)
                 K == Seq(U \ {<<>>})
                 more == Append(s.lines, piece)
      <3>4. [s EXCEPT !.lines = Append(@, piece)] = [partial |-> s.partial, lines |-> Append(s.lines, piece)]
        <4>1. s \in [partial : U, lines : K]
          BY <3>1
        <4> HIDE DEF U, K, more
        <4>2. [s EXCEPT !.lines = more] = [partial |-> s.partial, lines |-> more]
          BY <4>1
        <4>3. QED
          BY <4>2 DEF more
      <3>5. QED
        BY <2>2, <3>2, <3>3, <3>4, Zenon
    <2>3. QED
      BY <2>1, <2>2
  <1> HIDE DEF v
  <1>3. QED
    BY <1>1, <1>2

\* What getLines has after the chunk that ends at y: what waits is the partial
\* line, or it is as long as the chunk of n bytes.
ReadAfter(r, t, y, n, A) ==
    \E x \in Seq(A) :
       /\ Joined(r.lines, NewLine) \o x = SubSeq(t, 1, y)
       /\ x = r.partial \/ Len(x) >= n

\* The last piece is skipped when it is empty, and waits when it is not.
LEMMA RestPieceRead ==
    ASSUME NEW A, NEW t \in Seq(Bytes(A)), NEW x, NEW y, NEW n, NEW pieces, NEW i, NEW last,
           i = Len(pieces), RestAt(pieces[i], t, x, y, A),
           pieces[i] # <<>> => last,
           NEW s, HasRead(s, t, x, A),
           s.partial = <<>> \/ Len(pieces[i]) = n, n \in Nat
    PROVE  ReadAfter(TakePiece(pieces, last, s, i), t, y, n, A)
  <1> DEFINE piece == pieces[i]
             Q == s.partial \o piece
             u == [s EXCEPT !.partial = Q]
             r == TakePiece(pieces, last, s, i)
  <1>1. HasRead(u, t, y, A)
    BY RestRead
  <1>2. s \in [partial : Seq(A), lines : Seq(Seq(A) \ {<<>>})] /\ piece \in Seq(A)
    BY DEF HasRead, Reading, RestAt
  <1>3. s.partial \in Seq(A) /\ u.lines = s.lines /\ u.partial = Q
    BY <1>2
  <1>4. Q \in Seq(A) /\ Joined(s.lines, NewLine) \o Q = SubSeq(t, 1, y)
    <2>1. u.partial \in Seq(A) /\ Joined(u.lines, NewLine) \o u.partial = SubSeq(t, 1, y)
      BY <1>1 DEF HasRead, Reading
    <2> HIDE DEF u, Q
    <2>2. QED
      BY <1>3, <2>1, Zenon
  <1>5. r.lines = s.lines /\ (Q = r.partial \/ Len(Q) >= n)
    <2>1. CASE piece = <<>>
      <3>1. r = s
        BY <2>1, Zenon DEF TakePiece
      <3>2. Q = s.partial
        BY <1>3, <2>1
      <3>3. QED
        BY <3>1, <3>2
    <2>2. CASE piece # <<>>
      <3>1. r = [s EXCEPT !.partial = piece]
        BY <2>2, Zenon DEF TakePiece
      <3>2. r.lines = s.lines /\ r.partial = piece
        BY <1>2, <3>1
      <3>3. CASE s.partial = <<>>
        <4>1. Q = piece
          BY <1>2, <3>3
        <4>2. QED
          BY <3>2, <4>1
      <3>4. CASE Len(piece) = n
        <4> DEFINE B == s.partial
        <4>1. B \in Seq(A) /\ piece \in Seq(A)
          BY <1>2
        <4> HIDE DEF B, piece
        <4>2. Len(B \o piece) = Len(B) + Len(piece) /\ Len(B) \in Nat /\ Len(piece) \in Nat
          BY <4>1
        <4>3. Len(B \o piece) >= n
          BY <3>4, <4>2
        <4>4. QED
          BY <3>2, <4>3 DEF B
      <3>5. QED
        BY <3>3, <3>4
    <2>3. QED
      BY <2>1, <2>2
  <1> HIDE DEF r, Q
  <1>6. QED
    BY <1>4, <1>5 DEF ReadAfter, r

-----------------------------------------------------------------------------
(* The loop of getLines                                                    *)

\* Whatever the file holds, what is read are texts and lines that are not empty.
LEMMA ReadType ==
    ASSUME NEW chunk, NEW t, NEW m, NEW n, NEW A, FileChunkAt(chunk, t, m, n, A),
           NEW last \in BOOLEAN, [partial |-> partial, lines |-> lineQueue] \in Reading(A)
    PROVE  Read(last, Split(chunk, NewLine)) \in Reading(A)
  <1> DEFINE p == Split(chunk, NewLine)
  <1>1. PICK b : CutsText(p, t, m, n, b, A)
    BY SplitText
  <1>2. p \in Seq(Seq(A)) /\ Len(p) \in Nat
    BY <1>1 DEF CutsText
  <1>3. PICK g : ReadAlong(g, last, p, A)
    BY <1>2, ReadSteps
  <1> HIDE DEF p
  <1>4. Read(last, p) = g[Len(p)] /\ g \in [0..Len(p) -> Reading(A)] /\ Len(p) \in 0..Len(p)
    BY <1>2, <1>3 DEF ReadAlong
  <1>5. Read(last, p) \in Reading(A)
    BY <1>4
  <1>6. QED
    BY <1>5 DEF p

\* No line of the file is empty.
NoEmptyLine(t) == \A i \in 1..Len(t) : t[i] = NL => i > 1 /\ t[i - 1] # NL

LEMMA PieceNotEmpty ==
    ASSUME NEW chunk, NEW t, NEW m, NEW n, NEW A, FileChunkAt(chunk, t, m, n, A),
           NoEmptyLine(t), chunk[1] # NL,
           NEW x, NEW y, NEW piece, EndedAt(piece, t, x, y, A),
           x = m \/ t[x] = NL
    PROVE  piece # <<>>
  <1>1. /\ t \in Seq(Bytes(A)) /\ m \in Nat /\ n \in Nat /\ n >= 1 /\ Len(t) \in Nat
        /\ \A j \in 1..n : chunk[j] = t[m + j]
    BY FileChunkBytes
  <1>2. /\ x \in Nat /\ y \in Nat /\ x < y /\ y <= Len(t)
        /\ t[y] = NL /\ piece = SubSeq(t, x + 1, y - 1)
    BY DEF EndedAt
  <1>3. Len(piece) = y - 1 - x
    <2>1. x + 1 \in 1..(Len(t) + 1) /\ y - 1 \in ((x + 1) - 1)..Len(t) /\ (y - 1) - (x + 1) + 1 = y - 1 - x
      BY <1>1, <1>2
    <2>2. QED
      BY <1>1, <1>2, <2>1, Slice
  <1>4. y # x + 1
    <2>1. SUFFICES ASSUME y = x + 1 PROVE FALSE
      OBVIOUS
    <2>2. y \in 1..Len(t) /\ y - 1 = x
      BY <1>2, <2>1
    <2>3. t[y - 1] # NL
      BY <1>2, <2>2 DEF NoEmptyLine
    <2>4. x = m
      BY <2>2, <2>3
    <2>5. chunk[1] = t[m + 1]
      BY <1>1
    <2>6. t[y] # NL
      BY <2>1, <2>4, <2>5
    <2>7. QED
      BY <1>2, <2>6
  <1>5. Len(piece) # 0
    BY <1>2, <1>3, <1>4
  <1>6. QED
    BY <1>5

LEMMA ChunkRead ==
    ASSUME NEW chunk, NEW t, NEW m, NEW n, NEW A, FileChunkAt(chunk, t, m, n, A),
           NoEmptyLine(t), chunk[1] # NL,
           HasRead([partial |-> partial, lines |-> lineQueue], t, m, A)
    PROVE  ReadAfter(Read(chunk[n] # NL, Split(chunk, NewLine)), t, m + n, n, A)
  <1> DEFINE p == Split(chunk, NewLine)
             N == Len(p)
             base == [partial |-> partial, lines |-> lineQueue]
             last == chunk[n] # NL
  <1>1. /\ t \in Seq(Bytes(A)) /\ NL \notin A /\ m \in Nat /\ n \in Nat /\ n >= 1 /\ Len(t) \in Nat
        /\ chunk \in Seq(Bytes(A)) /\ Len(chunk) = n /\ \A j \in 1..n : chunk[j] = t[m + j]
    BY FileChunkBytes
  <1>2. PICK b : CutsText(p, t, m, n, b, A)
    BY SplitText
  <1>3. /\ N \in Nat \ {0} /\ p \in Seq(Seq(A)) /\ b[1] = m
        /\ \A k \in 1..N : b[k] \in Nat /\ m <= b[k] /\ (k > 1 => b[k] > m /\ t[b[k]] = NL)
        /\ \A k \in 1..(N - 1) : EndedAt(p[k], t, b[k], b[k + 1], A)
        /\ RestAt(p[N], t, b[N], m + n, A)
    BY <1>2 DEF CutsText
  <1>4. base \in Reading(A)
    BY DEF HasRead
  <1>5. last \in BOOLEAN
    OBVIOUS
  <1>6. PICK g : ReadAlong(g, last, p, A)
    <2> HIDE DEF last, p
    <2>1. QED
      BY <1>3, <1>4, <1>5, ReadSteps
  <1>7. g[0] = base /\ Read(last, p) = g[N] /\ \A i \in 1..N : g[i] = TakePiece(p, last, g[i - 1], i)
    BY <1>6 DEF ReadAlong
  <1> HIDE DEF p, N, base
  <1> DEFINE Good(k) == HasRead(g[k - 1], t, b[k], A) /\ (k > 1 => g[k - 1].partial = <<>>)
             Q == {k \in Nat : k + 1 <= N => Good(k + 1)}
  <1>8. Good(1)
    <2>1. 1 - 1 = 0 /\ ~(1 > 1)
      OBVIOUS
    <2>2. QED
      BY <1>3, <1>7, <2>1 DEF base
  <1>9. ASSUME NEW k \in 1..(N - 1), Good(k) PROVE Good(k + 1)
    <2> DEFINE x == b[k]
               y == b[k + 1]
               s == g[k - 1]
               i == k
    <2>1. k \in 1..N /\ k + 1 \in 1..N /\ k \in Nat /\ k # N /\ (k + 1) - 1 = k /\ k + 1 > 1 /\ (k > 1 \/ k = 1)
      BY <1>3
    <2>2. EndedAt(p[i], t, x, y, A)
      BY <1>3
    <2>3. HasRead(s, t, x, A) /\ (i = 1 \/ s.partial = <<>>)
      BY <1>9, <2>1
    <2>4. x = m \/ t[x] = NL
      BY <1>3, <2>1
    <2>5. g[k] = TakePiece(p, last, s, i)
      BY <1>7, <2>1
    <2>6. ~(i = Len(p))
      BY <2>1 DEF N
    <2> HIDE DEF x, y, s, i, last
    <2>7. p[i] # <<>>
      BY <2>2, <2>4, PieceNotEmpty, Zenon
    <2>8. HasRead(TakePiece(p, last, s, i), t, y, A) /\ TakePiece(p, last, s, i).partial = <<>>
      <3>1. t \in Seq(Bytes(A))
        BY <1>1
      <3> HIDE DEF Good, Q
      <3>2. QED
        BY <2>2, <2>3, <2>6, <2>7, <3>1, PieceRead
    <2>9. HasRead(g[k], t, y, A) /\ g[k].partial = <<>>
      BY <2>5, <2>8
    <2>10. QED
      BY <2>1, <2>9 DEF y
  <1>10. Good(N)
    <2> HIDE DEF Good
    <2>1. 0 \in Q
      BY <1>8
    <2>2. ASSUME NEW k \in Q PROVE k + 1 \in Q
      <3>1. SUFFICES ASSUME (k + 1) + 1 <= N PROVE Good((k + 1) + 1)
        OBVIOUS
      <3>2. k + 1 \in 1..(N - 1) /\ Good(k + 1)
        BY <1>3, <2>2, <3>1
      <3>3. QED
        BY <1>9, <3>2
    <2>3. Q = Nat
      <3>1. Q \subseteq Nat
        OBVIOUS
      <3> HIDE DEF Q
      <3>2. QED
        BY <2>1, <2>2, <3>1, SetInduction
    <2>4. N - 1 \in Nat /\ (N - 1) + 1 = N
      BY <1>3
    <2>5. QED
      BY <2>3, <2>4
  <1>11. ReadAfter(g[N], t, m + n, n, A)
    <2> DEFINE x == b[N]
               y == m + n
               s == g[N - 1]
               i == N
               piece == p[N]
    <2>1. N \in 1..N /\ x \in Nat /\ (N = 1 => x = m) /\ (N = 1 \/ N > 1)
      BY <1>3
    <2>2. RestAt(p[i], t, x, y, A) /\ i = Len(p)
      BY <1>3 DEF N
    <2>3. HasRead(s, t, x, A) /\ (N > 1 => s.partial = <<>>)
      BY <1>10
    <2>4. x <= y /\ y <= Len(t) /\ y \in Nat /\ piece = SubSeq(t, x + 1, y) /\ piece \in Seq(A)
      BY <2>2 DEF RestAt
    <2>5. x + 1 \in 1..(Len(t) + 1) /\ y \in ((x + 1) - 1)..Len(t)
      BY <1>1, <2>1, <2>4
    <2>6. Len(piece) = y - x /\ \A j \in 1..(y - x) : piece[j] = t[x + j]
      <3> HIDE DEF x, y, piece
      <3>1. y - (x + 1) + 1 = y - x /\ \A j \in 1..(y - x) : (x + 1) + j - 1 = x + j
        BY <2>1, <2>4
      <3>2. Len(piece) = y - (x + 1) + 1 /\ \A j \in 1..(y - (x + 1) + 1) : piece[j] = t[(x + 1) + j - 1]
        BY <1>1, <2>4, <2>5, Slice, SMTT(30)
      <3>3. QED
        BY <3>1, <3>2
    <2>7. p[i] # <<>> => last
      <3>1. SUFFICES ASSUME piece # <<>> PROVE chunk[n] # NL
        OBVIOUS
      <3>2. chunk[n] = t[y]
        BY <1>1
      <3> HIDE DEF x, y, piece
      <3>3. Len(piece) # 0
        BY <2>4, <3>1
      <3>4. y - x \in 1..(y - x) /\ x + (y - x) = y
        BY <2>1, <2>4, <2>6, <3>3
      <3>5. piece[y - x] = t[y]
        BY <2>6, <3>4
      <3>6. piece[y - x] \in A
        BY <2>4, <2>6, <3>4
      <3>7. QED
        BY <1>1, <3>2, <3>5, <3>6
    <2>8. s.partial = <<>> \/ Len(p[i]) = n
      <3>1. CASE N = 1
        BY <1>1, <2>1, <2>6, <3>1
      <3>2. CASE N > 1
        BY <2>3, <3>2
      <3>3. QED
        BY <2>1, <3>1, <3>2
    <2>9. g[N] = TakePiece(p, last, s, i)
      BY <1>7, <2>1
    <2> HIDE DEF x, y, s, i, last
    <2>10. ReadAfter(TakePiece(p, last, s, i), t, y, n, A)
      BY <1>1, <2>2, <2>3, <2>7, <2>8, RestPieceRead
    <2>11. QED
      BY <2>9, <2>10 DEF y
  <1>12. QED
    BY <1>7, <1>11 DEF p

-----------------------------------------------------------------------------
(* Inserting in the order of the launch times                              *)

\* u is q with c at the i-th place.
Inserted(u, q, c, i, V) ==
    /\ u \in Seq(V) /\ Len(u) = Len(q) + 1
    /\ i \in 1..(Len(q) + 1) /\ u[i] = c
    /\ \A j \in 1..Len(q) : (j < i => u[j] = q[j]) /\ (j >= i => u[j + 1] = q[j])

LEMMA InsertAtPlace ==
    ASSUME NEW V, NEW q \in Seq(V), NEW c \in V, NEW i \in 1..(Len(q) + 1)
    PROVE  Inserted(InsertAt(q, i, c), q, c, i, V)
  <1> DEFINE n == Len(q)
             a == SubSeq(q, 1, i - 1)
             d == SubSeq(q, i, n)
             one == <<c>>
             u == (a \o one) \o d
  <1>1. n \in Nat /\ i \in Nat /\ i >= 1 /\ i <= n + 1
    OBVIOUS
  <1>2. /\ a \in Seq(V) /\ Len(a) = i - 1 /\ \A j \in 1..(i - 1) : a[j] = q[j]
    <2>1. 1 \in 1..(Len(q) + 1) /\ i - 1 \in (1 - 1)..Len(q) /\ (i - 1) - 1 + 1 = i - 1 /\ \A j \in 1..(i - 1) : 1 + j - 1 = j
      BY <1>1
    <2>2. a \in Seq(V) /\ Len(a) = (i - 1) - 1 + 1 /\ \A j \in 1..((i - 1) - 1 + 1) : a[j] = q[1 + j - 1]
      BY <2>1, Slice
    <2> HIDE DEF a
    <2>3. QED
      BY <2>1, <2>2
  <1>3. /\ d \in Seq(V) /\ Len(d) = n - i + 1 /\ \A j \in 1..(n - i + 1) : d[j] = q[i + j - 1]
    <2>1. i \in 1..(Len(q) + 1) /\ n \in (i - 1)..Len(q)
      BY <1>1
    <2>2. QED
      BY <2>1, Slice
  <1>4. one \in Seq(V) /\ Len(one) = 1 /\ one[1] = c
    OBVIOUS
  <1>5. InsertAt(q, i, c) = u
    BY Zenon DEF InsertAt
  <1> HIDE DEF a, d, one, n
  <1>6. IsConcat(a \o one, a, one, V)
    BY <1>2, <1>4, ConcatIs
  <1> DEFINE e == a \o one
  <1> HIDE DEF e
  <1>7. /\ e \in Seq(V) /\ Len(e) = i /\ e[i] = c /\ \A j \in 1..(i - 1) : e[j] = q[j]
    <2>1. /\ e \in Seq(V) /\ Len(e) = Len(a) + Len(one)
          /\ \A j \in 1..Len(a) : e[j] = a[j]
          /\ \A j \in 1..Len(one) : e[Len(a) + j] = one[j]
      BY <1>6 DEF IsConcat, e
    <2>2. (i - 1) + 1 = i /\ 1 \in 1..1
      BY <1>1
    <2>3. e[i] = c
      BY <1>2, <1>4, <2>1, <2>2
    <2>4. Len(e) = i
      BY <1>2, <1>4, <2>1, <2>2
    <2>5. QED
      BY <1>2, <2>1, <2>3, <2>4
  <1>8. IsConcat(e \o d, e, d, V)
    BY <1>3, <1>7, ConcatIs
  <1>9. u = e \o d
    BY DEF e
  <1> HIDE DEF u
  <1>10. /\ u \in Seq(V) /\ Len(u) = i + (n - i + 1)
         /\ \A j \in 1..i : u[j] = e[j]
         /\ \A j \in 1..(n - i + 1) : u[i + j] = d[j]
    BY <1>3, <1>7, <1>8, <1>9 DEF IsConcat
  <1>11. i + (n - i + 1) = n + 1 /\ i \in 1..i
    BY <1>1
  <1>12. ASSUME NEW j \in 1..n PROVE (j < i => u[j] = q[j]) /\ (j >= i => u[j + 1] = q[j])
    <2>1. j \in Nat
      BY <1>1
    <2>2. ASSUME j < i PROVE u[j] = q[j]
      <3>1. j \in 1..i /\ j \in 1..(i - 1)
        BY <1>1, <2>1, <2>2
      <3>2. QED
        BY <1>7, <1>10, <3>1
    <2>3. ASSUME j >= i PROVE u[j + 1] = q[j]
      <3> DEFINE k == j - i + 1
      <3>1. k \in 1..(n - i + 1) /\ i + k = j + 1 /\ i + k - 1 = j
        BY <1>1, <2>1, <2>3
      <3> HIDE DEF k
      <3>2. u[i + k] = d[k] /\ d[k] = q[i + k - 1]
        BY <1>3, <1>10, <3>1
      <3>3. QED
        BY <3>1, <3>2
    <2>4. QED
      BY <2>2, <2>3
  <1>13. u[i] = c
    BY <1>7, <1>10, <1>11
  <1>14. Inserted(u, q, c, i, V)
    BY <1>10, <1>11, <1>12, <1>13 DEF Inserted, n
  <1>15. QED
    BY <1>5, <1>14

Circuits == [text : Seq(Nat) \ {<<>>}, launch : Time]

\* g_queue_insert_sorted keeps the queue sorted.
LEMMA InsertedInOrder ==
    ASSUME NEW q \in Seq(Circuits), NEW c \in Circuits
    PROVE  /\ \E i : Inserted(InsertSorted(q, c), q, c, i, Circuits)
           /\ Chronological(q) => Chronological(InsertSorted(q, c))
  <1> DEFINE n == Len(q)
             After == {i \in DOMAIN q : ~Before(q[i].launch, c.launch)} \cup {Len(q) + 1}
             k == Min(After)
             u == InsertSorted(q, c)
             w(x) == Nanoseconds(x.launch)
  <1>1. n \in Nat /\ DOMAIN q = 1..n /\ \A i \in 1..n : q[i] \in Circuits
    OBVIOUS
  <1>2. \A x \in Circuits : x.launch \in Time
    BY DEF Circuits
  <1>3. \A x \in Circuits : w(x) \in Int
    <2>1. \A x \in Time : Nanoseconds(x) \in Int
      BY TimeParts
    <2>2. QED
      BY <1>2, <2>1
  <1>4. \A x, y \in Circuits : Before(x.launch, y.launch) <=> w(x) < w(y)
    BY <1>2, BeforeIsLess
  <1>5. k \in After /\ \A i \in After : k <= i
    <2>1. After \subseteq Nat /\ After # {}
      BY <1>1
    <2> HIDE DEF After
    <2>2. QED
      BY <2>1, LeastOf
  <1> HIDE DEF k
  <1>6. k \in 1..(n + 1)
    BY <1>1, <1>5
  <1>7. \A i \in 1..n : i < k => Before(q[i].launch, c.launch)
    <2>1. SUFFICES ASSUME NEW i \in 1..n, i < k, ~Before(q[i].launch, c.launch) PROVE FALSE
      OBVIOUS
    <2>2. i \in After
      BY <1>1, <2>1
    <2>3. k <= i /\ i \in Nat /\ k \in Nat
      BY <1>5, <1>6, <2>2
    <2>4. QED
      BY <2>1, <2>3
  <1>8. k \in 1..n => ~Before(q[k].launch, c.launch)
    <2>1. k = n + 1 => ~(k \in 1..n)
      BY <1>1
    <2>2. QED
      BY <1>5, <2>1
  <1>9. u = InsertAt(q, k, c)
    BY Zenon DEF InsertSorted, k
  <1>10. Inserted(u, q, c, k, Circuits)
    <2> HIDE DEF u
    <2>1. QED
      BY <1>6, <1>9, InsertAtPlace
  <1> HIDE DEF u, w, n
  <1>11. /\ u \in Seq(Circuits) /\ Len(u) = n + 1 /\ u[k] = c
         /\ \A j \in 1..n : (j < k => u[j] = q[j]) /\ (j >= k => u[j + 1] = q[j])
    BY <1>10 DEF Inserted, n
  <1>12. \A i \in 1..n : (i < k => w(q[i]) < w(c)) /\ (i >= k => w(c) <= w(q[i]) \/ ~Chronological(q))
    <2> SUFFICES ASSUME NEW i \in 1..n
                 PROVE (i < k => w(q[i]) < w(c)) /\ (i >= k => w(c) <= w(q[i]) \/ ~Chronological(q))
      OBVIOUS
    <2>1. i < k => w(q[i]) < w(c)
      BY <1>1, <1>4, <1>7
    <2>2. ASSUME i >= k, Chronological(q) PROVE w(c) <= w(q[i])
      <3>1. k \in 1..n /\ (i = k \/ k < i)
        BY <1>1, <1>6, <2>2
      <3>2. w(q[k]) \in Int /\ w(c) \in Int /\ w(q[i]) \in Int /\ w(c) <= w(q[k])
        BY <1>1, <1>3, <1>4, <1>8, <3>1
      <3>3. k < i => ~Before(q[i].launch, q[k].launch)
        BY <1>1, <2>2, <3>1 DEF Chronological
      <3>4. k < i => w(q[k]) <= w(q[i])
        BY <1>1, <1>4, <3>1, <3>2, <3>3
      <3>5. QED
        BY <3>1, <3>2, <3>4
    <2>3. QED
      BY <2>1, <2>2
  <1>13. ASSUME Chronological(q) PROVE Chronological(u)
    <2>1. SUFFICES ASSUME NEW x \in 1..(n + 1), NEW y \in 1..(n + 1), x < y
                   PROVE ~Before(u[y].launch, u[x].launch)
      <3>1. DOMAIN u = 1..(n + 1)
        BY <1>11
      <3>2. QED
        BY <2>1, <3>1 DEF Chronological
    <2>2. x \in Nat /\ y \in Nat /\ k \in Nat /\ 1 <= k /\ k <= n + 1 /\ 1 <= x /\ y <= n + 1 /\ n \in Nat
      BY <1>1, <1>6
    <2>3. u[x] \in Circuits /\ u[y] \in Circuits /\ w(u[x]) \in Int /\ w(u[y]) \in Int
      <3>1. \A i \in 1..(n + 1) : u[i] \in Circuits
        BY <1>11
      <3>2. QED
        BY <1>3, <3>1
    <2>4. SUFFICES w(u[x]) <= w(u[y])
      BY <1>4, <2>3
    <2>5. \A i, j \in 1..n : i < j => w(q[i]) <= w(q[j])
      <3>1. SUFFICES ASSUME NEW i \in 1..n, NEW j \in 1..n, i < j PROVE w(q[i]) <= w(q[j])
        OBVIOUS
      <3>2. ~Before(q[j].launch, q[i].launch)
        BY <1>1, <1>13, <3>1 DEF Chronological
      <3>3. w(q[i]) \in Int /\ w(q[j]) \in Int /\ ~(w(q[j]) < w(q[i]))
        BY <1>1, <1>3, <1>4, <3>2
      <3>4. QED
        BY <3>3
    <2>6. \A i \in 1..n : (i < k => u[i] = q[i] /\ w(q[i]) <= w(c)) /\ (i >= k => u[i + 1] = q[i] /\ w(c) <= w(q[i]))
      <3>1. SUFFICES ASSUME NEW i \in 1..n
                     PROVE (i < k => u[i] = q[i] /\ w(q[i]) <= w(c)) /\ (i >= k => u[i + 1] = q[i] /\ w(c) <= w(q[i]))
        OBVIOUS
      <3>2. w(q[i]) \in Int /\ w(c) \in Int
        BY <1>1, <1>3
      <3>3. QED
        BY <1>11, <1>12, <1>13, <3>2
    <2>7. CASE x < k
      <3>1. x \in 1..n /\ u[x] = q[x] /\ w(q[x]) <= w(c)
        BY <2>2, <2>6, <2>7
      <3>2. CASE y < k
        <4>1. y \in 1..n /\ u[y] = q[y]
          BY <2>2, <2>6, <3>2
        <4>2. QED
          BY <2>1, <2>5, <3>1, <4>1
      <3>3. CASE y = k
        BY <1>11, <3>1, <3>3
      <3>4. CASE y > k
        <4>1. y - 1 \in 1..n /\ y - 1 >= k /\ (y - 1) + 1 = y /\ x < y - 1
          BY <2>2, <2>7, <3>4
        <4>2. u[y] = q[y - 1]
          BY <2>6, <4>1
        <4>3. QED
          BY <2>5, <3>1, <4>1, <4>2
      <3>5. QED
        BY <2>2, <3>2, <3>3, <3>4
    <2>8. CASE x >= k
      <3>1. y - 1 \in 1..n /\ y - 1 >= k /\ (y - 1) + 1 = y
        BY <2>1, <2>2, <2>8
      <3>2. u[y] = q[y - 1] /\ w(c) <= w(q[y - 1])
        BY <2>6, <3>1
      <3>3. CASE x = k
        BY <1>11, <3>2, <3>3
      <3>4. CASE x > k
        <4>1. x - 1 \in 1..n /\ x - 1 >= k /\ (x - 1) + 1 = x /\ x - 1 < y - 1
          BY <2>1, <2>2, <3>4
        <4>2. u[x] = q[x - 1]
          BY <2>6, <4>1
        <4>3. QED
          BY <2>5, <3>1, <3>2, <4>1, <4>2
      <3>5. QED
        BY <2>2, <2>8, <3>3, <3>4
    <2>9. QED
      BY <2>2, <2>7, <2>8
  <1>14. QED
    BY <1>10, <1>13 DEF u

-----------------------------------------------------------------------------
(* Module TraceFile: its types                                             *)

\* A byte of a line is its number, and so finds the time that the line says.
FileKinds ==
    /\ stage \in {"recording", "reading", "parsing", "parsed"}
    /\ launched \in Seq(LaunchTimes) /\ elapsed \in Seq(Time) /\ Len(elapsed) = Len(launched)
    /\ \A n \in 1..Len(elapsed) : elapsed[n] = Elapsed(launched[n])
    /\ content \in Seq(Bytes(1..Len(elapsed)))
    /\ position \in 0..Len(content)
    /\ [partial |-> partial, lines |-> lineQueue] \in Reading(1..Len(elapsed))
    /\ circuits \in Seq(Circuits)
    /\ stage = "recording" => position = 0 /\ partial = <<>> /\ lineQueue = <<>>
    /\ stage \in {"recording", "reading"} => circuits = <<>>

LEMMA EmptyReading == ASSUME NEW A PROVE [partial |-> <<>>, lines |-> <<>>] \in Reading(A)
  <1> DEFINE U == Seq(A)
             Z == U \ {<<>>}
  <1>1. <<>> \in U
    OBVIOUS
  <1> HIDE DEF Z
  <1>2. <<>> \in Seq(Z)
    OBVIOUS
  <1> HIDE DEF U
  <1>3. [partial |-> <<>>, lines |-> <<>>] \in [partial : U, lines : Seq(Z)]
    BY <1>1, <1>2
  <1>4. QED
    BY <1>3 DEF Reading, U, Z

\* The text of the n-th line, and with its end.
LEMMA TextBytes ==
    ASSUME NEW n \in Nat \ {0}, NEW length \in Nat
    PROVE  /\ Text(n, length) \in Seq(1..n) /\ Text(n, length) \in Seq(Nat) /\ Len(Text(n, length)) = length
           /\ \A i \in 1..length : Text(n, length)[i] = n
           /\ Text(n, length) \in Seq(Bytes(1..n))
           /\ Append(Text(n, length), NL) \in Seq(Bytes(1..n))
  <1> DEFINE s == [i \in 1..length |-> n]
  <1>1. n \in 1..n /\ n \in Nat
    OBVIOUS
  <1>2. s \in Seq(1..n) /\ s \in Seq(Nat) /\ Len(s) = length /\ \A i \in 1..length : s[i] = n
    BY <1>1
  <1>3. Text(n, length) = s
    BY DEF Text
  <1> HIDE DEF s
  <1>4. Seq(1..n) \subseteq Seq(Bytes(1..n)) /\ NL \in Bytes(1..n)
    BY TextIsBytes DEF Bytes
  <1> DEFINE V == Bytes(1..n)
  <1> HIDE DEF V
  <1>5. s \in Seq(V) /\ NL \in V
    BY <1>2, <1>4 DEF V
  <1>6. Append(s, NL) \in Seq(V)
    BY <1>5
  <1>7. QED
    BY <1>2, <1>3, <1>5, <1>6 DEF V

LEMMA ElapsedIsTime == ASSUME NEW time \in LaunchTimes PROVE time \in Time /\ Elapsed(time) \in Time
  <1>1. time \in Time /\ RecorderStart \in Time
    BY TraceFileAssumption
  <1>2. QED
    BY <1>1, SubtractIsExact DEF Elapsed

\* One more line, complete or not.
LEMMA KindsWrites ==
    ASSUME FileKinds, NEW time \in LaunchTimes, NEW bytes, Writes(time, bytes),
           bytes \in Seq(Bytes(1..(Len(elapsed) + 1))), stage' \in {"recording", "reading"}
    PROVE  FileKinds'
  <1> DEFINE k == Len(elapsed)
             V == Bytes(1..k)
             W == Bytes(1..(k + 1))
  <1>1. /\ stage = "recording" /\ content' = content \o bytes
        /\ elapsed' = Append(elapsed, Elapsed(time)) /\ launched' = Append(launched, time)
        /\ position' = position /\ partial' = partial /\ lineQueue' = lineQueue /\ circuits' = circuits
    BY DEF Writes
  <1>2. /\ launched \in Seq(LaunchTimes) /\ elapsed \in Seq(Time) /\ k = Len(launched)
        /\ (\A n \in 1..k : elapsed[n] = Elapsed(launched[n])) /\ k \in Nat
        /\ content \in Seq(V)
        /\ position = 0 /\ partial = <<>> /\ lineQueue = <<>> /\ circuits = <<>> /\ circuits \in Seq(Circuits)
    <2>1. elapsed \in Seq(Time)
      BY DEF FileKinds
    <2>2. k \in Nat
      BY <2>1
    <2>3. QED
      BY <1>1, <2>2 DEF FileKinds
  <1>3. Elapsed(time) \in Time
    BY ElapsedIsTime
  <1>4. launched' \in Seq(LaunchTimes) /\ elapsed' \in Seq(Time) /\ Len(elapsed') = k + 1 /\ Len(launched') = k + 1
    BY <1>1, <1>2, <1>3
  <1>5. \A n \in 1..(k + 1) : elapsed'[n] = Elapsed(launched'[n])
    <2> SUFFICES ASSUME NEW n \in 1..(k + 1) PROVE elapsed'[n] = Elapsed(launched'[n])
      OBVIOUS
    <2> HIDE DEF k
    <2>1. CASE n \in 1..k
      <3>1. elapsed'[n] = elapsed[n] /\ launched'[n] = launched[n]
        BY <1>1, <1>2, <1>3, <2>1 DEF k
      <3>2. QED
        BY <1>2, <2>1, <3>1
    <2>2. CASE n = k + 1
      <3>1. elapsed'[n] = Elapsed(time) /\ launched'[n] = time
        BY <1>1, <1>2, <1>3, <2>2 DEF k
      <3>2. QED
        BY <3>1
    <2>3. QED
      BY <1>2, <2>1, <2>2
  <1>6. content' \in Seq(W)
    <2>1. 1..k \subseteq 1..(k + 1)
      BY <1>2
    <2>2. V \subseteq W
      BY <2>1 DEF Bytes
    <2>3. bytes \in Seq(W)
      OBVIOUS
    <2> HIDE DEF V, W
    <2>4. content \in Seq(W)
      BY <1>2, <2>2, SmallerSeq
    <2>5. content \o bytes \in Seq(W)
      BY <2>3, <2>4
    <2>6. QED
      BY <1>1, <2>5
  <1>7. position' \in 0..Len(content')
    <2> DEFINE c == content'
    <2> HIDE DEF c, W
    <2>1. Len(c) \in Nat
      BY <1>6 DEF c
    <2>2. QED
      BY <1>1, <1>2, <2>1 DEF c
  <1>8. [partial |-> partial, lines |-> lineQueue]' \in Reading(1..Len(elapsed'))
    BY <1>1, <1>2, EmptyReading
  <1>9. content' \in Seq(Bytes(1..Len(elapsed'))) /\ \A n \in 1..Len(elapsed') : elapsed'[n] = Elapsed(launched'[n])
    BY <1>4, <1>5, <1>6
  <1> HIDE DEF k, V, W
  <1>10. stage' \in {"recording", "reading", "parsing", "parsed"} /\ circuits' \in Seq(Circuits)
         /\ position' = 0 /\ partial' = <<>> /\ lineQueue' = <<>> /\ circuits' = <<>> /\ Len(elapsed') = Len(launched')
    BY <1>1, <1>2, <1>4
  <1>11. QED
    BY <1>4, <1>7, <1>8, <1>9, <1>10 DEF FileKinds

LEMMA KindsWriteCircuit == FileKinds /\ WriteCircuit => FileKinds'
  <1> SUFFICES ASSUME FileKinds, WriteCircuit PROVE FileKinds'
    OBVIOUS
  <1> DEFINE n == Len(elapsed) + 1
  <1>1. PICK time \in LaunchTimes, length \in 1..MaxText : Writes(time, Append(Text(n, length), NL))
    BY DEF WriteCircuit
  <1>2. n \in Nat \ {0} /\ length \in Nat
    <2>1. elapsed \in Seq(Time)
      BY DEF FileKinds
    <2>2. QED
      BY <2>1, TraceFileAssumption
  <1> DEFINE bytes == Append(Text(n, length), NL)
  <1>3. bytes \in Seq(Bytes(1..n))
    <2> HIDE DEF n
    <2>1. QED
      BY <1>2, TextBytes
  <1>4. stage' \in {"recording", "reading"}
    BY <1>1 DEF WriteCircuit, Writes
  <1> HIDE DEF bytes
  <1>5. QED
    BY <1>1, <1>3, <1>4, KindsWrites DEF bytes

LEMMA KindsWriteTorn == FileKinds /\ WriteTorn => FileKinds'
  <1> SUFFICES ASSUME FileKinds, WriteTorn PROVE FileKinds'
    OBVIOUS
  <1> DEFINE n == Len(elapsed) + 1
  <1>1. PICK time \in LaunchTimes, length \in 1..MaxText : Writes(time, Text(n, length))
    BY DEF WriteTorn
  <1>2. n \in Nat \ {0} /\ length \in Nat
    <2>1. elapsed \in Seq(Time)
      BY DEF FileKinds
    <2>2. QED
      BY <2>1, TraceFileAssumption
  <1> DEFINE bytes == Text(n, length)
  <1>3. bytes \in Seq(Bytes(1..n))
    <2> HIDE DEF n
    <2>1. QED
      BY <1>2, TextBytes
  <1>4. stage' \in {"recording", "reading"}
    BY DEF WriteTorn
  <1> HIDE DEF bytes
  <1>5. QED
    BY <1>1, <1>3, <1>4, KindsWrites DEF bytes

\* The chunk that fread() returns, and what getLines makes of it.
Fetched == Min({FileChunk, Len(content) - position})
Chunk == SubSeq(content, position + 1, position + Fetched)
AfterChunk == Read(Last(Chunk) # NL, Split(Chunk, NewLine))

LEMMA ReadsChunk ==
    ASSUME FileKinds, ReadChunk
    PROVE  /\ position < Len(content) /\ stage = "reading"
           /\ Fetched \in Nat \ {0} /\ Fetched <= FileChunk /\ position + Fetched <= Len(content)
           /\ (Fetched = FileChunk \/ position + Fetched = Len(content))
           /\ FileChunkAt(Chunk, content, position, Fetched, 1..Len(elapsed))
           /\ Last(Chunk) = Chunk[Fetched]
           /\ position' = position + Fetched
           /\ partial' = AfterChunk.partial /\ lineQueue' = AfterChunk.lines
           /\ UNCHANGED <<stage, content, elapsed, launched, circuits>>
  <1> DEFINE n == Fetched
             k == Len(content) - position
             Q == {FileChunk, k}
  <1>1. content \in Seq(Bytes(1..Len(elapsed))) /\ position \in 0..Len(content) /\ elapsed \in Seq(Time)
    BY DEF FileKinds
  <1>2. stage = "reading" /\ position < Len(content) /\ UNCHANGED <<stage, content, elapsed, launched, circuits>>
    BY DEF ReadChunk
  <1>3. Len(content) \in Nat /\ position \in Nat /\ k \in Nat \ {0} /\ FileChunk \in Nat \ {0} /\ position + k = Len(content)
    <2>1. FileChunk \in Nat \ {0}
      BY TraceFileAssumption
    <2> DEFINE V == Bytes(1..Len(elapsed))
    <2> HIDE DEF V
    <2>2. content \in Seq(V)
      BY <1>1 DEF V
    <2>3. Len(content) \in Nat
      BY <2>2
    <2>4. QED
      BY <1>1, <1>2, <2>1, <2>3
  <1>4. n \in Q /\ \A y \in Q : n <= y
    <2>1. Q \subseteq Nat /\ Q # {}
      BY <1>3
    <2>2. n = Min(Q)
      BY DEF Fetched
    <2> HIDE DEF Q, n
    <2>3. QED
      BY <2>1, <2>2, LeastOf
  <1>5. n \in Nat \ {0} /\ n <= FileChunk /\ position + n <= Len(content)
        /\ (n = FileChunk \/ position + n = Len(content))
    <2>1. (n = FileChunk \/ n = k) /\ n <= FileChunk /\ n <= k
      BY <1>4
    <2> DEFINE l == Len(content)
               x == position
               f == FileChunk
    <2> HIDE DEF n, k, l, x, f
    <2>2. /\ l \in Nat /\ x \in Nat /\ k \in Nat \ {0} /\ f \in Nat \ {0} /\ x + k = l
          /\ (n = f \/ n = k) /\ n <= f /\ n <= k
      BY <1>3, <2>1 DEF l, x, f
    <2>3. n \in Nat \ {0} /\ n <= f /\ x + n <= l /\ (n = f \/ x + n = l)
      BY <2>2
    <2>4. QED
      BY <2>3 DEF l, x, f
  <1>6. NL \notin 1..Len(elapsed)
    <2>1. Len(elapsed) \in Nat
      BY <1>1
    <2>2. 1..Len(elapsed) \subseteq Nat
      BY <2>1
    <2>3. QED
      BY <2>2, TraceFileAssumption
  <1>7. FileChunkAt(Chunk, content, position, n, 1..Len(elapsed))
    BY <1>1, <1>3, <1>5, <1>6 DEF FileChunkAt, Chunk
  <1>8. Last(Chunk) = Chunk[n]
    <2>1. Len(Chunk) = n
      BY <1>7, FileChunkBytes
    <2>2. QED
      BY <2>1 DEF Last
  <1>9. position' = position + n /\ partial' = AfterChunk.partial /\ lineQueue' = AfterChunk.lines
    BY Zenon DEF ReadChunk, AfterChunk, Read, Chunk, Fetched, NewLine
  <1>10. QED
    BY <1>2, <1>5, <1>7, <1>8, <1>9

LEMMA KindsReadChunk == FileKinds /\ ReadChunk => FileKinds'
  <1> SUFFICES ASSUME FileKinds, ReadChunk PROVE FileKinds'
    OBVIOUS
  <1> DEFINE A == 1..Len(elapsed)
  <1>1. /\ stage = "reading"
        /\ Fetched \in Nat \ {0} /\ position + Fetched <= Len(content)
        /\ FileChunkAt(Chunk, content, position, Fetched, A)
        /\ position' = position + Fetched
        /\ partial' = AfterChunk.partial /\ lineQueue' = AfterChunk.lines
        /\ UNCHANGED <<stage, content, elapsed, launched, circuits>>
    BY ReadsChunk
  <1>2. [partial |-> partial, lines |-> lineQueue] \in Reading(A)
    BY DEF FileKinds
  <1>3. AfterChunk \in Reading(A)
    <2> DEFINE last == Last(Chunk) # NL
    <2>1. last \in BOOLEAN
      OBVIOUS
    <2> HIDE DEF last, A
    <2>2. Read(last, Split(Chunk, NewLine)) \in Reading(A)
      BY <1>1, <1>2, <2>1, ReadType
    <2>3. QED
      BY <2>2 DEF AfterChunk, last
  <1>4. [partial |-> AfterChunk.partial, lines |-> AfterChunk.lines] = AfterChunk
    <2> DEFINE r == AfterChunk
               U == Seq(A)
               Z == Seq(U \ {<<>>})
    <2>1. r \in [partial : U, lines : Z]
      BY <1>3 DEF Reading
    <2> HIDE DEF r, U, Z
    <2>2. [partial |-> r.partial, lines |-> r.lines] = r
      BY <2>1
    <2>3. QED
      BY <2>2 DEF r
  <1>5. [partial |-> partial, lines |-> lineQueue]' \in Reading(A)
    BY <1>1, <1>3, <1>4
  <1>6. position' \in 0..Len(content)
    <2> DEFINE V == Bytes(A)
    <2>1. content \in Seq(V) /\ position \in 0..Len(content)
      BY DEF FileKinds
    <2> HIDE DEF V
    <2>2. Len(content) \in Nat
      BY <2>1
    <2>3. QED
      BY <1>1, <2>1, <2>2
  <1>7. QED
    BY <1>1, <1>5, <1>6 DEF FileKinds

\* A line that was read says a time, and becomes a circuit.
LEMMA LineIsCircuit ==
    ASSUME FileKinds, lineQueue # <<>>
    PROVE  /\ FromCSV(Head(lineQueue)) \in Circuits /\ circuits \in Seq(Circuits)
           /\ partial \in Seq(1..Len(elapsed)) /\ lineQueue \in Seq(Seq(1..Len(elapsed)) \ {<<>>})
           /\ Tail(lineQueue) \in Seq(Seq(1..Len(elapsed)) \ {<<>>})
  <1> DEFINE A == 1..Len(elapsed)
             U == Seq(A)
             Z == U \ {<<>>}
             line == Head(lineQueue)
             c == FromCSV(line)
  <1>1. partial \in U /\ lineQueue \in Seq(Z) /\ elapsed \in Seq(Time) /\ circuits \in Seq(Circuits)
    <2>1. [partial |-> partial, lines |-> lineQueue] \in [partial : U, lines : Seq(Z)]
      BY DEF FileKinds, Reading
    <2> HIDE DEF U, Z
    <2>2. QED
      BY <2>1 DEF FileKinds
  <1>2. line \in Z /\ Tail(lineQueue) \in Seq(Z)
    <2> HIDE DEF Z
    <2>1. QED
      BY <1>1
  <1>3. Head(line) \in 1..Len(elapsed) /\ line \in Seq(Nat) \ {<<>>}
    <2> DEFINE n == Len(elapsed)
    <2>1. n \in Nat /\ A = 1..n
      BY <1>1
    <2> HIDE DEF n
    <2>2. line \in Seq(1..n) /\ line # <<>>
      BY <1>2, <2>1
    <2> DEFINE V == 1..n
    <2> HIDE DEF line, V
    <2>3. Head(line) \in V
      <3>1. line \in Seq(V) /\ line # <<>>
        BY <2>2 DEF V
      <3>2. QED
        BY <3>1
    <2>4. 1..n \subseteq Nat
      BY <2>1
    <2>5. line \in Seq(Nat)
      BY <2>2, <2>4, SmallerSeq
    <2>6. QED
      BY <2>2, <2>3, <2>5 DEF n, line, V
  <1> HIDE DEF line, Z, U
  <1>4. c \in Circuits
    <2>1. elapsed[Head(line)] \in Time
      BY <1>1, <1>3
    <2>2. Add(PlayerStart, elapsed[Head(line)]) \in Time
      BY <2>1, AddIsExact, TraceFileAssumption
    <2>3. QED
      BY <1>3, <2>2 DEF Circuits, FromCSV
  <1> HIDE DEF c
  <1>5. QED
    BY <1>1, <1>2, <1>4 DEF c, line, Z, U

LEMMA KindsParseLine == FileKinds /\ ParseLine => FileKinds'
  <1> SUFFICES ASSUME FileKinds, ParseLine PROVE FileKinds'
    OBVIOUS
  <1> DEFINE A == 1..Len(elapsed)
             U == Seq(A)
             Z == U \ {<<>>}
             c == FromCSV(Head(lineQueue))
  <1>1. /\ stage = "parsing" /\ lineQueue # <<>> /\ circuits' = InsertSorted(circuits, c)
        /\ lineQueue' = Tail(lineQueue)
        /\ UNCHANGED <<stage, content, elapsed, launched, position, partial>>
    BY DEF ParseLine
  <1>2. c \in Circuits /\ circuits \in Seq(Circuits) /\ partial \in U /\ Tail(lineQueue) \in Seq(Z)
    BY <1>1, LineIsCircuit
  <1> HIDE DEF c, Z, U
  <1>3. circuits' \in Seq(Circuits)
    <2>1. PICK i : Inserted(InsertSorted(circuits, c), circuits, c, i, Circuits)
      BY <1>2, InsertedInOrder
    <2>2. QED
      BY <1>1, <2>1 DEF Inserted
  <1>4. [partial |-> partial, lines |-> lineQueue]' \in Reading(A)
    <2>1. partial' \in U /\ lineQueue' \in Seq(Z)
      BY <1>1, <1>2
    <2>2. [partial |-> partial', lines |-> lineQueue'] \in [partial : U, lines : Seq(Z)]
      BY <2>1
    <2>3. QED
      BY <2>2 DEF Reading, U, Z
  <1>5. QED
    BY <1>1, <1>3, <1>4 DEF FileKinds

LEMMA KindsOthers == FileKinds /\ (CloseFile \/ EndOfFile \/ Parsed \/ UNCHANGED fileVars) => FileKinds'
  <1> SUFFICES ASSUME FileKinds, CloseFile \/ EndOfFile \/ Parsed \/ UNCHANGED fileVars PROVE FileKinds'
    OBVIOUS
  <1>1. UNCHANGED <<content, elapsed, launched, position, partial, lineQueue, circuits>>
    BY DEF CloseFile, EndOfFile, Parsed, fileVars
  <1>2. /\ stage' \in {"recording", "reading", "parsing", "parsed"}
        /\ stage' = "recording" => stage = "recording"
        /\ stage' \in {"recording", "reading"} => stage \in {"recording", "reading"}
    BY DEF CloseFile, EndOfFile, Parsed, fileVars, FileKinds
  <1>3. QED
    BY <1>1, <1>2 DEF FileKinds

LEMMA KindsInit == FileInit => FileKinds
  <1> SUFFICES ASSUME FileInit PROVE FileKinds
    OBVIOUS
  <1>1. stage = "recording" /\ content = <<>> /\ elapsed = <<>> /\ launched = <<>>
        /\ position = 0 /\ partial = <<>> /\ lineQueue = <<>> /\ circuits = <<>>
    BY DEF FileInit
  <1> DEFINE V == Bytes(1..Len(elapsed))
  <1> HIDE DEF V
  <1>2. launched \in Seq(LaunchTimes) /\ elapsed \in Seq(Time) /\ content \in Seq(V) /\ circuits \in Seq(Circuits)
        /\ Len(elapsed) = 0 /\ Len(launched) = 0 /\ Len(content) = 0
    BY <1>1
  <1>3. [partial |-> partial, lines |-> lineQueue] \in Reading(1..Len(elapsed))
    BY <1>1, EmptyReading
  <1>4. \A n \in 1..Len(elapsed) : elapsed[n] = Elapsed(launched[n])
    BY <1>2
  <1>5. QED
    BY <1>1, <1>2, <1>3, <1>4 DEF FileKinds, V

LEMMA KindsNext == FileKinds /\ [FileNext]_fileVars => FileKinds'
  BY KindsWriteCircuit, KindsWriteTorn, KindsReadChunk, KindsParseLine, KindsOthers DEF FileNext

LEMMA KindsAreTypes == FileKinds => FileTypeOK
  <1> SUFFICES ASSUME FileKinds PROVE FileTypeOK
    OBVIOUS
  <1> DEFINE A == 1..Len(elapsed)
  <1>1. elapsed \in Seq(Time) /\ launched \in Seq(LaunchTimes) /\ content \in Seq(Bytes(A))
        /\ [partial |-> partial, lines |-> lineQueue] \in Reading(A) /\ circuits \in Seq(Circuits)
    BY DEF FileKinds
  <1>2. launched \in Seq(Time)
    <2>1. LaunchTimes \subseteq Time
      BY TraceFileAssumption
    <2>2. QED
      BY <1>1, <2>1, SmallerSeq
  <1>3. A \subseteq Nat
    <2>1. Len(elapsed) \in Nat
      BY <1>1
    <2>2. QED
      BY <2>1
  <1> HIDE DEF A
  <1>4. content \in Seq(Nat \cup {NL})
    <2>1. Bytes(A) \subseteq Nat \cup {NL}
      BY <1>3 DEF Bytes
    <2>2. QED
      BY <1>1, <2>1, SmallerSeq
  <1>5. partial \in Seq(Nat) /\ lineQueue \in Seq(Seq(Nat) \ {<<>>})
    <2> DEFINE U == Seq(A)
               Z == U \ {<<>>}
               X == Seq(Nat) \ {<<>>}
    <2>1. [partial |-> partial, lines |-> lineQueue] \in [partial : U, lines : Seq(Z)]
      BY <1>1 DEF Reading
    <2>2. U \subseteq Seq(Nat)
      BY <1>3, SmallerSeq
    <2>3. Z \subseteq X
      BY <2>2
    <2> HIDE DEF U, Z, X
    <2>4. partial \in U /\ lineQueue \in Seq(Z)
      BY <2>1
    <2>5. partial \in Seq(Nat) /\ lineQueue \in Seq(X)
      BY <2>2, <2>3, <2>4, SmallerSeq
    <2>6. QED
      BY <2>5 DEF X
  <1>6. QED
    BY <1>1, <1>2, <1>4, <1>5 DEF FileTypeOK, FileKinds, Circuits

\* What getLines reads are lines that are not empty, and every circuit that is
\* parsed from one has a time whose nanoseconds are below a second.
THEOREM FileTypeCorrect == FileSpec => []FileTypeOK
  <1>1. FileSpec => []FileKinds
    BY KindsInit, KindsNext, PTL DEF FileSpec
  <1>2. QED
    BY <1>1, KindsAreTypes, PTL

\* The runs check the readers side by side: each step of one leaves the other idle,
\* so that what is proved of each holds of both.
LEMMA SideBySide == MCSpec => Spec /\ FileSpec
  <1>1. MCInit => Init /\ FileInit
    BY DEF MCInit
  <1>2. [MCLinesNext \/ MCFileNext]_<<vars, fileVars>> => [Next]_vars /\ [FileNext]_fileVars
    BY DEF MCLinesNext, MCFileNext, Next, FileNext
  <1>3. QED
    BY <1>1, <1>2, PTL DEF MCSpec, Spec, FileSpec

\* oniontrace-torctl.c and oniontrace-file.c: what is split and put together again
\* in both readers are bytes, and lines of them.
THEOREM ReadersTypeCorrect == Spec /\ FileSpec => []ReadersTypeOK
  BY LinesTypeCorrect, FileTypeCorrect, PTL DEF ReadersTypeOK

-----------------------------------------------------------------------------
(* How often a byte is in the file                                         *)

Count(s, b) == Cardinality({i \in DOMAIN s : s[i] = b})

LEMMA CountNone ==
    ASSUME NEW V, NEW s \in Seq(V), NEW b, b \notin V
    PROVE  Count(s, b) = 0
  <1>1. \A i \in DOMAIN s : s[i] \in V
    OBVIOUS
  <1>2. {i \in DOMAIN s : s[i] = b} = {}
    BY <1>1
  <1>3. QED
    BY <1>2, FS_EmptySet DEF Count

LEMMA CountEnd ==
    ASSUME NEW V, NEW s \in Seq(V), NEW e \in V
    PROVE  /\ Count(s, e) \in Nat /\ Count(Append(s, e), e) = Count(s, e) + 1
           /\ \A b : b # e => Count(Append(s, e), b) = Count(s, b)
  <1> DEFINE n == Len(s)
             u == Append(s, e)
             S == {i \in DOMAIN s : s[i] = e}
  <1>1. /\ n \in Nat /\ DOMAIN s = 1..n /\ DOMAIN u = 1..(n + 1) /\ u[n + 1] = e
        /\ \A i \in 1..n : u[i] = s[i]
    OBVIOUS
  <1> HIDE DEF u, n
  <1>2. \A i : i \in DOMAIN u <=> i \in 1..n \/ i = n + 1
    BY <1>1
  <1>3. n + 1 \notin 1..n
    BY <1>1
  <1>4. IsFiniteSet(S) /\ n + 1 \notin S
    <2>1. IsFiniteSet(1..n)
      BY <1>1, FS_Interval
    <2>2. S \subseteq 1..n
      BY <1>1
    <2>3. QED
      BY <1>3, <2>1, <2>2, FS_Subset
  <1>5. {i \in DOMAIN u : u[i] = e} = S \cup {n + 1}
    BY <1>1, <1>2
  <1>6. Cardinality(S) \in Nat /\ Cardinality(S \cup {n + 1}) = Cardinality(S) + 1
    <2> HIDE DEF S
    <2>1. QED
      BY <1>4, FS_AddElement, FS_CardinalityType
  <1>7. ASSUME NEW b, b # e PROVE {i \in DOMAIN u : u[i] = b} = {i \in DOMAIN s : s[i] = b}
    BY <1>1, <1>2, <1>7
  <1>8. QED
    BY <1>5, <1>6, <1>7 DEF Count, u

\* The text of a line brings its own bytes, and no other.
LEMMA CountText ==
    ASSUME NEW V, NEW s \in Seq(V), NEW n \in Nat \ {0}, n \notin V, NEW length \in Nat
    PROVE  /\ Count(s \o Text(n, length), n) = length
           /\ \A b : b # n => Count(s \o Text(n, length), b) = Count(s, b)
  <1> DEFINE x == Text(n, length)
             W == V \cup {n}
             m == Len(s)
             u == s \o x
  <1>1. x \in Seq(W) /\ Len(x) = length /\ \A i \in 1..length : x[i] = n
    <2>1. Len(x) = length /\ \A i \in 1..length : x[i] = n
      BY TextBytes
    <2>2. x \in Seq(Nat)
      BY TextBytes
    <2> HIDE DEF x
    <2>3. \A i \in 1..Len(x) : x[i] \in W
      BY <2>1
    <2> HIDE DEF W
    <2>4. x \in Seq(W)
      BY <2>2, <2>3, NarrowerSeq
    <2>5. QED
      BY <2>1, <2>4
  <1>2. s \in Seq(W) /\ m \in Nat /\ DOMAIN s = 1..m /\ \A i \in 1..m : s[i] # n
    <2>1. V \subseteq W
      OBVIOUS
    <2>2. s \in Seq(W)
      <3> HIDE DEF W
      <3>1. QED
        BY <2>1, SmallerSeq
    <2>3. QED
      BY <2>2
  <1> HIDE DEF x, W, m
  <1>3. IsConcat(u, s, x, W)
    BY <1>1, <1>2, ConcatIs
  <1> HIDE DEF u
  <1>4. /\ DOMAIN u = 1..(m + length)
        /\ \A i \in 1..m : u[i] = s[i]
        /\ \A i \in 1..length : u[m + i] = n
    <2>1. u \in Seq(W) /\ Len(u) = m + length
      BY <1>1, <1>3 DEF IsConcat, m
    <2>2. DOMAIN u = 1..(m + length)
      BY <2>1
    <2>3. QED
      BY <1>1, <1>3, <2>2 DEF IsConcat, m
  <1>5. \A i : i \in 1..(m + length) <=> i \in 1..m \/ i \in (m + 1)..(m + length)
    BY <1>2
  <1>6. \A i \in (m + 1)..(m + length) : u[i] = n /\ i \notin 1..m
    <2>1. SUFFICES ASSUME NEW i \in (m + 1)..(m + length) PROVE u[i] = n /\ i \notin 1..m
      OBVIOUS
    <2>2. i - m \in 1..length /\ m + (i - m) = i /\ i \notin 1..m
      BY <1>2
    <2>3. QED
      BY <1>4, <2>2
  <1>7. {i \in DOMAIN u : u[i] = n} = (m + 1)..(m + length)
    BY <1>2, <1>4, <1>5, <1>6
  <1>8. Cardinality((m + 1)..(m + length)) = length
    <2>1. m + 1 \in Int /\ m + length \in Int /\ (m + 1 > m + length => length = 0) /\ (m + length) - (m + 1) + 1 = length
      BY <1>2
    <2>2. QED
      BY <2>1, FS_Interval
  <1>9. ASSUME NEW b, b # n PROVE {i \in DOMAIN u : u[i] = b} = {i \in DOMAIN s : s[i] = b}
    BY <1>2, <1>4, <1>5, <1>6, <1>9
  <1>10. QED
    BY <1>7, <1>8, <1>9 DEF Count, u, x

-----------------------------------------------------------------------------
(* What the Recorder writes                                                *)

\* The lines of the file that have an end, and what stands behind the last one.
WholeOf(s) == [n \in 1..Count(s, NL) |-> Text(n, Count(s, n))]
TornOf(s) == Text(Count(s, NL) + 1, Count(s, Count(s, NL) + 1))

\* The file s has k lines with an end.
Lined(s, k) ==
    /\ Count(s, NL) = k
    /\ \A n \in 1..k : Count(s, n) \in 1..MaxText
    /\ Count(s, k + 1) \in 0..MaxText
    /\ s = Joined(WholeOf(s), NewLine) \o TornOf(s)
    /\ NoEmptyLine(s)

LEMMA NoText == ASSUME NEW n PROVE Text(n, 0) = <<>>
  <1>1. 1..0 = {}
    OBVIOUS
  <1>2. QED
    BY <1>1 DEF Text

LEMMA LinesOfFile ==
    ASSUME NEW s, NEW k \in Nat, Lined(s, k)
    PROVE  /\ WholeOf(s) \in Seq(Seq(Nat)) /\ Len(WholeOf(s)) = k /\ WholeOf(s) \in Seq(Seq(Nat) \ {<<>>})
           /\ \A n \in 1..k : WholeOf(s)[n] = Text(n, Count(s, n))
           /\ TornOf(s) \in Seq(Nat) /\ Len(TornOf(s)) <= MaxText
           /\ \A n \in 1..k : Len(WholeOf(s)[n]) <= MaxText
  <1> DEFINE ws == WholeOf(s)
             U == Seq(Nat)
             Z == U \ {<<>>}
  <1>1. /\ Count(s, NL) = k /\ MaxText \in Nat
        /\ (\A n \in 1..k : Count(s, n) \in 1..MaxText) /\ Count(s, k + 1) \in 0..MaxText
    BY TraceFileAssumption DEF Lined
  <1>2. ASSUME NEW n \in 1..k
        PROVE  Text(n, Count(s, n)) \in Z /\ Len(Text(n, Count(s, n))) <= MaxText
    <2> DEFINE c == Count(s, n)
               x == Text(n, c)
    <2>1. n \in Nat \ {0} /\ c \in Nat /\ c >= 1 /\ c <= MaxText
      BY <1>1
    <2> HIDE DEF c
    <2>2. x \in U /\ Len(x) = c
      BY <2>1, TextBytes
    <2> HIDE DEF x
    <2>3. x # <<>>
      BY <2>1, <2>2
    <2>4. QED
      BY <2>1, <2>2, <2>3 DEF x, c
  <1>3. ws = [n \in 1..k |-> Text(n, Count(s, n))]
    BY <1>1 DEF WholeOf
  <1> HIDE DEF ws, U, Z
  <1>4. ws \in Seq(Z) /\ Len(ws) = k /\ \A n \in 1..k : ws[n] = Text(n, Count(s, n))
    BY <1>2, <1>3
  <1>5. ws \in Seq(U)
    <2>1. Z \subseteq U
      BY DEF Z
    <2>2. QED
      BY <1>4, <2>1, SmallerSeq
  <1>6. TornOf(s) \in Seq(Nat) /\ Len(TornOf(s)) <= MaxText
    <2> DEFINE c == Count(s, k + 1)
    <2>1. k + 1 \in Nat \ {0} /\ c \in Nat /\ c <= MaxText
      BY <1>1
    <2> HIDE DEF c
    <2>2. Text(k + 1, c) \in Seq(Nat) /\ Len(Text(k + 1, c)) = c
      BY <2>1, TextBytes
    <2>3. TornOf(s) = Text(k + 1, c)
      BY <1>1 DEF TornOf, c
    <2>4. QED
      BY <2>1, <2>2, <2>3
  <1>7. QED
    BY <1>2, <1>4, <1>5, <1>6 DEF ws, U, Z

LEMMA LinedEmpty == Lined(<<>>, 0)
  <1>1. \A b : Count(<<>>, b) = 0
    <2>1. SUFFICES ASSUME NEW b PROVE Count(<<>>, b) = 0
      OBVIOUS
    <2>2. <<>> \in Seq({}) /\ b \notin {}
      OBVIOUS
    <2> DEFINE e == <<>>
               V == {}
    <2>3. e \in Seq(V) /\ b \notin V
      BY <2>2
    <2> HIDE DEF e, V
    <2>4. Count(e, b) = 0
      BY <2>3, CountNone
    <2>5. QED
      BY <2>4 DEF e
  <1>2. 1..0 = {} /\ 0 + 1 = 1
    OBVIOUS
  <1>3. WholeOf(<<>>) = <<>>
    BY <1>1, <1>2 DEF WholeOf
  <1>4. TornOf(<<>>) = <<>>
    BY <1>1, <1>2, NoText DEF TornOf
  <1>5. Joined(WholeOf(<<>>), NewLine) \o TornOf(<<>>) = <<>>
    BY <1>3, <1>4, JoinedEmpty
  <1>6. NoEmptyLine(<<>>)
    BY DEF NoEmptyLine
  <1>7. MaxText \in Nat
    BY TraceFileAssumption
  <1>8. QED
    BY <1>1, <1>2, <1>5, <1>6, <1>7 DEF Lined

\* While nothing was torn, the file has only lines with an end.
LEMMA NothingTorn ==
    ASSUME NEW k \in Nat, NEW s \in Seq(Bytes(1..k)), Lined(s, k)
    PROVE  /\ s = Joined(WholeOf(s), NewLine) /\ k + 1 \notin Bytes(1..k) /\ k + 1 \in Nat \ {0} /\ k + 1 # NL
           /\ NL \notin Nat
  <1>1. k + 1 \notin Bytes(1..k) /\ k + 1 \in Nat \ {0} /\ k + 1 # NL /\ NL \notin Nat
    <2>1. k + 1 \in Nat /\ k + 1 \notin 1..k
      OBVIOUS
    <2>2. NL \notin Nat
      BY TraceFileAssumption
    <2>3. QED
      BY <2>1, <2>2 DEF Bytes
  <1>2. Count(s, k + 1) = 0
    <2> DEFINE V == Bytes(1..k)
    <2> HIDE DEF V
    <2>1. s \in Seq(V) /\ k + 1 \notin V
      BY <1>1 DEF V
    <2>2. QED
      BY <2>1, CountNone
  <1>3. TornOf(s) = <<>>
    <2>1. Count(s, NL) = k
      BY DEF Lined
    <2>2. QED
      BY <1>2, <2>1, NoText DEF TornOf
  <1>4. s = Joined(WholeOf(s), NewLine) \o <<>>
    BY <1>3 DEF Lined
  <1>5. Joined(WholeOf(s), NewLine) \o <<>> = Joined(WholeOf(s), NewLine)
    <2> DEFINE j == Joined(WholeOf(s), NewLine)
    <2>1. WholeOf(s) \in Seq(Seq(Nat) \ {<<>>})
      BY LinesOfFile
    <2>2. WholeOf(s) \in Seq(Seq(Bytes(Nat))) /\ NewLine \in Seq(Bytes(Nat))
      BY <2>1, TextIsBytes
    <2>3. j \in Seq(Bytes(Nat))
      BY <2>2, JoinedBoth
    <2> HIDE DEF j
    <2>4. j \o <<>> = j
      BY <2>3
    <2>5. QED
      BY <2>4 DEF j
  <1>6. QED
    BY <1>1, <1>4, <1>5

\* The counts of a file that grows by the text of a line.
LEMMA TextCounts ==
    ASSUME NEW k \in Nat, NEW s \in Seq(Bytes(1..k)), Lined(s, k), NEW length \in Nat
    PROVE  /\ Count(s \o Text(k + 1, length), k + 1) = length
           /\ Count(s \o Text(k + 1, length), NL) = k
           /\ \A n \in 1..k : Count(s \o Text(k + 1, length), n) = Count(s, n)
           /\ s \o Text(k + 1, length) \in Seq(Bytes(1..(k + 1)))
  <1> DEFINE V == Bytes(1..k)
             m == k + 1
             x == s \o Text(m, length)
  <1>1. m \notin V /\ m \in Nat \ {0} /\ m # NL
    BY NothingTorn
  <1>2. \A n \in 1..k : n # m
    OBVIOUS
  <1> HIDE DEF V, m
  <1>3. s \in Seq(V)
    BY DEF V
  <1>4. Count(x, m) = length /\ \A b : b # m => Count(x, b) = Count(s, b)
    BY <1>1, <1>3, CountText
  <1>5. Count(x, NL) = k
    <2>1. Count(s, NL) = k
      BY DEF Lined
    <2>2. QED
      BY <1>1, <1>4, <2>1
  <1>6. x \in Seq(Bytes(1..m))
    <2>1. Text(m, length) \in Seq(Bytes(1..m))
      BY <1>1, TextBytes
    <2>2. V \subseteq Bytes(1..m)
      <3>1. 1..k \subseteq 1..m
        BY DEF m
      <3>2. QED
        BY <3>1 DEF V, Bytes
    <2>3. s \in Seq(Bytes(1..m))
      BY <1>3, <2>2, SmallerSeq
    <2> DEFINE W == Bytes(1..m)
               u == Text(m, length)
    <2> HIDE DEF W, u
    <2>4. s \in Seq(W) /\ u \in Seq(W)
      BY <2>1, <2>3 DEF W, u
    <2>5. s \o u \in Seq(W)
      BY <2>4
    <2>6. QED
      BY <2>5 DEF W, u
  <1>7. QED
    BY <1>2, <1>4, <1>5, <1>6 DEF m

\* A text never makes an empty line.
LEMMA TextNotEmpty ==
    ASSUME NEW V, NEW s \in Seq(V), NoEmptyLine(s), NEW x \in Seq(V), \A i \in 1..Len(x) : x[i] # NL
    PROVE  NoEmptyLine(s \o x)
  <1> DEFINE u == s \o x
             m == Len(s)
             l == Len(x)
  <1>1. IsConcat(u, s, x, V)
    BY ConcatIs
  <1>2. m \in Nat /\ l \in Nat
    OBVIOUS
  <1> HIDE DEF u, m, l
  <1>3. /\ Len(u) = m + l
        /\ \A i \in 1..m : u[i] = s[i]
        /\ \A i \in 1..l : u[m + i] = x[i]
    BY <1>1 DEF IsConcat, m, l
  <1>4. ASSUME NEW i \in 1..(m + l), u[i] = NL PROVE i > 1 /\ u[i - 1] # NL
    <2>1. i \in 1..m
      <3>1. SUFFICES ASSUME i > m PROVE FALSE
        BY <1>2
      <3>2. i - m \in 1..l /\ m + (i - m) = i
        BY <1>2, <3>1
      <3>3. u[i] = x[i - m] /\ x[i - m] # NL
        BY <1>3, <3>2 DEF l
      <3>4. QED
        BY <1>4, <3>3
    <2>2. s[i] = NL /\ i > 1 /\ s[i - 1] # NL
      BY <1>3, <1>4, <2>1 DEF NoEmptyLine, m
    <2>3. i - 1 \in 1..m
      BY <1>2, <2>1, <2>2
    <2>4. QED
      BY <1>3, <2>2, <2>3
  <1>5. NoEmptyLine(u)
    BY <1>3, <1>4 DEF NoEmptyLine
  <1>6. QED
    BY <1>5 DEF u

LEMMA LinedTorn ==
    ASSUME NEW k \in Nat, NEW s \in Seq(Bytes(1..k)), Lined(s, k), NEW length \in 1..MaxText
    PROVE  Lined(s \o Text(k + 1, length), k)
  <1> DEFINE x == Text(k + 1, length)
             u == s \o x
  <1>0. length \in Nat /\ MaxText \in Nat /\ length \in 0..MaxText
    BY TraceFileAssumption
  <1>1. /\ Count(u, k + 1) = length /\ Count(u, NL) = k
        /\ \A n \in 1..k : Count(u, n) = Count(s, n)
    BY <1>0, TextCounts
  <1>2. s = Joined(WholeOf(s), NewLine) /\ k + 1 \in Nat \ {0} /\ k + 1 # NL
    BY NothingTorn
  <1>3. Count(s, NL) = k /\ (\A n \in 1..k : Count(s, n) \in 1..MaxText) /\ NoEmptyLine(s)
    BY DEF Lined
  <1>4. NoEmptyLine(u)
    <2> DEFINE W == Bytes(1..(k + 1))
    <2>1. x \in Seq(W) /\ Len(x) = length /\ \A i \in 1..length : x[i] = k + 1
      BY <1>0, <1>2, TextBytes
    <2>2. s \in Seq(W)
      <3>1. 1..k \subseteq 1..(k + 1)
        OBVIOUS
      <3>2. Bytes(1..k) \subseteq W
        BY <3>1 DEF Bytes
      <3> HIDE DEF W
      <3>3. QED
        BY <3>2, SmallerSeq
    <2> HIDE DEF W, x
    <2>3. \A i \in 1..Len(x) : x[i] # NL
      BY <1>2, <2>1
    <2>4. QED
      BY <1>3, <2>1, <2>2, <2>3, TextNotEmpty
  <1> HIDE DEF u, x
  <1>5. WholeOf(u) = WholeOf(s)
    BY <1>1, <1>3 DEF WholeOf
  <1>6. TornOf(u) = x
    BY <1>1 DEF TornOf, x
  <1>7. u = Joined(WholeOf(u), NewLine) \o TornOf(u)
    BY <1>2, <1>5, <1>6, Zenon DEF u
  <1>8. Lined(u, k)
    BY <1>0, <1>1, <1>3, <1>4, <1>7 DEF Lined
  <1>9. QED
    BY <1>8 DEF u, x

LEMMA LinedMore ==
    ASSUME NEW k \in Nat, NEW s \in Seq(Bytes(1..k)), Lined(s, k), NEW length \in 1..MaxText
    PROVE  Lined(s \o Append(Text(k + 1, length), NL), k + 1)
  <1> DEFINE x == Text(k + 1, length)
             m == k + 1
             u == s \o x
             V == Bytes(1..m)
             y == Append(u, NL)
  <1>0. length \in Nat /\ length >= 1 /\ MaxText \in Nat
    BY TraceFileAssumption
  <1>1. /\ Count(u, m) = length /\ Count(u, NL) = k
        /\ \A n \in 1..k : Count(u, n) = Count(s, n)
        /\ u \in Seq(V)
    BY <1>0, TextCounts
  <1>2. s = Joined(WholeOf(s), NewLine) /\ m \in Nat \ {0} /\ m # NL /\ NL \notin Nat
    BY NothingTorn
  <1>3. Count(s, NL) = k /\ (\A n \in 1..k : Count(s, n) \in 1..MaxText)
    BY DEF Lined
  <1>4. Lined(u, k)
    BY LinedTorn
  <1>5. x \in Seq(V) /\ Len(x) = length /\ (\A i \in 1..length : x[i] = m) /\ x \in Seq(Nat)
    BY <1>0, <1>2, TextBytes
  <1>6. s \in Seq(V) /\ NL \in V
    <2>1. 1..k \subseteq 1..m
      OBVIOUS
    <2>2. Bytes(1..k) \subseteq V /\ NL \in V
      BY <2>1 DEF Bytes
    <2> HIDE DEF V
    <2>3. QED
      BY <2>2, SmallerSeq
  <1>7. s \o Append(x, NL) = y
    <2> HIDE DEF x, V
    <2>1. \A a, b \in Seq(V) : \A c \in V : a \o Append(b, c) = Append(a \o b, c)
      OBVIOUS
    <2>2. QED
      BY <1>5, <1>6, <2>1
  <1>8. Count(y, NL) = m /\ \A b : b # NL => Count(y, b) = Count(u, b)
    <2> HIDE DEF u, V
    <2>1. Count(y, NL) = Count(u, NL) + 1 /\ \A b : b # NL => Count(y, b) = Count(u, b)
      BY <1>1, <1>6, CountEnd
    <2>2. QED
      BY <1>1, <2>1
  <1>9. /\ \A n \in 1..k : Count(y, n) = Count(s, n)
        /\ Count(y, m) = length /\ Count(y, m + 1) = 0
    <2>1. \A n \in 1..k : n # NL
      BY <1>2
    <2>2. Count(y, m + 1) = Count(u, m + 1)
      <3>1. m + 1 # NL
        BY <1>2
      <3> HIDE DEF y, u, m
      <3>2. QED
        BY <1>8, <3>1
    <2>3. Count(u, m + 1) = 0
      <3>1. m + 1 \notin V
        <4>1. m + 1 \notin 1..m /\ m + 1 \in Nat
          OBVIOUS
        <4>2. QED
          BY <1>2, <4>1 DEF Bytes
      <3> HIDE DEF V, u
      <3>2. QED
        BY <1>1, <3>1, CountNone
    <2> HIDE DEF y, u, m
    <2>4. QED
      BY <1>1, <1>2, <1>8, <2>1, <2>2, <2>3
  <1>10. WholeOf(y) = Append(WholeOf(s), x)
    <2> DEFINE ws == WholeOf(s)
               Z == Seq(Nat)
    <2>1. ws \in Seq(Z) /\ Len(ws) = k /\ \A n \in 1..k : ws[n] = Text(n, Count(s, n))
      BY LinesOfFile
    <2>2. WholeOf(y) = [n \in 1..(k + 1) |-> Text(n, Count(y, n))]
      BY <1>8 DEF WholeOf
    <2> HIDE DEF ws, y, Z
    <2>3. x \in Z
      BY <1>5 DEF Z
    <2>4. \A n \in 1..(k + 1) : n \in 1..k \/ n = m
      OBVIOUS
    <2>5. Text(m, Count(y, m)) = x
      BY <1>9
    <2> HIDE DEF x, m
    <2>6. Append(ws, x) \in Seq(Z) /\ Len(Append(ws, x)) = m /\ Append(ws, x)[m] = x /\ \A n \in 1..k : Append(ws, x)[n] = ws[n]
      BY <2>1, <2>3 DEF m
    <2>7. \A n \in 1..m : Text(n, Count(y, n)) = Append(ws, x)[n]
      BY <1>9, <2>1, <2>4, <2>5, <2>6 DEF m
    <2> DEFINE a == Append(ws, x)
    <2>8. a = [n \in 1..m |-> a[n]]
      <3> HIDE DEF a
      <3>1. a \in Seq(Z) /\ Len(a) = m
        BY <2>6 DEF a
      <3>2. QED
        BY <3>1
    <2>9. WholeOf(y) = a
      BY <2>2, <2>7, <2>8 DEF m
    <2>10. QED
      BY <2>9 DEF ws
  <1>11. TornOf(y) = <<>>
    BY <1>8, <1>9, NoText DEF TornOf
  <1>12. y = Joined(WholeOf(y), NewLine) \o TornOf(y)
    <2> DEFINE ws == WholeOf(s)
               B == Bytes(Nat)
               j == Joined(ws, NewLine)
    <2>1. ws \in Seq(Seq(B)) /\ NewLine \in Seq(B) /\ x \in Seq(B)
      <3>1. ws \in Seq(Seq(Nat) \ {<<>>})
        BY LinesOfFile
      <3> HIDE DEF ws, x, B
      <3>2. QED
        BY <1>5, <3>1, TextIsBytes DEF B
    <2>2. Joined(Append(ws, x), NewLine) = j \o (x \o NewLine) /\ j \in Seq(B)
      <3> HIDE DEF ws, x, B
      <3>1. QED
        BY <2>1, JoinedMore
    <2>3. x \o NewLine = Append(x, NL)
      <3> HIDE DEF x
      <3>1. QED
        BY <1>5 DEF NewLine
    <2>4. y = j \o Append(x, NL)
      <3>1. s = j
        BY <1>2
      <3> HIDE DEF y, x, j
      <3>2. QED
        BY <1>7, <3>1
    <2>5. y = Joined(WholeOf(y), NewLine)
      <3> HIDE DEF y, x, j, ws
      <3>1. QED
        BY <1>10, <2>2, <2>3, <2>4 DEF ws
    <2>6. y \in Seq(V)
      <3> HIDE DEF u, V
      <3>1. QED
        BY <1>1, <1>6
    <2> HIDE DEF y, V
    <2>7. y \o <<>> = y
      BY <2>6
    <2>8. QED
      BY <1>11, <2>5, <2>7
  <1>13. NoEmptyLine(y)
    <2> DEFINE l == Len(u)
    <2>1. l \in Nat /\ l >= 1 /\ u[l] # NL
      <3>1. IsConcat(u, s, x, V)
        BY <1>5, <1>6, ConcatIs
      <3> HIDE DEF u, x, V
      <3>2. Len(u) = Len(s) + length /\ u[Len(s) + length] = x[length] /\ Len(s) \in Nat
        <4>1. length \in 1..length
          BY <1>0
        <4>2. Len(s) \in Nat
          OBVIOUS
        <4>3. QED
          BY <1>5, <3>1, <4>1, <4>2 DEF IsConcat
      <3>3. x[length] = m
        BY <1>0, <1>5
      <3>4. QED
        BY <1>0, <1>2, <3>2, <3>3
    <2>2. Len(y) = l + 1 /\ y[l + 1] = NL /\ \A i \in 1..l : y[i] = u[i]
      <3> HIDE DEF u, V
      <3>1. QED
        BY <1>1, <1>6
    <2>3. NoEmptyLine(u)
      BY <1>4 DEF Lined
    <2> HIDE DEF y, u, l
    <2>4. ASSUME NEW i \in 1..(l + 1), y[i] = NL PROVE i > 1 /\ y[i - 1] # NL
      <3>1. CASE i = l + 1
        <4>1. i - 1 = l /\ l \in 1..l /\ i > 1
          BY <2>1, <3>1
        <4>2. QED
          BY <2>1, <2>2, <4>1
      <3>2. CASE i # l + 1
        <4>1. i \in 1..l
          BY <2>1, <3>2
        <4>2. u[i] = NL
          BY <2>2, <2>4, <4>1
        <4>3. i > 1 /\ u[i - 1] # NL
          BY <2>3, <4>1, <4>2 DEF NoEmptyLine, l
        <4>4. i - 1 \in 1..l
          BY <2>1, <4>1, <4>3
        <4>5. QED
          BY <2>2, <4>3, <4>4
      <3>3. QED
        BY <3>1, <3>2
    <2>5. QED
      BY <2>2, <2>4 DEF NoEmptyLine
  <1>14. \A n \in 1..m : Count(y, n) \in 1..MaxText
    <2>1. \A n \in 1..m : n \in 1..k \/ n = m
      OBVIOUS
    <2> HIDE DEF y, m
    <2>2. QED
      BY <1>3, <1>9, <2>1
  <1>15. Count(y, m + 1) \in 0..MaxText
    <2> HIDE DEF y, m
    <2>1. QED
      BY <1>0, <1>9
  <1>16. Lined(y, m)
    <2> HIDE DEF y, m
    <2>1. QED
      BY <1>8, <1>12, <1>13, <1>14, <1>15 DEF Lined
  <1>17. QED
    BY <1>7, <1>16

-----------------------------------------------------------------------------
(* The file always has lines, each of its own number                       *)

\* One line for each circuit, but for the torn one.
FileText == \E k \in 0..Len(elapsed) : Lined(content, k) /\ (stage = "recording" => k = Len(elapsed))

LEMMA WritesText ==
    ASSUME FileKinds, FileText, NEW time \in LaunchTimes, NEW bytes, Writes(time, bytes)
    PROVE  /\ Len(elapsed) \in Nat /\ Len(elapsed') = Len(elapsed) + 1
           /\ content \in Seq(Bytes(1..Len(elapsed))) /\ Lined(content, Len(elapsed))
           /\ content' = content \o bytes
  <1>1. elapsed \in Seq(Time) /\ content \in Seq(Bytes(1..Len(elapsed)))
    BY DEF FileKinds
  <1>2. stage = "recording" /\ content' = content \o bytes /\ elapsed' = Append(elapsed, Elapsed(time))
    BY DEF Writes
  <1>3. Elapsed(time) \in Time
    BY ElapsedIsTime
  <1>4. Len(elapsed) \in Nat /\ Len(elapsed') = Len(elapsed) + 1
    BY <1>1, <1>2, <1>3
  <1>5. QED
    BY <1>1, <1>2, <1>4 DEF FileText

LEMMA TextWriteCircuit == FileKinds /\ FileText /\ WriteCircuit => FileText'
  <1> SUFFICES ASSUME FileKinds, FileText, WriteCircuit PROVE FileText'
    OBVIOUS
  <1> DEFINE k == Len(elapsed)
  <1>1. PICK time \in LaunchTimes, length \in 1..MaxText : Writes(time, Append(Text(k + 1, length), NL))
    BY DEF WriteCircuit
  <1>2. /\ k \in Nat /\ Len(elapsed') = k + 1 /\ content \in Seq(Bytes(1..k)) /\ Lined(content, k)
        /\ content' = content \o Append(Text(k + 1, length), NL)
    BY <1>1, WritesText
  <1>3. Lined(content', k + 1)
    <2> HIDE DEF k
    <2>1. QED
      BY <1>2, LinedMore
  <1>4. k + 1 \in 0..Len(elapsed')
    BY <1>2
  <1>5. QED
    BY <1>2, <1>3, <1>4 DEF FileText

LEMMA TextWriteTorn == FileKinds /\ FileText /\ WriteTorn => FileText'
  <1> SUFFICES ASSUME FileKinds, FileText, WriteTorn PROVE FileText'
    OBVIOUS
  <1> DEFINE k == Len(elapsed)
  <1>1. PICK time \in LaunchTimes, length \in 1..MaxText : Writes(time, Text(k + 1, length))
    BY DEF WriteTorn
  <1>2. /\ k \in Nat /\ Len(elapsed') = k + 1 /\ content \in Seq(Bytes(1..k)) /\ Lined(content, k)
        /\ content' = content \o Text(k + 1, length)
    BY <1>1, WritesText
  <1>3. Lined(content', k)
    <2> HIDE DEF k
    <2>1. QED
      BY <1>2, LinedTorn
  <1>4. k \in 0..Len(elapsed')
    BY <1>2
  <1>5. stage' # "recording"
    BY DEF WriteTorn
  <1>6. QED
    BY <1>3, <1>4, <1>5 DEF FileText

LEMMA TextOthers ==
    FileText /\ (CloseFile \/ ReadChunk \/ EndOfFile \/ ParseLine \/ Parsed \/ UNCHANGED fileVars) => FileText'
  <1> SUFFICES ASSUME FileText, CloseFile \/ ReadChunk \/ EndOfFile \/ ParseLine \/ Parsed \/ UNCHANGED fileVars
               PROVE  FileText'
    OBVIOUS
  <1>1. UNCHANGED <<content, elapsed>> /\ (stage' = "recording" => stage = "recording")
    BY DEF CloseFile, ReadChunk, EndOfFile, ParseLine, Parsed, fileVars
  <1>2. QED
    BY <1>1 DEF FileText

LEMMA TextInit == FileInit => FileText
  <1> SUFFICES ASSUME FileInit PROVE FileText
    OBVIOUS
  <1>1. content = <<>> /\ Len(elapsed) = 0
    BY DEF FileInit
  <1>2. QED
    BY <1>1, LinedEmpty DEF FileText

LEMMA TextNext == FileKinds /\ FileText /\ [FileNext]_fileVars => FileText'
  BY TextWriteCircuit, TextWriteTorn, TextOthers DEF FileNext

\* What is known of the file, whatever is done with it.
LEMMA FileLines ==
    ASSUME FileKinds, FileText
    PROVE  \E k \in 0..Len(elapsed) :
              /\ k = Count(content, NL) /\ k \in Nat /\ Lined(content, k)
              /\ Ends(NewLine, Nat, Bytes(Nat))
              /\ content \in Seq(Bytes(Nat)) /\ Len(content) \in Nat
              /\ WholeOf(content) \in Seq(Seq(Nat)) /\ Len(WholeOf(content)) = k
              /\ WholeOf(content) \in Seq(Seq(Nat) \ {<<>>})
              /\ TornOf(content) \in Seq(Nat) /\ Len(TornOf(content)) <= MaxText
              /\ \A n \in 1..k : Len(WholeOf(content)[n]) <= MaxText
              /\ content = Joined(WholeOf(content), NewLine) \o TornOf(content)
              /\ NoEmptyLine(content)
  <1>1. PICK k \in 0..Len(elapsed) : Lined(content, k)
    BY DEF FileText
  <1>2. content \in Seq(Bytes(1..Len(elapsed))) /\ elapsed \in Seq(Time)
    BY DEF FileKinds
  <1>3. Len(elapsed) \in Nat /\ k \in Nat /\ 1..Len(elapsed) \subseteq Nat
    BY <1>2
  <1>4. content \in Seq(Bytes(Nat))
    <2>1. Bytes(1..Len(elapsed)) \subseteq Bytes(Nat)
      BY <1>3 DEF Bytes
    <2>2. QED
      BY <1>2, <2>1, SmallerSeq
  <1>5. Len(content) \in Nat
    <2> DEFINE B == Bytes(Nat)
    <2> HIDE DEF B
    <2>1. content \in Seq(B)
      BY <1>4 DEF B
    <2>2. QED
      BY <2>1
  <1>6. Ends(NewLine, Nat, Bytes(Nat))
    <2>1. NL \notin Nat
      BY TraceFileAssumption
    <2>2. QED
      BY <2>1 DEF Ends, NewLine, Bytes
  <1>7. /\ WholeOf(content) \in Seq(Seq(Nat)) /\ Len(WholeOf(content)) = k
        /\ WholeOf(content) \in Seq(Seq(Nat) \ {<<>>})
        /\ TornOf(content) \in Seq(Nat) /\ Len(TornOf(content)) <= MaxText
        /\ \A n \in 1..k : Len(WholeOf(content)[n]) <= MaxText
    BY <1>1, <1>3, LinesOfFile
  <1>8. QED
    BY <1>1, <1>3, <1>4, <1>5, <1>6, <1>7 DEF Lined

-----------------------------------------------------------------------------
(* What getLines has read                                                  *)

LEMMA NextMultiple ==
    ASSUME NEW a \in Nat, NEW c \in Nat \ {0}, a % c = 0
    PROVE  (a + c) % c = 0
  <1> DEFINE j == a \div c
  <1>1. a = j * c /\ j \in Nat
    OBVIOUS
  <1> HIDE DEF j
  <1>2. a + c = (j + 1) * c /\ j + 1 \in Nat
    BY <1>1
  <1>3. ((j + 1) * c) % c = 0
    BY <1>2
  <1>4. QED
    BY <1>2, <1>3

\* As long as the file is not at its end, the chunks were full, and the lines and
\* the partial one are what they said.  Behind the last chunk, the partial line
\* may have been read long before.
FileRead ==
    ~CutBeforeNewline /\ stage = "reading" =>
        /\ position % FileChunk = 0 \/ position = Len(content)
        /\ position < Len(content) =>
              HasRead([partial |-> partial, lines |-> lineQueue], content, position, Nat)
        /\ \E x \in Seq(Nat) : Joined(lineQueue, NewLine) \o x = SubSeq(content, 1, position)

LEMMA ChunkDoesNotBegin ==
    ASSUME ~CutBeforeNewline, position \in Nat, position < Len(content), Len(content) \in Nat,
           position % FileChunk = 0, NoEmptyLine(content)
    PROVE  content[position + 1] # NL
  <1>1. SUFFICES ASSUME content[position + 1] = NL PROVE FALSE
    OBVIOUS
  <1> DEFINE i == position + 1
  <1>2. i \in 1..Len(content) /\ i - 1 = position
    OBVIOUS
  <1>3. i > 1 /\ content[i - 1] # NL
    BY <1>1, <1>2 DEF NoEmptyLine
  <1>4. position \in 1..(Len(content) - 1) /\ content[position] # NL
    BY <1>2, <1>3
  <1>5. QED
    BY <1>1, <1>4 DEF CutBeforeNewline

\* What is not yet a line is shorter than a chunk.
LEMMA PartialIsShort ==
    ASSUME FileKinds, FileText, NEW ls \in Seq(Seq(Nat)), NEW x \in Seq(Nat), NEW m \in 0..Len(content),
           Joined(ls, NewLine) \o x = SubSeq(content, 1, m)
    PROVE  Len(x) < FileChunk
  <1> DEFINE ws == WholeOf(content)
             torn == TornOf(content)
  <1>1. PICK k \in 0..Len(elapsed) :
              /\ k \in Nat /\ Ends(NewLine, Nat, Bytes(Nat))
              /\ ws \in Seq(Seq(Nat)) /\ Len(ws) = k
              /\ torn \in Seq(Nat) /\ Len(torn) <= MaxText
              /\ \A n \in 1..k : Len(ws[n]) <= MaxText
              /\ content = Joined(ws, NewLine) \o torn
    BY FileLines
  <1> HIDE DEF ws, torn
  <1>2. Reads(ls, x, ws, torn)
    BY <1>1, DecodePrefix
  <1>3. Len(ls) \in Nat /\ Len(x) \in Nat /\ Len(torn) \in Nat /\ MaxText \in Nat /\ FileChunk \in Nat /\ FileChunk > MaxText
    BY <1>1, TraceFileAssumption
  <1>4. Len(ls) <= Len(ws) /\ (Len(ls) < Len(ws) => Len(x) <= Len(ws[Len(ls) + 1])) /\ (Len(ls) = Len(ws) => Len(x) <= Len(torn))
    BY <1>2 DEF Reads
  <1>5. CASE Len(ls) < Len(ws)
    <2>1. Len(ls) + 1 \in 1..k
      BY <1>1, <1>3, <1>5
    <2> DEFINE w == ws[Len(ls) + 1]
    <2>2. w \in Seq(Nat) /\ Len(w) <= MaxText /\ Len(x) <= Len(w)
      BY <1>1, <1>4, <1>5, <2>1
    <2> HIDE DEF w
    <2>3. Len(w) \in Nat
      BY <2>2
    <2>4. QED
      BY <1>3, <2>2, <2>3
  <1>6. CASE Len(ls) = Len(ws)
    BY <1>1, <1>3, <1>4, <1>6
  <1>7. QED
    BY <1>1, <1>3, <1>4, <1>5, <1>6

LEMMA ReadingLines ==
    ASSUME NEW s \in Reading(Nat)
    PROVE  s.partial \in Seq(Nat) /\ s.lines \in Seq(Seq(Nat) \ {<<>>}) /\ s.lines \in Seq(Seq(Nat))
           /\ [partial |-> s.partial, lines |-> s.lines] = s
  <1> DEFINE U == Seq(Nat)
             Z == U \ {<<>>}
             K == Seq(Z)
  <1>1. s \in [partial : U, lines : K]
    BY DEF Reading
  <1>2. K \subseteq Seq(U)
    BY TextIsBytes
  <1> HIDE DEF U, Z, K
  <1>3. s.partial \in U /\ s.lines \in K /\ s.lines \in Seq(U) /\ [partial |-> s.partial, lines |-> s.lines] = s
    BY <1>1, <1>2
  <1>4. QED
    BY <1>3 DEF U, Z, K

LEMMA ReadReadChunk == FileKinds /\ FileText /\ FileRead /\ ReadChunk => FileRead'
  <1> SUFFICES ASSUME FileKinds, FileText, FileRead, ReadChunk, ~CutBeforeNewline'
               PROVE  FileRead'
    BY DEF FileRead
  <1> DEFINE n == Fetched
             r == AfterChunk
             base == [partial |-> partial, lines |-> lineQueue]
             last == Last(Chunk) # NL
  <1>1. /\ position < Len(content) /\ stage = "reading"
        /\ n \in Nat \ {0} /\ n <= FileChunk /\ position + n <= Len(content)
        /\ (n = FileChunk \/ position + n = Len(content))
        /\ FileChunkAt(Chunk, content, position, n, 1..Len(elapsed))
        /\ Last(Chunk) = Chunk[n]
        /\ position' = position + n
        /\ partial' = r.partial /\ lineQueue' = r.lines
        /\ UNCHANGED <<stage, content, elapsed, launched, circuits>>
    BY ReadsChunk
  <1>2. ~CutBeforeNewline
    BY <1>1 DEF CutBeforeNewline
  <1>3. content \in Seq(Bytes(Nat)) /\ Len(content) \in Nat /\ NoEmptyLine(content) /\ NL \notin Nat
    BY FileLines, TraceFileAssumption
  <1>4. position \in Nat /\ position % FileChunk = 0 /\ HasRead(base, content, position, Nat)
    <2>1. position \in Nat
      BY <1>1 DEF FileChunkAt
    <2>2. position # Len(content)
      BY <1>1, <1>3, <2>1
    <2>3. QED
      BY <1>1, <1>2, <2>1, <2>2 DEF FileRead
  <1>5. FileChunkAt(Chunk, content, position, n, Nat)
    BY <1>1, <1>3 DEF FileChunkAt
  <1>6. Chunk[1] # NL
    <2> HIDE DEF n
    <2>1. \A j \in 1..n : Chunk[j] = content[position + j]
      BY <1>5, FileChunkBytes
    <2>2. Chunk[1] = content[position + 1]
      BY <1>1, <2>1
    <2>3. QED
      BY <1>1, <1>2, <1>3, <1>4, <2>2, ChunkDoesNotBegin
  <1> HIDE DEF base
  <1>7. ReadAfter(r, content, position + n, n, Nat)
    <2>1. ReadAfter(Read(Chunk[n] # NL, Split(Chunk, NewLine)), content, position + n, n, Nat)
      BY <1>3, <1>4, <1>5, <1>6, ChunkRead DEF base
    <2>2. r = Read(Chunk[n] # NL, Split(Chunk, NewLine))
      BY <1>1, Zenon DEF AfterChunk
    <2>3. QED
      BY <2>1, <2>2
  <1>8. r \in Reading(Nat)
    <2>1. last \in BOOLEAN
      OBVIOUS
    <2>2. [partial |-> partial, lines |-> lineQueue] \in Reading(Nat)
      BY <1>4 DEF HasRead, base
    <2> HIDE DEF last
    <2>3. Read(last, Split(Chunk, NewLine)) \in Reading(Nat)
      BY <1>5, <2>1, <2>2, ReadType
    <2>4. QED
      BY <2>3, Zenon DEF AfterChunk, last
  <1> HIDE DEF n, r, last
  <1>9. r.partial \in Seq(Nat) /\ r.lines \in Seq(Seq(Nat)) /\ [partial |-> r.partial, lines |-> r.lines] = r
    BY <1>8, ReadingLines
  <1>10. PICK x \in Seq(Nat) :
            Joined(r.lines, NewLine) \o x = SubSeq(content, 1, position + n) /\ (x = r.partial \/ Len(x) >= n)
    BY <1>7 DEF ReadAfter
  <1>11. position + n \in 0..Len(content) /\ FileChunk \in Nat \ {0}
    BY <1>1, <1>3, <1>4, TraceFileAssumption
  <1>12. Len(x) < FileChunk
    BY <1>9, <1>10, <1>11, PartialIsShort
  <1>13. ASSUME position + n # Len(content)
         PROVE  (position + n) % FileChunk = 0 /\ HasRead(r, content, position + n, Nat)
    <2>1. n = FileChunk
      BY <1>1, <1>13
    <2>2. (position + n) % FileChunk = 0
      BY <1>4, <1>11, <2>1, NextMultiple
    <2>3. x = r.partial
      <3>1. Len(x) \in Nat
        OBVIOUS
      <3>2. QED
        BY <1>10, <1>11, <1>12, <2>1, <3>1
    <2>4. QED
      BY <1>8, <1>10, <2>2, <2>3 DEF HasRead
  <1>14. /\ position' % FileChunk = 0 \/ position' = Len(content)
         /\ position' < Len(content) => HasRead([partial |-> partial', lines |-> lineQueue'], content, position', Nat)
         /\ \E z \in Seq(Nat) : Joined(lineQueue', NewLine) \o z = SubSeq(content, 1, position')
    <2>1. position' % FileChunk = 0 \/ position' = Len(content)
      BY <1>1, <1>13
    <2>2. position' < Len(content) => position + n # Len(content)
      BY <1>1, <1>3
    <2>3. [partial |-> partial', lines |-> lineQueue'] = r
      BY <1>1, <1>9
    <2>4. Joined(lineQueue', NewLine) \o x = SubSeq(content, 1, position')
      BY <1>1, <1>10
    <2>5. QED
      BY <1>1, <1>13, <2>1, <2>2, <2>3, <2>4
  <1>15. QED
    BY <1>1, <1>14 DEF FileRead

\* The Player begins at the beginning.
LEMMA NothingRead ==
    ASSUME NEW s \in Seq(Bytes(Nat))
    PROVE  /\ HasRead([partial |-> <<>>, lines |-> <<>>], s, 0, Nat)
           /\ \E x \in Seq(Nat) : Joined(<<>>, NewLine) \o x = SubSeq(s, 1, 0)
  <1>1. [partial |-> <<>>, lines |-> <<>>] \in Reading(Nat)
    BY EmptyReading
  <1> DEFINE B == Bytes(Nat)
  <1> HIDE DEF B
  <1>2. s \in Seq(B)
    BY DEF B
  <1>3. SubSeq(s, 1, 0) = <<>>
    BY <1>2
  <1>4. Joined(<<>>, NewLine) \o <<>> = <<>>
    BY JoinedEmpty
  <1>5. <<>> \in Seq(Nat)
    OBVIOUS
  <1>6. QED
    BY <1>1, <1>3, <1>4, <1>5 DEF HasRead

LEMMA ReadBegins ==
    ASSUME FileKinds, FileKinds', FileText', WriteTorn \/ CloseFile
    PROVE  FileRead'
  <1>1. stage = "recording" /\ UNCHANGED <<position, partial, lineQueue>>
    BY DEF WriteTorn, CloseFile, Writes
  <1>2. position = 0 /\ partial = <<>> /\ lineQueue = <<>>
    BY <1>1 DEF FileKinds
  <1>3. content' \in Seq(Bytes(Nat))
    <2>1. content' \in Seq(Bytes(1..Len(elapsed'))) /\ elapsed' \in Seq(Time)
      BY DEF FileKinds
    <2>2. 1..Len(elapsed') \subseteq Nat
      <3>1. Len(elapsed') \in Nat
        BY <2>1
      <3>2. QED
        BY <3>1
    <2>3. Bytes(1..Len(elapsed')) \subseteq Bytes(Nat)
      BY <2>2 DEF Bytes
    <2>4. QED
      BY <2>1, <2>3, SmallerSeq
  <1>4. /\ HasRead([partial |-> <<>>, lines |-> <<>>], content', 0, Nat)
        /\ \E x \in Seq(Nat) : Joined(<<>>, NewLine) \o x = SubSeq(content', 1, 0)
    BY <1>3, NothingRead
  <1>5. 0 % FileChunk = 0
    BY TraceFileAssumption
  <1>6. position' = 0 /\ partial' = <<>> /\ lineQueue' = <<>>
    BY <1>1, <1>2
  <1>7. QED
    BY <1>4, <1>5, <1>6 DEF FileRead

LEMMA ReadNext == FileKinds /\ FileText /\ FileRead /\ FileKinds' /\ FileText' /\ [FileNext]_fileVars => FileRead'
  <1> SUFFICES ASSUME FileKinds, FileText, FileRead, FileKinds', FileText', [FileNext]_fileVars PROVE FileRead'
    OBVIOUS
  <1>1. CASE WriteCircuit \/ EndOfFile \/ ParseLine \/ Parsed
    <2>1. stage' # "reading"
      BY <1>1 DEF WriteCircuit, Writes, EndOfFile, ParseLine, Parsed
    <2>2. QED
      BY <2>1 DEF FileRead
  <1>2. CASE WriteTorn \/ CloseFile
    BY <1>2, ReadBegins
  <1>3. CASE ReadChunk
    BY <1>3, ReadReadChunk
  <1>4. CASE UNCHANGED fileVars
    BY <1>4 DEF FileRead, CutBeforeNewline, fileVars
  <1>5. QED
    BY <1>1, <1>2, <1>3, <1>4 DEF FileNext

-----------------------------------------------------------------------------
(* What parseCircuits makes of it                                          *)

\* Of the lines that have an end, the first ones are circuits already, and the
\* others wait in their order.
FileParsed ==
    /\ Chronological(circuits)
    /\ ~CutBeforeNewline /\ stage \in {"parsing", "parsed"} =>
          /\ Len(circuits) + Len(lineQueue) = Len(WholeOf(content))
          /\ \A j \in 1..Len(lineQueue) : lineQueue[j] = WholeOf(content)[Len(circuits) + j]
          /\ \A n \in 1..Len(circuits) :
                \E i \in 1..Len(circuits) : circuits[i] = FromCSV(WholeOf(content)[n])
    /\ stage = "parsed" => lineQueue = <<>>

\* At the end of the file, all its lines that have an end were read.
LEMMA AllLinesRead ==
    ASSUME FileKinds, FileText, NEW ls \in Seq(Seq(Nat)), NEW x \in Seq(Nat),
           Joined(ls, NewLine) \o x = SubSeq(content, 1, Len(content))
    PROVE  Len(ls) = Len(WholeOf(content)) /\ \A n \in 1..Len(ls) : ls[n] = WholeOf(content)[n]
  <1> DEFINE ws == WholeOf(content)
             torn == TornOf(content)
             m == Len(content)
             U == Seq(Nat)
             B == Bytes(Nat)
  <1>1. PICK k \in 0..Len(elapsed) :
              /\ k \in Nat /\ Ends(NewLine, Nat, B)
              /\ content \in Seq(B) /\ m \in Nat
              /\ ws \in Seq(U) /\ Len(ws) = k /\ torn \in U
              /\ content = Joined(ws, NewLine) \o torn
    BY FileLines
  <1>2. m \in 0..Len(content)
    BY <1>1
  <1> HIDE DEF ws, torn, m
  <1>3. /\ Reads(ls, x, ws, torn)
        /\ \A n \in 1..Len(ws) : LinesLength(ws, n, NewLine) <= m <=> n <= Len(ls)
    <2>1. Joined(ls, NewLine) \o x = SubSeq(content, 1, m)
      BY DEF m
    <2> HIDE DEF B
    <2>2. QED
      BY <1>1, <1>2, <2>1, CompleteLines
  <1>4. Len(ls) <= Len(ws) /\ ls = SubSeq(ws, 1, Len(ls)) /\ Len(ls) \in Nat
    BY <1>3 DEF Reads
  <1>5. SubSeq(ws, 1, k) = ws
    <2> HIDE DEF U
    <2>1. ws \in Seq(U) /\ Len(ws) = k
      BY <1>1
    <2>2. QED
      BY <2>1
  <1>6. LinesLength(ws, k, NewLine) <= m
    <2> DEFINE j == Joined(ws, NewLine)
    <2>1. U \subseteq Seq(B) /\ NewLine \in Seq(B)
      BY TextIsBytes
    <2>2. ws \in Seq(Seq(B)) /\ torn \in Seq(B)
      <3> HIDE DEF U, B
      <3>1. QED
        BY <1>1, <2>1, SmallerSeq
    <2>3. j \in Seq(B)
      <3> HIDE DEF B
      <3>1. QED
        BY <2>1, <2>2, JoinedBoth
    <2> HIDE DEF j, B
    <2>4. Len(j \o torn) = Len(j) + Len(torn) /\ Len(j) \in Nat /\ Len(torn) \in Nat
      BY <2>2, <2>3
    <2>5. content = j \o torn
      BY <1>1 DEF j
    <2>6. Len(j) <= m
      BY <2>4, <2>5 DEF m
    <2>7. QED
      BY <1>5, <2>6 DEF LinesLength, j
  <1>7. Len(ls) = k
    <2>1. k = 0 \/ k \in 1..Len(ws)
      BY <1>1
    <2>2. k <= Len(ls)
      BY <1>1, <1>3, <1>4, <1>6, <2>1
    <2> DEFINE g == Len(ls)
    <2>3. g \in Nat /\ g <= k /\ k <= g /\ k \in Nat
      BY <1>1, <1>4, <2>2
    <2> HIDE DEF g
    <2>4. g = k
      BY <2>3
    <2>5. QED
      BY <2>4 DEF g
  <1>8. ls = ws
    BY <1>4, <1>5, <1>7
  <1>9. QED
    BY <1>8 DEF ws

LEMMA ParsedEndOfFile == FileKinds /\ FileText /\ FileRead /\ FileParsed /\ EndOfFile => FileParsed'
  <1> SUFFICES ASSUME FileKinds, FileText, FileRead, FileParsed, EndOfFile PROVE FileParsed'
    OBVIOUS
  <1>1. /\ stage = "reading" /\ position = Len(content) /\ stage' = "parsing"
        /\ UNCHANGED <<content, elapsed, lineQueue, circuits>>
    BY DEF EndOfFile
  <1>2. circuits = <<>> /\ Len(circuits) = 0
    BY <1>1 DEF FileKinds
  <1>3. lineQueue \in Seq(Seq(Nat)) /\ Len(lineQueue) \in Nat
    <2>1. FileTypeOK
      BY KindsAreTypes
    <2>2. lineQueue \in Seq(Seq(Nat) \ {<<>>})
      BY <2>1 DEF FileTypeOK
    <2>3. lineQueue \in Seq(Seq(Nat))
      BY <2>2, TextIsBytes
    <2> DEFINE U == Seq(Nat)
    <2> HIDE DEF U
    <2>4. lineQueue \in Seq(U)
      BY <2>3 DEF U
    <2>5. Len(lineQueue) \in Nat
      BY <2>4
    <2>6. QED
      BY <2>3, <2>5
  <1>4. ASSUME ~CutBeforeNewline
        PROVE  /\ Len(lineQueue) = Len(WholeOf(content))
               /\ \A j \in 1..Len(lineQueue) : lineQueue[j] = WholeOf(content)[j]
    <2>1. PICK x \in Seq(Nat) : Joined(lineQueue, NewLine) \o x = SubSeq(content, 1, Len(content))
      BY <1>1, <1>4 DEF FileRead
    <2>2. QED
      BY <1>3, <2>1, AllLinesRead
  <1>5. CutBeforeNewline' <=> CutBeforeNewline
    BY <1>1 DEF CutBeforeNewline
  <1>6. \A j \in 1..Len(lineQueue) : 0 + j = j
    BY <1>3
  <1>7. 0 + Len(lineQueue) = Len(lineQueue)
    BY <1>3
  <1>8. ASSUME ~CutBeforeNewline
        PROVE  /\ Len(circuits') + Len(lineQueue') = Len(WholeOf(content'))
               /\ \A j \in 1..Len(lineQueue') : lineQueue'[j] = WholeOf(content')[Len(circuits') + j]
               /\ 1..Len(circuits') = {}
    BY <1>1, <1>2, <1>4, <1>6, <1>7, <1>8
  <1>9. Chronological(circuits') /\ stage' # "parsed"
    BY <1>1 DEF FileParsed
  <1>10. QED
    BY <1>5, <1>8, <1>9 DEF FileParsed

\* A place in the queue is the same, or the next, when something is inserted.
LEMMA StillThere ==
    ASSUME NEW u, NEW q, NEW c, NEW i, NEW V, Inserted(u, q, c, i, V), NEW j \in 1..Len(q), Len(q) \in Nat
    PROVE  \E k \in 1..Len(u) : u[k] = q[j]
  <1>1. Len(u) = Len(q) + 1 /\ i \in 1..(Len(q) + 1) /\ (j < i => u[j] = q[j]) /\ (j >= i => u[j + 1] = q[j])
    BY DEF Inserted
  <1>2. j \in 1..Len(u) /\ j + 1 \in 1..Len(u) /\ (j < i \/ j >= i)
    BY <1>1
  <1>3. QED
    BY <1>1, <1>2

LEMMA ParsedParseLine == FileKinds /\ FileParsed /\ ParseLine => FileParsed'
  <1> SUFFICES ASSUME FileKinds, FileParsed, ParseLine PROVE FileParsed'
    OBVIOUS
  <1> DEFINE c == FromCSV(Head(lineQueue))
             ws == WholeOf(content)
             k == Len(circuits)
             l == Len(lineQueue)
  <1>1. /\ stage = "parsing" /\ lineQueue # <<>> /\ circuits' = InsertSorted(circuits, c)
        /\ lineQueue' = Tail(lineQueue)
        /\ UNCHANGED <<stage, content, elapsed, launched, position, partial>>
    BY DEF ParseLine
  <1>2. c \in Circuits /\ circuits \in Seq(Circuits) /\ lineQueue \in Seq(Seq(1..Len(elapsed)) \ {<<>>})
    BY <1>1, LineIsCircuit
  <1>3. /\ l \in Nat \ {0} /\ Head(lineQueue) = lineQueue[1] /\ Len(Tail(lineQueue)) = l - 1
        /\ \A j \in 1..(l - 1) : Tail(lineQueue)[j] = lineQueue[j + 1]
    <2> DEFINE Z == Seq(1..Len(elapsed)) \ {<<>>}
    <2> HIDE DEF Z
    <2>1. lineQueue \in Seq(Z) /\ lineQueue # <<>>
      BY <1>1, <1>2 DEF Z
    <2>2. QED
      BY <2>1
  <1>4. k \in Nat
    BY <1>2
  <1> HIDE DEF c
  <1>5. PICK i : Inserted(circuits', circuits, c, i, Circuits)
    BY <1>1, <1>2, InsertedInOrder
  <1>6. Chronological(circuits')
    <2>1. Chronological(circuits)
      BY DEF FileParsed
    <2>2. QED
      BY <1>1, <1>2, <2>1, InsertedInOrder
  <1>7. Len(circuits') = k + 1 /\ i \in 1..(k + 1) /\ circuits'[i] = c
    BY <1>5 DEF Inserted
  <1>8. (CutBeforeNewline' <=> CutBeforeNewline) /\ stage' = "parsing" /\ WholeOf(content)' = ws
    BY <1>1 DEF CutBeforeNewline
  <1>9. \A line : FromCSV(line)' = FromCSV(line)
    BY <1>1 DEF FromCSV
  <1>10. ASSUME ~CutBeforeNewline
         PROVE  /\ Len(circuits') + Len(lineQueue') = Len(ws)
                /\ \A j \in 1..Len(lineQueue') : lineQueue'[j] = ws[Len(circuits') + j]
                /\ \A n \in 1..Len(circuits') : \E h \in 1..Len(circuits') : circuits'[h] = FromCSV(ws[n])
    <2>1. /\ k + l = Len(ws)
          /\ \A j \in 1..l : lineQueue[j] = ws[k + j]
          /\ \A n \in 1..k : \E h \in 1..k : circuits[h] = FromCSV(ws[n])
      BY <1>1, <1>10 DEF FileParsed
    <2> HIDE DEF ws, k, l
    <2>2. Len(circuits') + Len(lineQueue') = Len(ws)
      <3>1. (k + 1) + (l - 1) = k + l
        BY <1>3, <1>4
      <3>2. QED
        BY <1>1, <1>3, <1>7, <2>1, <3>1
    <2>3. \A j \in 1..(l - 1) : Tail(lineQueue)[j] = ws[(k + 1) + j]
      <3>1. SUFFICES ASSUME NEW j \in 1..(l - 1) PROVE Tail(lineQueue)[j] = ws[(k + 1) + j]
        OBVIOUS
      <3>2. j + 1 \in 1..l /\ k + (j + 1) = (k + 1) + j
        BY <1>3, <1>4
      <3>3. lineQueue[j + 1] = ws[k + (j + 1)]
        BY <2>1, <3>2
      <3>4. QED
        BY <1>3, <3>2, <3>3
    <2>4. c = FromCSV(ws[k + 1])
      <3>1. 1 \in 1..l
        BY <1>3
      <3>2. QED
        BY <1>3, <2>1, <3>1 DEF c
    <2>5. \A n \in 1..(k + 1) : \E h \in 1..(k + 1) : circuits'[h] = FromCSV(ws[n])
      <3>1. SUFFICES ASSUME NEW n \in 1..(k + 1) PROVE \E h \in 1..(k + 1) : circuits'[h] = FromCSV(ws[n])
        OBVIOUS
      <3>2. CASE n = k + 1
        BY <1>7, <2>4, <3>2
      <3>3. CASE n # k + 1
        <4>1. n \in 1..k
          BY <1>4, <3>3
        <4>2. PICK h \in 1..k : circuits[h] = FromCSV(ws[n])
          BY <2>1, <4>1
        <4>3. h \in 1..Len(circuits) /\ Len(circuits) \in Nat
          BY <1>4 DEF k
        <4>4. PICK g \in 1..Len(circuits') : circuits'[g] = circuits[h]
          BY <1>5, <4>3, StillThere
        <4>5. QED
          BY <1>7, <4>2, <4>4
      <3>4. QED
        BY <3>2, <3>3
    <2>6. QED
      BY <1>1, <1>3, <1>7, <2>2, <2>3, <2>5
  <1> HIDE DEF ws, k, l
  <1>11. QED
    BY <1>6, <1>8, <1>9, <1>10 DEF FileParsed

LEMMA ParsedNext == FileKinds /\ FileText /\ FileRead /\ FileParsed /\ [FileNext]_fileVars => FileParsed'
  <1> SUFFICES ASSUME FileKinds, FileText, FileRead, FileParsed, [FileNext]_fileVars PROVE FileParsed'
    OBVIOUS
  <1>1. CASE WriteCircuit \/ WriteTorn \/ CloseFile \/ ReadChunk
    <2>1. stage' \notin {"parsing", "parsed"} /\ UNCHANGED circuits
      BY <1>1 DEF WriteCircuit, WriteTorn, Writes, CloseFile, ReadChunk
    <2>2. QED
      BY <2>1 DEF FileParsed
  <1>2. CASE Parsed \/ UNCHANGED fileVars
    <2>1. /\ UNCHANGED <<content, elapsed, lineQueue, circuits>>
          /\ stage' \in {"parsing", "parsed"} => stage \in {"parsing", "parsed"}
          /\ stage' = "parsed" => lineQueue = <<>>
      BY <1>2 DEF Parsed, fileVars, FileParsed
    <2>2. (CutBeforeNewline' <=> CutBeforeNewline) /\ \A line : FromCSV(line)' = FromCSV(line)
      BY <2>1 DEF CutBeforeNewline, FromCSV
    <2>3. QED
      BY <2>1, <2>2 DEF FileParsed
  <1>3. CASE EndOfFile
    BY <1>3, ParsedEndOfFile
  <1>4. CASE ParseLine
    BY <1>4, ParsedParseLine
  <1>5. QED
    BY <1>1, <1>2, <1>3, <1>4 DEF FileNext

LEMMA ReadParsedInit == FileInit => FileRead /\ FileParsed
  <1> SUFFICES ASSUME FileInit PROVE FileRead /\ FileParsed
    OBVIOUS
  <1>1. stage = "recording" /\ circuits = <<>>
    BY DEF FileInit
  <1>2. Chronological(circuits)
    BY <1>1 DEF Chronological
  <1>3. QED
    BY <1>1, <1>2 DEF FileRead, FileParsed

\* Normalised times are the same when they have as many nanoseconds.
LEMMA SameTime ==
    ASSUME NEW a \in Time, NEW b \in Time
    PROVE  Nanoseconds(a) = Nanoseconds(b) => a = b
  <1> DEFINE s == a.sec
             n == a.nsec
             u == b.sec
             m == b.nsec
  <1>1. /\ s \in Int /\ n \in Int /\ 0 <= n /\ n < 1000000000 /\ Nanoseconds(a) = 1000000000 * s + n
        /\ u \in Int /\ m \in Int /\ 0 <= m /\ m < 1000000000 /\ Nanoseconds(b) = 1000000000 * u + m
    BY TimeParts, SMT
  <1>2. a = [sec |-> s, nsec |-> n] /\ b = [sec |-> u, nsec |-> m]
    BY TimeParts, SMT
  <1> HIDE DEF s, n, u, m
  <1>3. 1000000000 * s + n = 1000000000 * u + m => s = u /\ n = m
    BY <1>1, SMT
  <1>4. Nanoseconds(a) = Nanoseconds(b) => s = u /\ n = m
    BY <1>1, <1>3, SMT
  <1>5. QED
    BY <1>2, <1>4, SMT

\* What the Recorder subtracts and the Player adds is the shift.
LEMMA ReplayShifts ==
    ASSUME NEW time \in LaunchTimes
    PROVE  Add(PlayerStart, Elapsed(time)) = Shifted(time)
  <1> DEFINE r == RecorderStart
             p == PlayerStart
             nsec == time.nsec - r.nsec + p.nsec
             n == nsec \div 1000000000
             s == time.sec - r.sec + p.sec
  <1>1. time \in Time /\ r \in Time /\ p \in Time
    BY TraceFileAssumption, SMT
  <1>2. nsec \in Int /\ s \in Int
    BY <1>1, TimeParts, SMT
  <1> HIDE DEF nsec, s
  <1>3. n \in Int /\ nsec % 1000000000 = nsec - n * 1000000000
        /\ 0 <= nsec - n * 1000000000 /\ nsec - n * 1000000000 < 1000000000
    BY <1>2, SMT
  <1> HIDE DEF n
  <1> DEFINE m == nsec - n * 1000000000
             t == [sec |-> s + n, nsec |-> m]
  <1>4. Shifted(time) = t
    BY <1>3, SMT DEF Shifted, Second, nsec, s, n
  <1>5. s + n \in Int /\ m \in Int /\ 0 <= m /\ m < 1000000000
        /\ 1000000000 * (s + n) + m = 1000000000 * s + nsec
    BY <1>2, <1>3, SMT
  <1> HIDE DEF m
  <1>6. t \in Time /\ Nanoseconds(t) = 1000000000 * (s + n) + m
    BY <1>2, <1>3, <1>5, TimeOfParts, SMT
  <1> HIDE DEF t
  <1>7. 1000000000 * s + nsec = Nanoseconds(time) - Nanoseconds(r) + Nanoseconds(p)
    BY <1>1, TimeParts, SMT DEF s, nsec
  <1>8. Elapsed(time) \in Time /\ Nanoseconds(Elapsed(time)) = Nanoseconds(time) - Nanoseconds(r)
    BY <1>1, SubtractIsExact, SMT DEF Elapsed
  <1> DEFINE a == Add(p, Elapsed(time))
  <1>9. a \in Time /\ Nanoseconds(a) = Nanoseconds(p) + Nanoseconds(Elapsed(time))
    BY <1>1, <1>8, AddIsExact, SMT
  <1> HIDE DEF a
  <1>10. Nanoseconds(a) = Nanoseconds(t)
    <2>1. Nanoseconds(p) \in Int /\ Nanoseconds(r) \in Int /\ Nanoseconds(time) \in Int
      BY <1>1, TimeParts, SMT
    <2>2. QED
      BY <1>5, <1>6, <1>7, <1>8, <1>9, <2>1, SMT
  <1>11. a = t
    BY <1>6, <1>9, <1>10, SameTime, SMT
  <1>12. QED
    BY <1>4, <1>11, SMT DEF a

\* The circuit that is parsed from the n-th line.
LEMMA LineRestored ==
    ASSUME FileKinds, NEW k \in 0..Len(elapsed), Lined(content, k), NEW n \in 1..k
    PROVE  FromCSV(WholeOf(content)[n]) = [text |-> TextOf(n), launch |-> Shifted(launched[n])]
  <1> DEFINE c == Count(content, n)
             x == Text(n, c)
  <1>1. /\ elapsed \in Seq(Time) /\ launched \in Seq(LaunchTimes) /\ Len(elapsed) = Len(launched)
        /\ \A i \in 1..Len(elapsed) : elapsed[i] = Elapsed(launched[i])
    BY DEF FileKinds
  <1>2. k \in Nat /\ n \in Nat \ {0} /\ n \in 1..Len(elapsed)
    BY <1>1
  <1>3. c \in Nat /\ c >= 1
    BY TraceFileAssumption DEF Lined
  <1>4. WholeOf(content)[n] = x
    BY <1>2, LinesOfFile
  <1>5. TextOf(n) = x
    BY DEF TextOf, Count
  <1> HIDE DEF c
  <1>6. x \in Seq(Nat) /\ Len(x) = c /\ \A i \in 1..c : x[i] = n
    BY <1>2, <1>3, TextBytes
  <1> HIDE DEF x
  <1>7. Head(x) = n
    <2>1. Head(x) = x[1] /\ 1 \in 1..c
      BY <1>3, <1>6
    <2>2. QED
      BY <1>6, <2>1
  <1>8. launched[n] \in LaunchTimes /\ elapsed[n] = Elapsed(launched[n])
    BY <1>1, <1>2
  <1>9. Add(PlayerStart, elapsed[n]) = Shifted(launched[n])
    BY <1>8, ReplayShifts
  <1>10. QED
    BY <1>4, <1>5, <1>7, <1>9 DEF FromCSV

LEMMA ParsedIsRestored == FileKinds /\ FileText /\ FileParsed => RestoredUnlessCut
  <1> SUFFICES ASSUME FileKinds, FileText, FileParsed, ~CutBeforeNewline, stage = "parsed"
               PROVE  /\ Chronological(circuits)
                      /\ Len(circuits) = Cardinality(Complete)
                      /\ \A n \in Complete : \E i \in DOMAIN circuits :
                            circuits[i] = [text |-> TextOf(n), launch |-> Shifted(launched[n])]
    BY DEF RestoredUnlessCut, TraceRestored
  <1> DEFINE ws == WholeOf(content)
  <1>1. PICK k \in 0..Len(elapsed) :
            k = Count(content, NL) /\ k \in Nat /\ Lined(content, k) /\ Len(ws) = k
    BY FileLines
  <1>2. circuits \in Seq(Circuits)
    BY DEF FileKinds
  <1>3. Len(circuits) \in Nat /\ DOMAIN circuits = 1..Len(circuits)
    BY <1>2
  <1> HIDE DEF ws
  <1>4. /\ Chronological(circuits) /\ lineQueue = <<>>
        /\ Len(circuits) + Len(lineQueue) = Len(ws)
        /\ \A n \in 1..Len(circuits) : \E i \in 1..Len(circuits) : circuits[i] = FromCSV(ws[n])
    BY DEF FileParsed, ws
  <1>5. Len(circuits) = k
    BY <1>1, <1>3, <1>4
  <1>6. Complete = 1..k
    BY <1>1 DEF Complete, Count
  <1>7. Cardinality(Complete) = k
    BY <1>1, <1>6, FS_Interval
  <1>8. ASSUME NEW n \in Complete
        PROVE  \E i \in DOMAIN circuits :
                  circuits[i] = [text |-> TextOf(n), launch |-> Shifted(launched[n])]
    <2>1. n \in 1..k
      BY <1>6
    <2>2. PICK i \in 1..Len(circuits) : circuits[i] = FromCSV(ws[n])
      BY <1>4, <1>5, <2>1
    <2>3. FromCSV(ws[n]) = [text |-> TextOf(n), launch |-> Shifted(launched[n])]
      BY <1>1, <2>1, LineRestored DEF ws
    <2>4. QED
      BY <1>3, <2>2, <2>3
  <1>9. QED
    BY <1>4, <1>5, <1>7, <1>8

\* file.c:97-112, 143, 156: wherever the chunks end, but for an end right before a
\* newline, and although the last line may be torn, every line that was written
\* completely becomes one circuit, in the order of the launch times, and each is
\* launched as long after the start of the Player as it was after the start of
\* the Recorder.
THEOREM TraceIsRestoredUnlessCut == FileSpec => []RestoredUnlessCut
  <1> DEFINE Inv == FileKinds /\ FileText /\ FileRead /\ FileParsed
  <1>1. FileInit => Inv
    BY KindsInit, TextInit, ReadParsedInit
  <1>2. Inv /\ [FileNext]_fileVars => Inv'
    <2> SUFFICES ASSUME FileKinds, FileText, FileRead, FileParsed, [FileNext]_fileVars PROVE Inv'
      OBVIOUS
    <2>1. FileKinds' /\ FileText'
      BY KindsNext, TextNext
    <2>2. FileRead' /\ FileParsed'
      BY <2>1, ReadNext, ParsedNext
    <2>3. QED
      BY <2>1, <2>2
  <1>3. Inv => RestoredUnlessCut
    BY ParsedIsRestored
  <1> HIDE DEF Inv
  <1>4. QED
    BY <1>1, <1>2, <1>3, PTL DEF FileSpec
=============================================================================
