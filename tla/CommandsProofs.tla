--------------------------- MODULE CommandsProofs ---------------------------
(* Proofs about module Commands.                                           *)
EXTENDS Commands, SequenceLemmas

-----------------------------------------------------------------------------
(* Types                                                                   *)

Command == Seq(Byte)

\* A command has bytes: its own.
LEMMA TextType ==
    ASSUME NEW n \in 1..Len(Length)
    PROVE  Text(n) \in Command
  <1>1. Length[n] \in Nat
    BY CommandsAssumption
  <1>2. \A i \in 1..Length[n] : <<n, i>> \in Byte
    BY DEF Byte
  <1>3. QED
    BY <1>1, <1>2 DEF Text, Command

LEMMA CommandStrings == Strings(Command)
  BY SeqStrings DEF Command

\* Where the parentheses are makes no difference.
Regrouped(s, a, y, z, d) ==
    /\ (s \o a) \o y \in Command /\ a \o y \in Command
    /\ (s \o a) \o y = s \o (a \o y)
    /\ ((s \o a) \o y) \o (z \o d) = s \o (a \o ((y \o z) \o d))

LEMMA Regroup == \A s, a, y, z, d \in Command : Regrouped(s, a, y, z, d)
  <1> TAKE s, a, y, z, d \in Command
  <1>1. \A u, v \in Command : u \o v \in Command
    BY CommandStrings DEF Strings
  <1>2. \A u, v, w \in Command : Assoc(u, v, w)
    BY CommandStrings DEF Strings
  <1> DEFINE p == s \o a
             r == z \o d
             t == y \o r
  <1>3. p \in Command
    BY <1>1, Zenon
  <1>4. r \in Command
    BY <1>1, Zenon
  <1> HIDE DEF r
  <1>5. t \in Command
    BY <1>1, <1>4, Zenon
  <1>6. Assoc(s, a, t) /\ Assoc(s, a, y) /\ Assoc(y, z, d)
    BY <1>2, <1>5
  <1> HIDE DEF p, t
  <1>7. Assoc(p, y, r)
    BY <1>2, <1>3, <1>4
  <1>8. (p \o y) \o r = p \o (y \o r)
    BY <1>7, Zenon DEF Assoc
  <1>9. (s \o a) \o t = s \o (a \o t)
    BY <1>6, Zenon DEF Assoc
  <1>10. (s \o a) \o y = s \o (a \o y)
    BY <1>6, Zenon DEF Assoc
  <1>11. (y \o z) \o d = y \o (z \o d)
    BY <1>6, Zenon DEF Assoc
  <1>12. (p \o y) \o r = s \o (a \o t)
    BY <1>8, <1>9, Zenon DEF p, t
  <1>13. t = (y \o z) \o d
    BY <1>11, Zenon DEF t, r
  <1>14. ((s \o a) \o y) \o (z \o d) = s \o (a \o ((y \o z) \o d))
    BY <1>12, <1>13, Zenon DEF p, r
  <1>15. a \o y \in Command
    BY <1>1, Zenon
  <1>16. p \o y \in Command
    BY <1>1, <1>3, Zenon
  <1>17. QED
    BY <1>10, <1>14, <1>15, <1>16, Zenon DEF p, Regrouped

\* What is issued comes after what was queued before.
LEMMA QueuedType ==
    ASSUME TypeOK, NEW n \in Nat, issued + n <= Len(Length)
    PROVE  \E t \in Seq(Command) : Queued(n) = commands \o t /\ (n = 0 <=> t = <<>>)
  <1> DEFINE t == [i \in 1..n |-> Text(issued + i)]
  <1>1. issued \in 0..Len(Length) /\ Len(Length) \in Nat
    BY CommandsAssumption DEF TypeOK
  <1>2. \A i \in 1..n : issued + i \in 1..Len(Length)
    BY <1>1
  <1>3. \A i \in 1..n : Text(issued + i) \in Command
    BY <1>2, TextType
  <1>4. t \in Seq(Command) /\ Len(t) = n
    BY <1>3
  <1>5. Queued(n) = commands \o t
    BY DEF Queued
  <1> HIDE DEF t
  <1>6. n = 0 <=> t = <<>>
    BY <1>4
  <1>7. QED
    BY <1>4, <1>5, <1>6

\* The queue, whatever is done to it, and what becomes of the bytes of it.
LEMMA Issued ==
    ASSUME TypeOK, NEW n \in Nat, Issues(n)
    PROVE  /\ commands' \in Seq(Command) /\ issued' \in 0..Len(Length)
           /\ (commands' = <<>> <=> commands = <<>> /\ n = 0)
           /\ n = 0 => commands' = commands
           /\ \E b \in Command : FlattenSeq(commands') = FlattenSeq(commands) \o b
  <1>1. commands \in Seq(Command) /\ issued \in 0..Len(Length) /\ Len(Length) \in Nat
    BY CommandsAssumption DEF TypeOK, Command
  <1>2. issued + n <= Len(Length) /\ issued' = issued + n /\ commands' = Queued(n)
    BY DEF Issues
  <1>3. PICK t \in Seq(Command) : commands' = commands \o t /\ (n = 0 <=> t = <<>>)
    BY <1>2, QueuedType
  <1>4. commands' \in Seq(Command)
    BY <1>1, <1>3, ConcatProperties
  <1>5. issued' \in 0..Len(Length)
    BY <1>1, <1>2
  <1>6. commands \o t = <<>> <=> commands = <<>> /\ t = <<>>
    BY <1>1, ConcatEqualIffEmpty
  <1>7. commands \o <<>> = commands
    BY <1>1, ConcatEmptySeq
  <1>8. FlattenSeq(commands \o t) = FlattenSeq(commands) \o FlattenSeq(t)
    BY <1>1, CommandStrings, FlattenSeqConcat
  <1>9. FlattenSeq(t) \in Command
    BY CommandStrings, FlattenSeqType
  <1>10. QED
    BY <1>3, <1>4, <1>5, <1>6, <1>7, <1>8, <1>9, Zenon

LEMMA SentAll ==
    ASSUME TypeOK, SendsAll(commands)
    PROVE  /\ commands' \in Seq(Command) /\ sent' \in Command
           /\ errors' = errors
           /\ IsPrefix(sent, sent')
           /\ sent' \o FlattenSeq(commands') = sent \o FlattenSeq(commands)
  <1>1. commands \in Seq(Command) /\ sent \in Command
    BY DEF TypeOK, Command
  <1>2. sent' = sent \o FlattenSeq(commands) /\ commands' = <<>> /\ errors' = errors
    BY DEF SendsAll
  <1>3. FlattenSeq(commands) \in Command
    BY <1>1, CommandStrings, FlattenSeqType
  <1>4. sent' \in Command
    BY <1>1, <1>2, <1>3, CommandStrings DEF Strings
  <1>5. IsPrefix(sent, sent')
    BY <1>1, <1>2, <1>3, PrefixOfConcat DEF Command
  <1>6. sent' \o <<>> = sent'
    BY <1>4, CommandStrings DEF Strings
  <1>7. <<>> \in Seq(Command)
    OBVIOUS
  <1>8. QED
    BY <1>2, <1>4, <1>5, <1>6, <1>7, FlattenSeqEmpty

LEMMA SentPart ==
    ASSUME TypeOK, SendsPart(commands)
    PROVE  /\ commands' \in Seq(Command) /\ sent' \in Command
           /\ errors' = errors
           /\ IsPrefix(sent, sent')
           /\ sent' \o FlattenSeq(commands') = sent \o FlattenSeq(commands)
  <1>1. commands \in Seq(Command) /\ sent \in Command
    BY DEF TypeOK, Command
  <1>0. PICK n \in 0..(Len(commands) - 1) : \E k \in 1..(Len(commands[n + 1]) - 1) :
             /\ sent' = sent \o FlattenSeq(SubSeq(commands, 1, n)) \o SubSeq(commands[n + 1], 1, k)
             /\ commands' = Rest(commands, n, k)
             /\ errors' = errors
    BY Zenon DEF SendsPart
  <1>2. PICK k \in 1..(Len(commands[n + 1]) - 1) :
             /\ sent' = sent \o FlattenSeq(SubSeq(commands, 1, n)) \o SubSeq(commands[n + 1], 1, k)
             /\ commands' = Rest(commands, n, k)
             /\ errors' = errors
    BY <1>0, Zenon
  <1> DEFINE a == SubSeq(commands, 1, n)
             x == commands[n + 1]
             y == SubSeq(x, 1, k)
             z == SubSeq(x, k + 1, Len(x))
             c == SubSeq(commands, n + 2, Len(commands))
             A == FlattenSeq(a)
             D == FlattenSeq(c)
  <1>3. a \in Seq(Command) /\ x \in Command /\ c \in Seq(Command)
    BY <1>1, SplitAt
  <1>4. y \in Command /\ z \in Command /\ x = y \o z
    <2>1. k \in 0..Len(x)
      BY <1>3 DEF Command
    <2>2. QED
      BY <1>3, <2>1, Cut DEF Command
  <1>5. FlattenSeq(commands) = A \o (x \o D)
    BY <1>1, CommandStrings, FlattenSplit
  <1>6. sent' = (sent \o A) \o y /\ commands' = <<z>> \o c
    BY <1>2 DEF Rest
  <1>7. A \in Command /\ D \in Command
    BY <1>3, CommandStrings, FlattenSeqType
  <1> HIDE DEF a, x, y, z, c, A
  <1>8. <<z>> \in Seq(Command) /\ FlattenSeq(<<z>>) = z
    BY <1>4, CommandStrings, FlattenSeqOne
  <1>9. commands' \in Seq(Command) /\ FlattenSeq(commands') = z \o D
    BY <1>3, <1>6, <1>8, CommandStrings, ConcatProperties, FlattenSeqConcat
  <1> HIDE DEF D
  <1>10. /\ (sent \o A) \o y \in Command /\ A \o y \in Command
         /\ (sent \o A) \o y = sent \o (A \o y)
         /\ ((sent \o A) \o y) \o (z \o D) = sent \o (A \o ((y \o z) \o D))
    <2>1. sent \in Command /\ A \in Command /\ y \in Command /\ z \in Command /\ D \in Command
      BY <1>1, <1>4, <1>7
    <2>2. QED
      <3>1. Regrouped(sent, A, y, z, D)
        BY <2>1, Regroup
      <3>2. QED
        BY <3>1, Zenon DEF Regrouped
  <1>11. IsPrefix(sent, sent \o (A \o y))
    BY <1>1, <1>10, PrefixOfConcat DEF Command
  <1>12. QED
    BY <1>2, <1>4, <1>5, <1>6, <1>9, <1>10, <1>11

\* The two parts of a string, taken out of it again.
LEMMA PartsOfConcat ==
    ASSUME NEW S, NEW s \in Seq(S), NEW t \in Seq(S)
    PROVE  /\ SubSeq(s \o t, 1, Len(s)) = s
           /\ SubSeq(s \o t, Len(s) + 1, Len(s \o t)) = t
           /\ Len(s \o t) = Len(s) + Len(t)
  <1> DEFINE u == s \o t
             m == Len(s)
             n == Len(t)
             w == SubSeq(u, m + 1, m + n)
  <1>1. /\ u \in Seq(S) /\ Len(u) = m + n /\ m \in Nat /\ n \in Nat
        /\ \A i \in 1..(m + n) : u[i] = IF i <= m THEN s[i] ELSE t[i - m]
    BY ConcatProperties
  <1>2. (\A i \in 1..m : s[i] \in S) /\ (\A i \in 1..n : t[i] \in S)
    OBVIOUS
  <1> HIDE DEF u, m, n
  <1>3. \A i \in 1..(m + n) : u[i] \in S
    BY <1>1
  <1>4. /\ SubSeq(u, 1, m) \in Seq(S) /\ Len(SubSeq(u, 1, m)) = m
        /\ \A i \in 1..m : SubSeq(u, 1, m)[i] = u[i]
    <2>1. 1 \in Int /\ m \in Int /\ \A i \in 1..m : u[i] \in S
      BY <1>1, <1>3
    <2>2. QED
      BY <1>1, <2>1, SubSeqProperties
  <1>5. /\ w \in Seq(S) /\ Len(w) = n
        /\ \A i \in 1..n : w[i] = u[m + i]
    <2>1. m + 1 \in Int /\ m + n \in Int /\ \A i \in (m + 1)..(m + n) : u[i] \in S
      BY <1>1, <1>3
    <2>2. /\ SubSeq(u, m + 1, m + n) \in Seq(S)
          /\ Len(SubSeq(u, m + 1, m + n)) =
                 IF m + 1 <= m + n THEN (m + n) - (m + 1) + 1 ELSE 0
          /\ \A i \in 1..((m + n) - (m + 1) + 1) :
                 SubSeq(u, m + 1, m + n)[i] = u[(m + 1) + i - 1]
      BY <2>1, SubSeqProperties
    <2> HIDE DEF w
    <2>3. /\ (m + n) - (m + 1) + 1 = n
          /\ n = IF m + 1 <= m + n THEN (m + n) - (m + 1) + 1 ELSE 0
          /\ \A i \in 1..n : (m + 1) + i - 1 = m + i
      BY <1>1
    <2>4. QED
      BY <2>2, <2>3 DEF w
  <1> HIDE DEF w
  <1>6. \A i \in 1..m : u[i] = s[i]
    BY <1>1
  <1>7. \A i \in 1..n : u[m + i] = t[i]
    <2>1. \A i \in 1..n : m + i \in 1..(m + n) /\ ~(m + i <= m) /\ (m + i) - m = i
      BY <1>1
    <2>2. QED
      BY <1>1, <2>1
  <1>8. SubSeq(u, 1, m) = s
    <2>1. Len(s) = m
      BY DEF m
    <2>2. QED
      BY <1>4, <1>6, <2>1, SeqEqual
  <1>9. w = t
    <2>1. Len(t) = n
      BY DEF n
    <2>2. QED
      BY <1>5, <1>7, <2>1, SeqEqual
  <1>10. QED
    BY <1>1, <1>8, <1>9 DEF u, m, n, w

\* When a send fails, the command that it was about is lost.
LEMMA SentNothing ==
    ASSUME TypeOK, SendFails(commands)
    PROVE  /\ commands' \in Seq(Command) /\ sent' \in Command
           /\ errors' = errors + 1 /\ errors < MaxErrors
           /\ C!Lose
  <1>1. commands \in Seq(Command) /\ sent \in Command
    BY DEF TypeOK, Command
  <1>2. PICK n \in 0..(Len(commands) - 1) :
             /\ commands[n + 1] # <<>>
             /\ errors < MaxErrors
             /\ errors' = errors + 1
             /\ sent' = sent \o FlattenSeq(SubSeq(commands, 1, n))
             /\ commands' = <<<<>>>> \o SubSeq(commands, n + 2, Len(commands))
    BY DEF SendFails
  <1> DEFINE a == SubSeq(commands, 1, n)
             x == commands[n + 1]
             c == SubSeq(commands, n + 2, Len(commands))
             A == FlattenSeq(a)
             D == FlattenSeq(c)
             P == FlattenSeq(commands)
             i == Len(A)
             j == Len(A) + Len(x)
  <1>3. a \in Seq(Command) /\ x \in Command /\ c \in Seq(Command)
    BY <1>1, SplitAt
  <1>4. P = A \o (x \o D)
    BY <1>1, CommandStrings, FlattenSplit
  <1>5. A \in Command /\ D \in Command
    BY <1>3, CommandStrings, FlattenSeqType
  <1>6. sent' = sent \o A /\ commands' = <<<<>>>> \o c /\ x # <<>>
    BY <1>2
  <1> HIDE DEF a, x, c, A
  <1>7. <<>> \in Command
    BY DEF Command
  <1>8. <<<<>>>> \in Seq(Command) /\ FlattenSeq(<<<<>>>>) = <<>>
    BY <1>7, CommandStrings, FlattenSeqOne
  <1>9. commands' \in Seq(Command) /\ FlattenSeq(commands') = <<>> \o D
    BY <1>3, <1>6, <1>8, CommandStrings, ConcatProperties, FlattenSeqConcat
  <1> HIDE DEF D, P
  <1>10. <<>> \o D = D
    BY <1>5, CommandStrings, Zenon DEF Strings
  <1>11. sent' \in Command
    BY <1>1, <1>5, <1>6, ConcatProperties DEF Command
  <1>12. x \o D \in Command
    BY <1>3, <1>5, ConcatProperties DEF Command
  <1>13. A \o x \in Command
    BY <1>3, <1>5, ConcatProperties DEF Command
  <1>14. P = (A \o x) \o D
    <2>1. Assoc(A, x, D)
      BY <1>3, <1>5, CommandStrings, Associative
    <2>2. QED
      BY <1>4, <2>1, Zenon DEF Assoc
  <1>15. SubSeq(P, 1, i) = A /\ Len(P) = i + Len(x \o D)
    BY <1>4, <1>5, <1>12, PartsOfConcat DEF Command
  <1>16. Len(A \o x) = j
    BY <1>3, <1>5, PartsOfConcat DEF Command
  <1>17. SubSeq(P, j + 1, Len(P)) = D /\ Len(P) = j + Len(D)
    BY <1>5, <1>13, <1>14, <1>16, PartsOfConcat DEF Command
  <1>18. Len(A) \in Nat /\ Len(D) \in Nat /\ Len(x) \in Nat \ {0}
    BY <1>3, <1>5, <1>6, EmptySeq DEF Command
  <1>19. i \in 0..Len(P) /\ j \in 0..Len(P) /\ i < j
    BY <1>17, <1>18
  <1>20. /\ sent' = sent \o SubSeq(P, 1, i)
         /\ FlattenSeq(commands') = SubSeq(P, j + 1, Len(P))
         /\ errors' = errors + 1
    BY <1>2, <1>6, <1>9, <1>10, <1>15, <1>17
  <1> HIDE DEF i, j
  <1>21. \E k, l \in 0..Len(P) :
             /\ sent' = sent \o SubSeq(P, 1, k)
             /\ FlattenSeq(commands') = SubSeq(P, l + 1, Len(P)) /\ k < l
             /\ errors' = errors + 1
    BY <1>19, <1>20
  <1>22. C!Lose
    BY <1>21 DEF C!Lose, P
  <1>23. QED
    BY <1>2, <1>9, <1>11, <1>22

-----------------------------------------------------------------------------
(* The steps                                                               *)

\* What any step does to the queue and to what was sent.
Moves == C!Put \/ C!Take \/ C!Lose \/ UNCHANGED C!vars

LEMMA SamePrefix == \A s, t : IsPrefix(s, t) => C!IsPrefix(s, t)
  BY DEF IsPrefix, C!IsPrefix

CommandsIInv == TypeOK /\ WatchFollowsQueue

LEMMA CommandsInit == Init => CommandsIInv
  <1> SUFFICES ASSUME Init PROVE CommandsIInv
    OBVIOUS
  <1>1. Len(Length) \in Nat /\ MaxIncoming \in Nat /\ MaxErrors \in Nat
    BY CommandsAssumption
  <1>2. /\ commands = <<>> /\ sent = <<>> /\ watch = "READ" /\ ready = "NONE"
        /\ issued = 0 /\ incoming = 0 /\ received = 0 /\ errors = 0
    BY DEF Init
  <1>3. <<>> \in Seq(Seq(Byte)) /\ <<>> \in Seq(Byte)
    OBVIOUS
  <1>4. TypeOK
    BY <1>1, <1>2, <1>3 DEF TypeOK
  <1>5. WatchFollowsQueue
    BY <1>2 DEF WatchFollowsQueue
  <1>6. QED
    BY <1>4, <1>5 DEF CommandsIInv

LEMMA CommandsStutter ==
    ASSUME CommandsIInv, UNCHANGED vars
    PROVE  CommandsIInv' /\ UNCHANGED C!vars
  <1>1. /\ commands' = commands /\ sent' = sent /\ watch' = watch /\ ready' = ready
        /\ issued' = issued /\ incoming' = incoming /\ received' = received
        /\ errors' = errors
    BY DEF vars
  <1>2. TypeOK' /\ WatchFollowsQueue'
    BY <1>1 DEF CommandsIInv, TypeOK, WatchFollowsQueue
  <1>3. UNCHANGED C!vars
    BY <1>1 DEF C!vars
  <1>4. QED
    BY <1>2, <1>3 DEF CommandsIInv

LEMMA CommandsFlush ==
    ASSUME CommandsIInv, FlushCommands
    PROVE  CommandsIInv' /\ Moves
  <1>1. TypeOK /\ WatchFollowsQueue
    BY DEF CommandsIInv
  <1>2. /\ SendsAll(commands) \/ SendsPart(commands) \/ SendFails(commands)
        /\ watch' = Registered(commands') /\ ready' = "NONE"
        /\ issued' = issued /\ incoming' = incoming /\ received' = received
    BY DEF FlushCommands
  <1>3. /\ commands' \in Seq(Command) /\ sent' \in Command
        /\ errors' \in 0..MaxErrors /\ (C!Take \/ C!Lose)
    <2>1. errors \in 0..MaxErrors /\ MaxErrors \in Nat
      BY <1>1, CommandsAssumption DEF TypeOK
    <2>2. CASE SendsAll(commands) \/ SendsPart(commands)
      <3>1. /\ commands' \in Seq(Command) /\ sent' \in Command
            /\ errors' = errors /\ IsPrefix(sent, sent')
            /\ sent' \o FlattenSeq(commands') = sent \o FlattenSeq(commands)
        BY <1>1, <2>2, SentAll, SentPart
      <3>2. C!IsPrefix(sent, sent')
        BY <3>1, SamePrefix
      <3>3. C!Take
        BY <3>1, <3>2, Zenon DEF C!Take
      <3>4. QED
        BY <2>1, <3>1, <3>3
    <2>3. CASE SendFails(commands)
      <3>1. /\ commands' \in Seq(Command) /\ sent' \in Command
            /\ errors' = errors + 1 /\ errors < MaxErrors /\ C!Lose
        BY <1>1, <2>3, SentNothing
      <3>2. errors' \in 0..MaxErrors
        BY <2>1, <3>1
      <3>3. QED
        BY <3>1, <3>2
    <2>4. QED
      BY <1>2, <2>2, <2>3
  <1>4. watch' \in {"READ", "WRITE"} /\ (watch' = "WRITE" <=> commands' # <<>>)
    BY <1>2 DEF Registered
  <1>5. TypeOK'
    BY <1>1, <1>2, <1>3, <1>4 DEF TypeOK, Command
  <1>6. WatchFollowsQueue'
    BY <1>2, <1>4 DEF WatchFollowsQueue
  <1>7. QED
    BY <1>3, <1>5, <1>6 DEF CommandsIInv, Moves

LEMMA CommandsFlushUnready ==
    ASSUME CommandsIInv, FlushUnready
    PROVE  CommandsIInv' /\ Moves
  <1>1. TypeOK /\ WatchFollowsQueue
    BY DEF CommandsIInv
  <1>2. /\ watch' = Registered(commands) /\ ready' = "NONE"
        /\ commands' = commands /\ sent' = sent /\ issued' = issued
        /\ incoming' = incoming /\ received' = received /\ errors' = errors
    BY DEF FlushUnready
  <1>3. watch' \in {"READ", "WRITE"} /\ (watch' = "WRITE" <=> commands' # <<>>)
    BY <1>2 DEF Registered
  <1>4. TypeOK'
    BY <1>1, <1>2, <1>3 DEF TypeOK
  <1>5. WatchFollowsQueue'
    BY <1>2, <1>3 DEF WatchFollowsQueue
  <1>6. UNCHANGED C!vars
    BY <1>2 DEF C!vars
  <1>7. QED
    BY <1>4, <1>5, <1>6 DEF CommandsIInv, Moves

\* A handler of a timer or of lines issues commands.
LEMMA CommandsIssue ==
    ASSUME CommandsIInv, NEW n \in 0..2, Issues(n),
           UNCHANGED <<sent, received, errors>>,
           ready' = ready \/ ready' = "NONE", incoming' \in Nat
    PROVE  CommandsIInv' /\ Moves
  <1>1. TypeOK /\ WatchFollowsQueue
    BY DEF CommandsIInv
  <1>2. n \in Nat
    OBVIOUS
  <1>3. /\ commands' \in Seq(Command) /\ issued' \in 0..Len(Length)
        /\ (commands' = <<>> <=> commands = <<>> /\ n = 0)
        /\ \E b \in Command : FlattenSeq(commands') = FlattenSeq(commands) \o b
    BY <1>1, <1>2, Issued
  <1>4. watch' = IF n = 0 THEN watch ELSE Registered(commands')
    BY DEF Issues
  <1>5. watch' \in {"READ", "WRITE"} /\ (watch' = "WRITE" <=> commands' # <<>>)
    <2>1. watch \in {"READ", "WRITE"} /\ (watch = "WRITE" <=> commands # <<>>)
      BY <1>1 DEF TypeOK, WatchFollowsQueue
    <2>2. Registered(commands') = IF commands' = <<>> THEN "READ" ELSE "WRITE"
      BY DEF Registered
    <2>3. CASE n = 0
      BY <1>3, <1>4, <2>1, <2>3, Zenon
    <2>4. CASE n # 0
      BY <1>4, <2>2, <2>4
    <2>5. QED
      BY <2>3, <2>4
  <1>6. ready' = "WRITE" => watch' = "WRITE"
    <2>1. SUFFICES ASSUME ready' = "WRITE" PROVE commands' # <<>>
      BY <1>5
    <2>2. ready = "WRITE"
      BY <2>1
    <2>3. commands # <<>>
      BY <1>1, <2>2 DEF WatchFollowsQueue
    <2>4. QED
      BY <1>3, <2>3, Zenon
  <1>7. TypeOK'
    BY <1>1, <1>3, <1>5 DEF TypeOK, Command
  <1>8. WatchFollowsQueue'
    BY <1>5, <1>6 DEF WatchFollowsQueue
  <1>9. C!Put
    <2>1. PICK b \in Command : FlattenSeq(commands') = FlattenSeq(commands) \o b
      BY <1>3
    <2>2. FlattenSeq(commands) \in Command
      BY <1>1, CommandStrings, FlattenSeqType DEF TypeOK, Command
    <2>3. IsPrefix(FlattenSeq(commands), FlattenSeq(commands) \o b)
      BY <2>2, PrefixOfConcat DEF Command
    <2>4. C!IsPrefix(FlattenSeq(commands), FlattenSeq(commands'))
      BY <2>1, <2>3, SamePrefix
    <2>5. QED
      BY <2>4, Zenon DEF C!Put
  <1>10. QED
    BY <1>7, <1>8, <1>9 DEF CommandsIInv, Moves

LEMMA CommandsTimer ==
    ASSUME CommandsIInv, TimerHandler
    PROVE  CommandsIInv' /\ Moves
  <1>1. PICK n \in 1..2 : Issues(n)
    BY DEF TimerHandler
  <1>2. n \in 0..2
    OBVIOUS
  <1>3. UNCHANGED <<sent, received, errors>> /\ ready' = ready /\ incoming' = incoming
    BY DEF TimerHandler
  <1>4. incoming' \in Nat
    BY <1>3 DEF CommandsIInv, TypeOK
  <1>5. QED
    BY <1>1, <1>2, <1>3, <1>4, CommandsIssue

LEMMA CommandsReceive ==
    ASSUME CommandsIInv, ReceiveLines
    PROVE  CommandsIInv' /\ Moves
  <1>1. PICK n \in 0..2 : Issues(n)
    BY DEF ReceiveLines
  <1>2. UNCHANGED <<sent, received, errors>> /\ ready' = "NONE" /\ incoming' = 0
    BY DEF ReceiveLines
  <1>3. QED
    BY <1>1, <1>2, CommandsIssue

LEMMA CommandsEnvironment ==
    ASSUME CommandsIInv, Poll \/ TorSends
    PROVE  CommandsIInv' /\ Moves
  <1>1. TypeOK /\ WatchFollowsQueue
    BY DEF CommandsIInv
  <1>2. /\ commands' = commands /\ sent' = sent /\ watch' = watch
        /\ issued' = issued /\ errors' = errors
    BY DEF Poll, TorSends
  <1>3. ready' \in {watch, ready}
    BY DEF Poll, TorSends
  <1>4. incoming' \in Nat /\ received' \in 0..MaxIncoming
    <2>1. incoming \in Nat /\ received \in 0..MaxIncoming /\ MaxIncoming \in Nat
      BY <1>1, CommandsAssumption DEF TypeOK
    <2>2. CASE Poll
      BY <2>1, <2>2 DEF Poll
    <2>3. CASE TorSends
      BY <2>1, <2>3 DEF TorSends
    <2>4. QED
      BY <2>2, <2>3
  <1>5. TypeOK'
    <2>1. ready' \in {"NONE", "READ", "WRITE"}
      BY <1>1, <1>3 DEF TypeOK
    <2>2. QED
      BY <1>1, <1>2, <1>4, <2>1 DEF TypeOK
  <1>6. WatchFollowsQueue'
    BY <1>1, <1>2, <1>3 DEF WatchFollowsQueue
  <1>7. UNCHANGED C!vars
    BY <1>2 DEF C!vars
  <1>8. QED
    BY <1>5, <1>6, <1>7 DEF CommandsIInv, Moves

LEMMA CommandsStep ==
    ASSUME CommandsIInv, [Next]_vars
    PROVE  CommandsIInv' /\ Moves
  <1>1. CASE FlushCommands
    BY <1>1, CommandsFlush
  <1>2. CASE FlushUnready
    BY <1>2, CommandsFlushUnready
  <1>3. CASE TimerHandler
    BY <1>3, CommandsTimer
  <1>4. CASE ReceiveLines
    BY <1>4, CommandsReceive
  <1>5. CASE Poll \/ TorSends
    BY <1>5, CommandsEnvironment
  <1>6. CASE UNCHANGED vars
    BY <1>6, CommandsStutter DEF Moves
  <1>7. QED
    BY <1>1, <1>2, <1>3, <1>4, <1>5, <1>6 DEF Next

\* The types, and the watch that follows the queue, are an invariant as they stand.
THEOREM CommandsInductive == Spec => []CommandsIInv
  <1>1. Init => CommandsIInv
    BY CommandsInit
  <1>2. CommandsIInv /\ [Next]_vars => CommandsIInv'
    BY CommandsStep
  <1>3. QED
    BY <1>1, <1>2, PTL DEF Spec

\* Whatever the lengths of the commands and however they are cut: the queue is a
\* sequence of strings of bytes (torctl.c, commandHelperV and flushCommands).
THEOREM CommandsTypeCorrect == Spec => []TypeOK
  <1>1. CommandsIInv => TypeOK
    BY DEF CommandsIInv
  <1>2. QED
    BY <1>1, CommandsInductive, PTL

\* torctl.c:546-556: the one watch writes exactly while commands wait, although a
\* handler may replace it between epoll's report and the handler it is about.
THEOREM WatchFollows == Spec => []WatchFollowsQueue
  <1>1. CommandsIInv => WatchFollowsQueue
    BY DEF CommandsIInv
  <1>2. QED
    BY <1>1, CommandsInductive, PTL

\* torctl.c:519-543: the queue of commands is a channel, whose bytes leave in order,
\* each at most once, and are lost only when send() fails: each flush takes from the
\* front of what waits, each handler adds to the end, and no other step does either.
THEOREM ChannelImplemented == Spec => ImplementsChannel
  <1>1. Init => C!Init
    BY FlattenSeqEmpty DEF Init, C!Init
  <1>2. CommandsIInv /\ [Next]_vars => [C!Put \/ C!Take \/ C!Lose]_(C!vars)
    BY CommandsStep DEF Moves
  <1>3. QED
    BY <1>1, <1>2, CommandsInductive, PTL DEF Spec, ImplementsChannel, C!Spec

-----------------------------------------------------------------------------
(* When no send fails                                                      *)

LEMMA PrefixIsConcat ==
    ASSUME NEW S, NEW s \in Seq(S), NEW t \in Seq(S), C!IsPrefix(s, t)
    PROVE  \E r \in Seq(S) : t = s \o r
  <1>1. Len(s) \in Nat /\ Len(t) \in Nat
    OBVIOUS
  <1>2. Len(s) <= Len(t) /\ SubSeq(s, 1, Len(s)) = SubSeq(t, 1, Len(s))
    BY DEF C!IsPrefix
  <1> DEFINE r == SubSeq(t, Len(s) + 1, Len(t))
  <1>3. Len(s) \in 0..Len(t)
    BY <1>1, <1>2
  <1>4. r \in Seq(S) /\ t = SubSeq(t, 1, Len(s)) \o r
    BY <1>3, Cut
  <1>5. SubSeq(s, 1, Len(s)) = s
    BY SubSeqFull
  <1> HIDE DEF r
  <1>6. t = s \o r
    BY <1>2, <1>4, <1>5
  <1>7. QED
    BY <1>4, <1>6

LEMMA NothingLost ==
    ASSUME MaxErrors = 0, CommandsIInv, CommandsIInv', Moves
    PROVE  \/ C!IsPrefix(sent \o FlattenSeq(commands), sent' \o FlattenSeq(commands'))
           \/ UNCHANGED C!vars
  <1> DEFINE P == FlattenSeq(commands)
             Q == FlattenSeq(commands')
  <1>1. commands \in Seq(Command) /\ sent \in Command /\ errors \in 0..MaxErrors
    BY DEF CommandsIInv, TypeOK, Command
  <1>2. commands' \in Seq(Command) /\ sent' \in Command /\ errors' \in 0..MaxErrors
    BY DEF CommandsIInv, TypeOK, Command
  <1>3. P \in Command /\ Q \in Command
    BY <1>1, <1>2, CommandStrings, FlattenSeqType
  <1>4. CASE C!Put
    <2>1. C!IsPrefix(P, Q) /\ sent' = sent
      BY <1>4, Zenon DEF C!Put
    <2> HIDE DEF P, Q
    <2>2. PICK r \in Command : Q = P \o r
      BY <1>3, <2>1, PrefixIsConcat DEF Command
    <2>3. sent \o P \in Command
      BY <1>1, <1>3, ConcatProperties DEF Command
    <2>4. (sent \o P) \o r = sent \o (P \o r)
      <3>1. Assoc(sent, P, r)
        BY <1>1, <1>3, CommandStrings, Associative
      <3>2. QED
        BY <3>1, Zenon DEF Assoc
    <2>5. IsPrefix(sent \o P, (sent \o P) \o r)
      BY <2>3, PrefixOfConcat DEF Command
    <2>6. C!IsPrefix(sent \o P, sent' \o Q)
      <3>1. (sent \o P) \o r = sent' \o Q
        BY <2>1, <2>2, <2>4, Zenon
      <3>2. QED
        BY <2>5, <3>1, SamePrefix, Zenon
    <2>7. QED
      BY <2>6 DEF P, Q
  <1>5. CASE C!Take
    <2>1. sent' \o Q = sent \o P
      BY <1>5, Zenon DEF C!Take
    <2> HIDE DEF P, Q
    <2>2. sent \o P \in Command
      BY <1>1, <1>3, ConcatProperties DEF Command
    <2>3. IsPrefix(sent \o P, (sent \o P) \o <<>>) /\ (sent \o P) \o <<>> = sent \o P
      <3>1. <<>> \in Seq(Byte)
        OBVIOUS
      <3>2. QED
        BY <2>2, <3>1, PrefixOfConcat, ConcatEmptySeq DEF Command
    <2>4. C!IsPrefix(sent \o P, sent' \o Q)
      BY <2>1, <2>3, SamePrefix, Zenon
    <2>5. QED
      BY <2>4 DEF P, Q
  <1>6. CASE C!Lose
    <2>1. errors' = errors + 1
      BY <1>6 DEF C!Lose
    <2>2. QED
      BY <1>1, <1>2, <2>1
  <1>7. QED
    BY <1>4, <1>5, <1>6 DEF Moves

\* torctl.c:538: as long as no send() fails, a command stays in the queue until it is
\* sent, however it is cut: an error is the only way to lose one.
THEOREM KeptUnlessFailed == MaxErrors = 0 => (Spec => KeptUntilSent)
  <1> SUFFICES ASSUME MaxErrors = 0 PROVE Spec => KeptUntilSent
    OBVIOUS
  <1>1. CommandsIInv /\ CommandsIInv' /\ [Next]_vars
            => [C!IsPrefix(sent \o FlattenSeq(commands), sent' \o FlattenSeq(commands)')]_(C!vars)
    BY CommandsStep, NothingLost
  <1>2. QED
    BY <1>1, CommandsInductive, PTL DEF Spec, KeptUntilSent, C!Keeps
=============================================================================
