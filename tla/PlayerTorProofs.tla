--------------------------- MODULE PlayerTorProofs ---------------------------
(* Proofs about module PlayerTor.                                          *)
EXTENDS PlayerTor, PlayerProofs

-----------------------------------------------------------------------------
(* The inductive invariant                                                 *)

\* How many entries of a queue are in Y.
CountIn(q, Y) == Cardinality({i \in DOMAIN q : q[i] \in Y})

Extends == {m \in Command : m.type = "EXTENDCIRCUIT"}
Replies == {e \in Event : e.type = "EXTENDED"}
AttachmentsOf(st) == {m \in Command : m.type = "ATTACHSTREAM" /\ m.stream = st}

\* Event i says that circuit id was built, failed or closed.
Corrects(ev, i, id) == ev[i].type \in {"BUILT", "FAILED", "CLOSED"} /\ ev[i].id = id

\* The ids in the table name the circuits that Tor made for them, and a circuit
\* that the Player believes built was built.
TableMatched(p, tc) ==
    \A id \in CircuitIDs : p.circuits[id] # NoCircuit =>
        /\ tc[id].circuit = p.circuits[id]
        /\ tc[id].session = p.heap[p.circuits[id]].session
        /\ tc[id].state # "unused"
        /\ p.heap[p.circuits[id]].status = "BUILT" => tc[id].state \in {"built", "closed"}

\* ViewCatchesUp, of a given state of the Player and of the connection.
ViewFollows(p, ev, tc) ==
    \A id \in CircuitIDs : p.circuits[id] # NoCircuit =>
        \/ \E i \in DOMAIN ev : Corrects(ev, i, id)
        \/ tc[id].state = "building" /\ p.heap[p.circuits[id]].status = "ASSIGNED"
        \/ tc[id].state = "built" /\ p.heap[p.circuits[id]].status = "BUILT"

\* A circuit is reported built once.
BuiltIsNews(p, ev) ==
    \A i \in DOMAIN ev : ev[i].type = "BUILT" /\ p.circuits[ev[i].id] # NoCircuit =>
        p.heap[p.circuits[ev[i].id]].status = "ASSIGNED"

\* A reply on its way is for the session that awaits an id.
RepliesAwaited(p, ev, tc) ==
    \A i \in DOMAIN ev : ev[i].type = "EXTENDED" =>
        /\ p.sessionAwaitingAssignment # NoSession
        /\ p.circuits[ev[i].id] = NoCircuit
        /\ tc[ev[i].id].session = p.sessionAwaitingAssignment
        /\ tc[ev[i].id].circuit = CurrentCircuit(p, p.sessionAwaitingAssignment)

\* A command on its way is for the session that awaits an id, or attaches a
\* stream to a circuit that was built for the stream's session.
CommandsFollow(p, tc) ==
    \A i \in DOMAIN p.commands :
        LET m == p.commands[i]
        IN  /\ m.type = "EXTENDCIRCUIT" =>
                  /\ m.session = p.sessionAwaitingAssignment
                  /\ m.circuit = CurrentCircuit(p, p.sessionAwaitingAssignment)
            /\ m.type = "ATTACHSTREAM" /\ m.id # 0 =>
                  /\ tc[m.id].state \in {"built", "closed"}
                  /\ tc[m.id].session = User[m.stream]

\* Streams wait in the session that their username names.
StreamsAtHome(p) ==
    \A s \in Sessions : \A i \in DOMAIN p.waitingStreamIDs[s] :
        p.waitingStreamIDs[s][i] >= 0 => User[p.waitingStreamIDs[s][i]] = s

OneInFlight(p, ev, rf) ==
    CountIn(p.commands, Extends) + CountIn(ev, Replies) + rf
      = (IF p.sessionAwaitingAssignment = NoSession THEN 0 ELSE 1)

Unbuilt(p) == {c \in Circuits : p.heap[c].status \in {"LAUNCHED", "ASSIGNED"}}

BuildingBounded(p) == IsFiniteSet(Unbuilt(p)) /\ p.circuitsBuilding >= Cardinality(Unbuilt(p))

\* What each event on its way says of Tor's circuit: it was true when Tor sent
\* it, and if it is not true any more then another event follows.
EventsFollow(ev, tc) ==
    /\ \A i \in DOMAIN ev :
          /\ ev[i].type = "EXTENDED" =>
                \/ tc[ev[i].id].state = "building"
                \/ tc[ev[i].id].state # "unused"
                     /\ \E j \in DOMAIN ev : i < j /\ Corrects(ev, j, ev[i].id)
          /\ ev[i].type = "BUILT" =>
                \/ tc[ev[i].id].state = "built"
                \/ tc[ev[i].id].state = "closed" /\ \E j \in DOMAIN ev : i < j /\ Corrects(ev, j, ev[i].id)
          /\ ev[i].type \in {"FAILED", "CLOSED"} => tc[ev[i].id].state = "closed"
    /\ \A i, j \in DOMAIN ev : ev[i].type = "BUILT" /\ ev[j].type = "BUILT" /\ ev[i].id = ev[j].id => i = j

\* A stream of Tor is on a circuit of its session.
StreamsIsolated(ts, tc) ==
    \A st \in Streams : ts[st].id # 0 =>
        tc[ts[st].id].session = User[st] /\ tc[ts[st].id].state # "unused"

\* The Player's state agrees with Tor's circuits and with the events to come.
Agrees(p, ev, tc, rf) ==
    /\ TableMatched(p, tc)
    /\ ViewFollows(p, ev, tc)
    /\ BuiltIsNews(p, ev)
    /\ RepliesAwaited(p, ev, tc)
    /\ CommandsFollow(p, tc)
    /\ StreamsAtHome(p)
    /\ OneInFlight(p, ev, rf)
    /\ BuildingBounded(p)

TorIInv ==
    /\ IInv
    /\ TorTypeOK
    /\ EventsFollow(events, torCircuits)
    /\ StreamsIsolated(torStreams, torCircuits)
    /\ Agrees(player, events, torCircuits, refused)

-----------------------------------------------------------------------------
(* Counting                                                                *)

LEMMA TailIndex ==
    ASSUME NEW S, NEW q \in Seq(S), q # <<>>
    PROVE  /\ Tail(q) \in Seq(S) /\ DOMAIN Tail(q) = 1..(Len(q) - 1) /\ DOMAIN q = 1..Len(q)
           /\ Len(q) \in Nat /\ 1 \in DOMAIN q /\ q[1] = Head(q) /\ Head(q) \in S
           /\ \A i \in DOMAIN Tail(q) : i + 1 \in DOMAIN q /\ Tail(q)[i] = q[i + 1]
           /\ \A i \in DOMAIN q : i # 1 => i - 1 \in DOMAIN Tail(q) /\ Tail(q)[i - 1] = q[i]
  <1>1. /\ Head(q) = q[1] /\ q[1] \in S /\ 1 \in DOMAIN q /\ DOMAIN q = 1..Len(q) /\ Len(q) \in Nat
        /\ Tail(q) \in Seq(S) /\ DOMAIN Tail(q) = 1..(Len(q) - 1)
        /\ \A i \in 1..(Len(q) - 1) : Tail(q)[i] = q[i + 1]
    BY QueueHead
  <1> DEFINE n == Len(q)
             t == Tail(q)
  <1> HIDE DEF n, t
  <1>2. \A i \in 1..(n - 1) : i + 1 \in 1..n /\ t[i] = q[i + 1]
    BY <1>1 DEF n, t
  <1>3. ASSUME NEW i \in 1..n, i # 1 PROVE i - 1 \in 1..(n - 1) /\ t[i - 1] = q[i]
    <2>1. n \in Nat
      BY <1>1 DEF n
    <2>2. i - 1 \in 1..(n - 1) /\ (i - 1) + 1 = i
      BY <1>3, <2>1
    <2>3. QED
      BY <2>2, <1>2
  <1>4. QED
    BY <1>1, <1>2, <1>3 DEF n, t

LEMMA Shifted ==
    ASSUME NEW A \in SUBSET Nat, IsFiniteSet(A), NEW k \in Nat
    PROVE  /\ IsFiniteSet({i + k : i \in A}) /\ Cardinality({i + k : i \in A}) = Cardinality(A)
  <1> DEFINE B == {i + k : i \in A}
             f == [i \in A |-> i + k]
  <1>1. f \in [A -> B] /\ (\A x, y \in A : f[x] = f[y] => x = y) /\ (\A z \in B : \E x \in A : f[x] = z)
    <2>1. \A x \in A : f[x] = x + k /\ x \in Nat
      OBVIOUS
    <2>2. f \in [A -> B]
      OBVIOUS
    <2>3. \A z \in B : \E x \in A : z = x + k
      OBVIOUS
    <2> HIDE DEF f, B
    <2>4. QED
      BY <2>1, <2>2, <2>3
  <1> HIDE DEF f, B
  <1>2. ExistsBijection(A, B)
    BY <1>1 DEF ExistsBijection, Bijection, Injection, Surjection, IsInjective
  <1>3. QED
    BY <1>2, FS_Bijection DEF B

LEMMA CountType ==
    ASSUME NEW S, NEW q \in Seq(S), NEW Y
    PROVE  /\ IsFiniteSet({i \in DOMAIN q : q[i] \in Y}) /\ CountIn(q, Y) \in Nat
           /\ CountIn(q, Y) = 0 => \A i \in DOMAIN q : q[i] \notin Y
  <1> DEFINE T == {i \in DOMAIN q : q[i] \in Y}
  <1>1. T \subseteq 1..Len(q) /\ Len(q) \in Nat
    BY LenProperties
  <1>2. IsFiniteSet(1..Len(q))
    BY <1>1, FS_Interval
  <1> HIDE DEF T
  <1>3. IsFiniteSet(T) /\ Cardinality(T) \in Nat /\ (Cardinality(T) = 0 => T = {})
    BY <1>1, <1>2, FS_Subset, FS_CardinalityType, FS_EmptySet
  <1>4. QED
    BY <1>3 DEF T, CountIn

LEMMA CountNone ==
    ASSUME NEW q, NEW Y, \A i \in DOMAIN q : q[i] \notin Y
    PROVE  CountIn(q, Y) = 0
  <1>1. {i \in DOMAIN q : q[i] \in Y} = {}
    OBVIOUS
  <1>2. QED
    BY <1>1, FS_EmptySet DEF CountIn

LEMMA CountConcat ==
    ASSUME NEW S, NEW q \in Seq(S), NEW r \in Seq(S), NEW Y
    PROVE  CountIn(q \o r, Y) = CountIn(q, Y) + CountIn(r, Y)
  <1> DEFINE n == Len(q)
             m == Len(r)
             a == q \o r
             A == {i \in 1..n : q[i] \in Y}
             B == {i \in 1..m : r[i] \in Y}
             C == {i + n : i \in B}
             D == {i \in 1..(n + m) : a[i] \in Y}
  <1>1. /\ n \in Nat /\ m \in Nat /\ DOMAIN q = 1..n /\ DOMAIN r = 1..m /\ DOMAIN a = 1..(n + m)
        /\ \A i \in 1..(n + m) : a[i] = IF i <= n THEN q[i] ELSE r[i - n]
    BY ConcatProperties, LenProperties
  <1>2. CountIn(q, Y) = Cardinality(A) /\ CountIn(r, Y) = Cardinality(B) /\ CountIn(a, Y) = Cardinality(D)
    BY <1>1 DEF CountIn
  <1>3. IsFiniteSet(A) /\ IsFiniteSet(B)
    BY <1>1, CountType
  <1> HIDE DEF n, m, a
  <1>4. D = A \cup C /\ A \cap C = {}
    <2>1. ASSUME NEW i \in 1..(n + m), i \notin 1..n PROVE i - n \in 1..m /\ a[i] = r[i - n] /\ (i - n) + n = i
      BY <2>1, <1>1
    <2>2. \A i \in 1..n : i \in 1..(n + m) /\ a[i] = q[i]
      BY <1>1
    <2>3. ASSUME NEW i \in B PROVE i + n \in 1..(n + m) /\ i + n \notin 1..n /\ a[i + n] = r[i]
      <3>1. i \in 1..m
        OBVIOUS
      <3>2. i + n \in 1..(n + m) /\ i + n \notin 1..n /\ (i + n) - n = i /\ ~(i + n <= n)
        BY <3>1, <1>1
      <3>3. QED
        BY <3>2, <1>1
    <2>4. D \subseteq A \cup C
      BY <2>1, <2>2
    <2>5. A \cup C \subseteq D
      BY <2>2, <2>3
    <2>6. QED
      BY <2>3, <2>4, <2>5
  <1>5. B \subseteq Nat
    BY <1>1
  <1> HIDE DEF A, B
  <1>6. IsFiniteSet(C) /\ Cardinality(C) = Cardinality(B)
    BY <1>1, <1>3, <1>5, Shifted
  <1> HIDE DEF C, D
  <1>7. Cardinality(D) = Cardinality(A) + Cardinality(C)
    <2>1. Cardinality(A \cup C) = Cardinality(A) + Cardinality(C) - Cardinality(A \cap C)
      BY <1>3, <1>6, FS_Union
    <2>2. Cardinality(A \cap C) = 0 /\ Cardinality(A) \in Nat /\ Cardinality(C) \in Nat
      BY <1>3, <1>4, <1>6, FS_EmptySet, FS_CardinalityType
    <2>3. QED
      BY <2>1, <2>2, <1>4
  <1>8. QED
    BY <1>2, <1>6, <1>7 DEF a

LEMMA CountOne ==
    ASSUME NEW e, NEW Y
    PROVE  CountIn(<<e>>, Y) = IF e \in Y THEN 1 ELSE 0
  <1>1. DOMAIN <<e>> = {1} /\ <<e>>[1] = e
    OBVIOUS
  <1>2. {i \in DOMAIN <<e>> : <<e>>[i] \in Y} = IF e \in Y THEN {1} ELSE {}
    BY <1>1
  <1>3. QED
    BY <1>2, FS_EmptySet, FS_Singleton DEF CountIn

LEMMA CountAppend ==
    ASSUME NEW S, NEW q \in Seq(S), NEW e \in S, NEW Y
    PROVE  CountIn(Append(q, e), Y) = CountIn(q, Y) + (IF e \in Y THEN 1 ELSE 0)
  <1> DEFINE h == <<e>>
  <1>1. Append(q, e) = q \o h /\ h \in Seq(S)
    BY AppendIsConcat
  <1>2. CountIn(h, Y) = IF e \in Y THEN 1 ELSE 0
    BY CountOne
  <1> HIDE DEF h
  <1>3. CountIn(q \o h, Y) = CountIn(q, Y) + CountIn(h, Y)
    BY <1>1, CountConcat
  <1>4. QED
    BY <1>1, <1>2, <1>3

LEMMA CountTail ==
    ASSUME NEW S, NEW q \in Seq(S), q # <<>>, NEW Y
    PROVE  CountIn(q, Y) = CountIn(Tail(q), Y) + (IF Head(q) \in Y THEN 1 ELSE 0)
  <1>1. q = <<Head(q)>> \o Tail(q) /\ <<Head(q)>> \in Seq(S) /\ Tail(q) \in Seq(S)
    BY QueueHead, HeadTailProperties
  <1>2. CountIn(Tail(q), Y) \in Nat
    BY <1>1, CountType
  <1>3. CountIn(q, Y) = CountIn(<<Head(q)>>, Y) + CountIn(Tail(q), Y)
    <2> DEFINE h == <<Head(q)>>
    <2> HIDE DEF h
    <2>1. CountIn(h \o Tail(q), Y) = CountIn(h, Y) + CountIn(Tail(q), Y)
      BY <1>1, CountConcat DEF h
    <2>2. QED
      BY <1>1, <2>1 DEF h
  <1>4. QED
    BY <1>2, <1>3, CountOne

-----------------------------------------------------------------------------
(* What the Player's operations keep of the agreement with Tor             *)

LEMMA EventFields ==
    ASSUME NEW e \in Event
    PROVE  /\ e.type \in {"EXTENDED", "BUILT", "FAILED", "CLOSED", "NEW"}
           /\ e.type # "NEW" => e.id \in CircuitIDs /\ e = CircuitEvent(e.type, e.id)
           /\ e.type = "NEW" => e.stream \in Streams /\ e = StreamNew(e.stream)
  BY DEF Event, CircuitEvent, StreamNew

LEMMA CommandFields ==
    ASSUME NEW m \in Command
    PROVE  /\ m.type \in {"EXTENDCIRCUIT", "ATTACHSTREAM"}
           /\ m.type = "EXTENDCIRCUIT" => m.session \in Sessions /\ m.circuit \in Circuits
           /\ m.type = "ATTACHSTREAM" => m.stream \in Streams /\ m.id \in IDs
  BY DEF Command

\* The table names no circuit that it did not name, and what it names is the same.
KeepsTable(p, q) ==
    \A id \in CircuitIDs : q.circuits[id] # NoCircuit =>
        /\ q.circuits[id] = p.circuits[id]
        /\ q.heap[p.circuits[id]].session = p.heap[p.circuits[id]].session
        /\ q.heap[p.circuits[id]].status = p.heap[p.circuits[id]].status

\* The session that awaits an id, and the circuit it is for, stay as they are.
KeepsAwaited(p, q) ==
    /\ q.sessionAwaitingAssignment = p.sessionAwaitingAssignment
    /\ p.sessionAwaitingAssignment # NoSession =>
          CurrentCircuit(q, p.sessionAwaitingAssignment) = CurrentCircuit(p, p.sessionAwaitingAssignment)

LEMMA KeepsTableAgrees ==
    ASSUME NEW p, NEW q, KeepsTable(p, q), NEW ev \in Seq(Event), NEW tc
    PROVE  /\ TableMatched(p, tc) => TableMatched(q, tc)
           /\ ViewFollows(p, ev, tc) => ViewFollows(q, ev, tc)
           /\ BuiltIsNews(p, ev) => BuiltIsNews(q, ev)
           /\ KeepsAwaited(p, q) /\ RepliesAwaited(p, ev, tc) => RepliesAwaited(q, ev, tc)
  <1>1. \A i \in DOMAIN ev : ev[i].type # "NEW" => ev[i].id \in CircuitIDs
    <2>1. \A i \in DOMAIN ev : ev[i] \in Event
      BY ElementOfSeq, LenProperties
    <2>2. QED
      BY <2>1, EventFields
  <1>2. TableMatched(p, tc) => TableMatched(q, tc)
    BY DEF TableMatched, KeepsTable
  <1>3. ViewFollows(p, ev, tc) => ViewFollows(q, ev, tc)
    BY DEF ViewFollows, KeepsTable
  <1>4. BuiltIsNews(p, ev) => BuiltIsNews(q, ev)
    BY <1>1 DEF BuiltIsNews, KeepsTable
  <1>5. KeepsAwaited(p, q) /\ RepliesAwaited(p, ev, tc) => RepliesAwaited(q, ev, tc)
    BY <1>1 DEF RepliesAwaited, KeepsTable, KeepsAwaited
  <1>6. QED
    BY <1>2, <1>3, <1>4, <1>5

LEMMA KeepsCommandsFollow ==
    ASSUME NEW p, NEW q, KeepsAwaited(p, q), NEW tc, CommandsFollow(p, tc),
           p.commands \in Seq(Command), q.commands = p.commands
    PROVE  CommandsFollow(q, tc)
  <1>1. \A i \in DOMAIN p.commands : p.commands[i].type = "EXTENDCIRCUIT" => p.commands[i].session \in Sessions
    <2>1. \A i \in DOMAIN p.commands : p.commands[i] \in Command
      BY ElementOfSeq, LenProperties
    <2>2. QED
      BY <2>1, CommandFields
  <1>2. NoSession \notin Sessions
    BY PlayerAssumption
  <1>3. QED
    BY <1>1, <1>2 DEF CommandsFollow, KeepsAwaited

\* An operation that does none of what Tor or the commands depend on.
KeepsAgreement(p, q) ==
    /\ KeepsTable(p, q) /\ KeepsAwaited(p, q) /\ Unbuilt(q) = Unbuilt(p)
    /\ q.commands = p.commands
    /\ q.waitingStreamIDs = p.waitingStreamIDs
    /\ q.circuitsBuilding = p.circuitsBuilding

LEMMA KeepsAgreementAgrees ==
    ASSUME NEW p, NEW q, KeepsAgreement(p, q), p.commands \in Seq(Command),
           NEW ev \in Seq(Event), NEW tc, NEW rf, Agrees(p, ev, tc, rf)
    PROVE  Agrees(q, ev, tc, rf)
  <1>1. TableMatched(q, tc) /\ ViewFollows(q, ev, tc) /\ BuiltIsNews(q, ev) /\ RepliesAwaited(q, ev, tc)
    BY KeepsTableAgrees DEF KeepsAgreement, Agrees
  <1>2. CommandsFollow(q, tc)
    BY KeepsCommandsFollow DEF KeepsAgreement, Agrees
  <1>3. StreamsAtHome(q)
    BY DEF KeepsAgreement, Agrees, StreamsAtHome
  <1>4. OneInFlight(q, ev, rf)
    BY DEF KeepsAgreement, KeepsAwaited, Agrees, OneInFlight
  <1>5. BuildingBounded(q)
    BY DEF KeepsAgreement, Agrees, BuildingBounded
  <1>6. QED
    BY <1>1, <1>2, <1>3, <1>4, <1>5 DEF Agrees

LEMMA RotateAgrees ==
    ASSUME NEW p, Core(p), NEW s \in p.sessions,
           p.sessionAwaitingAssignment # s, Len(p.circuitsSorted[s]) > 1,
           NEW ev \in Seq(Event), NEW tc, NEW rf, Agrees(p, ev, tc, rf)
    PROVE  Agrees(Rotate(p, s), ev, tc, rf)
  <1> DEFINE q == Rotate(p, s)
             old == CurrentCircuit(p, s)
  <1>1. /\ s \in Sessions /\ old \in Circuits /\ p.heap[old] \in Circuit /\ p \in PlayerState
    BY CurrentCircuitOwned DEF Core
  <1>2. /\ q.heap = [p.heap EXCEPT ![old] = Freed]
        /\ q.circuitsSorted = [p.circuitsSorted EXCEPT ![s] = Tail(p.circuitsSorted[s])]
        /\ q.circuits = [p.circuits EXCEPT ![p.heap[old].id] = NoCircuit]
        /\ q.waitingStreamIDs = p.waitingStreamIDs
        /\ q.sessionAwaitingAssignment = p.sessionAwaitingAssignment
        /\ q.circuitsBuilding = p.circuitsBuilding
        /\ q.commands = p.commands
    BY <1>1 DEF Rotate, PlayerState
  <1>3. /\ \A c \in Circuits : c # old => q.heap[c] = p.heap[c]
        /\ q.heap[old] = Freed
        /\ \A r \in Sessions : r # s => q.circuitsSorted[r] = p.circuitsSorted[r]
        /\ \A id \in IDs : q.circuits[id] = IF id = p.heap[old].id THEN NoCircuit ELSE p.circuits[id]
        /\ \A id \in IDs : p.circuits[id] \in Circuits \cup {NoCircuit}
        /\ p.sessionAwaitingAssignment \in Sessions \cup {NoSession}
        /\ p.commands \in Seq(Command)
    BY <1>1, <1>2 DEF PlayerState
  <1>4. KeepsTable(p, q)
    <2>1. SUFFICES ASSUME NEW id \in CircuitIDs, q.circuits[id] # NoCircuit
                   PROVE  /\ q.circuits[id] = p.circuits[id]
                          /\ q.heap[p.circuits[id]] = p.heap[p.circuits[id]]
      BY DEF KeepsTable
    <2>2. id \in IDs /\ id # p.heap[old].id /\ q.circuits[id] = p.circuits[id]
      BY <2>1, <1>3 DEF IDs
    <2>3. p.circuits[id] # old /\ p.circuits[id] \in Circuits
      BY <2>1, <2>2, <1>3 DEF Core, TableMatchesCircuits
    <2>4. QED
      BY <2>2, <2>3, <1>3
  <1>5. KeepsAwaited(p, q)
    BY <1>2, <1>3 DEF KeepsAwaited, CurrentCircuit
  <1>6. TableMatched(q, tc) /\ ViewFollows(q, ev, tc) /\ BuiltIsNews(q, ev) /\ RepliesAwaited(q, ev, tc)
    BY <1>4, <1>5, KeepsTableAgrees DEF Agrees
  <1>7. CommandsFollow(q, tc)
    BY <1>2, <1>3, <1>5, KeepsCommandsFollow DEF Agrees
  <1>8. StreamsAtHome(q) /\ OneInFlight(q, ev, rf)
    BY <1>2 DEF Agrees, StreamsAtHome, OneInFlight
  <1>9. BuildingBounded(q)
    <2>1. Unbuilt(q) \subseteq Unbuilt(p)
      BY <1>3 DEF Unbuilt, Freed
    <2> DEFINE U == Unbuilt(p)
    <2>2. IsFiniteSet(U) /\ p.circuitsBuilding >= Cardinality(U) /\ Unbuilt(q) \subseteq U
      BY <2>1 DEF Agrees, BuildingBounded
    <2> HIDE DEF U
    <2>3. /\ IsFiniteSet(Unbuilt(q)) /\ Cardinality(Unbuilt(q)) <= Cardinality(U)
          /\ Cardinality(Unbuilt(q)) \in Nat /\ Cardinality(U) \in Nat
      BY <2>2, FS_Subset, FS_CardinalityType
    <2>4. p.circuitsBuilding \in Int
      BY <1>1 DEF PlayerState
    <2>5. QED
      BY <1>2, <2>2, <2>3, <2>4 DEF BuildingBounded
  <1>10. Agrees(q, ev, tc, rf)
    BY <1>6, <1>7, <1>8, <1>9 DEF Agrees
  <1>11. QED
    BY <1>10 DEF q

LEMMA EnterBacklogAgrees ==
    ASSUME NEW p, p \in PlayerState, NEW b,
           NEW ev \in Seq(Event), NEW tc, NEW rf, Agrees(p, ev, tc, rf)
    PROVE  Agrees([p EXCEPT !.sessionAssignmentBacklog = b], ev, tc, rf)
  <1> DEFINE q == [p EXCEPT !.sessionAssignmentBacklog = b]
  <1>1. /\ q.heap = p.heap /\ q.circuits = p.circuits /\ q.circuitsSorted = p.circuitsSorted
        /\ q.sessionAwaitingAssignment = p.sessionAwaitingAssignment
        /\ q.commands = p.commands /\ q.waitingStreamIDs = p.waitingStreamIDs
        /\ q.circuitsBuilding = p.circuitsBuilding /\ p.commands \in Seq(Command)
    BY DEF PlayerState
  <1> HIDE DEF q
  <1>2. KeepsAgreement(p, q)
    BY <1>1 DEF KeepsAgreement, KeepsTable, KeepsAwaited, CurrentCircuit, Unbuilt
  <1>3. Agrees(q, ev, tc, rf)
    BY <1>1, <1>2, KeepsAgreementAgrees
  <1>4. QED
    BY <1>3 DEF q

LEMMA LaunchCircuitAgrees ==
    ASSUME NEW p, Core(p), NEW s \in p.sessions, p.sessionAwaitingAssignment = NoSession,
           p.heap[CurrentCircuit(p, s)].status = "NONE",
           NEW ev \in Seq(Event), NEW tc, NEW rf \in Nat, Agrees(p, ev, tc, rf)
    PROVE  Agrees(LaunchCircuit(p, s), ev, tc, rf)
  <1> DEFINE q == LaunchCircuit(p, s)
             c == CurrentCircuit(p, s)
             m == ExtendCircuit(s, c, p.heap[c].path /\ p.heap[c].failures < 3)
  <1>1. /\ s \in Sessions /\ c \in Circuits /\ p.heap[c] \in Circuit /\ p \in PlayerState
        /\ p.heap[c].status = "NONE" /\ p.heap \in [Circuits -> Circuit]
        /\ p.commands \in Seq(Command) /\ p.circuitsBuilding \in Int /\ s # NoSession
    BY CurrentCircuitOwned, PlayerAssumption DEF Core, PlayerState
  <1>2. m \in Command /\ m.type = "EXTENDCIRCUIT" /\ m.session = s /\ m.circuit = c
    <2>1. (p.heap[c].path /\ p.heap[c].failures < 3) \in BOOLEAN
      OBVIOUS
    <2>2. QED
      BY <1>1, <2>1 DEF ExtendCircuit, Command
  <1>3. /\ q.heap = [p.heap EXCEPT ![c] = [p.heap[c] EXCEPT !.status = "LAUNCHED"]]
        /\ q.circuits = p.circuits /\ q.circuitsSorted = p.circuitsSorted
        /\ q.waitingStreamIDs = p.waitingStreamIDs
        /\ q.sessionAwaitingAssignment = s
        /\ q.circuitsBuilding = p.circuitsBuilding + 1
        /\ q.commands = Append(p.commands, m)
    BY <1>1 DEF LaunchCircuit, PlayerState
  <1> HIDE DEF q, m, c
  <1>4. /\ \A d \in Circuits : d # c => q.heap[d] = p.heap[d]
        /\ q.heap[c].status = "LAUNCHED"
    BY <1>1, <1>3 DEF Circuit
  <1>5. KeepsTable(p, q)
    <2>1. SUFFICES ASSUME NEW id \in CircuitIDs, p.circuits[id] # NoCircuit
                   PROVE  q.heap[p.circuits[id]] = p.heap[p.circuits[id]]
      BY <1>3 DEF KeepsTable
    <2>2. id \in IDs
      BY DEF IDs
    <2>3. p.circuits[id] \in Circuits /\ p.heap[p.circuits[id]].status \in {"ASSIGNED", "BUILT"}
      <3>1. p.circuits[id] \in Circuits
        BY <2>1, <2>2, <1>1 DEF PlayerState
      <3>2. QED
        BY <2>1, <2>2, <3>1 DEF Core, TableMatchesCircuits
    <2>4. QED
      BY <2>3, <1>1, <1>4
  <1>6. TableMatched(q, tc) /\ ViewFollows(q, ev, tc) /\ BuiltIsNews(q, ev)
    BY <1>5, KeepsTableAgrees DEF Agrees
  <1>7. RepliesAwaited(q, ev, tc)
    BY DEF Agrees, RepliesAwaited
  <1>8. CurrentCircuit(q, s) = c
    BY <1>3 DEF CurrentCircuit, c
  <1>9. CommandsFollow(q, tc)
    <2>1. \A i \in 1..Len(p.commands) : p.commands[i].type = "EXTENDCIRCUIT" => p.commands[i].session \in Sessions
      <3>1. \A i \in 1..Len(p.commands) : p.commands[i] \in Command
        BY <1>1, ElementOfSeq
      <3>2. QED
        BY <3>1, CommandFields
    <2>2. /\ DOMAIN p.commands = 1..Len(p.commands) /\ DOMAIN q.commands = 1..(Len(p.commands) + 1)
          /\ \A i \in 1..Len(p.commands) : q.commands[i] = p.commands[i]
          /\ q.commands[Len(p.commands) + 1] = m /\ Len(p.commands) \in Nat
      BY <1>1, <1>2, <1>3, QueuePush
    <2>3. \A i \in 1..Len(p.commands) : p.commands[i].type # "EXTENDCIRCUIT"
      BY <2>1, <2>2, PlayerAssumption DEF Agrees, CommandsFollow
    <2>4. \A i \in DOMAIN q.commands : i \in 1..Len(p.commands) \/ i = Len(p.commands) + 1
      BY <2>2
    <2>5. ASSUME NEW i \in DOMAIN q.commands
          PROVE  /\ q.commands[i].type = "EXTENDCIRCUIT" =>
                      q.commands[i].session = s /\ q.commands[i].circuit = c
                 /\ q.commands[i].type = "ATTACHSTREAM" /\ q.commands[i].id # 0 =>
                      /\ tc[q.commands[i].id].state \in {"built", "closed"}
                      /\ tc[q.commands[i].id].session = User[q.commands[i].stream]
      <3>1. CASE i \in 1..Len(p.commands)
        <4>1. i \in DOMAIN p.commands /\ q.commands[i] = p.commands[i]
          BY <3>1, <2>2
        <4>2. QED
          BY <3>1, <4>1, <2>3 DEF Agrees, CommandsFollow
      <3>2. CASE i = Len(p.commands) + 1
        BY <3>2, <2>2, <1>2
      <3>3. QED
        BY <3>1, <3>2, <2>4
    <2>6. QED
      BY <2>5, <1>3, <1>8 DEF CommandsFollow
  <1>10. StreamsAtHome(q)
    BY <1>3 DEF Agrees, StreamsAtHome
  <1>11. OneInFlight(q, ev, rf)
    <2>1. CountIn(q.commands, Extends) = CountIn(p.commands, Extends) + 1
      <3>1. m \in Extends
        BY <1>2 DEF Extends
      <3>2. QED
        BY <1>1, <1>2, <1>3, <3>1, CountAppend
    <2>2. CountIn(p.commands, Extends) \in Nat /\ CountIn(ev, Replies) \in Nat
      BY <1>1, CountType
    <2>3. QED
      BY <2>1, <2>2, <1>1, <1>3 DEF Agrees, OneInFlight
  <1>12. BuildingBounded(q)
    <2> DEFINE U == Unbuilt(p)
    <2>1. Unbuilt(q) = U \cup {c} /\ c \notin U
      <3>1. \A d \in Circuits : d \in Unbuilt(q) <=> d \in U \/ d = c
        BY <1>1, <1>4 DEF Unbuilt
      <3>2. Unbuilt(q) \subseteq Circuits /\ U \subseteq Circuits /\ c \in Circuits /\ c \notin U
        BY <1>1, <1>4 DEF Unbuilt, c
      <3> HIDE DEF U
      <3>3. QED
        BY <3>1, <3>2
    <2>2. IsFiniteSet(U) /\ p.circuitsBuilding >= Cardinality(U)
      BY DEF Agrees, BuildingBounded
    <2> HIDE DEF U
    <2>3. IsFiniteSet(U \cup {c}) /\ Cardinality(U \cup {c}) = Cardinality(U) + 1 /\ Cardinality(U) \in Nat
      BY <2>1, <2>2, FS_AddElement, FS_CardinalityType
    <2>4. QED
      BY <1>1, <1>3, <2>1, <2>2, <2>3 DEF BuildingBounded
  <1>13. Agrees(q, ev, tc, rf)
    BY <1>6, <1>7, <1>9, <1>10, <1>11, <1>12 DEF Agrees
  <1>14. QED
    BY <1>13 DEF q

\* The streams that are collected from a queue were in it.
LEMMA StreamsInElements ==
    ASSUME NEW w \in Seq(Streams \cup {Preemptive}), NEW j \in DOMAIN StreamsIn(w)
    PROVE  \E i \in DOMAIN w : w[i] >= 0 /\ w[i] = StreamsIn(w)[j]
  <1> DEFINE n == Len(w)
             From(k, u) == \A x \in DOMAIN u : \E i \in 1..k : w[i] >= 0 /\ w[i] = u[x]
  <1>1. PICK real : Collects(w, real) /\ StreamsIn(w) = real[n]
    BY StreamsInCollects
  <1>2. n \in Nat /\ DOMAIN w = 1..n
    BY LenProperties
  <1> DEFINE S == {k \in Nat : k <= n => From(k, real[k])}
  <1> HIDE DEF n
  <1>3. real \in [0..n -> Seq(Streams)] /\ real[0] = <<>>
    BY <1>1 DEF Collects, n
  <1>4. 0 \in S
    BY <1>3
  <1>5. ASSUME NEW k \in S PROVE k + 1 \in S
    <2>1. SUFFICES ASSUME k + 1 <= n PROVE From(k + 1, real[k + 1])
      BY <1>5
    <2>2. /\ k \in Nat /\ k + 1 \in 1..n /\ (k + 1) - 1 = k /\ k \in 0..n
          /\ From(k, real[k]) /\ real[k] \in Seq(Streams)
      BY <1>2, <1>3, <2>1, <1>5
    <2>3. real[k + 1] = (IF w[k + 1] >= 0 THEN Append(real[k], w[k + 1]) ELSE real[k])
      BY <1>1, <2>2 DEF Collects, n
    <2>4. From(k + 1, real[k])
      <3>1. \A i \in 1..k : i \in 1..(k + 1)
        BY <2>2
      <3>2. QED
        BY <2>2, <3>1
    <2>5. CASE w[k + 1] >= 0
      <3> DEFINE u == real[k]
                 v == Append(u, w[k + 1])
      <3>1. w[k + 1] \in Streams
        <4>1. w[k + 1] \in Streams \cup {Preemptive}
          BY <2>2, ElementOfSeq DEF n
        <4>2. QED
          BY <4>1, <2>5 DEF Preemptive
      <3>2. /\ DOMAIN v = 1..(Len(u) + 1) /\ DOMAIN u = 1..Len(u) /\ Len(u) \in Nat
            /\ \A i \in 1..Len(u) : v[i] = u[i]
            /\ v[Len(u) + 1] = w[k + 1]
        BY <2>2, <3>1, QueuePush
      <3>3. ASSUME NEW x \in DOMAIN v PROVE \E i \in 1..(k + 1) : w[i] >= 0 /\ w[i] = v[x]
        <4>1. x \in DOMAIN u \/ x = Len(u) + 1
          BY <3>2
        <4>2. CASE x \in DOMAIN u
          BY <4>2, <3>2, <2>4
        <4>3. CASE x = Len(u) + 1
          <5>1. k + 1 \in 1..(k + 1)
            BY <2>2
          <5>2. QED
            BY <5>1, <4>3, <3>2, <2>5
        <4>4. QED
          BY <4>1, <4>2, <4>3
      <3>4. QED
        BY <2>3, <2>5, <3>3
    <2>6. CASE ~(w[k + 1] >= 0)
      BY <2>3, <2>4, <2>6
    <2>7. QED
      BY <2>5, <2>6
  <1>6. S = Nat
    <2>1. S \subseteq Nat
      OBVIOUS
    <2> HIDE DEF S
    <2>2. QED
      BY <1>4, <1>5, <2>1, SetInduction
  <1>7. From(n, real[n])
    <2>1. n \in S
      BY <1>2, <1>6
    <2>2. QED
      BY <2>1, <1>2
  <1>8. QED
    BY <1>1, <1>2, <1>7

\* What AttachWaiting sends.
Attachments(p, s) ==
    LET ready == StreamsIn(p.waitingStreamIDs[s])
    IN  [i \in DOMAIN ready |-> AttachStream(ready[i], p.heap[CurrentCircuit(p, s)].id)]

LEMMA AttachmentsType ==
    ASSUME NEW p, Core(p), NEW s \in p.sessions
    PROVE  LET w == p.waitingStreamIDs[s]
               a == Attachments(p, s)
           IN  /\ w \in Seq(Streams \cup {Preemptive}) /\ StreamsIn(w) \in Seq(Streams)
               /\ a \in Seq(Command) /\ Len(a) = Len(StreamsIn(w)) /\ DOMAIN a = DOMAIN StreamsIn(w)
               /\ \A i \in DOMAIN a :
                     /\ a[i].type = "ATTACHSTREAM" /\ a[i].stream = StreamsIn(w)[i]
                     /\ a[i].id = p.heap[CurrentCircuit(p, s)].id
  <1> DEFINE w == p.waitingStreamIDs[s]
             ready == StreamsIn(w)
             id == p.heap[CurrentCircuit(p, s)].id
             a == Attachments(p, s)
  <1>1. w \in Seq(Streams \cup {Preemptive})
    BY DEF Core, PlayerState
  <1>2. ready \in Seq(Streams)
    BY <1>1, StreamsInType
  <1>3. id \in IDs
    BY CurrentCircuitOwned DEF Core, Circuit
  <1>4. a = [i \in DOMAIN ready |-> AttachStream(ready[i], id)]
    BY DEF Attachments
  <1> HIDE DEF a, ready, id
  <1>5. DOMAIN ready = 1..Len(ready) /\ Len(ready) \in Nat /\ \A i \in DOMAIN ready : ready[i] \in Streams
    BY <1>2
  <1>6. \A i \in DOMAIN ready : AttachStream(ready[i], id) \in Command
    BY <1>3, <1>5 DEF AttachStream, Command
  <1>7. a \in Seq(Command) /\ Len(a) = Len(ready)
    BY <1>4, <1>5, <1>6
  <1>8. \A i \in DOMAIN a : a[i].type = "ATTACHSTREAM" /\ a[i].stream = ready[i] /\ a[i].id = id
    BY <1>4 DEF AttachStream
  <1>9. DOMAIN a = DOMAIN ready
    BY <1>4
  <1>10. QED
    BY <1>1, <1>2, <1>7, <1>8, <1>9 DEF a, ready, id

LEMMA AttachWaitingAgrees ==
    ASSUME NEW p, Core(p), NEW s \in p.sessions, p.heap[CurrentCircuit(p, s)].status = "BUILT",
           NEW ev \in Seq(Event), NEW tc, NEW rf \in Nat, Agrees(p, ev, tc, rf)
    PROVE  Agrees(AttachWaiting(p, s), ev, tc, rf)
  <1> DEFINE q == AttachWaiting(p, s)
             c == CurrentCircuit(p, s)
             id == p.heap[c].id
             w == p.waitingStreamIDs[s]
             a == Attachments(p, s)
  <1>1. /\ s \in Sessions /\ c \in Circuits /\ p.heap[c] \in Circuit /\ p \in PlayerState
        /\ p.heap[c].session = s /\ p.commands \in Seq(Command)
    BY CurrentCircuitOwned DEF Core, PlayerState
  <1>2. /\ w \in Seq(Streams \cup {Preemptive}) /\ a \in Seq(Command) /\ DOMAIN a = DOMAIN StreamsIn(w)
        /\ \A i \in DOMAIN a :
              a[i].type = "ATTACHSTREAM" /\ a[i].stream = StreamsIn(w)[i] /\ a[i].id = id
    BY AttachmentsType
  <1>3. id \in IDs /\ id # 0 /\ p.circuits[id] = c
    BY <1>1 DEF Core, TableMatchesCircuits, Circuit
  <1>4. /\ q.heap = p.heap /\ q.circuits = p.circuits /\ q.circuitsSorted = p.circuitsSorted
        /\ q.waitingStreamIDs = [p.waitingStreamIDs EXCEPT ![s] = <<>>]
        /\ q.sessionAwaitingAssignment = p.sessionAwaitingAssignment
        /\ q.circuitsBuilding = p.circuitsBuilding
        /\ q.commands = p.commands \o a
    BY <1>1 DEF AttachWaiting, Attachments, PlayerState
  <1>5. id \in CircuitIDs /\ c # NoCircuit
    BY <1>1, <1>3, PlayerAssumption DEF IDs
  <1>6. tc[id].session = s /\ tc[id].state \in {"built", "closed"}
    BY <1>1, <1>3, <1>5 DEF Agrees, TableMatched
  <1> HIDE DEF q, a
  <1>7. KeepsTable(p, q) /\ KeepsAwaited(p, q)
    BY <1>4 DEF KeepsTable, KeepsAwaited, CurrentCircuit
  <1>8. TableMatched(q, tc) /\ ViewFollows(q, ev, tc) /\ BuiltIsNews(q, ev) /\ RepliesAwaited(q, ev, tc)
    BY <1>7, KeepsTableAgrees DEF Agrees
  <1>9. \A i \in DOMAIN a : User[a[i].stream] = s
    <2>1. \A i \in DOMAIN a : \E j \in DOMAIN w : w[j] >= 0 /\ w[j] = a[i].stream
      BY <1>2, StreamsInElements
    <2>2. \A j \in DOMAIN w : w[j] >= 0 => User[w[j]] = s
      BY <1>1 DEF Agrees, StreamsAtHome
    <2> HIDE DEF w
    <2>3. QED
      BY <2>1, <2>2
  <1> HIDE DEF id, c
  <1>10. CommandsFollow(q, tc)
    <2>1. /\ DOMAIN q.commands = 1..(Len(p.commands) + Len(a)) /\ DOMAIN p.commands = 1..Len(p.commands)
          /\ DOMAIN a = 1..Len(a) /\ Len(p.commands) \in Nat /\ Len(a) \in Nat
          /\ \A i \in 1..(Len(p.commands) + Len(a)) :
                q.commands[i] = IF i <= Len(p.commands) THEN p.commands[i] ELSE a[i - Len(p.commands)]
      BY <1>1, <1>2, <1>4, ConcatProperties, LenProperties
    <2>2. ASSUME NEW i \in DOMAIN q.commands
          PROVE  \/ i \in DOMAIN p.commands /\ q.commands[i] = p.commands[i]
                 \/ \E j \in DOMAIN a : q.commands[i] = a[j]
      <3> DEFINE n == Len(p.commands)
      <3> HIDE DEF n
      <3>1. i \in 1..n \/ (i \in 1..(n + Len(a)) /\ ~(i <= n) /\ i - n \in 1..Len(a))
        BY <2>1 DEF n
      <3>2. QED
        BY <3>1, <2>1 DEF n
    <2>3. \A i \in DOMAIN p.commands : p.commands[i] \in Command
      BY <1>1, ElementOfSeq, LenProperties
    <2>4. ASSUME NEW i \in DOMAIN q.commands, q.commands[i].type = "EXTENDCIRCUIT"
          PROVE  /\ q.commands[i].session = q.sessionAwaitingAssignment
                 /\ q.commands[i].circuit = CurrentCircuit(q, q.sessionAwaitingAssignment)
      <3>1. i \in DOMAIN p.commands /\ q.commands[i] = p.commands[i]
        BY <2>2, <2>4, <1>2
      <3>2. QED
        BY <3>1, <2>4, <1>4 DEF Agrees, CommandsFollow, CurrentCircuit
    <2>5. ASSUME NEW i \in DOMAIN q.commands, q.commands[i].type = "ATTACHSTREAM", q.commands[i].id # 0
          PROVE  /\ tc[q.commands[i].id].state \in {"built", "closed"}
                 /\ tc[q.commands[i].id].session = User[q.commands[i].stream]
      <3>1. CASE i \in DOMAIN p.commands /\ q.commands[i] = p.commands[i]
        BY <3>1, <2>5 DEF Agrees, CommandsFollow
      <3>2. CASE \E j \in DOMAIN a : q.commands[i] = a[j]
        BY <3>2, <1>2, <1>6, <1>9
      <3>3. QED
        BY <3>1, <3>2, <2>2
    <2>6. QED
      BY <2>4, <2>5 DEF CommandsFollow
  <1>11. StreamsAtHome(q)
    <2>1. \A r \in Sessions : q.waitingStreamIDs[r] = IF r = s THEN <<>> ELSE p.waitingStreamIDs[r]
      BY <1>1, <1>4 DEF PlayerState
    <2>2. QED
      BY <2>1 DEF Agrees, StreamsAtHome
  <1>12. OneInFlight(q, ev, rf)
    <2>1. CountIn(a, Extends) = 0
      <3>1. \A i \in DOMAIN a : a[i] \notin Extends
        BY <1>2 DEF Extends
      <3>2. QED
        BY <3>1, CountNone
    <2>2. CountIn(q.commands, Extends) = CountIn(p.commands, Extends) + CountIn(a, Extends)
      BY <1>1, <1>2, <1>4, CountConcat
    <2>3. CountIn(p.commands, Extends) \in Nat
      BY <1>1, CountType
    <2>4. CountIn(q.commands, Extends) = CountIn(p.commands, Extends)
      BY <2>1, <2>2, <2>3
    <2>5. QED
      BY <2>4, <1>4 DEF Agrees, OneInFlight
  <1>13. BuildingBounded(q)
    BY <1>4 DEF Agrees, BuildingBounded, Unbuilt
  <1>14. Agrees(q, ev, tc, rf)
    BY <1>8, <1>10, <1>11, <1>12, <1>13 DEF Agrees
  <1>15. QED
    BY <1>14 DEF q

\* What is done for a session, once its queue has rotated.
LEMMA HandleSessionCases ==
    ASSUME NEW p, Core(p), NEW s \in p.sessions, NEW t \in Nat, p.sessionAwaitingAssignment # s
    PROVE  LET cur == GetCurrentCircuit(p, t, s)
               status == cur.heap[CurrentCircuit(cur, s)].status
               q == HandleSession(p, t, s)
           IN  /\ cur = p \/ (cur = Rotate(p, s) /\ Len(p.circuitsSorted[s]) > 1)
               /\ Core(cur) /\ s \in cur.sessions
               /\ \/ q = cur
                  \/ q = EnterBacklog(cur, s)
                  \/ q = LaunchCircuit(cur, s) /\ status = "NONE" /\ cur.sessionAwaitingAssignment = NoSession
                  \/ q = AttachWaiting(cur, s) /\ status = "BUILT"
  <1> DEFINE cur == GetCurrentCircuit(p, t, s)
  <1>1. cur = p \/ (cur = Rotate(p, s) /\ Len(p.circuitsSorted[s]) > 1)
    BY DEF GetCurrentCircuit, RotationDue
  <1>2. Core(cur) /\ s \in cur.sessions
    <2> HIDE DEF cur
    <2>1. QED
      BY <1>1, RotateCore
  <1>3. QED
    BY <1>1, <1>2 DEF HandleSession, HandleUnlaunched

LEMMA HandleSessionAgrees ==
    ASSUME NEW p, Core(p), NEW s \in p.sessions, NEW t \in Nat, p.sessionAwaitingAssignment # s,
           NEW ev \in Seq(Event), NEW tc, NEW rf \in Nat, Agrees(p, ev, tc, rf)
    PROVE  Agrees(HandleSession(p, t, s), ev, tc, rf)
  <1> DEFINE cur == GetCurrentCircuit(p, t, s)
             status == cur.heap[CurrentCircuit(cur, s)].status
             q == HandleSession(p, t, s)
  <1>1. /\ cur = p \/ (cur = Rotate(p, s) /\ Len(p.circuitsSorted[s]) > 1)
        /\ Core(cur) /\ s \in cur.sessions
        /\ \/ q = cur
           \/ q = EnterBacklog(cur, s)
           \/ q = LaunchCircuit(cur, s) /\ status = "NONE" /\ cur.sessionAwaitingAssignment = NoSession
           \/ q = AttachWaiting(cur, s) /\ status = "BUILT"
    BY HandleSessionCases
  <1> HIDE DEF cur, q
  <1>2. Agrees(cur, ev, tc, rf)
    BY <1>1, RotateAgrees
  <1>3. Agrees(EnterBacklog(cur, s), ev, tc, rf)
    <2>1. EnterBacklog(cur, s) = [cur EXCEPT !.sessionAssignmentBacklog = Append(cur.sessionAssignmentBacklog, s)]
      BY DEF EnterBacklog
    <2>2. cur \in PlayerState
      BY <1>1 DEF Core
    <2> DEFINE b == Append(cur.sessionAssignmentBacklog, s)
    <2> HIDE DEF b
    <2>3. Agrees([cur EXCEPT !.sessionAssignmentBacklog = b], ev, tc, rf)
      BY <1>2, <2>2, EnterBacklogAgrees
    <2>4. QED
      BY <2>1, <2>3 DEF b
  <1>4. Agrees(q, ev, tc, rf)
    BY <1>1, <1>2, <1>3, LaunchCircuitAgrees, AttachWaitingAgrees
  <1>5. QED
    BY <1>4 DEF q

LEMMA HandleSessionBacklogAgrees ==
    ASSUME NEW p, LoopInv(p), NEW t \in Nat,
           NEW ev \in Seq(Event), NEW tc, NEW rf \in Nat, Agrees(p, ev, tc, rf)
    PROVE  Agrees(HandleSessionBacklog(p, t), ev, tc, rf)
  <1> DEFINE V == {q \in PlayerState : LoopInv(q) /\ Agrees(q, ev, tc, rf)}
  <1>1. p \in V
    BY DEF LoopInv, Core
  <1>2. ASSUME NEW p1 \in V PROVE HandleNextSession(p1, t) \in V
    <2> DEFINE q == [p1 EXCEPT !.sessionAssignmentBacklog = Tail(p1.sessionAssignmentBacklog)]
               s == Head(p1.sessionAssignmentBacklog)
    <2>0. LoopInv(p1) /\ Agrees(p1, ev, tc, rf) /\ p1 \in PlayerState
      OBVIOUS
    <2> HIDE DEF V
    <2>1. LoopInv(HandleNextSession(p1, t)) /\ HandleNextSession(p1, t) \in PlayerState
      BY <2>0, HandleNextSessionInv DEF LoopInv, Core
    <2>2. CASE p1.sessionAwaitingAssignment = NoSession /\ p1.sessionAssignmentBacklog # <<>>
      <3>1. Core(q) /\ s \in q.sessions /\ q.sessionAwaitingAssignment = NoSession
        BY <2>0, <2>2, PopBacklog
      <3>2. HandleNextSession(p1, t) = HandleSession(q, t, s)
        BY <2>2 DEF HandleNextSession
      <3>3. NoSession # s
        BY <3>1, PlayerAssumption DEF Core, PlayerState
      <3>4. Agrees(q, ev, tc, rf)
        BY <2>0, EnterBacklogAgrees
      <3> HIDE DEF q, s
      <3>5. Agrees(HandleSession(q, t, s), ev, tc, rf)
        BY <3>1, <3>3, <3>4, HandleSessionAgrees
      <3>6. QED
        BY <2>1, <3>2, <3>5 DEF V
    <2>3. CASE ~(p1.sessionAwaitingAssignment = NoSession /\ p1.sessionAssignmentBacklog # <<>>)
      <3>1. HandleNextSession(p1, t) = p1
        BY <2>3 DEF HandleNextSession
      <3>2. QED
        BY <3>1
    <2>4. QED
      BY <2>2, <2>3
  <1> HIDE DEF V
  <1>3. HandleSessionBacklog(p, t) \in V
    BY <1>1, <1>2, BacklogLoop
  <1>4. QED
    BY <1>3 DEF V

-----------------------------------------------------------------------------
(* What the events bring                                                   *)

\* The agreement outlives an event that is neither a reply nor about a circuit
\* of the table.
LEMMA TailAgrees ==
    ASSUME NEW p, NEW ev \in Seq(Event), ev # <<>>, NEW tc, NEW rf, Agrees(p, ev, tc, rf),
           Head(ev).type # "EXTENDED",
           Head(ev).type # "NEW" => p.circuits[Head(ev).id] = NoCircuit
    PROVE  Agrees(p, Tail(ev), tc, rf)
  <1> DEFINE ev2 == Tail(ev)
  <1>1. /\ ev2 \in Seq(Event) /\ ev[1] = Head(ev)
        /\ \A i \in DOMAIN ev2 : i + 1 \in DOMAIN ev /\ ev2[i] = ev[i + 1]
        /\ \A i \in DOMAIN ev : i # 1 => i - 1 \in DOMAIN ev2 /\ ev2[i - 1] = ev[i]
    BY TailIndex
  <1> HIDE DEF ev2
  <1>2. ViewFollows(p, ev2, tc)
    <2>1. ASSUME NEW id \in CircuitIDs, p.circuits[id] # NoCircuit, NEW i \in DOMAIN ev, Corrects(ev, i, id)
          PROVE  i - 1 \in DOMAIN ev2 /\ Corrects(ev2, i - 1, id)
      <3>1. i # 1
        BY <1>1, <2>1 DEF Corrects
      <3>2. QED
        BY <1>1, <2>1, <3>1 DEF Corrects
    <2>2. QED
      BY <2>1 DEF Agrees, ViewFollows
  <1>3. BuiltIsNews(p, ev2) /\ RepliesAwaited(p, ev2, tc)
    <2> DEFINE B(e) == e.type = "BUILT" /\ p.circuits[e.id] # NoCircuit =>
                          p.heap[p.circuits[e.id]].status = "ASSIGNED"
               R(e) == e.type = "EXTENDED" =>
                          /\ p.sessionAwaitingAssignment # NoSession
                          /\ p.circuits[e.id] = NoCircuit
                          /\ tc[e.id].session = p.sessionAwaitingAssignment
                          /\ tc[e.id].circuit = CurrentCircuit(p, p.sessionAwaitingAssignment)
    <2>1. \A i \in DOMAIN ev : B(ev[i])
      BY DEF Agrees, BuiltIsNews
    <2>2. \A i \in DOMAIN ev : R(ev[i])
      BY DEF Agrees, RepliesAwaited
    <2> HIDE DEF B, R
    <2>3. \A i \in DOMAIN ev2 : B(ev2[i]) /\ R(ev2[i])
      BY <1>1, <2>1, <2>2
    <2>4. QED
      BY <2>3 DEF B, R, BuiltIsNews, RepliesAwaited
  <1>4. OneInFlight(p, ev2, rf)
    <2>1. Head(ev) \notin Replies
      BY DEF Replies
    <2>2. CountIn(ev, Replies) = CountIn(ev2, Replies) + 0 /\ CountIn(ev2, Replies) \in Nat
      BY <1>1, <2>1, CountTail, CountType DEF ev2
    <2>3. CountIn(ev, Replies) = CountIn(ev2, Replies)
      BY <2>2
    <2>4. QED
      BY <2>3 DEF Agrees, OneInFlight
  <1>5. QED
    BY <1>2, <1>3, <1>4 DEF Agrees, ev2

LEMMA EventsTail ==
    ASSUME NEW ev \in Seq(Event), ev # <<>>, NEW tc, EventsFollow(ev, tc)
    PROVE  EventsFollow(Tail(ev), tc)
  <1> DEFINE ev2 == Tail(ev)
  <1>1. /\ \A i \in DOMAIN ev2 : i + 1 \in DOMAIN ev /\ ev2[i] = ev[i + 1]
        /\ \A i \in DOMAIN ev : i # 1 => i - 1 \in DOMAIN ev2 /\ ev2[i - 1] = ev[i]
        /\ DOMAIN ev2 = 1..(Len(ev) - 1) /\ DOMAIN ev = 1..Len(ev) /\ Len(ev) \in Nat
    BY TailIndex
  <1> HIDE DEF ev2
  <1>2. ASSUME NEW i \in DOMAIN ev2, NEW j \in DOMAIN ev, NEW id, i + 1 < j, Corrects(ev, j, id)
        PROVE  \E k \in DOMAIN ev2 : i < k /\ Corrects(ev2, k, id)
    <2>1. j # 1 /\ i < j - 1
      BY <1>1, <1>2
    <2>2. j - 1 \in DOMAIN ev2 /\ ev2[j - 1] = ev[j]
      BY <1>1, <2>1
    <2>3. QED
      BY <1>2, <2>1, <2>2 DEF Corrects
  <1>3. ASSUME NEW i \in DOMAIN ev2
        PROVE  /\ ev2[i].type = "EXTENDED" =>
                     \/ tc[ev2[i].id].state = "building"
                     \/ tc[ev2[i].id].state # "unused"
                          /\ \E j \in DOMAIN ev2 : i < j /\ Corrects(ev2, j, ev2[i].id)
               /\ ev2[i].type = "BUILT" =>
                     \/ tc[ev2[i].id].state = "built"
                     \/ tc[ev2[i].id].state = "closed"
                          /\ \E j \in DOMAIN ev2 : i < j /\ Corrects(ev2, j, ev2[i].id)
               /\ ev2[i].type \in {"FAILED", "CLOSED"} => tc[ev2[i].id].state = "closed"
    <2> DEFINE e == ev2[i]
    <2>1. i + 1 \in DOMAIN ev /\ ev[i + 1] = e
      BY <1>1
    <2>2. (\E j \in DOMAIN ev : i + 1 < j /\ Corrects(ev, j, e.id))
             => \E k \in DOMAIN ev2 : i < k /\ Corrects(ev2, k, e.id)
      BY <1>2
    <2> HIDE DEF e
    <2>3. /\ e.type = "EXTENDED" =>
                \/ tc[e.id].state = "building"
                \/ tc[e.id].state # "unused" /\ \E j \in DOMAIN ev : i + 1 < j /\ Corrects(ev, j, e.id)
          /\ e.type = "BUILT" =>
                \/ tc[e.id].state = "built"
                \/ tc[e.id].state = "closed" /\ \E j \in DOMAIN ev : i + 1 < j /\ Corrects(ev, j, e.id)
          /\ e.type \in {"FAILED", "CLOSED"} => tc[e.id].state = "closed"
      BY <2>1 DEF EventsFollow
    <2>4. QED
      BY <2>2, <2>3 DEF e
  <1>4. ASSUME NEW i \in DOMAIN ev2, NEW j \in DOMAIN ev2,
               ev2[i].type = "BUILT" /\ ev2[j].type = "BUILT" /\ ev2[i].id = ev2[j].id
        PROVE  i = j
    <2>1. i + 1 = j + 1
      BY <1>1, <1>4 DEF EventsFollow
    <2>2. QED
      BY <1>1, <2>1
  <1>5. EventsFollow(ev2, tc)
    BY <1>3, <1>4 DEF EventsFollow
  <1>6. QED
    BY <1>5 DEF ev2

LEMMA ResetAgrees ==
    ASSUME NEW p, LoopInv(p), NEW id \in CircuitIDs, NEW failed \in BOOLEAN, p.circuits[id] # NoCircuit,
           NEW ev \in Seq(Event), NEW tc, NEW rf, Agrees(p, ev, tc, rf)
    PROVE  Agrees(Reset(p, id, failed), ev, tc, rf) /\ Reset(p, id, failed).circuits[id] = NoCircuit
  <1> DEFINE c == p.circuits[id]
             q == Reset(p, id, failed)
  <1>1. /\ p \in PlayerState /\ c \in Circuits /\ p.heap[c] \in Circuit /\ id \in IDs /\ p.heap[c].id = id
        /\ Core(p) /\ p.commands \in Seq(Command) /\ p.circuitsBuilding \in Int
    <2>1. id \in IDs /\ Core(p) /\ p \in PlayerState
      BY DEF IDs, LoopInv, Core
    <2>2. p.commands \in Seq(Command) /\ p.circuitsBuilding \in Int
      BY <2>1 DEF PlayerState
    <2>3. QED
      BY <2>1, <2>2, TableCircuit
  <1>2. /\ q.circuits = [p.circuits EXCEPT ![id] = NoCircuit]
        /\ q.circuitsSorted = p.circuitsSorted
        /\ q.waitingStreamIDs = p.waitingStreamIDs
        /\ q.sessionAwaitingAssignment = p.sessionAwaitingAssignment
        /\ q.circuitsBuilding = p.circuitsBuilding
        /\ q.commands = p.commands
        /\ \A d \in Circuits : d # c => q.heap[d] = p.heap[d]
        /\ q.heap[c].status = "NONE"
    BY <1>1 DEF Reset, PlayerState, Circuit
  <1>3. \A i \in IDs : q.circuits[i] = IF i = id THEN NoCircuit ELSE p.circuits[i]
    BY <1>1, <1>2 DEF PlayerState
  <1> HIDE DEF q
  <1>4. KeepsTable(p, q)
    <2>1. SUFFICES ASSUME NEW i \in CircuitIDs, q.circuits[i] # NoCircuit
                   PROVE  q.circuits[i] = p.circuits[i] /\ q.heap[p.circuits[i]] = p.heap[p.circuits[i]]
      BY DEF KeepsTable
    <2>2. i \in IDs /\ i # id /\ q.circuits[i] = p.circuits[i] /\ p.circuits[i] \in Circuits
      BY <2>1, <1>1, <1>3 DEF IDs, PlayerState
    <2>3. p.heap[p.circuits[i]].id = i
      BY <2>1, <2>2, <1>1 DEF Core, TableMatchesCircuits
    <2>4. p.circuits[i] # c
      BY <2>2, <2>3, <1>1
    <2>5. QED
      BY <2>2, <2>4, <1>2
  <1>5. KeepsAwaited(p, q)
    BY <1>2 DEF KeepsAwaited, CurrentCircuit
  <1>6. TableMatched(q, tc) /\ ViewFollows(q, ev, tc) /\ BuiltIsNews(q, ev) /\ RepliesAwaited(q, ev, tc)
    BY <1>4, <1>5, KeepsTableAgrees DEF Agrees
  <1>7. CommandsFollow(q, tc)
    BY <1>1, <1>2, <1>5, KeepsCommandsFollow DEF Agrees
  <1>8. StreamsAtHome(q) /\ OneInFlight(q, ev, rf)
    BY <1>2 DEF Agrees, StreamsAtHome, OneInFlight
  <1>9. BuildingBounded(q)
    <2> DEFINE U == Unbuilt(p)
    <2>1. Unbuilt(q) \subseteq U
      <3> HIDE DEF c
      <3>1. QED
        BY <1>1, <1>2 DEF Unbuilt
    <2>2. IsFiniteSet(U) /\ p.circuitsBuilding >= Cardinality(U)
      BY DEF Agrees, BuildingBounded
    <2> HIDE DEF U
    <2>3. /\ IsFiniteSet(Unbuilt(q)) /\ Cardinality(Unbuilt(q)) <= Cardinality(U)
          /\ Cardinality(Unbuilt(q)) \in Nat /\ Cardinality(U) \in Nat
      BY <2>1, <2>2, FS_Subset, FS_CardinalityType
    <2>4. QED
      BY <1>1, <1>2, <2>2, <2>3 DEF BuildingBounded
  <1>10. Agrees(q, ev, tc, rf)
    BY <1>6, <1>7, <1>8, <1>9 DEF Agrees
  <1>11. q.circuits[id] = NoCircuit
    BY <1>1, <1>3
  <1>12. QED
    BY <1>10, <1>11 DEF q

\* Events other than the head come one place sooner.
LEMMA CorrectsLater ==
    ASSUME NEW ev \in Seq(Event), ev # <<>>, NEW id, NEW j \in DOMAIN ev, j # 1, Corrects(ev, j, id)
    PROVE  \E i \in DOMAIN Tail(ev) : Corrects(Tail(ev), i, id)
  <1>1. j - 1 \in DOMAIN Tail(ev) /\ Tail(ev)[j - 1] = ev[j]
    BY TailIndex
  <1>2. QED
    BY <1>1 DEF Corrects

LEMMA MarkBuiltAgrees ==
    ASSUME NEW p, LoopInv(p), NEW ev \in Seq(Event), ev # <<>>, NEW tc, NEW rf \in Nat,
           NEW id \in CircuitIDs, Head(ev) = CircuitEvent("BUILT", id), p.circuits[id] # NoCircuit,
           Agrees(p, ev, tc, rf), EventsFollow(ev, tc)
    PROVE  Agrees(MarkBuilt(p, id), Tail(ev), tc, rf)
  <1> DEFINE c == p.circuits[id]
             q == MarkBuilt(p, id)
             ev2 == Tail(ev)
  <1>1. /\ p \in PlayerState /\ c \in Circuits /\ p.heap[c] \in Circuit /\ id \in IDs /\ p.heap[c].id = id
        /\ Core(p) /\ p.commands \in Seq(Command) /\ p.circuitsBuilding \in Int
    <2>1. id \in IDs /\ Core(p) /\ p \in PlayerState
      BY DEF IDs, LoopInv, Core
    <2>2. p.commands \in Seq(Command) /\ p.circuitsBuilding \in Int
      BY <2>1 DEF PlayerState
    <2>3. QED
      BY <2>1, <2>2, TableCircuit
  <1>2. /\ q.circuits = p.circuits
        /\ q.circuitsSorted = p.circuitsSorted
        /\ q.waitingStreamIDs = p.waitingStreamIDs
        /\ q.sessionAwaitingAssignment = p.sessionAwaitingAssignment
        /\ q.circuitsBuilding = p.circuitsBuilding - 1
        /\ q.commands = p.commands
        /\ \A d \in Circuits : d # c => q.heap[d] = p.heap[d]
        /\ q.heap[c].status = "BUILT" /\ q.heap[c].session = p.heap[c].session
    BY <1>1 DEF MarkBuilt, PlayerState, Circuit
  <1>3. /\ ev2 \in Seq(Event) /\ ev[1].type = "BUILT" /\ ev[1].id = id /\ 1 \in DOMAIN ev
        /\ Len(ev) \in Nat /\ DOMAIN ev2 = 1..(Len(ev) - 1)
        /\ \A i \in DOMAIN ev2 : i + 1 \in DOMAIN ev /\ ev2[i] = ev[i + 1]
    BY TailIndex DEF CircuitEvent
  <1>4. p.heap[c].status = "ASSIGNED"
    BY <1>3 DEF Agrees, BuiltIsNews
  <1>5. \/ tc[id].state = "built"
        \/ tc[id].state = "closed" /\ \E j \in DOMAIN ev : 1 < j /\ Corrects(ev, j, id)
    BY <1>3 DEF EventsFollow
  <1> HIDE DEF q, ev2
  <1>6. ASSUME NEW i \in CircuitIDs, i # id, p.circuits[i] # NoCircuit
        PROVE  p.circuits[i] # c /\ q.heap[p.circuits[i]] = p.heap[p.circuits[i]]
    <2>1. i \in IDs /\ p.circuits[i] \in Circuits
      BY <1>6, <1>1 DEF IDs, PlayerState
    <2>2. p.heap[p.circuits[i]].id = i
      BY <1>6, <2>1, <1>1 DEF Core, TableMatchesCircuits
    <2>3. p.circuits[i] # c
      BY <1>6, <2>2, <1>1
    <2>4. QED
      BY <2>1, <2>3, <1>2
  <1>7. TableMatched(q, tc)
    <2>1. SUFFICES ASSUME NEW i \in CircuitIDs, q.circuits[i] # NoCircuit
                   PROVE  /\ tc[i].circuit = q.circuits[i]
                          /\ tc[i].session = q.heap[q.circuits[i]].session
                          /\ tc[i].state # "unused"
                          /\ q.heap[q.circuits[i]].status = "BUILT" => tc[i].state \in {"built", "closed"}
      BY DEF TableMatched
    <2>2. /\ tc[i].circuit = p.circuits[i]
          /\ tc[i].session = p.heap[p.circuits[i]].session
          /\ tc[i].state # "unused"
          /\ p.heap[p.circuits[i]].status = "BUILT" => tc[i].state \in {"built", "closed"}
      BY <2>1, <1>2 DEF Agrees, TableMatched
    <2>3. CASE i = id
      BY <2>2, <2>3, <1>2, <1>5
    <2>4. CASE i # id
      BY <2>1, <2>2, <2>4, <1>2, <1>6
    <2>5. QED
      BY <2>3, <2>4
  <1>8. ViewFollows(q, ev2, tc)
    <2>1. SUFFICES ASSUME NEW i \in CircuitIDs, q.circuits[i] # NoCircuit
                   PROVE  \/ \E k \in DOMAIN ev2 : Corrects(ev2, k, i)
                          \/ tc[i].state = "building" /\ q.heap[q.circuits[i]].status = "ASSIGNED"
                          \/ tc[i].state = "built" /\ q.heap[q.circuits[i]].status = "BUILT"
      BY DEF ViewFollows
    <2>2. CASE i = id
      <3>1. CASE tc[id].state = "built"
        BY <2>2, <3>1, <1>2
      <3>2. CASE \E j \in DOMAIN ev : 1 < j /\ Corrects(ev, j, id)
        BY <2>2, <3>2, CorrectsLater DEF ev2
      <3>3. QED
        BY <3>1, <3>2, <1>5
    <2>3. CASE i # id
      <3>1. \/ \E k \in DOMAIN ev : Corrects(ev, k, i)
            \/ tc[i].state = "building" /\ p.heap[p.circuits[i]].status = "ASSIGNED"
            \/ tc[i].state = "built" /\ p.heap[p.circuits[i]].status = "BUILT"
        BY <2>1, <1>2 DEF Agrees, ViewFollows
      <3>2. \A k \in DOMAIN ev : Corrects(ev, k, i) => k # 1
        BY <2>3, <1>3 DEF Corrects
      <3>3. CASE \E k \in DOMAIN ev : Corrects(ev, k, i)
        BY <3>2, <3>3, CorrectsLater DEF ev2
      <3>4. QED
        BY <3>1, <3>3, <2>1, <2>3, <1>2, <1>6
    <2>4. QED
      BY <2>2, <2>3
  <1>9. BuiltIsNews(q, ev2)
    <2>1. SUFFICES ASSUME NEW k \in DOMAIN ev2, ev2[k].type = "BUILT", q.circuits[ev2[k].id] # NoCircuit
                   PROVE  q.heap[q.circuits[ev2[k].id]].status = "ASSIGNED"
      BY DEF BuiltIsNews
    <2>2. k + 1 \in DOMAIN ev /\ ev[k + 1] = ev2[k] /\ k + 1 # 1
      BY <1>3
    <2>3. ev2[k].id # id
      BY <2>1, <2>2, <1>3 DEF EventsFollow
    <2>4. ev2[k].id \in CircuitIDs
      BY <2>1, <1>3, ElementOfSeq, EventFields
    <2>5. p.heap[p.circuits[ev2[k].id]].status = "ASSIGNED"
      BY <2>1, <2>2, <1>2 DEF Agrees, BuiltIsNews
    <2>6. QED
      BY <2>1, <2>3, <2>4, <2>5, <1>2, <1>6
  <1>10. KeepsAwaited(p, q)
    BY <1>2 DEF KeepsAwaited, CurrentCircuit
  <1>11. RepliesAwaited(q, ev2, tc)
    <2>1. SUFFICES ASSUME NEW k \in DOMAIN ev2, ev2[k].type = "EXTENDED"
                   PROVE  /\ q.sessionAwaitingAssignment # NoSession
                          /\ q.circuits[ev2[k].id] = NoCircuit
                          /\ tc[ev2[k].id].session = q.sessionAwaitingAssignment
                          /\ tc[ev2[k].id].circuit = CurrentCircuit(q, q.sessionAwaitingAssignment)
      BY DEF RepliesAwaited
    <2>2. k + 1 \in DOMAIN ev /\ ev[k + 1] = ev2[k]
      BY <1>3
    <2> DEFINE e == ev2[k]
    <2>3. ev[k + 1] = e /\ e.type = "EXTENDED"
      BY <2>1, <2>2
    <2> HIDE DEF e
    <2>4. /\ p.sessionAwaitingAssignment # NoSession
          /\ p.circuits[e.id] = NoCircuit
          /\ tc[e.id].session = p.sessionAwaitingAssignment
          /\ tc[e.id].circuit = CurrentCircuit(p, p.sessionAwaitingAssignment)
      BY <2>2, <2>3 DEF Agrees, RepliesAwaited
    <2>5. QED
      BY <2>4, <1>2, <1>10 DEF KeepsAwaited, e
  <1>12. CommandsFollow(q, tc)
    BY <1>1, <1>2, <1>10, KeepsCommandsFollow DEF Agrees
  <1>13. StreamsAtHome(q)
    BY <1>2 DEF Agrees, StreamsAtHome
  <1>14. OneInFlight(q, ev2, rf)
    <2>1. Head(ev) \notin Replies
      BY DEF Replies, CircuitEvent
    <2>2. CountIn(ev, Replies) = CountIn(ev2, Replies) + 0 /\ CountIn(ev2, Replies) \in Nat
      BY <1>3, <2>1, CountTail, CountType DEF ev2
    <2>3. CountIn(ev, Replies) = CountIn(ev2, Replies)
      BY <2>2
    <2>4. QED
      BY <2>3, <1>2 DEF Agrees, OneInFlight
  <1>15. BuildingBounded(q)
    <2> DEFINE U == Unbuilt(p)
    <2>1. c \in U
      BY <1>1, <1>4 DEF Unbuilt
    <2>2. Unbuilt(q) = U \ {c}
      <3> DEFINE d == c
      <3>1. d \in Circuits /\ q.heap[d].status = "BUILT" /\ \A x \in Circuits : x # d => q.heap[x] = p.heap[x]
        BY <1>1, <1>2
      <3> HIDE DEF d
      <3>2. Unbuilt(q) = Unbuilt(p) \ {d}
        BY <3>1 DEF Unbuilt
      <3>3. QED
        BY <3>2 DEF d
    <2>3. IsFiniteSet(U) /\ p.circuitsBuilding >= Cardinality(U)
      BY DEF Agrees, BuildingBounded
    <2> HIDE DEF U, c
    <2>4. IsFiniteSet(U \ {c}) /\ Cardinality(U \ {c}) = Cardinality(U) - 1 /\ Cardinality(U) \in Nat
      BY <2>1, <2>3, FS_RemoveElement, FS_CardinalityType
    <2>5. QED
      BY <1>1, <1>2, <2>2, <2>3, <2>4 DEF BuildingBounded
  <1>16. Agrees(q, ev2, tc, rf)
    BY <1>7, <1>8, <1>9, <1>11, <1>12, <1>13, <1>14, <1>15 DEF Agrees
  <1>17. QED
    BY <1>16 DEF q, ev2

LEMMA AssignAgrees ==
    ASSUME NEW p, LoopInv(p), NEW ev \in Seq(Event), ev # <<>>, NEW tc, NEW rf \in Nat,
           NEW id \in CircuitIDs, Head(ev) = CircuitEvent("EXTENDED", id),
           Agrees(p, ev, tc, rf), EventsFollow(ev, tc)
    PROVE  /\ p.sessionAwaitingAssignment # NoSession /\ p.circuits[id] = NoCircuit
           /\ Agrees(Assign(p, id), Tail(ev), tc, rf)
  <1> DEFINE s == p.sessionAwaitingAssignment
             c == CurrentCircuit(p, s)
             q == Assign(p, id)
             ev2 == Tail(ev)
  <1>1. /\ ev2 \in Seq(Event) /\ ev[1].type = "EXTENDED" /\ ev[1].id = id /\ 1 \in DOMAIN ev
        /\ Len(ev) \in Nat /\ DOMAIN ev2 = 1..(Len(ev) - 1)
        /\ \A i \in DOMAIN ev2 : i + 1 \in DOMAIN ev /\ ev2[i] = ev[i + 1]
    BY TailIndex DEF CircuitEvent
  <1>2. s # NoSession /\ p.circuits[id] = NoCircuit /\ tc[id].session = s /\ tc[id].circuit = c
    BY <1>1 DEF Agrees, RepliesAwaited
  <1>3. /\ p \in PlayerState /\ Core(p) /\ s \in p.sessions /\ c \in Circuits /\ p.heap[c] \in Circuit
        /\ p.heap[c].session = s /\ p.heap[c].status = "LAUNCHED" /\ id \in IDs
        /\ p.commands \in Seq(Command) /\ p.circuitsBuilding \in Int
    <2>1. Core(p) /\ p \in PlayerState /\ QueuesOwnCircuits(p) /\ id \in IDs
      BY DEF LoopInv, Core, IDs
    <2>2. s \in p.sessions /\ p.heap[c].status = "LAUNCHED"
      <3>1. s \in Sessions
        BY <2>1, <1>2 DEF PlayerState
      <3>2. QED
        BY <2>1, <3>1, <1>2 DEF Core, AwaitingIsLaunched
    <2>3. QED
      BY <2>1, <2>2, CurrentCircuitOwned DEF PlayerState
  <1>4. /\ \A i \in IDs : q.circuits[i] = IF i = id THEN c ELSE p.circuits[i]
        /\ q.circuitsSorted = p.circuitsSorted
        /\ q.waitingStreamIDs = p.waitingStreamIDs
        /\ q.sessionAwaitingAssignment = NoSession
        /\ q.circuitsBuilding = p.circuitsBuilding
        /\ q.commands = p.commands
        /\ \A d \in Circuits : d # c => q.heap[d] = p.heap[d]
        /\ q.heap[c].status = "ASSIGNED" /\ q.heap[c].session = p.heap[c].session
    BY <1>3 DEF Assign, PlayerState, Circuit
  <1>5. /\ tc[id].state # "unused"
        /\ tc[id].state = "building" \/ \E j \in DOMAIN ev : 1 < j /\ Corrects(ev, j, id)
    BY <1>1 DEF EventsFollow
  <1> HIDE DEF q, ev2, c, s
  <1>6. ASSUME NEW i \in CircuitIDs, i # id, q.circuits[i] # NoCircuit
        PROVE  q.circuits[i] = p.circuits[i] /\ q.heap[p.circuits[i]] = p.heap[p.circuits[i]]
    <2>1. i \in IDs
      BY DEF IDs
    <2>2. q.circuits[i] = p.circuits[i] /\ p.circuits[i] \in Circuits
      BY <1>6, <2>1, <1>3, <1>4 DEF PlayerState
    <2>3. p.heap[p.circuits[i]].status \in {"ASSIGNED", "BUILT"}
      BY <1>6, <2>1, <2>2, <1>3 DEF Core, TableMatchesCircuits
    <2>4. QED
      BY <2>2, <2>3, <1>3, <1>4
  <1>7. q.circuits[id] = c /\ c # NoCircuit
    BY <1>3, <1>4, PlayerAssumption
  <1>8. TableMatched(q, tc)
    <2>1. SUFFICES ASSUME NEW i \in CircuitIDs, q.circuits[i] # NoCircuit
                   PROVE  /\ tc[i].circuit = q.circuits[i]
                          /\ tc[i].session = q.heap[q.circuits[i]].session
                          /\ tc[i].state # "unused"
                          /\ q.heap[q.circuits[i]].status = "BUILT" => tc[i].state \in {"built", "closed"}
      BY DEF TableMatched
    <2>2. CASE i = id
      BY <2>2, <1>2, <1>3, <1>4, <1>5, <1>7
    <2>3. CASE i # id
      BY <2>1, <2>3, <1>6 DEF Agrees, TableMatched
    <2>4. QED
      BY <2>2, <2>3
  <1>9. ViewFollows(q, ev2, tc)
    <2>1. SUFFICES ASSUME NEW i \in CircuitIDs, q.circuits[i] # NoCircuit
                   PROVE  \/ \E k \in DOMAIN ev2 : Corrects(ev2, k, i)
                          \/ tc[i].state = "building" /\ q.heap[q.circuits[i]].status = "ASSIGNED"
                          \/ tc[i].state = "built" /\ q.heap[q.circuits[i]].status = "BUILT"
      BY DEF ViewFollows
    <2>2. CASE i = id
      <3>1. CASE tc[id].state = "building"
        BY <2>2, <3>1, <1>4, <1>7
      <3>2. CASE \E j \in DOMAIN ev : 1 < j /\ Corrects(ev, j, id)
        BY <2>2, <3>2, CorrectsLater DEF ev2
      <3>3. QED
        BY <3>1, <3>2, <1>5
    <2>3. CASE i # id
      <3>1. \/ \E k \in DOMAIN ev : Corrects(ev, k, i)
            \/ tc[i].state = "building" /\ q.heap[q.circuits[i]].status = "ASSIGNED"
            \/ tc[i].state = "built" /\ q.heap[q.circuits[i]].status = "BUILT"
        BY <2>1, <2>3, <1>6 DEF Agrees, ViewFollows
      <3>2. \A k \in DOMAIN ev : Corrects(ev, k, i) => k # 1
        BY <1>1 DEF Corrects
      <3>3. CASE \E k \in DOMAIN ev : Corrects(ev, k, i)
        BY <3>2, <3>3, CorrectsLater DEF ev2
      <3>4. QED
        BY <3>1, <3>3
    <2>4. QED
      BY <2>2, <2>3
  <1>10. BuiltIsNews(q, ev2)
    <2>1. SUFFICES ASSUME NEW k \in DOMAIN ev2, ev2[k].type = "BUILT", q.circuits[ev2[k].id] # NoCircuit
                   PROVE  q.heap[q.circuits[ev2[k].id]].status = "ASSIGNED"
      BY DEF BuiltIsNews
    <2> DEFINE i == ev2[k].id
    <2>2. i \in CircuitIDs
      BY <2>1, <1>1, ElementOfSeq, EventFields
    <2>3. CASE i = id
      BY <2>3, <1>4, <1>7
    <2>4. CASE i # id
      <3>1. q.circuits[i] = p.circuits[i] /\ q.heap[p.circuits[i]] = p.heap[p.circuits[i]]
        BY <2>1, <2>2, <2>4, <1>6
      <3>2. k + 1 \in DOMAIN ev /\ ev[k + 1] = ev2[k]
        BY <1>1
      <3>3. p.heap[p.circuits[i]].status = "ASSIGNED"
        BY <2>1, <3>1, <3>2 DEF Agrees, BuiltIsNews
      <3>4. QED
        BY <3>1, <3>3
    <2>5. QED
      BY <2>3, <2>4
  <1>11. /\ CountIn(p.commands, Extends) = 0 /\ CountIn(ev2, Replies) = 0 /\ rf = 0
    <2>1. Head(ev) \in Replies
      BY DEF Replies, CircuitEvent, Event
    <2>2. /\ CountIn(ev, Replies) = CountIn(ev2, Replies) + 1
          /\ CountIn(ev2, Replies) \in Nat /\ CountIn(p.commands, Extends) \in Nat
      BY <1>1, <1>3, <2>1, CountTail, CountType DEF ev2
    <2>3. CountIn(p.commands, Extends) + CountIn(ev, Replies) + rf = 1
      BY <1>2 DEF Agrees, OneInFlight, s
    <2>4. QED
      BY <2>2, <2>3
  <1>12. RepliesAwaited(q, ev2, tc)
    <2>1. \A i \in DOMAIN ev2 : ev2[i] \notin Replies /\ ev2[i] \in Event
      BY <1>1, <1>11, CountType, ElementOfSeq, LenProperties
    <2>2. QED
      BY <2>1 DEF RepliesAwaited, Replies
  <1>13. CommandsFollow(q, tc)
    <2>1. \A i \in DOMAIN p.commands : p.commands[i] \notin Extends /\ p.commands[i] \in Command
      <3> DEFINE u == p.commands
      <3>1. u \in Seq(Command) /\ CountIn(u, Extends) = 0
        BY <1>3, <1>11
      <3> HIDE DEF u
      <3>2. \A i \in DOMAIN u : u[i] \notin Extends
        BY <3>1, CountType
      <3>3. \A i \in DOMAIN u : u[i] \in Command
        BY <3>1, ElementOfSeq, LenProperties
      <3>4. QED
        BY <3>2, <3>3 DEF u
    <2>2. \A i \in DOMAIN p.commands : p.commands[i].type # "EXTENDCIRCUIT"
      BY <2>1 DEF Extends
    <2>3. QED
      BY <2>2, <1>4 DEF Agrees, CommandsFollow
  <1>14. StreamsAtHome(q)
    BY <1>4 DEF Agrees, StreamsAtHome
  <1>15. OneInFlight(q, ev2, rf)
    BY <1>4, <1>11 DEF OneInFlight
  <1>16. BuildingBounded(q)
    <2>1. Unbuilt(q) = Unbuilt(p)
      BY <1>3, <1>4 DEF Unbuilt
    <2>2. QED
      BY <2>1, <1>4 DEF Agrees, BuildingBounded
  <1>17. Agrees(q, ev2, tc, rf)
    BY <1>8, <1>9, <1>10, <1>12, <1>13, <1>14, <1>15, <1>16 DEF Agrees
  <1>18. QED
    BY <1>2, <1>17 DEF q, ev2, s

\* The session of a stream is in the table, with its circuit, before the stream
\* is queued.
LEMMA SessionEnsured ==
    ASSUME NEW p, LoopInv(p), NEW t \in Nat, NEW s \in Sessions, NEW c \in Allocations(p, s)
    PROVE  LET q == EnsureSession(p, t, s, c)
           IN  /\ LoopInv(q) /\ q \in PlayerState /\ s \in q.sessions
               /\ KeepsAgreement(p, q)
  <1> DEFINE q == EnsureSession(p, t, s, c)
             h == NewCircuit(s, t, FALSE)
  <1>1. p \in PlayerState /\ Core(p) /\ s # NoSession
    BY PlayerAssumption DEF LoopInv, Core
  <1>2. CASE p.circuitsSorted[s] # <<>>
    <2>1. s \in p.sessions
      BY <1>1, <1>2 DEF Core, QueuesOwnCircuits
    <2>2. q = p
      BY <1>1, <1>2, <2>1 DEF EnsureSession, PlayerState
    <2>3. KeepsAgreement(p, p)
      BY DEF KeepsAgreement, KeepsTable, KeepsAwaited
    <2>4. QED
      BY <1>1, <2>1, <2>2, <2>3
  <1>3. CASE p.circuitsSorted[s] = <<>>
    <2>1. c \in Circuits /\ p.heap[c].status = "FREED"
      BY <1>1, <1>3 DEF Allocations
    <2>2. LoopInv(q) /\ q \in PlayerState /\ s \in q.sessions
      BY <1>3, <2>1, NewSessionInv DEF LoopInv, Core
    <2>3. /\ q.heap = [p.heap EXCEPT ![c] = h]
          /\ q.circuitsSorted = [p.circuitsSorted EXCEPT ![s] = <<c>>]
          /\ q.circuits = p.circuits /\ q.sessionAwaitingAssignment = p.sessionAwaitingAssignment
          /\ q.commands = p.commands /\ q.waitingStreamIDs = p.waitingStreamIDs
          /\ q.circuitsBuilding = p.circuitsBuilding
      BY <1>1, <1>3 DEF EnsureSession, PlayerState
    <2>4. h.status = "NONE"
      BY DEF NewCircuit, Freed
    <2> HIDE DEF q, h
    <2>5. /\ \A d \in Circuits : d # c => q.heap[d] = p.heap[d]
          /\ q.heap[c] = h
          /\ \A r \in Sessions : r # s => q.circuitsSorted[r] = p.circuitsSorted[r]
      BY <1>1, <2>1, <2>3 DEF PlayerState
    <2>6. KeepsTable(p, q)
      <3>1. SUFFICES ASSUME NEW id \in CircuitIDs, p.circuits[id] # NoCircuit
                     PROVE  q.heap[p.circuits[id]] = p.heap[p.circuits[id]]
        BY <2>3 DEF KeepsTable
      <3>2. id \in IDs
        BY DEF IDs
      <3>3. p.circuits[id] \in Circuits /\ p.heap[p.circuits[id]].status \in {"ASSIGNED", "BUILT"}
        BY <1>1, <3>1, <3>2, TableCircuit
      <3>4. QED
        BY <2>1, <2>5, <3>3
    <2>7. KeepsAwaited(p, q)
      <3>1. s \notin p.sessions
        BY <1>1, <1>3 DEF Core, QueuesOwnCircuits
      <3>2. ASSUME p.sessionAwaitingAssignment # NoSession
            PROVE  p.sessionAwaitingAssignment \in Sessions /\ p.sessionAwaitingAssignment # s
        BY <1>1, <3>1, <3>2 DEF Core, AwaitingIsLaunched, PlayerState
      <3>3. QED
        BY <2>3, <2>5, <3>2 DEF KeepsAwaited, CurrentCircuit
    <2>8. Unbuilt(q) = Unbuilt(p)
      BY <2>1, <2>4, <2>5 DEF Unbuilt
    <2>9. KeepsAgreement(p, q)
      BY <2>3, <2>6, <2>7, <2>8 DEF KeepsAgreement
    <2>10. QED
      BY <2>2, <2>9 DEF q
  <1>4. QED
    BY <1>2, <1>3

\* The agreement of a state that differs in the queues of streams only.
LEMMA QueuesAgree ==
    ASSUME NEW p, p \in PlayerState, NEW ev \in Seq(Event), NEW tc, NEW rf, Agrees(p, ev, tc, rf),
           NEW q, StreamsAtHome(q), KeepsTable(p, q), KeepsAwaited(p, q), Unbuilt(q) = Unbuilt(p),
           q.commands = p.commands, q.circuitsBuilding = p.circuitsBuilding
    PROVE  Agrees(q, ev, tc, rf)
  <1>1. p.commands \in Seq(Command)
    BY DEF PlayerState
  <1>2. TableMatched(q, tc) /\ ViewFollows(q, ev, tc) /\ BuiltIsNews(q, ev) /\ RepliesAwaited(q, ev, tc)
    BY KeepsTableAgrees DEF Agrees
  <1>3. CommandsFollow(q, tc)
    BY <1>1, KeepsCommandsFollow DEF Agrees
  <1>4. OneInFlight(q, ev, rf)
    BY DEF KeepsAwaited, Agrees, OneInFlight
  <1>5. BuildingBounded(q)
    BY DEF Agrees, BuildingBounded
  <1>6. QED
    BY <1>2, <1>3, <1>4, <1>5 DEF Agrees

LEMMA EnqueueStreamAgrees ==
    ASSUME NEW p, p \in PlayerState, NEW s \in Sessions, NEW st \in Streams, User[st] = s,
           NEW ev \in Seq(Event), NEW tc, NEW rf, Agrees(p, ev, tc, rf)
    PROVE  Agrees(EnqueueStream(p, s, st), ev, tc, rf)
  <1> DEFINE q == EnqueueStream(p, s, st)
             w == p.waitingStreamIDs[s]
  <1>1. /\ q.waitingStreamIDs = [p.waitingStreamIDs EXCEPT ![s] = Append(w, st)]
        /\ q.heap = p.heap /\ q.circuits = p.circuits /\ q.circuitsSorted = p.circuitsSorted
        /\ q.sessionAwaitingAssignment = p.sessionAwaitingAssignment
        /\ q.commands = p.commands /\ q.circuitsBuilding = p.circuitsBuilding
    BY DEF EnqueueStream, PlayerState
  <1>2. \A r \in Sessions : q.waitingStreamIDs[r] = IF r = s THEN Append(w, st) ELSE p.waitingStreamIDs[r]
    BY <1>1 DEF PlayerState
  <1> DEFINE D == Streams \cup {Preemptive}
  <1>3. w \in Seq(D) /\ st \in D
    BY DEF PlayerState
  <1>4. \A i \in DOMAIN w : w[i] >= 0 => User[w[i]] = s
    BY DEF Agrees, StreamsAtHome
  <1> HIDE DEF q, w, D
  <1>5. \A i \in DOMAIN Append(w, st) : Append(w, st)[i] >= 0 => User[Append(w, st)[i]] = s
    <2>1. /\ DOMAIN Append(w, st) = 1..(Len(w) + 1) /\ DOMAIN w = 1..Len(w) /\ Len(w) \in Nat
          /\ \A i \in 1..Len(w) : Append(w, st)[i] = w[i]
          /\ Append(w, st)[Len(w) + 1] = st
      BY <1>3, QueuePush
    <2>2. \A i \in DOMAIN Append(w, st) : i \in DOMAIN w \/ i = Len(w) + 1
      BY <2>1
    <2>3. QED
      BY <1>4, <2>1, <2>2
  <1>6. StreamsAtHome(q)
    BY <1>2, <1>5 DEF Agrees, StreamsAtHome
  <1>7. KeepsTable(p, q) /\ KeepsAwaited(p, q) /\ Unbuilt(q) = Unbuilt(p)
    BY <1>1 DEF KeepsTable, KeepsAwaited, CurrentCircuit, Unbuilt
  <1>8. Agrees(q, ev, tc, rf)
    BY <1>1, <1>6, <1>7, QueuesAgree
  <1>9. QED
    BY <1>8 DEF q

LEMMA RequestLaunchesAgrees ==
    ASSUME NEW p, LoopInv(p), NEW n \in 0..Len(p.launches),
           NEW ev \in Seq(Event), NEW tc, NEW rf, Agrees(p, ev, tc, rf)
    PROVE  Agrees(RequestLaunches(p, n), ev, tc, rf)
  <1> DEFINE q == RequestLaunches(p, n)
  <1>1. p \in PlayerState
    BY DEF LoopInv, Core
  <1>2. /\ q.heap = p.heap /\ q.circuits = p.circuits /\ q.circuitsSorted = p.circuitsSorted
        /\ q.sessionAwaitingAssignment = p.sessionAwaitingAssignment
        /\ q.commands = p.commands /\ q.circuitsBuilding = p.circuitsBuilding
    BY <1>1 DEF RequestLaunches, PlayerState
  <1>3. \A s \in Sessions : \A i \in DOMAIN q.waitingStreamIDs[s] :
           \/ i \in DOMAIN p.waitingStreamIDs[s] /\ q.waitingStreamIDs[s][i] = p.waitingStreamIDs[s][i]
           \/ q.waitingStreamIDs[s][i] = -1
    BY RequestLaunchesQueues
  <1> HIDE DEF q
  <1>4. StreamsAtHome(q)
    BY <1>3 DEF Agrees, StreamsAtHome
  <1>5. KeepsTable(p, q) /\ KeepsAwaited(p, q) /\ Unbuilt(q) = Unbuilt(p)
    BY <1>2 DEF KeepsTable, KeepsAwaited, CurrentCircuit, Unbuilt
  <1>6. Agrees(q, ev, tc, rf)
    BY <1>1, <1>2, <1>4, <1>5, QueuesAgree
  <1>7. QED
    BY <1>6 DEF q

\* A stream without a username is left to Tor.
LEMMA AttachToAnyAgrees ==
    ASSUME NEW p, LoopInv(p), NEW st \in Streams,
           NEW ev \in Seq(Event), NEW tc, NEW rf, Agrees(p, ev, tc, rf)
    PROVE  Agrees([p EXCEPT !.commands = Append(@, AttachStream(st, 0))], ev, tc, rf)
  <1> DEFINE m == AttachStream(st, 0)
             q == [p EXCEPT !.commands = Append(@, AttachStream(st, 0))]
  <1>1. p \in PlayerState /\ p.commands \in Seq(Command)
    BY DEF LoopInv, Core, PlayerState
  <1>2. m \in Command /\ m \notin Extends /\ m.type = "ATTACHSTREAM" /\ m.id = 0
    BY DEF AttachStream, Command, IDs, Extends
  <1>3. /\ q.heap = p.heap /\ q.circuits = p.circuits /\ q.circuitsSorted = p.circuitsSorted
        /\ q.sessionAwaitingAssignment = p.sessionAwaitingAssignment
        /\ q.commands = Append(p.commands, m) /\ q.waitingStreamIDs = p.waitingStreamIDs
        /\ q.circuitsBuilding = p.circuitsBuilding
    BY <1>1 DEF PlayerState
  <1> HIDE DEF q, m
  <1>4. KeepsTable(p, q) /\ KeepsAwaited(p, q) /\ Unbuilt(q) = Unbuilt(p)
    BY <1>3 DEF KeepsTable, KeepsAwaited, CurrentCircuit, Unbuilt
  <1>5. TableMatched(q, tc) /\ ViewFollows(q, ev, tc) /\ BuiltIsNews(q, ev) /\ RepliesAwaited(q, ev, tc)
    BY <1>4, KeepsTableAgrees DEF Agrees
  <1>6. CommandsFollow(q, tc)
    <2> DEFINE u == p.commands
    <2>1. /\ DOMAIN Append(u, m) = 1..(Len(u) + 1) /\ DOMAIN u = 1..Len(u) /\ Len(u) \in Nat
          /\ \A i \in 1..Len(u) : Append(u, m)[i] = u[i]
          /\ Append(u, m)[Len(u) + 1] = m
      BY <1>1, <1>2, QueuePush
    <2>2. \A i \in DOMAIN q.commands : (i \in DOMAIN u /\ q.commands[i] = u[i]) \/ q.commands[i] = m
      BY <2>1, <1>3
    <2>3. CurrentCircuit(q, q.sessionAwaitingAssignment) = CurrentCircuit(p, p.sessionAwaitingAssignment)
      BY <1>3 DEF CurrentCircuit
    <2>4. QED
      BY <2>2, <2>3, <1>2, <1>3 DEF Agrees, CommandsFollow
  <1>7. OneInFlight(q, ev, rf)
    <2>1. CountIn(q.commands, Extends) = CountIn(p.commands, Extends) + 0 /\ CountIn(p.commands, Extends) \in Nat
      <3> DEFINE u == p.commands
      <3>1. u \in Seq(Command) /\ q.commands = Append(u, m)
        BY <1>1, <1>3
      <3> HIDE DEF u
      <3>2. CountIn(Append(u, m), Extends) = CountIn(u, Extends) + 0
        BY <1>2, <3>1, CountAppend
      <3>3. CountIn(u, Extends) \in Nat
        BY <3>1, CountType
      <3>4. QED
        BY <3>1, <3>2, <3>3 DEF u
    <2>2. CountIn(q.commands, Extends) = CountIn(p.commands, Extends)
      BY <2>1
    <2>3. QED
      BY <2>2, <1>3 DEF Agrees, OneInFlight
  <1>8. StreamsAtHome(q) /\ BuildingBounded(q)
    BY <1>3, <1>4 DEF Agrees, StreamsAtHome, BuildingBounded
  <1>9. Agrees(q, ev, tc, rf)
    BY <1>5, <1>6, <1>7, <1>8 DEF Agrees
  <1>10. QED
    BY <1>9 DEF q

LEMMA StreamNewAgrees ==
    ASSUME NEW p, LoopInv(p), NEW t \in Nat, NEW st \in Streams, NEW c \in Allocations(p, User[st]),
           NEW ev \in Seq(Event), NEW tc, NEW rf \in Nat, Agrees(p, ev, tc, rf)
    PROVE  Agrees(OnStreamNew(p, t, st, User[st], c), ev, tc, rf)
  <1> DEFINE s == User[st]
             q == EnsureSession(p, t, s, c)
             r == EnqueueStream(q, s, st)
  <1>1. CASE s = NoSession
    BY <1>1, AttachToAnyAgrees DEF OnStreamNew
  <1>2. CASE s # NoSession
    <2>1. s \in Sessions
      BY <1>2, PlayerTorAssumption
    <2>2. OnStreamNew(p, t, st, s, c) = HandleSessionBacklog(r, t)
      BY <1>2 DEF OnStreamNew
    <2>3. LoopInv(q) /\ q \in PlayerState /\ s \in q.sessions /\ KeepsAgreement(p, q)
      BY <2>1, SessionEnsured
    <2> HIDE DEF q
    <2>4. Agrees(q, ev, tc, rf)
      BY <2>3, KeepsAgreementAgrees DEF LoopInv, Core, PlayerState
    <2>5. LoopInv(r) /\ Agrees(r, ev, tc, rf)
      BY <2>1, <2>3, <2>4, EnqueueStreamInv, EnqueueStreamAgrees
    <2> HIDE DEF r
    <2>6. Agrees(HandleSessionBacklog(r, t), ev, tc, rf)
      BY <2>5, HandleSessionBacklogAgrees
    <2>7. QED
      BY <2>2, <2>6
  <1>3. QED
    BY <1>1, <1>2

LEMMA CircuitAssignedAgrees ==
    ASSUME NEW p, LoopInv(p), NEW t \in Nat, NEW ev \in Seq(Event), ev # <<>>, NEW tc, NEW rf \in Nat,
           NEW id \in CircuitIDs, Head(ev) = CircuitEvent("EXTENDED", id),
           Agrees(p, ev, tc, rf), EventsFollow(ev, tc)
    PROVE  Agrees(OnCircuitAssigned(p, t, id), Tail(ev), tc, rf) /\ p.circuits[id] = NoCircuit
  <1> DEFINE q == Assign(p, id)
             ev2 == Tail(ev)
  <1>1. p.sessionAwaitingAssignment # NoSession /\ p.circuits[id] = NoCircuit /\ Agrees(q, ev2, tc, rf)
    BY AssignAgrees
  <1>2. LoopInv(q)
    BY <1>1, AssignInv
  <1>3. OnCircuitAssigned(p, t, id) = HandleSessionBacklog(q, t)
    BY <1>1 DEF OnCircuitAssigned, Assign
  <1>4. ev2 \in Seq(Event)
    BY TailIndex
  <1> HIDE DEF q, ev2
  <1>5. Agrees(HandleSessionBacklog(q, t), ev2, tc, rf)
    BY <1>1, <1>2, <1>4, HandleSessionBacklogAgrees
  <1>6. QED
    BY <1>1, <1>3, <1>5 DEF ev2

LEMMA CircuitBuiltAgrees ==
    ASSUME NEW p, LoopInv(p), NEW t \in Nat, NEW ev \in Seq(Event), ev # <<>>, NEW tc, NEW rf \in Nat,
           NEW id \in CircuitIDs, Head(ev) = CircuitEvent("BUILT", id),
           Agrees(p, ev, tc, rf), EventsFollow(ev, tc)
    PROVE  Agrees(OnCircuitBuilt(p, t, id), Tail(ev), tc, rf)
  <1> DEFINE q == MarkBuilt(p, id)
             s == p.heap[p.circuits[id]].session
             ev2 == Tail(ev)
  <1>1. ev2 \in Seq(Event)
    BY TailIndex
  <1>2. CASE p.circuits[id] = NoCircuit
    <2>1. OnCircuitBuilt(p, t, id) = p
      BY <1>2 DEF OnCircuitBuilt
    <2>2. Head(ev).type # "EXTENDED" /\ Head(ev).id = id
      BY DEF CircuitEvent
    <2>3. QED
      BY <2>1, <2>2, <1>2, TailAgrees
  <1>3. CASE p.circuits[id] # NoCircuit
    <2>1. id \in IDs
      BY DEF IDs
    <2>2. Core(q) /\ s \in q.sessions /\ q.sessionAwaitingAssignment # s
      BY <2>1, <1>3, MarkBuiltCore
    <2>3. Agrees(q, ev2, tc, rf)
      BY <1>3, MarkBuiltAgrees
    <2>4. OnCircuitBuilt(p, t, id) = HandleSession(q, t, s)
      BY <1>3 DEF OnCircuitBuilt, MarkBuilt
    <2> HIDE DEF q, s, ev2
    <2>5. Agrees(HandleSession(q, t, s), ev2, tc, rf)
      BY <1>1, <2>2, <2>3, HandleSessionAgrees
    <2>6. QED
      BY <2>4, <2>5 DEF ev2
  <1>4. QED
    BY <1>2, <1>3

LEMMA CircuitGoneAgrees ==
    ASSUME NEW p, LoopInv(p), NEW t \in Nat, NEW ev \in Seq(Event), ev # <<>>, NEW tc, NEW rf \in Nat,
           NEW id \in CircuitIDs, NEW failed \in BOOLEAN,
           Head(ev) = CircuitEvent(IF failed THEN "FAILED" ELSE "CLOSED", id),
           Agrees(p, ev, tc, rf)
    PROVE  Agrees(OnCircuitGone(p, t, id, failed), Tail(ev), tc, rf)
  <1> DEFINE s == p.heap[p.circuits[id]].session
             q == Reset(p, id, failed)
             b == EnterBacklog(q, s)
             ev2 == Tail(ev)
  <1>1. ev2 \in Seq(Event)
    BY TailIndex
  <1>2. Head(ev).type # "EXTENDED" /\ Head(ev).id = id
    BY DEF CircuitEvent
  <1>3. CASE p.circuits[id] = NoCircuit
    <2>1. OnCircuitGone(p, t, id, failed) = p
      BY <1>3 DEF OnCircuitGone
    <2>2. QED
      BY <2>1, <1>2, <1>3, TailAgrees
  <1>4. CASE p.circuits[id] # NoCircuit
    <2>1. id \in IDs
      BY DEF IDs
    <2>2. Core(q) /\ WakeupExcept(q, s) /\ s \in q.sessions
      BY <2>1, <1>4, ResetCore
    <2>3. Agrees(q, ev, tc, rf) /\ q.circuits[id] = NoCircuit
      BY <1>4, ResetAgrees
    <2>4. OnCircuitGone(p, t, id, failed) = q \/ OnCircuitGone(p, t, id, failed) = HandleSessionBacklog(b, t)
      BY <1>4 DEF OnCircuitGone
    <2> HIDE DEF q, s
    <2>5. Agrees(q, ev2, tc, rf)
      BY <1>2, <2>3, TailAgrees
    <2>6. LoopInv(b)
      BY <2>2, EnterBacklogCore
    <2>7. Agrees(b, ev2, tc, rf)
      <3> DEFINE l == Append(q.sessionAssignmentBacklog, s)
      <3>1. b = [q EXCEPT !.sessionAssignmentBacklog = l] /\ q \in PlayerState
        BY <2>2 DEF EnterBacklog, Core
      <3> HIDE DEF l, b, ev2
      <3>2. Agrees([q EXCEPT !.sessionAssignmentBacklog = l], ev2, tc, rf)
        BY <1>1, <2>5, <3>1, EnterBacklogAgrees
      <3>3. QED
        BY <3>1, <3>2
    <2> HIDE DEF b, ev2
    <2>8. Agrees(HandleSessionBacklog(b, t), ev2, tc, rf)
      BY <1>1, <2>6, <2>7, HandleSessionBacklogAgrees
    <2>9. QED
      BY <2>4, <2>5, <2>8 DEF ev2
  <1>5. QED
    BY <1>3, <1>4

LEMMA LaunchNextAgrees ==
    ASSUME NEW p, LoopInv(p), NEW t \in Nat, NEW n \in LaunchesDue(p, t),
           NEW ev \in Seq(Event), NEW tc, NEW rf \in Nat, Agrees(p, ev, tc, rf)
    PROVE  Agrees(LaunchNextCircuit(p, t, n), ev, tc, rf)
  <1> DEFINE q == RequestLaunches(p, n)
  <1>1. n \in 0..Len(p.launches)
    BY DEF LaunchesDue
  <1>2. LoopInv(q) /\ Agrees(q, ev, tc, rf)
    BY <1>1, RequestLaunchesInv, RequestLaunchesAgrees
  <1>3. LaunchNextCircuit(p, t, n) = p \/ LaunchNextCircuit(p, t, n) = HandleSessionBacklog(q, t)
    BY DEF LaunchNextCircuit
  <1> HIDE DEF q
  <1>4. QED
    BY <1>2, <1>3, HandleSessionBacklogAgrees

-----------------------------------------------------------------------------
(* What Tor does                                                           *)

\* Tor takes the next command.
LEMMA TakenAgrees ==
    ASSUME NEW p, LoopInv(p), p.commands # <<>>,
           NEW ev \in Seq(Event), NEW tc, NEW rf, Agrees(p, ev, tc, rf)
    PROVE  LET q == [p EXCEPT !.commands = Tail(@)]
           IN  /\ TableMatched(q, tc) /\ ViewFollows(q, ev, tc) /\ BuiltIsNews(q, ev)
               /\ RepliesAwaited(q, ev, tc) /\ CommandsFollow(q, tc)
               /\ StreamsAtHome(q) /\ BuildingBounded(q)
               /\ q.circuits = p.circuits /\ q.circuitsSorted = p.circuitsSorted /\ q.heap = p.heap
               /\ q.sessionAwaitingAssignment = p.sessionAwaitingAssignment
               /\ q.commands \in Seq(Command) /\ CountIn(q.commands, Extends) \in Nat
               /\ CountIn(p.commands, Extends) =
                    CountIn(q.commands, Extends) + (IF Head(p.commands) \in Extends THEN 1 ELSE 0)
  <1> DEFINE u == p.commands
             q == [p EXCEPT !.commands = Tail(u)]
  <1>1. p \in PlayerState /\ u \in Seq(Command)
    BY DEF LoopInv, Core, PlayerState
  <1>2. /\ q.heap = p.heap /\ q.circuits = p.circuits /\ q.circuitsSorted = p.circuitsSorted
        /\ q.sessionAwaitingAssignment = p.sessionAwaitingAssignment
        /\ q.commands = Tail(u) /\ q.waitingStreamIDs = p.waitingStreamIDs
        /\ q.circuitsBuilding = p.circuitsBuilding
    BY <1>1 DEF PlayerState
  <1> HIDE DEF q
  <1>3. KeepsTable(p, q) /\ KeepsAwaited(p, q) /\ Unbuilt(q) = Unbuilt(p)
    BY <1>2 DEF KeepsTable, KeepsAwaited, CurrentCircuit, Unbuilt
  <1>4. TableMatched(q, tc) /\ ViewFollows(q, ev, tc) /\ BuiltIsNews(q, ev) /\ RepliesAwaited(q, ev, tc)
    BY <1>3, KeepsTableAgrees DEF Agrees
  <1>5. CommandsFollow(q, tc)
    <2>1. \A i \in DOMAIN Tail(u) : i + 1 \in DOMAIN u /\ Tail(u)[i] = u[i + 1]
      BY <1>1, TailIndex
    <2>2. CurrentCircuit(q, q.sessionAwaitingAssignment) = CurrentCircuit(p, p.sessionAwaitingAssignment)
      BY <1>2 DEF CurrentCircuit
    <2> DEFINE C(m) == /\ m.type = "EXTENDCIRCUIT" =>
                            /\ m.session = p.sessionAwaitingAssignment
                            /\ m.circuit = CurrentCircuit(p, p.sessionAwaitingAssignment)
                       /\ m.type = "ATTACHSTREAM" /\ m.id # 0 =>
                            /\ tc[m.id].state \in {"built", "closed"}
                            /\ tc[m.id].session = User[m.stream]
    <2>3. \A i \in DOMAIN u : C(u[i])
      BY DEF Agrees, CommandsFollow
    <2> HIDE DEF C, u
    <2>4. \A i \in DOMAIN q.commands : C(q.commands[i])
      BY <1>2, <2>1, <2>3
    <2>5. QED
      BY <1>2, <2>2, <2>4 DEF C, CommandsFollow
  <1>6. StreamsAtHome(q) /\ BuildingBounded(q)
    BY <1>2, <1>3 DEF Agrees, StreamsAtHome, BuildingBounded
  <1>7. /\ Tail(u) \in Seq(Command)
        /\ CountIn(u, Extends) = CountIn(Tail(u), Extends) + (IF Head(u) \in Extends THEN 1 ELSE 0)
    BY <1>1, TailIndex, CountTail
  <1>8. CountIn(Tail(u), Extends) \in Nat
    <2> DEFINE v == Tail(u)
    <2> HIDE DEF v
    <2>1. CountIn(v, Extends) \in Nat
      BY <1>7, CountType DEF v
    <2>2. QED
      BY <2>1 DEF v
  <1>9. QED
    BY <1>2, <1>4, <1>5, <1>6, <1>7, <1>8 DEF q

\* A queue that grew at its end.
LEMMA Grown ==
    ASSUME NEW ev \in Seq(Event), NEW e \in Event
    PROVE  LET ev2 == Append(ev, e)
           IN  /\ ev2 \in Seq(Event)
               /\ \A i \in DOMAIN ev : i \in DOMAIN ev2 /\ ev2[i] = ev[i] /\ i < Len(ev) + 1
               /\ \A i \in DOMAIN ev2 : (i \in DOMAIN ev /\ ev2[i] = ev[i]) \/ (i = Len(ev) + 1 /\ ev2[i] = e)
               /\ Len(ev) + 1 \in DOMAIN ev2 /\ ev2[Len(ev) + 1] = e
  BY QueuePush

\* Event e tells of the one circuit that Tor built or closed.
Tells(e, tc, tc2) ==
    /\ e.type # "EXTENDED"
    /\ e.type = "BUILT" => tc[e.id].state = "building" /\ tc2[e.id].state = "built"
    /\ e.type \in {"FAILED", "CLOSED"} => tc2[e.id].state = "closed"
    /\ \A id \in CircuitIDs :
          /\ tc2[id].session = tc[id].session /\ tc2[id].circuit = tc[id].circuit
          /\ \/ tc2[id].state = tc[id].state
             \/ /\ tc[id].state # "unused" /\ tc2[id].state \in {"built", "closed"}
                /\ e.type \in {"BUILT", "FAILED", "CLOSED"} /\ e.id = id

LEMMA NewsAgrees ==
    ASSUME NEW p, LoopInv(p), NEW ev \in Seq(Event), NEW e \in Event, NEW tc, NEW tc2, NEW rf,
           Agrees(p, ev, tc, rf), EventsFollow(ev, tc), Tells(e, tc, tc2)
    PROVE  Agrees(p, Append(ev, e), tc2, rf)
  <1> DEFINE ev2 == Append(ev, e)
  <1>1. /\ ev2 \in Seq(Event)
        /\ \A i \in DOMAIN ev : i \in DOMAIN ev2 /\ ev2[i] = ev[i]
        /\ \A i \in DOMAIN ev2 : (i \in DOMAIN ev /\ ev2[i] = ev[i]) \/ ev2[i] = e
        /\ Len(ev) + 1 \in DOMAIN ev2 /\ ev2[Len(ev) + 1] = e
    BY Grown
  <1>2. \A i \in DOMAIN ev : ev[i] \in Event
    BY ElementOfSeq, LenProperties
  <1> HIDE DEF ev2
  <1>3. TableMatched(p, tc2)
    BY DEF Agrees, TableMatched, Tells
  <1>4. ViewFollows(p, ev2, tc2)
    <2>1. SUFFICES ASSUME NEW id \in CircuitIDs, p.circuits[id] # NoCircuit
                   PROVE  \/ \E i \in DOMAIN ev2 : Corrects(ev2, i, id)
                          \/ tc2[id].state = "building" /\ p.heap[p.circuits[id]].status = "ASSIGNED"
                          \/ tc2[id].state = "built" /\ p.heap[p.circuits[id]].status = "BUILT"
      BY DEF ViewFollows
    <2>2. CASE tc2[id].state = tc[id].state
      <3>1. \/ \E i \in DOMAIN ev : Corrects(ev, i, id)
            \/ tc[id].state = "building" /\ p.heap[p.circuits[id]].status = "ASSIGNED"
            \/ tc[id].state = "built" /\ p.heap[p.circuits[id]].status = "BUILT"
        BY <2>1 DEF Agrees, ViewFollows
      <3>2. (\E i \in DOMAIN ev : Corrects(ev, i, id)) => \E i \in DOMAIN ev2 : Corrects(ev2, i, id)
        BY <1>1 DEF Corrects
      <3>3. QED
        BY <2>2, <3>1, <3>2
    <2>3. CASE tc2[id].state # tc[id].state
      <3>1. e.type \in {"BUILT", "FAILED", "CLOSED"} /\ e.id = id
        BY <2>3 DEF Tells
      <3>2. Corrects(ev2, Len(ev) + 1, id)
        BY <1>1, <3>1 DEF Corrects
      <3>3. QED
        BY <1>1, <3>2
    <2>4. QED
      BY <2>2, <2>3
  <1>5. BuiltIsNews(p, ev2)
    <2>1. SUFFICES ASSUME NEW i \in DOMAIN ev2, ev2[i].type = "BUILT", p.circuits[ev2[i].id] # NoCircuit
                   PROVE  p.heap[p.circuits[ev2[i].id]].status = "ASSIGNED"
      BY DEF BuiltIsNews
    <2>2. CASE i \in DOMAIN ev /\ ev2[i] = ev[i]
      BY <2>1, <2>2 DEF Agrees, BuiltIsNews
    <2>3. CASE ev2[i] = e
      <3>1. e.id \in CircuitIDs /\ tc[e.id].state = "building" /\ p.circuits[e.id] # NoCircuit
        BY <2>1, <2>3, EventFields DEF Tells
      <3>2. ~\E j \in DOMAIN ev : Corrects(ev, j, e.id)
        BY <3>1 DEF Corrects, EventsFollow
      <3>3. p.heap[p.circuits[e.id]].status = "ASSIGNED"
        BY <3>1, <3>2 DEF Agrees, ViewFollows
      <3>4. QED
        BY <2>3, <3>3
    <2>4. QED
      BY <2>2, <2>3, <1>1
  <1>6. RepliesAwaited(p, ev2, tc2)
    <2>1. SUFFICES ASSUME NEW i \in DOMAIN ev2, ev2[i].type = "EXTENDED"
                   PROVE  /\ p.sessionAwaitingAssignment # NoSession
                          /\ p.circuits[ev2[i].id] = NoCircuit
                          /\ tc2[ev2[i].id].session = p.sessionAwaitingAssignment
                          /\ tc2[ev2[i].id].circuit = CurrentCircuit(p, p.sessionAwaitingAssignment)
      BY DEF RepliesAwaited
    <2>2. i \in DOMAIN ev /\ ev2[i] = ev[i]
      BY <2>1, <1>1 DEF Tells
    <2>3. ev[i].id \in CircuitIDs
      BY <1>2, <2>1, <2>2, EventFields
    <2>4. /\ p.sessionAwaitingAssignment # NoSession
          /\ p.circuits[ev[i].id] = NoCircuit
          /\ tc[ev[i].id].session = p.sessionAwaitingAssignment
          /\ tc[ev[i].id].circuit = CurrentCircuit(p, p.sessionAwaitingAssignment)
      BY <2>1, <2>2 DEF Agrees, RepliesAwaited
    <2>5. QED
      BY <2>2, <2>3, <2>4 DEF Tells
  <1>7. CommandsFollow(p, tc2)
    <2>1. SUFFICES ASSUME NEW i \in DOMAIN p.commands,
                          p.commands[i].type = "ATTACHSTREAM", p.commands[i].id # 0
                   PROVE  /\ tc2[p.commands[i].id].state \in {"built", "closed"}
                          /\ tc2[p.commands[i].id].session = User[p.commands[i].stream]
      BY DEF Agrees, CommandsFollow
    <2> DEFINE m == p.commands[i]
    <2>2. m \in Command
      BY ElementOfSeq, LenProperties DEF LoopInv, Core, PlayerState
    <2>3. tc[m.id].state \in {"built", "closed"} /\ tc[m.id].session = User[m.stream]
      BY <2>1 DEF Agrees, CommandsFollow
    <2>4. m.id \in CircuitIDs
      <3>1. m.type = "ATTACHSTREAM" /\ m.id # 0
        BY <2>1
      <3> HIDE DEF m
      <3>2. QED
        BY <2>2, <3>1, CommandFields DEF IDs
    <2> HIDE DEF m
    <2>5. tc2[m.id].state \in {"built", "closed"} /\ tc2[m.id].session = User[m.stream]
      BY <2>3, <2>4 DEF Tells
    <2>6. QED
      BY <2>5 DEF m
  <1>8. OneInFlight(p, ev2, rf)
    <2>1. e \notin Replies
      BY DEF Replies, Tells
    <2>2. CountIn(ev2, Replies) = CountIn(ev, Replies) + 0 /\ CountIn(ev, Replies) \in Nat
      BY <2>1, CountAppend, CountType DEF ev2
    <2>3. CountIn(ev2, Replies) = CountIn(ev, Replies)
      BY <2>2
    <2>4. QED
      BY <2>3 DEF Agrees, OneInFlight
  <1>9. Agrees(p, ev2, tc2, rf)
    BY <1>3, <1>4, <1>5, <1>6, <1>7, <1>8 DEF Agrees
  <1>10. QED
    BY <1>9 DEF ev2

LEMMA NewsFollow ==
    ASSUME NEW ev \in Seq(Event), NEW e \in Event, NEW tc, NEW tc2,
           EventsFollow(ev, tc), Tells(e, tc, tc2)
    PROVE  EventsFollow(Append(ev, e), tc2)
  <1> DEFINE ev2 == Append(ev, e)
             n == Len(ev) + 1
  <1>1. /\ ev2 \in Seq(Event)
        /\ \A i \in DOMAIN ev : i \in DOMAIN ev2 /\ ev2[i] = ev[i] /\ i < n
        /\ \A i \in DOMAIN ev2 : (i \in DOMAIN ev /\ ev2[i] = ev[i]) \/ (i = n /\ ev2[i] = e)
        /\ n \in DOMAIN ev2 /\ ev2[n] = e
    BY Grown
  <1>2. \A i \in DOMAIN ev : ev[i] \in Event
    BY ElementOfSeq, LenProperties
  <1> HIDE DEF ev2, n
  <1>3. ASSUME NEW i \in DOMAIN ev, NEW id \in CircuitIDs
        PROVE  /\ (\E j \in DOMAIN ev : i < j /\ Corrects(ev, j, id)) =>
                     \E j \in DOMAIN ev2 : i < j /\ Corrects(ev2, j, id)
               /\ tc2[id].state # tc[id].state => \E j \in DOMAIN ev2 : i < j /\ Corrects(ev2, j, id)
    <2>1. (\E j \in DOMAIN ev : i < j /\ Corrects(ev, j, id)) =>
                     \E j \in DOMAIN ev2 : i < j /\ Corrects(ev2, j, id)
      BY <1>1 DEF Corrects
    <2>2. ASSUME tc2[id].state # tc[id].state PROVE \E j \in DOMAIN ev2 : i < j /\ Corrects(ev2, j, id)
      <3>1. e.type \in {"BUILT", "FAILED", "CLOSED"} /\ e.id = id
        BY <2>2 DEF Tells
      <3>2. Corrects(ev2, n, id) /\ i < n
        BY <3>1, <1>1 DEF Corrects
      <3>3. QED
        BY <3>2, <1>1
    <2>3. QED
      BY <2>1, <2>2
  <1>4. ASSUME NEW i \in DOMAIN ev2
        PROVE  /\ ev2[i].type = "EXTENDED" =>
                     \/ tc2[ev2[i].id].state = "building"
                     \/ tc2[ev2[i].id].state # "unused"
                          /\ \E j \in DOMAIN ev2 : i < j /\ Corrects(ev2, j, ev2[i].id)
               /\ ev2[i].type = "BUILT" =>
                     \/ tc2[ev2[i].id].state = "built"
                     \/ tc2[ev2[i].id].state = "closed"
                          /\ \E j \in DOMAIN ev2 : i < j /\ Corrects(ev2, j, ev2[i].id)
               /\ ev2[i].type \in {"FAILED", "CLOSED"} => tc2[ev2[i].id].state = "closed"
    <2>1. CASE i = n /\ ev2[i] = e
      BY <2>1 DEF Tells
    <2>2. CASE i \in DOMAIN ev /\ ev2[i] = ev[i]
      <3> DEFINE f == ev2[i]
                 Later == \E j \in DOMAIN ev2 : i < j /\ Corrects(ev2, j, f.id)
      <3>1. f \in Event /\ ev[i] = f
        BY <1>2, <2>2
      <3>2. f.type # "NEW" => f.id \in CircuitIDs
        BY <3>1, EventFields
      <3>3. /\ f.type = "EXTENDED" =>
                  \/ tc[f.id].state = "building"
                  \/ tc[f.id].state # "unused" /\ \E j \in DOMAIN ev : i < j /\ Corrects(ev, j, f.id)
            /\ f.type = "BUILT" =>
                  \/ tc[f.id].state = "built"
                  \/ tc[f.id].state = "closed" /\ \E j \in DOMAIN ev : i < j /\ Corrects(ev, j, f.id)
            /\ f.type \in {"FAILED", "CLOSED"} => tc[f.id].state = "closed"
        BY <2>2 DEF EventsFollow
      <3>4. f.id \in CircuitIDs =>
              /\ (\E j \in DOMAIN ev : i < j /\ Corrects(ev, j, f.id)) => Later
              /\ tc2[f.id].state # tc[f.id].state => Later
        BY <1>3, <2>2
      <3> HIDE DEF f, Later
      <3>5. ASSUME f.type = "EXTENDED"
            PROVE  tc2[f.id].state = "building" \/ (tc2[f.id].state # "unused" /\ Later)
        BY <3>2, <3>3, <3>4, <3>5 DEF Tells
      <3>6. ASSUME f.type = "BUILT"
            PROVE  tc2[f.id].state = "built" \/ (tc2[f.id].state = "closed" /\ Later)
        BY <3>2, <3>3, <3>4, <3>6 DEF Tells
      <3>7. ASSUME f.type \in {"FAILED", "CLOSED"} PROVE tc2[f.id].state = "closed"
        BY <3>2, <3>3, <3>7 DEF Tells
      <3>8. QED
        BY <3>5, <3>6, <3>7 DEF f, Later
    <2>3. QED
      BY <2>1, <2>2, <1>1
  <1>5. ASSUME NEW i \in DOMAIN ev2, NEW j \in DOMAIN ev2,
               ev2[i].type = "BUILT" /\ ev2[j].type = "BUILT" /\ ev2[i].id = ev2[j].id
        PROVE  i = j
    <2>1. ASSUME NEW k \in DOMAIN ev, ev[k].type = "BUILT", e.type = "BUILT", ev[k].id = e.id PROVE FALSE
      BY <2>1 DEF EventsFollow, Tells
    <2>2. QED
      BY <1>1, <1>5, <2>1 DEF EventsFollow
  <1>6. EventsFollow(ev2, tc2)
    BY <1>4, <1>5 DEF EventsFollow
  <1>7. QED
    BY <1>6 DEF ev2

\* Tor starts a circuit for the session that awaits an id.
LEMMA ExtendsAgrees ==
    ASSUME NEW p, LoopInv(p), p.commands # <<>>, Head(p.commands).type = "EXTENDCIRCUIT",
           NEW ev \in Seq(Event), NEW tc, NEW tc2, NEW rf \in Nat, NEW id \in CircuitIDs,
           Agrees(p, ev, tc, rf), EventsFollow(ev, tc), tc[id].state = "unused",
           tc2[id] = [state |-> "building", session |-> Head(p.commands).session,
                      circuit |-> Head(p.commands).circuit],
           \A i \in CircuitIDs : i # id => tc2[i] = tc[i]
    PROVE  /\ Agrees([p EXCEPT !.commands = Tail(@)], Append(ev, CircuitEvent("EXTENDED", id)), tc2, rf)
           /\ EventsFollow(Append(ev, CircuitEvent("EXTENDED", id)), tc2)
  <1> DEFINE e == CircuitEvent("EXTENDED", id)
             ev2 == Append(ev, e)
             n == Len(ev) + 1
             m == Head(p.commands)
             q == [p EXCEPT !.commands = Tail(@)]
             s == p.sessionAwaitingAssignment
  <1>0. e \in Event /\ e.type = "EXTENDED" /\ e.id = id /\ e \in Replies
    BY DEF CircuitEvent, Event, Replies
  <1>1. /\ ev2 \in Seq(Event)
        /\ \A i \in DOMAIN ev : i \in DOMAIN ev2 /\ ev2[i] = ev[i]
        /\ \A i \in DOMAIN ev2 : (i \in DOMAIN ev /\ ev2[i] = ev[i]) \/ ev2[i] = e
    BY <1>0, Grown
  <1>2. /\ TableMatched(q, tc) /\ ViewFollows(q, ev, tc) /\ BuiltIsNews(q, ev)
        /\ RepliesAwaited(q, ev, tc) /\ CommandsFollow(q, tc)
        /\ StreamsAtHome(q) /\ BuildingBounded(q)
        /\ q.circuits = p.circuits /\ q.circuitsSorted = p.circuitsSorted /\ q.heap = p.heap
        /\ q.sessionAwaitingAssignment = s
        /\ q.commands \in Seq(Command) /\ CountIn(q.commands, Extends) \in Nat
        /\ CountIn(p.commands, Extends) = CountIn(q.commands, Extends) + (IF m \in Extends THEN 1 ELSE 0)
    BY TakenAgrees
  <1>3. m \in Command /\ m.session \in Sessions /\ m \in Extends /\ m = p.commands[1] /\ 1 \in DOMAIN p.commands
    <2> DEFINE u == p.commands
    <2>1. u \in Seq(Command) /\ u # <<>>
      BY DEF LoopInv, Core, PlayerState
    <2> HIDE DEF u
    <2>2. Head(u) = u[1] /\ u[1] \in Command /\ 1 \in DOMAIN u
      BY <2>1, QueueHead
    <2>3. QED
      BY <2>2, CommandFields DEF u, Extends
  <1>4. s # NoSession /\ m.session = s /\ m.circuit = CurrentCircuit(p, s)
    <2>1. m.session = s /\ m.circuit = CurrentCircuit(p, s)
      BY <1>3 DEF Agrees, CommandsFollow
    <2>2. QED
      BY <2>1, <1>3, PlayerAssumption
  <1>5. tc2[id].state = "building" /\ tc2[id].session = s /\ tc2[id].circuit = CurrentCircuit(p, s)
    BY <1>4
  <1>6. p.circuits[id] = NoCircuit
    BY DEF Agrees, TableMatched
  <1>7. \A i \in DOMAIN ev : ev[i] \in Event
    BY ElementOfSeq, LenProperties
  <1>8. CurrentCircuit(q, s) = CurrentCircuit(p, s)
    BY <1>2 DEF CurrentCircuit
  <1>9. \A i \in DOMAIN ev : ev[i].type # "NEW" => ev[i].id # id /\ ev[i].id \in CircuitIDs
    <2>1. SUFFICES ASSUME NEW i \in DOMAIN ev, ev[i].type # "NEW"
                   PROVE  ev[i].id # id /\ ev[i].id \in CircuitIDs
      OBVIOUS
    <2>2. ev[i].type \in {"EXTENDED", "BUILT", "FAILED", "CLOSED"} /\ ev[i].id \in CircuitIDs
      BY <1>7, <2>1, EventFields
    <2>3. tc[ev[i].id].state # "unused"
      BY <2>2 DEF EventsFollow
    <2>4. QED
      BY <2>2, <2>3
  <1> HIDE DEF q, e, ev2, m, s, n
  <1>10. TableMatched(q, tc2)
    BY <1>2, <1>6 DEF TableMatched
  <1>11. ViewFollows(q, ev2, tc2)
    <2>1. SUFFICES ASSUME NEW i \in CircuitIDs, q.circuits[i] # NoCircuit
                   PROVE  \/ \E j \in DOMAIN ev2 : Corrects(ev2, j, i)
                          \/ tc2[i].state = "building" /\ q.heap[q.circuits[i]].status = "ASSIGNED"
                          \/ tc2[i].state = "built" /\ q.heap[q.circuits[i]].status = "BUILT"
      BY DEF ViewFollows
    <2>2. tc2[i] = tc[i]
      BY <2>1, <1>2, <1>6
    <2>3. CASE \E j \in DOMAIN ev : Corrects(ev, j, i)
      <3>1. PICK j \in DOMAIN ev : Corrects(ev, j, i)
        BY <2>3
      <3>2. j \in DOMAIN ev2 /\ ev2[j] = ev[j]
        BY <1>1
      <3>3. Corrects(ev2, j, i)
        BY <3>1, <3>2 DEF Corrects
      <3>4. QED
        BY <3>2, <3>3
    <2>4. CASE ~ \E j \in DOMAIN ev : Corrects(ev, j, i)
      <3>1. \/ tc[i].state = "building" /\ q.heap[q.circuits[i]].status = "ASSIGNED"
            \/ tc[i].state = "built" /\ q.heap[q.circuits[i]].status = "BUILT"
        BY <2>1, <2>4, <1>2 DEF ViewFollows
      <3>2. QED
        BY <3>1, <2>2
    <2>5. QED
      BY <2>3, <2>4
  <1>12. BuiltIsNews(q, ev2)
    <2>1. \A i \in DOMAIN ev2 : ev2[i].type = "BUILT" => i \in DOMAIN ev /\ ev2[i] = ev[i]
      BY <1>0, <1>1
    <2>2. QED
      BY <2>1, <1>2 DEF BuiltIsNews
  <1>13. RepliesAwaited(q, ev2, tc2)
    <2>1. SUFFICES ASSUME NEW i \in DOMAIN ev2, ev2[i].type = "EXTENDED"
                   PROVE  /\ q.sessionAwaitingAssignment # NoSession
                          /\ q.circuits[ev2[i].id] = NoCircuit
                          /\ tc2[ev2[i].id].session = q.sessionAwaitingAssignment
                          /\ tc2[ev2[i].id].circuit = CurrentCircuit(q, q.sessionAwaitingAssignment)
      BY DEF RepliesAwaited
    <2>2. CASE ev2[i] = e
      BY <2>2, <1>0, <1>2, <1>4, <1>5, <1>6, <1>8
    <2>3. CASE i \in DOMAIN ev /\ ev2[i] = ev[i]
      <3>1. tc2[ev[i].id] = tc[ev[i].id]
        BY <1>9, <2>1, <2>3
      <3>2. QED
        BY <2>1, <2>3, <3>1, <1>2 DEF RepliesAwaited
    <2>4. QED
      BY <2>2, <2>3, <1>1
  <1>14. CommandsFollow(q, tc2)
    <2>1. SUFFICES ASSUME NEW i \in DOMAIN q.commands,
                          q.commands[i].type = "ATTACHSTREAM", q.commands[i].id # 0
                   PROVE  /\ tc2[q.commands[i].id].state \in {"built", "closed"}
                          /\ tc2[q.commands[i].id].session = User[q.commands[i].stream]
      BY <1>2 DEF CommandsFollow
    <2> DEFINE a == q.commands[i]
    <2>2. a \in Command /\ a.type = "ATTACHSTREAM" /\ a.id # 0
      BY <1>2, <2>1, ElementOfSeq, LenProperties
    <2>3. tc[a.id].state \in {"built", "closed"} /\ tc[a.id].session = User[a.stream]
      BY <1>2, <2>1 DEF CommandsFollow
    <2> HIDE DEF a
    <2>4. a.id \in CircuitIDs /\ a.id # id
      BY <2>2, <2>3, CommandFields DEF IDs
    <2>5. tc2[a.id] = tc[a.id]
      BY <2>4
    <2>6. QED
      BY <2>3, <2>5 DEF a
  <1>15. OneInFlight(q, ev2, rf)
    <2>1. CountIn(ev2, Replies) = CountIn(ev, Replies) + 1 /\ CountIn(ev, Replies) \in Nat
      <3>1. CountIn(Append(ev, e), Replies) = CountIn(ev, Replies) + (IF e \in Replies THEN 1 ELSE 0)
        BY <1>0, CountAppend
      <3>2. CountIn(ev, Replies) \in Nat
        BY CountType
      <3>3. QED
        BY <1>0, <3>1, <3>2 DEF ev2
    <2>2. CountIn(p.commands, Extends) = CountIn(q.commands, Extends) + 1
      BY <1>2, <1>3
    <2>3. CountIn(p.commands, Extends) + CountIn(ev, Replies) + rf = (IF s = NoSession THEN 0 ELSE 1)
      BY DEF Agrees, OneInFlight, s
    <2>4. QED
      BY <2>1, <2>2, <2>3, <1>2 DEF OneInFlight
  <1>16. EventsFollow(ev2, tc2)
    <2>1. ASSUME NEW i \in DOMAIN ev2
          PROVE  /\ ev2[i].type = "EXTENDED" =>
                       \/ tc2[ev2[i].id].state = "building"
                       \/ tc2[ev2[i].id].state # "unused"
                            /\ \E j \in DOMAIN ev2 : i < j /\ Corrects(ev2, j, ev2[i].id)
                 /\ ev2[i].type = "BUILT" =>
                       \/ tc2[ev2[i].id].state = "built"
                       \/ tc2[ev2[i].id].state = "closed"
                            /\ \E j \in DOMAIN ev2 : i < j /\ Corrects(ev2, j, ev2[i].id)
                 /\ ev2[i].type \in {"FAILED", "CLOSED"} => tc2[ev2[i].id].state = "closed"
      <3>1. CASE ev2[i] = e
        BY <3>1, <1>0, <1>5
      <3>2. CASE i \in DOMAIN ev /\ ev2[i] = ev[i]
        <4>1. ev[i].type # "NEW" => tc2[ev[i].id] = tc[ev[i].id]
          BY <1>9, <3>2
        <4>2. \A k : (\E j \in DOMAIN ev : i < j /\ Corrects(ev, j, k)) =>
                        \E j \in DOMAIN ev2 : i < j /\ Corrects(ev2, j, k)
          BY <1>1 DEF Corrects
        <4> DEFINE f == ev[i]
        <4>3. /\ f.type = "EXTENDED" =>
                    \/ tc[f.id].state = "building"
                    \/ tc[f.id].state # "unused" /\ \E j \in DOMAIN ev : i < j /\ Corrects(ev, j, f.id)
              /\ f.type = "BUILT" =>
                    \/ tc[f.id].state = "built"
                    \/ tc[f.id].state = "closed" /\ \E j \in DOMAIN ev : i < j /\ Corrects(ev, j, f.id)
              /\ f.type \in {"FAILED", "CLOSED"} => tc[f.id].state = "closed"
          BY <3>2 DEF EventsFollow
        <4>4. ev2[i] = f /\ (f.type # "NEW" => tc2[f.id] = tc[f.id])
          BY <3>2, <4>1
        <4> HIDE DEF f
        <4>5. QED
          BY <4>2, <4>3, <4>4
      <3>3. QED
        BY <3>1, <3>2, <1>1
    <2>2. \A i, j \in DOMAIN ev2 :
             ev2[i].type = "BUILT" /\ ev2[j].type = "BUILT" /\ ev2[i].id = ev2[j].id => i = j
      BY <1>0, <1>1 DEF EventsFollow
    <2>3. QED
      BY <2>1, <2>2 DEF EventsFollow
  <1>17. Agrees(q, ev2, tc2, rf)
    BY <1>2, <1>10, <1>11, <1>12, <1>13, <1>14, <1>15 DEF Agrees
  <1>18. QED
    BY <1>16, <1>17 DEF q, ev2, e

-----------------------------------------------------------------------------
(* The invariant is inductive                                              *)

LEMMA TorInitIInv == TorInit => TorIInv
  <1>1. SUFFICES ASSUME TorInit PROVE TorIInv
    OBVIOUS
  <1>2. /\ Init /\ events = <<>>
        /\ torCircuits = [id \in CircuitIDs |->
                            [state |-> "unused", session |-> NoSession, circuit |-> NoCircuit]]
        /\ torStreams = [st \in Streams |-> [state |-> "idle", id |-> 0]]
        /\ refused = 0 /\ closed = 0 /\ detached = 0
    BY <1>1 DEF TorInit
  <1>3. IInv
    BY <1>2, InitIInv
  <1>4. /\ player.circuits = [id \in IDs |-> NoCircuit]
        /\ player.commands = <<>> /\ player.circuitsBuilding = 0
        /\ player.waitingStreamIDs = [s \in Sessions |-> <<>>]
        /\ player.sessionAwaitingAssignment = NoSession
        /\ player.heap = [c \in Circuits |->
                            IF c \in Tracked THEN NewCircuit(Trace[c].session, Trace[c].launchTime, TRUE)
                            ELSE Freed]
    BY <1>2 DEF Init
  <1>5. TorTypeOK
    <2>1. TypeOK
      BY <1>3 DEF IInv, LoopInv, Core, TypeOK
    <2>2. events \in Seq(Event)
      BY <1>2
    <2>3. torCircuits \in [CircuitIDs -> TorCircuit] /\ torStreams \in [Streams -> TorStream]
      BY <1>2 DEF TorCircuit, TorStream, IDs
    <2>4. refused \in 0..MaxRefused /\ closed \in 0..MaxClosed /\ detached \in 0..MaxDetached
      BY <1>2, PlayerTorAssumption
    <2>5. QED
      BY <2>1, <2>2, <2>3, <2>4 DEF TorTypeOK
  <1>6. EventsFollow(events, torCircuits) /\ StreamsIsolated(torStreams, torCircuits)
    BY <1>2 DEF EventsFollow, StreamsIsolated
  <1>7. \A id \in CircuitIDs : player.circuits[id] = NoCircuit
    BY <1>4 DEF IDs
  <1>8. Unbuilt(player) = {}
    <2>1. \A c \in Circuits : player.heap[c].status \in {"NONE", "FREED"}
      <3>1. \A s, t : NewCircuit(s, t, TRUE).status = "NONE"
        BY DEF NewCircuit, Freed
      <3>2. Freed.status = "FREED"
        BY DEF Freed
      <3>3. ASSUME NEW c \in Circuits, c \in Tracked PROVE player.heap[c].status = "NONE"
        <4>1. player.heap[c] = NewCircuit(Trace[c].session, Trace[c].launchTime, TRUE)
          BY <1>4, <3>3
        <4>2. QED
          BY <4>1, <3>1
      <3>4. ASSUME NEW c \in Circuits, c \notin Tracked PROVE player.heap[c].status = "FREED"
        <4>1. player.heap[c] = Freed
          BY <1>4, <3>4
        <4>2. QED
          BY <4>1, <3>2
      <3>5. QED
        BY <3>3, <3>4
    <2>2. QED
      BY <2>1 DEF Unbuilt
  <1>9. Agrees(player, events, torCircuits, refused)
    <2>1. /\ TableMatched(player, torCircuits) /\ ViewFollows(player, events, torCircuits)
          /\ BuiltIsNews(player, events) /\ RepliesAwaited(player, events, torCircuits)
      BY <1>2, <1>7 DEF TableMatched, ViewFollows, BuiltIsNews, RepliesAwaited
    <2>2. CommandsFollow(player, torCircuits) /\ StreamsAtHome(player)
      BY <1>4 DEF CommandsFollow, StreamsAtHome
    <2>3. OneInFlight(player, events, refused)
      <3>1. CountIn(player.commands, Extends) = 0 /\ CountIn(events, Replies) = 0
        BY <1>2, <1>4, CountNone
      <3>2. QED
        BY <3>1, <1>2, <1>4 DEF OneInFlight
    <2>4. BuildingBounded(player)
      BY <1>4, <1>8, FS_EmptySet DEF BuildingBounded
    <2>5. QED
      BY <2>1, <2>2, <2>3, <2>4 DEF Agrees
  <1>10. QED
    BY <1>3, <1>5, <1>6, <1>9 DEF TorIInv

\* What the steps of OnionTrace need to know.
LEMMA TorFacts ==
    ASSUME TorIInv
    PROVE  /\ now \in Nat /\ LoopInv(player) /\ player \in PlayerState /\ player.commands \in Seq(Command)
           /\ events \in Seq(Event) /\ refused \in Nat /\ refused \in 0..MaxRefused
           /\ closed \in 0..MaxClosed /\ detached \in 0..MaxDetached
           /\ torCircuits \in [CircuitIDs -> TorCircuit] /\ torStreams \in [Streams -> TorStream]
           /\ EventsFollow(events, torCircuits) /\ StreamsIsolated(torStreams, torCircuits)
           /\ Agrees(player, events, torCircuits, refused)
  <1>1. LoopInv(player) /\ player \in PlayerState /\ now \in Nat
    BY DEF TorIInv, IInv, LoopInv, Core
  <1>2. player.commands \in Seq(Command)
    BY <1>1 DEF PlayerState
  <1>3. QED
    BY <1>1, <1>2 DEF TorIInv, TorTypeOK

LEMMA TypeOKNext ==
    ASSUME TorTypeOK, IInv', events' \in Seq(Event),
           torCircuits' \in [CircuitIDs -> TorCircuit], torStreams' \in [Streams -> TorStream],
           refused' \in 0..MaxRefused, closed' \in 0..MaxClosed, detached' \in 0..MaxDetached
    PROVE  TorTypeOK'
  <1>1. TypeOK'
    BY DEF IInv, LoopInv, Core, TypeOK
  <1>2. QED
    BY <1>1 DEF TorTypeOK

\* The handlers see of Tor only what an arbitrary environment may do.
LEMMA TorImplements == TorIInv /\ [TorNext]_allVars => [Next]_vars
  <1>1. SUFFICES ASSUME TorIInv, TorNext PROVE [Next]_vars
    BY DEF allVars, vars
  <1>2. /\ now \in Nat /\ LoopInv(player) /\ events \in Seq(Event) /\ refused \in Nat
        /\ EventsFollow(events, torCircuits) /\ Agrees(player, events, torCircuits, refused)
    BY <1>1, TorFacts
  <1>3. CASE Deliver
    <2> DEFINE e == Head(events)
    <2>1. events # <<>> /\ now' = now
      BY <1>3 DEF Deliver
    <2>2. e \in Event
      BY <1>2, <2>1, TailIndex
    <2>3. CASE e.type = "NEW"
      <3>1. PICK c \in Allocations(player, User[e.stream]) :
                player' = OnStreamNew(player, now, e.stream, User[e.stream], c)
        BY <1>3, <2>3 DEF Deliver
      <3>2. e.stream \in Streams /\ User[e.stream] \in Sessions \cup {NoSession}
        BY <2>2, <2>3, EventFields, PlayerTorAssumption
      <3>3. StreamEvent
        BY <3>1, <3>2, <2>1 DEF StreamEvent
      <3>4. QED
        BY <3>3 DEF Next
    <2>4. CASE e.type # "NEW"
      <3>1. e.id \in CircuitIDs /\ e.type \in {"EXTENDED", "BUILT", "FAILED", "CLOSED"}
            /\ e = CircuitEvent(e.type, e.id)
        BY <2>2, <2>4, EventFields
      <3>2. CASE e.type = "EXTENDED"
        <4>1. player' = OnCircuitAssigned(player, now, e.id)
          BY <1>3, <3>2 DEF Deliver
        <4>2. player.circuits[e.id] = NoCircuit
          BY <1>2, <2>1, <3>1, <3>2, CircuitAssignedAgrees
        <4>3. CircuitAssigned
          BY <2>1, <3>1, <4>1, <4>2 DEF CircuitAssigned
        <4>4. QED
          BY <4>3 DEF Next
      <3>3. CASE e.type = "BUILT"
        <4>1. player' = OnCircuitBuilt(player, now, e.id)
          BY <1>3, <3>3 DEF Deliver
        <4>2. CircuitBuilt
          BY <2>1, <3>1, <4>1 DEF CircuitBuilt
        <4>3. QED
          BY <4>2 DEF Next
      <3>4. CASE e.type \in {"FAILED", "CLOSED"}
        <4>1. player' = OnCircuitGone(player, now, e.id, e.type = "FAILED")
          BY <1>3, <3>4 DEF Deliver
        <4>2. (e.type = "FAILED") \in BOOLEAN
          OBVIOUS
        <4>3. CircuitGone
          BY <2>1, <3>1, <4>1, <4>2 DEF CircuitGone
        <4>4. QED
          BY <4>3 DEF Next
      <3>5. QED
        BY <3>1, <3>2, <3>3, <3>4
    <2>5. QED
      BY <2>3, <2>4
  <1>4. CASE TimerFires
    <2>1. PlayTimer
      BY <1>4 DEF TimerFires, PlayTimer
    <2>2. QED
      BY <2>1 DEF Next
  <1>5. CASE TimePasses
    <2>1. Tick
      BY <1>5 DEF TimePasses, Tick
    <2>2. QED
      BY <2>1 DEF Next
  <1>6. CASE TorExtends \/ TorRefuses \/ TorAttaches
    <2>1. CommandSent
      BY <1>6 DEF TorExtends, TorRefuses, TorAttaches, Takes, CommandSent
    <2>2. QED
      BY <2>1 DEF Next
  <1>7. CASE \E id \in CircuitIDs : TorBuilds(id) \/ TorCloses(id)
    BY <1>7 DEF TorBuilds, TorCloses, vars
  <1>8. CASE \E st \in Streams : ClientConnects(st) \/ TorDetaches(st) \/ StreamEnds(st)
    BY <1>8 DEF ClientConnects, TorDetaches, StreamEnds, vars
  <1>9. QED
    BY <1>1, <1>3, <1>4, <1>5, <1>6, <1>7, <1>8 DEF TorNext

LEMMA DeliverInv ==
    ASSUME TorIInv, Deliver
    PROVE  /\ EventsFollow(events, torCircuits)' /\ StreamsIsolated(torStreams, torCircuits)'
           /\ Agrees(player, events, torCircuits, refused)'
           /\ events' \in Seq(Event) /\ UNCHANGED <<torCircuits, torStreams, refused, closed, detached>>
  <1> DEFINE e == Head(events)
             ev2 == Tail(events)
             p == player
             tc == torCircuits
  <1>1. /\ now \in Nat /\ LoopInv(p) /\ events \in Seq(Event) /\ refused \in Nat
        /\ EventsFollow(events, tc) /\ StreamsIsolated(torStreams, tc)
        /\ Agrees(p, events, tc, refused)
    BY TorFacts
  <1>2. /\ events # <<>> /\ events' = ev2
        /\ UNCHANGED <<now, torCircuits, torStreams, refused, closed, detached>>
    BY DEF Deliver
  <1>3. e \in Event /\ ev2 \in Seq(Event)
    BY <1>1, <1>2, TailIndex
  <1>4. EventsFollow(ev2, tc)
    BY <1>1, <1>2, EventsTail
  <1>5. Agrees(player', ev2, tc, refused)
    <2>1. CASE e.type = "NEW"
      <3>1. PICK c \in Allocations(p, User[e.stream]) :
                player' = OnStreamNew(p, now, e.stream, User[e.stream], c)
        BY <2>1 DEF Deliver
      <3>2. e.stream \in Streams
        BY <1>3, <2>1, EventFields
      <3>3. Agrees(p, ev2, tc, refused)
        BY <1>1, <1>2, <2>1, TailAgrees
      <3> HIDE DEF ev2, e, p, tc
      <3>4. Agrees(OnStreamNew(p, now, e.stream, User[e.stream], c), ev2, tc, refused)
        BY <1>1, <1>3, <3>1, <3>2, <3>3, StreamNewAgrees
      <3>5. QED
        BY <3>1, <3>4
    <2>2. CASE e.type # "NEW"
      <3>1. e.id \in CircuitIDs /\ e.type \in {"EXTENDED", "BUILT", "FAILED", "CLOSED"}
            /\ e = CircuitEvent(e.type, e.id)
        BY <1>3, <2>2, EventFields
      <3>2. CASE e.type = "EXTENDED"
        <4>1. player' = OnCircuitAssigned(p, now, e.id)
          BY <3>2 DEF Deliver
        <4>2. QED
          BY <1>1, <1>2, <3>1, <3>2, <4>1, CircuitAssignedAgrees
      <3>3. CASE e.type = "BUILT"
        <4>1. player' = OnCircuitBuilt(p, now, e.id)
          BY <3>3 DEF Deliver
        <4>2. QED
          BY <1>1, <1>2, <3>1, <3>3, <4>1, CircuitBuiltAgrees
      <3>4. CASE e.type \in {"FAILED", "CLOSED"}
        <4> DEFINE failed == (e.type = "FAILED")
        <4>1. player' = OnCircuitGone(p, now, e.id, failed)
          BY <3>4 DEF Deliver
        <4>2. failed \in BOOLEAN /\ e = CircuitEvent(IF failed THEN "FAILED" ELSE "CLOSED", e.id)
          BY <3>1, <3>4
        <4> HIDE DEF failed
        <4>3. Agrees(OnCircuitGone(p, now, e.id, failed), ev2, tc, refused)
          BY <1>1, <1>2, <3>1, <4>2, CircuitGoneAgrees
        <4>4. QED
          BY <4>1, <4>3
      <3>5. QED
        BY <3>1, <3>2, <3>3, <3>4
    <2>3. QED
      BY <2>1, <2>2
  <1>6. QED
    BY <1>1, <1>2, <1>3, <1>4, <1>5

LEMMA TorExtendsInv ==
    ASSUME TorIInv, TorExtends
    PROVE  /\ EventsFollow(events, torCircuits)' /\ StreamsIsolated(torStreams, torCircuits)'
           /\ Agrees(player, events, torCircuits, refused)'
           /\ events' \in Seq(Event) /\ torCircuits' \in [CircuitIDs -> TorCircuit]
           /\ UNCHANGED <<torStreams, refused, closed, detached>>
  <1> DEFINE p == player
             m == Head(player.commands)
             tc == torCircuits
  <1>1. /\ LoopInv(p) /\ p.commands \in Seq(Command) /\ events \in Seq(Event) /\ refused \in Nat
        /\ EventsFollow(events, tc) /\ StreamsIsolated(torStreams, tc)
        /\ Agrees(p, events, tc, refused) /\ tc \in [CircuitIDs -> TorCircuit]
        /\ torStreams \in [Streams -> TorStream]
    BY TorFacts
  <1>2. /\ p.commands # <<>> /\ m.type = "EXTENDCIRCUIT" /\ player' = [player EXCEPT !.commands = Tail(@)]
        /\ UNCHANGED <<torStreams, refused, closed, detached>>
    BY DEF TorExtends, Takes
  <1>3. PICK id \in CircuitIDs :
          /\ \A other \in CircuitIDs : tc[other].state = "unused" <=> other >= id
          /\ torCircuits' = [tc EXCEPT ![id] =
                [state |-> "building", session |-> m.session, circuit |-> m.circuit]]
          /\ events' = Append(events, CircuitEvent("EXTENDED", id))
    BY DEF TorExtends
  <1>4. tc[id].state = "unused"
    <2>1. id >= id
      BY PlayerAssumption
    <2>2. QED
      BY <2>1, <1>3
  <1>5. m.session \in Sessions /\ m.circuit \in Circuits
    <2>1. m \in Command
      BY <1>1, <1>2, QueueHead
    <2>2. QED
      BY <2>1, <1>2, CommandFields
  <1> DEFINE tc2 == torCircuits'
             ev2 == events'
  <1>6. /\ tc2 \in [CircuitIDs -> TorCircuit]
        /\ tc2[id] = [state |-> "building", session |-> m.session, circuit |-> m.circuit]
        /\ \A i \in CircuitIDs : i # id => tc2[i] = tc[i]
    BY <1>1, <1>3, <1>5 DEF TorCircuit
  <1>7. Agrees(player', events', tc2, refused) /\ EventsFollow(events', tc2)
    <2> HIDE DEF tc2, tc
    <2>1. /\ Agrees([p EXCEPT !.commands = Tail(@)], Append(events, CircuitEvent("EXTENDED", id)), tc2, refused)
          /\ EventsFollow(Append(events, CircuitEvent("EXTENDED", id)), tc2)
      BY <1>1, <1>2, <1>4, <1>6, ExtendsAgrees
    <2>2. QED
      BY <2>1, <1>2, <1>3
  <1>8. events' \in Seq(Event)
    <2>1. CircuitEvent("EXTENDED", id) \in Event
      BY DEF CircuitEvent, Event
    <2>2. QED
      BY <2>1, <1>1, <1>3
  <1>9. StreamsIsolated(torStreams, tc2)
    <2>1. \A st \in Streams : torStreams[st].id # 0 => torStreams[st].id \in CircuitIDs
      BY <1>1 DEF TorStream, IDs
    <2>2. QED
      BY <1>1, <1>4, <1>6, <2>1 DEF StreamsIsolated
  <1>10. QED
    BY <1>2, <1>6, <1>7, <1>8, <1>9

LEMMA TorRefusesInv ==
    ASSUME TorIInv, TorRefuses
    PROVE  /\ EventsFollow(events, torCircuits)' /\ StreamsIsolated(torStreams, torCircuits)'
           /\ Agrees(player, events, torCircuits, refused)'
           /\ refused' \in 0..MaxRefused
           /\ UNCHANGED <<events, torCircuits, torStreams, closed, detached>>
  <1> DEFINE p == player
             m == Head(player.commands)
             q == [p EXCEPT !.commands = Tail(@)]
  <1>1. /\ LoopInv(p) /\ p.commands \in Seq(Command) /\ events \in Seq(Event)
        /\ refused \in Nat /\ refused \in 0..MaxRefused
        /\ EventsFollow(events, torCircuits) /\ StreamsIsolated(torStreams, torCircuits)
        /\ Agrees(p, events, torCircuits, refused)
    BY TorFacts
  <1>2. /\ p.commands # <<>> /\ m.type = "EXTENDCIRCUIT" /\ player' = q
        /\ refused < MaxRefused /\ refused' = refused + 1
        /\ UNCHANGED <<events, torCircuits, torStreams, closed, detached>>
    BY DEF TorRefuses, Takes
  <1>3. m \in Extends
    <2>1. m \in Command
      BY <1>1, <1>2, QueueHead
    <2>2. QED
      BY <2>1, <1>2 DEF Extends
  <1>4. /\ TableMatched(q, torCircuits) /\ ViewFollows(q, events, torCircuits) /\ BuiltIsNews(q, events)
        /\ RepliesAwaited(q, events, torCircuits) /\ CommandsFollow(q, torCircuits)
        /\ StreamsAtHome(q) /\ BuildingBounded(q)
        /\ q.sessionAwaitingAssignment = p.sessionAwaitingAssignment
        /\ CountIn(q.commands, Extends) \in Nat
        /\ CountIn(p.commands, Extends) = CountIn(q.commands, Extends) + (IF m \in Extends THEN 1 ELSE 0)
    BY <1>1, <1>2, TakenAgrees
  <1>5. OneInFlight(q, events, refused + 1)
    <2>1. CountIn(events, Replies) \in Nat
      BY <1>1, CountType
    <2>2. OneInFlight(p, events, refused)
      BY <1>1 DEF Agrees
    <2> HIDE DEF q, p
    <2>3. QED
      BY <1>1, <1>3, <1>4, <2>1, <2>2 DEF OneInFlight
  <1>6. Agrees(q, events, torCircuits, refused + 1)
    BY <1>4, <1>5 DEF Agrees
  <1>7. refused + 1 \in 0..MaxRefused
    BY <1>1, <1>2, PlayerTorAssumption
  <1>8. QED
    BY <1>1, <1>2, <1>6, <1>7

LEMMA TorAttachesInv ==
    ASSUME TorIInv, TorAttaches
    PROVE  /\ EventsFollow(events, torCircuits)' /\ StreamsIsolated(torStreams, torCircuits)'
           /\ Agrees(player, events, torCircuits, refused)'
           /\ torStreams' \in [Streams -> TorStream]
           /\ UNCHANGED <<events, torCircuits, refused, closed, detached>>
  <1> DEFINE p == player
             m == Head(player.commands)
             q == [p EXCEPT !.commands = Tail(@)]
  <1>1. /\ LoopInv(p) /\ p.commands \in Seq(Command) /\ events \in Seq(Event) /\ refused \in Nat
        /\ EventsFollow(events, torCircuits) /\ StreamsIsolated(torStreams, torCircuits)
        /\ Agrees(p, events, torCircuits, refused) /\ torStreams \in [Streams -> TorStream]
    BY TorFacts
  <1>2. /\ p.commands # <<>> /\ m.type = "ATTACHSTREAM" /\ player' = q
        /\ \/ torStreams' = torStreams
           \/ torStreams' = [torStreams EXCEPT ![m.stream] = [state |-> "attached", id |-> m.id]]
        /\ UNCHANGED <<events, torCircuits, refused, closed, detached>>
    BY DEF TorAttaches, Takes
  <1>3. m \in Command /\ m = p.commands[1] /\ 1 \in DOMAIN p.commands /\ m \notin Extends
        /\ m.stream \in Streams /\ m.id \in IDs
    <2> DEFINE u == p.commands
    <2> HIDE DEF u
    <2>1. Head(u) = u[1] /\ u[1] \in Command /\ 1 \in DOMAIN u
      BY <1>1, <1>2, QueueHead DEF u
    <2>2. m \in Command /\ m = p.commands[1] /\ 1 \in DOMAIN p.commands
      BY <2>1 DEF u
    <2>3. QED
      BY <2>2, <1>2, CommandFields DEF Extends
  <1>4. m.id # 0 => /\ torCircuits[m.id].state \in {"built", "closed"}
                    /\ torCircuits[m.id].session = User[m.stream]
    BY <1>1, <1>2, <1>3 DEF Agrees, CommandsFollow
  <1>5. /\ TableMatched(q, torCircuits) /\ ViewFollows(q, events, torCircuits) /\ BuiltIsNews(q, events)
        /\ RepliesAwaited(q, events, torCircuits) /\ CommandsFollow(q, torCircuits)
        /\ StreamsAtHome(q) /\ BuildingBounded(q)
        /\ q.sessionAwaitingAssignment = p.sessionAwaitingAssignment
        /\ CountIn(q.commands, Extends) \in Nat
        /\ CountIn(p.commands, Extends) = CountIn(q.commands, Extends) + (IF m \in Extends THEN 1 ELSE 0)
    BY <1>1, <1>2, TakenAgrees
  <1>6. OneInFlight(q, events, refused)
    <2>1. CountIn(p.commands, Extends) = CountIn(q.commands, Extends)
      BY <1>3, <1>5
    <2>2. QED
      BY <2>1, <1>1, <1>5 DEF Agrees, OneInFlight
  <1>7. Agrees(q, events, torCircuits, refused)
    BY <1>5, <1>6 DEF Agrees
  <1>8. torStreams' \in [Streams -> TorStream]
    BY <1>1, <1>2, <1>3 DEF TorStream
  <1>9. StreamsIsolated(torStreams', torCircuits)
    <2>1. CASE torStreams' = torStreams
      BY <1>1, <2>1
    <2>2. CASE torStreams' = [torStreams EXCEPT ![m.stream] = [state |-> "attached", id |-> m.id]]
      <3> HIDE DEF m
      <3>1. \A st \in Streams : torStreams'[st].id = IF st = m.stream THEN m.id ELSE torStreams[st].id
        BY <1>1, <2>2
      <3>2. QED
        BY <3>1, <1>1, <1>4 DEF StreamsIsolated
    <2>3. QED
      BY <1>2, <2>1, <2>2
  <1>10. QED
    BY <1>1, <1>2, <1>7, <1>8, <1>9

\* An event that tells of a circuit, or of a stream, leaves Tor.
LEMMA TellsInv ==
    ASSUME TorIInv, UNCHANGED <<player, now, refused>>, NEW e \in Event,
           events' = Append(events, e), Tells(e, torCircuits, torCircuits'),
           \A st \in Streams : torStreams'[st].id \in {torStreams[st].id, 0}
    PROVE  /\ EventsFollow(events, torCircuits)' /\ StreamsIsolated(torStreams, torCircuits)'
           /\ Agrees(player, events, torCircuits, refused)'
           /\ events' \in Seq(Event)
  <1>1. /\ LoopInv(player) /\ events \in Seq(Event) /\ torStreams \in [Streams -> TorStream]
        /\ EventsFollow(events, torCircuits) /\ StreamsIsolated(torStreams, torCircuits)
        /\ Agrees(player, events, torCircuits, refused)
    BY TorFacts
  <1> DEFINE tc2 == torCircuits'
  <1> HIDE DEF tc2
  <1>2. Tells(e, torCircuits, tc2)
    BY DEF tc2
  <1>3. Agrees(player, Append(events, e), tc2, refused) /\ EventsFollow(Append(events, e), tc2)
    BY <1>1, <1>2, NewsAgrees, NewsFollow
  <1>4. StreamsIsolated(torStreams', tc2)
    <2>1. \A st \in Streams : torStreams[st].id # 0 => torStreams[st].id \in CircuitIDs
      BY <1>1 DEF TorStream, IDs
    <2>2. QED
      BY <1>1, <1>2, <2>1 DEF StreamsIsolated, Tells
  <1>5. QED
    BY <1>1, <1>3, <1>4 DEF tc2

LEMMA CircuitChangesInv ==
    ASSUME TorIInv, NEW id \in CircuitIDs, TorBuilds(id) \/ TorCloses(id)
    PROVE  /\ EventsFollow(events, torCircuits)' /\ StreamsIsolated(torStreams, torCircuits)'
           /\ Agrees(player, events, torCircuits, refused)'
           /\ events' \in Seq(Event) /\ torCircuits' \in [CircuitIDs -> TorCircuit]
           /\ closed' \in 0..MaxClosed
           /\ UNCHANGED <<torStreams, refused, detached>>
  <1> DEFINE tc == torCircuits
             to == torCircuits'[id].state
             type == IF to = "built" THEN "BUILT" ELSE IF tc[id].state = "building" THEN "FAILED" ELSE "CLOSED"
             e == CircuitEvent(type, id)
  <1>1. tc \in [CircuitIDs -> TorCircuit] /\ closed \in 0..MaxClosed
    BY TorFacts
  <1>2. /\ UNCHANGED <<player, now, torStreams, refused, detached>>
        /\ closed' \in 0..MaxClosed
        /\ events' = Append(events, e)
        /\ \/ /\ tc[id].state = "building" /\ to = "built"
              /\ torCircuits' = [tc EXCEPT ![id].state = "built"]
           \/ /\ tc[id].state \in {"building", "built"} /\ to = "closed"
              /\ torCircuits' = [tc EXCEPT ![id].state = "closed"]
    <2>1. CASE TorBuilds(id)
      BY <2>1, <1>1 DEF TorBuilds, vars, TorCircuit
    <2>2. CASE TorCloses(id)
      <3>1. closed' \in 0..MaxClosed
        BY <2>2, <1>1, PlayerTorAssumption DEF TorCloses
      <3>2. QED
        BY <2>2, <3>1, <1>1 DEF TorCloses, vars, TorCircuit
    <2>3. QED
      BY <2>1, <2>2
  <1>3. e \in Event /\ e.type = type /\ e.id = id
    BY DEF CircuitEvent, Event
  <1>4. torCircuits' \in [CircuitIDs -> TorCircuit]
    BY <1>1, <1>2, SMTT(30) DEF TorCircuit
  <1>5. /\ \A i \in CircuitIDs : i # id => torCircuits'[i] = tc[i]
        /\ torCircuits'[id].session = tc[id].session /\ torCircuits'[id].circuit = tc[id].circuit
    BY <1>1, <1>2 DEF TorCircuit
  <1>6. Tells(e, tc, torCircuits')
    <2> HIDE DEF e
    <2>1. /\ e.type # "EXTENDED"
          /\ e.type = "BUILT" => tc[id].state = "building" /\ to = "built"
          /\ e.type \in {"FAILED", "CLOSED"} => to = "closed"
          /\ e.type \in {"BUILT", "FAILED", "CLOSED"}
          /\ tc[id].state # "unused" /\ to \in {"built", "closed"}
      BY <1>2, <1>3
    <2>2. QED
      BY <2>1, <1>3, <1>5 DEF Tells
  <1> HIDE DEF e
  <1>7. QED
    BY <1>2, <1>3, <1>4, <1>6, TellsInv

LEMMA StreamChangesInv ==
    ASSUME TorIInv, NEW st \in Streams, ClientConnects(st) \/ TorDetaches(st) \/ StreamEnds(st)
    PROVE  /\ EventsFollow(events, torCircuits)' /\ StreamsIsolated(torStreams, torCircuits)'
           /\ Agrees(player, events, torCircuits, refused)'
           /\ events' \in Seq(Event) /\ torStreams' \in [Streams -> TorStream]
           /\ detached' \in 0..MaxDetached
           /\ UNCHANGED <<torCircuits, refused, closed>>
  <1>1. /\ torStreams \in [Streams -> TorStream] /\ detached \in 0..MaxDetached
        /\ events \in Seq(Event)
        /\ EventsFollow(events, torCircuits) /\ StreamsIsolated(torStreams, torCircuits)
        /\ Agrees(player, events, torCircuits, refused)
    BY TorFacts
  <1>2. UNCHANGED <<player, now, torCircuits, refused, closed>>
    BY DEF ClientConnects, TorDetaches, StreamEnds, vars
  <1>3. torStreams' \in [Streams -> TorStream]
        /\ \A x \in Streams : torStreams'[x].id \in {torStreams[x].id, 0}
    BY <1>1 DEF ClientConnects, TorDetaches, StreamEnds, TorStream, IDs
  <1>4. detached' \in 0..MaxDetached
    BY <1>1, PlayerTorAssumption DEF ClientConnects, TorDetaches, StreamEnds
  <1>5. CASE events' = events
    <2>1. StreamsIsolated(torStreams', torCircuits)
      BY <1>1, <1>3 DEF StreamsIsolated
    <2>2. QED
      BY <1>1, <1>2, <1>3, <1>4, <1>5, <2>1
  <1>6. CASE events' = Append(events, StreamNew(st))
    <2>1. StreamNew(st) \in Event /\ StreamNew(st).type = "NEW"
      BY DEF StreamNew, Event
    <2>2. Tells(StreamNew(st), torCircuits, torCircuits')
      BY <2>1, <1>2 DEF Tells
    <2>3. QED
      BY <1>2, <1>3, <1>4, <1>6, <2>1, <2>2, TellsInv
  <1>7. QED
    BY <1>5, <1>6 DEF ClientConnects, TorDetaches, StreamEnds

LEMMA TorNextIInv == TorIInv /\ [TorNext]_allVars => TorIInv'
  <1>1. SUFFICES ASSUME TorIInv, [TorNext]_allVars PROVE TorIInv'
    OBVIOUS
  <1>2. IInv'
    <2>1. IInv
      BY <1>1 DEF TorIInv
    <2>2. [Next]_vars
      BY <1>1, TorImplements
    <2>3. QED
      BY <2>1, <2>2, NextIInv
  <1>3. /\ now \in Nat /\ LoopInv(player) /\ TorTypeOK
        /\ events \in Seq(Event) /\ refused \in Nat /\ refused \in 0..MaxRefused
        /\ closed \in 0..MaxClosed /\ detached \in 0..MaxDetached
        /\ torCircuits \in [CircuitIDs -> TorCircuit] /\ torStreams \in [Streams -> TorStream]
        /\ EventsFollow(events, torCircuits) /\ StreamsIsolated(torStreams, torCircuits)
        /\ Agrees(player, events, torCircuits, refused)
    BY <1>1, TorFacts DEF TorIInv
  <1>4. SUFFICES /\ EventsFollow(events, torCircuits)' /\ StreamsIsolated(torStreams, torCircuits)'
                 /\ Agrees(player, events, torCircuits, refused)'
                 /\ events' \in Seq(Event)
                 /\ torCircuits' \in [CircuitIDs -> TorCircuit] /\ torStreams' \in [Streams -> TorStream]
                 /\ refused' \in 0..MaxRefused /\ closed' \in 0..MaxClosed /\ detached' \in 0..MaxDetached
    BY <1>2, <1>3, TypeOKNext DEF TorIInv
  <1>5. CASE Deliver
    <2>1. /\ EventsFollow(events, torCircuits)' /\ StreamsIsolated(torStreams, torCircuits)'
          /\ Agrees(player, events, torCircuits, refused)'
          /\ events' \in Seq(Event) /\ UNCHANGED <<torCircuits, torStreams, refused, closed, detached>>
      BY <1>1, <1>5, DeliverInv
    <2>2. QED
      BY <2>1, <1>3
  <1>6. CASE TimerFires
    <2>1. PICK n \in LaunchesDue(player, now) : player' = LaunchNextCircuit(player, now, n)
      BY <1>6 DEF TimerFires
    <2>2. UNCHANGED <<events, torCircuits, torStreams, refused, closed, detached>>
      BY <1>6 DEF TimerFires, torVars
    <2>3. Agrees(LaunchNextCircuit(player, now, n), events, torCircuits, refused)
      BY <1>3, LaunchNextAgrees
    <2>4. QED
      BY <2>1, <2>2, <2>3, <1>3
  <1>7. CASE TimePasses \/ UNCHANGED allVars
    <2>1. UNCHANGED <<player, events, torCircuits, torStreams, refused, closed, detached>>
      BY <1>7 DEF TimePasses, torVars, allVars
    <2>2. QED
      BY <2>1, <1>3
  <1>8. CASE TorExtends
    BY <1>1, <1>3, <1>8, TorExtendsInv
  <1>9. CASE TorRefuses
    BY <1>1, <1>3, <1>9, TorRefusesInv
  <1>10. CASE TorAttaches
    BY <1>1, <1>3, <1>10, TorAttachesInv
  <1>11. CASE \E id \in CircuitIDs : TorBuilds(id) \/ TorCloses(id)
    BY <1>1, <1>3, <1>11, CircuitChangesInv
  <1>12. CASE \E st \in Streams : ClientConnects(st) \/ TorDetaches(st) \/ StreamEnds(st)
    BY <1>1, <1>3, <1>12, StreamChangesInv
  <1>13. QED
    BY <1>1, <1>5, <1>6, <1>7, <1>8, <1>9, <1>10, <1>11, <1>12 DEF TorNext

LEMMA TorInductive == Spec => []TorIInv
  BY TorInitIInv, TorNextIInv, PTL DEF Spec

-----------------------------------------------------------------------------
(* What the Player and Tor achieve together                                *)

\* Whatever Tor does, what it sent and what the Player holds keep their types.
THEOREM TorTypeCorrect == Spec => []TorTypeOK
  <1>1. TorIInv => TorTypeOK
    BY DEF TorIInv
  <1>2. QED
    BY <1>1, TorInductive, PTL

\* A stream is never on a circuit that was built for another session.
THEOREM SessionsIsolated == Spec => []SessionIsolation
  <1>1. TorIInv => SessionIsolation
    BY DEF TorIInv, StreamsIsolated, SessionIsolation
  <1>2. QED
    BY <1>1, TorInductive, PTL

\* Each id that Tor assigns is filed under the circuit and the session that it
\* was assigned for, although the reply names neither.
THEOREM RepliesMatch == Spec => []RepliesMatched
  <1>1. ASSUME TorIInv PROVE RepliesMatched
    <2>1. /\ player.commands \in Seq(Command) /\ events \in Seq(Event)
          /\ Agrees(player, events, torCircuits, refused)
      BY <1>1, TorFacts
    <2>2. CountOf(player.commands, LAMBDA m : m.type = "EXTENDCIRCUIT") = CountIn(player.commands, Extends)
      <3>1. \A i \in DOMAIN player.commands :
               player.commands[i].type = "EXTENDCIRCUIT" <=> player.commands[i] \in Extends
        <4>1. \A i \in DOMAIN player.commands : player.commands[i] \in Command
          BY <2>1, ElementOfSeq, LenProperties
        <4>2. QED
          BY <4>1 DEF Extends
      <3>2. QED
        BY <3>1 DEF CountOf, CountIn
    <2>3. CountOf(events, LAMBDA e : e.type = "EXTENDED") = CountIn(events, Replies)
      <3>1. \A i \in DOMAIN events : events[i].type = "EXTENDED" <=> events[i] \in Replies
        <4>1. \A i \in DOMAIN events : events[i] \in Event
          BY <2>1, ElementOfSeq, LenProperties
        <4>2. QED
          BY <4>1 DEF Replies
      <3>2. QED
        BY <3>1 DEF CountOf, CountIn
    <2>4. OneExtendInFlight
      BY <2>1, <2>2, <2>3 DEF Agrees, OneInFlight, OneExtendInFlight
    <2>5. QED
      BY <2>1, <2>4 DEF Agrees, TableMatched, RepliesMatched
  <1>2. QED
    BY <1>1, TorInductive, PTL

\* The Player never misses that a circuit was built, failed or closed.
THEOREM ViewKeepsUp == Spec => []ViewCatchesUp
  <1>1. TorIInv => ViewCatchesUp
    BY DEF TorIInv, Agrees, ViewFollows, Corrects, ViewCatchesUp
  <1>2. QED
    BY <1>1, TorInductive, PTL

\* No stream is attached to a circuit that Tor has not built yet.
THEOREM AttachedToBuilt == Spec => []AttachOnlyToBuilt
  <1>1. TorIInv => AttachOnlyToBuilt
    BY DEF TorIInv, Agrees, CommandsFollow, AttachOnlyToBuilt
  <1>2. QED
    BY <1>1, TorInductive, PTL

\* The count of circuits under construction is never too low.
THEOREM BuildingNeverTooLow == Spec => []BuildingCounted
  <1>1. TorIInv => BuildingCounted
    BY DEF TorIInv, Agrees, BuildingBounded, Unbuilt, BuildingCounted
  <1>2. QED
    BY <1>1, TorInductive, PTL

\* Every behaviour of the Player with Tor is one of the Player alone: what is
\* proved of it in an arbitrary environment holds with this one.
THEOREM Refinement == Spec => ImplementsPlayer
  <1>1. TorInit => Init
    BY DEF TorInit
  <1>2. TorIInv /\ [TorNext]_allVars => [Next]_vars
    BY TorImplements
  <1>3. QED
    BY <1>1, <1>2, TorInductive, PTL DEF Spec, ImplementsPlayer, PlayerSpec

-----------------------------------------------------------------------------
(* Streams: where one is between its event and its attachment              *)

\* A stream waits in the queue of its own session alone.
CountQueued(p, st) == IF User[st] = NoSession THEN 0 ELSE CountIn(p.waitingStreamIDs[User[st]], {st})

\* How often stream st is in the Player's hands.
Holds(p, st) == CountQueued(p, st) + CountIn(p.commands, AttachmentsOf(st))

\* Where stream st is on its way from its event to its attachment.
PlacesIn(p, ev, st) == CountIn(ev, {StreamNew(st)}) + Holds(p, st)

OnePlace(p, ev, ts, cl) ==
    \A st \in Streams :
        /\ PlacesIn(p, ev, st) <= 1
        /\ ts[st].state \in {"idle", "attached"} => PlacesIn(p, ev, st) = 0
        /\ ts[st].state = "waiting" /\ cl = 0 => PlacesIn(p, ev, st) = 1

PlaceIInv ==
    /\ TorIInv
    /\ OnePlace(player, events, torStreams, closed)
    /\ (\E id \in CircuitIDs : torCircuits[id].state = "closed") => closed > 0

\* An operation that neither takes a stream in nor lets one go.
KeepsHold(p, q) == StreamsAtHome(q) /\ \A st \in Streams : Holds(q, st) = Holds(p, st)

LEMMA HoldsType ==
    ASSUME NEW p, p \in PlayerState, NEW st \in Streams
    PROVE  /\ Holds(p, st) \in Nat /\ CountQueued(p, st) \in Nat
           /\ CountIn(p.commands, AttachmentsOf(st)) \in Nat
  <1>1. CountIn(p.commands, AttachmentsOf(st)) \in Nat
    <2>1. p.commands \in Seq(Command)
      BY DEF PlayerState
    <2>2. QED
      BY <2>1, CountType
  <1>2. CountQueued(p, st) \in Nat
    <2>1. CASE User[st] = NoSession
      BY <2>1 DEF CountQueued
    <2>2. CASE User[st] # NoSession
      <3>1. p.waitingStreamIDs[User[st]] \in Seq(Streams \cup {Preemptive})
        BY <2>2, PlayerTorAssumption DEF PlayerState
      <3>2. CountIn(p.waitingStreamIDs[User[st]], {st}) \in Nat
        BY <3>1, CountType
      <3>3. QED
        BY <3>2, <2>2 DEF CountQueued
    <2>3. QED
      BY <2>1, <2>2
  <1>3. QED
    BY <1>1, <1>2 DEF Holds

LEMMA QueuedIsCounted ==
    ASSUME NEW p, p \in PlayerState, StreamsAtHome(p), NEW st \in Streams
    PROVE  Cardinality(QueuedAt(p, st)) = CountQueued(p, st)
  <1> DEFINE At(s) == {i \in DOMAIN p.waitingStreamIDs[s] : p.waitingStreamIDs[s][i] = st}
             u == User[st]
  <1>1. st >= 0
    BY PlayerAssumption
  <1>2. \A s \in Sessions : s # u => At(s) = {}
    BY <1>1 DEF StreamsAtHome
  <1>3. QueuedAt(p, st) = UNION {{s} \X At(s) : s \in Sessions}
    BY DEF QueuedAt
  <1>4. \A z : z \in QueuedAt(p, st) <=> \E s \in Sessions : z \in {s} \X At(s)
    BY <1>3
  <1> HIDE DEF At
  <1>5. CASE u = NoSession
    <2>1. \A s \in Sessions : At(s) = {}
      BY <1>2, <1>5, PlayerAssumption
    <2>2. QueuedAt(p, st) = {}
      BY <1>4, <2>1
    <2>3. QED
      BY <1>5, <2>2, FS_EmptySet DEF CountQueued
  <1>6. CASE u # NoSession
    <2>1. u \in Sessions
      BY <1>6, PlayerTorAssumption
    <2>2. QueuedAt(p, st) = {u} \X At(u)
      BY <1>2, <1>4, <2>1
    <2>3. IsFiniteSet(At(u)) /\ CountQueued(p, st) = Cardinality(At(u))
      <3> DEFINE w == p.waitingStreamIDs[u]
      <3>1. w \in Seq(Streams \cup {Preemptive})
        BY <2>1 DEF PlayerState
      <3>2. At(u) = {i \in DOMAIN w : w[i] \in {st}}
        BY DEF At
      <3>3. CountQueued(p, st) = CountIn(w, {st})
        BY <1>6 DEF CountQueued
      <3> HIDE DEF w, u
      <3>4. IsFiniteSet({i \in DOMAIN w : w[i] \in {st}})
        BY <3>1, CountType
      <3>5. QED
        BY <3>2, <3>3, <3>4 DEF CountIn
    <2> DEFINE A == At(u)
               S == {u}
    <2>4. IsFiniteSet(S) /\ Cardinality(S) = 1 /\ IsFiniteSet(A)
      BY <2>3, FS_Singleton
    <2> HIDE DEF A, S
    <2>5. Cardinality(S \X A) = Cardinality(S) * Cardinality(A) /\ Cardinality(A) \in Nat
      BY <2>4, FS_Product, FS_CardinalityType
    <2>6. Cardinality(S \X A) = Cardinality(A)
      BY <2>4, <2>5
    <2>7. QED
      BY <2>2, <2>3, <2>6 DEF A, S
  <1>7. QED
    BY <1>5, <1>6

LEMMA CountStreamsIn ==
    ASSUME NEW w \in Seq(Streams \cup {Preemptive}), NEW st \in Streams
    PROVE  CountIn(StreamsIn(w), {st}) = CountIn(w, {st})
  <1> DEFINE n == Len(w)
             upTo(k) == {i \in 1..k : w[i] \in {st}}
  <1>1. PICK real : Collects(w, real) /\ StreamsIn(w) = real[n]
    BY StreamsInCollects
  <1>2. n \in Nat /\ CountIn(w, {st}) = Cardinality(upTo(n)) /\ st >= 0
    <2>1. n \in Nat /\ DOMAIN w = 1..n
      BY LenProperties
    <2>2. CountIn(w, {st}) = Cardinality(upTo(n))
      BY <2>1 DEF CountIn
    <2>3. st >= 0
      BY PlayerAssumption
    <2>4. QED
      BY <2>1, <2>2, <2>3
  <1> DEFINE S == {k \in Nat : k <= n => IsFiniteSet(upTo(k)) /\ Cardinality(upTo(k)) = CountIn(real[k], {st})}
  <1> HIDE DEF n
  <1>3. real \in [0..n -> Seq(Streams)] /\ real[0] = <<>>
    BY <1>1 DEF Collects, n
  <1>4. 0 \in S
    <2>1. upTo(0) = {} /\ CountIn(real[0], {st}) = 0
      BY <1>3, CountNone
    <2>2. QED
      BY <2>1, FS_EmptySet
  <1>5. ASSUME NEW k \in S PROVE k + 1 \in S
    <2>1. SUFFICES ASSUME k + 1 <= n
                   PROVE  IsFiniteSet(upTo(k + 1)) /\ Cardinality(upTo(k + 1)) = CountIn(real[k + 1], {st})
      BY <1>5
    <2>2. /\ k \in Nat /\ k + 1 \in 1..n /\ (k + 1) - 1 = k /\ k \in 0..n
          /\ IsFiniteSet(upTo(k)) /\ Cardinality(upTo(k)) = CountIn(real[k], {st})
      BY <1>2, <2>1, <1>5
    <2>3. real[k + 1] = (IF w[k + 1] >= 0 THEN Append(real[k], w[k + 1]) ELSE real[k])
      BY <1>1, <2>2 DEF Collects, n
    <2>4. CASE w[k + 1] >= 0
      <3>1. w[k + 1] \in Streams
        <4>1. w[k + 1] \in Streams \cup {Preemptive}
          BY <2>2, ElementOfSeq DEF n
        <4>2. QED
          BY <4>1, <2>4 DEF Preemptive
      <3>2. CountIn(real[k + 1], {st}) = CountIn(real[k], {st}) + (IF w[k + 1] \in {st} THEN 1 ELSE 0)
        <4> DEFINE u == real[k]
        <4>1. u \in Seq(Streams) /\ real[k + 1] = Append(u, w[k + 1])
          BY <2>2, <2>3, <2>4, <1>3
        <4> HIDE DEF u
        <4>2. CountIn(Append(u, w[k + 1]), {st}) = CountIn(u, {st}) + (IF w[k + 1] \in {st} THEN 1 ELSE 0)
          BY <4>1, <3>1, CountAppend
        <4>3. QED
          BY <4>1, <4>2 DEF u
      <3>3. CountIn(real[k], {st}) \in Nat
        BY <2>2, FS_CardinalityType
      <3>4. CASE w[k + 1] \in {st}
        <4>1. upTo(k + 1) = upTo(k) \cup {k + 1} /\ k + 1 \notin upTo(k)
          BY <2>2, <3>4
        <4> DEFINE U == upTo(k)
        <4>2. IsFiniteSet(U) /\ k + 1 \notin U /\ upTo(k + 1) = U \cup {k + 1}
          BY <2>2, <4>1
        <4>3. Cardinality(U) = CountIn(real[k], {st})
          BY <2>2
        <4> HIDE DEF U, upTo
        <4>4. IsFiniteSet(U \cup {k + 1}) /\ Cardinality(U \cup {k + 1}) = Cardinality(U) + 1
          BY <4>2, FS_AddElement
        <4>5. QED
          BY <3>2, <3>4, <4>2, <4>3, <4>4
      <3>5. CASE w[k + 1] \notin {st}
        <4>1. upTo(k + 1) = upTo(k)
          BY <2>2, <3>5
        <4> HIDE DEF upTo
        <4>2. QED
          BY <2>2, <3>2, <3>3, <3>5, <4>1
      <3>6. QED
        BY <3>4, <3>5
    <2>5. CASE ~(w[k + 1] >= 0)
      <3>1. upTo(k + 1) = upTo(k)
        BY <1>2, <2>2, <2>5
      <3>2. QED
        BY <2>2, <2>3, <2>5, <3>1
    <2>6. QED
      BY <2>4, <2>5
  <1>6. S = Nat
    <2>1. S \subseteq Nat
      OBVIOUS
    <2> HIDE DEF S
    <2>2. QED
      BY <1>4, <1>5, <2>1, SetInduction
  <1>7. Cardinality(upTo(n)) = CountIn(real[n], {st})
    <2>1. n \in S
      BY <1>2, <1>6
    <2>2. QED
      BY <2>1, <1>2
  <1> HIDE DEF upTo
  <1>8. QED
    BY <1>1, <1>2, <1>7

\* Streams are held in the queues and in the commands.
LEMMA SameHold ==
    ASSUME NEW p, NEW q, StreamsAtHome(p), q.waitingStreamIDs = p.waitingStreamIDs, q.commands = p.commands
    PROVE  KeepsHold(p, q)
  BY DEF KeepsHold, StreamsAtHome, Holds, CountQueued

LEMMA RotateHold ==
    ASSUME NEW p, p \in PlayerState, StreamsAtHome(p), NEW s \in Sessions
    PROVE  KeepsHold(p, Rotate(p, s))
  <1> DEFINE q == Rotate(p, s)
  <1>1. q.waitingStreamIDs = p.waitingStreamIDs /\ q.commands = p.commands
    BY DEF Rotate, PlayerState
  <1> HIDE DEF q
  <1>2. KeepsHold(p, q)
    BY <1>1, SameHold
  <1>3. QED
    BY <1>2 DEF q

LEMMA LaunchCircuitHold ==
    ASSUME NEW p, Core(p), StreamsAtHome(p), NEW s \in p.sessions
    PROVE  KeepsHold(p, LaunchCircuit(p, s))
  <1> DEFINE q == LaunchCircuit(p, s)
             c == CurrentCircuit(p, s)
             m == ExtendCircuit(s, c, p.heap[c].path /\ p.heap[c].failures < 3)
             u == p.commands
  <1>1. /\ s \in Sessions /\ c \in Circuits /\ p.heap[c] \in Circuit /\ p \in PlayerState
        /\ u \in Seq(Command)
    BY CurrentCircuitOwned DEF Core, PlayerState
  <1>2. m \in Command /\ m.type = "EXTENDCIRCUIT"
    <2>1. (p.heap[c].path /\ p.heap[c].failures < 3) \in BOOLEAN
      OBVIOUS
    <2>2. QED
      BY <1>1, <2>1 DEF ExtendCircuit, Command
  <1>3. q.waitingStreamIDs = p.waitingStreamIDs /\ q.commands = Append(u, m)
    BY <1>1 DEF LaunchCircuit, PlayerState
  <1> HIDE DEF q, m, u
  <1>4. ASSUME NEW st \in Streams PROVE Holds(q, st) = Holds(p, st)
    <2>1. m \notin AttachmentsOf(st)
      BY <1>2 DEF AttachmentsOf
    <2>2. CountIn(Append(u, m), AttachmentsOf(st)) = CountIn(u, AttachmentsOf(st)) + 0
      BY <1>1, <1>2, <2>1, CountAppend
    <2>3. CountIn(u, AttachmentsOf(st)) \in Nat
      BY <1>1, CountType
    <2>4. CountIn(q.commands, AttachmentsOf(st)) = CountIn(p.commands, AttachmentsOf(st))
      BY <1>3, <2>2, <2>3 DEF u
    <2>5. QED
      BY <1>3, <2>4 DEF Holds, CountQueued
  <1>5. KeepsHold(p, q)
    BY <1>3, <1>4 DEF KeepsHold, StreamsAtHome
  <1>6. QED
    BY <1>5 DEF q

LEMMA AttachWaitingHold ==
    ASSUME NEW p, Core(p), StreamsAtHome(p), NEW s \in p.sessions
    PROVE  KeepsHold(p, AttachWaiting(p, s))
  <1> DEFINE q == AttachWaiting(p, s)
             w == p.waitingStreamIDs[s]
             a == Attachments(p, s)
             u == p.commands
  <1>1. s \in Sessions /\ p \in PlayerState /\ u \in Seq(Command) /\ s # NoSession
    BY CurrentCircuitOwned, PlayerAssumption DEF Core, PlayerState
  <1>2. /\ w \in Seq(Streams \cup {Preemptive}) /\ a \in Seq(Command) /\ DOMAIN a = DOMAIN StreamsIn(w)
        /\ \A i \in DOMAIN a : a[i].type = "ATTACHSTREAM" /\ a[i].stream = StreamsIn(w)[i]
    BY AttachmentsType
  <1>3. /\ q.waitingStreamIDs = [p.waitingStreamIDs EXCEPT ![s] = <<>>]
        /\ q.commands = u \o a
    BY <1>1 DEF AttachWaiting, Attachments, PlayerState
  <1>4. \A r \in Sessions : q.waitingStreamIDs[r] = IF r = s THEN <<>> ELSE p.waitingStreamIDs[r]
    BY <1>1, <1>3 DEF PlayerState
  <1>5. \A i \in DOMAIN w : w[i] >= 0 => User[w[i]] = s
    BY <1>1 DEF StreamsAtHome
  <1> HIDE DEF q, a, u, w
  <1>6. StreamsAtHome(q)
    BY <1>4 DEF StreamsAtHome
  <1>7. ASSUME NEW st \in Streams PROVE Holds(q, st) = Holds(p, st)
    <2>1. CountIn(a, AttachmentsOf(st)) = CountIn(StreamsIn(w), {st})
      <3>1. \A i \in DOMAIN a : a[i] \in AttachmentsOf(st) <=> StreamsIn(w)[i] \in {st}
        <4>1. \A i \in DOMAIN a : a[i] \in Command
          BY <1>2, ElementOfSeq, LenProperties
        <4>2. QED
          BY <1>2, <4>1 DEF AttachmentsOf
      <3>2. QED
        BY <1>2, <3>1 DEF CountIn
    <2>2. CountIn(StreamsIn(w), {st}) = CountIn(w, {st})
      BY <1>2, CountStreamsIn
    <2>3. CountIn(q.commands, AttachmentsOf(st)) = CountIn(u, AttachmentsOf(st)) + CountIn(w, {st})
      <3>1. CountIn(u \o a, AttachmentsOf(st)) = CountIn(u, AttachmentsOf(st)) + CountIn(a, AttachmentsOf(st))
        BY <1>1, <1>2, CountConcat
      <3>2. QED
        BY <1>3, <2>1, <2>2, <3>1
    <2>4. CountQueued(p, st) = CountQueued(q, st) + CountIn(w, {st})
      <3>1. CASE User[st] = s
        <4>1. CountQueued(p, st) = CountIn(w, {st})
          BY <3>1, <1>1 DEF CountQueued, w
        <4>2. CountQueued(q, st) = CountIn(<<>>, {st})
          BY <3>1, <1>1, <1>4 DEF CountQueued
        <4>3. CountIn(<<>>, {st}) = 0
          BY CountNone
        <4>4. CountIn(w, {st}) \in Nat
          BY <1>2, CountType
        <4>5. QED
          BY <4>1, <4>2, <4>3, <4>4
      <3>2. CASE User[st] # s
        <4>1. CountIn(w, {st}) = 0
          <5>1. \A i \in DOMAIN w : w[i] \notin {st}
            BY <1>5, <3>2, PlayerAssumption
          <5>2. QED
            BY <5>1, CountNone
        <4>2. CountQueued(q, st) = CountQueued(p, st)
          BY <3>2, <1>4, PlayerTorAssumption DEF CountQueued
        <4>3. CountQueued(p, st) \in Nat
          BY <1>1, HoldsType
        <4>4. QED
          BY <4>1, <4>2, <4>3
      <3>3. QED
        BY <3>1, <3>2
    <2>5. CountIn(u, AttachmentsOf(st)) \in Nat /\ CountIn(w, {st}) \in Nat
      BY <1>1, <1>2, CountType
    <2>6. CountQueued(q, st) \in Nat
      <3>1. CASE User[st] = s
        <4>1. CountQueued(q, st) = CountIn(<<>>, {st}) /\ CountIn(<<>>, {st}) = 0
          BY <3>1, <1>1, <1>4, CountNone DEF CountQueued
        <4>2. QED
          BY <4>1
      <3>2. CASE User[st] # s
        <4>1. CountQueued(q, st) = CountQueued(p, st)
          BY <3>2, <1>4, PlayerTorAssumption DEF CountQueued
        <4>2. QED
          BY <4>1, <1>1, HoldsType
      <3>3. QED
        BY <3>1, <3>2
    <2>7. QED
      BY <2>3, <2>4, <2>5, <2>6 DEF Holds, u
  <1>8. KeepsHold(p, q)
    BY <1>6, <1>7 DEF KeepsHold
  <1>9. QED
    BY <1>8 DEF q

-----------------------------------------------------------------------------
(* What the handlers do with a stream                                      *)

LEMMA KeepsHoldTransitive ==
    ASSUME NEW p, NEW q, NEW r, KeepsHold(p, q), KeepsHold(q, r)
    PROVE  KeepsHold(p, r)
  BY DEF KeepsHold

LEMMA HandleSessionHold ==
    ASSUME NEW p, Core(p), StreamsAtHome(p), NEW s \in p.sessions, NEW t \in Nat,
           p.sessionAwaitingAssignment # s
    PROVE  KeepsHold(p, HandleSession(p, t, s))
  <1> DEFINE cur == GetCurrentCircuit(p, t, s)
             q == HandleSession(p, t, s)
  <1>1. /\ cur = p \/ cur = Rotate(p, s)
        /\ Core(cur) /\ s \in cur.sessions
        /\ \/ q = cur
           \/ q = EnterBacklog(cur, s)
           \/ q = LaunchCircuit(cur, s)
           \/ q = AttachWaiting(cur, s)
    BY HandleSessionCases
  <1>2. p \in PlayerState /\ s \in Sessions
    BY DEF Core, PlayerState
  <1> HIDE DEF cur, q
  <1>3. KeepsHold(p, cur) /\ KeepsHold(cur, cur)
    BY <1>1, <1>2, RotateHold, SameHold DEF KeepsHold
  <1>4. StreamsAtHome(cur) /\ cur \in PlayerState
    BY <1>1, <1>3 DEF KeepsHold, Core
  <1>5. KeepsHold(cur, EnterBacklog(cur, s))
    <2> DEFINE b == EnterBacklog(cur, s)
    <2>1. b.waitingStreamIDs = cur.waitingStreamIDs /\ b.commands = cur.commands
      BY <1>4 DEF EnterBacklog, PlayerState
    <2> HIDE DEF b
    <2>2. KeepsHold(cur, b)
      BY <1>4, <2>1, SameHold
    <2>3. QED
      BY <2>2 DEF b
  <1>6. KeepsHold(cur, q)
    BY <1>1, <1>3, <1>4, <1>5, LaunchCircuitHold, AttachWaitingHold
  <1>7. QED
    BY <1>3, <1>6, KeepsHoldTransitive DEF q

LEMMA HandleSessionBacklogHold ==
    ASSUME NEW p, LoopInv(p), StreamsAtHome(p), NEW t \in Nat
    PROVE  KeepsHold(p, HandleSessionBacklog(p, t))
  <1> DEFINE V == {q \in PlayerState : LoopInv(q) /\ KeepsHold(p, q)}
  <1>1. p \in V
    BY DEF LoopInv, Core, KeepsHold
  <1>2. ASSUME NEW p1 \in V PROVE HandleNextSession(p1, t) \in V
    <2> DEFINE q == [p1 EXCEPT !.sessionAssignmentBacklog = Tail(p1.sessionAssignmentBacklog)]
               s == Head(p1.sessionAssignmentBacklog)
    <2>0. LoopInv(p1) /\ KeepsHold(p, p1) /\ p1 \in PlayerState
      OBVIOUS
    <2> HIDE DEF V
    <2>1. LoopInv(HandleNextSession(p1, t)) /\ HandleNextSession(p1, t) \in PlayerState
      BY <2>0, HandleNextSessionInv DEF LoopInv, Core
    <2>2. CASE p1.sessionAwaitingAssignment = NoSession /\ p1.sessionAssignmentBacklog # <<>>
      <3>1. Core(q) /\ s \in q.sessions /\ q.sessionAwaitingAssignment = NoSession
        BY <2>0, <2>2, PopBacklog
      <3>2. HandleNextSession(p1, t) = HandleSession(q, t, s)
        BY <2>2 DEF HandleNextSession
      <3>3. NoSession # s
        BY <3>1, PlayerAssumption DEF Core, PlayerState
      <3>4. q.waitingStreamIDs = p1.waitingStreamIDs /\ q.commands = p1.commands
        BY <2>0 DEF PlayerState
      <3>5. StreamsAtHome(p1)
        BY <2>0 DEF KeepsHold
      <3> HIDE DEF q, s
      <3>6. KeepsHold(p1, q)
        BY <3>4, <3>5, SameHold
      <3>7. KeepsHold(q, HandleSession(q, t, s))
        BY <3>1, <3>3, <3>6, HandleSessionHold DEF KeepsHold
      <3>8. KeepsHold(p, HandleSession(q, t, s))
        BY <2>0, <3>6, <3>7, KeepsHoldTransitive
      <3>9. QED
        BY <2>1, <3>2, <3>8 DEF V
    <2>3. CASE ~(p1.sessionAwaitingAssignment = NoSession /\ p1.sessionAssignmentBacklog # <<>>)
      <3>1. HandleNextSession(p1, t) = p1
        BY <2>3 DEF HandleNextSession
      <3>2. QED
        BY <3>1
    <2>4. QED
      BY <2>2, <2>3
  <1> HIDE DEF V
  <1>3. HandleSessionBacklog(p, t) \in V
    BY <1>1, <1>2, BacklogLoop
  <1>4. QED
    BY <1>3 DEF V

\* Stream st comes into the Player's hands, and no other does.
TakesIn(p, q, st) ==
    \A x \in Streams : Holds(q, x) = Holds(p, x) + (IF x = st THEN 1 ELSE 0)

LEMMA EnqueueStreamHold ==
    ASSUME NEW p, p \in PlayerState, StreamsAtHome(p), NEW s \in Sessions, NEW st \in Streams, User[st] = s
    PROVE  StreamsAtHome(EnqueueStream(p, s, st)) /\ TakesIn(p, EnqueueStream(p, s, st), st)
  <1> DEFINE q == EnqueueStream(p, s, st)
             w == p.waitingStreamIDs[s]
             D == Streams \cup {Preemptive}
  <1>1. /\ q.waitingStreamIDs = [p.waitingStreamIDs EXCEPT ![s] = Append(w, st)]
        /\ q.commands = p.commands
    BY DEF EnqueueStream, PlayerState
  <1>2. \A r \in Sessions : q.waitingStreamIDs[r] = IF r = s THEN Append(w, st) ELSE p.waitingStreamIDs[r]
    BY <1>1 DEF PlayerState
  <1>3. w \in Seq(D) /\ st \in D /\ s # NoSession
    BY PlayerAssumption DEF PlayerState
  <1>4. \A i \in DOMAIN w : w[i] >= 0 => User[w[i]] = s
    BY DEF StreamsAtHome
  <1> HIDE DEF q, w, D
  <1>5. \A i \in DOMAIN Append(w, st) : Append(w, st)[i] >= 0 => User[Append(w, st)[i]] = s
    <2>1. /\ DOMAIN Append(w, st) = 1..(Len(w) + 1) /\ DOMAIN w = 1..Len(w) /\ Len(w) \in Nat
          /\ \A i \in 1..Len(w) : Append(w, st)[i] = w[i]
          /\ Append(w, st)[Len(w) + 1] = st
      BY <1>3, QueuePush
    <2>2. \A i \in DOMAIN Append(w, st) : i \in DOMAIN w \/ i = Len(w) + 1
      BY <2>1
    <2>3. QED
      BY <1>4, <2>1, <2>2
  <1>6. StreamsAtHome(q)
    BY <1>2, <1>5 DEF StreamsAtHome
  <1>7. ASSUME NEW x \in Streams PROVE Holds(q, x) = Holds(p, x) + (IF x = st THEN 1 ELSE 0)
    <2>1. CountQueued(q, x) = CountQueued(p, x) + (IF x = st THEN 1 ELSE 0)
      <3>1. CASE User[x] = s
        <4>1. CountQueued(q, x) = CountIn(Append(w, st), {x}) /\ CountQueued(p, x) = CountIn(w, {x})
          BY <1>2, <1>3, <3>1 DEF CountQueued, w
        <4>2. CountIn(Append(w, st), {x}) = CountIn(w, {x}) + (IF st \in {x} THEN 1 ELSE 0)
          BY <1>3, CountAppend
        <4>3. QED
          BY <4>1, <4>2
      <3>2. CASE User[x] # s
        <4>1. x # st /\ CountQueued(q, x) = CountQueued(p, x)
          BY <1>2, <3>2, PlayerTorAssumption DEF CountQueued
        <4>2. CountQueued(p, x) \in Nat
          BY HoldsType
        <4>3. QED
          BY <4>1, <4>2
      <3>3. QED
        BY <3>1, <3>2
    <2>2. CountQueued(p, x) \in Nat /\ CountIn(p.commands, AttachmentsOf(x)) \in Nat
      BY HoldsType
    <2>3. CountIn(q.commands, AttachmentsOf(x)) = CountIn(p.commands, AttachmentsOf(x))
      BY <1>1
    <2>4. QED
      BY <2>1, <2>2, <2>3 DEF Holds
  <1>8. TakesIn(p, q, st)
    BY <1>7 DEF TakesIn
  <1>9. QED
    BY <1>6, <1>8 DEF q

LEMMA AttachToAnyHold ==
    ASSUME NEW p, p \in PlayerState, StreamsAtHome(p), NEW st \in Streams, NEW q,
           q = [p EXCEPT !.commands = Append(@, AttachStream(st, 0))]
    PROVE  StreamsAtHome(q) /\ TakesIn(p, q, st)
  <1> DEFINE m == AttachStream(st, 0)
             u == p.commands
  <1>1. q.waitingStreamIDs = p.waitingStreamIDs /\ q.commands = Append(u, m) /\ u \in Seq(Command)
    BY DEF PlayerState
  <1>2. m \in Command /\ \A x \in Streams : m \in AttachmentsOf(x) <=> x = st
    BY DEF AttachStream, Command, IDs, AttachmentsOf
  <1> HIDE DEF m, u
  <1>3. ASSUME NEW x \in Streams PROVE Holds(q, x) = Holds(p, x) + (IF x = st THEN 1 ELSE 0)
    <2>1. CountIn(Append(u, m), AttachmentsOf(x)) = CountIn(u, AttachmentsOf(x)) + (IF m \in AttachmentsOf(x) THEN 1 ELSE 0)
      BY <1>1, <1>2, CountAppend
    <2>2. CountIn(q.commands, AttachmentsOf(x)) = CountIn(p.commands, AttachmentsOf(x)) + (IF x = st THEN 1 ELSE 0)
      BY <2>1, <1>1, <1>2 DEF u
    <2>3. CountQueued(q, x) = CountQueued(p, x)
      BY <1>1 DEF CountQueued
    <2>4. CountQueued(p, x) \in Nat /\ CountIn(p.commands, AttachmentsOf(x)) \in Nat
      BY HoldsType
    <2>5. QED
      BY <2>2, <2>3, <2>4 DEF Holds
  <1>4. QED
    BY <1>1, <1>3 DEF TakesIn, StreamsAtHome

LEMMA StreamNewHold ==
    ASSUME NEW p, LoopInv(p), StreamsAtHome(p), NEW t \in Nat, NEW st \in Streams,
           NEW c \in Allocations(p, User[st])
    PROVE  TakesIn(p, OnStreamNew(p, t, st, User[st], c), st)
  <1> DEFINE s == User[st]
             q == EnsureSession(p, t, s, c)
             r == EnqueueStream(q, s, st)
             b == HandleSessionBacklog(r, t)
  <1>0. p \in PlayerState
    BY DEF LoopInv, Core
  <1>1. CASE s = NoSession
    <2> DEFINE a == [p EXCEPT !.commands = Append(@, AttachStream(st, 0))]
    <2>1. OnStreamNew(p, t, st, s, c) = a
      BY <1>1 DEF OnStreamNew
    <2>2. TakesIn(p, a, st)
      BY <1>0, AttachToAnyHold
    <2>3. QED
      BY <2>1, <2>2
  <1>2. CASE s # NoSession
    <2>1. s \in Sessions
      BY <1>2, PlayerTorAssumption
    <2>2. OnStreamNew(p, t, st, s, c) = b
      BY <1>2 DEF OnStreamNew
    <2>3. LoopInv(q) /\ q \in PlayerState /\ s \in q.sessions /\ KeepsAgreement(p, q)
      BY <2>1, SessionEnsured
    <2> HIDE DEF q
    <2>4. KeepsHold(p, q)
      BY <2>3, SameHold DEF KeepsAgreement
    <2>5. LoopInv(r) /\ StreamsAtHome(r) /\ TakesIn(q, r, st)
      BY <2>1, <2>3, <2>4, EnqueueStreamInv, EnqueueStreamHold DEF KeepsHold
    <2> HIDE DEF r
    <2>6. KeepsHold(r, b)
      BY <2>5, HandleSessionBacklogHold
    <2> HIDE DEF b
    <2>7. TakesIn(p, b, st)
      BY <2>4, <2>5, <2>6 DEF KeepsHold, TakesIn
    <2>8. QED
      BY <2>2, <2>7
  <1>3. QED
    BY <1>1, <1>2

LEMMA RequestLaunchesHold ==
    ASSUME NEW p, LoopInv(p), StreamsAtHome(p), NEW n \in 0..Len(p.launches)
    PROVE  KeepsHold(p, RequestLaunches(p, n))
  <1> DEFINE q == RequestLaunches(p, n)
  <1>1. q.commands = p.commands
    BY DEF RequestLaunches, LoopInv, Core, PlayerState
  <1>2. \A s \in Sessions :
           /\ DOMAIN p.waitingStreamIDs[s] \subseteq DOMAIN q.waitingStreamIDs[s]
           /\ \A i \in DOMAIN q.waitingStreamIDs[s] :
                \/ i \in DOMAIN p.waitingStreamIDs[s] /\ q.waitingStreamIDs[s][i] = p.waitingStreamIDs[s][i]
                \/ i \notin DOMAIN p.waitingStreamIDs[s] /\ q.waitingStreamIDs[s][i] = -1
    BY RequestLaunchesQueues
  <1> HIDE DEF q
  <1>3. StreamsAtHome(q)
    BY <1>2 DEF StreamsAtHome
  <1>4. ASSUME NEW st \in Streams PROVE CountQueued(q, st) = CountQueued(p, st)
    <2>1. st >= 0
      BY PlayerAssumption
    <2>2. CASE User[st] = NoSession
      BY <2>2 DEF CountQueued
    <2>3. CASE User[st] # NoSession
      <3> DEFINE w == p.waitingStreamIDs[User[st]]
                 a == q.waitingStreamIDs[User[st]]
      <3>1. /\ DOMAIN w \subseteq DOMAIN a
            /\ \A i \in DOMAIN a : (i \in DOMAIN w /\ a[i] = w[i]) \/ (i \notin DOMAIN w /\ a[i] = -1)
        BY <1>2, <2>3, PlayerTorAssumption
      <3>2. CountQueued(q, st) = CountIn(a, {st}) /\ CountQueued(p, st) = CountIn(w, {st})
        BY <2>3 DEF CountQueued
      <3> HIDE DEF w, a
      <3>3. {i \in DOMAIN a : a[i] \in {st}} = {i \in DOMAIN w : w[i] \in {st}}
        BY <2>1, <3>1
      <3>4. QED
        BY <3>2, <3>3 DEF CountIn
    <2>4. QED
      BY <2>2, <2>3
  <1>5. KeepsHold(p, q)
    BY <1>1, <1>3, <1>4 DEF KeepsHold, Holds
  <1>6. QED
    BY <1>5 DEF q

LEMMA LaunchNextHold ==
    ASSUME NEW p, LoopInv(p), StreamsAtHome(p), NEW t \in Nat, NEW n \in LaunchesDue(p, t)
    PROVE  KeepsHold(p, LaunchNextCircuit(p, t, n))
  <1> DEFINE q == RequestLaunches(p, n)
  <1>1. n \in 0..Len(p.launches)
    BY DEF LaunchesDue
  <1>2. LoopInv(q) /\ KeepsHold(p, q)
    BY <1>1, RequestLaunchesInv, RequestLaunchesHold
  <1>3. LaunchNextCircuit(p, t, n) = p \/ LaunchNextCircuit(p, t, n) = HandleSessionBacklog(q, t)
    BY DEF LaunchNextCircuit
  <1> HIDE DEF q
  <1>4. KeepsHold(p, p) /\ KeepsHold(p, HandleSessionBacklog(q, t))
    BY <1>2, HandleSessionBacklogHold, KeepsHoldTransitive DEF KeepsHold
  <1>5. QED
    BY <1>3, <1>4

LEMMA CircuitAssignedHold ==
    ASSUME NEW p, LoopInv(p), StreamsAtHome(p), NEW t \in Nat, NEW id \in CircuitIDs, p.circuits[id] = NoCircuit
    PROVE  KeepsHold(p, OnCircuitAssigned(p, t, id))
  <1> DEFINE q == Assign(p, id)
  <1>1. CASE p.sessionAwaitingAssignment = NoSession
    BY <1>1 DEF OnCircuitAssigned, KeepsHold
  <1>2. CASE p.sessionAwaitingAssignment # NoSession
    <2>1. LoopInv(q) /\ OnCircuitAssigned(p, t, id) = HandleSessionBacklog(q, t)
      BY <1>2, AssignInv DEF OnCircuitAssigned, Assign
    <2>2. q.waitingStreamIDs = p.waitingStreamIDs /\ q.commands = p.commands
      BY DEF Assign, LoopInv, Core, PlayerState
    <2> HIDE DEF q
    <2>3. KeepsHold(p, q)
      BY <2>2, SameHold
    <2>4. KeepsHold(q, HandleSessionBacklog(q, t))
      BY <2>1, <2>3, HandleSessionBacklogHold DEF KeepsHold
    <2>5. QED
      BY <2>1, <2>3, <2>4, KeepsHoldTransitive
  <1>3. QED
    BY <1>1, <1>2

LEMMA CircuitBuiltHold ==
    ASSUME NEW p, LoopInv(p), StreamsAtHome(p), NEW t \in Nat, NEW id \in CircuitIDs
    PROVE  KeepsHold(p, OnCircuitBuilt(p, t, id))
  <1> DEFINE q == MarkBuilt(p, id)
             s == p.heap[p.circuits[id]].session
  <1>1. CASE p.circuits[id] = NoCircuit
    BY <1>1 DEF OnCircuitBuilt, KeepsHold
  <1>2. CASE p.circuits[id] # NoCircuit
    <2>1. Core(q) /\ s \in q.sessions /\ q.sessionAwaitingAssignment # s
      BY <1>2, MarkBuiltCore DEF IDs
    <2>2. OnCircuitBuilt(p, t, id) = HandleSession(q, t, s)
      BY <1>2 DEF OnCircuitBuilt, MarkBuilt
    <2>3. q.waitingStreamIDs = p.waitingStreamIDs /\ q.commands = p.commands
      BY DEF MarkBuilt, LoopInv, Core, PlayerState
    <2> HIDE DEF q, s
    <2>4. KeepsHold(p, q)
      BY <2>3, SameHold
    <2>5. KeepsHold(q, HandleSession(q, t, s))
      BY <2>1, <2>4, HandleSessionHold DEF KeepsHold
    <2>6. QED
      BY <2>2, <2>4, <2>5, KeepsHoldTransitive
  <1>3. QED
    BY <1>1, <1>2

LEMMA CircuitGoneHold ==
    ASSUME NEW p, LoopInv(p), StreamsAtHome(p), NEW t \in Nat, NEW id \in CircuitIDs, NEW failed \in BOOLEAN
    PROVE  KeepsHold(p, OnCircuitGone(p, t, id, failed))
  <1> DEFINE s == p.heap[p.circuits[id]].session
             q == Reset(p, id, failed)
             b == EnterBacklog(q, s)
  <1>1. CASE p.circuits[id] = NoCircuit
    BY <1>1 DEF OnCircuitGone, KeepsHold
  <1>2. CASE p.circuits[id] # NoCircuit
    <2>1. Core(q) /\ WakeupExcept(q, s) /\ s \in q.sessions
      BY <1>2, ResetCore DEF IDs
    <2>2. OnCircuitGone(p, t, id, failed) = q \/ OnCircuitGone(p, t, id, failed) = HandleSessionBacklog(b, t)
      BY <1>2 DEF OnCircuitGone
    <2>3. q.waitingStreamIDs = p.waitingStreamIDs /\ q.commands = p.commands
      BY DEF Reset, LoopInv, Core, PlayerState
    <2> HIDE DEF q, s
    <2>4. b.waitingStreamIDs = p.waitingStreamIDs /\ b.commands = p.commands
      BY <2>1, <2>3 DEF EnterBacklog, Core, PlayerState
    <2>5. LoopInv(b)
      BY <2>1, EnterBacklogCore
    <2> HIDE DEF b
    <2>6. KeepsHold(p, q) /\ KeepsHold(p, b)
      BY <2>3, <2>4, SameHold
    <2>7. KeepsHold(b, HandleSessionBacklog(b, t))
      BY <2>5, <2>6, HandleSessionBacklogHold DEF KeepsHold
    <2>8. QED
      BY <2>2, <2>6, <2>7, KeepsHoldTransitive
  <1>3. QED
    BY <1>1, <1>2

-----------------------------------------------------------------------------
(* Where a stream is, step by step                                         *)

LEMMA NewsCounted ==
    ASSUME NEW ev \in Seq(Event), NEW e \in Event, NEW st \in Streams
    PROVE  /\ CountIn(Append(ev, e), {StreamNew(st)}) =
                CountIn(ev, {StreamNew(st)}) + (IF e = StreamNew(st) THEN 1 ELSE 0)
           /\ CountIn(ev, {StreamNew(st)}) \in Nat
           /\ e.type # "NEW" => e # StreamNew(st)
           /\ \A x \in Streams : StreamNew(x) \in Event /\ (StreamNew(x) = StreamNew(st) <=> x = st)
  <1> DEFINE Y == {StreamNew(st)}
  <1>1. CountIn(ev, Y) \in Nat
    BY CountType
  <1>2. CountIn(Append(ev, e), Y) = CountIn(ev, Y) + (IF e \in Y THEN 1 ELSE 0)
    <2> HIDE DEF Y
    <2>1. QED
      BY CountAppend
  <1>3. StreamNew(st).type = "NEW" /\ \A x \in Streams : StreamNew(x).stream = x /\ StreamNew(x) \in Event
    BY DEF StreamNew, Event
  <1>4. \A x \in Streams : StreamNew(x) = StreamNew(st) <=> x = st
    BY <1>3
  <1>5. QED
    BY <1>1, <1>2, <1>3, <1>4

LEMMA PlacesType ==
    ASSUME NEW p, p \in PlayerState, NEW ev \in Seq(Event), NEW st \in Streams
    PROVE  /\ PlacesIn(p, ev, st) \in Nat
           /\ Holds(p, st) \in Nat /\ CountIn(ev, {StreamNew(st)}) \in Nat
  <1>1. Holds(p, st) \in Nat
    BY HoldsType
  <1>2. CountIn(ev, {StreamNew(st)}) \in Nat
    BY CountType
  <1>3. QED
    BY <1>1, <1>2 DEF PlacesIn

\* A step that moves streams at most from the connection to the Player.
LEMMA SamePlaces ==
    ASSUME PlaceIInv, \A st \in Streams : PlacesIn(player', events', st) = PlacesIn(player, events, st),
           torStreams' = torStreams, closed' = 0 => closed = 0
    PROVE  OnePlace(player', events', torStreams', closed')
  BY DEF PlaceIInv, OnePlace

LEMMA DeliverPlaces ==
    ASSUME PlaceIInv, Deliver, NEW st \in Streams
    PROVE  PlacesIn(player', events', st) = PlacesIn(player, events, st)
  <1> DEFINE e == Head(events)
             ev2 == Tail(events)
             p == player
             Y == {StreamNew(st)}
  <1>1. /\ now \in Nat /\ LoopInv(p) /\ p \in PlayerState /\ events \in Seq(Event) /\ StreamsAtHome(p)
        /\ EventsFollow(events, torCircuits) /\ Agrees(p, events, torCircuits, refused) /\ refused \in Nat
    BY TorFacts DEF PlaceIInv, Agrees
  <1>2. events # <<>> /\ events' = ev2
    BY DEF Deliver
  <1>3. e \in Event /\ ev2 \in Seq(Event)
    BY <1>1, <1>2, TailIndex
  <1>4. CountIn(events, Y) = CountIn(ev2, Y) + (IF e \in Y THEN 1 ELSE 0)
    <2> HIDE DEF Y
    <2>1. QED
      BY <1>1, <1>2, CountTail
  <1>5. CountIn(ev2, Y) \in Nat
    BY <1>3, CountType
  <1>6. Holds(p, st) \in Nat
    BY <1>1, HoldsType
  <1>7. Holds(player', st) = Holds(p, st) + (IF e \in Y THEN 1 ELSE 0)
    <2>1. CASE e.type = "NEW"
      <3>1. PICK c \in Allocations(p, User[e.stream]) :
                player' = OnStreamNew(p, now, e.stream, User[e.stream], c)
        BY <2>1 DEF Deliver
      <3>2. e.stream \in Streams /\ e = StreamNew(e.stream)
        BY <1>3, <2>1, EventFields
      <3>3. e \in Y <=> st = e.stream
        <4>1. StreamNew(st).stream = st /\ StreamNew(e.stream).stream = e.stream
          BY DEF StreamNew
        <4>2. QED
          BY <3>2, <4>1
      <3> HIDE DEF Y, e, p
      <3>4. TakesIn(p, player', e.stream)
        BY <1>1, <3>1, <3>2, StreamNewHold
      <3>5. QED
        BY <3>3, <3>4 DEF TakesIn
    <2>2. CASE e.type # "NEW"
      <3>1. e.id \in CircuitIDs /\ e.type \in {"EXTENDED", "BUILT", "FAILED", "CLOSED"}
            /\ e = CircuitEvent(e.type, e.id)
        BY <1>3, <2>2, EventFields
      <3>2. e \notin Y
        BY <1>1, <1>3, <2>2, NewsCounted
      <3>3. KeepsHold(p, player')
        <4>1. CASE e.type = "EXTENDED"
          <5>1. player' = OnCircuitAssigned(p, now, e.id)
            BY <4>1 DEF Deliver
          <5>2. p.circuits[e.id] = NoCircuit
            BY <1>1, <1>2, <3>1, <4>1, CircuitAssignedAgrees
          <5> HIDE DEF p, e
          <5>3. QED
            BY <1>1, <3>1, <5>1, <5>2, CircuitAssignedHold
        <4>2. CASE e.type = "BUILT"
          <5>1. player' = OnCircuitBuilt(p, now, e.id)
            BY <4>2 DEF Deliver
          <5> HIDE DEF p, e
          <5>2. QED
            BY <1>1, <3>1, <5>1, CircuitBuiltHold
        <4>3. CASE e.type \in {"FAILED", "CLOSED"}
          <5> DEFINE failed == (e.type = "FAILED")
          <5>1. player' = OnCircuitGone(p, now, e.id, failed) /\ failed \in BOOLEAN
            BY <4>3 DEF Deliver
          <5> HIDE DEF p, e, failed
          <5>2. QED
            BY <1>1, <3>1, <5>1, CircuitGoneHold
        <4>4. QED
          BY <3>1, <4>1, <4>2, <4>3
      <3>4. QED
        BY <3>2, <3>3, <1>6 DEF KeepsHold
    <2>3. QED
      BY <2>1, <2>2
  <1> HIDE DEF Y, e, p
  <1>8. CountIn(ev2, Y) + Holds(player', st) = CountIn(events, Y) + Holds(p, st)
    BY <1>4, <1>5, <1>6, <1>7
  <1>9. QED
    BY <1>2, <1>8 DEF PlacesIn, Y, p

\* Tor takes a command: a stream that it attaches leaves the Player's hands.
LEMMA TakenPlaces ==
    ASSUME PlaceIInv, NEW type, Takes(type), NEW st \in Streams
    PROVE  /\ player.commands # <<>> /\ Head(player.commands) \in Command
           /\ Head(player.commands).type = type
           /\ Holds(player, st) =
                Holds(player', st) + (IF Head(player.commands) \in AttachmentsOf(st) THEN 1 ELSE 0)
           /\ Holds(player', st) \in Nat
  <1> DEFINE p == player
             u == player.commands
             m == Head(u)
             Y == AttachmentsOf(st)
  <1>1. p \in PlayerState /\ u \in Seq(Command)
    BY TorFacts DEF PlaceIInv
  <1>2. u # <<>> /\ m.type = type /\ player' = [player EXCEPT !.commands = Tail(u)]
    BY DEF Takes
  <1>3. m \in Command /\ Tail(u) \in Seq(Command)
    BY <1>1, <1>2, TailIndex
  <1>4. player'.waitingStreamIDs = p.waitingStreamIDs /\ player'.commands = Tail(u)
    BY <1>1, <1>2 DEF PlayerState
  <1>5. CountQueued(player', st) = CountQueued(p, st) /\ CountQueued(p, st) \in Nat
    BY <1>1, <1>4, HoldsType DEF CountQueued
  <1>6. Holds(p, st) = CountQueued(p, st) + CountIn(u, Y)
        /\ Holds(player', st) = CountQueued(p, st) + CountIn(Tail(u), Y)
    BY <1>4, <1>5 DEF Holds
  <1> HIDE DEF Y, p, u
  <1>7. CountIn(u, Y) = CountIn(Tail(u), Y) + (IF m \in Y THEN 1 ELSE 0)
    BY <1>1, <1>2, CountTail
  <1>8. CountIn(Tail(u), Y) \in Nat
    BY <1>3, CountType
  <1>9. /\ Holds(p, st) = Holds(player', st) + (IF m \in Y THEN 1 ELSE 0)
        /\ Holds(player', st) \in Nat
    BY <1>5, <1>6, <1>7, <1>8
  <1>10. QED
    BY <1>2, <1>3, <1>9 DEF u, p, Y

LEMMA TorAttachesPlaces ==
    ASSUME PlaceIInv, TorAttaches
    PROVE  OnePlace(player', events', torStreams', closed')
  <1> DEFINE m == Head(player.commands)
             x == m.stream
  <1>1. /\ player.commands \in Seq(Command) /\ Agrees(player, events, torCircuits, refused)
        /\ torStreams \in [Streams -> TorStream] /\ events \in Seq(Event) /\ player \in PlayerState
        /\ closed \in 0..MaxClosed
    BY TorFacts DEF PlaceIInv
  <1>2. Takes("ATTACHSTREAM") /\ events' = events /\ closed' = closed
    BY DEF TorAttaches
  <1>3. player.commands # <<>> /\ m.type = "ATTACHSTREAM"
    BY <1>2 DEF Takes
  <1>4. m \in Command /\ m = player.commands[1] /\ 1 \in DOMAIN player.commands
    BY <1>1, <1>3, TailIndex
  <1>5. x \in Streams /\ m.id \in IDs /\ \A st \in Streams : m \in AttachmentsOf(st) <=> st = x
    BY <1>3, <1>4, CommandFields DEF AttachmentsOf
  <1>6. \A st \in Streams : torStreams'[st] = torStreams[st] \/ (st = x /\ torStreams'[st].state = "attached")
    BY <1>1 DEF TorAttaches
  <1>7. torStreams[x].state = "waiting" /\ closed = 0 => torStreams'[x].state = "attached"
    <2>1. SUFFICES ASSUME torStreams[x].state = "waiting", closed = 0,
                          ~(m.id = 0 \/ torCircuits[m.id].state = "built")
                   PROVE  FALSE
      BY <1>1, <1>5 DEF TorAttaches
    <2>2. torCircuits[m.id].state \in {"built", "closed"}
      BY <1>1, <1>3, <1>4, <2>1 DEF Agrees, CommandsFollow
    <2>3. m.id \in CircuitIDs /\ torCircuits[m.id].state = "closed"
      BY <1>5, <2>1, <2>2 DEF IDs
    <2>4. closed > 0
      BY <2>3 DEF PlaceIInv
    <2>5. QED
      BY <2>1, <2>4
  <1>8. ASSUME NEW st \in Streams
        PROVE  /\ PlacesIn(player, events, st) = PlacesIn(player', events', st) + (IF st = x THEN 1 ELSE 0)
               /\ PlacesIn(player', events', st) \in Nat
    <2>1. /\ Holds(player, st) = Holds(player', st) + (IF m \in AttachmentsOf(st) THEN 1 ELSE 0)
          /\ Holds(player', st) \in Nat
      BY <1>2, TakenPlaces
    <2>2. CountIn(events, {StreamNew(st)}) \in Nat
      BY <1>1, PlacesType
    <2>3. QED
      BY <1>2, <1>5, <2>1, <2>2 DEF PlacesIn
  <1>9. /\ \A st \in Streams : PlacesIn(player, events, st) <= 1
        /\ \A st \in Streams : torStreams[st].state \in {"idle", "attached"} => PlacesIn(player, events, st) = 0
        /\ \A st \in Streams : torStreams[st].state = "waiting" /\ closed = 0 => PlacesIn(player, events, st) = 1
    BY DEF PlaceIInv, OnePlace
  <1> HIDE DEF x, m
  <1>10. ASSUME NEW st \in Streams
         PROVE  /\ PlacesIn(player', events', st) <= 1
                /\ torStreams'[st].state \in {"idle", "attached"} => PlacesIn(player', events', st) = 0
                /\ torStreams'[st].state = "waiting" /\ closed = 0 => PlacesIn(player', events', st) = 1
    <2>1. CASE st = x
      <3>1. PlacesIn(player', events', st) = 0 /\ PlacesIn(player, events, st) = 1
        BY <1>8, <1>9, <2>1
      <3>2. ~(torStreams'[st].state = "waiting" /\ closed = 0)
        BY <1>6, <1>7, <2>1
      <3>3. QED
        BY <3>1, <3>2
    <2>2. CASE st # x
      <3>1. PlacesIn(player', events', st) = PlacesIn(player, events, st)
        BY <1>8, <2>2
      <3>2. torStreams'[st] = torStreams[st]
        BY <1>6, <2>2
      <3>3. QED
        BY <3>1, <3>2, <1>9
    <2>3. QED
      BY <2>1, <2>2
  <1>11. QED
    BY <1>2, <1>10 DEF OnePlace

LEMMA StreamChangesPlaces ==
    ASSUME PlaceIInv, NEW x \in Streams, ClientConnects(x) \/ TorDetaches(x) \/ StreamEnds(x)
    PROVE  OnePlace(player', events', torStreams', closed')
  <1>1. /\ torStreams \in [Streams -> TorStream] /\ events \in Seq(Event) /\ player \in PlayerState
    BY TorFacts DEF PlaceIInv
  <1>2. player' = player /\ closed' = closed
    BY DEF ClientConnects, TorDetaches, StreamEnds, vars
  <1>3. \A st \in Streams : st # x => torStreams'[st] = torStreams[st]
    BY <1>1 DEF ClientConnects, TorDetaches, StreamEnds
  <1>4. /\ \A st \in Streams : PlacesIn(player, events, st) <= 1
        /\ \A st \in Streams : torStreams[st].state \in {"idle", "attached"} => PlacesIn(player, events, st) = 0
        /\ \A st \in Streams : torStreams[st].state = "waiting" /\ closed = 0 => PlacesIn(player, events, st) = 1
    BY DEF PlaceIInv, OnePlace
  <1>5. CASE StreamEnds(x)
    <2>1. events' = events /\ torStreams'[x].state = "gone"
      BY <1>1, <1>5 DEF StreamEnds
    <2>2. QED
      BY <1>2, <1>3, <1>4, <2>1 DEF OnePlace
  <1>6. CASE ClientConnects(x) \/ TorDetaches(x)
    <2>1. /\ torStreams[x].state \in {"idle", "attached"} /\ torStreams'[x].state = "waiting"
          /\ events' = Append(events, StreamNew(x))
      BY <1>1, <1>6 DEF ClientConnects, TorDetaches, TorStream
    <2>2. ASSUME NEW st \in Streams
          PROVE  PlacesIn(player', events', st) = PlacesIn(player, events, st) + (IF st = x THEN 1 ELSE 0)
      <3>1. StreamNew(x) \in Event /\ (StreamNew(x) = StreamNew(st) <=> x = st)
        BY DEF StreamNew, Event
      <3> DEFINE e == StreamNew(x)
      <3>2. CountIn(Append(events, e), {StreamNew(st)}) =
              CountIn(events, {StreamNew(st)}) + (IF e = StreamNew(st) THEN 1 ELSE 0)
        BY <1>1, <3>1, NewsCounted
      <3>3. CountIn(events, {StreamNew(st)}) \in Nat /\ Holds(player, st) \in Nat
        BY <1>1, PlacesType
      <3>4. CountIn(events', {StreamNew(st)}) = CountIn(events, {StreamNew(st)}) + (IF st = x THEN 1 ELSE 0)
        BY <2>1, <3>1, <3>2
      <3>5. QED
        BY <1>2, <3>3, <3>4 DEF PlacesIn
    <2>3. \A st \in Streams : PlacesIn(player, events, st) \in Nat
      BY <1>1, PlacesType
    <2>4. PlacesIn(player', events', x) = 1
      BY <1>4, <2>1, <2>2
    <2>5. \A st \in Streams : st # x => PlacesIn(player', events', st) = PlacesIn(player, events, st)
      BY <2>2, <2>3
    <2>6. QED
      BY <1>2, <1>3, <1>4, <2>1, <2>4, <2>5 DEF OnePlace
  <1>7. QED
    BY <1>5, <1>6

LEMMA OtherNewsPlaces ==
    ASSUME PlaceIInv, NEW e \in Event, e.type # "NEW", events' = Append(events, e), NEW st \in Streams
    PROVE  CountIn(events', {StreamNew(st)}) = CountIn(events, {StreamNew(st)})
  <1>1. events \in Seq(Event)
    BY TorFacts DEF PlaceIInv
  <1>2. QED
    BY <1>1, NewsCounted

LEMMA InitPlaces == TorInit => PlaceIInv
  <1>1. SUFFICES ASSUME TorInit PROVE PlaceIInv
    OBVIOUS
  <1>2. TorIInv
    BY <1>1, TorInitIInv
  <1>3. /\ events = <<>> /\ player.commands = <<>> /\ closed = 0
        /\ player.waitingStreamIDs = [s \in Sessions |-> <<>>]
        /\ \A st \in Streams : torStreams[st].state = "idle"
        /\ \A id \in CircuitIDs : torCircuits[id].state = "unused"
    BY <1>1 DEF TorInit, Init
  <1>4. ASSUME NEW st \in Streams PROVE PlacesIn(player, events, st) = 0
    <2>1. CountIn(events, {StreamNew(st)}) = 0 /\ CountIn(player.commands, AttachmentsOf(st)) = 0
      BY <1>3, CountNone
    <2>2. CountQueued(player, st) = 0
      <3>1. CASE User[st] = NoSession
        BY <3>1 DEF CountQueued
      <3>2. CASE User[st] # NoSession
        <4>1. player.waitingStreamIDs[User[st]] = <<>>
          BY <1>3, <3>2, PlayerTorAssumption
        <4>2. CountIn(<<>>, {st}) = 0
          BY CountNone
        <4>3. QED
          BY <3>2, <4>1, <4>2 DEF CountQueued
      <3>3. QED
        BY <3>1, <3>2
    <2>3. QED
      BY <2>1, <2>2 DEF PlacesIn, Holds
  <1>5. QED
    BY <1>2, <1>3, <1>4 DEF PlaceIInv, OnePlace

LEMMA NextPlaces == PlaceIInv /\ [TorNext]_allVars => PlaceIInv'
  <1>1. SUFFICES ASSUME PlaceIInv, [TorNext]_allVars PROVE PlaceIInv'
    OBVIOUS
  <1>2. TorIInv /\ TorIInv'
    BY <1>1, TorNextIInv DEF PlaceIInv
  <1>3. /\ now \in Nat /\ LoopInv(player) /\ player \in PlayerState /\ events \in Seq(Event)
        /\ StreamsAtHome(player) /\ closed \in Nat
        /\ torCircuits \in [CircuitIDs -> TorCircuit] /\ torStreams \in [Streams -> TorStream]
    BY <1>2, TorFacts DEF Agrees
  <1>4. (\E id \in CircuitIDs : torCircuits[id].state = "closed") => closed > 0
    BY <1>1 DEF PlaceIInv
  <1>5. SUFFICES /\ OnePlace(player', events', torStreams', closed')
                 /\ (\E id \in CircuitIDs : torCircuits'[id].state = "closed") => closed' > 0
    BY <1>2 DEF PlaceIInv
  <1>6. CASE Deliver
    <2>1. UNCHANGED <<torCircuits, torStreams, closed>>
      BY <1>6 DEF Deliver
    <2>2. QED
      BY <1>1, <1>4, <1>6, <2>1, DeliverPlaces, SamePlaces
  <1>7. CASE TimerFires
    <2>1. PICK n \in LaunchesDue(player, now) : player' = LaunchNextCircuit(player, now, n)
      BY <1>7 DEF TimerFires
    <2>2. UNCHANGED <<events, torCircuits, torStreams, closed>>
      BY <1>7 DEF TimerFires, torVars
    <2>3. KeepsHold(player, LaunchNextCircuit(player, now, n))
      BY <1>3, LaunchNextHold
    <2>4. \A st \in Streams : PlacesIn(player', events', st) = PlacesIn(player, events, st)
      BY <2>1, <2>2, <2>3 DEF KeepsHold, PlacesIn
    <2>5. QED
      BY <1>1, <1>4, <2>2, <2>4, SamePlaces
  <1>8. CASE TimePasses \/ UNCHANGED allVars
    <2>1. UNCHANGED <<player, events, torCircuits, torStreams, closed>>
      BY <1>8 DEF TimePasses, torVars, allVars
    <2>2. QED
      BY <1>1, <1>4, <2>1, SamePlaces
  <1>9. CASE TorExtends \/ TorRefuses
    <2>1. /\ Takes("EXTENDCIRCUIT") /\ torStreams' = torStreams /\ closed' = closed
          /\ \A id \in CircuitIDs : torCircuits'[id].state = "closed" => torCircuits[id].state = "closed"
      BY <1>3, <1>9, SMTT(30) DEF TorExtends, TorRefuses
    <2>2. events' = events \/ \E id \in CircuitIDs : events' = Append(events, CircuitEvent("EXTENDED", id))
      BY <1>9 DEF TorExtends, TorRefuses
    <2>3. ASSUME NEW st \in Streams
          PROVE  PlacesIn(player', events', st) = PlacesIn(player, events, st)
      <3>1. CountIn(events', {StreamNew(st)}) = CountIn(events, {StreamNew(st)})
        <4>1. \A id \in CircuitIDs : CircuitEvent("EXTENDED", id) \in Event /\ CircuitEvent("EXTENDED", id).type # "NEW"
          BY DEF CircuitEvent, Event
        <4>2. QED
          BY <1>1, <2>2, <4>1, OtherNewsPlaces
      <3>2. Head(player.commands) \notin AttachmentsOf(st)
        BY <1>1, <2>1, TakenPlaces DEF AttachmentsOf
      <3>3. Holds(player, st) = Holds(player', st)
        BY <1>1, <2>1, <3>2, TakenPlaces
      <3>4. QED
        BY <3>1, <3>3 DEF PlacesIn
    <2>4. QED
      BY <1>1, <1>4, <2>1, <2>3, SamePlaces
  <1>10. CASE TorAttaches
    <2>1. UNCHANGED <<torCircuits, closed>>
      BY <1>10 DEF TorAttaches
    <2>2. QED
      BY <1>1, <1>4, <1>10, <2>1, TorAttachesPlaces
  <1>11. CASE \E id \in CircuitIDs : TorBuilds(id) \/ TorCloses(id)
    <2>1. PICK id \in CircuitIDs : TorBuilds(id) \/ TorCloses(id)
      BY <1>11
    <2>2. player' = player /\ torStreams' = torStreams
      BY <2>1 DEF TorBuilds, TorCloses, vars
    <2>3. \E type \in {"BUILT", "FAILED", "CLOSED"} : events' = Append(events, CircuitEvent(type, id))
      BY <2>1 DEF TorBuilds, TorCloses
    <2>4. \/ closed' = closed + 1
          \/ /\ closed' = closed
             /\ \A i \in CircuitIDs : torCircuits'[i].state = "closed" => torCircuits[i].state = "closed"
      <3>1. CASE TorCloses(id)
        BY <3>1 DEF TorCloses
      <3>2. CASE TorBuilds(id)
        <4>1. closed' = closed /\ torCircuits' = [torCircuits EXCEPT ![id].state = "built"]
          BY <3>2 DEF TorBuilds
        <4>2. \A i \in CircuitIDs : torCircuits'[i].state = IF i = id THEN "built" ELSE torCircuits[i].state
          BY <1>3, <4>1 DEF TorCircuit
        <4>3. QED
          BY <4>1, <4>2
      <3>3. QED
        BY <2>1, <3>1, <3>2
    <2>5. ASSUME NEW st \in Streams
          PROVE  PlacesIn(player', events', st) = PlacesIn(player, events, st)
      <3>1. \A type \in {"BUILT", "FAILED", "CLOSED"} :
               CircuitEvent(type, id) \in Event /\ CircuitEvent(type, id).type # "NEW"
        BY DEF CircuitEvent, Event
      <3>2. CountIn(events', {StreamNew(st)}) = CountIn(events, {StreamNew(st)})
        BY <1>1, <2>3, <3>1, OtherNewsPlaces
      <3>3. QED
        BY <2>2, <3>2 DEF PlacesIn
    <2>6. closed' = 0 => closed = 0
      BY <1>3, <2>4
    <2>7. OnePlace(player', events', torStreams', closed')
      BY <1>1, <2>2, <2>5, <2>6, SamePlaces
    <2>8. closed' > 0 \/ \A i \in CircuitIDs : torCircuits'[i].state # "closed"
      BY <1>3, <1>4, <2>4
    <2>9. QED
      BY <2>7, <2>8
  <1>12. CASE \E st \in Streams : ClientConnects(st) \/ TorDetaches(st) \/ StreamEnds(st)
    <2>1. UNCHANGED <<torCircuits, closed>>
      BY <1>12 DEF ClientConnects, TorDetaches, StreamEnds
    <2>2. QED
      BY <1>1, <1>4, <1>12, <2>1, StreamChangesPlaces
  <1>13. QED
    BY <1>1, <1>6, <1>7, <1>8, <1>9, <1>10, <1>11, <1>12 DEF TorNext

\* A stream is queued, or its attachment asked for, once per NEW or DETACHED; a
\* stream that waits in Tor is on that way unless a circuit has been closed.
THEOREM StreamsInOnePlace == Spec => []StreamInOnePlace
  <1>1. ASSUME PlaceIInv PROVE StreamInOnePlace
    <2>1. /\ player \in PlayerState /\ StreamsAtHome(player) /\ player.commands \in Seq(Command)
          /\ events \in Seq(Event)
      BY <1>1, TorFacts DEF PlaceIInv, Agrees
    <2>2. ASSUME NEW st \in Streams PROVE Places(st) = PlacesIn(player, events, st)
      <3>1. CountOf(events, LAMBDA e : e = StreamNew(st)) = CountIn(events, {StreamNew(st)})
        BY DEF CountOf, CountIn
      <3>2. CountOf(player.commands, LAMBDA m : m.type = "ATTACHSTREAM" /\ m.stream = st)
              = CountIn(player.commands, AttachmentsOf(st))
        <4>1. \A i \in DOMAIN player.commands :
                 (player.commands[i].type = "ATTACHSTREAM" /\ player.commands[i].stream = st)
                   <=> player.commands[i] \in AttachmentsOf(st)
          <5>1. \A i \in DOMAIN player.commands : player.commands[i] \in Command
            BY <2>1, ElementOfSeq, LenProperties
          <5>2. QED
            BY <5>1 DEF AttachmentsOf
        <4>2. QED
          BY <4>1 DEF CountOf, CountIn
      <3>3. Cardinality(QueuedAt(player, st)) = CountQueued(player, st)
        BY <2>1, QueuedIsCounted
      <3>4. CountIn(events, {StreamNew(st)}) \in Nat /\ CountQueued(player, st) \in Nat
            /\ CountIn(player.commands, AttachmentsOf(st)) \in Nat
        BY <2>1, PlacesType, HoldsType
      <3>5. QED
        BY <3>1, <3>2, <3>3, <3>4 DEF Places, PlacesIn, Holds
    <2>3. QED
      BY <1>1, <2>2 DEF PlaceIInv, OnePlace, StreamInOnePlace
  <1>2. QED
    BY <1>1, InitPlaces, NextPlaces, PTL DEF Spec
=============================================================================
