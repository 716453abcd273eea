---------------------------- MODULE PlayerProofs ----------------------------
(* Proofs about module Player: its inductive invariant first, then the order *)
(* in which circuits and launches are used and the count of waiting streams. *)
EXTENDS Player, SequenceLemmas

-----------------------------------------------------------------------------
(* The inductive invariant                                                 *)

\* What holds of the Player's state before and after every operation.
Core(p) ==
    /\ p \in PlayerState
    /\ QueuesOwnCircuits(p)
    /\ OnlyCurrentIsLaunched(p)
    /\ TableMatchesCircuits(p)
    /\ AwaitingIsLaunched(p)
    /\ BacklogKnown(p)
    /\ LaunchesKnown(p)

\* No wakeup is lost but, perhaps, that of session s, which is being handled.
WakeupExcept(p, s) ==
    \A r \in Sessions : p.waitingStreamIDs[r] # <<>> =>
        /\ r \in p.sessions
        /\ \/ r = s
           \/ p.heap[CurrentCircuit(p, r)].status \in {"LAUNCHED", "ASSIGNED"}
           \/ \E i \in DOMAIN p.sessionAssignmentBacklog : p.sessionAssignmentBacklog[i] = r

\* What holds at every iteration of the loop of handleSessionBacklog.
LoopInv(p) == Core(p) /\ NoLostWakeup(p)

IInv == now \in Nat /\ LoopInv(player) /\ BacklogAwaits(player)

-----------------------------------------------------------------------------
(* The operators on sequences                                              *)

LEMMA QueueHead ==
    ASSUME NEW S, NEW q \in Seq(S), q # <<>>
    PROVE  /\ Head(q) = q[1] /\ q[1] \in S
           /\ 1 \in DOMAIN q /\ DOMAIN q = 1..Len(q) /\ Len(q) \in Nat /\ Len(q) >= 1
           /\ Tail(q) \in Seq(S) /\ Len(Tail(q)) = Len(q) - 1
           /\ DOMAIN Tail(q) = 1..(Len(q) - 1)
           /\ \A i \in 1..(Len(q) - 1) : Tail(q)[i] = q[i + 1]
  OBVIOUS

LEMMA QueueSecond ==
    ASSUME NEW S, NEW q \in Seq(S), Len(q) > 1
    PROVE  /\ Tail(q) \in Seq(S) /\ Tail(q) # <<>> /\ Head(Tail(q)) = q[2]
           /\ DOMAIN Tail(q) = 1..(Len(q) - 1) /\ DOMAIN q = 1..Len(q) /\ Len(q) \in Nat
           /\ \A i \in 1..(Len(q) - 1) : Tail(q)[i] = q[i + 1]
  <1>1. q # <<>> /\ Len(<<>>) = 0
    BY EmptySeq
  <1>2. /\ Tail(q) \in Seq(S) /\ DOMAIN Tail(q) = 1..(Len(q) - 1) /\ DOMAIN q = 1..Len(q)
        /\ Len(q) \in Nat /\ Len(Tail(q)) = Len(q) - 1
        /\ \A i \in 1..(Len(q) - 1) : Tail(q)[i] = q[i + 1]
    BY <1>1, QueueHead
  <1>3. Len(Tail(q)) # 0
    BY <1>2
  <1>4. Tail(q) # <<>>
    BY <1>1, <1>3
  <1>5. Head(Tail(q)) = Tail(q)[1] /\ Tail(q)[1] = q[1 + 1]
    BY <1>2, <1>4, QueueHead
  <1>6. QED
    BY <1>2, <1>4, <1>5

LEMMA QueuePush ==
    ASSUME NEW S, NEW q \in Seq(S), NEW e \in S
    PROVE  /\ Append(q, e) \in Seq(S) /\ Append(q, e) # <<>>
           /\ DOMAIN Append(q, e) = 1..(Len(q) + 1) /\ DOMAIN q = 1..Len(q) /\ Len(q) \in Nat
           /\ \A i \in 1..Len(q) : Append(q, e)[i] = q[i]
           /\ Append(q, e)[Len(q) + 1] = e
  OBVIOUS

\* The current circuit of a session of the table is allocated and its own.
LEMMA CurrentCircuitOwned ==
    ASSUME NEW p, p \in PlayerState, QueuesOwnCircuits(p), NEW s \in p.sessions
    PROVE  /\ s \in Sessions
           /\ p.circuitsSorted[s] \in Seq(Circuits) /\ p.circuitsSorted[s] # <<>>
           /\ CurrentCircuit(p, s) = p.circuitsSorted[s][1]
           /\ CurrentCircuit(p, s) \in Circuits
           /\ p.heap[CurrentCircuit(p, s)] \in Circuit
           /\ p.heap[CurrentCircuit(p, s)].session = s
           /\ p.heap[CurrentCircuit(p, s)].status # "FREED"
  <1>1. s \in Sessions /\ p.circuitsSorted[s] \in Seq(Circuits) /\ p.heap \in [Circuits -> Circuit]
    BY DEF PlayerState
  <1>2. p.circuitsSorted[s] # <<>>
    BY <1>1 DEF QueuesOwnCircuits
  <1>3. /\ CurrentCircuit(p, s) = p.circuitsSorted[s][1]
        /\ CurrentCircuit(p, s) \in Circuits /\ 1 \in DOMAIN p.circuitsSorted[s]
    BY <1>1, <1>2, QueueHead DEF CurrentCircuit
  <1>4. QED
    BY <1>1, <1>2, <1>3 DEF QueuesOwnCircuits

-----------------------------------------------------------------------------
(* Attaching the waiting streams                                           *)

\* The streams of a queue, collected from one entry to the next.
Collects(w, real) ==
    /\ real \in [0..Len(w) -> Seq(Streams)]
    /\ real[0] = <<>>
    /\ \A i \in 1..Len(w) : real[i] = IF w[i] >= 0 THEN Append(real[i - 1], w[i]) ELSE real[i - 1]

LEMMA StreamsInCollects ==
    ASSUME NEW w \in Seq(Streams \cup {Preemptive})
    PROVE  \E real : Collects(w, real) /\ StreamsIn(w) = real[Len(w)]
  <1> DEFINE n == Len(w)
             V == Seq(Streams)
             Step(i, u) == IF w[i] >= 0 THEN Append(u, w[i]) ELSE u
             F == [iu \in (1..n) \X V |-> Step(iu[1], iu[2])]
             Real(f) == [i \in 0..n |-> IF i = 0 THEN <<>>
                                        ELSE IF w[i] >= 0 THEN Append(f[i - 1], w[i]) ELSE f[i - 1]]
             real == CHOOSE f : f = Real(f)
  <1>1. n \in Nat /\ <<>> \in V /\ \A i \in 1..n : w[i] >= 0 => w[i] \in Streams
    BY PlayerAssumption DEF Preemptive
  <1>2. F \in [(1..n) \X V -> V]
    BY <1>1
  <1>3. PICK f : Iterates(f, n, V, <<>>, F)
    <2>1. n \in Nat /\ <<>> \in V /\ F \in [(1..n) \X V -> V]
      BY <1>1, <1>2
    <2> HIDE DEF n, V, F
    <2>2. QED
      BY <2>1, FiniteRecursion, Zenon
  <1>4. f = Real(f)
    <2>0. f \in [0..n -> V] /\ f[0] = <<>> /\ \A i \in 1..n : f[i] = F[<<i, f[i - 1]>>]
      BY <1>3 DEF Iterates
    <2>1. ASSUME NEW i \in 1..n PROVE f[i] = Step(i, f[i - 1])
      <3> HIDE DEF F, V
      <3>1. i - 1 \in 0..n /\ f[i - 1] \in V
        BY <1>1, <2>0
      <3> USE DEF F, V
      <3>2. \A u \in V : F[<<i, u>>] = Step(i, u)
        OBVIOUS
      <3> HIDE DEF F, V, Step
      <3>3. QED
        BY <2>0, <3>1, <3>2
    <2> HIDE DEF F, V, n
    <2>2. f = [i \in 0..n |-> f[i]]
      BY <2>0
    <2>3. \A i \in 0..n : f[i] = Real(f)[i]
      <3>1. \A i \in 0..n : i # 0 => i \in 1..n
        BY <1>1 DEF n
      <3>2. QED
        BY <2>0, <2>1, <3>1
    <2>4. QED
      BY <2>2, <2>3
  <1>5. real = Real(real)
    BY <1>4
  <1>6. StreamsIn(w) = real[n]
    BY DEF StreamsIn
  <1> HIDE DEF real
  <1>7. \A i \in 0..n : real[i] \in V
    <2> DEFINE S == {i \in Nat : i <= n => real[i] \in V}
    <2>1. 0 \in S
      <3>1. real[0] = <<>>
        BY <1>1, <1>5
      <3>2. QED
        BY <1>1, <3>1
    <2>2. ASSUME NEW i \in S PROVE i + 1 \in S
      <3>1. SUFFICES ASSUME i + 1 <= n PROVE real[i + 1] \in V
        BY <2>2
      <3>2. i \in Nat /\ real[i] \in V /\ i + 1 \in 1..n /\ i + 1 \in 0..n /\ (i + 1) - 1 = i
        BY <1>1, <2>2, <3>1
      <3>3. real[i + 1] = IF w[i + 1] >= 0 THEN Append(real[i], w[i + 1]) ELSE real[i]
        <4> HIDE DEF n
        <4>1. Real(real)[i + 1] = IF w[i + 1] >= 0 THEN Append(real[i], w[i + 1]) ELSE real[i]
          BY <3>2, <1>1
        <4> HIDE DEF Real
        <4>2. QED
          BY <4>1, <1>5, Zenon
      <3>4. QED
        BY <3>2, <3>3, <1>1
    <2>3. S \subseteq Nat
      OBVIOUS
    <2>4. S = Nat
      <3> HIDE DEF S
      <3>1. QED
        BY <2>1, <2>2, <2>3, SetInduction
    <2>5. QED
      BY <2>4, <1>1
  <1>8. Collects(w, real)
    <2> HIDE DEF n
    <2>1. real = [i \in 0..n |-> real[i]]
      <3>1. DOMAIN Real(real) = 0..n /\ Real(real) = [i \in 0..n |-> Real(real)[i]]
        OBVIOUS
      <3> HIDE DEF Real
      <3>2. QED
        BY <3>1, <1>5
    <2>2. real \in [0..n -> V]
      <3> HIDE DEF V
      <3>1. QED
        BY <2>1, <1>7
    <2>3. real[0] = <<>>
      <3>1. 0 \in 0..n
        BY <1>1
      <3>2. Real(real)[0] = <<>>
        BY <3>1
      <3> HIDE DEF Real
      <3>3. QED
        BY <3>2, <1>5
    <2>4. ASSUME NEW i \in 1..n
          PROVE  real[i] = IF w[i] >= 0 THEN Append(real[i - 1], w[i]) ELSE real[i - 1]
      <3>1. i \in 0..n /\ i # 0
        BY <1>1
      <3>2. Real(real)[i] = IF w[i] >= 0 THEN Append(real[i - 1], w[i]) ELSE real[i - 1]
        BY <3>1
      <3> HIDE DEF Real
      <3>3. QED
        BY <3>2, <1>5, Zenon
    <2>5. QED
      BY <2>2, <2>3, <2>4 DEF Collects, n
  <1>9. QED
    BY <1>6, <1>8

LEMMA StreamsInType ==
    ASSUME NEW w \in Seq(Streams \cup {Preemptive})
    PROVE  StreamsIn(w) \in Seq(Streams)
  <1>1. PICK real : Collects(w, real) /\ StreamsIn(w) = real[Len(w)]
    BY StreamsInCollects
  <1>2. Len(w) \in 0..Len(w)
    BY LenProperties
  <1>3. QED
    BY <1>1, <1>2 DEF Collects

-----------------------------------------------------------------------------
(* Rotation                                                                *)

LEMMA RotateCore ==
    ASSUME NEW p, Core(p), NEW s \in p.sessions,
           p.sessionAwaitingAssignment # s, Len(p.circuitsSorted[s]) > 1
    PROVE  /\ Core(Rotate(p, s))
           /\ Rotate(p, s).sessions = p.sessions
           /\ Rotate(p, s).sessionAwaitingAssignment = p.sessionAwaitingAssignment
           /\ Rotate(p, s).sessionAssignmentBacklog = p.sessionAssignmentBacklog
           /\ Rotate(p, s).waitingStreamIDs = p.waitingStreamIDs
           /\ \A r \in p.sessions : r # s =>
                p.heap[CurrentCircuit(p, r)] = Rotate(p, s).heap[CurrentCircuit(Rotate(p, s), r)]
  <1> DEFINE q == Rotate(p, s)
             old == CurrentCircuit(p, s)
             sq == p.circuitsSorted[s]
  <1>1. /\ s \in Sessions /\ sq \in Seq(Circuits) /\ sq # <<>> /\ old = sq[1] /\ old \in Circuits
        /\ p.heap[old] \in Circuit /\ p.heap[old].session = s /\ p.heap[old].status # "FREED"
    BY CurrentCircuitOwned DEF Core
  <1>2. /\ q.heap = [p.heap EXCEPT ![old] = Freed]
        /\ q.sessions = p.sessions
        /\ q.circuitsSorted = [p.circuitsSorted EXCEPT ![s] = Tail(sq)]
        /\ q.waitingStreamIDs = p.waitingStreamIDs
        /\ q.circuits = [p.circuits EXCEPT ![p.heap[old].id] = NoCircuit]
        /\ q.launches = p.launches
        /\ q.sessionAwaitingAssignment = p.sessionAwaitingAssignment
        /\ q.sessionAssignmentBacklog = p.sessionAssignmentBacklog
        /\ q.streamsAssigning = p.streamsAssigning
        /\ q.circuitsBuilding = p.circuitsBuilding
        /\ q.commands = p.commands
        /\ DOMAIN q = DOMAIN p
    BY DEF Core, Rotate, PlayerState
  <1>3. q \in PlayerState
    <2>1. Freed \in Circuit /\ NoSession \notin Sessions
      BY PlayerAssumption DEF Freed, Circuit, IDs, CircuitStatus
    <2>2. Tail(sq) \in Seq(Circuits)
      BY <1>1
    <2>3. p.heap[old].id \in IDs
      BY <1>1 DEF Circuit
    <2>4. /\ q.heap \in [Circuits -> Circuit]
          /\ q.circuitsSorted \in [Sessions -> Seq(Circuits)]
          /\ q.circuits \in [IDs -> Circuits \cup {NoCircuit}]
      BY <1>1, <1>2, <2>1, <2>2, <2>3 DEF Core, PlayerState
    <2>5. q = [p EXCEPT !.heap = q.heap, !.circuitsSorted = q.circuitsSorted, !.circuits = q.circuits]
      BY DEF Rotate, Core, PlayerState
    <2>6. ASSUME NEW h \in [Circuits -> Circuit], NEW cs \in [Sessions -> Seq(Circuits)],
                 NEW ct \in [IDs -> Circuits \cup {NoCircuit}]
          PROVE  [p EXCEPT !.heap = h, !.circuitsSorted = cs, !.circuits = ct] \in PlayerState
      BY DEF Core, PlayerState
    <2>7. [p EXCEPT !.heap = q.heap, !.circuitsSorted = q.circuitsSorted, !.circuits = q.circuits] \in PlayerState
      <3> HIDE DEF q
      <3>1. QED
        BY <2>4, <2>6, Zenon
    <2>8. QED
      <3> HIDE DEF q
      <3>1. QED
        BY <2>5, <2>7, Zenon
  <1> HIDE DEF q, old, sq
  <1>s. /\ Tail(sq) \in Seq(Circuits) /\ Tail(sq) # <<>> /\ Head(Tail(sq)) = sq[2]
        /\ DOMAIN Tail(sq) = 1..(Len(sq) - 1) /\ DOMAIN sq = 1..Len(sq) /\ Len(sq) \in Nat
        /\ \A i \in 1..(Len(sq) - 1) : Tail(sq)[i] = sq[i + 1]
    BY <1>1, QueueSecond DEF sq
  <1>h. /\ \A c \in Circuits : c # old => q.heap[c] = p.heap[c]
        /\ q.heap[old] = Freed
        /\ \A r \in Sessions : r # s => q.circuitsSorted[r] = p.circuitsSorted[r]
        /\ q.circuitsSorted[s] = Tail(sq)
        /\ \A r \in Sessions : p.circuitsSorted[r] \in Seq(Circuits)
        /\ \A id \in IDs : p.circuits[id] \in Circuits \cup {NoCircuit}
        /\ \A c \in Circuits : p.heap[c] \in Circuit
    BY <1>1, <1>2 DEF Core, PlayerState
  <1>d. \A i \in DOMAIN sq : sq[i] \in Circuits /\ (i # 1 => sq[i] # old)
    BY <1>1, <1>s, <1>h DEF Core, QueuesOwnCircuits, sq
  <1>4. QueuesOwnCircuits(q)
    <2>1. ASSUME NEW r \in Sessions PROVE r \in q.sessions <=> q.circuitsSorted[r] # <<>>
      BY <1>1, <1>2, <1>s, SMTT(60) DEF Core, QueuesOwnCircuits, PlayerState, sq
    <2>2. ASSUME NEW r \in Sessions, NEW i \in DOMAIN q.circuitsSorted[r], NEW j \in DOMAIN q.circuitsSorted[r]
          PROVE  /\ q.heap[q.circuitsSorted[r][i]].session = r
                 /\ q.heap[q.circuitsSorted[r][i]].status # "FREED"
                 /\ q.circuitsSorted[r][i] = q.circuitsSorted[r][j] => i = j
      <3>1. CASE r = s
        <4>1. /\ i \in 1..(Len(sq) - 1) /\ j \in 1..(Len(sq) - 1)
              /\ q.circuitsSorted[r][i] = sq[i + 1] /\ q.circuitsSorted[r][j] = sq[j + 1]
              /\ i + 1 \in DOMAIN sq /\ j + 1 \in DOMAIN sq /\ i + 1 # 1 /\ j + 1 # 1
          BY <3>1, <1>h, <1>s
        <4>2. q.heap[sq[i + 1]] = p.heap[sq[i + 1]]
          BY <4>1, <1>h, <1>d
        <4>3. /\ p.heap[sq[i + 1]].session = s /\ p.heap[sq[i + 1]].status # "FREED"
              /\ sq[i + 1] = sq[j + 1] => i + 1 = j + 1
          <5> DEFINE m == i + 1
                     n == j + 1
          <5>1. m \in DOMAIN p.circuitsSorted[s] /\ n \in DOMAIN p.circuitsSorted[s]
            BY <4>1 DEF sq
          <5> HIDE DEF m, n
          <5>2. /\ p.heap[p.circuitsSorted[s][m]].session = s /\ p.heap[p.circuitsSorted[s][m]].status # "FREED"
                /\ p.circuitsSorted[s][m] = p.circuitsSorted[s][n] => m = n
            <6>1. s \in Sessions /\ QueuesOwnCircuits(p)
              BY <1>1 DEF Core
            <6>2. QED
              BY ONLY <6>1, <5>1 DEF QueuesOwnCircuits
          <5>3. QED
            BY <5>2, Zenon DEF m, n, sq
        <4>4. i + 1 = j + 1 => i = j
          BY <4>1
        <4>5. QED
          BY <4>1, <4>2, <4>3, <4>4, <3>1
      <3>2. CASE r # s
        <4>1. q.circuitsSorted[r] = p.circuitsSorted[r]
          BY <1>h, <3>2
        <4>2. p.circuitsSorted[r][i] \in Circuits /\ p.circuitsSorted[r][i] # old
          BY <1>1, <1>2, <3>2, <4>1 DEF Core, QueuesOwnCircuits, PlayerState
        <4>3. QED
          BY <1>h, <4>1, <4>2 DEF Core, QueuesOwnCircuits
      <3>3. QED
        BY <3>1, <3>2
    <2>3. ASSUME NEW c \in Circuits, q.heap[c].status # "FREED"
          PROVE  /\ q.heap[c].session \in Sessions
                 /\ \E i \in DOMAIN q.circuitsSorted[q.heap[c].session] :
                       q.circuitsSorted[q.heap[c].session][i] = c
      <3>1. c # old /\ q.heap[c] = p.heap[c] /\ p.heap[c].status # "FREED"
        BY <2>3, <1>h DEF Freed
      <3>2. /\ p.heap[c].session \in Sessions
            /\ \E i \in DOMAIN p.circuitsSorted[p.heap[c].session] : p.circuitsSorted[p.heap[c].session][i] = c
        BY <3>1 DEF Core, QueuesOwnCircuits
      <3>3. CASE p.heap[c].session = s
        <4>1. PICK i \in DOMAIN sq : sq[i] = c
          BY <3>2, <3>3 DEF sq
        <4>2. i # 1 /\ i - 1 \in 1..(Len(sq) - 1) /\ Tail(sq)[i - 1] = sq[(i - 1) + 1] /\ (i - 1) + 1 = i
          BY <4>1, <3>1, <1>1, <1>s
        <4>3. QED
          BY <3>1, <3>2, <3>3, <4>1, <4>2, <1>s, <1>h
      <3>4. CASE p.heap[c].session # s
        BY <3>1, <3>2, <3>4, <1>h
      <3>5. QED
        BY <3>3, <3>4
    <2>4. QED
      BY <2>1, <2>2, <2>3 DEF QueuesOwnCircuits
  <1>5. OnlyCurrentIsLaunched(q)
    <2>1. ASSUME NEW r \in Sessions, NEW i \in DOMAIN q.circuitsSorted[r], i > 1
          PROVE  q.heap[q.circuitsSorted[r][i]].status = "NONE"
      <3>1. CASE r = s
        <4>1. i \in 1..(Len(sq) - 1) /\ q.circuitsSorted[r][i] = sq[i + 1] /\ i + 1 \in DOMAIN sq /\ i + 1 > 1
          BY <3>1, <2>1, <1>h, <1>s
        <4>2. QED
          <5>1. q.heap[sq[i + 1]] = p.heap[sq[i + 1]]
            BY <4>1, <1>d, <1>h
          <5>2. p.heap[sq[i + 1]].status = "NONE"
            BY <4>1, <1>1 DEF Core, OnlyCurrentIsLaunched, sq
          <5>3. QED
            BY <4>1, <5>1, <5>2
      <3>2. CASE r # s
        <4>1. q.circuitsSorted[r] = p.circuitsSorted[r]
          BY <1>h, <3>2
        <4>2. p.circuitsSorted[r][i] \in Circuits /\ p.circuitsSorted[r][i] # old
          BY <1>1, <1>2, <3>2, <4>1 DEF Core, QueuesOwnCircuits, PlayerState
        <4>3. QED
          BY <1>h, <2>1, <4>1, <4>2 DEF Core, OnlyCurrentIsLaunched
      <3>3. QED
        BY <3>1, <3>2
    <2>2. QED
      BY <2>1 DEF OnlyCurrentIsLaunched
  <1>6. TableMatchesCircuits(q)
    <2>0. /\ q.circuits[p.heap[old].id] = NoCircuit
          /\ \A id \in IDs : id # p.heap[old].id => q.circuits[id] = p.circuits[id]
          /\ NoCircuit \notin Circuits
      BY <1>1, <1>2, PlayerAssumption DEF Core, PlayerState, Circuit
    <2>1. ASSUME NEW id \in IDs, q.circuits[id] # NoCircuit
          PROVE  q.heap[q.circuits[id]].status \in {"ASSIGNED", "BUILT"} /\ q.heap[q.circuits[id]].id = id
      <3>1. id # p.heap[old].id /\ q.circuits[id] = p.circuits[id] /\ p.circuits[id] \in Circuits
        BY <2>0, <2>1, <1>h
      <3>2. p.heap[p.circuits[id]].status \in {"ASSIGNED", "BUILT"} /\ p.heap[p.circuits[id]].id = id
        BY <2>1, <3>1 DEF Core, TableMatchesCircuits
      <3>3. QED
        BY <3>1, <3>2, <1>h
    <2>2. ASSUME NEW c \in Circuits
          PROVE  IF q.heap[c].status \in {"ASSIGNED", "BUILT"}
                 THEN q.heap[c].id # 0 /\ q.circuits[q.heap[c].id] = c
                 ELSE q.heap[c].id = 0
      <3>1. CASE c = old
        BY <3>1, <1>h DEF Freed
      <3>2. CASE c # old
        <4>1. q.heap[c] = p.heap[c] /\ p.heap[c].id \in IDs
          BY <3>2, <1>h DEF Circuit
        <4>2. CASE p.heap[c].status \in {"ASSIGNED", "BUILT"}
          <5>1. p.heap[c].id # 0 /\ p.circuits[p.heap[c].id] = c
            BY <4>2 DEF Core, TableMatchesCircuits
          <5>2. p.heap[c].id # p.heap[old].id
            BY <5>1, <1>1, <3>2 DEF Core, TableMatchesCircuits
          <5>3. QED
            BY <4>1, <4>2, <5>1, <5>2, <2>0
        <4>3. CASE p.heap[c].status \notin {"ASSIGNED", "BUILT"}
          BY <4>1, <4>3 DEF Core, TableMatchesCircuits
        <4>4. QED
          BY <4>2, <4>3
      <3>3. QED
        BY <3>1, <3>2
    <2>3. QED
      BY <2>1, <2>2 DEF TableMatchesCircuits
  <1>o. ASSUME NEW r \in p.sessions, r # s
        PROVE  CurrentCircuit(q, r) = CurrentCircuit(p, r) /\ q.heap[CurrentCircuit(q, r)] = p.heap[CurrentCircuit(p, r)]
    <2>1. /\ r \in Sessions /\ CurrentCircuit(p, r) \in Circuits /\ p.heap[CurrentCircuit(p, r)].session = r
      BY CurrentCircuitOwned DEF Core
    <2>2. CurrentCircuit(q, r) = CurrentCircuit(p, r)
      BY <2>1, <1>h, <1>o DEF CurrentCircuit
    <2>3. QED
      BY <2>1, <2>2, <1>h, <1>o, <1>1
  <1>7. AwaitingIsLaunched(q)
    <2>1. ASSUME NEW r \in Sessions, r \in q.sessions
          PROVE  q.heap[CurrentCircuit(q, r)].status = "LAUNCHED" <=> q.sessionAwaitingAssignment = r
      <3>1. CASE r = s
        <4>1. CurrentCircuit(q, r) = sq[2] /\ 2 \in DOMAIN sq /\ sq[2] \in Circuits /\ sq[2] # old
          BY <3>1, <1>h, <1>s, <1>d DEF CurrentCircuit, sq
        <4>2. q.heap[sq[2]].status = "NONE"
          BY <4>1, <1>1, <1>h DEF Core, OnlyCurrentIsLaunched, sq
        <4>3. QED
          BY <3>1, <4>1, <4>2, <1>2
      <3>2. CASE r # s
        BY <3>2, <2>1, <1>2, <1>o DEF Core, AwaitingIsLaunched
      <3>3. QED
        BY <3>1, <3>2
    <2>2. QED
      BY <2>1, <1>2 DEF Core, AwaitingIsLaunched
  <1>8. BacklogKnown(q) /\ LaunchesKnown(q)
    BY <1>2 DEF Core, BacklogKnown, LaunchesKnown
  <1>9. QED
    BY <1>2, <1>3, <1>4, <1>5, <1>6, <1>7, <1>8, <1>o DEF Core, q
-----------------------------------------------------------------------------
(* The outcomes of handleSession                                           *)

\* Two states with the same circuits, queues and table, where the same session
\* awaits an id, agree on the invariants about circuits.
SameCircuits(p, q) ==
    /\ q.heap = p.heap /\ q.sessions = p.sessions /\ q.circuitsSorted = p.circuitsSorted
    /\ q.circuits = p.circuits /\ q.sessionAwaitingAssignment = p.sessionAwaitingAssignment

LEMMA SameCircuitsCore ==
    ASSUME NEW p, NEW q, SameCircuits(p, q)
    PROVE  /\ QueuesOwnCircuits(p) => QueuesOwnCircuits(q)
           /\ OnlyCurrentIsLaunched(p) => OnlyCurrentIsLaunched(q)
           /\ TableMatchesCircuits(p) => TableMatchesCircuits(q)
           /\ AwaitingIsLaunched(p) => AwaitingIsLaunched(q)
           /\ \A s : CurrentCircuit(q, s) = CurrentCircuit(p, s)
  <1>1. QueuesOwnCircuits(p) => QueuesOwnCircuits(q)
    BY DEF SameCircuits, QueuesOwnCircuits
  <1>2. OnlyCurrentIsLaunched(p) => OnlyCurrentIsLaunched(q)
    BY DEF SameCircuits, OnlyCurrentIsLaunched
  <1>3. TableMatchesCircuits(p) => TableMatchesCircuits(q)
    BY DEF SameCircuits, TableMatchesCircuits
  <1>4. AwaitingIsLaunched(p) => AwaitingIsLaunched(q)
    BY DEF SameCircuits, AwaitingIsLaunched, CurrentCircuit
  <1>5. QED
    BY <1>1, <1>2, <1>3, <1>4 DEF SameCircuits, CurrentCircuit

LEMMA EnterBacklogCore ==
    ASSUME NEW p, Core(p), NEW s \in p.sessions, WakeupExcept(p, s)
    PROVE  /\ LoopInv(EnterBacklog(p, s))
           /\ EnterBacklog(p, s).sessionAwaitingAssignment = p.sessionAwaitingAssignment
  <1> DEFINE q == EnterBacklog(p, s)
             pb == p.sessionAssignmentBacklog
             qb == q.sessionAssignmentBacklog
  <1>1. p \in PlayerState /\ s \in Sessions /\ pb \in Seq(Sessions)
    BY DEF Core, PlayerState
  <1>2. /\ SameCircuits(p, q) /\ qb = Append(pb, s)
        /\ q.launches = p.launches /\ q.waitingStreamIDs = p.waitingStreamIDs
    BY <1>1 DEF EnterBacklog, PlayerState, SameCircuits
  <1>3. q \in PlayerState
    <2>1. Append(pb, s) \in Seq(Sessions)
      BY <1>1
    <2>2. ASSUME NEW b \in Seq(Sessions)
          PROVE  [p EXCEPT !.sessionAssignmentBacklog = b] \in PlayerState
      BY <1>1 DEF PlayerState
    <2>3. QED
      BY <2>1, <2>2 DEF EnterBacklog
  <1>4. /\ DOMAIN qb = 1..(Len(pb) + 1) /\ DOMAIN pb = 1..Len(pb) /\ Len(pb) \in Nat
        /\ \A i \in 1..Len(pb) : qb[i] = pb[i]
        /\ qb[Len(pb) + 1] = s
    BY <1>1, <1>2, QueuePush
  <1> HIDE DEF q, pb, qb
  <1>5. BacklogKnown(q)
    BY <1>2, <1>4 DEF Core, BacklogKnown, SameCircuits, pb, qb
  <1>6. LaunchesKnown(q)
    BY <1>2 DEF Core, LaunchesKnown, SameCircuits
  <1>7. Core(q)
    BY <1>2, <1>3, <1>5, <1>6, SameCircuitsCore DEF Core
  <1>8. NoLostWakeup(q)
    <2>1. ASSUME NEW r \in Sessions, q.waitingStreamIDs[r] # <<>>
          PROVE  /\ r \in q.sessions
                 /\ \/ q.heap[CurrentCircuit(q, r)].status \in {"LAUNCHED", "ASSIGNED"}
                    \/ \E i \in DOMAIN qb : qb[i] = r
      <3>1. /\ r \in p.sessions
            /\ \/ r = s
               \/ p.heap[CurrentCircuit(p, r)].status \in {"LAUNCHED", "ASSIGNED"}
               \/ \E i \in DOMAIN pb : pb[i] = r
        BY <1>2, <2>1 DEF WakeupExcept, pb
      <3>2. CASE r = s
        BY <3>1, <3>2, <1>2, <1>4 DEF SameCircuits
      <3>3. CASE p.heap[CurrentCircuit(p, r)].status \in {"LAUNCHED", "ASSIGNED"}
        BY <3>1, <3>3, <1>2, SameCircuitsCore DEF SameCircuits
      <3>4. CASE \E i \in DOMAIN pb : pb[i] = r
        BY <3>1, <3>4, <1>2, <1>4 DEF SameCircuits
      <3>5. QED
        BY <3>1, <3>2, <3>3, <3>4
    <2>2. QED
      BY <2>1 DEF NoLostWakeup, qb
  <1>9. QED
    BY <1>2, <1>7, <1>8 DEF LoopInv, SameCircuits, q

LEMMA AttachWaitingCore ==
    ASSUME NEW p, Core(p), NEW s \in p.sessions, WakeupExcept(p, s)
    PROVE  /\ LoopInv(AttachWaiting(p, s))
           /\ AttachWaiting(p, s).sessionAwaitingAssignment = p.sessionAwaitingAssignment
           /\ AttachWaiting(p, s).sessionAssignmentBacklog = p.sessionAssignmentBacklog
  <1> DEFINE q == AttachWaiting(p, s)
             ready == StreamsIn(p.waitingStreamIDs[s])
             id == p.heap[CurrentCircuit(p, s)].id
             attach == [i \in DOMAIN ready |-> AttachStream(ready[i], id)]
  <1>1. p \in PlayerState /\ s \in Sessions /\ p.waitingStreamIDs[s] \in Seq(Streams \cup {Preemptive})
    BY DEF Core, PlayerState
  <1>2. ready \in Seq(Streams)
    BY <1>1, StreamsInType
  <1>3. id \in IDs
    BY CurrentCircuitOwned DEF Core, Circuit
  <1>4. attach \in Seq(Command)
    <2>1. \A i \in DOMAIN ready : ready[i] \in Streams
      BY <1>2
    <2>2. \A i \in DOMAIN ready : AttachStream(ready[i], id) \in Command
      BY <2>1, <1>3 DEF AttachStream, Command
    <2>3. DOMAIN ready = 1..Len(ready) /\ Len(ready) \in Nat
      BY <1>2
    <2> HIDE DEF ready, id
    <2>4. QED
      BY <2>2, <2>3
  <1>5. /\ SameCircuits(p, q)
        /\ q.launches = p.launches /\ q.sessionAssignmentBacklog = p.sessionAssignmentBacklog
        /\ q.waitingStreamIDs = [p.waitingStreamIDs EXCEPT ![s] = <<>>]
    BY <1>1 DEF AttachWaiting, PlayerState, SameCircuits
  <1>6. q \in PlayerState
    <2>1. /\ [p.waitingStreamIDs EXCEPT ![s] = <<>>] \in [Sessions -> Seq(Streams \cup {Preemptive})]
          /\ p.streamsAssigning - Len(ready) \in Int
          /\ p.commands \o attach \in Seq(Command)
      <3>1. p.commands \in Seq(Command) /\ p.streamsAssigning \in Int /\ Len(ready) \in Nat
        BY <1>1, <1>2 DEF PlayerState
      <3>2. <<>> \in Seq(Streams \cup {Preemptive})
        BY EmptySeq
      <3> HIDE DEF ready, attach
      <3>3. QED
        BY <1>1, <1>4, <3>1, <3>2, ConcatProperties DEF PlayerState
    <2>2. ASSUME NEW w \in [Sessions -> Seq(Streams \cup {Preemptive})], NEW n \in Int, NEW m \in Seq(Command)
          PROVE  [p EXCEPT !.waitingStreamIDs = w, !.streamsAssigning = n, !.commands = m] \in PlayerState
      BY <1>1 DEF PlayerState
    <2>3. q = [p EXCEPT !.waitingStreamIDs = [p.waitingStreamIDs EXCEPT ![s] = <<>>],
                        !.streamsAssigning = p.streamsAssigning - Len(ready),
                        !.commands = p.commands \o attach]
      BY <1>1 DEF AttachWaiting, PlayerState
    <2> HIDE DEF q, ready, attach
    <2>4. QED
      BY <2>1, <2>2, <2>3
  <1> HIDE DEF q
  <1>7. BacklogKnown(q) /\ LaunchesKnown(q)
    BY <1>5 DEF Core, BacklogKnown, LaunchesKnown, SameCircuits
  <1>8. Core(q)
    BY <1>5, <1>6, <1>7, SameCircuitsCore DEF Core
  <1>9. NoLostWakeup(q)
    <2>1. ASSUME NEW r \in Sessions, q.waitingStreamIDs[r] # <<>>
          PROVE  r # s /\ p.waitingStreamIDs[r] # <<>>
      BY <1>1, <1>5, <2>1 DEF PlayerState
    <2>2. QED
      BY <2>1, <1>5, SameCircuitsCore DEF NoLostWakeup, WakeupExcept, SameCircuits
  <1>10. QED
    BY <1>5, <1>8, <1>9 DEF LoopInv, SameCircuits, q

\* A change of one current circuit, of session s, that keeps what it is for.
UpdatesCurrent(p, q, s, h) ==
    /\ h \in Circuit /\ h.session = s /\ h.status # "FREED"
    /\ q.heap = [p.heap EXCEPT ![CurrentCircuit(p, s)] = h]
    /\ q.sessions = p.sessions /\ q.circuitsSorted = p.circuitsSorted

LEMMA CircuitUpdate ==
    ASSUME NEW p, NEW q, NEW s \in p.sessions, NEW h, Core(p), UpdatesCurrent(p, q, s, h)
    PROVE  /\ QueuesOwnCircuits(q)
           /\ OnlyCurrentIsLaunched(q)
           /\ CurrentCircuit(q, s) = CurrentCircuit(p, s)
           /\ q.heap[CurrentCircuit(q, s)] = h
           /\ \A c \in Circuits : c # CurrentCircuit(p, s) => q.heap[c] = p.heap[c]
           /\ \A r \in p.sessions : r # s =>
                /\ CurrentCircuit(q, r) = CurrentCircuit(p, r)
                /\ q.heap[CurrentCircuit(q, r)] = p.heap[CurrentCircuit(p, r)]
  <1> DEFINE c == CurrentCircuit(p, s)
  <1> USE DEF UpdatesCurrent
  <1>1. /\ p.heap \in [Circuits -> Circuit] /\ s \in Sessions
        /\ \A r \in Sessions : p.circuitsSorted[r] \in Seq(Circuits)
    BY DEF Core, PlayerState
  <1>2. /\ p.circuitsSorted[s] # <<>> /\ c = p.circuitsSorted[s][1] /\ c \in Circuits
        /\ p.heap[c].session = s /\ p.heap[c].status # "FREED"
    BY CurrentCircuitOwned DEF Core
  <1>3. /\ q.heap[c] = h
        /\ \A d \in Circuits : d # c => q.heap[d] = p.heap[d]
    BY <1>1, <1>2
  <1>4. \A d \in Circuits : q.heap[d].session = p.heap[d].session /\ (q.heap[d].status # "FREED" <=> p.heap[d].status # "FREED")
    BY <1>2, <1>3
  <1>5. \A r \in Sessions : \A i \in DOMAIN p.circuitsSorted[r] : p.circuitsSorted[r][i] \in Circuits
    BY <1>1
  <1>6. QueuesOwnCircuits(q)
    <2>1. \A r \in Sessions : r \in q.sessions <=> q.circuitsSorted[r] # <<>>
      BY DEF Core, QueuesOwnCircuits
    <2>2. ASSUME NEW r \in Sessions, NEW i \in DOMAIN q.circuitsSorted[r], NEW j \in DOMAIN q.circuitsSorted[r]
          PROVE  /\ q.heap[q.circuitsSorted[r][i]].session = r
                 /\ q.heap[q.circuitsSorted[r][i]].status # "FREED"
                 /\ q.circuitsSorted[r][i] = q.circuitsSorted[r][j] => i = j
      BY <1>4, <1>5 DEF Core, QueuesOwnCircuits
    <2>3. ASSUME NEW d \in Circuits, q.heap[d].status # "FREED"
          PROVE  /\ q.heap[d].session \in Sessions
                 /\ \E i \in DOMAIN q.circuitsSorted[q.heap[d].session] :
                       q.circuitsSorted[q.heap[d].session][i] = d
      BY <1>4, <2>3 DEF Core, QueuesOwnCircuits
    <2>4. QED
      BY <2>1, <2>2, <2>3 DEF QueuesOwnCircuits
  <1>7. OnlyCurrentIsLaunched(q)
    <2>1. ASSUME NEW r \in Sessions, NEW i \in DOMAIN q.circuitsSorted[r], i > 1
          PROVE  q.heap[q.circuitsSorted[r][i]].status = "NONE"
      <3>1. p.circuitsSorted[r][i] \in Circuits /\ p.heap[p.circuitsSorted[r][i]].status = "NONE"
        BY <1>5, <2>1 DEF Core, OnlyCurrentIsLaunched
      <3>2. p.circuitsSorted[r][i] # c
        <4>1. CASE r = s
          <5>1. 1 \in DOMAIN p.circuitsSorted[s] /\ i # 1
            BY <1>1, <1>2, <2>1, QueueHead
          <5>2. QED
            BY <4>1, <5>1, <1>1, <1>2, <2>1 DEF Core, QueuesOwnCircuits
        <4>2. CASE r # s
          BY <4>2, <1>2, <2>1 DEF Core, QueuesOwnCircuits
        <4>3. QED
          BY <4>1, <4>2
      <3>3. QED
        BY <3>1, <3>2, <1>3
    <2>2. QED
      BY <2>1 DEF OnlyCurrentIsLaunched
  <1>8. ASSUME NEW r \in p.sessions
        PROVE  CurrentCircuit(q, r) = CurrentCircuit(p, r)
    BY DEF CurrentCircuit
  <1>9. ASSUME NEW r \in p.sessions, r # s
        PROVE  q.heap[CurrentCircuit(q, r)] = p.heap[CurrentCircuit(p, r)]
    <2>1. CurrentCircuit(p, r) \in Circuits /\ p.heap[CurrentCircuit(p, r)].session = r
      BY CurrentCircuitOwned DEF Core
    <2>2. QED
      BY <2>1, <1>2, <1>3, <1>8, <1>9
  <1>10. QED
    BY <1>3, <1>6, <1>7, <1>8, <1>9

LEMMA LaunchCircuitCore ==
    ASSUME NEW p, Core(p), NEW s \in p.sessions, WakeupExcept(p, s),
           p.sessionAwaitingAssignment = NoSession,
           p.heap[CurrentCircuit(p, s)].status = "NONE"
    PROVE  /\ LoopInv(LaunchCircuit(p, s))
           /\ LaunchCircuit(p, s).sessionAwaitingAssignment = s
           /\ LaunchCircuit(p, s).sessionAssignmentBacklog = p.sessionAssignmentBacklog
  <1> DEFINE q == LaunchCircuit(p, s)
             c == CurrentCircuit(p, s)
             h == [p.heap[c] EXCEPT !.status = "LAUNCHED"]
             extend == ExtendCircuit(s, c, p.heap[c].path /\ p.heap[c].failures < 3)
  <1>1. /\ p \in PlayerState /\ s \in Sessions /\ c \in Circuits /\ p.heap[c] \in Circuit
        /\ p.heap[c].session = s
    BY CurrentCircuitOwned DEF Core
  <1>2. h \in Circuit /\ h.session = s /\ h.status = "LAUNCHED" /\ h.id = p.heap[c].id
    BY <1>1 DEF Circuit, CircuitStatus
  <1>3. extend \in Command
    <2>1. (p.heap[c].path /\ p.heap[c].failures < 3) \in BOOLEAN
      OBVIOUS
    <2>2. QED
      BY <1>1, <2>1 DEF ExtendCircuit, Command
  <1>4. /\ q.heap = [p.heap EXCEPT ![c] = h]
        /\ q.sessions = p.sessions /\ q.circuitsSorted = p.circuitsSorted
        /\ q.circuits = p.circuits /\ q.launches = p.launches
        /\ q.waitingStreamIDs = p.waitingStreamIDs
        /\ q.sessionAssignmentBacklog = p.sessionAssignmentBacklog
        /\ q.sessionAwaitingAssignment = s
    BY <1>1 DEF LaunchCircuit, PlayerState
  <1>5. q \in PlayerState
    <2>1. /\ [p.heap EXCEPT ![c] = h] \in [Circuits -> Circuit]
          /\ Append(p.commands, extend) \in Seq(Command)
          /\ p.circuitsBuilding + 1 \in Int
      <3> HIDE DEF extend, h
      <3>1. QED
        BY <1>1, <1>2, <1>3 DEF PlayerState
    <2>2. ASSUME NEW hp \in [Circuits -> Circuit], NEW n \in Int, NEW a \in Sessions, NEW m \in Seq(Command)
          PROVE  [p EXCEPT !.commands = m, !.circuitsBuilding = n,
                           !.sessionAwaitingAssignment = a, !.heap = hp] \in PlayerState
      BY <1>1 DEF PlayerState
    <2>3. q = [p EXCEPT !.commands = Append(p.commands, extend), !.circuitsBuilding = p.circuitsBuilding + 1,
                        !.sessionAwaitingAssignment = s, !.heap = [p.heap EXCEPT ![c] = h]]
      BY <1>1 DEF LaunchCircuit, PlayerState
    <2> HIDE DEF q, extend, h
    <2>4. QED
      BY <1>1, <2>1, <2>2, <2>3
  <1> HIDE DEF q, h
  <1>6. /\ QueuesOwnCircuits(q) /\ OnlyCurrentIsLaunched(q)
        /\ CurrentCircuit(q, s) = c /\ q.heap[c] = h
        /\ \A d \in Circuits : d # c => q.heap[d] = p.heap[d]
        /\ \A r \in p.sessions : r # s => q.heap[CurrentCircuit(q, r)] = p.heap[CurrentCircuit(p, r)]
    <2>1. UpdatesCurrent(p, q, s, h)
      BY <1>2, <1>4 DEF UpdatesCurrent
    <2> HIDE DEF c
    <2>3. /\ QueuesOwnCircuits(q) /\ OnlyCurrentIsLaunched(q)
          /\ CurrentCircuit(q, s) = CurrentCircuit(p, s) /\ q.heap[CurrentCircuit(q, s)] = h
          /\ \A d \in Circuits : d # CurrentCircuit(p, s) => q.heap[d] = p.heap[d]
          /\ \A r \in p.sessions : r # s => q.heap[CurrentCircuit(q, r)] = p.heap[CurrentCircuit(p, r)]
      BY <2>1, CircuitUpdate
    <2>4. QED
      BY <2>3 DEF c
  <1>7. TableMatchesCircuits(q)
    <2>1. p.heap[c].id = 0 /\ \A id \in IDs : p.circuits[id] # c
      <3>1. TableMatchesCircuits(p) /\ c # NoCircuit /\ c \in Circuits /\ p.heap[c].status = "NONE"
        BY <1>1, PlayerAssumption DEF Core
      <3> HIDE DEF c
      <3>2. QED
        BY <3>1 DEF TableMatchesCircuits
    <2>2. \A id \in IDs : p.circuits[id] # NoCircuit => p.circuits[id] \in Circuits
      BY <1>1 DEF PlayerState
    <2>3. ASSUME NEW id \in IDs, q.circuits[id] # NoCircuit
          PROVE  q.heap[q.circuits[id]].status \in {"ASSIGNED", "BUILT"} /\ q.heap[q.circuits[id]].id = id
      BY <2>1, <2>2, <2>3, <1>4, <1>6 DEF Core, TableMatchesCircuits
    <2>4. ASSUME NEW d \in Circuits
          PROVE  IF q.heap[d].status \in {"ASSIGNED", "BUILT"}
                 THEN q.heap[d].id # 0 /\ q.circuits[q.heap[d].id] = d
                 ELSE q.heap[d].id = 0
      <3>1. CASE d = c
        BY <3>1, <2>1, <1>2, <1>6
      <3>2. CASE d # c
        BY <3>2, <1>4, <1>6 DEF Core, TableMatchesCircuits
      <3>3. QED
        BY <3>1, <3>2
    <2>5. QED
      BY <2>3, <2>4 DEF TableMatchesCircuits
  <1>8. AwaitingIsLaunched(q)
    <2>1. ASSUME NEW r \in Sessions, r \in q.sessions
          PROVE  q.heap[CurrentCircuit(q, r)].status = "LAUNCHED" <=> q.sessionAwaitingAssignment = r
      <3>1. CASE r = s
        BY <3>1, <1>2, <1>4, <1>6
      <3>2. CASE r # s
        <4>1. p.heap[CurrentCircuit(p, r)].status # "LAUNCHED"
          BY <2>1, <1>4, PlayerAssumption DEF Core, AwaitingIsLaunched
        <4>2. QED
          BY <3>2, <4>1, <2>1, <1>4, <1>6
      <3>3. QED
        BY <3>1, <3>2
    <2>2. QED
      BY <2>1, <1>4 DEF AwaitingIsLaunched
  <1>9. BacklogKnown(q) /\ LaunchesKnown(q)
    BY <1>4 DEF Core, BacklogKnown, LaunchesKnown
  <1>10. NoLostWakeup(q)
    <2>1. ASSUME NEW r \in Sessions, q.waitingStreamIDs[r] # <<>>
          PROVE  /\ r \in q.sessions
                 /\ \/ q.heap[CurrentCircuit(q, r)].status \in {"LAUNCHED", "ASSIGNED"}
                    \/ \E i \in DOMAIN q.sessionAssignmentBacklog : q.sessionAssignmentBacklog[i] = r
      <3>1. CASE r = s
        BY <3>1, <1>2, <1>4, <1>6
      <3>2. CASE r # s
        BY <3>2, <2>1, <1>4, <1>6 DEF WakeupExcept
      <3>3. QED
        BY <3>1, <3>2
    <2>2. QED
      BY <2>1 DEF NoLostWakeup
  <1>11. QED
    BY <1>4, <1>5, <1>6, <1>7, <1>8, <1>9, <1>10 DEF Core, LoopInv, q

\* Handling a session restores its wakeup, and puts it back in the backlog only
\* if another session awaits its id.
LEMMA HandleSessionCore ==
    ASSUME NEW p, Core(p), NEW s \in p.sessions, NEW t \in Nat, WakeupExcept(p, s),
           p.sessionAwaitingAssignment # s
    PROVE  /\ LoopInv(HandleSession(p, t, s))
           /\ p.sessionAwaitingAssignment = NoSession =>
                HandleSession(p, t, s).sessionAssignmentBacklog = p.sessionAssignmentBacklog
           /\ p.sessionAwaitingAssignment # NoSession =>
                HandleSession(p, t, s).sessionAwaitingAssignment # NoSession
  <1> DEFINE cur == GetCurrentCircuit(p, t, s)
             status == cur.heap[CurrentCircuit(cur, s)].status
             q == HandleSession(p, t, s)
  <1>1. /\ Core(cur) /\ cur.sessions = p.sessions
        /\ cur.sessionAwaitingAssignment = p.sessionAwaitingAssignment
        /\ cur.sessionAssignmentBacklog = p.sessionAssignmentBacklog
        /\ cur.waitingStreamIDs = p.waitingStreamIDs
        /\ \A r \in p.sessions : r # s =>
             cur.heap[CurrentCircuit(cur, r)] = p.heap[CurrentCircuit(p, r)]
    <2>1. CASE RotationDue(p, t, s)
      <3>1. cur = Rotate(p, s) /\ Len(p.circuitsSorted[s]) > 1
        BY <2>1 DEF GetCurrentCircuit, RotationDue
      <3> HIDE DEF cur
      <3>2. QED
        BY <3>1, RotateCore
    <2>2. CASE ~RotationDue(p, t, s)
      BY <2>2 DEF GetCurrentCircuit
    <2>3. QED
      BY <2>1, <2>2
  <1> HIDE DEF cur
  <1>2. s \in cur.sessions /\ cur.sessionAwaitingAssignment # s
    BY <1>1
  <1>3. WakeupExcept(cur, s)
    BY <1>1 DEF WakeupExcept
  <1>4. status \in {"NONE", "ASSIGNED", "BUILT"}
    <2>1. cur.heap[CurrentCircuit(cur, s)] \in Circuit /\ status # "FREED"
      BY <1>1, <1>2, CurrentCircuitOwned DEF Core
    <2>2. status # "LAUNCHED"
      BY <1>1, <1>2, CurrentCircuitOwned DEF Core, AwaitingIsLaunched
    <2>3. QED
      BY <2>1, <2>2 DEF Circuit, CircuitStatus
  <1>5. CASE status = "NONE" /\ cur.sessionAwaitingAssignment = NoSession
    <2>1. q = LaunchCircuit(cur, s)
      BY <1>2, <1>5 DEF HandleSession, HandleUnlaunched, cur
    <2>2. QED
      BY <2>1, <1>1, <1>2, <1>3, <1>5, LaunchCircuitCore
  <1>6. CASE status = "NONE" /\ cur.sessionAwaitingAssignment # NoSession
    <2>1. q = EnterBacklog(cur, s)
      BY <1>2, <1>6 DEF HandleSession, HandleUnlaunched, cur
    <2>2. QED
      BY <2>1, <1>1, <1>2, <1>3, <1>6, EnterBacklogCore
  <1>7. CASE status = "BUILT"
    <2>1. q = AttachWaiting(cur, s)
      BY <1>7 DEF HandleSession, cur
    <2>2. QED
      BY <2>1, <1>1, <1>2, <1>3, AttachWaitingCore
  <1>8. CASE status = "ASSIGNED"
    <2>1. q = cur
      BY <1>8 DEF HandleSession, cur
    <2>2. NoLostWakeup(cur)
      BY <1>3, <1>8 DEF WakeupExcept, NoLostWakeup
    <2>3. QED
      BY <2>1, <2>2, <1>1 DEF LoopInv
  <1>9. QED
    BY <1>4, <1>5, <1>6, <1>7, <1>8

-----------------------------------------------------------------------------
(* The loop of handleSessionBacklog                                        *)

LEMMA PopBacklog ==
    ASSUME NEW p, LoopInv(p), NEW q, p.sessionAssignmentBacklog # <<>>,
           q = [p EXCEPT !.sessionAssignmentBacklog = Tail(p.sessionAssignmentBacklog)]
    PROVE  /\ Core(q)
           /\ Head(p.sessionAssignmentBacklog) \in q.sessions
           /\ WakeupExcept(q, Head(p.sessionAssignmentBacklog))
           /\ q.sessionAwaitingAssignment = p.sessionAwaitingAssignment
           /\ q.sessionAssignmentBacklog = Tail(p.sessionAssignmentBacklog)
  <1> DEFINE pb == p.sessionAssignmentBacklog
             qb == q.sessionAssignmentBacklog
             s == Head(pb)
  <1>1. p \in PlayerState /\ pb \in Seq(Sessions)
    BY DEF LoopInv, Core, PlayerState
  <1>2. /\ SameCircuits(p, q) /\ qb = Tail(pb)
        /\ q.launches = p.launches /\ q.waitingStreamIDs = p.waitingStreamIDs
    BY <1>1 DEF PlayerState, SameCircuits
  <1>3. q \in PlayerState
    <2>1. Tail(pb) \in Seq(Sessions)
      BY <1>1
    <2>2. ASSUME NEW b \in Seq(Sessions)
          PROVE  [p EXCEPT !.sessionAssignmentBacklog = b] \in PlayerState
      BY <1>1 DEF PlayerState
    <2>3. QED
      BY <2>1, <2>2
  <1>4. /\ s = pb[1] /\ 1 \in DOMAIN pb /\ DOMAIN pb = 1..Len(pb) /\ Len(pb) \in Nat
        /\ DOMAIN qb = 1..(Len(pb) - 1)
        /\ \A i \in 1..(Len(pb) - 1) : qb[i] = pb[i + 1]
    BY <1>1, <1>2, QueueHead
  <1> HIDE DEF pb, qb
  <1>5. BacklogKnown(q)
    BY <1>2, <1>4, SMTT(30) DEF LoopInv, Core, BacklogKnown, SameCircuits, pb, qb
  <1>6. LaunchesKnown(q)
    BY <1>2 DEF LoopInv, Core, LaunchesKnown, SameCircuits
  <1>7. Core(q)
    BY <1>2, <1>3, <1>5, <1>6, SameCircuitsCore DEF LoopInv, Core
  <1>8. s \in q.sessions
    BY <1>2, <1>4 DEF LoopInv, Core, BacklogKnown, SameCircuits, pb
  <1>9. WakeupExcept(q, s)
    <2>1. ASSUME NEW r \in Sessions, q.waitingStreamIDs[r] # <<>>
          PROVE  /\ r \in q.sessions
                 /\ \/ r = s
                    \/ q.heap[CurrentCircuit(q, r)].status \in {"LAUNCHED", "ASSIGNED"}
                    \/ \E i \in DOMAIN qb : qb[i] = r
      <3>1. /\ r \in p.sessions
            /\ \/ p.heap[CurrentCircuit(p, r)].status \in {"LAUNCHED", "ASSIGNED"}
               \/ \E i \in DOMAIN pb : pb[i] = r
        BY <1>2, <2>1 DEF LoopInv, NoLostWakeup, pb
      <3>2. CASE p.heap[CurrentCircuit(p, r)].status \in {"LAUNCHED", "ASSIGNED"}
        <4>1. q.sessions = p.sessions /\ q.heap = p.heap /\ q.circuitsSorted = p.circuitsSorted
          BY <1>2 DEF SameCircuits
        <4>2. CurrentCircuit(q, r) = CurrentCircuit(p, r)
          BY <4>1 DEF CurrentCircuit
        <4>3. QED
          BY <3>1, <3>2, <4>1, <4>2
      <3>3. ASSUME NEW i \in DOMAIN pb, pb[i] = r, r # s
            PROVE  \E j \in DOMAIN qb : qb[j] = r
        <4>1. i - 1 \in 1..(Len(pb) - 1) /\ qb[i - 1] = pb[(i - 1) + 1] /\ (i - 1) + 1 = i
          BY <3>3, <1>4
        <4>2. QED
          BY <4>1, <3>3, <1>4
      <3>4. QED
        BY <3>1, <3>2, <3>3, <1>2 DEF SameCircuits
    <2>2. QED
      BY <2>1 DEF WakeupExcept, qb
  <1>10. QED
    BY <1>2, <1>7, <1>8, <1>9 DEF SameCircuits, pb, qb

\* One iteration: either the loop has ended or the backlog gets shorter.
LEMMA HandleNextSessionInv ==
    ASSUME NEW p, LoopInv(p), NEW t \in Nat
    PROVE  /\ LoopInv(HandleNextSession(p, t))
           /\ \/ p.sessionAwaitingAssignment # NoSession
                   /\ HandleNextSession(p, t).sessionAwaitingAssignment # NoSession
              \/ HandleNextSession(p, t).sessionAssignmentBacklog = <<>>
              \/ /\ p.sessionAssignmentBacklog # <<>>
                 /\ HandleNextSession(p, t).sessionAssignmentBacklog = Tail(p.sessionAssignmentBacklog)
  <1> DEFINE q == [p EXCEPT !.sessionAssignmentBacklog = Tail(p.sessionAssignmentBacklog)]
             s == Head(p.sessionAssignmentBacklog)
  <1>1. CASE p.sessionAwaitingAssignment = NoSession /\ p.sessionAssignmentBacklog # <<>>
    <2>1. /\ Core(q) /\ s \in q.sessions /\ WakeupExcept(q, s)
          /\ q.sessionAwaitingAssignment = NoSession
          /\ q.sessionAssignmentBacklog = Tail(p.sessionAssignmentBacklog)
      BY <1>1, PopBacklog
    <2>2. HandleNextSession(p, t) = HandleSession(q, t, s)
      BY <1>1 DEF HandleNextSession
    <2>3. NoSession # s
      BY <2>1, PlayerAssumption DEF Core, PlayerState
    <2> HIDE DEF q, s
    <2>4. QED
      BY <1>1, <2>1, <2>2, <2>3, HandleSessionCore
  <1>2. CASE ~(p.sessionAwaitingAssignment = NoSession /\ p.sessionAssignmentBacklog # <<>>)
    BY <1>2 DEF HandleNextSession
  <1>3. QED
    BY <1>1, <1>2

LEMMA HandleSessionBacklogInv ==
    ASSUME NEW p, LoopInv(p), NEW t \in Nat
    PROVE  LoopInv(HandleSessionBacklog(p, t)) /\ BacklogAwaits(HandleSessionBacklog(p, t))
  <1> DEFINE n == Len(p.sessionAssignmentBacklog)
             V == {q \in PlayerState : LoopInv(q)}
             F == [iq \in (1..n) \X V |-> HandleNextSession(iq[2], t)]
             Iterate(f) == [i \in 0..n |-> IF i = 0 THEN p ELSE HandleNextSession(f[i - 1], t)]
             iterate == CHOOSE f : f = Iterate(f)
  <1>1. n \in Nat /\ p \in V
    BY DEF LoopInv, Core, PlayerState
  <1>2. \A q \in V : HandleNextSession(q, t) \in V
    BY HandleNextSessionInv DEF LoopInv, Core
  <1>3. F \in [(1..n) \X V -> V]
    BY <1>2
  <1>4. PICK f : Iterates(f, n, V, p, F)
    <2> HIDE DEF n, V, F
    <2>1. QED
      BY <1>1, <1>3, FiniteRecursion, Zenon
  <1>5. f = Iterate(f)
    <2>1. f \in [0..n -> V] /\ f[0] = p /\ \A i \in 1..n : f[i] = F[<<i, f[i - 1]>>]
      BY <1>4 DEF Iterates
    <2>2. ASSUME NEW i \in 1..n PROVE f[i] = HandleNextSession(f[i - 1], t)
      <3>1. i - 1 \in 0..n /\ f[i - 1] \in V
        <4> HIDE DEF F, V
        <4>1. QED
          BY <1>1, <2>1
      <3>2. \A q \in V : F[<<i, q>>] = HandleNextSession(q, t)
        OBVIOUS
      <3> HIDE DEF F, V
      <3>3. QED
        BY <2>1, <3>1, <3>2
    <2> HIDE DEF F, V, n
    <2>3. f = [i \in 0..n |-> f[i]]
      BY <2>1
    <2>4. \A i \in 0..n : f[i] = Iterate(f)[i]
      <3>1. \A i \in 0..n : i # 0 => i \in 1..n
        BY <1>1 DEF n
      <3>2. QED
        BY <2>1, <2>2, <3>1
    <2>5. QED
      BY <2>3, <2>4
  <1>6. iterate = Iterate(iterate)
    BY <1>5
  <1>7. HandleSessionBacklog(p, t) = iterate[n]
    BY DEF HandleSessionBacklog
  <1> HIDE DEF iterate
  <1> DEFINE Left(i) == \/ iterate[i].sessionAwaitingAssignment # NoSession
                        \/ iterate[i].sessionAssignmentBacklog = <<>>
                        \/ Len(iterate[i].sessionAssignmentBacklog) = n - i
             S == {i \in Nat : i <= n => LoopInv(iterate[i]) /\ Left(i)}
  <1>8. S = Nat
    <2>1. 0 \in S
      <3>1. iterate[0] = p
        BY <1>1, <1>6
      <3>2. QED
        BY <1>1, <3>1
    <2>2. ASSUME NEW i \in S PROVE i + 1 \in S
      <3>1. SUFFICES ASSUME i + 1 <= n PROVE LoopInv(iterate[i + 1]) /\ Left(i + 1)
        BY <2>2
      <3>2. i \in Nat /\ LoopInv(iterate[i]) /\ Left(i) /\ i + 1 \in 0..n /\ (i + 1) - 1 = i /\ i + 1 # 0
        BY <1>1, <2>2, <3>1
      <3>3. iterate[i + 1] = HandleNextSession(iterate[i], t)
        <4> HIDE DEF n
        <4>1. Iterate(iterate)[i + 1] = HandleNextSession(iterate[i], t)
          BY <3>2
        <4> HIDE DEF Iterate
        <4>2. QED
          BY <4>1, <1>6, Zenon
      <3>4. LoopInv(iterate[i + 1])
        BY <3>2, <3>3, HandleNextSessionInv
      <3>5. Left(i + 1)
        <4> DEFINE b == iterate[i].sessionAssignmentBacklog
        <4> HIDE DEF n
        <4>1. CASE iterate[i].sessionAwaitingAssignment # NoSession \/ b = <<>>
          <5>1. iterate[i + 1] = iterate[i]
            BY <3>3, <4>1 DEF HandleNextSession
          <5>2. QED
            BY <4>1, <5>1
        <4>2. CASE iterate[i].sessionAwaitingAssignment = NoSession /\ b # <<>>
          <5>1. b \in Seq(Sessions) /\ Len(b) = n - i
            BY <3>2, <4>2 DEF LoopInv, Core, PlayerState
          <5>2. Len(Tail(b)) = n - (i + 1)
            BY <5>1, <4>2, <3>2, <1>1, QueueHead
          <5>3. \/ iterate[i + 1].sessionAssignmentBacklog = <<>>
                \/ iterate[i + 1].sessionAssignmentBacklog = Tail(b)
            BY <3>2, <3>3, <4>2, HandleNextSessionInv
          <5>4. QED
            BY <5>2, <5>3
        <4>3. QED
          BY <4>1, <4>2
      <3>6. QED
        BY <3>4, <3>5
    <2>3. S \subseteq Nat
      OBVIOUS
    <2> HIDE DEF S
    <2>4. QED
      BY <2>1, <2>2, <2>3, SetInduction
  <1>9. LoopInv(iterate[n]) /\ Left(n)
    BY <1>1, <1>8
  <1>10. BacklogAwaits(iterate[n])
    <2>1. iterate[n].sessionAssignmentBacklog \in Seq(Sessions)
      BY <1>9 DEF LoopInv, Core, PlayerState
    <2>2. CASE Len(iterate[n].sessionAssignmentBacklog) = n - n
      <3>1. iterate[n].sessionAssignmentBacklog = <<>>
        BY <1>1, <2>1, <2>2, EmptySeq
      <3>2. QED
        BY <3>1 DEF BacklogAwaits
    <2>3. QED
      BY <1>9, <2>2 DEF BacklogAwaits
  <1>11. QED
    BY <1>7, <1>9, <1>10

-----------------------------------------------------------------------------
(* onCircuitStatus                                                         *)

\* A circuit of the table is the current one of a session that does not await
\* an id.
LEMMA TableCircuit ==
    ASSUME NEW p, Core(p), NEW id \in IDs, p.circuits[id] # NoCircuit
    PROVE  /\ p.circuits[id] \in Circuits
           /\ p.heap[p.circuits[id]] \in Circuit
           /\ p.heap[p.circuits[id]].id = id
           /\ p.heap[p.circuits[id]].status \in {"ASSIGNED", "BUILT"}
           /\ p.heap[p.circuits[id]].session \in p.sessions
           /\ p.circuits[id] = CurrentCircuit(p, p.heap[p.circuits[id]].session)
           /\ p.sessionAwaitingAssignment # p.heap[p.circuits[id]].session
  <1> DEFINE c == p.circuits[id]
             s == p.heap[c].session
             sq == p.circuitsSorted[s]
  <1>1. /\ c \in Circuits /\ p.heap[c] \in Circuit
        /\ p.heap[c].id = id /\ p.heap[c].status \in {"ASSIGNED", "BUILT"}
    BY DEF Core, PlayerState, TableMatchesCircuits
  <1>2. s \in Sessions /\ \E i \in DOMAIN sq : sq[i] = c
    BY <1>1 DEF Core, QueuesOwnCircuits
  <1>3. PICK i \in DOMAIN sq : sq[i] = c
    BY <1>2
  <1>4. sq \in Seq(Circuits) /\ sq # <<>>
    <2>1. sq \in Seq(Circuits)
      BY <1>2 DEF Core, PlayerState
    <2>2. DOMAIN <<>> = {}
      BY EmptySeq
    <2>3. QED
      BY <2>1, <2>2, <1>3
  <1>5. s \in p.sessions
    BY <1>2, <1>4 DEF Core, QueuesOwnCircuits
  <1>6. i = 1
    <2>1. ~ (i > 1)
      BY <1>1, <1>2, <1>3 DEF Core, OnlyCurrentIsLaunched
    <2>2. QED
      BY <2>1, <1>3, <1>4, QueueHead
  <1>7. c = CurrentCircuit(p, s)
    BY <1>3, <1>4, <1>6, QueueHead DEF CurrentCircuit
  <1>8. p.sessionAwaitingAssignment # s
    BY <1>1, <1>2, <1>5, <1>7 DEF Core, AwaitingIsLaunched
  <1>9. QED
    BY <1>1, <1>5, <1>7, <1>8

\* The queues of streams, of launches and the backlog are the same.
SameQueues(p, q) ==
    /\ q.launches = p.launches /\ q.waitingStreamIDs = p.waitingStreamIDs
    /\ q.sessionAssignmentBacklog = p.sessionAssignmentBacklog

\* A change of the current circuit of session s cannot lose the wakeup of
\* another session.
LEMMA CurrentUpdateCore ==
    ASSUME NEW p, LoopInv(p), NEW q \in PlayerState, NEW s \in p.sessions, NEW h,
           UpdatesCurrent(p, q, s, h), SameQueues(p, q),
           TableMatchesCircuits(q), AwaitingIsLaunched(q)
    PROVE  Core(q) /\ WakeupExcept(q, s)
  <1>0. Core(p)
    BY DEF LoopInv
  <1>1. /\ QueuesOwnCircuits(q) /\ OnlyCurrentIsLaunched(q)
        /\ \A r \in p.sessions : r # s =>
             /\ CurrentCircuit(q, r) = CurrentCircuit(p, r)
             /\ q.heap[CurrentCircuit(q, r)] = p.heap[CurrentCircuit(p, r)]
    BY <1>0, CircuitUpdate, Zenon
  <1>2. q.sessions = p.sessions
    BY DEF UpdatesCurrent
  <1>3. BacklogKnown(q) /\ LaunchesKnown(q)
    BY <1>2 DEF LoopInv, Core, BacklogKnown, LaunchesKnown, SameQueues
  <1>4. WakeupExcept(q, s)
    BY <1>1, <1>2 DEF LoopInv, NoLostWakeup, WakeupExcept, SameQueues
  <1>5. QED
    BY <1>1, <1>3, <1>4 DEF Core

\* The circuit is built, and its session not handled yet.
MarkBuilt(p, id) ==
    [p EXCEPT !.circuitsBuilding = @ - 1, !.heap[p.circuits[id]].status = "BUILT"]

LEMMA MarkBuiltCore ==
    ASSUME NEW p, LoopInv(p), NEW id \in IDs, p.circuits[id] # NoCircuit
    PROVE  LET s == p.heap[p.circuits[id]].session
               q == MarkBuilt(p, id)
           IN  /\ Core(q) /\ WakeupExcept(q, s) /\ s \in q.sessions
               /\ q.sessionAwaitingAssignment = p.sessionAwaitingAssignment
               /\ q.sessionAwaitingAssignment # s
               /\ SameQueues(p, q)
  <1> DEFINE c == p.circuits[id]
             s == p.heap[c].session
             h == [p.heap[c] EXCEPT !.status = "BUILT"]
             q == MarkBuilt(p, id)
  <1>1. /\ c \in Circuits /\ p.heap[c] \in Circuit /\ p.heap[c].id = id
        /\ s \in p.sessions /\ c = CurrentCircuit(p, s) /\ p.sessionAwaitingAssignment # s
        /\ p.heap[c].status \in {"ASSIGNED", "BUILT"}
    BY TableCircuit DEF LoopInv
  <1>2. p \in PlayerState
    BY DEF LoopInv, Core
  <1>3. h \in Circuit /\ h.session = s /\ h.status = "BUILT" /\ h.id = id
    BY <1>1 DEF Circuit, CircuitStatus
  <1>4. /\ q.heap = [p.heap EXCEPT ![c] = h]
        /\ q.sessions = p.sessions /\ q.circuitsSorted = p.circuitsSorted
        /\ q.circuits = p.circuits /\ SameQueues(p, q)
        /\ q.sessionAwaitingAssignment = p.sessionAwaitingAssignment
    BY <1>2 DEF MarkBuilt, PlayerState, SameQueues
  <1>5. q \in PlayerState
    <2>1. [p.heap EXCEPT ![c] = h] \in [Circuits -> Circuit] /\ p.circuitsBuilding - 1 \in Int
      <3> HIDE DEF h
      <3>1. QED
        BY <1>1, <1>2, <1>3 DEF PlayerState
    <2>2. ASSUME NEW hp \in [Circuits -> Circuit], NEW n \in Int
          PROVE  [p EXCEPT !.circuitsBuilding = n, !.heap = hp] \in PlayerState
      BY <1>2 DEF PlayerState
    <2>3. q = [p EXCEPT !.circuitsBuilding = p.circuitsBuilding - 1, !.heap = [p.heap EXCEPT ![c] = h]]
      BY <1>2 DEF MarkBuilt, PlayerState
    <2> HIDE DEF q, h, c
    <2>4. QED
      BY <2>1, <2>2, <2>3
  <1> HIDE DEF q, h
  <1>7. UpdatesCurrent(p, q, s, h)
    BY <1>1, <1>3, <1>4 DEF UpdatesCurrent
  <1>8. /\ q.heap[c] = h
        /\ \A d \in Circuits : d # c => q.heap[d] = p.heap[d]
    BY <1>1, <1>2, <1>4 DEF PlayerState
  <1>9. TableMatchesCircuits(q)
    <2>1. ASSUME NEW i \in IDs, q.circuits[i] # NoCircuit
          PROVE  q.heap[q.circuits[i]].status \in {"ASSIGNED", "BUILT"} /\ q.heap[q.circuits[i]].id = i
      <3>1. p.circuits[i] \in Circuits
        BY <2>1, <1>2, <1>4 DEF PlayerState
      <3> HIDE DEF c
      <3>2. QED
        BY <2>1, <3>1, <1>1, <1>3, <1>4, <1>8 DEF LoopInv, Core, TableMatchesCircuits
    <2>2. ASSUME NEW d \in Circuits
          PROVE  IF q.heap[d].status \in {"ASSIGNED", "BUILT"}
                 THEN q.heap[d].id # 0 /\ q.circuits[q.heap[d].id] = d
                 ELSE q.heap[d].id = 0
      <3>1. p.heap[c].id # 0 /\ p.circuits[p.heap[c].id] = c
        BY <1>1 DEF LoopInv, Core, TableMatchesCircuits
      <3> HIDE DEF c
      <3>2. QED
        BY <3>1, <1>1, <1>3, <1>4, <1>8 DEF LoopInv, Core, TableMatchesCircuits
    <2>3. QED
      BY <2>1, <2>2 DEF TableMatchesCircuits
  <1>10. AwaitingIsLaunched(q)
    <2>0. Core(p)
      BY DEF LoopInv
    <2>1. \A r \in p.sessions : r # s =>
            /\ CurrentCircuit(q, r) = CurrentCircuit(p, r)
            /\ q.heap[CurrentCircuit(q, r)] = p.heap[CurrentCircuit(p, r)]
      BY <2>0, <1>1, <1>7, CircuitUpdate, Zenon
    <2>2. q.heap[CurrentCircuit(q, s)].status = "BUILT"
      BY <1>1, <1>3, <1>4, <1>8 DEF CurrentCircuit
    <2>3. QED
      BY <2>1, <2>2, <1>1, <1>4 DEF LoopInv, Core, AwaitingIsLaunched
  <1>11. Core(q) /\ WakeupExcept(q, s)
    BY <1>1, <1>4, <1>5, <1>7, <1>9, <1>10, CurrentUpdateCore
  <1>12. s \in q.sessions /\ q.sessionAwaitingAssignment # s
    BY <1>1, <1>4
  <1>13. QED
    BY <1>4, <1>11, <1>12 DEF q

LEMMA CircuitBuiltInv ==
    ASSUME NEW p, LoopInv(p), BacklogAwaits(p), NEW t \in Nat, NEW id \in IDs
    PROVE  LoopInv(OnCircuitBuilt(p, t, id)) /\ BacklogAwaits(OnCircuitBuilt(p, t, id))
  <1> DEFINE s == p.heap[p.circuits[id]].session
             q == MarkBuilt(p, id)
  <1>1. CASE p.circuits[id] = NoCircuit
    BY <1>1 DEF OnCircuitBuilt
  <1>2. CASE p.circuits[id] # NoCircuit
    <2>1. /\ Core(q) /\ WakeupExcept(q, s) /\ s \in q.sessions
          /\ q.sessionAwaitingAssignment = p.sessionAwaitingAssignment
          /\ q.sessionAwaitingAssignment # s
          /\ SameQueues(p, q)
      BY <1>2, MarkBuiltCore
    <2>2. OnCircuitBuilt(p, t, id) = HandleSession(q, t, s)
      BY <1>2 DEF OnCircuitBuilt, MarkBuilt
    <2> HIDE DEF q
    <2>3. QED
      BY <2>1, <2>2, HandleSessionCore DEF BacklogAwaits, SameQueues
  <1>3. QED
    BY <1>1, <1>2

\* The awaiting session's circuit gets the id, and the backlog is not handled yet.
Assign(p, id) ==
    LET c == CurrentCircuit(p, p.sessionAwaitingAssignment)
    IN  [p EXCEPT !.heap[c] = [@ EXCEPT !.id = id, !.status = "ASSIGNED"],
                  !.circuits[id] = c, !.sessionAwaitingAssignment = NoSession]

LEMMA AssignInv ==
    ASSUME NEW p, LoopInv(p), NEW id \in CircuitIDs, p.circuits[id] = NoCircuit,
           p.sessionAwaitingAssignment # NoSession
    PROVE  LoopInv(Assign(p, id))
  <1> DEFINE s == p.sessionAwaitingAssignment
             c == CurrentCircuit(p, s)
             h == [p.heap[c] EXCEPT !.id = id, !.status = "ASSIGNED"]
             q == Assign(p, id)
  <1>1. s \in p.sessions /\ Core(p) /\ p \in PlayerState /\ id \in IDs /\ id # 0
    BY PlayerAssumption DEF LoopInv, Core, AwaitingIsLaunched, IDs
  <1>2. /\ c \in Circuits /\ p.heap[c] \in Circuit /\ p.heap[c].session = s
        /\ p.heap[c].status = "LAUNCHED" /\ s \in Sessions
    BY <1>1, CurrentCircuitOwned DEF Core, AwaitingIsLaunched
  <1>3. h \in Circuit /\ h.session = s /\ h.status = "ASSIGNED" /\ h.id = id
    BY <1>1, <1>2 DEF Circuit, CircuitStatus
  <1>4. /\ q.heap = [p.heap EXCEPT ![c] = h]
        /\ q.sessions = p.sessions /\ q.circuitsSorted = p.circuitsSorted
        /\ q.circuits = [p.circuits EXCEPT ![id] = c] /\ SameQueues(p, q)
        /\ q.sessionAwaitingAssignment = NoSession
    BY <1>1, <1>2 DEF Assign, PlayerState, SameQueues
  <1>5. q \in PlayerState
    <2>1. /\ [p.heap EXCEPT ![c] = h] \in [Circuits -> Circuit]
          /\ [p.circuits EXCEPT ![id] = c] \in [IDs -> Circuits \cup {NoCircuit}]
      <3> HIDE DEF h
      <3>1. QED
        BY <1>1, <1>2, <1>3 DEF PlayerState
    <2>2. ASSUME NEW hp \in [Circuits -> Circuit], NEW ct \in [IDs -> Circuits \cup {NoCircuit}]
          PROVE  [p EXCEPT !.heap = hp, !.circuits = ct, !.sessionAwaitingAssignment = NoSession] \in PlayerState
      BY <1>1 DEF PlayerState
    <2>3. q = [p EXCEPT !.heap = q.heap, !.circuits = q.circuits, !.sessionAwaitingAssignment = NoSession]
      <3>1. QED
        BY <1>1 DEF Assign, PlayerState
    <2>4. q.heap \in [Circuits -> Circuit] /\ q.circuits \in [IDs -> Circuits \cup {NoCircuit}]
      <3> HIDE DEF q, h, c
      <3>1. QED
        BY <2>1, <1>4
    <2> HIDE DEF q, h, c
    <2>5. QED
      BY <2>2, <2>3, <2>4, ZenonT(60)
  <1> HIDE DEF q, h, s
  <1>7. UpdatesCurrent(p, q, s, h)
    BY <1>1, <1>2, <1>3, <1>4 DEF UpdatesCurrent
  <1>8. /\ q.heap[c] = h
        /\ \A d \in Circuits : d # c => q.heap[d] = p.heap[d]
        /\ q.circuits[id] = c
        /\ \A i \in IDs : i # id => q.circuits[i] = p.circuits[i]
    BY <1>1, <1>2, <1>4 DEF PlayerState
  <1>9. TableMatchesCircuits(q)
    <2>0. p.heap[c].id = 0 /\ \A i \in IDs : p.circuits[i] # c
      <3> HIDE DEF c
      <3>1. TableMatchesCircuits(p) /\ c # NoCircuit
        BY <1>2, PlayerAssumption DEF LoopInv, Core
      <3>2. QED
        BY <3>1, <1>2 DEF TableMatchesCircuits
    <2>1. ASSUME NEW i \in IDs, q.circuits[i] # NoCircuit
          PROVE  q.heap[q.circuits[i]].status \in {"ASSIGNED", "BUILT"} /\ q.heap[q.circuits[i]].id = i
      <3>1. CASE i = id
        BY <3>1, <1>3, <1>8
      <3>2. CASE i # id
        <4>1. p.circuits[i] \in Circuits /\ p.circuits[i] # c /\ q.circuits[i] = p.circuits[i]
          BY <3>2, <2>0, <2>1, <1>1, <1>8 DEF PlayerState
        <4>2. QED
          BY <2>1, <4>1, <1>8 DEF LoopInv, Core, TableMatchesCircuits
      <3>3. QED
        BY <3>1, <3>2
    <2>2. ASSUME NEW d \in Circuits
          PROVE  IF q.heap[d].status \in {"ASSIGNED", "BUILT"}
                 THEN q.heap[d].id # 0 /\ q.circuits[q.heap[d].id] = d
                 ELSE q.heap[d].id = 0
      <3>1. CASE d = c
        BY <3>1, <1>1, <1>3, <1>8
      <3>2. CASE d # c
        <4>1. q.heap[d] = p.heap[d] /\ p.heap[d].id \in IDs
          BY <3>2, <1>1, <1>8 DEF PlayerState, Circuit
        <4>2. CASE p.heap[d].status \in {"ASSIGNED", "BUILT"}
          <5>1. p.heap[d].id # 0 /\ p.circuits[p.heap[d].id] = d
            BY <4>2 DEF LoopInv, Core, TableMatchesCircuits
          <5>2. p.heap[d].id # id
            BY <5>1, PlayerAssumption
          <5>3. QED
            BY <4>1, <4>2, <5>1, <5>2, <1>8
        <4>3. CASE p.heap[d].status \notin {"ASSIGNED", "BUILT"}
          BY <4>1, <4>3 DEF LoopInv, Core, TableMatchesCircuits
        <4>4. QED
          BY <4>2, <4>3
      <3>3. QED
        BY <3>1, <3>2
    <2>3. QED
      BY <2>1, <2>2 DEF TableMatchesCircuits
  <1>o. \A r \in p.sessions : r # s =>
          /\ CurrentCircuit(q, r) = CurrentCircuit(p, r)
          /\ q.heap[CurrentCircuit(q, r)] = p.heap[CurrentCircuit(p, r)]
    BY <1>1, <1>7, CircuitUpdate, Zenon
  <1>c. q.heap[CurrentCircuit(q, s)].status = "ASSIGNED"
    BY <1>1, <1>3, <1>4, <1>8 DEF CurrentCircuit
  <1>10. AwaitingIsLaunched(q)
    <2>1. ASSUME NEW r \in p.sessions PROVE q.heap[CurrentCircuit(q, r)].status # "LAUNCHED"
      <3>1. r # s => p.heap[CurrentCircuit(p, r)].status # "LAUNCHED"
        BY <1>1 DEF Core, AwaitingIsLaunched, PlayerState, s
      <3>2. QED
        BY <3>1, <1>c, <1>o
    <2>2. \A r \in p.sessions : r # NoSession
      BY <1>1, PlayerAssumption DEF PlayerState
    <2>3. QED
      BY <2>1, <2>2, <1>4 DEF AwaitingIsLaunched
  <1>11. Core(q) /\ WakeupExcept(q, s)
    BY <1>1, <1>4, <1>5, <1>7, <1>9, <1>10, CurrentUpdateCore
  <1>12. LoopInv(q)
    BY <1>11, <1>c DEF LoopInv, NoLostWakeup, WakeupExcept
  <1>13. QED
    BY <1>12 DEF q

LEMMA CircuitAssignedInv ==
    ASSUME NEW p, LoopInv(p), BacklogAwaits(p), NEW t \in Nat,
           NEW id \in CircuitIDs, p.circuits[id] = NoCircuit
    PROVE  LoopInv(OnCircuitAssigned(p, t, id)) /\ BacklogAwaits(OnCircuitAssigned(p, t, id))
  <1>1. CASE p.sessionAwaitingAssignment = NoSession
    BY <1>1 DEF OnCircuitAssigned
  <1>2. CASE p.sessionAwaitingAssignment # NoSession
    <2>1. OnCircuitAssigned(p, t, id) = HandleSessionBacklog(Assign(p, id), t)
      BY <1>2 DEF OnCircuitAssigned, Assign
    <2>2. LoopInv(Assign(p, id))
      BY <1>2, AssignInv
    <2>3. QED
      BY <2>1, <2>2, HandleSessionBacklogInv
  <1>3. QED
    BY <1>1, <1>2

LEMMA ResetCore ==
    ASSUME NEW p, LoopInv(p), NEW id \in IDs, NEW failed \in BOOLEAN, p.circuits[id] # NoCircuit
    PROVE  LET s == p.heap[p.circuits[id]].session
               q == Reset(p, id, failed)
           IN  /\ Core(q) /\ WakeupExcept(q, s) /\ s \in q.sessions
               /\ q.sessionAwaitingAssignment = p.sessionAwaitingAssignment
               /\ SameQueues(p, q)
  <1> DEFINE c == p.circuits[id]
             s == p.heap[c].session
             fs == IF failed THEN p.heap[c].failures + 1 ELSE p.heap[c].failures
             h == [p.heap[c] EXCEPT !.id = 0, !.status = "NONE", !.failures = fs]
             q == Reset(p, id, failed)
  <1>1. /\ c \in Circuits /\ p.heap[c] \in Circuit /\ p.heap[c].id = id
        /\ s \in p.sessions /\ c = CurrentCircuit(p, s) /\ p.sessionAwaitingAssignment # s
        /\ p.heap[c].status \in {"ASSIGNED", "BUILT"}
    BY TableCircuit DEF LoopInv
  <1>2. p \in PlayerState
    BY DEF LoopInv, Core
  <1>3. h \in Circuit /\ h.session = s /\ h.status = "NONE" /\ h.id = 0
    <2>1. fs \in Nat
      BY <1>1 DEF Circuit
    <2> HIDE DEF fs
    <2>2. QED
      BY <1>1, <2>1 DEF Circuit, CircuitStatus, IDs
  <1>4. /\ q.heap = [p.heap EXCEPT ![c] = h]
        /\ q.sessions = p.sessions /\ q.circuitsSorted = p.circuitsSorted
        /\ q.circuits = [p.circuits EXCEPT ![id] = NoCircuit] /\ SameQueues(p, q)
        /\ q.sessionAwaitingAssignment = p.sessionAwaitingAssignment
    <2> DEFINE hp == [[p.heap EXCEPT ![c].id = 0] EXCEPT ![c].status = "NONE"]
               gp == [hp EXCEPT ![c].failures = IF failed THEN @ + 1 ELSE @]
    <2>1. hp = [p.heap EXCEPT ![c] = [p.heap[c] EXCEPT !.id = 0, !.status = "NONE"]]
      BY <1>1, <1>2 DEF PlayerState, Circuit
    <2>2. gp = [p.heap EXCEPT ![c] = h]
      <3>1. hp[c].failures = p.heap[c].failures
        BY <1>1, <1>2, <2>1 DEF PlayerState, Circuit
      <3>2. gp = [hp EXCEPT ![c] = [hp[c] EXCEPT !.failures = fs]]
        BY <3>1
      <3>3. hp[c] = [p.heap[c] EXCEPT !.id = 0, !.status = "NONE"]
        BY <1>1, <1>2, <2>1 DEF PlayerState
      <3>4. [hp[c] EXCEPT !.failures = fs] = h
        BY <3>3, <1>1 DEF Circuit
      <3> HIDE DEF fs, h, gp
      <3>5. QED
        BY <3>2, <3>4, <2>1, <1>1, <1>2 DEF PlayerState
    <2>3. /\ q.heap = gp
          /\ q.sessions = p.sessions /\ q.circuitsSorted = p.circuitsSorted
          /\ q.circuits = [p.circuits EXCEPT ![id] = NoCircuit] /\ SameQueues(p, q)
          /\ q.sessionAwaitingAssignment = p.sessionAwaitingAssignment
      BY <1>2 DEF PlayerState, SameQueues, Reset
    <2>4. QED
      BY <2>2, <2>3
  <1>5. q \in PlayerState
    <2>1. q.heap \in [Circuits -> Circuit] /\ q.circuits \in [IDs -> Circuits \cup {NoCircuit}]
      <3> HIDE DEF q, h, c
      <3>1. QED
        BY <1>1, <1>2, <1>3, <1>4 DEF PlayerState
    <2>2. ASSUME NEW hp \in [Circuits -> Circuit], NEW ct \in [IDs -> Circuits \cup {NoCircuit}]
          PROVE  [p EXCEPT !.heap = hp, !.circuits = ct] \in PlayerState
      BY <1>2 DEF PlayerState
    <2>3. q = [p EXCEPT !.heap = q.heap, !.circuits = q.circuits]
      BY <1>2, ZenonT(60) DEF PlayerState, Reset
    <2> HIDE DEF q
    <2>4. QED
      BY <2>1, <2>2, <2>3, Zenon
  <1> HIDE DEF q, h
  <1>6. UpdatesCurrent(p, q, s, h)
    BY <1>1, <1>3, <1>4 DEF UpdatesCurrent
  <1>7. /\ q.heap[c] = h
        /\ \A d \in Circuits : d # c => q.heap[d] = p.heap[d]
        /\ q.circuits[id] = NoCircuit
        /\ \A i \in IDs : i # id => q.circuits[i] = p.circuits[i]
    BY <1>1, <1>2, <1>4 DEF PlayerState
  <1>8. TableMatchesCircuits(q)
    <2>1. ASSUME NEW i \in IDs, q.circuits[i] # NoCircuit
          PROVE  q.heap[q.circuits[i]].status \in {"ASSIGNED", "BUILT"} /\ q.heap[q.circuits[i]].id = i
      <3>1. i # id /\ q.circuits[i] = p.circuits[i] /\ p.circuits[i] \in Circuits
        BY <2>1, <1>2, <1>7 DEF PlayerState
      <3>2. p.heap[p.circuits[i]].status \in {"ASSIGNED", "BUILT"} /\ p.heap[p.circuits[i]].id = i
        BY <2>1, <3>1 DEF LoopInv, Core, TableMatchesCircuits
      <3>3. p.circuits[i] # c
        BY <3>1, <3>2, <1>1
      <3>4. QED
        BY <3>1, <3>2, <3>3, <1>7
    <2>2. ASSUME NEW d \in Circuits
          PROVE  IF q.heap[d].status \in {"ASSIGNED", "BUILT"}
                 THEN q.heap[d].id # 0 /\ q.circuits[q.heap[d].id] = d
                 ELSE q.heap[d].id = 0
      <3>1. CASE d = c
        BY <3>1, <1>3, <1>7
      <3>2. CASE d # c
        <4>1. q.heap[d] = p.heap[d] /\ p.heap[d].id \in IDs
          BY <3>2, <1>2, <1>7 DEF PlayerState, Circuit
        <4>2. CASE p.heap[d].status \in {"ASSIGNED", "BUILT"}
          <5>1. p.heap[d].id # 0 /\ p.circuits[p.heap[d].id] = d
            BY <4>2 DEF LoopInv, Core, TableMatchesCircuits
          <5>2. p.heap[d].id # id
            BY <5>1, <3>2
          <5>3. QED
            BY <4>1, <4>2, <5>1, <5>2, <1>7
        <4>3. CASE p.heap[d].status \notin {"ASSIGNED", "BUILT"}
          BY <4>1, <4>3 DEF LoopInv, Core, TableMatchesCircuits
        <4>4. QED
          BY <4>2, <4>3
      <3>3. QED
        BY <3>1, <3>2
    <2>3. QED
      BY <2>1, <2>2 DEF TableMatchesCircuits
  <1>9. AwaitingIsLaunched(q)
    <2>0. Core(p)
      BY DEF LoopInv
    <2>1. \A r \in p.sessions : r # s =>
            /\ CurrentCircuit(q, r) = CurrentCircuit(p, r)
            /\ q.heap[CurrentCircuit(q, r)] = p.heap[CurrentCircuit(p, r)]
      BY <2>0, <1>1, <1>6, CircuitUpdate, Zenon
    <2>2. q.heap[CurrentCircuit(q, s)].status = "NONE"
      BY <1>1, <1>3, <1>4, <1>7 DEF CurrentCircuit
    <2>3. QED
      BY <2>0, <2>1, <2>2, <1>1, <1>4 DEF Core, AwaitingIsLaunched
  <1>10. Core(q) /\ WakeupExcept(q, s)
    BY <1>1, <1>4, <1>5, <1>6, <1>8, <1>9, CurrentUpdateCore
  <1>11. QED
    BY <1>1, <1>4, <1>10 DEF q

LEMMA CircuitGoneInv ==
    ASSUME NEW p, LoopInv(p), BacklogAwaits(p), NEW t \in Nat, NEW id \in IDs, NEW failed \in BOOLEAN
    PROVE  LoopInv(OnCircuitGone(p, t, id, failed)) /\ BacklogAwaits(OnCircuitGone(p, t, id, failed))
  <1> DEFINE s == p.heap[p.circuits[id]].session
             q == Reset(p, id, failed)
             r == OnCircuitGone(p, t, id, failed)
  <1>1. CASE p.circuits[id] = NoCircuit
    BY <1>1 DEF OnCircuitGone
  <1>2. CASE p.circuits[id] # NoCircuit
    <2>1. /\ Core(q) /\ WakeupExcept(q, s) /\ s \in q.sessions
          /\ q.sessionAwaitingAssignment = p.sessionAwaitingAssignment
          /\ SameQueues(p, q)
      BY <1>2, ResetCore
    <2>2. CASE p.waitingStreamIDs[s] = <<>>
      <3>1. r = q
        BY <1>2, <2>2 DEF OnCircuitGone
      <3>2. LoopInv(q)
        BY <2>1, <2>2 DEF LoopInv, NoLostWakeup, WakeupExcept, SameQueues
      <3> HIDE DEF q
      <3>3. QED
        BY <2>1, <3>1, <3>2 DEF BacklogAwaits, SameQueues
    <2>3. CASE p.waitingStreamIDs[s] # <<>>
      <3>1. r = HandleSessionBacklog(EnterBacklog(q, s), t)
        BY <1>2, <2>3 DEF OnCircuitGone
      <3>2. LoopInv(EnterBacklog(q, s))
        BY <2>1, EnterBacklogCore
      <3>3. QED
        BY <3>1, <3>2, HandleSessionBacklogInv
    <2>4. QED
      BY <2>2, <2>3
  <1>3. QED
    BY <1>1, <1>2

-----------------------------------------------------------------------------
(* onStreamStatus                                                          *)

LEMMA NewCircuitType ==
    ASSUME NEW s \in Sessions, NEW t \in Int, NEW path \in BOOLEAN
    PROVE  /\ NewCircuit(s, t, path) \in Circuit
           /\ NewCircuit(s, t, path).session = s
           /\ NewCircuit(s, t, path).status = "NONE"
           /\ NewCircuit(s, t, path).id = 0
           /\ NewCircuit(s, t, path).launchTime = t
  <1> DEFINE f == Freed
             h == [f EXCEPT !.session = s, !.status = "NONE", !.launchTime = t, !.path = path]
  <1>1. f \in Circuit /\ f.id = 0
    BY DEF Freed, Circuit, IDs, CircuitStatus
  <1>2. h = NewCircuit(s, t, path)
    BY DEF NewCircuit
  <1> HIDE DEF f
  <1>3. h \in Circuit /\ h.session = s /\ h.status = "NONE" /\ h.id = 0 /\ h.launchTime = t
    BY <1>1 DEF Circuit, CircuitStatus
  <1>4. QED
    BY <1>2, <1>3

LEMMA NewSessionInv ==
    ASSUME NEW p, LoopInv(p), NEW t \in Nat, NEW s \in Sessions, p.circuitsSorted[s] = <<>>,
           NEW c \in Circuits, p.heap[c].status = "FREED"
    PROVE  LoopInv(EnsureSession(p, t, s, c)) /\ s \in EnsureSession(p, t, s, c).sessions
  <1> DEFINE q == EnsureSession(p, t, s, c)
             h == NewCircuit(s, t, FALSE)
  <1>1. p \in PlayerState /\ Core(p) /\ s \notin p.sessions
    BY DEF LoopInv, Core, QueuesOwnCircuits
  <1>2. h \in Circuit /\ h.session = s /\ h.status = "NONE" /\ h.id = 0
    <2>1. t \in Int /\ FALSE \in BOOLEAN
      OBVIOUS
    <2>2. QED
      BY <2>1, NewCircuitType, Zenon
  <1>3. /\ q.heap = [p.heap EXCEPT ![c] = h]
        /\ q.sessions = p.sessions \cup {s}
        /\ q.circuitsSorted = [p.circuitsSorted EXCEPT ![s] = <<c>>]
        /\ q.circuits = p.circuits /\ SameQueues(p, q)
        /\ q.sessionAwaitingAssignment = p.sessionAwaitingAssignment
    BY <1>1 DEF EnsureSession, PlayerState, SameQueues
  <1>4. q \in PlayerState
    <2>1. /\ q.heap \in [Circuits -> Circuit]
          /\ q.sessions \in SUBSET Sessions
          /\ q.circuitsSorted \in [Sessions -> Seq(Circuits)]
      <3> HIDE DEF q, h
      <3>1. <<c>> \in Seq(Circuits)
        OBVIOUS
      <3>2. QED
        BY <3>1, <1>1, <1>2, <1>3 DEF PlayerState
    <2>2. ASSUME NEW hp \in [Circuits -> Circuit], NEW ss \in SUBSET Sessions,
                 NEW cs \in [Sessions -> Seq(Circuits)]
          PROVE  [p EXCEPT !.heap = hp, !.sessions = ss, !.circuitsSorted = cs] \in PlayerState
      BY <1>1 DEF PlayerState
    <2>3. q = [p EXCEPT !.heap = q.heap, !.sessions = q.sessions, !.circuitsSorted = q.circuitsSorted]
      <3> HIDE DEF h
      <3>1. QED
        BY <1>1 DEF PlayerState, EnsureSession
    <2>4. [p EXCEPT !.heap = q.heap, !.sessions = q.sessions, !.circuitsSorted = q.circuitsSorted] \in PlayerState
      <3> HIDE DEF q
      <3>1. QED
        BY <2>1, <2>2
    <2> HIDE DEF q
    <2>5. QED
      BY <2>3, <2>4, Zenon
  <1> HIDE DEF q, h
  <1>5. /\ q.heap[c] = h
        /\ \A d \in Circuits : d # c => q.heap[d] = p.heap[d]
        /\ q.circuitsSorted[s] = <<c>>
        /\ \A r \in Sessions : r # s => q.circuitsSorted[r] = p.circuitsSorted[r]
    BY <1>1, <1>3 DEF PlayerState
  <1>6. /\ \A r \in Sessions : p.circuitsSorted[r] \in Seq(Circuits)
        /\ \A r \in Sessions : \A i \in DOMAIN p.circuitsSorted[r] :
             p.circuitsSorted[r][i] \in Circuits /\ p.circuitsSorted[r][i] # c
    BY <1>1 DEF PlayerState, Core, QueuesOwnCircuits
  <1>7. <<c>> # <<>> /\ DOMAIN <<c>> = {1} /\ <<c>>[1] = c /\ Head(<<c>>) = c
    OBVIOUS
  <1>8. QueuesOwnCircuits(q)
    <2>1. \A r \in Sessions : r \in q.sessions <=> q.circuitsSorted[r] # <<>>
      BY <1>1, <1>3, <1>5, <1>7 DEF Core, QueuesOwnCircuits
    <2>2. ASSUME NEW r \in Sessions, NEW i \in DOMAIN q.circuitsSorted[r], NEW j \in DOMAIN q.circuitsSorted[r]
          PROVE  /\ q.heap[q.circuitsSorted[r][i]].session = r
                 /\ q.heap[q.circuitsSorted[r][i]].status # "FREED"
                 /\ q.circuitsSorted[r][i] = q.circuitsSorted[r][j] => i = j
      <3>1. CASE r = s
        BY <3>1, <1>2, <1>5, <1>7
      <3>2. CASE r # s
        <4>1. q.circuitsSorted[r] = p.circuitsSorted[r]
          BY <3>2, <1>5
        <4>2. QED
          BY <4>1, <1>5, <1>6, <1>1 DEF Core, QueuesOwnCircuits
      <3>3. QED
        BY <3>1, <3>2
    <2>3. ASSUME NEW d \in Circuits, q.heap[d].status # "FREED"
          PROVE  /\ q.heap[d].session \in Sessions
                 /\ \E i \in DOMAIN q.circuitsSorted[q.heap[d].session] :
                       q.circuitsSorted[q.heap[d].session][i] = d
      <3>1. CASE d = c
        BY <3>1, <1>2, <1>5, <1>7
      <3>2. CASE d # c
        <4>1. /\ q.heap[d] = p.heap[d] /\ p.heap[d].session \in Sessions
              /\ \E i \in DOMAIN p.circuitsSorted[p.heap[d].session] :
                    p.circuitsSorted[p.heap[d].session][i] = d
          BY <2>3, <3>2, <1>1, <1>5 DEF Core, QueuesOwnCircuits
        <4>2. p.heap[d].session # s
          <5>1. DOMAIN <<>> = {}
            BY EmptySeq
          <5>2. QED
            BY <4>1, <5>1
        <4>3. QED
          BY <4>1, <4>2, <1>5
      <3>3. QED
        BY <3>1, <3>2
    <2>4. QED
      BY <2>1, <2>2, <2>3 DEF QueuesOwnCircuits
  <1>9. OnlyCurrentIsLaunched(q)
    <2>1. ASSUME NEW r \in Sessions, NEW i \in DOMAIN q.circuitsSorted[r], i > 1
          PROVE  q.heap[q.circuitsSorted[r][i]].status = "NONE"
      <3>1. CASE r = s
        BY <3>1, <2>1, <1>5, <1>7
      <3>2. CASE r # s
        <4>1. q.circuitsSorted[r] = p.circuitsSorted[r]
          BY <3>2, <1>5
        <4>2. QED
          BY <4>1, <2>1, <1>5, <1>6, <1>1 DEF Core, OnlyCurrentIsLaunched
      <3>3. QED
        BY <3>1, <3>2
    <2>2. QED
      BY <2>1 DEF OnlyCurrentIsLaunched
  <1>10. TableMatchesCircuits(q)
    <2>0. TableMatchesCircuits(p)
      BY <1>1 DEF Core
    <2>1. ASSUME NEW id \in IDs, q.circuits[id] # NoCircuit
          PROVE  q.heap[q.circuits[id]].status \in {"ASSIGNED", "BUILT"} /\ q.heap[q.circuits[id]].id = id
      <3>1. p.circuits[id] \in Circuits
        BY <2>1, <1>1, <1>3 DEF PlayerState
      <3>2. QED
        BY <2>0, <2>1, <3>1, <1>3, <1>5 DEF TableMatchesCircuits
    <2>2. ASSUME NEW d \in Circuits
          PROVE  IF q.heap[d].status \in {"ASSIGNED", "BUILT"}
                 THEN q.heap[d].id # 0 /\ q.circuits[q.heap[d].id] = d
                 ELSE q.heap[d].id = 0
      BY <2>0, <1>2, <1>3, <1>5 DEF TableMatchesCircuits
    <2>3. QED
      BY <2>1, <2>2 DEF TableMatchesCircuits
  <1>11. \A r \in p.sessions : /\ r \in Sessions /\ r # s
                               /\ CurrentCircuit(q, r) = CurrentCircuit(p, r)
                               /\ q.heap[CurrentCircuit(q, r)] = p.heap[CurrentCircuit(p, r)]
    <2>1. ASSUME NEW r \in p.sessions
          PROVE  /\ r \in Sessions /\ r # s
                 /\ CurrentCircuit(q, r) = CurrentCircuit(p, r)
                 /\ q.heap[CurrentCircuit(q, r)] = p.heap[CurrentCircuit(p, r)]
      <3>1. /\ r \in Sessions /\ r # s /\ CurrentCircuit(p, r) \in Circuits
            /\ p.heap[CurrentCircuit(p, r)].status # "FREED"
        BY <1>1, CurrentCircuitOwned DEF Core
      <3>2. CurrentCircuit(q, r) = CurrentCircuit(p, r)
        BY <3>1, <1>5 DEF CurrentCircuit
      <3>3. QED
        BY <3>1, <3>2, <1>5
    <2>2. QED
      BY <2>1
  <1>12. AwaitingIsLaunched(q)
    <2>1. q.heap[CurrentCircuit(q, s)].status = "NONE"
      BY <1>2, <1>5, <1>7 DEF CurrentCircuit
    <2>2. p.sessionAwaitingAssignment # s
      BY <1>1, PlayerAssumption DEF Core, AwaitingIsLaunched
    <2>3. QED
      BY <2>1, <2>2, <1>1, <1>3, <1>11 DEF Core, AwaitingIsLaunched
  <1>13. BacklogKnown(q) /\ LaunchesKnown(q)
    BY <1>1, <1>3 DEF Core, BacklogKnown, LaunchesKnown, SameQueues
  <1>14. NoLostWakeup(q)
    BY <1>3, <1>11 DEF LoopInv, NoLostWakeup, SameQueues
  <1>15. QED
    BY <1>3, <1>4, <1>8, <1>9, <1>10, <1>12, <1>13, <1>14 DEF LoopInv, Core, q

LEMMA EnqueueStreamInv ==
    ASSUME NEW p, LoopInv(p), NEW s \in p.sessions, NEW st \in Streams
    PROVE  LoopInv(EnqueueStream(p, s, st))
  <1> DEFINE q == EnqueueStream(p, s, st)
             pb == p.sessionAssignmentBacklog
             qb == q.sessionAssignmentBacklog
             w == Append(p.waitingStreamIDs[s], st)
  <1>1. p \in PlayerState /\ s \in Sessions /\ pb \in Seq(Sessions) /\ Core(p)
    BY DEF LoopInv, Core, PlayerState
  <1>2. /\ SameCircuits(p, q) /\ qb = Append(pb, s) /\ q.launches = p.launches
        /\ q.waitingStreamIDs = [p.waitingStreamIDs EXCEPT ![s] = w]
    BY <1>1 DEF EnqueueStream, PlayerState, SameCircuits
  <1>3. q \in PlayerState
    <2>1. /\ w \in Seq(Streams \cup {Preemptive}) /\ p.streamsAssigning + 1 \in Int
          /\ Append(pb, s) \in Seq(Sessions)
      BY <1>1 DEF PlayerState
    <2>2. [p.waitingStreamIDs EXCEPT ![s] = w] \in [Sessions -> Seq(Streams \cup {Preemptive})]
      <3> HIDE DEF w
      <3>1. QED
        BY <1>1, <2>1 DEF PlayerState
    <2>3. ASSUME NEW ws \in [Sessions -> Seq(Streams \cup {Preemptive})], NEW n \in Int, NEW b \in Seq(Sessions)
          PROVE  [p EXCEPT !.waitingStreamIDs = ws, !.streamsAssigning = n,
                           !.sessionAssignmentBacklog = b] \in PlayerState
      BY <1>1 DEF PlayerState
    <2>4. q = [p EXCEPT !.waitingStreamIDs = [p.waitingStreamIDs EXCEPT ![s] = w],
                        !.streamsAssigning = p.streamsAssigning + 1,
                        !.sessionAssignmentBacklog = Append(pb, s)]
      BY <1>1 DEF EnqueueStream, PlayerState
    <2> HIDE DEF q, w, pb
    <2>5. QED
      BY <2>1, <2>2, <2>3, <2>4
  <1>4. /\ DOMAIN qb = 1..(Len(pb) + 1) /\ DOMAIN pb = 1..Len(pb) /\ Len(pb) \in Nat
        /\ \A i \in 1..Len(pb) : qb[i] = pb[i]
        /\ qb[Len(pb) + 1] = s
    BY <1>1, <1>2, QueuePush
  <1>5. \A r \in Sessions : r # s => q.waitingStreamIDs[r] = p.waitingStreamIDs[r]
    BY <1>1, <1>2 DEF PlayerState
  <1> HIDE DEF q, pb, qb
  <1>6. BacklogKnown(q) /\ LaunchesKnown(q)
    BY <1>1, <1>2, <1>4 DEF Core, BacklogKnown, LaunchesKnown, SameCircuits, pb, qb
  <1>7. Core(q)
    BY <1>1, <1>2, <1>3, <1>6, SameCircuitsCore DEF Core
  <1>8. NoLostWakeup(q)
    <2>1. ASSUME NEW r \in Sessions, q.waitingStreamIDs[r] # <<>>
          PROVE  /\ r \in q.sessions
                 /\ \/ q.heap[CurrentCircuit(q, r)].status \in {"LAUNCHED", "ASSIGNED"}
                    \/ \E i \in DOMAIN qb : qb[i] = r
      <3>0. q.sessions = p.sessions /\ q.heap = p.heap /\ CurrentCircuit(q, r) = CurrentCircuit(p, r)
        BY <1>2, SameCircuitsCore DEF SameCircuits
      <3>1. CASE r = s
        BY <3>0, <3>1, <1>4
      <3>2. CASE r # s
        <4>1. /\ r \in p.sessions
              /\ \/ p.heap[CurrentCircuit(p, r)].status \in {"LAUNCHED", "ASSIGNED"}
                 \/ \E i \in DOMAIN pb : pb[i] = r
          BY <2>1, <3>2, <1>5 DEF LoopInv, NoLostWakeup, pb
        <4>2. (\E i \in DOMAIN pb : pb[i] = r) => \E i \in DOMAIN qb : qb[i] = r
          BY <1>4
        <4>3. QED
          BY <3>0, <4>1, <4>2
      <3>3. QED
        BY <3>1, <3>2
    <2>2. QED
      BY <2>1 DEF NoLostWakeup, qb
  <1>9. QED
    BY <1>7, <1>8 DEF LoopInv, q

\* A change of nothing but the commands.
SetCommands(p, m) == [p EXCEPT !.commands = m]

LEMMA SetCommandsInv ==
    ASSUME NEW p, LoopInv(p), BacklogAwaits(p), NEW m \in Seq(Command)
    PROVE  LoopInv(SetCommands(p, m)) /\ BacklogAwaits(SetCommands(p, m))
  <1> DEFINE q == SetCommands(p, m)
  <1>1. p \in PlayerState /\ Core(p)
    BY DEF LoopInv, Core
  <1>2. SameCircuits(p, q) /\ SameQueues(p, q) /\ q \in PlayerState
    BY <1>1 DEF SetCommands, PlayerState, SameCircuits, SameQueues
  <1> HIDE DEF q
  <1>3. BacklogKnown(q) /\ LaunchesKnown(q)
    BY <1>1, <1>2 DEF Core, BacklogKnown, LaunchesKnown, SameCircuits, SameQueues
  <1>4. Core(q)
    BY <1>1, <1>2, <1>3, SameCircuitsCore DEF Core
  <1>5. NoLostWakeup(q)
    BY <1>2, SameCircuitsCore DEF LoopInv, NoLostWakeup, SameCircuits, SameQueues
  <1>6. BacklogAwaits(q)
    BY <1>2 DEF BacklogAwaits, SameCircuits, SameQueues
  <1>7. QED
    BY <1>4, <1>5, <1>6 DEF LoopInv, q

LEMMA StreamNewInv ==
    ASSUME NEW p, LoopInv(p), BacklogAwaits(p), NEW t \in Nat,
           NEW st \in Streams, NEW s \in Sessions \cup {NoSession}, NEW c \in Allocations(p, s)
    PROVE  LoopInv(OnStreamNew(p, t, st, s, c)) /\ BacklogAwaits(OnStreamNew(p, t, st, s, c))
  <1>1. p \in PlayerState /\ Core(p)
    BY DEF LoopInv, Core
  <1>2. CASE s = NoSession
    <2>1. AttachStream(st, 0) \in Command
      BY DEF AttachStream, Command, IDs
    <2>2. Append(p.commands, AttachStream(st, 0)) \in Seq(Command)
      BY <1>1, <2>1 DEF PlayerState
    <2>3. OnStreamNew(p, t, st, s, c) = SetCommands(p, Append(p.commands, AttachStream(st, 0)))
      BY <1>2 DEF OnStreamNew, SetCommands
    <2>4. QED
      BY <2>2, <2>3, SetCommandsInv
  <1>3. CASE s # NoSession
    <2> DEFINE q == EnsureSession(p, t, s, c)
    <2>1. s \in Sessions
      BY <1>3
    <2>2. LoopInv(q) /\ s \in q.sessions
      <3>1. CASE p.circuitsSorted[s] = <<>>
        <4>1. c \in Circuits /\ p.heap[c].status = "FREED"
          BY <1>3, <3>1 DEF Allocations
        <4>2. QED
          BY <2>1, <3>1, <4>1, NewSessionInv
      <3>2. CASE p.circuitsSorted[s] # <<>>
        <4>1. s \in p.sessions
          BY <1>1, <2>1, <3>2 DEF Core, QueuesOwnCircuits
        <4>2. q = p
          BY <1>1, <3>2, <4>1 DEF EnsureSession, PlayerState
        <4>3. QED
          BY <4>1, <4>2
      <3>3. QED
        BY <3>1, <3>2
    <2>3. LoopInv(EnqueueStream(q, s, st))
      BY <2>2, EnqueueStreamInv
    <2>4. OnStreamNew(p, t, st, s, c) = HandleSessionBacklog(EnqueueStream(q, s, st), t)
      BY <1>3 DEF OnStreamNew
    <2>5. QED
      BY <2>3, <2>4, HandleSessionBacklogInv
  <1>4. QED
    BY <1>2, <1>3

-----------------------------------------------------------------------------
(* launchNextCircuit                                                       *)

LEMMA RequestLaunchesInv ==
    ASSUME NEW p, LoopInv(p), NEW n \in 0..Len(p.launches)
    PROVE  LoopInv(RequestLaunches(p, n))
  <1> DEFINE q == RequestLaunches(p, n)
             pb == p.sessionAssignmentBacklog
             qb == q.sessionAssignmentBacklog
             J(s) == {j \in 1..n : p.launches[j].session = s}
             requests(s) == [i \in 1..Cardinality(J(s)) |-> Preemptive]
             ws == [s \in Sessions |-> p.waitingStreamIDs[s] \o requests(s)]
             due == [i \in 1..n |-> p.launches[i].session]
             rest == SubSeq(p.launches, n + 1, Len(p.launches))
  <1>1. /\ p \in PlayerState /\ Core(p) /\ pb \in Seq(Sessions)
        /\ p.launches \in Seq(LaunchInfo) /\ Len(p.launches) \in Nat /\ n \in Nat /\ n <= Len(p.launches)
        /\ \A i \in 1..n : i \in DOMAIN p.launches
    BY DEF LoopInv, Core, PlayerState
  <1>2. q = [p EXCEPT !.waitingStreamIDs = ws, !.sessionAssignmentBacklog = pb \o due, !.launches = rest]
    BY <1>1 DEF RequestLaunches, PlayerState
  <1>3. \A s : IsFiniteSet(J(s)) /\ Cardinality(J(s)) \in Nat
    <2>1. IsFiniteSet(1..n)
      BY <1>1, FS_Interval
    <2>2. \A s : J(s) \subseteq 1..n
      OBVIOUS
    <2> HIDE DEF J
    <2>3. QED
      BY <2>1, <2>2, FS_Subset, FS_CardinalityType
  <1>4. due \in Seq(Sessions) /\ DOMAIN due = 1..n /\ Len(due) = n
    <2>0. \A i \in 1..n : p.launches[i] \in LaunchInfo
      BY <1>1
    <2>1. \A i \in 1..n : p.launches[i].session \in Sessions
      BY <2>0 DEF LaunchInfo
    <2>2. QED
      BY <1>1, <2>1
  <1>5. rest \in Seq(LaunchInfo) /\ \A i \in DOMAIN rest : \E j \in DOMAIN p.launches : rest[i] = p.launches[j]
    <2>0. /\ \A i \in (n + 1)..Len(p.launches) : p.launches[i] \in LaunchInfo
          /\ n + 1 \in Int /\ Len(p.launches) \in Int
      BY <1>1
    <2>1. /\ rest \in Seq(LaunchInfo) /\ Len(rest) = IF n + 1 <= Len(p.launches) THEN Len(p.launches) - n ELSE 0
          /\ \A i \in 1..Len(rest) : rest[i] = p.launches[(n + 1) + i - 1]
      <3>1. /\ rest \in Seq(LaunchInfo)
            /\ Len(rest) = IF n + 1 <= Len(p.launches) THEN Len(p.launches) - (n + 1) + 1 ELSE 0
            /\ \A i \in 1..(Len(p.launches) - (n + 1) + 1) : rest[i] = p.launches[(n + 1) + i - 1]
        BY <2>0, SubSeqProperties
      <3> HIDE DEF rest
      <3>2. QED
        BY <3>1, <1>1
    <2>2. DOMAIN rest = 1..Len(rest) /\ DOMAIN p.launches = 1..Len(p.launches)
      BY <1>1, <2>1
    <2> HIDE DEF rest
    <2>3. ASSUME NEW i \in DOMAIN rest PROVE \E j \in DOMAIN p.launches : rest[i] = p.launches[j]
      <3>1. (n + 1) + i - 1 \in 1..Len(p.launches)
        BY <1>1, <2>1, <2>2
      <3>2. QED
        BY <3>1, <2>1, <2>2
    <2>4. QED
      BY <2>1, <2>3
  <1>6. \A s : requests(s) \in Seq(Streams \cup {Preemptive}) /\ (requests(s) # <<>> => J(s) # {})
    <2>1. ASSUME NEW s PROVE requests(s) \in Seq(Streams \cup {Preemptive}) /\ (requests(s) # <<>> => J(s) # {})
      <3>1. Cardinality({}) = 0
        BY FS_EmptySet
      <3> DEFINE k == Cardinality(J(s))
      <3>2. k \in Nat /\ (J(s) = {} => k = 0)
        BY <1>3, <3>1
      <3> HIDE DEF k, J
      <3>3. [i \in 1..k |-> Preemptive] \in Seq(Streams \cup {Preemptive})
        BY <3>2
      <3>4. k = 0 => [i \in 1..k |-> Preemptive] = <<>>
        BY EmptySeq
      <3>5. QED
        BY <3>2, <3>3, <3>4 DEF k
    <2>2. QED
      BY <2>1
  <1> HIDE DEF requests, J, due, rest
  <1>7. /\ ws \in [Sessions -> Seq(Streams \cup {Preemptive})]
        /\ \A s \in Sessions : ws[s] # <<>> => p.waitingStreamIDs[s] # <<>> \/ J(s) # {}
    <2>1. ASSUME NEW s \in Sessions
          PROVE  /\ ws[s] \in Seq(Streams \cup {Preemptive})
                 /\ ws[s] # <<>> => p.waitingStreamIDs[s] # <<>> \/ J(s) # {}
      <3>1. p.waitingStreamIDs[s] \in Seq(Streams \cup {Preemptive}) /\ ws[s] = p.waitingStreamIDs[s] \o requests(s)
        BY <1>1 DEF PlayerState
      <3> HIDE DEF ws
      <3>2. ws[s] \in Seq(Streams \cup {Preemptive})
        BY <3>1, <1>6, ConcatProperties
      <3>3. <<>> \o <<>> = <<>>
        OBVIOUS
      <3>4. QED
        BY <3>1, <3>2, <3>3, <1>6
    <2>2. QED
      BY <2>1
  <1>8. /\ pb \o due \in Seq(Sessions) /\ DOMAIN pb = 1..Len(pb) /\ Len(pb) \in Nat
        /\ DOMAIN (pb \o due) = 1..(Len(pb) + n)
        /\ \A i \in 1..Len(pb) : (pb \o due)[i] = pb[i]
        /\ \A i \in 1..n : (pb \o due)[Len(pb) + i] = due[i]
    <2>1. /\ pb \o due \in Seq(Sessions) /\ Len(pb \o due) = Len(pb) + Len(due)
          /\ \A i \in 1..(Len(pb) + Len(due)) :
               (pb \o due)[i] = IF i <= Len(pb) THEN pb[i] ELSE due[i - Len(pb)]
      BY <1>1, <1>4, ConcatProperties
    <2>2. DOMAIN pb = 1..Len(pb) /\ Len(pb) \in Nat /\ DOMAIN (pb \o due) = 1..(Len(pb) + n)
      BY <1>1, <1>4, <2>1
    <2> HIDE DEF pb
    <2>3. ASSUME NEW i \in 1..n PROVE (pb \o due)[Len(pb) + i] = due[i]
      <3>1. Len(pb) + i \in 1..(Len(pb) + n) /\ ~(Len(pb) + i <= Len(pb)) /\ (Len(pb) + i) - Len(pb) = i
        BY <1>1, <2>2
      <3>2. QED
        BY <2>1, <1>4, <3>1
    <2>4. \A i \in 1..Len(pb) : (pb \o due)[i] = pb[i]
      BY <1>1, <1>4, <2>1, <2>2
    <2>5. QED
      BY <2>1, <2>2, <2>3, <2>4
  <1>9. q \in PlayerState
    <2>1. ASSUME NEW w \in [Sessions -> Seq(Streams \cup {Preemptive})], NEW b \in Seq(Sessions), NEW l \in Seq(LaunchInfo)
          PROVE  [p EXCEPT !.waitingStreamIDs = w, !.sessionAssignmentBacklog = b, !.launches = l] \in PlayerState
      BY <1>1 DEF PlayerState
    <2> HIDE DEF q, ws
    <2>2. QED
      BY <1>2, <1>5, <1>7, <1>8, <2>1
  <1>10. /\ SameCircuits(p, q) /\ q.waitingStreamIDs = ws /\ q.launches = rest
         /\ q.sessionAssignmentBacklog = pb \o due
    <2> HIDE DEF q, ws
    <2>1. QED
      BY <1>1, <1>2 DEF PlayerState, SameCircuits
  <1>11. \A i \in 1..n : due[i] = p.launches[i].session /\ due[i] \in p.sessions
    BY <1>1 DEF due, Core, LaunchesKnown
  <1> HIDE DEF q, qb, ws, pb
  <1>12. BacklogKnown(q)
    <2>1. ASSUME NEW i \in DOMAIN q.sessionAssignmentBacklog
          PROVE  q.sessionAssignmentBacklog[i] \in q.sessions
      <3>1. i \in 1..(Len(pb) + n) /\ q.sessions = p.sessions
        BY <1>8, <1>10 DEF SameCircuits
      <3>2. CASE i \in 1..Len(pb)
        BY <3>1, <3>2, <1>1, <1>8, <1>10 DEF Core, BacklogKnown, pb
      <3>3. CASE i \notin 1..Len(pb)
        <4>1. i - Len(pb) \in 1..n /\ Len(pb) + (i - Len(pb)) = i
          BY <3>1, <3>3, <1>1, <1>8
        <4>2. QED
          BY <4>1, <3>1, <1>8, <1>10, <1>11
      <3>4. QED
        BY <3>2, <3>3
    <2>2. QED
      BY <2>1 DEF BacklogKnown
  <1>13. LaunchesKnown(q)
    BY <1>1, <1>5, <1>10 DEF Core, LaunchesKnown, SameCircuits
  <1>14. Core(q)
    BY <1>1, <1>9, <1>10, <1>12, <1>13, SameCircuitsCore DEF Core
  <1>15. NoLostWakeup(q)
    <2>1. ASSUME NEW r \in Sessions, q.waitingStreamIDs[r] # <<>>
          PROVE  /\ r \in q.sessions
                 /\ \/ q.heap[CurrentCircuit(q, r)].status \in {"LAUNCHED", "ASSIGNED"}
                    \/ \E i \in DOMAIN q.sessionAssignmentBacklog : q.sessionAssignmentBacklog[i] = r
      <3>0. q.sessions = p.sessions /\ q.heap = p.heap /\ CurrentCircuit(q, r) = CurrentCircuit(p, r)
        BY <1>10, SameCircuitsCore DEF SameCircuits
      <3>1. CASE J(r) # {}
        <4>1. PICK j \in 1..n : p.launches[j].session = r
          BY <3>1 DEF J
        <4>2. Len(pb) + j \in 1..(Len(pb) + n) /\ due[j] = r /\ r \in p.sessions
          BY <4>1, <1>1, <1>8, <1>11
        <4>3. QED
          BY <3>0, <4>1, <4>2, <1>8, <1>10, ZenonT(60)
      <3>2. CASE J(r) = {}
        <4>1. /\ r \in p.sessions
              /\ \/ p.heap[CurrentCircuit(p, r)].status \in {"LAUNCHED", "ASSIGNED"}
                 \/ \E i \in DOMAIN pb : pb[i] = r
          BY <2>1, <3>2, <1>7, <1>10 DEF LoopInv, NoLostWakeup, pb
        <4>2. (\E i \in DOMAIN pb : pb[i] = r) => \E i \in DOMAIN q.sessionAssignmentBacklog : q.sessionAssignmentBacklog[i] = r
          BY <1>8, <1>1, <1>10
        <4>3. QED
          BY <3>0, <4>1, <4>2
      <3>3. QED
        BY <3>1, <3>2
    <2>2. QED
      BY <2>1 DEF NoLostWakeup
  <1>16. QED
    BY <1>14, <1>15 DEF LoopInv, q

LEMMA LaunchNextInv ==
    ASSUME NEW p, LoopInv(p), BacklogAwaits(p), NEW t \in Nat, NEW n \in LaunchesDue(p, t)
    PROVE  LoopInv(LaunchNextCircuit(p, t, n)) /\ BacklogAwaits(LaunchNextCircuit(p, t, n))
  <1>1. n \in 0..Len(p.launches)
    BY DEF LaunchesDue
  <1>2. QED
    BY <1>1, RequestLaunchesInv, HandleSessionBacklogInv DEF LaunchNextCircuit

-----------------------------------------------------------------------------
(* The initial state                                                       *)

LEMMA InitIInv == Init => IInv
  <1>1. SUFFICES ASSUME Init PROVE IInv
    OBVIOUS
  <1>2. PICK order \in Orderings(Tracked),
             queue \in [Sessions -> UNION {Orderings(TrackedOf(s)) : s \in Sessions}] :
           /\ \A s \in Sessions : queue[s] \in Orderings(TrackedOf(s)) /\ ByLaunchTime(queue[s])
           /\ now = 0
           /\ player = [heap |-> [c \in Circuits |->
                                    IF c \in Tracked
                                    THEN NewCircuit(Trace[c].session, Trace[c].launchTime, TRUE)
                                    ELSE Freed],
                        sessions |-> {s \in Sessions : TrackedOf(s) # {}},
                        circuitsSorted |-> queue,
                        waitingStreamIDs |-> [s \in Sessions |-> <<>>],
                        circuits |-> [id \in IDs |-> NoCircuit],
                        launches |-> [i \in DOMAIN order |-> Launch(order[i])],
                        sessionAwaitingAssignment |-> NoSession,
                        sessionAssignmentBacklog |-> <<>>,
                        streamsAssigning |-> 0,
                        circuitsBuilding |-> 0,
                        commands |-> <<>>]
    BY <1>1 DEF Init
  <1> DEFINE p == player
  <1>3. /\ p.heap = [c \in Circuits |->
                       IF c \in Tracked
                       THEN NewCircuit(Trace[c].session, Trace[c].launchTime, TRUE)
                       ELSE Freed]
        /\ p.sessions = {s \in Sessions : TrackedOf(s) # {}}
        /\ p.circuitsSorted = queue
        /\ p.waitingStreamIDs = [s \in Sessions |-> <<>>]
        /\ p.circuits = [id \in IDs |-> NoCircuit]
        /\ p.launches = [i \in DOMAIN order |-> Launch(order[i])]
        /\ p.sessionAwaitingAssignment = NoSession
        /\ p.sessionAssignmentBacklog = <<>>
    BY <1>2
  <1>4. /\ IsFiniteSet(Tracked) /\ Tracked \subseteq Circuits
        /\ \A c \in Tracked : /\ Trace[c].session \in Sessions /\ Trace[c].launchTime \in Nat
                              /\ c \in Nat
    <2>1. /\ IsFiniteSet(DOMAIN Trace) /\ Tracked \subseteq DOMAIN Trace
          /\ DOMAIN Trace \subseteq Circuits /\ Circuits \subseteq Nat
      BY PlayerAssumption DEF Tracked
    <2>2. IsFiniteSet(Tracked)
      BY <2>1, FS_Subset
    <2>3. ASSUME NEW c \in Tracked
          PROVE  Trace[c].session \in Sessions /\ Trace[c].launchTime \in Nat
      BY PlayerAssumption DEF Tracked
    <2>4. QED
      BY <2>1, <2>2, <2>3
  <1>5. \A S : S \subseteq Tracked =>
          \A w \in Orderings(S) :
             /\ w \in Seq(S) /\ \A c \in S : \E i \in DOMAIN w : w[i] = c
             /\ w = <<>> <=> S = {}
    <2>1. ASSUME NEW S, S \subseteq Tracked, NEW w \in Orderings(S)
          PROVE  /\ w \in Seq(S) /\ \A c \in S : \E i \in DOMAIN w : w[i] = c
                 /\ w = <<>> <=> S = {}
      <3>1. IsFiniteSet(S) /\ Cardinality(S) \in Nat
        BY <2>1, <1>4, FS_Subset, FS_CardinalityType
      <3>2. w \in [1..Cardinality(S) -> S] /\ \A c \in S : \E i \in DOMAIN w : w[i] = c
        BY DEF Orderings
      <3>3. w \in Seq(S)
        BY <3>1, <3>2
      <3>4. DOMAIN <<>> = {}
        BY EmptySeq
      <3>5. S = {} => Len(w) = 0
        BY <3>1, <3>2, <3>3, FS_EmptySet
      <3>6. S = {} => w = <<>>
        BY <3>3, <3>5, EmptySeq
      <3>7. QED
        BY <3>2, <3>3, <3>4, <3>6
    <2>2. QED
      BY <2>1
  <1>6. \A s \in Sessions : TrackedOf(s) \subseteq Tracked
    BY DEF TrackedOf
  <1>7. ASSUME NEW s \in Sessions
        PROVE  /\ queue[s] \in Seq(TrackedOf(s)) /\ queue[s] \in Seq(Circuits)
               /\ \A c \in TrackedOf(s) : \E i \in DOMAIN queue[s] : queue[s][i] = c
               /\ queue[s] = <<>> <=> TrackedOf(s) = {}
               /\ \A i, j \in DOMAIN queue[s] : queue[s][i] = queue[s][j] => i = j
    <2>1. queue[s] \in Orderings(TrackedOf(s)) /\ ByLaunchTime(queue[s])
      BY <1>2
    <2>2. /\ queue[s] \in Seq(TrackedOf(s)) /\ TrackedOf(s) \subseteq Tracked
          /\ \A c \in TrackedOf(s) : \E i \in DOMAIN queue[s] : queue[s][i] = c
          /\ queue[s] = <<>> <=> TrackedOf(s) = {}
      BY <2>1, <1>5, <1>6
    <2> DEFINE w == queue[s]
    <2>3. DOMAIN w = 1..Len(w) /\ Len(w) \in Nat /\ \A i \in DOMAIN w : w[i] \in Tracked
      BY <2>2
    <2>4. \A i \in DOMAIN w : w[i] \in Nat /\ Trace[w[i]].launchTime \in Nat
      BY <2>3, <1>4
    <2> HIDE DEF w
    <2>5. ASSUME NEW i \in DOMAIN w, NEW j \in DOMAIN w, i < j PROVE w[i] # w[j]
      BY <2>1, <2>4, <2>5 DEF ByLaunchTime, w
    <2>6. \A i, j \in DOMAIN w : w[i] = w[j] => i = j
      BY <2>3, <2>5
    <2>7. w \in Seq(Circuits)
      <3>1. w \in Seq(TrackedOf(s)) /\ TrackedOf(s) \subseteq Circuits
        BY <2>2, <1>4 DEF w
      <3>2. QED
        BY <3>1
    <2>8. QED
      BY <2>2, <2>6, <2>7 DEF w
  <1>8. \A s \in Sessions : \A c \in TrackedOf(s) : c \in Tracked /\ Trace[c].session = s
    BY DEF TrackedOf
  <1>9. ASSUME NEW c \in Circuits
        PROVE  /\ p.heap[c] \in Circuit /\ p.heap[c].id = 0
               /\ c \in Tracked => p.heap[c].status = "NONE" /\ p.heap[c].session = Trace[c].session
               /\ c \notin Tracked => p.heap[c].status = "FREED"
    <2>1. CASE c \in Tracked
      <3>1. TRUE \in BOOLEAN /\ Trace[c].launchTime \in Int /\ Trace[c].session \in Sessions
        BY <2>1, <1>4
      <3>2. p.heap[c] = NewCircuit(Trace[c].session, Trace[c].launchTime, TRUE)
        BY <2>1, <1>3
      <3>3. /\ NewCircuit(Trace[c].session, Trace[c].launchTime, TRUE) \in Circuit
            /\ NewCircuit(Trace[c].session, Trace[c].launchTime, TRUE).session = Trace[c].session
            /\ NewCircuit(Trace[c].session, Trace[c].launchTime, TRUE).status = "NONE"
            /\ NewCircuit(Trace[c].session, Trace[c].launchTime, TRUE).id = 0
        BY <3>1, NewCircuitType, Zenon
      <3> HIDE DEF p
      <3>4. QED
        BY <2>1, <3>2, <3>3, Zenon
    <2>2. CASE c \notin Tracked
      <3>1. p.heap[c] = Freed
        BY <2>2, <1>3
      <3>2. Freed \in Circuit /\ Freed.id = 0 /\ Freed.status = "FREED"
        BY DEF Freed, Circuit, IDs, CircuitStatus
      <3>3. QED
        BY <2>2, <3>1, <3>2
    <2>3. QED
      BY <2>1, <2>2
  <1>10. p \in PlayerState
    <2>1. p.heap \in [Circuits -> Circuit] /\ p.circuitsSorted \in [Sessions -> Seq(Circuits)]
      <3>1. p.heap = [c \in Circuits |-> p.heap[c]] /\ queue = [s \in Sessions |-> queue[s]]
        BY <1>3
      <3> HIDE DEF p
      <3>2. QED
        BY <3>1, <1>3, <1>7, <1>9
    <2>2. p.launches \in Seq(LaunchInfo)
      <3>1. order \in Seq(Tracked)
        BY <1>5
      <3>2. \A i \in DOMAIN order : Launch(order[i]) \in LaunchInfo
        <4>1. \A i \in DOMAIN order : order[i] \in Tracked
          BY <3>1
        <4>2. \A c \in Tracked : Launch(c) \in LaunchInfo
          BY <1>4, PlayerAssumption DEF Launch, LaunchInfo
        <4>3. QED
          BY <4>1, <4>2
      <3>3. DOMAIN order = 1..Len(order) /\ Len(order) \in Nat
        BY <3>1
      <3>4. QED
        BY <3>2, <3>3, <1>3
    <2>3. /\ p.waitingStreamIDs \in [Sessions -> Seq(Streams \cup {Preemptive})]
          /\ p.circuits \in [IDs -> Circuits \cup {NoCircuit}]
          /\ <<>> \in Seq(Sessions) /\ <<>> \in Seq(Command)
          /\ p.sessions \in SUBSET Sessions
      <3>1. <<>> \in Seq(Sessions) /\ <<>> \in Seq(Command) /\ <<>> \in Seq(Streams \cup {Preemptive})
        BY EmptySeq
      <3>2. QED
        BY <3>1, <1>3
    <2> DEFINE R(hp, ss, cs, ws, ct, l) ==
                 [heap |-> hp, sessions |-> ss, circuitsSorted |-> cs,
                  waitingStreamIDs |-> ws, circuits |-> ct, launches |-> l,
                  sessionAwaitingAssignment |-> NoSession, sessionAssignmentBacklog |-> <<>>,
                  streamsAssigning |-> 0, circuitsBuilding |-> 0, commands |-> <<>>]
    <2>4. p = R(p.heap, p.sessions, p.circuitsSorted, p.waitingStreamIDs, p.circuits, p.launches)
      BY <1>2, <1>3
    <2>5. ASSUME NEW hp \in [Circuits -> Circuit], NEW ss \in SUBSET Sessions,
                 NEW cs \in [Sessions -> Seq(Circuits)],
                 NEW ws \in [Sessions -> Seq(Streams \cup {Preemptive})],
                 NEW ct \in [IDs -> Circuits \cup {NoCircuit}], NEW l \in Seq(LaunchInfo)
          PROVE  R(hp, ss, cs, ws, ct, l) \in PlayerState
      BY <2>3 DEF PlayerState
    <2> HIDE DEF p, R
    <2>6. R(p.heap, p.sessions, p.circuitsSorted, p.waitingStreamIDs, p.circuits, p.launches) \in PlayerState
      BY <2>1, <2>2, <2>3, <2>5
    <2>7. QED
      BY <2>4, <2>6, Zenon
  <1>11. QueuesOwnCircuits(p)
    <2>1. \A s \in Sessions : s \in p.sessions <=> p.circuitsSorted[s] # <<>>
      BY <1>3, <1>7
    <2>2. ASSUME NEW s \in Sessions, NEW i \in DOMAIN p.circuitsSorted[s], NEW j \in DOMAIN p.circuitsSorted[s]
          PROVE  /\ p.heap[p.circuitsSorted[s][i]].session = s
                 /\ p.heap[p.circuitsSorted[s][i]].status # "FREED"
                 /\ p.circuitsSorted[s][i] = p.circuitsSorted[s][j] => i = j
      <3>1. p.circuitsSorted[s] = queue[s] /\ queue[s][i] \in TrackedOf(s)
        BY <1>3, <1>7
      <3> HIDE DEF p
      <3>2. queue[s][i] \in Tracked /\ Trace[queue[s][i]].session = s /\ queue[s][i] \in Circuits
        BY <3>1, <1>4, <1>8
      <3>3. p.heap[queue[s][i]].status = "NONE" /\ p.heap[queue[s][i]].session = s
        BY <3>2, <1>9
      <3>4. queue[s][i] = queue[s][j] => i = j
        BY <3>1, <1>3, <1>7
      <3>5. QED
        BY <3>1, <3>3, <3>4
    <2>3. ASSUME NEW c \in Circuits, p.heap[c].status # "FREED"
          PROVE  /\ p.heap[c].session \in Sessions
                 /\ \E i \in DOMAIN p.circuitsSorted[p.heap[c].session] :
                       p.circuitsSorted[p.heap[c].session][i] = c
      <3>1. c \in Tracked /\ p.heap[c].session = Trace[c].session
        BY <1>9, <2>3
      <3>2. Trace[c].session \in Sessions /\ c \in TrackedOf(Trace[c].session)
        BY <3>1, <1>4 DEF TrackedOf
      <3> HIDE DEF p
      <3>3. QED
        BY <3>1, <3>2, <1>3, <1>7
    <2>4. QED
      BY <2>1, <2>2, <2>3 DEF QueuesOwnCircuits
  <1>12. OnlyCurrentIsLaunched(p)
    <2>1. ASSUME NEW s \in Sessions, NEW i \in DOMAIN p.circuitsSorted[s]
          PROVE  p.heap[p.circuitsSorted[s][i]].status = "NONE"
      <3>1. p.circuitsSorted[s] = queue[s] /\ queue[s][i] \in TrackedOf(s)
        BY <1>3, <1>7
      <3> HIDE DEF p
      <3>2. QED
        BY <3>1, <1>4, <1>8, <1>9
    <2>2. QED
      BY <2>1 DEF OnlyCurrentIsLaunched
  <1>13. TableMatchesCircuits(p)
    <2>1. \A c \in Circuits : p.heap[c].status \in {"NONE", "FREED"} /\ p.heap[c].id = 0
      BY <1>9
    <2>2. \A id \in IDs : p.circuits[id] = NoCircuit
      BY <1>3
    <2> HIDE DEF p
    <2>3. QED
      BY <2>1, <2>2 DEF TableMatchesCircuits
  <1>14. AwaitingIsLaunched(p)
    <2>1. ASSUME NEW s \in Sessions, s \in p.sessions
          PROVE  p.heap[CurrentCircuit(p, s)].status # "LAUNCHED" /\ s # NoSession
      <3>1. CurrentCircuit(p, s) \in Circuits
        BY <2>1, <1>10, <1>11, CurrentCircuitOwned
      <3>2. QED
        BY <3>1, <1>9, PlayerAssumption
    <2>2. QED
      BY <2>1, <1>3 DEF AwaitingIsLaunched
  <1>15. BacklogKnown(p) /\ BacklogAwaits(p) /\ NoLostWakeup(p)
    <2>1. DOMAIN <<>> = {}
      BY EmptySeq
    <2>2. QED
      BY <2>1, <1>3 DEF BacklogKnown, BacklogAwaits, NoLostWakeup
  <1>16. LaunchesKnown(p)
    <2>1. ASSUME NEW i \in DOMAIN p.launches PROVE p.launches[i].session \in p.sessions
      <3>1. order \in Seq(Tracked)
        BY <1>5
      <3>2. i \in DOMAIN order /\ p.launches[i] = Launch(order[i]) /\ order[i] \in Tracked
        BY <3>1, <1>3
      <3>3. p.launches[i].session = Trace[order[i]].session
        BY <3>2 DEF Launch
      <3>4. Trace[order[i]].session \in Sessions /\ order[i] \in TrackedOf(Trace[order[i]].session)
        BY <3>2, <1>4 DEF TrackedOf
      <3> HIDE DEF p
      <3>5. QED
        BY <3>3, <3>4, <1>3
    <2>2. QED
      BY <2>1 DEF LaunchesKnown
  <1>17. now \in Nat
    BY <1>2
  <1>18. QED
    BY <1>10, <1>11, <1>12, <1>13, <1>14, <1>15, <1>16, <1>17 DEF IInv, LoopInv, Core

-----------------------------------------------------------------------------
(* The steps, and the theorems                                             *)

LEMMA NextIInv == IInv /\ [Next]_vars => IInv'
  <1>1. SUFFICES ASSUME IInv, [Next]_vars PROVE IInv'
    OBVIOUS
  <1> DEFINE p == player
  <1>2. now \in Nat /\ LoopInv(p) /\ BacklogAwaits(p) /\ p \in PlayerState
    BY <1>1 DEF IInv, LoopInv, Core
  <1>3. SUFFICES now' \in Nat /\ LoopInv(player') /\ BacklogAwaits(player')
    BY DEF IInv, LoopInv, Core, NoLostWakeup, BacklogAwaits, QueuesOwnCircuits, OnlyCurrentIsLaunched,
           TableMatchesCircuits, AwaitingIsLaunched, BacklogKnown, LaunchesKnown, CurrentCircuit
  <1>4. CASE StreamEvent
    BY <1>2, <1>4, StreamNewInv DEF StreamEvent
  <1>5. CASE CircuitAssigned
    BY <1>2, <1>5, CircuitAssignedInv DEF CircuitAssigned
  <1>6. CASE CircuitBuilt
    BY <1>2, <1>6, CircuitBuiltInv DEF CircuitBuilt, IDs
  <1>7. CASE CircuitGone
    BY <1>2, <1>7, CircuitGoneInv DEF CircuitGone, IDs
  <1>8. CASE PlayTimer
    BY <1>2, <1>8, LaunchNextInv DEF PlayTimer
  <1>9. CASE CommandSent
    <2>1. player' = SetCommands(p, Tail(p.commands)) /\ now' = now
      BY <1>2, <1>9 DEF CommandSent, SetCommands, PlayerState
    <2>2. Tail(p.commands) \in Seq(Command)
      BY <1>2, <1>9 DEF CommandSent, PlayerState
    <2>3. QED
      BY <1>2, <2>1, <2>2, SetCommandsInv
  <1>10. CASE Tick
    BY <1>2, <1>10 DEF Tick
  <1>11. CASE UNCHANGED vars
    BY <1>2, <1>11 DEF vars
  <1>12. QED
    BY <1>1, <1>4, <1>5, <1>6, <1>7, <1>8, <1>9, <1>10, <1>11 DEF Next

LEMMA InductiveInvariant == PlayerSpec => []IInv
  BY InitIInv, NextIInv, PTL DEF PlayerSpec

\* Whatever Tor sends, the Player's state keeps its types.
THEOREM TypeCorrect == PlayerSpec => []TypeOK
  <1>1. IInv => TypeOK
    BY DEF IInv, LoopInv, Core, TypeOK
  <1>2. QED
    BY <1>1, InductiveInvariant, PTL

\* No circuit is used after it was freed, leaked, or owned by two sessions, and
\* only the current circuit of a session is ever launched.
THEOREM Ownership == PlayerSpec => []OwnershipInv
  <1>1. IInv => OwnershipInv
    BY DEF IInv, LoopInv, Core, OwnershipInv
  <1>2. QED
    BY <1>1, InductiveInvariant, PTL

\* The table of circuits and the circuits that carry an id agree.
THEOREM TableAgrees == PlayerSpec => []TableInv
  <1>1. IInv => TableInv
    BY DEF IInv, LoopInv, Core, TableInv
  <1>2. QED
    BY <1>1, InductiveInvariant, PTL

\* The session that awaits an id is the one whose current circuit is launched.
THEOREM AwaitingLaunched == PlayerSpec => []AwaitingInv
  <1>1. IInv => AwaitingInv
    BY DEF IInv, LoopInv, Core, AwaitingInv
  <1>2. QED
    BY <1>1, InductiveInvariant, PTL

\* No handler returns with work left in the backlog that nothing will resume.
THEOREM BacklogDrained == PlayerSpec => []BacklogInv
  <1>1. IInv => BacklogInv
    BY DEF IInv, LoopInv, Core, BacklogInv
  <1>2. QED
    BY <1>1, InductiveInvariant, PTL

\* Streams never wait in a session that no event to come will look at.
THEOREM NoWakeupLost == PlayerSpec => []WakeupInv
  <1>1. IInv => WakeupInv
    BY DEF IInv, LoopInv, WakeupInv
  <1>2. QED
    BY <1>1, InductiveInvariant, PTL


-----------------------------------------------------------------------------
(* What an operation does to the queues                                    *)

\* From p to q, until time t, the queues of the known sessions lose circuits only
\* at the front, one is left that is due, and those that are left keep their time;
\* a new session has one circuit, and launches are taken from the front.
Moves(p, q, t) ==
    /\ p.sessions \subseteq q.sessions
    /\ \A s \in p.sessions : \E k \in 0..(Len(p.circuitsSorted[s]) - 1) :
          /\ q.circuitsSorted[s] = SubSeq(p.circuitsSorted[s], k + 1, Len(p.circuitsSorted[s]))
          /\ k > 0 => p.heap[p.circuitsSorted[s][k + 1]].launchTime <= t
    /\ \A s \in p.sessions : \A i \in DOMAIN q.circuitsSorted[s] :
          q.heap[q.circuitsSorted[s][i]].launchTime = p.heap[q.circuitsSorted[s][i]].launchTime
    /\ \A s \in Sessions \ p.sessions : Len(q.circuitsSorted[s]) <= 1
    /\ \E n \in 0..Len(p.launches) : q.launches = SubSeq(p.launches, n + 1, Len(p.launches))

\* The queues, and the launch times of all circuits, stay as they are.
KeepsQueues(p, q) ==
    /\ q.sessions = p.sessions /\ q.circuitsSorted = p.circuitsSorted /\ q.launches = p.launches
    /\ \A c \in Circuits : q.heap[c].launchTime = p.heap[c].launchTime

LEMMA Suffix ==
    ASSUME NEW S, NEW q \in Seq(S), NEW k \in 0..Len(q)
    PROVE  /\ SubSeq(q, k + 1, Len(q)) \in Seq(S)
           /\ Len(SubSeq(q, k + 1, Len(q))) = Len(q) - k
           /\ DOMAIN SubSeq(q, k + 1, Len(q)) = 1..(Len(q) - k)
           /\ \A i \in 1..(Len(q) - k) : SubSeq(q, k + 1, Len(q))[i] = q[k + i] /\ k + i \in DOMAIN q
  <1>1. k \in Nat /\ Len(q) \in Nat /\ DOMAIN q = 1..Len(q) /\ k <= Len(q)
    OBVIOUS
  <1>2. \A i \in 1..(Len(q) - k) : k + i \in 1..Len(q)
    BY <1>1
  <1>3. \A i \in (k + 1)..Len(q) : q[i] \in S
    BY <1>1
  <1> DEFINE r == SubSeq(q, k + 1, Len(q))
  <1>4. /\ r \in Seq(S) /\ Len(r) = (IF k + 1 <= Len(q) THEN Len(q) - (k + 1) + 1 ELSE 0)
        /\ \A i \in 1..(Len(q) - (k + 1) + 1) : r[i] = q[(k + 1) + i - 1]
    BY <1>1, <1>3, SubSeqProperties
  <1> HIDE DEF r
  <1>5. Len(r) = Len(q) - k /\ DOMAIN r = 1..(Len(q) - k)
    <2> DEFINE n == Len(q)
    <2>1. k \in Nat /\ n \in Nat /\ k <= n
      BY <1>1
    <2> HIDE DEF n
    <2>2. (IF k + 1 <= n THEN n - (k + 1) + 1 ELSE 0) = n - k
      BY <2>1
    <2>3. Len(r) = n - k
      BY <2>2, <1>4 DEF n
    <2>4. DOMAIN r = 1..Len(r)
      BY <1>4, LenProperties
    <2>5. QED
      BY <2>3, <2>4 DEF n
  <1>6. ASSUME NEW i \in 1..(Len(q) - k) PROVE r[i] = q[k + i]
    <2>1. i \in 1..(Len(q) - (k + 1) + 1) /\ (k + 1) + i - 1 = k + i
      BY <1>1
    <2>2. QED
      BY <2>1, <1>4
  <1>7. QED
    BY <1>1, <1>2, <1>4, <1>5, <1>6 DEF r

\* What is left of what is left.
LEMMA SuffixOfSuffix ==
    ASSUME NEW S, NEW q \in Seq(S), NEW k \in 0..Len(q), NEW j \in 0..(Len(q) - k),
           NEW r, r = SubSeq(q, k + 1, Len(q))
    PROVE  SubSeq(r, j + 1, Len(r)) = SubSeq(q, (k + j) + 1, Len(q))
  <1>1. r \in Seq(S) /\ Len(r) = Len(q) - k /\ \A i \in 1..(Len(q) - k) : r[i] = q[k + i]
    BY Suffix
  <1>2. k \in Nat /\ j \in Nat /\ Len(q) \in Nat /\ k + j \in 0..Len(q) /\ j \in 0..Len(r)
    BY <1>1
  <1> DEFINE a == SubSeq(r, j + 1, Len(r))
             b == SubSeq(q, (k + j) + 1, Len(q))
  <1>3. /\ a \in Seq(S) /\ Len(a) = Len(r) - j
        /\ \A i \in 1..(Len(r) - j) : a[i] = r[j + i]
    BY <1>1, <1>2, Suffix
  <1>4. /\ b \in Seq(S) /\ Len(b) = Len(q) - (k + j)
        /\ \A i \in 1..(Len(q) - (k + j)) : b[i] = q[(k + j) + i]
    BY <1>2, Suffix
  <1> HIDE DEF a, b
  <1>5. Len(a) = Len(b)
    BY <1>1, <1>2, <1>3, <1>4
  <1>6. ASSUME NEW i \in 1..Len(a) PROVE a[i] = b[i]
    <2>1. i \in 1..(Len(r) - j) /\ i \in 1..(Len(q) - (k + j)) /\ j + i \in 1..(Len(q) - k)
      BY <1>1, <1>2, <1>3
    <2>2. a[i] = q[k + (j + i)] /\ b[i] = q[(k + j) + i]
      BY <2>1, <1>1, <1>3, <1>4
    <2>3. k + (j + i) = (k + j) + i
      BY <1>2, <2>1
    <2>4. QED
      BY <2>2, <2>3
  <1>7. a = b
    BY <1>3, <1>4, <1>5, <1>6, SeqEqual
  <1>8. QED
    BY <1>7 DEF a, b

\* The queue of a session of the table, which is not empty.
LEMMA SessionQueue ==
    ASSUME NEW p, Core(p), NEW s \in p.sessions
    PROVE  /\ s \in Sessions /\ p.circuitsSorted[s] \in Seq(Circuits)
           /\ Len(p.circuitsSorted[s]) \in Nat \ {0}
           /\ DOMAIN p.circuitsSorted[s] = 1..Len(p.circuitsSorted[s])
           /\ \A i \in 1..Len(p.circuitsSorted[s]) :
                 /\ p.circuitsSorted[s][i] \in Circuits
                 /\ p.heap[p.circuitsSorted[s][i]].launchTime \in Int
  <1>1. /\ s \in Sessions /\ p.circuitsSorted[s] \in Seq(Circuits) /\ p.circuitsSorted[s] # <<>>
        /\ p.heap \in [Circuits -> Circuit]
    BY CurrentCircuitOwned DEF Core, PlayerState
  <1>2. Len(p.circuitsSorted[s]) \in Nat \ {0} /\ DOMAIN p.circuitsSorted[s] = 1..Len(p.circuitsSorted[s])
    BY <1>1, EmptySeq, LenProperties
  <1>3. \A i \in 1..Len(p.circuitsSorted[s]) : p.circuitsSorted[s][i] \in Circuits
    BY <1>1, ElementOfSeq
  <1>4. QED
    BY <1>1, <1>2, <1>3 DEF Circuit

LEMMA KeepsQueuesMoves ==
    ASSUME NEW p, Core(p), NEW q, KeepsQueues(p, q), NEW t
    PROVE  Moves(p, q, t)
  <1>1. p.sessions \subseteq q.sessions
    BY DEF KeepsQueues
  <1>2. ASSUME NEW s \in p.sessions
        PROVE  /\ \E k \in 0..(Len(p.circuitsSorted[s]) - 1) :
                    /\ q.circuitsSorted[s] = SubSeq(p.circuitsSorted[s], k + 1, Len(p.circuitsSorted[s]))
                    /\ k > 0 => p.heap[p.circuitsSorted[s][k + 1]].launchTime <= t
               /\ \A i \in DOMAIN q.circuitsSorted[s] :
                    q.heap[q.circuitsSorted[s][i]].launchTime = p.heap[q.circuitsSorted[s][i]].launchTime
    <2> DEFINE n == Len(p.circuitsSorted[s])
    <2>1. /\ p.circuitsSorted[s] \in Seq(Circuits) /\ n \in Nat \ {0}
          /\ q.circuitsSorted[s] = p.circuitsSorted[s] /\ DOMAIN p.circuitsSorted[s] = 1..n
          /\ \A i \in 1..n : p.circuitsSorted[s][i] \in Circuits
      BY SessionQueue DEF KeepsQueues
    <2>2. SubSeq(p.circuitsSorted[s], 0 + 1, n) = p.circuitsSorted[s]
      BY <2>1, SubSeqFull
    <2> HIDE DEF n
    <2>3. 0 \in 0..(n - 1) /\ ~(0 > 0)
      BY <2>1
    <2>4. QED
      BY <2>1, <2>2, <2>3 DEF KeepsQueues, n
  <1>3. ASSUME NEW s \in Sessions \ p.sessions PROVE Len(q.circuitsSorted[s]) <= 1
    <2>1. q.circuitsSorted[s] = <<>>
      BY DEF KeepsQueues, Core, QueuesOwnCircuits
    <2>2. QED
      BY <2>1, EmptySeq
  <1>4. \E n \in 0..Len(p.launches) : q.launches = SubSeq(p.launches, n + 1, Len(p.launches))
    <2>1. p.launches \in Seq(LaunchInfo) /\ q.launches = p.launches
      BY DEF Core, PlayerState, KeepsQueues
    <2>2. 0 \in 0..Len(p.launches) /\ q.launches = SubSeq(p.launches, 0 + 1, Len(p.launches))
      BY <2>1, SubSeqFull, LenProperties
    <2>3. QED
      BY <2>2
  <1>5. QED
    BY <1>1, <1>2, <1>3, <1>4 DEF Moves

LEMMA MovesTransitive ==
    ASSUME NEW p, Core(p), NEW q, Core(q), NEW r, NEW t \in Int, Moves(p, q, t), Moves(q, r, t)
    PROVE  Moves(p, r, t)
  <1>1. p.sessions \subseteq r.sessions
    BY DEF Moves
  <1>2. ASSUME NEW s \in p.sessions
        PROVE  /\ \E k \in 0..(Len(p.circuitsSorted[s]) - 1) :
                    /\ r.circuitsSorted[s] = SubSeq(p.circuitsSorted[s], k + 1, Len(p.circuitsSorted[s]))
                    /\ k > 0 => p.heap[p.circuitsSorted[s][k + 1]].launchTime <= t
               /\ \A i \in DOMAIN r.circuitsSorted[s] :
                    r.heap[r.circuitsSorted[s][i]].launchTime = p.heap[r.circuitsSorted[s][i]].launchTime
    <2> DEFINE ps == p.circuitsSorted[s]
               qs == q.circuitsSorted[s]
               rs == r.circuitsSorted[s]
    <2>1. s \in q.sessions
      BY DEF Moves
    <2>2. /\ ps \in Seq(Circuits) /\ Len(ps) \in Nat \ {0} /\ DOMAIN ps = 1..Len(ps)
          /\ \A i \in 1..Len(ps) : ps[i] \in Circuits /\ p.heap[ps[i]].launchTime \in Int
      BY SessionQueue
    <2>3. /\ qs \in Seq(Circuits) /\ Len(qs) \in Nat \ {0} /\ DOMAIN qs = 1..Len(qs)
          /\ \A i \in 1..Len(qs) : qs[i] \in Circuits /\ q.heap[qs[i]].launchTime \in Int
      BY <2>1, SessionQueue
    <2>4. PICK k \in 0..(Len(ps) - 1) :
            /\ qs = SubSeq(ps, k + 1, Len(ps))
            /\ k > 0 => p.heap[ps[k + 1]].launchTime <= t
      BY DEF Moves
    <2>5. PICK j \in 0..(Len(qs) - 1) :
            /\ rs = SubSeq(qs, j + 1, Len(qs))
            /\ j > 0 => q.heap[qs[j + 1]].launchTime <= t
      BY <2>1 DEF Moves
    <2>6. \A i \in 1..Len(qs) : q.heap[qs[i]].launchTime = p.heap[qs[i]].launchTime
      BY <2>3 DEF Moves
    <2>7. \A i \in DOMAIN rs : r.heap[rs[i]].launchTime = q.heap[rs[i]].launchTime
      BY <2>1 DEF Moves
    <2> HIDE DEF ps, qs, rs
    <2>8. /\ k \in Nat /\ j \in Nat /\ k \in 0..Len(ps) /\ Len(qs) = Len(ps) - k
          /\ \A i \in 1..(Len(ps) - k) : qs[i] = ps[k + i]
      <3>1. k \in Nat /\ j \in Nat /\ k \in 0..Len(ps)
        BY <2>2, <2>3
      <3>2. QED
        BY <2>2, <2>4, <3>1, Suffix
    <2>9. /\ j \in 0..Len(qs) /\ j \in 0..(Len(ps) - k) /\ k + j \in 0..(Len(ps) - 1)
          /\ j + 1 \in 1..Len(qs) /\ j + 1 \in 1..(Len(ps) - k) /\ k + (j + 1) = (k + j) + 1
          /\ DOMAIN rs = 1..(Len(qs) - j)
          /\ \A i \in 1..(Len(qs) - j) : rs[i] = qs[j + i] /\ j + i \in 1..Len(qs)
      <3>1. /\ j \in 0..Len(qs) /\ j \in 0..(Len(ps) - k) /\ k + j \in 0..(Len(ps) - 1)
            /\ j + 1 \in 1..Len(qs) /\ j + 1 \in 1..(Len(ps) - k) /\ k + (j + 1) = (k + j) + 1
        <4> DEFINE m == Len(ps)
                   n == Len(qs)
        <4>1. m \in Nat /\ n \in Nat /\ k \in Nat /\ j \in Nat /\ n = m - k /\ j \in 0..(n - 1) /\ k \in 0..m
          BY <2>2, <2>3, <2>8
        <4> HIDE DEF m, n
        <4>2. /\ j \in 0..n /\ j \in 0..(m - k) /\ k + j \in 0..(m - 1)
              /\ j + 1 \in 1..n /\ j + 1 \in 1..(m - k) /\ k + (j + 1) = (k + j) + 1
          BY <4>1
        <4>3. QED
          BY <4>2 DEF m, n
      <3>2. QED
        BY <2>3, <2>5, <3>1, Suffix
    <2>10. rs = SubSeq(ps, (k + j) + 1, Len(ps))
      BY <2>2, <2>4, <2>5, <2>8, <2>9, SuffixOfSuffix
    <2>11. k + j > 0 => p.heap[ps[(k + j) + 1]].launchTime <= t
      <3>1. qs[j + 1] = ps[(k + j) + 1]
        BY <2>8, <2>9
      <3>2. CASE j > 0
        BY <3>1, <3>2, <2>5, <2>6, <2>9
      <3>3. CASE j = 0
        BY <3>3, <2>4, <2>8
      <3>4. QED
        BY <3>2, <3>3, <2>8
    <2>12. \A i \in DOMAIN rs : r.heap[rs[i]].launchTime = p.heap[rs[i]].launchTime
      BY <2>6, <2>7, <2>9, SMTT(30)
    <2>13. QED
      BY <2>9, <2>10, <2>11, <2>12 DEF ps, qs, rs
  <1>3. ASSUME NEW s \in Sessions \ p.sessions PROVE Len(r.circuitsSorted[s]) <= 1
    <2>1. CASE s \notin q.sessions
      BY <2>1 DEF Moves
    <2>2. CASE s \in q.sessions
      <3> DEFINE qs == q.circuitsSorted[s]
      <3>1. qs \in Seq(Circuits) /\ Len(qs) \in Nat \ {0} /\ Len(qs) <= 1
        BY <2>2, SessionQueue DEF Moves
      <3>2. PICK j \in 0..(Len(qs) - 1) : r.circuitsSorted[s] = SubSeq(qs, j + 1, Len(qs))
        BY <2>2 DEF Moves
      <3> HIDE DEF qs
      <3>3. j \in 0..Len(qs)
        BY <3>1
      <3>4. Len(r.circuitsSorted[s]) = Len(qs) - j
        BY <3>1, <3>2, <3>3, Suffix
      <3>5. QED
        BY <3>1, <3>2, <3>4
    <2>3. QED
      BY <2>1, <2>2
  <1>4. \E n \in 0..Len(p.launches) : r.launches = SubSeq(p.launches, n + 1, Len(p.launches))
    <2> DEFINE pl == p.launches
               ql == q.launches
    <2>1. pl \in Seq(LaunchInfo)
      BY DEF Core, PlayerState
    <2>2. PICK k \in 0..Len(pl) : ql = SubSeq(pl, k + 1, Len(pl))
      BY DEF Moves
    <2>3. PICK j \in 0..Len(ql) : r.launches = SubSeq(ql, j + 1, Len(ql))
      BY DEF Moves
    <2> HIDE DEF pl, ql
    <2>4. Len(ql) = Len(pl) - k
      BY <2>1, <2>2, Suffix
    <2>5. j \in 0..(Len(pl) - k) /\ k + j \in 0..Len(pl)
      BY <2>1, <2>3, <2>4, LenProperties
    <2>6. r.launches = SubSeq(pl, (k + j) + 1, Len(pl))
      BY <2>1, <2>2, <2>3, <2>5, SuffixOfSuffix
    <2>7. QED
      BY <2>5, <2>6 DEF pl
  <1>5. QED
    BY <1>1, <1>2, <1>3, <1>4 DEF Moves

\* What was sorted stays sorted.
LEMMA MovesSorted ==
    ASSUME NEW p, Core(p), NEW q, Core(q), NEW t, Moves(p, q, t), QueuesSorted(p)
    PROVE  QueuesSorted(q)
  <1>1. ASSUME NEW s \in Sessions, NEW i \in DOMAIN q.circuitsSorted[s], NEW j \in DOMAIN q.circuitsSorted[s], i < j
        PROVE  q.heap[q.circuitsSorted[s][i]].launchTime <= q.heap[q.circuitsSorted[s][j]].launchTime
    <2> DEFINE ps == p.circuitsSorted[s]
               qs == q.circuitsSorted[s]
    <2>0. qs \in Seq(Circuits) /\ ps \in Seq(Circuits)
      BY DEF Core, PlayerState
    <2>1. CASE s \notin p.sessions
      <3>1. Len(qs) <= 1 /\ DOMAIN qs = 1..Len(qs) /\ Len(qs) \in Nat
        BY <2>0, <2>1, LenProperties DEF Moves
      <3> HIDE DEF qs
      <3>2. i \in 1..Len(qs) /\ j \in 1..Len(qs)
        BY <3>1 DEF qs
      <3>3. QED
        BY <3>1, <3>2, <1>1
    <2>2. CASE s \in p.sessions
      <3>1. /\ Len(ps) \in Nat \ {0} /\ DOMAIN ps = 1..Len(ps)
        BY <2>2, SessionQueue
      <3>2. PICK k \in 0..(Len(ps) - 1) : qs = SubSeq(ps, k + 1, Len(ps))
        BY <2>2 DEF Moves
      <3>3. \A n \in DOMAIN qs : q.heap[qs[n]].launchTime = p.heap[qs[n]].launchTime
        BY <2>2 DEF Moves
      <3>4. i \in DOMAIN qs /\ j \in DOMAIN qs
        OBVIOUS
      <3>s. \A m, n \in DOMAIN ps : m < n => p.heap[ps[m]].launchTime <= p.heap[ps[n]].launchTime
        BY DEF QueuesSorted
      <3> HIDE DEF ps, qs
      <3>5. k \in 0..Len(ps)
        BY <3>1
      <3>6. /\ DOMAIN qs = 1..(Len(ps) - k)
            /\ \A n \in 1..(Len(ps) - k) : qs[n] = ps[k + n] /\ k + n \in DOMAIN ps
        BY <2>0, <3>2, <3>5, Suffix
      <3>7. k + i < k + j
        BY <1>1, <3>1, <3>4, <3>6
      <3>8. /\ qs[i] = ps[k + i] /\ qs[j] = ps[k + j]
            /\ k + i \in DOMAIN ps /\ k + j \in DOMAIN ps
        BY <3>4, <3>6
      <3>9. p.heap[ps[k + i]].launchTime <= p.heap[ps[k + j]].launchTime
        BY <3>7, <3>8, <3>s, Zenon
      <3>10. q.heap[qs[i]].launchTime <= q.heap[qs[j]].launchTime
        BY <3>3, <3>4, <3>8, <3>9, Zenon
      <3>11. QED
        BY <3>10 DEF qs
    <2>3. QED
      BY <2>1, <2>2
  <1>2. ASSUME NEW i \in DOMAIN q.launches, NEW j \in DOMAIN q.launches, i < j
        PROVE  q.launches[i].abstime <= q.launches[j].abstime
    <2> DEFINE pl == p.launches
               ql == q.launches
    <2>1. pl \in Seq(LaunchInfo)
      BY DEF Core, PlayerState
    <2>2. PICK k \in 0..Len(pl) : ql = SubSeq(pl, k + 1, Len(pl))
      BY DEF Moves
    <2>3. i \in DOMAIN ql /\ j \in DOMAIN ql
      OBVIOUS
    <2>4. \A m, n \in DOMAIN pl : m < n => pl[m].abstime <= pl[n].abstime
      BY DEF QueuesSorted
    <2> HIDE DEF pl, ql
    <2>5. /\ DOMAIN ql = 1..(Len(pl) - k)
          /\ \A n \in 1..(Len(pl) - k) : ql[n] = pl[k + n] /\ k + n \in DOMAIN pl
      BY <2>1, <2>2, Suffix
    <2>6. Len(pl) \in Nat /\ k \in Nat
      BY <2>1, LenProperties
    <2>7. k + i < k + j
      BY <1>2, <2>3, <2>5, <2>6
    <2>8. QED
      BY <2>3, <2>4, <2>5, <2>7 DEF ql
  <1>3. QED
    BY <1>1, <1>2 DEF QueuesSorted

-----------------------------------------------------------------------------
(* The operations move the queues                                          *)

LEMMA RotateMoves ==
    ASSUME NEW p, Core(p), NEW s \in p.sessions, NEW t \in Int, RotationDue(p, t, s)
    PROVE  Moves(p, Rotate(p, s), t)
  <1> DEFINE q == Rotate(p, s)
             sq == p.circuitsSorted[s]
             old == CurrentCircuit(p, s)
  <1>1. /\ s \in Sessions /\ sq \in Seq(Circuits) /\ sq # <<>> /\ old = sq[1] /\ old \in Circuits
    BY CurrentCircuitOwned DEF Core
  <1>2. /\ q.heap = [p.heap EXCEPT ![old] = Freed]
        /\ q.sessions = p.sessions
        /\ q.circuitsSorted = [p.circuitsSorted EXCEPT ![s] = Tail(sq)]
        /\ q.launches = p.launches
    BY DEF Core, Rotate, PlayerState
  <1>3. /\ \A c \in Circuits : c # old => q.heap[c] = p.heap[c]
        /\ \A r \in Sessions : r # s => q.circuitsSorted[r] = p.circuitsSorted[r]
        /\ q.circuitsSorted[s] = Tail(sq)
    BY <1>1, <1>2 DEF Core, PlayerState
  <1>4. /\ Len(sq) > 1 /\ Len(sq) \in Nat /\ DOMAIN sq = 1..Len(sq)
        /\ Tail(sq) = SubSeq(sq, 2, Len(sq))
        /\ DOMAIN Tail(sq) = 1..(Len(sq) - 1)
        /\ \A i \in 1..(Len(sq) - 1) : Tail(sq)[i] = sq[i + 1]
        /\ p.heap[sq[2]].launchTime <= t
    BY <1>1, QueueSecond, TailIsSubSeq DEF RotationDue
  <1> HIDE DEF q, sq, old
  <1>5. ASSUME NEW r \in p.sessions, NEW i \in DOMAIN q.circuitsSorted[r]
        PROVE  q.heap[q.circuitsSorted[r][i]].launchTime = p.heap[q.circuitsSorted[r][i]].launchTime
    <2>0. /\ r \in Sessions
          /\ \A n \in DOMAIN p.circuitsSorted[r] : p.circuitsSorted[r][n] \in Circuits
      BY SessionQueue
    <2>1. q.circuitsSorted[r][i] \in Circuits /\ q.circuitsSorted[r][i] # old
      <3>1. CASE r = s
        <4>1. i \in 1..(Len(sq) - 1) /\ q.circuitsSorted[r][i] = sq[i + 1]
          BY <3>1, <1>3, <1>4
        <4>2. i + 1 \in DOMAIN sq /\ 1 \in DOMAIN sq /\ i + 1 # 1
          BY <4>1, <1>4
        <4>3. sq[i + 1] # sq[1]
          BY <4>2, <1>1 DEF sq, Core, QueuesOwnCircuits
        <4>4. QED
          BY <4>1, <4>2, <4>3, <1>1, <2>0, <3>1 DEF sq
      <3>2. CASE r # s
        <4> DEFINE x == p.circuitsSorted[r][i]
        <4>1. q.circuitsSorted[r] = p.circuitsSorted[r]
          BY <3>2, <1>3, <2>0
        <4>2. i \in DOMAIN p.circuitsSorted[r] /\ q.circuitsSorted[r][i] = x
          BY <4>1
        <4>3. x \in Circuits
          BY <4>2, <2>0
        <4>4. p.heap[x].session = r
          BY <2>0, <4>2 DEF Core, QueuesOwnCircuits
        <4>5. p.heap[old].session = s
          <5>1. p \in PlayerState /\ QueuesOwnCircuits(p)
            BY DEF Core
          <5>2. QED
            BY <5>1, CurrentCircuitOwned DEF old
        <4> HIDE DEF x
        <4>6. x # old
          BY <4>4, <4>5, <3>2
        <4>7. QED
          BY <4>2, <4>3, <4>6
      <3>3. QED
        BY <3>1, <3>2
    <2>2. QED
      BY <2>1, <1>3
  <1>6. ASSUME NEW r \in p.sessions
        PROVE  \E k \in 0..(Len(p.circuitsSorted[r]) - 1) :
                  /\ q.circuitsSorted[r] = SubSeq(p.circuitsSorted[r], k + 1, Len(p.circuitsSorted[r]))
                  /\ k > 0 => p.heap[p.circuitsSorted[r][k + 1]].launchTime <= t
    <2>1. CASE r = s
      <3>1. 1 \in 0..(Len(sq) - 1) /\ 1 + 1 = 2
        BY <1>4
      <3>2. /\ q.circuitsSorted[r] = SubSeq(sq, 1 + 1, Len(sq))
            /\ p.heap[sq[1 + 1]].launchTime <= t
        BY <2>1, <3>1, <1>3, <1>4
      <3>3. QED
        BY <2>1, <3>1, <3>2 DEF sq
    <2>2. CASE r # s
      <3>1. /\ r \in Sessions /\ p.circuitsSorted[r] \in Seq(Circuits)
            /\ Len(p.circuitsSorted[r]) \in Nat \ {0}
        BY SessionQueue
      <3>2. 0 \in 0..(Len(p.circuitsSorted[r]) - 1) /\ ~(0 > 0) /\ 0 + 1 = 1
        BY <3>1
      <3>3. q.circuitsSorted[r] = SubSeq(p.circuitsSorted[r], 0 + 1, Len(p.circuitsSorted[r]))
        BY <2>2, <3>1, <3>2, <1>3, SubSeqFull
      <3>4. QED
        BY <3>2, <3>3
    <2>3. QED
      BY <2>1, <2>2
  <1>7. \A r \in Sessions \ p.sessions : Len(q.circuitsSorted[r]) <= 1
    <2>1. ASSUME NEW r \in Sessions \ p.sessions PROVE q.circuitsSorted[r] = <<>>
      BY <1>3 DEF Core, QueuesOwnCircuits
    <2>2. QED
      BY <2>1, EmptySeq
  <1>8. \E n \in 0..Len(p.launches) : q.launches = SubSeq(p.launches, n + 1, Len(p.launches))
    <2>1. p.launches \in Seq(LaunchInfo)
      BY DEF Core, PlayerState
    <2>2. 0 \in 0..Len(p.launches) /\ q.launches = SubSeq(p.launches, 0 + 1, Len(p.launches))
      BY <2>1, <1>2, SubSeqFull, LenProperties
    <2>3. QED
      BY <2>2
  <1>9. Moves(p, q, t)
    BY <1>2, <1>5, <1>6, <1>7, <1>8 DEF Moves
  <1>10. QED
    BY <1>9 DEF q

\* Whatever is done for a session, its queue at most rotates.
LEMMA HandleSessionMoves ==
    ASSUME NEW p, Core(p), NEW s \in p.sessions, NEW t \in Nat,
           p.sessionAwaitingAssignment # s
    PROVE  Moves(p, HandleSession(p, t, s), t)
  <1> DEFINE cur == GetCurrentCircuit(p, t, s)
             q == HandleSession(p, t, s)
  <1>1. Core(cur) /\ s \in cur.sessions /\ Moves(p, cur, t)
    <2>1. CASE RotationDue(p, t, s)
      <3>1. cur = Rotate(p, s) /\ Len(p.circuitsSorted[s]) > 1
        BY <2>1 DEF GetCurrentCircuit, RotationDue
      <3> HIDE DEF cur
      <3>2. QED
        BY <2>1, <3>1, RotateCore, RotateMoves
    <2>2. CASE ~RotationDue(p, t, s)
      <3>1. cur = p
        BY <2>2 DEF GetCurrentCircuit
      <3>2. KeepsQueues(p, p)
        BY DEF KeepsQueues
      <3> HIDE DEF cur
      <3>3. QED
        BY <3>1, <3>2, KeepsQueuesMoves
    <2>3. QED
      BY <2>1, <2>2
  <1> HIDE DEF cur
  <1>2. cur \in PlayerState /\ CurrentCircuit(cur, s) \in Circuits
    BY <1>1, CurrentCircuitOwned DEF Core
  <1>3. \/ q = cur \/ q = LaunchCircuit(cur, s) \/ q = EnterBacklog(cur, s) \/ q = AttachWaiting(cur, s)
    BY DEF HandleSession, HandleUnlaunched, cur
  <1>4. KeepsQueues(cur, LaunchCircuit(cur, s))
    <2> DEFINE c == CurrentCircuit(cur, s)
    <2>1. /\ LaunchCircuit(cur, s).sessions = cur.sessions
          /\ LaunchCircuit(cur, s).circuitsSorted = cur.circuitsSorted
          /\ LaunchCircuit(cur, s).launches = cur.launches
          /\ LaunchCircuit(cur, s).heap = [cur.heap EXCEPT ![c] = [cur.heap[c] EXCEPT !.status = "LAUNCHED"]]
      BY <1>2 DEF LaunchCircuit, PlayerState
    <2>2. \A d \in Circuits : cur.heap[d] \in Circuit
      BY <1>2 DEF PlayerState
    <2>3. \A d \in Circuits : [cur.heap[d] EXCEPT !.status = "LAUNCHED"].launchTime = cur.heap[d].launchTime
      BY <2>2 DEF Circuit
    <2> HIDE DEF c
    <2>4. QED
      BY <2>1, <2>3, <1>2 DEF KeepsQueues, PlayerState
  <1>5. KeepsQueues(cur, EnterBacklog(cur, s)) /\ KeepsQueues(cur, AttachWaiting(cur, s)) /\ KeepsQueues(cur, cur)
    BY <1>2 DEF EnterBacklog, AttachWaiting, KeepsQueues, PlayerState
  <1>6. Moves(cur, q, t)
    BY <1>1, <1>3, <1>4, <1>5, KeepsQueuesMoves
  <1>7. QED
    BY <1>1, <1>6, MovesTransitive

LEMMA HandleNextSessionMoves ==
    ASSUME NEW p, LoopInv(p), NEW t \in Nat
    PROVE  Moves(p, HandleNextSession(p, t), t)
  <1> DEFINE q == [p EXCEPT !.sessionAssignmentBacklog = Tail(p.sessionAssignmentBacklog)]
             s == Head(p.sessionAssignmentBacklog)
  <1>0. Core(p) /\ p \in PlayerState
    BY DEF LoopInv, Core
  <1>1. CASE p.sessionAwaitingAssignment = NoSession /\ p.sessionAssignmentBacklog # <<>>
    <2>1. Core(q) /\ s \in q.sessions /\ q.sessionAwaitingAssignment = NoSession
      BY <1>1, PopBacklog
    <2>2. HandleNextSession(p, t) = HandleSession(q, t, s)
      BY <1>1 DEF HandleNextSession
    <2>3. NoSession # s
      BY <2>1, PlayerAssumption DEF Core, PlayerState
    <2>4. KeepsQueues(p, q)
      BY <1>0 DEF KeepsQueues, PlayerState
    <2> HIDE DEF q, s
    <2>5. Moves(p, q, t) /\ Moves(q, HandleSession(q, t, s), t)
      BY <1>0, <2>1, <2>3, <2>4, KeepsQueuesMoves, HandleSessionMoves
    <2>6. QED
      BY <1>0, <2>1, <2>2, <2>5, MovesTransitive
  <1>2. CASE ~(p.sessionAwaitingAssignment = NoSession /\ p.sessionAssignmentBacklog # <<>>)
    <2>1. HandleNextSession(p, t) = p
      BY <1>2 DEF HandleNextSession
    <2>2. KeepsQueues(p, p)
      BY DEF KeepsQueues
    <2>3. QED
      BY <1>0, <2>1, <2>2, KeepsQueuesMoves
  <1>3. QED
    BY <1>1, <1>2

\* A set of states that an iteration of the loop does not leave is not left by
\* the loop.
LEMMA BacklogLoop ==
    ASSUME NEW p, LoopInv(p), NEW t, NEW V, p \in V,
           \A q \in V : HandleNextSession(q, t) \in V
    PROVE  HandleSessionBacklog(p, t) \in V
  <1> DEFINE n == Len(p.sessionAssignmentBacklog)
             F == [iq \in (1..n) \X V |-> HandleNextSession(iq[2], t)]
             Iterate(f) == [i \in 0..n |-> IF i = 0 THEN p ELSE HandleNextSession(f[i - 1], t)]
             iterate == CHOOSE f : f = Iterate(f)
  <1>1. n \in Nat
    BY DEF LoopInv, Core, PlayerState
  <1>2. F \in [(1..n) \X V -> V]
    OBVIOUS
  <1>3. PICK f : Iterates(f, n, V, p, F)
    <2> HIDE DEF n, F
    <2>1. QED
      BY <1>1, <1>2, FiniteRecursion, Zenon
  <1>4. f = Iterate(f)
    <2>1. f \in [0..n -> V] /\ f[0] = p /\ \A i \in 1..n : f[i] = F[<<i, f[i - 1]>>]
      BY <1>3 DEF Iterates
    <2>2. ASSUME NEW i \in 1..n PROVE f[i] = HandleNextSession(f[i - 1], t)
      <3>1. i - 1 \in 0..n /\ f[i - 1] \in V
        <4> HIDE DEF F
        <4>1. QED
          BY <1>1, <2>1
      <3>2. \A q \in V : F[<<i, q>>] = HandleNextSession(q, t)
        OBVIOUS
      <3> HIDE DEF F
      <3>3. QED
        BY <2>1, <3>1, <3>2
    <2> HIDE DEF F, n
    <2>3. f = [i \in 0..n |-> f[i]]
      BY <2>1
    <2>4. \A i \in 0..n : f[i] = Iterate(f)[i]
      <3>1. \A i \in 0..n : i # 0 => i \in 1..n
        BY <1>1 DEF n
      <3>2. QED
        BY <2>1, <2>2, <3>1
    <2>5. QED
      BY <2>3, <2>4
  <1>5. iterate = Iterate(iterate)
    BY <1>4
  <1>6. HandleSessionBacklog(p, t) = iterate[n]
    BY DEF HandleSessionBacklog
  <1> HIDE DEF iterate
  <1> DEFINE S == {i \in Nat : i <= n => iterate[i] \in V}
  <1>7. S = Nat
    <2>1. 0 \in S
      <3>1. iterate[0] = p
        BY <1>1, <1>5
      <3>2. QED
        BY <3>1
    <2>2. ASSUME NEW i \in S PROVE i + 1 \in S
      <3>1. SUFFICES ASSUME i + 1 <= n PROVE iterate[i + 1] \in V
        BY <2>2
      <3>2. i \in Nat /\ iterate[i] \in V /\ i + 1 \in 0..n /\ (i + 1) - 1 = i /\ i + 1 # 0
        BY <1>1, <2>2, <3>1
      <3>3. iterate[i + 1] = HandleNextSession(iterate[i], t)
        <4> HIDE DEF n
        <4>1. Iterate(iterate)[i + 1] = HandleNextSession(iterate[i], t)
          BY <3>2
        <4> HIDE DEF Iterate
        <4>2. QED
          BY <4>1, <1>5, Zenon
      <3>4. QED
        BY <3>2, <3>3
    <2>3. S \subseteq Nat
      OBVIOUS
    <2> HIDE DEF S
    <2>4. QED
      BY <2>1, <2>2, <2>3, SetInduction
  <1>8. QED
    BY <1>1, <1>6, <1>7

LEMMA HandleSessionBacklogMoves ==
    ASSUME NEW p, LoopInv(p), NEW t \in Nat
    PROVE  Moves(p, HandleSessionBacklog(p, t), t)
  <1> DEFINE V == {q \in PlayerState : LoopInv(q) /\ Moves(p, q, t)}
  <1>1. p \in V
    <2>1. KeepsQueues(p, p) /\ Core(p) /\ p \in PlayerState
      BY DEF KeepsQueues, LoopInv, Core
    <2>2. QED
      BY <2>1, KeepsQueuesMoves
  <1>2. ASSUME NEW q \in V PROVE HandleNextSession(q, t) \in V
    <2>1. Core(p) /\ Core(q) /\ Moves(q, HandleNextSession(q, t), t) /\ LoopInv(HandleNextSession(q, t))
      BY HandleNextSessionInv, HandleNextSessionMoves DEF LoopInv
    <2>2. Moves(p, HandleNextSession(q, t), t)
      BY <2>1, MovesTransitive
    <2>3. QED
      BY <2>1, <2>2 DEF LoopInv, Core
  <1> HIDE DEF V
  <1>3. HandleSessionBacklog(p, t) \in V
    BY <1>1, <1>2, BacklogLoop
  <1>4. QED
    BY <1>3 DEF V

LEMMA CircuitBuiltMoves ==
    ASSUME NEW p, LoopInv(p), NEW t \in Nat, NEW id \in IDs
    PROVE  Moves(p, OnCircuitBuilt(p, t, id), t)
  <1> DEFINE c == p.circuits[id]
             s == p.heap[c].session
             q == MarkBuilt(p, id)
  <1>0. Core(p) /\ p \in PlayerState
    BY DEF LoopInv, Core
  <1>1. CASE c = NoCircuit
    <2>1. OnCircuitBuilt(p, t, id) = p /\ KeepsQueues(p, p)
      BY <1>1 DEF OnCircuitBuilt, KeepsQueues
    <2>2. QED
      BY <2>1, <1>0, KeepsQueuesMoves
  <1>2. CASE c # NoCircuit
    <2>1. Core(q) /\ s \in q.sessions /\ q.sessionAwaitingAssignment # s
      BY <1>2, MarkBuiltCore
    <2>2. OnCircuitBuilt(p, t, id) = HandleSession(q, t, s)
      BY <1>2 DEF OnCircuitBuilt, MarkBuilt
    <2>3. KeepsQueues(p, q)
      <3>1. c \in Circuits /\ p.heap \in [Circuits -> Circuit]
        BY <1>0, <1>2, TableCircuit DEF PlayerState
      <3>2. /\ q.sessions = p.sessions /\ q.circuitsSorted = p.circuitsSorted /\ q.launches = p.launches
            /\ q.heap = [p.heap EXCEPT ![c] = [p.heap[c] EXCEPT !.status = "BUILT"]]
        BY <1>0 DEF MarkBuilt, PlayerState
      <3>3. [p.heap[c] EXCEPT !.status = "BUILT"].launchTime = p.heap[c].launchTime
        BY <3>1 DEF Circuit
      <3> HIDE DEF q, c
      <3>4. QED
        BY <3>1, <3>2, <3>3 DEF KeepsQueues
    <2> HIDE DEF q, s
    <2>4. Moves(p, q, t) /\ Moves(q, HandleSession(q, t, s), t)
      BY <1>0, <2>1, <2>3, KeepsQueuesMoves, HandleSessionMoves
    <2>5. QED
      BY <1>0, <2>1, <2>2, <2>4, MovesTransitive
  <1>3. QED
    BY <1>1, <1>2

LEMMA CircuitAssignedMoves ==
    ASSUME NEW p, LoopInv(p), NEW t \in Nat, NEW id \in CircuitIDs, p.circuits[id] = NoCircuit
    PROVE  Moves(p, OnCircuitAssigned(p, t, id), t)
  <1> DEFINE s == p.sessionAwaitingAssignment
             c == CurrentCircuit(p, s)
             q == Assign(p, id)
  <1>0. Core(p) /\ p \in PlayerState
    BY DEF LoopInv, Core
  <1>1. CASE s = NoSession
    <2>1. OnCircuitAssigned(p, t, id) = p /\ KeepsQueues(p, p)
      BY <1>1 DEF OnCircuitAssigned, KeepsQueues
    <2>2. QED
      BY <2>1, <1>0, KeepsQueuesMoves
  <1>2. CASE s # NoSession
    <2>1. LoopInv(q) /\ Core(q)
      BY <1>2, AssignInv DEF LoopInv
    <2>2. OnCircuitAssigned(p, t, id) = HandleSessionBacklog(q, t)
      BY <1>2 DEF OnCircuitAssigned, Assign
    <2>3. KeepsQueues(p, q)
      <3>1. c \in Circuits /\ p.heap \in [Circuits -> Circuit]
        BY <1>0, <1>2, CurrentCircuitOwned DEF Core, AwaitingIsLaunched, PlayerState
      <3>2. /\ q.sessions = p.sessions /\ q.circuitsSorted = p.circuitsSorted /\ q.launches = p.launches
            /\ q.heap = [p.heap EXCEPT ![c] = [p.heap[c] EXCEPT !.id = id, !.status = "ASSIGNED"]]
        BY <1>0 DEF Assign, PlayerState
      <3>3. [p.heap[c] EXCEPT !.id = id, !.status = "ASSIGNED"].launchTime = p.heap[c].launchTime
        BY <3>1 DEF Circuit
      <3> HIDE DEF q, c
      <3>4. QED
        BY <3>1, <3>2, <3>3 DEF KeepsQueues
    <2> HIDE DEF q
    <2>4. Moves(p, q, t) /\ Moves(q, HandleSessionBacklog(q, t), t)
      BY <1>0, <2>1, <2>3, KeepsQueuesMoves, HandleSessionBacklogMoves
    <2>5. QED
      BY <1>0, <2>1, <2>2, <2>4, MovesTransitive
  <1>3. QED
    BY <1>1, <1>2

LEMMA CircuitGoneMoves ==
    ASSUME NEW p, LoopInv(p), NEW t \in Nat, NEW id \in IDs, NEW failed \in BOOLEAN
    PROVE  Moves(p, OnCircuitGone(p, t, id, failed), t)
  <1> DEFINE c == p.circuits[id]
             s == p.heap[c].session
             q == Reset(p, id, failed)
             b == EnterBacklog(q, s)
  <1>0. Core(p) /\ p \in PlayerState
    BY DEF LoopInv, Core
  <1>1. CASE c = NoCircuit
    <2>1. OnCircuitGone(p, t, id, failed) = p /\ KeepsQueues(p, p)
      BY <1>1 DEF OnCircuitGone, KeepsQueues
    <2>2. QED
      BY <2>1, <1>0, KeepsQueuesMoves
  <1>2. CASE c # NoCircuit
    <2>1. Core(q) /\ WakeupExcept(q, s) /\ s \in q.sessions
      BY <1>2, ResetCore
    <2>2. KeepsQueues(p, q)
      <3>1. c \in Circuits /\ p.heap \in [Circuits -> Circuit] /\ p.heap[c] \in Circuit
        BY <1>0, <1>2, TableCircuit DEF PlayerState
      <3>2. q.sessions = p.sessions /\ q.circuitsSorted = p.circuitsSorted /\ q.launches = p.launches
        BY <1>0 DEF Reset, PlayerState
      <3>3. q.heap[c].launchTime = p.heap[c].launchTime
        BY <1>0, <3>1 DEF Reset, PlayerState, Circuit
      <3>4. \A d \in Circuits : d # c => q.heap[d] = p.heap[d]
        BY <1>0, <3>1 DEF Reset, PlayerState
      <3> HIDE DEF q, c
      <3>5. QED
        BY <3>2, <3>3, <3>4 DEF KeepsQueues
    <2>3. CASE p.waitingStreamIDs[s] = <<>>
      <3>1. OnCircuitGone(p, t, id, failed) = q
        BY <1>2, <2>3 DEF OnCircuitGone
      <3>2. QED
        BY <1>0, <2>2, <3>1, KeepsQueuesMoves
    <2>4. CASE p.waitingStreamIDs[s] # <<>>
      <3>1. OnCircuitGone(p, t, id, failed) = HandleSessionBacklog(b, t)
        BY <1>2, <2>4 DEF OnCircuitGone
      <3> HIDE DEF q, s
      <3>2. LoopInv(b) /\ Core(b)
        BY <2>1, EnterBacklogCore DEF LoopInv
      <3>3. KeepsQueues(p, b)
        BY <2>1, <2>2 DEF EnterBacklog, KeepsQueues, Core, PlayerState
      <3> HIDE DEF b
      <3>4. Moves(p, b, t) /\ Moves(b, HandleSessionBacklog(b, t), t)
        BY <1>0, <3>2, <3>3, KeepsQueuesMoves, HandleSessionBacklogMoves
      <3>5. QED
        BY <1>0, <3>1, <3>2, <3>4, MovesTransitive
    <2>5. QED
      BY <2>3, <2>4
  <1>3. QED
    BY <1>1, <1>2

LEMMA NewSessionMoves ==
    ASSUME NEW p, LoopInv(p), NEW t \in Nat, NEW s \in Sessions, p.circuitsSorted[s] = <<>>,
           NEW c \in Circuits, p.heap[c].status = "FREED"
    PROVE  Moves(p, EnsureSession(p, t, s, c), t)
  <1> DEFINE q == EnsureSession(p, t, s, c)
             h == NewCircuit(s, t, FALSE)
  <1>1. p \in PlayerState /\ Core(p) /\ s \notin p.sessions
    BY DEF LoopInv, Core, QueuesOwnCircuits
  <1>2. /\ q.heap = [p.heap EXCEPT ![c] = h]
        /\ q.sessions = p.sessions \cup {s}
        /\ q.circuitsSorted = [p.circuitsSorted EXCEPT ![s] = <<c>>]
        /\ q.launches = p.launches
    BY <1>1 DEF EnsureSession, PlayerState
  <1> HIDE DEF q, h
  <1>3. /\ \A d \in Circuits : d # c => q.heap[d] = p.heap[d]
        /\ \A r \in Sessions : r # s => q.circuitsSorted[r] = p.circuitsSorted[r]
        /\ q.circuitsSorted[s] = <<c>>
    BY <1>1, <1>2 DEF PlayerState
  <1>4. ASSUME NEW r \in p.sessions
        PROVE  /\ \E k \in 0..(Len(p.circuitsSorted[r]) - 1) :
                    /\ q.circuitsSorted[r] = SubSeq(p.circuitsSorted[r], k + 1, Len(p.circuitsSorted[r]))
                    /\ k > 0 => p.heap[p.circuitsSorted[r][k + 1]].launchTime <= t
               /\ \A i \in DOMAIN q.circuitsSorted[r] :
                    q.heap[q.circuitsSorted[r][i]].launchTime = p.heap[q.circuitsSorted[r][i]].launchTime
    <2>1. /\ r \in Sessions /\ p.circuitsSorted[r] \in Seq(Circuits)
          /\ Len(p.circuitsSorted[r]) \in Nat \ {0}
          /\ DOMAIN p.circuitsSorted[r] = 1..Len(p.circuitsSorted[r])
          /\ \A i \in 1..Len(p.circuitsSorted[r]) : p.circuitsSorted[r][i] \in Circuits
      BY <1>1, SessionQueue
    <2>2. q.circuitsSorted[r] = p.circuitsSorted[r]
      BY <1>1, <1>3, <2>1
    <2>3. 0 \in 0..(Len(p.circuitsSorted[r]) - 1) /\ ~(0 > 0) /\ 0 + 1 = 1
      BY <2>1
    <2>4. q.circuitsSorted[r] = SubSeq(p.circuitsSorted[r], 0 + 1, Len(p.circuitsSorted[r]))
      BY <2>1, <2>2, <2>3, SubSeqFull
    <2>5. \A i \in DOMAIN p.circuitsSorted[r] : p.circuitsSorted[r][i] # c
      BY <2>1 DEF LoopInv, Core, QueuesOwnCircuits
    <2>6. \A i \in DOMAIN q.circuitsSorted[r] :
             q.heap[q.circuitsSorted[r][i]].launchTime = p.heap[q.circuitsSorted[r][i]].launchTime
      BY <2>1, <2>2, <2>5, <1>3
    <2>7. QED
      BY <2>3, <2>4, <2>6
  <1>5. ASSUME NEW r \in Sessions \ p.sessions PROVE Len(q.circuitsSorted[r]) <= 1
    <2>1. CASE r = s
      BY <2>1, <1>3
    <2>2. CASE r # s
      <3>1. q.circuitsSorted[r] = <<>>
        BY <2>2, <1>1, <1>3 DEF Core, QueuesOwnCircuits
      <3>2. QED
        BY <3>1, EmptySeq
    <2>3. QED
      BY <2>1, <2>2
  <1>6. \E n \in 0..Len(p.launches) : q.launches = SubSeq(p.launches, n + 1, Len(p.launches))
    <2>1. p.launches \in Seq(LaunchInfo)
      BY <1>1 DEF PlayerState
    <2>2. 0 \in 0..Len(p.launches) /\ q.launches = SubSeq(p.launches, 0 + 1, Len(p.launches))
      BY <2>1, <1>2, SubSeqFull, LenProperties
    <2>3. QED
      BY <2>2
  <1>7. Moves(p, q, t)
    BY <1>2, <1>4, <1>5, <1>6 DEF Moves
  <1>8. QED
    BY <1>7 DEF q

LEMMA StreamNewMoves ==
    ASSUME NEW p, LoopInv(p), NEW t \in Nat,
           NEW st \in Streams, NEW s \in Sessions \cup {NoSession}, NEW c \in Allocations(p, s)
    PROVE  Moves(p, OnStreamNew(p, t, st, s, c), t)
  <1>1. p \in PlayerState /\ Core(p)
    BY DEF LoopInv, Core
  <1>2. CASE s = NoSession
    <2>1. KeepsQueues(p, OnStreamNew(p, t, st, s, c))
      BY <1>1, <1>2 DEF OnStreamNew, KeepsQueues, PlayerState
    <2>2. QED
      BY <1>1, <2>1, KeepsQueuesMoves
  <1>3. CASE s # NoSession
    <2> DEFINE q == EnsureSession(p, t, s, c)
               e == EnqueueStream(q, s, st)
    <2>1. s \in Sessions
      BY <1>3
    <2>2. LoopInv(q) /\ Core(q) /\ s \in q.sessions /\ Moves(p, q, t)
      <3>1. CASE p.circuitsSorted[s] = <<>>
        <4>1. c \in Circuits /\ p.heap[c].status = "FREED"
          BY <1>3, <3>1 DEF Allocations
        <4>2. QED
          BY <2>1, <3>1, <4>1, NewSessionInv, NewSessionMoves DEF LoopInv
      <3>2. CASE p.circuitsSorted[s] # <<>>
        <4>1. s \in p.sessions
          BY <1>1, <2>1, <3>2 DEF Core, QueuesOwnCircuits
        <4>2. q = p /\ KeepsQueues(p, p)
          BY <1>1, <3>2, <4>1 DEF EnsureSession, PlayerState, KeepsQueues
        <4> HIDE DEF q
        <4>3. QED
          BY <1>1, <4>1, <4>2, KeepsQueuesMoves
      <3>3. QED
        BY <3>1, <3>2
    <2>3. OnStreamNew(p, t, st, s, c) = HandleSessionBacklog(e, t)
      BY <1>3 DEF OnStreamNew
    <2> HIDE DEF q
    <2>4. LoopInv(e) /\ Core(e)
      BY <2>2, EnqueueStreamInv DEF LoopInv
    <2>5. KeepsQueues(q, e)
      BY <2>2 DEF EnqueueStream, KeepsQueues, Core, PlayerState
    <2> HIDE DEF e
    <2>6. Moves(q, e, t) /\ Moves(e, HandleSessionBacklog(e, t), t)
      BY <2>2, <2>4, <2>5, KeepsQueuesMoves, HandleSessionBacklogMoves
    <2>7. Moves(p, e, t)
      BY <1>1, <2>2, <2>6, MovesTransitive
    <2>8. QED
      BY <1>1, <2>3, <2>4, <2>6, <2>7, MovesTransitive
  <1>4. QED
    BY <1>2, <1>3

LEMMA LaunchNextMoves ==
    ASSUME NEW p, LoopInv(p), NEW t \in Nat, NEW n \in LaunchesDue(p, t)
    PROVE  Moves(p, LaunchNextCircuit(p, t, n), t)
  <1> DEFINE q == RequestLaunches(p, n)
  <1>1. p \in PlayerState /\ Core(p) /\ n \in 0..Len(p.launches)
    BY DEF LoopInv, Core, LaunchesDue
  <1>2. LoopInv(q) /\ Core(q)
    BY <1>1, RequestLaunchesInv DEF LoopInv
  <1>3. Moves(p, q, t)
    <2>1. /\ q.sessions = p.sessions /\ q.circuitsSorted = p.circuitsSorted /\ q.heap = p.heap
          /\ q.launches = SubSeq(p.launches, n + 1, Len(p.launches))
      BY <1>1 DEF RequestLaunches, PlayerState
    <2>2. Moves(p, p, t)
      <3>1. KeepsQueues(p, p)
        BY DEF KeepsQueues
      <3>2. QED
        BY <1>1, <3>1, KeepsQueuesMoves
    <2> HIDE DEF q
    <2>3. QED
      BY <1>1, <2>1, <2>2 DEF Moves
  <1>4. CASE n = 0
    <2>1. LaunchNextCircuit(p, t, n) = p /\ KeepsQueues(p, p)
      BY <1>4 DEF LaunchNextCircuit, KeepsQueues
    <2>2. QED
      BY <1>1, <2>1, KeepsQueuesMoves
  <1>5. CASE n # 0
    <2>1. LaunchNextCircuit(p, t, n) = HandleSessionBacklog(q, t)
      BY <1>5 DEF LaunchNextCircuit
    <2> HIDE DEF q
    <2>2. Moves(q, HandleSessionBacklog(q, t), t)
      BY <1>2, HandleSessionBacklogMoves
    <2>3. QED
      BY <1>1, <1>2, <1>3, <2>1, <2>2, MovesTransitive
  <1>6. QED
    BY <1>4, <1>5

LEMMA NextMoves ==
    ASSUME IInv, [Next]_vars
    PROVE  Moves(player, player', now)
  <1> DEFINE p == player
  <1>1. now \in Nat /\ LoopInv(p) /\ Core(p) /\ p \in PlayerState
    BY DEF IInv, LoopInv, Core
  <1>2. KeepsQueues(p, p)
    BY DEF KeepsQueues
  <1>3. CASE StreamEvent
    BY <1>1, <1>3, StreamNewMoves DEF StreamEvent
  <1>4. CASE CircuitAssigned
    BY <1>1, <1>4, CircuitAssignedMoves DEF CircuitAssigned
  <1>5. CASE CircuitBuilt
    BY <1>1, <1>5, CircuitBuiltMoves DEF CircuitBuilt, IDs
  <1>6. CASE CircuitGone
    BY <1>1, <1>6, CircuitGoneMoves DEF CircuitGone, IDs
  <1>7. CASE PlayTimer
    BY <1>1, <1>7, LaunchNextMoves DEF PlayTimer
  <1>8. CASE CommandSent
    <2>1. KeepsQueues(p, player')
      BY <1>1, <1>8 DEF CommandSent, KeepsQueues, PlayerState
    <2>2. QED
      BY <1>1, <2>1, KeepsQueuesMoves
  <1>9. CASE UNCHANGED player
    BY <1>1, <1>2, <1>9, KeepsQueuesMoves
  <1>10. QED
    BY <1>3, <1>4, <1>5, <1>6, <1>7, <1>8, <1>9 DEF Next, Tick, vars

-----------------------------------------------------------------------------
(* Circuits and launches in order                                          *)

LEMMA InitSorted == Init => QueuesSorted(player)
  <1>1. SUFFICES ASSUME Init PROVE QueuesSorted(player)
    OBVIOUS
  <1>2. PICK order \in Orderings(Tracked),
             queue \in [Sessions -> UNION {Orderings(TrackedOf(s)) : s \in Sessions}] :
           /\ ByLaunchTimeReversed(order)
           /\ \A s \in Sessions : queue[s] \in Orderings(TrackedOf(s)) /\ ByLaunchTime(queue[s])
           /\ player.heap = [c \in Circuits |->
                               IF c \in Tracked
                               THEN NewCircuit(Trace[c].session, Trace[c].launchTime, TRUE)
                               ELSE Freed]
           /\ player.circuitsSorted = queue
           /\ player.launches = [i \in DOMAIN order |-> Launch(order[i])]
    BY <1>1 DEF Init
  <1> DEFINE time(c) == Trace[c].launchTime
  <1>3. ASSUME NEW c \in Tracked
        PROVE  /\ c \in Circuits /\ time(c) \in Nat /\ Lead \in Nat
               /\ player.heap[c].launchTime = time(c)
               /\ Launch(c).abstime = time(c) - Lead
    <2>1. c \in Circuits /\ Trace[c].session \in Sessions /\ time(c) \in Nat /\ Lead \in Nat
      BY PlayerAssumption DEF Tracked
    <2>2. player.heap[c] = NewCircuit(Trace[c].session, time(c), TRUE)
      BY <1>2, <2>1
    <2>3. time(c) \in Int /\ TRUE \in BOOLEAN
      BY <2>1
    <2>4. NewCircuit(Trace[c].session, time(c), TRUE).launchTime = time(c)
      BY <2>1, <2>3, NewCircuitType
    <2>5. QED
      BY <2>1, <2>2, <2>4 DEF Launch
  <1>4. ASSUME NEW s \in Sessions, NEW i \in DOMAIN queue[s], NEW j \in DOMAIN queue[s], i < j
        PROVE  player.heap[queue[s][i]].launchTime <= player.heap[queue[s][j]].launchTime
    <2>1. queue[s] \in [1..Cardinality(TrackedOf(s)) -> TrackedOf(s)] /\ ByLaunchTime(queue[s])
      BY <1>2 DEF Orderings
    <2>2. queue[s][i] \in Tracked /\ queue[s][j] \in Tracked
      BY <2>1 DEF TrackedOf
    <2>3. time(queue[s][i]) < time(queue[s][j]) \/ time(queue[s][i]) = time(queue[s][j])
      BY <2>1, <1>4 DEF ByLaunchTime
    <2> DEFINE a == queue[s][i]
               b == queue[s][j]
    <2>4. /\ time(a) \in Nat /\ time(b) \in Nat
          /\ player.heap[a].launchTime = time(a) /\ player.heap[b].launchTime = time(b)
      BY <2>2, <1>3
    <2> HIDE DEF time
    <2>5. time(a) <= time(b)
      BY <2>3, <2>4
    <2>6. QED
      BY <2>4, <2>5
  <1>5. ASSUME NEW i \in DOMAIN order, NEW j \in DOMAIN order, i < j
        PROVE  Launch(order[i]).abstime <= Launch(order[j]).abstime
    <2>1. order \in [1..Cardinality(Tracked) -> Tracked]
      BY DEF Orderings
    <2>2. order[i] \in Tracked /\ order[j] \in Tracked
      BY <2>1
    <2>3. time(order[i]) < time(order[j]) \/ time(order[i]) = time(order[j])
      BY <1>2, <1>5 DEF ByLaunchTimeReversed
    <2> DEFINE a == order[i]
               b == order[j]
    <2>4. /\ time(a) \in Nat /\ time(b) \in Nat /\ Lead \in Nat
          /\ Launch(a).abstime = time(a) - Lead /\ Launch(b).abstime = time(b) - Lead
      BY <2>2, <1>3
    <2> HIDE DEF time
    <2>5. time(a) - Lead <= time(b) - Lead
      BY <2>3, <2>4
    <2>6. QED
      BY <2>4, <2>5
  <1>6. QED
    BY <1>2, <1>4, <1>5 DEF QueuesSorted

\* A session cannot skip or repeat a circuit, and a launch cannot hide behind a
\* later one: the queues stay sorted by time, whatever Tor does.
THEOREM OrderKept == PlayerSpec => []OrderInv
  <1> DEFINE Inv == IInv /\ QueuesSorted(player)
  <1>1. Init => Inv
    BY InitIInv, InitSorted
  <1>2. Inv /\ [Next]_vars => Inv'
    <2>1. SUFFICES ASSUME IInv, QueuesSorted(player), [Next]_vars PROVE IInv' /\ QueuesSorted(player)'
      OBVIOUS
    <2>2. IInv'
      BY <2>1, NextIInv
    <2>3. Core(player) /\ Core(player')
      <3>1. Core(player)
        BY <2>1 DEF IInv, LoopInv
      <3>2. Core(player)'
        BY <2>2 DEF IInv, LoopInv
      <3>3. Core(player)' <=> Core(player')
        BY DEF Core, QueuesOwnCircuits, OnlyCurrentIsLaunched, TableMatchesCircuits, AwaitingIsLaunched,
               BacklogKnown, LaunchesKnown, CurrentCircuit
      <3>4. QED
        BY <3>1, <3>2, <3>3
    <2>4. Moves(player, player', now)
      BY <2>1, NextMoves
    <2>5. QueuesSorted(player')
      BY <2>1, <2>3, <2>4, MovesSorted
    <2>6. QED
      BY <2>2, <2>5 DEF QueuesSorted
  <1>3. Inv => OrderInv
    BY DEF IInv, LoopInv, Core, OrderInv
  <1> HIDE DEF Inv
  <1>4. QED
    BY <1>1, <1>2, <1>3, PTL DEF PlayerSpec

\* A session's circuits are used in order and none before its time: no step skips
\* one, returns to one, or rotates to one that is not due.
THEOREM RotationKeepsOrder == PlayerSpec => RotationInOrder
  <1> DEFINE A == \A s \in player.sessions :
                     \E k \in 0..(Len(player.circuitsSorted[s]) - 1) :
                        /\ player'.circuitsSorted[s] =
                             SubSeq(player.circuitsSorted[s], k + 1, Len(player.circuitsSorted[s]))
                        /\ k > 0 => player.heap[player.circuitsSorted[s][k + 1]].launchTime <= now
  <1>1. IInv /\ [Next]_vars => [A]_vars
    BY NextMoves DEF Moves
  <1>2. RotationInOrder <=> [][A]_vars
    BY DEF RotationInOrder
  <1> HIDE DEF A
  <1>3. QED
    BY <1>1, <1>2, InductiveInvariant, PTL DEF PlayerSpec

-----------------------------------------------------------------------------
(* The waiting streams are counted                                         *)

\* The places of a session's queue that hold a stream.
PlacesOf(w) == {i \in DOMAIN w : w[i] >= 0}

Counted(p) == IsFiniteSet(StreamsWaiting(p)) /\ StreamsAssigningCounted(p)

LEMMA StreamsInLength ==
    ASSUME NEW w \in Seq(Streams \cup {Preemptive})
    PROVE  IsFiniteSet(PlacesOf(w)) /\ Cardinality(PlacesOf(w)) = Len(StreamsIn(w))
  <1> DEFINE n == Len(w)
             upTo(k) == {i \in 1..k : w[i] >= 0}
  <1>1. PICK real : Collects(w, real) /\ StreamsIn(w) = real[n]
    BY StreamsInCollects
  <1>2. n \in Nat /\ PlacesOf(w) = upTo(n)
    BY LenProperties DEF PlacesOf
  <1> DEFINE S == {k \in Nat : k <= n => IsFiniteSet(upTo(k)) /\ Cardinality(upTo(k)) = Len(real[k])}
  <1> HIDE DEF n
  <1>3. real \in [0..n -> Seq(Streams)] /\ real[0] = <<>>
    BY <1>1 DEF Collects, n
  <1>4. 0 \in S
    <2>1. upTo(0) = {} /\ Len(real[0]) = 0
      BY <1>3, EmptySeq
    <2>2. QED
      BY <2>1, FS_EmptySet
  <1>5. ASSUME NEW k \in S PROVE k + 1 \in S
    <2>1. SUFFICES ASSUME k + 1 <= n
                   PROVE  IsFiniteSet(upTo(k + 1)) /\ Cardinality(upTo(k + 1)) = Len(real[k + 1])
      BY <1>5
    <2>2. /\ k \in Nat /\ k + 1 \in 1..n /\ (k + 1) - 1 = k /\ k \in 0..n
          /\ IsFiniteSet(upTo(k)) /\ Cardinality(upTo(k)) = Len(real[k])
      BY <1>2, <2>1, <1>5
    <2>3. real[k + 1] = (IF w[k + 1] >= 0 THEN Append(real[k], w[k + 1]) ELSE real[k])
      BY <1>1, <2>2 DEF Collects, n
    <2>4. CASE w[k + 1] >= 0
      <3>1. upTo(k + 1) = upTo(k) \cup {k + 1} /\ k + 1 \notin upTo(k)
        BY <2>2, <2>4
      <3>2. w[k + 1] \in Streams
        <4>1. w[k + 1] \in Streams \cup {Preemptive}
          BY <2>2, ElementOfSeq DEF n
        <4>2. QED
          BY <4>1, <2>4 DEF Preemptive
      <3>3. Len(real[k + 1]) = Len(real[k]) + 1
        BY <2>2, <2>3, <2>4, <1>3, <3>2, AppendProperties
      <3> DEFINE U == upTo(k)
      <3>4. IsFiniteSet(U) /\ k + 1 \notin U
        BY <2>2, <3>1
      <3> HIDE DEF U
      <3>5. IsFiniteSet(U \cup {k + 1}) /\ Cardinality(U \cup {k + 1}) = Cardinality(U) + 1
        BY <3>4, FS_AddElement
      <3>6. upTo(k + 1) = U \cup {k + 1}
        BY <3>1 DEF U
      <3>7. Cardinality(U) = Len(real[k])
        BY <2>2 DEF U
      <3> HIDE DEF upTo
      <3>8. QED
        BY <3>3, <3>5, <3>6, <3>7
    <2>5. CASE ~(w[k + 1] >= 0)
      <3>1. upTo(k + 1) = upTo(k)
        BY <2>2, <2>5
      <3>2. QED
        BY <2>2, <2>3, <2>5, <3>1
    <2>6. QED
      BY <2>4, <2>5
  <1>6. S = Nat
    <2>1. S \subseteq Nat
      OBVIOUS
    <2> HIDE DEF S
    <2>2. QED
      BY <1>4, <1>5, <2>1, SetInduction
  <1>7. IsFiniteSet(upTo(n)) /\ Cardinality(upTo(n)) = Len(real[n])
    <2>1. n \in S
      BY <1>2, <1>6
    <2>2. QED
      BY <2>1, <1>2
  <1> HIDE DEF upTo
  <1>8. QED
    BY <1>1, <1>2, <1>7

\* The counter depends on the streams of the sessions' queues alone.
LEMMA SameStreamsCounted ==
    ASSUME NEW p, Counted(p), NEW q, q.streamsAssigning = p.streamsAssigning,
           \A s \in Sessions : PlacesOf(q.waitingStreamIDs[s]) = PlacesOf(p.waitingStreamIDs[s])
    PROVE  Counted(q)
  <1>1. StreamsWaiting(q) = StreamsWaiting(p)
    BY DEF StreamsWaiting, PlacesOf
  <1>2. QED
    BY <1>1 DEF Counted, StreamsAssigningCounted

LEMMA AttachWaitingCounted ==
    ASSUME NEW p, p \in PlayerState, Counted(p), NEW s \in Sessions
    PROVE  Counted(AttachWaiting(p, s))
  <1> DEFINE q == AttachWaiting(p, s)
             w == p.waitingStreamIDs[s]
             here == {s} \X PlacesOf(w)
  <1>1. w \in Seq(Streams \cup {Preemptive}) /\ p.streamsAssigning \in Int
    BY DEF PlayerState
  <1>2. /\ q.waitingStreamIDs = [p.waitingStreamIDs EXCEPT ![s] = <<>>]
        /\ q.streamsAssigning = p.streamsAssigning - Len(StreamsIn(w))
    BY DEF AttachWaiting, PlayerState
  <1>3. \A r \in Sessions : q.waitingStreamIDs[r] = IF r = s THEN <<>> ELSE p.waitingStreamIDs[r]
    BY <1>2 DEF PlayerState
  <1>4. IsFiniteSet(PlacesOf(w)) /\ Cardinality(PlacesOf(w)) = Len(StreamsIn(w))
    BY <1>1, StreamsInLength
  <1>5. Cardinality(here) = Len(StreamsIn(w))
    <2>1. IsFiniteSet({s}) /\ Cardinality({s}) = 1
      BY FS_Singleton
    <2>2. Cardinality(here) = 1 * Cardinality(PlacesOf(w)) /\ Cardinality(PlacesOf(w)) \in Nat
      BY <1>4, <2>1, FS_Product, FS_CardinalityType
    <2>3. QED
      BY <1>4, <2>2
  <1> HIDE DEF q
  <1>6. StreamsWaiting(q) = StreamsWaiting(p) \ here /\ StreamsWaiting(p) \cap here = here
    <2>1. PlacesOf(<<>>) = {}
      BY DEF PlacesOf
    <2>2. \A z : z \in StreamsWaiting(p) <=> \E r \in Sessions : z \in {r} \X PlacesOf(p.waitingStreamIDs[r])
      BY DEF StreamsWaiting, PlacesOf
    <2>3. \A z : z \in StreamsWaiting(q) <=> \E r \in Sessions : z \in {r} \X PlacesOf(q.waitingStreamIDs[r])
      BY DEF StreamsWaiting, PlacesOf
    <2>4. \A r \in Sessions : PlacesOf(q.waitingStreamIDs[r]) = IF r = s THEN {} ELSE PlacesOf(p.waitingStreamIDs[r])
      BY <1>3, <2>1
    <2> HIDE DEF w
    <2>5. QED
      BY <2>2, <2>3, <2>4 DEF w
  <1>7. IsFiniteSet(StreamsWaiting(p)) /\ p.streamsAssigning = Cardinality(StreamsWaiting(p))
    BY DEF Counted, StreamsAssigningCounted
  <1>8. /\ IsFiniteSet(StreamsWaiting(p) \ here)
        /\ Cardinality(StreamsWaiting(p) \ here) = Cardinality(StreamsWaiting(p)) - Cardinality(here)
    <2> DEFINE W == StreamsWaiting(p)
    <2>1. IsFiniteSet(W) /\ W \cap here = here
      BY <1>6, <1>7
    <2> HIDE DEF here, W
    <2>2. IsFiniteSet(W \ here) /\ Cardinality(W \ here) = Cardinality(W) - Cardinality(W \cap here)
      BY <2>1, FS_Difference
    <2>3. IsFiniteSet(W \ here) /\ Cardinality(W \ here) = Cardinality(W) - Cardinality(here)
      BY <2>1, <2>2
    <2>4. QED
      BY <2>3 DEF W
  <1>9. Counted(q)
    BY <1>2, <1>5, <1>6, <1>7, <1>8 DEF Counted, StreamsAssigningCounted
  <1>10. QED
    BY <1>9 DEF q

LEMMA EnqueueStreamCounted ==
    ASSUME NEW p, p \in PlayerState, Counted(p), NEW s \in Sessions, NEW st \in Streams
    PROVE  Counted(EnqueueStream(p, s, st))
  <1> DEFINE q == EnqueueStream(p, s, st)
             w == p.waitingStreamIDs[s]
             z == <<s, Len(w) + 1>>
  <1>1. w \in Seq(Streams \cup {Preemptive}) /\ p.streamsAssigning \in Int /\ st \in Nat
    BY PlayerAssumption DEF PlayerState
  <1>2. /\ q.waitingStreamIDs = [p.waitingStreamIDs EXCEPT ![s] = Append(w, st)]
        /\ q.streamsAssigning = p.streamsAssigning + 1
    BY DEF EnqueueStream, PlayerState
  <1>3. \A r \in Sessions : q.waitingStreamIDs[r] = IF r = s THEN Append(w, st) ELSE p.waitingStreamIDs[r]
    BY <1>2 DEF PlayerState
  <1>4. PlacesOf(Append(w, st)) = PlacesOf(w) \cup {Len(w) + 1} /\ Len(w) + 1 \notin PlacesOf(w)
    <2>1. st \in Streams \cup {Preemptive}
      OBVIOUS
    <2>2. /\ DOMAIN Append(w, st) = 1..(Len(w) + 1) /\ DOMAIN w = 1..Len(w) /\ Len(w) \in Nat
          /\ \A i \in 1..Len(w) : Append(w, st)[i] = w[i]
          /\ Append(w, st)[Len(w) + 1] = st
      BY <1>1, <2>1, QueuePush
    <2>3. st >= 0
      BY <1>1
    <2> DEFINE a == Append(w, st)
               n == Len(w)
    <2> HIDE DEF a, n, w
    <2>4. {i \in 1..(n + 1) : a[i] >= 0} = {i \in 1..n : w[i] >= 0} \cup {n + 1} /\ n + 1 \notin 1..n
      BY <2>2, <2>3 DEF a, n
    <2>5. QED
      BY <2>2, <2>4 DEF PlacesOf, a, n
  <1> HIDE DEF q, w
  <1>5. StreamsWaiting(q) = StreamsWaiting(p) \cup {z} /\ z \notin StreamsWaiting(p)
    <2>2. \A y : y \in StreamsWaiting(p) <=> \E r \in Sessions : y \in {r} \X PlacesOf(p.waitingStreamIDs[r])
      BY DEF StreamsWaiting, PlacesOf
    <2>3. \A y : y \in StreamsWaiting(q) <=> \E r \in Sessions : y \in {r} \X PlacesOf(q.waitingStreamIDs[r])
      BY DEF StreamsWaiting, PlacesOf
    <2>4. \A r \in Sessions : PlacesOf(q.waitingStreamIDs[r]) =
             IF r = s THEN PlacesOf(w) \cup {Len(w) + 1} ELSE PlacesOf(p.waitingStreamIDs[r])
      BY <1>3, <1>4
    <2>5. \A y : y \in {s} \X (PlacesOf(w) \cup {Len(w) + 1}) <=> y \in {s} \X PlacesOf(w) \/ y = z
      OBVIOUS
    <2>6. ASSUME NEW r \in Sessions, z \in {r} \X PlacesOf(p.waitingStreamIDs[r]) PROVE FALSE
      BY <2>6, <1>4 DEF w
    <2> HIDE DEF z
    <2>7. QED
      BY <2>2, <2>3, <2>4, <2>5, <2>6 DEF w
  <1>7. IsFiniteSet(StreamsWaiting(p)) /\ p.streamsAssigning = Cardinality(StreamsWaiting(p))
    BY DEF Counted, StreamsAssigningCounted
  <1>8. /\ IsFiniteSet(StreamsWaiting(q))
        /\ Cardinality(StreamsWaiting(q)) = Cardinality(StreamsWaiting(p)) + 1
    <2> DEFINE W == StreamsWaiting(p)
    <2>1. IsFiniteSet(W) /\ z \notin W
      BY <1>5, <1>7
    <2> HIDE DEF z, W
    <2>2. IsFiniteSet(W \cup {z}) /\ Cardinality(W \cup {z}) = Cardinality(W) + 1
      BY <2>1, FS_AddElement
    <2>3. QED
      BY <1>5, <2>2 DEF W
  <1>9. Counted(q)
    BY <1>2, <1>7, <1>8 DEF Counted, StreamsAssigningCounted
  <1>10. QED
    BY <1>9 DEF q

\* The waiting streams, and their count, stay as they are.
KeepsWaiting(p, q) ==
    q.waitingStreamIDs = p.waitingStreamIDs /\ q.streamsAssigning = p.streamsAssigning

LEMMA KeepsWaitingCounted ==
    ASSUME NEW p, Counted(p), NEW q, KeepsWaiting(p, q)
    PROVE  Counted(q)
  BY SameStreamsCounted DEF KeepsWaiting

LEMMA HandleSessionCounted ==
    ASSUME NEW p, Core(p), Counted(p), NEW s \in p.sessions, NEW t \in Nat,
           p.sessionAwaitingAssignment # s
    PROVE  Counted(HandleSession(p, t, s))
  <1> DEFINE cur == GetCurrentCircuit(p, t, s)
             q == HandleSession(p, t, s)
  <1>1. Core(cur) /\ s \in cur.sessions /\ KeepsWaiting(p, cur)
    <2>1. CASE RotationDue(p, t, s)
      <3>1. cur = Rotate(p, s) /\ Len(p.circuitsSorted[s]) > 1
        BY <2>1 DEF GetCurrentCircuit, RotationDue
      <3>2. Rotate(p, s).streamsAssigning = p.streamsAssigning
        BY DEF Rotate, Core, PlayerState
      <3> HIDE DEF cur
      <3>3. QED
        BY <2>1, <3>1, <3>2, RotateCore DEF KeepsWaiting
    <2>2. CASE ~RotationDue(p, t, s)
      BY <2>2 DEF GetCurrentCircuit, KeepsWaiting
    <2>3. QED
      BY <2>1, <2>2
  <1> HIDE DEF cur
  <1>2. cur \in PlayerState /\ s \in Sessions /\ Counted(cur)
    BY <1>1, KeepsWaitingCounted DEF Core, PlayerState
  <1>3. \/ q = cur \/ q = LaunchCircuit(cur, s) \/ q = EnterBacklog(cur, s) \/ q = AttachWaiting(cur, s)
    BY DEF HandleSession, HandleUnlaunched, cur
  <1>4. KeepsWaiting(cur, LaunchCircuit(cur, s)) /\ KeepsWaiting(cur, EnterBacklog(cur, s))
    BY <1>2 DEF LaunchCircuit, EnterBacklog, KeepsWaiting, PlayerState
  <1>5. Counted(AttachWaiting(cur, s))
    BY <1>2, AttachWaitingCounted
  <1>6. Counted(q)
    BY <1>2, <1>3, <1>4, <1>5, KeepsWaitingCounted
  <1>7. QED
    BY <1>6 DEF q

LEMMA HandleSessionBacklogCounted ==
    ASSUME NEW p, LoopInv(p), Counted(p), NEW t \in Nat
    PROVE  Counted(HandleSessionBacklog(p, t))
  <1> DEFINE V == {q \in PlayerState : LoopInv(q) /\ Counted(q)}
  <1>1. p \in V
    BY DEF LoopInv, Core
  <1>2. ASSUME NEW p1 \in V PROVE HandleNextSession(p1, t) \in V
    <2> DEFINE q == [p1 EXCEPT !.sessionAssignmentBacklog = Tail(p1.sessionAssignmentBacklog)]
               s == Head(p1.sessionAssignmentBacklog)
    <2>0. LoopInv(p1) /\ Counted(p1) /\ p1 \in PlayerState
      OBVIOUS
    <2> HIDE DEF V
    <2>1. LoopInv(HandleNextSession(p1, t)) /\ HandleNextSession(p1, t) \in PlayerState
      BY <2>0, HandleNextSessionInv DEF LoopInv, Core
    <2>2. CASE p1.sessionAwaitingAssignment = NoSession /\ p1.sessionAssignmentBacklog # <<>>
      <3>1. Core(q) /\ s \in q.sessions /\ q.sessionAwaitingAssignment = NoSession
        BY <2>0, <2>2, PopBacklog
      <3>2. HandleNextSession(p1, t) = HandleSession(q, t, s)
        BY <2>2 DEF HandleNextSession
      <3>3. NoSession # s
        BY <3>1, PlayerAssumption DEF Core, PlayerState
      <3>4. KeepsWaiting(p1, q)
        BY <2>0 DEF KeepsWaiting, PlayerState
      <3> HIDE DEF q, s
      <3>5. Counted(HandleSession(q, t, s))
        BY <2>0, <3>1, <3>3, <3>4, KeepsWaitingCounted, HandleSessionCounted
      <3>6. QED
        BY <2>1, <3>2, <3>5 DEF V
    <2>3. CASE ~(p1.sessionAwaitingAssignment = NoSession /\ p1.sessionAssignmentBacklog # <<>>)
      <3>1. HandleNextSession(p1, t) = p1
        BY <2>3 DEF HandleNextSession
      <3>2. QED
        BY <3>1
    <2>4. QED
      BY <2>2, <2>3
  <1> HIDE DEF V
  <1>3. HandleSessionBacklog(p, t) \in V
    BY <1>1, <1>2, BacklogLoop
  <1>4. QED
    BY <1>3 DEF V

LEMMA StreamNewCounted ==
    ASSUME NEW p, LoopInv(p), Counted(p), NEW t \in Nat,
           NEW st \in Streams, NEW s \in Sessions \cup {NoSession}, NEW c \in Allocations(p, s)
    PROVE  Counted(OnStreamNew(p, t, st, s, c))
  <1>1. p \in PlayerState /\ Core(p)
    BY DEF LoopInv, Core
  <1>2. CASE s = NoSession
    <2>1. KeepsWaiting(p, OnStreamNew(p, t, st, s, c))
      BY <1>1, <1>2 DEF OnStreamNew, KeepsWaiting, PlayerState
    <2>2. QED
      BY <2>1, KeepsWaitingCounted
  <1>3. CASE s # NoSession
    <2> DEFINE q == EnsureSession(p, t, s, c)
               e == EnqueueStream(q, s, st)
    <2>1. s \in Sessions
      BY <1>3
    <2>2. LoopInv(q) /\ q \in PlayerState /\ s \in q.sessions
      <3>1. CASE p.circuitsSorted[s] = <<>>
        <4>1. c \in Circuits /\ p.heap[c].status = "FREED"
          BY <1>3, <3>1 DEF Allocations
        <4>2. QED
          BY <2>1, <3>1, <4>1, NewSessionInv DEF LoopInv, Core
      <3>2. CASE p.circuitsSorted[s] # <<>>
        <4>1. s \in p.sessions
          BY <1>1, <2>1, <3>2 DEF Core, QueuesOwnCircuits
        <4>2. q = p
          BY <1>1, <3>2, <4>1 DEF EnsureSession, PlayerState
        <4>3. QED
          BY <1>1, <4>1, <4>2
      <3>3. QED
        BY <3>1, <3>2
    <2>3. KeepsWaiting(p, q)
      BY <1>1 DEF EnsureSession, KeepsWaiting, PlayerState
    <2>4. OnStreamNew(p, t, st, s, c) = HandleSessionBacklog(e, t)
      BY <1>3 DEF OnStreamNew
    <2> HIDE DEF q
    <2>5. LoopInv(e) /\ Counted(e)
      BY <2>1, <2>2, <2>3, KeepsWaitingCounted, EnqueueStreamInv, EnqueueStreamCounted
    <2>6. QED
      BY <2>4, <2>5, HandleSessionBacklogCounted
  <1>4. QED
    BY <1>2, <1>3

LEMMA CircuitAssignedCounted ==
    ASSUME NEW p, LoopInv(p), Counted(p), NEW t \in Nat, NEW id \in CircuitIDs, p.circuits[id] = NoCircuit
    PROVE  Counted(OnCircuitAssigned(p, t, id))
  <1>1. CASE p.sessionAwaitingAssignment = NoSession
    BY <1>1 DEF OnCircuitAssigned
  <1>2. CASE p.sessionAwaitingAssignment # NoSession
    <2>1. OnCircuitAssigned(p, t, id) = HandleSessionBacklog(Assign(p, id), t)
      BY <1>2 DEF OnCircuitAssigned, Assign
    <2>2. LoopInv(Assign(p, id))
      BY <1>2, AssignInv
    <2>3. KeepsWaiting(p, Assign(p, id))
      BY DEF Assign, KeepsWaiting, LoopInv, Core, PlayerState
    <2>4. QED
      BY <2>1, <2>2, <2>3, KeepsWaitingCounted, HandleSessionBacklogCounted
  <1>3. QED
    BY <1>1, <1>2

LEMMA CircuitBuiltCounted ==
    ASSUME NEW p, LoopInv(p), Counted(p), NEW t \in Nat, NEW id \in IDs
    PROVE  Counted(OnCircuitBuilt(p, t, id))
  <1> DEFINE s == p.heap[p.circuits[id]].session
             q == MarkBuilt(p, id)
  <1>1. CASE p.circuits[id] = NoCircuit
    BY <1>1 DEF OnCircuitBuilt
  <1>2. CASE p.circuits[id] # NoCircuit
    <2>1. Core(q) /\ s \in q.sessions /\ q.sessionAwaitingAssignment # s
      BY <1>2, MarkBuiltCore
    <2>2. OnCircuitBuilt(p, t, id) = HandleSession(q, t, s)
      BY <1>2 DEF OnCircuitBuilt, MarkBuilt
    <2>3. KeepsWaiting(p, q)
      BY DEF MarkBuilt, KeepsWaiting, LoopInv, Core, PlayerState
    <2> HIDE DEF q
    <2>4. QED
      BY <2>1, <2>2, <2>3, KeepsWaitingCounted, HandleSessionCounted
  <1>3. QED
    BY <1>1, <1>2

LEMMA CircuitGoneCounted ==
    ASSUME NEW p, LoopInv(p), Counted(p), NEW t \in Nat, NEW id \in IDs, NEW failed \in BOOLEAN
    PROVE  Counted(OnCircuitGone(p, t, id, failed))
  <1> DEFINE s == p.heap[p.circuits[id]].session
             q == Reset(p, id, failed)
             b == EnterBacklog(q, s)
  <1>1. CASE p.circuits[id] = NoCircuit
    BY <1>1 DEF OnCircuitGone
  <1>2. CASE p.circuits[id] # NoCircuit
    <2>1. Core(q) /\ WakeupExcept(q, s) /\ s \in q.sessions
      BY <1>2, ResetCore
    <2>2. KeepsWaiting(p, q)
      BY DEF Reset, KeepsWaiting, LoopInv, Core, PlayerState
    <2>3. OnCircuitGone(p, t, id, failed) = q \/ OnCircuitGone(p, t, id, failed) = HandleSessionBacklog(b, t)
      BY <1>2 DEF OnCircuitGone
    <2> HIDE DEF q, s
    <2>4. LoopInv(b)
      BY <2>1, EnterBacklogCore
    <2>5. KeepsWaiting(q, b)
      BY <2>1 DEF EnterBacklog, KeepsWaiting, Core, PlayerState
    <2> HIDE DEF b
    <2>6. QED
      BY <2>2, <2>3, <2>4, <2>5, KeepsWaitingCounted, HandleSessionBacklogCounted
  <1>3. QED
    BY <1>1, <1>2

\* The entries that a launch leaves in the queues hold no stream.
LEMMA RequestLaunchesQueues ==
    ASSUME NEW p, LoopInv(p), NEW n \in 0..Len(p.launches), NEW s \in Sessions
    PROVE  LET w == p.waitingStreamIDs[s]
               a == RequestLaunches(p, n).waitingStreamIDs[s]
           IN  /\ DOMAIN w \subseteq DOMAIN a
               /\ \A i \in DOMAIN a : (i \in DOMAIN w /\ a[i] = w[i]) \/ (i \notin DOMAIN w /\ a[i] = -1)
  <1> DEFINE q == RequestLaunches(p, n)
             J == {j \in 1..n : p.launches[j].session = s}
             w == p.waitingStreamIDs[s]
             m == Cardinality(J)
             r == [i \in 1..m |-> Preemptive]
             D == Streams \cup {Preemptive}
  <1>1. p \in PlayerState /\ n \in Nat
    BY DEF LoopInv, Core, PlayerState
  <1>2. q.waitingStreamIDs[s] = w \o r
    BY <1>1 DEF RequestLaunches, PlayerState
  <1>3. m \in Nat
    <2>1. IsFiniteSet(1..n) /\ J \subseteq 1..n
      BY <1>1, FS_Interval
    <2>2. QED
      BY <2>1, FS_Subset, FS_CardinalityType
  <1>4. w \in Seq(D)
    BY <1>1 DEF PlayerState
  <1> HIDE DEF m, w, q
  <1>5. r \in Seq(D) /\ Len(r) = m /\ \A i \in 1..m : r[i] = -1
    BY <1>3 DEF Preemptive
  <1> HIDE DEF r, D
  <1> DEFINE k == Len(w)
             a == w \o r
  <1>6. /\ a \in Seq(D) /\ Len(a) = k + m
        /\ \A i \in 1..(k + m) : a[i] = IF i <= k THEN w[i] ELSE r[i - k]
    BY <1>4, <1>5, ConcatProperties
  <1>7. DOMAIN a = 1..(k + m) /\ DOMAIN w = 1..k /\ k \in Nat
    BY <1>4, <1>6, LenProperties
  <1> HIDE DEF k, a
  <1>8. \A i \in 1..(k + m) : i \notin 1..k => a[i] = -1
    <2>1. \A i \in 1..(k + m) : i \notin 1..k => i - k \in 1..m /\ ~(i <= k)
      BY <1>3, <1>7
    <2>2. QED
      BY <2>1, <1>5, <1>6
  <1>9. \A i \in 1..k : i \in 1..(k + m) /\ a[i] = w[i]
    BY <1>3, <1>6, <1>7
  <1>10. QED
    BY <1>2, <1>7, <1>8, <1>9 DEF a, q, w

LEMMA LaunchNextCounted ==
    ASSUME NEW p, LoopInv(p), Counted(p), NEW t \in Nat, NEW n \in LaunchesDue(p, t)
    PROVE  Counted(LaunchNextCircuit(p, t, n))
  <1> DEFINE q == RequestLaunches(p, n)
  <1>1. p \in PlayerState /\ n \in 0..Len(p.launches)
    BY DEF LoopInv, Core, LaunchesDue
  <1>2. q.streamsAssigning = p.streamsAssigning
    BY <1>1 DEF RequestLaunches, PlayerState
  <1>3. ASSUME NEW s \in Sessions PROVE PlacesOf(q.waitingStreamIDs[s]) = PlacesOf(p.waitingStreamIDs[s])
    <2> DEFINE w == p.waitingStreamIDs[s]
               a == q.waitingStreamIDs[s]
    <2>1. /\ DOMAIN w \subseteq DOMAIN a
          /\ \A i \in DOMAIN a : (i \in DOMAIN w /\ a[i] = w[i]) \/ (i \notin DOMAIN w /\ a[i] = -1)
      BY <1>1, RequestLaunchesQueues
    <2> HIDE DEF w, a
    <2>2. {i \in DOMAIN a : a[i] >= 0} = {i \in DOMAIN w : w[i] >= 0}
      BY <2>1
    <2>3. QED
      BY <2>2 DEF PlacesOf, w, a
  <1>4. LoopInv(q) /\ Counted(q)
    <2>1. LoopInv(q)
      BY <1>1, RequestLaunchesInv
    <2> HIDE DEF q
    <2>2. QED
      BY <1>2, <1>3, <2>1, SameStreamsCounted
  <1>5. LaunchNextCircuit(p, t, n) = p \/ LaunchNextCircuit(p, t, n) = HandleSessionBacklog(q, t)
    BY DEF LaunchNextCircuit
  <1>6. QED
    BY <1>4, <1>5, HandleSessionBacklogCounted

\* The counter of the streams that are not attached yet is exact, whatever Tor
\* does: being unsigned, it would wrap if it were ever decremented too often.
THEOREM StreamsCounted == PlayerSpec => []CounterInv
  <1> DEFINE Inv == IInv /\ Counted(player)
  <1>1. Init => Inv
    <2>1. SUFFICES ASSUME Init PROVE Counted(player)
      BY InitIInv
    <2>2. player.waitingStreamIDs = [s \in Sessions |-> <<>>] /\ player.streamsAssigning = 0
      BY <2>1 DEF Init
    <2>3. StreamsWaiting(player) = {}
      BY <2>2 DEF StreamsWaiting
    <2>4. QED
      BY <2>2, <2>3, FS_EmptySet DEF Counted, StreamsAssigningCounted
  <1>2. Inv /\ [Next]_vars => Inv'
    <2>1. SUFFICES ASSUME IInv, Counted(player), [Next]_vars PROVE Counted(player')
      BY NextIInv DEF Counted, StreamsAssigningCounted, StreamsWaiting
    <2>2. now \in Nat /\ LoopInv(player) /\ player \in PlayerState
      BY <2>1 DEF IInv, LoopInv, Core
    <2>3. CASE StreamEvent
      BY <2>1, <2>2, <2>3, StreamNewCounted DEF StreamEvent
    <2>4. CASE CircuitAssigned
      BY <2>1, <2>2, <2>4, CircuitAssignedCounted DEF CircuitAssigned
    <2>5. CASE CircuitBuilt
      BY <2>1, <2>2, <2>5, CircuitBuiltCounted DEF CircuitBuilt, IDs
    <2>6. CASE CircuitGone
      BY <2>1, <2>2, <2>6, CircuitGoneCounted DEF CircuitGone, IDs
    <2>7. CASE PlayTimer
      BY <2>1, <2>2, <2>7, LaunchNextCounted DEF PlayTimer
    <2>8. CASE CommandSent
      <3>1. KeepsWaiting(player, player')
        BY <2>2, <2>8 DEF CommandSent, KeepsWaiting, PlayerState
      <3>2. QED
        BY <2>1, <3>1, KeepsWaitingCounted
    <2>9. CASE UNCHANGED player
      BY <2>1, <2>9
    <2>10. QED
      BY <2>1, <2>3, <2>4, <2>5, <2>6, <2>7, <2>8, <2>9 DEF Next, Tick, vars
  <1>3. Inv => CounterInv
    BY DEF Counted, CounterInv
  <1> HIDE DEF Inv
  <1>4. QED
    BY <1>1, <1>2, <1>3, PTL DEF PlayerSpec
=============================================================================
