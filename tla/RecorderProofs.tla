--------------------------- MODULE RecorderProofs ---------------------------
(* Proofs about module Recorder.                                           *)
EXTENDS Recorder, SequenceLemmas

-----------------------------------------------------------------------------
(* The inductive invariant: the events under way tell, circuit by circuit, *)
(* what Tor did to it since the state that the Recorder knows.             *)

Status == {"unused", "launched", "extended", "built", "closed"}

\* The states of the circuits that Tor lists.
Listed == {"launched", "extended", "built"}

\* Event e reports what Tor did to circuit id when it took it from v to w.
Leads(v, e, id, w) ==
    IF e.type = "STATUSES"
    THEN /\ w = v
         /\ id \in DOMAIN e.paths <=> v \in Listed
         /\ id \in DOMAIN e.paths => e.paths[id] = IF v = "built" THEN "built" ELSE "early"
    ELSE IF e.type = "HEADER" THEN w = v
    ELSE IF e.id # id THEN w = v
    ELSE \/ e.type = "LAUNCHED" /\ v = "unused" /\ w = "launched"
         \/ e.type = "EXTENDED" /\ v \in {"launched", "extended"} /\ w = "extended"
         \/ e.type = "BUILT" /\ v = "extended" /\ w = "built"
         \/ e.type = "FAILED" /\ v \in {"launched", "extended"} /\ w = "closed"
         \/ e.type = "CLOSED" /\ v = "built" /\ w = "closed"
         \/ e.type = "SUCCEEDED" /\ v = "built" /\ w = "built"

\* The states of circuit id that the events q were sent in.
Past(past, q, id) ==
    /\ past \in [1..(Len(q) + 1) -> Status]
    /\ \A i \in 1..Len(q) : Leads(past[i], q[i], id, past[i + 1])

Told(q, id, v, w) == \E past : Past(past, q, id) /\ past[1] = v /\ past[Len(q) + 1] = w

\* The circuit has been written with the path and the session it has in the end.
Written(r, id, user) ==
    \E i \in DOMAIN r.file[id] : r.file[id][i] = [path |-> "built", session |-> user]

\* A line that was written while Tor was building the circuit.
EarlyLine(line) == line.path # "built" /\ line.session = NoUser

\* Of the lines of the circuit, all but the last are among the ones in lines, which
\* were written while Tor was building it.
WrittenOnce(r, id, lines) ==
    /\ lines \subseteq DOMAIN r.file[id]
    /\ \A i \in DOMAIN r.file[id] :
          IF i \in lines THEN EarlyLine(r.file[id][i]) ELSE i = Len(r.file[id])

\* The lines that were written while Tor was building the circuit, after the step from
\* r to q: they are one more if that step wrote one and the circuit was unfinished.
LinesThen(r, q, id, lines, unfinished) ==
    IF unfinished /\ q.file[id] # r.file[id] THEN lines \cup {Len(q.file[id])} ELSE lines

\* What the Recorder has of circuit id when it knows that Tor had brought it to
\* v and who used it first, has left the circuits in left to be closed, and has
\* written the lines in lines of it while Tor was building it.
Known(r, id, v, user, left, lines) ==
    /\ Tracked(r, id) =>
          /\ v \in Listed
          /\ IF v = "built" THEN r.circuits[id].path = "built" ELSE EarlyLine(r.circuits[id])
          /\ id \in left \/ r.circuits[id].session = user
    /\ user # NoUser =>
          /\ v \in {"built", "closed"}
          /\ Tracked(r, id) \/ Written(r, id, user) \/ id \in left
    /\ \A i \in DOMAIN r.file[id] : i \notin lines =>
          /\ ~Tracked(r, id)
          /\ v = "closed" \/ (v = "built" /\ r.circuitStatusCleanup)
    /\ WrittenOnce(r, id, lines)

\* What the file has of it in the end.
Complete(r, id, user, left, lines) ==
    /\ ~Tracked(r, id)
    /\ user # NoUser => Written(r, id, user) \/ id \in left
    /\ WrittenOnce(r, id, lines)

\* Before Tor executed SETEVENTS.
Unwatched ==
    /\ events = <<>>
    /\ \A id \in CircuitIDs :
          /\ recorder.circuits[id] = NoCircuit /\ recorder.file[id] = <<>>
          /\ served[id] = NoUser /\ swept[id] = {}

FollowsTor ==
    \A id \in CircuitIDs :
        IF phase = "done" THEN Complete(recorder, id, served[id], disowned, swept[id])
        ELSE \E v \in Status : /\ Told(events, id, v, torCircuits[id])
                               /\ Known(recorder, id, v, served[id], disowned, swept[id])

RecorderIInv == TypeOK /\ (~torWatches => Unwatched) /\ FollowsTor

-----------------------------------------------------------------------------
(* What events tell                                                        *)

LEMMA ToldNothing ==
    ASSUME NEW id, NEW v \in Status, NEW q, Len(q) = 0
    PROVE  Told(q, id, v, v)
  <1> DEFINE past == [i \in 1..1 |-> v]
  <1>1. past \in [1..(Len(q) + 1) -> Status] /\ past[1] = v /\ past[Len(q) + 1] = v
    OBVIOUS
  <1>2. \A i \in 1..Len(q) : FALSE
    OBVIOUS
  <1>3. QED
    BY <1>1, <1>2 DEF Told, Past

LEMMA ToldFirst ==
    ASSUME NEW q \in Seq(Event), q # <<>>, NEW id, NEW v, NEW w, Told(q, id, v, w)
    PROVE  \E u \in Status : Leads(v, Head(q), id, u) /\ Told(Tail(q), id, u, w)
  <1>1. PICK past : Past(past, q, id) /\ past[1] = v /\ past[Len(q) + 1] = w
    BY DEF Told
  <1>2. /\ Head(q) = q[1] /\ Len(q) \in Nat \ {0} /\ Len(Tail(q)) = Len(q) - 1
        /\ \A i \in 1..(Len(q) - 1) : Tail(q)[i] = q[i + 1]
    BY HeadTailProperties, EmptySeq
  <1> DEFINE n == Len(q)
             later == [i \in 1..n |-> past[i + 1]]
  <1>3. n \in Nat \ {0} /\ 1 \in 1..n /\ (n - 1) + 1 = n /\ 2 \in 1..(n + 1)
    BY <1>2
  <1>4. past \in [1..(n + 1) -> Status] /\ \A i \in 1..n : Leads(past[i], q[i], id, past[i + 1])
    BY <1>1 DEF Past
  <1> HIDE DEF n
  <1>5. later \in [1..n -> Status] /\ later[1] = past[2] /\ later[n] = past[n + 1]
    <2>1. \A i \in 1..n : i + 1 \in 1..(n + 1)
      BY <1>3
    <2>2. QED
      BY <1>3, <1>4, <2>1
  <1>6. ASSUME NEW i \in 1..(n - 1) PROVE Leads(later[i], Tail(q)[i], id, later[i + 1])
    <2>1. i \in 1..n /\ i + 1 \in 1..n
      BY <1>3
    <2>2. Leads(past[i + 1], q[i + 1], id, past[(i + 1) + 1])
      BY <1>4, <2>1
    <2>3. later[i] = past[i + 1] /\ later[i + 1] = past[(i + 1) + 1] /\ Tail(q)[i] = q[i + 1]
      BY <1>2, <2>1 DEF n
    <2> HIDE DEF later
    <2>4. QED
      BY <2>2, <2>3
  <1> HIDE DEF later
  <1>7. Told(Tail(q), id, past[2], w)
    BY <1>1, <1>2, <1>3, <1>5, <1>6 DEF Told, Past, n
  <1>8. Leads(v, Head(q), id, past[2]) /\ past[2] \in Status
    <2>1. Leads(past[1], q[1], id, past[1 + 1])
      BY <1>3, <1>4
    <2>2. QED
      BY <1>1, <1>2, <1>3, <1>4, <2>1
  <1>9. QED
    BY <1>7, <1>8

LEMMA ToldMore ==
    ASSUME NEW q \in Seq(Event), NEW e \in Event, NEW id, NEW v, NEW w, Told(q, id, v, w),
           NEW u \in Status, Leads(w, e, id, u)
    PROVE  Told(Append(q, e), id, v, u)
  <1>1. PICK past : Past(past, q, id) /\ past[1] = v /\ past[Len(q) + 1] = w
    BY DEF Told
  <1>2. /\ Len(q) \in Nat /\ Len(Append(q, e)) = Len(q) + 1 /\ Append(q, e)[Len(q) + 1] = e
        /\ \A i \in 1..Len(q) : Append(q, e)[i] = q[i]
    BY AppendProperties
  <1> DEFINE n == Len(q)
             more == [i \in 1..((n + 1) + 1) |-> IF i <= n + 1 THEN past[i] ELSE u]
  <1>3. past \in [1..(n + 1) -> Status] /\ \A i \in 1..n : Leads(past[i], q[i], id, past[i + 1])
    BY <1>1 DEF Past
  <1>4. n \in Nat
    BY <1>2
  <1> HIDE DEF n
  <1>5. more \in [1..((n + 1) + 1) -> Status] /\ more[1] = v /\ more[(n + 1) + 1] = u
    <2>1. \A i \in 1..((n + 1) + 1) : i <= n + 1 => i \in 1..(n + 1)
      BY <1>4
    <2>2. 1 \in 1..((n + 1) + 1) /\ 1 <= n + 1 /\ (n + 1) + 1 \in 1..((n + 1) + 1) /\ ~((n + 1) + 1 <= n + 1)
      BY <1>4
    <2>3. QED
      BY <1>1, <1>3, <2>1, <2>2
  <1>6. ASSUME NEW i \in 1..(n + 1) PROVE Leads(more[i], Append(q, e)[i], id, more[i + 1])
    <2>1. i \in 1..((n + 1) + 1) /\ i + 1 \in 1..((n + 1) + 1) /\ i <= n + 1
      BY <1>4
    <2>2. more[i] = past[i] /\ more[i + 1] = IF i + 1 <= n + 1 THEN past[i + 1] ELSE u
      BY <2>1
    <2> HIDE DEF more
    <2>3. CASE i \in 1..n
      <3>1. i + 1 <= n + 1
        BY <1>4, <2>3
      <3>2. QED
        BY <1>2, <1>3, <2>2, <2>3, <3>1 DEF n
    <2>4. CASE i = n + 1
      <3>1. ~(i + 1 <= n + 1)
        BY <1>4, <2>4
      <3>2. more[i] = w /\ more[i + 1] = u /\ Append(q, e)[i] = e
        BY <1>1, <1>2, <2>2, <2>4, <3>1 DEF n
      <3>3. QED
        BY <3>2
    <2>5. i \in 1..n \/ i = n + 1
      BY <1>4
    <2>6. QED
      BY <2>3, <2>4, <2>5
  <1> HIDE DEF more
  <1>7. QED
    BY <1>2, <1>5, <1>6 DEF Told, Past, n

\* If w was not reached before, there is an event that reports it.
LEMMA ToldReached ==
    ASSUME NEW q \in Seq(Event), NEW id, NEW v, NEW w, v # w, Told(q, id, v, w)
    PROVE  \E i \in DOMAIN q : \E u \in Status : u # w /\ Leads(u, q[i], id, w)
  <1>1. PICK past : Past(past, q, id) /\ past[1] = v /\ past[Len(q) + 1] = w
    BY DEF Told
  <1> DEFINE n == Len(q)
             S == {i \in Nat : i + 1 \in 1..(n + 1) => past[i + 1] # w}
  <1>2. n \in Nat /\ DOMAIN q = 1..n
    BY LenProperties
  <1>3. past \in [1..(n + 1) -> Status] /\ \A i \in 1..n : Leads(past[i], q[i], id, past[i + 1])
    BY <1>1 DEF Past
  <1>4. past[1] # w /\ past[n + 1] = w
    BY <1>1
  <1> HIDE DEF n
  <1>5. SUFFICES ASSUME \A i \in 1..n : past[i + 1] = w => past[i] = w
                 PROVE  FALSE
    <2>1. \A i \in 1..n : i \in 1..(n + 1)
      BY <1>2
    <2>2. QED
      BY <1>2, <1>3, <1>5, <2>1
  <1>6. 0 \in S
    BY <1>4
  <1>7. ASSUME NEW i \in S PROVE i + 1 \in S
    <2>1. SUFFICES ASSUME (i + 1) + 1 \in 1..(n + 1) PROVE past[(i + 1) + 1] # w
      OBVIOUS
    <2>2. i \in Nat /\ i + 1 \in 1..n /\ i + 1 \in 1..(n + 1)
      BY <1>2, <2>1
    <2>3. past[i + 1] # w
      BY <2>2
    <2>4. QED
      BY <1>5, <2>2, <2>3
  <1>8. S = Nat
    <2>1. S \subseteq Nat
      OBVIOUS
    <2> HIDE DEF S
    <2>2. QED
      BY <1>6, <1>7, <2>1, SetInduction
  <1>9. n \in S
    <2> HIDE DEF S
    <2>1. QED
      BY <1>2, <1>8
  <1>10. n + 1 \in 1..(n + 1)
    BY <1>2
  <1>11. QED
    BY <1>4, <1>9, <1>10

-----------------------------------------------------------------------------
(* What the handlers do to a circuit                                       *)

\* The circuits other than id, and TorCtl, are left alone.
OnlyTouches(r, q, id) ==
    /\ \A k \in CircuitIDs \ {id} : q.circuits[k] = r.circuits[k] /\ q.file[k] = r.file[k]
    /\ q.circuitStatusCleanup = r.circuitStatusCleanup
    /\ q.waitingCircuitStatusResponse = r.waitingCircuitStatusResponse
    /\ q.currentlyReceivingCircuitStatuses = r.currentlyReceivingCircuitStatuses

\* The circuit is written, if it has a path, and removed.
Removed(r, q, id) ==
    /\ ~Tracked(q, id)
    /\ \/ ~Tracked(r, id) /\ q.file[id] = r.file[id]
       \/ Tracked(r, id) /\ r.circuits[id].path = "NULL" /\ q.file[id] = r.file[id]
       \/ /\ Tracked(r, id) /\ r.circuits[id].path # "NULL"
          /\ r.circuits[id] \in Record
          /\ q.file[id] = Append(r.file[id], r.circuits[id])

\* The circuit is recorded under a path.
Added(r, q, id, path) ==
    /\ Tracked(q, id) /\ q.file[id] = r.file[id]
    /\ q.circuits[id].path = path
    /\ q.circuits[id].session = IF Tracked(r, id) THEN r.circuits[id].session ELSE NoUser

LEMMA CircuitIsNotNone ==
    /\ NoCircuit \notin Circuit
    /\ \A path \in Path, s \in Users \cup {NoUser} :
          [path |-> path, session |-> s] \in Circuit /\ [path |-> path, session |-> s] # NoCircuit
  BY RecorderAssumption DEF Circuit, Path

LEMMA RecorderFields ==
    ASSUME NEW r \in RecorderState
    PROVE  /\ r.circuits \in [CircuitIDs -> Circuit \cup {NoCircuit}]
           /\ r.file \in [CircuitIDs -> Seq(Record)] /\ r.commands \in Seq(Command)
           /\ r.waitingCircuitStatusResponse \in BOOLEAN
           /\ r.currentlyReceivingCircuitStatuses \in BOOLEAN
           /\ r.circuitStatusCleanup \in BOOLEAN
           /\ \A id \in CircuitIDs : Tracked(r, id) => r.circuits[id] \in Circuit
  BY DEF RecorderState, Tracked

LEMMA StartedResult ==
    ASSUME NEW r \in RecorderState, NEW id \in CircuitIDs, NEW path \in {"NULL", "early"},
           NEW q, q = OnCircuitStarted(r, id, path)
    PROVE  /\ q \in RecorderState /\ OnlyTouches(r, q, id)
           /\ q.commands = r.commands /\ q.file[id] = r.file[id]
           /\ Tracked(q, id)
           /\ Tracked(r, id) => q.circuits[id] = r.circuits[id]
           /\ ~Tracked(r, id) => q.circuits[id] = [path |-> path, session |-> NoUser]
  <1>1. CASE Tracked(r, id)
    BY <1>1 DEF OnCircuitStarted, OnlyTouches
  <1>2. CASE ~Tracked(r, id)
    <2> DEFINE c == [path |-> path, session |-> NoUser]
    <2>1. c \in Circuit /\ c # NoCircuit
      BY CircuitIsNotNone DEF Path
    <2> HIDE DEF c
    <2>2. q = [r EXCEPT !.circuits[id] = c]
      BY <1>2 DEF OnCircuitStarted, c
    <2>3. q \in RecorderState
      BY <2>1, <2>2, ZenonT(60) DEF RecorderState
    <2>4. /\ q.circuits[id] = c /\ q.file = r.file /\ q.commands = r.commands
          /\ OnlyTouches(r, q, id)
      BY <2>2 DEF RecorderState, OnlyTouches
    <2>5. QED
      BY <1>2, <2>1, <2>3, <2>4 DEF Tracked, c
  <1>3. QED
    BY <1>1, <1>2

LEMMA BuiltResult ==
    ASSUME NEW r \in RecorderState, NEW id \in CircuitIDs, NEW path \in Path,
           NEW q, q = OnCircuitBuilt(r, id, path)
    PROVE  /\ q \in RecorderState /\ OnlyTouches(r, q, id)
           /\ q.commands = r.commands /\ q.file[id] = r.file[id]
           /\ Tracked(q, id) <=> Tracked(r, id)
           /\ Tracked(r, id) => /\ q.circuits[id].path = path
                                /\ q.circuits[id].session = r.circuits[id].session
  <1>1. CASE ~Tracked(r, id)
    BY <1>1 DEF OnCircuitBuilt, OnlyTouches
  <1>2. CASE Tracked(r, id)
    <2> DEFINE c == [r.circuits[id] EXCEPT !.path = path]
    <2>1. r.circuits[id] \in Circuit
      BY <1>2, RecorderFields
    <2>2. c \in Circuit /\ c.path = path /\ c.session = r.circuits[id].session
      BY <2>1 DEF Circuit
    <2>3. c # NoCircuit
      BY <2>2, CircuitIsNotNone
    <2>4. q = [r EXCEPT !.circuits[id] = c]
      BY <1>2 DEF OnCircuitBuilt, RecorderState
    <2> HIDE DEF c
    <2>5. q \in RecorderState
      BY <2>2, <2>4, ZenonT(60) DEF RecorderState
    <2>6. /\ q.circuits[id] = c /\ q.file = r.file /\ q.commands = r.commands
          /\ OnlyTouches(r, q, id)
      BY <2>4 DEF RecorderState, OnlyTouches
    <2>7. QED
      BY <1>2, <2>2, <2>3, <2>5, <2>6 DEF Tracked
  <1>3. QED
    BY <1>1, <1>2

LEMMA GoneResult ==
    ASSUME NEW r \in RecorderState, NEW id \in CircuitIDs,
           NEW q, q = OnCircuitGone(r, id)
    PROVE  /\ q \in RecorderState /\ OnlyTouches(r, q, id)
           /\ q.commands = r.commands /\ Removed(r, q, id)
  <1>1. CASE ~Tracked(r, id)
    BY <1>1 DEF OnCircuitGone, OnlyTouches, Removed
  <1>2. CASE Tracked(r, id)
    <2> DEFINE f == IF r.circuits[id].path = "NULL" THEN r.file[id]
                    ELSE Append(r.file[id], r.circuits[id])
    <2>1. r.circuits[id] \in Circuit /\ r.file[id] \in Seq(Record)
      BY <1>2, RecorderFields
    <2>2. r.circuits[id].path # "NULL" => r.circuits[id] \in Record
      BY <2>1 DEF Circuit, Record
    <2>3. f \in Seq(Record)
      <3>1. r.circuits[id].path # "NULL" => Append(r.file[id], r.circuits[id]) \in Seq(Record)
        BY <2>1, <2>2, AppendProperties
      <3>2. QED
        BY <2>1, <3>1
    <2>4. q = [r EXCEPT !.circuits[id] = NoCircuit, !.file[id] = f]
      BY <1>2 DEF OnCircuitGone, RecorderState
    <2>5. \/ r.circuits[id].path = "NULL" /\ f = r.file[id]
          \/ r.circuits[id].path # "NULL" /\ f = Append(r.file[id], r.circuits[id])
      OBVIOUS
    <2> HIDE DEF f
    <2>6. q \in RecorderState
      <3> DEFINE C == [r.circuits EXCEPT ![id] = NoCircuit]
                 F == [r.file EXCEPT ![id] = f]
      <3>1. C \in [CircuitIDs -> Circuit \cup {NoCircuit}]
        BY RecorderFields
      <3>2. F \in [CircuitIDs -> Seq(Record)]
        BY <2>3, RecorderFields
      <3>3. q = [r EXCEPT !.circuits = C, !.file = F]
        BY <2>4
      <3> HIDE DEF C, F
      <3>4. QED
        BY <3>1, <3>2, <3>3 DEF RecorderState
    <2>7. /\ q.circuits[id] = NoCircuit /\ q.file[id] = f /\ q.commands = r.commands
          /\ OnlyTouches(r, q, id)
      BY <2>4 DEF RecorderState, OnlyTouches
    <2>8. QED
      BY <1>2, <2>2, <2>5, <2>6, <2>7 DEF Tracked, Removed
  <1>3. QED
    BY <1>1, <1>2

LEMMA SucceededResult ==
    ASSUME NEW r \in RecorderState, NEW id \in CircuitIDs, NEW user \in Users \cup {NoUser},
           NEW q, q = OnStreamSucceeded(r, id, user)
    PROVE  /\ q \in RecorderState /\ OnlyTouches(r, q, id) /\ q.file[id] = r.file[id]
           /\ Tracked(q, id) <=> Tracked(r, id)
           /\ Tracked(r, id) =>
                 /\ q.circuits[id].path = r.circuits[id].path
                 /\ q.circuits[id].session = IF r.circuits[id].session = NoUser THEN user
                                             ELSE r.circuits[id].session
           /\ ~Tracked(r, id) => \E i \in DOMAIN q.commands : q.commands[i] = CloseCircuit(id)
  <1>1. CASE ~Tracked(r, id)
    <2>1. r.commands \in Seq(Command) /\ CloseCircuit(id) \in Command
      BY RecorderFields DEF Command
    <2> DEFINE f == Append(r.commands, CloseCircuit(id))
    <2>2. f \in Seq(Command) /\ Len(f) = Len(r.commands) + 1 /\ f[Len(r.commands) + 1] = CloseCircuit(id)
      BY <2>1, AppendProperties
    <2>3. Len(r.commands) \in Nat /\ DOMAIN f = 1..Len(f)
      BY <2>1, <2>2, LenProperties
    <2>4. Len(r.commands) + 1 \in DOMAIN f
      BY <2>2, <2>3
    <2>5. q = [r EXCEPT !.commands = f]
      BY <1>1 DEF OnStreamSucceeded, RecorderState
    <2> HIDE DEF f
    <2>6. q \in RecorderState
      BY <2>2, <2>5 DEF RecorderState
    <2>7. /\ q.circuits = r.circuits /\ q.file = r.file /\ q.commands = f
          /\ OnlyTouches(r, q, id)
      BY <2>5 DEF RecorderState, OnlyTouches
    <2>8. QED
      BY <1>1, <2>2, <2>4, <2>6, <2>7 DEF Tracked
  <1>2. CASE Tracked(r, id) /\ r.circuits[id].session = NoUser
    <2> DEFINE c == [r.circuits[id] EXCEPT !.session = user]
    <2>1. r.circuits[id] \in Circuit
      BY <1>2, RecorderFields
    <2>2. c \in Circuit /\ c.path = r.circuits[id].path /\ c.session = user
      BY <2>1 DEF Circuit
    <2>3. c # NoCircuit
      BY <2>2, CircuitIsNotNone
    <2>4. q = [r EXCEPT !.circuits[id] = c]
      BY <1>2 DEF OnStreamSucceeded, RecorderState
    <2> HIDE DEF c
    <2>5. q \in RecorderState
      BY <2>2, <2>4, ZenonT(60) DEF RecorderState
    <2>6. /\ q.circuits[id] = c /\ q.file = r.file /\ q.commands = r.commands
          /\ OnlyTouches(r, q, id)
      BY <2>4 DEF RecorderState, OnlyTouches
    <2>7. QED
      BY <1>2, <2>2, <2>3, <2>5, <2>6 DEF Tracked
  <1>3. CASE Tracked(r, id) /\ r.circuits[id].session # NoUser
    BY <1>3 DEF OnStreamSucceeded, OnlyTouches
  <1>4. QED
    BY <1>1, <1>2, <1>3

\* What a line of a list does.
ListedEffect(r, q, id, path) ==
    IF r.circuitStatusCleanup THEN Removed(r, q, id) ELSE Added(r, q, id, path)

LEMMA StatusResult ==
    ASSUME NEW r \in RecorderState, NEW id \in CircuitIDs, NEW path \in {"early", "built"},
           NEW q, q = HandleCircuitStatus(r, id, path)
    PROVE  q \in RecorderState /\ ListedEffect(r, q, id, path)
  <1>1. CASE r.circuitStatusCleanup
    BY <1>1, GoneResult DEF HandleCircuitStatus, ListedEffect
  <1>2. CASE ~r.circuitStatusCleanup
    <2> DEFINE m == OnCircuitStarted(r, id, "NULL")
    <2>1. q = OnCircuitBuilt(m, id, path)
      BY <1>2 DEF HandleCircuitStatus
    <2>2. /\ m \in RecorderState /\ m.file[id] = r.file[id] /\ Tracked(m, id)
          /\ Tracked(r, id) => m.circuits[id] = r.circuits[id]
          /\ ~Tracked(r, id) => m.circuits[id] = [path |-> "NULL", session |-> NoUser]
      BY StartedResult
    <2> HIDE DEF m
    <2>3. path \in Path
      BY DEF Path
    <2>4. /\ q \in RecorderState /\ q.file[id] = m.file[id] /\ Tracked(q, id)
          /\ q.circuits[id].path = path /\ q.circuits[id].session = m.circuits[id].session
      BY <2>1, <2>2, <2>3, BuiltResult
    <2>5. QED
      BY <1>2, <2>2, <2>4 DEF ListedEffect, Added
  <1>3. QED
    BY <1>1, <1>2

LEMMA StatusLinesResult ==
    ASSUME NEW r \in RecorderState, NEW S \in SUBSET CircuitIDs, NEW paths \in [S -> {"early", "built"}],
           NEW q, q = OnStatusLines(r, paths)
    PROVE  /\ q \in RecorderState /\ q.commands = r.commands
           /\ q.circuitStatusCleanup = r.circuitStatusCleanup
           /\ ~q.currentlyReceivingCircuitStatuses
           /\ \A id \in CircuitIDs :
                 IF r.currentlyReceivingCircuitStatuses /\ id \in S
                 THEN ListedEffect(r, q, id, paths[id])
                 ELSE q.circuits[id] = r.circuits[id] /\ q.file[id] = r.file[id]
  <1>1. CASE ~r.currentlyReceivingCircuitStatuses
    BY <1>1 DEF OnStatusLines
  <1>2. CASE r.currentlyReceivingCircuitStatuses
    <2> DEFINE m == [r EXCEPT !.currentlyReceivingCircuitStatuses = FALSE]
               after(id) == IF id \in DOMAIN paths THEN HandleCircuitStatus(m, id, paths[id]) ELSE m
               C == [id \in CircuitIDs |-> after(id).circuits[id]]
               F == [id \in CircuitIDs |-> after(id).file[id]]
    <2>1. q = [m EXCEPT !.circuits = C, !.file = F]
      BY <1>2 DEF OnStatusLines, HandleCircuitStatuses
    <2>2. /\ m \in RecorderState /\ m.circuits = r.circuits /\ m.file = r.file
          /\ m.circuitStatusCleanup = r.circuitStatusCleanup /\ m.commands = r.commands
          /\ ~m.currentlyReceivingCircuitStatuses
      BY DEF RecorderState
    <2> HIDE DEF m
    <2>3. ASSUME NEW id \in CircuitIDs
          PROVE  /\ after(id) \in RecorderState
                 /\ IF id \in S THEN ListedEffect(m, after(id), id, paths[id]) ELSE after(id) = m
      <3>1. CASE id \in S
        <4>1. paths[id] \in {"early", "built"} /\ DOMAIN paths = S
          BY <3>1
        <4>2. after(id) = HandleCircuitStatus(m, id, paths[id])
          BY <3>1, <4>1
        <4>3. QED
          BY <2>2, <3>1, <4>1, <4>2, StatusResult
      <3>2. CASE id \notin S
        BY <2>2, <3>2
      <3>3. QED
        BY <3>1, <3>2
    <2> HIDE DEF after
    <2>4. C \in [CircuitIDs -> Circuit \cup {NoCircuit}] /\ F \in [CircuitIDs -> Seq(Record)]
      <3>1. \A id \in CircuitIDs : after(id).circuits[id] \in Circuit \cup {NoCircuit}
        BY <2>3, RecorderFields
      <3>2. \A id \in CircuitIDs : after(id).file[id] \in Seq(Record)
        BY <2>3, RecorderFields
      <3>3. QED
        BY <3>1, <3>2
    <2>5. \A id \in CircuitIDs : C[id] = after(id).circuits[id] /\ F[id] = after(id).file[id]
      OBVIOUS
    <2> HIDE DEF C, F
    <2>6. /\ q \in RecorderState /\ q.circuits = C /\ q.file = F /\ q.commands = m.commands
          /\ q.circuitStatusCleanup = m.circuitStatusCleanup
          /\ ~q.currentlyReceivingCircuitStatuses
      BY <2>1, <2>2, <2>4 DEF RecorderState
    <2>7. ASSUME NEW id \in CircuitIDs
          PROVE  IF r.currentlyReceivingCircuitStatuses /\ id \in S
                 THEN ListedEffect(r, q, id, paths[id])
                 ELSE q.circuits[id] = r.circuits[id] /\ q.file[id] = r.file[id]
      <3>1. q.circuits[id] = after(id).circuits[id] /\ q.file[id] = after(id).file[id]
        BY <2>5, <2>6
      <3>2. CASE id \in S
        <4>1. ListedEffect(m, after(id), id, paths[id])
          BY <2>3, <3>2
        <4>2. QED
          BY <1>2, <2>2, <3>1, <3>2, <4>1 DEF ListedEffect, Removed, Added, Tracked
      <3>3. CASE id \notin S
        BY <2>2, <2>3, <3>1, <3>3
      <3>4. QED
        BY <3>2, <3>3
    <2>8. QED
      BY <2>2, <2>6, <2>7
  <1>3. QED
    BY <1>1, <1>2

LEMMA LeftoversResult ==
    ASSUME NEW r \in RecorderState, NEW q, q = WriteLeftovers(r)
    PROVE  /\ q \in RecorderState
           /\ \A id \in CircuitIDs : Removed(r, q, id)
  <1> DEFINE after(id) == OnCircuitGone(r, id)
             C == [id \in CircuitIDs |-> NoCircuit]
             F == [id \in CircuitIDs |-> after(id).file[id]]
  <1>1. q = [r EXCEPT !.circuits = C, !.file = F]
    BY DEF WriteLeftovers
  <1>2. \A id \in CircuitIDs : after(id) \in RecorderState /\ Removed(r, after(id), id)
    BY GoneResult
  <1> HIDE DEF after
  <1>3. C \in [CircuitIDs -> Circuit \cup {NoCircuit}] /\ F \in [CircuitIDs -> Seq(Record)]
    <2>1. \A id \in CircuitIDs : after(id).file[id] \in Seq(Record)
      BY <1>2, RecorderFields
    <2>2. QED
      BY <2>1
  <1>4. \A id \in CircuitIDs : C[id] = NoCircuit /\ F[id] = after(id).file[id]
    OBVIOUS
  <1> HIDE DEF C, F
  <1>5. q \in RecorderState /\ q.circuits = C /\ q.file = F
    BY <1>1, <1>3 DEF RecorderState
  <1>6. ASSUME NEW id \in CircuitIDs PROVE Removed(r, q, id)
    BY <1>2, <1>4, <1>5 DEF Removed, Tracked
  <1>7. QED
    BY <1>5, <1>6

-----------------------------------------------------------------------------
(* What an event tells the Recorder                                        *)

LEMMA AppendedLines ==
    ASSUME NEW S, NEW f \in Seq(S), NEW e \in S
    PROVE  /\ DOMAIN f \subseteq DOMAIN Append(f, e)
           /\ Len(f) + 1 \in DOMAIN Append(f, e) /\ Append(f, e)[Len(f) + 1] = e
           /\ Len(f) + 1 \notin DOMAIN f
           /\ \A i \in DOMAIN f : Append(f, e)[i] = f[i]
           /\ \A i \in DOMAIN Append(f, e) : i \in DOMAIN f \/ i = Len(f) + 1
  <1>1. Len(f) \in Nat /\ DOMAIN f = 1..Len(f)
    BY LenProperties
  <1>2. /\ Append(f, e) \in Seq(S) /\ Len(Append(f, e)) = Len(f) + 1
        /\ \A i \in 1..Len(f) : Append(f, e)[i] = f[i]
        /\ Append(f, e)[Len(f) + 1] = e
    BY AppendProperties
  <1>3. DOMAIN Append(f, e) = 1..(Len(f) + 1)
    BY <1>2, LenProperties
  <1> DEFINE n == Len(f)
  <1>4. n \in Nat /\ DOMAIN f = 1..n /\ DOMAIN Append(f, e) = 1..(n + 1)
    BY <1>1, <1>3
  <1> HIDE DEF n
  <1>5. /\ DOMAIN f \subseteq DOMAIN Append(f, e) /\ n + 1 \in DOMAIN Append(f, e) /\ n + 1 \notin DOMAIN f
        /\ \A i \in DOMAIN Append(f, e) : i \in DOMAIN f \/ i = n + 1
    BY <1>4
  <1>6. QED
    BY <1>1, <1>2, <1>5 DEF n

\* The circuit is left alone.
LEMMA KnownSame ==
    ASSUME NEW r, NEW q, NEW id, NEW v, NEW user, NEW before, NEW after, NEW lines,
           Known(r, id, v, user, before, lines), before \subseteq after,
           q.circuits[id] = r.circuits[id], q.file[id] = r.file[id],
           r.circuitStatusCleanup => q.circuitStatusCleanup
    PROVE  Known(q, id, v, user, after, lines)
  BY DEF Known, Tracked, Written, WrittenOnce

\* LAUNCHED and EXTENDED.
LEMMA KnownStarted ==
    ASSUME NEW r \in RecorderState, NEW id \in CircuitIDs, NEW v, NEW user, NEW left, NEW lines,
           Known(r, id, v, user, left, lines),
           v \in {"unused", "launched", "extended"}, NEW u \in {"launched", "extended"},
           NEW path \in {"NULL", "early"}, NEW q, q = OnCircuitStarted(r, id, path)
    PROVE  Known(q, id, u, user, left, lines)
  <1>1. /\ q.file[id] = r.file[id] /\ Tracked(q, id)
        /\ Tracked(r, id) => q.circuits[id] = r.circuits[id]
        /\ ~Tracked(r, id) => q.circuits[id] = [path |-> path, session |-> NoUser]
    BY StartedResult
  <1>2. user = NoUser
    BY DEF Known
  <1>3. u \in Listed /\ u # "built" /\ v # "built" /\ v # "closed"
    BY DEF Listed
  <1>4. EarlyLine(q.circuits[id]) /\ (id \in left \/ q.circuits[id].session = user)
    BY <1>1, <1>2, <1>3 DEF Known, EarlyLine
  <1>5. WrittenOnce(q, id, lines)
    BY <1>1 DEF Known, WrittenOnce
  <1>6. \A i \in DOMAIN q.file[id] : i \in lines
    BY <1>1, <1>3 DEF Known
  <1>7. QED
    BY <1>1, <1>2, <1>3, <1>4, <1>5, <1>6 DEF Known

LEMMA KnownBuilt ==
    ASSUME NEW r \in RecorderState, NEW id \in CircuitIDs, NEW user, NEW left, NEW lines,
           Known(r, id, "extended", user, left, lines),
           NEW q, q = OnCircuitBuilt(r, id, "built")
    PROVE  Known(q, id, "built", user, left, lines)
  <1>1. /\ q.file[id] = r.file[id] /\ (Tracked(q, id) <=> Tracked(r, id))
        /\ Tracked(r, id) => /\ q.circuits[id].path = "built"
                             /\ q.circuits[id].session = r.circuits[id].session
    BY BuiltResult DEF Path
  <1>2. user = NoUser
    BY DEF Known
  <1>3. WrittenOnce(q, id, lines)
    BY <1>1 DEF Known, WrittenOnce
  <1>4. \A i \in DOMAIN q.file[id] : i \in lines
    BY <1>1 DEF Known
  <1>5. QED
    BY <1>1, <1>2, <1>3, <1>4 DEF Known, Listed

LEMMA KnownSucceeded ==
    ASSUME NEW r \in RecorderState, NEW id \in CircuitIDs, NEW user, NEW streamUser \in Users \cup {NoUser},
           NEW before, NEW after, NEW lines,
           Known(r, id, "built", user, before, lines), before \subseteq after, ~Tracked(r, id) => id \in after,
           NEW q, q = OnStreamSucceeded(r, id, streamUser)
    PROVE  Known(q, id, "built", IF user = NoUser THEN streamUser ELSE user, after, lines)
  <1> DEFINE first == IF user = NoUser THEN streamUser ELSE user
  <1>1. /\ q.file[id] = r.file[id] /\ (Tracked(q, id) <=> Tracked(r, id))
        /\ q.circuitStatusCleanup = r.circuitStatusCleanup
        /\ Tracked(r, id) =>
              /\ q.circuits[id].path = r.circuits[id].path
              /\ q.circuits[id].session = IF r.circuits[id].session = NoUser THEN streamUser
                                          ELSE r.circuits[id].session
    BY SucceededResult DEF OnlyTouches
  <1>2. Tracked(q, id) => /\ "built" \in Listed
                          /\ q.circuits[id].path = "built"
                          /\ id \in after \/ q.circuits[id].session = first
    BY <1>1 DEF Known, Listed
  <1>3. Tracked(q, id) \/ Written(q, id, first) \/ id \in after
    BY <1>1
  <1>4. WrittenOnce(q, id, lines)
    BY <1>1 DEF Known, WrittenOnce
  <1>5. \A i \in DOMAIN q.file[id] : i \notin lines => ~Tracked(q, id) /\ q.circuitStatusCleanup
    BY <1>1 DEF Known
  <1> HIDE DEF first
  <1>6. Known(q, id, "built", first, after, lines)
    BY <1>2, <1>3, <1>4, <1>5 DEF Known
  <1>7. QED
    BY <1>6 DEF first

\* A line is written after others only if these were written while Tor was building
\* the circuit.
LEMMA RemovedWrites ==
    ASSUME NEW r \in RecorderState, NEW id \in CircuitIDs, NEW v \in Status, NEW user,
           NEW left, NEW lines, Known(r, id, v, user, left, lines),
           NEW q, Removed(r, q, id),
           NEW unfinished \in BOOLEAN, unfinished => v \notin {"built", "closed"},
           NEW more, more = LinesThen(r, q, id, lines, unfinished)
    PROVE  /\ WrittenOnce(q, id, more)
           /\ user # NoUser => Written(q, id, user) \/ id \in left
           /\ \A i \in DOMAIN q.file[id] : i \notin more =>
                 \/ v = "closed" \/ (v = "built" /\ r.circuitStatusCleanup)
                 \/ Tracked(r, id) /\ ~unfinished
  <1>1. CASE q.file[id] = r.file[id]
    <2>1. WrittenOnce(q, id, more) /\ (Written(r, id, user) => Written(q, id, user)) /\ more = lines
      BY <1>1 DEF Known, WrittenOnce, Written, LinesThen
    <2>2. Tracked(r, id) /\ user # NoUser => id \in left
      <3>1. SUFFICES ASSUME Tracked(r, id), user # NoUser PROVE id \in left
        OBVIOUS
      <3>2. r.circuits[id].path = "built"
        BY <3>1 DEF Known, Listed, EarlyLine
      <3>3. r.circuits[id] \in Record /\ q.file[id] = Append(r.file[id], r.circuits[id])
        BY <3>1, <3>2 DEF Removed
      <3>4. Len(r.file[id]) + 1 \in DOMAIN q.file[id] /\ Len(r.file[id]) + 1 \notin DOMAIN r.file[id]
        BY <3>3, RecorderFields, AppendedLines
      <3>5. QED
        BY <1>1, <3>4
    <2>3. QED
      BY <1>1, <2>1, <2>2 DEF Known
  <1>2. CASE /\ Tracked(r, id) /\ r.circuits[id] \in Record
             /\ q.file[id] = Append(r.file[id], r.circuits[id])
    <2> DEFINE f == r.file[id]
               n == Len(f) + 1
    <2>1. r.circuits[id] \in Circuit /\ f \in Seq(Record)
      BY <1>2, RecorderFields
    <2>2. /\ DOMAIN f \subseteq DOMAIN q.file[id] /\ n \in DOMAIN q.file[id] /\ n \notin DOMAIN f
          /\ q.file[id][n] = r.circuits[id]
          /\ \A i \in DOMAIN f : q.file[id][i] = f[i]
          /\ \A i \in DOMAIN q.file[id] : i \in DOMAIN f \/ i = n
      BY <1>2, <2>1, AppendedLines
    <2>3. Len(q.file[id]) = n
      BY <1>2, <2>1, AppendProperties
    <2> HIDE DEF n
    <2>4. q.file[id] # f
      BY <2>2
    <2>5. lines = DOMAIN f /\ \A i \in DOMAIN f : EarlyLine(f[i])
      BY <1>2 DEF Known, WrittenOnce
    <2>6. unfinished => EarlyLine(r.circuits[id])
      BY <1>2 DEF Known
    <2>7. more = IF unfinished THEN lines \cup {n} ELSE lines
      BY <2>3, <2>4 DEF LinesThen
    <2>8. WrittenOnce(q, id, more)
      <3>1. more \subseteq DOMAIN q.file[id]
        BY <2>2, <2>5, <2>7
      <3>2. ASSUME NEW i \in DOMAIN q.file[id]
            PROVE  IF i \in more THEN EarlyLine(q.file[id][i]) ELSE i = Len(q.file[id])
        <4>1. CASE i \in DOMAIN f
          BY <2>2, <2>5, <2>7, <4>1
        <4>2. CASE i = n
          BY <2>2, <2>3, <2>5, <2>6, <2>7, <4>2
        <4>3. QED
          BY <2>2, <4>1, <4>2
      <3>3. QED
        BY <3>1, <3>2 DEF WrittenOnce
    <2>9. user # NoUser => Written(q, id, user) \/ id \in left
      <3>1. SUFFICES ASSUME user # NoUser, id \notin left PROVE Written(q, id, user)
        OBVIOUS
      <3>2. r.circuits[id].path = "built" /\ r.circuits[id].session = user
        BY <1>2, <3>1 DEF Known, Listed, EarlyLine
      <3>3. r.circuits[id] = [path |-> "built", session |-> user]
        BY <2>1, <3>2 DEF Circuit
      <3>4. QED
        BY <2>2, <3>3 DEF Written
    <2>10. \A i \in DOMAIN q.file[id] : i \notin more => ~unfinished
      BY <2>2, <2>5, <2>7
    <2>11. QED
      BY <1>2, <2>8, <2>9, <2>10
  <1>3. QED
    BY <1>1, <1>2 DEF Removed

\* FAILED and CLOSED, and the lines of the list for the cleanup.
LEMMA KnownRemoved ==
    ASSUME NEW r \in RecorderState, NEW id \in CircuitIDs, NEW v \in Status, NEW user,
           NEW left, NEW lines, Known(r, id, v, user, left, lines),
           NEW q, Removed(r, q, id),
           NEW unfinished \in BOOLEAN,
           NEW u, \/ u = "closed" /\ ~unfinished
                  \/ u = v /\ v \in Listed /\ q.circuitStatusCleanup /\ (unfinished <=> v # "built"),
           NEW more, more = LinesThen(r, q, id, lines, unfinished)
    PROVE  Known(q, id, u, user, left, more)
  <1>1. unfinished => v \notin {"built", "closed"}
    BY DEF Listed
  <1>2. /\ WrittenOnce(q, id, more)
        /\ user # NoUser => Written(q, id, user) \/ id \in left
        /\ \A i \in DOMAIN q.file[id] : i \notin more =>
              \/ v = "closed" \/ (v = "built" /\ r.circuitStatusCleanup)
              \/ Tracked(r, id) /\ ~unfinished
    BY <1>1, RemovedWrites
  <1>3. ~Tracked(q, id)
    BY DEF Removed
  <1>4. user # NoUser => u \in {"built", "closed"}
    BY DEF Known
  <1>5. \A i \in DOMAIN q.file[id] : i \notin more =>
            u = "closed" \/ (u = "built" /\ q.circuitStatusCleanup)
    BY <1>2 DEF Listed
  <1>6. QED
    BY <1>2, <1>3, <1>4, <1>5 DEF Known

\* The lines of the first list.
LEMMA KnownAdded ==
    ASSUME NEW r \in RecorderState, NEW id \in CircuitIDs, NEW v \in Listed, NEW user,
           NEW left, NEW lines, Known(r, id, v, user, left, lines), ~r.circuitStatusCleanup,
           NEW path, path = (IF v = "built" THEN "built" ELSE "early"),
           NEW q, Added(r, q, id, path)
    PROVE  Known(q, id, v, user, left, lines)
  <1>1. /\ Tracked(q, id) /\ q.file[id] = r.file[id]
        /\ IF v = "built" THEN q.circuits[id].path = "built" ELSE EarlyLine(q.circuits[id])
    BY DEF Added, Known, EarlyLine
  <1>2. \A i \in DOMAIN r.file[id] : i \in lines
    BY DEF Known, Listed
  <1>3. ~Written(r, id, user)
    BY <1>2 DEF Known, WrittenOnce, Written, EarlyLine
  <1>4. id \in left \/ q.circuits[id].session = user
    <2>1. CASE Tracked(r, id)
      BY <2>1 DEF Known, Added
    <2>2. CASE ~Tracked(r, id)
      BY <1>3, <2>2 DEF Known, Added
    <2>3. QED
      BY <2>1, <2>2
  <1>5. WrittenOnce(q, id, lines)
    BY <1>1 DEF Known, WrittenOnce
  <1>6. user # NoUser => v \in {"built", "closed"}
    BY DEF Known
  <1>7. QED
    BY <1>1, <1>2, <1>4, <1>5, <1>6 DEF Known

-----------------------------------------------------------------------------
(* The handlers keep the invariant                                         *)

LEMMA EventCases ==
    ASSUME NEW e \in Event
    PROVE  \/ e.type \in {"LAUNCHED", "EXTENDED", "BUILT", "FAILED", "CLOSED"} /\ e.id \in CircuitIDs
           \/ e.type = "SUCCEEDED" /\ e.id \in CircuitIDs /\ e.user \in Users \cup {NoUser}
           \/ e.type = "HEADER"
           \/ /\ e.type = "STATUSES"
              /\ \E S \in SUBSET CircuitIDs : e.paths \in [S -> {"early", "built"}]
  BY DEF Event, StatusHeader, StatusLines

LEMMA HeaderResult ==
    ASSUME NEW r \in RecorderState, NEW q, q = OnStatusHeader(r)
    PROVE  /\ q \in RecorderState /\ q.circuits = r.circuits /\ q.file = r.file
           /\ q.circuitStatusCleanup = r.circuitStatusCleanup /\ q.commands = r.commands
  BY DEF OnStatusHeader, RecorderState

LEMMA HandleType ==
    ASSUME NEW r \in RecorderState, NEW e \in Event
    PROVE  Handle(r, e) \in RecorderState
  <1>1. CASE e.type = "LAUNCHED" /\ e.id \in CircuitIDs
    BY <1>1, StartedResult DEF Handle
  <1>2. CASE e.type = "EXTENDED" /\ e.id \in CircuitIDs
    BY <1>2, StartedResult DEF Handle
  <1>3. CASE e.type = "BUILT" /\ e.id \in CircuitIDs
    BY <1>3, BuiltResult DEF Handle, Path
  <1>4. CASE e.type \in {"FAILED", "CLOSED"} /\ e.id \in CircuitIDs
    BY <1>4, GoneResult DEF Handle
  <1>5. CASE e.type = "SUCCEEDED" /\ e.id \in CircuitIDs /\ e.user \in Users \cup {NoUser}
    BY <1>5, SucceededResult DEF Handle
  <1>6. CASE e.type = "HEADER"
    BY <1>6, HeaderResult DEF Handle
  <1>7. CASE e.type = "STATUSES" /\ \E S \in SUBSET CircuitIDs : e.paths \in [S -> {"early", "built"}]
    BY <1>7, StatusLinesResult DEF Handle
  <1>8. QED
    BY <1>1, <1>2, <1>3, <1>4, <1>5, <1>6, <1>7, EventCases

\* An event takes what the Recorder knows of a circuit from one state to the next.
LEMMA HandleKnown ==
    ASSUME NEW r \in RecorderState, NEW e \in Event, NEW q, q = Handle(r, e),
           NEW id \in CircuitIDs, NEW v \in Status, NEW u \in Status, Leads(v, e, id, u),
           NEW before, NEW after, before \subseteq after,
           NEW user, NEW lines, Known(r, id, v, user, before, lines),
           e.type = "SUCCEEDED" /\ e.id = id /\ ~Tracked(r, id) => id \in after,
           NEW first, first = (IF e.type = "SUCCEEDED" /\ e.id = id /\ user = NoUser THEN e.user ELSE user),
           NEW more, more = LinesThen(r, q, id, lines, ListsUnfinished(e, id))
    PROVE  Known(q, id, u, first, after, more)
  <1>0. Known(r, id, v, user, after, lines)
    BY DEF Known
  <1>s. e.type # "STATUSES" \/ q.file[id] = r.file[id] => more = lines
    BY DEF ListsUnfinished, LinesThen
  <1>1. CASE e.type = "LAUNCHED" /\ e.id \in CircuitIDs
    <2>1. q = OnCircuitStarted(r, e.id, "NULL") /\ first = user /\ more = lines
      BY <1>1, <1>s DEF Handle
    <2>2. CASE e.id = id
      <3>1. v = "unused" /\ u = "launched"
        BY <1>1, <2>2 DEF Leads
      <3>2. QED
        BY <1>0, <2>1, <2>2, <3>1, KnownStarted
    <2>3. CASE e.id # id
      <3>1. u = v /\ OnlyTouches(r, q, e.id)
        BY <1>1, <2>1, <2>3, StartedResult DEF Leads
      <3>2. QED
        BY <1>0, <2>1, <2>3, <3>1, KnownSame DEF OnlyTouches
    <2>4. QED
      BY <2>2, <2>3
  <1>2. CASE e.type = "EXTENDED" /\ e.id \in CircuitIDs
    <2>1. q = OnCircuitStarted(r, e.id, "early") /\ first = user /\ more = lines
      BY <1>2, <1>s DEF Handle
    <2>2. CASE e.id = id
      <3>1. v \in {"launched", "extended"} /\ u = "extended"
        BY <1>2, <2>2 DEF Leads
      <3>2. QED
        BY <1>0, <2>1, <2>2, <3>1, KnownStarted
    <2>3. CASE e.id # id
      <3>1. u = v /\ OnlyTouches(r, q, e.id)
        BY <1>2, <2>1, <2>3, StartedResult DEF Leads
      <3>2. QED
        BY <1>0, <2>1, <2>3, <3>1, KnownSame DEF OnlyTouches
    <2>4. QED
      BY <2>2, <2>3
  <1>3. CASE e.type = "BUILT" /\ e.id \in CircuitIDs
    <2>1. q = OnCircuitBuilt(r, e.id, "built") /\ first = user /\ more = lines
      BY <1>3, <1>s DEF Handle
    <2>2. CASE e.id = id
      <3>1. v = "extended" /\ u = "built"
        BY <1>3, <2>2 DEF Leads
      <3>2. QED
        BY <1>0, <2>1, <2>2, <3>1, KnownBuilt
    <2>3. CASE e.id # id
      <3>1. u = v /\ OnlyTouches(r, q, e.id)
        BY <1>3, <2>1, <2>3, BuiltResult DEF Leads, Path
      <3>2. QED
        BY <1>0, <2>1, <2>3, <3>1, KnownSame DEF OnlyTouches
    <2>4. QED
      BY <2>2, <2>3
  <1>4. CASE e.type \in {"FAILED", "CLOSED"} /\ e.id \in CircuitIDs
    <2>1. q = OnCircuitGone(r, e.id) /\ first = user /\ more = lines
      BY <1>4, <1>s DEF Handle
    <2>2. CASE e.id = id
      <3>1. u = "closed" /\ Removed(r, q, id)
        BY <1>4, <2>1, <2>2, GoneResult DEF Leads
      <3>2. QED
        <4>1. lines = LinesThen(r, q, id, lines, FALSE)
          BY DEF LinesThen
        <4>2. Known(q, id, u, user, after, lines)
          BY <1>0, <3>1, <4>1, KnownRemoved
        <4>3. QED
          BY <2>1, <4>2
    <2>3. CASE e.id # id
      <3>1. u = v /\ OnlyTouches(r, q, e.id)
        BY <1>4, <2>1, <2>3, GoneResult DEF Leads
      <3>2. QED
        BY <1>0, <2>1, <2>3, <3>1, KnownSame DEF OnlyTouches
    <2>4. QED
      BY <2>2, <2>3
  <1>5. CASE e.type = "SUCCEEDED" /\ e.id \in CircuitIDs /\ e.user \in Users \cup {NoUser}
    <2>1. q = OnStreamSucceeded(r, e.id, e.user) /\ more = lines
      BY <1>5, <1>s DEF Handle
    <2>2. CASE e.id = id
      <3>1. v = "built" /\ u = "built" /\ first = IF user = NoUser THEN e.user ELSE user
        BY <1>5, <2>2 DEF Leads
      <3>2. ~Tracked(r, id) => id \in after
        BY <1>5, <2>2
      <3>3. Known(q, id, "built", IF user = NoUser THEN e.user ELSE user, after, lines)
        BY <1>0, <1>5, <2>1, <2>2, <3>1, <3>2, KnownSucceeded
      <3>4. QED
        BY <2>1, <3>1, <3>3
    <2>3. CASE e.id # id
      <3>1. u = v /\ OnlyTouches(r, q, e.id) /\ first = user
        BY <1>5, <2>1, <2>3, SucceededResult DEF Leads
      <3>2. QED
        BY <1>0, <2>1, <2>3, <3>1, KnownSame DEF OnlyTouches
    <2>4. QED
      BY <2>2, <2>3
  <1>6. CASE e.type = "HEADER"
    <2>1. q = OnStatusHeader(r) /\ first = user /\ u = v /\ more = lines
      BY <1>6, <1>s DEF Handle, Leads
    <2>2. QED
      BY <1>0, <2>1, HeaderResult, KnownSame
  <1>7. CASE e.type = "STATUSES" /\ \E S \in SUBSET CircuitIDs : e.paths \in [S -> {"early", "built"}]
    <2>1. q = OnStatusLines(r, e.paths) /\ first = user
      BY <1>7 DEF Handle
    <2>2. /\ u = v
          /\ id \in DOMAIN e.paths <=> v \in Listed
          /\ id \in DOMAIN e.paths => e.paths[id] = IF v = "built" THEN "built" ELSE "early"
      BY <1>7 DEF Leads
    <2>3. PICK S \in SUBSET CircuitIDs : e.paths \in [S -> {"early", "built"}]
      BY <1>7
    <2>4. DOMAIN e.paths = S
      BY <2>3
    <2>5. /\ q.circuitStatusCleanup = r.circuitStatusCleanup
          /\ IF r.currentlyReceivingCircuitStatuses /\ id \in S
             THEN ListedEffect(r, q, id, e.paths[id])
             ELSE q.circuits[id] = r.circuits[id] /\ q.file[id] = r.file[id]
      BY <2>1, <2>3, StatusLinesResult
    <2>6. CASE r.currentlyReceivingCircuitStatuses /\ id \in S /\ r.circuitStatusCleanup
      <3>1. Removed(r, q, id) /\ q.circuitStatusCleanup
        BY <2>5, <2>6 DEF ListedEffect
      <3> DEFINE unfinished == ListsUnfinished(e, id)
      <3>2. v \in Listed /\ (unfinished <=> v # "built") /\ unfinished \in BOOLEAN
        BY <1>7, <2>2, <2>4, <2>6 DEF ListsUnfinished
      <3>3. more = LinesThen(r, q, id, lines, unfinished)
        OBVIOUS
      <3> HIDE DEF unfinished
      <3>4. Known(q, id, u, user, after, more)
        BY <1>0, <2>2, <3>1, <3>2, <3>3, KnownRemoved
      <3>5. QED
        BY <2>1, <3>4
    <2>7. CASE r.currentlyReceivingCircuitStatuses /\ id \in S /\ ~r.circuitStatusCleanup
      <3>1. Added(r, q, id, e.paths[id])
        BY <2>5, <2>7 DEF ListedEffect
      <3>2. v \in Listed /\ e.paths[id] = IF v = "built" THEN "built" ELSE "early"
        BY <2>2, <2>4, <2>7
      <3>3. Known(q, id, v, user, after, lines)
        BY <1>0, <2>7, <3>1, <3>2, KnownAdded
      <3>4. more = lines
        BY <1>s, <3>1 DEF Added
      <3>5. QED
        BY <2>1, <2>2, <3>3, <3>4
    <2>8. CASE ~(r.currentlyReceivingCircuitStatuses /\ id \in S)
      <3>1. q.circuits[id] = r.circuits[id] /\ q.file[id] = r.file[id]
        BY <2>5, <2>8
      <3>2. QED
        BY <1>0, <1>s, <2>1, <2>2, <2>5, <3>1, KnownSame
    <2>9. QED
      BY <2>6, <2>7, <2>8
  <1>8. QED
    BY <1>1, <1>2, <1>3, <1>4, <1>5, <1>6, <1>7, EventCases

-----------------------------------------------------------------------------
(* Every step keeps the invariant                                          *)

LEMMA SendsOne ==
    ASSUME TypeOK, NEW e \in Event, Sends(<<e>>)
    PROVE  events' = IF torWatches THEN Append(events, e) ELSE events
  <1>1. events \in Seq(Event)
    BY DEF TypeOK
  <1>2. events \o <<e>> = Append(events, e)
    BY <1>1, AppendIsConcat
  <1>3. QED
    BY <1>2 DEF Sends

LEMMA SendsTwo ==
    ASSUME TypeOK, NEW d \in Event, NEW e \in Event, Sends(<<d, e>>)
    PROVE  events' = IF torWatches THEN Append(Append(events, d), e) ELSE events
  <1>1. events \in Seq(Event)
    BY DEF TypeOK
  <1>2. Append(events, d) = events \o <<d>> /\ Append(events, d) \in Seq(Event)
    BY <1>1, AppendIsConcat, AppendProperties
  <1>3. Append(Append(events, d), e) = Append(events, d) \o <<e>>
    BY <1>2, AppendIsConcat
  <1>4. <<d>> \in Seq(Event) /\ <<e>> \in Seq(Event) /\ <<d>> \o <<e>> = <<d, e>>
    <2>1. <<d>> \in Seq(Event) /\ <<e>> \in Seq(Event)
      OBVIOUS
    <2>2. <<d>> \o <<e>> = <<d, e>>
      <3>1. Append(<<d>>, e) = <<d>> \o <<e>>
        BY <2>1, AppendIsConcat
      <3>2. Append(<<d>>, e) = <<d, e>>
        <4>1. Len(<<d>>) = 1 /\ <<d>>[1] = d
          OBVIOUS
        <4> DEFINE s == Append(<<d>>, e)
                   t == <<d, e>>
        <4>2. s \in Seq(Event) /\ Len(s) = 2 /\ s[1] = d /\ s[2] = e
          BY <2>1, <4>1, AppendProperties
        <4>3. t \in Seq(Event) /\ Len(t) = 2 /\ t[1] = d /\ t[2] = e
          OBVIOUS
        <4> HIDE DEF s, t
        <4>4. \A i \in 1..2 : i = 1 \/ i = 2
          OBVIOUS
        <4>5. s = t
          BY <4>2, <4>3, <4>4, SeqEqual
        <4>6. QED
          BY <4>5 DEF s, t
      <3>3. QED
        BY <3>1, <3>2
    <2>3. QED
      BY <2>1, <2>2
  <1>5. (events \o <<d>>) \o <<e>> = events \o (<<d>> \o <<e>>)
    BY <1>1, <1>4, ConcatAssociative
  <1>6. QED
    BY <1>2, <1>3, <1>4, <1>5 DEF Sends

LEMMA CircuitEventType ==
    ASSUME NEW type \in {"LAUNCHED", "EXTENDED", "BUILT", "FAILED", "CLOSED"}, NEW id \in CircuitIDs
    PROVE  CircuitEvent(type, id) \in Event
  BY DEF CircuitEvent, Event

\* What Tor lists.
ListNow == StatusLines([id \in Open |-> IF torCircuits[id] = "built" THEN "built" ELSE "early"])

LEMMA ListNowType ==
    ASSUME TypeOK
    PROVE  ListNow \in Event /\ StatusHeader \in Event
  <1>1. Open \in SUBSET CircuitIDs
    BY DEF Open
  <1> DEFINE paths == [id \in Open |-> IF torCircuits[id] = "built" THEN "built" ELSE "early"]
  <1>2. paths \in [Open -> {"early", "built"}]
    OBVIOUS
  <1> HIDE DEF paths
  <1>3. StatusLines(paths) \in {StatusLines(p) : p \in UNION {[S -> {"early", "built"}] : S \in SUBSET CircuitIDs}}
    BY <1>1, <1>2
  <1>4. QED
    BY <1>3 DEF ListNow, paths, Event

LEMMA InitInv == Init => RecorderIInv
  <1> SUFFICES ASSUME Init PROVE RecorderIInv
    OBVIOUS
  <1>1. <<SetEvents, GetCircuitStatus>> \in Seq(Command)
    BY DEF Command
  <1>2. \A S : <<>> \in Seq(S)
    OBVIOUS
  <1> DEFINE C == <<SetEvents, GetCircuitStatus>>
             E == <<>>
  <1>3. C \in Seq(Command) /\ E \in Seq(Record) /\ E \in Seq(Event)
    BY <1>1, <1>2
  <1>4. /\ recorder = [circuits |-> [id \in CircuitIDs |-> NoCircuit],
                       file |-> [id \in CircuitIDs |-> E],
                       commands |-> C,
                       waitingCircuitStatusResponse |-> TRUE,
                       currentlyReceivingCircuitStatuses |-> FALSE,
                       circuitStatusCleanup |-> FALSE]
        /\ phase \in {"recording", "late"} /\ events = E
        /\ torCircuits = [id \in CircuitIDs |-> "unused"]
        /\ torWatches = FALSE /\ existing = {} /\ disowned = {}
        /\ swept = [id \in CircuitIDs |-> {}]
        /\ served = [id \in CircuitIDs |-> NoUser]
    BY DEF Init
  <1>5. \A i \in DOMAIN E : FALSE
    OBVIOUS
  <1>6. Len(E) = 0
    OBVIOUS
  <1> HIDE DEF C, E
  <1>7. recorder \in RecorderState
    BY <1>3, <1>4 DEF RecorderState
  <1>8. TypeOK
    BY <1>3, <1>4, <1>7 DEF TypeOK
  <1>9. Unwatched
    BY <1>4 DEF Unwatched, E
  <1>10. ASSUME NEW id \in CircuitIDs
         PROVE  Told(events, id, "unused", torCircuits[id])
                /\ Known(recorder, id, "unused", served[id], disowned, swept[id])
    <2>1. Told(events, id, "unused", torCircuits[id])
      BY <1>4, <1>6, ToldNothing DEF Status
    <2>2. ~Tracked(recorder, id) /\ recorder.file[id] = E /\ served[id] = NoUser /\ swept[id] = {}
      BY <1>4 DEF Tracked
    <2>3. QED
      BY <1>5, <2>1, <2>2 DEF Known, WrittenOnce
  <1>11. FollowsTor
    BY <1>4, <1>10 DEF FollowsTor, Status
  <1>12. QED
    BY <1>8, <1>9, <1>11 DEF RecorderIInv

LEMMA DeliverInv ==
    ASSUME RecorderIInv, Deliver
    PROVE  RecorderIInv'
  <1> DEFINE e == Head(events)
  <1>1. TypeOK /\ FollowsTor /\ torWatches
    BY DEF RecorderIInv, Unwatched, Deliver
  <1>2. events \in Seq(Event) /\ events # <<>> /\ recorder \in RecorderState
    BY <1>1 DEF TypeOK, Deliver
  <1>3. e \in Event /\ Tail(events) \in Seq(Event)
    BY <1>2, HeadTailProperties
  <1> HIDE DEF e
  <1>4. /\ phase # "done" /\ recorder' = Handle(recorder, e) /\ events' = Tail(events)
        /\ served' = IF e.type = "SUCCEEDED" /\ served[e.id] = NoUser
                     THEN [served EXCEPT ![e.id] = e.user] ELSE served
        /\ disowned' = disowned \cup {id \in CircuitIDs :
                         \E i \in DOMAIN recorder'.commands : recorder'.commands[i] = CloseCircuit(id)}
        /\ swept' = [id \in CircuitIDs |->
                       IF ListsUnfinished(e, id) /\ recorder'.file[id] # recorder.file[id]
                       THEN swept[id] \cup {Len(recorder'.file[id])} ELSE swept[id]]
        /\ UNCHANGED <<phase, torCircuits, torWatches, existing>>
    BY DEF Deliver, e
  <1>5. recorder' \in RecorderState
    BY <1>2, <1>3, <1>4, HandleType
  <1>6. e.type = "SUCCEEDED" => e.id \in CircuitIDs /\ e.user \in Users \cup {NoUser}
    BY <1>3, EventCases
  <1>7. TypeOK'
    <2>1. served' \in [CircuitIDs -> Users \cup {NoUser}]
      BY <1>1, <1>4, <1>6 DEF TypeOK
    <2>2. disowned' \subseteq CircuitIDs
      BY <1>1, <1>4 DEF TypeOK
    <2>3. swept' \in [CircuitIDs -> SUBSET Nat]
      <3>1. \A id \in CircuitIDs : Len(recorder'.file[id]) \in Nat
        BY <1>5, RecorderFields, LenProperties
      <3>2. QED
        BY <1>1, <1>4, <3>1 DEF TypeOK
    <2>4. QED
      BY <1>1, <1>3, <1>4, <1>5, <2>1, <2>2, <2>3 DEF TypeOK
  <1>8. ASSUME NEW id \in CircuitIDs
        PROVE  \E u \in Status : /\ Told(events', id, u, torCircuits'[id])
                                 /\ Known(recorder', id, u, served'[id], disowned', swept'[id])
    <2>1. PICK v \in Status : /\ Told(events, id, v, torCircuits[id])
                              /\ Known(recorder, id, v, served[id], disowned, swept[id])
      BY <1>1, <1>4 DEF FollowsTor
    <2>2. PICK u \in Status : Leads(v, e, id, u) /\ Told(Tail(events), id, u, torCircuits[id])
      BY <1>2, <2>1, ToldFirst DEF e
    <2>3. disowned \subseteq disowned'
      BY <1>4
    <2>4. e.type = "SUCCEEDED" /\ e.id = id /\ ~Tracked(recorder, id) => id \in disowned'
      <3>1. SUFFICES ASSUME e.type = "SUCCEEDED", e.id = id, ~Tracked(recorder, id)
                     PROVE  id \in disowned'
        OBVIOUS
      <3>2. recorder' = OnStreamSucceeded(recorder, id, e.user)
        BY <1>4, <3>1 DEF Handle
      <3>3. \E i \in DOMAIN recorder'.commands : recorder'.commands[i] = CloseCircuit(id)
        BY <1>2, <1>6, <3>1, <3>2, SucceededResult
      <3>4. QED
        BY <1>4, <3>3
    <2>5. served'[id] = IF e.type = "SUCCEEDED" /\ e.id = id /\ served[id] = NoUser THEN e.user
                        ELSE served[id]
      BY <1>1, <1>4, <1>6 DEF TypeOK
    <2>6. Known(recorder', id, u, served'[id], disowned', swept'[id])
      <3>1. recorder' = Handle(recorder, e)
        BY <1>4
      <3>2. /\ recorder \in RecorderState /\ e \in Event /\ v \in Status /\ u \in Status
            /\ Leads(v, e, id, u) /\ Known(recorder, id, v, served[id], disowned, swept[id])
        BY <1>2, <1>3, <2>1, <2>2
      <3> DEFINE first == IF e.type = "SUCCEEDED" /\ e.id = id /\ served[id] = NoUser THEN e.user
                          ELSE served[id]
      <3> DEFINE q == Handle(recorder, e)
                 more == LinesThen(recorder, q, id, swept[id], ListsUnfinished(e, id))
      <3>3. \A after : disowned \subseteq after
                       /\ (e.type = "SUCCEEDED" /\ e.id = id /\ ~Tracked(recorder, id) => id \in after)
                     => Known(q, id, u, first, after, more)
        BY <3>2, HandleKnown
      <3>4. more = swept'[id]
        BY <1>4, <3>1 DEF LinesThen
      <3> HIDE DEF first, q, more
      <3>5. Known(q, id, u, first, disowned', more)
        BY <2>3, <2>4, <3>3
      <3>6. QED
        BY <2>5, <3>1, <3>4, <3>5 DEF first, q
    <2>7. QED
      BY <1>4, <2>2, <2>6
  <1>9. FollowsTor'
    BY <1>4, <1>8 DEF FollowsTor
  <1>10. QED
    BY <1>1, <1>4, <1>7, <1>9 DEF RecorderIInv

\* The circuits, the file and what is known of Tor stay; the commands need not.
SameRecords ==
    /\ recorder'.circuits = recorder.circuits /\ recorder'.file = recorder.file
    /\ recorder.circuitStatusCleanup => recorder'.circuitStatusCleanup
    /\ UNCHANGED <<served, disowned, swept>>

LEMMA FollowsStill ==
    ASSUME RecorderIInv, phase # "done", phase' # "done", SameRecords,
           \A id \in CircuitIDs : \A v \in Status :
               Told(events, id, v, torCircuits[id]) => Told(events', id, v, torCircuits'[id])
    PROVE  FollowsTor'
  <1>1. ASSUME NEW id \in CircuitIDs
        PROVE  \E v \in Status : /\ Told(events', id, v, torCircuits'[id])
                                 /\ Known(recorder', id, v, served'[id], disowned', swept'[id])
    <2>1. PICK v \in Status : /\ Told(events, id, v, torCircuits[id])
                              /\ Known(recorder, id, v, served[id], disowned, swept[id])
      BY DEF RecorderIInv, FollowsTor
    <2>2. Known(recorder', id, v, served'[id], disowned', swept'[id])
      BY <2>1, KnownSame DEF SameRecords
    <2>3. QED
      BY <2>1, <2>2
  <1>2. QED
    BY <1>1 DEF FollowsTor

LEMMA FollowsUnwatched ==
    ASSUME RecorderIInv, ~torWatches, phase' # "done", SameRecords, events' = events,
           torCircuits' \in [CircuitIDs -> Status]
    PROVE  Unwatched' /\ FollowsTor'
  <1>1. Unwatched /\ Unwatched'
    BY DEF RecorderIInv, Unwatched, SameRecords
  <1>2. ASSUME NEW id \in CircuitIDs
        PROVE  /\ Told(events', id, torCircuits'[id], torCircuits'[id])
               /\ Known(recorder', id, torCircuits'[id], served'[id], disowned', swept'[id])
    <2>1. torCircuits'[id] \in Status
      OBVIOUS
    <2>2. /\ ~Tracked(recorder', id) /\ recorder'.file[id] = <<>>
          /\ served'[id] = NoUser /\ swept'[id] = {}
      BY <1>1 DEF Unwatched, Tracked
    <2>3. Len(events') = 0 /\ DOMAIN recorder'.file[id] = {}
      BY <1>1, <2>2 DEF Unwatched
    <2>4. QED
      BY <2>1, <2>2, <2>3, ToldNothing DEF Known, WrittenOnce
  <1>3. QED
    BY <1>1, <1>2 DEF FollowsTor

\* Tor moves circuit id, and tells so.
LEMMA MovesFollow ==
    ASSUME RecorderIInv, NEW id \in CircuitIDs, NEW to \in Status,
           NEW type \in {"LAUNCHED", "EXTENDED", "BUILT", "FAILED", "CLOSED"},
           Leads(torCircuits[id], CircuitEvent(type, id), id, to),
           torCircuits' = [torCircuits EXCEPT ![id] = to], Sends(<<CircuitEvent(type, id)>>),
           phase # "done", phase' # "done", torWatches' = torWatches, SameRecords
    PROVE  (~torWatches' => Unwatched') /\ FollowsTor' /\ events' \in Seq(Event)
  <1> DEFINE e == CircuitEvent(type, id)
  <1>1. TypeOK /\ events \in Seq(Event) /\ torCircuits \in [CircuitIDs -> Status]
    BY DEF RecorderIInv, TypeOK, Status
  <1>2. e \in Event
    BY CircuitEventType
  <1>3. events' = IF torWatches THEN Append(events, e) ELSE events
    BY <1>1, <1>2, SendsOne
  <1>4. events' \in Seq(Event)
    BY <1>1, <1>2, <1>3, AppendProperties
  <1>5. CASE ~torWatches
    <2>1. torCircuits' \in [CircuitIDs -> Status]
      BY <1>1
    <2>2. QED
      BY <1>3, <1>4, <1>5, <2>1, FollowsUnwatched
  <1>6. CASE torWatches
    <2>1. ASSUME NEW k \in CircuitIDs PROVE Leads(torCircuits[k], e, k, torCircuits'[k])
      <3>1. CASE k = id
        BY <1>1, <3>1
      <3>2. CASE k # id
        <4>1. torCircuits'[k] = torCircuits[k]
          BY <1>1, <3>2
        <4>2. e.id = id /\ e.type # "STATUSES" /\ e.type # "HEADER"
          BY DEF CircuitEvent
        <4> HIDE DEF e
        <4>3. QED
          BY <3>2, <4>1, <4>2 DEF Leads
      <3>3. QED
        BY <3>1, <3>2
    <2> HIDE DEF e
    <2>2. ASSUME NEW k \in CircuitIDs, NEW v \in Status, Told(events, k, v, torCircuits[k])
          PROVE  Told(events', k, v, torCircuits'[k])
      <3>1. torCircuits'[k] \in Status /\ events' = Append(events, e)
        BY <1>1, <1>3, <1>6
      <3>2. Leads(torCircuits[k], e, k, torCircuits'[k])
        BY <2>1
      <3>3. QED
        BY <1>1, <1>2, <2>2, <3>1, <3>2, ToldMore
    <2>3. FollowsTor'
      BY <2>2, FollowsStill
    <2>4. QED
      BY <1>4, <1>6, <2>3
  <1>7. QED
    BY <1>5, <1>6

LEMMA TakesResult ==
    ASSUME TypeOK, NEW command, Takes(command)
    PROVE  /\ recorder' \in RecorderState /\ SameRecords
           /\ recorder'.currentlyReceivingCircuitStatuses = recorder.currentlyReceivingCircuitStatuses
           /\ phase # "done" /\ phase' = phase /\ UNCHANGED <<served, disowned, swept>>
  <1>1. recorder \in RecorderState /\ recorder.commands \in Seq(Command) /\ recorder.commands # <<>>
    BY RecorderFields DEF TypeOK, Takes
  <1> DEFINE rest == Tail(recorder.commands)
  <1>2. rest \in Seq(Command)
    BY <1>1, HeadTailProperties
  <1>3. recorder' = [recorder EXCEPT !.commands = rest]
    BY DEF Takes
  <1> HIDE DEF rest
  <1>4. /\ recorder' \in RecorderState
        /\ recorder'.circuits = recorder.circuits /\ recorder'.file = recorder.file
        /\ recorder'.circuitStatusCleanup = recorder.circuitStatusCleanup
        /\ recorder'.currentlyReceivingCircuitStatuses = recorder.currentlyReceivingCircuitStatuses
    BY <1>1, <1>2, <1>3 DEF RecorderState
  <1>5. phase # "done" /\ phase' = phase /\ UNCHANGED <<served, disowned, swept>>
    BY DEF Takes
  <1>6. SameRecords
    BY <1>4, <1>5 DEF SameRecords
  <1>7. QED
    BY <1>4, <1>5, <1>6

LEMMA CleanupResult ==
    ASSUME TypeOK, Cleanup
    PROVE  /\ recorder' \in RecorderState /\ SameRecords
           /\ recorder'.currentlyReceivingCircuitStatuses = recorder.currentlyReceivingCircuitStatuses
  <1>1. recorder \in RecorderState /\ recorder.commands \in Seq(Command) /\ GetCircuitStatus \in Command
    BY RecorderFields DEF TypeOK, Command
  <1> DEFINE more == Append(recorder.commands, GetCircuitStatus)
  <1>2. more \in Seq(Command)
    BY <1>1, AppendProperties
  <1>3. recorder' = [recorder EXCEPT !.circuitStatusCleanup = TRUE,
                                     !.waitingCircuitStatusResponse = TRUE,
                                     !.commands = more]
    BY DEF Cleanup, GetAllCircuitStatusCleanup
  <1> HIDE DEF more
  <1>4. /\ recorder' \in RecorderState
        /\ recorder'.circuits = recorder.circuits /\ recorder'.file = recorder.file
        /\ recorder'.circuitStatusCleanup
        /\ recorder'.currentlyReceivingCircuitStatuses = recorder.currentlyReceivingCircuitStatuses
    BY <1>1, <1>2, <1>3 DEF RecorderState
  <1>5. SameRecords
    BY <1>4 DEF SameRecords, Cleanup
  <1>6. QED
    BY <1>4, <1>5

LEMMA MovesInv ==
    ASSUME RecorderIInv, NEW id \in CircuitIDs, NEW from, NEW to \in Status,
           NEW type \in {"LAUNCHED", "EXTENDED", "BUILT", "FAILED", "CLOSED"},
           \A v \in from : Leads(v, CircuitEvent(type, id), id, to),
           Moves(id, from, to, type)
    PROVE  RecorderIInv'
  <1>1. /\ torCircuits' = [torCircuits EXCEPT ![id] = to] /\ Sends(<<CircuitEvent(type, id)>>)
        /\ phase # "done" /\ UNCHANGED <<recorder, phase, torWatches, existing, served, disowned, swept>>
        /\ Leads(torCircuits[id], CircuitEvent(type, id), id, to)
    BY DEF Moves, HasRoom
  <1>2. SameRecords
    BY <1>1 DEF SameRecords
  <1>3. (~torWatches' => Unwatched') /\ FollowsTor' /\ events' \in Seq(Event)
    BY <1>1, <1>2, MovesFollow
  <1>4. TypeOK'
    BY <1>1, <1>3 DEF TypeOK, RecorderIInv, Status
  <1>5. QED
    BY <1>3, <1>4 DEF RecorderIInv

LEMMA ClosesInv ==
    ASSUME RecorderIInv, NEW id \in CircuitIDs, TorClosesOnRequest(id)
    PROVE  RecorderIInv'
  <1>1. TypeOK
    BY DEF RecorderIInv
  <1>2. /\ recorder' \in RecorderState /\ SameRecords /\ phase # "done" /\ phase' # "done"
        /\ UNCHANGED <<phase, served, disowned, swept, torWatches, existing>>
    BY <1>1, TakesResult DEF TorClosesOnRequest
  <1>3. CASE torCircuits[id] = "built"
    <2>1. torCircuits' = [torCircuits EXCEPT ![id] = "closed"] /\ Sends(<<CircuitEvent("CLOSED", id)>>)
      BY <1>3 DEF TorClosesOnRequest
    <2>2. Leads("built", CircuitEvent("CLOSED", id), id, "closed")
      BY DEF Leads, CircuitEvent
    <2>3. (~torWatches' => Unwatched') /\ FollowsTor' /\ events' \in Seq(Event)
      BY <1>2, <1>3, <2>1, <2>2, MovesFollow DEF Status
    <2>4. TypeOK'
      BY <1>1, <1>2, <2>1, <2>3 DEF TypeOK
    <2>5. QED
      BY <2>3, <2>4 DEF RecorderIInv
  <1>4. CASE torCircuits[id] # "built"
    <2>1. UNCHANGED <<events, torCircuits>>
      BY <1>4 DEF TorClosesOnRequest
    <2>2. FollowsTor'
      BY <1>2, <2>1, FollowsStill
    <2>3. TypeOK'
      BY <1>1, <1>2, <2>1 DEF TypeOK
    <2>4. ~torWatches' => Unwatched'
      BY <1>2, <2>1 DEF RecorderIInv, Unwatched, SameRecords
    <2>5. QED
      BY <2>2, <2>3, <2>4 DEF RecorderIInv
  <1>5. QED
    BY <1>3, <1>4

LEMMA ListsInv ==
    ASSUME RecorderIInv, TorListsCircuits
    PROVE  RecorderIInv'
  <1>1. TypeOK /\ events \in Seq(Event) /\ ListNow \in Event /\ StatusHeader \in Event
    BY ListNowType DEF RecorderIInv, TypeOK
  <1>2. /\ recorder' \in RecorderState /\ SameRecords /\ phase # "done" /\ phase' # "done"
        /\ UNCHANGED <<phase, served, disowned, swept, torCircuits, torWatches, existing>>
    BY <1>1, TakesResult DEF TorListsCircuits
  <1>3. Sends(<<StatusHeader, ListNow>>)
    BY DEF TorListsCircuits, ListNow
  <1>4. events' = IF torWatches THEN Append(Append(events, StatusHeader), ListNow) ELSE events
    BY <1>1, <1>3, SendsTwo
  <1>5. Append(events, StatusHeader) \in Seq(Event) /\ Append(Append(events, StatusHeader), ListNow) \in Seq(Event)
    BY <1>1, AppendProperties
  <1>6. events' \in Seq(Event)
    BY <1>1, <1>4, <1>5
  <1>7. TypeOK'
    BY <1>1, <1>2, <1>6 DEF TypeOK
  <1>8. ASSUME NEW id \in CircuitIDs, NEW v \in Status, Told(events, id, v, torCircuits[id])
        PROVE  Told(events', id, v, torCircuits'[id])
    <2> DEFINE w == torCircuits[id]
    <2>1. w \in Status /\ torCircuits'[id] = w
      BY <1>1, <1>2 DEF TypeOK, Status
    <2>2. Leads(w, StatusHeader, id, w)
      BY DEF Leads, StatusHeader
    <2>3. Leads(w, ListNow, id, w)
      <3> DEFINE paths == [k \in Open |-> IF torCircuits[k] = "built" THEN "built" ELSE "early"]
      <3>1. id \in DOMAIN paths <=> w \in Listed
        BY DEF Open, Listed
      <3>2. id \in DOMAIN paths => paths[id] = IF w = "built" THEN "built" ELSE "early"
        OBVIOUS
      <3>3. ListNow = [type |-> "STATUSES", paths |-> paths]
        BY DEF ListNow, StatusLines
      <3> HIDE DEF paths, w
      <3>4. ListNow.type = "STATUSES" /\ ListNow.paths = paths
        BY <3>3
      <3>5. QED
        BY <3>1, <3>2, <3>4 DEF Leads
    <2> HIDE DEF w
    <2>4. Told(events, id, v, w)
      BY <1>8 DEF w
    <2>5. Told(Append(events, StatusHeader), id, v, w)
      BY <1>1, <2>1, <2>2, <2>4, ToldMore
    <2>6. Told(Append(Append(events, StatusHeader), ListNow), id, v, w)
      BY <1>1, <1>5, <2>1, <2>3, <2>5, ToldMore
    <2>7. QED
      BY <1>4, <2>1, <2>4, <2>6
  <1>9. FollowsTor'
    BY <1>2, <1>8, FollowsStill
  <1>10. ~torWatches' => Unwatched'
    BY <1>2, <1>4 DEF RecorderIInv, Unwatched, SameRecords
  <1>11. QED
    BY <1>7, <1>9, <1>10 DEF RecorderIInv

LEMMA SucceedsInv ==
    ASSUME RecorderIInv, NEW id \in CircuitIDs, NEW user \in Users \cup {NoUser}, TorSucceeds(id, user)
    PROVE  RecorderIInv'
  <1> DEFINE e == StreamSucceeded(id, user)
  <1>1. TypeOK /\ events \in Seq(Event)
    BY DEF RecorderIInv, TypeOK
  <1>2. e \in Event /\ e.type = "SUCCEEDED" /\ e.id = id
    BY DEF Event, StreamSucceeded
  <1>3. /\ phase # "done" /\ torWatches /\ torCircuits[id] = "built" /\ Sends(<<e>>)
        /\ UNCHANGED <<recorder, phase, torCircuits, torWatches, existing, served, disowned, swept>>
    BY DEF TorSucceeds, HasRoom
  <1> HIDE DEF e
  <1>4. events' = Append(events, e)
    BY <1>1, <1>2, <1>3, SendsOne
  <1>5. events' \in Seq(Event)
    BY <1>1, <1>2, <1>4, AppendProperties
  <1>6. TypeOK'
    BY <1>1, <1>3, <1>5 DEF TypeOK
  <1>7. ASSUME NEW k \in CircuitIDs, NEW v \in Status, Told(events, k, v, torCircuits[k])
        PROVE  Told(events', k, v, torCircuits'[k])
    <2>1. torCircuits[k] \in Status /\ torCircuits'[k] = torCircuits[k]
      BY <1>1, <1>3 DEF TypeOK, Status
    <2>2. Leads(torCircuits[k], e, k, torCircuits[k])
      BY <1>2, <1>3 DEF Leads
    <2>3. Told(Append(events, e), k, v, torCircuits[k])
      BY <1>1, <1>2, <1>7, <2>1, <2>2, ToldMore
    <2>4. QED
      BY <1>4, <2>1, <2>3
  <1>8. FollowsTor'
    BY <1>3, <1>7, FollowsStill DEF SameRecords
  <1>9. QED
    BY <1>3, <1>6, <1>8 DEF RecorderIInv

LEMMA StopInv ==
    ASSUME RecorderIInv, Stop
    PROVE  RecorderIInv'
  <1>1. TypeOK /\ recorder \in RecorderState /\ phase # "done" /\ phase' = "done"
    BY DEF RecorderIInv, TypeOK, Stop
  <1>2. recorder' \in RecorderState /\ \A id \in CircuitIDs : Removed(recorder, recorder', id)
    BY <1>1, LeftoversResult DEF Stop
  <1>3. ASSUME NEW id \in CircuitIDs
        PROVE  Complete(recorder', id, served'[id], disowned', swept'[id])
    <2>1. PICK v \in Status : Known(recorder, id, v, served[id], disowned, swept[id])
      BY <1>1 DEF RecorderIInv, FollowsTor
    <2>2. /\ WrittenOnce(recorder', id, swept[id])
          /\ served[id] # NoUser => Written(recorder', id, served[id]) \/ id \in disowned
      <3>1. swept[id] = LinesThen(recorder, recorder', id, swept[id], FALSE)
        BY DEF LinesThen
      <3>2. QED
        BY <1>1, <1>2, <2>1, <3>1, RemovedWrites
    <2>3. ~Tracked(recorder', id)
      BY <1>2 DEF Removed
    <2>4. served' = served /\ disowned' = disowned /\ swept' = swept
      BY DEF Stop
    <2>5. QED
      BY <2>2, <2>3, <2>4 DEF Complete
  <1>4. FollowsTor'
    BY <1>1, <1>3 DEF FollowsTor
  <1>5. TypeOK'
    BY <1>1, <1>2 DEF TypeOK, Stop
  <1>6. ~torWatches' => Unwatched'
    <2>1. SUFFICES ASSUME ~torWatches PROVE Unwatched'
      BY DEF Stop
    <2>2. Unwatched
      BY <2>1 DEF RecorderIInv
    <2>3. ASSUME NEW id \in CircuitIDs
          PROVE  recorder'.circuits[id] = NoCircuit /\ recorder'.file[id] = <<>>
      BY <1>2, <2>2 DEF Unwatched, Removed, Tracked
    <2>4. QED
      BY <2>2, <2>3 DEF Unwatched, Stop
  <1>7. QED
    BY <1>4, <1>5, <1>6 DEF RecorderIInv

LEMMA NextInv == RecorderIInv /\ [Next]_vars => RecorderIInv'
  <1> SUFFICES ASSUME RecorderIInv, [Next]_vars PROVE RecorderIInv'
    OBVIOUS
  <1> USE DEF RecorderIInv
  <1>1. CASE Deliver
    <2> HIDE DEF RecorderIInv
    <2>1. QED
      BY <1>1, DeliverInv
  <1>2. CASE Cleanup
    <2>1. recorder' \in RecorderState /\ SameRecords
      BY <1>2, CleanupResult
    <2>2. phase # "done" /\ phase' = "cleaning" /\ UNCHANGED <<events, torCircuits, torWatches, existing, served, disowned, swept>>
      BY <1>2 DEF Cleanup
    <2>3. FollowsTor'
      <3> HIDE DEF RecorderIInv
      <3>1. QED
        BY <2>1, <2>2, FollowsStill
    <2>4. TypeOK'
      BY <2>1, <2>2 DEF TypeOK
    <2>5. ~torWatches' => Unwatched'
      BY <2>1, <2>2 DEF Unwatched, SameRecords
    <2>6. QED
      BY <2>3, <2>4, <2>5
  <1>3. CASE Shutdown
    <2>1. /\ phase # "done" /\ phase' = "stopping"
          /\ UNCHANGED <<recorder, events, torCircuits, torWatches, existing, served, disowned, swept>>
      BY <1>3 DEF Shutdown
    <2>2. FollowsTor'
      <3> HIDE DEF RecorderIInv
      <3>1. QED
        BY <2>1, FollowsStill DEF SameRecords
    <2>3. TypeOK' /\ (~torWatches' => Unwatched')
      BY <2>1 DEF TypeOK, Unwatched
    <2>4. QED
      BY <2>2, <2>3
  <1>4. CASE Stop
    <2> HIDE DEF RecorderIInv
    <2>1. QED
      BY <1>4, StopInv
  <1>5. CASE TorWatches
    <2>1. recorder' \in RecorderState /\ SameRecords /\ phase # "done" /\ phase' = phase
      BY <1>5, TakesResult DEF TorWatches
    <2>2. /\ torWatches' = TRUE /\ existing' \subseteq CircuitIDs
          /\ UNCHANGED <<events, torCircuits, phase, served, disowned, swept>>
      BY <1>5 DEF TorWatches, Takes
    <2>3. FollowsTor'
      <3> HIDE DEF RecorderIInv
      <3>1. QED
        BY <2>1, <2>2, FollowsStill
    <2>4. TypeOK'
      BY <2>1, <2>2 DEF TypeOK
    <2>5. QED
      BY <2>2, <2>3, <2>4
  <1>6. CASE TorListsCircuits
    <2> HIDE DEF RecorderIInv
    <2>1. QED
      BY <1>6, ListsInv
  <1>7. CASE TorListsInOneLine
    <2>1. recorder' \in RecorderState /\ SameRecords /\ phase # "done" /\ phase' = phase
      BY <1>7, TakesResult DEF TorListsInOneLine
    <2>2. UNCHANGED <<events, torCircuits, torWatches, existing, phase, served, disowned, swept>>
      BY <1>7 DEF TorListsInOneLine, Takes
    <2>3. FollowsTor'
      <3> HIDE DEF RecorderIInv
      <3>1. QED
        BY <2>1, <2>2, FollowsStill
    <2>4. TypeOK'
      BY <2>1, <2>2 DEF TypeOK
    <2>5. ~torWatches' => Unwatched'
      BY <2>1, <2>2 DEF Unwatched, SameRecords
    <2>6. QED
      BY <2>3, <2>4, <2>5
  <1> HIDE DEF RecorderIInv
  <1>8. ASSUME NEW id \in CircuitIDs, TorClosesOnRequest(id) PROVE RecorderIInv'
    BY <1>8, ClosesInv
  <1>9. ASSUME NEW id \in CircuitIDs, TorLaunches(id) PROVE RecorderIInv'
    <2>1. Leads("unused", CircuitEvent("LAUNCHED", id), id, "launched")
      BY DEF Leads, CircuitEvent
    <2>2. QED
      BY <1>9, <2>1, MovesInv DEF TorLaunches, Status
  <1>10. ASSUME NEW id \in CircuitIDs, TorExtends(id) PROVE RecorderIInv'
    <2>1. \A v \in {"launched", "extended"} : Leads(v, CircuitEvent("EXTENDED", id), id, "extended")
      BY DEF Leads, CircuitEvent
    <2>2. QED
      BY <1>10, <2>1, MovesInv DEF TorExtends, Status
  <1>11. ASSUME NEW id \in CircuitIDs, TorBuilds(id) PROVE RecorderIInv'
    <2>1. Leads("extended", CircuitEvent("BUILT", id), id, "built")
      BY DEF Leads, CircuitEvent
    <2>2. QED
      BY <1>11, <2>1, MovesInv DEF TorBuilds, Status
  <1>12. ASSUME NEW id \in CircuitIDs, TorFails(id) PROVE RecorderIInv'
    <2>1. \A v \in {"launched", "extended"} : Leads(v, CircuitEvent("FAILED", id), id, "closed")
      BY DEF Leads, CircuitEvent
    <2>2. QED
      BY <1>12, <2>1, MovesInv DEF TorFails, Status
  <1>13. ASSUME NEW id \in CircuitIDs, TorCloses(id) PROVE RecorderIInv'
    <2>1. Leads("built", CircuitEvent("CLOSED", id), id, "closed")
      BY DEF Leads, CircuitEvent
    <2>2. QED
      BY <1>13, <2>1, MovesInv DEF TorCloses, Status
  <1>14. ASSUME NEW id \in CircuitIDs, NEW user \in Users \cup {NoUser}, TorSucceeds(id, user)
         PROVE  RecorderIInv'
    BY <1>14, SucceedsInv
  <1>15. CASE UNCHANGED vars
    <2>1. UNCHANGED <<recorder, phase, events, torCircuits, torWatches, existing, served, disowned, swept>>
      BY <1>15 DEF vars
    <2>2. TypeOK' /\ (~torWatches' => Unwatched')
      BY <2>1 DEF RecorderIInv, TypeOK, Unwatched
    <2>3. FollowsTor'
      BY <2>1 DEF RecorderIInv, FollowsTor
    <2>4. QED
      BY <2>2, <2>3 DEF RecorderIInv
  <1>16. QED
    BY <1>1, <1>2, <1>3, <1>4, <1>5, <1>6, <1>7, <1>8, <1>9, <1>10, <1>11, <1>12, <1>13, <1>14,
       <1>15 DEF Next

-----------------------------------------------------------------------------
(* What follows                                                            *)

LEMMA ServedFollows == RecorderIInv => ServedIsRecorded
  <1> SUFFICES ASSUME RecorderIInv, NEW id \in CircuitIDs, served[id] # NoUser, id \notin disowned
               PROVE  \/ recorder.circuits[id] = [path |-> "built", session |-> served[id]]
                      \/ Written(recorder, id, served[id])
    BY DEF ServedIsRecorded, Written
  <1>1. CASE phase = "done"
    BY <1>1 DEF RecorderIInv, FollowsTor, Complete
  <1>2. CASE phase # "done"
    <2>1. PICK v \in Status : Known(recorder, id, v, served[id], disowned, swept[id])
      BY <1>2 DEF RecorderIInv, FollowsTor
    <2>2. CASE Tracked(recorder, id)
      <3>1. recorder.circuits[id].path = "built" /\ recorder.circuits[id].session = served[id]
        BY <2>1, <2>2 DEF Known, Listed, EarlyLine
      <3>2. recorder.circuits[id] \in Circuit
        BY <2>2, RecorderFields DEF RecorderIInv, TypeOK
      <3>3. QED
        BY <3>1, <3>2 DEF Circuit
    <2>3. CASE ~Tracked(recorder, id)
      BY <2>1, <2>3 DEF Known
    <2>4. QED
      BY <2>2, <2>3
  <1>3. QED
    BY <1>1, <1>2

LEMMA CatchUpFollows == RecorderIInv => TableCatchesUp
  <1> SUFFICES ASSUME RecorderIInv, phase # "done", NEW id \in CircuitIDs, Tracked(recorder, id)
               PROVE  /\ torCircuits[id] = "closed" => Pending({"FAILED", "CLOSED"}, id)
                      /\ torCircuits[id] = "built" =>
                            recorder.circuits[id].path = "built" \/ Pending({"BUILT"}, id)
    BY DEF TableCatchesUp
  <1>1. PICK v \in Status : /\ Told(events, id, v, torCircuits[id])
                            /\ Known(recorder, id, v, served[id], disowned, swept[id])
    BY DEF RecorderIInv, FollowsTor
  <1>2. events \in Seq(Event)
    BY DEF RecorderIInv, TypeOK
  <1>3. ASSUME torCircuits[id] = "closed" PROVE Pending({"FAILED", "CLOSED"}, id)
    <2>1. v # "closed"
      BY <1>1 DEF Known, Listed
    <2>2. PICK i \in DOMAIN events : \E u \in Status : u # "closed" /\ Leads(u, events[i], id, "closed")
      BY <1>1, <1>2, <1>3, <2>1, ToldReached
    <2>3. events[i].type \in {"FAILED", "CLOSED"} /\ events[i].id = id
      BY <2>2 DEF Leads
    <2>4. QED
      BY <2>3 DEF Pending
  <1>4. ASSUME torCircuits[id] = "built", recorder.circuits[id].path # "built" PROVE Pending({"BUILT"}, id)
    <2>1. v # "built"
      BY <1>1, <1>4 DEF Known
    <2>2. PICK i \in DOMAIN events : \E u \in Status : u # "built" /\ Leads(u, events[i], id, "built")
      BY <1>1, <1>2, <1>4, <2>1, ToldReached
    <2>3. events[i].type \in {"BUILT"} /\ events[i].id = id
      BY <2>2 DEF Leads
    <2>4. QED
      BY <2>3 DEF Pending
  <1>5. QED
    BY <1>3, <1>4

LEMMA OnceFollows == RecorderIInv => WrittenOnceUnlessSwept
  <1> SUFFICES ASSUME RecorderIInv, NEW id \in CircuitIDs, NEW i \in DOMAIN recorder.file[id],
                      i < Len(recorder.file[id])
               PROVE  /\ i \in swept[id]
                      /\ recorder.file[id][i] = [path |-> "early", session |-> NoUser]
    BY DEF WrittenOnceUnlessSwept
  <1>1. WrittenOnce(recorder, id, swept[id])
    BY DEF RecorderIInv, FollowsTor, Known, Complete
  <1>2. recorder.file[id] \in Seq(Record)
    BY RecorderFields DEF RecorderIInv, TypeOK
  <1>3. Len(recorder.file[id]) \in Nat /\ recorder.file[id][i] \in Record
    BY <1>2, LenProperties, ElementOfSeq
  <1>4. i \in swept[id] /\ EarlyLine(recorder.file[id][i])
    BY <1>1, <1>3 DEF WrittenOnce
  <1>5. QED
    BY <1>3, <1>4 DEF Record, Path, EarlyLine

\* Only the lines of a list end its reception.
LEMMA ReceptionEnds ==
    ASSUME NEW r \in RecorderState, NEW e \in Event, NEW q, q = Handle(r, e),
           r.currentlyReceivingCircuitStatuses, ~q.currentlyReceivingCircuitStatuses
    PROVE  e.type = "STATUSES"
  <1>1. CASE e.type = "LAUNCHED" /\ e.id \in CircuitIDs
    BY <1>1, StartedResult DEF Handle, OnlyTouches
  <1>2. CASE e.type = "EXTENDED" /\ e.id \in CircuitIDs
    BY <1>2, StartedResult DEF Handle, OnlyTouches
  <1>3. CASE e.type = "BUILT" /\ e.id \in CircuitIDs
    BY <1>3, BuiltResult DEF Handle, OnlyTouches, Path
  <1>4. CASE e.type \in {"FAILED", "CLOSED"} /\ e.id \in CircuitIDs
    BY <1>4, GoneResult DEF Handle, OnlyTouches
  <1>5. CASE e.type = "SUCCEEDED" /\ e.id \in CircuitIDs /\ e.user \in Users \cup {NoUser}
    BY <1>5, SucceededResult DEF Handle, OnlyTouches
  <1>6. CASE e.type = "HEADER"
    <2>1. q = OnStatusHeader(r)
      BY <1>6 DEF Handle
    <2>2. q.currentlyReceivingCircuitStatuses = TRUE
      BY <2>1 DEF OnStatusHeader, RecorderState
    <2>3. QED
      BY <2>2
  <1>7. QED
    BY <1>1, <1>2, <1>3, <1>4, <1>5, <1>6, EventCases

LEMMA CleanupFollows ==
    ASSUME RecorderIInv, [Next]_vars, recorder.circuitStatusCleanup,
           recorder.currentlyReceivingCircuitStatuses, ~recorder'.currentlyReceivingCircuitStatuses,
           NEW id \in CircuitIDs
    PROVE  ~Tracked(recorder', id)
  <1> DEFINE e == Head(events)
  <1>1. TypeOK /\ recorder \in RecorderState
    BY DEF RecorderIInv, TypeOK
  <1>2. \A command : ~Takes(command)
    BY <1>1, TakesResult
  <1>3. ~Cleanup
    BY <1>1, CleanupResult
  <1>4. CASE Stop
    <2>1. Removed(recorder, recorder', id)
      BY <1>1, <1>4, LeftoversResult DEF Stop
    <2>2. QED
      BY <2>1 DEF Removed
  <1>5. CASE Deliver
    <2>1. /\ events \in Seq(Event) /\ events # <<>> /\ phase # "done"
          /\ recorder' = Handle(recorder, e)
      BY <1>1, <1>5 DEF TypeOK, Deliver
    <2>2. e \in Event
      BY <2>1, HeadTailProperties
    <2>3. e.type = "STATUSES"
      <3> HIDE DEF e
      <3>1. QED
        BY <1>1, <2>1, <2>2, ReceptionEnds
    <2>4. PICK v \in Status : /\ Told(events, id, v, torCircuits[id])
                              /\ Known(recorder, id, v, served[id], disowned, swept[id])
      BY <2>1 DEF RecorderIInv, FollowsTor
    <2>5. PICK u \in Status : Leads(v, e, id, u)
      BY <2>1, <2>4, ToldFirst
    <2> HIDE DEF e
    <2>6. id \in DOMAIN e.paths <=> v \in Listed
      BY <2>3, <2>5 DEF Leads
    <2>7. recorder' = OnStatusLines(recorder, e.paths)
      BY <2>1, <2>3 DEF Handle
    <2>8. PICK S \in SUBSET CircuitIDs : e.paths \in [S -> {"early", "built"}]
      BY <2>2, <2>3, EventCases
    <2>9. IF id \in S THEN ListedEffect(recorder, recorder', id, e.paths[id])
          ELSE recorder'.circuits[id] = recorder.circuits[id]
      BY <1>1, <2>7, <2>8, StatusLinesResult
    <2>10. CASE id \in S
      BY <2>9, <2>10 DEF ListedEffect, Removed
    <2>11. CASE id \notin S
      <3>1. v \notin Listed
        BY <2>6, <2>8, <2>11
      <3>2. ~Tracked(recorder, id)
        BY <2>4, <3>1 DEF Known
      <3>3. QED
        BY <2>9, <2>11, <3>2 DEF Tracked
    <2>12. QED
      BY <2>10, <2>11
  <1>6. recorder' = recorder => FALSE
    OBVIOUS
  <1>7. QED
    BY <1>2, <1>3, <1>4, <1>5, <1>6
       DEF Next, vars, Shutdown, TorWatches, TorListsCircuits, TorListsInOneLine, TorClosesOnRequest,
           TorLaunches, TorExtends, TorBuilds, TorFails, TorCloses, TorSucceeds, Moves

-----------------------------------------------------------------------------
(* The theorems                                                            *)

\* recorder.c and torctl.c: what the Recorder has of every circuit is what Tor had
\* told until the event that is handled next.
THEOREM RecorderInductive == Spec => []RecorderIInv
  <1>1. RecorderIInv /\ [Next]_vars => RecorderIInv'
    BY NextInv
  <1>2. QED
    BY InitInv, <1>1, PTL DEF Spec

\* Type correctness; a line of the file has a path.
THEOREM RecorderTypeCorrect == Spec => []TypeOK
  <1>1. RecorderIInv => TypeOK
    BY DEF RecorderIInv
  <1>2. QED
    BY RecorderInductive, <1>1, PTL

\* recorder.c:36 and 59: a circuit that served a stream is recorded with its first
\* user, or Tor was asked to close it.
THEOREM ServedStaysRecorded == Spec => []ServedIsRecorded
  <1>1. QED
    BY RecorderInductive, ServedFollows, PTL

\* recorder.c:84-157, the table: it is out of date only until the event comes that is
\* under way.
THEOREM TableFollowsTor == Spec => []TableCatchesUp
  <1>1. QED
    BY RecorderInductive, CatchUpFollows, PTL

\* recorder.c:96-157 and 236-248, the places that track a circuit and write it: it is
\* written once, except that a line with the path so far, and no session, comes first when a
\* list for the cleanup finds the circuit unfinished.
THEOREM WrittenOnceUnlessSweptAway == Spec => []WrittenOnceUnlessSwept
  <1>1. QED
    BY RecorderInductive, OnceFollows, PTL

\* torctl.c, circuitStatusCleanup: the list for the cleanup leaves no circuit behind.
THEOREM CleanupEmptiesTable == Spec => CleanupLeavesNone
  <1>1. RecorderIInv /\ [Next]_vars =>
          [recorder.circuitStatusCleanup /\ recorder.currentlyReceivingCircuitStatuses
             /\ ~recorder'.currentlyReceivingCircuitStatuses
           => \A id \in CircuitIDs : ~Tracked(recorder', id)]_vars
    BY CleanupFollows
  <1>2. QED
    BY RecorderInductive, <1>1, PTL DEF Spec, CleanupLeavesNone
=============================================================================
