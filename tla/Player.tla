------------------------------- MODULE Player -------------------------------
(***************************************************************************)
(* The replay engine of OnionTrace (src/src/oniontrace-player.c): it       *)
(* builds the circuits of a recorded trace and attaches the streams of a   *)
(* session to the circuits of that session.                                *)
(*                                                                         *)
(* OnionTrace is single threaded and event driven, so one handler is one   *)
(* atomic action.  A handler is a function of the Player's state; it is    *)
(* written here as an operator that takes the state p (and the time t that *)
(* clock_gettime returns) to the state in which the handler returns.       *)
(*                                                                         *)
(* In this module Tor is arbitrary: Next lets it send any stream event and *)
(* any circuit event at any time; the one assumption is that Tor does not  *)
(* assign a circuit id that the Player still tracks.  Module PlayerTor     *)
(* composes the same handlers with a model of Tor and its connection.      *)
(***************************************************************************)
EXTENDS Integers, Sequences, FiniteSets

CONSTANTS
    Sessions,     \* session ids: the usernames that streams carry
    Streams,      \* stream ids, as chosen by Tor
    CircuitIDs,   \* circuit ids, as chosen by Tor; 0 is "no id yet"
    Circuits,     \* the addresses of OnionTraceCircuit objects
    Trace,        \* the parsed trace file: a function from the addresses of
                  \* its circuits, in file order, to [session, path, launchTime]
    Lead,         \* how early a circuit is launched (10 seconds in the code)
    NoSession,    \* a NULL session or username
    NoCircuit     \* a NULL circuit

ASSUME PlayerAssumption ==
    /\ NoSession \notin Sessions
    /\ NoCircuit \notin Circuits
    /\ Streams \subseteq Nat
    /\ CircuitIDs \subseteq Nat \ {0}
    /\ Circuits \subseteq Nat
    /\ DOMAIN Trace \subseteq Circuits
    /\ IsFiniteSet(DOMAIN Trace)
    /\ \A c \in DOMAIN Trace : Trace[c] \in [session : Sessions \cup {NoSession},
                                             path : BOOLEAN, launchTime : Nat]
    /\ Lead \in Nat

VARIABLES
    player,   \* the OnionTracePlayer struct, its circuits and torctl's commands
    now       \* CLOCK_REALTIME

vars == <<player, now>>

-----------------------------------------------------------------------------
\* The id under which g_hash_table_lookup may be called: 0 is never a key.
IDs == CircuitIDs \cup {0}

\* The entry pushed on a session's queue of waiting streams to have a circuit
\* built when no stream needs it yet.
Preemptive == -1

CircuitStatus == {"NONE", "LAUNCHED", "ASSIGNED", "BUILT", "FREED"}

\* An OnionTraceCircuit.  Its path, a string of relay fingerprints, is
\* abstracted to whether it is non-NULL.
Circuit == [session : Sessions \cup {NoSession}, id : IDs, status : CircuitStatus,
            launchTime : Int, path : BOOLEAN, failures : Nat]

\* Memory that holds no circuit: not allocated yet, or already freed.
Freed == [session |-> NoSession, id |-> 0, status |-> "FREED",
          launchTime |-> 0, path |-> FALSE, failures |-> 0]

NewCircuit(s, time, path) ==
    [Freed EXCEPT !.session = s, !.status = "NONE", !.launchTime = time, !.path = path]

\* The two commands of the Player that the properties tell apart.  The fields
\* "session" and "circuit" of EXTENDCIRCUIT are ghosts: they say on whose behalf
\* it is sent, which the text of the command does not.
ExtendCircuit(s, c, path) ==
    [type |-> "EXTENDCIRCUIT", session |-> s, circuit |-> c, path |-> path]
AttachStream(st, id) == [type |-> "ATTACHSTREAM", stream |-> st, id |-> id]

Command == [type : {"EXTENDCIRCUIT"}, session : Sessions, circuit : Circuits, path : BOOLEAN]
             \cup [type : {"ATTACHSTREAM"}, stream : Streams, id : IDs]

LaunchInfo == [abstime : Int, session : Sessions]

PlayerState ==
    [heap : [Circuits -> Circuit],
     sessions : SUBSET Sessions,
     circuitsSorted : [Sessions -> Seq(Circuits)],
     waitingStreamIDs : [Sessions -> Seq(Streams \cup {Preemptive})],
     circuits : [IDs -> Circuits \cup {NoCircuit}],
     launches : Seq(LaunchInfo),
     sessionAwaitingAssignment : Sessions \cup {NoSession},
     sessionAssignmentBacklog : Seq(Sessions),
     streamsAssigning : Int,
     circuitsBuilding : Int,
     commands : Seq(Command)]

-----------------------------------------------------------------------------
(* oniontraceplayer_new: read the trace, sort its circuits into sessions   *)
(* and schedule their launches.                                            *)

\* Circuits without a session or without a path are dropped.
Tracked == {c \in DOMAIN Trace : Trace[c].session # NoSession /\ Trace[c].path}

TrackedOf(s) == {c \in Tracked : Trace[c].session = s}

Orderings(S) ==
    {q \in [1..Cardinality(S) -> S] : \A c \in S : \E i \in DOMAIN q : q[i] = c}

\* Mutation of ByLaunchTime: circuits are pushed at the head instead of sorted in.
PushedAtHead(q) == \A i, j \in DOMAIN q : i < j => q[i] > q[j]

\* g_queue_insert_sorted puts a circuit before its equals, which reverses ties.
\* The file's reader sorts once, which reverses the ties of the launches; the
\* session's queue is sorted once more, which restores the order of the file.
ByLaunchTime(q) ==
    \A i, j \in DOMAIN q : i < j =>
        \/ Trace[q[i]].launchTime < Trace[q[j]].launchTime
        \/ Trace[q[i]].launchTime = Trace[q[j]].launchTime /\ q[i] < q[j]

ByLaunchTimeReversed(q) ==
    \A i, j \in DOMAIN q : i < j =>
        \/ Trace[q[i]].launchTime < Trace[q[j]].launchTime
        \/ Trace[q[i]].launchTime = Trace[q[j]].launchTime /\ q[i] > q[j]

Launch(c) == [abstime |-> Trace[c].launchTime - Lead, session |-> Trace[c].session]

Init ==
    \E order \in Orderings(Tracked),
       queue \in [Sessions -> UNION {Orderings(TrackedOf(s)) : s \in Sessions}] :
        /\ ByLaunchTimeReversed(order)
        /\ \A s \in Sessions : queue[s] \in Orderings(TrackedOf(s)) /\ ByLaunchTime(queue[s])
        /\ now = 0
        /\ player = [heap |-> [c \in Circuits |->
                                 IF c \in Tracked
                                 THEN NewCircuit(Trace[c].session, Trace[c].launchTime, TRUE)
                                 ELSE Freed],
                     sessions |-> {s \in Sessions : TrackedOf(s) # {}},
                     circuitsSorted |-> queue,
                     waitingStreamIDs |-> [s \in Sessions |-> <<>>],
                     circuits |-> [id \in IDs |-> NoCircuit],
                     launches |-> [i \in DOMAIN order |-> Launch(order[i])],
                     sessionAwaitingAssignment |-> NoSession,
                     sessionAssignmentBacklog |-> <<>>,
                     streamsAssigning |-> 0,
                     circuitsBuilding |-> 0,
                     commands |-> <<>>]

-----------------------------------------------------------------------------
(* Rotation: a session moves to its next circuit once that one is due, and *)
(* forgets and frees the one it leaves.                                    *)

CurrentCircuit(p, s) == Head(p.circuitsSorted[s])

\* Mutation of RotationDue: a circuit is due as soon as it may be launched.
RotationDueEarly(p, t, s) ==
    /\ Len(p.circuitsSorted[s]) > 1
    /\ p.heap[p.circuitsSorted[s][2]].launchTime <= t + Lead

RotationDue(p, t, s) ==
    /\ Len(p.circuitsSorted[s]) > 1
    /\ p.heap[p.circuitsSorted[s][2]].launchTime <= t

\* Mutation of Rotate: the old circuit is not freed.
RotateLeaking(p, s) ==
    LET old == CurrentCircuit(p, s)
    IN  [p EXCEPT !.circuitsSorted[s] = Tail(@),
                  !.circuits[p.heap[old].id] = NoCircuit]

\* Mutation of Rotate: the old circuit stays in the table.
RotateDangling(p, s) ==
    [p EXCEPT !.circuitsSorted[s] = Tail(@),
              !.heap[CurrentCircuit(p, s)] = Freed]

Rotate(p, s) ==
    LET old == CurrentCircuit(p, s)
    IN  [p EXCEPT !.circuitsSorted[s] = Tail(@),
                  !.circuits[p.heap[old].id] = NoCircuit,
                  !.heap[old] = Freed]

\* The state in which the session's current circuit is the head of its queue.
GetCurrentCircuit(p, t, s) == IF RotationDue(p, t, s) THEN Rotate(p, s) ELSE p

-----------------------------------------------------------------------------
(* handleSession: what is done for a session depends on the status of its  *)
(* current circuit.                                                        *)

\* Mutation of LaunchCircuit: the circuit's status is not updated.
LaunchUnmarked(p, s) ==
    LET c == CurrentCircuit(p, s)
    IN  [p EXCEPT !.commands = Append(@, ExtendCircuit(s, c, p.heap[c].path)),
                  !.circuitsBuilding = @ + 1,
                  !.sessionAwaitingAssignment = s]

\* Mutation of LaunchCircuit: the circuit is not counted.
LaunchUncounted(p, s) ==
    LET c == CurrentCircuit(p, s)
    IN  [p EXCEPT !.commands = Append(@, ExtendCircuit(s, c, p.heap[c].path)),
                  !.sessionAwaitingAssignment = s,
                  !.heap[c].status = "LAUNCHED"]

\* After three failures of the recorded path, Tor may choose any path.
LaunchCircuit(p, s) ==
    LET c == CurrentCircuit(p, s)
    IN  [p EXCEPT !.commands = Append(@, ExtendCircuit(s, c, p.heap[c].path /\ p.heap[c].failures < 3)),
                  !.circuitsBuilding = @ + 1,
                  !.sessionAwaitingAssignment = s,
                  !.heap[c].status = "LAUNCHED"]

EnterBacklog(p, s) == [p EXCEPT !.sessionAssignmentBacklog = Append(@, s)]

\* Mutation of HandleUnlaunched: it does not wait for the id of another session.
LaunchAtOnce(p, s) == IF p.sessionAwaitingAssignment = s THEN p ELSE LaunchCircuit(p, s)

\* Only one EXTENDCIRCUIT is in flight at a time, because its reply does not
\* say which session it is for.
HandleUnlaunched(p, s) ==
    IF p.sessionAwaitingAssignment = s THEN p
    ELSE IF p.sessionAwaitingAssignment # NoSession THEN EnterBacklog(p, s)
    ELSE LaunchCircuit(p, s)

\* The streams among the entries of a session's queue.
StreamsIn(w) ==
    LET real[i \in 0..Len(w)] ==
          IF i = 0 THEN <<>>
          ELSE IF w[i] >= 0 THEN Append(real[i - 1], w[i]) ELSE real[i - 1]
    IN  real[Len(w)]

\* Mutation of AttachWaiting: the queue is not emptied.
AttachKeeping(p, s) ==
    LET ready == StreamsIn(p.waitingStreamIDs[s])
        id == p.heap[CurrentCircuit(p, s)].id
    IN  [p EXCEPT !.streamsAssigning = @ - Len(ready),
                  !.commands = @ \o [i \in DOMAIN ready |-> AttachStream(ready[i], id)]]

\* Mutation of AttachWaiting: preemptive entries are counted as streams.
AttachMiscounting(p, s) ==
    LET ready == StreamsIn(p.waitingStreamIDs[s])
        id == p.heap[CurrentCircuit(p, s)].id
    IN  [p EXCEPT !.waitingStreamIDs[s] = <<>>,
                  !.streamsAssigning = @ - Len(p.waitingStreamIDs[s]),
                  !.commands = @ \o [i \in DOMAIN ready |-> AttachStream(ready[i], id)]]

AttachWaiting(p, s) ==
    LET ready == StreamsIn(p.waitingStreamIDs[s])
        id == p.heap[CurrentCircuit(p, s)].id
    IN  [p EXCEPT !.waitingStreamIDs[s] = <<>>,
                  !.streamsAssigning = @ - Len(ready),
                  !.commands = @ \o [i \in DOMAIN ready |-> AttachStream(ready[i], id)]]

\* Mutation of HandleSession: streams are attached as soon as the id is known.
HandleSessionEagerly(p, t, s) ==
    LET cur == GetCurrentCircuit(p, t, s)
        status == cur.heap[CurrentCircuit(cur, s)].status
    IN  CASE status = "NONE" -> HandleUnlaunched(cur, s)
          [] status \in {"ASSIGNED", "BUILT"} -> AttachWaiting(cur, s)
          [] OTHER -> cur

HandleSession(p, t, s) ==
    LET cur == GetCurrentCircuit(p, t, s)
        status == cur.heap[CurrentCircuit(cur, s)].status
    IN  CASE status = "NONE" -> HandleUnlaunched(cur, s)
          [] status = "BUILT" -> AttachWaiting(cur, s)
          [] OTHER -> cur   \* LAUNCHED and ASSIGNED: wait for Tor

\* One iteration of the while loop of handleSessionBacklog, or no change once
\* the loop's condition is false.
HandleNextSession(p, t) ==
    IF p.sessionAwaitingAssignment = NoSession /\ p.sessionAssignmentBacklog # <<>>
    THEN HandleSession([p EXCEPT !.sessionAssignmentBacklog = Tail(@)], t,
                       Head(p.sessionAssignmentBacklog))
    ELSE p

\* Every iteration takes one session from the backlog and none puts one back
\* (a session enters the backlog only while another one awaits assignment), so
\* the loop ends after as many iterations as the backlog was long.
HandleSessionBacklog(p, t) ==
    LET iterate[i \in 0..Len(p.sessionAssignmentBacklog)] ==
          IF i = 0 THEN p ELSE HandleNextSession(iterate[i - 1], t)
    IN  iterate[Len(p.sessionAssignmentBacklog)]

-----------------------------------------------------------------------------
(* onStreamStatus                                                          *)

\* A username that was not in the trace gets a session of its own, with one
\* circuit at address c for which Tor chooses the path.
EnsureSession(p, t, s, c) ==
    LET known == [p EXCEPT !.sessions = @ \cup {s}]
    IN  IF known.circuitsSorted[s] # <<>> THEN known
        ELSE [known EXCEPT !.circuitsSorted[s] = <<c>>,
                           !.heap[c] = NewCircuit(s, t, FALSE)]

EnqueueStream(p, s, st) ==
    [p EXCEPT !.waitingStreamIDs[s] = Append(@, st),
              !.streamsAssigning = @ + 1,
              !.sessionAssignmentBacklog = Append(@, s)]

\* A stream is NEW, or DETACHED and to be attached again (the code falls
\* through).  A stream without a username is left to Tor (circuit id 0).
OnStreamNew(p, t, st, s, c) ==
    IF s = NoSession
    THEN [p EXCEPT !.commands = Append(@, AttachStream(st, 0))]
    ELSE HandleSessionBacklog(EnqueueStream(EnsureSession(p, t, s, c), s, st), t)

\* The addresses that malloc may return for the circuit of a new session; none
\* is needed for a stream without a session or of a session with circuits.
Allocations(p, s) ==
    IF s = NoSession \/ p.circuitsSorted[s] # <<>> THEN {NoCircuit}
    ELSE {c \in Circuits : p.heap[c].status = "FREED"}

-----------------------------------------------------------------------------
(* onCircuitStatus                                                         *)

\* Mutation of OnCircuitAssigned: the backlog is left for the next stream.
AssignedOnly(p, t, id) ==
    IF p.sessionAwaitingAssignment = NoSession THEN p
    ELSE LET c == CurrentCircuit(p, p.sessionAwaitingAssignment)
         IN  [p EXCEPT !.heap[c] = [@ EXCEPT !.id = id, !.status = "ASSIGNED"],
                       !.circuits[id] = c,
                       !.sessionAwaitingAssignment = NoSession]

\* The reply to EXTENDCIRCUIT: the id belongs to the session that awaits one.
OnCircuitAssigned(p, t, id) ==
    IF p.sessionAwaitingAssignment = NoSession THEN p
    ELSE LET c == CurrentCircuit(p, p.sessionAwaitingAssignment)
         IN  HandleSessionBacklog([p EXCEPT !.heap[c] = [@ EXCEPT !.id = id, !.status = "ASSIGNED"],
                                            !.circuits[id] = c,
                                            !.sessionAwaitingAssignment = NoSession], t)

OnCircuitBuilt(p, t, id) ==
    LET c == p.circuits[id]
    IN  IF c = NoCircuit THEN p
        ELSE HandleSession([p EXCEPT !.circuitsBuilding = @ - 1,
                                     !.heap[c].status = "BUILT"], t, p.heap[c].session)

\* Mutation of Reset: the circuit keeps the status that Tor reported.
ResetToFailed(p, id, failed) ==
    LET c == p.circuits[id]
    IN  [p EXCEPT !.circuits[id] = NoCircuit, !.heap[c].id = 0, !.heap[c].status = "FAILED"]

\* The circuit goes back to the state it had before its launch.
Reset(p, id, failed) ==
    LET c == p.circuits[id]
    IN  [p EXCEPT !.circuits[id] = NoCircuit,
                  !.heap[c].id = 0,
                  !.heap[c].status = "NONE",
                  !.heap[c].failures = IF failed THEN @ + 1 ELSE @]

\* Mutation of OnCircuitGone: the waiting streams are not retried.
GoneNotRetried(p, t, id, failed) ==
    IF p.circuits[id] = NoCircuit THEN p ELSE Reset(p, id, failed)

\* Mutation of OnCircuitGone: CLOSED is ignored.
ClosedIgnored(p, t, id, failed) ==
    IF p.circuits[id] = NoCircuit \/ ~failed THEN p ELSE Reset(p, id, failed)

\* FAILED or CLOSED: launch the circuit again if streams wait for it.
OnCircuitGone(p, t, id, failed) ==
    LET c == p.circuits[id]
    IN  IF c = NoCircuit THEN p
        ELSE IF p.waitingStreamIDs[p.heap[c].session] = <<>> THEN Reset(p, id, failed)
        ELSE HandleSessionBacklog(EnterBacklog(Reset(p, id, failed), p.heap[c].session), t)

-----------------------------------------------------------------------------
(* launchNextCircuit, called when the play timer expires                   *)

\* How many launches, from the head of the queue, are due at time t.
LaunchesDue(p, t) ==
    {n \in 0..Len(p.launches) :
        /\ \A i \in 1..n : p.launches[i].abstime <= t
        /\ n < Len(p.launches) => p.launches[n + 1].abstime > t}

\* The first n launches leave a preemptive entry in their sessions' queues.
RequestLaunches(p, n) ==
    LET requests(s) == [i \in 1..Cardinality({j \in 1..n : p.launches[j].session = s}) |-> Preemptive]
    IN  [p EXCEPT !.waitingStreamIDs = [s \in Sessions |-> @[s] \o requests(s)],
                  !.sessionAssignmentBacklog = @ \o [i \in 1..n |-> p.launches[i].session],
                  !.launches = SubSeq(@, n + 1, Len(@))]

LaunchNextCircuit(p, t, n) ==
    IF n = 0 THEN p ELSE HandleSessionBacklog(RequestLaunches(p, n), t)

\* What it returns: the time until the next launch, or 0 to stop the timer.
NextLaunchDelay(p, t) == IF p.launches = <<>> THEN 0 ELSE Head(p.launches).abstime - t

-----------------------------------------------------------------------------
(* The Player in an arbitrary environment                                  *)

StreamEvent ==
    \E st \in Streams, s \in Sessions \cup {NoSession} :
        \E c \in Allocations(player, s) :
            /\ player' = OnStreamNew(player, now, st, s, c)
            /\ UNCHANGED now

\* Tor never assigns an id that still names a circuit.
CircuitAssigned ==
    \E id \in CircuitIDs :
        /\ player.circuits[id] = NoCircuit
        /\ player' = OnCircuitAssigned(player, now, id)
        /\ UNCHANGED now

CircuitBuilt ==
    \E id \in CircuitIDs :
        /\ player' = OnCircuitBuilt(player, now, id)
        /\ UNCHANGED now

CircuitGone ==
    \E id \in CircuitIDs, failed \in BOOLEAN :
        /\ player' = OnCircuitGone(player, now, id, failed)
        /\ UNCHANGED now

PlayTimer ==
    \E n \in LaunchesDue(player, now) :
        /\ player' = LaunchNextCircuit(player, now, n)
        /\ UNCHANGED now

\* The connection takes the next command.
CommandSent ==
    /\ player.commands # <<>>
    /\ player' = [player EXCEPT !.commands = Tail(@)]
    /\ UNCHANGED now

Tick ==
    /\ now' = now + 1
    /\ UNCHANGED player

Next ==
    \/ StreamEvent
    \/ CircuitAssigned
    \/ CircuitBuilt
    \/ CircuitGone
    \/ PlayTimer
    \/ CommandSent
    \/ Tick

PlayerSpec == Init /\ [][Next]_vars
-----------------------------------------------------------------------------
(* What the Player promises whatever Tor does                              *)

\* Type correctness of the Player's state.
TypeOK == now \in Nat /\ player \in PlayerState

\* No use after free and no leak: a session of the table has a circuit (what
\* g_assert(circuit) in getCurrentCircuit requires), the sessions' queues hold
\* allocated circuits of their own, and every allocated circuit is in exactly
\* one place of one queue.
QueuesOwnCircuits(p) ==
    /\ \A s \in Sessions : s \in p.sessions <=> p.circuitsSorted[s] # <<>>
    /\ \A s \in Sessions : \A i, j \in DOMAIN p.circuitsSorted[s] :
          /\ p.heap[p.circuitsSorted[s][i]].session = s
          /\ p.heap[p.circuitsSorted[s][i]].status # "FREED"
          /\ p.circuitsSorted[s][i] = p.circuitsSorted[s][j] => i = j
    /\ \A c \in Circuits : p.heap[c].status # "FREED" =>
          /\ p.heap[c].session \in Sessions
          /\ \E i \in DOMAIN p.circuitsSorted[p.heap[c].session] :
                p.circuitsSorted[p.heap[c].session][i] = c

\* Only the current circuit of a session is launched, assigned or built: a
\* later circuit waits, untouched, for its rotation.
OnlyCurrentIsLaunched(p) ==
    \A s \in Sessions : \A i \in DOMAIN p.circuitsSorted[s] :
        i > 1 => p.heap[p.circuitsSorted[s][i]].status = "NONE"

\* The table of circuits maps ids to circuits and back: it has no dangling
\* entry after a rotation or a failure, and no circuit that carries an id is
\* missing from it (its BUILT or CLOSED event would be lost).
TableMatchesCircuits(p) ==
    /\ \A id \in IDs : p.circuits[id] # NoCircuit =>
          p.heap[p.circuits[id]].status \in {"ASSIGNED", "BUILT"} /\ p.heap[p.circuits[id]].id = id
    /\ \A c \in Circuits :
          IF p.heap[c].status \in {"ASSIGNED", "BUILT"}
          THEN p.heap[c].id # 0 /\ p.circuits[p.heap[c].id] = c
          ELSE p.heap[c].id = 0

\* The session that awaits an id is the one whose current circuit is launched:
\* the next id that Tor assigns cannot land on a circuit that was not launched
\* (the circuit rotated away meanwhile) nor on the circuit of another session.
AwaitingIsLaunched(p) ==
    /\ \A s \in Sessions : s \in p.sessions =>
          (p.heap[CurrentCircuit(p, s)].status = "LAUNCHED" <=> p.sessionAwaitingAssignment = s)
    /\ p.sessionAwaitingAssignment \in p.sessions \cup {NoSession}

\* When no handler runs, sessions are in the backlog only because another
\* session awaits its circuit id: no handler returns with work left to do.
BacklogAwaits(p) ==
    p.sessionAssignmentBacklog # <<>> => p.sessionAwaitingAssignment # NoSession

\* The sessions in the backlog are in the table.
BacklogKnown(p) ==
    \A i \in DOMAIN p.sessionAssignmentBacklog : p.sessionAssignmentBacklog[i] \in p.sessions

\* No lost wakeup: whenever streams wait in a session, some event to come will
\* look at the session again: the id or the BUILT of its current circuit, or
\* the id of the circuit of another session, which empties the backlog.
NoLostWakeup(p) ==
    \A s \in Sessions : p.waitingStreamIDs[s] # <<>> =>
        /\ s \in p.sessions
        /\ \/ p.heap[CurrentCircuit(p, s)].status \in {"LAUNCHED", "ASSIGNED"}
           \/ \E i \in DOMAIN p.sessionAssignmentBacklog : p.sessionAssignmentBacklog[i] = s

\* Scheduled launches are for sessions of the table.
LaunchesKnown(p) == \A i \in DOMAIN p.launches : p.launches[i].session \in p.sessions

\* The queues of circuits and of launches are ordered by time: a session cannot
\* skip or repeat a circuit, and a launch cannot hide behind a later one.
QueuesSorted(p) ==
    /\ \A s \in Sessions : \A i, j \in DOMAIN p.circuitsSorted[s] :
          i < j => p.heap[p.circuitsSorted[s][i]].launchTime <= p.heap[p.circuitsSorted[s][j]].launchTime
    /\ \A i, j \in DOMAIN p.launches : i < j => p.launches[i].abstime <= p.launches[j].abstime

\* The places in the sessions' queues where streams wait.
StreamsWaiting(p) ==
    UNION {{s} \X {i \in DOMAIN p.waitingStreamIDs[s] : p.waitingStreamIDs[s][i] >= 0} : s \in Sessions}

\* The unsigned counter n_strms_assigning is the number of streams that wait
\* in the sessions, so it never wraps below zero.
StreamsAssigningCounted(p) == p.streamsAssigning = Cardinality(StreamsWaiting(p))

OwnershipInv == QueuesOwnCircuits(player) /\ OnlyCurrentIsLaunched(player)
TableInv == TableMatchesCircuits(player)
AwaitingInv == AwaitingIsLaunched(player)
BacklogInv == BacklogAwaits(player) /\ BacklogKnown(player)
WakeupInv == NoLostWakeup(player)
OrderInv == QueuesSorted(player) /\ LaunchesKnown(player)
CounterInv == StreamsAssigningCounted(player)

\* A session's circuits are used in order and none before its time: a step
\* takes circuits only from the front of the queue, and the circuit it ends on
\* is due.  (One step may rotate several times: the session may be in the
\* backlog more than once.)
RotationInOrder ==
    [][\A s \in player.sessions :
         \E k \in 0..(Len(player.circuitsSorted[s]) - 1) :
            /\ player'.circuitsSorted[s] =
                 SubSeq(player.circuitsSorted[s], k + 1, Len(player.circuitsSorted[s]))
            /\ k > 0 => player.heap[player.circuitsSorted[s][k + 1]].launchTime <= now]_vars
=============================================================================
