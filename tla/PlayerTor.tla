------------------------------ MODULE PlayerTor ------------------------------
(***************************************************************************)
(* The Player connected to a Tor process.  Commands travel to Tor in the   *)
(* order they were sent (player.commands), replies and events come back in *)
(* the order Tor wrote them (events), and neither side knows what is still *)
(* under way: a circuit may be closed in Tor while the Player attaches a   *)
(* stream to it, or be replaced in the Player while Tor reports it built.  *)
(*                                                                         *)
(* Tor is not part of the repository; it is modelled from what the code    *)
(* sends to it and expects from it.                                        *)
(***************************************************************************)
EXTENDS Player

CONSTANTS
    User,              \* the username of each stream
    MaxTime,           \* the clock stops here
    MaxRefused,        \* how many EXTENDCIRCUIT commands Tor may refuse
    MaxClosed,         \* how many circuits may fail or be closed
    MaxDetached        \* how many times a stream may be detached

ASSUME PlayerTorAssumption ==
    /\ User \in [Streams -> Sessions \cup {NoSession}]
    /\ {MaxTime, MaxRefused, MaxClosed, MaxDetached} \subseteq Nat

VARIABLES
    events,      \* what Tor sent and the Player has not processed yet
    torCircuits, \* the circuits that Tor made for EXTENDCIRCUIT
    torStreams,  \* the streams of Tor's clients
    refused, closed, detached   \* how often each of these happened

torVars == <<events, torCircuits, torStreams, refused, closed, detached>>
allVars == <<player, now, events, torCircuits, torStreams, refused, closed, detached>>

\* Replies and events.  EXTENDED is the reply to EXTENDCIRCUIT.
CircuitEvent(type, id) == [type |-> type, id |-> id]
StreamNew(st) == [type |-> "NEW", stream |-> st]

Event == [type : {"EXTENDED", "BUILT", "FAILED", "CLOSED"}, id : CircuitIDs]
           \cup [type : {"NEW"}, stream : Streams]

\* A circuit of Tor, with the ghosts of the command that made it.
TorCircuit == [state : {"unused", "building", "built", "closed"},
               session : Sessions \cup {NoSession}, circuit : Circuits \cup {NoCircuit}]
TorStream == [state : {"idle", "waiting", "attached", "gone"}, id : IDs]

TorInit ==
    /\ Init
    /\ events = <<>>
    /\ torCircuits = [id \in CircuitIDs |->
                        [state |-> "unused", session |-> NoSession, circuit |-> NoCircuit]]
    /\ torStreams = [st \in Streams |-> [state |-> "idle", id |-> 0]]
    /\ refused = 0 /\ closed = 0 /\ detached = 0

-----------------------------------------------------------------------------
(* OnionTrace: the next reply or event, the play timer                     *)

\* The handler of the event that is next on the connection.
Deliver ==
    /\ events # <<>>
    /\ LET e == Head(events)
       IN  CASE e.type = "NEW" ->
                  \E c \in Allocations(player, User[e.stream]) :
                      player' = OnStreamNew(player, now, e.stream, User[e.stream], c)
             [] e.type = "EXTENDED" -> player' = OnCircuitAssigned(player, now, e.id)
             [] e.type = "BUILT" -> player' = OnCircuitBuilt(player, now, e.id)
             [] e.type \in {"FAILED", "CLOSED"} ->
                  player' = OnCircuitGone(player, now, e.id, e.type = "FAILED")
    /\ events' = Tail(events)
    /\ UNCHANGED <<now, torCircuits, torStreams, refused, closed, detached>>

\* Mutation of TimerFires: one launch each time, although more are due.
TimerFiresForOne ==
    \E n \in LaunchesDue(player, now) :
        /\ n > 0
        /\ player' = LaunchNextCircuit(player, now, 1)
        /\ UNCHANGED <<now, torVars>>

\* The play timer may be late (the Player looks at CLOCK_REALTIME, the timer
\* runs on CLOCK_MONOTONIC), so it fires at any time after it is due.
TimerFires ==
    \E n \in LaunchesDue(player, now) :
        /\ n > 0
        /\ player' = LaunchNextCircuit(player, now, n)
        /\ UNCHANGED <<now, torVars>>

TimePasses ==
    /\ now < MaxTime
    /\ now' = now + 1
    /\ UNCHANGED <<player, torVars>>

-----------------------------------------------------------------------------
(* Tor: commands                                                           *)

\* Tor takes the next command, if it is of the given type.
Takes(type) ==
    /\ player.commands # <<>>
    /\ Head(player.commands).type = type
    /\ player' = [player EXCEPT !.commands = Tail(@)]
    /\ UNCHANGED now

\* Tor starts a circuit under the next id, ids count up, and replies with it.
TorExtends ==
    /\ Takes("EXTENDCIRCUIT")
    /\ \E id \in CircuitIDs :
          /\ \A other \in CircuitIDs : torCircuits[other].state = "unused" <=> other >= id
          /\ torCircuits' = [torCircuits EXCEPT ![id] =
                [state |-> "building", session |-> Head(player.commands).session,
                 circuit |-> Head(player.commands).circuit]]
          /\ events' = Append(events, CircuitEvent("EXTENDED", id))
    /\ UNCHANGED <<torStreams, refused, closed, detached>>

\* Tor refuses the command with an error reply (no such router, no path, cannot
\* start the circuit), which OnionTrace's reader of replies drops.
TorRefuses ==
    /\ refused < MaxRefused
    /\ Takes("EXTENDCIRCUIT")
    /\ refused' = refused + 1
    /\ UNCHANGED <<events, torCircuits, torStreams, closed, detached>>

\* Tor attaches a waiting stream to a built circuit (or to one of its own
\* choice, id 0); otherwise it answers with an error, which is dropped too.
TorAttaches ==
    /\ Takes("ATTACHSTREAM")
    /\ LET st == Head(player.commands).stream
           id == Head(player.commands).id
       IN  torStreams' =
             IF torStreams[st].state = "waiting" /\ (id = 0 \/ torCircuits[id].state = "built")
             THEN [torStreams EXCEPT ![st] = [state |-> "attached", id |-> id]]
             ELSE torStreams
    /\ UNCHANGED <<events, torCircuits, refused, closed, detached>>

(* Tor: circuits and streams                                               *)

TorBuilds(id) ==
    /\ torCircuits[id].state = "building"
    /\ torCircuits' = [torCircuits EXCEPT ![id].state = "built"]
    /\ events' = Append(events, CircuitEvent("BUILT", id))
    /\ UNCHANGED <<vars, torStreams, refused, closed, detached>>

\* A circuit fails before it is built or is closed after.
TorCloses(id) ==
    /\ closed < MaxClosed
    /\ torCircuits[id].state \in {"building", "built"}
    /\ torCircuits' = [torCircuits EXCEPT ![id].state = "closed"]
    /\ events' = Append(events, CircuitEvent(
          IF torCircuits[id].state = "building" THEN "FAILED" ELSE "CLOSED", id))
    /\ closed' = closed + 1
    /\ UNCHANGED <<vars, torStreams, refused, detached>>

\* A client opens a stream, which Tor leaves unattached.
ClientConnects(st) ==
    /\ torStreams[st].state = "idle"
    /\ torStreams' = [torStreams EXCEPT ![st].state = "waiting"]
    /\ events' = Append(events, StreamNew(st))
    /\ UNCHANGED <<vars, torCircuits, refused, closed, detached>>

\* Tor takes a stream off its circuit to have it attached again.
TorDetaches(st) ==
    /\ detached < MaxDetached
    /\ torStreams[st].state = "attached"
    /\ torStreams' = [torStreams EXCEPT ![st] = [state |-> "waiting", id |-> 0]]
    /\ events' = Append(events, StreamNew(st))
    /\ detached' = detached + 1
    /\ UNCHANGED <<vars, torCircuits, refused, closed>>

\* The client of a waiting stream gives up.  (The end of an attached stream is
\* an event that the Player only counts.)
StreamEnds(st) ==
    /\ torStreams[st].state = "waiting"
    /\ torStreams' = [torStreams EXCEPT ![st] = [state |-> "gone", id |-> 0]]
    /\ UNCHANGED <<vars, events, torCircuits, refused, closed, detached>>

TorNext ==
    \/ Deliver
    \/ TimerFires
    \/ TimePasses
    \/ TorExtends
    \/ TorRefuses
    \/ TorAttaches
    \/ \E id \in CircuitIDs : TorBuilds(id) \/ TorCloses(id)
    \/ \E st \in Streams : ClientConnects(st) \/ TorDetaches(st) \/ StreamEnds(st)

Spec == TorInit /\ [][TorNext]_allVars

\* OnionTrace's event loop serves its socket and its timer again and again, and
\* Tor executes the commands it receives and finishes the circuits it starts.
\* Nothing is assumed of clients, of failures or of the clock.
Fairness ==
    /\ WF_allVars(Deliver)
    /\ WF_allVars(TimerFires)
    /\ WF_allVars(TorExtends \/ TorRefuses)
    /\ WF_allVars(TorAttaches)
    /\ \A id \in CircuitIDs : WF_allVars(TorBuilds(id))

FairSpec == Spec /\ Fairness

-----------------------------------------------------------------------------
(* What the Player and Tor achieve together                                *)

\* Type correctness of Tor and of what it has sent.
TorTypeOK ==
    /\ TypeOK
    /\ events \in Seq(Event)
    /\ torCircuits \in [CircuitIDs -> TorCircuit]
    /\ torStreams \in [Streams -> TorStream]
    /\ refused \in 0..MaxRefused /\ closed \in 0..MaxClosed /\ detached \in 0..MaxDetached

CountOf(q, Test(_)) == Cardinality({i \in DOMAIN q : Test(q[i])})

\* README.md:80 "keep the same streams on the correct circuits": a stream with a
\* username is never on a circuit that was built for another session, however
\* ids, failures, rotations and detached streams interleave.
SessionIsolation ==
    \A st \in Streams :
        torStreams[st].id # 0 => torCircuits[torStreams[st].id].session = User[st]

\* While a session awaits its id, exactly one EXTENDCIRCUIT is on its way to Tor
\* or answered by a reply on its way back (or was refused); otherwise none is.
OneExtendInFlight ==
    CountOf(player.commands, LAMBDA m : m.type = "EXTENDCIRCUIT")
      + CountOf(events, LAMBDA e : e.type = "EXTENDED") + refused
    = (IF player.sessionAwaitingAssignment = NoSession THEN 0 ELSE 1)

\* The reply to EXTENDCIRCUIT does not say which command it answers; still the
\* Player files each id under the circuit and the session it was launched for,
\* so that a recorded path is not credited to another circuit.
RepliesMatched ==
    /\ OneExtendInFlight
    /\ \A id \in CircuitIDs : player.circuits[id] # NoCircuit =>
          /\ torCircuits[id].circuit = player.circuits[id]
          /\ torCircuits[id].session = player.heap[player.circuits[id]].session

\* The Player's view of a circuit it tracks is out of date only while an event
\* that corrects it is on its way: no BUILT, FAILED or CLOSED is ever missed.
ViewCatchesUp ==
    \A id \in CircuitIDs : player.circuits[id] # NoCircuit =>
        \/ \E i \in DOMAIN events : events[i].type \in {"BUILT", "FAILED", "CLOSED"} /\ events[i].id = id
        \/ torCircuits[id].state = "building" /\ player.heap[player.circuits[id]].status = "ASSIGNED"
        \/ torCircuits[id].state = "built" /\ player.heap[player.circuits[id]].status = "BUILT"

\* Where a stream waits in the sessions' queues.
QueuedAt(p, st) ==
    UNION {{s} \X {i \in DOMAIN p.waitingStreamIDs[s] : p.waitingStreamIDs[s][i] = st} : s \in Sessions}

\* Where a stream may be between its NEW (or DETACHED) and its attachment.
Places(st) ==
    CountOf(events, LAMBDA e : e = StreamNew(st))
      + Cardinality(QueuedAt(player, st))
      + CountOf(player.commands, LAMBDA m : m.type = "ATTACHSTREAM" /\ m.stream = st)

\* A stream is handled once per NEW or DETACHED: it is never queued, nor its
\* attachment asked for, twice, and a stream that waits in Tor is somewhere on
\* that way unless its attachment met a circuit that had just been closed.
StreamInOnePlace ==
    \A st \in Streams :
        /\ Places(st) <= 1
        /\ torStreams[st].state \in {"idle", "attached"} => Places(st) = 0
        /\ torStreams[st].state = "waiting" /\ closed = 0 => Places(st) = 1

\* Streams are attached to circuits that Tor has built, never to one that is
\* still under construction.
AttachOnlyToBuilt ==
    \A i \in DOMAIN player.commands : player.commands[i].type = "ATTACHSTREAM" =>
        \/ player.commands[i].id = 0
        \/ torCircuits[player.commands[i].id].state \in {"built", "closed"}

\* player.c: n_circs_building counts a launch up and its BUILT down, and a
\* failure or a rotation not at all: it never wraps below zero.
BuildingCounted ==
    player.circuitsBuilding >=
        Cardinality({c \in Circuits : player.heap[c].status \in {"LAUNCHED", "ASSIGNED"}})

\* README.md:43 "creates circuits and assigns streams": the Player asks Tor to
\* attach every stream that waits for a circuit, sooner or later.
StreamsAssigned == \A st \in Streams : QueuedAt(player, st) # {} ~> QueuedAt(player, st) = {}

\* The handlers see of Tor only what an arbitrary environment may do.
ImplementsPlayer == PlayerSpec

\* player.c:512 "so we can launch it before its needed": once every scheduled
\* launch was made and Tor has answered everything, Tor was asked for each
\* circuit whose time has come and that its session still holds.
LaunchedBeforeNeeded ==
    player.launches = <<>> /\ player.commands = <<>> /\ events = <<>> =>
        \A c \in Tracked :
            player.heap[c].status # "FREED" /\ player.heap[c].launchTime <= now =>
                \E id \in CircuitIDs : torCircuits[id].circuit = c
=============================================================================
