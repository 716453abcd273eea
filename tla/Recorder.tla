------------------------------ MODULE Recorder ------------------------------
(***************************************************************************)
(* Record mode (src/src/oniontrace-recorder.c) with the part of TorCtl     *)
(* that turns the reply to GETINFO circuit-status into circuit events      *)
(* (src/src/oniontrace-torctl.c) and the driver's timers that end it.      *)
(*                                                                         *)
(* The Recorder learns of a circuit from Tor's events, or from the list of *)
(* circuits that it asks for when it starts.  It asks for the list again   *)
(* shortly before it stops, to write the circuits that are still open.     *)
(* What a list means is decided when it arrives, not when it was asked     *)
(* for.  Tor is modelled from what the code sends to it and expects of it. *)
(***************************************************************************)
EXTENDS Integers, Sequences, FiniteSets

CONSTANTS
    CircuitIDs,     \* the ids that Tor chooses
    Users,          \* usernames of streams
    NoUser,         \* a NULL username or session
    NoCircuit,      \* a NULL circuit
    OneLineReplies, \* whether Tor may list less than two circuits in one line
    MaxEvents       \* how much Tor sends ahead of the Recorder

ASSUME RecorderAssumption ==
    /\ CircuitIDs \subseteq Nat \ {0} /\ IsFiniteSet(CircuitIDs)
    /\ NoUser \notin Users
    /\ NoCircuit \notin [path : {"NULL", "early", "built"}, session : Users \cup {NoUser}]
    /\ OneLineReplies \in BOOLEAN
    /\ MaxEvents \in Nat

VARIABLES
    recorder,    \* the OnionTraceRecorder, its file, and TorCtl's flags and commands
    phase,       \* how far the driver is: its timers fire, the main loop ends
    events,      \* what Tor sent and TorCtl has not processed yet
    torCircuits, \* the state of each circuit in Tor
    torWatches,  \* Tor has executed SETEVENTS
    existing,    \* history: the circuits that were built before that
    served,      \* history: the first username whose stream succeeded on a circuit
    disowned,    \* history: the circuits that the Recorder asked Tor to close
    swept        \* history: the lines that a list for the cleanup wrote for each
                 \* circuit while Tor was building it, by their numbers

vars == <<recorder, phase, events, torCircuits, torWatches, existing, served, disowned, swept>>

-----------------------------------------------------------------------------
\* A path is NULL, the one reported when Tor had built the circuit, or words
\* that were reported earlier: the path so far, or whatever follows the status
\* in the list of circuits.
Path == {"NULL", "early", "built"}

\* A circuit of the Recorder's table.
Circuit == [path : Path, session : Users \cup {NoUser}]

\* A line of the file.  Only a circuit with a path is written.
Record == [path : Path \ {"NULL"}, session : Users \cup {NoUser}]

SetEvents == [type |-> "SETEVENTS"]
GetCircuitStatus == [type |-> "GETINFO"]
CloseCircuit(id) == [type |-> "CLOSECIRCUIT", id |-> id]

Command == {SetEvents, GetCircuitStatus} \cup {CloseCircuit(id) : id \in CircuitIDs}

\* Events; and the lines of a list of circuits, as a function from the listed
\* ids to the third word of their lines, after a header.
CircuitEvent(type, id) == [type |-> type, id |-> id]
StreamSucceeded(id, user) == [type |-> "SUCCEEDED", id |-> id, user |-> user]
StatusHeader == [type |-> "HEADER"]
StatusLines(paths) == [type |-> "STATUSES", paths |-> paths]

Event ==
    [type : {"LAUNCHED", "EXTENDED", "BUILT", "FAILED", "CLOSED"}, id : CircuitIDs]
      \cup [type : {"SUCCEEDED"}, id : CircuitIDs, user : Users \cup {NoUser}]
      \cup {StatusHeader}
      \cup {StatusLines(paths) : paths \in UNION {[S -> {"early", "built"}] : S \in SUBSET CircuitIDs}}

\* The file maps each circuit to the lines that were written for it: the order
\* of the lines of different circuits is left out.
RecorderState ==
    [circuits : [CircuitIDs -> Circuit \cup {NoCircuit}],
     file : [CircuitIDs -> Seq(Record)],
     commands : Seq(Command),
     waitingCircuitStatusResponse : BOOLEAN,
     currentlyReceivingCircuitStatuses : BOOLEAN,
     circuitStatusCleanup : BOOLEAN]

\* oniontracerecorder_new has just returned.  Tor may have taken longer to
\* bootstrap than it took the cleanup timer, which was armed at the start, to fire:
\* there was nothing to clean up then, and it does not fire again.
Init ==
    /\ recorder = [circuits |-> [id \in CircuitIDs |-> NoCircuit],
                   file |-> [id \in CircuitIDs |-> <<>>],
                   commands |-> <<SetEvents, GetCircuitStatus>>,
                   waitingCircuitStatusResponse |-> TRUE,
                   currentlyReceivingCircuitStatuses |-> FALSE,
                   circuitStatusCleanup |-> FALSE]
    /\ phase \in {"recording", "late"}
    /\ events = <<>>
    /\ torCircuits = [id \in CircuitIDs |-> "unused"]
    /\ torWatches = FALSE
    /\ existing = {}
    /\ served = [id \in CircuitIDs |-> NoUser]
    /\ disowned = {}
    /\ swept = [id \in CircuitIDs |-> {}]

-----------------------------------------------------------------------------
(* onCircuitStatus                                                         *)

Tracked(r, id) == r.circuits[id] # NoCircuit

\* ASSIGNED, LAUNCHED or EXTENDED: only the first of them counts, and only an
\* EXTENDED leaves its path.
OnCircuitStarted(r, id, path) ==
    IF Tracked(r, id) THEN r
    ELSE [r EXCEPT !.circuits[id] = [path |-> path, session |-> NoUser]]

OnCircuitBuilt(r, id, path) ==
    IF Tracked(r, id) THEN [r EXCEPT !.circuits[id].path = path] ELSE r

\* Mutation of OnCircuitGone: a circuit without a path is written, too.
GoneUnchecked(r, id) ==
    IF ~Tracked(r, id) THEN r
    ELSE [r EXCEPT !.circuits[id] = NoCircuit, !.file[id] = Append(@, r.circuits[id])]

\* Mutation of OnCircuitGone: only a circuit that is written is removed.
GoneIfWritten(r, id) ==
    IF ~Tracked(r, id) \/ r.circuits[id].path = "NULL" THEN r
    ELSE [r EXCEPT !.circuits[id] = NoCircuit, !.file[id] = Append(@, r.circuits[id])]

\* Mutation of OnCircuitGone: the circuit stays in the table.
GoneKept(r, id) ==
    IF ~Tracked(r, id) THEN r
    ELSE [r EXCEPT !.file[id] = IF r.circuits[id].path = "NULL" THEN @
                                ELSE Append(@, r.circuits[id])]

\* FAILED or CLOSED: the circuit is written, if it has a path, and removed.
OnCircuitGone(r, id) ==
    IF ~Tracked(r, id) THEN r
    ELSE [r EXCEPT !.circuits[id] = NoCircuit,
                   !.file[id] = IF r.circuits[id].path = "NULL" THEN @
                                ELSE Append(@, r.circuits[id])]

(* onStreamStatus                                                          *)

\* Mutation of OnStreamSucceeded: the last username names the session.
SucceededLast(r, id, user) ==
    IF ~Tracked(r, id) THEN [r EXCEPT !.commands = Append(@, CloseCircuit(id))]
    ELSE [r EXCEPT !.circuits[id].session = user]

\* The first username names the session.  A circuit that is not recorded is
\* closed, so that Tor uses one that is.
OnStreamSucceeded(r, id, user) ==
    IF ~Tracked(r, id) THEN [r EXCEPT !.commands = Append(@, CloseCircuit(id))]
    ELSE IF r.circuits[id].session = NoUser THEN [r EXCEPT !.circuits[id].session = user]
    ELSE r

(* TorCtl: the list of circuits                                            *)

\* Mutation of HandleCircuitStatus: every list is taken for the first one.
StatusAlwaysAdds(r, id, path) == OnCircuitBuilt(OnCircuitStarted(r, id, "NULL"), id, path)

\* What a line of the list does to its circuit.
HandleCircuitStatus(r, id, path) ==
    IF r.circuitStatusCleanup THEN OnCircuitGone(r, id)
    ELSE OnCircuitBuilt(OnCircuitStarted(r, id, "NULL"), id, path)

\* The lines are of different circuits.
HandleCircuitStatuses(r, paths) ==
    LET after(id) == IF id \in DOMAIN paths THEN HandleCircuitStatus(r, id, paths[id]) ELSE r
    IN  [r EXCEPT !.circuits = [id \in CircuitIDs |-> after(id).circuits[id]],
                  !.file = [id \in CircuitIDs |-> after(id).file[id]]]

\* A header is only recognised while a reply is awaited, lines only after it.
OnStatusHeader(r) ==
    IF r.waitingCircuitStatusResponse
    THEN [r EXCEPT !.waitingCircuitStatusResponse = FALSE,
                   !.currentlyReceivingCircuitStatuses = TRUE]
    ELSE r

OnStatusLines(r, paths) ==
    IF r.currentlyReceivingCircuitStatuses
    THEN HandleCircuitStatuses([r EXCEPT !.currentlyReceivingCircuitStatuses = FALSE], paths)
    ELSE r

GetAllCircuitStatusCleanup(r) ==
    [r EXCEPT !.circuitStatusCleanup = TRUE,
              !.waitingCircuitStatusResponse = TRUE,
              !.commands = Append(@, GetCircuitStatus)]

\* oniontracerecorder_free: the circuits that are left are written.
WriteLeftovers(r) ==
    [r EXCEPT !.circuits = [id \in CircuitIDs |-> NoCircuit],
              !.file = [id \in CircuitIDs |-> OnCircuitGone(r, id).file[id]]]

-----------------------------------------------------------------------------
(* OnionTrace                                                              *)

\* The handler of the next event, or of the next part of a list.
Handle(r, e) ==
    CASE e.type = "LAUNCHED" -> OnCircuitStarted(r, e.id, "NULL")
      [] e.type = "EXTENDED" -> OnCircuitStarted(r, e.id, "early")
      [] e.type = "BUILT" -> OnCircuitBuilt(r, e.id, "built")
      [] e.type \in {"FAILED", "CLOSED"} -> OnCircuitGone(r, e.id)
      [] e.type = "SUCCEEDED" -> OnStreamSucceeded(r, e.id, e.user)
      [] e.type = "HEADER" -> OnStatusHeader(r)
      [] e.type = "STATUSES" -> OnStatusLines(r, e.paths)

\* The event is a list that says that Tor is still building circuit id.
ListsUnfinished(e, id) == e.type = "STATUSES" /\ id \in DOMAIN e.paths /\ e.paths[id] = "early"

Deliver ==
    /\ phase # "done" /\ events # <<>>
    /\ recorder' = Handle(recorder, Head(events))
    /\ events' = Tail(events)
    /\ served' = IF Head(events).type = "SUCCEEDED" /\ served[Head(events).id] = NoUser
                 THEN [served EXCEPT ![Head(events).id] = Head(events).user]
                 ELSE served
    /\ disowned' = disowned \cup {id \in CircuitIDs :
                       \E i \in DOMAIN recorder'.commands : recorder'.commands[i] = CloseCircuit(id)}
    /\ swept' = [id \in CircuitIDs |->
                   IF ListsUnfinished(Head(events), id) /\ recorder'.file[id] # recorder.file[id]
                   THEN swept[id] \cup {Len(recorder'.file[id])} ELSE swept[id]]
    /\ UNCHANGED <<phase, torCircuits, torWatches, existing>>

\* The cleanup timer fires a second before the shutdown timer.
Cleanup ==
    /\ phase = "recording"
    /\ recorder' = GetAllCircuitStatusCleanup(recorder)
    /\ phase' = "cleaning"
    /\ UNCHANGED <<events, torCircuits, torWatches, existing, served, disowned, swept>>

\* The shutdown timer asks the main loop to stop after the events at hand.
Shutdown ==
    /\ phase \in {"late", "cleaning"}
    /\ phase' = "stopping"
    /\ UNCHANGED <<recorder, events, torCircuits, torWatches, existing, served, disowned, swept>>

\* oniontracedriver_stop frees the Recorder.
Stop ==
    /\ phase = "stopping"
    /\ recorder' = WriteLeftovers(recorder)
    /\ phase' = "done"
    /\ UNCHANGED <<events, torCircuits, torWatches, existing, served, disowned, swept>>

-----------------------------------------------------------------------------
(* Tor: commands                                                           *)

Takes(command) ==
    /\ phase # "done"
    /\ recorder.commands # <<>> /\ Head(recorder.commands) = command
    /\ recorder' = [recorder EXCEPT !.commands = Tail(@)]
    /\ UNCHANGED <<phase, served, disowned, swept>>

\* What Tor sends when circuits matter to the Recorder.
Sends(q) == events' = IF torWatches THEN events \o q ELSE events

HasRoom == phase # "done" /\ Len(events) < MaxEvents

TorWatches ==
    /\ Takes(SetEvents)
    /\ torWatches' = TRUE
    /\ existing' = {id \in CircuitIDs : torCircuits[id] = "built"}
    /\ UNCHANGED <<events, torCircuits>>

\* Tor lists its open circuits, the ones it is still building included.
Open == {id \in CircuitIDs : torCircuits[id] \in {"launched", "extended", "built"}}

TorListsCircuits ==
    /\ HasRoom
    /\ Takes(GetCircuitStatus)
    /\ Sends(<<StatusHeader, StatusLines([id \in Open |->
                  IF torCircuits[id] = "built" THEN "built" ELSE "early"])>>)
    /\ UNCHANGED <<torCircuits, torWatches, existing>>

\* A value of one line is sent as 250-circuit-status=, which is not recognised.
TorListsInOneLine ==
    /\ OneLineReplies /\ Cardinality(Open) < 2
    /\ Takes(GetCircuitStatus)
    /\ UNCHANGED <<events, torCircuits, torWatches, existing>>

TorClosesOnRequest(id) ==
    /\ HasRoom
    /\ Takes(CloseCircuit(id))
    /\ IF torCircuits[id] = "built"
       THEN /\ torCircuits' = [torCircuits EXCEPT ![id] = "closed"]
            /\ Sends(<<CircuitEvent("CLOSED", id)>>)
       ELSE UNCHANGED <<events, torCircuits>>
    /\ UNCHANGED <<torWatches, existing>>

(* Tor: circuits and streams                                               *)

Moves(id, from, to, type) ==
    /\ HasRoom
    /\ torCircuits[id] \in from
    /\ torCircuits' = [torCircuits EXCEPT ![id] = to]
    /\ Sends(<<CircuitEvent(type, id)>>)
    /\ UNCHANGED <<recorder, phase, torWatches, existing, served, disowned, swept>>

TorLaunches(id) == Moves(id, {"unused"}, "launched", "LAUNCHED")
TorExtends(id) == Moves(id, {"launched", "extended"}, "extended", "EXTENDED")
TorBuilds(id) == Moves(id, {"extended"}, "built", "BUILT")
TorFails(id) == Moves(id, {"launched", "extended"}, "closed", "FAILED")
TorCloses(id) == Moves(id, {"built"}, "closed", "CLOSED")

TorSucceeds(id, user) ==
    /\ HasRoom
    /\ torWatches /\ torCircuits[id] = "built"
    /\ Sends(<<StreamSucceeded(id, user)>>)
    /\ UNCHANGED <<recorder, phase, torCircuits, torWatches, existing, served, disowned, swept>>

Next ==
    \/ Deliver \/ Cleanup \/ Shutdown \/ Stop
    \/ TorWatches \/ TorListsCircuits \/ TorListsInOneLine
    \/ \E id \in CircuitIDs :
          \/ TorClosesOnRequest(id)
          \/ TorLaunches(id) \/ TorExtends(id) \/ TorBuilds(id)
          \/ TorFails(id) \/ TorCloses(id)
          \/ \E user \in Users \cup {NoUser} : TorSucceeds(id, user)

Spec == Init /\ [][Next]_vars

-----------------------------------------------------------------------------
(* What the Recorder promises                                              *)

\* Type correctness; in particular every line of the file has a path, which
\* the Player needs to build the circuit.
TypeOK ==
    /\ recorder \in RecorderState
    /\ phase \in {"recording", "late", "cleaning", "stopping", "done"}
    /\ events \in Seq(Event)
    /\ torCircuits \in [CircuitIDs -> {"unused", "launched", "extended", "built", "closed"}]
    /\ torWatches \in BOOLEAN
    /\ existing \subseteq CircuitIDs /\ disowned \subseteq CircuitIDs
    /\ served \in [CircuitIDs -> Users \cup {NoUser}]
    /\ swept \in [CircuitIDs -> SUBSET Nat]

Pending(types, id) == \E i \in DOMAIN events : events[i].type \in types /\ events[i].id = id

\* recorder.c:36 "circuit %i for session name %s will be recorded" and 59 "is
\* not recorded. closing now": a circuit that served a stream is in the table
\* or in the file, under its final path and the first username that used it, or
\* Tor was asked to close it, at every moment until the file is complete.
ServedIsRecorded ==
    \A id \in CircuitIDs : served[id] # NoUser =>
        LET line == [path |-> "built", session |-> served[id]]
        IN  \/ recorder.circuits[id] = line
            \/ \E i \in DOMAIN recorder.file[id] : recorder.file[id][i] = line
            \/ id \in disowned

\* The table is out of date only while the event that corrects it is on its
\* way: a circuit in it is open in Tor, and has its final path if it is built.
TableCatchesUp ==
    phase # "done" => \A id \in CircuitIDs : Tracked(recorder, id) =>
        /\ torCircuits[id] = "closed" => Pending({"FAILED", "CLOSED"}, id)
        /\ torCircuits[id] = "built" =>
              recorder.circuits[id].path = "built" \/ Pending({"BUILT"}, id)

\* A circuit is written once, although its end, a list for the cleanup and the
\* end of the recording each write it, and although it is tracked anew when an
\* event names it after that.  The exception is a circuit that a list for the
\* cleanup wrote, and removed, while Tor was still building it: another line may
\* follow that one, which has the path so far and names no session, so that the
\* Player skips it (player.c:500).  Nothing follows a final path.
WrittenOnceUnlessSwept ==
    \A id \in CircuitIDs : \A i \in DOMAIN recorder.file[id] :
        i < Len(recorder.file[id]) =>
            i \in swept[id] /\ recorder.file[id][i] = [path |-> "early", session |-> NoUser]

\* The list for the cleanup leaves no circuit in the table: Tor lists every
\* circuit that the Recorder may still hold when the list arrives.
CleanupLeavesNone ==
    [][recorder.circuitStatusCleanup /\ recorder.currentlyReceivingCircuitStatuses
         /\ ~recorder'.currentlyReceivingCircuitStatuses
       => \A id \in CircuitIDs : ~Tracked(recorder', id)]_vars

\* recorder.c:145 and 244 "only write the circuit if it was build and we have a
\* path for it".
OnlyBuiltWritten ==
    \A id \in CircuitIDs : \A i \in DOMAIN recorder.file[id] : recorder.file[id][i].path = "built"

\* recorder.c:225 "record all existing circuits": once Tor has answered
\* everything and the file is complete, the circuits that were built before the
\* Recorder started to watch are in it.
ExistingRecorded ==
    phase = "done" /\ recorder.commands = <<>> /\ events = <<>> =>
        \A id \in existing : recorder.file[id] # <<>>

\* One line for each circuit.  It does not hold: a circuit that a list for the
\* cleanup finds unfinished has another one when Tor extends it once more.
OneLineEach == \A id \in CircuitIDs : Len(recorder.file[id]) <= 1
=============================================================================
