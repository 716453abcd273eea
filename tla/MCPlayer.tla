------------------------------ MODULE MCPlayer ------------------------------
(* A small instance of Player: bounds on what Tor may send and on time.    *)
EXTENDS Player, TLC

CONSTANTS MaxTime, MaxWaiting, MaxFailures, MaxBuilding, MaxCommands, a, b

\* A session with two circuits, both launched at time 0, the second due at time 1;
\* session b appears only with its first stream.  A circuit without a session
\* and one without a path.
TraceOfSession ==
    1 :> [session |-> a, path |-> TRUE, launchTime |-> 0]
 @@ 2 :> [session |-> a, path |-> TRUE, launchTime |-> 1]
 @@ 3 :> [session |-> NoSession, path |-> TRUE, launchTime |-> 1]
 @@ 4 :> [session |-> a, path |-> FALSE, launchTime |-> 0]

Bounds ==
    /\ now <= MaxTime
    /\ \A s \in Sessions : Len(player.waitingStreamIDs[s]) <= MaxWaiting
    /\ Len(player.sessionAssignmentBacklog) <= MaxWaiting + 1
    /\ \A c \in Circuits : player.heap[c].failures <= MaxFailures
    /\ Len(player.commands) <= MaxCommands
    /\ player.circuitsBuilding \in 0..MaxBuilding

MCNext ==
    \/ StreamEvent /\ Bounds'
    \/ CircuitAssigned /\ Bounds'
    \/ CircuitBuilt /\ Bounds'
    \/ CircuitGone /\ Bounds'
    \/ PlayTimer /\ Bounds'
    \/ CommandSent /\ Bounds'
    \/ Tick /\ Bounds'

MCSpec == Init /\ [][MCNext]_vars
=============================================================================
