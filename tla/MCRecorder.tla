----------------------------- MODULE MCRecorder -----------------------------
(* Small instances of Recorder: a bound on the commands under way.         *)
EXTENDS Recorder

CONSTANTS MaxCommands, u, v

Bounds == Len(recorder.commands) <= MaxCommands

MCNext ==
    \/ Deliver /\ Bounds'
    \/ Cleanup /\ Bounds'
    \/ Shutdown \/ Stop
    \/ TorWatches \/ TorListsCircuits \/ TorListsInOneLine
    \/ \E id \in CircuitIDs :
          \/ TorClosesOnRequest(id)
          \/ TorLaunches(id) \/ TorExtends(id) \/ TorBuilds(id)
          \/ TorFails(id) \/ TorCloses(id)
          \/ \E user \in Users \cup {NoUser} : TorSucceeds(id, user)

MCSpec == Init /\ [][MCNext]_vars
=============================================================================
