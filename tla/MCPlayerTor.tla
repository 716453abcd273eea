---------------------------- MODULE MCPlayerTor ----------------------------
(* Small instances of PlayerTor: traces and users of streams.              *)
EXTENDS PlayerTor, TLC

CONSTANTS a, b

\* Session a rotates at time 1; session b is not in the trace.
TraceRotating ==
    1 :> [session |-> a, path |-> TRUE, launchTime |-> 0]
 @@ 2 :> [session |-> a, path |-> TRUE, launchTime |-> 1]

\* Two sessions that launch at the same time.
TraceOfTwo ==
    1 :> [session |-> a, path |-> TRUE, launchTime |-> 1]
 @@ 2 :> [session |-> b, path |-> TRUE, launchTime |-> 1]

\* A second circuit that is due long after the first was built.
TraceSpread ==
    1 :> [session |-> a, path |-> TRUE, launchTime |-> 0]
 @@ 2 :> [session |-> a, path |-> TRUE, launchTime |-> 3]

\* One stream for each session, one more for a, one that Tor shall place.
UserOf == [st \in Streams |-> CASE st = 1 -> a [] st = 2 -> b [] st = 3 -> a [] OTHER -> NoSession]

=============================================================================
