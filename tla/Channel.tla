------------------------------ MODULE Channel ------------------------------
(***************************************************************************)
(* What a connection promises to the one who writes to it: bytes leave in  *)
(* the order they were put in, each at most once, and none is left behind. *)
(***************************************************************************)
EXTENDS Naturals, Sequences, SequencesExt

VARIABLES
    pending,  \* put in and not yet taken out
    sent,     \* taken out
    faults    \* how often something was lost

vars == <<pending, sent, faults>>

Init == pending = <<>> /\ sent = <<>> /\ faults = 0

Put == IsPrefix(pending, pending') /\ UNCHANGED <<sent, faults>>

Take == IsPrefix(sent, sent') /\ sent' \o pending' = sent \o pending /\ UNCHANGED faults

\* Some bytes are taken, and some that follow them are lost.
Lose ==
    \E i, j \in 0..Len(pending) :
        /\ sent' = sent \o SubSeq(pending, 1, i)
        /\ pending' = SubSeq(pending, j + 1, Len(pending)) /\ i < j
        /\ faults' = faults + 1

Spec == Init /\ [][Put \/ Take \/ Lose]_vars

\* Nothing is lost.
Keeps == [][IsPrefix(sent \o pending, sent' \o pending')]_vars

\* When nothing more is put in, everything is taken out.
Drains == pending # <<>> ~> pending = <<>>
=============================================================================
