------------------------------ MODULE Commands ------------------------------
(***************************************************************************)
(* How TorCtl writes to Tor (src/src/oniontrace-torctl.c): commands are    *)
(* queued and flushed when the event loop finds the socket writable.  The  *)
(* connection has one watch, which either reads or writes: it writes as    *)
(* long as commands wait, and only then goes back to reading.              *)
(*                                                                         *)
(* The loop asks epoll which descriptors are ready and then calls their    *)
(* handlers one by one (src/src/oniontrace-event-manager.c), so a handler  *)
(* of another descriptor may queue commands, and with that replace the     *)
(* watch, after epoll reported the connection and before it is handled.    *)
(***************************************************************************)
EXTENDS Integers, Sequences, SequencesExt

CONSTANTS
    Length,       \* the length of each command, in the order they are issued
    MaxIncoming,  \* how many lines Tor sends
    MaxErrors     \* how often send() may fail (EAGAIN)

ASSUME CommandsAssumption ==
    /\ Length \in Seq(Nat \ {0})
    /\ MaxIncoming \in Nat
    /\ MaxErrors \in Nat

VARIABLES
    commands,  \* the queue of commands, each a string of bytes
    sent,      \* the bytes that the socket accepted
    watch,     \* what the connection is registered for, and with which handler
    ready,     \* what epoll reported for it and is not handled yet
    issued,    \* how many commands were issued
    incoming,  \* how many lines wait in the socket
    received,  \* how many lines Tor has sent
    errors     \* how often send() failed

vars == <<commands, sent, watch, ready, issued, incoming, received, errors>>

\* Bytes are told apart by the command they belong to and their place in it.
Byte == Nat \X Nat
Text(n) == [i \in 1..Length[n] |-> <<n, i>>]

Init ==
    /\ commands = <<>> /\ sent = <<>>
    /\ watch = "READ" /\ ready = "NONE"
    /\ issued = 0 /\ incoming = 0 /\ received = 0 /\ errors = 0

-----------------------------------------------------------------------------
(* flushCommands                                                           *)

\* Mutation of Registered: back to reading although commands wait.
RegisteredToRead(q) == "READ"

\* Mutation of Registered: nothing is registered once all is sent.
RegisteredIfAny(q) == IF q = <<>> THEN "NONE" ELSE "WRITE"

\* Mutation of Registered: once it writes, it never goes back to reading.
RegisteredToWrite(q) == "WRITE"

\* flushCommands always ends by registering the connection anew.
Registered(q) == IF q = <<>> THEN "READ" ELSE "WRITE"

\* Mutation of Rest: the part that was sent stays in front of the queue.
RestResent(q, n, k) == SubSeq(q, n + 1, Len(q))

\* What is left after n whole commands and k bytes of the next were sent.
Rest(q, n, k) == <<SubSeq(q[n + 1], k + 1, Len(q[n + 1]))>> \o SubSeq(q, n + 2, Len(q))

\* The loop ends when the queue is empty, or with a command that is sent in
\* part.  A command that was erased by an error has no bytes: it counts as sent.
SendsAll(q) ==
    /\ sent' = sent \o FlattenSeq(q)
    /\ commands' = <<>>
    /\ UNCHANGED errors

SendsPart(q) ==
    \E n \in 0..(Len(q) - 1) : \E k \in 1..(Len(q[n + 1]) - 1) :
        /\ sent' = sent \o FlattenSeq(SubSeq(q, 1, n)) \o SubSeq(q[n + 1], 1, k)
        /\ commands' = Rest(q, n, k)
        /\ UNCHANGED errors

\* When send() fails, its result -1 is the length that g_string_erase is given,
\* which means all of the command.
SendFails(q) ==
    \E n \in 0..(Len(q) - 1) :
        /\ q[n + 1] # <<>>
        /\ errors < MaxErrors
        /\ errors' = errors + 1
        /\ sent' = sent \o FlattenSeq(SubSeq(q, 1, n))
        /\ commands' = <<<<>>>> \o SubSeq(q, n + 2, Len(q))

FlushCommands ==
    /\ ready = "WRITE"
    /\ SendsAll(commands) \/ SendsPart(commands) \/ SendFails(commands)
    /\ watch' = Registered(commands')
    /\ ready' = "NONE"
    /\ UNCHANGED <<issued, incoming, received>>

\* epoll reported the connection as readable, but its handler is flushCommands
\* by now: nothing is sent or read.
FlushUnready ==
    /\ ready = "READ" /\ watch = "WRITE"
    /\ watch' = Registered(commands)
    /\ ready' = "NONE"
    /\ UNCHANGED <<commands, sent, issued, incoming, received, errors>>

-----------------------------------------------------------------------------
(* commandHelperV, called by the handlers of timers and of lines           *)

Queued(n) == commands \o [i \in 1..n |-> Text(issued + i)]

\* A handler issues n commands, each of which is queued and the watch renewed.
Issues(n) ==
    /\ issued + n <= Len(Length)
    /\ issued' = issued + n
    /\ commands' = Queued(n)
    /\ watch' = IF n = 0 THEN watch ELSE Registered(commands')

TimerHandler ==
    /\ \E n \in 1..2 : Issues(n)
    /\ UNCHANGED <<sent, ready, incoming, received, errors>>

\* receiveLines reads all there is, even after one of the lines had a command
\* issued.
ReceiveLines ==
    /\ ready = "READ" /\ watch = "READ"
    /\ \E n \in 0..2 : Issues(n)
    /\ incoming' = 0
    /\ ready' = "NONE"
    /\ UNCHANGED <<sent, received, errors>>

(* epoll and Tor                                                           *)

\* A connection is reported for what it is registered for.  A socket that is
\* full becomes writable once Tor has read from it.
Poll ==
    /\ ready = "NONE"
    /\ watch = "READ" => incoming > 0
    /\ ready' = watch
    /\ UNCHANGED <<commands, sent, watch, issued, incoming, received, errors>>

TorSends ==
    /\ received < MaxIncoming
    /\ received' = received + 1
    /\ incoming' = incoming + 1
    /\ UNCHANGED <<commands, sent, watch, ready, issued, errors>>

Next ==
    \/ FlushCommands
    \/ FlushUnready
    \/ TimerHandler
    \/ ReceiveLines
    \/ Poll
    \/ TorSends

Spec == Init /\ [][Next]_vars

\* The event loop polls again and again and handles what it was told.
Fairness == WF_vars(Poll) /\ WF_vars(FlushCommands \/ FlushUnready \/ ReceiveLines)

FairSpec == Spec /\ Fairness

-----------------------------------------------------------------------------
(* What TorCtl promises to those who issue commands                        *)

\* Type correctness.
TypeOK ==
    /\ commands \in Seq(Seq(Byte)) /\ sent \in Seq(Byte)
    /\ watch \in {"READ", "WRITE"} /\ ready \in {"NONE", "READ", "WRITE"}
    /\ issued \in 0..Len(Length) /\ incoming \in Nat
    /\ received \in 0..MaxIncoming /\ errors \in 0..MaxErrors

\* torctl.c:546-556, the one watch: the connection is registered for writing
\* exactly while commands wait, and a report of "writable" is handled by
\* flushCommands, never by receiveLines.
WatchFollowsQueue ==
    /\ watch = "WRITE" <=> commands # <<>>
    /\ ready = "WRITE" => watch = "WRITE"

C == INSTANCE Channel WITH pending <- FlattenSeq(commands), faults <- errors

\* torctl.c:519-543: the bytes of the commands leave in order, each at most once,
\* however send() cuts them, and none is lost unless send() fails.
ImplementsChannel == C!Spec

\* torctl.c:538 "partial or no send" and 553 "we still want to write more": a
\* command stays in the queue until send() has accepted it.
KeptUntilSent == C!Keeps

\* torctl.c:552-556, the flush is resumed until it is done: a command does not
\* wait for ever (the instances issue finitely many).
EverythingSent == C!Drains

\* torctl.c:548-551, reading is resumed after a flush: writing does not starve it,
\* and what Tor sends is read, sooner or later.
EverythingRead == incoming > 0 ~> incoming = 0
=============================================================================
