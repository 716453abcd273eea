---------------------------- MODULE EventManager ----------------------------
(***************************************************************************)
(* The table of watches and the epoll instance behind it                   *)
(* (src/src/oniontrace-event-manager.c), as operators on a record with the *)
(* fields                                                                  *)
(*                                                                         *)
(*   watches  what to call for each descriptor, NoWatch when nothing       *)
(*   epoll    what the kernel polls each descriptor for                    *)
(*                                                                         *)
(* The two part ways when a descriptor is closed: the kernel forgets it,   *)
(* the table does not, and the number may come to name something else.     *)
(***************************************************************************)
EXTENDS Integers

CONSTANT NoWatch

\* Mutation of Register: a watch that cannot be removed is not replaced.
RegisterIfRemoved(m, fd, watch) ==
    IF m.epoll[fd] = "NONE" /\ m.watches[fd] # NoWatch THEN m
    ELSE [m EXCEPT !.watches[fd] = watch, !.epoll[fd] = watch.type]

\* Mutation of Register: the old watch stays in the table.
RegisterKept(m, fd, watch) ==
    IF m.epoll[fd] = "NONE" /\ m.watches[fd] # NoWatch THEN [m EXCEPT !.epoll[fd] = watch.type]
    ELSE [m EXCEPT !.watches[fd] = watch, !.epoll[fd] = watch.type]

\* epoll refuses to delete a descriptor that it does not poll, and then the
\* watch stays in the table.
Deregister(m, fd) ==
    IF m.watches[fd] = NoWatch \/ m.epoll[fd] = "NONE" THEN m
    ELSE [m EXCEPT !.watches[fd] = NoWatch, !.epoll[fd] = "NONE"]

\* A watch that is there is removed first; whether that succeeded is ignored.
\* epoll refuses to add a descriptor that it polls already.
Register(m, fd, watch) ==
    LET cleared == Deregister(m, fd)
    IN IF cleared.epoll[fd] # "NONE" THEN cleared
       ELSE [cleared EXCEPT !.watches[fd] = watch, !.epoll[fd] = watch.type]

\* close(): the kernel stops polling the descriptor.
Unpoll(m, fd) == [m EXCEPT !.epoll[fd] = "NONE"]
=============================================================================
