--------------------------- MODULE LifecycleProofs ---------------------------
(* Proofs about module Lifecycle.                                           *)
EXTENDS Lifecycle, SequenceTheorems, FiniteSetTheorems, WellFoundedInduction, TLAPS

-----------------------------------------------------------------------------
(* The inductive invariant                                                 *)

\* How many timers the Driver has.
Fixed == IF config.limited THEN 3 ELSE 1

OnEvent(callback) == IF callback = "play" THEN "playTimerReadable" ELSE "genericTimerReadable"

Ticking == {"idle", "armed", "expired"}

\* The timers of the Driver are the first ones and are kept, those of the Player follow.
TimersNumbered(o) ==
    /\ Len(o.timers) >= Fixed
    /\ o.timers[1].callback = "heartbeat"
    /\ config.limited => o.timers[2].callback = "cleanup" /\ o.timers[3].callback = "shutdown"
    /\ \A id \in DOMAIN o.timers :
          IF id > Fixed THEN o.timers[id].callback = "play" ELSE o.timers[id].fd # Freed

\* A timer that was not freed is polled for its own watch; what is open is the
\* socket or such a timer; what is closed is not polled, whatever the table holds.
TimersWired(o) ==
    /\ \A id \in DOMAIN o.timers : o.timers[id].fd # Freed =>
          /\ o.open[o.timers[id].fd] \in Ticking
          /\ o.watches[o.timers[id].fd] = Watch("READ", OnEvent(o.timers[id].callback), id)
          /\ o.epoll[o.timers[id].fd] = "READ"
    /\ \A fd \in Descriptors :
          /\ o.open[fd] = "closed" => o.epoll[fd] = "NONE"
          /\ o.open[fd] = "socket" <=> fd = o.socket
          /\ o.open[fd] \in Ticking => \E id \in DOMAIN o.timers : o.timers[id].fd = fd

Timed(o) == o \in Process /\ o.socket \in Descriptors /\ TimersNumbered(o) /\ TimersWired(o)

\* The watch of the connection follows the state of TorCtl and its commands.
SocketWatch(o) ==
    IF o.torctl = "NONE" THEN Watch("WRITE", "onConnected", TorCtl)
    ELSE IF o.commands = <<>> THEN Watch("READ", "receiveLines", TorCtl)
    ELSE Watch("WRITE", "flushCommands", TorCtl)

Wired(o) ==
    /\ Timed(o)
    /\ o.watches[o.socket] = SocketWatch(o) /\ o.epoll[o.socket] = SocketWatch(o).type
    /\ o.torctl = "NONE" => o.commands = <<>>

PlayTimers(o) == {id \in DOMAIN o.timers : o.timers[id].callback = "play" /\ o.timers[id].fd # Freed}

\* There is one play timer while launches remain, and none otherwise.
Plays(o) ==
    /\ \A i, j \in PlayTimers(o) : i = j
    /\ PlayTimers(o) # {} <=> o.engine = "play" /\ o.launches > 0
    /\ \A id \in PlayTimers(o) : o.open[o.timers[id].fd] \in {"armed", "expired"}

\* What epoll reported still names what it named then.
BatchWired(o, b) ==
    /\ \A e \in b : o.open[e[1]] \in {"socket", "expired"}
    /\ \A e, f \in b : e[1] = f[1] => e = f

\* The shutdown does not overtake the cleanup: neither in the kernel, nor in the batch.
CleanupFirst(o, b) ==
    config.limited =>
        LET cleanup == o.timers[2].fd
            shutdown == o.timers[3].fd
        IN  /\ o.open[shutdown] # "armed" => o.open[cleanup] # "armed"
            /\ o.open[shutdown] = "idle" \/ (\E e \in b : e[1] = shutdown) =>
                  o.open[cleanup] = "idle" \/ \E e \in b : e[1] = cleanup

\* Before the start.
Fresh(o) ==
    /\ o.timers = <<>> /\ o.torctl = "NONE" /\ o.engine = "none" /\ o.commands = <<>>
    /\ o.watches = [fd \in Descriptors |-> NoWatch]
    /\ o.open = [fd \in Descriptors |-> "closed"]
    /\ o.epoll = [fd \in Descriptors |-> "NONE"]

\* Before Tor accepts the authentication, only that was asked for and nothing was
\* answered with success; what Tor says of its progress remains true.
Unauthenticated(o, sent) ==
    /\ o.torctl \in {"NONE", "AUTHENTICATE"}
    /\ \A i \in DOMAIN o.commands : o.commands[i] = "AUTHENTICATE"
    /\ \A i \in DOMAIN sent : sent[i] = "AUTHENTICATE"

Working(o) == o.torctl = "PROCESSING" /\ o.engine = config.mode

Believes(o, sent) ==
    /\ o.engine # "none" => Working(o) /\ tor.progress = Bootstrapped
    /\ ~tor.authenticated => Unauthenticated(o, sent)

TruthTold(received) ==
    \A i \in DOMAIN received :
        /\ received[i] = OK => tor.authenticated
        /\ received[i].type = "PROGRESS" => received[i].progress <= tor.progress

LifecycleIInv ==
    /\ TypeOK
    /\ Believes(ot, toTor) /\ TruthTold(fromTor)
    /\ phase = "starting" => Fresh(ot) /\ batch = {} /\ ~receiving
    /\ phase = "looping" =>
        /\ Wired(ot)
        /\ Plays(ot)
        /\ BatchWired(ot, batch)
        /\ CleanupFirst(ot, batch)
        /\ receiving => ot.torctl # "NONE"

-----------------------------------------------------------------------------
(* Descriptors                                                             *)

LEMMA MinIsMember ==
    ASSUME NEW S, S \subseteq Nat, S # {}
    PROVE  Min(S) \in S
  <1> DEFINE R == OpToRel(<, Nat)
  <1>1. IsWellFoundedOn(R, Nat)
    BY NatLessThanWellFounded
  <1>2. \A m, n \in Nat : m < n => <<m, n>> \in R
    BY DEF OpToRel
  <1> HIDE DEF R
  <1>3. PICK x \in S : \A y \in S : ~ (<<y, x>> \in R)
    BY <1>1, WFMin
  <1>4. \A y \in S : x =< y
    <2>1. SUFFICES ASSUME NEW y \in S PROVE ~ (y < x)
      OBVIOUS
    <2>2. QED
      BY <1>2, <1>3
  <1>5. QED
    BY <1>4 DEF Min

LEMMA LowestIsFree ==
    ASSUME NEW o, \E fd \in Descriptors : o.open[fd] = "closed"
    PROVE  LowestFree(o) \in Descriptors /\ o.open[LowestFree(o)] = "closed"
  <1> DEFINE S == {fd \in Descriptors : o.open[fd] = "closed"}
  <1>1. S \subseteq Nat /\ S # {}
    BY LifecycleAssumption
  <1> HIDE DEF S
  <1>2. Min(S) \in S
    BY <1>1, MinIsMember
  <1>3. QED
    BY <1>2 DEF LowestFree, S

LEMMA OneFewer ==
    ASSUME NEW S, IsFiniteSet(S), NEW x, NEW n \in Nat, Cardinality(S) >= n + 1
    PROVE  IsFiniteSet(S \ {x}) /\ Cardinality(S \ {x}) >= n
  <1>1. Cardinality(S) \in Nat
    BY FS_CardinalityType
  <1>2. IsFiniteSet(S \ {x})
    BY FS_RemoveElement
  <1>3. Cardinality(S \ {x}) = IF x \in S THEN Cardinality(S) - 1 ELSE Cardinality(S)
    BY FS_RemoveElement
  <1>4. QED
    BY <1>1, <1>2, <1>3

\* The socket, the Driver's timers and two play timers do not exhaust the descriptors.
LEMMA SixAreEnough ==
    ASSUME NEW a, NEW b, NEW c, NEW d, NEW e
    PROVE  \E fd \in Descriptors : fd \notin {a, b, c, d, e}
  <1> DEFINE A == Descriptors \ {a}
             B == A \ {b}
             C == B \ {c}
             D == C \ {d}
             E == D \ {e}
  <1>1. IsFiniteSet(A) /\ Cardinality(A) >= 5
    <2>1. IsFiniteSet(Descriptors) /\ Cardinality(Descriptors) >= 5 + 1
      BY LifecycleAssumption
    <2>2. QED
      BY <2>1, OneFewer
  <1>2. IsFiniteSet(B) /\ Cardinality(B) >= 4
    <2> HIDE DEF A
    <2>1. Cardinality(A) >= 4 + 1
      BY <1>1
    <2>2. QED
      BY <1>1, <2>1, OneFewer
  <1>3. IsFiniteSet(C) /\ Cardinality(C) >= 3
    <2> HIDE DEF B
    <2>1. Cardinality(B) >= 3 + 1
      BY <1>2
    <2>2. QED
      BY <1>2, <2>1, OneFewer
  <1>4. IsFiniteSet(D) /\ Cardinality(D) >= 2
    <2> HIDE DEF C
    <2>1. Cardinality(C) >= 2 + 1
      BY <1>3
    <2>2. QED
      BY <1>3, <2>1, OneFewer
  <1>5. IsFiniteSet(E) /\ Cardinality(E) >= 1
    <2> HIDE DEF D
    <2>1. Cardinality(D) >= 1 + 1
      BY <1>4
    <2>2. QED
      BY <1>4, <2>1, OneFewer
  <1>6. E # {}
    <2> HIDE DEF E
    <2>1. QED
      BY <1>5, FS_EmptySet
  <1>7. QED
    BY <1>6

-----------------------------------------------------------------------------
(* The operations of the event manager and of timers, field by field       *)

LEMMA WatchType ==
    ASSUME NEW type \in {"READ", "WRITE"}, NEW arg \in Nat,
           NEW onEvent \in {"onConnected", "flushCommands", "receiveLines",
                            "genericTimerReadable", "playTimerReadable"}
    PROVE  /\ Watch(type, onEvent, arg) \in Watching
           /\ Watch(type, onEvent, arg) # NoWatch
           /\ Watch(type, onEvent, arg).type = type
           /\ Watch(type, onEvent, arg).onEvent = onEvent
           /\ Watch(type, onEvent, arg).arg = arg
  BY LifecycleAssumption DEF Watch, Watching

\* The event manager changes its two tables only.
Unmanaged(o, q) ==
    /\ q.shouldStopLoop = o.shouldStopLoop /\ q.open = o.open /\ q.timers = o.timers
    /\ q.state = o.state /\ q.engine = o.engine /\ q.launches = o.launches
    /\ q.socket = o.socket /\ q.torctl = o.torctl
    /\ q.isStatusEventSet = o.isStatusEventSet /\ q.commands = o.commands

LEMMA DeregisterResult ==
    ASSUME NEW o \in Process, NEW fd \in Descriptors
    PROVE  LET q == Deregister(o, fd)
           IN /\ q \in Process /\ Unmanaged(o, q)
              /\ \A g \in Descriptors \ {fd} : q.watches[g] = o.watches[g] /\ q.epoll[g] = o.epoll[g]
              /\ o.epoll[fd] = "NONE" \/ o.watches[fd] # NoWatch => q.epoll[fd] = "NONE"
  <1>1. CASE o.watches[fd] = NoWatch \/ o.epoll[fd] = "NONE"
    BY <1>1 DEF Deregister, Unmanaged
  <1>2. CASE ~ (o.watches[fd] = NoWatch \/ o.epoll[fd] = "NONE")
    <2> DEFINE q == [o EXCEPT !.watches[fd] = NoWatch, !.epoll[fd] = "NONE"]
    <2>1. Deregister(o, fd) = q
      BY <1>2 DEF Deregister
    <2>2. q \in Process /\ Unmanaged(o, q)
      BY DEF Process, Unmanaged
    <2>3. \A g \in Descriptors \ {fd} : q.watches[g] = o.watches[g] /\ q.epoll[g] = o.epoll[g]
      BY DEF Process
    <2>4. q.epoll[fd] = "NONE"
      BY DEF Process
    <2> HIDE DEF q
    <2>5. QED
      BY <2>1, <2>2, <2>3, <2>4
  <1>3. QED
    BY <1>1, <1>2

LEMMA RegisterResult ==
    ASSUME NEW o \in Process, NEW fd \in Descriptors, NEW w \in Watching,
           o.epoll[fd] = "NONE" \/ o.watches[fd] # NoWatch
    PROVE  LET q == Register(o, fd, w)
           IN /\ q \in Process /\ Unmanaged(o, q)
              /\ \A g \in Descriptors \ {fd} : q.watches[g] = o.watches[g] /\ q.epoll[g] = o.epoll[g]
              /\ q.watches[fd] = w /\ q.epoll[fd] = w.type
  <1> DEFINE d == Deregister(o, fd)
             q == [d EXCEPT !.watches[fd] = w, !.epoll[fd] = w.type]
  <1>1. /\ d \in Process /\ Unmanaged(o, d)
        /\ \A g \in Descriptors \ {fd} : d.watches[g] = o.watches[g] /\ d.epoll[g] = o.epoll[g]
        /\ d.epoll[fd] = "NONE"
    BY DeregisterResult
  <1>2. Register(o, fd, w) = q
    BY <1>1 DEF Register
  <1> HIDE DEF d
  <1>3. w.type \in {"READ", "WRITE"}
    BY DEF Watching
  <1>4. q \in Process /\ Unmanaged(d, q)
    BY <1>1, <1>3 DEF Process, Unmanaged
  <1>5. /\ \A g \in Descriptors \ {fd} : q.watches[g] = d.watches[g] /\ q.epoll[g] = d.epoll[g]
        /\ q.watches[fd] = w /\ q.epoll[fd] = w.type
    BY <1>1, <1>3 DEF Process
  <1> HIDE DEF q
  <1>6. Unmanaged(o, q)
    BY <1>1, <1>4 DEF Unmanaged
  <1>7. QED
    BY <1>1, <1>2, <1>4, <1>5, <1>6

Timer == [callback : Callback, fd : Descriptors \cup {Freed}]

LEMMA ProcessType ==
    ASSUME NEW o \in Process
    PROVE  /\ o.watches \in [Descriptors -> Watching \cup {NoWatch}]
           /\ o.epoll \in [Descriptors -> {"NONE", "READ", "WRITE"}]
           /\ o.open \in [Descriptors -> Object]
           /\ o.timers \in Seq(Timer)
           /\ o.launches \in 0..MaxLaunches /\ o.socket \in Descriptors \cup {0}
           /\ o.torctl \in {"NONE", "AUTHENTICATE", "BOOTSTRAP", "PROCESSING"}
           /\ o.engine \in {"none", "record", "play", "log"}
           /\ o.commands \in Seq(Command)
  BY DEF Process, Timer

LEMMA TimerType ==
    ASSUME NEW o \in Process, NEW id \in DOMAIN o.timers
    PROVE  /\ id \in Nat /\ 1 <= id /\ id <= Len(o.timers) /\ DOMAIN o.timers = 1..Len(o.timers)
           /\ o.timers[id] \in Timer
           /\ o.timers[id].callback \in Callback /\ o.timers[id].fd \in Descriptors \cup {Freed}
  <1>1. o.timers \in Seq(Timer)
    BY DEF Process, Timer
  <1>2. /\ id \in Nat /\ 1 <= id /\ id <= Len(o.timers) /\ DOMAIN o.timers = 1..Len(o.timers)
        /\ o.timers[id] \in Timer
    BY <1>1
  <1>3. \A t \in Timer : t.callback \in Callback /\ t.fd \in Descriptors \cup {Freed}
    BY DEF Timer
  <1>4. QED
    BY <1>2, <1>3

\* What a handler about timers leaves alone.
Untimed(o, q) ==
    /\ q.shouldStopLoop = o.shouldStopLoop
    /\ q.state = o.state /\ q.engine = o.engine /\ q.launches = o.launches
    /\ q.socket = o.socket /\ q.torctl = o.torctl
    /\ q.isStatusEventSet = o.isStatusEventSet /\ q.commands = o.commands

LEMMA NewTimerResult ==
    ASSUME NEW o \in Process, NEW callback \in Callback,
           \E fd \in Descriptors : o.open[fd] = "closed"
    PROVE  LET q == NewTimer(o, callback)
               fd == LowestFree(o)
           IN /\ q \in Process /\ Untimed(o, q)
              /\ q.watches = o.watches /\ q.epoll = o.epoll
              /\ q.timers = Append(o.timers, [callback |-> callback, fd |-> fd])
              /\ q.open = [o.open EXCEPT ![fd] = "armed"]
  <1> DEFINE fd == LowestFree(o)
             timer == [callback |-> callback, fd |-> fd]
             q == [o EXCEPT !.timers = Append(@, timer), !.open[fd] = "armed"]
  <1>1. fd \in Descriptors
    BY LowestIsFree
  <1>2. timer \in Timer
    BY <1>1 DEF Timer
  <1>3. NewTimer(o, callback) = q
    BY DEF NewTimer
  <1> HIDE DEF fd, timer
  <1>4. Append(o.timers, timer) \in Seq(Timer)
    BY <1>2, ProcessType, AppendProperties
  <1>5. [o.open EXCEPT ![fd] = "armed"] \in [Descriptors -> Object]
    BY <1>1 DEF Process, Object
  <1>6. /\ q.timers = Append(o.timers, timer) /\ q.open = [o.open EXCEPT ![fd] = "armed"]
        /\ q.watches = o.watches /\ q.epoll = o.epoll
        /\ Untimed(o, q)
    BY DEF Process, Untimed
  <1>7. q \in Process
    BY <1>4, <1>5 DEF Process, Timer
  <1> HIDE DEF q
  <1>8. QED
    BY <1>3, <1>6, <1>7 DEF fd, timer

\* A new timer has a descriptor that was closed, is armed, and polled for its watch.
LEMMA StartTimerResult ==
    ASSUME NEW o \in Process, NEW callback \in Callback,
           \E fd \in Descriptors : o.open[fd] = "closed",
           \A fd \in Descriptors : o.open[fd] = "closed" => o.epoll[fd] = "NONE"
    PROVE  LET q == StartTimer(o, callback)
               fd == LowestFree(o)
               id == Len(o.timers) + 1
           IN /\ fd \in Descriptors /\ o.open[fd] = "closed"
              /\ q \in Process /\ Untimed(o, q)
              /\ q.timers = Append(o.timers, [callback |-> callback, fd |-> fd])
              /\ q.open = [o.open EXCEPT ![fd] = "armed"]
              /\ \A g \in Descriptors \ {fd} : q.watches[g] = o.watches[g] /\ q.epoll[g] = o.epoll[g]
              /\ q.watches[fd] = Watch("READ", OnEvent(callback), id) /\ q.epoll[fd] = "READ"
  <1> DEFINE fd == LowestFree(o)
             id == Len(o.timers) + 1
             c == NewTimer(o, callback)
             w == Watch("READ", OnEvent(callback), id)
             timer == [callback |-> callback, fd |-> fd]
  <1>1. /\ c \in Process /\ Untimed(o, c)
        /\ c.watches = o.watches /\ c.epoll = o.epoll
        /\ c.timers = Append(o.timers, timer)
        /\ c.open = [o.open EXCEPT ![fd] = "armed"]
    BY NewTimerResult
  <1>2. fd \in Descriptors /\ o.open[fd] = "closed"
    BY LowestIsFree
  <1>3. timer \in Timer
    BY <1>2 DEF Timer
  <1>4. o.timers \in Seq(Timer)
    BY ProcessType
  <1>5. Len(c.timers) = id /\ c.timers[id] = timer /\ id \in Nat
    <2> HIDE DEF timer, c
    <2>1. QED
      BY <1>1, <1>3, <1>4
  <1>6. w \in Watching /\ w.type = "READ"
    BY <1>5, WatchType DEF OnEvent
  <1>7. c.epoll[fd] = "NONE"
    BY <1>1, <1>2
  <1>8. StartTimer(o, callback) = Register(c, fd, w)
    BY <1>5 DEF StartTimer, OnEvent
  <1> HIDE DEF fd, id, c, w, timer
  <1> DEFINE q == Register(c, fd, w)
  <1>9. /\ q \in Process /\ Unmanaged(c, q)
        /\ \A g \in Descriptors \ {fd} : q.watches[g] = c.watches[g] /\ q.epoll[g] = c.epoll[g]
        /\ q.watches[fd] = w /\ q.epoll[fd] = w.type
    BY <1>1, <1>2, <1>6, <1>7, RegisterResult
  <1> HIDE DEF q
  <1>10. Untimed(o, q) /\ q.timers = c.timers /\ q.open = c.open
    BY <1>1, <1>9 DEF Untimed, Unmanaged
  <1>11. QED
    BY <1>1, <1>2, <1>6, <1>8, <1>9, <1>10 DEF fd, id, w, timer, q

LEMMA FreeTimerResult ==
    ASSUME NEW o \in Process, NEW id \in DOMAIN o.timers, o.timers[id].fd \in Descriptors
    PROVE  LET q == FreeTimer(o, id)
               fd == o.timers[id].fd
           IN /\ q \in Process /\ Untimed(o, q) /\ q.watches = o.watches
              /\ q.epoll = [o.epoll EXCEPT ![fd] = "NONE"]
              /\ q.open = [o.open EXCEPT ![fd] = "closed"]
              /\ q.timers = [o.timers EXCEPT ![id].fd = Freed]
  <1> DEFINE fd == o.timers[id].fd
             u == [o EXCEPT !.epoll[fd] = "NONE"]
             v == [u EXCEPT !.open[fd] = "closed"]
             q == [v EXCEPT !.timers[id].fd = Freed]
  <1>1. FreeTimer(o, id) = q
    BY DEF FreeTimer, Close, Unpoll
  <1>2. /\ u \in Process /\ Untimed(o, u) /\ u.watches = o.watches
        /\ u.epoll = [o.epoll EXCEPT ![fd] = "NONE"] /\ u.open = o.open /\ u.timers = o.timers
    BY DEF Process, Untimed
  <1> HIDE DEF u
  <1>3. /\ v \in Process /\ Untimed(u, v) /\ v.watches = u.watches
        /\ v.epoll = u.epoll /\ v.open = [u.open EXCEPT ![fd] = "closed"] /\ v.timers = u.timers
    BY <1>2 DEF Process, Untimed, Object
  <1> HIDE DEF v
  <1>4. [v.timers EXCEPT ![id].fd = Freed] \in Seq(Timer)
    <2>1. v.timers \in Seq(Timer) /\ id \in 1..Len(v.timers) /\ v.timers[id] \in Timer
      BY <1>2, <1>3, ProcessType, TimerType DEF Timer
    <2>2. \A t \in Timer : [t EXCEPT !.fd = Freed] \in Timer
      BY DEF Timer
    <2>3. \A t \in Timer : [v.timers EXCEPT ![id] = t] \in Seq(Timer)
      BY <2>1, ExceptSeq
    <2>4. QED
      BY <2>1, <2>2, <2>3
  <1>5. /\ q \in Process /\ Untimed(v, q) /\ q.watches = v.watches
        /\ q.epoll = v.epoll /\ q.open = v.open /\ q.timers = [v.timers EXCEPT ![id].fd = Freed]
    BY <1>3, <1>4 DEF Process, Untimed, Timer
  <1> HIDE DEF q
  <1>6. Untimed(o, q)
    BY <1>2, <1>3, <1>5 DEF Untimed
  <1>7. QED
    BY <1>1, <1>2, <1>3, <1>5, <1>6

-----------------------------------------------------------------------------
(* The connection is watched                                               *)

\* Nothing that concerns timers changes; the connection may.
TimersKept(o, q) ==
    /\ q.open = o.open /\ q.timers = o.timers
    /\ q.engine = o.engine /\ q.launches = o.launches /\ q.socket = o.socket
    /\ \A g \in Descriptors \ {o.socket} : q.watches[g] = o.watches[g] /\ q.epoll[g] = o.epoll[g]

LEMMA TimersKeptTimed ==
    ASSUME NEW o, Timed(o), NEW q \in Process, TimersKept(o, q)
    PROVE  Timed(q)
  <1>1. TimersNumbered(q) /\ q.socket \in Descriptors
    BY DEF Timed, TimersKept, TimersNumbered
  <1>2. TimersWired(q)
    <2>1. ASSUME NEW id \in DOMAIN o.timers, o.timers[id].fd # Freed
          PROVE  /\ q.open[o.timers[id].fd] \in Ticking
                 /\ q.watches[o.timers[id].fd] = Watch("READ", OnEvent(o.timers[id].callback), id)
                 /\ q.epoll[o.timers[id].fd] = "READ"
      <3>1. o \in Process
        BY DEF Timed
      <3>2. o.timers[id].fd \in Descriptors
        BY <2>1, <3>1, TimerType
      <3>3. o.timers[id].fd # o.socket
        BY <2>1, <3>2 DEF Timed, TimersWired, Ticking
      <3>4. QED
        BY <2>1, <3>2, <3>3 DEF Timed, TimersWired, TimersKept
    <2>2. ASSUME NEW fd \in Descriptors
          PROVE  /\ q.open[fd] = "closed" => q.epoll[fd] = "NONE"
                 /\ q.open[fd] = "socket" <=> fd = q.socket
                 /\ q.open[fd] \in Ticking => \E id \in DOMAIN q.timers : q.timers[id].fd = fd
      BY DEF Timed, TimersWired, TimersKept
    <2>3. q.timers = o.timers
      BY DEF TimersKept
    <2>4. QED
      BY <2>1, <2>2, <2>3 DEF TimersWired
  <1>3. QED
    BY <1>1, <1>2 DEF Timed

\* The connection can be registered anew.
Linked(o) == o.epoll[o.socket] = "NONE" \/ o.watches[o.socket] # NoWatch

LEMMA SocketWatchType ==
    ASSUME NEW o
    PROVE  SocketWatch(o) \in Watching /\ SocketWatch(o) # NoWatch
  <1>1. TorCtl \in Nat
    BY DEF TorCtl
  <1>2. QED
    BY <1>1, WatchType DEF SocketWatch

LEMMA WiredLinked ==
    ASSUME NEW o, Wired(o)
    PROVE  Timed(o) /\ Linked(o)
  BY SocketWatchType DEF Wired, Linked

LEMMA ReregisterWires ==
    ASSUME NEW o, Timed(o), Linked(o), o.torctl # "NONE"
    PROVE  LET q == Reregister(o)
           IN  /\ Wired(q) /\ TimersKept(o, q) /\ Unmanaged(o, q)
  <1> DEFINE d == Deregister(o, o.socket)
             w == SocketWatch(o)
             q == Register(d, o.socket, w)
  <1>1. o \in Process /\ o.socket \in Descriptors
    BY DEF Timed
  <1>2. Reregister(o) = q
    BY DEF Reregister, SocketWatch
  <1>3. /\ d \in Process /\ Unmanaged(o, d)
        /\ \A g \in Descriptors \ {o.socket} : d.watches[g] = o.watches[g] /\ d.epoll[g] = o.epoll[g]
        /\ d.epoll[o.socket] = "NONE"
    BY <1>1, DeregisterResult DEF Linked
  <1>4. w \in Watching
    BY SocketWatchType
  <1> HIDE DEF d, w
  <1>5. /\ q \in Process /\ Unmanaged(d, q)
        /\ \A g \in Descriptors \ {o.socket} : q.watches[g] = d.watches[g] /\ q.epoll[g] = d.epoll[g]
        /\ q.watches[o.socket] = w /\ q.epoll[o.socket] = w.type
    BY <1>1, <1>3, <1>4, RegisterResult
  <1> HIDE DEF q
  <1>6. Unmanaged(o, q)
    BY <1>3, <1>5 DEF Unmanaged
  <1>7. TimersKept(o, q)
    BY <1>3, <1>5, <1>6 DEF Unmanaged, TimersKept
  <1>8. Timed(q)
    BY <1>5, <1>7, TimersKeptTimed
  <1>9. q.socket = o.socket /\ SocketWatch(q) = w
    BY <1>6 DEF Unmanaged, SocketWatch, w
  <1>10. Wired(q)
    BY <1>5, <1>6, <1>8, <1>9 DEF Wired, Unmanaged
  <1>11. QED
    BY <1>2, <1>6, <1>7, <1>10

\* What is not about the connection's watch, when commands are queued.
LEMMA IssueWires ==
    ASSUME NEW o, Timed(o), Linked(o), o.torctl # "NONE", NEW command \in Command
    PROVE  LET q == Issue(o, command)
           IN  /\ Wired(q) /\ TimersKept(o, q) /\ q.torctl = o.torctl
               /\ q.shouldStopLoop = o.shouldStopLoop
               /\ q.commands = Append(o.commands, command)
  <1> DEFINE i == [o EXCEPT !.commands = Append(@, command)]
             q == Reregister(i)
  <1>1. o \in Process /\ o.commands \in Seq(Command)
    BY ProcessType DEF Timed
  <1>2. Append(o.commands, command) \in Seq(Command)
    BY <1>1
  <1>3. /\ i \in Process /\ TimersKept(o, i) /\ i.commands = Append(o.commands, command)
        /\ i.torctl = o.torctl /\ i.shouldStopLoop = o.shouldStopLoop
        /\ i.watches = o.watches /\ i.epoll = o.epoll /\ i.socket = o.socket
    BY <1>1, <1>2 DEF Process, TimersKept
  <1>4. Issue(o, command) = q
    BY DEF Issue
  <1> HIDE DEF i
  <1>5. Timed(i) /\ Linked(i)
    BY <1>3, TimersKeptTimed DEF Linked
  <1>6. Wired(q) /\ TimersKept(i, q) /\ Unmanaged(i, q)
    BY <1>3, <1>5, ReregisterWires
  <1> HIDE DEF q
  <1>7. TimersKept(o, q)
    BY <1>3, <1>6 DEF TimersKept
  <1>8. QED
    BY <1>3, <1>4, <1>6, <1>7 DEF Unmanaged

-----------------------------------------------------------------------------
(* Timers come and go                                                      *)

\* A descriptor has one timer.
LEMMA OneTimerEach ==
    ASSUME NEW o \in Process, TimersWired(o),
           NEW i \in DOMAIN o.timers, NEW j \in DOMAIN o.timers,
           o.timers[i].fd # Freed, o.timers[j].fd = o.timers[i].fd
    PROVE  i = j
  <1>1. Watch("READ", OnEvent(o.timers[i].callback), i) = Watch("READ", OnEvent(o.timers[j].callback), j)
    BY DEF TimersWired
  <1>2. QED
    BY <1>1 DEF Watch

LEMMA StartTimerWires ==
    ASSUME NEW o \in Process, o.socket \in Descriptors, TimersWired(o),
           NEW callback \in Callback, \E fd \in Descriptors : o.open[fd] = "closed"
    PROVE  LET q == StartTimer(o, callback)
               fd == LowestFree(o)
           IN  /\ q \in Process /\ TimersWired(q) /\ Untimed(o, q)
               /\ fd \in Descriptors /\ o.open[fd] = "closed"
               /\ q.timers = Append(o.timers, [callback |-> callback, fd |-> fd])
               /\ q.open = [o.open EXCEPT ![fd] = "armed"]
               /\ q.watches[o.socket] = o.watches[o.socket] /\ q.epoll[o.socket] = o.epoll[o.socket]
  <1> DEFINE q == StartTimer(o, callback)
             fd == LowestFree(o)
             n == Len(o.timers) + 1
             timer == [callback |-> callback, fd |-> fd]
  <1>1. /\ fd \in Descriptors /\ o.open[fd] = "closed"
        /\ q \in Process /\ Untimed(o, q)
        /\ q.timers = Append(o.timers, timer)
        /\ q.open = [o.open EXCEPT ![fd] = "armed"]
        /\ \A g \in Descriptors \ {fd} : q.watches[g] = o.watches[g] /\ q.epoll[g] = o.epoll[g]
        /\ q.watches[fd] = Watch("READ", OnEvent(callback), n) /\ q.epoll[fd] = "READ"
    BY StartTimerResult DEF TimersWired
  <1>2. timer \in Timer /\ timer.callback = callback /\ timer.fd = fd
    BY <1>1 DEF Timer
  <1> HIDE DEF q, fd, timer
  <1>3. o.timers \in Seq(Timer) /\ o.open \in [Descriptors -> Object]
    BY ProcessType
  <1>4. /\ DOMAIN q.timers = 1..n /\ DOMAIN o.timers = 1..(n - 1) /\ n \in Nat /\ n >= 1
        /\ q.timers[n] = timer /\ \A id \in 1..(n - 1) : q.timers[id] = o.timers[id]
    BY <1>1, <1>2, <1>3
  <1>5. fd # o.socket
    BY <1>1 DEF TimersWired
  <1>6. q.open[fd] = "armed" /\ \A g \in Descriptors \ {fd} : q.open[g] = o.open[g]
    BY <1>1, <1>3
  <1>7. ASSUME NEW id \in DOMAIN q.timers, q.timers[id].fd # Freed
        PROVE  /\ q.open[q.timers[id].fd] \in Ticking
               /\ q.watches[q.timers[id].fd] = Watch("READ", OnEvent(q.timers[id].callback), id)
               /\ q.epoll[q.timers[id].fd] = "READ"
    <2>1. CASE id = n
      BY <1>1, <1>2, <1>4, <1>6, <2>1 DEF Ticking
    <2>2. CASE id # n
      <3>1. id \in DOMAIN o.timers /\ q.timers[id] = o.timers[id]
        BY <1>4, <2>2
      <3>2. o.timers[id].fd \in Descriptors
        BY <1>7, <3>1, TimerType
      <3>3. /\ o.open[o.timers[id].fd] \in Ticking
            /\ o.watches[o.timers[id].fd] = Watch("READ", OnEvent(o.timers[id].callback), id)
            /\ o.epoll[o.timers[id].fd] = "READ"
        BY <1>7, <3>1 DEF TimersWired
      <3>4. o.timers[id].fd # fd
        BY <1>1, <3>3 DEF Ticking
      <3>5. QED
        BY <1>1, <1>6, <3>1, <3>2, <3>3, <3>4
    <2>3. QED
      BY <2>1, <2>2
  <1>8. ASSUME NEW g \in Descriptors
        PROVE  /\ q.open[g] = "closed" => q.epoll[g] = "NONE"
               /\ q.open[g] = "socket" <=> g = q.socket
               /\ q.open[g] \in Ticking => \E id \in DOMAIN q.timers : q.timers[id].fd = g
    <2>1. q.socket = o.socket
      BY <1>1 DEF Untimed
    <2>2. CASE g = fd
      BY <1>2, <1>4, <1>5, <1>6, <2>1, <2>2
    <2>3. CASE g # fd
      <3>1. q.open[g] = o.open[g] /\ q.epoll[g] = o.epoll[g]
        BY <1>1, <1>6, <2>3
      <3>2. o.open[g] \in Ticking => \E id \in DOMAIN o.timers : o.timers[id].fd = g
        BY DEF TimersWired
      <3>3. q.open[g] \in Ticking => \E id \in DOMAIN q.timers : q.timers[id].fd = g
        BY <1>4, <3>1, <3>2
      <3>4. QED
        BY <2>1, <3>1, <3>3 DEF TimersWired
    <2>4. QED
      BY <2>2, <2>3
  <1>9. TimersWired(q)
    BY <1>7, <1>8 DEF TimersWired
  <1>10. QED
    BY <1>1, <1>5, <1>9 DEF q, fd, timer

LEMMA FixedType == Fixed \in Nat /\ Fixed >= 1 /\ Fixed <= 3
  BY DEF Fixed

\* A play timer is added to what is wired.
LEMMA PlayTimerStarts ==
    ASSUME NEW o, Wired(o), \E fd \in Descriptors : o.open[fd] = "closed"
    PROVE  LET q == StartTimer(o, "play")
               fd == LowestFree(o)
           IN  /\ Wired(q) /\ Untimed(o, q)
               /\ fd \in Descriptors /\ o.open[fd] = "closed"
               /\ q.timers = Append(o.timers, [callback |-> "play", fd |-> fd])
               /\ q.open = [o.open EXCEPT ![fd] = "armed"]
  <1> DEFINE q == StartTimer(o, "play")
             fd == LowestFree(o)
             timer == [callback |-> "play", fd |-> fd]
  <1>1. o \in Process /\ o.socket \in Descriptors /\ TimersWired(o) /\ TimersNumbered(o)
    BY DEF Wired, Timed
  <1>2. "play" \in Callback
    BY DEF Callback
  <1>3. /\ q \in Process /\ TimersWired(q) /\ Untimed(o, q)
        /\ fd \in Descriptors /\ o.open[fd] = "closed"
        /\ q.timers = Append(o.timers, timer)
        /\ q.open = [o.open EXCEPT ![fd] = "armed"]
        /\ q.watches[o.socket] = o.watches[o.socket] /\ q.epoll[o.socket] = o.epoll[o.socket]
    BY <1>1, <1>2, StartTimerWires
  <1>4. timer \in Timer /\ timer.callback = "play"
    BY <1>2, <1>3 DEF Timer
  <1> HIDE DEF q, fd, timer
  <1>5. o.timers \in Seq(Timer)
    BY <1>1, ProcessType
  <1>6. /\ Len(q.timers) = Len(o.timers) + 1 /\ Len(o.timers) \in Nat
        /\ DOMAIN q.timers = 1..Len(o.timers) + 1 /\ DOMAIN o.timers = 1..Len(o.timers)
        /\ q.timers[Len(o.timers) + 1] = timer
        /\ \A id \in 1..Len(o.timers) : q.timers[id] = o.timers[id]
    BY <1>3, <1>4, <1>5
  <1>7. Len(o.timers) >= Fixed
    BY <1>1 DEF TimersNumbered
  <1>8. TimersNumbered(q)
    <2>1. Len(q.timers) >= Fixed
      BY <1>6, <1>7, FixedType
    <2>2. q.timers[1].callback = "heartbeat"
      BY <1>1, <1>6, <1>7, FixedType DEF TimersNumbered
    <2>3. config.limited => q.timers[2].callback = "cleanup" /\ q.timers[3].callback = "shutdown"
      BY <1>1, <1>6, <1>7 DEF TimersNumbered, Fixed
    <2>4. ASSUME NEW id \in DOMAIN q.timers
          PROVE  IF id > Fixed THEN q.timers[id].callback = "play" ELSE q.timers[id].fd # Freed
      <3>1. CASE id \in DOMAIN o.timers
        BY <1>1, <1>6, <3>1 DEF TimersNumbered
      <3>2. CASE id \notin DOMAIN o.timers
        <4>1. id = Len(o.timers) + 1
          BY <1>6, <3>2
        <4>2. id > Fixed
          BY <1>6, <1>7, <4>1, FixedType
        <4>3. QED
          BY <1>4, <1>6, <4>1, <4>2
      <3>3. QED
        BY <3>1, <3>2
    <2>5. QED
      BY <2>1, <2>2, <2>3, <2>4 DEF TimersNumbered
  <1>9. q.socket = o.socket /\ SocketWatch(q) = SocketWatch(o) /\ q.torctl = o.torctl /\ q.commands = o.commands
    BY <1>3 DEF Untimed, SocketWatch
  <1>10. Wired(q)
    BY <1>1, <1>3, <1>8, <1>9 DEF Wired, Timed
  <1>11. QED
    BY <1>3, <1>10 DEF q, fd, timer

\* A play timer is taken from what is wired.
LEMMA PlayTimerFreed ==
    ASSUME NEW o, Wired(o), NEW id \in PlayTimers(o), id > Fixed
    PROVE  LET q == FreeTimer(o, id)
           IN  /\ Wired(q) /\ Untimed(o, q)
               /\ q.timers = [o.timers EXCEPT ![id].fd = Freed]
               /\ q.open = [o.open EXCEPT ![o.timers[id].fd] = "closed"]
  <1> DEFINE q == FreeTimer(o, id)
             fd == o.timers[id].fd
  <1>1. o \in Process /\ o.socket \in Descriptors /\ TimersWired(o) /\ TimersNumbered(o)
    BY DEF Wired, Timed
  <1>2. id \in DOMAIN o.timers /\ fd # Freed
    BY DEF PlayTimers
  <1>3. fd \in Descriptors
    BY <1>1, <1>2, TimerType
  <1>4. /\ q \in Process /\ Untimed(o, q) /\ q.watches = o.watches
        /\ q.epoll = [o.epoll EXCEPT ![fd] = "NONE"]
        /\ q.open = [o.open EXCEPT ![fd] = "closed"]
        /\ q.timers = [o.timers EXCEPT ![id].fd = Freed]
    BY <1>1, <1>2, <1>3, FreeTimerResult
  <1> HIDE DEF q
  <1>5. /\ q.epoll[fd] = "NONE" /\ q.open[fd] = "closed"
        /\ \A g \in Descriptors \ {fd} : q.epoll[g] = o.epoll[g] /\ q.open[g] = o.open[g]
    BY <1>1, <1>3, <1>4, ProcessType
  <1>6. /\ Len(q.timers) = Len(o.timers) /\ DOMAIN q.timers = DOMAIN o.timers
        /\ \A j \in DOMAIN o.timers : q.timers[j] = IF j = id THEN [o.timers[id] EXCEPT !.fd = Freed] ELSE o.timers[j]
    <2>1. o.timers \in Seq(Timer)
      BY <1>1, ProcessType
    <2>2. DOMAIN q.timers = DOMAIN o.timers /\ q.timers \in Seq(Timer)
      BY <1>1, <1>4, ProcessType
    <2>3. Len(q.timers) = Len(o.timers)
      BY <2>1, <2>2
    <2>4. QED
      BY <1>4, <2>2, <2>3
  <1>7. q.timers[id].fd = Freed /\ q.timers[id].callback = o.timers[id].callback
    <2>1. o.timers[id] \in Timer
      BY <1>1, <1>2, TimerType
    <2>2. \A t \in Timer : [t EXCEPT !.fd = Freed].fd = Freed /\ [t EXCEPT !.fd = Freed].callback = t.callback
      BY DEF Timer
    <2>3. QED
      BY <1>2, <1>6, <2>1, <2>2
  <1>8. o.open[fd] \in Ticking
    BY <1>1, <1>2 DEF TimersWired
  <1>9. fd # o.socket
    BY <1>1, <1>3, <1>8 DEF TimersWired, Ticking
  <1>10. TimersWired(q)
    <2>1. ASSUME NEW j \in DOMAIN q.timers, q.timers[j].fd # Freed
          PROVE  /\ q.open[q.timers[j].fd] \in Ticking
                 /\ q.watches[q.timers[j].fd] = Watch("READ", OnEvent(q.timers[j].callback), j)
                 /\ q.epoll[q.timers[j].fd] = "READ"
      <3>1. j # id /\ q.timers[j] = o.timers[j] /\ j \in DOMAIN o.timers
        BY <1>6, <1>7, <2>1
      <3>2. o.timers[j].fd # fd
        BY <1>1, <1>2, <3>1, OneTimerEach
      <3>3. o.timers[j].fd \in Descriptors
        BY <1>1, <2>1, <3>1, TimerType
      <3>4. QED
        BY <1>1, <1>4, <1>5, <2>1, <3>1, <3>2, <3>3 DEF TimersWired
    <2>2. ASSUME NEW g \in Descriptors
          PROVE  /\ q.open[g] = "closed" => q.epoll[g] = "NONE"
                 /\ q.open[g] = "socket" <=> g = q.socket
                 /\ q.open[g] \in Ticking => \E j \in DOMAIN q.timers : q.timers[j].fd = g
      <3>1. q.socket = o.socket
        BY <1>4 DEF Untimed
      <3>2. CASE g = fd
        BY <1>5, <1>9, <3>1, <3>2 DEF Ticking
      <3>3. CASE g # fd
        <4>1. q.open[g] = o.open[g] /\ q.epoll[g] = o.epoll[g]
          BY <1>5, <3>3
        <4>2. q.open[g] \in Ticking => \E j \in DOMAIN q.timers : q.timers[j].fd = g
          BY <1>1, <1>6, <3>3, <4>1 DEF TimersWired
        <4>3. QED
          BY <1>1, <3>1, <4>1, <4>2 DEF TimersWired
      <3>4. QED
        BY <3>2, <3>3
    <2>3. QED
      BY <2>1, <2>2 DEF TimersWired
  <1>11. TimersNumbered(q)
    <2>1. \A j \in DOMAIN o.timers : q.timers[j].callback = o.timers[j].callback
      BY <1>6, <1>7
    <2>2. Fixed \in Nat /\ Len(o.timers) \in Nat /\ DOMAIN o.timers = 1..Len(o.timers) /\ Len(o.timers) >= Fixed
      BY <1>1, FixedType, ProcessType DEF TimersNumbered
    <2>3. 1 \in DOMAIN o.timers /\ (config.limited => 2 \in DOMAIN o.timers /\ 3 \in DOMAIN o.timers)
      BY <2>2 DEF Fixed
    <2>4. \A j \in DOMAIN o.timers : j <= Fixed => q.timers[j] = o.timers[j]
      BY <1>6, <2>2
    <2>5. QED
      BY <1>1, <1>6, <2>1, <2>2, <2>3, <2>4 DEF TimersNumbered
  <1>12. q.socket = o.socket /\ SocketWatch(q) = SocketWatch(o) /\ q.torctl = o.torctl /\ q.commands = o.commands
    BY <1>4 DEF Untimed, SocketWatch
  <1>13. q.watches[q.socket] = SocketWatch(q) /\ q.epoll[q.socket] = SocketWatch(q).type
    BY <1>1, <1>4, <1>5, <1>9, <1>12 DEF Wired
  <1>14. Wired(q)
    BY <1>1, <1>4, <1>10, <1>11, <1>12, <1>13 DEF Wired, Timed
  <1>15. QED
    BY <1>4, <1>14 DEF q

\* What counts down, expires or is read stays what it is.
LEMMA TimerTurns ==
    ASSUME NEW o, Wired(o), NEW fd \in Descriptors, o.open[fd] \in Ticking, NEW x \in Ticking
    PROVE  LET q == [o EXCEPT !.open[fd] = x]
           IN  /\ Wired(q) /\ Untimed(o, q)
               /\ q.timers = o.timers /\ q.open = [o.open EXCEPT ![fd] = x]
  <1> DEFINE q == [o EXCEPT !.open[fd] = x]
  <1>1. o \in Process /\ o.socket \in Descriptors /\ TimersWired(o) /\ TimersNumbered(o)
    BY DEF Wired, Timed
  <1>2. /\ q \in Process /\ Untimed(o, q)
        /\ q.watches = o.watches /\ q.epoll = o.epoll
        /\ q.timers = o.timers /\ q.open = [o.open EXCEPT ![fd] = x]
    BY <1>1 DEF Process, Untimed, Ticking, Object
  <1> HIDE DEF q
  <1>3. q.open[fd] = x /\ \A g \in Descriptors \ {fd} : q.open[g] = o.open[g]
    BY <1>1, <1>2, ProcessType
  <1>4. TimersNumbered(q)
    BY <1>1, <1>2 DEF TimersNumbered
  <1>5. q.socket = o.socket /\ q.commands = o.commands /\ q.torctl = o.torctl
    BY <1>2 DEF Untimed
  <1>6. TimersWired(q)
    <2>1. ASSUME NEW id \in DOMAIN o.timers, o.timers[id].fd # Freed
          PROVE  q.open[o.timers[id].fd] \in Ticking
      <3>1. o.timers[id].fd \in Descriptors
        BY <1>1, <2>1, TimerType
      <3>2. QED
        BY <1>1, <1>3, <2>1, <3>1 DEF TimersWired
    <2>2. ASSUME NEW g \in Descriptors
          PROVE  /\ q.open[g] = "closed" => q.epoll[g] = "NONE"
                 /\ q.open[g] = "socket" <=> g = q.socket
                 /\ q.open[g] \in Ticking => \E id \in DOMAIN o.timers : o.timers[id].fd = g
      <3>1. q.open[g] \in Ticking => o.open[g] \in Ticking
        BY <1>3
      <3>2. q.open[g] \notin Ticking => q.open[g] = o.open[g]
        BY <1>3
      <3>3. "closed" \notin Ticking /\ "socket" \notin Ticking
        BY DEF Ticking
      <3>4. CASE g = fd
        BY <1>1, <1>2, <1>3, <1>5, <3>1, <3>3, <3>4 DEF TimersWired
      <3>5. CASE g # fd
        BY <1>1, <1>2, <1>3, <1>5, <3>5 DEF TimersWired
      <3>6. QED
        BY <3>4, <3>5
    <2>3. QED
      BY <1>1, <1>2, <2>1, <2>2 DEF TimersWired
  <1>7. SocketWatch(q) = SocketWatch(o)
    BY <1>5 DEF SocketWatch
  <1>8. Wired(q)
    BY <1>1, <1>2, <1>4, <1>5, <1>6, <1>7 DEF Wired, Timed
  <1>9. QED
    BY <1>2, <1>8 DEF q

\* The Driver's own timers are what they are called.
LEMMA FixedTimers ==
    ASSUME NEW o, Timed(o)
    PROVE  /\ 1 \in DOMAIN o.timers /\ o.timers[1].fd \in Descriptors /\ o.timers[1].fd # Freed
           /\ \A id \in DOMAIN o.timers : o.timers[id].callback = "heartbeat" <=> id = 1
           /\ config.limited =>
                /\ 2 \in DOMAIN o.timers /\ o.timers[2].fd \in Descriptors /\ o.timers[2].fd # Freed
                /\ 3 \in DOMAIN o.timers /\ o.timers[3].fd \in Descriptors /\ o.timers[3].fd # Freed
                /\ o.timers[2].fd # o.timers[3].fd
                /\ \A id \in DOMAIN o.timers : o.timers[id].callback = "cleanup" <=> id = 2
                /\ \A id \in DOMAIN o.timers : o.timers[id].callback = "shutdown" <=> id = 3
           /\ \A id \in DOMAIN o.timers : id > Fixed <=> o.timers[id].callback = "play"
           /\ \A id \in DOMAIN o.timers : id <= Fixed => id = 1 \/ (config.limited /\ (id = 2 \/ id = 3))
  <1>1. o \in Process /\ TimersWired(o) /\ TimersNumbered(o)
    BY DEF Timed
  <1>2. /\ Len(o.timers) \in Nat /\ DOMAIN o.timers = 1..Len(o.timers)
        /\ \A id \in DOMAIN o.timers : o.timers[id].fd \in Descriptors \cup {Freed}
    BY <1>1, ProcessType, TimerType
  <1>3. 1 \in DOMAIN o.timers /\ (config.limited => 2 \in DOMAIN o.timers /\ 3 \in DOMAIN o.timers)
    BY <1>1, <1>2 DEF TimersNumbered, Fixed
  <1>4. \A id \in DOMAIN o.timers : id <= Fixed => id = 1 \/ (config.limited /\ (id = 2 \/ id = 3))
    BY <1>2 DEF Fixed
  <1>5. \A id \in DOMAIN o.timers : IF id > Fixed THEN o.timers[id].callback = "play" ELSE o.timers[id].fd # Freed
    BY <1>1 DEF TimersNumbered
  <1>6. /\ o.timers[1].callback = "heartbeat"
        /\ config.limited => o.timers[2].callback = "cleanup" /\ o.timers[3].callback = "shutdown"
    BY <1>1 DEF TimersNumbered
  <1>7. \A id \in DOMAIN o.timers : id > Fixed \/ id <= Fixed
    BY <1>2, FixedType
  <1>8. ~ (1 > Fixed) /\ (config.limited => ~ (2 > Fixed) /\ ~ (3 > Fixed))
    BY DEF Fixed
  <1>9. config.limited => o.timers[2].fd # o.timers[3].fd
    <2>1. CASE config.limited
      <3>1. o.timers[2].fd # Freed
        BY <1>3, <1>5, <1>8, <2>1
      <3>2. QED
        BY <1>1, <1>3, <2>1, <3>1, OneTimerEach
    <2>2. QED
      BY <2>1
  <1>10. /\ o.timers[1].fd # Freed
         /\ config.limited => o.timers[2].fd # Freed /\ o.timers[3].fd # Freed
    BY <1>3, <1>5, <1>8
  <1>11. \A id \in DOMAIN o.timers : o.timers[id].callback = "heartbeat" <=> id = 1
    BY <1>4, <1>5, <1>6, <1>7
  <1>12. config.limited => \A id \in DOMAIN o.timers : o.timers[id].callback = "cleanup" <=> id = 2
    BY <1>4, <1>5, <1>6, <1>7
  <1>13. config.limited => \A id \in DOMAIN o.timers : o.timers[id].callback = "shutdown" <=> id = 3
    BY <1>4, <1>5, <1>6, <1>7
  <1>14. \A id \in DOMAIN o.timers : id > Fixed <=> o.timers[id].callback = "play"
    <2>1. ASSUME NEW id \in DOMAIN o.timers, ~ (id > Fixed) PROVE o.timers[id].callback # "play"
      <3>1. id = 1 \/ (config.limited /\ (id = 2 \/ id = 3))
        BY <1>4, <1>7, <2>1
      <3>2. QED
        BY <1>6, <3>1
    <2>2. QED
      BY <1>5, <2>1
  <1>15. QED
    BY <1>2, <1>3, <1>4, <1>9, <1>10, <1>11, <1>12, <1>13, <1>14

\* A descriptor is free as long as there is no more than one play timer.
LEMMA SpareDescriptor ==
    ASSUME NEW o, Timed(o), \A i, j \in PlayTimers(o) : i = j
    PROVE  \E fd \in Descriptors : o.open[fd] = "closed"
  <1> DEFINE p == CHOOSE id \in PlayTimers(o) : TRUE
             a == o.timers[1].fd
             b == o.timers[2].fd
             c == o.timers[3].fd
             d == o.timers[p].fd
  <1>1. o \in Process /\ TimersWired(o)
    BY DEF Timed
  <1>2. PICK fd \in Descriptors : fd \notin {o.socket, a, b, c, d}
    BY SixAreEnough
  <1>3. o.open[fd] # "socket"
    BY <1>1, <1>2 DEF TimersWired
  <1>4. o.open[fd] \notin Ticking
    <2>1. SUFFICES ASSUME o.open[fd] \in Ticking PROVE FALSE
      OBVIOUS
    <2>2. PICK id \in DOMAIN o.timers : o.timers[id].fd = fd
      BY <1>1, <2>1 DEF TimersWired
    <2>3. CASE id > Fixed
      <3>1. fd # Freed
        BY LifecycleAssumption DEF Freed
      <3>2. id \in PlayTimers(o)
        BY <2>2, <2>3, <3>1, FixedTimers DEF PlayTimers
      <3>3. id = p
        BY <3>2
      <3>4. QED
        BY <1>2, <2>2, <3>3
    <2>4. CASE ~ (id > Fixed)
      <3>1. id \in Nat
        BY <1>1, TimerType
      <3>2. id <= Fixed
        BY <2>4, <3>1, FixedType
      <3>3. QED
        BY <1>2, <2>2, <3>2, FixedTimers
    <2>5. QED
      BY <2>3, <2>4
  <1>5. o.open[fd] = "closed"
    BY <1>1, <1>3, <1>4, ProcessType DEF Ticking, Object
  <1>6. QED
    BY <1>5

\* What a play callback does to the timers.
PlayTimerAdded(o, q) ==
    LET fd == LowestFree(o)
    IN  /\ fd \in Descriptors /\ o.open[fd] = "closed"
        /\ q.timers = Append(o.timers, [callback |-> "play", fd |-> fd])
        /\ q.open = [o.open EXCEPT ![fd] = "armed"]

\* The fields that Believes and SocketWatch look at, apart from the commands.
SameStates(o, q) == q.engine = o.engine /\ q.torctl = o.torctl /\ q.socket = o.socket

LEMMA PlayCallbackResult ==
    ASSUME NEW o, Wired(o), o.torctl # "NONE", NEW c \in Choice, c.due <= o.launches,
           \A i, j \in PlayTimers(o) : i = j
    PROVE  LET q == PlayCallback(o, c)
           IN  /\ Wired(q) /\ SameStates(o, q)
               /\ q.launches = o.launches - c.due
               /\ IF q.launches > 0 THEN PlayTimerAdded(o, q)
                  ELSE q.timers = o.timers /\ q.open = o.open
  <1> DEFINE i == IF c.extends THEN Issue(o, "EXTENDCIRCUIT") ELSE o
             l == [i EXCEPT !.launches = @ - c.due]
             q == PlayCallback(o, c)
  <1>1. "EXTENDCIRCUIT" \in Command
    BY DEF Command
  <1>2. Wired(i) /\ TimersKept(o, i) /\ i.torctl = o.torctl
    <2>1. CASE c.extends
      <3>1. Timed(o) /\ Linked(o)
        BY WiredLinked
      <3>2. QED
        BY <1>1, <2>1, <3>1, IssueWires
    <2>2. CASE ~ c.extends
      BY <2>2 DEF TimersKept
    <2>3. QED
      BY <2>1, <2>2
  <1>3. q = IF l.launches > 0 THEN StartTimer(l, "play") ELSE l
    BY DEF PlayCallback
  <1> HIDE DEF i
  <1>4. i \in Process /\ i.launches = o.launches /\ i.launches \in 0..MaxLaunches
    BY <1>2, ProcessType DEF Wired, Timed, TimersKept
  <1>5. c.due \in 0..MaxLaunches
    BY DEF Choice
  <1>6. i.launches - c.due \in 0..MaxLaunches
    BY <1>4, <1>5, LifecycleAssumption
  <1>7. /\ l \in Process /\ l.launches = o.launches - c.due
        /\ l.watches = i.watches /\ l.epoll = i.epoll /\ l.open = i.open /\ l.timers = i.timers
        /\ l.engine = i.engine /\ l.torctl = i.torctl /\ l.socket = i.socket /\ l.commands = i.commands
    BY <1>4, <1>6 DEF Process
  <1> HIDE DEF l, q
  <1>8. Wired(l)
    <2>1. TimersNumbered(l) /\ TimersWired(l)
      BY <1>2, <1>7 DEF Wired, Timed, TimersNumbered, TimersWired
    <2>2. SocketWatch(l) = SocketWatch(i)
      BY <1>7 DEF SocketWatch
    <2>3. QED
      BY <1>2, <1>7, <2>1, <2>2 DEF Wired, Timed
  <1>9. SameStates(o, l) /\ l.timers = o.timers /\ l.open = o.open
    BY <1>2, <1>7 DEF SameStates, TimersKept
  <1>10. CASE l.launches > 0
    <2>1. \E fd \in Descriptors : l.open[fd] = "closed"
      BY <1>9, SpareDescriptor DEF Wired
    <2>2. /\ Wired(q) /\ Untimed(l, q)
          /\ LowestFree(l) \in Descriptors /\ l.open[LowestFree(l)] = "closed"
          /\ q.timers = Append(l.timers, [callback |-> "play", fd |-> LowestFree(l)])
          /\ q.open = [l.open EXCEPT ![LowestFree(l)] = "armed"]
      BY <1>3, <1>8, <1>10, <2>1, PlayTimerStarts
    <2>3. LowestFree(l) = LowestFree(o)
      BY <1>9 DEF LowestFree
    <2>4. q.launches = l.launches /\ SameStates(o, q)
      BY <1>9, <2>2 DEF Untimed, SameStates
    <2>5. PlayTimerAdded(o, q)
      BY <1>9, <2>2, <2>3 DEF PlayTimerAdded
    <2>6. QED
      BY <1>7, <1>10, <2>2, <2>4, <2>5 DEF q
  <1>11. CASE ~ (l.launches > 0)
    <2>1. q = l
      BY <1>3, <1>11
    <2>2. QED
      BY <1>7, <1>8, <1>9, <1>11, <2>1 DEF q
  <1>12. QED
    BY <1>10, <1>11

-----------------------------------------------------------------------------
(* What a handler leaves of the batch and of the order of the last timers  *)

\* A handler for the event of descriptor fd: what else is open stays open for the
\* same, and the Driver keeps its timers.
Conserves(o, q, fd) ==
    /\ \A g \in Descriptors \ {fd} : o.open[g] # "closed" => q.open[g] = o.open[g]
    /\ \A id \in 1..Fixed : q.timers[id] = o.timers[id]

\* The batch without what was handled.
Remains(b, rest, fd) == rest \subseteq b /\ \A e \in b : e[1] # fd => e \in rest

LEMMA BatchKept ==
    ASSUME NEW o, NEW q, NEW fd, Conserves(o, q, fd),
           NEW b, b \subseteq Descriptors \X {"READ", "WRITE"}, BatchWired(o, b),
           NEW rest, rest \subseteq b, \A e \in rest : e[1] # fd
    PROVE  BatchWired(q, rest)
  <1>1. ASSUME NEW e \in rest PROVE q.open[e[1]] \in {"socket", "expired"}
    <2>1. e[1] \in Descriptors \ {fd} /\ o.open[e[1]] \in {"socket", "expired"}
      BY DEF BatchWired
    <2>2. QED
      BY <2>1 DEF Conserves
  <1>2. QED
    BY <1>1 DEF BatchWired

LEMMA CleanupStaysFirst ==
    ASSUME NEW o, Timed(o), NEW q, NEW fd, Conserves(o, q, fd),
           NEW b, CleanupFirst(o, b), NEW rest, Remains(b, rest, fd),
           config.limited /\ fd = o.timers[2].fd => q.open[fd] = "idle",
           config.limited /\ fd = o.timers[3].fd =>
              q.open[fd] = "idle" /\ o.open[fd] = "expired" /\ \E e \in b : e[1] = fd
    PROVE  CleanupFirst(q, rest)
  <1> DEFINE cleanup == o.timers[2].fd
             shutdown == o.timers[3].fd
  <1>1. SUFFICES ASSUME config.limited
                 PROVE  CleanupFirst(q, rest)
    BY DEF CleanupFirst
  <1>2. /\ cleanup \in Descriptors /\ shutdown \in Descriptors /\ cleanup # shutdown
        /\ o.open[cleanup] # "closed" /\ o.open[shutdown] # "closed"
    BY <1>1, FixedTimers DEF Timed, TimersWired, Ticking
  <1>3. q.timers[2] = o.timers[2] /\ q.timers[3] = o.timers[3]
    BY <1>1 DEF Conserves, Fixed
  <1>4. /\ o.open[shutdown] # "armed" => o.open[cleanup] # "armed"
        /\ o.open[shutdown] = "idle" \/ (\E e \in b : e[1] = shutdown) =>
              o.open[cleanup] = "idle" \/ \E e \in b : e[1] = cleanup
    BY <1>1 DEF CleanupFirst
  <1>5. /\ cleanup # fd => q.open[cleanup] = o.open[cleanup]
        /\ shutdown # fd => q.open[shutdown] = o.open[shutdown]
    BY <1>2 DEF Conserves
  <1>6. /\ cleanup = fd => q.open[cleanup] = "idle"
        /\ shutdown = fd => /\ q.open[shutdown] = "idle" /\ o.open[shutdown] = "expired"
                            /\ \E e \in b : e[1] = shutdown
    BY <1>1
  <1> HIDE DEF cleanup, shutdown
  <1>7. q.open[shutdown] # "armed" => q.open[cleanup] # "armed"
    BY <1>2, <1>4, <1>5, <1>6
  <1>8. ASSUME q.open[shutdown] = "idle" \/ \E e \in rest : e[1] = shutdown
        PROVE  q.open[cleanup] = "idle" \/ \E e \in rest : e[1] = cleanup
    <2>1. CASE cleanup = fd
      BY <1>6, <2>1
    <2>2. CASE cleanup # fd
      <3>1. o.open[shutdown] = "idle" \/ \E e \in b : e[1] = shutdown
        BY <1>5, <1>6, <1>8 DEF Remains
      <3>2. o.open[cleanup] = "idle" \/ \E e \in b : e[1] = cleanup
        BY <1>4, <3>1
      <3>3. QED
        BY <1>5, <2>2, <3>2 DEF Remains
    <2>3. QED
      BY <2>1, <2>2
  <1>9. QED
    BY <1>3, <1>7, <1>8 DEF CleanupFirst, cleanup, shutdown

\* The connection has no timer.
LEMMA SocketIsNoTimer ==
    ASSUME NEW o, Timed(o)
    PROVE  \A id \in DOMAIN o.timers : o.timers[id].fd # o.socket
  <1>1. SUFFICES ASSUME NEW id \in DOMAIN o.timers, o.timers[id].fd = o.socket PROVE FALSE
    OBVIOUS
  <1>2. o.socket # Freed
    BY LifecycleAssumption DEF Timed, Freed
  <1>3. o.open[o.socket] \in Ticking
    BY <1>1, <1>2 DEF Timed, TimersWired
  <1>4. o.open[o.socket] = "socket"
    BY DEF Timed, TimersWired
  <1>5. QED
    BY <1>3, <1>4 DEF Ticking

\* The event of the connection, and nothing else, is handled; or nothing is.
LEMMA SocketHandled ==
    ASSUME NEW o, Timed(o), NEW q, q.open = o.open, q.timers = o.timers,
           NEW b, b \subseteq Descriptors \X {"READ", "WRITE"}, BatchWired(o, b), CleanupFirst(o, b),
           NEW rest, Remains(b, rest, o.socket)
    PROVE  BatchWired(q, rest) /\ CleanupFirst(q, rest)
  <1>1. BatchWired(q, rest)
    BY DEF BatchWired, Remains
  <1>2. Conserves(o, q, o.socket)
    BY DEF Conserves
  <1>3. config.limited => o.socket # o.timers[2].fd /\ o.socket # o.timers[3].fd
    BY FixedTimers, SocketIsNoTimer
  <1>4. CleanupFirst(q, rest)
    BY <1>2, <1>3, CleanupStaysFirst
  <1>5. QED
    BY <1>1, <1>4

LEMMA PlaysKept ==
    ASSUME NEW o, Plays(o), NEW q, q.timers = o.timers, q.engine = o.engine, q.launches = o.launches,
           \A id \in PlayTimers(o) : q.open[o.timers[id].fd] = o.open[o.timers[id].fd]
    PROVE  Plays(q)
  <1>1. PlayTimers(q) = PlayTimers(o)
    BY DEF PlayTimers
  <1>2. QED
    BY <1>1 DEF Plays

-----------------------------------------------------------------------------
(* The event loop calls what belongs to the descriptor                     *)

LEMMA EventFinds ==
    ASSUME NEW o, Wired(o), NEW fd \in Descriptors, o.open[fd] \in {"socket", "expired"}
    PROVE  \/ fd = o.socket /\ o.watches[fd] = SocketWatch(o)
           \/ /\ o.open[fd] = "expired"
              /\ \E id \in DOMAIN o.timers :
                    /\ o.timers[id].fd = fd /\ fd # Freed
                    /\ o.watches[fd] = Watch("READ", OnEvent(o.timers[id].callback), id)
                    /\ o.watches[fd].arg = id
  <1>1. TimersWired(o)
    BY DEF Wired, Timed
  <1>2. CASE o.open[fd] = "socket"
    BY <1>1, <1>2 DEF TimersWired, Wired
  <1>3. CASE o.open[fd] = "expired"
    <2>1. PICK id \in DOMAIN o.timers : o.timers[id].fd = fd
      BY <1>1, <1>3 DEF TimersWired, Ticking
    <2>2. fd # Freed
      BY LifecycleAssumption DEF Freed
    <2>3. o.watches[fd] = Watch("READ", OnEvent(o.timers[id].callback), id)
      BY <1>1, <2>1, <2>2 DEF TimersWired
    <2>4. o.watches[fd].arg = id
      BY <2>3 DEF Watch
    <2>5. QED
      BY <1>3, <2>1, <2>2, <2>3, <2>4
  <1>4. QED
    BY <1>2, <1>3

LEMMA SocketHandler ==
    ASSUME NEW o
    PROVE  /\ SocketWatch(o).arg = TorCtl
           /\ SocketWatch(o).onEvent \in {"onConnected", "receiveLines", "flushCommands"}
           /\ SocketWatch(o).onEvent = "onConnected" <=> o.torctl = "NONE"
  BY DEF SocketWatch, Watch

\* A handler of timers is called for a timer of its kind that has expired.
LEMMA TimerFound ==
    ASSUME NEW o, Wired(o), NEW fd \in Descriptors, o.open[fd] \in {"socket", "expired"},
           NEW onEvent \in {"genericTimerReadable", "playTimerReadable"},
           o.watches[fd].onEvent = onEvent
    PROVE  LET id == o.watches[fd].arg
           IN  /\ id \in DOMAIN o.timers /\ o.timers[id].fd = fd /\ fd # Freed
               /\ o.open[fd] = "expired" /\ OnEvent(o.timers[id].callback) = onEvent
  <1>1. ~ (fd = o.socket /\ o.watches[fd] = SocketWatch(o))
    BY SocketHandler
  <1>2. PICK id \in DOMAIN o.timers :
              /\ o.timers[id].fd = fd /\ fd # Freed
              /\ o.watches[fd] = Watch("READ", OnEvent(o.timers[id].callback), id)
              /\ o.watches[fd].arg = id
    BY <1>1, EventFinds
  <1>3. o.open[fd] = "expired"
    BY <1>1, EventFinds
  <1>4. OnEvent(o.timers[id].callback) = onEvent
    BY <1>2 DEF Watch
  <1>5. QED
    BY <1>2, <1>3, <1>4

\* The handler of the connection is called for nothing else.
LEMMA SocketFound ==
    ASSUME NEW o, Wired(o), NEW fd \in Descriptors, o.open[fd] \in {"socket", "expired"},
           o.watches[fd].onEvent \in {"onConnected", "receiveLines", "flushCommands"}
    PROVE  fd = o.socket /\ o.watches[fd] = SocketWatch(o)
  <1>1. SUFFICES ASSUME NEW id \in DOMAIN o.timers,
                        o.watches[fd] = Watch("READ", OnEvent(o.timers[id].callback), id)
                 PROVE  FALSE
    BY EventFinds
  <1>2. QED
    BY <1>1 DEF Watch, OnEvent

-----------------------------------------------------------------------------
(* The handlers of timers                                                  *)

LEMMA GenericHandled ==
    ASSUME NEW o, Wired(o), Plays(o), o.engine # "none" => o.torctl = "PROCESSING",
           NEW id \in DOMAIN o.timers, o.timers[id].fd # Freed,
           o.open[o.timers[id].fd] = "expired",
           OnEvent(o.timers[id].callback) = "genericTimerReadable", NEW c
    PROVE  LET q == Notify(o, id, c)
               fd == o.timers[id].fd
           IN  /\ Wired(q) /\ Plays(q) /\ SameStates(o, q)
               /\ Conserves(o, q, fd) /\ (q.open[fd] = "idle" \/ id = 1)
               /\ q.commands = o.commands \/ o.engine # "none"
  <1> DEFINE fd == o.timers[id].fd
             callback == o.timers[id].callback
             x == IF callback = "heartbeat" THEN "armed" ELSE "idle"
             r == [o EXCEPT !.open[fd] = x]
             q == Notify(o, id, c)
  <1>1. o \in Process /\ fd \in Descriptors /\ TimersWired(o) /\ Timed(o)
    BY TimerType DEF Wired, Timed
  <1>2. callback \in {"heartbeat", "cleanup", "shutdown"}
    BY <1>1, TimerType DEF Callback, OnEvent
  <1>3. x \in Ticking /\ o.open[fd] \in Ticking
    BY DEF Ticking
  <1>4. q = CASE callback = "heartbeat" -> r
              [] callback = "cleanup" -> CleanupCallback(r)
              [] callback = "shutdown" -> ShutdownCallback(r)
              [] callback = "play" -> PlayCallback(r, c)
    BY DEF Notify
  <1>5. x = "idle" \/ id = 1
    BY <1>1, FixedTimers
  <1> HIDE DEF x
  <1>6. /\ Wired(r) /\ Untimed(o, r)
        /\ r.timers = o.timers /\ r.open = [o.open EXCEPT ![fd] = x]
    BY <1>1, <1>3, TimerTurns
  <1> HIDE DEF r, q
  <1>7. SameStates(o, r) /\ r.launches = o.launches /\ r.commands = o.commands
    BY <1>6 DEF Untimed, SameStates
  <1>8. /\ Wired(q) /\ SameStates(r, q) /\ q.launches = r.launches
        /\ q.timers = r.timers /\ q.open = r.open
        /\ q.commands = r.commands \/ r.engine # "none"
    <2>1. CASE callback = "heartbeat"
      BY <1>4, <1>6, <2>1 DEF SameStates
    <2>2. CASE callback = "cleanup"
      <3>1. q = CleanupCallback(r)
        BY <1>4, <2>2
      <3>2. CASE r.state = "RECORDING" /\ r.engine = "record"
        <4>1. r.torctl # "NONE"
          BY <1>7, <3>2 DEF SameStates
        <4>2. "GETINFO circuit-status" \in Command
          BY DEF Command
        <4>3. Wired(Issue(r, "GETINFO circuit-status"))
              /\ TimersKept(r, Issue(r, "GETINFO circuit-status"))
              /\ Issue(r, "GETINFO circuit-status").torctl = r.torctl
          BY <1>6, <4>1, <4>2, IssueWires, WiredLinked
        <4>4. q = Issue(r, "GETINFO circuit-status")
          BY <3>1, <3>2 DEF CleanupCallback
        <4>5. QED
          BY <3>2, <4>3, <4>4 DEF SameStates, TimersKept
      <3>3. CASE ~ (r.state = "RECORDING" /\ r.engine = "record")
        BY <1>6, <3>1, <3>3 DEF SameStates, CleanupCallback
      <3>4. QED
        BY <3>2, <3>3
    <2>3. CASE callback = "shutdown"
      <3>1. q = [r EXCEPT !.shouldStopLoop = TRUE]
        BY <1>4, <2>3 DEF ShutdownCallback
      <3>2. r \in Process
        BY <1>6 DEF Wired, Timed
      <3>3. q \in Process /\ TimersKept(r, q) /\ q.torctl = r.torctl /\ q.commands = r.commands
            /\ q.watches = r.watches /\ q.epoll = r.epoll
        BY <3>1, <3>2 DEF Process, TimersKept
      <3>4. Timed(q)
        BY <1>6, <3>3, TimersKeptTimed DEF Wired
      <3>5. q.socket = r.socket
        BY <3>3 DEF TimersKept
      <3>6. Wired(q)
        BY <1>6, <3>3, <3>4, <3>5 DEF Wired, SocketWatch
      <3>7. QED
        BY <3>3, <3>6 DEF TimersKept, SameStates
    <2>4. QED
      BY <1>2, <2>1, <2>2, <2>3
  <1>9. q.open = [o.open EXCEPT ![fd] = x] /\ q.timers = o.timers /\ q.launches = o.launches
    BY <1>6, <1>7, <1>8
  <1>10. SameStates(o, q) /\ q.engine = o.engine
    BY <1>7, <1>8 DEF SameStates
  <1>11. q.commands = o.commands \/ o.engine # "none"
    BY <1>7, <1>8 DEF SameStates
  <1>12. q.open[fd] = x /\ \A g \in Descriptors \ {fd} : q.open[g] = o.open[g]
    BY <1>1, <1>9, ProcessType
  <1>13. Conserves(o, q, fd)
    BY <1>9, <1>12 DEF Conserves
  <1>14. \A j \in PlayTimers(o) : q.open[o.timers[j].fd] = o.open[o.timers[j].fd]
    <2>1. SUFFICES ASSUME NEW j \in PlayTimers(o) PROVE q.open[o.timers[j].fd] = o.open[o.timers[j].fd]
      OBVIOUS
    <2>2. j \in DOMAIN o.timers /\ o.timers[j].callback = "play" /\ o.timers[j].fd # Freed
      BY DEF PlayTimers
    <2>3. j # id
      BY <1>2, <2>2
    <2>4. o.timers[j].fd # fd
      BY <1>1, <2>2, <2>3, OneTimerEach
    <2>5. o.timers[j].fd \in Descriptors
      BY <1>1, <2>2, TimerType
    <2>6. QED
      BY <1>12, <2>4, <2>5
  <1>15. Plays(q)
    BY <1>9, <1>10, <1>14, PlaysKept
  <1>16. QED
    BY <1>5, <1>8, <1>10, <1>11, <1>12, <1>13, <1>15 DEF q

LEMMA PlayHandled ==
    ASSUME NEW o, Wired(o), Plays(o), o.engine # "none" => o.torctl = "PROCESSING",
           NEW id \in DOMAIN o.timers, o.timers[id].fd # Freed,
           o.open[o.timers[id].fd] = "expired",
           OnEvent(o.timers[id].callback) = "playTimerReadable",
           NEW c \in Choice, c.due <= o.launches
    PROVE  LET q == PlayTimerReadable(o, id, c)
               fd == o.timers[id].fd
           IN  /\ Wired(q) /\ Plays(q) /\ SameStates(o, q)
               /\ Conserves(o, q, fd) /\ id > Fixed /\ o.engine # "none"
  <1> DEFINE fd == o.timers[id].fd
             n == Len(o.timers) + 1
             a == [o EXCEPT !.open[fd] = "idle"]
             r == PlayCallback(a, c)
             q == FreeTimer(r, id)
             lf == LowestFree(a)
             timer == [callback |-> "play", fd |-> lf]
  <1>1. o \in Process /\ fd \in Descriptors /\ TimersWired(o) /\ Timed(o)
    BY TimerType DEF Wired, Timed
  <1>2. o.timers[id].callback = "play"
    BY DEF OnEvent
  <1>3. id \in PlayTimers(o) /\ \A j \in PlayTimers(o) : j = id
    BY <1>2 DEF PlayTimers, Plays
  <1>4. o.engine = "play" /\ o.torctl = "PROCESSING" /\ o.launches > 0 /\ id > Fixed
    BY <1>1, <1>2, <1>3, FixedTimers DEF Plays
  <1>5. Notify(o, id, c) = r /\ PlayTimerReadable(o, id, c) = q
    BY <1>2 DEF Notify, PlayTimerReadable
  <1>6. "idle" \in Ticking /\ o.open[fd] \in Ticking
    BY DEF Ticking
  <1>7. /\ Wired(a) /\ Untimed(o, a)
        /\ a.timers = o.timers /\ a.open = [o.open EXCEPT ![fd] = "idle"]
    BY <1>1, <1>6, TimerTurns
  <1> HIDE DEF a
  <1>8. /\ SameStates(o, a) /\ a.launches = o.launches /\ a.torctl # "NONE"
        /\ a.open[fd] = "idle" /\ \A g \in Descriptors \ {fd} : a.open[g] = o.open[g]
    BY <1>1, <1>4, <1>7, ProcessType DEF Untimed, SameStates
  <1>9. PlayTimers(a) = PlayTimers(o)
    BY <1>7 DEF PlayTimers
  <1>10. /\ Wired(r) /\ SameStates(a, r)
         /\ r.launches = o.launches - c.due
         /\ IF r.launches > 0 THEN PlayTimerAdded(a, r) ELSE r.timers = a.timers /\ r.open = a.open
    BY <1>3, <1>7, <1>8, <1>9, PlayCallbackResult
  <1> HIDE DEF r
  <1>11. o.timers \in Seq(Timer) /\ DOMAIN o.timers = 1..n - 1 /\ n \in Nat /\ n >= 1
    BY <1>1, ProcessType
  <1>12. ASSUME r.launches > 0
         PROVE  /\ lf \in Descriptors /\ a.open[lf] = "closed" /\ lf # fd /\ lf # Freed
                /\ DOMAIN r.timers = 1..n /\ r.timers[n].callback = "play" /\ r.timers[n].fd = lf
                /\ \A j \in DOMAIN o.timers : r.timers[j] = o.timers[j]
                /\ r.open[lf] = "armed" /\ \A g \in Descriptors \ {lf} : r.open[g] = a.open[g]
    <2>1. /\ lf \in Descriptors /\ a.open[lf] = "closed"
          /\ r.timers = Append(o.timers, timer)
          /\ r.open = [a.open EXCEPT ![lf] = "armed"]
      BY <1>7, <1>10, <1>12 DEF PlayTimerAdded
    <2>2. lf # fd /\ lf # Freed
      BY <1>8, <2>1, LifecycleAssumption DEF Freed
    <2>3. timer \in Timer /\ timer.callback = "play" /\ timer.fd = lf
      BY <2>1 DEF Timer, Callback
    <2> HIDE DEF timer, lf
    <2>4. /\ DOMAIN r.timers = 1..n /\ r.timers[n] = timer
          /\ \A j \in DOMAIN o.timers : r.timers[j] = o.timers[j]
      BY <1>11, <2>1, <2>3
    <2>5. r.open[lf] = "armed" /\ \A g \in Descriptors \ {lf} : r.open[g] = a.open[g]
      BY <1>7, <2>1, ProcessType DEF Wired, Timed
    <2>6. QED
      BY <2>1, <2>2, <2>3, <2>4, <2>5
  <1>13. /\ id \in DOMAIN r.timers /\ r.timers[id] = o.timers[id]
         /\ \A j \in DOMAIN o.timers : r.timers[j] = o.timers[j]
         /\ r.open[fd] = "idle"
    <2>1. CASE r.launches > 0
      BY <1>8, <1>11, <1>12, <1>1, <2>1
    <2>2. CASE ~ (r.launches > 0)
      BY <1>7, <1>8, <1>10, <2>2
    <2>3. QED
      BY <2>1, <2>2
  <1>14. id \in PlayTimers(r)
    BY <1>2, <1>13 DEF PlayTimers
  <1>15. /\ Wired(q) /\ Untimed(r, q)
         /\ q.timers = [r.timers EXCEPT ![id].fd = Freed]
         /\ q.open = [r.open EXCEPT ![fd] = "closed"]
    BY <1>4, <1>10, <1>13, <1>14, PlayTimerFreed
  <1> HIDE DEF q
  <1>16. SameStates(o, q) /\ q.launches = r.launches
    BY <1>8, <1>10, <1>15 DEF SameStates, Untimed
  <1>17. \A g \in Descriptors \ {fd} : q.open[g] = r.open[g]
    BY <1>10, <1>15, ProcessType DEF Wired, Timed
  <1>18. DOMAIN q.timers = DOMAIN r.timers /\ \A j \in DOMAIN r.timers : j # id => q.timers[j] = r.timers[j]
    <2>1. q \in Process
      BY <1>15 DEF Wired, Timed
    <2>2. DOMAIN q.timers = DOMAIN r.timers
      BY <1>15
    <2>3. QED
      BY <1>15, <2>2
  <1>19. q.timers[id].fd = Freed
    <2>1. o.timers[id] \in Timer
      BY <1>1, TimerType
    <2>2. q.timers[id] = [o.timers[id] EXCEPT !.fd = Freed]
      BY <1>13, <1>15
    <2>3. QED
      BY <2>1, <2>2 DEF Timer
  <1>20. Conserves(o, q, fd)
    <2>1. ASSUME NEW g \in Descriptors \ {fd}, o.open[g] # "closed" PROVE q.open[g] = o.open[g]
      <3>1. a.open[g] = o.open[g]
        BY <1>8
      <3>2. r.open[g] = a.open[g]
        <4>1. CASE r.launches > 0
          BY <1>12, <2>1, <3>1, <4>1
        <4>2. CASE ~ (r.launches > 0)
          BY <1>10, <4>2
        <4>3. QED
          BY <4>1, <4>2
      <3>3. QED
        BY <1>17, <3>1, <3>2
    <2>2. ASSUME NEW j \in 1..Fixed PROVE q.timers[j] = o.timers[j]
      <3>1. Len(o.timers) >= Fixed /\ j # id
        BY <1>1, <1>4, FixedType DEF Timed, TimersNumbered
      <3>2. j \in DOMAIN o.timers
        BY <1>11, <3>1, FixedType
      <3>3. j \in DOMAIN r.timers
        <4>1. CASE r.launches > 0
          BY <1>11, <1>12, <3>2, <4>1
        <4>2. CASE ~ (r.launches > 0)
          BY <1>7, <1>10, <3>2, <4>2
        <4>3. QED
          BY <4>1, <4>2
      <3>4. QED
        BY <1>13, <1>18, <3>1, <3>2, <3>3
    <2>3. QED
      BY <2>1, <2>2 DEF Conserves
  <1>21. Plays(q)
    <2>1. CASE r.launches > 0
      <3>1. \A j \in PlayTimers(q) : j = n
        <4>1. SUFFICES ASSUME NEW j \in PlayTimers(q), j # n PROVE FALSE
          OBVIOUS
        <4>2. j \in DOMAIN q.timers /\ q.timers[j].callback = "play" /\ q.timers[j].fd # Freed
          BY DEF PlayTimers
        <4>3. j # id
          BY <1>19, <4>2
        <4>4. j \in DOMAIN o.timers
          BY <1>11, <1>12, <1>18, <2>1, <4>1, <4>2
        <4>5. q.timers[j] = o.timers[j]
          BY <1>13, <1>18, <4>2, <4>3, <4>4
        <4>6. j \in PlayTimers(o)
          BY <4>2, <4>4, <4>5 DEF PlayTimers
        <4>7. QED
          BY <1>3, <4>3, <4>6
      <3>2. n # id /\ n \in DOMAIN r.timers
        BY <1>11, <1>12, <2>1
      <3>3. q.timers[n] = r.timers[n] /\ n \in DOMAIN q.timers
        BY <1>18, <3>2
      <3>4. n \in PlayTimers(q)
        BY <1>12, <2>1, <3>3 DEF PlayTimers
      <3>5. q.open[q.timers[n].fd] = "armed"
        BY <1>12, <1>17, <2>1, <3>3
      <3>6. q.engine = "play" /\ q.launches > 0
        BY <1>4, <1>16, <2>1 DEF SameStates
      <3>7. QED
        BY <3>1, <3>4, <3>5, <3>6 DEF Plays
    <2>2. CASE ~ (r.launches > 0)
      <3>1. PlayTimers(q) = {}
        <4>1. SUFFICES ASSUME NEW j \in PlayTimers(q) PROVE FALSE
          OBVIOUS
        <4>2. j \in DOMAIN q.timers /\ q.timers[j].callback = "play" /\ q.timers[j].fd # Freed
          BY DEF PlayTimers
        <4>3. j # id
          BY <1>19, <4>2
        <4>4. j \in DOMAIN o.timers /\ q.timers[j] = o.timers[j]
          BY <1>7, <1>10, <1>18, <2>2, <4>2, <4>3
        <4>5. j \in PlayTimers(o)
          BY <4>2, <4>4 DEF PlayTimers
        <4>6. QED
          BY <1>3, <4>3, <4>5
      <3>2. ~ (q.launches > 0)
        BY <1>16, <2>2
      <3>3. QED
        BY <3>1, <3>2 DEF Plays
    <2>3. QED
      BY <2>1, <2>2
  <1>22. QED
    BY <1>4, <1>5, <1>15, <1>16, <1>20, <1>21 DEF q

-----------------------------------------------------------------------------
(* The handlers of the connection                                          *)

\* What the wiring does not look at may change.
LEMMA WiredAlike ==
    ASSUME NEW o, Wired(o), NEW q \in Process,
           q.watches = o.watches, q.epoll = o.epoll, q.open = o.open, q.timers = o.timers,
           q.socket = o.socket, q.commands = o.commands, q.torctl = "NONE" <=> o.torctl = "NONE"
    PROVE  Wired(q)
  <1>1. TimersNumbered(q) /\ TimersWired(q)
    BY DEF Wired, Timed, TimersNumbered, TimersWired
  <1>2. SocketWatch(q) = SocketWatch(o)
    BY DEF SocketWatch
  <1>3. QED
    BY <1>1, <1>2 DEF Wired, Timed

LEMMA IssueAgain ==
    ASSUME NEW o, Wired(o), o.torctl # "NONE", NEW command \in Command
    PROVE  LET q == Issue(o, command)
           IN  /\ Wired(q) /\ q.torctl = o.torctl /\ q.open = o.open /\ q.timers = o.timers
               /\ q.engine = o.engine /\ q.launches = o.launches /\ q.socket = o.socket
               /\ q.commands = Append(o.commands, command)
  BY IssueWires, WiredLinked DEF TimersKept

LEMMA ConnectedResult ==
    ASSUME NEW o, Wired(o), o.torctl = "NONE"
    PROVE  LET q == OnConnected(o)
           IN  /\ Wired(q) /\ TimersKept(o, q) /\ q.torctl = "AUTHENTICATE"
               /\ q.commands = <<"AUTHENTICATE">>
  <1> DEFINE d == Deregister(o, o.socket)
             m == [d EXCEPT !.torctl = "AUTHENTICATE"]
             i == Issue(m, "AUTHENTICATE")
             q == [i EXCEPT !.state = "AUTHENTICATING"]
  <1>1. o \in Process /\ o.socket \in Descriptors /\ Timed(o) /\ Linked(o) /\ o.commands = <<>>
    BY WiredLinked DEF Wired, Timed
  <1>2. /\ d \in Process /\ Unmanaged(o, d)
        /\ \A g \in Descriptors \ {o.socket} : d.watches[g] = o.watches[g] /\ d.epoll[g] = o.epoll[g]
        /\ d.epoll[o.socket] = "NONE"
    BY <1>1, DeregisterResult DEF Linked
  <1> HIDE DEF d
  <1>3. /\ m \in Process /\ m.torctl = "AUTHENTICATE" /\ m.commands = <<>>
        /\ m.watches = d.watches /\ m.epoll = d.epoll /\ m.open = d.open /\ m.timers = d.timers
        /\ m.engine = d.engine /\ m.launches = d.launches /\ m.socket = d.socket
    BY <1>1, <1>2 DEF Process, Unmanaged
  <1> HIDE DEF m
  <1>4. TimersKept(o, m) /\ m.socket = o.socket /\ m.epoll[m.socket] = "NONE"
    BY <1>2, <1>3 DEF TimersKept, Unmanaged
  <1>5. Timed(m) /\ Linked(m)
    BY <1>1, <1>3, <1>4, TimersKeptTimed DEF Linked
  <1>6. "AUTHENTICATE" \in Command
    BY DEF Command
  <1>7. /\ Wired(i) /\ TimersKept(m, i) /\ i.torctl = "AUTHENTICATE"
        /\ i.commands = <<"AUTHENTICATE">>
    BY <1>3, <1>5, <1>6, IssueWires
  <1> HIDE DEF i
  <1>8. /\ q \in Process /\ q.torctl = i.torctl /\ q.commands = i.commands
        /\ q.watches = i.watches /\ q.epoll = i.epoll /\ q.open = i.open /\ q.timers = i.timers
        /\ q.engine = i.engine /\ q.launches = i.launches /\ q.socket = i.socket
    BY <1>7 DEF Wired, Timed, Process, DriverState
  <1>9. OnConnected(o) = q
    BY DEF OnConnected, d, m, i
  <1> HIDE DEF q
  <1>10. Wired(q)
    BY <1>7, <1>8, WiredAlike
  <1>11. TimersKept(o, q)
    BY <1>4, <1>7, <1>8 DEF TimersKept
  <1>12. QED
    BY <1>7, <1>8, <1>9, <1>10, <1>11

LEMMA AuthenticatedResult ==
    ASSUME NEW o, Wired(o), o.torctl = "AUTHENTICATE"
    PROVE  LET q == OnAuthenticated(o)
           IN  /\ Wired(q) /\ q.torctl = "BOOTSTRAP" /\ q.open = o.open /\ q.timers = o.timers
               /\ q.engine = o.engine /\ q.launches = o.launches
  <1> DEFINE m == [o EXCEPT !.torctl = "BOOTSTRAP"]
             i == Issue(m, "GETINFO bootstrap-phase")
             q == [i EXCEPT !.state = "BOOTSTRAPPING"]
  <1>1. /\ m \in Process /\ m.torctl = "BOOTSTRAP" /\ m.commands = o.commands
        /\ m.watches = o.watches /\ m.epoll = o.epoll /\ m.open = o.open /\ m.timers = o.timers
        /\ m.engine = o.engine /\ m.launches = o.launches /\ m.socket = o.socket
    BY DEF Wired, Timed, Process
  <1> HIDE DEF m
  <1>2. Wired(m)
    BY <1>1, WiredAlike
  <1>3. "GETINFO bootstrap-phase" \in Command
    BY DEF Command
  <1>4. /\ Wired(i) /\ i.torctl = m.torctl /\ i.open = m.open /\ i.timers = m.timers
        /\ i.engine = m.engine /\ i.launches = m.launches
    BY <1>1, <1>2, <1>3, IssueAgain
  <1> HIDE DEF i
  <1>5. /\ q \in Process /\ q.torctl = i.torctl /\ q.commands = i.commands
        /\ q.watches = i.watches /\ q.epoll = i.epoll /\ q.open = i.open /\ q.timers = i.timers
        /\ q.engine = i.engine /\ q.launches = i.launches /\ q.socket = i.socket
    BY <1>4 DEF Wired, Timed, Process, DriverState
  <1>6. OnAuthenticated(o) = q
    BY DEF OnAuthenticated, m, i
  <1> HIDE DEF q
  <1>7. Wired(q)
    BY <1>4, <1>5, WiredAlike
  <1>8. QED
    BY <1>1, <1>4, <1>5, <1>6, <1>7

LEMMA PlayTimerCounts ==
    ASSUME NEW o, Timed(o), NEW q, PlayTimerAdded(o, q)
    PROVE  LET n == Len(o.timers) + 1
           IN  /\ PlayTimers(q) = PlayTimers(o) \cup {n} /\ n \notin PlayTimers(o)
               /\ q.open[q.timers[n].fd] = "armed"
               /\ Conserves(o, q, Freed)
  <1> DEFINE n == Len(o.timers) + 1
             lf == LowestFree(o)
             timer == [callback |-> "play", fd |-> lf]
  <1>1. o \in Process /\ o.timers \in Seq(Timer) /\ Len(o.timers) >= Fixed
    BY ProcessType DEF Timed, TimersNumbered
  <1>2. /\ lf \in Descriptors /\ o.open[lf] = "closed"
        /\ q.timers = Append(o.timers, timer) /\ q.open = [o.open EXCEPT ![lf] = "armed"]
    BY DEF PlayTimerAdded
  <1>3. timer \in Timer /\ timer.callback = "play" /\ timer.fd = lf /\ lf # Freed
    BY <1>2, LifecycleAssumption DEF Timer, Callback, Freed
  <1> HIDE DEF lf, timer
  <1>4. /\ DOMAIN o.timers = 1..n - 1 /\ n \in Nat /\ DOMAIN q.timers = 1..n
        /\ q.timers[n] = timer /\ \A j \in 1..n - 1 : q.timers[j] = o.timers[j]
    BY <1>1, <1>2, <1>3
  <1>5. q.open[lf] = "armed" /\ \A g \in Descriptors \ {lf} : q.open[g] = o.open[g]
    BY <1>1, <1>2, ProcessType
  <1>6. PlayTimers(q) = PlayTimers(o) \cup {n} /\ n \notin PlayTimers(o)
    <2>1. ASSUME NEW j \in 1..n - 1 PROVE j \in PlayTimers(q) <=> j \in PlayTimers(o)
      BY <1>4 DEF PlayTimers
    <2>2. n \in PlayTimers(q) /\ n \notin PlayTimers(o)
      BY <1>3, <1>4 DEF PlayTimers
    <2>3. PlayTimers(q) \subseteq 1..n /\ PlayTimers(o) \subseteq 1..n - 1
      BY <1>4 DEF PlayTimers
    <2>4. 1..n = (1..n - 1) \cup {n}
      BY <1>4
    <2>5. QED
      BY <2>1, <2>2, <2>3, <2>4
  <1>7. Conserves(o, q, Freed)
    <2>1. \A g \in Descriptors : o.open[g] # "closed" => q.open[g] = o.open[g]
      BY <1>2, <1>5
    <2>2. \A id \in 1..Fixed : q.timers[id] = o.timers[id]
      BY <1>1, <1>4, FixedType
    <2>3. QED
      BY <2>1, <2>2 DEF Conserves
  <1>8. QED
    BY <1>3, <1>4, <1>5, <1>6, <1>7

\* The objects of the mode are created when Tor is ready.
LEMMA BootstrappedResult ==
    ASSUME config \in Config, NEW o, Wired(o), o.torctl = "PROCESSING", o.engine = "none",
           PlayTimers(o) = {}, NEW c \in Choice, c.due <= o.launches
    PROVE  LET q == OnBootstrapped(o, c)
           IN  /\ Wired(q) /\ Plays(q) /\ Conserves(o, q, Freed)
               /\ q.torctl = "PROCESSING" /\ q.engine \in {"none", config.mode}
  <1> DEFINE q == OnBootstrapped(o, c)
             e(state) == [[o EXCEPT !.engine = config.mode] EXCEPT !.state = state]
  <1>1. o \in Process
    BY DEF Wired, Timed
  <1>2. config.mode \in {"record", "play", "log"} /\ config.fileOK \in BOOLEAN
    BY LifecycleAssumption DEF Config
  <1>3. ASSUME NEW state \in {"RECORDING", "PLAYING", "LOGGING"}
        PROVE  /\ Wired(e(state)) /\ e(state).engine = config.mode /\ e(state).torctl = "PROCESSING"
               /\ e(state).open = o.open /\ e(state).timers = o.timers /\ e(state).launches = o.launches
    <2> DEFINE p == e(state)
    <2>1. /\ p \in Process /\ p.torctl = o.torctl /\ p.commands = o.commands
          /\ p.watches = o.watches /\ p.epoll = o.epoll /\ p.open = o.open /\ p.timers = o.timers
          /\ p.engine = config.mode /\ p.launches = o.launches /\ p.socket = o.socket
      BY <1>1, <1>2 DEF Process, DriverState
    <2> HIDE DEF p
    <2>2. Wired(p)
      BY <2>1, WiredAlike
    <2>3. QED
      BY <2>1, <2>2 DEF p
  <1>4. ASSUME NEW p, p.open = o.open, p.timers = o.timers
        PROVE  PlayTimers(p) = {} /\ Conserves(o, p, Freed)
    BY <1>4 DEF PlayTimers, Conserves
  <1>5. "SETEVENTS" \in Command /\ "GETINFO circuit-status" \in Command /\ "SETCONF" \in Command
        /\ "SIGNAL NEWNYM" \in Command
    BY DEF Command
  <1>6. CASE config.mode \in {"record", "play"} /\ ~ config.fileOK
    <2>1. q = GiveUp(o)
      BY <1>6 DEF OnBootstrapped
    <2>2. /\ q \in Process /\ q.torctl = o.torctl /\ q.commands = o.commands
          /\ q.watches = o.watches /\ q.epoll = o.epoll /\ q.open = o.open /\ q.timers = o.timers
          /\ q.engine = o.engine /\ q.socket = o.socket
      BY <1>1, <2>1 DEF Process, GiveUp, DriverState
    <2>3. Wired(q)
      BY <2>2, WiredAlike
    <2>4. PlayTimers(q) = {} /\ Conserves(o, q, Freed)
      BY <1>4, <2>2
    <2>5. Plays(q)
      BY <2>2, <2>4 DEF Plays
    <2>6. QED
      BY <2>2, <2>3, <2>4, <2>5
  <1>7. CASE config.mode = "record" /\ config.fileOK
    <2> DEFINE i == Issue(e("RECORDING"), "SETEVENTS")
    <2>1. q = Issue(i, "GETINFO circuit-status")
      BY <1>7 DEF OnBootstrapped
    <2>2. /\ Wired(i) /\ i.torctl = "PROCESSING" /\ i.open = o.open /\ i.timers = o.timers
          /\ i.engine = config.mode
      <3> HIDE DEF e
      <3>1. QED
        BY <1>3, <1>5, IssueAgain
    <2> HIDE DEF i, q
    <2>3. /\ Wired(q) /\ q.torctl = "PROCESSING" /\ q.open = o.open /\ q.timers = o.timers
          /\ q.engine = config.mode
      BY <1>5, <2>1, <2>2, IssueAgain
    <2>4. PlayTimers(q) = {} /\ Conserves(o, q, Freed)
      BY <1>4, <2>3
    <2>5. Plays(q)
      BY <1>7, <2>3, <2>4 DEF Plays
    <2>6. QED
      BY <2>3, <2>4, <2>5 DEF q
  <1>8. CASE config.mode = "log"
    <2>1. q = Issue(e("LOGGING"), "SETEVENTS")
      BY <1>8 DEF OnBootstrapped, NewLogger
    <2> HIDE DEF q
    <2>2. /\ Wired(q) /\ q.torctl = "PROCESSING" /\ q.open = o.open /\ q.timers = o.timers
          /\ q.engine = config.mode
      <3> HIDE DEF e
      <3>1. QED
        BY <1>3, <1>5, <2>1, IssueAgain
    <2>3. PlayTimers(q) = {} /\ Conserves(o, q, Freed)
      BY <1>4, <2>2
    <2>4. Plays(q)
      BY <1>8, <2>2, <2>3 DEF Plays
    <2>5. QED
      BY <2>2, <2>3, <2>4 DEF q
  <1>9. CASE config.mode = "play" /\ config.fileOK
    <2> DEFINE i == Issue(e("PLAYING"), "SETCONF")
               j == Issue(i, "SIGNAL NEWNYM")
               k == Issue(j, "SETEVENTS")
    <2>1. q = PlayCallback(k, c)
      BY <1>9 DEF OnBootstrapped, SetupTorConfig
    <2>2. /\ Wired(i) /\ i.torctl = "PROCESSING" /\ i.open = o.open /\ i.timers = o.timers
          /\ i.engine = config.mode /\ i.launches = o.launches
      <3> HIDE DEF e
      <3>1. QED
        BY <1>3, <1>5, IssueAgain
    <2> HIDE DEF i
    <2>3. /\ Wired(j) /\ j.torctl = "PROCESSING" /\ j.open = o.open /\ j.timers = o.timers
          /\ j.engine = config.mode /\ j.launches = o.launches
      BY <1>5, <2>2, IssueAgain
    <2> HIDE DEF j
    <2>4. /\ Wired(k) /\ k.torctl = "PROCESSING" /\ k.open = o.open /\ k.timers = o.timers
          /\ k.engine = config.mode /\ k.launches = o.launches
      BY <1>5, <2>3, IssueAgain
    <2> HIDE DEF k, q
    <2>5. PlayTimers(k) = {} /\ Conserves(o, k, Freed)
      BY <1>4, <2>4
    <2>6. /\ Wired(q) /\ SameStates(k, q)
          /\ IF q.launches > 0 THEN PlayTimerAdded(k, q) ELSE q.timers = k.timers /\ q.open = k.open
      BY <2>1, <2>4, <2>5, PlayCallbackResult
    <2>7. q.torctl = "PROCESSING" /\ q.engine = "play"
      BY <1>9, <2>4, <2>6 DEF SameStates
    <2>8. CASE q.launches > 0
      <3> DEFINE n == Len(k.timers) + 1
      <3>1. /\ PlayTimers(q) = PlayTimers(k) \cup {n} /\ q.open[q.timers[n].fd] = "armed"
            /\ Conserves(k, q, Freed)
        BY <2>4, <2>6, <2>8, PlayTimerCounts DEF Wired
      <3> HIDE DEF n
      <3>2. PlayTimers(q) = {n}
        BY <2>5, <3>1
      <3>3. Plays(q)
        BY <2>7, <2>8, <3>1, <3>2 DEF Plays
      <3>4. Conserves(o, q, Freed)
        BY <2>4, <3>1 DEF Conserves
      <3>5. QED
        BY <1>9, <2>6, <2>7, <3>3, <3>4 DEF q
    <2>9. CASE ~ (q.launches > 0)
      <3>1. PlayTimers(q) = {} /\ Conserves(o, q, Freed)
        BY <1>4, <2>4, <2>6, <2>9
      <3>2. Plays(q)
        BY <2>9, <3>1 DEF Plays
      <3>3. QED
        BY <1>9, <2>6, <2>7, <3>1, <3>2 DEF q
    <2>10. QED
      BY <2>8, <2>9
  <1>10. QED
    BY <1>2, <1>6, <1>7, <1>8, <1>9

\* A line moves TorCtl on, by one state, and only for what it waits for.
LEMMA LineResult ==
    ASSUME config \in Config, NEW o, Wired(o), Plays(o), o.torctl # "NONE",
           o.engine # "none" => o.torctl = "PROCESSING",
           NEW line \in Line, NEW c \in Choice, c.due <= o.launches
    PROVE  LET q == ProcessLine(o, line, c)
           IN  /\ Wired(q) /\ Plays(q) /\ Conserves(o, q, Freed) /\ q.torctl # "NONE"
               /\ q.engine # "none" =>
                    /\ q.torctl = "PROCESSING"
                    /\ \/ q.engine = o.engine
                       \/ q.engine = config.mode /\ line.type = "PROGRESS" /\ line.progress >= Bootstrapped
               /\ o.torctl = "AUTHENTICATE" /\ line # OK => q = o
  <1> DEFINE q == ProcessLine(o, line, c)
  <1>1. o \in Process /\ o.torctl \in {"AUTHENTICATE", "BOOTSTRAP", "PROCESSING"}
    BY ProcessType DEF Wired, Timed
  <1>2. Conserves(o, o, Freed)
    BY DEF Conserves
  <1>3. ASSUME NEW p, p.open = o.open, p.timers = o.timers, p.engine = o.engine, p.launches = o.launches
        PROVE  Plays(p) /\ Conserves(o, p, Freed)
    <2>1. Plays(p)
      BY <1>3, PlaysKept
    <2>2. QED
      BY <1>3, <2>1 DEF Conserves
  <1>4. CASE o.torctl = "AUTHENTICATE"
    <2>1. CASE line = OK
      <3>1. q = OnAuthenticated(o)
        BY <1>4, <2>1 DEF ProcessLine
      <3> HIDE DEF q
      <3>2. /\ Wired(q) /\ q.torctl = "BOOTSTRAP" /\ q.open = o.open /\ q.timers = o.timers
            /\ q.engine = o.engine /\ q.launches = o.launches
        BY <1>4, <3>1, AuthenticatedResult
      <3>3. Plays(q) /\ Conserves(o, q, Freed)
        BY <1>3, <3>2
      <3>4. q.engine = "none"
        BY <1>4, <3>2
      <3>5. QED
        BY <2>1, <3>2, <3>3, <3>4 DEF q
    <2>2. CASE line # OK
      <3>1. q = o
        BY <1>4, <2>2 DEF ProcessLine
      <3>2. QED
        BY <1>2, <1>4, <3>1
    <2>3. QED
      BY <2>1, <2>2
  <1>5. CASE o.torctl = "PROCESSING"
    <2>1. q = o
      BY <1>5 DEF ProcessLine
    <2>2. QED
      BY <1>2, <1>5, <2>1
  <1>6. CASE o.torctl = "BOOTSTRAP"
    <2>1. q = WhileBootstrapping(o, line, c) /\ o.engine = "none"
      BY <1>6 DEF ProcessLine
    <2>2. CASE line.type # "PROGRESS" \/ (~ (line.progress >= Bootstrapped) /\ o.isStatusEventSet)
      <3>1. q = o
        BY <2>1, <2>2 DEF WhileBootstrapping
      <3>2. QED
        BY <1>2, <1>6, <2>1, <3>1
    <2>3. CASE line.type = "PROGRESS" /\ line.progress >= Bootstrapped
      <3> DEFINE m == [o EXCEPT !.isStatusEventSet = FALSE, !.torctl = "PROCESSING"]
      <3>1. q = OnBootstrapped(m, c)
        BY <2>1, <2>3 DEF WhileBootstrapping
      <3>2. /\ m \in Process /\ m.torctl = "PROCESSING" /\ m.commands = o.commands
            /\ m.watches = o.watches /\ m.epoll = o.epoll /\ m.open = o.open /\ m.timers = o.timers
            /\ m.engine = o.engine /\ m.launches = o.launches /\ m.socket = o.socket
        BY <1>1 DEF Process
      <3> HIDE DEF m, q
      <3>3. Wired(m)
        BY <1>6, <3>2, WiredAlike
      <3>4. PlayTimers(m) = {}
        BY <2>1, <3>2 DEF Plays, PlayTimers
      <3>5. /\ Wired(q) /\ Plays(q) /\ Conserves(m, q, Freed)
            /\ q.torctl = "PROCESSING" /\ q.engine \in {"none", config.mode}
        BY <2>1, <3>1, <3>2, <3>3, <3>4, BootstrappedResult
      <3>6. Conserves(o, q, Freed)
        BY <3>2, <3>5 DEF Conserves
      <3>7. QED
        BY <1>6, <2>3, <3>5, <3>6 DEF q
    <2>4. CASE line.type = "PROGRESS" /\ ~ (line.progress >= Bootstrapped) /\ ~ o.isStatusEventSet
      <3> DEFINE i == Issue(o, "SETEVENTS STATUS_CLIENT")
      <3>1. q = [i EXCEPT !.isStatusEventSet = TRUE]
        BY <2>1, <2>4 DEF WhileBootstrapping
      <3>2. "SETEVENTS STATUS_CLIENT" \in Command
        BY DEF Command
      <3>3. /\ Wired(i) /\ i.torctl = o.torctl /\ i.open = o.open /\ i.timers = o.timers
            /\ i.engine = o.engine /\ i.launches = o.launches
        BY <1>6, <3>2, IssueAgain
      <3> HIDE DEF i, q
      <3>4. /\ q \in Process /\ q.torctl = i.torctl /\ q.commands = i.commands
            /\ q.watches = i.watches /\ q.epoll = i.epoll /\ q.open = i.open /\ q.timers = i.timers
            /\ q.engine = i.engine /\ q.launches = i.launches /\ q.socket = i.socket
        BY <3>1, <3>3 DEF Wired, Timed, Process
      <3>5. Wired(q)
        BY <3>3, <3>4, WiredAlike
      <3>6. Plays(q) /\ Conserves(o, q, Freed)
        BY <1>3, <3>3, <3>4
      <3>7. QED
        BY <1>6, <2>1, <3>3, <3>4, <3>5, <3>6 DEF q
    <2>5. QED
      BY <2>2, <2>3, <2>4
  <1>7. QED
    BY <1>1, <1>4, <1>5, <1>6

-----------------------------------------------------------------------------
(* The start and the end                                                   *)

\* Nothing has expired, and what is open are the given descriptors.
OnlyOpen(o, fds) ==
    /\ \A fd \in Descriptors : o.open[fd] \in {"closed", "socket", "armed"}
    /\ \A fd \in Descriptors : fd \notin fds => o.open[fd] = "closed"

LEMMA TimerStarts ==
    ASSUME NEW o \in Process, o.socket \in Descriptors, TimersWired(o),
           NEW a, NEW b, NEW c, OnlyOpen(o, {a, b, c}), NEW callback \in Callback
    PROVE  LET q == StartTimer(o, callback)
               fd == LowestFree(o)
           IN  /\ q \in Process /\ TimersWired(q) /\ Untimed(o, q)
               /\ OnlyOpen(q, {a, b, c, fd}) /\ fd \in Descriptors /\ q.open[fd] = "armed"
               /\ \A g \in Descriptors : o.open[g] # "closed" => q.open[g] = o.open[g]
               /\ q.timers = Append(o.timers, [callback |-> callback, fd |-> fd])
               /\ q.watches[o.socket] = o.watches[o.socket] /\ q.epoll[o.socket] = o.epoll[o.socket]
  <1> DEFINE q == StartTimer(o, callback)
             fd == LowestFree(o)
  <1>1. \E g \in Descriptors : o.open[g] = "closed"
    <2>1. PICK g \in Descriptors : g \notin {a, b, c, a, a}
      BY SixAreEnough
    <2>2. QED
      BY <2>1 DEF OnlyOpen
  <1>2. /\ q \in Process /\ TimersWired(q) /\ Untimed(o, q)
        /\ fd \in Descriptors /\ o.open[fd] = "closed"
        /\ q.timers = Append(o.timers, [callback |-> callback, fd |-> fd])
        /\ q.open = [o.open EXCEPT ![fd] = "armed"]
        /\ q.watches[o.socket] = o.watches[o.socket] /\ q.epoll[o.socket] = o.epoll[o.socket]
    BY <1>1, StartTimerWires
  <1> HIDE DEF q, fd
  <1>3. q.open[fd] = "armed" /\ \A g \in Descriptors \ {fd} : q.open[g] = o.open[g]
    BY <1>2, ProcessType
  <1>4. OnlyOpen(q, {a, b, c, fd})
    BY <1>3 DEF OnlyOpen
  <1>5. QED
    BY <1>2, <1>3, <1>4 DEF q, fd

\* The socket is created and watched.
LEMMA SocketCreated ==
    ASSUME NEW o \in Process, Fresh(o)
    PROVE  LET s == LowestFree(o)
               created == [o EXCEPT !.socket = s, !.open[s] = "socket"]
               q == [Register(created, s, Watch("WRITE", "onConnected", TorCtl)) EXCEPT !.state = "CONNECTING"]
           IN  /\ q \in Process /\ q.socket = s /\ s \in Descriptors /\ TimersWired(q) /\ OnlyOpen(q, {s})
               /\ q.timers = <<>> /\ q.torctl = "NONE" /\ q.engine = "none" /\ q.commands = <<>>
               /\ q.watches[s] = SocketWatch(q) /\ q.epoll[s] = SocketWatch(q).type
  <1> DEFINE s == LowestFree(o)
             t == [o EXCEPT !.socket = s, !.open[s] = "socket"]
             w == Watch("WRITE", "onConnected", TorCtl)
             r == Register(t, s, w)
             q == [r EXCEPT !.state = "CONNECTING"]
  <1>1. \E g \in Descriptors : o.open[g] = "closed"
    <2>1. PICK g \in Descriptors : g \notin {0, 0, 0, 0, 0}
      BY SixAreEnough
    <2>2. QED
      BY <2>1 DEF Fresh
  <1>2. s \in Descriptors
    BY <1>1, LowestIsFree
  <1> HIDE DEF s
  <1>3. /\ t \in Process /\ t.socket = s /\ t.watches = o.watches /\ t.epoll = o.epoll
        /\ t.open = [o.open EXCEPT ![s] = "socket"] /\ t.timers = o.timers
        /\ t.torctl = o.torctl /\ t.engine = o.engine /\ t.commands = o.commands
    BY <1>2 DEF Process, Object
  <1> HIDE DEF t
  <1>4. w \in Watching /\ w.type = "WRITE"
    BY WatchType DEF TorCtl
  <1>5. t.epoll[s] = "NONE"
    BY <1>2, <1>3 DEF Fresh
  <1> HIDE DEF w
  <1>6. /\ r \in Process /\ Unmanaged(t, r)
        /\ \A g \in Descriptors \ {s} : r.watches[g] = t.watches[g] /\ r.epoll[g] = t.epoll[g]
        /\ r.watches[s] = w /\ r.epoll[s] = w.type
    BY <1>2, <1>3, <1>4, <1>5, RegisterResult
  <1> HIDE DEF r
  <1>7. /\ q \in Process /\ q.socket = r.socket /\ q.watches = r.watches /\ q.epoll = r.epoll
        /\ q.open = r.open /\ q.timers = r.timers
        /\ q.torctl = r.torctl /\ q.engine = r.engine /\ q.commands = r.commands
    BY <1>6 DEF Process, DriverState
  <1> HIDE DEF q
  <1>8. /\ q.socket = s /\ q.open = [o.open EXCEPT ![s] = "socket"] /\ q.timers = <<>>
        /\ q.torctl = "NONE" /\ q.engine = "none" /\ q.commands = <<>>
    BY <1>3, <1>6, <1>7 DEF Fresh, Unmanaged
  <1>9. q.open[s] = "socket" /\ \A g \in Descriptors \ {s} : q.open[g] = "closed" /\ q.epoll[g] = "NONE"
    BY <1>2, <1>3, <1>6, <1>7, <1>8, ProcessType DEF Fresh
  <1>10. OnlyOpen(q, {s})
    BY <1>9 DEF OnlyOpen
  <1>11. TimersWired(q)
    BY <1>2, <1>8, <1>9 DEF TimersWired, Ticking
  <1>12. SocketWatch(q) = w
    BY <1>8 DEF SocketWatch, w
  <1>13. QED
    BY <1>2, <1>6, <1>7, <1>8, <1>10, <1>11, <1>12 DEF q, r, t, w, s

LEMMA DriverStartResult ==
    ASSUME config \in Config, NEW o \in Process, Fresh(o)
    PROVE  LET q == DriverStart(o)
           IN  /\ Wired(q) /\ Plays(q) /\ CleanupFirst(q, {})
               /\ q.torctl = "NONE" /\ q.engine = "none" /\ q.commands = <<>>
  <1> DEFINE s == LowestFree(o)
             created == [o EXCEPT !.socket = s, !.open[s] = "socket"]
             p == [Register(created, s, Watch("WRITE", "onConnected", TorCtl)) EXCEPT !.state = "CONNECTING"]
             b == StartTimer(p, "heartbeat")
             u == StartTimer(b, "cleanup")
             v == StartTimer(u, "shutdown")
             f1 == LowestFree(p)
             f2 == LowestFree(b)
             f3 == LowestFree(u)
             t1 == [callback |-> "heartbeat", fd |-> f1]
             t2 == [callback |-> "cleanup", fd |-> f2]
             t3 == [callback |-> "shutdown", fd |-> f3]
  <1>1. /\ p \in Process /\ p.socket = s /\ s \in Descriptors /\ TimersWired(p) /\ OnlyOpen(p, {s, s, s})
        /\ p.timers = <<>> /\ p.torctl = "NONE" /\ p.engine = "none" /\ p.commands = <<>>
        /\ p.watches[s] = SocketWatch(p) /\ p.epoll[s] = SocketWatch(p).type
    <2>1. {s, s, s} = {s}
      OBVIOUS
    <2>2. QED
      BY <2>1, SocketCreated
  <1>2. DriverStart(o) = IF config.limited THEN v ELSE b
    BY DEF DriverStart
  <1>3. "heartbeat" \in Callback /\ "cleanup" \in Callback /\ "shutdown" \in Callback
    BY DEF Callback
  <1> HIDE DEF p, s
  <1>4. /\ b \in Process /\ TimersWired(b) /\ Untimed(p, b)
        /\ OnlyOpen(b, {s, s, s, f1}) /\ f1 \in Descriptors
        /\ b.timers = Append(p.timers, t1)
        /\ b.watches[s] = p.watches[s] /\ b.epoll[s] = p.epoll[s]
    BY <1>1, <1>3, TimerStarts, ZenonT(60)
  <1>5. OnlyOpen(b, {s, f1, f1})
    BY <1>4 DEF OnlyOpen
  <1>6. t1 \in Timer /\ t1.callback = "heartbeat" /\ t1.fd \in Descriptors
    BY <1>3, <1>4 DEF Timer
  <1> HIDE DEF b, f1, t1
  <1>7. b.socket = s /\ b.torctl = "NONE" /\ b.engine = "none" /\ b.commands = <<>>
    BY <1>1, <1>4 DEF Untimed
  <1>8. b.watches[s] = SocketWatch(b) /\ b.epoll[s] = SocketWatch(b).type
    BY <1>1, <1>4, <1>7 DEF SocketWatch
  <1>9. /\ u \in Process /\ TimersWired(u) /\ Untimed(b, u)
        /\ OnlyOpen(u, {s, f1, f1, f2}) /\ f2 \in Descriptors
        /\ u.timers = Append(b.timers, t2)
        /\ u.watches[s] = b.watches[s] /\ u.epoll[s] = b.epoll[s]
    <2>1. b \in Process /\ b.socket \in Descriptors /\ TimersWired(b)
      BY <1>1, <1>4, <1>7
    <2>2. QED
      BY <1>3, <1>5, <1>7, <2>1, TimerStarts, ZenonT(60)
  <1>10. OnlyOpen(u, {s, f1, f2})
    BY <1>9 DEF OnlyOpen
  <1>11. t2 \in Timer /\ t2.callback = "cleanup" /\ t2.fd \in Descriptors
    BY <1>3, <1>9 DEF Timer
  <1> HIDE DEF u, f2, t2
  <1>12. u.socket = s /\ u.torctl = "NONE" /\ u.engine = "none" /\ u.commands = <<>>
    BY <1>7, <1>9 DEF Untimed
  <1>13. /\ v \in Process /\ TimersWired(v) /\ Untimed(u, v)
         /\ f3 \in Descriptors /\ v.open[f3] = "armed"
         /\ v.timers = Append(u.timers, t3)
         /\ v.watches[s] = u.watches[s] /\ v.epoll[s] = u.epoll[s]
    <2>1. u \in Process /\ u.socket \in Descriptors /\ TimersWired(u)
      BY <1>1, <1>9, <1>12
    <2>2. QED
      BY <1>3, <1>10, <1>12, <2>1, TimerStarts, ZenonT(60)
  <1>14. t3 \in Timer /\ t3.callback = "shutdown" /\ t3.fd = f3
    BY <1>3, <1>13 DEF Timer
  <1> HIDE DEF v, f3, t3
  <1>15. v.socket = s /\ v.torctl = "NONE" /\ v.engine = "none" /\ v.commands = <<>>
    BY <1>12, <1>13 DEF Untimed
  <1>16. v.watches[s] = SocketWatch(v) /\ v.epoll[s] = SocketWatch(v).type
    BY <1>8, <1>9, <1>13, <1>15, <1>7 DEF SocketWatch
  <1>17. \A fd \in Descriptors : fd # Freed
    BY LifecycleAssumption DEF Freed
  <1>18. CASE config.limited
    <2>1. /\ Len(v.timers) = 3 /\ DOMAIN v.timers = 1..3
          /\ v.timers[1] = t1 /\ v.timers[2] = t2 /\ v.timers[3] = t3
      BY <1>1, <1>4, <1>6, <1>9, <1>11, <1>13, <1>14
    <2>2. \A id \in 1..3 : id = 1 \/ id = 2 \/ id = 3
      OBVIOUS
    <2>3. TimersNumbered(v)
      BY <1>6, <1>11, <1>13, <1>14, <1>17, <1>18, <2>1, <2>2 DEF TimersNumbered, Fixed
    <2>4. Wired(v)
      BY <1>1, <1>13, <1>15, <1>16, <2>3 DEF Wired, Timed
    <2>5. PlayTimers(v) = {}
      BY <1>6, <1>11, <1>14, <2>1, <2>2 DEF PlayTimers
    <2>6. Plays(v)
      BY <1>15, <2>5 DEF Plays
    <2>7. CleanupFirst(v, {})
      BY <1>13, <1>14, <2>1 DEF CleanupFirst
    <2>8. QED
      BY <1>2, <1>15, <1>18, <2>4, <2>6, <2>7
  <1>19. CASE ~ config.limited
    <2>1. Len(b.timers) = 1 /\ DOMAIN b.timers = 1..1 /\ b.timers[1] = t1
      BY <1>1, <1>4, <1>6
    <2>2. \A id \in 1..1 : id = 1
      OBVIOUS
    <2>3. TimersNumbered(b)
      BY <1>6, <1>17, <1>19, <2>1, <2>2 DEF TimersNumbered, Fixed
    <2>4. Wired(b)
      BY <1>1, <1>4, <1>7, <1>8, <2>3 DEF Wired, Timed
    <2>5. PlayTimers(b) = {}
      BY <1>6, <2>1, <2>2 DEF PlayTimers
    <2>6. Plays(b)
      BY <1>7, <2>5 DEF Plays
    <2>7. CleanupFirst(b, {})
      BY <1>19 DEF CleanupFirst
    <2>8. QED
      BY <1>2, <1>7, <1>19, <2>4, <2>6, <2>7
  <1>20. QED
    BY <1>18, <1>19

-----------------------------------------------------------------------------
(* One step: what is common                                                *)

\* config never changes, so that what is proved of the new state with the old
\* configuration is true of it.
LEMMA ConfigStays ==
    ASSUME config' = config
    PROVE  /\ Wired(ot') => Wired(ot)'
           /\ CleanupFirst(ot', batch') => CleanupFirst(ot, batch)'
  <1>1. Fixed' = Fixed
    BY DEF Fixed
  <1>2. TimersNumbered(ot') => TimersNumbered(ot)'
    BY <1>1 DEF TimersNumbered
  <1>3. Wired(ot') => Wired(ot)'
    BY <1>2 DEF Wired, Timed
  <1>4. CleanupFirst(ot', batch') => CleanupFirst(ot, batch)'
    BY DEF CleanupFirst
  <1>5. QED
    BY <1>3, <1>4

\* The parts of the invariant while the loop runs.
LEMMA LoopingMeans ==
    ASSUME LifecycleIInv, phase = "looping"
    PROVE  /\ Wired(ot) /\ Timed(ot) /\ Linked(ot) /\ Plays(ot)
           /\ BatchWired(ot, batch) /\ CleanupFirst(ot, batch)
           /\ receiving => ot.torctl # "NONE"
           /\ ot.engine # "none" => ot.torctl = "PROCESSING"
           /\ batch \subseteq Descriptors \X {"READ", "WRITE"}
           /\ ot \in Process /\ config \in Config
  BY WiredLinked DEF LifecycleIInv, TypeOK, Believes, Working, Wired, Timed

\* A step of the loop keeps the invariant if it keeps these parts.
LEMMA LoopingKept ==
    ASSUME LifecycleIInv, phase = "looping", config' = config, phase' = "looping",
           Wired(ot'), Plays(ot'), batch' \subseteq Descriptors \X {"READ", "WRITE"},
           BatchWired(ot', batch'), CleanupFirst(ot', batch'),
           receiving' \in BOOLEAN, receiving' => ot'.torctl # "NONE",
           conn' \in {"connecting", "refused", "open", "closed"},
           toTor' \in Seq(Command), fromTor' \in Seq(Line),
           tor' \in [authenticated : BOOLEAN, progress : 0..Bootstrapped, watching : BOOLEAN],
           Believes(ot, toTor)', TruthTold(fromTor)'
    PROVE  LifecycleIInv'
  <1>1. config \in Config
    BY DEF LifecycleIInv, TypeOK
  <1>2. ot' \in Process
    BY DEF Wired, Timed
  <1>3. TypeOK'
    BY <1>1, <1>2 DEF TypeOK
  <1>4. Wired(ot)' /\ CleanupFirst(ot, batch)'
    BY ConfigStays
  <1>5. QED
    BY <1>3, <1>4 DEF LifecycleIInv

\* A step that ends the loop.
LEMMA EndKept ==
    ASSUME LifecycleIInv, config' = config, phase' \in {"done", "killed"},
           ot' \in Process, batch' = batch, receiving' \in BOOLEAN,
           conn' \in {"connecting", "refused", "open", "closed"},
           toTor' = toTor, fromTor' = fromTor, tor' = tor,
           Believes(ot, toTor)'
    PROVE  LifecycleIInv'
  BY DEF LifecycleIInv, TypeOK, TruthTold

\* Tor and what it said are as before.
LEMMA TruthStays ==
    ASSUME LifecycleIInv, fromTor' = fromTor, tor' = tor
    PROVE  TruthTold(fromTor)'
  BY DEF LifecycleIInv, TruthTold

LEMMA BeliefsStay ==
    ASSUME LifecycleIInv, config' = config, tor' = tor, toTor' = toTor,
           ot'.engine = ot.engine, ot'.torctl = ot.torctl,
           ot'.commands = ot.commands \/ ot.engine # "none"
    PROVE  Believes(ot, toTor)'
  <1>1. Believes(ot, toTor)
    BY DEF LifecycleIInv
  <1>2. ~ tor.authenticated => ot.engine = "none"
    BY <1>1 DEF Believes, Working, Unauthenticated
  <1>3. QED
    BY <1>1, <1>2 DEF Believes, Working, Unauthenticated

LEMMA OthersTyped ==
    ASSUME LifecycleIInv
    PROVE  /\ receiving \in BOOLEAN /\ conn \in {"connecting", "refused", "open", "closed"}
           /\ toTor \in Seq(Command) /\ fromTor \in Seq(Line)
           /\ tor \in [authenticated : BOOLEAN, progress : 0..Bootstrapped, watching : BOOLEAN]
           /\ tor.authenticated \in BOOLEAN /\ tor.progress \in 0..Bootstrapped /\ Bootstrapped \in Nat
  BY LifecycleAssumption DEF LifecycleIInv, TypeOK

\* The event that is handled leaves the batch, which holds no other one of its descriptor.
LEMMA EventTaken ==
    ASSUME LifecycleIInv, NEW fd \in Descriptors, NEW type \in {"READ", "WRITE"},
           NEW onEvent, Handles(fd, type, onEvent)
    PROVE  /\ phase = "looping" /\ ~ receiving
           /\ ot.open[fd] \in {"socket", "expired"} /\ ot.watches[fd].onEvent = onEvent
           /\ batch' \subseteq batch /\ Remains(batch, batch', fd)
           /\ \A e \in batch' : e[1] # fd
           /\ \E e \in batch : e[1] = fd
  <1>1. phase = "looping" /\ ~ receiving /\ ot.watches[fd].onEvent = onEvent
    BY DEF Handles
  <1>2. <<fd, type>> \in batch /\ batch' = batch \ {<<fd, type>>}
    BY DEF Handles
  <1>3. BatchWired(ot, batch)
    BY <1>1, LoopingMeans
  <1>4. \A e \in batch : e[1] = fd => e = <<fd, type>>
    BY <1>2, <1>3 DEF BatchWired
  <1>5. ot.open[fd] \in {"socket", "expired"}
    BY <1>2, <1>3 DEF BatchWired
  <1>6. QED
    BY <1>1, <1>2, <1>4, <1>5 DEF Remains

-----------------------------------------------------------------------------
(* The start, and the poll                                                 *)

LEMMA InitHolds == Init => LifecycleIInv
  <1>1. SUFFICES ASSUME Init PROVE LifecycleIInv
    OBVIOUS
  <1>2. MaxLaunches \in 0..MaxLaunches /\ Bootstrapped \in Nat
    BY LifecycleAssumption
  <1>3. ot \in Process
    BY <1>1, <1>2 DEF Init, Process, Object, DriverState
  <1>4. Fresh(ot)
    BY <1>1 DEF Init, Fresh
  <1>5. TypeOK
    <2>1. tor \in [authenticated : BOOLEAN, progress : 0..Bootstrapped, watching : BOOLEAN]
      BY <1>1, <1>2 DEF Init
    <2>2. toTor \in Seq(Command) /\ fromTor \in Seq(Line)
      BY <1>1 DEF Init
    <2>3. QED
      BY <1>1, <1>3, <2>1, <2>2 DEF Init, TypeOK
  <1>6. Believes(ot, toTor)
    BY <1>1 DEF Init, Believes, Unauthenticated
  <1>7. TruthTold(fromTor)
    BY <1>1 DEF Init, TruthTold
  <1>8. QED
    BY <1>1, <1>4, <1>5, <1>6, <1>7 DEF Init, LifecycleIInv

LEMMA StartKeeps ==
    ASSUME LifecycleIInv, Start
    PROVE  LifecycleIInv'
  <1>1. /\ config \in Config /\ ot \in Process /\ Fresh(ot) /\ batch = {} /\ ~ receiving
        /\ phase = "starting" /\ phase' = "looping" /\ conn' = "connecting"
        /\ UNCHANGED <<config, batch, receiving, toTor, fromTor, tor>>
        /\ ot' = DriverStart(ot)
    BY DEF Start, LifecycleIInv, TypeOK
  <1>2. /\ Wired(ot') /\ Plays(ot') /\ CleanupFirst(ot', {})
        /\ ot'.torctl = "NONE" /\ ot'.engine = "none" /\ ot'.commands = <<>>
    BY <1>1, DriverStartResult
  <1>3. ot' \in Process
    BY <1>2 DEF Wired, Timed
  <1>4. TypeOK'
    BY <1>1, <1>3 DEF LifecycleIInv, TypeOK
  <1>5. Believes(ot, toTor)' /\ TruthTold(fromTor)'
    <2>1. Believes(ot, toTor) /\ TruthTold(fromTor)
      BY DEF LifecycleIInv
    <2>2. Believes(ot, toTor)'
      BY <1>1, <1>2, <2>1 DEF Believes, Unauthenticated
    <2>3. QED
      BY <1>1, <2>2, TruthStays
  <1>6. BatchWired(ot', batch')
    BY <1>1 DEF BatchWired
  <1>7. Wired(ot)' /\ CleanupFirst(ot, batch)'
    BY <1>1, <1>2, ConfigStays
  <1>8. QED
    BY <1>1, <1>2, <1>4, <1>5, <1>6, <1>7 DEF LifecycleIInv

LEMMA PollKeeps ==
    ASSUME LifecycleIInv, Poll
    PROVE  LifecycleIInv'
  <1>1. /\ phase = "looping" /\ batch = {} /\ ~ receiving
        /\ batch' = {<<fd, ot.epoll[fd]>> : fd \in {f \in Descriptors :
                         ot.epoll[f] # "NONE" /\ Ready(f, ot.epoll[f])}}
        /\ UNCHANGED <<config, phase, ot, receiving, conn, toTor, fromTor, tor>>
    BY DEF Poll, Idle
  <1>2. Wired(ot) /\ Timed(ot) /\ Plays(ot) /\ CleanupFirst(ot, batch) /\ ot \in Process
    BY <1>1, LoopingMeans
  <1>3. /\ ot.epoll \in [Descriptors -> {"NONE", "READ", "WRITE"}]
        /\ ot.open \in [Descriptors -> Object]
    BY <1>2, ProcessType
  <1>4. batch' \subseteq Descriptors \X {"READ", "WRITE"}
    BY <1>1, <1>3
  <1>5. BatchWired(ot, batch')
    <2>1. \A e \in batch' : e[1] \in Descriptors /\ e = <<e[1], ot.epoll[e[1]]>> /\ Ready(e[1], ot.epoll[e[1]])
      BY <1>1
    <2>2. \A e \in batch' : ot.open[e[1]] \in {"socket", "expired"}
      BY <2>1 DEF Ready
    <2>3. \A e, f \in batch' : e[1] = f[1] => e = f
      BY <2>1
    <2>4. QED
      BY <2>2, <2>3 DEF BatchWired
  <1>6. CleanupFirst(ot, batch')
    <2> DEFINE cleanup == ot.timers[2].fd
               shutdown == ot.timers[3].fd
    <2>1. SUFFICES ASSUME config.limited PROVE CleanupFirst(ot, batch')
      BY DEF CleanupFirst
    <2>2. /\ ot.open[shutdown] # "armed" => ot.open[cleanup] # "armed"
          /\ ot.open[shutdown] = "idle" => ot.open[cleanup] = "idle"
      BY <1>1, <1>2, <2>1 DEF CleanupFirst
    <2>3. /\ cleanup \in Descriptors /\ shutdown \in Descriptors
          /\ ot.open[cleanup] \in Ticking /\ ot.epoll[cleanup] = "READ"
          /\ ot.open[shutdown] # "socket"
      BY <1>2, <2>1, FixedTimers DEF Timed, TimersWired, Ticking
    <2> HIDE DEF cleanup, shutdown
    <2>4. ASSUME NEW e \in batch', e[1] = shutdown PROVE ot.open[shutdown] = "expired"
      BY <1>5, <2>3, <2>4 DEF BatchWired
    <2>5. ASSUME ot.open[cleanup] = "expired" PROVE \E e \in batch' : e[1] = cleanup
      <3>1. Ready(cleanup, ot.epoll[cleanup])
        BY <2>3, <2>5 DEF Ready
      <3>2. <<cleanup, ot.epoll[cleanup]>> \in batch'
        BY <1>1, <2>3, <3>1
      <3>3. QED
        BY <3>2
    <2>6. ASSUME ot.open[shutdown] = "idle" \/ \E e \in batch' : e[1] = shutdown
          PROVE  ot.open[cleanup] = "idle" \/ \E e \in batch' : e[1] = cleanup
      BY <2>2, <2>3, <2>4, <2>5, <2>6 DEF Ticking
    <2>7. QED
      BY <2>2, <2>6 DEF CleanupFirst, cleanup, shutdown
  <1>7. ot.torctl # "NONE" \/ ~ receiving
    BY <1>1
  <1>8. Believes(ot, toTor)' /\ TruthTold(fromTor)'
    BY <1>1, BeliefsStay, TruthStays
  <1>9. QED
    BY <1>1, <1>2, <1>4, <1>5, <1>6, <1>7, <1>8, OthersTyped, LoopingKept

-----------------------------------------------------------------------------
(* The handlers keep the invariant                                         *)

LEMMA ConnectedKeeps ==
    ASSUME LifecycleIInv, NEW fd \in Descriptors, NEW type \in {"READ", "WRITE"}, HandleConnected(fd, type)
    PROVE  LifecycleIInv'
  <1>1. /\ Handles(fd, type, "onConnected") /\ ot' = OnConnected(ot)
        /\ UNCHANGED <<config, phase, receiving, conn, toTor, fromTor, tor>>
    BY DEF HandleConnected
  <1>2. /\ phase = "looping" /\ ~ receiving /\ Remains(batch, batch', fd) /\ batch' \subseteq batch
        /\ ot.open[fd] \in {"socket", "expired"} /\ ot.watches[fd].onEvent = "onConnected"
    BY <1>1, EventTaken
  <1>3. /\ Wired(ot) /\ Timed(ot) /\ Plays(ot) /\ BatchWired(ot, batch) /\ CleanupFirst(ot, batch)
        /\ batch \subseteq Descriptors \X {"READ", "WRITE"}
        /\ ot.engine # "none" => ot.torctl = "PROCESSING"
    BY <1>2, LoopingMeans
  <1>4. fd = ot.socket /\ ot.watches[fd] = SocketWatch(ot)
    BY <1>2, <1>3, SocketFound
  <1>5. ot.torctl = "NONE"
    BY <1>2, <1>4, SocketHandler
  <1>6. /\ Wired(ot') /\ TimersKept(ot, ot') /\ ot'.torctl = "AUTHENTICATE"
        /\ ot'.commands = <<"AUTHENTICATE">>
    BY <1>1, <1>3, <1>5, ConnectedResult
  <1>7. /\ ot'.open = ot.open /\ ot'.timers = ot.timers
        /\ ot'.engine = ot.engine /\ ot'.launches = ot.launches
    BY <1>6 DEF TimersKept
  <1>8. Plays(ot')
    BY <1>3, <1>7, PlaysKept
  <1>9. BatchWired(ot', batch') /\ CleanupFirst(ot', batch')
    BY <1>2, <1>3, <1>4, <1>7, SocketHandled
  <1>10. Believes(ot, toTor)' /\ TruthTold(fromTor)'
    <2>1. Believes(ot, toTor)
      BY DEF LifecycleIInv
    <2>2. ot'.engine = "none"
      BY <1>3, <1>5, <1>7
    <2>3. Believes(ot, toTor)'
      BY <1>1, <1>6, <2>1, <2>2 DEF Believes, Unauthenticated
    <2>4. QED
      BY <1>1, <2>3, TruthStays
  <1>11. batch' \subseteq Descriptors \X {"READ", "WRITE"}
    BY <1>2, <1>3
  <1>12. QED
    BY <1>1, <1>2, <1>6, <1>8, <1>9, <1>10, <1>11, OthersTyped, LoopingKept

LEMMA TimerKeeps ==
    ASSUME LifecycleIInv, NEW fd \in Descriptors, NEW type \in {"READ", "WRITE"}, HandleTimer(fd, type)
    PROVE  LifecycleIInv'
  <1> DEFINE id == ot.watches[fd].arg
  <1>1. UNCHANGED <<config, phase, receiving, conn, toTor, fromTor, tor>>
    BY DEF HandleTimer
  <1>2. /\ phase = "looping" /\ ~ receiving /\ Remains(batch, batch', fd) /\ batch' \subseteq batch
        /\ ot.open[fd] \in {"socket", "expired"}
        /\ \A e \in batch' : e[1] # fd
        /\ \E e \in batch : e[1] = fd
    BY EventTaken DEF HandleTimer
  <1>3. /\ Wired(ot) /\ Timed(ot) /\ Plays(ot) /\ BatchWired(ot, batch) /\ CleanupFirst(ot, batch)
        /\ batch \subseteq Descriptors \X {"READ", "WRITE"}
        /\ ot.engine # "none" => ot.torctl = "PROCESSING"
    BY <1>2, LoopingMeans
  <1>4. /\ id \in DOMAIN ot.timers /\ ot.timers[id].fd = fd /\ fd # Freed /\ ot.open[fd] = "expired"
        /\ Wired(ot') /\ Plays(ot') /\ SameStates(ot, ot') /\ Conserves(ot, ot', fd)
        /\ ot'.open[fd] = "idle" \/ id = 1 \/ id > Fixed
        /\ ot'.commands = ot.commands \/ ot.engine # "none"
    <2>1. CASE /\ Handles(fd, type, "genericTimerReadable")
               /\ ot' = Notify(ot, id, [due |-> 0, extends |-> FALSE])
      <3>1. ot.watches[fd].onEvent = "genericTimerReadable"
        BY <2>1, EventTaken
      <3> HIDE DEF id
      <3>2. /\ id \in DOMAIN ot.timers /\ ot.timers[id].fd = fd /\ fd # Freed
            /\ ot.open[fd] = "expired" /\ OnEvent(ot.timers[id].callback) = "genericTimerReadable"
        BY <1>2, <1>3, <3>1, TimerFound DEF id
      <3>3. /\ Wired(ot') /\ Plays(ot') /\ SameStates(ot, ot')
            /\ Conserves(ot, ot', fd) /\ (ot'.open[fd] = "idle" \/ id = 1)
            /\ ot'.commands = ot.commands \/ ot.engine # "none"
        BY <1>3, <2>1, <3>2, GenericHandled
      <3>4. QED
        BY <3>2, <3>3
    <2>2. CASE /\ Handles(fd, type, "playTimerReadable")
               /\ \E c \in Choice : Possible(ot, c) /\ ot' = PlayTimerReadable(ot, id, c)
      <3>1. ot.watches[fd].onEvent = "playTimerReadable"
        BY <2>2, EventTaken
      <3>2. PICK c \in Choice : Possible(ot, c) /\ ot' = PlayTimerReadable(ot, id, c)
        BY <2>2
      <3>3. c.due <= ot.launches
        BY <3>2 DEF Possible
      <3> HIDE DEF id
      <3>4. /\ id \in DOMAIN ot.timers /\ ot.timers[id].fd = fd /\ fd # Freed
            /\ ot.open[fd] = "expired" /\ OnEvent(ot.timers[id].callback) = "playTimerReadable"
        BY <1>2, <1>3, <3>1, TimerFound DEF id
      <3>5. /\ Wired(ot') /\ Plays(ot') /\ SameStates(ot, ot')
            /\ Conserves(ot, ot', fd) /\ id > Fixed /\ ot.engine # "none"
        BY <1>3, <3>2, <3>3, <3>4, PlayHandled
      <3>6. QED
        BY <3>4, <3>5
    <2>3. QED
      BY <2>1, <2>2 DEF HandleTimer
  <1> HIDE DEF id
  <1>5. BatchWired(ot', batch')
    BY <1>2, <1>3, <1>4, BatchKept
  <1>6. CleanupFirst(ot', batch')
    <2>1. config.limited /\ (fd = ot.timers[2].fd \/ fd = ot.timers[3].fd) => ot'.open[fd] = "idle"
      <3>1. ASSUME config.limited, NEW j \in {2, 3}, fd = ot.timers[j].fd PROVE id = j /\ id # 1 /\ ~ (id > Fixed)
        <4>1. j \in DOMAIN ot.timers /\ ot \in Process /\ TimersWired(ot)
          BY <1>3, <3>1, FixedTimers DEF Timed
        <4>2. id = j
          BY <1>4, <3>1, <4>1, OneTimerEach
        <4>3. QED
          BY <3>1, <4>2 DEF Fixed
      <3>2. QED
        BY <1>4, <3>1
    <2>2. QED
      BY <1>2, <1>3, <1>4, <2>1, CleanupStaysFirst
  <1>7. Believes(ot, toTor)' /\ TruthTold(fromTor)'
    BY <1>1, <1>4, BeliefsStay, TruthStays DEF SameStates
  <1>8. batch' \subseteq Descriptors \X {"READ", "WRITE"}
    BY <1>2, <1>3
  <1>9. QED
    BY <1>1, <1>2, <1>4, <1>5, <1>6, <1>7, <1>8, OthersTyped, LoopingKept

\* The commands that are left are registered for.
LEMMA CommandsLeft ==
    ASSUME NEW o, Wired(o), o.torctl # "NONE", NEW commands \in Seq(Command)
    PROVE  LET q == Reregister([o EXCEPT !.commands = commands])
           IN  /\ Wired(q) /\ q.open = o.open /\ q.timers = o.timers
               /\ q.engine = o.engine /\ q.launches = o.launches /\ q.torctl = o.torctl
               /\ q.commands = commands
  <1> DEFINE m == [o EXCEPT !.commands = commands]
             q == Reregister(m)
  <1>1. /\ m \in Process /\ TimersKept(o, m) /\ m.torctl = o.torctl /\ m.commands = commands
        /\ m.watches = o.watches /\ m.epoll = o.epoll /\ m.socket = o.socket
    BY DEF Wired, Timed, Process, TimersKept
  <1> HIDE DEF m
  <1>2. Timed(m) /\ Linked(m)
    BY <1>1, TimersKeptTimed, WiredLinked DEF Linked
  <1>3. Wired(q) /\ TimersKept(m, q) /\ Unmanaged(m, q)
    BY <1>1, <1>2, ReregisterWires
  <1> HIDE DEF q
  <1>4. QED
    BY <1>1, <1>3 DEF TimersKept, Unmanaged, q, m

LEMMA FlushKeeps ==
    ASSUME LifecycleIInv, NEW fd \in Descriptors, NEW type \in {"READ", "WRITE"},
           HandleFlush(fd, type) \/ HandleFlushDead(fd, type)
    PROVE  LifecycleIInv'
  <1>1. /\ Handles(fd, type, "flushCommands")
        /\ UNCHANGED <<config, receiving, conn, fromTor, tor>>
    BY DEF HandleFlush, HandleFlushDead
  <1>2. /\ phase = "looping" /\ ~ receiving /\ Remains(batch, batch', fd) /\ batch' \subseteq batch
        /\ ot.open[fd] \in {"socket", "expired"} /\ ot.watches[fd].onEvent = "flushCommands"
    BY <1>1, EventTaken
  <1>3. /\ Wired(ot) /\ Timed(ot) /\ Linked(ot) /\ Plays(ot) /\ BatchWired(ot, batch) /\ CleanupFirst(ot, batch)
        /\ batch \subseteq Descriptors \X {"READ", "WRITE"} /\ ot \in Process
        /\ ot.engine # "none" => ot.torctl = "PROCESSING"
    BY <1>2, LoopingMeans
  <1>4. fd = ot.socket /\ ot.watches[fd] = SocketWatch(ot)
    BY <1>2, <1>3, SocketFound
  <1>5. ot.torctl # "NONE"
    BY <1>2, <1>4, SocketHandler
  <1>6. /\ ot.commands \in Seq(Command) /\ toTor \in Seq(Command)
        /\ toTor \o ot.commands \in Seq(Command) /\ <<>> \in Seq(Command)
    <2>1. ot.commands \in Seq(Command)
      BY <1>3, ProcessType
    <2>2. toTor \in Seq(Command)
      BY OthersTyped
    <2>3. QED
      BY <2>1, <2>2
  <1>7. Believes(ot, toTor)
    BY DEF LifecycleIInv
  <1>8. ASSUME NEW sent, toTor' = sent, sent \in Seq(Command),
               Wired(ot'), ot'.open = ot.open, ot'.timers = ot.timers,
               ot'.engine = ot.engine, ot'.launches = ot.launches, ot'.torctl = ot.torctl,
               phase' = "looping",
               (\A i \in DOMAIN ot.commands : ot.commands[i] = "AUTHENTICATE")
                  /\ (\A i \in DOMAIN toTor : toTor[i] = "AUTHENTICATE")
               => (\A i \in DOMAIN ot'.commands : ot'.commands[i] = "AUTHENTICATE")
                  /\ (\A i \in DOMAIN sent : sent[i] = "AUTHENTICATE")
        PROVE  LifecycleIInv'
    <2>1. Plays(ot')
      BY <1>3, <1>8, PlaysKept
    <2>2. BatchWired(ot', batch') /\ CleanupFirst(ot', batch')
      BY <1>2, <1>3, <1>4, <1>8, SocketHandled
    <2>3. Believes(ot, toTor)'
      BY <1>1, <1>7, <1>8 DEF Believes, Working, Unauthenticated
    <2>4. TruthTold(fromTor)'
      BY <1>1, TruthStays
    <2>5. batch' \subseteq Descriptors \X {"READ", "WRITE"}
      BY <1>2, <1>3
    <2>6. QED
      BY <1>1, <1>2, <1>8, <2>1, <2>2, <2>3, <2>4, <2>5, OthersTyped, LoopingKept
  <1>9. CASE HandleFlush(fd, type) /\ type = "WRITE"
    <2>1. /\ toTor' = toTor \o ot.commands /\ ot' = Reregister([ot EXCEPT !.commands = <<>>])
          /\ phase' = "looping"
      BY <1>2, <1>9 DEF HandleFlush
    <2>2. /\ Wired(ot') /\ ot'.open = ot.open /\ ot'.timers = ot.timers
          /\ ot'.engine = ot.engine /\ ot'.launches = ot.launches /\ ot'.torctl = ot.torctl
          /\ ot'.commands = <<>>
      BY <1>3, <1>5, <1>6, <2>1, CommandsLeft
    <2>3. (\A i \in DOMAIN ot.commands : ot.commands[i] = "AUTHENTICATE")
            /\ (\A i \in DOMAIN toTor : toTor[i] = "AUTHENTICATE")
          => \A i \in DOMAIN (toTor \o ot.commands) : (toTor \o ot.commands)[i] = "AUTHENTICATE"
      BY <1>6
    <2>4. \A i \in DOMAIN ot'.commands : ot'.commands[i] = "AUTHENTICATE"
      BY <2>2
    <2> DEFINE sent == toTor \o ot.commands
    <2>5. toTor' = sent /\ sent \in Seq(Command)
      BY <1>6, <2>1
    <2>6. (\A i \in DOMAIN ot.commands : ot.commands[i] = "AUTHENTICATE")
            /\ (\A i \in DOMAIN toTor : toTor[i] = "AUTHENTICATE")
          => \A i \in DOMAIN sent : sent[i] = "AUTHENTICATE"
      BY <2>3
    <2> HIDE DEF sent
    <2>7. QED
      BY <1>8, <2>1, <2>2, <2>4, <2>5, <2>6
  <1>10. CASE HandleFlush(fd, type) /\ type # "WRITE"
    <2>1. ot' = Reregister(ot) /\ UNCHANGED <<toTor, phase>>
      BY <1>10 DEF HandleFlush
    <2>2. Wired(ot') /\ TimersKept(ot, ot') /\ Unmanaged(ot, ot')
      BY <1>3, <1>5, <2>1, ReregisterWires
    <2>3. QED
      BY <1>2, <1>6, <1>8, <2>1, <2>2 DEF Unmanaged
  <1>11. CASE /\ HandleFlushDead(fd, type)
              /\ \E n \in 1..Len(ot.commands) :
                    ot' = Reregister([ot EXCEPT !.commands = SubSeq(@, n + 1, Len(@))])
              /\ UNCHANGED phase
    <2>1. PICK n \in 1..Len(ot.commands) :
                    ot' = Reregister([ot EXCEPT !.commands = SubSeq(@, n + 1, Len(@))])
      BY <1>11
    <2> DEFINE rest == SubSeq(ot.commands, n + 1, Len(ot.commands))
    <2>2. n \in Nat /\ Len(ot.commands) \in Nat /\ n >= 1
      BY <1>6
    <2>3. rest \in Seq(Command)
      BY <1>6, <2>2, SubSeqProperties
    <2>4. \A i \in DOMAIN rest : \E j \in DOMAIN ot.commands : rest[i] = ot.commands[j]
      BY <1>6, <2>2
    <2>5. ot' = Reregister([ot EXCEPT !.commands = rest])
      BY <2>1
    <2> HIDE DEF rest
    <2>6. /\ Wired(ot') /\ ot'.open = ot.open /\ ot'.timers = ot.timers
          /\ ot'.engine = ot.engine /\ ot'.launches = ot.launches /\ ot'.torctl = ot.torctl
          /\ ot'.commands = rest
      BY <1>3, <1>5, <2>3, <2>5, CommandsLeft
    <2>7. toTor' = toTor /\ phase' = "looping"
      BY <1>2, <1>11 DEF HandleFlushDead
    <2>8. QED
      BY <1>6, <1>8, <2>4, <2>6, <2>7
  <1>12. CASE HandleFlushDead(fd, type) /\ phase' = "killed" /\ UNCHANGED ot
    <2>1. UNCHANGED toTor
      BY <1>12 DEF HandleFlushDead
    <2>2. Believes(ot, toTor)' /\ TruthTold(fromTor)'
      BY <1>1, <1>12, <2>1, BeliefsStay, TruthStays
    <2>3. batch' \subseteq Descriptors \X {"READ", "WRITE"}
      BY <1>2, <1>3
    <2>4. TypeOK'
      BY <1>1, <1>3, <1>12, <2>1, <2>3 DEF LifecycleIInv, TypeOK
    <2>5. QED
      BY <1>12, <2>2, <2>4 DEF LifecycleIInv
  <1>13. QED
    BY <1>9, <1>10, <1>11, <1>12 DEF HandleFlushDead

LEMMA ReceiveKeeps ==
    ASSUME LifecycleIInv, NEW fd \in Descriptors, NEW type \in {"READ", "WRITE"}, HandleReceive(fd, type)
    PROVE  LifecycleIInv'
  <1>1. /\ Handles(fd, type, "receiveLines") /\ receiving' = (type = "READ")
        /\ UNCHANGED <<config, phase, ot, conn, toTor, fromTor, tor>>
    BY DEF HandleReceive
  <1>2. /\ phase = "looping" /\ ~ receiving /\ Remains(batch, batch', fd) /\ batch' \subseteq batch
        /\ ot.open[fd] \in {"socket", "expired"} /\ ot.watches[fd].onEvent = "receiveLines"
    BY <1>1, EventTaken
  <1>3. /\ Wired(ot) /\ Timed(ot) /\ Plays(ot) /\ BatchWired(ot, batch) /\ CleanupFirst(ot, batch)
        /\ batch \subseteq Descriptors \X {"READ", "WRITE"}
    BY <1>2, LoopingMeans
  <1>4. fd = ot.socket /\ ot.watches[fd] = SocketWatch(ot)
    BY <1>2, <1>3, SocketFound
  <1>5. ot.torctl # "NONE"
    BY <1>2, <1>4, SocketHandler
  <1>6. BatchWired(ot, batch') /\ CleanupFirst(ot, batch')
    BY <1>2, <1>3, <1>4, SocketHandled
  <1>7. Believes(ot, toTor)' /\ TruthTold(fromTor)'
    BY <1>1, BeliefsStay, TruthStays
  <1>8. batch' \subseteq Descriptors \X {"READ", "WRITE"} /\ receiving' \in BOOLEAN
    BY <1>1, <1>2, <1>3
  <1>9. /\ Wired(ot') /\ Plays(ot') /\ BatchWired(ot', batch') /\ CleanupFirst(ot', batch')
        /\ ot'.torctl # "NONE"
    BY <1>1, <1>3, <1>5, <1>6
  <1>10. QED
    BY <1>1, <1>2, <1>7, <1>8, <1>9, OthersTyped, LoopingKept

-----------------------------------------------------------------------------
(* Lines, and the end of the loop                                          *)

LEMMA LineFacts ==
    /\ OK \in Line /\ Denied \in Line /\ \A n \in 0..Bootstrapped : Progress(n) \in Line
    /\ OK.type # "PROGRESS" /\ Denied # OK /\ Denied.type # "PROGRESS"
    /\ \A n : Progress(n).type = "PROGRESS" /\ Progress(n).progress = n /\ Progress(n) # OK
    /\ \A line \in Line : line.type = "PROGRESS" => line.progress \in 0..Bootstrapped
  <1>1. OK.type = "OK" /\ Denied.type = "DENIED"
        /\ \A n : Progress(n).type = "PROGRESS" /\ Progress(n).progress = n
    BY DEF OK, Denied, Progress
  <1>2. OK \in Line /\ Denied \in Line /\ \A n \in 0..Bootstrapped : Progress(n) \in Line
    BY DEF Line
  <1>3. \A line \in Line : line = OK \/ line = Denied \/ \E n \in 0..Bootstrapped : line = Progress(n)
    BY DEF Line
  <1>4. Denied # OK /\ \A n : Progress(n) # OK
    BY <1>1
  <1>5. \A line \in Line : line.type = "PROGRESS" => line.progress \in 0..Bootstrapped
    BY <1>1, <1>3
  <1>6. QED
    BY <1>1, <1>2, <1>4, <1>5

LEMMA ReceiveLineKeeps ==
    ASSUME LifecycleIInv, ReceiveLine
    PROVE  LifecycleIInv'
  <1> DEFINE line == Head(fromTor)
  <1>1. /\ phase = "looping" /\ receiving /\ fromTor # <<>> /\ fromTor' = Tail(fromTor)
        /\ UNCHANGED <<config, phase, batch, receiving, conn, toTor, tor>>
    BY DEF ReceiveLine
  <1>2. PICK c \in Choice : Possible(ot, c) /\ ot' = ProcessLine(ot, line, c)
    BY DEF ReceiveLine
  <1>3. c.due <= ot.launches
    BY <1>2 DEF Possible
  <1>4. /\ Wired(ot) /\ Timed(ot) /\ Plays(ot) /\ BatchWired(ot, batch) /\ CleanupFirst(ot, batch)
        /\ batch \subseteq Descriptors \X {"READ", "WRITE"} /\ config \in Config
        /\ ot.engine # "none" => ot.torctl = "PROCESSING"
        /\ ot.torctl # "NONE"
    BY <1>1, LoopingMeans
  <1>5. fromTor \in Seq(Line) /\ toTor \in Seq(Command) /\ tor.progress \in 0..Bootstrapped /\ Bootstrapped \in Nat
    BY OthersTyped
  <1>6. /\ line \in Line /\ line = fromTor[1] /\ 1 \in DOMAIN fromTor /\ Tail(fromTor) \in Seq(Line)
        /\ \A i \in DOMAIN Tail(fromTor) : i + 1 \in DOMAIN fromTor /\ Tail(fromTor)[i] = fromTor[i + 1]
    BY <1>1, <1>5
  <1>7. /\ line = OK => tor.authenticated
        /\ line.type = "PROGRESS" => line.progress <= tor.progress /\ line.progress \in 0..Bootstrapped
    BY <1>6, LineFacts DEF LifecycleIInv, TruthTold
  <1> HIDE DEF line
  <1>8. /\ Wired(ot') /\ Plays(ot') /\ Conserves(ot, ot', Freed) /\ ot'.torctl # "NONE"
        /\ ot'.engine # "none" =>
             /\ ot'.torctl = "PROCESSING"
             /\ \/ ot'.engine = ot.engine
                \/ ot'.engine = config.mode /\ line.type = "PROGRESS" /\ line.progress >= Bootstrapped
        /\ ot.torctl = "AUTHENTICATE" /\ line # OK => ot' = ot
    BY <1>2, <1>3, <1>4, <1>6, LineResult
  <1>9. \A fd \in Descriptors : fd # Freed
    BY LifecycleAssumption DEF Freed
  <1>10. BatchWired(ot', batch)
    BY <1>4, <1>8, <1>9, BatchKept
  <1>11. CleanupFirst(ot', batch)
    <2>1. Remains(batch, batch, Freed)
      BY DEF Remains
    <2>2. config.limited => Freed # ot.timers[2].fd /\ Freed # ot.timers[3].fd
      BY <1>4, FixedTimers
    <2>3. QED
      BY <1>4, <1>8, <2>1, <2>2, CleanupStaysFirst
  <1>12. Believes(ot, toTor)'
    <2>1. Believes(ot, toTor)
      BY DEF LifecycleIInv
    <2>2. ASSUME ot'.engine # "none"
          PROVE  ot'.torctl = "PROCESSING" /\ ot'.engine = config.mode /\ tor.progress = Bootstrapped
      <3>1. CASE ot'.engine = ot.engine
        BY <1>8, <2>1, <2>2, <3>1 DEF Believes, Working
      <3>2. CASE ot'.engine = config.mode /\ line.type = "PROGRESS" /\ line.progress >= Bootstrapped
        BY <1>5, <1>7, <1>8, <2>2, <3>2
      <3>3. QED
        BY <1>8, <2>2, <3>1, <3>2
    <2>3. ASSUME ~ tor.authenticated PROVE Unauthenticated(ot', toTor)
      <3>1. Unauthenticated(ot, toTor)
        BY <2>1, <2>3 DEF Believes
      <3>2. ot' = ot
        BY <1>4, <1>7, <1>8, <2>3, <3>1 DEF Unauthenticated
      <3>3. QED
        BY <3>1, <3>2
    <2>4. QED
      BY <1>1, <2>2, <2>3 DEF Believes, Working, Unauthenticated
  <1>13. TruthTold(fromTor)'
    BY <1>1, <1>6 DEF LifecycleIInv, TruthTold
  <1>14. QED
    BY <1>1, <1>4, <1>6, <1>8, <1>10, <1>11, <1>12, <1>13, OthersTyped, LoopingKept

LEMMA ReceiveDoneKeeps ==
    ASSUME LifecycleIInv, ReceiveDone
    PROVE  LifecycleIInv'
  <1>1. /\ phase = "looping" /\ receiving' = FALSE
        /\ UNCHANGED <<config, phase, ot, batch, conn, toTor, fromTor, tor>>
    BY DEF ReceiveDone
  <1>2. /\ Wired(ot) /\ Plays(ot) /\ BatchWired(ot, batch) /\ CleanupFirst(ot, batch)
        /\ batch \subseteq Descriptors \X {"READ", "WRITE"}
    BY <1>1, LoopingMeans
  <1>3. Believes(ot, toTor)' /\ TruthTold(fromTor)'
    BY <1>1, BeliefsStay, TruthStays
  <1>4. /\ Wired(ot') /\ Plays(ot') /\ BatchWired(ot', batch') /\ CleanupFirst(ot', batch')
        /\ batch' \subseteq Descriptors \X {"READ", "WRITE"}
    BY <1>1, <1>2
  <1>5. QED
    BY <1>1, <1>3, <1>4, OthersTyped, LoopingKept

LEMMA TimerNames ==
    ASSUME Timed(ot)
    PROVE  /\ TimerOf("heartbeat") = 1
           /\ config.limited => TimerOf("cleanup") = 2 /\ TimerOf("shutdown") = 3
  BY FixedTimers DEF TimerOf

LEMMA StoppedResult ==
    ASSUME Timed(ot)
    PROVE  /\ Stopped(ot) \in Process /\ Stopped(ot).engine = "none"
           /\ Stopped(ot).torctl = "NONE" /\ Stopped(ot).commands = <<>>
           /\ \A fd \in Descriptors :
                 fd # ot.socket /\ fd # ot.timers[1].fd /\ (config.limited => fd # ot.timers[3].fd)
                 => Stopped(ot).open[fd] = ot.open[fd]
           /\ config.limited => Stopped(ot).timers[2] = ot.timers[2]
  <1> DEFINE f == [ot EXCEPT !.state = "IDLE", !.engine = "none", !.commands = <<>>, !.torctl = "NONE"]
             b == FreeTimer(f, 1)
             t == IF config.limited THEN FreeTimer(b, 3) ELSE b
             d == Deregister(t, ot.socket)
             e == [d EXCEPT !.epoll[ot.socket] = "NONE"]
             q == [e EXCEPT !.open[ot.socket] = "closed"]
  <1>1. Stopped(ot) = q
    BY TimerNames DEF Stopped, Close, Unpoll
  <1>2. ot \in Process /\ ot.socket \in Descriptors
    BY DEF Timed
  <1>3. /\ f \in Process /\ f.engine = "none" /\ f.torctl = "NONE" /\ f.commands = <<>>
        /\ f.timers = ot.timers /\ f.open = ot.open
    <2>1. ASSUME NEW c \in Seq(Command)
          PROVE  LET p == [ot EXCEPT !.state = "IDLE", !.engine = "none", !.commands = c, !.torctl = "NONE"]
                 IN  /\ p \in Process /\ p.engine = "none" /\ p.torctl = "NONE" /\ p.commands = c
                     /\ p.timers = ot.timers /\ p.open = ot.open
      BY <1>2 DEF Process, DriverState
    <2>2. <<>> \in Seq(Command)
      OBVIOUS
    <2>3. QED
      BY <2>1, <2>2
  <1> HIDE DEF f
  <1>4. 1 \in DOMAIN f.timers /\ f.timers[1].fd \in Descriptors
    BY <1>3, FixedTimers
  <1>5. /\ b \in Process /\ Untimed(f, b) /\ b.timers = [f.timers EXCEPT ![1].fd = Freed]
        /\ b.open = [f.open EXCEPT ![f.timers[1].fd] = "closed"]
    BY <1>3, <1>4, FreeTimerResult
  <1> HIDE DEF b
  <1>6. /\ DOMAIN b.timers = DOMAIN ot.timers /\ \A i \in DOMAIN ot.timers : i # 1 => b.timers[i] = ot.timers[i]
        /\ \A fd \in Descriptors : fd # ot.timers[1].fd => b.open[fd] = ot.open[fd]
    BY <1>2, <1>3, <1>5, ProcessType
  <1>7. /\ t \in Process /\ Untimed(b, t)
        /\ config.limited => t.timers[2] = ot.timers[2]
        /\ \A fd \in Descriptors :
              fd # ot.timers[1].fd /\ (config.limited => fd # ot.timers[3].fd) => t.open[fd] = ot.open[fd]
    <2>1. CASE config.limited
      <3>1. 3 \in DOMAIN b.timers /\ b.timers[3].fd \in Descriptors /\ b.timers[3].fd = ot.timers[3].fd
        BY <1>6, <2>1, FixedTimers
      <3>2. /\ t \in Process /\ Untimed(b, t) /\ t.timers = [b.timers EXCEPT ![3].fd = Freed]
            /\ t.open = [b.open EXCEPT ![b.timers[3].fd] = "closed"]
        BY <1>5, <2>1, <3>1, FreeTimerResult, ZenonT(60)
      <3> HIDE DEF t
      <3>3. 2 \in DOMAIN ot.timers
        BY <2>1, FixedTimers
      <3>4. t.timers[2] = ot.timers[2]
        BY <1>6, <3>2, <3>3
      <3>5. \A fd \in Descriptors : fd # b.timers[3].fd => t.open[fd] = b.open[fd]
        BY <1>5, <3>2, ProcessType
      <3>6. QED
        BY <1>6, <2>1, <3>1, <3>2, <3>4, <3>5
    <2>2. CASE ~ config.limited
      BY <1>5, <1>6, <2>2 DEF Untimed
    <2>3. QED
      BY <2>1, <2>2
  <1> HIDE DEF t
  <1>8. d \in Process /\ Unmanaged(t, d)
    BY <1>2, <1>7, DeregisterResult
  <1> HIDE DEF d
  <1>9. /\ e \in Process /\ e.open = d.open /\ e.timers = d.timers
        /\ e.engine = d.engine /\ e.torctl = d.torctl /\ e.commands = d.commands
    BY <1>8 DEF Process
  <1> HIDE DEF e
  <1>10. /\ q \in Process /\ q.open = [e.open EXCEPT ![ot.socket] = "closed"] /\ q.timers = e.timers
         /\ q.engine = e.engine /\ q.torctl = e.torctl /\ q.commands = e.commands
    BY <1>9 DEF Process, Object
  <1> HIDE DEF q
  <1>11. q.engine = "none" /\ q.torctl = "NONE" /\ q.commands = <<>>
    BY <1>3, <1>5, <1>7, <1>8, <1>9, <1>10 DEF Untimed, Unmanaged
  <1>12. \A fd \in Descriptors : fd # ot.socket => q.open[fd] = t.open[fd]
    BY <1>7, <1>8, <1>9, <1>10, ProcessType DEF Unmanaged
  <1>13. q.timers = t.timers
    BY <1>8, <1>9, <1>10 DEF Unmanaged
  <1>14. QED
    BY <1>1, <1>7, <1>10, <1>11, <1>12, <1>13

LEMMA ExitLoopKeeps ==
    ASSUME LifecycleIInv, ExitLoop
    PROVE  LifecycleIInv'
  <1>1. /\ phase = "looping" /\ phase' = "done" /\ ot' = Stopped(ot) /\ conn' = "closed"
        /\ UNCHANGED <<config, batch, receiving, toTor, fromTor, tor>>
    BY DEF ExitLoop, Idle
  <1>2. Timed(ot)
    BY <1>1, LoopingMeans
  <1>3. ot' \in Process /\ ot'.engine = "none" /\ ot'.torctl = "NONE" /\ ot'.commands = <<>>
    BY <1>1, <1>2, StoppedResult
  <1>4. Believes(ot, toTor)'
    BY <1>1, <1>3 DEF LifecycleIInv, Believes, Unauthenticated
  <1>5. QED
    BY <1>1, <1>3, <1>4, OthersTyped, EndKept

-----------------------------------------------------------------------------
(* The kernel and Tor                                                      *)

LEMMA ExpireKeeps ==
    ASSUME LifecycleIInv, NEW fd \in Descriptors, Expire(fd)
    PROVE  LifecycleIInv'
  <1>1. /\ phase = "looping" /\ ot.open[fd] = "armed" /\ ot' = [ot EXCEPT !.open[fd] = "expired"]
        /\ UNCHANGED <<config, phase, batch, receiving, conn, toTor, fromTor, tor>>
    BY DEF Expire
  <1>2. /\ Wired(ot) /\ Timed(ot) /\ Plays(ot) /\ BatchWired(ot, batch) /\ CleanupFirst(ot, batch)
        /\ batch \subseteq Descriptors \X {"READ", "WRITE"} /\ ot \in Process
        /\ receiving => ot.torctl # "NONE"
    BY <1>1, LoopingMeans
  <1>3. "expired" \in Ticking /\ ot.open[fd] \in Ticking
    BY <1>1 DEF Ticking
  <1>4. /\ Wired(ot') /\ Untimed(ot, ot') /\ ot'.timers = ot.timers
        /\ ot'.open = [ot.open EXCEPT ![fd] = "expired"]
    BY <1>1, <1>2, <1>3, TimerTurns
  <1>5. ot'.open[fd] = "expired" /\ \A g \in Descriptors \ {fd} : ot'.open[g] = ot.open[g]
    BY <1>2, <1>4, ProcessType
  <1>6. Plays(ot')
    <2>1. PlayTimers(ot') = PlayTimers(ot)
      BY <1>4 DEF PlayTimers
    <2>2. ASSUME NEW id \in PlayTimers(ot) PROVE ot'.open[ot.timers[id].fd] \in {"armed", "expired"}
      <3>1. ot.timers[id].fd \in Descriptors /\ ot.open[ot.timers[id].fd] \in {"armed", "expired"}
        BY <1>2, TimerType DEF PlayTimers, Plays
      <3>2. QED
        BY <1>5, <3>1
    <2>3. QED
      BY <1>2, <1>4, <2>1, <2>2 DEF Plays, Untimed
  <1>7. BatchWired(ot', batch)
    <2>1. \A e \in batch : e[1] \in Descriptors
      BY <1>2
    <2>2. QED
      BY <1>2, <1>5, <2>1 DEF BatchWired
  <1>8. CleanupFirst(ot', batch)
    <2> DEFINE cleanup == ot.timers[2].fd
               shutdown == ot.timers[3].fd
    <2>1. SUFFICES ASSUME config.limited PROVE CleanupFirst(ot', batch)
      BY DEF CleanupFirst
    <2>2. fd = shutdown => ot.open[cleanup] # "armed"
      BY <1>2, <2>1, TimerNames DEF Expire
    <2>3. cleanup \in Descriptors /\ shutdown \in Descriptors
      BY <1>2, <2>1, FixedTimers
    <2>4. /\ ot.open[shutdown] # "armed" => ot.open[cleanup] # "armed"
          /\ ot.open[shutdown] = "idle" \/ (\E e \in batch : e[1] = shutdown) =>
                ot.open[cleanup] = "idle" \/ \E e \in batch : e[1] = cleanup
      BY <1>2, <2>1 DEF CleanupFirst
    <2>5. ot'.timers = ot.timers
      BY <1>4
    <2> HIDE DEF cleanup, shutdown
    <2>6. ot'.open[shutdown] # "armed" => ot'.open[cleanup] # "armed"
      BY <1>1, <1>5, <2>2, <2>3, <2>4
    <2>7. ot'.open[shutdown] = "idle" => ot.open[shutdown] = "idle"
      BY <1>5, <2>3
    <2>8. ot.open[cleanup] = "idle" => ot'.open[cleanup] = "idle"
      BY <1>1, <1>5, <2>3
    <2>9. QED
      BY <2>4, <2>5, <2>6, <2>7, <2>8 DEF CleanupFirst, cleanup, shutdown
  <1>9. Believes(ot, toTor)' /\ TruthTold(fromTor)'
    BY <1>1, <1>4, BeliefsStay, TruthStays DEF Untimed
  <1>10. ot'.torctl = ot.torctl
    BY <1>4 DEF Untimed
  <1>11. QED
    BY <1>1, <1>2, <1>4, <1>6, <1>7, <1>8, <1>9, <1>10, OthersTyped, LoopingKept

\* A step of Tor.
LEMMA TorKept ==
    ASSUME LifecycleIInv, UNCHANGED <<config, phase, ot, batch, receiving>>,
           conn' \in {"connecting", "refused", "open", "closed"},
           toTor' \in Seq(Command), fromTor' \in Seq(Line),
           tor' \in [authenticated : BOOLEAN, progress : 0..Bootstrapped, watching : BOOLEAN],
           Believes(ot, toTor)', TruthTold(fromTor)'
    PROVE  LifecycleIInv'
  <1>1. TypeOK'
    BY DEF LifecycleIInv, TypeOK
  <1>2. Fresh(ot)' <=> Fresh(ot)
    BY DEF Fresh
  <1>3. phase = "looping" => Wired(ot)' /\ CleanupFirst(ot, batch)'
    <2>1. SUFFICES ASSUME phase = "looping" PROVE Wired(ot)' /\ CleanupFirst(ot, batch)'
      OBVIOUS
    <2>2. Wired(ot') /\ CleanupFirst(ot', batch')
      BY <2>1, LoopingMeans
    <2>3. QED
      BY <2>2, ConfigStays
  <1>4. phase = "looping" => Plays(ot)' /\ BatchWired(ot, batch)' /\ (receiving' => ot'.torctl # "NONE")
    BY LoopingMeans
  <1>5. QED
    BY <1>1, <1>2, <1>3, <1>4 DEF LifecycleIInv

LEMMA ConnectionKeeps ==
    ASSUME LifecycleIInv, TorAccepts \/ TorCloses
    PROVE  LifecycleIInv'
  <1>1. /\ conn' \in {"connecting", "refused", "open", "closed"}
        /\ UNCHANGED <<config, phase, ot, batch, receiving, toTor, fromTor, tor>>
    BY DEF TorAccepts, TorCloses
  <1>2. Believes(ot, toTor)' /\ TruthTold(fromTor)'
    BY <1>1, BeliefsStay, TruthStays
  <1>3. QED
    BY <1>1, <1>2, OthersTyped, TorKept

\* What Tor says is true when it says it, and remains so.
LEMMA Told ==
    ASSUME LifecycleIInv, NEW q \in Seq(Line), fromTor' = fromTor \o q,
           tor.authenticated => tor'.authenticated,
           tor'.progress \in 0..Bootstrapped, tor.progress <= tor'.progress,
           \A i \in DOMAIN q : /\ q[i] = OK => tor'.authenticated
                               /\ q[i].type = "PROGRESS" => q[i].progress <= tor'.progress
    PROVE  TruthTold(fromTor)' /\ fromTor' \in Seq(Line)
  <1>1. fromTor \in Seq(Line) /\ tor.progress \in 0..Bootstrapped /\ Bootstrapped \in Nat
    BY OthersTyped
  <1>2. \A i \in DOMAIN fromTor' :
            \/ i \in DOMAIN fromTor /\ fromTor'[i] = fromTor[i]
            \/ i - Len(fromTor) \in DOMAIN q /\ fromTor'[i] = q[i - Len(fromTor)]
    BY <1>1
  <1>3. ASSUME NEW i \in DOMAIN fromTor, fromTor[i].type = "PROGRESS"
        PROVE  fromTor[i].progress <= tor'.progress
    <2>1. fromTor[i] \in Line
      BY <1>1
    <2>2. fromTor[i].progress \in 0..Bootstrapped /\ fromTor[i].progress <= tor.progress
      BY <1>3, <2>1, LineFacts DEF LifecycleIInv, TruthTold
    <2>3. QED
      BY <1>1, <2>2
  <1>4. \A i \in DOMAIN fromTor : fromTor[i] = OK => tor'.authenticated
    BY DEF LifecycleIInv, TruthTold
  <1>5. fromTor' \in Seq(Line)
    BY <1>1
  <1>6. TruthTold(fromTor)'
    BY <1>2, <1>3, <1>4 DEF TruthTold
  <1>7. QED
    BY <1>5, <1>6

LEMMA TorExecutesKeeps ==
    ASSUME LifecycleIInv, TorExecutes
    PROVE  LifecycleIInv'
  <1>1. /\ toTor # <<>> /\ toTor' = Tail(toTor)
        /\ UNCHANGED <<config, phase, ot, batch, receiving, conn>>
    BY DEF TorExecutes
  <1>2. /\ toTor \in Seq(Command) /\ fromTor \in Seq(Line)
        /\ tor \in [authenticated : BOOLEAN, progress : 0..Bootstrapped, watching : BOOLEAN]
        /\ tor.progress \in 0..Bootstrapped /\ Bootstrapped \in Nat
    BY OthersTyped
  <1>3. /\ Tail(toTor) \in Seq(Command) /\ Head(toTor) = toTor[1] /\ 1 \in DOMAIN toTor
        /\ \A i \in DOMAIN Tail(toTor) : i + 1 \in DOMAIN toTor /\ Tail(toTor)[i] = toTor[i + 1]
    BY <1>1, <1>2
  <1>4. Believes(ot, toTor)
    BY DEF LifecycleIInv
  <1>5. ASSUME tor' \in [authenticated : BOOLEAN, progress : 0..Bootstrapped, watching : BOOLEAN],
               tor'.progress = tor.progress, tor.authenticated => tor'.authenticated,
               NEW q \in Seq(Line), Replies(q),
               \A i \in DOMAIN q : /\ q[i] = OK => tor'.authenticated
                                   /\ q[i].type = "PROGRESS" => q[i].progress <= tor'.progress
        PROVE  LifecycleIInv'
    <2>1. TruthTold(fromTor)' /\ fromTor' \in Seq(Line)
      <3>1. fromTor' = fromTor \o q
        BY <1>5 DEF Replies
      <3>2. tor'.progress \in 0..Bootstrapped /\ tor.progress <= tor'.progress
        BY <1>2, <1>5
      <3>3. QED
        BY <1>5, <3>1, <3>2, Told
    <2>2. Believes(ot, toTor)'
      BY <1>1, <1>3, <1>4, <1>5 DEF Believes, Working, Unauthenticated
    <2>3. QED
      BY <1>1, <1>2, <1>3, <1>5, <2>1, <2>2, OthersTyped, TorKept
  <1>6. ASSUME NEW line \in Line
        PROVE  <<line>> \in Seq(Line) /\ \A i \in DOMAIN <<line>> : <<line>>[i] = line
    OBVIOUS
  <1>7. Head(toTor) # "AUTHENTICATE" => tor.authenticated
    BY <1>3, <1>4 DEF Believes, Unauthenticated
  <1>8. CASE Head(toTor) = "AUTHENTICATE"
    <2>1. CASE tor' = [tor EXCEPT !.authenticated = TRUE] /\ Replies(<<OK>>)
      <3>1. /\ tor' \in [authenticated : BOOLEAN, progress : 0..Bootstrapped, watching : BOOLEAN]
            /\ tor'.progress = tor.progress /\ tor'.authenticated
        BY <1>2, <2>1
      <3>2. QED
        BY <1>5, <1>6, <2>1, <3>1, LineFacts
    <2>2. CASE UNCHANGED tor /\ Replies(<<Denied>>)
      BY <1>2, <1>5, <1>6, <2>2, LineFacts
    <2>3. QED
      BY <1>8, <2>1, <2>2 DEF TorExecutes
  <1>9. CASE Head(toTor) = "GETINFO bootstrap-phase"
    <2> DEFINE q == <<Progress(tor.progress), OK>>
               told == Progress(tor.progress)
    <2>1. UNCHANGED tor /\ Replies(q)
      BY <1>9 DEF TorExecutes
    <2>2. told \in Line /\ told # OK /\ told.type = "PROGRESS" /\ told.progress = tor.progress
      BY <1>2, LineFacts
    <2> HIDE DEF told
    <2>3. q \in Seq(Line) /\ \A i \in DOMAIN q : q[i] = told \/ q[i] = OK
      BY <2>2, LineFacts DEF told
    <2> HIDE DEF q
    <2>4. \A i \in DOMAIN q : /\ q[i] = OK => tor'.authenticated
                              /\ q[i].type = "PROGRESS" => q[i].progress <= tor'.progress
      <3>1. tor' = tor /\ tor.authenticated /\ tor.progress <= tor.progress
        <4>1. tor' = tor
          BY <2>1
        <4>2. tor.authenticated
          BY <1>7, <1>9
        <4>3. tor.progress <= tor.progress
          BY <1>2
        <4>4. QED
          BY <4>1, <4>2, <4>3
      <3>2. OK.type # "PROGRESS"
        BY LineFacts
      <3>3. QED
        BY <2>2, <2>3, <3>1, <3>2
    <2>5. QED
      BY <1>2, <1>5, <2>1, <2>3, <2>4
  <1>10. CASE Head(toTor) \notin {"AUTHENTICATE", "GETINFO bootstrap-phase"}
    <2>1. /\ \/ \E b \in BOOLEAN : tor' = [tor EXCEPT !.watching = b]
             \/ UNCHANGED tor
          /\ Replies(<<OK>>)
      BY <1>10 DEF TorExecutes
    <2>2. /\ tor' \in [authenticated : BOOLEAN, progress : 0..Bootstrapped, watching : BOOLEAN]
          /\ tor'.progress = tor.progress /\ tor'.authenticated = tor.authenticated
      BY <1>2, <2>1
    <2>3. QED
      BY <1>5, <1>6, <1>7, <1>10, <2>1, <2>2, LineFacts
  <1>11. QED
    BY <1>8, <1>9, <1>10

LEMMA TorProgressesKeeps ==
    ASSUME LifecycleIInv, TorProgresses
    PROVE  LifecycleIInv'
  <1> DEFINE q == IF conn = "open" /\ tor.watching THEN <<Progress(tor.progress + 1)>> ELSE <<>>
             told == Progress(tor.progress + 1)
  <1>1. /\ tor.progress < Bootstrapped /\ tor' = [tor EXCEPT !.progress = @ + 1]
        /\ UNCHANGED <<config, phase, ot, batch, receiving, conn, toTor>>
        /\ fromTor' = fromTor \o q
    BY DEF TorProgresses, Replies
  <1>2. /\ toTor \in Seq(Command)
        /\ tor \in [authenticated : BOOLEAN, progress : 0..Bootstrapped, watching : BOOLEAN]
        /\ tor.progress \in 0..Bootstrapped /\ Bootstrapped \in Nat
    BY OthersTyped
  <1>3. tor.progress + 1 \in 0..Bootstrapped
    BY <1>1, <1>2
  <1>4. /\ tor' \in [authenticated : BOOLEAN, progress : 0..Bootstrapped, watching : BOOLEAN]
        /\ tor'.progress = tor.progress + 1 /\ tor'.authenticated = tor.authenticated
    BY <1>1, <1>2, <1>3
  <1>5. told \in Line /\ told # OK /\ told.progress = tor'.progress
    BY <1>3, <1>4, LineFacts
  <1> HIDE DEF told
  <1>6. q \in Seq(Line) /\ \A i \in DOMAIN q : q[i] = told
    BY <1>5 DEF told
  <1> HIDE DEF q
  <1>7. TruthTold(fromTor)' /\ fromTor' \in Seq(Line)
    <2>1. tor'.progress \in 0..Bootstrapped /\ tor.progress <= tor'.progress
      BY <1>2, <1>3, <1>4
    <2>2. \A i \in DOMAIN q : /\ q[i] = OK => tor'.authenticated
                              /\ q[i].type = "PROGRESS" => q[i].progress <= tor'.progress
      BY <1>5, <1>6, <2>1
    <2>3. QED
      BY <1>1, <1>4, <1>6, <2>1, <2>2, Told
  <1>8. Believes(ot, toTor)'
    <2>1. Believes(ot, toTor)
      BY DEF LifecycleIInv
    <2>2. ot.engine = "none"
      BY <1>1, <1>2, <2>1 DEF Believes
    <2>3. QED
      BY <1>1, <1>4, <2>1, <2>2 DEF Believes, Working, Unauthenticated
  <1>9. QED
    BY <1>1, <1>2, <1>4, <1>7, <1>8, OthersTyped, TorKept

-----------------------------------------------------------------------------
(* The invariant, and what follows from it                                 *)

LEMMA StepKeeps ==
    ASSUME LifecycleIInv, [Next]_vars
    PROVE  LifecycleIInv'
  <1>1. CASE Start
    BY <1>1, StartKeeps
  <1>2. CASE StartFails
    BY <1>2, BeliefsStay, TruthStays DEF StartFails, LifecycleIInv, TypeOK
  <1>3. CASE Poll
    BY <1>3, PollKeeps
  <1>4. CASE Handle
    <2>1. PICK fd \in Descriptors, type \in {"READ", "WRITE"} :
              \/ HandleConnected(fd, type) \/ HandleTimer(fd, type)
              \/ HandleFlush(fd, type) \/ HandleFlushDead(fd, type) \/ HandleReceive(fd, type)
      BY <1>4 DEF Handle
    <2>2. QED
      BY <2>1, ConnectedKeeps, TimerKeeps, FlushKeeps, ReceiveKeeps
  <1>5. CASE ReceiveLine
    BY <1>5, ReceiveLineKeeps
  <1>6. CASE ReceiveDone
    BY <1>6, ReceiveDoneKeeps
  <1>7. CASE ExitLoop
    BY <1>7, ExitLoopKeeps
  <1>8. CASE \E fd \in Descriptors : Expire(fd)
    BY <1>8, ExpireKeeps
  <1>9. CASE TorAccepts \/ TorCloses
    BY <1>9, ConnectionKeeps
  <1>10. CASE TorExecutes
    BY <1>10, TorExecutesKeeps
  <1>11. CASE TorProgresses
    BY <1>11, TorProgressesKeeps
  <1>12. CASE UNCHANGED vars
    <2>1. UNCHANGED <<config, phase, ot, batch, receiving, conn, toTor, fromTor, tor>>
      BY <1>12 DEF vars
    <2>2. Believes(ot, toTor)' /\ TruthTold(fromTor)'
      BY <2>1, BeliefsStay, TruthStays
    <2>3. QED
      BY <2>1, <2>2, OthersTyped, TorKept
  <1>13. QED
    BY <1>1, <1>2, <1>3, <1>4, <1>5, <1>6, <1>7, <1>8, <1>9, <1>10, <1>11, <1>12 DEF Next, Loop

\* The inductive invariant of the life cycle: types, the wiring of descriptors,
\* watches and timers, the play timer, the order of the last timers, and what
\* is known of Tor.
THEOREM Inductive == Spec => []LifecycleIInv
  <1>1. Init => LifecycleIInv
    BY InitHolds
  <1>2. LifecycleIInv /\ [Next]_vars => LifecycleIInv'
    BY StepKeeps
  <1>3. QED
    BY <1>1, <1>2, PTL DEF Spec

\* The state of the process has its type, however descriptors are reused.
THEOREM LifecycleTypeCorrect == Spec => []TypeOK
  <1>1. LifecycleIInv => TypeOK
    BY DEF LifecycleIInv
  <1>2. QED
    BY <1>1, Inductive, PTL

\* driver.c:175-248, torctl.c:387-431: the Driver believes nothing of Tor that is not so.
THEOREM BeliefsAreTrue == Spec => []StateFollowsTor
  <1>1. LifecycleIInv => StateFollowsTor
    <2>1. SUFFICES ASSUME LifecycleIInv PROVE StateFollowsTor
      OBVIOUS
    <2>2. Believes(ot, toTor)
      BY <2>1 DEF LifecycleIInv
    <2>3. ot.torctl \in {"BOOTSTRAP", "PROCESSING"} => tor.authenticated
      BY <2>2 DEF Believes, Unauthenticated
    <2>4. QED
      BY <2>2, <2>3 DEF Believes, Working, StateFollowsTor
  <1>2. QED
    BY <1>1, Inductive, PTL

LEMMA OpenIsWatched ==
    ASSUME LifecycleIInv, phase = "looping", NEW fd \in Descriptors, ot.open[fd] # "closed"
    PROVE  /\ ot.epoll[fd] # "NONE" /\ ot.watches[fd] # NoWatch
           /\ ot.watches[fd].type = ot.epoll[fd]
           /\ \/ /\ ot.open[fd] = "socket" /\ fd = ot.socket /\ ot.watches[fd] = SocketWatch(ot)
                 /\ ot.watches[fd].arg = TorCtl
              \/ /\ ot.open[fd] # "socket" /\ ot.watches[fd].arg # TorCtl
                 /\ IsTimer(ot.watches[fd].arg, fd)
  <1>1. Wired(ot) /\ TimersWired(ot) /\ ot \in Process
    BY LoopingMeans DEF Timed
  <1>2. CASE ot.open[fd] = "socket"
    <2>1. fd = ot.socket
      BY <1>1, <1>2 DEF TimersWired
    <2>2. ot.watches[fd] = SocketWatch(ot) /\ ot.epoll[fd] = SocketWatch(ot).type
      BY <1>1, <2>1 DEF Wired
    <2>3. SocketWatch(ot) \in Watching /\ SocketWatch(ot) # NoWatch
      BY SocketWatchType
    <2>4. SocketWatch(ot).type # "NONE"
      BY <2>3 DEF Watching
    <2>5. QED
      BY <1>2, <2>1, <2>2, <2>3, <2>4, SocketHandler
  <1>3. CASE ot.open[fd] # "socket"
    <2>1. ot.open[fd] \in Ticking
      BY <1>1, <1>3, ProcessType DEF Object, Ticking
    <2>2. PICK id \in DOMAIN ot.timers : ot.timers[id].fd = fd
      BY <1>1, <2>1 DEF TimersWired
    <2>3. fd # Freed
      BY LifecycleAssumption DEF Freed
    <2>4. ot.watches[fd] = Watch("READ", OnEvent(ot.timers[id].callback), id) /\ ot.epoll[fd] = "READ"
      BY <1>1, <2>2, <2>3 DEF TimersWired
    <2>5. id \in Nat /\ id # TorCtl
      BY <1>1, TimerType DEF TorCtl
    <2>6. /\ ot.watches[fd] # NoWatch /\ ot.watches[fd].type = "READ" /\ ot.watches[fd].arg = id
      BY <2>4, <2>5, WatchType DEF OnEvent
    <2>7. IsTimer(id, fd)
      BY <2>2 DEF IsTimer
    <2>8. QED
      BY <1>3, <2>4, <2>5, <2>6, <2>7
  <1>4. QED
    BY <1>2, <1>3

\* event-manager.c:72-81, driver.c:78-83: however often descriptors are closed and
\* reused, what is open is polled for its own watch.
THEOREM WatchesStay == Spec => []EverythingWatched
  <1>1. LifecycleIInv => EverythingWatched
    <2>1. SUFFICES ASSUME LifecycleIInv, phase = "looping", NEW fd \in Descriptors,
                          ot.open[fd] \in {"socket", "armed", "expired"}
                   PROVE  /\ ot.epoll[fd] # "NONE" /\ ot.watches[fd] # NoWatch
                          /\ ot.watches[fd].type = ot.epoll[fd]
                          /\ IF ot.open[fd] = "socket" THEN ot.watches[fd].arg = TorCtl
                             ELSE IsTimer(ot.watches[fd].arg, fd)
      BY DEF EverythingWatched
    <2>2. ot.open[fd] # "closed"
      BY <2>1
    <2>3. QED
      BY <2>1, <2>2, OpenIsWatched
  <1>2. QED
    BY <1>1, Inductive, PTL

\* driver.c:59-60, event-manager.c:112-116, 145-148, torctl.c:448: no event finds
\* an empty entry, a handler of a freed timer, or a TorCtl without a state.
THEOREM DispatchStaysSafe == Spec => []DispatchIsSafe
  <1>1. LifecycleIInv => DispatchIsSafe
    <2>1. SUFFICES ASSUME LifecycleIInv, phase = "looping", NEW fd \in Descriptors,
                          ot.epoll[fd] # "NONE" \/ \E type \in {"READ", "WRITE"} : <<fd, type>> \in batch
                   PROVE  /\ ot.watches[fd] # NoWatch
                          /\ IF ot.watches[fd].arg = TorCtl
                             THEN /\ fd = ot.socket
                                  /\ ot.watches[fd].onEvent = "receiveLines" => ot.torctl # "NONE"
                             ELSE IsTimer(ot.watches[fd].arg, fd)
      BY DEF DispatchIsSafe
    <2>2. TimersWired(ot) /\ BatchWired(ot, batch)
      BY <2>1, LoopingMeans DEF Timed
    <2>3. ot.open[fd] # "closed"
      <3>1. CASE ot.epoll[fd] # "NONE"
        BY <2>2, <3>1 DEF TimersWired
      <3>2. CASE \E type \in {"READ", "WRITE"} : <<fd, type>> \in batch
        <4>1. PICK e \in batch : e[1] = fd
          BY <3>2
        <4>2. QED
          BY <2>2, <4>1 DEF BatchWired
      <3>3. QED
        BY <2>1, <3>1, <3>2
    <2>4. SocketWatch(ot).onEvent = "receiveLines" => ot.torctl # "NONE"
      BY SocketHandler
    <2>5. QED
      BY <2>1, <2>3, <2>4, OpenIsWatched
  <1>2. QED
    BY <1>1, Inductive, PTL

\* driver.c:50-85: while launches remain there is exactly one play timer, and it
\* will expire, for any trace.
THEOREM OnePlayTimer == Spec => []PlayGoesOn
  <1>1. LifecycleIInv => PlayGoesOn
    <2>1. SUFFICES ASSUME LifecycleIInv, phase = "looping"
                   PROVE  /\ Cardinality(PlayTimers(ot)) =
                                (IF ot.engine = "play" /\ ot.launches > 0 THEN 1 ELSE 0)
                          /\ \A id \in PlayTimers(ot) : ot.open[ot.timers[id].fd] \in {"armed", "expired"}
      BY DEF PlayGoesOn, PlayTimers
    <2>2. Plays(ot)
      BY <2>1, LoopingMeans
    <2>3. CASE PlayTimers(ot) = {}
      BY <2>2, <2>3, FS_EmptySet DEF Plays
    <2>4. CASE PlayTimers(ot) # {}
      <3>1. PICK id \in PlayTimers(ot) : PlayTimers(ot) = {id}
        BY <2>2, <2>4 DEF Plays
      <3>2. Cardinality(PlayTimers(ot)) = 1
        BY <3>1, FS_Singleton
      <3>3. QED
        BY <2>2, <2>4, <3>2 DEF Plays
    <2>5. QED
      BY <2>3, <2>4
  <1>2. QED
    BY <1>1, Inductive, PTL

\* driver.c:278-282, event-manager.c:176-193: the loop ends by the shutdown timer
\* only after the cleanup, in whatever order epoll reports the two.
THEOREM CleanupComesFirst == Spec => CleanupBeforeExit
  <1> DEFINE A == phase = "looping" /\ phase' = "done" /\ config.limited /\ TimerRead("shutdown")
                  => TimerRead("cleanup")
  <1>1. ASSUME LifecycleIInv, [Next]_vars PROVE [A]_vars
    <2>1. SUFFICES ASSUME phase = "looping", phase' = "done", config.limited, TimerRead("shutdown")
                   PROVE  TimerRead("cleanup")
      OBVIOUS
    <2>2. batch = {}
      <3>1. ~ Start /\ ~ StartFails /\ ~ Poll /\ ~ ReceiveLine /\ ~ ReceiveDone
        BY <2>1 DEF Start, StartFails, Poll, ReceiveLine, ReceiveDone
      <3>2. ~ Handle
        BY <2>1 DEF Handle, HandleConnected, HandleTimer, HandleFlush, HandleFlushDead, HandleReceive
      <3>3. ~ (\E fd \in Descriptors : Expire(fd)) /\ ~ TorAccepts /\ ~ TorCloses /\ ~ TorExecutes /\ ~ TorProgresses
        BY <2>1 DEF Expire, TorAccepts, TorCloses, TorExecutes, TorProgresses
      <3>4. ~ UNCHANGED vars
        BY <2>1 DEF vars
      <3>5. ExitLoop
        BY <1>1, <3>1, <3>2, <3>3, <3>4 DEF Next, Loop
      <3>6. QED
        BY <3>5 DEF ExitLoop, Idle
    <2>3. Timed(ot) /\ CleanupFirst(ot, batch)
      BY <1>1, <2>1, LoopingMeans
    <2>4. TimerOf("cleanup") = 2 /\ TimerOf("shutdown") = 3
      BY <2>1, <2>3, TimerNames
    <2>5. ot.open[ot.timers[3].fd] = "idle"
      BY <2>1, <2>4 DEF TimerRead
    <2>6. ot.open[ot.timers[2].fd] = "idle"
      BY <2>1, <2>2, <2>3, <2>5 DEF CleanupFirst
    <2>7. QED
      BY <2>4, <2>6 DEF TimerRead
  <1>2. QED
    BY <1>1, Inductive, PTL DEF Spec, CleanupBeforeExit
=============================================================================
