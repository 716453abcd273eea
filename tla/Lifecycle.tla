----------------------------- MODULE Lifecycle ------------------------------
(***************************************************************************)
(* From the start of OnionTrace to its end: the Driver with its timers     *)
(* (src/src/oniontrace-driver.c, oniontrace-timer.c), the event loop       *)
(* (oniontrace-event-manager.c), and TorCtl's way from a connecting socket *)
(* over authentication and bootstrapping to the Recorder, the Player or    *)
(* the Logger (oniontrace-torctl.c).  What these do afterwards is the      *)
(* subject of other modules, and so is how commands are cut by send().     *)
(*                                                                         *)
(* The handlers are operators from a state o of the process to the state   *)
(* in which they return.  The loop asks epoll for a batch of events and    *)
(* handles them one by one, in an order that epoll chooses.  Descriptors   *)
(* are the lowest number that is free.  A timer that was freed is never    *)
(* reused here, which is the worst case for a handler that still has it.   *)
(***************************************************************************)
EXTENDS EventManager, Sequences, FiniteSets, SequencesExt, FiniteSetsExt

CONSTANTS
    Descriptors,  \* what the kernel numbers sockets and timers with
    Modes,        \* "record", "play" or "log"
    Bootstrapped, \* Tor's progress (in steps) when it is bootstrapped
    MaxLaunches,  \* how many launches the trace of a Player has
    MaxTimers     \* how many play timers are ever created

\* What the table holds for a descriptor: what it is watched for, the handler, and
\* whose it is.
Watching ==
    [type : {"READ", "WRITE"},
     onEvent : {"onConnected", "flushCommands", "receiveLines",
                "genericTimerReadable", "playTimerReadable"},
     arg : Nat]

ASSUME LifecycleAssumption ==
    /\ NoWatch \notin Watching
    /\ Descriptors \subseteq Nat \ {0} /\ IsFiniteSet(Descriptors) /\ Cardinality(Descriptors) >= 6
    /\ Modes \subseteq {"record", "play", "log"}
    /\ Bootstrapped \in Nat \ {0}
    /\ MaxLaunches \in Nat
    /\ MaxTimers \in Nat \ {0}

VARIABLES
    config,    \* the mode, whether there is a run time, whether the file can be opened
    phase,     \* where main() is
    ot,        \* the objects of OnionTrace and its descriptors
    batch,     \* the events that epoll reported and are not handled yet
    receiving, \* receiveLines is being executed
    conn,      \* the connection to Tor
    toTor,     \* commands that were sent and Tor has not executed
    fromTor,   \* lines that Tor sent and receiveLines has not read
    tor        \* Tor's side: authenticated, progress, watching

vars == <<config, phase, ot, batch, receiving, conn, toTor, fromTor, tor>>

-----------------------------------------------------------------------------
Config == [mode : Modes, limited : BOOLEAN, fileOK : BOOLEAN]

Callback == {"heartbeat", "cleanup", "shutdown", "play"}
DriverState == {"IDLE", "CONNECTING", "AUTHENTICATING", "BOOTSTRAPPING",
                "RECORDING", "PLAYING", "LOGGING"}

Command == {"AUTHENTICATE", "GETINFO bootstrap-phase", "SETEVENTS STATUS_CLIENT", "SETEVENTS",
            "SETCONF", "SIGNAL NEWNYM", "GETINFO circuit-status", "EXTENDCIRCUIT"}

\* Lines: success and failure, and the progress of bootstrapping, which a reply
\* and an event report in the same words.
OK == [type |-> "OK"]
Denied == [type |-> "DENIED"]
Progress(n) == [type |-> "PROGRESS", progress |-> n]
Line == {OK, Denied} \cup {Progress(n) : n \in 0..Bootstrapped}

\* A watch calls a handler with its owner: TorCtl or the number of a timer.
TorCtl == 0
Watch(type, onEvent, arg) == [type |-> type, onEvent |-> onEvent, arg |-> arg]

\* A freed timer has no descriptor.
Freed == 0

\* What a descriptor is open for: a socket, or a timer that is disarmed (or was
\* read and does not repeat), counts, or has expired and was not read.
Object == {"closed", "socket", "idle", "armed", "expired"}

Process ==
    [watches : [Descriptors -> Watching \cup {NoWatch}],
     epoll : [Descriptors -> {"NONE", "READ", "WRITE"}],
     shouldStopLoop : BOOLEAN,
     open : [Descriptors -> Object],
     timers : Seq([callback : Callback, fd : Descriptors \cup {Freed}]),
     state : DriverState,
     engine : {"none", "record", "play", "log"},
     launches : 0..MaxLaunches,
     socket : Descriptors \cup {0},
     torctl : {"NONE", "AUTHENTICATE", "BOOTSTRAP", "PROCESSING"},
     isStatusEventSet : BOOLEAN,
     commands : Seq(Command)]

Init ==
    /\ config \in Config
    /\ phase = "starting"
    /\ ot = [watches |-> [fd \in Descriptors |-> NoWatch],
             epoll |-> [fd \in Descriptors |-> "NONE"],
             shouldStopLoop |-> FALSE,
             open |-> [fd \in Descriptors |-> "closed"],
             timers |-> <<>>,
             state |-> "IDLE", engine |-> "none", launches |-> MaxLaunches,
             socket |-> 0, torctl |-> "NONE", isStatusEventSet |-> FALSE, commands |-> <<>>]
    /\ batch = {} /\ receiving = FALSE
    /\ conn = "closed" /\ toTor = <<>> /\ fromTor = <<>>
    /\ tor = [authenticated |-> FALSE, progress |-> 0, watching |-> FALSE]

-----------------------------------------------------------------------------
(* Descriptors and timers                                                  *)

LowestFree(o) == Min({fd \in Descriptors : o.open[fd] = "closed"})

Close(o, fd) == [Unpoll(o, fd) EXCEPT !.open[fd] = "closed"]

\* The timer is numbered, and armed at once.
NewTimer(o, callback) ==
    LET fd == LowestFree(o)
    IN [o EXCEPT !.timers = Append(@, [callback |-> callback, fd |-> fd]), !.open[fd] = "armed"]

StartTimer(o, callback) ==
    LET created == NewTimer(o, callback)
        id == Len(created.timers)
        onEvent == IF callback = "play" THEN "playTimerReadable" ELSE "genericTimerReadable"
    IN  Register(created, created.timers[id].fd, Watch("READ", onEvent, id))

\* The watch of a freed timer stays in the table.
FreeTimer(o, id) == [Close(o, o.timers[id].fd) EXCEPT !.timers[id].fd = Freed]

-----------------------------------------------------------------------------
(* TorCtl: commands                                                        *)

\* The connection is registered anew, for writing when commands wait.
Reregister(o) ==
    Register(Deregister(o, o.socket), o.socket,
             IF o.commands = <<>> THEN Watch("READ", "receiveLines", TorCtl)
                                  ELSE Watch("WRITE", "flushCommands", TorCtl))

Issue(o, command) == Reregister([o EXCEPT !.commands = Append(@, command)])

SetupTorConfig(o) == Issue(Issue(o, "SETCONF"), "SIGNAL NEWNYM")

-----------------------------------------------------------------------------
(* Driver                                                                  *)

\* What the Player decides in its timer: how many launches are due, and whether
\* Tor is asked for a circuit at once.
Choice == {c \in [due : 0..MaxLaunches, extends : BOOLEAN] : c.due = 0 => ~c.extends}

\* A bound: the last timer finds all launches due.
Possible(o, c) ==
    /\ c.due <= o.launches
    /\ Cardinality({id \in DOMAIN o.timers : o.timers[id].callback = "play"}) >= MaxTimers
          => c.due = o.launches

\* Mutation of PlayCallback: one launch too many is taken from the queue.
PlayOneMore(o, c) ==
    LET launched == [(IF c.extends THEN Issue(o, "EXTENDCIRCUIT") ELSE o)
                        EXCEPT !.launches = @ - c.due - 1]
    IN IF launched.launches > 0 THEN StartTimer(launched, "play") ELSE launched

\* Mutation of PlayCallback: a timer that finds nothing due is not followed by
\* another one.
PlayIfDue(o, c) ==
    LET launched == [(IF c.extends THEN Issue(o, "EXTENDCIRCUIT") ELSE o)
                        EXCEPT !.launches = @ - c.due]
    IN IF c.due > 0 /\ launched.launches > 0 THEN StartTimer(launched, "play") ELSE launched

\* The due launches are served; another timer is started for the next one.
PlayCallback(o, c) ==
    LET launched == [(IF c.extends THEN Issue(o, "EXTENDCIRCUIT") ELSE o)
                        EXCEPT !.launches = @ - c.due]
    IN IF launched.launches > 0 THEN StartTimer(launched, "play") ELSE launched

CleanupCallback(o) ==
    IF o.state = "RECORDING" /\ o.engine = "record" THEN Issue(o, "GETINFO circuit-status") ELSE o

\* Mutation of ShutdownCallback: it is for a Recorder, a Player or a Logger.
ShutdownIfRunning(o) == IF o.engine = "none" THEN o ELSE [o EXCEPT !.shouldStopLoop = TRUE]

ShutdownCallback(o) == [o EXCEPT !.shouldStopLoop = TRUE]

\* oniontracetimer_check: the callback is called if the timer has expired.  Only
\* the heartbeat repeats, and it only logs.
Notify(o, id, c) ==
    LET fd == o.timers[id].fd
        callback == o.timers[id].callback
        read == [o EXCEPT !.open[fd] = IF callback = "heartbeat" THEN "armed" ELSE "idle"]
    IN  IF o.open[fd] # "expired" THEN o
        ELSE CASE callback = "heartbeat" -> read
               [] callback = "cleanup" -> CleanupCallback(read)
               [] callback = "shutdown" -> ShutdownCallback(read)
               [] callback = "play" -> PlayCallback(read, c)

PlayTimerReadable(o, id, c) == FreeTimer(Notify(o, id, c), id)

\* The file cannot be opened: there is nothing to do.
GiveUp(o) == [o EXCEPT !.state = "IDLE", !.shouldStopLoop = TRUE]

\* oniontracelogger_new: the lines that it prints change nothing else.
NewLogger(o) == Issue(o, "SETEVENTS")

OnBootstrapped(o, c) ==
    LET engine == [o EXCEPT !.engine = config.mode]
    IN CASE config.mode = "record" ->
              IF ~config.fileOK THEN GiveUp(o)
              ELSE Issue(Issue([engine EXCEPT !.state = "RECORDING"], "SETEVENTS"),
                         "GETINFO circuit-status")
         [] config.mode = "play" ->
              IF ~config.fileOK THEN GiveUp(o)
              ELSE PlayCallback(Issue(SetupTorConfig([engine EXCEPT !.state = "PLAYING"]),
                                      "SETEVENTS"), c)
         [] config.mode = "log" ->
              NewLogger([engine EXCEPT !.state = "LOGGING"])

OnAuthenticated(o) ==
    [Issue([o EXCEPT !.torctl = "BOOTSTRAP"], "GETINFO bootstrap-phase")
        EXCEPT !.state = "BOOTSTRAPPING"]

OnConnected(o) ==
    [Issue([Deregister(o, o.socket) EXCEPT !.torctl = "AUTHENTICATE"], "AUTHENTICATE")
        EXCEPT !.state = "AUTHENTICATING"]

-----------------------------------------------------------------------------
(* TorCtl: lines                                                           *)

\* Mutation of WhileBootstrapping: it is done when the last step begins.
DoneEarly(o, line, c) ==
    IF line.type # "PROGRESS" THEN o
    ELSE IF line.progress >= Bootstrapped - 1
    THEN OnBootstrapped([o EXCEPT !.isStatusEventSet = FALSE, !.torctl = "PROCESSING"], c)
    ELSE IF o.isStatusEventSet THEN o
    ELSE [Issue(o, "SETEVENTS STATUS_CLIENT") EXCEPT !.isStatusEventSet = TRUE]

\* Mutation of WhileBootstrapping: once the event is asked for, nothing is looked at.
OnlyOnReply(o, line, c) ==
    IF line.type # "PROGRESS" \/ o.isStatusEventSet THEN o
    ELSE IF line.progress >= Bootstrapped
    THEN OnBootstrapped([o EXCEPT !.torctl = "PROCESSING"], c)
    ELSE [Issue(o, "SETEVENTS STATUS_CLIENT") EXCEPT !.isStatusEventSet = TRUE]

\* Until Tor is ready its progress decides, whoever asked for it.
WhileBootstrapping(o, line, c) ==
    IF line.type # "PROGRESS" THEN o
    ELSE IF line.progress >= Bootstrapped
    THEN OnBootstrapped([o EXCEPT !.isStatusEventSet = FALSE, !.torctl = "PROCESSING"], c)
    ELSE IF o.isStatusEventSet THEN o
    ELSE [Issue(o, "SETEVENTS STATUS_CLIENT") EXCEPT !.isStatusEventSet = TRUE]

\* Authentication may fail, and then nothing more is done.  Once Tor is ready,
\* lines are for the Recorder, the Player or the Logger.
ProcessLine(o, line, c) ==
    CASE o.torctl = "AUTHENTICATE" -> IF line = OK THEN OnAuthenticated(o) ELSE o
      [] o.torctl = "BOOTSTRAP" -> WhileBootstrapping(o, line, c)
      [] o.torctl = "PROCESSING" -> o

-----------------------------------------------------------------------------
(* main and the event loop                                                 *)

\* The socket is created and connecting, the timers of the Driver are started.
DriverStart(o) ==
    LET socket == LowestFree(o)
        created == [o EXCEPT !.socket = socket, !.open[socket] = "socket"]
        connecting == [Register(created, socket, Watch("WRITE", "onConnected", TorCtl))
                          EXCEPT !.state = "CONNECTING"]
        beating == StartTimer(connecting, "heartbeat")
    IN  IF config.limited THEN StartTimer(StartTimer(beating, "cleanup"), "shutdown") ELSE beating

Start ==
    /\ phase = "starting"
    /\ ot' = DriverStart(ot)
    /\ phase' = "looping" /\ conn' = "connecting"
    /\ UNCHANGED <<config, batch, receiving, toTor, fromTor, tor>>

\* connect() may fail at once: the socket is closed again.
StartFails ==
    /\ phase = "starting"
    /\ phase' = "done"
    /\ UNCHANGED <<config, ot, batch, receiving, conn, toTor, fromTor, tor>>

\* A socket can be written once the attempt to connect is over, and read when
\* there are lines, or when the other end is gone.
Ready(fd, type) ==
    CASE ot.open[fd] = "socket" /\ type = "WRITE" -> conn # "connecting"
      [] ot.open[fd] = "socket" /\ type = "READ" -> fromTor # <<>> \/ conn \in {"refused", "closed"}
      [] OTHER -> type = "READ" /\ ot.open[fd] = "expired"

Idle == phase = "looping" /\ batch = {} /\ ~receiving

Poll ==
    /\ Idle /\ ~ot.shouldStopLoop
    /\ batch' = {<<fd, ot.epoll[fd]>> : fd \in {f \in Descriptors :
                     ot.epoll[f] # "NONE" /\ Ready(f, ot.epoll[f])}}
    /\ batch' # {}
    /\ UNCHANGED <<config, phase, ot, receiving, conn, toTor, fromTor, tor>>

\* The next event, and the handler that is found in the table for it.  There
\* always is one (DispatchIsSafe).
Handles(fd, type, onEvent) ==
    /\ phase = "looping" /\ ~receiving
    /\ <<fd, type>> \in batch
    /\ ot.watches[fd] # NoWatch /\ ot.watches[fd].onEvent = onEvent
    /\ batch' = batch \ {<<fd, type>>}

\* The attempt to connect is over, whether it succeeded or not.
HandleConnected(fd, type) ==
    /\ Handles(fd, type, "onConnected")
    /\ ot' = OnConnected(ot)
    /\ UNCHANGED <<config, phase, receiving, conn, toTor, fromTor, tor>>

HandleTimer(fd, type) ==
    /\ \/ /\ Handles(fd, type, "genericTimerReadable")
          /\ ot' = Notify(ot, ot.watches[fd].arg, [due |-> 0, extends |-> FALSE])
       \/ /\ Handles(fd, type, "playTimerReadable")
          /\ \E c \in Choice : /\ Possible(ot, c)
                               /\ ot' = PlayTimerReadable(ot, ot.watches[fd].arg, c)
    /\ UNCHANGED <<config, phase, receiving, conn, toTor, fromTor, tor>>

\* All commands are sent while the connection lasts.
HandleFlush(fd, type) ==
    /\ Handles(fd, type, "flushCommands")
    /\ IF type = "WRITE"
       THEN /\ conn = "open"
            /\ toTor' = toTor \o ot.commands
            /\ ot' = Reregister([ot EXCEPT !.commands = <<>>])
       ELSE ot' = Reregister(ot) /\ UNCHANGED toTor
    /\ UNCHANGED <<config, phase, receiving, conn, fromTor, tor>>

\* On a connection that failed or was closed, send() accepts what will never
\* arrive, or reports an error, after which the command is erased (the empty
\* string that is left of it is left out here), or has the process killed by SIGPIPE.
HandleFlushDead(fd, type) ==
    /\ Handles(fd, type, "flushCommands")
    /\ type = "WRITE" /\ conn # "open"
    /\ \/ /\ \E n \in 1..Len(ot.commands) :
                ot' = Reregister([ot EXCEPT !.commands = SubSeq(@, n + 1, Len(@))])
          /\ UNCHANGED phase
       \/ phase' = "killed" /\ UNCHANGED ot
    /\ UNCHANGED <<config, receiving, conn, toTor, fromTor, tor>>

HandleReceive(fd, type) ==
    /\ Handles(fd, type, "receiveLines")
    /\ receiving' = (type = "READ")
    /\ UNCHANGED <<config, phase, ot, conn, toTor, fromTor, tor>>

ReceiveLine ==
    /\ phase = "looping" /\ receiving /\ fromTor # <<>>
    /\ \E c \in Choice : /\ Possible(ot, c)
                         /\ ot' = ProcessLine(ot, Head(fromTor), c)
    /\ fromTor' = Tail(fromTor)
    /\ UNCHANGED <<config, phase, batch, receiving, conn, toTor, tor>>

\* recv() returned -1, there is no more, or 0, the connection is closed.
ReceiveDone ==
    /\ phase = "looping" /\ receiving /\ fromTor = <<>>
    /\ receiving' = FALSE
    /\ UNCHANGED <<config, phase, ot, batch, conn, toTor, fromTor, tor>>

IsTimer(id, fd) == id \in DOMAIN ot.timers /\ ot.timers[id].fd = fd

TimerOf(callback) == CHOOSE id \in DOMAIN ot.timers : ot.timers[id].callback = callback

\* oniontracedriver_stop and _free: all but the cleanup timer and the play timer
\* is released.
Stopped(o) ==
    LET freed == [o EXCEPT !.state = "IDLE", !.engine = "none", !.commands = <<>>, !.torctl = "NONE"]
        beatless == FreeTimer(freed, TimerOf("heartbeat"))
        timerless == IF config.limited THEN FreeTimer(beatless, TimerOf("shutdown")) ELSE beatless
    IN  Close(Deregister(timerless, o.socket), o.socket)

\* Mutation of ExitLoop: the loop does not finish the batch.
ExitAtOnce ==
    /\ phase = "looping" /\ ~receiving /\ ot.shouldStopLoop
    /\ phase' = "done" /\ ot' = Stopped(ot) /\ conn' = "closed"
    /\ UNCHANGED <<config, batch, receiving, toTor, fromTor, tor>>

\* The loop ends after a batch that asked it to.
ExitLoop ==
    /\ Idle /\ ot.shouldStopLoop
    /\ phase' = "done" /\ ot' = Stopped(ot) /\ conn' = "closed"
    /\ UNCHANGED <<config, batch, receiving, toTor, fromTor, tor>>

Handle ==
    \E fd \in Descriptors : \E type \in {"READ", "WRITE"} :
        \/ HandleConnected(fd, type)
        \/ HandleTimer(fd, type)
        \/ HandleFlush(fd, type)
        \/ HandleFlushDead(fd, type)
        \/ HandleReceive(fd, type)

-----------------------------------------------------------------------------
(* The kernel and Tor                                                      *)

\* The cleanup timer is armed before the shutdown timer and for a second less.
Expire(fd) ==
    /\ phase = "looping" /\ ot.open[fd] = "armed"
    /\ config.limited /\ fd = ot.timers[TimerOf("shutdown")].fd =>
          ot.open[ot.timers[TimerOf("cleanup")].fd] # "armed"
    /\ ot' = [ot EXCEPT !.open[fd] = "expired"]
    /\ UNCHANGED <<config, phase, batch, receiving, conn, toTor, fromTor, tor>>

TorAccepts ==
    /\ conn = "connecting"
    /\ conn' \in {"open", "refused"}
    /\ UNCHANGED <<config, phase, ot, batch, receiving, toTor, fromTor, tor>>

TorCloses ==
    /\ conn = "open"
    /\ conn' = "closed"
    /\ UNCHANGED <<config, phase, ot, batch, receiving, toTor, fromTor, tor>>

Replies(q) == fromTor' = fromTor \o q

\* Tor executes the next command.
TorExecutes ==
    /\ conn = "open" /\ toTor # <<>>
    /\ toTor' = Tail(toTor)
    /\ CASE Head(toTor) = "AUTHENTICATE" ->
              \/ tor' = [tor EXCEPT !.authenticated = TRUE] /\ Replies(<<OK>>)
              \/ UNCHANGED tor /\ Replies(<<Denied>>)
         [] Head(toTor) = "GETINFO bootstrap-phase" ->
              UNCHANGED tor /\ Replies(<<Progress(tor.progress), OK>>)
         [] Head(toTor) = "SETEVENTS STATUS_CLIENT" ->
              tor' = [tor EXCEPT !.watching = TRUE] /\ Replies(<<OK>>)
         [] Head(toTor) = "SETEVENTS" ->
              tor' = [tor EXCEPT !.watching = FALSE] /\ Replies(<<OK>>)
         [] OTHER -> UNCHANGED tor /\ Replies(<<OK>>)
    /\ UNCHANGED <<config, phase, ot, batch, receiving, conn>>

TorProgresses ==
    /\ tor.progress < Bootstrapped
    /\ tor' = [tor EXCEPT !.progress = @ + 1]
    /\ Replies(IF conn = "open" /\ tor.watching THEN <<Progress(tor.progress + 1)>> ELSE <<>>)
    /\ UNCHANGED <<config, phase, ot, batch, receiving, conn, toTor>>

\* The timer with this callback, of which there is one.
Expires(callback, fd) ==
    /\ \E id \in DOMAIN ot.timers : ot.timers[id] = [callback |-> callback, fd |-> fd]
    /\ Expire(fd)

\* What the one thread of OnionTrace does once it runs the loop.
Loop == Poll \/ Handle \/ ReceiveLine \/ ReceiveDone \/ ExitLoop

Next ==
    \/ Start \/ StartFails \/ Loop
    \/ \E fd \in Descriptors : Expire(fd)
    \/ TorAccepts \/ TorCloses \/ TorExecutes \/ TorProgresses

Spec == Init /\ [][Next]_vars

LoopIsBusy ==
    /\ phase = "looping"
    /\ \/ receiving \/ batch # {} \/ ot.shouldStopLoop
       \/ \E fd \in Descriptors : ot.epoll[fd] # "NONE" /\ Ready(fd, ot.epoll[fd])

\* The thread goes on as long as it has something to do, and the timers that end
\* a run expire.  Nothing is assumed of Tor or of the other timers.
LoopFairness ==
    /\ []<>~LoopIsBusy \/ []<><<Loop>>_vars
    /\ \A callback \in {"cleanup", "shutdown"} :
          WF_vars(\E fd \in Descriptors : Expires(callback, fd))

FairSpec == Spec /\ LoopFairness

\* A Tor that executes commands and bootstraps.
TorFairness == WF_vars(TorExecutes) /\ WF_vars(TorProgresses)

-----------------------------------------------------------------------------
(* What the life cycle promises                                            *)

\* Type correctness.
TypeOK ==
    /\ config \in Config
    /\ phase \in {"starting", "looping", "killed", "done"}
    /\ ot \in Process
    /\ batch \subseteq Descriptors \X {"READ", "WRITE"}
    /\ receiving \in BOOLEAN
    /\ conn \in {"connecting", "refused", "open", "closed"}
    /\ toTor \in Seq(Command) /\ fromTor \in Seq(Line)
    /\ tor \in [authenticated : BOOLEAN, progress : 0..Bootstrapped, watching : BOOLEAN]

\* driver.c:59-60, event-manager.c:112-116, 145-148: watches of closed
\* descriptors stay in the table, and a batch may be older than the table; still
\* every event finds a watch, whatever can be called is called for the owner of
\* that descriptor, which was not freed, and no line is processed before TorCtl
\* has a state (torctl.c:448).
DispatchIsSafe ==
    \A fd \in Descriptors :
        LET watch == ot.watches[fd]
            callable == ot.epoll[fd] # "NONE" \/ \E type \in {"READ", "WRITE"} : <<fd, type>> \in batch
        IN  phase = "looping" /\ callable =>
            /\ watch # NoWatch
            /\ IF watch.arg = TorCtl
               THEN /\ fd = ot.socket
                    /\ watch.onEvent = "receiveLines" => ot.torctl # "NONE"
               ELSE IsTimer(watch.arg, fd)

\* event-manager.c:72-81 and driver.c:78-83, although descriptors are reused:
\* while the loop runs, every timer that has not been read is polled, and so is
\* the connection, each for its own watch.
EverythingWatched ==
    phase = "looping" =>
        \A fd \in Descriptors : ot.open[fd] \in {"socket", "armed", "expired"} =>
            /\ ot.epoll[fd] # "NONE" /\ ot.watches[fd] # NoWatch
            /\ ot.watches[fd].type = ot.epoll[fd]
            /\ IF ot.open[fd] = "socket" THEN ot.watches[fd].arg = TorCtl
               ELSE IsTimer(ot.watches[fd].arg, fd)

\* driver.c:50-85: as long as launches remain there is one play timer that will
\* expire, each being freed after it has started the next, also when the clock
\* (CLOCK_REALTIME) was set back and a timer finds nothing due.
PlayGoesOn ==
    phase = "looping" =>
        LET playTimers == {id \in DOMAIN ot.timers :
                              ot.timers[id].callback = "play" /\ ot.timers[id].fd # Freed}
        IN  /\ Cardinality(playTimers) = (IF ot.engine = "play" /\ ot.launches > 0 THEN 1 ELSE 0)
            /\ \A id \in playTimers : ot.open[ot.timers[id].fd] \in {"armed", "expired"}

\* driver.c:175-248, torctl.c:387-431: the Driver believes nothing of Tor that is
\* not so, whichever of a reply and an event came first: it is past
\* authentication only if Tor accepted it, and records, plays or logs, as
\* configured, only with a Tor that is bootstrapped.
StateFollowsTor ==
    /\ ot.torctl \in {"BOOTSTRAP", "PROCESSING"} => tor.authenticated
    /\ ot.engine # "none" => /\ ot.engine = config.mode
                             /\ tor.progress = Bootstrapped

TimerRead(callback) == ot.open[ot.timers[TimerOf(callback)].fd] = "idle"

\* driver.c:278-282, event-manager.c:176-193: when the shutdown timer ends the
\* loop, the cleanup was called before, even if both expired while the loop was
\* busy and epoll reported the shutdown first.
CleanupBeforeExit ==
    [][phase = "looping" /\ phase' = "done" /\ config.limited /\ TimerRead("shutdown")
       => TimerRead("cleanup")]_vars

\* driver.c:278-282: with a run time OnionTrace ends, whatever Tor does: if it
\* refuses the connection, denies or never answers, or closes the connection,
\* which makes the loop a busy one.
StopsInTime == config.limited /\ phase = "looping" ~> phase \in {"done", "killed"}

Resolved == ot.torctl = "PROCESSING" \/ conn = "closed" \/ phase # "looping"

\* torctl.c:421-427 "we will continue waiting": once Tor reports its progress,
\* and has not finished, OnionTrace gets to work.
WatchedLeadsToRunning ==
    TorFairness => (tor.watching /\ tor.progress < Bootstrapped ~> Resolved)

\* torctl.c:422 "Registering an async status event to wait for bootstrapping":
\* once Tor has accepted the authentication, OnionTrace gets to work.
EventuallyRunning == TorFairness => (tor.authenticated ~> Resolved)
=============================================================================
