# A verification of OnionTrace in TLA+

OnionTrace (`src/`) is a controller of a Tor client. It connects to Tor's
control port and runs in one of three modes (`README.md:40-43` of the
repository): `record` writes the circuits that Tor builds, with the session
they served, to a CSV file; `play` reads such a file, has Tor build the same
circuits at the same times, and attaches each stream to a circuit of the
session that its username names; `log` prints what Tor reports. The program is
single threaded: an epoll loop calls handlers, and what makes it hard is the
order in which Tor's events, the replies to commands and the timers interleave.

Paths below are relative to `src/src/`; `player.c` stands for
`oniontrace-player.c`, and so on.

## 1. Inventory

| Component | State | Operations | Interacts with |
|---|---|---|---|
| main (`oniontrace.c`) | none | start, run the loop, stop | Config, EventManager, Driver |
| Config | options | parse the command line | main, Driver |
| EventManager | epoll descriptor, table of watches, `shouldStopLoop` | register, deregister, run, stop | everything that owns a descriptor |
| Timer | a timerfd, a callback | arm, check, free; `timespec` arithmetic | Driver, Player |
| Driver | state, four timers, the Player or Recorder | connected, authenticated, bootstrapped, the timers' callbacks, start, stop, free | all |
| TorCtl | state of the handshake, queue of commands, line buffer, flags of the replies awaited, callbacks | queue and flush commands, reassemble lines, dispatch replies and events | Tor, EventManager, Player, Recorder |
| Circuit | launch time, id, status, path, session, counters | setters, CSV in and out, comparison | Player, Recorder, File |
| File | a `FILE*` | write a circuit, read lines, parse and sort circuits | Player, Recorder |
| Player | sessions with their circuits and waiting streams, table of circuits, scheduled launches, the session that awaits an id, the backlog, counters | stream and circuit events, launch timer | TorCtl, Circuit, File, Driver |
| Recorder | table of circuits, the file, counters | stream and circuit events, cleanup, free | TorCtl, Circuit, File, Driver |
| Logger | a counter that is printed | ask for events, print lines | TorCtl, Driver |
| Peer | an address | reference count | - |
| oniontracetools (`src/tools`) | none | parse and plot logs offline | - |

What is hard, and what makes each component correct:

* **Player.** Tor's reply to `EXTENDCIRCUIT` does not say which command it
  answers; sessions rotate to their next circuit in the middle of handlers;
  circuits fail, are closed and retried; streams arrive, are detached and end
  at any time; the view of a circuit is always a little out of date. Correct:
  no circuit is leaked or used after it was freed; an id is filed under the
  circuit it was assigned to; a stream gets a circuit of its own session, once;
  a waiting stream is never forgotten; circuits are used in order.
* **Recorder.** Tor's list of existing circuits arrives among its live events,
  and the flag that says what the list is for is read when it arrives. Correct:
  a circuit is written once, only if it was built, and under its session (section 9
  says where the code falls short of the first two).
* **TorCtl.** Sends are partial or fail, lines are split anywhere, replies and
  events share a connection. Correct: commands and lines are transported
  complete and in order; no reply keeps the parser waiting for ever.
* **Driver and EventManager.** Timers are freed inside their own callbacks,
  descriptors are reused. Correct: no callback for a freed owner, every open
  watch is polled, shutdown waits for the Recorder's cleanup.
* **Timer, File, Circuit.** Correct: normalised times, an exact order, lines
  independent of the reader's chunks.

## 2. Plan

In the order of importance; what is done is marked.

1. **`Player`** (done): the replay engine in an arbitrary environment, the
   module that the proofs are about.
2. **`PlayerTor`** (done): the same handlers with a model of Tor and of the two
   directions of the connection; safety across the connection, liveness, and
   that the composition implements `PlayerSpec`.
3. **`PlayerProofs`** (done): type correctness, ownership, table, awaiting, backlog
   and wakeup invariants.
4. **`Recorder`** (done): recorder.c with the part of torctl.c that turns a
   `circuit-status` reply into events, and a model of Tor that lists circuits
   at any moment between its live events.
5. **`Commands`** and **`Channel`** (done): the command queue, its flush over a
   socket that takes any part of a command, and the watch of the event loop;
   refines a FIFO channel.
6. **`Lines`** (done): reassembly of lines from chunks that end anywhere.
7. **`EventManager`** and **`Lifecycle`** (done): Driver, timers, event loop and
   handshake from start to end, with descriptors that the kernel reuses and
   batches of events that are older than the table of watches; liveness.
8. **`Timespec`** and **`TimespecProofs`** (done): subtraction, addition and
   comparison of times, proved exact.
9. **`TraceFile`** (done): what the Recorder writes to the file and what the Player
   reads from it, by way of chunks of the file and of `struct timespec`.
10. **More proofs** (done): order and counter of the Player's queues, `PlayerTorProofs`
   (everything in `PlayerTor` but liveness, the refinement included),
   `LifecycleProofs`, `RecorderProofs`, `CommandsProofs` (its refinement of `Channel`
   included). Section 8 says how.
11. **`ReadersProofs`** (done): the two readers of text. What a chunk is split into
   (`Split`), then `NothingLost` and `WholeUnlessCut` of `Lines` and
   `RestoredUnlessCut` of `TraceFile`. With it every safety property that a run finds to
   hold is a theorem.

How the modules depend on each other: `PlayerTor` extends `Player`, `Commands`
instantiates `Channel`, `Lines` and `TraceFile` use `Splitting` (`g_strsplit`),
`TraceFile` uses `Timespec`, `Lifecycle` uses `EventManager`. Of the proofs,
`SequenceLemmas` has what several need, `PlayerProofs` is about `Player`, and
`PlayerTorProofs` builds on it; `LifecycleProofs`, `RecorderProofs`,
`CommandsProofs` and `TimespecProofs` are about the module they are named after, and
`ReadersProofs` about `Splitting`, `Lines` and `TraceFile`.

## 3. The Player

### Module `Player`

One handler is one action. The handlers are operators from a state `p` of the
Player (and the time) to the state in which the handler returns, because they
call each other: `OnStreamNew`, `OnCircuitAssigned`, `OnCircuitBuilt`,
`OnCircuitGone` and `LaunchNextCircuit` are what torctl.c and driver.c call,
`HandleSession`, `HandleSessionBacklog`, `GetCurrentCircuit` what player.c
calls in turn.

| Model | Code |
|---|---|
| `heap[c]` | the `OnionTraceCircuit` at address `c`; status `FREED` when there is none. A freed circuit is reused by `Allocations`, as `malloc` would. |
| `sessions`, `circuitsSorted`, `waitingStreamIDs` | the table of sessions and their two queues; `Preemptive` is the entry `-1` of `launchNextCircuit` |
| `circuits` | the hash table from ids to circuits |
| `launches` | the queue of `LaunchInfo` |
| `sessionAwaitingAssignment`, `sessionAssignmentBacklog` | the same |
| `streamsAssigning`, `circuitsBuilding` | the two counters that go up and down |
| `commands` | what the Player has asked TorCtl to send, in order; only `EXTENDCIRCUIT` and `ATTACHSTREAM` |

Abstractions: a path is whether it is non-NULL; a time is a natural number and
one handler sees one time (the code reads the clock in each call of
`getCurrentCircuit`; a later reading only makes a rotation due that would be due
in the next handler); the counters that only go up are left out. The result of
the two calls of `g_queue_insert_sorted` is stated (`ByLaunchTime`,
`ByLaunchTimeReversed`) rather than computed: for equal times the comparison returns 0
(circuit.c:204-206), and `g_queue_insert_sorted` inserts before the first element that
is not smaller, so each insertion sort reverses ties. Only the model's initial states
depend on this; `OrderInv` leaves the order of ties open.

In `Next` Tor is arbitrary, with one assumption: it does not assign an id that
still names a circuit of the Player (Tor's ids count up).

### Module `PlayerTor`

Tor executes commands in order and its replies and events come back in order,
with any delay. It may refuse an `EXTENDCIRCUIT`, fail or close circuits,
detach streams; clients open streams and give up. `ghost` fields of the
command say which circuit and session it was sent for, so that
`RepliesMatched` and `SessionIsolation` compare what Tor did with what the
Player believes.

### Properties

| Property | What it says |
|---|---|
| `OwnershipInv` | every allocated circuit is in exactly one place of its session's queue; a known session has a circuit (the `g_assert` at player.c:81); only a session's first circuit is ever launched |
| `TableInv` | the table of circuits and the circuits' own ids agree in both directions |
| `AwaitingInv` | the session that awaits an id is the one whose current circuit is `LAUNCHED` |
| `BacklogInv` | no handler returns with a backlog unless some session awaits an id |
| `WakeupInv` | when streams wait in a session, an event to come will look at it |
| `OrderInv` | queues of circuits and of launches are in the order of time |
| `CounterInv` | `streamsAssigning` counts exactly the waiting streams |
| `RotationInOrder` | circuits are used in order and none before its time |
| `SessionIsolation` | a stream is never on a circuit built for another session |
| `RepliesMatched` | an id is filed under the circuit it was made for, and one `EXTENDCIRCUIT` is in flight at a time (`OneExtendInFlight`, its first part) |
| `ViewCatchesUp` | the Player is wrong about a circuit only while the event that corrects it is under way |
| `StreamInOnePlace` | a stream is handled once for each `NEW` or `DETACHED` |
| `AttachOnlyToBuilt` | streams are attached to built circuits only |
| `BuildingCounted` | `circuitsBuilding` never wraps below zero |
| `ImplementsPlayer` | every step of the composition is one of `PlayerSpec` |
| `StreamsAssigned` | (liveness) every queued stream is handed to Tor |

### Runs and bounds

| Run | Shows |
|---|---|
| `MCPlayer_run` | one session with two circuits, both launched at once and the second due later, one session that is not in the trace and competes with it, records that are dropped; one failure per circuit, so a retry happens; two waiting entries per session, so a preemptive entry and a stream share a queue; backlogs of three |
| `MCPlayerTor_run` | a rotation, a competing session that is not in the trace, one refusal, one failure or close, one detachment, with everything under way in both directions |
| `MCPlayerTor_live` | `StreamsAssigned` when Tor refuses nothing, two sessions of the trace that launch at the same time, one failure or close |
| `MCPlayerTor_refused` | one refusal violates `StreamsAssigned` (finding 1) |

The bounds of `MCPlayer` (`Bounds`) limit the queues, the failures and
the clock; they are guards on the next state, so every state that is reached is
one of the unbounded specification. The third failure of a circuit, which drops
the path, is in the model but not in the runs: no property depends on which
path is asked for. `MaxRefused`, `MaxClosed`, `MaxDetached` and `MaxTime` bound
the misfortunes of `PlayerTor`. Every run says `CHECK_DEADLOCK FALSE`: a replay
that has placed its streams waits for clients, and the bounded environment stops.

Fairness (`FairSpec`): the event loop serves the socket and the timer again and
again (weak fairness of `Deliver` and `TimerFires`; event-manager.c:158-198
polls until it is told to stop), and Tor executes commands and finishes
circuits it started. Nothing is assumed of clients, failures or the clock. In
the liveness run the number of failures is bounded, as it must be: a Tor whose
circuits always fail never gets a stream attached.

## 4. The Recorder

Module `Recorder` has one action per event or line of a reply that TorCtl hands
on (`Deliver`, with one operator per handler), one per timer (`Cleanup`,
`Shutdown`), one for what the driver does after the loop (`Stop`), and a model
of Tor that builds, fails, closes and lists circuits.

| Model | Code |
|---|---|
| `recorder.circuits[id]` | the entry of the table, `NoCircuit` when there is none: its path and its session |
| `recorder.file[id]` | the lines that were written for the circuit (the order of different circuits' lines is left out) |
| `recorder.waitingCircuitStatusResponse`, ... | the three flags of TorCtl that say how a reply is read |
| `recorder.commands` | what TorCtl was asked to send |
| `phase` | which of the driver's timers have fired |
| `events` | what Tor sent and TorCtl has not processed; a list of circuits is a header and, as one step, its lines |
| `existing`, `served`, `disowned`, `swept` | history for the properties; `swept` is the lines that a list for the cleanup wrote while Tor was building the circuit |

A path is told apart only by when it was reported: `built` is the final one,
`early` is any word found in its place before that (torctl.c:230-262 takes
whatever follows the status). Two more assumptions: the lines of one list arrive
without an event in between, and Tor does not reuse an id. The cleanup timer is
armed at the start, before Tor has bootstrapped (driver.c:278-282), so it may have
fired before there is a Recorder (`phase = "late"`); then there is no cleanup.

| Property | What it says |
|---|---|
| `ServedIsRecorded` | a circuit that served a stream is in the table or the file, with its final path and its first username, or Tor was asked to close it |
| `TableCatchesUp` | a circuit in the table is closed, or built under another path, only while the event that says so is under way |
| `WrittenOnceUnlessSwept` | a circuit is written once, although the list for the cleanup, its end and the end of the recording each write, and although an event tracks it anew after that; except that lines with the path so far and no session, which the Player skips (player.c:500), come first when lists for the cleanup found the circuit unfinished. Nothing follows a final path |
| `CleanupLeavesNone` | after the list for the cleanup the table is empty |
| `OnlyBuiltWritten`, `ExistingRecorded`, `OneLineEach` | what two comments say, and one line for each circuit; none holds (section 9), no run is about them |

| Run | Shows |
|---|---|
| `MCRecorder_run` | two circuits, each of which may exist before the Recorder watches, be made later, fail, be used by two usernames, or be closed because a stream used it unrecorded; both lists, the cleanup and the end at any moment |

`MaxEvents = 2` is what a list needs (header and lines), so that one event and
one part of a list, or a whole list, are under way while a timer fires;
`MaxCommands` bounds the commands that wait, beyond which nothing new happens:
a handler adds at most one. Circuits do not share state except the flags, so
two of them are enough to have one listed and one not. The specification has no
fairness: everything it says is safety. `CHECK_DEADLOCK FALSE`: a recording ends.

## 5. The connection

`Commands` models writing. `Issues` is `commandHelperV`: it queues and then runs
`flushCommands` with no event, which only renews the watch (`Registered`). The
flush proper is one action with three ways to end, as its loop has: everything
was accepted, a command was accepted in part, or `send()` failed. `Poll` is
`epoll_wait`: it reports the descriptor for what it is registered for, and
the report (`ready`) stays while handlers of other descriptors run; `FlushUnready`
is the case where one of them has replaced the watch, so that "readable" is
given to `flushCommands`. A byte is a pair of a command and a place in it.

* `WatchFollowsQueue`: the watch writes exactly while commands wait, and a report
  of "writable" always finds `flushCommands`.
* `ImplementsChannel`: `Channel`, the abstract specification, takes bytes out in
  the order they were put in, each at most once, and loses some only with a fault;
  `pending` is mapped to the concatenation of the queue and `faults` to the errors of
  `send()`. A step of `Commands` is a `Put`, a `Take`, a `Lose` or a stutter.
* `KeptUntilSent`: nothing is lost, which is violated (finding 2); it is proved for the
  case that no `send()` fails.
* `EverythingSent`, `EverythingRead`: no command waits for ever, and writing does
  not starve reading.

`Lines` models reading: each step is one `recv()` that returns any part of what Tor
wrote, and the loop over the pieces of the chunk. A NULL buffer and an empty one
are one value, because the code treats them alike (appending to either gives the
piece, and an empty first piece completes either).

* `NothingLost`: however the text is cut, what was processed and what is buffered
  is what was received.
* `LinesAreWhole`: the processed lines are Tor's lines. `WholeUnlessCut` says so as
  long as no chunk has ended between CR and LF (the history variable `cut`);
  without that proviso it is violated (finding 3).

| Run | Shows |
|---|---|
| `MCCommands_run` | four commands of one to three bytes, sent in any parts, one failure of `send()`; all five properties |
| `MCCommands_error` | finding 2 |
| `MCReaders_run` | `Lines` (and `TraceFile`, section 6): four lines of one to three bytes, chunks of up to nine bytes: a chunk may hold up to three whole lines, begin or end anywhere, and be a single byte |
| `MCReaders_cut` | finding 3 |

Fairness of `Commands`: the event loop polls and then calls the handlers of what
was reported (event-manager.c:167-190), without an assumption on Tor or timers; a
full socket becomes writable when Tor reads, which is in `Poll`. The runs end when
all commands are issued and all lines sent, hence `CHECK_DEADLOCK FALSE`.

## 6. The trace file

`TraceFile` follows a trace from the Recorder's memory to the Player's. `WriteCircuit`
is `writeCircuit` with `toCSV`: a line with the time that had elapsed since the
Recorder started. `WriteTorn` is the same with an `fwrite()` that stopped in the
middle of the line, which the code does not notice; nothing fits after it. `ReadChunk`
is one turn of the loop of `getLines`, `ParseLine` one of `parseCircuits`.

| Model | Code |
|---|---|
| `content`, `position` | the file, as bytes, and what `fread()` has returned of it |
| `partial` | `partialLastLine`, `<<>>` when it is NULL |
| `lineQueue`, `circuits` | the two queues |
| `elapsed[n]` | the time that stands in the n-th line |
| `launched[n]` | history: when the n-th circuit was launched |

A byte of a line is the number of the line, so that what a line says is told apart
from other lines but not read; only its time is. A line of the model has one to
three bytes and a chunk has four, in the code a line has less than the 1023 bytes of a
chunk (a time, a username and a path of a few relays): in both a line is cut at most
once. `Timespec` translates `timespecsubtract` with its two carries, `timespecadd` with
its loop, and the comparison of launch times.

* `TraceRestored`: every complete line of the file becomes one circuit, in
  chronological order, to be launched as long after the start of the replay as it was
  after the start of the recording. It is violated when a chunk ends between the last
  byte of a line and its newline (finding 5).
* `RestoredUnlessCut`: otherwise it holds, wherever else chunks end, and with a torn
  last line, which is dropped.

| Run | Shows |
|---|---|
| `MCReaders_run` | up to three circuits, launched at four times that differ by nanoseconds or seconds and need a carry or none, twice the same or in the other order, with starts that make the addition carry too |
| `MCReaders_file` | finding 5 |

`MCReaders` runs `Lines` and `TraceFile` side by side: in each behaviour one of them
stays in its initial state, so that what is explored is the sum of the two and not
their product.

## 7. The life cycle

`EventManager` is the table of watches with the epoll instance behind it, as operators
on a record. The two disagree after `close()`: the kernel forgets the descriptor, the
table does not (driver.c:60 frees a timer without deregistering it), and when the
number is used again, `register` finds a watch that it cannot delete.

`Lifecycle` has the whole process as a record `ot` and each handler as an operator on
it: the Driver's callbacks, the timers', and those of TorCtl until the Recorder, the
Player or the Logger takes over. Of the Logger there is what it asks for when it is made
(`NewLogger`); from then on it prints what it is told and counts it for the heartbeat.

| Model | Code |
|---|---|
| `ot.watches`, `ot.epoll` | the table, with a record of `Watching` for each descriptor (`NoWatch`, a model value that is none of them, where the table has no entry), and what epoll polls |
| `ot.open[fd]` | what the kernel has open under this number; of a timer, whether it was armed, has expired, or was read |
| `ot.timers[n]` | the n-th timer: its callback, and its descriptor until it is freed |
| `ot.state`, `ot.engine` | the Driver's state; which of recorder, player, logger exists |
| `ot.launches` | how many entries the Player's queue of launches has |
| `ot.torctl`, `ot.isStatusEventSet`, `ot.commands` | TorCtl's state, flag and queue |
| `batch` | the `events` of `epoll_wait` that were not processed yet |
| `receiving` | `receiveLines` is between two lines |
| `conn`, `toTor`, `fromTor`, `tor` | the connection and Tor |

`Poll` takes everything that is ready, and the events of the batch are handled in any
order, as epoll promises none; while they are, timers expire and Tor goes on. Tor may
refuse the connection, deny the password, close the connection, and make progress at any
moment. On a connection that is gone, `send()` succeeds for nothing, fails (then the
command is erased), or ends the process by SIGPIPE, which nothing catches. That
`send()` takes a command in part is the subject of `Commands`; what the Player does in
its timer is reduced to how many launches are due and whether it sends a command
(`Choice`), and what happens to lines once Tor is ready to nothing.

| Property | What it says |
|---|---|
| `DispatchIsSafe` | an event always finds a watch, and calls the owner of the descriptor, never a freed timer; no line reaches TorCtl before it has a state (the `g_assert` at torctl.c:449). So the warning at event-manager.c:137 cannot be reached |
| `EverythingWatched` | although numbers are reused and a stale watch cannot be deleted, every open timer and the socket are polled for their own watch |
| `PlayGoesOn` | while launches remain, exactly one play timer lives and will expire |
| `StateFollowsTor` | the Driver is past authentication only with a Tor that accepted it, and at work only with one that is bootstrapped |
| `CleanupBeforeExit` | when the shutdown timer ends the loop, the cleanup timer was read before |
| `StopsInTime` | (liveness) a run with a run time ends, whatever Tor does |
| `WatchedLeadsToRunning` | (liveness) once Tor reports its progress, OnionTrace gets to work |
| `EventuallyRunning` | (liveness) the same from authentication on, which is violated (finding 4) |

| Run | Shows |
|---|---|
| `MCLifecycle_run` | all three modes, with and without run time, with a file that can or cannot be opened |
| `MCLifecycle_bootstrap` | finding 4; one mode is enough for it |

Bounds: Tor bootstraps in `Bootstrapped = 2` steps, so that there is one state from which
the event is asked for and not all is done, and one more report than that. Two launches
and `MaxTimers = 3` play timers: the third gets the descriptor of the first, whose watch is
still in the table (the last timer finds all launches due; `Possible` says so). Six
descriptors are one more than are ever open at once. There is no bound on commands or lines:
the handshake has an end.

Fairness (`LoopFairness`): the thread does not stop while it has something to do
(`LoopIsBusy` spells out when `Loop` is enabled: it is inside a batch or a handler, was
told to stop, or epoll has something to report), and the two timers that end a run
expire. Nothing is assumed of Tor, so `StopsInTime` covers a Tor that never answers; a
process killed by SIGPIPE counts as ended. In the two properties about bootstrapping Tor
is assumed to execute commands and to make progress (`TorFairness`), as a premise of the
property. `CHECK_DEADLOCK FALSE`: the process ends.

## 8. Proofs

Everything below is proved for every value of the constants that satisfies the module's
named assumption: any number of sessions, circuits, streams, descriptors, timers and
commands, and no bound on queues. TLC checked the same properties, and the inductive
invariants that need it, on the instances of the runs first.

| Module | Theorems (and the property each states) |
|---|---|
| `PlayerProofs` | that `PlayerSpec` implies `TypeOK`, `OwnershipInv`, `TableInv`, `AwaitingInv`, `BacklogInv`, `WakeupInv`; and of its queues `OrderKept` (`OrderInv`), `RotationKeepsOrder` (`RotationInOrder`), `StreamsCounted` (`CounterInv`) |
| `PlayerTorProofs` | `TorTypeCorrect`, `SessionsIsolated`, `RepliesMatch`, `ViewKeepsUp`, `AttachedToBuilt`, `BuildingNeverTooLow`, `StreamsInOnePlace`, and `Refinement` (`ImplementsPlayer`) |
| `LifecycleProofs` | `LifecycleTypeCorrect`, `DispatchStaysSafe`, `WatchesStay`, `OnePlayTimer`, `BeliefsAreTrue`, `CleanupComesFirst` |
| `RecorderProofs` | `RecorderTypeCorrect`, `ServedStaysRecorded`, `TableFollowsTor`, `WrittenOnceUnlessSweptAway`, `CleanupEmptiesTable` |
| `CommandsProofs` | `CommandsTypeCorrect`, `WatchFollows`, `ChannelImplemented` (`ImplementsChannel`), `KeptUnlessFailed` |
| `ReadersProofs` | `NothingIsLost` (`NothingLost`), `LinesAreWholeUnlessCut` (`WholeUnlessCut`), `TraceIsRestoredUnlessCut` (`RestoredUnlessCut`), and the types: `LinesTypeCorrect`, `FileTypeCorrect`, `ReadersTypeCorrect` (`ReadersTypeOK`) |
| `TimespecProofs` | `SubtractIsExact`, `AddIsExact`, `DelayIsPositive`, `ReplayKeepsOffsets`, `ReplayKeepsOrder` |

`SequenceLemmas` holds what the others share: induction over a set of natural numbers,
that a step function can be iterated, that a fold of the community modules is such an
iteration, and how lines are told apart in a text (below). The provers cannot
instantiate a theorem about an operator, so all of it is about sets and functions.

**The Player.** The invariants are not inductive one by one (a rotation keeps the table
right only because queues own their circuits; the id in flight is filed correctly only
because the awaiting session's current circuit is the launched one), so the proof is
about their conjunction `IInv`. It follows the code's structure. `LoopInv` is what holds
at every point of a handler, inside the loop of `handleSessionBacklog` too;
`BacklogAwaits` holds only when a handler returns. One lemma per operator says that it
preserves `LoopInv` (with one session that is exempt from `NoLostWakeup` while it is
being handled); the lemma about the loop runs over its iterations by induction on the
number of sessions that are left. `NextIInv` then has one step per action.

**Its queues.** Order is a matter of two states, before and after. `Moves(p, q, t)` says
that from `p` to `q` the queues lose circuits at the front only, that the one in front is
due if any was lost, and that no circuit that is left changes its time. It is reflexive
and transitive, so that it holds of a handler because it holds of each operation the
handler calls, however often the backlog's loop runs (`BacklogLoop`); that the queues
stay sorted, and that rotations go in order, both follow from it. `CounterInv` is stated as a
cardinality of the places where streams wait (`StreamsWaiting`), which agrees with the
loop at player.c:161-176 because `StreamsInLength` says what the loop takes out.

**The Player with Tor.** `TorIInv` adds `Agrees`: what the Player's table says of a
circuit was true when Tor sent the last event that is handled, the events under way
correct it (`ViewFollows`), exactly one command or reply is under way when a session
awaits an id (`OneInFlight`, counted over both directions of the connection), and it is
for that session's current circuit (`RepliesAwaited`, `CommandsFollow`). `EventsFollow` says the same
from Tor's side: what an event says was true when it was sent, and if it is not true any
more then another event comes after it. Each operation of the Player keeps `Agrees`
(`KeepsAgreement`), each step of Tor keeps it because of the event it sends, and
`TorImplements` maps each step of the composition to one of `PlayerSpec` or a stutter;
the assumption that `Player` makes of Tor's ids is discharged there. `StreamInOnePlace`
needs an invariant of its own (`OnePlace`), which counts how often a stream is in the events,
the waiting queue of its session and the commands.

**The life cycle.** `LifecycleIInv` says how descriptors, watches and timers are wired: every
timer that was not freed is polled for its own watch, and what is closed is not polled,
whatever stale entry the table holds (`TimersWired`); the connection's watch follows
TorCtl's state and queue (`Wired`). `RegisterResult` shows that `register` replaces a stale
watch even though `deregister` could not remove it. Six descriptors suffice for ever
(`SixAreEnough`, `SpareDescriptor`) because one play timer is freed for each that is made
(`Plays`), for traces of any length. A handler leaves alone what other events of the
batch are about (`Conserves`), so what is left of the batch stays valid (`BatchWired`):
this is `DispatchIsSafe`. `CleanupFirst` says that the shutdown timer overtakes the cleanup
neither in the kernel nor in the batch. `Believes` and `TruthTold` relate the Driver's state to
Tor's, through the commands and lines that are under way. The assumption
`LifecycleAssumption` asks for six descriptors, and that `NoWatch` is not a watch.

**The Recorder.** `RecorderIInv` is about one circuit at a time. Tor has taken it from some
state `v` to the one it has now, and the events under way tell how, one after the other
(`Told`, a path of states with one step per event; a list tells the state the circuit
had when the list was made). What the Recorder has is right for `v` (`Known`): the circuit is
in the table with its final path and its first user if it is built in `v`, with neither of them if it is not,
or written, or left to be closed; of its lines all but the last are in `swept`. Handling
an event moves `v` by one step (`HandleKnown`), a step of Tor adds an event at the end
(`MovesFollow`), and at the end of the run `Complete` remains. All four invariants follow
from it; `CleanupLeavesNone` needs besides that the end of a list finds every tracked
circuit in it.

**The command queue.** `WatchFollowsQueue` is inductive with the types. For the refinement, what the
recursive function in `FlattenSeq` computes had to be known of every queue:
`FlattensExists` and `FlattensUnique` say that there is exactly one sequence of strings that goes from
command to command (both in `SequenceLemmas`), `FlattenSeqConcat` that the bytes of two queues are put one after
the other, `FlattenSplit` cuts a queue at the command that `send()` stopped in. A flush is then a
`Take` or, after an error, a `Lose`; what a handler issues is a `Put`.

**Times.** The arithmetic of `struct timespec` is that of nanoseconds for all times
that the clock returns, from no assumption: subtraction and addition are exact and their
results normalised (the second carry of `timespecsubtract`, which would miss a
difference of exactly one second, is shown never to be needed), comparison is that of
nanoseconds. Two things the replay needs follow: the delay to a launch that is not due
is positive, so that driver.c:74 arms a timer, and recording and replaying a time moves
it by the distance of the two starts and keeps the order. TLC checks `TraceRestored` in
`MCReaders_run` on times at the carries.

**The readers.** Both put together again what `g_strsplit` took apart, and the proof of
both has the same two halves.

* *Forwards*: `SplitCuts` and `SplitText` say which bytes each piece of a chunk is, and
  between which separators. An invariant of the loop over the pieces (`TakenTo`, `Fits`
  and `HasRead`) then says that the lines so far, each with its end, and the
  text that waits are together what was received. `NothingLost` is this; for the trace
  file it needs that no line is empty (`NoEmptyLine`) and that a chunk does not begin
  with a newline (`ChunkDoesNotBegin`): the code skips empty pieces.
* *Backwards*: `Decode` says that a text can be read into lines in one way only, as long
  as the end of a line does not begin with a byte of a line: if two sequences of lines
  make texts of which one begins the other, then so do the lines. `CompleteLines` adds which
  lines have come when m bytes have. What was received is what Tor wrote, or what the
  Recorder wrote, as far as it goes, so the lines are the first of those (`WholeUnlessCut`).

For the trace file the invariant has four parts. `FileKinds`: a byte of a line is the
number of a line whose time is known, so that `FromCSV` finds one. `FileText`: the file is the
lines 1 to k, each of one to `MaxText` bytes, with their ends, and perhaps a torn
one. `FileRead`: before the last chunk the chunks were full, and lines and partial line
are what they said; behind it, all that is left is shorter than a chunk
(`PartialIsShort`), therefore the partial line that the code may keep there is not
needed. `FileParsed`: the first lines are circuits, in the order of time
(`InsertedInOrder`), and the others wait in their own order. `RestoredUnlessCut` follows with
`ReplayShifts`, which is the arithmetic of `TimespecProofs`. The assumptions are
that the ends of lines are not bytes of lines, that a line is shorter than a chunk, and
that no circuit is launched before the Recorder starts. The runs check both readers side by side (`MCSpec`);
`SideBySide` says that each of their behaviours is one of `Spec` and of `FileSpec`, which the
theorems are about.

**Model-checked only.** Liveness and `ENABLED` are out of the prover's reach:
`StreamsAssigned`, `EverythingSent`, `EverythingRead`, `StopsInTime`,
`WatchedLeadsToRunning`. Every other property that a run finds to hold is proved. What a run
finds violated (section 9) has its counterexample and, where there is a proviso under
which it holds, a theorem with that proviso: `KeptUnlessFailed`,
`LinesAreWholeUnlessCut`, `TraceIsRestoredUnlessCut`.

## 9. What the code does that its documents do not say

Each with a run whose property TLC finds violated:

1. An `EXTENDCIRCUIT` that Tor refuses stops the replay: the error reply is
   dropped (torctl.c:382-384), the session awaits its id for ever and every
   other session waits behind it. Run `MCPlayerTor_refused`.
2. When `send()` returns -1, EAGAIN included, -1 is passed on as the length to erase
   (torctl.c:539), which erases the command instead of keeping it ("we still want
   to write more", torctl.c:553). Run `MCCommands_error`.
3. When a chunk ends between CR and LF the line is not recognised as complete and is
   later joined with the next one ("we have a full line in our buffer",
   torctl.c:496). Run `MCReaders_cut`.
4. When Tor finishes bootstrapping after it has said how far it is and before it executes
   the `SETEVENTS` that follows, the event went to nobody, and OnionTrace waits for ever
   ("Registering an async status event to wait for bootstrapping", torctl.c:422). Run
   `MCLifecycle_bootstrap`.
5. When a chunk of the trace file ends right before a newline, the first piece of the next
   chunk is empty and skipped (file.c:93-95), and the partial line is joined with a later
   line or lost (file.c:98, 102). Run `MCReaders_file`.

And four that no run is about; the property is stated in the module and fails when it is
added to the configuration in brackets:

* Launching a circuit before it is needed (player.c:512-518) works only for the
  first circuit of a session: `LaunchedBeforeNeeded` (`MCPlayerTor_run`).
* A circuit that the Recorder first hears of by an `EXTENDED` event has a path
  before it is built (recorder.c:110-114) and is written when it fails, although
  "only write the circuit if it was build" (recorder.c:145): `OnlyBuiltWritten`
  (`MCRecorder_run`).
* A circuit that is still extending when the list for the cleanup arrives is written with
  the path so far and removed (torctl.c:150-152, recorder.c:143-153). Its next `EXTENDED`
  tracks it anew (recorder.c:96-116), and it is written again when it ends or in
  `oniontracerecorder_free`, with its final path if it was built meanwhile (`OneLineEach`,
  `MCRecorder_run`). Nothing in the repository says how often a circuit is written;
  `WrittenOnceUnlessSwept` says that this is the only way to a second line, and that the
  earlier one names no session. The Player builds no circuit for such a line
  (player.c:500-523), so a replay does not change.
* What a list of circuits is for is decided when it arrives (torctl.c:150). If the
  cleanup is asked for while the first list is under way, existing circuits are
  not recorded, against "record all existing circuits" (recorder.c:225):
  `ExistingRecorded` (`MCRecorder_run`).

## 10. Not modelled

* Config: parsing key=value arguments is a sequential conversion; its result is a
  parameter of `Lifecycle`. Peer is used by nothing. The offline tools are pure
  functions of text.
* TorCtl's reply to `GETINFO ns/all`: nothing in the program asks for it. How a line is
  parsed into words is left out; the events and replies are its results.
* Failures of `epoll_create`, `epoll_wait`, `timerfd_create` and of memory allocation.
* What is only printed: the log, the heartbeat's summary, and the counters for it.
* Rotated circuits are never closed in Tor by the code; the model does the same (they
  stay `built` in `torCircuits`), no property is about it.
