# Formal models of DynDCO

DynDCO benchmarks three algorithms for distributed constraint optimisation
(MaxSum, MGM, DPOP) on meeting scheduling, on top of a vendored copy of the
graph engine Signal/Collect. This directory holds TLA+ models of it, checked
with TLC, and theorems about them, checked with TLAPS.

Paths below: `D/` is `src/src/main/scala/ch/uzh/dyndco/`, `SC/` is
`src/src/main/scala/com/signalcollect/`.

## 1. The system

| Part | Source | State | Operations | What makes it correct |
|---|---|---|---|---|
| Vertices, shared indices | `D/stack/vertex`, `D/problems/MeetingConstraints.scala` | value, `converged`, `roundCount`, constraints; one `MEETING_INDEX` map per meeting, one `AGENT_INDEX` map per agent | newRound, convergenceCheck, findMaxValue, registerValue, scoreSignal | vertices that have declared convergence hold consistent slots, and stay consistent |
| MGM | `D/algorithms/mgm` | `values`, `lastGain`, last signal per edge | collect: initialize, process messages, chooseMaximalGain | it respects what the maps promise; it stops |
| DPOP | `D/algorithms/dpop` | parent/children, `utilities`, `values` (shared by reference) | collect: UTIL and VALUE propagation, chooseOptimal | the same, although messages are references into live maps |
| MaxSum | `D/algorithms/maxsum` | marginal utilities per function vertex | collect of variable and function vertices | the same |
| Graph execution | `SC/DefaultGraph.scala`, `SC/worker`, `SC/scheduler` | mailboxes, `toCollect`, `toSignal`, phase | signal step, collect step, batches, termination | no signal is lost, the end is really the end |
| Idle detection | `SC/worker/AkkaWorker.scala`, `SC/node`, `SC/coordinator` | message counters, idle flags, statuses held at two detectors and at the coordinator | ScheduleOperations, status propagation, OnIdle | awaitIdle returns, and never early |
| Problem generator | `D/problems/MeetingSchedulingFactory.scala` | preferences, blocked, free | build | preferences and blocked slots are disjoint; it terminates |
| Dynamic controller | `D/stack/dynamic` and the factories' addAgent/removeAgent | a controller thread, vertices and maps under change | changeConstraints, changeVariables, changeDomain | what has been agreed survives; silent meetings keep their slots; the execution still ends |
| Interactive execution, console server | `SC/DefaultGraph.scala` (InteractiveExecution), `SC/console` | state, stepTokens, iteration, resetting; a monitor; open connections | run, six commands, state requests, updateClientState | iterations in order, no lost wake-up, terminate ends |
| Web console client | `web-data/js/main.js`, `state.js`, `reconnecting-websocket.js` | connection, pending command, enabled buttons, timers | orders, onmessage, reconnecting | consumers opened and closed in pairs; one command at a time |
| Graph canvas | `web-data/js/graph.js`, `graph-drawing.js` | two arrays indexed by two tables, stored ids, waiting order | messages, five kinds of removal, limit, refresh | tables and arrays agree; what has arrived is kept |
| Break conditions | `web-data/js/breakconditions.js`, `SC/console/DataProvider.scala` | conditions by id, reached ids, a counter, the list on the page | add, delete, list, the checks of an iteration | no condition is lost or taken for another |
| Other console modules | the rest of `web-data/js` | charts, tables, settings | | presentation |
| Vendored libraries | `web-data/dependencies`: jQuery, d3 | | | third-party |
| Testbed | `D/testbed`, `D/stack/configuration` | loop counters | run, repeat | every configuration is run once per repetition |
| Monitoring client | `D/util/Monitoring.scala`, the store functions of the vertex | buffered updates and conflicts, `cycleCount` | update, conflict, success | nothing recorded is dropped |
| Monitoring server | `src/monitoring/app` | collectors, buffers per agent | start, update, stop | every measurement is written once, in order |
| Remaining engine | `SC/storage`, `SC/serialization`, ... | vertex maps, files, cluster | | |

(`web-data` is `src/src/main/resources/web-data`.)

How the parts interact. A driver builds a problem and a graph of vertices (one
per participation of an agent in a meeting), and calls `graph.execute`. The
graph's calling thread sends requests to worker actors, each on a thread of its
own; a vertex belongs to one worker, chosen by the hash of its id. Workers run
`collect` of a vertex when signals have arrived for it; `scoreSignal` (1 until
`converged`) decides whether it then signals along its edges. Besides these
signals the vertices communicate through the two kinds of shared maps, **without
any lock**, across worker threads. The end of an execution is found by idle
detection: workers report idle flags and message counts to the node actor,
which passes on to the coordinator what may lead to a detection.

A graph may also be executed interactively, with a web console: a run thread
performs the steps of an iteration under a monitor and waits in it for tokens.
Commands arrive from browsers on the threads of the web socket server, which
give tokens or, for `pause` and half of `terminate`, write the fields without
the monitor. Every change of state is broadcast to all open connections from
the thread that makes it, and so may overtake the reply to a command. In the
browser one module keeps the connection and others (state, graph, break
conditions) order data and draw what arrives.

What is hard: check-then-act on the shared maps; a convergence flag that is
never reset while the maps keep changing, or is reset by a controller thread in
the middle of a collect; vertices that fall silent and leave neighbours without
a wake-up; messages that alias maps that keep changing (DPOP, MaxSum); idle
detection from flags and counts taken at different moments; commands of several
browsers, lost connections and reconnecting timers against one run thread;
arrays under two tables of references, with evictions read from the circles on
the page. `hazards` in `PROJECT.json` lists these and the others at their lines.

## 2. Modules

| Module | Models | Extends |
|---|---|---|
| `Participations` | agents, meetings, participations (the PEAV mapping) | |
| `Scheduling` | the data and decisions of `MeetingSchedulingVertex`: convergence test, utilities, `findMaxValue`, `registerValue`, generated problems | `Participations` |
| `SharedSchedule` | **abstract specification**: what any algorithm does to the shared maps, and what that promises | `Scheduling` |
| `SignalCollect` | one execution of a graph, synchronous or asynchronous, for any vertex program | |
| `MeetingSchedulingVertex` | the fields and steps every vertex inherits, on the engine | `Scheduling`, `SignalCollect` |
| `MGM`, `DPOP`, `MaxSum` | `collect` of the three algorithms, their graphs, the complete system | `MeetingSchedulingVertex` |
| `DynamicMGM` | MGM with the dynamic controller running beside it | `Scheduling`, `SignalCollect` |
| `IdleDetection` | workers, node actor, coordinator and driving thread behind `awaitIdle` | |
| `Iterations` | **abstract specification** of an interactive execution: what the user is promised | |
| `ConsoleConnections` | the web sockets between browsers and server, and their loss | |
| `InteractiveExecution` | the run thread, the commands and state requests on the server | `ConsoleConnections` |
| `ConsoleClient` | the reconnecting socket, orders and State module of a browser | `ConsoleConnections` |
| `WebConsole` | **composition**: browsers, connections, server, execution; shown to implement `Iterations` | `InteractiveExecution`, `ConsoleClient` |
| `GraphCanvas` | arrays, tables, stored ids and orders of the graph on the page | |
| `ConditionHistory` | what has happened to break conditions, and what users are promised about them | |
| `BreakConditions` | conditions on the server, their list on the pages, the checks of the run thread | `ConditionHistory` |
| `VertexProofs`, `MGMProofs`, `DPOPProofs`, `MaxSumProofs`, `DynamicMGMProofs`, `IdleDetectionProofs`, `WebConsoleProofs`, `CanvasProofs` | theorems; `VertexProofs` has those about `SharedSchedule`, `WebConsoleProofs` those about `BreakConditions`, each of an instance | the module they are about |
| `MC*` | instances for TLC | |

Definitions whose comment starts with "Faulty variant of X" are not part of any
specification: they are plausible bugs of X, kept to show that the properties
notice them.

### Shared maps and atomicity

An index maps a key that only one vertex ever writes (its meeting id in the
agent's map, its agent id in the meeting's map), so `agentIndex` and
`meetingIndex` are functions of the vertices, with 0 (`Absent`) for a key that
is not there. A `collect` is up to four steps of its worker, and the steps of
different workers interleave freely:

1. the look at the meeting's map (`CompareMeeting`), where `convergenceCheck` reads it;
2. the look at the agent's map and the messages (`CompareAgent`); when the first
   look has already failed both are one step, `Collect`;
3. the choice, which reads the agent's map (`ChooseMaximalGain`, `ChooseOptimal`);
4. the registration in both maps (`Register`).

What is taken as one step, and why this hides nothing the properties see:

- *A look at one map.* The code reads the entries one after another. For a pair
  of vertices that both end up agreed, each finished its look on a slot of its
  own that it no longer changes; the later of the two reads of the other's entry
  therefore sees the final slot, whatever the other entries do in between. So
  agreement of pairs does not depend on the look being atomic.
- *The two writes of a registration.* No vertex but the writer is both in its
  meeting and of its agent, so no other vertex can tell their order.
- *`findMaxValue`.* It walks the slots by decreasing utility and retries taken
  slots at random. Its outcome is a set: the best open slots, and `Absent` when
  taken slots may exhaust its attempts. The random walk is this
  nondeterminism.
- *Delivery.* A signal overwrites the entry of its source in
  `mostRecentSignalMap` and marks the target. A worker handles all messages in
  its mailbox before it operates, so the mailbox keeps the last signal per edge
  and delivery happens when the worker next looks.

Structural corruption of the unsynchronised Scala maps (a resize seen half-way)
is not modelled: an entry is read as it was before or after a write.

`roundCount` saturates at `MAX_ROUND`, the only value it is compared with.
Utilities are integers, in units of 1 / (4 * TIMESLOTS). The order in which
convergenceCheck meets the entries of the agent's map is the constant `Rank`.

### DPOP's tree

`addLeaf` means to remove a full parent from `connectableVertices`, but
`MutableList.drop` returns a copy. The parent is always the first vertex, so the
"pseudotree" is a star below a randomly picked leader: `DPOP` has the leader as
a variable that any vertex may be, and every other vertex is a leaf. The
`values` map of the leader is adopted by reference by every vertex that hears of
it, so it is one variable.

### MaxSum's graph and utilities

A participation has a variable vertex, which takes part in the shared protocol,
and a function vertex, which only passes utilities on; within a meeting every
variable is linked with every function, both ways. Of a message only what
decides the control is kept: `null`, a variable's `own` utilities, `empty`,
`zeros`, or `built`. Whether a variable's utilities are all zero depends on the
agent's map at the moment it reads it, which other workers write, and on
utilities that a function has indexed by the meeting id -1 or overwritten for
another id; so zeros are a nondeterministic choice where the code can produce
them. The sums themselves are left open: the best assignment may be any slot
the agent has not taken.

### Dynamic runs

`DynamicMGM` runs the controller beside the workers. Because constraints change
at any time a vertex may choose any slot; what is kept is when it collects,
looks, registers and signals. Every access to `converged` and to an entry that
the controller touches as well is a step of its own, so a reset or a removal may
fall between the two looks, between the check and the registration, or between
the two writes. Vertices that addAgent makes have no edges and never collect:
they are only members of the collections, as `<<participation, k>>`; those of
participations the graph was not built with are not told apart (`Elsewhere`).
The picked numbers start at 0 while agents and meetings are numbered from 1, so
the last agent and meeting are picked only after additions. changeDomain is left
out: the domain functions of the problem do nothing. changeConstraints parses
its interval from the parameter that names the mode; the model takes a parameter
that is a number, the only kind with which its thread gets to its loop.

### Interactive execution and console

The monitor is `owner`; `at` and `phase` are where the run thread is. A command
runs on a thread of the server and is cut into steps at each access to a field
the run thread uses as well; the fields are not volatile but are read as current.
`setState` is one step with its broadcast, which throws at the first connection
that is no longer open (`lingering`) and then leaves its caller half done.
The check of break conditions is two steps: the aggregator is made with the state as
it is by then, which terminate may have written since the run thread did, and the
workers answer. A worker that dies of it does not answer (`unanswered`): the run
thread keeps the monitor until the proxy's time-out throws (`timedOut`). It dies of a
state that is not one of the checks, if a condition is set, and after collecting of a
vertex whose state is no number; thresholds are always numbers (`BreakCondition`
parses the expected state, the others come from the execution's configuration).
A browser is one page: buttons, pending command, retry timers, and the
reconnecting socket, of which a zero-delay timer is taken together with what set
it. Two kinds of initial states: the server just started with one page opened,
or all browsers connected and the run thread paused for the first time (a state
the first kind leads to). Bounds: `MAX_CLICKS` clicks of all users,
`MAX_CUTS` lost connections, `MAX_UNREAD` messages under way to a browser when a
broadcast is sent, `MAX_ITERATION`, at which iterations saturate.

### Graph canvas

A query is the set of answers it may get, each a set of ids of the server's
graph (radius 1). Evictions are read from the circles on the page, some of which
are still fading, so `fading` is state. The refresh rate is not "Never".
`MAX_SEQUENCE` bounds the arrivals and `MAX_UNDER_WAY` the messages.

### Break conditions

Every access to `conditions`, `conditionsReached` and `conditionCounter` by a
server thread is a step. A condition is its place among those asked for and the
check that looks at it; whether its vertex meets it is left open. The run thread
is reduced to steps, tokens and the two checks (`InteractiveExecution` has the
whole); the aggregator has the conditions of the moment it was made. A check whose
worker dies ends the run thread (`failed`), and from then on no condition can be
added, because its constructor asks the workers.
`MAX_ORDERS` bounds the orders whose answers a browser has not read.

### Idle detection

`IdleDetection` keeps what termination depends on: per worker the flags of
`AkkaWorker` and the two message counts, not which vertex is collected; any
worker with work may signal any workers, up to `MAX_SIGNALS` in a run (the
vertices converge). Each status travels worker, node actor (first detector), the
node's message to itself (second detector), coordinator. `PutOff` is the branch
of `ScheduleOperations` that only reschedules: messages are waiting, or more
than a millisecond has passed. The configuration is the one GraphBuilder gives
DynDCO: one node, eager detection, no throttling, no periodic statistics. Two
abstractions: the driving thread's calls reach all workers in one step and are
counted with it (it does nothing else before the replies are in), and a status
is always newer than the one it replaces (`handleWorkerStatus` compares time
stamps; with one node statuses of a worker arrive in order).

`Init` is the empty graph. `LoadedInit` is a state that `Init` leads to, after
loading has settled; the runs of the execution modes start there.

## 3. Model checking

| Run | Instance | Question | Distinct states |
|---|---|---|---|
| `MGMSquare` | 2 agents x 2 meetings, 3 slots, 4 rounds, 2 workers, 3 problems, both modes | MGM, all interleavings on the shared maps, between steps and free-running | 23 607 |
| `DPOPStar` | 3 vertices, 3 slots, 3 rounds, every leader, 2 problems, both modes | DPOP with a live `values` map | 15 122 |
| `MaxSumPair` | 2 agents that meet, 2 variables, 2 functions, both modes | MaxSum: nobody is left behind, executions end on one slot | 64 087 |
| `IdleLoading` | 2 workers, loading, `awaitIdle` | detection while the graph is loaded, and that `awaitIdle` returns | 154 557 |
| `IdleExecutions` | 2 workers, 2 signals, an asynchronous and then two synchronous rounds | detection while workers signal each other, and between steps | 1 510 479 (symmetry) |
| `WebConsole` | 1 browser, 2 clicks, 1 lost connection | from the opening of the page to the end of the execution | 564 992 |
| `TwoConsoles` | 2 browsers, 2 clicks | commands of two users at the same time | 2 436 281 (symmetry) |
| `GraphCanvas` | 3 vertices, limits 1 and 2, 5 arrivals | every mix of answers, removals, evictions, refreshes, lost connections | 1 227 870 |
| `DynamicChanges` | 3 vertices, 2 meetings, 2 slots, 3 rounds, 1 worker and the controller, 1 addition | MGM under changeVariables and changeConstraints | 256 548 |
| `BreakConditions` | 1 browser, 2 conditions, 3 orders under way | stale lists against the checks of the run thread | 2 062 320 |
| `DPOPDoubleBooking`, `CollectOvershoot` | | findings, section 5 | |

The instances are small but not degenerate. In the algorithm runs every vertex
shares a meeting's map with one vertex and an agent's map with another (or just
one of them), and `WorkerOf` puts vertices that share a map on different
workers, so every check-then-act race of two threads exists. The problems make
preferences agree, cross, and collide with blocked slots, so that convergence at
once, negotiation and giving up all occur. `MAX_ROUND` is large enough for
agreement to be reached both before and at the limit; in `DynamicChanges` nothing
would be registered before the third round. There the vertices have one worker:
the controller is the second thread, and that two workers change nothing for
agreement and finality is proved (section 4). In `MaxSumPair` an agent has one
meeting; what its engagements promise each other is covered by the proofs. Two
signals are what a worker needs to wake another that wakes it again after it has
reported idle. Two clicks let one command meet another that is half done; one
lost connection lets a page reconnect in the middle of a command. Two conditions
and three orders let a deletion be ordered twice from one list with an addition
in between. Workers and browsers are symmetric (nothing distinguishes them);
symmetry is not used in runs with liveness properties. The consoles' runs may
really stop (the execution has ended and the users have no clicks left), so
deadlock is not checked there.

Properties:

- `MeetingAgreement`: participants of a meeting that declared convergence on the
  maps have registered one slot, although each looked at another time.
- `ConsecutiveDifference`, `TwoEngagementsDiffer`: what the adjacent comparison of
  `convergenceCheck` really guarantees of an agent's engagements.
- `SilentMeetingIsFinal`: nothing is registered in a meeting whose participants
  are all silent; nobody is between check and registration.
- `FollowsProtocol`: MGM, DPOP and MaxSum implement `SharedSchedule` (refinement;
  the mapping only merges the program counter's "registering" into "choosing").
- `NoLostWakeup`: an execution never ends between two linked vertices that are
  both still active.
- `EventuallyStops`: every execution ends.
- `NobodyLeftBehind`, `FinishedOnSameTimeslot` (MaxSum): because functions keep
  answering, an execution does not end with a variable that still wants to
  change, and it ends on one slot per meeting unless somebody gave up.
- `SilentMeetingKeepsSlots` (dynamic): under the controller entries of a silent
  meeting may disappear, but none is replaced.
- `StopsUnlessReset`: however participants are added and removed the execution
  ends; only resets that go on for ever can keep it up.
- `NoFalseIdle`: when `awaitIdle` is answered no message is under way and no
  worker has work. Comparing totals instead of counts per recipient breaks it,
  already with two workers.
- `DetectorAssertions`: the assertions of `BinaryTreeIdleDetector`, and that its
  pending flag is exact.
- `AwaitIdleReturnsEventually`: the held-back statuses always suffice.
- `FollowsIterations`: the console with its execution implements `Iterations`:
  no command of anybody makes it skip or repeat a step, a reset starts over once.
- `TerminateEnds`: a terminate that got past its broadcast ends the execution, or
  the run thread fails: at a broadcast over a lost connection, or by the time-out of a
  check whose worker has died, for instance of the state that this very terminate has
  written (section 5). It does not iterate for good, nor wait for good for
  tokens or for the monitor.
- `NoSleepingWithTokens`: the run thread never sleeps in the monitor while there
  are tokens, or a reset, that nobody will notify it of.
- `OpenedOncePerConnection`: however connections are lost and timers overlap, the
  consumers are opened and closed in pairs.
- `OneCommandAtATime`: no buttons are enabled while a command's reply is due,
  although broadcasts and fetched states overtake it.
- `TablesExact`, `EdgesJoinShown`: after every message and removal the tables say
  where ids are, and edges join vertices that are there.
- `WithinLimit`, `ArrivedStays`: the limit is kept, and evictions do not take
  what has just arrived (unless a circle of the same id is still fading).
- `RefreshEndsByEmptyAnswer`: the cycle of refreshes ends for good only by an
  answer that has no vertices in it.
- `NothingLost`, `HighlightedWasMet`: a condition goes only if it is deleted, and
  a line is highlighted only for a condition that a check has found met, although
  lists, orders and reached ids are out of date by the time they are used. This
  holds of one browser: section 5.

Fairness. Workers are Akka actors on a thread pool and the driver is a thread:
each is scheduled again and again, so weak fairness of every worker and of the
driver's steps. In `IdleDetection` additionally a worker does not put its
operations off for ever: weak fairness of `Operate`, i.e. a worker with an empty
mailbox at some time handles `ScheduleOperations` within its millisecond. On a
machine that never manages this the code makes no progress. No fairness is
assumed of choices (which slot, which signals), and none is needed:
`EventuallyStops` rests on the round limit alone. In `DynamicMGM` the
controller's thread is weakly fair too. In `WebConsole` the run thread, the
server's threads, the timers and handlers of a browser and the selector that
removes dead connections are weakly fair; users and failures are not. Weak fairness
of the run thread includes `TimeOut`: a call to a worker that is dead ends after the
two hours of `DefaultWorkerApi` and `AkkaProxy`, however long that is for a user.

## 4. Proofs

All theorems hold for every value of the constants: any sets of agents, meetings
and participations, any number of slots and rounds, any iteration order, any
workers and either execution mode; any program of the driving thread and number
of signals; any number of browsers, clicks and lost connections; any graph, limits
and number of arrivals on the canvas. One hypothesis is narrower: what is proved of
break conditions rests on unique ids and is proved of one browser, since the
conditions of two may share an id (section 5). The assumptions are the named ASSUMEs
of the modules:

- the problem: `VerticesAssumption`, `TimeslotsAssumption`, `MaxRoundAssumption`,
  `RankAssumption`, `ProblemsAssumption`;
- the graph and its engine: `WorkerAssumption`, `ExecutionModesAssumption`, that
  every participation is a node (`NodesAssumption`), which others there are
  (`ParticipationsOnly`, `VariablesAndFunctions`), for the sums of utilities in MGM and
  DPOP that they are finitely many (`FinitelyMany`), and that an edge without a signal
  is told from one with any (`NoSignalIsNoMessage`: None against Some);
- the controller: `NumberedAssumption`, `ControllerModesAssumption`,
  `MaxAddedAssumption`;
- idle detection: finitely many workers (`WorkersAssumption`), a program made of
  the calls there are (`ProgramAssumption`), a bound on the signals
  (`MaxSignalsAssumption`), and that null is no status (`NoStatusAssumption`);
- the console: that its threads are different (`ThreadsAssumption`) and the bounds;
- break conditions: the bounds (`BreakAssumptions` names them together);
- the canvas: a finite graph whose edges end at its vertices (`GraphAssumption`),
  limits of at least one (`LimitsAssumption`), and the bounds (`CanvasBounds`).

Each inductive invariant was checked by TLC on the instances of section 3 before
it was proved.

`VertexProofs` has what the three algorithms share, in four parts. First, the promises
of the protocol (`SharedSchedule`), whoever follows it. They are not inductive: whether
two agreed vertices are equal depends on what one of them saw at its first look, two
steps ago. `ProtocolInv` adds that

- a vertex with no value has not begun to compare or choose;
- a vertex between check and registration is active, so agreed vertices never
  write;
- a vertex between its two looks still *relies* on a fact about the map it has
  seen: it agrees with every agreed participant of its meeting. This survives,
  because whoever agrees later has compared itself with it, and whoever is
  agreed no longer writes;
- agreed pairs are equal in their meeting and, when they follow each other, different in
  their agent's map. Being consecutive is monotone: entries are added to the map and never
  removed, so a new entry can separate a pair but never join one
  (`ConsecutiveMonotone`).

Each part has a step lemma with one case per action; `ProtocolInvStep` collects them
and the theorems follow: `ProtocolInvariance`, `ProtocolTypes`, `AgreementTheorem`,
`DifferenceTheorem`, `TwoEngagementsTheorem` (with two engagements adjacent
means all, provided both are in the map) and `FinalityTheorem`.

Second, that the looks, failed
looks, choices and registrations of `MeetingSchedulingVertex` are steps of the
protocol, that each preserves `CoreInv` (types of the program counter, of the pending
choice and of the status; the choice is a slot or `Absent`), and that whatever follows
the protocol inherits its promises. Third, types of the engine. Fourth, wake-ups:
`WakeInv` says that of two linked vertices that still speak (active, or about to send)
one is marked to collect or to signal, or a signal between them is in a mailbox;
`PhaseInv` what the marks and mailboxes are in each phase, so that there are none left
when the execution ends.

`MGMProofs`, `DPOPProofs`, `MaxSumProofs`. In each, `Refinement` shows
`Spec => FollowsProtocol`: initial states map to initial states, engine steps to
stutters, and each step of a vertex to a step of the protocol. MGM and MaxSum need
only `CoreInv`. DPOP writes back to the pending choice what it has read from the
shared `values` map, so its invariant adds that this map holds slots or 0
(`DPOPInv`). MaxSum's function vertices are stutters. The promises are then
inherited: `...Agreement`, `...Difference`, `...Finality`. The second half of each
proves an inductive invariant of types and wake-ups (`MGMInv`, `TreeInv`,
`MaxSumInv`), and from it

- `MGMNoLostWakeup`, `DPOPNoLostWakeup`: no execution ends between two linked vertices
  that are both active, on any graph;
- `MaxSumNobodyLeftBehind`: every variable is linked with its own function, which
  always speaks, so whoever is active at the end would have been woken;
- `MaxSumSameTimeslot`: the entry of a variable is its value or still its
  preference (`EntryInv`), nobody is left behind, and converged variables agree;
- `MGMTypes`, `DPOPTypes`, `MaxSumTypes`. In DPOP the leader adds up the utilities of
  its children: `UtilitiesOK` is inductive because a vertex computes its own from its
  calendar (`LeafUtilitiesNat`) and a sum of numbers over the finitely many neighbours
  is one (`TotalNat`, by induction over the size of the set).

`DynamicMGMProofs`. With the controller the protocol is no longer followed, but
its argument survives in a weaker form: `Inv` says that flags and entries have
their types, that a vertex between its writes is active, and that what vertices
*rely* on agrees. The controller only takes away: a reset leaves fewer vertices
that rely on anything, a removal fewer entries that are relied on. Agreement
(`DynamicAgreement`), finality (`DynamicFinality`) and types (`DynamicTypes`) follow
for any number of vertices, workers, additions and slots. `ConsecutiveDifference`
does not survive: removing an entry may make two others adjacent.

`IdleDetectionProofs`. `IdleNeverFalse`: awaitIdle never returns early. That the
counts of statuses taken at different moments match does not by itself mean that
nothing is under way; the argument is about time.

- `CountInv`: what a worker has counted, and what waits in its mailbox, is what the
  driving thread and all workers have counted as sent to it; all replies have
  arrived or are under way.
- `Told(w)` collects the statuses of a worker wherever they are: under way, held
  by a detector, in the node's messages to itself, in a report, at the
  coordinator. No message handler adds to it but a turn of the worker itself.
  `ToldInv`: what is told is in the worker's past, and if an idle status has the
  present counts then the worker has done nothing since and is quiet.
- `CutInv`: choose for every worker the present counts or any idle status told of
  it that has all its replies. If some of the chosen are out of date, then one of
  those that are counts fewer messages as received than the chosen ones count as
  sent to its worker: the first of the workers to go on after its chosen status
  had been idle, so it went on because of a message, and whoever sent that had
  counted it already. This part is what makes the others inductive; it is proved
  for all choices at once, because a turn replaces one chosen status by another.
- Replies only grow, and their total matches, so each worker's matches; then by
  `CutInv` matching counts leave no chosen status out of date, and by `CountInv`
  all mailboxes are empty.
- Four kinds of turns (`ReceiveSignal`, `ReceiveCall`, `Operate`, `PutOff`) enter the
  proof through what they have in common, `Turn(w)`: at most one more message
  counted, statuses that are honest, signals counted when sent.

`IdleDetectors` (the assertions of BinaryTreeIdleDetector) needs that there is at most
one request in the node's messages to itself and that `unreported` is not empty as long
as it is there; `IdleTypes` bounds the counters by the position in the program. All
three are proved of both specifications, from the empty and from the loaded graph.

The sums over workers are recursive underneath. The library's induction theorems
cannot be instantiated here, because they take an operator; `FiniteInduction` and
`NatSetInduction` take the *set* of what is good instead and follow from `WFMin`, that
a well-founded order has minimal elements. With them `SumUnfold` shows what the fold
of the community modules computes, and `SumChange`, `SumOrder`, `SumConstant` what the
counting argument uses.

`WebConsoleProofs`. `ConsoleInv` has one conjunct per question: the types, who holds the
monitor, what is connected, where the command of a browser is (on its way, in the
hands of the server, or answered: in one place only), what holds before the run thread
has entered the monitor, what a reset is for, and how many timers for an undetermined
state there may be. It is needed as a whole, because a command is accepted only
when its browser has its buttons, which a broadcast gives only to browsers whose
command has been answered. From it `ConsoleTypes`, `ConsoleOpensOnce`,
`ConsoleNoLostWakeup`, `ConsoleOneCommand`, and `ConsoleFollowsIterations` with
`ConsoleStartsCourse`: every step of a console started with `ServerInit` is a step of
`Iterations`.

Break conditions, in the same module (`Break` is the instance). `BreakInv(b)` says of the
one browser b that ids are never used again (every id that was given is at most
`conditionCounter`, and no two conditions had one), and that whatever is in flight still
means what it meant: an order to delete names an id whose condition's deletion was
ordered, a line of a list that is under way or on the page shows a condition under the
id it was given, highlighted only if it was met, and what the server's thread has
read of the fields is still in them, since there is no other thread (this is where a
second browser breaks it). All of this only refers to histories that grow
(`HistoryGrows`), so staleness does no harm: `ConditionsNothingLost`,
`ConditionsHighlighted`, `ConditionsUniqueIds`.

`CanvasProofs`. `CanvasInv` says that no id, no arrival number and no edge
is twice in the arrays, that edges join ids that are there, that the tables hold exactly
the places, that `vertexSequence` bounds all numbers, and that the limit is kept.

- The operators come first: `Filtered`, an array without some of its elements, is shown to
  keep the others and no more, in their order; `VertexIndex` and `EdgeIndex` to find
  the place of an id that is there once.
- A message is drawn in two moves, arrival and eviction, with tables that are exact between
  them but for one thing: a message with more vertices than the limit drops the
  references of the rest although some are on the canvas. Those have not arrived
  again, and at least as many have as there may be, so their numbers are low enough for them
  to be evicted at once: the strays of one move are removed by the other.
- `WithinLimit` needs a count: what is left after an eviction has numbers among the latest
  `limit` ones, and no number twice (`Pigeons`). It matters that evictions are read
  from the circles in the page, where what has just come is not yet: it is never evicted
  unless a circle of the same id is fading (`CanvasArrivedKept`).
- From `CanvasInvariant` follow `CanvasTypes`, `CanvasTablesExact`, `CanvasEdgesJoinShown`,
  `CanvasWithinLimit`, `CanvasArrivedKept` and `CanvasRefreshEnds`, for which a
  query under way must be one that asks for something.

Only model-checked: the liveness properties `EventuallyStops`,
`AwaitIdleReturnsEventually`, `TerminateEnds` and `StopsUnlessReset` (fairness and
ENABLED are out of this prover's reach). Every safety property of the passing runs is
proved.

## 5. Where code and documents disagree

With a run:

- `DPOPDoubleBooking`: an agent's slots are to be different, but only entries
  that follow each other in the map are compared. MGM violates the same
  property (`AgreedNotDoubleBooked`) with two engagements, because its agent map
  is empty until a vertex first registers.
- `CollectOvershoot`: `collect` is to "complete the current iteration and pause
  before the next signal step", but adds a token for the global check by the
  collect steps so far (`SC/DefaultGraph.scala:457`), while the check happens by
  those after this iteration's. With the default interval of 1000 the first full
  step gets five tokens for four steps and goes on into the next signal step.

Refuted by TLC with the definitions and configurations here, without a run of
their own:

- `FinishedOnSameTimeslot` in `MGMSquare` and `DPOPStar`: "finish when all
  participants have same timeslot" (`MeetingSchedulingVertex.scala:45`), but silent
  neighbours leave a vertex that has just changed, and the execution ends with two
  slots although nobody has reached the round limit.
- `RemovedLeavesNoEntries` in `DynamicChanges`: removeAgent is to "remove vertices"
  and "clear indices" (`MGMGraphFactory.scala:220`, `:223`), but passes the vertex
  where the graph expects its id: the vertex stays in the graph and registers again.
- `ReactivatedGoOn` in `DynamicChanges`: "reactivate agents"
  (`DynamicController.scala:56`) sets `converged` to false, but no score is looked at
  because a field has changed: the execution may end between two linked vertices
  that are active again.
- `UniqueIds` and `NothingLost` in `BreakConditions` with two browsers: "each
  condition has a unique ID" (`SC/console/DataProvider.scala:261`), but two server
  threads may count to the same one, or one write back a map without the other's. With
  one browser both are proved.

Seen in `WebConsole` (without `timedOut` in `TerminateEnds` TLC shows it), though no
document says otherwise: `terminate` writes `state` without the monitor
(`SC/DefaultGraph.scala:494`). If that falls between the run thread's `setState` and
`checkBreakConditions`, which reads the field again (`:547`), the aggregator's `match`
has no case for "terminating" and, with a condition set, a worker dies. The run thread
then waits two hours with the monitor, which terminate's own `continue` waits for, and
the execution fails instead of ending. A condition on a state above or below a number
does the same at a vertex whose state is no number, without any terminate.

Read off the code: `chooseMaximalGain` registers a slot before the gains are
compared, where the design chapter takes it only with the best gain;
`changeConstraints` parses the mode as its interval; changeVariables adds
with the probability it is given for removing; `breakconditions.js:43` says that opening requests the
list, which it does not; of the canvas: eviction may remove more than
the overflow when vertices have been updated one by one, removing vertices while
disconnected stores an empty list, a refresh ordered before a removal brings the removed
vertices back, and an order that replaces a waiting one drops its query.

## 6. Plan

Written in this order, the most important behaviour first: shared protocol and
its proofs; engine, MGM, DPOP; their refinements; idle detection; MaxSum; the
interactive execution with its console; the canvas; MGM under the dynamic
controller; break conditions; the proofs of wake-ups, types, console and idle
detection; those of break conditions and the canvas. Next:

1. `PushSchedule` and `MessageCollector`: cycleCount/PUSH_ROUND of the monitoring
   client, the buffers of its server.
2. `ProblemFactory`: termination of the generator; `TestLoops` of the testbed.
3. addAgent and removeAgent of DPOP (the tree under change) and MaxSum.

### Not modelled

- jQuery and d3 (`web-data/dependencies`): third-party code, by far the larger
  part of the repository's JavaScript (18 029 lines of about 23 200); the program's
  own modules are about 5 200 lines.
- Charts, logs, configuration tables, layout, the guided tour: presentation, with
  no state that anything else depends on. Of graph.js and graph-drawing.js likewise
  layout, colours, tooltips and picking by mouse.
- Cluster provisioning, serialisation, vertex stores, file loading and examples of
  the engine: I/O, deployment, or unused by DynDCO; ping/pong throttling (off);
  the other execution modes; time and step limits.
- Result tables and plots: formatting.
- Noted and left out: awaitIdle with a limit of at most a second returns false
  without asking; `normalize` divides by zero for a lone participant; DPOP's tree
  after removeAgent; a proxy counts a request after telling it.
