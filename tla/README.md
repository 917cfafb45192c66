# robot_manager: TLA+ models, checks and proofs

`robot_manager` is a service between clients and one industrial robot. A client
acquires a control lease, submits commands, and polls for their result; the
service checks each command against a site policy, executes it through a vendor
driver, watches the controller, and stops the arm when something is wrong. This
directory holds TLA+ modules that model its control core, the TLC runs that check
them, and proofs that TLAPS checks.

## 1. The system

| Part | State | Operations | Source |
|---|---|---|---|
| Snapshot, lifecycle | none (a pure function) | `DeriveLifecycleState` | `src/src/control/state_machine.cc` |
| Command guard | the site policy | `Validate` | `src/src/control/command_guard.cc` |
| Lease manager | the one lease, a counter | `Acquire`, `Renew`, `Release`, `IsValid` | `src/src/control/control_lease.cc` |
| Command executor | records, queue, idempotency map, active motion, jog, pending internal stop, cached snapshot, flags | `Start`, `Shutdown`, `Submit`, lease calls, `WorkerLoop`, `PollLoop` | `src/src/control/command_executor.cc` |
| Mock driver | controller state, jog, program, outputs | `IRobotDriver` and three hooks for events | `src/src/adapters/mock/mock_driver.cc` |
| EFORT driver | SDK handle, `paused_by_service_`, active jog | `IRobotDriver` as sequences of SDK calls | `src/src/adapters/efort/` |
| Configuration loaders | none | `LoadServiceConfig`, `LoadGrpcServerOptions` | `src/src/config/`, `grpc_config_loader.cc` |
| gRPC endpoint | none of its own | convert, authorise, call `RobotService`, stream the state | `src/apps/robot_manager/transport/` |
| `robot_manager` | a signal flag | load, start, serve, shut down | `src/apps/robot_manager/main.cc` |
| `robotsh` | a signal flag, the command it waits for | load, start, three commands, shut down | `src/apps/robotsh/main.cc` |

**Interaction.** RPC threads call the executor. `Submit` puts a record into a
bounded queue; the worker thread, the only writer to the driver, takes the first
command that may run, validates it a second time and calls the driver; the poll
thread reads the controller, publishes a snapshot, decides when the active motion
is complete, and runs the watchdogs on leases, timeouts and jog heartbeats, which
queue an internal `Stop`. `mutex_` guards the executor's data, `driver_mutex_` the
driver; no thread holds both. `Shutdown` runs in a thread of its own: in the two
programs it is the main thread, after the gRPC server has ended or after the
commands of `robotsh`.

**What is hard.** Every operation is several critical sections with the driver, the
clock or the lease manager in between: a check made in one is acted upon in
another. A reading of the controller may be published after a command has changed
what it describes. Driver calls and readings fail, leases lapse at any moment,
commands time out while queued, running or active, the queue and the history are
bounded, and stopping may itself fail. To the EFORT controller a stop is up to seven
SDK calls and a reading is seven, each of which may fail with or without effect, and
what the driver remembers between them is lost in a crash. A program ends by a signal
while calls and streams are open. `PROJECT.json` lists these hazards at their lines.

**What makes each part correct.**

* *Lease manager*: a client is in control until the time it was told, nobody else
  is, and an old lease never comes back.
* *Guard and driver*: what the guard admits on a fresh snapshot the driver
  executes; no sequence of commands and events moves an arm without power.
* *Ledger of the executor*: queue and records agree, one motion at a time, every
  running command is in somebody's hands, verdicts are final, retries make no
  second command, open commands are not forgotten, stops come first and fit in.
* *EFORT driver*: a stop that is reported done is done, a reading does not call a
  moving arm at rest, no jog runs that nobody will end, no path starts on a moving arm,
  no session stays behind.
* *Loaders and programs*: settings that are accepted fit together; the executor ends
  after the last call into it; every way out gives the robot back; a signal ends the
  program; the exit code 0 of `robotsh` means that its motion was reported succeeded.
* *Executor and controller*: a motion reported stopped is at rest, a jog is always
  watched and comes to rest, a motion whose lease is gone ends, every command
  ends, shutdown completes and settles everything.

## 2. Modules

| Module | Models | Extends |
|---|---|---|
| `StateMachine` | the snapshot and the derivation of the lifecycle | |
| `CommandGuard` | `Validate` for the 17 command types | `StateMachine` |
| `MockDriver` | each driver method as an operator from state to status and state | `CommandGuard` |
| `GuardedDriver` | guard and driver one after the other, on fresh snapshots | `MockDriver` |
| `LeaseContract` | abstract specification of the lease manager, without a clock | |
| `ControlLease` | the lease manager under concurrent calls, with a clock | instantiates `LeaseContract` |
| `CommandLedger` | what `mutex_` guards, each `...Locked` method as an operator | |
| `CommandExecutor` | all threads of the executor and the world around them | `MockDriver`, `LeaseContract`, `CommandLedger` |
| `ExecutorClaims` | what documents say and the code does not keep | `CommandExecutor` |
| `EfortDriver` | the EFORT driver, SDK call by SDK call, its controller, and the executor's choice of commands | `CommandGuard` |
| `ConfigLoader` | both loaders as functions from a document to a configuration or a refusal | `Integers`, `Sequences` |
| `Processes` | `robot_manager` with its endpoint, and `robotsh`, around the executor | `CommandExecutor`, `ConfigLoader` |
| `SiteFixtures`, `MCGuardedDriver`, `MCExecutor`, `MCJog`, `MCEfort`, `MCProcesses` | a small site, its documents and the requests of the runs | |
| `ControlLeaseProofs`, `GuardedDriverProofs` | theorems | the module they are named after |
| `LedgerProofs` | what every operation on the ledger preserves | `CommandLedger` |
| `ExecutorProofs` | theorems about the executor | `CommandExecutor`, `LedgerProofs` |
| `KeyProofs` | the idempotency map and what the history forgets | `CommandExecutor` |
| `MotionProofs` | ledger and controller together, and the bounds | `ExecutorProofs`, `KeyProofs` |
| `EfortProofs` | theorems about the EFORT driver | `EfortDriver` |
| `ProcessProofs` | theorems about the programs and the loader | `Processes`, `ExecutorProofs`, `KeyProofs` |

`PROJECT.json` maps every definition to the lines it translates. The correspondence
in short:

* **Steps.** A step of `CommandExecutor` is one critical section of `mutex_`, one
  driver call, or one look at the lease manager. `Submit` is `SubmitBegin`,
  `SubmitValidate`, `SubmitEnqueue`; `WorkerLoop` is `WorkerTake`, `WorkerSnapshot`,
  `WorkerValidate`, `WorkerExecute`, `WorkerComplete`; `PollLoop` is `PollCheck`,
  `PollRead`, `PollPublish`; `Shutdown` is `ShutdownBegin`, `ShutdownStop`,
  `ShutdownDisconnect`, `ShutdownFinish`; `ReleaseControlLease` is itself and
  `ReleaseCancel`. `Acquire` and `Renew` look at `running_` and call the lease
  manager afterwards, so they may take effect at any time after the start.
* **Calls that change nothing** (a refused `Submit`, a retry that finds its key, a
  failed `Start`, which undoes what it did) are stuttering steps.
* **Guard.** A thread copies the snapshot in one step and reads the lease in a later
  one. It keeps the set of answers of the lease manager with which `Validate`
  accepts the command (`admits`), which is all that is left to decide.
* **Time** is a set of flags that environment actions raise: a command is late, the
  grace period is over, the jog deadline has passed, the last good reading is too
  old, a motion is due to end, a lease has lapsed. `updated_at` is the number of
  the critical section that ended a command; commands ended in one critical section
  may carry one time, so pruning may choose either.
* **The deque** is a function from command ids to ranks. Ids grow, so `-id` is a
  rank in front of, and `id` one behind, all ranks before.
* **Branches for a missing record** in the loops over the queue are unreachable:
  `QueueMatchesRecords` and `WorkerOwnsCommand` check that.
* **Left out:** poses, joint values, names, the sequence number of snapshots, the
  text of statuses, the reply of a retried `Submit` (`PayloadsEqual`), and read-only
  calls. An idempotency key is a pair of client and key; the code joins them with a
  newline. An internal stop has the key of all internal stops, since none is ever
  looked up. `program_running_` of the mock always equals
  `state_.program_running`, so one field stands for both.
* **Driver errors.** The mock never fails for reasons of its own; with the fault
  `call` any driver call may also fail and change nothing, as an SDK call of the
  EFORT adapter may, and with `read` a reading may fail.
* **EFORT driver.** A method is a script: the list of its SDK calls and of its
  assignments to the driver's fields. `StepSucceeds` and `StepFails` take its first
  entry; a failing call may have taken effect or not. `Execute`, `Return` and `Publish`
  are the executor's side: the guard on `latest_state_`, which is kept from one command
  to the next, `MayRun`, and the bookkeeping of the active motion and the jog, reduced to
  what the driver's properties need. `driver_mutex_` admits one method at a time, so
  `call` is one record; the poll thread gives the mutex back before it publishes, so a
  command may begin, run and end between a reading and its `Publish`. The steps of the
  worker around a method are joined to its begin and its end: the worker alone executes
  commands, so nothing it decides upon changes in between but by a publication, and
  `CommandExecutor` has these steps apart. That a method of the worker may follow
  Shutdown's stop is left to `CommandExecutor`, too (`shutdown_race`). After that stop,
  `LeavesTo` carries out `ReleaseControl` and `Disconnect`, and it undoes a connection
  whose first reading failed. The controller is external; its assumptions are listed at
  the head of the module and belong to the validation on hardware
  (`docs/sdk_integration.md`). Left open deliberately: whether `MOVEHOLD` ends a jog,
  whether it pauses a program, and whether a `ConnectRobot` or `DisconnectRobot` that
  fails leaves a session.
* **History variables** record what a property must except. In `EfortDriver`: `doubt`
  (since the last stop that succeeded a command failed, the process died or the executor
  lost track of a motion), `lost` (axes whose jog call failed), `stray` (a session left by
  `ConnectRobot` or `DisconnectRobot` itself), `overtaken` and `late` (a command began
  after the reading that waits, or that was published, had been taken). In
  `CommandExecutor`: `shutdown.after`, the command the worker had in hand at Shutdown's
  stop, and `shutdown.rest`, whether the arm was at rest just before the disconnection,
  after which the mock has forgotten it.
* **Documents.** A document is a record of what the YAML parser and the scalar parsers
  find at each key: a value, `Missing` or `Malformed`. All checks of both loaders are
  there; the text is not. `JointLimitsOk` and its neighbours are named after what they
  check.
* **Programs.** `Run` of `robot_manager` and `RunMoveJ`, `RunState` of `robotsh` are
  positions of `main`; the executor's steps run beside it. Signals are a flag the main
  thread looks at. `grpc::Server` is external: `Shutdown` with a deadline refuses new
  calls and cancels those in progress when the deadline passes, `Wait` waits for all
  handlers. Only the loop of `StreamState` looks at the cancellation; the other
  handlers end by themselves. `robotsh` makes its calls from the main thread, which
  therefore uses the steps of an RPC thread.
* **Initial controller.** Most executor runs start with a controller under API
  control and with servo power, as an earlier session may leave it and as the EFORT
  adapter reports it (`efort_driver.cc:444,456`). The commands that lead there are
  exercised in `guarded_driver`.

Operators whose comment begins with *Mutant* are wrong variants of the definition
below them, used to check that a property can fail (section 5).

## 3. Runs

Deadlock is checked in every run; the executor's only final state is the one after
`Shutdown` (`Terminated`).

| Run | Properties | Distinct states | What it shows |
|---|---|---|---|
| `guarded_driver` | `TypeOK` `PoweredMotion` `GuardCoversDriver` | 2 304 | all command types with payloads on both sides of each limit, mode switches, alarms, emergency stops |
| `control_lease` | `TypeOK` `ExclusiveControl` `PromiseKept` `NoReturnToOldLease` `ImplementsContract` | 748 815 | concurrent calls with old clock readings; refinement of the contract |
| `motion` | `TypeOK` `QueueMatchesRecords` `WorkerOwnsCommand` `StopsFirst` `SettledAfterShutdown` `StoppedMeansAtRest` | 2 423 559 | move, hold, stop while leases lapse and are released, driver calls fail, the emergency stop is pressed |
| `history` | `StopProgramSparesMotion` `OpenCommandsAreKept` `StopIsAccepted` | 4 666 103 | programs, a motion and a stop with history and queue at their limits, alarms |
| `jog` | `JogIsWatched` `QueueBounded` | 4 436 381 | a motion, a switch to manual mode, a jog with its heartbeat, failing calls, failing readings and timeouts; internal stops beyond the bound |
| `orphan_motion` | `OrphanMotionEnds` | 199 784 | liveness when a lease is released, or lapses and is replaced; the motion may be on hold |
| `endings` | `EveryCommandEnds` `ShutdownCompletes` `JogComesToRest` | 345 327 | liveness: the ledger drains, nobody waits for ever, the jog watchdog works, with commands that time out, lapsing leases and switches to manual mode |
| `efort` | `TypeOK` `HaltIsComplete` `RestIsTrue` `JogIsKnown` `NoSessionLeft` `StartsFromRest` | 8 981 815 | every command of the EFORT driver on a kept and possibly overtaken snapshot; one incident: a failing call, an alarm, an emergency stop, a lost link, a mode switch or a crash |
| `processes` | `NoOrphanRunning` `OneMotionAtATime` `IdempotencyConsistent` `NoCallOutlivesExecutor` `EndsClean` `ZeroMeansMoved` `ConfigIsUsable` `VerdictsAreFinal` `SignalEnds` | 378 856 | the programs from the document to the exit code: rival motions and retries of two RPC threads and a stream under a signal; `robotsh` under failing readings, lapsing leases and timeouts |

**Bounds.** `MaxQueue` is 1 or 2 and `MaxHistory` 2 or 3, so that the limits are met
with few commands; the defaults of the code, 16 and 4096, only make them rarer. A
history of two records with a queue of one is the smallest `Start` accepts.
`MaxCommands` (1 to 4) bounds the ids at which a client may still submit; internal
stops go beyond it. Three commands are enough for each interaction of queue, worker
and active motion: one active, one in the worker's hands, one queued. `MaxLeases` is
1 or 2: the second lease is the one that replaces the first. Each run switches on
the faults its question is about; the others are off to keep the run small. One RPC
thread suffices where its calls only need to interleave with worker and poll thread,
two where they race each other. The keys of a jog's first call and of its heartbeat
are interchangeable, which `jog` uses as a symmetry. In `control_lease` the clock runs far enough for a
reading to be older than the time to live.

In `efort` one thing goes wrong (`MaxIncidents` = 1): an SDK call that fails for no
visible reason, with or without effect, or an alarm, an emergency stop, a lost link, a
switch of the mode, or a crash. Motions and programs end, links come back and emergency
stops are released any number of times, and any number of calls fail because the link is
down, power is missing or the controller refuses. One incident is what leaves a stop, a
jog or a session half done; what a second one adds is covered by the histories, which
except from a property only what has failed, and by the theorems, which hold for any
number. `ReleaseControl` is not among the requests of the run, since `Shutdown` carries
it out; the proofs cover every set of requests.
Jogs go along two of the six axes, which is what a change of axis takes. In `processes`
the queue holds one command and the history two, `robotsh` gives its three commands
(`MaxCommands` = 3), and gRPC clients may begin calls until one id is used (`MaxCalls`
= 1), so that two threads meet between the two halves of `Submit` with rival motions or
with one key. Timeouts, lapsing leases and failing readings are switched off for
`robot_manager` (`Faultless`), whose endpoint reacts to none of them, and on for
`robotsh`, whose main thread waits for their consequences. The documents differ from
the site's own in one setting or two, one of which decides what else is needed:
every check of the loaders refuses one of them, and every one has a neighbour that is
accepted.

**Fairness** (`FairSpec`). Weak fairness of worker, poll and shutdown thread: the
operating system runs them, the mutexes are held for bounded times, and the poll
thread notifies the condition variable every period, so a missed notification only
delays the worker. Weak fairness of each RPC thread's pending steps: calls in
progress return. Weak fairness of the passage of time: motions end, grace periods,
jog deadlines pass and snapshots age. The timeouts of commands may be of any length:
one may pass at any moment or never (`CommandTimesOut` has no fairness). Nothing is assumed about clients (that they
submit, renew or release), about leases lapsing, about faults ending, or about
`Start` and `Shutdown` being called. The liveness runs have no failing driver calls:
with a stop that may fail for ever the properties cannot hold, and section 4 shows
what happens after one failure. In `processes` the main thread is weakly fair with the
steps of `Shutdown` it takes, so are worker, poll thread and handlers, and a deadline
passes and a cancelled stream ends; clients need not hang up, nothing makes a signal
arrive, and a robot that does not answer is not excluded: a program then gives up.
The liveness runs of the executor have no failing readings, which are followed in `jog`
and `processes`; and both leases of `orphan_motion` belong to one client, since what counts
for a motion is whether its own lease is the one in force.

## 4. Where code and documents disagree

Each of these runs ends in a counterexample. They record what documents say.

| Run | Claim | What the code does |
|---|---|---|
| `jog_watchdog_stuck` | an expired jog watchdog queues an internal stop (`docs/application_integration_zh.md:948`, `docs/design.md:791`) | `stop_requested_` stays set when an internal stop fails, and no other is queued |
| `shutdown_race` | ordinary commands end before the controlled stop (`docs/design.md:734`) | a command taken before starts a motion after the stop; the executor disconnects, and reports the motion as `Stopped` (`command_executor.cc:265-270`), the one exception of `StoppedMeansAtRest` |
| `early_success` | a motion succeeds when polling has confirmed that it is complete (`docs/application_integration_zh.md:226`) | after the grace period one late reading from before the motion is enough |

Observations without a run of their own:

* The cause of `jog_watchdog_stuck` also keeps a queued command `Queued` after its
  timeout when it waits behind a motion that timed out and whose internal stop failed;
  `tests/unit/robot_unit_tests.cc:370` expects a queued command to time out.
* `Resume` is admitted on the paused flag and the lease alone
  (`command_guard.cc:190`), also while an alarm is active; `docs/design.md:339` asks
  that the preconditions still hold.
* The queued commands of an expired lease are not cancelled, as
  `docs/application_integration_zh.md:214` says, but taken by the worker, and fail in
  the second validation.
* With `maximum_command_history = maximum_queue_size + 1`, which `Start` accepts, a
  stop can be refused because every record is open, after it displaced a command;
  `history` has one record more, and there `StopIsAccepted` holds.
* A command that a stop displaces may be pruned in the same critical section, so that
  its client gets "not found" (`OpenCommandsAreKept` names the case).
* A jog that is held and resumed continues as an ordinary motion of the mock and its
  heartbeats are refused (`Exempt` names it).
* EFORT: the cause of `early_success` also lets a path start on an arm that moves. A
  reading taken before a motion and published after its grace period ends the active
  motion, and the next command is admitted on that reading. `StartsFromRest` excepts it
  in two ways. `late` says that the snapshot in force was overtaken by a command before
  it was published; TLC finds such a trace with a single mode switch and nothing failed:
  a reading that says `READY` in automatic mode waits, a jog begins on the kept snapshot
  of manual mode, the reading is published, and a `MoveJ` is admitted while the axis
  jogs. `doubt` says that an overtaken or unhealthy reading has ended the active motion,
  so that the executor no longer knows of it, until a stop that succeeds.
* EFORT: `Disconnect` ignores the result of `DisconnectRobot` (`efort_driver.cc:173`) and
  forgets the session's id, and a `ConnectRobot` that fails is not followed by a
  disconnect (134-140). If the SDK has kept or opened a session then, it stays until the
  process ends: `stray` in `NoSessionLeft`.
* EFORT: `Stop` and `PowerOff` clear `paused_by_service_` before the calls that may
  fail (`efort_driver.cc:336`). After a failed stop a motion on hold is reported as an
  arm at rest, and a move would be admitted; `docs/application_integration_zh.md:1096`
  equates `PAUSED` with a motion on hold. A crash has the same effect, since only the
  process remembers the hold. `RestIsTrue` and `StartsFromRest` name both (`doubt`). A
  hold that races with the natural end of a motion leaves the flag set with nothing to
  resume, until the next stop.
* EFORT: `CallJog` forgets the jog although the SDK's stop failed
  (`efort_driver.cc:602`), and a jog whose start failed after it took effect was never
  recorded. No later stop calls the SDK for it. `JogIsKnown` names both (`lost`).
* EFORT: after an emergency stop `has_active_jog_` stays set, so that heartbeats are
  answered with success without an SDK call.
* EFORT: `StopProgram` clears the flag of a motion on hold; that it is never executed
  during another kind of motion (`StopProgramSparesMotion`) is what makes this harmless.
* EFORT: with `robot.axis_count` unset a site may have joint limits for other than six
  axes; every `MoveJ` is then refused by the guard or by the driver.
* The loader accepts a history that is no longer than the queue; `Start` refuses it,
  after the process has created the driver. An approved program may have an empty name,
  which the guard never admits.
* `robotsh` acquires one lease and never renews it: a motion that takes longer than
  `control_lease.ttl_ms` is stopped by the watchdog and reported as a failure. When
  interrupted it announces a stop but submits none; `Shutdown` stops the arm.
* An internal `Stop` has the default timeout of a request (`command.h:90`). When a driver
  call holds the worker longer than that, it ends `TimedOut` in the queue
  (`command_executor.cc:559`) without lowering `stop_requested_`, and the watchdogs are
  stuck as in `jog_watchdog_stuck`. The model lets the timeout of an internal stop pass
  only with the fault `delay`; the liveness runs of the executor are without it.
* A client whose certificate names it `robot-manager` and that uses the key
  `internal-stop-<n>` may share a key with an internal stop, whose pruning then forgets
  its entry; `RequestersAssumption` excludes it.
* A site that does not configure `robot.axis_count` may have more pairs of joint
  limits than the mock has axes; `AxisAssumption` excludes it.

## 5. Mutants

For every property of a passing run `PROJECT.json` names a mutant: a definition
changed the way a plausible mistake in the code would change it (a second look at the
idempotency map left out, a cancelled command left in the deque, a stop pushed to the
back, a deadline not looked at, a hold left out of a stop, a `Wait` that ends with the
deadline). With it TLC finds the property violated.

## 6. Proofs

The theorems hold for every value of the constants the named assumptions admit; the
runs check the same properties on small instances.

**Lease manager** (`ControlLeaseProofs`): `TypeCorrect`, `PromiseIsKept`,
`ControlIsExclusive`, `OldLeasesStayOld`, and `LeaseRefinesContract`, that
`ControlLease` implements `LeaseContract`. Assumed: the time to live is positive, the
bounds are natural numbers, nobody is called like the absent client. `PromiseKept`
alone is not inductive: a call whose clock reading is old may overwrite a lease, and
whether it may do so depends on what is stored. The inductive `LeaseInv` adds that no
pending reading is ahead of the clock (`CallsOK`), that the stored lease belongs to a
client and its id has been issued (`ActiveOK`), and that a promise that has not run
out is exactly the stored lease (`PromiseOK`). Exclusiveness follows because two
promises would be one and the same lease. The refinement maps a step that reads the
clock to a stutter and one that takes the mutex to a step of the contract.

**Guard and driver** (`GuardedDriverProofs`): `TypeCorrect`, `MotionIsPowered`,
`GuardIsStrict`. Assumed: the policy has the ranges the configuration loader enforces
(`PolicyAssumption`), NaN is not a number, the site's joint limits fit the controller
when they are verified (`AxisAssumption`), requests are well formed
(`RequestsAssumption`). `DriverInv` adds to the two invariants that the connection
stays and that the executor believes in a loaded program only when the driver has
one. One lemma per driver method shows that it keeps type and power rule;
`GuardIsStrict` goes through the command types.

**Executor** (`LedgerProofs`, `ExecutorProofs`): `DequeIsConsistent`,
`RunningIsOwned`, `WorkerKeepsItsCommand`, `MotionsAreExclusive`, `StopsGoFirst`,
`ShutdownSettles`, `VerdictsStay`, `TypesAreKept`. But for the last one nothing is assumed
about threads, clients, requests, faults, controllers or bounds. None of the invariants is inductive by
itself: whether finishing or dropping a record is harmless depends on who owns the
running commands. `Sound(b, w)` says of a ledger `b` and the command `w` in the
worker's hands that the deque and the records agree and ranks are those of
`push_front` and `push_back` (`QueueSound`), that a running command is `w` or the
active motion and these are not confused (`OwnersSound`), and that no two open
commands are motions (`MotionsSound`). `Follows(b, c)` says that ids are not used
again and verdicts stay, and is transitive. `LedgerProofs` shows for each operation on
the ledger that it keeps `Sound` and that its result follows its argument, so that a
critical section, a composition of them, does so too. `ExecutorInv` is `Sound` for
the worker's present command, the stages of the threads (`StagesOK`: Shutdown has
joined both threads before it settles the ledger, and nothing is accepted
afterwards), and `SettledAfterShutdown`. That the worker finds a command whenever one
may run, and a stop a command to displace, needs a least rank: it exists because the
order of the natural numbers is well founded. `TypesAreKept` needs more than types: a
driver call keeps the type of the controller only for a request the guard has admitted
(an output the policy names), and the jog belongs to a client because the service's own
requests are stops, so that `TypesInv` says of every record, and of every call between
the two critical sections of `Submit`, that its request is one or the other (`Lawful`).
Assumed there: `PolicyAssumption`, `DigitalIoAssumption`, `RequestersAssumption`,
`RobotsAssumption`.

**History** (`KeyProofs`): `KeysAgree`, `OpenCommandsStay`. Assumed: no client has the name of the
internal requester, and requests come from clients and have known types
(`RequestersAssumption`). That an entry leads to the record of its key is not inductive
without its converse, that every record with a client's key has its entry, and that a
call between the two critical sections of `Submit` carries a client's key
(`CallsSound`). `Keeps(b, c)` says that the map and the requests stay and that at most
internal stops are added; it is a preorder that all operations but two satisfy. `Insert`
adds a record with a new id under a key that `Accepts` has looked up in the same
critical section, and `Forget` removes records and their entries together, which is
sound because no other record has the same key. `OpenCommandsStay` follows step by step:
every step that `Keeps` drops nothing, and `SubmitEnqueue` drops only what was finished
when it began or what `MakeRoom` has just cancelled.

**Ledger and controller** (`MotionProofs`): `StopProgramIsHarmless`,
`NoJogIsUnwatched`, `StoppedMotionsRest`, `QueueIsBounded`, `StopsAreAccepted`. `MayRun` looks at the active motion once, when the worker takes the
command. `Mild(b, c)` says that no motion becomes active, the jog stays and no record
changes its request; every step but the worker's last, the end of `Shutdown` and the
passing of the jog deadline is mild (`LedgerStepIsMild`), so what was true when a
`StopProgram` was taken stays true until it is done. For the jog the invariant has to
speak of the worker's return from the driver: whoever comes back with a jog is about to
record it, and whoever comes back with the end of one, or a stop, has left none
(`JogInv`). One lemma per group of driver methods shows `Told`, what the worker may
conclude from a result. For `StoppedMotionsRest` the invariant says that a stop that came
back without error has left an arm neither moving nor on hold (`RestInv`), which no event of
the controller undoes (`RestLasts`); and every step but the completion of such a stop and
the end of `Shutdown` is `Silent`, reporting no motion stopped (`LedgerStepIsSilent`).
For `Shutdown` the arm counts as it was before `Disconnect` reset the mock. Between its
stop and that moment only the command the worker held may move the arm, since the worker
takes no other once the flag is up: if the arm does not rest then, the active motion is
that command or none (`BegunLate`), and the property excepts that command by name. Assumed: a driver is not connected and knows of no jog when the
executor is made with it (`RobotsAssumption`).

`QueueIsBounded` counts two kinds of commands. Those of clients keep to `MaxQueue`.
Internal stops do not look at the bound; `stop_requested_` keeps them to one at a time,
but a motion that starts lowers it, and so do the success of the active motion and the
end of a `StopProgram`, while earlier stops still wait. `Bill` therefore adds to the
internal stops in the queue those that may join them before the worker takes one
(`StopsToCome`): how many depends on whether a motion is active, a jog recorded and the
flag up, and on the type of the command in the worker's hands. Every step leaves the sum
at three at most (`QueueInv`).

`StopsAreAccepted` has a hypothesis of its own, `MaxHistory > MaxQueue + 1`, without
which it is false: section 4 observes that with the smallest history `Start` accepts a
stop can be refused. One record more is enough, because after `MakeRoom` fewer than
`MaxQueue` commands are queued, and of those that are not only the worker's and the
active motion are open; so a finished record is left to be pruned, or there is room
without (`OpenAreCounted`, `PruneMakesRoom`).

**EFORT driver** (`EfortProofs`): `DriverInvariant`, `DriverTypes`, `HaltsAreComplete`,
`ReadingsOfRestAreTrue`, `JogsAreKnown`, `SessionsAreClosed`, `StartsAreFromRest`. A
method is interrupted after each SDK call: the controller goes on, the call may fail
although it took effect, the process may crash. What holds when `Stop` returns is therefore not
inductive. `DriverInv` says for each method what is known at each call it has yet to make
(`StopStage`, `ConnectStage` and their neighbours), for the reading that waits and for the
snapshot in force what they still say truly (`ReadingKnown`, `LatestKnown`), and between
methods what the driver's fields say of the controller. For `StartsAreFromRest` the guard
is not enough, since its snapshot may be older than the last command. `LatestKnown` says
that while the snapshot in force admits a motion (`Admissible`) and no command had
overtaken it, no axis jogs that should not, and whatever else is under way is the
executor's active motion, `doubt` apart: on such a snapshot the guard admits no jog, hold
or resume, and a motion becomes active. A command that passes both `MayRun` and
`Validate` therefore finds nothing on (`FromRest`), and every call before `MJOINT` keeps
that. For `SessionsAreClosed` the invariant says that a connected driver
has a session and that one without a driver is `stray` (`Connected`). Assumed: the bound
on incidents is a natural number (`IncidentsAssumption`), and requests have known types
and, for a jog, an integer axis and a Boolean start, as their protobuf messages have
(`RequestsAssumption`). The assumptions
on the controller, listed at the head of `EfortDriver`, are part of the model.

**Programs** (`ProcessProofs`): `LoadedConfigIsUsable`, `NoCallIsLeft`,
`ProgramsEndClean`, `SuccessIsEarned`. Assumed: what the scalar parsers return (`DocumentsAssumption`), that
`robotsh` is a client and there is a thread (`ShellAssumption`), `RobotsAssumption`. The
first follows from the checks of the loaders alone and discharges `PolicyAssumption` for
every policy a process runs with, and `AxisAssumption` where `robot.axis_count` is set.
The second needs that a server which is not running has no handler in progress, and that
`robotsh` leaves only between calls. The third
combines `ExecutorInv` with the positions of the main thread: before `Start` nothing has
happened, and after `Shutdown` the ledger is settled. For `SuccessIsEarned` the record of
the succeeded `MoveJ` must still be there when `robotsh` leaves: only `Submit` forgets
records, and the thread that would submit is the one that waits (`ShellInv`).

**Only model-checked**: liveness (fairness and `ENABLED` are out of the prover's
reach) and the counterexamples of section 4. Every invariant and every action property a
run checks is also a theorem.

## 7. What is not modelled, and the plan

Not modelled: `robotctl` and the examples (one call each, as any client makes it), the
text of YAML documents and command lines, the field by field copies between messages and
types, the error texts and codes of `MapEfortError` (no property tells them apart),
generated code, build and deployment. `Authorize` and `ValidateRobotId` only refuse.
In `Processes` gRPC clients neither renew nor release leases: those calls are followed
in the runs of `CommandExecutor`. Driver calls do not fail in `Processes`, so that it
says nothing of the time a stop takes: the unit file allows ten seconds
(`TimeoutStopSec`), five of which the endpoint may use before the arm is stopped.

In this order:

1. An abstract specification of the ledger as a client sees it (a command is accepted
   once, has one verdict, is forgotten only afterwards), refined by `CommandExecutor`,
   with a proof from `ExecutorInv` and `KeysInv`.
2. An abstract driver contract that the mock and the EFORT driver implement, and the
   executor's watchdog and stop properties over a driver that stops half way.
3. The replies of retries (`PayloadsEqual`, an evicted record) and of deadlines that
   pass on the client's side.
