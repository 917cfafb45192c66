-------------------------- MODULE CommandExecutor ---------------------------
(***************************************************************************)
(* CommandExecutor (src/src/control/command_executor.cc): the worker       *)
(* thread, the poll thread, the thread that shuts the service down, and    *)
(* the RPC threads that submit commands and manage leases, around one      *)
(* robot.                                                                  *)
(*                                                                         *)
(* A step is one critical section of mutex_, one driver call (under        *)
(* driver_mutex_) or one reading of the lease manager.  The guard reads a  *)
(* snapshot copied in one step and the validity of a lease read in a later *)
(* one; between the two a thread keeps admits, the set of answers of the   *)
(* lease manager with which Validate accepts the command.                  *)
(***************************************************************************)
EXTENDS MockDriver, LeaseContract, CommandLedger

CONSTANTS Threads,       \* RPC threads
          Requests,      \* command requests, apart from the lease they name
          InitialRobots, \* controller states the service may connect to
          Faults,        \* what may go wrong, see the environment below
          MaxCommands,   \* bound: no Submit begins once this many ids are used
          MaxLeases      \* bound on the number of leases granted

\* No client goes by the name under which the service files its internal stops.
ASSUME RequestersAssumption ==
    /\ "robot-manager" \notin Clients
    /\ \A r \in Requests : r.client \in Clients /\ r.type \in CommandTypes

\* A driver is not connected when the executor is constructed with it, and does
\* not know of a jog.
ASSUME RobotsAssumption ==
    \A r \in InitialRobots : r \in Robots /\ ~r.connected /\ ~r.jog_active

VARIABLES book,          \* the ledger guarded by mutex_
          running, shutting_down, started_once,
          latest,        \* latest_state_
          stale,         \* the last successful reading is too old
          loaded,        \* loaded_approved_program_
          robot,         \* state of driver and controller
          worker,        \* WorkerLoop
          poll,          \* PollLoop
          shutdown,      \* Shutdown
          rpc            \* the RPC threads

flags    == <<running, shutting_down, started_once>>
snapshot == <<latest, stale>>
vars     == <<book, flags, snapshot, loaded, robot, worker, poll, shutdown, rpc,
              leaseVars>>

IdleWorker == [pc |-> "idle", id |-> 0, admits |-> {}, ok |-> FALSE]
IdlePoll   == [pc |-> "check", ok |-> FALSE, reading |-> NoSnapshot]
IdleRpc    == [pc |-> "idle", req |-> InternalStop, admits |-> {}]

\* Two fields are history: the command the worker had still to execute when the
\* driver was stopped, and whether the arm was at rest when it was disconnected.
NoShutdown == [pc |-> "none", ok |-> FALSE, after |-> 0, rest |-> FALSE]

Init == /\ book = EmptyLedger
        /\ running = FALSE /\ shutting_down = FALSE /\ started_once = FALSE
        /\ latest = NoSnapshot
        /\ stale = FALSE
        /\ loaded = ""
        /\ robot \in InitialRobots
        /\ worker = [IdleWorker EXCEPT !.pc = "off"]
        /\ poll = [IdlePoll EXCEPT !.pc = "off"]
        /\ shutdown = NoShutdown
        /\ rpc = [t \in Threads |-> IdleRpc]
        /\ LeaseInit

\* CommandGuard::Validate on the cached snapshot, for each answer the lease
\* manager may give.
Admits(req) ==
    {valid \in BOOLEAN : Validate(req, latest, valid, book.jog.active) = "Ok"}

HoldsLease(req) == IsValid(req.lease, req.client)

\* A driver call: what the driver does, or an error of the vendor's SDK that
\* leaves the controller as it was.
Outcomes(result) ==
    {result} \cup (IF "call" \in Faults THEN {Refuse(robot)} ELSE {})

-----------------------------------------------------------------------------
\* Start.  When the connection, the first reading or a thread fails, everything
\* is undone and the state is the initial one again: a stuttering step.
Start == /\ ~running /\ ~started_once
         /\ LET connected == Connect(robot).robot IN
               /\ robot' = connected
               /\ latest' = Snapshot(connected)
         /\ running' = TRUE /\ shutting_down' = FALSE /\ started_once' = TRUE
         /\ worker' = IdleWorker
         /\ poll' = IdlePoll
         /\ UNCHANGED <<book, stale, loaded, shutdown, rpc, leaseVars>>

\* Shutdown: flag, controlled stop, join, disconnect, settle the ledger.
ShutdownBegin ==
    /\ running
    /\ running' = FALSE /\ shutting_down' = TRUE
    /\ shutdown' = [shutdown EXCEPT !.pc = "flagged"]
    /\ UNCHANGED <<book, started_once, snapshot, loaded, robot, worker, poll, rpc,
                   leaseVars>>

ShutdownStop ==
    /\ shutdown.pc = "flagged"
    /\ \E result \in Outcomes(Stop(robot, "Controlled")) :
          /\ robot' = result.robot
          /\ shutdown' = [shutdown EXCEPT
                !.pc = "stopped", !.ok = result.ok,
                !.after = IF worker.pc \in {"taken", "snapshot", "execute"}
                          THEN worker.id ELSE 0]
    /\ UNCHANGED <<book, flags, snapshot, loaded, worker, poll, rpc, leaseVars>>

\* The arm neither moves nor waits on hold.
Rests(r) == ~r.moving /\ ~r.paused

ShutdownDisconnect ==
    /\ shutdown.pc = "stopped"
    /\ worker.pc = "exited" /\ poll.pc = "exited"
    /\ robot' = Disconnect(ReleaseControl(robot).robot).robot
    /\ shutdown' = [shutdown EXCEPT !.pc = "disconnected", !.rest = Rests(robot)]
    /\ UNCHANGED <<book, flags, snapshot, loaded, worker, poll, rpc, leaseVars>>

\* Mutant: the active motion is settled only when the stop succeeded.
SettledIfStopped(b, stopped) ==
    LET cancelled == CancelCommandsForShutdownLocked(b) IN
    [ClearActiveJogLocked(IF stopped THEN CompleteActiveMotionLocked(cancelled, "Stopped")
                                     ELSE cancelled)
        EXCEPT !.stop_requested = FALSE]

\* The last critical section of Shutdown.
Settled(b, stopped) ==
    [ClearActiveJogLocked(
        CompleteActiveMotionLocked(CancelCommandsForShutdownLocked(b),
                                   IF stopped THEN "Stopped" ELSE "Failed"))
        EXCEPT !.stop_requested = FALSE]

ShutdownFinish ==
    /\ shutdown.pc = "disconnected"
    /\ book' = Settled(book, shutdown.ok)
    /\ shutdown' = [shutdown EXCEPT !.pc = "done"]
    /\ UNCHANGED <<flags, snapshot, loaded, robot, worker, poll, rpc, leaseVars>>

-----------------------------------------------------------------------------
\* The lease calls.  Acquire and Renew look at running_ and then call the lease
\* manager without mutex_: the call may take effect at any later time.  A renewal
\* in time changes nothing here, so renewals matter only where leases may lapse.
AcquireControlLease(c) ==
    /\ started_once
    /\ issued < MaxLeases
    /\ Grant(c)
    /\ "lease" \notin Faults => live'
    /\ UNCHANGED <<book, flags, snapshot, loaded, robot, worker, poll, shutdown, rpc>>

RenewControlLease(l, c) ==
    /\ started_once
    /\ "lease" \in Faults
    /\ Extend(l, c)
    /\ UNCHANGED <<book, flags, snapshot, loaded, robot, worker, poll, shutdown, rpc>>

ReleaseControlLease(t, l, c) ==
    /\ rpc[t].pc = "idle"
    /\ Return(l, c)
    /\ rpc' = [rpc EXCEPT ![t] =
                  [pc |-> "release", admits |-> {},
                   req |-> [InternalStop EXCEPT !.lease = l, !.client = c]]]
    /\ UNCHANGED <<book, flags, snapshot, loaded, robot, worker, poll, shutdown>>

\* The second half of ReleaseControlLease, under mutex_.
Released(b, req) ==
    LET cancelled == CancelQueuedCommandsForLeaseLocked(b, req.lease, req.client)
    IN IF running /\ (b.active # 0 \/ b.jog.active)
       THEN RequestInternalStopLocked(cancelled)
       ELSE cancelled

ReleaseCancel(t) ==
    /\ rpc[t].pc = "release"
    /\ book' = Released(book, rpc[t].req)
    /\ rpc' = [rpc EXCEPT ![t] = IdleRpc]
    /\ UNCHANGED <<flags, snapshot, loaded, robot, worker, poll, shutdown, leaseVars>>

\* Submit, first critical section.  A call that finds the executor stopped or its
\* key in use returns without changing anything, and so does one the guard
\* refuses whatever the lease.
SubmitBegin(t, req) ==
    /\ rpc[t].pc = "idle"
    /\ running /\ ~shutting_down
    /\ IdempotencyMapKey(req) \notin DOMAIN book.idempotency
    /\ book.next_id <= MaxCommands
    /\ Admits(req) # {}
    /\ rpc' = [rpc EXCEPT ![t] = [pc |-> "validate", req |-> req,
                                  admits |-> Admits(req)]]
    /\ UNCHANGED <<book, flags, snapshot, loaded, robot, worker, poll, shutdown,
                   leaseVars>>

\* The lease is read outside mutex_.
SubmitValidate(t) ==
    /\ rpc[t].pc = "validate"
    /\ rpc' = [rpc EXCEPT ![t] = IF HoldsLease(rpc[t].req) \in rpc[t].admits
                                 THEN [rpc[t] EXCEPT !.pc = "enqueue",
                                                     !.admits = {}]
                                 ELSE IdleRpc]
    /\ UNCHANGED <<book, flags, snapshot, loaded, robot, worker, poll, shutdown,
                   leaseVars>>

\* Mutant: only the active motion counts, not one that is queued or starting.
MotionActive(b) == b.active # 0

\* Submit, second critical section: the conditions are looked at again.
MotionPending(b) == \E id \in OpenCommands(b) : Type(b, id) \in MotionTypes

\* Mutant: a Stop needs room like any other command.
HasRoomForAll(b, req) == QueueSize(b) < MaxQueue

HasRoom(b, req) ==
    \/ QueueSize(b) < MaxQueue
    \/ req.type = "Stop" /\ Ordinary(b) # {}

\* Mutant: the key is looked up in the first critical section only.
AcceptsWithoutRecheck(b, req) ==
    /\ running /\ ~shutting_down
    /\ req.type \in MotionTypes => ~MotionPending(b)
    /\ req.type = "StartProgram" => loaded # ""
    /\ HasRoom(b, req)

Accepts(b, req) ==
    /\ running /\ ~shutting_down
    /\ IdempotencyMapKey(req) \notin DOMAIN b.idempotency
    /\ req.type \in MotionTypes => ~MotionPending(b)
    /\ req.type = "StartProgram" => loaded # ""
    /\ HasRoom(b, req)

\* A Stop displaces the newest ordinary command of a full queue.
MakeRoom(b) ==
    IF QueueSize(b) < MaxQueue THEN b
    ELSE Dequeue(Finish(b, {NewestOrdinary(b)}, "Cancelled"), {NewestOrdinary(b)})

\* Mutant: a Stop is pushed to the back.
InsertAtBack(b, req) ==
    LET key == IdempotencyMapKey(req) IN
    [Enqueue(b, req, Back(b.next_id)) EXCEPT
        !.idempotency = [k \in DOMAIN b.idempotency \cup {key} |->
                            IF k = key THEN b.next_id ELSE b.idempotency[k]]]

Insert(b, req) ==
    LET rank   == IF req.type = "Stop" THEN Front(b.next_id) ELSE Back(b.next_id)
        key    == IdempotencyMapKey(req)
    IN [Enqueue(b, req, rank) EXCEPT
           !.idempotency = [k \in DOMAIN b.idempotency \cup {key} |->
                               IF k = key THEN b.next_id ELSE b.idempotency[k]]]

SubmitEnqueue(t) ==
    /\ rpc[t].pc = "enqueue"
    /\ rpc' = [rpc EXCEPT ![t] = IdleRpc]
    /\ \/ /\ Accepts(book, rpc[t].req)
          /\ \E pruned \in PruneCommandHistoryLocked(MakeRoom(book)) :
                book' = IF Cardinality(DOMAIN pruned.commands) >= MaxHistory
                        THEN pruned
                        ELSE Insert(pruned, rpc[t].req)
       \/ /\ ~Accepts(book, rpc[t].req)
          /\ UNCHANGED book
    /\ UNCHANGED <<flags, snapshot, loaded, robot, worker, poll, shutdown, leaseVars>>

-----------------------------------------------------------------------------
\* WorkerLoop, first critical section: take the first command that may run.
WorkerTake ==
    /\ worker.pc = "idle" /\ ~shutting_down
    /\ Executable(book) # {}
    /\ LET id    == FindExecutableCommandLocked(book)
           taken == Dequeue(book, {id})
       IN IF book.commands[id].late
          THEN /\ book' = Finish(taken, {id}, "TimedOut")
               /\ UNCHANGED worker
          ELSE /\ book' = [taken EXCEPT !.commands[id].state = "Running"]
               /\ worker' = [worker EXCEPT !.pc = "taken", !.id = id]
    /\ UNCHANGED <<flags, snapshot, loaded, robot, poll, shutdown, rpc, leaseVars>>

WorkerExit ==
    /\ worker.pc = "idle" /\ shutting_down
    /\ worker' = [worker EXCEPT !.pc = "exited"]
    /\ UNCHANGED <<book, flags, snapshot, loaded, robot, poll, shutdown, rpc,
                   leaseVars>>

\* The second validation: copy the snapshot, then read the lease.
WorkerSnapshot ==
    /\ worker.pc = "taken"
    /\ worker' = [worker EXCEPT !.pc = "snapshot",
                                !.admits = Admits(book.commands[worker.id].req)]
    /\ UNCHANGED <<book, flags, snapshot, loaded, robot, poll, shutdown, rpc,
                   leaseVars>>

WorkerValidate ==
    /\ worker.pc = "snapshot"
    /\ LET req == book.commands[worker.id].req
           ok  == /\ HoldsLease(req) \in worker.admits
                  /\ req.type = "StartProgram" => loaded # ""
       IN worker' = [worker EXCEPT !.pc = IF ok THEN "execute" ELSE "complete",
                                   !.admits = {}]
    /\ UNCHANGED <<book, flags, snapshot, loaded, robot, poll, shutdown, rpc,
                   leaseVars>>

WorkerExecute ==
    /\ worker.pc = "execute"
    /\ \E result \in Outcomes(Execute(robot, book.commands[worker.id].req)) :
          /\ robot' = result.robot
          /\ worker' = [worker EXCEPT !.pc = "complete", !.ok = result.ok]
    /\ UNCHANGED <<book, flags, snapshot, loaded, poll, shutdown, rpc, leaseVars>>

\* WorkerLoop, last critical section.
WorkerComplete ==
    /\ worker.pc = "complete"
    /\ LET req == book.commands[worker.id].req IN
       IF worker.ok
       THEN /\ book' = Completed(book, worker.id, HoldsLease(req))
            /\ loaded' = IF req.type = "LoadProgram" THEN req.payload.name ELSE loaded
       ELSE /\ book' = Finish(book, {worker.id}, "Failed")
            /\ UNCHANGED loaded
    /\ worker' = IdleWorker
    /\ UNCHANGED <<flags, snapshot, robot, poll, shutdown, rpc, leaseVars>>

-----------------------------------------------------------------------------
\* Mutant: the poll thread does not look at shutting_down_.
PollCheckForever ==
    /\ poll.pc = "check"
    /\ poll' = [poll EXCEPT !.pc = "read"]
    /\ UNCHANGED <<book, flags, snapshot, loaded, robot, worker, shutdown, rpc,
                   leaseVars>>

\* PollLoop: look at shutting_down_, read the controller, publish.
PollCheck ==
    /\ poll.pc = "check"
    /\ poll' = [poll EXCEPT !.pc = IF shutting_down THEN "exited" ELSE "read"]
    /\ UNCHANGED <<book, flags, snapshot, loaded, robot, worker, shutdown, rpc,
                   leaseVars>>

PollRead ==
    /\ poll.pc = "read"
    /\ \/ LET fresh == RefreshMotionLocked(robot) IN
          /\ robot' = fresh
          /\ poll' = [pc |-> "publish", ok |-> TRUE, reading |-> Snapshot(fresh)]
       \/ /\ "read" \in Faults
          /\ poll' = [poll EXCEPT !.pc = "publish"]
          /\ UNCHANGED robot
    /\ UNCHANGED <<book, flags, snapshot, loaded, worker, shutdown, rpc, leaseVars>>

\* Mutant: any client's lease will do.
SomeLeaseIsValid(b) == live

ActiveMotionLeaseIsValidLocked(b) ==
    b.active \in DOMAIN b.commands /\ HoldsLease(b.commands[b.active].req)

\* Mutant: the deadline of the jog is not looked at.
WatchedLeaseOnly(b) ==
    IF \/ b.active # 0 /\ ~ActiveMotionLeaseIsValidLocked(b)
       \/ b.jog.active /\ ~IsValid(b.jog.lease, b.jog.client)
    THEN RequestInternalStopLocked(b) ELSE b

\* The watchdogs on the lease of the active motion and on the jog.
Watched(b) ==
    LET orphaned == b.active # 0 /\ ~ActiveMotionLeaseIsValidLocked(b)
        runaway  == b.jog.active /\ (b.jog.due \/ ~IsValid(b.jog.lease, b.jog.client))
    IN IF orphaned \/ runaway THEN RequestInternalStopLocked(b) ELSE b

PollPublish ==
    /\ poll.pc = "publish"
    /\ latest' = IF poll.ok THEN poll.reading
                 ELSE IF stale THEN [latest EXCEPT !.lifecycle = "Unknown"]
                 ELSE latest
    /\ stale' = (stale /\ ~poll.ok)
    /\ book' = Watched(IF poll.ok \/ stale
                       THEN UpdateActiveMotionLocked(book, latest') ELSE book)
    /\ poll' = IdlePoll
    /\ UNCHANGED <<flags, loaded, robot, worker, shutdown, rpc, leaseVars>>

-----------------------------------------------------------------------------
\* The environment: time, and the world at the other end of the driver.
LeaseLapses == /\ "lease" \in Faults
               /\ Lapse
               /\ UNCHANGED <<book, flags, snapshot, loaded, robot, worker, poll,
                              shutdown, rpc>>

\* Internal stops have a timeout, too, which passes when the worker is delayed by
\* more than the default of 30 seconds.
CommandTimesOut(id) ==
    /\ "timeout" \in Faults
    /\ book.commands[id].req = InternalStop => "delay" \in Faults
    /\ IsOpen(book, id) /\ ~book.commands[id].late
    /\ book' = [book EXCEPT !.commands[id].late = TRUE]
    /\ UNCHANGED <<flags, snapshot, loaded, robot, worker, poll, shutdown, rpc,
                   leaseVars>>

GracePasses == /\ book.active # 0 /\ ~book.grace
               /\ book' = [book EXCEPT !.grace = TRUE]
               /\ UNCHANGED <<flags, snapshot, loaded, robot, worker, poll, shutdown,
                              rpc, leaseVars>>

JogDeadlinePasses == /\ book.jog.active /\ ~book.jog.due
                     /\ book' = [book EXCEPT !.jog.due = TRUE]
                     /\ UNCHANGED <<flags, snapshot, loaded, robot, worker, poll,
                                    shutdown, rpc, leaseVars>>

SnapshotAges == /\ "read" \in Faults
                /\ running /\ ~stale
                /\ stale' = TRUE
                /\ UNCHANGED <<book, flags, latest, loaded, robot, worker, poll,
                               shutdown, rpc, leaseVars>>

MotionEnds == /\ robot.moving /\ ~robot.jog_active /\ ~robot.motion_due
              /\ robot' = [robot EXCEPT !.motion_due = TRUE]
              /\ UNCHANGED <<book, flags, snapshot, loaded, worker, poll, shutdown,
                             rpc, leaseVars>>

ControllerEvent ==
    /\ robot.connected
    /\ \/ "estop" \in Faults /\ \E on \in BOOLEAN : robot' = SetEmergencyStop(robot, on)
       \/ "alarm" \in Faults /\ robot' = SetAlarm(robot, TRUE)
       \/ \E mode \in {"Manual", "Automatic"} \cap Faults :
             robot' = SetControllerMode(robot, mode)
    /\ UNCHANGED <<book, flags, snapshot, loaded, worker, poll, shutdown, rpc,
                   leaseVars>>

\* Everything has ended.
Terminated == shutdown.pc = "done" /\ UNCHANGED vars

-----------------------------------------------------------------------------
\* A client names a lease that was granted, maybe an old one; a Stop names none.
WithLease(r, l) == [type |-> r.type, payload |-> r.payload, client |-> r.client,
                    key |-> r.key, lease |-> l]

Submissions == {WithLease(r, 0) : r \in {q \in Requests : q.type = "Stop"}} \cup
               {WithLease(r, l) : r \in {q \in Requests : q.type # "Stop"},
                                  l \in 1..issued}

Service == Start \/ ShutdownBegin
ShutdownSteps == ShutdownStop \/ ShutdownDisconnect \/ ShutdownFinish
RpcSteps(t) == ReleaseCancel(t) \/ SubmitValidate(t) \/ SubmitEnqueue(t)
Calls ==
    \/ \E c \in Clients : AcquireControlLease(c)
    \/ \E c \in Clients, l \in 1..issued : RenewControlLease(l, c)
    \/ \E t \in Threads, c \in Clients, l \in 1..issued : ReleaseControlLease(t, l, c)
    \/ \E t \in Threads, req \in Submissions : SubmitBegin(t, req)
Worker == WorkerTake \/ WorkerExit \/ WorkerSnapshot \/ WorkerValidate
          \/ WorkerExecute \/ WorkerComplete
Poll == PollCheck \/ PollRead \/ PollPublish
Environment == \/ LeaseLapses \/ GracePasses \/ JogDeadlinePasses \/ SnapshotAges
               \/ MotionEnds \/ ControllerEvent
               \/ \E id \in DOMAIN book.commands : CommandTimesOut(id)

Next == \/ Service \/ ShutdownSteps
        \/ Calls \/ \E t \in Threads : RpcSteps(t)
        \/ Worker \/ Poll \/ Environment \/ Terminated

Spec == Init /\ [][Next]_vars

\* The service's threads run, RPC calls return, and time passes.
Fairness == /\ WF_vars(Worker) /\ WF_vars(Poll) /\ WF_vars(ShutdownSteps)
            /\ \A t \in Threads : WF_vars(RpcSteps(t))
            /\ WF_vars(MotionEnds) /\ WF_vars(GracePasses) /\ WF_vars(JogDeadlinePasses)
            /\ WF_vars(SnapshotAges)

FairSpec == Spec /\ Fairness
-----------------------------------------------------------------------------
RequestShape(req) ==
    /\ req.type \in CommandTypes
    /\ req.client \in Clients \cup {"robot-manager"}
    /\ req.lease \in Nat

LedgerOK(b) ==
    /\ DOMAIN b.commands \subseteq 1..(b.next_id - 1)
    /\ \A id \in DOMAIN b.commands :
          /\ RequestShape(b.commands[id].req)
          /\ b.commands[id].state \in CommandStates
          /\ b.commands[id].late \in BOOLEAN
          /\ b.commands[id].ended \in Nat
    /\ \A id \in DOMAIN b.queue : b.queue[id] \in {Front(id), Back(id)}
    /\ b.next_id \in Nat \ {0} /\ b.ticks \in Nat
    /\ b.active \in 0..(b.next_id - 1)
    /\ b.seen \in BOOLEAN /\ b.grace \in BOOLEAN /\ b.stop_requested \in BOOLEAN
    /\ b.jog \in [active : BOOLEAN, client : Clients \cup {""}, lease : Nat,
                   due : BOOLEAN]

\* Every variable keeps its type.
TypeOK ==
    /\ LedgerOK(book)
    /\ running \in BOOLEAN /\ shutting_down \in BOOLEAN /\ started_once \in BOOLEAN
    /\ latest \in Snapshots /\ stale \in BOOLEAN
    /\ robot \in Robots
    /\ worker.pc \in {"off", "idle", "taken", "snapshot", "execute", "complete",
                      "exited"}
    /\ worker.id \in Nat /\ worker.admits \subseteq BOOLEAN /\ worker.ok \in BOOLEAN
    /\ poll.pc \in {"off", "check", "read", "publish", "exited"}
    /\ poll.reading \in Snapshots
    /\ shutdown.pc \in {"none", "flagged", "stopped", "disconnected", "done"}
    /\ \A t \in Threads : rpc[t].pc \in {"idle", "release", "validate", "enqueue"}

WorkerBusy == worker.pc \in {"taken", "snapshot", "execute", "complete"}

\* The deque holds exactly the commands whose record says Queued: none is queued
\* twice, dropped from the deque without a verdict, or left in it after one.
QueueMatchesRecords ==
    DOMAIN book.queue = {id \in DOMAIN book.commands : State(book, id) = "Queued"}

\* A command that is Running is in somebody's hands: the worker's, or it is the
\* active motion the poll thread watches.  No command stays Running for ever
\* because two critical sections each thought the other would finish it.
NoOrphanRunning ==
    \A id \in DOMAIN book.commands :
        State(book, id) = "Running" =>
            (WorkerBusy /\ worker.id = id) \/ book.active = id

\* What the worker executes is still there and still Running when it comes back
\* from the driver: pruning, cancelling, displacing and shutting down never touch
\* the command in its hands, and no other motion has become active meanwhile.
WorkerOwnsCommand ==
    WorkerBusy =>
        /\ worker.id \in DOMAIN book.commands
        /\ State(book, worker.id) = "Running"
        /\ Type(book, worker.id) \in MotionTypes => book.active = 0

\* At most one motion command is queued, running or active at any time, although
\* Submit checks for one in a critical section of its own.
OneMotionAtATime ==
    \A i, j \in OpenCommands(book) :
        Type(book, i) \in MotionTypes /\ Type(book, j) \in MotionTypes => i = j

\* Every Stop, internal or from a client, is ahead of every other command.
StopsFirst ==
    \A i, j \in DOMAIN book.queue :
        Type(book, i) = "Stop" /\ Type(book, j) # "Stop" => book.queue[i] < book.queue[j]

\* The idempotency map and the history agree: each entry leads to the record of
\* that key, and each record of a client is found under its key, so that a retry
\* never creates a second command while the first is remembered.
IdempotencyConsistent ==
    /\ \A k \in DOMAIN book.idempotency :
          /\ book.idempotency[k] \in DOMAIN book.commands
          /\ IdempotencyMapKey(book.commands[book.idempotency[k]].req) = k
    /\ \A id \in DOMAIN book.commands :
          book.commands[id].req.client \in Clients =>
              LET k == IdempotencyMapKey(book.commands[id].req) IN
              k \in DOMAIN book.idempotency /\ book.idempotency[k] = id

\* The bound of the queue is exceeded by internal stops alone, and by no more than
\* three: one for a jog, one more when a motion that was starting meanwhile lowers
\* stop_requested_, and one more when that motion's success lowers it again.
QueueBounded == QueueSize(book) <= MaxQueue + 3

\* After Shutdown every command has a final verdict.
SettledAfterShutdown == shutdown.pc = "done" => OpenCommands(book) = {}

\* A verdict is final: no late completion, timeout, cancellation or shutdown
\* changes a command that has ended.
VerdictsAreFinal ==
    [][\A id \in DOMAIN book.commands \cap DOMAIN book'.commands :
          State(book, id) \in Terminal => State(book', id) = State(book, id)]_vars

\* A command without a verdict is never dropped from the history, with one
\* exception: the command a Stop displaces from a full queue is cancelled and may
\* be pruned in the same critical section, when no older record has finished.
OpenCommandsAreKept ==
    [][\A id \in OpenCommands(book) \ DOMAIN book'.commands :
          QueueSize(book) >= MaxQueue /\ id = NewestOrdinary(book)]_vars

\* What is known of the arm when a verdict is given.  Shutdown gives its verdict
\* when the driver is disconnected: there the arm as it was just before counts.
ArmRests == IF shutdown.pc = "disconnected" THEN shutdown.rest ELSE Rests(robot)

\* A motion is reported Stopped only when the arm has come to rest: the driver's
\* stop and the verdict are two steps with everything else in between.  One case is
\* known: Shutdown reports so, too, the motion the worker began after that stop.
StoppedMeansAtRest ==
    [][\A id \in OpenCommands(book) \cap DOMAIN book'.commands :
          /\ Type(book, id) \in MotionTypes
          /\ State(book', id) = "Stopped"
          => \/ ArmRests
             \/ shutdown.pc = "disconnected" /\ id = shutdown.after]_vars

\* A jogging controller is known to the watchdog, or the worker is about to tell
\* it: no order of heartbeats, stops and failures leaves a jog nobody watches.
JogIsWatched ==
    robot.moving /\ robot.jog_active =>
        \/ book.jog.active
        \/ worker.pc = "complete" /\ Type(book, worker.id) = "Jog"

\* StopProgram halts whatever moves, so it must not be executed while another kind
\* of motion is active: the poll thread would report that motion as Succeeded.
StopProgramSparesMotion ==
    WorkerBusy /\ Type(book, worker.id) = "StopProgram" =>
        \/ book.active \notin DOMAIN book.commands
        \/ Type(book, book.active) = "StartProgram"

\* A Stop is pending: queued, or in the hands of the worker.
StopPending(b) == \E id \in OpenCommands(b) : Type(b, id) = "Stop"

\* A Stop that passed the guard is queued, or another Stop already is, whatever
\* fills the queue and the history.
StopIsAccepted ==
    [][\A t \in Threads :
          /\ rpc[t].pc = "enqueue" /\ rpc'[t].pc = "idle"
          /\ rpc[t].req.type = "Stop" /\ running
          /\ IdempotencyMapKey(rpc[t].req) \notin DOMAIN book.idempotency
          => StopPending(book')]_vars

\* Every command ends: once no more are submitted, the ledger drains.
EveryCommandEnds == OpenCommands(book) # {} ~> OpenCommands(book) = {}

\* A shutdown that began completes: nobody waits for somebody who waits for him.
ShutdownCompletes == shutting_down ~> shutdown.pc = "done"

\* The lease of the active motion was given back or replaced.
Orphaned == /\ book.active \in DOMAIN book.commands
            /\ book.commands[book.active].req.lease # lease

\* A motion whose lease is gone does not stay active, not even on hold and not
\* even when another lease has been granted by then.
OrphanMotionEnds == Orphaned ~> book.active = 0

\* A jog comes to rest once its heartbeats stop, as they do when no more commands
\* are submitted.
JogComesToRest == robot.jog_active ~> ~robot.jog_active
=============================================================================
