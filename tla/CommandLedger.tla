--------------------------- MODULE CommandLedger ----------------------------
(***************************************************************************)
(* The bookkeeping the command executor guards with mutex_                 *)
(* (src/src/control/command_executor.cc): the command records, the queue,  *)
(* the idempotency map, the active motion, the jog and the pending internal*)
(* stop, as one record.  Every ...Locked method is an operator from a      *)
(* ledger to a ledger, so that a critical section is a composition.        *)
(*                                                                         *)
(* Time is abstracted to flags that the passage of time raises: late (the  *)
(* timeout of a command has passed), grace (motion_start_grace has passed  *)
(* since the active motion started) and jog.due (the jog deadline has      *)
(* passed).  updated_at, read only to find the oldest finished record, is  *)
(* the number of the critical section that finished the command.           *)
(***************************************************************************)
EXTENDS Integers, FiniteSets

CONSTANTS MaxQueue,    \* options_.maximum_queue_size
          MaxHistory   \* options_.maximum_command_history

\* CommandExecutor::Impl::Start refuses every other configuration.
ASSUME LimitsAssumption == /\ MaxQueue \in Nat \ {0}
                           /\ MaxHistory \in Nat
                           /\ MaxHistory > MaxQueue

CommandStates == {"Queued", "Running", "Succeeded", "Failed", "Cancelled",
                  "TimedOut", "Stopped"}

Terminal == CommandStates \ {"Queued", "Running"}

MotionTypes == {"MoveJ", "MoveL", "MoveC", "StartProgram"}

RunsDuringMotion == {"Stop", "Hold", "Resume", "PowerOff"}

NoJog == [active |-> FALSE, client |-> "", lease |-> 0, due |-> FALSE]

EmptyLedger ==
    [commands |-> <<>>, queue |-> <<>>, idempotency |-> <<>>,
     next_id |-> 1, ticks |-> 0,
     active |-> 0, seen |-> FALSE, grace |-> FALSE,
     stop_requested |-> FALSE, jog |-> NoJog]

Type(b, id)  == b.commands[id].req.type
State(b, id) == b.commands[id].state

\* commands_.find(id) finds a record that is not in a terminal state.
IsOpen(b, id) == id \in DOMAIN b.commands /\ State(b, id) \notin Terminal

OpenCommands(b) == {id \in DOMAIN b.commands : State(b, id) \notin Terminal}

IdempotencyMapKey(req) == <<req.client, req.key>>

\* The commands in S reach the terminal state s in this critical section.
Finish(b, S, s) ==
    [b EXCEPT !.commands = [id \in DOMAIN b.commands |->
                               IF id \in S
                               THEN [b.commands[id] EXCEPT !.state = s,
                                                           !.ended = b.ticks]
                               ELSE b.commands[id]],
              !.ticks = b.ticks + 1]

\* Mutant: a finished command gets a second verdict.
FinishAnyway(b, id, s) == IF id \in DOMAIN b.commands THEN Finish(b, {id}, s) ELSE b

FinishIfOpen(b, id, s) == IF IsOpen(b, id) THEN Finish(b, {id}, s) ELSE b

(***************************************************************************)
(* The deque.  queue maps each queued command to a rank, and the deque is  *)
(* its domain in ascending order of rank.  Command ids grow, so -id is a   *)
(* rank below, and id one above, every rank handed out before: push_front  *)
(* and push_back.                                                          *)
(***************************************************************************)
Front(id) == -id
Back(id)  == id

Dequeue(b, S) ==
    [b EXCEPT !.queue = [id \in DOMAIN b.queue \ S |-> b.queue[id]]]

QueueSize(b) == Cardinality(DOMAIN b.queue)

\* Mutant: next_command_id_ is not advanced.
EnqueueReusingId(b, req, rank) ==
    [b EXCEPT !.commands = [i \in DOMAIN b.commands \cup {b.next_id} |->
                               IF i = b.next_id
                               THEN [req |-> req, state |-> "Queued",
                                     late |-> FALSE, ended |-> 0]
                               ELSE b.commands[i]],
              !.queue = [i \in DOMAIN b.queue \cup {b.next_id} |->
                            IF i = b.next_id THEN rank ELSE b.queue[i]]]

\* A new record, queued at the given rank.
Enqueue(b, req, rank) ==
    LET id == b.next_id IN
    [b EXCEPT !.commands = [i \in DOMAIN b.commands \cup {id} |->
                               IF i = id
                               THEN [req |-> req, state |-> "Queued",
                                     late |-> FALSE, ended |-> 0]
                               ELSE b.commands[i]],
              !.queue = [i \in DOMAIN b.queue \cup {id} |->
                            IF i = id THEN rank ELSE b.queue[i]],
              !.next_id = id + 1]

\* Mutant: StopProgram may run during every motion.
MayRunStopProgram(b, id) ==
    b.active = 0 \/ Type(b, id) \in RunsDuringMotion \cup {"StopProgram"}

\* Whether a queued command may run while the active motion runs.
MayRun(b, id) ==
    \/ b.active = 0
    \/ Type(b, id) \in RunsDuringMotion
    \/ /\ Type(b, id) = "StopProgram"
       /\ b.active \in DOMAIN b.commands
       /\ Type(b, b.active) = "StartProgram"

Executable(b) == {id \in DOMAIN b.queue : MayRun(b, id)}

\* The first of them in the deque.
FindExecutableCommandLocked(b) ==
    CHOOSE id \in Executable(b) : \A other \in Executable(b) :
        b.queue[id] <= b.queue[other]

\* The queued commands that are not a Stop, and the last of them in the deque.
Ordinary(b) == {id \in DOMAIN b.queue : Type(b, id) # "Stop"}

NewestOrdinary(b) ==
    CHOOSE id \in Ordinary(b) : \A other \in Ordinary(b) :
        b.queue[other] <= b.queue[id]

-----------------------------------------------------------------------------
\* An internal Stop: no lease, no idempotency entry, no look at the bounds.
InternalStop == [type |-> "Stop",
                 payload |-> [kind |-> "Stop", mode |-> "Controlled"],
                 client |-> "robot-manager", key |-> "internal-stop",
                 lease |-> 0]

\* Mutant: stop_requested_ is not looked at.
RequestInternalStopAlways(b) ==
    [Enqueue(b, InternalStop, Front(b.next_id)) EXCEPT !.stop_requested = TRUE]

RequestInternalStopLocked(b) ==
    IF b.stop_requested THEN b
    ELSE [Enqueue(b, InternalStop, Front(b.next_id))
             EXCEPT !.stop_requested = TRUE]

\* The grace of a motion that is over means nothing, so the flag is lowered too.
ResetActive(b) == [b EXCEPT !.active = 0, !.seen = FALSE, !.grace = FALSE]

\* Mutant: the active motion is dropped without a verdict.
CompleteActiveMotionSilently(b, s) == ResetActive(b)

CompleteActiveMotionLocked(b, s) ==
    IF b.active = 0 THEN b ELSE ResetActive(FinishIfOpen(b, b.active, s))

CompleteActiveProgramLocked(b) ==
    IF /\ b.active \in DOMAIN b.commands
       /\ Type(b, b.active) = "StartProgram"
    THEN CompleteActiveMotionLocked(b, "Stopped")
    ELSE b

ClearActiveJogLocked(b) == [b EXCEPT !.jog = NoJog]

\* Mutant: the cancelled commands stay in the deque.
CancelKeepingQueue(b, lease_id, client_id) ==
    Finish(b, {id \in Ordinary(b) : /\ b.commands[id].req.lease = lease_id
                                    /\ b.commands[id].req.client = client_id},
           "Cancelled")

\* Mutant: the running command of the lease is cancelled with the queued ones.
CancelAllForLease(b, lease_id, client_id) ==
    LET owned == {id \in OpenCommands(b) :
                     /\ Type(b, id) # "Stop"
                     /\ b.commands[id].req.lease = lease_id
                     /\ b.commands[id].req.client = client_id}
    IN Dequeue(Finish(b, owned, "Cancelled"), owned)

CancelQueuedCommandsForLeaseLocked(b, lease_id, client_id) ==
    LET owned == {id \in Ordinary(b) :
                     /\ b.commands[id].req.lease = lease_id
                     /\ b.commands[id].req.client = client_id}
    IN IF owned = {} THEN b ELSE Dequeue(Finish(b, owned, "Cancelled"), owned)

CancelCommandsForShutdownLocked(b) ==
    Dequeue(Finish(b, {id \in DOMAIN b.queue : IsOpen(b, id)}, "Cancelled"),
            DOMAIN b.queue)

\* PruneCommandHistoryLocked drops finished records, the oldest first, while the
\* history is full.  Records finished in one critical section may carry the same
\* time, and then either may go first: the result is a set of ledgers.
Forget(b, P) ==
    LET keys == {IdempotencyMapKey(b.commands[id].req) : id \in P} IN
    [b EXCEPT !.commands = [id \in DOMAIN b.commands \ P |-> b.commands[id]],
              !.idempotency = [k \in DOMAIN b.idempotency \ keys |->
                                  b.idempotency[k]]]

\* Mutant: the first record goes, finished or not.
PruneAnyRecord(b) ==
    {IF Cardinality(DOMAIN b.commands) < MaxHistory THEN b
     ELSE Forget(b, {CHOOSE id \in DOMAIN b.commands :
                        \A other \in DOMAIN b.commands : id <= other})}

PruneCommandHistoryLocked(b) ==
    LET finished == DOMAIN b.commands \ OpenCommands(b)
        excess   == Cardinality(DOMAIN b.commands) - MaxHistory + 1
        Oldest(P) == \A p \in P, other \in finished \ P :
                        b.commands[p].ended <= b.commands[other].ended
        count == IF excess <= 0 THEN 0
                 ELSE IF excess <= Cardinality(finished) THEN excess
                 ELSE Cardinality(finished)
    IN {Forget(b, P) :
           P \in {Q \in SUBSET finished : Cardinality(Q) = count /\ Oldest(Q)}}

\* UpdateActiveMotionLocked: what the poll thread concludes about the active
\* motion from the snapshot s it has just published.
UpdateActiveMotionLocked(b, s) ==
    LET record == b.commands[b.active]
        busy   == IF record.req.type = "StartProgram" THEN s.program_running
                                                      ELSE s.moving
    IN
    IF b.active = 0 THEN b
    ELSE IF b.active \notin DOMAIN b.commands
         THEN [b EXCEPT !.active = 0]
    ELSE IF record.late
         THEN RequestInternalStopLocked(FinishIfOpen(b, b.active, "TimedOut"))
    ELSE IF s.lifecycle \in {"Unknown", "Disconnected", "Fault", "EmergencyStop"}
         THEN ResetActive(RequestInternalStopLocked(
                             FinishIfOpen(b, b.active, "Failed")))
    ELSE IF s.paused THEN b
    ELSE IF busy THEN [b EXCEPT !.seen = TRUE]
    ELSE IF b.seen \/ b.grace
         THEN [ResetActive(FinishIfOpen(b, b.active, "Succeeded"))
                  EXCEPT !.stop_requested = FALSE]
    ELSE b

\* The completion of a command that was executed without error, from WorkerLoop:
\* a motion becomes the active motion, everything else is done.  valid says
\* whether the command's lease is still valid.
StartMotion(b, id, valid) ==
    IF b.active # 0 /\ b.active # id
    THEN RequestInternalStopLocked(Finish(b, {id}, "Failed"))
    ELSE LET started == [b EXCEPT !.active = id, !.seen = FALSE,
                                  !.grace = FALSE, !.stop_requested = FALSE]
         IN IF valid THEN started ELSE RequestInternalStopLocked(started)

\* Mutant: a jog whose lease is gone is stopped but not recorded.
StartJogIfLeased(b, req, valid) ==
    IF valid THEN [b EXCEPT !.jog = [active |-> TRUE, client |-> req.client,
                                     lease |-> req.lease, due |-> FALSE]]
    ELSE RequestInternalStopLocked(b)

StartJog(b, req, valid) ==
    LET started == [b EXCEPT !.jog = [active |-> TRUE, client |-> req.client,
                                      lease |-> req.lease, due |-> FALSE]]
    IN IF valid THEN started ELSE RequestInternalStopLocked(started)

Completed(b, id, valid) ==
    LET req  == b.commands[id].req
        done == Finish(b, {id}, "Succeeded")
        Halted(c) == [c EXCEPT !.stop_requested = FALSE]
    IN
    IF req.type \in MotionTypes THEN StartMotion(b, id, valid)
    ELSE IF req.type = "Jog"
         THEN IF req.payload.start THEN StartJog(done, req, valid)
                                   ELSE ClearActiveJogLocked(done)
    ELSE IF req.type \in {"Stop", "PowerOff"}
         THEN Halted(ClearActiveJogLocked(
                        CompleteActiveMotionLocked(done, "Stopped")))
    ELSE IF req.type = "StopProgram"
         THEN Halted(CompleteActiveProgramLocked(done))
    ELSE done
=============================================================================
