---------------------------- MODULE MotionProofs ------------------------------
(***************************************************************************)
(* Ledger and controller agree about what moves, for every instance of the *)
(* executor.                                                               *)
(*                                                                         *)
(* First part: StopProgram never halts another kind of motion.  MayRun     *)
(* looks at the active motion when the worker takes the command; what is   *)
(* shown is that nothing that happens until the worker comes back makes    *)
(* another motion the active one or gives a record another request (Mild): *)
(* only the worker itself, and Shutdown when the worker has ended, do more *)
(* to the ledger than that.                                                *)
(*                                                                         *)
(* Second part: no jog runs that the watchdog does not know of.  The       *)
(* controller and the ledger learn of a jog in two steps of the worker, so *)
(* the invariant speaks of the time in between: whoever comes back from    *)
(* the driver with a jog is about to record it, whoever comes back with    *)
(* the end of one, or a stop, has left none.                               *)
(*                                                                         *)
(* Third part: the queue.  Its bound holds for the commands of clients     *)
(* alone; internal stops pass it, and are counted with those that are      *)
(* still to come.                                                          *)
(*                                                                         *)
(* Fourth part: a motion that is reported stopped is at rest.              *)
(*                                                                         *)
(* Fifth part: a Stop gets past both bounds.                               *)
(***************************************************************************)
EXTENDS ExecutorProofs, KeyProofs

\* From b to c no motion becomes active, the jog stays, and no record changes its
\* request.
Mild(b, c) ==
    /\ c.active \in {b.active, 0}
    /\ c.jog = b.jog
    /\ \A id \in DOMAIN b.commands \cap DOMAIN c.commands :
          c.commands[id].req = b.commands[id].req

\* The active motion and the jog stay as they are.
Unmoved(b, c) == c.active = b.active /\ c.jog = b.jog

-----------------------------------------------------------------------------
\* Two mild operations in a row are mild unless a record comes back in between.
LEMMA MildTransitive ==
    ASSUME NEW b, NEW c, NEW d, Mild(b, c), Mild(c, d),
           DOMAIN b.commands \cap DOMAIN d.commands \subseteq DOMAIN c.commands
    PROVE  Mild(b, d)
BY DEF Mild

\* Where the records are kept it is enough to look at the motion and the jog.
LEMMA KeepsMild ==
    ASSUME NEW b, NEW c, Keeps(b, c), c.active \in {b.active, 0}, c.jog = b.jog
    PROVE  Mild(b, c)
BY DEF Keeps, Mild

\* Verdicts and removals leave them alone.
LEMMA CancelUnmoved ==
    ASSUME NEW b, Form(b), NEW S, NEW s, NEW T
    PROVE  /\ Unmoved(b, Finish(b, S, s))
           /\ Unmoved(b, Dequeue(b, T))
           /\ Unmoved(b, Dequeue(Finish(b, S, s), T))
BY DEF Finish, Dequeue, Form, Unmoved

\* So does an internal stop.
LEMMA InternalStopUnmoved ==
    ASSUME NEW b, Form(b) PROVE Unmoved(b, RequestInternalStopLocked(b))
BY DEF RequestInternalStopLocked, Enqueue, Form, Unmoved

\* The active motion can only be given up.
LEMMA ResetActiveActive ==
    ASSUME NEW b, Form(b) PROVE ResetActive(b).active = 0 /\ ResetActive(b).jog = b.jog
BY DEF ResetActive, Form

\* The poll thread gives it up or leaves it.
LEMMA UpdateMild ==
    ASSUME NEW b, Form(b), NEW s PROVE Mild(b, UpdateActiveMotionLocked(b, s))
<1> DEFINE f == FinishIfOpen(b, b.active, "Succeeded")
           g == ResetActive(f)
           h == FinishIfOpen(b, b.active, "Failed")
           i == RequestInternalStopLocked(h)
           t == FinishIfOpen(b, b.active, "TimedOut")
           u == UpdateActiveMotionLocked(b, s)
<1>1. u \in {b, [b EXCEPT !.active = 0], [b EXCEPT !.seen = TRUE],
              RequestInternalStopLocked(t),
              ResetActive(i), [g EXCEPT !.stop_requested = FALSE]}
  BY DEF UpdateActiveMotionLocked
<1>2. Form(f) /\ Form(h) /\ Form(t) /\ Form(i)
  BY FinishIfOpenKeeps, FinishAndStopKeeps DEF Keeps
<1>3. Unmoved(b, t) /\ Unmoved(b, f) /\ Unmoved(b, h)
  BY CancelUnmoved DEF FinishIfOpen, Unmoved
<1>4. Keeps(b, u)
  BY UpdateKeeps
<1> HIDE DEF f, h, t, u
<1>5. Unmoved(b, RequestInternalStopLocked(t)) /\ Unmoved(b, i)
  BY <1>2, <1>3, InternalStopUnmoved DEF Unmoved
<1> HIDE DEF i
<1>6. /\ ResetActive(i).active = 0 /\ ResetActive(i).jog = b.jog
      /\ g.active = 0 /\ g.jog = b.jog /\ Form(g)
  BY <1>2, <1>3, <1>5, ResetActiveActive, ResetActiveKeeps DEF Keeps, Unmoved
<1> HIDE DEF g
<1>7. u.active \in {b.active, 0} /\ u.jog = b.jog
  BY <1>1, <1>5, <1>6 DEF Form, Unmoved
<1>8. Mild(b, u)
  BY <1>4, <1>7, KeepsMild
<1> QED BY <1>8 DEF u

\* The command a Stop displaces is not the active motion.
LEMMA MakeRoomMild ==
    ASSUME NEW b, Form(b)
    PROVE  Mild(b, MakeRoom(b)) /\ Form(MakeRoom(b))
           /\ DOMAIN MakeRoom(b).commands = DOMAIN b.commands
<1>1. Keeps(b, MakeRoom(b)) /\ Unmoved(b, MakeRoom(b))
  BY MakeRoomKeeps, CancelUnmoved DEF MakeRoom, Unmoved
<1>2. DOMAIN MakeRoom(b).commands = DOMAIN b.commands
  BY DEF MakeRoom, Dequeue, Finish, Form
<1> QED BY <1>1, <1>2, KeepsMild DEF Keeps, Unmoved

\* The return of a lease cancels what is queued and asks for a stop.
LEMMA ReleasedMild ==
    ASSUME NEW b, Form(b), NEW req PROVE Mild(b, Released(b, req))
<1> DEFINE c == CancelQueuedCommandsForLeaseLocked(b, req.lease, req.client)
<1>1. Unmoved(b, c) /\ Form(c)
  BY CancelUnmoved, CancelKeeps DEF CancelQueuedCommandsForLeaseLocked, Keeps, Unmoved
<1>2. Released(b, req) \in {c, RequestInternalStopLocked(c)}
  BY DEF Released
<1> HIDE DEF c
<1>3. Unmoved(b, Released(b, req))
  BY <1>1, <1>2, InternalStopUnmoved DEF Unmoved
<1> QED BY <1>3, ReleasedKeeps, KeepsMild DEF Unmoved

\* Pruning only drops records.
LEMMA PruneMild ==
    ASSUME NEW b, Form(b), NEW c \in PruneCommandHistoryLocked(b)
    PROVE  Mild(b, c) /\ Form(c) /\ c.next_id = b.next_id
           /\ DOMAIN c.commands \subseteq DOMAIN b.commands
<1>1. PICK P : c = Forget(b, P)
  BY DEF PruneCommandHistoryLocked
<1> QED BY <1>1 DEF Forget, Form, Mild

\* A new command gets a new record.
LEMMA InsertMild ==
    ASSUME NEW b, Form(b), NEW req
    PROVE  Mild(b, Insert(b, req))
           /\ DOMAIN Insert(b, req).commands = DOMAIN b.commands \cup {b.next_id}
<1>1. b.next_id \notin DOMAIN b.commands
  BY DEF Form
<1> QED BY <1>1 DEF Insert, Enqueue, Form, Mild

\* The second critical section of Submit.
LEMMA SubmitMild ==
    ASSUME Form(book), NEW t \in Threads, SubmitEnqueue(t) PROVE Mild(book, book')
<1> DEFINE m == MakeRoom(book)
           req == rpc[t].req
<1>1. CASE UNCHANGED book
  BY <1>1 DEF Mild
<1>2. CASE book' # book
  <2>1. PICK p \in PruneCommandHistoryLocked(m) : book' \in {p, Insert(p, req)}
    BY <1>2 DEF SubmitEnqueue
  <2>2. /\ Mild(book, m) /\ Form(m) /\ DOMAIN m.commands = DOMAIN book.commands
        /\ m.next_id = book.next_id
    BY MakeRoomMild DEF MakeRoom, Dequeue, Finish, Form
  <2> HIDE DEF m
  <2>3. /\ Mild(m, p) /\ Form(p) /\ p.next_id = book.next_id
        /\ DOMAIN p.commands \subseteq DOMAIN book.commands
    BY <2>2, PruneMild
  <2>4. Mild(book, p)
    BY <2>2, <2>3, MildTransitive
  <2>5. Mild(book, Insert(p, req))
    <3>1. book.next_id \notin DOMAIN book.commands
      BY DEF Form
    <3>2. DOMAIN book.commands \cap DOMAIN Insert(p, req).commands
              \subseteq DOMAIN p.commands
      BY <2>3, <3>1, InsertMild
    <3> QED BY <2>3, <2>4, <3>2, InsertMild, MildTransitive
  <2> QED BY <2>1, <2>4, <2>5
<1> QED BY <1>1, <1>2

\* Whatever the other threads do to the ledger is mild, and so is the taking of a
\* command by the worker.
LEMMA LedgerStepIsMild ==
    ASSUME Form(book), [Next]_vars,
           ~WorkerComplete, ~ShutdownFinish, ~JogDeadlinePasses
    PROVE  Mild(book, book')
<1>1. CASE UNCHANGED book
  BY <1>1 DEF Mild
<1>2. CASE WorkerTake
  <2> DEFINE id    == FindExecutableCommandLocked(book)
             taken == Dequeue(book, {id})
  <2>1. Keeps(book, taken) /\ Unmoved(book, taken)
    BY DequeueKeeps, CancelUnmoved
  <2>2. book' \in {Finish(taken, {id}, "TimedOut"),
                   [taken EXCEPT !.commands[id].state = "Running"]}
    BY <1>2 DEF WorkerTake
  <2> HIDE DEF id, taken
  <2>3. Form(taken)
    BY <2>1 DEF Keeps
  <2>4. /\ Keeps(taken, Finish(taken, {id}, "TimedOut"))
        /\ Unmoved(taken, Finish(taken, {id}, "TimedOut"))
    BY <2>3, FinishKeeps, CancelUnmoved
  <2>5. /\ Keeps(taken, [taken EXCEPT !.commands[id].state = "Running"])
        /\ Unmoved(taken, [taken EXCEPT !.commands[id].state = "Running"])
    BY <2>3 DEF Keeps, Form, Unmoved
  <2>6. Keeps(taken, book') /\ Unmoved(taken, book')
    BY <2>2, <2>4, <2>5
  <2>7. Keeps(book, book')
    BY <2>1, <2>6, KeepsTransitive
  <2>8. Unmoved(book, book')
    BY <2>1, <2>6 DEF Unmoved
  <2> QED BY <2>7, <2>8, KeepsMild DEF Unmoved
<1>3. CASE PollPublish
  <2>1. PICK u \in {UpdateActiveMotionLocked(book, latest'), book} : book' = Watched(u)
    BY <1>3 DEF PollPublish
  <2>2. Mild(book, u) /\ Keeps(book, u)
    BY <2>1, UpdateMild, UpdateKeeps, KeepsSelf DEF Mild
  <2>3. Form(u)
    BY <2>2 DEF Keeps
  <2>4. book' \in {u, RequestInternalStopLocked(u)}
    BY <2>1 DEF Watched
  <2>5. Keeps(u, book') /\ Unmoved(u, book')
    BY <2>3, <2>4, KeepsSelf, InternalStopKeeps, InternalStopUnmoved DEF Unmoved
  <2> QED BY <2>2, <2>5, KeepsTransitive, KeepsMild DEF Mild, Unmoved
<1>4. CASE GracePasses
  BY <1>4 DEF GracePasses, Form, Mild
<1>5. CASE \E id \in DOMAIN book.commands : CommandTimesOut(id)
  BY <1>5 DEF CommandTimesOut, Form, Mild
<1>6. CASE \E t \in Threads : ReleaseCancel(t) \/ SubmitEnqueue(t)
  BY <1>6, ReleasedMild, SubmitMild DEF ReleaseCancel
<1>7. CASE \/ Start \/ ShutdownBegin \/ ShutdownStop \/ ShutdownDisconnect \/ Calls
           \/ \E t \in Threads : SubmitValidate(t)
           \/ WorkerExit \/ WorkerSnapshot \/ WorkerValidate \/ WorkerExecute
           \/ PollCheck \/ PollRead
           \/ LeaseLapses \/ SnapshotAges \/ MotionEnds \/ ControllerEvent \/ Terminated
           \/ UNCHANGED vars
  <2>1. UNCHANGED book
    BY <1>7 DEF Start, ShutdownBegin, ShutdownStop, ShutdownDisconnect, Calls,
       AcquireControlLease, RenewControlLease, ReleaseControlLease, SubmitBegin,
       SubmitValidate, WorkerExit, WorkerSnapshot, WorkerValidate, WorkerExecute,
       PollCheck, PollRead, LeaseLapses, SnapshotAges, MotionEnds,
       ControllerEvent, Terminated, vars
  <2> QED BY <1>1, <2>1
<1> QED
  BY <1>2, <1>3, <1>4, <1>5, <1>6, <1>7
     DEF Next, Service, ShutdownSteps, RpcSteps, Worker, Poll, Environment

-----------------------------------------------------------------------------
\* The worker keeps the number of its command until it is done with it.
LEMMA WorkerStays ==
    ASSUME ExecutorInv, [Next]_vars, ~WorkerTake
    PROVE  WorkerBusy' => WorkerBusy /\ worker'.id = worker.id
<1>1. DOMAIN worker = {"pc", "id", "admits", "ok"}
  BY DEF ExecutorInv, StagesOK
<1> USE DEF WorkerBusy
<1>2. CASE Start \/ WorkerExit \/ WorkerComplete
  BY <1>1, <1>2 DEF Start, IdleWorker, WorkerExit, WorkerComplete
<1>3. CASE WorkerSnapshot
  BY <1>1, <1>3 DEF WorkerSnapshot
<1>4. CASE WorkerValidate
  BY <1>1, <1>4 DEF WorkerValidate
<1>5. CASE WorkerExecute
  BY <1>1, <1>5 DEF WorkerExecute
<1>6. CASE \/ ShutdownBegin \/ ShutdownSteps \/ Calls \/ \E t \in Threads : RpcSteps(t)
           \/ Poll \/ Environment \/ Terminated \/ UNCHANGED vars
  <2>1. UNCHANGED worker
    BY <1>6 DEF ShutdownBegin, ShutdownSteps, ShutdownStop, ShutdownDisconnect,
       ShutdownFinish, Calls, AcquireControlLease, RenewControlLease,
       ReleaseControlLease, SubmitBegin, RpcSteps, ReleaseCancel, SubmitValidate,
       SubmitEnqueue, Poll, PollCheck, PollRead, PollPublish, Environment,
       LeaseLapses, GracePasses, JogDeadlinePasses, SnapshotAges, MotionEnds,
       ControllerEvent, CommandTimesOut, Terminated, vars
  <2> QED BY <2>1
<1> QED BY <1>2, <1>3, <1>4, <1>5, <1>6 DEF Next, Service, Worker

\* While the worker is busy its command keeps its request.
LEMMA RequestStays ==
    ASSUME ExecutorInv, Preserved, KeysInv, [Next]_vars, WorkerBusy'
    PROVE  \/ WorkerTake
           \/ /\ WorkerBusy /\ worker'.id = worker.id
              /\ book'.commands[worker.id].req = book.commands[worker.id].req
<1> SUFFICES ASSUME ~WorkerTake
             PROVE  /\ WorkerBusy /\ worker'.id = worker.id
                    /\ book'.commands[worker.id].req = book.commands[worker.id].req
  OBVIOUS
<1>1. WorkerBusy /\ worker'.id = worker.id
  BY WorkerStays
<1>2. worker.id \in DOMAIN book.commands \cap DOMAIN book'.commands
  BY <1>1 DEF Preserved, ExecutorInv, StagesOK, Held, Sound, OwnersSound
<1>3. ~WorkerComplete /\ ~ShutdownFinish
  BY <1>1 DEF WorkerComplete, IdleWorker, WorkerBusy, ShutdownFinish, ExecutorInv,
     StagesOK
<1>4. CASE JogDeadlinePasses
  BY <1>1, <1>4 DEF JogDeadlinePasses, KeysInv, Form
<1>5. CASE ~JogDeadlinePasses
  BY <1>1, <1>2, <1>3, <1>5, LedgerStepIsMild DEF KeysInv, Mild
<1> QED BY <1>4, <1>5

-----------------------------------------------------------------------------
\* What the steps need to know: who owns which command, and the form of the ledger.
SparesInv == ExecutorInv /\ KeysInv /\ StopProgramSparesMotion

\* While the worker keeps its command no other motion becomes active.
LEMMA SparesMildStep ==
    ASSUME SparesInv, Preserved, [Next]_vars, ~WorkerTake,
           Mild(book, book') \/ JogDeadlinePasses
    PROVE  StopProgramSparesMotion'
<1> SUFFICES ASSUME WorkerBusy', Type(book', worker'.id) = "StopProgram",
                    book'.active \in DOMAIN book'.commands
             PROVE  Type(book', book'.active) = "StartProgram"
  BY DEF StopProgramSparesMotion
<1>1. /\ WorkerBusy /\ worker'.id = worker.id
      /\ Type(book, worker.id) = "StopProgram"
  BY RequestStays DEF SparesInv, Type
<1>2. book'.active # 0
  BY DEF Preserved, ExecutorInv, Sound, Shape
<1>3. book'.active = book.active
  BY <1>2 DEF Mild, JogDeadlinePasses, SparesInv, KeysInv, Form
<1>4. book.active \in 1..(book.next_id - 1)
  BY <1>2, <1>3 DEF SparesInv, ExecutorInv, Sound, Shape
<1>5. book.active \in DOMAIN book.commands \cap DOMAIN book'.commands
  BY <1>3, <1>4 DEF Preserved, Follows
<1>6. Type(book, book.active) = "StartProgram"
  BY <1>1, <1>5 DEF SparesInv, StopProgramSparesMotion
<1>7. Type(book', book.active) = Type(book, book.active)
  BY <1>5 DEF Mild, JogDeadlinePasses, SparesInv, KeysInv, Form, Type
<1> QED BY <1>3, <1>6, <1>7

\* The worker takes a StopProgram only when nothing but a program is active.
LEMMA SparesTake ==
    ASSUME SparesInv, WorkerTake PROVE StopProgramSparesMotion'
<1> DEFINE id    == FindExecutableCommandLocked(book)
           taken == Dequeue(book, {id})
<1>1. Form(book) /\ Sound(book, 0) /\ ~WorkerBusy
  BY DEF SparesInv, KeysInv, ExecutorInv, Held, WorkerTake, WorkerBusy
<1>2. id \in Executable(book)
  BY <1>1, FirstExecutable DEF WorkerTake
<1> HIDE DEF id
<1>3. CASE worker' = worker
  BY <1>1, <1>3 DEF WorkerBusy, StopProgramSparesMotion
<1>4. CASE /\ book' = [taken EXCEPT !.commands[id].state = "Running"]
           /\ worker' = [worker EXCEPT !.pc = "taken", !.id = id]
  <2>1. worker'.id = id
    BY <1>4 DEF SparesInv, ExecutorInv, StagesOK
  <2>2. /\ book'.active = book.active
        /\ DOMAIN book'.commands = DOMAIN book.commands
        /\ \A c \in DOMAIN book.commands : Type(book', c) = Type(book, c)
    BY <1>1, <1>4 DEF Dequeue, Form, Type
  <2>3. id \in DOMAIN book.commands /\ MayRun(book, id)
    BY <1>1, <1>2 DEF Executable, Sound, QueueSound
  <2>4. 0 \notin DOMAIN book.commands
    BY <1>1 DEF Form
  <2> QED BY <2>1, <2>2, <2>3, <2>4 DEF MayRun, RunsDuringMotion, StopProgramSparesMotion
<1> QED BY <1>3, <1>4 DEF WorkerTake, id, taken

\* Every step spares the motion.
LEMMA SparesStep == SparesInv /\ [Next]_vars => SparesInv'
<1> SUFFICES ASSUME SparesInv, [Next]_vars PROVE SparesInv'
  OBVIOUS
<1>1. Preserved /\ KeysInv'
  BY ExecutorStep, KeysStep DEF SparesInv
<1> SUFFICES StopProgramSparesMotion'
  BY <1>1 DEF SparesInv, Preserved
<1>2. CASE WorkerTake
  BY <1>2, SparesTake
<1>3. CASE WorkerComplete
  BY <1>3 DEF WorkerComplete, IdleWorker, WorkerBusy, StopProgramSparesMotion
<1>4. CASE ShutdownFinish
  BY <1>4 DEF ShutdownFinish, SparesInv, ExecutorInv, StagesOK, WorkerBusy,
     StopProgramSparesMotion
<1>5. CASE ~WorkerTake /\ ~WorkerComplete /\ ~ShutdownFinish
  <2>1. Mild(book, book') \/ JogDeadlinePasses
    BY <1>5, LedgerStepIsMild DEF SparesInv, KeysInv
  <2> QED BY <1>1, <1>5, <2>1, SparesMildStep
<1> QED BY <1>2, <1>3, <1>4, <1>5

\* StopProgram is never in the worker's hands while another kind of motion is
\* active, so it never halts a motion the poll thread would report as Succeeded.
THEOREM StopProgramIsHarmless == Spec => []StopProgramSparesMotion
<1>1. Init => StopProgramSparesMotion
  BY DEF Init, IdleWorker, WorkerBusy, StopProgramSparesMotion
<1>2. Init => SparesInv
  BY <1>1, ExecutorInvInit, KeysInit DEF SparesInv
<1>3. SparesInv => StopProgramSparesMotion
  BY DEF SparesInv
<1> QED BY <1>2, <1>3, SparesStep, PTL DEF Spec

-----------------------------------------------------------------------------
\* Second part: jogs and stops.

\* The controller jogs.
Jogs(r) == r.moving /\ r.jog_active

\* A first call or a heartbeat of a jog, and what ends one.
JogStart(req) == req.type = "Jog" /\ req.payload.start
Halts(req) == \/ req.type \in {"Stop", "PowerOff"}
              \/ req.type = "Jog" /\ ~req.payload.start

RobotFields == {"mode", "connected", "api_control", "servo_on", "emergency_stop",
                "alarm_active", "moving", "paused", "program_running", "speed_ratio",
                "jog_active", "program_loaded", "motion_due", "outputs"}

-----------------------------------------------------------------------------
\* A driver method that starts no jog.
Calm(r, s) == DOMAIN s = RobotFields /\ (Jogs(s) => Jogs(r))

\* A driver method after which nothing jogs.
Still(s) == DOMAIN s = RobotFields /\ ~Jogs(s)

\* The methods that stop the arm.
LEMMA StopsAreStill ==
    ASSUME NEW r, DOMAIN r = RobotFields
    PROVE  /\ Still(AtRest(r)) /\ Still([AtRest(r) EXCEPT !.servo_on = FALSE])
           /\ Still(BeginMotionLocked(r))
           /\ Still([r EXCEPT !.moving = FALSE, !.paused = FALSE, !.jog_active = FALSE])
BY DEF RobotFields, Still, Jogs, AtRest, BeginMotionLocked

\* The end of a motion in the controller starts no jog.
LEMMA RefreshIsCalm ==
    ASSUME NEW r, DOMAIN r = RobotFields PROVE Calm(r, RefreshMotionLocked(r))
BY DEF RobotFields, Calm, Jogs, RefreshMotionLocked

\* What the worker may rely on when it comes back from the driver.
Told(r, req, result) ==
    /\ DOMAIN result.robot = RobotFields
    /\ Jogs(result.robot) => Jogs(r) \/ (result.ok /\ JogStart(req))
    /\ result.ok /\ Halts(req) => ~Jogs(result.robot)

\* A refused call, and one that changes nothing of the motion.
LEMMA CalmIsTold ==
    ASSUME NEW r, DOMAIN r = RobotFields, NEW req, NEW s, Calm(r, s)
    PROVE  /\ Told(r, req, Refuse(s))
           /\ ~Halts(req) => Told(r, req, Accept(s))
BY DEF Told, Calm, Refuse, Accept

\* A call after which nothing jogs.
LEMMA StillIsTold ==
    ASSUME NEW r, NEW req, NEW s, Still(s) PROVE Told(r, req, Accept(s))
BY DEF Told, Still, Accept

\* Nothing changes.
LEMMA SameIsCalm == ASSUME NEW r, DOMAIN r = RobotFields PROVE Calm(r, r)
BY DEF Calm

\* The jog itself.
LEMMA JogTold ==
    ASSUME NEW r, DOMAIN r = RobotFields, NEW req, req.type = "Jog"
    PROVE  Told(r, req, Jog(r, req.payload))
<1> DEFINE p == req.payload
           j == [r EXCEPT !.moving = TRUE, !.paused = FALSE, !.jog_active = TRUE]
           e == [r EXCEPT !.moving = FALSE, !.paused = FALSE, !.jog_active = FALSE]
<1>1. Told(r, req, Refuse(r))
  BY SameIsCalm, CalmIsTold
<1>2. ASSUME ~p.start PROVE Told(r, req, Accept(e))
  BY StopsAreStill, StillIsTold
<1>3. DOMAIN j = RobotFields
  BY DEF RobotFields
<1> HIDE DEF j, e
<1>4. ASSUME p.start, NEW s, DOMAIN s = RobotFields PROVE Told(r, req, Accept(s))
  BY <1>4 DEF Told, Accept, JogStart, Halts
<1>5. Jog(r, p) \in {Refuse(r), Accept(e), Accept(j), Accept(r)}
  BY DEF Jog, e, j
<1>6. CASE ~p.start
  <2>1. Jog(r, p) \in {Refuse(r), Accept(e)}
    BY <1>6 DEF Jog, e
  <2> QED BY <1>1, <1>2, <1>6, <2>1
<1>7. CASE p.start
  <2>1. Jog(r, p) \in {Refuse(r), Accept(j), Accept(r)}
    BY <1>7 DEF Jog, j
  <2> QED BY <1>1, <1>3, <1>4, <1>7, <2>1
<1> QED BY <1>6, <1>7

\* The methods that end or continue a motion.
LEMMA MotionsTold ==
    ASSUME NEW r, DOMAIN r = RobotFields, NEW req
    PROVE  /\ \A speeds, speed : Told(r, req, Move(r, speeds, speed))
           /\ Told(r, req, StartProgram(r)) /\ Told(r, req, Resume(r))
           /\ Told(r, req, StopProgram(r)) /\ Told(r, req, PowerOff(r))
           /\ \A mode : Told(r, req, Stop(r, mode))
<1> DEFINE p == [r EXCEPT !.program_running = TRUE]
<1>1. Told(r, req, Refuse(r))
  BY SameIsCalm, CalmIsTold
<1>2. /\ Told(r, req, Accept(AtRest(r)))
      /\ Told(r, req, Accept([AtRest(r) EXCEPT !.servo_on = FALSE]))
      /\ Told(r, req, Accept(BeginMotionLocked(r)))
  BY StopsAreStill, StillIsTold
<1>3. Told(r, req, Accept(BeginMotionLocked(p)))
  <2>1. DOMAIN p = RobotFields
    BY DEF RobotFields
  <2> QED BY <2>1, StopsAreStill, StillIsTold
<1> QED BY <1>1, <1>2, <1>3
        DEF Move, StartProgram, Resume, StopProgram, PowerOff, Stop

\* The methods that have nothing to do with motion.
LEMMA OthersTold ==
    ASSUME NEW r, DOMAIN r = RobotFields, NEW req, ~Halts(req)
    PROVE  /\ Told(r, req, AcquireControl(r)) /\ Told(r, req, ReleaseControl(r))
           /\ Told(r, req, PowerOn(r)) /\ Told(r, req, ClearFault(r))
           /\ \A ratio : Told(r, req, SetGlobalSpeed(r, ratio))
           /\ \A i, v : Told(r, req, WriteDigitalOutput(r, i, v))
           /\ \A name : Told(r, req, LoadProgram(r, name))
           /\ Told(r, req, Hold(r))
<1>1. Told(r, req, Refuse(r))
  BY SameIsCalm, CalmIsTold
<1>2. /\ \A f : Calm(r, [r EXCEPT !.api_control = f])
      /\ \A f : Calm(r, [r EXCEPT !.servo_on = f])
      /\ \A f : Calm(r, [r EXCEPT !.alarm_active = f])
      /\ \A f : Calm(r, [r EXCEPT !.speed_ratio = f])
      /\ \A f : Calm(r, [r EXCEPT !.outputs = f])
      /\ \A f : Calm(r, [r EXCEPT !.program_loaded = f])
  BY DEF RobotFields, Calm, Jogs
<1>3. /\ \A f : Told(r, req, Accept([r EXCEPT !.api_control = f]))
      /\ \A f : Told(r, req, Accept([r EXCEPT !.servo_on = f]))
      /\ \A f : Told(r, req, Accept([r EXCEPT !.alarm_active = f]))
      /\ \A f : Told(r, req, Accept([r EXCEPT !.speed_ratio = f]))
      /\ \A f : Told(r, req, Accept([r EXCEPT !.outputs = f]))
      /\ \A f : Told(r, req, Accept([r EXCEPT !.program_loaded = f]))
  BY <1>2, CalmIsTold
<1>4. Told(r, req, Hold(r))
  <2> DEFINE fresh == RefreshMotionLocked(r)
             held  == [fresh EXCEPT !.moving = FALSE, !.paused = TRUE]
  <2>1. Calm(r, fresh)
    BY RefreshIsCalm
  <2> HIDE DEF fresh
  <2>2. Still(held)
    BY <2>1 DEF Calm, Still, Jogs, RobotFields
  <2> HIDE DEF held
  <2>3. Told(r, req, Accept(held)) /\ Told(r, req, Refuse(fresh))
    BY <2>1, <2>2, CalmIsTold, StillIsTold
  <2> QED BY <2>3 DEF Hold, held, fresh
<1>5. \A i, v : Told(r, req, WriteDigitalOutput(r, i, v))
  BY <1>1, <1>3 DEF WriteDigitalOutput
<1>6. \A ratio : Told(r, req, SetGlobalSpeed(r, ratio))
  BY <1>1, <1>3 DEF SetGlobalSpeed
<1>7. \A name : Told(r, req, LoadProgram(r, name))
  BY <1>1, <1>3 DEF LoadProgram
<1> QED BY <1>1, <1>3, <1>4, <1>5, <1>6, <1>7
        DEF AcquireControl, ReleaseControl, PowerOn, ClearFault

\* Every command the worker executes.
LEMMA ExecuteTold ==
    ASSUME NEW r, DOMAIN r = RobotFields, NEW req, req.type \in CommandTypes
    PROVE  Told(r, req, Execute(r, req))
<1>1. CASE req.type = "Jog"
  BY <1>1, JogTold DEF Execute
<1>2. CASE req.type \in {"MoveJ", "MoveL", "MoveC", "StartProgram", "StopProgram",
                         "Resume", "PowerOff", "Stop"}
  BY <1>2, MotionsTold DEF Execute
<1>3. CASE req.type \in {"AcquireControl", "ReleaseControl", "PowerOn", "ClearFault",
                         "SetGlobalSpeed", "WriteDigitalOutput", "LoadProgram", "Hold"}
  <2>1. ~Halts(req)
    BY <1>3 DEF Halts
  <2> QED BY <1>3, <2>1, OthersTold DEF Execute
<1> QED BY <1>1, <1>2, <1>3 DEF CommandTypes

-----------------------------------------------------------------------------
\* What the completion of a command makes of the jog: a first call and a heartbeat
\* record it, and only what ends a jog forgets it.
LEMMA CompletedJog ==
    ASSUME NEW b, Form(b), NEW id, NEW valid
    PROVE  LET req == b.commands[id].req
               c   == Completed(b, id, valid)
           IN /\ JogStart(req) => c.jog.active /\ "active" \in DOMAIN c.jog
              /\ ~JogStart(req) => c.jog = b.jog \/ (Halts(req) /\ c.jog = NoJog)
<1> DEFINE req == b.commands[id].req
           d == Finish(b, {id}, "Succeeded")
           j == [d EXCEPT !.jog = [active |-> TRUE, client |-> req.client,
                                   lease |-> req.lease, due |-> FALSE]]
           f == Finish(b, {id}, "Failed")
           a == [b EXCEPT !.active = id, !.seen = FALSE, !.grace = FALSE,
                          !.stop_requested = FALSE]
           m == CompleteActiveMotionLocked(d, "Stopped")
           p == CompleteActiveProgramLocked(d)
           c == Completed(b, id, valid)
<1>1. /\ Form(d) /\ Form(f) /\ Form(a) /\ Form(j) /\ Form(m) /\ Form(p)
  <2>1. Form(d) /\ Form(f)
    BY FinishKeeps DEF Keeps
  <2> HIDE DEF d, f
  <2>2. Form(a)
    BY DEF Form
  <2>3. Form(j)
    BY <2>1, FlagsKeep DEF Keeps
  <2>4. Form(m) /\ Form(p)
    BY <2>1, CompleteActiveMotionKeeps, CompleteActiveProgramKeeps DEF Keeps
  <2> QED BY <2>1, <2>2, <2>3, <2>4 DEF f, a, m, p
<1>2. d.jog = b.jog /\ f.jog = b.jog
  BY CancelUnmoved DEF Unmoved
<1>3. a.jog = b.jog
  BY DEF Form
<1>4. /\ j.jog.active = TRUE /\ DOMAIN j.jog = {"active", "client", "lease", "due"}
  <2> HIDE DEF d
  <2> QED BY <1>1 DEF Form
<1>5. m.jog = b.jog
  <2> HIDE DEF d
  <2>1. m \in {d, ResetActive(d), ResetActive(Finish(d, {d.active}, "Stopped"))}
    BY DEF CompleteActiveMotionLocked, FinishIfOpen
  <2>2. ResetActive(d).jog = b.jog
    BY <1>1, <1>2, ResetActiveActive
  <2>3. ResetActive(Finish(d, {d.active}, "Stopped")).jog = b.jog
    BY <1>1, <1>2, FinishKeeps, CancelUnmoved, ResetActiveActive DEF Keeps, Unmoved
  <2> QED BY <1>2, <2>1, <2>2, <2>3
<1>6. p.jog = b.jog
  BY <1>2, <1>5 DEF CompleteActiveProgramLocked
<1>7. CASE req.type \in MotionTypes
  <2>1. c \in {RequestInternalStopLocked(f), a, RequestInternalStopLocked(a)}
    BY <1>7 DEF Completed, StartMotion
  <2> HIDE DEF f, a
  <2>2. /\ RequestInternalStopLocked(f).jog = b.jog
        /\ RequestInternalStopLocked(a).jog = b.jog
    BY <1>1, <1>2, <1>3, InternalStopUnmoved DEF Unmoved
  <2>3. c.jog = b.jog
    BY <1>3, <2>1, <2>2
  <2>4. ~JogStart(req)
    BY <1>7 DEF MotionTypes, JogStart
  <2> QED BY <2>3, <2>4
<1>8. CASE JogStart(req)
  <2>1. c \in {j, RequestInternalStopLocked(j)}
    BY <1>8 DEF Completed, StartJog, JogStart, MotionTypes
  <2> HIDE DEF j
  <2>2. RequestInternalStopLocked(j).jog = j.jog
    BY <1>1, InternalStopUnmoved DEF Unmoved
  <2>3. c.jog = j.jog
    BY <2>1, <2>2
  <2> QED BY <1>4, <1>8, <2>3
<1>9. CASE Halts(req)
  <2>1. c \in {ClearActiveJogLocked(d),
               [ClearActiveJogLocked(m) EXCEPT !.stop_requested = FALSE]}
    BY <1>9 DEF Completed, Halts, MotionTypes
  <2> HIDE DEF d, m
  <2>2. /\ ClearActiveJogLocked(d).jog = NoJog
        /\ [ClearActiveJogLocked(m) EXCEPT !.stop_requested = FALSE].jog = NoJog
    BY <1>1 DEF Form, ClearActiveJogLocked
  <2>3. c.jog = NoJog
    BY <2>1, <2>2
  <2>4. ~JogStart(req)
    BY <1>9 DEF JogStart, Halts
  <2> QED BY <1>9, <2>3, <2>4
<1>10. CASE req.type \notin MotionTypes /\ ~JogStart(req) /\ ~Halts(req)
  <2>1. c \in {[p EXCEPT !.stop_requested = FALSE], d}
    BY <1>10 DEF Completed, JogStart, Halts
  <2> HIDE DEF p, d
  <2>2. [p EXCEPT !.stop_requested = FALSE].jog = b.jog
    BY <1>1, <1>6 DEF Form
  <2>3. c.jog = b.jog
    BY <1>2, <2>1, <2>2
  <2> QED BY <1>10, <2>3
<1> QED BY <1>7, <1>8, <1>9, <1>10 DEF c, req

-----------------------------------------------------------------------------
\* The command in the worker's hands, and that it was executed without error.
HeldReq == book.commands[worker.id].req
Executed == worker.pc = "complete" /\ worker.ok

\* The invariant: a jog is recorded or about to be, what ended one has left none,
\* the controller Shutdown has left does not jog, and nobody believes in a call
\* that was not made.
JogInv ==
    /\ DOMAIN robot = RobotFields
    /\ "active" \in DOMAIN book.jog
    /\ Jogs(robot) => book.jog.active \/ (Executed /\ JogStart(HeldReq))
    /\ Executed /\ Halts(HeldReq) => ~Jogs(robot)
    /\ shutdown.pc \in {"disconnected", "done"} => ~Jogs(robot)
    /\ worker.pc # "complete" => worker.ok = FALSE

\* What the steps need to know besides.
JogSound == ExecutorInv /\ KeysInv /\ JogInv

\* It implies that no jog runs unwatched.
LEMMA JogInvSuffices == JogInv => JogIsWatched
BY DEF JogInv, JogIsWatched, Jogs, Executed, JogStart, HeldReq, Type

\* It holds initially.
LEMMA JogInit == Init => JogInv
<1> SUFFICES ASSUME Init PROVE JogInv
  OBVIOUS
<1>1. robot \in Robots /\ ~robot.jog_active
  BY RobotsAssumption DEF Init
<1>2. DOMAIN robot = RobotFields
  BY <1>1 DEF Robots, RobotFields
<1>3. "active" \in DOMAIN book.jog
  BY DEF Init, EmptyLedger, NoJog
<1>4. worker.pc = "off" /\ worker.ok = FALSE
  BY DEF Init, IdleWorker
<1>5. ~Executed /\ ~Jogs(robot)
  BY <1>1, <1>4 DEF Executed, Jogs
<1> QED BY <1>2, <1>3, <1>4, <1>5 DEF JogInv

\* A step that leaves worker and jog alone and starts none in the controller.
LEMMA CalmStep ==
    ASSUME JogSound, Preserved, [Next]_vars, UNCHANGED worker, Calm(robot, robot'),
           book'.jog.active = book.jog.active, "active" \in DOMAIN book'.jog,
           shutdown'.pc \in {"disconnected", "done"} =>
               shutdown.pc \in {"disconnected", "done"} \/ ~Jogs(robot')
    PROVE  JogInv'
<1>1. Executed' => Executed /\ HeldReq' = HeldReq
  <2> SUFFICES ASSUME Executed' PROVE Executed /\ HeldReq' = HeldReq
    OBVIOUS
  <2>1. Executed /\ WorkerBusy'
    BY DEF Executed, WorkerBusy
  <2>2. ~WorkerTake
    BY <2>1 DEF Executed, WorkerTake
  <2>3. book'.commands[worker.id].req = book.commands[worker.id].req
    BY <2>1, <2>2, RequestStays DEF JogSound
  <2> QED BY <2>1, <2>3 DEF HeldReq
<1>2. Jogs(robot)' => Jogs(robot)
  BY DEF Calm, Jogs
<1>3. DOMAIN robot' = RobotFields
  BY DEF Calm
<1>4. Jogs(robot)' => book'.jog.active \/ (Executed' /\ JogStart(HeldReq)')
  <2> SUFFICES ASSUME Jogs(robot)', ~book'.jog.active
               PROVE  Executed' /\ JogStart(HeldReq)'
    OBVIOUS
  <2>1. Executed /\ JogStart(HeldReq)
    BY <1>2 DEF JogSound, JogInv
  <2>2. Executed'
    BY <2>1 DEF Executed
  <2> QED BY <1>1, <2>1, <2>2 DEF JogStart
<1>5. Executed' /\ Halts(HeldReq)' => ~Jogs(robot)'
  BY <1>1, <1>2 DEF JogSound, JogInv, Halts
<1>6. shutdown'.pc \in {"disconnected", "done"} => ~Jogs(robot)'
  BY <1>2 DEF JogSound, JogInv, Jogs
<1>7. worker'.pc # "complete" => worker'.ok = FALSE
  BY DEF JogSound, JogInv
<1> QED BY <1>3, <1>4, <1>5, <1>6, <1>7 DEF JogInv

\* The worker away from the driver: nothing jogs that was not recorded.
LEMMA WorkerCalmStep ==
    ASSUME JogSound, WorkerTake \/ WorkerExit \/ WorkerSnapshot \/ WorkerValidate
    PROVE  JogInv'
<1>1. worker.pc # "complete" /\ worker.ok = FALSE /\ worker'.ok = FALSE
  <2>1. worker.pc \in {"idle", "taken", "snapshot"} /\ worker'.ok = worker.ok
    BY DEF JogSound, ExecutorInv, StagesOK, WorkerTake, WorkerExit, WorkerSnapshot,
       WorkerValidate
  <2> QED BY <2>1 DEF JogSound, JogInv
<1>2. UNCHANGED <<robot, shutdown>>
  BY DEF WorkerTake, WorkerExit, WorkerSnapshot, WorkerValidate
<1>3. book'.jog = book.jog
  <2>1. Form(book)
    BY DEF JogSound, KeysInv
  <2>2. CASE WorkerTake
    BY <2>1, <2>2 DEF WorkerTake, Finish, Dequeue, Form
  <2> QED BY <2>2 DEF WorkerExit, WorkerSnapshot, WorkerValidate
<1>4. ~Executed /\ ~Executed'
  BY <1>1 DEF Executed
<1>5. Jogs(robot') = Jogs(robot)
  BY <1>2
<1>6. Jogs(robot') => book'.jog.active
  BY <1>3, <1>4, <1>5 DEF JogSound, JogInv
<1> QED BY <1>1, <1>2, <1>3, <1>4, <1>6 DEF JogSound, JogInv

\* The driver call: a jog that starts here is about to be recorded.
LEMMA ExecuteStep == ASSUME JogSound, WorkerExecute PROVE JogInv'
<1> DEFINE req == HeldReq
<1>1. /\ worker.pc = "execute" /\ worker'.pc = "complete" /\ worker'.id = worker.id
      /\ UNCHANGED <<book, shutdown>>
  BY DEF JogSound, ExecutorInv, StagesOK, WorkerExecute
<1>2. HeldReq' = req
  BY <1>1 DEF HeldReq
<1>3. req.type \in CommandTypes
  <2>1. worker.id \in DOMAIN book.commands
    BY <1>1 DEF JogSound, ExecutorInv, Held, WorkerBusy, StagesOK, Sound, OwnersSound
  <2> QED BY <2>1 DEF JogSound, KeysInv, TypesSound, Type, HeldReq
<1>4. PICK result \in {Execute(robot, req), Refuse(robot)} :
         robot' = result.robot /\ worker'.ok = result.ok
  <2>1. PICK result \in Outcomes(Execute(robot, req)) :
           /\ robot' = result.robot
           /\ worker' = [worker EXCEPT !.pc = "complete", !.ok = result.ok]
    BY DEF WorkerExecute, HeldReq
  <2>2. worker'.ok = result.ok
    BY <2>1 DEF JogSound, ExecutorInv, StagesOK
  <2> QED BY <2>1, <2>2 DEF Outcomes
<1>5. DOMAIN robot = RobotFields
  BY DEF JogSound, JogInv
<1>6. Told(robot, req, result)
  BY <1>3, <1>5, ExecuteTold, SameIsCalm, CalmIsTold
<1> HIDE DEF req
<1>7. DOMAIN robot' = RobotFields
  BY <1>4, <1>6 DEF Told
<1>8. Jogs(robot') => Jogs(robot) \/ (worker'.ok /\ JogStart(req))
  BY <1>4, <1>6 DEF Told
<1>9. worker'.ok /\ Halts(req) => ~Jogs(robot')
  BY <1>4, <1>6 DEF Told
<1>10. Jogs(robot) => book.jog.active
  BY <1>1 DEF JogSound, JogInv, Executed
<1>11. Executed' <=> worker'.ok
  BY <1>1 DEF Executed
<1>12. Jogs(robot)' => book'.jog.active \/ (Executed' /\ JogStart(HeldReq)')
  <2> SUFFICES ASSUME Jogs(robot)', ~book.jog.active
               PROVE  Executed' /\ JogStart(HeldReq)'
    BY <1>1
  <2>1. worker'.ok /\ JogStart(req)
    BY <1>8, <1>10 DEF Jogs
  <2> QED BY <1>1, <1>2, <2>1 DEF JogStart, Executed
<1>13. Executed' /\ Halts(HeldReq)' => ~Jogs(robot)'
  BY <1>2, <1>9 DEF Halts, Jogs, Executed
<1>14. shutdown'.pc \notin {"disconnected", "done"}
  BY <1>1 DEF JogSound, ExecutorInv, StagesOK
<1>15. "active" \in DOMAIN book'.jog /\ (worker'.pc # "complete" => worker'.ok = FALSE)
  BY <1>1 DEF JogSound, JogInv
<1> QED BY <1>7, <1>12, <1>13, <1>14, <1>15 DEF JogInv

\* The worker's report: the ledger learns of the jog, or of its end.
LEMMA ReportStep == ASSUME JogSound, WorkerComplete PROVE JogInv'
<1> DEFINE req == HeldReq
<1>1. /\ worker.pc = "complete" /\ worker'.pc = "idle" /\ worker'.ok = FALSE
      /\ UNCHANGED <<robot, shutdown>>
  BY DEF WorkerComplete, IdleWorker
<1>2. Form(book)
  BY DEF JogSound, KeysInv
<1>3. CASE worker.ok
  <2>1. PICK valid : book' = Completed(book, worker.id, valid)
    BY <1>3 DEF WorkerComplete
  <2>2. /\ JogStart(req) => book'.jog.active /\ "active" \in DOMAIN book'.jog
        /\ ~JogStart(req) => book'.jog = book.jog \/ (Halts(req) /\ book'.jog = NoJog)
    BY <1>2, <2>1, CompletedJog DEF HeldReq
  <2>3. "active" \in DOMAIN book'.jog
    <3>1. "active" \in DOMAIN NoJog /\ "active" \in DOMAIN book.jog
      BY DEF NoJog, JogSound, JogInv
    <3> HIDE DEF req
    <3> QED BY <2>2, <3>1
  <2>4. Executed
    BY <1>1, <1>3 DEF Executed
  <2>5. Jogs(robot) => book.jog.active \/ JogStart(req)
    BY DEF JogSound, JogInv
  <2>6. Halts(req) => ~Jogs(robot)
    BY <2>4 DEF JogSound, JogInv
  <2> HIDE DEF req
  <2>7. Jogs(robot) => book'.jog.active
    BY <2>2, <2>5, <2>6
  <2>8. Jogs(robot)' => book'.jog.active
    BY <1>1, <2>7 DEF Jogs
  <2> QED BY <1>1, <2>3, <2>8 DEF JogInv, JogSound, Executed, Jogs
<1>4. CASE ~worker.ok
  <2>1. book' = Finish(book, {worker.id}, "Failed")
    BY <1>4 DEF WorkerComplete
  <2>2. book'.jog = book.jog
    BY <1>2, <2>1, CancelUnmoved DEF Unmoved
  <2>3. Jogs(robot) => book.jog.active
    BY <1>4 DEF JogSound, JogInv, Executed
  <2>4. Jogs(robot)' => book'.jog.active
    BY <1>1, <2>2, <2>3 DEF Jogs
  <2> QED BY <1>1, <2>2, <2>4 DEF JogInv, JogSound, Executed, Jogs
<1> QED BY <1>3, <1>4

\* The end of Shutdown: the jog is forgotten when the controller has been left.
LEMMA ForgetStep == ASSUME JogSound, ShutdownFinish PROVE JogInv'
<1>1. /\ worker.pc = "exited" /\ UNCHANGED <<robot, worker>>
      /\ shutdown.pc = "disconnected"
  BY DEF JogSound, ExecutorInv, StagesOK, ShutdownFinish
<1>2. ~Jogs(robot)
  BY <1>1 DEF JogSound, JogInv
<1>3. book'.jog = NoJog
  <2> DEFINE c == CancelCommandsForShutdownLocked(book)
             m == CompleteActiveMotionLocked(c, IF shutdown.ok THEN "Stopped"
                                                               ELSE "Failed")
  <2>1. Form(c)
    BY CancelKeeps DEF CancelCommandsForShutdownLocked, Keeps, JogSound, KeysInv
  <2> HIDE DEF c
  <2>2. Form(m)
    BY <2>1, CompleteActiveMotionKeeps DEF Keeps
  <2> HIDE DEF m
  <2>3. [ClearActiveJogLocked(m) EXCEPT !.stop_requested = FALSE].jog = NoJog
    BY <2>2 DEF ClearActiveJogLocked, Form
  <2> QED BY <2>3 DEF ShutdownFinish, Settled, m, c
<1>4. "active" \in DOMAIN book'.jog
  <2>1. "active" \in DOMAIN NoJog
    BY DEF NoJog
  <2> QED BY <1>3, <2>1
<1>5. ~Jogs(robot)' /\ ~Executed' /\ DOMAIN robot' = RobotFields
      /\ (worker'.pc # "complete" => worker'.ok = FALSE)
  BY <1>1, <1>2 DEF Jogs, Executed, JogSound, JogInv
<1> QED BY <1>4, <1>5 DEF JogInv

\* Everybody but the worker and Start: no jog starts in the controller.
LEMMA RobotCalm ==
    ASSUME JogInv,
           \/ ShutdownStop \/ ShutdownDisconnect \/ PollRead \/ MotionEnds
           \/ ControllerEvent \/ UNCHANGED robot
    PROVE  Calm(robot, robot')
<1>1. DOMAIN robot = RobotFields /\ Calm(robot, robot)
  BY SameIsCalm DEF JogInv
<1>2. CASE UNCHANGED robot
  BY <1>1, <1>2
<1>3. CASE ShutdownStop
  <2>1. \/ robot' = robot
        \/ robot' = AtRest(robot)
        \/ robot' = [AtRest(robot) EXCEPT !.servo_on = FALSE]
    <3>1. PICK result \in Outcomes(Stop(robot, "Controlled")) : robot' = result.robot
      BY <1>3 DEF ShutdownStop
    <3>2. result \in {Refuse(robot), Accept(AtRest(robot))}
      BY DEF Outcomes, Stop
    <3> QED BY <3>1, <3>2 DEF Accept, Refuse
  <2>2. robot' = robot \/ Still(robot')
    BY <1>1, <2>1, StopsAreStill
  <2> QED BY <1>1, <2>2 DEF Still, Calm
<1>4. CASE ShutdownDisconnect
  <2>1. PICK o : robot' = Unconnected(o)
    BY <1>4 DEF ShutdownDisconnect, Disconnect, Accept
  <2> QED BY <2>1 DEF Unconnected, Calm, Jogs, RobotFields
<1>5. CASE PollRead
  BY <1>1, <1>5, RefreshIsCalm DEF PollRead
<1>6. CASE MotionEnds
  BY <1>1, <1>6 DEF MotionEnds, Calm, Jogs, RobotFields
<1>7. CASE ControllerEvent
  <2>1. /\ \A on \in BOOLEAN : Calm(robot, SetEmergencyStop(robot, on))
        /\ Calm(robot, SetAlarm(robot, TRUE))
        /\ \A mode : Calm(robot, SetControllerMode(robot, mode))
    BY <1>1 DEF SetEmergencyStop, SetAlarm, SetControllerMode, Calm, Jogs, RobotFields
  <2> QED BY <1>7, <2>1 DEF ControllerEvent
<1> QED BY <1>2, <1>3, <1>4, <1>5, <1>6, <1>7

\* What else may change is not the jog, nor the stages of the worker.
LEMMA OtherJogSteps ==
    ASSUME JogSound, Preserved, [Next]_vars,
           ~Start, ~Worker, ~ShutdownFinish
    PROVE  JogInv'
<1>1. ~WorkerComplete
  BY DEF Worker
<1>2. book'.jog.active = book.jog.active /\ "active" \in DOMAIN book'.jog
  <2>1. CASE JogDeadlinePasses
    <3>1. book'.jog = [book.jog EXCEPT !.due = TRUE]
      BY <2>1 DEF JogDeadlinePasses, JogSound, KeysInv, Form
    <3> QED BY <3>1 DEF JogSound, JogInv
  <2>2. CASE ~JogDeadlinePasses
    <3>1. book'.jog = book.jog
      BY <1>1, <2>2, LedgerStepIsMild DEF JogSound, KeysInv, Mild
    <3> QED BY <3>1 DEF JogSound, JogInv
  <2> QED BY <2>1, <2>2
<1>3. CASE \/ ShutdownStop \/ ShutdownDisconnect \/ PollRead \/ MotionEnds
           \/ ControllerEvent
  <2>1. Calm(robot, robot')
    BY <1>3, RobotCalm DEF JogSound
  <2>2. UNCHANGED worker
    BY <1>3 DEF ShutdownStop, ShutdownDisconnect, PollRead, MotionEnds,
       ControllerEvent
  <2>3. shutdown'.pc \in {"disconnected", "done"} =>
            shutdown.pc \in {"disconnected", "done"} \/ ~Jogs(robot')
    <3>1. CASE ShutdownStop
      BY <3>1 DEF ShutdownStop
    <3>2. CASE ShutdownDisconnect
      <4>1. PICK o : robot' = Unconnected(o)
        BY <3>2 DEF ShutdownDisconnect, Disconnect, Accept
      <4> QED BY <4>1 DEF Unconnected, Jogs
    <3>3. CASE PollRead \/ MotionEnds \/ ControllerEvent
      BY <3>3 DEF PollRead, MotionEnds, ControllerEvent
    <3> QED BY <1>3, <3>1, <3>2, <3>3
  <2> QED BY <1>2, <2>1, <2>2, <2>3, CalmStep
<1>4. CASE \/ ShutdownBegin \/ Calls \/ \E t \in Threads : RpcSteps(t)
           \/ PollCheck \/ PollPublish \/ LeaseLapses \/ GracePasses
           \/ JogDeadlinePasses \/ SnapshotAges
           \/ \E id \in DOMAIN book.commands : CommandTimesOut(id)
           \/ Terminated \/ UNCHANGED vars
  <2>1. UNCHANGED <<robot, worker>>
    BY <1>4 DEF ShutdownBegin, Calls, AcquireControlLease, RenewControlLease,
       ReleaseControlLease, SubmitBegin, RpcSteps, ReleaseCancel, SubmitValidate,
       SubmitEnqueue, PollCheck, PollPublish, LeaseLapses, GracePasses,
       JogDeadlinePasses, SnapshotAges, CommandTimesOut, Terminated, vars
  <2>2. shutdown'.pc \in {"disconnected", "done"} =>
            shutdown.pc \in {"disconnected", "done"}
    <3>1. CASE ShutdownBegin
      BY <3>1 DEF ShutdownBegin, JogSound, ExecutorInv, StagesOK
    <3>2. CASE ~ShutdownBegin
      <4>1. UNCHANGED shutdown
        BY <1>4, <3>2 DEF Calls, AcquireControlLease, RenewControlLease,
           ReleaseControlLease, SubmitBegin, RpcSteps, ReleaseCancel, SubmitValidate,
           SubmitEnqueue, PollCheck, PollPublish, LeaseLapses, GracePasses,
           JogDeadlinePasses, SnapshotAges, CommandTimesOut, Terminated, vars
      <4> QED BY <4>1
    <3> QED BY <3>1, <3>2
  <2>3. Calm(robot, robot')
    BY <2>1, RobotCalm DEF JogSound
  <2> QED BY <1>2, <2>1, <2>2, <2>3, CalmStep
<1> QED BY <1>3, <1>4 DEF Next, Service, ShutdownSteps, Worker, Poll, Environment

\* Start connects to a controller that does not jog.
LEMMA StartStep == ASSUME JogSound, Start PROVE JogInv'
<1>1. worker.pc = "off" /\ worker.ok = FALSE
  BY DEF JogSound, ExecutorInv, StagesOK, Start, JogInv
<1>2. worker'.pc = "idle" /\ worker'.ok = FALSE /\ UNCHANGED <<book, shutdown>>
  BY DEF Start, IdleWorker
<1>3. Calm(robot, robot')
  BY DEF Start, Connect, Accept, Refuse, Calm, Jogs, RobotFields, JogSound, JogInv
<1>4. ~Executed /\ ~Executed'
  BY <1>1, <1>2 DEF Executed
<1>5. Jogs(robot)' => book'.jog.active
  BY <1>2, <1>3, <1>4 DEF JogSound, JogInv, Calm, Jogs
<1>6. shutdown'.pc \in {"disconnected", "done"} => ~Jogs(robot)'
  BY <1>2, <1>3 DEF JogSound, JogInv, Calm, Jogs
<1> QED BY <1>2, <1>3, <1>4, <1>5, <1>6 DEF JogInv, JogSound, Calm

\* Every step keeps the invariant.
LEMMA JogStep == JogSound /\ [Next]_vars => JogSound'
<1> SUFFICES ASSUME JogSound, [Next]_vars PROVE JogSound'
  OBVIOUS
<1>1. Preserved /\ KeysInv'
  BY ExecutorStep, KeysStep DEF JogSound
<1>2. JogInv'
  BY <1>1, StartStep, WorkerCalmStep, ExecuteStep, ReportStep, ForgetStep,
     OtherJogSteps DEF Worker
<1> QED BY <1>1, <1>2 DEF JogSound, Preserved

\* However calls, heartbeats, stops, failures and the two halves of the worker's
\* step are ordered, a controller that jogs is known to the watchdog or about to
\* be reported to it.
THEOREM NoJogIsUnwatched == Spec => []JogIsWatched
<1>1. Init => JogSound
  BY ExecutorInvInit, KeysInit, JogInit DEF JogSound
<1>2. JogSound => JogIsWatched
  BY JogInvSuffices DEF JogSound
<1> QED BY <1>1, <1>2, JogStep, PTL DEF Spec

-----------------------------------------------------------------------------
\* A record whose command was reported stopped.
Reported(b, id) == id \in DOMAIN b.commands /\ State(b, id) = "Stopped"

\* From b to c no command is newly reported stopped.
Silent(b, c) == Form(c) /\ \A id : Reported(c, id) => Reported(b, id)

\* Silent operations compose.
LEMMA SilentTransitive ==
    ASSUME NEW b, NEW c, NEW d, Silent(b, c), Silent(c, d) PROVE Silent(b, d)
BY DEF Silent

\* What leaves the records alone is silent.
LEMMA SameRecordsSilent ==
    ASSUME NEW b, NEW c, Form(c), c.commands = b.commands PROVE Silent(b, c)
BY DEF Silent, Reported, State

\* Other verdicts are.
LEMMA FinishSilent ==
    ASSUME NEW b, Form(b), NEW S, NEW s, s # "Stopped"
    PROVE  Silent(b, Finish(b, S, s)) /\ \A id : Silent(b, FinishIfOpen(b, id, s))
<1>1. ASSUME NEW T PROVE Silent(b, Finish(b, T, s))
  <2> DEFINE c == Finish(b, T, s)
  <2>1. Form(c)
    BY FinishKeeps DEF Keeps
  <2>2. c.commands = [id \in DOMAIN b.commands |->
                         IF id \in T THEN [b.commands[id] EXCEPT !.state = s,
                                                                !.ended = b.ticks]
                                    ELSE b.commands[id]]
    BY DEF Finish, Form
  <2>3. \A id \in DOMAIN c.commands :
            /\ id \in DOMAIN b.commands
            /\ c.commands[id].state \in {b.commands[id].state, s}
    BY <2>2 DEF Form
  <2> HIDE DEF c
  <2>4. Silent(b, c)
    BY <2>1, <2>3 DEF Silent, Reported, State
  <2> QED BY <2>4 DEF c
<1>2. Silent(b, b)
  BY SameRecordsSilent
<1> QED BY <1>1, <1>2 DEF FinishIfOpen

\* The deque, the flags, the active motion and the jog are no verdicts.
LEMMA FieldsSilent ==
    ASSUME NEW b, Form(b)
    PROVE  /\ Silent(b, b) /\ Silent(b, ResetActive(b))
           /\ Silent(b, ClearActiveJogLocked(b))
           /\ \A S : Silent(b, Dequeue(b, S))
           /\ \A f : Silent(b, [b EXCEPT !.stop_requested = f])
           /\ \A f : Silent(b, [b EXCEPT !.active = f])
           /\ \A f : Silent(b, [b EXCEPT !.seen = f])
           /\ \A f : Silent(b, [b EXCEPT !.grace = f])
           /\ \A f : Silent(b, [b EXCEPT !.jog = f])
           /\ \A f : Silent(b, [b EXCEPT !.jog.due = f])
<1>1. Silent(b, b)
  BY SameRecordsSilent
<1>2. Silent(b, ResetActive(b))
  <2>1. Form(ResetActive(b))
    BY ResetActiveKeeps DEF Keeps
  <2>2. ResetActive(b).commands = b.commands
    BY DEF ResetActive, Form
  <2> QED BY <2>1, <2>2, SameRecordsSilent
<1>3. Silent(b, ClearActiveJogLocked(b))
  BY ClearActiveJogKeeps, SameRecordsSilent DEF Keeps, ClearActiveJogLocked, Form
<1>4. ASSUME NEW S PROVE Silent(b, Dequeue(b, S))
  BY DequeueKeeps, SameRecordsSilent DEF Keeps, Dequeue, Form
<1>5. /\ \A f : Silent(b, [b EXCEPT !.stop_requested = f])
      /\ \A f : Silent(b, [b EXCEPT !.active = f])
      /\ \A f : Silent(b, [b EXCEPT !.seen = f])
      /\ \A f : Silent(b, [b EXCEPT !.grace = f])
      /\ \A f : Silent(b, [b EXCEPT !.jog = f])
      /\ \A f : Silent(b, [b EXCEPT !.jog.due = f])
  BY FlagsKeep, SameRecordsSilent DEF Keeps, Form
<1> QED BY <1>1, <1>2, <1>3, <1>4, <1>5

\* An internal stop is queued.
LEMMA InternalStopSilent ==
    ASSUME NEW b, Form(b) PROVE Silent(b, RequestInternalStopLocked(b))
<1> DEFINE e == Enqueue(b, InternalStop, Front(b.next_id))
           c == RequestInternalStopLocked(b)
<1>1. Form(c)
  BY InternalStopKeeps DEF Keeps
<1>2. CASE b.stop_requested
  BY <1>2, FieldsSilent DEF RequestInternalStopLocked
<1>3. CASE ~b.stop_requested
  <2>1. \A id \in DOMAIN c.commands :
            \/ id \in DOMAIN b.commands /\ c.commands[id] = b.commands[id]
            \/ c.commands[id].state = "Queued"
    BY <1>3 DEF RequestInternalStopLocked, Enqueue, Form
  <2> HIDE DEF c
  <2>2. Silent(b, c)
    BY <1>1, <2>1 DEF Silent, Reported, State
  <2> QED BY <2>2 DEF c
<1> QED BY <1>2, <1>3

\* The poll thread reports success, failure and timeouts.
LEMMA UpdateSilent ==
    ASSUME NEW b, Form(b), NEW s PROVE Silent(b, UpdateActiveMotionLocked(b, s))
<1> DEFINE f == FinishIfOpen(b, b.active, "Succeeded")
           g == ResetActive(f)
           h == FinishIfOpen(b, b.active, "Failed")
           i == RequestInternalStopLocked(h)
           t == FinishIfOpen(b, b.active, "TimedOut")
           u == UpdateActiveMotionLocked(b, s)
<1>1. u \in {b, [b EXCEPT !.active = 0], [b EXCEPT !.seen = TRUE],
              RequestInternalStopLocked(t),
              ResetActive(i), [g EXCEPT !.stop_requested = FALSE]}
  BY DEF UpdateActiveMotionLocked
<1>2. Silent(b, f) /\ Silent(b, h) /\ Silent(b, t)
  BY FinishSilent
<1> HIDE DEF f, h, t, u
<1>3. Silent(b, g) /\ Silent(b, i) /\ Silent(b, RequestInternalStopLocked(t))
  <2>1. Silent(f, g) /\ Silent(h, i) /\ Silent(t, RequestInternalStopLocked(t))
    BY <1>2, FieldsSilent, InternalStopSilent DEF Silent
  <2> QED BY <1>2, <2>1, SilentTransitive
<1> HIDE DEF g, i
<1>4. Silent(b, ResetActive(i)) /\ Silent(b, [g EXCEPT !.stop_requested = FALSE])
  <2>1. Silent(i, ResetActive(i)) /\ Silent(g, [g EXCEPT !.stop_requested = FALSE])
    <3>1. Form(i) /\ Form(g)
      BY <1>3 DEF Silent
    <3> QED BY <3>1, FieldsSilent
  <2> QED BY <1>3, <2>1, SilentTransitive
<1>5. /\ Silent(b, b) /\ Silent(b, [b EXCEPT !.active = 0])
      /\ Silent(b, [b EXCEPT !.seen = TRUE])
  BY FieldsSilent
<1>6. Silent(b, u)
  BY <1>1, <1>3, <1>4, <1>5
<1> QED BY <1>6 DEF u

\* The commands that end the active motion.
Stopping(req) == req.type \in {"Stop", "PowerOff", "StopProgram"}

\* Every other command is completed without a motion being reported stopped.
LEMMA CompletedSilent ==
    ASSUME NEW b, Form(b), NEW id, NEW valid, ~Stopping(b.commands[id].req)
    PROVE  Silent(b, Completed(b, id, valid))
<1> DEFINE req == b.commands[id].req
           d == Finish(b, {id}, "Succeeded")
           j == [d EXCEPT !.jog = [active |-> TRUE, client |-> req.client,
                                   lease |-> req.lease, due |-> FALSE]]
           f == Finish(b, {id}, "Failed")
           a == [b EXCEPT !.active = id, !.seen = FALSE, !.grace = FALSE,
                          !.stop_requested = FALSE]
           c == Completed(b, id, valid)
<1>1. c \in {RequestInternalStopLocked(f), a, RequestInternalStopLocked(a),
              j, RequestInternalStopLocked(j), ClearActiveJogLocked(d), d}
  BY DEF Completed, Stopping, StartMotion, StartJog
<1>2. Silent(b, d) /\ Silent(b, f)
  BY FinishSilent
<1>3. Silent(b, a)
  <2>1. Form(a) /\ a.commands = b.commands
    BY DEF Form
  <2> QED BY <2>1, SameRecordsSilent
<1> HIDE DEF c, f, a, d
<1>4. Silent(d, j) /\ Silent(d, ClearActiveJogLocked(d))
  BY <1>2, FieldsSilent DEF Silent
<1>5. Silent(b, j) /\ Silent(b, ClearActiveJogLocked(d))
  BY <1>2, <1>4, SilentTransitive
<1> HIDE DEF j
<1>6. /\ Silent(f, RequestInternalStopLocked(f)) /\ Silent(a, RequestInternalStopLocked(a))
      /\ Silent(j, RequestInternalStopLocked(j))
  <2>1. Form(f) /\ Form(a) /\ Form(j)
    BY <1>2, <1>3, <1>5 DEF Silent
  <2> QED BY <2>1, InternalStopSilent
<1>7. Silent(b, c)
  BY <1>1, <1>2, <1>3, <1>5, <1>6, SilentTransitive
<1> QED BY <1>7 DEF c

\* A displaced command is cancelled, and so are those of a lease that is returned.
LEMMA CancelSilent ==
    ASSUME NEW b, Form(b)
    PROVE  Silent(b, MakeRoom(b)) /\ \A req : Silent(b, Released(b, req))
<1>1. ASSUME NEW S, NEW T PROVE Silent(b, Dequeue(Finish(b, S, "Cancelled"), T))
  <2> DEFINE f == Finish(b, S, "Cancelled")
  <2>1. Silent(b, f)
    BY FinishSilent
  <2> HIDE DEF f
  <2>2. Silent(f, Dequeue(f, T))
    BY <2>1, FieldsSilent DEF Silent
  <2>3. Silent(b, Dequeue(f, T))
    BY <2>1, <2>2, SilentTransitive
  <2> QED BY <2>3 DEF f
<1>2. Silent(b, MakeRoom(b))
  BY <1>1, FieldsSilent DEF MakeRoom
<1>3. ASSUME NEW req PROVE Silent(b, Released(b, req))
  <2> DEFINE c == CancelQueuedCommandsForLeaseLocked(b, req.lease, req.client)
  <2>1. Silent(b, c)
    BY <1>1, FieldsSilent DEF CancelQueuedCommandsForLeaseLocked
  <2>2. Released(b, req) \in {c, RequestInternalStopLocked(c)}
    BY DEF Released
  <2> HIDE DEF c
  <2>3. Silent(c, RequestInternalStopLocked(c))
    BY <2>1, InternalStopSilent DEF Silent
  <2> QED BY <2>1, <2>2, <2>3, SilentTransitive
<1> QED BY <1>2, <1>3

\* Pruning drops records, and a new command is queued.
LEMMA PruneSilent ==
    ASSUME NEW b, Form(b), NEW c \in PruneCommandHistoryLocked(b) PROVE Silent(b, c)
<1>1. PICK P : c = Forget(b, P)
  BY DEF PruneCommandHistoryLocked
<1>2. Form(c)
  BY PruneMild
<1>3. \A id \in DOMAIN c.commands : id \in DOMAIN b.commands /\ c.commands[id] = b.commands[id]
  BY <1>1 DEF Forget, Form
<1> QED BY <1>2, <1>3 DEF Silent, Reported, State

\* The new record has no verdict.
LEMMA InsertSilent ==
    ASSUME NEW b, Form(b), NEW req PROVE Silent(b, Insert(b, req))
<1> DEFINE c == Insert(b, req)
<1>1. Form(c)
  BY DEF Insert, Enqueue, Form, Front, Back
<1>2. \A id \in DOMAIN c.commands :
          \/ id \in DOMAIN b.commands /\ c.commands[id] = b.commands[id]
          \/ c.commands[id].state = "Queued"
  BY DEF Insert, Enqueue, Form
<1> HIDE DEF c
<1>3. Silent(b, c)
  BY <1>1, <1>2 DEF Silent, Reported, State
<1> QED BY <1>3 DEF c

\* The second critical section of Submit.
LEMMA SubmitSilent ==
    ASSUME Form(book), NEW t \in Threads, SubmitEnqueue(t) PROVE Silent(book, book')
<1> DEFINE m == MakeRoom(book)
           req == rpc[t].req
<1>1. CASE UNCHANGED book
  BY <1>1, FieldsSilent
<1>2. CASE book' # book
  <2>1. PICK p \in PruneCommandHistoryLocked(m) : book' \in {p, Insert(p, req)}
    BY <1>2 DEF SubmitEnqueue
  <2>2. Silent(book, m)
    BY CancelSilent
  <2> HIDE DEF m
  <2>3. Silent(m, p)
    BY <2>1, <2>2, PruneSilent DEF Silent
  <2>4. Silent(p, Insert(p, req))
    BY <2>3, InsertSilent DEF Silent
  <2>5. Silent(book, p) /\ Silent(book, Insert(p, req))
    BY <2>2, <2>3, <2>4, SilentTransitive
  <2> QED BY <2>1, <2>5
<1> QED BY <1>1, <1>2

\* The worker takes a command, or finds that its time is over.
LEMMA TakeSilent == ASSUME Form(book), WorkerTake PROVE Silent(book, book')
<1> DEFINE id    == FindExecutableCommandLocked(book)
           taken == Dequeue(book, {id})
           r     == [taken EXCEPT !.commands[id].state = "Running"]
<1>1. Silent(book, taken)
  BY FieldsSilent
<1>2. book' \in {Finish(taken, {id}, "TimedOut"), r}
  BY DEF WorkerTake
<1> HIDE DEF id, taken
<1>3. Form(taken)
  BY <1>1 DEF Silent
<1>4. Silent(taken, Finish(taken, {id}, "TimedOut"))
  BY <1>3, FinishSilent
<1>5. Silent(taken, r)
  <2>1. Form(r)
    BY <1>3 DEF Form
  <2>2. \A i \in DOMAIN r.commands :
            /\ i \in DOMAIN taken.commands
            /\ r.commands[i].state \in {taken.commands[i].state, "Running"}
    BY <1>3 DEF Form
  <2> HIDE DEF r
  <2> QED BY <2>1, <2>2 DEF Silent, Reported, State
<1> QED BY <1>1, <1>2, <1>4, <1>5, SilentTransitive

\* Only the completion of a stop and the end of Shutdown report a motion stopped.
LEMMA LedgerStepIsSilent ==
    ASSUME Form(book), [Next]_vars, ~ShutdownFinish,
           WorkerComplete => ~(worker.ok /\ Stopping(HeldReq))
    PROVE  Silent(book, book')
<1>1. CASE UNCHANGED book
  BY <1>1, FieldsSilent
<1>2. CASE WorkerTake
  BY <1>2, TakeSilent
<1>3. CASE WorkerComplete
  <2>1. CASE worker.ok
    BY <1>3, <2>1, CompletedSilent DEF WorkerComplete, HeldReq
  <2>2. CASE ~worker.ok
    BY <1>3, <2>2, FinishSilent DEF WorkerComplete
  <2> QED BY <2>1, <2>2
<1>4. CASE PollPublish
  <2>1. PICK u \in {UpdateActiveMotionLocked(book, latest'), book} : book' = Watched(u)
    BY <1>4 DEF PollPublish
  <2>2. Silent(book, u)
    BY <2>1, UpdateSilent, FieldsSilent
  <2>3. Silent(u, u) /\ Silent(u, RequestInternalStopLocked(u))
    BY <2>2, FieldsSilent, InternalStopSilent DEF Silent
  <2>4. book' \in {u, RequestInternalStopLocked(u)}
    BY <2>1 DEF Watched
  <2> QED BY <2>2, <2>3, <2>4, SilentTransitive
<1>5. CASE GracePasses \/ JogDeadlinePasses
  BY <1>5, FieldsSilent DEF GracePasses, JogDeadlinePasses
<1>6. CASE \E id \in DOMAIN book.commands : CommandTimesOut(id)
  <2>1. PICK id \in DOMAIN book.commands : CommandTimesOut(id)
    BY <1>6
  <2>2. book' = [book EXCEPT !.commands[id].late = TRUE]
    BY <2>1 DEF CommandTimesOut
  <2>3. Form(book')
    BY <2>2 DEF Form
  <2>4. \A i \in DOMAIN book'.commands :
            i \in DOMAIN book.commands /\ book'.commands[i].state = book.commands[i].state
    BY <2>2 DEF Form
  <2> QED BY <2>3, <2>4 DEF Silent, Reported, State
<1>7. CASE \E t \in Threads : ReleaseCancel(t) \/ SubmitEnqueue(t)
  BY <1>7, CancelSilent, SubmitSilent DEF ReleaseCancel
<1>8. CASE \/ Start \/ ShutdownBegin \/ ShutdownStop \/ ShutdownDisconnect \/ Calls
           \/ \E t \in Threads : SubmitValidate(t)
           \/ WorkerExit \/ WorkerSnapshot \/ WorkerValidate \/ WorkerExecute
           \/ PollCheck \/ PollRead
           \/ LeaseLapses \/ SnapshotAges \/ MotionEnds \/ ControllerEvent \/ Terminated
           \/ UNCHANGED vars
  <2>1. UNCHANGED book
    BY <1>8 DEF Start, ShutdownBegin, ShutdownStop, ShutdownDisconnect, Calls,
       AcquireControlLease, RenewControlLease, ReleaseControlLease, SubmitBegin,
       SubmitValidate, WorkerExit, WorkerSnapshot, WorkerValidate, WorkerExecute,
       PollCheck, PollRead, LeaseLapses, SnapshotAges, MotionEnds,
       ControllerEvent, Terminated, vars
  <2> QED BY <1>1, <2>1
<1> QED
  BY <1>2, <1>3, <1>4, <1>5, <1>6, <1>7, <1>8
     DEF Next, Service, ShutdownSteps, RpcSteps, Worker, Poll, Environment

-----------------------------------------------------------------------------
(***************************************************************************)
(* Third part: the length of the queue.  Clients fill it to MaxQueue and   *)
(* no further.  Internal stops go past that bound; how many, depends on    *)
(* how often stop_requested_ can be lowered while they wait.  What is      *)
(* counted is therefore the stops in the queue and those that may still    *)
(* join them before the worker takes one.                                  *)
(***************************************************************************)
\* What is queued: internal stops, and the commands of clients.
Internals(b) == {id \in DOMAIN b.queue : b.commands[id].req = InternalStop}
Claims(b)    == DOMAIN b.queue \ Internals(b)

\* How many internal stops the poll thread and the RPC threads may add.  The success
\* of the active motion lowers stop_requested_, and a jog may then need another one.
PollStops(b) ==
    IF b.active # 0
    THEN (IF b.jog.active THEN 1 ELSE 0) + (IF b.stop_requested THEN 0 ELSE 1)
    ELSE IF b.jog.active /\ ~b.stop_requested THEN 1 ELSE 0

\* The same when the worker is about to come back with a command of type t: a motion
\* lowers stop_requested_ and becomes active, a jog is recorded, StopProgram lowers
\* stop_requested_ and leaves the jog.
StopsToCome(b, t) ==
    IF t \in MotionTypes
    THEN IF ~b.jog.active THEN 1 ELSE IF b.stop_requested THEN 2 ELSE 3
    ELSE IF t = "Jog" THEN IF b.stop_requested THEN 0 ELSE 1
    ELSE IF t = "StopProgram"
         THEN PollStops(b) + (IF b.active # 0 \/ b.jog.active THEN 1 ELSE 0)
    ELSE PollStops(b)

Bill(b, t) == Cardinality(Internals(b)) + StopsToCome(b, t)

\* Motions and jogs are in the worker's hands only while no motion is active.
Fits(b, t) == t \in MotionTypes \cup {"Jog"} => b.active = 0

\* A ledger whose deque has records, with types for the two flags.
Placed(b) == Form(b) /\ DOMAIN b.queue \subseteq DOMAIN b.commands

HeldType == IF WorkerBusy THEN Type(book, worker.id) ELSE "None"

QueueInv == /\ Cardinality(Claims(book)) <= MaxQueue
            /\ Bill(book, HeldType) <= 3
            /\ Fits(book, HeldType)

\* From b to c no command is queued.
Sheds(b, c) == Claims(c) \subseteq Claims(b) /\ Internals(c) \subseteq Internals(b)

\* From b to c no more is queued or to come.
Affords(b, c, t) ==
    /\ Cardinality(Claims(c)) <= Cardinality(Claims(b))
    /\ Bill(c, t) <= Bill(b, t)
    /\ b.active = 0 => c.active = 0

-----------------------------------------------------------------------------
\* The queue is finite, and so is each part of it.
LEMMA QueueIsFinite ==
    ASSUME NEW b, Form(b)
    PROVE  /\ IsFiniteSet(Internals(b)) /\ Cardinality(Internals(b)) \in Nat
           /\ IsFiniteSet(Claims(b)) /\ Cardinality(Claims(b)) \in Nat
           /\ IsFiniteSet(DOMAIN b.queue)
           /\ QueueSize(b) = Cardinality(Claims(b)) + Cardinality(Internals(b))
<1> DEFINE Q == DOMAIN b.queue
<1>1. IsFiniteSet(1..(b.next_id - 1)) /\ Q \subseteq 1..(b.next_id - 1)
  BY FS_Interval DEF Form
<1>2. IsFiniteSet(Q)
  BY <1>1, FS_Subset
<1>3. Internals(b) \in SUBSET Q /\ Claims(b) \in SUBSET Q
  BY DEF Internals, Claims
<1>4. IsFiniteSet(Internals(b)) /\ IsFiniteSet(Claims(b))
  BY <1>2, <1>3, FS_Subset
<1>5. Q = Claims(b) \cup Internals(b) /\ Claims(b) \cap Internals(b) = {}
  BY <1>3 DEF Claims
<1>6. /\ Cardinality(Internals(b)) \in Nat /\ Cardinality(Claims(b)) \in Nat
  BY <1>4, FS_CardinalityType
<1>7. Cardinality(Claims(b) \cup Internals(b))
        = Cardinality(Claims(b)) + Cardinality(Internals(b))
          - Cardinality(Claims(b) \cap Internals(b))
  BY <1>4, FS_Union
<1>8. Cardinality(Claims(b) \cap Internals(b)) = 0
  BY <1>5, FS_EmptySet
<1>9. QueueSize(b) = Cardinality(Claims(b)) + Cardinality(Internals(b))
  BY <1>5, <1>6, <1>7, <1>8 DEF QueueSize
<1> QED BY <1>2, <1>4, <1>6, <1>9

\* What is shed is not counted.
LEMMA ShedsFewer ==
    ASSUME NEW b, NEW c, Form(b), Sheds(b, c)
    PROVE  /\ Cardinality(Claims(c)) <= Cardinality(Claims(b))
           /\ Cardinality(Internals(c)) <= Cardinality(Internals(b))
<1>1. IsFiniteSet(Internals(b)) /\ IsFiniteSet(Claims(b))
  BY QueueIsFinite
<1>2. Claims(c) \in SUBSET Claims(b) /\ Internals(c) \in SUBSET Internals(b)
  BY DEF Sheds
<1> QED BY <1>1, <1>2, FS_Subset

\* The stops to come are a number.
LEMMA StopsAreNumbers ==
    ASSUME NEW b, NEW t PROVE StopsToCome(b, t) \in 0..3 /\ PollStops(b) \in 0..2
BY DEF StopsToCome, PollStops

\* Critical sections compose.
LEMMA AffordsTransitive ==
    ASSUME NEW b, NEW c, NEW d, NEW t, Form(b), Form(c), Form(d),
           Affords(b, c, t), Affords(c, d, t)
    PROVE  Affords(b, d, t)
<1>1. /\ Cardinality(Claims(b)) \in Nat /\ Cardinality(Claims(c)) \in Nat
      /\ Cardinality(Claims(d)) \in Nat
  BY QueueIsFinite
<1>2. Bill(b, t) \in Nat /\ Bill(c, t) \in Nat /\ Bill(d, t) \in Nat
  BY QueueIsFinite, StopsAreNumbers DEF Bill
<1> QED BY <1>1, <1>2 DEF Affords

\* Where nothing is queued, the active motion may be given up, and stop_requested_
\* lowered with it.
LEMMA DropAffords ==
    ASSUME NEW b, NEW c, NEW t, Form(b), Form(c), Fits(b, t), Sheds(b, c),
           c.jog.active = b.jog.active, c.active \in {b.active, 0},
           \/ c.stop_requested = b.stop_requested
           \/ b.active # 0 /\ c.active = 0
    PROVE  Affords(b, c, t)
<1>1. /\ Cardinality(Claims(c)) <= Cardinality(Claims(b))
      /\ Cardinality(Internals(c)) <= Cardinality(Internals(b))
      /\ Cardinality(Internals(c)) \in Nat /\ Cardinality(Internals(b)) \in Nat
  BY ShedsFewer, QueueIsFinite
<1>2. StopsToCome(c, t) <= StopsToCome(b, t)
  BY DEF StopsToCome, PollStops, Fits
<1>3. StopsToCome(c, t) \in Nat /\ StopsToCome(b, t) \in Nat
  BY StopsAreNumbers
<1> QED BY <1>1, <1>2, <1>3 DEF Affords, Bill

\* An internal stop is one more in the queue, or was there before.
LEMMA InternalStopCounts ==
    ASSUME NEW b, Placed(b)
    PROVE  LET c == RequestInternalStopLocked(b) IN
           /\ Placed(c) /\ Claims(c) = Claims(b)
           /\ Cardinality(Internals(c)) = Cardinality(Internals(b))
                                          + (IF b.stop_requested THEN 0 ELSE 1)
           /\ c.stop_requested /\ c.active = b.active /\ c.jog = b.jog
<1> DEFINE c == RequestInternalStopLocked(b)
           n == b.next_id
<1>0. IsFiniteSet(Internals(b)) /\ Cardinality(Internals(b)) \in Nat /\ Form(b)
  BY QueueIsFinite DEF Placed
<1>1. CASE b.stop_requested
  BY <1>0, <1>1 DEF RequestInternalStopLocked, Placed
<1>2. CASE ~b.stop_requested
  <2>1. n \notin DOMAIN b.commands /\ n \notin DOMAIN b.queue
    BY DEF Placed, Form
  <2>2. /\ DOMAIN c.queue = DOMAIN b.queue \cup {n}
        /\ DOMAIN c.commands = DOMAIN b.commands \cup {n}
        /\ \A id \in DOMAIN b.commands : c.commands[id].req = b.commands[id].req
        /\ c.commands[n].req = InternalStop
        /\ c.stop_requested /\ c.active = b.active /\ c.jog = b.jog
    BY <1>0, <1>2, <2>1 DEF RequestInternalStopLocked, Enqueue, Form
  <2>3. Form(c)
    BY <1>0, InternalStopKeeps DEF Keeps
  <2> HIDE DEF c, n
  <2>4. Internals(c) = Internals(b) \cup {n} /\ Claims(c) = Claims(b)
    BY <2>1, <2>2 DEF Internals, Claims, Placed
  <2>5. n \notin Internals(b)
    BY <2>1 DEF Internals
  <2>6. Cardinality(Internals(c)) = Cardinality(Internals(b)) + 1
    BY <1>0, <2>4, <2>5, FS_AddElement
  <2> QED BY <1>2, <2>2, <2>3, <2>4, <2>6 DEF Placed, c
<1> QED BY <1>1, <1>2

\* A stop for an active motion or a jog was to come.
LEMMA InternalStopAffords ==
    ASSUME NEW b, NEW t, Placed(b), Fits(b, t), b.active # 0 \/ b.jog.active
    PROVE  LET c == RequestInternalStopLocked(b) IN
           Placed(c) /\ Affords(b, c, t) /\ Fits(c, t)
<1> DEFINE c == RequestInternalStopLocked(b)
<1>1. /\ Placed(c) /\ Claims(c) = Claims(b)
      /\ Cardinality(Internals(c)) = Cardinality(Internals(b))
                                     + (IF b.stop_requested THEN 0 ELSE 1)
      /\ c.stop_requested /\ c.active = b.active /\ c.jog = b.jog
  BY InternalStopCounts
<1> HIDE DEF c
<1>2. /\ Cardinality(Internals(b)) \in Nat /\ Cardinality(Claims(b)) \in Nat
  BY QueueIsFinite DEF Placed
<1>3. StopsToCome(c, t) + (IF b.stop_requested THEN 0 ELSE 1) <= StopsToCome(b, t)
  BY <1>1 DEF StopsToCome, PollStops, Fits
<1>4. StopsToCome(c, t) \in Nat /\ StopsToCome(b, t) \in Nat
  BY StopsAreNumbers
<1> QED BY <1>1, <1>2, <1>3, <1>4 DEF Affords, Bill, Fits, c

\* A verdict leaves the deque alone, a removal sheds.
LEMMA CancelSheds ==
    ASSUME NEW b, Placed(b), NEW S, NEW s, NEW T
    PROVE  /\ Placed(Finish(b, S, s)) /\ Placed(Dequeue(b, T))
           /\ Placed(Dequeue(Finish(b, S, s), T))
           /\ Sheds(b, Finish(b, S, s)) /\ Sheds(b, Dequeue(b, T))
           /\ Sheds(b, Dequeue(Finish(b, S, s), T))
<1>1. /\ Placed(Finish(b, S, s)) /\ Sheds(b, Finish(b, S, s))
  <2> DEFINE c == Finish(b, S, s)
  <2>1. Placed(c)
    BY DEF Finish, Placed, Form
  <2>2. /\ c.queue = b.queue /\ c.active = b.active /\ c.jog = b.jog
        /\ c.stop_requested = b.stop_requested
        /\ \A id \in DOMAIN b.queue : c.commands[id].req = b.commands[id].req
    BY DEF Finish, Placed, Form
  <2> QED BY <2>1, <2>2 DEF Sheds, Claims, Internals
<1>2. ASSUME NEW d, Placed(d) PROVE Placed(Dequeue(d, T)) /\ Sheds(d, Dequeue(d, T))
  BY <1>2 DEF Dequeue, Placed, Form, Sheds, Claims, Internals
<1> QED BY <1>1, <1>2 DEF Sheds

\* What the poll thread concludes from a snapshot.
LEMMA UpdateAffords ==
    ASSUME NEW b, NEW t, NEW s, Placed(b), Fits(b, t)
    PROVE  LET c == UpdateActiveMotionLocked(b, s) IN
           Placed(c) /\ Affords(b, c, t) /\ Fits(c, t)
<1> DEFINE f == FinishIfOpen(b, b.active, "Succeeded")
           h == FinishIfOpen(b, b.active, "Failed")
           i == RequestInternalStopLocked(h)
           o == FinishIfOpen(b, b.active, "TimedOut")
           r == RequestInternalStopLocked(o)
           u == UpdateActiveMotionLocked(b, s)
<1>1. ASSUME NEW d, Placed(d), Fits(d, t), Sheds(b, d), d.jog = b.jog,
             d.active \in {b.active, 0},
             d.stop_requested = b.stop_requested \/ (b.active # 0 /\ d.active = 0)
      PROVE  Placed(d) /\ Affords(b, d, t) /\ Fits(d, t)
  BY <1>1, DropAffords DEF Placed
<1>2. ASSUME NEW v
      PROVE  LET d == FinishIfOpen(b, b.active, v) IN
             /\ Placed(d) /\ Sheds(b, d) /\ d.active = b.active
             /\ d.jog = b.jog /\ d.stop_requested = b.stop_requested
  <2>1. /\ Placed(Finish(b, {b.active}, v)) /\ Sheds(b, Finish(b, {b.active}, v))
        /\ Finish(b, {b.active}, v).active = b.active
        /\ Finish(b, {b.active}, v).jog = b.jog
        /\ Finish(b, {b.active}, v).stop_requested = b.stop_requested
    <3>1. /\ Placed(Finish(b, {b.active}, v)) /\ Sheds(b, Finish(b, {b.active}, v))
      BY CancelSheds
    <3>2. /\ Finish(b, {b.active}, v).active = b.active
          /\ Finish(b, {b.active}, v).jog = b.jog
          /\ Finish(b, {b.active}, v).stop_requested = b.stop_requested
      BY DEF Finish, Placed, Form
    <3> QED BY <3>1, <3>2
  <2> QED BY <2>1 DEF FinishIfOpen, Sheds
<1>3. CASE b.active = 0
  <2>1. u = b
    BY <1>3 DEF UpdateActiveMotionLocked
  <2> QED BY <2>1, <1>1 DEF Sheds
<1>4. CASE b.active # 0
  <2>1. u \in {b, [b EXCEPT !.active = 0], [b EXCEPT !.seen = TRUE], r,
               ResetActive(i), [ResetActive(f) EXCEPT !.stop_requested = FALSE]}
    BY DEF UpdateActiveMotionLocked
  <2>2. Placed(o) /\ Fits(o, t) /\ Affords(b, o, t) /\ o.active = b.active
    BY <1>1, <1>2 DEF Fits
  <2>3. Placed(h) /\ Fits(h, t) /\ Affords(b, h, t) /\ h.active = b.active
    BY <1>1, <1>2 DEF Fits
  <2>4. Placed(f) /\ Sheds(b, f) /\ f.active = b.active /\ f.jog = b.jog
    BY <1>2
  <2> HIDE DEF f, h, o, u
  <2>5. Placed(r) /\ Fits(r, t) /\ Affords(o, r, t)
    BY <1>4, <2>2, InternalStopAffords
  <2>6. Placed(i) /\ Fits(i, t) /\ Affords(h, i, t)
    BY <1>4, <2>3, InternalStopAffords
  <2> HIDE DEF r, i
  <2>7. Affords(b, r, t) /\ Affords(b, i, t)
    BY <2>2, <2>3, <2>5, <2>6, AffordsTransitive DEF Placed
  <2>8. /\ Placed(ResetActive(i)) /\ Sheds(i, ResetActive(i))
        /\ ResetActive(i).jog = i.jog /\ ResetActive(i).active = 0
        /\ ResetActive(i).stop_requested = i.stop_requested
    BY <2>6 DEF ResetActive, Placed, Form, Sheds, Claims, Internals
  <2>9. Affords(i, ResetActive(i), t) /\ Fits(ResetActive(i), t)
    BY <2>6, <2>8, DropAffords DEF Placed, Fits
  <2>10. Affords(b, ResetActive(i), t)
    BY <2>6, <2>7, <2>8, <2>9, AffordsTransitive DEF Placed
  <2> DEFINE g == [ResetActive(f) EXCEPT !.stop_requested = FALSE]
  <2>11. /\ Placed(g) /\ Sheds(b, g) /\ g.jog = b.jog /\ g.active = 0
    BY <2>4 DEF ResetActive, Placed, Form, Sheds, Claims, Internals
  <2>12. Affords(b, g, t) /\ Fits(g, t)
    BY <1>1, <1>4, <2>11 DEF Fits
  <2>13. /\ Placed([b EXCEPT !.active = 0]) /\ Affords(b, [b EXCEPT !.active = 0], t)
         /\ Fits([b EXCEPT !.active = 0], t)
    <3> DEFINE d == [b EXCEPT !.active = 0]
    <3>1. /\ Placed(d) /\ Sheds(b, d) /\ d.jog = b.jog /\ d.active = 0
          /\ d.stop_requested = b.stop_requested
      BY DEF Placed, Form, Sheds, Claims, Internals
    <3> QED BY <1>1, <3>1 DEF Fits
  <2>14. /\ Placed([b EXCEPT !.seen = TRUE]) /\ Affords(b, [b EXCEPT !.seen = TRUE], t)
         /\ Fits([b EXCEPT !.seen = TRUE], t)
    <3> DEFINE d == [b EXCEPT !.seen = TRUE]
    <3>1. /\ Placed(d) /\ Sheds(b, d) /\ d.jog = b.jog /\ d.active = b.active
          /\ d.stop_requested = b.stop_requested
      BY DEF Placed, Form, Sheds, Claims, Internals
    <3> QED BY <1>1, <3>1 DEF Fits
  <2>15. Affords(b, b, t)
    BY <1>1 DEF Sheds
  <2>16. Placed(u) /\ Affords(b, u, t) /\ Fits(u, t)
    BY <2>1, <2>5, <2>7, <2>8, <2>9, <2>10, <2>11, <2>12, <2>13, <2>14, <2>15
  <2> QED BY <2>16 DEF u
<1> QED BY <1>3, <1>4

\* The watchdogs stop what was to be stopped.
LEMMA WatchedAffords ==
    ASSUME NEW b, NEW t, Placed(b), Fits(b, t)
    PROVE  Placed(Watched(b)) /\ Affords(b, Watched(b), t) /\ Fits(Watched(b), t)
<1>1. CASE Watched(b) = b
  BY <1>1, DropAffords DEF Sheds, Placed
<1>2. CASE Watched(b) # b
  <2>1. Watched(b) = RequestInternalStopLocked(b) /\ (b.active # 0 \/ b.jog.active)
    BY <1>2 DEF Watched
  <2> QED BY <2>1, InternalStopAffords
<1> QED BY <1>1, <1>2

\* So does the return of a lease, after it has cancelled what was queued with it.
LEMMA ReleasedAffords ==
    ASSUME NEW b, NEW t, NEW req, Placed(b), Fits(b, t)
    PROVE  LET c == Released(b, req) IN Placed(c) /\ Affords(b, c, t) /\ Fits(c, t)
<1> DEFINE d == CancelQueuedCommandsForLeaseLocked(b, req.lease, req.client)
           c == Released(b, req)
<1>1. Placed(d) /\ Sheds(b, d)
  BY CancelSheds DEF CancelQueuedCommandsForLeaseLocked, Sheds
<1>2. d.jog = b.jog /\ d.active = b.active /\ d.stop_requested = b.stop_requested
  BY DEF CancelQueuedCommandsForLeaseLocked, Dequeue, Finish, Placed, Form
<1>3. c = d \/ (c = RequestInternalStopLocked(d) /\ (b.active # 0 \/ b.jog.active))
  <2>1. c = IF running /\ (b.active # 0 \/ b.jog.active)
            THEN RequestInternalStopLocked(d) ELSE d
    BY DEF Released
  <2> QED BY <2>1
<1> HIDE DEF d, c
<1>4. Affords(b, d, t) /\ Fits(d, t)
  BY <1>1, <1>2, DropAffords DEF Placed, Fits
<1>5. ASSUME c = RequestInternalStopLocked(d), b.active # 0 \/ b.jog.active
      PROVE  Placed(c) /\ Affords(b, c, t) /\ Fits(c, t)
  <2>1. d.active # 0 \/ d.jog.active
    BY <1>2, <1>5
  <2>2. Placed(c) /\ Affords(d, c, t) /\ Fits(c, t)
    BY <1>1, <1>4, <1>5, <2>1, InternalStopAffords
  <2> QED BY <1>1, <1>4, <2>2, AffordsTransitive DEF Placed
<1>6. Placed(c) /\ Affords(b, c, t) /\ Fits(c, t)
  BY <1>1, <1>3, <1>4, <1>5
<1> QED BY <1>6 DEF c

-----------------------------------------------------------------------------
\* A command of a client takes the place of another one, or there is room for it.
LEMMA SubmitCounts ==
    ASSUME Form(book), NEW w \in Nat, Sound(book, w), NEW req, req # InternalStop,
           Accepts(book, req), NEW t, Fits(book, t), Cardinality(Claims(book)) <= MaxQueue,
           NEW p \in PruneCommandHistoryLocked(MakeRoom(book)),
           NEW c \in {p, Insert(p, req)}
    PROVE  Cardinality(Claims(c)) <= MaxQueue /\ Bill(c, t) <= Bill(book, t) /\ Fits(c, t)
<1> DEFINE b == book
           m == MakeRoom(b)
           n == b.next_id
<1>1. Placed(b)
  BY DEF Placed, Sound, QueueSound
<1>2. /\ Cardinality(Claims(b)) \in Nat /\ Cardinality(Internals(b)) \in Nat
      /\ IsFiniteSet(Claims(b)) /\ QueueSize(b) \in Nat
      /\ QueueSize(b) >= Cardinality(Claims(b)) /\ MaxQueue \in Nat \ {0}
  BY <1>1, QueueIsFinite, LimitsAssumption DEF Placed
<1>3. /\ Placed(m) /\ Claims(m) \subseteq Claims(b) /\ Internals(m) \subseteq Internals(b)
      /\ Cardinality(Claims(m)) < MaxQueue
      /\ m.active = b.active /\ m.jog = b.jog /\ m.stop_requested = b.stop_requested
      /\ m.next_id = n
  <2>1. CASE QueueSize(b) < MaxQueue
    <3>1. m = b
      BY <2>1 DEF MakeRoom
    <3> QED BY <1>1, <1>2, <2>1, <3>1
  <2>2. CASE ~(QueueSize(b) < MaxQueue)
    <3> DEFINE x == NewestOrdinary(b)
               f == Finish(b, {x}, "Cancelled")
    <3>1. m = Dequeue(f, {x})
      BY <2>2 DEF MakeRoom
    <3>2. x \in Ordinary(b)
      BY <2>2, NewestIsOrdinary DEF Accepts, HasRoom
    <3>3. x \in Claims(b)
      BY <3>2 DEF Ordinary, Type, Claims, Internals, InternalStop
    <3> HIDE DEF x
    <3>4. Placed(m)
      BY <1>1, <3>1, CancelSheds
    <3>5. /\ DOMAIN m.queue = DOMAIN b.queue \ {x}
          /\ DOMAIN m.commands = DOMAIN b.commands
          /\ \A id \in DOMAIN b.commands : m.commands[id].req = b.commands[id].req
          /\ m.active = b.active /\ m.jog = b.jog /\ m.stop_requested = b.stop_requested
          /\ m.next_id = n
      BY <3>1 DEF Dequeue, Finish, Form
    <3> HIDE DEF m
    <3>6. Claims(m) = Claims(b) \ {x} /\ Internals(m) \subseteq Internals(b)
      BY <1>1, <3>5 DEF Claims, Internals, Placed
    <3>7. Cardinality(Claims(m)) = Cardinality(Claims(b)) - 1
      BY <1>2, <3>3, <3>6, FS_RemoveElement
    <3> QED BY <1>2, <3>4, <3>5, <3>6, <3>7
  <2> QED BY <2>1, <2>2
<1>4. Sound(m, w)
  BY MakeRoomSound DEF Accepts
<1> HIDE DEF m
<1>5. /\ Sound(p, w) /\ p.next_id = n
      /\ DOMAIN p.commands \subseteq DOMAIN m.commands
      /\ \A id \in DOMAIN p.commands : p.commands[id] = m.commands[id]
  BY <1>3, <1>4, PruneSound DEF m
<1>6. /\ Form(p) /\ p.queue = m.queue
      /\ p.active = m.active /\ p.jog = m.jog /\ p.stop_requested = m.stop_requested
  <2>1. PICK P : p = Forget(m, P)
    BY DEF PruneCommandHistoryLocked, m
  <2> QED BY <1>3, <2>1 DEF Forget, Form, Placed
<1>7. Placed(p) /\ Claims(p) = Claims(m) /\ Internals(p) = Internals(m)
  BY <1>5, <1>6 DEF Placed, Sound, QueueSound, Claims, Internals
<1>8. /\ Cardinality(Claims(p)) < MaxQueue /\ Cardinality(Claims(p)) \in Nat
      /\ IsFiniteSet(Claims(p))
      /\ Cardinality(Internals(p)) <= Cardinality(Internals(b))
      /\ Cardinality(Internals(p)) \in Nat
  <2>1. Sheds(b, p)
    BY <1>3, <1>7 DEF Sheds
  <2> QED BY <1>1, <1>3, <1>7, <2>1, ShedsFewer, QueueIsFinite DEF Placed
<1>9. /\ Claims(c) \subseteq Claims(p) \cup {n} /\ Internals(c) = Internals(p)
      /\ c.active = b.active /\ c.jog = b.jog /\ c.stop_requested = b.stop_requested
  <2>1. CASE c = p
    BY <1>3, <1>6, <2>1
  <2>2. CASE c = Insert(p, req)
    <3>1. n \notin DOMAIN p.commands /\ n \notin DOMAIN p.queue
      BY <1>5, <1>6, <1>7 DEF Placed, Form
    <3>2. /\ DOMAIN c.queue = DOMAIN p.queue \cup {n}
          /\ \A id \in DOMAIN p.commands : c.commands[id] = p.commands[id]
          /\ c.commands[n].req = req
          /\ c.active = p.active /\ c.jog = p.jog /\ c.stop_requested = p.stop_requested
      BY <1>5, <1>6, <2>2, <3>1 DEF Insert, Enqueue, Form
    <3>3. Internals(c) = Internals(p) /\ Claims(c) \subseteq Claims(p) \cup {n}
      BY <1>7, <3>1, <3>2 DEF Internals, Claims, Placed
    <3> QED BY <1>3, <1>6, <3>2, <3>3
  <2> QED BY <2>1, <2>2
<1>10. Cardinality(Claims(c)) <= MaxQueue
  <2>1. /\ IsFiniteSet(Claims(p) \cup {n})
        /\ Cardinality(Claims(p) \cup {n}) <= Cardinality(Claims(p)) + 1
        /\ Cardinality(Claims(p) \cup {n}) \in Nat
    <3>1. /\ IsFiniteSet(Claims(p) \cup {n})
          /\ Cardinality(Claims(p) \cup {n}) =
                IF n \in Claims(p) THEN Cardinality(Claims(p)) ELSE Cardinality(Claims(p)) + 1
      BY <1>8, FS_AddElement
    <3> QED BY <1>8, <3>1
  <2>2. /\ Cardinality(Claims(c)) <= Cardinality(Claims(p) \cup {n})
        /\ IsFiniteSet(Claims(c))
    BY <1>9, <2>1, FS_Subset
  <2>3. Cardinality(Claims(c)) \in Nat
    BY <2>2, FS_CardinalityType
  <2> QED BY <1>2, <1>8, <2>1, <2>2, <2>3
<1>11. StopsToCome(c, t) = StopsToCome(b, t) /\ StopsToCome(b, t) \in Nat
  BY <1>9, StopsAreNumbers DEF StopsToCome, PollStops
<1> QED BY <1>2, <1>8, <1>9, <1>10, <1>11 DEF Bill, Fits

-----------------------------------------------------------------------------
\* The worker takes an ordinary command only when no Stop is queued.
LEMMA StopsAreTakenFirst ==
    ASSUME NEW b, Sound(b, 0), Executable(b) # {},
           Type(b, FindExecutableCommandLocked(b)) # "Stop"
    PROVE  Internals(b) = {}
<1> DEFINE id == FindExecutableCommandLocked(b)
<1>1. id \in Executable(b)
  BY FirstExecutable
<1>2. \A other \in Executable(b) : b.queue[id] <= b.queue[other]
  <2> DEFINE Q == Executable(b)
  <2>1. \E x \in Q : \A y \in Q : b.queue[x] <= b.queue[y]
    <3>1. Q \subseteq DOMAIN b.queue
      BY DEF Executable
    <3>2. \A x \in Q : b.queue[x] \in Int /\ b.queue[x] + b.next_id \in Nat
      BY <3>1, RanksBounded
    <3>3. b.next_id \in Nat
      BY DEF Sound, Shape
    <3>4. Q # {}
      OBVIOUS
    <3> HIDE DEF Q
    <3> QED BY <3>2, <3>3, <3>4, LeastExists
  <2> QED BY <2>1 DEF FindExecutableCommandLocked
<1> HIDE DEF id
<1>3. SUFFICES ASSUME NEW stop \in Internals(b) PROVE FALSE
  OBVIOUS
<1>4. stop \in DOMAIN b.queue /\ Type(b, stop) = "Stop"
  BY DEF Internals, Type, InternalStop
<1>5. stop \in Executable(b)
  BY <1>4 DEF Executable, MayRun, RunsDuringMotion
<1>6. /\ id \in DOMAIN b.queue /\ Type(b, id) # "Stop"
      /\ id \in Nat \ {0} /\ stop \in Nat \ {0}
  BY <1>1, <1>4 DEF Executable, id, Sound, QueueSound, Shape
<1>7. b.queue[stop] = -stop /\ b.queue[id] = id
  BY <1>4, <1>6 DEF Sound, QueueSound, Front, Back
<1> QED BY <1>2, <1>5, <1>6, <1>7

\* Where the queue and the flags stay, so does what is counted.
SameBill(b, c) ==
    /\ Claims(c) \subseteq Claims(b) /\ Internals(c) \subseteq Internals(b)
    /\ c.active = b.active /\ c.jog.active = b.jog.active
    /\ c.stop_requested = b.stop_requested

\* What is counted does not grow.
LEMMA SameBillAffords ==
    ASSUME NEW b, NEW c, NEW t, Form(b), Form(c), Fits(b, t), SameBill(b, c)
    PROVE  Affords(b, c, t) /\ Fits(c, t)
BY DropAffords DEF SameBill, Sheds, Fits

\* The worker takes a command: a stop leaves the queue, or none was in it.
LEMMA TakeCounts ==
    ASSUME ExecutorInv, Form(book), QueueInv, WorkerTake
    PROVE  QueueInv'
<1> DEFINE b  == book
           id == FindExecutableCommandLocked(b)
           taken == Dequeue(b, {id})
<1>1. /\ Sound(b, 0) /\ HeldType = "None" /\ Executable(b) # {} /\ ~WorkerBusy
  BY DEF ExecutorInv, Held, HeldType, WorkerTake, WorkerBusy
<1>2. Placed(b) /\ id \in Executable(b)
  BY <1>1, FirstExecutable DEF Placed, Sound, QueueSound
<1>3. /\ Cardinality(Claims(b)) <= MaxQueue /\ Bill(b, "None") <= 3
  BY <1>1 DEF QueueInv
<1>4. /\ Type(b, id) # "Stop" => Internals(b) = {}
  BY <1>1, StopsAreTakenFirst
<1> HIDE DEF id
<1>5. /\ Placed(taken) /\ SameBill(b, taken) /\ taken.commands = b.commands
  BY <1>2, CancelSheds DEF Dequeue, Placed, Form, SameBill, Sheds
<1>6. CASE worker' = worker /\ book' = Finish(taken, {id}, "TimedOut")
  <2>1. Form(book') /\ SameBill(taken, book')
    <3> HIDE DEF taken
    <3>1. Placed(book') /\ Sheds(taken, book')
      BY <1>5, <1>6, CancelSheds
    <3>2. /\ book'.active = taken.active /\ book'.jog = taken.jog
          /\ book'.stop_requested = taken.stop_requested
      BY <1>5, <1>6 DEF Finish, Placed, Form
    <3> QED BY <3>1, <3>2 DEF Placed, Sheds, SameBill
  <2>2. SameBill(b, book')
    BY <1>5, <2>1 DEF SameBill
  <2>3. HeldType' = "None" /\ Fits(b, "None")
    BY <1>1, <1>6 DEF HeldType, WorkerBusy, Fits, MotionTypes
  <2>4. Affords(b, book', "None") /\ Fits(book', "None")
    BY <1>2, <2>1, <2>2, <2>3, SameBillAffords DEF Placed
  <2>5. /\ Cardinality(Claims(book')) \in Nat /\ Cardinality(Claims(b)) \in Nat
        /\ Bill(book', "None") \in Nat /\ Bill(b, "None") \in Nat
    BY <1>2, <2>1, QueueIsFinite, StopsAreNumbers DEF Placed, Bill
  <2>6. MaxQueue \in Nat
    BY LimitsAssumption
  <2> QED BY <1>3, <2>3, <2>4, <2>5, <2>6 DEF QueueInv, Affords
<1>7. CASE /\ book' = [taken EXCEPT !.commands[id].state = "Running"]
           /\ worker' = [worker EXCEPT !.pc = "taken", !.id = id]
  <2> DEFINE t == Type(b, id)
  <2>1. /\ worker'.id = id /\ WorkerBusy'
    BY <1>7 DEF ExecutorInv, StagesOK, WorkerBusy
  <2>2. id \in DOMAIN b.commands /\ MayRun(b, id)
    BY <1>2 DEF Executable, Placed
  <2>3. /\ Form(book') /\ SameBill(taken, book') /\ Type(book', id) = t
    BY <1>5, <1>7, <2>2 DEF Placed, Form, SameBill, Type, Claims, Internals
  <2>4. HeldType' = t
    BY <2>1, <2>3 DEF HeldType
  <2>5. SameBill(b, book')
    BY <1>5, <2>3 DEF SameBill
  <2>6. Fits(b, t)
    BY <2>2 DEF MayRun, Fits, MotionTypes, RunsDuringMotion
  <2>7. Affords(b, book', t) /\ Fits(book', t)
    BY <1>2, <2>3, <2>5, <2>6, SameBillAffords DEF Placed
  <2>8. Bill(b, t) <= 3
    <3>1. CASE t = "Stop"
      <4>1. StopsToCome(b, t) = StopsToCome(b, "None")
        BY <3>1 DEF StopsToCome, MotionTypes
      <4> QED BY <1>3, <4>1 DEF Bill
    <3>2. CASE t # "Stop"
      <4>1. Cardinality(Internals(b)) = 0
        BY <1>4, <3>2, FS_EmptySet
      <4> QED BY <4>1, StopsAreNumbers DEF Bill
    <3> QED BY <3>1, <3>2
  <2>9. /\ Cardinality(Claims(book')) \in Nat /\ Cardinality(Claims(b)) \in Nat
        /\ Bill(book', t) \in Nat /\ Bill(b, t) \in Nat
    BY <1>2, <2>3, QueueIsFinite, StopsAreNumbers DEF Placed, Bill
  <2>10. MaxQueue \in Nat
    BY LimitsAssumption
  <2> QED BY <1>3, <2>4, <2>7, <2>8, <2>9, <2>10 DEF QueueInv, Affords
<1> QED BY <1>6, <1>7 DEF WorkerTake, id, taken, b

\* Nothing more is to come from the poll thread while the worker holds a command than
\* when it has come back.
LEMMA PollStopsAreFewer ==
    ASSUME NEW b, NEW t, Fits(b, t) PROVE PollStops(b) <= StopsToCome(b, t)
BY DEF StopsToCome, PollStops, Fits

\* A motion that starts leaves no more to come than was counted for it.
LEMMA StartMotionCounts ==
    ASSUME NEW b, Placed(b), NEW id, id # 0, b.active = 0, NEW valid
    PROVE  LET c == StartMotion(b, id, valid) IN
           /\ Claims(c) = Claims(b)
           /\ Cardinality(Internals(c)) + PollStops(c) =
                 Cardinality(Internals(b)) + (IF b.jog.active THEN 2 ELSE 1)
<1> DEFINE d == [b EXCEPT !.active = id, !.seen = FALSE,
                          !.grace = FALSE, !.stop_requested = FALSE]
           e == RequestInternalStopLocked(d)
           c == StartMotion(b, id, valid)
<1>1. /\ Placed(d) /\ Claims(d) = Claims(b) /\ Internals(d) = Internals(b)
      /\ d.active = id /\ ~d.stop_requested /\ d.jog = b.jog
  BY DEF Placed, Form, Claims, Internals
<1>2. c = IF valid THEN d ELSE e
  BY DEF StartMotion
<1> HIDE DEF c, d
<1>3. /\ Claims(e) = Claims(d) /\ Cardinality(Internals(e)) = Cardinality(Internals(d)) + 1
      /\ e.stop_requested /\ e.active = id /\ e.jog = b.jog
  BY <1>1, InternalStopCounts
<1>4. Cardinality(Internals(b)) \in Nat
  BY QueueIsFinite DEF Placed
<1> HIDE DEF e
<1>5. /\ PollStops(d) = (IF b.jog.active THEN 1 ELSE 0) + 1
      /\ PollStops(e) = (IF b.jog.active THEN 1 ELSE 0)
  BY <1>1, <1>3 DEF PollStops
<1> QED BY <1>1, <1>2, <1>3, <1>4, <1>5 DEF c

\* So does a jog.
LEMMA StartJogCounts ==
    ASSUME NEW b, Placed(b), b.active = 0, NEW req, NEW valid
    PROVE  LET c == StartJog(b, req, valid) IN
           /\ Claims(c) = Claims(b)
           /\ Cardinality(Internals(c)) + PollStops(c) =
                 Cardinality(Internals(b)) + (IF b.stop_requested THEN 0 ELSE 1)
<1> DEFINE d == [b EXCEPT !.jog = [active |-> TRUE, client |-> req.client,
                                   lease |-> req.lease, due |-> FALSE]]
           e == RequestInternalStopLocked(d)
           c == StartJog(b, req, valid)
<1>1. /\ Placed(d) /\ Claims(d) = Claims(b) /\ Internals(d) = Internals(b)
      /\ d.active = 0 /\ d.stop_requested = b.stop_requested /\ d.jog.active
  BY DEF Placed, Form, Claims, Internals
<1>2. c = IF valid THEN d ELSE e
  BY DEF StartJog
<1> HIDE DEF c, d
<1>3. /\ Claims(e) = Claims(d)
      /\ Cardinality(Internals(e)) =
            Cardinality(Internals(d)) + (IF b.stop_requested THEN 0 ELSE 1)
      /\ e.stop_requested /\ e.active = 0 /\ e.jog.active
  BY <1>1, InternalStopCounts
<1>4. Cardinality(Internals(b)) \in Nat
  BY QueueIsFinite DEF Placed
<1> HIDE DEF e
<1>5. /\ PollStops(d) = (IF b.stop_requested THEN 0 ELSE 1)
      /\ PollStops(e) = 0
  BY <1>1, <1>3 DEF PollStops
<1> QED BY <1>1, <1>2, <1>3, <1>4, <1>5 DEF c

\* The end of a motion or of a program queues nothing and starts nothing.
LEMMA EndingSheds ==
    ASSUME NEW b, Placed(b), NEW s
    PROVE  /\ LET c == CompleteActiveMotionLocked(b, s) IN
              Placed(c) /\ Sheds(b, c) /\ c.active = 0 /\ c.jog = b.jog
           /\ LET c == CompleteActiveProgramLocked(b) IN
              Placed(c) /\ Sheds(b, c) /\ c.active \in {b.active, 0} /\ c.jog = b.jog
<1>1. ASSUME NEW v
      PROVE  LET c == CompleteActiveMotionLocked(b, v) IN
             Placed(c) /\ Sheds(b, c) /\ c.active = 0 /\ c.jog = b.jog
  <2> DEFINE f == FinishIfOpen(b, b.active, v)
             c == CompleteActiveMotionLocked(b, v)
  <2>1. f = b \/ f = Finish(b, {b.active}, v)
    BY DEF FinishIfOpen
  <2>2. Placed(f) /\ Sheds(b, f)
    BY <2>1, CancelSheds DEF Sheds
  <2>3. f.jog = b.jog
    BY <2>1 DEF Finish, Placed, Form
  <2>4. c = IF b.active = 0 THEN b ELSE ResetActive(f)
    BY DEF CompleteActiveMotionLocked
  <2> HIDE DEF f, c
  <2>5. /\ Placed(ResetActive(f)) /\ Sheds(f, ResetActive(f))
        /\ ResetActive(f).active = 0 /\ ResetActive(f).jog = b.jog
    BY <2>2, <2>3 DEF ResetActive, Placed, Form, Sheds, Claims, Internals
  <2>6. Placed(c) /\ Sheds(b, c) /\ c.active = 0 /\ c.jog = b.jog
    BY <2>2, <2>4, <2>5 DEF Sheds
  <2> QED BY <2>6 DEF c
<1>2. LET c == CompleteActiveProgramLocked(b) IN
      Placed(c) /\ Sheds(b, c) /\ c.active \in {b.active, 0} /\ c.jog = b.jog
  BY <1>1 DEF CompleteActiveProgramLocked, Sheds
<1> QED BY <1>1, <1>2

\* A command that was executed leaves no more to come than was counted for it.
LEMMA CompletedCounts ==
    ASSUME NEW b, Placed(b), NEW w \in Nat \ {0}, NEW valid, Fits(b, Type(b, w))
    PROVE  LET c == Completed(b, w, valid) IN
           /\ Cardinality(Claims(c)) <= Cardinality(Claims(b))
           /\ Cardinality(Internals(c)) + PollStops(c) <= Bill(b, Type(b, w))
<1> DEFINE t == Type(b, w)
           req == b.commands[w].req
           d == Finish(b, {w}, "Succeeded")
           m == CompleteActiveMotionLocked(d, "Stopped")
           p == CompleteActiveProgramLocked(d)
           j == ClearActiveJogLocked(d)
           x == [ClearActiveJogLocked(m) EXCEPT !.stop_requested = FALSE]
           y == [p EXCEPT !.stop_requested = FALSE]
           c == Completed(b, w, valid)
           I == Cardinality(Internals(b))
<1>1. Placed(d) /\ Sheds(b, d)
  BY CancelSheds
<1>2. d.active = b.active /\ d.jog = b.jog /\ d.stop_requested = b.stop_requested
  BY DEF Finish, Placed, Form
<1>3. c = IF t \in MotionTypes THEN StartMotion(b, w, valid)
          ELSE IF t = "Jog" THEN IF req.payload.start THEN StartJog(d, req, valid) ELSE j
          ELSE IF t \in {"Stop", "PowerOff"} THEN x
          ELSE IF t = "StopProgram" THEN y
          ELSE d
  BY DEF Completed, Type
<1> HIDE DEF c, d
<1>4. /\ Cardinality(Claims(b)) \in Nat /\ I \in Nat
      /\ Cardinality(Claims(d)) \in Nat /\ Cardinality(Internals(d)) \in Nat
      /\ Cardinality(Claims(d)) <= Cardinality(Claims(b)) /\ Cardinality(Internals(d)) <= I
  BY <1>1, QueueIsFinite, ShedsFewer DEF Placed
<1> HIDE DEF I
<1>5. ASSUME NEW e, Placed(e), Sheds(d, e)
      PROVE  /\ Cardinality(Claims(e)) <= Cardinality(Claims(b))
             /\ Cardinality(Internals(e)) <= I /\ Cardinality(Internals(e)) \in Nat
  <2>1. Sheds(b, e)
    BY <1>1, <1>5 DEF Sheds
  <2> QED BY <1>1, <1>5, <2>1, ShedsFewer, QueueIsFinite DEF Placed, I
<1>6. CASE t \in MotionTypes
  <2>1. b.active = 0
    BY <1>6 DEF Fits
  <2>2. /\ Claims(c) = Claims(b)
        /\ Cardinality(Internals(c)) + PollStops(c) =
              I + (IF b.jog.active THEN 2 ELSE 1)
    BY <1>3, <1>6, <2>1, StartMotionCounts DEF I
  <2>3. StopsToCome(b, t) >= IF b.jog.active THEN 2 ELSE 1
    BY <1>6 DEF StopsToCome
  <2> QED BY <1>4, <2>2, <2>3, StopsAreNumbers DEF Bill, I, c
<1>7. CASE t = "Jog"
  <2>1. b.active = 0 /\ d.active = 0
    BY <1>2, <1>7 DEF Fits
  <2>2. StopsToCome(b, t) = IF b.stop_requested THEN 0 ELSE 1
    BY <1>7 DEF StopsToCome, MotionTypes
  <2>3. CASE c = StartJog(d, req, valid)
    <3>1. /\ Claims(c) = Claims(d)
          /\ Cardinality(Internals(c)) + PollStops(c) =
                Cardinality(Internals(d)) + (IF d.stop_requested THEN 0 ELSE 1)
      BY <1>1, <2>1, <2>3, StartJogCounts
    <3> QED BY <1>2, <1>4, <2>2, <3>1 DEF Bill, I, c
  <2>4. CASE c = j
    <3>1. /\ Placed(j) /\ Sheds(d, j) /\ j.active = 0 /\ ~j.jog.active
      BY <1>1, <2>1 DEF ClearActiveJogLocked, NoJog, Placed, Form, Sheds, Claims, Internals
    <3>2. PollStops(c) = 0
      BY <2>4, <3>1 DEF PollStops
    <3> HIDE DEF j
    <3> QED BY <1>4, <1>5, <2>2, <2>4, <3>1, <3>2 DEF Bill, I, c
  <2> QED BY <1>3, <1>7, <2>3, <2>4 DEF MotionTypes
<1>8. CASE t \in {"Stop", "PowerOff"}
  <2>1. Placed(m) /\ Sheds(d, m) /\ m.active = 0
    BY <1>1, EndingSheds
  <2> HIDE DEF m
  <2>2. /\ Placed(x) /\ Sheds(m, x) /\ x.active = 0 /\ ~x.jog.active
    BY <2>1 DEF ClearActiveJogLocked, NoJog, Placed, Form, Sheds, Claims, Internals
  <2> HIDE DEF x
  <2>3. Sheds(d, x) /\ PollStops(x) = 0
    BY <2>1, <2>2 DEF Sheds, PollStops
  <2>4. c = x
    BY <1>3, <1>8 DEF MotionTypes
  <2> QED BY <1>4, <1>5, <2>2, <2>3, <2>4, StopsAreNumbers DEF Bill, I, c
<1>9. CASE t = "StopProgram"
  <2>1. Placed(p) /\ Sheds(d, p) /\ p.active \in {b.active, 0} /\ p.jog = b.jog
    BY <1>1, <1>2, EndingSheds
  <2> HIDE DEF p
  <2>2. /\ Placed(y) /\ Sheds(p, y) /\ y.active \in {b.active, 0} /\ y.jog = b.jog
    BY <2>1 DEF Placed, Form, Sheds, Claims, Internals
  <2> HIDE DEF y
  <2>3. PollStops(y) <= StopsToCome(b, t)
    BY <1>9, <2>2 DEF StopsToCome, PollStops, MotionTypes
  <2>4. c = y /\ Sheds(d, y)
    BY <1>3, <1>9, <2>1, <2>2 DEF MotionTypes, Sheds
  <2> QED BY <1>4, <1>5, <2>2, <2>3, <2>4, StopsAreNumbers DEF Bill, I, c
<1>10. CASE t \notin MotionTypes \cup {"Jog", "Stop", "PowerOff", "StopProgram"}
  <2>1. c = d
    BY <1>3, <1>10
  <2>2. PollStops(d) = StopsToCome(b, t)
    BY <1>2, <1>10 DEF StopsToCome, PollStops
  <2> QED BY <1>4, <2>1, <2>2, StopsAreNumbers DEF Bill, I, c
<1> QED BY <1>6, <1>7, <1>8, <1>9, <1>10

-----------------------------------------------------------------------------
\* A step that affords what it does keeps the invariant, as long as the worker holds the
\* same command.
LEMMA AffordedStep ==
    ASSUME QueueInv, Form(book), Form(book'), HeldType' = HeldType,
           Affords(book, book', HeldType)
    PROVE  QueueInv'
<1>1. /\ Cardinality(Claims(book')) \in Nat /\ Cardinality(Claims(book)) \in Nat
      /\ Bill(book', HeldType) \in Nat /\ Bill(book, HeldType) \in Nat
  BY QueueIsFinite, StopsAreNumbers DEF Bill
<1>2. MaxQueue \in Nat
  BY LimitsAssumption
<1> QED BY <1>1, <1>2 DEF QueueInv, Affords, Fits

\* What the steps need to know: who owns which command, the form of the ledger and of
\* its jog, and that the calls are the clients'.
QueueBoundInv == ExecutorInv /\ KeysInv /\ JogInv /\ QueueInv

\* The worker's last critical section.
LEMMA CompletionCounts ==
    ASSUME QueueBoundInv, Form(book'), WorkerComplete PROVE QueueInv'
<1> DEFINE id == worker.id
           t == HeldType
<1>1. /\ WorkerBusy /\ id \in Nat \ {0} /\ t = Type(book, id) /\ Held = id
      /\ Form(book) /\ Sound(book, id)
  BY DEF WorkerComplete, WorkerBusy, HeldType, QueueBoundInv, ExecutorInv, StagesOK,
         Held, KeysInv
<1>2. Placed(book) /\ Fits(book, t) /\ Bill(book, t) <= 3
      /\ Cardinality(Claims(book)) <= MaxQueue
  BY <1>1 DEF Placed, Sound, QueueSound, QueueBoundInv, QueueInv
<1>3. HeldType' = "None"
  BY DEF WorkerComplete, IdleWorker, WorkerBusy, HeldType
<1>4. /\ Cardinality(Claims(book')) \in Nat /\ Cardinality(Claims(book)) \in Nat
      /\ Cardinality(Internals(book')) \in Nat /\ Cardinality(Internals(book)) \in Nat
      /\ Bill(book, t) \in Nat /\ MaxQueue \in Nat
  BY <1>1, QueueIsFinite, StopsAreNumbers, LimitsAssumption DEF Bill
<1>5. /\ StopsToCome(book', "None") = PollStops(book') /\ Fits(book', "None")
  BY DEF StopsToCome, MotionTypes, Fits
<1>6. SUFFICES /\ Cardinality(Claims(book')) <= Cardinality(Claims(book))
               /\ Cardinality(Internals(book')) + PollStops(book') <= Bill(book, t)
  <2>1. PollStops(book') \in Nat
    BY StopsAreNumbers
  <2> QED BY <1>2, <1>3, <1>4, <1>5, <2>1 DEF QueueInv, Bill
<1>7. CASE worker.ok
  <2>1. PICK valid : book' = Completed(book, id, valid)
    BY <1>7 DEF WorkerComplete
  <2> QED BY <1>1, <1>2, <2>1, CompletedCounts
<1>8. CASE ~worker.ok
  <2>1. book' = Finish(book, {id}, "Failed")
    BY <1>8 DEF WorkerComplete
  <2>2. Sheds(book, book')
    BY <1>2, <2>1, CancelSheds
  <2>3. /\ book'.active = book.active /\ book'.jog = book.jog
        /\ book'.stop_requested = book.stop_requested
    BY <1>1, <2>1 DEF Finish, Form
  <2>4. PollStops(book') = PollStops(book) /\ PollStops(book) <= StopsToCome(book, t)
    BY <1>2, <2>3, PollStopsAreFewer DEF PollStops
  <2>5. /\ Cardinality(Claims(book')) <= Cardinality(Claims(book))
        /\ Cardinality(Internals(book')) <= Cardinality(Internals(book))
    BY <1>1, <2>2, ShedsFewer
  <2> QED BY <1>4, <2>4, <2>5, StopsAreNumbers DEF Bill
<1> QED BY <1>7, <1>8

\* Shutdown leaves nothing to count.
LEMMA SettledCounts ==
    ASSUME QueueBoundInv, Form(book'), ShutdownFinish PROVE QueueInv'
<1>1. ~WorkerBusy /\ Sound(book, 0) /\ Form(book)
  BY DEF QueueBoundInv, ExecutorInv, StagesOK, Held, WorkerBusy, ShutdownFinish, KeysInv
<1>2. HeldType' = "None"
  BY <1>1 DEF HeldType, WorkerBusy, ShutdownFinish
<1>3. book' = Settled(book, shutdown.ok)
  BY DEF ShutdownFinish
<1>4. Sound(book', 0) /\ OpenCommands(book') = {}
  BY <1>1, <1>3, SettledSound
<1>5. DOMAIN book'.queue = {}
  BY <1>4 DEF Sound, QueueSound, OpenCommands, Terminal, CommandStates
<1>6. book'.active = 0 /\ ~book'.jog.active
  <2> DEFINE d == CancelCommandsForShutdownLocked(book)
             e == CompleteActiveMotionLocked(d, IF shutdown.ok THEN "Stopped" ELSE "Failed")
             f == ClearActiveJogLocked(e)
  <2>1. Placed(book)
    BY <1>1 DEF Placed, Sound, QueueSound
  <2>2. Placed(d)
    BY <2>1, CancelSheds DEF CancelCommandsForShutdownLocked
  <2> HIDE DEF d
  <2>3. Placed(e) /\ e.active = 0
    BY <2>2, EndingSheds
  <2>4. book' = [f EXCEPT !.stop_requested = FALSE]
    BY <1>3 DEF Settled, d
  <2> HIDE DEF e
  <2> QED BY <2>3, <2>4 DEF ClearActiveJogLocked, NoJog, Placed, Form
<1>7. Internals(book') = {} /\ Claims(book') = {}
  BY <1>5 DEF Internals, Claims
<1>8. Cardinality(Internals(book')) = 0 /\ Cardinality(Claims(book')) = 0
  BY <1>7, FS_EmptySet
<1>9. StopsToCome(book', "None") = 0 /\ Fits(book', "None")
  BY <1>6 DEF StopsToCome, PollStops, MotionTypes, Fits
<1>10. MaxQueue \in Nat
  BY LimitsAssumption
<1> QED BY <1>2, <1>8, <1>9, <1>10 DEF QueueInv, Bill

\* The worker's command keeps its type while the worker is away.
LEMMA HeldTypeStays ==
    ASSUME QueueBoundInv, Preserved, [Next]_vars,
           ~WorkerTake, ~WorkerComplete, ~ShutdownFinish
    PROVE  HeldType' = HeldType
<1>1. CASE WorkerBusy'
  BY <1>1, RequestStays DEF QueueBoundInv, HeldType, Type
<1>2. CASE ~WorkerBusy'
  <2>1. ~WorkerBusy
    <3> SUFFICES ASSUME WorkerBusy PROVE FALSE
      OBVIOUS
    <3>1. DOMAIN worker = {"pc", "id", "admits", "ok"} /\ started_once
      BY DEF QueueBoundInv, ExecutorInv, StagesOK, WorkerBusy
    <3>2. CASE Start \/ WorkerExit
      BY <3>1, <3>2 DEF Start, WorkerExit, WorkerBusy
    <3>3. CASE WorkerSnapshot \/ WorkerValidate \/ WorkerExecute
      BY <1>2, <3>1, <3>3 DEF WorkerSnapshot, WorkerValidate, WorkerExecute, WorkerBusy
    <3>4. CASE UNCHANGED worker
      BY <1>2, <3>4 DEF WorkerBusy
    <3>5. CASE \/ ShutdownBegin \/ ShutdownSteps \/ Calls \/ \E t \in Threads : RpcSteps(t)
               \/ Poll \/ Environment \/ Terminated \/ UNCHANGED vars
      <4>1. UNCHANGED worker
        BY <3>5 DEF ShutdownBegin, ShutdownSteps, ShutdownStop, ShutdownDisconnect,
           ShutdownFinish, Calls, AcquireControlLease, RenewControlLease,
           ReleaseControlLease, SubmitBegin, RpcSteps, ReleaseCancel, SubmitValidate,
           SubmitEnqueue, Poll, PollCheck, PollRead, PollPublish, Environment,
           LeaseLapses, GracePasses, JogDeadlinePasses, SnapshotAges, MotionEnds,
           ControllerEvent, CommandTimesOut, Terminated, vars
      <4> QED BY <3>4, <4>1
    <3> QED BY <3>2, <3>3, <3>5 DEF Next, Service, Worker
  <2> QED BY <1>2, <2>1 DEF HeldType
<1> QED BY <1>1, <1>2

\* The second critical section of Submit.
LEMMA SubmitKeepsBound ==
    ASSUME QueueBoundInv, HeldType' = HeldType, Form(book'),
           NEW t \in Threads, SubmitEnqueue(t)
    PROVE  QueueInv'
<1> DEFINE req == rpc[t].req
<1>1. CASE UNCHANGED book
  BY <1>1 DEF QueueBoundInv, QueueInv, Bill, StopsToCome, PollStops, Internals, Claims, Fits
<1>2. CASE book' # book
  <2>1. PICK p \in PruneCommandHistoryLocked(MakeRoom(book)) :
           book' \in {p, Insert(p, req)} /\ Accepts(book, req)
    BY <1>2 DEF SubmitEnqueue
  <2>2. req # InternalStop
    <3>1. req.client \in Clients
      BY DEF SubmitEnqueue, QueueBoundInv, KeysInv, CallsSound
    <3> QED BY <3>1, RequestersAssumption DEF InternalStop
  <2>3. /\ Form(book) /\ Held \in Nat /\ Sound(book, Held)
    BY HeldIsANumber DEF QueueBoundInv, KeysInv, ExecutorInv
  <2>4. /\ Cardinality(Claims(book)) <= MaxQueue /\ Bill(book, HeldType) <= 3
        /\ Fits(book, HeldType)
    BY DEF QueueBoundInv, QueueInv
  <2>5. /\ Cardinality(Claims(book')) <= MaxQueue
        /\ Bill(book', HeldType) <= Bill(book, HeldType) /\ Fits(book', HeldType)
    BY <2>1, <2>2, <2>3, <2>4, SubmitCounts
  <2>6. Bill(book', HeldType) \in Nat /\ Bill(book, HeldType) \in Nat
    BY <2>3, QueueIsFinite, StopsAreNumbers DEF Bill
  <2> QED BY <2>4, <2>5, <2>6 DEF QueueInv
<1> QED BY <1>1, <1>2

\* Every step keeps the bound.
LEMMA QueueBoundStep == QueueBoundInv /\ [Next]_vars => QueueBoundInv'
<1> SUFFICES ASSUME QueueBoundInv, [Next]_vars PROVE QueueBoundInv'
  OBVIOUS
<1>1. Preserved /\ KeysInv' /\ JogInv' /\ Form(book) /\ Form(book')
  BY ExecutorStep, KeysStep, JogStep DEF QueueBoundInv, KeysInv, JogSound
<1> SUFFICES QueueInv'
  BY <1>1 DEF QueueBoundInv, Preserved
<1>2. Placed(book) /\ Fits(book, HeldType) /\ QueueInv
  BY <1>1 DEF QueueBoundInv, QueueInv, ExecutorInv, Placed, Sound, QueueSound
<1>3. CASE WorkerTake
  BY <1>1, <1>3, TakeCounts DEF QueueBoundInv
<1>4. CASE WorkerComplete
  BY <1>1, <1>4, CompletionCounts
<1>5. CASE ShutdownFinish
  BY <1>1, <1>5, SettledCounts
<1>6. CASE ~WorkerTake /\ ~WorkerComplete /\ ~ShutdownFinish
  <2>1. HeldType' = HeldType
    BY <1>1, <1>6, HeldTypeStays
  <2>2. ASSUME Affords(book, book', HeldType) PROVE QueueInv'
    BY <1>1, <1>2, <2>1, <2>2, AffordedStep
  <2>3. CASE PollPublish
    <3>1. PICK u \in {UpdateActiveMotionLocked(book, latest'), book} : book' = Watched(u)
      BY <2>3 DEF PollPublish
    <3>2. Placed(u) /\ Affords(book, u, HeldType) /\ Fits(u, HeldType)
      <4>1. Affords(book, book, HeldType)
        BY <1>1, <1>2, DropAffords DEF Sheds
      <4> QED BY <1>2, <3>1, <4>1, UpdateAffords
    <3>3. Affords(u, book', HeldType)
      BY <3>1, <3>2, WatchedAffords
    <3> QED BY <1>1, <2>2, <3>2, <3>3, AffordsTransitive DEF Placed
  <2>4. CASE \E t \in Threads : ReleaseCancel(t)
    BY <1>2, <2>2, <2>4, ReleasedAffords DEF ReleaseCancel
  <2>5. CASE \E t \in Threads : SubmitEnqueue(t)
    BY <1>1, <2>1, <2>5, SubmitKeepsBound
  <2>6. CASE GracePasses \/ JogDeadlinePasses
    <3>1. /\ book'.queue = book.queue /\ book'.commands = book.commands
          /\ book'.active = book.active /\ book'.stop_requested = book.stop_requested
      BY <1>1, <2>6 DEF GracePasses, JogDeadlinePasses, Form
    <3>2. book'.jog.active = book.jog.active
      <4>1. CASE GracePasses
        BY <1>1, <4>1 DEF GracePasses, Form
      <4>2. CASE JogDeadlinePasses
        <5>1. "active" \in DOMAIN book.jog
          BY DEF QueueBoundInv, JogInv
        <5>2. book'.jog = [book.jog EXCEPT !.due = TRUE]
          BY <1>1, <4>2 DEF JogDeadlinePasses, Form
        <5> QED BY <5>1, <5>2
      <4> QED BY <2>6, <4>1, <4>2
    <3>3. SameBill(book, book')
      BY <3>1, <3>2 DEF SameBill, Claims, Internals
    <3> QED BY <1>1, <1>2, <2>2, <3>3, SameBillAffords
  <2>7. CASE \E id \in DOMAIN book.commands : CommandTimesOut(id)
    <3>1. PICK id \in DOMAIN book.commands : book' = [book EXCEPT !.commands[id].late = TRUE]
      BY <2>7 DEF CommandTimesOut
    <3>2. SameBill(book, book')
      BY <1>1, <1>2, <3>1 DEF Placed, Form, SameBill, Claims, Internals
    <3> QED BY <1>1, <1>2, <2>2, <3>2, SameBillAffords
  <2>8. CASE UNCHANGED book
    <3>1. SameBill(book, book')
      BY <2>8 DEF SameBill, Claims, Internals
    <3> QED BY <1>1, <1>2, <2>2, <3>1, SameBillAffords
  <2>9. CASE \/ Start \/ ShutdownBegin \/ ShutdownStop \/ ShutdownDisconnect \/ Calls
             \/ \E t \in Threads : SubmitValidate(t)
             \/ WorkerExit \/ WorkerSnapshot \/ WorkerValidate \/ WorkerExecute
             \/ PollCheck \/ PollRead
             \/ LeaseLapses \/ SnapshotAges \/ MotionEnds \/ ControllerEvent \/ Terminated
             \/ UNCHANGED vars
    <3>1. UNCHANGED book
      BY <2>9 DEF Start, ShutdownBegin, ShutdownStop, ShutdownDisconnect, Calls,
         AcquireControlLease, RenewControlLease, ReleaseControlLease, SubmitBegin,
         SubmitValidate, WorkerExit, WorkerSnapshot, WorkerValidate, WorkerExecute,
         PollCheck, PollRead, LeaseLapses, SnapshotAges, MotionEnds,
         ControllerEvent, Terminated, vars
    <3> QED BY <2>8, <3>1
  <2> QED BY <1>6, <2>3, <2>4, <2>5, <2>6, <2>7, <2>9
          DEF Next, Service, ShutdownSteps, RpcSteps, Worker, Poll, Environment
<1> QED BY <1>3, <1>4, <1>5, <1>6

\* At the start nothing is queued and nothing is to come.
LEMMA QueueBoundInit == Init => QueueBoundInv
<1> SUFFICES ASSUME Init PROVE QueueBoundInv
  OBVIOUS
<1>1. book = EmptyLedger /\ HeldType = "None"
  BY DEF Init, IdleWorker, HeldType, WorkerBusy
<1>2. DOMAIN book.queue = {} /\ book.active = 0 /\ ~book.jog.active
  <2>1. book.queue = <<>> /\ book.active = 0 /\ book.jog = NoJog
    BY <1>1 DEF EmptyLedger
  <2>2. DOMAIN book.queue = {}
    BY <2>1
  <2>3. NoJog.active = FALSE
    BY DEF NoJog
  <2>4. ~book.jog.active
    BY <2>1, <2>3
  <2> QED BY <2>1, <2>2, <2>4
<1>3. Internals(book) = {} /\ Claims(book) = {}
  BY <1>2 DEF Internals, Claims
<1>4. Cardinality(Internals(book)) = 0 /\ Cardinality(Claims(book)) = 0
  BY <1>3, FS_EmptySet
<1>5. StopsToCome(book, "None") = 0
  BY <1>2 DEF StopsToCome, PollStops, MotionTypes
<1>6. MaxQueue \in Nat
  BY LimitsAssumption
<1>7. QueueInv
  BY <1>1, <1>2, <1>4, <1>5, <1>6 DEF QueueInv, Bill, Fits
<1> QED BY <1>7, ExecutorInvInit, KeysInit, JogInit DEF QueueBoundInv

\* Internal stops, which no bound refuses, exceed the bound of the queue by three at
\* most, for any number of clients, threads and requests: each is asked for only while
\* none is pending, and what lowers the flag has itself ended the reason for another.
THEOREM QueueIsBounded == Spec => []QueueBounded
<1>1. QueueBoundInv => QueueBounded
  <2> SUFFICES ASSUME QueueBoundInv PROVE QueueSize(book) <= MaxQueue + 3
    BY DEF QueueBounded
  <2>1. /\ Cardinality(Claims(book)) \in Nat /\ Cardinality(Internals(book)) \in Nat
        /\ QueueSize(book) = Cardinality(Claims(book)) + Cardinality(Internals(book))
    BY QueueIsFinite DEF QueueBoundInv, KeysInv
  <2>2. StopsToCome(book, HeldType) \in Nat /\ MaxQueue \in Nat
    BY StopsAreNumbers, LimitsAssumption
  <2> QED BY <2>1, <2>2 DEF QueueBoundInv, QueueInv, Bill
<1> QED BY <1>1, QueueBoundInit, QueueBoundStep, PTL DEF Spec

-----------------------------------------------------------------------------
(***************************************************************************)
(* Fourth part: what is reported stopped.  A stop that was carried out has *)
(* left the arm at rest.  After the stop of Shutdown one command may still *)
(* make it move: the one the worker has in its hands and not yet executed. *)
(* What is shown is that no other is the active motion when Shutdown gives *)
(* its verdict.                                                            *)
(***************************************************************************)
\* The worker has a command it has not executed yet.
BeforeCall == worker.pc \in {"taken", "snapshot", "execute"}

\* The arm moves after the driver's stop: the worker has executed the command it had
\* in its hands then, and no other motion is active.
BegunLate ==
    /\ ~BeforeCall
    /\ worker.pc = "complete" => worker.id = shutdown.after
    /\ book.active \in {0, shutdown.after}

\* The invariant: what is known of the arm when the worker comes back with a stop, when
\* Shutdown has stopped the driver and when it has disconnected it.
RestInv ==
    /\ Executed /\ Stopping(HeldReq) => Rests(robot)
    /\ shutdown.pc = "stopped" =>
          /\ BeforeCall => worker.id = shutdown.after
          /\ shutdown.ok => Rests(robot) \/ BegunLate
    /\ shutdown.pc = "disconnected" /\ shutdown.ok =>
          shutdown.rest \/ book.active \in {0, shutdown.after}

RestSound == QueueBoundInv /\ RestInv

-----------------------------------------------------------------------------
\* What the worker may rely on when a stop comes back without error.
LEMMA StopsRest ==
    ASSUME NEW r, DOMAIN r = RobotFields, NEW req, Stopping(req),
           NEW result \in Outcomes(Execute(r, req)), result.ok
    PROVE  Rests(result.robot)
<1>1. Rests(AtRest(r)) /\ Rests([AtRest(r) EXCEPT !.servo_on = FALSE])
  BY DEF AtRest, RobotFields, Rests
<1>2. \A s : Refuse(s).ok = FALSE /\ Accept(s).robot = s
  BY DEF Refuse, Accept
<1>3. Execute(r, req) \in {Refuse(r), Accept(AtRest(r)),
                            Accept([AtRest(r) EXCEPT !.servo_on = FALSE])}
  <2>1. CASE req.type = "Stop"
    BY <2>1 DEF Execute, Stop
  <2>2. CASE req.type = "PowerOff"
    BY <2>2 DEF Execute, PowerOff
  <2>3. CASE req.type = "StopProgram"
    BY <2>3 DEF Execute, StopProgram
  <2> QED BY <2>1, <2>2, <2>3 DEF Stopping
<1>4. result = Execute(r, req)
  BY <1>2, <1>3 DEF Outcomes
<1> QED BY <1>1, <1>2, <1>3, <1>4

\* From rest only a motion or a jog moves the arm: there is nothing to hold or resume.
LEMMA OnlyMotionsMove ==
    ASSUME DOMAIN robot = RobotFields, Rests(robot), NEW req, req.type \in CommandTypes,
           req.type \notin MotionTypes \cup {"Jog"},
           NEW result \in Outcomes(Execute(robot, req))
    PROVE  Rests(result.robot)
<1> DEFINE r == robot
<1>1. \A s : Refuse(s).robot = s /\ Accept(s).robot = s
  BY DEF Refuse, Accept
<1>2. CASE result = Refuse(r)
  BY <1>1, <1>2
<1>3. CASE result = Execute(r, req)
  <2>1. CASE Stopping(req)
    <3>1. Execute(r, req) \in {Refuse(r), Accept(AtRest(r)),
                                Accept([AtRest(r) EXCEPT !.servo_on = FALSE])}
      BY <2>1 DEF Stopping, Execute, Stop, PowerOff, StopProgram
    <3>2. Rests(AtRest(r)) /\ Rests([AtRest(r) EXCEPT !.servo_on = FALSE])
      BY DEF AtRest, RobotFields, Rests
    <3> QED BY <1>1, <1>3, <3>1, <3>2
  <2>2. CASE req.type \in {"Hold", "Resume"}
    <3>1. RefreshMotionLocked(r) = r /\ ~r.moving /\ ~r.paused
      BY DEF RefreshMotionLocked, Rests
    <3>2. Hold(r) = Refuse(r) /\ Resume(r) = Refuse(r)
      BY <3>1 DEF Hold, Resume
    <3>3. Execute(r, req) = Refuse(r)
      BY <2>2, <3>2 DEF Execute
    <3> QED BY <1>1, <1>3, <3>3
  <2>3. CASE req.type \in {"AcquireControl", "ReleaseControl", "PowerOn", "ClearFault",
                           "SetGlobalSpeed", "WriteDigitalOutput", "LoadProgram"}
    <3> DEFINE Same(s) == s.robot.moving = r.moving /\ s.robot.paused = r.paused
    <3>1. Same(Refuse(r))
      BY <1>1
    <3>2. /\ \A f : Same(Accept([r EXCEPT !.api_control = f]))
          /\ \A f : Same(Accept([r EXCEPT !.servo_on = f]))
          /\ \A f : Same(Accept([r EXCEPT !.alarm_active = f]))
          /\ \A f : Same(Accept([r EXCEPT !.speed_ratio = f]))
          /\ \A f : Same(Accept([r EXCEPT !.outputs = f]))
          /\ \A f : Same(Accept([r EXCEPT !.program_loaded = f]))
      BY <1>1 DEF RobotFields
    <3> HIDE DEF Same
    <3>3. /\ Same(AcquireControl(r)) /\ Same(ReleaseControl(r)) /\ Same(PowerOn(r))
          /\ Same(ClearFault(r))
      BY <3>1, <3>2 DEF AcquireControl, ReleaseControl, PowerOn, ClearFault
    <3>4. /\ \A ratio : Same(SetGlobalSpeed(r, ratio))
          /\ \A i, v : Same(WriteDigitalOutput(r, i, v))
          /\ \A name : Same(LoadProgram(r, name))
      BY <3>1, <3>2 DEF SetGlobalSpeed, WriteDigitalOutput, LoadProgram
    <3>5. Same(Execute(r, req))
      BY <2>3, <3>3, <3>4 DEF Execute
    <3> QED BY <1>3, <3>5 DEF Same, Rests
  <2> QED BY <2>1, <2>2, <2>3 DEF CommandTypes, MotionTypes, Stopping
<1> QED BY <1>2, <1>3 DEF Outcomes

\* Everybody but the worker and Start leaves an arm at rest at rest.
LEMMA RestLasts ==
    ASSUME DOMAIN robot = RobotFields, Rests(robot), [Next]_vars, ~Start, ~WorkerExecute
    PROVE  Rests(robot')
<1>1. CASE UNCHANGED robot
  BY <1>1 DEF Rests
<1>2. CASE ShutdownStop
  <2>1. \/ robot' = robot
        \/ robot' = AtRest(robot)
        \/ robot' = [AtRest(robot) EXCEPT !.servo_on = FALSE]
    BY <1>2 DEF ShutdownStop, Outcomes, Stop, Accept, Refuse
  <2> QED BY <2>1 DEF Rests, AtRest, RobotFields
<1>3. CASE ShutdownDisconnect
  BY <1>3 DEF ShutdownDisconnect, Disconnect, Accept, Unconnected, Rests
<1>4. CASE PollRead
  BY <1>4 DEF PollRead, RefreshMotionLocked, Rests
<1>5. CASE MotionEnds
  BY <1>5 DEF MotionEnds, Rests
<1>6. CASE ControllerEvent
  <2>1. /\ \A on \in BOOLEAN : Rests(SetEmergencyStop(robot, on))
        /\ Rests(SetAlarm(robot, TRUE))
        /\ \A mode : Rests(SetControllerMode(robot, mode))
    BY DEF SetEmergencyStop, SetAlarm, SetControllerMode, Rests, RobotFields
  <2> QED BY <1>6, <2>1 DEF ControllerEvent
<1>7. CASE \/ ShutdownBegin \/ ShutdownFinish \/ Calls \/ \E t \in Threads : RpcSteps(t)
           \/ WorkerTake \/ WorkerExit \/ WorkerSnapshot \/ WorkerValidate
           \/ WorkerComplete \/ PollCheck \/ PollPublish
           \/ LeaseLapses \/ GracePasses \/ JogDeadlinePasses \/ SnapshotAges
           \/ \E id \in DOMAIN book.commands : CommandTimesOut(id)
           \/ Terminated \/ UNCHANGED vars
  <2>1. UNCHANGED robot
    BY <1>7 DEF ShutdownBegin, ShutdownFinish, Calls, AcquireControlLease,
       RenewControlLease, ReleaseControlLease, SubmitBegin, RpcSteps, ReleaseCancel,
       SubmitValidate, SubmitEnqueue, WorkerTake, WorkerExit, WorkerSnapshot,
       WorkerValidate, WorkerComplete, PollCheck, PollPublish, LeaseLapses, GracePasses,
       JogDeadlinePasses, SnapshotAges, CommandTimesOut, Terminated, vars
  <2> QED BY <1>1, <2>1
<1> QED BY <1>2, <1>3, <1>4, <1>5, <1>6, <1>7
        DEF Next, Service, ShutdownSteps, Worker, Poll, Environment

-----------------------------------------------------------------------------
\* The completion of a command makes no other motion active than the one completed.
LEMMA CompletedActive ==
    ASSUME NEW b, Form(b), NEW id, NEW valid
    PROVE  Completed(b, id, valid).active \in {b.active, 0, id}
<1> DEFINE req == b.commands[id].req
           d == Finish(b, {id}, "Succeeded")
           j == [d EXCEPT !.jog = [active |-> TRUE, client |-> req.client,
                                   lease |-> req.lease, due |-> FALSE]]
           f == Finish(b, {id}, "Failed")
           a == [b EXCEPT !.active = id, !.seen = FALSE, !.grace = FALSE,
                          !.stop_requested = FALSE]
           m == CompleteActiveMotionLocked(d, "Stopped")
           p == CompleteActiveProgramLocked(d)
           c == Completed(b, id, valid)
<1>1. c \in {RequestInternalStopLocked(f), a, RequestInternalStopLocked(a),
             j, RequestInternalStopLocked(j), ClearActiveJogLocked(d),
             [ClearActiveJogLocked(m) EXCEPT !.stop_requested = FALSE],
             [p EXCEPT !.stop_requested = FALSE], d}
  BY DEF Completed, StartMotion, StartJog
<1>2. /\ Form(d) /\ d.active = b.active
      /\ Form(f) /\ f.active = b.active
  BY FinishKeeps, CancelUnmoved DEF Keeps, Unmoved
<1>3. Form(a) /\ a.active = id
  BY DEF Form
<1> HIDE DEF c, f, a, d
<1>4. Form(j) /\ j.active = b.active
  BY <1>2, FlagsKeep DEF Keeps, Form
<1>5. Form(m) /\ m.active \in {b.active, 0}
  <2>1. m \in {d, ResetActive(d), ResetActive(Finish(d, {d.active}, "Stopped"))}
    BY DEF CompleteActiveMotionLocked, FinishIfOpen
  <2>2. Form(Finish(d, {d.active}, "Stopped"))
    BY <1>2, FinishKeeps DEF Keeps
  <2>3. /\ ResetActive(d).active = 0
        /\ ResetActive(Finish(d, {d.active}, "Stopped")).active = 0
    BY <1>2, <2>2, ResetActiveActive
  <2>4. Form(m)
    BY <1>2, CompleteActiveMotionKeeps DEF Keeps
  <2> QED BY <1>2, <2>1, <2>3, <2>4
<1> HIDE DEF m
<1>6. Form(p) /\ p.active \in {b.active, 0}
  BY <1>2, <1>5 DEF CompleteActiveProgramLocked, m
<1> HIDE DEF j, p
<1>7. /\ RequestInternalStopLocked(f).active = b.active
      /\ RequestInternalStopLocked(a).active = id
      /\ RequestInternalStopLocked(j).active = b.active
  BY <1>2, <1>3, <1>4, InternalStopUnmoved DEF Unmoved
<1>8. /\ ClearActiveJogLocked(d).active = b.active
      /\ [ClearActiveJogLocked(m) EXCEPT !.stop_requested = FALSE].active \in {b.active, 0}
      /\ [p EXCEPT !.stop_requested = FALSE].active \in {b.active, 0}
  BY <1>2, <1>5, <1>6 DEF ClearActiveJogLocked, Form
<1>9. c.active \in {b.active, 0, id}
  BY <1>1, <1>2, <1>3, <1>4, <1>7, <1>8
<1> QED BY <1>9 DEF c

\* The end of Shutdown reports only the active motion stopped, and only when the driver
\* was stopped.
LEMMA SettledReports ==
    ASSUME NEW b, Form(b), NEW stopped, NEW id, Reported(Settled(b, stopped), id)
    PROVE  Reported(b, id) \/ (stopped /\ id = b.active)
<1> DEFINE s == IF stopped THEN "Stopped" ELSE "Failed"
           d == CancelCommandsForShutdownLocked(b)
           f == FinishIfOpen(d, d.active, s)
           e == CompleteActiveMotionLocked(d, s)
           j == ClearActiveJogLocked(e)
           c == Settled(b, stopped)
<1>1. Silent(b, d) /\ d.active = b.active
  <2> DEFINE T == {i \in DOMAIN b.queue : IsOpen(b, i)}
             g == Finish(b, T, "Cancelled")
  <2> HIDE DEF T
  <2>1. Silent(b, g) /\ g.active = b.active
    <3>1. Silent(b, g)
      BY FinishSilent
    <3>2. Unmoved(b, g)
      BY CancelUnmoved
    <3> QED BY <3>1, <3>2 DEF Unmoved
  <2> HIDE DEF g
  <2>2. Silent(g, Dequeue(g, DOMAIN b.queue))
    BY <2>1, FieldsSilent DEF Silent
  <2>3. Dequeue(g, DOMAIN b.queue).active = g.active
    BY <2>1 DEF Dequeue, Silent, Form
  <2> QED BY <2>1, <2>2, <2>3, SilentTransitive DEF CancelCommandsForShutdownLocked, g, T
<1> HIDE DEF d
<1>2. Form(f) /\ (Reported(f, id) => Reported(d, id) \/ (stopped /\ id = d.active))
  <2>1. CASE ~stopped
    BY <1>1, <2>1, FinishSilent DEF Silent
  <2>2. CASE stopped
    <3>1. Form(Finish(d, {d.active}, s))
      BY <1>1, FinishKeeps DEF Keeps, Silent
    <3>2. ASSUME id # d.active
          PROVE  Reported(Finish(d, {d.active}, s), id) => Reported(d, id)
      BY <1>1, <3>2 DEF Finish, Silent, Form, Reported, State
    <3> QED BY <1>1, <2>2, <3>1, <3>2 DEF FinishIfOpen, Silent
  <2> QED BY <2>1, <2>2
<1>3. Reported(e, id) => Reported(d, id) \/ (stopped /\ id = d.active)
  <2>1. e \in {d, ResetActive(f)}
    BY DEF CompleteActiveMotionLocked
  <2> HIDE DEF f
  <2>2. Silent(f, ResetActive(f))
    BY <1>2, FieldsSilent
  <2> QED BY <1>2, <2>1, <2>2 DEF Silent
<1>4. Form(e)
  BY <1>1, CompleteActiveMotionKeeps DEF Silent, Keeps
<1> HIDE DEF e
<1>5. Silent(e, j)
  BY <1>4, FieldsSilent
<1> HIDE DEF j
<1>6. c.commands = j.commands
  BY <1>5 DEF Settled, Silent, Form, j, e, d
<1>7. Reported(j, id)
  BY <1>6 DEF Reported, State
<1> QED BY <1>1, <1>3, <1>5, <1>7 DEF Silent

-----------------------------------------------------------------------------
\* It holds initially, when nothing was executed.
LEMMA RestInit == Init => RestInv
<1> SUFFICES ASSUME Init PROVE RestInv
  OBVIOUS
<1>1. worker.pc = "off" /\ shutdown.pc = "none"
  BY DEF Init, IdleWorker, NoShutdown
<1> QED BY <1>1 DEF RestInv, Executed

\* The driver call of a command: a stop brings the arm to rest, and what moves it from
\* rest finds no motion active.
LEMMA RestExecute == ASSUME RestSound, WorkerExecute PROVE RestInv'
<1> DEFINE req == HeldReq
<1>0. ExecutorInv /\ KeysInv /\ JogInv /\ QueueInv /\ StagesOK
  BY DEF RestSound, QueueBoundInv, ExecutorInv
<1>1. /\ worker.pc = "execute" /\ worker'.pc = "complete" /\ worker'.id = worker.id
      /\ UNCHANGED <<book, shutdown>>
  BY <1>0 DEF StagesOK, WorkerExecute
<1>2. HeldReq' = req
  BY <1>1 DEF HeldReq
<1>3. PICK result \in Outcomes(Execute(robot, req)) :
         robot' = result.robot /\ worker'.ok = result.ok
  BY <1>0 DEF WorkerExecute, HeldReq, StagesOK
<1>4. shutdown.pc \notin {"disconnected", "done"}
  BY <1>0, <1>1 DEF StagesOK
<1>5. DOMAIN robot = RobotFields
  BY <1>0 DEF JogInv
<1>6. req.type \in CommandTypes /\ (req.type \in MotionTypes \cup {"Jog"} => book.active = 0)
  <2>1. worker.id \in DOMAIN book.commands
    BY <1>0, <1>1 DEF ExecutorInv, Held, WorkerBusy, StagesOK, Sound, OwnersSound
  <2>2. HeldType = req.type
    BY <1>1 DEF HeldType, WorkerBusy, Type, HeldReq
  <2> QED BY <1>0, <2>1, <2>2 DEF KeysInv, TypesSound, Type, HeldReq, QueueInv, Fits
<1> HIDE DEF req
<1>7. ASSUME worker'.ok, Stopping(req) PROVE Rests(robot')
  BY <1>3, <1>5, <1>7, StopsRest
<1>8. Executed' /\ Stopping(HeldReq)' => Rests(robot)'
  BY <1>2, <1>7 DEF Executed, Stopping, Rests
<1>9. ASSUME shutdown.pc = "stopped", shutdown.ok PROVE Rests(robot') \/ BegunLate'
  <2>1. worker.id = shutdown.after /\ Rests(robot)
    BY <1>1, <1>9 DEF RestSound, RestInv, BeforeCall, BegunLate
  <2>2. req.type \notin MotionTypes \cup {"Jog"} => Rests(robot')
    BY <1>3, <1>5, <1>6, <2>1, OnlyMotionsMove
  <2>3. book.active = 0 => BegunLate'
    BY <1>1, <2>1 DEF BegunLate, BeforeCall
  <2> QED BY <1>6, <2>2, <2>3
<1>10. ~BeforeCall'
  BY <1>1 DEF BeforeCall
<1> QED BY <1>1, <1>4, <1>8, <1>9, <1>10 DEF RestInv, Rests

\* The worker is done with its command.
LEMMA RestComplete ==
    ASSUME RestSound, WorkerComplete PROVE RestInv'
<1>1. /\ worker.pc = "complete" /\ worker'.pc = "idle" /\ UNCHANGED <<robot, shutdown>>
  BY DEF WorkerComplete, IdleWorker
<1>2. Form(book) /\ shutdown.pc # "disconnected"
  BY <1>1 DEF RestSound, QueueBoundInv, KeysInv, ExecutorInv, StagesOK
<1>3. book'.active \in {book.active, 0, worker.id}
  <2>1. CASE worker.ok
    BY <1>2, <2>1, CompletedActive DEF WorkerComplete
  <2>2. CASE ~worker.ok
    BY <1>2, <2>2, CancelUnmoved DEF WorkerComplete, Unmoved
  <2> QED BY <2>1, <2>2
<1>4. ~BeforeCall' /\ ~Executed'
  BY <1>1 DEF BeforeCall, Executed
<1>5. ASSUME shutdown.pc = "stopped", shutdown.ok PROVE Rests(robot)' \/ BegunLate'
  <2>1. CASE Rests(robot)
    BY <1>1, <2>1 DEF Rests
  <2>2. CASE BegunLate
    BY <1>1, <1>3, <1>4, <2>2 DEF BegunLate
  <2> QED BY <1>5, <2>1, <2>2 DEF RestSound, RestInv
<1> QED BY <1>1, <1>2, <1>4, <1>5 DEF RestInv

\* A step that is no step of the worker's hands, and not one of Shutdown.
Aside == /\ ~Start /\ ~ShutdownSteps /\ ~ShutdownBegin
         /\ ~WorkerTake /\ ~WorkerExecute /\ ~WorkerComplete

\* Between its call and its report the worker and the records stay as they are.
LEMMA ExecutedStays ==
    ASSUME RestSound, [Next]_vars, ~WorkerExecute, ~WorkerComplete, Executed'
    PROVE  Executed /\ HeldReq' = HeldReq
<1>0. /\ ExecutorInv /\ KeysInv /\ JogInv /\ StagesOK /\ Preserved
  BY ExecutorStep DEF RestSound, QueueBoundInv, ExecutorInv
<1>1. worker'.pc = "complete" /\ worker'.ok /\ WorkerBusy'
  BY DEF Executed, WorkerBusy
<1>2. ~WorkerTake /\ ~Start /\ UNCHANGED worker
  <2>1. CASE WorkerTake \/ WorkerValidate \/ WorkerExit \/ WorkerSnapshot
    <3>1. worker.pc # "complete" /\ worker'.ok = worker.ok
      BY <1>0, <2>1 DEF WorkerTake, WorkerValidate, WorkerExit, WorkerSnapshot, StagesOK
    <3> QED BY <1>0, <1>1, <3>1 DEF JogInv
  <2>2. CASE Start
    BY <1>1, <2>2 DEF Start, IdleWorker
  <2>3. CASE ~Worker /\ ~Start
    <3>1. UNCHANGED worker
      BY <2>3
         DEF Next, Service, ShutdownBegin, ShutdownSteps, ShutdownStop,
             ShutdownDisconnect, ShutdownFinish, Calls, AcquireControlLease,
             RenewControlLease, ReleaseControlLease, SubmitBegin, RpcSteps,
             ReleaseCancel, SubmitValidate, SubmitEnqueue, Poll, PollCheck,
             PollRead, PollPublish, Environment, LeaseLapses, GracePasses,
             JogDeadlinePasses, SnapshotAges, MotionEnds, ControllerEvent,
             CommandTimesOut, Terminated, vars
    <3>2. ~WorkerTake
      BY <2>3 DEF Worker
    <3> QED BY <2>3, <3>1, <3>2
  <2> QED BY <2>1, <2>2, <2>3 DEF Worker
<1>3. book'.commands[worker.id].req = book.commands[worker.id].req
  BY <1>0, <1>1, <1>2, RequestStays
<1> QED BY <1>1, <1>2, <1>3 DEF Executed, HeldReq

\* Such a step leaves Shutdown alone, puts no command into the worker's hands and
\* makes no motion active.
LEMMA AsideStep ==
    ASSUME RestSound, [Next]_vars, Aside
    PROVE  /\ UNCHANGED shutdown
           /\ BeforeCall' => BeforeCall /\ worker'.id = worker.id
           /\ worker'.pc = "complete" =>
                 (BeforeCall \/ worker.pc = "complete") /\ worker'.id = worker.id
           /\ book'.active \in {book.active, 0}
<1>0. ExecutorInv /\ StagesOK /\ Form(book)
  BY DEF RestSound, QueueBoundInv, ExecutorInv, KeysInv
<1>1. UNCHANGED shutdown
  BY DEF Aside, Next, Service, ShutdownSteps, Calls, AcquireControlLease,
         RenewControlLease, ReleaseControlLease, SubmitBegin, RpcSteps,
         ReleaseCancel, SubmitValidate, SubmitEnqueue, Worker, WorkerExit,
         WorkerSnapshot, WorkerValidate, Poll, PollCheck, PollRead, PollPublish,
         Environment, LeaseLapses, GracePasses, JogDeadlinePasses, SnapshotAges,
         MotionEnds, ControllerEvent, CommandTimesOut, Terminated, vars
<1>2. /\ BeforeCall' => BeforeCall /\ worker'.id = worker.id
      /\ worker'.pc = "complete" =>
            (BeforeCall \/ worker.pc = "complete") /\ worker'.id = worker.id
  <2>1. CASE WorkerExit \/ WorkerSnapshot \/ WorkerValidate
    BY <1>0, <2>1 DEF WorkerExit, WorkerSnapshot, WorkerValidate, StagesOK, BeforeCall
  <2>2. CASE ~(WorkerExit \/ WorkerSnapshot \/ WorkerValidate)
    <3>1. UNCHANGED worker
      BY <2>2
         DEF Aside, Next, Service, ShutdownSteps, Calls, AcquireControlLease,
             RenewControlLease, ReleaseControlLease, SubmitBegin, RpcSteps,
             ReleaseCancel, SubmitValidate, SubmitEnqueue, Worker, Poll, PollCheck,
             PollRead, PollPublish, Environment, LeaseLapses, GracePasses,
             JogDeadlinePasses, SnapshotAges, MotionEnds, ControllerEvent,
             CommandTimesOut, Terminated, vars
    <3> QED BY <3>1 DEF BeforeCall
  <2> QED BY <2>1, <2>2
<1>3. book'.active \in {book.active, 0}
  <2>1. CASE JogDeadlinePasses
    BY <1>0, <2>1 DEF JogDeadlinePasses, Form
  <2>2. CASE ~JogDeadlinePasses
    BY <1>0, <2>2, LedgerStepIsMild DEF Aside, ShutdownSteps, Mild
  <2> QED BY <2>1, <2>2
<1> QED BY <1>1, <1>2, <1>3

\* Every step keeps the invariant.
LEMMA RestStep == RestSound /\ [Next]_vars => RestSound'
<1> SUFFICES ASSUME RestSound, [Next]_vars PROVE RestInv'
  BY QueueBoundStep DEF RestSound
<1>0. ExecutorInv /\ StagesOK /\ DOMAIN robot = RobotFields
  BY DEF RestSound, QueueBoundInv, ExecutorInv, JogInv
<1>1. CASE WorkerExecute
  BY <1>1, RestExecute
<1>2. CASE WorkerComplete
  BY <1>2, RestComplete
<1>3. CASE Start
  BY <1>0, <1>3 DEF Start, IdleWorker, RestInv, Executed, StagesOK
<1> SUFFICES ASSUME ~WorkerExecute, ~WorkerComplete, ~Start PROVE RestInv'
  BY <1>1, <1>2, <1>3
<1>4. Rests(robot) => Rests(robot')
  BY <1>0, RestLasts
<1>5. Executed' /\ Stopping(HeldReq)' => Rests(robot)'
  BY <1>4, ExecutedStays DEF RestSound, RestInv, Stopping, Rests
<1>6. CASE ShutdownBegin \/ ShutdownFinish
  <2>1. shutdown'.pc \notin {"stopped", "disconnected"}
    BY <1>0, <1>6 DEF ShutdownBegin, ShutdownFinish, StagesOK
  <2> QED BY <1>5, <2>1 DEF RestInv
<1>7. CASE ShutdownStop
  <2>1. PICK result \in Outcomes(Stop(robot, "Controlled")) :
           /\ robot' = result.robot
           /\ shutdown' = [shutdown EXCEPT !.pc = "stopped", !.ok = result.ok,
                             !.after = IF worker.pc \in {"taken", "snapshot", "execute"}
                                       THEN worker.id ELSE 0]
    BY <1>7 DEF ShutdownStop
  <2>2. shutdown'.pc = "stopped" /\ shutdown'.ok = result.ok
        /\ (BeforeCall => shutdown'.after = worker.id)
    BY <1>0, <2>1 DEF StagesOK, BeforeCall
  <2>3. UNCHANGED worker
    BY <1>7 DEF ShutdownStop
  <2>4. result.ok => Rests(robot')
    <3>1. result \in {Refuse(robot), Accept(AtRest(robot))}
      BY DEF Outcomes, Stop
    <3>2. CASE result = Accept(AtRest(robot))
      <4>1. robot' = AtRest(robot)
        BY <2>1, <3>2 DEF Accept
      <4> QED BY <1>0, <4>1 DEF AtRest, Rests, RobotFields
    <3>3. CASE result = Refuse(robot)
      BY <3>3 DEF Refuse
    <3> QED BY <3>1, <3>2, <3>3
  <2> QED BY <1>5, <2>2, <2>3, <2>4 DEF RestInv, BeforeCall, Rests
<1>8. CASE ShutdownDisconnect
  <2>1. /\ shutdown'.pc = "disconnected" /\ shutdown.pc = "stopped"
        /\ shutdown'.ok = shutdown.ok /\ shutdown'.after = shutdown.after
        /\ shutdown'.rest = Rests(robot) /\ UNCHANGED book
    BY <1>0, <1>8 DEF ShutdownDisconnect, StagesOK
  <2> QED BY <1>5, <2>1 DEF RestInv, RestSound, BegunLate
<1>9. CASE WorkerTake
  <2>1. shutdown'.pc \notin {"stopped", "disconnected"}
    BY <1>0, <1>9 DEF WorkerTake, StagesOK
  <2> QED BY <1>5, <2>1 DEF RestInv
<1>10. CASE Aside
  <2>1. /\ UNCHANGED shutdown
        /\ BeforeCall' => BeforeCall /\ worker'.id = worker.id
        /\ worker'.pc = "complete" =>
              (BeforeCall \/ worker.pc = "complete") /\ worker'.id = worker.id
        /\ book'.active \in {book.active, 0}
    BY <1>10, AsideStep
  <2>2. BegunLate => BegunLate'
    BY <2>1 DEF BegunLate
  <2> QED BY <1>4, <1>5, <2>1, <2>2 DEF RestInv, RestSound, Rests
<1> QED BY <1>6, <1>7, <1>8, <1>9, <1>10 DEF Aside, ShutdownSteps

\* A motion is reported stopped only when the arm neither moves nor waits on hold,
\* whatever happened between the driver's stop and the verdict, and when Shutdown gives
\* the verdict, only when the arm it let go of was at rest: but for the motion the
\* worker began after that stop.
THEOREM StoppedMotionsRest == Spec => StoppedMeansAtRest
<1> DEFINE Kept == \A id \in OpenCommands(book) \cap DOMAIN book'.commands :
                      /\ Type(book, id) \in MotionTypes
                      /\ State(book', id) = "Stopped"
                      => \/ ArmRests
                         \/ shutdown.pc = "disconnected" /\ id = shutdown.after
<1>1. RestSound /\ [Next]_vars => Kept
  <2> SUFFICES ASSUME RestSound, [Next]_vars,
                      NEW id \in OpenCommands(book) \cap DOMAIN book'.commands,
                      State(book', id) = "Stopped", ~ArmRests
               PROVE  shutdown.pc = "disconnected" /\ id = shutdown.after
    OBVIOUS
  <2>1. ~Reported(book, id) /\ Reported(book', id) /\ Form(book)
    BY DEF Reported, OpenCommands, Terminal, CommandStates, RestSound, QueueBoundInv,
       KeysInv
  <2>2. WorkerComplete => ~(worker.ok /\ Stopping(HeldReq))
    <3> SUFFICES ASSUME WorkerComplete, worker.ok, Stopping(HeldReq) PROVE FALSE
      OBVIOUS
    <3>1. Rests(robot) /\ shutdown.pc # "disconnected"
      BY DEF RestSound, RestInv, WorkerComplete, Executed, QueueBoundInv, ExecutorInv,
         StagesOK
    <3> QED BY <3>1 DEF ArmRests
  <2>3. ShutdownFinish
    BY <2>1, <2>2, LedgerStepIsSilent DEF Silent
  <2>4. /\ shutdown.pc = "disconnected" /\ ~shutdown.rest
        /\ book' = Settled(book, shutdown.ok)
    BY <2>3 DEF ShutdownFinish, ArmRests
  <2>5. shutdown.ok /\ id = book.active
    BY <2>1, <2>4, SettledReports
  <2>6. id # 0
    BY <2>1 DEF Form, OpenCommands
  <2> QED BY <2>4, <2>5, <2>6 DEF RestSound, RestInv
<1>2. Init => RestSound
  BY QueueBoundInit, RestInit DEF RestSound
<1>3. Spec => []RestSound
  BY <1>2, RestStep, PTL DEF Spec
<1>4. RestSound /\ [Next]_vars => [Kept]_vars
  BY <1>1
<1> QED BY <1>3, <1>4, PTL DEF Spec, StoppedMeansAtRest

-----------------------------------------------------------------------------
(***************************************************************************)
(* Fifth part: a Stop that passed the guard is accepted.  What could       *)
(* refuse it is a queue of nothing but stops, and then one is pending, or  *)
(* a history of nothing but open records.  Open are the commands in the    *)
(* queue, of which a place was made free, the one in the worker's hands    *)
(* and the active motion.                                                  *)
(***************************************************************************)
\* The open records of a sound ledger.
LEMMA OpenAreCounted ==
    ASSUME NEW b, NEW w, Form(b), Sound(b, w)
    PROVE  /\ IsFiniteSet(DOMAIN b.commands) /\ IsFiniteSet(OpenCommands(b))
           /\ Cardinality(OpenCommands(b)) \in Nat
           /\ Cardinality(OpenCommands(b)) <= QueueSize(b) + 2
<1> DEFINE Q == DOMAIN b.queue
<1>1. IsFiniteSet(1..(b.next_id - 1))
  BY FS_Interval DEF Form
<1>2. IsFiniteSet(DOMAIN b.commands)
  BY <1>1, FS_Subset DEF Form
<1>3. IsFiniteSet(OpenCommands(b))
  BY <1>2, FS_Subset DEF OpenCommands
<1>4. OpenCommands(b) \subseteq (Q \cup {w}) \cup {b.active}
  BY DEF OpenCommands, Sound, Shape, QueueSound, OwnersSound, State, Terminal
<1>5. IsFiniteSet(Q) /\ Cardinality(Q) \in Nat
  BY QueueIsFinite, FS_CardinalityType
<1>6. /\ IsFiniteSet(Q \cup {w}) /\ Cardinality(Q \cup {w}) \in Nat
      /\ Cardinality(Q \cup {w}) <= Cardinality(Q) + 1
  <2>1. /\ IsFiniteSet(Q \cup {w})
        /\ Cardinality(Q \cup {w}) = IF w \in Q THEN Cardinality(Q) ELSE Cardinality(Q) + 1
    BY <1>5, FS_AddElement
  <2> QED BY <1>5, <2>1
<1>7. /\ IsFiniteSet((Q \cup {w}) \cup {b.active})
      /\ Cardinality((Q \cup {w}) \cup {b.active}) \in Nat
      /\ Cardinality((Q \cup {w}) \cup {b.active}) <= Cardinality(Q) + 2
  <2> DEFINE R == Q \cup {w}
  <2>1. /\ IsFiniteSet(R \cup {b.active})
        /\ Cardinality(R \cup {b.active}) =
              IF b.active \in R THEN Cardinality(R) ELSE Cardinality(R) + 1
    BY <1>6, FS_AddElement
  <2> QED BY <1>5, <1>6, <2>1
<1>8. Cardinality(OpenCommands(b)) <= Cardinality((Q \cup {w}) \cup {b.active})
  BY <1>4, <1>7, FS_Subset
<1>9. Cardinality(OpenCommands(b)) \in Nat
  BY <1>3, FS_CardinalityType
<1> QED BY <1>2, <1>3, <1>5, <1>7, <1>8, <1>9 DEF QueueSize

\* What is left of d records, o of them open, when those in excess of h are dropped.
LEMMA WhatIsLeft ==
    ASSUME NEW d \in Nat, NEW o \in Nat, NEW h \in Nat, o < h
    PROVE  LET excess == d - h + 1 IN
           d - (IF excess <= 0 THEN 0 ELSE IF excess <= d - o THEN excess ELSE d - o) < h
OBVIOUS

\* Pruning makes room for a record unless too many are open.
LEMMA PruneMakesRoom ==
    ASSUME NEW b, NEW w, Form(b), Sound(b, w), Cardinality(OpenCommands(b)) < MaxHistory,
           NEW p \in PruneCommandHistoryLocked(b)
    PROVE  Cardinality(DOMAIN p.commands) < MaxHistory
<1> DEFINE D == DOMAIN b.commands
           O == OpenCommands(b)
           finished == D \ O
           excess == Cardinality(D) - MaxHistory + 1
           count == IF excess <= 0 THEN 0
                    ELSE IF excess <= Cardinality(finished) THEN excess
                    ELSE Cardinality(finished)
<1>1. PICK P \in SUBSET finished : p = Forget(b, P) /\ Cardinality(P) = count
  BY DEF PruneCommandHistoryLocked
<1>2. DOMAIN p.commands = D \ P
  BY <1>1 DEF Forget, Form
<1>3. /\ IsFiniteSet(D) /\ Cardinality(D) \in Nat /\ IsFiniteSet(O) /\ Cardinality(O) \in Nat
      /\ O \subseteq D
  BY OpenAreCounted, FS_CardinalityType DEF OpenCommands
<1>4. MaxHistory \in Nat
  BY LimitsAssumption
<1>5. ASSUME NEW T, T \subseteq D
      PROVE  Cardinality(D \ T) = Cardinality(D) - Cardinality(T)
  <2>1. Cardinality(D \ T) = Cardinality(D) - Cardinality(D \cap T)
    BY <1>3, FS_Difference
  <2>2. D \cap T = T
    BY <1>5
  <2> QED BY <2>1, <2>2
<1>6. Cardinality(finished) = Cardinality(D) - Cardinality(O)
  BY <1>3, <1>5
<1>7. Cardinality(DOMAIN p.commands) = Cardinality(D) - count
  BY <1>1, <1>2, <1>5
<1> HIDE DEF D, O, finished
<1> QED BY <1>3, <1>4, <1>6, <1>7, WhatIsLeft DEF O

\* A Stop that is queued stays queued while Submit makes room and prunes.
LEMMA QueuedStopStays ==
    ASSUME ExecutorInv, KeysInv, NEW t \in Threads, SubmitEnqueue(t),
           NEW i \in DOMAIN book.queue, Type(book, i) = "Stop"
    PROVE  StopPending(book')
<1> DEFINE req == rpc[t].req
           m == MakeRoom(book)
<1>1. Form(book) /\ Sound(book, Held) /\ Held \in Nat
  BY HeldIsANumber DEF KeysInv, ExecutorInv
<1>2. i \in OpenCommands(book)
  BY <1>1 DEF Sound, QueueSound, OpenCommands, Terminal
<1>3. CASE UNCHANGED book
  BY <1>2, <1>3 DEF StopPending
<1>4. CASE Accepts(book, req) /\ \E p \in PruneCommandHistoryLocked(m) :
                                    book' \in {p, Insert(p, req)}
  <2>1. PICK p \in PruneCommandHistoryLocked(m) : book' \in {p, Insert(p, req)}
    BY <1>4
  <2>2. Form(m) /\ i \in DOMAIN m.commands /\ m.commands[i] = book.commands[i]
    <3>1. CASE QueueSize(book) < MaxQueue
      BY <1>1, <1>2, <3>1 DEF MakeRoom, OpenCommands
    <3>2. CASE ~(QueueSize(book) < MaxQueue)
      <4>1. NewestOrdinary(book) \in Ordinary(book)
        BY <1>1, <1>4, <3>2, NewestIsOrdinary DEF Accepts, HasRoom
      <4>2. NewestOrdinary(book) # i
        BY <4>1 DEF Ordinary
      <4>3. m = Dequeue(Finish(book, {NewestOrdinary(book)}, "Cancelled"),
                        {NewestOrdinary(book)})
        BY <3>2 DEF MakeRoom
      <4> HIDE DEF m
      <4>4. i \in DOMAIN m.commands /\ m.commands[i] = book.commands[i]
        BY <1>1, <1>2, <4>2, <4>3 DEF Dequeue, Finish, Form, OpenCommands
      <4>5. Form(m)
        BY <1>1, MakeRoomKeeps DEF m, Keeps
      <4> QED BY <4>4, <4>5
    <3> QED BY <3>1, <3>2
  <2>3. i \in OpenCommands(m)
    BY <1>2, <2>2 DEF OpenCommands, State
  <2> HIDE DEF m
  <2>4. PICK P \in SUBSET (DOMAIN m.commands \ OpenCommands(m)) : p = Forget(m, P)
    BY <2>1 DEF PruneCommandHistoryLocked
  <2>5. i \in DOMAIN p.commands /\ p.commands[i] = book.commands[i] /\ Form(p)
    BY <2>2, <2>3, <2>4 DEF Forget, Form
  <2>6. i \in DOMAIN Insert(p, req).commands /\ Insert(p, req).commands[i] = p.commands[i]
    BY <2>5 DEF Insert, Enqueue, Form
  <2>7. i \in DOMAIN book'.commands /\ book'.commands[i] = book.commands[i]
    BY <2>1, <2>5, <2>6
  <2> QED BY <1>2, <2>7 DEF StopPending, OpenCommands, State, Type
<1> QED BY <1>3, <1>4 DEF SubmitEnqueue

\* Without a queued Stop there is an ordinary command to displace when the queue is
\* full, and then a place in the history.
LEMMA StopGetsIn ==
    ASSUME MaxHistory > MaxQueue + 1, QueueBoundInv, running /\ ~shutting_down,
           NEW t \in Threads, SubmitEnqueue(t), rpc[t].req.type = "Stop",
           IdempotencyMapKey(rpc[t].req) \notin DOMAIN book.idempotency,
           \A i \in DOMAIN book.queue : Type(book, i) # "Stop"
    PROVE  StopPending(book')
<1> DEFINE req == rpc[t].req
           m == MakeRoom(book)
<1>1. Form(book) /\ Sound(book, Held) /\ Held \in Nat
  BY HeldIsANumber DEF QueueBoundInv, KeysInv, ExecutorInv
<1>2. MaxQueue \in Nat \ {0} /\ MaxHistory \in Nat
  BY LimitsAssumption
<1>3. Ordinary(book) = DOMAIN book.queue /\ Claims(book) = DOMAIN book.queue
  BY DEF Ordinary, Claims, Internals, Type, InternalStop
<1>4. IsFiniteSet(DOMAIN book.queue) /\ QueueSize(book) \in Nat /\ QueueSize(book) <= MaxQueue
  BY <1>1, <1>3, QueueIsFinite, QueueIsCounted DEF QueueBoundInv, QueueInv, QueueSize
<1>5. ~(QueueSize(book) < MaxQueue) => Ordinary(book) # {}
  BY <1>2, <1>3, <1>4, FS_EmptySet DEF QueueSize
<1>6. Accepts(book, req)
  BY <1>5 DEF Accepts, HasRoom, MotionTypes
<1>7. PICK p \in PruneCommandHistoryLocked(m) :
         book' = IF Cardinality(DOMAIN p.commands) >= MaxHistory THEN p
                                                                 ELSE Insert(p, req)
  BY <1>6 DEF SubmitEnqueue
<1>8. Form(m) /\ Sound(m, Held)
  BY <1>1, <1>6, MakeRoomKeeps, MakeRoomSound DEF Accepts, Keeps
<1>9. QueueSize(m) < MaxQueue /\ QueueSize(m) \in Nat
  <2>1. CASE QueueSize(book) < MaxQueue
    BY <1>4, <2>1 DEF MakeRoom
  <2>2. CASE ~(QueueSize(book) < MaxQueue)
    <3> DEFINE x == NewestOrdinary(book)
    <3>1. x \in DOMAIN book.queue
      BY <1>1, <1>3, <1>5, <2>2, NewestIsOrdinary
    <3>2. DOMAIN m.queue = DOMAIN book.queue \ {x}
      BY <1>1, <2>2 DEF MakeRoom, Dequeue, Finish, Form
    <3> HIDE DEF m, x
    <3>3. Cardinality(DOMAIN m.queue) = Cardinality(DOMAIN book.queue) - 1
      BY <1>4, <3>1, <3>2, FS_RemoveElement
    <3>4. QueueSize(m) \in Nat
      BY <1>8, QueueIsCounted
    <3> QED BY <1>2, <1>4, <3>3, <3>4 DEF QueueSize
  <2> QED BY <2>1, <2>2
<1> HIDE DEF m
<1>10. Cardinality(OpenCommands(m)) < MaxHistory
  <2>1. /\ Cardinality(OpenCommands(m)) \in Nat
        /\ Cardinality(OpenCommands(m)) <= QueueSize(m) + 2
    BY <1>8, OpenAreCounted
  <2> QED BY <1>2, <1>9, <2>1
<1>11. Cardinality(DOMAIN p.commands) < MaxHistory
  BY <1>7, <1>8, <1>10, PruneMakesRoom
<1>12. Form(p)
  <2>1. PICK P : p = Forget(m, P)
    BY <1>7 DEF PruneCommandHistoryLocked
  <2> QED BY <1>8, <2>1 DEF Forget, Form
<1>13. book' = Insert(p, req)
  <2>1. Cardinality(DOMAIN p.commands) \in Nat
    BY <1>12, FS_Interval, FS_Subset, FS_CardinalityType DEF Form
  <2> QED BY <1>2, <1>7, <1>11, <2>1
<1>14. /\ p.next_id \in DOMAIN book'.commands
       /\ book'.commands[p.next_id].req = req
       /\ book'.commands[p.next_id].state = "Queued"
  BY <1>12, <1>13 DEF Insert, Enqueue, Form
<1> QED BY <1>14 DEF StopPending, OpenCommands, State, Type, Terminal

\* The service is shut down before it is flagged as running again.
StopInv == QueueBoundInv /\ (running => ~shutting_down)

\* Start and ShutdownBegin set both flags.
LEMMA StopInvStep == StopInv /\ [Next]_vars => StopInv'
<1> SUFFICES ASSUME StopInv, [Next]_vars PROVE StopInv'
  OBVIOUS
<1>1. CASE Start \/ ShutdownBegin
  BY <1>1, QueueBoundStep DEF StopInv, Start, ShutdownBegin
<1>2. CASE UNCHANGED <<running, shutting_down>>
  BY <1>2, QueueBoundStep DEF StopInv
<1>3. CASE ~Start /\ ~ShutdownBegin
  <2>1. UNCHANGED <<running, shutting_down>>
    BY <1>3 DEF Next, Service, ShutdownSteps, ShutdownStop, ShutdownDisconnect,
       ShutdownFinish, Calls, AcquireControlLease, RenewControlLease,
       ReleaseControlLease, SubmitBegin, RpcSteps, ReleaseCancel, SubmitValidate,
       SubmitEnqueue, Worker, WorkerTake, WorkerExit, WorkerSnapshot, WorkerValidate,
       WorkerExecute, WorkerComplete, Poll, PollCheck, PollRead, PollPublish,
       Environment, LeaseLapses, GracePasses, JogDeadlinePasses, SnapshotAges,
       MotionEnds, ControllerEvent, CommandTimesOut, Terminated, vars, flags
  <2> QED BY <1>2, <2>1
<1> QED BY <1>1, <1>3

\* Only the second critical section of Submit ends a call there.
LEMMA EnqueueEndsTheCall ==
    ASSUME KeysInv, [Next]_vars, NEW t \in Threads,
           rpc[t].pc = "enqueue", rpc'[t].pc = "idle"
    PROVE  SubmitEnqueue(t)
<1>1. DOMAIN rpc = Threads /\ rpc' # rpc
  BY DEF KeysInv, CallsSound
<1>2. PICK u \in Threads :
         \/ RpcSteps(u)
         \/ \E c \in Clients, l \in 1..issued : ReleaseControlLease(u, l, c)
         \/ \E req \in Submissions : SubmitBegin(u, req)
  BY <1>1 DEF Next, Service, Start, ShutdownBegin, ShutdownSteps, ShutdownStop,
     ShutdownDisconnect, ShutdownFinish, Calls, AcquireControlLease, RenewControlLease,
     Worker, WorkerTake, WorkerExit, WorkerSnapshot, WorkerValidate, WorkerExecute,
     WorkerComplete, Poll, PollCheck, PollRead, PollPublish, Environment, LeaseLapses,
     GracePasses, JogDeadlinePasses, SnapshotAges, MotionEnds, ControllerEvent,
     CommandTimesOut, Terminated, vars
<1>3. \E entry : rpc' = [rpc EXCEPT ![u] = entry]
  BY <1>2 DEF RpcSteps, ReleaseCancel, SubmitValidate, SubmitEnqueue,
     ReleaseControlLease, SubmitBegin
<1>4. u = t
  BY <1>1, <1>3
<1> QED BY <1>2, <1>4 DEF RpcSteps, ReleaseCancel, SubmitValidate, ReleaseControlLease,
        SubmitBegin

\* With one record more in the history than Start asks for, a Stop that passed the
\* guard is never refused unless another is pending: for any number of clients,
\* threads and requests and every order of their calls.
THEOREM StopsAreAccepted ==
    ASSUME MaxHistory > MaxQueue + 1 PROVE Spec => StopIsAccepted
<1> DEFINE Accepted ==
        \A t \in Threads :
          /\ rpc[t].pc = "enqueue" /\ rpc'[t].pc = "idle"
          /\ rpc[t].req.type = "Stop" /\ running
          /\ IdempotencyMapKey(rpc[t].req) \notin DOMAIN book.idempotency
          => StopPending(book')
<1>1. Init => StopInv
  BY QueueBoundInit DEF StopInv, Init
<1>2. StopInv /\ [Next]_vars => Accepted
  <2> SUFFICES ASSUME StopInv, [Next]_vars, NEW t \in Threads,
                      rpc[t].pc = "enqueue", rpc'[t].pc = "idle",
                      rpc[t].req.type = "Stop", running,
                      IdempotencyMapKey(rpc[t].req) \notin DOMAIN book.idempotency
               PROVE  StopPending(book')
    OBVIOUS
  <2>1. /\ QueueBoundInv /\ ExecutorInv /\ KeysInv /\ ~shutting_down
    BY DEF StopInv, QueueBoundInv
  <2>2. SubmitEnqueue(t)
    BY <2>1, EnqueueEndsTheCall
  <2>3. CASE \E i \in DOMAIN book.queue : Type(book, i) = "Stop"
    BY <2>1, <2>2, <2>3, QueuedStopStays
  <2>4. CASE \A i \in DOMAIN book.queue : Type(book, i) # "Stop"
    BY <2>1, <2>2, <2>4, StopGetsIn
  <2> QED BY <2>3, <2>4
<1>3. Spec => []StopInv
  BY <1>1, StopInvStep, PTL DEF Spec
<1>4. StopInv /\ [Next]_vars => [Accepted]_vars
  BY <1>2
<1>5. Spec => [][Accepted]_vars
  BY <1>3, <1>4, PTL DEF Spec
<1> QED BY <1>5 DEF StopIsAccepted
=============================================================================
