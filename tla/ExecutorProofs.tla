--------------------------- MODULE ExecutorProofs ---------------------------
(***************************************************************************)
(* What the command executor guarantees for every set of threads, clients, *)
(* requests, faults and initial controllers and for every bound.  The      *)
(* critical sections are compositions of the operations on the ledger, so  *)
(* that most of the work is done by the lemmas of LedgerProofs.  Type      *)
(* correctness is in a part of its own at the end.                         *)
(***************************************************************************)
EXTENDS CommandExecutor, LedgerProofs, WellFoundedInduction

\* A function to the integers that is bounded from below takes a least value.
LEMMA LeastExists ==
    ASSUME NEW S, S # {}, NEW f, NEW n \in Nat,
           \A x \in S : f[x] \in Int /\ f[x] + n \in Nat
    PROVE  \E x \in S : \A y \in S : f[x] <= f[y]
<1> DEFINE T == {f[x] + n : x \in S}
           R == OpToRel(<, Nat)
<1>1. T \subseteq Nat /\ T # {}
  OBVIOUS
<1> HIDE DEF R
<1>2. PICK m \in T : \A k \in T : ~(<<k, m>> \in R)
  BY <1>1, NatLessThanWellFounded, WFMin DEF R
<1>3. ASSUME NEW k \in T PROVE m <= k
  <2>1. k \in Nat /\ m \in Nat
    BY <1>1
  <2>2. SUFFICES ASSUME k < m PROVE FALSE
    BY <2>1
  <2>3. <<k, m>> \in Nat \X Nat /\ <<k, m>>[1] < <<k, m>>[2]
    BY <2>1, <2>2
  <2>4. <<k, m>> \in R
    BY <2>3 DEF R, OpToRel
  <2> QED BY <1>2, <2>4
<1>4. PICK x \in S : m = f[x] + n
  BY <1>2
<1>5. ASSUME NEW y \in S PROVE f[x] <= f[y]
  <2>1. f[x] + n <= f[y] + n
    BY <1>3, <1>4
  <2> QED BY <2>1
<1> QED BY <1>5

\* The ranks in the deque of a sound ledger are integers between the extremes that
\* the ids allow.
LEMMA RanksBounded ==
    ASSUME NEW b, NEW w, Sound(b, w), NEW id \in DOMAIN b.queue
    PROVE  /\ b.queue[id] \in Int
           /\ b.queue[id] + b.next_id \in Nat
           /\ b.next_id - b.queue[id] \in Nat
<1>1. id \in DOMAIN b.commands
  BY DEF Sound, QueueSound
<1>2. id \in 1..(b.next_id - 1) /\ b.next_id \in Nat
  BY <1>1 DEF Sound, Shape
<1>3. b.queue[id] = -id \/ b.queue[id] = id
  BY DEF Sound, QueueSound, Front, Back
<1> QED BY <1>2, <1>3

\* FindExecutableCommandLocked finds a command whenever one may run.
LEMMA FirstExecutable ==
    ASSUME NEW b, NEW w, Sound(b, w), Executable(b) # {}
    PROVE  FindExecutableCommandLocked(b) \in Executable(b)
<1>1. \A id \in Executable(b) : b.queue[id] \in Int /\ b.queue[id] + b.next_id \in Nat
  BY RanksBounded DEF Executable
<1>2. b.next_id \in Nat
  BY DEF Sound, Shape
<1>3. \E id \in Executable(b) : \A other \in Executable(b) :
         b.queue[id] <= b.queue[other]
  BY <1>1, <1>2, LeastExists
<1> QED BY <1>3 DEF FindExecutableCommandLocked

\* The command a Stop displaces is a queued one.
LEMMA NewestIsOrdinary ==
    ASSUME NEW b, NEW w, Sound(b, w), Ordinary(b) # {}
    PROVE  NewestOrdinary(b) \in Ordinary(b)
<1> DEFINE g == [id \in Ordinary(b) |-> -b.queue[id]]
<1>1. \A id \in Ordinary(b) : b.queue[id] \in Int /\ b.next_id - b.queue[id] \in Nat
  BY RanksBounded DEF Ordinary
<1>2. b.next_id \in Nat
  BY DEF Sound, Shape
<1>3. \A id \in Ordinary(b) : g[id] \in Int /\ g[id] + b.next_id \in Nat
  BY <1>1, <1>2
<1>4. PICK id \in Ordinary(b) : \A other \in Ordinary(b) : g[id] <= g[other]
  BY <1>2, <1>3, LeastExists
<1>5. \A other \in Ordinary(b) : b.queue[other] <= b.queue[id]
  BY <1>1, <1>4
<1> QED BY <1>5 DEF NewestOrdinary

-----------------------------------------------------------------------------
\* Submit may displace a queued command, and only for a Stop.
LEMMA MakeRoomSound ==
    ASSUME NEW b, NEW w, Sound(b, w), NEW req, HasRoom(b, req)
    PROVE  LET c == MakeRoom(b) IN
           /\ Sound(c, w) /\ Follows(b, c)
           /\ req.type # "Stop" => c = b
<1>1. CASE QueueSize(b) < MaxQueue
  BY <1>1, FollowsSelf DEF MakeRoom, Sound
<1>2. CASE ~(QueueSize(b) < MaxQueue)
  <2>1. req.type = "Stop" /\ Ordinary(b) # {}
    BY <1>2 DEF HasRoom
  <2>2. {NewestOrdinary(b)} \subseteq DOMAIN b.queue
    BY <2>1, NewestIsOrdinary DEF Ordinary
  <2>3. /\ Sound(MakeRoom(b), w) /\ Follows(b, MakeRoom(b))
    BY <1>2, <2>2, CancelSound DEF MakeRoom
  <2> QED BY <2>1, <2>3
<1> QED BY <1>1, <1>2

\* A command is inserted with its key; a motion only when none is open.
LEMMA InsertSound ==
    ASSUME NEW b, NEW w \in Nat, Sound(b, w), NEW req,
           req.type \in MotionTypes =>
               \A id \in DOMAIN b.commands :
                   State(b, id) \notin Terminal => Type(b, id) \notin MotionTypes
    PROVE  LET c == Insert(b, req) IN Sound(c, w) /\ Follows(b, c)
<1> DEFINE rank == IF req.type = "Stop" THEN Front(b.next_id) ELSE Back(b.next_id)
           e == Enqueue(b, req, rank)
           c == Insert(b, req)
<1>1. Sound(e, w) /\ Follows(b, e)
  BY EnqueueSound
<1>2. PICK map : c = [e EXCEPT !.idempotency = map]
  BY DEF Insert
<1> HIDE DEF e, c
<1>3. SameCore(e, c)
  BY <1>1, <1>2 DEF Sound, Shape, SameCore
<1>4. Sound(c, w) /\ Follows(e, c)
  BY <1>1, <1>3, SameCoreSound
<1>5. Follows(b, c)
  BY <1>1, <1>4, FollowsTransitive DEF Sound
<1> QED BY <1>4, <1>5 DEF c

\* The second critical section of Submit.
LEMMA SubmittedSound ==
    ASSUME NEW b, NEW w \in Nat, Sound(b, w), NEW req, Accepts(b, req),
           NEW pruned \in PruneCommandHistoryLocked(MakeRoom(b))
    PROVE  /\ Sound(pruned, w) /\ Follows(b, pruned)
           /\ Sound(Insert(pruned, req), w) /\ Follows(b, Insert(pruned, req))
<1> DEFINE m == MakeRoom(b)
<1>1. /\ Sound(m, w) /\ Follows(b, m)
      /\ req.type # "Stop" => m = b
  BY MakeRoomSound DEF Accepts
<1> HIDE DEF m
<1>2. /\ Sound(pruned, w) /\ Follows(m, pruned)
      /\ DOMAIN pruned.commands \subseteq DOMAIN m.commands
      /\ \A id \in DOMAIN pruned.commands : pruned.commands[id] = m.commands[id]
  BY <1>1, PruneSound DEF m
<1>3. Follows(b, pruned)
  BY <1>1, <1>2, FollowsTransitive DEF Sound
<1>4. req.type \in MotionTypes =>
         \A id \in DOMAIN pruned.commands :
             State(pruned, id) \notin Terminal => Type(pruned, id) \notin MotionTypes
  <2> SUFFICES ASSUME req.type \in MotionTypes, NEW id \in DOMAIN pruned.commands,
                      State(pruned, id) \notin Terminal
               PROVE  Type(pruned, id) \notin MotionTypes
    OBVIOUS
  <2>1. m = b /\ ~MotionPending(b)
    BY <1>1 DEF Accepts, MotionTypes
  <2>2. /\ id \in DOMAIN b.commands
        /\ State(b, id) = State(pruned, id) /\ Type(b, id) = Type(pruned, id)
    BY <1>2, <2>1 DEF State, Type
  <2> QED BY <2>1, <2>2 DEF MotionPending, OpenCommands
<1>5. Sound(Insert(pruned, req), w) /\ Follows(pruned, Insert(pruned, req))
  BY <1>2, <1>4, InsertSound
<1>6. Follows(b, Insert(pruned, req))
  BY <1>3, <1>5, FollowsTransitive DEF Sound
<1> QED BY <1>2, <1>3, <1>5, <1>6

\* The second half of ReleaseControlLease.
LEMMA ReleasedSound ==
    ASSUME NEW b, NEW w \in Nat, Sound(b, w), NEW req
    PROVE  LET c == Released(b, req) IN Sound(c, w) /\ Follows(b, c)
<1> DEFINE d == CancelQueuedCommandsForLeaseLocked(b, req.lease, req.client)
<1>1. Sound(d, w) /\ Follows(b, d)
  BY CancelForLeaseSound
<1>2. Released(b, req) = d \/ Released(b, req) = RequestInternalStopLocked(d)
  BY DEF Released
<1> HIDE DEF d
<1>3. Sound(RequestInternalStopLocked(d), w) /\ Follows(d, RequestInternalStopLocked(d))
  BY <1>1, RequestInternalStopSound
<1>4. Follows(b, RequestInternalStopLocked(d))
  BY <1>1, <1>3, FollowsTransitive DEF Sound
<1> QED BY <1>1, <1>2, <1>3, <1>4

\* The watchdogs of the poll thread.
LEMMA WatchedSound ==
    ASSUME NEW b, NEW w \in Nat, Sound(b, w)
    PROVE  LET c == Watched(b) IN Sound(c, w) /\ Follows(b, c)
BY RequestInternalStopSound, FollowsSelf DEF Watched, Sound

\* The last critical section of Shutdown leaves no command without a verdict.
LEMMA SettledSound ==
    ASSUME NEW b, Sound(b, 0), NEW stopped
    PROVE  LET c == Settled(b, stopped) IN
           Sound(c, 0) /\ Follows(b, c) /\ OpenCommands(c) = {}
<1> DEFINE s == IF stopped THEN "Stopped" ELSE "Failed"
           d == CancelCommandsForShutdownLocked(b)
           e == CompleteActiveMotionLocked(d, s)
           j == [e EXCEPT !.jog = NoJog]
           c == Settled(b, stopped)
<1>1. c = [j EXCEPT !.stop_requested = FALSE]
  BY DEF Settled, ClearActiveJogLocked
<1>2. Sound(d, 0) /\ Follows(b, d) /\ DOMAIN d.queue = {}
  BY CancelForShutdownSound
<1> HIDE DEF d
<1>3. Sound(e, 0) /\ Follows(d, e) /\ e.active = 0 /\ DOMAIN e.queue = {}
  <2>1. s \in Terminal
    BY DEF Terminal, CommandStates
  <2>2. Sound(e, 0) /\ Follows(d, e) /\ e.active = 0
    BY <1>2, <2>1, CompleteActiveMotionSound
  <2>3. e.queue = d.queue
    <3> DEFINE f == FinishIfOpen(d, d.active, s)
    <3>1. f.queue = d.queue /\ DOMAIN f = DOMAIN d
      BY <1>2 DEF FinishIfOpen, Finish, Sound, Shape
    <3>2. e = d \/ e = ResetActive(f)
      BY DEF CompleteActiveMotionLocked
    <3> HIDE DEF f
    <3> QED BY <1>2, <3>1, <3>2 DEF ResetActive, Sound, Shape
  <2> QED BY <1>2, <2>2, <2>3
<1> HIDE DEF e
<1>4. /\ Sound(j, 0) /\ Follows(e, j)
      /\ j.active = 0 /\ DOMAIN j.queue = {}
  BY <1>3, FlagsSound DEF Sound, Shape
<1> HIDE DEF j
<1>5. /\ Sound(c, 0) /\ Follows(j, c)
      /\ c.active = 0 /\ DOMAIN c.queue = {}
  BY <1>1, <1>4, FlagsSound DEF Sound, Shape
<1> HIDE DEF c
<1>6. Follows(b, c)
  BY <1>2, <1>3, <1>4, <1>5, FollowsTransitive DEF Sound
<1>7. ASSUME NEW id \in DOMAIN c.commands PROVE State(c, id) \in Terminal
  <2>1. State(c, id) # "Queued"
    BY <1>5 DEF Sound, QueueSound
  <2>2. State(c, id) # "Running"
    BY <1>5 DEF Sound, Shape, OwnersSound
  <2>3. State(c, id) \in CommandStates
    BY <1>5 DEF Sound, Shape, State
  <2> QED BY <2>1, <2>2, <2>3 DEF Terminal
<1> QED BY <1>5, <1>6, <1>7 DEF OpenCommands, c
-----------------------------------------------------------------------------
\* The command in the hands of the worker, 0 when it has none.
Held == IF WorkerBusy THEN worker.id ELSE 0

\* The stages of the threads: what the flags say about them, and that nothing of
\* the ledger is touched after the threads have been joined.
StagesOK ==
    /\ DOMAIN worker = {"pc", "id", "admits", "ok"}
    /\ DOMAIN poll = {"pc", "ok", "reading"}
    /\ DOMAIN shutdown = {"pc", "ok", "after", "rest"}
    /\ WorkerBusy => worker.id \in Nat \ {0}
    /\ running => started_once
    /\ ~started_once => worker.pc = "off"
    /\ shutdown.pc # "none" => ~running /\ shutting_down /\ started_once
    /\ shutdown.pc \in {"disconnected", "done"} =>
          worker.pc = "exited" /\ poll.pc = "exited"

\* The inductive invariant.  QueueMatchesRecords and the others are not inductive
\* one by one: which commands may be finished, cancelled or dropped depends on who
\* owns the running ones, and that on the stages of the worker and of Shutdown.
ExecutorInv == Sound(book, Held) /\ StagesOK /\ SettledAfterShutdown

\* The worker's command is a number, as the lemmas on the ledger require.
LEMMA HeldIsANumber == ExecutorInv => Held \in Nat
BY DEF ExecutorInv, StagesOK, Held

\* The initial state satisfies the invariant.
LEMMA ExecutorInvInit == Init => ExecutorInv
<1> SUFFICES ASSUME Init PROVE ExecutorInv
  OBVIOUS
<1>1. StagesOK /\ Held = 0 /\ SettledAfterShutdown
  BY DEF Init, NoShutdown, IdleWorker, IdlePoll, StagesOK, WorkerBusy, Held,
      SettledAfterShutdown
<1>2. book = EmptyLedger
  BY DEF Init
<1>3. /\ DOMAIN book.commands = {} /\ DOMAIN book.queue = {}
      /\ book.active = 0 /\ book.next_id = 1
  BY <1>2 DEF EmptyLedger
<1>4. Shape(book)
  BY <1>2, <1>3 DEF EmptyLedger, Shape
<1>5. Sound(book, 0)
  BY <1>3, <1>4 DEF Sound, QueueSound, OwnersSound, MotionsSound
<1> QED BY <1>1, <1>5 DEF ExecutorInv
\* A step keeps the invariant and treats the records as it should.
Preserved == ExecutorInv' /\ Follows(book, book')

\* A step that leaves the ledger and the worker alone only has to respect the
\* stages.
LEMMA LedgerUnchanged ==
    ASSUME ExecutorInv, UNCHANGED <<book, worker>>, StagesOK',
           shutdown'.pc = "done" => shutdown.pc = "done"
    PROVE  Preserved
<1>1. Held' = Held
  BY DEF Held, WorkerBusy
<1>2. Sound(book', Held') /\ Follows(book, book')
  BY <1>1, FollowsSelf DEF ExecutorInv, Sound
<1>3. SettledAfterShutdown'
  BY DEF ExecutorInv, SettledAfterShutdown
<1> QED BY <1>2, <1>3 DEF ExecutorInv, Preserved

\* A step of another thread than the worker that changes nothing but the ledger
\* before Shutdown is done, or finds nothing open in it afterwards.
LEMMA LedgerChanged ==
    ASSUME ExecutorInv, UNCHANGED <<worker, shutdown, flags>>,
           DOMAIN poll' = {"pc", "ok", "reading"},
           shutdown.pc \in {"disconnected", "done"} => poll'.pc = "exited",
           Sound(book', Held), Follows(book, book'),
           shutdown.pc = "done" => OpenCommands(book') = {}
    PROVE  Preserved
<1>1. Held' = Held
  BY DEF Held, WorkerBusy
<1>2. StagesOK'
  BY DEF ExecutorInv, StagesOK, WorkerBusy, flags
<1>3. SettledAfterShutdown'
  BY DEF SettledAfterShutdown
<1> QED BY <1>1, <1>2, <1>3 DEF ExecutorInv, Preserved

\* The steps that leave the ledger and the worker's command alone.
LEMMA QuietSteps ==
    ASSUME ExecutorInv,
           \/ ShutdownBegin \/ ShutdownStop \/ ShutdownDisconnect \/ Calls
           \/ \E t \in Threads : SubmitValidate(t)
           \/ PollCheck \/ PollRead
           \/ LeaseLapses \/ SnapshotAges \/ MotionEnds \/ ControllerEvent \/ Terminated
    PROVE  Preserved
<1> USE DEF flags
<1>1. CASE ShutdownBegin
  <2>1. StagesOK' /\ shutdown'.pc # "done"
    BY <1>1 DEF ExecutorInv, StagesOK, ShutdownBegin, WorkerBusy
  <2> QED BY <1>1, <2>1, LedgerUnchanged DEF ShutdownBegin
<1>2. CASE ShutdownStop
  <2>1. StagesOK' /\ shutdown'.pc # "done"
    BY <1>2 DEF ExecutorInv, StagesOK, ShutdownStop, WorkerBusy
  <2> QED BY <1>2, <2>1, LedgerUnchanged DEF ShutdownStop
<1>3. CASE ShutdownDisconnect
  <2>1. StagesOK' /\ shutdown'.pc # "done"
    BY <1>3 DEF ExecutorInv, StagesOK, ShutdownDisconnect, WorkerBusy
  <2> QED BY <1>3, <2>1, LedgerUnchanged DEF ShutdownDisconnect
<1>4. CASE PollCheck
  <2>1. StagesOK' /\ UNCHANGED <<book, worker, shutdown>>
    BY <1>4 DEF ExecutorInv, StagesOK, PollCheck, WorkerBusy
  <2> QED BY <2>1, LedgerUnchanged
<1>5. CASE PollRead
  <2>1. StagesOK' /\ UNCHANGED <<book, worker, shutdown>>
    BY <1>5 DEF ExecutorInv, StagesOK, PollRead, WorkerBusy
  <2> QED BY <2>1, LedgerUnchanged
<1>6. CASE \/ Calls \/ \E t \in Threads : SubmitValidate(t)
           \/ LeaseLapses \/ SnapshotAges \/ MotionEnds \/ ControllerEvent
           \/ Terminated
  <2>1. UNCHANGED <<book, running, shutting_down, started_once, worker, poll, shutdown>>
    BY <1>6 DEF Calls, AcquireControlLease, RenewControlLease, ReleaseControlLease,
                SubmitBegin, SubmitValidate, LeaseLapses, SnapshotAges, MotionEnds,
                ControllerEvent, Terminated, vars
  <2>2. StagesOK'
    BY <2>1 DEF ExecutorInv, StagesOK, WorkerBusy
  <2> QED BY <2>1, <2>2, LedgerUnchanged
<1> QED BY <1>1, <1>2, <1>3, <1>4, <1>5, <1>6

\* Start, and the steps of the worker between taking a command and completing it.
LEMMA WorkerSteps ==
    ASSUME ExecutorInv,
           Start \/ WorkerExit \/ WorkerSnapshot \/ WorkerValidate \/ WorkerExecute
    PROVE  Preserved
<1>1. /\ book' = book /\ Held' = Held /\ StagesOK'
      /\ shutdown' = shutdown
  <2> USE DEF flags, ExecutorInv, StagesOK, WorkerBusy, Held
  <2>1. CASE Start
    BY <2>1 DEF Start, IdleWorker, IdlePoll
  <2>2. CASE WorkerExit
    BY <2>2 DEF WorkerExit
  <2>3. CASE WorkerSnapshot
    BY <2>3 DEF WorkerSnapshot
  <2>4. CASE WorkerValidate
    BY <2>4 DEF WorkerValidate
  <2>5. CASE WorkerExecute
    BY <2>5 DEF WorkerExecute
  <2> QED BY <2>1, <2>2, <2>3, <2>4, <2>5
<1>2. Sound(book', Held') /\ Follows(book, book')
  BY <1>1, FollowsSelf DEF ExecutorInv, Sound
<1>3. SettledAfterShutdown'
  BY <1>1 DEF ExecutorInv, SettledAfterShutdown
<1> QED BY <1>1, <1>2, <1>3 DEF ExecutorInv, Preserved

\* The worker takes a command, or finds that its time is over.
LEMMA TakeStep ==
    ASSUME ExecutorInv, WorkerTake PROVE Preserved
<1> DEFINE id    == FindExecutableCommandLocked(book)
           taken == Dequeue(book, {id})
<1>1. /\ Held = 0 /\ worker.pc = "idle" /\ started_once
      /\ shutdown.pc \notin {"disconnected", "done"}
      /\ UNCHANGED <<shutdown, poll, running, shutting_down, started_once>>
  BY DEF WorkerTake, Held, WorkerBusy, ExecutorInv, StagesOK, flags
<1>2. Sound(book, 0) /\ id \in Executable(book)
  BY <1>1, FirstExecutable DEF ExecutorInv, WorkerTake
<1>3. shutdown'.pc # "done"
  BY <1>1
<1>4. \/ book' = Finish(taken, {id}, "TimedOut") /\ worker' = worker
      \/ /\ book' = [taken EXCEPT !.commands[id].state = "Running"]
         /\ worker' = [worker EXCEPT !.pc = "taken", !.id = id]
  BY DEF WorkerTake
<1> HIDE DEF id
<1>5. CASE book' = Finish(taken, {id}, "TimedOut") /\ worker' = worker
  <2>1. Sound(book', 0) /\ Follows(book, book')
    BY <1>2, <1>5, ExpireSound DEF Executable
  <2>2. Held' = 0 /\ StagesOK'
    BY <1>1, <1>5 DEF Held, WorkerBusy, ExecutorInv, StagesOK
  <2> QED BY <1>3, <2>1, <2>2 DEF ExecutorInv, SettledAfterShutdown, Preserved
<1>6. CASE /\ book' = [taken EXCEPT !.commands[id].state = "Running"]
           /\ worker' = [worker EXCEPT !.pc = "taken", !.id = id]
  <2>1. Sound(book', id) /\ Follows(book, book') /\ id \in Nat \ {0}
    BY <1>2, <1>6, TakeSound
  <2>2. Held' = id /\ StagesOK'
    <3>1. DOMAIN worker' = DOMAIN worker /\ worker'.pc = "taken" /\ worker'.id = id
      BY <1>6 DEF ExecutorInv, StagesOK
    <3> QED BY <1>1, <2>1, <3>1 DEF Held, WorkerBusy, ExecutorInv, StagesOK
  <2> QED BY <1>3, <2>1, <2>2 DEF ExecutorInv, SettledAfterShutdown, Preserved
<1> QED BY <1>4, <1>5, <1>6

\* The worker completes the command it holds.
LEMMA CompleteStep ==
    ASSUME ExecutorInv, WorkerComplete PROVE Preserved
<1>1. /\ Held = worker.id /\ worker.id \in Nat \ {0}
      /\ shutdown.pc \notin {"disconnected", "done"} /\ started_once
      /\ worker' = IdleWorker
      /\ UNCHANGED <<shutdown, poll, running, shutting_down, started_once>>
  BY DEF WorkerComplete, Held, WorkerBusy, ExecutorInv, StagesOK, flags
<1>2. \/ \E valid : book' = Completed(book, worker.id, valid)
      \/ book' = Finish(book, {worker.id}, "Failed")
  BY DEF WorkerComplete
<1>3. Sound(book, worker.id)
  BY <1>1 DEF ExecutorInv
<1>4. Sound(book', 0) /\ Follows(book, book')
  BY <1>1, <1>2, <1>3, CompletedSound, FinishWorkers DEF Terminal, CommandStates
<1>5. Held' = 0 /\ StagesOK'
  BY <1>1 DEF Held, WorkerBusy, ExecutorInv, StagesOK, IdleWorker
<1> QED BY <1>1, <1>4, <1>5 DEF ExecutorInv, SettledAfterShutdown, Preserved
\* Shutdown settles the ledger after it has joined the threads.
LEMMA FinishStep ==
    ASSUME ExecutorInv, ShutdownFinish PROVE Preserved
<1>1. /\ Held = 0 /\ shutdown'.pc = "done" /\ DOMAIN shutdown' = DOMAIN shutdown
      /\ shutdown.pc = "disconnected"
      /\ book' = Settled(book, shutdown.ok)
      /\ UNCHANGED <<worker, poll, running, shutting_down, started_once>>
  BY DEF ShutdownFinish, Held, WorkerBusy, ExecutorInv, StagesOK, flags
<1>2. Sound(book', 0) /\ Follows(book, book') /\ OpenCommands(book') = {}
  BY <1>1, SettledSound DEF ExecutorInv
<1>3. Held' = 0 /\ StagesOK'
  BY <1>1 DEF Held, WorkerBusy, ExecutorInv, StagesOK
<1> QED BY <1>2, <1>3 DEF ExecutorInv, SettledAfterShutdown, Preserved

\* The second half of ReleaseControlLease: it finds nothing queued after Shutdown.
LEMMA ReleaseStep ==
    ASSUME ExecutorInv, NEW t \in Threads, ReleaseCancel(t) PROVE Preserved
<1>1. /\ book' = Released(book, rpc[t].req)
      /\ UNCHANGED <<worker, poll, shutdown, flags>>
  BY DEF ReleaseCancel
<1>2. Sound(book', Held) /\ Follows(book, book')
  BY <1>1, HeldIsANumber, ReleasedSound DEF ExecutorInv
<1>3. ASSUME shutdown.pc = "done" PROVE OpenCommands(book') = {}
  <2>1. ~running /\ OpenCommands(book) = {}
    BY <1>3 DEF ExecutorInv, StagesOK, SettledAfterShutdown
  <2>2. DOMAIN book.queue = {}
    BY <2>1 DEF ExecutorInv, Sound, QueueSound, OpenCommands, Terminal
  <2>3. book' = book
    BY <1>1, <2>1, <2>2
       DEF Released, CancelQueuedCommandsForLeaseLocked, Ordinary
  <2> QED BY <2>1, <2>3
<1> QED BY <1>1, <1>2, <1>3, LedgerChanged DEF ExecutorInv, StagesOK

\* The second critical section of Submit: it accepts nothing after Shutdown.
LEMMA SubmitStep ==
    ASSUME ExecutorInv, NEW t \in Threads, SubmitEnqueue(t) PROVE Preserved
<1>1. UNCHANGED <<worker, poll, shutdown, flags>>
  BY DEF SubmitEnqueue
<1>2. CASE book' = book
  <2>1. StagesOK'
    BY <1>1 DEF ExecutorInv, StagesOK, WorkerBusy, flags
  <2> QED BY <1>1, <1>2, <2>1, LedgerUnchanged
<1>3. CASE book' # book
  <2>1. Accepts(book, rpc[t].req)
    BY <1>3 DEF SubmitEnqueue
  <2>2. PICK pruned \in PruneCommandHistoryLocked(MakeRoom(book)) :
           book' = pruned \/ book' = Insert(pruned, rpc[t].req)
    BY <1>3 DEF SubmitEnqueue
  <2>3. Sound(book', Held) /\ Follows(book, book')
    BY <2>1, <2>2, HeldIsANumber, SubmittedSound DEF ExecutorInv
  <2>4. shutdown.pc # "done"
    BY <2>1 DEF Accepts, ExecutorInv, StagesOK
  <2> QED BY <1>1, <2>3, <2>4, LedgerChanged DEF ExecutorInv, StagesOK
<1> QED BY <1>2, <1>3

\* The poll thread publishes what it read and looks at the watchdogs.
LEMMA PublishStep ==
    ASSUME ExecutorInv, PollPublish PROVE Preserved
<1> DEFINE d == IF poll.ok \/ stale THEN UpdateActiveMotionLocked(book, latest')
                                    ELSE book
<1>1. /\ book' = Watched(d)
      /\ DOMAIN poll' = {"pc", "ok", "reading"}
      /\ shutdown.pc \notin {"disconnected", "done"}
      /\ UNCHANGED <<worker, shutdown, flags>>
  BY DEF PollPublish, IdlePoll, ExecutorInv, StagesOK
<1>2. Sound(d, Held) /\ Follows(book, d)
  BY HeldIsANumber, UpdateActiveMotionSound, FollowsSelf DEF ExecutorInv, Sound
<1> HIDE DEF d
<1>3. Sound(book', Held) /\ Follows(d, book')
  BY <1>1, <1>2, HeldIsANumber, WatchedSound
<1>4. Follows(book, book')
  BY <1>2, <1>3, FollowsTransitive DEF ExecutorInv, Sound
<1> QED BY <1>1, <1>3, <1>4, LedgerChanged

\* Time passes.
LEMMA TimeSteps ==
    ASSUME ExecutorInv,
           \/ GracePasses \/ JogDeadlinePasses
           \/ \E id \in DOMAIN book.commands : CommandTimesOut(id)
    PROVE  Preserved
<1>1. UNCHANGED <<worker, poll, shutdown, flags>>
  BY DEF GracePasses, JogDeadlinePasses, CommandTimesOut
<1>2. Sound(book, Held)
  BY DEF ExecutorInv
<1>3. CASE GracePasses \/ JogDeadlinePasses
  <2>1. book' = [book EXCEPT !.grace = TRUE] \/ book' = [book EXCEPT !.jog.due = TRUE]
    BY <1>3 DEF GracePasses, JogDeadlinePasses
  <2>2. Sound(book', Held) /\ Follows(book, book')
    BY <1>2, <2>1, FlagsSound
  <2>3. book'.commands = book.commands
    BY <1>2, <2>1 DEF Sound, Shape
  <2>4. OpenCommands(book') = OpenCommands(book)
    BY <2>3 DEF OpenCommands, State
  <2> QED BY <1>1, <2>2, <2>4, LedgerChanged DEF ExecutorInv, StagesOK, SettledAfterShutdown
<1>4. ASSUME NEW id \in DOMAIN book.commands, CommandTimesOut(id) PROVE Preserved
  <2>1. book' = [book EXCEPT !.commands[id].late = TRUE] /\ IsOpen(book, id)
    BY <1>4 DEF CommandTimesOut
  <2>2. Sound(book', Held) /\ Follows(book, book')
    BY <1>2, <2>1, LateSound
  <2>3. shutdown.pc # "done"
    BY <2>1 DEF IsOpen, OpenCommands, ExecutorInv, SettledAfterShutdown
  <2> QED BY <1>1, <2>2, <2>3, LedgerChanged DEF ExecutorInv, StagesOK
<1> QED BY <1>3, <1>4

-----------------------------------------------------------------------------
\* Every step of the executor keeps the invariant, never uses an id again and
\* never changes a verdict.
LEMMA ExecutorStep == ASSUME ExecutorInv, [Next]_vars PROVE Preserved
<1>1. CASE Start \/ WorkerExit \/ WorkerSnapshot \/ WorkerValidate \/ WorkerExecute
  BY <1>1, WorkerSteps
<1>2. CASE \/ ShutdownBegin \/ ShutdownStop \/ ShutdownDisconnect \/ Calls
           \/ \E t \in Threads : SubmitValidate(t)
           \/ PollCheck \/ PollRead
           \/ LeaseLapses \/ SnapshotAges \/ MotionEnds \/ ControllerEvent \/ Terminated
  BY <1>2, QuietSteps
<1>3. CASE WorkerTake
  BY <1>3, TakeStep
<1>4. CASE WorkerComplete
  BY <1>4, CompleteStep
<1>5. CASE ShutdownFinish
  BY <1>5, FinishStep
<1>6. CASE \E t \in Threads : ReleaseCancel(t)
  BY <1>6, ReleaseStep
<1>7. CASE \E t \in Threads : SubmitEnqueue(t)
  BY <1>7, SubmitStep
<1>8. CASE PollPublish
  BY <1>8, PublishStep
<1>9. CASE \/ GracePasses \/ JogDeadlinePasses
           \/ \E id \in DOMAIN book.commands : CommandTimesOut(id)
  BY <1>9, TimeSteps
<1>10. CASE UNCHANGED vars
  <2>1. UNCHANGED <<book, worker, poll, shutdown, flags>>
    BY <1>10 DEF vars
  <2>2. StagesOK'
    BY <2>1 DEF ExecutorInv, StagesOK, WorkerBusy, flags
  <2> QED BY <2>1, <2>2, LedgerUnchanged
<1> QED
  BY <1>1, <1>2, <1>3, <1>4, <1>5, <1>6, <1>7, <1>8, <1>9, <1>10
     DEF Next, Service, ShutdownSteps, RpcSteps, Worker, Poll, Environment

\* The invariant holds in every reachable state.
THEOREM ExecutorInvariant == Spec => []ExecutorInv
<1>1. ExecutorInv /\ [Next]_vars => ExecutorInv'
  BY ExecutorStep DEF Preserved
<1> QED BY <1>1, ExecutorInvInit, PTL DEF Spec

\* The deque holds exactly the commands whose record says Queued, through every
\* interleaving of submissions, displacements, releases, expiries and Shutdown.
THEOREM DequeIsConsistent == Spec => []QueueMatchesRecords
<1>1. ExecutorInv => QueueMatchesRecords
  BY DEF ExecutorInv, Sound, QueueSound, QueueMatchesRecords
<1> QED BY <1>1, ExecutorInvariant, PTL

\* A Running command is in the worker's hands or is the active motion, so that one
\* of the two threads will give it a verdict.
THEOREM RunningIsOwned == Spec => []NoOrphanRunning
<1>1. ExecutorInv => NoOrphanRunning
  BY DEF ExecutorInv, Sound, Shape, OwnersSound, Held, NoOrphanRunning
<1> QED BY <1>1, ExecutorInvariant, PTL

\* While the worker is outside mutex_ nothing prunes, cancels or finishes the
\* command it executes, and no other motion becomes active.
THEOREM WorkerKeepsItsCommand == Spec => []WorkerOwnsCommand
<1>1. ExecutorInv => WorkerOwnsCommand
  BY DEF ExecutorInv, StagesOK, Sound, OwnersSound, Held, WorkerOwnsCommand
<1> QED BY <1>1, ExecutorInvariant, PTL

\* Two motions are never open at the same time, although Submit looks for one in
\* another critical section than the worker starts one in.
THEOREM MotionsAreExclusive == Spec => []OneMotionAtATime
<1>1. ExecutorInv => OneMotionAtATime
  BY DEF ExecutorInv, Sound, MotionsSound, OpenCommands, OneMotionAtATime
<1> QED BY <1>1, ExecutorInvariant, PTL

\* Stops are taken from the deque before anything else.
THEOREM StopsGoFirst == Spec => []StopsFirst
<1>1. ASSUME ExecutorInv, NEW i \in DOMAIN book.queue, NEW j \in DOMAIN book.queue,
             Type(book, i) = "Stop", Type(book, j) # "Stop"
      PROVE  book.queue[i] < book.queue[j]
  <2>1. i \in 1..(book.next_id - 1) /\ j \in 1..(book.next_id - 1) /\ book.next_id \in Nat
    BY <1>1 DEF ExecutorInv, Sound, Shape, QueueSound
  <2>2. book.queue[i] = -i /\ book.queue[j] = j
    BY <1>1 DEF ExecutorInv, Sound, QueueSound, Front, Back
  <2> QED BY <2>1, <2>2
<1>2. ExecutorInv => StopsFirst
  BY <1>1 DEF StopsFirst
<1> QED BY <1>2, ExecutorInvariant, PTL

\* Once Shutdown has returned every command has a verdict, whatever the threads
\* were doing when it began and whether or not the controlled stop succeeded.
THEOREM ShutdownSettles == Spec => []SettledAfterShutdown
<1>1. ExecutorInv => SettledAfterShutdown
  BY DEF ExecutorInv
<1> QED BY <1>1, ExecutorInvariant, PTL

\* A verdict never changes.
THEOREM VerdictsStay == Spec => VerdictsAreFinal
<1> DEFINE Final == \A id \in DOMAIN book.commands \cap DOMAIN book'.commands :
                       State(book, id) \in Terminal => State(book', id) = State(book, id)
<1>1. ExecutorInv /\ [Next]_vars => [Final]_vars
  BY ExecutorStep DEF Preserved, Follows
<1> QED BY <1>1, ExecutorInvariant, PTL DEF Spec, VerdictsAreFinal
-----------------------------------------------------------------------------
(***************************************************************************)
(* Type correctness.  TypeOK is not inductive: a driver call keeps the     *)
(* type of the controller only for a request the guard has admitted, which *)
(* was when it was submitted, and a jog is one of a client only because    *)
(* the service's own requests are stops.                                   *)
(***************************************************************************)

\* A request as the records hold it: the service's own, or one of a client that
\* the guard has admitted.
Lawful(req) ==
    \/ req = InternalStop
    \/ /\ req.type \in CommandTypes
       /\ req.client \in Clients
       /\ req.lease \in Nat
       /\ req.type = "WriteDigitalOutput" => req.payload.index \in Nat

JogRecords == [active : BOOLEAN, client : Clients \cup {""}, lease : Nat,
               due : BOOLEAN]

\* LedgerOK with what the operations need to keep it.
Typed(b) ==
    /\ Shape(b)
    /\ \A id \in DOMAIN b.commands :
          /\ Lawful(b.commands[id].req)
          /\ b.commands[id].late \in BOOLEAN
          /\ b.commands[id].ended \in Nat
    /\ \A id \in DOMAIN b.queue : b.queue[id] \in {Front(id), Back(id)}
    /\ b.ticks \in Nat
    /\ b.seen \in BOOLEAN /\ b.grace \in BOOLEAN /\ b.stop_requested \in BOOLEAN
    /\ b.jog \in JogRecords

\* A lawful request has the shape of one.
LEMMA LawfulShape == ASSUME NEW req, Lawful(req) PROVE RequestShape(req)
BY DEF Lawful, RequestShape, InternalStop, CommandTypes

\* A ledger of this kind is one TypeOK allows.
LEMMA TypedIsOK == ASSUME NEW b, Typed(b) PROVE LedgerOK(b)
BY LawfulShape DEF Typed, Shape, LedgerOK, JogRecords

\* The empty ledger has its types.
LEMMA EmptyTyped == Typed(EmptyLedger)
<1>1. Shape(EmptyLedger)
  BY DEF Shape, EmptyLedger
<1>2. NoJog \in JogRecords
  BY DEF NoJog, JogRecords
<1> QED BY <1>1, <1>2 DEF Typed, EmptyLedger

\* A verdict.
LEMMA FinishTyped ==
    ASSUME NEW b, Typed(b), NEW S, NEW s \in CommandStates
    PROVE  Typed(Finish(b, S, s))
<1> DEFINE c == Finish(b, S, s)
<1>1. /\ DOMAIN c = DOMAIN b /\ DOMAIN c.commands = DOMAIN b.commands
      /\ c.ticks = b.ticks + 1
      /\ c.queue = b.queue /\ c.next_id = b.next_id /\ c.active = b.active
      /\ c.seen = b.seen /\ c.grace = b.grace /\ c.jog = b.jog
      /\ c.stop_requested = b.stop_requested
  BY DEF Finish, Typed, Shape
<1>2. ASSUME NEW id \in DOMAIN b.commands
      PROVE  /\ DOMAIN c.commands[id] = {"req", "state", "late", "ended"}
             /\ c.commands[id].state \in CommandStates
             /\ c.commands[id].req = b.commands[id].req
             /\ c.commands[id].late = b.commands[id].late
             /\ c.commands[id].ended \in Nat
  <2>1. c.commands[id] = IF id \in S
                         THEN [b.commands[id] EXCEPT !.state = s, !.ended = b.ticks]
                         ELSE b.commands[id]
    BY DEF Finish, Typed, Shape
  <2> QED BY <2>1 DEF Typed, Shape
<1> HIDE DEF c
<1> QED BY <1>1, <1>2 DEF Typed, Shape, c

\* A removal from the deque.
LEMMA DequeueTyped == ASSUME NEW b, Typed(b), NEW S PROVE Typed(Dequeue(b, S))
BY DEF Dequeue, Typed, Shape

\* The same two in a row.
LEMMA CancelTyped ==
    ASSUME NEW b, Typed(b), NEW S, NEW s \in CommandStates, NEW T
    PROVE  Typed(Dequeue(Finish(b, S, s), T))
BY FinishTyped, DequeueTyped

\* A new record.
LEMMA EnqueueTyped ==
    ASSUME NEW b, Typed(b), NEW req, Lawful(req),
           NEW rank \in {Front(b.next_id), Back(b.next_id)}
    PROVE  Typed(Enqueue(b, req, rank))
<1> DEFINE n == b.next_id
           c == Enqueue(b, req, rank)
<1>1. /\ DOMAIN c = DOMAIN b /\ DOMAIN c.commands = DOMAIN b.commands \cup {n}
      /\ DOMAIN c.queue = DOMAIN b.queue \cup {n}
      /\ c.next_id = n + 1 /\ n \in Nat \ {0}
      /\ c.ticks = b.ticks /\ c.active = b.active
      /\ c.seen = b.seen /\ c.grace = b.grace /\ c.jog = b.jog
      /\ c.stop_requested = b.stop_requested
  BY DEF Enqueue, Typed, Shape
<1>2. ASSUME NEW id \in DOMAIN c.commands
      PROVE  c.commands[id] = IF id = n
                              THEN [req |-> req, state |-> "Queued", late |-> FALSE,
                                    ended |-> 0]
                              ELSE b.commands[id]
  BY <1>1 DEF Enqueue, Typed, Shape
<1>3. ASSUME NEW id \in DOMAIN c.queue
      PROVE  c.queue[id] = IF id = n THEN rank ELSE b.queue[id]
  BY <1>1 DEF Enqueue, Typed, Shape
<1> HIDE DEF c
<1>4. ASSUME NEW id \in DOMAIN c.commands
      PROVE  /\ id \in 1..n
             /\ DOMAIN c.commands[id] = {"req", "state", "late", "ended"}
             /\ c.commands[id].state \in CommandStates
             /\ Lawful(c.commands[id].req)
             /\ c.commands[id].late \in BOOLEAN
             /\ c.commands[id].ended \in Nat
  <2>1. CASE id = n
    <3> DEFINE new == [req |-> req, state |-> "Queued", late |-> FALSE, ended |-> 0]
    <3>1. c.commands[id] = new
      BY <1>2, <2>1
    <3>2. /\ DOMAIN new = {"req", "state", "late", "ended"}
          /\ new.req = req /\ new.state = "Queued" /\ new.late = FALSE /\ new.ended = 0
      OBVIOUS
    <3> HIDE DEF new
    <3>3. id \in 1..n
      BY <1>1, <2>1
    <3>4. /\ c.commands[id].req = req /\ c.commands[id].state = "Queued"
          /\ c.commands[id].late = FALSE /\ c.commands[id].ended = 0
          /\ DOMAIN c.commands[id] = {"req", "state", "late", "ended"}
      BY <3>1, <3>2
    <3>5. "Queued" \in CommandStates /\ FALSE \in BOOLEAN /\ 0 \in Nat
      BY DEF CommandStates
    <3> QED BY <3>3, <3>4, <3>5
  <2>2. CASE id # n
    BY <1>1, <1>2, <2>2 DEF Typed, Shape
  <2> QED BY <2>1, <2>2
<1>5. Shape(c)
  BY <1>1, <1>4 DEF Typed, Shape
<1>6. \A id \in DOMAIN c.queue : c.queue[id] \in {Front(id), Back(id)}
  BY <1>1, <1>3 DEF Typed
<1>7. /\ c.ticks \in Nat /\ c.jog \in JogRecords
      /\ c.seen \in BOOLEAN /\ c.grace \in BOOLEAN /\ c.stop_requested \in BOOLEAN
  BY <1>1 DEF Typed
<1> HIDE DEF n
<1> QED BY <1>4, <1>5, <1>6, <1>7 DEF Typed, c

\* Flags, the active motion and the jog.
LEMMA FlagsTyped ==
    ASSUME NEW b, Typed(b)
    PROVE  /\ \A f \in BOOLEAN : /\ Typed([b EXCEPT !.stop_requested = f])
                                 /\ Typed([b EXCEPT !.seen = f])
                                 /\ Typed([b EXCEPT !.grace = f])
           /\ Typed([b EXCEPT !.active = 0])
           /\ \A j \in JogRecords : Typed([b EXCEPT !.jog = j])
           /\ Typed([b EXCEPT !.jog.due = TRUE])
<1>1. ASSUME NEW f \in BOOLEAN
      PROVE  /\ Typed([b EXCEPT !.stop_requested = f])
             /\ Typed([b EXCEPT !.seen = f])
             /\ Typed([b EXCEPT !.grace = f])
  BY DEF Typed, Shape
<1>2. Typed([b EXCEPT !.active = 0])
  BY DEF Typed, Shape
<1>3. ASSUME NEW j \in JogRecords PROVE Typed([b EXCEPT !.jog = j])
  BY DEF Typed, Shape
<1>4. [b EXCEPT !.jog.due = TRUE] = [b EXCEPT !.jog = [b.jog EXCEPT !.due = TRUE]]
  OBVIOUS
<1>5. [b.jog EXCEPT !.due = TRUE] \in JogRecords
  BY DEF Typed, JogRecords
<1> QED BY <1>1, <1>2, <1>3, <1>4, <1>5

\* An internal stop.
LEMMA InternalStopTyped ==
    ASSUME NEW b, Typed(b) PROVE Typed(RequestInternalStopLocked(b))
<1> DEFINE e == Enqueue(b, InternalStop, Front(b.next_id))
<1>1. Typed(e)
  BY EnqueueTyped DEF Lawful
<1> HIDE DEF e
<1>2. Typed([e EXCEPT !.stop_requested = TRUE])
  BY <1>1, FlagsTyped
<1> QED BY <1>2 DEF RequestInternalStopLocked, e

\* A verdict where none has been given.
LEMMA FinishIfOpenTyped ==
    ASSUME NEW b, Typed(b), NEW id, NEW s \in CommandStates
    PROVE  Typed(FinishIfOpen(b, id, s))
BY FinishTyped DEF FinishIfOpen

\* No motion is active any more.
LEMMA ResetActiveTyped == ASSUME NEW b, Typed(b) PROVE Typed(ResetActive(b))
BY DEF ResetActive, Typed, Shape

\* The same with a verdict.
LEMMA CompleteActiveTyped ==
    ASSUME NEW b, Typed(b), NEW s \in CommandStates
    PROVE  Typed(CompleteActiveMotionLocked(b, s))
BY FinishIfOpenTyped, ResetActiveTyped DEF CompleteActiveMotionLocked

\* No jog is recorded any more.
LEMMA ClearJogTyped == ASSUME NEW b, Typed(b) PROVE Typed(ClearActiveJogLocked(b))
<1>1. NoJog \in JogRecords
  BY DEF NoJog, JogRecords
<1> QED BY <1>1, FlagsTyped DEF ClearActiveJogLocked

\* Finished records are forgotten.
LEMMA PruneTyped ==
    ASSUME NEW b, Typed(b), NEW c \in PruneCommandHistoryLocked(b) PROVE Typed(c)
<1>1. PICK P : c = Forget(b, P)
  BY DEF PruneCommandHistoryLocked
<1> QED BY <1>1 DEF Forget, Typed, Shape

\* What the poll thread concludes from a snapshot.
LEMMA UpdateTyped ==
    ASSUME NEW b, Typed(b), NEW s PROVE Typed(UpdateActiveMotionLocked(b, s))
<1> DEFINE Ended(v) == FinishIfOpen(b, b.active, v)
           failed == RequestInternalStopLocked(Ended("Failed"))
           done == ResetActive(Ended("Succeeded"))
<1>1. /\ Typed(Ended("Failed")) /\ Typed(Ended("TimedOut"))
      /\ Typed(Ended("Succeeded"))
  BY FinishIfOpenTyped DEF CommandStates
<1>2. UpdateActiveMotionLocked(b, s) \in
        {b, [b EXCEPT !.active = 0], [b EXCEPT !.seen = TRUE],
         RequestInternalStopLocked(Ended("TimedOut")),
         ResetActive(failed), [done EXCEPT !.stop_requested = FALSE]}
  BY DEF UpdateActiveMotionLocked
<1> HIDE DEF Ended
<1>3. /\ Typed(failed) /\ Typed(done)
      /\ Typed(RequestInternalStopLocked(Ended("TimedOut")))
  BY <1>1, InternalStopTyped, ResetActiveTyped
<1> HIDE DEF failed, done
<1>4. Typed(ResetActive(failed)) /\ Typed([done EXCEPT !.stop_requested = FALSE])
  BY <1>3, ResetActiveTyped, FlagsTyped
<1>5. Typed([b EXCEPT !.active = 0]) /\ Typed([b EXCEPT !.seen = TRUE])
  BY FlagsTyped
<1> QED BY <1>2, <1>3, <1>4, <1>5

\* A motion starts.
LEMMA StartMotionTyped ==
    ASSUME NEW b, Typed(b), NEW id \in DOMAIN b.commands, NEW valid
    PROVE  Typed(StartMotion(b, id, valid))
<1> DEFINE f == Finish(b, {id}, "Failed")
           a == [b EXCEPT !.active = id, !.seen = FALSE, !.grace = FALSE,
                          !.stop_requested = FALSE]
<1>1. Typed(f)
  BY FinishTyped DEF CommandStates
<1>2. Typed(a)
  BY DEF Typed, Shape
<1>3. StartMotion(b, id, valid) \in
        {RequestInternalStopLocked(f), a, RequestInternalStopLocked(a)}
  BY DEF StartMotion
<1> HIDE DEF f, a
<1> QED BY <1>1, <1>2, <1>3, InternalStopTyped

\* A jog of a client starts.
LEMMA StartJogTyped ==
    ASSUME NEW b, Typed(b), NEW req, Lawful(req), req.type = "Jog", NEW valid
    PROVE  Typed(StartJog(b, req, valid))
<1> DEFINE j == [active |-> TRUE, client |-> req.client, lease |-> req.lease,
                 due |-> FALSE]
           a == [b EXCEPT !.jog = j]
<1>1. req # InternalStop
  BY DEF InternalStop
<1>2. j \in JogRecords
  BY <1>1 DEF Lawful, JogRecords
<1>3. Typed(a)
  BY <1>2, FlagsTyped
<1>4. StartJog(b, req, valid) \in {a, RequestInternalStopLocked(a)}
  BY DEF StartJog
<1> HIDE DEF a
<1> QED BY <1>3, <1>4, InternalStopTyped

\* The completion of a command, whatever its type.
LEMMA CompletedTyped ==
    ASSUME NEW b, Typed(b), NEW id \in DOMAIN b.commands, NEW valid
    PROVE  Typed(Completed(b, id, valid))
<1> DEFINE req == b.commands[id].req
           d == Finish(b, {id}, "Succeeded")
           m == CompleteActiveMotionLocked(d, "Stopped")
           j == ClearActiveJogLocked(m)
           p == CompleteActiveProgramLocked(d)
<1>1. Typed(d) /\ Lawful(req)
  BY FinishTyped DEF CommandStates, Typed
<1>2. \/ req.type = "Jog" /\ Completed(b, id, valid) = StartJog(d, req, valid)
      \/ Completed(b, id, valid) \in
           {StartMotion(b, id, valid), ClearActiveJogLocked(d),
            [j EXCEPT !.stop_requested = FALSE], [p EXCEPT !.stop_requested = FALSE], d}
  BY DEF Completed
<1> HIDE DEF d, req
<1>3. Typed(m) /\ Typed(p)
  BY <1>1, CompleteActiveTyped DEF CompleteActiveProgramLocked, CommandStates
<1> HIDE DEF m
<1>4. Typed(j)
  BY <1>3, ClearJogTyped
<1> HIDE DEF j, p
<1>5. /\ Typed([j EXCEPT !.stop_requested = FALSE])
      /\ Typed([p EXCEPT !.stop_requested = FALSE])
  BY <1>3, <1>4, FlagsTyped
<1>6. /\ Typed(ClearActiveJogLocked(d)) /\ Typed(StartMotion(b, id, valid))
      /\ req.type = "Jog" => Typed(StartJog(d, req, valid))
  BY <1>1, ClearJogTyped, StartMotionTyped, StartJogTyped
<1> QED BY <1>1, <1>2, <1>5, <1>6

\* A change of one field of one record.
LEMMA RecordTyped ==
    ASSUME NEW b, Typed(b), NEW id \in DOMAIN b.commands
    PROVE  /\ Typed([b EXCEPT !.commands[id].state = "Running"])
           /\ Typed([b EXCEPT !.commands[id].late = TRUE])
<1>1. ASSUME NEW r, DOMAIN r = {"req", "state", "late", "ended"},
             r.state \in CommandStates, r.req = b.commands[id].req,
             r.late \in BOOLEAN, r.ended = b.commands[id].ended
      PROVE  Typed([b EXCEPT !.commands[id] = r])
  BY <1>1 DEF Typed, Shape
<1>2. /\ [b EXCEPT !.commands[id].state = "Running"] =
            [b EXCEPT !.commands[id] = [b.commands[id] EXCEPT !.state = "Running"]]
      /\ [b EXCEPT !.commands[id].late = TRUE] =
            [b EXCEPT !.commands[id] = [b.commands[id] EXCEPT !.late = TRUE]]
  OBVIOUS
<1> DEFINE taken == [b.commands[id] EXCEPT !.state = "Running"]
           late == [b.commands[id] EXCEPT !.late = TRUE]
<1>3. /\ DOMAIN taken = {"req", "state", "late", "ended"}
      /\ taken.state \in CommandStates /\ taken.req = b.commands[id].req
      /\ taken.late \in BOOLEAN /\ taken.ended = b.commands[id].ended
  BY DEF Typed, Shape, CommandStates
<1>4. /\ DOMAIN late = {"req", "state", "late", "ended"}
      /\ late.state \in CommandStates /\ late.req = b.commands[id].req
      /\ late.late \in BOOLEAN /\ late.ended = b.commands[id].ended
  BY DEF Typed, Shape
<1>5. Typed([b EXCEPT !.commands[id] = taken]) /\ Typed([b EXCEPT !.commands[id] = late])
  <2> HIDE DEF taken, late
  <2> QED BY <1>1, <1>3, <1>4
<1> QED BY <1>2, <1>5

\* The second critical section of Submit.
LEMMA SubmittedTyped ==
    ASSUME NEW b, Typed(b), NEW req, Lawful(req),
           NEW pruned \in PruneCommandHistoryLocked(MakeRoom(b))
    PROVE  Typed(pruned) /\ Typed(Insert(pruned, req))
<1>1. Typed(MakeRoom(b))
  BY CancelTyped DEF MakeRoom, CommandStates
<1>2. Typed(pruned)
  BY <1>1, PruneTyped
<1> DEFINE rank == IF req.type = "Stop" THEN Front(pruned.next_id)
                                        ELSE Back(pruned.next_id)
           e == Enqueue(pruned, req, rank)
<1>3. Typed(e)
  BY <1>2, EnqueueTyped
<1>4. PICK map : Insert(pruned, req) = [e EXCEPT !.idempotency = map]
  BY DEF Insert
<1> HIDE DEF e
<1>5. ASSUME NEW keys PROVE Typed([e EXCEPT !.idempotency = keys])
  BY <1>3 DEF Typed, Shape
<1> QED BY <1>2, <1>4, <1>5

\* The last critical section of Shutdown.
LEMMA SettledTyped ==
    ASSUME NEW b, Typed(b), NEW stopped PROVE Typed(Settled(b, stopped))
<1> DEFINE c == CancelCommandsForShutdownLocked(b)
           m == CompleteActiveMotionLocked(c, IF stopped THEN "Stopped" ELSE "Failed")
           j == ClearActiveJogLocked(m)
<1>1. Typed(c)
  BY CancelTyped DEF CancelCommandsForShutdownLocked, CommandStates
<1> HIDE DEF c
<1>2. Typed(m)
  BY <1>1, CompleteActiveTyped DEF CommandStates
<1> HIDE DEF m
<1>3. Typed(j)
  BY <1>2, ClearJogTyped
<1>4. Settled(b, stopped) = [j EXCEPT !.stop_requested = FALSE]
  BY DEF Settled, j, m, c
<1> HIDE DEF j
<1> QED BY <1>3, <1>4, FlagsTyped

\* A lease is given back, or a watchdog looks.
LEMMA StopsTyped ==
    ASSUME NEW b, Typed(b)
    PROVE  Typed(Watched(b)) /\ \A req : Typed(Released(b, req))
<1>1. Typed(Watched(b))
  BY InternalStopTyped DEF Watched
<1>2. ASSUME NEW req PROVE Typed(Released(b, req))
  <2> DEFINE c == CancelQueuedCommandsForLeaseLocked(b, req.lease, req.client)
  <2>1. Typed(c)
    BY CancelTyped DEF CancelQueuedCommandsForLeaseLocked, CommandStates
  <2> HIDE DEF c
  <2>2. Released(b, req) \in {c, RequestInternalStopLocked(c)}
    BY DEF Released, c
  <2> QED BY <2>1, <2>2, InternalStopTyped
<1> QED BY <1>1, <1>2

-----------------------------------------------------------------------------
\* What a driver method returns: a status, and driver and controller afterwards.
Results == [ok : BOOLEAN, robot : Robots]

\* Driver and controller keep their type, whatever the driver is asked to do.
LEMMA DriverTyped ==
    ASSUME NEW r \in Robots
    PROVE  /\ AcquireControl(r) \in Results /\ ReleaseControl(r) \in Results
           /\ PowerOn(r) \in Results /\ PowerOff(r) \in Results
           /\ ClearFault(r) \in Results
           /\ \A ratio : SetGlobalSpeed(r, ratio) \in Results
           /\ \A S, speed : Move(r, S, speed) \in Results
           /\ Hold(r) \in Results /\ Resume(r) \in Results
           /\ \A mode : Stop(r, mode) \in Results
           /\ \A p : Jog(r, p) \in Results
           /\ \A name : LoadProgram(r, name) \in Results
           /\ StartProgram(r) \in Results /\ StopProgram(r) \in Results
           /\ RefreshMotionLocked(r) \in Robots
           /\ Connect(r) \in Results /\ Disconnect(r) \in Results
           /\ Refuse(r) \in Results
<1>1. \A s \in Robots : Accept(s) \in Results /\ Refuse(s) \in Results
  BY DEF Accept, Refuse, Results
<1>2. AcquireControl(r) \in Results /\ ReleaseControl(r) \in Results
  <2>1. \A v \in BOOLEAN : [r EXCEPT !.api_control = v] \in Robots
    BY DEF Robots
  <2> QED BY <1>1, <2>1 DEF AcquireControl, ReleaseControl
<1>3. AtRest(r) \in Robots
  BY DEF AtRest, Robots
<1>4. \A q \in Robots, v \in BOOLEAN : [q EXCEPT !.servo_on = v] \in Robots
  BY DEF Robots
<1>5. PowerOn(r) \in Results /\ PowerOff(r) \in Results
  BY <1>1, <1>3, <1>4 DEF PowerOn, PowerOff
<1>6. ClearFault(r) \in Results
  <2>1. [r EXCEPT !.alarm_active = FALSE] \in Robots
    BY DEF Robots
  <2> QED BY <1>1, <2>1 DEF ClearFault
<1>7. ASSUME NEW ratio PROVE SetGlobalSpeed(r, ratio) \in Results
  <2>1. ASSUME ratio \in 1..100 PROVE [r EXCEPT !.speed_ratio = ratio] \in Robots
    BY <2>1 DEF Robots
  <2> QED BY <1>1, <2>1 DEF SetGlobalSpeed
<1>8. \A q \in Robots : BeginMotionLocked(q) \in Robots
  BY DEF BeginMotionLocked, Robots
<1>9. ASSUME NEW S, NEW speed PROVE Move(r, S, speed) \in Results
  BY <1>1, <1>8 DEF Move
<1>10. RefreshMotionLocked(r) \in Robots
  <2>1. [r EXCEPT !.moving = FALSE, !.program_running = FALSE] \in Robots
    BY DEF Robots
  <2> QED BY <2>1 DEF RefreshMotionLocked
<1>11. Hold(r) \in Results
  <2>1. \A q \in Robots : [q EXCEPT !.moving = FALSE, !.paused = TRUE] \in Robots
    BY DEF Robots
  <2> QED BY <1>1, <1>10, <2>1 DEF Hold
<1>12. Resume(r) \in Results
  BY <1>1, <1>8 DEF Resume
<1>13. ASSUME NEW mode PROVE Stop(r, mode) \in Results
  BY <1>1, <1>3, <1>4 DEF Stop
<1>14. ASSUME NEW p PROVE Jog(r, p) \in Results
  <2>1. \A v, w \in BOOLEAN :
           [r EXCEPT !.moving = v, !.paused = FALSE, !.jog_active = w] \in Robots
    BY DEF Robots
  <2> QED BY <1>1, <2>1 DEF Jog
<1>15. ASSUME NEW name PROVE LoadProgram(r, name) \in Results
  <2>1. [r EXCEPT !.program_loaded = TRUE] \in Robots
    BY DEF Robots
  <2> QED BY <1>1, <2>1 DEF LoadProgram
<1>16. StartProgram(r) \in Results
  <2>1. [r EXCEPT !.program_running = TRUE] \in Robots
    BY DEF Robots
  <2> QED BY <1>1, <1>8, <2>1 DEF StartProgram
<1>17. StopProgram(r) \in Results
  BY <1>1, <1>3 DEF StopProgram
<1>18. Connect(r) \in Results
  <2>1. [r EXCEPT !.connected = TRUE, !.mode = "Automatic", !.speed_ratio = 10] \in Robots
    BY DEF Robots, ControllerModes
  <2> QED BY <1>1, <2>1 DEF Connect
<1>19. Disconnect(r) \in Results
  <2>1. Unconnected(r.outputs) \in Robots
    BY DEF Unconnected, Robots, ControllerModes
  <2> QED BY <1>1, <2>1 DEF Disconnect
<1> QED
  BY <1>1, <1>2, <1>5, <1>6, <1>7, <1>9, <1>10, <1>11, <1>12, <1>13, <1>14, <1>15,
     <1>16, <1>17, <1>18, <1>19

\* So does a write to an output with a number.
LEMMA WriteTyped ==
    ASSUME NEW r \in Robots, NEW index \in Nat, NEW value
    PROVE  WriteDigitalOutput(r, index, value) \in Results
<1> DEFINE outputs == IF value THEN r.outputs \cup {index} ELSE r.outputs \ {index}
<1>1. CASE index < DigitalIoCount
  <2>1. outputs \in SUBSET (0..(DigitalIoCount - 1))
    BY <1>1, DigitalIoAssumption DEF Robots
  <2>2. WriteDigitalOutput(r, index, value) = Accept([r EXCEPT !.outputs = outputs])
    BY <1>1 DEF WriteDigitalOutput, Robots
  <2>3. [r EXCEPT !.outputs = outputs] \in Robots
    BY <2>1 DEF Robots
  <2> QED BY <2>2, <2>3 DEF Results, Accept
<1>2. CASE ~(index < DigitalIoCount)
  BY <1>2 DEF WriteDigitalOutput, Refuse, Results
<1> QED BY <1>1, <1>2

\* A command of the records keeps the type of driver and controller.
LEMMA ExecuteTyped ==
    ASSUME NEW r \in Robots, NEW req, Lawful(req) PROVE Execute(r, req) \in Results
<1>1. req.type \in CommandTypes
  BY DEF Lawful, InternalStop, CommandTypes
<1>2. CASE req.type \in {"AcquireControl", "ReleaseControl", "PowerOn", "PowerOff",
                         "ClearFault", "SetGlobalSpeed", "MoveJ", "MoveL", "MoveC"}
  BY <1>2, DriverTyped DEF Execute
<1>3. CASE req.type \in {"Hold", "Resume", "Stop", "Jog", "LoadProgram",
                         "StartProgram", "StopProgram"}
  BY <1>3, DriverTyped DEF Execute
<1>4. CASE req.type = "WriteDigitalOutput"
  <2>1. Execute(r, req) = WriteDigitalOutput(r, req.payload.index, req.payload.value)
    BY <1>4 DEF Execute
  <2>2. req.payload.index \in Nat
    BY <1>4 DEF Lawful, InternalStop
  <2> QED BY <2>1, <2>2, WriteTyped
<1> QED BY <1>1, <1>2, <1>3, <1>4 DEF CommandTypes

\* A reading is a snapshot.
LEMMA SnapshotTyped == ASSUME NEW r \in Robots PROVE Snapshot(r) \in Snapshots
BY DEF Robots, Snapshot, Snapshots, DeriveLifecycleState, Lifecycles

\* What the guard admits may be recorded.
LEMMA AdmittedIsLawful ==
    ASSUME issued \in Nat, NEW req \in Submissions, Admits(req) # {}
    PROVE  Lawful(req)
<1>1. PICK r \in Requests, l \in Nat : req = WithLease(r, l)
  BY DEF Submissions
<1>2. req.type \in CommandTypes /\ req.client \in Clients /\ req.lease \in Nat
  BY <1>1, RequestersAssumption DEF WithLease
<1>3. ASSUME req.type = "WriteDigitalOutput" PROVE req.payload.index \in Nat
  <2>1. PICK valid \in BOOLEAN : Validate(req, latest, valid, book.jog.active) = "Ok"
    BY DEF Admits
  <2>2. req.payload.index \in Policy.writable_digital_outputs
    BY <1>3, <2>1 DEF Validate, RequireThenLease, RequireLease
  <2> QED BY <2>2, PolicyAssumption
<1> QED BY <1>2, <1>3 DEF Lawful

-----------------------------------------------------------------------------
\* What TypeOK says of the threads of the service.
ThreadsTyped ==
    /\ running \in BOOLEAN /\ shutting_down \in BOOLEAN /\ started_once \in BOOLEAN
    /\ worker.pc \in {"off", "idle", "taken", "snapshot", "execute", "complete",
                      "exited"}
    /\ worker.id \in Nat /\ worker.admits \subseteq BOOLEAN /\ worker.ok \in BOOLEAN
    /\ poll.pc \in {"off", "check", "read", "publish", "exited"}
    /\ shutdown.pc \in {"none", "flagged", "stopped", "disconnected", "done"}

\* What is read from the controller.
ReadingsTyped ==
    /\ robot \in Robots
    /\ latest \in Snapshots /\ stale \in BOOLEAN
    /\ poll.reading \in Snapshots

\* The calls in progress: what waits to be recorded has been admitted.
CallsTyped ==
    /\ issued \in Nat
    /\ DOMAIN rpc = Threads
    /\ \A t \in Threads :
          /\ DOMAIN rpc[t] = {"pc", "req", "admits"}
          /\ rpc[t].pc \in {"idle", "release", "validate", "enqueue"}
          /\ rpc[t].pc \in {"validate", "enqueue"} => Lawful(rpc[t].req)

TypesInv == Typed(book) /\ ThreadsTyped /\ ReadingsTyped /\ CallsTyped

\* The initial state has its types.
LEMMA TypesInit == Init => TypesInv
<1> SUFFICES ASSUME Init PROVE TypesInv
  OBVIOUS
<1>1. Typed(book)
  BY EmptyTyped DEF Init
<1>2. NoSnapshot \in Snapshots
  BY DEF NoSnapshot, Snapshots, ControllerModes, Lifecycles
<1>3. ThreadsTyped /\ CallsTyped
  BY DEF Init, LeaseInit, NoShutdown, IdleWorker, IdlePoll, IdleRpc,
      ThreadsTyped, CallsTyped
<1>4. ReadingsTyped
  BY <1>2, RobotsAssumption DEF Init, IdlePoll, ReadingsTyped
<1> QED BY <1>1, <1>3, <1>4 DEF TypesInv

\* What the worker gets back from the driver.
LEMMA WorkersResult ==
    ASSUME ExecutorInv, TypesInv, WorkerExecute
    PROVE  \E result \in Results :
              /\ robot' = result.robot
              /\ worker' = [worker EXCEPT !.pc = "complete", !.ok = result.ok]
<1> DEFINE req == book.commands[worker.id].req
<1>1. worker.id \in DOMAIN book.commands
  BY DEF WorkerExecute, ExecutorInv, StagesOK, Sound, OwnersSound, Held, WorkerBusy
<1>2. Lawful(req)
  BY <1>1 DEF TypesInv, Typed
<1> HIDE DEF req
<1>3. Outcomes(Execute(robot, req)) \subseteq Results
  BY <1>2, ExecuteTyped, DriverTyped DEF Outcomes, TypesInv, ReadingsTyped
<1> QED BY <1>3 DEF WorkerExecute, req

\* The ledger keeps its types.
LEMMA LedgerStepTyped == ASSUME ExecutorInv, TypesInv, [Next]_vars PROVE Typed(book')
<1>1. CASE UNCHANGED book
  BY <1>1 DEF TypesInv
<1>2. CASE ShutdownFinish
  BY <1>2, SettledTyped DEF ShutdownFinish, TypesInv
<1>3. ASSUME NEW t \in Threads, ReleaseCancel(t) PROVE Typed(book')
  BY <1>3, StopsTyped DEF ReleaseCancel, TypesInv
<1>4. ASSUME NEW t \in Threads, SubmitEnqueue(t) PROVE Typed(book')
  <2>1. CASE book' = book
    BY <2>1 DEF TypesInv
  <2>2. CASE book' # book
    <3>1. PICK pruned \in PruneCommandHistoryLocked(MakeRoom(book)) :
             book' = pruned \/ book' = Insert(pruned, rpc[t].req)
      BY <1>4, <2>2 DEF SubmitEnqueue
    <3>2. Lawful(rpc[t].req)
      BY <1>4 DEF SubmitEnqueue, TypesInv, CallsTyped
    <3> QED BY <3>1, <3>2, SubmittedTyped DEF TypesInv
  <2> QED BY <2>1, <2>2
<1>5. CASE WorkerTake
  <2> DEFINE id    == FindExecutableCommandLocked(book)
             taken == Dequeue(book, {id})
  <2>1. Executable(book) # {} /\ ~WorkerBusy
    BY <1>5 DEF WorkerTake, WorkerBusy
  <2>2. id \in Executable(book)
    BY <2>1, FirstExecutable DEF ExecutorInv
  <2>3. id \in DOMAIN taken.commands
    BY <2>2 DEF Executable, ExecutorInv, Sound, QueueSound, Shape, Dequeue
  <2>4. \/ book' = Finish(taken, {id}, "TimedOut")
        \/ book' = [taken EXCEPT !.commands[id].state = "Running"]
    BY <1>5 DEF WorkerTake
  <2>5. Typed(taken)
    BY DequeueTyped DEF TypesInv
  <2> HIDE DEF id, taken
  <2>6. Typed(Finish(taken, {id}, "TimedOut"))
    BY <2>5, FinishTyped DEF CommandStates
  <2>7. Typed([taken EXCEPT !.commands[id].state = "Running"])
    BY <2>3, <2>5, RecordTyped
  <2> QED BY <2>4, <2>6, <2>7
<1>6. CASE WorkerComplete
  <2>1. worker.id \in DOMAIN book.commands
    BY <1>6 DEF WorkerComplete, ExecutorInv, StagesOK, Sound, OwnersSound, Held, WorkerBusy
  <2>2. \/ \E valid : book' = Completed(book, worker.id, valid)
        \/ book' = Finish(book, {worker.id}, "Failed")
    BY <1>6 DEF WorkerComplete
  <2> QED BY <2>1, <2>2, CompletedTyped, FinishTyped DEF CommandStates, TypesInv
<1>7. CASE PollPublish
  <2> DEFINE d == IF poll.ok \/ stale THEN UpdateActiveMotionLocked(book, latest')
                                      ELSE book
  <2>1. Typed(d)
    BY UpdateTyped DEF TypesInv
  <2>2. book' = Watched(d)
    BY <1>7 DEF PollPublish
  <2> HIDE DEF d
  <2> QED BY <2>1, <2>2, StopsTyped
<1>8. CASE GracePasses \/ JogDeadlinePasses
  BY <1>8, FlagsTyped DEF GracePasses, JogDeadlinePasses, TypesInv
<1>9. ASSUME NEW id \in DOMAIN book.commands, CommandTimesOut(id) PROVE Typed(book')
  BY <1>9, RecordTyped DEF CommandTimesOut, TypesInv
<1>10. CASE \/ Start \/ ShutdownBegin \/ ShutdownStop \/ ShutdownDisconnect \/ Calls
            \/ \E t \in Threads : SubmitValidate(t)
            \/ WorkerExit \/ WorkerSnapshot \/ WorkerValidate \/ WorkerExecute
            \/ PollCheck \/ PollRead
            \/ LeaseLapses \/ SnapshotAges \/ MotionEnds \/ ControllerEvent
            \/ Terminated \/ UNCHANGED vars
  <2>1. UNCHANGED book
    BY <1>10 DEF Start, ShutdownBegin, ShutdownStop, ShutdownDisconnect, Calls,
                 AcquireControlLease, RenewControlLease, ReleaseControlLease, SubmitBegin,
                 SubmitValidate, WorkerExit, WorkerSnapshot, WorkerValidate, WorkerExecute,
                 PollCheck, PollRead, LeaseLapses, SnapshotAges, MotionEnds,
                 ControllerEvent, Terminated, vars
  <2> QED BY <1>1, <2>1
<1> QED
  BY <1>2, <1>3, <1>4, <1>5, <1>6, <1>7, <1>8, <1>9, <1>10
     DEF Next, Service, ShutdownSteps, RpcSteps, Worker, Poll, Environment

\* The threads of the service keep theirs.
LEMMA ThreadStepTyped ==
    ASSUME ExecutorInv, TypesInv, [Next]_vars PROVE ThreadsTyped'
<1> USE DEF flags, ThreadsTyped
<1>1. ThreadsTyped /\ StagesOK
  BY DEF TypesInv, ExecutorInv
<1>2. CASE Start \/ ShutdownBegin \/ ShutdownDisconnect \/ ShutdownFinish
  <2>1. CASE Start
    BY <1>1, <2>1 DEF Start, IdleWorker, IdlePoll
  <2>2. CASE ShutdownBegin \/ ShutdownDisconnect \/ ShutdownFinish
    BY <1>1, <2>2 DEF ShutdownBegin, ShutdownDisconnect, ShutdownFinish, StagesOK
  <2> QED BY <1>2, <2>1, <2>2
<1>3. CASE ShutdownStop
  BY <1>1, <1>3 DEF ShutdownStop
<1>4. CASE WorkerTake
  <2>1. /\ FindExecutableCommandLocked(book) \in Executable(book)
        /\ UNCHANGED <<running, shutting_down, started_once, poll, shutdown>>
    <3>1. Executable(book) # {} /\ ~WorkerBusy
      BY <1>4 DEF WorkerTake, WorkerBusy
    <3> QED BY <1>4, <3>1, FirstExecutable DEF ExecutorInv, WorkerTake
  <2>2. FindExecutableCommandLocked(book) \in Nat
    BY <2>1 DEF Executable, ExecutorInv, Sound, QueueSound, Shape
  <2>3. \/ worker' = worker
        \/ worker' = [worker EXCEPT !.pc = "taken", !.id = FindExecutableCommandLocked(book)]
    BY <1>4 DEF WorkerTake
  <2> QED BY <1>1, <2>1, <2>2, <2>3 DEF StagesOK
<1>5. CASE WorkerExit \/ WorkerSnapshot \/ WorkerValidate \/ WorkerComplete
  <2>1. UNCHANGED <<running, shutting_down, started_once, poll, shutdown>>
    BY <1>5 DEF WorkerExit, WorkerSnapshot, WorkerValidate, WorkerComplete
  <2>2. /\ worker'.pc \in {"idle", "snapshot", "execute", "complete", "exited"}
        /\ worker'.id \in Nat /\ worker'.admits \subseteq BOOLEAN
        /\ worker'.ok \in BOOLEAN
    <3>1. CASE WorkerExit
      BY <1>1, <3>1 DEF WorkerExit, StagesOK
    <3>2. CASE WorkerComplete
      <4>1. worker' = IdleWorker
        BY <3>2 DEF WorkerComplete
      <4> QED BY <4>1 DEF IdleWorker
    <3>3. CASE WorkerSnapshot
      BY <1>1, <3>3 DEF WorkerSnapshot, Admits, StagesOK
    <3>4. CASE WorkerValidate
      BY <1>1, <3>4 DEF WorkerValidate, StagesOK
    <3> QED BY <1>5, <3>1, <3>2, <3>3, <3>4
  <2> QED BY <1>1, <2>1, <2>2
<1>6. CASE WorkerExecute
  <2>1. PICK ok \in BOOLEAN : worker' = [worker EXCEPT !.pc = "complete", !.ok = ok]
    BY <1>6, WorkersResult DEF Results
  <2> QED BY <1>1, <1>6, <2>1 DEF WorkerExecute, StagesOK
<1>7. CASE PollCheck \/ PollRead \/ PollPublish
  BY <1>1, <1>7 DEF PollCheck, PollRead, PollPublish, IdlePoll, StagesOK
<1>8. CASE \/ Calls \/ \E t \in Threads : RpcSteps(t)
           \/ Environment \/ Terminated \/ UNCHANGED vars
  <2>1. UNCHANGED <<running, shutting_down, started_once, worker, poll, shutdown>>
    BY <1>8 DEF Calls, RpcSteps, Environment, Terminated, vars,
                AcquireControlLease, RenewControlLease, ReleaseControlLease, SubmitBegin,
                ReleaseCancel, SubmitValidate, SubmitEnqueue, LeaseLapses, SnapshotAges,
                MotionEnds, ControllerEvent, GracePasses, JogDeadlinePasses,
                CommandTimesOut
  <2> QED BY <1>1, <2>1
<1> QED
  BY <1>2, <1>3, <1>4, <1>5, <1>6, <1>7, <1>8
     DEF Next, Service, ShutdownSteps, Worker, Poll

\* Driver, controller and readings keep theirs.
LEMMA ReadingStepTyped ==
    ASSUME ExecutorInv, TypesInv, [Next]_vars PROVE ReadingsTyped'
<1>1. ReadingsTyped /\ StagesOK
  BY DEF TypesInv, ExecutorInv
<1> USE DEF ReadingsTyped, snapshot
<1>2. CASE Start
  <2> DEFINE connected == Connect(robot).robot
  <2>1. connected \in Robots
    BY <1>1, DriverTyped DEF Results
  <2>2. /\ robot' = connected /\ latest' = Snapshot(connected) /\ stale' = stale
        /\ poll'.reading = NoSnapshot
    BY <1>2 DEF Start, IdlePoll
  <2>3. NoSnapshot \in Snapshots
    BY DEF NoSnapshot, Snapshots, ControllerModes, Lifecycles
  <2> HIDE DEF connected
  <2> QED BY <1>1, <2>1, <2>2, <2>3, SnapshotTyped
<1>3. CASE ShutdownStop
  <2>1. Outcomes(Stop(robot, "Controlled")) \subseteq Results
    BY <1>1, DriverTyped DEF Outcomes
  <2>2. robot' \in Robots
    BY <1>3, <2>1 DEF ShutdownStop, Results
  <2> QED BY <1>1, <1>3, <2>2 DEF ShutdownStop
<1>4. CASE ShutdownDisconnect
  <2>1. ReleaseControl(robot).robot \in Robots
    BY <1>1, DriverTyped DEF Results
  <2>2. robot' \in Robots
    BY <1>4, <2>1, DriverTyped DEF ShutdownDisconnect, Results
  <2> QED BY <1>1, <1>4, <2>2 DEF ShutdownDisconnect
<1>5. CASE WorkerExecute
  <2>1. robot' \in Robots
    BY <1>5, WorkersResult DEF Results
  <2> QED BY <1>1, <1>5, <2>1 DEF WorkerExecute
<1>6. CASE PollRead
  <2>1. RefreshMotionLocked(robot) \in Robots
    BY <1>1, DriverTyped
  <2>2. UNCHANGED snapshot
    BY <1>6 DEF PollRead
  <2>3. \/ /\ robot' = RefreshMotionLocked(robot)
           /\ poll'.reading = Snapshot(RefreshMotionLocked(robot))
        \/ robot' = robot /\ poll'.reading = poll.reading
    BY <1>1, <1>6 DEF PollRead, StagesOK
  <2> QED BY <1>1, <2>1, <2>2, <2>3, SnapshotTyped
<1>7. CASE PollPublish
  <2>1. [latest EXCEPT !.lifecycle = "Unknown"] \in Snapshots
    BY <1>1 DEF Snapshots, Lifecycles
  <2>2. latest' \in Snapshots
    BY <1>1, <1>7, <2>1 DEF PollPublish
  <2>3. stale' \in BOOLEAN
    BY <1>1, <1>7 DEF PollPublish
  <2>4. poll'.reading \in Snapshots
    BY <1>7 DEF PollPublish, IdlePoll, NoSnapshot, Snapshots, ControllerModes, Lifecycles
  <2> QED BY <1>1, <1>7, <2>2, <2>3, <2>4 DEF PollPublish
<1>8. CASE PollCheck
  <2>1. poll'.reading = poll.reading /\ UNCHANGED <<snapshot, robot>>
    BY <1>1, <1>8 DEF PollCheck, StagesOK
  <2> QED BY <1>1, <2>1
<1>9. CASE MotionEnds
  BY <1>1, <1>9 DEF MotionEnds, Robots
<1>10. CASE ControllerEvent
  <2>1. \A on \in BOOLEAN : SetEmergencyStop(robot, on) \in Robots
    BY <1>1 DEF SetEmergencyStop, Robots
  <2>2. SetAlarm(robot, TRUE) \in Robots
    BY <1>1 DEF SetAlarm, Robots
  <2>3. \A mode \in {"Manual", "Automatic"} : SetControllerMode(robot, mode) \in Robots
    BY <1>1 DEF SetControllerMode, Robots, ControllerModes
  <2>4. robot' \in Robots
    BY <1>10, <2>1, <2>2, <2>3 DEF ControllerEvent
  <2> QED BY <1>1, <1>10, <2>4 DEF ControllerEvent
<1>11. CASE SnapshotAges
  BY <1>1, <1>11 DEF SnapshotAges
<1>12. CASE \/ ShutdownBegin \/ ShutdownFinish \/ Calls
            \/ \E t \in Threads : RpcSteps(t)
            \/ WorkerTake \/ WorkerExit \/ WorkerSnapshot \/ WorkerValidate
            \/ WorkerComplete \/ LeaseLapses \/ GracePasses \/ JogDeadlinePasses
            \/ \E id \in DOMAIN book.commands : CommandTimesOut(id)
            \/ Terminated \/ UNCHANGED vars
  <2>1. UNCHANGED <<snapshot, robot, poll>>
    BY <1>12 DEF ShutdownBegin, ShutdownFinish, Calls, RpcSteps, AcquireControlLease,
                 RenewControlLease, ReleaseControlLease, SubmitBegin, ReleaseCancel,
                 SubmitValidate, SubmitEnqueue, WorkerTake, WorkerExit, WorkerSnapshot,
                 WorkerValidate, WorkerComplete, LeaseLapses, GracePasses,
                 JogDeadlinePasses, CommandTimesOut, Terminated, vars
  <2> QED BY <1>1, <2>1
<1> QED
  BY <1>2, <1>3, <1>4, <1>5, <1>6, <1>7, <1>8, <1>9, <1>10, <1>11, <1>12
     DEF Next, Service, ShutdownSteps, Worker, Poll, Environment

\* So do the calls in progress.
LEMMA CallStepTyped == ASSUME TypesInv, [Next]_vars PROVE CallsTyped'
<1> DEFINE CallTyped(c) == /\ DOMAIN c = {"pc", "req", "admits"}
                           /\ c.pc \in {"idle", "release", "validate", "enqueue"}
                           /\ c.pc \in {"validate", "enqueue"} => Lawful(c.req)
<1>1. issued \in Nat /\ DOMAIN rpc = Threads /\ \A t \in Threads : CallTyped(rpc[t])
  BY DEF TypesInv, CallsTyped
<1>2. CallTyped(IdleRpc)
  BY DEF IdleRpc
<1>3. ASSUME NEW t \in Threads, NEW c, CallTyped(c), rpc' = [rpc EXCEPT ![t] = c],
             issued' = issued
      PROVE  CallsTyped'
  BY <1>1, <1>3 DEF CallsTyped
<1>4. ASSUME NEW t \in Threads, NEW req \in Submissions, SubmitBegin(t, req)
      PROVE  CallsTyped'
  <2> DEFINE c == [pc |-> "validate", req |-> req, admits |-> Admits(req)]
  <2>1. Lawful(req)
    BY <1>1, <1>4, AdmittedIsLawful DEF SubmitBegin
  <2>2. CallTyped(c)
    BY <2>1
  <2>3. rpc' = [rpc EXCEPT ![t] = c] /\ issued' = issued
    BY <1>4 DEF SubmitBegin, leaseVars
  <2> QED BY <1>3, <2>2, <2>3
<1>5. ASSUME NEW t \in Threads, SubmitValidate(t) PROVE CallsTyped'
  <2> DEFINE c == [rpc[t] EXCEPT !.pc = "enqueue", !.admits = {}]
  <2>1. CallTyped(c)
    BY <1>1, <1>5 DEF SubmitValidate
  <2>2. rpc' = [rpc EXCEPT ![t] = c] \/ rpc' = [rpc EXCEPT ![t] = IdleRpc]
    BY <1>5 DEF SubmitValidate
  <2>3. issued' = issued
    BY <1>5 DEF SubmitValidate, leaseVars
  <2> QED BY <1>2, <1>3, <2>1, <2>2, <2>3
<1>6. ASSUME NEW t \in Threads, ReleaseCancel(t) \/ SubmitEnqueue(t) PROVE CallsTyped'
  <2>1. rpc' = [rpc EXCEPT ![t] = IdleRpc] /\ issued' = issued
    BY <1>6 DEF ReleaseCancel, SubmitEnqueue, leaseVars
  <2> QED BY <1>2, <1>3, <2>1
<1>7. ASSUME NEW t \in Threads, NEW client \in Clients, NEW l \in 1..issued,
             ReleaseControlLease(t, l, client)
      PROVE  CallsTyped'
  <2> DEFINE c == [pc |-> "release", admits |-> {},
                   req |-> [InternalStop EXCEPT !.lease = l, !.client = client]]
  <2>1. CallTyped(c)
    OBVIOUS
  <2>2. rpc' = [rpc EXCEPT ![t] = c] /\ issued' = issued
    BY <1>7 DEF ReleaseControlLease, Return
  <2> QED BY <1>3, <2>1, <2>2
<1>8. ASSUME NEW c \in Clients,
             \/ AcquireControlLease(c)
             \/ \E l \in 1..issued : RenewControlLease(l, c)
      PROVE  CallsTyped'
  <2>1. rpc' = rpc /\ issued' \in Nat
    BY <1>1, <1>8 DEF AcquireControlLease, RenewControlLease, Grant, Extend
  <2> QED BY <1>1, <2>1 DEF CallsTyped
<1>9. CASE \/ Service \/ ShutdownSteps \/ Worker \/ Poll \/ Environment
           \/ Terminated \/ UNCHANGED vars
  <2>1. rpc' = rpc /\ issued' = issued
    <3>1. CASE Service \/ ShutdownSteps \/ Terminated \/ UNCHANGED vars
      BY <3>1 DEF Service, ShutdownSteps, Start, ShutdownBegin, ShutdownStop,
                  ShutdownDisconnect, ShutdownFinish, Terminated, vars, leaseVars
    <3>2. CASE Worker \/ Poll
      BY <3>2 DEF Worker, Poll, WorkerTake, WorkerExit, WorkerSnapshot, WorkerValidate,
                  WorkerExecute, WorkerComplete, PollCheck, PollRead, PollPublish,
                  leaseVars
    <3>3. CASE Environment
      BY <3>3 DEF Environment, LeaseLapses, Lapse, GracePasses, JogDeadlinePasses,
                  SnapshotAges, MotionEnds, ControllerEvent, CommandTimesOut, leaseVars
    <3> QED BY <1>9, <3>1, <3>2, <3>3
  <2> QED BY <1>1, <2>1 DEF CallsTyped
<1> QED
  BY <1>4, <1>5, <1>6, <1>7, <1>8, <1>9 DEF Next, Calls, RpcSteps

\* Every variable keeps its type, for every set of threads, clients, requests, faults
\* and initial controllers and for every bound.
THEOREM TypesAreKept == Spec => []TypeOK
<1>1. Init => ExecutorInv /\ TypesInv
  BY ExecutorInvInit, TypesInit
<1>2. ExecutorInv /\ TypesInv /\ [Next]_vars => (ExecutorInv /\ TypesInv)'
  <2> SUFFICES ASSUME ExecutorInv, TypesInv, [Next]_vars PROVE (ExecutorInv /\ TypesInv)'
    OBVIOUS
  <2>1. ExecutorInv'
    BY ExecutorStep DEF Preserved
  <2>2. TypesInv'
    BY LedgerStepTyped, ThreadStepTyped, ReadingStepTyped, CallStepTyped DEF TypesInv
  <2> QED BY <2>1, <2>2
<1>3. TypesInv => TypeOK
  BY TypedIsOK DEF TypesInv, ThreadsTyped, ReadingsTyped, CallsTyped, TypeOK
<1> QED BY <1>1, <1>2, <1>3, PTL DEF Spec
=============================================================================
