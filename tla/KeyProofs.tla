----------------------------- MODULE KeyProofs ------------------------------
(***************************************************************************)
(* The idempotency map of the command executor agrees with the history,    *)
(* for every set of threads, clients, requests and faults and every bound. *)
(* Most operations on the ledger keep the map, the requests of the records *)
(* and at most add internal stops, which have no entry (Keeps); only       *)
(* Insert adds an entry and only Forget removes some.                      *)
(***************************************************************************)
EXTENDS CommandExecutor, FiniteSetTheorems, TLAPS

InternalKey == IdempotencyMapKey(InternalStop)

\* The fields the operations update exist, and the next id is a new one.
Form(b) ==
    /\ DOMAIN b = {"commands", "queue", "idempotency", "next_id", "ticks", "active",
                   "seen", "grace", "stop_requested", "jog"}
    /\ b.next_id \in Nat \ {0}
    /\ DOMAIN b.commands \subseteq 1..(b.next_id - 1)
    /\ DOMAIN b.queue \subseteq 1..(b.next_id - 1)
    /\ \A id \in DOMAIN b.commands :
          DOMAIN b.commands[id] = {"req", "state", "late", "ended"}

\* IdempotencyConsistent, said of a ledger alone: internal stops are the records
\* without an entry.
KeysSound(b) ==
    /\ \A k \in DOMAIN b.idempotency :
          /\ k # InternalKey
          /\ b.idempotency[k] \in DOMAIN b.commands
          /\ IdempotencyMapKey(b.commands[b.idempotency[k]].req) = k
    /\ \A id \in DOMAIN b.commands :
          LET k == IdempotencyMapKey(b.commands[id].req) IN
          k # InternalKey => k \in DOMAIN b.idempotency /\ b.idempotency[k] = id

\* Every record is one of a command the service knows.
TypesSound(b) == \A id \in DOMAIN b.commands : Type(b, id) \in CommandTypes

\* From b to c the map and the requests stay, and internal stops may be added.
Keeps(b, c) ==
    /\ Form(c)
    /\ c.idempotency = b.idempotency
    /\ DOMAIN b.commands \subseteq DOMAIN c.commands
    /\ \A id \in DOMAIN b.commands : c.commands[id].req = b.commands[id].req
    /\ \A id \in DOMAIN c.commands \ DOMAIN b.commands :
          c.commands[id].req = InternalStop

-----------------------------------------------------------------------------
\* Keeps is a preorder, so that the operations of a critical section compose.
LEMMA KeepsSelf == ASSUME NEW b, Form(b) PROVE Keeps(b, b)
BY DEF Keeps

\* What is kept twice is kept.
LEMMA KeepsTransitive ==
    ASSUME NEW b, NEW c, NEW d, Keeps(b, c), Keeps(c, d) PROVE Keeps(b, d)
BY DEF Keeps

\* The map stays consistent as long as it and the requests are kept.
LEMMA KeepsKeys ==
    ASSUME NEW b, NEW c, KeysSound(b), Keeps(b, c) PROVE KeysSound(c)
<1>1. ASSUME NEW k \in DOMAIN c.idempotency
      PROVE  /\ k # InternalKey
             /\ c.idempotency[k] \in DOMAIN c.commands
             /\ IdempotencyMapKey(c.commands[c.idempotency[k]].req) = k
  BY DEF KeysSound, Keeps
<1>2. ASSUME NEW id \in DOMAIN c.commands,
             IdempotencyMapKey(c.commands[id].req) # InternalKey
      PROVE  /\ IdempotencyMapKey(c.commands[id].req) \in DOMAIN c.idempotency
             /\ c.idempotency[IdempotencyMapKey(c.commands[id].req)] = id
  BY <1>2 DEF KeysSound, Keeps, InternalKey
<1> QED BY <1>1, <1>2 DEF KeysSound

\* So do the types: what is added is a Stop.
LEMMA KeepsTypes ==
    ASSUME NEW b, NEW c, TypesSound(b), Keeps(b, c) PROVE TypesSound(c)
<1>1. ASSUME NEW id \in DOMAIN c.commands PROVE Type(c, id) \in CommandTypes
  <2>1. CASE id \in DOMAIN b.commands
    BY <2>1 DEF TypesSound, Keeps, Type
  <2>2. CASE id \notin DOMAIN b.commands
    BY <2>2 DEF Keeps, Type, InternalStop, CommandTypes
  <2> QED BY <2>1, <2>2
<1> QED BY <1>1 DEF TypesSound

\* Finish and Dequeue leave requests and map alone.
LEMMA FinishKeeps ==
    ASSUME NEW b, Form(b), NEW S, NEW s PROVE Keeps(b, Finish(b, S, s))
BY DEF Finish, Form, Keeps

\* Removing commands from the deque does not touch the records.
LEMMA DequeueKeeps == ASSUME NEW b, Form(b), NEW S PROVE Keeps(b, Dequeue(b, S))
BY DEF Dequeue, Form, Keeps

\* A command that has its verdict keeps its request.
LEMMA FinishIfOpenKeeps ==
    ASSUME NEW b, Form(b), NEW id, NEW s PROVE Keeps(b, FinishIfOpen(b, id, s))
BY FinishKeeps, KeepsSelf DEF FinishIfOpen

\* Flags, the active motion and the jog have nothing to do with keys.
LEMMA FlagsKeep ==
    ASSUME NEW b, Form(b)
    PROVE  /\ \A f : Keeps(b, [b EXCEPT !.stop_requested = f])
           /\ \A f : Keeps(b, [b EXCEPT !.jog = f])
           /\ \A f : Keeps(b, [b EXCEPT !.jog.due = f])
           /\ \A f : Keeps(b, [b EXCEPT !.seen = f])
           /\ \A f : Keeps(b, [b EXCEPT !.grace = f])
           /\ \A f : Keeps(b, [b EXCEPT !.active = f])
BY DEF Form, Keeps

\* An internal stop gets a new id and no entry in the map.
LEMMA InternalStopKeeps ==
    ASSUME NEW b, Form(b) PROVE Keeps(b, RequestInternalStopLocked(b))
<1>1. CASE b.stop_requested
  BY <1>1, KeepsSelf DEF RequestInternalStopLocked
<1>2. CASE ~b.stop_requested
  <2> DEFINE e == Enqueue(b, InternalStop, Front(b.next_id))
  <2>1. Keeps(b, e)
    BY DEF Enqueue, Form, Keeps
  <2>2. RequestInternalStopLocked(b) = [e EXCEPT !.stop_requested = TRUE]
    BY <1>2 DEF RequestInternalStopLocked
  <2> HIDE DEF e
  <2>3. Keeps(e, RequestInternalStopLocked(b))
    BY <2>1, <2>2, FlagsKeep DEF Keeps
  <2> QED BY <2>1, <2>3, KeepsTransitive
<1> QED BY <1>1, <1>2

\* The active motion ends without its request being touched.
LEMMA ResetActiveKeeps == ASSUME NEW b, Form(b) PROVE Keeps(b, ResetActive(b))
BY DEF ResetActive, Form, Keeps

\* The same with a verdict.
LEMMA CompleteActiveMotionKeeps ==
    ASSUME NEW b, Form(b), NEW s PROVE Keeps(b, CompleteActiveMotionLocked(b, s))
<1> DEFINE f == FinishIfOpen(b, b.active, s)
<1>1. Keeps(b, f)
  BY FinishIfOpenKeeps
<1> HIDE DEF f
<1>2. Keeps(f, ResetActive(f))
  BY <1>1, ResetActiveKeeps DEF Keeps
<1>3. \/ CompleteActiveMotionLocked(b, s) = b
      \/ CompleteActiveMotionLocked(b, s) = ResetActive(f)
  BY DEF CompleteActiveMotionLocked, f
<1> QED BY <1>1, <1>2, <1>3, KeepsSelf, KeepsTransitive

\* The same for a program that StopProgram ends, and for the jog.
LEMMA CompleteActiveProgramKeeps ==
    ASSUME NEW b, Form(b) PROVE Keeps(b, CompleteActiveProgramLocked(b))
BY CompleteActiveMotionKeeps, KeepsSelf DEF CompleteActiveProgramLocked

\* A jog has no entry either.
LEMMA ClearActiveJogKeeps ==
    ASSUME NEW b, Form(b) PROVE Keeps(b, ClearActiveJogLocked(b))
BY FlagsKeep DEF ClearActiveJogLocked

\* Cancelling is a verdict and a removal from the deque.
LEMMA CancelKeeps ==
    ASSUME NEW b, Form(b), NEW S, NEW s, NEW T
    PROVE  Keeps(b, Dequeue(Finish(b, S, s), T))
<1> DEFINE f == Finish(b, S, s)
<1>1. Keeps(b, f)
  BY FinishKeeps
<1> HIDE DEF f
<1>2. Keeps(f, Dequeue(f, T))
  BY <1>1, DequeueKeeps DEF Keeps
<1> QED BY <1>1, <1>2, KeepsTransitive DEF f

\* An ended verdict followed by an internal stop, as the watchdogs do it.
LEMMA FinishAndStopKeeps ==
    ASSUME NEW b, Form(b), NEW id, NEW s
    PROVE  Keeps(b, RequestInternalStopLocked(FinishIfOpen(b, id, s)))
<1> DEFINE f == FinishIfOpen(b, id, s)
<1>1. Keeps(b, f)
  BY FinishIfOpenKeeps
<1> HIDE DEF f
<1>2. Keeps(f, RequestInternalStopLocked(f))
  BY <1>1, InternalStopKeeps DEF Keeps
<1> QED BY <1>1, <1>2, KeepsTransitive DEF f

\* What the poll thread concludes from a snapshot changes no key.
LEMMA UpdateKeeps ==
    ASSUME NEW b, Form(b), NEW s PROVE Keeps(b, UpdateActiveMotionLocked(b, s))
<1> DEFINE f == FinishIfOpen(b, b.active, "Succeeded")
           g == ResetActive(f)
           i == RequestInternalStopLocked(FinishIfOpen(b, b.active, "Failed"))
<1>1. Keeps(b, f) /\ Keeps(b, i)
  BY FinishIfOpenKeeps, FinishAndStopKeeps
<1> HIDE DEF f, i
<1>2. Keeps(b, g) /\ Keeps(b, ResetActive(i))
  BY <1>1, ResetActiveKeeps, KeepsTransitive DEF Keeps
<1> HIDE DEF g
<1>3. Keeps(b, [g EXCEPT !.stop_requested = FALSE])
  <2>1. Keeps(g, [g EXCEPT !.stop_requested = FALSE])
    BY <1>2, FlagsKeep DEF Keeps
  <2> QED BY <1>2, <2>1, KeepsTransitive
<1>4. UpdateActiveMotionLocked(b, s) \in
        {b, [b EXCEPT !.active = 0], [b EXCEPT !.seen = TRUE],
         RequestInternalStopLocked(FinishIfOpen(b, b.active, "TimedOut")),
         ResetActive(i), [g EXCEPT !.stop_requested = FALSE]}
  BY DEF UpdateActiveMotionLocked, f, g, i
<1>5. /\ Keeps(b, b) /\ Keeps(b, [b EXCEPT !.active = 0])
      /\ Keeps(b, [b EXCEPT !.seen = TRUE])
      /\ Keeps(b, RequestInternalStopLocked(FinishIfOpen(b, b.active, "TimedOut")))
  BY KeepsSelf, FlagsKeep, FinishAndStopKeeps
<1> QED BY <1>2, <1>3, <1>4, <1>5

\* A motion that starts becomes the active one, stopped at once without a lease.
LEMMA StartMotionKeeps ==
    ASSUME NEW b, Form(b), NEW id, NEW valid PROVE Keeps(b, StartMotion(b, id, valid))
<1> DEFINE f == Finish(b, {id}, "Failed")
           a == [b EXCEPT !.active = id, !.seen = FALSE, !.grace = FALSE,
                          !.stop_requested = FALSE]
<1>1. Keeps(b, f) /\ Keeps(b, a)
  <2>1. Keeps(b, f)
    BY FinishKeeps
  <2>2. Keeps(b, a)
    BY DEF Form, Keeps
  <2> QED BY <2>1, <2>2
<1>2. StartMotion(b, id, valid) \in
        {RequestInternalStopLocked(f), a, RequestInternalStopLocked(a)}
  BY DEF StartMotion
<1> HIDE DEF f, a
<1>3. /\ Keeps(f, RequestInternalStopLocked(f))
      /\ Keeps(a, RequestInternalStopLocked(a))
  BY <1>1, InternalStopKeeps DEF Keeps
<1> QED BY <1>1, <1>2, <1>3, KeepsTransitive

\* A jog likewise.
LEMMA StartJogKeeps ==
    ASSUME NEW b, Form(b), NEW req, NEW valid PROVE Keeps(b, StartJog(b, req, valid))
<1> DEFINE a == [b EXCEPT !.jog = [active |-> TRUE, client |-> req.client,
                                   lease |-> req.lease, due |-> FALSE]]
<1>1. Keeps(b, a)
  BY FlagsKeep
<1>2. StartJog(b, req, valid) \in {a, RequestInternalStopLocked(a)}
  BY DEF StartJog
<1> HIDE DEF a
<1>3. Keeps(a, RequestInternalStopLocked(a))
  BY <1>1, InternalStopKeeps DEF Keeps
<1> QED BY <1>1, <1>2, <1>3, KeepsTransitive

\* The completion of a command, whatever its type.
LEMMA CompletedKeeps ==
    ASSUME NEW b, Form(b), NEW id, NEW valid PROVE Keeps(b, Completed(b, id, valid))
<1> DEFINE req == b.commands[id].req
           d == Finish(b, {id}, "Succeeded")
           m == CompleteActiveMotionLocked(d, "Stopped")
           j == ClearActiveJogLocked(m)
           p == CompleteActiveProgramLocked(d)
<1>1. Keeps(b, d)
  BY FinishKeeps
<1>2. Completed(b, id, valid) \in
        {StartMotion(b, id, valid), StartJog(d, req, valid), ClearActiveJogLocked(d),
         [j EXCEPT !.stop_requested = FALSE], [p EXCEPT !.stop_requested = FALSE], d}
  BY DEF Completed
<1> HIDE DEF d
<1>3. Form(d)
  BY <1>1 DEF Keeps
<1>4. /\ Keeps(d, StartJog(d, req, valid)) /\ Keeps(d, ClearActiveJogLocked(d))
      /\ Keeps(d, m) /\ Keeps(d, p)
  BY <1>3, StartJogKeeps, ClearActiveJogKeeps, CompleteActiveMotionKeeps,
     CompleteActiveProgramKeeps
<1> HIDE DEF m, p
<1>5. Keeps(m, j) /\ Keeps(p, [p EXCEPT !.stop_requested = FALSE])
  <2>1. Form(m) /\ Form(p)
    BY <1>4 DEF Keeps
  <2>2. Keeps(m, j)
    BY <2>1, ClearActiveJogKeeps
  <2>3. Keeps(p, [p EXCEPT !.stop_requested = FALSE])
    BY <2>1, FlagsKeep
  <2> QED BY <2>2, <2>3
<1> HIDE DEF j
<1>6. Keeps(j, [j EXCEPT !.stop_requested = FALSE])
  BY <1>5, FlagsKeep DEF Keeps
<1>7. /\ Keeps(b, StartMotion(b, id, valid)) /\ Keeps(b, StartJog(d, req, valid))
      /\ Keeps(b, ClearActiveJogLocked(d))
      /\ Keeps(b, [j EXCEPT !.stop_requested = FALSE])
      /\ Keeps(b, [p EXCEPT !.stop_requested = FALSE])
  BY <1>1, <1>4, <1>5, <1>6, StartMotionKeeps, KeepsTransitive
<1> QED BY <1>1, <1>2, <1>7

\* Shutdown settles the ledger without touching a key.
LEMMA SettledKeeps ==
    ASSUME NEW b, Form(b), NEW stopped PROVE Keeps(b, Settled(b, stopped))
<1> DEFINE c == CancelCommandsForShutdownLocked(b)
           m == CompleteActiveMotionLocked(c, IF stopped THEN "Stopped" ELSE "Failed")
           j == ClearActiveJogLocked(m)
<1>1. Keeps(b, c)
  BY CancelKeeps DEF CancelCommandsForShutdownLocked
<1> HIDE DEF c
<1>2. Keeps(c, m)
  BY <1>1, CompleteActiveMotionKeeps DEF Keeps
<1> HIDE DEF m
<1>3. Keeps(m, j)
  BY <1>2, ClearActiveJogKeeps DEF Keeps
<1> HIDE DEF j
<1>4. Keeps(j, [j EXCEPT !.stop_requested = FALSE])
  BY <1>3, FlagsKeep DEF Keeps
<1>5. Settled(b, stopped) = [j EXCEPT !.stop_requested = FALSE]
  BY DEF Settled, j, m, c
<1> QED BY <1>1, <1>2, <1>3, <1>4, <1>5, KeepsTransitive

\* So does the return of a lease.
LEMMA ReleasedKeeps ==
    ASSUME NEW b, Form(b), NEW req PROVE Keeps(b, Released(b, req))
<1> DEFINE c == CancelQueuedCommandsForLeaseLocked(b, req.lease, req.client)
<1>1. Keeps(b, c)
  BY CancelKeeps, KeepsSelf DEF CancelQueuedCommandsForLeaseLocked
<1>2. Released(b, req) \in {c, RequestInternalStopLocked(c)}
  BY DEF Released
<1> HIDE DEF c
<1>3. Keeps(c, RequestInternalStopLocked(c))
  BY <1>1, InternalStopKeeps DEF Keeps
<1> QED BY <1>1, <1>2, <1>3, KeepsTransitive

\* And the command a Stop displaces.
LEMMA MakeRoomKeeps ==
    ASSUME NEW b, Form(b) PROVE Keeps(b, MakeRoom(b))
BY CancelKeeps, KeepsSelf DEF MakeRoom

-----------------------------------------------------------------------------
\* Pruning removes an entry with its record, and no other entry.
LEMMA PruneKeys ==
    ASSUME NEW b, Form(b), KeysSound(b), NEW c \in PruneCommandHistoryLocked(b)
    PROVE  /\ Form(c) /\ KeysSound(c) /\ (TypesSound(b) => TypesSound(c))
           /\ DOMAIN c.idempotency \subseteq DOMAIN b.idempotency
<1>1. PICK P \in SUBSET DOMAIN b.commands : c = Forget(b, P)
  BY DEF PruneCommandHistoryLocked
<1> DEFINE keys == {IdempotencyMapKey(b.commands[id].req) : id \in P}
<1>2. /\ Form(c)
      /\ DOMAIN c.commands = DOMAIN b.commands \ P
      /\ DOMAIN c.idempotency = DOMAIN b.idempotency \ keys
      /\ \A id \in DOMAIN b.commands \ P : c.commands[id] = b.commands[id]
      /\ \A k \in DOMAIN b.idempotency \ keys : c.idempotency[k] = b.idempotency[k]
  BY <1>1 DEF Forget, Form
<1>3. ASSUME NEW k \in DOMAIN c.idempotency
      PROVE  /\ k # InternalKey
             /\ c.idempotency[k] \in DOMAIN c.commands
             /\ IdempotencyMapKey(c.commands[c.idempotency[k]].req) = k
  <2>1. /\ k \in DOMAIN b.idempotency /\ k \notin keys
        /\ c.idempotency[k] = b.idempotency[k]
    BY <1>2
  <2>2. /\ k # InternalKey /\ b.idempotency[k] \in DOMAIN b.commands
        /\ IdempotencyMapKey(b.commands[b.idempotency[k]].req) = k
    BY <2>1 DEF KeysSound
  <2>3. b.idempotency[k] \notin P
    BY <2>1, <2>2
  <2> QED BY <1>2, <2>1, <2>2, <2>3
<1>4. ASSUME NEW id \in DOMAIN c.commands,
             IdempotencyMapKey(c.commands[id].req) # InternalKey
      PROVE  /\ IdempotencyMapKey(c.commands[id].req) \in DOMAIN c.idempotency
             /\ c.idempotency[IdempotencyMapKey(c.commands[id].req)] = id
  <2> DEFINE k == IdempotencyMapKey(b.commands[id].req)
  <2>1. id \in DOMAIN b.commands \ P /\ c.commands[id] = b.commands[id]
    BY <1>2
  <2>2. k \in DOMAIN b.idempotency /\ b.idempotency[k] = id
    BY <1>4, <2>1 DEF KeysSound
  <2>3. ASSUME NEW other \in P, IdempotencyMapKey(b.commands[other].req) = k
        PROVE  FALSE
    <3>1. other \in DOMAIN b.commands /\ k # InternalKey
      BY <1>4, <2>1
    <3>2. b.idempotency[k] = other
      BY <2>3, <3>1 DEF KeysSound
    <3> QED BY <2>1, <2>2, <3>2
  <2>4. k \notin keys
    BY <2>3
  <2> QED BY <1>2, <2>1, <2>2, <2>4
<1>5. TypesSound(b) => TypesSound(c)
  BY <1>2 DEF TypesSound, Type
<1>6. KeysSound(c)
  BY <1>3, <1>4 DEF KeysSound
<1> QED BY <1>2, <1>5, <1>6

\* A new command whose key is in nobody's use is filed under it.
LEMMA InsertKeys ==
    ASSUME NEW b, Form(b), KeysSound(b), NEW req,
           IdempotencyMapKey(req) # InternalKey,
           IdempotencyMapKey(req) \notin DOMAIN b.idempotency
    PROVE  /\ Form(Insert(b, req)) /\ KeysSound(Insert(b, req))
           /\ TypesSound(b) /\ req.type \in CommandTypes => TypesSound(Insert(b, req))
<1> DEFINE c == Insert(b, req)
           n == b.next_id
           key == IdempotencyMapKey(req)
<1>1. n \in Nat \ {0} /\ n \notin DOMAIN b.commands
  BY DEF Form
<1>2. /\ DOMAIN c.commands = DOMAIN b.commands \cup {n}
      /\ c.commands[n].req = req
      /\ \A id \in DOMAIN b.commands : c.commands[id] = b.commands[id]
      /\ DOMAIN c.idempotency = DOMAIN b.idempotency \cup {key}
      /\ c.idempotency[key] = n
      /\ \A k \in DOMAIN b.idempotency : c.idempotency[k] = b.idempotency[k]
  BY <1>1 DEF Insert, Enqueue, Form
<1>3. Form(c)
  BY DEF Insert, Enqueue, Form
<1> HIDE DEF c
<1>4. ASSUME NEW k \in DOMAIN c.idempotency
      PROVE  /\ k # InternalKey
             /\ c.idempotency[k] \in DOMAIN c.commands
             /\ IdempotencyMapKey(c.commands[c.idempotency[k]].req) = k
  <2>1. CASE k = key
    BY <1>2, <2>1
  <2>2. CASE k \in DOMAIN b.idempotency
    BY <1>2, <2>2 DEF KeysSound
  <2> QED BY <1>2, <2>1, <2>2
<1>5. ASSUME NEW id \in DOMAIN c.commands,
             IdempotencyMapKey(c.commands[id].req) # InternalKey
      PROVE  /\ IdempotencyMapKey(c.commands[id].req) \in DOMAIN c.idempotency
             /\ c.idempotency[IdempotencyMapKey(c.commands[id].req)] = id
  <2>1. CASE id = n
    BY <1>2, <2>1
  <2>2. CASE id \in DOMAIN b.commands
    BY <1>2, <1>5, <2>2 DEF KeysSound
  <2> QED BY <1>2, <2>1, <2>2
<1>6. KeysSound(c)
  BY <1>4, <1>5 DEF KeysSound
<1>7. TypesSound(b) /\ req.type \in CommandTypes => TypesSound(c)
  BY <1>2 DEF TypesSound, Type
<1> QED BY <1>3, <1>6, <1>7 DEF c

-----------------------------------------------------------------------------
\* The inductive invariant: the ledger is consistent, and what an RPC thread is
\* about to submit is a client's.
CallsSound(r) ==
    /\ DOMAIN r = Threads
    /\ \A t \in Threads :
          /\ DOMAIN r[t] = {"pc", "req", "admits"}
          /\ r[t].pc \in {"validate", "enqueue"} =>
                r[t].req.client \in Clients /\ r[t].req.type \in CommandTypes

KeysInv == Form(book) /\ KeysSound(book) /\ TypesSound(book) /\ CallsSound(rpc)

\* A client's key is never the one of the internal stops.
LEMMA ClientsKey ==
    ASSUME NEW req, req.client \in Clients
    PROVE  IdempotencyMapKey(req) # InternalKey
BY RequestersAssumption DEF IdempotencyMapKey, InternalKey, InternalStop

\* The invariant implies the property the runs check.
LEMMA KeysInvSuffices == KeysInv => IdempotencyConsistent
BY ClientsKey DEF KeysInv, KeysSound, IdempotencyConsistent

\* It holds at the start, when map, history and calls are empty.
LEMMA KeysInit == Init => KeysInv
<1> SUFFICES ASSUME Init PROVE KeysInv
  OBVIOUS
<1>1. book = EmptyLedger /\ rpc = [t \in Threads |-> IdleRpc]
  BY DEF Init
<1>2. book.commands = <<>> /\ book.idempotency = <<>> /\ book.next_id = 1
  BY <1>1 DEF EmptyLedger
<1>3. DOMAIN book.commands = {} /\ DOMAIN book.idempotency = {} /\ DOMAIN book.queue = {}
  BY <1>1, <1>2 DEF EmptyLedger
<1>4. Form(book)
  BY <1>1, <1>2, <1>3 DEF Form, EmptyLedger
<1>5. KeysSound(book)
  BY <1>3 DEF KeysSound
<1>6. CallsSound(rpc)
  BY <1>1 DEF CallsSound, IdleRpc
<1>7. TypesSound(book)
  BY <1>3 DEF TypesSound
<1> QED BY <1>4, <1>5, <1>6, <1>7 DEF KeysInv

\* A step that keeps the keys and does not touch the calls.
LEMMA KeepingStep ==
    ASSUME KeysInv, Keeps(book, book'), UNCHANGED rpc
    PROVE  KeysInv' /\ Keeps(book, book')
<1>1. Form(book') /\ KeysSound(book') /\ TypesSound(book')
  BY KeepsKeys, KeepsTypes DEF KeysInv, Keeps
<1> QED BY <1>1 DEF KeysInv

\* The steps that leave the ledger and the calls alone.
LEMMA OtherSteps ==
    ASSUME KeysInv,
           \/ Start \/ ShutdownBegin \/ ShutdownStop \/ ShutdownDisconnect
           \/ \E c \in Clients : AcquireControlLease(c)
           \/ \E c \in Clients, l \in 1..issued : RenewControlLease(l, c)
           \/ WorkerExit \/ WorkerSnapshot \/ WorkerValidate \/ WorkerExecute
           \/ PollCheck \/ PollRead
           \/ LeaseLapses \/ SnapshotAges \/ MotionEnds \/ ControllerEvent
           \/ UNCHANGED vars
    PROVE  KeysInv' /\ book' = book
<1>1. UNCHANGED <<book, rpc>>
  BY DEF Start, ShutdownBegin, ShutdownStop, ShutdownDisconnect, AcquireControlLease,
     RenewControlLease, WorkerExit, WorkerSnapshot, WorkerValidate, WorkerExecute,
     PollCheck, PollRead, LeaseLapses, SnapshotAges, MotionEnds, ControllerEvent, vars
<1> QED BY <1>1 DEF KeysInv

\* The steps of the worker, the poll thread and the clock that change the ledger.
LEMMA KeepingSteps ==
    ASSUME KeysInv,
           \/ ShutdownFinish \/ WorkerTake \/ WorkerComplete \/ PollPublish
           \/ GracePasses \/ JogDeadlinePasses
           \/ \E id \in DOMAIN book.commands : CommandTimesOut(id)
    PROVE  KeysInv' /\ Keeps(book, book')
<1>1. Form(book)
  BY DEF KeysInv
<1>2. CASE ShutdownFinish
  BY <1>1, <1>2, SettledKeeps, KeepingStep DEF ShutdownFinish
<1>3. CASE WorkerTake
  <2> DEFINE id == FindExecutableCommandLocked(book)
             taken == Dequeue(book, {id})
  <2>1. Keeps(book, taken)
    BY <1>1, DequeueKeeps
  <2>2. /\ book' \in {Finish(taken, {id}, "TimedOut"),
                      [taken EXCEPT !.commands[id].state = "Running"]}
        /\ UNCHANGED rpc
    BY <1>3 DEF WorkerTake
  <2> HIDE DEF id, taken
  <2>3. Keeps(taken, Finish(taken, {id}, "TimedOut"))
    BY <2>1, FinishKeeps DEF Keeps
  <2>4. Keeps(taken, [taken EXCEPT !.commands[id].state = "Running"])
    BY <2>1 DEF Keeps, Form
  <2>5. Keeps(book, book')
    BY <2>1, <2>2, <2>3, <2>4, KeepsTransitive
  <2> QED BY <2>2, <2>5, KeepingStep
<1>4. CASE WorkerComplete
  <2>1. /\ \/ book' = Completed(book, worker.id,
                                HoldsLease(book.commands[worker.id].req))
           \/ book' = Finish(book, {worker.id}, "Failed")
        /\ UNCHANGED rpc
    BY <1>4 DEF WorkerComplete
  <2>2. Keeps(book, book')
    BY <1>1, <2>1, CompletedKeeps, FinishKeeps
  <2> QED BY <2>1, <2>2, KeepingStep
<1>5. CASE PollPublish
  <2>1. PICK u \in {UpdateActiveMotionLocked(book, latest'), book} :
           book' = Watched(u) /\ UNCHANGED rpc
    BY <1>5 DEF PollPublish
  <2>2. Keeps(book, u)
    BY <1>1, <2>1, UpdateKeeps, KeepsSelf
  <2>3. Watched(u) \in {u, RequestInternalStopLocked(u)}
    BY DEF Watched
  <2>4. Keeps(u, RequestInternalStopLocked(u))
    BY <2>2, InternalStopKeeps DEF Keeps
  <2>5. Keeps(book, book')
    BY <2>1, <2>2, <2>3, <2>4, KeepsTransitive
  <2> QED BY <2>1, <2>5, KeepingStep
<1>6. CASE GracePasses
  BY <1>1, <1>6, FlagsKeep, KeepingStep DEF GracePasses
<1>7. CASE JogDeadlinePasses
  BY <1>1, <1>7, FlagsKeep, KeepingStep DEF JogDeadlinePasses
<1>8. CASE \E id \in DOMAIN book.commands : CommandTimesOut(id)
  <2>1. PICK id \in DOMAIN book.commands : CommandTimesOut(id)
    BY <1>8
  <2>2. book' = [book EXCEPT !.commands[id].late = TRUE] /\ UNCHANGED rpc
    BY <2>1 DEF CommandTimesOut
  <2>3. Keeps(book, book')
    BY <1>1, <2>2 DEF Keeps, Form
  <2> QED BY <2>2, <2>3, KeepingStep
<1> QED BY <1>2, <1>3, <1>4, <1>5, <1>6, <1>7, <1>8

\* The calls of the clients: only Submit files a key, and only a client's.
LEMMA CallSteps ==
    ASSUME KeysInv, NEW t \in Threads,
           \/ \E c \in Clients, l \in 1..issued : ReleaseControlLease(t, l, c)
           \/ \E req \in Submissions : SubmitBegin(t, req)
           \/ RpcSteps(t)
    PROVE  KeysInv'
<1>1. Form(book) /\ KeysSound(book) /\ TypesSound(book) /\ CallsSound(rpc)
  BY DEF KeysInv
<1>2. ASSUME NEW entry, rpc' = [rpc EXCEPT ![t] = entry],
             DOMAIN entry = {"pc", "req", "admits"},
             entry.pc \in {"validate", "enqueue"} =>
                 entry.req.client \in Clients /\ entry.req.type \in CommandTypes
      PROVE  CallsSound(rpc')
  BY <1>1, <1>2 DEF CallsSound
<1>3. CASE \E c \in Clients, l \in 1..issued : ReleaseControlLease(t, l, c)
  <2>1. PICK entry : /\ rpc' = [rpc EXCEPT ![t] = entry]
                     /\ DOMAIN entry = {"pc", "req", "admits"}
                     /\ entry.pc = "release"
                     /\ UNCHANGED book
    BY <1>3 DEF ReleaseControlLease
  <2>2. CallsSound(rpc')
    BY <1>2, <2>1
  <2> QED BY <1>1, <2>1, <2>2 DEF KeysInv
<1>4. CASE \E req \in Submissions : SubmitBegin(t, req)
  <2>1. PICK req \in Submissions : SubmitBegin(t, req)
    BY <1>4
  <2>2. req.client \in Clients /\ req.type \in CommandTypes
    BY RequestersAssumption DEF Submissions, WithLease
  <2>3. CallsSound(rpc')
    BY <1>2, <2>1, <2>2 DEF SubmitBegin
  <2>4. UNCHANGED book
    BY <2>1 DEF SubmitBegin
  <2> QED BY <1>1, <2>3, <2>4 DEF KeysInv
<1>5. CASE ReleaseCancel(t)
  <2>1. CallsSound(rpc')
    BY <1>2, <1>5 DEF ReleaseCancel, IdleRpc
  <2>2. Keeps(book, book')
    BY <1>1, <1>5, ReleasedKeeps DEF ReleaseCancel
  <2>3. Form(book') /\ KeysSound(book') /\ TypesSound(book')
    BY <1>1, <2>2, KeepsKeys, KeepsTypes DEF Keeps
  <2> QED BY <2>1, <2>3 DEF KeysInv
<1>6. CASE SubmitValidate(t)
  <2>1. /\ DOMAIN rpc[t] = {"pc", "req", "admits"}
        /\ rpc[t].req.client \in Clients /\ rpc[t].req.type \in CommandTypes
    BY <1>1, <1>6 DEF SubmitValidate, CallsSound
  <2>2. CallsSound(rpc')
    BY <1>2, <1>6, <2>1 DEF SubmitValidate, IdleRpc
  <2>3. UNCHANGED book
    BY <1>6 DEF SubmitValidate
  <2> QED BY <1>1, <2>2, <2>3 DEF KeysInv
<1>7. CASE SubmitEnqueue(t)
  <2> DEFINE req == rpc[t].req
             m == MakeRoom(book)
  <2>1. CallsSound(rpc')
    BY <1>2, <1>7 DEF SubmitEnqueue, IdleRpc
  <2>2. IdempotencyMapKey(req) # InternalKey /\ req.type \in CommandTypes
    BY <1>1, <1>7, ClientsKey DEF SubmitEnqueue, CallsSound
  <2>3. Keeps(book, m) /\ Form(m) /\ KeysSound(m) /\ TypesSound(m)
    BY <1>1, MakeRoomKeeps, KeepsKeys, KeepsTypes DEF Keeps
  <2>4. CASE UNCHANGED book
    BY <1>1, <2>1, <2>4 DEF KeysInv
  <2>5. CASE Accepts(book, req) /\ book' # book
    <3>1. PICK pruned \in PruneCommandHistoryLocked(m) :
             book' \in {pruned, Insert(pruned, req)}
      BY <1>7, <2>5 DEF SubmitEnqueue
    <3>2. IdempotencyMapKey(req) \notin DOMAIN m.idempotency
      BY <2>3, <2>5 DEF Accepts, Keeps
    <3> HIDE DEF m
    <3>3. /\ Form(pruned) /\ KeysSound(pruned) /\ TypesSound(pruned)
          /\ IdempotencyMapKey(req) \notin DOMAIN pruned.idempotency
      BY <2>3, <3>1, <3>2, PruneKeys
    <3>4. /\ Form(Insert(pruned, req)) /\ KeysSound(Insert(pruned, req))
          /\ TypesSound(Insert(pruned, req))
      BY <2>2, <3>3, InsertKeys
    <3>5. Form(book') /\ KeysSound(book') /\ TypesSound(book')
      BY <3>1, <3>3, <3>4
    <3> QED BY <2>1, <3>5 DEF KeysInv
  <2> QED BY <1>7, <2>4, <2>5 DEF SubmitEnqueue
<1> QED BY <1>3, <1>4, <1>5, <1>6, <1>7 DEF RpcSteps, Calls

\* Every step preserves the invariant.
LEMMA KeysStep == KeysInv /\ [Next]_vars => KeysInv'
<1> SUFFICES ASSUME KeysInv, [Next]_vars PROVE KeysInv'
  OBVIOUS
<1>1. CASE Service \/ Terminated \/ UNCHANGED vars
  BY <1>1, OtherSteps DEF Service, Terminated
<1>2. CASE ShutdownSteps \/ Worker \/ Poll
  BY <1>2, OtherSteps, KeepingSteps DEF ShutdownSteps, Worker, Poll
<1>3. CASE Environment
  BY <1>3, OtherSteps, KeepingSteps DEF Environment
<1>4. CASE Calls
  BY <1>4, OtherSteps, CallSteps DEF Calls
<1>5. CASE \E t \in Threads : RpcSteps(t)
  BY <1>5, CallSteps
<1> QED BY <1>1, <1>2, <1>3, <1>4, <1>5 DEF Next

\* Idempotency: each entry of the map leads to the record of that key, and the
\* record of every client's command is found under its key, so that a retry never
\* creates a second command while the first is remembered.
THEOREM KeysAgree == Spec => []IdempotencyConsistent
<1>1. Spec => []KeysInv
  BY KeysInit, KeysStep, PTL DEF Spec
<1> QED BY <1>1, KeysInvSuffices, PTL

-----------------------------------------------------------------------------
\* What one step may drop: nothing without a verdict but the command a Stop
\* displaces.
OpenKept == \A id \in OpenCommands(book) \ DOMAIN book'.commands :
                QueueSize(book) >= MaxQueue /\ id = NewestOrdinary(book)

\* A step that keeps every record drops none.
LEMMA NothingDropped ==
    ASSUME DOMAIN book.commands \subseteq DOMAIN book'.commands PROVE OpenKept
BY DEF OpenKept, OpenCommands

\* The deque has a size.
LEMMA QueueIsCounted == ASSUME NEW b, Form(b) PROVE QueueSize(b) \in Nat
<1>1. IsFiniteSet(1..(b.next_id - 1))
  BY FS_Interval DEF Form
<1>2. IsFiniteSet(DOMAIN b.queue)
  BY <1>1, FS_Subset DEF Form
<1> QED BY <1>2, FS_CardinalityType DEF QueueSize

\* Pruning drops finished records only, and MakeRoom finishes one command.
LEMMA EnqueueDrops ==
    ASSUME KeysInv, NEW t \in Threads, SubmitEnqueue(t) PROVE OpenKept
<1> DEFINE req == rpc[t].req
           m == MakeRoom(book)
<1>1. CASE UNCHANGED book
  BY <1>1, NothingDropped
<1>2. CASE \E pruned \in PruneCommandHistoryLocked(m) :
              book' \in {pruned, Insert(pruned, req)}
  <2>1. Form(book) /\ KeysSound(book)
    BY DEF KeysInv
  <2>2. Keeps(book, m) /\ Form(m) /\ KeysSound(m)
    BY <2>1, MakeRoomKeeps, KeepsKeys DEF Keeps
  <2>3. ASSUME NEW id \in OpenCommands(book), id \notin OpenCommands(m)
        PROVE  QueueSize(book) >= MaxQueue /\ id = NewestOrdinary(book)
    <3> DEFINE f == Finish(book, {NewestOrdinary(book)}, "Cancelled")
    <3>1. m # book
      BY <2>3
    <3>2. m = Dequeue(f, {NewestOrdinary(book)}) /\ ~(QueueSize(book) < MaxQueue)
      BY <3>1 DEF MakeRoom
    <3>3. m.commands = f.commands
      BY <2>1, <3>2 DEF Dequeue, Finish, Form
    <3>4. id \in DOMAIN book.commands /\ State(book, id) \notin Terminal
      BY <2>3 DEF OpenCommands
    <3>5. id # NewestOrdinary(book) => m.commands[id] = book.commands[id]
      BY <2>1, <3>3, <3>4 DEF Finish, Form
    <3>6. id \in DOMAIN m.commands
      BY <2>2, <3>4 DEF Keeps
    <3>7. id = NewestOrdinary(book)
      BY <2>3, <3>4, <3>5, <3>6 DEF OpenCommands, State
    <3>8. QueueSize(book) >= MaxQueue
      BY <2>1, <3>2, QueueIsCounted, LimitsAssumption
    <3> QED BY <3>7, <3>8
  <2> HIDE DEF m
  <2>4. PICK pruned \in PruneCommandHistoryLocked(m) :
           book' \in {pruned, Insert(pruned, req)}
    BY <1>2
  <2>5. OpenCommands(m) \subseteq DOMAIN pruned.commands
    <3>1. PICK P \in SUBSET (DOMAIN m.commands \ OpenCommands(m)) :
             pruned = Forget(m, P)
      BY <2>4 DEF PruneCommandHistoryLocked
    <3>2. DOMAIN pruned.commands = DOMAIN m.commands \ P
      BY <2>2, <3>1 DEF Forget, Form
    <3> QED BY <3>1, <3>2 DEF OpenCommands
  <2>6. Form(pruned)
    BY <2>2, <2>4, PruneKeys
  <2>7. DOMAIN pruned.commands \subseteq DOMAIN Insert(pruned, req).commands
    BY <2>6 DEF Insert, Enqueue, Form
  <2>8. OpenCommands(m) \subseteq DOMAIN book'.commands
    BY <2>4, <2>5, <2>7
  <2> QED BY <2>3, <2>8 DEF OpenKept
<1> QED BY <1>1, <1>2 DEF SubmitEnqueue

\* No other step drops a record at all.
LEMMA OpenKeptStep == KeysInv /\ [Next]_vars => OpenKept
<1> SUFFICES ASSUME KeysInv, [Next]_vars PROVE OpenKept
  OBVIOUS
<1>1. CASE Service \/ Terminated \/ UNCHANGED vars
  BY <1>1, OtherSteps, NothingDropped DEF Service, Terminated
<1>2. CASE ShutdownSteps \/ Worker \/ Poll
  <2>1. book' = book \/ Keeps(book, book')
    BY <1>2, OtherSteps, KeepingSteps DEF ShutdownSteps, Worker, Poll
  <2> QED BY <2>1, NothingDropped DEF Keeps
<1>3. CASE Environment
  <2>1. book' = book \/ Keeps(book, book')
    BY <1>3, OtherSteps, KeepingSteps DEF Environment
  <2> QED BY <2>1, NothingDropped DEF Keeps
<1>4. CASE Calls
  <2>1. book' = book
    BY <1>4 DEF Calls, AcquireControlLease, RenewControlLease, ReleaseControlLease,
                SubmitBegin
  <2> QED BY <2>1, NothingDropped
<1>5. CASE \E t \in Threads : RpcSteps(t)
  <2>1. PICK t \in Threads : RpcSteps(t)
    BY <1>5
  <2>2. CASE ReleaseCancel(t)
    <3>1. Keeps(book, book')
      BY <2>2, ReleasedKeeps DEF ReleaseCancel, KeysInv
    <3> QED BY <3>1, NothingDropped DEF Keeps
  <2>3. CASE SubmitValidate(t)
    BY <2>3, NothingDropped DEF SubmitValidate
  <2>4. CASE SubmitEnqueue(t)
    BY <2>4, EnqueueDrops
  <2> QED BY <2>1, <2>2, <2>3, <2>4 DEF RpcSteps
<1> QED BY <1>1, <1>2, <1>3, <1>4, <1>5 DEF Next

\* A command without a verdict is never pruned, whatever the bounds of queue and
\* history; only the one a Stop displaces may go in the same critical section.
THEOREM OpenCommandsStay == Spec => OpenCommandsAreKept
<1>1. Spec => []KeysInv
  BY KeysInit, KeysStep, PTL DEF Spec
<1>2. KeysInv /\ [Next]_vars => [OpenKept]_vars
  BY OpenKeptStep
<1>3. Spec => [][OpenKept]_vars
  BY <1>1, <1>2, PTL DEF Spec
<1> QED BY <1>3 DEF OpenCommandsAreKept, OpenKept
=============================================================================
