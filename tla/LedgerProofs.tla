---------------------------- MODULE LedgerProofs ----------------------------
(***************************************************************************)
(* What every operation on the ledger preserves.  Sound(b, w) relates the  *)
(* records, the deque, the active motion and w, the command in the hands   *)
(* of the worker (0 when it has none).  Follows(b, c) says what may happen *)
(* to the records between b and c.  There is one lemma per operation.      *)
(***************************************************************************)
EXTENDS CommandLedger, TLAPS

\* The fields the other parts speak about have their types.
Shape(b) ==
    /\ DOMAIN b = {"commands", "queue", "idempotency", "next_id", "ticks", "active",
                   "seen", "grace", "stop_requested", "jog"}
    /\ b.next_id \in Nat \ {0}
    /\ DOMAIN b.commands \subseteq 1..(b.next_id - 1)
    /\ \A id \in DOMAIN b.commands :
          /\ DOMAIN b.commands[id] = {"req", "state", "late", "ended"}
          /\ b.commands[id].state \in CommandStates
    /\ b.active \in 0..(b.next_id - 1)

\* The deque holds the queued commands, with stops in front.
QueueSound(b) ==
    /\ DOMAIN b.queue = {id \in DOMAIN b.commands : State(b, id) = "Queued"}
    /\ \A id \in DOMAIN b.queue :
          b.queue[id] = IF Type(b, id) = "Stop" THEN Front(id) ELSE Back(id)

\* A running command is in the worker's hands or the active motion, and the two
\* are not confused.
OwnersSound(b, w) ==
    /\ w # 0 => /\ w \in DOMAIN b.commands
                /\ State(b, w) = "Running"
                /\ w # b.active
                /\ Type(b, w) \in MotionTypes => b.active = 0
    /\ \A id \in DOMAIN b.commands :
          State(b, id) = "Running" => id = w \/ id = b.active
    /\ b.active \in DOMAIN b.commands => State(b, b.active) # "Queued"

\* No two open commands are motions.
MotionsSound(b) ==
    \A i, j \in DOMAIN b.commands :
        /\ State(b, i) \notin Terminal /\ Type(b, i) \in MotionTypes
        /\ State(b, j) \notin Terminal /\ Type(b, j) \in MotionTypes
        => i = j

Sound(b, w) == /\ Shape(b) /\ QueueSound(b)
               /\ OwnersSound(b, w) /\ MotionsSound(b)

\* Ids are never used again and verdicts are final.
Follows(b, c) ==
    /\ b.next_id \in Nat /\ c.next_id \in Nat /\ b.next_id <= c.next_id
    /\ DOMAIN c.commands \cap 1..(b.next_id - 1) \subseteq DOMAIN b.commands
    /\ \A id \in DOMAIN b.commands \cap DOMAIN c.commands :
          State(b, id) \in Terminal => State(c, id) = State(b, id)

-----------------------------------------------------------------------------
\* Follows is a preorder, so that the operations of a critical section compose.
LEMMA FollowsSelf == ASSUME NEW b, Shape(b) PROVE Follows(b, b)
BY DEF Follows, Shape

\* What follows a follower follows.
LEMMA FollowsTransitive ==
    ASSUME NEW b, NEW c, NEW d, Shape(b), Follows(b, c), Follows(c, d)
    PROVE  Follows(b, d)
<1>1. ASSUME NEW id \in DOMAIN d.commands \cap 1..(b.next_id - 1)
      PROVE  id \in DOMAIN c.commands /\ id \in DOMAIN b.commands
  BY <1>1 DEF Follows
<1>2. ASSUME NEW id \in DOMAIN b.commands \cap DOMAIN d.commands
      PROVE  id \in 1..(b.next_id - 1)
  BY DEF Shape
<1> QED BY <1>1, <1>2 DEF Follows

\* The fields Finish changes.
LEMMA FinishFields ==
    ASSUME NEW b, Shape(b), NEW S, NEW s \in CommandStates
    PROVE  LET c == Finish(b, S, s) IN
           /\ Shape(c)
           /\ DOMAIN c.commands = DOMAIN b.commands
           /\ \A id \in DOMAIN b.commands :
                 /\ Type(c, id) = Type(b, id)
                 /\ State(c, id) = IF id \in S THEN s ELSE State(b, id)
           /\ c.queue = b.queue /\ c.active = b.active /\ c.next_id = b.next_id
           /\ c.stop_requested = b.stop_requested /\ c.jog = b.jog
BY DEF Finish, Shape, Type, State

\* The fields Dequeue changes.
LEMMA DequeueFields ==
    ASSUME NEW b, Shape(b), NEW S
    PROVE  LET c == Dequeue(b, S) IN
           /\ Shape(c)
           /\ c.commands = b.commands
           /\ DOMAIN c.queue = DOMAIN b.queue \ S
           /\ \A id \in DOMAIN c.queue : c.queue[id] = b.queue[id]
           /\ c.active = b.active /\ c.next_id = b.next_id
           /\ c.stop_requested = b.stop_requested /\ c.jog = b.jog
BY DEF Dequeue, Shape

\* A ledger that differs in no field that matters is as sound.
SameCore(b, c) == /\ Shape(c)
                  /\ c.commands = b.commands /\ c.queue = b.queue
                  /\ c.active = b.active /\ c.next_id = b.next_id

\* Soundness depends only on the fields that SameCore compares.
LEMMA SameCoreSound ==
    ASSUME NEW b, NEW c, NEW w, Sound(b, w), SameCore(b, c)
    PROVE  Sound(c, w) /\ Follows(b, c)
BY DEF Sound, SameCore, Shape, QueueSound, OwnersSound, MotionsSound, Follows, Type,
       State

\* Giving the worker's command its verdict takes it out of the worker's hands.
LEMMA FinishWorkers ==
    ASSUME NEW b, NEW w \in Nat \ {0}, Sound(b, w), NEW s \in Terminal
    PROVE  LET c == Finish(b, {w}, s) IN
           /\ Sound(c, 0) /\ Follows(b, c)
           /\ c.active = b.active
<1> DEFINE c == Finish(b, {w}, s)
<1>1. /\ Shape(c) /\ DOMAIN c.commands = DOMAIN b.commands
      /\ \A id \in DOMAIN b.commands :
            /\ Type(c, id) = Type(b, id)
            /\ State(c, id) = IF id = w THEN s ELSE State(b, id)
      /\ c.queue = b.queue /\ c.active = b.active /\ c.next_id = b.next_id
  BY FinishFields DEF Sound, Terminal
<1> HIDE DEF c
<1>2. QueueSound(c)
  BY <1>1 DEF Sound, QueueSound, OwnersSound, Terminal
<1>3. OwnersSound(c, 0)
  BY <1>1 DEF Sound, OwnersSound, Terminal
<1>4. MotionsSound(c)
  BY <1>1 DEF Sound, MotionsSound, OwnersSound, Terminal
<1>5. Follows(b, c)
  BY <1>1 DEF Sound, Follows, Shape, OwnersSound, Terminal
<1> QED BY <1>1, <1>2, <1>3, <1>4, <1>5 DEF Sound, c

\* A command that is neither queued nor in the worker's hands may end.
LEMMA FinishIfOpenSound ==
    ASSUME NEW b, NEW w, Sound(b, w), NEW s \in Terminal
    PROVE  LET c == FinishIfOpen(b, b.active, s) IN
           /\ Sound(c, w) /\ Follows(b, c)
           /\ c.active = b.active
           /\ DOMAIN c.commands = DOMAIN b.commands
           /\ b.active \in DOMAIN c.commands => State(c, b.active) \in Terminal
<1>1. CASE ~IsOpen(b, b.active)
  BY <1>1, FollowsSelf DEF FinishIfOpen, IsOpen, Sound
<1>2. CASE IsOpen(b, b.active)
  <2> DEFINE c == Finish(b, {b.active}, s)
  <2>1. /\ Shape(c) /\ DOMAIN c.commands = DOMAIN b.commands
        /\ \A id \in DOMAIN b.commands :
              /\ Type(c, id) = Type(b, id)
              /\ State(c, id) = IF id = b.active THEN s ELSE State(b, id)
        /\ c.queue = b.queue /\ c.active = b.active /\ c.next_id = b.next_id
    BY FinishFields DEF Sound, Terminal
  <2>2. FinishIfOpen(b, b.active, s) = c
    BY <1>2 DEF FinishIfOpen
  <2> HIDE DEF c
  <2>3. QueueSound(c)
    BY <1>2, <2>1 DEF Sound, QueueSound, OwnersSound, Terminal, IsOpen
  <2>4. OwnersSound(c, w)
    BY <1>2, <2>1 DEF Sound, OwnersSound, Terminal
  <2>5. MotionsSound(c)
    BY <1>2, <2>1 DEF Sound, MotionsSound, Terminal
  <2>6. Follows(b, c)
    BY <1>2, <2>1 DEF Sound, Follows, Shape, IsOpen
  <2>7. b.active \in DOMAIN c.commands => State(c, b.active) \in Terminal
    BY <1>2, <2>1 DEF IsOpen
  <2> QED BY <2>1, <2>2, <2>3, <2>4, <2>5, <2>6, <2>7 DEF Sound
<1> QED BY <1>1, <1>2

\* Cancelling queued commands: displacement, release of a lease, shutdown.
LEMMA CancelSound ==
    ASSUME NEW b, NEW w, Sound(b, w), NEW S, S \subseteq DOMAIN b.queue
    PROVE  LET c == Dequeue(Finish(b, S, "Cancelled"), S) IN
           /\ Sound(c, w) /\ Follows(b, c)
           /\ c.active = b.active
           /\ DOMAIN c.queue = DOMAIN b.queue \ S
<1> DEFINE f == Finish(b, S, "Cancelled")
           c == Dequeue(f, S)
<1>1. /\ Shape(f) /\ DOMAIN f.commands = DOMAIN b.commands
      /\ \A id \in DOMAIN b.commands :
            /\ Type(f, id) = Type(b, id)
            /\ State(f, id) = IF id \in S THEN "Cancelled" ELSE State(b, id)
      /\ f.queue = b.queue /\ f.active = b.active /\ f.next_id = b.next_id
  BY FinishFields DEF Sound, CommandStates
<1> HIDE DEF f
<1>2. /\ Shape(c) /\ c.commands = f.commands
      /\ DOMAIN c.queue = DOMAIN f.queue \ S
      /\ \A id \in DOMAIN c.queue : c.queue[id] = f.queue[id]
      /\ c.active = f.active /\ c.next_id = f.next_id
  BY <1>1, DequeueFields
<1> HIDE DEF c
<1>3. /\ DOMAIN c.commands = DOMAIN b.commands
      /\ \A id \in DOMAIN b.commands :
            /\ Type(c, id) = Type(b, id)
            /\ State(c, id) = IF id \in S THEN "Cancelled" ELSE State(b, id)
  BY <1>1, <1>2 DEF Type, State
<1>4. \A id \in S : id \in DOMAIN b.commands /\ State(b, id) = "Queued"
  BY DEF Sound, QueueSound
<1>5. QueueSound(c)
  BY <1>1, <1>2, <1>3, <1>4 DEF Sound, QueueSound
<1>6. OwnersSound(c, w)
  BY <1>1, <1>2, <1>3, <1>4 DEF Sound, OwnersSound
<1>7. MotionsSound(c)
  BY <1>3, <1>4 DEF Sound, MotionsSound, Terminal, CommandStates
<1>8. Follows(b, c)
  BY <1>1, <1>2, <1>3, <1>4 DEF Sound, Follows, Shape, Terminal
<1> QED BY <1>1, <1>2, <1>5, <1>6, <1>7, <1>8 DEF Sound, c, f

\* A new command gets a fresh id; a motion is added only when none is open.
LEMMA EnqueueSound ==
    ASSUME NEW b, NEW w \in Nat, Sound(b, w), NEW req, NEW rank,
           rank = IF req.type = "Stop" THEN Front(b.next_id) ELSE Back(b.next_id),
           req.type \in MotionTypes =>
               \A id \in DOMAIN b.commands :
                   State(b, id) \notin Terminal => Type(b, id) \notin MotionTypes
    PROVE  LET c == Enqueue(b, req, rank) IN
           /\ Sound(c, w) /\ Follows(b, c)
           /\ c.active = b.active
           /\ DOMAIN c.commands = DOMAIN b.commands \cup {b.next_id}
           /\ \A id \in DOMAIN b.commands : c.commands[id] = b.commands[id]
<1> DEFINE c == Enqueue(b, req, rank)
<1>1. /\ Shape(c)
      /\ DOMAIN c.commands = DOMAIN b.commands \cup {b.next_id}
      /\ \A id \in DOMAIN b.commands : c.commands[id] = b.commands[id]
      /\ Type(c, b.next_id) = req.type /\ State(c, b.next_id) = "Queued"
      /\ DOMAIN c.queue = DOMAIN b.queue \cup {b.next_id}
      /\ \A id \in DOMAIN c.queue :
            c.queue[id] = IF id = b.next_id THEN rank ELSE b.queue[id]
      /\ c.active = b.active /\ c.next_id = b.next_id + 1
  BY DEF Sound, Shape, Enqueue, Type, State, CommandStates
<1> HIDE DEF c
<1>2. b.next_id \notin DOMAIN b.commands /\ b.next_id # b.active
  BY DEF Sound, Shape
<1>3. \A id \in DOMAIN b.commands :
         Type(c, id) = Type(b, id) /\ State(c, id) = State(b, id)
  BY <1>1 DEF Type, State
<1>4. QueueSound(c)
  BY <1>1, <1>2, <1>3 DEF Sound, QueueSound
<1>5. OwnersSound(c, w)
  BY <1>1, <1>2, <1>3 DEF Sound, OwnersSound
<1>6. MotionsSound(c)
  BY <1>1, <1>2, <1>3 DEF Sound, MotionsSound
<1>7. Follows(b, c)
  BY <1>1, <1>3 DEF Sound, Follows, Shape
<1> QED BY <1>1, <1>4, <1>5, <1>6, <1>7 DEF Sound, c

\* An internal stop is queued, or one is already on its way.
LEMMA RequestInternalStopSound ==
    ASSUME NEW b, NEW w \in Nat, Sound(b, w)
    PROVE  LET c == RequestInternalStopLocked(b) IN
           /\ Sound(c, w) /\ Follows(b, c)
           /\ c.active = b.active
           /\ ~IsOpen(b, b.active) => ~IsOpen(c, c.active)
<1>1. CASE b.stop_requested
  BY <1>1, FollowsSelf DEF RequestInternalStopLocked, Sound
<1>2. CASE ~b.stop_requested
  <2> DEFINE e == Enqueue(b, InternalStop, Front(b.next_id))
             c == [e EXCEPT !.stop_requested = TRUE]
  <2>1. RequestInternalStopLocked(b) = c
    BY <1>2 DEF RequestInternalStopLocked
  <2>2. /\ Sound(e, w) /\ Follows(b, e)
        /\ e.active = b.active
        /\ DOMAIN e.commands = DOMAIN b.commands \cup {b.next_id}
        /\ \A id \in DOMAIN b.commands : e.commands[id] = b.commands[id]
    <3>1. InternalStop.type = "Stop"
      BY DEF InternalStop
    <3>2. InternalStop.type \notin MotionTypes
      BY <3>1 DEF MotionTypes
    <3> QED BY <3>1, <3>2, EnqueueSound
  <2> HIDE DEF e
  <2>3. SameCore(e, c)
    BY <2>2 DEF Sound, Shape, SameCore
  <2>4. Sound(c, w) /\ Follows(e, c)
    BY <2>2, <2>3, SameCoreSound
  <2>5. ~IsOpen(b, b.active) => ~IsOpen(c, c.active)
    BY <2>2, <2>3 DEF Sound, Shape, SameCore, IsOpen, State
  <2>6. Follows(b, c)
    BY <2>2, <2>4, FollowsTransitive DEF Sound
  <2> QED BY <2>1, <2>2, <2>3, <2>4, <2>5, <2>6 DEF SameCore
<1> QED BY <1>1, <1>2

\* The active motion may be let go of once it has its verdict.
LEMMA DropActiveSound ==
    ASSUME NEW b, NEW w, Sound(b, w), ~IsOpen(b, b.active),
           NEW c, Shape(c), c.active = 0,
           c.commands = b.commands, c.queue = b.queue, c.next_id = b.next_id
    PROVE  Sound(c, w) /\ Follows(b, c)
<1>1. QueueSound(c) /\ MotionsSound(c)
  BY DEF Sound, QueueSound, MotionsSound, State, Type
<1>2. OwnersSound(c, w)
  BY DEF Sound, Shape, OwnersSound, State, Type, IsOpen, Terminal
<1>3. Follows(b, c)
  BY DEF Sound, Shape, Follows, State
<1> QED BY <1>1, <1>2, <1>3 DEF Sound

\* ResetActive lets go of an active motion that has its verdict.
LEMMA ResetActiveSound ==
    ASSUME NEW b, NEW w, Sound(b, w), ~IsOpen(b, b.active)
    PROVE  LET c == ResetActive(b) IN
           Sound(c, w) /\ Follows(b, c) /\ c.active = 0
<1> DEFINE c == ResetActive(b)
<1>1. /\ Shape(c) /\ c.active = 0 /\ c.commands = b.commands
      /\ c.queue = b.queue /\ c.next_id = b.next_id
  BY DEF ResetActive, Sound, Shape
<1> HIDE DEF c
<1> QED BY <1>1, DropActiveSound DEF c

\* CompleteActiveMotionLocked gives the active motion its verdict, if it has none,
\* and lets go of it.
LEMMA CompleteActiveMotionSound ==
    ASSUME NEW b, NEW w, Sound(b, w), NEW s \in Terminal
    PROVE  LET c == CompleteActiveMotionLocked(b, s) IN
           Sound(c, w) /\ Follows(b, c) /\ c.active = 0
<1>1. CASE b.active = 0
  BY <1>1, FollowsSelf DEF CompleteActiveMotionLocked, Sound
<1>2. CASE b.active # 0
  <2> DEFINE f == FinishIfOpen(b, b.active, s)
  <2>1. Sound(f, w) /\ Follows(b, f) /\ ~IsOpen(f, f.active)
    BY FinishIfOpenSound DEF IsOpen
  <2>2. CompleteActiveMotionLocked(b, s) = ResetActive(f)
    BY <1>2 DEF CompleteActiveMotionLocked
  <2> HIDE DEF f
  <2>3. /\ Sound(ResetActive(f), w) /\ Follows(f, ResetActive(f))
        /\ ResetActive(f).active = 0
    BY <2>1, ResetActiveSound
  <2> QED BY <2>1, <2>2, <2>3, FollowsTransitive DEF Sound
<1> QED BY <1>1, <1>2

\* CompleteActiveProgramLocked does so when the active motion is a program.
LEMMA CompleteActiveProgramSound ==
    ASSUME NEW b, NEW w, Sound(b, w)
    PROVE  LET c == CompleteActiveProgramLocked(b) IN Sound(c, w) /\ Follows(b, c)
BY CompleteActiveMotionSound, FollowsSelf
   DEF CompleteActiveProgramLocked, Sound, Terminal, CommandStates

\* Releasing a lease cancels queued commands only.
LEMMA CancelForLeaseSound ==
    ASSUME NEW b, NEW w, Sound(b, w), NEW l, NEW client
    PROVE  LET c == CancelQueuedCommandsForLeaseLocked(b, l, client) IN
           Sound(c, w) /\ Follows(b, c)
<1> DEFINE owned == {id \in Ordinary(b) : /\ b.commands[id].req.lease = l
                                          /\ b.commands[id].req.client = client}
<1>1. owned \subseteq DOMAIN b.queue
  BY DEF Ordinary
<1>2. CancelQueuedCommandsForLeaseLocked(b, l, client) =
         IF owned = {} THEN b ELSE Dequeue(Finish(b, owned, "Cancelled"), owned)
  BY DEF CancelQueuedCommandsForLeaseLocked
<1> HIDE DEF owned
<1> QED BY <1>1, <1>2, CancelSound, FollowsSelf DEF Sound

\* Shutdown cancels the whole queue.
LEMMA CancelForShutdownSound ==
    ASSUME NEW b, NEW w, Sound(b, w)
    PROVE  LET c == CancelCommandsForShutdownLocked(b) IN
           /\ Sound(c, w) /\ Follows(b, c)
           /\ DOMAIN c.queue = {} /\ c.active = b.active
<1> DEFINE S == {id \in DOMAIN b.queue : IsOpen(b, id)}
<1>1. S = DOMAIN b.queue
  BY DEF Sound, QueueSound, IsOpen, Terminal, CommandStates
<1>2. CancelCommandsForShutdownLocked(b) =
         Dequeue(Finish(b, DOMAIN b.queue, "Cancelled"), DOMAIN b.queue)
  BY <1>1 DEF CancelCommandsForShutdownLocked
<1> QED BY <1>2, CancelSound

\* Pruning drops records that have their verdict.
LEMMA ForgetSound ==
    ASSUME NEW b, NEW w, Sound(b, w),
           NEW P, P \subseteq DOMAIN b.commands \ OpenCommands(b)
    PROVE  LET c == Forget(b, P) IN
           /\ Sound(c, w) /\ Follows(b, c)
           /\ c.next_id = b.next_id
           /\ DOMAIN c.commands = DOMAIN b.commands \ P
           /\ \A id \in DOMAIN c.commands : c.commands[id] = b.commands[id]
<1> DEFINE c == Forget(b, P)
<1>1. /\ Shape(c)
      /\ DOMAIN c.commands = DOMAIN b.commands \ P
      /\ \A id \in DOMAIN c.commands : c.commands[id] = b.commands[id]
      /\ c.queue = b.queue /\ c.active = b.active /\ c.next_id = b.next_id
  BY DEF Forget, Sound, Shape
<1> HIDE DEF c
<1>2. \A id \in DOMAIN c.commands :
         Type(c, id) = Type(b, id) /\ State(c, id) = State(b, id)
  BY <1>1 DEF Type, State
<1>3. \A id \in P : State(b, id) \in Terminal
  BY DEF OpenCommands, Sound, Shape
<1>4. QueueSound(c)
  BY <1>1, <1>2, <1>3 DEF Sound, QueueSound, Terminal
<1>5. OwnersSound(c, w)
  BY <1>1, <1>2, <1>3 DEF Sound, OwnersSound, Terminal
<1>6. MotionsSound(c)
  BY <1>1, <1>2 DEF Sound, MotionsSound
<1>7. Follows(b, c)
  BY <1>1, <1>2 DEF Sound, Follows, Shape
<1> QED BY <1>1, <1>4, <1>5, <1>6, <1>7 DEF Sound, c

\* PruneCommandHistoryLocked drops records that have a verdict and no others.
LEMMA PruneSound ==
    ASSUME NEW b, NEW w, Sound(b, w), NEW c \in PruneCommandHistoryLocked(b)
    PROVE  /\ Sound(c, w) /\ Follows(b, c)
           /\ c.next_id = b.next_id
           /\ DOMAIN c.commands \subseteq DOMAIN b.commands
           /\ \A id \in DOMAIN c.commands : c.commands[id] = b.commands[id]
<1>1. PICK P \in SUBSET (DOMAIN b.commands \ OpenCommands(b)) : c = Forget(b, P)
  BY DEF PruneCommandHistoryLocked
<1> QED BY <1>1, ForgetSound

-----------------------------------------------------------------------------
\* Flags that no other part speaks about: the jog, stop_requested_, what was seen.
LEMMA FlagsSound ==
    ASSUME NEW b, NEW w, Sound(b, w)
    PROVE  /\ \A f : /\ Sound([b EXCEPT !.stop_requested = f], w)
                     /\ Follows(b, [b EXCEPT !.stop_requested = f])
           /\ \A f : /\ Sound([b EXCEPT !.jog = f], w)
                     /\ Follows(b, [b EXCEPT !.jog = f])
           /\ \A f : /\ Sound([b EXCEPT !.jog.due = f], w)
                     /\ Follows(b, [b EXCEPT !.jog.due = f])
           /\ \A f : /\ Sound([b EXCEPT !.seen = f], w)
                     /\ Follows(b, [b EXCEPT !.seen = f])
           /\ \A f : /\ Sound([b EXCEPT !.grace = f], w)
                     /\ Follows(b, [b EXCEPT !.grace = f])
<1> USE DEF SameCore
<1>1. ASSUME NEW f PROVE SameCore(b, [b EXCEPT !.stop_requested = f])
  BY DEF Sound, Shape
<1>2. ASSUME NEW f PROVE SameCore(b, [b EXCEPT !.jog = f])
  BY DEF Sound, Shape
<1>3. ASSUME NEW f PROVE SameCore(b, [b EXCEPT !.jog.due = f])
  BY DEF Sound, Shape
<1>4. ASSUME NEW f PROVE SameCore(b, [b EXCEPT !.seen = f])
  BY DEF Sound, Shape
<1>5. ASSUME NEW f PROVE SameCore(b, [b EXCEPT !.grace = f])
  BY DEF Sound, Shape
<1> HIDE DEF SameCore
<1> QED BY <1>1, <1>2, <1>3, <1>4, <1>5, SameCoreSound

\* What the poll thread concludes about the active motion.
LEMMA UpdateActiveMotionSound ==
    ASSUME NEW b, NEW w \in Nat, Sound(b, w), NEW snap
    PROVE  LET c == UpdateActiveMotionLocked(b, snap) IN
           Sound(c, w) /\ Follows(b, c)
<1> DEFINE c == UpdateActiveMotionLocked(b, snap)
           Ended(s) == FinishIfOpen(b, b.active, s)
           Told(s)  == RequestInternalStopLocked(Ended(s))
           Over     == ResetActive(Ended("Succeeded"))
<1> SUFFICES Sound(c, w) /\ Follows(b, c)
  OBVIOUS
<1>1. \/ c = b
      \/ b.active \notin DOMAIN b.commands /\ c = [b EXCEPT !.active = 0]
      \/ c = Told("TimedOut")
      \/ c = ResetActive(Told("Failed"))
      \/ c = [b EXCEPT !.seen = TRUE]
      \/ c = [Over EXCEPT !.stop_requested = FALSE]
  BY DEF UpdateActiveMotionLocked
<1>2. ASSUME NEW s \in Terminal
      PROVE  Sound(Ended(s), w) /\ Follows(b, Ended(s)) /\ ~IsOpen(Ended(s), Ended(s).active)
  BY FinishIfOpenSound DEF IsOpen
<1> HIDE DEF c, Ended
<1>3. ASSUME NEW s \in Terminal
      PROVE  Sound(Told(s), w) /\ Follows(b, Told(s)) /\ ~IsOpen(Told(s), Told(s).active)
  <2>1. /\ Sound(Told(s), w) /\ Follows(Ended(s), Told(s))
        /\ ~IsOpen(Told(s), Told(s).active)
    BY <1>2, RequestInternalStopSound
  <2> QED BY <1>2, <2>1, FollowsTransitive DEF Sound
<1> HIDE DEF Told
<1>4. "TimedOut" \in Terminal /\ "Failed" \in Terminal /\ "Succeeded" \in Terminal
  BY DEF Terminal, CommandStates
<1>5. CASE c = b
  BY <1>5, FollowsSelf DEF Sound
<1>6. CASE b.active \notin DOMAIN b.commands /\ c = [b EXCEPT !.active = 0]
  <2>1. /\ Shape(c) /\ c.active = 0 /\ c.commands = b.commands
        /\ c.queue = b.queue /\ c.next_id = b.next_id
    BY <1>6 DEF Sound, Shape
  <2> QED BY <1>6, <2>1, DropActiveSound DEF IsOpen
<1>7. CASE c = Told("TimedOut")
  BY <1>3, <1>4, <1>7
<1>8. CASE c = ResetActive(Told("Failed"))
  BY <1>3, <1>4, <1>8, ResetActiveSound, FollowsTransitive DEF Sound
<1>9. CASE c = [b EXCEPT !.seen = TRUE]
  BY <1>9, FlagsSound
<1>10. CASE c = [Over EXCEPT !.stop_requested = FALSE]
  <2>1. Sound(Over, w) /\ Follows(Ended("Succeeded"), Over)
    BY <1>2, <1>4, ResetActiveSound
  <2>2. Follows(b, Over)
    BY <1>2, <1>4, <2>1, FollowsTransitive DEF Sound
  <2> HIDE DEF Over
  <2>3. Sound(c, w) /\ Follows(Over, c)
    BY <1>10, <2>1, FlagsSound
  <2> QED BY <2>2, <2>3, FollowsTransitive DEF Sound
<1> QED BY <1>1, <1>5, <1>6, <1>7, <1>8, <1>9, <1>10

\* The worker's motion becomes the active one, or fails.
LEMMA StartMotionSound ==
    ASSUME NEW b, NEW w \in Nat \ {0}, Sound(b, w), Type(b, w) \in MotionTypes, NEW valid
    PROVE  LET c == StartMotion(b, w, valid) IN Sound(c, 0) /\ Follows(b, c)
<1> DEFINE d == [b EXCEPT !.active = w, !.seen = FALSE, !.grace = FALSE,
                          !.stop_requested = FALSE]
<1>1. b.active = 0 /\ w \in DOMAIN b.commands /\ State(b, w) = "Running"
  BY DEF Sound, OwnersSound
<1>2. StartMotion(b, w, valid) = IF valid THEN d ELSE RequestInternalStopLocked(d)
  BY <1>1 DEF StartMotion
<1>3. /\ Shape(d) /\ d.active = w /\ d.commands = b.commands
      /\ d.queue = b.queue /\ d.next_id = b.next_id
  BY <1>1 DEF Sound, Shape
<1> HIDE DEF d
<1>4. QueueSound(d) /\ MotionsSound(d)
  BY <1>3 DEF Sound, QueueSound, MotionsSound, State, Type
<1>5. OwnersSound(d, 0)
  BY <1>1, <1>3 DEF Sound, Shape, OwnersSound, State, Type
<1>6. Follows(b, d)
  BY <1>3 DEF Sound, Shape, Follows, State
<1>7. Sound(d, 0)
  BY <1>3, <1>4, <1>5 DEF Sound
<1>8. Sound(RequestInternalStopLocked(d), 0) /\ Follows(d, RequestInternalStopLocked(d))
  BY <1>7, RequestInternalStopSound
<1> QED BY <1>2, <1>6, <1>7, <1>8, FollowsTransitive DEF Sound

\* A jog is recorded, and stopped at once when its lease is gone.
LEMMA StartJogSound ==
    ASSUME NEW b, NEW w \in Nat, Sound(b, w), NEW req, NEW valid
    PROVE  LET c == StartJog(b, req, valid) IN Sound(c, w) /\ Follows(b, c)
<1> DEFINE d == [b EXCEPT !.jog = [active |-> TRUE, client |-> req.client,
                                   lease |-> req.lease, due |-> FALSE]]
<1>1. Sound(d, w) /\ Follows(b, d)
  BY FlagsSound
<1>2. StartJog(b, req, valid) = IF valid THEN d ELSE RequestInternalStopLocked(d)
  BY DEF StartJog
<1> HIDE DEF d
<1>3. Sound(RequestInternalStopLocked(d), w) /\ Follows(d, RequestInternalStopLocked(d))
  BY <1>1, RequestInternalStopSound
<1> QED BY <1>1, <1>2, <1>3, FollowsTransitive DEF Sound

\* A command that was executed without error.
LEMMA CompletedSound ==
    ASSUME NEW b, NEW w \in Nat \ {0}, Sound(b, w), NEW valid
    PROVE  LET c == Completed(b, w, valid) IN Sound(c, 0) /\ Follows(b, c)
<1> DEFINE c    == Completed(b, w, valid)
           req  == b.commands[w].req
           done == Finish(b, {w}, "Succeeded")
           halt == ClearActiveJogLocked(CompleteActiveMotionLocked(done, "Stopped"))
           prog == CompleteActiveProgramLocked(done)
<1> SUFFICES Sound(c, 0) /\ Follows(b, c)
  OBVIOUS
<1>1. \/ Type(b, w) \in MotionTypes /\ c = StartMotion(b, w, valid)
      \/ c = StartJog(done, req, valid)
      \/ c = ClearActiveJogLocked(done)
      \/ c = [halt EXCEPT !.stop_requested = FALSE]
      \/ c = [prog EXCEPT !.stop_requested = FALSE]
      \/ c = done
  BY DEF Completed, Type
<1>2. "Succeeded" \in Terminal /\ "Stopped" \in Terminal
  BY DEF Terminal, CommandStates
<1>3. Sound(done, 0) /\ Follows(b, done)
  BY <1>2, FinishWorkers
<1>4. ASSUME NEW d, Sound(d, 0), Follows(done, d) PROVE Follows(b, d)
  BY <1>3, <1>4, FollowsTransitive DEF Sound
<1> HIDE DEF c, done, req
<1>5. CASE Type(b, w) \in MotionTypes /\ c = StartMotion(b, w, valid)
  BY <1>5, StartMotionSound
<1>6. CASE c = StartJog(done, req, valid)
  BY <1>3, <1>4, <1>6, StartJogSound
<1>7. CASE c = ClearActiveJogLocked(done)
  BY <1>3, <1>4, <1>7, FlagsSound DEF ClearActiveJogLocked
<1>8. CASE c = [halt EXCEPT !.stop_requested = FALSE]
  <2> DEFINE m == CompleteActiveMotionLocked(done, "Stopped")
  <2>1. Sound(m, 0) /\ Follows(done, m)
    BY <1>2, <1>3, CompleteActiveMotionSound
  <2>2. Sound(halt, 0) /\ Follows(m, halt)
    BY <2>1, FlagsSound DEF ClearActiveJogLocked
  <2>3. Follows(done, halt)
    BY <1>3, <2>1, <2>2, FollowsTransitive DEF Sound
  <2> HIDE DEF halt
  <2>4. Sound(c, 0) /\ Follows(halt, c)
    BY <1>8, <2>2, FlagsSound
  <2> QED BY <1>3, <1>4, <2>3, <2>4, FollowsTransitive DEF Sound
<1>9. CASE c = [prog EXCEPT !.stop_requested = FALSE]
  <2>1. Sound(prog, 0) /\ Follows(done, prog)
    BY <1>3, CompleteActiveProgramSound
  <2> HIDE DEF prog
  <2>2. Sound(c, 0) /\ Follows(prog, c)
    BY <1>9, <2>1, FlagsSound
  <2> QED BY <1>3, <1>4, <2>1, <2>2, FollowsTransitive DEF Sound
<1>10. CASE c = done
  BY <1>3, <1>10
<1> QED BY <1>1, <1>5, <1>6, <1>7, <1>8, <1>9, <1>10

\* The worker takes a command that may run.
LEMMA TakeSound ==
    ASSUME NEW b, Sound(b, 0), NEW id \in Executable(b)
    PROVE  LET c == [Dequeue(b, {id}) EXCEPT !.commands[id].state = "Running"] IN
           Sound(c, id) /\ Follows(b, c) /\ id \in Nat \ {0}
<1> DEFINE t == Dequeue(b, {id})
           c == [t EXCEPT !.commands[id].state = "Running"]
<1> SUFFICES Sound(c, id) /\ Follows(b, c) /\ id \in Nat \ {0}
  OBVIOUS
<1>1. /\ Shape(t) /\ t.commands = b.commands
      /\ DOMAIN t.queue = DOMAIN b.queue \ {id}
      /\ \A i \in DOMAIN t.queue : t.queue[i] = b.queue[i]
      /\ t.active = b.active /\ t.next_id = b.next_id
  BY DequeueFields DEF Sound
<1>2. /\ id \in DOMAIN b.queue /\ id \in DOMAIN b.commands /\ State(b, id) = "Queued"
      /\ MayRun(b, id)
  BY DEF Executable, Sound, QueueSound
<1> HIDE DEF t
<1>3. /\ Shape(c) /\ DOMAIN c.commands = DOMAIN b.commands
      /\ \A i \in DOMAIN b.commands :
            /\ Type(c, i) = Type(b, i)
            /\ State(c, i) = IF i = id THEN "Running" ELSE State(b, i)
      /\ c.queue = t.queue /\ c.active = b.active /\ c.next_id = b.next_id
  BY <1>1, <1>2 DEF Shape, Type, State, CommandStates
<1> HIDE DEF c
<1>4. id \in Nat \ {0} /\ id # b.active
  BY <1>2 DEF Sound, Shape, OwnersSound
<1>5. Type(b, id) \in MotionTypes => b.active = 0
  BY <1>2 DEF MayRun, RunsDuringMotion, MotionTypes
<1>6. QueueSound(c)
  BY <1>1, <1>2, <1>3 DEF Sound, QueueSound
<1>7. OwnersSound(c, id)
  <2>1. \A i \in DOMAIN b.commands : State(b, i) = "Running" => i = b.active
    BY DEF Sound, Shape, OwnersSound
  <2>2. /\ id \in DOMAIN c.commands /\ State(c, id) = "Running" /\ id # c.active
        /\ Type(c, id) \in MotionTypes => c.active = 0
    BY <1>2, <1>3, <1>4, <1>5
  <2>3. \A i \in DOMAIN c.commands :
           State(c, i) = "Running" => i = id \/ i = c.active
    BY <1>3, <2>1
  <2>4. c.active \in DOMAIN c.commands => State(c, c.active) # "Queued"
    BY <1>3, <1>4 DEF Sound, OwnersSound
  <2> QED BY <2>2, <2>3, <2>4 DEF OwnersSound
<1>8. MotionsSound(c)
  BY <1>2, <1>3 DEF Sound, MotionsSound, Terminal
<1>9. Follows(b, c)
  BY <1>2, <1>3 DEF Sound, Shape, Follows, Terminal
<1> QED BY <1>3, <1>4, <1>6, <1>7, <1>8, <1>9 DEF Sound

\* The worker finds that the command it took has expired.
LEMMA ExpireSound ==
    ASSUME NEW b, NEW w, Sound(b, w), NEW id \in DOMAIN b.queue
    PROVE  LET c == Finish(Dequeue(b, {id}), {id}, "TimedOut") IN
           Sound(c, w) /\ Follows(b, c)
<1> DEFINE t == Dequeue(b, {id})
           c == Finish(t, {id}, "TimedOut")
<1> SUFFICES Sound(c, w) /\ Follows(b, c)
  OBVIOUS
<1>1. /\ Shape(t) /\ t.commands = b.commands
      /\ DOMAIN t.queue = DOMAIN b.queue \ {id}
      /\ \A i \in DOMAIN t.queue : t.queue[i] = b.queue[i]
      /\ t.active = b.active /\ t.next_id = b.next_id
  BY DequeueFields DEF Sound
<1>2. id \in DOMAIN b.commands /\ State(b, id) = "Queued"
  BY DEF Sound, QueueSound
<1> HIDE DEF t
<1>3. /\ Shape(c) /\ DOMAIN c.commands = DOMAIN t.commands
      /\ \A i \in DOMAIN t.commands :
            /\ Type(c, i) = Type(t, i)
            /\ State(c, i) = IF i = id THEN "TimedOut" ELSE State(t, i)
      /\ c.queue = t.queue /\ c.active = t.active /\ c.next_id = t.next_id
  BY <1>1, FinishFields DEF CommandStates
<1> HIDE DEF c
<1>4. \A i \in DOMAIN b.commands : Type(t, i) = Type(b, i) /\ State(t, i) = State(b, i)
  BY <1>1 DEF Type, State
<1>5. QueueSound(c)
  BY <1>1, <1>2, <1>3, <1>4 DEF Sound, QueueSound
<1>6. OwnersSound(c, w)
  BY <1>1, <1>2, <1>3, <1>4 DEF Sound, OwnersSound
<1>7. MotionsSound(c)
  BY <1>1, <1>2, <1>3, <1>4 DEF Sound, MotionsSound, Terminal
<1>8. Follows(b, c)
  BY <1>1, <1>2, <1>3, <1>4 DEF Sound, Shape, Follows, Terminal
<1> QED BY <1>3, <1>5, <1>6, <1>7, <1>8 DEF Sound

\* The timeout of a command passes: only its flag changes.
LEMMA LateSound ==
    ASSUME NEW b, NEW w, Sound(b, w), NEW id \in DOMAIN b.commands
    PROVE  LET c == [b EXCEPT !.commands[id].late = TRUE] IN
           Sound(c, w) /\ Follows(b, c)
<1> DEFINE c == [b EXCEPT !.commands[id].late = TRUE]
<1> SUFFICES Sound(c, w) /\ Follows(b, c)
  OBVIOUS
<1>1. /\ Shape(c) /\ DOMAIN c.commands = DOMAIN b.commands
      /\ \A i \in DOMAIN b.commands :
            Type(c, i) = Type(b, i) /\ State(c, i) = State(b, i)
      /\ c.queue = b.queue /\ c.active = b.active /\ c.next_id = b.next_id
  BY DEF Sound, Shape, Type, State
<1> HIDE DEF c
<1>2. QueueSound(c)
  BY <1>1 DEF Sound, QueueSound
<1>3. OwnersSound(c, w)
  BY <1>1 DEF Sound, OwnersSound
<1>4. MotionsSound(c)
  BY <1>1 DEF Sound, MotionsSound
<1>5. Follows(b, c)
  BY <1>1 DEF Sound, Shape, Follows
<1> QED BY <1>1, <1>2, <1>3, <1>4, <1>5 DEF Sound
=============================================================================
