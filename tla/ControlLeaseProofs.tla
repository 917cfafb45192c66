------------------------- MODULE ControlLeaseProofs -------------------------
(***************************************************************************)
(* Proofs about the control lease manager, for every number of clients,    *)
(* threads and grants and every time to live.                              *)
(***************************************************************************)
EXTENDS ControlLease, TLAPS

\* No call is ahead of the clock, and only clients call.
CallsOK == \A t \in Threads :
              /\ call[t].at <= now
              /\ call[t].op # "idle" => call[t].client \in Clients

\* active_ is the lease of a client while has_active_, and empty otherwise.
ActiveOK == IF has_active
            THEN /\ active.client \in Clients
                 /\ active.id \in 1..(next_id - 1)
            ELSE active = EmptyLease

\* A promise that has not run out is exactly the lease in the manager.
PromiseOK == \A c \in Clients :
                now < told[c].until =>
                    /\ has_active /\ Matches(told[c].id, c)
                    /\ active.expires = told[c].until

\* The inductive invariant.
LeaseInv == TypeOK /\ CallsOK /\ ActiveOK /\ PromiseOK

-----------------------------------------------------------------------------
\* The manager starts with nothing granted and nobody calling.
LEMMA LeaseInvInit == Init => LeaseInv
<1> SUFFICES ASSUME Init PROVE LeaseInv
  OBVIOUS
<1>1. TypeOK
  <2>1. EmptyLease \in Leases
    BY DEF EmptyLease, Leases
  <2>2. Idle \in Calls
    BY DEF Idle, Calls
  <2>3. Nothing \in [id : Nat, until : Nat]
    BY DEF Nothing
  <2>4. now \in Nat /\ next_id \in Nat \ {0}
    BY DEF Init
  <2>5. has_active \in BOOLEAN /\ active \in Leases
    BY <2>1 DEF Init
  <2>6. call \in [Threads -> Calls] /\ told \in [Clients -> [id : Nat, until : Nat]]
    BY <2>2, <2>3 DEF Init
  <2> QED BY <2>4, <2>5, <2>6 DEF TypeOK
<1>2. CallsOK /\ ActiveOK /\ PromiseOK
  BY DEF Init, CallsOK, ActiveOK, PromiseOK, Idle, Nothing
<1> QED BY <1>1, <1>2 DEF LeaseInv

\* The beginning of a call only records the clock.
LEMMA BeginKeepsInv ==
    ASSUME LeaseInv, NEW t \in Threads, NEW c \in Clients, NEW id \in Nat,
           AcquireBegin(t, c) \/ RenewBegin(t, c, id)
    PROVE  LeaseInv'
<1> USE DEF LeaseInv
<1>1. call' \in [Threads -> Calls]
  BY DEF TypeOK, AcquireBegin, RenewBegin, Calls
<1>2. TypeOK'
  BY <1>1 DEF TypeOK, AcquireBegin, RenewBegin
<1>3. CallsOK'
  BY DEF TypeOK, CallsOK, AcquireBegin, RenewBegin, Calls
<1>4. ActiveOK' /\ PromiseOK'
  BY DEF ActiveOK, PromiseOK, Matches, AcquireBegin, RenewBegin
<1> QED BY <1>2, <1>3, <1>4

\* A grant: its caller saw no live lease at a time not later than now, so none is
\* live now and every earlier promise has run out.
LEMMA AcquireKeepsInv ==
    ASSUME LeaseInv, NEW t \in Threads, Acquire(t)
    PROVE  LeaseInv'
<1> USE DEF LeaseInv
<1> DEFINE c == call[t].client
<1>1. /\ c \in Clients /\ call[t] \in Calls /\ call[t].at <= now
      /\ call' = [call EXCEPT ![t] = Idle] /\ now' = now
  BY DEF Acquire, TypeOK, CallsOK
<1>2. call[t].at \in Nat /\ Idle \in Calls
  BY <1>1 DEF Calls, Idle
<1>3. CallsOK'
  BY <1>1 DEF TypeOK, CallsOK, Idle
<1>4. CASE IsActiveLocked(call[t].at)
  <2>1. UNCHANGED <<has_active, active, next_id, told>>
    BY <1>4 DEF Acquire
  <2> QED
    BY <1>1, <1>2, <1>3, <2>1 DEF TypeOK, ActiveOK, PromiseOK, Matches
<1>5. CASE ~IsActiveLocked(call[t].at)
  <2> DEFINE expires == call[t].at + Ttl
  <2>1. /\ has_active' = TRUE
        /\ active' = [id |-> next_id, client |-> c, expires |-> expires]
        /\ next_id' = next_id + 1
        /\ told' = [told EXCEPT ![c] = [id |-> next_id, until |-> expires]]
    BY <1>5 DEF Acquire
  <2>2. expires \in Nat
    BY <1>2, TtlAssumption
  <2>3. TypeOK'
    BY <1>1, <1>2, <2>1, <2>2 DEF TypeOK, Leases
  <2>4. ActiveOK'
    BY <1>1, <2>1 DEF ActiveOK, TypeOK
  <2>5. ASSUME NEW d \in Clients, now < told[d].until PROVE FALSE
    BY <1>1, <1>2, <1>5, <2>5 DEF PromiseOK, IsActiveLocked, TypeOK, Leases
  <2>6. PromiseOK'
    BY <1>1, <2>1, <2>5 DEF PromiseOK, Matches, TypeOK
  <2> QED BY <1>3, <2>3, <2>4, <2>6
<1> QED BY <1>4, <1>5

\* A renewal moves the expiry and tells the holder so; nobody else holds a promise.
LEMMA RenewKeepsInv ==
    ASSUME LeaseInv, NEW t \in Threads, Renew(t)
    PROVE  LeaseInv'
<1> USE DEF LeaseInv
<1> DEFINE c == call[t].client
<1>1. /\ c \in Clients /\ call[t] \in Calls /\ call[t].at <= now
      /\ call' = [call EXCEPT ![t] = Idle]
      /\ UNCHANGED <<now, has_active, next_id>>
  BY DEF Renew, TypeOK, CallsOK
<1>2. call[t].at \in Nat /\ Idle \in Calls
  BY <1>1 DEF Calls, Idle
<1>3. CallsOK'
  BY <1>1 DEF TypeOK, CallsOK, Idle
<1>4. CASE ~(IsActiveLocked(call[t].at) /\ Matches(call[t].id, c))
  <2>1. UNCHANGED <<active, told>>
    BY <1>4 DEF Renew
  <2> QED
    BY <1>1, <1>2, <1>3, <2>1 DEF TypeOK, ActiveOK, PromiseOK, Matches
<1>5. CASE IsActiveLocked(call[t].at) /\ Matches(call[t].id, c)
  <2> DEFINE expires == call[t].at + Ttl
  <2>1. /\ active' = [active EXCEPT !.expires = expires]
        /\ told' = [told EXCEPT ![c] = [id |-> active.id, until |-> expires]]
    BY <1>5 DEF Renew
  <2>2. expires \in Nat
    BY <1>2, TtlAssumption
  <2>3. /\ has_active /\ active.client = c
        /\ active' \in Leases /\ active'.id = active.id /\ active'.client = c
        /\ active'.expires = expires
    BY <1>5, <2>1, <2>2 DEF TypeOK, Leases, IsActiveLocked, Matches
  <2>4. TypeOK'
    BY <1>1, <1>2, <2>1, <2>2, <2>3 DEF TypeOK, Leases
  <2>5. ActiveOK'
    BY <1>1, <2>3 DEF ActiveOK
  <2>6. PromiseOK'
    BY <1>1, <2>1, <2>3 DEF PromiseOK, Matches, TypeOK
  <2> QED BY <1>3, <2>4, <2>5, <2>6
<1> QED BY <1>4, <1>5

\* The holder gives the lease and with it its own promise back.
LEMMA ReleaseKeepsInv ==
    ASSUME LeaseInv, NEW c \in Clients, NEW id \in 1..(next_id - 1), Release(c, id)
    PROVE  LeaseInv'
<1> USE DEF LeaseInv
<1>1. TypeOK'
  BY DEF TypeOK, Release, EmptyLease, Nothing, Leases
<1>2. CallsOK' /\ ActiveOK'
  BY DEF CallsOK, ActiveOK, Release
<1>3. PromiseOK'
  BY DEF TypeOK, PromiseOK, Release, Matches, Nothing
<1> QED BY <1>1, <1>2, <1>3

\* The passage of time keeps the invariant.
LEMMA TickKeepsInv == LeaseInv /\ Tick => LeaseInv'
BY DEF LeaseInv, TypeOK, CallsOK, ActiveOK, PromiseOK, Tick, Calls, Matches

\* Every step keeps the invariant.
LEMMA LeaseInvNext == LeaseInv /\ [Next]_vars => LeaseInv'
<1> SUFFICES ASSUME LeaseInv, [Next]_vars PROVE LeaseInv'
  OBVIOUS
<1>1. CASE UNCHANGED vars
  BY <1>1 DEF LeaseInv, TypeOK, CallsOK, ActiveOK, PromiseOK, Matches, vars
<1>2. ASSUME NEW t \in Threads, NEW c \in Clients, NEW id \in Nat,
             AcquireBegin(t, c) \/ RenewBegin(t, c, id)
      PROVE  LeaseInv'
  BY <1>2, BeginKeepsInv
<1>3. 1..(next_id - 1) \subseteq Nat /\ 0 \in Nat
  BY DEF LeaseInv, TypeOK
<1> QED
  BY <1>1, <1>2, <1>3, AcquireKeepsInv, RenewKeepsInv, ReleaseKeepsInv, TickKeepsInv
     DEF Next

\* The inductive invariant of the lease manager holds in every reachable state,
\* whatever clock readings are pending.
THEOREM LeaseInvariant == Spec => []LeaseInv
BY LeaseInvInit, LeaseInvNext, PTL DEF Spec

\* Type correctness of the lease manager.
THEOREM TypeCorrect == Spec => []TypeOK
BY LeaseInvariant, PTL DEF LeaseInv

\* What a client was last told about its lease holds until then, for any number of
\* concurrent and delayed calls of Acquire, Renew and Release.
THEOREM PromiseIsKept == Spec => []PromiseKept
<1>1. LeaseInv => PromiseKept
  BY DEF LeaseInv, PromiseOK, PromiseKept, IsValid, IsActiveLocked, TypeOK, Leases
<1> QED BY <1>1, LeaseInvariant, PTL

\* No two clients believe at the same time that they control the robot.
THEOREM ControlIsExclusive == Spec => []ExclusiveControl
<1>1. LeaseInv => ExclusiveControl
  BY DEF LeaseInv, PromiseOK, ExclusiveControl, Matches
<1> QED BY <1>1, LeaseInvariant, PTL

\* A lease the manager has dropped never comes back.
THEOREM OldLeasesStayOld == Spec => NoReturnToOldLease
<1> DEFINE Kept == \A id \in 1..(next_id - 1), c \in Clients :
                      ~(has_active /\ Matches(id, c)) => ~(has_active' /\ Matches(id, c)')
<1>1. ASSUME LeaseInv, Next PROVE Kept
  <2>1. CASE \/ \E t \in Threads, c \in Clients : AcquireBegin(t, c)
             \/ \E t \in Threads, c \in Clients, id \in 1..(next_id - 1) :
                   RenewBegin(t, c, id)
             \/ Tick
    BY <2>1 DEF AcquireBegin, RenewBegin, Tick, Matches
  <2>2. ASSUME NEW t \in Threads, Acquire(t) PROVE Kept
    BY <1>1, <2>2 DEF Acquire, Matches, LeaseInv, TypeOK
  <2>3. ASSUME NEW t \in Threads, Renew(t) PROVE Kept
    BY <1>1, <2>3 DEF Renew, Matches, LeaseInv, TypeOK, Leases
  <2>4. ASSUME NEW c \in Clients, NEW id \in 1..(next_id - 1), Release(c, id)
        PROVE  Kept
    BY <2>4 DEF Release
  <2> QED BY <1>1, <2>1, <2>2, <2>3, <2>4 DEF Next
<1>2. UNCHANGED vars => Kept
  BY DEF vars, Matches
<1> QED BY <1>1, <1>2, LeaseInvariant, PTL DEF Spec, NoReturnToOldLease

-----------------------------------------------------------------------------
\* The manager implements its clock-free contract: each critical section is one
\* operation of the contract or changes nothing, and the clock lets leases lapse.
THEOREM LeaseRefinesContract == Spec => ImplementsContract
<1> USE DEF Contract!LeaseNext, Contract!Grant, Contract!Extend, Contract!Return,
            Contract!Lapse, Contract!leaseVars
<1>1. Init => Contract!LeaseInit
  BY DEF Init, Contract!LeaseInit, EmptyLease, IsActiveLocked
<1>2. ASSUME LeaseInv, [Next]_vars
      PROVE  [Contract!LeaseNext]_(Contract!leaseVars)
  <2>1. CASE \/ UNCHANGED vars
             \/ \E t \in Threads, c \in Clients :
                   \/ AcquireBegin(t, c)
                   \/ \E id \in 1..(next_id - 1) : RenewBegin(t, c, id)
    BY <2>1 DEF vars, AcquireBegin, RenewBegin, IsActiveLocked
  <2>2. ASSUME NEW t \in Threads, Acquire(t)
        PROVE  [Contract!LeaseNext]_(Contract!leaseVars)
    <3>1. CASE IsActiveLocked(call[t].at)
      BY <2>2, <3>1 DEF Acquire, IsActiveLocked
    <3>2. CASE ~IsActiveLocked(call[t].at)
      <4>1. call[t].client \in Clients /\ ~IsActiveLocked(now)
        BY <1>2, <2>2, <3>2
           DEF Acquire, IsActiveLocked, LeaseInv, CallsOK, TypeOK, Calls, Leases
      <4>2. /\ active'.client = call[t].client /\ active'.id = next_id
            /\ next_id' = next_id + 1 /\ next_id \in Nat
        BY <1>2, <2>2, <3>2 DEF Acquire, LeaseInv, TypeOK
      <4>3. IsActiveLocked(now)' \in BOOLEAN
        BY <2>2, <3>2 DEF Acquire, IsActiveLocked
      <4>4. Contract!Grant(call[t].client)
        BY <4>1, <4>2, <4>3
      <4> QED BY <4>1, <4>4
    <3> QED BY <3>1, <3>2
  <2>3. ASSUME NEW t \in Threads, Renew(t)
        PROVE  [Contract!LeaseNext]_(Contract!leaseVars)
    <3>1. CASE ~(IsActiveLocked(call[t].at) /\ Matches(call[t].id, call[t].client))
      BY <2>3, <3>1 DEF Renew, IsActiveLocked
    <3>2. CASE IsActiveLocked(call[t].at) /\ Matches(call[t].id, call[t].client)
      <4>1. active.client \in Clients /\ active.id \in 1..(next_id - 1) /\ active.id # 0
        BY <1>2, <3>2 DEF LeaseInv, ActiveOK, IsActiveLocked
      <4>2. Contract!Extend(active.id, active.client)
        BY <1>2, <2>3, <3>2, <4>1 DEF Renew, IsActiveLocked, LeaseInv, TypeOK, Leases
      <4> QED BY <4>1, <4>2
    <3> QED BY <3>1, <3>2
  <2>4. ASSUME NEW c \in Clients, NEW id \in 1..(next_id - 1), Release(c, id)
        PROVE  [Contract!LeaseNext]_(Contract!leaseVars)
    <3>1. Contract!Return(id, c)
      BY <1>2, <2>4
         DEF Release, Matches, EmptyLease, IsActiveLocked, LeaseInv, TypeOK
    <3> QED BY <3>1
  <2>5. CASE Tick
    <3>1. UNCHANGED <<has_active, active, next_id>> /\ now' = now + 1 /\ now \in Nat
      BY <1>2, <2>5 DEF Tick, LeaseInv, TypeOK
    <3>2. IsActiveLocked(now)' => IsActiveLocked(now)
      BY <1>2, <3>1 DEF IsActiveLocked, LeaseInv, TypeOK, Leases
    <3> QED BY <3>1, <3>2 DEF IsActiveLocked
  <2> QED BY <1>2, <2>1, <2>2, <2>3, <2>4, <2>5 DEF Next
<1> QED
  BY <1>1, <1>2, LeaseInvariant, PTL DEF Spec, ImplementsContract, Contract!LeaseSpec
=============================================================================
