---------------------------- MODULE ControlLease ----------------------------
(***************************************************************************)
(* ControlLeaseManager (src/src/control/control_lease.cc) called from      *)
(* concurrent RPC threads.  Acquire, Renew and IsValid read the steady     *)
(* clock BEFORE they take the manager's mutex, so a thread may decide on a *)
(* time that is out of date; each call is two steps here, the reading and  *)
(* the critical section.  Release reads no clock.                          *)
(*                                                                         *)
(* Lease ids are the numbers next_id_ hands out: the timestamp in the id   *)
(* string adds nothing to their uniqueness.                                *)
(***************************************************************************)
EXTENDS Integers

CONSTANTS Clients,    \* client ids
          NoClient,
          Threads,    \* RPC threads
          Ttl,        \* lease_ttl_, in ticks
          MaxTime,    \* bound on the clock
          MaxLeases   \* bound on the number of grants

ASSUME TtlAssumption      == Ttl \in Nat \ {0}
ASSUME MaxTimeAssumption  == MaxTime \in Nat
ASSUME MaxLeasesAssumption == MaxLeases \in Nat
ASSUME NoClientAssumption == NoClient \notin Clients

VARIABLES now,        \* the steady clock
          has_active, \* has_active_
          active,     \* active_
          next_id,    \* next_id_
          call,       \* the call each thread is in
          told        \* what each client was last told about its lease

vars == <<now, has_active, active, next_id, call, told>>

EmptyLease == [id |-> 0, client |-> NoClient, expires |-> 0]
Idle       == [op |-> "idle", client |-> NoClient, id |-> 0, at |-> 0]
Nothing    == [id |-> 0, until |-> 0]

Leases == [id : Nat, client : Clients \cup {NoClient}, expires : Nat]
Calls  == [op : {"idle", "acquire", "renew"}, client : Clients \cup {NoClient},
           id : Nat, at : Nat]

Init == /\ now = 0
        /\ has_active = FALSE
        /\ active = EmptyLease
        /\ next_id = 1
        /\ call = [t \in Threads |-> Idle]
        /\ told = [c \in Clients |-> Nothing]

IsActiveLocked(at) == has_active /\ at < active.expires

Matches(id, c) == active.id = id /\ active.client = c

\* IsValid as a reader with an up-to-date clock sees it.
IsValid(id, c) == IsActiveLocked(now) /\ Matches(id, c)

\* A call begins: the thread reads the clock and then waits for the mutex.
AcquireBegin(t, c) ==
    /\ call[t] = Idle
    /\ next_id <= MaxLeases
    /\ call' = [call EXCEPT ![t] = [op |-> "acquire", client |-> c, id |-> 0,
                                    at |-> now]]
    /\ UNCHANGED <<now, has_active, active, next_id, told>>

RenewBegin(t, c, id) ==
    /\ call[t] = Idle
    /\ call' = [call EXCEPT ![t] = [op |-> "renew", client |-> c, id |-> id,
                                    at |-> now]]
    /\ UNCHANGED <<now, has_active, active, next_id, told>>

\* Mutant: only the holder's own lease stands in the way of a grant.
AcquireFromOthers(t) ==
    LET c == call[t].client
        expires == call[t].at + Ttl
    IN
    /\ call[t].op = "acquire"
    /\ call' = [call EXCEPT ![t] = Idle]
    /\ IF IsActiveLocked(call[t].at) /\ active.client = c
       THEN UNCHANGED <<has_active, active, next_id, told>>
       ELSE /\ has_active' = TRUE
            /\ active' = [id |-> next_id, client |-> c, expires |-> expires]
            /\ next_id' = next_id + 1
            /\ told' = [told EXCEPT ![c] = [id |-> next_id, until |-> expires]]
    /\ UNCHANGED now

\* The critical section of Acquire.
Acquire(t) ==
    LET c == call[t].client
        expires == call[t].at + Ttl
    IN
    /\ call[t].op = "acquire"
    /\ call' = [call EXCEPT ![t] = Idle]
    /\ IF IsActiveLocked(call[t].at)
       THEN UNCHANGED <<has_active, active, next_id, told>>
       ELSE /\ has_active' = TRUE
            /\ active' = [id |-> next_id, client |-> c, expires |-> expires]
            /\ next_id' = next_id + 1
            /\ told' = [told EXCEPT ![c] = [id |-> next_id, until |-> expires]]
    /\ UNCHANGED now

\* Mutant: the time to live is subtracted.
RenewBackwards(t) ==
    LET c == call[t].client
        expires == call[t].at - Ttl
    IN
    /\ call[t].op = "renew"
    /\ call' = [call EXCEPT ![t] = Idle]
    /\ IF IsActiveLocked(call[t].at) /\ Matches(call[t].id, c)
       THEN /\ active' = [active EXCEPT !.expires = expires]
            /\ told' = [told EXCEPT ![c] = [id |-> active.id, until |-> expires]]
       ELSE UNCHANGED <<active, told>>
    /\ UNCHANGED <<now, has_active, next_id>>

\* Mutant: the lease id is taken from the caller and not compared.
RenewIgnoringId(t) ==
    LET c == call[t].client
        expires == call[t].at + Ttl
    IN
    /\ call[t].op = "renew"
    /\ call' = [call EXCEPT ![t] = Idle]
    /\ IF IsActiveLocked(call[t].at) /\ active.client = c
       THEN /\ active' = [active EXCEPT !.expires = expires, !.id = call[t].id]
            /\ told' = [told EXCEPT ![c] = [id |-> call[t].id, until |-> expires]]
       ELSE UNCHANGED <<active, told>>
    /\ UNCHANGED <<now, has_active, next_id>>

\* The critical section of Renew.
Renew(t) ==
    LET c == call[t].client
        expires == call[t].at + Ttl
    IN
    /\ call[t].op = "renew"
    /\ call' = [call EXCEPT ![t] = Idle]
    /\ IF IsActiveLocked(call[t].at) /\ Matches(call[t].id, c)
       THEN /\ active' = [active EXCEPT !.expires = expires]
            /\ told' = [told EXCEPT ![c] = [id |-> active.id, until |-> expires]]
       ELSE UNCHANGED <<active, told>>
    /\ UNCHANGED <<now, has_active, next_id>>

\* Mutant: the lease id is not compared.
ReleaseByClient(c, id) ==
    /\ has_active /\ active.client = c
    /\ has_active' = FALSE
    /\ active' = EmptyLease
    /\ told' = [told EXCEPT ![c] = IF @.id = id THEN Nothing ELSE @]
    /\ UNCHANGED <<now, next_id, call>>

\* Mutant: the released lease keeps its id.
ReleaseKeepingLease(c, id) ==
    /\ has_active /\ Matches(id, c)
    /\ has_active' = FALSE
    /\ active' = [active EXCEPT !.client = NoClient]
    /\ told' = [told EXCEPT ![c] = Nothing]
    /\ UNCHANGED <<now, next_id, call>>

\* Release: one critical section, without looking at the expiry.
Release(c, id) ==
    /\ has_active /\ Matches(id, c)
    /\ has_active' = FALSE
    /\ active' = EmptyLease
    /\ told' = [told EXCEPT ![c] = Nothing]
    /\ UNCHANGED <<now, next_id, call>>

Tick == /\ now < MaxTime
        /\ now' = now + 1
        /\ UNCHANGED <<has_active, active, next_id, call, told>>

\* A client uses any lease id it may have been handed, also an old one.
Next == \/ \E t \in Threads, c \in Clients :
              \/ AcquireBegin(t, c)
              \/ \E id \in 1..(next_id - 1) : RenewBegin(t, c, id)
        \/ \E t \in Threads : Acquire(t) \/ Renew(t)
        \/ \E c \in Clients, id \in 1..(next_id - 1) : Release(c, id)
        \/ Tick

Spec == Init /\ [][Next]_vars
-----------------------------------------------------------------------------
\* Every variable keeps its type; expiry times and ids are naturals.
TypeOK == /\ now \in Nat
          /\ has_active \in BOOLEAN
          /\ active \in Leases
          /\ next_id \in Nat \ {0}
          /\ call \in [Threads -> Calls]
          /\ told \in [Clients -> [id : Nat, until : Nat]]

\* What a client was last told holds until the time it was told: its lease stays
\* valid, whatever late Acquire, Renew and Release calls of anyone do, unless it
\* gives the lease back itself.
PromiseKept ==
    \A c \in Clients : now < told[c].until => IsValid(told[c].id, c)

\* No two clients believe at the same time that they control the robot.
ExclusiveControl ==
    \A c, d \in Clients :
        now < told[c].until /\ now < told[d].until => c = d

\* Once the manager has dropped a lease, released by its holder or replaced by a
\* grant to another client, no late Acquire or Renew brings it back.
NoReturnToOldLease ==
    [][\A id \in 1..(next_id - 1), c \in Clients :
          ~(has_active /\ Matches(id, c)) => ~(has_active' /\ Matches(id, c)')]_vars

\* The clock-free contract, with the lease live while the clock is before expiry.
Contract == INSTANCE LeaseContract
            WITH holder <- active.client,
                 lease  <- active.id,
                 live   <- IsActiveLocked(now),
                 issued <- next_id - 1

ImplementsContract == Contract!LeaseSpec
=============================================================================
