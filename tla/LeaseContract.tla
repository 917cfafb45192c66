--------------------------- MODULE LeaseContract ----------------------------
(***************************************************************************)
(* What the control lease manager promises, without clocks: at most one    *)
(* lease exists, it is live or lapsed, a live one is never taken away, and *)
(* every grant has a fresh number.  ControlLease implements this, and the  *)
(* command executor is specified on top of it.                             *)
(***************************************************************************)
EXTENDS Naturals

CONSTANTS Clients, NoClient

ASSUME NoClientAssumption == NoClient \notin Clients

VARIABLES holder,   \* client of the lease in the manager, or NoClient
          lease,    \* its number, 0 when there is none
          live,     \* the lease has not expired
          issued    \* number of leases granted so far

leaseVars == <<holder, lease, live, issued>>

LeaseInit == /\ holder = NoClient
             /\ lease = 0
             /\ live = FALSE
             /\ issued = 0

\* A new grant needs that no lease is live.  A grant whose request was delayed
\* for longer than the time to live lapses before it is handed out.
Grant(c) == /\ ~live
            /\ holder' = c
            /\ issued' = issued + 1
            /\ lease' = issued'
            /\ live' \in BOOLEAN

\* A renewal by the holder.  One that read the clock before the expiry and got
\* the lock after it makes a lapsed lease live again.
Extend(l, c) == /\ lease # 0 /\ lease = l /\ holder = c
                /\ live' \in BOOLEAN
                /\ UNCHANGED <<holder, lease, issued>>

\* The holder gives the lease back, expired or not.
Return(l, c) == /\ lease # 0 /\ lease = l /\ holder = c
                /\ holder' = NoClient
                /\ lease' = 0
                /\ live' = FALSE
                /\ UNCHANGED issued

\* The time to live runs out.
Lapse == /\ live
         /\ live' = FALSE
         /\ UNCHANGED <<holder, lease, issued>>

IsValid(l, c) == live /\ lease = l /\ holder = c

LeaseNext == \/ \E c \in Clients : Grant(c)
             \/ \E l \in 1..issued, c \in Clients : Extend(l, c) \/ Return(l, c)
             \/ Lapse

LeaseSpec == LeaseInit /\ [][LeaseNext]_leaseVars
=============================================================================
