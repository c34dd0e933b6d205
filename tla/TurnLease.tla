------------------------------ MODULE TurnLease ------------------------------
(***************************************************************************)
(* What a TURN session promises about the traffic it relays, without the   *)
(* means: while an allocation is live its client holds leases on hosts,    *)
(* and a datagram passes between the client and a host only during a       *)
(* lease.  A lease runs for the time the client was last granted, nothing  *)
(* but a grant makes it longer, and only hosts the server's lists allow    *)
(* are granted.  TurnSession implements this module.                       *)
(***************************************************************************)
EXTENDS Integers

CONSTANTS
    Hosts,      \* addresses of peers, without the port
    Allowed,    \* the hosts a client may be granted
    Durations   \* the times of a grant

Off == -1       \* no lease

VARIABLES
    live,       \* the client has an allocation
    lease,      \* lease[h]: time left, or Off
    passing     \* the hosts of the datagram relayed by the last step

vars == <<live, lease, passing>>

NoLeases == [h \in Hosts |-> Off]

Init ==
    /\ live = FALSE
    /\ lease = NoLeases
    /\ passing = {}

(* A step of the session that concerns no lease. *)
Quiet ==
    /\ passing' = {}
    /\ UNCHANGED <<live, lease>>

Start ==
    /\ live' = TRUE
    /\ passing' = {}
    /\ UNCHANGED lease

Grant(H, d) ==
    /\ live
    /\ H \subseteq Allowed
    /\ lease' = [h \in Hosts |-> IF h \in H THEN d ELSE lease[h]]
    /\ passing' = {}
    /\ UNCHANGED live

Forward(h) ==
    /\ live
    /\ lease[h] # Off
    /\ passing' = {h}
    /\ UNCHANGED <<live, lease>>

Pass ==
    /\ \A h \in Hosts : lease[h] # 0
    /\ lease' = [h \in Hosts |-> IF lease[h] = Off THEN Off ELSE lease[h] - 1]
    /\ passing' = {}
    /\ UNCHANGED live

Lapse(h) ==
    /\ lease[h] = 0
    /\ lease' = [lease EXCEPT ![h] = Off]
    /\ passing' = {}
    /\ UNCHANGED live

End ==
    /\ live' = FALSE
    /\ lease' = NoLeases
    /\ passing' = {}

Next ==
    \/ Quiet
    \/ Start
    \/ \E H \in SUBSET Hosts, d \in Durations : Grant(H, d)
    \/ \E h \in Hosts : Forward(h) \/ Lapse(h)
    \/ Pass
    \/ End

Spec == Init /\ [][Next]_vars
=============================================================================
