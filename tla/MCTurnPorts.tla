----------------------------- MODULE MCTurnPorts -----------------------------
(* Small pools for TLC. *)
EXTENDS TurnPorts, TLC

CONSTANTS
    Releases,   \* how often a port is put back into the ring at most
    t1, t2

AnyEven == {-1, 0, 1}
Symmetry == Permutations(Threads)

(* Which entry comes first makes no difference to what can be reached in   *)
(* several rounds.                                                         *)
MCInit == PortsInit /\ status[RangeStart] = RangeStart

MCNext == PortsNext /\ high' <= RangeStop + 1 + Releases

MCSpec == MCInit /\ [][MCNext]_portsVars
=============================================================================
