------------------------------ MODULE TurnPorts ------------------------------
(***************************************************************************)
(* The relay ports of the TURN server: the pool of turn_ports.c and the    *)
(* relay threads that take ports from it in create_relay_ioa_sockets, bind *)
(* sockets to them and give them back in close_ioa_socket.                 *)
(*                                                                         *)
(* The pool is a ring of free ports between two counters that only grow;   *)
(* an entry is at its counter modulo PORTS_SIZE, and the status of a free  *)
(* port is the counter of its entry.  An odd port that is taken as the     *)
(* neighbour of an even one leaves its entry behind in the ring, stale.    *)
(*                                                                         *)
(* Every call of the pool runs under its mutex and is one action, but for  *)
(* turnports_allocate_even, whose loop is one action per iteration with    *)
(* the mutex held.  Between two calls the threads interleave.  One relay   *)
(* address and one transport are modelled.                                 *)
(***************************************************************************)
EXTENDS Integers, FiniteSets

CONSTANTS
    Threads,     \* relay threads
    PortsSize,   \* PORTS_SIZE: the number of 16-bit ports, and of ring slots
    Counters,    \* the number of values of the uint32_t counters
    RangeStart,  \* min-port
    RangeStop,   \* max-port
    EvenPorts    \* values of even_port clients ask for: -1, 0, 1

Relayed == RangeStart..RangeStop

ASSUME TurnPortsAssumption ==
    /\ "free" \notin Threads
    /\ PortsSize \in Nat \ {0}
    /\ Counters \in Nat /\ Counters % PortsSize = 0
    /\ RangeStart \in Nat
    /\ RangeStop \in RangeStart..(PortsSize - 1)
    /\ 2 * (RangeStop - RangeStart + 1) <= PortsSize
    /\ PortsSize + 4 < Counters
    /\ EvenPorts \subseteq {-1, 0, 1}

(* TPS_OUT_OF_RANGE and the three taken codes are counter values, too. *)
OutOfRange  == Counters - 1
TakenSingle == Counters - 2
TakenEven   == Counters - 3
TakenOdd    == Counters - 4
TakenCodes  == {TakenSingle, TakenEven, TakenOdd}

VARIABLES
    status,      \* status[p]: counter of p's entry, or a code
    low, high,   \* the counters
    ports,       \* the ring
    mutex,       \* the thread inside turnports_allocate_even, or "free"
    left,        \* iterations left to it
    pc,          \* where each thread stands in create_relay_ioa_sockets
    even,        \* its even_port
    port,        \* the port it has allocated
    sock,        \* sock[p]: the socket bound to p in the kernel
    wrapped,     \* history: a counter has reached the codes
    orphan       \* history: odd ports taken for nobody

pool      == <<status, low, high, ports>>
thread    == <<pc, even, port>>
history   == <<wrapped, orphan>>
portsVars == <<pool, mutex, left, thread, sock, history>>

Stages == {"idle", "allocate", "bindrtcp", "bind", "undortp", "undortcp",
           "closertcp", "undolast", "retry"}

PortsTypeOK ==
    /\ status \in [0..(PortsSize - 1) -> 0..(Counters - 1)]
    /\ low \in 0..(Counters - 1)
    /\ high \in 0..(Counters - 1)
    /\ ports \in [0..(PortsSize - 1) -> 0..(PortsSize - 1)]
    /\ mutex \in Threads \cup {"free"}
    /\ left \in 0..(PortsSize - 1)
    /\ pc \in [Threads -> Stages]
    /\ even \in [Threads -> {-1, 0, 1}]
    /\ port \in [Threads -> Relayed]
    /\ sock \in [Relayed -> {"none", "open", "relay", "rtcp", "closing"}]
    /\ wrapped \in BOOLEAN
    /\ orphan \in SUBSET Relayed

(* turnports_init: the entries of the range, put in random order. *)
PortsInit ==
    /\ low = RangeStart
    /\ high = RangeStop + 1
    /\ \E f, g \in [Relayed -> Relayed] :
          /\ \A p \in Relayed : g[f[p]] = p /\ f[g[p]] = p
          /\ status = [p \in 0..(PortsSize - 1) |-> IF p \in Relayed THEN f[p] ELSE OutOfRange]
          /\ ports = [x \in 0..(PortsSize - 1) |-> IF x \in Relayed THEN g[x] ELSE x]
    /\ mutex = "free"
    /\ left = 0
    /\ pc = [t \in Threads |-> "idle"]
    /\ even = [t \in Threads |-> -1]
    /\ port = [t \in Threads |-> RangeStart]
    /\ sock = [p \in Relayed |-> "none"]
    /\ wrapped = FALSE
    /\ orphan = {}

-----------------------------------------------------------------------------
(* The pool *)

Taken(p) == status[p] \in TakenCodes

(* Where turnports_allocate stops on its way from low: at an entry that is *)
(* not stale, or at one that is no port of the range.                      *)
Halts(x) ==
    LET p == ports[x % PortsSize] IN p \notin Relayed \/ status[p] = x

(* mutant: an entry that is stale ends the search. *)
FoundFirst(x, p) ==
    /\ x = low
    /\ x < high
    /\ p \in Relayed
    /\ p = ports[x % PortsSize]
    /\ status[p] = x

(* It hands out p, whose entry is the first to be met. *)
Found(x, p) ==
    /\ x \in low..(high - 1)
    /\ p \in Relayed
    /\ p = ports[x % PortsSize]
    /\ status[p] = x
    /\ \A y \in low..(x - 1) : ~Halts(y)

Exhausted == ~\E x \in low..(high - 1), p \in Relayed : Found(x, p)

(* Where low is left when there is nothing to hand out. *)
Scanned ==
    {l \in low..(IF high <= low THEN low ELSE high) :
        /\ \A y \in low..(l - 1) : ~Halts(y)
        /\ l < high => Halts(l)}

(* mutant: the slot is computed after the counter has grown. *)
ReleaseShifted(p, st) ==
    IF p \in Relayed /\ st[p] \in TakenCodes
    THEN /\ status' = [st EXCEPT ![p] = high]
         /\ ports' = [ports EXCEPT ![(high + 1) % PortsSize] = p]
         /\ high' = (high + 1) % Counters
         /\ wrapped' = (wrapped \/ high >= TakenOdd)
         /\ orphan' = orphan \ {p}
    ELSE /\ status' = st
         /\ UNCHANGED <<ports, high, wrapped, orphan>>

(* turnports_release of port p, with the statuses st: nothing for a port   *)
(* out of the range or not taken.                                          *)
Release(p, st) ==
    IF p \in Relayed /\ st[p] \in TakenCodes
    THEN /\ status' = [st EXCEPT ![p] = high]
         /\ ports' = [ports EXCEPT ![high % PortsSize] = p]
         /\ high' = (high + 1) % Counters
         /\ wrapped' = (wrapped \/ high >= TakenOdd)
         /\ orphan' = orphan \ {p}
    ELSE /\ status' = st
         /\ UNCHANGED <<ports, high, wrapped, orphan>>

(* mutant: any port of the range is available. *)
AvailableAny(p) == status[p] # OutOfRange

(* turnports_is_available *)
Available(p) ==
    /\ status[p] # OutOfRange
    /\ ~Taken(p)
    /\ ports[status[p] % PortsSize] = p

-----------------------------------------------------------------------------
(* create_relay_ioa_sockets *)

RequestPort(t, e) ==
    /\ pc[t] = "idle"
    /\ pc' = [pc EXCEPT ![t] = "allocate"]
    /\ even' = [even EXCEPT ![t] = e]
    /\ UNCHANGED <<pool, mutex, left, port, sock, history>>

(* turnports_allocate *)
AllocatePort(t) ==
    /\ pc[t] = "allocate"
    /\ even[t] = -1
    /\ mutex = "free"
    /\ \E x \in low..(high - 1), p \in Relayed :
          /\ Found(x, p)
          /\ status' = [status EXCEPT ![p] = TakenSingle]
          /\ low' = (x + 1) % Counters
          /\ port' = [port EXCEPT ![t] = p]
    /\ pc' = [pc EXCEPT ![t] = "bind"]
    /\ UNCHANGED <<high, ports, mutex, left, even, sock, history>>

AllocatePortRefused(t) ==
    /\ pc[t] = "allocate"
    /\ even[t] = -1
    /\ mutex = "free"
    /\ Exhausted
    /\ low' \in Scanned
    /\ pc' = [pc EXCEPT ![t] = "idle"]
    /\ UNCHANGED <<status, high, ports, mutex, left, even, port, sock, history>>

(* turnports_allocate_even: the loop runs (uint16_t)(high - low) times. *)
EvenBegin(t) ==
    /\ pc[t] = "allocate"
    /\ even[t] >= 0
    /\ mutex = "free"
    /\ (high - low) % PortsSize > 1
    /\ mutex' = t
    /\ left' = (high - low) % PortsSize
    /\ UNCHANGED <<pool, thread, sock, history>>

EvenTooFew(t) ==
    /\ pc[t] = "allocate"
    /\ even[t] >= 0
    /\ mutex = "free"
    /\ (high - low) % PortsSize <= 1
    /\ pc' = [pc EXCEPT ![t] = "idle"]
    /\ UNCHANGED <<pool, mutex, left, even, port, sock, history>>

Suitable(p) == p % 2 = 0 /\ p + 1 <= RangeStop /\ Available(p + 1)

(* Any other port goes back to the end of the ring. *)
EvenSkip(t) ==
    /\ mutex = t
    /\ left > 0
    /\ \E x \in low..(high - 1), p \in Relayed :
          /\ Found(x, p)
          /\ ~Suitable(p)
          /\ low' = (x + 1) % Counters
          /\ Release(p, [status EXCEPT ![p] = TakenSingle])
    /\ left' = left - 1
    /\ UNCHANGED <<mutex, thread, sock>>

(* turnports_allocate answers -1, whose last bit is set: the "odd" port    *)
(* (uint16_t)(-1) is released.                                             *)
EvenSkipNothing(t) ==
    /\ mutex = t
    /\ left > 0
    /\ Exhausted
    /\ low' \in Scanned
    /\ Release(PortsSize - 1, status)
    /\ left' = left - 1
    /\ UNCHANGED <<mutex, thread, sock>>

(* The pair is taken whatever allocate_rtcp says. *)
EvenFound(t) ==
    /\ mutex = t
    /\ left > 0
    /\ \E x \in low..(high - 1), p \in Relayed :
          /\ Found(x, p)
          /\ Suitable(p)
          /\ low' = (x + 1) % Counters
          /\ status' = [status EXCEPT ![p] = TakenEven, ![p + 1] = TakenOdd]
          /\ port' = [port EXCEPT ![t] = p]
          /\ orphan' = IF even[t] = 0 THEN orphan \cup {p + 1} ELSE orphan
    /\ pc' = [pc EXCEPT ![t] = IF even[t] = 1 THEN "bindrtcp" ELSE "bind"]
    /\ mutex' = "free"
    /\ left' = 0
    /\ UNCHANGED <<high, ports, even, sock, wrapped>>

EvenRefused(t) ==
    /\ mutex = t
    /\ left = 0
    /\ mutex' = "free"
    /\ pc' = [pc EXCEPT ![t] = "idle"]
    /\ UNCHANGED <<pool, left, even, port, sock, history>>
(* The rtcp socket is made and bound, on the way to the relay socket. *)
BindRtcp(t) ==
    /\ pc[t] = "bindrtcp"
    /\ sock[port[t] + 1] = "none"
    /\ sock' = [sock EXCEPT ![port[t] + 1] = "open"]
    /\ pc' = [pc EXCEPT ![t] = "bind"]
    /\ UNCHANGED <<pool, mutex, left, even, port, history>>

(* It cannot be made, or the kernel refuses the port (the server itself    *)
(* still has it open, or some other program has): both ports go back.      *)
BindRtcpFails(t) ==
    /\ pc[t] = "bindrtcp"
    /\ pc' = [pc EXCEPT ![t] = "undortp"]
    /\ UNCHANGED <<pool, mutex, left, even, port, sock, history>>

UndoRtp(t) ==
    /\ pc[t] = "undortp"
    /\ mutex = "free"
    /\ Release(port[t], status)
    /\ pc' = [pc EXCEPT ![t] = "undortcp"]
    /\ UNCHANGED <<low, mutex, left, even, port, sock>>

UndoRtcp(t) ==
    /\ pc[t] = "undortcp"
    /\ mutex = "free"
    /\ Release(port[t] + 1, status)
    /\ pc' = [pc EXCEPT ![t] = "retry"]
    /\ UNCHANGED <<low, mutex, left, even, port, sock>>

(* Success: the rtcp socket, if there is one, goes to the reservation map. *)
Bind(t) ==
    /\ pc[t] = "bind"
    /\ sock[port[t]] = "none"
    /\ sock' = [p \in Relayed |->
                  CASE p = port[t] -> "relay"
                    [] p = port[t] + 1 /\ even[t] = 1 -> "rtcp"
                    [] OTHER -> sock[p]]
    /\ pc' = [pc EXCEPT ![t] = "idle"]
    /\ UNCHANGED <<pool, mutex, left, even, port, history>>

BindFails(t) ==
    /\ pc[t] = "bind"
    /\ pc' = [pc EXCEPT ![t] = IF even[t] = 1 THEN "closertcp" ELSE "undolast"]
    /\ UNCHANGED <<pool, mutex, left, even, port, sock, history>>

(* close_ioa_socket of the bound rtcp socket, which releases its port. *)
CloseRtcp(t) ==
    /\ pc[t] = "closertcp"
    /\ mutex = "free"
    /\ Release(port[t] + 1, status)
    /\ sock' = [sock EXCEPT ![port[t] + 1] = "closing"]
    /\ pc' = [pc EXCEPT ![t] = "undolast"]
    /\ UNCHANGED <<low, mutex, left, even, port>>

(* mutant: the port of the socket that could not be bound is kept. *)
UndoLastNot(t) ==
    /\ pc[t] = "undolast"
    /\ mutex = "free"
    /\ pc' = [pc EXCEPT ![t] = "retry"]
    /\ UNCHANGED <<pool, mutex, left, even, port, sock, history>>

UndoLast(t) ==
    /\ pc[t] = "undolast"
    /\ mutex = "free"
    /\ Release(port[t], status)
    /\ pc' = [pc EXCEPT ![t] = "retry"]
    /\ UNCHANGED <<low, mutex, left, even, port, sock>>

(* The next of 0xFFFF attempts, or the call returns -1: the attempts are   *)
(* used up, or it was the socket that could not be made.                   *)
Retry(t) ==
    /\ pc[t] = "retry"
    /\ pc' \in {[pc EXCEPT ![t] = "allocate"], [pc EXCEPT ![t] = "idle"]}
    /\ UNCHANGED <<pool, mutex, left, even, port, sock, history>>

-----------------------------------------------------------------------------
(* The sockets *)

(* close_ioa_socket: the port is back in the pool before the descriptor is *)
(* closed.                                                                 *)
CloseSocket(p) ==
    /\ mutex = "free"
    /\ Release(p, status)
    /\ sock' = [sock EXCEPT ![p] = "closing"]
    /\ UNCHANGED <<low, mutex, left, thread>>

Close(p) == sock[p] = "relay" /\ CloseSocket(p)

(* rtcp_map_timeout_handler: nobody has brought the token back in time.    *)
ReservationTimeout(p) == sock[p] = "rtcp" /\ CloseSocket(p)

CloseFd(p) ==
    /\ sock[p] = "closing"
    /\ sock' = [sock EXCEPT ![p] = "none"]
    /\ UNCHANGED <<pool, mutex, left, thread, history>>

(* get_ioa_socket_from_reservation: a client brings the token back. *)
ClaimReserved(p) ==
    /\ sock[p] = "rtcp"
    /\ sock' = [sock EXCEPT ![p] = "relay"]
    /\ UNCHANGED <<pool, mutex, left, thread, history>>

PortsNext ==
    \/ \E t \in Threads :
          \/ \E e \in EvenPorts : RequestPort(t, e)
          \/ AllocatePort(t) \/ AllocatePortRefused(t)
          \/ EvenBegin(t) \/ EvenTooFew(t) \/ EvenSkip(t) \/ EvenSkipNothing(t)
          \/ EvenFound(t) \/ EvenRefused(t)
          \/ BindRtcp(t) \/ BindRtcpFails(t) \/ UndoRtp(t) \/ UndoRtcp(t)
          \/ Bind(t) \/ BindFails(t) \/ CloseRtcp(t) \/ UndoLast(t) \/ Retry(t)
    \/ \E p \in Relayed : Close(p) \/ ReservationTimeout(p) \/ CloseFd(p) \/ ClaimReserved(p)

PortsSpec == PortsInit /\ [][PortsNext]_portsVars

-----------------------------------------------------------------------------
(* The properties *)

(* The thread has taken p and neither bound it nor given it back. *)
Holds(t, p) ==
    \/ pc[t] \in {"bindrtcp", "bind", "undortp", "closertcp", "undolast"} /\ p = port[t]
    \/ pc[t] \in {"bindrtcp", "undortp", "undortcp"} /\ p = port[t] + 1
    \/ pc[t] \in {"bind", "closertcp"} /\ even[t] = 1 /\ p = port[t] + 1

Bound(p) == sock[p] \in {"relay", "rtcp"}

(* Every port of the range that is not taken can still be handed out: its  *)
(* entry is in the ring, at the counter its status names.                  *)
RingSound ==
    wrapped \/ \A p \in Relayed :
        ~Taken(p) => /\ status[p] \in low..(high - 1)
                     /\ ports[status[p] % PortsSize] = p

(* The entries between the two counters fit into the ring, the stale ones  *)
(* included: turnports_release never writes over an entry that counts.     *)
RingFits == wrapped \/ high - low \in 0..(PortsSize - 1)

(* A port some thread works with, or some socket is bound to, is taken in  *)
(* the pool: no other client can be given it.  Port 65535 is excepted, for *)
(* turnports_allocate_even releases the port -1 whoever has it.            *)
HeldTaken ==
    wrapped \/ \A p \in Relayed \ {PortsSize - 1} :
        (\E t \in Threads : Holds(t, p)) \/ Bound(p) => Taken(p)

(* A port has one owner: two threads never work with the same port, nor a  *)
(* thread with one that is bound for somebody else.                        *)
OneOwner ==
    wrapped \/ \A p \in Relayed \ {PortsSize - 1} :
        /\ \A t, u \in Threads : Holds(t, p) /\ Holds(u, p) => t = u
        /\ \A t \in Threads : Holds(t, p) => ~Bound(p)

(* No port leaks: a taken port is in somebody's hands, but for the odd     *)
(* neighbours taken on behalf of clients that asked for no reservation.    *)
NoLeak ==
    wrapped \/ \A p \in Relayed : Taken(p) => (\E t \in Threads : Holds(t, p)) \/ Bound(p) \/ p \in orphan

(* turnports_allocate refuses only when every port of the range is taken.  *)
RefusedOnlyWhenFull ==
    [][\A t \in Threads : AllocatePortRefused(t) => wrapped \/ \A p \in Relayed : Taken(p)]_portsVars
=============================================================================
