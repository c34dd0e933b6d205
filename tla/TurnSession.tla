----------------------------- MODULE TurnSession -----------------------------
(***************************************************************************)
(* One client's session of the TURN server: its allocation with a relay    *)
(* socket per address family, the permissions and channels it installs,    *)
(* the timers that end each of them, and the datagrams that pass           *)
(* (ns_turn_server.c, ns_turn_allocation.c).                               *)
(*                                                                         *)
(* A session lives in one relay thread: a request, a datagram or a timer   *)
(* runs to its end before the next.  A timer is the time it has left, Off  *)
(* when it is not set; at 0 it is due, and datagrams and requests may      *)
(* still be handled before it fires, within the second.  The requests are  *)
(* authenticated ones; those that are refused without any effect, and      *)
(* datagrams that are dropped, leave the state as it is and are no steps.  *)
(* Mobility, TCP relaying and memory exhaustion are left out, and          *)
(* server_relay is off.                                                    *)
(***************************************************************************)
EXTENDS Integers, FiniteSets

CONSTANTS
    Hosts,               \* peer addresses without the port
    HostFamily,          \* the family of each
    Denied,              \* the hosts good_peer_addr refuses
    Ports,               \* peer ports
    Channels,            \* channel numbers
    Tids,                \* transaction ids of Allocate requests
    Requested,           \* values of the LIFETIME attribute; 0: left out
    SessionTimes,        \* values of max_session_time_auth: the time an OAuth
                         \*   token has left; 0: no such limit
    ExternalIp,          \* the family of external_ip, "none" if it is not set
    PermissionLifetime, ChannelLifetime,
    DefaultLifetime,     \* STUN_DEFAULT_ALLOCATE_LIFETIME
    MinLifetime,         \* STUN_MIN_ALLOCATE_LIFETIME
    MaxLifetime,         \* max_allocate_lifetime
    AllocateTimeout,     \* TURN_MAX_ALLOCATE_TIMEOUT
    NoTid, NoChannel, NoPeer

Families == {"v4", "v6"}

Addresses == Hosts \X ({0} \cup Ports)

ASSUME TurnSessionAssumption ==
    /\ HostFamily \in [Hosts -> Families]
    /\ Denied \subseteq Hosts
    /\ Ports \subseteq Nat \ {0}
    /\ Requested \subseteq Nat
    /\ SessionTimes \subseteq Nat
    /\ ExternalIp \in Families \cup {"none"}
    /\ PermissionLifetime \in Nat \ {0}
    /\ ChannelLifetime \in Nat
    /\ PermissionLifetime <= ChannelLifetime
    /\ DefaultLifetime \in Nat \ {0}
    /\ MinLifetime \in Nat \ {0}
    /\ MaxLifetime \in Nat
    /\ DefaultLifetime <= MaxLifetime
    /\ MinLifetime <= MaxLifetime
    /\ AllocateTimeout \in Nat \ {0}
    /\ NoTid \notin Tids
    /\ NoChannel \notin Channels
    /\ NoPeer \notin Addresses

Off == -1            \* of a timer: not set

VARIABLES
    open,      \* the session exists
    quota,     \* quota_used
    bps,       \* bandwidth is reserved for it
    watchdog,  \* to_be_allocated_timeout_ev
    valid,     \* is_valid
    tid,       \* the transaction that made the allocation
    relay,     \* relay[f]: lifetime of the relay socket, Off: no socket
    failed,    \* relay_sessions_failure
    perm,      \* perm[h]: lifetime of the permission for h
    peer,      \* peer[c]: the address channel c is bound to (a->chns)
    chan,      \* chan[c]: its lifetime
    chns,      \* chns[a]: the channel of a, kept in the permission of a
    answer,    \* the success answer of the last step about the allocation
    wire       \* the datagram relayed by the last step

account == <<open, quota, bps, watchdog>>
alloc   == <<valid, tid, relay, failed>>
bound   == <<peer, chan, chns>>
vars    == <<account, alloc, perm, bound, answer, wire>>

None == [kind |-> "none"]

Due(n) == {Off} \cup 0..n

TypeOK ==
    /\ open \in BOOLEAN /\ quota \in BOOLEAN /\ bps \in BOOLEAN
    /\ watchdog \in Due(AllocateTimeout)
    /\ valid \in BOOLEAN
    /\ tid \in Tids \cup {NoTid}
    /\ relay \in [Families -> Due(MaxLifetime)]
    /\ failed \in SUBSET Families
    /\ perm \in [Hosts -> Due(ChannelLifetime)]
    /\ peer \in [Channels -> Addresses \cup {NoPeer}]
    /\ chan \in [Channels -> Due(ChannelLifetime)]
    /\ chns \in [Addresses -> Channels \cup {NoChannel}]
    /\ answer \in {None} \cup
         [kind : {"allocate", "again", "refresh"}, life : 0..MaxLifetime,
          told : SUBSET Families]
    /\ wire \in {None} \cup
         [kind : {"peer", "client"}, addr : Addresses,
          via : Channels \cup {NoChannel}]

Init ==
    /\ open = FALSE /\ quota = FALSE /\ bps = FALSE
    /\ watchdog = Off
    /\ valid = FALSE
    /\ tid = NoTid
    /\ relay = [f \in Families |-> Off]
    /\ failed = {}
    /\ perm = [h \in Hosts |-> Off]
    /\ peer = [c \in Channels |-> NoPeer]
    /\ chan = [c \in Channels |-> Off]
    /\ chns = [a \in Addresses |-> NoChannel]
    /\ answer = None
    /\ wire = None

Family(a) == HostFamily[a[1]]

Silent == answer' = None /\ wire' = None

(* The families whose relayed address an Allocate answer can name: the     *)
(* others read as 0.0.0.0:0, or are left out.                              *)
Named == {f \in Families : relay[f] # Off /\ f \notin failed}
-----------------------------------------------------------------------------
(* open_client_connection_session, create_new_ss: a first message.         *)
OpenSession ==
    /\ ~open
    /\ open' = TRUE
    /\ watchdog' = AllocateTimeout
    /\ Silent
    /\ UNCHANGED <<quota, bps, alloc, perm, bound>>

(* mutant: the quota is not given back *)
AccountClosedKeeps ==
    /\ open' = FALSE /\ bps' = FALSE
    /\ watchdog' = Off
    /\ UNCHANGED quota

(* shutdown_client_connection: dec_quota and dec_bps first. *)
AccountClosed ==
    /\ open' = FALSE /\ quota' = FALSE /\ bps' = FALSE
    /\ watchdog' = Off

(* clear_allocation, and the memory of the session is gone. *)
AllocationCleared ==
    /\ valid' = FALSE
    /\ tid' = NoTid
    /\ relay' = [f \in Families |-> Off]
    /\ failed' = {}
    /\ perm' = [h \in Hosts |-> Off]
    /\ peer' = [c \in Channels |-> NoPeer]
    /\ chan' = [c \in Channels |-> Off]
    /\ chns' = [a \in Addresses |-> NoChannel]

Shutdown ==
    /\ AccountClosed
    /\ AllocationCleared
    /\ Silent

(* The client's socket is closed or fails, or the session is cancelled.    *)
ClientGone ==
    /\ open
    /\ Shutdown
-----------------------------------------------------------------------------
(* stun_adjust_allocate_lifetime: l = 0 stands for no attribute, m is the  *)
(* time the token has left.                                                *)
Granted(l) ==
    IF l = 0 THEN DefaultLifetime
    ELSE IF l < MinLifetime THEN MinLifetime
    ELSE IF l > MaxLifetime THEN MaxLifetime
    ELSE l

Adjusted(l, m) == IF m # 0 /\ m < Granted(l) THEN m ELSE Granted(l)

(* handle_turn_allocate up to inc_quota: 486 leaves nothing behind.        *)
(* Past it the quota is taken, and stays taken whatever follows.           *)
Admitted == open /\ ~valid /\ quota' = TRUE

(* The bandwidth asked for is reserved, if it is not yet. *)
Bandwidth == bps' \in {bps, TRUE}

(* Past the quota: bandwidth exhausted, draining, or two families behind   *)
(* an external address.                                                    *)
AllocateRefused ==
    /\ Admitted
    /\ Bandwidth
    /\ <<quota, bps>>' # <<quota, bps>>
    /\ Silent
    /\ UNCHANGED <<open, watchdog, alloc, perm, bound>>

(* create_relay_connection for each family of fams; it succeeds for got.   *)
(* A socket held in reserve counts as created for the family asked for.    *)
RelaysCreated(fams, got, life) ==
    /\ relay' = [f \in Families |-> IF f \in got THEN life
                                    ELSE IF f \in fams THEN Off ELSE relay[f]]
    /\ failed' = failed \cup (fams \ got)

(* No relay socket can be created. *)
AllocateFailed(fams) ==
    /\ Admitted
    /\ Bandwidth
    /\ fams # {} /\ ~(ExternalIp # "none" /\ fams = Families)
    /\ RelaysCreated(fams, {}, Off)
    /\ Silent
    /\ UNCHANGED <<open, watchdog, valid, tid, perm, bound>>

Allocate(t, fams, got, l, m) ==
    /\ Admitted
    /\ Bandwidth
    /\ ~(ExternalIp # "none" /\ fams = Families)
    /\ got # {} /\ got \subseteq fams
    /\ RelaysCreated(fams, got, Adjusted(l, m))
    /\ valid' = TRUE
    /\ tid' = t
    /\ answer' = [kind |-> "allocate", life |-> Adjusted(l, m),
                  told |-> Named']
    /\ wire' = None
    /\ UNCHANGED <<open, watchdog, perm, bound>>

(* The family of the address an answer names for a relay socket of f. *)
ToldFamily(f) == IF ExternalIp # "none" THEN ExternalIp ELSE f

(* The lifetime a repeated request is told: that of the family of the      *)
(* first address in the answer, where an address left empty by a failure   *)
(* counts as v4.  It is the time left as an unsigned number: 0 reads as    *)
(* the default, and that of a socket that is not there (expiration_time 0  *)
(* or in the past) wraps and is cut to the maximum.                        *)
FirstFamily ==
    IF "v4" \in failed THEN "v4"
    ELSE IF relay["v4"] # Off THEN ToldFamily("v4")
    ELSE IF "v6" \in failed THEN "v4"
    ELSE ToldFamily("v6")

(* mutant: the lifetime is the one first granted *)
LifeToldFirst(f) == DefaultLifetime

LifeTold(f) ==
    IF relay[f] = 0 THEN DefaultLifetime
    ELSE IF relay[f] = Off THEN MaxLifetime
    ELSE relay[f]

(* The request of the allocation once more: the answer was lost. *)
AllocateAgain ==
    /\ valid
    /\ answer' = [kind |-> "again", life |-> LifeTold(FirstFamily),
                  told |-> Named]
    /\ wire' = None
    /\ UNCHANGED <<account, alloc, perm, bound>>

(* handle_turn_refresh, refresh_relay_connection: fams are the families    *)
(* the request names, if any; a lifetime of 0 lets the sockets run for a   *)
(* second more.                                                            *)
RelayedFamilies == {f \in Families : relay[f] # Off}

Refreshed(fams) == IF fams = {} THEN RelayedFamilies ELSE fams

RefreshTimer(life) == IF life < 1 THEN 1 ELSE life

Refresh(fams, life) ==
    /\ valid
    /\ fams \subseteq RelayedFamilies
    /\ relay' = [f \in Families |-> IF f \in Refreshed(fams)
                                    THEN RefreshTimer(life) ELSE relay[f]]
    /\ answer' = [kind |-> "refresh", life |-> life, told |-> {}]
    /\ wire' = None
    /\ UNCHANGED <<account, valid, tid, failed, perm, bound>>
-----------------------------------------------------------------------------
(* get_turn_channel for port 0: no channel is ever bound to it. *)
ChannelOf(h) == chns[<<h, 0>>]

(* handle_turn_create_permission: all hosts of the request or none;        *)
(* update_permission with the port set to 0.                               *)
CreatePermission(H) ==
    /\ valid
    /\ H # {}
    /\ \A h \in H : relay[HostFamily[h]] # Off /\ h \notin Denied
    /\ perm' = [h \in Hosts |->
                  IF h \notin H THEN perm[h]
                  ELSE IF ChannelOf(h) = NoChannel THEN PermissionLifetime
                  ELSE ChannelLifetime]
    /\ chan' = [c \in Channels |-> IF \E h \in H : ChannelOf(h) = c
                                   THEN ChannelLifetime ELSE chan[c]]
    /\ Silent
    /\ UNCHANGED <<account, alloc, peer, chns>>

(* mutant: the lists of hosts are not asked *)
MayBindDenied(c, a) ==
    \/ peer[c] = a
    \/ peer[c] = NoPeer /\ (perm[a[1]] = Off \/ chns[a] = NoChannel)

(* handle_turn_channel_bind: a binding is refreshed as it is; a new one    *)
(* needs a free number, an address without a channel and a host that is    *)
(* not denied.                                                             *)
MayBind(c, a) ==
    \/ peer[c] = a
    \/ /\ peer[c] = NoPeer
       /\ perm[a[1]] = Off \/ chns[a] = NoChannel
       /\ a[1] \notin Denied

(* allocation_get_new_ch_info, update_channel_lifetime: the permission of  *)
(* the host is made if it is missing and runs as long as the channel.      *)
ChannelBind(c, a) ==
    /\ valid
    /\ relay[Family(a)] # Off
    /\ a[2] >= 1
    /\ MayBind(c, a)
    /\ peer' = [peer EXCEPT ![c] = a]
    /\ chns' = IF peer[c] = a THEN chns ELSE [chns EXCEPT ![a] = c]
    /\ chan' = [chan EXCEPT ![c] = ChannelLifetime]
    /\ perm' = [perm EXCEPT ![a[1]] = ChannelLifetime]
    /\ Silent
    /\ UNCHANGED <<account, alloc>>
-----------------------------------------------------------------------------
(* mutant: a host without a permission is served *)
SendIndicationAny(a) ==
    /\ valid
    /\ relay[Family(a)] # Off
    /\ wire' = [kind |-> "peer", addr |-> a, via |-> NoChannel]
    /\ answer' = None
    /\ UNCHANGED <<account, alloc, perm, bound>>

(* handle_turn_send *)
SendIndication(a) ==
    /\ valid
    /\ perm[a[1]] # Off
    /\ relay[Family(a)] # Off
    /\ wire' = [kind |-> "peer", addr |-> a, via |-> NoChannel]
    /\ answer' = None
    /\ UNCHANGED <<account, alloc, perm, bound>>

(* write_to_peerchannel: the channel alone is looked up. *)
ChannelData(c) ==
    /\ valid
    /\ peer[c] # NoPeer
    /\ relay[Family(peer[c])] # Off
    /\ wire' = [kind |-> "peer", addr |-> peer[c], via |-> c]
    /\ answer' = None
    /\ UNCHANGED <<account, alloc, perm, bound>>

(* peer_input_handler *)
PeerData(a) ==
    /\ valid
    /\ relay[Family(a)] # Off
    /\ perm[a[1]] # Off
    /\ wire' = [kind |-> "client", addr |-> a, via |-> chns[a]]
    /\ answer' = None
    /\ UNCHANGED <<account, alloc, perm, bound>>
-----------------------------------------------------------------------------
(* turn_permission_clean: the permission takes its channels with it. *)
PermissionClean(h) ==
    LET gone == {chns[a] : a \in {h} \X ({0} \cup Ports)} IN
    /\ perm' = [perm EXCEPT ![h] = Off]
    /\ peer' = [c \in Channels |-> IF c \in gone THEN NoPeer ELSE peer[c]]
    /\ chan' = [c \in Channels |-> IF c \in gone THEN Off ELSE chan[c]]
    /\ chns' = [a \in Addresses |-> IF a[1] = h THEN NoChannel ELSE chns[a]]

(* client_ss_perm_timeout_handler *)
PermissionTimeout(h) ==
    /\ perm[h] = 0
    /\ PermissionClean(h)
    /\ Silent
    /\ UNCHANGED <<account, alloc>>

(* turn_channel_delete *)
ChannelDelete(c) ==
    /\ chns' = [chns EXCEPT ![peer[c]] = NoChannel]
    /\ peer' = [peer EXCEPT ![c] = NoPeer]
    /\ chan' = [chan EXCEPT ![c] = Off]

(* client_ss_channel_timeout_handler *)
ChannelTimeout(c) ==
    /\ chan[c] = 0
    /\ ChannelDelete(c)
    /\ Silent
    /\ UNCHANGED <<account, alloc, perm>>

(* client_ss_allocation_timeout_handler, set_allocation_family_invalid:    *)
(* the permissions and channels of the family stay; the last socket ends   *)
(* the session.                                                            *)
AllocationTimeout(f) ==
    /\ relay[f] = 0
    /\ IF RelayedFamilies = {f}
       THEN Shutdown
       ELSE /\ relay' = [relay EXCEPT ![f] = Off]
            /\ Silent
            /\ UNCHANGED <<account, valid, tid, failed, perm, bound>>

(* mutant: the watchdog does not look at the sockets *)
WatchdogBlind ==
    /\ watchdog = 0
    /\ watchdog' = AllocateTimeout
    /\ Silent
    /\ UNCHANGED <<open, quota, bps, alloc, perm, bound>>

(* client_to_be_allocated_timeout_handler, a periodic timer. *)
Watchdog ==
    /\ watchdog = 0
    /\ IF RelayedFamilies = {}
       THEN Shutdown
       ELSE /\ watchdog' = AllocateTimeout
            /\ Silent
            /\ UNCHANGED <<open, quota, bps, alloc, perm, bound>>

Less(n) == IF n = Off THEN Off ELSE n - 1

(* A second passes: what was due has fired. *)
Tick ==
    /\ open
    /\ watchdog # 0
    /\ \A f \in Families : relay[f] # 0
    /\ \A h \in Hosts : perm[h] # 0
    /\ \A c \in Channels : chan[c] # 0
    /\ watchdog' = Less(watchdog)
    /\ relay' = [f \in Families |-> Less(relay[f])]
    /\ perm' = [h \in Hosts |-> Less(perm[h])]
    /\ chan' = [c \in Channels |-> Less(chan[c])]
    /\ Silent
    /\ UNCHANGED <<open, quota, bps, valid, tid, failed, peer, chns>>
-----------------------------------------------------------------------------
Timer ==
    \/ Watchdog
    \/ \E f \in Families : AllocationTimeout(f)
    \/ \E h \in Hosts : PermissionTimeout(h)
    \/ \E c \in Channels : ChannelTimeout(c)

Request ==
    \/ AllocateRefused
    \/ \E fams \in SUBSET Families :
         \/ AllocateFailed(fams)
         \/ \E l \in Requested, m \in SessionTimes :
              \/ \E t \in Tids, got \in SUBSET Families :
                   Allocate(t, fams, got, l, m)
              \/ Refresh(fams, Adjusted(l, m))
         \/ Refresh(fams, 0)
    \/ AllocateAgain
    \/ \E H \in SUBSET Hosts : CreatePermission(H)
    \/ \E c \in Channels, a \in Addresses : ChannelBind(c, a)

Datagram ==
    \/ \E a \in Addresses : SendIndication(a) \/ PeerData(a)
    \/ \E c \in Channels : ChannelData(c)

Next == OpenSession \/ ClientGone \/ Request \/ Datagram \/ Timer \/ Tick

Spec == Init /\ [][Next]_vars

(* Timers are served: the event loop runs what is due, and time passes.    *)
LiveSpec == Spec /\ WF_vars(Timer) /\ WF_vars(Tick)
-----------------------------------------------------------------------------
(* The two maps of channels agree: channel c is bound to address a in the  *)
(* allocation (a->chns) exactly when a leads to c in the permission of its *)
(* host (tinfo->chns).  So no address has two channels and no channel two  *)
(* addresses, whatever binds, refreshes and timeouts came before.          *)
ChannelsPaired ==
    \A c \in Channels, a \in Addresses : peer[c] = a <=> chns[a] = c

(* No channel outlives its permission: chn->owner of a bound channel is a  *)
(* permission in use, and a timer runs for the channel.                    *)
ChannelsCovered ==
    \A c \in Channels : peer[c] # NoPeer => /\ perm[peer[c][1]] # Off
                                            /\ chan[c] # Off

(* A datagram is relayed only from or to a host with a permission, also    *)
(* when only the channel was looked up (write_to_peerchannel), and under a *)
(* channel number only if that channel is bound to its address.            *)
TrafficCovered ==
    wire # None =>
      /\ perm[wire.addr[1]] # Off
      /\ wire.addr[1] \notin Denied
      /\ wire.via # NoChannel => peer[wire.via] = wire.addr

(* A session that is closed has given back its quota and bandwidth, and    *)
(* without a valid allocation there is no relay socket, permission or      *)
(* channel left whose timer could fire into freed memory.                  *)
NothingLeftBehind ==
    /\ ~open => ~valid /\ ~quota /\ ~bps /\ watchdog = Off
    /\ ~valid => /\ \A f \in Families : relay[f] = Off
                 /\ \A h \in Hosts : perm[h] = Off
                 /\ \A c \in Channels : peer[c] = NoPeer /\ chan[c] = Off

(* A valid allocation has a relay socket with a running timer and holds    *)
(* its quota: there is no allocation that never ends or is not counted.    *)
AllocationCounted ==
    valid => open /\ quota /\ watchdog # Off /\ RelayedFamilies # {}

(* The lifetime told in an Allocate answer, the repeated one too, is the   *)
(* time some socket it names has left, and the first socket it names is    *)
(* there.  Not so when a family has failed, when the external address is   *)
(* of the family that has no socket, or when the first socket is due: see  *)
(* FirstFamily and LifeTold.                                               *)
AnswerHolds ==
    /\ answer.kind \in {"allocate", "again"}
    /\ failed = {}
    /\ ExternalIp \in RelayedFamilies \cup {"none"}
    /\ relay[FirstFamily] # 0
    => /\ FirstFamily \in RelayedFamilies
       /\ \E f \in answer.told : relay[f] = answer.life

(* A permission is neither ended before its time nor cut below what        *)
(* CreatePermission grants, while the session lasts.                       *)
PermissionHonoured ==
    [][\A h \in Hosts :
         perm[h] > 0 /\ open' =>
           /\ perm'[h] # Off
           /\ perm'[h] < perm[h] - 1 => perm'[h] >= PermissionLifetime]_vars

(* Nothing is held for ever.  A quota taken by requests that made no       *)
(* allocation comes back: the session gets an allocation or the watchdog   *)
(* ends it.  And the session of a client that is heard no more ends.       *)
WatchdogEnds ==
    /\ (quota /\ ~valid) ~> (valid \/ ~quota)
    /\ <>[][Timer \/ Tick]_vars => <>[]~open

(* The session keeps the promise of TurnLease. *)
Lease == INSTANCE TurnLease WITH
    Allowed   <- Hosts \ Denied,
    Durations <- {PermissionLifetime, ChannelLifetime},
    live      <- valid,
    lease     <- perm,
    passing   <- IF wire = None THEN {} ELSE {wire.addr[1]}

LeaseSpec == Lease!Spec

-----------------------------------------------------------------------------
(* What the documentation says and the code does not keep.  TLC refutes    *)
(* the statements below; the README gives the behaviours.                  *)

(* "Set the lifetime for channel binding, default to 600 secs."            *)
(* (README.turnserver:314): a binding whose time is not up is not undone   *)
(* while the session lasts.                                                *)
ChannelHonoured ==
    [][\A c \in Channels :
         chan[c] > 0 /\ open' => peer'[c] = peer[c]]_vars

(* A success answer to Allocate carries a relayed address that is not      *)
(* 0.0.0.0:0: the test client gives up without one ("relay addr cannot be  *)
(* received (2)", startuclient.c:521).                                     *)
AddressTold == answer.kind \in {"allocate", "again"} => answer.told # {}
=============================================================================
