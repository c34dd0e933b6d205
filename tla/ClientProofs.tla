----------------------------- MODULE ClientProofs ----------------------------
(***************************************************************************)
(* Proofs about the client.  The chat of one browser, for any channels,    *)
(* messages, sockets and size of a snapshot: its types, and that no        *)
(* message is missed without a reason.  The voice panel, for any number of *)
(* calls, rooms and mounts: its types, and that nobody is left behind in a *)
(* room.                                                                   *)
(***************************************************************************)
EXTENDS Chat, Voice, TLAPS

(* A socket is known to the gateway only while its connection is open, and *)
(* the sockets still to be made have none.                                 *)
LinksKept ==
    /\ socket <= made
    /\ \A s \in Sockets : /\ s > made => link[s] = "none"
                          /\ user[s] # "none" => link[s] = "open"

(* A running join belongs to an attached user, who is in the room once the *)
(* first await is over.                                                    *)
HandlersAttached ==
    \A j \in joins : /\ user[j.sock] = "set"
                     /\ j.pc # "find" => j.chan \in rooms[j.sock]

(* No more timers than calls of selectChannel. *)
TimersCounted == \A c \in Channels : retry[c] <= picks

(* Putting list in the place of what is shown loses none of the newest     *)
(* messages but those NeverMissed leaves out.                              *)
Covers(c, list) ==
    \A m \in ToSet(Newest(c)) :
      \/ m \in ToSet(list)
      \/ m \in risky \/ m \in unheard \/ m \in revived

(* So it is with every snapshot on its way. *)
SnapshotsCover ==
    /\ \A j \in joins : j.pc = "emit" => Covers(j.chan, j.list)
    /\ \A e \in Incoming : e.kind = "ready" => Covers(e.chan, e.list)

(* The inductive invariant. *)
IInv ==
    /\ TypeOK
    /\ LinksKept
    /\ HandlersAttached
    /\ TimersCounted
    /\ SnapshotsCover
    /\ NeverMissed
-----------------------------------------------------------------------------
(* What a packet that is added, or taken from the front, does to the set   *)
(* of packets under way.                                                   *)
LEMMA ToSetAppend ==
    ASSUME NEW S, NEW q \in Seq(S), NEW e \in S
    PROVE  /\ Append(q, e) \in Seq(S)
           /\ ToSet(Append(q, e)) = ToSet(q) \cup {e}
  <1>1. /\ Append(q, e) \in Seq(S)
        /\ DOMAIN q = 1..Len(q) /\ Len(q) \in Nat
        /\ DOMAIN Append(q, e) = 1..(Len(q) + 1)
        /\ \A i \in 1..Len(q) : Append(q, e)[i] = q[i]
        /\ Append(q, e)[Len(q) + 1] = e
    OBVIOUS
  <1>2. \A i \in 1..(Len(q) + 1) : i = Len(q) + 1 \/ i \in 1..Len(q)
    BY <1>1
  <1>3. /\ Len(q) + 1 \in 1..(Len(q) + 1)
        /\ \A i \in 1..Len(q) : i \in 1..(Len(q) + 1)
    BY <1>1
  <1> HIDE DEF ToSet
  <1>4. \A x : x \in ToSet(Append(q, e)) <=> x \in ToSet(q) \cup {e}
    BY <1>1, <1>2, <1>3 DEF ToSet
  <1> QED BY <1>1, <1>4

LEMMA ToSetFront ==
    ASSUME NEW S, NEW q \in Seq(S), q # <<>>
    PROVE  /\ Head(q) \in S
           /\ Tail(q) \in Seq(S)
           /\ Head(q) \in ToSet(q)
           /\ ToSet(Tail(q)) \subseteq ToSet(q)
           /\ \A x \in ToSet(q) : x = Head(q) \/ x \in ToSet(Tail(q))
  <1>1. /\ DOMAIN q = 1..Len(q) /\ Len(q) \in Nat /\ Len(q) >= 1
        /\ Head(q) = q[1]
        /\ Tail(q) \in Seq(S)
        /\ DOMAIN Tail(q) = 1..(Len(q) - 1)
        /\ \A i \in 1..(Len(q) - 1) : Tail(q)[i] = q[i + 1]
    OBVIOUS
  <1>2. \A i \in 1..Len(q) : i = 1 \/ i - 1 \in 1..(Len(q) - 1)
    BY <1>1
  <1>3. \A i \in 1..(Len(q) - 1) : i + 1 \in 1..Len(q)
    BY <1>1
  <1>4. Head(q) \in S /\ Head(q) \in ToSet(q)
    BY <1>1 DEF ToSet
  <1>5. ToSet(Tail(q)) \subseteq ToSet(q)
    BY <1>1, <1>3 DEF ToSet
  <1>6. ASSUME NEW x \in ToSet(q)
        PROVE  x = Head(q) \/ x \in ToSet(Tail(q))
    <2>1. PICK i \in 1..Len(q) : x = q[i]
      BY <1>1, <1>6 DEF ToSet
    <2>2. CASE i = 1
      BY <1>1, <2>1, <2>2
    <2>3. CASE i - 1 \in 1..(Len(q) - 1)
      <3>1. Tail(q)[i - 1] = q[i]
        BY <1>1, <2>1, <2>3
      <3> QED BY <1>1, <2>1, <2>3, <3>1 DEF ToSet
    <2> QED BY <1>2, <2>1, <2>2, <2>3
  <1> QED BY <1>1, <1>4, <1>5, <1>6

LEMMA ToSetType ==
    ASSUME NEW S, NEW q \in Seq(S)
    PROVE  ToSet(q) \subseteq S
  BY DEF ToSet

LEMMA ToSetEmpty == ToSet(<<>>) = {}
  BY DEF ToSet

(* The last of a list are some of it. *)
LEMMA LastOfType ==
    ASSUME NEW S, NEW q \in Seq(S)
    PROVE  /\ LastOf(q) \in Seq(S)
           /\ ToSet(LastOf(q)) \subseteq ToSet(q)
  <1>1. Len(q) \in Nat /\ DOMAIN q = 1..Len(q)
    OBVIOUS
  <1>2. Limit \in Nat /\ Limit >= 1
    BY ChatAssumption
  <1>3. CASE Len(q) <= Limit
    BY <1>1, <1>3 DEF LastOf
  <1>4. CASE Len(q) > Limit
    <2> DEFINE a == Len(q) - Limit + 1
               w == SubSeq(q, a, Len(q))
    <2>1. LastOf(q) = w
      <3>1. ~(Len(q) <= Limit)
        BY <1>1, <1>2, <1>4
      <3> QED BY <3>1, Zenon DEF LastOf
    <2>2. /\ a \in 1..Len(q)
          /\ \A i \in a..Len(q) : i \in 1..Len(q)
      BY <1>1, <1>2, <1>4
    <2> HIDE DEF a
    <2>3. /\ w \in Seq(S)
          /\ DOMAIN w = 1..(Len(q) - a + 1)
          /\ \A i \in 1..(Len(q) - a + 1) : w[i] = q[a + i - 1]
      BY <1>1, <2>2
    <2>4. \A i \in 1..(Len(q) - a + 1) : a + i - 1 \in 1..Len(q)
      BY <1>1, <2>2
    <2> HIDE DEF w
    <2>5. ToSet(w) \subseteq ToSet(q)
      BY <1>1, <2>3, <2>4 DEF ToSet
    <2> QED BY <2>1, <2>3, <2>5
  <1> QED BY <1>1, <1>2, <1>3, <1>4

(* The newest messages are saved ones. *)
LEMMA NewestType ==
    ASSUME TypeOK, NEW c \in Channels
    PROVE  /\ Newest(c) \in Seq(Messages)
           /\ ToSet(Newest(c)) \subseteq ToSet(saved[c])
  BY LastOfType DEF Newest, TypeOK

LEMMA RemoveAtType ==
    ASSUME NEW S, NEW q \in Seq(S), NEW i \in DOMAIN q
    PROVE  RemoveAt(q, i) \in Seq(S) /\ q[i] \in S
  <1>1. /\ DOMAIN q = 1..Len(q) /\ Len(q) \in Nat
        /\ i - 1 \in 0..Len(q) /\ i + 1 \in 1..(Len(q) + 1)
        /\ q[i] \in S
    OBVIOUS
  <1>2. SubSeq(q, 1, i - 1) \in Seq(S) /\ SubSeq(q, i + 1, Len(q)) \in Seq(S)
    BY <1>1
  <1> QED BY <1>1, <1>2 DEF RemoveAt

(* A message that is saved joins the newest ones; none that was not among  *)
(* them comes back.                                                        *)
LEMMA NewestGrows ==
    ASSUME TypeOK, NEW c \in Channels, NEW d \in Channels, NEW m \in Messages,
           saved' = [saved EXCEPT ![d] = Append(@, m)]
    PROVE  \A x \in ToSet(Newest(c))' :
             x \in ToSet(Newest(c)) \/ (c = d /\ x = m)
  <1>1. CASE c # d
    BY <1>1 DEF Newest, LastOf, TypeOK, ToSet
  <1>2. CASE c = d
    <2> DEFINE q == saved[c]
               r == Append(q, m)
               n == Len(q)
    <2>1. q \in Seq(Messages) /\ n \in Nat /\ DOMAIN q = 1..n
      BY DEF TypeOK
    <2>2. saved'[c] = r
      BY <1>2 DEF TypeOK
    <2> HIDE DEF q
    <2>3. /\ Len(r) = n + 1 /\ DOMAIN r = 1..(n + 1)
          /\ r \in Seq(Messages)
          /\ \A i \in 1..n : r[i] = q[i]
          /\ r[n + 1] = m
      BY <2>1
    <2>4. Limit \in Nat /\ Limit >= 1
      BY ChatAssumption
    <2> HIDE DEF n, r
    <2>5. ASSUME NEW i \in 1..(n + 1), i > n + 1 - Limit
          PROVE  r[i] \in ToSet(Newest(c)) \/ r[i] = m
      <3>1. CASE i = n + 1
        BY <2>3, <3>1
      <3>2. CASE i \in 1..n
        <4>1. CASE n <= Limit
          BY <2>1, <2>3, <3>2, <4>1 DEF Newest, LastOf, ToSet, q, n
        <4>2. CASE n > Limit
          <5> DEFINE a == n - Limit + 1
                     w == SubSeq(q, a, n)
          <5>1. a \in 1..n /\ i >= a
            BY <2>1, <2>4, <2>5, <3>2, <4>2
          <5>2. Newest(c) = w
            BY <2>1, <2>4, <4>2 DEF Newest, LastOf, q, n
          <5> HIDE DEF a
          <5>3. /\ DOMAIN w = 1..(n - a + 1)
                /\ \A k \in 1..(n - a + 1) : w[k] = q[a + k - 1]
            BY <2>1, <5>1 DEF n
          <5>4. i - a + 1 \in 1..(n - a + 1) /\ a + (i - a + 1) - 1 = i
            BY <2>1, <3>2, <5>1
          <5> HIDE DEF w
          <5>5. w[i - a + 1] = q[i]
            BY <5>3, <5>4
          <5> QED BY <2>3, <3>2, <5>2, <5>3, <5>4, <5>5 DEF ToSet
        <4> QED BY <2>1, <2>4, <4>1, <4>2
      <3> QED BY <2>1, <3>1, <3>2
    <2>6. ASSUME NEW x \in ToSet(Newest(c))'
          PROVE  \E i \in 1..(n + 1) : i > n + 1 - Limit /\ x = r[i]
      <3>1. CASE n + 1 <= Limit
        <4>1. Newest(c)' = r
          BY <2>2, <2>3, <3>1 DEF Newest, LastOf
        <4>2. PICK i \in 1..(n + 1) : x = r[i]
          BY <2>3, <2>6, <4>1 DEF ToSet
        <4> QED BY <2>1, <2>4, <3>1, <4>2
      <3>2. CASE n + 1 > Limit
        <4> DEFINE a == n + 1 - Limit + 1
                   w == SubSeq(r, a, n + 1)
        <4>1. a \in 1..(n + 1)
          BY <2>1, <2>4, <3>2
        <4>2. Newest(c)' = w
          <5>1. Len(saved'[c]) = n + 1 /\ ~(Len(saved'[c]) <= Limit)
            BY <2>1, <2>2, <2>3, <2>4, <3>2
          <5>2. Newest(c)' = SubSeq(saved'[c], Len(saved'[c]) - Limit + 1,
                                    Len(saved'[c]))
            BY <5>1, Zenon DEF Newest, LastOf
          <5>3. Len(saved'[c]) - Limit + 1 = a
            BY <2>1, <2>4, <5>1
          <5> HIDE DEF a
          <5> QED BY <2>2, <5>1, <5>2, <5>3
        <4>3. a > n + 1 - Limit
          BY <2>1, <2>4
        <4> HIDE DEF a
        <4>4. /\ DOMAIN w = 1..(n + 1 - a + 1)
              /\ \A k \in 1..(n + 1 - a + 1) : w[k] = r[a + k - 1]
          BY <2>1, <2>3, <4>1
        <4> HIDE DEF w
        <4>5. PICK k \in 1..(n + 1 - a + 1) : x = w[k]
          BY <2>6, <4>2, <4>4 DEF ToSet
        <4>6. a + k - 1 \in 1..(n + 1) /\ a + k - 1 > n + 1 - Limit
          BY <2>1, <2>4, <4>1, <4>3, <4>5
        <4> QED BY <4>4, <4>5, <4>6
      <3> QED BY <2>1, <2>4, <3>1, <3>2
    <2> QED BY <1>2, <2>5, <2>6
  <1> QED BY <1>1, <1>2
-----------------------------------------------------------------------------
(* The sets of packets and messages, element by element. *)
LEMMA IncomingIs ==
    /\ \A e : e \in Incoming <=> \E s \in Sockets : e \in ToSet(inbox[s])
    /\ \A e : e \in Incoming' <=> \E s \in Sockets : e \in ToSet(inbox'[s])
  BY DEF Incoming

LEMMA IncomingType ==
    ASSUME TypeOK
    PROVE  Incoming \subseteq Events
  <1>1. \A s \in Sockets : ToSet(inbox[s]) \subseteq Events
    BY ToSetType DEF TypeOK
  <1> QED BY <1>1, IncomingIs

LEMMA SavedType ==
    ASSUME TypeOK
    PROVE  /\ AllSaved \subseteq Messages
           /\ \A c \in Channels : ToSet(saved[c]) \subseteq AllSaved
  <1>1. \A c \in Channels : ToSet(saved[c]) \subseteq Messages
    BY ToSetType DEF TypeOK
  <1> QED BY <1>1 DEF AllSaved

(* A handler of channel:join, field by field. *)
LEMMA JoinFields ==
    ASSUME TypeOK, NEW j \in joins
    PROVE  /\ j.sock \in Sockets /\ j.chan \in Channels
           /\ j.pc \in {"find", "read", "emit"}
           /\ j.list \in Seq(Messages)
           /\ j = [sock |-> j.sock, chan |-> j.chan, pc |-> j.pc,
                   list |-> j.list]
  BY DEF TypeOK, Handlers
-----------------------------------------------------------------------------
(* Types. *)
LEMMA ConnectsType ==
    ASSUME TypeOK, NEW n \in {1, 2}, Connects(n)
    PROVE  /\ made' \in 0..MaxSockets /\ socket' \in 0..MaxSockets
           /\ link' \in [Sockets -> {"none", "opening", "open", "down",
                                     "closed"}]
  BY ChatAssumption DEF TypeOK, Connects

LEMMA DroppedType ==
    ASSUME TypeOK, NEW S \in SUBSET Sockets, NEW l \in {"down", "closed"},
           Dropped(S, l),
           auth' \in BOOLEAN, connected' \in BOOLEAN, connecting' \in BOOLEAN,
           socket' \in 0..MaxSockets, losses' \in 0..MaxLosses,
           UNCHANGED <<made, selected, retry, store, view, picks, risky,
                       revived, readied>>
    PROVE  TypeOK'
  <1>1. /\ link' \in [Sockets -> {"none", "opening", "open", "down", "closed"}]
        /\ user' \in [Sockets -> {"none", "checking", "set"}]
        /\ rooms' \in [Sockets -> SUBSET Channels]
        /\ joins' \subseteq joins
    BY DEF TypeOK, Dropped
  <1>2. /\ outbox' \in [Sockets -> Seq(Channels)]
        /\ inbox' \in [Sockets -> Seq(Events)]
    <2>1. <<>> \in Seq(Channels) /\ <<>> \in Seq(Events)
      OBVIOUS
    <2> QED BY <2>1 DEF TypeOK, Dropped
  <1>3. unheard' \subseteq Messages
    BY SavedType DEF TypeOK, Dropped
  <1> QED BY <1>1, <1>2, <1>3 DEF TypeOK, store

(* The socket that signing out closes, if there is one. *)
LEMMA OwnSocket ==
    ASSUME TypeOK
    PROVE  {socket} \ {0} \in SUBSET Sockets
  BY ChatAssumption DEF TypeOK, Sockets

LEMMA ClientType ==
    ASSUME TypeOK, TimersCounted, Client
    PROVE  TypeOK'
  <1>1. CASE SignIn
    <2>1. PICK n \in {1, 2} : Connects(n)
      BY <1>1 DEF SignIn
    <2> QED
      BY <1>1, <2>1, ConnectsType DEF TypeOK, SignIn, server, store, history
  <1>2. CASE Mount
    <2>1. Connects(1)
      BY <1>2 DEF Mount
    <2> QED
      BY <1>2, <2>1, ConnectsType DEF TypeOK, Mount, server, store, history
  <1>3. CASE SignOut
    <2>1. Dropped({socket} \ {0}, "closed")
      BY <1>3 DEF SignOut
    <2>2. socket' \in 0..MaxSockets /\ losses' \in 0..MaxLosses
      BY <1>3, ChatAssumption DEF SignOut, TypeOK
    <2> QED
      BY <1>3, <2>1, <2>2, DroppedType, OwnSocket DEF TypeOK, SignOut
  <1>4. ASSUME NEW c \in Channels, Select(c)
        PROVE  TypeOK'
    <2>1. outbox' \in [Sockets -> Seq(Channels)]
      <3>1. CASE IsConnected
        <4>1. socket \in Sockets
          BY <3>1, ChatAssumption DEF IsConnected, TypeOK, Sockets
        <4>2. Append(outbox[socket], c) \in Seq(Channels)
          BY <4>1, ToSetAppend DEF TypeOK
        <4> QED BY <1>4, <3>1, <4>1, <4>2 DEF Select, TypeOK
      <3> QED BY <1>4, <3>1 DEF Select, TypeOK
    <2>2. picks' \in 0..MaxPicks
      BY <1>4, ChatAssumption DEF Select, TypeOK
    <2>3. retry' \in [Channels -> 0..MaxPicks]
      <3>1. retry[c] \in Nat /\ picks \in Nat /\ retry[c] <= picks
        BY ChatAssumption DEF TypeOK, TimersCounted
      <3>2. picks < MaxPicks
        BY <1>4 DEF Select
      <3>3. retry[c] + 1 \in 0..MaxPicks
        BY <3>1, <3>2, ChatAssumption
      <3>4. retry' = retry \/ retry' = [retry EXCEPT ![c] = retry[c] + 1]
        BY <1>4 DEF Select
      <3> QED BY <3>3, <3>4 DEF TypeOK
    <2> QED
      BY <1>4, <2>1, <2>2, <2>3 DEF Select, TypeOK, tab, server, store
  <1>5. ASSUME NEW c \in Channels, Retry(c)
        PROVE  TypeOK'
    <2>1. socket \in Sockets
      BY <1>5, ChatAssumption DEF Retry, IsConnected, TypeOK, Sockets
    <2>2. Append(outbox[socket], c) \in Seq(Channels)
      BY <2>1, ToSetAppend DEF TypeOK
    <2>3. outbox' \in [Sockets -> Seq(Channels)]
      BY <1>5, <2>1, <2>2 DEF Retry, TypeOK
    <2>4. retry' \in [Channels -> 0..MaxPicks]
      BY <1>5, ChatAssumption DEF Retry, TypeOK
    <2> QED
      BY <1>5, <2>3, <2>4 DEF Retry, TypeOK, tab, server, store, history
  <1>6. ASSUME NEW s \in Sockets, Deliver(s)
        PROVE  TypeOK'
    <2> DEFINE e == Head(inbox[s])
    <2>1. inbox[s] \in Seq(Events) /\ inbox[s] # <<>>
      BY <1>6 DEF Deliver, TypeOK
    <2>2. e \in Events /\ Tail(inbox[s]) \in Seq(Events)
      BY <2>1, ToSetFront
    <2>3. inbox' \in [Sockets -> Seq(Events)]
      BY <1>6, <2>2 DEF Deliver, TypeOK
    <2>4. view' = Applied(e)
      BY <1>6 DEF Deliver
    <2>5. readied' \in BOOLEAN
      BY <1>6 DEF Deliver
    <2> HIDE DEF e
    <2>6. view' \in [Channels -> Seq(Messages)]
      <3>1. CASE e.kind = "ready"
        <4>1. e.chan \in Channels /\ e.list \in Seq(Messages)
          BY <2>2, <3>1 DEF Events
        <4> QED BY <2>4, <3>1, <4>1 DEF Applied, TypeOK
      <3>2. CASE e.kind # "ready"
        <4>1. e.chan \in Channels /\ e.msg \in Messages
          BY <2>2, <3>2 DEF Events
        <4>2. Append(view[e.chan], e.msg) \in Seq(Messages)
          BY <4>1, ToSetAppend DEF TypeOK
        <4> QED BY <2>4, <3>2, <4>1, <4>2 DEF Applied, TypeOK
      <3> QED BY <3>1, <3>2
    <2> QED
      BY <1>6, <2>3, <2>5, <2>6 DEF Deliver, TypeOK, tab, server, store
  <1> QED BY <1>1, <1>2, <1>3, <1>4, <1>5, <1>6 DEF Client

LEMMA NetworkType ==
    ASSUME TypeOK, Network
    PROVE  TypeOK'
  <1>1. ASSUME NEW s \in Sockets, Open(s)
        PROVE  TypeOK'
    BY <1>1 DEF TypeOK, Open, store, history
  <1>2. ASSUME NEW s \in Sockets, Lose(s)
        PROVE  TypeOK'
    <2>1. losses' \in 0..MaxLosses
      BY <1>2, ChatAssumption DEF TypeOK, Lose
    <2>2. {s} \in SUBSET Sockets
      OBVIOUS
    <2>3. Dropped({s}, "down")
      BY <1>2 DEF Lose
    <2> QED BY <1>2, <2>1, <2>2, <2>3, DroppedType DEF TypeOK, Lose
  <1>3. ASSUME NEW s \in Sockets, GiveUp(s)
        PROVE  TypeOK'
    BY <1>3 DEF TypeOK, GiveUp, tab, server, store, history
  <1> QED BY <1>1, <1>2, <1>3 DEF Network

LEMMA JoinType ==
    ASSUME TypeOK, NEW j \in joins,
           JoinRoom(j) \/ ReadHistory(j) \/ EmitReady(j) \/ JoinFails(j)
    PROVE  TypeOK'
  <1> USE JoinFields
  <1>1. CASE JoinRoom(j)
    <2>1. [j EXCEPT !.pc = "read"] \in Handlers
      BY DEF Handlers
    <2>2. rooms' \in [Sockets -> SUBSET Channels]
      BY <1>1 DEF JoinRoom, TypeOK
    <2> QED
      BY <1>1, <2>1, <2>2 DEF JoinRoom, TypeOK, tab, store, history
  <1>2. CASE ReadHistory(j)
    <2>1. [j EXCEPT !.pc = "emit", !.list = Newest(j.chan)] \in Handlers
      <3>1. Newest(j.chan) \in Seq(Messages)
        BY NewestType
      <3>2. j \in Handlers
        BY DEF TypeOK
      <3> HIDE JoinFields
      <3> QED BY <3>1, <3>2 DEF Handlers
    <2> QED BY <1>2, <2>1 DEF ReadHistory, TypeOK, tab, store, history
  <1>3. CASE EmitReady(j)
    <2>1. Ready(j.chan, j.list) \in Events
      BY DEF Ready, Events
    <2>2. Append(inbox[j.sock], Ready(j.chan, j.list)) \in Seq(Events)
      BY <2>1, ToSetAppend DEF TypeOK
    <2>3. inbox' \in [Sockets -> Seq(Events)]
      BY <1>3, <2>2 DEF EmitReady, TypeOK
    <2> QED BY <1>3, <2>3 DEF EmitReady, TypeOK, tab, store, history
  <1>4. CASE JoinFails(j)
    <2>1. ToSet(saved[j.chan]) \subseteq Messages
      BY ToSetType DEF TypeOK
    <2> QED BY <1>4, <2>1 DEF JoinFails, TypeOK, tab, store
  <1> QED BY <1>1, <1>2, <1>3, <1>4

LEMMA DeleteType ==
    ASSUME TypeOK, NEW c \in Channels, NEW i \in DOMAIN saved[c], Delete(c, i)
    PROVE  TypeOK'
  <1> DEFINE list == RemoveAt(saved[c], i)
  <1>1. saved[c] \in Seq(Messages)
    BY DEF TypeOK
  <1>2. list \in Seq(Messages) /\ saved[c][i] \in Messages
    BY <1>1, RemoveAtType
  <1>3. /\ saved' = [saved EXCEPT ![c] = list]
        /\ deleted' = deleted \cup {saved[c][i]}
        /\ revived' \subseteq revived \cup ToSet(LastOf(list))
    BY DEF Delete
  <1> HIDE DEF list
  <1>4. ToSet(LastOf(list)) \subseteq Messages
    BY <1>2, LastOfType, ToSetType
  <1>5. saved' \in [Channels -> Seq(Messages)]
    BY <1>2, <1>3 DEF TypeOK
  <1> QED
    BY <1>2, <1>3, <1>4, <1>5 DEF Delete, TypeOK, tab, server

LEMMA MessageType ==
    ASSUME TypeOK, NEW c \in Channels, NEW m \in Messages,
           Save(c, m) \/ SaveRest(c, m) \/ Emit(c, m)
    PROVE  TypeOK'
  <1>1. ASSUME saved' = [saved EXCEPT ![c] = Append(@, m)]
        PROVE  saved' \in [Channels -> Seq(Messages)]
    <2>1. Append(saved[c], m) \in Seq(Messages)
      BY ToSetAppend DEF TypeOK
    <2> QED BY <1>1, <2>1 DEF TypeOK
  <1>2. CASE Save(c, m)
    BY <1>1, <1>2 DEF Save, TypeOK, tab, server
  <1>3. CASE SaveRest(c, m)
    BY <1>1, <1>3 DEF SaveRest, TypeOK, tab, server
  <1>4. CASE Emit(c, m)
    <2>1. New(c, m) \in Events
      BY DEF New, Events
    <2>2. \A s \in Sockets : Append(inbox[s], New(c, m)) \in Seq(Events)
      BY <2>1, ToSetAppend DEF TypeOK
    <2>3. inbox' \in [Sockets -> Seq(Events)]
      BY <1>4, <2>2 DEF Emit, TypeOK
    <2> QED BY <1>4, <2>3 DEF Emit, TypeOK, tab, server
  <1> QED BY <1>2, <1>3, <1>4

LEMMA ServerType ==
    ASSUME TypeOK, Server
    PROVE  TypeOK'
  <1>1. ASSUME NEW s \in Sockets, Attach(s)
        PROVE  TypeOK'
    BY <1>1 DEF TypeOK, Attach, tab, store, history
  <1>2. ASSUME NEW s \in Sockets, Reject(s)
        PROVE  TypeOK'
    <2>1. {s} \in SUBSET Sockets /\ Dropped({s}, "closed")
      BY <1>2 DEF Reject
    <2> QED BY <1>2, <2>1, DroppedType DEF TypeOK, Reject
  <1>3. ASSUME NEW s \in Sockets, ReceiveJoin(s)
        PROVE  TypeOK'
    <2> DEFINE c == Head(outbox[s])
    <2>1. outbox[s] \in Seq(Channels) /\ outbox[s] # <<>>
      BY <1>3 DEF ReceiveJoin, TypeOK
    <2>2. c \in Channels /\ Tail(outbox[s]) \in Seq(Channels)
      BY <2>1, ToSetFront
    <2>3. outbox' \in [Sockets -> Seq(Channels)]
      BY <1>3, <2>2 DEF ReceiveJoin, TypeOK
    <2>4. \/ joins' = joins
          \/ joins' = joins \cup {[sock |-> s, chan |-> c, pc |-> "find",
                                   list |-> <<>>]}
      BY <1>3 DEF ReceiveJoin
    <2> HIDE DEF c
    <2>5. <<>> \in Seq(Messages)
      OBVIOUS
    <2>6. [sock |-> s, chan |-> c, pc |-> "find", list |-> <<>>] \in Handlers
      BY <2>2, <2>5 DEF Handlers
    <2>7. joins' \subseteq Handlers
      BY <2>4, <2>6 DEF TypeOK
    <2> QED
      BY <1>3, <2>3, <2>7 DEF ReceiveJoin, TypeOK, tab, store, history
  <1> QED BY <1>1, <1>2, <1>3, JoinType, MessageType, DeleteType DEF Server

LEMMA TypeStep ==
    ASSUME TypeOK, TimersCounted, [Next]_vars
    PROVE  TypeOK'
  <1>1. CASE UNCHANGED vars
    BY <1>1 DEF vars, TypeOK, tab, server, store, history
  <1> QED BY <1>1, ClientType, NetworkType, ServerType DEF Next
-----------------------------------------------------------------------------
(* Connections and handlers. *)
LEMMA ConnectsLinks ==
    ASSUME TypeOK, LinksKept, NEW n \in {1, 2}, Connects(n), user' = user
    PROVE  LinksKept'
  <1>1. made \in Nat /\ made' = made + n /\ socket' = made'
    BY ChatAssumption DEF TypeOK, Connects
  <1>2. ASSUME NEW s \in Sockets
        PROVE  /\ s > made' => link'[s] = "none"
               /\ user'[s] # "none" => link'[s] = "open"
    <2>1. s \in Nat
      BY ChatAssumption DEF Sockets
    <2>2. s > made' => s > made /\ ~(s <= made + n)
      BY <1>1, <2>1
    <2> QED BY <1>1, <2>2 DEF Connects, LinksKept
  <1> QED BY <1>1, <1>2 DEF LinksKept

LEMMA DroppedLinks ==
    ASSUME TypeOK, LinksKept, HandlersAttached,
           NEW S \in SUBSET Sockets, NEW l, Dropped(S, l),
           \A s \in S : s <= made,
           made' = made, socket' \in {0, socket}
    PROVE  LinksKept' /\ HandlersAttached'
  <1>1. LinksKept'
    <2>1. socket' <= made'
      BY ChatAssumption DEF LinksKept, TypeOK
    <2>2. ASSUME NEW s \in Sockets
          PROVE  /\ s > made' => link'[s] = "none"
                 /\ user'[s] # "none" => link'[s] = "open"
      <3>1. s > made => s \notin S
        BY ChatAssumption DEF TypeOK, Sockets
      <3> QED BY <3>1 DEF Dropped, LinksKept
    <2> QED BY <2>1, <2>2 DEF LinksKept
  <1>2. HandlersAttached'
    BY JoinFields DEF Dropped, HandlersAttached
  <1> QED BY <1>1, <1>2

LEMMA AlreadyMade ==
    ASSUME TypeOK, LinksKept, NEW s \in Sockets, link[s] # "none"
    PROVE  s <= made
  BY ChatAssumption DEF TypeOK, LinksKept, Sockets

LEMMA JoinLinks ==
    ASSUME TypeOK, LinksKept, HandlersAttached,
           NEW j \in joins,
           JoinRoom(j) \/ ReadHistory(j) \/ EmitReady(j) \/ JoinFails(j)
    PROVE  LinksKept' /\ HandlersAttached'
  <1>1. LinksKept'
    BY DEF JoinRoom, ReadHistory, EmitReady, JoinFails, LinksKept, tab
  <1>2. j \in Handlers /\ j.sock \in Sockets /\ j.chan \in Channels
    BY JoinFields DEF TypeOK
  <1>3. CASE JoinRoom(j)
    <2> DEFINE k == [j EXCEPT !.pc = "read"]
    <2>1. k.sock = j.sock /\ k.chan = j.chan
      BY <1>2 DEF Handlers
    <2>2. joins' \subseteq joins \cup {k}
      BY <1>3 DEF JoinRoom
    <2> HIDE DEF k
    <2>3. \A i \in joins : rooms[i.sock] \subseteq rooms'[i.sock]
      BY <1>3, JoinFields DEF JoinRoom, TypeOK
    <2>4. j.chan \in rooms'[j.sock] /\ user' = user
      BY <1>2, <1>3 DEF JoinRoom, TypeOK
    <2>5. ASSUME NEW i \in joins'
          PROVE  \/ user'[i.sock] = "set" /\ i.chan \in rooms'[i.sock]
                 \/ i \in joins
      BY <2>1, <2>2, <2>4 DEF HandlersAttached
    <2> QED BY <1>1, <2>3, <2>4, <2>5 DEF HandlersAttached
  <1>4. CASE ReadHistory(j)
    <2> DEFINE k == [j EXCEPT !.pc = "emit", !.list = Newest(j.chan)]
    <2>1. k.sock = j.sock /\ k.chan = j.chan
      BY <1>2 DEF Handlers
    <2>2. joins' \subseteq joins \cup {k} /\ j.pc = "read"
      BY <1>4 DEF ReadHistory
    <2> HIDE DEF k
    <2>3. rooms' = rooms /\ user' = user
      BY <1>4 DEF ReadHistory
    <2>4. ASSUME NEW i \in joins'
          PROVE  \/ user'[i.sock] = "set" /\ i.chan \in rooms'[i.sock]
                 \/ i \in joins
      BY <2>1, <2>2, <2>3 DEF HandlersAttached
    <2> QED BY <1>1, <2>3, <2>4 DEF HandlersAttached
  <1>5. CASE EmitReady(j) \/ JoinFails(j)
    <2>1. joins' \subseteq joins /\ rooms' = rooms /\ user' = user
      BY <1>5 DEF EmitReady, JoinFails
    <2> QED BY <1>1, <2>1 DEF HandlersAttached
  <1> QED BY <1>1, <1>3, <1>4, <1>5

LEMMA LinksStep ==
    ASSUME TypeOK, LinksKept, HandlersAttached, [Next]_vars
    PROVE  LinksKept' /\ HandlersAttached'
  <1> USE DEF LinksKept, HandlersAttached
  <1>1. CASE UNCHANGED vars
    BY <1>1 DEF vars, tab, server
  <1>2. CASE SignIn
    <2>1. PICK n \in {1, 2} : Connects(n)
      BY <1>2 DEF SignIn
    <2> QED BY <1>2, <2>1, ConnectsLinks DEF SignIn, server
  <1>3. CASE Mount
    BY <1>3, ConnectsLinks DEF Mount, server
  <1>4. CASE SignOut
    <2>1. Dropped({socket} \ {0}, "closed")
      BY <1>4 DEF SignOut
    <2> QED BY <1>4, <2>1, DroppedLinks, OwnSocket DEF SignOut
  <1>5. ASSUME NEW c \in Channels, Select(c) \/ Retry(c)
        PROVE  LinksKept' /\ HandlersAttached'
    BY <1>5 DEF Select, Retry, tab, server
  <1>6. ASSUME NEW s \in Sockets, Deliver(s)
        PROVE  LinksKept' /\ HandlersAttached'
    BY <1>6 DEF Deliver, tab, server
  <1>7. ASSUME NEW s \in Sockets, Open(s)
        PROVE  LinksKept' /\ HandlersAttached'
    <2>1. s <= made
      BY <1>7, AlreadyMade DEF Open
    <2>2. LinksKept'
      BY <1>7, <2>1, ChatAssumption DEF Open, TypeOK, Sockets
    <2>3. \A j \in joins : j.sock # s
      BY <1>7 DEF Open
    <2> QED BY <1>7, <2>2, <2>3, JoinFields DEF Open, TypeOK
  <1>8. ASSUME NEW s \in Sockets, Lose(s)
        PROVE  LinksKept' /\ HandlersAttached'
    <2>1. s <= made /\ Dropped({s}, "down")
      BY <1>8, AlreadyMade DEF Lose
    <2> QED BY <1>8, <2>1, DroppedLinks DEF Lose
  <1>9. ASSUME NEW s \in Sockets, GiveUp(s)
        PROVE  LinksKept' /\ HandlersAttached'
    <2>1. s <= made
      BY <1>9, AlreadyMade DEF GiveUp
    <2> QED
      BY <1>9, <2>1, ChatAssumption DEF GiveUp, TypeOK, Sockets, tab, server
  <1>10. ASSUME NEW s \in Sockets, Attach(s)
         PROVE  LinksKept' /\ HandlersAttached'
    BY <1>10, JoinFields DEF Attach, TypeOK, tab
  <1>11. ASSUME NEW s \in Sockets, Reject(s)
         PROVE  LinksKept' /\ HandlersAttached'
    <2>1. s <= made /\ Dropped({s}, "closed")
      BY <1>11, AlreadyMade DEF Reject
    <2> QED BY <1>11, <2>1, DroppedLinks DEF Reject
  <1>12. ASSUME NEW s \in Sockets, ReceiveJoin(s)
         PROVE  LinksKept' /\ HandlersAttached'
    <2>1. LinksKept'
      BY <1>12 DEF ReceiveJoin, tab
    <2>2. ASSUME NEW j \in joins', j \notin joins
          PROVE  j.sock = s /\ j.pc = "find" /\ user[s] = "set"
      BY <1>12, <2>2 DEF ReceiveJoin
    <2> QED BY <1>12, <2>1, <2>2 DEF ReceiveJoin
  <1>13. ASSUME NEW c \in Channels, NEW m \in Messages,
                Save(c, m) \/ SaveRest(c, m) \/ Emit(c, m)
         PROVE  LinksKept' /\ HandlersAttached'
    BY <1>13 DEF Save, SaveRest, Emit, tab, server
  <1>14. ASSUME NEW c \in Channels, NEW i \in DOMAIN saved[c], Delete(c, i)
         PROVE  LinksKept' /\ HandlersAttached'
    BY <1>14 DEF Delete, tab, server
  <1> QED
    BY <1>1, <1>2, <1>3, <1>4, <1>5, <1>6, <1>7, <1>8, <1>9, <1>10, <1>11,
       <1>12, <1>13, <1>14, JoinLinks
    DEF Next, Client, Network, Server

LEMMA TimersStep ==
    ASSUME TypeOK, TimersCounted, [Next]_vars
    PROVE  TimersCounted'
  <1>1. ASSUME NEW c \in Channels
        PROVE  retry[c] \in Nat /\ picks \in Nat
    BY ChatAssumption DEF TypeOK
  <1>2. CASE UNCHANGED <<retry, picks>>
    BY <1>2 DEF TimersCounted
  <1>3. ASSUME NEW c \in Channels, Select(c)
        PROVE  TimersCounted'
    <2>1. picks' = picks + 1
      BY <1>3 DEF Select
    <2>2. \A d \in Channels : retry'[d] \in {retry[d], retry[d] + 1}
      BY <1>3 DEF Select, TypeOK
    <2> QED BY <1>1, <2>1, <2>2 DEF TimersCounted
  <1>4. ASSUME NEW c \in Channels, Retry(c)
        PROVE  TimersCounted'
    <2>1. picks' = picks
      BY <1>4 DEF Retry
    <2>2. \A d \in Channels : retry'[d] \in {retry[d], retry[d] - 1}
      BY <1>4 DEF Retry, TypeOK
    <2> QED BY <1>1, <2>1, <2>2 DEF TimersCounted
  <1> QED
    BY <1>2, <1>3, <1>4
    DEF Next, Client, Network, Server, vars, SignIn, Mount, SignOut, Deliver,
        Open, Lose, GiveUp, Attach, Reject, ReceiveJoin, JoinRoom,
        ReadHistory, EmitReady, JoinFails, Save, SaveRest, Emit, Delete
-----------------------------------------------------------------------------
(* Messages.  A step that saves none keeps the newest ones as they are;    *)
(* then it is enough that what was heard is still heard.                   *)
LEMMA NewestSame ==
    ASSUME saved' = saved
    PROVE  \A c : Newest(c)' = Newest(c)
  BY DEF Newest, LastOf

LEMMA CoversSame ==
    ASSUME saved' = saved, risky' = risky, revived' = revived,
           unheard \subseteq unheard'
    PROVE  \A c, list : Covers(c, list) => Covers(c, list)'
  BY NewestSame DEF Covers

LEMMA HeardSame ==
    ASSUME NeverMissed, saved' = saved, risky' = risky, revived' = revived,
           unheard \subseteq unheard',
           \A c \in Channels : \A m \in ToSet(Newest(c)) :
             Heard(c, m) =>
               m \in risky' \/ m \in unheard' \/ m \in revived' \/ Heard(c, m)'
    PROVE  NeverMissed'
  BY NewestSame DEF NeverMissed

(* A step that touches neither messages, snapshots nor what is shown. *)
LEMMA Untouched ==
    ASSUME SnapshotsCover, NeverMissed,
           UNCHANGED <<inbox, joins, saved, emitting, view, risky, unheard,
                       revived>>
    PROVE  SnapshotsCover' /\ NeverMissed'
  BY DEF SnapshotsCover, Covers, NeverMissed, Heard, Shown, Promised, Incoming,
         Newest, LastOf

(* A connection that ends: what was saved before is now left to the next   *)
(* snapshot.                                                               *)
LEMMA DroppedHeard ==
    ASSUME TypeOK, SnapshotsCover, NeverMissed,
           NEW S \in SUBSET Sockets, NEW l, Dropped(S, l),
           UNCHANGED <<saved, emitting, view, risky, revived>>
    PROVE  SnapshotsCover' /\ NeverMissed'
  <1>1. CASE S = {}
    <2>1. inbox' = inbox /\ joins' = joins /\ unheard' = unheard
      BY <1>1 DEF Dropped, TypeOK
    <2> QED BY <2>1, Untouched
  <1>2. CASE S # {}
    <2>1. AllSaved \subseteq unheard'
      BY <1>2 DEF Dropped
    <2>2. \A c \in Channels : ToSet(Newest(c))' \subseteq unheard'
      BY <2>1, NewestSame, NewestType, SavedType
    <2>3. NeverMissed'
      BY <2>2 DEF NeverMissed
    <2>4. \A c \in Channels : \A list : Covers(c, list)'
      BY <2>2 DEF Covers
    <2>5. \A j \in joins' : j.chan \in Channels
      BY JoinFields DEF Dropped
    <2>6. \A e \in Incoming' : e \in Incoming
      <3>1. \A s \in Sockets : ToSet(inbox'[s]) \subseteq ToSet(inbox[s])
        BY ToSetEmpty DEF Dropped
      <3> QED BY <3>1, IncomingIs
    <2>7. \A e \in Incoming' : e.chan \in Channels
      BY <2>6, IncomingType DEF Events
    <2> QED BY <2>3, <2>4, <2>5, <2>7 DEF SnapshotsCover
  <1> QED BY <1>1, <1>2

LEMMA ReceiveJoinHeard ==
    ASSUME IInv, NEW s \in Sockets, ReceiveJoin(s)
    PROVE  SnapshotsCover' /\ NeverMissed'
  <1>1. UNCHANGED <<inbox, saved, emitting, view, risky, unheard, revived>>
    BY DEF ReceiveJoin, store, history
  <1>2. joins \subseteq joins' /\ \A j \in joins' : j \in joins \/ j.pc = "find"
    BY DEF ReceiveJoin
  <1>3. Incoming' = Incoming
    BY <1>1 DEF Incoming
  <1>4. SnapshotsCover'
    BY <1>1, <1>2, <1>3, CoversSame DEF SnapshotsCover, IInv
  <1>5. \A c, m : Heard(c, m) => Heard(c, m)'
    BY <1>1, <1>2, <1>3 DEF Heard, Shown, Promised
  <1> QED BY <1>1, <1>4, <1>5, HeardSame DEF IInv

LEMMA JoinRoomHeard ==
    ASSUME IInv, NEW j \in joins, JoinRoom(j)
    PROVE  SnapshotsCover' /\ NeverMissed'
  <1> DEFINE k == [j EXCEPT !.pc = "read"]
  <1>1. k.chan = j.chan /\ k.pc = "read"
    BY JoinFields DEF IInv
  <1>2. joins' = (joins \ {j}) \cup {k}
    BY DEF JoinRoom
  <1> HIDE DEF k
  <1>3. UNCHANGED <<inbox, saved, emitting, view, risky, unheard, revived>>
    BY DEF JoinRoom, store, history
  <1>4. Incoming' = Incoming
    BY <1>3 DEF Incoming
  <1>5. SnapshotsCover'
    BY <1>1, <1>2, <1>3, <1>4, CoversSame DEF SnapshotsCover, IInv
  <1>6. \A c, m : Heard(c, m) => Heard(c, m)'
    BY <1>1, <1>2, <1>3, <1>4 DEF Heard, Shown, Promised
  <1> QED BY <1>3, <1>5, <1>6, HeardSame DEF IInv

(* What was to come in the snapshot is in it. *)
LEMMA ReadHistoryHeard ==
    ASSUME IInv, NEW j \in joins, ReadHistory(j)
    PROVE  SnapshotsCover' /\ NeverMissed'
  <1> DEFINE k == [j EXCEPT !.pc = "emit", !.list = Newest(j.chan)]
  <1>1. k.chan = j.chan /\ k.pc = "emit" /\ k.list = Newest(j.chan)
    BY DEF IInv, TypeOK, Handlers
  <1>2. joins' = (joins \ {j}) \cup {k} /\ j.pc = "read"
    BY DEF ReadHistory
  <1> HIDE DEF k
  <1>3. UNCHANGED <<inbox, saved, emitting, view, risky, unheard, revived>>
    BY DEF ReadHistory, store, history
  <1>4. Incoming' = Incoming
    BY <1>3 DEF Incoming
  <1>5. Covers(k.chan, k.list)
    BY <1>1 DEF Covers
  <1>6. SnapshotsCover'
    BY <1>2, <1>3, <1>4, <1>5, CoversSame DEF SnapshotsCover, IInv
  <1>7. ASSUME NEW c \in Channels, NEW m \in ToSet(Newest(c)), Heard(c, m)
        PROVE  Heard(c, m)'
    BY <1>1, <1>2, <1>3, <1>4, <1>7 DEF Heard, Shown, Promised
  <1> QED BY <1>3, <1>6, <1>7, HeardSame DEF IInv

(* What was left to the join that failed alone is unheard. *)
LEMMA JoinFailsHeard ==
    ASSUME IInv, NEW j \in joins, JoinFails(j)
    PROVE  SnapshotsCover' /\ NeverMissed'
  <1>1. UNCHANGED <<inbox, saved, emitting, view, risky, revived>>
    BY DEF JoinFails, store
  <1>2. /\ joins' = joins \ {j}
        /\ unheard \subseteq unheard'
        /\ \A m \in ToSet(saved[j.chan]) :
              \/ m \in unheard'
              \/ Shown(j.chan, m) \/ Promised(joins \ {j}, j.chan, m)
    BY DEF JoinFails
  <1>3. Incoming' = Incoming
    BY <1>1 DEF Incoming
  <1>4. SnapshotsCover'
    BY <1>1, <1>2, <1>3, CoversSame DEF SnapshotsCover, IInv
  <1>5. \A c, m : Shown(c, m) => Shown(c, m)'
    BY <1>1, <1>3 DEF Shown
  <1>6. \A c, m : Promised(joins \ {j}, c, m) => Promised(joins', c, m)
    BY <1>2 DEF Promised
  <1>7. ASSUME NEW c \in Channels, NEW m \in ToSet(Newest(c)), Heard(c, m)
        PROVE  m \in unheard' \/ Heard(c, m)'
    <2>1. CASE c = j.chan
      <3>1. m \in ToSet(saved[j.chan])
        BY <2>1, NewestType DEF IInv
      <3> QED BY <1>2, <1>5, <1>6, <2>1, <3>1 DEF Heard, Promised
    <2>2. CASE c # j.chan
      <3>1. Promised(joins, c, m) => Promised(joins \ {j}, c, m)
        BY <2>2 DEF Promised
      <3> QED BY <1>5, <1>6, <1>7, <3>1 DEF Heard, Promised
    <2> QED BY <2>1, <2>2
  <1> QED BY <1>1, <1>2, <1>4, <1>7, HeardSame DEF IInv

(* The packets under way when one is added. *)
LEMMA IncomingGrows ==
    ASSUME TypeOK, NEW s \in Sockets, NEW e \in Events,
           inbox' = [inbox EXCEPT ![s] = Append(@, e)]
    PROVE  \A x : x \in Incoming' <=> x \in Incoming \/ x = e
  <1>1. ToSet(inbox'[s]) = ToSet(inbox[s]) \cup {e}
    <2>1. inbox'[s] = Append(inbox[s], e)
      BY DEF TypeOK
    <2>2. ToSet(Append(inbox[s], e)) = ToSet(inbox[s]) \cup {e}
      BY ToSetAppend DEF TypeOK
    <2> QED BY <2>1, <2>2
  <1>2. \A t \in Sockets : t # s => inbox'[t] = inbox[t]
    BY DEF TypeOK
  <1> QED BY <1>1, <1>2, IncomingIs

LEMMA EmitReadyHeard ==
    ASSUME IInv, NEW j \in joins, EmitReady(j)
    PROVE  SnapshotsCover' /\ NeverMissed'
  <1> DEFINE e == Ready(j.chan, j.list)
  <1>1. e \in Events /\ e.kind = "ready" /\ e.chan = j.chan /\ e.list = j.list
    BY JoinFields DEF IInv, Ready, Events
  <1>2. /\ inbox' = [inbox EXCEPT ![j.sock] = Append(@, e)]
        /\ joins' = joins \ {j} /\ j.pc = "emit"
    BY DEF EmitReady
  <1> HIDE DEF e
  <1>3. UNCHANGED <<saved, emitting, view, risky, unheard, revived>>
    BY DEF EmitReady, store, history
  <1>4. \A x : x \in Incoming' <=> x \in Incoming \/ x = e
    BY <1>1, <1>2, IncomingGrows, JoinFields DEF IInv
  <1>5. Covers(e.chan, e.list)
    BY <1>1, <1>2 DEF IInv, SnapshotsCover
  <1>6. SnapshotsCover'
    BY <1>2, <1>3, <1>4, <1>5, CoversSame DEF SnapshotsCover, IInv
  <1>7. \A c, m : Heard(c, m) => Heard(c, m)'
    BY <1>1, <1>2, <1>3, <1>4 DEF Heard, Shown, Promised
  <1> QED BY <1>3, <1>6, <1>7, HeardSame DEF IInv

(* A message saved while a snapshot without it is under way is risky; any  *)
(* other is emitted later.                                                 *)
LEMMA SaveHeard ==
    ASSUME IInv, NEW d \in Channels, NEW n \in Messages, Save(d, n)
    PROVE  SnapshotsCover' /\ NeverMissed'
  <1>1. /\ saved' = [saved EXCEPT ![d] = Append(@, n)]
        /\ emitting' = emitting \cup {<<d, n>>}
        /\ risky' = IF Outstanding(d) THEN risky \cup {n} ELSE risky
        /\ UNCHANGED <<inbox, joins, rooms, view, unheard, revived>>
    BY DEF Save, server
  <1>2. Incoming' = Incoming
    BY <1>1 DEF Incoming
  <1>3. \A c \in Channels : \A x \in ToSet(Newest(c))' :
          x \in ToSet(Newest(c)) \/ (c = d /\ x = n)
    BY <1>1, NewestGrows DEF IInv
  <1>4. ASSUME NEW c \in Channels, NEW list, Covers(c, list),
               c = d => Outstanding(d)
        PROVE  Covers(c, list)'
    BY <1>1, <1>3, <1>4 DEF Covers
  <1>5. ASSUME NEW j \in joins, j.pc = "emit"
        PROVE  Covers(j.chan, j.list)'
    <2>1. j.chan \in Channels /\ j.chan \in rooms[j.sock]
      BY <1>5, JoinFields DEF IInv, HandlersAttached
    <2>2. j.chan = d => Outstanding(d)
      BY <1>5, <2>1 DEF Outstanding
    <2>3. Covers(j.chan, j.list)
      BY <1>5 DEF IInv, SnapshotsCover
    <2> DEFINE c == j.chan
               list == j.list
    <2> HIDE DEF c, list
    <2>4. Covers(c, list)'
      BY <1>4, <2>1, <2>2, <2>3 DEF c, list
    <2> QED BY <2>4 DEF c, list
  <1>6. ASSUME NEW e \in Incoming, e.kind = "ready"
        PROVE  Covers(e.chan, e.list)'
    <2>1. e.chan \in Channels
      BY IncomingType DEF IInv, Events
    <2>2. e.chan = d => Outstanding(d)
      BY <1>6 DEF Outstanding
    <2>3. Covers(e.chan, e.list)
      BY <1>6 DEF IInv, SnapshotsCover
    <2> DEFINE c == e.chan
               list == e.list
    <2> HIDE DEF c, list
    <2>4. Covers(c, list)'
      BY <1>4, <2>1, <2>2, <2>3 DEF c, list
    <2> QED BY <2>4 DEF c, list
  <1>7. SnapshotsCover'
    BY <1>1, <1>2, <1>5, <1>6 DEF SnapshotsCover
  <1>8. \A c, m : Heard(c, m) => Heard(c, m)'
    BY <1>1, <1>2 DEF Heard, Shown, Promised
  <1>9. Heard(d, n)'
    BY <1>1 DEF Heard, Shown, Promised
  <1> QED BY <1>1, <1>3, <1>7, <1>8, <1>9 DEF NeverMissed, IInv

LEMMA SaveRestHeard ==
    ASSUME IInv, NEW d \in Channels, NEW n \in Messages, SaveRest(d, n)
    PROVE  SnapshotsCover' /\ NeverMissed'
  <1>1. /\ saved' = [saved EXCEPT ![d] = Append(@, n)]
        /\ unheard' = unheard \cup {n}
        /\ UNCHANGED <<inbox, joins, view, emitting, risky, revived>>
    BY DEF SaveRest, server
  <1>2. Incoming' = Incoming
    BY <1>1 DEF Incoming
  <1>3. \A c \in Channels : \A x \in ToSet(Newest(c))' :
          x \in ToSet(Newest(c)) \/ x = n
    BY <1>1, NewestGrows DEF IInv
  <1>4. \A c \in Channels : \A list : Covers(c, list) => Covers(c, list)'
    BY <1>1, <1>3 DEF Covers
  <1>5. /\ \A j \in joins : j.chan \in Channels
        /\ \A e \in Incoming : e.chan \in Channels
    BY JoinFields, IncomingType DEF IInv, Events
  <1>6. SnapshotsCover'
    BY <1>1, <1>2, <1>4, <1>5 DEF SnapshotsCover, IInv
  <1>7. \A c, m : Heard(c, m) => Heard(c, m)'
    BY <1>1, <1>2 DEF Heard, Shown, Promised
  <1> QED BY <1>1, <1>3, <1>6, <1>7 DEF NeverMissed, IInv

(* A deletion brings messages back that no snapshot under way holds: they  *)
(* are recorded, unless they are shown and no snapshot is on its way.      *)
LEMMA DeleteHeard ==
    ASSUME IInv, NEW d \in Channels, NEW i \in DOMAIN saved[d], Delete(d, i)
    PROVE  SnapshotsCover' /\ NeverMissed'
  <1> DEFINE list == RemoveAt(saved[d], i)
  <1>1. /\ saved' = [saved EXCEPT ![d] = list]
        /\ revived \subseteq revived'
        /\ \A m \in ToSet(LastOf(list)) :
              \/ m \in ToSet(Newest(d)) \/ m \in revived'
              \/ ~Outstanding(d) /\ Heard(d, m)
        /\ UNCHANGED <<inbox, joins, rooms, view, emitting, risky, unheard>>
    BY DEF Delete, server
  <1> HIDE DEF list
  <1>2. Incoming' = Incoming
    BY <1>1 DEF Incoming
  <1>3. /\ Newest(d)' = LastOf(list)
        /\ \A c \in Channels \ {d} : Newest(c)' = Newest(c)
    BY <1>1 DEF Newest, LastOf, IInv, TypeOK
  <1>4. ASSUME NEW c \in Channels, NEW x \in ToSet(Newest(c))'
        PROVE  \/ x \in ToSet(Newest(c)) \/ x \in revived'
               \/ c = d /\ ~Outstanding(d) /\ Heard(d, x)
    <2>1. CASE c = d
      BY <1>1, <1>3, <1>4, <2>1 DEF ToSet
    <2>2. CASE c # d
      BY <1>3, <1>4, <2>2 DEF ToSet
    <2> QED BY <2>1, <2>2
  <1>5. ASSUME NEW c \in Channels, NEW l, Covers(c, l), c = d => Outstanding(d)
        PROVE  Covers(c, l)'
    BY <1>1, <1>4, <1>5 DEF Covers
  <1>6. ASSUME NEW j \in joins, j.pc = "emit"
        PROVE  Covers(j.chan, j.list)'
    <2> DEFINE c == j.chan
               l == j.list
    <2>1. c \in Channels /\ c \in rooms[j.sock]
      BY <1>6, JoinFields DEF IInv, HandlersAttached
    <2>2. c = d => Outstanding(d)
      BY <1>6, <2>1 DEF Outstanding
    <2>3. Covers(c, l)
      BY <1>6 DEF IInv, SnapshotsCover
    <2> HIDE DEF c, l
    <2>4. Covers(c, l)'
      BY <1>5, <2>1, <2>2, <2>3
    <2> QED BY <2>4 DEF c, l
  <1>7. ASSUME NEW e \in Incoming, e.kind = "ready"
        PROVE  Covers(e.chan, e.list)'
    <2> DEFINE c == e.chan
               l == e.list
    <2>1. c \in Channels
      BY IncomingType DEF IInv, Events
    <2>2. c = d => Outstanding(d)
      BY <1>7 DEF Outstanding
    <2>3. Covers(c, l)
      BY <1>7 DEF IInv, SnapshotsCover
    <2> HIDE DEF c, l
    <2>4. Covers(c, l)'
      BY <1>5, <2>1, <2>2, <2>3
    <2> QED BY <2>4 DEF c, l
  <1>8. SnapshotsCover'
    BY <1>1, <1>2, <1>6, <1>7 DEF SnapshotsCover
  <1>9. \A c, m : Heard(c, m) => Heard(c, m)'
    BY <1>1, <1>2 DEF Heard, Shown, Promised
  <1> QED BY <1>1, <1>4, <1>8, <1>9 DEF NeverMissed, IInv

(* With nobody in the room a running join is still to read the history. *)
LEMMA EmitHeard ==
    ASSUME IInv, NEW d \in Channels, NEW n \in Messages, Emit(d, n)
    PROVE  SnapshotsCover' /\ NeverMissed'
  <1> DEFINE e == New(d, n)
  <1>1. e \in Events /\ e.kind = "new" /\ e.chan = d /\ e.msg = n
    BY DEF New, Events
  <1>2. /\ emitting' = emitting \ {<<d, n>>}
        /\ inbox' = [s \in Sockets |-> IF s \in Listeners(d)
                                       THEN Append(inbox[s], e) ELSE inbox[s]]
        /\ UNCHANGED <<joins, saved, view, risky, revived>>
        /\ unheard \subseteq unheard'
    BY DEF Emit, server
  <1> HIDE DEF e
  <1>3. \A s \in Sockets : ToSet(inbox'[s])
                             = IF s \in Listeners(d) THEN ToSet(inbox[s]) \cup {e}
                                                     ELSE ToSet(inbox[s])
    <2>1. \A s \in Sockets :
            ToSet(Append(inbox[s], e)) = ToSet(inbox[s]) \cup {e}
      BY <1>1, ToSetAppend DEF IInv, TypeOK
    <2>2. \A s \in Sockets : inbox'[s] = IF s \in Listeners(d)
                                         THEN Append(inbox[s], e)
                                         ELSE inbox[s]
      BY <1>2
    <2> QED BY <2>1, <2>2
  <1>4. /\ \A x \in Incoming : x \in Incoming'
        /\ \A x \in Incoming' : x \in Incoming \/ x = e
        /\ Listeners(d) # {} => e \in Incoming'
    BY <1>3, IncomingIs DEF Listeners
  <1>5. SnapshotsCover'
    BY <1>1, <1>2, <1>4, CoversSame DEF SnapshotsCover, IInv
  <1>6. n \in unheard' \/ Heard(d, n)'
    <2>1. CASE Listeners(d) # {}
      BY <1>1, <1>4, <2>1 DEF Heard, Shown, Promised
    <2>2. CASE \E j \in joins : j.chan = d /\ Listeners(d) = {}
      <3>1. PICK j \in joins : j.chan = d
        BY <2>2
      <3>2. j.sock \in Sockets /\ j.pc \in {"find", "read", "emit"}
        BY JoinFields DEF IInv
      <3>3. link[j.sock] = "open"
        BY <3>2 DEF IInv, HandlersAttached, LinksKept
      <3>4. j.pc = "find"
        BY <2>2, <3>1, <3>2, <3>3 DEF IInv, HandlersAttached, Listeners
      <3> QED BY <1>2, <3>1, <3>4 DEF Heard, Shown, Promised
    <2> QED BY <2>1, <2>2 DEF Emit
  <1>7. ASSUME NEW c, NEW m, Heard(c, m), <<c, m>> # <<d, n>>
        PROVE  Heard(c, m)'
    BY <1>2, <1>4, <1>7 DEF Heard, Shown, Promised
  <1> QED BY <1>2, <1>5, <1>6, <1>7, HeardSame DEF IInv

(* A snapshot takes the place of what is shown, and covers it. *)
LEMMA DeliverHeard ==
    ASSUME IInv, NEW s \in Sockets, Deliver(s)
    PROVE  SnapshotsCover' /\ NeverMissed'
  <1> DEFINE e == Head(inbox[s])
  <1>1. inbox[s] \in Seq(Events) /\ inbox[s] # <<>>
    BY DEF Deliver, IInv, TypeOK
  <1>2. /\ e \in Events /\ e \in ToSet(inbox[s])
        /\ ToSet(Tail(inbox[s])) \subseteq ToSet(inbox[s])
        /\ \A x \in ToSet(inbox[s]) : x = e \/ x \in ToSet(Tail(inbox[s]))
    BY <1>1, ToSetFront
  <1>3. /\ view' = Applied(e)
        /\ inbox' = [inbox EXCEPT ![s] = Tail(inbox[s])]
        /\ UNCHANGED <<joins, saved, emitting, risky, unheard, revived>>
    BY DEF Deliver, server, store
  <1> HIDE DEF e
  <1>4. e \in Incoming
    BY <1>2, IncomingIs
  <1>5. /\ \A x \in Incoming' : x \in Incoming
        /\ \A x \in Incoming : x = e \/ x \in Incoming'
    <2>1. \A t \in Sockets : inbox'[t] = IF t = s THEN Tail(inbox[s])
                                                  ELSE inbox[t]
      BY <1>3 DEF IInv, TypeOK
    <2>2. \A t \in Sockets :
            /\ ToSet(inbox'[t]) \subseteq ToSet(inbox[t])
            /\ \A x \in ToSet(inbox[t]) : x = e \/ x \in ToSet(inbox'[t])
      BY <1>2, <2>1
    <2> QED BY <2>2, IncomingIs
  <1>6. SnapshotsCover'
    BY <1>3, <1>5, CoversSame DEF SnapshotsCover, IInv
  <1>7. ASSUME NEW c \in Channels, NEW m \in ToSet(Newest(c)),
               m \in ToSet(view[c])
        PROVE  \/ m \in risky \/ m \in unheard \/ m \in revived
               \/ m \in ToSet(view'[c])
    <2>1. CASE e.chan # c
      BY <1>3, <1>7, <2>1 DEF Applied, IInv, TypeOK
    <2>2. CASE e.chan = c /\ e.kind = "ready"
      <3>1. Covers(c, e.list)
        BY <1>4, <2>2 DEF IInv, SnapshotsCover
      <3>2. view'[c] = e.list
        BY <1>3, <2>2 DEF Applied, IInv, TypeOK
      <3> QED BY <1>7, <3>1, <3>2 DEF Covers
    <2>3. CASE e.chan = c /\ e.kind # "ready"
      <3>1. view'[c] = Append(view[c], e.msg) /\ e.msg \in Messages
        BY <1>2, <1>3, <2>3 DEF Applied, IInv, TypeOK, Events
      <3>2. ToSet(view'[c]) = ToSet(view[c]) \cup {e.msg}
        BY <3>1, ToSetAppend DEF IInv, TypeOK
      <3> QED BY <1>7, <3>2
    <2> QED BY <2>1, <2>2, <2>3
  <1>8. ASSUME NEW c \in Channels, NEW m, e.chan = c,
               IF e.kind = "new" THEN e.msg = m ELSE m \in ToSet(e.list)
        PROVE  m \in ToSet(view'[c])
    <2>1. CASE e.kind = "ready"
      <3>1. view'[c] = e.list
        BY <1>3, <1>8, <2>1 DEF Applied, IInv, TypeOK
      <3> QED BY <1>8, <2>1, <3>1
    <2>2. CASE e.kind # "ready"
      <3>1. /\ view'[c] = Append(view[c], e.msg)
            /\ e.msg \in Messages /\ e.kind = "new"
        BY <1>2, <1>3, <1>8, <2>2 DEF Applied, IInv, TypeOK, Events
      <3>2. ToSet(view'[c]) = ToSet(view[c]) \cup {e.msg}
        BY <3>1, ToSetAppend DEF IInv, TypeOK
      <3> QED BY <1>8, <3>1, <3>2
    <2> QED BY <2>1, <2>2
  <1>9. ASSUME NEW c \in Channels, NEW m \in ToSet(Newest(c)), Heard(c, m)
        PROVE  m \in risky \/ m \in unheard \/ m \in revived \/ Heard(c, m)'
    BY <1>3, <1>5, <1>7, <1>8, <1>9 DEF Heard, Shown, Promised
  <1> QED BY <1>3, <1>6, <1>9, HeardSame DEF IInv

LEMMA HeardStep ==
    ASSUME IInv, [Next]_vars
    PROVE  SnapshotsCover' /\ NeverMissed'
  <1> USE Untouched DEF IInv
  <1>1. CASE UNCHANGED vars
    BY <1>1 DEF vars, server, store, history
  <1>2. CASE SignIn \/ Mount
    BY <1>2 DEF SignIn, Mount, server, store, history
  <1>3. CASE SignOut
    <2>1. Dropped({socket} \ {0}, "closed")
      BY <1>3 DEF SignOut
    <2> QED BY <1>3, <2>1, DroppedHeard, OwnSocket DEF SignOut, store
  <1>4. ASSUME NEW c \in Channels, Select(c) \/ Retry(c)
        PROVE  SnapshotsCover' /\ NeverMissed'
    BY <1>4 DEF Select, Retry, server, store, history
  <1>5. ASSUME NEW s \in Sockets, Open(s) \/ GiveUp(s) \/ Attach(s)
        PROVE  SnapshotsCover' /\ NeverMissed'
    BY <1>5 DEF Open, GiveUp, Attach, server, store, history
  <1>6. ASSUME NEW s \in Sockets, Lose(s) \/ Reject(s)
        PROVE  SnapshotsCover' /\ NeverMissed'
    <2>1. \E l : Dropped({s}, l)
      BY <1>6 DEF Lose, Reject
    <2>2. UNCHANGED <<saved, emitting, view, risky, revived>>
      BY <1>6 DEF Lose, Reject, store
    <2> QED BY <2>1, <2>2, DroppedHeard
  <1> QED
    BY <1>1, <1>2, <1>3, <1>4, <1>5, <1>6, ReceiveJoinHeard, JoinRoomHeard,
       ReadHistoryHeard, EmitReadyHeard, JoinFailsHeard, SaveHeard,
       SaveRestHeard, EmitHeard, DeleteHeard, DeliverHeard
    DEF Next, Client, Network, Server
-----------------------------------------------------------------------------
LEMMA InitInv == Init => IInv
  <1> SUFFICES ASSUME Init
               PROVE  IInv
    OBVIOUS
  <1>1. TypeOK
    <2>1. /\ <<>> \in Seq(Channels) /\ <<>> \in Seq(Events)
          /\ <<>> \in Seq(Messages)
      OBVIOUS
    <2>2. 0 \in 0..MaxSockets /\ 0 \in 0..MaxPicks /\ 0 \in 0..MaxLosses
      BY ChatAssumption
    <2>3. /\ outbox \in [Sockets -> Seq(Channels)]
          /\ inbox \in [Sockets -> Seq(Events)]
          /\ saved \in [Channels -> Seq(Messages)]
          /\ view \in [Channels -> Seq(Messages)]
      BY <2>1 DEF Init
    <2> QED BY <2>2, <2>3 DEF Init, TypeOK
  <1>2. LinksKept /\ HandlersAttached /\ TimersCounted
    BY DEF Init, LinksKept, HandlersAttached, TimersCounted
  <1>3. Incoming = {}
    BY ToSetEmpty DEF Init, Incoming
  <1>4. \A c \in Channels : ToSet(Newest(c)) = {}
    BY <1>1, NewestType, ToSetEmpty DEF Init
  <1> QED
    BY <1>1, <1>2, <1>3, <1>4 DEF IInv, Init, SnapshotsCover, NeverMissed

(* The invariant is inductive. *)
THEOREM Inductive == Spec => []IInv
  <1>1. IInv /\ [Next]_vars => IInv'
    BY TypeStep, LinksStep, TimersStep, HeardStep DEF IInv
  <1> QED BY <1>1, InitInv, PTL DEF Spec

(* The state of the client, the gateway and the wires between them keeps   *)
(* its types; no socket, timer or break is counted past its bound.         *)
THEOREM TypeCorrect == Spec => []TypeOK
  <1>1. IInv => TypeOK
    BY DEF IInv
  <1> QED BY <1>1, Inductive, PTL

(* Whatever breaks, joins, failures, deletions, snapshots and events come  *)
(* in whatever order, of the newest messages of a channel the client       *)
(* misses only those emitted while it was in no room or left to a join     *)
(* that failed, those saved while a snapshot without them was on its way,  *)
(* and those a deletion brought back.                                      *)
THEOREM NothingMissed == Spec => []NeverMissed
  <1>1. IInv => NeverMissed
    BY DEF IInv
  <1> QED BY <1>1, Inductive, PTL
-----------------------------------------------------------------------------
(* The voice panel, a component of its own beside the chat. *)
(* What awaits a token is a connect. *)
TokensConnect ==
    \A t \in Calls : call[t].at = "token" => call[t].op = "connect"

(* The room the service knows has been made. *)
RoomMade == room # 0 => state[room] # "none"

(* Only the room the service knows can be heard. *)
OneRoom == Live \subseteq {room}

(* What is being left is the service's room, or it has let go of it. *)
ClosersKnown ==
    \A t \in Calls :
      call[t].at = "closing" => call[t].room # 0 /\ room \in {0, call[t].room}

(* A connect whose room is still to be made runs alone. *)
ConnectAlone ==
    \A t \in Calls : Coming(t) =>
      \A u \in Calls : u # t => call[u].at = "idle"

(* A panel that is gone has left its room, or is about to. *)
HungUp ==
    ~mounted => /\ \A t \in Calls : ~Coming(t)
                /\ \/ Live = {}
                   \/ \E t \in Calls : /\ call[t].at = "closing"
                                       /\ call[t].room = room

(* The inductive invariant: as long as no connect met another call. *)
RoomKept == OneRoom /\ ClosersKnown /\ ConnectAlone /\ HungUp

VoiceInv == VoiceTypeOK /\ TokensConnect /\ RoomMade /\ (~overlap => RoomKept)

CallRecords ==
    [op : {"none", "connect", "disconnect"},
     at : {"idle", "token", "closing", "opening"},
     room : 0..MaxRooms, after : SUBSET Calls]

(* A call, field by field. *)
LEMMA CallFields ==
    ASSUME VoiceTypeOK, NEW t \in Calls
    PROVE  /\ call[t].op \in {"none", "connect", "disconnect"}
           /\ call[t].at \in {"idle", "token", "closing", "opening"}
           /\ call[t].room \in 0..MaxRooms
           /\ call[t].after \subseteq Calls
  BY DEF VoiceTypeOK

LEMMA VoiceInitially ==
    ASSUME VoiceInit
    PROVE  VoiceInv
  <1>1. VoiceTypeOK
    <2>1. 0 \in 0..MaxRooms /\ 0 \in 0..MaxMounts
      BY VoiceAssumption
    <2>2. None \in CallRecords
      BY <2>1 DEF None, CallRecords
    <2> QED BY <2>1, <2>2 DEF VoiceInit, VoiceTypeOK, States, CallRecords
  <1>2. Live = {}
    BY DEF VoiceInit, Live
  <1>3. \A t \in Calls : call[t].at = "idle"
    BY DEF VoiceInit, None
  <1> QED
    BY <1>1, <1>2, <1>3
    DEF VoiceInv, TokensConnect, RoomMade, RoomKept, OneRoom, ClosersKnown,
        ConnectAlone, HungUp, Coming, VoiceInit

(* livekitService.disconnect begins: the room is being left, or nothing    *)
(* could be heard.                                                         *)
LEMMA HangUpStep ==
    ASSUME VoiceInv, NEW t \in Calls, HangUp(t), state' = state
    PROVE  /\ call' \in [Calls -> CallRecords]
           /\ room' \in 0..MaxRooms /\ overlap' \in BOOLEAN
           /\ TokensConnect' /\ RoomMade'
           /\ ~overlap' => RoomKept'
  <1> DEFINE k == Closing("disconnect")
  <1>1. /\ k \in CallRecords
        /\ k.op = "disconnect" /\ k.at = "closing" /\ k.room = room
    BY DEF Closing, Closers, CallRecords, VoiceInv, VoiceTypeOK
  <1>2. \/ /\ TakesTime
           /\ call' = [call EXCEPT ![t] = k] /\ room' = room
        \/ /\ ~TakesTime
           /\ call' = call /\ room' = 0
    BY DEF HangUp
  <1>3. call \in [Calls -> CallRecords] /\ room \in 0..MaxRooms
    BY DEF VoiceInv, VoiceTypeOK, CallRecords
  <1> HIDE DEF k
  <1>4. call' \in [Calls -> CallRecords] /\ room' \in 0..MaxRooms
    BY <1>1, <1>2, <1>3, VoiceAssumption
  <1>5. overlap' \in BOOLEAN
    BY DEF HangUp
  <1>6. TokensConnect' /\ RoomMade'
    BY <1>1, <1>2, <1>3 DEF VoiceInv, TokensConnect, RoomMade
  <1>7. ASSUME ~overlap'
        PROVE  RoomKept'
    <2>1. ~overlap /\ \A u \in Calls : ~Coming(u)
      BY <1>7 DEF HangUp
    <2>2. RoomKept
      BY <2>1 DEF VoiceInv
    <2>3. Live' = Live
      BY DEF Live
    <2>4. \A u \in Calls : ~Coming(u)'
      BY <1>1, <1>2, <1>3, <2>1 DEF Coming
    <2>5. CASE TakesTime
      <3>1. room # 0
        BY <2>2, <2>5
        DEF TakesTime, Closers, Live, Rooms, RoomKept, ClosersKnown
      <3>2. call'[t] = k /\ \A u \in Calls : u # t => call'[u] = call[u]
        BY <1>2, <1>3, <2>5
      <3>3. room' = room
        BY <1>2, <2>5
      <3>4. ClosersKnown'
        BY <1>1, <2>2, <3>1, <3>2, <3>3 DEF RoomKept, ClosersKnown
      <3>5. HungUp'
        BY <1>1, <2>4, <3>2, <3>3 DEF HungUp
      <3> QED
        BY <2>2, <2>3, <2>4, <3>3, <3>4, <3>5
        DEF RoomKept, OneRoom, ConnectAlone
    <2>6. CASE ~TakesTime
      <3>1. Live = {}
        BY <2>2, <2>6 DEF TakesTime, RoomKept, OneRoom
      <3>2. call' = call /\ room' = 0
        BY <1>2, <2>6
      <3> QED
        BY <2>2, <2>3, <2>4, <3>1, <3>2
        DEF RoomKept, OneRoom, ClosersKnown, ConnectAlone, HungUp
    <2> QED BY <2>5, <2>6
  <1> QED BY <1>4, <1>5, <1>6, <1>7

(* livekitService.connect makes a room where no other can be heard. *)
LEMMA MakeRoomStep ==
    ASSUME VoiceInv, NEW t \in Calls, Coming(t), MakeRoom(t),
           NEW left \in [Rooms -> States \cup {"none"}],
           ~overlap => \A r \in Rooms :
                         left[r] \notin {"connecting", "connected"},
           state' = [left EXCEPT ![roomsMade + 1] = "connecting"],
           UNCHANGED <<mounted, overlap>>
    PROVE  /\ call' \in [Calls -> CallRecords]
           /\ room' \in 0..MaxRooms /\ roomsMade' \in 0..MaxRooms
           /\ state' \in [Rooms -> States \cup {"none"}]
           /\ TokensConnect' /\ RoomMade'
           /\ ~overlap' => RoomKept'
  <1> DEFINE new == roomsMade + 1
             k == [None EXCEPT !.op = "connect", !.at = "opening",
                                 !.room = new]
  <1>1. new \in Rooms /\ new \in 0..MaxRooms
    BY VoiceAssumption DEF MakeRoom, Rooms, VoiceInv, VoiceTypeOK
  <1>2. call' = [call EXCEPT ![t] = k] /\ room' = new /\ roomsMade' = new
    BY DEF MakeRoom
  <1>3. call \in [Calls -> CallRecords]
    BY DEF VoiceInv, VoiceTypeOK, CallRecords
  <1> HIDE DEF new
  <1>4. k \in CallRecords /\ k.at = "opening"
    BY <1>1 DEF CallRecords, None
  <1> HIDE DEF k
  <1>5. call' \in [Calls -> CallRecords]
    BY <1>2, <1>3, <1>4
  <1>6. state' \in [Rooms -> States \cup {"none"}]
    BY DEF States
  <1>7. call'[t] = k /\ \A u \in Calls : u # t => call'[u] = call[u]
    BY <1>2, <1>3
  <1>8. TokensConnect' /\ RoomMade'
    BY <1>1, <1>2, <1>4, <1>7 DEF VoiceInv, TokensConnect, RoomMade, new
  <1>9. ASSUME ~overlap'
        PROVE  RoomKept'
    <2>1. ~overlap /\ RoomKept
      BY <1>9 DEF VoiceInv
    <2>2. Live' \subseteq {new}
      BY <2>1 DEF Live, new
    <2>3. \A u \in Calls : u # t => call[u].at = "idle"
      BY <2>1 DEF RoomKept, ConnectAlone
    <2>4. \A u \in Calls : call'[u].at \in {"idle", "opening"}
      BY <1>4, <1>7, <2>3
    <2>5. mounted'
      BY <2>1 DEF RoomKept, HungUp, VoiceInv, VoiceTypeOK
    <2> QED
      BY <1>2, <2>2, <2>4, <2>5
      DEF RoomKept, OneRoom, ClosersKnown, ConnectAlone, HungUp, Coming
  <1> QED BY <1>1, <1>2, <1>5, <1>6, <1>8, <1>9

(* What the panel does. *)
LEMMA PanelStep ==
    ASSUME VoiceInv, NEW t \in Calls, Panel(t)
    PROVE  VoiceInv'
  <1>1. CASE HangUp(t) /\ state' = state
    <2>1. /\ call' \in [Calls -> CallRecords]
          /\ room' \in 0..MaxRooms /\ overlap' \in BOOLEAN
          /\ TokensConnect' /\ RoomMade'
          /\ ~overlap' => RoomKept'
      BY <1>1, HangUpStep
    <2>2. /\ mounted' \in BOOLEAN /\ mounts' = mounts
          /\ shown' = shown /\ effect' \in States
          /\ roomsMade' = roomsMade /\ wanted' \in BOOLEAN /\ failed' = failed
      <3>1. \/ Unmount(t) \/ SwitchChannel(t) \/ Effect(t)
            \/ ClickConnect(t) \/ ClickLeave(t)
        BY DEF Panel
      <3> QED
        BY <3>1
        DEF Unmount, SwitchChannel, Effect, ClickConnect,
            ClickLeave, hook, service, VoiceInv, VoiceTypeOK
    <2> QED
      BY <1>1, <2>1, <2>2 DEF VoiceInv, VoiceTypeOK, CallRecords
  <1>2. CASE ClickConnect(t)
    <2> DEFINE k == [None EXCEPT !.op = "connect", !.at = "token"]
    <2>1. k.op = "connect" /\ k.at = "token" /\ k \in CallRecords
      <3>1. 0 \in 0..MaxRooms /\ {} \in SUBSET Calls
        BY VoiceAssumption
      <3> QED BY <3>1 DEF None, CallRecords
    <2>2. call' = [call EXCEPT ![t] = k]
      BY <1>2 DEF ClickConnect
    <2> HIDE DEF k
    <2>3. call \in [Calls -> CallRecords]
      BY DEF VoiceInv, VoiceTypeOK, CallRecords
    <2>4. call'[t] = k /\ \A u \in Calls : u # t => call'[u] = call[u]
      BY <2>2, <2>3
    <2>5. call' \in [Calls -> CallRecords]
      BY <2>1, <2>2, <2>3
    <2>6. TokensConnect' /\ RoomMade'
      BY <1>2, <2>1, <2>4
      DEF ClickConnect, service, VoiceInv, TokensConnect, RoomMade
    <2>7. ASSUME ~overlap'
          PROVE  RoomKept'
      <3>1. ~overlap /\ \A u \in Calls : call[u].at = "idle"
        BY <1>2, <2>7 DEF ClickConnect
      <3>2. RoomKept
        BY <3>1 DEF VoiceInv
      <3>3. Live' = Live /\ room' = room /\ mounted' = mounted /\ mounted
        BY <1>2 DEF ClickConnect, Live, service, hook
      <3>4. \A u \in Calls : /\ u # t => call'[u].at = "idle"
                             /\ call'[u].at # "closing"
        BY <2>1, <2>4, <3>1
      <3>5. ConnectAlone'
        BY <3>4 DEF ConnectAlone, Coming
      <3> QED
        BY <3>2, <3>3, <3>4, <3>5 DEF RoomKept, OneRoom, ClosersKnown, HungUp
    <2> QED
      BY <1>2, <2>5, <2>6, <2>7
      DEF VoiceInv, VoiceTypeOK, ClickConnect, hook, service, CallRecords
  <1> QED
    BY <1>1, <1>2
    DEF Panel, Unmount, SwitchChannel, Effect, ClickLeave

(* A call that ends without changing what can be heard by more than the    *)
(* end of its own room.                                                    *)
LEMMA EndStep ==
    ASSUME VoiceInv, NEW t \in Calls, call[t].at # "closing",
           call' = [call EXCEPT ![t] = None],
           state' \in [Rooms -> States \cup {"none"}],
           \A r \in Rooms : state[r] # "none" => state'[r] # "none",
           Live' \subseteq Live,
           shown' \in States, failed' \in BOOLEAN,
           UNCHANGED <<mounted, mounts, effect, room, roomsMade, wanted,
                       overlap>>
    PROVE  VoiceInv'
  <1>1. None \in CallRecords /\ None.at = "idle"
    BY VoiceAssumption DEF None, CallRecords
  <1>2. call \in [Calls -> CallRecords]
    BY DEF VoiceInv, VoiceTypeOK, CallRecords
  <1>3. call'[t] = None /\ \A u \in Calls : u # t => call'[u] = call[u]
    BY <1>2
  <1>4. call' \in [Calls -> CallRecords]
    BY <1>1, <1>2
  <1>5. TokensConnect' /\ RoomMade'
    <2>1. room # 0 => room \in Rooms
      BY VoiceAssumption DEF VoiceInv, VoiceTypeOK, Rooms
    <2> QED BY <1>1, <1>3, <2>1 DEF VoiceInv, TokensConnect, RoomMade
  <1>6. ASSUME ~overlap'
        PROVE  RoomKept'
    <2>1. RoomKept
      BY <1>6 DEF VoiceInv
    <2>2. \A u \in Calls : Coming(u)' => Coming(u)
      BY <1>1, <1>3 DEF Coming
    <2>3. \A u \in Calls : /\ call[u].at = "idle" => call'[u].at = "idle"
                           /\ call[u].at = "closing" <=> call'[u].at = "closing"
                           /\ call[u].at = "closing" => call'[u] = call[u]
      BY <1>1, <1>3
    <2> QED
      BY <2>1, <2>2, <2>3
      DEF RoomKept, OneRoom, ClosersKnown, ConnectAlone, HungUp
  <1> QED
    BY <1>4, <1>5, <1>6 DEF VoiceInv, VoiceTypeOK, CallRecords

LEMMA ServiceStep ==
    ASSUME VoiceInv, NEW t \in Calls, Service(t)
    PROVE  VoiceInv'
  <1> DEFINE r == call[t].room
             left == [state EXCEPT ![r] = "disconnected"]
  <1>1. /\ call \in [Calls -> CallRecords] /\ r \in 0..MaxRooms
        /\ state \in [Rooms -> States \cup {"none"}]
        /\ left \in [Rooms -> States \cup {"none"}]
    BY CallFields DEF VoiceInv, VoiceTypeOK, CallRecords, States
  <1>2. CASE Token(t) /\ ~TakesTime
    <2>1. Coming(t)
      BY <1>2 DEF Token, Coming, VoiceInv, TokensConnect
    <2>2. ~overlap => \A i \in Rooms :
                        state[i] \notin {"connecting", "connected"}
      BY <1>2 DEF VoiceInv, RoomKept, OneRoom, TakesTime, Live
    <2>3. /\ MakeRoom(t)
          /\ state' = [state EXCEPT ![roomsMade + 1] = "connecting"]
          /\ shown' = "connecting"
          /\ UNCHANGED <<mounted, mounts, effect, wanted, failed, overlap>>
      BY <1>2 DEF Token, voiceHistory
    <2>4. /\ call' \in [Calls -> CallRecords]
          /\ room' \in 0..MaxRooms /\ roomsMade' \in 0..MaxRooms
          /\ state' \in [Rooms -> States \cup {"none"}]
          /\ TokensConnect' /\ RoomMade'
          /\ ~overlap' => RoomKept'
      BY <1>1, <2>1, <2>2, <2>3, MakeRoomStep
    <2> QED BY <2>3, <2>4 DEF VoiceInv, VoiceTypeOK, CallRecords, States
  <1>3. CASE Token(t) /\ TakesTime
    <2> DEFINE k == Closing("connect")
    <2>1. /\ k \in CallRecords
          /\ k.op = "connect" /\ k.at = "closing" /\ k.room = room
      BY DEF Closing, Closers, CallRecords, VoiceInv, VoiceTypeOK
    <2>2. /\ call' = [call EXCEPT ![t] = k]
          /\ UNCHANGED <<mounted, mounts, shown, effect, room, state,
                         roomsMade, wanted, failed, overlap>>
      BY <1>3 DEF Token, service, voiceHistory
    <2> HIDE DEF k
    <2>3. call'[t] = k /\ \A u \in Calls : u # t => call'[u] = call[u]
      BY <1>1, <2>2
    <2>4. call' \in [Calls -> CallRecords]
      BY <1>1, <2>1, <2>2
    <2>5. TokensConnect' /\ RoomMade'
      BY <2>1, <2>2, <2>3 DEF VoiceInv, TokensConnect, RoomMade
    <2>6. ASSUME ~overlap'
          PROVE  RoomKept'
      <3>1. RoomKept
        BY <2>2, <2>6 DEF VoiceInv
      <3>2. Coming(t)
        BY <1>3 DEF Token, Coming, VoiceInv, TokensConnect
      <3>3. \A u \in Calls : u # t => call[u].at = "idle"
        BY <3>1, <3>2 DEF RoomKept, ConnectAlone
      <3>4. \A u \in Calls : u # t => call'[u].at = "idle"
        BY <2>3, <3>3
      <3>5. room \in Live
        <4>1. \A u \in Calls : call[u].at # "closing"
          BY <1>3, <3>3 DEF Token
        <4> QED BY <1>3, <4>1 DEF TakesTime, Closers
      <3>6. room # 0
        BY <3>5 DEF Live, Rooms
      <3>7. ClosersKnown'
        BY <2>1, <2>2, <2>3, <3>4, <3>6 DEF ClosersKnown
      <3>8. ConnectAlone'
        BY <3>4 DEF ConnectAlone, Coming
      <3>9. mounted
        BY <3>1, <3>2 DEF RoomKept, HungUp, VoiceInv, VoiceTypeOK
      <3>10. Live' = Live
        BY <2>2 DEF Live
      <3> QED
        BY <2>2, <3>1, <3>7, <3>8, <3>9, <3>10 DEF RoomKept, OneRoom, HungUp
    <2> QED BY <2>2, <2>4, <2>5, <2>6 DEF VoiceInv, VoiceTypeOK, CallRecords
  <1>4. CASE TokenFails(t)
    <2>1. Live' = Live
      BY <1>4 DEF TokenFails, service, Live
    <2> QED
      BY <1>1, <1>4, <2>1, EndStep
      DEF TokenFails, hook, service, VoiceInv, VoiceTypeOK
  <1>5. CASE Closed(t) /\ call[t].op = "connect"
    <2>1. Coming(t)
      BY <1>5 DEF Closed, Coming
    <2>2. ASSUME ~overlap, NEW i \in Rooms
          PROVE  left[i] \notin {"connecting", "connected"}
      <3>1. room \in {0, r}
        BY <1>5, <2>2 DEF Closed, VoiceInv, RoomKept, ClosersKnown
      <3>2. Live \subseteq {r}
        BY <2>2, <3>1 DEF VoiceInv, RoomKept, OneRoom, Live, Rooms
      <3> QED BY <1>1, <3>2 DEF Live
    <2>3. /\ MakeRoom(t)
          /\ state' = [left EXCEPT ![roomsMade + 1] = "connecting"]
          /\ shown' = "connecting"
          /\ UNCHANGED <<mounted, mounts, effect, wanted, failed, overlap>>
      BY <1>5 DEF Closed, voiceHistory
    <2> HIDE DEF left
    <2>4. /\ call' \in [Calls -> CallRecords]
          /\ room' \in 0..MaxRooms /\ roomsMade' \in 0..MaxRooms
          /\ state' \in [Rooms -> States \cup {"none"}]
          /\ TokensConnect' /\ RoomMade'
          /\ ~overlap' => RoomKept'
      BY <1>1, <2>1, <2>2, <2>3, MakeRoomStep
    <2> QED BY <2>3, <2>4 DEF VoiceInv, VoiceTypeOK, CallRecords, States
  <1>6. CASE Closed(t) /\ call[t].op # "connect"
    <2>1. /\ call' = [call EXCEPT ![t] = None]
          /\ room' = 0 /\ state' = left
          /\ shown' \in {"disconnected", shown}
          /\ UNCHANGED <<mounted, mounts, effect, roomsMade, wanted, failed,
                         overlap>>
      BY <1>6 DEF Closed, voiceHistory
    <2>2. None \in CallRecords /\ None.at = "idle"
      BY VoiceAssumption DEF None, CallRecords
    <2>3. call'[t] = None /\ \A u \in Calls : u # t => call'[u] = call[u]
      BY <1>1, <2>1
    <2>4. call' \in [Calls -> CallRecords] /\ room' \in 0..MaxRooms
      BY <1>1, <2>1, <2>2, VoiceAssumption
    <2>5. TokensConnect' /\ RoomMade'
      BY <2>1, <2>2, <2>3 DEF VoiceInv, TokensConnect, RoomMade
    <2>6. ASSUME ~overlap'
          PROVE  RoomKept'
      <3>1. RoomKept
        BY <2>1, <2>6 DEF VoiceInv
      <3>2. room \in {0, r}
        BY <1>6, <3>1 DEF Closed, RoomKept, ClosersKnown
      <3>3. Live \subseteq {r}
        BY <3>1, <3>2 DEF RoomKept, OneRoom, Live, Rooms
      <3>4. Live' = {}
        BY <1>1, <2>1, <3>3 DEF Live
      <3>5. \A u \in Calls : /\ call[u].at = "idle" => call'[u].at = "idle"
                             /\ Coming(u)' => Coming(u)
                             /\ call'[u].at = "closing" => call'[u] = call[u]
        BY <2>2, <2>3 DEF Coming
      <3> QED
        BY <2>1, <3>1, <3>4, <3>5
        DEF RoomKept, OneRoom, ClosersKnown, ConnectAlone, HungUp
    <2> QED
      BY <1>1, <2>1, <2>4, <2>5, <2>6
      DEF VoiceInv, VoiceTypeOK, CallRecords, States
  <1>7. CASE Opened(t) \/ OpenFails(t)
    <2>1. /\ call[t].at = "opening" /\ state[r] = "connecting"
          /\ call' = [call EXCEPT ![t] = None]
          /\ shown' \in {"connected", "disconnected"}
          /\ \E st \in {"connected", "disconnected"} :
               state' = [state EXCEPT ![r] = st]
          /\ failed' \in BOOLEAN
          /\ UNCHANGED <<mounted, mounts, effect, room, roomsMade, wanted,
                         overlap>>
      BY <1>7 DEF Opened, OpenFails, voiceHistory, VoiceInv, VoiceTypeOK
    <2>2. /\ state' \in [Rooms -> States \cup {"none"}]
          /\ \A i \in Rooms : state[i] # "none" => state'[i] # "none"
      BY <1>1, <2>1 DEF States
    <2>3. Live' \subseteq Live
      BY <1>1, <2>1 DEF Live
    <2> QED BY <2>1, <2>2, <2>3, EndStep DEF States
  <1>8. CASE Aborted(t)
    <2>1. Live' = Live
      BY <1>8 DEF Aborted, service, Live
    <2> QED
      BY <1>1, <1>8, <2>1, EndStep
      DEF Aborted, hook, service, voiceHistory, VoiceInv, VoiceTypeOK
  <1> QED
    BY <1>2, <1>3, <1>4, <1>5, <1>6, <1>7, <1>8 DEF Service

LEMMA VoiceStep ==
    ASSUME VoiceInv, [VoiceNext]_voiceVars
    PROVE  VoiceInv'
  <1>1. CASE UNCHANGED voiceVars
    BY <1>1
    DEF voiceVars, hook, service, voiceHistory, VoiceInv, VoiceTypeOK,
        TokensConnect, RoomMade, RoomKept, OneRoom, ClosersKnown,
        ConnectAlone, HungUp, Live, Coming
  <1>2. CASE Show
    <2>1. UNCHANGED <<room, state, roomsMade, call, wanted, failed, overlap>>
      BY <1>2 DEF Show, service, voiceHistory
    <2>2. /\ mounted' = TRUE /\ mounts' \in 0..MaxMounts
          /\ shown' \in States /\ effect' \in States
      <3>1. room # 0 => room \in Rooms
        BY VoiceAssumption DEF VoiceInv, VoiceTypeOK, Rooms
      <3>2. shown' \in States
        BY <1>2, <3>1
        DEF Show, VoiceInv, VoiceTypeOK, RoomMade, States
      <3> QED
        BY <1>2, <3>2, VoiceAssumption
        DEF Show, VoiceInv, VoiceTypeOK, States
    <2> QED
      BY <2>1, <2>2
      DEF VoiceInv, VoiceTypeOK, TokensConnect, RoomMade, RoomKept, OneRoom,
          ClosersKnown, ConnectAlone, HungUp, Live, Coming
  <1> QED BY <1>1, <1>2, PanelStep, ServiceStep DEF VoiceNext

(* The state of the panel, the service and its rooms keeps its types: what *)
(* the panel shows is never the state of a room that was not made.         *)
THEOREM VoiceTypeCorrect == VoiceSpec => []VoiceTypeOK
  <1>1. VoiceInit => VoiceInv
    BY VoiceInitially
  <1>2. VoiceInv /\ [VoiceNext]_voiceVars => VoiceInv'
    BY VoiceStep
  <1>3. VoiceInv => VoiceTypeOK
    BY DEF VoiceInv
  <1> QED BY <1>1, <1>2, <1>3, PTL DEF VoiceSpec

(* As long as no connect meets another call before its room is made, no    *)
(* room goes on without the service and a panel that is gone leaves nobody *)
(* connected, however effects, clicks, tokens and rooms interleave.        *)
THEOREM NobodyIsLeftBehind == VoiceSpec => []NobodyLeftBehind
  <1>1. VoiceInit => VoiceInv
    BY VoiceInitially
  <1>2. VoiceInv /\ [VoiceNext]_voiceVars => VoiceInv'
    BY VoiceStep
  <1>3. VoiceInv => NobodyLeftBehind
    BY DEF VoiceInv, RoomKept, OneRoom, HungUp, NobodyLeftBehind, Settled
  <1> QED BY <1>1, <1>2, <1>3, PTL DEF VoiceSpec
=============================================================================
