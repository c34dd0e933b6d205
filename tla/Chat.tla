-------------------------------- MODULE Chat ---------------------------------
(***************************************************************************)
(* One signed-in browser and the channels it reads: the sockets that       *)
(* wsService opens, selectChannel and its retries, the channel:join        *)
(* handler with its snapshot of the history, message:new, and the message  *)
(* store (services/websocket.ts, hooks/useAuth.ts, hooks/useWebSocket.ts,  *)
(* hooks/useGuilds.ts, store/messages.ts, websocket.gateway.ts).           *)
(*                                                                         *)
(* A handler of the gateway gives way at each await: a join has joined the *)
(* room, read the history or emitted channel:ready.  A socket carries      *)
(* packets in order both ways and loses them when it breaks; socket.io     *)
(* connects again by itself, as a new socket for the server.  The channels *)
(* are ones the user may read; other users are the messages they send.     *)
(***************************************************************************)
EXTENDS Integers, Sequences, FiniteSets, SequencesExt

CONSTANTS
    Channels, Messages,
    MaxSockets,      \* bound: sockets one tab ever makes
    MaxPicks,        \* bound: calls of selectChannel
    MaxLosses,       \* bound: connections that break
    Limit,           \* messages in a channel:ready (50)
    NoChannel

ASSUME ChatAssumption ==
    /\ MaxSockets \in Nat /\ MaxPicks \in Nat /\ MaxLosses \in Nat
    /\ Limit \in Nat \ {0}
    /\ NoChannel \notin Channels

Sockets == 1..MaxSockets

VARIABLES
    auth,        \* isAuthenticated
    socket,      \* wsService.socket, 0 for null
    made,        \* sockets made so far
    connected,   \* useWebSocketStore.isConnected
    connecting,  \* useWebSocketStore.isConnecting
    link,        \* link[s]: the connection of s, as the client knows it
    user,        \* user[s]: client.user at the gateway
    rooms,       \* rooms[s]: the channel rooms s is in
    outbox,      \* outbox[s]: channels of the channel:join packets under way
    inbox,       \* inbox[s]: events under way to the client
    joins,       \* running handlers of channel:join
    selected,    \* the current channel
    retry,       \* retry[c]: tryJoin timers for c
    saved,       \* saved[c]: the messages of c that are not deleted, in order
    deleted,     \* the messages with isDeleted set
    emitting,    \* saved messages whose message:new is to be emitted
    view,        \* view[c]: useMessageStore.messages
    picks, losses,
    risky,       \* history: saved while a snapshot without it was under way
    unheard,     \* history: emitted to no room of the client, or left to a
                 \*   join that failed
    revived,     \* history: a deletion brought it back among the newest
    readied      \* history: channel:ready of the selected channel was seen

tab     == <<auth, socket, made, connected, connecting>>
server  == <<user, rooms, joins>>
store   == <<saved, deleted, emitting>>
history == <<risky, unheard, revived, readied>>
vars    == <<tab, link, server, outbox, inbox, selected, retry, store, view,
             picks, losses, history>>

Ready(c, list) == [kind |-> "ready", chan |-> c, list |-> list]
New(c, m)      == [kind |-> "new", chan |-> c, msg |-> m]

Events ==
    [kind : {"ready"}, chan : Channels, list : Seq(Messages)]
      \cup [kind : {"new"}, chan : Channels, msg : Messages]

Handlers == [sock : Sockets, chan : Channels, pc : {"find", "read", "emit"},
             list : Seq(Messages)]

AllSaved == UNION {ToSet(saved[c]) : c \in Channels}

Incoming == UNION {ToSet(inbox[s]) : s \in Sockets}

TypeOK ==
    /\ auth \in BOOLEAN /\ connected \in BOOLEAN /\ connecting \in BOOLEAN
    /\ socket \in 0..MaxSockets /\ made \in 0..MaxSockets
    /\ link \in [Sockets -> {"none", "opening", "open", "down", "closed"}]
    /\ user \in [Sockets -> {"none", "checking", "set"}]
    /\ rooms \in [Sockets -> SUBSET Channels]
    /\ outbox \in [Sockets -> Seq(Channels)]
    /\ inbox \in [Sockets -> Seq(Events)]
    /\ joins \subseteq Handlers
    /\ selected \in Channels \cup {NoChannel}
    /\ retry \in [Channels -> 0..MaxPicks]
    /\ saved \in [Channels -> Seq(Messages)]
    /\ deleted \subseteq Messages
    /\ emitting \subseteq Channels \X Messages
    /\ view \in [Channels -> Seq(Messages)]
    /\ picks \in 0..MaxPicks /\ losses \in 0..MaxLosses
    /\ risky \subseteq Messages /\ unheard \subseteq Messages
    /\ revived \subseteq Messages /\ readied \in BOOLEAN

Init ==
    /\ auth = FALSE /\ connected = FALSE /\ connecting = FALSE
    /\ socket = 0 /\ made = 0
    /\ link = [s \in Sockets |-> "none"]
    /\ user = [s \in Sockets |-> "none"]
    /\ rooms = [s \in Sockets |-> {}]
    /\ outbox = [s \in Sockets |-> <<>>]
    /\ inbox = [s \in Sockets |-> <<>>]
    /\ joins = {}
    /\ selected = NoChannel
    /\ retry = [c \in Channels |-> 0]
    /\ saved = [c \in Channels |-> <<>>]
    /\ deleted = {} /\ emitting = {}
    /\ view = [c \in Channels |-> <<>>]
    /\ picks = 0 /\ losses = 0
    /\ risky = {} /\ unheard = {} /\ revived = {} /\ readied = FALSE
-----------------------------------------------------------------------------
(* wsService.connect, n times: the field is replaced, the sockets made     *)
(* before stay.                                                            *)
Connects(n) ==
    /\ made + n <= MaxSockets
    /\ made' = made + n
    /\ socket' = made + n
    /\ link' = [s \in Sockets |-> IF s > made /\ s <= made + n THEN "opening"
                                                              ELSE link[s]]

(* The user signs in.  In App the effect of useAuth connects, and that of  *)
(* useWebSocket once more unless the store says it is connected or         *)
(* connecting.                                                             *)
SignIn ==
    /\ ~auth
    /\ auth' = TRUE
    /\ Connects(IF connected \/ connecting THEN 1 ELSE 2)
    /\ connecting' = TRUE
    /\ UNCHANGED <<connected, server, outbox, inbox, selected, retry, store,
                   view, picks, losses, history>>

(* A component that calls useAuth mounts (ChatWindow, the pages). *)
Mount ==
    /\ auth
    /\ Connects(1)
    /\ UNCHANGED <<auth, connected, connecting, server, outbox, inbox,
                   selected, retry, store, view, picks, losses, history>>

(* The connection of the sockets S ends: rooms, handlers and packets go.   *)
Dropped(S, l) ==
    /\ link' = [s \in Sockets |-> IF s \in S THEN l ELSE link[s]]
    /\ user' = [s \in Sockets |-> IF s \in S THEN "none" ELSE user[s]]
    /\ rooms' = [s \in Sockets |-> IF s \in S THEN {} ELSE rooms[s]]
    /\ outbox' = [s \in Sockets |-> IF s \in S THEN <<>> ELSE outbox[s]]
    /\ inbox' = [s \in Sockets |-> IF s \in S THEN <<>> ELSE inbox[s]]
    /\ joins' = {j \in joins : j.sock \notin S}
    /\ unheard' = IF S = {} THEN unheard ELSE unheard \cup AllSaved

(* signOut, wsService.disconnect and the effects of the two hooks. *)
SignOut ==
    /\ auth
    /\ auth' = FALSE
    /\ Dropped({socket} \ {0}, "closed")
    /\ socket' = 0
    /\ connected' = FALSE /\ connecting' = FALSE
    /\ UNCHANGED <<made, selected, retry, store, view, picks, losses, risky,
                   revived, readied>>

(* A socket connects, for the first time or again, and the gateway starts  *)
(* handleConnection.  Signed out, the effect of useWebSocket that the flag *)
(* triggers sets it back.                                                  *)
Open(s) ==
    /\ link[s] \in {"opening", "down"}
    /\ link' = [link EXCEPT ![s] = "open"]
    /\ connected' = auth
    /\ user' = [user EXCEPT ![s] = "checking"]
    /\ UNCHANGED <<auth, socket, made, connecting, rooms, joins, outbox,
                   inbox, selected, retry, store, view, picks, losses,
                   history>>

(* handleConnection past findById. *)
Attach(s) ==
    /\ user[s] = "checking"
    /\ user' = [user EXCEPT ![s] = "set"]
    /\ UNCHANGED <<tab, link, rooms, joins, outbox, inbox, selected, retry,
                   store, view, picks, losses, history>>

(* handleConnection refuses the token, or fails in an await, the one of    *)
(* updateStatus behind the attached user included: the server closes the   *)
(* socket, and socket.io does not try again.                               *)
Reject(s) ==
    /\ user[s] # "none"
    /\ Dropped({s}, "closed")
    /\ connected' = FALSE
    /\ UNCHANGED <<auth, socket, made, connecting, selected, retry, store,
                   view, picks, losses, risky, revived, readied>>

Lose(s) ==
    /\ link[s] = "open" /\ losses < MaxLosses
    /\ losses' = losses + 1
    /\ Dropped({s}, "down")
    /\ connected' = FALSE
    /\ UNCHANGED <<auth, socket, made, connecting, selected, retry, store,
                   view, picks, risky, revived, readied>>

(* reconnectionAttempts *)
GiveUp(s) ==
    /\ link[s] = "down"
    /\ link' = [link EXCEPT ![s] = "closed"]
    /\ UNCHANGED <<tab, server, outbox, inbox, selected, retry, store, view,
                   picks, losses, history>>
-----------------------------------------------------------------------------
IsConnected == socket # 0 /\ link[socket] = "open"

(* selectChannel: the join is emitted at once, or by a timer. *)
Select(c) ==
    /\ auth
    /\ picks < MaxPicks
    /\ picks' = picks + 1
    /\ selected' = c
    /\ readied' = FALSE
    /\ IF IsConnected
       THEN /\ outbox' = [outbox EXCEPT ![socket] = Append(@, c)]
            /\ UNCHANGED retry
       ELSE /\ retry' = [retry EXCEPT ![c] = @ + 1]
            /\ UNCHANGED outbox
    /\ UNCHANGED <<tab, link, server, inbox, store, view, losses, risky,
                   unheard, revived>>

(* mutant: a channel left meanwhile is not joined, and its timer set again *)
RetryAgain(c) ==
    /\ retry[c] > 0
    /\ IsConnected /\ selected = c
    /\ retry' = [retry EXCEPT ![c] = @ - 1]
    /\ outbox' = [outbox EXCEPT ![socket] = Append(@, c)]
    /\ UNCHANGED <<tab, link, server, inbox, selected, store, view, picks,
                   losses, history>>

(* tryJoin, which sets its timer again as long as it is not connected. *)
Retry(c) ==
    /\ retry[c] > 0
    /\ IsConnected
    /\ retry' = [retry EXCEPT ![c] = @ - 1]
    /\ outbox' = [outbox EXCEPT ![socket] = Append(@, c)]
    /\ UNCHANGED <<tab, link, server, inbox, selected, store, view, picks,
                   losses, history>>
-----------------------------------------------------------------------------
(* handleJoinChannel: dropped when no user is attached yet.  Bound: one    *)
(* handler for a socket and a channel at a time.                           *)
ReceiveJoin(s) ==
    /\ outbox[s] # <<>>
    /\ LET c == Head(outbox[s]) IN
         /\ ~ \E j \in joins : j.sock = s /\ j.chan = c
         /\ joins' = IF user[s] # "set" THEN joins
                     ELSE joins \cup {[sock |-> s, chan |-> c, pc |-> "find",
                                       list |-> <<>>]}
    /\ outbox' = [outbox EXCEPT ![s] = Tail(@)]
    /\ UNCHANGED <<tab, link, user, rooms, inbox, selected, retry, store,
                   view, picks, losses, history>>

(* channelsService.findOne and client.join *)
JoinRoom(j) ==
    /\ j.pc = "find"
    /\ rooms' = [rooms EXCEPT ![j.sock] = @ \cup {j.chan}]
    /\ joins' = (joins \ {j}) \cup {[j EXCEPT !.pc = "read"]}
    /\ UNCHANGED <<tab, link, user, outbox, inbox, selected, retry, store,
                   view, picks, losses, history>>

(* messagesService.findAll: the newest that are not deleted, turned round  *)
(* by the handler.                                                         *)
LastOf(list) ==
    LET n == Len(list)
    IN  IF n <= Limit THEN list ELSE SubSeq(list, n - Limit + 1, n)

Newest(c) == LastOf(saved[c])

ReadHistory(j) ==
    /\ j.pc = "read"
    /\ joins' = (joins \ {j})
                  \cup {[j EXCEPT !.pc = "emit", !.list = Newest(j.chan)]}
    /\ UNCHANGED <<tab, link, user, rooms, outbox, inbox, selected, retry,
                   store, view, picks, losses, history>>

EmitReady(j) ==
    /\ j.pc = "emit"
    /\ inbox' = [inbox EXCEPT ![j.sock] = Append(@, Ready(j.chan, j.list))]
    /\ joins' = joins \ {j}
    /\ UNCHANGED <<tab, link, user, rooms, outbox, selected, retry, store,
                   view, picks, losses, history>>

(* A message is shown, under way, or in a snapshot under way. *)
Shown(c, m) ==
    \/ m \in ToSet(view[c])
    \/ <<c, m>> \in emitting
    \/ \E e \in Incoming :
         /\ e.chan = c
         /\ IF e.kind = "new" THEN e.msg = m ELSE m \in ToSet(e.list)

(* One of the joins J will show it. *)
Promised(J, c, m) ==
    \E j \in J : /\ j.chan = c
                 /\ j.pc \in {"find", "read"} \/ m \in ToSet(j.list)

Heard(c, m) == Shown(c, m) \/ Promised(joins, c, m)

(* An await of the handler fails: an error event, no channel:ready.  What  *)
(* was left to its snapshot is not shown; the room stays joined.           *)
JoinFails(j) ==
    /\ j.pc \in {"find", "read"}
    /\ joins' = joins \ {j}
    /\ unheard' = unheard \cup
                    {m \in ToSet(saved[j.chan]) :
                       ~Shown(j.chan, m) /\ ~Promised(joins \ {j}, j.chan, m)}
    /\ UNCHANGED <<tab, link, user, rooms, outbox, inbox, selected, retry,
                   store, view, picks, losses, risky, revived, readied>>
-----------------------------------------------------------------------------
(* A snapshot of c has been read and is not applied yet. *)
Outstanding(c) ==
    \/ \E j \in joins : j.chan = c /\ j.pc = "emit" /\ c \in rooms[j.sock]
    \/ \E e \in Incoming : e.kind = "ready" /\ e.chan = c

(* handleSendMessage up to the await of create. *)
Save(c, m) ==
    /\ m \notin AllSaved \cup deleted
    /\ saved' = [saved EXCEPT ![c] = Append(@, m)]
    /\ emitting' = emitting \cup {<<c, m>>}
    /\ risky' = IF Outstanding(c) THEN risky \cup {m} ELSE risky
    /\ UNCHANGED <<tab, link, server, outbox, inbox, selected, retry, deleted,
                   view, picks, losses, unheard, revived, readied>>

(* POST /channels/:id/messages: no event is emitted. *)
SaveRest(c, m) ==
    /\ m \notin AllSaved \cup deleted
    /\ saved' = [saved EXCEPT ![c] = Append(@, m)]
    /\ unheard' = unheard \cup {m}
    /\ UNCHANGED <<tab, link, server, outbox, inbox, selected, retry, deleted,
                   emitting, view, picks, losses, risky, revived, readied>>

(* remove, or deleteMessage of an admin: no event is emitted, and of the   *)
(* older messages one is among the newest again.                           *)
Delete(c, i) ==
    LET list == RemoveAt(saved[c], i) IN
    /\ saved' = [saved EXCEPT ![c] = list]
    /\ deleted' = deleted \cup {saved[c][i]}
    /\ revived' = revived \cup
                    {m \in ToSet(LastOf(list)) \ ToSet(Newest(c)) :
                       Outstanding(c) \/ ~Heard(c, m)}
    /\ UNCHANGED <<tab, link, server, outbox, inbox, selected, retry,
                   emitting, view, picks, losses, risky, unheard, readied>>

Listeners(c) == {s \in Sockets : link[s] = "open" /\ c \in rooms[s]}

(* mutant: to the room without the sender, as typing is *)
EmitToOthers(c, m) ==
    /\ <<c, m>> \in emitting
    /\ emitting' = emitting \ {<<c, m>>}
    /\ inbox' = [s \in Sockets |-> IF s \in Listeners(c) \ {socket}
                                   THEN Append(inbox[s], New(c, m))
                                   ELSE inbox[s]]
    /\ unheard' = IF /\ Listeners(c) = {}
                     /\ ~ \E j \in joins : j.chan = c
                  THEN unheard \cup {m} ELSE unheard
    /\ UNCHANGED <<tab, link, server, outbox, selected, retry, saved, deleted,
                   view, picks, losses, risky, revived, readied>>

(* The rest of handleSendMessage: message:new to the room. *)
Emit(c, m) ==
    /\ <<c, m>> \in emitting
    /\ emitting' = emitting \ {<<c, m>>}
    /\ inbox' = [s \in Sockets |-> IF s \in Listeners(c)
                                   THEN Append(inbox[s], New(c, m))
                                   ELSE inbox[s]]
    /\ unheard' = IF /\ Listeners(c) = {}
                     /\ ~ \E j \in joins : j.chan = c
                  THEN unheard \cup {m} ELSE unheard
    /\ UNCHANGED <<tab, link, server, outbox, selected, retry, saved, deleted,
                   view, picks, losses, risky, revived, readied>>

(* setMessages, addMessage *)
Applied(e) ==
    IF e.kind = "ready" THEN [view EXCEPT ![e.chan] = e.list]
    ELSE [view EXCEPT ![e.chan] = Append(@, e.msg)]

Deliver(s) ==
    /\ inbox[s] # <<>>
    /\ LET e == Head(inbox[s]) IN
         /\ view' = Applied(e)
         /\ readied' = (readied \/ (e.kind = "ready" /\ e.chan = selected))
    /\ inbox' = [inbox EXCEPT ![s] = Tail(@)]
    /\ UNCHANGED <<tab, link, server, outbox, selected, retry, store, picks,
                   losses, risky, unheard, revived>>
-----------------------------------------------------------------------------
Client ==
    \/ SignIn \/ Mount \/ SignOut
    \/ \E c \in Channels : Select(c) \/ Retry(c)
    \/ \E s \in Sockets : Deliver(s)

Network == \E s \in Sockets : Open(s) \/ Lose(s) \/ GiveUp(s)

Server ==
    \/ \E s \in Sockets : Attach(s) \/ Reject(s) \/ ReceiveJoin(s)
    \/ \E j \in joins : \/ JoinRoom(j) \/ ReadHistory(j) \/ EmitReady(j)
                        \/ JoinFails(j)
    \/ \E c \in Channels, m \in Messages :
         Save(c, m) \/ SaveRest(c, m) \/ Emit(c, m)
    \/ \E c \in Channels : \E i \in DOMAIN saved[c] : Delete(c, i)

Next == Client \/ Network \/ Server

Spec == Init /\ [][Next]_vars

(* Timers fire. *)
LiveSpec == Spec /\ \A c \in Channels : WF_vars(Retry(c))
-----------------------------------------------------------------------------
(* Of the newest messages of a channel, as channel:ready would list them,  *)
(* the client misses none but these: emitted while it was in no room or    *)
(* left to a join that failed, saved while an older snapshot was on its    *)
(* way, brought back by the deletion of a newer one.                       *)
NeverMissed ==
    \A c \in Channels : \A m \in ToSet(Newest(c)) :
      m \in risky \/ m \in unheard \/ m \in revived \/ Heard(c, m)

(* tryJoin ends: once the socket stays connected every selected channel is *)
(* asked for and no timer is left.                                         *)
RetriesEnd == <>[]IsConnected => <>[](\A c \in Channels : retry[c] = 0)

-----------------------------------------------------------------------------
(* What the documentation says and the code does not keep.  TLC refutes    *)
(* the statements below; the README gives the behaviours.                  *)

(* Messages are received in real time (TEST_CHECKLIST.md:102): a client    *)
(* that stays in the room is shown every message, also one saved while a   *)
(* snapshot was on its way.                                                *)
MessagesComplete ==
    \A c \in Channels : \A m \in ToSet(Newest(c)) :
      m \in unheard \/ m \in revived \/ Heard(c, m)

(* "Actual disconnect should be handled by explicit call or when auth      *)
(* state changes" (useWebSocket.ts:50): signed out, no socket is left.     *)
SignedOutClosed ==
    ~auth => \A s \in Sockets : link[s] \in {"none", "closed"}

(* Nothing is under way between the client and the gateway. *)
Quiet ==
    /\ \A c \in Channels : retry[c] = 0
    /\ \A s \in Sockets : outbox[s] = <<>> /\ inbox[s] = <<>>
                          /\ user[s] # "checking"
    /\ joins = {}

InRoom == \E s \in Sockets : link[s] = "open" /\ selected \in rooms[s]

(* "Ensure socket is connected before emitting; if not connected, buffer   *)
(* or retry" (useGuilds.ts:88): a connected client that selected a channel *)
(* is in its room once everything has been handled.                        *)
SelectedJoined ==
    auth /\ Quiet /\ IsConnected /\ selected # NoChannel => InRoom

(* Reconnection after a break (TEST_CHECKLIST.md:106): a client that was   *)
(* shown its channel and is connected again is in the room.                *)
Rejoined ==
    auth /\ Quiet /\ IsConnected /\ readied => InRoom
=============================================================================
