------------------------------- MODULE Gateway -------------------------------
(***************************************************************************)
(* The websocket gateway of the backend: who is connected, which socket is *)
(* in which socket.io room, which users the Redis member sets list and     *)
(* which status the users table shows.                                     *)
(*                                                                         *)
(* Every handler of WebsocketGateway is an async function.  A handler runs *)
(* without interruption from one database or Redis await to the next, and  *)
(* the handlers of all sockets interleave at those awaits; one action of   *)
(* this module is one such segment.  Database queries go through a pool,   *)
(* so a query takes effect at any moment after it was issued.  Redis       *)
(* commands travel on one connection and take effect in the order in which *)
(* they are issued.  Rooms live in the memory of the process (the default  *)
(* socket.io adapter), so `await client.join()` does not wait for anything.*)
(*                                                                         *)
(* A socket is one connection: it opens once and closes once, and a        *)
(* reconnecting client is a new socket.  The bound of the model is the     *)
(* number of sockets, and one channel:join handler in flight per socket    *)
(* and channel.                                                            *)
(***************************************************************************)
EXTENDS Naturals, FiniteSets

CONSTANTS
    Users,       \* ids the users table ever has
    Sockets,     \* connections that may ever be made
    Channels,    \* rows of the channels table at start-up
    Guilds,      \* guild ids clients name in guild:join
    UserOf,      \* the subject of the token each socket presents
    CreatorOf,   \* createdById of each channel
    UserRoom     \* the room `user:<id>` of a socket's own user

ASSUME GatewayAssumption ==
    /\ UserOf \in [Sockets -> Users]
    /\ CreatorOf \in [Channels -> Users]
    /\ Channels \cap Guilds = {}
    /\ UserRoom \notin Channels \cup Guilds

VARIABLES
    conn,        \* conn[s]: the transport of socket s
    attached,    \* attached[s]: client.user has been set
    rooms,       \* rooms[s]: the rooms socket s is in
    connecting,  \* where handleConnection of s stands
    leaving,     \* where handleDisconnect of s stands
    todo,        \* todo[s]: keys removeChannelMemberFromAll has yet to visit
    joining,     \* where handleJoinChannel of s for channel c stands
    row,         \* row[u]: the status column of u; "new" before, "none" after
    chan,        \* chan[c]: the isPrivate column of c, or "deleted"
    members,     \* members[c]: the Redis set channel:<c>:members
    granted,     \* history: the <<u, c>> for which findOne has succeeded
    ghost,       \* history: the <<u, c>> listings that lost their cleanup
    missed,      \* history: the <<u, c>> that lost their listing in the room
    stuck        \* history: users put online by no socket, or by one gone

server   == <<conn, attached, rooms, connecting, leaving, todo, joining>>
stored   == <<row, chan, members>>
history  == <<granted, ghost, missed, stuck>>
vars     == <<server, stored, history>>

Exists(u) == row[u] \in {"online", "offline"}

Of(u)    == {s \in Sockets : UserOf[s] = u}

(* The listing that socket s stands for in channel c. *)
Listing(s, c) == <<UserOf[s], c>>

TypeOK ==
    /\ conn \in [Sockets -> {"new", "open", "closed"}]
    /\ attached \in [Sockets -> BOOLEAN]
    /\ rooms \in [Sockets -> SUBSET (Channels \cup Guilds \cup {UserRoom})]
    /\ connecting \in [Sockets -> {"idle", "find", "online", "confirm"}]
    /\ leaving \in [Sockets -> {"idle", "offline", "scan", "sweep"}]
    /\ todo \in [Sockets -> SUBSET Channels]
    /\ joining \in [Sockets -> [Channels -> {"idle", "find", "granted", "history"}]]
    /\ row \in [Users -> {"new", "online", "offline", "none"}]
    /\ chan \in [Channels -> {"public", "private", "deleted"}]
    /\ members \in [Channels -> SUBSET Users]
    /\ granted \in SUBSET (Users \X Channels)
    /\ ghost \in SUBSET (Users \X Channels)
    /\ missed \in SUBSET (Users \X Channels)
    /\ stuck \in SUBSET Users

(* The process starts on the tables of an earlier one.  Whoever is online  *)
(* there was put online by register, a magic link or infra/init-db.sql, or *)
(* by a process that died.                                                 *)
Init ==
    /\ conn = [s \in Sockets |-> "new"]
    /\ attached = [s \in Sockets |-> FALSE]
    /\ rooms = [s \in Sockets |-> {}]
    /\ connecting = [s \in Sockets |-> "idle"]
    /\ leaving = [s \in Sockets |-> "idle"]
    /\ todo = [s \in Sockets |-> {}]
    /\ joining = [s \in Sockets |-> [c \in Channels |-> "idle"]]
    /\ row \in [Users -> {"new", "online", "offline"}]
    /\ \A c \in Channels : row[CreatorOf[c]] # "new"
    /\ chan \in [Channels -> {"public", "private"}]
    /\ members = [c \in Channels |-> {}]
    /\ granted = {}
    /\ ghost = {}
    /\ missed = {}
    /\ stuck = {u \in Users : row[u] = "online"}

-----------------------------------------------------------------------------
(* socket.io: closing a socket empties its rooms, turns later joins into   *)
(* no-ops and starts handleDisconnect, whose first test is `client.user`.  *)

(* mutant: handleDisconnect never sees client.user. *)
CloseSocketSilently(s) ==
    /\ conn' = [conn EXCEPT ![s] = "closed"]
    /\ rooms' = [rooms EXCEPT ![s] = {}]
    /\ UNCHANGED leaving

CloseSocket(s) ==
    /\ conn' = [conn EXCEPT ![s] = "closed"]
    /\ rooms' = [rooms EXCEPT ![s] = {}]
    /\ leaving' = [leaving EXCEPT ![s] = IF attached[s] THEN "offline" ELSE "idle"]

(* client.disconnect(): nothing happens when the socket is already closed. *)
Disconnect(s) ==
    IF conn[s] = "open" THEN CloseSocket(s) ELSE UNCHANGED <<conn, rooms, leaving>>

EnterRoom(s, r) ==
    rooms' = [rooms EXCEPT ![s] = IF conn[s] = "open" THEN @ \cup {r} ELSE @]

(* An SREM for channel c issued by socket s names the user: the listing of *)
(* another socket in the room goes with it.                                *)
Unlist(s, c) ==
    /\ members' = [members EXCEPT ![c] = @ \ {UserOf[s]}]
    /\ ghost' = ghost \ {Listing(s, c)}
    /\ missed' = IF \E t \in Of(UserOf[s]) \ {s} : c \in rooms[t]
                 THEN missed \cup {Listing(s, c)} ELSE missed

(* The cleanup of s is still going to issue an SREM for channel c. *)
CleanupReaches(s, c) ==
    \/ leaving[s] \in {"offline", "scan"}
    \/ leaving[s] = "sweep" /\ c \in todo[s]

(* The process dies: rooms and handlers are gone, tables and Redis remain. *)
LoseProcess ==
    /\ conn' = [s \in Sockets |-> IF conn[s] = "open" THEN "closed" ELSE conn[s]]
    /\ rooms' = [s \in Sockets |-> {}]
    /\ connecting' = [s \in Sockets |-> "idle"]
    /\ leaving' = [s \in Sockets |-> "idle"]
    /\ todo' = [s \in Sockets |-> {}]
    /\ joining' = [s \in Sockets |-> [c \in Channels |-> "idle"]]
    /\ ghost' = ghost \cup {p \in Users \X Channels : p[1] \in members[p[2]]}
    /\ stuck' = stuck \cup {u \in Users : row[u] = "online"}
    /\ UNCHANGED <<attached, stored, granted, missed>>

-----------------------------------------------------------------------------
(* handleConnection *)

(* The token was signed for a row that existed. *)
Connect(s) ==
    /\ conn[s] = "new"
    /\ row[UserOf[s]] # "new"
    /\ conn' = [conn EXCEPT ![s] = "open"]
    /\ connecting' = [connecting EXCEPT ![s] = "find"]
    /\ UNCHANGED <<attached, rooms, leaving, todo, joining, stored, history>>

(* No token, or one that jwtService.verify rejects. *)
Refuse(s) ==
    /\ conn[s] = "new"
    /\ CloseSocket(s)
    /\ UNCHANGED <<attached, connecting, todo, joining, stored, history>>

FindUser(s) ==
    /\ connecting[s] = "find"
    /\ Exists(UserOf[s])
    /\ attached' = [attached EXCEPT ![s] = TRUE]
    /\ connecting' = [connecting EXCEPT ![s] = "online"]
    /\ UNCHANGED <<conn, rooms, leaving, todo, joining, stored, history>>

(* The user does not exist, or the query fails. *)
FindUserFails(s) ==
    /\ connecting[s] = "find"
    /\ connecting' = [connecting EXCEPT ![s] = "idle"]
    /\ Disconnect(s)
    /\ UNCHANGED <<attached, todo, joining, stored, history>>

SetOnline(s) ==
    LET u == UserOf[s] IN
    /\ connecting[s] = "online"
    /\ connecting' = [connecting EXCEPT ![s] = "confirm"]
    /\ row' = [row EXCEPT ![u] = IF Exists(u) THEN "online" ELSE @]
    /\ stuck' = IF conn[s] = "closed" /\ leaving[s] # "offline"
                THEN stuck \cup {u} ELSE stuck \ {u}
    /\ UNCHANGED <<conn, attached, rooms, leaving, todo, joining, chan, members,
                   granted, ghost, missed>>

ConfirmOnline(s) ==
    /\ connecting[s] = "confirm"
    /\ Exists(UserOf[s])
    /\ connecting' = [connecting EXCEPT ![s] = "idle"]
    /\ EnterRoom(s, UserRoom)
    /\ UNCHANGED <<conn, attached, leaving, todo, joining, stored, history>>

(* updateStatus throws: a query fails, or the row has gone meanwhile. *)
SetOnlineFails(s) ==
    /\ connecting[s] \in {"online", "confirm"}
    /\ connecting' = [connecting EXCEPT ![s] = "idle"]
    /\ Disconnect(s)
    /\ UNCHANGED <<attached, todo, joining, stored, history>>

-----------------------------------------------------------------------------
(* handleDisconnect *)

Close(s) ==
    /\ conn[s] = "open"
    /\ CloseSocket(s)
    /\ UNCHANGED <<attached, connecting, todo, joining, stored, history>>

(* mutant: the handler never gets past the offline update. *)
SetOfflineOnly(s) ==
    /\ leaving[s] = "offline"
    /\ Exists(UserOf[s])
    /\ row' = [row EXCEPT ![UserOf[s]] = "offline"]
    /\ stuck' = stuck \ {UserOf[s]}
    /\ UNCHANGED <<server, chan, members, granted, ghost, missed>>

SetOffline(s) ==
    LET u == UserOf[s] IN
    /\ leaving[s] = "offline"
    /\ Exists(u)
    /\ row' = [row EXCEPT ![u] = "offline"]
    /\ leaving' = [leaving EXCEPT ![s] = "scan"]
    /\ stuck' = stuck \ {u}
    /\ UNCHANGED <<conn, attached, rooms, connecting, todo, joining, chan, members,
                   granted, ghost, missed>>

(* updateStatus throws for a deleted user; nothing catches the rejection   *)
(* of handleDisconnect, and Node ends the process.                         *)
SetOfflineFails(s) ==
    /\ leaving[s] = "offline"
    /\ ~Exists(UserOf[s])
    /\ LoseProcess

(* mutant: the keys are filtered the wrong way round. *)
ScanOwnKeys(s) ==
    /\ leaving[s] = "scan"
    /\ leaving' = [leaving EXCEPT ![s] = "sweep"]
    /\ todo' = [todo EXCEPT ![s] = {c \in Channels : members[c] = {}}]
    /\ UNCHANGED <<conn, attached, rooms, connecting, joining, stored, history>>

ScanKeys(s) ==
    /\ leaving[s] = "scan"
    /\ leaving' = [leaving EXCEPT ![s] = "sweep"]
    /\ todo' = [todo EXCEPT ![s] = {c \in Channels : members[c] # {}}]
    /\ UNCHANGED <<conn, attached, rooms, connecting, joining, stored, history>>

RemoveFromKey(s, c) ==
    /\ leaving[s] = "sweep"
    /\ c \in todo[s]
    /\ todo' = [todo EXCEPT ![s] = @ \ {c}]
    /\ Unlist(s, c)
    /\ UNCHANGED <<conn, attached, rooms, connecting, leaving, joining, row, chan,
                   granted, stuck>>

(* A Redis error ends removeChannelMemberFromAll; it is swallowed. *)
CleanupFails(s) ==
    /\ \/ leaving[s] = "scan"
       \/ leaving[s] = "sweep" /\ todo[s] # {}
    /\ leaving' = [leaving EXCEPT ![s] = "sweep"]
    /\ todo' = [todo EXCEPT ![s] = {}]
    /\ ghost' = ghost \cup {Listing(s, c) : c \in {d \in Channels : UserOf[s] \in members[d]}}
    /\ UNCHANGED <<conn, attached, rooms, connecting, joining, stored,
                   granted, missed, stuck>>

-----------------------------------------------------------------------------
(* handleJoinChannel and handleLeaveChannel *)

(* channelsService.findOne: the row exists and is public or one's own. *)
Accessible(u, c) ==
    \/ chan[c] = "public"
    \/ chan[c] = "private" /\ CreatorOf[c] = u

Ready(s) == conn[s] = "open" /\ attached[s]

Join(s, c) ==
    /\ Ready(s)
    /\ joining[s][c] = "idle"
    /\ joining' = [joining EXCEPT ![s][c] = "find"]
    /\ UNCHANGED <<conn, attached, rooms, connecting, leaving, todo, stored, history>>

JoinGranted(s, c) ==
    /\ joining[s][c] = "find"
    /\ Accessible(UserOf[s], c)
    /\ joining' = [joining EXCEPT ![s][c] = "granted"]
    /\ granted' = granted \cup {Listing(s, c)}
    /\ UNCHANGED <<conn, attached, rooms, connecting, leaving, todo, stored,
                   ghost, missed, stuck>>

(* Not found, forbidden or a failed query: the client is sent an error. *)
JoinDenied(s, c) ==
    /\ joining[s][c] = "find"
    /\ joining' = [joining EXCEPT ![s][c] = "idle"]
    /\ UNCHANGED <<conn, attached, rooms, connecting, leaving, todo, stored, history>>

(* client.join, then the SADD is issued. *)
JoinEnter(s, c) ==
    /\ joining[s][c] = "granted"
    /\ joining' = [joining EXCEPT ![s][c] = "history"]
    /\ EnterRoom(s, c)
    /\ members' = [members EXCEPT ![c] = @ \cup {UserOf[s]}]
    /\ ghost' = IF conn[s] = "closed" /\ ~CleanupReaches(s, c)
                THEN ghost \cup {Listing(s, c)} ELSE ghost
    /\ missed' = missed \ {Listing(s, c)}
    /\ UNCHANGED <<conn, attached, connecting, leaving, todo, row, chan, granted, stuck>>

(* The SADD fails; addChannelMember swallows the error and the join goes on. *)
JoinUnlisted(s, c) ==
    /\ joining[s][c] = "granted"
    /\ joining' = [joining EXCEPT ![s][c] = "history"]
    /\ EnterRoom(s, c)
    /\ missed' = missed \cup {Listing(s, c)}
    /\ UNCHANGED <<conn, attached, connecting, leaving, todo, stored,
                   granted, ghost, stuck>>

(* Members and messages are read, and channel:ready is emitted; or the     *)
(* access check of messagesService.findAll fails and an error is.  Either  *)
(* way the room and the listing stay as they are.                          *)
JoinAnswered(s, c) ==
    /\ joining[s][c] = "history"
    /\ joining' = [joining EXCEPT ![s][c] = "idle"]
    /\ UNCHANGED <<conn, attached, rooms, connecting, leaving, todo, stored, history>>

(* mutant: the member is removed from Redis but not from the room. *)
LeaveRedisOnly(s, c) ==
    /\ Ready(s)
    /\ Unlist(s, c)
    /\ UNCHANGED <<server, row, chan, granted, stuck>>

Leave(s, c) ==
    /\ Ready(s)
    /\ rooms' = [rooms EXCEPT ![s] = @ \ {c}]
    /\ Unlist(s, c)
    /\ UNCHANGED <<conn, attached, connecting, leaving, todo, joining, row, chan,
                   granted, stuck>>

(* The SREM fails; removeChannelMember swallows the error. *)
LeaveListed(s, c) ==
    /\ Ready(s)
    /\ UserOf[s] \in members[c]
    /\ rooms' = [rooms EXCEPT ![s] = @ \ {c}]
    /\ ghost' = ghost \cup {Listing(s, c)}
    /\ UNCHANGED <<conn, attached, connecting, leaving, todo, joining, stored,
                   granted, missed, stuck>>

(* guild:join and guild:leave *)

GuildJoin(s, g) ==
    /\ Ready(s)
    /\ EnterRoom(s, g)
    /\ UNCHANGED <<conn, attached, connecting, leaving, todo, joining, stored, history>>

GuildLeave(s, g) ==
    /\ Ready(s)
    /\ rooms' = [rooms EXCEPT ![s] = @ \ {g}]
    /\ UNCHANGED <<conn, attached, connecting, leaving, todo, joining, stored, history>>

-----------------------------------------------------------------------------
(* The REST side that the handlers race with *)

(* ChannelsService.update with a new isPrivate. *)
UpdateChannel(c) ==
    /\ chan[c] # "deleted"
    /\ chan' = [chan EXCEPT ![c] = IF @ = "public" THEN "private" ELSE "public"]
    /\ UNCHANGED <<server, row, members, history>>

(* ChannelsService.remove; the Redis set and the room are not touched. *)
RemoveChannel(c) ==
    /\ chan[c] # "deleted"
    /\ chan' = [chan EXCEPT ![c] = "deleted"]
    /\ UNCHANGED <<server, row, members, history>>

(* AuthService.register and verifyMagicLink insert the row as online before *)
(* there is any socket; UsersService.create leaves the column's default.   *)
Register(u) ==
    /\ row[u] = "new"
    /\ row' = [row EXCEPT ![u] = "online"]
    /\ stuck' = stuck \cup {u}
    /\ UNCHANGED <<server, chan, members, granted, ghost, missed>>

CreateUser(u) ==
    /\ row[u] = "new"
    /\ row' = [row EXCEPT ![u] = "offline"]
    /\ UNCHANGED <<server, chan, members, history>>

(* UsersService.remove; the channels' createdBy key forbids more. *)
RemoveUser(u) ==
    /\ Exists(u)
    /\ \A c \in Channels : CreatorOf[c] = u => chan[c] = "deleted"
    /\ row' = [row EXCEPT ![u] = "none"]
    /\ UNCHANGED <<server, chan, members, history>>

(* The process is restarted, for whatever reason. *)
Crash == LoseProcess

-----------------------------------------------------------------------------
Connection(s) ==
    \/ FindUser(s)
    \/ FindUserFails(s)
    \/ SetOnline(s)
    \/ ConfirmOnline(s)
    \/ SetOnlineFails(s)

Disconnection(s) ==
    \/ SetOffline(s)
    \/ SetOfflineFails(s)
    \/ ScanKeys(s)
    \/ \E c \in Channels : RemoveFromKey(s, c)
    \/ CleanupFails(s)

Joining(s, c) ==
    \/ JoinGranted(s, c)
    \/ JoinDenied(s, c)
    \/ JoinEnter(s, c)
    \/ JoinUnlisted(s, c)
    \/ JoinAnswered(s, c)

Request(s) ==
    \/ Connect(s)
    \/ Refuse(s)
    \/ Close(s)
    \/ \E c \in Channels : Join(s, c) \/ Leave(s, c) \/ LeaveListed(s, c)
    \/ \E g \in Guilds : GuildJoin(s, g) \/ GuildLeave(s, g)

Rest ==
    \/ \E c \in Channels : UpdateChannel(c) \/ RemoveChannel(c)
    \/ \E u \in Users : Register(u) \/ CreateUser(u) \/ RemoveUser(u)

Next ==
    \/ \E s \in Sockets : Request(s) \/ Connection(s) \/ Disconnection(s)
    \/ \E s \in Sockets, c \in Channels : Joining(s, c)
    \/ Rest
    \/ Crash

Spec == Init /\ [][Next]_vars

(* Node's event loop resumes every handler whose query has been answered,  *)
(* and every query is answered or fails.  Requests, REST calls and crashes *)
(* are up to their authors.                                                *)
Fairness ==
    /\ \A s \in Sockets : WF_vars(Connection(s)) /\ WF_vars(Disconnection(s))
    /\ \A s \in Sockets, c \in Channels : WF_vars(Joining(s, c))

FairSpec == Spec /\ Fairness

-----------------------------------------------------------------------------
(* A socket is in a room only while its transport is open and only once    *)
(* handleConnection has attached its user; whatever order close, join and  *)
(* a late findById take, an event to a room never reaches a socket that is *)
(* gone or anonymous.                                                      *)
RoomsAuthenticated ==
    \A s \in Sockets : rooms[s] # {} => conn[s] = "open" /\ attached[s]

(* Nobody is in a channel's room or in its Redis set unless findOne found  *)
(* that user entitled to the channel at some time, across crashes, stale   *)
(* handlers and changes of isPrivate.                                      *)
MembershipGranted ==
    /\ \A s \in Sockets, c \in Channels : c \in rooms[s] => Listing(s, c) \in granted
    /\ \A u \in Users, c \in Channels : u \in members[c] => <<u, c>> \in granted

(* A user the Redis set lists has a socket in the room, or a disconnect    *)
(* handler on its way to the SREM; the exceptions are the listings written *)
(* by a join that outlived its socket's cleanup, and those whose SREM was  *)
(* lost to a Redis error or a crash.                                       *)
MemberPresent ==
    \A u \in Users, c \in Channels : u \in members[c] =>
        \/ <<u, c>> \in ghost
        \/ \E s \in Of(u) : c \in rooms[s] \/ CleanupReaches(s, c)

(* A user with a connection in a channel's room is listed for the channel, *)
(* unless Redis refused the SADD or an SREM issued for another connection  *)
(* of the same user (another tab, or the one before a reconnect) took the  *)
(* listing away; the next join of any of them mends it.                    *)
PresentListed ==
    \A s \in Sockets, c \in Channels : c \in rooms[s] =>
        UserOf[s] \in members[c] \/ Listing(s, c) \in missed

(* A user shown online has an authenticated open socket or an offline      *)
(* update under way.  The exceptions are the users whose row said online   *)
(* before any socket did (an account just registered, a row left by an     *)
(* earlier process), those that handleConnection put online after its      *)
(* socket's own disconnect handling, and those online at a crash; a live   *)
(* connection that has made its online update ends each of them.           *)
OnlinePresent ==
    \A u \in Users : row[u] = "online" =>
        \/ u \in stuck
        \/ \E s \in Of(u) : Ready(s) \/ leaving[s] = "offline"

(* When the last of a user's sockets has closed for good, the user is      *)
(* eventually shown offline and unlisted everywhere: no handler waits for  *)
(* ever and no cleanup is forgotten.  The exceptions are those of          *)
(* OnlinePresent and MemberPresent; an account that was registered and     *)
(* never connected stays online for ever.                                  *)
DepartedForgotten ==
    \A u \in Users :
        <>[](\A s \in Of(u) : conn[s] # "open") =>
        <>[](/\ row[u] # "online" \/ u \in stuck
             /\ \A c \in Channels : u \in members[c] => <<u, c>> \in ghost)
=============================================================================
