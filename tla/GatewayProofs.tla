---------------------------- MODULE GatewayProofs ----------------------------
(***************************************************************************)
(* Proofs about the websocket gateway, for every number of users, sockets, *)
(* channels and guilds.                                                    *)
(***************************************************************************)
EXTENDS Gateway, TLAPS

(* What a handler in flight says about its socket: only a socket that was  *)
(* opened has handlers, only a closed one is being cleaned up, a handler   *)
(* past `client.user` has a user, and one past findOne has been granted.   *)
Handlers ==
    /\ \A s \in Sockets :
          /\ connecting[s] # "idle" => conn[s] # "new"
          /\ connecting[s] \in {"online", "confirm"} => attached[s]
          /\ leaving[s] # "idle" => conn[s] = "closed" /\ attached[s]
    /\ \A s \in Sockets, c \in Channels :
          /\ joining[s][c] # "idle" => conn[s] # "new" /\ attached[s]
          /\ joining[s][c] \in {"granted", "history"} => Listing(s, c) \in granted

(* The inductive invariant. *)
IInv ==
    /\ TypeOK
    /\ Handlers
    /\ RoomsAuthenticated
    /\ MembershipGranted
    /\ MemberPresent
    /\ PresentListed
    /\ OnlinePresent

-----------------------------------------------------------------------------
LEMMA ListingType ==
    \A s \in Sockets :
        /\ UserOf[s] \in Users
        /\ \A c \in Channels : Listing(s, c) \in Users \X Channels
  BY GatewayAssumption DEF Listing

(* TypeOK is inductive by itself. *)
LEMMA TypeStep ==
    ASSUME TypeOK, [Next]_vars
    PROVE  TypeOK'
<1> USE ListingType DEF TypeOK, stored, history, Exists
<1>1. ASSUME NEW s \in Sockets, CloseSocket(s),
             UNCHANGED <<attached, todo, joining, stored, history>>,
             connecting' \in [Sockets -> {"idle", "find", "online", "confirm"}]
      PROVE  TypeOK'
  BY <1>1 DEF CloseSocket
<1>2. CASE LoseProcess
  BY <1>2 DEF LoseProcess
<1>3. ASSUME NEW s \in Sockets, Request(s)
      PROVE  TypeOK'
  <2>1. CASE Connect(s)
    BY <2>1 DEF Connect
  <2>2. CASE Refuse(s) \/ Close(s)
    BY <1>1, <2>2 DEF Refuse, Close
  <2>3. ASSUME NEW c \in Channels, Join(s, c) \/ Leave(s, c) \/ LeaveListed(s, c)
        PROVE  TypeOK'
    <3>1. CASE Join(s, c)
      BY <3>1 DEF Join
    <3>2. CASE Leave(s, c)
      BY <3>2 DEF Leave, Unlist
    <3>3. CASE LeaveListed(s, c)
      BY <3>3 DEF LeaveListed
    <3> QED  BY <2>3, <3>1, <3>2, <3>3
  <2>4. ASSUME NEW g \in Guilds, GuildJoin(s, g) \/ GuildLeave(s, g)
        PROVE  TypeOK'
    <3>1. CASE GuildJoin(s, g)
      BY <3>1 DEF GuildJoin, EnterRoom
    <3>2. CASE GuildLeave(s, g)
      BY <3>2 DEF GuildLeave
    <3> QED  BY <2>4, <3>1, <3>2
  <2> QED  BY <1>3, <2>1, <2>2, <2>3, <2>4 DEF Request
<1>4. ASSUME NEW s \in Sockets, Connection(s)
      PROVE  TypeOK'
  <2>1. CASE FindUser(s)
    BY <2>1 DEF FindUser
  <2>2. CASE FindUserFails(s)
    BY <1>1, <2>2 DEF FindUserFails, Disconnect
  <2>3. CASE SetOnline(s)
    BY <2>3 DEF SetOnline
  <2>4. CASE ConfirmOnline(s)
    BY <2>4 DEF ConfirmOnline, EnterRoom
  <2>5. CASE SetOnlineFails(s)
    BY <1>1, <2>5 DEF SetOnlineFails, Disconnect
  <2> QED  BY <1>4, <2>1, <2>2, <2>3, <2>4, <2>5 DEF Connection
<1>5. ASSUME NEW s \in Sockets, Disconnection(s)
      PROVE  TypeOK'
  <2>1. CASE SetOffline(s)
    BY <2>1 DEF SetOffline
  <2>2. CASE ScanKeys(s)
    BY <2>2 DEF ScanKeys
  <2>3. ASSUME NEW c \in Channels, RemoveFromKey(s, c)
        PROVE  TypeOK'
    BY <2>3 DEF RemoveFromKey, Unlist
  <2>4. CASE CleanupFails(s)
    BY <2>4 DEF CleanupFails
  <2> QED  BY <1>2, <1>5, <2>1, <2>2, <2>3, <2>4 DEF Disconnection, SetOfflineFails
<1>6. ASSUME NEW s \in Sockets, NEW c \in Channels, Joining(s, c)
      PROVE  TypeOK'
  <2>1. CASE JoinGranted(s, c)
    BY <2>1 DEF JoinGranted
  <2>2. CASE JoinDenied(s, c)
    BY <2>2 DEF JoinDenied
  <2>5. CASE JoinAnswered(s, c)
    BY <2>5 DEF JoinAnswered
  <2>3. CASE JoinEnter(s, c)
    BY <2>3 DEF JoinEnter, EnterRoom
  <2>4. CASE JoinUnlisted(s, c)
    BY <2>4 DEF JoinUnlisted, EnterRoom
  <2> QED  BY <1>6, <2>1, <2>2, <2>3, <2>4, <2>5 DEF Joining
<1>7. CASE Rest
  <2>1. ASSUME NEW c \in Channels, UpdateChannel(c)
        PROVE  TypeOK'
    BY <2>1 DEF UpdateChannel, server
  <2>2. ASSUME NEW c \in Channels, RemoveChannel(c)
        PROVE  TypeOK'
    BY <2>2 DEF RemoveChannel, server
  <2>3. ASSUME NEW u \in Users, RemoveUser(u)
        PROVE  TypeOK'
    BY <2>3 DEF RemoveUser, server
  <2>4. ASSUME NEW u \in Users, Register(u) \/ CreateUser(u)
        PROVE  TypeOK'
    BY <2>4 DEF Register, CreateUser, server
  <2> QED  BY <1>7, <2>1, <2>2, <2>3, <2>4 DEF Rest
<1> QED
  BY <1>2, <1>3, <1>4, <1>5, <1>6, <1>7 DEF Next, Crash, vars, server

(* The type invariant of the gateway holds for every set of sockets,       *)
(* users, channels and guilds.                                             *)
THEOREM TypeCorrect == Spec => []TypeOK
<1>1. Init => TypeOK
  BY DEF Init, TypeOK
<1> QED
  BY <1>1, TypeStep, PTL DEF Spec

-----------------------------------------------------------------------------
(* Handlers is preserved: each handler moves along its own segments, and   *)
(* a close leaves the handlers of the socket where they are.               *)
LEMMA HandlersStep ==
    ASSUME TypeOK, Handlers, [Next]_vars
    PROVE  Handlers'
<1> USE DEF TypeOK, Handlers
<1>1. CASE UNCHANGED <<conn, attached, connecting, leaving, joining, granted>>
  BY <1>1 DEF Listing
<1>2. ASSUME NEW s \in Sockets, CloseSocket(s), UNCHANGED <<attached, joining, granted>>,
             \/ UNCHANGED connecting
             \/ connecting' = [connecting EXCEPT ![s] = "idle"]
      PROVE  Handlers'
  BY <1>2 DEF CloseSocket, Listing
<1>3. CASE LoseProcess
  BY <1>3 DEF LoseProcess
<1>4. ASSUME NEW s \in Sockets, Request(s)
      PROVE  Handlers'
  <2>1. CASE Connect(s)
    BY <2>1 DEF Connect, Listing, history
  <2>2. ASSUME NEW c \in Channels, Join(s, c)
        PROVE  Handlers'
    BY <2>2 DEF Join, Ready, Listing, history
  <2> QED
    BY <1>1, <1>2, <1>4, <2>1, <2>2
    DEF Request, Refuse, Close, Leave, LeaveListed, GuildJoin, GuildLeave, history
<1>5. ASSUME NEW s \in Sockets, Connection(s)
      PROVE  Handlers'
  <2>1. CASE FindUser(s)
    BY <2>1 DEF FindUser, Listing, history
  <2>2. CASE UNCHANGED <<conn, attached, leaving, joining, granted>>
             /\ \/ connecting' = [connecting EXCEPT ![s] = "idle"]
                \/ SetOnline(s)
    BY <2>2 DEF SetOnline, Listing
  <2> QED
    BY <1>2, <1>5, <2>1, <2>2
    DEF Connection, FindUserFails, SetOnline, ConfirmOnline, SetOnlineFails, Disconnect, history
<1>6. ASSUME NEW s \in Sockets, Disconnection(s)
      PROVE  Handlers'
  <2>1. CASE leaving[s] # "idle" /\ leaving' = [leaving EXCEPT ![s] = leaving'[s]]
             /\ UNCHANGED <<conn, attached, connecting, joining, granted>>
    BY <2>1 DEF Listing
  <2> QED
    BY <1>1, <1>3, <1>6, <2>1
    DEF Disconnection, SetOffline, SetOfflineFails, ScanKeys, RemoveFromKey, CleanupFails, history
<1>7. ASSUME NEW s \in Sockets, NEW c \in Channels, Joining(s, c)
      PROVE  Handlers'
  <2>1. CASE JoinGranted(s, c)
    BY <2>1, ListingType DEF JoinGranted, Listing
  <2>2. CASE UNCHANGED <<conn, attached, connecting, leaving, granted>>
             /\ joining' = [joining EXCEPT ![s][c] = "idle"]
    BY <2>2 DEF Listing
  <2>3. CASE UNCHANGED <<conn, attached, connecting, leaving, granted>>
             /\ joining[s][c] = "granted"
             /\ joining' = [joining EXCEPT ![s][c] = "history"]
    BY <2>3 DEF Listing
  <2> QED
    BY <1>7, <2>1, <2>2, <2>3
    DEF Joining, JoinDenied, JoinEnter, JoinUnlisted, JoinAnswered, history
<1>8. CASE Rest
  BY <1>1, <1>8 DEF Rest, UpdateChannel, RemoveChannel, Register, CreateUser, RemoveUser, server, history
<1> QED
  BY <1>1, <1>3, <1>4, <1>5, <1>6, <1>7, <1>8 DEF Next, Crash, vars, server, history
-----------------------------------------------------------------------------
(* A room is entered by open authenticated sockets only, and emptied when  *)
(* the socket closes.                                                      *)
LEMMA RoomsStep ==
    ASSUME TypeOK, Handlers, RoomsAuthenticated, [Next]_vars
    PROVE  RoomsAuthenticated'
<1> USE DEF TypeOK, RoomsAuthenticated
<1>1. CASE UNCHANGED <<conn, attached, rooms>>
  BY <1>1
<1>2. ASSUME NEW s \in Sockets, CloseSocket(s), UNCHANGED attached
      PROVE  RoomsAuthenticated'
  BY <1>2 DEF CloseSocket
<1>3. ASSUME NEW s \in Sockets, NEW r, EnterRoom(s, r), attached[s],
             UNCHANGED <<conn, attached>>
      PROVE  RoomsAuthenticated'
  <2>1. CASE conn[s] = "open"
    BY <1>3, <2>1 DEF EnterRoom
  <2>2. CASE conn[s] # "open"
    BY <1>3, <2>2 DEF EnterRoom
  <2> QED  BY <2>1, <2>2
<1>4. ASSUME NEW s \in Sockets, NEW r, rooms' = [rooms EXCEPT ![s] = @ \ {r}],
             UNCHANGED <<conn, attached>>
      PROVE  RoomsAuthenticated'
  BY <1>4
<1>5. CASE LoseProcess
  BY <1>5 DEF LoseProcess
<1>6. ASSUME NEW s \in Sockets, Request(s)
      PROVE  RoomsAuthenticated'
  <2>1. CASE Connect(s)
    BY <2>1 DEF Connect
  <2> QED
    BY <1>1, <1>2, <1>3, <1>4, <1>6, <2>1
    DEF Request, Refuse, Close, Join, Leave, LeaveListed, GuildJoin, GuildLeave, Ready
<1>7. ASSUME NEW s \in Sockets, Connection(s)
      PROVE  RoomsAuthenticated'
  <2>1. CASE FindUser(s)
    BY <2>1 DEF FindUser
  <2> QED
    BY <1>1, <1>2, <1>3, <1>7, <2>1
    DEF Connection, FindUserFails, SetOnline, ConfirmOnline, SetOnlineFails, Disconnect, Handlers
<1>8. ASSUME NEW s \in Sockets, Disconnection(s)
      PROVE  RoomsAuthenticated'
  BY <1>1, <1>5, <1>8
  DEF Disconnection, SetOffline, SetOfflineFails, ScanKeys, RemoveFromKey, CleanupFails
<1>9. ASSUME NEW s \in Sockets, NEW c \in Channels, Joining(s, c)
      PROVE  RoomsAuthenticated'
  BY <1>1, <1>3, <1>9
  DEF Joining, JoinGranted, JoinDenied, JoinEnter, JoinUnlisted, JoinAnswered, Handlers
<1>10. CASE Rest
  BY <1>1, <1>10 DEF Rest, UpdateChannel, RemoveChannel, Register, CreateUser, RemoveUser, server
<1> QED
  BY <1>1, <1>5, <1>6, <1>7, <1>8, <1>9, <1>10 DEF Next, Crash, vars, server

(* Rooms and Redis sets grow in JoinEnter only (rooms in JoinUnlisted      *)
(* too), for a listing that was granted; nothing is ever un-granted.       *)
LEMMA GrantedStep ==
    ASSUME TypeOK, Handlers, MembershipGranted, [Next]_vars
    PROVE  MembershipGranted'
<1> USE GatewayAssumption DEF TypeOK, MembershipGranted, Listing
<1>1. ASSUME \A s \in Sockets : rooms'[s] \cap Channels \subseteq rooms[s],
             \A c \in Channels : members'[c] \subseteq members[c],
             granted \subseteq granted'
      PROVE  MembershipGranted'
  BY <1>1
<1>2. ASSUME NEW s \in Sockets, NEW c \in Channels, JoinEnter(s, c)
      PROVE  MembershipGranted'
  BY <1>2 DEF JoinEnter, EnterRoom, Handlers
<1>3. ASSUME NEW s \in Sockets, NEW c \in Channels, JoinUnlisted(s, c)
      PROVE  MembershipGranted'
  BY <1>3 DEF JoinUnlisted, EnterRoom, Handlers, stored
<1>4. ASSUME NEW s \in Sockets, Request(s)
      PROVE  MembershipGranted'
  <2>1. CASE UNCHANGED <<rooms, members, granted>>
    BY <1>1, <2>1
  <2>2. CASE CloseSocket(s) /\ UNCHANGED <<members, granted>>
    BY <1>1, <2>2 DEF CloseSocket
  <2>3. ASSUME NEW c \in Channels, Leave(s, c) \/ LeaveListed(s, c)
        PROVE  MembershipGranted'
    <3>1. CASE Leave(s, c)
      BY <1>1, <3>1 DEF Leave, Unlist
    <3>2. CASE LeaveListed(s, c)
      BY <1>1, <3>2 DEF LeaveListed, stored
    <3> QED  BY <2>3, <3>1, <3>2
  <2>4. ASSUME NEW g \in Guilds, GuildJoin(s, g) \/ GuildLeave(s, g)
        PROVE  MembershipGranted'
    <3>1. CASE GuildJoin(s, g)
      BY <1>1, <3>1 DEF GuildJoin, EnterRoom, stored, history
    <3>2. CASE GuildLeave(s, g)
      BY <1>1, <3>2 DEF GuildLeave, stored, history
    <3> QED  BY <2>4, <3>1, <3>2
  <2> QED
    BY <1>4, <2>1, <2>2, <2>3, <2>4 DEF Request, Connect, Refuse, Close, Join, stored, history
<1>5. ASSUME NEW s \in Sockets, Connection(s)
      PROVE  MembershipGranted'
  <2>1. CASE UNCHANGED <<rooms, members, granted>>
    BY <1>1, <2>1
  <2>2. CASE CloseSocket(s) /\ UNCHANGED <<members, granted>>
    BY <1>1, <2>2 DEF CloseSocket
  <2>3. CASE EnterRoom(s, UserRoom) /\ UNCHANGED <<members, granted>>
    BY <1>1, <2>3 DEF EnterRoom
  <2> QED
    BY <1>5, <2>1, <2>2, <2>3
    DEF Connection, FindUser, FindUserFails, SetOnline, ConfirmOnline, SetOnlineFails,
        Disconnect, stored, history
<1>6. CASE LoseProcess
  BY <1>1, <1>6 DEF LoseProcess, stored
<1>7. ASSUME NEW s \in Sockets, Disconnection(s)
      PROVE  MembershipGranted'
  <2>1. CASE UNCHANGED <<rooms, members, granted>>
    BY <1>1, <2>1
  <2>2. ASSUME NEW c \in Channels, RemoveFromKey(s, c)
        PROVE  MembershipGranted'
    BY <1>1, <2>2 DEF RemoveFromKey, Unlist
  <2> QED
    BY <1>6, <1>7, <2>1, <2>2
    DEF Disconnection, SetOffline, SetOfflineFails, ScanKeys, CleanupFails, stored, history
<1>8. ASSUME NEW s \in Sockets, NEW c \in Channels, Joining(s, c)
      PROVE  MembershipGranted'
  BY <1>1, <1>2, <1>3, <1>8 DEF Joining, JoinGranted, JoinDenied, JoinAnswered, stored, history
<1>9. CASE Rest
  BY <1>1, <1>9 DEF Rest, UpdateChannel, RemoveChannel, Register, CreateUser, RemoveUser, server, history
<1> QED
  BY <1>1, <1>4, <1>5, <1>6, <1>7, <1>8, <1>9 DEF Next, Crash, vars, server, stored, history

-----------------------------------------------------------------------------
(* Whoever is online has an authenticated open socket; when it closes,     *)
(* handleDisconnect takes its place until the offline update is made.      *)
LEMMA OnlineStep ==
    ASSUME TypeOK, Handlers, OnlinePresent, [Next]_vars
    PROVE  OnlinePresent'
<1> USE GatewayAssumption DEF TypeOK, OnlinePresent, Of, Ready, Exists
<1>1. CASE UNCHANGED <<conn, attached, leaving, row, stuck>>
  BY <1>1
<1>2. ASSUME NEW s \in Sockets, CloseSocket(s), conn[s] # "closed", 
             UNCHANGED <<attached, row, stuck>>
      PROVE  OnlinePresent'
  BY <1>2 DEF CloseSocket, Handlers
<1>3. CASE LoseProcess
  BY <1>3 DEF LoseProcess, stored
<1>4. ASSUME NEW s \in Sockets, Request(s)
      PROVE  OnlinePresent'
  <2>1. CASE Connect(s)
    BY <2>1 DEF Connect, stored, history
  <2> QED
    BY <1>1, <1>2, <1>4, <2>1
    DEF Request, Refuse, Close, Join, Leave, LeaveListed, GuildJoin, GuildLeave, stored, history
<1>5. ASSUME NEW s \in Sockets, Connection(s)
      PROVE  OnlinePresent'
  <2>1. CASE FindUser(s)
    BY <2>1 DEF FindUser, stored, history
  <2>2. CASE SetOnline(s)
    BY <2>2 DEF SetOnline, Handlers
  <2> QED
    BY <1>1, <1>2, <1>5, <2>1, <2>2
    DEF Connection, FindUserFails, ConfirmOnline, SetOnlineFails, Disconnect, stored, history
<1>6. ASSUME NEW s \in Sockets, Disconnection(s)
      PROVE  OnlinePresent'
  <2>1. CASE SetOffline(s)
    <3> SUFFICES ASSUME NEW u \in Users, row'[u] = "online", u \notin stuck'
                 PROVE  \E t \in Of(u) : Ready(t)' \/ leaving'[t] = "offline"
      OBVIOUS
    <3>1. u # UserOf[s] /\ row[u] = "online" /\ u \notin stuck
      BY <2>1 DEF SetOffline
    <3> QED  BY <2>1, <3>1 DEF SetOffline
  <2>2. CASE UNCHANGED <<conn, attached, row, stuck>> /\ leaving[s] # "offline"
             /\ leaving' = [leaving EXCEPT ![s] = "sweep"]
    BY <2>2
  <2> QED
    BY <1>1, <1>3, <1>6, <2>1, <2>2
    DEF Disconnection, SetOfflineFails, ScanKeys, RemoveFromKey, CleanupFails, stored, history
<1>7. ASSUME NEW s \in Sockets, NEW c \in Channels, Joining(s, c)
      PROVE  OnlinePresent'
  BY <1>1, <1>7
  DEF Joining, JoinGranted, JoinDenied, JoinEnter, JoinUnlisted, JoinAnswered, stored, history
<1>8. CASE Rest
  <2>1. ASSUME NEW u \in Users, RemoveUser(u)
        PROVE  OnlinePresent'
    BY <2>1 DEF RemoveUser, server, history
  <2>2. ASSUME NEW u \in Users, Register(u)
        PROVE  OnlinePresent'
    BY <2>2 DEF Register, server
  <2>3. ASSUME NEW u \in Users, CreateUser(u)
        PROVE  OnlinePresent'
    BY <2>3 DEF CreateUser, server, history
  <2> QED
    BY <1>1, <1>8, <2>1, <2>2, <2>3 DEF Rest, UpdateChannel, RemoveChannel, server, history
<1> QED
  BY <1>1, <1>3, <1>4, <1>5, <1>6, <1>7, <1>8 DEF Next, Crash, vars, server, stored, history
-----------------------------------------------------------------------------
(* A Redis error makes a ghost of every listing of the user it strands.    *)
LEMMA CleanupFailsMember ==
    ASSUME TypeOK, MemberPresent, NEW s \in Sockets, CleanupFails(s)
    PROVE  MemberPresent'
<1> SUFFICES ASSUME NEW u \in Users, NEW c \in Channels, u \in members'[c],
                    <<u, c>> \notin ghost'
             PROVE  \E t \in Of(u) : c \in rooms'[t] \/ CleanupReaches(t, c)'
  BY DEF MemberPresent
<1>1. u \in members[c] /\ <<u, c>> \notin ghost /\ u # UserOf[s]
  BY DEF CleanupFails, stored, Listing
<1>2. PICK t \in Of(u) : c \in rooms[t] \/ CleanupReaches(t, c)
  BY <1>1 DEF MemberPresent
<1>3. t # s /\ t \in Sockets
  BY <1>1, <1>2 DEF Of
<1>4. rooms'[t] = rooms[t] /\ leaving'[t] = leaving[t] /\ todo'[t] = todo[t]
  BY <1>3 DEF CleanupFails, TypeOK
<1> QED
  BY <1>2, <1>4 DEF CleanupReaches

(* A join lists its user while the socket is in the room, or while its     *)
(* cleanup is still to come, or makes a ghost.                             *)
LEMMA JoinEnterMember ==
    ASSUME TypeOK, Handlers, MemberPresent,
           NEW s \in Sockets, NEW c \in Channels, JoinEnter(s, c)
    PROVE  MemberPresent'
<1> SUFFICES ASSUME NEW u \in Users, NEW d \in Channels, u \in members'[d],
                    <<u, d>> \notin ghost'
             PROVE  \E t \in Of(u) : d \in rooms'[t] \/ CleanupReaches(t, d)'
  BY DEF MemberPresent
<1>1. UNCHANGED <<leaving, todo>> /\ ghost \subseteq ghost'
  BY DEF JoinEnter
<1>2. \A t \in Sockets : rooms[t] \subseteq rooms'[t]
  BY DEF JoinEnter, EnterRoom, TypeOK
<1>3. CASE u \in members[d]
  <2>1. PICK t \in Of(u) : d \in rooms[t] \/ CleanupReaches(t, d)
    BY <1>1, <1>3 DEF MemberPresent
  <2> QED
    BY <1>1, <1>2, <2>1 DEF CleanupReaches, Of
<1>4. CASE u \notin members[d]
  <2>1. u = UserOf[s] /\ d = c
    BY <1>4 DEF JoinEnter, TypeOK
  <2>2. conn[s] # "new"
    BY DEF JoinEnter, Handlers
  <2>3. CASE conn[s] = "open"
    BY <2>1, <2>3 DEF JoinEnter, EnterRoom, TypeOK, Of
  <2>4. CASE conn[s] = "closed"
    <3>1. CleanupReaches(s, c)
      BY <2>1, <2>4 DEF JoinEnter, Listing
    <3> QED
      BY <1>1, <2>1, <3>1 DEF CleanupReaches, Of
  <2> QED
    BY <2>2, <2>3, <2>4 DEF TypeOK
<1> QED
  BY <1>3, <1>4

(* Entering a room takes no listing's socket away. *)
LEMMA EnterRoomMember ==
    ASSUME TypeOK, MemberPresent, NEW s \in Sockets, NEW r, EnterRoom(s, r),
           UNCHANGED <<leaving, todo, members, ghost>>
    PROVE  MemberPresent'
<1>1. \A t \in Sockets : rooms[t] \subseteq rooms'[t]
  BY DEF EnterRoom, TypeOK
<1> SUFFICES ASSUME NEW u \in Users, NEW c \in Channels, u \in members'[c],
                    <<u, c>> \notin ghost'
             PROVE  \E t \in Of(u) : c \in rooms'[t] \/ CleanupReaches(t, c)'
  BY DEF MemberPresent
<1>2. PICK t \in Of(u) : c \in rooms[t] \/ CleanupReaches(t, c)
  BY DEF MemberPresent
<1> QED
  BY <1>1, <1>2 DEF CleanupReaches, Of

(* A listed user is in the room through some socket; when that socket      *)
(* closes, its cleanup takes its place until the SREM; a listing made or   *)
(* left behind after the cleanup is a ghost.                               *)
LEMMA MemberStep ==
    ASSUME TypeOK, Handlers, RoomsAuthenticated, MemberPresent, [Next]_vars
    PROVE  MemberPresent'
<1> USE GatewayAssumption DEF TypeOK, MemberPresent, Of, CleanupReaches, Listing
<1>1. CASE UNCHANGED <<rooms, leaving, todo, members, ghost>>
  BY <1>1
<1>2. ASSUME NEW s \in Sockets, CloseSocket(s), UNCHANGED <<todo, members, ghost>>
      PROVE  MemberPresent'
  BY <1>2 DEF CloseSocket, RoomsAuthenticated, Handlers
<1>3. ASSUME NEW s \in Sockets, NEW r, EnterRoom(s, r),
             UNCHANGED <<leaving, todo, members, ghost>>
      PROVE  MemberPresent'
  BY <1>3, EnterRoomMember
<1>4. CASE LoseProcess
  BY <1>4 DEF LoseProcess, stored
<1>5. ASSUME NEW s \in Sockets, Request(s)
      PROVE  MemberPresent'
  <2>1. ASSUME NEW c \in Channels, Leave(s, c)
        PROVE  MemberPresent'
    BY <2>1 DEF Leave, Unlist
  <2>2. ASSUME NEW c \in Channels, LeaveListed(s, c)
        PROVE  MemberPresent'
    <3>1. \A t \in Sockets, d \in Channels :
              d \in rooms[t] => d \in rooms'[t] \/ (t = s /\ d = c)
      BY <2>2 DEF LeaveListed
    <3> QED  BY <2>2, <3>1 DEF LeaveListed, stored
  <2>3. ASSUME NEW g \in Guilds, GuildLeave(s, g)
        PROVE  MemberPresent'
    <3>1. \A t \in Sockets, d \in Channels : d \in rooms[t] => d \in rooms'[t]
      BY <2>3 DEF GuildLeave
    <3> QED  BY <2>3, <3>1 DEF GuildLeave, stored, history
  <2> QED
    BY <1>1, <1>2, <1>3, <1>5, <2>1, <2>2, <2>3
    DEF Request, Connect, Refuse, Close, Join, GuildJoin, stored, history
<1>6. ASSUME NEW s \in Sockets, Connection(s)
      PROVE  MemberPresent'
  BY <1>1, <1>2, <1>3, <1>6
  DEF Connection, FindUser, FindUserFails, SetOnline, ConfirmOnline, SetOnlineFails,
      Disconnect, stored, history
<1>7. ASSUME NEW s \in Sockets, Disconnection(s)
      PROVE  MemberPresent'
  <2>1. CASE SetOffline(s)
    BY <2>1 DEF SetOffline
  <2>2. CASE ScanKeys(s)
    <3>1. UNCHANGED <<rooms, members, ghost>>
      BY <2>2 DEF ScanKeys, stored, history
    <3>2. \A u \in Users, c \in Channels, t \in Sockets :
              u \in members[c] /\ CleanupReaches(t, c) => CleanupReaches(t, c)'
      BY <2>2 DEF ScanKeys
    <3> QED  BY <3>1, <3>2
  <2>3. ASSUME NEW c \in Channels, RemoveFromKey(s, c)
        PROVE  MemberPresent'
    BY <2>3 DEF RemoveFromKey, Unlist
  <2>4. CASE CleanupFails(s)
    BY <2>4, CleanupFailsMember
  <2> QED
    BY <1>4, <1>7, <2>1, <2>2, <2>3, <2>4 DEF Disconnection, SetOfflineFails
<1>8. ASSUME NEW s \in Sockets, NEW c \in Channels, JoinEnter(s, c)
      PROVE  MemberPresent'
  BY <1>8, JoinEnterMember
<1>9. ASSUME NEW s \in Sockets, NEW c \in Channels, Joining(s, c)
      PROVE  MemberPresent'
  BY <1>1, <1>3, <1>8, <1>9
  DEF Joining, JoinGranted, JoinDenied, JoinUnlisted, JoinAnswered, stored, history
<1>10. CASE Rest
  BY <1>1, <1>10 DEF Rest, UpdateChannel, RemoveChannel, Register, CreateUser, RemoveUser, server, history
<1> QED
  BY <1>1, <1>4, <1>5, <1>6, <1>7, <1>9, <1>10 DEF Next, Crash, vars, server, stored, history

(* An SREM names the user, not the socket: the socket it is issued for is  *)
(* not in the room any more, and another one that is goes into missed.     *)
LEMMA ListedStep ==
    ASSUME TypeOK, Handlers, RoomsAuthenticated, PresentListed, [Next]_vars
    PROVE  PresentListed'
<1> USE GatewayAssumption DEF TypeOK, PresentListed, Of, Listing
<1>0. ASSUME NEW s \in Sockets, NEW c \in Channels, Unlist(s, c),
             \A t \in Sockets : rooms'[t] \subseteq rooms[t], c \notin rooms'[s]
      PROVE  PresentListed'
  <2> SUFFICES ASSUME NEW t \in Sockets, NEW d \in Channels, d \in rooms'[t]
               PROVE  UserOf[t] \in members'[d] \/ Listing(t, d) \in missed'
    OBVIOUS
  <2>1. missed \subseteq missed' /\ d \in rooms[t]
    BY <1>0 DEF Unlist
  <2>2. CASE d = c /\ UserOf[t] = UserOf[s]
    BY <1>0, <2>1, <2>2 DEF Unlist
  <2>3. CASE ~(d = c /\ UserOf[t] = UserOf[s])
    BY <1>0, <2>1, <2>3 DEF Unlist
  <2> QED  BY <2>2, <2>3
<1>1. ASSUME \A t \in Sockets : rooms'[t] \cap Channels \subseteq rooms[t],
             UNCHANGED <<members, missed>>
      PROVE  PresentListed'
  BY <1>1
<1>2. ASSUME NEW s \in Sockets, CloseSocket(s), UNCHANGED <<members, missed>>
      PROVE  PresentListed'
  BY <1>1, <1>2 DEF CloseSocket
<1>3. CASE LoseProcess
  BY <1>1, <1>3 DEF LoseProcess, stored
<1>4. ASSUME NEW s \in Sockets, Request(s)
      PROVE  PresentListed'
  <2>1. CASE Connect(s)
    BY <1>1, <2>1 DEF Connect, stored, history
  <2>2. ASSUME NEW c \in Channels, Leave(s, c)
        PROVE  PresentListed'
    <3>1. \A t \in Sockets : rooms'[t] \subseteq rooms[t]
      BY <2>2 DEF Leave
    <3>2. c \notin rooms'[s]
      BY <2>2 DEF Leave
    <3> QED  BY <1>0, <2>2, <3>1, <3>2 DEF Leave
  <2>3. ASSUME NEW c \in Channels, Join(s, c) \/ LeaveListed(s, c)
        PROVE  PresentListed'
    <3>1. CASE Join(s, c)
      BY <1>1, <3>1 DEF Join, stored, history
    <3>2. CASE LeaveListed(s, c)
      BY <1>1, <3>2 DEF LeaveListed, stored
    <3> QED  BY <2>3, <3>1, <3>2
  <2>4. ASSUME NEW g \in Guilds, GuildJoin(s, g) \/ GuildLeave(s, g)
        PROVE  PresentListed'
    BY <1>1, <2>4 DEF GuildJoin, GuildLeave, EnterRoom, stored, history
  <2> QED
    BY <1>2, <1>4, <2>1, <2>2, <2>3, <2>4 DEF Request, Refuse, Close, stored, history
<1>5. ASSUME NEW s \in Sockets, Connection(s)
      PROVE  PresentListed'
  <2>1. CASE UNCHANGED <<conn, rooms, members, missed>>
    BY <1>1, <2>1
  <2>2. CASE EnterRoom(s, UserRoom) /\ UNCHANGED <<conn, members, missed>>
    BY <1>1, <2>2 DEF EnterRoom
  <2> QED
    BY <1>2, <1>5, <2>1, <2>2
    DEF Connection, FindUser, FindUserFails, SetOnline, ConfirmOnline, SetOnlineFails,
        Disconnect, stored, history
<1>6. ASSUME NEW s \in Sockets, Disconnection(s)
      PROVE  PresentListed'
  <2>1. CASE UNCHANGED <<conn, rooms, members, missed>>
    BY <1>1, <2>1
  <2>2. ASSUME NEW c \in Channels, RemoveFromKey(s, c)
        PROVE  PresentListed'
    <3>1. UNCHANGED rooms
      BY <2>2 DEF RemoveFromKey
    <3>2. c \notin rooms'[s]
      BY <2>2, <3>1 DEF RemoveFromKey, Handlers, RoomsAuthenticated
    <3> QED  BY <1>0, <2>2, <3>1, <3>2 DEF RemoveFromKey
  <2> QED
    BY <1>3, <1>6, <2>1, <2>2
    DEF Disconnection, SetOffline, SetOfflineFails, ScanKeys, CleanupFails, stored, history
<1>7. ASSUME NEW s \in Sockets, NEW c \in Channels, Joining(s, c)
      PROVE  PresentListed'
  <2>1. CASE UNCHANGED <<conn, rooms, members, missed>>
    BY <1>1, <2>1
  <2>2. CASE JoinEnter(s, c)
    BY <2>2 DEF JoinEnter, EnterRoom
  <2>3. CASE JoinUnlisted(s, c)
    BY <2>3 DEF JoinUnlisted, EnterRoom, stored
  <2> QED
    BY <1>7, <2>1, <2>2, <2>3
    DEF Joining, JoinGranted, JoinDenied, JoinAnswered, stored, history
<1>8. CASE Rest
  BY <1>1, <1>8 DEF Rest, UpdateChannel, RemoveChannel, Register, CreateUser, RemoveUser, server, history
<1>9. CASE UNCHANGED vars
  BY <1>1, <1>9 DEF vars, server, stored, history
<1> QED
  BY <1>3, <1>4, <1>5, <1>6, <1>7, <1>8, <1>9 DEF Next, Crash

-----------------------------------------------------------------------------
LEMMA IInvInit == Init => IInv
  BY DEF Init, IInv, TypeOK, Handlers, RoomsAuthenticated, MembershipGranted,
         MemberPresent, PresentListed, OnlinePresent

LEMMA IInvStep == IInv /\ [Next]_vars => IInv'
  BY TypeStep, HandlersStep, RoomsStep, GrantedStep, MemberStep, ListedStep, OnlineStep
  DEF IInv

(* IInv holds in every state of the gateway. *)
THEOREM Inductive == Spec => []IInv
  BY IInvInit, IInvStep, PTL DEF Spec

(* No event to a room reaches a closed or an anonymous socket, whatever    *)
(* the order in which closes, joins and late answers of findById come.     *)
THEOREM RoomsAreAuthenticated == Spec => []RoomsAuthenticated
<1>1. IInv => RoomsAuthenticated
  BY DEF IInv
<1> QED
  BY <1>1, Inductive, PTL

(* Every room and every Redis set holds only users findOne has admitted.   *)
THEOREM MembershipIsGranted == Spec => []MembershipGranted
<1>1. IInv => MembershipGranted
  BY DEF IInv
<1> QED
  BY <1>1, Inductive, PTL

(* The Redis member sets list nobody who has gone, except for the recorded *)
(* late joins, Redis errors and crashes.                                   *)
THEOREM MembersArePresent == Spec => []MemberPresent
<1>1. IInv => MemberPresent
  BY DEF IInv
<1> QED
  BY <1>1, Inductive, PTL

(* A user is listed wherever a connection of theirs is in the room, unless *)
(* Redis refused the SADD or another connection's SREM unlisted them.      *)
THEOREM PresentAreListed == Spec => []PresentListed
<1>1. IInv => PresentListed
  BY DEF IInv
<1> QED
  BY <1>1, Inductive, PTL

(* The users table shows nobody online who has gone, except after the      *)
(* registrations, late online updates and crashes that `stuck` records.    *)
THEOREM OnlineArePresent == Spec => []OnlinePresent
<1>1. IInv => OnlinePresent
  BY DEF IInv
<1> QED
  BY <1>1, Inductive, PTL
=============================================================================
