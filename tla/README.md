# VoxLink: TLA+ models, checks and proofs

VoxLink is a chat and voice application: a NestJS backend (`src/backend/src`)
with PostgreSQL (TypeORM) and Redis (ioredis), a socket.io gateway, LiveKit for
audio, and a React client (`src/frontend/src`). The code has no unit tests; what
is hard to get right in it is almost all of one kind: an `async` handler reads a
table, a Redis key or a field, awaits, and acts on what it read, while other
handlers run in between. Most of the modules here are about that.

Its voice rests on C code that the repository keeps under `src/Внедрять`
("to be introduced"): coturn, the TURN server that relays media between peers,
and Opus, the codec. The modules cover the parts of these that are protocol and
bookkeeping rather than signal processing: relay ports, sessions, packets, the
range coder.

Contents: 1 the system, 2 the modules, 3 the runs, 4 what the documentation says
and the code does not keep, 5 the proofs, 6 what is not modelled, 7 the plan.

## 1. The system

### Components

| Part | State it keeps | Operations | Talks to |
|---|---|---|---|
| websocket gateway (`websocket/websocket.gateway.ts`) | per socket: `client.user`, rooms (memory of the process) | connect, disconnect, channel join/leave, message send, typing, guild join/leave, voice joined/left | users, channels and messages services, Redis through the websocket service, clients by events |
| websocket service (`websocket/websocket.service.ts`) | Redis sets `channel:<id>:members`, presence and signaling keys | add, remove, list, remove from all | Redis |
| auth (`auth/auth.service.ts`) | Redis keys `invite:<t>`, `magic:<t>`; rows of `users` | register, create invite, send and verify magic link, login, refresh | Redis, users table, SMTP |
| users (`users/users.service.ts`) | table `users` (unique username, unique email, status, role) | create, find, update, updateStatus, remove, search | PostgreSQL |
| guilds (`guilds/guilds.service.ts`) | tables `guilds`, `guild_members`, `guild_roles`, `channel_categories`, `channels` | create, update, delete, join by invite, kick, ban, roles, categories, channels | PostgreSQL |
| channels, messages, events (`*/*.service.ts`) | their tables; messages are soft-deleted | create, list, update, remove, search | PostgreSQL |
| admin (`admin/admin.service.ts`) | `users.role`, channels, messages | ban, unban, delete | PostgreSQL |
| livekit, signaling, media, monitoring | none (configuration, counters) | token for a room, ICE configuration | LiveKit |
| plugin manager (`plugins/plugin-manager.ts`) | loaded plugins and their listeners | load, enable, disable, install | file system; not wired into the application |
| client (`frontend/src`) | zustand stores, one socket service, LiveKit room | connect, join, send, voice | gateway and REST |
| TURN relay ports (`turn_ports.c`, part of `ns_ioalib_engine_impl.c`) | a ring of free ports, a status per port, reservation tokens | allocate one, allocate an even one with its neighbour, release | relay threads, the operating system's sockets |
| TURN sessions (`ns_turn_server.c`, `ns_turn_allocation.c`) | per client: allocation, permissions, channels, timers, quota | Allocate, Refresh, CreatePermission, ChannelBind, data both ways, timers | ports, peers |
| Opus packets (`opus.c`, `extensions.c`, `repacketizer.c`, `opus_multistream*.c`) | the repacketizer's frames, an iterator | parse, cat, out, pad, unpad, iterate, generate | the encoder, the network |
| Opus range coder (`celt/ent*.c`) | one `ec_ctx`: registers and a buffer filled from both ends | encode and decode by seven routines, shrink, patch, done | SILK, CELT, DRED |

### How they interact

* Clients call REST controllers and hold one socket. The gateway authenticates
  the socket's JWT, finds the users row, writes its `status`, and puts the
  socket into rooms; messages are saved through the messages service and
  broadcast to a room.
* Four stores are shared by everything: the process memory (rooms and
  `client.user`), the Redis member sets, Redis keys with a TTL, and the tables.
  No operation spans two of them atomically, and none uses a transaction.
* All services run in one Node process: between two `await`s a handler is alone;
  at an `await` any other handler may run.

### What is hard

* **Interleaving.** Connect, disconnect and join handlers of one user's sockets;
  two logins with one invite; two clicks on one link; a role change against a
  kick. The guards are checked before an `await`, the writes come after it.
* **Ordering.** A database pool lets a later query overtake an earlier one;
  Redis uses one connection and does not.
* **Failure.** Redis errors are caught and ignored in the websocket service and
  in `login`; database errors escape `handleDisconnect` and, as an unhandled
  rejection, end the process (Node 15 and later).
* **Crash.** Rooms and pending cleanups vanish; member sets and status columns
  stay, and nothing resets them at start-up.
* **Time.** Invites and magic links live under Redis TTLs, which `login` reads in
  rounded seconds and writes back. A TURN session has a timer for everything it
  grants, and several grants lean on one another's timer.
* **Two channels of information.** What a client shows comes from a snapshot and
  from events; the two overtake each other, and connections break in between.
* **Boundaries.** A ring with entries that are no longer true, sizes coded in one
  or two bytes, carries that run through bytes already written, two ends of a
  buffer that meet.

PROJECT.json lists these hazards one by one, each with its line and with the
property that would notice it going wrong.

### What makes each part correct

| Part | Properties |
|---|---|
| gateway | only authenticated, open sockets are in rooms; nobody is in a channel without having been entitled to it; the Redis member set and the status column agree with the sockets, but for a named and closed list of exceptions; a departed user is eventually forgotten |
| invites | the counter is sound, a refusal is earned, serial use is exact, an invite does not die early |
| accounts | one account per email whatever races; a link signs in once; a link is not burnt for nothing |
| guilds | the owner stays a member; removal holds; one active membership; approval cannot be by-passed; no self-promotion |
| content | a deleted message stays deleted and erased, a category can be deleted, each but for one named race |
| chat | each of the newest messages of a joined channel reaches the store, but for three named losses; retries end |
| voice | no room stays live that the service has forgotten, unless calls overlapped in one named way |
| TURN ports | a bound port has one owner; no port is lost; every free port can be found; a refusal means that all are taken |
| TURN sessions | nothing passes without a permission; a session that has ended leaves nothing; answers hold; silent clients go and quotas come back; all of it implements the lease that a client is promised |
| Opus packets | frames and extensions survive merging, splitting, padding and joining; no write leaves its buffer; whatever the input, reads stay within it |
| Opus range coder | what is encoded is decoded, what `ec_tell` says fits does fit, the registers stay in range for any input |

Several properties name exceptions (`ghost`, `stuck`, `undone`, ...). They are
history variables, written by the very action in which the code loses track of
something and by no other. So such a property says two things: the code can go
wrong in exactly these ways, and in no other way. A change that closes one of
the gaps makes its history variable unreachable; a change that opens a new one
is a counterexample.

## 2. The modules

| Module | Models | Extended by |
|---|---|---|
| `Gateway` | `websocket.gateway.ts`, `websocket.service.ts`, and the methods of the users and channels services that race with them | `MCGateway`, `GatewayProofs` |
| `Invites` | `createInvite` and the invite part of `login` in `auth.service.ts` | `MCAuth`, `AuthProofs` |
| `Accounts` | `register`, `sendMagicLink`, `verifyMagicLink`, the unique columns of `users` | `MCAuth`, `AuthProofs` |
| `Guilds` | members and roles of one guild in `guilds.service.ts` | `MCGuilds`, `GuildsProofs` |
| `Content` | categories, channels and messages as rows: `guilds`, `channels`, `messages`, `admin` services | `MCContent`, `ContentProofs` |
| `Chat` | one browser's sockets and message store against `channel:join` and `message:send` of the gateway | `MCChat`, `MCClient`, `ClientProofs` |
| `Voice` | `usePeerConnection.ts`, `livekit.ts`, `VoicePanel.tsx` | `MCClient`, `ClientProofs` |
| `TurnPorts` | `turn_ports.c` and its callers in the relay threads | `MCTurnPorts`, `TurnProofs` |
| `TurnLease` | the abstract promise of a session | instantiated by `TurnSession` |
| `TurnSession` | `ns_turn_server.c`, `ns_turn_allocation.c` | `MCTurnSession`, `TurnProofs` |
| `OpusPacket` | the framing of a packet and its parser | `OpusExtensions` |
| `OpusExtensions` | the extension iterator and generator | `OpusIterator`, `OpusRepacketizer` |
| `OpusIterator` | a caller that reads the extensions of a packet | `MCOpusIterator`, `OpusProofs` |
| `OpusRepacketizer` | `repacketizer.c` and the joining of streams | `MCOpusRepacketizer`, `OpusProofs` |
| `RangeCoder` | `entcode.h`, `entenc.c`, `entdec.c` and two callers with tricks of their own | `MCRangeCoder`, `RangeCoderProofs` |

An `MC` module gives the constants that a cfg cannot write down (functions) and
symmetry sets. Three of them also narrow the specification, to keep the instance
small: `MCGateway` keeps the row of the user who has no socket and
lets one of the two sockets enter guild rooms, `MCChat`
leaves out behaviours with three sockets and two messages at once (`MCNext`), and
`MCTurnPorts` begins with one given entry of the ring and bounds how often ports
come back (`MCInit`, `MCNext`). Two put components side by side that share no
state, `MCAuth` the halves of `auth.service.ts` and `MCClient` those of the
client: the variable `half`, chosen at the start, says which of the two moves, so
their states add up and are not multiplied. Definitions whose comment begins with "mutant" (`SetOfflineOnly`, `KickAnyone`, ...) stand next to the definition they
vary; no specification uses them. They are what the runs are tested with: each
is the definition with one plausible mistake, and a property must notice it.

### Gateway

State: `conn`, `attached` (`client.user`), `rooms` for each socket; the place
where each asynchronous handler stands (`connecting`, `leaving` with `todo`,
`joining`); the tables `row` (users: status, not there yet, or deleted) and `chan`
(channels: isPrivate, or deleted); the Redis sets `members`; four history
variables. A row may say online at the start: an earlier process left it, or
`infra/init-db.sql` inserted it (the administrator's).

One action is one segment of a handler between two database or Redis awaits.

| Code | Actions |
|---|---|
| `handleConnection` | `Connect` (token verified, `findById` issued) or `Refuse`; `FindUser`/`FindUserFails`; `SetOnline` (the update takes effect) then `ConfirmOnline` (`findById` of `updateStatus`), or `SetOnlineFails` |
| `handleDisconnect` | `Close` (the transport closes, rooms are left, the handler starts if there is a `client.user`); `SetOffline`/`SetOfflineFails`; `ScanKeys`; one `RemoveFromKey` per key; `CleanupFails` |
| `handleJoinChannel` | `Join`; `JoinGranted`/`JoinDenied` (`channelsService.findOne`); `JoinEnter` (`client.join` and the SADD) or `JoinUnlisted` (Redis refused); `JoinAnswered` (history read, `channel:ready` or error) |
| `handleLeaveChannel` | `Leave`; `LeaveListed` when the SREM fails |
| guild rooms | `GuildJoin`, `GuildLeave` |
| REST | `Register` (`register` and `verifyMagicLink` insert a row that is online, `auth.service.ts:77` and 189), `CreateUser` (`POST /users`, offline by default), `RemoveUser`; `UpdateChannel`, `RemoveChannel` |
| process | `Crash`; also the effect of `SetOfflineFails` |

Decisions: a socket is one connection, a reconnecting client is a new socket.
`await client.join()` does not yield to other handlers' I/O, because the
in-memory adapter answers at once. Redis commands take effect when they are
issued (one connection, first in first out), queries at any later time. Of the
joins that one socket sends for one channel one is in flight at a time. Events
that arrive before `client.user` is set are dropped by the code and are
therefore not actions. Broadcasts change no state here.

The histories: `granted` (who has been let into a channel), `ghost` (listings
that no cleanup is going to remove), `missed` (listings lost by a connection that
is in the room: the SADD was refused, or the SREM of another tab took them; a
join mends it), `stuck` (users online by no socket of theirs: registered, left
over, put online after the disconnect was handled, or online at a crash; the
online update of a live connection ends it, and so does an offline one).

### Invites

One invite: what was promised (`max`, `expires`), the Redis key (`left` ticks to
live, `uses`), each login's place and private copies (`pc`, `got`, `ttl`). `Get`
(with the local test and increment), `GetExhausted`, `GetInvalid`, `GetFails`;
`Ttl`; `SetEx`; `UpdateFails` (the swallowed error, also SETEX's refusal of a
TTL that is not positive); `Lookup` (session, or 401 for a user without a row);
`Tick`. There are `Second` ticks in a second, and TTL answers in seconds rounded
to the nearest, as Redis does; so the model sees both that a rewrite moves the
expiry and that SETEX may bring an expired key back to life.

### Accounts

`users` is the set of rows <<username, email>> with both columns unique;
`key[l]` is the Redis key of a magic link. `CheckUsername`, `CheckEmail`,
`SaveUser` are register's three queries; `StoreLink`, `MailLink`, `ExpireLink`
the life of a link; `GetLink`, `DelLink`, `FindUser`/`FindNoUser`, `CreateUser`
the five steps of a verification, each with its failure. The name that a new
account gets is `user_<Date.now()>`: any of `Stamps`, possibly one that another
verification takes in the same millisecond, in which case the insert fails.

### Guilds

One guild, from `create` to `delete`. Members are rows with an identity of their
own (`user`, `status`, `roles`), because nothing in the schema makes guild and
user unique; roles are identities with permissions. Requests occupy `Slots`;
`job[q]` holds what a request has read so far (the member entity with its status
and roles, the role, the approval flag). A request is started (`Start`), passes
or fails `requirePermission` (`Permit`, `Forbid`), and then runs query by query.
`SaveMember` is TypeORM's `save` of a stale entity: it writes all columns and
roles that were read earlier, and inserts the row again if it is gone.
Merged into one action, because nothing distinguishes them: the two queries of
`requirePermission` (`ownerId` never changes), and in kick and ban the query of
the guild with the write after it. Until the owner's member row is saved,
nobody can reach the new guild. `Quiet` is stuttering when every request has
been answered, so that any other deadlock would be reported.

### Content

The rows of one guild: `categories`, `channels` with `categoryId`, `messages`
with `channelId`, `isDeleted` and `content`, and how far
`createDefaultStructure` has come. The schema is what the entities say, which
`synchronize` makes in development (`database.config.ts:15`); there are no
migrations, and the tables of `infra/init-db.sql`, which docker-compose runs on a
new database, are no use to this code: it has none for guilds, categories and
roles, and its columns are named differently (`channel_id` for `channelId`). So
`categoryId`, `channelId` and `replyToId`
are foreign keys without `onDelete`, `guildId` cascades, and the database refuses
a write that breaks one. A request (`job[q]`) starts where its permission check
has passed; each query is an action and may fail. One default channel stands for
the four of the code. Histories: `refused` (requests that a foreign key ended)
and `raced` (rows written between a request's two queries).

### Chat

One signed-in browser: what the client knows (`auth`, `socket`, `connected`,
`connecting`, `selected`, `retry`, `view`), what the gateway knows (`user`,
`rooms`, `joins`), the two directions of every socket (`outbox`, `inbox`, in
order, lost when the connection breaks), and the messages other users send
(`saved`, those that are not deleted, `deleted`, `emitting`).

| Code | Actions |
|---|---|
| `useAuth`, `useWebSocket`, `websocket.ts` | `SignIn`, `Mount`, `SignOut`; `Open`, `Lose`, `GiveUp` (socket.io's own reconnection) |
| `useGuilds.selectChannel` | `Select`, `Retry` (the 500 ms `tryJoin`) |
| `handleConnection` | `Attach`, `Reject` (also when `updateStatus` fails after `client.user` was set) |
| `handleJoinChannel` | `ReceiveJoin` (or its silent drop), `JoinRoom`, `ReadHistory`, `EmitReady`; `JoinFails`, the handler's catch: an error event and no `channel:ready`, while the room stays joined |
| `handleMessage` | `Save`, `Emit`; `SaveRest` for the REST route, which emits nothing |
| `messagesService.remove`, `adminService.deleteMessage` | `Delete`: the snapshot counts its 50 without the deleted ones; clients are not told |
| `message:new`, `channel:ready`, `store/messages.ts` | `Deliver` |

The channels are ones the user may read, and of one socket's joins of a channel
one runs at a time. The histories `risky` (saved while a snapshot without it was under
way), `unheard` (emitted while the client was in no room, or left to the snapshot
of a join that failed) and `revived` (brought back among the newest by the
deletion of a newer one) name the three ways in which a message is missing;
`readied` says that the snapshot of the channel came.
Bounds: `MaxSockets`, `MaxPicks`, `MaxLosses`; `Limit` is the length of a
snapshot (50 in the code).

### Voice

The hook's state and the run of its effect (`shown`, `effect`), the service's
`room`, the state of every room ever made, and the calls of `connect` and
`disconnect` under way with the place each awaits. `Show`, `Unmount`,
`SwitchChannel`, `Effect` (cleanup, then body), `ClickConnect`, `ClickLeave`,
`Token`/`TokenFails`, `Closed`, `Opened`/`OpenFails`/`Aborted`. The `Room` is
livekit-client and external: it reports its states, and calls of `disconnect` on
one room finish in order. Histories: `wanted`, `failed`, `overlap`.

### TurnPorts

The pool keeps a ring of free ports between two counters that only grow, and for
each port a status: a code when it is taken, otherwise the counter of its entry.
A pair of an even and an odd port is taken by the even one's entry; the entry of
the odd one stays behind, stale. A call of the pool runs under its mutex and is
one action (`AllocatePort`, `UndoRtp`, ...); `turnports_allocate_even` is one action
per iteration (`EvenSkip`, `EvenFound`, ...). Between them threads interleave:
`RequestPort`, `BindRtcp`, `Bind` and their failures, `CloseRtcp`, `Retry`; `Close`,
`ReservationTimeout`, `CloseFd` and `ClaimReserved` are what later happens to a
socket. Assumptions: the range is at most half of the 65536 slots (the default
is a quarter), and the counters have not come to their last values (`wrapped`
marks where they would). `OneOwner` excepts port 65535: a failing
`turnports_allocate_even` releases the port -1, that is 65535, whoever has it.
`orphan` names the odd ports that `allocate_even` takes for nobody. The
specification is `PortsSpec`, because `TurnProofs` extends this module and
`TurnSession`.

### TurnLease and TurnSession

`TurnSession` is one client's session. A request, a datagram or a timer runs to
its end in the session's relay thread, so each is one action: `Allocate` (with
the families asked for and those created, and the retransmission
`AllocateAgain`), `Refresh`, `CreatePermission`, `ChannelBind`;
`SendIndication`, `ChannelData`, `PeerData`; `PermissionTimeout`,
`ChannelTimeout`, `AllocationTimeout`, `Watchdog`; `ClientGone`. A timer is the
time it has left; `Tick` passes a second, but not over a timer that is due. The
two maps of channels (`chan`/`peer` in the allocation, `chns` in the permission)
are both kept, because the code keeps both. A reserved socket counts as created
for the family asked for. Requests that are refused without effect and datagrams
that are dropped are no steps. It is assumed that `PermissionLifetime` is at
most `ChannelLifetime` (300 and 600 by default).

`ExternalIp` is the family of the address in `external-ip` (`turnserver.conf` sets
one), or none. With it an answer names that address for every relay socket, and a
repeated Allocate looks the lifetime up by its family (`FirstFamily`,
`ns_turn_server.c:1003-1030`), which may be one without a socket: the code then
reads an expiration time of 0, and the difference wraps and is cut to the maximum
(`LifeTold`). `SessionTimes` are the values of `max_session_time_auth`, by which an
OAuth token limits a lifetime further (`Adjusted`); 0 is none. `AnswerHolds` leaves
out three cases, each of which TLC shows to be needed: a family that has failed,
an external address of a family without a socket, and a socket that is due.

`TurnLease` says what all this is for, in three variables: a client with an
allocation holds leases on allowed hosts, traffic passes only during a lease,
and nothing but a grant makes one longer. The refinement maps `live` to `valid`,
`lease` to the permission timers, and `passing` to the host of the datagram that
the last step relayed.

### OpusPacket, OpusExtensions, OpusIterator, OpusRepacketizer

Memory is a sequence of bytes, a pointer the number of bytes in front of it.
Bytes of headers are 0..255; bytes of payload are opaque to this code and are
numbers above 255, all different, so that a frame moved or cut wrongly is another
frame; bytes never written are `Junk`. `OpusPacket` has `EncodeSize`, `ParseSize`
and the parser; `OpusExtensions` the iterator (with repeats) and
`opus_packet_extensions_generate`. Both are operators and recursive functions; a
loop of the iterator is one pass (`RepeatPass`, `ReadPass`) and the recursive
function that takes it again until something is returned.

`OpusIterator` is a caller: it writes a list of extensions, or receives bytes, and
calls `next`, `reset` and, at any point, `set_frame_max` (`ReaderSpec`; bytes
received are octets). `OpusRepacketizer` is
an application with one packet in hand: `init`, `cat`, `out_range`, `pad`,
`unpad`, their multistream forms, and joining streams as the multistream encoder
does. What it may have is a record in `Applications`. The histories `kept`,
`keptExts`, `cuts` follow what is in the repacketizer, `carried` and
`carriedExts` what the packet in hand should hold. The `opus_int16` of frame
lengths never truncates, because sizes above 1275 are refused.

### RangeCoder

One `ec_ctx`, encoder first and decoder afterwards, with every routine that moves
it, `ec_enc_shrink`, `ec_enc_patch_initial_bits` as `silk/enc_API.c` uses it, and
the copy and restore of the encoder as `dnn/dred_encoder.c` uses it. The register
widths are constants (8 and 32 in the code), so that carries, renormalisation and
the meeting of the two ends take a handful of symbols. A symbol may be decoded by
any routine compatible with the one that encoded it (`Ways`). The buffer begins
with old contents, all ones. `storage` is the length of the buffer, and the
decoder's `ext` is local to a symbol. `ec_tell_frac` is left out: it only reads.
A register is four bytes wide, so a loop over its bytes is one pass taken four
times, and passes that have nothing to do change nothing. `Codable` is what the
headers and assertions of the routines ask of a caller: at least two
values for `ec_enc_uint`, a table that falls to 0 or rises to its total, at most
25 raw bits at a time.

## 3. The runs

| Run | Instance | Properties |
|---|---|---|
| `gateway_tabs` | two sockets of one user, who may be new, offline or online at the start, another user who made the channel, one channel, one guild room | `MemberPresent`, `PresentListed`, `OnlinePresent`; under fairness `DepartedForgotten` |
| `auth_service` | three logins, one by a user without a row; limits 0, 1, 2; four ticks a second | `CounterSound`, `SerialExact`, `NotForgottenEarly` |
| | two registrations for one email, two links, three verifications, two stamps | `OneAccount`, `LinkOnce`, `LinkNotBurnt` |
| `guilds_members` | the owner and one user, four requests, two at a time, a custom role with or without power over roles | `GuildIntact`, `AdmissionHolds`, `OneActiveRow`, `NoSelfPromotion` |
| `content_rows` | three categories, two channels, two messages, five requests, two at a time | `ErasedUnlessRaced`, `CategoryGoes`, `DeletedStays` |
| `chat_events` | two channels, two selections, one break, snapshots of one message; two sockets and two messages, or three and one | `NeverMissed` |
| `client_calls` | three calls under way, three rooms, the panel shown twice | `NobodyLeftBehind` |
| | two channels, three selections, three sockets, one break, no messages | under fairness `RetriesEnd` |
| `turn_ports` | two threads, four ports in a ring of eight, three releases | `OneOwner`, `NoLeak`, `RingSound`, `RefusedOnlyWhenFull` |
| `turn_session` | three hosts of two families, one of them denied, two channels, lifetimes 1 and 2 | `TrafficCovered`, `NothingLeftBehind`; refinement `LeaseSpec`; under fairness `WatchdogEnds` |
| `turn_external` | an external address of family v4, two hosts of two families, lifetimes asked for below, at and above the limits, sessions with and without a limit of their own | `AnswerHolds` |
| `opus_iterator` | all lists of up to four extensions over up to three frames; all paddings of up to four bytes out of ten | `RoundTrip`, `SameAgain`, `WithinPadding` |
| `opus_packets` | packets of one and two frames, one and two streams; all packets of up to five telling bytes | `FramesKept`, `ExtensionsKept`, `AtMost120ms`, `NoOverrun`, `JoinFits` |
| `range_coder` | bytes of 2 bits, registers of 8; five kinds of use | `RangeSound`, `Lossless`, `FitsAsTold` |

The comment on each property says what it states and which lines it is about.
Type invariants are not listed: outside the Opus modules they are proved, by
themselves or (`Invites`, `Accounts`) as part of what is proved.

**Bounds.** Every hazard of the gateway involves one user's sockets, and two of
them reach every history variable; that the sweep may stop between two keys is
covered by the theorem, for any number of channels. Three logins are one more
than the overlap needs, so a third can read what two have left; four ticks a
second tell rounding up from rounding down. Three verifications let two share a
link and a third race them over the email. In `Guilds` a lost update needs two
requests in flight, and undoing a removal needs a join, a role change and a kick:
three, so four leave one to observe it; identities of rows are never the limit.
`Content` needs two requests for each race and three to set the rows up. In
`Chat` one selection is left for another, one connection breaks, and a snapshot
of one message is full with two; a third socket, which a component that mounts
or a second sign-in makes, comes with one message only (`MCNext`). Messages play
no part in the retries, so `client_calls` has none and one selection more: two
chains of one channel next to one of another. In `Voice` two connects and a hang-up overlap.
The ring of `TurnPorts` has four ports in eight slots, exactly the half that the
code's argument needs, and three releases bring it round with stale entries in
it. In `TurnSession` a permission lives one tick and a channel two, so each can
outlive the other; one port per host is enough because permissions are by host
and channels by address. `turn_external` has a second transaction, so that an
allocation can end and another be made, and no more than it needs otherwise; `AnswerHolds`
without an external address, when a session can have a relay of each family, is
left to the theorem `AnswersAreTrue`. The Opus instances lie at the edges: sizes 251, 252 and
253, padding of 254 and more, 40 and 60 ms frames against the 120 ms, repeats
with and without a length. Those of `RangeCoder` reach a carry through several
bytes, the cut of raw bits in the last byte, and a copy restored after an error.

**Symmetry** is used only where no temporal property is checked (`DeletedStays`
and `RefusedOnlyWhenFull` are action properties), over logins of known users,
slots of requests, threads, channels and messages of `chat_events`, and fresh
identities, which no definition tells apart.

**Deadlock** is checked where something may always happen (`Gateway`, `Invites`,
`TurnSession`) or a caller may always call again (the Opus callers) or a stuttering
action says that all is answered (`Guilds`, and `MCAuth` for accounts); it is not
where requests are bounded and simply end (`Content`, `Chat`, `Voice`, `TurnPorts`, `RangeCoder`).

**Fairness.** `Gateway`: weak fairness of each socket's connection handler, of
its disconnection handler and of each join handler. It stands for Node's event
loop, which resumes every handler whose query has been answered, and for drivers
that answer or fail every query; a failure is one of the handler's own actions.
Nothing is assumed of clients, REST calls or crashes. `Chat`: weak fairness of
`Retry` for each channel, the browser's timers; nothing of the network.
`TurnSession`: weak fairness of `Timer` and `Tick`, the libevent loop that runs
what is due, and the clock; nothing of the client.

## 4. What the documentation says and the code does not keep

The statements below stand at the end of their modules. The runs, whose answer is
to stay yes, do not ask them; TLC refutes each one when it takes the place of the
properties in the cfg of the run of its module, `Chat`'s in `Chat_events.cfg`,
`TurnSession`'s in `TurnSession_client.cfg` (`ChannelHonoured` and
`FrameMaxHonoured`, which are about steps, as a PROPERTY). The counterexamples take
at most a few dozen steps and come within seconds.

| Statement | What the code does | What the repository says |
|---|---|---|
| `Invites!MaxUsesRespected` | logins whose GETs precede the first SETEX are all accepted (`auth.service.ts:208`) | "Max number of uses (0 = unlimited)", `create-invite.dto.ts:22` |
| `Invites!ExpiryRespected` | `expiresAt` is stored and returned but never read (`auth.service.ts:100`) | "Expiration in hours", `create-invite.dto.ts:15` |
| `Invites!NewcomerAdmitted` | a login with an invite by a user without a row is refused, after the use was counted (`auth.service.ts:242`) | "Share token with new users", `docs/faq.md:115` |
| `Accounts!TakenIsConflict` | of two overlapping registrations the loser gets a 500 (`auth.service.ts:80`) | 409 "Username or email already taken", `auth.controller.ts:32` |
| `Guilds!MemberRoleGiven` | once a custom role exists, joining gives that role: its position is 0, below the member role's 1 (`guilds.service.ts:213`) | the comment "Получаем роль "Участник"" ("we get the role Member"), line 211 |
| `Content!DeletedErased` | an edit that was found before a delete writes its text over "[Message deleted]" (`messages.service.ts:88`) | `messages.service.ts:107`, `TEST_CHECKLIST.md:82` |
| `Content!ChannelDeleted` | a channel in which anything was written cannot be deleted: foreign key (`channels.service.ts:85`, `message.entity.ts:41`) | `TEST_CHECKLIST.md:66`, deleting a channel |
| `Content!ChannelsListed` | the channels of a deleted category are in no list (`guilds.service.ts:324`, 151, 351) | line 323: they move to "without a category", which nothing shows |
| `Chat!SignedOutClosed` | signing in opens two sockets, signing out closes the last (`websocket.ts:20`) | `useWebSocket.ts:50`, "Actual disconnect should be handled by explicit call ..." |
| `Chat!SelectedJoined` | a join that arrives before `client.user` is set is dropped, and a connected client does not retry (`websocket.gateway.ts:158`) | `useGuilds.ts:88`, "if not connected, buffer or retry" |
| `Chat!Rejoined` | after a break nothing joins the current channel again (`websocket.ts:40`) | `TEST_CHECKLIST.md:106`, reconnection after a break |
| `Chat!MessagesComplete` | a message saved after the history was read and emitted before `channel:ready` is dropped when the snapshot replaces the list (`websocket.gateway.ts:178`, `store/messages.ts:36`) | `TEST_CHECKLIST.md:102`, messages in real time |
| `Voice!CanLeave` | `disconnect` clears `this.room` after its await, whichever room is there by then (`livekit.ts:57`) | `TEST_CHECKLIST.md:129`, leaving the channel |
| `Voice!StaysConnected` | the effect depends on `connect`, which changes with the state; its cleanup hangs up (`usePeerConnection.ts:90`) | `TEST_CHECKLIST.md:122`, connecting to a voice channel |
| `TurnSession!ChannelHonoured` | CreatePermission for the host of a channel shortens the permission, whose end deletes the channel early (`ns_turn_server.c:3061`, `ns_turn_allocation.c:180`) | `README.turnserver:314`, "Set the lifetime for channel binding, default to 600 secs." |
| `TurnSession!AddressTold` | after a failed Allocate the next one succeeds and answers 0.0.0.0:0 (`ns_turn_allocation.c:112`, `ns_turn_server.c:1413`) | `startuclient.c:521` takes such an answer for a failure |
| `OpusIterator!FrameMaxHonoured` | `frame_max` is looked at when `next` is called; a repeat indicator met in its loop moves the frame on, and what follows is returned (`extensions.c:240`, 212) | `extensions.c:145`, "not to return any extensions for frames of index frame_max or larger" |
| `OpusRepacketizer!OutSuffices` | a range that ends within a packet with extensions of later frames is refused with OPUS_BAD_ARG (`repacketizer.c:265`, `extensions.c:493`) | `opus.h:1053-1062` names the only reasons for it |
| `OpusRepacketizer!PadWorks` | padding a valid packet whose padding is not well-formed gives OPUS_INTERNAL_ERROR (`repacketizer.c:169`) | `opus.h:1119-1121` |

The properties of the runs say what is left: `SerialExact` is the counter without
overlap, `ErasedUnlessRaced` the deletion without that edit, `NeverMissed`
excepts exactly the messages in `risky`, `unheard` and `revived`, and so on.

## 5. The proofs

All theorems hold for every value of the constants under the named assumption
of their module (`GatewayAssumption`, `InvitesAssumption`, ...), which says that the
constants have their types and, besides, that different kinds of rooms differ,
that the logins are finitely many, that the clock of `Invites` is not stopped
(`Horizon`) before the promised time is over, that the relay range fills at most
half of the ring, that a permission lives no longer than a channel, that a byte
has a bit and a register four bytes, that symbols are `Codable`, that a packet
has 1 to 48 frames, and that what comes from the network are bytes.

**GatewayProofs** proves `TypeCorrect` and, through `Inductive`, the three safety
invariants of `gateway_tabs`, `RoomsAuthenticated` and `MembershipGranted`. They are nearly inductive together; what is
missing is what a suspended handler knows of its socket (`Handlers`): only a
closed socket is being cleaned up, a join past `findOne` has been granted, a
connection past `client.user` has a user. Each conjunct has a lemma for its own
preservation (`TypeStep`, `HandlersStep`, `RoomsStep`, `GrantedStep`,
`OnlineStep`, `MemberStep`, `ListedStep`), with one step per action. The
delicate ones are `OnlineStep`, because rows go online without a socket (by
registration) and by one that has closed, and `MemberStep`: a listing loses its socket only in `Close`, which
starts a sweep that reaches it, and a sweep ends only by the SREM or by a
failure that is recorded.

**AuthProofs** extends `Invites` and `Accounts`, the two halves of
`auth.service.ts`. Of the invites it proves `CounterIsSound`, `RefusalIsEarned`,
`SerialIsExact`.
The invariants speak of the stored counter, but the next value stored is a copy
some login already holds; the strengthening is that every copy held between GET
and SETEX is below the number of accepted logins and below the limit
(`CopiesSound`), and, without overlap, that there is one copy and it is exact
(`CopyExact`). `InviteIsNotForgottenEarly` is about time. A rewrite sets the key
to the TTL that the login read before, rounded, so a later write may go back to
an older and longer life; the invariant `LifeKept` says of the key and of every
TTL a login holds that, with the age of the invite and half a second for each
rewrite, it makes up `INVITE_TTL`. `RoundingLoss` is the lemma about rounding to
the nearest second, `WrittenCount` the one about how many rewrites there were.

Of the accounts it proves `AccountIsOne`, `LinkIsForOnce`, `LinkIsNotBurnt`, from
the table's uniqueness (`Unique`), from sessions naming rows that exist
(`SessionsHeld`) and from there being one reader of a link that is not in
`again` (`OneReader`).

**GuildsProofs** proves the four properties of `guilds_members`. The difficulty
is that a request writes back what it read earlier, so the invariant has to say
for every place in every request what its copies still have to do with the rows
(`JobsOK`: the shape of the request, `SaveOK` for an entity about to be saved,
`JoinOK` for a join past its check, `RankOK`: without delegation only the owner
gets past the check of an operation on roles). For the rows: the owner's row is
the owner's and, once the guild is open, active (`OwnerKept`); system roles stay
(`RolesKept`); before the guild is open there are no requests and nobody has been
put out, and only identities that were handed out have rows (`Rising`); without
delegation only the owner's role has power and nobody else holds it (`Powers`);
and `BannedRows`,
`KickedRows`, `AdmittedRows`, `OneActiveRow`, `Doubles` name, with the histories
`undone` and `doubled`, the requests whose stale copy may still break the
promise. `OneActiveRow` needs `Doubles`, because the row that makes a second
active one is written by a join that found none.

**ContentProofs** proves the three properties of `content_rows`;
`DeletionIsFinal` is an action property. The invariant adds what a request under
way knows: if the message that an edit is about to write has been deleted, it is
in `raced` (`EditsRaced`), and if a channel is in a category whose row is about to
be dropped, it came after the detaching and the category is in `raced`
(`DropsRaced`).

**ClientProofs** extends `Chat` and `Voice`, the two halves of the client, which
share no names (so `Voice` has `VoiceInit`, `VoiceNext` and `VoiceSpec`), and
proves `NeverMissed` of the one and `NobodyLeftBehind` of the other. `NeverMissed` is not inductive because a snapshot replaces all that
is shown: `SnapshotsCover` says of every snapshot that has been read, in its
handler or on the wire, that it holds each of the newest messages but the
`risky`, the `unheard` and the `revived`. For a message that is saved meanwhile
this is what `risky` records; that no older message comes back among the newest
by a save is `NewestGrows`, and a deletion, which does bring one back, records it
(`DeleteHeard`). A join that fails takes its snapshot with it, and what only that
would have shown is `unheard` from then on (`JoinFailsHeard`). A message emitted to an empty room is still heard if a join is
running, and then the join has yet to read the history, because past its first
await its socket is open and in the room (`LinksKept`, `HandlersAttached`).
For the panel, `RoomKept` holds until the first `overlap`: only the service's room
can be heard (`OneRoom`), what is being left is that room or has been let go of
(`ClosersKnown`), a connect whose room is still to be made runs alone
(`ConnectAlone`), and a panel that is gone has left its room or is about to
(`HungUp`).

**TurnProofs** extends `TurnPorts` and `TurnSession`. Of the pool it proves the
four properties of `turn_ports`, that the ring never
overflows (`RingNeverFull`) and that what a thread or a socket holds is marked as
taken (`HeldPortsTaken`). The invariant is `PortsTypeOK`, what a thread's place says
of its locals (`ThreadOK`), the ring (`RingNow`, as long as nothing has wrapped)
and the owners. The ring is the hard part, because stale entries make the
obvious bound false: a port may have two entries. It holds because a stale entry
is odd, is older than the live one, and, while its even neighbour is free, is
older than that one's entry too (`Twice`, `Stale`); so there is at most one
stale entry per port, and twice the range fits. `TakeRing`, `PutRing`,
`ScanRing`, `NeighbourRing` and `PairRing` are the steps of the pool as facts
about the ring alone; `Fits` is the count.

Of the session it proves `NothingLeftBehind`, `TrafficCovered` and
`AnswerHolds` (the family by which the lifetime is looked up has a socket, because
a valid allocation has one, none has failed and an external address is of a
family that has: `FirstThere`), and that
`Spec` implements `TurnLease` (`KeepsLease`, through `LeaseStep`: every action is
a step of the lease or leaves it alone). The invariant `SessionInv` adds to the
types that the two maps of channels agree (`MapsAgree`), that a channel is
covered by a permission of its host (`NoStaleOwner`), that only allowed hosts
have permissions, that only bound channels have timers, that the allocation is
counted exactly once (`Counted`) and that the watchdog runs. `PermissionsLast`
is an action property: a permission ends by its timer or with its allocation.

**RangeCoderProofs** proves `RangeSound` and `FitsAsTold` for bytes and registers of
any width, any buffer and any symbols. `RangeSound` is not inductive, because of
the flags that are patched into the first byte later: `Open` says that while this
byte has not left the register, the value is small enough for any flags to
be put in front of it. A copy that was saved has to be as sound as the encoder
it replaces, and its buffer as long (`Kept`). `FitsAsTold` rests on `Counted`,
which ties `nbits_total` to the bytes held: those written, the one in `rem`, the
run of `ext` bytes that wait for a carry, and the raw bits in the window; then
the bits `ec_enc_done` still has to write are those that `ec_tell` rounds up
(`DoneFacts`). `EncSymbolFacts` and `DecSymbolFacts` collect what each routine
does to the registers; the decoder's part says that any bytes at all decode
to symbols of the alphabet. What a loop over the bytes of a register computes is
obtained by induction on the number of passes, from the library's theorem about
well-founded relations with the predicate as a set.

**OpusProofs** is about readers that are handed bytes they did not make.
`WithinPaddingHolds` is for any octets as the padding of a packet of 1 to 48
frames. (`mem` being octets is a hypothesis because payloads that the module
writes itself are opaque numbers above 255; octets are what a program reads.) In
the invariant an iterator is between two extensions (`Sound`), within a repeat
(`Amid`) or at its end, and the bytes since the last frame separator are a
`Region` of extensions that end where the next one starts, but for the last: this
is why a repeat, which skips over them again without looking for the end of the
padding, stays inside. `Left` bounds how many extensions are still to come. The
loops end because `RepeatWeight` and `ReadWeight` go down (`LoopEnds`), and what
they return is sound by one lemma for a pass (`AmidGoes`, `ReadGoes`), from
which `NextReturns` follows for a call.

`SameAgainHolds` compares two executions: the one of a caller that has started
again, perhaps in the middle of a repeat, and the one of a parse with a new
iterator. `Like` relates two iterators that differ at most in what a repeat
indicator sets before it is used (`src`, `srclen`, `replen`, `L`), which is
what reset leaves alone; a pass, a loop and a call keep it and return the same
(`ReadPassLike`, `ReadLoopLike`, `NextLike`), a repeat indicator makes the two
equal (`LikeIndicated`). In the invariant (`OnTheWay`) what the caller has got,
followed by what a parse from an iterator like its own would still return, is
what a parse of the whole padding returns, so that at the end it has got all of it
(`NextEnds`); behind the end or an error no call
returns anything (`StoppedStays`). That the parse ends for any bytes is
`NextCallable`: a call leaves less data, or as much and less to repeat.

`AtMost120msHolds` is for any packets and calls of the repacketizer, `cat` being
refused in between included. A packet that was written out can be handed to `cat`
again, and that the writer's fold produces numbers is induction over data; so
the theorem has the hypothesis `[](out \in Seq(Nat))`, that no byte handed out
was left unwritten, which is a conjunct of `NoOverrun` in the run. Nothing else
is asked of the packet written. The check in `cat` is on what the
header announces, before parsing; the crux is `ParsedCount`, that the parser
returns as many frames as `NbFrames` announced, and `FrameLasts`, that the
samples at 8 kHz the check counts are a sixth of those at 48 kHz.

Theorems about facts that no run lists (`RoomsAuthenticated`,
`MembershipGranted`, `RefusalEarned`, `RingFits`, `HeldTaken`, `ChannelsPaired`,
`ChannelsCovered`, `AllocationCounted`, `PermissionHonoured`, the type
invariants) are there because the proof subsumes the run.

Only model-checked:

* liveness under fairness (`DepartedForgotten`, `RetriesEnd`, `WatchdogEnds`),
  which is out of the prover's reach;
* `Lossless` of the range coder: it says what the bytes of the buffer are worth
  as one number, through carries into bytes already written, and that every
  routine of the decoder takes the same interval out of it;
* `RoundTrip` of the iterator, and `FramesKept`, `ExtensionsKept`,
  `NoOverrun` and `JoinFits` of the repacketizer: they say
  what the writers of packets and extensions produce by folds over lists of any
  length, and what the readers then make of it, which takes induction over data.

## 6. What is not modelled

* Events calendar, monitoring, LiveKit tokens, media: single queries or calls
  to an external service, with no state that another operation depends on.
* Presence and signaling keys of the websocket service, the signaling service,
  the rate-limit guard, the plugin manager, `webrtc.ts` of the client: no caller
  in the application. `banUser` and `unbanUser` write a role that no guard reads.
* Password hashing, JWT signing, e-mail wording, rendering: pure or layout.
* TURN: authentication and nonces, mobility tickets, TCP relaying, server relay,
  memory exhaustion; the command line, the administration console, the database
  drivers, TLS and libevent glue. The first group changes a session's state and
  could follow; the second is input and output.
* Opus: all signal processing (SILK, CELT, the neural networks and their tables),
  the Laplace and pulse codes on top of the range coder, extensions handed in by
  the encoder, and the convenience entry points of the extension parser.
* WebRTC and ws, infrastructure and scripts: not built from here, or without
  state of their own.

By lines the vendored C code is nearly all of the repository, about 156,000, and
nearly all of those are numerical code, tables, drivers and consoles. The modules
therefore map a small share of its lines, and the share that can be modelled as
states and steps is not much larger; what they map is where the protocols are.

External behaviour that the modules rely on (marked so in PROJECT.json): the
socket.io room table and its reconnection, ordering on the Redis connection, the
pg pool, TypeORM's `save`, expiry of Redis keys, the end of the process on an
unhandled rejection, livekit-client's `Room`, and the operating system's sockets.

## 7. The plan

Done: all modules of section 2 with their runs; proofs of all the safety
properties of the runs of `Gateway`, `Invites`, `Accounts`, `Guilds`, `Content`,
`Chat`, `Voice`, `TurnPorts` and `TurnSession`, of the refinement to `TurnLease`,
of the range coder but for `Lossless`, of the iterator's bounds and its reset,
and of the repacketizer's 120 ms.

Left, in order of importance:

1. `Presence`: an abstract specification of membership (a user enters, leaves,
   or is lost by a named fault), with the gateway shown to implement it.
2. TURN authentication (nonces, realms, stale-nonce retries) in front of
   `TurnSession`.
