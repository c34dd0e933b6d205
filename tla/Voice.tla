-------------------------------- MODULE Voice --------------------------------
(***************************************************************************)
(* The voice panel of the client: the hook usePeerConnection, whose effect *)
(* hangs up in its cleanup, and livekitService, which keeps one Room       *)
(* (hooks/usePeerConnection.ts, services/livekit.ts, VoicePanel.tsx).      *)
(*                                                                         *)
(* connect and disconnect are async and run side by side; each gives way   *)
(* where it awaits the token, Room.connect or Room.disconnect.  The Room   *)
(* itself is livekit-client: it reports every change of its state to the   *)
(* service, which hands it to the hook whichever room it comes from.  An   *)
(* effect runs some time after the render that changed what it depends on. *)
(***************************************************************************)
EXTENDS Naturals

CONSTANTS
    Calls,       \* bound: calls of connect and disconnect under way
    MaxRooms,    \* bound: rooms ever made
    MaxMounts    \* bound: times the panel is shown

ASSUME VoiceAssumption == MaxRooms \in Nat /\ MaxMounts \in Nat

Rooms == 1..MaxRooms

VARIABLES
    mounted,     \* the panel is shown
    mounts,
    shown,       \* the hook's connectionState
    effect,      \* connectionState at the last run of the effect
    room,        \* livekitService.room, 0 for null
    state,       \* state[r]: ConnectionState of room r
    roomsMade,   \* rooms made
    call,        \* call[t]: a call under way
    wanted,      \* history: the user asked to be in the channel, and still is
    failed,      \* history: the network or the token service failed
    overlap      \* history: a connect met another call before its room was made

hook         == <<mounted, mounts, shown, effect>>
service      == <<room, state, roomsMade>>
voiceHistory == <<wanted, failed, overlap>>
voiceVars    == <<hook, service, call, voiceHistory>>

States == {"disconnected", "connecting", "connected"}

None == [op |-> "none", at |-> "idle", room |-> 0, after |-> {}]

VoiceTypeOK ==
    /\ mounted \in BOOLEAN /\ mounts \in 0..MaxMounts
    /\ shown \in States /\ effect \in States
    /\ room \in 0..MaxRooms /\ roomsMade \in 0..MaxRooms
    /\ state \in [Rooms -> States \cup {"none"}]
    /\ call \in [Calls -> [op : {"none", "connect", "disconnect"},
                           at : {"idle", "token", "closing", "opening"},
                           room : 0..MaxRooms, after : SUBSET Calls]]
    /\ wanted \in BOOLEAN /\ failed \in BOOLEAN /\ overlap \in BOOLEAN

VoiceInit ==
    /\ mounted = FALSE /\ mounts = 0
    /\ shown = "disconnected" /\ effect = "disconnected"
    /\ room = 0 /\ roomsMade = 0
    /\ state = [r \in Rooms |-> "none"]
    /\ call = [t \in Calls |-> None]
    /\ wanted = FALSE /\ failed = FALSE /\ overlap = FALSE

Live == {r \in Rooms : state[r] \in {"connecting", "connected"}}

(* A connect whose room is still to be made. *)
Coming(t) == call[t].op = "connect" /\ call[t].at \in {"token", "closing"}

(* The calls that await Room.disconnect of the service's room. *)
Closers == {u \in Calls : call[u].at = "closing" /\ call[u].room = room}

(* Room.disconnect takes time: the room is live, or others are before.     *)
(* Otherwise it returns at once.                                           *)
TakesTime == room \in Live \/ Closers # {}

Closing(op) == [op |-> op, at |-> "closing", room |-> room, after |-> Closers]
-----------------------------------------------------------------------------
(* mutant: the field is cleared, the room is not left *)
HangUpForget(t) ==
    /\ call[t].at = "idle"
    /\ room' = 0
    /\ overlap' = (overlap \/ \E u \in Calls : Coming(u))
    /\ UNCHANGED call

(* livekitService.disconnect up to its await, or to its end. *)
HangUp(t) ==
    /\ call[t].at = "idle"
    /\ IF TakesTime THEN /\ call' = [call EXCEPT ![t] = Closing("disconnect")]
                         /\ UNCHANGED room
                    ELSE /\ room' = 0
                         /\ UNCHANGED call
    /\ overlap' = (overlap \/ \E u \in Calls : Coming(u))

(* The panel is mounted: the callbacks are set, and onState reports. *)
Show ==
    /\ ~mounted /\ mounts < MaxMounts
    /\ mounted' = TRUE /\ mounts' = mounts + 1
    /\ shown' = IF room = 0 THEN "disconnected" ELSE state[room]
    /\ effect' = "disconnected"
    /\ UNCHANGED <<service, call, voiceHistory>>

(* The panel goes, or its channel changes: the cleanup hangs up. *)
Unmount(t) ==
    /\ mounted
    /\ mounted' = FALSE
    /\ wanted' = FALSE
    /\ HangUp(t)
    /\ UNCHANGED <<mounts, shown, effect, state, roomsMade, failed>>

SwitchChannel(t) ==
    /\ mounted
    /\ wanted' = FALSE
    /\ effect' = shown
    /\ HangUp(t)
    /\ UNCHANGED <<mounted, mounts, shown, state, roomsMade, failed>>

(* connect depends on isConnecting and isConnected: when they change, the  *)
(* effect's cleanup runs.                                                  *)
Effect(t) ==
    /\ mounted /\ effect # shown
    /\ effect' = shown
    /\ HangUp(t)
    /\ UNCHANGED <<mounted, mounts, shown, state, roomsMade, wanted, failed>>

(* The user presses the buttons of VoicePanel. *)
ClickConnect(t) ==
    /\ mounted /\ shown = "disconnected"
    /\ call[t].at = "idle"
    /\ call' = [call EXCEPT ![t] = [None EXCEPT !.op = "connect", !.at = "token"]]
    /\ wanted' = TRUE
    /\ overlap' = (overlap \/ \E u \in Calls : call[u].at # "idle")
    /\ UNCHANGED <<hook, service, failed>>

ClickLeave(t) ==
    /\ mounted /\ shown = "connected"
    /\ wanted' = FALSE
    /\ HangUp(t)
    /\ UNCHANGED <<hook, state, roomsMade, failed>>
-----------------------------------------------------------------------------
(* livekitService.connect makes its room, which reports Connecting. *)
MakeRoom(t) ==
    /\ roomsMade < MaxRooms
    /\ roomsMade' = roomsMade + 1
    /\ room' = roomsMade + 1
    /\ call' = [call EXCEPT ![t] = [None EXCEPT !.op = "connect", !.at = "opening",
                                                !.room = roomsMade + 1]]

(* The token arrives; a room that is still there is left first. *)
Token(t) ==
    /\ call[t].at = "token"
    /\ IF ~TakesTime
       THEN /\ MakeRoom(t)
            /\ state' = [state EXCEPT ![roomsMade + 1] = "connecting"]
            /\ shown' = "connecting"
       ELSE /\ call' = [call EXCEPT ![t] = Closing("connect")]
            /\ UNCHANGED <<service, shown>>
    /\ UNCHANGED <<mounted, mounts, effect, voiceHistory>>

TokenFails(t) ==
    /\ call[t].at = "token"
    /\ call' = [call EXCEPT ![t] = None]
    /\ failed' = TRUE
    /\ UNCHANGED <<hook, service, wanted, overlap>>

(* Room.disconnect is done, and the caller goes on at once: disconnect     *)
(* clears the field, connect makes the next room.                          *)
Closed(t) ==
    LET r == call[t].room
        left == [state EXCEPT ![r] = "disconnected"]
    IN
    /\ call[t].at = "closing"
    /\ \A u \in call[t].after : call[u].at # "closing" \/ call[u].room # r
    /\ IF call[t].op = "connect"
       THEN /\ MakeRoom(t)
            /\ state' = [left EXCEPT ![roomsMade + 1] = "connecting"]
            /\ shown' = "connecting"
       ELSE /\ room' = 0
            /\ call' = [call EXCEPT ![t] = None]
            /\ state' = left
            /\ shown' = IF r \in Live THEN "disconnected" ELSE shown
            /\ UNCHANGED roomsMade
    /\ UNCHANGED <<mounted, mounts, effect, voiceHistory>>

(* Room.connect succeeds, fails, or is cut short by Room.disconnect. *)
Opened(t) ==
    LET r == call[t].room IN
    /\ call[t].at = "opening" /\ state[r] = "connecting"
    /\ state' = [state EXCEPT ![r] = "connected"]
    /\ shown' = "connected"
    /\ call' = [call EXCEPT ![t] = None]
    /\ UNCHANGED <<mounted, mounts, effect, room, roomsMade, voiceHistory>>

OpenFails(t) ==
    LET r == call[t].room IN
    /\ call[t].at = "opening" /\ state[r] = "connecting"
    /\ state' = [state EXCEPT ![r] = "disconnected"]
    /\ shown' = "disconnected"
    /\ call' = [call EXCEPT ![t] = None]
    /\ failed' = TRUE
    /\ UNCHANGED <<mounted, mounts, effect, room, roomsMade, wanted, overlap>>

Aborted(t) ==
    /\ call[t].at = "opening" /\ state[call[t].room] = "disconnected"
    /\ call' = [call EXCEPT ![t] = None]
    /\ UNCHANGED <<hook, service, voiceHistory>>
-----------------------------------------------------------------------------
Panel(t) ==
    \/ Unmount(t) \/ SwitchChannel(t) \/ Effect(t)
    \/ ClickConnect(t) \/ ClickLeave(t)

Service(t) ==
    \/ Token(t) \/ TokenFails(t) \/ Closed(t)
    \/ Opened(t) \/ OpenFails(t) \/ Aborted(t)

VoiceNext == Show \/ \E t \in Calls : Panel(t) \/ Service(t)

VoiceSpec == VoiceInit /\ [][VoiceNext]_voiceVars
-----------------------------------------------------------------------------
Settled == (mounted => effect = shown) /\ \A t \in Calls : call[t].at = "idle"

(* As long as no connect meets another call before its room is made, no    *)
(* room goes on without the service: what can be heard can be left, and a  *)
(* panel that is gone leaves nobody connected.                             *)
NobodyLeftBehind ==
    ~overlap /\ Settled => /\ Live \subseteq {room}
                           /\ ~mounted => Live = {}

-----------------------------------------------------------------------------
(* What the documentation says and the code does not keep.  TLC refutes    *)
(* the statements below; the README gives the behaviours.                  *)

(* "Отключение от канала" (TEST_CHECKLIST.md:129): the room one is in can  *)
(* be left, for it is the one the service knows.                           *)
CanLeave == Settled => Live \subseteq {room}

(* "Подключение к голосовому каналу" (TEST_CHECKLIST.md:122): when nothing *)
(* has failed and everything has been handled, a user who asked to be in   *)
(* the channel is in it.                                                   *)
StaysConnected ==
    mounted /\ wanted /\ ~failed /\ Settled => room # 0 /\ state[room] = "connected"
=============================================================================
