------------------------------ MODULE MCClient -------------------------------
(* The client's two ways of calling over and over, for TLC: the retries of *)
(* selectChannel and the calls of the voice panel.  They share nothing, so *)
(* a behaviour is about one of them and the other stands still.            *)
EXTENDS Chat, Voice

CONSTANTS c1, c2, t1, t2, t3

VARIABLE half

clientVars == <<half, vars, voiceVars>>

MCInit == half \in {"channels", "voice"} /\ Init /\ VoiceInit

MCNext ==
    /\ UNCHANGED half
    /\ \/ half = "channels" /\ Next /\ UNCHANGED voiceVars
       \/ half = "voice" /\ VoiceNext /\ UNCHANGED vars

(* The timers are fair, as in LiveSpec. *)
MCSpec ==
    MCInit /\ [][MCNext]_clientVars /\ \A c \in Channels : WF_vars(Retry(c))
=============================================================================
