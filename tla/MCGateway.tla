------------------------------ MODULE MCGateway ------------------------------
(* Instances of Gateway for TLC: which user each socket belongs to. *)
EXTENDS Gateway, TLC

CONSTANTS ann, ben, s1, s2, c1

(* Ann has two connections (two tabs, or one before and one after a        *)
(* reconnect); ben creates the channels.                                   *)
TwoTabs == s1 :> ann @@ s2 :> ann
ByBen == [c \in Channels |-> ben]

(* Ben has no connection, and his row is there from beginning to end.      *)
MCInit == Init /\ row[ben] = "offline"

(* Guild rooms are independent of everything else, so one of the two       *)
(* connections enters them.                                                *)
MCNext == Next /\ row'[ben] = "offline" /\ rooms'[s2] \cap Guilds = {}

MCSpec == MCInit /\ [][MCNext]_vars /\ Fairness
=============================================================================
