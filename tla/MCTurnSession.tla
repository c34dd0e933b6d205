---------------------------- MODULE MCTurnSession ----------------------------
(* Small sessions for TLC. *)
EXTENDS TurnSession, TLC

CONSTANTS h1, h2, h3, c1, c2, t1, t2

OneFamily  == [h \in Hosts |-> "v4"]
TwoFamilies == [h \in Hosts |-> IF h = h1 THEN "v4" ELSE "v6"]

ChannelSymmetry == Permutations(Channels)
=============================================================================
