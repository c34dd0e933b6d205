------------------------------ MODULE MCContent ------------------------------
(* Small instances of Content for TLC. *)
EXTENDS Content, TLC

CONSTANTS text, voice, k1, general, c1, m1, m2, q1, q2

(* One default channel, in the text category. *)
OneDefault == [c \in Channels |-> IF c = general THEN text ELSE Nothing]

Symmetry == Permutations(Slots) \cup Permutations(Messages)
=============================================================================
