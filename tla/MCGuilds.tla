------------------------------- MODULE MCGuilds -------------------------------
(* Instances of Guilds for TLC. *)
EXTENDS Guilds, TLC

CONSTANTS own, ann, ben, o, i1, i2, i3, i4, c1, q1, q2

(* Members, slots and fresh rows are interchangeable; the owner, the       *)
(* owner's row and the roles are not.                                      *)
Symmetry ==
    Permutations(Users \ {Owner}) \cup Permutations(Rows \ {OwnerRow})
        \cup Permutations(Slots)
=============================================================================
