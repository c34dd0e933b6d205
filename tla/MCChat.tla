------------------------------- MODULE MCChat --------------------------------
(* Small instances of Chat for TLC. *)
EXTENDS Chat

CONSTANTS c1, c2, m1, m2

(* A third socket and a second message are not needed in one behaviour:    *)
(* what one socket more can do, and what a full snapshot can do.           *)
MCNext == Next /\ (made' <= 2 \/ Cardinality(AllSaved' \cup deleted') <= 1)

MCSpec == Init /\ [][MCNext]_vars

(* Neither the channels nor the messages are told apart. *)
Symmetry == Permutations({c1, c2}) \cup Permutations({m1, m2})
=============================================================================
