--------------------------- MODULE MCOpusIterator ---------------------------
(* Instances of OpusIterator for TLC. *)
EXTENDS OpusIterator

(* Opaque payload of n bytes of the i-th extension. *)
Payload(i, n) == [j \in 1 .. n |-> 1000 * i + j]

(* Short extensions with and without a byte, two long ones. *)
Kinds == {<<3, 0>>, <<3, 1>>, <<32, 1>>, <<33, 2>>}

ListsOf(kinds, n, frames) ==
    {[exts |-> [i \in 1 .. n |->
                   [id |-> k[i][1], frame |-> f[i], data |-> Payload(i, k[i][2])]],
      nb |-> frames] :
        k \in [1 .. n -> kinds], f \in [1 .. n -> 0 .. frames - 1]}

(* Four extensions over three frames in any order: enough for a repeat     *)
(* over two later frames with something left to code behind it.            *)
MCLists ==
    ListsOf(Kinds, 0, 1) \cup ListsOf(Kinds, 2, 1) \cup ListsOf(Kinds, 3, 2)
      \cup ListsOf({<<3, 1>>, <<32, 1>>}, 4, 3)
      \cup ListsOf({<<32, 254>>, <<32, 255>>, <<3, 1>>}, 2, 2)

RawsOf(bytes, n, frames) ==
    {[bytes |-> b, nb |-> frames] : b \in UNION {[1 .. k -> bytes] : k \in 0 .. n}}

(* Padding, separators, repeat indicators, a short id with a byte, long    *)
(* ids with and without a length, and increments and lacing past the end.  *)
MCRaws == RawsOf({0, 1, 2, 3, 4, 5, 7, 64, 65, 255}, 4, 3)

=============================================================================
