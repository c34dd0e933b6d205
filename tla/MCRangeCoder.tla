---------------------------- MODULE MCRangeCoder ----------------------------
(* Instances of RangeCoder for TLC. *)
EXTENDS RangeCoder

Op(kind, n) == [kind |-> kind, n |-> n, table |-> <<>>]
Table(kind, n, table) == [kind |-> kind, n |-> n, table |-> table]

MCApplications ==
  [ (* carries: range symbols only, down to one unit of a small range *)
    symbols |-> [ops |-> {Op("uint", 3), Op("logp", 3), Table("cells", 5, <<0, 1, 4, 5>>)},
                 len |-> 5, sizes |-> {2, 5}, marks |-> FALSE, foreign |-> {}],
    (* the two ends of the buffer meet *)
    raw     |-> [ops |-> {Op("uint", 6), Op("bits", 1), Op("bits", 3)},
                 len |-> 4, sizes |-> {2, 4}, marks |-> FALSE, foreign |-> {}],
    (* a SILK packet with its flags *)
    flags   |-> [ops |-> {Op("flags", 1), Op("flags", 2), Op("logp", 2),
                          Table("icdf", 2, <<3, 1, 0>>)},
                 len |-> 5, sizes |-> {4}, marks |-> FALSE, foreign |-> {}],
    (* a trial that may be taken back *)
    trial   |-> [ops |-> {Table("bin", 2, <<0, 1, 3, 4>>), Op("bits", 2)},
                 len |-> 4, sizes |-> {3}, marks |-> TRUE, foreign |-> {}],
    (* bytes from elsewhere *)
    foreign |-> [ops |-> {Op("uint", 3), Op("uint", 6), Op("bits", 3), Op("logp", 3),
                          Op("flags", 2), Table("icdf", 2, <<3, 1, 1, 0>>),
                          Table("cells", 5, <<0, 1, 4, 5>>)},
                 len |-> 3, sizes |-> {}, marks |-> FALSE, foreign |-> 0 .. 4]]
=============================================================================
