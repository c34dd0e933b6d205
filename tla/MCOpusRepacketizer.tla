------------------------- MODULE MCOpusRepacketizer -------------------------
(* Instances of OpusRepacketizer for TLC. *)
EXTENDS OpusRepacketizer

(* Frames of n bytes, each byte different from those of other frames. *)
Frame(i, n) == [j \in 1 .. n |-> 1000 * i + j]

Plain == [ok |-> TRUE, exts |-> <<>>]

(* 40 ms SILK frames: a packet has at most three. *)
Toc40 == 16

(* 60 ms SILK frames: at most two. *)
Toc60 == 24

(* One frame, as the encoder writes it. *)
Code0(toc, i, n) ==
    [bytes |-> <<toc>> \o Frame(i, n), frames |-> <<Frame(i, n)>>, exts |-> Plain]

(* Two frames of one size. *)
Code1(toc, i, n) ==
    [bytes |-> <<toc + 1>> \o Frame(i, n) \o Frame(i + 1, n),
     frames |-> <<Frame(i, n), Frame(i + 1, n)>>, exts |-> Plain]

(* Two frames, the first with a size of two bytes. *)
Code2(toc, i, n, m) ==
    [bytes |-> <<toc + 2, 252 + (n % 4), (n - 252) \div 4>> \o Frame(i, n) \o Frame(i + 1, m),
     frames |-> <<Frame(i, n), Frame(i + 1, m)>>, exts |-> Plain]

(* Two frames in the general form with padding that holds extensions: a    *)
(* short one of both frames and a long one of the second.                  *)
Code3(toc, i, n, m) ==
    LET pad == <<7, 1000 * i + 501, 5, 1000 * i + 502, 2, 64, 1000 * i + 503>>
    IN [bytes |-> <<toc + 3, 128 + 64 + 2, Len(pad), n>>
                    \o Frame(i, n) \o Frame(i + 1, m) \o pad,
        frames |-> <<Frame(i, n), Frame(i + 1, m)>>,
        exts |-> [ok |-> TRUE, exts |->
            <<[id |-> 3, frame |-> 0, data |-> <<1000 * i + 501>>],
              [id |-> 3, frame |-> 1, data |-> <<1000 * i + 502>>],
              [id |-> 32, frame |-> 1, data |-> <<1000 * i + 503>>]>>]]

(* One frame in the general form with an extension. *)
Code3One(toc, i, n) ==
    [bytes |-> <<toc + 3, 64 + 1, 2>> \o Frame(i, n) \o <<9, 1000 * i + 501>>,
     frames |-> <<Frame(i, n)>>,
     exts |-> [ok |-> TRUE,
               exts |-> <<[id |-> 4, frame |-> 0, data |-> <<1000 * i + 501>>]>>]]

MCPackets == {Code0(Toc40, 1, 3), Code3(Toc40, 3, 2, 1), Code3One(Toc40, 5, 1)}

(* The size of the first frame is cut off. *)
CutOff(toc) == [bytes |-> <<toc + 2, 252>>, frames |-> <<>>, exts |-> NoWord]

MCMulti == {Code0(Toc60, 1, 0), Code0(Toc60, 2, 251), Code0(Toc60, 3, 252),
            Code1(Toc60, 4, 1), Code2(Toc60, 6, 252, 1), Code2(Toc60, 8, 253, 252),
            CutOff(Toc60)}

(* Short byte strings as packets from the network: what they carry is what *)
(* the parser says, nothing if it refuses them.                            *)
Parsed(b, p) ==
    [bytes |-> b,
     frames |-> [i \in DOMAIN p.frames |->
                    SubSeq(b, p.frames[i].at + 1, p.frames[i].at + p.frames[i].len)],
     exts |-> IF p.ret < 0 THEN NoWord ELSE ExtensionsOf(b, p)]

FromNetwork(b) == Parsed(b, Parse(b, 0, Len(b), FALSE))

(* Table-of-contents bytes of all four codes, counts of one to three with  *)
(* and without the flags, then any of a few bytes.                         *)
MCNetwork ==
    {FromNetwork(<<t, c>> \o r) :
        t \in {Toc40, Toc40 + 1, Toc40 + 2, Toc40 + 3},
        c \in {0, 2, 3, 65, 66, 130, 194, 195},
        r \in UNION {[1 .. k -> {0, 1, 2, 6, 252}] : k \in 0 .. 3}}

(* Merging up to three packets with extensions; joining two streams of     *)
(* frames around 252 bytes, with padding around 255; padding and unpadding *)
(* what comes from the network.                                            *)
MCApplications ==
    [merge   |-> [packets |-> MCPackets, received |-> {}, padTo |-> {20},
                  rooms |-> {2000}, cats |-> 3, inits |-> 0],
     join    |-> [packets |-> MCMulti, received |-> {}, padTo |-> {257, 258, 800},
                  rooms |-> {4, 2000}, cats |-> 1, inits |-> 1],
     network |-> [packets |-> {}, received |-> MCNetwork, padTo |-> {7, 8},
                  rooms |-> {2000}, cats |-> 0, inits |-> 0]]

=============================================================================
