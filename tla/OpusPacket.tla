----------------------------- MODULE OpusPacket -----------------------------
(***************************************************************************)
(* The framing of an Opus packet: the table-of-contents byte, the coding   *)
(* of a frame size in one or two bytes, and the parser                     *)
(* opus_packet_parse_impl, for ordinary and for self-delimited packets.    *)
(*                                                                         *)
(* Memory is a sequence of bytes; a position is the number of bytes in     *)
(* front of it, so that a C pointer p is a position and *p is mem[p + 1].  *)
(* A byte of a header is in 0..255.  The bytes of a frame are opaque to    *)
(* this code: a model writes them as numbers above 255, each one different *)
(* from the others, so that a frame moved to the wrong place or cut at the *)
(* wrong byte is another frame.                                            *)
(***************************************************************************)
EXTENDS Integers, SequencesExt

OPUS_BAD_ARG == -1

OPUS_BUFFER_TOO_SMALL == -2

OPUS_INTERNAL_ERROR == -3

OPUS_INVALID_PACKET == -4

(* The sum of a sequence of numbers. *)
Total(s) == FoldLeft(LAMBDA a, b : a + b, 0, s)

(* One when the condition holds, as a C comparison. *)
One(b) == IF b THEN 1 ELSE 0

-----------------------------------------------------------------------------
(* Frame sizes. *)

(* A size below 252 is one byte; a larger one carries its two low bits in  *)
(* the first byte and the rest in the second.                              *)
EncodeSize(size) ==
    IF size < 252 THEN <<size>>
    ELSE LET low == 252 + (size % 4) IN <<low, (size - low) \div 4>>

(* The size at position at with len bytes left, and the bytes it took;     *)
(* both are -1 when it is cut off.                                         *)
ParseSize(mem, at, len) ==
    LET cut == [size |-> -1, bytes |-> -1]
    IN IF len < 1 THEN cut
       ELSE IF mem[at + 1] < 252 THEN [size |-> mem[at + 1], bytes |-> 1]
       ELSE IF len < 2 THEN cut
       ELSE [size |-> 4 * mem[at + 2] + mem[at + 1], bytes |-> 2]

-----------------------------------------------------------------------------
(* The table-of-contents byte. *)

(* Fs << n. *)
Shifted(Fs, n) == Fs * <<1, 2, 4, 8>>[n + 1]

(* Samples of one frame at rate Fs: CELT frames of 2.5 to 20 ms, hybrid    *)
(* frames of 10 or 20 ms, SILK frames of 10, 20, 40 or 60 ms.              *)
SamplesPerFrame(toc, Fs) ==
    LET size == (toc \div 8) % 4
    IN IF toc \div 128 = 1 THEN Shifted(Fs, size) \div 400
       ELSE IF (toc \div 32) % 4 = 3
       THEN IF (toc \div 8) % 2 = 1 THEN Fs \div 50 ELSE Fs \div 100
       ELSE IF size = 3 THEN (Fs * 60) \div 1000 ELSE Shifted(Fs, size) \div 100

(* The frame count a packet announces, without parsing it. *)
NbFrames(mem, at, len) ==
    LET code == mem[at + 1] % 4
    IN IF len < 1 THEN OPUS_BAD_ARG
       ELSE IF code = 0 THEN 1
       ELSE IF code # 3 THEN 2
       ELSE IF len < 2 THEN OPUS_INVALID_PACKET
       ELSE mem[at + 2] % 64

(* Its duration in samples, at most 120 ms. *)
NbSamples(mem, at, len, Fs) ==
    LET count == NbFrames(mem, at, len)
        samples == count * SamplesPerFrame(mem[at + 1], Fs)
    IN IF count < 0 THEN count
       ELSE IF samples * 25 > Fs * 3 THEN OPUS_INVALID_PACKET
       ELSE samples

-----------------------------------------------------------------------------
(* The parser.  Each part returns a cursor: ok, the position of the next   *)
(* byte, and len, the bytes left for frames once the padding at the end of *)
(* the packet has been set aside.                                          *)

(* The padding length: bytes of 255 that stand for 254 each, then one that *)
(* stands for itself.                                                      *)
ParsePadding(mem, from) ==
    LET read[b \in [ok : BOOLEAN, pos : Int, len : Int, pad : Int]] ==
            LET p == mem[b.pos + 1]
                tmp == IF p = 255 THEN 254 ELSE p
                on == [ok |-> TRUE, pos |-> b.pos + 1,
                       len |-> b.len - 1 - tmp, pad |-> b.pad + tmp]
            IN IF b.len <= 0 THEN [b EXCEPT !.ok = FALSE]
               ELSE IF p = 255 THEN read[on] ELSE on
    IN read[from]

(* The sizes of count - 1 frames, one after the other. *)
ParseSizes(mem, from, count) ==
    LET read[i \in Nat] ==
            IF i = 0 THEN from
            ELSE LET before == read[i - 1]
                     s == ParseSize(mem, before.pos, before.len)
                 IN IF ~before.ok THEN before
                    ELSE IF s.size < 0 \/ s.size > before.len - s.bytes
                    THEN [before EXCEPT !.ok = FALSE]
                    ELSE [ok |-> TRUE, pos |-> before.pos + s.bytes,
                          len |-> before.len - s.bytes,
                          last |-> before.last - s.bytes - s.size,
                          sizes |-> Append(before.sizes, s.size)]
    IN read[count - 1]

(* The frames a header announces: their count, whether they have one size, *)
(* the sizes known so far, the size left for the last one, and the padding.*)
BadHeader == [ok |-> FALSE]

(* Code 2: the size of the first frame has been read. *)
HeaderTwo(two) ==
    IF ~two.ok THEN BadHeader
    ELSE [ok |-> TRUE, count |-> 2, cbr |-> FALSE, pos |-> two.pos,
          len |-> two.len, last |-> two.len - two.sizes[1],
          sizes |-> two.sizes, pad |-> 0]

(* Code 3 with sizes: all but the last one have been read. *)
HeaderVbr(many, count, pad) ==
    IF ~many.ok \/ many.last < 0 THEN BadHeader
    ELSE [ok |-> TRUE, count |-> count, cbr |-> FALSE,
          pos |-> many.pos, len |-> many.len, last |-> many.last,
          sizes |-> many.sizes, pad |-> pad]

(* Code 3: body is what is left behind the count byte ch and the padding.  *)
HeaderMany(mem, body, ch, len, sd) ==
    LET count == ch % 64
    IN IF ~body.ok \/ body.len < 0 THEN BadHeader
       ELSE IF ch \div 128 = 1
       THEN HeaderVbr(ParseSizes(mem, [ok |-> TRUE, pos |-> body.pos, len |-> body.len,
                                       last |-> body.len, sizes |-> <<>>], count),
                      count, body.pad)
       ELSE IF ~sd /\ body.len % count # 0 THEN BadHeader
       ELSE [ok |-> TRUE, count |-> count, cbr |-> TRUE,
             pos |-> body.pos, len |-> body.len, pad |-> body.pad,
             last |-> IF sd THEN len ELSE body.len \div count,
             sizes |-> IF sd THEN <<>>
                       ELSE [i \in 1 .. (count - 1) |-> body.len \div count]]

ParseHeader(mem, at, plen, sd) ==
    LET toc == mem[at + 1]
        code == toc % 4
        len == plen - 1
        ch == mem[at + 2]
        behind == [ok |-> TRUE, pos |-> at + 2, len |-> len - 1, pad |-> 0]
    IN CASE code = 0 -> [ok |-> TRUE, count |-> 1, cbr |-> FALSE, pos |-> at + 1,
                         len |-> len, last |-> len, sizes |-> <<>>, pad |-> 0]
         [] code = 1 ->
              IF ~sd /\ len % 2 = 1 THEN BadHeader
              ELSE [ok |-> TRUE, count |-> 2, cbr |-> TRUE, pos |-> at + 1,
                    len |-> len, last |-> IF sd THEN len ELSE len \div 2,
                    sizes |-> IF sd THEN <<>> ELSE <<len \div 2>>, pad |-> 0]
         [] code = 2 ->
              HeaderTwo(ParseSizes(mem, [ok |-> TRUE, pos |-> at + 1, len |-> len,
                                         last |-> len, sizes |-> <<>>], 2))
         [] code = 3 ->
              IF \/ len < 1
                 \/ ch % 64 = 0
                 \/ SamplesPerFrame(toc, 48000) * (ch % 64) > 5760
              THEN BadHeader
              ELSE HeaderMany(mem, IF (ch \div 64) % 2 = 1
                                   THEN ParsePadding(mem, behind) ELSE behind,
                              ch, len, sd)

(* A self-delimited packet states the size of its last frame too; in an    *)
(* ordinary one that frame takes what is left, up to 1275 bytes.           *)
ParseLast(mem, h, sd) ==
    LET s == ParseSize(mem, h.pos, h.len)
        left == h.len - s.bytes
    IN IF ~sd
       THEN [ok |-> h.last <= 1275, pos |-> h.pos,
             sizes |-> Append(h.sizes, h.last)]
       ELSE [ok |-> /\ s.size >= 0
                    /\ s.size <= left
                    /\ IF h.cbr THEN s.size * h.count <= left
                                ELSE s.bytes + s.size <= h.last,
             pos |-> h.pos + s.bytes,
             sizes |-> IF h.cbr THEN [i \in 1 .. h.count |-> s.size]
                                ELSE Append(h.sizes, s.size)]

NotParsed(e) ==
    [ret |-> e, frames |-> <<>>, pad |-> [at |-> 0, len |-> 0],
     offset |-> 0, payload |-> 0]

(* The frames, once all sizes are known (p). *)
ParsedFrames(at, h, p) ==
    LET start(i) == p.pos + Total(SubSeq(p.sizes, 1, i - 1))
        end == start(h.count + 1)
    IN IF ~p.ok THEN NotParsed(OPUS_INVALID_PACKET)
       ELSE [ret |-> h.count,
             frames |-> [i \in 1 .. h.count |-> [at |-> start(i), len |-> p.sizes[i]]],
             pad |-> [at |-> end, len |-> h.pad],
             offset |-> end + h.pad - at,
             payload |-> p.pos - at]

(* The frames behind the header h. *)
ParseFrames(mem, at, h, sd) ==
    IF ~h.ok THEN NotParsed(OPUS_INVALID_PACKET)
    ELSE ParsedFrames(at, h, ParseLast(mem, h, sd))

(* opus_packet_parse_impl: the frames as positions and sizes, the padding  *)
(* behind them, and offset, where the next packet would start.             *)
Parse(mem, at, len, sd) ==
    IF len < 0 THEN NotParsed(OPUS_BAD_ARG)
    ELSE IF len = 0 THEN NotParsed(OPUS_INVALID_PACKET)
    ELSE ParseFrames(mem, at, ParseHeader(mem, at, len, sd), sd)

=============================================================================
