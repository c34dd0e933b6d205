--------------------------- MODULE OpusExtensions ---------------------------
(***************************************************************************)
(* Packet extensions: the side data Opus carries in the padding of a       *)
(* packet, each extension for one frame.  Next is the iterator that reads  *)
(* them, Generate the writer that chooses the coding: a separator between  *)
(* frames, lengths in lacing bytes, the last length left out, and a        *)
(* "repeat" indicator that stands for the id bytes of all later frames.    *)
(*                                                                         *)
(* Memory and positions are those of OpusPacket.  An extension to write is *)
(* [id, frame, data], data being its opaque payload; one that was read is  *)
(* [id, frame, at, len].                                                   *)
(***************************************************************************)
EXTENDS OpusPacket

-----------------------------------------------------------------------------
(* Skipping over one extension. *)

(* The payload of a long extension behind its lacing bytes: each 255 adds  *)
(* 255 bytes and another lacing byte, so there are as many of them as fit  *)
(* or come before another value.                                           *)
SkipLaced(mem, at, len) ==
    LET full == Min({i \in 0 .. len : len <= 256 * i \/ mem[at + i + 1] # 255})
        lacing == mem[at + full + 1]
        left == len - 256 * full - lacing - 1
    IN IF len < 1 \/ len <= 256 * full \/ left < 0 THEN [at |-> at, len |-> -1, hdr |-> 0]
       ELSE [at |-> at + len - left, len |-> left, hdr |-> full + 1]

(* The payload of the extension whose id byte was idb: none for padding    *)
(* and repeat indicators, at most one byte for a short extension, all but  *)
(* the trailing bytes for a long one without a length.                     *)
SkipPayload(mem, at, len, idb, trailing) ==
    LET id == idb \div 2
        L == idb % 2
        failed == [at |-> at, len |-> -1, hdr |-> 0]
    IN CASE (id = 0 /\ L = 1) \/ id = 2 -> [at |-> at, len |-> len, hdr |-> 0]
         [] id > 0 /\ id # 2 /\ id < 32 ->
              IF len < L THEN failed
              ELSE [at |-> at + L, len |-> len - L, hdr |-> 0]
         [] (id = 0 \/ id >= 32) /\ L = 0 ->
              IF len < trailing THEN failed
              ELSE [at |-> at + len - trailing, len |-> trailing, hdr |-> 0]
         [] id >= 32 /\ L = 1 -> SkipLaced(mem, at, len)

(* The whole extension, id byte included. *)
Skip(mem, at, len) ==
    LET p == SkipPayload(mem, at + 1, len - 1, mem[at + 1], 0)
    IN IF len = 0 THEN [at |-> at, len |-> 0, hdr |-> 0]
       ELSE IF len < 1 \/ p.len < 0 THEN [at |-> at, len |-> -1, hdr |-> 0]
       ELSE [at |-> p.at, len |-> p.len, hdr |-> p.hdr + 1]

-----------------------------------------------------------------------------
(* The iterator.  curr and len: the data not read yet; frame: the current  *)
(* frame; from: the first extension a repeat indicator would repeat; src   *)
(* and srclen: those still to repeat for rframe, replen their length;      *)
(* long: the end of the last long extension read (-1: none), trailing: the *)
(* short payload bytes behind it; L: the flag of the repeat indicator;     *)
(* fmax: the frame at which the caller wants the iteration to stop.        *)

Iterator ==
    [curr : Int, len : Int, frame : Nat, from : Nat, src : Int, srclen : Int,
     rframe : Nat, replen : Nat, long : Int, trailing : Nat, L : Int, fmax : Int]

(* Those whose data lies in mem, and those that have something to repeat. *)
Reading(mem) ==
    {it \in Iterator : it.from <= it.curr /\ it.curr + it.len <= Len(mem)}

Repeating(mem) ==
    {it \in Reading(mem) : /\ it.src >= 0 /\ it.src + it.srclen <= Len(mem)
                           /\ it.from + it.replen <= Len(mem)}

(* Those next may be called with. *)
Callable(mem) == {it \in Reading(mem) : it.rframe > 0 => it \in Repeating(mem)}

IteratorInit(at, len, nb) ==
    [curr |-> at, len |-> len, frame |-> 0, from |-> at, src |-> -1, srclen |-> 0,
     rframe |-> 0, replen |-> 0, long |-> -1, trailing |-> 0, L |-> 0, fmax |-> nb]

(* mutant: a reset in the middle of a repeat goes on repeating. *)
IteratorResetHalf(it, at, len) ==
    [it EXCEPT !.curr = at, !.len = len, !.frame = 0, !.from = at,
               !.long = -1, !.trailing = 0]

(* Back to the first extension; fmax and what a repeat indicator sets      *)
(* before it is used stay.                                                 *)
IteratorReset(it, at, len) ==
    [it EXCEPT !.curr = at, !.len = len, !.frame = 0, !.from = at,
               !.rframe = 0, !.long = -1, !.trailing = 0]

(* What a call, or one pass of its loops, comes to: the return value, or   *)
(* to go on.                                                               *)
Ended(it) ==
    [ret |-> 0, go |-> FALSE, it |-> it,
     ext |-> [id |-> 0, frame |-> 0, at |-> 0, len |-> 0]]

Onto(it) == [Ended(it) EXCEPT !.go = TRUE]

Invalid(it) == [Ended(it) EXCEPT !.ret = OPUS_INVALID_PACKET]

(* An extension of a frame, its data behind hdr bytes of header. *)
Found(it, id, frame, at, hdr) ==
    [Ended(it) EXCEPT !.ret = 1,
                      !.ext = [id |-> id, frame |-> frame, at |-> at + hdr,
                               len |-> it.curr - at - hdr]]

(* mutant: data left behind the last frame is read on. *)
RepeatDoneOn(it, nb) ==
    [it EXCEPT !.from = it.curr, !.long = -1, !.rframe = 0,
               !.frame = IF it.L = 1 THEN @ ELSE @ + 1]

(* All frames have had their repeated extensions. *)
RepeatDone(it, nb) ==
    LET after == [it EXCEPT !.from = it.curr, !.long = -1, !.rframe = 0]
        last == after.frame + 1 >= nb
    IN IF it.L = 1 THEN after
       ELSE [after EXCEPT !.frame = @ + 1,
                          !.len = IF last THEN 0 ELSE @]

(* The payload of a repeated extension with the id byte rid, skipped to p. *)
RepeatedPayload(past, rid, p, at) ==
    LET read == [past EXCEPT !.curr = p.at, !.len = p.len]
    IN IF p.len < 0 THEN Invalid(read)
       ELSE IF read.rframe >= read.fmax THEN Onto(read)
       ELSE Found(read, rid \div 2, read.rframe, at, p.hdr)

(* The extension to repeat, skipped to s: its id byte is the one in src,   *)
(* its payload that at curr.  In the last frame, when the indicator had    *)
(* L = 0, the last long extension has no length.                           *)
RepeatOne(mem, it, nb, s) ==
    LET idb == mem[it.src + 1]
        past == [it EXCEPT !.src = s.at, !.srclen = s.len]
        rid == IF it.L = 0 /\ it.rframe + 1 >= nb /\ s.at = it.long
               THEN 2 * (idb \div 2) ELSE idb
    IN IF idb <= 3 THEN Onto(past)
       ELSE RepeatedPayload(past, rid,
                            SkipPayload(mem, it.curr, it.len, rid, it.trailing), it.curr)

(* One pass of the loops over frames and what is repeated for each. *)
RepeatPass(mem, it, nb) ==
    IF it.rframe >= nb THEN Ended(RepeatDone(it, nb))
    ELSE IF it.srclen <= 0
    THEN Onto([it EXCEPT !.rframe = @ + 1, !.src = it.from, !.srclen = it.replen])
    ELSE RepeatOne(mem, it, nb, Skip(mem, it.src, it.srclen))

(* The next repeated extension, of this frame or a later one. *)
NextRepeat(mem, it0, nb) ==
    LET next[it \in Repeating(mem)] ==
            LET on(r) == IF r.go THEN next[r.it] ELSE r IN on(RepeatPass(mem, it, nb))
    IN next[it0]

(* What the extension at curr, skipped to s, does to the iterator. *)
ReadOne(mem, it, nb, s) ==
    LET id == mem[it.curr + 1] \div 2
        L == mem[it.curr + 1] % 2
        read == [it EXCEPT !.curr = s.at, !.len = s.len]
        by == IF L = 0 THEN 1 ELSE mem[it.curr + 2]
        moved == [read EXCEPT !.frame = @ + by]
        indicated == [read EXCEPT !.L = L, !.rframe = it.frame + 1,
                                  !.replen = it.curr - it.from,
                                  !.src = it.from,
                                  !.srclen = it.curr - it.from]
        repeated(r) == IF r.ret # 0 THEN r ELSE Onto(r.it)
        seen == IF id >= 32 THEN [read EXCEPT !.long = s.at, !.trailing = 0]
                            ELSE [read EXCEPT !.trailing = @ + L]
    IN IF s.len < 0 THEN Invalid(read)
       ELSE CASE id = 0 -> Onto(read)
              [] id = 1 ->
                   IF by = 0 THEN Onto(read)
                   ELSE IF moved.frame >= nb THEN Invalid([moved EXCEPT !.len = -1])
                   ELSE Onto([moved EXCEPT
                                !.len = IF moved.frame >= it.fmax THEN 0 ELSE @,
                                !.from = s.at, !.long = -1, !.trailing = 0])
              [] id = 2 -> repeated(NextRepeat(mem, indicated, nb))
              [] id > 2 -> Found(seen, id, it.frame, it.curr, s.hdr)

(* One pass of the loop of next. *)
ReadPass(mem, it, nb) ==
    IF it.len <= 0 THEN Ended(it) ELSE ReadOne(mem, it, nb, Skip(mem, it.curr, it.len))

(* The loop, behind what was left to repeat (first). *)
ReadOn(mem, first, nb) ==
    LET read[it \in Reading(mem)] ==
            LET on(r) == IF r.go THEN read[r.it] ELSE r IN on(ReadPass(mem, it, nb))
    IN IF first.ret # 0 \/ first.it.frame >= first.it.fmax THEN first
       ELSE read[first.it]

(* opus_extension_iterator_next. *)
IteratorNext(mem, it, nb) ==
    IF it.len < 0 THEN Invalid(it)
    ELSE ReadOn(mem, IF it.rframe > 0 THEN NextRepeat(mem, it, nb) ELSE Ended(it), nb)

(* opus_packet_extensions_parse: everything the iterator returns, and its  *)
(* last return value.  opus_packet_extensions_count is the length of exts. *)
ExtensionsParse(mem, at, len, nb) ==
    LET walk[it \in Callable(mem)] ==
            LET on(r) == IF r.ret <= 0 THEN [ret |-> r.ret, exts |-> <<>>]
                         ELSE [walk[r.it] EXCEPT !.exts = <<r.ext>> \o @]
            IN on(IteratorNext(mem, it, nb))
    IN walk[IteratorInit(at, len, nb)]

-----------------------------------------------------------------------------
(* The writer.  A piece is what the code writes behind one check of the    *)
(* room left: need is the room it asks for, bytes what it then writes, or  *)
(* ret an error it returns first.                                          *)

Piece(need, bytes) == [ret |-> 0, need |-> need, bytes |-> bytes]

(* write_extension_payload. *)
WritePayload(ext, last) ==
    LET n == Len(ext.data)
        lacing == [i \in 1 .. (n \div 255) |-> 255] \o <<n % 255>>
        all == IF last THEN ext.data ELSE lacing \o ext.data
    IN IF ext.id < 32
       THEN IF n > 1 THEN <<[Piece(0, <<>>) EXCEPT !.ret = OPUS_BAD_ARG]>>
                     ELSE <<Piece(n, ext.data)>>
       ELSE <<Piece(Len(all), all)>>

(* write_extension. *)
WriteExtension(ext, last) ==
    LET flag == IF ext.id < 32 THEN Len(ext.data) ELSE One(~last)
    IN <<Piece(1, <<2 * ext.id + flag>>)>> \o WritePayload(ext, last)

(* The separator in front of the first extension of another frame. *)
Separator(diff) ==
    IF diff = 0 THEN <<>>
    ELSE <<Piece(2, IF diff = 1 THEN <<2>> ELSE <<3, diff>>)>>

(* Whether the k-th extension still to write for frame f can be repeated:  *)
(* the k-th of every later frame has its id and, if short, its length.     *)
Repeatable(pend, f, k, nb) ==
    \A g \in f + 1 .. nb - 1 :
        /\ Len(pend[g]) >= k
        /\ pend[g][k].id = pend[f][k].id
        /\ pend[f][k].id < 32 => Len(pend[g][k].data) = Len(pend[f][k].data)

(* The number of leading extensions of frame f that all can be. *)
RepeatCount(pend, f, nb) ==
    IF f + 1 >= nb THEN 0
    ELSE Max({0} \cup {r \in 1 .. Len(pend[f]) :
                          \A k \in 1 .. r : Repeatable(pend, f, k, nb)})

(* mutant: the repeat indicator drops the length even where a repeated     *)
(* long extension is followed by others.                                   *)
LastRepeatLoose(st, f, r, nb) == st.written + r <= st.total

(* Whether the repeat indicator gets L = 0: nothing but the repeated       *)
(* payloads follows, or no long extension was repeated and frame f ends.   *)
LastRepeat(st, f, r, nb) ==
    \/ st.written + r + r * (nb - (f + 1)) = st.total
    \/ /\ \A k \in 1 .. r : st.pend[f][k].id < 32
       /\ r = Len(st.pend[f])

(* The payloads behind the indicator: of every later frame its first r,    *)
(* the last long one of the last frame without its length if L = 0.        *)
RepeatPieces(pend, f, r, nb, last) ==
    LET long == Max({0} \cup {k \in 1 .. r : pend[f][k].id >= 32})
        payload(g, k) ==
            WritePayload(pend[g][k], last /\ g = nb - 1 /\ k = long)
    IN FlattenSeq([i \in 1 .. (nb - 1 - f) |->
           FlattenSeq([k \in 1 .. r |-> payload(f + i, k)])])

(* One pass of the loop over frames: st holds the extensions not written   *)
(* yet by frame, the pieces so far, the number written and the frame the   *)
(* reader will be at.                                                      *)
WriteFrame(st, f, nb) ==
    LET mine == st.pend[f]
        r == RepeatCount(st.pend, f, nb)
        last == LastRepeat(st, f, r, nb)
        write(k) ==
            LET before == st.written + k - 1 + (IF k > r THEN r * (nb - 1 - f) ELSE 0)
            IN WriteExtension(mine[k], before = st.total - 1)
        span(a, b) == FlattenSeq([i \in 1 .. (b - a + 1) |-> write(a + i - 1)])
        indicator == <<Piece(1, <<4 + One(~last)>>)>>
                        \o RepeatPieces(st.pend, f, r, nb, last)
    IN IF mine = <<>> THEN st
       ELSE [st EXCEPT
               !.pieces = @ \o Separator(f - st.frame) \o span(1, r)
                            \o (IF r > 0 THEN indicator ELSE <<>>)
                            \o span(r + 1, Len(mine)),
               !.written = @ + Len(mine) + r * (nb - 1 - f),
               !.frame = IF r > 0 /\ last THEN f + 1 ELSE f,
               !.pend = [g \in DOMAIN @ |->
                           IF g > f THEN SubSeq(@[g], r + 1, Len(@[g])) ELSE @[g]]]

WriteFrames(exts, nb) ==
    LET pend == [f \in 0 .. nb - 1 |-> SelectSeq(exts, LAMBDA e : e.frame = f)]
        after[f \in Nat] ==
            IF f = 0 THEN [pend |-> pend, pieces |-> <<>>, written |-> 0,
                           frame |-> 0, total |-> Len(exts)]
            ELSE WriteFrame(after[f - 1], f - 1, nb)
    IN after[nb]

(* The pieces in len bytes: an error, or the number of bytes and the bytes *)
(* themselves, with 0x01 in front up to len if the caller asks for padding.*)
WritePieces(pieces, len, pad) ==
    LET pos(k) == Total([i \in 1 .. (k - 1) |-> Len(pieces[i].bytes)])
        stops == {k \in DOMAIN pieces :
                     pieces[k].ret < 0 \/ len - pos(k) < pieces[k].need}
        bytes == FlattenSeq([k \in DOMAIN pieces |-> pieces[k].bytes])
        fill == IF pad /\ Len(bytes) < len THEN len - Len(bytes) ELSE 0
    IN IF stops # {}
       THEN [ret |-> IF pieces[Min(stops)].ret < 0 THEN OPUS_BAD_ARG
                                                   ELSE OPUS_BUFFER_TOO_SMALL,
             bytes |-> <<>>]
       ELSE [ret |-> fill + Len(bytes),
             bytes |-> [i \in 1 .. fill |-> 1] \o bytes]

(* opus_packet_extensions_generate. *)
Generate(exts, nb, len, pad) ==
    IF \/ nb > 48
       \/ \E i \in DOMAIN exts : \/ exts[i].frame \notin 0 .. nb - 1
                                 \/ exts[i].id \notin 3 .. 127
    THEN [ret |-> OPUS_BAD_ARG, bytes |-> <<>>]
    ELSE WritePieces(WriteFrames(exts, nb).pieces, len, pad)

=============================================================================
