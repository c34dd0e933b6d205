-------------------------- MODULE OpusRepacketizer --------------------------
(***************************************************************************)
(* The Opus repacketizer and what is built on it: an application collects  *)
(* frames of packets with cat and writes them out again in other packets,  *)
(* pads and unpads a packet in place, and does the same with packets of    *)
(* several streams, all but the last of them self-delimited.               *)
(*                                                                         *)
(* out is the packet the application holds, a byte sequence.  The input    *)
(* buffers of cat must stay valid until the next init, so they are kept as *)
(* one memory, pool, into which the repacketizer points.  The outcome a    *)
(* packet should have is followed in history variables.                    *)
(***************************************************************************)
EXTENDS OpusExtensions

CONSTANT
    Applications    \* what the applications considered have to do with:
                    \* packets: packets from the encoder,
                    \*    [bytes, frames, exts], frames = <<>> if not valid,
                    \*    exts = [ok, exts], not ok if the padding is malformed;
                    \* received: packets from the network, of the same form;
                    \* padTo: the lengths it pads to;
                    \* rooms: the sizes of its output buffers;
                    \* cats: bound, packets in the repacketizer;
                    \* inits: bound, how often it empties the repacketizer

ASSUME ApplicationsAssumption ==
    \A a \in DOMAIN Applications :
        LET A == Applications[a]
        IN /\ \A p \in A.packets \cup A.received : p.bytes \in Seq(Nat)
           /\ A.padTo \subseteq Nat /\ A.rooms \subseteq Nat
           /\ A.cats \in Nat /\ A.inits \in Nat

VARIABLES
    app,        \* which application it is
    rp,         \* the OpusRepacketizer
    pool,       \* the buffers handed to cat since init
    out,        \* the packet the application holds, <<>> if none
    streams,    \* how many streams it has
    inits,      \* how often the repacketizer was emptied
    call,       \* the last call: what, and what it returned
    kept,       \* history: the frames in the repacketizer
    keptExts,   \* history: their extensions, NoWord after a malformed one
    cuts,       \* history: where in kept a packet ends
    carried,    \* history: for each stream of out, the frames it stands for
    carriedExts \* history: the extensions of its last stream, or NoWord

vars == <<app, rp, pool, out, streams, inits, call, kept, keptExts, cuts,
          carried, carriedExts>>

(* Nothing is said of the extensions of a packet whose padding is          *)
(* malformed, or that was cut out of the middle of another.                *)
NoWord == [ok |-> FALSE, exts |-> <<>>]

(* A byte of an output buffer nobody has written. *)
Junk == -1

-----------------------------------------------------------------------------
(* opus_repacketizer_cat_impl. *)

RpInit == [toc |-> 0, framesize |-> 0, frames |-> <<>>, pads |-> <<>>]

(* mutant: the 120 ms limit forgets the frames already there. *)
TooLongAlone(r, count) == count * r.framesize > 960

(* More than 120 ms, in samples at 8 kHz. *)
TooLong(r, count) == (count + Len(r.frames)) * r.framesize > 960

(* The frames of the parsed packet p behind those of r.  Only the first of *)
(* them gets the padding, with the frames it is for.                       *)
CatFrames(r, p) ==
    IF p.ret < 1 THEN [ret |-> p.ret, rp |-> r]
    ELSE [ret |-> 0,
          rp |-> [r EXCEPT
                    !.frames = @ \o p.frames,
                    !.pads = @ \o [i \in 1 .. p.ret |->
                        IF i = 1 THEN [at |-> p.pad.at, len |-> p.pad.len, nb |-> p.ret]
                                 ELSE [at |-> 0, len |-> 0, nb |-> 0]]]]

(* The packet at position at of mem: the return value and the new state. *)
Cat(r, mem, at, len, sd) ==
    LET toc == mem[at + 1]
        r1 == IF r.frames = <<>>
              THEN [r EXCEPT !.toc = toc, !.framesize = SamplesPerFrame(toc, 8000)]
              ELSE r
        count == NbFrames(mem, at, len)
    IN IF len < 1 THEN [ret |-> OPUS_INVALID_PACKET, rp |-> r]
       ELSE IF r.toc \div 4 # toc \div 4 /\ r.frames # <<>>
       THEN [ret |-> OPUS_INVALID_PACKET, rp |-> r]
       ELSE IF count < 1 \/ TooLong(r1, count)
       THEN [ret |-> OPUS_INVALID_PACKET, rp |-> r1]
       ELSE CatFrames(r1, Parse(mem, at, len, sd))

-----------------------------------------------------------------------------
(* opus_repacketizer_out_range_impl. *)

(* bytes written at position at; memory grows if they do not fit, which    *)
(* the caller's buffer cannot.                                             *)
Put(mem, at, bytes) ==
    SubSeq(mem, 1, at) \o bytes \o SubSeq(mem, at + Len(bytes) + 1, Len(mem))

Fill(n, byte) == [i \in 1 .. n |-> byte]

(* The bytes that encode_size takes. *)
SizeBytes(size) == 1 + One(size >= 252)

(* What was found in the paddings, as extensions to write: those of the    *)
(* i-th frame moved on by shift[i] frames; not ok if one is malformed.     *)
Collected(mem, found, shift) ==
    LET moved(i) ==
            [k \in DOMAIN found[i].exts |->
                LET e == found[i].exts[k]
                IN [id |-> e.id, frame |-> e.frame + shift[i],
                    data |-> SubSeq(mem, e.at + 1, e.at + e.len)]]
    IN IF \E i \in DOMAIN found : found[i].ret < 0 THEN [ok |-> FALSE, exts |-> <<>>]
       ELSE [ok |-> TRUE, exts |-> FlattenSeq([i \in DOMAIN found |-> moved(i)])]

(* What the paddings of some frames hold. *)
ParsePads(mem, pads) ==
    [i \in DOMAIN pads |-> ExtensionsParse(mem, pads[i].at, pads[i].len, pads[i].nb)]

(* mutant: the extensions of a second packet keep their frame numbers. *)
PaddingExtensionsFlat(r, mem, begin, end) ==
    Collected(mem, ParsePads(mem, SubSeq(r.pads, begin + 1, end)),
              [i \in 1 .. (end - begin) |-> 0])

(* The extensions in the padding of the frames begin .. end - 1, numbered  *)
(* by the frames of the new packet.                                        *)
PaddingExtensions(r, mem, begin, end) ==
    Collected(mem, ParsePads(mem, SubSeq(r.pads, begin + 1, end)),
              [i \in 1 .. (end - begin) |-> i - 1])

(* Codes 0, 1 and 2: one frame, two of one size, two of any size. *)
ShortHeader(toc, s) ==
    IF Len(s) = 1 THEN <<toc>>
    ELSE IF s[1] = s[2] THEN <<toc + 1>>
    ELSE <<toc + 2>> \o EncodeSize(s[1])

ShortSize(s) ==
    Total(s) + (IF Len(s) = 2 /\ s[1] # s[2] THEN 1 + SizeBytes(s[1]) ELSE 1)

(* mutant: only the second frame is compared with the first. *)
VbrPair(s) == Len(s) > 1 /\ s[2] # s[1]

(* Code 3: any number of frames, padding, extensions. *)
Vbr(s) == \E i \in DOMAIN s : s[i] # s[1]

(* mutant: the count byte is forgotten. *)
LongSizeUnder(s) ==
    1 + Total(s) + (IF Vbr(s) THEN Total([i \in 1 .. (Len(s) - 1) |-> SizeBytes(s[i])])
                              ELSE 0)

LongSize(s) ==
    2 + Total(s) + (IF Vbr(s) THEN Total([i \in 1 .. (Len(s) - 1) |-> SizeBytes(s[i])])
                              ELSE 0)

(* The length bytes of amount bytes of padding, themselves included. *)
PaddingLength(amount) ==
    IF amount = 0 THEN <<>>
    ELSE LET nb255 == (amount - 1) \div 255
         IN Fill(nb255, 255) \o <<amount - 255 * nb255 - 1>>

(* Frames moved one after the other to ptr, as memmove does. *)
MoveFrames(mem, ptr, frames) ==
    FoldLeft(LAMBDA m, f : [mem |-> Put(m.mem, m.ptr, SubSeq(m.mem, f.at + 1, f.at + f.len)),
                            ptr |-> m.ptr + f.len],
             [mem |-> mem, ptr |-> ptr], frames)

(* A job of out_range: the frames and their sizes s, the toc byte without  *)
(* its code, the memory, dst, maxlen and the flags sd and pad.             *)
SdSize(j) == IF j.sd THEN SizeBytes(j.s[Len(j.s)]) ELSE 0

SdBytes(j) == IF j.sd THEN EncodeSize(j.s[Len(j.s)]) ELSE <<>>

JobFails(e, mem) == [ret |-> e, mem |-> mem]

(* The frames have been moved behind the header; extensions go to the end  *)
(* of the packet, ones between the padding's length and them, and without  *)
(* extensions the padding is zeros.                                        *)
OutTail(j, exts, ext, amount, moved) ==
    LET long == LongSize(j.s) + SdSize(j)
        total == long + amount
        withExts == IF ext > 0
                    THEN Put(moved.mem, j.dst + total - ext,
                             Generate(exts, Len(j.s), ext, FALSE).bytes)
                    ELSE moved.mem
        onesFrom == long + (amount - 1) \div 255 + 1
        withOnes == IF amount # 0 /\ total - ext > onesFrom
                    THEN Put(withExts, j.dst + onesFrom, Fill(total - ext - onesFrom, 1))
                    ELSE withExts
        zeros == j.dst + j.maxlen - moved.ptr
    IN [ret |-> total,
        mem |-> IF j.pad /\ exts = <<>> /\ zeros > 0
                THEN Put(withOnes, moved.ptr, Fill(zeros, 0)) ELSE withOnes]

(* Code 3 with ext bytes of extensions (or the error of asking for them);  *)
(* before is the memory as the attempt at a shorter code left it.          *)
OutPadded(j, exts, ext, before) ==
    LET long == LongSize(j.s) + SdSize(j)
        amount == IF j.pad THEN j.maxlen - long
                  ELSE IF exts = <<>> THEN 0
                  ELSE ext + (IF ext = 0 THEN 1 ELSE (ext + 253) \div 254)
        flags(p) == <<j.toc + 3, Len(j.s) + 128 * One(Vbr(j.s)) + 64 * One(p # 0)>>
        sizes == IF Vbr(j.s)
                 THEN FlattenSeq([i \in 1 .. (Len(j.s) - 1) |-> EncodeSize(j.s[i])])
                 ELSE <<>>
        behind(header) == MoveFrames(Put(j.mem, j.dst, header), j.dst + Len(header), j.frames)
    IN IF ext < 0 THEN JobFails(ext, Put(before, j.dst, flags(0)))
       ELSE IF amount # 0 /\ long + ext + (amount - 1) \div 255 + 1 > j.maxlen
       THEN JobFails(OPUS_BUFFER_TOO_SMALL, Put(before, j.dst, flags(1)))
       ELSE OutTail(j, exts, ext, amount,
                    behind(flags(amount) \o PaddingLength(amount) \o sizes \o SdBytes(j)))

(* Code 3: the room for the extensions is what the rest leaves. *)
OutLong(j, exts, before) ==
    LET room == j.maxlen - LongSize(j.s) - SdSize(j)
    IN IF room < 0 THEN JobFails(OPUS_BUFFER_TOO_SMALL, before)
       ELSE OutPadded(j, exts,
                      IF exts = <<>> THEN 0 ELSE Generate(exts, Len(j.s), room, FALSE).ret,
                      before)

(* The code is chosen: 3 if it must be, for more than two frames, padding  *)
(* or extensions.                                                          *)
OutFrames(j, found) ==
    LET short == ShortSize(j.s) + SdSize(j)
        header == ShortHeader(j.toc, j.s)
        all == header \o SdBytes(j)
    IN IF ~found.ok THEN JobFails(OPUS_INTERNAL_ERROR, j.mem)
       ELSE IF Len(j.s) > 2 THEN OutLong(j, found.exts, j.mem)
       ELSE IF short > j.maxlen THEN JobFails(OPUS_BUFFER_TOO_SMALL, j.mem)
       ELSE IF (j.pad /\ short < j.maxlen) \/ found.exts # <<>>
       THEN OutLong(j, found.exts, Put(j.mem, j.dst, header))
       ELSE [ret |-> short,
             mem |-> MoveFrames(Put(j.mem, j.dst, all), j.dst + Len(all), j.frames).mem]

(* Frames begin .. end - 1 and their extensions, written at position dst   *)
(* in at most maxlen bytes, filled up to maxlen if pad: the return value   *)
(* and the memory, also as a call that fails leaves it.                    *)
OutRange(r, mem, dst, begin, end, maxlen, sd, pad) ==
    LET frames == SubSeq(r.frames, begin + 1, end)
    IN IF begin < 0 \/ begin >= end \/ end > Len(r.frames) THEN JobFails(OPUS_BAD_ARG, mem)
       ELSE OutFrames([frames |-> frames, s |-> [i \in DOMAIN frames |-> frames[i].len],
                       toc |-> r.toc - (r.toc % 4), mem |-> mem, dst |-> dst,
                       maxlen |-> maxlen, sd |-> sd, pad |-> pad],
                      PaddingExtensions(r, mem, begin, end))

-----------------------------------------------------------------------------
(* Padding and unpadding in place.  mem holds the packet from position at  *)
(* on; the result is the return value and the memory.                      *)

(* The frames come from a copy, here in front of mem; c is what cat made   *)
(* of the copy.                                                            *)
PadFrames(mem, at, len, newlen, c) ==
    LET room == SubSeq(mem, at + 1, at + len) \o mem \o Fill(newlen - len, Junk)
        padded(o) == [ret |-> IF o.ret > 0 THEN 0 ELSE o.ret,
                      mem |-> SubSeq(o.mem, len + 1, Len(o.mem))]
    IN IF c.ret # 0 THEN [ret |-> c.ret, mem |-> mem]
       ELSE padded(OutRange(c.rp, room, len + at, 0, Len(c.rp.frames), newlen, FALSE, TRUE))

(* opus_packet_pad. *)
Pad(mem, at, len, newlen) ==
    IF len < 1 \/ len > newlen THEN [ret |-> OPUS_BAD_ARG, mem |-> mem]
    ELSE IF len = newlen THEN [ret |-> 0, mem |-> mem]
    ELSE PadFrames(mem, at, len, newlen,
                   Cat(RpInit, SubSeq(mem, at + 1, at + len), 0, len, FALSE))

(* All padding and extensions are discarded. *)
WithoutPadding(r) == [r EXCEPT !.pads = [i \in DOMAIN @ |-> [@[i] EXCEPT !.len = 0]]]

(* The packet that cat made c of, rewritten at dst without its padding. *)
UnpadFrames(mem, dst, len, c, sd) ==
    IF c.ret < 0 THEN [ret |-> c.ret, mem |-> mem]
    ELSE OutRange(WithoutPadding(c.rp), mem, dst, 0, Len(c.rp.frames), len, sd, FALSE)

(* opus_packet_unpad: the frames lie in the packet that is rewritten. *)
Unpad(mem, len) ==
    IF len < 1 THEN [ret |-> OPUS_BAD_ARG, mem |-> mem]
    ELSE UnpadFrames(mem, 0, len, Cat(RpInit, mem, 0, len, FALSE), FALSE)

(* The position of the last of n streams, -1 if a stream in front of it    *)
(* does not parse: how opus_multistream_packet_pad finds it.               *)
LastStream(mem, n) ==
    LET seek[s \in Nat] ==
            LET at == seek[s - 1]
                p == Parse(mem, at, Len(mem) - at, TRUE)
            IN IF s = 0 THEN 0
               ELSE IF at < 0 \/ at >= Len(mem) \/ p.ret < 0 THEN -1
               ELSE at + p.offset
    IN seek[n - 1]

(* opus_multistream_packet_pad: the last stream gets all of the padding. *)
MultiPad(mem, newlen, n) ==
    LET at == LastStream(mem, n)
        len == Len(mem)
    IN IF len < 1 \/ len > newlen THEN [ret |-> OPUS_BAD_ARG, mem |-> mem]
       ELSE IF len = newlen THEN [ret |-> 0, mem |-> mem]
       ELSE IF at < 0 THEN [ret |-> OPUS_INVALID_PACKET, mem |-> mem]
       ELSE Pad(mem, at, len - at, newlen - at)

(* One stream of a packet being unpadded: b is how far that has come, p    *)
(* the parsed stream.                                                      *)
UnpadStream(b, p, left, sd) ==
    LET after(o) == IF o.ret < 0 THEN [b EXCEPT !.ret = o.ret, !.mem = o.mem]
                    ELSE [ret |-> b.ret + o.ret, mem |-> o.mem,
                          data |-> b.data + p.offset, dst |-> b.dst + o.ret]
    IN IF p.ret < 0 THEN [b EXCEPT !.ret = p.ret]
       ELSE after(UnpadFrames(b.mem, b.dst, left,
                              Cat(RpInit, b.mem, b.data, p.offset, sd), sd))

(* opus_multistream_packet_unpad: stream after stream, written right       *)
(* behind the last one, in the buffer that is being read.                  *)
MultiUnpad(buf, n) ==
    LET step[s \in Nat] ==
            LET b == step[s - 1]
                left == Len(buf) - b.data
            IN IF s = 0 THEN [ret |-> 0, mem |-> buf, data |-> 0, dst |-> 0]
               ELSE IF b.ret < 0 THEN b
               ELSE IF left <= 0 THEN [b EXCEPT !.ret = OPUS_INVALID_PACKET]
               ELSE UnpadStream(b, Parse(b.mem, b.data, left, s # n), left, s # n)
    IN IF Len(buf) < 1 THEN [ret |-> OPUS_BAD_ARG, mem |-> buf] ELSE step[n]

(* opus_multistream_packet_validate: the samples of a packet all of whose  *)
(* streams parse and last equally long.                                    *)
Validate(mem, n, Fs) ==
    LET step[s \in Nat] ==
            LET b == step[s - 1]
                p == Parse(mem, b.at, Len(mem) - b.at, s # n)
                samples == NbSamples(mem, b.at, p.offset, Fs)
            IN IF s = 0 THEN [ret |-> 0, at |-> 0]
               ELSE IF b.ret < 0 THEN b
               ELSE IF b.at >= Len(mem) THEN [b EXCEPT !.ret = OPUS_INVALID_PACKET]
               ELSE IF p.ret < 0 THEN [b EXCEPT !.ret = p.ret]
               ELSE IF s > 1 /\ b.ret # samples
               THEN [b EXCEPT !.ret = OPUS_INVALID_PACKET]
               ELSE [ret |-> samples, at |-> b.at + p.offset]
    IN step[n].ret

-----------------------------------------------------------------------------

Init ==
    /\ app \in DOMAIN Applications
    /\ rp = RpInit
    /\ pool = <<>>
    /\ out = <<>>
    /\ streams = 0
    /\ inits = 0
    /\ call = [op |-> "none", ret |-> 0]
    /\ kept = <<>>
    /\ keptExts = [ok |-> TRUE, exts |-> <<>>]
    /\ cuts = {0}
    /\ carried = <<>>
    /\ carriedExts = NoWord

Holds(bytes, n, frames, exts) ==
    /\ out' = bytes
    /\ streams' = n
    /\ carried' = frames
    /\ carriedExts' = exts

KeepOut == UNCHANGED <<out, streams, carried, carriedExts>>

KeepRp == UNCHANGED <<rp, pool, inits, kept, keptExts, cuts>>

(* A packet arrives while the application has no other. *)
Receive(p) ==
    /\ out = <<>> /\ kept = <<>>
    /\ Holds(p.bytes, 1, <<p.frames>>, p.exts)
    /\ call' = [op |-> "receive", ret |-> 0]
    /\ KeepRp

(* opus_repacketizer_init. *)
InitRp ==
    /\ rp.frames # <<>>
    /\ inits < Applications[app].inits
    /\ inits' = inits + 1
    /\ rp' = RpInit
    /\ pool' = <<>>
    /\ kept' = <<>>
    /\ keptExts' = [ok |-> TRUE, exts |-> <<>>]
    /\ cuts' = {0}
    /\ call' = [op |-> "init", ret |-> 0]
    /\ KeepOut

(* The packet held, as one that can be handed to cat. *)
Held == [bytes |-> out, frames |-> carried[1], exts |-> carriedExts]

(* opus_repacketizer_cat.  The application has one packet in hand at a     *)
(* time: it lets go of the one it gives to cat.                            *)
CatPacket(p) ==
    LET mem == pool \o p.bytes
        at == Len(kept)
        moved == [k \in DOMAIN p.exts.exts |->
                     [p.exts.exts[k] EXCEPT !.frame = @ + at]]
    IN /\ Cardinality(cuts) <= Applications[app].cats
       /\ \E c \in {Cat(rp, mem, Len(pool), Len(p.bytes), FALSE)} :
            /\ rp' = c.rp
            /\ call' = [op |-> "cat", ret |-> c.ret, valid |-> p.frames # <<>>]
            /\ IF c.ret = 0
               THEN /\ pool' = mem
                    /\ kept' = kept \o p.frames
                    /\ keptExts' = [ok |-> keptExts.ok /\ p.exts.ok,
                                     exts |-> keptExts.exts \o moved]
                    /\ cuts' = cuts \cup {at + Len(p.frames)}
               ELSE UNCHANGED <<pool, kept, keptExts, cuts>>
       /\ Holds(<<>>, 0, <<>>, NoWord)
       /\ UNCHANGED inits

(* The extensions that belong in a packet of the frames begin .. end - 1:  *)
(* known if the range is made of whole packets.                            *)
Expected(begin, end) ==
    LET mine == SelectSeq(keptExts.exts, LAMBDA e : e.frame \in begin .. end - 1)
    IN IF begin \in cuts /\ end \in cuts /\ keptExts.ok
       THEN [ok |-> TRUE, exts |-> [k \in DOMAIN mine |->
                                       [mine[k] EXCEPT !.frame = @ - begin]]]
       ELSE NoWord

(* opus_repacketizer_out_range into a buffer of its own, which holds the   *)
(* packet from then on.  With begin = 0 and all frames: ..._out.           *)
Out(begin, end, maxlen) ==
    LET at == Len(pool)
    IN \E o \in {OutRange(rp, pool \o Fill(maxlen, Junk), at, begin, end, maxlen,
                          FALSE, FALSE)} :
       /\ call' = [op |-> "out", ret |-> o.ret, count |-> end - begin, room |-> maxlen,
                   size |-> Len(pool), over |-> Len(o.mem) > at + maxlen]
       /\ IF o.ret > 0
          THEN Holds(SubSeq(o.mem, at + 1, at + o.ret), 1,
                     <<SubSeq(kept, begin + 1, end)>>, Expected(begin, end))
          ELSE KeepOut
       /\ KeepRp

(* opus_packet_pad, opus_multistream_packet_pad. *)
PadOut(n) ==
    /\ out # <<>>
    /\ n > Len(out)
    /\ \E r \in {MultiPad(out, n, streams)} :
       /\ call' = [op |-> "pad", ret |-> r.ret, over |-> Len(r.mem) > n,
                   valid |-> carried[1] # <<>>]
       /\ Holds(IF r.ret = 0 THEN r.mem ELSE SubSeq(r.mem, 1, Len(out)),
                streams, carried, carriedExts)
    /\ KeepRp

(* opus_packet_unpad, opus_multistream_packet_unpad. *)
UnpadOut ==
    /\ out # <<>>
    /\ \E r \in {IF streams = 1 THEN Unpad(out, Len(out)) ELSE MultiUnpad(out, streams)} :
       /\ call' = [op |-> "unpad", ret |-> r.ret, over |-> Len(r.mem) > Len(out),
                   valid |-> carried[1] # <<>>, before |-> Len(out)]
       /\ IF r.ret > 0
          THEN Holds(SubSeq(r.mem, 1, r.ret), streams, carried, [ok |-> TRUE, exts |-> <<>>])
          ELSE Holds(SubSeq(r.mem, 1, Len(out)), streams, carried, carriedExts)
    /\ KeepRp

(* mutant: one byte is reserved for the size of a last frame of any size. *)
StreamRoomNarrow(len) == len + 1

(* The least number of bytes left in the encoder's buffer with which a     *)
(* stream other than the last may have come out with len bytes: one or two *)
(* of them are reserved for the size of its last frame.                    *)
StreamRoom(len) == IF len + 1 > 253 THEN len + 2 ELSE len + 1

(* opus_multistream_encode_native: the packet of another stream, as long   *)
(* as the one held, is written in front of it, self-delimited.             *)
Join(p) ==
    LET len == Len(p.bytes)
        room == StreamRoom(len)
        written(c) == OutRange(c.rp, p.bytes \o Fill(room, Junk), len, 0,
                               Len(c.rp.frames), room, TRUE, FALSE)
    IN /\ streams = 1 /\ carried[1] # <<>>
       /\ p.frames # <<>> /\ p.exts = [ok |-> TRUE, exts |-> <<>>]
       /\ NbSamples(p.bytes, 0, len, 48000) = NbSamples(out, 0, Len(out), 48000)
       /\ \E o \in {written(Cat(RpInit, p.bytes, 0, len, FALSE))} :
            /\ call' = [op |-> "join", ret |-> o.ret, over |-> Len(o.mem) > len + room]
            /\ IF o.ret > 0
               THEN Holds(SubSeq(o.mem, len + 1, len + o.ret) \o out, 2,
                          <<p.frames>> \o carried, carriedExts)
               ELSE KeepOut
       /\ KeepRp

Calls(A) ==
    \/ \E p \in A.received : Receive(p)
    \/ InitRp
    \/ \E p \in A.packets : CatPacket(p)
    \/ streams = 1 /\ CatPacket(Held)
    \/ \E begin \in 0 .. Len(kept), end \in 0 .. Len(kept), maxlen \in A.rooms :
          Out(begin, end, maxlen)
    \/ \E n \in A.padTo : PadOut(n)
    \/ UnpadOut
    \/ \E p \in A.packets : Join(p)

Next == Calls(Applications[app]) /\ UNCHANGED app

Spec == Init /\ [][Next]_vars

-----------------------------------------------------------------------------

TypeOK ==
    /\ rp \in [toc : Nat, framesize : Nat, frames : Seq([at : Nat, len : Nat]),
               pads : Seq([at : Nat, len : Nat, nb : Nat])]
    /\ pool \in Seq(Nat)
    /\ out \in Seq(Nat)
    /\ streams \in 0 .. 2
    /\ inits \in 0 .. Applications[app].inits
    /\ call.ret \in Int
    /\ cuts \subseteq 0 .. Len(kept)
    /\ Len(carried) = streams

(* The contents of the streams of a packet, as the decoder finds them. *)
Streams(mem, n) ==
    LET read[s \in Nat] ==
            LET b == read[s - 1]
                p == Parse(mem, b.at, Len(mem) - b.at, s # n)
            IN IF s = 0 THEN [at |-> 0, seen |-> <<>>]
               ELSE [at |-> b.at + p.offset,
                     seen |-> Append(b.seen, [i \in DOMAIN p.frames |->
                         SubSeq(mem, p.frames[i].at + 1, p.frames[i].at + p.frames[i].len)])]
    IN read[n]

(* However it was cut out, joined, padded and unpadded, a packet decodes   *)
(* to the frames it stands for, byte for byte and stream by stream, and    *)
(* ends where its last stream ends; and the repacketizer holds each frame  *)
(* it was given.  Unpadding moves frames within the buffer they are read   *)
(* from; the assertion that this is safe is disabled in the code ("not     *)
(* valid in C").                                                           *)
FramesKept ==
    /\ Len(kept) = Len(rp.frames)
    /\ out # <<>> /\ carried[1] # <<>> =>
          Streams(out, streams) = [at |-> Len(out), seen |-> carried]

(* The extensions of a packet parsed as p, as the decoder finds them. *)
ExtensionsOf(mem, p) ==
    Collected(mem, <<ExtensionsParse(mem, p.pad.at, p.pad.len, p.ret)>>, <<0>>)

(* For each of nb frames the extensions found are those expected. *)
SameExtensions(found, nb) ==
    LET of(list, f) == SelectSeq(list, LAMBDA x : x.frame = f)
    IN found.ok /\ \A f \in 0 .. nb - 1 : of(found.exts, f) = of(carriedExts.exts, f)

(* The extensions of a packet stay with their frames when whole packets    *)
(* are merged, split off and padded.                                       *)
ExtensionsKept ==
    out # <<>> /\ carried[1] # <<>> /\ carriedExts.ok =>
        LET parsed(at) == Parse(out, at, Len(out) - at, FALSE)
            intact(p) == SameExtensions(ExtensionsOf(out, p), p.ret)
        IN intact(parsed(LastStream(out, streams)))

(* The repacketizer never holds more than 120 ms, whatever is added in     *)
(* whatever order: its arrays have 48 entries, and a packet of more would  *)
(* be refused by every parser.  Every frame has an entry for its padding.  *)
AtMost120ms ==
    /\ Len(rp.frames) <= 48
    /\ Len(rp.frames) * SamplesPerFrame(rp.toc, 48000) <= 5760
    /\ Len(rp.pads) = Len(rp.frames)

(* No call writes behind the buffer it was given, and every byte of the    *)
(* packet it leaves there was written; unpadding a valid packet always     *)
(* works and never makes it longer (the assertion ret > 0 && ret <= len),  *)
(* and cat, pad and unpad refuse one that does not parse.                  *)
NoOverrun ==
    /\ "over" \in DOMAIN call => ~call.over
    /\ out \in Seq(Nat)
    /\ call.op = "unpad" /\ call.valid => call.ret \in 1 .. call.before
    /\ call.op \in {"cat", "pad", "unpad"} /\ ~call.valid => call.ret < 0

(* The bytes that opus_multistream_encode_native reserves for the          *)
(* self-delimiting size are enough (it adds the return value to its        *)
(* position without looking at it), and the packet of several streams is   *)
(* one the decoder accepts, also after it was padded or unpadded.          *)
JoinFits ==
    /\ call.op = "join" => call.ret > 0
    /\ streams = 2 => Validate(out, 2, 48000) > 0

-----------------------------------------------------------------------------
(* What the documentation says and the code does not keep.  TLC refutes    *)
(* the statements below; the README gives the behaviours.                  *)

(* The documentation of out_range: a buffer of the size of all the packet  *)
(* data submitted and a byte for each frame is sufficient.                 *)
OutSuffices ==
    call.op = "out" /\ call.count > 0 /\ call.room >= call.size + call.count =>
        call.ret > 0

(* The documentation of opus_packet_pad: it fails only if the new length   *)
(* is below the old one or the data is not a valid Opus packet.            *)
PadWorks == call.op = "pad" /\ call.valid => call.ret = 0
=============================================================================
