----------------------------- MODULE RangeCoder -----------------------------
(* The range coder of CELT and SILK (celt/entcode.h, entenc.c, entdec.c,   *)
(* mfrngcod.h): symbols of any probability are packed from the front of a  *)
(* buffer, raw bits from its end, until the two meet; the decoder walks    *)
(* the same two ways.  Encoder and decoder are one structure, ec_ctx.      *)
(*                                                                         *)
(* The register widths are constants, so that carries, renormalisation and *)
(* the meeting of the two ends happen with a handful of symbols: the code  *)
(* has SymBits = 8 and CodeBits = 32.  A register is four bytes wide,      *)
(* which bounds how often each of the code's loops over bytes can run; one *)
(* pass is written once and taken that many times, doing nothing when the  *)
(* loop has ended.                                                         *)
(*                                                                         *)
(* A symbol is coded by one of the library's routines:                     *)
(*   uint  ec_enc_uint, a number below n                                   *)
(*   bits  ec_enc_bits, n raw bits                                         *)
(*   logp  ec_enc_bit_logp, a bit that is 1 with probability 1/2^n         *)
(*   icdf  ec_enc_icdf, a symbol of an inverse table of 2^n units          *)
(*   cells ec_encode, a symbol of the cumulative table with total n        *)
(*   bin   ec_encode_bin, the same with total 2^n                          *)
(*   flags n bits left open at the start of a SILK packet and filled in by *)
(*         ec_enc_patch_initial_bits when they are known                   *)
EXTENDS Integers, Sequences, FiniteSetsExt

CONSTANTS
    SymBits,        \* EC_SYM_BITS: bits of a byte
    CodeBits,       \* EC_CODE_BITS: bits of a register
    Applications    \* what is coded: name -> [ops, len, sizes, marks, foreign]

ASSUME WidthAssumption ==
    /\ SymBits \in Nat \ {0}
    /\ CodeBits = 4 * SymBits

Kinds == {"uint", "bits", "logp", "icdf", "cells", "bin", "flags"}

VARIABLES
    app,            \* the application at work
    phase,          \* "encode", "decode", "foreign" or "failed"
    ctx,            \* the ec_ctx, with its buffer
    said,           \* the symbols encoded: [op, v, tell, rng]
    heard,          \* the symbols decoded: [op, v, tell, rng]
    mark,           \* a saved copy of the encoder, and what it had said
    cut             \* raw bits were cut off in the last byte (ec_enc_done)

vars == <<app, phase, ctx, said, heard, mark, cut>>

(* 1 << n, for the shifts a register has. *)
Shifted[n \in Nat] == IF n = 0 THEN 1 ELSE 2 * Shifted[n - 1]
Pow2 == [n \in 0 .. CodeBits |-> Shifted[n]]

Sym       == Pow2[SymBits]
SymMax    == Sym - 1
CodeShift == CodeBits - SymBits - 1
Top       == Pow2[CodeBits - 1]
Bot       == Top \div Sym
Extra     == ((CodeBits - 2) % SymBits) + 1
UintBits  == SymBits
Window    == CodeBits

(* What the callers of a routine see to: the routines assert it, or say so *)
(* in their headers.                                                       *)
Codable(op) ==
    /\ op \in [kind : Kinds, n : Nat, table : Seq(Nat)]
    /\ CASE op.kind = "uint"  -> op.n \in 2 .. Pow2[CodeBits] - 1
         [] op.kind = "bits"  -> op.n \in 1 .. Window - SymBits + 1
         [] op.kind = "logp"  -> op.n \in 1 .. CodeShift
         [] op.kind = "flags" -> op.n \in 1 .. SymBits
         [] op.kind = "icdf"  ->
              /\ op.n <= CodeShift
              /\ op.table # <<>>
              /\ op.table[1] < Pow2[op.n] /\ op.table[Len(op.table)] = 0
              /\ \A i, j \in 1 .. Len(op.table) : i < j => op.table[i] >= op.table[j]
         [] op.kind \in {"cells", "bin"} ->
              /\ op.n \in IF op.kind = "bin" THEN 0 .. CodeShift ELSE 1 .. Bot
              /\ Len(op.table) > 1
              /\ op.table[1] = 0
              /\ op.table[Len(op.table)] = IF op.kind = "bin" THEN Pow2[op.n] ELSE op.n
              /\ \A i, j \in 1 .. Len(op.table) : i < j => op.table[i] < op.table[j]

ASSUME ApplicationsAssumption ==
    \A a \in DOMAIN Applications :
        /\ \A op \in Applications[a].ops : Codable(op)
        /\ Applications[a].sizes \subseteq Nat
        /\ Applications[a].foreign \subseteq Nat

(* The number of bits of v. *)
Ilog(v) == IF v = 0 THEN 0 ELSE CHOOSE l \in 1 .. CodeBits : Pow2[l - 1] <= v /\ v < Pow2[l]

(* The bits used so far, the partial ones in the range included. *)
Tell(c) == c.nbits_total - Ilog(c.rng)

-----------------------------------------------------------------------------
(* The encoder. *)

EncInit(buf) ==
    [buf |-> buf, end_offs |-> 0, end_window |-> 0, nend_bits |-> 0,
     nbits_total |-> CodeBits + 1, offs |-> 0, rng |-> Top, rem |-> -1,
     val |-> 0, ext |-> 0, error |-> FALSE]

Full(c) == c.offs + c.end_offs >= Len(c.buf)

WriteByte(c, v) ==
    IF Full(c) THEN [c EXCEPT !.error = TRUE]
    ELSE [c EXCEPT !.buf[c.offs + 1] = v % Sym, !.offs = @ + 1]

(* The same byte n times. *)
WriteRun(c, v, n) ==
    LET free == Len(c.buf) - c.offs - c.end_offs
        k    == IF n <= free THEN n ELSE IF Full(c) THEN 0 ELSE free
    IN [c EXCEPT !.buf = [i \in DOMAIN @ |->
                             IF i > c.offs /\ i <= c.offs + k THEN v ELSE @[i]],
                 !.offs = @ + k,
                 !.error = @ \/ k < n]

WriteByteAtEnd(c, v) ==
    IF Full(c) THEN [c EXCEPT !.error = TRUE]
    ELSE [c EXCEPT !.buf[Len(c.buf) - c.end_offs] = v, !.end_offs = @ + 1]

(* mutant: the bytes that waited miss the carry. *)
CarryOutShort(c, s) ==
    IF s = SymMax THEN [c EXCEPT !.ext = @ + 1]
    ELSE LET carry == s \div Sym
             front == IF c.rem >= 0 THEN WriteByte(c, c.rem + carry) ELSE c
         IN [WriteRun(front, SymMax, c.ext) EXCEPT !.ext = 0, !.rem = s % Sym]

(* A symbol with its carry bit on top.  The last byte and the run of       *)
(* all-one bytes behind it wait until no carry can reach them any more.    *)
CarryOut(c, s) ==
    IF s = SymMax THEN [c EXCEPT !.ext = @ + 1]
    ELSE LET carry == s \div Sym
             front == IF c.rem >= 0 THEN WriteByte(c, c.rem + carry) ELSE c
         IN [WriteRun(front, (SymMax + carry) % Sym, c.ext) EXCEPT
                !.ext = 0, !.rem = s % Sym]

(* A byte of the register goes out when the range has become too small. *)
EncShift(c) ==
    IF c.rng > Bot THEN c
    ELSE [CarryOut(c, c.val \div Pow2[CodeShift]) EXCEPT
             !.val = (@ * Sym) % Top,
             !.rng = @ * Sym,
             !.nbits_total = @ + SymBits]

EncNormalize(c) == EncShift(EncShift(EncShift(c)))

Encode(c, fl, fh, ft) ==
    LET r == c.rng \div ft
    IN EncNormalize(
          IF fl > 0
          THEN [c EXCEPT !.val = @ + c.rng - r * (ft - fl), !.rng = r * (fh - fl)]
          ELSE [c EXCEPT !.rng = @ - r * (ft - fh)])

EncodeBin(c, fl, fh, bits) == Encode(c, fl, fh, Pow2[bits])

EncBitLogp(c, v, logp) ==
    LET s == c.rng \div Pow2[logp]
    IN EncNormalize(
          IF v = 1
          THEN [c EXCEPT !.val = @ + c.rng - s, !.rng = s]
          ELSE [c EXCEPT !.rng = @ - s])

(* icdf[s + 1] is _icdf[s]: what lies above symbol s. *)
EncIcdf(c, s, icdf, ftb) ==
    LET r == c.rng \div Pow2[ftb]
    IN EncNormalize(
          IF s > 0
          THEN [c EXCEPT !.val = @ + c.rng - r * icdf[s],
                         !.rng = r * (icdf[s] - icdf[s + 1])]
          ELSE [c EXCEPT !.rng = @ - r * icdf[s + 1]])

(* Whole bytes of the raw-bit window go to the end of the buffer. *)
FlushRaw(c) ==
    IF c.nend_bits < SymBits THEN c
    ELSE [WriteByteAtEnd(c, c.end_window % Sym) EXCEPT
             !.end_window = @ \div Sym,
             !.nend_bits = @ - SymBits]

FlushWindow(c) == FlushRaw(FlushRaw(FlushRaw(FlushRaw(c))))

EncBits(c, fl, bits) ==
    LET d == IF c.nend_bits + bits > Window THEN FlushWindow(c) ELSE c
    IN [d EXCEPT !.end_window = @ + fl * Pow2[d.nend_bits],
                 !.nend_bits = @ + bits,
                 !.nbits_total = @ + bits]

(* The low bits of a number that a uint codes as raw bits. *)
RawBits(n) == IF Ilog(n - 1) > UintBits THEN Ilog(n - 1) - UintBits ELSE 0

EncUint(c, fl, n) ==
    LET ftb == RawBits(n)
        top == fl \div Pow2[ftb]
    IN IF ftb > 0
       THEN EncBits(Encode(c, top, top + 1, (n - 1) \div Pow2[ftb] + 1), fl % Pow2[ftb], ftb)
       ELSE Encode(c, fl, fl + 1, n)

(* The first bits are overwritten where they are now: in the buffer, in    *)
(* the byte that waits for its carry, or still in the register.            *)
PatchInitialBits(c, v, nbits) ==
    LET shift == SymBits - nbits
        low(b) == b % Pow2[shift]
    IN IF c.offs > 0 THEN [c EXCEPT !.buf[1] = low(@) + v * Pow2[shift]]
       ELSE IF c.rem >= 0 THEN [c EXCEPT !.rem = low(@) + v * Pow2[shift]]
       ELSE IF c.rng <= Top \div Pow2[nbits]
            THEN [c EXCEPT !.val = (@ % Pow2[CodeShift + shift]) + v * Pow2[CodeShift + shift]]
       ELSE [c EXCEPT !.error = TRUE]

Shrink(c, size) ==
    [c EXCEPT !.buf = SubSeq(@, 1, size - c.end_offs)
                          \o SubSeq(@, Len(@) - c.end_offs + 1, Len(@))]

(* A byte of the end goes out, as long as l bits of it are needed; a       *)
(* normalised range needs two at most.                                     *)
FlushByte(f) ==
    IF f.l <= 0 THEN f
    ELSE [c |-> CarryOut(f.c, f.end \div Pow2[CodeShift]),
          end |-> (f.end * Sym) % Top, l |-> f.l - SymBits]

FlushEnd(c, end, l) == FlushByte(FlushByte([c |-> c, end |-> end, l |-> l]))

(* (val + msk) & ~msk *)
RoundUp(val, msk) == ((val + msk) \div (msk + 1)) * (msk + 1)

(* The least bits that name the range whatever follows them: the number of *)
(* bits and the mask of those left open.                                   *)
EndBits(c) ==
    LET l == CodeBits - Ilog(c.rng)
        msk == (Top - 1) \div Pow2[l]
    IN IF RoundUp(c.val, msk) + msk >= c.val + c.rng
       THEN [l |-> l + 1, msk |-> msk \div 2]
       ELSE [l |-> l, msk |-> msk]

(* What ec_enc_done has written before it merges the two ends: the end of  *)
(* the range, the byte that waited, and the whole bytes of raw bits.       *)
Flushed(c) ==
    LET e == EndBits(c)
        rest(f) == IF f.c.rem >= 0 \/ f.c.ext > 0 THEN CarryOut(f.c, 0) ELSE f.c
        last(f) == [c |-> FlushWindow(rest(f)), l |-> -f.l]
    IN last(FlushEnd(c, RoundUp(c.val, e.msk), e.l))

Bit(b, k) == (b \div Pow2[k]) % 2

(* a | b, as a byte. *)
Or(a, b) ==
    LET low[k \in 0 .. SymBits] ==
            IF k = 0 THEN 0
            ELSE low[k - 1] + Pow2[k - 1] * Max({Bit(a, k - 1), Bit(b, k - 1)})
    IN low[SymBits]

(* mutant: the bits left open in the last byte are not used. *)
MergedNever(c, l) ==
    LET bust == Full(c)
        bits == IF bust THEN c.end_window % Pow2[l] ELSE c.end_window
    IN [c EXCEPT !.buf[Len(c.buf) - c.end_offs] = Or(@, bits), !.error = bust]

(* The last raw bits share a byte with the end of the range data.  When    *)
(* there is no byte between the two, only the l bits the range data leaves *)
(* open may be used; the others are cut off.                               *)
Merged(c, l) ==
    LET bust == Full(c) /\ l < c.nend_bits
        bits == IF bust THEN c.end_window % Pow2[l] ELSE c.end_window
    IN [c EXCEPT !.buf[Len(c.buf) - c.end_offs] = Or(@, bits), !.error = bust]

Cleared(c) ==
    [c EXCEPT !.buf = [i \in DOMAIN @ |->
        IF i > c.offs /\ i <= Len(@) - c.end_offs THEN 0 ELSE @[i]]]

Done(c) ==
    LET end(f) == IF f.c.error THEN f.c
                  ELSE IF f.c.nend_bits = 0 THEN Cleared(f.c)
                  ELSE IF f.c.end_offs >= Len(f.c.buf) THEN [f.c EXCEPT !.error = TRUE]
                  ELSE Merged(Cleared(f.c), f.l)
    IN end(Flushed(c))

-----------------------------------------------------------------------------
(* The decoder.  Behind the end of the buffer it reads zeros. *)

ReadByte(c) == IF c.offs < Len(c.buf) THEN c.buf[c.offs + 1] ELSE 0

DecShift(c) ==
    IF c.rng > Bot THEN c
    ELSE LET next == ReadByte(c)
             sym  == (c.rem * Sym + next) \div Pow2[SymBits - Extra]
         IN [c EXCEPT !.nbits_total = @ + SymBits,
                      !.rng = @ * Sym,
                      !.rem = next,
                      !.offs = IF @ < Len(c.buf) THEN @ + 1 ELSE @,
                      !.val = (@ * Sym + SymMax - (sym % Sym)) % Top]

DecNormalize(c) == DecShift(DecShift(DecShift(c)))

DecInit(buf) ==
    LET first == IF buf = <<>> THEN 0 ELSE buf[1]
    IN DecNormalize(
          [buf |-> buf, end_offs |-> 0, end_window |-> 0, nend_bits |-> 0,
           nbits_total |-> CodeBits + 1 - ((CodeBits - Extra) \div SymBits) * SymBits,
           offs |-> IF buf = <<>> THEN 0 ELSE 1,
           rng |-> Pow2[Extra], rem |-> first,
           val |-> Pow2[Extra] - 1 - first \div Pow2[SymBits - Extra],
           ext |-> 0, error |-> FALSE])

(* ec_decode: where in a table of total ft the next symbol lies. *)
DecodeAt(c, ft) == ft - Min({c.val \div (c.rng \div ft) + 1, ft})

(* mutant: the first symbol does not get the remainder of the range. *)
DecUpdateExact(c, fl, fh, ft) ==
    LET ext == c.rng \div ft
    IN DecNormalize([c EXCEPT !.val = @ - ext * (ft - fh), !.rng = ext * (fh - fl)])

(* ec_dec_update, with the quotient ec_decode kept in ext. *)
DecUpdate(c, fl, fh, ft) ==
    LET ext == c.rng \div ft
        s == ext * (ft - fh)
    IN DecNormalize([c EXCEPT !.val = @ - s,
                              !.rng = IF fl > 0 THEN ext * (fh - fl) ELSE @ - s])

DecBitLogp(c, logp) ==
    LET s == c.rng \div Pow2[logp]
        ret == IF c.val < s THEN 1 ELSE 0
    IN [v |-> ret,
        c |-> DecNormalize(IF ret = 1 THEN [c EXCEPT !.rng = s]
                           ELSE [c EXCEPT !.val = @ - s, !.rng = @ - s])]

(* The first symbol above whose place in the table the value lies. *)
DecIcdf(c, icdf, ftb) ==
    LET r == c.rng \div Pow2[ftb]
        ret == Min({i \in DOMAIN icdf : c.val >= r * icdf[i]})
        t == IF ret = 1 THEN c.rng ELSE r * icdf[ret - 1]
    IN [v |-> ret - 1,
        c |-> DecNormalize([c EXCEPT !.val = @ - r * icdf[ret], !.rng = t - r * icdf[ret]])]

(* The window takes whole bytes from the end while there is room for one. *)
FillRaw(c) ==
    LET more == c.end_offs < Len(c.buf)
        byte == IF more THEN c.buf[Len(c.buf) - c.end_offs] ELSE 0
    IN IF c.nend_bits > Window - SymBits THEN c
       ELSE [c EXCEPT !.end_offs = IF more THEN @ + 1 ELSE @,
                      !.end_window = @ + byte * Pow2[c.nend_bits],
                      !.nend_bits = @ + SymBits]

FillWindow(c) == FillRaw(FillRaw(FillRaw(FillRaw(c))))

DecBits(c, bits) ==
    LET d == IF c.nend_bits < bits THEN FillWindow(c) ELSE c
    IN [v |-> d.end_window % Pow2[bits],
        c |-> [d EXCEPT !.end_window = @ \div Pow2[bits],
                        !.nend_bits = @ - bits,
                        !.nbits_total = @ + bits]]

DecUint(c, n) ==
    LET ftb == RawBits(n)
        ft == (n - 1) \div Pow2[ftb] + 1
        s == DecodeAt(c, ft)
        d == DecUpdate(c, s, s + 1, ft)
        low == DecBits(d, ftb)
        t == s * Pow2[ftb] + low.v
    IN IF ftb = 0 THEN [v |-> s, c |-> d]
       ELSE IF t <= n - 1 THEN [v |-> t, c |-> low.c]
       ELSE [v |-> n - 1, c |-> [low.c EXCEPT !.error = TRUE]]

(* A caller's table lookup between ec_decode and ec_dec_update. *)
DecCells(c, cuts, n) ==
    LET at == DecodeAt(c, n)
        s == Max({i \in 1 .. Len(cuts) - 1 : cuts[i] <= at})
    IN [v |-> s - 1, c |-> DecUpdate(c, cuts[s], cuts[s + 1], n)]

(* The flags of a SILK packet, read bit by bit. *)
DecFlags(c, n) ==
    LET read[i \in Nat] ==
            IF i = 0 THEN [v |-> 0, c |-> c]
            ELSE LET b == DecBitLogp(read[i - 1].c, 1)
                 IN [v |-> 2 * read[i - 1].v + b.v, c |-> b.c]
    IN read[n]
-----------------------------------------------------------------------------
(* One symbol of either kind. *)

Likely(icdf) == {s \in 0 .. Len(icdf) - 1 : s > 0 => icdf[s] > icdf[s + 1]}

(* What can be coded: of an inverse table, what has some probability. *)
Values(op) ==
    CASE op.kind = "uint"             -> 0 .. op.n - 1
      [] op.kind = "bits"             -> 0 .. Pow2[op.n] - 1
      [] op.kind = "logp"             -> 0 .. 1
      [] op.kind = "icdf"             -> Likely(op.table)
      [] op.kind \in {"cells", "bin"} -> 0 .. Len(op.table) - 2
      [] op.kind = "flags"            -> {0}

EncSymbol(c, op, v) ==
    CASE op.kind = "uint"  -> EncUint(c, v, op.n)
      [] op.kind = "bits"  -> EncBits(c, v, op.n)
      [] op.kind = "logp"  -> EncBitLogp(c, v, op.n)
      [] op.kind = "icdf"  -> EncIcdf(c, v, op.table, op.n)
      [] op.kind = "cells" -> Encode(c, op.table[v + 1], op.table[v + 2], op.n)
      [] op.kind = "bin"   -> EncodeBin(c, op.table[v + 1], op.table[v + 2], op.n)
      [] op.kind = "flags" -> EncIcdf(c, 0, <<Sym - Pow2[SymBits - op.n], 0>>, SymBits)

DecSymbol(c, op) ==
    CASE op.kind = "uint"  -> DecUint(c, op.n)
      [] op.kind = "bits"  -> DecBits(c, op.n)
      [] op.kind = "logp"  -> DecBitLogp(c, op.n)
      [] op.kind = "icdf"  -> DecIcdf(c, op.table, op.n)
      [] op.kind = "cells" -> DecCells(c, op.table, op.n)
      [] op.kind = "bin"   -> DecCells(c, op.table, Pow2[op.n])
      [] op.kind = "flags" -> DecFlags(c, op.n)

(* The routines are compatible: a bit may be read by another routine than  *)
(* the one that wrote it, given the same probabilities.                    *)
Ways(op) ==
    IF op.kind # "logp" THEN {op}
    ELSE {op,
          [kind |-> "icdf",  n |-> op.n,     table |-> <<1, 0>>],
          [kind |-> "cells", n |-> Pow2[op.n], table |-> <<0, Pow2[op.n] - 1, Pow2[op.n]>>],
          [kind |-> "bin",   n |-> op.n,     table |-> <<0, Pow2[op.n] - 1, Pow2[op.n]>>]}

Report(op, v, c) == [op |-> op, v |-> v, tell |-> Tell(c), rng |-> c.rng]

-----------------------------------------------------------------------------
NoMark == [set |-> FALSE]

Bytes == 0 .. SymMax

(* An encoder starts with a buffer that holds something old, a decoder     *)
(* with a packet an encoder here has written or with one from elsewhere.   *)
Init ==
    /\ app \in DOMAIN Applications
    /\ said = <<>> /\ heard = <<>> /\ mark = NoMark /\ cut = FALSE
    /\ \/ /\ phase = "encode"
          /\ \E n \in Applications[app].sizes : ctx = EncInit([i \in 1 .. n |-> SymMax])
       \/ /\ phase = "foreign"
          /\ \E n \in Applications[app].foreign : \E b \in [1 .. n -> Bytes] : ctx = DecInit(b)

Put(A) ==
    /\ phase = "encode" /\ Len(said) < A.len
    /\ \E op \in A.ops : \E v \in Values(op) :
          /\ op.kind = "flags" => said = <<>>
          /\ ctx' = EncSymbol(ctx, op, v)
          /\ said' = Append(said, Report(op, v, ctx'))
    /\ UNCHANGED <<phase, heard, mark, cut>>

(* The flags of the packet are known and take their place. *)
Patch ==
    /\ phase = "encode" /\ said # <<>> /\ said[1].op.kind = "flags" /\ said[1].v = 0
    /\ \E v \in 1 .. Pow2[said[1].op.n] - 1 :
          /\ ctx' = PatchInitialBits(ctx, v, said[1].op.n)
          /\ said' = [said EXCEPT ![1].v = v]
    /\ UNCHANGED <<phase, heard, mark, cut>>

(* The packet gets smaller; the callers take the size from ec_tell, and    *)
(* none does so with a copy of the encoder at hand.                        *)
ShrinkTo ==
    /\ phase = "encode" /\ ~ctx.error /\ ~mark.set
    /\ \E size \in 1 .. Len(ctx.buf) - 1 :
          /\ size * SymBits >= Tell(ctx)
          /\ ctx' = Shrink(ctx, size)
    /\ UNCHANGED <<phase, said, heard, mark, cut>>

(* The structure is copied, the buffer is not. *)
Mark(A) ==
    /\ phase = "encode" /\ A.marks /\ Tell(ctx) <= SymBits * Len(ctx.buf)
    /\ mark' = [set |-> TRUE, ctx |-> ctx, said |-> said]
    /\ UNCHANGED <<phase, ctx, said, heard, cut>>

(* What has been tried since does not fit: the copy takes over, on the     *)
(* buffer as it is now.                                                    *)
Restore ==
    /\ phase = "encode" /\ mark.set
    /\ ctx' = [mark.ctx EXCEPT !.buf = ctx.buf]
    /\ said' = mark.said
    /\ mark' = NoMark
    /\ UNCHANGED <<phase, heard, cut>>

(* The packet is closed.  After an error it is thrown away; the raw bits   *)
(* cut off in the last byte leave the rest of it to be read.               *)
Close ==
    /\ phase = "encode"
    /\ LET c == Done(ctx)
       IN /\ cut' = (c.error /\ ~Flushed(ctx).c.error /\ c.end_offs < Len(c.buf))
          /\ phase' = IF c.error /\ ~cut' THEN "failed" ELSE "decode"
          /\ ctx' = IF c.error /\ ~cut' THEN c ELSE DecInit(c.buf)
    /\ mark' = NoMark
    /\ UNCHANGED <<said, heard>>

Get ==
    /\ phase = "decode" /\ Len(heard) < Len(said)
    /\ \E op \in Ways(said[Len(heard) + 1].op) :
          LET d == DecSymbol(ctx, op)
          IN /\ ctx' = d.c
             /\ heard' = Append(heard, Report(said[Len(heard) + 1].op, d.v, d.c))
    /\ UNCHANGED <<phase, said, mark, cut>>

(* A packet from elsewhere is read with whatever the reader expects. *)
GetForeign(A) ==
    /\ phase = "foreign" /\ Len(heard) < A.len
    /\ \E op \in A.ops :
          LET d == DecSymbol(ctx, op)
          IN /\ ctx' = d.c
             /\ heard' = Append(heard, Report(op, d.v, d.c))
    /\ UNCHANGED <<phase, said, mark, cut>>

Calls(A) ==
    \/ Put(A) \/ Patch \/ ShrinkTo \/ Mark(A) \/ Restore \/ Close \/ Get \/ GetForeign(A)

Next == Calls(Applications[app]) /\ UNCHANGED app

Spec == Init /\ [][Next]_vars

-----------------------------------------------------------------------------
(* The registers stay where the code's arithmetic needs them: the range    *)
(* normalised, its upper end within the register of an encoder, and, in a  *)
(* decoder of any bytes whatever, the value inside it, so that each symbol *)
(* found is one of its alphabet.                                           *)
RangeSound ==
    /\ ctx.rng \in Bot + 1 .. Top
    /\ phase = "encode" => ctx.val + ctx.rng < Pow2[CodeBits]
    /\ phase \in {"decode", "foreign"} => ctx.val \in 0 .. ctx.rng - 1
    /\ phase = "foreign" =>
          \A i \in DOMAIN heard :
             heard[i].v \in IF heard[i].op.kind = "flags" THEN 0 .. Pow2[heard[i].op.n] - 1
                            ELSE Values(heard[i].op)

(* What is read is what was written, symbol by symbol, whichever routine   *)
(* of the same probabilities reads it, through carries, late flags, a      *)
(* smaller packet and a return to a saved state; and after each symbol the *)
(* decoder's ec_tell and range are those the encoder had, on which both    *)
(* base their decisions.  When the last byte had no room for its raw bits, *)
(* everything the range coder wrote is still right.                        *)
Lossless ==
    phase = "decode" =>
        \A i \in DOMAIN heard :
            LET raw == IF said[i].op.kind = "bits" THEN said[i].op.n
                       ELSE IF said[i].op.kind = "uint" THEN RawBits(said[i].op.n) ELSE 0
            IN /\ heard[i].tell = said[i].tell
               /\ heard[i].rng = said[i].rng
               /\ raw = 0 \/ ~cut => heard[i].v = said[i].v

(* As long as ec_tell stays within the packet, nothing is lost: done       *)
(* reports no error, needs no more bytes than told and tells the same, and *)
(* the assertion of shrink holds for every size ec_tell allows.            *)
FitsAsTold ==
    phase = "encode" /\ Tell(ctx) <= SymBits * Len(ctx.buf) =>
        LET c == Done(ctx)
        IN /\ ~c.error
           /\ Tell(c) = Tell(ctx)
           /\ SymBits * (c.offs - 1) < Tell(ctx)
           /\ \A n \in 1 .. Len(ctx.buf) :
                 SymBits * n >= Tell(ctx) => ctx.offs + ctx.end_offs <= n
=============================================================================
