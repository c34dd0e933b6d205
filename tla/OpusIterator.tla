---------------------------- MODULE OpusIterator ----------------------------
(***************************************************************************)
(* A caller that reads the extensions of a packet through the iterator:    *)
(* it calls next until there is nothing left, may start again, and may set *)
(* the frame at which it wants to stop at any point.  The padding it reads *)
(* was written by opus_packet_extensions_generate or came from somewhere   *)
(* else and may be malformed.                                              *)
(***************************************************************************)
EXTENDS OpusExtensions

CONSTANTS
    Lists,      \* extension lists to write: [exts, nb], nb the frames of the packet
    Raws,       \* padding from elsewhere: [bytes, nb]
    MaxResets   \* bound: how often the caller starts again

ASSUME ListsAssumption ==
    \A l \in Lists : l.nb \in 1 .. 48 /\ \A i \in DOMAIN l.exts :
        l.exts[i].frame \in 0 .. l.nb - 1 /\ l.exts[i].id \in 3 .. 127

ASSUME RawsAssumption ==
    \A r \in Raws : r.nb \in 1 .. 48 /\ r.bytes \in Seq(0 .. 255)

VARIABLES
    written,    \* the extension list the padding was written from, or NotWritten
    nb,         \* the number of frames of the packet
    mem,        \* the padding
    it,         \* the iterator
    got,        \* what next has returned since the start
    ret,        \* the last return value of next
    resets,     \* how often the caller started again
    limited     \* history: the caller has set the last frame

readerVars == <<written, nb, mem, it, got, ret, resets, limited>>

NotWritten == <<"not written">>

(* Large enough for every list. *)
Room == 100000

Start(m, n) ==
    /\ nb = n
    /\ mem = m
    /\ it = IteratorInit(0, Len(m), n)

ReaderInit ==
    /\ \/ \E l \in Lists :
              /\ written = l.exts
              /\ Start(Generate(l.exts, l.nb, Room, FALSE).bytes, l.nb)
       \/ \E r \in Raws : written = NotWritten /\ Start(r.bytes, r.nb)
    /\ got = <<>>
    /\ ret = 1
    /\ resets = 0
    /\ limited = FALSE

(* opus_extension_iterator_next. *)
ReadNext ==
    \E r \in {IteratorNext(mem, it, nb)} :
       /\ it' = r.it
       /\ ret' = r.ret
       /\ got' = IF r.ret > 0 THEN Append(got, r.ext) ELSE got
       /\ UNCHANGED <<written, nb, mem, resets, limited>>

(* opus_extension_iterator_reset. *)
Reset ==
    /\ resets < MaxResets
    /\ resets' = resets + 1
    /\ it' = IteratorReset(it, 0, Len(mem))
    /\ got' = <<>>
    /\ ret' = 1
    /\ limited' = (it.fmax # nb)
    /\ UNCHANGED <<written, nb, mem>>

(* opus_extension_iterator_set_frame_max, "at any point". *)
SetFrameMax(f) ==
    /\ it' = [it EXCEPT !.fmax = f]
    /\ limited' = TRUE
    /\ UNCHANGED <<written, nb, mem, got, ret, resets>>

ReaderNext == ReadNext \/ Reset \/ \E f \in 0 .. nb : SetFrameMax(f)

ReaderSpec == ReaderInit /\ [][ReaderNext]_readerVars

-----------------------------------------------------------------------------

Extensions == [id : Nat, frame : Nat, at : Nat, len : Nat]

(* The iterator stays over its data and returns extensions. *)
ReaderTypeOK ==
    /\ it \in Iterator
    /\ nb \in 1 .. 48
    /\ got \in Seq(Extensions)
    /\ ret \in {0, 1, OPUS_INVALID_PACKET}
    /\ resets \in 0 .. MaxResets
    /\ limited \in BOOLEAN

(* Whatever the padding holds, what is returned lies within it: the data   *)
(* of an extension is inside the padding, its frame is one of the packet,  *)
(* its id is not that of padding, a separator or a repeat indicator        *)
(* (tests/test_opus_extensions.c checks this on random bytes), and the     *)
(* iterator never loses count of what is left (the assertion that          *)
(* curr_data - data = len - curr_len).  However the repeat indicators      *)
(* multiply them, there are no more extensions than a byte for each can    *)
(* announce for every frame: the loops over next end, and the array that   *)
(* out_range allocates on the stack for what it counted has a bound.       *)
WithinPadding ==
    /\ \A i \in DOMAIN got :
          /\ got[i].frame \in 0 .. nb - 1
          /\ got[i].id \in 3 .. 127
          /\ got[i].at \in 0 .. Len(mem)
          /\ got[i].len \in 0 .. Len(mem) - got[i].at
    /\ it.len > 0 => it.curr + it.len = Len(mem)
    /\ Len(got) <= nb * Len(mem)

(* The extensions of one frame, as the caller sees them. *)
OfFrame(f) ==
    LET mine == SelectSeq(got, LAMBDA e : e.frame = f)
    IN [i \in DOMAIN mine |->
           [id |-> mine[i].id, frame |-> f,
            data |-> SubSeq(mem, mine[i].at + 1, mine[i].at + mine[i].len)]]

(* Reading to the end what generate wrote gives back, for every frame, the *)
(* extensions written for it, in their order and with their data: the      *)
(* choices of the writer (which extensions to repeat, where a length may   *)
(* be left out, when the frame number moves by itself) are the ones the    *)
(* iterator makes.  And the writer, called once without a buffer to learn  *)
(* the size, returns that size again when it is given a buffer of just     *)
(* that size (asserted in the repacketizer); a byte less is refused.       *)
RoundTrip ==
    written # NotWritten =>
        /\ ret <= 0 /\ ~limited =>
              /\ ret = 0
              /\ \A f \in 0 .. nb - 1 :
                    OfFrame(f) = SelectSeq(written, LAMBDA e : e.frame = f)
        /\ Generate(written, nb, Len(mem), FALSE).ret = Len(mem)
        /\ mem # <<>> =>
              Generate(written, nb, Len(mem) - 1, FALSE).ret = OPUS_BUFFER_TOO_SMALL

(* Starting again gives the same extensions again, and all of them: the    *)
(* fields that reset leaves alone carry nothing over from the iteration it *)
(* interrupts, a repeat under way included.                                *)
SameAgain ==
    LET all == ExtensionsParse(mem, 0, Len(mem), nb).exts
    IN  ~limited => IsPrefix(got, all) /\ (ret <= 0 => got = all)

-----------------------------------------------------------------------------
(* What the documentation says and the code does not keep.  TLC refutes    *)
(* the statements below; the README gives the behaviours.                  *)

(* No extension of a frame at or above the one set by set_frame_max is     *)
(* returned by a later call ("Tell the iterator not to return any          *)
(* extensions for frames of index frame_max or larger", extensions.c:145). *)
FrameMaxHonoured ==
    [][ReadNext /\ ret' > 0 => Last(got').frame < it.fmax]_readerVars
=============================================================================
