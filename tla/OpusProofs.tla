----------------------------- MODULE OpusProofs -----------------------------
(* Proofs about the readers of Opus packets, for any bytes they are given. *)
EXTENDS OpusIterator, OpusRepacketizer, WellFoundedInduction, TLAPS

-----------------------------------------------------------------------------
(* Induction and loops. *)

(* A set of natural numbers has a least element. *)
LEMMA LeastOf ==
    ASSUME NEW T, T \subseteq Nat, T # {}
    PROVE  \E x \in T : \A y \in T : x <= y
<1>1. PICK x \in T : \A y \in T : <<y, x>> \notin OpToRel(<, Nat)
    BY NatLessThanWellFounded, WFMin, Zenon
<1>2. \A y \in T : x \in Nat /\ y \in Nat /\ ~(y < x)
    BY <1>1 DEF OpToRel
<1> QED BY <1>2

(* A set that holds 0 and with each number the next holds them all. *)
LEMMA ByNumbers ==
    ASSUME NEW S, 0 \in S, \A n \in Nat : n \in S => n + 1 \in S
    PROVE  Nat \subseteq S
<1> DEFINE T == Nat \ S
<1> SUFFICES ASSUME T # {} PROVE FALSE
    OBVIOUS
<1>1. PICK x \in T : \A y \in T : x <= y
    BY LeastOf
<1>2. x - 1 \in Nat /\ x - 1 \notin T
    BY <1>1
<1> QED BY <1>1, <1>2

(* A loop whose passes go on only to something smaller has an outcome. *)
LEMMA LoopEnds ==
    ASSUME NEW S, NEW pass, NEW w \in [S -> Nat], NEW bound \in Nat,
           \A x \in S : w[x] <= bound,
           \A x \in S : pass[x].go => pass[x].it \in S /\ w[pass[x].it] < w[x]
    PROVE  \E f : f = [x \in S |-> IF pass[x].go THEN f[pass[x].it] ELSE pass[x]]
<1> DEFINE Next1(h, x) == IF pass[x].go THEN h[pass[x].it] ELSE pass[x]
           Upto(k, h) == /\ h = [x \in S |-> h[x]]
                         /\ \A x \in S : w[x] < k => h[x] = Next1(h, x)
           G == {k \in Nat : \E h : Upto(k, h)}
<1>1. 0 \in G
    <2>1. \A x \in S : ~(w[x] < 0)
        OBVIOUS
    <2>2. Upto(0, [x \in S |-> 0])
        BY <2>1
    <2> QED BY <2>2
<1>2. ASSUME NEW k \in Nat, k \in G PROVE k + 1 \in G
    <2>1. PICK h : Upto(k, h)
        BY <1>2
    <2> DEFINE g == [x \in S |-> Next1(h, x)]
    <2>2. ASSUME NEW x \in S, w[x] < k + 1 PROVE g[x] = Next1(g, x)
        <3>1. CASE ~pass[x].go
            BY <3>1
        <3>2. CASE pass[x].go
            <4>1. pass[x].it \in S /\ w[pass[x].it] < w[x]
                BY <3>2
            <4>2. w[pass[x].it] < k
                BY <2>2, <4>1
            <4>3. h[pass[x].it] = Next1(h, pass[x].it)
                BY <2>1, <4>1, <4>2
            <4> QED BY <3>2, <4>1, <4>3
        <3> QED BY <3>1, <3>2
    <2>3. g = [x \in S |-> g[x]]
        OBVIOUS
    <2> HIDE DEF g, Next1
    <2>4. Upto(k + 1, g)
        BY <2>2, <2>3
    <2> HIDE DEF Upto
    <2> QED BY <2>4
<1>3. bound + 1 \in G
    <2> HIDE DEF G
    <2>1. Nat \subseteq G
        BY <1>1, <1>2, ByNumbers
    <2> QED BY <2>1
<1>4. PICK h : Upto(bound + 1, h)
    BY <1>3
<1>5. \A x \in S : h[x] = Next1(h, x)
    <2>1. \A x \in S : w[x] < bound + 1
        OBVIOUS
    <2> HIDE DEF Next1
    <2> QED BY <1>4, <2>1
<1> QED BY <1>4, <1>5

-----------------------------------------------------------------------------
(* Skipping over an extension. *)

Octets(m) == m \in Seq(0 .. 255)

LEMMA SeqIs ==
    ASSUME NEW B, NEW s \in Seq(B)
    PROVE  Len(s) \in Nat /\ s \in [1 .. Len(s) -> B]
    OBVIOUS

LEMMA OctetAt ==
    ASSUME NEW m, Octets(m), NEW k \in Nat, k < Len(m)
    PROVE  m[k + 1] \in 0 .. 255
<1>1. k + 1 \in 1 .. Len(m)
    BY DEF Octets
<1>2. m \in [1 .. Len(m) -> 0 .. 255]
    BY SeqIs DEF Octets
<1> QED BY <1>1, <1>2

LEMMA LengthNat ==
    ASSUME NEW m, Octets(m)
    PROVE  Len(m) \in Nat
    BY DEF Octets

(* Another lacing byte follows. *)
Lace(m, at, j) == m[at + j + 1] = 255

(* The lacing bytes of 255 in front of the last one. *)
Laces(m, at, len, k) ==
    /\ k \in Nat /\ len > 256 * k
    /\ ~Lace(m, at, k)
    /\ \A j \in Nat : j < k => Lace(m, at, j)

(* Those bytes do not depend on what follows. *)
LEMMA LacedIs ==
    ASSUME NEW m, Octets(m), NEW at \in Nat, NEW len \in Nat, len >= 1, at + len <= Len(m),
           NEW k, Laces(m, at, len, k)
    PROVE  LET left == len - 256 * k - m[at + k + 1] - 1
           IN SkipLaced(m, at, len) =
                 IF left < 0 THEN [at |-> at, len |-> -1, hdr |-> 0]
                 ELSE [at |-> at + len - left, len |-> left, hdr |-> k + 1]
<1> DEFINE T == {i \in 0 .. len : len <= 256 * i \/ ~Lace(m, at, i)}
<1>1. k \in T /\ \A i \in T : k <= i
    <2>1. k \in 0 .. len
        BY DEF Laces
    <2>3. k \in T
        BY <2>1 DEF Laces
    <2>4. ASSUME NEW x \in T, x < k PROVE FALSE
        <3>1. x \in Nat /\ k \in Nat /\ (len <= 256 * x \/ ~Lace(m, at, x))
            BY <2>1
        <3>2. Lace(m, at, x)
            BY <2>4, <3>1 DEF Laces
        <3>3. len > 256 * k
            BY DEF Laces
        <3> QED BY <2>4, <3>1, <3>2, <3>3
    <2>5. \A x \in T : x \in Nat /\ k \in Nat
        BY <2>1
    <2> HIDE DEF T
    <2> QED BY <2>3, <2>4, <2>5
<1>2. Min(T) = k
    <2> HIDE DEF T
    <2>1. \A i \in T : (\A y \in T : i <= y) => i = k
        <3>1. T \subseteq Nat
            BY DEF T
        <3> QED BY <1>1, <3>1
    <2> QED BY <1>1, <2>1 DEF Min
<1>3. ~(len < 1) /\ ~(len <= 256 * k)
    BY DEF Laces
<1> QED BY <1>2, <1>3 DEF SkipLaced, Lace

LEMMA LacedNone ==
    ASSUME NEW m, Octets(m), NEW at \in Nat, NEW len \in Nat, at + len <= Len(m),
           ~\E k : Laces(m, at, len, k)
    PROVE  SkipLaced(m, at, len) = [at |-> at, len |-> -1, hdr |-> 0]
<1> DEFINE T == {i \in 0 .. len : len <= 256 * i \/ ~Lace(m, at, i)}
           f == Min(T)
<1> SUFFICES ASSUME len >= 1 PROVE SkipLaced(m, at, len) = [at |-> at, len |-> -1, hdr |-> 0]
    BY DEF SkipLaced
<1>1. len \in T /\ T \subseteq Nat
    OBVIOUS
<1>3. f \in T /\ \A i \in T : f <= i
    <2> HIDE DEF T
    <2>1. \E x \in T : \A y \in T : x <= y
        BY <1>1, LeastOf
    <2> QED BY <2>1 DEF Min
<1>4. len <= 256 * f
    <2> SUFFICES ASSUME len > 256 * f PROVE FALSE
        BY <1>3
    <2>1. f \in 0 .. len /\ ~Lace(m, at, f)
        BY <1>3
    <2>2. \A j \in Nat : j < f => Lace(m, at, j)
        <3> SUFFICES ASSUME NEW j \in Nat, j < f PROVE Lace(m, at, j)
            OBVIOUS
        <3>1. j \notin T
            BY <1>3, <2>1
        <3> QED BY <2>1, <3>1
    <2> HIDE DEF f
    <2>3. Laces(m, at, len, f)
        BY <2>1, <2>2 DEF Laces
    <2> QED BY <2>3
<1> QED BY <1>4 DEF SkipLaced, Lace

(* What skipping comes to: an error, or some of the bytes consumed, the    *)
(* first hdr of them as the header.                                        *)
Skipped(p, at, len) ==
    \/ p.len = -1 /\ p.at \in Nat
    \/ /\ p.len \in Nat /\ p.hdr \in Nat /\ p.at \in Nat
       /\ p.at + p.len = at + len /\ at + p.hdr <= p.at

LEMMA LacedFacts ==
    ASSUME NEW m, Octets(m), NEW at \in Nat, NEW len \in Nat, at + len <= Len(m)
    PROVE  Skipped(SkipLaced(m, at, len), at, len)
<1>1. CASE \E k : Laces(m, at, len, k)
    <2>1. PICK k : Laces(m, at, len, k)
        BY <1>1
    <2>2. k \in Nat /\ len > 256 * k /\ len >= 1 /\ k < len
        BY <2>1 DEF Laces
    <2>3. m[at + k + 1] \in 0 .. 255
        <3>1. at + k \in Nat /\ at + k < Len(m)
            BY <2>2, LengthNat
        <3> QED BY <3>1, OctetAt
    <2> DEFINE b == m[at + k + 1]
               left == len - 256 * k - b - 1
    <2>4. SkipLaced(m, at, len) =
             IF left < 0 THEN [at |-> at, len |-> -1, hdr |-> 0]
             ELSE [at |-> at + len - left, len |-> left, hdr |-> k + 1]
        BY <2>1, <2>2, LacedIs
    <2> HIDE DEF b
    <2>5. b \in 0 .. 255
        BY <2>3 DEF b
    <2> QED BY <2>2, <2>4, <2>5 DEF Skipped
<1>2. CASE ~\E k : Laces(m, at, len, k)
    <2>1. SkipLaced(m, at, len) = [at |-> at, len |-> -1, hdr |-> 0]
        BY <1>2, LacedNone
    <2> QED BY <2>1 DEF Skipped
<1> QED BY <1>1, <1>2

(* An extension that fits is skipped in the same way with more or less     *)
(* data behind it.                                                         *)
LEMMA LacedSame ==
    ASSUME NEW m, Octets(m), NEW at \in Nat, NEW len \in Nat, at + len <= Len(m),
           SkipLaced(m, at, len).len >= 0,
           NEW l \in Nat, at + l <= Len(m), l >= len - SkipLaced(m, at, len).len
    PROVE  /\ SkipLaced(m, at, l).at = SkipLaced(m, at, len).at
           /\ SkipLaced(m, at, l).len = l - (len - SkipLaced(m, at, len).len)
<1>1. PICK k : Laces(m, at, len, k)
    <2>1. SkipLaced(m, at, len) # [at |-> at, len |-> -1, hdr |-> 0]
        OBVIOUS
    <2> QED BY <2>1, LacedNone
<1>2. k \in Nat /\ len > 256 * k /\ len >= 1 /\ k < len
    BY <1>1 DEF Laces
<1>3. m[at + k + 1] \in 0 .. 255
    <2>1. at + k \in Nat /\ at + k < Len(m)
        BY <1>2, LengthNat
    <2> QED BY <2>1, OctetAt
<1> DEFINE b == m[at + k + 1]
           left == len - 256 * k - b - 1
           more == l - 256 * k - b - 1
<1>4. SkipLaced(m, at, len) =
         IF left < 0 THEN [at |-> at, len |-> -1, hdr |-> 0]
         ELSE [at |-> at + len - left, len |-> left, hdr |-> k + 1]
    BY <1>1, <1>2, LacedIs
<1>5. b \in 0 .. 255
    BY <1>3
<1> HIDE DEF b
<1>6. left >= 0 /\ SkipLaced(m, at, len).len = left /\ SkipLaced(m, at, len).at = at + len - left
    BY <1>2, <1>4, <1>5
<1>7. more >= 0 /\ l > 256 * k /\ l >= 1
    BY <1>2, <1>5, <1>6
<1>8. Laces(m, at, l, k)
    BY <1>1, <1>7 DEF Laces
<1>9. SkipLaced(m, at, l) =
         IF more < 0 THEN [at |-> at, len |-> -1, hdr |-> 0]
         ELSE [at |-> at + l - more, len |-> more, hdr |-> k + 1]
    BY <1>7, <1>8, LacedIs DEF b
<1>10. SkipLaced(m, at, l).len = more /\ SkipLaced(m, at, l).at = at + l - more
    BY <1>2, <1>5, <1>7, <1>9
<1> QED BY <1>2, <1>5, <1>6, <1>10

(* An id byte. *)
IdOf(b) == b \div 2

FlagOf(b) == b % 2

LEMMA IdAndFlag ==
    ASSUME NEW b \in 0 .. 255
    PROVE  /\ IdOf(b) \in 0 .. 127 /\ FlagOf(b) \in 0 .. 1
           /\ b = 2 * IdOf(b) + FlagOf(b)
    BY DEF IdOf, FlagOf

(* The kinds of payload, by id and flag: none, at most a byte, what there  *)
(* is, and one with its length.                                            *)
Empty(b) == (IdOf(b) = 0 /\ FlagOf(b) = 1) \/ IdOf(b) = 2

Short(b) == IdOf(b) > 0 /\ IdOf(b) # 2 /\ IdOf(b) < 32

Open(b) == (IdOf(b) = 0 \/ IdOf(b) >= 32) /\ FlagOf(b) = 0

Laced(b) == IdOf(b) >= 32 /\ FlagOf(b) = 1

LEMMA Kinds ==
    ASSUME NEW b \in 0 .. 255
    PROVE  Empty(b) \/ Short(b) \/ Open(b) \/ Laced(b)
<1>1. IdOf(b) \in 0 .. 127 /\ FlagOf(b) \in 0 .. 1
    BY IdAndFlag
<1> QED BY <1>1 DEF Empty, Short, Open, Laced

(* How each comes out. *)
IsEmpty(p, at, len) == p.hdr = 0 /\ p.at = at /\ p.len = len

IsShort(p, at, len, b) ==
    /\ p.hdr = 0
    /\ len < FlagOf(b) => p.at = at /\ p.len = -1
    /\ len >= FlagOf(b) => p.at = at + FlagOf(b) /\ p.len = len - FlagOf(b)

IsOpen(p, at, len, tr) ==
    /\ p.hdr = 0
    /\ len < tr => p.at = at /\ p.len = -1
    /\ len >= tr => p.at = at + len - tr /\ p.len = tr

IsLaced(p, m, at, len) == p = SkipLaced(m, at, len)

LEMMA PayloadEmpty ==
    ASSUME NEW m, NEW at \in Nat, NEW len \in Nat, NEW b \in 0 .. 255, NEW tr \in Nat, Empty(b)
    PROVE  IsEmpty(SkipPayload(m, at, len, b, tr), at, len)
<1>1. (b \div 2 = 0 /\ b % 2 = 1) \/ b \div 2 = 2
    BY DEF Empty, IdOf, FlagOf
<1>2. ~(b \div 2 > 0 /\ b \div 2 # 2 /\ b \div 2 < 32)
    BY <1>1
<1>3. ~((b \div 2 = 0 \/ b \div 2 >= 32) /\ b % 2 = 0) /\ ~(b \div 2 >= 32 /\ b % 2 = 1)
    BY <1>1
<1>4. SkipPayload(m, at, len, b, tr) = [at |-> at, len |-> len, hdr |-> 0]
    BY <1>1, <1>2, <1>3, Zenon DEF SkipPayload
<1> QED BY <1>4 DEF IsEmpty

LEMMA PayloadShort ==
    ASSUME NEW m, NEW at \in Nat, NEW len \in Nat, NEW b \in 0 .. 255, NEW tr \in Nat, Short(b)
    PROVE  IsShort(SkipPayload(m, at, len, b, tr), at, len, b)
<1>1. b \div 2 > 0 /\ b \div 2 # 2 /\ b \div 2 < 32
    BY DEF Short, IdOf
<1>2. ~((b \div 2 = 0 /\ b % 2 = 1) \/ b \div 2 = 2)
    BY <1>1
<1>3. ~((b \div 2 = 0 \/ b \div 2 >= 32) /\ b % 2 = 0) /\ ~(b \div 2 >= 32 /\ b % 2 = 1)
    BY <1>1
<1>4. SkipPayload(m, at, len, b, tr) =
          IF len < FlagOf(b) THEN [at |-> at, len |-> -1, hdr |-> 0]
          ELSE [at |-> at + FlagOf(b), len |-> len - FlagOf(b), hdr |-> 0]
    BY <1>1, <1>2, <1>3, Zenon DEF SkipPayload, FlagOf
<1>5. FlagOf(b) \in 0 .. 1
    BY IdAndFlag
<1> QED BY <1>4, <1>5 DEF IsShort

LEMMA PayloadOpen ==
    ASSUME NEW m, NEW at \in Nat, NEW len \in Nat, NEW b \in 0 .. 255, NEW tr \in Nat, Open(b)
    PROVE  IsOpen(SkipPayload(m, at, len, b, tr), at, len, tr)
<1>1. (b \div 2 = 0 \/ b \div 2 >= 32) /\ b % 2 = 0
    BY DEF Open, IdOf, FlagOf
<1>2. ~((b \div 2 = 0 /\ b % 2 = 1) \/ b \div 2 = 2)
    BY <1>1
<1>3. ~(b \div 2 > 0 /\ b \div 2 # 2 /\ b \div 2 < 32) /\ ~(b \div 2 >= 32 /\ b % 2 = 1)
    BY <1>1
<1>4. SkipPayload(m, at, len, b, tr) =
          IF len < tr THEN [at |-> at, len |-> -1, hdr |-> 0]
          ELSE [at |-> at + len - tr, len |-> tr, hdr |-> 0]
    BY <1>1, <1>2, <1>3, Zenon DEF SkipPayload
<1> QED BY <1>4 DEF IsOpen

LEMMA PayloadLaced ==
    ASSUME NEW m, NEW at \in Nat, NEW len \in Nat, NEW b \in 0 .. 255, NEW tr \in Nat, Laced(b)
    PROVE  IsLaced(SkipPayload(m, at, len, b, tr), m, at, len)
<1>1. b \div 2 >= 32 /\ b % 2 = 1
    BY DEF Laced, IdOf, FlagOf
<1>2. ~((b \div 2 = 0 /\ b % 2 = 1) \/ b \div 2 = 2)
    BY <1>1
<1>3. /\ ~(b \div 2 > 0 /\ b \div 2 # 2 /\ b \div 2 < 32)
      /\ ~((b \div 2 = 0 \/ b \div 2 >= 32) /\ b % 2 = 0)
    BY <1>1
<1> QED BY <1>1, <1>2, <1>3, Zenon DEF SkipPayload, IsLaced

LEMMA PayloadFacts ==
    ASSUME NEW m, Octets(m), NEW at \in Nat, NEW len \in Nat, at + len <= Len(m),
           NEW b \in 0 .. 255, NEW tr \in Nat
    PROVE  Skipped(SkipPayload(m, at, len, b, tr), at, len)
<1> DEFINE p == SkipPayload(m, at, len, b, tr)
<1>1. FlagOf(b) \in 0 .. 1
    BY IdAndFlag
<1>2. Empty(b) => IsEmpty(p, at, len)
    BY PayloadEmpty
<1>3. Short(b) => IsShort(p, at, len, b)
    BY PayloadShort
<1>4. Open(b) => IsOpen(p, at, len, tr)
    BY PayloadOpen
<1>5. Laced(b) => IsLaced(p, m, at, len)
    BY PayloadLaced
<1> HIDE DEF p
<1>6. CASE Empty(b)
    <2>1. Skipped(p, at, len)
        BY <1>2, <1>6 DEF Skipped, IsEmpty
    <2> QED BY <2>1 DEF p
<1>7. CASE Short(b)
    <2>1. Skipped(p, at, len)
        BY <1>1, <1>3, <1>7 DEF Skipped, IsShort
    <2> QED BY <2>1 DEF p
<1>8. CASE Open(b)
    <2>1. Skipped(p, at, len)
        BY <1>4, <1>8 DEF Skipped, IsOpen
    <2> QED BY <2>1 DEF p
<1>9. CASE Laced(b)
    BY <1>5, <1>9, LacedFacts DEF p, IsLaced
<1> QED BY <1>6, <1>7, <1>8, <1>9, Kinds

(* A whole extension takes at least its id byte. *)
SkipsOn(s, at, len) ==
    \/ s.len = -1 /\ s.at = at
    \/ /\ s.len \in Nat /\ s.hdr \in Nat /\ s.at \in Nat /\ s.len < len
       /\ s.at + s.len = at + len /\ at + s.hdr <= s.at

LEMMA SkipIs ==
    ASSUME NEW m, NEW at \in Nat, NEW len \in Nat, len >= 1,
           NEW p, p = SkipPayload(m, at + 1, len - 1, m[at + 1], 0)
    PROVE  Skip(m, at, len) = IF p.len < 0 THEN [at |-> at, len |-> -1, hdr |-> 0]
                              ELSE [at |-> p.at, len |-> p.len, hdr |-> p.hdr + 1]
    BY DEF Skip

LEMMA SkipFacts ==
    ASSUME NEW m, Octets(m), NEW at \in Nat, NEW len \in Nat, at + len <= Len(m), len >= 1
    PROVE  SkipsOn(Skip(m, at, len), at, len)
<1> DEFINE p == SkipPayload(m, at + 1, len - 1, m[at + 1], 0)
<1>1. m[at + 1] \in 0 .. 255
    <2>1. at < Len(m)
        BY LengthNat
    <2> QED BY <2>1, OctetAt
<1>2. Skipped(p, at + 1, len - 1)
    <2>1. at + 1 \in Nat /\ len - 1 \in Nat /\ (at + 1) + (len - 1) <= Len(m) /\ 0 \in Nat
        BY LengthNat
    <2> QED BY <1>1, <2>1, PayloadFacts
<1>3. p = SkipPayload(m, at + 1, len - 1, m[at + 1], 0)
    OBVIOUS
<1> HIDE DEF p
<1>4. Skip(m, at, len) = IF p.len < 0 THEN [at |-> at, len |-> -1, hdr |-> 0]
                         ELSE [at |-> p.at, len |-> p.len, hdr |-> p.hdr + 1]
    BY <1>3, SkipIs
<1>5. CASE p.len = -1
    <2>1. Skip(m, at, len) = [at |-> at, len |-> -1, hdr |-> 0]
        BY <1>4, <1>5
    <2> QED BY <2>1 DEF SkipsOn
<1>6. CASE p.len # -1
    <2>1. /\ p.len \in Nat /\ p.hdr \in Nat /\ p.at \in Nat
          /\ p.at + p.len = (at + 1) + (len - 1) /\ at + 1 + p.hdr <= p.at
        BY <1>2, <1>6 DEF Skipped
    <2> DEFINE a == p.at
               l == p.len
               h == p.hdr
    <2>2. Skip(m, at, len) = [at |-> a, len |-> l, hdr |-> h + 1]
        BY <1>4, <2>1
    <2>3. l \in Nat /\ h \in Nat /\ a \in Nat /\ a + l = (at + 1) + (len - 1) /\ at + 1 + h <= a
        BY <2>1
    <2> HIDE DEF a, l, h
    <2>4. l < len /\ a + l = at + len /\ at + (h + 1) <= a /\ h + 1 \in Nat
        BY <2>3
    <2> QED BY <2>2, <2>3, <2>4 DEF SkipsOn
<1> QED BY <1>5, <1>6

(* The extent of an extension does not depend on what follows it: not one  *)
(* without a length, which takes what there is.                            *)
Delimited(b) == ~Open(b)

LEMMA SkipSame ==
    ASSUME NEW m, Octets(m), NEW at \in Nat, NEW len \in Nat, at + len <= Len(m), len >= 1,
           Skip(m, at, len).len >= 0, Delimited(m[at + 1]),
           NEW l \in Nat, at + l <= Len(m), l >= 1, l >= len - Skip(m, at, len).len
    PROVE  /\ Skip(m, at, l).at = Skip(m, at, len).at
           /\ Skip(m, at, l).len = l - (len - Skip(m, at, len).len)
<1> DEFINE b == m[at + 1]
           p == SkipPayload(m, at + 1, len - 1, b, 0)
           q == SkipPayload(m, at + 1, l - 1, b, 0)
<1>1. b \in 0 .. 255
    <2>1. at < Len(m)
        BY LengthNat
    <2> QED BY <2>1, OctetAt
<1>3. /\ at + 1 \in Nat /\ len - 1 \in Nat /\ l - 1 \in Nat
      /\ (at + 1) + (len - 1) <= Len(m) /\ (at + 1) + (l - 1) <= Len(m)
    BY LengthNat
<1>4. /\ Skip(m, at, len) = IF p.len < 0 THEN [at |-> at, len |-> -1, hdr |-> 0]
                            ELSE [at |-> p.at, len |-> p.len, hdr |-> p.hdr + 1]
      /\ Skip(m, at, l) = IF q.len < 0 THEN [at |-> at, len |-> -1, hdr |-> 0]
                          ELSE [at |-> q.at, len |-> q.len, hdr |-> q.hdr + 1]
    BY SkipIs
<1>2. ~Open(b)
    BY DEF Delimited
<1> HIDE DEF b
<1>13. 0 \in Nat
    OBVIOUS
<1>5. Skipped(p, at + 1, len - 1) /\ Skipped(q, at + 1, l - 1)
    BY <1>1, <1>3, <1>13, PayloadFacts
<1>10. FlagOf(b) \in 0 .. 1
    BY <1>1, IdAndFlag
<1>11. Empty(b) => IsEmpty(p, at + 1, len - 1) /\ IsEmpty(q, at + 1, l - 1)
    BY <1>1, <1>3, <1>13, PayloadEmpty
<1>12. Short(b) => IsShort(p, at + 1, len - 1, b) /\ IsShort(q, at + 1, l - 1, b)
    BY <1>1, <1>3, <1>13, PayloadShort
<1>14. Laced(b) => IsLaced(p, m, at + 1, len - 1) /\ IsLaced(q, m, at + 1, l - 1)
    BY <1>1, <1>3, <1>13, PayloadLaced
<1> HIDE DEF p, q
<1>6. p.len \in Nat /\ Skip(m, at, len).len = p.len /\ Skip(m, at, len).at = p.at
    BY <1>4, <1>5 DEF Skipped
<1>7. q.at = p.at /\ q.len = l - 1 - (len - 1 - p.len)
    <2>1. CASE Empty(b)
        BY <1>11, <2>1 DEF IsEmpty
    <2>2. CASE Short(b)
        BY <1>6, <1>10, <1>12, <2>2 DEF IsShort
    <2>3. CASE Laced(b)
        <3>2. l - 1 >= len - 1 - p.len
            BY <1>6
        <3> QED BY <1>3, <1>6, <1>14, <2>3, <3>2, LacedSame DEF IsLaced
    <2> QED BY <1>1, <1>2, <2>1, <2>2, <2>3, Kinds
<1>8. q.len >= 0
    BY <1>6, <1>7
<1>9. Skip(m, at, l).len = q.len /\ Skip(m, at, l).at = q.at
    BY <1>4, <1>8, <1>5 DEF Skipped
<1> QED BY <1>6, <1>7, <1>9

(* With nothing there is no payload. *)
LEMMA PayloadNone ==
    ASSUME NEW m, NEW at \in Nat, NEW len \in Int, len < 0, NEW b \in 0 .. 255, NEW tr \in Nat,
           IdOf(b) # 0
    PROVE  SkipPayload(m, at, len, b, tr).len < 0
<1>1. b \div 2 \in 0 .. 127 /\ b % 2 \in 0 .. 1 /\ b \div 2 # 0
    BY DEF IdOf
<1>2. SkipLaced(m, at, len) = [at |-> at, len |-> -1, hdr |-> 0]
    BY DEF SkipLaced
<1>3. CASE b \div 2 = 2
    <2>1. SkipPayload(m, at, len, b, tr) = [at |-> at, len |-> len, hdr |-> 0]
        BY <1>1, <1>3 DEF SkipPayload
    <2> QED BY <2>1
<1>4. CASE b \div 2 # 2 /\ b \div 2 < 32
    <2>1. len < b % 2
        BY <1>1
    <2>2. SkipPayload(m, at, len, b, tr) = [at |-> at, len |-> -1, hdr |-> 0]
        BY <1>1, <1>4, <2>1 DEF SkipPayload
    <2> QED BY <2>2
<1>5. CASE b \div 2 >= 32 /\ b % 2 = 0
    <2>1. len < tr
        OBVIOUS
    <2>2. SkipPayload(m, at, len, b, tr) = [at |-> at, len |-> -1, hdr |-> 0]
        BY <1>1, <1>5, <2>1 DEF SkipPayload
    <2> QED BY <2>2
<1>6. CASE b \div 2 >= 32 /\ b % 2 = 1
    <2>2. SkipPayload(m, at, len, b, tr) = [at |-> at, len |-> -1, hdr |-> 0]
        BY <1>1, <1>2, <1>6 DEF SkipPayload
    <2> QED BY <2>2
<1> QED BY <1>1, <1>3, <1>4, <1>5, <1>6

-----------------------------------------------------------------------------
(* The iterator's record. *)

(* The fields of an iterator. *)
LEMMA IteratorIs ==
    ASSUME NEW i \in Iterator
    PROVE  /\ i.curr \in Int /\ i.len \in Int /\ i.frame \in Nat /\ i.from \in Nat
           /\ i.src \in Int /\ i.srclen \in Int /\ i.rframe \in Nat /\ i.replen \in Nat
           /\ i.long \in Int /\ i.trailing \in Nat /\ i.L \in Int /\ i.fmax \in Int
    BY DEF Iterator

(* Everything but the position in what is repeated. *)
ButSource(i, j) ==
    /\ j.curr = i.curr /\ j.len = i.len /\ j.frame = i.frame /\ j.from = i.from
    /\ j.rframe = i.rframe /\ j.replen = i.replen
    /\ j.trailing = i.trailing /\ j.fmax = i.fmax

PastSource(i, a, l) == [i EXCEPT !.src = a, !.srclen = l]

LEMMA PastIs ==
    ASSUME NEW i \in Iterator, NEW a \in Int, NEW l \in Int
    PROVE  /\ PastSource(i, a, l) \in Iterator
           /\ PastSource(i, a, l).src = a /\ PastSource(i, a, l).srclen = l
           /\ ButSource(i, PastSource(i, a, l))
    BY DEF Iterator, PastSource, ButSource

(* Everything but the position in the data. *)
ButData(i, j) ==
    /\ j.frame = i.frame /\ j.from = i.from /\ j.src = i.src /\ j.srclen = i.srclen
    /\ j.rframe = i.rframe /\ j.replen = i.replen
    /\ j.trailing = i.trailing /\ j.fmax = i.fmax

PastData(i, a, l) == [i EXCEPT !.curr = a, !.len = l]

LEMMA PastDataIs ==
    ASSUME NEW i \in Iterator, NEW a \in Int, NEW l \in Int
    PROVE  /\ PastData(i, a, l) \in Iterator
           /\ PastData(i, a, l).curr = a /\ PastData(i, a, l).len = l
           /\ ButData(i, PastData(i, a, l))
    BY DEF Iterator, PastData, ButData

(* The next frame to repeat for. *)
NextFrame(i) == [i EXCEPT !.rframe = @ + 1, !.src = i.from, !.srclen = i.replen]

IsNextFrame(i, j) ==
    /\ j.rframe = i.rframe + 1 /\ j.src = i.from /\ j.srclen = i.replen
    /\ j.curr = i.curr /\ j.len = i.len /\ j.frame = i.frame /\ j.from = i.from
    /\ j.replen = i.replen

LEMMA NextFrameIs ==
    ASSUME NEW i \in Iterator
    PROVE  NextFrame(i) \in Iterator /\ IsNextFrame(i, NextFrame(i))
<1>1. i.rframe + 1 \in Nat /\ i.from \in Int /\ i.replen \in Int
    BY IteratorIs
<1>2. NextFrame(i) \in Iterator
    BY <1>1 DEF Iterator, NextFrame
<1>3. IsNextFrame(i, NextFrame(i))
    BY <1>1 DEF Iterator, NextFrame, IsNextFrame
<1> QED BY <1>2, <1>3

(* Back to the data behind the repeated extensions. *)
IsRepeatDone(i, n, j) ==
    /\ j.rframe = 0 /\ j.from = i.curr /\ j.curr = i.curr
    /\ \/ j.frame = i.frame /\ j.len = i.len
       \/ i.frame + 1 < n /\ j.frame = i.frame + 1 /\ j.len = i.len
       \/ j.len = 0

LEMMA RepeatDoneIs ==
    ASSUME NEW i \in Iterator, i.curr \in Nat, NEW n \in Nat
    PROVE  RepeatDone(i, n) \in Iterator /\ IsRepeatDone(i, n, RepeatDone(i, n))
<1> DEFINE after == [i EXCEPT !.from = i.curr, !.long = -1, !.rframe = 0]
           on == [after EXCEPT !.frame = @ + 1, !.len = IF after.frame + 1 >= n THEN 0 ELSE @]
<1>1. /\ after \in Iterator /\ after.from = i.curr /\ after.rframe = 0
      /\ after.curr = i.curr /\ after.frame = i.frame /\ after.len = i.len
    <2>1. i.curr \in Nat /\ -1 \in Int /\ 0 \in Nat
        OBVIOUS
    <2>2. after \in Iterator
        BY <2>1 DEF Iterator
    <2> QED BY <2>2 DEF Iterator
<1>2. RepeatDone(i, n) = IF i.L = 1 THEN after ELSE on
    BY DEF RepeatDone
<1> HIDE DEF after
<1>3. after.frame \in Nat /\ after.len \in Int /\ i.frame \in Nat
    BY <1>1, IteratorIs
<1>4. /\ on \in Iterator /\ on.from = after.from /\ on.rframe = after.rframe
      /\ on.curr = after.curr /\ on.frame = after.frame + 1
      /\ on.len = IF after.frame + 1 >= n THEN 0 ELSE after.len
    <2>1. after.frame + 1 \in Nat /\ (IF after.frame + 1 >= n THEN 0 ELSE after.len) \in Int
        BY <1>3
    <2> QED BY <1>1, <2>1 DEF Iterator
<1> HIDE DEF on
<1>5. CASE i.L = 1
    BY <1>1, <1>2, <1>5 DEF IsRepeatDone
<1>6. CASE i.L # 1
    BY <1>1, <1>2, <1>3, <1>4, <1>6 DEF IsRepeatDone
<1> QED BY <1>5, <1>6

LEMMA OutcomesAre ==
    ASSUME NEW i
    PROVE  /\ Ended(i).ret = 0 /\ ~Ended(i).go /\ Ended(i).it = i
           /\ Onto(i).ret = 0 /\ Onto(i).go /\ Onto(i).it = i
           /\ Invalid(i).ret = -4 /\ ~Invalid(i).go /\ Invalid(i).it = i
    BY DEF Ended, Onto, Invalid, OPUS_INVALID_PACKET

IsExtension(x) == x = [id |-> x.id, frame |-> x.frame, at |-> x.at, len |-> x.len]

IsFound(r, i, id, f, at, hdr) ==
    /\ r.ret = 1 /\ ~r.go /\ r.it = i
    /\ r.ext.id = id /\ r.ext.frame = f /\ r.ext.at = at + hdr
    /\ r.ext.len = i.curr - at - hdr
    /\ IsExtension(r.ext)

LEMMA FoundIs ==
    ASSUME NEW i, NEW id, NEW f, NEW at, NEW hdr
    PROVE  IsFound(Found(i, id, f, at, hdr), i, id, f, at, hdr)
    BY DEF Found, Ended, IsFound, IsExtension

-----------------------------------------------------------------------------
(* One pass over what is repeated. *)

(* The id byte of a repeated extension, its flag cleared where it has no   *)
(* length.                                                                 *)
RepeatedId(i, n, b, to) ==
    IF i.L = 0 /\ i.rframe + 1 >= n /\ to = i.long THEN 2 * (b \div 2) ELSE b

IsRepeatedId(rid, b) ==
    rid \in 0 .. 255 /\ IdOf(rid) = IdOf(b) /\ IdOf(b) \in 2 .. 127

LEMMA RepeatedIdIs ==
    ASSUME NEW i, NEW n, NEW to, NEW b \in 0 .. 255, b > 3
    PROVE  IsRepeatedId(RepeatedId(i, n, b, to), b)
<1>1. b \in 0 .. 255 /\ 2 * (b \div 2) \in 0 .. 255 /\ (2 * (b \div 2)) \div 2 = b \div 2
      /\ b \div 2 \in 2 .. 127
    OBVIOUS
<1> QED BY <1>1 DEF RepeatedId, IdOf, IsRepeatedId

(* RepeatOne, by its outcomes. *)
PayloadOf(m, i, n, to) ==
    SkipPayload(m, i.curr, i.len, RepeatedId(i, n, m[i.src + 1], to), i.trailing)

RepeatOutcome(i, n, b, s, p, past, read) ==
    IF b <= 3 THEN Onto(past)
    ELSE IF p.len < 0 THEN Invalid(read)
    ELSE IF read.rframe >= read.fmax THEN Onto(read)
    ELSE Found(read, RepeatedId(i, n, b, s.at) \div 2, read.rframe, i.curr, p.hdr)

LEMMA RepeatOneIs ==
    ASSUME NEW m, NEW i, NEW n, NEW s
    PROVE  RepeatOne(m, i, n, s) =
              RepeatOutcome(i, n, m[i.src + 1], s, PayloadOf(m, i, n, s.at),
                            PastSource(i, s.at, s.len),
                            PastData(PastSource(i, s.at, s.len),
                                     PayloadOf(m, i, n, s.at).at,
                                     PayloadOf(m, i, n, s.at).len))
    BY Zenon DEF RepeatOne, RepeatedPayload, PastSource, PastData, RepeatedId, PayloadOf,
                 RepeatOutcome

(* What is left of the loop. *)
RepeatWeight(m, n, i) ==
    (IF i.rframe < n THEN (n - i.rframe) * (Len(m) + 1) ELSE 0)
      + (IF i.srclen > 0 THEN i.srclen ELSE 0)

(* What a pass does wherever the iterator is. *)
RepeatStep(m, n, i, r) ==
    /\ r.go => /\ r.it \in Repeating(m)
               /\ RepeatWeight(m, n, r.it) < RepeatWeight(m, n, i)
               /\ i.len >= 0 => r.it.len \in 0 .. i.len
               /\ i.len < 0 => r.it.len < 0
    /\ ~r.go /\ r.ret = 0 =>
          /\ r.it.rframe = 0
          /\ i.len >= 0 => r.it \in Reading(m) /\ r.it.len \in 0 .. i.len
    /\ ~(r.ret <= 0) => /\ r.it \in Repeating(m)
                        /\ RepeatWeight(m, n, r.it) < RepeatWeight(m, n, i)
                        /\ i.len >= 0 /\ r.it.len \in 0 .. i.len

LEMMA RepeatingIs ==
    ASSUME NEW m, Octets(m), NEW i
    PROVE  i \in Repeating(m) <=>
              /\ i \in Iterator /\ i.from <= i.curr /\ i.curr + i.len <= Len(m)
              /\ i.src >= 0 /\ i.src + i.srclen <= Len(m)
              /\ i.from + i.replen <= Len(m)
    BY DEF Repeating, Reading

LEMMA ReadingIs ==
    ASSUME NEW m, Octets(m), NEW i
    PROVE  i \in Reading(m) <=> i \in Iterator /\ i.from <= i.curr /\ i.curr + i.len <= Len(m)
    BY DEF Reading

LEMMA WeightNat ==
    ASSUME NEW m, Octets(m), NEW n \in Nat, NEW i \in Repeating(m)
    PROVE  /\ RepeatWeight(m, n, i) \in Nat
           /\ RepeatWeight(m, n, i) <= n * (Len(m) + 1) + Len(m)
<1>1. /\ i.rframe \in Nat /\ i.srclen \in Int /\ Len(m) \in Nat
      /\ i.src \in Int /\ i.src >= 0 /\ i.src + i.srclen <= Len(m)
    BY RepeatingIs, IteratorIs, LengthNat
<1>2. i.rframe < n => /\ (n - i.rframe) * (Len(m) + 1) \in Nat
                      /\ (n - i.rframe) * (Len(m) + 1) <= n * (Len(m) + 1)
    BY <1>1
<1>3. n * (Len(m) + 1) \in Nat
    BY <1>1
<1> DEFINE x == (n - i.rframe) * (Len(m) + 1)
           y == n * (Len(m) + 1)
<1> HIDE DEF x, y
<1>4. (i.rframe < n => x \in Nat /\ x <= y) /\ y \in Nat
    BY <1>2, <1>3 DEF x, y
<1>5. RepeatWeight(m, n, i) = (IF i.rframe < n THEN x ELSE 0) + (IF i.srclen > 0 THEN i.srclen ELSE 0)
    BY DEF RepeatWeight, x
<1>6. RepeatWeight(m, n, i) \in Nat /\ RepeatWeight(m, n, i) <= y + Len(m)
    BY <1>1, <1>4, <1>5
<1> QED BY <1>6 DEF y

(* The next frame weighs less. *)
LEMMA WeightNextFrame ==
    ASSUME NEW m, Octets(m), NEW n \in Nat, NEW i \in Repeating(m), NEW j \in Repeating(m),
           IsNextFrame(i, j), i.rframe < n, i.srclen <= 0
    PROVE  RepeatWeight(m, n, j) < RepeatWeight(m, n, i)
<1>1. /\ i.rframe \in Nat /\ i.srclen \in Int /\ Len(m) \in Nat /\ i.replen \in Nat
      /\ i.from \in Nat /\ i.from + i.replen <= Len(m)
    BY RepeatingIs, IteratorIs, LengthNat
<1>2. j.rframe = i.rframe + 1 /\ j.srclen = i.replen
    BY DEF IsNextFrame
<1> DEFINE k == n - (i.rframe + 1)
           z == Len(m) + 1
<1>3. /\ RepeatWeight(m, n, i) = (n - i.rframe) * z
      /\ RepeatWeight(m, n, j) = (IF i.rframe + 1 < n THEN k * z ELSE 0)
                                    + (IF i.replen > 0 THEN i.replen ELSE 0)
    BY <1>1, <1>2 DEF RepeatWeight
<1>4. k \in Nat /\ (n - i.rframe) = k + 1 /\ z \in Nat /\ i.replen < z
    BY <1>1
<1> HIDE DEF k, z
<1>5. (k + 1) * z = k * z + z /\ k * z \in Nat
    BY <1>4
<1> DEFINE kz == k * z
<1>6. /\ RepeatWeight(m, n, i) = kz + z
      /\ RepeatWeight(m, n, j) = (IF i.rframe + 1 < n THEN kz ELSE 0)
                                    + (IF i.replen > 0 THEN i.replen ELSE 0)
    BY <1>3, <1>4, <1>5
<1>7. kz \in Nat
    BY <1>5
<1> HIDE DEF kz
<1> QED BY <1>1, <1>4, <1>6, <1>7

(* An extension less to repeat weighs less. *)
LEMMA WeightPast ==
    ASSUME NEW m, Octets(m), NEW n \in Nat, NEW i \in Repeating(m), NEW j \in Repeating(m),
           j.rframe = i.rframe, i.srclen > 0, j.srclen < i.srclen
    PROVE  RepeatWeight(m, n, j) < RepeatWeight(m, n, i)
<1>1. i.rframe \in Nat /\ i.srclen \in Int /\ j.srclen \in Int /\ Len(m) \in Nat
    BY RepeatingIs, IteratorIs, LengthNat
<1> DEFINE x == IF i.rframe < n THEN (n - i.rframe) * (Len(m) + 1) ELSE 0
<1>2. x \in Int
    BY <1>1
<1>3. /\ RepeatWeight(m, n, i) = x + (IF i.srclen > 0 THEN i.srclen ELSE 0)
      /\ RepeatWeight(m, n, j) = x + (IF j.srclen > 0 THEN j.srclen ELSE 0)
    BY DEF RepeatWeight
<1> HIDE DEF x
<1> QED BY <1>1, <1>2, <1>3

(* RepeatPass, by its cases. *)
LEMMA RepeatPassIs ==
    ASSUME NEW m, NEW i \in Iterator, NEW n \in Nat
    PROVE  /\ i.rframe >= n => RepeatPass(m, i, n) = Ended(RepeatDone(i, n))
           /\ i.rframe < n /\ i.srclen <= 0 => RepeatPass(m, i, n) = Onto(NextFrame(i))
           /\ i.rframe < n /\ i.srclen > 0 =>
                 RepeatPass(m, i, n) = RepeatOne(m, i, n, Skip(m, i.src, i.srclen))
<1>1. i.rframe \in Nat /\ i.srclen \in Int
    BY IteratorIs
<1>2. /\ i.rframe < n <=> ~(i.rframe >= n)
      /\ i.srclen > 0 <=> ~(i.srclen <= 0)
    BY <1>1
<1>3. RepeatPass(m, i, n) =
         IF i.rframe >= n THEN Ended(RepeatDone(i, n))
         ELSE IF i.srclen <= 0 THEN Onto(NextFrame(i))
         ELSE RepeatOne(m, i, n, Skip(m, i.src, i.srclen))
    BY Zenon DEF RepeatPass, NextFrame
<1> QED BY <1>2, <1>3, Zenon

(* The extension to repeat. *)
LEMMA SourceSkipped ==
    ASSUME NEW m, Octets(m), NEW i \in Repeating(m), i.srclen > 0,
           NEW s, s = Skip(m, i.src, i.srclen)
    PROVE  /\ SkipsOn(s, i.src, i.srclen)
           /\ s.at \in Nat /\ s.len \in Int /\ s.len < i.srclen /\ s.at + s.len <= Len(m)
           /\ m[i.src + 1] \in 0 .. 255 /\ i.src \in Nat /\ i.srclen \in Nat
<1>1. /\ i.src \in Nat /\ i.srclen \in Nat /\ i.srclen >= 1 /\ i.src + i.srclen <= Len(m)
      /\ Len(m) \in Nat /\ i.src < Len(m)
    BY RepeatingIs, IteratorIs, LengthNat
<1>2. SkipsOn(s, i.src, i.srclen)
    BY <1>1, SkipFacts
<1>3. m[i.src + 1] \in 0 .. 255
    BY <1>1, OctetAt
<1>4. s.at \in Nat /\ s.len \in Int /\ s.len < i.srclen /\ s.at + s.len <= Len(m)
    BY <1>1, <1>2 DEF SkipsOn
<1> QED BY <1>1, <1>2, <1>3, <1>4

(* The payload of a repeated extension. *)
LEMMA RepeatedPayloadIs ==
    ASSUME NEW m, Octets(m), NEW i \in Repeating(m), NEW n, NEW to,
           m[i.src + 1] \in 0 .. 255, m[i.src + 1] > 3,
           NEW p, p = PayloadOf(m, i, n, to)
    PROVE  /\ i.len < 0 => p.len < 0
           /\ i.len >= 0 => Skipped(p, i.curr, i.len) /\ i.len \in Nat
           /\ i.curr \in Nat
<1>1. /\ i.curr \in Nat /\ i.len \in Int /\ i.trailing \in Nat /\ i.curr + i.len <= Len(m)
    BY RepeatingIs, IteratorIs
<1> DEFINE rid == RepeatedId(i, n, m[i.src + 1], to)
<1>2. rid \in 0 .. 255 /\ IdOf(rid) \in 2 .. 127
    <2> DEFINE b == m[i.src + 1]
    <2>1. b \in 0 .. 255 /\ b > 3
        OBVIOUS
    <2> HIDE DEF b
    <2>2. IsRepeatedId(RepeatedId(i, n, b, to), b)
        BY <2>1, RepeatedIdIs
    <2> QED BY <2>2 DEF b, IsRepeatedId
<1>3. p = SkipPayload(m, i.curr, i.len, rid, i.trailing)
    BY DEF PayloadOf
<1> HIDE DEF rid
<1>4. CASE i.len < 0
    <2>1. IdOf(rid) # 0
        BY <1>2
    <2>2. SkipPayload(m, i.curr, i.len, rid, i.trailing).len < 0
        BY <1>1, <1>2, <1>4, <2>1, PayloadNone
    <2> QED BY <1>1, <1>3, <1>4, <2>2
<1>5. CASE i.len >= 0
    <2>1. i.len \in Nat
        BY <1>1, <1>5
    <2>2. Skipped(SkipPayload(m, i.curr, i.len, rid, i.trailing), i.curr, i.len)
        BY <1>1, <1>2, <2>1, PayloadFacts
    <2> QED BY <1>1, <1>3, <1>5, <2>1, <2>2
<1> QED BY <1>1, <1>4, <1>5

LEMMA RepeatGoes ==
    ASSUME NEW m, Octets(m), NEW n \in Nat, NEW i \in Repeating(m)
    PROVE  RepeatStep(m, n, i, RepeatPass(m, i, n))
<1>1. i \in Iterator
    BY RepeatingIs
<1>2. /\ i.curr \in Nat /\ i.len \in Int /\ i.frame \in Nat /\ i.from \in Nat
      /\ i.rframe \in Nat /\ i.srclen \in Int /\ i.replen \in Nat /\ Len(m) \in Nat
      /\ i.from <= i.curr /\ i.curr + i.len <= Len(m) /\ i.from + i.replen <= Len(m)
    BY RepeatingIs, IteratorIs, LengthNat
<1>3. CASE i.rframe >= n
    <2> DEFINE j == RepeatDone(i, n)
    <2>1. RepeatPass(m, i, n) = Ended(j)
        BY <1>1, <1>3, RepeatPassIs
    <2>2. j \in Iterator /\ IsRepeatDone(i, n, j)
        BY <1>1, <1>2, RepeatDoneIs
    <2> HIDE DEF j
    <2>3. ~Ended(j).go /\ Ended(j).it = j /\ Ended(j).ret = 0
        BY OutcomesAre
    <2>4. j.rframe = 0 /\ (i.len >= 0 => j \in Reading(m) /\ j.len \in 0 .. i.len)
        BY <1>2, <2>2, ReadingIs DEF IsRepeatDone
    <2> QED BY <2>1, <2>3, <2>4 DEF RepeatStep
<1>4. CASE i.rframe < n /\ i.srclen <= 0
    <2> DEFINE j == NextFrame(i)
    <2>1. RepeatPass(m, i, n) = Onto(j)
        BY <1>1, <1>4, RepeatPassIs
    <2>2. j \in Iterator /\ IsNextFrame(i, j)
        BY <1>1, NextFrameIs
    <2> HIDE DEF j
    <2>3. Onto(j).go /\ Onto(j).it = j /\ Onto(j).ret = 0
        BY OutcomesAre
    <2>4. j \in Repeating(m) /\ j.len = i.len
        BY <1>2, <2>2, RepeatingIs DEF IsNextFrame
    <2>5. RepeatWeight(m, n, j) < RepeatWeight(m, n, i)
        BY <1>4, <2>2, <2>4, WeightNextFrame
    <2> QED BY <1>2, <2>1, <2>3, <2>4, <2>5 DEF RepeatStep
<1>5. CASE i.rframe < n /\ i.srclen > 0
    <2> DEFINE s == Skip(m, i.src, i.srclen)
               b == m[i.src + 1]
               p == PayloadOf(m, i, n, s.at)
               past == PastSource(i, s.at, s.len)
               read == PastData(past, p.at, p.len)
    <2>1. RepeatPass(m, i, n) = RepeatOutcome(i, n, b, s, p, past, read)
        <3>1. RepeatPass(m, i, n) = RepeatOne(m, i, n, s)
            BY <1>1, <1>5, RepeatPassIs
        <3>2. RepeatOne(m, i, n, s) = RepeatOutcome(i, n, b, s, p, past, read)
            BY RepeatOneIs, Zenon
        <3> QED BY <3>1, <3>2
    <2>2. /\ s.at \in Nat /\ s.len \in Int /\ s.len < i.srclen /\ s.at + s.len <= Len(m)
          /\ b \in 0 .. 255
        BY <1>5, SourceSkipped
    <2>3. b > 3 => /\ i.len < 0 => p.len < 0
                   /\ i.len >= 0 => Skipped(p, i.curr, i.len)
        BY <2>2, RepeatedPayloadIs
    <2>4. past \in Iterator /\ past.src = s.at /\ past.srclen = s.len /\ ButSource(i, past)
        <3> HIDE DEF s
        <3> QED BY <1>1, <2>2, PastIs
    <2>5. past \in Repeating(m) /\ RepeatWeight(m, n, past) < RepeatWeight(m, n, i)
        <3> HIDE DEF s, past
        <3>1. past \in Repeating(m)
            BY <1>2, <2>2, <2>4, RepeatingIs DEF ButSource
        <3>2. past.rframe = i.rframe /\ past.srclen < i.srclen
            BY <2>2, <2>4 DEF ButSource
        <3> QED BY <1>5, <3>1, <3>2, WeightPast
    <2> DEFINE r == RepeatOutcome(i, n, b, s, p, past, read)
    <2>6. CASE b <= 3
        <3> HIDE DEF s, b, p, past, read
        <3>1. r = Onto(past)
            BY <2>6 DEF RepeatOutcome
        <3>2. r.go /\ r.it = past /\ r.ret = 0
            BY <3>1, OutcomesAre
        <3>3. past.len = i.len
            BY <2>4 DEF ButSource
        <3> HIDE DEF r
        <3>4. RepeatStep(m, n, i, r)
            BY <1>2, <2>5, <3>2, <3>3 DEF RepeatStep
        <3> QED BY <2>1, <3>4 DEF r
    <2>7. CASE b > 3 /\ p.len < 0
        <3> HIDE DEF s, b, p, past, read
        <3>1. r = Invalid(read)
            BY <2>2, <2>7 DEF RepeatOutcome
        <3>2. ~r.go /\ r.ret = -4
            BY <3>1, OutcomesAre
        <3> HIDE DEF r
        <3>4. RepeatStep(m, n, i, r)
            BY <3>2 DEF RepeatStep
        <3> QED BY <2>1, <3>4 DEF r
    <2>8. CASE b > 3 /\ ~(p.len < 0)
        <3> HIDE DEF s, b, p, past
        <3>1. i.len >= 0 /\ Skipped(p, i.curr, i.len)
            BY <1>2, <2>3, <2>8
        <3>2. p.len \in Nat /\ p.at \in Nat /\ p.at + p.len = i.curr + i.len /\ p.len <= i.len
            <4>1. p.len # -1
                BY <2>8
            <4>2. /\ p.len \in Nat /\ p.hdr \in Nat /\ p.at \in Nat
                  /\ p.at + p.len = i.curr + i.len /\ i.curr + p.hdr <= p.at
                BY <3>1, <4>1 DEF Skipped
            <4> DEFINE a == p.at
                       l == p.len
                       h == p.hdr
            <4>3. l \in Nat /\ h \in Nat /\ a \in Nat /\ a + l = i.curr + i.len /\ i.curr + h <= a
                BY <4>2
            <4> HIDE DEF a, l, h
            <4>4. l <= i.len
                BY <1>2, <4>3
            <4> QED BY <4>2, <4>4 DEF l
        <3>3. read \in Iterator /\ read.curr = p.at /\ read.len = p.len /\ ButData(past, read)
            <4> DEFINE a == p.at
                       l == p.len
            <4>1. past \in Iterator /\ a \in Int /\ l \in Int
                BY <2>4, <3>2
            <4>2. read = PastData(past, a, l)
                OBVIOUS
            <4> HIDE DEF a, l, read
            <4>3. read \in Iterator /\ read.curr = a /\ read.len = l /\ ButData(past, read)
                BY <4>1, <4>2, PastDataIs
            <4> QED BY <4>3 DEF a, l
        <3> HIDE DEF read
        <3>4. read \in Repeating(m)
            BY <1>2, <2>5, <3>2, <3>3, <2>4, RepeatingIs DEF ButData, ButSource
        <3>5. RepeatWeight(m, n, read) < RepeatWeight(m, n, i)
            <4>1. read.rframe = i.rframe /\ read.srclen < i.srclen
                BY <2>2, <2>4, <3>3 DEF ButSource, ButData
            <4> QED BY <1>5, <3>4, <4>1, WeightPast
        <3>6. CASE read.rframe >= read.fmax
            <4>1. r = Onto(read)
                BY <2>2, <2>8, <3>6 DEF RepeatOutcome
            <4>2. r.go /\ r.it = read /\ r.ret = 0
                BY <4>1, OutcomesAre
            <4> HIDE DEF r
            <4>3. RepeatStep(m, n, i, r)
                BY <1>2, <3>2, <3>3, <3>4, <3>5, <4>2 DEF RepeatStep
            <4> QED BY <2>1, <4>3 DEF r
        <3>7. CASE ~(read.rframe >= read.fmax)
            <4>1. r = Found(read, RepeatedId(i, n, b, s.at) \div 2, read.rframe, i.curr, p.hdr)
                BY <2>2, <2>8, <3>7 DEF RepeatOutcome
            <4>2. ~r.go /\ r.ret = 1 /\ r.it = read
                BY <4>1, FoundIs DEF IsFound
            <4> HIDE DEF r
            <4>3. RepeatStep(m, n, i, r)
                BY <1>2, <3>1, <3>2, <3>3, <3>4, <3>5, <4>2 DEF RepeatStep
            <4> QED BY <2>1, <4>3 DEF r
        <3> QED BY <3>6, <3>7
    <2>9. b <= 3 \/ b > 3
        <3> HIDE DEF b
        <3> QED BY <2>2
    <2> HIDE DEF s, b, p, past, read, r
    <2> QED BY <2>6, <2>7, <2>8, <2>9
<1> QED BY <1>2, <1>3, <1>4, <1>5

-----------------------------------------------------------------------------
(* What the iterator keeps. *)

(* B holds where extensions start between a and e: each of them has its    *)
(* own length, is no repeat indicator, and ends where the next one starts. *)
Whole(m, b, e, B) ==
    /\ Delimited(m[b + 1]) /\ IdOf(m[b + 1]) # 2
    /\ Skip(m, b, e - b).len >= 0 /\ Skip(m, b, e - b).at \in B

Region(m, a, e, B) ==
    /\ a \in B /\ B \subseteq a .. e
    /\ \A b \in B : b < e => Whole(m, b, e, B)

(* Between two extensions of the data: those since from could be repeated. *)
Sound(m, n, i) ==
    /\ i \in Reading(m) /\ i.rframe = 0 /\ i.len >= 0
    /\ i.len > 0 => /\ i.curr + i.len = Len(m) /\ i.frame < n
                    /\ \E B : Region(m, i.from, i.curr, B)

(* In the middle of a repeat: at an extension of those repeated. *)
Amid(m, n, i) ==
    /\ i \in Repeating(m) /\ i.len >= 0 /\ i.curr + i.len = Len(m)
    /\ i.rframe \in 1 .. n /\ i.frame < n /\ (i.rframe = n => i.srclen = i.replen)
    /\ i.from + i.replen <= i.curr /\ i.src + i.srclen = i.from + i.replen
    /\ \E B : Region(m, i.from, i.from + i.replen, B) /\ i.src \in B

(* A bound for the extensions still to come: each byte not yet read may    *)
(* start one for every frame, each byte that is or could be repeated one   *)
(* for every frame it has not been repeated for.                           *)
Left(n, i) ==
    IF i.len < 0 THEN 0
    ELSE IF i.rframe > 0 THEN n * i.len + i.srclen + (n - 1 - i.rframe) * i.replen
    ELSE IF i.len > 0 THEN n * i.len + (n - 1 - i.frame) * (i.curr - i.from)
    ELSE 0

(* An extension within the data, of a frame of the packet. *)
InBounds(m, n, x) ==
    /\ IsExtension(x)
    /\ x.frame \in 0 .. n - 1 /\ x.id \in 3 .. 127
    /\ x.at \in 0 .. Len(m) /\ x.len \in 0 .. Len(m) - x.at

(* What a call returns when w bounds what is still to come. *)
Returned(m, n, w, r) ==
    /\ r.it \in Iterator
    /\ \/ r.ret = -4 /\ r.it.len < 0
       \/ r.ret = 0 /\ Sound(m, n, r.it) /\ Left(n, r.it) <= w
       \/ /\ r.ret = 1 /\ (Amid(m, n, r.it) \/ Sound(m, n, r.it))
          /\ Left(n, r.it) < w /\ InBounds(m, n, r.ext)

LEMMA Times ==
    ASSUME NEW n \in Nat, NEW a \in Nat, NEW b \in Nat, a <= b
    PROVE  n * a \in Nat /\ n * b \in Nat /\ n * a <= n * b
    OBVIOUS

LEMMA LeftAmid ==
    ASSUME NEW m, Octets(m), NEW n \in Nat, NEW i, Amid(m, n, i)
    PROVE  /\ Left(n, i) = n * i.len + i.srclen + (n - 1 - i.rframe) * i.replen
           /\ Left(n, i) \in Nat /\ n * i.len \in Nat /\ i.srclen \in Nat
           /\ (n - 1 - i.rframe) * i.replen \in Int
           /\ i.rframe = n => Left(n, i) = n * i.len
<1>1. /\ i \in Iterator /\ i.len \in Nat /\ i.rframe \in Nat /\ i.rframe > 0 /\ i.rframe <= n
      /\ i.srclen \in Int /\ i.replen \in Nat /\ i.from \in Nat /\ i.src \in Int
      /\ i.src + i.srclen = i.from + i.replen /\ (i.rframe = n => i.srclen = i.replen)
    BY RepeatingIs, IteratorIs DEF Amid
<1>2. i.srclen >= 0
    <2>1. PICK B : Region(m, i.from, i.from + i.replen, B) /\ i.src \in B
        BY DEF Amid
    <2>2. i.src \in i.from .. i.from + i.replen
        BY <2>1 DEF Region
    <2> QED BY <1>1, <2>2
<1> DEFINE x == n * i.len
           y == (n - 1 - i.rframe) * i.replen
<1>3. x \in Nat /\ y \in Int
    BY <1>1
<1>4. i.rframe = n => y = -i.replen
    BY <1>1
<1>5. i.rframe < n => y >= 0
    BY <1>1
<1>6. Left(n, i) = x + i.srclen + y
    BY <1>1 DEF Left
<1> HIDE DEF x, y
<1>7. Left(n, i) \in Nat /\ (i.rframe = n => Left(n, i) = x)
    BY <1>1, <1>2, <1>3, <1>4, <1>5, <1>6
<1>8. i.srclen \in Nat
    BY <1>1, <1>2
<1> QED BY <1>3, <1>6, <1>7, <1>8 DEF x, y

LEMMA LeftSound ==
    ASSUME NEW m, Octets(m), NEW n \in Nat, NEW i, Sound(m, n, i)
    PROVE  /\ i.len > 0 => Left(n, i) = n * i.len + (n - 1 - i.frame) * (i.curr - i.from)
           /\ i.len = 0 => Left(n, i) = 0
           /\ Left(n, i) \in Nat
<1>1. /\ i.len \in Nat /\ i.rframe = 0 /\ i.frame \in Nat /\ i.from \in Nat /\ i.curr \in Nat
      /\ i.from <= i.curr /\ (i.len > 0 => i.frame < n)
    BY ReadingIs, IteratorIs DEF Sound
<1>2. CASE i.len = 0
    BY <1>1, <1>2 DEF Left
<1>3. CASE i.len > 0
    <2>1. Left(n, i) = n * i.len + (n - 1 - i.frame) * (i.curr - i.from)
        BY <1>1, <1>3 DEF Left
    <2>2. n * i.len \in Nat
        BY <1>1
    <2>3. n - 1 - i.frame \in Nat /\ i.curr - i.from \in Nat
        BY <1>1, <1>3
    <2>4. (n - 1 - i.frame) * (i.curr - i.from) \in Nat
        BY <2>3
    <2> QED BY <1>3, <2>1, <2>2, <2>4
<1> QED BY <1>1, <1>2, <1>3

LEMMA EmptyRegion ==
    ASSUME NEW m, NEW a \in Nat
    PROVE  \E B : Region(m, a, a, B)
<1>1. Region(m, a, a, {a})
    BY DEF Region
<1> QED BY <1>1

(* Back behind the repeated extensions. *)
LEMMA AmidDone ==
    ASSUME NEW m, Octets(m), NEW n \in Nat, NEW i, Amid(m, n, i), i.rframe >= n,
           NEW j \in Iterator, IsRepeatDone(i, n, j)
    PROVE  Sound(m, n, j) /\ Left(n, j) <= Left(n, i)
<1>1. /\ i.len \in Nat /\ i.rframe = n /\ i.curr \in Nat /\ i.curr + i.len = Len(m)
      /\ i.frame \in Nat /\ i.frame < n /\ Len(m) \in Nat
    BY RepeatingIs, IteratorIs, LengthNat DEF Amid
<1>2. /\ j.rframe = 0 /\ j.from = i.curr /\ j.curr = i.curr
      /\ \/ j.frame = i.frame /\ j.len = i.len
         \/ i.frame + 1 < n /\ j.frame = i.frame + 1 /\ j.len = i.len
         \/ j.len = 0
    BY DEF IsRepeatDone
<1>3. j \in Reading(m)
    BY <1>1, <1>2, ReadingIs
<1>4. \E B : Region(m, j.from, j.curr, B)
    BY <1>1, <1>2, EmptyRegion
<1>5. Sound(m, n, j)
    BY <1>1, <1>2, <1>3, <1>4 DEF Sound
<1>6. Left(n, i) = n * i.len /\ Left(n, i) \in Nat
    BY <1>1, LeftAmid
<1>7. CASE j.len = 0
    BY <1>5, <1>6, <1>7, LeftSound
<1>8. CASE j.len > 0
    <2>1. Left(n, j) = n * j.len + (n - 1 - j.frame) * (j.curr - j.from)
        BY <1>5, <1>8, LeftSound
    <2>2. j.len = i.len /\ j.curr - j.from = 0 /\ n - 1 - j.frame \in Int
        BY <1>1, <1>2, <1>8
    <2>3. (n - 1 - j.frame) * (j.curr - j.from) = 0
        BY <2>2
    <2>4. Left(n, j) = n * i.len + 0
        BY <2>1, <2>2, <2>3
    <2> QED BY <1>5, <1>6, <2>4
<1> QED BY <1>1, <1>2, <1>5, <1>7, <1>8

(* The next frame. *)
LEMMA AmidNextFrame ==
    ASSUME NEW m, Octets(m), NEW n \in Nat, NEW i, Amid(m, n, i), i.rframe < n, i.srclen <= 0,
           NEW j \in Repeating(m), IsNextFrame(i, j)
    PROVE  Amid(m, n, j) /\ Left(n, j) <= Left(n, i)
<1>1. /\ i.len \in Nat /\ i.rframe \in Nat /\ i.rframe >= 1 /\ i.replen \in Nat
      /\ i.from \in Nat /\ i.srclen \in Int
    BY RepeatingIs, IteratorIs DEF Amid
<1>2. /\ j.rframe = i.rframe + 1 /\ j.src = i.from /\ j.srclen = i.replen
      /\ j.curr = i.curr /\ j.len = i.len /\ j.frame = i.frame /\ j.from = i.from
      /\ j.replen = i.replen
    BY DEF IsNextFrame
<1>3. Amid(m, n, j)
    <2>1. PICK B : Region(m, i.from, i.from + i.replen, B)
        BY DEF Amid
    <2>2. Region(m, j.from, j.from + j.replen, B) /\ j.src \in B
        BY <1>2, <2>1 DEF Region
    <2>3. j.rframe \in 1 .. n
        BY <1>1, <1>2
    <2> QED BY <1>2, <2>2, <2>3 DEF Amid
<1> DEFINE k == n - 1 - i.rframe
<1>4. k \in Nat /\ n - 1 - j.rframe = k - 1
    BY <1>1, <1>2
<1>5. /\ Left(n, i) = n * i.len + i.srclen + k * i.replen
      /\ i.srclen \in Nat /\ n * i.len \in Nat /\ Left(n, i) \in Nat
    BY LeftAmid
<1>6. Left(n, j) = n * j.len + j.srclen + (n - 1 - j.rframe) * j.replen
    BY <1>3, LeftAmid
<1> HIDE DEF k
<1>7. (k - 1) * i.replen = k * i.replen - i.replen /\ k * i.replen \in Nat
    BY <1>1, <1>4
<1> DEFINE x == n * i.len
           y == k * i.replen
<1>8. Left(n, i) = x + i.srclen + y /\ Left(n, j) = x + i.replen + (y - i.replen)
    BY <1>2, <1>4, <1>5, <1>6, <1>7
<1>9. x \in Nat /\ y \in Nat
    BY <1>5, <1>7
<1> HIDE DEF x, y
<1>10. i.srclen = 0
    BY <1>1, <1>5
<1> QED BY <1>1, <1>3, <1>8, <1>9, <1>10

(* An extension further in what is repeated, and in the data. *)
LEMMA AmidPast ==
    ASSUME NEW m, Octets(m), NEW n \in Nat, NEW i, Amid(m, n, i), i.rframe < n, i.srclen > 0,
           NEW s, s = Skip(m, i.src, i.srclen),
           NEW j \in Repeating(m), j.src = s.at, j.srclen = s.len,
           j.frame = i.frame, j.from = i.from, j.rframe = i.rframe, j.replen = i.replen,
           j.len \in 0 .. i.len, j.curr + j.len = Len(m)
    PROVE  /\ Amid(m, n, j) /\ Left(n, j) < Left(n, i)
           /\ IdOf(m[i.src + 1]) # 2
<1>1. /\ i.len \in Nat /\ i.rframe \in Nat /\ i.replen \in Nat /\ i.rframe \in 1 .. n
      /\ i.from \in Nat /\ i.srclen \in Nat /\ i.src \in Nat /\ i.frame < n
      /\ i.src + i.srclen = i.from + i.replen /\ i.curr \in Nat /\ i.from + i.replen <= i.curr
      /\ i.curr + i.len = Len(m) /\ Len(m) \in Nat
    <2>1. i \in Iterator /\ i.src >= 0 /\ i.from <= i.curr
        BY RepeatingIs DEF Amid
    <2>2. /\ i.len \in Int /\ i.rframe \in Nat /\ i.replen \in Nat /\ i.from \in Nat
          /\ i.srclen \in Int /\ i.src \in Int /\ i.curr \in Int
        BY <2>1, IteratorIs
    <2>3. i.len \in Nat /\ i.srclen \in Nat /\ i.src \in Nat /\ i.curr \in Nat
        BY <2>1, <2>2 DEF Amid
    <2> QED BY <2>2, <2>3, LengthNat DEF Amid
<1>2. SkipsOn(s, i.src, i.srclen)
    <2>1. i \in Repeating(m)
        BY DEF Amid
    <2> QED BY <2>1, SourceSkipped
<1>3. PICK B : Region(m, i.from, i.from + i.replen, B) /\ i.src \in B
    BY DEF Amid
<1>4. Whole(m, i.src, i.from + i.replen, B)
    <2>1. i.src < i.from + i.replen
        BY <1>1
    <2> QED BY <1>3, <2>1 DEF Region
<1>5. (i.from + i.replen) - i.src = i.srclen
    BY <1>1
<1>6. IdOf(m[i.src + 1]) # 2 /\ s.len >= 0 /\ s.at \in B
    BY <1>4, <1>5 DEF Whole
<1>7. s.len \in Nat /\ s.at \in Nat /\ s.len < i.srclen /\ s.at + s.len = i.from + i.replen
    <2>1. s.len # -1
        BY <1>6
    <2>2. /\ s.len \in Nat /\ s.at \in Nat /\ s.len < i.srclen
          /\ s.at + s.len = i.src + i.srclen
        BY <1>2, <2>1 DEF SkipsOn
    <2>3. i.src + i.srclen = i.from + i.replen
        BY <1>1
    <2> QED BY <2>2, <2>3
<1>8. j.curr \in Nat /\ j.len \in Nat /\ i.from + i.replen <= j.curr
    <2>1. j.curr \in Int
        BY RepeatingIs, IteratorIs
    <2> QED BY <1>1, <2>1
<1>9. Amid(m, n, j)
    <2>1. Region(m, j.from, j.from + j.replen, B) /\ j.src \in B
        BY <1>3, <1>6
    <2>2. j.src + j.srclen = j.from + j.replen /\ j.from + j.replen <= j.curr
        BY <1>7, <1>8
    <2>3. j.rframe \in 1 .. n /\ j.rframe # n /\ j.len >= 0 /\ j.frame < n
        BY <1>1
    <2> QED BY <2>1, <2>2, <2>3 DEF Amid
<1> DEFINE y == (n - 1 - i.rframe) * i.replen
           x == n * i.len
           z == n * j.len
<1>10. Left(n, i) = x + i.srclen + y /\ y \in Int
    BY LeftAmid
<1>11. Left(n, j) = z + s.len + y
    BY <1>9, LeftAmid
<1>12. x \in Nat /\ z \in Nat /\ z <= x
    <2>1. j.len <= i.len
        BY <1>1
    <2> QED BY <1>1, <1>8, <2>1, Times
<1> HIDE DEF x, y, z
<1> QED BY <1>1, <1>6, <1>7, <1>9, <1>10, <1>11, <1>12

(* An extension found within the data. *)
LEMMA FoundInBounds ==
    ASSUME NEW m, Octets(m), NEW n \in Nat, NEW r, NEW j, NEW id \in 3 .. 127,
           NEW f \in 0 .. n - 1, NEW c \in Nat, NEW h \in Nat, IsFound(r, j, id, f, c, h),
           j.curr \in Nat, j.curr <= Len(m), c + h <= j.curr
    PROVE  InBounds(m, n, r.ext)
<1>1. /\ r.ext.id = id /\ r.ext.frame = f /\ r.ext.at = c + h
      /\ r.ext.len = j.curr - c - h /\ IsExtension(r.ext)
    BY DEF IsFound
<1>2. Len(m) \in Nat
    BY LengthNat
<1>3. c + h \in 0 .. Len(m) /\ j.curr - c - h \in 0 .. Len(m) - (c + h)
    <2>1. c + h \in Nat
        OBVIOUS
    <2>2. j.curr - c - h = j.curr - (c + h)
        OBVIOUS
    <2> QED BY <1>2, <2>1, <2>2
<1>4. r.ext.at \in 0 .. Len(m) /\ r.ext.len \in 0 .. Len(m) - r.ext.at
    BY <1>1, <1>3
<1> QED BY <1>1, <1>4 DEF InBounds

(* What a pass does in the middle of a repeat. *)
AmidStep(m, n, i, r) ==
    /\ r.go => Amid(m, n, r.it) /\ Left(n, r.it) <= Left(n, i)
    /\ ~r.go => Returned(m, n, Left(n, i), r)

LEMMA AmidGoes ==
    ASSUME NEW m, Octets(m), NEW n \in Nat, NEW i, Amid(m, n, i)
    PROVE  AmidStep(m, n, i, RepeatPass(m, i, n))
<1>1. i \in Repeating(m) /\ i \in Iterator
    BY RepeatingIs DEF Amid
<1>2. /\ i.curr \in Nat /\ i.len \in Nat /\ i.frame \in Nat /\ i.from \in Nat
      /\ i.rframe \in Nat /\ i.srclen \in Int /\ i.replen \in Nat /\ Len(m) \in Nat
      /\ i.from <= i.curr /\ i.curr + i.len = Len(m)
    BY <1>1, RepeatingIs, IteratorIs, LengthNat DEF Amid
<1>3. CASE i.rframe >= n
    <2> DEFINE j == RepeatDone(i, n)
    <2>1. RepeatPass(m, i, n) = Ended(j)
        BY <1>1, <1>3, RepeatPassIs
    <2>2. j \in Iterator /\ IsRepeatDone(i, n, j)
        BY <1>1, <1>2, RepeatDoneIs
    <2> HIDE DEF j
    <2>3. ~Ended(j).go /\ Ended(j).it = j /\ Ended(j).ret = 0
        BY OutcomesAre
    <2>4. Sound(m, n, j) /\ Left(n, j) <= Left(n, i)
        BY <1>3, <2>2, AmidDone
    <2> QED BY <2>1, <2>2, <2>3, <2>4 DEF AmidStep, Returned
<1>4. CASE i.rframe < n /\ i.srclen <= 0
    <2> DEFINE j == NextFrame(i)
    <2>1. RepeatPass(m, i, n) = Onto(j)
        BY <1>1, <1>4, RepeatPassIs
    <2>2. IsNextFrame(i, j)
        BY <1>1, NextFrameIs
    <2> HIDE DEF j
    <2>3. Onto(j).go /\ Onto(j).it = j
        BY OutcomesAre
    <2>4. j \in Repeating(m)
        BY <1>1, <2>1, <2>3, RepeatGoes DEF RepeatStep
    <2>5. Amid(m, n, j) /\ Left(n, j) <= Left(n, i)
        BY <1>4, <2>2, <2>4, AmidNextFrame
    <2> QED BY <2>1, <2>3, <2>5 DEF AmidStep
<1>5. CASE i.rframe < n /\ i.srclen > 0
    <2> DEFINE s == Skip(m, i.src, i.srclen)
               b == m[i.src + 1]
               p == PayloadOf(m, i, n, s.at)
               past == PastSource(i, s.at, s.len)
               read == PastData(past, p.at, p.len)
               r == RepeatOutcome(i, n, b, s, p, past, read)
    <2>1. RepeatPass(m, i, n) = r
        <3>1. RepeatPass(m, i, n) = RepeatOne(m, i, n, s)
            BY <1>1, <1>5, RepeatPassIs
        <3>2. RepeatOne(m, i, n, s) = r
            BY RepeatOneIs, Zenon
        <3> QED BY <3>1, <3>2
    <2>2. /\ s.at \in Nat /\ s.len \in Int /\ s.len < i.srclen /\ s.at + s.len <= Len(m)
          /\ b \in 0 .. 255
        BY <1>1, <1>5, SourceSkipped
    <2>3. b > 3 => Skipped(p, i.curr, i.len)
        <3>1. b > 3 => (i.len >= 0 => Skipped(p, i.curr, i.len))
            BY <1>1, <2>2, RepeatedPayloadIs
        <3> HIDE DEF b, p
        <3> QED BY <1>2, <3>1
    <2>4. past \in Iterator /\ past.src = s.at /\ past.srclen = s.len /\ ButSource(i, past)
        <3> HIDE DEF s
        <3> QED BY <1>1, <2>2, PastIs
    <2>5. \A j \in Repeating(m) :
             j.src = s.at /\ j.srclen = s.len /\ j.frame = i.frame /\ j.from = i.from
               /\ j.rframe = i.rframe /\ j.replen = i.replen /\ j.len \in 0 .. i.len
               /\ j.curr + j.len = Len(m) =>
             Amid(m, n, j) /\ Left(n, j) < Left(n, i) /\ IdOf(b) # 2
        BY <1>5, AmidPast
    <2>10. Left(n, i) \in Nat /\ \A j : Amid(m, n, j) => Left(n, j) \in Nat
        BY LeftAmid
    <2>6. CASE b <= 3
        <3> HIDE DEF s, b, p, past, read
        <3>1. r = Onto(past)
            BY <2>6 DEF RepeatOutcome
        <3>2. r.go /\ r.it = past
            BY <3>1, OutcomesAre
        <3> HIDE DEF r
        <3>3. past \in Repeating(m)
            BY <1>1, <2>1, <3>2, RepeatGoes DEF RepeatStep
        <3>4. Amid(m, n, past) /\ Left(n, past) < Left(n, i)
            BY <1>2, <2>4, <2>5, <3>3 DEF ButSource
        <3>5. AmidStep(m, n, i, r)
            BY <2>10, <3>2, <3>4 DEF AmidStep
        <3> QED BY <2>1, <3>5
    <2>7. CASE b > 3 /\ p.len < 0
        <3> HIDE DEF s, b, p, past
        <3>1. p.len = -1 /\ p.at \in Nat
            BY <2>3, <2>7 DEF Skipped
        <3>2. read \in Iterator /\ read.len = -1
            BY <2>4, <3>1, PastDataIs
        <3> HIDE DEF read
        <3>3. r = Invalid(read)
            BY <2>2, <2>7 DEF RepeatOutcome
        <3>4. ~r.go /\ r.ret = -4 /\ r.it = read
            BY <3>3, OutcomesAre
        <3> HIDE DEF r
        <3>5. AmidStep(m, n, i, r)
            BY <3>2, <3>4 DEF AmidStep, Returned
        <3> QED BY <2>1, <3>5
    <2>8. CASE b > 3 /\ ~(p.len < 0)
        <3> HIDE DEF s, b, p, past
        <3>1. /\ p.len \in Nat /\ p.at \in Nat /\ p.at + p.len = i.curr + i.len /\ p.len <= i.len
              /\ p.hdr \in Nat /\ i.curr + p.hdr <= p.at
            <4>1. p.len # -1
                BY <2>8
            <4>2. /\ p.len \in Nat /\ p.hdr \in Nat /\ p.at \in Nat
                  /\ p.at + p.len = i.curr + i.len /\ i.curr + p.hdr <= p.at
                BY <2>3, <2>8, <4>1 DEF Skipped
            <4> DEFINE a == p.at
                       l == p.len
                       h == p.hdr
            <4>3. l \in Nat /\ h \in Nat /\ a \in Nat /\ a + l = i.curr + i.len /\ i.curr + h <= a
                BY <4>2
            <4> HIDE DEF a, l, h
            <4>4. l <= i.len
                BY <1>2, <4>3
            <4> QED BY <4>2, <4>4 DEF l
        <3>2. read \in Iterator /\ read.curr = p.at /\ read.len = p.len /\ ButData(past, read)
            BY <2>4, <3>1, PastDataIs
        <3> HIDE DEF read
        <3>3. read \in Repeating(m)
            <4>1. i.src >= 0 /\ i.from + i.replen <= Len(m)
                BY <1>1, RepeatingIs
            <4>2. /\ read.from = i.from /\ read.src = s.at /\ read.srclen = s.len
                  /\ read.replen = i.replen
                BY <2>4, <3>2 DEF ButData, ButSource
            <4>3. read.from <= read.curr /\ read.curr + read.len <= Len(m)
                <5> DEFINE a == p.at
                           l == p.len
                           h == p.hdr
                           c == read.curr
                           d == read.len
                           f == read.from
                <5>1. /\ a \in Nat /\ l \in Nat /\ h \in Nat /\ a + l = i.curr + i.len
                      /\ i.curr + h <= a /\ c = a /\ d = l /\ f = i.from
                    BY <3>1, <3>2, <4>2
                <5> HIDE DEF a, l, h, c, d, f
                <5>2. f <= c /\ c + d <= Len(m)
                    BY <1>2, <5>1
                <5> QED BY <5>2 DEF c, d, f
            <4>4. read.src >= 0 /\ read.src + read.srclen <= Len(m) /\ read.from + read.replen <= Len(m)
                BY <2>2, <4>1, <4>2
            <4> QED BY <3>2, <4>3, <4>4, RepeatingIs
        <3>4. Amid(m, n, read) /\ Left(n, read) < Left(n, i) /\ IdOf(b) # 2
            <4>1. /\ read.src = s.at /\ read.srclen = s.len /\ read.frame = i.frame
                  /\ read.from = i.from /\ read.rframe = i.rframe /\ read.replen = i.replen
                BY <2>4, <3>2 DEF ButData, ButSource
            <4>2. read.len \in 0 .. i.len /\ read.curr + read.len = Len(m)
                BY <1>2, <3>1, <3>2
            <4> QED BY <2>5, <3>3, <4>1, <4>2
        <3>5. CASE read.rframe >= read.fmax
            <4>1. r = Onto(read)
                BY <2>2, <2>8, <3>5 DEF RepeatOutcome
            <4>2. r.go /\ r.it = read
                BY <4>1, OutcomesAre
            <4> HIDE DEF r
            <4>3. AmidStep(m, n, i, r)
                BY <2>10, <3>4, <4>2 DEF AmidStep
            <4> QED BY <2>1, <4>3
        <3>6. CASE ~(read.rframe >= read.fmax)
            <4> DEFINE rid == RepeatedId(i, n, b, s.at)
            <4>1. r = Found(read, rid \div 2, read.rframe, i.curr, p.hdr)
                BY <2>2, <2>8, <3>6 DEF RepeatOutcome
            <4>2. IsFound(r, read, rid \div 2, read.rframe, i.curr, p.hdr)
                BY <4>1, FoundIs
            <4>3. IsRepeatedId(rid, b)
                BY <2>2, <2>8, RepeatedIdIs
            <4> HIDE DEF r, rid
            <4>4. rid \div 2 \in 3 .. 127
                <5>1. IdOf(rid) \in 2 .. 127 /\ IdOf(rid) # 2
                    BY <3>4, <4>3 DEF IsRepeatedId
                <5> QED BY <5>1 DEF IdOf
            <4>5. read.rframe \in 0 .. n - 1
                BY <1>2, <1>5, <2>4, <3>2 DEF ButData, ButSource
            <4>6. InBounds(m, n, r.ext)
                <5>1. p.at <= Len(m)
                    BY <1>2, <3>1
                <5> QED BY <1>2, <3>1, <3>2, <4>2, <4>4, <4>5, <5>1, FoundInBounds
            <4>7. AmidStep(m, n, i, r)
                BY <3>2, <3>4, <4>2, <4>6 DEF AmidStep, Returned, IsFound
            <4> QED BY <2>1, <4>7
        <3> QED BY <3>5, <3>6
    <2>9. b <= 3 \/ b > 3
        <3> HIDE DEF b
        <3> QED BY <2>2
    <2> HIDE DEF s, b, p, past, read, r
    <2> QED BY <2>6, <2>7, <2>8, <2>9
<1> QED BY <1>2, <1>3, <1>4, <1>5

(* The loop is its passes. *)
LEMMA NextRepeatIs ==
    ASSUME NEW m, Octets(m), NEW n \in Nat
    PROVE  \A i \in Repeating(m) :
              NextRepeat(m, i, n) =
                 IF RepeatPass(m, i, n).go THEN NextRepeat(m, RepeatPass(m, i, n).it, n)
                 ELSE RepeatPass(m, i, n)
<1> DEFINE S == Repeating(m)
           pass == [x \in S |-> RepeatPass(m, x, n)]
           w == [x \in S |-> RepeatWeight(m, n, x)]
           bound == n * (Len(m) + 1) + Len(m)
           f == CHOOSE g : g = [x \in S |-> LET on(r) == IF r.go THEN g[r.it] ELSE r
                                           IN on(RepeatPass(m, x, n))]
<1>1. \A i : NextRepeat(m, i, n) = f[i]
    BY Zenon DEF NextRepeat
<1>2. w \in [S -> Nat] /\ bound \in Nat /\ \A x \in S : w[x] <= bound
    <2>1. \A x \in S : RepeatWeight(m, n, x) \in Nat /\ RepeatWeight(m, n, x) <= bound
        BY WeightNat
    <2>2. bound \in Nat
        BY LengthNat
    <2> HIDE DEF S, bound
    <2> QED BY <2>1, <2>2
<1>3. \A x \in S : pass[x].go => pass[x].it \in S /\ w[pass[x].it] < w[x]
    <2> SUFFICES ASSUME NEW x \in S, pass[x].go PROVE pass[x].it \in S /\ w[pass[x].it] < w[x]
        OBVIOUS
    <2>1. RepeatStep(m, n, x, pass[x])
        BY RepeatGoes
    <2> HIDE DEF pass
    <2>2. pass[x].it \in S /\ RepeatWeight(m, n, pass[x].it) < RepeatWeight(m, n, x)
        BY <2>1 DEF RepeatStep
    <2> HIDE DEF S
    <2> QED BY <2>2
<1>4. \E g : g = [x \in S |-> IF pass[x].go THEN g[pass[x].it] ELSE pass[x]]
    <2> HIDE DEF S, pass, w, bound
    <2> QED BY <1>2, <1>3, LoopEnds
<1>5. \E g : g = [x \in S |-> LET on(r) == IF r.go THEN g[r.it] ELSE r IN on(RepeatPass(m, x, n))]
    <2>1. PICK g : g = [x \in S |-> IF pass[x].go THEN g[pass[x].it] ELSE pass[x]]
        BY <1>4
    <2>2. [x \in S |-> IF pass[x].go THEN g[pass[x].it] ELSE pass[x]] =
             [x \in S |-> LET on(r) == IF r.go THEN g[r.it] ELSE r IN on(RepeatPass(m, x, n))]
        <3> HIDE DEF S
        <3> QED OBVIOUS
    <2> QED BY <2>1, <2>2, Zenon
<1>6. f = [x \in S |-> LET on(r) == IF r.go THEN f[r.it] ELSE r IN on(RepeatPass(m, x, n))]
    <2> HIDE DEF S
    <2> QED BY <1>5, Zenon
<1> HIDE DEF f
<1> QED BY <1>1, <1>6, Zenon

(* A set that holds where the loop ends, and with each pass's outcome what *)
(* led to it, holds everything.                                            *)
LEMMA RepeatInduction ==
    ASSUME NEW m, Octets(m), NEW n \in Nat, NEW T,
           \A i \in Repeating(m) :
              (RepeatPass(m, i, n).go => RepeatPass(m, i, n).it \in T) => i \in T
    PROVE  Repeating(m) \subseteq T
<1> DEFINE G == {k \in Nat : \A i \in Repeating(m) : RepeatWeight(m, n, i) < k => i \in T}
<1>1. 0 \in G
    <2>1. \A i \in Repeating(m) : RepeatWeight(m, n, i) \in Nat
        BY WeightNat
    <2> QED BY <2>1
<1>2. ASSUME NEW k \in Nat, k \in G PROVE k + 1 \in G
    <2> SUFFICES ASSUME NEW i \in Repeating(m), RepeatWeight(m, n, i) < k + 1 PROVE i \in T
        OBVIOUS
    <2>1. RepeatWeight(m, n, i) \in Nat
        BY WeightNat
    <2>2. ASSUME RepeatPass(m, i, n).go PROVE RepeatPass(m, i, n).it \in T
        <3> DEFINE j == RepeatPass(m, i, n).it
        <3>1. j \in Repeating(m) /\ RepeatWeight(m, n, j) < RepeatWeight(m, n, i)
            BY <2>2, RepeatGoes DEF RepeatStep
        <3> HIDE DEF j
        <3>2. RepeatWeight(m, n, j) \in Nat
            BY <3>1, WeightNat
        <3>3. RepeatWeight(m, n, j) < k
            BY <2>1, <3>1, <3>2
        <3>4. j \in T
            BY <1>2, <3>1, <3>3
        <3> QED BY <3>4 DEF j
    <2> QED BY <2>2
<1>3. Nat \subseteq G
    <2> HIDE DEF G
    <2> QED BY <1>1, <1>2, ByNumbers
<1> SUFFICES ASSUME NEW i \in Repeating(m) PROVE i \in T
    OBVIOUS
<1>4. RepeatWeight(m, n, i) \in Nat
    BY WeightNat
<1>5. RepeatWeight(m, n, i) + 1 \in G
    <2> HIDE DEF G
    <2> QED BY <1>3, <1>4
<1>6. RepeatWeight(m, n, i) < RepeatWeight(m, n, i) + 1
    BY <1>4
<1> QED BY <1>5, <1>6

(* What the loop over repeats comes to. *)
Repeated(m, n, i, r) ==
    /\ ~r.go
    /\ r.ret = 0 => r.it.rframe = 0
    /\ i.len >= 0 /\ r.ret = 0 => r.it \in Reading(m) /\ r.it.len \in 0 .. i.len
    /\ ~(r.ret <= 0) => /\ r.it \in Repeating(m)
                        /\ RepeatWeight(m, n, r.it) < RepeatWeight(m, n, i)
                        /\ i.len >= 0 /\ r.it.len \in 0 .. i.len
    /\ Amid(m, n, i) => Returned(m, n, Left(n, i), r)

LEMMA ReturnedMore ==
    ASSUME NEW m, Octets(m), NEW n \in Nat, NEW v \in Nat, NEW w \in Nat, v <= w,
           NEW r, Returned(m, n, v, r)
    PROVE  Returned(m, n, w, r)
<1>1. (Amid(m, n, r.it) \/ Sound(m, n, r.it)) => Left(n, r.it) \in Nat
    BY LeftAmid, LeftSound
<1> QED BY <1>1 DEF Returned

LEMMA NextRepeatFacts ==
    ASSUME NEW m, Octets(m), NEW n \in Nat, NEW i0 \in Repeating(m)
    PROVE  Repeated(m, n, i0, NextRepeat(m, i0, n))
<1> DEFINE T == {i \in Repeating(m) : Repeated(m, n, i, NextRepeat(m, i, n))}
<1>1. ASSUME NEW i \in Repeating(m),
             RepeatPass(m, i, n).go => RepeatPass(m, i, n).it \in T
      PROVE  i \in T
    <2> DEFINE r == RepeatPass(m, i, n)
               z == NextRepeat(m, i, n)
               y == NextRepeat(m, r.it, n)
    <2>1. z = IF r.go THEN y ELSE r
        BY NextRepeatIs
    <2>2. RepeatStep(m, n, i, r)
        BY RepeatGoes
    <2>3. Amid(m, n, i) => AmidStep(m, n, i, r)
        BY AmidGoes
    <2>4. r.go => Repeated(m, n, r.it, y)
        BY <1>1
    <2>5. i.len \in Int
        BY RepeatingIs, IteratorIs
    <2>6. Amid(m, n, i) => Left(n, i) \in Nat
        BY LeftAmid
    <2>7. Amid(m, n, r.it) => Left(n, r.it) \in Nat
        BY LeftAmid
    <2>8. ASSUME Amid(m, n, r.it), Left(n, r.it) <= Left(n, i), Left(n, i) \in Nat,
                 Returned(m, n, Left(n, r.it), y)
          PROVE  Returned(m, n, Left(n, i), y)
        BY <2>7, <2>8, ReturnedMore
    <2>9. Repeated(m, n, i, z)
        <3> HIDE DEF r, z, y
        <3>1. CASE ~r.go
            BY <2>1, <2>2, <2>3, <3>1 DEF RepeatStep, AmidStep, Repeated
        <3>2. CASE r.go
            <4>1. z = y /\ Repeated(m, n, r.it, y)
                BY <2>1, <2>4, <3>2
            <4>2. i.len >= 0 => r.it.len \in 0 .. i.len
                BY <2>2, <3>2 DEF RepeatStep
            <4>3. i.len >= 0 /\ z.ret = 0 => z.it \in Reading(m) /\ z.it.len \in 0 .. i.len
                BY <2>5, <4>1, <4>2 DEF Repeated
            <4>4. Amid(m, n, i) => Returned(m, n, Left(n, i), z)
                BY <2>3, <2>6, <2>8, <3>2, <4>1 DEF AmidStep, Repeated
            <4>5. ASSUME ~(z.ret <= 0)
                  PROVE  /\ z.it \in Repeating(m)
                         /\ RepeatWeight(m, n, z.it) < RepeatWeight(m, n, i)
                         /\ i.len >= 0 /\ z.it.len \in 0 .. i.len
                <5>1. /\ z.it \in Repeating(m)
                      /\ RepeatWeight(m, n, z.it) < RepeatWeight(m, n, r.it)
                      /\ r.it.len >= 0 /\ z.it.len \in 0 .. r.it.len
                    BY <4>1, <4>5 DEF Repeated
                <5>2. /\ r.it \in Repeating(m)
                      /\ RepeatWeight(m, n, r.it) < RepeatWeight(m, n, i)
                      /\ i.len < 0 => r.it.len < 0
                    BY <2>2, <3>2 DEF RepeatStep
                <5>3. /\ RepeatWeight(m, n, z.it) \in Nat /\ RepeatWeight(m, n, r.it) \in Nat
                      /\ RepeatWeight(m, n, i) \in Nat
                    BY <5>1, <5>2, WeightNat
                <5>4. r.it.len \in Int
                    BY <5>2, RepeatingIs, IteratorIs
                <5> QED BY <2>5, <4>2, <5>1, <5>2, <5>3, <5>4
            <4> QED BY <4>1, <4>3, <4>4, <4>5 DEF Repeated
        <3> QED BY <3>1, <3>2
    <2> QED BY <2>9
<1>2. Repeating(m) \subseteq T
    <2> HIDE DEF T
    <2> QED BY <1>1, RepeatInduction
<1> QED BY <1>2

-----------------------------------------------------------------------------
(* One pass over the data. *)

(* The extension at curr. *)
IdAt(m, i) == m[i.curr + 1]

(* By how many frames a separator moves. *)
MovesBy(m, i) == IF IdAt(m, i) % 2 = 0 THEN 1 ELSE m[i.curr + 2]

Moved(i, s, k) == [PastData(i, s.at, s.len) EXCEPT !.frame = @ + k]

Separated(i, s, k) ==
    [Moved(i, s, k) EXCEPT !.len = IF Moved(i, s, k).frame >= i.fmax THEN 0 ELSE @,
                           !.from = s.at, !.long = -1, !.trailing = 0]

Indicated(i, s, l) ==
    [PastData(i, s.at, s.len) EXCEPT
        !.L = l, !.rframe = i.frame + 1, !.replen = i.curr - i.from,
        !.src = i.from, !.srclen = i.curr - i.from]

Seen(i, s, id, l) ==
    IF id >= 32 THEN [PastData(i, s.at, s.len) EXCEPT !.long = s.at, !.trailing = 0]
                ELSE [PastData(i, s.at, s.len) EXCEPT !.trailing = @ + l]

AfterRepeat(r) == IF r.ret # 0 THEN r ELSE Onto(r.it)

(* ReadOne, by its outcomes. *)
ReadOutcomes(m, i, n, s, id, l, k, r) ==
    /\ s.len < 0 => r = Invalid(PastData(i, s.at, s.len))
    /\ ~(s.len < 0) /\ (id = 0 \/ (id = 1 /\ k = 0)) => r = Onto(PastData(i, s.at, s.len))
    /\ ~(s.len < 0) /\ id = 1 /\ k # 0 /\ Moved(i, s, k).frame >= n =>
          r = Invalid([Moved(i, s, k) EXCEPT !.len = -1])
    /\ ~(s.len < 0) /\ id = 1 /\ k # 0 /\ ~(Moved(i, s, k).frame >= n) =>
          r = Onto(Separated(i, s, k))
    /\ ~(s.len < 0) /\ id = 2 => r = AfterRepeat(NextRepeat(m, Indicated(i, s, l), n))
    /\ ~(s.len < 0) /\ id > 2 => r = Found(Seen(i, s, id, l), id, i.frame, i.curr, s.hdr)

LEMMA ReadOneIs ==
    ASSUME NEW m, NEW i, NEW n, NEW s, IdOf(IdAt(m, i)) \in 0 .. 127
    PROVE  ReadOutcomes(m, i, n, s, IdOf(IdAt(m, i)), FlagOf(IdAt(m, i)), MovesBy(m, i),
                        ReadOne(m, i, n, s))
<1> DEFINE id == IdOf(IdAt(m, i))
           l == FlagOf(IdAt(m, i))
           k == MovesBy(m, i)
           stop == Invalid([Moved(i, s, k) EXCEPT !.len = -1])
           rep == AfterRepeat(NextRepeat(m, Indicated(i, s, l), n))
           seen == Found(Seen(i, s, id, l), id, i.frame, i.curr, s.hdr)
           read == PastData(i, s.at, s.len)
<1>1. ReadOne(m, i, n, s) =
         IF s.len < 0 THEN Invalid(read)
         ELSE CASE id = 0 -> Onto(read)
                [] id = 1 -> IF k = 0 THEN Onto(read)
                             ELSE IF Moved(i, s, k).frame >= n THEN stop
                             ELSE Onto(Separated(i, s, k))
                [] id = 2 -> rep
                [] id > 2 -> seen
    BY Zenon DEF ReadOne, IdOf, FlagOf, IdAt, MovesBy, Moved, Separated, Indicated, Seen,
                 AfterRepeat, PastData
<1> DEFINE mf == Moved(i, s, k).frame >= n
           sep == Onto(Separated(i, s, k))
           inv == Invalid(read)
           on == Onto(read)
           neg == s.len < 0
           res == ReadOne(m, i, n, s)
<1>2. id \in 0 .. 127
    OBVIOUS
<1>3. res = IF neg THEN inv
            ELSE CASE id = 0 -> on
                   [] id = 1 -> IF k = 0 THEN on ELSE IF mf THEN stop ELSE sep
                   [] id = 2 -> rep
                   [] id > 2 -> seen
    BY <1>1
<1> HIDE DEF id, l, k, stop, rep, seen, read, mf, sep, inv, on, neg, res
<1>4. /\ neg => res = inv
      /\ ~neg /\ (id = 0 \/ (id = 1 /\ k = 0)) => res = on
      /\ ~neg /\ id = 1 /\ k # 0 /\ mf => res = stop
      /\ ~neg /\ id = 1 /\ k # 0 /\ ~mf => res = sep
      /\ ~neg /\ id = 2 => res = rep
      /\ ~neg /\ id > 2 => res = seen
    BY <1>2, <1>3
<1> USE DEF id, l, k, stop, rep, seen, read, mf, sep, inv, on, neg, res
<1> QED BY <1>4, Zenon DEF ReadOutcomes

(* The iterator behind the extension at curr. *)
IsMoved(i, s, k, j) ==
    /\ j \in Iterator /\ j.frame = i.frame + k /\ j.curr = s.at /\ j.len = s.len
    /\ j.rframe = i.rframe

IsCut(j) == j \in Iterator /\ j.len = -1

LEMMA MovedIs ==
    ASSUME NEW i \in Iterator, NEW s, s.at \in Nat, s.len \in Nat, NEW k \in Nat
    PROVE  /\ IsMoved(i, s, k, Moved(i, s, k))
           /\ IsCut([Moved(i, s, k) EXCEPT !.len = -1])
<1> DEFINE read == PastData(i, s.at, s.len)
<1>1. /\ read \in Iterator /\ read.curr = s.at /\ read.len = s.len /\ read.frame = i.frame
      /\ read.rframe = i.rframe
    BY PastDataIs DEF ButData
<1> HIDE DEF read
<1>2. read.frame \in Nat /\ read.frame + k \in Nat
    BY <1>1, IteratorIs
<1> DEFINE j == [read EXCEPT !.frame = @ + k]
<1>3. j \in Iterator
    BY <1>1, <1>2 DEF Iterator
<1>4. j.frame = i.frame + k /\ j.curr = s.at /\ j.len = s.len /\ j.rframe = i.rframe
    BY <1>1, <1>2 DEF Iterator
<1>5. Moved(i, s, k) = j
    BY DEF Moved, read
<1> HIDE DEF j
<1>6. IsCut([j EXCEPT !.len = -1])
    BY <1>3 DEF Iterator, IsCut
<1>7. IsMoved(i, s, k, j)
    BY <1>3, <1>4 DEF IsMoved
<1> QED BY <1>5, <1>6, <1>7

IsSeparated(i, s, k, j) ==
    /\ j \in Iterator /\ j.curr = s.at /\ j.from = s.at /\ j.frame = i.frame + k
    /\ j.rframe = i.rframe /\ j.len \in {0, s.len}

LEMMA SeparatedIs ==
    ASSUME NEW i \in Iterator, NEW s, s.at \in Nat, s.len \in Nat, NEW k \in Nat
    PROVE  IsSeparated(i, s, k, Separated(i, s, k))
<1> DEFINE mv == Moved(i, s, k)
           ln == IF mv.frame >= i.fmax THEN 0 ELSE mv.len
           j == [mv EXCEPT !.len = ln, !.from = s.at, !.long = -1, !.trailing = 0]
<1>1. /\ mv \in Iterator /\ mv.frame = i.frame + k /\ mv.curr = s.at /\ mv.len = s.len
      /\ mv.rframe = i.rframe
    BY MovedIs DEF IsMoved
<1>2. Separated(i, s, k) = j
    BY DEF Separated
<1> HIDE DEF mv
<1>3. ln \in Int /\ ln \in {0, s.len} /\ -1 \in Int /\ 0 \in Nat
    BY <1>1
<1> HIDE DEF ln
<1>4. j \in Iterator
    BY <1>1, <1>3 DEF Iterator
<1>5. j.len = ln /\ j.from = s.at /\ j.frame = mv.frame /\ j.curr = mv.curr /\ j.rframe = mv.rframe
    BY <1>1, <1>3 DEF Iterator
<1> HIDE DEF j
<1> QED BY <1>1, <1>2, <1>3, <1>4, <1>5 DEF IsSeparated

IsIndicated(i, s, j) ==
    /\ j \in Iterator /\ j.curr = s.at /\ j.len = s.len /\ j.frame = i.frame /\ j.from = i.from
    /\ j.rframe = i.frame + 1 /\ j.replen = i.curr - i.from
    /\ j.src = i.from /\ j.srclen = i.curr - i.from

LEMMA IndicatedIs ==
    ASSUME NEW i \in Iterator, i.from <= i.curr, NEW s, s.at \in Nat, s.len \in Nat, NEW l \in Int
    PROVE  IsIndicated(i, s, Indicated(i, s, l))
<1> DEFINE read == PastData(i, s.at, s.len)
           d == i.curr - i.from
           j == [read EXCEPT !.L = l, !.rframe = i.frame + 1, !.replen = d,
                             !.src = i.from, !.srclen = d]
<1>1. /\ read \in Iterator /\ read.curr = s.at /\ read.len = s.len /\ read.frame = i.frame
      /\ read.from = i.from
    BY PastDataIs DEF ButData
<1>2. i.frame + 1 \in Nat /\ d \in Nat /\ i.from \in Nat
    BY IteratorIs
<1>3. Indicated(i, s, l) = j
    BY DEF Indicated
<1> HIDE DEF read
<1>4. j \in Iterator
    <2> DEFINE f == i.frame + 1
               a == i.from
    <2>1. f \in Nat /\ d \in Nat /\ d \in Int /\ a \in Int
        BY <1>2
    <2> HIDE DEF d, f, a
    <2>2. [read EXCEPT !.L = l, !.rframe = f, !.replen = d, !.src = a, !.srclen = d] \in Iterator
        BY <1>1, <2>1 DEF Iterator
    <2> QED BY <2>2 DEF f, a
<1>5. /\ j.rframe = i.frame + 1 /\ j.replen = d /\ j.src = i.from /\ j.srclen = d
      /\ j.curr = read.curr /\ j.len = read.len /\ j.frame = read.frame /\ j.from = read.from
    <2> HIDE DEF d
    <2> QED BY <1>1, <1>2 DEF Iterator
<1> HIDE DEF j
<1> QED BY <1>1, <1>3, <1>4, <1>5 DEF IsIndicated

(* Only the position in the data has moved, and what a repeat would need. *)
IsRead(i, s, j) ==
    /\ j \in Iterator /\ j.curr = s.at /\ j.len = s.len /\ j.frame = i.frame /\ j.from = i.from
    /\ j.rframe = i.rframe

LEMMA ReadIs ==
    ASSUME NEW i \in Iterator, NEW s, s.at \in Int, s.len \in Int
    PROVE  IsRead(i, s, PastData(i, s.at, s.len))
    BY PastDataIs DEF ButData, IsRead

LEMMA SeenIs ==
    ASSUME NEW i \in Iterator, NEW s, s.at \in Nat, s.len \in Nat, NEW id \in Nat, NEW l \in Nat
    PROVE  IsRead(i, s, Seen(i, s, id, l))
<1> DEFINE read == PastData(i, s.at, s.len)
<1>1. IsRead(i, s, read)
    BY ReadIs
<1>2. Seen(i, s, id, l) = IF id >= 32 THEN [read EXCEPT !.long = s.at, !.trailing = 0]
                                      ELSE [read EXCEPT !.trailing = @ + l]
    BY DEF Seen
<1> HIDE DEF read
<1>3. read \in Iterator /\ read.trailing \in Nat
    BY <1>1, IteratorIs DEF IsRead
<1>4. IsRead(i, s, [read EXCEPT !.long = s.at, !.trailing = 0])
    <2> DEFINE a == s.at
               j == [read EXCEPT !.long = a, !.trailing = 0]
    <2>0. a \in Int /\ 0 \in Nat
        OBVIOUS
    <2> HIDE DEF a
    <2>1. j \in Iterator
        BY <1>3, <2>0 DEF Iterator
    <2>2. /\ j.curr = read.curr /\ j.len = read.len /\ j.frame = read.frame
          /\ j.from = read.from /\ j.rframe = read.rframe
        BY <1>3 DEF Iterator
    <2> HIDE DEF j
    <2>3. IsRead(i, s, j)
        BY <1>1, <2>1, <2>2 DEF IsRead
    <2> QED BY <2>3 DEF j, a
<1>5. IsRead(i, s, [read EXCEPT !.trailing = @ + l])
    <2> DEFINE j == [read EXCEPT !.trailing = @ + l]
    <2>0. read.trailing + l \in Nat
        BY <1>3
    <2>1. j \in Iterator
        BY <1>3, <2>0 DEF Iterator
    <2>2. /\ j.curr = read.curr /\ j.len = read.len /\ j.frame = read.frame
          /\ j.from = read.from /\ j.rframe = read.rframe
        BY <1>3 DEF Iterator
    <2> HIDE DEF j
    <2>3. IsRead(i, s, j)
        BY <1>1, <2>1, <2>2 DEF IsRead
    <2> QED BY <2>3 DEF j
<1> QED BY <1>2, <1>4, <1>5

(* The extension at curr, skipped. *)
LEMMA DataSkipped ==
    ASSUME NEW m, Octets(m), NEW i \in Reading(m), i.len > 0, NEW s, s = Skip(m, i.curr, i.len)
    PROVE  /\ SkipsOn(s, i.curr, i.len)
           /\ s.at \in Nat /\ s.len \in Int
           /\ IdAt(m, i) \in 0 .. 255 /\ i.curr \in Nat /\ i.len \in Nat
           /\ i.curr + i.len <= Len(m)
<1>1. /\ i.curr \in Nat /\ i.len \in Nat /\ i.len >= 1 /\ i.curr + i.len <= Len(m)
      /\ Len(m) \in Nat /\ i.curr < Len(m)
    BY ReadingIs, IteratorIs, LengthNat
<1>2. SkipsOn(s, i.curr, i.len)
    BY <1>1, SkipFacts
<1>3. IdAt(m, i) \in 0 .. 255
    BY <1>1, OctetAt DEF IdAt
<1>4. s.at \in Nat /\ s.len \in Int
    BY <1>1, <1>2 DEF SkipsOn
<1> QED BY <1>1, <1>2, <1>3, <1>4

(* A separator with its number of frames has a byte for it. *)
LEMMA SeparatorMoves ==
    ASSUME NEW m, Octets(m), NEW i \in Reading(m), i.len > 0, Skip(m, i.curr, i.len).len >= 0,
           IdOf(IdAt(m, i)) = 1
    PROVE  MovesBy(m, i) \in Nat
<1>1. /\ IdAt(m, i) \in 0 .. 255 /\ i.curr \in Nat /\ i.len \in Nat
      /\ i.curr + i.len <= Len(m)
    BY DataSkipped
<1>2. CASE FlagOf(IdAt(m, i)) = 0
    BY <1>2 DEF MovesBy, FlagOf
<1>3. CASE FlagOf(IdAt(m, i)) = 1
    <2> DEFINE p == SkipPayload(m, i.curr + 1, i.len - 1, m[i.curr + 1], 0)
    <2>1. Skip(m, i.curr, i.len) = IF p.len < 0 THEN [at |-> i.curr, len |-> -1, hdr |-> 0]
                                   ELSE [at |-> p.at, len |-> p.len, hdr |-> p.hdr + 1]
        <3>1. i.len >= 1
            BY <1>1
        <3> QED BY <1>1, <3>1, SkipIs
    <2>2. Short(IdAt(m, i))
        BY DEF Short
    <2>3. IsShort(p, i.curr + 1, i.len - 1, IdAt(m, i))
        <3>1. i.curr + 1 \in Nat /\ i.len - 1 \in Nat /\ 0 \in Nat
            BY <1>1
        <3> QED BY <1>1, <2>2, <3>1, PayloadShort DEF IdAt
    <2> HIDE DEF p
    <2>4. ~(p.len < 0)
        BY <2>1
    <2>5. ~(i.len - 1 < FlagOf(IdAt(m, i)))
        BY <2>3, <2>4 DEF IsShort
    <2>6. i.len >= 2
        BY <1>1, <1>3, <2>5
    <2>7. m[(i.curr + 1) + 1] \in 0 .. 255
        <3>1. i.curr + 1 \in Nat /\ i.curr + 1 < Len(m)
            BY <1>1, <2>6, LengthNat
        <3> QED BY <3>1, OctetAt
    <2>8. (i.curr + 1) + 1 = i.curr + 2
        BY <1>1
    <2> QED BY <2>7, <2>8 DEF MovesBy
<1>4. FlagOf(IdAt(m, i)) \in 0 .. 1
    BY <1>1, IdAndFlag
<1> QED BY <1>2, <1>3, <1>4

(* An extension that fits adds to those that could be repeated. *)
LEMMA RegionGrows ==
    ASSUME NEW m, Octets(m), NEW a \in Nat, NEW c \in Nat, NEW len \in Nat, len > 0,
           c + len <= Len(m), NEW B, Region(m, a, c, B), NEW s, s = Skip(m, c, len),
           s.len >= 0, Delimited(m[c + 1]), IdOf(m[c + 1]) # 2
    PROVE  Region(m, a, s.at, B \cup {s.at})
<1>1. /\ s.len \in Nat /\ s.at \in Nat /\ s.len < len /\ s.at + s.len = c + len /\ c < s.at
      /\ Len(m) \in Nat
    <2>1. SkipsOn(s, c, len)
        BY SkipFacts
    <2> QED BY <2>1, LengthNat DEF SkipsOn
<1> DEFINE D == B \cup {s.at}
<1>2. a \in B /\ B \subseteq a .. c
    BY DEF Region
<1>3. a \in D /\ D \subseteq a .. s.at
    <2>1. a <= c /\ c <= s.at
        BY <1>1, <1>2
    <2>2. \A x \in B : x \in Nat /\ a <= x /\ x <= s.at
        BY <1>1, <1>2, <2>1
    <2>3. s.at \in a .. s.at
        BY <1>1, <2>1
    <2>4. \A x \in B : x \in a .. s.at
        BY <1>1, <2>2
    <2> QED BY <1>2, <2>3, <2>4, Zenon
<1>4. ASSUME NEW b \in D, b < s.at PROVE Whole(m, b, s.at, D)
    <2>1. b \in B /\ b \in Nat /\ b <= c /\ a <= b
        BY <1>1, <1>2, <1>4
    <2>2. CASE b = c
        <3> DEFINE l == s.at - c
        <3>1. l \in Nat /\ l >= 1 /\ c + l <= Len(m) /\ l >= len - s.len /\ len >= 1
            BY <1>1
        <3> HIDE DEF l
        <3>2. /\ Skip(m, c, l).at = s.at /\ Skip(m, c, l).len = l - (len - s.len)
            BY <3>1, SkipSame
        <3>3. Skip(m, c, l).len >= 0
            BY <1>1, <3>1, <3>2
        <3> QED BY <2>2, <3>2, <3>3 DEF Whole, l
    <2>3. CASE b < c
        <3>1. Whole(m, b, c, B)
            BY <2>1, <2>3 DEF Region
        <3> DEFINE k == c - b
                   l == s.at - b
                   t == Skip(m, b, k)
        <3>2. /\ Delimited(m[b + 1]) /\ IdOf(m[b + 1]) # 2 /\ t.len >= 0 /\ t.at \in B
            BY <3>1 DEF Whole
        <3>3. /\ k \in Nat /\ k >= 1 /\ b + k <= Len(m) /\ l \in Nat /\ l >= 1
              /\ b + l <= Len(m) /\ l >= k
            <4>1. s.at <= Len(m) /\ c <= Len(m)
                BY <1>1
            <4>2. k \in Nat /\ k >= 1 /\ b + k = c
                BY <2>1, <2>3
            <4>3. l \in Nat /\ l >= k /\ b + l = s.at
                BY <1>1, <2>1, <2>3
            <4> QED BY <4>1, <4>2, <4>3
        <3> HIDE DEF k, l
        <3>4. t.len \in Nat
            <4>1. SkipsOn(t, b, k)
                BY <2>1, <3>3, SkipFacts
            <4> QED BY <3>2, <4>1 DEF SkipsOn
        <3>5. l >= k - t.len
            BY <3>3, <3>4
        <3>6. Skip(m, b, l).at = t.at /\ Skip(m, b, l).len = l - (k - t.len)
            BY <2>1, <3>2, <3>3, <3>5, SkipSame
        <3>7. Skip(m, b, l).len >= 0
            BY <3>3, <3>4, <3>6
        <3> QED BY <3>2, <3>6, <3>7 DEF Whole, l
    <2> QED BY <1>1, <2>1, <2>2, <2>3
<1> HIDE DEF D
<1>5. Region(m, a, s.at, D)
    BY <1>3, <1>4 DEF Region
<1> QED BY <1>5 DEF D

(* What has no length takes everything. *)
LEMMA OpenTakesAll ==
    ASSUME NEW m, Octets(m), NEW at \in Nat, NEW len \in Nat, len > 0, at + len <= Len(m),
           Open(m[at + 1])
    PROVE  Skip(m, at, len).len = 0
<1> DEFINE b == m[at + 1]
           p == SkipPayload(m, at + 1, len - 1, b, 0)
<1>1. b \in 0 .. 255
    <2>1. at < Len(m)
        BY LengthNat
    <2> QED BY <2>1, OctetAt
<1>2. Skip(m, at, len) = IF p.len < 0 THEN [at |-> at, len |-> -1, hdr |-> 0]
                         ELSE [at |-> p.at, len |-> p.len, hdr |-> p.hdr + 1]
    <2>1. len >= 1
        OBVIOUS
    <2> QED BY <2>1, SkipIs
<1>3. IsOpen(p, at + 1, len - 1, 0)
    <2>1. at + 1 \in Nat /\ len - 1 \in Nat /\ 0 \in Nat /\ Open(b)
        OBVIOUS
    <2> HIDE DEF b
    <2> QED BY <1>1, <2>1, PayloadOpen
<1> HIDE DEF p
<1>4. p.len = 0
    BY <1>3 DEF IsOpen
<1> QED BY <1>2, <1>4

ReadWeight(i) == IF i.len > 0 THEN i.len ELSE 0

(* What a pass does wherever the iterator is: it ends at the end of the    *)
(* data only, and what it finds is behind where it was.                    *)
ReadStep(m, i, r) ==
    /\ r.go => r.it \in Reading(m) /\ ReadWeight(r.it) < ReadWeight(i)
    /\ ~r.go /\ r.ret = 0 => r.it.len <= 0 /\ r.it.rframe = i.rframe
    /\ i.rframe = 0 => /\ r.go => r.it.rframe = 0
                       /\ ~(r.ret <= 0) => /\ r.it \in Callable(m) /\ r.it.len >= 0
                                           /\ ReadWeight(r.it) < ReadWeight(i)

SoundStep(m, n, i, r) ==
    /\ r.go => Sound(m, n, r.it) /\ Left(n, r.it) <= Left(n, i)
    /\ ~r.go => Returned(m, n, Left(n, i), r)

(* Behind an extension that is not a separator or a repeat indicator. *)
LEMMA ReadSound ==
    ASSUME NEW m, Octets(m), NEW n \in Nat, NEW i, i.len > 0, NEW s, s = Skip(m, i.curr, i.len),
           s.len >= 0, IdOf(IdAt(m, i)) # 2, NEW j, IsRead(i, s, j), i \in Reading(m)
    PROVE  /\ j \in Reading(m) /\ ReadWeight(j) < ReadWeight(i)
           /\ Sound(m, n, i) => Sound(m, n, j) /\ Left(n, j) < Left(n, i)
<1>1. /\ i.curr \in Nat /\ i.len \in Nat /\ i.from \in Nat /\ i.frame \in Nat
      /\ i.from <= i.curr /\ i.curr + i.len <= Len(m) /\ Len(m) \in Nat
    BY ReadingIs, IteratorIs, LengthNat
<1>2. /\ s.len \in Nat /\ s.at \in Nat /\ s.len < i.len /\ s.at + s.len = i.curr + i.len
      /\ i.curr < s.at
    <2>1. SkipsOn(s, i.curr, i.len)
        BY DataSkipped
    <2> QED BY <1>1, <2>1 DEF SkipsOn
<1>3. /\ j \in Iterator /\ j.curr = s.at /\ j.len = s.len /\ j.frame = i.frame /\ j.from = i.from
      /\ j.rframe = i.rframe
    BY DEF IsRead
<1>4. j \in Reading(m)
    BY <1>1, <1>2, <1>3, ReadingIs
<1>5. ReadWeight(j) < ReadWeight(i)
    BY <1>1, <1>2, <1>3 DEF ReadWeight
<1>6. ASSUME Sound(m, n, i) PROVE Sound(m, n, j) /\ Left(n, j) < Left(n, i)
    <2>1. i.rframe = 0 /\ i.curr + i.len = Len(m) /\ i.frame < n
        BY <1>6 DEF Sound
    <2>2. PICK B : Region(m, i.from, i.curr, B)
        BY <1>6 DEF Sound
    <2>3. s.len > 0 => Region(m, i.from, s.at, B \cup {s.at})
        <3> SUFFICES ASSUME s.len > 0 PROVE Region(m, i.from, s.at, B \cup {s.at})
            OBVIOUS
        <3>1. Delimited(m[i.curr + 1])
            <4>1. Open(m[i.curr + 1]) => Skip(m, i.curr, i.len).len = 0
                BY <1>1, OpenTakesAll
            <4> QED BY <4>1 DEF Delimited
        <3>2. IdOf(m[i.curr + 1]) # 2
            BY DEF IdAt
        <3> QED BY <1>1, <2>2, <3>1, <3>2, RegionGrows
    <2>4. Sound(m, n, j)
        BY <1>2, <1>3, <1>4, <2>1, <2>3 DEF Sound
    <2> DEFINE g == n - 1 - i.frame
               c == i.curr - i.from
               d == s.at - i.curr
               x == n * s.len
               y == g * c
    <2>5. /\ g \in Nat /\ g < n /\ c \in Nat /\ d \in Nat /\ d >= 1 /\ i.len = s.len + d
          /\ s.at - i.from = c + d
        <3>1. g \in Nat /\ g < n
            BY <1>1, <2>1
        <3>2. c \in Nat
            BY <1>1
        <3>3. d \in Nat /\ d >= 1 /\ i.len = s.len + d
            BY <1>1, <1>2
        <3>4. s.at - i.from = c + d
            BY <1>1, <1>2
        <3> QED BY <3>1, <3>2, <3>3, <3>4
    <2>6. Left(n, i) = n * i.len + g * c
        BY <1>6, LeftSound
    <2>7. s.len > 0 => Left(n, j) = n * s.len + g * (s.at - i.from)
        BY <1>3, <2>4, LeftSound
    <2>8. s.len = 0 => Left(n, j) = 0
        BY <1>3, <2>4, LeftSound
    <2> HIDE DEF g, c, d
    <2>9. n * (s.len + d) = n * s.len + n * d /\ g * (c + d) = g * c + g * d
        BY <1>2, <2>5
    <2>10. g * d < n * d /\ g * d \in Nat /\ n * d \in Nat
        <3>1. g + 1 <= n /\ g + 1 \in Nat
            BY <2>5
        <3>2. d * (g + 1) <= d * n
            BY <2>5, <3>1, Times
        <3>3. d * (g + 1) = g * d + d /\ d * n = n * d /\ g * d \in Nat /\ n * d \in Nat
            BY <2>5
        <3> QED BY <2>5, <3>2, <3>3
    <2>11. x \in Nat /\ y \in Nat
        BY <1>2, <2>5
    <2> DEFINE u == g * d
               v == n * d
    <2>12. Left(n, i) = x + v + y /\ (s.len > 0 => Left(n, j) = x + (y + u))
        BY <2>5, <2>6, <2>7, <2>9
    <2>13. u < v /\ u \in Nat /\ v \in Nat
        BY <2>10
    <2> HIDE DEF x, y, u, v
    <2> QED BY <1>2, <2>4, <2>8, <2>11, <2>12, <2>13
<1> QED BY <1>4, <1>5, <1>6

(* Behind a separator. *)
LEMMA SeparatedSound ==
    ASSUME NEW m, Octets(m), NEW n \in Nat, NEW i \in Reading(m), i.len > 0,
           NEW s, s = Skip(m, i.curr, i.len), s.len >= 0,
           NEW k \in Nat, i.frame + k < n, NEW j, IsSeparated(i, s, k, j)
    PROVE  /\ j \in Reading(m) /\ ReadWeight(j) < ReadWeight(i)
           /\ Sound(m, n, i) => Sound(m, n, j) /\ Left(n, j) <= Left(n, i)
<1>1. /\ i.curr \in Nat /\ i.len \in Nat /\ i.from \in Nat /\ i.frame \in Nat
      /\ i.from <= i.curr /\ i.curr + i.len <= Len(m) /\ Len(m) \in Nat
    BY ReadingIs, IteratorIs, LengthNat
<1>2. /\ s.len \in Nat /\ s.at \in Nat /\ s.len < i.len /\ s.at + s.len = i.curr + i.len
    <2>1. SkipsOn(s, i.curr, i.len)
        BY DataSkipped
    <2> QED BY <1>1, <2>1 DEF SkipsOn
<1>3. /\ j \in Iterator /\ j.curr = s.at /\ j.from = s.at /\ j.frame = i.frame + k
      /\ j.rframe = i.rframe /\ j.len \in Nat /\ j.len <= s.len /\ j.len \in {0, s.len}
    BY <1>2 DEF IsSeparated
<1>4. j \in Reading(m)
    BY <1>1, <1>2, <1>3, ReadingIs
<1>5. ReadWeight(j) < ReadWeight(i)
    BY <1>1, <1>2, <1>3 DEF ReadWeight
<1>6. ASSUME Sound(m, n, i) PROVE Sound(m, n, j) /\ Left(n, j) <= Left(n, i)
    <2>1. i.rframe = 0 /\ i.curr + i.len = Len(m) /\ i.frame < n
        BY <1>6 DEF Sound
    <2>2. \E B : Region(m, j.from, j.curr, B)
        BY <1>2, <1>3, EmptyRegion
    <2>3. Sound(m, n, j)
        BY <1>2, <1>3, <1>4, <2>1, <2>2 DEF Sound
    <2>4. Left(n, i) \in Nat /\ Left(n, i) = n * i.len + (n - 1 - i.frame) * (i.curr - i.from)
        BY <1>6, LeftSound
    <2>5. (n - 1 - i.frame) * (i.curr - i.from) \in Nat
        <3>1. n - 1 - i.frame \in Nat /\ i.curr - i.from \in Nat
            BY <1>1, <2>1
        <3> QED BY <3>1
    <2>6. n * j.len <= n * i.len /\ n * j.len \in Nat /\ n * i.len \in Nat
        <3>1. j.len <= i.len
            BY <1>1, <1>2, <1>3
        <3> QED BY <1>1, <1>3, <3>1, Times
    <2>7. Left(n, j) = n * j.len \/ Left(n, j) = 0
        <3>1. CASE j.len = 0
            BY <2>3, <3>1, LeftSound
        <3>2. CASE j.len > 0
            <4>1. Left(n, j) = n * j.len + (n - 1 - j.frame) * (j.curr - j.from)
                BY <2>3, <3>2, LeftSound
            <4>2. j.curr - j.from = 0 /\ n - 1 - j.frame \in Int
                BY <1>1, <1>2, <1>3
            <4>3. (n - 1 - j.frame) * (j.curr - j.from) = 0
                BY <4>2
            <4> QED BY <2>6, <4>1, <4>3
        <3> QED BY <1>3, <3>1, <3>2
    <2> DEFINE x == n * i.len
               y == n * j.len
               z == (n - 1 - i.frame) * (i.curr - i.from)
    <2>8. Left(n, i) = x + z /\ x \in Nat /\ y \in Nat /\ z \in Nat /\ y <= x
        BY <2>4, <2>5, <2>6
    <2>9. Left(n, j) = y \/ Left(n, j) = 0
        BY <2>7
    <2> HIDE DEF x, y, z
    <2> QED BY <2>3, <2>8, <2>9
<1> QED BY <1>4, <1>5, <1>6

(* Behind a repeat indicator. *)
LEMMA IndicatedAmid ==
    ASSUME NEW m, Octets(m), NEW n \in Nat, NEW i \in Reading(m), i.len > 0,
           NEW s, s = Skip(m, i.curr, i.len), s.len >= 0, NEW j, IsIndicated(i, s, j)
    PROVE  /\ j \in Repeating(m) /\ j.len \in Nat /\ j.len < i.len
           /\ Sound(m, n, i) => Amid(m, n, j) /\ Left(n, j) <= Left(n, i)
<1>1. /\ i.curr \in Nat /\ i.len \in Nat /\ i.from \in Nat /\ i.frame \in Nat
      /\ i.from <= i.curr /\ i.curr + i.len <= Len(m) /\ Len(m) \in Nat
    BY ReadingIs, IteratorIs, LengthNat
<1>2. /\ s.len \in Nat /\ s.at \in Nat /\ s.len < i.len /\ s.at + s.len = i.curr + i.len
      /\ i.curr < s.at
    <2>1. SkipsOn(s, i.curr, i.len)
        BY DataSkipped
    <2> QED BY <1>1, <2>1 DEF SkipsOn
<1> DEFINE d == i.curr - i.from
<1>3. /\ j \in Iterator /\ j.curr = s.at /\ j.len = s.len /\ j.frame = i.frame /\ j.from = i.from
      /\ j.rframe = i.frame + 1 /\ j.replen = d /\ j.src = i.from /\ j.srclen = d
    BY DEF IsIndicated
<1>4. d \in Nat /\ i.from + d = i.curr
    BY <1>1
<1> HIDE DEF d
<1>5. j \in Repeating(m)
    <2>1. j.from <= j.curr /\ j.curr + j.len <= Len(m)
        BY <1>1, <1>2, <1>3
    <2>2. j.src >= 0 /\ j.src + j.srclen <= Len(m) /\ j.from + j.replen <= Len(m)
        BY <1>1, <1>3, <1>4
    <2> QED BY <1>3, <2>1, <2>2, RepeatingIs
<1>6. ASSUME Sound(m, n, i) PROVE Amid(m, n, j) /\ Left(n, j) <= Left(n, i)
    <2>1. i.rframe = 0 /\ i.curr + i.len = Len(m) /\ i.frame < n
        BY <1>6 DEF Sound
    <2>2. PICK B : Region(m, i.from, i.curr, B)
        BY <1>6 DEF Sound
    <2>3. Region(m, j.from, j.from + j.replen, B) /\ j.src \in B
        BY <1>3, <1>4, <2>2 DEF Region
    <2>4. Amid(m, n, j)
        <3>1. j.rframe \in 1 .. n /\ j.len >= 0 /\ j.curr + j.len = Len(m)
            BY <1>1, <1>2, <1>3, <2>1
        <3>2. j.from + j.replen <= j.curr /\ j.src + j.srclen = j.from + j.replen
            BY <1>1, <1>2, <1>3, <1>4
        <3>3. j.frame < n /\ j.srclen = j.replen
            BY <1>3, <2>1
        <3> QED BY <1>5, <2>3, <3>1, <3>2, <3>3 DEF Amid
    <2> DEFINE g == n - 1 - i.frame
    <2>5. g \in Nat /\ n - 1 - j.rframe = g - 1
        BY <1>1, <1>3, <2>1
    <2>6. Left(n, i) = n * i.len + g * d
        BY <1>6, LeftSound DEF d
    <2>7. Left(n, j) = n * s.len + d + (g - 1) * d
        <3>1. Left(n, j) = n * j.len + j.srclen + (n - 1 - j.rframe) * j.replen
            BY <2>4, LeftAmid
        <3> QED BY <1>3, <2>5, <3>1
    <2> HIDE DEF g
    <2>8. (g - 1) * d = g * d - d /\ g * d \in Nat
        BY <1>4, <2>5
    <2>9. n * s.len <= n * i.len /\ n * s.len \in Nat /\ n * i.len \in Nat
        <3>1. s.len <= i.len
            BY <1>1, <1>2
        <3> QED BY <1>1, <1>2, <3>1, Times
    <2> DEFINE x == n * i.len
               y == n * s.len
               z == g * d
    <2>10. Left(n, i) = x + z /\ Left(n, j) = y + d + (z - d)
        BY <2>6, <2>7, <2>8
    <2>11. x \in Nat /\ y \in Nat /\ z \in Nat /\ y <= x
        BY <2>8, <2>9
    <2> HIDE DEF x, y, z
    <2> QED BY <1>4, <2>4, <2>10, <2>11
<1> QED BY <1>1, <1>2, <1>3, <1>5, <1>6

LEMMA ReadGoes ==
    ASSUME NEW m, Octets(m), NEW n \in Nat, NEW i \in Reading(m)
    PROVE  /\ ReadStep(m, i, ReadPass(m, i, n))
           /\ Sound(m, n, i) => SoundStep(m, n, i, ReadPass(m, i, n))
<1>1. i \in Iterator /\ i.len \in Int /\ i.frame \in Nat /\ i.from <= i.curr
    BY ReadingIs, IteratorIs
<1>2. CASE i.len <= 0
    <2>1. ReadPass(m, i, n) = Ended(i)
        BY <1>2 DEF ReadPass
    <2>2. ~Ended(i).go /\ Ended(i).ret = 0 /\ Ended(i).it = i
        BY OutcomesAre
    <2>3. ReadStep(m, i, Ended(i))
        BY <1>2, <2>2 DEF ReadStep
    <2>4. Sound(m, n, i) => SoundStep(m, n, i, Ended(i))
        <3>1. Sound(m, n, i) => Left(n, i) \in Nat
            BY LeftSound
        <3> QED BY <1>1, <2>2, <3>1 DEF SoundStep, Returned
    <2> QED BY <2>1, <2>3, <2>4
<1>3. CASE i.len > 0
    <2> DEFINE s == Skip(m, i.curr, i.len)
               r == ReadOne(m, i, n, s)
               b == IdAt(m, i)
               id == IdOf(b)
               l == FlagOf(b)
               k == MovesBy(m, i)
               read == PastData(i, s.at, s.len)
    <2>1. ReadPass(m, i, n) = r
        BY <1>1, <1>3 DEF ReadPass
    <2>2. /\ SkipsOn(s, i.curr, i.len) /\ s.at \in Nat /\ s.len \in Int
          /\ b \in 0 .. 255 /\ i.curr \in Nat /\ i.len \in Nat /\ i.curr + i.len <= Len(m)
        BY <1>3, DataSkipped
    <2>3. id \in 0 .. 127 /\ l \in 0 .. 1
        <3> HIDE DEF b
        <3> QED BY <2>2, IdAndFlag
    <2>4. ReadOutcomes(m, i, n, s, id, l, k, r)
        BY <2>3, ReadOneIs
    <2>5. IsRead(i, s, read)
        <3> HIDE DEF s
        <3> QED BY <1>1, <2>2, ReadIs
    <2>6. id = 1 /\ s.len >= 0 => k \in Nat
        BY <1>3, SeparatorMoves
    <2>7. ~(s.len < 0) => /\ s.len \in Nat /\ s.hdr \in Nat /\ i.curr + s.hdr <= s.at
                          /\ s.at <= Len(m)
        <3> HIDE DEF s
        <3> QED BY <2>2, LengthNat DEF SkipsOn
    <2>8. ~(s.len < 0) /\ id # 2 => \A j : IsRead(i, s, j) =>
             /\ j \in Reading(m) /\ ReadWeight(j) < ReadWeight(i)
             /\ Sound(m, n, i) => Sound(m, n, j) /\ Left(n, j) < Left(n, i)
        <3> SUFFICES ASSUME ~(s.len < 0), id # 2, NEW j, IsRead(i, s, j)
                     PROVE  /\ j \in Reading(m) /\ ReadWeight(j) < ReadWeight(i)
                            /\ Sound(m, n, i) => Sound(m, n, j) /\ Left(n, j) < Left(n, i)
            BY Zenon
        <3>1. s.len >= 0
            BY <2>7
        <3> QED BY <1>3, <3>1, ReadSound
    <2>9. ~(s.len < 0) => \A j : IsSeparated(i, s, k, j) /\ k \in Nat /\ i.frame + k < n =>
             /\ j \in Reading(m) /\ ReadWeight(j) < ReadWeight(i)
             /\ Sound(m, n, i) => Sound(m, n, j) /\ Left(n, j) <= Left(n, i)
        <3> SUFFICES ASSUME ~(s.len < 0), NEW j, IsSeparated(i, s, k, j), k \in Nat, i.frame + k < n
                     PROVE  /\ j \in Reading(m) /\ ReadWeight(j) < ReadWeight(i)
                            /\ Sound(m, n, i) => Sound(m, n, j) /\ Left(n, j) <= Left(n, i)
            BY Zenon
        <3>1. s.len >= 0
            BY <2>7
        <3> HIDE DEF k
        <3> QED BY <1>3, <3>1, SeparatedSound
    <2>10. ~(s.len < 0) => \A j : IsIndicated(i, s, j) =>
             /\ j \in Repeating(m) /\ j.len \in Nat /\ j.len < i.len
             /\ Sound(m, n, i) => Amid(m, n, j) /\ Left(n, j) <= Left(n, i)
        <3> SUFFICES ASSUME ~(s.len < 0), NEW j, IsIndicated(i, s, j)
                     PROVE  /\ j \in Repeating(m) /\ j.len \in Nat /\ j.len < i.len
                            /\ Sound(m, n, i) => Amid(m, n, j) /\ Left(n, j) <= Left(n, i)
            BY Zenon
        <3>1. s.len >= 0
            BY <2>7
        <3> QED BY <1>3, <3>1, IndicatedAmid
    <2>11. /\ Sound(m, n, i) => Left(n, i) \in Nat
           /\ \A j : Sound(m, n, j) => Left(n, j) \in Nat
           /\ \A j : Amid(m, n, j) => Left(n, j) \in Nat
        BY LeftSound, LeftAmid
    <2>20. Sound(m, n, i) => i.frame \in 0 .. n - 1
        BY <1>1, <1>3 DEF Sound
    <2> HIDE DEF s, r, b, id, l, k, read
    <2>12. ReadStep(m, i, r) /\ (Sound(m, n, i) => SoundStep(m, n, i, r))
        <3>1. CASE s.len < 0
            <4>1. r = Invalid(read)
                BY <2>4, <3>1 DEF ReadOutcomes, read
            <4>2. ~r.go /\ r.ret = -4 /\ r.it = read
                BY <4>1, OutcomesAre
            <4>3. read \in Iterator /\ read.len < 0
                BY <2>5, <3>1 DEF IsRead
            <4> QED BY <4>2, <4>3 DEF ReadStep, SoundStep, Returned
        <3>2. CASE ~(s.len < 0) /\ (id = 0 \/ (id = 1 /\ k = 0))
            <4>1. r = Onto(read)
                BY <2>4, <3>2 DEF ReadOutcomes, read
            <4>2. r.go /\ r.it = read /\ r.ret = 0
                BY <4>1, OutcomesAre
            <4>3. id # 2
                BY <3>2
            <4>4. /\ read \in Reading(m) /\ ReadWeight(read) < ReadWeight(i)
                  /\ Sound(m, n, i) => Sound(m, n, read) /\ Left(n, read) < Left(n, i)
                BY <2>5, <2>8, <3>2, <4>3
            <4>5. read.rframe = i.rframe
                BY <2>5 DEF IsRead
            <4> QED BY <2>11, <4>2, <4>4, <4>5 DEF ReadStep, SoundStep
        <3>3. CASE ~(s.len < 0) /\ id = 1 /\ k # 0
            <4>1. k \in Nat /\ s.len \in Nat
                BY <2>6, <2>7, <3>3
            <4>2. IsMoved(i, s, k, Moved(i, s, k)) /\ IsCut([Moved(i, s, k) EXCEPT !.len = -1])
                BY <1>1, <2>2, <4>1, MovedIs
            <4>3. CASE Moved(i, s, k).frame >= n
                <5> DEFINE c == [Moved(i, s, k) EXCEPT !.len = -1]
                <5>1. r = Invalid(c)
                    BY <2>4, <3>3, <4>3 DEF ReadOutcomes
                <5>2. IsCut(c)
                    BY <4>2
                <5> HIDE DEF c
                <5>3. ~r.go /\ r.ret = -4 /\ r.it = c
                    BY <5>1, OutcomesAre
                <5>4. c \in Iterator /\ c.len < 0
                    BY <5>2 DEF IsCut
                <5> QED BY <5>3, <5>4 DEF ReadStep, SoundStep, Returned
            <4>4. CASE ~(Moved(i, s, k).frame >= n)
                <5> DEFINE c == Separated(i, s, k)
                <5>1. r = Onto(c)
                    BY <2>4, <3>3, <4>4 DEF ReadOutcomes
                <5>2. IsSeparated(i, s, k, c)
                    BY <1>1, <2>2, <4>1, SeparatedIs
                <5> HIDE DEF c
                <5>3. r.go /\ r.it = c /\ r.ret = 0
                    BY <5>1, OutcomesAre
                <5>4. i.frame + k < n
                    BY <1>1, <4>1, <4>2, <4>4 DEF IsMoved
                <5>5. /\ c \in Reading(m) /\ ReadWeight(c) < ReadWeight(i)
                      /\ Sound(m, n, i) => Sound(m, n, c) /\ Left(n, c) <= Left(n, i)
                    BY <2>9, <3>3, <4>1, <5>2, <5>4
                <5>6. c.rframe = i.rframe
                    BY <5>2 DEF IsSeparated
                <5> QED BY <5>3, <5>5, <5>6 DEF ReadStep, SoundStep
            <4> QED BY <4>3, <4>4
        <3>4. CASE ~(s.len < 0) /\ id = 2
            <4> DEFINE j == Indicated(i, s, l)
                       z == NextRepeat(m, j, n)
            <4>1. r = AfterRepeat(z)
                BY <2>4, <3>4 DEF ReadOutcomes
            <4>2. IsIndicated(i, s, j)
                <5>1. s.len \in Nat /\ l \in Int
                    BY <2>3, <2>7, <3>4
                <5> QED BY <1>1, <2>2, <5>1, IndicatedIs
            <4> HIDE DEF j
            <4>3. /\ j \in Repeating(m) /\ j.len \in Nat /\ j.len < i.len
                  /\ Sound(m, n, i) => Amid(m, n, j) /\ Left(n, j) <= Left(n, i)
                BY <2>10, <3>4, <4>2
            <4>4. Repeated(m, n, j, z)
                BY <4>3, NextRepeatFacts
            <4> HIDE DEF z
            <4>5. ASSUME Sound(m, n, i) PROVE Returned(m, n, Left(n, i), z)
                <5>1. Returned(m, n, Left(n, j), z)
                    BY <4>3, <4>4, <4>5 DEF Repeated
                <5>2. Left(n, j) \in Nat /\ Left(n, i) \in Nat /\ Left(n, j) <= Left(n, i)
                    BY <2>11, <4>3, <4>5
                <5> QED BY <5>1, <5>2, ReturnedMore
            <4>6. CASE z.ret # 0
                <5>1. r = z
                    BY <4>1, <4>6 DEF AfterRepeat
                <5>2. ~r.go
                    BY <4>4, <5>1 DEF Repeated
                <5>3. ASSUME ~(r.ret <= 0)
                      PROVE  /\ r.it \in Callable(m) /\ r.it.len >= 0
                             /\ ReadWeight(r.it) < ReadWeight(i)
                    <6>1. r.it \in Repeating(m) /\ r.it.len \in 0 .. j.len
                        BY <4>4, <5>1, <5>3 DEF Repeated
                    <6>2. r.it \in Callable(m)
                        BY <6>1 DEF Callable, Repeating
                    <6>3. ReadWeight(r.it) < ReadWeight(i)
                        BY <1>1, <1>3, <4>3, <6>1 DEF ReadWeight
                    <6> QED BY <4>3, <6>1, <6>2, <6>3
                <5> QED BY <4>5, <4>6, <5>1, <5>2, <5>3 DEF ReadStep, SoundStep
            <4>7. CASE z.ret = 0
                <5>1. r = Onto(z.it)
                    BY <4>1, <4>7 DEF AfterRepeat
                <5>2. r.go /\ r.it = z.it /\ r.ret = 0
                    BY <5>1, OutcomesAre
                <5>3. z.it \in Reading(m) /\ z.it.len \in 0 .. j.len
                    BY <4>3, <4>4, <4>7 DEF Repeated
                <5>4. ReadWeight(z.it) < ReadWeight(i)
                    BY <1>1, <1>3, <4>3, <5>3 DEF ReadWeight
                <5>5. ASSUME Sound(m, n, i)
                      PROVE  Sound(m, n, z.it) /\ Left(n, z.it) <= Left(n, i)
                    BY <4>5, <4>7, <5>5 DEF Returned
                <5>6. z.it.rframe = 0
                    BY <4>4, <4>7 DEF Repeated
                <5> QED BY <5>2, <5>3, <5>4, <5>5, <5>6 DEF ReadStep, SoundStep
            <4> QED BY <4>6, <4>7
        <3>5. CASE ~(s.len < 0) /\ id > 2
            <4> DEFINE j == Seen(i, s, id, l)
            <4>1. IsFound(r, j, id, i.frame, i.curr, s.hdr)
                <5>1. r = Found(j, id, i.frame, i.curr, s.hdr)
                    BY <2>4, <3>5 DEF ReadOutcomes
                <5> QED BY <5>1, FoundIs
            <4>2. IsRead(i, s, j)
                <5>1. s.len \in Nat /\ l \in Nat /\ id \in Nat
                    BY <2>3, <2>7, <3>5
                <5> QED BY <1>1, <2>2, <5>1, SeenIs
            <4> HIDE DEF j
            <4>3. ~r.go /\ r.ret = 1 /\ r.it = j
                BY <4>1 DEF IsFound
            <4>4. id # 2 /\ id \in 3 .. 127
                BY <2>3, <3>5
            <4>5. /\ j \in Reading(m) /\ ReadWeight(j) < ReadWeight(i)
                  /\ Sound(m, n, i) => Sound(m, n, j) /\ Left(n, j) < Left(n, i)
                BY <2>8, <3>5, <4>2, <4>4
            <4>6. j \in Iterator /\ j.curr = s.at /\ j.rframe = i.rframe /\ j.len >= 0
                BY <2>7, <3>5, <4>2 DEF IsRead
            <4>7. ASSUME Sound(m, n, i) PROVE InBounds(m, n, r.ext)
                <5>1. i.frame \in 0 .. n - 1
                    BY <2>20, <4>7
                <5>2. j.curr \in Nat /\ j.curr <= Len(m) /\ s.hdr \in Nat /\ i.curr + s.hdr <= j.curr
                    BY <2>2, <2>7, <3>5, <4>6
                <5> QED BY <2>2, <4>1, <4>4, <5>1, <5>2, FoundInBounds
            <4>8. ASSUME i.rframe = 0 PROVE j \in Callable(m)
                BY <4>5, <4>6, <4>8 DEF Callable
            <4> QED BY <4>3, <4>5, <4>6, <4>7, <4>8 DEF ReadStep, SoundStep, Returned
        <3>6. id = 0 \/ id = 1 \/ id = 2 \/ id > 2
            BY <2>3
        <3> QED BY <3>1, <3>2, <3>3, <3>4, <3>5, <3>6, Zenon
    <2> QED BY <2>1, <2>12
<1> QED BY <1>1, <1>2, <1>3

-----------------------------------------------------------------------------
(* The loop over the data, and next. *)

ReadLoop(m, n) ==
    CHOOSE g : g = [x \in Reading(m) |-> LET on(r) == IF r.go THEN g[r.it] ELSE r
                                        IN on(ReadPass(m, x, n))]

LEMMA ReadWeightNat ==
    ASSUME NEW m, Octets(m), NEW i \in Reading(m)
    PROVE  ReadWeight(i) \in Nat /\ ReadWeight(i) <= Len(m)
<1>1. i.len \in Int /\ i.curr \in Nat /\ i.curr + i.len <= Len(m) /\ Len(m) \in Nat
    BY ReadingIs, IteratorIs, LengthNat
<1> QED BY <1>1 DEF ReadWeight

LEMMA ReadLoopIs ==
    ASSUME NEW m, Octets(m), NEW n \in Nat
    PROVE  \A i \in Reading(m) :
              ReadLoop(m, n)[i] = IF ReadPass(m, i, n).go THEN ReadLoop(m, n)[ReadPass(m, i, n).it]
                                  ELSE ReadPass(m, i, n)
<1> DEFINE S == Reading(m)
           pass == [x \in S |-> ReadPass(m, x, n)]
           w == [x \in S |-> ReadWeight(x)]
           f == ReadLoop(m, n)
<1>1. w \in [S -> Nat] /\ Len(m) \in Nat /\ \A x \in S : w[x] <= Len(m)
    <2>1. \A x \in S : ReadWeight(x) \in Nat /\ ReadWeight(x) <= Len(m)
        BY ReadWeightNat
    <2>2. Len(m) \in Nat
        BY LengthNat
    <2> HIDE DEF S
    <2> QED BY <2>1, <2>2
<1>2. \A x \in S : pass[x].go => pass[x].it \in S /\ w[pass[x].it] < w[x]
    <2> SUFFICES ASSUME NEW x \in S, pass[x].go PROVE pass[x].it \in S /\ w[pass[x].it] < w[x]
        OBVIOUS
    <2>1. ReadStep(m, x, pass[x])
        BY ReadGoes
    <2> HIDE DEF pass
    <2>2. pass[x].it \in S /\ ReadWeight(pass[x].it) < ReadWeight(x)
        BY <2>1 DEF ReadStep
    <2> HIDE DEF S
    <2> QED BY <2>2
<1>3. \E g : g = [x \in S |-> IF pass[x].go THEN g[pass[x].it] ELSE pass[x]]
    <2> HIDE DEF S, pass, w
    <2> QED BY <1>1, <1>2, LoopEnds
<1>4. \E g : g = [x \in S |-> LET on(r) == IF r.go THEN g[r.it] ELSE r IN on(ReadPass(m, x, n))]
    <2>1. PICK g : g = [x \in S |-> IF pass[x].go THEN g[pass[x].it] ELSE pass[x]]
        BY <1>3
    <2>2. [x \in S |-> IF pass[x].go THEN g[pass[x].it] ELSE pass[x]] =
             [x \in S |-> LET on(r) == IF r.go THEN g[r.it] ELSE r IN on(ReadPass(m, x, n))]
        <3> HIDE DEF S
        <3> QED OBVIOUS
    <2> QED BY <2>1, <2>2, Zenon
<1>5. f = [x \in S |-> LET on(r) == IF r.go THEN f[r.it] ELSE r IN on(ReadPass(m, x, n))]
    <2> HIDE DEF S
    <2> QED BY <1>4, Zenon DEF ReadLoop, S
<1> HIDE DEF f
<1>6. \A i \in S : f[i] = IF ReadPass(m, i, n).go THEN f[ReadPass(m, i, n).it] ELSE ReadPass(m, i, n)
    BY <1>5, Zenon
<1> QED BY <1>6 DEF f

(* What the loop returns. *)
LEMMA ReadLoopFacts ==
    ASSUME NEW m, Octets(m), NEW n \in Nat, NEW i0, Sound(m, n, i0)
    PROVE  Returned(m, n, Left(n, i0), ReadLoop(m, n)[i0])
<1> DEFINE Ok(i) == Sound(m, n, i) => Returned(m, n, Left(n, i), ReadLoop(m, n)[i])
           G == {k \in Nat : \A i \in Reading(m) : ReadWeight(i) < k => Ok(i)}
<1>1. 0 \in G
    <2>1. \A i \in Reading(m) : ReadWeight(i) \in Nat
        BY ReadWeightNat
    <2> QED BY <2>1
<1>2. ASSUME NEW k \in Nat, k \in G PROVE k + 1 \in G
    <2>0. \A i \in Reading(m) : ReadWeight(i) < k => Ok(i)
        BY <1>2
    <2> SUFFICES ASSUME NEW i \in Reading(m), ReadWeight(i) < k + 1, Sound(m, n, i)
                 PROVE  Returned(m, n, Left(n, i), ReadLoop(m, n)[i])
        OBVIOUS
    <2> DEFINE r == ReadPass(m, i, n)
               z == ReadLoop(m, n)[i]
               y == ReadLoop(m, n)[r.it]
    <2>1. ReadStep(m, i, r) /\ SoundStep(m, n, i, r)
        BY ReadGoes
    <2>2. z = IF r.go THEN y ELSE r
        BY ReadLoopIs
    <2>3. CASE ~r.go
        <3> HIDE DEF r, z
        <3>1. Returned(m, n, Left(n, i), z)
            BY <2>1, <2>2, <2>3 DEF SoundStep
        <3> QED BY <3>1 DEF z
    <2>4. CASE r.go
        <3>1. z = y
            BY <2>2, <2>4
        <3> HIDE DEF r, z
        <3>2. /\ r.it \in Reading(m) /\ ReadWeight(r.it) < ReadWeight(i)
              /\ Sound(m, n, r.it) /\ Left(n, r.it) <= Left(n, i)
            BY <2>1, <2>4 DEF ReadStep, SoundStep
        <3>3. ReadWeight(i) \in Nat /\ ReadWeight(r.it) \in Nat
            BY <3>2, ReadWeightNat
        <3>4. ReadWeight(r.it) < k
            BY <3>2, <3>3
        <3>5. Returned(m, n, Left(n, r.it), y)
            BY <2>0, <3>2, <3>4
        <3>6. Left(n, i) \in Nat /\ Left(n, r.it) \in Nat
            BY <3>2, LeftSound
        <3> HIDE DEF y
        <3>7. Returned(m, n, Left(n, i), y)
            BY <3>2, <3>5, <3>6, ReturnedMore
        <3> QED BY <3>1, <3>7 DEF z
    <2> QED BY <2>3, <2>4
<1>3. Nat \subseteq G
    <2> HIDE DEF G
    <2> QED BY <1>1, <1>2, ByNumbers
<1>4. i0 \in Reading(m)
    BY DEF Sound
<1>5. ReadWeight(i0) \in Nat /\ ReadWeight(i0) + 1 \in Nat /\ ReadWeight(i0) < ReadWeight(i0) + 1
    BY <1>4, ReadWeightNat
<1>6. ReadWeight(i0) + 1 \in G
    <2> HIDE DEF G
    <2> QED BY <1>3, <1>5
<1>7. Ok(i0)
    BY <1>4, <1>5, <1>6
<1> QED BY <1>7

(* What next may be called with. *)
Kept(m, n, i) == i \in Iterator /\ (i.len < 0 \/ Amid(m, n, i) \/ Sound(m, n, i))

LEMMA LeftNat ==
    ASSUME NEW m, Octets(m), NEW n \in Nat, NEW i, Kept(m, n, i)
    PROVE  Left(n, i) \in Nat
<1>1. CASE i.len < 0
    BY <1>1 DEF Left
<1> QED BY <1>1, LeftAmid, LeftSound DEF Kept

LEMMA NextReturns ==
    ASSUME NEW m, Octets(m), NEW n \in Nat, NEW i, Kept(m, n, i)
    PROVE  Returned(m, n, Left(n, i), IteratorNext(m, i, n))
<1> DEFINE first == IF i.rframe > 0 THEN NextRepeat(m, i, n) ELSE Ended(i)
<1>1. i \in Iterator /\ i.len \in Int /\ i.rframe \in Nat /\ Left(n, i) \in Nat
    BY IteratorIs, LeftNat DEF Kept
<1>2. CASE i.len < 0
    <2>1. IteratorNext(m, i, n) = Invalid(i)
        BY <1>2 DEF IteratorNext
    <2>2. Invalid(i).ret = -4 /\ Invalid(i).it = i
        BY OutcomesAre
    <2> QED BY <1>1, <1>2, <2>1, <2>2 DEF Returned
<1>3. CASE ~(i.len < 0)
    <2>1. IteratorNext(m, i, n) = ReadOn(m, first, n)
        BY <1>3 DEF IteratorNext
    <2>2. Amid(m, n, i) \/ Sound(m, n, i)
        BY <1>3 DEF Kept
    <2>3. Returned(m, n, Left(n, i), first)
        <3>1. CASE Amid(m, n, i)
            <4>1. i.rframe > 0 /\ i \in Repeating(m)
                BY <3>1 DEF Amid
            <4>2. Repeated(m, n, i, NextRepeat(m, i, n))
                BY <4>1, NextRepeatFacts
            <4>3. first = NextRepeat(m, i, n)
                BY <4>1
            <4> QED BY <3>1, <4>2, <4>3 DEF Repeated
        <3>2. CASE Sound(m, n, i)
            <4>1. ~(i.rframe > 0)
                BY <3>2 DEF Sound
            <4>2. first = Ended(i)
                BY <4>1
            <4>3. Ended(i).ret = 0 /\ Ended(i).it = i
                BY OutcomesAre
            <4> QED BY <1>1, <3>2, <4>2, <4>3 DEF Returned
        <3> QED BY <2>2, <3>1, <3>2
    <2> HIDE DEF first
    <2>4. ReadOn(m, first, n) =
             IF first.ret # 0 \/ first.it.frame >= first.it.fmax THEN first
             ELSE ReadLoop(m, n)[first.it]
        BY Zenon DEF ReadOn, ReadLoop
    <2>5. CASE first.ret # 0 \/ first.it.frame >= first.it.fmax
        BY <2>1, <2>3, <2>4, <2>5
    <2>6. CASE ~(first.ret # 0 \/ first.it.frame >= first.it.fmax)
        <3>1. Sound(m, n, first.it) /\ Left(n, first.it) <= Left(n, i)
            BY <2>3, <2>6 DEF Returned
        <3>2. Returned(m, n, Left(n, first.it), ReadLoop(m, n)[first.it])
            BY <3>1, ReadLoopFacts
        <3>3. Left(n, first.it) \in Nat
            BY <3>1, LeftSound
        <3>4. Returned(m, n, Left(n, i), ReadLoop(m, n)[first.it])
            BY <1>1, <3>1, <3>2, <3>3, ReturnedMore
        <3> QED BY <2>1, <2>4, <2>6, <3>4
    <2> QED BY <2>5, <2>6
<1> QED BY <1>1, <1>2, <1>3

-----------------------------------------------------------------------------
(* The caller. *)

(* Where an iteration starts. *)
LEMMA StartSound ==
    ASSUME NEW m, Octets(m), NEW n \in Nat, n >= 1, NEW i \in Iterator,
           i.curr = 0, i.len = Len(m), i.frame = 0, i.from = 0, i.rframe = 0
    PROVE  Kept(m, n, i) /\ Left(n, i) = n * Len(m)
<1>1. Len(m) \in Nat
    BY LengthNat
<1>2. i \in Reading(m)
    BY <1>1, ReadingIs
<1>3. \E B : Region(m, i.from, i.curr, B)
    BY EmptyRegion
<1>4. Sound(m, n, i)
    BY <1>1, <1>2, <1>3 DEF Sound
<1>5. Left(n, i) = n * Len(m)
    <2>1. CASE Len(m) = 0
        <3>1. Left(n, i) = 0
            BY <1>4, <2>1, LeftSound
        <3>2. n * Len(m) = 0
            BY <2>1
        <3> QED BY <3>1, <3>2
    <2>2. CASE Len(m) > 0
        <3>1. Left(n, i) = n * Len(m) + (n - 1 - 0) * (0 - 0)
            BY <1>4, <2>2, LeftSound
        <3>2. (n - 1 - 0) * (0 - 0) = 0 /\ n * Len(m) \in Nat
            BY <1>1
        <3> QED BY <3>1, <3>2
    <2> QED BY <1>1, <2>1, <2>2
<1> QED BY <1>4, <1>5 DEF Kept

(* The frame at which the caller wants to stop plays no part in it. *)
LEMMA AnyFrameMax ==
    ASSUME NEW m, Octets(m), NEW n \in Nat, NEW i, Kept(m, n, i), NEW f \in Int
    PROVE  /\ Kept(m, n, [i EXCEPT !.fmax = f])
           /\ Left(n, [i EXCEPT !.fmax = f]) = Left(n, i)
<1> DEFINE j == [i EXCEPT !.fmax = f]
<1>1. i \in Iterator
    BY DEF Kept
<1>2. /\ j \in Iterator /\ j.curr = i.curr /\ j.len = i.len /\ j.frame = i.frame
      /\ j.from = i.from /\ j.src = i.src /\ j.srclen = i.srclen /\ j.rframe = i.rframe
      /\ j.replen = i.replen
    BY <1>1 DEF Iterator
<1> HIDE DEF j
<1>3. Left(n, j) = Left(n, i)
    BY <1>2 DEF Left
<1>4. i \in Reading(m) => j \in Reading(m)
    BY <1>2, ReadingIs
<1>5. i \in Repeating(m) => j \in Repeating(m)
    BY <1>2, RepeatingIs
<1>6. Sound(m, n, i) => Sound(m, n, j)
    BY <1>2, <1>4 DEF Sound
<1>7. Amid(m, n, i) => Amid(m, n, j)
    BY <1>2, <1>5 DEF Amid
<1>8. Kept(m, n, j)
    BY <1>2, <1>6, <1>7 DEF Kept
<1> QED BY <1>3, <1>8 DEF j

(* The inductive invariant: the iterator is between two extensions or in   *)
(* the middle of a repeat, and what it has returned and may still return   *)
(* is bounded.                                                             *)
PaddingInv ==
    /\ nb \in 1 .. 48
    /\ Octets(mem) =>
          /\ Kept(mem, nb, it)
          /\ got \in Seq(Extensions)
          /\ \A k \in DOMAIN got : InBounds(mem, nb, got[k])
          /\ Len(got) + Left(nb, it) <= nb * Len(mem)

LEMMA InitPadding == ReaderInit => PaddingInv
<1> SUFFICES ASSUME ReaderInit PROVE PaddingInv
    OBVIOUS
<1>1. nb \in 1 .. 48 /\ it = IteratorInit(0, Len(mem), nb)
    BY ListsAssumption, RawsAssumption DEF ReaderInit, Start
<1>2. got = <<>>
    BY DEF ReaderInit
<1>3. ASSUME Octets(mem) PROVE Kept(mem, nb, it) /\ Left(nb, it) = nb * Len(mem)
    <2>1. Len(mem) \in Nat /\ nb \in Nat /\ nb >= 1
        BY <1>1, <1>3, LengthNat
    <2>2. /\ it \in Iterator /\ it.curr = 0 /\ it.len = Len(mem) /\ it.frame = 0
          /\ it.from = 0 /\ it.rframe = 0
        BY <1>1, <2>1 DEF IteratorInit, Iterator
    <2> QED BY <1>3, <2>1, <2>2, StartSound
<1>4. Octets(mem) => nb * Len(mem) \in Nat
    BY <1>1, LengthNat
<1>5. got \in Seq(Extensions) /\ Len(got) = 0 /\ DOMAIN got = {}
    BY <1>2
<1> QED BY <1>1, <1>3, <1>4, <1>5 DEF PaddingInv

LEMMA ReadNextPadding == PaddingInv /\ ReadNext => PaddingInv'
<1> SUFFICES ASSUME PaddingInv, ReadNext, Octets(mem) PROVE PaddingInv'
    BY DEF PaddingInv, ReadNext, Octets
<1> DEFINE r == IteratorNext(mem, it, nb)
<1>1. /\ it' = r.it /\ got' = (IF r.ret > 0 THEN Append(got, r.ext) ELSE got)
      /\ mem' = mem /\ nb' = nb
    BY DEF ReadNext
<1>2. nb \in Nat /\ nb \in 1 .. 48 /\ Kept(mem, nb, it) /\ Len(mem) \in Nat
    BY LengthNat DEF PaddingInv
<1>3. Returned(mem, nb, Left(nb, it), r)
    BY <1>2, NextReturns
<1>4. Left(nb, it) \in Nat
    BY <1>2, LeftNat
<1> HIDE DEF r
<1>5. Kept(mem, nb, r.it)
    BY <1>3 DEF Returned, Kept
<1>6. Left(nb, r.it) \in Nat
    BY <1>2, <1>5, LeftNat
<1>7. /\ got \in Seq(Extensions) /\ \A k \in DOMAIN got : InBounds(mem, nb, got[k])
      /\ Len(got) + Left(nb, it) <= nb * Len(mem)
    BY DEF PaddingInv
<1>8. nb * Len(mem) \in Nat
    BY <1>2
<1>9. CASE r.ret = 1
    <2>1. InBounds(mem, nb, r.ext) /\ Left(nb, r.it) < Left(nb, it)
        BY <1>3, <1>9 DEF Returned
    <2>2. r.ext \in Extensions
        <3>1. /\ r.ext.id \in Nat /\ r.ext.frame \in Nat /\ r.ext.at \in Nat /\ r.ext.len \in Nat
            <4>1. /\ r.ext.id \in 3 .. 127 /\ r.ext.frame \in 0 .. nb - 1
                  /\ r.ext.at \in 0 .. Len(mem) /\ r.ext.len \in 0 .. Len(mem) - r.ext.at
                BY <2>1 DEF InBounds
            <4> DEFINE a == r.ext.at
                       c == r.ext.len
                       f == r.ext.frame
                       l == Len(mem)
            <4>2. a \in 0 .. l /\ c \in 0 .. l - a /\ f \in 0 .. nb - 1 /\ l \in Nat
                BY <1>2, <4>1
            <4> HIDE DEF a, c, f, l
            <4>3. a \in Nat /\ c \in Nat /\ f \in Nat
                BY <1>2, <4>2
            <4>4. r.ext.at \in Nat /\ r.ext.len \in Nat /\ r.ext.frame \in Nat
                BY <4>3, Zenon DEF a, c, f
            <4>5. \A d \in 3 .. 127 : d \in Nat
                OBVIOUS
            <4>6. r.ext.id \in Nat
                BY <4>1, <4>5, Zenon
            <4> QED BY <4>4, <4>6
        <3>2. r.ext = [id |-> r.ext.id, frame |-> r.ext.frame, at |-> r.ext.at, len |-> r.ext.len]
            BY <2>1 DEF InBounds, IsExtension
        <3> DEFINE a == r.ext.id
                   b == r.ext.frame
                   c == r.ext.at
                   d == r.ext.len
        <3>3. r.ext = [id |-> a, frame |-> b, at |-> c, len |-> d]
            BY <3>2
        <3>4. a \in Nat /\ b \in Nat /\ c \in Nat /\ d \in Nat
            BY <3>1
        <3> HIDE DEF a, b, c, d
        <3>5. [id |-> a, frame |-> b, at |-> c, len |-> d] \in Extensions
            BY <3>4 DEF Extensions
        <3> QED BY <3>3, <3>5
    <2>3. got' = Append(got, r.ext)
        BY <1>1, <1>9
    <2>4. got' \in Seq(Extensions) /\ Len(got') = Len(got) + 1 /\ Len(got) \in Nat
        BY <1>7, <2>2, <2>3
    <2>5. ASSUME NEW k \in DOMAIN got' PROVE InBounds(mem, nb, got'[k])
        <3>1. k \in 1 .. Len(got) + 1
            BY <1>7, <2>2, <2>3
        <3>2. CASE k = Len(got) + 1
            <4>1. got'[k] = r.ext
                BY <1>7, <2>3, <2>4, <3>2
            <4> QED BY <2>1, <4>1
        <3>3. CASE k # Len(got) + 1
            <4>1. k \in 1 .. Len(got)
                BY <2>4, <3>1, <3>3
            <4>2. got'[k] = got[k] /\ k \in DOMAIN got
                BY <1>7, <2>2, <2>3, <4>1
            <4> QED BY <1>7, <4>2
        <3> QED BY <3>2, <3>3
    <2>6. Len(got') + Left(nb, r.it) <= nb * Len(mem)
        <3> DEFINE x == nb * Len(mem)
        <3>1. x \in Nat /\ Len(got) + Left(nb, it) <= x
            BY <1>7, <1>8
        <3> HIDE DEF x
        <3>2. Len(got') + Left(nb, r.it) <= x
            BY <1>4, <1>6, <2>1, <2>4, <3>1
        <3> QED BY <3>2 DEF x
    <2> QED BY <1>1, <1>2, <1>5, <2>4, <2>5, <2>6 DEF PaddingInv
<1>10. CASE r.ret # 1
    <2>1. r.ret \in {0, -4} /\ Left(nb, r.it) <= Left(nb, it)
        <3>1. CASE r.ret = 0
            BY <1>3, <3>1 DEF Returned
        <3>2. CASE r.ret # 0
            <4>1. r.ret = -4 /\ r.it.len < 0
                BY <1>3, <1>10, <3>2 DEF Returned
            <4>2. Left(nb, r.it) = 0
                BY <4>1 DEF Left
            <4> QED BY <1>4, <4>1, <4>2
        <3> QED BY <3>1, <3>2
    <2>2. got' = got
        BY <1>1, <2>1
    <2>3. Len(got') + Left(nb, r.it) <= nb * Len(mem)
        <3> DEFINE x == nb * Len(mem)
        <3>1. x \in Nat /\ Len(got) + Left(nb, it) <= x /\ Len(got) \in Nat
            BY <1>7, <1>8
        <3> HIDE DEF x
        <3>2. Len(got) + Left(nb, r.it) <= x
            BY <1>4, <1>6, <2>1, <3>1
        <3> QED BY <2>2, <3>2 DEF x
    <2> QED BY <1>1, <1>2, <1>5, <1>7, <2>2, <2>3 DEF PaddingInv
<1> QED BY <1>9, <1>10

LEMMA ResetPadding == PaddingInv /\ Reset => PaddingInv'
<1> SUFFICES ASSUME PaddingInv, Reset, Octets(mem) PROVE PaddingInv'
    BY DEF PaddingInv, Reset, Octets
<1>1. it' = IteratorReset(it, 0, Len(mem)) /\ got' = <<>> /\ mem' = mem /\ nb' = nb
    BY DEF Reset
<1>2. nb \in Nat /\ nb >= 1 /\ nb \in 1 .. 48 /\ it \in Iterator /\ Len(mem) \in Nat
    BY LengthNat DEF PaddingInv, Kept
<1>3. /\ it' \in Iterator /\ it'.curr = 0 /\ it'.len = Len(mem) /\ it'.frame = 0
      /\ it'.from = 0 /\ it'.rframe = 0
    <2> DEFINE v == Len(mem)
               j == IteratorReset(it, 0, v)
    <2>1. -1 \in Int /\ 0 \in Nat /\ 0 \in Int /\ v \in Int
        BY <1>2
    <2> HIDE DEF v
    <2>2. j \in Iterator
        BY <1>2, <2>1 DEF IteratorReset, Iterator
    <2>3. j.curr = 0 /\ j.len = v /\ j.frame = 0 /\ j.from = 0 /\ j.rframe = 0
        BY <1>2, <2>1 DEF IteratorReset, Iterator
    <2> HIDE DEF j
    <2> QED BY <1>1, <2>2, <2>3 DEF j, v
<1>4. Kept(mem, nb, it') /\ Left(nb, it') = nb * Len(mem)
    BY <1>2, <1>3, StartSound
<1>5. nb * Len(mem) \in Nat
    BY <1>2
<1>6. got' \in Seq(Extensions) /\ Len(got') = 0 /\ DOMAIN got' = {}
    BY <1>1
<1> QED BY <1>1, <1>2, <1>4, <1>5, <1>6 DEF PaddingInv

LEMMA SetFrameMaxPadding ==
    ASSUME NEW f \in 0 .. nb, PaddingInv, SetFrameMax(f)
    PROVE  PaddingInv'
<1> SUFFICES ASSUME Octets(mem) PROVE PaddingInv'
    BY DEF PaddingInv, SetFrameMax, Octets
<1>1. it' = [it EXCEPT !.fmax = f] /\ got' = got /\ mem' = mem /\ nb' = nb
    BY DEF SetFrameMax
<1>2. nb \in Nat /\ nb \in 1 .. 48 /\ Kept(mem, nb, it) /\ f \in Int
    BY DEF PaddingInv
<1>3. Kept(mem, nb, it') /\ Left(nb, it') = Left(nb, it)
    BY <1>1, <1>2, AnyFrameMax
<1> QED BY <1>1, <1>2, <1>3 DEF PaddingInv

LEMMA PaddingStep == PaddingInv /\ [ReaderNext]_readerVars => PaddingInv'
<1> SUFFICES ASSUME PaddingInv, [ReaderNext]_readerVars PROVE PaddingInv'
    OBVIOUS
<1>1. CASE ReadNext
    BY <1>1, ReadNextPadding
<1>2. CASE Reset
    BY <1>2, ResetPadding
<1>3. ASSUME NEW f \in 0 .. nb, SetFrameMax(f) PROVE PaddingInv'
    BY <1>3, SetFrameMaxPadding
<1>4. CASE UNCHANGED readerVars
    BY <1>4 DEF PaddingInv, readerVars, Octets
<1> QED BY <1>1, <1>2, <1>3, <1>4 DEF ReaderNext

LEMMA PaddingGives == PaddingInv => (mem \in Seq(0 .. 255) => WithinPadding)
<1> SUFFICES ASSUME PaddingInv, mem \in Seq(0 .. 255) PROVE WithinPadding
    OBVIOUS
<1>1. Octets(mem) /\ Len(mem) \in Nat
    BY DEF Octets
<1>2. /\ nb \in Nat /\ Kept(mem, nb, it) /\ got \in Seq(Extensions)
      /\ \A k \in DOMAIN got : InBounds(mem, nb, got[k])
      /\ Len(got) + Left(nb, it) <= nb * Len(mem)
    BY <1>1 DEF PaddingInv
<1>3. Left(nb, it) \in Nat
    BY <1>1, <1>2, LeftNat
<1>4. it.len > 0 => it.curr + it.len = Len(mem)
    <2>1. it.len \in Int
        BY <1>2, IteratorIs DEF Kept
    <2> QED BY <1>2, <2>1 DEF Kept, Amid, Sound
<1>5. Len(got) <= nb * Len(mem)
    <2> DEFINE x == nb * Len(mem)
    <2>1. x \in Nat /\ Len(got) + Left(nb, it) <= x /\ Len(got) \in Nat
        BY <1>1, <1>2
    <2> HIDE DEF x
    <2>2. Len(got) <= x
        BY <1>3, <2>1
    <2> QED BY <2>2 DEF x
<1>6. ASSUME NEW k \in DOMAIN got
      PROVE  /\ got[k].frame \in 0 .. nb - 1 /\ got[k].id \in 3 .. 127
             /\ got[k].at \in 0 .. Len(mem) /\ got[k].len \in 0 .. Len(mem) - got[k].at
    BY <1>2, <1>6 DEF InBounds
<1> QED BY <1>4, <1>5, <1>6 DEF WithinPadding

(* For any bytes as padding, of any length and for any number of frames,   *)
(* whenever the caller starts again and whatever it sets: the extensions   *)
(* that next returns lie within the padding and belong to a frame of the   *)
(* packet, the iterator never loses count of what is left, and there are   *)
(* no more extensions than bytes times frames.                             *)
THEOREM WithinPaddingHolds == ReaderSpec => [](mem \in Seq(0 .. 255) => WithinPadding)
<1>1. ReaderInit => PaddingInv
    BY InitPadding
<1>2. PaddingInv /\ [ReaderNext]_readerVars => PaddingInv'
    BY PaddingStep
<1>3. PaddingInv => (mem \in Seq(0 .. 255) => WithinPadding)
    BY PaddingGives
<1> QED BY <1>1, <1>2, <1>3, PTL DEF ReaderSpec

-----------------------------------------------------------------------------
(* Reading again. *)

(* Two iterators between extensions that differ at most in what a repeat   *)
(* indicator sets before it is used.                                       *)
Like(i, j) ==
    /\ i \in Iterator /\ j \in Iterator /\ i.rframe = 0 /\ j.rframe = 0
    /\ j.curr = i.curr /\ j.len = i.len /\ j.frame = i.frame /\ j.from = i.from
    /\ j.long = i.long /\ j.trailing = i.trailing /\ j.fmax = i.fmax

(* Two outcomes a caller cannot tell apart, now or later. *)
Alike(r, q) ==
    /\ q.ret = r.ret /\ q.go = r.go /\ q.ext = r.ext
    /\ q.it = r.it \/ Like(r.it, q.it)

LEMMA LikeOutcomes ==
    ASSUME NEW i, NEW j, Like(i, j)
    PROVE  /\ Alike(Ended(i), Ended(j)) /\ Alike(Onto(i), Onto(j)) /\ Alike(Invalid(i), Invalid(j))
           /\ \A id, f, at, hdr : Alike(Found(i, id, f, at, hdr), Found(j, id, f, at, hdr))
<1>1. Alike(Ended(i), Ended(j))
    BY DEF Alike, Ended
<1>2. Alike(Onto(i), Onto(j))
    BY DEF Alike, Onto, Ended
<1>3. Alike(Invalid(i), Invalid(j))
    BY DEF Alike, Invalid, Ended
<1>4. ASSUME NEW id, NEW f, NEW at, NEW hdr
      PROVE  Alike(Found(i, id, f, at, hdr), Found(j, id, f, at, hdr))
    <2>1. j.curr = i.curr
        BY DEF Like
    <2> DEFINE x == [id |-> id, frame |-> f, at |-> at + hdr, len |-> i.curr - at - hdr]
    <2>2. /\ Found(i, id, f, at, hdr) = [Ended(i) EXCEPT !.ret = 1, !.ext = x]
          /\ Found(j, id, f, at, hdr) = [Ended(j) EXCEPT !.ret = 1, !.ext = x]
        BY <2>1 DEF Found
    <2> HIDE DEF x
    <2> QED BY <2>2 DEF Alike, Ended
<1> QED BY <1>1, <1>2, <1>3, <1>4

(* What reading does to an iterator it does to one like it. *)
LEMMA LikePast ==
    ASSUME NEW i, NEW j, Like(i, j), NEW a \in Int, NEW l \in Int
    PROVE  Like(PastData(i, a, l), PastData(j, a, l))
    BY DEF Like, PastData, Iterator

LEMMA LikeSeen ==
    ASSUME NEW i, NEW j, Like(i, j), NEW s, s.at \in Nat, s.len \in Nat,
           NEW id \in Nat, NEW l \in Nat
    PROVE  Like(Seen(i, s, id, l), Seen(j, s, id, l))
<1> DEFINE p == PastData(i, s.at, s.len)
           q == PastData(j, s.at, s.len)
<1>1. Like(p, q)
    BY LikePast
<1>2. Seen(i, s, id, l) = IF id >= 32 THEN [p EXCEPT !.long = s.at, !.trailing = 0]
                                      ELSE [p EXCEPT !.trailing = @ + l]
    BY DEF Seen
<1>3. Seen(j, s, id, l) = IF id >= 32 THEN [q EXCEPT !.long = s.at, !.trailing = 0]
                                      ELSE [q EXCEPT !.trailing = @ + l]
    BY DEF Seen
<1> HIDE DEF p, q
<1>4. Like([p EXCEPT !.long = s.at, !.trailing = 0], [q EXCEPT !.long = s.at, !.trailing = 0])
    <2> DEFINE a == s.at
    <2>1. a \in Int
        OBVIOUS
    <2> HIDE DEF a
    <2>2. Like([p EXCEPT !.long = a, !.trailing = 0], [q EXCEPT !.long = a, !.trailing = 0])
        BY <1>1, <2>1 DEF Like, Iterator
    <2> QED BY <2>2 DEF a
<1>5. Like([p EXCEPT !.trailing = @ + l], [q EXCEPT !.trailing = @ + l])
    <2> DEFINE t == p.trailing + l
    <2>1. p.trailing = q.trailing /\ p.trailing \in Nat
        BY <1>1 DEF Like, Iterator
    <2>2. t \in Nat
        BY <2>1
    <2>3. /\ [p EXCEPT !.trailing = @ + l] = [p EXCEPT !.trailing = t]
          /\ [q EXCEPT !.trailing = @ + l] = [q EXCEPT !.trailing = t]
        BY <2>1
    <2> HIDE DEF t
    <2>4. Like([p EXCEPT !.trailing = t], [q EXCEPT !.trailing = t])
        BY <1>1, <2>2 DEF Like, Iterator
    <2> QED BY <2>3, <2>4
<1> QED BY <1>2, <1>3, <1>4, <1>5

LEMMA LikeMoved ==
    ASSUME NEW i, NEW j, Like(i, j), NEW s, s.at \in Nat, s.len \in Nat, NEW k \in Nat
    PROVE  /\ Like(Moved(i, s, k), Moved(j, s, k))
           /\ Like([Moved(i, s, k) EXCEPT !.len = -1], [Moved(j, s, k) EXCEPT !.len = -1])
           /\ Like(Separated(i, s, k), Separated(j, s, k))
<1> DEFINE p == PastData(i, s.at, s.len)
           q == PastData(j, s.at, s.len)
           x == Moved(i, s, k)
           y == Moved(j, s, k)
<1>1. Like(p, q)
    BY LikePast
<1>2. Like(x, y)
    <2>1. x = [p EXCEPT !.frame = @ + k] /\ y = [q EXCEPT !.frame = @ + k]
        BY DEF Moved
    <2> HIDE DEF p, q, x, y
    <2> QED BY <1>1, <2>1 DEF Like, Iterator
<1>3. /\ Separated(i, s, k) = [x EXCEPT !.len = IF x.frame >= i.fmax THEN 0 ELSE @,
                                        !.from = s.at, !.long = -1, !.trailing = 0]
      /\ Separated(j, s, k) = [y EXCEPT !.len = IF y.frame >= j.fmax THEN 0 ELSE @,
                                        !.from = s.at, !.long = -1, !.trailing = 0]
    BY DEF Separated
<1> HIDE DEF p, q, x, y
<1>4. Like([x EXCEPT !.len = -1], [y EXCEPT !.len = -1])
    BY <1>2 DEF Like, Iterator
<1>5. Like(Separated(i, s, k), Separated(j, s, k))
    <2> DEFINE c == IF x.frame >= i.fmax THEN 0 ELSE x.len
    <2>1. /\ x.frame = y.frame /\ x.len = y.len /\ i.fmax = j.fmax /\ x.len \in Int
        BY <1>2 DEF Like, Iterator
    <2>2. c \in Int
        BY <2>1
    <2>3. /\ Separated(i, s, k) = [x EXCEPT !.len = c, !.from = s.at, !.long = -1, !.trailing = 0]
          /\ Separated(j, s, k) = [y EXCEPT !.len = c, !.from = s.at, !.long = -1, !.trailing = 0]
        BY <1>3, <2>1
    <2> HIDE DEF c
    <2> DEFINE a == s.at
               new(z) == [z EXCEPT !.len = c, !.from = a, !.long = -1, !.trailing = 0]
    <2>4. ASSUME NEW z \in Iterator
          PROVE  /\ new(z) \in Iterator
                 /\ new(z).curr = z.curr /\ new(z).len = c /\ new(z).frame = z.frame
                 /\ new(z).from = a /\ new(z).rframe = z.rframe /\ new(z).long = -1
                 /\ new(z).trailing = 0 /\ new(z).fmax = z.fmax
        <3>1. a \in Nat /\ -1 \in Int /\ 0 \in Nat
            OBVIOUS
        <3> HIDE DEF a
        <3>2. new(z) \in Iterator
            BY <2>2, <2>4, <3>1 DEF Iterator
        <3>3. /\ new(z).curr = z.curr /\ new(z).len = c /\ new(z).frame = z.frame
              /\ new(z).from = a /\ new(z).rframe = z.rframe
            BY <2>4 DEF Iterator
        <3>4. new(z).long = -1 /\ new(z).trailing = 0 /\ new(z).fmax = z.fmax
            BY <2>4 DEF Iterator
        <3> QED BY <3>2, <3>3, <3>4
    <2>5. Separated(i, s, k) = new(x) /\ Separated(j, s, k) = new(y)
        BY <2>3
    <2>6. x \in Iterator /\ y \in Iterator
        BY <1>2 DEF Like
    <2> HIDE DEF new
    <2>7. Like(new(x), new(y))
        BY <1>2, <2>4, <2>6 DEF Like
    <2> QED BY <2>5, <2>7
<1> QED BY <1>2, <1>4, <1>5 DEF x, y

(* A repeat indicator makes them equal. *)
LEMMA LikeIndicated ==
    ASSUME NEW i, NEW j, Like(i, j), NEW s, NEW l
    PROVE  Indicated(i, s, l) = Indicated(j, s, l)
<1>1. /\ i.curr = j.curr /\ i.from = j.from /\ i.frame = j.frame
      /\ i.long = j.long /\ i.trailing = j.trailing /\ i.fmax = j.fmax
    BY DEF Like
<1> DEFINE d == i.curr - i.from
           f == i.frame + 1
           rec(c) == [curr |-> s.at, len |-> s.len, frame |-> c.frame, from |-> c.from,
                      src |-> i.from, srclen |-> d, rframe |-> f, replen |-> d,
                      long |-> c.long, trailing |-> c.trailing, L |-> l, fmax |-> c.fmax]
<1>2. ASSUME NEW c \in Iterator, c.curr = i.curr, c.from = i.from, c.frame = i.frame
      PROVE  Indicated(c, s, l) = rec(c)
    <2>1. Indicated(c, s, l) =
             [PastData(c, s.at, s.len) EXCEPT !.L = l, !.rframe = f, !.replen = d,
                                              !.src = i.from, !.srclen = d]
        BY <1>2 DEF Indicated
    <2> HIDE DEF d, f
    <2> QED BY <1>2, <2>1 DEF PastData, Iterator
<1>3. i \in Iterator /\ j \in Iterator
    BY DEF Like
<1>4. Indicated(i, s, l) = rec(i) /\ Indicated(j, s, l) = rec(j)
    <2> HIDE DEF rec
    <2> QED BY <1>1, <1>2, <1>3
<1>5. rec(i) = rec(j)
    BY <1>1
<1> QED BY <1>4, <1>5

LEMMA LikeSelf ==
    ASSUME NEW r
    PROVE  Alike(r, r)
    BY DEF Alike

LEMMA ReadPassLike ==
    ASSUME NEW m, Octets(m), NEW n \in Nat, NEW i \in Reading(m), NEW j \in Reading(m), Like(i, j)
    PROVE  Alike(ReadPass(m, i, n), ReadPass(m, j, n))
<1>1. /\ j.curr = i.curr /\ j.len = i.len /\ j.frame = i.frame /\ i.len \in Int /\ j.len \in Int
    BY ReadingIs, IteratorIs DEF Like
<1>2. CASE i.len <= 0
    <2>1. ReadPass(m, i, n) = Ended(i) /\ ReadPass(m, j, n) = Ended(j)
        BY <1>1, <1>2 DEF ReadPass
    <2> QED BY <2>1, LikeOutcomes
<1>3. CASE i.len > 0
    <2> DEFINE s == Skip(m, i.curr, i.len)
               r == ReadOne(m, i, n, s)
               q == ReadOne(m, j, n, s)
               b == IdAt(m, i)
               id == IdOf(b)
               l == FlagOf(b)
               k == MovesBy(m, i)
    <2>1. ReadPass(m, i, n) = r /\ ReadPass(m, j, n) = q
        BY <1>1, <1>3 DEF ReadPass
    <2>2. SkipsOn(s, i.curr, i.len) /\ s.at \in Nat /\ s.len \in Int /\ b \in 0 .. 255
        BY <1>3, DataSkipped
    <2>3. id \in 0 .. 127 /\ l \in 0 .. 1
        <3> HIDE DEF b
        <3> QED BY <2>2, IdAndFlag
    <2>4. IdAt(m, j) = b /\ MovesBy(m, j) = k
        BY <1>1 DEF IdAt, MovesBy
    <2>5. ReadOutcomes(m, i, n, s, id, l, k, r)
        BY <2>3, ReadOneIs
    <2>6. ReadOutcomes(m, j, n, s, id, l, k, q)
        <3>1. IdOf(IdAt(m, j)) \in 0 .. 127
            BY <2>3, <2>4
        <3>2. ReadOutcomes(m, j, n, s, IdOf(IdAt(m, j)), FlagOf(IdAt(m, j)), MovesBy(m, j), q)
            BY <3>1, ReadOneIs
        <3> QED BY <2>4, <3>2
    <2>7. id = 1 /\ s.len >= 0 => k \in Nat
        BY <1>3, SeparatorMoves
    <2> HIDE DEF s, r, q, b, id, l, k
    <2>8. Alike(r, q)
        <3>1. CASE s.len < 0
            <4>1. /\ r = Invalid(PastData(i, s.at, s.len)) /\ q = Invalid(PastData(j, s.at, s.len))
                BY <2>5, <2>6, <3>1 DEF ReadOutcomes
            <4>2. Like(PastData(i, s.at, s.len), PastData(j, s.at, s.len))
                BY <2>2, LikePast
            <4> QED BY <4>1, <4>2, LikeOutcomes
        <3>2. CASE ~(s.len < 0) /\ (id = 0 \/ (id = 1 /\ k = 0))
            <4>1. /\ r = Onto(PastData(i, s.at, s.len)) /\ q = Onto(PastData(j, s.at, s.len))
                BY <2>5, <2>6, <3>2 DEF ReadOutcomes
            <4>2. Like(PastData(i, s.at, s.len), PastData(j, s.at, s.len))
                BY <2>2, LikePast
            <4> QED BY <4>1, <4>2, LikeOutcomes
        <3>3. CASE ~(s.len < 0) /\ id = 1 /\ k # 0
            <4>1. k \in Nat /\ s.len \in Nat
                BY <2>2, <2>7, <3>3
            <4>2. /\ Like(Moved(i, s, k), Moved(j, s, k))
                  /\ Like([Moved(i, s, k) EXCEPT !.len = -1], [Moved(j, s, k) EXCEPT !.len = -1])
                  /\ Like(Separated(i, s, k), Separated(j, s, k))
                BY <2>2, <4>1, LikeMoved
            <4>3. Moved(i, s, k).frame = Moved(j, s, k).frame
                BY <4>2 DEF Like
            <4>4. CASE Moved(i, s, k).frame >= n
                <5>1. /\ r = Invalid([Moved(i, s, k) EXCEPT !.len = -1])
                      /\ q = Invalid([Moved(j, s, k) EXCEPT !.len = -1])
                    BY <2>5, <2>6, <3>3, <4>3, <4>4 DEF ReadOutcomes
                <5> QED BY <4>2, <5>1, LikeOutcomes
            <4>5. CASE ~(Moved(i, s, k).frame >= n)
                <5>1. r = Onto(Separated(i, s, k)) /\ q = Onto(Separated(j, s, k))
                    BY <2>5, <2>6, <3>3, <4>3, <4>5 DEF ReadOutcomes
                <5> QED BY <4>2, <5>1, LikeOutcomes
            <4> QED BY <4>4, <4>5
        <3>4. CASE ~(s.len < 0) /\ id = 2
            <4>1. /\ r = AfterRepeat(NextRepeat(m, Indicated(i, s, l), n))
                  /\ q = AfterRepeat(NextRepeat(m, Indicated(j, s, l), n))
                BY <2>5, <2>6, <3>4 DEF ReadOutcomes
            <4>2. Indicated(i, s, l) = Indicated(j, s, l)
                BY LikeIndicated
            <4>3. r = q
                BY <4>1, <4>2
            <4> QED BY <4>3, LikeSelf
        <3>5. CASE ~(s.len < 0) /\ id > 2
            <4>1. /\ r = Found(Seen(i, s, id, l), id, i.frame, i.curr, s.hdr)
                  /\ q = Found(Seen(j, s, id, l), id, i.frame, i.curr, s.hdr)
                BY <1>1, <2>5, <2>6, <3>5 DEF ReadOutcomes
            <4>2. s.len \in Nat /\ id \in Nat /\ l \in Nat
                BY <2>2, <2>3, <3>5
            <4>3. Like(Seen(i, s, id, l), Seen(j, s, id, l))
                BY <2>2, <4>2, LikeSeen
            <4> QED BY <4>1, <4>3, LikeOutcomes
        <3>6. id = 0 \/ id = 1 \/ id = 2 \/ id > 2
            BY <2>3
        <3> QED BY <3>1, <3>2, <3>3, <3>4, <3>5, <3>6, Zenon
    <2> QED BY <2>1, <2>8
<1> QED BY <1>1, <1>2, <1>3

(* A set that holds where the loop over the data ends, and with each       *)
(* pass's outcome what led to it, holds everything.                        *)
LEMMA ReadInduction ==
    ASSUME NEW m, Octets(m), NEW n \in Nat, NEW T,
           \A i \in Reading(m) :
              (ReadPass(m, i, n).go => ReadPass(m, i, n).it \in T) => i \in T
    PROVE  Reading(m) \subseteq T
<1> DEFINE G == {k \in Nat : \A i \in Reading(m) : ReadWeight(i) < k => i \in T}
<1>1. 0 \in G
    <2>1. \A i \in Reading(m) : ReadWeight(i) \in Nat
        BY ReadWeightNat
    <2> QED BY <2>1
<1>2. ASSUME NEW k \in Nat, k \in G PROVE k + 1 \in G
    <2> SUFFICES ASSUME NEW i \in Reading(m), ReadWeight(i) < k + 1 PROVE i \in T
        OBVIOUS
    <2>1. ReadWeight(i) \in Nat
        BY ReadWeightNat
    <2>2. ASSUME ReadPass(m, i, n).go PROVE ReadPass(m, i, n).it \in T
        <3> DEFINE j == ReadPass(m, i, n).it
        <3>1. j \in Reading(m) /\ ReadWeight(j) < ReadWeight(i)
            BY <2>2, ReadGoes DEF ReadStep
        <3> HIDE DEF j
        <3>2. ReadWeight(j) \in Nat
            BY <3>1, ReadWeightNat
        <3>3. ReadWeight(j) < k
            BY <2>1, <3>1, <3>2
        <3>4. j \in T
            BY <1>2, <3>1, <3>3
        <3> QED BY <3>4 DEF j
    <2> QED BY <2>2
<1>3. Nat \subseteq G
    <2> HIDE DEF G
    <2> QED BY <1>1, <1>2, ByNumbers
<1> SUFFICES ASSUME NEW i \in Reading(m) PROVE i \in T
    OBVIOUS
<1>4. ReadWeight(i) \in Nat
    BY ReadWeightNat
<1>5. ReadWeight(i) + 1 \in G
    <2> HIDE DEF G
    <2> QED BY <1>3, <1>4
<1>6. ReadWeight(i) < ReadWeight(i) + 1
    BY <1>4
<1> QED BY <1>5, <1>6

LEMMA ReadLoopLike ==
    ASSUME NEW m, Octets(m), NEW n \in Nat, NEW i0 \in Reading(m), NEW j0 \in Reading(m),
           Like(i0, j0)
    PROVE  Alike(ReadLoop(m, n)[i0], ReadLoop(m, n)[j0])
<1> DEFINE f == ReadLoop(m, n)
           T == {i \in Reading(m) : \A j \in Reading(m) : Like(i, j) => Alike(f[i], f[j])}
<1>1. ASSUME NEW i \in Reading(m), ReadPass(m, i, n).go => ReadPass(m, i, n).it \in T
      PROVE  i \in T
    <2> SUFFICES ASSUME NEW j \in Reading(m), Like(i, j) PROVE Alike(f[i], f[j])
        OBVIOUS
    <2> DEFINE r == ReadPass(m, i, n)
               q == ReadPass(m, j, n)
    <2>1. f[i] = (IF r.go THEN f[r.it] ELSE r) /\ f[j] = (IF q.go THEN f[q.it] ELSE q)
        BY ReadLoopIs
    <2>2. Alike(r, q)
        BY ReadPassLike
    <2>3. q.go => q.it \in Reading(m)
        <3>1. ReadStep(m, j, q)
            BY ReadGoes
        <3> HIDE DEF q
        <3> QED BY <3>1 DEF ReadStep
    <2>4. r.go => r.it \in T
        BY <1>1
    <2> HIDE DEF r, q, f
    <2>5. CASE ~r.go
        <3>1. ~q.go
            BY <2>2, <2>5 DEF Alike
        <3> QED BY <2>1, <2>2, <2>5, <3>1
    <2>6. CASE r.go
        <3>1. q.go /\ (q.it = r.it \/ Like(r.it, q.it))
            BY <2>2, <2>6 DEF Alike
        <3>2. f[i] = f[r.it] /\ f[j] = f[q.it]
            BY <2>1, <2>6, <3>1
        <3>3. CASE q.it = r.it
            BY <3>2, <3>3, LikeSelf
        <3>4. CASE Like(r.it, q.it)
            <4>1. r.it \in T /\ q.it \in Reading(m)
                BY <2>3, <2>4, <2>6, <3>1
            <4>2. Alike(f[r.it], f[q.it])
                BY <3>4, <4>1
            <4> QED BY <3>2, <4>2
        <3> QED BY <3>1, <3>3, <3>4
    <2> QED BY <2>5, <2>6
<1>2. Reading(m) \subseteq T
    <2> HIDE DEF T
    <2> QED BY <1>1, ReadInduction
<1> QED BY <1>2

(* What the loop comes to between extensions, sound or not. *)
LEMMA ReadLoopOut ==
    ASSUME NEW m, Octets(m), NEW n \in Nat, NEW i0 \in Reading(m), i0.rframe = 0
    PROVE  /\ ~ReadLoop(m, n)[i0].go
           /\ ReadLoop(m, n)[i0].ret = 0 =>
                 ReadLoop(m, n)[i0].it.len <= 0 /\ ReadLoop(m, n)[i0].it.rframe = 0
           /\ ~(ReadLoop(m, n)[i0].ret <= 0) =>
                 /\ ReadLoop(m, n)[i0].it \in Callable(m)
                 /\ ReadWeight(ReadLoop(m, n)[i0].it) < ReadWeight(i0)
<1> DEFINE f == ReadLoop(m, n)
           Done(i, z) ==
               /\ ~z.go
               /\ z.ret = 0 => z.it.len <= 0 /\ z.it.rframe = 0
               /\ ~(z.ret <= 0) => z.it \in Callable(m) /\ ReadWeight(z.it) < ReadWeight(i)
           T == {i \in Reading(m) : i.rframe = 0 => Done(i, f[i])}
<1>1. ASSUME NEW i \in Reading(m), ReadPass(m, i, n).go => ReadPass(m, i, n).it \in T
      PROVE  i \in T
    <2> SUFFICES ASSUME i.rframe = 0 PROVE Done(i, f[i])
        OBVIOUS
    <2> DEFINE r == ReadPass(m, i, n)
               z == f[i]
               y == f[r.it]
    <2>1. z = IF r.go THEN y ELSE r
        BY ReadLoopIs
    <2>2. ReadStep(m, i, r)
        BY ReadGoes
    <2>3. r.go => r.it \in T
        BY <1>1
    <2>4. CASE ~r.go
        <3> HIDE DEF r, z, y
        <3>1. z = r
            BY <2>1, <2>4
        <3>2. Done(i, r)
            BY <2>2, <2>4 DEF ReadStep
        <3> QED BY <3>1, <3>2 DEF z
    <2>5. CASE r.go
        <3>1. z = y /\ r.it \in Reading(m) /\ r.it.rframe = 0 /\ ReadWeight(r.it) < ReadWeight(i)
            <4> HIDE DEF r, z, y
            <4> QED BY <2>1, <2>2, <2>5 DEF ReadStep
        <3>2. Done(r.it, y)
            BY <2>3, <2>5, <3>1
        <3>3. ReadWeight(i) \in Nat /\ ReadWeight(r.it) \in Nat
            BY <3>1, ReadWeightNat
        <3> HIDE DEF r, y, z
        <3>4. ~(y.ret <= 0) => ReadWeight(y.it) \in Nat
            <4>1. Callable(m) \subseteq Reading(m)
                BY DEF Callable
            <4> QED BY <3>2, <4>1, ReadWeightNat
        <3>5. Done(i, y)
            BY <3>1, <3>2, <3>3, <3>4
        <3> QED BY <3>1, <3>5 DEF z
    <2> QED BY <2>4, <2>5
<1>2. Reading(m) \subseteq T
    <2> HIDE DEF T
    <2> QED BY <1>1, ReadInduction
<1>3. Done(i0, f[i0])
    BY <1>2
<1> QED BY <1>3

(* A call, by the loops it goes through. *)
FirstOf(m, n, i) == IF i.rframe > 0 THEN NextRepeat(m, i, n) ELSE Ended(i)

LEMMA NextIs ==
    ASSUME NEW m, NEW n, NEW i
    PROVE  IteratorNext(m, i, n) =
              IF i.len < 0 THEN Invalid(i)
              ELSE IF \/ FirstOf(m, n, i).ret # 0
                      \/ FirstOf(m, n, i).it.frame >= FirstOf(m, n, i).it.fmax
              THEN FirstOf(m, n, i)
              ELSE ReadLoop(m, n)[FirstOf(m, n, i).it]
<1> DEFINE first == FirstOf(m, n, i)
<1>1. IteratorNext(m, i, n) = IF i.len < 0 THEN Invalid(i) ELSE ReadOn(m, first, n)
    BY DEF IteratorNext, FirstOf
<1> HIDE DEF first
<1>2. ReadOn(m, first, n) =
         IF first.ret # 0 \/ first.it.frame >= first.it.fmax THEN first
         ELSE ReadLoop(m, n)[first.it]
    BY Zenon DEF ReadOn, ReadLoop
<1>3. IteratorNext(m, i, n) =
         IF i.len < 0 THEN Invalid(i)
         ELSE IF first.ret # 0 \/ first.it.frame >= first.it.fmax THEN first
         ELSE ReadLoop(m, n)[first.it]
    BY <1>1, <1>2
<1> QED BY <1>3 DEF first

(* What is left of the loop over calls: first the data, then what is still *)
(* to be repeated.                                                         *)
Repeats(m, n) == n * (Len(m) + 1) + Len(m) + 1

ToRepeat(m, n, i) == IF i.rframe > 0 THEN RepeatWeight(m, n, i) ELSE 0

CallWeight(m, n, i) == ReadWeight(i) * Repeats(m, n) + ToRepeat(m, n, i)

LEMMA Lexical ==
    ASSUME NEW a \in Nat, NEW b \in Nat, NEW k \in Nat, NEW p \in Nat, NEW q \in Nat,
           p < k, a < b \/ (a <= b /\ p < q)
    PROVE  a * k + p < b * k + q
<1>1. a * k \in Nat /\ b * k \in Nat
    OBVIOUS
<1>2. CASE a < b
    <2>1. PICK d \in Nat : b = a + 1 + d
        <3>1. b - a - 1 \in Nat /\ b = a + 1 + (b - a - 1)
            BY <1>2
        <3> QED BY <3>1
    <2>2. b * k = a * k + k + d * k /\ d * k \in Nat
        BY <2>1
    <2> QED BY <1>1, <2>2
<1>3. CASE a <= b /\ p < q
    <2>1. PICK d \in Nat : b = a + d
        <3>1. b - a \in Nat /\ b = a + (b - a)
            BY <1>3
        <3> QED BY <3>1
    <2>2. b * k = a * k + d * k /\ d * k \in Nat
        BY <2>1
    <2> QED BY <1>1, <1>3, <2>2
<1> QED BY <1>2, <1>3

LEMMA CallParts ==
    ASSUME NEW m, Octets(m), NEW n \in Nat, NEW i \in Callable(m)
    PROVE  /\ i \in Reading(m) /\ ReadWeight(i) \in Nat /\ ReadWeight(i) <= Len(m)
           /\ Repeats(m, n) \in Nat /\ ToRepeat(m, n, i) \in Nat
           /\ ToRepeat(m, n, i) < Repeats(m, n)
           /\ i.rframe \in Nat /\ i.len \in Int /\ Len(m) \in Nat
<1>1. i \in Reading(m) /\ (i.rframe > 0 => i \in Repeating(m))
    BY DEF Callable
<1>2. ReadWeight(i) \in Nat /\ ReadWeight(i) <= Len(m)
    BY <1>1, ReadWeightNat
<1>3. i.rframe \in Nat /\ i.len \in Int /\ Len(m) \in Nat
    BY <1>1, ReadingIs, IteratorIs, LengthNat
<1> DEFINE x == n * (Len(m) + 1)
<1>4. x \in Nat
    BY <1>3
<1>5. i.rframe > 0 => RepeatWeight(m, n, i) \in Nat /\ RepeatWeight(m, n, i) <= x + Len(m)
    BY <1>1, WeightNat
<1>6. Repeats(m, n) = x + Len(m) + 1
    BY DEF Repeats
<1> HIDE DEF x
<1>7. /\ Repeats(m, n) \in Nat /\ ToRepeat(m, n, i) \in Nat /\ ToRepeat(m, n, i) < Repeats(m, n)
    BY <1>3, <1>4, <1>5, <1>6 DEF ToRepeat
<1> QED BY <1>1, <1>2, <1>3, <1>7

LEMMA CallWeightNat ==
    ASSUME NEW m, Octets(m), NEW n \in Nat, NEW i \in Callable(m)
    PROVE  /\ CallWeight(m, n, i) \in Nat
           /\ (Len(m) + 1) * Repeats(m, n) \in Nat
           /\ CallWeight(m, n, i) <= (Len(m) + 1) * Repeats(m, n)
<1> DEFINE a == ReadWeight(i)
           k == Repeats(m, n)
           p == ToRepeat(m, n, i)
           l == Len(m)
<1>1. a \in Nat /\ k \in Nat /\ p \in Nat /\ p < k /\ l \in Nat /\ a <= l
    BY CallParts
<1>2. CallWeight(m, n, i) = a * k + p
    BY DEF CallWeight
<1> HIDE DEF a, k, p, l
<1>3. a * k \in Nat /\ (l + 1) * k \in Nat
    BY <1>1
<1>4. a * k + p < (l + 1) * k + 0
    <2>1. a < l + 1 /\ l + 1 \in Nat
        BY <1>1
    <2> QED BY <1>1, <2>1, Lexical
<1>5. a * k + p \in Nat /\ a * k + p <= (l + 1) * k
    BY <1>1, <1>3, <1>4
<1> QED BY <1>2, <1>3, <1>5 DEF k, l

(* The caller may go on calling, and not for ever. *)
LEMMA NextCallable ==
    ASSUME NEW m, Octets(m), NEW n \in Nat, NEW i \in Callable(m),
           ~(IteratorNext(m, i, n).ret <= 0)
    PROVE  /\ IteratorNext(m, i, n).it \in Callable(m)
           /\ CallWeight(m, n, IteratorNext(m, i, n).it) < CallWeight(m, n, i)
<1> DEFINE z == IteratorNext(m, i, n)
           first == FirstOf(m, n, i)
<1>1. /\ i \in Reading(m) /\ i.rframe \in Nat /\ i.len \in Int
      /\ i.rframe > 0 => i \in Repeating(m)
    BY CallParts DEF Callable
<1>2. ~(z.ret <= 0)
    OBVIOUS
<1>3. z = IF i.len < 0 THEN Invalid(i)
          ELSE IF first.ret # 0 \/ first.it.frame >= first.it.fmax THEN first
          ELSE ReadLoop(m, n)[first.it]
    BY NextIs
<1>4. i.rframe > 0 => first = NextRepeat(m, i, n)
    BY DEF FirstOf
<1>5. ~(i.rframe > 0) => first = Ended(i)
    BY DEF FirstOf
<1>6. i.rframe > 0 => Repeated(m, n, i, first)
    BY <1>1, <1>4, NextRepeatFacts
<1> HIDE DEF z, first
<1>7. ~(i.len < 0)
    BY <1>2, <1>3, OutcomesAre
<1>8. /\ z.it \in Callable(m)
      /\ \/ ReadWeight(z.it) < ReadWeight(i)
         \/ ReadWeight(z.it) <= ReadWeight(i) /\ ToRepeat(m, n, z.it) < ToRepeat(m, n, i)
    <2>1. CASE first.ret # 0 \/ first.it.frame >= first.it.fmax
        <3>1. z = first
            BY <1>3, <1>7, <2>1
        <3>2. i.rframe > 0
            BY <1>2, <1>5, <3>1, OutcomesAre
        <3>3. /\ z.it \in Repeating(m) /\ RepeatWeight(m, n, z.it) < RepeatWeight(m, n, i)
              /\ i.len >= 0 /\ z.it.len \in 0 .. i.len
            BY <1>2, <1>6, <3>1, <3>2 DEF Repeated
        <3>4. z.it \in Callable(m)
            BY <3>3 DEF Callable, Repeating
        <3>5. ReadWeight(z.it) <= ReadWeight(i)
            BY <1>1, <3>3 DEF ReadWeight
        <3>6. RepeatWeight(m, n, z.it) \in Nat /\ RepeatWeight(m, n, i) \in Nat
            BY <1>1, <3>2, <3>3, WeightNat
        <3>7. ToRepeat(m, n, z.it) < ToRepeat(m, n, i)
            BY <3>2, <3>3, <3>6 DEF ToRepeat
        <3> QED BY <3>4, <3>5, <3>7
    <2>2. CASE ~(first.ret # 0 \/ first.it.frame >= first.it.fmax)
        <3>1. z = ReadLoop(m, n)[first.it]
            BY <1>3, <1>7, <2>2
        <3>2. /\ first.it \in Reading(m) /\ first.it.rframe = 0
              /\ ReadWeight(first.it) <= ReadWeight(i)
            <4>1. CASE i.rframe > 0
                <5>1. first.it \in Reading(m) /\ first.it.rframe = 0 /\ first.it.len \in 0 .. i.len
                    BY <1>1, <1>6, <1>7, <2>2, <4>1 DEF Repeated
                <5> QED BY <1>1, <1>7, <5>1 DEF ReadWeight
            <4>2. CASE ~(i.rframe > 0)
                <5>1. first.it = i /\ i.rframe = 0
                    BY <1>1, <1>5, <4>2, OutcomesAre
                <5>2. ReadWeight(i) \in Nat
                    BY <1>1, ReadWeightNat
                <5> QED BY <1>1, <5>1, <5>2
            <4> QED BY <4>1, <4>2
        <3>3. z.it \in Callable(m) /\ ReadWeight(z.it) < ReadWeight(first.it)
            BY <1>2, <3>1, <3>2, ReadLoopOut
        <3>4. ReadWeight(z.it) \in Nat /\ ReadWeight(first.it) \in Nat /\ ReadWeight(i) \in Nat
            BY <1>1, <3>2, <3>3, ReadWeightNat DEF Callable
        <3> QED BY <3>2, <3>3, <3>4
    <2> QED BY <2>1, <2>2
<1>9. CallWeight(m, n, z.it) < CallWeight(m, n, i)
    <2> DEFINE a == ReadWeight(z.it)
               b == ReadWeight(i)
               k == Repeats(m, n)
               p == ToRepeat(m, n, z.it)
               q == ToRepeat(m, n, i)
    <2>1. a \in Nat /\ k \in Nat /\ p \in Nat /\ p < k
        BY <1>8, CallParts
    <2>2. b \in Nat /\ q \in Nat
        BY CallParts
    <2>3. a < b \/ (a <= b /\ p < q)
        BY <1>8
    <2> HIDE DEF a, b, k, p, q
    <2>4. a * k + p < b * k + q
        BY <2>1, <2>2, <2>3, Lexical
    <2> QED BY <2>4 DEF CallWeight, a, b, k, p, q
<1> QED BY <1>8, <1>9 DEF z

(* A call cannot tell the two apart either. *)
LEMMA NextLike ==
    ASSUME NEW m, Octets(m), NEW n \in Nat, NEW i, Kept(m, n, i), NEW j \in Callable(m),
           j = i \/ Like(i, j)
    PROVE  Alike(IteratorNext(m, i, n), IteratorNext(m, j, n))
<1>1. CASE j = i
    BY <1>1, LikeSelf
<1>2. CASE Like(i, j)
    <2>1. /\ i.rframe = 0 /\ j.rframe = 0 /\ j.len = i.len /\ j.frame = i.frame /\ j.fmax = i.fmax
        BY <1>2 DEF Like
    <2>2. FirstOf(m, n, i) = Ended(i) /\ FirstOf(m, n, j) = Ended(j)
        BY <2>1 DEF FirstOf
    <2>3. /\ Ended(i).ret = 0 /\ Ended(i).it = i /\ Ended(j).ret = 0 /\ Ended(j).it = j
        BY OutcomesAre
    <2>4. IteratorNext(m, i, n) = IF i.len < 0 THEN Invalid(i)
                                  ELSE IF i.frame >= i.fmax THEN Ended(i)
                                  ELSE ReadLoop(m, n)[i]
        BY <2>2, <2>3, NextIs
    <2>5. IteratorNext(m, j, n) = IF j.len < 0 THEN Invalid(j)
                                  ELSE IF j.frame >= j.fmax THEN Ended(j)
                                  ELSE ReadLoop(m, n)[j]
        BY <2>2, <2>3, NextIs
    <2>6. CASE i.len < 0
        BY <1>2, <2>1, <2>4, <2>5, <2>6, LikeOutcomes
    <2>7. CASE ~(i.len < 0) /\ i.frame >= i.fmax
        BY <1>2, <2>1, <2>4, <2>5, <2>7, LikeOutcomes
    <2>8. CASE ~(i.len < 0) /\ ~(i.frame >= i.fmax)
        <3>1. i \in Reading(m) /\ j \in Reading(m)
            <4>1. ~Amid(m, n, i)
                BY <2>1 DEF Amid
            <4> QED BY <2>8, <4>1 DEF Kept, Sound, Callable
        <3>2. Alike(ReadLoop(m, n)[i], ReadLoop(m, n)[j])
            BY <1>2, <3>1, ReadLoopLike
        <3> QED BY <2>1, <2>4, <2>5, <2>8, <3>2
    <2> QED BY <2>6, <2>7, <2>8
<1> QED BY <1>1, <1>2

(* Behind the end, or an error, there is nothing more. *)
LEMMA StoppedStays ==
    ASSUME NEW m, Octets(m), NEW n \in Nat, NEW i, Kept(m, n, i),
           IteratorNext(m, i, n).ret <= 0
    PROVE  IteratorNext(m, IteratorNext(m, i, n).it, n).ret <= 0
<1> DEFINE r == IteratorNext(m, i, n)
           j == r.it
           z == IteratorNext(m, j, n)
           first == FirstOf(m, n, i)
<1>1. Returned(m, n, Left(n, i), r) /\ r.ret <= 0
    BY NextReturns
<1>2. r = IF i.len < 0 THEN Invalid(i)
          ELSE IF first.ret # 0 \/ first.it.frame >= first.it.fmax THEN first
          ELSE ReadLoop(m, n)[first.it]
    BY NextIs
<1>3. z = IF j.len < 0 THEN Invalid(j)
          ELSE IF FirstOf(m, n, j).ret # 0 \/ FirstOf(m, n, j).it.frame >= FirstOf(m, n, j).it.fmax
          THEN FirstOf(m, n, j)
          ELSE ReadLoop(m, n)[FirstOf(m, n, j).it]
    BY NextIs
<1>4. /\ Ended(j).ret = 0 /\ Ended(j).it = j /\ ~Ended(j).go /\ Invalid(j).ret = -4
      /\ Invalid(i).ret = -4 /\ Ended(i).it = i
    BY OutcomesAre
<1> HIDE DEF r, z, first
<1>5. CASE j.len < 0
    <2>1. z.ret = -4
        BY <1>3, <1>4, <1>5
    <2> QED BY <2>1 DEF z, r
<1>6. CASE ~(j.len < 0)
    <2>1. r.ret = 0 /\ Sound(m, n, j)
        BY <1>1, <1>6 DEF Returned
    <2>2. ~(j.rframe > 0) /\ j \in Reading(m)
        BY <2>1 DEF Sound
    <2>3. FirstOf(m, n, j) = Ended(j)
        BY <2>2 DEF FirstOf
    <2>4. z = IF j.frame >= j.fmax THEN Ended(j) ELSE ReadLoop(m, n)[j]
        BY <1>3, <1>4, <1>6, <2>3
    <2>5. ASSUME ~(j.frame >= j.fmax) PROVE ReadLoop(m, n)[j] = Ended(j)
        <3>1. ~(i.len < 0)
            BY <1>2, <1>4, <2>1
        <3>2. ~(first.ret # 0 \/ first.it.frame >= first.it.fmax)
            BY <1>2, <2>1, <2>5, <3>1
        <3>3. r = ReadLoop(m, n)[first.it]
            BY <1>2, <3>1, <3>2
        <3>4. first.it \in Reading(m) /\ first.it.rframe = 0
            <4>1. i \in Iterator /\ i.rframe \in Nat /\ (Amid(m, n, i) \/ Sound(m, n, i))
                BY <3>1, IteratorIs DEF Kept
            <4>2. CASE i.rframe > 0
                <5>1. i \in Repeating(m) /\ i.len >= 0
                    BY <4>1, <4>2 DEF Amid, Sound
                <5>2. Repeated(m, n, i, first)
                    BY <4>2, <5>1, NextRepeatFacts DEF first, FirstOf
                <5> QED BY <3>2, <5>1, <5>2 DEF Repeated
            <4>3. CASE ~(i.rframe > 0)
                <5>1. first.it = i
                    BY <1>4, <4>3 DEF first, FirstOf
                <5>2. i \in Reading(m) /\ i.rframe = 0
                    BY <4>1, <4>3 DEF Amid, Sound
                <5> QED BY <5>1, <5>2
            <4> QED BY <4>2, <4>3
        <3>5. j.len <= 0
            BY <2>1, <3>3, <3>4, ReadLoopOut
        <3>6. ReadPass(m, j, n) = Ended(j)
            BY <3>5 DEF ReadPass
        <3> QED BY <1>4, <2>2, <3>6, ReadLoopIs
    <2>6. z.ret = 0
        BY <1>4, <2>4, <2>5
    <2> QED BY <2>6 DEF z, r
<1> QED BY <1>5, <1>6

(* The loop over calls. *)

(* A walk whose steps go on only to something smaller has an outcome. *)
LEMMA WalkEnds ==
    ASSUME NEW S, NEW step, NEW w \in [S -> Nat], NEW bound \in Nat,
           \A x \in S : w[x] <= bound,
           \A x \in S : ~(step[x].ret <= 0) => step[x].it \in S /\ w[step[x].it] < w[x]
    PROVE  \E f : f = [x \in S |-> IF step[x].ret <= 0 THEN [ret |-> step[x].ret, exts |-> <<>>]
                                   ELSE [f[step[x].it] EXCEPT !.exts = <<step[x].ext>> \o @]]
<1> DEFINE Behind(e, v) == [v EXCEPT !.exts = <<e>> \o @]
           None(x) == [ret |-> step[x].ret, exts |-> <<>>]
           Next1(h, x) == IF step[x].ret <= 0 THEN None(x) ELSE Behind(step[x].ext, h[step[x].it])
           Upto(k, h) == /\ h = [x \in S |-> h[x]]
                         /\ \A x \in S : w[x] < k => h[x] = Next1(h, x)
           G == {k \in Nat : \E h : Upto(k, h)}
<1> HIDE DEF Behind, None
<1>1. 0 \in G
    <2>1. \A x \in S : ~(w[x] < 0)
        OBVIOUS
    <2>2. Upto(0, [x \in S |-> 0])
        BY <2>1
    <2> QED BY <2>2
<1>2. ASSUME NEW k \in Nat, k \in G PROVE k + 1 \in G
    <2>1. PICK h : Upto(k, h)
        BY <1>2
    <2> DEFINE g == [x \in S |-> Next1(h, x)]
    <2>2. ASSUME NEW x \in S, w[x] < k + 1 PROVE g[x] = Next1(g, x)
        <3>1. CASE step[x].ret <= 0
            BY <3>1
        <3>2. CASE ~(step[x].ret <= 0)
            <4>1. step[x].it \in S /\ w[step[x].it] < w[x]
                BY <3>2
            <4>2. w[step[x].it] < k
                BY <2>2, <4>1
            <4>3. h[step[x].it] = Next1(h, step[x].it)
                BY <2>1, <4>1, <4>2
            <4> QED BY <3>2, <4>1, <4>3
        <3> QED BY <3>1, <3>2
    <2>3. g = [x \in S |-> g[x]]
        OBVIOUS
    <2> HIDE DEF g, Next1
    <2>4. Upto(k + 1, g)
        BY <2>2, <2>3
    <2> HIDE DEF Upto
    <2> QED BY <2>4
<1>3. bound + 1 \in G
    <2> HIDE DEF G
    <2>1. Nat \subseteq G
        BY <1>1, <1>2, ByNumbers
    <2> QED BY <2>1
<1>4. PICK h : Upto(bound + 1, h)
    BY <1>3
<1>5. \A x \in S : h[x] = Next1(h, x)
    <2>1. \A x \in S : w[x] < bound + 1
        OBVIOUS
    <2> HIDE DEF Next1
    <2> QED BY <1>4, <2>1
<1>6. h = [x \in S |-> Next1(h, x)]
    <2> HIDE DEF Next1
    <2> QED BY <1>4, <1>5
<1> QED BY <1>6 DEF Behind, None

ParseLoop(m, n) ==
    CHOOSE g : g = [x \in Callable(m) |->
                       LET on(r) == IF r.ret <= 0 THEN [ret |-> r.ret, exts |-> <<>>]
                                    ELSE [g[r.it] EXCEPT !.exts = <<r.ext>> \o @]
                       IN on(IteratorNext(m, x, n))]

(* An extension in front of what the rest of the loop returns. *)
Ahead(e, v) == [v EXCEPT !.exts = <<e>> \o @]

LEMMA ParseLoopIs ==
    ASSUME NEW m, Octets(m), NEW n \in Nat
    PROVE  \A i \in Callable(m) :
              LET r == IteratorNext(m, i, n)
              IN ParseLoop(m, n)[i] = IF r.ret <= 0 THEN [ret |-> r.ret, exts |-> <<>>]
                                      ELSE Ahead(r.ext, ParseLoop(m, n)[r.it])
<1> DEFINE S == Callable(m)
           step == [x \in S |-> IteratorNext(m, x, n)]
           w == [x \in S |-> CallWeight(m, n, x)]
           bound == (Len(m) + 1) * Repeats(m, n)
           f == ParseLoop(m, n)
<1>0. CASE S = {}
    BY <1>0
<1> SUFFICES ASSUME S # {}
             PROVE  \A i \in S :
                       LET r == IteratorNext(m, i, n)
                       IN f[i] = IF r.ret <= 0 THEN [ret |-> r.ret, exts |-> <<>>]
                                 ELSE Ahead(r.ext, f[r.it])
    BY <1>0
<1>1. w \in [S -> Nat] /\ bound \in Nat /\ \A x \in S : w[x] <= bound
    <2>1. \A x \in S : CallWeight(m, n, x) \in Nat /\ bound \in Nat /\ CallWeight(m, n, x) <= bound
        BY CallWeightNat
    <2> HIDE DEF S, bound
    <2> QED BY <2>1
<1>2. \A x \in S : ~(step[x].ret <= 0) => step[x].it \in S /\ w[step[x].it] < w[x]
    <2> SUFFICES ASSUME NEW x \in S, ~(step[x].ret <= 0)
                 PROVE  step[x].it \in S /\ w[step[x].it] < w[x]
        OBVIOUS
    <2>1. step[x] = IteratorNext(m, x, n)
        OBVIOUS
    <2>2. step[x].it \in S /\ CallWeight(m, n, step[x].it) < CallWeight(m, n, x)
        BY <2>1, NextCallable
    <2> HIDE DEF S, step
    <2> QED BY <2>2
<1>3. \E g : g = [x \in S |-> IF step[x].ret <= 0 THEN [ret |-> step[x].ret, exts |-> <<>>]
                              ELSE [g[step[x].it] EXCEPT !.exts = <<step[x].ext>> \o @]]
    <2> HIDE DEF S, step, w, bound
    <2> QED BY <1>1, <1>2, WalkEnds
<1> DEFINE Walk(g) == [x \in S |->
                          LET on(r) == IF r.ret <= 0 THEN [ret |-> r.ret, exts |-> <<>>]
                                       ELSE [g[r.it] EXCEPT !.exts = <<r.ext>> \o @]
                          IN on(IteratorNext(m, x, n))]
<1>4. \E g : g = Walk(g)
    <2>1. PICK g : g = [x \in S |-> IF step[x].ret <= 0 THEN [ret |-> step[x].ret, exts |-> <<>>]
                                    ELSE [g[step[x].it] EXCEPT !.exts = <<step[x].ext>> \o @]]
        BY <1>3
    <2>2. [x \in S |-> IF step[x].ret <= 0 THEN [ret |-> step[x].ret, exts |-> <<>>]
                       ELSE [g[step[x].it] EXCEPT !.exts = <<step[x].ext>> \o @]] = Walk(g)
        <3> HIDE DEF S
        <3> QED BY Zenon
    <2> QED BY <2>1, <2>2, Zenon
<1>5. f = Walk(f)
    <2> HIDE DEF S
    <2> QED BY <1>4, Zenon DEF ParseLoop, S
<1> HIDE DEF f
<1> QED BY <1>5, Zenon DEF Ahead

(* What the loop returns has a list of what the calls returned. *)
Exts(m, n) == {IteratorNext(m, x, n).ext : x \in Callable(m)}

Outcomes(m, n) ==
    [ret : {IteratorNext(m, x, n).ret : x \in Callable(m)}, exts : Seq(Exts(m, n))]

LEMMA OutcomeNone ==
    ASSUME NEW m, NEW n, NEW i \in Callable(m)
    PROVE  /\ [ret |-> IteratorNext(m, i, n).ret, exts |-> <<>>] \in Outcomes(m, n)
           /\ IteratorNext(m, i, n).ext \in Exts(m, n)
    BY DEF Outcomes, Exts

LEMMA OutcomeAhead ==
    ASSUME NEW m, NEW n, NEW v \in Outcomes(m, n), NEW e \in Exts(m, n)
    PROVE  /\ Ahead(e, v) \in Outcomes(m, n)
           /\ Ahead(e, v).exts = <<e>> \o v.exts /\ v.exts \in Seq(Exts(m, n))
<1> DEFINE x == <<e>> \o v.exts
           U == Exts(m, n)
           R == {IteratorNext(m, y, n).ret : y \in Callable(m)}
<1>1. Outcomes(m, n) = [ret : R, exts : Seq(U)]
    BY DEF Outcomes
<1>2. e \in U
    OBVIOUS
<1>3. Ahead(e, v) = [v EXCEPT !.exts = x]
    BY DEF Ahead
<1> HIDE DEF R, U
<1>4. v.exts \in Seq(U)
    BY <1>1
<1>5. x \in Seq(U)
    BY <1>2, <1>4
<1> HIDE DEF x
<1>6. Ahead(e, v) \in [ret : R, exts : Seq(U)] /\ Ahead(e, v).exts = x
    BY <1>1, <1>3, <1>5
<1> QED BY <1>1, <1>4, <1>6 DEF x, U

LEMMA ParseLoopFacts ==
    ASSUME NEW m, Octets(m), NEW n \in Nat, NEW i0 \in Callable(m)
    PROVE  ParseLoop(m, n)[i0] \in Outcomes(m, n)
<1> DEFINE Ok(i) == ParseLoop(m, n)[i] \in Outcomes(m, n)
           G == {k \in Nat : \A i \in Callable(m) : CallWeight(m, n, i) < k => Ok(i)}
<1>1. 0 \in G
    <2>1. \A i \in Callable(m) : CallWeight(m, n, i) \in Nat
        BY CallWeightNat
    <2> QED BY <2>1
<1>2. ASSUME NEW k \in Nat, k \in G PROVE k + 1 \in G
    <2>0. \A i \in Callable(m) : CallWeight(m, n, i) < k => Ok(i)
        BY <1>2
    <2> SUFFICES ASSUME NEW i \in Callable(m), CallWeight(m, n, i) < k + 1 PROVE Ok(i)
        OBVIOUS
    <2> DEFINE r == IteratorNext(m, i, n)
               z == ParseLoop(m, n)[i]
               y == ParseLoop(m, n)[r.it]
    <2>1. z = IF r.ret <= 0 THEN [ret |-> r.ret, exts |-> <<>>] ELSE Ahead(r.ext, y)
        BY ParseLoopIs
    <2>2. [ret |-> r.ret, exts |-> <<>>] \in Outcomes(m, n) /\ r.ext \in Exts(m, n)
        BY OutcomeNone
    <2>3. ~(r.ret <= 0) => r.it \in Callable(m) /\ CallWeight(m, n, r.it) < CallWeight(m, n, i)
        BY NextCallable
    <2>4. CASE r.ret <= 0
        <3>1. z \in Outcomes(m, n)
            BY <2>1, <2>2, <2>4
        <3> QED BY <3>1
    <2>5. CASE ~(r.ret <= 0)
        <3>1. CallWeight(m, n, r.it) < k
            <4>1. CallWeight(m, n, r.it) \in Nat /\ CallWeight(m, n, i) \in Nat
                BY <2>3, <2>5, CallWeightNat
            <4> QED BY <2>3, <2>5, <4>1
        <3>2. y \in Outcomes(m, n)
            BY <2>0, <2>3, <2>5, <3>1
        <3> HIDE DEF r, y
        <3>3. z = Ahead(r.ext, y)
            BY <2>1, <2>5
        <3>4. z \in Outcomes(m, n)
            BY <2>2, <3>2, <3>3, OutcomeAhead
        <3> QED BY <3>4
    <2> QED BY <2>4, <2>5
<1>3. Nat \subseteq G
    <2> HIDE DEF G
    <2> QED BY <1>1, <1>2, ByNumbers
<1>4. /\ CallWeight(m, n, i0) \in Nat /\ CallWeight(m, n, i0) + 1 \in Nat
      /\ CallWeight(m, n, i0) < CallWeight(m, n, i0) + 1
    <2>1. CallWeight(m, n, i0) \in Nat
        BY CallWeightNat
    <2> QED BY <2>1
<1>5. CallWeight(m, n, i0) + 1 \in G
    <2> HIDE DEF G
    <2> QED BY <1>3, <1>4
<1> QED BY <1>4, <1>5

LEMMA ParseLoopExts ==
    ASSUME NEW m, Octets(m), NEW n \in Nat, NEW i \in Callable(m)
    PROVE  ParseLoop(m, n)[i].exts \in Seq(Exts(m, n))
<1>1. ParseLoop(m, n)[i] \in Outcomes(m, n)
    BY ParseLoopFacts
<1>2. \A v \in Outcomes(m, n) : v.exts \in Seq(Exts(m, n))
    BY DEF Outcomes
<1> QED BY <1>1, <1>2

(* One call more. *)
LEMMA ParseOne ==
    ASSUME NEW m, Octets(m), NEW n \in Nat, NEW i \in Callable(m)
    PROVE  /\ IteratorNext(m, i, n).ret <= 0 => ParseLoop(m, n)[i].exts = <<>>
           /\ ~(IteratorNext(m, i, n).ret <= 0) =>
                 ParseLoop(m, n)[i].exts =
                    <<IteratorNext(m, i, n).ext>> \o ParseLoop(m, n)[IteratorNext(m, i, n).it].exts
<1> DEFINE r == IteratorNext(m, i, n)
           z == ParseLoop(m, n)[i]
           y == ParseLoop(m, n)[r.it]
<1>1. z = IF r.ret <= 0 THEN [ret |-> r.ret, exts |-> <<>>] ELSE Ahead(r.ext, y)
    BY ParseLoopIs
<1>2. ~(r.ret <= 0) => y \in Outcomes(m, n)
    BY NextCallable, ParseLoopFacts
<1>3. r.ext \in Exts(m, n)
    BY OutcomeNone
<1> HIDE DEF r, z, y
<1>4. r.ret <= 0 => z.exts = <<>>
    BY <1>1
<1>5. ~(r.ret <= 0) => z.exts = <<r.ext>> \o y.exts
    BY <1>1, <1>2, <1>3, OutcomeAhead
<1> QED BY <1>4, <1>5 DEF r, z, y

LEMMA Joined ==
    ASSUME NEW S, NEW s \in Seq(S), NEW e \in S, NEW t \in Seq(S)
    PROVE  s \o (<<e>> \o t) = Append(s, e) \o t
    OBVIOUS

LEMMA PrefixOfJoin ==
    ASSUME NEW S, NEW s \in Seq(S), NEW t \in Seq(S)
    PROVE  IsPrefix(s, s \o t) /\ s \o <<>> = s /\ <<>> \o t = t
    BY DEF IsPrefix

LEMMA SeqWider ==
    ASSUME NEW A, NEW B, NEW s \in Seq(A)
    PROVE  s \in Seq(A \cup B) /\ s \in Seq(B \cup A)
    OBVIOUS

(* What a parse of the whole padding returns. *)
Parsed(m, n) == ParseLoop(m, n)[IteratorInit(0, Len(m), n)].exts

(* How far the caller has come on its way through it: what it has got,     *)
(* followed by what a parse from an iterator it cannot tell from its own   *)
(* would return; or everything.                                            *)
OnTheWay(m, n, i, g) ==
    \/ \E j \in Callable(m) : /\ j = i \/ Like(i, j)
                              /\ Parsed(m, n) = g \o ParseLoop(m, n)[j].exts
    \/ Parsed(m, n) = g /\ IteratorNext(m, i, n).ret <= 0

LEMMA ParsedIs ==
    ASSUME NEW m, NEW n
    PROVE  ExtensionsParse(m, 0, Len(m), n).exts = Parsed(m, n)
<1>1. ExtensionsParse(m, 0, Len(m), n) = ParseLoop(m, n)[IteratorInit(0, Len(m), n)]
    BY Zenon DEF ExtensionsParse, ParseLoop
<1> QED BY <1>1 DEF Parsed

(* Where an iteration starts. *)
LEMMA StartCallable ==
    ASSUME NEW m, Octets(m), NEW n \in Nat
    PROVE  IteratorInit(0, Len(m), n) \in Callable(m)
<1> DEFINE j == IteratorInit(0, Len(m), n)
<1>1. Len(m) \in Nat
    BY LengthNat
<1>2. j \in Iterator /\ j.curr = 0 /\ j.len = Len(m) /\ j.from = 0 /\ j.rframe = 0
    BY <1>1 DEF IteratorInit, Iterator
<1> HIDE DEF j
<1>3. j \in Reading(m)
    BY <1>1, <1>2, ReadingIs
<1>4. j \in Callable(m)
    BY <1>2, <1>3 DEF Callable
<1> QED BY <1>4 DEF j

LEMMA StartOnTheWay ==
    ASSUME NEW m, Octets(m), NEW n \in Nat, NEW i,
           i = IteratorInit(0, Len(m), n) \/ Like(i, IteratorInit(0, Len(m), n))
    PROVE  OnTheWay(m, n, i, <<>>)
<1> DEFINE j == IteratorInit(0, Len(m), n)
           t == ParseLoop(m, n)[j].exts
<1>1. j \in Callable(m)
    BY StartCallable
<1>2. t \in Seq(Exts(m, n))
    BY <1>1, ParseLoopExts
<1>3. Parsed(m, n) = t
    BY DEF Parsed
<1>4. <<>> \o t = t
    <2> HIDE DEF t
    <2> QED BY <1>2, PrefixOfJoin
<1>5. j = i \/ Like(i, j)
    OBVIOUS
<1> HIDE DEF j
<1> QED BY <1>1, <1>3, <1>4, <1>5 DEF OnTheWay

(* A call goes on, or there is nothing more. *)
LEMMA NextOnTheWay ==
    ASSUME NEW m, Octets(m), NEW n \in Nat, NEW i, Kept(m, n, i), NEW g \in Seq(Extensions),
           OnTheWay(m, n, i, g)
    PROVE  OnTheWay(m, n, IteratorNext(m, i, n).it,
                    IF IteratorNext(m, i, n).ret > 0 THEN Append(g, IteratorNext(m, i, n).ext) ELSE g)
<1> DEFINE r == IteratorNext(m, i, n)
           h == IF r.ret > 0 THEN Append(g, r.ext) ELSE g
<1>1. Returned(m, n, Left(n, i), r)
    BY NextReturns
<1>2. r.ret \in {-4, 0, 1}
    <2> HIDE DEF r
    <2> QED BY <1>1 DEF Returned
<1>3. ASSUME r.ret <= 0, Parsed(m, n) = g PROVE OnTheWay(m, n, r.it, h)
    <2>1. IteratorNext(m, r.it, n).ret <= 0
        BY <1>3, StoppedStays
    <2> HIDE DEF r
    <2>2. h = g
        BY <1>2, <1>3
    <2> HIDE DEF h
    <2> QED BY <1>3, <2>1, <2>2 DEF OnTheWay
<1>4. ASSUME NEW j \in Callable(m), j = i \/ Like(i, j),
             Parsed(m, n) = g \o ParseLoop(m, n)[j].exts
      PROVE  OnTheWay(m, n, r.it, h)
    <2> DEFINE q == IteratorNext(m, j, n)
               U == Exts(m, n)
               t == ParseLoop(m, n)[j].exts
               u == ParseLoop(m, n)[q.it].exts
    <2>1. Alike(r, q)
        BY <1>4, NextLike
    <2>2. q.ret = r.ret /\ q.ext = r.ext /\ (q.it = r.it \/ Like(r.it, q.it))
        <3> HIDE DEF r, q
        <3> QED BY <2>1 DEF Alike
    <2>3. /\ q.ret <= 0 => t = <<>>
          /\ ~(q.ret <= 0) => t = <<q.ext>> \o u
        BY <1>4, ParseOne
    <2>4. CASE r.ret <= 0
        <3>1. t = <<>>
            <4> HIDE DEF r, q, t, u
            <4> QED BY <2>2, <2>3, <2>4
        <3>2. g \o <<>> = g
            OBVIOUS
        <3>3. Parsed(m, n) = g
            BY <1>4, <3>1, <3>2
        <3> QED BY <1>3, <2>4, <3>3
    <2>5. CASE ~(r.ret <= 0)
        <3>1. q.it \in Callable(m)
            BY <1>4, <2>2, <2>5, NextCallable
        <3>2. u \in Seq(U)
            BY <3>1, ParseLoopExts
        <3>3. q.ext \in U
            BY <1>4, OutcomeNone
        <3> HIDE DEF r, q, t, u, U
        <3>4. h = Append(g, q.ext)
            BY <1>2, <2>2, <2>5
        <3>5. g \o t = h \o u
            <4> DEFINE V == Extensions \cup U
            <4>1. g \in Seq(V) /\ u \in Seq(V) /\ q.ext \in V
                BY <3>2, <3>3, SeqWider
            <4> HIDE DEF V
            <4>2. g \o (<<q.ext>> \o u) = Append(g, q.ext) \o u
                BY <4>1, Joined
            <4> QED BY <2>2, <2>3, <2>5, <3>4, <4>2
        <3>6. Parsed(m, n) = h \o ParseLoop(m, n)[q.it].exts
            BY <1>4, <3>5 DEF t, u
        <3> HIDE DEF h
        <3> QED BY <2>2, <3>1, <3>6 DEF OnTheWay
    <2> QED BY <2>4, <2>5
<1> HIDE DEF h
<1>5. OnTheWay(m, n, r.it, h)
    BY <1>3, <1>4 DEF OnTheWay, r
<1> QED BY <1>5 DEF h, r

(* A call that returns nothing comes at the end of what a parse returns. *)
LEMMA NextEnds ==
    ASSUME NEW m, Octets(m), NEW n \in Nat, NEW i, Kept(m, n, i),
           NEW g \in Seq(Extensions), OnTheWay(m, n, i, g),
           IteratorNext(m, i, n).ret <= 0
    PROVE  Parsed(m, n) = g
<1> DEFINE r == IteratorNext(m, i, n)
<1>1. ASSUME NEW j \in Callable(m), j = i \/ Like(i, j),
             Parsed(m, n) = g \o ParseLoop(m, n)[j].exts
      PROVE  Parsed(m, n) = g
    <2> DEFINE q == IteratorNext(m, j, n)
               t == ParseLoop(m, n)[j].exts
    <2>1. Alike(r, q)
        BY <1>1, NextLike
    <2>2. q.ret <= 0
        <3> HIDE DEF r, q
        <3>1. q.ret = r.ret
            BY <2>1 DEF Alike
        <3> QED BY <3>1 DEF r
    <2>3. t = <<>>
        BY <1>1, <2>2, ParseOne
    <2>4. g \o <<>> = g
        OBVIOUS
    <2> QED BY <1>1, <2>3, <2>4
<1> QED BY <1>1 DEF OnTheWay

(* The inductive invariant: as long as the caller has set no last frame,   *)
(* it is on its way through what a parse returns, and at its end when a    *)
(* call has returned nothing.                                              *)
AgainInv ==
    /\ PaddingInv
    /\ Octets(mem) /\ ~limited => /\ OnTheWay(mem, nb, it, got)
                                  /\ ret <= 0 => Parsed(mem, nb) = got

LEMMA InitAgain == ReaderInit => AgainInv
<1> SUFFICES ASSUME ReaderInit PROVE AgainInv
    OBVIOUS
<1>1. PaddingInv
    BY InitPadding
<1>2. it = IteratorInit(0, Len(mem), nb) /\ got = <<>>
    BY DEF ReaderInit, Start
<1>r. ~(ret <= 0)
    <2>1. ret = 1
        BY DEF ReaderInit
    <2> QED BY <2>1
<1>3. nb \in Nat
    BY <1>1 DEF PaddingInv
<1>4. Octets(mem) => OnTheWay(mem, nb, it, <<>>)
    BY <1>2, <1>3, StartOnTheWay
<1> QED BY <1>1, <1>2, <1>r, <1>4 DEF AgainInv

LEMMA AgainStep == AgainInv /\ [ReaderNext]_readerVars => AgainInv'
<1> SUFFICES ASSUME AgainInv, [ReaderNext]_readerVars PROVE AgainInv'
    OBVIOUS
<1>1. PaddingInv' /\ PaddingInv
    BY PaddingStep DEF AgainInv
<1>2. CASE ReadNext
    <2> DEFINE r == IteratorNext(mem, it, nb)
    <2>1. /\ it' = r.it /\ got' = (IF r.ret > 0 THEN Append(got, r.ext) ELSE got)
          /\ ret' = r.ret /\ mem' = mem /\ nb' = nb /\ limited' = limited
        BY <1>2 DEF ReadNext
    <2> SUFFICES ASSUME Octets(mem), ~limited
                 PROVE  /\ OnTheWay(mem, nb, it', got')
                        /\ ret' <= 0 => Parsed(mem, nb) = got'
        BY <1>1, <2>1 DEF AgainInv
    <2>2. /\ nb \in Nat /\ Kept(mem, nb, it) /\ got \in Seq(Extensions)
          /\ OnTheWay(mem, nb, it, got)
        BY <1>1 DEF AgainInv, PaddingInv
    <2>3. OnTheWay(mem, nb, r.it, IF r.ret > 0 THEN Append(got, r.ext) ELSE got)
        BY <2>2, NextOnTheWay
    <2>4. r.ret <= 0 => Parsed(mem, nb) = got
        BY <2>2, NextEnds
    <2>5. r.ret \in {-4, 0, 1}
        <3>1. Returned(mem, nb, Left(nb, it), r)
            BY <2>2, NextReturns
        <3> HIDE DEF r
        <3> QED BY <3>1 DEF Returned
    <2> HIDE DEF r
    <2>6. ret' <= 0 => got' = got
        BY <2>1, <2>5
    <2> QED BY <2>1, <2>3, <2>4, <2>6
<1>3. CASE Reset
    <2>1. /\ it' = IteratorReset(it, 0, Len(mem)) /\ got' = <<>> /\ mem' = mem /\ nb' = nb
          /\ limited' = (it.fmax # nb) /\ ~(ret' <= 0)
        BY <1>3 DEF Reset
    <2> SUFFICES ASSUME Octets(mem), it.fmax = nb PROVE OnTheWay(mem, nb, it', <<>>)
        BY <1>1, <2>1 DEF AgainInv
    <2>2. nb \in Nat /\ it \in Iterator /\ Len(mem) \in Nat
        BY <1>1, LengthNat DEF PaddingInv, Kept
    <2> DEFINE v == Len(mem)
               i == IteratorReset(it, 0, v)
               j == IteratorInit(0, v, nb)
    <2>3. -1 \in Int /\ 0 \in Nat /\ 0 \in Int /\ v \in Int /\ nb \in Int
        BY <2>2
    <2> HIDE DEF v
    <2>4. i \in Iterator
        BY <2>2, <2>3 DEF IteratorReset, Iterator
    <2>5. /\ i.curr = 0 /\ i.len = v /\ i.frame = 0 /\ i.from = 0
          /\ i.rframe = 0 /\ i.long = -1 /\ i.trailing = 0 /\ i.fmax = nb
        BY <2>2, <2>3 DEF IteratorReset, Iterator
    <2>6. /\ j \in Iterator /\ j.curr = 0 /\ j.len = v /\ j.frame = 0 /\ j.from = 0
          /\ j.rframe = 0 /\ j.long = -1 /\ j.trailing = 0 /\ j.fmax = nb
        BY <2>2, <2>3 DEF IteratorInit, Iterator
    <2> HIDE DEF i, j
    <2>7. Like(i, j)
        BY <2>4, <2>5, <2>6 DEF Like
    <2>8. it' = i /\ Like(i, IteratorInit(0, Len(mem), nb))
        BY <2>1, <2>7 DEF i, j, v
    <2> QED BY <2>2, <2>8, StartOnTheWay
<1>4. ASSUME NEW f \in 0 .. nb, SetFrameMax(f) PROVE AgainInv'
    BY <1>1, <1>4 DEF SetFrameMax, AgainInv
<1>5. CASE UNCHANGED readerVars
    BY <1>1, <1>5 DEF AgainInv, readerVars
<1> QED BY <1>2, <1>3, <1>4, <1>5 DEF ReaderNext

LEMMA AgainGives == AgainInv => (mem \in Seq(0 .. 255) => SameAgain)
<1> SUFFICES ASSUME AgainInv, mem \in Seq(0 .. 255), ~limited
             PROVE  /\ IsPrefix(got, ExtensionsParse(mem, 0, Len(mem), nb).exts)
                    /\ ret <= 0 => got = ExtensionsParse(mem, 0, Len(mem), nb).exts
    BY DEF SameAgain
<1>1. /\ Octets(mem) /\ nb \in Nat /\ got \in Seq(Extensions)
      /\ OnTheWay(mem, nb, it, got)
      /\ ret <= 0 => Parsed(mem, nb) = got
    BY DEF AgainInv, PaddingInv, Octets
<1>2. ExtensionsParse(mem, 0, Len(mem), nb).exts = Parsed(mem, nb)
    BY ParsedIs
<1>3. CASE Parsed(mem, nb) = got
    <2>1. IsPrefix(got, got)
        BY <1>1 DEF IsPrefix
    <2> QED BY <1>2, <1>3, <2>1
<1>4. ASSUME NEW j \in Callable(mem), Parsed(mem, nb) = got \o ParseLoop(mem, nb)[j].exts
      PROVE  IsPrefix(got, Parsed(mem, nb))
    <2> DEFINE U == Exts(mem, nb)
               t == ParseLoop(mem, nb)[j].exts
    <2>1. t \in Seq(U)
        BY <1>1, <1>4, ParseLoopExts
    <2>2. Parsed(mem, nb) = got \o t
        BY <1>4
    <2> HIDE DEF U, t
    <2> DEFINE V == Extensions \cup U
    <2>3. got \in Seq(V) /\ t \in Seq(V)
        BY <1>1, <2>1, SeqWider
    <2> HIDE DEF V
    <2>4. IsPrefix(got, got \o t)
        BY <2>3, PrefixOfJoin
    <2> QED BY <2>2, <2>4
<1> QED BY <1>1, <1>2, <1>3, <1>4 DEF OnTheWay

(* For any bytes as padding, of any length and for any number of frames,   *)
(* and wherever the caller interrupts an iteration to start again, in the  *)
(* middle of a repeat too: what it has got since then is the beginning of  *)
(* what opus_packet_extensions_parse returns from a new iterator, and all  *)
(* of it when a call has returned nothing.                                 *)
THEOREM SameAgainHolds == ReaderSpec => [](mem \in Seq(0 .. 255) => SameAgain)
<1>1. ReaderInit => AgainInv
    BY InitAgain
<1>2. AgainInv /\ [ReaderNext]_readerVars => AgainInv'
    BY AgainStep
<1>3. AgainInv => (mem \in Seq(0 .. 255) => SameAgain)
    BY AgainGives
<1> QED BY <1>1, <1>2, <1>3, PTL DEF ReaderSpec

-----------------------------------------------------------------------------
(* The repacketizer. *)

IsSeq(s) == Len(s) \in Nat /\ s = [i \in 1 .. Len(s) |-> s[i]]

LEMMA OfLength ==
    ASSUME NEW n \in Nat, NEW s, s = [i \in 1 .. n |-> s[i]]
    PROVE  IsSeq(s) /\ Len(s) = n
<1> DEFINE T == {s[i] : i \in 1 .. n}
<1>1. s \in [1 .. n -> T]
    OBVIOUS
<1>2. s \in Seq(T) /\ Len(s) = n
    BY <1>1
<1> QED BY <1>2 DEF IsSeq

LEMMA SequenceIs ==
    ASSUME NEW T, NEW s \in Seq(T)
    PROVE  IsSeq(s)
<1>1. Len(s) \in Nat /\ s \in [1 .. Len(s) -> T]
    OBVIOUS
<1>2. s = [i \in 1 .. Len(s) |-> s[i]]
    BY <1>1
<1> QED BY <1>1, <1>2 DEF IsSeq

LEMMA BehindOther ==
    ASSUME NEW s, NEW t, IsSeq(s), IsSeq(t)
    PROVE  IsSeq(s \o t) /\ Len(s \o t) = Len(s) + Len(t)
<1> DEFINE T == {s[i] : i \in 1 .. Len(s)} \cup {t[i] : i \in 1 .. Len(t)}
<1>1. s \in [1 .. Len(s) -> T] /\ t \in [1 .. Len(t) -> T] /\ Len(s) \in Nat /\ Len(t) \in Nat
    BY DEF IsSeq
<1>2. s \in Seq(T) /\ t \in Seq(T)
    BY <1>1
<1> HIDE DEF T
<1>3. s \o t \in Seq(T) /\ Len(s \o t) = Len(s) + Len(t)
    BY <1>2
<1> QED BY <1>3, SequenceIs

(* A frame lasts as long at every rate. *)
LEMMA FrameLasts ==
    ASSUME NEW toc \in Nat
    PROVE  /\ SamplesPerFrame(toc, 8000) \in {20, 40, 80, 160, 320, 480}
           /\ SamplesPerFrame(toc, 48000) = 6 * SamplesPerFrame(toc, 8000)
<1>1. (toc \div 8) % 4 \in {0, 1, 2, 3}
    OBVIOUS
<1> DEFINE size == (toc \div 8) % 4
<1>2. size \in 0 .. 3
    BY <1>1
<1> HIDE DEF size
<1>3. /\ Shifted(8000, size) = IF size = 0 THEN 8000 ELSE IF size = 1 THEN 16000
                               ELSE IF size = 2 THEN 32000 ELSE 64000
      /\ Shifted(48000, size) = IF size = 0 THEN 48000 ELSE IF size = 1 THEN 96000
                                ELSE IF size = 2 THEN 192000 ELSE 384000
    BY <1>2 DEF Shifted
<1>4. /\ Shifted(8000, size) \div 400 = IF size = 0 THEN 20 ELSE IF size = 1 THEN 40
                                        ELSE IF size = 2 THEN 80 ELSE 160
      /\ Shifted(48000, size) \div 400 = IF size = 0 THEN 120 ELSE IF size = 1 THEN 240
                                         ELSE IF size = 2 THEN 480 ELSE 960
      /\ size # 3 => Shifted(8000, size) \div 100 = IF size = 0 THEN 80 ELSE IF size = 1 THEN 160 ELSE 320
      /\ size # 3 => Shifted(48000, size) \div 100 = IF size = 0 THEN 480 ELSE IF size = 1 THEN 960 ELSE 1920
    BY <1>2, <1>3
<1>5. /\ 8000 \div 50 = 160 /\ 8000 \div 100 = 80 /\ (8000 * 60) \div 1000 = 480
      /\ 48000 \div 50 = 960 /\ 48000 \div 100 = 480 /\ (48000 * 60) \div 1000 = 2880
    OBVIOUS
<1> DEFINE celt == toc \div 128 = 1
           hybrid == (toc \div 32) % 4 = 3
           twenty == (toc \div 8) % 2 = 1
           Samples(fs) == IF celt THEN Shifted(fs, size) \div 400
                          ELSE IF hybrid THEN IF twenty THEN fs \div 50 ELSE fs \div 100
                          ELSE IF size = 3 THEN (fs * 60) \div 1000
                          ELSE Shifted(fs, size) \div 100
<1>6. \A fs \in {8000, 48000} : SamplesPerFrame(toc, fs) = Samples(fs)
    BY DEF SamplesPerFrame, size
<1> HIDE DEF celt, hybrid, twenty
<1>7. Samples(8000) \in {20, 40, 80, 160, 320, 480} /\ Samples(48000) = 6 * Samples(8000)
    BY <1>2, <1>4, <1>5
<1> QED BY <1>6, <1>7

(* What the parser goes on with is the count that the packet announces. *)
Announced(h, n) == h.ok => h.count = n

LEMMA TwoCount ==
    ASSUME NEW two
    PROVE  Announced(HeaderTwo(two), 2)
  BY DEF Announced, HeaderTwo, BadHeader

LEMMA VbrCount ==
    ASSUME NEW many, NEW count, NEW pad
    PROVE  Announced(HeaderVbr(many, count, pad), count)
  BY DEF Announced, HeaderVbr, BadHeader

LEMMA ManyCount ==
    ASSUME NEW m, NEW body, NEW ch, NEW len, NEW sd
    PROVE  Announced(HeaderMany(m, body, ch, len, sd), ch % 64)
<1> DEFINE count == ch % 64
           from == [ok |-> TRUE, pos |-> body.pos, len |-> body.len,
                    last |-> body.len, sizes |-> <<>>]
           many == ParseSizes(m, from, count)
           same == [ok |-> TRUE, count |-> count, cbr |-> TRUE,
                    pos |-> body.pos, len |-> body.len, pad |-> body.pad,
                    last |-> IF sd THEN len ELSE body.len \div count,
                    sizes |-> IF sd THEN <<>>
                              ELSE [i \in 1 .. (count - 1) |-> body.len \div count]]
           h == HeaderMany(m, body, ch, len, sd)
<1>1. \/ h = BadHeader
      \/ h = HeaderVbr(many, count, body.pad)
      \/ h = same
    BY DEF HeaderMany
<1>2. Announced(BadHeader, count)
    BY DEF Announced, BadHeader
<1>3. same.count = count
    OBVIOUS
<1>4. Announced(same, count)
    BY <1>3 DEF Announced
<1>5. Announced(HeaderVbr(many, count, body.pad), count)
    BY VbrCount
<1> HIDE DEF h, many, same
<1> QED BY <1>1, <1>2, <1>4, <1>5 DEF h

(* The bytes of a packet that are looked at before it is parsed. *)
Readable(m, at, len) == \A i \in at + 1 .. at + len : m[i] \in Nat

LEMMA CountType ==
    ASSUME NEW m, NEW at \in Nat, NEW len \in Nat, len >= 1, Readable(m, at, len)
    PROVE  NbFrames(m, at, len) \in Int
<1>1. m[at + 1] \in Nat /\ (len >= 2 => m[at + 2] \in Nat)
    BY DEF Readable
<1> QED BY <1>1 DEF NbFrames, OPUS_BAD_ARG, OPUS_INVALID_PACKET

LEMMA HeaderCount ==
    ASSUME NEW m, NEW at \in Nat, NEW len \in Nat, len >= 1, Readable(m, at, len), NEW sd
    PROVE  Announced(ParseHeader(m, at, len, sd), NbFrames(m, at, len))
<1> DEFINE code == m[at + 1] % 4
           ch == m[at + 2]
           behind == [ok |-> TRUE, pos |-> at + 2, len |-> len - 1 - 1, pad |-> 0]
           one == [ok |-> TRUE, count |-> 1, cbr |-> FALSE, pos |-> at + 1,
                   len |-> len - 1, last |-> len - 1, sizes |-> <<>>, pad |-> 0]
           equal == [ok |-> TRUE, count |-> 2, cbr |-> TRUE, pos |-> at + 1,
                     len |-> len - 1, last |-> IF sd THEN len - 1 ELSE (len - 1) \div 2,
                     sizes |-> IF sd THEN <<>> ELSE <<(len - 1) \div 2>>, pad |-> 0]
           two == ParseSizes(m, [ok |-> TRUE, pos |-> at + 1, len |-> len - 1,
                                 last |-> len - 1, sizes |-> <<>>], 2)
           body == IF (ch \div 64) % 2 = 1 THEN ParsePadding(m, behind) ELSE behind
           h == ParseHeader(m, at, len, sd)
           n == NbFrames(m, at, len)
<1>1. code \in 0 .. 3
    BY DEF Readable
<1>2. Announced(BadHeader, n)
    BY DEF Announced, BadHeader
<1>3. CASE code = 0
    <2>1. h = one
        BY <1>3 DEF ParseHeader
    <2>2. n = 1
        BY <1>3 DEF NbFrames
    <2> QED BY <2>1, <2>2 DEF Announced
<1>4. CASE code = 1
    <2>1. h = BadHeader \/ h = equal
        BY <1>4 DEF ParseHeader
    <2>2. n = 2
        BY <1>4 DEF NbFrames
    <2>3. equal.count = 2
        OBVIOUS
    <2>4. Announced(equal, n)
        BY <2>2, <2>3 DEF Announced
    <2> HIDE DEF equal, h, n
    <2> QED BY <1>2, <2>1, <2>4 DEF h, n
<1>5. CASE code = 2
    <2>1. h = HeaderTwo(two)
        BY <1>5 DEF ParseHeader
    <2>2. n = 2
        BY <1>5 DEF NbFrames
    <2> HIDE DEF two, h, n
    <2> QED BY <2>1, <2>2, TwoCount DEF h, n
<1>6. CASE code = 3
    <2>1. h = BadHeader \/ (len >= 2 /\ h = HeaderMany(m, body, ch, len - 1, sd))
        BY <1>6 DEF ParseHeader
    <2>2. len >= 2 => n = ch % 64
        BY <1>6 DEF NbFrames
    <2>3. Announced(HeaderMany(m, body, ch, len - 1, sd), ch % 64)
        BY ManyCount
    <2> HIDE DEF body, h, n, ch
    <2> QED BY <1>2, <2>1, <2>2, <2>3 DEF h, n
<1> QED BY <1>1, <1>3, <1>4, <1>5, <1>6

(* A packet that parses has as many frames as it announces. *)
LEMMA ParsedCount ==
    ASSUME NEW m, NEW at \in Nat, NEW len \in Nat, len >= 1, Readable(m, at, len), NEW sd,
           ~(Parse(m, at, len, sd).ret < 1)
    PROVE  /\ Parse(m, at, len, sd).ret = NbFrames(m, at, len)
           /\ NbFrames(m, at, len) \in Nat
           /\ IsSeq(Parse(m, at, len, sd).frames)
           /\ Len(Parse(m, at, len, sd).frames) = NbFrames(m, at, len)
<1> DEFINE h == ParseHeader(m, at, len, sd)
           last == ParseLast(m, h, sd)
           p == Parse(m, at, len, sd)
           n == NbFrames(m, at, len)
           start(i) == last.pos + Total(SubSeq(last.sizes, 1, i - 1))
           all == [i \in 1 .. h.count |-> [at |-> start(i), len |-> last.sizes[i]]]
<1>1. p = ParseFrames(m, at, h, sd)
    BY DEF Parse
<1>2. ~(p.ret < 1)
    OBVIOUS
<1>3. Announced(h, n)
    BY HeaderCount
<1>4. n \in Int
    BY CountType
<1> HIDE DEF h, p, n
<1>5. NotParsed(OPUS_INVALID_PACKET).ret < 1
    BY DEF NotParsed, OPUS_INVALID_PACKET
<1>6. h.ok /\ p = ParsedFrames(at, h, last)
    BY <1>1, <1>2, <1>5 DEF ParseFrames
<1> HIDE DEF last
<1>7. last.ok
    BY <1>2, <1>5, <1>6 DEF ParsedFrames
<1>8. p.ret = h.count /\ p.frames = all
    BY <1>6, <1>7 DEF ParsedFrames
<1>9. h.count = n
    BY <1>3, <1>6 DEF Announced
<1>10. n \in Nat
    BY <1>2, <1>4, <1>8, <1>9
<1>11. all = [i \in 1 .. n |-> all[i]]
    BY <1>9
<1> HIDE DEF all
<1>12. IsSeq(all) /\ Len(all) = n
    BY <1>10, <1>11, OfLength
<1> QED BY <1>8, <1>9, <1>10, <1>12 DEF p, n

(* A repacketizer of at most 120 ms, by its fields. *)
RpFits(toc, size, frames, pads) ==
    /\ toc \in Nat /\ size \in Nat
    /\ IsSeq(frames) /\ IsSeq(pads)
    /\ Len(pads) = Len(frames)
    /\ frames # <<>> => size = SamplesPerFrame(toc, 8000)
    /\ Len(frames) * size <= 960

IsRp(r) == r = [toc |-> r.toc, framesize |-> r.framesize, frames |-> r.frames, pads |-> r.pads]

RpOK(r) == IsRp(r) /\ RpFits(r.toc, r.framesize, r.frames, r.pads)

RpWith(r, x, y) == [r EXCEPT !.frames = x, !.pads = y]

RpOfKind(r, x, y) == [r EXCEPT !.toc = x, !.framesize = y]

LEMMA RpOfFields ==
    ASSUME NEW a, NEW b, NEW c, NEW d, NEW r,
           r \in [toc : {a}, framesize : {b}, frames : {c}, pads : {d}]
    PROVE  r = [toc |-> a, framesize |-> b, frames |-> c, pads |-> d]
  OBVIOUS

LEMMA RpBuilt ==
    ASSUME NEW a, NEW b, NEW c, NEW d, RpFits(a, b, c, d)
    PROVE  RpOK([toc |-> a, framesize |-> b, frames |-> c, pads |-> d])
  BY DEF RpOK, IsRp

LEMMA RpChanged ==
    ASSUME NEW a, NEW b, NEW c, NEW d, NEW x, NEW y, NEW r,
           r = [toc |-> a, framesize |-> b, frames |-> c, pads |-> d]
    PROVE  /\ RpFits(a, b, x, y) => RpOK(RpWith(r, x, y))
           /\ RpFits(x, y, c, d) => RpOK(RpOfKind(r, x, y))
<1>1. [r EXCEPT !.frames = x, !.pads = y] \in [toc : {a}, framesize : {b}, frames : {x}, pads : {y}]
    OBVIOUS
<1>2. [r EXCEPT !.toc = x, !.framesize = y] \in [toc : {x}, framesize : {y}, frames : {c}, pads : {d}]
    OBVIOUS
<1>3. [r EXCEPT !.frames = x, !.pads = y] = [toc |-> a, framesize |-> b, frames |-> x, pads |-> y]
    BY <1>1, RpOfFields
<1>4. [r EXCEPT !.toc = x, !.framesize = y] = [toc |-> x, framesize |-> y, frames |-> c, pads |-> d]
    BY <1>2, RpOfFields
<1> QED BY <1>3, <1>4, RpBuilt DEF RpWith, RpOfKind

LEMMA NothingAtAll == IsSeq(<<>>) /\ Len(<<>>) = 0
  BY DEF IsSeq

LEMMA RpInitOK == RpOK(RpInit)
<1>1. RpFits(0, 0, <<>>, <<>>)
    BY NothingAtAll DEF RpFits
<1> QED BY <1>1, RpBuilt DEF RpInit

(* Frames that do not make it too long can be added. *)
LEMMA FramesAdded ==
    ASSUME NEW toc, NEW size, NEW frames, NEW pads, RpFits(toc, size, frames, pads),
           size = SamplesPerFrame(toc, 8000),
           NEW n \in Nat, NEW fs, IsSeq(fs), Len(fs) = n, NEW ps, IsSeq(ps), Len(ps) = n,
           ~((n + Len(frames)) * size > 960)
    PROVE  RpFits(toc, size, frames \o fs, pads \o ps)
<1>1. /\ toc \in Nat /\ size \in Nat /\ IsSeq(frames) /\ IsSeq(pads)
      /\ Len(pads) = Len(frames) /\ Len(frames) \in Nat
    BY DEF RpFits, IsSeq
<1>2. IsSeq(frames \o fs) /\ Len(frames \o fs) = Len(frames) + n
    BY <1>1, BehindOther
<1>3. IsSeq(pads \o ps) /\ Len(pads \o ps) = Len(pads) + n
    BY <1>1, BehindOther
<1> DEFINE k == Len(frames)
<1>4. (k + n) * size <= 960
    <2>1. k \in Nat /\ ~((n + k) * size > 960)
        BY <1>1
    <2> HIDE DEF k
    <2>2. k + n = n + k /\ (n + k) * size \in Int
        BY <1>1, <2>1
    <2>3. (n + k) * size <= 960
        <3> DEFINE x == (n + k) * size
        <3>1. x \in Int /\ ~(x > 960)
            BY <2>1, <2>2
        <3> HIDE DEF x
        <3>2. x <= 960
            BY <3>1
        <3> QED BY <3>2 DEF x
    <2> QED BY <2>2, <2>3
<1>5. Len(frames \o fs) * size <= 960
    BY <1>2, <1>4
<1>6. Len(pads \o ps) = Len(frames \o fs)
    BY <1>1, <1>2, <1>3
<1> QED BY <1>1, <1>2, <1>3, <1>5, <1>6 DEF RpFits

LEMMA CatFramesOK ==
    ASSUME NEW r, NEW p, RpOK(r), r.framesize = SamplesPerFrame(r.toc, 8000),
           NEW n \in Nat, p.ret = n, ~(p.ret < 1), IsSeq(p.frames), Len(p.frames) = n,
           ~TooLong(r, n)
    PROVE  RpOK(CatFrames(r, p).rp)
<1> DEFINE ps == [i \in 1 .. p.ret |->
                     IF i = 1 THEN [at |-> p.pad.at, len |-> p.pad.len, nb |-> p.ret]
                              ELSE [at |-> 0, len |-> 0, nb |-> 0]]
           fs == p.frames
           toc == r.toc
           size == r.framesize
           frames == r.frames
           pads == r.pads
           x == frames \o fs
           y == pads \o ps
           c == CatFrames(r, p).rp
<1>1. ps = [i \in 1 .. n |-> ps[i]]
    OBVIOUS
<1>2. c = RpWith(r, x, y)
    BY DEF CatFrames, RpWith
<1>3. /\ r = [toc |-> toc, framesize |-> size, frames |-> frames, pads |-> pads]
      /\ RpFits(toc, size, frames, pads) /\ size = SamplesPerFrame(toc, 8000)
      /\ IsSeq(fs) /\ Len(fs) = n
      /\ ~((n + Len(frames)) * size > 960)
    BY DEF RpOK, IsRp, TooLong
<1> HIDE DEF ps, fs, toc, size, frames, pads, c
<1>4. IsSeq(ps) /\ Len(ps) = n
    BY <1>1, OfLength
<1>5. RpFits(toc, size, x, y)
    BY <1>3, <1>4, FramesAdded
<1> HIDE DEF x, y
<1>6. RpOK(RpWith(r, x, y))
    BY <1>3, <1>5, RpChanged
<1>7. RpOK(c)
    BY <1>2, <1>6
<1> QED BY <1>7 DEF c

(* What cat makes of a repacketizer: nothing, the same empty one for       *)
(* packets of another kind, or one with the frames of the packet.          *)
CatStart(r, m, at) ==
    IF r.frames = <<>> THEN RpOfKind(r, m[at + 1], SamplesPerFrame(m[at + 1], 8000)) ELSE r

LEMMA CatCases ==
    ASSUME NEW r, NEW m, NEW at, NEW len \in Nat
    PROVE  \/ Cat(r, m, at, len, FALSE).rp = r
           \/ len >= 1 /\ Cat(r, m, at, len, FALSE).rp = CatStart(r, m, at)
           \/ /\ len >= 1 /\ ~TooLong(CatStart(r, m, at), NbFrames(m, at, len))
              /\ Cat(r, m, at, len, FALSE).rp
                   = CatFrames(CatStart(r, m, at), Parse(m, at, len, FALSE)).rp
<1> DEFINE r1 == CatStart(r, m, at)
           n == NbFrames(m, at, len)
           p == Parse(m, at, len, FALSE)
           c == Cat(r, m, at, len, FALSE)
           refused(x) == [ret |-> OPUS_INVALID_PACKET, rp |-> x]
<1>1. c = IF len < 1 THEN refused(r)
          ELSE IF r.toc \div 4 # m[at + 1] \div 4 /\ r.frames # <<>> THEN refused(r)
          ELSE IF n < 1 \/ TooLong(r1, n) THEN refused(r1)
          ELSE CatFrames(r1, p)
    BY DEF Cat, CatStart, RpOfKind
<1>2. refused(r).rp = r /\ refused(r1).rp = r1
    OBVIOUS
<1> HIDE DEF r1, n, p, c, refused
<1>3. CASE c = refused(r)
    BY <1>2, <1>3 DEF c
<1>4. CASE len >= 1 /\ c = refused(r1)
    BY <1>2, <1>4 DEF c, r1
<1>5. CASE len >= 1 /\ ~TooLong(r1, n) /\ c = CatFrames(r1, p)
    BY <1>5 DEF c, r1, n, p
<1>6. len < 1 \/ len >= 1
    OBVIOUS
<1>7. \/ c = refused(r)
      \/ len >= 1 /\ c = refused(r1)
      \/ len >= 1 /\ ~TooLong(r1, n) /\ c = CatFrames(r1, p)
    BY <1>1, <1>6, Zenon
<1> QED BY <1>3, <1>4, <1>5, <1>7

LEMMA CatStartOK ==
    ASSUME NEW r, RpOK(r), NEW m, NEW at \in Nat, m[at + 1] \in Nat
    PROVE  /\ RpOK(CatStart(r, m, at))
           /\ CatStart(r, m, at).framesize = SamplesPerFrame(CatStart(r, m, at).toc, 8000)
<1> DEFINE toc == m[at + 1]
           size == SamplesPerFrame(toc, 8000)
           frames == r.frames
           pads == r.pads
<1>1. toc \in Nat /\ size \in Nat
    BY FrameLasts
<1>2. /\ r = [toc |-> r.toc, framesize |-> r.framesize, frames |-> frames, pads |-> pads]
      /\ RpFits(r.toc, r.framesize, frames, pads)
    BY DEF RpOK, IsRp
<1>3. CASE frames = <<>>
    <2>1. CatStart(r, m, at) = RpOfKind(r, toc, size)
        BY <1>3 DEF CatStart
    <2>2. size = SamplesPerFrame(toc, 8000)
        OBVIOUS
    <2> HIDE DEF toc, size, frames, pads
    <2>3. RpFits(toc, size, frames, pads)
        BY <1>1, <1>2, <1>3, <2>2, NothingAtAll DEF RpFits
    <2>4. RpOK(RpOfKind(r, toc, size))
        BY <1>2, <2>3, RpChanged
    <2>5. RpOfKind(r, toc, size).toc = toc /\ RpOfKind(r, toc, size).framesize = size
        BY <1>2 DEF RpOfKind
    <2> QED BY <2>1, <2>2, <2>4, <2>5
<1>4. CASE frames # <<>>
    <2>1. CatStart(r, m, at) = r
        BY <1>4 DEF CatStart
    <2>2. r.framesize = SamplesPerFrame(r.toc, 8000)
        BY <1>2, <1>4 DEF RpFits
    <2> QED BY <2>1, <2>2
<1> QED BY <1>3, <1>4

(* cat keeps a repacketizer within 120 ms, whatever it is given. *)
LEMMA CatOK ==
    ASSUME NEW r, RpOK(r), NEW m, NEW at \in Nat, NEW len \in Nat, Readable(m, at, len)
    PROVE  RpOK(Cat(r, m, at, len, FALSE).rp)
<1> DEFINE r1 == CatStart(r, m, at)
           n == NbFrames(m, at, len)
           p == Parse(m, at, len, FALSE)
           c == Cat(r, m, at, len, FALSE).rp
<1>1. \/ c = r
      \/ len >= 1 /\ c = r1
      \/ len >= 1 /\ ~TooLong(r1, n) /\ c = CatFrames(r1, p).rp
    BY CatCases
<1>2. ASSUME len >= 1 PROVE RpOK(r1) /\ r1.framesize = SamplesPerFrame(r1.toc, 8000)
    <2>1. m[at + 1] \in Nat
        BY <1>2 DEF Readable
    <2> QED BY <2>1, CatStartOK
<1>3. ASSUME len >= 1, ~(p.ret < 1)
      PROVE  p.ret = n /\ n \in Nat /\ IsSeq(p.frames) /\ Len(p.frames) = n
    BY <1>3, ParsedCount, Zenon
<1>4. ASSUME p.ret < 1 PROVE CatFrames(r1, p).rp = r1
    BY <1>4 DEF CatFrames
<1> HIDE DEF c, r1, n, p
<1>5. CASE c = r
    BY <1>5, Zenon DEF c
<1>6. CASE len >= 1 /\ c = r1
    BY <1>2, <1>6, Zenon DEF c
<1>7. CASE len >= 1 /\ ~TooLong(r1, n) /\ c = CatFrames(r1, p).rp
    <2>1. RpOK(c)
        <3>1. CASE p.ret < 1
            BY <1>2, <1>4, <1>7, <3>1
        <3>2. CASE ~(p.ret < 1)
            BY <1>2, <1>3, <1>7, <3>2, CatFramesOK
        <3> QED BY <3>1, <3>2
    <2> QED BY <2>1 DEF c
<1> QED BY <1>1, <1>5, <1>6, <1>7

(* Inductive, while what the application holds are bytes: the repacketizer *)
(* is within 120 ms and has only been given bytes.                         *)
RepacketizerInv ==
    /\ app \in DOMAIN Applications
    /\ RpOK(rp)
    /\ pool \in Seq(Nat)

LEMMA ReadableBehind ==
    ASSUME NEW m \in Seq(Nat), NEW bytes \in Seq(Nat)
    PROVE  /\ Len(m) \in Nat /\ Len(bytes) \in Nat
           /\ m \o bytes \in Seq(Nat)
           /\ Readable(m \o bytes, Len(m), Len(bytes))
<1>1. /\ Len(m) \in Nat /\ Len(bytes) \in Nat
      /\ m \o bytes \in Seq(Nat) /\ Len(m \o bytes) = Len(m) + Len(bytes)
    OBVIOUS
<1> DEFINE all == m \o bytes
<1> HIDE DEF all
<1>2. all \in Seq(Nat) /\ Len(all) = Len(m) + Len(bytes)
    BY <1>1 DEF all
<1>3. Readable(all, Len(m), Len(bytes))
    BY <1>1, <1>2 DEF Readable
<1> QED BY <1>1, <1>3 DEF all

LEMMA CatPacketKeeps ==
    ASSUME RepacketizerInv, NEW p, p.bytes \in Seq(Nat), CatPacket(p), app' = app
    PROVE  RepacketizerInv'
<1> DEFINE c == Cat(rp, pool \o p.bytes, Len(pool), Len(p.bytes), FALSE)
<1>1. rp' = c.rp /\ (pool' = pool \o p.bytes \/ pool' = pool)
    BY DEF CatPacket
<1>2. RpOK(rp) /\ pool \in Seq(Nat) /\ app \in DOMAIN Applications
    BY DEF RepacketizerInv
<1>3. /\ Len(pool) \in Nat /\ Len(p.bytes) \in Nat
      /\ pool \o p.bytes \in Seq(Nat)
      /\ Readable(pool \o p.bytes, Len(pool), Len(p.bytes))
    BY <1>2, ReadableBehind
<1>4. RpOK(c.rp)
    BY <1>2, <1>3, CatOK
<1> HIDE DEF c
<1> QED BY <1>1, <1>2, <1>3, <1>4 DEF RepacketizerInv

LEMMA RepacketizerStep == RepacketizerInv /\ out \in Seq(Nat) /\ [Next]_vars => RepacketizerInv'
<1> SUFFICES ASSUME RepacketizerInv, out \in Seq(Nat), [Next]_vars PROVE RepacketizerInv'
    OBVIOUS
<1> DEFINE A == Applications[app]
<1>1. ASSUME NEW p \in A.packets, CatPacket(p), app' = app PROVE RepacketizerInv'
    <2>1. p.bytes \in Seq(Nat)
        BY <1>1, ApplicationsAssumption DEF RepacketizerInv
    <2> QED BY <1>1, <2>1, CatPacketKeeps
<1>2. ASSUME CatPacket(Held), app' = app PROVE RepacketizerInv'
    <2>1. Held.bytes \in Seq(Nat)
        BY DEF Held
    <2> QED BY <1>2, <2>1, CatPacketKeeps
<1>3. ASSUME InitRp, app' = app PROVE RepacketizerInv'
    BY <1>3, RpInitOK DEF InitRp, RepacketizerInv
<1>4. ASSUME UNCHANGED <<app, rp, pool>> PROVE RepacketizerInv'
    BY <1>4 DEF RepacketizerInv
<1>5. ASSUME NEW p \in A.received, Receive(p) PROVE UNCHANGED <<rp, pool>>
    BY <1>5 DEF Receive, KeepRp
<1>6. ASSUME NEW begin, NEW end, NEW maxlen, Out(begin, end, maxlen) PROVE UNCHANGED <<rp, pool>>
    BY <1>6 DEF Out, KeepRp
<1>7. ASSUME NEW n, PadOut(n) PROVE UNCHANGED <<rp, pool>>
    BY <1>7 DEF PadOut, KeepRp
<1>8. ASSUME UnpadOut PROVE UNCHANGED <<rp, pool>>
    BY <1>8 DEF UnpadOut, KeepRp
<1>9. ASSUME NEW p \in A.packets, Join(p) PROVE UNCHANGED <<rp, pool>>
    BY <1>9 DEF Join, KeepRp
<1>10. CASE UNCHANGED vars
    BY <1>4, <1>10 DEF vars
<1>11. CASE Next
    <2>1. Calls(A) /\ app' = app
        BY <1>11 DEF Next
    <2> HIDE DEF A
    <2> QED BY <1>1, <1>2, <1>3, <1>4, <1>5, <1>6, <1>7, <1>8, <1>9, <2>1 DEF Calls
<1> QED BY <1>10, <1>11

LEMMA RepacketizerGives == RepacketizerInv => AtMost120ms
<1> SUFFICES ASSUME RepacketizerInv PROVE AtMost120ms
    OBVIOUS
<1> DEFINE toc == rp.toc
           size == rp.framesize
           frames == rp.frames
           pads == rp.pads
           k == Len(frames)
           s == SamplesPerFrame(toc, 8000)
           long == SamplesPerFrame(toc, 48000)
<1>1. RpFits(toc, size, frames, pads)
    BY DEF RepacketizerInv, RpOK
<1> HIDE DEF toc, size, frames, pads
<1>2. toc \in Nat /\ IsSeq(frames) /\ k \in Nat /\ Len(pads) = k /\ k * size <= 960
    BY <1>1 DEF RpFits, IsSeq
<1>3. s \in {20, 40, 80, 160, 320, 480} /\ long = 6 * s
    BY <1>2, FrameLasts
<1>4. frames # <<>> => size = s
    BY <1>1 DEF RpFits
<1>5. frames = <<>> => k = 0
    BY NothingAtAll
<1> HIDE DEF k, s, long
<1>6. k * s <= 960
    <2>1. CASE frames = <<>>
        BY <1>3, <1>5, <2>1
    <2>2. CASE frames # <<>>
        BY <1>2, <1>4, <2>2
    <2> QED BY <2>1, <2>2
<1>7. k <= 48 /\ k * long <= 5760
    BY <1>2, <1>3, <1>6
<1> QED BY <1>2, <1>7 DEF AtMost120ms, toc, frames, pads, k, long

(* Whatever packets of bytes are handed to opus_repacketizer_cat, those    *)
(* from elsewhere and those the application wrote with out, pad, unpad and *)
(* join, in whatever order and however many were refused before: the       *)
(* repacketizer holds at most 48 frames and at most 120 ms, with an entry  *)
(* for the padding of each.                                                *)
THEOREM AtMost120msHolds == Spec /\ [](out \in Seq(Nat)) => []AtMost120ms
<1>1. Init => RepacketizerInv
    BY RpInitOK DEF Init, RepacketizerInv
<1>2. RepacketizerInv /\ out \in Seq(Nat) /\ [Next]_vars => RepacketizerInv'
    BY RepacketizerStep
<1>3. RepacketizerInv => AtMost120ms
    BY RepacketizerGives
<1> QED BY <1>1, <1>2, <1>3, PTL DEF Spec
=============================================================================
