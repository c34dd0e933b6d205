-------------------------- MODULE RangeCoderProofs --------------------------
(* Proofs about the range coder, for every width of its registers, every   *)
(* set of symbols its callers may use and every size of the buffer.        *)
EXTENDS RangeCoder, WellFoundedInduction, TLAPS

-----------------------------------------------------------------------------
(* Induction, from the well-foundedness of the natural numbers. *)

(* A set of natural numbers has a least element. *)
LEMMA Least ==
    ASSUME NEW T, T \subseteq Nat, T # {}
    PROVE  \E x \in T : \A y \in T : x <= y
<1>1. PICK x \in T : \A y \in T : <<y, x>> \notin OpToRel(<, Nat)
    BY NatLessThanWellFounded, WFMin
<1>2. \A y \in T : x \in Nat /\ y \in Nat /\ ~(y < x)
    BY <1>1 DEF OpToRel
<1> QED BY <1>2

(* A set that holds 0 and with each number the next holds them all. *)
LEMMA Induction ==
    ASSUME NEW S, 0 \in S, \A n \in Nat : n \in S => n + 1 \in S
    PROVE  Nat \subseteq S
<1> DEFINE T == Nat \ S
<1> SUFFICES ASSUME T # {} PROVE FALSE
    OBVIOUS
<1>1. PICK x \in T : \A y \in T : x <= y
    BY Least
<1>2. x - 1 \in Nat /\ x - 1 \notin T
    BY <1>1
<1> QED BY <1>1, <1>2

Steps(F, S) == F \in [Nat \X S -> S]

Iterates(g, x, F, S) ==
    g \in [Nat -> S] /\ g[0] = x /\ \A n \in Nat : g[n + 1] = F[<<n, g[n]>>]

(* A function can be defined by what it is at 0 and by each step. *)
LEMMA Iterate ==
    ASSUME NEW S, NEW x \in S, NEW F, Steps(F, S)
    PROVE  \E g : Iterates(g, x, F, S)
<1> USE DEF Steps, Iterates
<1> DEFINE Upto(n, h) == /\ h \in [Nat -> S]
                         /\ h[0] = x
                         /\ \A i \in Nat : i < n => h[i + 1] = F[<<i, h[i]>>]
           G == {n \in Nat : \E h : Upto(n, h)}
<1>1. 0 \in G
    <2>1. Upto(0, [i \in Nat |-> x])
        OBVIOUS
    <2> QED BY <2>1
<1>2. ASSUME NEW n \in Nat, n \in G PROVE n + 1 \in G
    <2>1. PICK h : Upto(n, h)
        BY <1>2
    <2>2. Upto(n + 1, [h EXCEPT ![n + 1] = F[<<n, h[n]>>]])
        BY <2>1
    <2>3. n + 1 \in Nat
        OBVIOUS
    <2> HIDE DEF Upto
    <2> QED BY <2>2, <2>3
<1>3. Nat \subseteq G
    <2> HIDE DEF G
    <2> QED BY <1>1, <1>2, Induction
<1> DEFINE H(n) == CHOOSE h : Upto(n, h)
<1>4. \A n \in Nat : Upto(n, H(n))
    BY <1>3
<1> HIDE DEF H
<1>5. ASSUME NEW n \in Nat, NEW m \in Nat, n <= m
      PROVE  \A k \in Nat : k <= n => H(n)[k] = H(m)[k]
    <2> DEFINE E == {k \in Nat : k <= n => H(n)[k] = H(m)[k]}
    <2>1. 0 \in E
        BY <1>4
    <2>2. ASSUME NEW k \in Nat, k \in E PROVE k + 1 \in E
        <3>1. k + 1 <= n => /\ H(n)[k + 1] = F[<<k, H(n)[k]>>]
                            /\ H(m)[k + 1] = F[<<k, H(m)[k]>>]
            BY <1>4, <1>5
        <3> QED BY <2>2, <3>1
    <2>3. Nat \subseteq E
        <3> HIDE DEF E
        <3> QED BY <2>1, <2>2, Induction
    <2> QED BY <2>3
<1> DEFINE g == [n \in Nat |-> H(n)[n]]
<1>6. g \in [Nat -> S]
    BY <1>4
<1>7. ASSUME NEW n \in Nat PROVE g[n + 1] = F[<<n, g[n]>>]
    <2>1. n + 1 \in Nat /\ n <= n + 1 /\ n < n + 1
        OBVIOUS
    <2>2. H(n + 1)[n + 1] = F[<<n, H(n + 1)[n]>>]
        BY <1>4, <2>1
    <2>3. H(n)[n] = H(n + 1)[n]
        BY <1>5, <2>1
    <2> QED BY <2>1, <2>2, <2>3
<1>8. g[0] = x
    BY <1>4
<1> HIDE DEF g
<1> QED BY <1>6, <1>7, <1>8

-----------------------------------------------------------------------------
(* Powers of two. *)

LEMMA ShiftedDef ==
    /\ Shifted \in [Nat -> Nat]
    /\ Shifted[0] = 1
    /\ \A n \in Nat : Shifted[n + 1] = 2 * Shifted[n]
<1> DEFINE F == [p \in Nat \X Nat |-> 2 * p[2]]
<1>1. F \in [Nat \X Nat -> Nat]
    OBVIOUS
<1>2. 1 \in Nat
    OBVIOUS
<1>3. \A n \in Nat, k \in Nat : F[<<n, k>>] = 2 * k
    OBVIOUS
<1> HIDE DEF F
<1>10. \E g : Iterates(g, 1, F, Nat)
    <2>1. Steps(F, Nat)
        BY <1>1 DEF Steps
    <2> QED BY <1>2, <2>1, Iterate
<1>4. PICK g \in [Nat -> Nat] : g[0] = 1 /\ \A n \in Nat : g[n + 1] = F[<<n, g[n]>>]
    BY <1>10 DEF Iterates
<1>5. \A n \in Nat : g[n] = IF n = 0 THEN 1 ELSE 2 * g[n - 1]
    <2> SUFFICES ASSUME NEW n \in Nat, n # 0 PROVE g[n] = 2 * g[n - 1]
        BY <1>4
    <2>1. n - 1 \in Nat /\ (n - 1) + 1 = n
        OBVIOUS
    <2>2. g[n] = F[<<n - 1, g[n - 1]>>]
        BY <1>4, <2>1
    <2> QED BY <1>3, <2>1, <2>2
<1>6. g = [n \in Nat |-> IF n = 0 THEN 1 ELSE 2 * g[n - 1]]
    BY <1>5
<1>7. Shifted = [n \in Nat |-> IF n = 0 THEN 1 ELSE 2 * Shifted[n - 1]]
    BY <1>6 DEF Shifted
<1>8. /\ Shifted[0] = 1
      /\ \A n \in Nat : Shifted[n + 1] = 2 * Shifted[n]
    <2>1. \A n \in Nat : Shifted[n] = IF n = 0 THEN 1 ELSE 2 * Shifted[n - 1]
        BY <1>7
    <2> QED BY <2>1
<1> DEFINE T == {n \in Nat : Shifted[n] \in Nat}
<1>9. Nat \subseteq T
    <2>1. 0 \in T /\ \A n \in Nat : n \in T => n + 1 \in T
        BY <1>8
    <2> HIDE DEF T
    <2> QED BY <2>1, Induction
<1> QED BY <1>7, <1>8, <1>9

LEMMA ShiftedPositive == \A n \in Nat : Shifted[n] \in Nat /\ Shifted[n] >= 1
<1> DEFINE T == {n \in Nat : Shifted[n] >= 1}
<1>1. 0 \in T /\ \A n \in Nat : n \in T => n + 1 \in T
    BY ShiftedDef
<1>2. Nat \subseteq T
    <2> HIDE DEF T
    <2> QED BY <1>1, Induction
<1> QED BY <1>2, ShiftedDef

LEMMA ShiftedSum == \A a \in Nat, b \in Nat : Shifted[a + b] = Shifted[a] * Shifted[b]
<1> SUFFICES ASSUME NEW a \in Nat
             PROVE  \A b \in Nat : Shifted[a + b] = Shifted[a] * Shifted[b]
    OBVIOUS
<1> DEFINE T == {b \in Nat : Shifted[a + b] = Shifted[a] * Shifted[b]}
<1>1. 0 \in T
    <2>1. a + 0 = a /\ Shifted[a] * 1 = Shifted[a]
        BY ShiftedDef
    <2> QED BY <2>1, ShiftedDef
<1>2. ASSUME NEW b \in Nat, b \in T PROVE b + 1 \in T
    <2>1. Shifted[a + (b + 1)] = 2 * Shifted[a + b]
        <3>1. a + b \in Nat /\ a + (b + 1) = (a + b) + 1
            OBVIOUS
        <3> QED BY <3>1, ShiftedDef
    <2>2. Shifted[a] * Shifted[b + 1] = 2 * (Shifted[a] * Shifted[b])
        <3>1. \A x \in Nat, y \in Nat : x * (2 * y) = 2 * (x * y)
            OBVIOUS
        <3> QED BY <3>1, ShiftedDef
    <2> QED BY <1>2, <2>1, <2>2
<1>3. Nat \subseteq T
    <2> HIDE DEF T
    <2> QED BY <1>1, <1>2, Induction
<1> QED BY <1>3

LEMMA Products ==
    /\ \A a \in Nat, b \in Nat : a * b \in Nat /\ a * b = b * a
    /\ \A a \in Nat, b \in Nat, c \in Nat : a <= b => a * c <= b * c /\ c * a <= c * b
    /\ \A a \in Nat, b \in Nat, c \in Nat : a * c < b * c => a < b
    /\ \A a \in Nat, b \in Nat : b >= 1 => a <= a * b /\ a <= b * a
    OBVIOUS

(* What the powers of two satisfy, within the width of a register. *)
LEMMA Bits == /\ CodeBits \in Nat /\ SymBits \in Nat /\ SymBits >= 1
              /\ CodeBits = 4 * SymBits
    BY WidthAssumption

LEMMA Pow2Is == \A n \in Nat : n <= CodeBits => Pow2[n] = Shifted[n]
    BY Bits DEF Pow2

LEMMA Pow2Nat == \A n \in Nat : n <= CodeBits => Pow2[n] \in Nat /\ Pow2[n] >= 1
    BY Pow2Is, ShiftedPositive

LEMMA Pow2Zero == Pow2[0] = 1
    BY Bits, Pow2Is, ShiftedDef

LEMMA Pow2Next == \A n \in Nat : n < CodeBits => Pow2[n + 1] = 2 * Pow2[n]
    BY Bits, Pow2Is, ShiftedDef

LEMMA Pow2Plus == \A a \in Nat, b \in Nat : a + b <= CodeBits => Pow2[a + b] = Pow2[a] * Pow2[b]
<1> SUFFICES ASSUME NEW a \in Nat, NEW b \in Nat, a + b <= CodeBits
             PROVE  Pow2[a + b] = Pow2[a] * Pow2[b]
    OBVIOUS
<1>1. a + b \in Nat /\ a <= CodeBits /\ b <= CodeBits
    BY Bits
<1> QED BY <1>1, Pow2Is, ShiftedSum

LEMMA Pow2Mono == \A a \in Nat, b \in Nat : a <= b /\ b <= CodeBits => Pow2[a] <= Pow2[b]
<1> SUFFICES ASSUME NEW a \in Nat, NEW b \in Nat, a <= b, b <= CodeBits
             PROVE  Pow2[a] <= Pow2[b]
    OBVIOUS
<1>1. b - a \in Nat /\ a + (b - a) = b /\ b - a <= CodeBits /\ a <= CodeBits
    BY Bits
<1>2. Pow2[b] = Pow2[a] * Pow2[b - a]
    BY <1>1, Pow2Plus
<1> QED BY <1>1, <1>2, Pow2Nat, Products

LEMMA Pow2Twice == \A a \in Nat, b \in Nat : a < b /\ b <= CodeBits => 2 * Pow2[a] <= Pow2[b]
<1> SUFFICES ASSUME NEW a \in Nat, NEW b \in Nat, a < b, b <= CodeBits
             PROVE  2 * Pow2[a] <= Pow2[b]
    OBVIOUS
<1>1. a + 1 \in Nat /\ a + 1 <= b /\ a < CodeBits
    BY Bits
<1>2. Pow2[a + 1] <= Pow2[b]
    BY <1>1, Pow2Mono
<1> QED BY <1>1, <1>2, Pow2Next

(* The sizes of the registers and of their parts. *)
LEMMA Widths ==
    /\ Sym \in Nat /\ Sym >= 2 /\ SymMax = Sym - 1
    /\ Bot \in Nat /\ Bot >= 2 /\ Top \in Nat
    /\ Top = Bot * Sym /\ Top > Bot
    /\ Pow2[CodeShift] = Bot /\ CodeShift \in Nat /\ CodeShift >= SymBits
    /\ CodeShift = 3 * SymBits - 1
    /\ Pow2[CodeBits] = 2 * Top
    /\ (Sym * Sym) * Sym = 2 * Bot
    /\ Extra \in 1 .. SymBits
    /\ Window = CodeBits
<1>1. /\ CodeBits - 1 \in Nat /\ CodeShift \in Nat /\ CodeShift >= SymBits
      /\ CodeShift = 3 * SymBits - 1
      /\ CodeShift + SymBits = CodeBits - 1 /\ CodeShift + SymBits <= CodeBits
      /\ SymBits <= CodeBits /\ SymBits + SymBits \in Nat /\ SymBits + SymBits <= CodeBits
      /\ (SymBits + SymBits) + SymBits = CodeShift + 1
      /\ CodeShift < CodeBits /\ CodeBits - 1 < CodeBits /\ (CodeBits - 1) + 1 = CodeBits
      /\ 0 < CodeShift /\ 0 < SymBits
    BY Bits DEF CodeShift
<1> USE Bits
<1>2. Sym \in Nat /\ Sym >= 2
    <2>1. 2 * Pow2[0] <= Pow2[SymBits]
        BY <1>1, Pow2Twice
    <2> QED BY <1>1, <2>1, Pow2Zero, Pow2Nat DEF Sym
<1>3. Pow2[CodeShift] \in Nat /\ Pow2[CodeShift] >= 2
    <2>1. 2 * Pow2[0] <= Pow2[CodeShift]
        BY <1>1, Pow2Twice
    <2> QED BY <1>1, <2>1, Pow2Zero, Pow2Nat
<1>4. Top \in Nat /\ Top = Pow2[CodeShift] * Sym
    <2>1. Top = Pow2[CodeShift + SymBits]
        BY <1>1 DEF Top
    <2>2. Pow2[CodeShift + SymBits] = Pow2[CodeShift] * Pow2[SymBits]
        BY <1>1, Pow2Plus
    <2> QED BY <1>2, <1>3, <2>1, <2>2 DEF Sym
<1>5. Bot = Pow2[CodeShift]
    <2>1. \A x \in Nat, y \in Nat : y >= 1 => (x * y) \div y = x
        OBVIOUS
    <2> QED BY <1>2, <1>3, <1>4, <2>1 DEF Bot
<1>6. Top > Bot
    BY <1>2, <1>3, <1>4, <1>5
<1>7. Pow2[CodeBits] = 2 * Top
    <2>1. Pow2[(CodeBits - 1) + 1] = 2 * Pow2[CodeBits - 1]
        BY <1>1, Pow2Next
    <2> QED BY <1>1, <2>1 DEF Top
<1>8. (Sym * Sym) * Sym = 2 * Bot
    <2>1. Pow2[SymBits + SymBits] = Pow2[SymBits] * Pow2[SymBits]
        BY <1>1, Pow2Plus
    <2>2. Pow2[(SymBits + SymBits) + SymBits] = Pow2[SymBits + SymBits] * Pow2[SymBits]
        <3>1. (SymBits + SymBits) + SymBits <= CodeBits
            BY <1>1
        <3> QED BY <1>1, <3>1, Pow2Plus
    <2>3. Pow2[CodeShift + 1] = 2 * Pow2[CodeShift]
        BY <1>1, Pow2Next
    <2> QED BY <1>1, <1>5, <2>1, <2>2, <2>3 DEF Sym
<1>9. Extra \in 1 .. SymBits
    <2>1. \A a \in Nat, b \in Nat : b >= 1 => a % b \in 0 .. b - 1
        OBVIOUS
    <2>2. CodeBits - 2 \in Nat
        OBVIOUS
    <2>3. (CodeBits - 2) % SymBits \in 0 .. SymBits - 1
        BY <2>1, <2>2
    <2> QED BY <2>3 DEF Extra
<1> QED BY <1>1, <1>2, <1>3, <1>4, <1>5, <1>6, <1>7, <1>8, <1>9 DEF SymMax, Window

-----------------------------------------------------------------------------
(* The structure ec_ctx. *)

Ctx == [buf : Seq(Bytes), end_offs : Nat, end_window : Nat, nend_bits : 0 .. Window,
        nbits_total : Int, offs : Nat, rng : Nat, rem : -1 .. SymMax, val : Nat,
        ext : Nat, error : BOOLEAN]

(* The size of the buffer. *)
Size(c) == Len(c.buf)

(* The two ends of the buffer have not crossed. *)
Apart(c) == c.offs + c.end_offs <= Size(c)

(* The bytes the range data has taken, those that wait included. *)
Held(c) == c.offs + c.ext + IF c.rem >= 0 THEN 1 ELSE 0

(* What writing bytes of range data leaves alone. *)
SameRange(c, d) ==
    /\ d.val = c.val /\ d.rng = c.rng /\ d.nbits_total = c.nbits_total
    /\ d.end_window = c.end_window /\ d.nend_bits = c.nend_bits
    /\ d.end_offs = c.end_offs /\ Size(d) = Size(c)

(* The same, without the products. *)
LEMMA Consts ==
    /\ Sym \in Nat /\ Sym >= 2 /\ SymMax = Sym - 1
    /\ Bot \in Nat /\ Bot >= 2 /\ Top \in Nat /\ Top > Bot
    /\ CodeShift \in Nat /\ CodeShift >= SymBits /\ CodeShift < CodeBits
    /\ Window = CodeBits
    BY Widths, Bits

LEMMA IsSeq ==
    ASSUME NEW B, NEW n \in Nat, NEW s, s \in [1 .. n -> B]
    PROVE  s \in Seq(B) /\ Len(s) = n
    OBVIOUS

LEMMA SeqIs ==
    ASSUME NEW B, NEW s \in Seq(B)
    PROVE  Len(s) \in Nat /\ s \in [1 .. Len(s) -> B]
    OBVIOUS

LEMMA WriteByteFacts ==
    ASSUME NEW c \in Ctx, Apart(c), NEW v \in Nat, NEW d, d = WriteByte(c, v)
    PROVE  /\ d \in Ctx /\ Apart(d) /\ SameRange(c, d) /\ d.rem = c.rem /\ d.ext = c.ext
           /\ Full(c) => d.error /\ d.offs = c.offs
           /\ ~Full(c) => d.error = c.error /\ d.offs = c.offs + 1
<1>1. v % Sym \in Bytes
    BY Widths DEF Bytes
<1>2. CASE Full(c)
    <2>1. d = [c EXCEPT !.error = TRUE]
        BY <1>2 DEF WriteByte
    <2> QED BY <1>2, <2>1 DEF Ctx, SameRange, Apart, Size
<1>3. CASE ~Full(c)
    <2> DEFINE b == [c.buf EXCEPT ![c.offs + 1] = v % Sym]
    <2>1. d = [c EXCEPT !.buf = b, !.offs = c.offs + 1]
        BY <1>3 DEF WriteByte, Ctx
    <2>2. b \in Seq(Bytes) /\ Len(b) = Size(c)
        <3>1. c.buf \in Seq(Bytes)
            BY DEF Ctx
        <3>2. Size(c) \in Nat /\ c.buf \in [1 .. Size(c) -> Bytes]
            BY <3>1, SeqIs DEF Size
        <3>3. b \in [1 .. Size(c) -> Bytes]
            BY <1>1, <3>2
        <3> HIDE DEF b
        <3> QED BY <3>2, <3>3, IsSeq
    <2>3. c.offs + 1 + c.end_offs <= Size(c)
        BY <1>3 DEF Full, Ctx, Size
    <2> HIDE DEF b
    <2>4. d \in Ctx
        <3>1. c.offs + 1 \in Nat
            BY DEF Ctx
        <3> QED BY <2>1, <2>2, <3>1, Zenon DEF Ctx
    <2>5. SameRange(c, d) /\ d.rem = c.rem /\ d.ext = c.ext /\ d.offs = c.offs + 1
        BY <2>1, <2>2 DEF Ctx, SameRange, Size
    <2>6. d.error = c.error
        BY <2>1 DEF Ctx
    <2> QED BY <1>3, <2>3, <2>4, <2>5, <2>6 DEF SameRange, Apart
<1> QED BY <1>2, <1>3

(* What a run of n bytes does. *)
RunWritten(c, n, d) ==
    /\ d \in Ctx /\ Apart(d) /\ SameRange(c, d) /\ d.rem = c.rem /\ d.ext = c.ext
    /\ d.offs >= c.offs
    /\ ~d.error => ~c.error /\ d.offs = c.offs + n
    /\ ~c.error /\ c.offs + n + c.end_offs <= Size(c) => ~d.error

LEMMA WriteRunFacts ==
    ASSUME NEW c \in Ctx, Apart(c), NEW v \in Bytes, NEW n \in Nat
    PROVE  RunWritten(c, n, WriteRun(c, v, n))
<1> DEFINE d == WriteRun(c, v, n)
<1> DEFINE free == Size(c) - c.offs - c.end_offs
           k == IF n <= free THEN n ELSE IF Full(c) THEN 0 ELSE free
           b == [i \in DOMAIN c.buf |-> IF i > c.offs /\ i <= c.offs + k THEN v ELSE c.buf[i]]
           e == c.error \/ k < n
<1>0. c.buf \in Seq(Bytes) /\ c.offs \in Nat /\ c.end_offs \in Nat /\ c.error \in BOOLEAN
    BY DEF Ctx
<1>1. Size(c) \in Nat /\ c.buf \in [1 .. Size(c) -> Bytes]
    BY <1>0, SeqIs DEF Size
<1>2. /\ k \in Nat /\ c.offs + k + c.end_offs <= Size(c) /\ k <= n
      /\ c.offs + n + c.end_offs <= Size(c) => k = n
    BY <1>0, <1>1 DEF Full, Apart, Size
<1>3. d = [c EXCEPT !.buf = b, !.offs = c.offs + k, !.error = e]
    BY DEF WriteRun, Ctx, Size
<1> HIDE DEF d
<1>4. b \in Seq(Bytes) /\ Len(b) = Size(c)
    <2>1. b \in [1 .. Size(c) -> Bytes]
        BY <1>1
    <2> HIDE DEF b
    <2> QED BY <1>1, <2>1, IsSeq
<1>5. e \in BOOLEAN /\ (~e <=> ~c.error /\ k = n)
    BY <1>0, <1>2
<1> HIDE DEF free, k, b, e
<1>6. d \in Ctx
    <2>1. c.offs + k \in Nat
        BY <1>0, <1>2
    <2> QED BY <1>3, <1>4, <1>5, <2>1, Zenon DEF Ctx
<1>7. SameRange(c, d) /\ d.rem = c.rem /\ d.ext = c.ext /\ d.offs = c.offs + k
    BY <1>3, <1>4 DEF Ctx, SameRange, Size
<1>8. d.error = e
    BY <1>3 DEF Ctx
<1>9. RunWritten(c, n, d)
    BY <1>0, <1>2, <1>5, <1>6, <1>7, <1>8 DEF SameRange, Apart, RunWritten
<1> QED BY <1>9 DEF d

(* What a byte that goes out does. *)
CarriedOut(c, s, d) ==
    /\ d \in Ctx /\ Apart(d) /\ SameRange(c, d)
    /\ ~d.error => ~c.error /\ Held(d) = Held(c) + 1
    /\ ~c.error /\ Held(c) + c.end_offs <= Size(c) => ~d.error
    /\ d.offs >= c.offs
    /\ c.rem >= 0 => d.rem >= 0
    /\ s # SymMax => d.rem >= 0 /\ d.ext = 0

LEMMA CarryOutFacts ==
    ASSUME NEW c \in Ctx, Apart(c), NEW s \in Nat
    PROVE  CarriedOut(c, s, CarryOut(c, s))
<1> DEFINE d == CarryOut(c, s)
<1> SUFFICES CarriedOut(c, s, d)
    OBVIOUS
<1>1. CASE s = SymMax
    <2>1. d = [c EXCEPT !.ext = c.ext + 1]
        BY <1>1 DEF CarryOut, Ctx
    <2> HIDE DEF d
    <2>2. c.ext + 1 \in Nat
        BY DEF Ctx
    <2>3. d \in Ctx
        BY <2>1, <2>2, Zenon DEF Ctx
    <2>4. SameRange(c, d) /\ d.rem = c.rem /\ d.ext = c.ext + 1 /\ d.offs = c.offs
        BY <2>1 DEF Ctx, SameRange, Size
    <2>5. d.error = c.error
        BY <2>1 DEF Ctx
    <2>6. Held(d) = Held(c) + 1
        BY <2>4 DEF Held, Ctx
    <2> QED BY <1>1, <2>3, <2>4, <2>5, <2>6 DEF SameRange, Apart, Ctx, CarriedOut
<1>2. CASE s # SymMax
    <2> DEFINE carry == s \div Sym
               front == IF c.rem >= 0 THEN WriteByte(c, c.rem + carry) ELSE c
               v == (SymMax + carry) % Sym
               run == WriteRun(front, v, c.ext)
    <2>0. c.ext \in Nat /\ c.offs \in Nat /\ c.end_offs \in Nat /\ c.rem \in Int /\ c.rem >= -1
          /\ c.error \in BOOLEAN /\ Size(c) \in Nat
        BY SeqIs, Widths DEF Ctx, Size
    <2>1. carry \in Nat /\ v \in Bytes /\ s % Sym \in -1 .. SymMax /\ s % Sym >= 0
        BY Widths DEF Bytes
    <2>2. d = [run EXCEPT !.ext = 0, !.rem = s % Sym]
        BY <1>2 DEF CarryOut
    <2> HIDE DEF d
    <2> HIDE DEF carry
    <2>3. /\ front \in Ctx /\ Apart(front) /\ SameRange(c, front)
          /\ ~front.error => ~c.error /\ front.offs = c.offs + IF c.rem >= 0 THEN 1 ELSE 0
          /\ ~c.error /\ Held(c) + c.end_offs <= Size(c) => ~front.error
          /\ front.offs >= c.offs
        <3>1. CASE c.rem >= 0
            <4>1. c.rem + carry \in Nat
                BY <2>0, <2>1, <3>1
            <4>2. /\ front \in Ctx /\ Apart(front) /\ SameRange(c, front)
                  /\ Full(c) => front.error /\ front.offs = c.offs
                  /\ ~Full(c) => front.error = c.error /\ front.offs = c.offs + 1
                BY <3>1, <4>1, WriteByteFacts
            <4>3. Held(c) + c.end_offs <= Size(c) => ~Full(c)
                BY <2>0, <3>1 DEF Held, Full, Size
            <4> HIDE DEF front
            <4> QED BY <2>0, <3>1, <4>2, <4>3
        <3>2. CASE ~(c.rem >= 0)
            <4>1. front = c
                BY <3>2
            <4> HIDE DEF front
            <4> QED BY <2>0, <3>2, <4>1 DEF SameRange
        <3> QED BY <3>1, <3>2
    <2>12. run = WriteRun(front, v, c.ext)
        OBVIOUS
    <2> HIDE DEF front, run, v
    <2>4. RunWritten(front, c.ext, run)
        <3>1. c.ext \in Nat /\ v \in Bytes /\ front \in Ctx /\ Apart(front)
            BY <2>0, <2>1, <2>3
        <3> QED BY <2>12, <3>1, WriteRunFacts
    <2> USE DEF RunWritten
    <2>5. d \in Ctx
        <3>1. 0 \in Nat
            OBVIOUS
        <3> QED BY <2>1, <2>2, <2>4, <3>1, Zenon DEF Ctx
    <2>6. SameRange(run, d) /\ d.rem = s % Sym /\ d.ext = 0 /\ d.offs = run.offs
        BY <2>2, <2>4 DEF Ctx, SameRange, Size
    <2>7. d.error = run.error
        BY <2>2, <2>4 DEF Ctx
    <2>8. SameRange(c, d)
        BY <2>3, <2>4, <2>6 DEF SameRange
    <2>9. ~d.error => ~c.error /\ Held(d) = Held(c) + 1
        BY <2>0, <2>1, <2>3, <2>4, <2>6, <2>7 DEF Held
    <2>10. ~c.error /\ Held(c) + c.end_offs <= Size(c) => ~d.error
        <3> SUFFICES ASSUME ~c.error, Held(c) + c.end_offs <= Size(c) PROVE ~d.error
            OBVIOUS
        <3>1. ~front.error /\ front.end_offs = c.end_offs /\ Size(front) = Size(c)
            BY <2>3 DEF SameRange
        <3>2. front.offs + c.ext + front.end_offs <= Size(front)
            BY <2>0, <2>3, <3>1 DEF Held
        <3> QED BY <2>4, <2>7, <3>1, <3>2
    <2>11. Apart(d) /\ d.offs >= c.offs
        <3>1. front.offs \in Nat /\ run.offs \in Nat
            BY <2>3, <2>4 DEF Ctx
        <3> QED BY <2>0, <2>3, <2>4, <2>6, <3>1 DEF Apart, SameRange
    <2> QED BY <2>1, <2>5, <2>6, <2>8, <2>9, <2>10, <2>11 DEF CarriedOut
<1> QED BY <1>1, <1>2

-----------------------------------------------------------------------------
(* The encoder's registers. *)

(* The bits of the bytes taken on both sides. *)
Taken(c) == SymBits * (Held(c) + c.end_offs)

(* nbits_total counts the bits taken on both sides of the buffer; when one *)
(* could not be written, there are more of them than the buffer has.       *)
Counted(c) ==
    /\ ~c.error => Taken(c) + c.nend_bits = c.nbits_total - CodeBits - 1
    /\ c.error => c.nbits_total >= CodeBits + 1 + SymBits * Size(c)

(* Between two passes of ec_enc_normalize. *)
EncMid(c) ==
    /\ c \in Ctx /\ Apart(c) /\ Counted(c)
    /\ c.rng >= 1 /\ c.rng <= Top /\ c.val + c.rng < 2 * Top

EncOK(c) == EncMid(c) /\ c.rng > Bot

(* While n leading bits that are 0 have not left the register, the range   *)
(* lies in its first part and no byte waits.                               *)
Open(c, n) == c.offs = 0 /\ c.rem < 0 => c.ext = 0 /\ Pow2[n] * (c.val + c.rng) <= Top

(* What a step of the encoder keeps. *)
Coded(c, d) == /\ Size(d) = Size(c)
               /\ \A n \in 1 .. SymBits : Open(c, n) => Open(d, n)

Fields(c) ==
    /\ Size(c) \in Nat
    /\ c.end_offs \in Nat /\ c.end_window \in Nat
    /\ c.nend_bits \in Nat /\ c.nend_bits <= CodeBits
    /\ c.nbits_total \in Int /\ c.offs \in Nat /\ c.rng \in Nat /\ c.val \in Nat
    /\ c.rem \in Int /\ c.rem >= -1 /\ c.rem <= SymMax
    /\ c.ext \in Nat
    /\ Held(c) \in Nat /\ Held(c) >= c.offs

LEMMA CtxTypes ==
    ASSUME NEW c \in Ctx PROVE Fields(c)
<1>1. c.buf \in Seq(Bytes) /\ c.rem \in -1 .. SymMax /\ c.nend_bits \in 0 .. Window
    BY DEF Ctx
<1>2. /\ c.end_offs \in Nat /\ c.end_window \in Nat
      /\ c.nbits_total \in Int /\ c.offs \in Nat /\ c.rng \in Nat /\ c.val \in Nat
      /\ c.ext \in Nat /\ c.error \in BOOLEAN
    BY DEF Ctx
<1>3. Size(c) \in Nat
    BY <1>1 DEF Size
<1>4. Held(c) \in Nat /\ Held(c) >= c.offs
    BY <1>2 DEF Held
<1>5. c.rem \in Int /\ c.rem >= -1 /\ c.rem <= SymMax
    BY <1>1, Consts
<1>6. c.nend_bits \in Nat /\ c.nend_bits <= CodeBits
    BY <1>1, Consts, Bits
<1> QED BY <1>1, <1>2, <1>3, <1>4, <1>5, <1>6 DEF Fields

LEMMA Scale ==
    /\ \A x \in Nat : SymBits * x \in Nat /\ SymBits * (x + 1) = SymBits * x + SymBits
    /\ \A x \in Nat, y \in Nat : x <= y => SymBits * x <= SymBits * y
    /\ \A x \in Nat, y \in Nat : SymBits * x < SymBits * y => x < y
    BY Bits

LEMMA CodedTwice ==
    ASSUME NEW c, NEW d, NEW e, Coded(c, d), Coded(d, e) PROVE Coded(c, e)
    BY DEF Coded

LEMMA EncShiftFacts ==
    ASSUME NEW c, EncMid(c)
    PROVE  LET d == EncShift(c)
           IN /\ EncMid(d) /\ Coded(c, d)
              /\ IF c.rng > Bot THEN d = c ELSE d.rng = c.rng * Sym
<1> DEFINE d == EncShift(c)
           s == c.val \div Bot
           o == CarryOut(c, s)
<1> USE Bits, Consts
<1>0. c \in Ctx /\ Apart(c) /\ Fields(c)
    BY CtxTypes DEF EncMid
<1>1. CASE c.rng > Bot
    BY <1>1 DEF EncShift, Coded
<1>2. CASE ~(c.rng > Bot)
    <2>1. d = [o EXCEPT !.val = (o.val * Sym) % Top, !.rng = o.rng * Sym,
                        !.nbits_total = o.nbits_total + SymBits]
        BY <1>2, Widths DEF EncShift
    <2>2. s \in Nat /\ s * Bot <= c.val
        <3>1. \A x \in Nat, y \in Nat : y > 0 => x \div y \in Nat /\ (x \div y) * y <= x
            OBVIOUS
        <3> QED BY <1>0, <3>1, Consts DEF Fields
    <2>3. CarriedOut(c, s, o)
        BY <1>0, <2>2, CarryOutFacts
    <2>4. o \in Ctx /\ o.val = c.val /\ o.rng = c.rng /\ o.nbits_total = c.nbits_total
        BY <2>3 DEF CarriedOut, SameRange
    <2> HIDE DEF d, o, s
    <2>5. /\ (o.val * Sym) % Top \in Nat /\ (o.val * Sym) % Top < Top
          /\ o.rng * Sym \in Nat /\ o.rng * Sym >= 1 /\ o.rng * Sym <= Top
          /\ o.nbits_total + SymBits \in Int
        <3>1. o.val * Sym \in Nat /\ Top \in Nat /\ Top > 0
            BY <1>0, <2>4, Consts, Products DEF Fields
        <3>2. \A x \in Nat, y \in Nat : y > 0 => x % y \in Nat /\ x % y < y
            OBVIOUS
        <3>3. o.rng * Sym \in Nat /\ o.rng * Sym >= 1
            BY <1>0, <2>4, Consts, Products DEF EncMid, Fields
        <3>4. o.rng * Sym <= Bot * Sym
            BY <1>0, <1>2, <2>4, Consts, Products DEF Fields
        <3>5. Bot * Sym = Top
            BY Widths
        <3> QED BY <1>0, <2>4, <3>1, <3>2, <3>3, <3>4, <3>5, Bits DEF Fields
    <2>6. d \in Ctx
        BY <2>1, <2>4, <2>5, Zenon DEF Ctx
    <2>7. /\ d.val = (o.val * Sym) % Top /\ d.rng = o.rng * Sym
          /\ d.nbits_total = o.nbits_total + SymBits
          /\ d.buf = o.buf /\ d.offs = o.offs /\ d.end_offs = o.end_offs
          /\ d.nend_bits = o.nend_bits /\ d.rem = o.rem /\ d.ext = o.ext
        BY <2>1, <2>4 DEF Ctx
    <2>8. d.error = o.error
        BY <2>1, <2>4 DEF Ctx
    <2>9. Apart(d) /\ Held(d) = Held(o) /\ Size(d) = Size(c)
        BY <2>3, <2>7 DEF Apart, Held, CarriedOut, SameRange, Size
    <2>10. d.rng >= 1 /\ d.rng <= Top /\ d.val + d.rng < 2 * Top
        BY <2>5, <2>7, Consts
    <2>11. Counted(d)
        <3>1. ASSUME ~d.error PROVE Taken(d) + d.nend_bits = d.nbits_total - CodeBits - 1
            <4>1. ~c.error /\ Held(d) = Held(c) + 1 /\ d.end_offs = c.end_offs
                  /\ d.nend_bits = c.nend_bits /\ d.nbits_total = c.nbits_total + SymBits
                BY <2>3, <2>4, <2>7, <2>8, <2>9, <3>1 DEF CarriedOut, SameRange
            <4>2. Taken(d) = Taken(c) + SymBits /\ Taken(c) \in Nat
                <5>1. Held(c) + c.end_offs \in Nat
                      /\ Held(d) + d.end_offs = (Held(c) + c.end_offs) + 1
                    BY <1>0, <4>1 DEF Fields
                <5> QED BY <5>1, Scale DEF Taken
            <4>3. Taken(c) + c.nend_bits = c.nbits_total - CodeBits - 1
                BY <4>1 DEF EncMid, Counted
            <4> QED BY <1>0, <4>1, <4>2, <4>3, Bits DEF Fields
        <3>2. ASSUME d.error PROVE d.nbits_total >= CodeBits + 1 + SymBits * Size(d)
            <4>1. CASE c.error
                <5>1. c.nbits_total >= CodeBits + 1 + SymBits * Size(c)
                    BY <4>1 DEF EncMid, Counted
                <5>2. SymBits * Size(c) \in Nat
                    BY <1>0, Scale DEF Fields
                <5> QED BY <1>0, <2>4, <2>7, <2>9, <5>1, <5>2, Bits DEF Fields
            <4>2. CASE ~c.error
                <5>1. ~(Held(c) + c.end_offs <= Size(c))
                    BY <2>3, <2>8, <3>2, <4>2 DEF CarriedOut
                <5>2. SymBits * Size(c) <= Taken(c) /\ SymBits * Size(c) \in Nat
                      /\ Taken(c) \in Nat
                    <6>1. Held(c) + c.end_offs \in Nat /\ Size(c) <= Held(c) + c.end_offs
                        BY <1>0, <5>1 DEF Fields
                    <6> QED BY <1>0, <6>1, Scale DEF Taken, Fields
                <5>3. Taken(c) + c.nend_bits = c.nbits_total - CodeBits - 1
                    BY <4>2 DEF EncMid, Counted
                <5> QED BY <1>0, <2>4, <2>7, <2>9, <5>2, <5>3, Bits DEF Fields
            <4> QED BY <4>1, <4>2
        <3> QED BY <3>1, <3>2 DEF Counted
    <2>12. ASSUME NEW n \in 1 .. SymBits, Open(c, n) PROVE Open(d, n)
        <3> SUFFICES ASSUME d.offs = 0, d.rem < 0 PROVE FALSE
            BY DEF Open
        <3>1. c.offs = 0 /\ c.rem < 0 /\ s = SymMax
            <4>1. Fields(o)
                BY <2>4, CtxTypes
            <4>2. /\ o.offs >= c.offs /\ (c.rem >= 0 => o.rem >= 0)
                  /\ (s # SymMax => o.rem >= 0)
                BY <2>3 DEF CarriedOut
            <4> QED BY <1>0, <2>7, <4>1, <4>2 DEF Fields
        <3>2. Pow2[n] * (c.val + c.rng) <= Top
            BY <2>12, <3>1 DEF Open
        <3>3. Pow2[n] \in Nat /\ Pow2[n] >= 2
            <4>1. n \in Nat /\ 0 < n /\ n <= CodeBits
                BY Bits
            <4>2. 2 * Pow2[0] <= Pow2[n]
                BY <4>1, Pow2Twice
            <4> QED BY <4>1, <4>2, Pow2Nat, Pow2Zero
        <3>4. 2 * (c.val + c.rng) <= Top
            <4>1. 2 * (c.val + c.rng) <= Pow2[n] * (c.val + c.rng)
                <5>1. c.val + c.rng \in Nat
                    BY <1>0 DEF Fields
                <5> QED BY <3>3, <5>1, Products
            <4>2. Pow2[n] * (c.val + c.rng) \in Nat /\ c.val + c.rng \in Nat
                BY <1>0, <3>3, Products DEF Fields
            <4> QED BY <3>2, <4>1, <4>2, Consts
        <3>5. 2 * (SymMax * Bot) < Sym * Bot /\ SymMax * Bot \in Nat
            <4>1. SymMax * Bot \in Nat /\ SymMax * Bot <= c.val /\ c.rng >= 1 /\ Top = Sym * Bot
                BY <2>2, <3>1, Widths DEF EncMid
            <4> QED BY <1>0, <3>4, <4>1 DEF Fields
        <3>6. Sym * Bot = SymMax * Bot + Bot /\ SymMax * Bot >= Bot
            BY Widths
        <3> QED BY <3>5, <3>6, Widths
    <2> QED BY <1>2, <2>4, <2>6, <2>7, <2>9, <2>10, <2>11, <2>12 DEF EncMid, Coded, d
<1> QED BY <1>1, <1>2

(* Three passes normalise any range that is not empty. *)
LEMMA EncNormalizeFacts ==
    ASSUME NEW c, EncMid(c)
    PROVE  EncOK(EncNormalize(c)) /\ Coded(c, EncNormalize(c))
<1> DEFINE d == EncShift(c)
           e == EncShift(d)
           f == EncShift(e)
<1>1. EncMid(d) /\ Coded(c, d) /\ IF c.rng > Bot THEN d = c ELSE d.rng = c.rng * Sym
    BY EncShiftFacts
<1> HIDE DEF d
<1>2. EncMid(e) /\ Coded(d, e) /\ IF d.rng > Bot THEN e = d ELSE e.rng = d.rng * Sym
    BY <1>1, EncShiftFacts
<1> HIDE DEF e
<1>3. EncMid(f) /\ Coded(e, f) /\ IF e.rng > Bot THEN f = e ELSE f.rng = e.rng * Sym
    BY <1>2, EncShiftFacts
<1> HIDE DEF f
<1>4. Coded(c, f)
    BY <1>1, <1>2, <1>3, CodedTwice
<1>5. f.rng > Bot
    <2> SUFFICES ASSUME ~(c.rng > Bot), ~(d.rng > Bot), ~(e.rng > Bot) PROVE f.rng > Bot
        BY <1>1, <1>2, <1>3
    <2>1. f.rng = ((c.rng * Sym) * Sym) * Sym /\ c.rng \in Nat /\ c.rng >= 1
        BY <1>1, <1>2, <1>3, CtxTypes DEF EncMid, Fields
    <2>2. ((c.rng * Sym) * Sym) * Sym = c.rng * ((Sym * Sym) * Sym)
        BY <2>1, Widths
    <2>3. c.rng * (2 * Bot) >= 2 * Bot
        BY <2>1, Widths
    <2> QED BY <2>1, <2>2, <2>3, Widths
<1>6. EncNormalize(c) = f
    BY DEF EncNormalize, d, e, f
<1> QED BY <1>3, <1>4, <1>5, <1>6 DEF EncOK

(* An encoder that is sound after a call as it was before. *)
Goes(c, d) == EncOK(d) /\ Coded(c, d)

(* A part of the range is taken. *)
Narrowed(c, v, r, d) ==
    /\ EncMid(d) /\ Coded(c, d)
    /\ d.val = v /\ d.rng = r /\ d.offs = c.offs /\ d.rem = c.rem /\ d.ext = c.ext

LEMMA NarrowMid ==
    ASSUME NEW c, EncOK(c), NEW v \in Nat, NEW r \in Nat,
           r >= 1, r <= c.rng, v + r <= c.val + c.rng
    PROVE  Narrowed(c, v, r, [c EXCEPT !.val = v, !.rng = r])
<1> DEFINE d == [c EXCEPT !.val = v, !.rng = r]
<1> USE Bits, Consts
<1>1. c \in Ctx /\ Fields(c) /\ EncMid(c)
    BY CtxTypes DEF EncOK, EncMid
<1>2. d \in Ctx
    BY <1>1, Zenon DEF Ctx
<1>3. /\ d.val = v /\ d.rng = r /\ d.nbits_total = c.nbits_total /\ d.buf = c.buf
      /\ d.offs = c.offs /\ d.end_offs = c.end_offs /\ d.nend_bits = c.nend_bits
      /\ d.rem = c.rem /\ d.ext = c.ext
    BY <1>1 DEF Ctx
<1>4. d.error = c.error
    BY <1>1 DEF Ctx
<1> HIDE DEF d
<1>5. Held(d) = Held(c) /\ Size(d) = Size(c)
    BY <1>3 DEF Held, Size
<1>6. Apart(d) /\ Counted(d)
    BY <1>1, <1>3, <1>4, <1>5 DEF EncMid, Apart, Counted, Taken
<1>7. EncMid(d)
    BY <1>1, <1>2, <1>3, <1>6 DEF EncMid, Fields
<1>8. ASSUME NEW n \in 1 .. SymBits, Open(c, n) PROVE Open(d, n)
    <2> SUFFICES ASSUME c.offs = 0, c.rem < 0
                 PROVE  d.ext = 0 /\ Pow2[n] * (d.val + d.rng) <= Top
        BY <1>3 DEF Open
    <2>1. c.ext = 0 /\ Pow2[n] * (c.val + c.rng) <= Top
        BY <1>8 DEF Open
    <2>2. Pow2[n] \in Nat
        BY Pow2Nat
    <2>3. Pow2[n] * (v + r) <= Pow2[n] * (c.val + c.rng) /\ Pow2[n] * (v + r) \in Nat
          /\ Pow2[n] * (c.val + c.rng) \in Nat
        <3>1. v + r \in Nat /\ c.val + c.rng \in Nat
            BY <1>1 DEF Fields
        <3> QED BY <2>2, <3>1, Products
    <2> QED BY <1>3, <2>1, <2>3
<1>9. Narrowed(c, v, r, d)
    BY <1>3, <1>5, <1>7, <1>8 DEF Coded, Narrowed
<1> QED BY <1>9 DEF d

LEMMA NarrowFacts ==
    ASSUME NEW c, EncOK(c), NEW v \in Nat, NEW r \in Nat,
           r >= 1, r <= c.rng, v + r <= c.val + c.rng
    PROVE  Goes(c, EncNormalize([c EXCEPT !.val = v, !.rng = r]))
<1> DEFINE d == [c EXCEPT !.val = v, !.rng = r]
<1>1. EncMid(d) /\ Coded(c, d)
    <2>1. Narrowed(c, v, r, d)
        BY NarrowMid
    <2> QED BY <2>1 DEF Narrowed
<1> HIDE DEF d
<1>2. EncOK(EncNormalize(d)) /\ Coded(d, EncNormalize(d))
    BY <1>1, EncNormalizeFacts
<1>3. Goes(c, EncNormalize(d))
    BY <1>1, <1>2, CodedTwice DEF Goes
<1> QED BY <1>3 DEF d

(* The part [fl, fh) of a range divided into ft. *)
LEMMA Part ==
    ASSUME NEW rng \in Nat, NEW ft \in Nat, NEW fl \in Nat, NEW fh \in Nat,
           ft >= 1, ft <= rng, fl < fh, fh <= ft, NEW r, r = rng \div ft
    PROVE  /\ r \in Nat /\ r >= 1 /\ r * ft <= rng
           /\ r * (ft - fl) \in Nat /\ r * (fh - fl) \in Nat /\ r * (ft - fh) \in Nat
           /\ r * (ft - fl) = r * (ft - fh) + r * (fh - fl)
           /\ r * (ft - fl) <= rng /\ r * (fh - fl) >= 1
           /\ r * (ft - fh) < rng
<1>1. r \in Nat /\ r >= 1 /\ r * ft <= rng
    <2>1. \A x \in Nat, y \in Nat : y >= 1 /\ y <= x =>
              x \div y \in Nat /\ x \div y >= 1 /\ (x \div y) * y <= x
        OBVIOUS
    <2> QED BY <2>1
<1>2. ft - fl \in Nat /\ fh - fl \in Nat /\ ft - fh \in Nat /\ fh - fl >= 1
      /\ ft - fl <= ft /\ ft - fl = (ft - fh) + (fh - fl)
    OBVIOUS
<1>3. r * (ft - fl) \in Nat /\ r * (fh - fl) \in Nat /\ r * (ft - fh) \in Nat /\ r * ft \in Nat
    BY <1>1, <1>2, Products
<1>4. r * (ft - fl) = r * (ft - fh) + r * (fh - fl)
    <2>1. \A x \in Nat, y \in Nat, z \in Nat : x * (y + z) = x * y + x * z
        OBVIOUS
    <2> QED BY <1>1, <1>2, <2>1
<1>5. r * (ft - fl) <= r * ft
    BY <1>1, <1>2, Products
<1>6. r * (fh - fl) >= 1
    BY <1>1, <1>2, Products
<1> QED BY <1>1, <1>3, <1>4, <1>5, <1>6

LEMMA EncodeFacts ==
    ASSUME NEW c, EncOK(c), NEW fl \in Nat, NEW fh \in Nat, NEW ft \in Nat,
           fl < fh, fh <= ft, ft <= Bot
    PROVE  Goes(c, Encode(c, fl, fh, ft))
<1> DEFINE r == c.rng \div ft
<1> USE Bits, Consts
<1>1. c \in Ctx /\ Fields(c) /\ c.rng > Bot
    BY CtxTypes DEF EncOK, EncMid
<1>2. /\ r \in Nat /\ r >= 1 /\ r * ft <= c.rng
      /\ r * (ft - fl) \in Nat /\ r * (fh - fl) \in Nat /\ r * (ft - fh) \in Nat
      /\ r * (ft - fl) = r * (ft - fh) + r * (fh - fl)
      /\ r * (ft - fl) <= c.rng /\ r * (fh - fl) >= 1
      /\ r * (ft - fh) < c.rng
    <2>1. c.rng \in Nat /\ ft >= 1 /\ ft <= c.rng
        BY <1>1 DEF Fields
    <2> QED BY <2>1, Part
<1> DEFINE fromlow == r * (ft - fl)
           part == r * (fh - fl)
           above == r * (ft - fh)
<1>3. Encode(c, fl, fh, ft) =
         EncNormalize(IF fl > 0 THEN [c EXCEPT !.val = c.val + c.rng - fromlow, !.rng = part]
                      ELSE [c EXCEPT !.rng = c.rng - above])
    BY <1>1 DEF Encode, Ctx
<1>4. /\ fromlow \in Nat /\ part \in Nat /\ above \in Nat /\ fromlow = above + part
      /\ fromlow <= c.rng /\ part >= 1 /\ above < c.rng
    BY <1>2
<1> HIDE DEF r, fromlow, part, above
<1>5. CASE fl > 0
    <2> DEFINE v == c.val + c.rng - fromlow
    <2>1. v \in Nat /\ part \in Nat /\ part >= 1 /\ part <= c.rng /\ v + part <= c.val + c.rng
        BY <1>1, <1>4 DEF Fields
    <2>2. Encode(c, fl, fh, ft) = EncNormalize([c EXCEPT !.val = v, !.rng = part])
        BY <1>3, <1>5
    <2> HIDE DEF v
    <2> QED BY <2>1, <2>2, NarrowFacts
<1>6. CASE ~(fl > 0)
    <2> DEFINE q == c.rng - above
               v == c.val
    <2>1. v \in Nat /\ q \in Nat /\ q >= 1 /\ q <= c.rng /\ v + q <= c.val + c.rng
        BY <1>1, <1>4 DEF Fields
    <2>2. [c EXCEPT !.rng = q] = [c EXCEPT !.val = v, !.rng = q]
        BY <1>1 DEF Ctx
    <2>3. Encode(c, fl, fh, ft) = EncNormalize([c EXCEPT !.val = v, !.rng = q])
        BY <1>3, <1>6, <2>2
    <2> HIDE DEF q, v
    <2> QED BY <2>1, <2>3, NarrowFacts
<1> QED BY <1>5, <1>6

LEMMA EncBitLogpFacts ==
    ASSUME NEW c, EncOK(c), NEW v \in 0 .. 1, NEW logp \in 1 .. CodeShift
    PROVE  Goes(c, EncBitLogp(c, v, logp))
<1> DEFINE s == c.rng \div Pow2[logp]
<1> USE Bits, Consts
<1>1. c \in Ctx /\ Fields(c) /\ c.rng > Bot
    BY CtxTypes DEF EncOK, EncMid
<1>2. Pow2[logp] \in Nat /\ Pow2[logp] >= 2 /\ Pow2[logp] <= Bot
    <2>1. 2 * Pow2[0] <= Pow2[logp] /\ Pow2[logp] <= Pow2[CodeShift]
        BY Pow2Twice, Pow2Mono
    <2> QED BY <2>1, Pow2Nat, Pow2Zero, Widths
<1>3. s \in Nat /\ s >= 1 /\ s < c.rng
    <2>1. \A x \in Nat, y \in Nat : y >= 2 /\ y <= x =>
              x \div y \in Nat /\ x \div y >= 1 /\ x \div y < x
        OBVIOUS
    <2>2. c.rng \in Nat /\ Pow2[logp] <= c.rng
        BY <1>1, <1>2 DEF Fields
    <2> QED BY <1>2, <2>1, <2>2
<1>4. EncBitLogp(c, v, logp) =
         EncNormalize(IF v = 1 THEN [c EXCEPT !.val = c.val + c.rng - s, !.rng = s]
                      ELSE [c EXCEPT !.rng = c.rng - s])
    BY <1>1 DEF EncBitLogp, Ctx
<1> HIDE DEF s
<1>5. CASE v = 1
    <2> DEFINE w == c.val + c.rng - s
    <2>1. w \in Nat /\ s <= c.rng /\ w + s <= c.val + c.rng
        BY <1>1, <1>3 DEF Fields
    <2>2. EncBitLogp(c, v, logp) = EncNormalize([c EXCEPT !.val = w, !.rng = s])
        BY <1>4, <1>5
    <2> HIDE DEF w
    <2> QED BY <1>3, <2>1, <2>2, NarrowFacts
<1>6. CASE v # 1
    <2> DEFINE q == c.rng - s
               w == c.val
    <2>1. w \in Nat /\ q \in Nat /\ q >= 1 /\ q <= c.rng /\ w + q <= c.val + c.rng
        BY <1>1, <1>3 DEF Fields
    <2>2. [c EXCEPT !.rng = q] = [c EXCEPT !.val = w, !.rng = q]
        BY <1>1 DEF Ctx
    <2>3. EncBitLogp(c, v, logp) = EncNormalize([c EXCEPT !.val = w, !.rng = q])
        BY <1>4, <1>6, <2>2
    <2> HIDE DEF q, w
    <2> QED BY <2>1, <2>3, NarrowFacts
<1> QED BY <1>5, <1>6

(* A symbol of an inverse table is the part of the range that ec_encode    *)
(* gives it.                                                               *)
LEMMA EncIcdfFacts ==
    ASSUME NEW c, EncOK(c), NEW ftb \in 0 .. CodeShift, NEW s \in Nat, NEW icdf,
           icdf[s + 1] \in Nat, icdf[s + 1] < Pow2[ftb],
           s > 0 => icdf[s] \in Nat /\ icdf[s + 1] < icdf[s] /\ icdf[s] < Pow2[ftb]
    PROVE  Goes(c, EncIcdf(c, s, icdf, ftb))
<1> USE Bits, Consts
<1> DEFINE ft == Pow2[ftb]
           fl == IF s > 0 THEN ft - icdf[s] ELSE 0
           fh == ft - icdf[s + 1]
<1>1. ft \in Nat /\ ft <= Bot
    BY Pow2Nat, Pow2Mono, Widths
<1> HIDE DEF ft
<1>2. fl \in Nat /\ fh \in Nat /\ fl < fh /\ fh <= ft
    BY <1>1 DEF ft
<1>3. /\ ft - fh = icdf[s + 1] /\ (fl > 0 <=> s > 0)
      /\ s > 0 => ft - fl = icdf[s] /\ fh - fl = icdf[s] - icdf[s + 1]
    BY <1>1 DEF ft
<1>4. EncIcdf(c, s, icdf, ftb) = Encode(c, fl, fh, ft)
    <2> HIDE DEF fl, fh
    <2>1. CASE s > 0
        BY <1>3, <2>1 DEF EncIcdf, Encode, ft
    <2>2. CASE ~(s > 0)
        BY <1>3, <2>2 DEF EncIcdf, Encode, ft
    <2> QED BY <2>1, <2>2
<1> HIDE DEF fl, fh
<1> QED BY <1>1, <1>2, <1>4, EncodeFacts

(* A byte of raw bits goes to the end. *)
RawOut(c, d) ==
    /\ d \in Ctx /\ Apart(d) /\ Size(d) = Size(c) /\ Held(d) = Held(c)
    /\ d.val = c.val /\ d.rng = c.rng /\ d.nbits_total = c.nbits_total
    /\ d.offs = c.offs /\ d.rem = c.rem /\ d.ext = c.ext
    /\ IF c.nend_bits < SymBits THEN d = c
       ELSE /\ d.nend_bits = c.nend_bits - SymBits
            /\ ~d.error => ~c.error /\ d.end_offs = c.end_offs + 1
            /\ ~c.error /\ c.offs + c.end_offs < Size(c) => ~d.error

LEMMA FlushRawOut ==
    ASSUME NEW c \in Ctx, Apart(c)
    PROVE  RawOut(c, FlushRaw(c))
<1> USE Bits, Consts
<1>3. Fields(c)
    BY CtxTypes
<1>4. c.buf \in Seq(Bytes) /\ c.error \in BOOLEAN
    BY DEF Ctx
<1>1. CASE c.nend_bits < SymBits
    <2>1. FlushRaw(c) = c
        BY <1>1 DEF FlushRaw
    <2> QED BY <1>1, <2>1 DEF RawOut
<1>2. CASE ~(c.nend_bits < SymBits)
    <2> DEFINE full == Full(c)
               x == c.end_window % Sym
               b == IF full THEN c.buf ELSE [c.buf EXCEPT ![Size(c) - c.end_offs] = x]
               o == IF full THEN c.end_offs ELSE c.end_offs + 1
               e == IF full THEN TRUE ELSE c.error
               w == c.end_window \div Sym
               k == c.nend_bits - SymBits
               d == FlushRaw(c)
    <2>1. x \in Bytes /\ w \in Nat /\ k \in 0 .. Window
        <3>1. \A y \in Nat, z \in Nat : z >= 1 => y % z \in 0 .. z - 1 /\ y \div z \in Nat
            OBVIOUS
        <3>2. c.end_window \in Nat /\ Sym \in Nat /\ Sym >= 1
            BY <1>3 DEF Fields
        <3>3. c.end_window % Sym \in 0 .. Sym - 1 /\ c.end_window \div Sym \in Nat
            BY <3>1, <3>2, Zenon
        <3>4. k \in 0 .. Window
            BY <1>2, <1>3 DEF Fields
        <3> QED BY <3>3, <3>4 DEF Bytes
    <2>2. b \in Seq(Bytes) /\ Len(b) = Size(c)
        <3>1. c.buf \in [1 .. Size(c) -> Bytes] /\ Size(c) \in Nat
            BY <1>4, SeqIs DEF Size
        <3>2. b \in [1 .. Size(c) -> Bytes]
            BY <2>1, <3>1
        <3> HIDE DEF b
        <3> QED BY <3>1, <3>2, IsSeq
    <2>3. o \in Nat /\ e \in BOOLEAN
        <3>1. o \in Nat
            BY <1>3 DEF Fields
        <3>2. e \in BOOLEAN
            BY <1>4
        <3> QED BY <3>1, <3>2
    <2>4. d = [c EXCEPT !.buf = b, !.end_offs = o, !.error = e, !.end_window = w, !.nend_bits = k]
        <3>1. CASE full
            <4> DEFINE g == WriteByteAtEnd(c, x)
            <4>1. g = [c EXCEPT !.error = TRUE]
                BY <3>1 DEF WriteByteAtEnd
            <4>2. d = [g EXCEPT !.end_window = @ \div Sym, !.nend_bits = @ - SymBits]
                BY <1>2 DEF FlushRaw
            <4>3. b = c.buf /\ o = c.end_offs /\ e = TRUE
                BY <3>1
            <4> HIDE DEF g, b, o, e, d, full
            <4> QED BY <4>1, <4>2, <4>3 DEF Ctx
        <3>2. CASE ~full
            <4> DEFINE g == WriteByteAtEnd(c, x)
            <4>1. g = [c EXCEPT !.buf = b, !.end_offs = o]
                BY <3>2 DEF WriteByteAtEnd, Ctx, Size
            <4>2. d = [g EXCEPT !.end_window = @ \div Sym, !.nend_bits = @ - SymBits]
                BY <1>2 DEF FlushRaw
            <4>3. e = c.error
                BY <3>2
            <4> HIDE DEF g, b, o, e, d, full
            <4> QED BY <4>1, <4>2, <4>3 DEF Ctx
        <3> QED BY <3>1, <3>2
    <2>5. full <=> c.offs + c.end_offs >= Size(c)
        BY DEF Full, Size
    <2>6. (o = IF full THEN c.end_offs ELSE c.end_offs + 1) /\ k = c.nend_bits - SymBits
        OBVIOUS
    <2>7. e = IF full THEN TRUE ELSE c.error
        OBVIOUS
    <2> HIDE DEF full, x, b, o, e, w, k, d
    <2>8. d \in Ctx
        BY <2>1, <2>2, <2>3, <2>4, Zenon DEF Ctx
    <2>9. /\ d.val = c.val /\ d.rng = c.rng /\ d.nbits_total = c.nbits_total
          /\ d.offs = c.offs /\ d.rem = c.rem /\ d.ext = c.ext
          /\ d.buf = b /\ d.end_offs = o /\ d.nend_bits = k
        BY <2>4 DEF Ctx
    <2>10. d.error = e
        BY <2>4 DEF Ctx
    <2>11. Size(d) = Size(c) /\ Held(d) = Held(c)
        BY <2>2, <2>9 DEF Size, Held
    <2>12. Apart(d)
        BY <1>3, <2>5, <2>6, <2>9, <2>11 DEF Apart, Fields
    <2>13. ~d.error => ~c.error /\ d.end_offs = c.end_offs + 1
        BY <2>6, <2>7, <2>9, <2>10
    <2>14. ~c.error /\ c.offs + c.end_offs < Size(c) => ~d.error
        <3>1. c.offs + c.end_offs < Size(c) => ~full
            BY <1>3, <2>5 DEF Fields
        <3> QED BY <2>7, <2>10, <3>1
    <2>15. RawOut(c, d)
        BY <1>2, <2>6, <2>8, <2>9, <2>11, <2>12, <2>13, <2>14 DEF RawOut
    <2> QED BY <2>15 DEF d
<1> QED BY <1>1, <1>2

(* The bits are still counted. *)
LEMMA FlushRawFacts ==
    ASSUME NEW c, EncOK(c)
    PROVE  RawOut(c, FlushRaw(c)) /\ Goes(c, FlushRaw(c))
<1> USE Bits, Consts
<1> DEFINE d == FlushRaw(c)
<1>0. c \in Ctx /\ EncMid(c) /\ Apart(c)
    BY DEF EncOK, EncMid
<1>1. RawOut(c, d)
    BY <1>0, FlushRawOut
<1>2. Fields(c)
    BY <1>0, CtxTypes
<1> HIDE DEF d
<1>3. Coded(c, d)
    BY <1>1 DEF RawOut, Coded, Open
<1>4. CASE c.nend_bits < SymBits
    <2>1. d = c
        BY <1>1, <1>4 DEF RawOut
    <2> QED BY <1>1, <1>3, <2>1 DEF Goes, d
<1>5. CASE ~(c.nend_bits < SymBits)
    <2>1. /\ Size(d) = Size(c) /\ Held(d) = Held(c) /\ d.nbits_total = c.nbits_total
          /\ d.nend_bits = c.nend_bits - SymBits
          /\ ~d.error => ~c.error /\ d.end_offs = c.end_offs + 1
          /\ ~c.error /\ c.offs + c.end_offs < Size(c) => ~d.error
        BY <1>1, <1>5 DEF RawOut
    <2>2. ASSUME ~d.error PROVE Taken(d) + d.nend_bits = d.nbits_total - CodeBits - 1
        <3>1. ~c.error /\ Held(d) + d.end_offs = (Held(c) + c.end_offs) + 1
              /\ Held(c) + c.end_offs \in Nat
            BY <1>2, <2>1, <2>2 DEF Fields
        <3>2. Taken(d) = Taken(c) + SymBits /\ Taken(c) \in Nat
            BY <3>1, Scale DEF Taken
        <3>3. Taken(c) + c.nend_bits = c.nbits_total - CodeBits - 1
            BY <1>0, <3>1 DEF EncMid, Counted
        <3> QED BY <1>2, <2>1, <3>2, <3>3 DEF Fields
    <2>3. ASSUME d.error PROVE d.nbits_total >= CodeBits + 1 + SymBits * Size(d)
        <3>1. CASE c.error
            <4>1. c.nbits_total >= CodeBits + 1 + SymBits * Size(c)
                BY <1>0, <3>1 DEF EncMid, Counted
            <4> QED BY <2>1, <4>1
        <3>2. CASE ~c.error
            <4>1. Size(c) <= Held(c) + c.end_offs /\ Held(c) + c.end_offs \in Nat
                <5>1. ~(c.offs + c.end_offs < Size(c))
                    BY <2>1, <2>3, <3>2
                <5> QED BY <1>2, <5>1 DEF Fields
            <4>2. SymBits * Size(c) <= Taken(c) /\ SymBits * Size(c) \in Nat
                  /\ Taken(c) \in Nat
                BY <1>2, <4>1, Scale DEF Taken, Fields
            <4>3. Taken(c) + c.nend_bits = c.nbits_total - CodeBits - 1
                BY <1>0, <3>2 DEF EncMid, Counted
            <4> QED BY <1>2, <2>1, <4>2, <4>3 DEF Fields
        <3> QED BY <3>1, <3>2
    <2>4. Counted(d)
        BY <2>2, <2>3 DEF Counted
    <2>5. EncOK(d)
        BY <1>1, <2>4 DEF EncOK, EncMid, RawOut
    <2> QED BY <1>1, <1>3, <2>5 DEF Goes, d
<1> QED BY <1>4, <1>5

(* The bits of the bytes written on both sides and of the raw window. *)
Span(c) == SymBits * (c.offs + c.end_offs) + c.nend_bits

(* The window holds four bytes: four passes leave less than one. *)
WindowOut(c, d) ==
    /\ d \in Ctx /\ Apart(d) /\ Size(d) = Size(c)
    /\ d.rng = c.rng /\ d.nbits_total = c.nbits_total /\ d.offs = c.offs
    /\ d.nend_bits \in 0 .. SymBits - 1
    /\ ~c.error /\ Span(c) < SymBits * (Size(c) + 1) => ~d.error /\ Span(d) = Span(c)

LEMMA SpanKept ==
    ASSUME NEW c \in Ctx, NEW d, RawOut(c, d),
           ~c.error, Span(c) < SymBits * (Size(c) + 1)
    PROVE  ~d.error /\ Span(d) = Span(c)
<1> USE Bits, Consts
<1>1. Fields(c)
    BY CtxTypes
<1>2. CASE c.nend_bits < SymBits
    BY <1>2 DEF RawOut
<1>3. CASE ~(c.nend_bits < SymBits)
    <2> DEFINE x == c.offs + c.end_offs
    <2>1. x \in Nat /\ SymBits * x \in Nat /\ SymBits * (x + 1) = SymBits * x + SymBits
          /\ SymBits * (Size(c) + 1) \in Nat
        BY <1>1, Scale DEF Fields
    <2>2. SymBits * (x + 1) < SymBits * (Size(c) + 1)
        BY <1>1, <1>3, <2>1 DEF Span, Fields
    <2>3. x < Size(c)
        <3>1. x + 1 \in Nat /\ Size(c) + 1 \in Nat
            BY <1>1, <2>1 DEF Fields
        <3>2. x + 1 < Size(c) + 1
            BY <2>2, <3>1, Scale
        <3> QED BY <1>1, <2>1, <3>2 DEF Fields
    <2>4. /\ ~d.error /\ d.end_offs = c.end_offs + 1 /\ d.nend_bits = c.nend_bits - SymBits
          /\ d.offs = c.offs
        BY <1>3, <2>3 DEF RawOut
    <2>5. d.offs + d.end_offs = x + 1
        BY <1>1, <2>4 DEF Fields
    <2> QED BY <1>1, <2>1, <2>4, <2>5 DEF Span, Fields
<1> QED BY <1>2, <1>3

LEMMA FlushWindowOut ==
    ASSUME NEW c \in Ctx, Apart(c)
    PROVE  WindowOut(c, FlushWindow(c))
<1> USE Bits, Consts
<1> DEFINE d1 == FlushRaw(c)
           d2 == FlushRaw(d1)
           d3 == FlushRaw(d2)
           d4 == FlushRaw(d3)
<1>1. RawOut(c, d1)
    BY FlushRawOut
<1> HIDE DEF d1
<1>2. RawOut(d1, d2)
    BY <1>1, FlushRawOut DEF RawOut
<1> HIDE DEF d2
<1>3. RawOut(d2, d3)
    BY <1>2, FlushRawOut DEF RawOut
<1> HIDE DEF d3
<1>4. RawOut(d3, d4)
    BY <1>3, FlushRawOut DEF RawOut
<1> HIDE DEF d4
<1>5. d4.nend_bits \in 0 .. SymBits - 1
    <2>1. Fields(c) /\ Fields(d1) /\ Fields(d2) /\ Fields(d3) /\ Fields(d4)
        BY <1>1, <1>2, <1>3, <1>4, CtxTypes DEF RawOut
    <2>2. IF c.nend_bits < SymBits THEN d1 = c ELSE d1.nend_bits = c.nend_bits - SymBits
        BY <1>1 DEF RawOut
    <2>3. IF d1.nend_bits < SymBits THEN d2 = d1 ELSE d2.nend_bits = d1.nend_bits - SymBits
        BY <1>2 DEF RawOut
    <2>4. IF d2.nend_bits < SymBits THEN d3 = d2 ELSE d3.nend_bits = d2.nend_bits - SymBits
        BY <1>3 DEF RawOut
    <2>5. IF d3.nend_bits < SymBits THEN d4 = d3 ELSE d4.nend_bits = d3.nend_bits - SymBits
        BY <1>4 DEF RawOut
    <2> QED BY <2>1, <2>2, <2>3, <2>4, <2>5 DEF Fields
<1>6. FlushWindow(c) = d4
    BY DEF FlushWindow, d1, d2, d3, d4
<1>7. ASSUME ~c.error, Span(c) < SymBits * (Size(c) + 1)
      PROVE  ~d4.error /\ Span(d4) = Span(c)
    <2>1. d1 \in Ctx /\ d2 \in Ctx /\ d3 \in Ctx
          /\ Size(d1) = Size(c) /\ Size(d2) = Size(c) /\ Size(d3) = Size(c)
        BY <1>1, <1>2, <1>3 DEF RawOut
    <2>2. ~d1.error /\ Span(d1) = Span(c)
        BY <1>1, <1>7, SpanKept
    <2>3. ~d2.error /\ Span(d2) = Span(c)
        BY <1>2, <1>7, <2>1, <2>2, SpanKept
    <2>4. ~d3.error /\ Span(d3) = Span(c)
        BY <1>3, <1>7, <2>1, <2>3, SpanKept
    <2> QED BY <1>4, <1>7, <2>1, <2>4, SpanKept
<1> QED BY <1>1, <1>2, <1>3, <1>4, <1>5, <1>6, <1>7 DEF WindowOut, RawOut

LEMMA FlushWindowFacts ==
    ASSUME NEW c, EncOK(c)
    PROVE  /\ Goes(c, FlushWindow(c))
           /\ FlushWindow(c).nend_bits \in 0 .. SymBits - 1
<1> DEFINE d1 == FlushRaw(c)
           d2 == FlushRaw(d1)
           d3 == FlushRaw(d2)
           d4 == FlushRaw(d3)
<1>1. Goes(c, d1)
    BY FlushRawFacts
<1> HIDE DEF d1
<1>2. Goes(d1, d2)
    BY <1>1, FlushRawFacts DEF Goes
<1> HIDE DEF d2
<1>3. Goes(d2, d3)
    BY <1>2, FlushRawFacts DEF Goes
<1> HIDE DEF d3
<1>4. Goes(d3, d4)
    BY <1>3, FlushRawFacts DEF Goes
<1> HIDE DEF d4
<1>5. Goes(c, d4)
    BY <1>1, <1>2, <1>3, <1>4, CodedTwice DEF Goes
<1>6. FlushWindow(c) = d4
    BY DEF FlushWindow, d1, d2, d3, d4
<1>7. WindowOut(c, FlushWindow(c))
    BY FlushWindowOut DEF EncOK, EncMid
<1> QED BY <1>5, <1>6, <1>7 DEF WindowOut

LEMMA EncBitsFacts ==
    ASSUME NEW c, EncOK(c), NEW bits \in 1 .. Window - SymBits + 1, NEW fl \in Nat
    PROVE  Goes(c, EncBits(c, fl, bits))
<1> USE Bits, Consts
<1> DEFINE d == IF c.nend_bits + bits > Window THEN FlushWindow(c) ELSE c
<1>0. Fields(c)
    BY CtxTypes DEF EncOK, EncMid
<1>1. EncOK(d) /\ Coded(c, d) /\ d.nend_bits + bits <= Window
    <2>1. CASE c.nend_bits + bits > Window
        <3>1. Goes(c, FlushWindow(c)) /\ FlushWindow(c).nend_bits \in 0 .. SymBits - 1
            BY FlushWindowFacts
        <3>2. d = FlushWindow(c)
            BY <2>1
        <3> HIDE DEF d
        <3> QED BY <3>1, <3>2 DEF Goes
    <2>2. CASE ~(c.nend_bits + bits > Window)
        <3>1. d = c
            BY <2>2
        <3> HIDE DEF d
        <3> QED BY <1>0, <2>2, <3>1 DEF Coded, Fields
    <2> QED BY <2>1, <2>2
<1>2. d \in Ctx /\ Fields(d) /\ EncMid(d)
    BY <1>1, CtxTypes DEF EncOK, EncMid
<1> DEFINE w == d.end_window + fl * Pow2[d.nend_bits]
           k == d.nend_bits + bits
           t == d.nbits_total + bits
           e == EncBits(c, fl, bits)
<1>3. e = [d EXCEPT !.end_window = w, !.nend_bits = k, !.nbits_total = t]
    BY <1>2 DEF EncBits, Ctx
<1> HIDE DEF d
<1>4. w \in Nat /\ k \in 0 .. Window /\ t \in Int
    <2>1. Pow2[d.nend_bits] \in Nat
        BY <1>2, Pow2Nat DEF Fields
    <2>2. fl * Pow2[d.nend_bits] \in Nat
        BY <2>1, Products
    <2> QED BY <1>1, <1>2, <2>2 DEF Fields
<1>5. k = d.nend_bits + bits /\ t = d.nbits_total + bits
    OBVIOUS
<1> HIDE DEF w, k, t, e
<1>6. e \in Ctx
    BY <1>2, <1>3, <1>4, Zenon DEF Ctx
<1>7. /\ e.val = d.val /\ e.rng = d.rng /\ e.nbits_total = t
      /\ e.offs = d.offs /\ e.rem = d.rem /\ e.ext = d.ext
      /\ e.buf = d.buf /\ e.end_offs = d.end_offs /\ e.nend_bits = k
    BY <1>2, <1>3 DEF Ctx
<1>8. e.error = d.error
    BY <1>2, <1>3 DEF Ctx
<1>9. Size(e) = Size(d) /\ Held(e) = Held(d)
    BY <1>7 DEF Size, Held
<1>10. Counted(e)
    <2>1. ASSUME ~e.error PROVE Taken(e) + e.nend_bits = e.nbits_total - CodeBits - 1
        <3>1. Taken(d) + d.nend_bits = d.nbits_total - CodeBits - 1 /\ Taken(e) = Taken(d)
            BY <1>2, <1>7, <1>8, <1>9, <2>1 DEF EncMid, Counted, Taken
        <3>2. Taken(d) \in Nat
            BY <1>2, Scale DEF Taken, Fields
        <3> QED BY <1>2, <1>5, <1>7, <3>1, <3>2 DEF Fields
    <2>2. ASSUME e.error PROVE e.nbits_total >= CodeBits + 1 + SymBits * Size(e)
        <3>1. d.nbits_total >= CodeBits + 1 + SymBits * Size(d)
            BY <1>2, <1>8, <2>2 DEF EncMid, Counted
        <3>2. SymBits * Size(d) \in Nat
            BY <1>2, Scale DEF Fields
        <3> QED BY <1>2, <1>5, <1>7, <1>9, <3>1, <3>2 DEF Fields
    <2> QED BY <2>1, <2>2 DEF Counted
<1>11. EncOK(e)
    BY <1>1, <1>2, <1>6, <1>7, <1>9, <1>10 DEF EncOK, EncMid, Apart
<1>12. Coded(d, e)
    BY <1>7, <1>9 DEF Coded, Open
<1>13. Goes(c, e)
    BY <1>1, <1>11, <1>12, CodedTwice DEF Goes
<1> QED BY <1>13 DEF e

(* ec_ilog is the number of bits. *)
LEMMA IlogFacts ==
    ASSUME NEW v \in Nat, v >= 1, v < Pow2[CodeBits]
    PROVE  /\ Ilog(v) \in 1 .. CodeBits
           /\ Pow2[Ilog(v) - 1] <= v /\ v < Pow2[Ilog(v)]
<1> USE Bits
<1> DEFINE T == {l \in Nat : l <= CodeBits /\ v < Pow2[l]}
<1>1. CodeBits \in T /\ T \subseteq Nat /\ T # {}
    OBVIOUS
<1>2. PICK l \in T : \A k \in T : l <= k
    <2> HIDE DEF T
    <2> QED BY <1>1, Least
<1>3. l # 0
    BY <1>2, Pow2Zero
<1>4. l - 1 \in Nat /\ l - 1 \notin T
    BY <1>2, <1>3
<1>5. l \in 1 .. CodeBits /\ Pow2[l - 1] <= v /\ v < Pow2[l]
    BY <1>2, <1>3, <1>4, Pow2Nat
<1>6. Ilog(v) = CHOOSE k \in 1 .. CodeBits : Pow2[k - 1] <= v /\ v < Pow2[k]
    BY DEF Ilog
<1> QED BY <1>5, <1>6

LEMMA RawBitsFacts ==
    ASSUME NEW n \in Nat, n >= 2, n < Pow2[CodeBits], NEW ftb, ftb = RawBits(n)
    PROVE  /\ ftb \in 0 .. CodeBits - SymBits /\ Pow2[ftb] \in Nat /\ Pow2[ftb] >= 1
           /\ (n - 1) \div Pow2[ftb] + 1 \in 1 .. Sym
           /\ ftb = 0 => n <= Sym
           /\ Sym <= Bot
<1> USE Bits, Consts
<1> DEFINE l == Ilog(n - 1)
<1>1. l \in 1 .. CodeBits /\ n - 1 < Pow2[l]
    <2>1. n - 1 \in Nat /\ n - 1 >= 1 /\ n - 1 < Pow2[CodeBits]
        BY Pow2Nat
    <2> QED BY <2>1, IlogFacts
<1>2. ftb = IF l > SymBits THEN l - SymBits ELSE 0
    BY DEF RawBits, UintBits
<1> HIDE DEF l
<1>3. ftb \in 0 .. CodeBits - SymBits /\ ftb \in Nat /\ ftb <= CodeBits
    BY <1>1, <1>2
<1>4. Pow2[ftb] \in Nat /\ Pow2[ftb] >= 1
    BY <1>3, Pow2Nat
<1>5. n - 1 < Pow2[ftb] * Sym
    <2>1. l <= ftb + SymBits /\ ftb + SymBits <= CodeBits /\ ftb + SymBits \in Nat /\ l \in Nat
        BY <1>1, <1>2
    <2>2. Pow2[l] <= Pow2[ftb + SymBits]
        BY <2>1, Pow2Mono
    <2>3. Pow2[ftb + SymBits] = Pow2[ftb] * Sym
        BY <1>3, <2>1, Pow2Plus DEF Sym
    <2>4. Pow2[ftb] * Sym \in Nat /\ Pow2[l] \in Nat
        BY <1>4, <2>1, Pow2Nat, Products
    <2> QED BY <1>1, <2>2, <2>3, <2>4
<1>6. (n - 1) \div Pow2[ftb] + 1 \in 1 .. Sym
    <2>1. \A x \in Nat, y \in Nat, z \in Nat : y >= 1 /\ x < y * z =>
              x \div y \in Nat /\ x \div y < z
        OBVIOUS
    <2>2. n - 1 \in Nat
        OBVIOUS
    <2>3. (n - 1) \div Pow2[ftb] \in Nat /\ (n - 1) \div Pow2[ftb] < Sym
        BY <1>4, <1>5, <2>1, <2>2
    <2> QED BY <2>3
<1>7. ftb = 0 => n <= Sym
    BY <1>5, Pow2Zero
<1>8. Sym <= Bot
    BY Pow2Mono, Widths DEF Sym
<1> QED BY <1>3, <1>4, <1>6, <1>7, <1>8

LEMMA EncUintFacts ==
    ASSUME NEW c, EncOK(c), NEW n \in Nat, n >= 2, n < Pow2[CodeBits], NEW fl \in 0 .. n - 1
    PROVE  Goes(c, EncUint(c, fl, n))
<1> USE Bits, Consts
<1> DEFINE ftb == RawBits(n)
           p == Pow2[ftb]
           ft == (n - 1) \div p + 1
           top == fl \div p
<1>1. /\ ftb \in 0 .. CodeBits - SymBits /\ p \in Nat /\ p >= 1
      /\ ft \in 1 .. Sym /\ (ftb = 0 => n <= Sym) /\ Sym <= Bot
    BY RawBitsFacts
<1>2. EncUint(c, fl, n) = IF ftb > 0 THEN EncBits(Encode(c, top, top + 1, ft), fl % p, ftb)
                          ELSE Encode(c, fl, fl + 1, n)
    BY DEF EncUint
<1> HIDE DEF ftb
<1>3. top \in Nat /\ top + 1 \in Nat /\ top < top + 1 /\ top + 1 <= ft /\ fl % p \in Nat
    <2>1. \A x \in Nat, y \in Nat, z \in Nat : z >= 1 /\ x <= y =>
              x \div z \in Nat /\ x \div z <= y \div z /\ y \div z \in Nat /\ x % z \in Nat
        OBVIOUS
    <2>2. fl \in Nat /\ n - 1 \in Nat /\ fl <= n - 1 /\ p >= 1 /\ p \in Nat
        BY <1>1
    <2>3. fl \div p \in Nat /\ fl \div p <= (n - 1) \div p /\ (n - 1) \div p \in Nat /\ fl % p \in Nat
        BY <2>1, <2>2, Zenon
    <2> QED BY <2>3
<1>4. CASE ftb > 0
    <2> DEFINE x == fl % p
    <2>1. x \in Nat
        BY <1>3
    <2> HIDE DEF top, ft, x
    <2>2. ft \in Nat /\ ft <= Bot
        BY <1>1
    <2> DEFINE d == Encode(c, top, top + 1, ft)
    <2>3. Goes(c, d)
        BY <1>3, <2>2, EncodeFacts
    <2> HIDE DEF d
    <2>4. ftb \in 1 .. Window - SymBits + 1
        BY <1>1, <1>4
    <2>5. Goes(d, EncBits(d, x, ftb))
        BY <2>1, <2>3, <2>4, EncBitsFacts DEF Goes
    <2>6. Goes(c, EncBits(d, x, ftb))
        BY <2>3, <2>5, CodedTwice DEF Goes
    <2> QED BY <1>2, <1>4, <2>6 DEF d, x
<1>5. CASE ~(ftb > 0)
    <2>1. EncUint(c, fl, n) = Encode(c, fl, fl + 1, n)
        BY <1>2, <1>5
    <2>2. fl \in Nat /\ fl + 1 \in Nat /\ fl < fl + 1 /\ fl + 1 <= n /\ n <= Bot
        BY <1>1, <1>5
    <2> QED BY <2>1, <2>2, EncodeFacts
<1> QED BY <1>4, <1>5

(* The routines, with what their callers see to. *)
LEMMA EncSymbolFacts ==
    ASSUME NEW c, EncOK(c), NEW op, Codable(op), NEW v \in Values(op)
    PROVE  Goes(c, EncSymbol(c, op, v))
<1> USE Bits, Consts
<1>0. op.kind \in Kinds /\ op.n \in Nat /\ op.table \in Seq(Nat)
    BY DEF Codable
<1>1. CASE op.kind = "uint"
    <2>1. op.n \in 2 .. Pow2[CodeBits] - 1 /\ v \in 0 .. op.n - 1 /\ Pow2[CodeBits] \in Nat
        BY <1>1, Pow2Nat DEF Codable, Values
    <2>2. op.n \in Nat /\ op.n >= 2 /\ op.n < Pow2[CodeBits]
        BY <2>1
    <2>3. EncSymbol(c, op, v) = EncUint(c, v, op.n)
        BY <1>1 DEF EncSymbol
    <2> QED BY <2>1, <2>2, <2>3, EncUintFacts
<1>2. CASE op.kind = "bits"
    <2>1. op.n \in 1 .. Window - SymBits + 1
        BY <1>2 DEF Codable
    <2>2. v \in Nat
        BY <1>2, <2>1, Pow2Nat DEF Values
    <2>3. EncSymbol(c, op, v) = EncBits(c, v, op.n)
        BY <1>2 DEF EncSymbol
    <2> QED BY <2>1, <2>2, <2>3, EncBitsFacts
<1>3. CASE op.kind = "logp"
    <2>1. op.n \in 1 .. CodeShift /\ v \in 0 .. 1
        BY <1>3 DEF Codable, Values
    <2>2. EncSymbol(c, op, v) = EncBitLogp(c, v, op.n)
        BY <1>3 DEF EncSymbol
    <2> QED BY <2>1, <2>2, EncBitLogpFacts
<1>4. CASE op.kind = "icdf"
    <2>1. /\ op.n \in 0 .. CodeShift /\ op.table # <<>> /\ op.table[1] < Pow2[op.n]
          /\ \A i, j \in 1 .. Len(op.table) : i < j => op.table[i] >= op.table[j]
        BY <1>0, <1>4 DEF Codable
    <2>2. v \in 0 .. Len(op.table) - 1 /\ (v > 0 => op.table[v] > op.table[v + 1])
        BY <1>4 DEF Values, Likely
    <2>3. EncSymbol(c, op, v) = EncIcdf(c, v, op.table, op.n)
        BY <1>4 DEF EncSymbol
    <2>4. /\ \A i \in 1 .. Len(op.table) : op.table[i] \in Nat
          /\ Len(op.table) \in Nat /\ Len(op.table) >= 1
        BY <1>0, <2>1
    <2>5. v \in Nat /\ v + 1 \in 1 .. Len(op.table) /\ (v > 0 => v \in 1 .. Len(op.table))
          /\ 1 \in 1 .. Len(op.table)
        BY <2>2, <2>4
    <2>6. \A i \in 1 .. Len(op.table) : op.table[i] < Pow2[op.n] /\ op.table[i] \in Nat
        <3> SUFFICES ASSUME NEW i \in 1 .. Len(op.table)
                     PROVE  op.table[i] < Pow2[op.n] /\ op.table[i] \in Nat
            OBVIOUS
        <3>1. i = 1 \/ op.table[1] >= op.table[i]
            BY <2>1, <2>4, <2>5
        <3>2. Pow2[op.n] \in Nat
            BY <2>1, Pow2Nat
        <3> QED BY <2>1, <2>4, <2>5, <3>1, <3>2
    <2>7. v > 0 => op.table[v + 1] < op.table[v]
        BY <2>2, <2>4, <2>5
    <2> QED BY <2>1, <2>3, <2>5, <2>6, <2>7, EncIcdfFacts
<1>5. CASE op.kind \in {"cells", "bin"}
    <2> DEFINE ft == IF op.kind = "bin" THEN Pow2[op.n] ELSE op.n
    <2>1. /\ op.n \in IF op.kind = "bin" THEN 0 .. CodeShift ELSE 1 .. Bot
          /\ Len(op.table) > 1
          /\ op.table[Len(op.table)] = ft
          /\ \A i, j \in 1 .. Len(op.table) : i < j => op.table[i] < op.table[j]
        BY <1>0, <1>5 DEF Codable
    <2>2. ft \in Nat /\ ft <= Bot
        BY <2>1, Pow2Nat, Pow2Mono, Widths
    <2>3. EncSymbol(c, op, v) = Encode(c, op.table[v + 1], op.table[v + 2], ft)
        BY <1>5 DEF EncSymbol, EncodeBin
    <2>4. v \in 0 .. Len(op.table) - 2
        BY <1>5 DEF Values
    <2> HIDE DEF ft
    <2>5. /\ \A i \in 1 .. Len(op.table) : op.table[i] \in Nat
          /\ Len(op.table) \in Nat
        BY <1>0
    <2>6. v + 1 \in 1 .. Len(op.table) /\ v + 2 \in 1 .. Len(op.table) /\ v + 1 < v + 2
          /\ Len(op.table) \in 1 .. Len(op.table)
        BY <2>1, <2>4, <2>5
    <2>7. op.table[v + 1] < op.table[v + 2]
        BY <2>1, <2>6
    <2>8. op.table[v + 2] <= ft
        <3>1. v + 2 = Len(op.table) \/ op.table[v + 2] < op.table[Len(op.table)]
            BY <2>1, <2>5, <2>6
        <3> QED BY <2>1, <2>2, <2>5, <2>6, <3>1
    <2>9. op.table[v + 1] \in Nat /\ op.table[v + 2] \in Nat
        BY <2>5, <2>6
    <2> QED BY <2>2, <2>3, <2>7, <2>8, <2>9, EncodeFacts
<1>6. CASE op.kind = "flags"
    <2> DEFINE x == Sym - Pow2[SymBits - op.n]
               t == <<x, 0>>
    <2>1. op.n \in 1 .. SymBits /\ v = 0
        BY <1>6 DEF Codable, Values
    <2>2. EncSymbol(c, op, v) = EncIcdf(c, 0, t, SymBits)
        BY <1>6 DEF EncSymbol
    <2>3. x \in Nat /\ x < Pow2[SymBits] /\ SymBits \in 0 .. CodeShift
        <3>1. Pow2[SymBits - op.n] \in Nat /\ Pow2[SymBits - op.n] >= 1
              /\ Pow2[SymBits - op.n] <= Pow2[SymBits]
            BY <2>1, Pow2Nat, Pow2Mono
        <3> QED BY <3>1 DEF Sym
    <2>4. t[0 + 1] = x
        OBVIOUS
    <2> HIDE DEF t, x
    <2> QED BY <2>2, <2>3, <2>4, EncIcdfFacts
<1> QED BY <1>0, <1>1, <1>2, <1>3, <1>4, <1>5, <1>6 DEF Kinds

(* An encoder that has said nothing. *)
Fresh(c) == c.offs = 0 /\ c.rem = -1 /\ c.ext = 0 /\ c.val = 0 /\ c.rng = Top

LEMMA EncInitFacts ==
    ASSUME NEW n \in Nat
    PROVE  EncOK(EncInit([i \in 1 .. n |-> SymMax])) /\ Fresh(EncInit([i \in 1 .. n |-> SymMax]))
<1> USE Bits, Consts
<1> DEFINE b == [i \in 1 .. n |-> SymMax]
           c == EncInit(b)
<1>1. b \in Seq(Bytes) /\ Len(b) = n
    <2>1. b \in [1 .. n -> Bytes]
        BY DEF Bytes
    <2> HIDE DEF b
    <2> QED BY <2>1, IsSeq
<1> HIDE DEF b
<1>2. c \in Ctx
    <2>1. CodeBits + 1 \in Int /\ 0 \in 0 .. Window /\ -1 \in -1 .. SymMax /\ Top \in Nat /\ 0 \in Nat
        OBVIOUS
    <2> QED BY <1>1, <2>1, Zenon DEF Ctx, EncInit
<1>3. /\ c.val = 0 /\ c.rng = Top /\ c.nbits_total = CodeBits + 1 /\ c.buf = b
      /\ c.offs = 0 /\ c.end_offs = 0 /\ c.nend_bits = 0
      /\ c.rem = -1 /\ c.ext = 0
    BY DEF EncInit
<1>4. c.error = FALSE
    BY DEF EncInit
<1> HIDE DEF c
<1>5. Held(c) = 0 /\ Size(c) = n
    BY <1>1, <1>3 DEF Held, Size
<1>6. Apart(c) /\ Counted(c)
    BY <1>3, <1>4, <1>5 DEF Apart, Counted, Taken
<1>7. EncOK(c) /\ Fresh(c)
    BY <1>2, <1>3, <1>6 DEF EncOK, EncMid, Fresh
<1> QED BY <1>7 DEF c, b

(* The open flags of a packet leave the first part of the range. *)
LEMMA FlagsOpen ==
    ASSUME NEW c, EncOK(c), Fresh(c), NEW op, Codable(op), op.kind = "flags"
    PROVE  Open(EncSymbol(c, op, 0), op.n)
<1> USE Bits, Consts
<1>1. op.n \in 1 .. SymBits /\ c \in Ctx
    BY DEF Codable, EncOK, EncMid
<1> DEFINE h == Pow2[SymBits - op.n]
           q == Bot * h
           d == [c EXCEPT !.val = 0, !.rng = q]
<1>2. h \in Nat /\ h >= 1 /\ h <= Sym /\ Pow2[op.n] \in Nat /\ Pow2[op.n] * h = Sym
    <2>1. op.n \in Nat /\ SymBits - op.n \in Nat /\ op.n + (SymBits - op.n) = SymBits
          /\ SymBits <= CodeBits /\ op.n <= CodeBits /\ SymBits - op.n <= CodeBits
        BY <1>1
    <2>2. Pow2[op.n + (SymBits - op.n)] = Pow2[op.n] * Pow2[SymBits - op.n]
        BY <2>1, Pow2Plus
    <2>3. Pow2[SymBits - op.n] <= Pow2[SymBits]
        BY <2>1, Pow2Mono
    <2> QED BY <2>1, <2>2, <2>3, Pow2Nat DEF Sym
<1>3. EncSymbol(c, op, 0) = EncNormalize(d)
    <2>1. Top \div Pow2[SymBits] = Bot
        BY DEF Bot, Sym
    <2>2. Top - Bot * (Sym - h) = q
        BY <1>2, Widths
    <2>3. EncSymbol(c, op, 0) = EncIcdf(c, 0, <<Sym - h, 0>>, SymBits)
        BY DEF EncSymbol
    <2>4. EncIcdf(c, 0, <<Sym - h, 0>>, SymBits)
            = EncNormalize([c EXCEPT !.rng = c.rng - (c.rng \div Pow2[SymBits]) * (Sym - h)])
        BY <1>1 DEF EncIcdf, Ctx
    <2>5. c.rng = Top /\ c.val = 0
        BY DEF Fresh
    <2>6. [c EXCEPT !.rng = q] = d
        BY <1>1, <2>5 DEF Ctx
    <2> QED BY <2>1, <2>2, <2>3, <2>4, <2>5, <2>6
<1>4. q \in Nat /\ q >= 1 /\ q <= Top
    <2>1. q \in Nat /\ Bot <= q /\ q <= Bot * Sym
        BY <1>2, Products
    <2> QED BY <2>1, Widths
<1>5. Pow2[op.n] * q = Top
    <2>1. Pow2[op.n] * (Bot * h) = Bot * (Pow2[op.n] * h)
        BY <1>2
    <2> QED BY <1>2, <2>1, Widths
<1> HIDE DEF h, q, d
<1>6. EncMid(d) /\ d.val = 0 /\ d.rng = q /\ d.offs = c.offs /\ d.rem = c.rem /\ d.ext = c.ext
    <2> DEFINE z == 0
    <2>1. q <= c.rng /\ z + q <= c.val + c.rng /\ z \in Nat
        BY <1>4 DEF Fresh
    <2> HIDE DEF z
    <2>2. Narrowed(c, z, q, [c EXCEPT !.val = z, !.rng = q])
        BY <1>4, <2>1, NarrowMid
    <2>3. Narrowed(c, 0, q, d)
        BY <2>2 DEF z, d
    <2> QED BY <2>3 DEF Narrowed
<1>7. Open(d, op.n)
    BY <1>4, <1>5, <1>6 DEF Open, Fresh
<1>8. Coded(d, EncNormalize(d))
    BY <1>6, EncNormalizeFacts
<1> QED BY <1>1, <1>3, <1>7, <1>8 DEF Coded

(* The flags take their place: while they are open, that never fails. *)
LEMMA PatchFacts ==
    ASSUME NEW c, EncOK(c), NEW n \in 1 .. SymBits, Open(c, n), NEW v \in 1 .. Pow2[n] - 1
    PROVE  LET d == PatchInitialBits(c, v, n) IN EncOK(d) /\ Size(d) = Size(c)
<1> USE Bits, Consts
<1>0. c \in Ctx /\ Fields(c) /\ EncMid(c) /\ Apart(c)
    BY CtxTypes DEF EncOK, EncMid
<1>1. Fields(c)
    BY <1>0
<1> DEFINE shift == SymBits - n
           p == Pow2[shift]
           d == PatchInitialBits(c, v, n)
<1>2. /\ p \in Nat /\ p >= 1 /\ Pow2[n] \in Nat /\ Pow2[n] >= 1 /\ Pow2[n] * p = Sym
      /\ Pow2[CodeShift + shift] \in Nat /\ Pow2[CodeShift + shift] >= 1
      /\ Pow2[n] * Pow2[CodeShift + shift] = Top
    <2>1. n \in Nat /\ shift \in Nat /\ n + shift = SymBits /\ n <= CodeBits /\ shift <= CodeBits
          /\ CodeShift + shift \in Nat /\ CodeShift + shift <= CodeBits
          /\ n + (CodeShift + shift) = CodeBits - 1
        BY Widths
    <2>2. Pow2[n + shift] = Pow2[n] * Pow2[shift]
        BY <2>1, Pow2Plus
    <2>3. Pow2[n + (CodeShift + shift)] = Pow2[n] * Pow2[CodeShift + shift]
        BY <2>1, Pow2Plus
    <2> QED BY <2>1, <2>2, <2>3, Pow2Nat DEF Sym, Top
<1>3. ASSUME NEW b \in Nat, NEW w \in Nat, w >= 1
      PROVE  /\ (b % w) + v * w \in Nat
             /\ (b % w) + v * w < Pow2[n] * w
    <2>1. \A x \in Nat, y \in Nat : y >= 1 => x % y \in Nat /\ x % y < y
        OBVIOUS
    <2>2. b % w \in Nat /\ b % w < w
        BY <1>3, <2>1
    <2>3. v * w \in Nat /\ Pow2[n] * w \in Nat /\ (v + 1) * w \in Nat
          /\ (v + 1) * w = v * w + w /\ (v + 1) * w <= Pow2[n] * w
        <3>1. v \in Nat /\ v + 1 \in Nat /\ v + 1 <= Pow2[n]
            BY <1>2
        <3>2. (v + 1) * w = v * w + w
            BY <3>1
        <3> QED BY <1>2, <3>1, <3>2, Products
    <2> QED BY <2>2, <2>3
<1>4. ASSUME NEW b \in Bytes PROVE (b % p) + v * p \in Bytes
    <2>1. b \in Nat
        BY DEF Bytes
    <2>2. (b % p) + v * p \in Nat /\ (b % p) + v * p < Sym
        BY <1>2, <1>3, <2>1
    <2> QED BY <2>2 DEF Bytes
<1>5. CASE c.offs > 0
    <2> DEFINE b == [c.buf EXCEPT ![1] = (c.buf[1] % p) + v * p]
    <2>1. d = [c EXCEPT !.buf = b]
        BY <1>0, <1>5 DEF PatchInitialBits, Ctx
    <2>2. b \in Seq(Bytes) /\ Len(b) = Size(c)
        <3>1. c.buf \in Seq(Bytes)
            BY <1>0 DEF Ctx
        <3>2. c.buf \in [1 .. Size(c) -> Bytes] /\ Size(c) \in Nat
            BY <3>1, SeqIs DEF Size
        <3>3. Size(c) >= 1
            BY <1>0, <1>5, <1>1 DEF Apart, Fields
        <3>4. (c.buf[1] % p) + v * p \in Bytes
            <4>1. c.buf[1] \in Bytes
                BY <3>2, <3>3
            <4> QED BY <1>4, <4>1
        <3>5. b \in [1 .. Size(c) -> Bytes]
            BY <3>2, <3>4
        <3> HIDE DEF b
        <3> QED BY <3>2, <3>5, IsSeq
    <2> HIDE DEF b, d
    <2>3. d \in Ctx
        BY <1>0, <2>1, <2>2, Zenon DEF Ctx
    <2>4. /\ d.val = c.val /\ d.rng = c.rng /\ d.nbits_total = c.nbits_total /\ d.buf = b
          /\ d.offs = c.offs /\ d.end_offs = c.end_offs /\ d.nend_bits = c.nend_bits
          /\ d.rem = c.rem /\ d.ext = c.ext
        BY <1>0, <2>1 DEF Ctx
    <2>5. d.error = c.error
        BY <1>0, <2>1 DEF Ctx
    <2>6. Held(d) = Held(c) /\ Size(d) = Size(c)
        BY <2>2, <2>4 DEF Held, Size
    <2>7. Apart(d) /\ Counted(d)
        BY <1>0, <2>4, <2>5, <2>6 DEF EncMid, Apart, Counted, Taken
    <2>8. EncOK(d)
        BY <1>0, <2>3, <2>4, <2>7 DEF EncOK, EncMid
    <2> QED BY <2>6, <2>8 DEF d
<1>6. CASE ~(c.offs > 0) /\ c.rem >= 0
    <2> DEFINE b == (c.rem % p) + v * p
    <2>1. d = [c EXCEPT !.rem = b]
        BY <1>0, <1>6 DEF PatchInitialBits, Ctx
    <2>2. b \in Bytes
        <3>1. c.rem \in Bytes
            BY <1>1, <1>6 DEF Fields, Bytes
        <3> QED BY <1>4, <3>1
    <2>3. b \in -1 .. SymMax /\ b >= 0
        BY <2>2 DEF Bytes
    <2> HIDE DEF b, d
    <2>4. d \in Ctx
        BY <1>0, <2>1, <2>3, Zenon DEF Ctx
    <2>5. /\ d.val = c.val /\ d.rng = c.rng /\ d.nbits_total = c.nbits_total /\ d.buf = c.buf
          /\ d.offs = c.offs /\ d.end_offs = c.end_offs /\ d.nend_bits = c.nend_bits
          /\ d.rem = b /\ d.ext = c.ext
        BY <1>0, <2>1 DEF Ctx
    <2>6. d.error = c.error
        BY <1>0, <2>1 DEF Ctx
    <2>7. Held(d) = Held(c) /\ Size(d) = Size(c)
        BY <1>6, <2>3, <2>5 DEF Held, Size
    <2>8. Apart(d) /\ Counted(d)
        BY <1>0, <2>5, <2>6, <2>7 DEF EncMid, Apart, Counted, Taken
    <2>9. EncOK(d)
        BY <1>0, <2>4, <2>5, <2>8 DEF EncOK, EncMid
    <2> QED BY <2>7, <2>9 DEF d
<1>7. CASE ~(c.offs > 0) /\ ~(c.rem >= 0)
    <2> DEFINE w == Pow2[CodeShift + shift]
               b == (c.val % w) + v * w
    <2>1. c.rng <= Top \div Pow2[n]
        <3>1. Pow2[n] * (c.val + c.rng) <= Top
            BY <1>1, <1>7 DEF Open, Fields
        <3>2. \A x \in Nat, y \in Nat, z \in Nat : z >= 1 /\ z * x <= y => x <= y \div z
            OBVIOUS
        <3>3. c.val + c.rng \in Nat /\ Top \div Pow2[n] \in Int
            BY <1>1, <1>2 DEF Fields
        <3>4. c.val + c.rng <= Top \div Pow2[n]
            BY <1>2, <3>1, <3>2, <3>3
        <3> QED BY <1>1, <3>3, <3>4 DEF Fields
    <2>2. d = [c EXCEPT !.val = b]
        BY <1>0, <1>7, <2>1 DEF PatchInitialBits, Ctx
    <2>3. b \in Nat /\ b < Top
        BY <1>1, <1>2, <1>3 DEF Fields
    <2> HIDE DEF b, d
    <2>4. d \in Ctx
        BY <1>0, <2>2, <2>3, Zenon DEF Ctx
    <2>5. /\ d.val = b /\ d.rng = c.rng /\ d.nbits_total = c.nbits_total /\ d.buf = c.buf
          /\ d.offs = c.offs /\ d.end_offs = c.end_offs /\ d.nend_bits = c.nend_bits
          /\ d.rem = c.rem /\ d.ext = c.ext
        BY <1>0, <2>2 DEF Ctx
    <2>6. d.error = c.error
        BY <1>0, <2>2 DEF Ctx
    <2>7. Held(d) = Held(c) /\ Size(d) = Size(c)
        BY <2>5 DEF Held, Size
    <2>8. Apart(d) /\ Counted(d)
        BY <1>0, <2>5, <2>6, <2>7 DEF EncMid, Apart, Counted, Taken
    <2>9. d.val + d.rng < 2 * Top /\ d.rng >= 1 /\ d.rng <= Top /\ d.rng > Bot
        BY <1>1, <2>3, <2>5 DEF EncOK, EncMid, Fields
    <2>10. EncOK(d)
        BY <2>4, <2>8, <2>9 DEF EncOK, EncMid
    <2> QED BY <2>7, <2>10 DEF d
<1> QED BY <1>1, <1>5, <1>6, <1>7 DEF Fields

-----------------------------------------------------------------------------
(* What ec_tell promises. *)

LEMMA RangeBits ==
    ASSUME NEW rng \in Nat, rng > Bot, rng <= Top
    PROVE  Ilog(rng) \in Nat /\ Ilog(rng) <= CodeBits /\ Ilog(rng) >= CodeBits - SymBits
<1> USE Bits, Consts
<1>1. Ilog(rng) \in 1 .. CodeBits /\ rng < Pow2[Ilog(rng)]
    <2>1. rng >= 1 /\ rng < Pow2[CodeBits]
        BY Widths
    <2> QED BY <2>1, IlogFacts
<1>2. ASSUME Ilog(rng) <= CodeShift PROVE FALSE
    <2>1. Pow2[Ilog(rng)] <= Pow2[CodeShift] /\ Pow2[Ilog(rng)] \in Nat
        BY <1>1, <1>2, Pow2Mono, Pow2Nat
    <2> QED BY <1>1, <2>1, Widths
<1>3. CodeShift = CodeBits - SymBits - 1
    BY DEF CodeShift
<1> QED BY <1>1, <1>2, <1>3

(* An encoder that tells no more bits than the buffer has lost nothing,    *)
(* and what it has taken ends below the place told.                        *)
LEMMA ToldFacts ==
    ASSUME NEW c, EncOK(c), NEW n \in Nat, n <= Size(c), Tell(c) <= SymBits * n
    PROVE  /\ ~c.error
           /\ Tell(c) = Taken(c) + c.nend_bits + 1 + (CodeBits - Ilog(c.rng))
           /\ Taken(c) \in Nat /\ Tell(c) \in Nat
           /\ CodeBits - Ilog(c.rng) \in 0 .. SymBits
           /\ Held(c) + c.end_offs <= n /\ c.offs + c.end_offs <= n
<1> USE Bits, Consts
<1>0. Fields(c)
    BY CtxTypes DEF EncOK, EncMid
<1>1. Ilog(c.rng) \in Nat /\ Ilog(c.rng) <= CodeBits /\ Ilog(c.rng) >= CodeBits - SymBits
    BY <1>0, RangeBits DEF EncOK, EncMid, Fields
<1>2. SymBits * n <= SymBits * Size(c) /\ SymBits * n \in Nat /\ SymBits * Size(c) \in Nat
    BY <1>0, Scale DEF Fields
<1>3. ~c.error
    <2> SUFFICES ASSUME c.error PROVE FALSE
        OBVIOUS
    <2>1. c.nbits_total >= CodeBits + 1 + SymBits * Size(c)
        BY DEF EncOK, EncMid, Counted
    <2> QED BY <1>0, <1>1, <1>2, <2>1 DEF Tell, Fields
<1>4. Taken(c) + c.nend_bits = c.nbits_total - CodeBits - 1
    BY <1>3 DEF EncOK, EncMid, Counted
<1>5. Taken(c) \in Nat /\ Held(c) + c.end_offs \in Nat
    BY <1>0, Scale DEF Taken, Fields
<1>6. Tell(c) = Taken(c) + c.nend_bits + 1 + (CodeBits - Ilog(c.rng))
    BY <1>0, <1>1, <1>4, <1>5 DEF Tell, Fields
<1>7. Taken(c) < SymBits * n
    BY <1>0, <1>1, <1>2, <1>5, <1>6 DEF Fields
<1>8. Held(c) + c.end_offs <= n
    BY <1>5, <1>7, Scale DEF Taken
<1> QED BY <1>0, <1>1, <1>3, <1>5, <1>6, <1>8 DEF Fields

(* A smaller buffer that holds what is told. *)
LEMMA ShrinkFacts ==
    ASSUME NEW c, EncOK(c), NEW n \in Nat, n <= Size(c), Tell(c) <= SymBits * n
    PROVE  LET d == Shrink(c, n)
           IN /\ EncOK(d) /\ Size(d) = n
              /\ \A k \in 1 .. SymBits : Open(c, k) => Open(d, k)
              /\ Fresh(c) => Fresh(d)
<1> USE Bits, Consts
<1> DEFINE d == Shrink(c, n)
           head == SubSeq(c.buf, 1, n - c.end_offs)
           tail == SubSeq(c.buf, Size(c) - c.end_offs + 1, Size(c))
           b == head \o tail
<1>0. c \in Ctx /\ c.buf \in Seq(Bytes)
    BY DEF EncOK, EncMid, Ctx
<1>1. Fields(c)
    BY <1>0, CtxTypes
<1>2. ~c.error /\ c.offs + c.end_offs <= n
    BY ToldFacts
<1>3. b \in Seq(Bytes) /\ Len(b) = n
    <2>1. /\ n - c.end_offs \in 0 .. Size(c) /\ Size(c) \in Nat /\ c.end_offs \in 0 .. Size(c)
          /\ c.end_offs \in Nat
        BY <1>1, <1>2 DEF Fields
    <2>2. head \in Seq(Bytes) /\ Len(head) = n - c.end_offs
        BY <1>0, <2>1 DEF Size
    <2>3. tail \in Seq(Bytes) /\ Len(tail) = c.end_offs
        BY <1>0, <2>1 DEF Size
    <2> HIDE DEF head, tail
    <2>4. b \in Seq(Bytes) /\ Len(b) = Len(head) + Len(tail)
        BY <2>2, <2>3
    <2> HIDE DEF b
    <2>5. Len(b) = (n - c.end_offs) + c.end_offs
        BY <2>2, <2>3, <2>4
    <2> QED BY <2>1, <2>4, <2>5
<1>4. d = [c EXCEPT !.buf = b]
    BY <1>0 DEF Shrink, Ctx, Size
<1> HIDE DEF b, d
<1>5. d \in Ctx
    BY <1>0, <1>3, <1>4, Zenon DEF Ctx
<1>6. /\ d.val = c.val /\ d.rng = c.rng /\ d.nbits_total = c.nbits_total /\ d.buf = b
      /\ d.offs = c.offs /\ d.end_offs = c.end_offs /\ d.nend_bits = c.nend_bits
      /\ d.rem = c.rem /\ d.ext = c.ext
    BY <1>0, <1>4 DEF Ctx
<1>7. d.error = c.error
    BY <1>0, <1>4 DEF Ctx
<1>8. Held(d) = Held(c) /\ Size(d) = n
    BY <1>3, <1>6 DEF Held, Size
<1>9. Apart(d) /\ Counted(d)
    BY <1>2, <1>6, <1>7, <1>8 DEF EncOK, EncMid, Apart, Counted, Taken
<1>10. EncOK(d)
    BY <1>5, <1>6, <1>9 DEF EncOK, EncMid
<1> QED BY <1>6, <1>8, <1>10 DEF Open, Fresh, d

-----------------------------------------------------------------------------
(* The end of a packet. *)

LEMMA MaxOfTwo ==
    ASSUME NEW x \in Int, NEW y \in Int
    PROVE  Max({x, y}) \in {x, y}
<1>1. \E z \in {x, y} : \A w \in {x, y} : z >= w
    <2>1. CASE x >= y
        BY <2>1
    <2>2. CASE ~(x >= y)
        BY <2>2
    <2> QED BY <2>1, <2>2
<1> QED BY <1>1 DEF Max

LEMMA BitIs ==
    ASSUME NEW b \in Nat, NEW k \in Nat, k <= CodeBits
    PROVE  Bit(b, k) \in {0, 1}
<1>1. Pow2[k] \in Nat /\ Pow2[k] >= 1
    BY Pow2Nat
<1>2. \A x \in Nat, y \in Nat : y >= 1 => x \div y \in Nat
    OBVIOUS
<1>3. b \div Pow2[k] \in Nat
    BY <1>1, <1>2
<1>4. \A x \in Nat : x % 2 \in {0, 1}
    OBVIOUS
<1> QED BY <1>3, <1>4 DEF Bit

(* Whatever is put together bit by bit is a byte. *)
LEMMA OrIsByte ==
    ASSUME NEW a \in Nat, NEW b \in Nat
    PROVE  Or(a, b) \in Bytes
<1> USE Bits, Consts
<1> DEFINE m(k) == Max({Bit(a, k), Bit(b, k)})
           F == [p \in Nat \X Nat |-> IF p[1] < SymBits THEN p[2] + Pow2[p[1]] * m(p[1]) ELSE p[2]]
           D == 0 .. SymBits
           low == CHOOSE f : f = [k \in D |-> IF k = 0 THEN 0 ELSE f[k - 1] + Pow2[k - 1] * m(k - 1)]
<1>1. \A k \in Nat : k < SymBits => m(k) \in {0, 1} /\ Pow2[k] \in Nat /\ Pow2[k + 1] = 2 * Pow2[k]
    <2> SUFFICES ASSUME NEW k \in Nat, k < SymBits
                 PROVE  m(k) \in {0, 1} /\ Pow2[k] \in Nat /\ Pow2[k + 1] = 2 * Pow2[k]
        OBVIOUS
    <2>1. Bit(a, k) \in {0, 1} /\ Bit(b, k) \in {0, 1}
        BY BitIs
    <2>2. m(k) \in {Bit(a, k), Bit(b, k)}
        BY <2>1, MaxOfTwo
    <2> QED BY <2>1, <2>2, Pow2Nat, Pow2Next
<1>2. Or(a, b) = low[SymBits]
    BY DEF Or
<1> HIDE DEF m
<1>3. \A n \in Nat, x \in Nat : F[<<n, x>>] = IF n < SymBits THEN x + Pow2[n] * m(n) ELSE x
    OBVIOUS
<1>4. Steps(F, Nat)
    <2>1. ASSUME NEW p \in Nat \X Nat PROVE F[p] \in Nat
        <3>1. PICK n \in Nat, x \in Nat : p = <<n, x>>
            OBVIOUS
        <3>2. n < SymBits => Pow2[n] * m(n) \in Nat
            BY <1>1, Products
        <3> HIDE DEF F
        <3> QED BY <1>3, <3>1, <3>2
    <2>2. F = [p \in Nat \X Nat |-> F[p]]
        OBVIOUS
    <2> HIDE DEF F
    <2> QED BY <2>1, <2>2 DEF Steps
<1> HIDE DEF F
<1>5. PICK g : Iterates(g, 0, F, Nat)
    <2> DEFINE z == 0
    <2>1. z \in Nat
        OBVIOUS
    <2> HIDE DEF z
    <2>2. \E g : Iterates(g, z, F, Nat)
        BY <1>4, <2>1, Iterate
    <2> QED BY <2>2 DEF z
<1> DEFINE r == [k \in D |-> g[k]]
<1>6. g[0] = 0 /\ \A n \in Nat : g[n] \in Nat /\ (n < SymBits => g[n + 1] = g[n] + Pow2[n] * m(n))
    BY <1>3, <1>5 DEF Iterates
<1>7. r = [k \in D |-> IF k = 0 THEN 0 ELSE r[k - 1] + Pow2[k - 1] * m(k - 1)]
    <2>1. ASSUME NEW k \in D, k # 0 PROVE r[k] = r[k - 1] + Pow2[k - 1] * m(k - 1)
        <3>1. k - 1 \in Nat /\ k - 1 < SymBits /\ k - 1 \in D /\ (k - 1) + 1 = k
            BY <2>1
        <3> QED BY <1>6, <3>1
    <2>2. ASSUME NEW k \in D, k = 0 PROVE r[k] = 0
        BY <1>6, <2>2
    <2> QED BY <2>1, <2>2
<1> HIDE DEF r, D
<1>8. low = [k \in D |-> IF k = 0 THEN 0 ELSE low[k - 1] + Pow2[k - 1] * m(k - 1)]
    BY <1>7
<1> HIDE DEF low
<1> DEFINE T == {k \in Nat : k <= SymBits => low[k] \in Nat /\ low[k] < Pow2[k]}
<1>9. 0 \in T
    BY <1>8, Pow2Zero DEF D
<1>10. ASSUME NEW k \in Nat, k \in T PROVE k + 1 \in T
    <2> SUFFICES ASSUME k + 1 <= SymBits
                 PROVE  low[k + 1] \in Nat /\ low[k + 1] < Pow2[k + 1]
        OBVIOUS
    <2>1. low[k] \in Nat /\ low[k] < Pow2[k] /\ k < SymBits
        BY <1>10
    <2>2. low[k + 1] = low[k] + Pow2[k] * m(k)
        <3>1. k + 1 \in D /\ k + 1 # 0 /\ (k + 1) - 1 = k
            BY DEF D
        <3> QED BY <1>8, <3>1
    <2>3. m(k) \in {0, 1} /\ Pow2[k] \in Nat /\ Pow2[k + 1] = 2 * Pow2[k]
        BY <1>1, <2>1
    <2>4. Pow2[k] * 0 = 0 /\ Pow2[k] * 1 = Pow2[k]
        BY <2>3
    <2>5. Pow2[k] * m(k) \in {0, Pow2[k]}
        BY <2>3, <2>4
    <2> QED BY <2>1, <2>2, <2>3, <2>5
<1>11. Nat \subseteq T
    <2> HIDE DEF T
    <2> QED BY <1>9, <1>10, Induction
<1>12. low[SymBits] \in Nat /\ low[SymBits] < Sym
    BY <1>11 DEF Sym
<1> QED BY <1>2, <1>12 DEF Bytes

(* The end of the range on its way out: [c, end, l]. *)
Ending(f) ==
    /\ f = [c |-> f.c, end |-> f.end, l |-> f.l]
    /\ f.c \in Ctx /\ Apart(f.c) /\ f.end \in Nat /\ f.l \in Int

(* The bits taken and the bits still to be written. *)
Due(f) == Taken(f.c) + f.l

ByteOut(f, g) ==
    /\ Ending(g) /\ SameRange(f.c, g.c)
    /\ IF f.l <= 0 THEN g = f
       ELSE /\ g.l = f.l - SymBits
            /\ ~f.c.error /\ Held(f.c) + f.c.end_offs <= Size(f.c) =>
                  ~g.c.error /\ Held(g.c) = Held(f.c) + 1 /\ Due(g) = Due(f)

LEMMA FlushByteFacts ==
    ASSUME NEW f, Ending(f)
    PROVE  ByteOut(f, FlushByte(f))
<1> USE Bits, Consts
<1>1. CASE f.l <= 0
    <2>1. FlushByte(f) = f
        BY <1>1 DEF FlushByte
    <2> QED BY <1>1, <2>1 DEF ByteOut, SameRange
<1>2. CASE ~(f.l <= 0)
    <2> DEFINE s == f.end \div Bot
               d == CarryOut(f.c, s)
               e == (f.end * Sym) % Top
               g == FlushByte(f)
    <2>1. g = [c |-> d, end |-> e, l |-> f.l - SymBits]
        BY <1>2, Widths DEF FlushByte
    <2>2. s \in Nat /\ e \in Nat
        <3>1. \A x \in Nat, y \in Nat : y >= 1 => x \div y \in Nat /\ x % y \in Nat
            OBVIOUS
        <3>2. f.end \in Nat
            BY DEF Ending
        <3>3. f.end * Sym \in Nat
            BY <3>2, Products
        <3>4. Bot \in Nat /\ Bot >= 1 /\ Top \in Nat /\ Top >= 1
            OBVIOUS
        <3> QED BY <3>1, <3>2, <3>3, <3>4, Zenon
    <2>3. CarriedOut(f.c, s, d)
        <3>1. f.c \in Ctx /\ Apart(f.c)
            BY DEF Ending
        <3> HIDE DEF s
        <3> QED BY <2>2, <3>1, CarryOutFacts
    <2> HIDE DEF s, d, e, g
    <2>4. g.c = d /\ g.end = e /\ g.l = f.l - SymBits /\ f.l \in Int /\ f.c \in Ctx
        BY <2>1 DEF Ending
    <2>5. Ending(g)
        BY <2>1, <2>2, <2>3, <2>4 DEF Ending, CarriedOut
    <2>6. SameRange(f.c, g.c)
        BY <2>3, <2>4 DEF CarriedOut
    <2>7. ASSUME ~f.c.error, Held(f.c) + f.c.end_offs <= Size(f.c)
          PROVE  ~g.c.error /\ Held(g.c) = Held(f.c) + 1 /\ Due(g) = Due(f)
        <3>1. ~d.error /\ Held(d) = Held(f.c) + 1 /\ d.end_offs = f.c.end_offs
            BY <2>3, <2>7 DEF CarriedOut, SameRange
        <3>2. Fields(f.c)
            BY <2>4, CtxTypes
        <3>3. Held(f.c) + f.c.end_offs \in Nat
              /\ Held(d) + d.end_offs = (Held(f.c) + f.c.end_offs) + 1
            BY <3>1, <3>2 DEF Fields
        <3>4. Taken(d) = Taken(f.c) + SymBits /\ Taken(f.c) \in Nat
            BY <3>3, Scale DEF Taken
        <3> QED BY <2>4, <3>1, <3>4 DEF Due
    <2>8. ByteOut(f, g)
        BY <1>2, <2>4, <2>5, <2>6, <2>7 DEF ByteOut
    <2> QED BY <2>8 DEF g
<1> QED BY <1>1, <1>2

(* Two passes write every byte that is needed. *)
EndOut(f, g) ==
    /\ Ending(g) /\ SameRange(f.c, g.c)
    /\ g.l \in 1 - SymBits .. 0
    /\ ~f.c.error /\ Due(f) <= SymBits * Size(f.c) =>
          /\ ~g.c.error /\ Due(g) = Due(f)
          /\ g.l = f.l \/ Held(g.c) >= 1

LEMMA FlushEndFacts ==
    ASSUME NEW f, Ending(f), f.l \in 0 .. SymBits + 1
    PROVE  EndOut(f, FlushByte(FlushByte(f)))
<1> USE Bits, Consts
<1> DEFINE g == FlushByte(f)
           h == FlushByte(g)
<1>1. ByteOut(f, g)
    BY FlushByteFacts
<1> HIDE DEF g
<1>2. ByteOut(g, h)
    BY <1>1, FlushByteFacts DEF ByteOut
<1> HIDE DEF h
<1>3. Ending(h) /\ SameRange(f.c, h.c)
    BY <1>1, <1>2 DEF ByteOut, SameRange
<1>4. IF f.l <= 0 THEN g = f ELSE g.l = f.l - SymBits
    BY <1>1 DEF ByteOut
<1>5. IF g.l <= 0 THEN h = g ELSE h.l = g.l - SymBits
    BY <1>2 DEF ByteOut
<1>6. f.l \in Int /\ g.l \in Int /\ h.l \in Int
    BY <1>1, <1>2 DEF ByteOut, Ending
<1>7. h.l \in 1 - SymBits .. 0
    BY <1>4, <1>5, <1>6
<1>8. ASSUME ~f.c.error, Due(f) <= SymBits * Size(f.c)
      PROVE  ~h.c.error /\ Due(h) = Due(f) /\ (h.l = f.l \/ Held(h.c) >= 1)
    <2>1. f.c \in Ctx /\ g.c \in Ctx /\ Fields(f.c) /\ Fields(g.c)
        BY <1>1, CtxTypes DEF ByteOut, Ending
    <2>2. Held(f.c) + f.c.end_offs \in Nat /\ Held(g.c) + g.c.end_offs \in Nat
          /\ Taken(f.c) \in Nat /\ Taken(g.c) \in Nat
          /\ Size(g.c) = Size(f.c) /\ g.c.end_offs = f.c.end_offs
          /\ SymBits * Size(f.c) \in Nat /\ Size(f.c) \in Nat
        BY <1>1, <2>1, Scale DEF Fields, Taken, ByteOut, SameRange
    <2>3. CASE f.l <= 0
        <3>1. g = f
            BY <1>4, <2>3
        <3>2. h = g
            BY <1>5, <2>3, <3>1
        <3> QED BY <1>8, <3>1, <3>2
    <2>4. CASE ~(f.l <= 0)
        <3>1. Taken(f.c) < SymBits * Size(f.c)
            BY <1>6, <1>8, <2>2, <2>4 DEF Due
        <3>2. Held(f.c) + f.c.end_offs <= Size(f.c)
            BY <2>2, <3>1, Scale DEF Taken
        <3>3. ~g.c.error /\ Held(g.c) = Held(f.c) + 1 /\ Due(g) = Due(f)
            BY <1>1, <1>8, <2>4, <3>2 DEF ByteOut
        <3>4. CASE g.l <= 0
            <4>1. h = g
                BY <1>5, <3>4
            <4> QED BY <2>1, <3>3, <4>1 DEF Fields
        <3>5. CASE ~(g.l <= 0)
            <4>1. Taken(g.c) < SymBits * Size(g.c)
                BY <1>6, <1>8, <2>2, <3>3, <3>5 DEF Due
            <4>2. Held(g.c) + g.c.end_offs <= Size(g.c)
                BY <2>2, <4>1, Scale DEF Taken
            <4>3. ~h.c.error /\ Held(h.c) = Held(g.c) + 1 /\ Due(h) = Due(g)
                BY <1>2, <3>3, <3>5, <4>2 DEF ByteOut
            <4> QED BY <2>1, <3>3, <4>3 DEF Fields
        <3> QED BY <3>4, <3>5
    <2> QED BY <2>3, <2>4
<1>9. EndOut(f, h)
    BY <1>3, <1>7, <1>8 DEF EndOut
<1> QED BY <1>9 DEF g, h

LEMMA EndBitsFacts ==
    ASSUME NEW c, EncOK(c)
    PROVE  /\ EndBits(c).l \in {CodeBits - Ilog(c.rng), CodeBits - Ilog(c.rng) + 1}
           /\ EndBits(c).l \in 0 .. SymBits + 1
           /\ RoundUp(c.val, EndBits(c).msk) \in Nat
<1> USE Bits, Consts
<1> DEFINE l == CodeBits - Ilog(c.rng)
           msk == (Top - 1) \div Pow2[l]
<1>1. Fields(c)
    BY CtxTypes DEF EncOK, EncMid
<1>2. Ilog(c.rng) \in Nat /\ Ilog(c.rng) <= CodeBits /\ Ilog(c.rng) >= CodeBits - SymBits
    BY <1>1, RangeBits DEF EncOK, EncMid, Fields
<1>3. l \in 0 .. SymBits
    BY <1>2
<1>4. \A x \in Nat, y \in Nat : y >= 1 => x \div y \in Nat
    OBVIOUS
<1>5. msk \in Nat /\ msk \div 2 \in Nat
    <2>1. Top - 1 \in Nat /\ Pow2[l] \in Nat /\ Pow2[l] >= 1
        BY <1>3, Pow2Nat
    <2> QED BY <1>4, <2>1
<1>6. \A m \in Nat : RoundUp(c.val, m) \in Nat
    <2> SUFFICES ASSUME NEW m \in Nat PROVE RoundUp(c.val, m) \in Nat
        OBVIOUS
    <2>1. c.val + m \in Nat /\ m + 1 \in Nat /\ m + 1 >= 1
        BY <1>1 DEF Fields
    <2>2. (c.val + m) \div (m + 1) \in Nat
        BY <1>4, <2>1
    <2> QED BY <2>1, <2>2, Products DEF RoundUp
<1>7. EndBits(c) \in {[l |-> l + 1, msk |-> msk \div 2], [l |-> l, msk |-> msk]}
    BY DEF EndBits
<1> HIDE DEF l, msk
<1>8. EndBits(c).l \in {l, l + 1} /\ EndBits(c).msk \in Nat
    BY <1>5, <1>7
<1> QED BY <1>3, <1>6, <1>8 DEF l

(* What is written before the two ends are merged. *)
AllOut(c, F) ==
    /\ F.c \in Ctx /\ Apart(F.c) /\ F.c.rng = c.rng /\ F.c.nbits_total = c.nbits_total
    /\ Size(F.c) = Size(c) /\ F.c.nend_bits \in 0 .. SymBits - 1
    /\ F.l \in 0 .. SymBits - 1
    /\ Tell(c) <= SymBits * Size(c) =>
          /\ ~F.c.error /\ Span(F.c) <= Tell(c) + F.l
          /\ F.l = 0 \/ F.c.offs >= 1

LEMMA FlushedFacts ==
    ASSUME NEW c, EncOK(c)
    PROVE  AllOut(c, Flushed(c))
<1> USE Bits, Consts
<1> DEFINE l == EndBits(c).l
           end == RoundUp(c.val, EndBits(c).msk)
           f0 == [c |-> c, end |-> end, l |-> l]
           f == FlushEnd(c, end, l)
           g == IF f.c.rem >= 0 \/ f.c.ext > 0 THEN CarryOut(f.c, 0) ELSE f.c
           h == FlushWindow(g)
           F == Flushed(c)
<1>1. F = [c |-> h, l |-> -f.l]
    BY DEF Flushed
<1>2. /\ l \in {CodeBits - Ilog(c.rng), CodeBits - Ilog(c.rng) + 1}
      /\ l \in 0 .. SymBits + 1 /\ end \in Nat
    BY EndBitsFacts
<1>3. c \in Ctx /\ Apart(c) /\ Fields(c)
    BY CtxTypes DEF EncOK, EncMid
<1> HIDE DEF l, end
<1>4. Ending(f0) /\ f0.c = c /\ f0.l = l
    BY <1>2, <1>3 DEF Ending
<1>5. f = FlushByte(FlushByte(f0))
    BY DEF FlushEnd
<1> HIDE DEF f0, f
<1>6. EndOut(f0, f)
    BY <1>2, <1>4, <1>5, FlushEndFacts
<1>7. f.c \in Ctx /\ Apart(f.c) /\ SameRange(c, f.c) /\ f.l \in 1 - SymBits .. 0
    BY <1>4, <1>6 DEF EndOut, Ending
<1>8. Fields(f.c)
    BY <1>7, CtxTypes
<1>9. /\ g \in Ctx /\ Apart(g) /\ SameRange(f.c, g)
      /\ ~f.c.error /\ Held(f.c) + f.c.end_offs <= Size(f.c) =>
            ~g.error /\ g.offs = Held(f.c)
    <2>1. CASE f.c.rem >= 0 \/ f.c.ext > 0
        <3> DEFINE z == 0
        <3>1. z \in Nat /\ z # SymMax
            OBVIOUS
        <3>2. g = CarryOut(f.c, z)
            BY <2>1
        <3> HIDE DEF z, g
        <3>3. CarriedOut(f.c, z, g)
            BY <1>7, <3>1, <3>2, CarryOutFacts
        <3>4. Fields(g)
            BY <3>3, CtxTypes DEF CarriedOut
        <3>5. ASSUME ~f.c.error, Held(f.c) + f.c.end_offs <= Size(f.c)
              PROVE  ~g.error /\ g.offs = Held(f.c)
            <4>1. ~g.error /\ Held(g) = Held(f.c) + 1 /\ g.rem >= 0 /\ g.ext = 0
                BY <3>1, <3>3, <3>5 DEF CarriedOut
            <4>2. Held(g) = g.offs + 1
                BY <3>4, <4>1 DEF Held, Fields
            <4> QED BY <1>8, <3>4, <4>1, <4>2 DEF Fields
        <3> QED BY <3>3, <3>5 DEF CarriedOut
    <2>2. CASE ~(f.c.rem >= 0 \/ f.c.ext > 0)
        <3>1. g = f.c
            BY <2>2
        <3>2. Held(f.c) = f.c.offs
            BY <1>8, <2>2 DEF Held, Fields
        <3> HIDE DEF g
        <3> QED BY <1>7, <3>1, <3>2 DEF SameRange
    <2> QED BY <2>1, <2>2
<1> HIDE DEF g
<1>10. WindowOut(g, h)
    BY <1>9, FlushWindowOut
<1> HIDE DEF h, F
<1>11. F.c = h /\ F.l = -f.l
    BY <1>1
<1>12. /\ F.c \in Ctx /\ Apart(F.c) /\ F.c.rng = c.rng /\ F.c.nbits_total = c.nbits_total
       /\ Size(F.c) = Size(c) /\ F.c.nend_bits \in 0 .. SymBits - 1
    BY <1>7, <1>9, <1>10, <1>11 DEF WindowOut, SameRange
<1>13. F.l \in 0 .. SymBits - 1
    BY <1>7, <1>11
<1>14. ASSUME Tell(c) <= SymBits * Size(c)
       PROVE  ~F.c.error /\ Span(F.c) <= Tell(c) + F.l /\ (F.l = 0 \/ F.c.offs >= 1)
    <2>1. /\ ~c.error /\ Taken(c) \in Nat /\ Tell(c) \in Nat
          /\ Tell(c) = Taken(c) + c.nend_bits + 1 + (CodeBits - Ilog(c.rng))
          /\ CodeBits - Ilog(c.rng) \in 0 .. SymBits
        BY <1>3, <1>14, ToldFacts DEF Fields
    <2>2. Taken(c) + c.nend_bits + l <= Tell(c)
        BY <1>2, <1>3, <2>1 DEF Fields
    <2>3. SymBits * Size(c) \in Nat
        BY <1>3, Scale DEF Fields
    <2>4. Due(f0) = Taken(c) + l /\ Due(f0) <= SymBits * Size(f0.c) /\ ~f0.c.error
        BY <1>2, <1>3, <1>4, <1>14, <2>1, <2>2, <2>3 DEF Due, Fields
    <2>5. ~f.c.error /\ Due(f) = Taken(c) + l /\ (f.l = l \/ Held(f.c) >= 1)
        BY <1>4, <1>6, <2>4 DEF EndOut
    <2>6. Taken(f.c) \in Nat /\ Held(f.c) + f.c.end_offs \in Nat
        BY <1>8, Scale DEF Taken, Fields
    <2>7. Taken(f.c) = Taken(c) + l - f.l
        BY <1>2, <1>7, <2>1, <2>5, <2>6 DEF Due
    <2>8. Size(f.c) = Size(c) /\ f.c.nend_bits = c.nend_bits
        BY <1>7 DEF SameRange
    <2>9. Taken(f.c) + c.nend_bits < SymBits * (Size(c) + 1)
        <3>1. SymBits * (Size(c) + 1) = SymBits * Size(c) + SymBits
            BY <1>3, Scale DEF Fields
        <3> QED BY <1>2, <1>3, <1>7, <1>14, <2>1, <2>2, <2>3, <2>7, <3>1 DEF Fields
    <2>10. Held(f.c) + f.c.end_offs <= Size(f.c)
        <3>1. Taken(f.c) < SymBits * (Size(c) + 1) /\ Size(c) + 1 \in Nat
              /\ SymBits * (Size(c) + 1) \in Nat
            BY <1>3, <2>6, <2>9, Scale DEF Fields
        <3>2. Held(f.c) + f.c.end_offs < Size(c) + 1
            BY <2>6, <3>1, Scale DEF Taken
        <3> QED BY <1>3, <2>6, <2>8, <3>2 DEF Fields
    <2>11. ~g.error /\ g.offs = Held(f.c) /\ g.end_offs = f.c.end_offs
           /\ g.nend_bits = c.nend_bits /\ Size(g) = Size(c)
        BY <1>9, <2>5, <2>8, <2>10 DEF SameRange
    <2>12. Span(g) = Taken(f.c) + c.nend_bits
        BY <2>11 DEF Span, Taken
    <2>13. ~h.error /\ Span(h) = Span(g) /\ h.offs = Held(f.c)
        BY <1>10, <2>9, <2>11, <2>12 DEF WindowOut
    <2>14. Span(F.c) <= Tell(c) + F.l
        BY <1>2, <1>3, <1>7, <1>11, <2>1, <2>2, <2>6, <2>7, <2>12, <2>13 DEF Fields
    <2>15. F.l = 0 \/ F.c.offs >= 1
        BY <1>2, <1>7, <1>11, <2>5, <2>13
    <2> QED BY <1>11, <2>13, <2>14, <2>15
<1>15. AllOut(c, F)
    BY <1>12, <1>13, <1>14 DEF AllOut
<1> QED BY <1>15 DEF F

(* The bytes between the two ends are cleared. *)
Emptied(c, d) ==
    /\ d \in Ctx /\ d.rng = c.rng /\ d.nbits_total = c.nbits_total /\ d.offs = c.offs
    /\ d.end_offs = c.end_offs /\ d.nend_bits = c.nend_bits /\ d.end_window = c.end_window
    /\ d.error = c.error /\ Size(d) = Size(c)

LEMMA ClearedFacts ==
    ASSUME NEW c \in Ctx
    PROVE  Emptied(c, Cleared(c))
<1> USE Bits, Consts
<1> DEFINE d == Cleared(c)
           b == [i \in DOMAIN c.buf |->
                    IF i > c.offs /\ i <= Len(c.buf) - c.end_offs THEN 0 ELSE c.buf[i]]
<1>1. d = [c EXCEPT !.buf = b]
    BY DEF Cleared, Ctx
<1>2. b \in Seq(Bytes) /\ Len(b) = Size(c)
    <2>1. c.buf \in Seq(Bytes)
        BY DEF Ctx
    <2>2. Size(c) \in Nat /\ c.buf \in [1 .. Size(c) -> Bytes]
        BY <2>1, SeqIs DEF Size
    <2>3. 0 \in Bytes
        BY DEF Bytes
    <2>4. b \in [1 .. Size(c) -> Bytes]
        BY <2>2, <2>3
    <2> HIDE DEF b
    <2> QED BY <2>2, <2>4, IsSeq
<1> HIDE DEF b, d
<1>3. d \in Ctx
    BY <1>1, <1>2, Zenon DEF Ctx
<1>4. /\ d.rng = c.rng /\ d.nbits_total = c.nbits_total /\ d.offs = c.offs
      /\ d.end_offs = c.end_offs /\ d.nend_bits = c.nend_bits /\ d.end_window = c.end_window
      /\ d.buf = b
    BY <1>1 DEF Ctx
<1>5. d.error = c.error
    BY <1>1 DEF Ctx
<1>6. Emptied(c, d)
    BY <1>2, <1>3, <1>4, <1>5 DEF Emptied, Size
<1> QED BY <1>6 DEF d

(* The last byte takes the raw bits that are left. *)
LastByte(c, l, d) ==
    /\ d \in Ctx /\ d.rng = c.rng /\ d.nbits_total = c.nbits_total /\ d.offs = c.offs
    /\ Size(d) = Size(c)
    /\ d.error = (Full(c) /\ l < c.nend_bits)

LEMMA MergedFacts ==
    ASSUME NEW c \in Ctx, NEW l \in 0 .. SymBits - 1, c.end_offs < Size(c)
    PROVE  LastByte(c, l, Merged(c, l))
<1> USE Bits, Consts
<1> DEFINE bust == Full(c) /\ l < c.nend_bits
           bits == IF bust THEN c.end_window % Pow2[l] ELSE c.end_window
           k == Size(c) - c.end_offs
           o == Or(c.buf[k], bits)
           b == [c.buf EXCEPT ![k] = o]
           d == Merged(c, l)
<1>1. d = [c EXCEPT !.buf = b, !.error = bust]
    BY DEF Merged, Ctx, Size
<1>2. Fields(c)
    BY CtxTypes
<1>3. bits \in Nat
    <2>1. Pow2[l] \in Nat /\ Pow2[l] >= 1
        BY Pow2Nat
    <2>2. \A x \in Nat, y \in Nat : y >= 1 => x % y \in Nat
        OBVIOUS
    <2>3. c.end_window \in Nat
        BY <1>2 DEF Fields
    <2>4. c.end_window % Pow2[l] \in Nat
        BY <2>1, <2>2, <2>3
    <2> HIDE DEF bust
    <2> QED BY <2>3, <2>4
<1>4. k \in 1 .. Size(c) /\ Size(c) \in Nat
    BY <1>2 DEF Fields
<1>5. bust \in BOOLEAN
    OBVIOUS
<1> HIDE DEF bits, k
<1>6. b \in Seq(Bytes) /\ Len(b) = Size(c)
    <2>1. c.buf \in Seq(Bytes)
        BY DEF Ctx
    <2>2. c.buf \in [1 .. Size(c) -> Bytes]
        BY <2>1, SeqIs DEF Size
    <2>3. c.buf[k] \in Nat
        BY <1>4, <2>2 DEF Bytes
    <2>4. o \in Bytes
        BY <1>3, <2>3, OrIsByte
    <2> HIDE DEF o
    <2>5. b \in [1 .. Size(c) -> Bytes]
        BY <2>2, <2>4
    <2> HIDE DEF b
    <2> QED BY <1>4, <2>5, IsSeq
<1> HIDE DEF b, d, bust
<1>7. d \in Ctx
    BY <1>1, <1>5, <1>6, Zenon DEF Ctx
<1>8. d.rng = c.rng /\ d.nbits_total = c.nbits_total /\ d.offs = c.offs /\ d.buf = b
    BY <1>1 DEF Ctx
<1>9. d.error = bust
    BY <1>1 DEF Ctx
<1>10. LastByte(c, l, d)
    BY <1>6, <1>7, <1>8, <1>9 DEF LastByte, Size, bust
<1> QED BY <1>10 DEF d

(* What ec_enc_done leaves, and what ec_tell has promised about it. *)
Closed(c, d) ==
    /\ d \in Ctx /\ d.rng = c.rng /\ d.nbits_total = c.nbits_total /\ Size(d) = Size(c)
    /\ Tell(c) <= SymBits * Size(c) => ~d.error /\ SymBits * (d.offs - 1) < Tell(c)

LEMMA DoneFacts ==
    ASSUME NEW c, EncOK(c)
    PROVE  Closed(c, Done(c))
<1> USE Bits, Consts
<1> DEFINE F == Flushed(c)
           f == F.c
           l == F.l
           d == Done(c)
           told == Tell(c) <= SymBits * Size(c)
<1>1. AllOut(c, F)
    BY FlushedFacts
<1>2. d = IF f.error THEN f
          ELSE IF f.nend_bits = 0 THEN Cleared(f)
          ELSE IF f.end_offs >= Size(f) THEN [f EXCEPT !.error = TRUE]
          ELSE Merged(Cleared(f), l)
    BY DEF Done, Size
<1> HIDE DEF d, F
<1>3. /\ f \in Ctx /\ Apart(f) /\ f.rng = c.rng /\ f.nbits_total = c.nbits_total
      /\ Size(f) = Size(c) /\ f.nend_bits \in 0 .. SymBits - 1 /\ l \in 0 .. SymBits - 1
    BY <1>1 DEF AllOut
<1>4. told => ~f.error /\ Span(f) <= Tell(c) + l /\ (l = 0 \/ f.offs >= 1)
    BY <1>1 DEF AllOut
<1>5. told => Tell(c) \in Nat
    BY ToldFacts, CtxTypes DEF Fields, EncOK, EncMid
<1>6. /\ Fields(f) /\ SymBits * Size(f) \in Nat
      /\ f.offs + f.end_offs \in Nat /\ SymBits * (f.offs + f.end_offs) \in Nat
      /\ Span(f) = SymBits * (f.offs + f.end_offs) + f.nend_bits
    BY <1>3, CtxTypes, Scale DEF Fields, Span
<1> HIDE DEF f, l
<1>7. told => SymBits * (f.offs - 1) < Tell(c)
    <2> SUFFICES ASSUME told PROVE SymBits * (f.offs - 1) < Tell(c)
        OBVIOUS
    <2>1. SymBits * (f.offs - 1) = SymBits * f.offs - SymBits
        BY <1>6 DEF Fields
    <2>2. SymBits * f.offs <= SymBits * (f.offs + f.end_offs) /\ SymBits * f.offs \in Nat
        BY <1>6, Scale DEF Fields
    <2> QED BY <1>3, <1>4, <1>5, <1>6, <2>1, <2>2
<1>8. ASSUME told, f.offs + f.end_offs >= Size(f) PROVE f.nend_bits <= l
    <2>1. SymBits * Size(f) <= SymBits * (f.offs + f.end_offs)
        BY <1>6, <1>8, Scale DEF Fields
    <2> QED BY <1>3, <1>4, <1>5, <1>6, <1>8, <2>1
<1> DEFINE Fine == /\ d \in Ctx /\ d.rng = f.rng /\ d.nbits_total = f.nbits_total
                   /\ Size(d) = Size(f)
                   /\ told => ~d.error /\ d.offs = f.offs
<1> HIDE DEF told
<1>9. ASSUME f.error PROVE Fine
    BY <1>2, <1>3, <1>4, <1>9, Zenon
<1>10. ASSUME ~f.error /\ f.nend_bits = 0 PROVE Fine
    <2>1. d = Cleared(f)
        BY <1>2, <1>10
    <2>2. Emptied(f, d)
        BY <1>3, <2>1, ClearedFacts
    <2> QED BY <1>10, <2>2 DEF Emptied
<1>11. ASSUME ~f.error /\ f.nend_bits # 0 /\ f.end_offs >= Size(f) PROVE Fine
    <2>1. d = [f EXCEPT !.error = TRUE]
        BY <1>2, <1>11
    <2>2. d \in Ctx
        BY <1>3, <2>1, Zenon DEF Ctx
    <2>3. d.rng = f.rng /\ d.nbits_total = f.nbits_total /\ Size(d) = Size(f)
        BY <1>3, <2>1 DEF Ctx, Size
    <2>4. ~told
        <3> SUFFICES ASSUME told PROVE FALSE
            OBVIOUS
        <3>1. f.nend_bits <= l
            BY <1>6, <1>8, <1>11 DEF Fields
        <3>2. f.offs = 0
            BY <1>3, <1>6, <1>11 DEF Apart, Fields
        <3> QED BY <1>3, <1>4, <1>11, <3>1, <3>2
    <2> QED BY <2>2, <2>3, <2>4
<1>12. ASSUME ~f.error /\ f.nend_bits # 0 /\ ~(f.end_offs >= Size(f)) PROVE Fine
    <2> DEFINE g == Cleared(f)
    <2>1. d = Merged(g, l)
        BY <1>2, <1>12
    <2>2. Emptied(f, g)
        BY <1>3, ClearedFacts
    <2> HIDE DEF g
    <2>3. g \in Ctx /\ g.end_offs < Size(g)
        BY <1>6, <1>12, <2>2 DEF Emptied, Fields
    <2>4. LastByte(g, l, d)
        BY <1>3, <2>1, <2>3, MergedFacts
    <2>5. told => ~d.error
        <3>1. told => ~(Full(g) /\ l < g.nend_bits)
            <4>1. Full(g) => f.offs + f.end_offs >= Size(f)
                BY <2>2 DEF Full, Emptied, Size
            <4>2. g.nend_bits = f.nend_bits
                BY <2>2 DEF Emptied
            <4> QED BY <1>3, <1>8, <4>1, <4>2
        <3> QED BY <2>4, <3>1 DEF LastByte
    <2> QED BY <2>2, <2>4, <2>5, Zenon DEF Emptied, LastByte
<1>13. Fine
    BY <1>9, <1>10, <1>11, <1>12, Zenon
<1> HIDE DEF Fine
<1>14. Closed(c, d)
    BY <1>3, <1>7, <1>13, Zenon DEF Closed, told, Fine
<1> QED BY <1>14 DEF d

-----------------------------------------------------------------------------
(* The decoder. *)

(* Between two passes of ec_dec_normalize: the value lies in the range. *)
DecMid(c) == c \in Ctx /\ c.rem >= 0 /\ c.rng >= 1 /\ c.rng <= Top /\ c.val < c.rng

DecOK(c) == DecMid(c) /\ c.rng > Bot

(* Whatever the next byte is, the value stays within the scaled range. *)
DecShifted(c, d) == DecMid(d) /\ IF c.rng > Bot THEN d = c ELSE d.rng = c.rng * Sym

LEMMA DecShiftFacts ==
    ASSUME NEW c, DecMid(c)
    PROVE  DecShifted(c, DecShift(c))
<1> USE Bits, Consts
<1>0. c \in Ctx /\ Fields(c)
    BY CtxTypes DEF DecMid
<1>1. CASE c.rng > Bot
    BY <1>1 DEF DecShift, DecShifted
<1>2. CASE ~(c.rng > Bot)
    <2> DEFINE next == ReadByte(c)
               p == Pow2[SymBits - Extra]
               sym == (c.rem * Sym + next) \div p
               x == sym % Sym
               w == c.val * Sym + SymMax - x
               v == w % Top
               r == c.rng * Sym
               o == IF c.offs < Size(c) THEN c.offs + 1 ELSE c.offs
               d == DecShift(c)
    <2>1. d = [c EXCEPT !.nbits_total = c.nbits_total + SymBits, !.rng = r, !.rem = next,
                        !.offs = o, !.val = v]
        BY <1>0, <1>2 DEF DecShift, Ctx, Size
    <2>2. next \in Bytes
        <3>1. c.buf \in Seq(Bytes) /\ c.offs \in Nat
            BY <1>0 DEF Ctx
        <3>2. c.buf \in [1 .. Size(c) -> Bytes] /\ Size(c) \in Nat
            BY <3>1, SeqIs DEF Size
        <3>3. 0 \in Bytes
            BY DEF Bytes
        <3>4. next = IF c.offs < Size(c) THEN c.buf[c.offs + 1] ELSE 0
            BY DEF ReadByte, Size
        <3>5. c.offs < Size(c) => c.offs + 1 \in 1 .. Size(c)
            BY <3>1, <3>2
        <3> QED BY <3>2, <3>3, <3>4, <3>5
    <2> HIDE DEF next
    <2>3. p \in Nat /\ p >= 1
        BY Widths, Pow2Nat
    <2>4. x \in Nat /\ x <= SymMax
        <3>1. next \in Nat /\ c.rem \in Nat
            BY <1>0, <2>2 DEF Bytes, DecMid, Fields
        <3>2. c.rem * Sym \in Nat
            BY <3>1, Products
        <3>3. c.rem * Sym + next \in Nat
            BY <3>1, <3>2
        <3>4. \A a \in Nat, b \in Nat : b >= 1 => a \div b \in Nat /\ a % b \in Nat /\ a % b < b
            OBVIOUS
        <3>5. sym \in Nat
            BY <2>3, <3>3, <3>4
        <3> HIDE DEF sym
        <3>6. x \in Nat /\ x < Sym
            BY <3>4, <3>5
        <3> QED BY <3>6
    <2> HIDE DEF p, sym, x
    <2>5. r \in Nat /\ r >= 1 /\ r <= Top
        <3>1. r \in Nat /\ c.rng <= r /\ r <= Bot * Sym
            BY <1>0, <1>2, Products DEF Fields
        <3> QED BY <1>0, <3>1, Widths DEF DecMid, Fields
    <2>6. w \in Nat /\ w < r
        <3>1. c.val + 1 \in Nat /\ c.val + 1 <= c.rng /\ c.val \in Nat /\ c.rng \in Nat
            BY <1>0 DEF DecMid, Fields
        <3>2. (c.val + 1) * Sym <= r /\ c.val * Sym \in Nat
            BY <3>1, Products
        <3>3. (c.val + 1) * Sym = c.val * Sym + Sym
            BY <3>1
        <3> HIDE DEF r
        <3> QED BY <2>4, <2>5, <3>2, <3>3
    <2>7. v \in Nat /\ v < r
        <3>1. \A a \in Nat, b \in Nat : a < b => a % b = a
            OBVIOUS
        <3>2. w < Top
            BY <2>5, <2>6
        <3> HIDE DEF w
        <3> QED BY <2>5, <2>6, <3>1, <3>2
    <2> HIDE DEF w, v, r
    <2>8. next \in -1 .. SymMax /\ next >= 0 /\ o \in Nat /\ c.nbits_total + SymBits \in Int
        BY <1>0, <2>2 DEF Bytes, Fields
    <2> HIDE DEF o, d
    <2>9. d \in Ctx
        BY <1>0, <2>1, <2>5, <2>7, <2>8, Zenon DEF Ctx
    <2>10. d.rng = r /\ d.val = v /\ d.rem = next
        BY <1>0, <2>1 DEF Ctx
    <2>11. DecMid(d) /\ d.rng = c.rng * Sym
        BY <2>5, <2>7, <2>8, <2>9, <2>10 DEF DecMid, r
    <2> QED BY <1>2, <2>11 DEF d, DecShifted
<1> QED BY <1>1, <1>2

LEMMA DecNormalizeFacts ==
    ASSUME NEW c, DecMid(c)
    PROVE  DecOK(DecNormalize(c))
<1> DEFINE d == DecShift(c)
           e == DecShift(d)
           f == DecShift(e)
<1>1. DecShifted(c, d)
    BY DecShiftFacts
<1> HIDE DEF d
<1>2. DecShifted(d, e)
    BY <1>1, DecShiftFacts DEF DecShifted
<1> HIDE DEF e
<1>3. DecShifted(e, f)
    BY <1>2, DecShiftFacts DEF DecShifted
<1> HIDE DEF f
<1>4. f.rng > Bot
    <2> SUFFICES ASSUME ~(c.rng > Bot), ~(d.rng > Bot), ~(e.rng > Bot) PROVE f.rng > Bot
        BY <1>1, <1>2, <1>3 DEF DecShifted
    <2>1. f.rng = ((c.rng * Sym) * Sym) * Sym /\ c.rng \in Nat /\ c.rng >= 1
        BY <1>1, <1>2, <1>3, CtxTypes DEF DecMid, Fields, DecShifted
    <2>2. ((c.rng * Sym) * Sym) * Sym = c.rng * ((Sym * Sym) * Sym)
        BY <2>1, Widths
    <2>3. c.rng * (2 * Bot) >= 2 * Bot
        BY <2>1, Widths
    <2> QED BY <2>1, <2>2, <2>3, Widths
<1>5. DecNormalize(c) = f
    BY DEF DecNormalize, d, e, f
<1> QED BY <1>3, <1>4, <1>5 DEF DecOK, DecShifted

(* A decoder takes the part of the range its value lies in. *)
LEMMA DecNarrow ==
    ASSUME NEW c, DecOK(c), NEW v \in Nat, NEW r \in Nat, v < r, r <= c.rng
    PROVE  DecOK(DecNormalize([c EXCEPT !.val = v, !.rng = r]))
<1> DEFINE d == [c EXCEPT !.val = v, !.rng = r]
<1> USE Bits, Consts
<1>1. c \in Ctx /\ Fields(c)
    BY CtxTypes DEF DecOK, DecMid
<1>2. d \in Ctx
    BY <1>1, Zenon DEF Ctx
<1>3. d.val = v /\ d.rng = r /\ d.rem = c.rem
    BY <1>1 DEF Ctx
<1> HIDE DEF d
<1>4. DecMid(d)
    BY <1>1, <1>2, <1>3 DEF DecOK, DecMid, Fields
<1>5. DecOK(DecNormalize(d))
    BY <1>4, DecNormalizeFacts
<1> QED BY <1>5 DEF d

(* A decoder of any bytes starts within its range. *)
LEMMA DecInitFacts ==
    ASSUME NEW b \in Seq(Bytes)
    PROVE  DecOK(DecInit(b))
<1> USE Bits, Consts
<1> DEFINE first == IF b = <<>> THEN 0 ELSE b[1]
           q == Pow2[Extra]
           p == Pow2[SymBits - Extra]
           v == q - 1 - first \div p
           t == CodeBits + 1 - ((CodeBits - Extra) \div SymBits) * SymBits
           o == IF b = <<>> THEN 0 ELSE 1
           c == [buf |-> b, end_offs |-> 0, end_window |-> 0, nend_bits |-> 0,
                 nbits_total |-> t, offs |-> o, rng |-> q, rem |-> first, val |-> v,
                 ext |-> 0, error |-> FALSE]
<1>1. DecInit(b) = DecNormalize(c)
    BY DEF DecInit
<1>2. first \in Bytes
    <2>1. 0 \in Bytes
        BY DEF Bytes
    <2>2. b # <<>> => b[1] \in Bytes
        OBVIOUS
    <2> QED BY <2>1, <2>2
<1>3. /\ q \in Nat /\ q >= 1 /\ p \in Nat /\ p >= 1 /\ q * p = Sym
      /\ q <= Top
    <2>1. Extra \in Nat /\ Extra <= SymBits /\ SymBits - Extra \in Nat
          /\ Extra + (SymBits - Extra) = SymBits /\ SymBits <= CodeBits
        BY Widths
    <2>2. Pow2[Extra + (SymBits - Extra)] = Pow2[Extra] * Pow2[SymBits - Extra]
        BY <2>1, Pow2Plus
    <2>3. Pow2[Extra] <= Pow2[CodeBits - 1]
        BY <2>1, Pow2Mono
    <2> QED BY <2>1, <2>2, <2>3, Pow2Nat DEF Sym, Top
<1> HIDE DEF first, q, p
<1>4. v \in Nat /\ v < q
    <2>1. \A x \in Nat, y \in Nat, z \in Nat : y >= 1 /\ x < z * y =>
              x \div y \in Nat /\ x \div y < z
        OBVIOUS
    <2>2. first \in Nat /\ first < q * p
        BY <1>2, <1>3 DEF Bytes
    <2>3. first \div p \in Nat /\ first \div p < q
        BY <1>3, <2>1, <2>2
    <2> QED BY <1>3, <2>3
<1>5. t \in Int
    <2>1. CodeBits - Extra \in Nat
        BY Widths
    <2>2. \A x \in Nat, y \in Nat : y >= 1 => x \div y \in Nat
        OBVIOUS
    <2>3. (CodeBits - Extra) \div SymBits \in Nat
        BY <2>1, <2>2
    <2>4. ((CodeBits - Extra) \div SymBits) * SymBits \in Nat
        BY <2>3, Products
    <2> QED BY <2>4
<1>6. o \in Nat /\ first \in -1 .. SymMax /\ first >= 0 /\ 0 \in Nat /\ 0 \in 0 .. Window
    BY <1>2 DEF Bytes
<1> HIDE DEF v, t, o
<1>7. c \in Ctx
    BY <1>3, <1>4, <1>5, <1>6, Zenon DEF Ctx
<1>8. DecMid(c)
    BY <1>3, <1>4, <1>6, <1>7 DEF DecMid
<1> HIDE DEF c
<1> QED BY <1>1, <1>8, DecNormalizeFacts

LEMMA MinOfTwo ==
    ASSUME NEW x \in Int, NEW y \in Int
    PROVE  Min({x, y}) = IF x <= y THEN x ELSE y
<1> DEFINE m == Min({x, y})
<1>1. \E z \in {x, y} : \A w \in {x, y} : z <= w
    <2>1. CASE x <= y
        BY <2>1
    <2>2. CASE ~(x <= y)
        BY <2>2
    <2> QED BY <2>1, <2>2
<1>2. m \in {x, y} /\ \A w \in {x, y} : m <= w
    BY <1>1 DEF Min
<1> HIDE DEF m
<1>3. m = IF x <= y THEN x ELSE y
    BY <1>2
<1> QED BY <1>3 DEF m

(* ec_decode finds a place in the table. *)
LEMMA DecodeAtFacts ==
    ASSUME NEW c, DecOK(c), NEW ft \in Nat, ft >= 1, ft <= Bot
    PROVE  LET r == c.rng \div ft
               q == c.val \div r
           IN /\ r \in Nat /\ r >= 1 /\ q \in Nat
              /\ r * q <= c.val /\ c.val < r * (q + 1)
              /\ DecodeAt(c, ft) = IF q + 1 <= ft THEN ft - (q + 1) ELSE 0
              /\ DecodeAt(c, ft) \in 0 .. ft - 1
<1> USE Bits, Consts
<1> DEFINE r == c.rng \div ft
           q == c.val \div r
<1>1. Fields(c) /\ c.rng > Bot
    BY CtxTypes DEF DecOK, DecMid
<1>2. r \in Nat /\ r >= 1
    <2>1. \A x \in Nat, y \in Nat : y >= 1 /\ y <= x => x \div y \in Nat /\ x \div y >= 1
        OBVIOUS
    <2>2. c.rng \in Nat /\ ft <= c.rng
        BY <1>1 DEF Fields
    <2> QED BY <2>1, <2>2
<1>3. DecodeAt(c, ft) = ft - Min({q + 1, ft})
    BY DEF DecodeAt
<1> HIDE DEF r
<1>4. q \in Nat /\ r * q <= c.val /\ c.val < r * (q + 1)
    <2>1. \A x \in Nat, y \in Nat : y >= 1 =>
              x \div y \in Nat /\ y * (x \div y) <= x /\ x < y * ((x \div y) + 1)
        OBVIOUS
    <2>2. c.val \in Nat
        BY <1>1 DEF Fields
    <2> QED BY <1>2, <2>1, <2>2
<1> HIDE DEF q
<1>5. Min({q + 1, ft}) = IF q + 1 <= ft THEN q + 1 ELSE ft
    <2>1. q + 1 \in Int /\ ft \in Int
        BY <1>4
    <2> QED BY <2>1, MinOfTwo
<1>6. DecodeAt(c, ft) = IF q + 1 <= ft THEN ft - (q + 1) ELSE 0
    BY <1>3, <1>4, <1>5
<1>7. DecodeAt(c, ft) \in 0 .. ft - 1
    BY <1>4, <1>6
<1> QED BY <1>2, <1>4, <1>6, <1>7 DEF q, r

(* The part of the table that holds the place holds the value. *)
LEMMA DecUpdateFacts ==
    ASSUME NEW c, DecOK(c), NEW ft \in Nat, ft >= 1, ft <= Bot,
           NEW fl \in Nat, NEW fh \in Nat, fh <= ft,
           fl <= DecodeAt(c, ft), DecodeAt(c, ft) < fh
    PROVE  DecOK(DecUpdate(c, fl, fh, ft))
<1> USE Bits, Consts
<1> DEFINE r == c.rng \div ft
           q == c.val \div r
           at == DecodeAt(c, ft)
<1>1. c \in Ctx /\ Fields(c) /\ c.rng > Bot /\ c.val < c.rng
    BY CtxTypes DEF DecOK, DecMid
<1>2. /\ r \in Nat /\ r >= 1 /\ q \in Nat
      /\ r * q <= c.val /\ c.val < r * (q + 1)
      /\ at = IF q + 1 <= ft THEN ft - (q + 1) ELSE 0
      /\ at \in 0 .. ft - 1
    BY DecodeAtFacts
<1>3. fl < fh
    BY <1>2
<1>4. /\ r * (ft - fl) \in Nat /\ r * (fh - fl) \in Nat /\ r * (ft - fh) \in Nat
      /\ r * (ft - fl) = r * (ft - fh) + r * (fh - fl)
      /\ r * (ft - fl) <= c.rng /\ r * (fh - fl) >= 1
      /\ r * (ft - fh) < c.rng
    <2>1. c.rng \in Nat /\ ft <= c.rng
        BY <1>1 DEF Fields
    <2>2. /\ r \in Nat /\ r >= 1 /\ r * ft <= c.rng
          /\ r * (ft - fl) \in Nat /\ r * (fh - fl) \in Nat /\ r * (ft - fh) \in Nat
          /\ r * (ft - fl) = r * (ft - fh) + r * (fh - fl)
          /\ r * (ft - fl) <= c.rng /\ r * (fh - fl) >= 1
          /\ r * (ft - fh) < c.rng
        BY <1>3, <2>1, Part
    <2> HIDE DEF r
    <2> QED BY <2>2
<1> DEFINE s == r * (ft - fh)
           part == r * (fh - fl)
           m == IF fl > 0 THEN part ELSE c.rng - s
           v == c.val - s
<1>5. DecUpdate(c, fl, fh, ft) = DecNormalize([c EXCEPT !.val = v, !.rng = m])
    BY <1>1 DEF DecUpdate, Ctx
<1> HIDE DEF r, q, at
<1>6. s <= c.val
    <2>1. ft - fh <= q /\ ft - fh \in Nat
        BY <1>2, <1>3 DEF at
    <2>2. s <= r * q /\ r * q \in Nat
        BY <1>2, <2>1, Products
    <2> QED BY <1>1, <1>2, <1>4, <2>2 DEF Fields
<1>7. fl > 0 => c.val < s + part
    <2> SUFFICES ASSUME fl > 0 PROVE c.val < s + part
        OBVIOUS
    <2>1. q + 1 <= ft - fl /\ ft - fl \in Nat /\ q + 1 \in Nat
        BY <1>2, <1>3 DEF at
    <2>2. r * (q + 1) <= r * (ft - fl) /\ r * (q + 1) \in Nat
        BY <1>2, <2>1, Products
    <2> QED BY <1>1, <1>2, <1>4, <2>2 DEF Fields
<1>8. s \in Nat /\ part \in Nat /\ s < c.rng /\ s + part <= c.rng
    BY <1>4
<1> HIDE DEF s, part
<1>9. v \in Nat /\ m \in Nat /\ v < m /\ m <= c.rng
    BY <1>1, <1>6, <1>7, <1>8 DEF Fields
<1> HIDE DEF v, m
<1>10. DecOK(DecNormalize([c EXCEPT !.val = v, !.rng = m]))
    BY <1>9, DecNarrow
<1> QED BY <1>5, <1>10

(* A symbol of an alphabet has been read, and the decoder is sound. *)
Got(R, V) == DecOK(R.c) /\ R.v \in V

LEMMA DecBitLogpFacts ==
    ASSUME NEW c, DecOK(c), NEW logp \in 1 .. CodeShift
    PROVE  Got(DecBitLogp(c, logp), 0 .. 1)
<1> USE Bits, Consts
<1> DEFINE s == c.rng \div Pow2[logp]
<1>1. c \in Ctx /\ Fields(c) /\ c.rng > Bot /\ c.val < c.rng
    BY CtxTypes DEF DecOK, DecMid
<1>2. Pow2[logp] \in Nat /\ Pow2[logp] >= 2 /\ Pow2[logp] <= Bot
    <2>1. 2 * Pow2[0] <= Pow2[logp] /\ Pow2[logp] <= Pow2[CodeShift]
        BY Pow2Twice, Pow2Mono
    <2> QED BY <2>1, Pow2Nat, Pow2Zero, Widths
<1>3. s \in Nat /\ s >= 1 /\ s < c.rng
    <2>1. \A x \in Nat, y \in Nat : y >= 2 /\ y <= x =>
              x \div y \in Nat /\ x \div y >= 1 /\ x \div y < x
        OBVIOUS
    <2>2. c.rng \in Nat /\ Pow2[logp] <= c.rng
        BY <1>1, <1>2 DEF Fields
    <2> QED BY <1>2, <2>1, <2>2
<1>4. DecBitLogp(c, logp) =
         IF c.val < s THEN [v |-> 1, c |-> DecNormalize([c EXCEPT !.rng = s])]
         ELSE [v |-> 0,
               c |-> DecNormalize([c EXCEPT !.val = c.val - s, !.rng = c.rng - s])]
    <2>1. [c EXCEPT !.val = @ - s, !.rng = @ - s]
             = [c EXCEPT !.val = c.val - s, !.rng = c.rng - s]
        BY <1>1 DEF Ctx
    <2> QED BY <2>1 DEF DecBitLogp
<1> HIDE DEF s
<1>5. CASE c.val < s
    <2> DEFINE v == c.val
    <2>1. [c EXCEPT !.rng = s] = [c EXCEPT !.val = v, !.rng = s]
        BY <1>1 DEF Ctx
    <2>2. DecBitLogp(c, logp) = [v |-> 1, c |-> DecNormalize([c EXCEPT !.val = v, !.rng = s])]
        BY <1>4, <1>5, <2>1
    <2>3. v \in Nat /\ v < s /\ s <= c.rng
        BY <1>1, <1>3, <1>5 DEF Fields
    <2> HIDE DEF v
    <2>4. DecOK(DecNormalize([c EXCEPT !.val = v, !.rng = s]))
        BY <1>3, <2>3, DecNarrow
    <2> QED BY <2>2, <2>4 DEF Got
<1>6. CASE ~(c.val < s)
    <2> DEFINE v == c.val - s
               r == c.rng - s
    <2>1. DecBitLogp(c, logp) = [v |-> 0, c |-> DecNormalize([c EXCEPT !.val = v, !.rng = r])]
        BY <1>4, <1>6
    <2>2. v \in Nat /\ r \in Nat /\ v < r /\ r <= c.rng
        BY <1>1, <1>3, <1>6 DEF Fields
    <2> HIDE DEF v, r
    <2>3. DecOK(DecNormalize([c EXCEPT !.val = v, !.rng = r]))
        BY <2>2, DecNarrow
    <2> QED BY <2>1, <2>3 DEF Got
<1> QED BY <1>5, <1>6

(* The first place of the table that does not lie above the value. *)
LEMMA DecIcdfFacts ==
    ASSUME NEW c, DecOK(c), NEW ftb \in 0 .. CodeShift, NEW icdf, NEW n \in Nat, n >= 1,
           DOMAIN icdf = 1 .. n, icdf[n] = 0,
           \A i \in 1 .. n : icdf[i] \in Nat /\ icdf[i] < Pow2[ftb],
           Len(icdf) = n
    PROVE  Got(DecIcdf(c, icdf, ftb), Likely(icdf))
<1> USE Bits, Consts
<1> DEFINE p == Pow2[ftb]
           r == c.rng \div p
           T == {i \in 1 .. n : c.val >= r * icdf[i]}
           ret == Min(T)
           x == r * icdf[ret]
           t == IF ret = 1 THEN c.rng ELSE r * icdf[ret - 1]
           v == c.val - x
           m == t - x
<1>1. c \in Ctx /\ Fields(c) /\ c.rng > Bot /\ c.val < c.rng
    BY CtxTypes DEF DecOK, DecMid
<1>2. p \in Nat /\ p >= 1 /\ p <= Bot
    <2>1. Pow2[ftb] <= Pow2[CodeShift]
        BY Pow2Mono
    <2> QED BY <2>1, Pow2Nat, Widths
<1>3. DecIcdf(c, icdf, ftb) =
         [v |-> ret - 1, c |-> DecNormalize([c EXCEPT !.val = v, !.rng = m])]
    BY <1>1 DEF DecIcdf, Ctx
<1> HIDE DEF p
<1>4. r \in Nat /\ r * p <= c.rng
    <2>1. \A a \in Nat, b \in Nat : b >= 1 => a \div b \in Nat /\ (a \div b) * b <= a
        OBVIOUS
    <2>2. c.rng \in Nat
        BY <1>1 DEF Fields
    <2> QED BY <1>2, <2>1, <2>2
<1> HIDE DEF r
<1>5. \A i \in 1 .. n : r * icdf[i] \in Nat /\ r * icdf[i] <= c.rng
    <2> SUFFICES ASSUME NEW i \in 1 .. n PROVE r * icdf[i] \in Nat /\ r * icdf[i] <= c.rng
        OBVIOUS
    <2>1. icdf[i] \in Nat /\ icdf[i] <= p
        BY <1>2 DEF p
    <2>2. r * icdf[i] \in Nat /\ r * icdf[i] <= r * p /\ r * p \in Nat
        BY <1>2, <1>4, <2>1, Products
    <2> QED BY <1>1, <1>4, <2>2 DEF Fields
<1>6. ret \in T /\ \A i \in T : ret <= i
    <2>1. n \in T
        <3>1. r * 0 = 0 /\ n \in 1 .. n
            BY <1>4
        <3> QED BY <1>1, <3>1 DEF Fields
    <2>2. T \subseteq Nat /\ T # {}
        BY <2>1
    <2> HIDE DEF T
    <2>3. \E y \in T : \A z \in T : y <= z
        BY <2>2, Least
    <2> QED BY <2>3 DEF Min
<1> HIDE DEF ret
<1>7. ret \in 1 .. n /\ c.val >= x /\ x \in Nat
    BY <1>5, <1>6
<1>8. c.val < t /\ t \in Nat /\ t <= c.rng
    <2>1. CASE ret = 1
        BY <1>1, <2>1 DEF Fields
    <2>2. CASE ret # 1
        <3>1. ret - 1 \in 1 .. n /\ ~(ret <= ret - 1)
            BY <1>7, <2>2
        <3>2. ret - 1 \notin T
            BY <1>6, <3>1
        <3>3. ~(c.val >= r * icdf[ret - 1])
            BY <3>1, <3>2
        <3>4. t = r * icdf[ret - 1] /\ t \in Nat /\ t <= c.rng
            BY <1>5, <2>2, <3>1
        <3> HIDE DEF t
        <3> QED BY <1>1, <3>3, <3>4 DEF Fields
    <2> QED BY <2>1, <2>2
<1> HIDE DEF x, t
<1>9. v \in Nat /\ m \in Nat /\ v < m /\ m <= c.rng
    <2>1. c.val \in Nat /\ c.rng \in Nat /\ x \in Nat /\ t \in Nat
          /\ x <= c.val /\ c.val < t /\ t <= c.rng
        BY <1>1, <1>7, <1>8 DEF Fields
    <2>2. \A a \in Nat, b \in Nat, y \in Nat, z \in Nat : y <= a /\ a < b /\ b <= z =>
             a - y \in Nat /\ b - y \in Nat /\ a - y < b - y /\ b - y <= z
        OBVIOUS
    <2> QED BY <2>1, <2>2, Zenon
<1>10. ret - 1 \in Likely(icdf)
    <2> SUFFICES ASSUME ret - 1 > 0 PROVE icdf[ret - 1] > icdf[ret]
        BY <1>7 DEF Likely
    <2>1. r * icdf[ret] < r * icdf[ret - 1]
        BY <1>1, <1>7, <1>8 DEF x, t, Fields
    <2>2. icdf[ret] \in Nat /\ icdf[ret - 1] \in Nat
        BY <1>7
    <2>3. icdf[ret - 1] <= icdf[ret] => r * icdf[ret - 1] <= r * icdf[ret]
        BY <1>4, <2>2, Products
    <2>4. r * icdf[ret - 1] \in Nat /\ r * icdf[ret] \in Nat
        BY <1>5, <1>7
    <2> QED BY <2>1, <2>2, <2>3, <2>4
<1> HIDE DEF v, m
<1>11. DecOK(DecNormalize([c EXCEPT !.val = v, !.rng = m]))
    BY <1>9, DecNarrow
<1> QED BY <1>3, <1>10, <1>11 DEF Got

(* A byte from the end, or a zero behind it. *)
Filled(c, d) ==
    /\ d \in Ctx /\ d.rng = c.rng /\ d.val = c.val /\ d.rem = c.rem
    /\ d.nend_bits = IF c.nend_bits > 3 * SymBits THEN c.nend_bits ELSE c.nend_bits + SymBits

LEMMA FillRawFacts ==
    ASSUME NEW c \in Ctx
    PROVE  Filled(c, FillRaw(c))
<1> USE Bits, Consts
<1>0. Fields(c)
    BY CtxTypes
<1>1. CASE c.nend_bits > Window - SymBits
    BY <1>1 DEF FillRaw, Filled
<1>2. CASE ~(c.nend_bits > Window - SymBits)
    <2> DEFINE more == c.end_offs < Size(c)
               byte == IF more THEN c.buf[Size(c) - c.end_offs] ELSE 0
               o == IF more THEN c.end_offs + 1 ELSE c.end_offs
               w == c.end_window + byte * Pow2[c.nend_bits]
               d == FillRaw(c)
    <2>1. d = [c EXCEPT !.end_offs = o, !.end_window = w, !.nend_bits = c.nend_bits + SymBits]
        BY <1>2 DEF FillRaw, Ctx, Size
    <2>2. byte \in Nat
        <3>1. c.buf \in Seq(Bytes)
            BY DEF Ctx
        <3>2. c.buf \in [1 .. Size(c) -> Bytes]
            BY <3>1, SeqIs DEF Size
        <3>3. more => Size(c) - c.end_offs \in 1 .. Size(c)
            BY <1>0 DEF Fields
        <3>4. Bytes \subseteq Nat
            BY DEF Bytes
        <3>5. CASE more
            <4>1. c.buf[Size(c) - c.end_offs] \in Bytes
                BY <3>2, <3>3, <3>5
            <4> QED BY <3>4, <3>5, <4>1
        <3>6. CASE ~more
            BY <3>6
        <3> QED BY <3>5, <3>6
    <2> HIDE DEF byte
    <2>3. w \in Nat
        <3>1. Pow2[c.nend_bits] \in Nat
            BY <1>0, Pow2Nat DEF Fields
        <3>2. byte * Pow2[c.nend_bits] \in Nat
            BY <2>2, <3>1, Products
        <3> QED BY <1>0, <3>2 DEF Fields
    <2>4. o \in Nat /\ c.nend_bits + SymBits \in 0 .. Window
        BY <1>0, <1>2 DEF Fields
    <2> HIDE DEF w, o, d
    <2>5. d \in Ctx
        BY <2>1, <2>3, <2>4, Zenon DEF Ctx
    <2>6. d.rng = c.rng /\ d.val = c.val /\ d.rem = c.rem /\ d.nend_bits = c.nend_bits + SymBits
        BY <2>1 DEF Ctx
    <2>7. Filled(c, d)
        BY <1>0, <1>2, <2>5, <2>6 DEF Filled, Fields
    <2> QED BY <2>7 DEF d
<1> QED BY <1>1, <1>2

LEMMA DecBitsFacts ==
    ASSUME NEW c, DecOK(c), NEW bits \in 1 .. Window - SymBits + 1
    PROVE  Got(DecBits(c, bits), 0 .. Pow2[bits] - 1)
<1> USE Bits, Consts
<1>0. c \in Ctx /\ Fields(c)
    BY CtxTypes DEF DecOK, DecMid
<1> DEFINE d == IF c.nend_bits < bits THEN FillWindow(c) ELSE c
<1>1. /\ d \in Ctx /\ d.rng = c.rng /\ d.val = c.val /\ d.rem = c.rem
      /\ d.nend_bits >= bits
    <2>1. CASE c.nend_bits < bits
        <3> DEFINE e == FillRaw(c)
                   f == FillRaw(e)
                   g == FillRaw(f)
                   h == FillRaw(g)
        <3>1. Filled(c, e)
            BY <1>0, FillRawFacts
        <3> HIDE DEF e
        <3>2. Filled(e, f)
            BY <3>1, FillRawFacts DEF Filled
        <3> HIDE DEF f
        <3>3. Filled(f, g)
            BY <3>2, FillRawFacts DEF Filled
        <3> HIDE DEF g
        <3>4. Filled(g, h)
            BY <3>3, FillRawFacts DEF Filled
        <3> HIDE DEF h
        <3>5. d = h
            BY <2>1 DEF FillWindow, e, f, g, h
        <3>6. h.nend_bits > 3 * SymBits
            <4>1. e.nend_bits = IF c.nend_bits > 3 * SymBits THEN c.nend_bits ELSE c.nend_bits + SymBits
                BY <3>1 DEF Filled
            <4>2. f.nend_bits = IF e.nend_bits > 3 * SymBits THEN e.nend_bits ELSE e.nend_bits + SymBits
                BY <3>2 DEF Filled
            <4>3. g.nend_bits = IF f.nend_bits > 3 * SymBits THEN f.nend_bits ELSE f.nend_bits + SymBits
                BY <3>3 DEF Filled
            <4>4. h.nend_bits = IF g.nend_bits > 3 * SymBits THEN g.nend_bits ELSE g.nend_bits + SymBits
                BY <3>4 DEF Filled
            <4> QED BY <1>0, <4>1, <4>2, <4>3, <4>4 DEF Fields
        <3>7. h \in Ctx /\ Fields(h) /\ h.rng = c.rng /\ h.val = c.val /\ h.rem = c.rem
            BY <3>1, <3>2, <3>3, <3>4, CtxTypes DEF Filled
        <3> HIDE DEF d
        <3> QED BY <3>5, <3>6, <3>7 DEF Fields
    <2>2. CASE ~(c.nend_bits < bits)
        BY <1>0, <2>2 DEF Fields
    <2> QED BY <2>1, <2>2
<1> DEFINE w == d.end_window \div Pow2[bits]
           v == d.end_window % Pow2[bits]
           e == [d EXCEPT !.end_window = w, !.nend_bits = d.nend_bits - bits,
                          !.nbits_total = d.nbits_total + bits]
<1>2. DecBits(c, bits) = [v |-> v, c |-> [d EXCEPT !.end_window = @ \div Pow2[bits],
                                                   !.nend_bits = @ - bits,
                                                   !.nbits_total = @ + bits]]
    BY DEF DecBits
<1> HIDE DEF d
<1>3. [d EXCEPT !.end_window = @ \div Pow2[bits], !.nend_bits = @ - bits,
                !.nbits_total = @ + bits] = e
    BY <1>1 DEF Ctx
<1>4. Fields(d)
    BY <1>1, CtxTypes
<1>5. w \in Nat /\ v \in 0 .. Pow2[bits] - 1
    <2>1. Pow2[bits] \in Nat /\ Pow2[bits] >= 1 /\ d.end_window \in Nat
        BY <1>4, Pow2Nat DEF Fields
    <2>2. \A a \in Nat, b \in Nat : b >= 1 => a \div b \in Nat /\ a % b \in 0 .. b - 1
        OBVIOUS
    <2> QED BY <2>1, <2>2, Zenon
<1>6. d.nend_bits - bits \in 0 .. Window /\ d.nbits_total + bits \in Int
    BY <1>1, <1>4 DEF Fields
<1> HIDE DEF w, v
<1>7. e \in Ctx
    BY <1>1, <1>5, <1>6, Zenon DEF Ctx
<1>8. e.rng = d.rng /\ e.val = d.val /\ e.rem = d.rem
    BY <1>1 DEF Ctx
<1> HIDE DEF e
<1>9. DecOK(e)
    BY <1>1, <1>7, <1>8 DEF DecOK, DecMid
<1> QED BY <1>2, <1>3, <1>5, <1>9 DEF Got

LEMMA DecUintFacts ==
    ASSUME NEW c, DecOK(c), NEW n \in Nat, n >= 2, n < Pow2[CodeBits]
    PROVE  Got(DecUint(c, n), 0 .. n - 1)
<1> USE Bits, Consts
<1> DEFINE ftb == RawBits(n)
           p == Pow2[ftb]
           ft == (n - 1) \div p + 1
           s == DecodeAt(c, ft)
           d == DecUpdate(c, s, s + 1, ft)
           low == DecBits(d, ftb)
           t == s * p + low.v
<1>1. /\ ftb \in 0 .. CodeBits - SymBits /\ p \in Nat /\ p >= 1
      /\ ft \in 1 .. Sym /\ Sym <= Bot
    BY RawBitsFacts
<1>2. DecUint(c, n) = IF ftb = 0 THEN [v |-> s, c |-> d]
                      ELSE IF t <= n - 1 THEN [v |-> t, c |-> low.c]
                      ELSE [v |-> n - 1, c |-> [low.c EXCEPT !.error = TRUE]]
    BY DEF DecUint
<1>3. ftb = 0 => ft = n
    <2>1. \A x \in Nat : x \div 1 = x
        OBVIOUS
    <2>2. (n - 1) \div 1 + 1 = n
        BY <2>1
    <2> QED BY <2>2, Pow2Zero
<1> HIDE DEF ftb, ft
<1>4. s \in 0 .. ft - 1 /\ ft \in Nat /\ ft >= 1 /\ ft <= Bot
    BY <1>1, DecodeAtFacts
<1>5. DecOK(d)
    <2>1. s \in Nat /\ s + 1 \in Nat /\ s + 1 <= ft /\ s <= DecodeAt(c, ft) /\ DecodeAt(c, ft) < s + 1
        BY <1>4
    <2> HIDE DEF s
    <2> QED BY <1>4, <2>1, DecUpdateFacts
<1> HIDE DEF d, s
<1>6. CASE ftb = 0
    BY <1>2, <1>3, <1>4, <1>5, <1>6 DEF Got
<1>7. CASE ftb # 0
    <2>1. ftb \in 1 .. Window - SymBits + 1
        BY <1>1, <1>7
    <2>2. DecOK(low.c) /\ low.v \in 0 .. p - 1
        BY <1>5, <2>1, DecBitsFacts DEF Got
    <2> HIDE DEF low, p
    <2>3. t \in Nat
        <3>1. s * p \in Nat
            BY <1>1, <1>4, Products
        <3> QED BY <2>2, <3>1
    <2> DEFINE e == [low.c EXCEPT !.error = TRUE]
    <2>4. DecOK(e)
        <3>1. low.c \in Ctx
            BY <2>2 DEF DecOK, DecMid
        <3>2. e \in Ctx
            BY <3>1, Zenon DEF Ctx
        <3>3. e.rng = low.c.rng /\ e.val = low.c.val /\ e.rem = low.c.rem
            BY <3>1 DEF Ctx
        <3> HIDE DEF e
        <3> QED BY <2>2, <3>2, <3>3 DEF DecOK, DecMid
    <2> HIDE DEF t, e
    <2>5. DecUint(c, n) = IF t <= n - 1 THEN [v |-> t, c |-> low.c] ELSE [v |-> n - 1, c |-> e]
        BY <1>2, <1>7 DEF t, e
    <2>6. CASE t <= n - 1
        <3>1. t \in 0 .. n - 1
            BY <2>3, <2>6
        <3> QED BY <2>2, <2>5, <2>6, <3>1 DEF Got
    <2>7. CASE ~(t <= n - 1)
        <3>1. n - 1 \in 0 .. n - 1
            OBVIOUS
        <3> QED BY <2>4, <2>5, <2>7, <3>1 DEF Got
    <2> QED BY <2>6, <2>7
<1> QED BY <1>6, <1>7

(* A bounded set of natural numbers has a greatest element. *)
LEMMA Greatest ==
    ASSUME NEW T, T \subseteq Nat, T # {}, NEW n \in Nat, \A y \in T : y <= n
    PROVE  Max(T) \in T /\ \A y \in T : y <= Max(T)
<1> DEFINE U == {k \in Nat : \A y \in T : y <= k}
<1>1. n \in U /\ U \subseteq Nat /\ U # {}
    OBVIOUS
<1>2. PICK k \in U : \A j \in U : k <= j
    <2> HIDE DEF U
    <2> QED BY <1>1, Least
<1>3. k \in T
    <2> SUFFICES ASSUME k \notin T PROVE FALSE
        OBVIOUS
    <2>1. PICK y \in T : TRUE
        OBVIOUS
    <2>2. k \in Nat /\ \A z \in T : z <= k /\ z # k /\ z \in Nat
        BY <1>2
    <2>3. k - 1 \in Nat /\ \A z \in T : z <= k - 1
        BY <2>1, <2>2
    <2>4. k - 1 \in U
        BY <2>3
    <2> QED BY <1>2, <2>2, <2>4
<1>4. \E x \in T : \A y \in T : x >= y
    BY <1>2, <1>3
<1>5. Max(T) \in T /\ \A y \in T : Max(T) >= y
    BY <1>4 DEF Max
<1> QED BY <1>5

LEMMA DecCellsFacts ==
    ASSUME NEW c, DecOK(c), NEW ft \in Nat, ft >= 1, ft <= Bot, NEW cuts, NEW n \in Nat, n > 1,
           Len(cuts) = n, cuts[1] = 0, cuts[n] = ft, \A i \in 1 .. n : cuts[i] \in Nat,
           \A i, j \in 1 .. n : i < j => cuts[i] < cuts[j]
    PROVE  Got(DecCells(c, cuts, ft), 0 .. n - 2)
<1> USE Bits, Consts
<1> DEFINE at == DecodeAt(c, ft)
           T == {i \in 1 .. n - 1 : cuts[i] <= at}
           s == Max(T)
<1>1. at \in 0 .. ft - 1
    BY DecodeAtFacts
<1>2. DecCells(c, cuts, ft) = [v |-> s - 1, c |-> DecUpdate(c, cuts[s], cuts[s + 1], ft)]
    BY DEF DecCells
<1> HIDE DEF at
<1>3. s \in T /\ \A i \in T : i <= s
    <2>1. 1 \in T
        BY <1>1
    <2>2. T \subseteq Nat /\ T # {} /\ \A y \in T : y <= n
        BY <2>1
    <2> HIDE DEF T
    <2> QED BY <2>2, Greatest
<1> HIDE DEF s
<1>4. s \in 1 .. n - 1 /\ cuts[s] <= at /\ s \in 1 .. n /\ s + 1 \in 1 .. n /\ n \in 1 .. n
    BY <1>3
<1>5. cuts[s] \in Nat /\ cuts[s + 1] \in Nat
    BY <1>4
<1>6. at < cuts[s + 1]
    <2>1. CASE s + 1 = n
        BY <1>1, <2>1
    <2>2. CASE s + 1 # n
        <3>1. s + 1 \in 1 .. n - 1 /\ ~(s + 1 <= s)
            BY <1>4, <2>2
        <3>2. ~(cuts[s + 1] <= at)
            BY <1>3, <3>1
        <3> QED BY <1>1, <1>5, <3>2
    <2> QED BY <2>1, <2>2
<1>7. cuts[s + 1] <= ft
    <2>1. s + 1 = n \/ cuts[s + 1] < cuts[n]
        BY <1>4
    <2> QED BY <1>4, <1>5, <2>1
<1>8. DecOK(DecUpdate(c, cuts[s], cuts[s + 1], ft))
    BY <1>4, <1>5, <1>6, <1>7, DecUpdateFacts DEF at
<1>9. s - 1 \in 0 .. n - 2
    BY <1>4
<1> QED BY <1>2, <1>8, <1>9 DEF Got

(* The flags, bit by bit. *)
LEMMA DecFlagsFacts ==
    ASSUME NEW c, DecOK(c), NEW n \in 1 .. SymBits
    PROVE  Got(DecFlags(c, n), 0 .. Pow2[n] - 1)
<1> USE Bits, Consts
<1> DEFINE D == {x \in Ctx : DecOK(x)}
           S == [v : Nat, c : D]
           x0 == [v |-> 0, c |-> c]
           Step(y) == [v |-> 2 * y.v + DecBitLogp(y.c, 1).v, c |-> DecBitLogp(y.c, 1).c]
           F == [q \in Nat \X S |-> Step(q[2])]
           read == CHOOSE f : f = [i \in Nat |-> IF i = 0 THEN x0 ELSE Step(f[i - 1])]
<1>1. DecFlags(c, n) = read[n]
    BY DEF DecFlags
<1>2. ASSUME NEW y, DecOK(y.c), y.v \in Nat
      PROVE  DecOK(Step(y).c) /\ Step(y).v \in Nat /\ Step(y).v <= 2 * y.v + 1
    <2> DEFINE b == DecBitLogp(y.c, 1)
    <2>1. Got(b, 0 .. 1)
        <3> DEFINE l == 1
        <3>1. l \in 1 .. CodeShift
            OBVIOUS
        <3> HIDE DEF l
        <3>2. Got(DecBitLogp(y.c, l), 0 .. 1)
            BY <1>2, <3>1, DecBitLogpFacts
        <3> QED BY <3>2 DEF l
    <2> HIDE DEF b
    <2>2. DecOK(b.c) /\ b.v \in 0 .. 1
        BY <2>1 DEF Got
    <2>3. Step(y).c = b.c /\ Step(y).v = 2 * y.v + b.v
        BY DEF b
    <2> HIDE DEF Step
    <2> QED BY <1>2, <2>2, <2>3
<1>3. \A y \in S : Step(y) \in S
    <2> SUFFICES ASSUME NEW y \in S PROVE Step(y) \in S
        OBVIOUS
    <2>1. DecOK(y.c) /\ y.v \in Nat
        OBVIOUS
    <2>2. DecOK(Step(y).c) /\ Step(y).v \in Nat
        BY <1>2, <2>1
    <2>3. Step(y).c \in D
        BY <2>2 DEF DecOK, DecMid
    <2>4. Step(y) = [v |-> Step(y).v, c |-> Step(y).c]
        OBVIOUS
    <2> HIDE DEF Step, D
    <2> QED BY <2>2, <2>3, <2>4
<1>4. x0 \in S
    BY DEF DecOK, DecMid
<1> HIDE DEF Step, S
<1>5. \A i \in Nat, y \in S : F[<<i, y>>] = Step(y)
    OBVIOUS
<1>6. Steps(F, S)
    BY <1>3 DEF Steps
<1> HIDE DEF F, x0
<1>7. PICK g : Iterates(g, x0, F, S)
    BY <1>4, <1>6, Iterate
<1>8. g \in [Nat -> S] /\ g[0] = x0 /\ \A i \in Nat : g[i + 1] = Step(g[i])
    BY <1>5, <1>7 DEF Iterates
<1>9. g = [i \in Nat |-> IF i = 0 THEN x0 ELSE Step(g[i - 1])]
    <2>1. ASSUME NEW i \in Nat, i # 0 PROVE g[i] = Step(g[i - 1])
        <3>1. i - 1 \in Nat /\ (i - 1) + 1 = i
            BY <2>1
        <3> QED BY <1>8, <3>1
    <2> QED BY <1>8, <2>1
<1>10. read = [i \in Nat |-> IF i = 0 THEN x0 ELSE Step(read[i - 1])]
    BY <1>9
<1> HIDE DEF read
<1> DEFINE T == {i \in Nat : i <= SymBits =>
                    DecOK(read[i].c) /\ read[i].v \in Nat /\ read[i].v < Pow2[i]}
<1>11. 0 \in T
    <2>1. read[0] = x0
        BY <1>10
    <2>2. x0.c = c /\ x0.v = 0
        BY DEF x0
    <2> QED BY <2>1, <2>2, Pow2Zero
<1>12. ASSUME NEW i \in Nat, i \in T PROVE i + 1 \in T
    <2> SUFFICES ASSUME i + 1 <= SymBits
                 PROVE  /\ DecOK(read[i + 1].c) /\ read[i + 1].v \in Nat
                        /\ read[i + 1].v < Pow2[i + 1]
        OBVIOUS
    <2>1. DecOK(read[i].c) /\ read[i].v \in Nat /\ read[i].v < Pow2[i]
        BY <1>12
    <2>2. read[i + 1] = Step(read[i])
        <3>1. i + 1 \in Nat /\ i + 1 # 0 /\ (i + 1) - 1 = i
            OBVIOUS
        <3> QED BY <1>10, <3>1
    <2> DEFINE y == read[i]
    <2>3. DecOK(Step(y).c) /\ Step(y).v \in Nat /\ Step(y).v <= 2 * y.v + 1
        BY <1>2, <2>1
    <2>4. Pow2[i] \in Nat /\ Pow2[i + 1] = 2 * Pow2[i]
        BY Pow2Nat, Pow2Next
    <2> QED BY <2>1, <2>2, <2>3, <2>4
<1>13. Nat \subseteq T
    <2> HIDE DEF T
    <2> QED BY <1>11, <1>12, Induction
<1>14. DecOK(read[n].c) /\ read[n].v \in Nat /\ read[n].v < Pow2[n] /\ Pow2[n] \in Nat
    BY <1>13, Pow2Nat
<1>15. read[n].v \in 0 .. Pow2[n] - 1
    BY <1>14
<1> QED BY <1>1, <1>14, <1>15 DEF Got

(* What a reader may hear for a symbol. *)
Alphabet(op) == IF op.kind = "flags" THEN 0 .. Pow2[op.n] - 1 ELSE Values(op)

(* Whatever the bytes, each routine finds a symbol of its alphabet. *)
LEMMA DecSymbolFacts ==
    ASSUME NEW c, DecOK(c), NEW op, Codable(op)
    PROVE  Got(DecSymbol(c, op), Alphabet(op))
<1> USE Bits, Consts
<1>0. op.kind \in Kinds /\ op.n \in Nat /\ op.table \in Seq(Nat)
    BY DEF Codable
<1>1. CASE op.kind = "uint"
    <2>1. op.n \in 2 .. Pow2[CodeBits] - 1 /\ Pow2[CodeBits] \in Nat
        BY <1>1, Pow2Nat DEF Codable
    <2>2. op.n \in Nat /\ op.n >= 2 /\ op.n < Pow2[CodeBits]
        BY <2>1
    <2>3. DecSymbol(c, op) = DecUint(c, op.n) /\ Alphabet(op) = 0 .. op.n - 1
        BY <1>1 DEF DecSymbol, Alphabet, Values
    <2> QED BY <2>2, <2>3, DecUintFacts
<1>2. CASE op.kind = "bits"
    <2>1. op.n \in 1 .. Window - SymBits + 1
        BY <1>2 DEF Codable
    <2>2. DecSymbol(c, op) = DecBits(c, op.n) /\ Alphabet(op) = 0 .. Pow2[op.n] - 1
        BY <1>2 DEF DecSymbol, Alphabet, Values
    <2> QED BY <2>1, <2>2, DecBitsFacts
<1>3. CASE op.kind = "logp"
    <2>1. op.n \in 1 .. CodeShift
        BY <1>3 DEF Codable
    <2>2. DecSymbol(c, op) = DecBitLogp(c, op.n) /\ Alphabet(op) = 0 .. 1
        BY <1>3 DEF DecSymbol, Alphabet, Values
    <2> QED BY <2>1, <2>2, DecBitLogpFacts
<1>4. CASE op.kind = "icdf"
    <2> DEFINE t == op.table
               n == Len(op.table)
    <2>1. /\ op.n \in 0 .. CodeShift /\ t # <<>> /\ t[1] < Pow2[op.n] /\ t[n] = 0
          /\ \A i, j \in 1 .. n : i < j => t[i] >= t[j]
        BY <1>0, <1>4 DEF Codable
    <2>2. DecSymbol(c, op) = DecIcdf(c, t, op.n) /\ Alphabet(op) = Likely(t)
        BY <1>4 DEF DecSymbol, Alphabet, Values
    <2>3. /\ \A i \in 1 .. n : t[i] \in Nat
          /\ n \in Nat /\ n >= 1 /\ DOMAIN t = 1 .. n /\ 1 \in 1 .. n /\ Len(t) = n
        BY <1>0, <2>1
    <2> HIDE DEF t, n
    <2>4. \A i \in 1 .. n : t[i] \in Nat /\ t[i] < Pow2[op.n]
        <3> SUFFICES ASSUME NEW i \in 1 .. n PROVE t[i] \in Nat /\ t[i] < Pow2[op.n]
            OBVIOUS
        <3>1. i = 1 \/ t[1] >= t[i]
            BY <2>1, <2>3
        <3>2. Pow2[op.n] \in Nat
            BY <2>1, Pow2Nat
        <3> QED BY <2>1, <2>3, <3>1, <3>2
    <2> QED BY <2>1, <2>2, <2>3, <2>4, DecIcdfFacts
<1>5. CASE op.kind \in {"cells", "bin"}
    <2> DEFINE ft == IF op.kind = "bin" THEN Pow2[op.n] ELSE op.n
               t == op.table
               n == Len(op.table)
    <2>1. /\ op.n \in IF op.kind = "bin" THEN 0 .. CodeShift ELSE 1 .. Bot
          /\ n > 1 /\ t[1] = 0 /\ t[n] = ft
          /\ \A i, j \in 1 .. n : i < j => t[i] < t[j]
        BY <1>0, <1>5 DEF Codable
    <2>2. ft \in Nat /\ ft <= Bot /\ ft >= 1
        BY <2>1, Pow2Nat, Pow2Mono, Widths
    <2>3. DecSymbol(c, op) = DecCells(c, t, ft) /\ Alphabet(op) = 0 .. n - 2
        BY <1>5 DEF DecSymbol, Alphabet, Values
    <2>4. (\A i \in 1 .. n : t[i] \in Nat) /\ n \in Nat /\ Len(t) = n
        BY <1>0
    <2> HIDE DEF ft, t, n
    <2> QED BY <2>1, <2>2, <2>3, <2>4, DecCellsFacts
<1>6. CASE op.kind = "flags"
    <2>1. op.n \in 1 .. SymBits
        BY <1>6 DEF Codable
    <2>2. DecSymbol(c, op) = DecFlags(c, op.n) /\ Alphabet(op) = 0 .. Pow2[op.n] - 1
        BY <1>6 DEF DecSymbol, Alphabet
    <2> QED BY <2>1, <2>2, DecFlagsFacts
<1> QED BY <1>0, <1>1, <1>2, <1>3, <1>4, <1>5, <1>6 DEF Kinds

(* Another routine of the same probabilities may read a symbol. *)
LEMMA WaysFacts ==
    ASSUME NEW op, Codable(op), NEW way \in Ways(op)
    PROVE  Codable(way)
<1> USE Bits, Consts
<1> DEFINE p == Pow2[op.n]
           icdf == [kind |-> "icdf", n |-> op.n, table |-> <<1, 0>>]
           cells == [kind |-> "cells", n |-> p, table |-> <<0, p - 1, p>>]
           bin == [kind |-> "bin", n |-> op.n, table |-> <<0, p - 1, p>>]
<1> SUFFICES ASSUME op.kind = "logp" PROVE Codable(icdf) /\ Codable(cells) /\ Codable(bin)
    BY DEF Ways
<1>1. op.n \in 1 .. CodeShift /\ op.n \in Nat
    BY DEF Codable
<1>2. p \in Nat /\ p >= 2 /\ p <= Bot
    <2>1. 2 * Pow2[0] <= p /\ p <= Pow2[CodeShift]
        BY <1>1, Pow2Twice, Pow2Mono
    <2> QED BY <1>1, <2>1, Pow2Nat, Pow2Zero, Widths
<1>3. Codable(icdf)
    <2> DEFINE t == <<1, 0>>
    <2>1. t \in Seq(Nat) /\ Len(t) = 2 /\ t[1] = 1 /\ t[2] = 0 /\ t # <<>>
        OBVIOUS
    <2>2. \A i, j \in 1 .. 2 : i < j => i = 1 /\ j = 2
        OBVIOUS
    <2>3. icdf.kind = "icdf" /\ icdf.n = op.n /\ icdf.table = t
        OBVIOUS
    <2>4. icdf \in [kind : Kinds, n : Nat, table : Seq(Nat)]
        BY <1>1, <2>1 DEF Kinds
    <2> HIDE DEF icdf, t
    <2>5. \A i, j \in 1 .. Len(t) : i < j => t[i] >= t[j]
        BY <2>1, <2>2
    <2>6. op.n <= CodeShift /\ t[1] < Pow2[op.n] /\ t[Len(t)] = 0
        BY <1>1, <1>2, <2>1
    <2> QED BY <2>1, <2>3, <2>4, <2>5, <2>6 DEF Codable
<1> DEFINE t == <<0, p - 1, p>>
<1> HIDE DEF p
<1>4. t \in Seq(Nat) /\ Len(t) = 3 /\ t[1] = 0 /\ t[2] = p - 1 /\ t[3] = p
    <2>1. p - 1 \in Nat
        BY <1>2
    <2> QED BY <1>2, <2>1
<1>5. Len(t) > 1 /\ t[Len(t)] = p /\ \A i, j \in 1 .. Len(t) : i < j => t[i] < t[j]
    <2>1. \A i, j \in 1 .. 3 : i < j => (i = 1 /\ j = 2) \/ (i = 1 /\ j = 3) \/ (i = 2 /\ j = 3)
        OBVIOUS
    <2> HIDE DEF t
    <2>2. ASSUME NEW i \in 1 .. 3, NEW j \in 1 .. 3, i < j PROVE t[i] < t[j]
        BY <1>2, <1>4, <2>1, <2>2
    <2> QED BY <1>4, <2>2
<1>6. Codable(cells)
    <2>1. cells.kind = "cells" /\ cells.n = p /\ cells.table = t
        OBVIOUS
    <2>2. cells \in [kind : Kinds, n : Nat, table : Seq(Nat)]
        BY <1>2, <1>4 DEF Kinds
    <2> HIDE DEF cells, t
    <2>3. p \in 1 .. Bot
        BY <1>2
    <2> QED BY <1>4, <1>5, <2>1, <2>2, <2>3 DEF Codable
<1>7. Codable(bin)
    <2>1. bin.kind = "bin" /\ bin.n = op.n /\ bin.table = t
        OBVIOUS
    <2>2. bin \in [kind : Kinds, n : Nat, table : Seq(Nat)]
        BY <1>1, <1>4 DEF Kinds
    <2> HIDE DEF bin, t
    <2>3. op.n \in 0 .. CodeShift
        BY <1>1
    <2> QED BY <1>4, <1>5, <2>1, <2>2, <2>3 DEF Codable, p
<1> QED BY <1>3, <1>6, <1>7

-----------------------------------------------------------------------------
(* The coder at work. *)

Reports(a) == [op : Applications[a].ops, v : Nat, tell : Int, rng : Nat]

(* The packet begins with flags that are not yet known. *)
Flagged(s) == s # <<>> /\ s[1].op.kind = "flags" /\ s[1].v = 0

(* An encoder that has said s. *)
Ready(c, s) ==
    /\ EncOK(c)
    /\ s = <<>> => Fresh(c)
    /\ Flagged(s) => Open(c, s[1].op.n)

(* What a saved copy needs to take over from c. *)
Kept(m, c, a) ==
    Ready(m.ctx, m.said) /\ m.said \in Seq(Reports(a)) /\ Size(m.ctx) = Size(c)

(* The range of a decoder, or of a packet that was thrown away. *)
Ranged(c) == c.rng \in Nat /\ c.rng > Bot /\ c.rng <= Top

(* The inductive invariant: the registers of an encoder are normalised and *)
(* its counters agree with the buffer, for the copy too; those of a        *)
(* decoder hold a value within the range.                                  *)
CoderInv ==
    /\ app \in DOMAIN Applications
    /\ phase \in {"encode", "decode", "foreign", "failed"}
    /\ said \in Seq(Reports(app)) /\ heard \in Seq(Reports(app))
    /\ phase = "encode" => Ready(ctx, said) /\ (mark.set => Kept(mark, ctx, app))
    /\ phase \in {"decode", "foreign"} => DecOK(ctx)
    /\ phase = "failed" => Ranged(ctx)
    /\ phase = "foreign" => \A i \in DOMAIN heard : heard[i].v \in Alphabet(heard[i].op)

LEMMA AppsCodable ==
    ASSUME NEW a \in DOMAIN Applications, NEW op \in Applications[a].ops
    PROVE  Codable(op)
    BY ApplicationsAssumption

LEMMA AlphabetNat ==
    ASSUME NEW op, Codable(op)
    PROVE  Alphabet(op) \subseteq Nat /\ Values(op) \subseteq Nat
<1>0. op.kind \in Kinds /\ op.n \in Nat /\ op.table \in Seq(Nat)
    BY DEF Codable
<1>1. \A x : 0 .. x \subseteq Nat
    OBVIOUS
<1>2. 0 \in Nat
    OBVIOUS
<1> QED BY <1>0, <1>1, <1>2 DEF Alphabet, Values, Likely, Kinds

LEMMA ReportIs ==
    ASSUME NEW a, NEW op \in Applications[a].ops, NEW v \in Nat, NEW c \in Ctx, Ranged(c)
    PROVE  Report(op, v, c) \in Reports(a)
<1>1. Ilog(c.rng) \in Nat /\ c.nbits_total \in Int /\ c.rng \in Nat
    BY RangeBits, CtxTypes DEF Ranged, Fields
<1>2. Tell(c) \in Int
    BY <1>1 DEF Tell
<1> QED BY <1>1, <1>2, Zenon DEF Report, Reports

LEMMA OneMore ==
    ASSUME NEW R, NEW s \in Seq(R), NEW e \in R
    PROVE  /\ Append(s, e) \in Seq(R) /\ Append(s, e) # <<>>
           /\ s = <<>> => Append(s, e)[1] = e
           /\ s # <<>> => Append(s, e)[1] = s[1]
           /\ DOMAIN Append(s, e) = 1 .. Len(s) + 1 /\ DOMAIN s = 1 .. Len(s) /\ Len(s) \in Nat
           /\ \A i \in 1 .. Len(s) : Append(s, e)[i] = s[i]
           /\ Append(s, e)[Len(s) + 1] = e
    OBVIOUS

LEMMA EncRanged ==
    ASSUME NEW c, EncOK(c) PROVE c \in Ctx /\ Ranged(c)
    BY CtxTypes DEF EncOK, EncMid, Ranged, Fields

LEMMA DecRanged ==
    ASSUME NEW c, DecOK(c) PROVE c \in Ctx /\ Ranged(c)
    BY CtxTypes DEF DecOK, DecMid, Ranged, Fields

(* The copy on the buffer as it is now. *)
LEMMA RestoreFacts ==
    ASSUME NEW m, NEW s, Ready(m, s), NEW c \in Ctx, Size(m) = Size(c)
    PROVE  Ready([m EXCEPT !.buf = c.buf], s)
<1> DEFINE b == c.buf
           d == [m EXCEPT !.buf = b]
<1>1. m \in Ctx
    BY DEF Ready, EncOK, EncMid
<1>2. b \in Seq(Bytes) /\ Len(b) = Size(m)
    BY DEF Ctx, Size
<1> HIDE DEF b
<1>3. d \in Ctx
    BY <1>1, <1>2, Zenon DEF Ctx
<1>4. /\ d.val = m.val /\ d.rng = m.rng /\ d.nbits_total = m.nbits_total /\ d.buf = b
      /\ d.offs = m.offs /\ d.end_offs = m.end_offs /\ d.nend_bits = m.nend_bits
      /\ d.rem = m.rem /\ d.ext = m.ext
    BY <1>1 DEF Ctx
<1>5. d.error = m.error
    BY <1>1 DEF Ctx
<1> HIDE DEF d
<1>6. Held(d) = Held(m) /\ Size(d) = Size(m)
    BY <1>2, <1>4 DEF Held, Size
<1>7. Apart(d) /\ Counted(d)
    BY <1>4, <1>5, <1>6 DEF Ready, EncOK, EncMid, Apart, Counted, Taken
<1>8. Ready(d, s)
    BY <1>3, <1>4, <1>7 DEF Ready, EncOK, EncMid, Open, Fresh
<1> QED BY <1>8 DEF d, b

(* A symbol is encoded. *)
LEMMA PutFacts ==
    ASSUME NEW c, NEW s, NEW a \in DOMAIN Applications, s \in Seq(Reports(a)), Ready(c, s),
           NEW op \in Applications[a].ops, NEW v \in Values(op), op.kind = "flags" => s = <<>>
    PROVE  LET d == EncSymbol(c, op, v)
               t == Append(s, Report(op, v, d))
           IN Ready(d, t) /\ t \in Seq(Reports(a)) /\ Size(d) = Size(c)
<1> DEFINE d == EncSymbol(c, op, v)
           e == Report(op, v, d)
           t == Append(s, e)
<1>1. Codable(op) /\ EncOK(c)
    BY AppsCodable DEF Ready
<1>2. Goes(c, d)
    BY <1>1, EncSymbolFacts
<1>3. EncOK(d) /\ Size(d) = Size(c) /\ \A n \in 1 .. SymBits : Open(c, n) => Open(d, n)
    BY <1>2 DEF Goes, Coded
<1>4. v \in Nat
    BY <1>1, AlphabetNat
<1>5. e.op = op
    BY DEF Report
<1>6. op.kind = "flags" => Open(d, op.n)
    <2> SUFFICES ASSUME op.kind = "flags" PROVE Open(d, op.n)
        OBVIOUS
    <2>1. Fresh(c)
        BY DEF Ready
    <2>2. v = 0
        BY DEF Values
    <2> QED BY <1>1, <2>1, <2>2, FlagsOpen
<1> HIDE DEF d
<1>7. e \in Reports(a)
    BY <1>3, <1>4, EncRanged, ReportIs
<1> HIDE DEF e
<1>8. /\ t \in Seq(Reports(a)) /\ t # <<>>
      /\ s = <<>> => t[1] = e
      /\ s # <<>> => t[1] = s[1]
    BY <1>7, OneMore
<1> HIDE DEF t
<1>9. ASSUME Flagged(t) PROVE Open(d, t[1].op.n)
    <2>1. CASE s = <<>>
        BY <1>5, <1>6, <1>8, <1>9, <2>1 DEF Flagged
    <2>2. CASE s # <<>>
        <3>1. Flagged(s) /\ t[1].op = s[1].op
            BY <1>8, <1>9, <2>2 DEF Flagged
        <3>2. Open(c, s[1].op.n)
            BY <3>1 DEF Ready
        <3>3. s[1] \in Reports(a)
            BY <2>2
        <3>4. s[1].op \in Applications[a].ops
            BY <3>3 DEF Reports
        <3>5. Codable(s[1].op)
            BY <3>4, AppsCodable
        <3>6. s[1].op.n \in 1 .. SymBits
            BY <3>1, <3>5 DEF Flagged, Codable
        <3> QED BY <1>3, <3>1, <3>2, <3>6
    <2> QED BY <2>1, <2>2
<1>10. Ready(d, t)
    BY <1>3, <1>8, <1>9 DEF Ready
<1> QED BY <1>3, <1>8, <1>10 DEF d, e, t

(* The flags take their place. *)
LEMMA PatchedFacts ==
    ASSUME NEW c, NEW s, NEW a \in DOMAIN Applications, s \in Seq(Reports(a)), Ready(c, s),
           Flagged(s), NEW v \in 1 .. Pow2[s[1].op.n] - 1
    PROVE  LET d == PatchInitialBits(c, v, s[1].op.n)
               t == [s EXCEPT ![1].v = v]
           IN Ready(d, t) /\ t \in Seq(Reports(a)) /\ Size(d) = Size(c)
<1> DEFINE e == s[1]
           f == [e EXCEPT !.v = v]
           t == [s EXCEPT ![1] = f]
           n == e.op.n
           d == PatchInitialBits(c, v, n)
<1>1. s # <<>> /\ e \in Reports(a) /\ Len(s) \in Nat /\ Len(s) >= 1
      /\ s \in [1 .. Len(s) -> Reports(a)]
    BY DEF Flagged
<1>2. e.op \in Applications[a].ops
    BY <1>1 DEF Reports
<1>3. Codable(e.op) /\ e.op.kind = "flags"
    BY <1>2, AppsCodable DEF Flagged
<1>4. n \in 1 .. SymBits
    BY <1>3 DEF Codable
<1>5. EncOK(c) /\ Open(c, n)
    BY DEF Ready
<1>6. EncOK(d) /\ Size(d) = Size(c)
    <2> HIDE DEF n
    <2>1. v \in 1 .. Pow2[n] - 1
        BY DEF n
    <2> QED BY <1>4, <1>5, <2>1, PatchFacts
<1>7. v \in Nat /\ v # 0
    OBVIOUS
<1>8. f \in Reports(a) /\ f.v = v
    BY <1>1, <1>7 DEF Reports
<1>9. [s EXCEPT ![1].v = v] = t
    OBVIOUS
<1> HIDE DEF f
<1>10. t \in [1 .. Len(s) -> Reports(a)] /\ t[1] = f
    BY <1>1, <1>8
<1> DEFINE k == Len(s)
<1> HIDE DEF t, d
<1>11. t \in Seq(Reports(a)) /\ t # <<>>
    <2>1. k \in Nat /\ k >= 1 /\ t \in [1 .. k -> Reports(a)]
        BY <1>1, <1>10
    <2> HIDE DEF k
    <2>2. t \in Seq(Reports(a)) /\ Len(t) = k
        BY <2>1, IsSeq
    <2> QED BY <2>1, <2>2
<1>12. ~Flagged(t)
    BY <1>7, <1>8, <1>10 DEF Flagged
<1>13. Ready(d, t)
    BY <1>6, <1>11, <1>12 DEF Ready
<1> QED BY <1>6, <1>9, <1>11, <1>13 DEF d

LEMMA ReadyInit == Init => CoderInv
<1> SUFFICES ASSUME Init PROVE CoderInv
    OBVIOUS
<1>1. /\ app \in DOMAIN Applications /\ said = <<>> /\ heard = <<>> /\ mark = NoMark
    BY DEF Init
<1>2. said \in Seq(Reports(app)) /\ heard \in Seq(Reports(app)) /\ ~Flagged(said)
    BY <1>1 DEF Flagged
<1>3. ~mark.set
    BY <1>1 DEF NoMark
<1>4. Applications[app].sizes \subseteq Nat /\ Applications[app].foreign \subseteq Nat
    BY <1>1, ApplicationsAssumption
<1>5. ASSUME phase = "encode",
             NEW n \in Applications[app].sizes, ctx = EncInit([i \in 1 .. n |-> SymMax])
      PROVE  CoderInv
    <2>1. EncOK(ctx) /\ Fresh(ctx)
        BY <1>4, <1>5, EncInitFacts
    <2>2. Ready(ctx, said)
        BY <1>2, <2>1 DEF Ready
    <2> QED BY <1>1, <1>2, <1>3, <1>5, <2>2 DEF CoderInv
<1>6. ASSUME phase = "foreign",
             NEW n \in Applications[app].foreign, NEW b \in [1 .. n -> Bytes], ctx = DecInit(b)
      PROVE  CoderInv
    <2>1. b \in Seq(Bytes)
        BY <1>4, IsSeq
    <2>2. DecOK(ctx)
        BY <1>6, <2>1, DecInitFacts
    <2> QED BY <1>1, <1>2, <1>6, <2>2 DEF CoderInv
<1> QED BY <1>5, <1>6 DEF Init

(* One symbol is read, by a routine of the same probabilities. *)
LEMMA ReadFacts ==
    ASSUME NEW c, DecOK(c), NEW a \in DOMAIN Applications, NEW op \in Applications[a].ops,
           NEW way, Codable(way)
    PROVE  /\ DecOK(DecSymbol(c, way).c) /\ DecSymbol(c, way).v \in Alphabet(way)
           /\ Report(op, DecSymbol(c, way).v, DecSymbol(c, way).c) \in Reports(a)
<1> DEFINE d == DecSymbol(c, way)
<1>1. DecOK(d.c) /\ d.v \in Alphabet(way)
    BY DecSymbolFacts DEF Got
<1>2. d.v \in Nat
    BY <1>1, AlphabetNat
<1> HIDE DEF d
<1>3. Report(op, d.v, d.c) \in Reports(a)
    BY <1>1, <1>2, DecRanged, ReportIs
<1> QED BY <1>1, <1>3 DEF d

LEMMA ReadyStep == CoderInv /\ [Next]_vars => CoderInv'
<1> SUFFICES ASSUME CoderInv, [Next]_vars PROVE CoderInv'
    OBVIOUS
<1> DEFINE A == Applications[app]
<1>0. app \in DOMAIN Applications
    BY DEF CoderInv
<1>1. ASSUME Put(A), UNCHANGED app PROVE CoderInv'
    <2>1. /\ phase = "encode" /\ phase' = phase /\ heard' = heard /\ mark' = mark
          /\ Ready(ctx, said) /\ said \in Seq(Reports(app))
          /\ mark.set => Kept(mark, ctx, app)
        BY <1>1 DEF Put, CoderInv
    <2>2. PICK op \in A.ops : \E v \in Values(op) :
             /\ op.kind = "flags" => said = <<>>
             /\ ctx' = EncSymbol(ctx, op, v)
             /\ said' = Append(said, Report(op, v, ctx'))
        BY <1>1 DEF Put
    <2>3. PICK v \in Values(op) :
             /\ op.kind = "flags" => said = <<>>
             /\ ctx' = EncSymbol(ctx, op, v)
             /\ said' = Append(said, Report(op, v, ctx'))
        BY <2>2
    <2>4. Ready(ctx', said') /\ said' \in Seq(Reports(app)) /\ Size(ctx') = Size(ctx)
        <3>1. said' = Append(said, Report(op, v, EncSymbol(ctx, op, v)))
            BY <2>3
        <3> QED BY <1>0, <2>1, <2>3, <3>1, PutFacts
    <2>5. mark.set => Kept(mark, ctx', app)
        BY <2>1, <2>4 DEF Kept
    <2> QED BY <1>1, <2>1, <2>4, <2>5 DEF CoderInv
<1>2. ASSUME Patch, UNCHANGED app PROVE CoderInv'
    <2>1. /\ phase = "encode" /\ phase' = phase /\ heard' = heard /\ mark' = mark
          /\ Ready(ctx, said) /\ said \in Seq(Reports(app)) /\ Flagged(said)
          /\ mark.set => Kept(mark, ctx, app)
        BY <1>2 DEF Patch, CoderInv, Flagged
    <2>2. PICK v \in 1 .. Pow2[said[1].op.n] - 1 :
             /\ ctx' = PatchInitialBits(ctx, v, said[1].op.n)
             /\ said' = [said EXCEPT ![1].v = v]
        BY <1>2 DEF Patch
    <2>3. Ready(ctx', said') /\ said' \in Seq(Reports(app)) /\ Size(ctx') = Size(ctx)
        BY <1>0, <2>1, <2>2, PatchedFacts
    <2>4. mark.set => Kept(mark, ctx', app)
        BY <2>1, <2>3 DEF Kept
    <2> QED BY <1>2, <2>1, <2>3, <2>4 DEF CoderInv
<1>3. ASSUME ShrinkTo, UNCHANGED app PROVE CoderInv'
    <2>1. /\ phase = "encode" /\ phase' = phase /\ heard' = heard /\ mark' = mark
          /\ said' = said /\ Ready(ctx, said) /\ ~mark.set
        BY <1>3 DEF ShrinkTo, CoderInv
    <2>2. PICK size \in 1 .. Len(ctx.buf) - 1 :
             size * SymBits >= Tell(ctx) /\ ctx' = Shrink(ctx, size)
        BY <1>3 DEF ShrinkTo
    <2>3. EncOK(ctx) /\ ctx \in Ctx /\ Fields(ctx)
        BY <2>1, CtxTypes DEF Ready, EncOK, EncMid
    <2>4. size \in Nat /\ size <= Size(ctx)
        <3>1. size \in 1 .. Size(ctx) - 1
            BY DEF Size
        <3> QED BY <2>3, <3>1 DEF Fields
    <2>5. Tell(ctx) <= SymBits * size
        <3>1. Ilog(ctx.rng) \in Nat /\ ctx.nbits_total \in Int
            BY <2>3, EncRanged, RangeBits DEF Ranged, Fields
        <3>2. Tell(ctx) \in Int
            BY <3>1 DEF Tell
        <3>3. size * SymBits = SymBits * size /\ SymBits * size \in Nat
            BY <2>4, Bits
        <3> QED BY <2>2, <3>2, <3>3
    <2>6. /\ EncOK(ctx') /\ (\A k \in 1 .. SymBits : Open(ctx, k) => Open(ctx', k))
          /\ Fresh(ctx) => Fresh(ctx')
        BY <2>2, <2>3, <2>4, <2>5, ShrinkFacts
    <2>7. Flagged(said) => said[1].op.n \in 1 .. SymBits
        <3> SUFFICES ASSUME Flagged(said) PROVE said[1].op.n \in 1 .. SymBits
            OBVIOUS
        <3>1. said[1] \in Reports(app)
            BY DEF CoderInv, Flagged
        <3>2. said[1].op \in Applications[app].ops
            BY <3>1 DEF Reports
        <3>3. Codable(said[1].op)
            BY <1>0, <3>2, AppsCodable
        <3> QED BY <3>3 DEF Flagged, Codable
    <2>8. Ready(ctx', said)
        BY <2>1, <2>6, <2>7 DEF Ready
    <2> QED BY <1>3, <2>1, <2>8 DEF CoderInv
<1>4. ASSUME Mark(A), UNCHANGED app PROVE CoderInv'
    <2>1. /\ phase = "encode" /\ phase' = phase /\ heard' = heard /\ ctx' = ctx /\ said' = said
          /\ mark' = [set |-> TRUE, ctx |-> ctx, said |-> said]
          /\ Ready(ctx, said) /\ said \in Seq(Reports(app))
        BY <1>4 DEF Mark, CoderInv
    <2>2. mark'.ctx = ctx /\ mark'.said = said
        BY <2>1
    <2>3. Kept(mark', ctx, app)
        BY <2>1, <2>2 DEF Kept
    <2> QED BY <1>4, <2>1, <2>3 DEF CoderInv
<1>5. ASSUME Restore, UNCHANGED app PROVE CoderInv'
    <2>1. /\ phase = "encode" /\ phase' = phase /\ heard' = heard /\ mark' = NoMark
          /\ ctx' = [mark.ctx EXCEPT !.buf = ctx.buf] /\ said' = mark.said
          /\ Kept(mark, ctx, app) /\ Ready(ctx, said)
        BY <1>5 DEF Restore, CoderInv
    <2>2. ~mark'.set
        BY <2>1 DEF NoMark
    <2>3. ctx \in Ctx
        BY <2>1 DEF Ready, EncOK, EncMid
    <2>4. Ready(ctx', said') /\ said' \in Seq(Reports(app))
        BY <2>1, <2>3, RestoreFacts DEF Kept
    <2> QED BY <1>5, <2>1, <2>2, <2>4 DEF CoderInv
<1>6. ASSUME Close, UNCHANGED app PROVE CoderInv'
    <2> DEFINE c == Done(ctx)
               lost == c.error /\ ~cut'
    <2>1. /\ phase = "encode" /\ heard' = heard /\ said' = said
          /\ phase' = IF lost THEN "failed" ELSE "decode"
          /\ ctx' = IF lost THEN c ELSE DecInit(c.buf)
          /\ Ready(ctx, said)
        BY <1>6 DEF Close, CoderInv
    <2>2. EncOK(ctx)
        BY <2>1 DEF Ready
    <2>3. c \in Ctx /\ c.rng = ctx.rng
        BY <2>2, DoneFacts DEF Closed
    <2> HIDE DEF c
    <2>4. Ranged(c)
        BY <2>2, <2>3, EncRanged DEF Ranged
    <2>5. DecOK(DecInit(c.buf))
        <3>1. c.buf \in Seq(Bytes)
            BY <2>3 DEF Ctx
        <3> QED BY <3>1, DecInitFacts
    <2> HIDE DEF lost
    <2> QED BY <1>6, <2>1, <2>4, <2>5 DEF CoderInv
<1>7. ASSUME Get, UNCHANGED app PROVE CoderInv'
    <2> DEFINE k == Len(heard) + 1
    <2>1. /\ phase = "decode" /\ phase' = phase /\ said' = said
          /\ DecOK(ctx) /\ said \in Seq(Reports(app)) /\ heard \in Seq(Reports(app))
          /\ Len(heard) < Len(said)
        BY <1>7 DEF Get, CoderInv
    <2>2. PICK way \in Ways(said[k].op) :
             LET d == DecSymbol(ctx, way)
             IN ctx' = d.c /\ heard' = Append(heard, Report(said[k].op, d.v, d.c))
        BY <1>7 DEF Get
    <2>3. said[k] \in Reports(app)
        BY <2>1
    <2> HIDE DEF k
    <2>4. said[k].op \in Applications[app].ops
        BY <2>3 DEF Reports
    <2>5. Codable(way)
        BY <1>0, <2>4, AppsCodable, WaysFacts
    <2> DEFINE e == Report(said[k].op, DecSymbol(ctx, way).v, DecSymbol(ctx, way).c)
    <2>6. DecOK(ctx') /\ e \in Reports(app)
        BY <1>0, <2>1, <2>2, <2>4, <2>5, ReadFacts
    <2>7. heard' = Append(heard, e)
        BY <2>2
    <2> HIDE DEF e
    <2>8. heard' \in Seq(Reports(app))
        BY <2>1, <2>6, <2>7, OneMore
    <2> QED BY <1>7, <2>1, <2>6, <2>8 DEF CoderInv
<1>8. ASSUME GetForeign(A), UNCHANGED app PROVE CoderInv'
    <2>1. /\ phase = "foreign" /\ phase' = phase /\ said' = said
          /\ DecOK(ctx) /\ said \in Seq(Reports(app)) /\ heard \in Seq(Reports(app))
          /\ \A i \in DOMAIN heard : heard[i].v \in Alphabet(heard[i].op)
        BY <1>8 DEF GetForeign, CoderInv
    <2>2. PICK op \in A.ops :
             LET d == DecSymbol(ctx, op)
             IN ctx' = d.c /\ heard' = Append(heard, Report(op, d.v, d.c))
        BY <1>8 DEF GetForeign
    <2>3. Codable(op)
        BY <1>0, <2>2, AppsCodable
    <2> DEFINE v == DecSymbol(ctx, op).v
               e == Report(op, v, DecSymbol(ctx, op).c)
    <2>4. DecOK(ctx') /\ v \in Alphabet(op) /\ e \in Reports(app)
        BY <1>0, <2>1, <2>2, <2>3, ReadFacts
    <2>5. heard' = Append(heard, e)
        BY <2>2
    <2> HIDE DEF v
    <2>6. e.v = v /\ e.op = op
        BY DEF Report
    <2> HIDE DEF e
    <2>7. /\ heard' \in Seq(Reports(app))
          /\ DOMAIN heard' = 1 .. Len(heard) + 1 /\ DOMAIN heard = 1 .. Len(heard) /\ Len(heard) \in Nat
          /\ \A i \in 1 .. Len(heard) : heard'[i] = heard[i]
          /\ heard'[Len(heard) + 1] = e
        BY <2>1, <2>4, <2>5, OneMore
    <2>8. \A i \in DOMAIN heard' : heard'[i].v \in Alphabet(heard'[i].op)
        <3> SUFFICES ASSUME NEW i \in DOMAIN heard'
                     PROVE  heard'[i].v \in Alphabet(heard'[i].op)
            OBVIOUS
        <3>1. i \in 1 .. Len(heard) \/ i = Len(heard) + 1
            BY <2>7
        <3> QED BY <2>1, <2>4, <2>6, <2>7, <3>1
    <2> QED BY <1>8, <2>1, <2>4, <2>7, <2>8 DEF CoderInv
<1>9. CASE UNCHANGED vars
    BY <1>9 DEF CoderInv, vars
<1> QED BY <1>1, <1>2, <1>3, <1>4, <1>5, <1>6, <1>7, <1>8, <1>9 DEF Next, Calls

(* The registers of an encoder and of a decoder stay where the arithmetic  *)
(* of entenc.c and entdec.c needs them, for every width, every alphabet    *)
(* the routines accept, every buffer and every foreign packet.             *)
THEOREM RangeSoundHolds == Spec => []RangeSound
<1>1. CoderInv => RangeSound
    <2> SUFFICES ASSUME CoderInv PROVE RangeSound
        OBVIOUS
    <2> USE Bits, Consts
    <2>1. CASE phase = "encode"
        <3>1. EncOK(ctx) /\ Ranged(ctx) /\ Fields(ctx)
            BY <2>1, EncRanged, CtxTypes DEF CoderInv, Ready
        <3>2. ctx.val + ctx.rng < Pow2[CodeBits]
            BY <3>1, Widths DEF EncOK, EncMid
        <3>3. ctx.rng \in Bot + 1 .. Top
            BY <3>1 DEF Ranged
        <3> QED BY <2>1, <3>2, <3>3 DEF RangeSound
    <2>2. CASE phase \in {"decode", "foreign"}
        <3>1. DecOK(ctx) /\ Ranged(ctx) /\ Fields(ctx)
            BY <2>2, DecRanged, CtxTypes DEF CoderInv
        <3>2. ctx.val \in 0 .. ctx.rng - 1
            BY <3>1 DEF DecOK, DecMid, Fields
        <3>3. ctx.rng \in Bot + 1 .. Top
            BY <3>1 DEF Ranged
        <3>4. phase = "foreign" => \A i \in DOMAIN heard : heard[i].v \in Alphabet(heard[i].op)
            BY DEF CoderInv
        <3> QED BY <2>2, <3>2, <3>3, <3>4 DEF RangeSound, Alphabet
    <2>3. CASE phase = "failed"
        <3>1. ctx.rng \in Bot + 1 .. Top
            BY <2>3 DEF CoderInv, Ranged
        <3> QED BY <2>3, <3>1 DEF RangeSound
    <2> QED BY <2>1, <2>2, <2>3 DEF CoderInv
<1> QED BY <1>1, ReadyInit, ReadyStep, PTL DEF Spec

(* As long as ec_tell stays within the packet, ec_enc_done reports no      *)
(* error, needs no more bytes than told, and ec_enc_shrink's assertion     *)
(* holds for every size ec_tell allows: the contract on which the encoders *)
(* of CELT and SILK size their packets.                                    *)
THEOREM FitsAsToldHolds == Spec => []FitsAsTold
<1>1. CoderInv => FitsAsTold
    <2> SUFFICES ASSUME CoderInv, phase = "encode", Tell(ctx) <= SymBits * Len(ctx.buf)
                 PROVE  /\ ~Done(ctx).error
                        /\ Tell(Done(ctx)) = Tell(ctx)
                        /\ SymBits * (Done(ctx).offs - 1) < Tell(ctx)
                        /\ \A n \in 1 .. Len(ctx.buf) :
                              SymBits * n >= Tell(ctx) => ctx.offs + ctx.end_offs <= n
        BY DEF FitsAsTold
    <2>1. EncOK(ctx) /\ Fields(ctx)
        BY CtxTypes DEF CoderInv, Ready, EncOK, EncMid
    <2>2. Tell(ctx) <= SymBits * Size(ctx) /\ Len(ctx.buf) = Size(ctx) /\ Size(ctx) \in Nat
        BY <2>1 DEF Size, Fields
    <2>3. Closed(ctx, Done(ctx))
        BY <2>1, DoneFacts
    <2>4. ~Done(ctx).error /\ SymBits * (Done(ctx).offs - 1) < Tell(ctx)
        BY <2>2, <2>3 DEF Closed
    <2>5. Tell(Done(ctx)) = Tell(ctx)
        BY <2>3 DEF Closed, Tell
    <2>6. Tell(ctx) \in Nat
        BY <2>1, <2>2, ToldFacts
    <2>7. ASSUME NEW n \in 1 .. Size(ctx), SymBits * n >= Tell(ctx)
          PROVE  ctx.offs + ctx.end_offs <= n
        <3>1. n \in Nat /\ n <= Size(ctx) /\ SymBits * n \in Nat
            BY <2>2, Bits
        <3>2. Tell(ctx) <= SymBits * n
            BY <2>6, <2>7, <3>1
        <3> QED BY <2>1, <3>1, <3>2, ToldFacts
    <2> QED BY <2>2, <2>4, <2>5, <2>7
<1> QED BY <1>1, ReadyInit, ReadyStep, PTL DEF Spec
=============================================================================
