----------------------------- MODULE TurnProofs -----------------------------
(***************************************************************************)
(* Proofs about the TURN server: the pool of relay ports with the threads  *)
(* that use it, and one client's session.                                  *)
(***************************************************************************)
EXTENDS TurnPorts, TurnSession, FiniteSetTheorems, WellFoundedInduction, TLAPS

-----------------------------------------------------------------------------
(***************************************************************************)
(* The pool of relay ports, for any range that fills at most half of the   *)
(* ring, any number of relay threads and any order of their calls, as long *)
(* as the counters have not reached the codes.                             *)
(*                                                                         *)
(* The ring invariant has to account for the stale entries.  A port has at *)
(* most one of them, older than its live one; it is odd; and while its     *)
(* even neighbour is free, that one's entry is younger.  So by the time a  *)
(* pair is taken again, the stale entry of the last time has been passed.  *)
(* Counting live and stale entries apart then bounds the ring.             *)
(***************************************************************************)

Entry(ps, x) == ps[x % PortsSize]

(* The counters, while they are apart from the codes and the ring. *)
Counts(lo, hi) ==
    /\ lo \in Nat /\ hi \in Nat
    /\ lo <= hi /\ hi <= TakenOdd

(* Every entry is a port of the range. *)
Entries(lo, hi, ps) == \A x \in lo..(hi - 1) : Entry(ps, x) \in Relayed

(* Every free port has its live entry: RingSound. *)
Live(st, lo, hi, ps) ==
    \A p \in Relayed : st[p] \notin TakenCodes =>
        st[p] \in lo..(hi - 1) /\ Entry(ps, st[p]) = p

(* Of two entries of a port the younger is the live one. *)
Twice(st, lo, hi, ps) ==
    \A x, y \in lo..(hi - 1) :
        x < y /\ Entry(ps, x) = Entry(ps, y) => st[Entry(ps, y)] = y

(* A stale entry is that of an odd port whose neighbour, once it is free   *)
(* again, has a younger entry.                                             *)
Stale(st, lo, hi, ps) ==
    \A x \in lo..(hi - 1) : \A p \in Relayed :
        Entry(ps, x) = p /\ st[p] # x =>
            /\ p - 1 \in Relayed
            /\ p % 2 = 1
            /\ st[p - 1] \notin TakenCodes => st[p - 1] > x

Typed(st, ps) ==
    /\ st \in [0..(PortsSize - 1) -> 0..(Counters - 1)]
    /\ ps \in [0..(PortsSize - 1) -> 0..(PortsSize - 1)]

Ring(st, lo, hi, ps) ==
    /\ Typed(st, ps)
    /\ Counts(lo, hi)
    /\ Entries(lo, hi, ps)
    /\ Live(st, lo, hi, ps)
    /\ Twice(st, lo, hi, ps)
    /\ Stale(st, lo, hi, ps)

-----------------------------------------------------------------------------
(* Arithmetic *)

LEMMA ModType ==
    ASSUME NEW a \in Int, NEW b \in Nat \ {0}
    PROVE  a % b \in 0..(b - 1)
  OBVIOUS

LEMMA ModSmall ==
    ASSUME NEW b \in Nat \ {0}, NEW a \in 0..(b - 1)
    PROVE  a % b = a
  OBVIOUS

(* Two counters less than a ring apart have different slots. *)
LEMMA ModApart ==
    ASSUME NEW b \in Nat \ {0}, NEW x \in Nat, NEW y \in Nat, x < y, y - x < b
    PROVE  x % b # y % b
<1> SUFFICES ASSUME x % b = y % b PROVE FALSE
  OBVIOUS
<1> DEFINE q == x \div b
           r == y \div b
           m == x % b
<1>1. q \in Int /\ r \in Int /\ m \in 0..(b - 1)
  OBVIOUS
<1>2. x = b * q + m /\ y = b * r + m
  OBVIOUS
<1> HIDE DEF q, r, m
<1>3. CASE r <= q
  <2>1. b * r <= b * q
    BY <1>1, <1>3
  <2> QED BY <1>1, <1>2, <2>1
<1>4. CASE r >= q + 1
  <2>1. b * r >= b * (q + 1)
    BY <1>1, <1>4
  <2>2. b * (q + 1) = b * q + b
    BY <1>1
  <2> QED BY <1>1, <1>2, <2>1, <2>2
<1> QED BY <1>1, <1>3, <1>4

(* The least member of a set of naturals. *)
LEMMA Least ==
    ASSUME NEW T \in SUBSET Nat, T # {}
    PROVE  \E x \in T : \A y \in T : x <= y
<1>1. PICK x \in T : \A y \in T : ~(<<y, x>> \in OpToRel(<, Nat))
  BY WFMin, NatLessThanWellFounded, Zenon
<1>2. \A y \in T : ~(y < x)
  BY <1>1 DEF OpToRel
<1> QED BY <1>2
-----------------------------------------------------------------------------
(* The ring *)

LEMMA Codes == /\ OutOfRange \in Nat /\ TakenSingle \in Nat /\ TakenEven \in Nat /\ TakenOdd \in Nat
               /\ \A c \in TakenCodes : c \in Nat /\ c >= TakenOdd /\ c < Counters
               /\ Relayed \subseteq 0..(PortsSize - 1)
               /\ PortsSize \in Nat \ {0}
               /\ TakenSingle \in TakenCodes /\ TakenEven \in TakenCodes /\ TakenOdd \in TakenCodes
               /\ OutOfRange \notin TakenCodes
  BY TurnPortsAssumption DEF OutOfRange, TakenSingle, TakenEven, TakenOdd, TakenCodes, Relayed

(* RingFits, from the rest: more entries than the ring has slots would be  *)
(* more than one stale and one live entry of each port.                    *)
LEMMA Fits ==
    ASSUME NEW st, NEW lo, NEW hi, NEW ps, Ring(st, lo, hi, ps)
    PROVE  hi - lo < PortsSize
<1> DEFINE S == lo..(hi - 1)
           T == 0..(2 * (RangeStop - RangeStart))
           E(x) == Entry(ps, x)
           f == [x \in S |-> IF st[E(x)] = x THEN 2 * (E(x) - RangeStart)
                                              ELSE 2 * (E(x) - RangeStart) - 1]
<1> SUFFICES ASSUME hi - lo >= PortsSize PROVE FALSE
  BY TurnPortsAssumption DEF Ring, Counts
<1>1. lo \in Nat /\ hi \in Nat /\ PortsSize \in Nat /\ RangeStart \in Nat /\ RangeStop \in Nat
      /\ RangeStart <= RangeStop /\ 2 * (RangeStop - RangeStart + 1) <= PortsSize
  BY TurnPortsAssumption DEF Ring, Counts
<1>2. \A x \in S : E(x) \in RangeStart..RangeStop
  BY DEF Ring, Entries, Relayed
<1>3. \A x \in S : st[E(x)] # x => E(x) - 1 \in RangeStart..RangeStop
  BY <1>2 DEF Ring, Stale, Relayed
<1>4. \A x, y \in S : x < y /\ E(x) = E(y) => st[E(y)] = y
  BY DEF Ring, Twice
<1> HIDE DEF E
<1>5. f \in [S -> T]
  BY <1>1, <1>2, <1>3
<1>6. IsFiniteSet(S) /\ Cardinality(S) = hi - lo
  <2>1. lo \in Int /\ hi - 1 \in Int /\ ~(lo > hi - 1)
    BY <1>1, TurnPortsAssumption
  <2>2. /\ IsFiniteSet(lo..(hi - 1))
        /\ Cardinality(lo..(hi - 1)) = IF lo > hi - 1 THEN 0 ELSE (hi - 1) - lo + 1
    BY <2>1, FS_Interval
  <2> QED BY <1>1, <2>1, <2>2
<1>7. IsFiniteSet(T) /\ Cardinality(T) = 2 * (RangeStop - RangeStart) + 1
  BY <1>1, FS_Interval
<1>8. PICK x, y \in S : x # y /\ f[x] = f[y]
  <2>1. Cardinality(T) < Cardinality(S)
    BY <1>1, <1>6, <1>7
  <2> HIDE DEF S, T, f
  <2> QED BY <1>5, <1>6, <1>7, <2>1, FS_PigeonHole
<1>9. E(x) = E(y) /\ (st[E(x)] = x <=> st[E(y)] = y)
  BY <1>1, <1>2, <1>8
<1> QED BY <1>1, <1>4, <1>8, <1>9

(* Allocating p from its live entry x, with the code c. *)
LEMMA TakeRing ==
    ASSUME NEW st, NEW lo, NEW hi, NEW ps, Ring(st, lo, hi, ps),
           NEW x \in lo..(hi - 1), NEW p \in Relayed, NEW c \in TakenCodes,
           p = Entry(ps, x), st[p] = x,
           \A y \in lo..(x - 1) : Entry(ps, y) \in Relayed /\ st[Entry(ps, y)] # y
    PROVE  Ring([st EXCEPT ![p] = c], x + 1, hi, ps)
<1> DEFINE nt == [st EXCEPT ![p] = c]
<1>1. Typed(nt, ps)
  <2>1. c \in 0..(Counters - 1)
    BY Codes, TurnPortsAssumption
  <2> QED BY <2>1 DEF Ring, Typed
<1>2. \A q \in Relayed : nt[q] = IF q = p THEN c ELSE st[q]
  BY Codes DEF Ring, Typed
<1>3. x + 1 \in Nat /\ lo \in Nat /\ hi \in Nat /\ x + 1 <= hi /\ lo < x + 1
  BY DEF Ring, Counts
<1>4. Counts(x + 1, hi)
  BY <1>3 DEF Ring, Counts
<1>5. Entries(x + 1, hi, ps)
  BY <1>3 DEF Ring, Entries
<1>6. \A y \in (x + 1)..(hi - 1) : Entry(ps, y) # p
  BY <1>3 DEF Ring, Twice
<1> HIDE DEF nt
<1>7. Live(nt, x + 1, hi, ps)
  <2> SUFFICES ASSUME NEW q \in Relayed, nt[q] \notin TakenCodes
               PROVE  nt[q] \in (x + 1)..(hi - 1) /\ Entry(ps, nt[q]) = q
    BY DEF Live
  <2>1. q # p /\ nt[q] = st[q]
    BY <1>2
  <2>2. st[q] \in lo..(hi - 1) /\ Entry(ps, st[q]) = q
    BY <2>1 DEF Ring, Live
  <2>3. st[q] # x /\ st[q] \notin lo..(x - 1)
    BY <2>1, <2>2
  <2> QED BY <1>3, <2>1, <2>2, <2>3
<1>8. Twice(nt, x + 1, hi, ps)
  BY <1>2, <1>3, <1>5, <1>6 DEF Ring, Twice, Entries
<1>9. Stale(nt, x + 1, hi, ps)
  BY <1>2, <1>3, <1>6 DEF Ring, Stale
<1> QED BY <1>1, <1>4, <1>5, <1>7, <1>8, <1>9 DEF Ring, nt

(* Releasing the taken port p. *)
LEMMA PutRing ==
    ASSUME NEW st, NEW lo, NEW hi, NEW ps, Ring(st, lo, hi, ps),
           NEW p \in Relayed, st[p] \in TakenCodes, hi < TakenOdd
    PROVE  Ring([st EXCEPT ![p] = hi], lo, hi + 1, [ps EXCEPT ![hi % PortsSize] = p])
<1> DEFINE nt == [st EXCEPT ![p] = hi]
           ns == [ps EXCEPT ![hi % PortsSize] = p]
<1>1. lo \in Nat /\ hi \in Nat /\ lo <= hi /\ hi - lo < PortsSize /\ PortsSize \in Nat \ {0}
  BY Fits, Codes DEF Ring, Counts
<1>2. hi % PortsSize \in 0..(PortsSize - 1) /\ \A x \in Nat : x % PortsSize \in 0..(PortsSize - 1)
  BY <1>1, ModType
<1>3. Typed(nt, ns)
  <2>1. hi \in 0..(Counters - 1) /\ p \in 0..(PortsSize - 1)
    BY <1>1, Codes, TurnPortsAssumption DEF TakenOdd
  <2> QED BY <1>2, <2>1 DEF Ring, Typed
<1>4. \A q \in Relayed : nt[q] = IF q = p THEN hi ELSE st[q]
  BY Codes DEF Ring, Typed
<1>5. Entry(ns, hi) = p
  BY <1>2 DEF Entry, Ring, Typed
<1>6. \A x \in lo..(hi - 1) : Entry(ns, x) = Entry(ps, x)
  <2> TAKE x \in lo..(hi - 1)
  <2>1. x \in Nat /\ x < hi /\ hi - x < PortsSize
    BY <1>1
  <2>2. x % PortsSize # hi % PortsSize
    BY <1>1, <2>1, ModApart
  <2> QED BY <1>2, <2>1, <2>2 DEF Entry, Ring, Typed
<1> HIDE DEF nt, ns
<1>7. \A x \in lo..hi : x \in Nat /\ (x = hi \/ x \in lo..(hi - 1))
  BY <1>1
<1>8. lo..(hi + 1 - 1) = lo..hi /\ \A c \in TakenCodes : c > hi
  BY <1>1, Codes
<1>9. Counts(lo, hi + 1)
  BY <1>1, Codes DEF Ring, Counts
<1>10. Entries(lo, hi + 1, ns)
  BY <1>1, <1>5, <1>6, <1>7, <1>8 DEF Ring, Entries
<1>11. Live(nt, lo, hi + 1, ns)
  <2> SUFFICES ASSUME NEW q \in Relayed, nt[q] \notin TakenCodes
               PROVE  nt[q] \in lo..hi /\ Entry(ns, nt[q]) = q
    BY <1>1, <1>8 DEF Live
  <2>1. CASE q = p
    BY <1>1, <1>4, <1>5, <2>1
  <2>2. CASE q # p
    <3>1. nt[q] = st[q]
      BY <1>4, <2>2
    <3>2. st[q] \in lo..(hi - 1) /\ Entry(ps, st[q]) = q
      BY <3>1 DEF Ring, Live
    <3> QED BY <1>1, <1>6, <3>1, <3>2
  <2> QED BY <2>1, <2>2
<1>12. Twice(nt, lo, hi + 1, ns)
  <2> SUFFICES ASSUME NEW x \in lo..hi, NEW y \in lo..hi, x < y, Entry(ns, x) = Entry(ns, y)
               PROVE  nt[Entry(ns, y)] = y
    BY <1>1, <1>8 DEF Twice
  <2>1. x \in lo..(hi - 1)
    BY <1>1
  <2>2. CASE y = hi
    BY <1>4, <1>5, <2>2
  <2>3. CASE y \in lo..(hi - 1)
    <3>1. Entry(ps, y) \in Relayed /\ st[Entry(ps, y)] = y
      BY <1>6, <2>1, <2>3 DEF Ring, Twice, Entries
    <3>2. Entry(ps, y) # p
      BY <1>1, <1>8, <2>3, <3>1
    <3> QED BY <1>4, <1>6, <2>3, <3>1, <3>2
  <2> QED BY <1>7, <2>2, <2>3
<1>13. Stale(nt, lo, hi + 1, ns)
  <2> SUFFICES ASSUME NEW x \in lo..hi, NEW q \in Relayed, Entry(ns, x) = q, nt[q] # x
               PROVE  /\ q - 1 \in Relayed
                      /\ q % 2 = 1
                      /\ nt[q - 1] \notin TakenCodes => nt[q - 1] > x
    BY <1>1, <1>8 DEF Stale
  <2>1. x \in lo..(hi - 1)
    BY <1>1, <1>4, <1>5
  <2>2. st[q] # x
    BY <1>1, <1>4, <1>8, <2>1
  <2>3. /\ q - 1 \in Relayed
        /\ q % 2 = 1
        /\ st[q - 1] \notin TakenCodes => st[q - 1] > x
    BY <1>6, <2>1, <2>2 DEF Ring, Stale
  <2> QED BY <1>1, <1>4, <2>1, <2>3
<1> QED BY <1>3, <1>9, <1>10, <1>11, <1>12, <1>13 DEF Ring, nt, ns

(* Passing over entries that are not live. *)
LEMMA ScanRing ==
    ASSUME NEW st, NEW lo, NEW hi, NEW ps, Ring(st, lo, hi, ps),
           NEW l \in lo..hi, \A y \in lo..(l - 1) : st[Entry(ps, y)] # y
    PROVE  Ring(st, l, hi, ps)
<1>1. lo \in Nat /\ hi \in Nat /\ l \in Nat /\ lo <= l /\ l <= hi
  BY DEF Ring, Counts
<1>2. Counts(l, hi) /\ Entries(l, hi, ps)
  BY <1>1 DEF Ring, Counts, Entries
<1>3. Live(st, l, hi, ps)
  <2> SUFFICES ASSUME NEW q \in Relayed, st[q] \notin TakenCodes
               PROVE  st[q] \in l..(hi - 1) /\ Entry(ps, st[q]) = q
    BY DEF Live
  <2>1. st[q] \in lo..(hi - 1) /\ Entry(ps, st[q]) = q
    BY DEF Ring, Live
  <2> QED BY <1>1, <2>1
<1>4. Twice(st, l, hi, ps)
  BY <1>1 DEF Ring, Twice
<1>5. Stale(st, l, hi, ps)
  BY <1>1 DEF Ring, Stale
<1> QED BY <1>2, <1>3, <1>4, <1>5 DEF Ring

(* Taking the odd neighbour of a taken port leaves its entry stale; there  *)
(* must be none of it already.                                             *)
LEMMA NeighbourRing ==
    ASSUME NEW st, NEW lo, NEW hi, NEW ps, Ring(st, lo, hi, ps),
           NEW p \in Relayed, p + 1 \in Relayed, p % 2 = 0,
           st[p] \in TakenCodes,
           \A y \in lo..(hi - 1) : Entry(ps, y) = p + 1 => st[p + 1] = y
    PROVE  Ring([st EXCEPT ![p + 1] = TakenOdd], lo, hi, ps)
<1> DEFINE nt == [st EXCEPT ![p + 1] = TakenOdd]
<1>1. Typed(nt, ps)
  <2>1. TakenOdd \in 0..(Counters - 1)
    BY Codes, TurnPortsAssumption
  <2> QED BY <2>1 DEF Ring, Typed
<1>2. \A q \in Relayed : nt[q] = IF q = p + 1 THEN TakenOdd ELSE st[q]
  BY Codes DEF Ring, Typed
<1>3. lo \in Nat /\ hi \in Nat /\ lo <= hi /\ p \in Nat /\ TakenOdd \in TakenCodes
  BY Codes, TurnPortsAssumption DEF Ring, Counts, Relayed
<1> HIDE DEF nt
<1>4. Live(nt, lo, hi, ps)
  BY <1>2, <1>3 DEF Ring, Live
<1>5. Twice(nt, lo, hi, ps)
  <2> SUFFICES ASSUME NEW x \in lo..(hi - 1), NEW y \in lo..(hi - 1), x < y,
                      Entry(ps, x) = Entry(ps, y)
               PROVE  nt[Entry(ps, y)] = y
    BY DEF Twice
  <2>1. Entry(ps, y) \in Relayed /\ st[Entry(ps, y)] = y
    BY DEF Ring, Twice, Entries
  <2>2. Entry(ps, y) # p + 1
    BY <1>3, <2>1
  <2> QED BY <1>2, <2>1, <2>2
<1>6. Stale(nt, lo, hi, ps)
  <2> SUFFICES ASSUME NEW x \in lo..(hi - 1), NEW q \in Relayed, Entry(ps, x) = q, nt[q] # x
               PROVE  /\ q - 1 \in Relayed
                      /\ q % 2 = 1
                      /\ nt[q - 1] \notin TakenCodes => nt[q - 1] > x
    BY DEF Stale
  <2>1. CASE q = p + 1
    <3>1. q - 1 = p /\ q % 2 = 1
      BY <1>3, <2>1
    <3> QED BY <1>2, <1>3, <3>1
  <2>2. CASE q # p + 1
    <3>1. /\ q - 1 \in Relayed
          /\ q % 2 = 1
          /\ st[q - 1] \notin TakenCodes => st[q - 1] > x
      BY <1>2, <2>2 DEF Ring, Stale
    <3> QED BY <1>2, <1>3, <3>1
  <2> QED BY <2>1, <2>2
<1> QED BY <1>1, <1>4, <1>5, <1>6 DEF Ring, nt

(* Taking a pair. *)
LEMMA PairRing ==
    ASSUME NEW st, NEW lo, NEW hi, NEW ps, Ring(st, lo, hi, ps),
           NEW x \in lo..(hi - 1), NEW p \in Relayed, p + 1 \in Relayed, p % 2 = 0,
           p = Entry(ps, x), st[p] = x,
           \A y \in lo..(x - 1) : Entry(ps, y) \in Relayed /\ st[Entry(ps, y)] # y
    PROVE  Ring([[st EXCEPT ![p] = TakenEven] EXCEPT ![p + 1] = TakenOdd], x + 1, hi, ps)
<1> DEFINE nt == [st EXCEPT ![p] = TakenEven]
<1>1. Ring(nt, x + 1, hi, ps)
  BY TakeRing, Codes
<1>2. p \in Int /\ x \in Nat /\ lo \in Nat /\ hi \in Nat /\ x < hi /\ hi <= TakenOdd
  BY TurnPortsAssumption DEF Ring, Counts, Relayed
<1>3. nt[p] = TakenEven /\ nt[p + 1] = st[p + 1]
  <2>1. p \in 0..(PortsSize - 1) /\ p + 1 \in 0..(PortsSize - 1) /\ p # p + 1
    BY <1>2, Codes
  <2> QED BY <2>1 DEF Ring, Typed
<1>4. \A y \in (x + 1)..(hi - 1) : Entry(ps, y) = p + 1 => st[p + 1] = y
  <2> SUFFICES ASSUME NEW y \in (x + 1)..(hi - 1), Entry(ps, y) = p + 1, st[p + 1] # y
               PROVE  FALSE
    OBVIOUS
  <2>1. y \in lo..(hi - 1) /\ y > x /\ (p + 1) - 1 = p
    BY <1>2
  <2>2. st[p] \notin TakenCodes => st[p] > y
    BY <2>1 DEF Ring, Stale
  <2>3. x \notin TakenCodes
    BY <1>2, Codes
  <2> QED BY <1>2, <2>1, <2>2, <2>3
<1> HIDE DEF nt
<1>5. Ring([nt EXCEPT ![p + 1] = TakenOdd], x + 1, hi, ps)
  BY <1>1, <1>3, <1>4, Codes, NeighbourRing
<1> QED BY <1>5 DEF nt

-----------------------------------------------------------------------------
(* The inductive invariant *)

(* What the stage of a thread says about its pair, and of the mutex. *)
ThreadOK ==
    /\ mutex # "free" => pc[mutex] = "allocate" /\ even[mutex] >= 0
    /\ \A t \in Threads :
          /\ pc[t] \in {"bindrtcp", "undortp", "undortcp", "closertcp"} => even[t] = 1
          /\ pc[t] \in {"bindrtcp", "undortp", "undortcp", "closertcp", "bind"} /\ even[t] = 1
                => port[t] + 1 \in Relayed

RingNow == Ring(status, low, high, ports)

Owners == HeldTaken /\ OneOwner /\ NoLeak

IInv ==
    /\ PortsTypeOK
    /\ ThreadOK
    /\ wrapped \/ RingNow
    /\ Owners

(* What Release does to the types. *)
LEMMA ReleaseType ==
    ASSUME PortsTypeOK, NEW p, NEW st \in [0..(PortsSize - 1) -> 0..(Counters - 1)], Release(p, st)
    PROVE  /\ status' \in [0..(PortsSize - 1) -> 0..(Counters - 1)]
           /\ ports' \in [0..(PortsSize - 1) -> 0..(PortsSize - 1)]
           /\ high' \in 0..(Counters - 1)
           /\ wrapped' \in BOOLEAN
           /\ orphan' \in SUBSET Relayed
<1>1. Counters \in Nat \ {0} /\ PortsSize \in Nat \ {0} /\ Relayed \subseteq 0..(PortsSize - 1)
  BY TurnPortsAssumption, Codes
<1>2. (high + 1) % Counters \in 0..(Counters - 1) /\ high % PortsSize \in 0..(PortsSize - 1)
  <2>1. high \in Int /\ high + 1 \in Int
    BY DEF PortsTypeOK
  <2> QED BY <1>1, <2>1, ModType
<1>3. CASE p \in Relayed /\ st[p] \in TakenCodes
  <2>1. wrapped' \in BOOLEAN
    BY <1>3 DEF Release
  <2>2. /\ status' = [st EXCEPT ![p] = high]
        /\ ports' = [ports EXCEPT ![high % PortsSize] = p]
        /\ high' = (high + 1) % Counters
        /\ orphan' = orphan \ {p}
    BY <1>3 DEF Release
  <2>3. p \in 0..(PortsSize - 1)
    BY <1>1, <1>3
  <2> QED BY <1>2, <2>1, <2>2, <2>3 DEF PortsTypeOK
<1>4. CASE ~(p \in Relayed /\ st[p] \in TakenCodes)
  BY <1>4 DEF Release, PortsTypeOK
<1> QED BY <1>3, <1>4

(* And to the ring: p is free afterwards, and nothing else has changed. *)
LEMMA ReleaseRing ==
    ASSUME PortsTypeOK, NEW p, NEW st, NEW lo, Ring(st, lo, high, ports), Release(p, st), ~wrapped'
    PROVE  /\ ~wrapped
           /\ Ring(status', lo, high', ports')
           /\ p \in Relayed => status'[p] \notin TakenCodes
           /\ \A q \in Relayed : q # p => status'[q] = st[q]
           /\ orphan' \cup {p} = orphan \cup {p}
<1>1. high \in Nat /\ Counters \in Nat \ {0} /\ TakenOdd = Counters - 4
  BY TurnPortsAssumption DEF PortsTypeOK, TakenOdd
<1>2. CASE p \in Relayed /\ st[p] \in TakenCodes
  <2>1. /\ status' = [st EXCEPT ![p] = high]
        /\ ports' = [ports EXCEPT ![high % PortsSize] = p]
        /\ high' = (high + 1) % Counters
        /\ wrapped' = (wrapped \/ high >= TakenOdd)
        /\ orphan' = orphan \ {p}
    BY <1>2 DEF Release
  <2>2. ~wrapped /\ ~(high >= TakenOdd)
    BY <2>1
  <2>3. high + 1 \in 0..(Counters - 1) /\ high < TakenOdd
    BY <1>1, <2>2
  <2>4. high' = high + 1
    BY <1>1, <2>1, <2>3, ModSmall
  <2>5. Ring(status', lo, high', ports')
    <3>1. Ring([st EXCEPT ![p] = high], lo, high + 1, [ports EXCEPT ![high % PortsSize] = p])
      BY <1>2, <2>3, PutRing
    <3> QED BY <2>1, <2>4, <3>1
  <2>6. \A q \in Relayed : status'[q] = IF q = p THEN high ELSE st[q]
    BY <1>2, <2>1, Codes DEF Ring, Typed
  <2>7. high \notin TakenCodes
    BY <1>1, <2>3, Codes
  <2>8. orphan' \cup {p} = orphan \cup {p}
    BY <2>1
  <2> QED BY <1>2, <2>2, <2>5, <2>6, <2>7, <2>8
<1>3. CASE ~(p \in Relayed /\ st[p] \in TakenCodes)
  <2>1. status' = st /\ ports' = ports /\ high' = high /\ wrapped' = wrapped /\ orphan' = orphan
    BY <1>3 DEF Release
  <2> QED BY <1>3, <2>1
<1> QED BY <1>2, <1>3

(* The port Found hands out, and what is passed on the way to it. *)
LEMMA FoundFacts ==
    ASSUME PortsTypeOK, RingNow, NEW x \in low..(high - 1), NEW p \in Relayed, Found(x, p)
    PROVE  /\ p = Entry(ports, x) /\ status[p] = x /\ ~Taken(p)
           /\ \A y \in low..(x - 1) : Entry(ports, y) \in Relayed /\ status[Entry(ports, y)] # y
           /\ (x + 1) % Counters = x + 1
<1>1. low \in Nat /\ high \in Nat /\ high <= TakenOdd /\ x \in Nat /\ x < high
  BY DEF RingNow, Ring, Counts
<1>2. x \notin TakenCodes
  BY <1>1, Codes
<1>3. x + 1 \in 0..(Counters - 1)
  BY <1>1, TurnPortsAssumption DEF TakenOdd
<1>4. (x + 1) % Counters = x + 1
  BY <1>3, ModSmall, TurnPortsAssumption
<1> QED BY <1>2, <1>4 DEF Found, Halts, Entry, Taken

(* Nothing to hand out: every port of the range is taken, and all that is  *)
(* left of the ring is stale.                                              *)
LEMMA ExhaustedFacts ==
    ASSUME PortsTypeOK, RingNow, Exhausted
    PROVE  /\ \A p \in Relayed : Taken(p)
           /\ Scanned = {high}
           /\ \A y \in low..(high - 1) : status[Entry(ports, y)] # y
<1>1. low \in Nat /\ high \in Nat /\ low <= high
  BY DEF RingNow, Ring, Counts
<1> DEFINE T == {x \in low..(high - 1) : Halts(x)}
<1>2. T = {}
  <2> SUFFICES ASSUME T # {} PROVE FALSE
    OBVIOUS
  <2>1. T \in SUBSET Nat
    BY <1>1
  <2>2. PICK x \in T : \A y \in T : x <= y
    BY <2>1, Least
  <2>3. x \in low..(high - 1) /\ Halts(x) /\ \A y \in low..(x - 1) : ~Halts(y)
    BY <1>1, <2>2
  <2>4. Entry(ports, x) \in Relayed
    BY <2>3 DEF RingNow, Ring, Entries
  <2>5. Found(x, Entry(ports, x))
    BY <2>3, <2>4 DEF Found, Halts, Entry
  <2> QED BY <2>3, <2>4, <2>5 DEF Exhausted
<1>3. \A x \in low..(high - 1) : ~Halts(x)
  BY <1>2
<1>4. \A y \in low..(high - 1) : status[Entry(ports, y)] # y
  BY <1>3 DEF Halts, Entry
<1>5. \A p \in Relayed : Taken(p)
  BY <1>4 DEF RingNow, Ring, Live, Taken
<1>6. Scanned = {high}
  <2>1. ASSUME NEW l \in Scanned PROVE l = high
    BY <1>1, <1>3, <2>1 DEF Scanned
  <2>2. high \in Scanned
    BY <1>1, <1>3 DEF Scanned
  <2> QED BY <2>1, <2>2
<1> QED BY <1>4, <1>5, <1>6

-----------------------------------------------------------------------------
(* The steps *)

LEMMA Initially == PortsInit => IInv
<1> SUFFICES ASSUME PortsInit PROVE IInv
  OBVIOUS
<1>0. /\ RangeStart \in Nat /\ RangeStop \in Nat /\ RangeStart <= RangeStop
      /\ RangeStop < PortsSize /\ PortsSize \in Nat /\ PortsSize + 4 < Counters /\ Counters \in Nat
      /\ OutOfRange = Counters - 1 /\ TakenOdd = Counters - 4
  BY TurnPortsAssumption DEF OutOfRange, TakenOdd
<1>1. PICK f, g \in [Relayed -> Relayed] :
          /\ \A p \in Relayed : g[f[p]] = p /\ f[g[p]] = p
          /\ status = [p \in 0..(PortsSize - 1) |-> IF p \in Relayed THEN f[p] ELSE OutOfRange]
          /\ ports = [x \in 0..(PortsSize - 1) |-> IF x \in Relayed THEN g[x] ELSE x]
  BY DEF PortsInit
<1>2. \A p \in Relayed : p \in 0..(PortsSize - 1) /\ p \in 0..(Counters - 1) /\ p < TakenOdd /\ p \in Nat
  <2> TAKE p \in Relayed
  <2>1. p \in Nat /\ p <= RangeStop
    BY <1>0 DEF Relayed
  <2> QED BY <1>0, <2>1
<1>i. low = RangeStart /\ high = RangeStop + 1
  BY DEF PortsInit
<1>3. PortsTypeOK
  <2>1. status \in [0..(PortsSize - 1) -> 0..(Counters - 1)]
    <3>1. OutOfRange \in 0..(Counters - 1) /\ \A p \in Relayed : f[p] \in 0..(Counters - 1)
      BY <1>0, <1>2
    <3> QED BY <1>1, <3>1
  <2>2. ports \in [0..(PortsSize - 1) -> 0..(PortsSize - 1)]
    BY <1>0, <1>1, <1>2
  <2>3. low \in 0..(Counters - 1) /\ high \in 0..(Counters - 1) /\ left \in 0..(PortsSize - 1)
    BY <1>0, <1>i DEF PortsInit
  <2>4. RangeStart \in Relayed
    BY <1>0 DEF Relayed
  <2>5. pc \in [Threads -> Stages] /\ even \in [Threads -> {-1, 0, 1}]
        /\ port \in [Threads -> Relayed] /\ sock \in [Relayed -> {"none", "open", "relay", "rtcp", "closing"}]
    BY <2>4 DEF Stages, PortsInit
  <2>6. mutex \in Threads \cup {"free"} /\ wrapped \in BOOLEAN /\ orphan \in SUBSET Relayed
    BY DEF PortsInit
  <2> QED BY <2>1, <2>2, <2>3, <2>5, <2>6 DEF PortsTypeOK
<1>4. low..(high - 1) = Relayed
  BY <1>0, <1>i DEF Relayed
<1>5. \A x \in Relayed : Entry(ports, x) = g[x]
  <2> TAKE x \in Relayed
  <2>1. x % PortsSize = x
    BY <1>0, <1>2, ModSmall
  <2> QED BY <1>1, <1>2, <2>1 DEF Entry
<1>6. \A p \in Relayed : status[p] = f[p] /\ f[p] \in Relayed /\ f[p] \notin TakenCodes
  <2> TAKE p \in Relayed
  <2>1. f[p] \in Relayed
    OBVIOUS
  <2>2. f[p] \notin TakenCodes
    <3>1. f[p] \in Nat /\ f[p] < TakenOdd
      BY <1>2, <2>1
    <3> QED BY <1>0, <3>1, Codes
  <2> QED BY <1>1, <1>2, <2>1, <2>2
<1>7. RingNow
  <2>1. Typed(status, ports) /\ Counts(low, high)
    BY <1>0, <1>i, <1>3 DEF Typed, Counts, PortsTypeOK
  <2>2. Entries(low, high, ports)
    BY <1>4, <1>5 DEF Entries
  <2>5. Live(status, low, high, ports)
    <3>1. \A p \in Relayed : status[p] \in Relayed /\ Entry(ports, status[p]) = p
      BY <1>1, <1>5, <1>6
    <3> QED BY <1>4, <3>1 DEF Live
  <2>3. \A x \in Relayed : status[Entry(ports, x)] = x
    BY <1>1, <1>5, <1>6
  <2>4. Twice(status, low, high, ports) /\ Stale(status, low, high, ports)
    BY <1>4, <2>3 DEF Twice, Stale
  <2> QED BY <2>1, <2>2, <2>4, <2>5 DEF RingNow, Ring
<1>8. ThreadOK
  BY DEF ThreadOK, PortsInit
<1>9. Owners
  BY <1>6 DEF PortsInit, Owners, HeldTaken, OneOwner, NoLeak, Holds, Bound, Taken
<1> QED BY <1>3, <1>7, <1>8, <1>9 DEF IInv

(* A step that leaves the pool and all hands as they are. *)
LEMMA SameHands ==
    ASSUME Owners, UNCHANGED <<status, history>>,
           \A p \in Relayed : Bound(p)' = Bound(p),
           \A p \in Relayed : \A t \in Threads : Holds(t, p)' = Holds(t, p)
    PROVE  Owners'
  BY DEF Owners, HeldTaken, OneOwner, NoLeak, Taken, history

(* Taking from the pool: nobody had the ports that thread t has now. *)
LEMMA NewHands ==
    ASSUME Owners, NEW t \in Threads, NEW S \in SUBSET Relayed, NEW R \in SUBSET Relayed,
           UNCHANGED <<wrapped, sock>>,
           \A p \in R \cup S : ~Taken(p) /\ Taken(p)',
           \A p \in Relayed \ (R \cup S) : Taken(p)' = Taken(p),
           orphan' = orphan \cup R,
           \A p \in Relayed : Holds(t, p)' <=> p \in S,
           \A p \in Relayed : ~Holds(t, p),
           \A p \in Relayed : \A u \in Threads : u # t => Holds(u, p)' = Holds(u, p)
    PROVE  Owners'
<1>1. CASE wrapped
  BY <1>1 DEF Owners, HeldTaken, OneOwner, NoLeak
<1>2. CASE ~wrapped
  <2>0. \A p \in Relayed : Bound(p)' = Bound(p)
    BY DEF Bound
  <2>1. HeldTaken'
    BY <1>2, <2>0 DEF Owners, HeldTaken
  <2>2. OneOwner'
    BY <1>2, <2>0 DEF Owners, HeldTaken, OneOwner
  <2>3. NoLeak'
    BY <1>2, <2>0 DEF Owners, NoLeak
  <2> QED BY <2>1, <2>2, <2>3 DEF Owners
<1> QED BY <1>1, <1>2

(* Giving back one port, or port PortsSize - 1 out of turn. *)
LEMMA GivenBack ==
    ASSUME Owners, NEW q \in Relayed,
           wrapped => wrapped',
           ~wrapped' => ~Taken(q)',
           ~wrapped' => \A p \in Relayed \ {q} : Taken(p)' = Taken(p),
           ~wrapped' => orphan' \cup {q} = orphan \cup {q},
           \A p \in Relayed \ {q} : Bound(p)' = Bound(p),
           \A p \in Relayed \ {q} : \A t \in Threads : Holds(t, p)' = Holds(t, p),
           \/ q = PortsSize - 1
           \/ ~wrapped' => ~Bound(q)' /\ \A t \in Threads : ~Holds(t, q)'
    PROVE  Owners'
<1>1. CASE wrapped'
  BY <1>1 DEF Owners, HeldTaken, OneOwner, NoLeak
<1>2. CASE ~wrapped'
  <2>1. HeldTaken'
    BY <1>2 DEF Owners, HeldTaken
  <2>2. OneOwner'
    BY <1>2 DEF Owners, OneOwner
  <2>3. NoLeak'
    BY <1>2 DEF Owners, NoLeak
  <2> QED BY <2>1, <2>2, <2>3 DEF Owners
<1> QED BY <1>1, <1>2

(* The types of a step of the pool's counters. *)
LEMMA LowType ==
    ASSUME PortsTypeOK
    PROVE  /\ \A x \in low..(high - 1) : (x + 1) % Counters \in 0..(Counters - 1)
           /\ \A l \in Scanned : l \in 0..(Counters - 1)
           /\ (high - low) % PortsSize \in 0..(PortsSize - 1)
<1>1. low \in Int /\ high \in Int /\ Counters \in Nat \ {0} /\ PortsSize \in Nat \ {0}
      /\ low \in 0..(Counters - 1) /\ high \in 0..(Counters - 1)
  BY TurnPortsAssumption DEF PortsTypeOK
<1>2. (high - low) % PortsSize \in 0..(PortsSize - 1)
  BY <1>1, ModType
<1>3. \A x \in low..(high - 1) : (x + 1) % Counters \in 0..(Counters - 1)
  BY <1>1, ModType
<1>4. \A l \in Scanned : l \in 0..(Counters - 1)
  BY <1>1 DEF Scanned
<1> QED BY <1>2, <1>3, <1>4

LEMMA PortsTypeStep == PortsTypeOK /\ [PortsNext]_portsVars => PortsTypeOK'
<1> SUFFICES ASSUME PortsTypeOK, [PortsNext]_portsVars PROVE PortsTypeOK'
  OBVIOUS
<1>0. TakenSingle \in 0..(Counters - 1) /\ TakenEven \in 0..(Counters - 1) /\ TakenOdd \in 0..(Counters - 1)
  BY TurnPortsAssumption DEF TakenSingle, TakenEven, TakenOdd
<1>1. ASSUME NEW t \in Threads, NEW e \in EvenPorts, RequestPort(t, e) PROVE PortsTypeOK'
  BY <1>1, TurnPortsAssumption DEF RequestPort, PortsTypeOK, pool, history, Stages
<1>2. ASSUME NEW t \in Threads, AllocatePort(t) PROVE PortsTypeOK'
  <2>1. PICK x \in low..(high - 1), p \in Relayed :
          /\ status' = [status EXCEPT ![p] = TakenSingle]
          /\ low' = (x + 1) % Counters
          /\ port' = [port EXCEPT ![t] = p]
    BY <1>2 DEF AllocatePort
  <2>2. low' \in 0..(Counters - 1)
    BY <2>1, LowType
  <2> QED BY <1>0, <1>2, <2>1, <2>2 DEF AllocatePort, PortsTypeOK, history, Stages
<1>3. ASSUME NEW t \in Threads, AllocatePortRefused(t) PROVE PortsTypeOK'
  <2>1. low' \in 0..(Counters - 1)
    BY <1>3, LowType DEF AllocatePortRefused
  <2> QED BY <1>3, <2>1 DEF AllocatePortRefused, PortsTypeOK, history, Stages
<1>4. ASSUME NEW t \in Threads, EvenBegin(t) PROVE PortsTypeOK'
  <2>1. left' \in 0..(PortsSize - 1)
    BY <1>4, LowType DEF EvenBegin
  <2> QED BY <1>4, <2>1 DEF EvenBegin, PortsTypeOK, pool, thread, history
<1>5. ASSUME NEW t \in Threads, EvenTooFew(t) PROVE PortsTypeOK'
  BY <1>5 DEF EvenTooFew, PortsTypeOK, pool, history, Stages
<1>6. ASSUME NEW t \in Threads, EvenSkip(t) PROVE PortsTypeOK'
  <2>1. PICK x \in low..(high - 1), p \in Relayed :
          low' = (x + 1) % Counters /\ Release(p, [status EXCEPT ![p] = TakenSingle])
    BY <1>6 DEF EvenSkip
  <2>2. low' \in 0..(Counters - 1)
    BY <2>1, LowType
  <2>3. [status EXCEPT ![p] = TakenSingle] \in [0..(PortsSize - 1) -> 0..(Counters - 1)]
    BY <1>0 DEF PortsTypeOK
  <2>4. left' \in 0..(PortsSize - 1)
    BY <1>6, TurnPortsAssumption DEF EvenSkip, PortsTypeOK
  <2>5. UNCHANGED <<mutex, pc, even, port, sock>>
    BY <1>6 DEF EvenSkip, thread
  <2>6. /\ status' \in [0..(PortsSize - 1) -> 0..(Counters - 1)]
        /\ ports' \in [0..(PortsSize - 1) -> 0..(PortsSize - 1)]
        /\ high' \in 0..(Counters - 1)
        /\ wrapped' \in BOOLEAN
        /\ orphan' \in SUBSET Relayed
    BY <2>1, <2>3, ReleaseType
  <2> QED BY <2>2, <2>4, <2>5, <2>6 DEF PortsTypeOK
<1>7. ASSUME NEW t \in Threads, EvenSkipNothing(t) PROVE PortsTypeOK'
  <2>1. low' \in 0..(Counters - 1)
    BY <1>7, LowType DEF EvenSkipNothing
  <2>2. left' \in 0..(PortsSize - 1)
    BY <1>7, TurnPortsAssumption DEF EvenSkipNothing, PortsTypeOK
  <2>3. UNCHANGED <<mutex, pc, even, port, sock>> /\ Release(PortsSize - 1, status)
    BY <1>7 DEF EvenSkipNothing, thread
  <2>4. /\ status' \in [0..(PortsSize - 1) -> 0..(Counters - 1)]
        /\ ports' \in [0..(PortsSize - 1) -> 0..(PortsSize - 1)]
        /\ high' \in 0..(Counters - 1)
        /\ wrapped' \in BOOLEAN
        /\ orphan' \in SUBSET Relayed
    BY <2>3, ReleaseType DEF PortsTypeOK
  <2> QED BY <2>1, <2>2, <2>3, <2>4 DEF PortsTypeOK
<1>8. ASSUME NEW t \in Threads, EvenFound(t) PROVE PortsTypeOK'
  <2>1. PICK x \in low..(high - 1), p \in Relayed :
          /\ Suitable(p)
          /\ low' = (x + 1) % Counters
          /\ status' = [status EXCEPT ![p] = TakenEven, ![p + 1] = TakenOdd]
          /\ port' = [port EXCEPT ![t] = p]
          /\ orphan' = IF even[t] = 0 THEN orphan \cup {p + 1} ELSE orphan
    BY <1>8 DEF EvenFound
  <2>2. low' \in 0..(Counters - 1)
    BY <2>1, LowType
  <2>3. p + 1 \in Relayed
    BY <2>1, TurnPortsAssumption DEF Suitable, Relayed
  <2>4. orphan' \in SUBSET Relayed
    BY <2>1, <2>3 DEF PortsTypeOK
  <2>5. status' \in [0..(PortsSize - 1) -> 0..(Counters - 1)]
    BY <1>0, <2>1 DEF PortsTypeOK
  <2>6. left' \in 0..(PortsSize - 1) /\ mutex' = "free"
    BY <1>8, TurnPortsAssumption DEF EvenFound
  <2>7. port' \in [Threads -> Relayed] /\ pc' \in [Threads -> Stages]
    BY <1>8, <2>1 DEF EvenFound, PortsTypeOK, Stages
  <2>8. UNCHANGED <<high, ports, even, sock, wrapped>>
    BY <1>8 DEF EvenFound
  <2> QED BY <2>2, <2>4, <2>5, <2>6, <2>7, <2>8 DEF PortsTypeOK
<1>9. ASSUME NEW t \in Threads, EvenRefused(t) PROVE PortsTypeOK'
  BY <1>9 DEF EvenRefused, PortsTypeOK, pool, history, Stages
<1>10. ASSUME NEW t \in Threads,
              \/ BindRtcp(t) \/ BindRtcpFails(t) \/ Bind(t) \/ BindFails(t) \/ Retry(t)
       PROVE  PortsTypeOK'
  <2>1. /\ UNCHANGED <<status, low, high, ports, mutex, left, even, port, wrapped, orphan>>
        /\ pc' \in [Threads -> Stages]
    BY <1>10 DEF BindRtcp, BindRtcpFails, Bind, BindFails, Retry, pool, history, Stages, PortsTypeOK
  <2>2. sock' \in [Relayed -> {"none", "open", "relay", "rtcp", "closing"}]
    BY <1>10 DEF BindRtcp, BindRtcpFails, Bind, BindFails, Retry, PortsTypeOK
  <2> QED BY <2>1, <2>2 DEF PortsTypeOK
<1>11. ASSUME NEW t \in Threads, UndoRtp(t) \/ UndoRtcp(t) \/ CloseRtcp(t) \/ UndoLast(t)
       PROVE  PortsTypeOK'
  <2>1. PICK p \in {port[t], port[t] + 1} : Release(p, status)
    BY <1>11 DEF UndoRtp, UndoRtcp, CloseRtcp, UndoLast
  <2>2. /\ status' \in [0..(PortsSize - 1) -> 0..(Counters - 1)]
        /\ ports' \in [0..(PortsSize - 1) -> 0..(PortsSize - 1)]
        /\ high' \in 0..(Counters - 1)
        /\ wrapped' \in BOOLEAN
        /\ orphan' \in SUBSET Relayed
    BY <2>1, ReleaseType DEF PortsTypeOK
  <2>3. UNCHANGED <<low, mutex, left, even, port>>
    BY <1>11 DEF UndoRtp, UndoRtcp, CloseRtcp, UndoLast
  <2>4. /\ pc' \in [Threads -> Stages]
        /\ sock' \in [Relayed -> {"none", "open", "relay", "rtcp", "closing"}]
    BY <1>11 DEF UndoRtp, UndoRtcp, CloseRtcp, UndoLast, PortsTypeOK, Stages
  <2> QED BY <2>2, <2>3, <2>4 DEF PortsTypeOK
<1>12. ASSUME NEW p \in Relayed, Close(p) \/ ReservationTimeout(p) PROVE PortsTypeOK'
  <2>1. Release(p, status) /\ UNCHANGED <<low, mutex, left, pc, even, port>>
        /\ sock' = [sock EXCEPT ![p] = "closing"]
    BY <1>12 DEF Close, ReservationTimeout, CloseSocket, thread
  <2>2. /\ status' \in [0..(PortsSize - 1) -> 0..(Counters - 1)]
        /\ ports' \in [0..(PortsSize - 1) -> 0..(PortsSize - 1)]
        /\ high' \in 0..(Counters - 1)
        /\ wrapped' \in BOOLEAN
        /\ orphan' \in SUBSET Relayed
    BY <2>1, ReleaseType DEF PortsTypeOK
  <2> QED BY <2>1, <2>2 DEF PortsTypeOK
<1>13. ASSUME NEW p \in Relayed, CloseFd(p) \/ ClaimReserved(p) PROVE PortsTypeOK'
  BY <1>13 DEF CloseFd, ClaimReserved, PortsTypeOK, pool, thread, history
<1>14. CASE UNCHANGED portsVars
  BY <1>14 DEF portsVars, pool, thread, history, PortsTypeOK
<1> QED BY <1>1, <1>2, <1>3, <1>4, <1>5, <1>6, <1>7, <1>8, <1>9, <1>10, <1>11, <1>12, <1>13, <1>14
        DEF PortsNext

LEMMA ThreadStep == PortsTypeOK /\ ThreadOK /\ [PortsNext]_portsVars => ThreadOK'
<1> SUFFICES ASSUME PortsTypeOK, ThreadOK, [PortsNext]_portsVars PROVE ThreadOK'
  OBVIOUS
<1> USE DEF PortsTypeOK, ThreadOK
<1>1. ASSUME NEW t \in Threads, NEW e \in EvenPorts, RequestPort(t, e) PROVE ThreadOK'
  BY <1>1 DEF RequestPort
<1>2. ASSUME NEW t \in Threads, AllocatePort(t) PROVE ThreadOK'
  <2>1. /\ pc[t] = "allocate" /\ even[t] = -1 /\ mutex = "free"
        /\ pc' = [pc EXCEPT ![t] = "bind"]
        /\ UNCHANGED <<mutex, even>>
        /\ \E p \in Relayed : port' = [port EXCEPT ![t] = p]
    BY <1>2 DEF AllocatePort
  <2> QED BY <2>1
<1>3. ASSUME NEW t \in Threads, AllocatePortRefused(t) \/ EvenTooFew(t) \/ EvenRefused(t) PROVE ThreadOK'
  <2>1. /\ pc' = [pc EXCEPT ![t] = "idle"] /\ UNCHANGED <<even, port>>
        /\ mutex' = "free"
    BY <1>3 DEF AllocatePortRefused, EvenTooFew, EvenRefused
  <2> QED BY <2>1
<1>4. ASSUME NEW t \in Threads, EvenBegin(t) PROVE ThreadOK'
  BY <1>4 DEF EvenBegin, thread
<1>5. ASSUME NEW t \in Threads, EvenSkip(t) \/ EvenSkipNothing(t) PROVE ThreadOK'
  <2>1. UNCHANGED <<mutex, pc, even, port>>
    BY <1>5 DEF EvenSkip, EvenSkipNothing, thread
  <2> QED BY <2>1
<1>6. ASSUME NEW t \in Threads, EvenFound(t) PROVE ThreadOK'
  <2>1. PICK p \in Relayed : Suitable(p) /\ port' = [port EXCEPT ![t] = p]
    BY <1>6 DEF EvenFound
  <2>2. p + 1 \in Relayed
    BY <2>1, TurnPortsAssumption DEF Suitable, Relayed
  <2>3. /\ pc' = [pc EXCEPT ![t] = IF even[t] = 1 THEN "bindrtcp" ELSE "bind"]
        /\ mutex' = "free" /\ even' = even
    BY <1>6 DEF EvenFound
  <2> QED BY <2>1, <2>2, <2>3
<1>7. ASSUME NEW t \in Threads,
             \/ BindRtcp(t) \/ BindRtcpFails(t) \/ Bind(t) \/ BindFails(t) \/ Retry(t)
             \/ UndoRtp(t) \/ UndoRtcp(t) \/ CloseRtcp(t) \/ UndoLast(t)
      PROVE  ThreadOK'
  BY <1>7, TurnPortsAssumption DEF BindRtcp, BindRtcpFails, Bind, BindFails, Retry,
                                   UndoRtp, UndoRtcp, CloseRtcp, UndoLast
<1>8. ASSUME NEW p \in Relayed, Close(p) \/ ReservationTimeout(p) \/ CloseFd(p) \/ ClaimReserved(p) PROVE ThreadOK'
  BY <1>8 DEF Close, ReservationTimeout, CloseSocket, CloseFd, ClaimReserved, thread
<1>9. CASE UNCHANGED portsVars
  BY <1>9 DEF portsVars, thread
<1> QED BY <1>1, <1>2, <1>3, <1>4, <1>5, <1>6, <1>7, <1>8, <1>9 DEF PortsNext

(* The odd ports EvenFound leaves stale are stale for one round only. *)
LEMMA RingStep ==
    ASSUME PortsTypeOK, RingNow, ~wrapped', [PortsNext]_portsVars
    PROVE  RingNow'
<1>1. ASSUME NEW t \in Threads, AllocatePort(t) PROVE RingNow'
  <2>1. PICK x \in low..(high - 1), p \in Relayed :
          /\ Found(x, p)
          /\ status' = [status EXCEPT ![p] = TakenSingle]
          /\ low' = (x + 1) % Counters
    BY <1>1 DEF AllocatePort
  <2>2. high' = high /\ ports' = ports /\ low' = x + 1
    BY <1>1, <2>1, FoundFacts DEF AllocatePort
  <2>3. Ring([status EXCEPT ![p] = TakenSingle], x + 1, high, ports)
    BY <2>1, FoundFacts, TakeRing, Codes DEF RingNow
  <2> QED BY <2>1, <2>2, <2>3 DEF RingNow
<1>2. ASSUME NEW t \in Threads, AllocatePortRefused(t) PROVE RingNow'
  <2>1. low' = high /\ UNCHANGED <<status, high, ports>>
    BY <1>2, ExhaustedFacts DEF AllocatePortRefused
  <2>2. high \in low..high
    BY DEF RingNow, Ring, Counts
  <2>3. \A y \in low..(high - 1) : status[Entry(ports, y)] # y
    BY <1>2, ExhaustedFacts DEF AllocatePortRefused
  <2>4. Ring(status, high, high, ports)
    BY <2>2, <2>3, ScanRing DEF RingNow
  <2> QED BY <2>1, <2>4 DEF RingNow
<1>3. ASSUME NEW t \in Threads, EvenSkip(t) PROVE RingNow'
  <2>1. PICK x \in low..(high - 1), p \in Relayed :
          /\ Found(x, p)
          /\ low' = (x + 1) % Counters
          /\ Release(p, [status EXCEPT ![p] = TakenSingle])
    BY <1>3 DEF EvenSkip
  <2>2. low' = x + 1
    BY <2>1, FoundFacts
  <2>3. Ring([status EXCEPT ![p] = TakenSingle], x + 1, high, ports)
    BY <2>1, FoundFacts, TakeRing, Codes DEF RingNow
  <2>4. Ring(status', x + 1, high', ports')
    BY <2>1, <2>3, ReleaseRing
  <2> QED BY <2>2, <2>4 DEF RingNow
<1>4. ASSUME NEW t \in Threads, EvenSkipNothing(t) PROVE RingNow'
  <2>1. low' = high /\ Release(PortsSize - 1, status)
    BY <1>4, ExhaustedFacts DEF EvenSkipNothing
  <2>2. high \in low..high
    BY DEF RingNow, Ring, Counts
  <2>3. \A y \in low..(high - 1) : status[Entry(ports, y)] # y
    BY <1>4, ExhaustedFacts DEF EvenSkipNothing
  <2>4. Ring(status, high, high, ports)
    BY <2>2, <2>3, ScanRing DEF RingNow
  <2>5. Ring(status', high, high', ports')
    BY <2>1, <2>4, ReleaseRing
  <2> QED BY <2>1, <2>5 DEF RingNow
<1>5. ASSUME NEW t \in Threads, EvenFound(t) PROVE RingNow'
  <2>1. PICK x \in low..(high - 1), p \in Relayed :
          /\ Found(x, p)
          /\ Suitable(p)
          /\ low' = (x + 1) % Counters
          /\ status' = [status EXCEPT ![p] = TakenEven, ![p + 1] = TakenOdd]
    BY <1>5 DEF EvenFound
  <2>2. high' = high /\ ports' = ports /\ low' = x + 1
    BY <1>5, <2>1, FoundFacts DEF EvenFound
  <2>3. p + 1 \in Relayed /\ p % 2 = 0
    BY <2>1, TurnPortsAssumption DEF Suitable, Relayed
  <2>4. /\ p = Entry(ports, x) /\ status[p] = x
        /\ \A y \in low..(x - 1) : Entry(ports, y) \in Relayed /\ status[Entry(ports, y)] # y
    BY <2>1, FoundFacts
  <2>5. Ring([[status EXCEPT ![p] = TakenEven] EXCEPT ![p + 1] = TakenOdd], x + 1, high, ports)
    BY <2>3, <2>4, PairRing DEF RingNow
  <2> QED BY <2>1, <2>2, <2>5 DEF RingNow
<1>6. ASSUME NEW p, Release(p, status), low' = low PROVE RingNow'
  BY <1>6, ReleaseRing DEF RingNow
<1>7. CASE UNCHANGED pool
  BY <1>7 DEF RingNow, pool
<1>8. ASSUME NEW t \in Threads, UndoRtp(t) \/ UndoRtcp(t) \/ CloseRtcp(t) \/ UndoLast(t) PROVE RingNow'
  BY <1>6, <1>8 DEF UndoRtp, UndoRtcp, CloseRtcp, UndoLast
<1>9. ASSUME NEW p \in Relayed, Close(p) \/ ReservationTimeout(p) PROVE RingNow'
  BY <1>6, <1>9 DEF Close, ReservationTimeout, CloseSocket
<1>10. ASSUME NEW t \in Threads,
              \/ \E e \in EvenPorts : RequestPort(t, e)
              \/ EvenBegin(t) \/ EvenTooFew(t) \/ EvenRefused(t)
              \/ BindRtcp(t) \/ BindRtcpFails(t) \/ Bind(t) \/ BindFails(t) \/ Retry(t)
       PROVE  RingNow'
  BY <1>7, <1>10 DEF RequestPort, EvenBegin, EvenTooFew, EvenRefused, BindRtcp, BindRtcpFails, Bind,
                     BindFails, Retry
<1>11. ASSUME NEW p \in Relayed, CloseFd(p) \/ ClaimReserved(p) PROVE RingNow'
  BY <1>7, <1>11 DEF CloseFd, ClaimReserved
<1>12. CASE UNCHANGED portsVars
  BY <1>7, <1>12 DEF portsVars
<1> QED BY <1>1, <1>2, <1>3, <1>4, <1>5, <1>8, <1>9, <1>10, <1>11, <1>12 DEF PortsNext

(* Hands of a step that moves only thread t, whose port and even_port stay *)
(* and which gives back q.                                                 *)
LEMMA GivesBack ==
    ASSUME PortsTypeOK, ThreadOK, RingNow, Owners, ~wrapped', NEW t \in Threads, NEW q \in Relayed,
           Release(q, status),
           Holds(t, q), ~Holds(t, q)', ~Bound(q)' \/ UNCHANGED sock,
           \A p \in Relayed \ {q} : Bound(p)' = Bound(p),
           \A p \in Relayed \ {q} : Holds(t, p)' = Holds(t, p),
           \A p \in Relayed : \A u \in Threads : u # t => Holds(u, p)' = Holds(u, p)
    PROVE  Owners'
<1>1. /\ ~wrapped
      /\ status'[q] \notin TakenCodes
      /\ \A p \in Relayed : p # q => status'[p] = status[p]
      /\ orphan' \cup {q} = orphan \cup {q}
  BY ReleaseRing DEF RingNow
<1>2. ~Taken(q)' /\ \A p \in Relayed \ {q} : Taken(p)' = Taken(p)
  BY <1>1 DEF Taken
<1>3. UNCHANGED sock => Bound(q)' = Bound(q)
  BY DEF Bound
<1>4. q = PortsSize - 1 \/ (~Bound(q)' /\ \A u \in Threads : ~Holds(u, q)')
  BY <1>1, <1>3 DEF Owners, OneOwner
<1> QED BY <1>1, <1>2, <1>4, GivenBack

LEMMA OwnersStep ==
    ASSUME PortsTypeOK, ThreadOK, RingNow, Owners, ~wrapped, ~wrapped', [PortsNext]_portsVars
    PROVE  Owners'
<1>0. ASSUME UNCHANGED <<status, history, pc, even, port>>,
             \A p \in Relayed : Bound(p)' = Bound(p)
      PROVE  Owners'
  BY <1>0, SameHands DEF Holds
<1>1. ASSUME NEW t \in Threads, NEW e \in EvenPorts, RequestPort(t, e) PROVE Owners'
  <2>1. UNCHANGED <<status, history, sock, port>> /\ pc[t] = "idle"
        /\ pc' = [pc EXCEPT ![t] = "allocate"] /\ even' = [even EXCEPT ![t] = e]
    BY <1>1 DEF RequestPort, pool
  <2>2. \A p \in Relayed : \A u \in Threads : Holds(u, p)' = Holds(u, p)
    BY <2>1 DEF Holds, PortsTypeOK
  <2>3. \A p \in Relayed : Bound(p)' = Bound(p)
    BY <2>1 DEF Bound
  <2> QED BY <2>1, <2>2, <2>3, SameHands
<1>2. ASSUME NEW t \in Threads, AllocatePort(t) PROVE Owners'
  <2>1. PICK x \in low..(high - 1), p \in Relayed :
          /\ Found(x, p)
          /\ status' = [status EXCEPT ![p] = TakenSingle]
          /\ port' = [port EXCEPT ![t] = p]
    BY <1>2 DEF AllocatePort
  <2>2. ~Taken(p)
    BY <2>1, FoundFacts
  <2>3. \A q \in Relayed : status'[q] = IF q = p THEN TakenSingle ELSE status[q]
    BY <2>1, Codes DEF PortsTypeOK
  <2>4. Taken(p)' /\ \A q \in Relayed \ {p} : Taken(q)' = Taken(q)
    BY <2>3, Codes DEF Taken
  <2>5. /\ pc[t] = "allocate" /\ even[t] = -1 /\ pc' = [pc EXCEPT ![t] = "bind"]
        /\ UNCHANGED <<even, sock, wrapped, orphan>>
    BY <1>2 DEF AllocatePort, history
  <2>6. \A q \in Relayed : ~Holds(t, q) /\ (Holds(t, q)' <=> q = p)
    BY <2>1, <2>5 DEF Holds, PortsTypeOK
  <2>7. \A q \in Relayed : \A u \in Threads : u # t => Holds(u, q)' = Holds(u, q)
    BY <2>1, <2>5 DEF Holds, PortsTypeOK
  <2> DEFINE S == {p}
             R == {}
  <2>8. S \in SUBSET Relayed /\ R \in SUBSET Relayed /\ orphan' = orphan \cup R
        /\ (\A q \in R \cup S : ~Taken(q) /\ Taken(q)')
        /\ (\A q \in Relayed \ (R \cup S) : Taken(q)' = Taken(q))
        /\ (\A q \in Relayed : Holds(t, q)' <=> q \in S)
    BY <2>2, <2>4, <2>5, <2>6
  <2> HIDE DEF S, R
  <2> QED BY <2>5, <2>6, <2>7, <2>8, NewHands
<1>3. ASSUME NEW t \in Threads,
             \/ AllocatePortRefused(t) \/ EvenTooFew(t) \/ EvenRefused(t)
             \/ BindRtcpFails(t) \/ BindFails(t) \/ Retry(t)
      PROVE  Owners'
  <2>1. UNCHANGED <<status, history, sock, even, port>>
    BY <1>3 DEF AllocatePortRefused, EvenTooFew, EvenRefused, BindRtcpFails, BindFails, Retry, pool
  <2>2. \A p \in Relayed : \A u \in Threads : Holds(u, p)' = Holds(u, p)
    <3> SUFFICES ASSUME NEW p \in Relayed, NEW u \in Threads PROVE Holds(u, p)' = Holds(u, p)
      OBVIOUS
    <3>1. CASE u # t
      <4>1. pc'[u] = pc[u]
        BY <1>3, <3>1 DEF AllocatePortRefused, EvenTooFew, EvenRefused, BindRtcpFails, BindFails, Retry, PortsTypeOK
      <4> QED BY <2>1, <4>1 DEF Holds
    <3>2. CASE u = t
      <4>1. CASE pc[t] \in {"allocate", "retry"}
        <5>1. pc'[t] \in {"allocate", "idle"}
          BY <1>3, <4>1 DEF AllocatePortRefused, EvenTooFew, EvenRefused, BindRtcpFails, BindFails, Retry, PortsTypeOK, ThreadOK
        <5> QED BY <2>1, <3>2, <4>1, <5>1 DEF Holds
      <4>2. CASE pc[t] \notin {"allocate", "retry"}
        <5>1. BindRtcpFails(t) \/ BindFails(t)
          BY <1>3, <4>2, TurnPortsAssumption
             DEF AllocatePortRefused, EvenTooFew, EvenRefused, Retry, ThreadOK, PortsTypeOK
        <5> QED BY <2>1, <3>2, <5>1 DEF BindRtcpFails, BindFails, Holds, PortsTypeOK
      <4> QED BY <4>1, <4>2
    <3> QED BY <3>1, <3>2
  <2>3. \A p \in Relayed : Bound(p)' = Bound(p)
    BY <2>1 DEF Bound
  <2> QED BY <2>1, <2>2, <2>3, SameHands
<1>4. ASSUME NEW t \in Threads, EvenBegin(t) PROVE Owners'
  BY <1>0, <1>4 DEF EvenBegin, pool, thread, Bound
<1>5. ASSUME NEW t \in Threads, EvenSkip(t) PROVE Owners'
  <2>1. PICK x \in low..(high - 1), p \in Relayed :
          Found(x, p) /\ Release(p, [status EXCEPT ![p] = TakenSingle])
    BY <1>5 DEF EvenSkip
  <2>2. Ring([status EXCEPT ![p] = TakenSingle], x + 1, high, ports)
    BY <2>1, FoundFacts, TakeRing, Codes DEF RingNow
  <2>3. /\ status'[p] \notin TakenCodes
        /\ \A q \in Relayed : q # p => status'[q] = [status EXCEPT ![p] = TakenSingle][q]
        /\ orphan' \cup {p} = orphan \cup {p}
    BY <2>1, <2>2, ReleaseRing
  <2>4. ~Taken(p) /\ ~Taken(p)'
    BY <2>1, <2>3, FoundFacts DEF Taken
  <2>5. \A q \in Relayed \ {p} : Taken(q)' = Taken(q)
    BY <2>3, Codes DEF Taken, PortsTypeOK
  <2>6. UNCHANGED <<pc, even, port, sock>>
    BY <1>5 DEF EvenSkip, thread
  <2>7. \A q \in Relayed : Bound(q)' = Bound(q) /\ \A u \in Threads : Holds(u, q)' = Holds(u, q)
    BY <2>6 DEF Bound, Holds
  <2>8. p = PortsSize - 1 \/ (~Bound(p) /\ \A u \in Threads : ~Holds(u, p))
    BY <2>4 DEF Owners, HeldTaken
  <2> QED BY <2>3, <2>4, <2>5, <2>7, <2>8, GivenBack
<1>6. ASSUME NEW t \in Threads, EvenSkipNothing(t) PROVE Owners'
  <2>1. UNCHANGED <<pc, even, port, sock>> /\ Release(PortsSize - 1, status)
    BY <1>6 DEF EvenSkipNothing, thread
  <2>2. \A q \in Relayed : Bound(q)' = Bound(q) /\ \A u \in Threads : Holds(u, q)' = Holds(u, q)
    BY <2>1 DEF Bound, Holds
  <2>3. CASE PortsSize - 1 \in Relayed
    <3> DEFINE p == PortsSize - 1
    <3>1. /\ status'[p] \notin TakenCodes
          /\ \A q \in Relayed : q # p => status'[q] = status[q]
          /\ orphan' \cup {p} = orphan \cup {p}
      BY <2>1, <2>3, ReleaseRing DEF RingNow
    <3>2. ~Taken(p)' /\ \A q \in Relayed \ {p} : Taken(q)' = Taken(q)
      BY <3>1 DEF Taken
    <3> QED BY <2>2, <2>3, <3>1, <3>2, GivenBack
  <2>4. CASE PortsSize - 1 \notin Relayed
    <3>1. UNCHANGED <<status, wrapped, orphan>>
      BY <2>1, <2>4 DEF Release
    <3> QED BY <2>2, <3>1, SameHands DEF history
  <2> QED BY <2>3, <2>4
<1>7. ASSUME NEW t \in Threads, EvenFound(t) PROVE Owners'
  <2>1. PICK x \in low..(high - 1), p \in Relayed :
          /\ Found(x, p)
          /\ Suitable(p)
          /\ status' = [status EXCEPT ![p] = TakenEven, ![p + 1] = TakenOdd]
          /\ port' = [port EXCEPT ![t] = p]
          /\ orphan' = IF even[t] = 0 THEN orphan \cup {p + 1} ELSE orphan
    BY <1>7 DEF EvenFound
  <2>2. p + 1 \in Relayed /\ p # p + 1 /\ p \in Int
    BY <2>1, TurnPortsAssumption DEF Suitable, Relayed
  <2>3. ~Taken(p) /\ ~Taken(p + 1)
    BY <2>1, FoundFacts DEF Suitable, Available
  <2>4. \A q \in Relayed : status'[q] = IF q = p + 1 THEN TakenOdd ELSE IF q = p THEN TakenEven ELSE status[q]
    BY <2>1, <2>2, Codes DEF PortsTypeOK
  <2>5. Taken(p)' /\ Taken(p + 1)' /\ \A q \in Relayed \ {p, p + 1} : Taken(q)' = Taken(q)
    BY <2>2, <2>4, Codes DEF Taken
  <2>6. /\ pc[t] = "allocate" /\ even[t] \in {0, 1}
        /\ pc' = [pc EXCEPT ![t] = IF even[t] = 1 THEN "bindrtcp" ELSE "bind"]
        /\ UNCHANGED <<even, sock, wrapped>>
    BY <1>7, TurnPortsAssumption DEF EvenFound, ThreadOK, PortsTypeOK
  <2> DEFINE S == IF even[t] = 1 THEN {p, p + 1} ELSE {p}
             R == IF even[t] = 1 THEN {} ELSE {p + 1}
  <2>7. S \in SUBSET Relayed /\ R \in SUBSET Relayed /\ orphan' = orphan \cup R /\ R \cup S = {p, p + 1}
    BY <2>1, <2>2, <2>6
  <2>8. \A q \in Relayed : (Holds(t, q)' <=> q \in S) /\ ~Holds(t, q)
    BY <2>1, <2>2, <2>6 DEF Holds, PortsTypeOK
  <2>9. \A q \in Relayed : \A u \in Threads : u # t => Holds(u, q)' = Holds(u, q)
    BY <2>1, <2>6 DEF Holds, PortsTypeOK
  <2>10. /\ \A q \in R \cup S : ~Taken(q) /\ Taken(q)'
         /\ \A q \in Relayed \ (R \cup S) : Taken(q)' = Taken(q)
    BY <2>3, <2>5, <2>7
  <2> HIDE DEF S, R
  <2> QED BY <2>6, <2>7, <2>8, <2>9, <2>10, NewHands
<1>8. ASSUME NEW t \in Threads, BindRtcp(t) PROVE Owners'
  <2>1. /\ UNCHANGED <<status, history, even, port>> /\ pc[t] = "bindrtcp" /\ even[t] = 1
        /\ pc' = [pc EXCEPT ![t] = "bind"]
        /\ sock[port[t] + 1] = "none"
        /\ sock' = [sock EXCEPT ![port[t] + 1] = "open"]
    BY <1>8 DEF BindRtcp, pool, ThreadOK
  <2>2. \A p \in Relayed : \A u \in Threads : Holds(u, p)' = Holds(u, p)
    BY <2>1 DEF Holds, PortsTypeOK
  <2>3. \A p \in Relayed : Bound(p)' = Bound(p)
    BY <2>1 DEF Bound, PortsTypeOK
  <2> QED BY <2>1, <2>2, <2>3, SameHands
<1>9. ASSUME NEW t \in Threads, Bind(t) PROVE Owners'
  <2>1. /\ UNCHANGED <<status, wrapped, orphan, even, port>> /\ pc[t] = "bind"
        /\ pc' = [pc EXCEPT ![t] = "idle"]
        /\ sock' = [p \in Relayed |->
                      CASE p = port[t] -> "relay"
                        [] p = port[t] + 1 /\ even[t] = 1 -> "rtcp"
                        [] OTHER -> sock[p]]
    BY <1>9 DEF Bind, pool, history
  <2>2. \A p \in Relayed : ~Holds(t, p)'
    BY <2>1 DEF Holds, PortsTypeOK
  <2>3. \A p \in Relayed : \A u \in Threads : u # t => Holds(u, p)' = Holds(u, p)
    BY <2>1 DEF Holds, PortsTypeOK
  <2>4. \A p \in Relayed : Holds(t, p) <=> p = port[t] \/ (p = port[t] + 1 /\ even[t] = 1)
    BY <2>1 DEF Holds
  <2>5. \A p \in Relayed : Bound(p)' <=> Bound(p) \/ Holds(t, p)
    <3> TAKE p \in Relayed
    <3>1. port[t] # port[t] + 1
      BY TurnPortsAssumption DEF PortsTypeOK, Relayed
    <3>2. sock'[p] = IF p = port[t] THEN "relay"
                     ELSE IF p = port[t] + 1 /\ even[t] = 1 THEN "rtcp" ELSE sock[p]
      BY <2>1, <3>1
    <3> QED BY <2>4, <3>2 DEF Bound
  <2>6. \A p \in Relayed : Taken(p)' = Taken(p)
    BY <2>1 DEF Taken
  <2>7. HeldTaken'
    BY <2>2, <2>3, <2>5, <2>6 DEF Owners, HeldTaken
  <2>8. OneOwner'
    BY <2>2, <2>3, <2>5 DEF Owners, OneOwner
  <2>9. NoLeak'
    BY <2>1, <2>3, <2>5, <2>6 DEF Owners, NoLeak
  <2> QED BY <2>7, <2>8, <2>9 DEF Owners
<1>10. ASSUME NEW t \in Threads, UndoRtp(t) \/ UndoLast(t) PROVE Owners'
  <2>0. PICK q \in Relayed : q = port[t]
    BY DEF PortsTypeOK
  <2>1. /\ Release(q, status) /\ UNCHANGED <<even, port, sock>>
        /\ \/ pc[t] = "undortp" /\ pc' = [pc EXCEPT ![t] = "undortcp"]
           \/ pc[t] = "undolast" /\ pc' = [pc EXCEPT ![t] = "retry"]
    BY <1>10, <2>0 DEF UndoRtp, UndoLast, PortsTypeOK
  <2>2. q # q + 1
    BY <2>0, <2>1, TurnPortsAssumption DEF Relayed
  <2>3. Holds(t, q) /\ ~Holds(t, q)'
    BY <2>0, <2>1, <2>2 DEF Holds, PortsTypeOK
  <2>4. \A p \in Relayed \ {q} : Holds(t, p)' = Holds(t, p)
    BY <2>0, <2>1 DEF Holds, PortsTypeOK
  <2>5. \A p \in Relayed : \A u \in Threads : u # t => Holds(u, p)' = Holds(u, p)
    BY <2>0, <2>1 DEF Holds, PortsTypeOK
  <2>6. \A p \in Relayed : Bound(p)' = Bound(p)
    BY <2>1 DEF Bound
  <2> QED BY <2>1, <2>3, <2>4, <2>5, <2>6, GivesBack
<1>11. ASSUME NEW t \in Threads, UndoRtcp(t) \/ CloseRtcp(t) PROVE Owners'
  <2>0. PICK q \in Relayed : q = port[t] + 1
    BY <1>11 DEF UndoRtcp, CloseRtcp, ThreadOK
  <2>1. /\ Release(q, status) /\ UNCHANGED <<even, port>> /\ even[t] = 1
        /\ \/ pc[t] = "undortcp" /\ pc' = [pc EXCEPT ![t] = "retry"] /\ UNCHANGED sock
           \/ /\ pc[t] = "closertcp" /\ pc' = [pc EXCEPT ![t] = "undolast"]
              /\ sock' = [sock EXCEPT ![q] = "closing"]
    BY <1>11, <2>0 DEF UndoRtcp, CloseRtcp, ThreadOK
  <2>2. port[t] # q
    BY <2>0, <2>1, TurnPortsAssumption DEF PortsTypeOK, Relayed
  <2>3. Holds(t, q) /\ ~Holds(t, q)'
    BY <2>0, <2>1, <2>2 DEF Holds, PortsTypeOK
  <2>4. \A p \in Relayed \ {q} : Holds(t, p)' = Holds(t, p)
    BY <2>0, <2>1, <2>2 DEF Holds, PortsTypeOK
  <2>5. \A p \in Relayed : \A u \in Threads : u # t => Holds(u, p)' = Holds(u, p)
    BY <2>0, <2>1 DEF Holds, PortsTypeOK
  <2>6. \A p \in Relayed \ {q} : Bound(p)' = Bound(p)
    BY <2>1 DEF Bound, PortsTypeOK
  <2>7. ~Bound(q)' \/ UNCHANGED sock
    BY <2>1 DEF Bound, PortsTypeOK
  <2> QED BY <2>1, <2>3, <2>4, <2>5, <2>6, <2>7, GivesBack
<1>12. ASSUME NEW q \in Relayed, Close(q) \/ ReservationTimeout(q) PROVE Owners'
  <2>1. /\ Release(q, status) /\ UNCHANGED <<pc, even, port>> /\ Bound(q)
        /\ sock' = [sock EXCEPT ![q] = "closing"]
    BY <1>12 DEF Close, ReservationTimeout, CloseSocket, Bound, thread
  <2>2. /\ status'[q] \notin TakenCodes
        /\ \A p \in Relayed : p # q => status'[p] = status[p]
        /\ orphan' \cup {q} = orphan \cup {q}
    BY <2>1, ReleaseRing DEF RingNow
  <2>3. ~Taken(q)' /\ \A p \in Relayed \ {q} : Taken(p)' = Taken(p)
    BY <2>2 DEF Taken
  <2>4. \A p \in Relayed : \A u \in Threads : Holds(u, p)' = Holds(u, p)
    BY <2>1 DEF Holds
  <2>5. ~Bound(q)' /\ \A p \in Relayed \ {q} : Bound(p)' = Bound(p)
    BY <2>1 DEF Bound, PortsTypeOK
  <2>6. q = PortsSize - 1 \/ \A u \in Threads : ~Holds(u, q)
    BY <2>1 DEF Owners, OneOwner
  <2> QED BY <2>2, <2>3, <2>4, <2>5, <2>6, GivenBack
<1>13. ASSUME NEW q \in Relayed, CloseFd(q) \/ ClaimReserved(q) PROVE Owners'
  <2>1. UNCHANGED <<status, history, pc, even, port>>
    BY <1>13 DEF CloseFd, ClaimReserved, pool, thread
  <2>2. \A p \in Relayed : Bound(p)' = Bound(p)
    BY <1>13 DEF CloseFd, ClaimReserved, Bound, PortsTypeOK
  <2> QED BY <1>0, <2>1, <2>2
<1>14. CASE UNCHANGED portsVars
  BY <1>0, <1>14 DEF portsVars, pool, thread, Bound
<1> QED BY <1>1, <1>2, <1>3, <1>4, <1>5, <1>6, <1>7, <1>8, <1>9, <1>10, <1>11, <1>12, <1>13, <1>14
        DEF PortsNext

(* The codes are reached for good. *)
LEMMA WrappedStays == PortsTypeOK /\ [PortsNext]_portsVars /\ wrapped => wrapped'
<1> SUFFICES ASSUME PortsTypeOK, [PortsNext]_portsVars, wrapped PROVE wrapped'
  OBVIOUS
<1>1. ASSUME NEW p, NEW st, Release(p, st) PROVE wrapped'
  BY <1>1 DEF Release
<1>2. CASE UNCHANGED wrapped
  BY <1>2
<1>3. ASSUME NEW t \in Threads,
             \/ \E e \in EvenPorts : RequestPort(t, e)
             \/ AllocatePort(t) \/ AllocatePortRefused(t) \/ EvenBegin(t) \/ EvenTooFew(t)
             \/ EvenFound(t) \/ EvenRefused(t)
             \/ BindRtcp(t) \/ BindRtcpFails(t) \/ Bind(t) \/ BindFails(t) \/ Retry(t)
      PROVE  wrapped'
  BY <1>3 DEF RequestPort, AllocatePort, AllocatePortRefused, EvenBegin, EvenTooFew, EvenFound, EvenRefused,
              BindRtcp, BindRtcpFails, Bind, BindFails, Retry, history
<1>4. ASSUME NEW t \in Threads,
             \/ EvenSkip(t) \/ EvenSkipNothing(t)
             \/ UndoRtp(t) \/ UndoRtcp(t) \/ CloseRtcp(t) \/ UndoLast(t)
      PROVE  wrapped'
  BY <1>1, <1>4 DEF EvenSkip, EvenSkipNothing, UndoRtp, UndoRtcp, CloseRtcp, UndoLast
<1>5. ASSUME NEW p \in Relayed, Close(p) \/ ReservationTimeout(p) \/ CloseFd(p) \/ ClaimReserved(p) PROVE wrapped'
  BY <1>1, <1>5 DEF Close, ReservationTimeout, CloseSocket, CloseFd, ClaimReserved, history
<1>6. CASE UNCHANGED portsVars
  BY <1>6 DEF portsVars, history
<1> QED BY <1>3, <1>4, <1>5, <1>6 DEF PortsNext

LEMMA PortsInductive == IInv /\ [PortsNext]_portsVars => IInv'
<1> SUFFICES ASSUME IInv, [PortsNext]_portsVars PROVE IInv'
  OBVIOUS
<1>1. PortsTypeOK' /\ ThreadOK'
  BY PortsTypeStep, ThreadStep DEF IInv
<1>2. CASE wrapped'
  BY <1>1, <1>2 DEF IInv, Owners, HeldTaken, OneOwner, NoLeak
<1>3. CASE ~wrapped'
  <2>1. ~wrapped
    BY <1>3, WrappedStays DEF IInv
  <2>2. RingNow' /\ Owners'
    BY <1>3, <2>1, RingStep, OwnersStep DEF IInv
  <2> QED BY <1>1, <2>2 DEF IInv
<1> QED BY <1>2, <1>3

LEMMA Invariance == PortsSpec => []IInv
  BY Initially, PortsInductive, PTL DEF PortsSpec

-----------------------------------------------------------------------------

(* The state of turn_ports.c and of the threads keeps its types. *)
THEOREM PortsTypeCorrect == PortsSpec => []PortsTypeOK
<1>1. IInv => PortsTypeOK
  BY DEF IInv
<1> QED BY <1>1, Invariance, PTL

(* A port that is not taken can be handed out: turnports_release and       *)
(* turnports_allocate_even never lose one in the ring.                     *)
THEOREM FreePortsInRing == PortsSpec => []RingSound
<1>1. IInv => RingSound
  BY DEF IInv, RingNow, Ring, Live, Entry, RingSound, Taken
<1> QED BY <1>1, Invariance, PTL

(* The stale entries of turnports_allocate_even cannot fill the ring.      *)
THEOREM RingNeverFull == PortsSpec => []RingFits
<1>1. ASSUME IInv PROVE RingFits
  <2>1. CASE wrapped
    BY <2>1 DEF RingFits
  <2>2. CASE RingNow
    <3>1. high - low < PortsSize /\ low \in Nat /\ high \in Nat /\ low <= high /\ PortsSize \in Nat
      BY <2>2, Fits, Codes DEF RingNow, Ring, Counts
    <3> QED BY <3>1 DEF RingFits
  <2> QED BY <1>1, <2>1, <2>2 DEF IInv
<1> QED BY <1>1, Invariance, PTL

(* Whatever relay threads and sockets hold is taken in the pool ...        *)
THEOREM HeldPortsTaken == PortsSpec => []HeldTaken
<1>1. IInv => HeldTaken
  BY DEF IInv, Owners
<1> QED BY <1>1, Invariance, PTL

(* ... has one owner, so that no two clients share a relay address ...     *)
THEOREM OwnersApart == PortsSpec => []OneOwner
<1>1. IInv => OneOwner
  BY DEF IInv, Owners
<1> QED BY <1>1, Invariance, PTL

(* ... and nothing else is taken, but for the orphans.                     *)
THEOREM NothingLeaks == PortsSpec => []NoLeak
<1>1. IInv => NoLeak
  BY DEF IInv, Owners
<1> QED BY <1>1, Invariance, PTL

(* turnports_allocate answers -1 only when no port is left.                *)
THEOREM RefusedWhenFull == PortsSpec => RefusedOnlyWhenFull
<1>1. IInv /\ [PortsNext]_portsVars =>
        [\A t \in Threads : AllocatePortRefused(t) => wrapped \/ \A p \in Relayed : Taken(p)]_portsVars
  BY ExhaustedFacts DEF IInv, AllocatePortRefused
<1> QED BY <1>1, Invariance, PTL DEF PortsSpec, RefusedOnlyWhenFull

-----------------------------------------------------------------------------
(***************************************************************************)
(* Proofs about a TURN session, for any hosts, ports, channels and         *)
(* lifetimes: its types, its safety invariants, and that it implements     *)
(* TurnLease.                                                              *)
(***************************************************************************)

(* Only hosts the lists allow have a permission. *)
PermittedHosts == \A h \in Hosts : perm[h] # Off => h \notin Denied

(* A channel is bound to a real port, and only a bound channel has a timer *)
BindingsReal ==
    \A c \in Channels : IF peer[c] = NoPeer THEN chan[c] = Off
                                            ELSE peer[c][2] # 0

(* The watchdog runs as long as the session. *)
WatchdogRuns == open => watchdog # Off

(* Inductive: what a session's maps and timers owe each other. *)
SessionInv ==
    /\ TypeOK
    /\ ChannelsPaired
    /\ ChannelsCovered
    /\ PermittedHosts
    /\ BindingsReal
    /\ NothingLeftBehind
    /\ AllocationCounted
    /\ WatchdogRuns
-----------------------------------------------------------------------------
(* What stun_adjust_allocate_lifetime grants lies between a second and the *)
(* maximum of the server.                                                  *)
LEMMA AdjustedRange ==
    ASSUME NEW l \in Requested, NEW m \in SessionTimes
    PROVE  Adjusted(l, m) \in 1..MaxLifetime
  <1>1. Granted(l) \in 1..MaxLifetime /\ m \in Nat
    BY TurnSessionAssumption DEF Granted
  <1>2. MaxLifetime \in Nat
    BY TurnSessionAssumption
  <1> HIDE DEF Granted
  <1> QED BY <1>1, <1>2 DEF Adjusted

(* A timer that is not due stays within its range when a second passes. *)
LEMMA LessType ==
    ASSUME NEW N \in Nat, NEW n \in Due(N), n # 0
    PROVE  Less(n) \in Due(N)
  BY DEF Due, Less, Off

(* Shutdown leaves the types intact. *)
LEMMA ShutdownType ==
    ASSUME Shutdown
    PROVE  TypeOK'
  BY TurnSessionAssumption
  DEF Shutdown, AccountClosed, AllocationCleared, Silent, TypeOK, Due, Off

LEMMA AllocateType ==
    ASSUME TypeOK,
           NEW fams \in SUBSET Families, NEW got \in SUBSET Families,
           NEW t \in Tids, NEW l \in Requested, NEW m \in SessionTimes,
           Allocate(t, fams, got, l, m)
    PROVE  TypeOK'
  <1> DEFINE life == Adjusted(l, m)
  <1>1. life \in 1..MaxLifetime
    BY AdjustedRange
  <1> HIDE DEF life
  <1>2. MaxLifetime \in Nat
    BY TurnSessionAssumption
  <1>3. /\ relay' \in [Families -> Due(MaxLifetime)]
        /\ failed' \in SUBSET Families
    BY <1>1, <1>2 DEF Allocate, RelaysCreated, TypeOK, Due, Off, life
  <1>4. answer' \in [kind : {"allocate", "again", "refresh"},
                     life : 0..MaxLifetime, told : SUBSET Families]
    <2>1. answer' = [kind |-> "allocate", life |-> life, told |-> Named']
      BY DEF Allocate, life
    <2>2. Named' \in SUBSET Families
      BY DEF Named
    <2> QED BY <1>1, <1>2, <2>1, <2>2
  <1> QED
    BY <1>3, <1>4 DEF Allocate, Admitted, Bandwidth, TypeOK, bound

LEMMA AgainType ==
    ASSUME TypeOK, AllocateAgain
    PROVE  TypeOK'
  <1>1. LifeTold(FirstFamily) \in 0..MaxLifetime
    <2>1. FirstFamily \in Families
      BY TurnSessionAssumption DEF FirstFamily, ToldFamily, Families
    <2>2. relay[FirstFamily] \in Due(MaxLifetime)
      BY <2>1 DEF TypeOK
    <2> QED BY <2>2, TurnSessionAssumption DEF LifeTold, Due, Off
  <1>2. Named \in SUBSET Families
    BY DEF Named
  <1>3. answer' \in [kind : {"allocate", "again", "refresh"},
                     life : 0..MaxLifetime, told : SUBSET Families]
    <2>1. answer' = [kind |-> "again", life |-> LifeTold(FirstFamily),
                     told |-> Named]
      BY DEF AllocateAgain
    <2> QED BY <1>1, <1>2, <2>1
  <1> QED
    BY <1>3 DEF AllocateAgain, TypeOK, account, alloc, bound

LEMMA RefreshType ==
    ASSUME TypeOK, NEW fams \in SUBSET Families, NEW life \in 0..MaxLifetime,
           Refresh(fams, life)
    PROVE  TypeOK'
  <1>1. MaxLifetime \in Nat \ {0}
    BY TurnSessionAssumption
  <1>2. RefreshTimer(life) \in Due(MaxLifetime)
    BY <1>1 DEF RefreshTimer, Due
  <1>3. relay' \in [Families -> Due(MaxLifetime)]
    BY <1>2 DEF Refresh, TypeOK
  <1>4. answer' \in [kind : {"allocate", "again", "refresh"},
                     life : 0..MaxLifetime, told : SUBSET Families]
    <2>1. answer' = [kind |-> "refresh", life |-> life, told |-> {}]
      BY DEF Refresh
    <2> QED BY <2>1
  <1> QED
    BY <1>3, <1>4 DEF Refresh, TypeOK, account, bound

LEMMA PermissionType ==
    ASSUME TypeOK, NEW H \in SUBSET Hosts, CreatePermission(H)
    PROVE  TypeOK'
  <1>1. /\ PermissionLifetime \in Due(ChannelLifetime)
        /\ ChannelLifetime \in Due(ChannelLifetime)
    BY TurnSessionAssumption DEF Due
  <1>2. perm' \in [Hosts -> Due(ChannelLifetime)]
    BY <1>1 DEF CreatePermission, TypeOK
  <1>3. chan' \in [Channels -> Due(ChannelLifetime)]
    BY <1>1 DEF CreatePermission, TypeOK
  <1> QED
    BY <1>2, <1>3 DEF CreatePermission, Silent, TypeOK, account, alloc

LEMMA BindType ==
    ASSUME TypeOK, NEW c \in Channels, NEW a \in Addresses, ChannelBind(c, a)
    PROVE  TypeOK'
  <1>1. ChannelLifetime \in Due(ChannelLifetime)
    BY TurnSessionAssumption DEF Due
  <1>2. /\ perm' \in [Hosts -> Due(ChannelLifetime)]
        /\ chan' \in [Channels -> Due(ChannelLifetime)]
    BY <1>1 DEF ChannelBind, TypeOK
  <1>3. /\ peer' \in [Channels -> Addresses \cup {NoPeer}]
        /\ chns' \in [Addresses -> Channels \cup {NoChannel}]
    BY DEF ChannelBind, TypeOK
  <1> QED
    BY <1>2, <1>3 DEF ChannelBind, Silent, TypeOK, account, alloc

(* A datagram changes nothing but the wire. *)
LEMMA DatagramType ==
    ASSUME TypeOK, Datagram
    PROVE  /\ TypeOK'
           /\ valid
           /\ UNCHANGED <<account, alloc, perm, bound>>
           /\ answer' = None
           /\ wire' \in [kind : {"peer", "client"}, addr : Addresses,
                         via : Channels \cup {NoChannel}]
  <1>1. /\ valid
        /\ UNCHANGED <<account, alloc, perm, bound>>
        /\ answer' = None
    BY DEF Datagram, SendIndication, PeerData, ChannelData
  <1> DEFINE Wires == [kind : {"peer", "client"}, addr : Addresses,
                       via : Channels \cup {NoChannel}]
  <1>2. wire' \in Wires
    <2>1. ASSUME NEW a \in Addresses, SendIndication(a)
          PROVE  wire' \in Wires
      BY <2>1 DEF SendIndication
    <2>2. ASSUME NEW a \in Addresses, PeerData(a)
          PROVE  wire' \in Wires
      BY <2>2 DEF PeerData, TypeOK
    <2>3. ASSUME NEW c \in Channels, ChannelData(c)
          PROVE  wire' \in Wires
      BY <2>3 DEF ChannelData, TypeOK
    <2> QED BY <2>1, <2>2, <2>3 DEF Datagram
  <1>3. TypeOK'
    BY <1>1, <1>2 DEF TypeOK, account, alloc, bound
  <1> QED BY <1>1, <1>2, <1>3

LEMMA TimerType ==
    ASSUME TypeOK, Timer
    PROVE  TypeOK'
  <1>1. ASSUME Watchdog
        PROVE  TypeOK'
    <2>1. CASE RelayedFamilies = {}
      BY <1>1, <2>1, ShutdownType DEF Watchdog
    <2>2. CASE RelayedFamilies # {}
      BY <1>1, <2>2, TurnSessionAssumption
      DEF Watchdog, Silent, TypeOK, alloc, bound, Due
    <2> QED BY <2>1, <2>2
  <1>2. ASSUME NEW f \in Families, AllocationTimeout(f)
        PROVE  TypeOK'
    <2>1. CASE RelayedFamilies = {f}
      BY <1>2, <2>1, ShutdownType DEF AllocationTimeout
    <2>2. CASE RelayedFamilies # {f}
      BY <1>2, <2>2
      DEF AllocationTimeout, Silent, TypeOK, account, bound, Due
    <2> QED BY <2>1, <2>2
  <1>3. ASSUME NEW h \in Hosts, PermissionTimeout(h)
        PROVE  TypeOK'
    BY <1>3 DEF PermissionTimeout, PermissionClean, Silent, TypeOK, account,
                alloc, Due
  <1>4. ASSUME NEW c \in Channels, ChannelTimeout(c)
        PROVE  TypeOK'
    BY <1>4 DEF ChannelTimeout, ChannelDelete, Silent, TypeOK, account,
                alloc, Due
  <1> QED BY <1>1, <1>2, <1>3, <1>4 DEF Timer

LEMMA TickType ==
    ASSUME TypeOK, Tick
    PROVE  TypeOK'
  <1>1. watchdog' \in Due(AllocateTimeout)
    BY LessType, TurnSessionAssumption DEF Tick, TypeOK
  <1>2. relay' \in [Families -> Due(MaxLifetime)]
    BY LessType, TurnSessionAssumption DEF Tick, TypeOK
  <1>3. perm' \in [Hosts -> Due(ChannelLifetime)]
    BY LessType, TurnSessionAssumption DEF Tick, TypeOK
  <1>4. chan' \in [Channels -> Due(ChannelLifetime)]
    BY LessType, TurnSessionAssumption DEF Tick, TypeOK
  <1> QED
    BY <1>1, <1>2, <1>3, <1>4 DEF Tick, Silent, TypeOK

LEMMA TypeStep ==
    ASSUME TypeOK, [Next]_vars
    PROVE  TypeOK'
  <1>1. CASE UNCHANGED vars
    BY <1>1 DEF vars, account, alloc, bound, TypeOK
  <1>2. CASE OpenSession
    BY <1>2, TurnSessionAssumption
    DEF OpenSession, Silent, TypeOK, alloc, bound, Due
  <1>3. CASE ClientGone
    BY <1>3, ShutdownType DEF ClientGone
  <1>4. CASE Request
    <2>1. CASE AllocateRefused
      BY <2>1 DEF AllocateRefused, Admitted, Bandwidth, Silent, TypeOK,
                  alloc, bound
    <2>2. ASSUME NEW fams \in SUBSET Families, AllocateFailed(fams)
          PROVE  TypeOK'
      <3>1. /\ relay' \in [Families -> Due(MaxLifetime)]
            /\ failed' \in SUBSET Families
        BY <2>2 DEF AllocateFailed, RelaysCreated, TypeOK, Due, Off
      <3> QED
        BY <2>2, <3>1 DEF AllocateFailed, Admitted, Bandwidth, Silent,
                          TypeOK, bound
    <2>3. ASSUME NEW fams \in SUBSET Families, NEW t \in Tids,
                 NEW got \in SUBSET Families, NEW l \in Requested,
                 NEW m \in SessionTimes,
                 Allocate(t, fams, got, l, m)
          PROVE  TypeOK'
      BY <2>3, AllocateType
    <2>4. ASSUME NEW fams \in SUBSET Families, NEW l \in Requested,
                 NEW m \in SessionTimes,
                 Refresh(fams, Adjusted(l, m))
          PROVE  TypeOK'
      <3>1. Adjusted(l, m) \in 0..MaxLifetime
        BY AdjustedRange, TurnSessionAssumption
      <3> QED BY <2>4, <3>1, RefreshType
    <2>5. ASSUME NEW fams \in SUBSET Families, Refresh(fams, 0)
          PROVE  TypeOK'
      <3>1. 0 \in 0..MaxLifetime
        BY TurnSessionAssumption
      <3> QED BY <2>5, <3>1, RefreshType
    <2>6. CASE AllocateAgain
      BY <2>6, AgainType
    <2>7. CASE \E H \in SUBSET Hosts : CreatePermission(H)
      BY <2>7, PermissionType
    <2>8. CASE \E c \in Channels, a \in Addresses : ChannelBind(c, a)
      BY <2>8, BindType
    <2> QED
      BY <1>4, <2>1, <2>2, <2>3, <2>4, <2>5, <2>6, <2>7, <2>8 DEF Request
  <1>5. CASE Datagram
    BY <1>5, DatagramType
  <1>6. CASE Timer
    BY <1>6, TimerType
  <1>7. CASE Tick
    BY <1>7, TickType
  <1> QED
    BY <1>1, <1>2, <1>3, <1>4, <1>5, <1>6, <1>7 DEF Next

LEMMA TypeInit == Init => TypeOK
  BY TurnSessionAssumption DEF Init, TypeOK, Due, Off

(* Whatever requests, datagrams and timers a session sees, its timers stay *)
(* within what the server grants and its maps within their keys.           *)
THEOREM TypeCorrect == Spec => []TypeOK
  <1>1. TypeOK /\ [Next]_vars => TypeOK'
    BY TypeStep
  <1> QED BY <1>1, TypeInit, PTL DEF Spec
-----------------------------------------------------------------------------
(* Shutdown re-establishes the invariant by itself: nothing is left. *)
LEMMA ShutdownInv ==
    ASSUME Shutdown
    PROVE  SessionInv'
  <1>1. TypeOK'
    BY ShutdownType
  <1>2. ChannelsPaired'
    BY TurnSessionAssumption
    DEF Shutdown, AllocationCleared, ChannelsPaired
  <1>3. /\ ChannelsCovered' /\ PermittedHosts' /\ BindingsReal'
        /\ NothingLeftBehind' /\ AllocationCounted' /\ WatchdogRuns'
    BY DEF Shutdown, AccountClosed, AllocationCleared, ChannelsCovered,
           PermittedHosts, BindingsReal, NothingLeftBehind,
           AllocationCounted, WatchdogRuns
  <1> QED BY <1>1, <1>2, <1>3 DEF SessionInv

(* The channels of a permission are those bound to its host. *)
LEMMA ChannelsOfHost ==
    ASSUME SessionInv, NEW h \in Hosts, NEW c \in Channels
    PROVE  c \in {chns[a] : a \in {h} \X ({0} \cup Ports)}
             <=> peer[c] # NoPeer /\ peer[c][1] = h
  <1>1. ASSUME NEW a \in {h} \X ({0} \cup Ports), c = chns[a]
        PROVE  peer[c] # NoPeer /\ peer[c][1] = h
    <2>1. a \in Addresses /\ a[1] = h
      BY DEF Addresses
    <2>2. peer[c] = a
      BY <1>1, <2>1 DEF SessionInv, ChannelsPaired
    <2> QED BY <2>1, <2>2, TurnSessionAssumption
  <1>2. ASSUME peer[c] # NoPeer, peer[c][1] = h
        PROVE  c \in {chns[a] : a \in {h} \X ({0} \cup Ports)}
    <2>1. peer[c] \in Addresses
      BY <1>2 DEF SessionInv, TypeOK
    <2>2. chns[peer[c]] = c
      BY <2>1 DEF SessionInv, ChannelsPaired
    <2>3. peer[c] \in {h} \X ({0} \cup Ports)
      BY <1>2, <2>1 DEF Addresses
    <2> QED BY <2>2, <2>3
  <1> QED BY <1>1, <1>2

(* No channel is bound to port 0, so update_permission finds none: a       *)
(* CreatePermission sets the timer of the permission and no other.         *)
LEMMA NoChannelOfPortZero ==
    ASSUME SessionInv, NEW h \in Hosts
    PROVE  ChannelOf(h) = NoChannel
  <1>1. <<h, 0>> \in Addresses
    BY DEF Addresses
  <1>2. SUFFICES ASSUME chns[<<h, 0>>] # NoChannel
                 PROVE  FALSE
    BY DEF ChannelOf
  <1>3. PICK c \in Channels : chns[<<h, 0>>] = c
    BY <1>1, <1>2 DEF SessionInv, TypeOK
  <1>4. peer[c] = <<h, 0>>
    BY <1>1, <1>3 DEF SessionInv, ChannelsPaired
  <1>5. peer[c] # NoPeer
    BY <1>1, <1>4, TurnSessionAssumption
  <1> QED BY <1>4, <1>5 DEF SessionInv, BindingsReal

LEMMA PermissionStep ==
    ASSUME SessionInv, NEW H \in SUBSET Hosts, CreatePermission(H)
    PROVE  /\ perm' = [h \in Hosts |-> IF h \in H THEN PermissionLifetime
                                                  ELSE perm[h]]
           /\ chan' = chan
  <1>1. \A h \in Hosts : ChannelOf(h) = NoChannel
    BY NoChannelOfPortZero
  <1>2. perm' = [h \in Hosts |-> IF h \in H THEN PermissionLifetime
                                            ELSE perm[h]]
    BY <1>1 DEF CreatePermission, SessionInv, TypeOK
  <1>3. \A c \in Channels : chan'[c] = chan[c]
    BY <1>1, TurnSessionAssumption DEF CreatePermission
  <1>4. chan' = chan
    BY <1>3 DEF CreatePermission, SessionInv, TypeOK
  <1> QED BY <1>2, <1>4

LEMMA PermissionInv ==
    ASSUME SessionInv, TypeOK', NEW H \in SUBSET Hosts, CreatePermission(H)
    PROVE  SessionInv'
  <1>1. /\ \A h \in Hosts : perm[h] # Off => perm'[h] # Off
        /\ \A h \in Hosts : perm'[h] # Off => perm[h] # Off \/ h \in H
        /\ chan' = chan
        /\ UNCHANGED <<account, alloc, peer, chns>>
        /\ valid
        /\ \A h \in H : h \notin Denied
    BY PermissionStep, TurnSessionAssumption DEF CreatePermission, Off
  <1>2. /\ ChannelsPaired' /\ BindingsReal' /\ AllocationCounted'
        /\ WatchdogRuns'
    BY <1>1 DEF SessionInv, ChannelsPaired, BindingsReal, AllocationCounted,
                WatchdogRuns, account, alloc, RelayedFamilies
  <1>3. ChannelsCovered'
    BY <1>1 DEF SessionInv, ChannelsCovered, TypeOK, Addresses
  <1>4. PermittedHosts'
    BY <1>1 DEF SessionInv, PermittedHosts
  <1>5. NothingLeftBehind'
    BY <1>1 DEF SessionInv, NothingLeftBehind, AllocationCounted, account,
                alloc
  <1> QED BY <1>2, <1>3, <1>4, <1>5 DEF SessionInv

LEMMA BindInv ==
    ASSUME SessionInv, TypeOK', NEW c \in Channels, NEW a \in Addresses,
           ChannelBind(c, a)
    PROVE  SessionInv'
  <1>a. a \in Addresses /\ a[1] \in Hosts /\ a # NoPeer
    BY TurnSessionAssumption DEF Addresses
  <1>1. /\ peer' = [peer EXCEPT ![c] = a]
        /\ chan' = [chan EXCEPT ![c] = ChannelLifetime]
        /\ perm' = [perm EXCEPT ![a[1]] = ChannelLifetime]
        /\ UNCHANGED <<account, alloc>>
        /\ valid
        /\ a[2] >= 1
        /\ ChannelLifetime # Off
    BY TurnSessionAssumption DEF ChannelBind, Off
  <1>t. /\ peer \in [Channels -> Addresses \cup {NoPeer}]
        /\ chns \in [Addresses -> Channels \cup {NoChannel}]
        /\ chan \in [Channels -> Due(ChannelLifetime)]
        /\ perm \in [Hosts -> Due(ChannelLifetime)]
    BY DEF SessionInv, TypeOK
  <1>2. ChannelsPaired'
    <2>1. CASE peer[c] = a
      <3>1. peer' = peer /\ chns' = chns
        BY <1>1, <1>t, <2>1 DEF ChannelBind
      <3> QED BY <3>1 DEF SessionInv, ChannelsPaired
    <2>2. CASE peer[c] # a
      <3>1. peer[c] = NoPeer /\ chns' = [chns EXCEPT ![a] = c]
        BY <2>2 DEF ChannelBind, MayBind
      <3>2. chns[a] = NoChannel
        <4>1. CASE perm[a[1]] # Off
          BY <2>2, <4>1 DEF ChannelBind, MayBind
        <4>2. CASE perm[a[1]] = Off
          <5>1. \A d \in Channels : peer[d] # a
            BY <1>a, <4>2 DEF SessionInv, ChannelsCovered
          <5>2. \A d \in Channels : chns[a] # d
            BY <5>1 DEF SessionInv, ChannelsPaired
          <5> QED BY <1>t, <5>2
        <4> QED BY <4>1, <4>2
      <3>3. \A d \in Channels : peer[d] # a
        BY <3>2, TurnSessionAssumption DEF SessionInv, ChannelsPaired
      <3>4. \A b \in Addresses : chns[b] # c
        BY <3>1, TurnSessionAssumption DEF SessionInv, ChannelsPaired
      <3> SUFFICES ASSUME NEW d \in Channels, NEW b \in Addresses
                   PROVE  peer'[d] = b <=> chns'[b] = d
        BY DEF ChannelsPaired
      <3>5. peer[d] = b <=> chns[b] = d
        BY DEF SessionInv, ChannelsPaired
      <3> QED BY <1>1, <1>t, <3>1, <3>3, <3>4, <3>5
    <2> QED BY <2>1, <2>2
  <1>3. ChannelsCovered'
    BY <1>1, <1>t, <1>a DEF SessionInv, ChannelsCovered, Addresses
  <1>4. PermittedHosts'
    <2>1. a[1] \notin Denied
      BY <1>a DEF ChannelBind, MayBind, SessionInv, ChannelsCovered,
                  PermittedHosts
    <2> QED BY <1>1, <1>t, <2>1 DEF SessionInv, PermittedHosts
  <1>5. BindingsReal'
    BY <1>1, <1>t, <1>a DEF SessionInv, BindingsReal, Addresses
  <1>6. NothingLeftBehind' /\ AllocationCounted' /\ WatchdogRuns'
    BY <1>1 DEF SessionInv, NothingLeftBehind, AllocationCounted,
                WatchdogRuns, account, alloc, RelayedFamilies
  <1> QED BY <1>2, <1>3, <1>4, <1>5, <1>6 DEF SessionInv

LEMMA PermissionTimeoutInv ==
    ASSUME SessionInv, TypeOK', NEW h \in Hosts, PermissionTimeout(h)
    PROVE  SessionInv'
  <1>t. /\ peer \in [Channels -> Addresses \cup {NoPeer}]
        /\ chns \in [Addresses -> Channels \cup {NoChannel}]
        /\ chan \in [Channels -> Due(ChannelLifetime)]
        /\ perm \in [Hosts -> Due(ChannelLifetime)]
    BY DEF SessionInv, TypeOK
  <1>1. \A c \in Channels :
          /\ peer'[c] = IF peer[c] # NoPeer /\ peer[c][1] = h
                        THEN NoPeer ELSE peer[c]
          /\ chan'[c] = IF peer[c] # NoPeer /\ peer[c][1] = h
                        THEN Off ELSE chan[c]
    BY ChannelsOfHost DEF PermissionTimeout, PermissionClean
  <1>2. /\ perm' = [perm EXCEPT ![h] = Off]
        /\ \A a \in Addresses :
             chns'[a] = IF a[1] = h THEN NoChannel ELSE chns[a]
        /\ UNCHANGED <<account, alloc>>
    BY DEF PermissionTimeout, PermissionClean
  <1>3. ChannelsPaired'
    <2> SUFFICES ASSUME NEW c \in Channels, NEW a \in Addresses
                 PROVE  peer'[c] = a <=> chns'[a] = c
      BY DEF ChannelsPaired
    <2>1. peer[c] = a <=> chns[a] = c
      BY DEF SessionInv, ChannelsPaired
    <2> QED BY <1>1, <1>2, <2>1, TurnSessionAssumption
  <1>4. ChannelsCovered'
    BY <1>1, <1>2, <1>t DEF SessionInv, ChannelsCovered, Addresses
  <1>5. PermittedHosts'
    BY <1>2, <1>t DEF SessionInv, PermittedHosts
  <1>6. BindingsReal'
    BY <1>1 DEF SessionInv, BindingsReal
  <1>7. AllocationCounted' /\ WatchdogRuns'
    BY <1>2 DEF SessionInv, AllocationCounted, WatchdogRuns, account, alloc,
                RelayedFamilies
  <1>8. NothingLeftBehind'
    BY <1>1, <1>2, <1>t DEF SessionInv, NothingLeftBehind, account, alloc
  <1> QED BY <1>3, <1>4, <1>5, <1>6, <1>7, <1>8 DEF SessionInv

LEMMA ChannelTimeoutInv ==
    ASSUME SessionInv, TypeOK', NEW c \in Channels, ChannelTimeout(c)
    PROVE  SessionInv'
  <1>t. /\ peer \in [Channels -> Addresses \cup {NoPeer}]
        /\ chns \in [Addresses -> Channels \cup {NoChannel}]
        /\ chan \in [Channels -> Due(ChannelLifetime)]
    BY DEF SessionInv, TypeOK
  <1>1. peer[c] \in Addresses /\ peer[c] # NoPeer
    BY <1>t DEF ChannelTimeout, SessionInv, BindingsReal, Off
  <1>2. /\ peer' = [peer EXCEPT ![c] = NoPeer]
        /\ chan' = [chan EXCEPT ![c] = Off]
        /\ chns' = [chns EXCEPT ![peer[c]] = NoChannel]
        /\ UNCHANGED <<account, alloc, perm>>
    BY DEF ChannelTimeout, ChannelDelete
  <1>3. ChannelsPaired'
    <2> SUFFICES ASSUME NEW d \in Channels, NEW a \in Addresses
                 PROVE  peer'[d] = a <=> chns'[a] = d
      BY DEF ChannelsPaired
    <2>1. peer[d] = a <=> chns[a] = d
      BY DEF SessionInv, ChannelsPaired
    <2>2. peer[c] = a <=> chns[a] = c
      BY DEF SessionInv, ChannelsPaired
    <2> QED BY <1>1, <1>2, <1>t, <2>1, <2>2, TurnSessionAssumption
  <1>4. ChannelsCovered' /\ PermittedHosts' /\ BindingsReal'
    BY <1>2, <1>t DEF SessionInv, ChannelsCovered, PermittedHosts,
                      BindingsReal
  <1>5. AllocationCounted' /\ WatchdogRuns'
    BY <1>2 DEF SessionInv, AllocationCounted, WatchdogRuns, account, alloc,
                RelayedFamilies
  <1>6. NothingLeftBehind'
    BY <1>2, <1>t DEF SessionInv, NothingLeftBehind, account, alloc
  <1> QED BY <1>3, <1>4, <1>5, <1>6 DEF SessionInv

(* A second changes the time timers have left, never which of them run. *)
LEMMA TickRuns ==
    ASSUME TypeOK, Tick
    PROVE  /\ watchdog' = Off <=> watchdog = Off
           /\ \A f \in Families : relay'[f] = Off <=> relay[f] = Off
           /\ \A h \in Hosts : perm'[h] = Off <=> perm[h] = Off
           /\ \A c \in Channels : chan'[c] = Off <=> chan[c] = Off
  <1>1. ASSUME NEW N \in Nat, NEW n \in Due(N), n # 0
        PROVE  Less(n) = Off <=> n = Off
    BY <1>1 DEF Less, Due, Off
  <1>2. watchdog' = Off <=> watchdog = Off
    BY <1>1, TurnSessionAssumption DEF Tick, TypeOK
  <1>3. \A f \in Families : relay'[f] = Off <=> relay[f] = Off
    BY <1>1, TurnSessionAssumption DEF Tick, TypeOK
  <1>4. \A h \in Hosts : perm'[h] = Off <=> perm[h] = Off
    BY <1>1, TurnSessionAssumption DEF Tick, TypeOK
  <1>5. \A c \in Channels : chan'[c] = Off <=> chan[c] = Off
    BY <1>1, TurnSessionAssumption DEF Tick, TypeOK
  <1> QED BY <1>2, <1>3, <1>4, <1>5

LEMMA TickInv ==
    ASSUME SessionInv, TypeOK', Tick
    PROVE  SessionInv'
  <1>1. /\ watchdog' = Off <=> watchdog = Off
        /\ \A f \in Families : relay'[f] = Off <=> relay[f] = Off
        /\ \A h \in Hosts : perm'[h] = Off <=> perm[h] = Off
        /\ \A c \in Channels : chan'[c] = Off <=> chan[c] = Off
    BY TickRuns DEF SessionInv
  <1>2. UNCHANGED <<open, quota, bps, valid, tid, failed, peer, chns>>
    BY DEF Tick
  <1>3. ChannelsPaired' /\ BindingsReal' /\ PermittedHosts'
    BY <1>1, <1>2 DEF SessionInv, ChannelsPaired, BindingsReal,
                      PermittedHosts
  <1>4. ChannelsCovered'
    BY <1>1, <1>2 DEF SessionInv, ChannelsCovered, TypeOK, Addresses
  <1>5. RelayedFamilies' = RelayedFamilies
    BY <1>1 DEF RelayedFamilies
  <1>6. NothingLeftBehind' /\ AllocationCounted' /\ WatchdogRuns'
    BY <1>1, <1>2, <1>5 DEF SessionInv, NothingLeftBehind,
                            AllocationCounted, WatchdogRuns
  <1> QED BY <1>3, <1>4, <1>6 DEF SessionInv

(* The requests about the allocation and the end of one of its sockets:    *)
(* permissions and channels stay.                                          *)
LEMMA KeepsBindings ==
    ASSUME SessionInv, TypeOK', UNCHANGED <<perm, bound>>,
           NothingLeftBehind', AllocationCounted', WatchdogRuns'
    PROVE  SessionInv'
  BY DEF SessionInv, ChannelsPaired, ChannelsCovered, PermittedHosts,
         BindingsReal, bound

LEMMA AllocateInv ==
    ASSUME SessionInv, TypeOK',
           \/ AllocateRefused
           \/ \E fams \in SUBSET Families : AllocateFailed(fams)
           \/ \E fams \in SUBSET Families, t \in Tids,
                 got \in SUBSET Families, l \in Requested,
                 m \in SessionTimes : Allocate(t, fams, got, l, m)
    PROVE  SessionInv'
  <1>1. /\ UNCHANGED <<open, watchdog, perm, bound>>
        /\ open /\ ~valid /\ quota'
    BY DEF AllocateRefused, AllocateFailed, Allocate, Admitted
  <1>2. \A f \in Families : relay[f] = Off
    BY <1>1 DEF SessionInv, NothingLeftBehind
  <1>w. watchdog # Off
    BY <1>1 DEF SessionInv, WatchdogRuns
  <1>3. NothingLeftBehind' /\ AllocationCounted'
    <2>1. CASE AllocateRefused
      BY <1>1, <2>1 DEF AllocateRefused, alloc, SessionInv,
                        NothingLeftBehind, AllocationCounted, bound
    <2>2. ASSUME NEW fams \in SUBSET Families, AllocateFailed(fams)
          PROVE  NothingLeftBehind' /\ AllocationCounted'
      BY <1>1, <1>2, <2>2
      DEF AllocateFailed, RelaysCreated, SessionInv, NothingLeftBehind,
          AllocationCounted, bound
    <2>3. ASSUME NEW fams \in SUBSET Families, NEW t \in Tids,
                 NEW got \in SUBSET Families, NEW l \in Requested,
                 NEW m \in SessionTimes,
                 Allocate(t, fams, got, l, m)
          PROVE  NothingLeftBehind' /\ AllocationCounted'
      <3>1. PICK f \in Families : f \in got
        BY <2>3 DEF Allocate
      <3>2. relay'[f] # Off
        BY <2>3, <3>1, AdjustedRange DEF Allocate, RelaysCreated, Off
      <3>3. RelayedFamilies' # {}
        BY <3>2 DEF RelayedFamilies
      <3> QED
        BY <1>1, <1>w, <2>3, <3>3
        DEF Allocate, NothingLeftBehind, AllocationCounted
    <2> QED BY <2>1, <2>2, <2>3
  <1> QED BY <1>1, <1>3, KeepsBindings DEF SessionInv, WatchdogRuns

LEMMA RefreshInv ==
    ASSUME SessionInv, TypeOK', NEW fams \in SUBSET Families,
           NEW life \in 0..MaxLifetime, Refresh(fams, life)
    PROVE  SessionInv'
  <1>1. /\ UNCHANGED <<account, valid, perm, bound>>
        /\ valid
        /\ \A f \in Families : relay[f] # Off => relay'[f] # Off
    BY TurnSessionAssumption DEF Refresh, RefreshTimer, Off
  <1>2. RelayedFamilies # {} => RelayedFamilies' # {}
    BY <1>1 DEF RelayedFamilies
  <1>3. NothingLeftBehind' /\ AllocationCounted'
    BY <1>1, <1>2 DEF SessionInv, NothingLeftBehind, AllocationCounted,
                      account
  <1> QED BY <1>1, <1>3, KeepsBindings DEF SessionInv, WatchdogRuns, account

LEMMA AllocationTimeoutInv ==
    ASSUME SessionInv, TypeOK', NEW f \in Families, AllocationTimeout(f)
    PROVE  SessionInv'
  <1>1. CASE RelayedFamilies = {f}
    BY <1>1, ShutdownInv DEF AllocationTimeout
  <1>2. CASE RelayedFamilies # {f}
    <2>1. /\ UNCHANGED <<account, valid, perm, bound>>
          /\ relay' = [relay EXCEPT ![f] = Off]
          /\ relay[f] = 0
      BY <1>2 DEF AllocationTimeout
    <2>2. relay \in [Families -> Due(MaxLifetime)]
      BY DEF SessionInv, TypeOK
    <2>3. f \in RelayedFamilies
      BY <2>1 DEF RelayedFamilies, Off
    <2>4. PICK g \in RelayedFamilies : g # f
      BY <1>2, <2>3
    <2>5. g \in RelayedFamilies'
      BY <2>1, <2>2, <2>4 DEF RelayedFamilies
    <2>6. valid
      BY <2>1 DEF SessionInv, NothingLeftBehind, Off
    <2>7. NothingLeftBehind' /\ AllocationCounted'
      BY <2>1, <2>5, <2>6 DEF SessionInv, NothingLeftBehind,
                              AllocationCounted, account
    <2> QED
      BY <2>1, <2>7, KeepsBindings DEF SessionInv, WatchdogRuns, account
  <1> QED BY <1>1, <1>2

LEMMA WatchdogInv ==
    ASSUME SessionInv, TypeOK', Watchdog
    PROVE  SessionInv'
  <1>1. CASE RelayedFamilies = {}
    BY <1>1, ShutdownInv DEF Watchdog
  <1>2. CASE RelayedFamilies # {}
    <2>1. /\ UNCHANGED <<open, quota, bps, alloc, perm, bound>>
          /\ watchdog = 0
          /\ watchdog' # Off
      BY <1>2, TurnSessionAssumption DEF Watchdog, Off
    <2>2. NothingLeftBehind' /\ AllocationCounted' /\ WatchdogRuns'
      BY <2>1 DEF SessionInv, NothingLeftBehind, AllocationCounted,
                  WatchdogRuns, alloc, bound, RelayedFamilies, Off
    <2> QED BY <2>1, <2>2, KeepsBindings
  <1> QED BY <1>1, <1>2

LEMMA StepInv ==
    ASSUME SessionInv, [Next]_vars
    PROVE  SessionInv'
  <1>t. TypeOK'
    BY TypeStep DEF SessionInv
  <1>1. CASE UNCHANGED <<account, alloc, perm, bound>>
    <2>1. NothingLeftBehind' /\ AllocationCounted' /\ WatchdogRuns'
      BY <1>1 DEF SessionInv, NothingLeftBehind, AllocationCounted,
                  WatchdogRuns, account, alloc, bound, RelayedFamilies
    <2> QED BY <1>1, <1>t, <2>1, KeepsBindings
  <1>2. CASE OpenSession
    <2>1. NothingLeftBehind' /\ AllocationCounted' /\ WatchdogRuns'
      BY <1>2, TurnSessionAssumption
      DEF OpenSession, SessionInv, NothingLeftBehind, AllocationCounted,
          WatchdogRuns, alloc, bound, RelayedFamilies, Off
    <2> QED BY <1>2, <1>t, <2>1, KeepsBindings DEF OpenSession
  <1>3. CASE ClientGone
    BY <1>3, ShutdownInv DEF ClientGone
  <1>4. CASE Request
    <2>1. ASSUME NEW fams \in SUBSET Families,
                 \/ \E l \in Requested, m \in SessionTimes :
                      Refresh(fams, Adjusted(l, m))
                 \/ Refresh(fams, 0)
          PROVE  SessionInv'
      <3>1. PICK life \in 0..MaxLifetime : Refresh(fams, life)
        BY <2>1, AdjustedRange, TurnSessionAssumption
      <3> QED BY <1>t, <3>1, RefreshInv
    <2>2. CASE AllocateAgain
      BY <1>1, <2>2 DEF AllocateAgain
    <2>3. CASE \E H \in SUBSET Hosts : CreatePermission(H)
      BY <1>t, <2>3, PermissionInv
    <2>4. CASE \E c \in Channels, a \in Addresses : ChannelBind(c, a)
      BY <1>t, <2>4, BindInv
    <2> QED
      BY <1>t, <1>4, <2>1, <2>2, <2>3, <2>4, AllocateInv DEF Request
  <1>5. CASE Datagram
    BY <1>1, <1>5, DatagramType DEF SessionInv
  <1>6. CASE Timer
    BY <1>t, <1>6, WatchdogInv, AllocationTimeoutInv, PermissionTimeoutInv,
       ChannelTimeoutInv DEF Timer
  <1>7. CASE Tick
    BY <1>t, <1>7, TickInv
  <1> QED
    BY <1>1, <1>2, <1>3, <1>4, <1>5, <1>6, <1>7 DEF Next, vars

LEMMA InitInv == Init => SessionInv
  <1>1. Init => ChannelsPaired
    BY TurnSessionAssumption DEF Init, ChannelsPaired
  <1> QED
    BY <1>1, TypeInit
    DEF Init, SessionInv, ChannelsCovered, PermittedHosts, BindingsReal,
        NothingLeftBehind, AllocationCounted, WatchdogRuns

LEMMA Inductive == Spec => []SessionInv
  <1>1. SessionInv /\ [Next]_vars => SessionInv'
    BY StepInv
  <1> QED BY <1>1, InitInv, PTL DEF Spec

(* The map of the allocation and the maps of the permissions always name   *)
(* the same bindings (turn_channel_delete, turn_permission_clean,          *)
(* allocation_get_new_ch_info).                                            *)
THEOREM MapsAgree == Spec => []ChannelsPaired
  <1>1. SessionInv => ChannelsPaired
    BY DEF SessionInv
  <1> QED BY <1>1, Inductive, PTL

(* No channel is left whose permission is gone: chn->owner is never stale. *)
THEOREM NoStaleOwner == Spec => []ChannelsCovered
  <1>1. SessionInv => ChannelsCovered
    BY DEF SessionInv
  <1> QED BY <1>1, Inductive, PTL

(* shutdown_client_connection and the timeouts leave no socket, permission *)
(* or channel behind, and give quota and bandwidth back.                   *)
THEOREM ClosedClean == Spec => []NothingLeftBehind
  <1>1. SessionInv => NothingLeftBehind
    BY DEF SessionInv
  <1> QED BY <1>1, Inductive, PTL

(* An allocation always has a socket with a timer and is in the quota. *)
THEOREM Counted == Spec => []AllocationCounted
  <1>1. SessionInv => AllocationCounted
    BY DEF SessionInv
  <1> QED BY <1>1, Inductive, PTL
-----------------------------------------------------------------------------
(* A step that relays nothing clears the wire. *)
LEMMA Relays ==
    ASSUME [Next]_vars
    PROVE  \/ UNCHANGED vars
           \/ Datagram
           \/ wire' = None
  <1>1. ASSUME Shutdown
        PROVE  wire' = None
    BY <1>1 DEF Shutdown, Silent
  <1>2. CASE Request
    BY <1>2 DEF Request, AllocateRefused, AllocateFailed, Allocate, Refresh,
                AllocateAgain, CreatePermission, ChannelBind, Silent
  <1>3. CASE Timer
    <2>1. ASSUME NEW f \in Families, AllocationTimeout(f)
          PROVE  wire' = None
      BY <1>1, <2>1 DEF AllocationTimeout, Silent
    <2>2. CASE Watchdog
      BY <1>1, <2>2 DEF Watchdog, Silent
    <2> QED
      BY <1>3, <2>1, <2>2 DEF Timer, PermissionTimeout, ChannelTimeout, Silent
  <1> QED
    BY <1>1, <1>2, <1>3 DEF Next, OpenSession, ClientGone, Tick, Silent

(* The host of a datagram has a permission when it passes. *)
LEMMA DatagramCovered ==
    ASSUME SessionInv, Datagram
    PROVE  /\ wire'.addr \in Addresses
           /\ perm[wire'.addr[1]] # Off
           /\ wire'.via # NoChannel => peer[wire'.via] = wire'.addr
  <1>1. ASSUME NEW a \in Addresses, SendIndication(a)
        PROVE  /\ wire'.addr \in Addresses
               /\ perm[wire'.addr[1]] # Off
               /\ wire'.via = NoChannel
    BY <1>1 DEF SendIndication
  <1>2. ASSUME NEW a \in Addresses, PeerData(a)
        PROVE  /\ wire'.addr \in Addresses
               /\ perm[wire'.addr[1]] # Off
               /\ wire'.via # NoChannel => peer[wire'.via] = wire'.addr
    <2>1. wire'.addr = a /\ wire'.via = chns[a] /\ perm[a[1]] # Off
      BY <1>2 DEF PeerData
    <2>2. chns[a] # NoChannel => chns[a] \in Channels
      BY DEF SessionInv, TypeOK
    <2> QED BY <2>1, <2>2 DEF SessionInv, ChannelsPaired
  <1>3. ASSUME NEW c \in Channels, ChannelData(c)
        PROVE  /\ wire'.addr \in Addresses
               /\ perm[wire'.addr[1]] # Off
               /\ peer[wire'.via] = wire'.addr
    BY <1>3 DEF ChannelData, SessionInv, TypeOK, ChannelsCovered
  <1> QED BY <1>1, <1>2, <1>3 DEF Datagram

(* Whatever is relayed, by a Send indication, over a channel or from a     *)
(* peer, is covered by a permission of an allowed host at that moment.     *)
THEOREM RelaysCovered == Spec => []TrafficCovered
  <1>1. Init => TrafficCovered
    BY DEF Init, TrafficCovered
  <1>2. ASSUME SessionInv, TrafficCovered, [Next]_vars
        PROVE  TrafficCovered'
    <2>1. CASE UNCHANGED vars
      BY <1>2, <2>1 DEF TrafficCovered, vars, bound
    <2>2. CASE wire' = None
      BY <2>2 DEF TrafficCovered
    <2>3. CASE Datagram
      <3>1. UNCHANGED <<perm, bound>>
        BY <1>2, <2>3, DatagramType DEF SessionInv
      <3>2. /\ wire'.addr \in Addresses
            /\ perm[wire'.addr[1]] # Off
            /\ wire'.via # NoChannel => peer[wire'.via] = wire'.addr
        BY <1>2, <2>3, DatagramCovered
      <3>3. wire'.addr[1] \notin Denied
        BY <1>2, <3>2 DEF SessionInv, PermittedHosts, Addresses
      <3> QED BY <3>1, <3>2, <3>3 DEF TrafficCovered, bound
    <2> QED BY <1>2, <2>1, <2>2, <2>3, Relays
  <1>3. SessionInv /\ TrafficCovered /\ [Next]_vars => TrafficCovered'
    BY <1>2
  <1> QED BY <1>1, <1>3, Inductive, PTL DEF Spec
-----------------------------------------------------------------------------
(* With no failed family, and an external address of a family that has a   *)
(* socket if there is one, the first family in the answer has a socket.    *)
FirstThere ==
    RelayedFamilies # {} /\ failed = {}
      /\ ExternalIp \in RelayedFamilies \cup {"none"}
    => FirstFamily \in RelayedFamilies

LEMMA FirstIsThere == FirstThere /\ FirstThere'
  BY DEF FirstThere, FirstFamily, ToldFamily, RelayedFamilies, Families

(* The answer to an Allocate request: its lifetime is that of each socket  *)
(* it has just made.                                                       *)
LEMMA AllocateTells ==
    ASSUME NEW fams \in SUBSET Families, NEW got \in SUBSET Families,
           NEW t \in Tids, NEW l \in Requested, NEW m \in SessionTimes,
           Allocate(t, fams, got, l, m)
    PROVE  AnswerHolds'
  <1> DEFINE life == Adjusted(l, m)
  <1>1. life # Off
    BY AdjustedRange, TurnSessionAssumption DEF Off
  <1> HIDE DEF life
  <1>2. /\ answer'.life = life
        /\ answer'.told = {f \in Families : relay'[f] # Off /\ f \notin failed'}
    BY DEF Allocate, life, Named
  <1>3. PICK f \in got : TRUE
    BY DEF Allocate
  <1>4. f \in Families /\ relay'[f] = life
    BY DEF Allocate, RelaysCreated, life
  <1>5. RelayedFamilies' # {}
    BY <1>1, <1>4 DEF RelayedFamilies
  <1> QED BY <1>1, <1>2, <1>4, <1>5, FirstIsThere DEF AnswerHolds, FirstThere

(* The answer once more: a valid allocation has a socket, and so has the   *)
(* first family in the answer.                                             *)
LEMMA AgainTells ==
    ASSUME SessionInv, AllocateAgain
    PROVE  AnswerHolds'
  <1> SUFFICES ASSUME failed = {}, relay[FirstFamily] # 0,
                      ExternalIp \in RelayedFamilies \cup {"none"}
               PROVE  /\ FirstFamily \in RelayedFamilies
                      /\ \E f \in Named : relay[f] = LifeTold(FirstFamily)
    BY DEF AllocateAgain, AnswerHolds, alloc, FirstFamily, RelayedFamilies
  <1>1. RelayedFamilies # {}
    BY DEF SessionInv, AllocationCounted, AllocateAgain
  <1>2. FirstFamily \in RelayedFamilies
    BY <1>1, FirstIsThere DEF FirstThere
  <1> QED BY <1>2 DEF Named, LifeTold, RelayedFamilies

(* A step that makes no answer to Allocate leaves none of the last one. *)
LEMMA Answers ==
    ASSUME [Next]_vars
    PROVE  \/ UNCHANGED vars
           \/ \E fams \in SUBSET Families, got \in SUBSET Families,
                 t \in Tids, l \in Requested, m \in SessionTimes :
                Allocate(t, fams, got, l, m)
           \/ AllocateAgain
           \/ answer'.kind \in {"none", "refresh"}
  <1>1. ASSUME Silent
        PROVE  answer'.kind = "none"
    BY <1>1 DEF Silent, None
  <1>2. ASSUME Shutdown
        PROVE  answer'.kind = "none"
    BY <1>1, <1>2 DEF Shutdown
  <1>3. CASE Request
    <2>1. ASSUME NEW fams, NEW life, Refresh(fams, life)
          PROVE  answer'.kind = "refresh"
      BY <2>1 DEF Refresh
    <2> QED
      BY <1>1, <1>3, <2>1
      DEF Request, AllocateRefused, AllocateFailed, CreatePermission,
          ChannelBind
  <1>4. CASE Datagram
    BY <1>4 DEF Datagram, SendIndication, PeerData, ChannelData, None
  <1>5. CASE Timer
    <2>1. ASSUME NEW f \in Families, AllocationTimeout(f)
          PROVE  answer'.kind = "none"
      BY <1>1, <1>2, <2>1 DEF AllocationTimeout
    <2>2. CASE Watchdog
      BY <1>1, <1>2, <2>2 DEF Watchdog
    <2> QED
      BY <1>1, <1>5, <2>1, <2>2 DEF Timer, PermissionTimeout, ChannelTimeout
  <1> QED
    BY <1>1, <1>2, <1>3, <1>4, <1>5 DEF Next, OpenSession, ClientGone, Tick

(* What an Allocate answer says of the time left is true of a socket it    *)
(* names, also when the request is repeated after refreshes, timeouts and  *)
(* the loss of a family, with or without an external address, but for the  *)
(* three cases AnswerHolds leaves out.                                     *)
THEOREM AnswersAreTrue == Spec => []AnswerHolds
  <1>1. Init => AnswerHolds
    BY DEF Init, AnswerHolds, None
  <1>2. ASSUME SessionInv, AnswerHolds, [Next]_vars
        PROVE  AnswerHolds'
    <2>1. CASE UNCHANGED vars
      BY <1>2, <2>1 DEF AnswerHolds, vars, alloc, FirstFamily, RelayedFamilies
    <2>2. CASE answer'.kind \in {"none", "refresh"}
      BY <2>2 DEF AnswerHolds
    <2> QED BY <1>2, <2>1, <2>2, Answers, AllocateTells, AgainTells
  <1>3. SessionInv /\ AnswerHolds /\ [Next]_vars => AnswerHolds'
    BY <1>2
  <1> QED BY <1>1, <1>3, Inductive, PTL DEF Spec
-----------------------------------------------------------------------------
(* What a step of an open session does to permissions. *)
Lapses(h) == perm[h] = 0 /\ perm' = [perm EXCEPT ![h] = Off]

Grants(H, d) ==
    /\ valid
    /\ H \cap Denied = {}
    /\ perm' = [h \in Hosts |-> IF h \in H THEN d ELSE perm[h]]

Passes ==
    /\ \A h \in Hosts : perm[h] # 0
    /\ perm' = [h \in Hosts |-> IF perm[h] = Off THEN Off ELSE perm[h] - 1]

LEMMA PermissionSteps ==
    ASSUME SessionInv, [Next]_vars
    PROVE  \/ Shutdown
           \/ Datagram
           \/ UNCHANGED vars
           \/ /\ wire' = None
              /\ \/ UNCHANGED perm /\ (valid => valid')
                 \/ /\ UNCHANGED valid
                    /\ \/ \E h \in Hosts : Lapses(h)
                       \/ \E H \in SUBSET Hosts,
                             d \in {PermissionLifetime, ChannelLifetime} :
                            Grants(H, d)
                       \/ Passes
  <1> DEFINE Goal == \/ Shutdown
                     \/ UNCHANGED perm /\ (valid => valid')
                     \/ /\ UNCHANGED valid
                        /\ \/ \E h \in Hosts : Lapses(h)
                           \/ \E H \in SUBSET Hosts,
                                 d \in {PermissionLifetime, ChannelLifetime} :
                                Grants(H, d)
                           \/ Passes
  <1> SUFFICES ASSUME ~ Datagram, ~ UNCHANGED vars
               PROVE  Goal
    BY Relays
  <1>1. CASE Request
    <2>1. ASSUME NEW H \in SUBSET Hosts, CreatePermission(H)
          PROVE  Goal
      <3>1. Grants(H, PermissionLifetime)
        BY <2>1, PermissionStep DEF Grants, CreatePermission
      <3>2. UNCHANGED valid
        BY <2>1 DEF CreatePermission, alloc
      <3> QED BY <3>1, <3>2
    <2>2. ASSUME NEW c \in Channels, NEW a \in Addresses, ChannelBind(c, a)
          PROVE  Goal
      <3>1. a[1] \in Hosts /\ a # NoPeer
        BY TurnSessionAssumption DEF Addresses
      <3>2. a[1] \notin Denied
        BY <2>2, <3>1 DEF ChannelBind, MayBind, SessionInv, ChannelsCovered,
                          PermittedHosts
      <3>3. Grants({a[1]}, ChannelLifetime)
        BY <2>2, <3>1, <3>2 DEF ChannelBind, Grants, SessionInv, TypeOK
      <3>4. UNCHANGED valid
        BY <2>2 DEF ChannelBind, alloc
      <3> QED BY <3>1, <3>3, <3>4
    <2>3. CASE ~ \/ \E H \in SUBSET Hosts : CreatePermission(H)
                 \/ \E c \in Channels, a \in Addresses : ChannelBind(c, a)
      <3>1. UNCHANGED perm /\ (valid => valid')
        BY <1>1, <2>3
        DEF Request, AllocateRefused, AllocateFailed, Allocate, Refresh,
            AllocateAgain, Admitted, alloc
      <3> QED BY <3>1
    <2> QED BY <2>1, <2>2, <2>3
  <1>2. CASE Timer
    <2>1. ASSUME NEW h \in Hosts, PermissionTimeout(h)
          PROVE  Goal
      <3>1. Lapses(h) /\ UNCHANGED valid
        BY <2>1 DEF PermissionTimeout, PermissionClean, Lapses, alloc
      <3> QED BY <3>1
    <2>2. ASSUME NEW f \in Families, AllocationTimeout(f)
          PROVE  Goal
      BY <2>2 DEF AllocationTimeout
    <2>3. CASE Watchdog
      BY <2>3 DEF Watchdog, alloc
    <2>4. ASSUME NEW c \in Channels, ChannelTimeout(c)
          PROVE  Goal
      BY <2>4 DEF ChannelTimeout, alloc
    <2> QED BY <1>2, <2>1, <2>2, <2>3, <2>4 DEF Timer
  <1>3. CASE Tick
    <2>1. Passes /\ UNCHANGED valid
      BY <1>3 DEF Tick, Passes, Less
    <2> QED BY <2>1
  <1>4. CASE OpenSession \/ ClientGone
    BY <1>4 DEF OpenSession, ClientGone, alloc
  <1> QED BY <1>1, <1>2, <1>3, <1>4 DEF Next

(* A permission lasts: no step of an open session takes time off it but    *)
(* the clock and a CreatePermission, which leaves a full PermissionLifetime*)
THEOREM PermissionsLast == Spec => PermissionHonoured
  <1>1. ASSUME SessionInv, [Next]_vars
        PROVE  [\A h \in Hosts :
                  perm[h] > 0 /\ open' =>
                    /\ perm'[h] # Off
                    /\ perm'[h] < perm[h] - 1
                         => perm'[h] >= PermissionLifetime]_vars
    <2> SUFFICES ASSUME NEW h \in Hosts, perm[h] > 0, open',
                        ~ UNCHANGED vars
                 PROVE  /\ perm'[h] # Off
                        /\ perm'[h] < perm[h] - 1
                             => perm'[h] >= PermissionLifetime
      OBVIOUS
    <2>1. ~ Shutdown
      BY DEF Shutdown, AccountClosed
    <2>2. perm[h] \in Nat /\ perm[h] # 0
      BY <1>1 DEF SessionInv, TypeOK, Due, Off
    <2>3. CASE UNCHANGED perm
      BY <2>2, <2>3 DEF Off
    <2>4. CASE Datagram
      BY <1>1, <2>3, <2>4, DatagramType DEF SessionInv
    <2>5. CASE \E g \in Hosts : Lapses(g)
      <3>1. perm'[h] = perm[h]
        BY <1>1, <2>2, <2>5 DEF Lapses, SessionInv, TypeOK
      <3> QED BY <2>2, <3>1 DEF Off
    <2>6. CASE \E H \in SUBSET Hosts,
                  d \in {PermissionLifetime, ChannelLifetime} : Grants(H, d)
      <3>1. perm'[h] = perm[h]
              \/ perm'[h] \in {PermissionLifetime, ChannelLifetime}
        BY <2>6 DEF Grants
      <3> QED BY <2>2, <3>1, TurnSessionAssumption DEF Off
    <2>7. CASE Passes
      BY <2>2, <2>7 DEF Passes, Off
    <2> QED
      BY <1>1, <2>1, <2>3, <2>4, <2>5, <2>6, <2>7, PermissionSteps
  <1>2. SessionInv /\ [Next]_vars =>
          [\A h \in Hosts :
             perm[h] > 0 /\ open' =>
               /\ perm'[h] # Off
               /\ perm'[h] < perm[h] - 1
                    => perm'[h] >= PermissionLifetime]_vars
    BY <1>1
  <1> QED BY <1>2, Inductive, PTL DEF Spec, PermissionHonoured
-----------------------------------------------------------------------------
(* Every step of a session is a step of TurnLease, or leaves it alone. *)
LEMMA LeaseStep ==
    ASSUME SessionInv, SessionInv', [Next]_vars
    PROVE  [Lease!Next]_(Lease!vars)
  <1> DEFINE passing == IF wire = None THEN {} ELSE {wire.addr[1]}
  <1>t. valid \in BOOLEAN /\ valid' \in BOOLEAN
    BY DEF SessionInv, TypeOK
  <1>1. CASE UNCHANGED vars
    BY <1>1 DEF vars, alloc, Lease!vars
  <1>2. CASE Shutdown
    <2>1. passing' = {} /\ valid' = FALSE
      BY <1>2 DEF Shutdown, AllocationCleared, Silent
    <2>2. perm' = [h \in Hosts |-> Off]
      BY <1>2 DEF Shutdown, AllocationCleared
    <2>3. Lease!End
      BY <2>1, <2>2 DEF Lease!End, Lease!NoLeases, Lease!Off, Off
    <2> QED BY <2>3 DEF Lease!Next
  <1>3. CASE Datagram
    <2>1. /\ wire'.addr \in Addresses
          /\ perm[wire'.addr[1]] # Off
      BY <1>3, DatagramCovered
    <2>2. /\ valid
          /\ UNCHANGED <<valid, perm>>
          /\ wire' \in [kind : {"peer", "client"}, addr : Addresses,
                        via : Channels \cup {NoChannel}]
      BY <1>3, DatagramType DEF SessionInv, alloc
    <2>3. wire' # None
      BY <2>2 DEF None
    <2>4. passing' = {wire'.addr[1]} /\ wire'.addr[1] \in Hosts
      BY <2>1, <2>3 DEF Addresses
    <2>5. Lease!Forward(wire'.addr[1])
      BY <2>1, <2>2, <2>4 DEF Lease!Forward, Lease!Off, Off
    <2> QED BY <2>4, <2>5 DEF Lease!Next
  <1>4. ASSUME wire' = None
        PROVE  passing' = {}
    BY <1>4
  <1>5. CASE wire' = None /\ UNCHANGED perm /\ (valid => valid')
    <2>1. Lease!Quiet \/ Lease!Start
      <3>1. CASE valid' = valid
        BY <1>4, <1>5, <3>1 DEF Lease!Quiet
      <3>2. CASE valid' # valid
        <4>1. valid' = TRUE
          BY <1>t, <1>5, <3>2
        <4> QED BY <1>4, <1>5, <4>1 DEF Lease!Start
      <3> QED BY <3>1, <3>2
    <2> QED BY <2>1 DEF Lease!Next
  <1>6. CASE wire' = None /\ UNCHANGED valid /\ \E h \in Hosts : Lapses(h)
    <2>1. PICK h \in Hosts : Lapses(h)
      BY <1>6
    <2>2. Lease!Lapse(h)
      BY <1>4, <1>6, <2>1 DEF Lapses, Lease!Lapse, Lease!Off, Off
    <2> QED BY <2>2 DEF Lease!Next
  <1>7. CASE /\ wire' = None
             /\ UNCHANGED valid
             /\ \E H \in SUBSET Hosts,
                   d \in {PermissionLifetime, ChannelLifetime} : Grants(H, d)
    <2>1. PICK H \in SUBSET Hosts,
               d \in {PermissionLifetime, ChannelLifetime} : Grants(H, d)
      BY <1>7
    <2>2. H \subseteq Hosts \ Denied
      BY <2>1 DEF Grants
    <2>3. Lease!Grant(H, d)
      BY <1>4, <1>7, <2>1, <2>2 DEF Grants, Lease!Grant
    <2> QED BY <2>3 DEF Lease!Next
  <1>8. CASE wire' = None /\ UNCHANGED valid /\ Passes
    <2>1. Lease!Pass
      BY <1>4, <1>8 DEF Passes, Lease!Pass, Lease!Off, Off
    <2> QED BY <2>1 DEF Lease!Next
  <1> QED
    BY <1>1, <1>2, <1>3, <1>5, <1>6, <1>7, <1>8, PermissionSteps

(* The session implements TurnLease: whatever its maps and timers do, a    *)
(* datagram passes only during a lease of an allowed host, and a lease     *)
(* runs as long as it was granted.                                         *)
THEOREM KeepsLease == Spec => LeaseSpec
  <1>1. Init => Lease!Init
    BY DEF Init, Lease!Init, Lease!NoLeases, Lease!Off, Off
  <1>2. SessionInv /\ SessionInv' /\ [Next]_vars => [Lease!Next]_(Lease!vars)
    BY LeaseStep
  <1> QED BY <1>1, <1>2, Inductive, PTL DEF Spec, LeaseSpec, Lease!Spec
=============================================================================
