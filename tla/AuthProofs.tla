----------------------------- MODULE AuthProofs -----------------------------
(***************************************************************************)
(* What AuthService guarantees: the invite counter, and further down the   *)
(* sessions and magic links.                                               *)
(*                                                                         *)
(* What the invite counter guarantees for any number of logins, any limit  *)
(* and any clock.  The counter facts need, besides the stored `uses`, the  *)
(* copies that logins hold between their GET and their SETEX: a copy that  *)
(* is about to be written must itself be no larger than the number of      *)
(* accepted logins, and below the limit.                                   *)
(***************************************************************************)
EXTENDS Invites, Accounts, FiniteSetTheorems, TLAPS

(* Before the token is returned nobody can present it. *)
Unmade == ~made => (\A r \in Requests : pc[r] = "idle") /\ uses = 0

(* A login has not written before it is done updating. *)
WritesEnd == written \cap Updating = {}

(* The copies held between GET and SETEX, for CounterSound. *)
CopiesSound ==
    \A r \in Updating :
        /\ got[r] < Cardinality(Accepted)
        /\ max # 0 => got[r] < max

(* The same for SerialExact: there is at most one copy, and it is exact. *)
CopyExact ==
    ~clash /\ Uncounted = {} =>
        /\ \A r, q \in Updating : r = q
        /\ \A r \in Updating : got[r] + 1 = Cardinality(Accepted)

IInv ==
    /\ TypeOK
    /\ Unmade
    /\ WritesEnd
    /\ CounterSound
    /\ CopiesSound
    /\ RefusalEarned
    /\ CopyExact
    /\ SerialExact

(* The number of accepted logins is a number, and a login that passes its  *)
(* GET adds one to it.                                                     *)
LEMMA AcceptedCount ==
    ASSUME NEW r \in Requests, r \notin Accepted
    PROVE  /\ IsFiniteSet(Accepted)
           /\ Cardinality(Accepted) \in Nat
           /\ Cardinality(Accepted \cup {r}) = Cardinality(Accepted) + 1
<1>1. IsFiniteSet(Accepted)
  BY FS_Subset, InvitesAssumption DEF Accepted
<1>2. Cardinality(Accepted) \in Nat
  BY <1>1, FS_CardinalityType
<1>3. Cardinality(Accepted \cup {r}) = Cardinality(Accepted) + 1
  BY <1>1, FS_AddElement
<1> QED BY <1>1, <1>2, <1>3

LEMMA AcceptedFinite == IsFiniteSet(Accepted) /\ Cardinality(Accepted) \in Nat
<1>1. IsFiniteSet(Accepted)
  BY FS_Subset, InvitesAssumption DEF Accepted
<1> QED BY <1>1, FS_CardinalityType

(* Initially nothing is accepted and nothing is stored. *)
LEMMA Initially == Init => IInv
<1> SUFFICES ASSUME Init PROVE IInv
  OBVIOUS
<1>1. Accepted = {} /\ Updating = {}
  BY DEF Init, Accepted, Updating, Passed
<1>2. Cardinality(Accepted) = 0
  BY <1>1, FS_EmptySet
<1>3. TypeOK
  <2>1. pc \in [Requests -> Passed \cup {"idle", "exhausted", "invalid", "unavailable"}]
    BY DEF Init
  <2>2. got \in [Requests -> Nat] /\ ttl \in [Requests -> Int]
    BY DEF Init
  <2>3. written \in SUBSET Accepted /\ late \in SUBSET Accepted
    BY DEF Init
  <2> QED BY <2>1, <2>2, <2>3 DEF Init, TypeOK
<1>4. Unmade /\ WritesEnd /\ RefusalEarned
  BY <1>1 DEF Init, Unmade, WritesEnd, RefusalEarned
<1>5. CounterSound /\ CopiesSound /\ CopyExact /\ SerialExact
  BY <1>1, <1>2 DEF Init, CounterSound, CopiesSound, CopyExact, SerialExact
<1> QED BY <1>3, <1>4, <1>5 DEF IInv

(* The steps that leave pc, and with it the logins' progress, alone. *)
LEMMA ClockStep ==
    ASSUME IInv, \/ Tick
                 \/ \E m \in Limits, e \in Lifetimes : Create(m, e)
                 \/ UNCHANGED vars
    PROVE  IInv'
<1>1. pc' = pc /\ got' = got /\ uses' = uses /\ written' = written /\ clash' = clash
  BY DEF Tick, Create, vars, promise, invite
<1>2. Accepted' = Accepted /\ Updating' = Updating /\ Uncounted' = Uncounted
  BY <1>1 DEF Accepted, Updating, Uncounted
<1>3. Cardinality(Accepted) \in Nat
  BY AcceptedFinite
<1>4. CASE Tick
  <2>1. TypeOK'
    BY <1>2, <1>4, InvitesAssumption DEF IInv, TypeOK, Tick, promise
  <2>2. max' = max /\ made' = made /\ (left' > 0 => left > 0)
    BY <1>4 DEF Tick, promise, IInv, TypeOK
  <2>3. (Unmade /\ WritesEnd /\ CounterSound /\ CopiesSound /\ RefusalEarned)'
    BY <1>1, <1>2, <2>2 DEF IInv, Unmade, WritesEnd, CounterSound, CopiesSound, RefusalEarned
  <2>4. (CopyExact /\ SerialExact)'
    BY <1>1, <1>2, <2>2 DEF IInv, CopyExact, SerialExact
  <2> QED BY <2>1, <2>3, <2>4 DEF IInv
<1>5. CASE \E m \in Limits, e \in Lifetimes : Create(m, e)
  <2>1. PICK m \in Limits, e \in Lifetimes : Create(m, e)
    BY <1>5
  <2>2. uses = 0 /\ Accepted = {} /\ Updating = {}
    BY <2>1 DEF IInv, Unmade, Create, Accepted, Updating, Passed
  <2>3. Cardinality(Accepted) = 0
    BY <2>2, FS_EmptySet
  <2>4. \A r \in Requests : pc[r] = "idle"
    BY <2>1 DEF IInv, Unmade, Create
  <2>5. InviteTtl * Second \in Nat
    BY InvitesAssumption
  <2>6. TypeOK'
    BY <1>2, <2>1, <2>5, InvitesAssumption DEF IInv, TypeOK, Create
  <2>7. (Unmade /\ WritesEnd /\ RefusalEarned)'
    BY <1>1, <1>2, <2>1, <2>4 DEF IInv, Unmade, WritesEnd, RefusalEarned, Create
  <2>8. CounterSound' /\ CopiesSound' /\ CopyExact' /\ SerialExact'
    BY <1>1, <1>2, <2>2, <2>3, <2>6 DEF CounterSound, CopiesSound, CopyExact, SerialExact, TypeOK
  <2> QED BY <2>6, <2>7, <2>8 DEF IInv
<1>6. CASE UNCHANGED vars
  BY <1>1, <1>2, <1>6 DEF vars, promise, invite, IInv, TypeOK, Unmade, WritesEnd, CounterSound,
     CopiesSound, RefusalEarned, CopyExact, SerialExact
<1> QED BY <1>4, <1>5, <1>6

(* A login that passes its GET: one more is accepted, and holds a copy. *)
LEMMA GetStep ==
    ASSUME IInv, NEW r \in Requests, Get(r)
    PROVE  IInv'
<1> DEFINE N == Cardinality(Accepted)
<1>1. pc' = [pc EXCEPT ![r] = "ttl"] /\ pc[r] = "idle" /\ pc \in [Requests -> Passed \cup {"idle", "exhausted", "invalid", "unavailable"}]
  BY DEF Get, IInv, TypeOK
<1>2. r \notin Accepted /\ r \notin Updating
  BY <1>1 DEF Accepted, Updating, Passed
<1>3. Accepted' = Accepted \cup {r} /\ Updating' = Updating \cup {r}
  BY <1>1 DEF Accepted, Updating, Passed
<1>4. N \in Nat /\ Cardinality(Accepted') = N + 1
  BY <1>2, <1>3, AcceptedCount
<1>5. Uncounted' = Uncounted
  BY <1>2, <1>3 DEF Uncounted, Get, IInv, TypeOK
<1> HIDE DEF N
<1>6. TypeOK'
  BY <1>1, <1>3 DEF Get, IInv, TypeOK, promise, invite, Passed
<1>7. uses \in Nat /\ got \in [Requests -> Nat] /\ max \in Nat /\ uses <= N /\ (max # 0 => uses < max)
  BY DEF Get, IInv, TypeOK, CounterSound, Exhausted, N
<1>8. made' /\ uses' = uses /\ max' = max /\ left' = left /\ written' = written
  BY DEF Get, promise, invite
<1>9. got' = [got EXCEPT ![r] = uses]
  BY DEF Get
<1>10. Unmade' /\ WritesEnd'
  BY <1>2, <1>3, <1>8 DEF Unmade, WritesEnd, IInv, TypeOK
<1>11. CounterSound'
  BY <1>4, <1>7, <1>8 DEF CounterSound
<1>12. CopiesSound'
  <2> SUFFICES ASSUME NEW q \in Updating' PROVE got'[q] < N + 1 /\ (max # 0 => got'[q] < max)
    BY <1>4, <1>8 DEF CopiesSound
  <2>1. CASE q = r
    BY <2>1, <1>7, <1>9, <1>4
  <2>2. CASE q \in Updating /\ q # r
    <3>1. got[q] < N /\ (max # 0 => got[q] < max) /\ q \in Requests
      BY <2>2 DEF IInv, CopiesSound, N, Updating
    <3> QED BY <2>2, <3>1, <1>7, <1>9, <1>4
  <2> QED BY <2>1, <2>2, <1>3
<1>13. RefusalEarned'
  <2>1. ASSUME NEW q \in Requests, pc'[q] = "exhausted" PROVE max # 0 /\ max <= N
    BY <2>1, <1>1 DEF IInv, RefusalEarned, N
  <2> QED BY <2>1, <1>4, <1>7, <1>8 DEF RefusalEarned
<1>14. CopyExact' /\ SerialExact'
  <2> SUFFICES ASSUME ~clash', Uncounted' = {}
               PROVE  /\ \A q, p \in Updating' : q = p
                      /\ \A q \in Updating' : got'[q] + 1 = N + 1
                      /\ max # 0 => N + 1 <= max
                      /\ Updating' # {}
    BY <1>4, <1>8 DEF CopyExact, SerialExact
  <2>1. ~clash /\ Updating = {} /\ left > 0
    BY DEF Get
  <2>2. uses = N
    BY <2>1, <1>5 DEF IInv, SerialExact, N
  <2>3. Updating' = {r}
    BY <2>1, <1>3
  <2> QED BY <2>2, <2>3, <1>4, <1>7, <1>9
<1> QED BY <1>6, <1>10, <1>11, <1>12, <1>13, <1>14 DEF IInv

(* A login that is turned away, and the steps outside the update. *)
LEMMA AsideStep ==
    ASSUME IInv, NEW r \in Requests,
           \/ GetExhausted(r) \/ GetInvalid(r) \/ GetFails(r) \/ Ttl(r) \/ Lookup(r)
    PROVE  IInv'
<1> DEFINE N == Cardinality(Accepted)
<1>1. N \in Nat
  BY AcceptedFinite
<1>2. pc \in [Requests -> Passed \cup {"idle", "exhausted", "invalid", "unavailable"}]
  BY DEF IInv, TypeOK
<1>3. Accepted' = Accepted /\ Updating' = Updating
  BY <1>2 DEF GetExhausted, GetInvalid, GetFails, Ttl, Lookup, Accepted, Updating, Passed
<1>4. /\ UNCHANGED <<made, max, expires, age, left, uses, got, written, clash, late>>
      /\ made \/ pc[r] # "idle"
  BY DEF GetExhausted, GetInvalid, GetFails, Ttl, Lookup, promise, invite
<1>5. Uncounted' = Uncounted
  BY <1>3, <1>4 DEF Uncounted
<1>6. ttl' \in [Requests -> Int]
  <2>1. Remaining \in Int
    BY InvitesAssumption DEF Remaining, IInv, TypeOK
  <2> QED BY <2>1 DEF GetExhausted, GetInvalid, GetFails, Ttl, Lookup, IInv, TypeOK
<1>7. pc' \in [Requests -> Passed \cup {"idle", "exhausted", "invalid", "unavailable"}]
  BY <1>2 DEF GetExhausted, GetInvalid, GetFails, Ttl, Lookup, Passed
<1>8. TypeOK'
  BY <1>3, <1>4, <1>6, <1>7 DEF IInv, TypeOK
<1>9. Unmade'
  BY <1>4 DEF IInv, Unmade
<1>10. (WritesEnd /\ CounterSound /\ CopiesSound /\ CopyExact /\ SerialExact)'
  BY <1>3, <1>4, <1>5 DEF IInv, WritesEnd, CounterSound, CopiesSound, CopyExact, SerialExact
<1>11. RefusalEarned'
  <2>1. CASE GetExhausted(r)
    <3>1. max # 0 /\ max <= N
      BY <2>1, <1>1 DEF GetExhausted, Exhausted, IInv, CounterSound, TypeOK
    <3> QED BY <3>1, <1>3, <1>4 DEF RefusalEarned
  <2>2. CASE ~GetExhausted(r)
    <3>1. \A q \in Requests : pc'[q] = "exhausted" => pc[q] = "exhausted"
      BY <2>2, <1>2 DEF GetInvalid, GetFails, Ttl, Lookup
    <3> QED BY <3>1, <1>3, <1>4 DEF IInv, RefusalEarned
  <2> QED BY <2>1, <2>2
<1> QED BY <1>8, <1>9, <1>10, <1>11 DEF IInv

(* The end of an update, whether it was written or failed. *)
LEMMA UpdateStep ==
    ASSUME IInv, NEW r \in Requests, SetEx(r) \/ UpdateFails(r)
    PROVE  IInv'
<1> DEFINE N == Cardinality(Accepted)
<1>1. N \in Nat
  BY AcceptedFinite
<1>2. pc \in [Requests -> Passed \cup {"idle", "exhausted", "invalid", "unavailable"}]
  BY DEF IInv, TypeOK
<1>3. pc' = [pc EXCEPT ![r] = "lookup"] /\ pc[r] \in {"ttl", "setex"}
  BY DEF SetEx, UpdateFails
<1>4. r \in Updating /\ Accepted' = Accepted /\ Updating' = Updating \ {r} /\ r \in Accepted
  BY <1>2, <1>3 DEF Accepted, Updating, Passed
<1>5. UNCHANGED <<made, max, expires, age, got, clash, late>> /\ made /\ ttl' = ttl
  BY <1>3 DEF SetEx, UpdateFails, promise, invite, IInv, Unmade
<1>6. /\ got[r] \in Nat /\ got[r] < N /\ uses \in Nat /\ max \in Nat /\ uses <= N
      /\ max # 0 => got[r] < max /\ uses <= max
  BY <1>4 DEF IInv, TypeOK, CounterSound, CopiesSound
<1>7. uses' \in Nat /\ uses' <= N /\ (max # 0 => uses' <= max)
  BY <1>1, <1>6 DEF SetEx, UpdateFails, invite
<1>8. left' \in Nat
  BY InvitesAssumption DEF SetEx, UpdateFails, invite, IInv, TypeOK
<1>9. written' \subseteq Accepted /\ written' \cap Updating' = {}
  BY <1>4 DEF SetEx, UpdateFails, IInv, TypeOK, WritesEnd
<1>10. TypeOK'
  <2>1. pc' \in [Requests -> Passed \cup {"idle", "exhausted", "invalid", "unavailable"}]
    BY <1>2, <1>3 DEF Passed
  <2> QED BY <2>1, <1>4, <1>5, <1>7, <1>8, <1>9 DEF IInv, TypeOK
<1>11. Unmade' /\ WritesEnd'
  BY <1>5, <1>9 DEF Unmade, WritesEnd
<1>12. CounterSound' /\ CopiesSound'
  BY <1>4, <1>5, <1>7 DEF CounterSound, CopiesSound, IInv
<1>13. RefusalEarned'
  <2>1. \A q \in Requests : pc'[q] = "exhausted" => pc[q] = "exhausted"
    BY <1>2, <1>3
  <2> QED BY <2>1, <1>4, <1>5 DEF IInv, RefusalEarned
<1>14. CASE UpdateFails(r)
  <2>1. r \in Uncounted'
    BY <1>14, <1>4 DEF Uncounted, UpdateFails, IInv, WritesEnd
  <2>2. CopyExact' /\ SerialExact'
    BY <2>1 DEF CopyExact, SerialExact
  <2> QED BY <1>10, <1>11, <1>12, <1>13, <2>2 DEF IInv
<1>15. CASE SetEx(r)
  <2>1. Uncounted' = Uncounted
    BY <1>15, <1>4 DEF Uncounted, SetEx
  <2>2. uses' = got[r] + 1
    BY <1>15 DEF SetEx
  <2>3. CopyExact' /\ SerialExact'
    BY <2>1, <2>2, <1>4, <1>5 DEF IInv, CopyExact, SerialExact
  <2> QED BY <1>10, <1>11, <1>12, <1>13, <2>3 DEF IInv
<1> QED BY <1>14, <1>15

(* IInv is an invariant: the induction step, one lemma per kind of step. *)
THEOREM Inductive == Spec => []IInv
<1>1. IInv /\ [Next]_vars => IInv'
  BY ClockStep, GetStep, AsideStep, UpdateStep DEF Next, Login
<1> QED BY Initially, <1>1, PTL DEF Spec

(* The stored counter of an invite is never above the number of accepted   *)
(* logins nor above maxUses, for any number of concurrent logins.          *)
THEOREM CounterIsSound == Spec => []CounterSound
<1>1. IInv => CounterSound
  BY DEF IInv
<1> QED BY Inductive, <1>1, PTL

(* A login is told that the invite is used up only after maxUses logins    *)
(* have been accepted.                                                     *)
THEOREM RefusalIsEarned == Spec => []RefusalEarned
<1>1. IInv => RefusalEarned
  BY DEF IInv
<1> QED BY Inductive, <1>1, PTL

(* While logins do not overlap and writes succeed, maxUses is a limit and  *)
(* the counter is exact.                                                   *)
THEOREM SerialIsExact == Spec => []SerialExact
<1>1. IInv => SerialExact
  BY DEF IInv
<1> QED BY Inductive, <1>1, PTL

-----------------------------------------------------------------------------
(* How long the key lives.  What it may lose is half a second, rounded     *)
(* down, for each SETEX; a login that has read the TTL carries the loss    *)
(* with it until it writes.                                                *)
Half == Second \div 2
Life == InviteTtl * Second
Lost(n) == n * Half

LifeKept ==
    made /\ age < Horizon =>
        /\ left + age + Lost(Cardinality(written)) >= Life
        /\ \A r \in Requests :
              pc[r] = "setex" /\ ttl[r] > 0 =>
                  ttl[r] * Second + age + Lost(Cardinality(written) + 1) >= Life

(* The numbers of the argument are natural, and one more write loses one   *)
(* more half second.                                                       *)
LEMMA LifeNumbers ==
    /\ Half \in Nat /\ Life \in Nat /\ 2 * Half >= Second - 1
    /\ Life = InviteTtl * Second
    /\ \A n \in Nat : Lost(n) \in Nat /\ Lost(n + 1) = Lost(n) + Half
<1>1. Half \in Nat /\ 2 * Half >= Second - 1
  BY InvitesAssumption DEF Half
<1>2. Life \in Nat
  BY InvitesAssumption DEF Life
<1>3. ASSUME NEW n \in Nat PROVE Lost(n) \in Nat /\ Lost(n + 1) = Lost(n) + Half
  BY <1>1 DEF Lost
<1> QED BY <1>1, <1>2, <1>3 DEF Life

(* Rounding to the nearest second takes away at most half of one. *)
LEMMA RoundingLoss ==
    ASSUME left \in Nat, left > 0
    PROVE  Remaining \in Nat /\ Remaining * Second + Half >= left
<1>1. Half \in Nat /\ 2 * Half >= Second - 1 /\ Second \in Nat \ {0}
  BY LifeNumbers, InvitesAssumption
<1>2. Remaining = (left + Half) \div Second
  BY DEF Remaining, Half
<1> DEFINE a == left + Half
           d == a \div Second
<1>3. a \in Nat
  BY <1>1
<1>4. d \in Nat /\ d * Second + (Second - 1) >= a
  <2> HIDE DEF a
  <2>1. d \in Nat
    BY <1>1, <1>3
  <2>2. a = Second * d + (a % Second) /\ a % Second \in 0..(Second - 1)
    BY <1>1, <1>3
  <2> QED BY <1>1, <1>3, <2>1, <2>2
<1> QED BY <1>1, <1>2, <1>4

(* The writes are a finite set, and a login that writes has not before. *)
LEMMA WrittenCount ==
    ASSUME IInv
    PROVE  /\ Cardinality(written) \in Nat
           /\ \A r \in Updating :
                 Cardinality(written \cup {r}) = Cardinality(written) + 1
<1>1. IsFiniteSet(written)
  BY AcceptedFinite, FS_Subset DEF IInv, TypeOK
<1>2. \A r \in Updating : r \notin written
  BY DEF IInv, WritesEnd
<1> QED BY <1>1, <1>2, FS_CardinalityType, FS_AddElement

(* Every step keeps the account of the key's life. *)
LEMMA LifeStep ==
    ASSUME IInv, LifeKept, [Next]_vars
    PROVE  LifeKept'
<1> DEFINE N == Cardinality(written)
<1>1. N \in Nat
  BY WrittenCount
<1>2. /\ Half \in Nat /\ Life \in Nat /\ Lost(N) \in Nat
      /\ Lost(N + 1) = Lost(N) + Half /\ Lost(N + 2) = Lost(N) + 2 * Half
  <2>1. Lost(N + 1) = Lost(N) + Half /\ Lost((N + 1) + 1) = Lost(N + 1) + Half
    BY <1>1, LifeNumbers
  <2>2. (N + 1) + 1 = N + 2
    BY <1>1
  <2> QED BY <1>1, <2>1, <2>2, LifeNumbers
<1>3. /\ age \in Nat /\ left \in Nat /\ ttl \in [Requests -> Int]
      /\ pc \in [Requests -> Passed \cup {"idle", "exhausted", "invalid", "unavailable"}]
  BY DEF IInv, TypeOK
<1>4. Second \in Nat \ {0} /\ Horizon \in Nat
  BY InvitesAssumption
<1> HIDE DEF N
<1>5. CASE UNCHANGED <<made, age, left, written, ttl>>
           /\ \A r \in Requests : pc'[r] = "setex" => pc[r] = "setex"
  BY <1>5 DEF LifeKept
<1>6. ASSUME NEW m \in Limits, NEW e \in Lifetimes, Create(m, e) PROVE LifeKept'
  <2>1. left' = Life /\ age' = age /\ written' = written /\ pc' = pc
    BY <1>6 DEF Create, Life
  <2>2. \A r \in Requests : pc[r] = "idle"
    BY <1>6 DEF Create, IInv, Unmade
  <2> QED BY <1>2, <1>3, <2>1, <2>2 DEF LifeKept, N
<1>7. CASE Tick
  <2>1. UNCHANGED <<made, written, ttl, pc>> /\ (age' < Horizon => age < Horizon /\ age' = age + 1)
    BY <1>3, <1>4, <1>7 DEF Tick, promise
  <2>2. left' + 1 >= left /\ left' \in Nat
    BY <1>3, <1>7 DEF Tick
  <2> SUFFICES ASSUME made, age < Horizon
               PROVE  /\ left' + (age + 1) + Lost(N) >= Life
                      /\ \A r \in Requests :
                            pc[r] = "setex" /\ ttl[r] > 0 =>
                                ttl[r] * Second + (age + 1) + Lost(N + 1) >= Life
    BY <2>1 DEF LifeKept, N
  <2>3. left' + (age + 1) + Lost(N) >= Life
    <3>1. left + age + Lost(N) >= Life
      BY DEF LifeKept, N
    <3>2. age \in Nat /\ left \in Nat /\ Life \in Nat /\ Lost(N) \in Nat
      BY <1>2, <1>3
    <3>3. \A l, k, a, n, m \in Nat :
             l + a + n >= m /\ k + 1 >= l => k + (a + 1) + n >= m
      OBVIOUS
    <3> QED BY <3>1, <3>2, <3>3, <2>2
  <2>4. ASSUME NEW r \in Requests, pc[r] = "setex", ttl[r] > 0
        PROVE  ttl[r] * Second + (age + 1) + Lost(N + 1) >= Life
    <3> DEFINE a == ttl[r] * Second
    <3>1. a \in Int
      BY <1>3, <1>4
    <3>2. a + age + Lost(N + 1) >= Life
      BY <2>4 DEF LifeKept, N
    <3> HIDE DEF a
    <3>3. a + (age + 1) + Lost(N + 1) >= Life
      BY <3>1, <3>2, <1>2, <1>3
    <3> QED BY <3>3 DEF a
  <2> QED BY <2>3, <2>4
<1>8. ASSUME NEW r \in Requests, Ttl(r) PROVE LifeKept'
  <2>1. UNCHANGED <<made, age, left, written>> /\ ttl' = [ttl EXCEPT ![r] = Remaining]
    BY <1>8 DEF Ttl, promise, invite
  <2>2. ASSUME made, age < Horizon, Remaining > 0
        PROVE  Remaining * Second + age + Lost(N + 1) >= Life
    <3>1. left > 0
      BY <2>2, <1>3 DEF Remaining
    <3>2. Remaining \in Nat /\ Remaining * Second + Half >= left
      BY <3>1, <1>3, RoundingLoss
    <3>3. left + age + Lost(N) >= Life
      BY <2>2 DEF LifeKept, N
    <3> DEFINE a == Remaining * Second
    <3>4. a \in Nat /\ a + Half >= left
      BY <3>2, <1>4
    <3> HIDE DEF a
    <3>5. a + age + Lost(N + 1) >= Life
      BY <3>3, <3>4, <1>2, <1>3
    <3> QED BY <3>5 DEF a
  <2>3. \A q \in Requests : q # r => pc'[q] = pc[q] /\ ttl'[q] = ttl[q]
    BY <1>3, <1>8 DEF Ttl
  <2>4. ttl'[r] = Remaining
    BY <1>3, <2>1
  <2> QED BY <2>1, <2>2, <2>3, <2>4 DEF LifeKept, N
<1>9. ASSUME NEW r \in Requests, SetEx(r) PROVE LifeKept'
  <2>1. r \in Updating /\ written' = written \cup {r}
    BY <1>9 DEF SetEx, Updating
  <2>2. Cardinality(written') = N + 1
    BY <2>1, WrittenCount DEF N
  <2>3. UNCHANGED <<made, age, ttl>> /\ left' = ttl[r] * Second /\ ttl[r] > 0 /\ pc[r] = "setex"
    BY <1>9 DEF SetEx, promise
  <2>4. \A q \in Requests : pc'[q] = "setex" => pc[q] = "setex"
    BY <1>3, <1>9 DEF SetEx
  <2> SUFFICES ASSUME made, age < Horizon
               PROVE  /\ left' + age + Lost(N + 1) >= Life
                      /\ \A q \in Requests :
                            pc[q] = "setex" /\ ttl[q] > 0 =>
                                ttl[q] * Second + age + Lost(N + 2) >= Life
    <3>1. (N + 1) + 1 = N + 2
      BY <1>1
    <3> QED BY <2>2, <2>3, <2>4, <3>1 DEF LifeKept
  <2>5. left' + age + Lost(N + 1) >= Life
    BY <2>3 DEF LifeKept, N
  <2>6. ASSUME NEW q \in Requests, pc[q] = "setex", ttl[q] > 0
        PROVE  ttl[q] * Second + age + Lost(N + 2) >= Life
    <3> DEFINE a == ttl[q] * Second
    <3>1. a \in Int
      BY <1>3, <1>4
    <3>2. a + age + Lost(N + 1) >= Life
      BY <2>6 DEF LifeKept, N
    <3> HIDE DEF a
    <3>3. a + age + Lost(N + 2) >= Life
      BY <3>1, <3>2, <1>2, <1>3
    <3> QED BY <3>3 DEF a
  <2> QED BY <2>5, <2>6
<1>10. ASSUME NEW r \in Requests,
              \/ Get(r) \/ GetExhausted(r) \/ GetInvalid(r) \/ GetFails(r)
              \/ UpdateFails(r) \/ Lookup(r)
       PROVE  LifeKept'
  <2>1. UNCHANGED <<made, age, left, written, ttl>>
    BY <1>10 DEF Get, GetExhausted, GetInvalid, GetFails, UpdateFails, Lookup, promise, invite
  <2>2. \A q \in Requests : pc'[q] = "setex" => pc[q] = "setex"
    BY <1>3, <1>10 DEF Get, GetExhausted, GetInvalid, GetFails, UpdateFails, Lookup
  <2> QED BY <2>1, <2>2, <1>5
<1>11. CASE UNCHANGED vars
  BY <1>5, <1>11 DEF vars, promise, invite
<1> QED BY <1>6, <1>7, <1>8, <1>9, <1>10, <1>11 DEF Next, Login

(* However often logins rewrite the key, and however their reads of the    *)
(* TTL and their writes interleave with each other and with the clock, an  *)
(* invite is not gone before INVITE_TTL less half a second per write.      *)
THEOREM InviteIsNotForgottenEarly == Spec => []NotForgottenEarly
<1>1. Init => LifeKept
  BY DEF Init, LifeKept
<1>2. IInv /\ LifeKept /\ [Next]_vars => LifeKept'
  BY LifeStep
<1>3. IInv /\ LifeKept => NotForgottenEarly
  <2> SUFFICES ASSUME IInv, LifeKept, made, left = 0
               PROVE  age >= Life - Lost(Cardinality(written))
    BY DEF NotForgottenEarly, Life, Lost, Half
  <2>1. /\ age \in Nat /\ Life \in Nat /\ Lost(Cardinality(written)) \in Nat
        /\ Horizon \in Nat /\ Horizon >= Life
    BY WrittenCount, LifeNumbers, InvitesAssumption DEF IInv, TypeOK, Life
  <2> QED BY <2>1 DEF LifeKept
<1> QED BY Inductive, <1>1, <1>2, <1>3, PTL DEF Spec
-----------------------------------------------------------------------------
(* What sessions and magic links guarantee for any number of requests,     *)
(* links, names and emails.                                                *)
(* The users table has one row per email. *)
Unique == \A u, w \in users : u[2] = w[2] => u = w

(* A session is for a row that exists, and for the email that was asked.   *)
SessionsHeld ==
    \A x \in SignIns :
        stage[x] = "done" => session[x] \in users /\ session[x][2] = For(x)

(* From its GET on, a verification has a link that was stored. *)
Consuming == {"del", "find", "create", "done"}
Stored == \A v \in Verifications : stage[v] \in Consuming => key[link[v]] # "none"

(* Registrations and verifications keep to their own stages. *)
Stages ==
    /\ \A r \in Registrations : stage[r] \notin {"get", "del", "find", "create"}
    /\ \A v \in Verifications : stage[v] \notin {"email", "save"}

(* Of a link that is not in `again`, at most one verification is past its  *)
(* GET, and once it is past its DEL the key is dead.                       *)
OneReader ==
    \A v \in Verifications : link[v] \notin again /\ stage[v] \in Consuming =>
        /\ stage[v] # "del" => key[link[v]] # "live"
        /\ \A w \in Verifications : link[w] = link[v] /\ stage[w] \in Consuming => w = v

AccountsInv == AccountsTypeOK /\ Stages /\ Unique /\ SessionsHeld /\ Stored /\ OneReader /\ LinkNotBurnt

(* No rows, no links read, no requests: everything holds. *)
LEMMA AccountsInitially == AccountsInit => AccountsInv
<1> SUFFICES ASSUME AccountsInit PROVE AccountsInv
  OBVIOUS
<1>1. AccountsTypeOK
  BY DEF AccountsInit, AccountsTypeOK
<1>2. Stages /\ Unique /\ SessionsHeld
  BY DEF AccountsInit, Stages, Unique, SessionsHeld, SignIns
<1>3. Stored /\ OneReader /\ LinkNotBurnt
  BY DEF AccountsInit, Stored, OneReader, LinkNotBurnt, Consuming, SignIns
<1> QED BY <1>1, <1>2, <1>3 DEF AccountsInv

(* A step that neither inserts a row nor signs anybody in keeps the table  *)
(* and the sessions.                                                       *)
LEMMA TableKept ==
    ASSUME AccountsInv, UNCHANGED <<users, session, link>>,
           \A x \in SignIns : stage'[x] = "done" => stage[x] = "done"
    PROVE  Unique' /\ SessionsHeld'
<1>1. Unique'
  BY DEF AccountsInv, Unique
<1>2. SessionsHeld'
  BY DEF AccountsInv, SessionsHeld, For
<1> QED BY <1>1, <1>2

(* A step that signs x in as a row of its email, inserted or found. *)
LEMMA SignedIn ==
    ASSUME AccountsInv, NEW x \in SignIns, NEW row \in Rows, SignIn(x, row),
           row[2] = For(x), link' = link,
           \/ row \in users /\ users' = users
           \/ Insertable(row) /\ users' = users \cup {row}
    PROVE  Unique' /\ SessionsHeld'
<1>1. Unique'
  BY DEF AccountsInv, Unique, Insertable, EmailTaken
<1>2. SessionsHeld'
  <2> SUFFICES ASSUME NEW y \in SignIns, stage'[y] = "done"
               PROVE  session'[y] \in users' /\ session'[y][2] = For(y)
    BY DEF SessionsHeld, For
  <2>1. CASE y = x
    BY <2>1 DEF SignIn, AccountsInv, AccountsTypeOK
  <2>2. CASE y # x
    BY <2>2 DEF SignIn, AccountsInv, AccountsTypeOK, SessionsHeld
  <2> QED BY <2>1, <2>2
<1> QED BY <1>1, <1>2

(* register: no link is touched. *)
LEMMA RegisterStep ==
    ASSUME AccountsInv, NEW r \in Registrations, Register(r)
    PROVE  AccountsInv'
<1>0. r \in SignIns /\ r \notin Verifications /\ For(r) = EmailOf[r]
      /\ <<NameOf[r], EmailOf[r]>> \in Rows
  BY AccountsAssumption DEF SignIns, For, Rows
<1>1. UNCHANGED <<key, mailed, link, again, mishap>>
  BY DEF Register, CheckUsername, CheckEmail, SaveUser, SaveUserFails
<1>2. \A v \in Verifications : stage'[v] = stage[v]
  BY <1>0 DEF Register, CheckUsername, CheckEmail, SaveUser, SaveUserFails, SignIn, Answer,
     AccountsInv, AccountsTypeOK, SignIns
<1>3. AccountsTypeOK' /\ Stages'
  <2>1. CASE CheckUsername(r)
    BY <2>1, <1>0, <1>1, <1>2 DEF CheckUsername, Answer, AccountsInv, AccountsTypeOK, Stages
  <2>2. CASE CheckEmail(r)
    BY <2>2, <1>0, <1>1, <1>2 DEF CheckEmail, Answer, AccountsInv, AccountsTypeOK, Stages
  <2>3. CASE SaveUser(r)
    BY <2>3, <1>0, <1>1, <1>2 DEF SaveUser, SignIn, AccountsInv, AccountsTypeOK, Stages
  <2>4. CASE SaveUserFails(r)
    BY <2>4, <1>0, <1>1, <1>2 DEF SaveUserFails, Answer, AccountsInv, AccountsTypeOK, Stages
  <2> QED BY <2>1, <2>2, <2>3, <2>4 DEF Register
<1>4. Unique' /\ SessionsHeld'
  <2>1. CASE SaveUser(r)
    <3> DEFINE row == <<NameOf[r], EmailOf[r]>>
    <3>1. row \in Rows /\ row[2] = For(r) /\ SignIn(r, row) /\ Insertable(row)
          /\ users' = users \cup {row}
      BY <2>1, <1>0 DEF SaveUser
    <3> HIDE DEF row
    <3> QED BY <3>1, <1>0, <1>1, SignedIn
  <2>2. CASE ~SaveUser(r)
    <3>1. UNCHANGED <<users, session>>
      BY <2>2 DEF Register, CheckUsername, CheckEmail, SaveUserFails, Answer
    <3>2. \A x \in SignIns : stage'[x] = "done" => stage[x] = "done"
      BY <2>2, <1>0 DEF Register, CheckUsername, CheckEmail, SaveUserFails, Answer, AccountsInv, AccountsTypeOK
    <3> QED BY <3>1, <3>2, <1>1, TableKept
  <2> QED BY <2>1, <2>2
<1>5. Stored' /\ OneReader' /\ LinkNotBurnt'
  BY <1>1, <1>2 DEF AccountsInv, Stored, OneReader, LinkNotBurnt
<1> QED BY <1>3, <1>4, <1>5 DEF AccountsInv

(* sendMagicLink and expiry: no request moves. *)
LEMMA SendStep ==
    ASSUME AccountsInv, NEW l \in Links, Send(l)
    PROVE  AccountsInv'
<1>1. UNCHANGED <<users, stage, link, session, again, mishap>>
  BY DEF Send, StoreLink, MailLink, ExpireLink
<1>2. AccountsTypeOK' /\ Stages'
  BY <1>1 DEF Send, StoreLink, MailLink, ExpireLink, AccountsInv, AccountsTypeOK, Stages
<1>3. Unique' /\ SessionsHeld'
  BY <1>1, TableKept
<1>4. \A k \in Links : /\ key'[k] = "none" => key[k] = "none"
                       /\ key'[k] = "live" => key[k] \in {"live", "none"}
                       /\ key'[k] = "deleted" => key[k] = "deleted"
  BY DEF Send, StoreLink, MailLink, ExpireLink, AccountsInv, AccountsTypeOK
<1>5. \A v \in Verifications : link[v] \in Links
  BY DEF AccountsInv, AccountsTypeOK
<1>6. Stored'
  BY <1>1, <1>4, <1>5 DEF AccountsInv, Stored
<1>7. OneReader'
  BY <1>1, <1>4, <1>5 DEF AccountsInv, OneReader, Stored
<1>8. LinkNotBurnt'
  BY <1>1, <1>4 DEF AccountsInv, LinkNotBurnt
<1> QED BY <1>2, <1>3, <1>6, <1>7, <1>8 DEF AccountsInv

(* verifyMagicLink, the part before the users table. *)
LEMMA ReadStep ==
    ASSUME AccountsInv, NEW v \in Verifications,
           GetLink(v) \/ GetLinkFails(v) \/ DelLink(v) \/ DelLinkFails(v)
    PROVE  AccountsInv'
<1> DEFINE l == link[v]
<1>0. /\ l \in Links /\ v \in SignIns
      /\ \A w \in Verifications : link[w] \in Links /\ w \in SignIns
  BY DEF AccountsInv, AccountsTypeOK, SignIns
<1>1. UNCHANGED <<users, mailed, link, session, mishap>>
  BY DEF GetLink, GetLinkFails, DelLink, DelLinkFails, Answer
<1>2. /\ \A w \in SignIns : w # v => stage'[w] = stage[w]
      /\ stage[v] \in {"idle", "del"} /\ stage'[v] \in {"del", "invalid", "unavailable", "find"}
      /\ stage'[v] = "del" => stage[v] = "idle" /\ key[l] = "live"
      /\ stage'[v] = "find" => stage[v] = "del"
      /\ stage' \in [SignIns -> {"idle", "email", "save", "get", "del", "find", "create",
                            "done", "conflict", "invalid", "unavailable", "error"}]
  BY <1>0 DEF GetLink, GetLinkFails, DelLink, DelLinkFails, Answer, AccountsInv, AccountsTypeOK
<1>3. /\ \A k \in Links : key'[k] # key[k] => k = l /\ key[k] = "live" /\ key'[k] = "deleted"
      /\ key' \in [Links -> {"none", "live", "deleted", "expired"}]
  BY <1>0 DEF GetLink, GetLinkFails, DelLink, DelLinkFails, AccountsInv, AccountsTypeOK
<1>4. again \subseteq again' /\ again' \subseteq Links
  BY <1>0 DEF GetLink, GetLinkFails, DelLink, DelLinkFails, AccountsInv, AccountsTypeOK
<1>5. AccountsTypeOK'
  BY <1>1, <1>2, <1>3, <1>4 DEF AccountsInv, AccountsTypeOK
<1>6. Stages'
  <2>1. \A r \in Registrations : r # v /\ r \in SignIns
    BY AccountsAssumption DEF SignIns
  <2> QED BY <1>0, <1>2, <2>1 DEF AccountsInv, Stages
<1>7. Unique' /\ SessionsHeld'
  BY <1>1, <1>2, TableKept
<1>8. Stored'
  BY <1>0, <1>1, <1>2, <1>3 DEF AccountsInv, Stored, Consuming
<1>9. OneReader'
  <2> SUFFICES ASSUME NEW w \in Verifications, link[w] \notin again', stage'[w] \in Consuming
               PROVE  /\ stage'[w] # "del" => key'[link[w]] # "live"
                      /\ \A x \in Verifications :
                           link[x] = link[w] /\ stage'[x] \in Consuming => x = w
    BY <1>1 DEF OneReader
  <2>0. link[w] \notin again
    BY <1>4
  <2>1. CASE link[w] # l
    <3>1. w # v /\ stage'[w] = stage[w] /\ key'[link[w]] = key[link[w]]
      BY <2>1, <1>0, <1>2, <1>3
    <3>2. \A x \in Verifications : link[x] = link[w] => stage'[x] = stage[x]
      BY <2>1, <1>0, <1>2
    <3> QED BY <2>0, <3>1, <3>2 DEF AccountsInv, OneReader
  <2>2. CASE link[w] = l /\ GetLinkFails(v)
    <3>1. stage'[v] \notin Consuming /\ key' = key
      BY <2>2, <1>0 DEF GetLinkFails, Answer, Consuming, AccountsInv, AccountsTypeOK
    <3> QED BY <2>0, <3>1, <1>0, <1>2 DEF AccountsInv, OneReader
  <2>3. CASE link[w] = l /\ GetLink(v)
    <3>1. key' = key /\ stage[v] = "idle"
      BY <2>3 DEF GetLink
    <3>2. CASE key[l] # "live"
      <4>1. stage'[v] \notin Consuming
        BY <2>3, <3>2, <1>0 DEF GetLink, Answer, Consuming, AccountsInv, AccountsTypeOK
      <4> QED BY <2>0, <3>1, <4>1, <1>0, <1>2 DEF AccountsInv, OneReader
    <3>3. CASE key[l] = "live"
      <4>1. ~Reading(l) /\ stage'[v] = "del"
        BY <2>3, <3>3, <1>0 DEF GetLink, Answer, AccountsInv, AccountsTypeOK
      <4>2. \A x \in Verifications : link[x] = l => stage[x] \notin Consuming
        BY <4>1, <3>3, <2>0, <2>3 DEF AccountsInv, OneReader, Reading
      <4>3. \A x \in Verifications : link[x] = l /\ x # v => stage'[x] \notin Consuming
        BY <4>2, <1>0, <1>2
      <4>4. w = v
        BY <4>3, <2>3
      <4> QED BY <4>1, <4>3, <4>4
    <3> QED BY <3>2, <3>3
  <2>4. CASE link[w] = l /\ DelLink(v)
    <3>1. stage[v] = "del" /\ key'[l] # "live"
      BY <2>4, <1>0 DEF DelLink, AccountsInv, AccountsTypeOK
    <3>2. \A x \in Verifications : stage'[x] \in Consuming => stage[x] \in Consuming
      BY <3>1, <1>0, <1>2 DEF Consuming
    <3> QED BY <2>0, <2>4, <3>1, <3>2 DEF AccountsInv, OneReader
  <2>5. CASE link[w] = l /\ DelLinkFails(v)
    BY <2>5 DEF DelLinkFails
  <2> QED BY <2>1, <2>2, <2>3, <2>4, <2>5
<1>10. LinkNotBurnt'
  <2> SUFFICES ASSUME NEW k \in Links, key'[k] = "deleted", k \notin mishap
               PROVE  \E w \in Verifications :
                        link[w] = k /\ stage'[w] \in {"find", "create", "done"}
    BY <1>1 DEF LinkNotBurnt
  <2>1. CASE key[k] = "deleted"
    <3>1. PICK w \in Verifications : link[w] = k /\ stage[w] \in {"find", "create", "done"}
      BY <2>1 DEF AccountsInv, LinkNotBurnt
    <3>2. w # v /\ w \in SignIns
      BY <3>1, <1>0, <1>2
    <3> QED BY <3>1, <3>2, <1>2
  <2>2. CASE key[k] # "deleted"
    <3>1. k = l
      BY <2>2, <1>3
    <3>2. stage'[v] = "find"
      BY <2>2, <1>0 DEF GetLink, GetLinkFails, DelLink, DelLinkFails, Answer, AccountsInv, AccountsTypeOK
    <3> QED BY <3>1, <3>2
  <2> QED BY <2>1, <2>2
<1> QED BY <1>5, <1>6, <1>7, <1>8, <1>9, <1>10 DEF AccountsInv

(* verifyMagicLink, the part on the users table. *)
LEMMA AccountStep ==
    ASSUME AccountsInv, NEW v \in Verifications,
           \/ FindUser(v) \/ FindNoUser(v) \/ CreateUser(v)
           \/ CreateUserFails(v) \/ DatabaseFails(v)
    PROVE  AccountsInv'
<1>0. /\ v \in SignIns /\ v \notin Registrations /\ link[v] \in Links
      /\ For(v) = SentTo[link[v]] /\ SentTo[link[v]] \in Emails
      /\ \A w \in Verifications : link[w] \in Links /\ w \in SignIns
  BY AccountsAssumption DEF AccountsInv, AccountsTypeOK, SignIns, For
<1>1. UNCHANGED <<key, mailed, link, again>>
  BY DEF FindUser, FindNoUser, CreateUser, CreateUserFails, DatabaseFails
<1>2. /\ \A w \in SignIns : w # v => stage'[w] = stage[w]
      /\ stage[v] \in {"find", "create"} /\ stage'[v] \in {"create", "done", "error"}
      /\ stage' \in [SignIns -> {"idle", "email", "save", "get", "del", "find", "create",
                            "done", "conflict", "invalid", "unavailable", "error"}]
  BY <1>0 DEF FindUser, FindNoUser, CreateUser, CreateUserFails, DatabaseFails,
     Answer, SignIn, AccountsInv, AccountsTypeOK
<1>3. /\ mishap \subseteq mishap' /\ mishap' \subseteq Links
      /\ stage'[v] = "error" => link[v] \in mishap'
  <2>1. CASE FindUser(v)
    BY <2>1, <1>0 DEF FindUser, SignIn, AccountsInv, AccountsTypeOK
  <2>2. CASE FindNoUser(v)
    BY <2>2, <1>0 DEF FindNoUser, Answer, AccountsInv, AccountsTypeOK
  <2>3. CASE CreateUser(v)
    BY <2>3, <1>0 DEF CreateUser, SignIn, AccountsInv, AccountsTypeOK
  <2>4. CASE CreateUserFails(v) \/ DatabaseFails(v)
    BY <2>4, <1>0 DEF CreateUserFails, DatabaseFails, Answer, AccountsInv, AccountsTypeOK
  <2> QED BY <2>1, <2>2, <2>3, <2>4
<1>4. Unique' /\ SessionsHeld' /\ users' \subseteq Rows
      /\ session' \in [SignIns -> Rows \cup {NoAccount}]
  <2>1. CASE FindUser(v)
    <3>1. PICK u \in users : u[2] = SentTo[link[v]] /\ SignIn(v, u)
      BY <2>1 DEF FindUser
    <3>2. users' = users /\ u \in Rows /\ users \subseteq Rows
      BY <2>1 DEF FindUser, AccountsInv, AccountsTypeOK
    <3>3. session' \in [SignIns -> Rows \cup {NoAccount}]
      BY <3>1, <3>2, <1>0 DEF SignIn, AccountsInv, AccountsTypeOK
    <3> QED BY <3>1, <3>2, <3>3, <1>0, <1>1, SignedIn
  <2>2. CASE CreateUser(v)
    <3>1. PICK n \in Stamps : /\ Insertable(<<n, SentTo[link[v]]>>)
                              /\ users' = users \cup {<<n, SentTo[link[v]]>>}
                              /\ SignIn(v, <<n, SentTo[link[v]]>>)
      BY <2>2 DEF CreateUser
    <3> DEFINE row == <<n, SentTo[link[v]]>>
    <3>2. row \in Rows /\ row[2] = For(v) /\ users \subseteq Rows
      BY <1>0 DEF Rows, AccountsInv, AccountsTypeOK
    <3>3. Insertable(row) /\ users' = users \cup {row} /\ SignIn(v, row)
      BY <3>1
    <3> HIDE DEF row
    <3>4. session' \in [SignIns -> Rows \cup {NoAccount}]
      BY <3>2, <3>3, <1>0 DEF SignIn, AccountsInv, AccountsTypeOK
    <3> QED BY <3>2, <3>3, <3>4, <1>0, <1>1, SignedIn
  <2>3. CASE FindNoUser(v) \/ CreateUserFails(v) \/ DatabaseFails(v)
    <3>1. UNCHANGED <<users, session>> /\ stage'[v] # "done"
      BY <2>3, <1>0 DEF FindNoUser, CreateUserFails, DatabaseFails, Answer, AccountsInv, AccountsTypeOK
    <3>2. Unique' /\ SessionsHeld'
      BY <3>1, <1>1, <1>2, TableKept
    <3> QED BY <3>1, <3>2 DEF AccountsInv, AccountsTypeOK
  <2> QED BY <2>1, <2>2, <2>3
<1>5. AccountsTypeOK'
  BY <1>1, <1>2, <1>3, <1>4 DEF AccountsInv, AccountsTypeOK
<1>6. Stages'
  <2>1. \A r \in Registrations : r # v /\ r \in SignIns
    BY <1>0 DEF SignIns
  <2> QED BY <1>0, <1>2, <2>1 DEF AccountsInv, Stages
<1>7. \A w \in Verifications : /\ stage'[w] \in Consuming => stage[w] \in Consuming
                               /\ stage'[w] # "del" /\ stage'[w] \in Consuming => stage[w] # "del"
  BY <1>0, <1>2 DEF Consuming
<1>8. Stored' /\ OneReader'
  BY <1>1, <1>7 DEF AccountsInv, Stored, OneReader
<1>9. LinkNotBurnt'
  <2> SUFFICES ASSUME NEW k \in Links, key[k] = "deleted", k \notin mishap'
               PROVE  \E w \in Verifications :
                        link[w] = k /\ stage'[w] \in {"find", "create", "done"}
    BY <1>1 DEF LinkNotBurnt
  <2>1. PICK w \in Verifications : link[w] = k /\ stage[w] \in {"find", "create", "done"}
    BY <1>3 DEF AccountsInv, LinkNotBurnt
  <2>2. CASE w = v
    BY <2>1, <2>2, <1>2, <1>3
  <2>3. CASE w # v
    BY <2>1, <2>3, <1>0, <1>2
  <2> QED BY <2>2, <2>3
<1> QED BY <1>4, <1>5, <1>6, <1>8, <1>9 DEF AccountsInv

(* AccountsInv is an invariant of registrations, links and verifications. *)
THEOREM AccountsInductive == AccountsSpec => []AccountsInv
<1>1. AccountsInv /\ UNCHANGED accountsVars => AccountsInv'
  BY DEF accountsVars, AccountsInv, AccountsTypeOK, Stages, Unique, SessionsHeld, For, Stored, OneReader, LinkNotBurnt
<1>2. AccountsInv /\ AccountsNext => AccountsInv'
  BY RegisterStep, SendStep, ReadStep, AccountStep DEF AccountsNext, Verify
<1> QED BY AccountsInitially, <1>1, <1>2, PTL DEF AccountsSpec

(* Sessions for one email are sessions of one users row, for any number of *)
(* racing registrations and magic links.                                   *)
THEOREM AccountIsOne == AccountsSpec => []OneAccount
<1>1. AccountsInv => OneAccount
  BY DEF AccountsInv, OneAccount, SessionsHeld, Unique
<1> QED BY AccountsInductive, <1>1, PTL

(* A magic link signs in once unless it was read twice before its DEL took *)
(* effect.                                                                 *)
THEOREM LinkIsForOnce == AccountsSpec => []LinkOnce
<1>1. AccountsInv => LinkOnce
  BY DEF AccountsInv, LinkOnce, OneReader, Consuming
<1> QED BY AccountsInductive, <1>1, PTL

(* A deleted magic link has signed somebody in or is about to, unless the  *)
(* users table failed.                                                     *)
THEOREM LinkIsNotBurnt == AccountsSpec => []LinkNotBurnt
<1>1. AccountsInv => LinkNotBurnt
  BY DEF AccountsInv
<1> QED BY AccountsInductive, <1>1, PTL
=============================================================================
