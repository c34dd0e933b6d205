------------------------------- MODULE Invites -------------------------------
(***************************************************************************)
(* One invite token: AuthService.createInvite and the logins that present  *)
(* the token.  The invite is a JSON value under one Redis key with a time  *)
(* to live.  A login reads it with GET, tests and increments `uses` on its *)
(* own copy, asks for the remaining TTL and writes the copy back with      *)
(* SETEX: three commands, between which other logins and the clock go on.  *)
(* Redis runs the commands of all requests one at a time.                  *)
(*                                                                         *)
(* Time passes in ticks, Second of them per second, because TTL answers in *)
(* rounded seconds while keys expire in between.  Bounds: one invite, the  *)
(* set Requests of logins, and a clock that stops counting at Horizon.     *)
(***************************************************************************)
EXTENDS Integers, FiniteSets

CONSTANTS
    Requests,    \* login requests that present the token
    Known,       \* those of them whose email or username has a users row
    Limits,      \* the values of maxUses an invite is created with
    Lifetimes,   \* the values of expiresInHours, in ticks
    InviteTtl,   \* INVITE_TTL, in seconds
    Second,      \* ticks per second
    Horizon      \* the clock saturates here, not before the key's first end

ASSUME InvitesAssumption ==
    /\ IsFiniteSet(Requests)
    /\ Known \subseteq Requests
    /\ Limits \subseteq Nat
    /\ Lifetimes \subseteq Nat
    /\ InviteTtl \in Nat \ {0}
    /\ Second \in Nat \ {0}
    /\ Horizon \in Nat
    /\ Horizon >= InviteTtl * Second

VARIABLES
    made,        \* createInvite has returned the token
    max,         \* maxUses in the stored value
    expires,     \* the expiresAt that was promised, as an age
    age,         \* ticks since createInvite
    left,        \* ticks the Redis key has to live; 0: there is no key
    uses,        \* `uses` in the stored value
    pc,          \* pc[r]: where login r stands, or how it ended
    got,         \* got[r]: the `uses` that r read
    ttl,         \* ttl[r]: the TTL that r read
    written,     \* history: the logins whose SETEX took effect
    clash,       \* history: a GET fell between another login's GET and SETEX
    late         \* history: the logins accepted after expiresAt

invite  == <<left, uses>>
promise == <<made, max, expires>>
vars    == <<promise, age, invite, pc, got, ttl, written, clash, late>>

(* The logins whose invite was accepted, whatever became of them then. *)
Passed   == {"ttl", "setex", "lookup", "session", "denied"}
Accepted == {r \in Requests : pc[r] \in Passed}

(* The logins between their GET and the end of their write. *)
Updating == {r \in Requests : pc[r] \in {"ttl", "setex"}}

TypeOK ==
    /\ made \in BOOLEAN
    /\ max \in Nat
    /\ expires \in Nat
    /\ age \in Nat
    /\ left \in Nat
    /\ uses \in Nat
    /\ pc \in [Requests -> Passed \cup {"idle", "exhausted", "invalid", "unavailable"}]
    /\ got \in [Requests -> Nat]
    /\ ttl \in [Requests -> Int]
    /\ written \in SUBSET Accepted
    /\ clash \in BOOLEAN
    /\ late \in SUBSET Accepted

Init ==
    /\ made = FALSE
    /\ max = 0
    /\ expires = 0
    /\ age = 0
    /\ left = 0
    /\ uses = 0
    /\ pc = [r \in Requests |-> "idle"]
    /\ got = [r \in Requests |-> 0]
    /\ ttl = [r \in Requests |-> 0]
    /\ written = {}
    /\ clash = FALSE
    /\ late = {}

-----------------------------------------------------------------------------
(* createInvite: the key always lives INVITE_TTL, whatever was promised. *)
Create(m, e) ==
    /\ ~made
    /\ made' = TRUE
    /\ max' = m
    /\ expires' = e
    /\ left' = InviteTtl * Second
    /\ UNCHANGED <<age, uses, pc, got, ttl, written, clash, late>>

(* mutant: one use too many. *)
ExhaustedLate == max # 0 /\ uses > max

Exhausted == max # 0 /\ uses >= max

(* login up to its first command: GET, the test, and the increment of the  *)
(* local copy.                                                             *)
Get(r) ==
    /\ made
    /\ pc[r] = "idle"
    /\ left > 0
    /\ ~Exhausted
    /\ pc' = [pc EXCEPT ![r] = "ttl"]
    /\ got' = [got EXCEPT ![r] = uses]
    /\ clash' = (clash \/ Updating # {})
    /\ late' = IF age > expires THEN late \cup {r} ELSE late
    /\ UNCHANGED <<promise, age, invite, ttl, written>>

GetExhausted(r) ==
    /\ made
    /\ pc[r] = "idle"
    /\ left > 0
    /\ Exhausted
    /\ pc' = [pc EXCEPT ![r] = "exhausted"]
    /\ UNCHANGED <<promise, age, invite, got, ttl, written, clash, late>>

GetInvalid(r) ==
    /\ made
    /\ pc[r] = "idle"
    /\ left = 0
    /\ pc' = [pc EXCEPT ![r] = "invalid"]
    /\ UNCHANGED <<promise, age, invite, got, ttl, written, clash, late>>

GetFails(r) ==
    /\ made
    /\ pc[r] = "idle"
    /\ pc' = [pc EXCEPT ![r] = "unavailable"]
    /\ UNCHANGED <<promise, age, invite, got, ttl, written, clash, late>>

(* Redis answers TTL in seconds, rounded to the nearest; -2: no such key. *)
Remaining == IF left = 0 THEN -2 ELSE (left + Second \div 2) \div Second

Ttl(r) ==
    /\ pc[r] = "ttl"
    /\ pc' = [pc EXCEPT ![r] = "setex"]
    /\ ttl' = [ttl EXCEPT ![r] = Remaining]
    /\ UNCHANGED <<promise, age, invite, got, written, clash, late>>

(* mutant: the value is written back without the increment. *)
SetExUnchanged(r) ==
    /\ pc[r] = "setex"
    /\ ttl[r] > 0
    /\ pc' = [pc EXCEPT ![r] = "lookup"]
    /\ uses' = got[r]
    /\ left' = ttl[r] * Second
    /\ written' = written \cup {r}
    /\ UNCHANGED <<promise, age, got, ttl, clash, late>>

(* mutant: the whole seconds of the TTL are taken for ticks. *)
SetExPx(r) ==
    /\ pc[r] = "setex"
    /\ ttl[r] > 0
    /\ pc' = [pc EXCEPT ![r] = "lookup"]
    /\ uses' = got[r] + 1
    /\ left' = ttl[r]
    /\ written' = written \cup {r}
    /\ UNCHANGED <<promise, age, got, ttl, clash, late>>

(* The copy is written back; the key is created anew if it has expired. *)
SetEx(r) ==
    /\ pc[r] = "setex"
    /\ ttl[r] > 0
    /\ pc' = [pc EXCEPT ![r] = "lookup"]
    /\ uses' = got[r] + 1
    /\ left' = ttl[r] * Second
    /\ written' = written \cup {r}
    /\ UNCHANGED <<promise, age, got, ttl, clash, late>>

(* TTL or SETEX fails, or SETEX refuses a TTL that is not positive; the    *)
(* error is swallowed and the login goes on.                               *)
UpdateFails(r) ==
    /\ pc[r] \in {"ttl", "setex"}
    /\ pc' = [pc EXCEPT ![r] = "lookup"]
    /\ UNCHANGED <<promise, age, invite, got, ttl, written, clash, late>>

(* login's second half: the user must exist already. *)
Lookup(r) ==
    /\ pc[r] = "lookup"
    /\ pc' = [pc EXCEPT ![r] = IF r \in Known THEN "session" ELSE "denied"]
    /\ UNCHANGED <<promise, age, invite, got, ttl, written, clash, late>>

(* The clock, and the expiry of the key. *)
Tick ==
    /\ made
    /\ age' = IF age < Horizon THEN age + 1 ELSE age
    /\ left' = IF left > 0 THEN left - 1 ELSE 0
    /\ UNCHANGED <<promise, uses, pc, got, ttl, written, clash, late>>

Login(r) ==
    \/ Get(r)
    \/ GetExhausted(r)
    \/ GetInvalid(r)
    \/ GetFails(r)
    \/ Ttl(r)
    \/ SetEx(r)
    \/ UpdateFails(r)
    \/ Lookup(r)

Next ==
    \/ \E m \in Limits, e \in Lifetimes : Create(m, e)
    \/ \E r \in Requests : Login(r)
    \/ Tick

Spec == Init /\ [][Next]_vars

-----------------------------------------------------------------------------
(* The stored counter never shows more uses than there were, nor passes    *)
(* maxUses: logins that overwrite each other's SETEX only ever lose uses.  *)
CounterSound ==
    /\ uses <= Cardinality(Accepted)
    /\ max # 0 => uses <= max

(* "Invite has reached maximum uses" is only answered when maxUses logins  *)
(* have really been accepted, however their reads and writes interleaved.  *)
RefusalEarned ==
    (\E r \in Requests : pc[r] = "exhausted") =>
        max # 0 /\ max <= Cardinality(Accepted)

(* The accepted logins whose use was never stored. *)
Uncounted == Accepted \ (written \cup Updating)

(* As long as no login's GET fell inside another's read-modify-write and   *)
(* every write succeeded, the counter is exact and maxUses is a limit.     *)
SerialExact ==
    ~clash /\ Uncounted = {} =>
        /\ max # 0 => Cardinality(Accepted) <= max
        /\ Updating = {} /\ left > 0 => uses = Cardinality(Accepted)

(* Rewriting the key with a rounded TTL costs at most half a second per    *)
(* use: an invite is not gone before INVITE_TTL less that much.            *)
NotForgottenEarly ==
    made /\ left = 0 =>
        age >= InviteTtl * Second - Cardinality(written) * (Second \div 2)

-----------------------------------------------------------------------------
(* What the documentation says and the code does not keep.  TLC refutes    *)
(* the statements below; the README gives the behaviours.                  *)

(* What create-invite.dto.ts says of maxUses, while no write fails. *)
MaxUsesRespected == max # 0 /\ Uncounted = {} => Cardinality(Accepted) <= max

(* What create-invite.dto.ts says of expiresInHours. *)
ExpiryRespected == late = {}

(* What docs/faq.md says a new user does with an invite token. *)
NewcomerAdmitted == \A r \in Requests \ Known : pc[r] # "denied"
=============================================================================
