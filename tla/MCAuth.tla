------------------------------- MODULE MCAuth --------------------------------
(* The two halves of auth.service.ts for TLC.  They share neither keys nor *)
(* rows, so a behaviour is about one of them and the other stands still:   *)
(* the states of the two add up and are not multiplied.                    *)
EXTENDS Invites, Accounts, TLC

CONSTANTS i1, i2, i3,
          a, b, n1, n2, t1, t2, r1, r2, l1, l2, v1, v2, v3

VARIABLE half

(* Logins are interchangeable but for whether their user exists. *)
Logins == Permutations(Known)

(* Both registrations want the email a, under different names. *)
DifferentNames == r1 :> n1 @@ r2 :> n2
SameEmail == r1 :> a @@ r2 :> a

(* One link goes to that address, the other to somebody new. *)
LinksApart == l1 :> a @@ l2 :> b

authVars == <<half, vars, accountsVars>>

(* What the standing half begins with makes no difference. *)
MCInit ==
    /\ half \in {"invites", "accounts"}
    /\ Init /\ AccountsInit
    /\ half = "invites" => link = [v \in Verifications |-> l1]

(* Requests about accounts are answered and come to an end; a login can    *)
(* always go on, or time can.                                              *)
MCNext ==
    /\ UNCHANGED half
    /\ \/ half = "invites" /\ Next /\ UNCHANGED accountsVars
       \/ half = "accounts" /\ AccountsNext /\ UNCHANGED vars
       \/ half = "accounts" /\ UNCHANGED authVars

MCSpec == MCInit /\ [][MCNext]_authVars
=============================================================================
