------------------------------- MODULE Accounts -------------------------------
(***************************************************************************)
(* How a users row comes to be: AuthService.register, and the magic links  *)
(* of sendMagicLink and verifyMagicLink, which create the row on first     *)
(* use.  Both look before they insert, in separate queries, and what holds *)
(* them apart in the end are the unique columns username and email.        *)
(*                                                                         *)
(* A link is a Redis key holding an email; it is read with GET and removed *)
(* with DEL, two commands.  Bounds: the sets of requests and of links.     *)
(***************************************************************************)
EXTENDS Naturals

CONSTANTS
    Emails,          \* email addresses
    Names,           \* usernames that people choose
    Stamps,          \* usernames `user_<milliseconds>` that links create
    Registrations,   \* calls of register
    NameOf,          \* the username each of them asks for
    EmailOf,         \* and its email
    Links,           \* magic links
    SentTo,          \* the email each of them is for
    Verifications    \* calls of verifyMagicLink

ASSUME AccountsAssumption ==
    /\ NameOf \in [Registrations -> Names]
    /\ EmailOf \in [Registrations -> Emails]
    /\ SentTo \in [Links -> Emails]
    /\ Registrations \cap Verifications = {}

NoAccount == <<"no", "account">>
Rows == (Names \cup Stamps) \X Emails

VARIABLES
    users,       \* rows <<username, email>> of the users table
    key,         \* key[l]: the Redis key of link l
    mailed,      \* links that have reached their addressee
    stage,       \* where each request stands, or how it ended
    link,        \* link[v]: the link that v presents
    session,     \* session[x]: the row that request x was signed in as
    again,       \* history: links read twice before a DEL took effect
    mishap       \* history: links whose row could not be read or inserted

SignIns == Registrations \cup Verifications
accountsVars == <<users, key, mailed, stage, link, session, again, mishap>>

AccountsTypeOK ==
    /\ users \in SUBSET Rows
    /\ key \in [Links -> {"none", "live", "deleted", "expired"}]
    /\ mailed \in SUBSET Links
    /\ stage \in [SignIns -> {"idle", "email", "save", "get", "del", "find", "create",
                              "done", "conflict", "invalid", "unavailable", "error"}]
    /\ link \in [Verifications -> Links]
    /\ session \in [SignIns -> Rows \cup {NoAccount}]
    /\ again \in SUBSET Links
    /\ mishap \in SUBSET Links

AccountsInit ==
    /\ users = {}
    /\ key = [l \in Links |-> "none"]
    /\ mailed = {}
    /\ stage = [x \in SignIns |-> "idle"]
    /\ link \in [Verifications -> Links]
    /\ session = [x \in SignIns |-> NoAccount]
    /\ again = {}
    /\ mishap = {}

-----------------------------------------------------------------------------
(* The users table *)

NameTaken(n)  == \E u \in users : u[1] = n
EmailTaken(e) == \E u \in users : u[2] = e

(* mutant: the email column is not unique. *)
InsertableByName(row) == ~NameTaken(row[1])

(* The unique constraints of username and email. *)
Insertable(row) == ~NameTaken(row[1]) /\ ~EmailTaken(row[2])

SignIn(x, row) ==
    /\ stage' = [stage EXCEPT ![x] = "done"]
    /\ session' = [session EXCEPT ![x] = row]

Answer(x, a) == stage' = [stage EXCEPT ![x] = a] /\ UNCHANGED session

-----------------------------------------------------------------------------
(* register *)

(* The first findOne. *)
CheckUsername(r) ==
    /\ stage[r] = "idle"
    /\ Answer(r, IF NameTaken(NameOf[r]) THEN "conflict" ELSE "email")
    /\ UNCHANGED <<users, key, mailed, link, again, mishap>>

(* The second, and the hashing of the password. *)
CheckEmail(r) ==
    /\ stage[r] = "email"
    /\ Answer(r, IF EmailTaken(EmailOf[r]) THEN "conflict" ELSE "save")
    /\ UNCHANGED <<users, key, mailed, link, again, mishap>>

SaveUser(r) ==
    LET row == <<NameOf[r], EmailOf[r]>> IN
    /\ stage[r] = "save"
    /\ Insertable(row)
    /\ users' = users \cup {row}
    /\ SignIn(r, row)
    /\ UNCHANGED <<key, mailed, link, again, mishap>>

(* The insert violates a unique constraint; nothing translates the error. *)
SaveUserFails(r) ==
    /\ stage[r] = "save"
    /\ ~Insertable(<<NameOf[r], EmailOf[r]>>)
    /\ Answer(r, "error")
    /\ UNCHANGED <<users, key, mailed, link, again, mishap>>

-----------------------------------------------------------------------------
(* sendMagicLink *)

StoreLink(l) ==
    /\ key[l] = "none"
    /\ key' = [key EXCEPT ![l] = "live"]
    /\ UNCHANGED <<users, mailed, stage, link, session, again, mishap>>

(* sendMail succeeds; when it fails the key stays, and nobody knows it. *)
MailLink(l) ==
    /\ key[l] \in {"live", "expired"}
    /\ l \notin mailed
    /\ mailed' = mailed \cup {l}
    /\ UNCHANGED <<users, key, stage, link, session, again, mishap>>

(* MAGIC_LINK_TTL runs out. *)
ExpireLink(l) ==
    /\ key[l] = "live"
    /\ key' = [key EXCEPT ![l] = "expired"]
    /\ UNCHANGED <<users, mailed, stage, link, session, again, mishap>>

-----------------------------------------------------------------------------
(* verifyMagicLink *)

(* A verification of l is between its GET and its DEL. *)
Reading(l) == \E v \in Verifications : link[v] = l /\ stage[v] = "del"

GetLink(v) ==
    LET l == link[v] IN
    /\ stage[v] = "idle"
    /\ l \in mailed
    /\ Answer(v, IF key[l] = "live" THEN "del" ELSE "invalid")
    /\ again' = IF key[l] = "live" /\ Reading(l) THEN again \cup {l} ELSE again
    /\ UNCHANGED <<users, key, mailed, link, mishap>>

GetLinkFails(v) ==
    /\ stage[v] = "idle"
    /\ link[v] \in mailed
    /\ Answer(v, "unavailable")
    /\ UNCHANGED <<users, key, mailed, link, again, mishap>>

(* mutant: the key stays. *)
DelLinkNot(v) ==
    /\ stage[v] = "del"
    /\ Answer(v, "find")
    /\ UNCHANGED <<users, key, mailed, link, again, mishap>>

DelLink(v) ==
    /\ stage[v] = "del"
    /\ Answer(v, "find")
    /\ key' = [key EXCEPT ![link[v]] = IF @ = "live" THEN "deleted" ELSE @]
    /\ UNCHANGED <<users, mailed, link, again, mishap>>

(* The DEL fails; the error is swallowed and the key stays. *)
DelLinkFails(v) ==
    /\ stage[v] = "del"
    /\ Answer(v, "find")
    /\ again' = again \cup {link[v]}
    /\ UNCHANGED <<users, key, mailed, link, mishap>>

(* findByEmail finds the row. *)
FindUser(v) ==
    /\ stage[v] = "find"
    /\ \E u \in users : u[2] = SentTo[link[v]] /\ SignIn(v, u)
    /\ UNCHANGED <<users, key, mailed, link, again, mishap>>

(* mutant: only those who have an account may come in. *)
FindNoUserRefused(v) ==
    /\ stage[v] = "find"
    /\ ~EmailTaken(SentTo[link[v]])
    /\ Answer(v, "invalid")
    /\ UNCHANGED <<users, key, mailed, link, again, mishap>>

FindNoUser(v) ==
    /\ stage[v] = "find"
    /\ ~EmailTaken(SentTo[link[v]])
    /\ Answer(v, "create")
    /\ UNCHANGED <<users, key, mailed, link, again, mishap>>

CreateUser(v) ==
    /\ stage[v] = "create"
    /\ \E n \in Stamps :
          LET row == <<n, SentTo[link[v]]>> IN
          /\ Insertable(row)
          /\ users' = users \cup {row}
          /\ SignIn(v, row)
    /\ UNCHANGED <<key, mailed, link, again, mishap>>

(* The name of the millisecond or, by now, the email is taken. *)
CreateUserFails(v) ==
    /\ stage[v] = "create"
    /\ \E n \in Stamps : ~Insertable(<<n, SentTo[link[v]]>>)
    /\ Answer(v, "error")
    /\ mishap' = mishap \cup {link[v]}
    /\ UNCHANGED <<users, key, mailed, link, again>>

(* The query or the insert fails for a reason of the database's own. *)
DatabaseFails(v) ==
    /\ stage[v] \in {"find", "create"}
    /\ Answer(v, "error")
    /\ mishap' = mishap \cup {link[v]}
    /\ UNCHANGED <<users, key, mailed, link, again>>

-----------------------------------------------------------------------------
Register(r) == CheckUsername(r) \/ CheckEmail(r) \/ SaveUser(r) \/ SaveUserFails(r)

Send(l) == StoreLink(l) \/ MailLink(l) \/ ExpireLink(l)

Verify(v) ==
    \/ GetLink(v) \/ GetLinkFails(v)
    \/ DelLink(v) \/ DelLinkFails(v)
    \/ FindUser(v) \/ FindNoUser(v)
    \/ CreateUser(v) \/ CreateUserFails(v)
    \/ DatabaseFails(v)

AccountsNext ==
    \/ \E r \in Registrations : Register(r)
    \/ \E l \in Links : Send(l)
    \/ \E v \in Verifications : Verify(v)

AccountsSpec == AccountsInit /\ [][AccountsNext]_accountsVars

-----------------------------------------------------------------------------
(* The email that a request signs in for. *)
For(x) == IF x \in Registrations THEN EmailOf[x] ELSE SentTo[link[x]]

(* All sessions for one email, by registration or by link, in whatever     *)
(* order their checks and inserts fell, are sessions of one users row, and *)
(* that row has the email the request was for.                             *)
OneAccount ==
    \A x, y \in SignIns :
        stage[x] = "done" /\ stage[y] = "done" /\ For(x) = For(y) =>
            session[x] = session[y] /\ session[x] \in users /\ session[x][2] = For(x)

(* A link signs in once, unless it was read twice before it was deleted or *)
(* its DEL failed.                                                         *)
LinkOnce ==
    \A v, w \in Verifications :
        v # w /\ link[v] = link[w] /\ stage[v] = "done" /\ stage[w] = "done" =>
            link[v] \in again

(* A link is not burnt for nothing: once it has been deleted, somebody is  *)
(* signed in with it or about to be, unless the users table failed.        *)
LinkNotBurnt ==
    \A l \in Links :
        key[l] = "deleted" =>
            \/ l \in mishap
            \/ \E v \in Verifications :
                  link[v] = l /\ stage[v] \in {"find", "create", "done"}

-----------------------------------------------------------------------------
(* What the documentation says and the code does not keep.  TLC refutes    *)
(* the statements below; the README gives the behaviours.                  *)

(* What auth.controller.ts says of a taken username or email: 409, never   *)
(* an untranslated error.                                                  *)
TakenIsConflict == \A r \in Registrations : stage[r] # "error"
=============================================================================
