-------------------------------- MODULE Guilds --------------------------------
(***************************************************************************)
(* One guild of GuildsService: its members, its roles, and the requests    *)
(* that change them.  Every request is a chain of separate queries without *)
(* a transaction around them: the permission check, the reads, the write.  *)
(* Requests interleave between any two of the queries.                     *)
(*                                                                         *)
(* membersRepo.save writes a whole entity that was read earlier: TypeORM   *)
(* compares it with the row as it is at the time of the save, writes every *)
(* column and role that differs, and inserts the row when it has gone.     *)
(*                                                                         *)
(* Bounds: Slots requests at a time and MaxOps in all; every row and every *)
(* custom role ever inserted has an identity of its own (a uuid).          *)
(***************************************************************************)
EXTENDS Naturals, FiniteSets

CONSTANTS
    Users,       \* users of the application
    Owner,       \* guild.ownerId
    Rows,        \* identities of guild_members rows
    OwnerRow,    \* the one that create() inserts
    Custom,      \* identities of roles made with createRole
    Grants,      \* the permission sets given to such roles
    Slots,       \* requests in flight
    MaxOps       \* requests in all

Managed == {"owner", "officer", "member"}
Roles == Managed \cup Custom
Permissions == {"MANAGE_GUILD", "MANAGE_ROLES", "KICK_MEMBERS", "BAN_MEMBERS",
                "CREATE_INVITE", "ADMINISTRATOR"}

ASSUME GuildsAssumption ==
    /\ Owner \in Users
    /\ OwnerRow \in Rows
    /\ Custom \cap Managed = {}
    /\ Grants \subseteq SUBSET Permissions
    /\ MaxOps \in Nat

VARIABLES
    phase,       \* how far create() has come, or "open", or "deleted"
    approval,    \* guild.requiresApproval
    code,        \* guild.inviteCode, as the number of regenerations
    user,        \* user[i]: userId of row i
    status,      \* status[i]: its status, or "none" when there is no row i
    roles,       \* roles[i]: its rows of guild_member_roles
    used,        \* row identities already given out
    table,       \* the roles that exist
    perms,       \* perms[r]: the permissions of role r
    born,        \* custom role identities already given out
    job,         \* job[q]: the request in slot q
    ops,         \* requests started
    out,         \* history: out[u]: "kicked" or "banned", or "free" again
    undone,      \* history: users let back in by a request that read before
    doubled,     \* history: users with two joins between check and insert
    admitted,    \* history: users whose join read requiresApproval = FALSE
    delegated    \* history: the owner has handed out the power over roles

guild   == <<phase, approval, code>>
members == <<user, status, roles, used>>
ranks   == <<table, perms, born>>
history == <<out, undone, doubled, admitted, delegated>>
vars    == <<guild, members, ranks, job, ops, history>>

-----------------------------------------------------------------------------
(* Permissions *)

(* DEFAULT_PERMISSIONS, restricted to what the service asks for. *)
Defaults ==
    [r \in Roles |->
        CASE r = "owner" -> {"ADMINISTRATOR"}
          [] r = "officer" -> {"KICK_MEMBERS", "BAN_MEMBERS", "CREATE_INVITE"}
          [] OTHER -> {}]

(* mutant: every moderator may hand out roles. *)
NeedsKick(op) ==
    CASE op = "update" -> "MANAGE_GUILD"
      [] op = "regenerate" -> "CREATE_INVITE"
      [] op = "ban" -> "BAN_MEMBERS"
      [] OTHER -> "KICK_MEMBERS"

(* The permission each operation passes to requirePermission. *)
Needs(op) ==
    CASE op = "update" -> "MANAGE_GUILD"
      [] op = "regenerate" -> "CREATE_INVITE"
      [] op = "kick" -> "KICK_MEMBERS"
      [] op = "ban" -> "BAN_MEMBERS"
      [] OTHER -> "MANAGE_ROLES"

(* GuildRole.hasPermission and GuildMember.hasPermission. *)
RoleHas(r, p) == {"ADMINISTRATOR", p} \cap perms[r] # {}
MemberHas(i, p) == \E r \in roles[i] : RoleHas(r, p)

RowsOf(u) == {i \in Rows : status[i] # "none" /\ user[i] = u}
ActiveRows(u) == {i \in RowsOf(u) : status[i] = "active"}

(* The order of the role hierarchy; createRole has no position to set. *)
Position(r) ==
    CASE r = "owner" -> 100
      [] r = "officer" -> 50
      [] r = "member" -> 1
      [] OTHER -> 0

DefaultRoles == {r \in table : \A s \in table : Position(r) <= Position(s)}

-----------------------------------------------------------------------------
(* Requests *)

RoleOps == {"assign", "unassign", "createRole", "updateRole", "deleteRole"}
Ops == RoleOps \cup {"update", "regenerate", "kick", "ban"}

Idle == [op |-> "none", by |-> Owner, on |-> Owner, role |-> "member", perms |-> {},
         step |-> "idle", row |-> OwnerRow, held |-> {}, code |-> 0,
         status |-> "active", stale |-> FALSE]

Jobs == [op : Ops \cup {"none", "join"}, by : Users, on : Users,
         role : Roles, perms : SUBSET Permissions,
         step : {"idle", "authorize", "role", "member", "save", "act",
                 "guild", "existing", "insert"},
         row : Rows, held : SUBSET Roles, code : Nat,
         status : {"active", "pending"}, stale : BOOLEAN]

Finish(q) == job' = [job EXCEPT ![q] = Idle]
Goto(q, s) == job' = [job EXCEPT ![q].step = s]

(* The request has read that u may be, or be put, in the guild, and will   *)
(* write on the strength of it.                                            *)
Holds(j, u) ==
    /\ j.on = u
    /\ j.step \in {"save", "insert"} \/ (j.op = "join" /\ j.step = "role")

(* Slot q finishes; what the others hold about u is out of date. *)
FinishAgainst(q, u) ==
    job' = [p \in Slots |->
              IF p = q THEN Idle
              ELSE [job[p] EXCEPT !.stale = @ \/ Holds(job[p], u)]]

TypeOK ==
    /\ phase \in {"none", "guild", "owner", "officer", "member", "open", "deleted"}
    /\ approval \in BOOLEAN
    /\ code \in Nat
    /\ user \in [Rows -> Users]
    /\ status \in [Rows -> {"none", "active", "pending", "banned"}]
    /\ roles \in [Rows -> SUBSET Roles]
    /\ used \in SUBSET Rows
    /\ table \in SUBSET Roles
    /\ perms \in [Roles -> SUBSET Permissions]
    /\ born \in SUBSET Custom
    /\ job \in [Slots -> Jobs]
    /\ ops \in Nat
    /\ out \in [Users -> {"free", "kicked", "banned"}]
    /\ undone \in SUBSET Users
    /\ doubled \in SUBSET Users
    /\ admitted \in SUBSET Users
    /\ delegated \in BOOLEAN

Init ==
    /\ phase = "none"
    /\ approval \in BOOLEAN
    /\ code = 0
    /\ user = [i \in Rows |-> Owner]
    /\ status = [i \in Rows |-> "none"]
    /\ roles = [i \in Rows |-> {}]
    /\ used = {}
    /\ table = {}
    /\ perms = Defaults
    /\ born = {}
    /\ job = [q \in Slots |-> Idle]
    /\ ops = 0
    /\ out = [u \in Users |-> "free"]
    /\ undone = {}
    /\ doubled = {}
    /\ admitted = {}
    /\ delegated = FALSE

-----------------------------------------------------------------------------
(* create(): five saves in a row.  A failure between two of them leaves    *)
(* what has been saved; nobody else knows the guild before it is open.     *)

CreateGuild ==
    /\ phase = "none"
    /\ phase' = "guild"
    /\ UNCHANGED <<approval, code, members, ranks, job, ops, history>>

CreateManagedRole(from, r) ==
    /\ phase = from
    /\ phase' = r
    /\ table' = table \cup {r}
    /\ UNCHANGED <<approval, code, members, perms, born, job, ops, history>>

(* The owner's member row; the categories and channels that follow are not *)
(* part of this module.                                                    *)
CreateOwnerMember ==
    /\ phase = "member"
    /\ phase' = "open"
    /\ status' = [status EXCEPT ![OwnerRow] = "active"]
    /\ roles' = [roles EXCEPT ![OwnerRow] = {"owner"}]
    /\ used' = used \cup {OwnerRow}
    /\ UNCHANGED <<approval, code, user, ranks, job, ops, history>>

(* delete(): members and roles go with the guild (ON DELETE CASCADE). *)
Delete ==
    /\ phase = "open"
    /\ ops < MaxOps
    /\ ops' = ops + 1
    /\ phase' = "deleted"
    /\ status' = [i \in Rows |-> "none"]
    /\ roles' = [i \in Rows |-> {}]
    /\ table' = {}
    /\ UNCHANGED <<approval, code, user, used, perms, born, job, history>>

-----------------------------------------------------------------------------
(* A request arrives, and requirePermission. *)

Start(q, op, by, on, r, ps) ==
    /\ phase = "open"
    /\ job[q].step = "idle"
    /\ ops < MaxOps
    /\ ops' = ops + 1
    /\ job' = [job EXCEPT ![q] = [Idle EXCEPT !.op = op, !.by = by, !.on = on, !.role = r,
                                              !.perms = ps, !.step = "authorize"]]
    /\ UNCHANGED <<guild, members, ranks, history>>

(* The requests there are: each operation with the arguments it takes. *)
StartAny(q) ==
    \E by \in Users :
        \/ \E op \in {"update", "regenerate"} : Start(q, op, by, Owner, "member", {})
        \/ \E op \in {"kick", "ban"}, on \in Users : Start(q, op, by, on, "member", {})
        \/ \E op \in {"assign", "unassign"}, on \in Users, r \in table :
              Start(q, op, by, on, r, {})
        \/ \E r \in Custom \ born, ps \in Grants : Start(q, "createRole", by, Owner, r, ps)
        \/ \E r \in table, ps \in Grants : Start(q, "updateRole", by, Owner, r, ps)
        \/ \E r \in table : Start(q, "deleteRole", by, Owner, r, {})

(* Where each operation goes once it is permitted. *)
FirstStep(op) ==
    CASE op \in {"assign", "updateRole", "deleteRole"} -> "role"
      [] op = "unassign" -> "member"
      [] OTHER -> "act"

Permit(q) ==
    LET j == job[q] IN
    /\ j.step = "authorize"
    /\ phase = "open"
    /\ \/ j.by = Owner
       \/ \E i \in ActiveRows(j.by) : MemberHas(i, Needs(j.op))
    /\ Goto(q, FirstStep(j.op))
    /\ UNCHANGED <<guild, members, ranks, ops, history>>

(* Guild not found, not a member, or insufficient permissions. *)
Forbid(q) ==
    LET j == job[q] IN
    /\ j.step = "authorize"
    /\ j.by # Owner \/ phase # "open"
    /\ ActiveRows(j.by) # {} => \E i \in ActiveRows(j.by) : ~MemberHas(i, Needs(j.op))
    /\ Finish(q)
    /\ UNCHANGED <<guild, members, ranks, ops, history>>

-----------------------------------------------------------------------------
(* update, regenerateInviteCode *)

Update(q) ==
    /\ job[q].op = "update" /\ job[q].step = "act"
    /\ approval' = (IF phase = "open" THEN ~approval ELSE approval)
    /\ Finish(q)
    /\ UNCHANGED <<phase, code, members, ranks, ops, history>>

RegenerateInviteCode(q) ==
    /\ job[q].op = "regenerate" /\ job[q].step = "act"
    /\ code' = IF phase = "open" THEN code + 1 ELSE code
    /\ Finish(q)
    /\ UNCHANGED <<phase, approval, members, ranks, ops, history>>

-----------------------------------------------------------------------------
(* kickMember and banMember: the owner is out of bounds; a deleted guild   *)
(* makes the handler throw on guild.ownerId.                               *)

Spared(q) ==
    /\ job[q].op \in {"kick", "ban"} /\ job[q].step = "act"
    /\ job[q].on = Owner \/ phase # "open"
    /\ Finish(q)
    /\ UNCHANGED <<guild, members, ranks, ops, history>>

(* mutant: the owner is not spared. *)
KickAnyone(q) ==
    LET u == job[q].on IN
    /\ job[q].op = "kick" /\ job[q].step = "act"
    /\ phase = "open"
    /\ status' = [i \in Rows |-> IF i \in RowsOf(u) THEN "none" ELSE status[i]]
    /\ roles' = [i \in Rows |-> IF i \in RowsOf(u) THEN {} ELSE roles[i]]
    /\ FinishAgainst(q, u)
    /\ out' = [out EXCEPT ![u] = "kicked"]
    /\ undone' = undone \ {u}
    /\ UNCHANGED <<guild, user, used, ranks, ops, doubled, admitted, delegated>>

(* All rows of the user go, banned ones too. *)
Kick(q) ==
    LET u == job[q].on IN
    /\ job[q].op = "kick" /\ job[q].step = "act"
    /\ phase = "open"
    /\ u # Owner
    /\ status' = [i \in Rows |-> IF i \in RowsOf(u) THEN "none" ELSE status[i]]
    /\ roles' = [i \in Rows |-> IF i \in RowsOf(u) THEN {} ELSE roles[i]]
    /\ FinishAgainst(q, u)
    /\ out' = [out EXCEPT ![u] = "kicked"]
    /\ undone' = undone \ {u}
    /\ UNCHANGED <<guild, user, used, ranks, ops, doubled, admitted, delegated>>

(* All rows of the user are marked; without a row nothing is.  *)
Ban(q) ==
    LET u == job[q].on IN
    /\ job[q].op = "ban" /\ job[q].step = "act"
    /\ phase = "open"
    /\ u # Owner
    /\ status' = [i \in Rows |-> IF i \in RowsOf(u) THEN "banned" ELSE status[i]]
    /\ FinishAgainst(q, u)
    /\ IF RowsOf(u) = {}
       THEN UNCHANGED <<out, undone>>
       ELSE out' = [out EXCEPT ![u] = "banned"] /\ undone' = undone \ {u}
    /\ UNCHANGED <<guild, user, roles, used, ranks, ops, doubled, admitted, delegated>>

-----------------------------------------------------------------------------
(* assignRole and removeRole *)

(* rolesRepo.findOne, for assignRole, updateRole and deleteRole; the last  *)
(* two refuse managed roles.                                               *)
FindRole(q) ==
    LET j == job[q] IN
    /\ j.op \in {"assign", "updateRole", "deleteRole"} /\ j.step = "role"
    /\ j.role \in table
    /\ j.op = "assign" \/ j.role \notin Managed
    /\ Goto(q, IF j.op = "assign" THEN "member" ELSE "act")
    /\ UNCHANGED <<guild, members, ranks, ops, history>>

FindRoleFails(q) ==
    LET j == job[q] IN
    /\ j.op \in {"assign", "updateRole", "deleteRole"} /\ j.step = "role"
    /\ j.role \notin table \/ (j.op # "assign" /\ j.role \in Managed)
    /\ Finish(q)
    /\ UNCHANGED <<guild, members, ranks, ops, history>>

(* getMemberOrThrow for the target: one of its active rows, roles and all. *)
ReadMember(q) ==
    LET j == job[q] IN
    /\ j.step = "member"
    /\ \E i \in ActiveRows(j.on) :
          /\ j.op = "assign" => j.role \notin roles[i]
          /\ job' = [job EXCEPT ![q].step = "save", ![q].row = i,
                       ![q].held = IF j.op = "assign" THEN roles[i] \cup {j.role}
                                   ELSE roles[i] \ {j.role}]
    /\ UNCHANGED <<guild, members, ranks, ops, history>>

(* Not a member, or the member has the role already. *)
ReadMemberFails(q) ==
    LET j == job[q] IN
    /\ j.step = "member"
    /\ \/ ActiveRows(j.on) = {}
       \/ j.op = "assign" /\ \E i \in ActiveRows(j.on) : j.role \in roles[i]
    /\ Finish(q)
    /\ UNCHANGED <<guild, members, ranks, ops, history>>

(* The owner gives somebody a role with power over roles. *)
Hands(j) ==
    /\ j.by = Owner
    /\ j.on # Owner
    /\ \E r \in j.held : RoleHas(r, "MANAGE_ROLES")

(* membersRepo.save(member): the row becomes what was read, plus or minus  *)
(* the role, and is inserted again if it has gone.                         *)
SaveMember(q) ==
    LET j == job[q] IN
    /\ j.step = "save"
    /\ phase = "open"
    /\ j.held \subseteq table
    /\ status' = [status EXCEPT ![j.row] = "active"]
    /\ roles' = [roles EXCEPT ![j.row] = j.held]
    /\ Finish(q)
    /\ undone' = IF j.stale THEN undone \cup {j.on} ELSE undone
    /\ delegated' = (delegated \/ Hands(j))
    /\ UNCHANGED <<guild, user, used, ranks, ops, out, doubled, admitted>>

(* A foreign key fails: the guild or one of the roles has been deleted. *)
SaveMemberFails(q) ==
    LET j == job[q] IN
    /\ j.step = "save"
    /\ phase # "open" \/ ~(j.held \subseteq table)
    /\ Finish(q)
    /\ UNCHANGED <<guild, members, ranks, ops, history>>

-----------------------------------------------------------------------------
(* createRole, updateRole, deleteRole *)

PowerOverRoles(ps) == {"ADMINISTRATOR", "MANAGE_ROLES"} \cap ps # {}

CreateRole(q) ==
    LET j == job[q] IN
    /\ j.op = "createRole" /\ j.step = "act"
    /\ IF phase = "open" /\ j.role \notin born
       THEN /\ table' = table \cup {j.role}
            /\ perms' = [perms EXCEPT ![j.role] = j.perms]
            /\ born' = born \cup {j.role}
            /\ delegated' = (delegated \/ PowerOverRoles(j.perms))
       ELSE UNCHANGED <<table, perms, born, delegated>>
    /\ Finish(q)
    /\ UNCHANGED <<guild, members, ops, out, undone, doubled, admitted>>

UpdateRole(q) ==
    LET j == job[q] IN
    /\ j.op = "updateRole" /\ j.step = "act"
    /\ IF j.role \in table
       THEN /\ perms' = [perms EXCEPT ![j.role] = j.perms]
            /\ delegated' = (delegated \/ PowerOverRoles(j.perms))
       ELSE UNCHANGED <<perms, delegated>>
    /\ Finish(q)
    /\ UNCHANGED <<guild, members, table, born, ops, out, undone, doubled, admitted>>

(* The rows of guild_member_roles go with the role. *)
DeleteRole(q) ==
    LET r == job[q].role IN
    /\ job[q].op = "deleteRole" /\ job[q].step = "act"
    /\ table' = table \ {r}
    /\ roles' = [i \in Rows |-> roles[i] \ {r}]
    /\ Finish(q)
    /\ UNCHANGED <<guild, user, status, used, perms, born, ops, history>>

-----------------------------------------------------------------------------
(* joinByInvite *)

Join(q, u) ==
    /\ phase = "open"
    /\ job[q].step = "idle"
    /\ ops < MaxOps
    /\ ops' = ops + 1
    /\ job' = [job EXCEPT ![q] = [Idle EXCEPT !.op = "join", !.by = u, !.on = u,
                                              !.code = code, !.step = "guild"]]
    /\ UNCHANGED <<guild, members, ranks, history>>

JoinFindGuild(q) ==
    LET j == job[q] IN
    /\ j.op = "join" /\ j.step = "guild"
    /\ phase = "open" /\ j.code = code
    /\ job' = [job EXCEPT ![q].step = "existing",
                          ![q].status = IF approval THEN "pending" ELSE "active"]
    /\ admitted' = IF approval THEN admitted ELSE admitted \cup {j.by}
    /\ UNCHANGED <<guild, members, ranks, ops, out, undone, doubled, delegated>>

JoinInvalidCode(q) ==
    LET j == job[q] IN
    /\ j.op = "join" /\ j.step = "guild"
    /\ phase # "open" \/ j.code # code
    /\ Finish(q)
    /\ UNCHANGED <<guild, members, ranks, ops, history>>

(* Another join of the same user is past its check. *)
JoinUnderWay(u) == \E q \in Slots : job[q].op = "join" /\ Holds(job[q], u)

(* mutant: an active member is not turned away. *)
JoinCheckBanned(q) ==
    LET j == job[q] IN
    /\ j.op = "join" /\ j.step = "existing"
    /\ RowsOf(j.by) = {} \/ \E i \in RowsOf(j.by) : status[i] # "banned"
    /\ Goto(q, "role")
    /\ doubled' = IF JoinUnderWay(j.by) THEN doubled \cup {j.by} ELSE doubled
    /\ UNCHANGED <<guild, members, ranks, ops, out, undone, admitted, delegated>>

(* mutant: only an active member is turned away. *)
JoinCheckActive(q) ==
    LET j == job[q] IN
    /\ j.op = "join" /\ j.step = "existing"
    /\ RowsOf(j.by) = {} \/ \E i \in RowsOf(j.by) : status[i] # "active"
    /\ Goto(q, "role")
    /\ doubled' = IF JoinUnderWay(j.by) THEN doubled \cup {j.by} ELSE doubled
    /\ UNCHANGED <<guild, members, ranks, ops, out, undone, admitted, delegated>>

(* No row, or the one that findOne returns is pending. *)
JoinCheck(q) ==
    LET j == job[q] IN
    /\ j.op = "join" /\ j.step = "existing"
    /\ RowsOf(j.by) = {} \/ \E i \in RowsOf(j.by) : status[i] = "pending"
    /\ Goto(q, "role")
    /\ doubled' = IF JoinUnderWay(j.by) THEN doubled \cup {j.by} ELSE doubled
    /\ UNCHANGED <<guild, members, ranks, ops, out, undone, admitted, delegated>>

(* Already a member, or banned. *)
JoinRefused(q) ==
    LET j == job[q] IN
    /\ j.op = "join" /\ j.step = "existing"
    /\ \E i \in RowsOf(j.by) : status[i] # "pending"
    /\ Finish(q)
    /\ UNCHANGED <<guild, members, ranks, ops, history>>

(* The role with the lowest position. *)
JoinFindRole(q) ==
    /\ job[q].op = "join" /\ job[q].step = "role"
    /\ phase = "open"
    /\ \E r \in DefaultRoles :
          job' = [job EXCEPT ![q].step = "insert", ![q].role = r]
    /\ UNCHANGED <<guild, members, ranks, ops, history>>

JoinInsert(q) ==
    LET j == job[q] IN
    /\ j.op = "join" /\ j.step = "insert"
    /\ phase = "open" /\ j.role \in table
    /\ \E i \in Rows \ (used \cup {OwnerRow}) :
          /\ user' = [user EXCEPT ![i] = j.by]
          /\ status' = [status EXCEPT ![i] = j.status]
          /\ roles' = [roles EXCEPT ![i] = {j.role}]
          /\ used' = used \cup {i}
    /\ Finish(q)
    /\ IF j.stale
       THEN undone' = undone \cup {j.by} /\ UNCHANGED out
       ELSE /\ out' = IF out[j.by] = "banned" THEN out ELSE [out EXCEPT ![j.by] = "free"]
            /\ UNCHANGED undone
    /\ UNCHANGED <<guild, ranks, ops, doubled, admitted, delegated>>

(* The guild or the role has been deleted: a foreign key fails. *)
JoinInsertFails(q) ==
    LET j == job[q] IN
    /\ j.op = "join" /\ j.step \in {"role", "insert"}
    /\ phase # "open" \/ (j.step = "insert" /\ j.role \notin table)
    /\ Finish(q)
    /\ UNCHANGED <<guild, members, ranks, ops, history>>

-----------------------------------------------------------------------------
Creation ==
    \/ CreateGuild
    \/ CreateManagedRole("guild", "owner")
    \/ CreateManagedRole("owner", "officer")
    \/ CreateManagedRole("officer", "member")
    \/ CreateOwnerMember

Moderation(q) == Spared(q) \/ Kick(q) \/ Ban(q)

RoleChange(q) ==
    \/ FindRole(q) \/ FindRoleFails(q)
    \/ ReadMember(q) \/ ReadMemberFails(q)
    \/ SaveMember(q) \/ SaveMemberFails(q)
    \/ CreateRole(q) \/ UpdateRole(q) \/ DeleteRole(q)

Joining(q) ==
    \/ JoinFindGuild(q) \/ JoinInvalidCode(q)
    \/ JoinCheck(q) \/ JoinRefused(q)
    \/ JoinFindRole(q)
    \/ JoinInsert(q) \/ JoinInsertFails(q)

(* No more requests will come, and every one has been answered. *)
Quiet ==
    /\ ops = MaxOps \/ phase = "deleted"
    /\ \A q \in Slots : job[q].step = "idle"
    /\ UNCHANGED vars

Next ==
    \/ Creation
    \/ Delete
    \/ Quiet
    \/ \E q \in Slots :
          \/ StartAny(q)
          \/ \E u \in Users : Join(q, u)
          \/ Permit(q)
          \/ Forbid(q)
          \/ Update(q)
          \/ RegenerateInviteCode(q)
          \/ Moderation(q)
          \/ RoleChange(q)
          \/ Joining(q)

Spec == Init /\ [][Next]_vars

-----------------------------------------------------------------------------
(* The owner of an open guild is an active member of it, whatever kicks,   *)
(* bans, role changes and stale saves have been made; and wherever create  *)
(* stopped, a guild that has a member has its three system roles, which    *)
(* no role request since has taken away.                                   *)
GuildIntact ==
    /\ phase = "open" => ActiveRows(Owner) # {}
    /\ (\E i \in Rows : status[i] # "none") => Managed \subseteq table

(* Who is active has been let in and not put out since.  A banned user has *)
(* no active row, however often the user joins again, and a kicked user no *)
(* row at all until a later join; the one exception is a save or an insert *)
(* whose request had read the member before the ban or the kick.  With     *)
(* requiresApproval set, joining alone makes nobody active: who is active  *)
(* has joined at a time when it was not set.                               *)
AdmissionHolds ==
    /\ \A u \in Users \ undone :
          /\ out[u] = "banned" => ActiveRows(u) = {}
          /\ out[u] = "kicked" => RowsOf(u) = {}
    /\ \A u \in Users \ {Owner} : ActiveRows(u) # {} => u \in admitted

(* Nobody has two active rows, unless two of the user's joins overlapped,  *)
(* a stale save brought a row back, or a pending row is still there: the   *)
(* membership check of joinByInvite looks at one row, and lets a user with *)
(* a pending one in again and again.                                       *)
OneActiveRow ==
    \A u \in Users \ (undone \cup doubled) :
        (\A i \in RowsOf(u) : status[i] # "pending") =>
            \A i, k \in ActiveRows(u) : i = k

(* As long as the owner gives nobody else a role with ADMINISTRATOR or     *)
(* MANAGE_ROLES and defines no such role, nobody else has that power or is *)
(* past the permission check of an operation on roles: there is no way up  *)
(* through kicks, joins, role changes and their races.                     *)
NoSelfPromotion ==
    ~delegated =>
        /\ \A i \in Rows : user[i] # Owner /\ status[i] # "none" => ~MemberHas(i, "MANAGE_ROLES")
        /\ \A q \in Slots : job[q].op \in RoleOps /\ job[q].by # Owner => job[q].step = "authorize"

-----------------------------------------------------------------------------
(* What the documentation says and the code does not keep.  TLC refutes    *)
(* the statements below; the README gives the behaviours.                  *)

(* What the comment in joinByInvite says: the role given to a new member   *)
(* is "Участник".                                                          *)
MemberRoleGiven ==
    \A q \in Slots : job[q].op = "join" /\ job[q].step = "insert" => job[q].role = "member"
=============================================================================
