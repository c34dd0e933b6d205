---------------------------- MODULE GuildsProofs -----------------------------
(***************************************************************************)
(* What holds of a guild for any number of users, rows, roles and requests *)
(* in flight.                                                              *)
(*                                                                         *)
(* The properties speak of rows and roles, which are written by requests   *)
(* that have read them some steps before.  The invariant therefore says of *)
(* each request in flight what it may still rely on (JobOK): a save whose  *)
(* request is not marked stale finds its row as active as it was read, and *)
(* a join past its check finds the user still without an active row.       *)
(***************************************************************************)
EXTENDS Guilds, TLAPS

(* A join that has found nothing against the user. *)
Past(j) == j.op = "join" /\ j.step \in {"role", "insert"}

Pending(u) == {i \in RowsOf(u) : status[i] = "pending"}

(* Which requests are at which step, and what they have made sure of. *)
Shape(j) ==
    /\ j.op = "join" => j.on = j.by
    /\ j.step \in {"guild", "existing", "insert"} => j.op = "join"
    /\ j.step \in {"member", "save"} => j.op \in {"assign", "unassign"}
    /\ j.step = "act" /\ j.op \in {"updateRole", "deleteRole"} => j.role \notin Managed
    /\ j.step = "insert" => j.role # "owner"
    /\ j.op = "createRole" => j.role \in Custom

(* A save writes a row of the user it was read for, who was let in. *)
SaveOK(j) ==
    j.step = "save" =>
        /\ j.row \in used
        /\ user[j.row] = j.on
        /\ status[j.row] # "pending"
        /\ j.on = Owner \/ j.on \in admitted
        /\ phase = "open" /\ ~j.stale => status[j.row] = "active"

(* A join inserts an active row only for a user whom it read as admitted,  *)
(* and, unless it is stale, for one who is not banned and not active.      *)
JoinOK(j) ==
    /\ j.op = "join" /\ j.step \in {"existing", "role", "insert"} /\ j.status = "active" =>
          j.by \in admitted
    /\ phase = "open" /\ Past(j) /\ ~j.stale /\ j.by \notin undone =>
          /\ out[j.by] # "banned"
          /\ j.by \notin doubled => ActiveRows(j.by) = {} \/ Pending(j.by) # {}

(* Nobody but the owner is past the check of an operation on roles. *)
RankOK(j) == ~delegated /\ j.op \in RoleOps /\ j.by # Owner => j.step = "authorize"

JobOK(j) == Shape(j) /\ SaveOK(j) /\ JoinOK(j) /\ RankOK(j)

JobsOK == \A q \in Slots : JobOK(job[q])

(* Joins of one user that have both passed the check are recorded. *)
Doubles ==
    \A p, q \in Slots : p # q /\ Past(job[p]) /\ Past(job[q]) /\ job[p].by = job[q].by =>
        job[p].by \in doubled

(* The owner's row is the owner's, and active as long as there is a guild. *)
OwnerKept ==
    /\ user[OwnerRow] = Owner
    /\ phase = "open" => status[OwnerRow] = "active"

(* The system roles appear one by one, and stay. *)
RolesKept ==
    /\ phase \in {"owner", "officer", "member", "open"} => "owner" \in table
    /\ phase \in {"officer", "member", "open"} => "officer" \in table
    /\ phase \in {"member", "open"} => "member" \in table

(* There are rows only in an open guild, and before it nothing else. *)
Rising ==
    /\ \A i \in Rows : status[i] # "none" => i \in used /\ phase = "open"
    /\ phase \notin {"open", "deleted"} =>
          /\ \A q \in Slots : job[q] = Idle
          /\ \A u \in Users : out[u] = "free"

(* Undelegated, the only role with power over roles is the owner's, and    *)
(* nobody else has it.                                                     *)
Powers ==
    ~delegated =>
        /\ \A r \in Roles \ {"owner"} : ~PowerOverRoles(perms[r])
        /\ \A i \in Rows : user[i] # Owner /\ status[i] # "none" =>
              \A r \in roles[i] : ~PowerOverRoles(perms[r])

(* The rows of a banned user are still there, and banned. *)
BannedRows ==
    phase = "open" =>
        \A u \in Users \ undone : out[u] = "banned" =>
            /\ RowsOf(u) # {}
            /\ \A i \in RowsOf(u) : status[i] = "banned"

KickedRows == \A u \in Users \ undone : out[u] = "kicked" => RowsOf(u) = {}

AdmittedRows == \A u \in Users \ {Owner} : ActiveRows(u) # {} => u \in admitted

IInv ==
    /\ TypeOK
    /\ OwnerKept /\ RolesKept /\ Rising
    /\ Powers
    /\ BannedRows /\ KickedRows /\ AdmittedRows
    /\ OneActiveRow
    /\ JobsOK /\ Doubles

-----------------------------------------------------------------------------
(* A free slot satisfies whatever is said of requests. *)
LEMMA IdleOK == Idle \in Jobs /\ JobOK(Idle) /\ ~Past(Idle) /\ Idle.step = "idle"
<1>1. Idle \in Jobs
  BY GuildsAssumption DEF Idle, Jobs, Roles, Managed
<1>2. Idle.op = "none" /\ Idle.step = "idle"
  BY DEF Idle
<1>3. ~Past(Idle)
  BY <1>2 DEF Past
<1>4. Shape(Idle) /\ SaveOK(Idle) /\ JoinOK(Idle) /\ RankOK(Idle)
  BY <1>2, <1>3 DEF Shape, SaveOK, JoinOK, RankOK, RoleOps
<1> QED BY <1>1, <1>2, <1>3, <1>4 DEF JobOK

LEMMA Initially == Init => IInv
<1> SUFFICES ASSUME Init PROVE IInv
  OBVIOUS
<1>1. TypeOK
  <2>1. job \in [Slots -> Jobs]
    BY IdleOK DEF Init
  <2>2. perms \in [Roles -> SUBSET Permissions]
    BY DEF Init, Defaults, Permissions
  <2> QED BY <2>1, <2>2, GuildsAssumption DEF Init, TypeOK
<1>2. OwnerKept /\ RolesKept /\ Rising
  BY GuildsAssumption DEF Init, OwnerKept, RolesKept, Rising
<1>3. \A u \in Users : RowsOf(u) = {} /\ ActiveRows(u) = {}
  BY DEF Init, RowsOf, ActiveRows
<1>4. Powers
  <2>1. \A r \in Roles \ {"owner"} : ~PowerOverRoles(perms[r])
    BY DEF Init, Defaults, PowerOverRoles
  <2> QED BY <2>1 DEF Init, Powers
<1>5. BannedRows /\ KickedRows /\ AdmittedRows /\ OneActiveRow
  BY <1>3 DEF Init, BannedRows, KickedRows, AdmittedRows, OneActiveRow
<1>6. JobsOK /\ Doubles
  BY IdleOK DEF Init, JobsOK, Doubles
<1> QED BY <1>1, <1>2, <1>4, <1>5, <1>6 DEF IInv

(* A step that changes nothing but one request, and perhaps the settings   *)
(* of the guild, needs to be looked at for that request only.              *)
LEMMA RequestStep ==
    ASSUME IInv, NEW q \in Slots, NEW j \in Jobs,
           job' = [job EXCEPT ![q] = j],
           UNCHANGED <<phase, members, ranks, history>>,
           approval' \in BOOLEAN, code' \in Nat, ops' \in Nat,
           phase \in {"open", "deleted"},
           JobOK(j),
           Past(j) => Past(job[q]) /\ j.by = job[q].by
    PROVE  IInv'
<1>1. /\ UNCHANGED <<phase, user, status, roles, used, table, perms, born>>
      /\ UNCHANGED <<out, undone, doubled, admitted, delegated>>
  BY DEF members, ranks, history
<1>2. job \in [Slots -> Jobs]
  BY DEF IInv, TypeOK
<1>3. TypeOK'
  BY <1>1, <1>2 DEF IInv, TypeOK
<1>4. \A u : RowsOf(u)' = RowsOf(u) /\ ActiveRows(u)' = ActiveRows(u) /\ Pending(u)' = Pending(u)
  BY <1>1 DEF RowsOf, ActiveRows, Pending
<1>5. (OwnerKept /\ RolesKept /\ Rising /\ Powers)'
  BY <1>1 DEF IInv, OwnerKept, RolesKept, Rising, Powers, PowerOverRoles
<1>6. (BannedRows /\ KickedRows /\ AdmittedRows /\ OneActiveRow)'
  BY <1>1, <1>4 DEF IInv, BannedRows, KickedRows, AdmittedRows, OneActiveRow
<1>7. JobsOK'
  <2> SUFFICES ASSUME NEW p \in Slots PROVE JobOK(job[p])'
    BY DEF JobsOK
  <2>1. JobOK(job'[p])
    <3>1. CASE p = q
      BY <3>1, <1>2
    <3>2. CASE p # q
      BY <3>2, <1>2 DEF IInv, JobsOK
    <3> QED BY <3>1, <3>2
  <2> QED BY <2>1, <1>1, <1>4 DEF JobOK, Shape, SaveOK, JoinOK, RankOK, Past
<1>8. Doubles'
  BY <1>1, <1>2 DEF IInv, Doubles, Past
<1> QED BY <1>3, <1>5, <1>6, <1>7, <1>8 DEF IInv

(* A request under way is one of an open guild, or of one that is gone. *)
LEMMA UnderWay ==
    ASSUME IInv, NEW q \in Slots
    PROVE  /\ job[q] \in Jobs /\ JobOK(job[q])
           /\ job[q].step # "idle" => phase \in {"open", "deleted"}
<1>1. job[q] \in Jobs /\ JobOK(job[q])
  BY DEF IInv, TypeOK, JobsOK
<1>2. phase \notin {"open", "deleted"} => job[q].step = "idle"
  BY IdleOK DEF IInv, Rising
<1> QED BY <1>1, <1>2

(* A request ends, and with it what it held. *)
LEMMA FinishStep ==
    ASSUME IInv, NEW q \in Slots, job[q].step # "idle", Finish(q),
           UNCHANGED <<phase, members, ranks, ops, history>>,
           approval' \in BOOLEAN, code' \in Nat
    PROVE  IInv'
<1>1. job' = [job EXCEPT ![q] = Idle]
  BY DEF Finish
<1>2. ops' \in Nat
  BY DEF IInv, TypeOK
<1> QED BY <1>1, <1>2, UnderWay, IdleOK, RequestStep

(* A request arrives. *)
LEMMA StartStep ==
    ASSUME IInv, NEW q \in Slots, StartAny(q)
    PROVE  IInv'
<1>1. PICK op \in Ops, by \in Users, on \in Users, r \in Roles, ps \in SUBSET Permissions :
         Start(q, op, by, on, r, ps) /\ (op = "createRole" => r \in Custom)
  <2>1. table \subseteq Roles /\ Owner \in Users /\ Custom \subseteq Roles
        /\ Grants \subseteq SUBSET Permissions /\ "member" \in Roles
    BY GuildsAssumption DEF IInv, TypeOK, Roles, Managed
  <2> QED BY <2>1 DEF StartAny, Ops, RoleOps
<1> DEFINE j == [Idle EXCEPT !.op = op, !.by = by, !.on = on, !.role = r,
                             !.perms = ps, !.step = "authorize"]
<1>2. job' = [job EXCEPT ![q] = j] /\ phase = "open" /\ ops' = ops + 1
      /\ UNCHANGED <<guild, members, ranks, history>>
  BY <1>1 DEF Start
<1>3. /\ j \in Jobs /\ j.step = "authorize" /\ j.op \in Ops
      /\ j.op = "createRole" => j.role \in Custom
  BY <1>1, IdleOK DEF Jobs, Idle
<1> HIDE DEF j
<1>4. JobOK(j) /\ ~Past(j)
  BY <1>3 DEF JobOK, Shape, SaveOK, JoinOK, RankOK, Past, Ops, RoleOps
<1>5. UNCHANGED <<phase, approval, code>> /\ approval' \in BOOLEAN /\ code' \in Nat /\ ops' \in Nat
  BY <1>2 DEF guild, IInv, TypeOK
<1> QED BY <1>2, <1>3, <1>4, <1>5, RequestStep

LEMMA JoinStep ==
    ASSUME IInv, NEW q \in Slots, NEW u \in Users, Join(q, u)
    PROVE  IInv'
<1> DEFINE j == [Idle EXCEPT !.op = "join", !.by = u, !.on = u,
                             !.code = code, !.step = "guild"]
<1>1. job' = [job EXCEPT ![q] = j] /\ phase = "open" /\ ops' = ops + 1
      /\ UNCHANGED <<guild, members, ranks, history>>
  BY DEF Join
<1>2. j \in Jobs /\ j.step = "guild" /\ j.op = "join" /\ j.by = u /\ j.on = u
  BY IdleOK DEF Jobs, Idle, IInv, TypeOK
<1> HIDE DEF j
<1>3. JobOK(j) /\ ~Past(j)
  BY <1>2 DEF JobOK, Shape, SaveOK, JoinOK, RankOK, Past, RoleOps
<1>4. UNCHANGED <<phase, approval, code>> /\ approval' \in BOOLEAN /\ code' \in Nat /\ ops' \in Nat
  BY <1>1 DEF guild, IInv, TypeOK
<1> QED BY <1>1, <1>2, <1>3, <1>4, RequestStep

(* requirePermission lets nobody up who has no power over roles. *)
LEMMA PermitStep ==
    ASSUME IInv, NEW q \in Slots, Permit(q)
    PROVE  IInv'
<1> DEFINE old == job[q]
           j == [old EXCEPT !.step = FirstStep(old.op)]
<1>1. job' = [job EXCEPT ![q] = j] /\ UNCHANGED <<guild, members, ranks, ops, history>>
  BY DEF Permit, Goto
<1>2. /\ old \in Jobs /\ JobOK(old) /\ old.step = "authorize" /\ phase \in {"open", "deleted"}
      /\ \/ old.by = Owner
         \/ \E i \in ActiveRows(old.by) : MemberHas(i, Needs(old.op))
  BY UnderWay DEF Permit
<1>3. FirstStep(old.op) \in {"role", "member", "act"}
      /\ (FirstStep(old.op) = "role" => old.op \in {"assign", "updateRole", "deleteRole"})
      /\ (FirstStep(old.op) = "member" => old.op = "unassign")
      /\ (FirstStep(old.op) = "act" => old.op \notin {"assign", "updateRole", "deleteRole"})
  BY DEF FirstStep
<1>4. /\ j \in Jobs /\ j.step = FirstStep(old.op) /\ j.op = old.op /\ j.by = old.by
      /\ j.on = old.on /\ j.role = old.role
  <2> HIDE DEF old
  <2> QED BY <1>2, <1>3 DEF Jobs
<1>5. RankOK(j)
  <2> SUFFICES ASSUME ~delegated, old.op \in RoleOps, old.by # Owner PROVE FALSE
    BY <1>4 DEF RankOK
  <2>1. PICK i \in ActiveRows(old.by) : MemberHas(i, "MANAGE_ROLES")
    BY <1>2 DEF Needs, RoleOps
  <2>2. i \in Rows /\ user[i] = old.by /\ status[i] # "none"
    BY <2>1 DEF ActiveRows, RowsOf
  <2>3. PICK r \in roles[i] : {"ADMINISTRATOR", "MANAGE_ROLES"} \cap perms[r] # {}
    BY <2>1 DEF MemberHas, RoleHas
  <2> QED BY <2>2, <2>3 DEF IInv, Powers, PowerOverRoles
<1>6. Shape(j)
  BY <1>2, <1>3, <1>4 DEF JobOK, Shape
<1>7. SaveOK(j) /\ JoinOK(j) /\ ~Past(j)
  BY <1>3, <1>4 DEF SaveOK, JoinOK, Past
<1>8. approval' \in BOOLEAN /\ code' \in Nat /\ ops' \in Nat /\ UNCHANGED phase
  BY <1>1 DEF guild, IInv, TypeOK
<1> HIDE DEF j
<1> QED BY <1>1, <1>2, <1>4, <1>5, <1>6, <1>7, <1>8, RequestStep DEF JobOK

(* FindRole, ReadMember and JoinFindRole go on with what they have read. *)
LEMMA FindRoleStep ==
    ASSUME IInv, NEW q \in Slots, FindRole(q)
    PROVE  IInv'
<1> DEFINE old == job[q]
           s == IF old.op = "assign" THEN "member" ELSE "act"
           j == [old EXCEPT !.step = s]
<1>1. job' = [job EXCEPT ![q] = j] /\ UNCHANGED <<guild, members, ranks, ops, history>>
  BY DEF FindRole, Goto
<1>2. /\ old \in Jobs /\ JobOK(old) /\ old.step = "role" /\ phase \in {"open", "deleted"}
      /\ old.op \in {"assign", "updateRole", "deleteRole"}
      /\ old.op = "assign" \/ old.role \notin Managed
  BY UnderWay DEF FindRole
<1>3. j \in Jobs /\ j.step = s /\ j.op = old.op /\ j.by = old.by /\ j.role = old.role
  <2> HIDE DEF old
  <2> QED BY <1>2 DEF Jobs
<1>4. JobOK(j) /\ ~Past(j)
  BY <1>2, <1>3 DEF JobOK, Shape, SaveOK, JoinOK, RankOK, Past
<1>5. approval' \in BOOLEAN /\ code' \in Nat /\ ops' \in Nat /\ UNCHANGED phase
  BY <1>1 DEF guild, IInv, TypeOK
<1> HIDE DEF j
<1> QED BY <1>1, <1>2, <1>3, <1>4, <1>5, RequestStep

LEMMA ReadMemberStep ==
    ASSUME IInv, NEW q \in Slots, ReadMember(q)
    PROVE  IInv'
<1> DEFINE old == job[q]
           held(i) == IF old.op = "assign" THEN roles[i] \cup {old.role}
                      ELSE roles[i] \ {old.role}
<1>1. /\ old \in Jobs /\ JobOK(old) /\ old.step = "member" /\ phase \in {"open", "deleted"}
      /\ UNCHANGED <<guild, members, ranks, ops, history>>
  BY UnderWay DEF ReadMember
<1>2. PICK i \in ActiveRows(old.on) :
         job' = [job EXCEPT ![q].step = "save", ![q].row = i, ![q].held = held(i)]
  BY DEF ReadMember
<1>3. i \in Rows /\ user[i] = old.on /\ status[i] = "active"
  BY <1>2 DEF ActiveRows, RowsOf
<1> DEFINE j == [old EXCEPT !.step = "save", !.row = i, !.held = held(i)]
<1>4. job' = [job EXCEPT ![q] = j]
  BY <1>2 DEF IInv, TypeOK
<1>5. held(i) \subseteq Roles
  BY <1>1, <1>3 DEF IInv, TypeOK, Jobs
<1>6. /\ j \in Jobs /\ j.step = "save" /\ j.op = old.op /\ j.by = old.by /\ j.on = old.on
      /\ j.row = i /\ j.role = old.role
  <2> HIDE DEF old, held
  <2> QED BY <1>1, <1>3, <1>5 DEF Jobs
<1>7. SaveOK(j)
  <2>1. i \in used
    BY <1>3 DEF IInv, Rising
  <2>2. old.on = Owner \/ old.on \in admitted
    BY <1>1, <1>2 DEF IInv, AdmittedRows, Jobs
  <2> QED BY <1>3, <1>6, <2>1, <2>2 DEF SaveOK
<1>8. Shape(j) /\ JoinOK(j) /\ RankOK(j) /\ ~Past(j)
  BY <1>1, <1>6 DEF JobOK, Shape, JoinOK, RankOK, Past
<1>9. approval' \in BOOLEAN /\ code' \in Nat /\ ops' \in Nat /\ UNCHANGED phase
  BY <1>1 DEF guild, IInv, TypeOK
<1> HIDE DEF j
<1> QED BY <1>1, <1>4, <1>6, <1>7, <1>8, <1>9, RequestStep DEF JobOK

(* The role a join is given is never the owner's: the member role, at      *)
(* least, is below it.                                                     *)
LEMMA JoinFindRoleStep ==
    ASSUME IInv, NEW q \in Slots, JoinFindRole(q)
    PROVE  IInv'
<1> DEFINE old == job[q]
<1>1. /\ old \in Jobs /\ JobOK(old) /\ old.op = "join" /\ old.step = "role" /\ phase = "open"
      /\ UNCHANGED <<guild, members, ranks, ops, history>>
  BY UnderWay DEF JoinFindRole
<1>2. PICK r \in DefaultRoles : job' = [job EXCEPT ![q].step = "insert", ![q].role = r]
  BY DEF JoinFindRole
<1>3. r \in table /\ r # "owner" /\ r \in Roles
  BY <1>1, <1>2 DEF IInv, TypeOK, RolesKept, DefaultRoles, Position
<1> DEFINE j == [old EXCEPT !.step = "insert", !.role = r]
<1>4. job' = [job EXCEPT ![q] = j]
  BY <1>2 DEF IInv, TypeOK
<1>5. /\ j \in Jobs /\ j.step = "insert" /\ j.op = "join" /\ j.by = old.by /\ j.on = old.on
      /\ j.role = r /\ j.status = old.status /\ j.stale = old.stale
  <2> HIDE DEF old
  <2> QED BY <1>1, <1>3 DEF Jobs
<1>6. Past(old) /\ Past(j)
  BY <1>1, <1>5 DEF Past
<1>7. Shape(j) /\ SaveOK(j) /\ JoinOK(j) /\ RankOK(j)
  BY <1>1, <1>3, <1>5, <1>6 DEF JobOK, Shape, SaveOK, JoinOK, RankOK, RoleOps
<1>8. approval' \in BOOLEAN /\ code' \in Nat /\ ops' \in Nat /\ UNCHANGED phase
  BY <1>1 DEF guild, IInv, TypeOK
<1> HIDE DEF j
<1> QED BY <1>1, <1>4, <1>5, <1>6, <1>7, <1>8, RequestStep DEF JobOK

(* The request steps of a join that add to what is on record. *)
LEMMA RecordStep ==
    ASSUME IInv, NEW q \in Slots, job' \in [Slots -> Jobs],
           \A p \in Slots \ {q} : job'[p] = job[p],
           UNCHANGED <<guild, members, ranks, ops, out, undone, delegated>>,
           admitted \subseteq admitted', admitted' \subseteq Users,
           doubled \subseteq doubled', doubled' \subseteq Users,
           phase \in {"open", "deleted"},
           JobOK(job[q])',
           Past(job'[q]) => \A p \in Slots \ {q} :
               Past(job[p]) /\ job[p].by = job'[q].by => job'[q].by \in doubled'
    PROVE  IInv'
<1>1. /\ UNCHANGED <<phase, approval, code, user, status, roles, used, table, perms, born>>
      /\ UNCHANGED <<ops, out, undone, delegated>>
  BY DEF guild, members, ranks
<1>2. job \in [Slots -> Jobs]
  BY DEF IInv, TypeOK
<1>3. TypeOK'
  BY <1>1, <1>2 DEF IInv, TypeOK
<1>4. \A u : RowsOf(u)' = RowsOf(u) /\ ActiveRows(u)' = ActiveRows(u) /\ Pending(u)' = Pending(u)
  BY <1>1 DEF RowsOf, ActiveRows, Pending
<1>5. (OwnerKept /\ RolesKept /\ Rising /\ Powers)'
  BY <1>1 DEF IInv, OwnerKept, RolesKept, Rising, Powers, PowerOverRoles
<1>6. (BannedRows /\ KickedRows /\ AdmittedRows /\ OneActiveRow)'
  BY <1>1, <1>4 DEF IInv, BannedRows, KickedRows, AdmittedRows, OneActiveRow
<1>7. JobsOK'
  <2> SUFFICES ASSUME NEW p \in Slots, p # q PROVE JobOK(job[p])'
    BY DEF JobsOK
  <2>1. JobOK(job[p]) /\ job'[p] = job[p]
    BY DEF IInv, JobsOK
  <2> QED BY <2>1, <1>1, <1>4 DEF JobOK, Shape, SaveOK, JoinOK, RankOK, Past
<1>8. Doubles'
  <2> SUFFICES ASSUME NEW p \in Slots, NEW t \in Slots, p # t,
                      Past(job'[p]), Past(job'[t]), job'[p].by = job'[t].by
               PROVE  job'[p].by \in doubled'
    BY DEF Doubles, Past
  <2> QED BY DEF IInv, Doubles, Past
<1> QED BY <1>3, <1>5, <1>6, <1>7, <1>8 DEF IInv

LEMMA JoinFindGuildStep ==
    ASSUME IInv, NEW q \in Slots, JoinFindGuild(q)
    PROVE  IInv'
<1> DEFINE old == job[q]
           j == [old EXCEPT !.step = "existing",
                            !.status = IF approval THEN "pending" ELSE "active"]
<1>1. /\ old \in Jobs /\ JobOK(old) /\ old.op = "join" /\ old.step = "guild" /\ phase = "open"
      /\ admitted' = IF approval THEN admitted ELSE admitted \cup {old.by}
      /\ UNCHANGED <<guild, members, ranks, ops, out, undone, doubled, delegated>>
  BY UnderWay DEF JoinFindGuild
<1>2. job' = [job EXCEPT ![q] = j]
  BY DEF JoinFindGuild, IInv, TypeOK
<1>3. /\ j \in Jobs /\ j.step = "existing" /\ j.op = "join" /\ j.by = old.by /\ j.on = old.on
      /\ j.status = IF approval THEN "pending" ELSE "active"
  <2> HIDE DEF old
  <2> QED BY <1>1 DEF Jobs
<1> HIDE DEF j
<1>4. job' \in [Slots -> Jobs] /\ job'[q] = j /\ \A p \in Slots \ {q} : job'[p] = job[p]
  BY <1>2, <1>3 DEF IInv, TypeOK
<1>5. admitted \subseteq admitted' /\ admitted' \subseteq Users /\ doubled' = doubled
      /\ doubled \subseteq Users /\ (~approval => old.by \in admitted')
  BY <1>1 DEF IInv, TypeOK, Jobs
<1>6. ~Past(j) /\ Shape(j) /\ (j.step # "save") /\ j.op \notin RoleOps
      /\ (j.status = "active" => j.by \in admitted') /\ j.op = "join" /\ j.step = "existing"
  BY <1>1, <1>3, <1>5 DEF Past, JobOK, Shape, RoleOps
<1>7. JobOK(job[q])'
  BY <1>4, <1>6 DEF JobOK, Shape, SaveOK, JoinOK, RankOK, Past
<1> QED BY <1>1, <1>4, <1>5, <1>6, <1>7, RecordStep

(* A join passes its check only when the user is neither banned nor has,   *)
(* without a pending one, an active row.                                   *)
LEMMA JoinCheckStep ==
    ASSUME IInv, NEW q \in Slots, JoinCheck(q)
    PROVE  IInv'
<1> DEFINE old == job[q]
           j == [old EXCEPT !.step = "role"]
<1>1. /\ old \in Jobs /\ JobOK(old) /\ old.op = "join" /\ old.step = "existing"
      /\ phase \in {"open", "deleted"}
      /\ doubled' = IF JoinUnderWay(old.by) THEN doubled \cup {old.by} ELSE doubled
      /\ RowsOf(old.by) = {} \/ \E i \in RowsOf(old.by) : status[i] = "pending"
      /\ UNCHANGED <<guild, members, ranks, ops, out, undone, admitted, delegated>>
  BY UnderWay DEF JoinCheck
<1>2. job' = [job EXCEPT ![q] = j]
  BY DEF JoinCheck, Goto, IInv, TypeOK
<1>3. /\ j \in Jobs /\ j.step = "role" /\ j.op = "join" /\ j.by = old.by /\ j.on = old.on
      /\ j.status = old.status /\ j.stale = old.stale
  <2> HIDE DEF old
  <2> QED BY <1>1 DEF Jobs
<1> HIDE DEF j
<1>4. job' \in [Slots -> Jobs] /\ job'[q] = j /\ \A p \in Slots \ {q} : job'[p] = job[p]
  BY <1>2, <1>3 DEF IInv, TypeOK
<1>5. doubled \subseteq doubled' /\ doubled' \subseteq Users /\ admitted' = admitted
      /\ admitted \subseteq Users /\ old.by \in Users
  BY <1>1 DEF IInv, TypeOK, Jobs
<1>6. ASSUME NEW p \in Slots \ {q}, Past(job[p]), job[p].by = j.by PROVE j.by \in doubled'
  <2>1. job[p].on = j.by /\ job[p].op = "join" /\ job[p].step \in {"role", "insert"}
    BY <1>6 DEF IInv, JobsOK, JobOK, Shape, Past
  <2>2. JoinUnderWay(j.by)
    BY <2>1 DEF JoinUnderWay, Holds
  <2> QED BY <2>2, <1>1, <1>3
<1>7. phase = "open" /\ j.by \notin undone => out[j.by] # "banned"
  BY <1>1, <1>3, <1>5 DEF IInv, BannedRows
<1>8. ActiveRows(j.by) = {} \/ Pending(j.by) # {}
  BY <1>1, <1>3 DEF ActiveRows, Pending
<1>9. \A u : ActiveRows(u)' = ActiveRows(u) /\ Pending(u)' = Pending(u)
  <2>1. UNCHANGED <<user, status>>
    BY <1>1 DEF members
  <2> QED BY <2>1 DEF ActiveRows, Pending, RowsOf
<1>10. JobOK(job[q])'
  <2>1. UNCHANGED <<phase, out, undone, admitted, delegated>>
    BY <1>1 DEF guild
  <2>2. Shape(j) /\ j.op \notin RoleOps /\ (j.status = "active" => j.by \in admitted)
    BY <1>1, <1>3 DEF JobOK, Shape, JoinOK, RoleOps
  <2> QED BY <1>3, <1>4, <1>7, <1>8, <1>9, <2>1, <2>2 DEF JobOK, Shape, SaveOK, JoinOK, RankOK, Past
<1> QED BY <1>1, <1>4, <1>5, <1>6, <1>10, RecordStep

-----------------------------------------------------------------------------
(* Kicks and bans: the rows of the target change, those of others do not,  *)
(* and every request that holds something about the target becomes stale.  *)
LEMMA OtherRows ==
    ASSUME NEW u, UNCHANGED user, TypeOK,
           \A i \in Rows \ RowsOf(u) : status'[i] = status[i]
    PROVE  \A w : w # u => /\ RowsOf(w)' = RowsOf(w)
                           /\ ActiveRows(w)' = ActiveRows(w)
                           /\ Pending(w)' = Pending(w)
<1> SUFFICES ASSUME NEW w, w # u
             PROVE  /\ RowsOf(w)' = RowsOf(w)
                    /\ ActiveRows(w)' = ActiveRows(w)
                    /\ Pending(w)' = Pending(w)
  OBVIOUS
<1>1. \A i \in Rows : user[i] = w => status'[i] = status[i]
  BY DEF RowsOf
<1> QED BY <1>1 DEF RowsOf, ActiveRows, Pending

LEMMA AgainstStep ==
    ASSUME IInv, NEW q \in Slots, NEW u \in Users, FinishAgainst(q, u), phase = "open",
           UNCHANGED <<phase, user, used, delegated, admitted, doubled>>,
           \A i \in Rows \ RowsOf(u) : status'[i] = status[i],
           \A i \in RowsOf(u) : status'[i] # "pending",
           \A w \in Users \ {u} : out'[w] = out[w] /\ (w \in undone' <=> w \in undone)
    PROVE  job' \in [Slots -> Jobs] /\ JobsOK' /\ Doubles'
<1>1. job \in [Slots -> Jobs] /\ status \in [Rows -> {"none", "active", "pending", "banned"}]
      /\ TypeOK
  BY DEF IInv, TypeOK
<1>2. job'[q] = Idle
  BY DEF FinishAgainst
<1>3. ASSUME NEW p \in Slots, p # q
      PROVE  /\ job'[p] \in Jobs
             /\ job'[p].op = job[p].op /\ job'[p].by = job[p].by /\ job'[p].on = job[p].on
             /\ job'[p].role = job[p].role /\ job'[p].step = job[p].step
             /\ job'[p].row = job[p].row /\ job'[p].status = job[p].status
             /\ job'[p].stale = (job[p].stale \/ Holds(job[p], u))
  <2> DEFINE old == job[p]
             h == old.stale \/ Holds(old, u)
  <2>1. job'[p] = [old EXCEPT !.stale = h]
    BY <1>3 DEF FinishAgainst
  <2>2. old \in Jobs /\ h \in BOOLEAN
    BY <1>1 DEF Jobs, Holds
  <2> HIDE DEF old, h
  <2>3. /\ [old EXCEPT !.stale = h] \in Jobs
        /\ \A f \in {"op", "by", "on", "role", "step", "row", "status"} :
              [old EXCEPT !.stale = h][f] = old[f]
        /\ [old EXCEPT !.stale = h].stale = h
    BY <2>2 DEF Jobs
  <2> QED BY <2>1, <2>3 DEF old, h
<1>4. job' \in [Slots -> Jobs]
  BY <1>2, <1>3, IdleOK DEF FinishAgainst
<1>5. \A w : w # u => ActiveRows(w)' = ActiveRows(w) /\ Pending(w)' = Pending(w)
  BY <1>1, OtherRows
<1>6. JobsOK'
  <2> SUFFICES ASSUME NEW p \in Slots PROVE JobOK(job[p])'
    BY DEF JobsOK
  <2>1. CASE p = q
    <3>1. job'[p].op = "none" /\ job'[p].step = "idle"
      BY <2>1, <1>2 DEF Idle
    <3> QED BY <3>1 DEF JobOK, Shape, SaveOK, JoinOK, RankOK, Past, RoleOps
  <2>2. CASE p # q
    <3>1. JobOK(job[p]) /\ job[p] \in Jobs
      BY UnderWay
    <3>2. Shape(job[p])' /\ RankOK(job[p])'
      BY <1>3, <2>2, <3>1 DEF JobOK, Shape, RankOK
    <3>3. SaveOK(job[p])'
      <4> SUFFICES ASSUME job[p].step = "save"
                   PROVE  /\ status'[job[p].row] # "pending"
                          /\ ~job'[p].stale => status'[job[p].row] = "active"
        BY <1>3, <2>2, <3>1 DEF JobOK, SaveOK
      <4>1. /\ job[p].row \in Rows /\ user[job[p].row] = job[p].on
            /\ status[job[p].row] # "pending"
            /\ ~job[p].stale => status[job[p].row] = "active"
        BY <3>1 DEF JobOK, SaveOK, Jobs
      <4>2. CASE job[p].on = u
        <5>1. job'[p].stale
          BY <4>2, <1>3, <2>2 DEF Holds
        <5> QED BY <5>1, <4>1
      <4>3. CASE job[p].on # u
        <5>1. job[p].row \notin RowsOf(u)
          BY <4>1, <4>3 DEF RowsOf
        <5> QED BY <5>1, <4>1, <1>3, <2>2
      <4> QED BY <4>2, <4>3
    <3>4. JoinOK(job[p])'
      <4>1. Past(job[p])' <=> Past(job[p])
        BY <1>3, <2>2 DEF Past
      <4> SUFFICES ASSUME Past(job[p]), ~job'[p].stale, job[p].by \notin undone'
                   PROVE  /\ out'[job[p].by] # "banned"
                          /\ job[p].by \notin doubled =>
                                (ActiveRows(job[p].by) = {} \/ Pending(job[p].by) # {})'
        BY <1>3, <2>2, <3>1, <4>1 DEF JobOK, JoinOK
      <4>2. job[p].on = job[p].by /\ ~job[p].stale /\ ~Holds(job[p], u) /\ job[p].by \in Users
        BY <1>3, <2>2, <3>1 DEF JobOK, Shape, Past, Jobs
      <4>3. job[p].by # u
        BY <4>2 DEF Holds, Past
      <4>4. /\ out[job[p].by] # "banned"
            /\ job[p].by \notin doubled => ActiveRows(job[p].by) = {} \/ Pending(job[p].by) # {}
        BY <4>2, <4>3, <3>1 DEF JobOK, JoinOK
      <4>5. job'[p].by = job[p].by
        BY <1>3, <2>2
      <4> QED BY <4>2, <4>3, <4>4, <4>5, <1>5
    <3> QED BY <3>2, <3>3, <3>4 DEF JobOK
  <2> QED BY <2>1, <2>2
<1>7. Doubles'
  <2>1. ~Past(job'[q])
    BY <1>2, IdleOK
  <2> QED BY <1>3, <2>1 DEF IInv, Doubles, Past
<1> QED BY <1>4, <1>6, <1>7

LEMMA KickStep ==
    ASSUME IInv, NEW q \in Slots, Kick(q)
    PROVE  IInv'
<1> DEFINE u == job[q].on
<1>1. /\ u \in Users /\ u # Owner /\ phase = "open"
      /\ status' = [i \in Rows |-> IF i \in RowsOf(u) THEN "none" ELSE status[i]]
      /\ roles' = [i \in Rows |-> IF i \in RowsOf(u) THEN {} ELSE roles[i]]
      /\ FinishAgainst(q, u)
      /\ out' = [out EXCEPT ![u] = "kicked"]
      /\ undone' = undone \ {u}
      /\ UNCHANGED <<phase, approval, code, user, used, table, perms, born, ops>>
      /\ UNCHANGED <<doubled, admitted, delegated>>
  BY DEF Kick, guild, ranks, IInv, TypeOK, Jobs
<1> HIDE DEF u
<1>2. TypeOK
  BY DEF IInv
<1>3. \A i \in Rows \ RowsOf(u) : status'[i] = status[i]
  BY <1>1
<1>4. \A i \in RowsOf(u) : status'[i] = "none" /\ roles'[i] = {}
  BY <1>1 DEF RowsOf
<1>5. \A w \in Users \ {u} : out'[w] = out[w] /\ (w \in undone' <=> w \in undone)
  BY <1>1, <1>2 DEF TypeOK
<1>6. job' \in [Slots -> Jobs] /\ JobsOK' /\ Doubles'
  BY <1>1, <1>3, <1>4, <1>5, AgainstStep
<1>7. \A w : w # u => RowsOf(w)' = RowsOf(w) /\ ActiveRows(w)' = ActiveRows(w)
                      /\ Pending(w)' = Pending(w)
  BY <1>1, <1>2, <1>3, OtherRows
<1>8. \A w : w = u => RowsOf(w)' = {} /\ ActiveRows(w)' = {}
  BY <1>1, <1>3, <1>4 DEF RowsOf, ActiveRows
<1>9. TypeOK'
  BY <1>1, <1>2, <1>6 DEF TypeOK
<1>10. OwnerKept' /\ RolesKept' /\ Rising'
  <2>1. OwnerRow \notin RowsOf(u) /\ OwnerRow \in Rows
    BY <1>1, GuildsAssumption DEF IInv, OwnerKept, RowsOf
  <2> QED BY <1>1, <1>3, <1>4, <2>1 DEF IInv, OwnerKept, RolesKept, Rising
<1>11. Powers'
  BY <1>1, <1>3, <1>4 DEF IInv, Powers, PowerOverRoles
<1>12. (BannedRows /\ KickedRows)'
  <2>1. \A w \in Users \ undone' : out'[w] = "banned" => w # u /\ w \notin undone /\ out[w] = "banned"
    BY <1>1, <1>2, <1>5 DEF TypeOK
  <2>2. BannedRows'
    <3> SUFFICES ASSUME NEW w \in Users \ undone', out'[w] = "banned"
                 PROVE  /\ RowsOf(w)' # {}
                        /\ \A i \in RowsOf(w)' : status'[i] = "banned"
      BY DEF BannedRows
    <3>1. w # u /\ RowsOf(w)' = RowsOf(w)
      BY <2>1, <1>7
    <3>2. RowsOf(w) # {} /\ \A i \in RowsOf(w) : status[i] = "banned" /\ i \in Rows
      BY <2>1, <1>1 DEF IInv, BannedRows, RowsOf
    <3>3. \A i \in RowsOf(w) : i \notin RowsOf(u)
      BY <3>1 DEF RowsOf
    <3> QED BY <3>1, <3>2, <3>3, <1>3
  <2>3. KickedRows'
    BY <1>5, <1>7, <1>8 DEF IInv, KickedRows
  <2> QED BY <2>2, <2>3
<1>13. AdmittedRows'
  BY <1>1, <1>7, <1>8 DEF IInv, AdmittedRows
<1>14. OneActiveRow'
  <2> SUFFICES ASSUME NEW w \in Users \ (undone' \cup doubled'),
                      \A i \in RowsOf(w)' : status'[i] # "pending"
               PROVE  \A i, k \in ActiveRows(w)' : i = k
    BY DEF OneActiveRow
  <2>1. CASE w = u
    BY <2>1, <1>8
  <2>2. CASE w # u
    <3>1. \A i \in RowsOf(w) : status[i] # "pending"
      <4>1. \A i \in RowsOf(w) : i \in Rows \ RowsOf(u)
        BY <2>2 DEF RowsOf
      <4> QED BY <2>2, <4>1, <1>3, <1>7
    <3> QED BY <2>2, <3>1, <1>1, <1>5, <1>7 DEF IInv, OneActiveRow
  <2> QED BY <2>1, <2>2
<1> QED BY <1>6, <1>9, <1>10, <1>11, <1>12, <1>13, <1>14 DEF IInv

LEMMA BanStep ==
    ASSUME IInv, NEW q \in Slots, Ban(q)
    PROVE  IInv'
<1> DEFINE u == job[q].on
<1>1. /\ u \in Users /\ u # Owner /\ phase = "open"
      /\ status' = [i \in Rows |-> IF i \in RowsOf(u) THEN "banned" ELSE status[i]]
      /\ FinishAgainst(q, u)
      /\ IF RowsOf(u) = {} THEN UNCHANGED <<out, undone>>
         ELSE out' = [out EXCEPT ![u] = "banned"] /\ undone' = undone \ {u}
      /\ UNCHANGED <<phase, approval, code, user, roles, used, table, perms, born, ops>>
      /\ UNCHANGED <<doubled, admitted, delegated>>
  BY DEF Ban, guild, ranks, IInv, TypeOK, Jobs
<1> HIDE DEF u
<1>2. TypeOK
  BY DEF IInv
<1>3. \A i \in Rows \ RowsOf(u) : status'[i] = status[i]
  BY <1>1
<1>4. \A i \in RowsOf(u) : status'[i] = "banned"
  BY <1>1 DEF RowsOf
<1>5. \A w \in Users \ {u} : out'[w] = out[w] /\ (w \in undone' <=> w \in undone)
  BY <1>1, <1>2 DEF TypeOK
<1>6. job' \in [Slots -> Jobs] /\ JobsOK' /\ Doubles'
  BY <1>1, <1>3, <1>4, <1>5, AgainstStep
<1>7. \A w : w # u => RowsOf(w)' = RowsOf(w) /\ ActiveRows(w)' = ActiveRows(w)
                      /\ Pending(w)' = Pending(w)
  BY <1>1, <1>2, <1>3, OtherRows
<1>8. \A w : w = u => RowsOf(w)' = RowsOf(w) /\ ActiveRows(w)' = {}
  <2>1. \A i \in Rows : status'[i] # "none" <=> status[i] # "none"
    BY <1>3, <1>4 DEF RowsOf
  <2>2. \A i \in Rows : status'[i] = "active" => user[i] # u
    BY <1>3, <1>4 DEF RowsOf
  <2> QED BY <1>1, <2>1, <2>2 DEF RowsOf, ActiveRows
<1>9. TypeOK'
  <2>1. out' \in [Users -> {"free", "kicked", "banned"}] /\ undone' \in SUBSET Users
    BY <1>1, <1>2 DEF TypeOK
  <2> QED BY <1>1, <1>2, <1>6, <2>1 DEF TypeOK
<1>10. OwnerKept' /\ RolesKept' /\ Rising'
  <2>1. OwnerRow \notin RowsOf(u) /\ OwnerRow \in Rows
    BY <1>1, GuildsAssumption DEF IInv, OwnerKept, RowsOf
  <2>2. \A i \in Rows : status'[i] # "none" => status[i] # "none"
    BY <1>3, <1>4 DEF RowsOf
  <2> QED BY <1>1, <1>3, <2>1, <2>2 DEF IInv, OwnerKept, RolesKept, Rising
<1>11. Powers'
  <2>1. \A i \in Rows : status'[i] # "none" => status[i] # "none"
    BY <1>3, <1>4 DEF RowsOf
  <2> QED BY <1>1, <2>1 DEF IInv, Powers, PowerOverRoles
<1>12. (BannedRows /\ KickedRows)'
  <2>1. BannedRows'
    <3> SUFFICES ASSUME NEW w \in Users \ undone', out'[w] = "banned"
                 PROVE  /\ RowsOf(w)' # {}
                        /\ \A i \in RowsOf(w)' : status'[i] = "banned"
      BY DEF BannedRows
    <3>1. CASE w # u
      <4>1. RowsOf(w)' = RowsOf(w) /\ w \notin undone /\ out[w] = "banned"
        BY <3>1, <1>5, <1>7
      <4>2. RowsOf(w) # {} /\ \A i \in RowsOf(w) : status[i] = "banned" /\ i \in Rows
        BY <4>1, <1>1 DEF IInv, BannedRows, RowsOf
      <4>3. \A i \in RowsOf(w) : i \notin RowsOf(u)
        BY <3>1 DEF RowsOf
      <4> QED BY <4>1, <4>2, <4>3, <1>3
    <3>2. CASE w = u
      <4>1. RowsOf(u) # {}
        BY <3>2, <1>1 DEF IInv, BannedRows
      <4> QED BY <3>2, <4>1, <1>4, <1>8
    <3> QED BY <3>1, <3>2
  <2>2. KickedRows'
    <3> SUFFICES ASSUME NEW w \in Users \ undone', out'[w] = "kicked"
                 PROVE  RowsOf(w)' = {}
      BY DEF KickedRows
    <3>1. CASE w # u
      BY <3>1, <1>5, <1>7 DEF IInv, KickedRows
    <3>2. CASE w = u
      <4>1. RowsOf(u) = {}
        BY <3>2, <1>1, <1>2 DEF TypeOK
      <4> QED BY <3>2, <4>1, <1>8
    <3> QED BY <3>1, <3>2
  <2> QED BY <2>1, <2>2
<1>13. AdmittedRows'
  BY <1>1, <1>7, <1>8 DEF IInv, AdmittedRows
<1>14. OneActiveRow'
  <2> SUFFICES ASSUME NEW w \in Users \ (undone' \cup doubled'),
                      \A i \in RowsOf(w)' : status'[i] # "pending"
               PROVE  \A i, k \in ActiveRows(w)' : i = k
    BY DEF OneActiveRow
  <2>1. CASE w = u
    BY <2>1, <1>8
  <2>2. CASE w # u
    <3>1. \A i \in RowsOf(w) : status[i] # "pending"
      <4>1. \A i \in RowsOf(w) : i \in Rows \ RowsOf(u)
        BY <2>2 DEF RowsOf
      <4> QED BY <2>2, <4>1, <1>3, <1>7
    <3> QED BY <2>2, <3>1, <1>1, <1>5, <1>7 DEF IInv, OneActiveRow
  <2> QED BY <2>1, <2>2
<1> QED BY <1>6, <1>9, <1>10, <1>11, <1>12, <1>13, <1>14 DEF IInv

-----------------------------------------------------------------------------
(* membersRepo.save changes no status unless its request is stale, and is  *)
(* on record if it is.                                                     *)
LEMMA SaveMemberStep ==
    ASSUME IInv, NEW q \in Slots, SaveMember(q)
    PROVE  IInv'
<1> DEFINE j == job[q]
           u == job[q].on
           i == job[q].row
<1>1. /\ j \in Jobs /\ JobOK(j) /\ j.step = "save" /\ phase = "open" /\ j.held \subseteq table
      /\ status' = [status EXCEPT ![i] = "active"]
      /\ roles' = [roles EXCEPT ![i] = j.held]
      /\ job' = [job EXCEPT ![q] = Idle]
      /\ undone' = IF j.stale THEN undone \cup {u} ELSE undone
      /\ delegated' = (delegated \/ Hands(j))
      /\ UNCHANGED <<phase, approval, code, user, used, table, perms, born, ops>>
      /\ UNCHANGED <<out, doubled, admitted>>
  BY UnderWay DEF SaveMember, Finish, guild, ranks
<1>2. /\ TypeOK
      /\ i \in Rows /\ u \in Users /\ i \in used /\ user[i] = u
      /\ status[i] # "pending"
      /\ u = Owner \/ u \in admitted
      /\ ~j.stale => status[i] = "active"
  BY <1>1 DEF IInv, JobOK, SaveOK, Jobs
<1>3. \A k \in Rows : /\ status'[k] = IF k = i THEN "active" ELSE status[k]
                      /\ roles'[k] = IF k = i THEN j.held ELSE roles[k]
  BY <1>1, <1>2 DEF TypeOK
<1>4. \A w : w # u \/ ~j.stale => /\ RowsOf(w)' = RowsOf(w)
                                  /\ ActiveRows(w)' = ActiveRows(w)
                                  /\ Pending(w)' = Pending(w)
  <2> SUFFICES ASSUME NEW w, w # u \/ ~j.stale
               PROVE  /\ RowsOf(w)' = RowsOf(w)
                      /\ ActiveRows(w)' = ActiveRows(w)
                      /\ Pending(w)' = Pending(w)
    OBVIOUS
  <2>1. \A k \in Rows : user[k] = w => status'[k] = status[k]
    BY <1>2, <1>3
  <2> QED BY <2>1, <1>1 DEF RowsOf, ActiveRows, Pending
<1>5. \A w : w \notin undone' => w \notin undone /\ (w # u \/ ~j.stale)
  BY <1>1
<1>6. TypeOK'
  <2>1. j.held \subseteq Roles /\ Hands(j) \in BOOLEAN /\ undone' \subseteq Users
    BY <1>1, <1>2 DEF Jobs, Hands, TypeOK
  <2>2. delegated' \in BOOLEAN
    BY <1>1, <1>2 DEF TypeOK
  <2>3. roles' \in [Rows -> SUBSET Roles]
    BY <1>1, <1>2, <2>1 DEF TypeOK
  <2>4. status' \in [Rows -> {"none", "active", "pending", "banned"}]
    BY <1>1, <1>2 DEF TypeOK
  <2>5. job' \in [Slots -> Jobs]
    BY <1>1, <1>2, IdleOK DEF TypeOK
  <2> QED BY <1>1, <1>2, <2>1, <2>2, <2>3, <2>4, <2>5 DEF TypeOK
<1>7. OwnerKept' /\ RolesKept' /\ Rising'
  BY <1>1, <1>2, <1>3, GuildsAssumption DEF IInv, OwnerKept, RolesKept, Rising
<1>8. Powers'
  <2> SUFFICES ASSUME ~delegated'
               PROVE  /\ \A r \in Roles \ {"owner"} : ~PowerOverRoles(perms[r])
                      /\ \A k \in Rows : user[k] # Owner /\ status'[k] # "none" =>
                            \A r \in roles'[k] : ~PowerOverRoles(perms[r])
    BY <1>1 DEF Powers, PowerOverRoles
  <2>1. ~delegated /\ ~Hands(j)
    BY <1>1
  <2>2. j.by = Owner
    BY <1>1, <2>1 DEF JobOK, RankOK, Shape, RoleOps
  <2>3. u # Owner => \A r \in j.held : ~PowerOverRoles(perms[r])
    BY <2>1, <2>2 DEF Hands, RoleHas, PowerOverRoles
  <2> QED BY <1>2, <1>3, <2>1, <2>3 DEF IInv, Powers
<1>9. BannedRows' /\ KickedRows'
  <2>1. BannedRows'
    <3> SUFFICES ASSUME NEW w \in Users \ undone', out[w] = "banned"
                 PROVE  /\ RowsOf(w)' # {}
                        /\ \A k \in RowsOf(w)' : status'[k] = "banned"
      BY <1>1 DEF BannedRows
    <3>1. RowsOf(w)' = RowsOf(w) /\ w \notin undone
      BY <1>4, <1>5
    <3>2. RowsOf(w) # {} /\ \A k \in RowsOf(w) : status[k] = "banned" /\ k \in Rows /\ user[k] = w
      BY <3>1, <1>1 DEF IInv, BannedRows, RowsOf
    <3>3. \A k \in RowsOf(w) : status'[k] = status[k]
      BY <3>2, <1>2, <1>3, <1>5
    <3> QED BY <3>1, <3>2, <3>3
  <2>2. KickedRows'
    BY <1>1, <1>4, <1>5 DEF IInv, KickedRows
  <2> QED BY <2>1, <2>2
<1>10. AdmittedRows'
  <2> SUFFICES ASSUME NEW w \in Users \ {Owner}, ActiveRows(w)' # {}
               PROVE  w \in admitted
    BY <1>1 DEF AdmittedRows
  <2> QED BY <1>2, <1>4 DEF IInv, AdmittedRows
<1>11. OneActiveRow'
  <2> SUFFICES ASSUME NEW w \in Users \ (undone' \cup doubled'),
                      \A k \in RowsOf(w)' : status'[k] # "pending"
               PROVE  \A k, m \in ActiveRows(w)' : k = m
    BY DEF OneActiveRow
  <2>1. RowsOf(w)' = RowsOf(w) /\ ActiveRows(w)' = ActiveRows(w) /\ w \notin undone \cup doubled
    BY <1>1, <1>4, <1>5
  <2>2. \A k \in RowsOf(w) : status[k] # "pending"
    BY <2>1, <1>2, <1>3 DEF RowsOf
  <2> QED BY <2>1, <2>2 DEF IInv, OneActiveRow
<1>12. JobsOK'
  <2> SUFFICES ASSUME NEW p \in Slots PROVE JobOK(job[p])'
    BY DEF JobsOK
  <2>1. CASE p = q
    <3>1. job'[p].op = "none" /\ job'[p].step = "idle"
      BY <2>1, <1>1, <1>2, IdleOK DEF TypeOK, Idle
    <3> QED BY <3>1 DEF JobOK, Shape, SaveOK, JoinOK, RankOK, Past, RoleOps
  <2>2. CASE p # q
    <3>1. JobOK(job[p]) /\ job[p] \in Jobs /\ job'[p] = job[p]
      BY <2>2, <1>1, <1>2, UnderWay DEF TypeOK
    <3>2. Shape(job[p])' /\ RankOK(job[p])'
      BY <3>1, <1>1 DEF JobOK, Shape, RankOK
    <3>3. SaveOK(job[p])'
      BY <3>1, <1>1, <1>3 DEF JobOK, SaveOK, Jobs
    <3>4. JoinOK(job[p])'
      BY <3>1, <1>1, <1>4, <1>5 DEF JobOK, JoinOK, Past
    <3> QED BY <3>2, <3>3, <3>4 DEF JobOK
  <2> QED BY <2>1, <2>2
<1>13. Doubles'
  <2>1. \A p \in Slots : Past(job'[p]) => p # q /\ job'[p] = job[p]
    BY <1>1, <1>2, IdleOK DEF TypeOK
  <2> QED BY <2>1, <1>1 DEF IInv, Doubles, Past
<1> QED BY <1>6, <1>7, <1>8, <1>9, <1>10, <1>11, <1>12, <1>13 DEF IInv

(* joinByInvite inserts a row of its own; the rows of others stay. *)
LEMMA JoinInsertStep ==
    ASSUME IInv, NEW q \in Slots, JoinInsert(q)
    PROVE  IInv'
<1> DEFINE j == job[q]
           u == job[q].by
<1>1. /\ j \in Jobs /\ JobOK(j) /\ j.op = "join" /\ j.step = "insert" /\ phase = "open"
      /\ job' = [job EXCEPT ![q] = Idle]
      /\ IF j.stale THEN undone' = undone \cup {u} /\ UNCHANGED out
         ELSE /\ out' = IF out[u] = "banned" THEN out ELSE [out EXCEPT ![u] = "free"]
              /\ UNCHANGED undone
      /\ UNCHANGED <<phase, approval, code, table, perms, born, ops>>
      /\ UNCHANGED <<doubled, admitted, delegated>>
  BY UnderWay DEF JoinInsert, Finish, guild, ranks
<1>2. PICK i \in Rows \ (used \cup {OwnerRow}) :
          /\ user' = [user EXCEPT ![i] = u]
          /\ status' = [status EXCEPT ![i] = j.status]
          /\ roles' = [roles EXCEPT ![i] = {j.role}]
          /\ used' = used \cup {i}
  BY DEF JoinInsert
<1>3. /\ TypeOK /\ u \in Users /\ status[i] = "none" /\ i \in Rows
      /\ j.status \in {"active", "pending"} /\ j.role \in Roles /\ j.role # "owner"
      /\ j.status = "active" => u \in admitted
      /\ Past(j)
      /\ ~j.stale /\ u \notin undone =>
            /\ out[u] # "banned"
            /\ u \notin doubled => ActiveRows(u) = {} \/ Pending(u) # {}
  BY <1>1, <1>2 DEF IInv, Rising, JobOK, JoinOK, Shape, Jobs, Past
<1>4. \A k \in Rows : /\ user'[k] = IF k = i THEN u ELSE user[k]
                      /\ status'[k] = IF k = i THEN j.status ELSE status[k]
                      /\ roles'[k] = IF k = i THEN {j.role} ELSE roles[k]
  BY <1>2, <1>3 DEF TypeOK
<1>5. \A w : w # u => /\ RowsOf(w)' = RowsOf(w)
                      /\ ActiveRows(w)' = ActiveRows(w)
                      /\ Pending(w)' = Pending(w)
  BY <1>3, <1>4 DEF RowsOf, ActiveRows, Pending
<1>6. \A w : w = u => /\ RowsOf(w)' = RowsOf(w) \cup {i}
                      /\ ActiveRows(w)' \subseteq ActiveRows(w) \cup {i}
                      /\ j.status = "pending" => ActiveRows(w)' = ActiveRows(w)
                      /\ Pending(w) \subseteq Pending(w)'
  BY <1>3, <1>4 DEF RowsOf, ActiveRows, Pending
<1>7. \A w \in Users :
         /\ w # u => out'[w] = out[w] /\ (w \in undone' <=> w \in undone)
         /\ w \notin undone' => w \notin undone
         /\ w = u /\ w \notin undone' => ~j.stale /\ out'[w] = "free"
  BY <1>1, <1>3 DEF TypeOK
<1>8. TypeOK'
  <2>1. user' \in [Rows -> Users] /\ roles' \in [Rows -> SUBSET Roles]
        /\ status' \in [Rows -> {"none", "active", "pending", "banned"}]
        /\ used' \in SUBSET Rows
    BY <1>2, <1>3 DEF TypeOK
  <2>2. out' \in [Users -> {"free", "kicked", "banned"}] /\ undone' \in SUBSET Users
    BY <1>1, <1>3 DEF TypeOK
  <2>3. job' \in [Slots -> Jobs]
    BY <1>1, <1>3, IdleOK DEF TypeOK
  <2> QED BY <1>1, <1>3, <2>1, <2>2, <2>3 DEF TypeOK
<1>9. OwnerKept' /\ RolesKept' /\ Rising'
  BY <1>1, <1>2, <1>3, <1>4, GuildsAssumption DEF IInv, OwnerKept, RolesKept, Rising
<1>10. Powers'
  <2> SUFFICES ASSUME ~delegated
               PROVE  /\ \A r \in Roles \ {"owner"} : ~PowerOverRoles(perms[r])
                      /\ \A k \in Rows : user'[k] # Owner /\ status'[k] # "none" =>
                            \A r \in roles'[k] : ~PowerOverRoles(perms[r])
    BY <1>1 DEF Powers, PowerOverRoles
  <2>1. \A r \in Roles \ {"owner"} : ~PowerOverRoles(perms[r])
    BY DEF IInv, Powers
  <2>2. ASSUME NEW k \in Rows, user'[k] # Owner, status'[k] # "none", NEW r \in roles'[k]
        PROVE  ~PowerOverRoles(perms[r])
    <3>1. CASE k = i
      BY <3>1, <2>1, <2>2, <1>3, <1>4
    <3>2. CASE k # i
      BY <3>2, <2>2, <1>4 DEF IInv, Powers
    <3> QED BY <3>1, <3>2
  <2> QED BY <2>1, <2>2
<1>11. BannedRows'
  <2> SUFFICES ASSUME NEW w \in Users \ undone', out'[w] = "banned"
               PROVE  /\ RowsOf(w)' # {}
                      /\ \A k \in RowsOf(w)' : status'[k] = "banned"
    BY DEF BannedRows
  <2>1. w # u /\ w \notin undone /\ out[w] = "banned" /\ RowsOf(w)' = RowsOf(w)
    BY <1>5, <1>7
  <2>2. RowsOf(w) # {} /\ \A k \in RowsOf(w) : status[k] = "banned" /\ k \in Rows
    BY <2>1, <1>1 DEF IInv, BannedRows, RowsOf
  <2> QED BY <2>1, <2>2, <1>3, <1>4
<1>12. KickedRows'
  <2> SUFFICES ASSUME NEW w \in Users \ undone', out'[w] = "kicked"
               PROVE  RowsOf(w)' = {}
    BY DEF KickedRows
  <2>1. w # u /\ w \notin undone /\ out[w] = "kicked" /\ RowsOf(w)' = RowsOf(w)
    BY <1>5, <1>7
  <2> QED BY <2>1 DEF IInv, KickedRows
<1>13. AdmittedRows'
  <2> SUFFICES ASSUME NEW w \in Users \ {Owner}, ActiveRows(w)' # {}
               PROVE  w \in admitted
    BY <1>1 DEF AdmittedRows
  <2> QED BY <1>3, <1>5, <1>6 DEF IInv, AdmittedRows
<1>14. OneActiveRow'
  <2> SUFFICES ASSUME NEW w \in Users \ (undone' \cup doubled'),
                      \A k \in RowsOf(w)' : status'[k] # "pending"
               PROVE  \A k, m \in ActiveRows(w)' : k = m
    BY DEF OneActiveRow
  <2>1. CASE w # u
    <3>1. RowsOf(w)' = RowsOf(w) /\ ActiveRows(w)' = ActiveRows(w) /\ w \notin undone \cup doubled
      BY <2>1, <1>1, <1>5, <1>7
    <3>2. \A k \in RowsOf(w) : status[k] # "pending"
      BY <3>1, <1>3, <1>4 DEF RowsOf
    <3> QED BY <3>1, <3>2 DEF IInv, OneActiveRow
  <2>2. CASE w = u
    <3>1. ActiveRows(u) = {} \/ Pending(u) # {}
      BY <2>2, <1>1, <1>3, <1>7
    <3>2. Pending(u) = {}
      BY <2>2, <1>3, <1>4, <1>6 DEF Pending, RowsOf
    <3> QED BY <2>2, <3>1, <3>2, <1>6
  <2> QED BY <2>1, <2>2
<1>15. JobsOK'
  <2> SUFFICES ASSUME NEW p \in Slots PROVE JobOK(job[p])'
    BY DEF JobsOK
  <2>1. CASE p = q
    <3>1. job'[p].op = "none" /\ job'[p].step = "idle"
      BY <2>1, <1>1, <1>3, IdleOK DEF TypeOK, Idle
    <3> QED BY <3>1 DEF JobOK, Shape, SaveOK, JoinOK, RankOK, Past, RoleOps
  <2>2. CASE p # q
    <3>1. JobOK(job[p]) /\ job[p] \in Jobs /\ job'[p] = job[p]
      BY <2>2, <1>1, <1>3, UnderWay DEF TypeOK
    <3>2. Shape(job[p])' /\ RankOK(job[p])'
      BY <3>1, <1>1 DEF JobOK, Shape, RankOK
    <3>3. SaveOK(job[p])'
      BY <3>1, <1>1, <1>2, <1>4 DEF JobOK, SaveOK, Jobs
    <3>4. JoinOK(job[p])'
      <4>1. Past(job[p]) /\ job[p].by = u => u \in doubled
        BY <2>2, <1>3 DEF IInv, Doubles
      <4>2. job[p].by \in Users
        BY <3>1 DEF Jobs
      <4> QED BY <3>1, <4>1, <4>2, <1>1, <1>5, <1>7 DEF JobOK, JoinOK, Past
    <3> QED BY <3>2, <3>3, <3>4 DEF JobOK
  <2> QED BY <2>1, <2>2
<1>16. Doubles'
  <2>1. \A p \in Slots : Past(job'[p]) => p # q /\ job'[p] = job[p]
    BY <1>1, <1>3, IdleOK DEF TypeOK
  <2> QED BY <2>1, <1>1 DEF IInv, Doubles, Past
<1> QED BY <1>8, <1>9, <1>10, <1>11, <1>12, <1>13, <1>14, <1>15, <1>16 DEF IInv

-----------------------------------------------------------------------------
(* createRole, updateRole and deleteRole change roles and no rows. *)
LEMMA RankStep ==
    ASSUME IInv, NEW q \in Slots, job[q].step # "idle", Finish(q),
           UNCHANGED <<guild, user, status, used, ops, out, undone, doubled, admitted>>,
           roles' \in [Rows -> SUBSET Roles], table' \in SUBSET Roles,
           perms' \in [Roles -> SUBSET Permissions], born' \in SUBSET Custom,
           delegated' \in BOOLEAN, delegated => delegated',
           Managed \cap table \subseteq table',
           \A i \in Rows : roles'[i] \subseteq roles[i],
           ~delegated' => \A r \in Roles : PowerOverRoles(perms'[r]) => PowerOverRoles(perms[r])
    PROVE  IInv'
<1>1. job' = [job EXCEPT ![q] = Idle] /\ UNCHANGED <<phase, approval, code>>
  BY DEF Finish, guild
<1>2. TypeOK /\ job \in [Slots -> Jobs] /\ phase \in {"open", "deleted"}
  BY UnderWay DEF IInv, TypeOK
<1>3. TypeOK'
  <2>1. job' \in [Slots -> Jobs]
    BY <1>1, <1>2, IdleOK
  <2> QED BY <1>1, <1>2, <2>1 DEF TypeOK
<1>4. \A u : RowsOf(u)' = RowsOf(u) /\ ActiveRows(u)' = ActiveRows(u) /\ Pending(u)' = Pending(u)
  BY DEF RowsOf, ActiveRows, Pending
<1>5. OwnerKept' /\ RolesKept' /\ Rising'
  BY <1>1, <1>2 DEF IInv, OwnerKept, RolesKept, Rising, Managed
<1>6. Powers'
  <2> SUFFICES ASSUME ~delegated'
               PROVE  /\ \A r \in Roles \ {"owner"} : ~PowerOverRoles(perms'[r])
                      /\ \A i \in Rows : user[i] # Owner /\ status[i] # "none" =>
                            \A r \in roles'[i] : ~PowerOverRoles(perms'[r])
    BY DEF Powers, PowerOverRoles
  <2>1. \A i \in Rows : roles'[i] \subseteq Roles
    OBVIOUS
  <2> QED BY <2>1 DEF IInv, Powers
<1>7. (BannedRows /\ KickedRows /\ AdmittedRows /\ OneActiveRow)'
  BY <1>1, <1>4 DEF IInv, BannedRows, KickedRows, AdmittedRows, OneActiveRow
<1>8. JobsOK'
  <2> SUFFICES ASSUME NEW p \in Slots PROVE JobOK(job[p])'
    BY DEF JobsOK
  <2>1. CASE p = q
    <3>1. job'[p].op = "none" /\ job'[p].step = "idle"
      BY <2>1, <1>1, <1>2 DEF Idle
    <3> QED BY <3>1 DEF JobOK, Shape, SaveOK, JoinOK, RankOK, Past, RoleOps
  <2>2. CASE p # q
    <3>1. JobOK(job[p]) /\ job'[p] = job[p]
      BY <2>2, <1>1, <1>2, UnderWay
    <3> QED BY <3>1, <1>1, <1>4 DEF JobOK, Shape, SaveOK, JoinOK, RankOK, Past
  <2> QED BY <2>1, <2>2
<1>9. Doubles'
  <2>1. \A p \in Slots : Past(job'[p]) => p # q /\ job'[p] = job[p]
    BY <1>1, <1>2, IdleOK
  <2> QED BY <2>1 DEF IInv, Doubles, Past
<1> QED BY <1>3, <1>5, <1>6, <1>7, <1>8, <1>9 DEF IInv

LEMMA RoleSteps ==
    ASSUME IInv, NEW q \in Slots, CreateRole(q) \/ UpdateRole(q) \/ DeleteRole(q)
    PROVE  IInv'
<1> DEFINE j == job[q]
<1>1. /\ TypeOK /\ j \in Jobs /\ JobOK(j) /\ j.step = "act" /\ Finish(q)
      /\ UNCHANGED <<guild, user, status, used, ops, out, undone, doubled, admitted>>
  BY UnderWay DEF IInv, CreateRole, UpdateRole, DeleteRole, members, history
<1>2. j.role \in Roles /\ j.perms \in SUBSET Permissions
  BY <1>1 DEF Jobs
<1>3. CASE CreateRole(q) /\ ~(phase = "open" /\ j.role \notin born)
  BY <1>1, <1>3, RankStep DEF CreateRole, members, TypeOK
<1>4. ASSUME perms' = [perms EXCEPT ![j.role] = j.perms],
             delegated' = (delegated \/ PowerOverRoles(j.perms))
      PROVE  /\ perms' \in [Roles -> SUBSET Permissions]
             /\ delegated' \in BOOLEAN /\ (delegated => delegated')
             /\ ~delegated' => \A r \in Roles : PowerOverRoles(perms'[r]) => PowerOverRoles(perms[r])
  <2>1. PowerOverRoles(j.perms) \in BOOLEAN
    BY DEF PowerOverRoles
  <2>2. delegated' \in BOOLEAN /\ (delegated => delegated')
    BY <1>1, <1>4, <2>1 DEF TypeOK
  <2>3. perms' \in [Roles -> SUBSET Permissions]
    BY <1>1, <1>2, <1>4 DEF TypeOK
  <2>4. ASSUME ~delegated', NEW r \in Roles, PowerOverRoles(perms'[r])
        PROVE  PowerOverRoles(perms[r])
    <3>1. r # j.role
      BY <2>4, <1>1, <1>2, <1>4 DEF TypeOK
    <3> QED BY <3>1, <2>4, <1>1, <1>4 DEF TypeOK
  <2> QED BY <2>2, <2>3, <2>4
<1>5. CASE CreateRole(q) /\ phase = "open" /\ j.role \notin born
  <2>1. /\ table' = table \cup {j.role} /\ born' = born \cup {j.role} /\ roles' = roles
        /\ perms' = [perms EXCEPT ![j.role] = j.perms]
        /\ delegated' = (delegated \/ PowerOverRoles(j.perms))
    BY <1>5 DEF CreateRole, members
  <2>2. j.role \in Custom
    BY <1>1, <1>5 DEF CreateRole, JobOK, Shape
  <2> QED BY <1>1, <1>2, <1>4, <2>1, <2>2, RankStep DEF TypeOK
<1>6. CASE UpdateRole(q)
  <2>1. CASE j.role \in table
    <3>1. /\ UNCHANGED <<table, born, roles>>
          /\ perms' = [perms EXCEPT ![j.role] = j.perms]
          /\ delegated' = (delegated \/ PowerOverRoles(j.perms))
      BY <1>6, <2>1 DEF UpdateRole, members
    <3> QED BY <1>1, <1>4, <3>1, RankStep DEF TypeOK
  <2>2. CASE j.role \notin table
    BY <1>1, <1>6, <2>2, RankStep DEF UpdateRole, members, TypeOK
  <2> QED BY <2>1, <2>2
<1>7. CASE DeleteRole(q)
  <2>1. /\ table' = table \ {j.role} /\ UNCHANGED <<perms, born, delegated>>
        /\ roles' = [i \in Rows |-> roles[i] \ {j.role}]
    BY <1>7 DEF DeleteRole, history
  <2>2. j.role \notin Managed
    BY <1>1, <1>7 DEF DeleteRole, JobOK, Shape
  <2> QED BY <1>1, <2>1, <2>2, RankStep DEF TypeOK
<1> QED BY <1>3, <1>5, <1>6, <1>7

-----------------------------------------------------------------------------
(* create(): before the guild is open there are no rows and no requests. *)
LEMMA CreationStep ==
    ASSUME IInv, Creation
    PROVE  IInv'
<1>1. TypeOK /\ OwnerRow \in Rows /\ Owner \in Users
  BY GuildsAssumption DEF IInv
<1>2. phase \notin {"open", "deleted"}
  BY DEF Creation, CreateGuild, CreateManagedRole, CreateOwnerMember
<1>3. /\ \A q \in Slots : job[q] = Idle
      /\ \A u \in Users : out[u] = "free"
      /\ \A i \in Rows : status[i] = "none"
  BY <1>1, <1>2 DEF IInv, Rising, TypeOK
<1>4. /\ UNCHANGED <<approval, code, user, perms, born, job, ops>>
      /\ UNCHANGED <<out, undone, doubled, admitted, delegated>>
  BY DEF Creation, CreateGuild, CreateManagedRole, CreateOwnerMember, members, ranks, history
<1>5. JobsOK' /\ Doubles'
  <2>1. \A q \in Slots : job'[q].op = "none" /\ job'[q].step = "idle"
    BY <1>3, <1>4 DEF Idle
  <2> QED BY <2>1 DEF JobsOK, JobOK, Shape, SaveOK, JoinOK, RankOK, Past, RoleOps, Doubles
<1>6. CASE \/ CreateGuild \/ CreateManagedRole("guild", "owner")
           \/ CreateManagedRole("owner", "officer") \/ CreateManagedRole("officer", "member")
  <2>1. UNCHANGED <<status, roles, used>> /\ phase' \in {"guild", "owner", "officer", "member"}
    BY <1>6 DEF CreateGuild, CreateManagedRole, members
  <2>2. table' \subseteq Roles
    BY <1>6, <1>1 DEF CreateGuild, CreateManagedRole, ranks, TypeOK, Roles, Managed
  <2>3. RolesKept'
    BY <1>6 DEF CreateGuild, CreateManagedRole, ranks, IInv, RolesKept
  <2>4. \A u : RowsOf(u)' = {} /\ ActiveRows(u)' = {}
    BY <1>3, <2>1 DEF RowsOf, ActiveRows
  <2>5. TypeOK'
    BY <1>1, <1>4, <2>1, <2>2 DEF TypeOK
  <2>6. OwnerKept' /\ Rising' /\ Powers'
    BY <1>2, <1>3, <1>4, <2>1 DEF IInv, OwnerKept, Rising, Powers, PowerOverRoles
  <2>7. (BannedRows /\ KickedRows /\ AdmittedRows /\ OneActiveRow)'
    BY <2>1, <2>4 DEF BannedRows, KickedRows, AdmittedRows, OneActiveRow
  <2> QED BY <1>5, <2>3, <2>5, <2>6, <2>7 DEF IInv
<1>7. CASE CreateOwnerMember
  <2>1. /\ phase = "member" /\ phase' = "open" /\ table' = table
        /\ status' = [status EXCEPT ![OwnerRow] = "active"]
        /\ roles' = [roles EXCEPT ![OwnerRow] = {"owner"}]
        /\ used' = used \cup {OwnerRow}
    BY <1>7 DEF CreateOwnerMember, ranks
  <2>2. \A i \in Rows : status'[i] = IF i = OwnerRow THEN "active" ELSE "none"
    BY <1>1, <1>3, <2>1 DEF TypeOK
  <2>3. user[OwnerRow] = Owner
    BY DEF IInv, OwnerKept
  <2>4. \A u : /\ u # Owner => RowsOf(u)' = {} /\ ActiveRows(u)' = {}
               /\ u = Owner => ActiveRows(u)' = {OwnerRow}
    BY <1>1, <1>4, <2>2, <2>3 DEF RowsOf, ActiveRows
  <2>5. TypeOK'
    <3>1. {"owner"} \subseteq Roles
      BY DEF Roles, Managed
    <3>2. roles' \in [Rows -> SUBSET Roles]
      BY <1>1, <2>1, <3>1 DEF TypeOK
    <3> QED BY <1>1, <1>4, <2>1, <3>2 DEF TypeOK
  <2>6. OwnerKept' /\ Rising' /\ RolesKept'
    BY <1>1, <1>3, <1>4, <2>1, <2>2, <2>3 DEF IInv, OwnerKept, Rising, RolesKept
  <2>7. Powers'
    BY <1>4, <2>2, <2>3 DEF IInv, Powers, PowerOverRoles
  <2>8. BannedRows' /\ KickedRows'
    BY <1>3, <1>4 DEF BannedRows, KickedRows
  <2>9. AdmittedRows' /\ OneActiveRow'
    BY <2>4 DEF AdmittedRows, OneActiveRow
  <2> QED BY <1>5, <2>5, <2>6, <2>7, <2>8, <2>9 DEF IInv
<1> QED BY <1>6, <1>7 DEF Creation

LEMMA DeleteStep ==
    ASSUME IInv, Delete
    PROVE  IInv'
<1>1. /\ phase' = "deleted" /\ table' = {} /\ ops' = ops + 1
      /\ status' = [i \in Rows |-> "none"] /\ roles' = [i \in Rows |-> {}]
      /\ UNCHANGED <<approval, code, user, used, perms, born, job>>
      /\ UNCHANGED <<out, undone, doubled, admitted, delegated>>
  BY DEF Delete, history
<1>2. \A u : RowsOf(u)' = {} /\ ActiveRows(u)' = {}
  BY <1>1 DEF RowsOf, ActiveRows
<1>3. TypeOK'
  BY <1>1 DEF IInv, TypeOK
<1>4. OwnerKept' /\ RolesKept' /\ Rising' /\ Powers'
  BY <1>1 DEF IInv, OwnerKept, RolesKept, Rising, Powers, PowerOverRoles
<1>5. (BannedRows /\ KickedRows /\ AdmittedRows /\ OneActiveRow)'
  BY <1>1, <1>2 DEF BannedRows, KickedRows, AdmittedRows, OneActiveRow
<1>6. JobsOK'
  <2> SUFFICES ASSUME NEW p \in Slots PROVE JobOK(job[p])'
    BY DEF JobsOK
  <2>1. JobOK(job[p]) /\ job[p].row \in Rows
    BY UnderWay DEF Jobs
  <2> QED BY <1>1, <2>1 DEF JobOK, Shape, SaveOK, JoinOK, RankOK, Past
<1>7. Doubles'
  BY <1>1 DEF IInv, Doubles, Past
<1> QED BY <1>3, <1>4, <1>5, <1>6, <1>7 DEF IInv

LEMMA StutterStep ==
    ASSUME IInv, UNCHANGED vars
    PROVE  IInv'
<1>1. /\ UNCHANGED <<phase, approval, code, user, status, roles, used, table, perms, born>>
      /\ UNCHANGED <<job, ops, out, undone, doubled, admitted, delegated>>
  BY DEF vars, guild, members, ranks, history
<1>2. \A u : RowsOf(u)' = RowsOf(u) /\ ActiveRows(u)' = ActiveRows(u) /\ Pending(u)' = Pending(u)
  BY <1>1 DEF RowsOf, ActiveRows, Pending
<1>3. TypeOK' /\ OwnerKept' /\ RolesKept' /\ Rising' /\ Powers'
  BY <1>1 DEF IInv, TypeOK, OwnerKept, RolesKept, Rising, Powers, PowerOverRoles
<1>4. (BannedRows /\ KickedRows /\ AdmittedRows /\ OneActiveRow)'
  BY <1>1, <1>2 DEF IInv, BannedRows, KickedRows, AdmittedRows, OneActiveRow
<1>5. JobsOK'
  <2> SUFFICES ASSUME NEW p \in Slots PROVE JobOK(job[p])'
    BY DEF JobsOK
  <2>1. JobOK(job[p])
    BY UnderWay
  <2> QED BY <1>1, <1>2, <2>1 DEF JobOK, Shape, SaveOK, JoinOK, RankOK, Past
<1>6. Doubles'
  BY <1>1 DEF IInv, Doubles, Past
<1> QED BY <1>3, <1>4, <1>5, <1>6 DEF IInv

(* The requests that end without having changed anything. *)
LEMMA RefusalStep ==
    ASSUME IInv, NEW q \in Slots,
           \/ Forbid(q) \/ Spared(q) \/ FindRoleFails(q) \/ ReadMemberFails(q)
           \/ SaveMemberFails(q) \/ JoinInvalidCode(q) \/ JoinRefused(q) \/ JoinInsertFails(q)
           \/ Update(q) \/ RegenerateInviteCode(q)
    PROVE  IInv'
<1>1. job[q].step # "idle" /\ Finish(q) /\ UNCHANGED <<phase, members, ranks, ops, history>>
  BY DEF Forbid, Spared, FindRoleFails, ReadMemberFails, SaveMemberFails, JoinInvalidCode,
         JoinRefused, JoinInsertFails, Update, RegenerateInviteCode, guild
<1>2. approval' \in BOOLEAN /\ code' \in Nat
  <2>1. approval \in BOOLEAN /\ code \in Nat
    BY DEF IInv, TypeOK
  <2>2. CASE Update(q)
    BY <2>1, <2>2 DEF Update
  <2>3. CASE RegenerateInviteCode(q)
    BY <2>1, <2>3 DEF RegenerateInviteCode
  <2>4. CASE UNCHANGED guild
    BY <2>1, <2>4 DEF guild
  <2> QED BY <2>2, <2>3, <2>4
       DEF Forbid, Spared, FindRoleFails, ReadMemberFails, SaveMemberFails, JoinInvalidCode,
           JoinRefused, JoinInsertFails
<1> QED BY <1>1, <1>2, FinishStep

(* Every step of a guild keeps the invariant. *)
THEOREM Inductive == Spec => []IInv
<1>1. ASSUME IInv, NEW q \in Slots, Moderation(q) \/ RoleChange(q) \/ Joining(q) PROVE IInv'
  BY <1>1, KickStep, BanStep, FindRoleStep, ReadMemberStep, SaveMemberStep, RoleSteps,
     JoinFindGuildStep, JoinCheckStep, JoinFindRoleStep, JoinInsertStep, RefusalStep
     DEF Moderation, RoleChange, Joining
<1>2. IInv /\ [Next]_vars => IInv'
  BY <1>1, CreationStep, DeleteStep, StutterStep, StartStep, JoinStep, PermitStep, RefusalStep
     DEF Next, Quiet
<1> QED BY Initially, <1>2, PTL DEF Spec

(* The state has its type. *)
THEOREM TypeCorrect == Spec => []TypeOK
<1>1. IInv => TypeOK
  BY DEF IInv
<1> QED BY Inductive, <1>1, PTL

(* No order of kicks, bans, role changes and late saves takes the owner's  *)
(* membership or a system role away from a guild.                          *)
THEOREM GuildStaysIntact == Spec => []GuildIntact
<1>1. IInv => GuildIntact
  <2> SUFFICES ASSUME IInv PROVE GuildIntact
    OBVIOUS
  <2>1. phase = "open" => OwnerRow \in ActiveRows(Owner)
    BY GuildsAssumption DEF IInv, OwnerKept, ActiveRows, RowsOf
  <2>2. (\E i \in Rows : status[i] # "none") => Managed \subseteq table
    BY DEF IInv, Rising, RolesKept, Managed
  <2> QED BY <2>1, <2>2 DEF GuildIntact
<1> QED BY Inductive, <1>1, PTL

(* A ban or a kick holds until a later join, but for requests that had     *)
(* read the member before it; and joining makes nobody active who has not  *)
(* been let in.                                                            *)
THEOREM AdmissionIsHeld == Spec => []AdmissionHolds
<1>1. IInv => AdmissionHolds
  <2> SUFFICES ASSUME IInv PROVE AdmissionHolds
    OBVIOUS
  <2>1. ASSUME NEW u \in Users \ undone, out[u] = "banned" PROVE ActiveRows(u) = {}
    <3>1. CASE phase = "open"
      BY <2>1, <3>1 DEF IInv, BannedRows, ActiveRows
    <3>2. CASE phase # "open"
      BY <3>2 DEF IInv, Rising, ActiveRows, RowsOf
    <3> QED BY <3>1, <3>2
  <2> QED BY <2>1 DEF IInv, KickedRows, AdmittedRows, AdmissionHolds
<1> QED BY Inductive, <1>1, PTL

(* A user has two active rows only after overlapping joins, a stale save   *)
(* or while a pending row is there.                                        *)
THEOREM RowsAreSingle == Spec => []OneActiveRow
<1>1. IInv => OneActiveRow
  BY DEF IInv
<1> QED BY Inductive, <1>1, PTL

(* Nobody gets power over roles whom the owner has not given it.           *)
THEOREM NobodyPromotesHimself == Spec => []NoSelfPromotion
<1>1. IInv => NoSelfPromotion
  <2> SUFFICES ASSUME IInv, ~delegated
               PROVE  /\ \A i \in Rows : user[i] # Owner /\ status[i] # "none" =>
                            ~MemberHas(i, "MANAGE_ROLES")
                      /\ \A q \in Slots : job[q].op \in RoleOps /\ job[q].by # Owner =>
                            job[q].step = "authorize"
    BY DEF NoSelfPromotion
  <2>1. \A i \in Rows : user[i] # Owner /\ status[i] # "none" => ~MemberHas(i, "MANAGE_ROLES")
    BY DEF IInv, Powers, PowerOverRoles, MemberHas, RoleHas
  <2>2. \A q \in Slots : RankOK(job[q])
    BY DEF IInv, JobsOK, JobOK
  <2> QED BY <2>1, <2>2 DEF RankOK
<1> QED BY Inductive, <1>1, PTL
=============================================================================
