------------------------------ MODULE TenantRbac ------------------------------
(***************************************************************************)
(* Roles, groups and permissions of one tenant under concurrent            *)
(* administrators, with the maker-checker for privileged roles and the     *)
(* module catalog's change of a permission.                                *)
(*                                                                         *)
(* Each request is a process that runs one call, one SQL statement per     *)
(* action, in READ COMMITTED: a SELECT sees what is committed; an INSERT   *)
(* waits for an uncommitted row of the same unique key, an UPDATE or a     *)
(* DELETE for the row's lock.  The locks of a call tell what it has        *)
(* written, and Commit publishes it.  A call carries its plan, the         *)
(* statements it has still to run, which a check may cut short.  Users     *)
(* stay ACTIVE, except that the check of one may fail at any time.         *)
(***************************************************************************)
EXTENDS Integers, Sequences, FiniteSets

CONSTANTS
  Requests,    \* the calls, one process each
  Seeds,       \* ids of privileged-access requests there before the calls
  Users,       \* ids of the users a role can be given to, in sort order
  Actors,      \* administrators, who may be users of the tenant too
  Groups, Roles, Perms,
  Privileged,  \* the roles whose key is in PRIVILEGED_TENANT_ROLE_KEYS
  Verbs,       \* which kinds of call there are
  Starts,      \* the tables that may be found when the calls start
  None         \* no argument

AllVerbs == {"add", "remove", "ask", "status", "template", "catalog", "approve", "reject"}

(* ACTIVE rows of the four assignment tables: <<table, left, right>>. *)
Keys == {<<"member", g, u>> : g \in Groups, u \in Users}
        \cup {<<"groupRole", g, ro>> : g \in Groups, ro \in Roles}
        \cup {<<"userRole", u, ro>> : u \in Users, ro \in Roles}
        \cup {<<"rolePerm", ro, p>> : ro \in Roles, p \in Perms}
Objects == Groups \cup Roles \cup Perms
Statuses == {"ACTIVE", "INACTIVE", "DEPRECATED", "RETIRED"}
RequestIds == Requests \cup Seeds
NoRequest == [status |-> "NONE"]
PrivilegedRequests ==
  [status : {"PENDING", "APPROVED", "REJECTED"}, user : Users, role : Roles,
   by : Actors, approver : Actors \cup {None}]

(* What can be locked: a row or its unique key, the status of a group,     *)
(* role or permission, the module's row, a user's version, a request, and  *)
(* the one PENDING request that a user may have for a role.                *)
Things == Keys \cup {<<"status", x>> : x \in Objects} \cup {<<"module">>}
          \cup {<<"version", u>> : u \in Users} \cup {<<"request", x>> : x \in RequestIds}
          \cup {<<"pending", u, ro>> : u \in Users, ro \in Roles}

ASSUME NamesAssumption ==
  /\ Requests \cap Seeds = {}
  /\ None \notin Requests \cup Actors \cup Objects \cup RequestIds \cup Users
  /\ None \notin Statuses
  /\ Groups \cap Roles = {} /\ Roles \cap Perms = {} /\ Groups \cap Perms = {}
ASSUME UsersAssumption == Users \subseteq Nat
ASSUME RequestsAssumption == IsFiniteSet(Requests)
ASSUME InputAssumption ==
  /\ Privileged \subseteq Roles
  /\ Verbs \subseteq AllVerbs
  /\ Starts \subseteq [rows : SUBSET Keys, off : SUBSET (Groups \cup Roles),
                       req : [Seeds -> PrivilegedRequests]]

VARIABLES
  rows,    \* committed rows of the assignment tables
  status,  \* committed status of groups, roles and permissions
  ver,     \* committed user_tenant_authorization_state, 1 where there is no row
  req,     \* committed privileged_access_requests
  locks,   \* what each call has locked or written
  pc,      \* "idle", "run" or the outcome of each call
  call,    \* arguments and local variables of a running call
  alone    \* history: the running calls during which no other has committed

committed == <<rows, status, ver, req>>
vars == <<committed, locks, pc, call, alone>>

Outcomes == {"ok", "unchanged", "denied", "failed"}
Labels == {"group", "role", "permission", "user", "exists", "grantee", "pending", "file",
           "reselect", "read", "affected", "module", "references", "write", "bump", "lock"}
Calls == [verb : AllVerbs \cup {None},
          key : Keys \cup {None},          \* the row it adds or removes
          object : Objects \cup {None},    \* the group, role or permission it updates
          goal : Statuses \cup {None},     \* the status asked for, None for a rename
          request : RequestIds \cup {None},
          actor : Actors \cup {None},
          current : Statuses \cup {None},  \* the status it has read
          users : SUBSET Users,            \* whose version it has still to bump
          plan : Seq(Labels)]              \* the statements it has still to run
Blank == [verb |-> None, key |-> None, object |-> None, goal |-> None, request |-> None,
          actor |-> None, current |-> None, users |-> {}, plan |-> <<>>]

Running == {q \in Requests : pc[q] = "run"}

-----------------------------------------------------------------------------
(* What the tables grant, and whom a change affects. *)

ThroughGroup(u, ro) ==
  \E g \in Groups : /\ <<"member", g, u>> \in rows
                    /\ <<"groupRole", g, ro>> \in rows
                    /\ status[g] = "ACTIVE"
HasRole(u, ro) == <<"userRole", u, ro>> \in rows \/ ThroughGroup(u, ro)

(* Through which roles a user has which permissions. *)
Effective(u) ==
  {e \in Roles \X Perms :
     /\ HasRole(u, e[1]) /\ status[e[1]] = "ACTIVE"
     /\ <<"rolePerm", e[1], e[2]>> \in rows /\ status[e[2]] = "ACTIVE"}

GroupUsers(g) == {u \in Users : <<"member", g, u>> \in rows}

(* Mutant of RoleUsers: forgets who has the role through a group. *)
DirectRoleUsers(ro) == {u \in Users : <<"userRole", u, ro>> \in rows}

RoleUsers(ro) == {u \in Users : HasRole(u, ro)}

(* Roles in force that grant p to somebody. *)
References(p) ==
  {ro \in Roles : /\ status[ro] = "ACTIVE"
                  /\ <<"rolePerm", ro, p>> \in rows
                  /\ RoleUsers(ro) # {}}

Pending(u, ro) ==
  {x \in RequestIds : /\ req[x] # NoRequest /\ req[x].status = "PENDING"
                      /\ req[x].user = u /\ req[x].role = ro}

-----------------------------------------------------------------------------
(* Statements and their locks. *)

Statement(q) == IF call[q].plan = <<>> THEN "commit" ELSE Head(call[q].plan)

(* Mutant of NextUser: versions are bumped in no particular order. *)
AnyUser(q) == call[q].users

(* Whose version is bumped next: by user id, but the order of the rows of  *)
(* the trigger's INSERT ... SELECT is PostgreSQL's.                        *)
NextUser(q) ==
  IF call[q].verb = "template" THEN call[q].users
  ELSE {u \in call[q].users : \A w \in call[q].users : u <= w}

(* What the next statement may have to wait for. *)
Wanted(q) ==
  LET c == call[q] IN
  CASE Statement(q) = "write" ->
         IF c.object # None THEN {<<"status", c.object>>}
         ELSE IF c.verb = "remove" THEN {c.key} \cap rows ELSE {c.key}
    [] Statement(q) = "module" -> {<<"module">>}
    [] Statement(q) = "lock" -> {<<"request", c.request>>}
    [] Statement(q) = "file" -> {<<"pending", c.key[2], c.key[3]>>}
    [] Statement(q) = "bump" -> {<<"version", u>> : u \in NextUser(q)}
    [] OTHER -> {}

Held(q, t) == \E r \in Requests \ {q} : t \in locks[r]

At(q, statement) == pc[q] = "run" /\ Statement(q) = statement

(* The statement takes the locks in S, which are free. *)
Take(q, S) ==
  /\ \A t \in S : ~Held(q, t)
  /\ locks' = [locks EXCEPT ![q] = @ \cup S]

(* The call goes on with its local variables as in c and the rest of its plan. *)
Advance(q, c) ==
  /\ call' = [call EXCEPT ![q] = [c EXCEPT !.plan = Tail(c.plan)]]
  /\ UNCHANGED <<committed, pc, alone>>

(* Mutant of Leave: an error leaves the transaction and its locks behind. *)
LeaveLocked(q, outcome) ==
  /\ pc' = [pc EXCEPT ![q] = outcome]
  /\ call' = [call EXCEPT ![q] = Blank]
  /\ alone' = alone \ {q}
  /\ UNCHANGED <<committed, locks>>

(* The call ends without effect: rollback, and its locks are free. *)
Leave(q, outcome) ==
  /\ pc' = [pc EXCEPT ![q] = outcome]
  /\ locks' = [locks EXCEPT ![q] = {}]
  /\ call' = [call EXCEPT ![q] = Blank]
  /\ alone' = alone \ {q}
  /\ UNCHANGED committed

Init ==
  /\ \E s \in Starts :
       /\ rows = s.rows
       /\ status = [x \in Objects |-> IF x \in s.off THEN "INACTIVE" ELSE "ACTIVE"]
       /\ req = [x \in RequestIds |-> IF x \in Seeds THEN s.req[x] ELSE NoRequest]
  /\ ver = [u \in Users |-> 1]
  /\ locks = [q \in Requests |-> {}]
  /\ pc = [q \in Requests |-> "idle"]
  /\ call = [q \in Requests |-> Blank]
  /\ alone = {}

-----------------------------------------------------------------------------
(* The calls. *)

Begin(q, c) ==
  /\ pc[q] = "idle" /\ c.verb \in Verbs
  /\ pc' = [pc EXCEPT ![q] = "run"]
  /\ call' = [call EXCEPT ![q] = c]
  /\ alone' = alone \cup {q}
  /\ UNCHANGED <<committed, locks>>

Add(key, users, plan) ==
  [Blank EXCEPT !.verb = "add", !.key = key, !.users = users, !.plan = plan]
Remove(key, users, plan) ==
  [Blank EXCEPT !.verb = "remove", !.key = key, !.users = users, !.plan = plan]

AddGroupMember(q) ==
  \E g \in Groups, u \in Users :
    Begin(q, Add(<<"member", g, u>>, {u}, <<"group", "user", "exists", "write", "bump">>))

RemoveGroupMember(q) ==
  \E g \in Groups, u \in Users :
    Begin(q, Remove(<<"member", g, u>>, {u}, <<"write", "bump">>))

AssignGroupRole(q) ==
  \E g \in Groups, ro \in Roles :
    Begin(q, Add(<<"groupRole", g, ro>>, {},
                 <<"group", "role", "exists", "write", "affected", "bump">>))

RemoveGroupRole(q) ==
  \E g \in Groups, ro \in Roles :
    Begin(q, Remove(<<"groupRole", g, ro>>, {}, <<"affected", "write", "bump">>))

AddRolePermission(q) ==
  \E ro \in Roles, p \in Perms :
    Begin(q, Add(<<"rolePerm", ro, p>>, {},
                 <<"permission", "role", "exists", "write", "affected", "bump">>))

RemoveRolePermission(q) ==
  \E ro \in Roles, p \in Perms :
    Begin(q, Remove(<<"rolePerm", ro, p>>, {}, <<"affected", "write", "bump">>))

(* A privileged role is asked for, an ordinary one assigned, after another *)
(* look at the role.                                                       *)
AssignUserRole(q) ==
  \E u \in Users, ro \in Roles :
    IF ro \in Privileged
    THEN \E a \in Actors :
           Begin(q, [Blank EXCEPT !.verb = "ask", !.key = <<"userRole", u, ro>>, !.actor = a,
                                  !.plan = <<"role", "user", "exists", "pending", "file">>])
    ELSE Begin(q, Add(<<"userRole", u, ro>>, {u},
                      <<"role", "user", "role", "exists", "write", "bump">>))

RemoveUserRole(q) ==
  \E u \in Users, ro \in Roles :
    Begin(q, Remove(<<"userRole", u, ro>>, {u}, <<"write", "bump">>))

(* A new status, or with None a new name. *)
UpdateGroupOrRole(q) ==
  \E x \in Groups \cup Roles, goal \in {"ACTIVE", "INACTIVE", None} :
    Begin(q, [Blank EXCEPT !.verb = "status", !.object = x, !.goal = goal,
                           !.plan = <<"read", "affected", "write", "bump">>])

(* Of a template with one permission. *)
UpgradeRoleTemplate(q) ==
  \E ro \in Roles, p \in Perms :
    Begin(q, [Blank EXCEPT !.verb = "template", !.key = <<"rolePerm", ro, p>>,
                           !.plan = <<"permission", "write", "affected", "bump">>])

(* Of a catalog with one permission, of the one module there is. *)
PutCatalog(q) ==
  \E p \in Perms, goal \in {"ACTIVE", "DEPRECATED", "RETIRED"} :
    Begin(q, [Blank EXCEPT !.verb = "catalog", !.object = p, !.goal = goal,
                           !.plan = IF goal = "RETIRED" THEN <<"module", "references", "write">>
                                                        ELSE <<"module", "write">>])

Decide(q, verb, plan) ==
  \E x \in RequestIds, a \in Actors :
    /\ req[x] # NoRequest
    /\ Begin(q, [Blank EXCEPT !.verb = verb, !.request = x, !.actor = a, !.plan = plan])

Approve(q) == Decide(q, "approve", <<"lock", "user", "role", "grantee", "write", "bump">>)
Reject(q) == Decide(q, "reject", <<"lock">>)

-----------------------------------------------------------------------------
(* The statements. *)

Named(c, S) == ({c.key[2], c.key[3]}) \cap S

(* The group, role or permission that the call names must be ACTIVE. *)
CheckActive(q) ==
  \E kind \in {<<"group", Groups>>, <<"role", Roles>>, <<"permission", Perms>>} :
    /\ At(q, kind[1])
    /\ IF \A x \in Named(call[q], kind[2]) : status[x] = "ACTIVE"
       THEN Advance(q, call[q]) /\ UNCHANGED locks
       ELSE Leave(q, "denied")

CheckUser(q) ==
  /\ At(q, "user")
  /\ \/ Advance(q, call[q]) /\ UNCHANGED locks
     \/ Leave(q, "denied")

CheckExists(q) ==
  /\ At(q, "exists")
  /\ IF call[q].key \in rows THEN Leave(q, "unchanged")
                             ELSE Advance(q, call[q]) /\ UNCHANGED locks

(* An approval of a role that the subject already has only decides. *)
CheckGrantee(q) ==
  /\ At(q, "grantee")
  /\ LET c == call[q] IN
     Advance(q, IF c.key \in rows THEN [c EXCEPT !.users = {}, !.plan = <<"grantee">>] ELSE c)
  /\ UNCHANGED locks

CheckPending(q) ==
  /\ At(q, "pending")
  /\ IF Pending(call[q].key[2], call[q].key[3]) # {} THEN Leave(q, "unchanged")
     ELSE Advance(q, call[q]) /\ UNCHANGED locks

(* INSERT of the request; a duplicate is answered by another look, in a    *)
(* new transaction.                                                        *)
FileRequest(q) ==
  /\ At(q, "file")
  /\ LET c == call[q] IN
     IF Pending(c.key[2], c.key[3]) # {}
     THEN /\ \A t \in Wanted(q) : ~Held(q, t)
          /\ locks' = [locks EXCEPT ![q] = {}]
          /\ Advance(q, [c EXCEPT !.plan = <<"file", "reselect">>])
     ELSE Take(q, Wanted(q)) /\ Advance(q, c)

Reselect(q) ==
  /\ At(q, "reselect")
  /\ Leave(q, IF Pending(call[q].key[2], call[q].key[3]) # {} THEN "unchanged" ELSE "failed")

Read(q) ==
  /\ At(q, "read")
  /\ Advance(q, [call[q] EXCEPT !.current = status[call[q].object]])
  /\ UNCHANGED locks

(* The status that the UPDATE writes: a rename writes what was read. *)
Goal(c) == IF c.goal = None THEN c.current ELSE c.goal

(* Whose version is to be bumped; nobody's when the status stays. *)
FindAffected(q) ==
  /\ At(q, "affected")
  /\ LET c == call[q]
         x == IF c.object # None THEN c.object ELSE c.key[2]
     IN Advance(q, [c EXCEPT !.users =
          IF c.verb = "status" /\ Goal(c) = c.current THEN {}
          ELSE IF x \in Groups THEN GroupUsers(x) ELSE RoleUsers(x)])
  /\ UNCHANGED locks

(* The module's row is upserted first and orders the catalogs. *)
UpsertModule(q) ==
  At(q, "module") /\ Take(q, Wanted(q)) /\ Advance(q, call[q])

CheckReferences(q) ==
  /\ At(q, "references")
  /\ IF References(call[q].object) # {} THEN Leave(q, "denied")
     ELSE Advance(q, call[q]) /\ UNCHANGED locks

(* INSERT, UPDATE or DELETE of the call's row. *)
Write(q) ==
  /\ At(q, "write")
  /\ \A t \in Wanted(q) : ~Held(q, t)
  /\ LET c == call[q] IN
     \/ c.object = None /\ c.verb = "remove" /\ c.key \notin rows /\ Leave(q, "unchanged")
     \/ c.verb \in {"add", "approve"} /\ c.key \in rows /\ Leave(q, "failed")
     \/ c.verb = "template" /\ c.key \in rows /\ Advance(q, c) /\ UNCHANGED locks
     \/ /\ c.verb \in {"status", "catalog"} \/ (c.verb = "remove" <=> c.key \in rows)
        /\ Take(q, Wanted(q))
        /\ Advance(q, c)

(* Mutant of BumpVersions: the versions are left as they are. *)
ForgetVersions(q) ==
  At(q, "bump") /\ Advance(q, [call[q] EXCEPT !.users = {}]) /\ UNCHANGED locks

(* One user's version, or on to the next statement. *)
BumpVersions(q) ==
  /\ At(q, "bump")
  /\ LET c == call[q] IN
     IF c.users = {} THEN Advance(q, c) /\ UNCHANGED locks
     ELSE \E u \in NextUser(q) :
            /\ Take(q, {<<"version", u>>})
            /\ Advance(q, [c EXCEPT !.users = @ \ {u}, !.plan = <<"bump">> \o @])

(* Mutant of Independent: the requester may decide. *)
NotSubject(r, actor) == actor # r.user

Independent(r, actor) == actor # r.by /\ actor # r.user

(* Mutant of LockRequest: SELECT without FOR UPDATE. *)
ReadRequest(q) ==
  /\ At(q, "lock")
  /\ LET c == call[q]
         r == req[c.request]
     IN IF r.status = "PENDING" /\ Independent(r, c.actor)
        THEN /\ locks' = [locks EXCEPT ![q] = {<<"request", c.request>>}]
             /\ Advance(q, [c EXCEPT !.key = <<"userRole", r.user, r.role>>, !.users = {r.user}])
        ELSE Leave(q, "denied")

(* SELECT ... FOR UPDATE, and _require_pending_and_independent. *)
LockRequest(q) ==
  /\ At(q, "lock")
  /\ \A t \in Wanted(q) : ~Held(q, t)
  /\ LET c == call[q]
         r == req[c.request]
     IN IF r.status = "PENDING" /\ Independent(r, c.actor)
        THEN /\ Take(q, Wanted(q))
             /\ Advance(q, [c EXCEPT !.key = <<"userRole", r.user, r.role>>, !.users = {r.user}])
        ELSE Leave(q, "denied")

-----------------------------------------------------------------------------
(* What the call q has written to a request. *)
Decision(q, x) ==
  LET c == call[q] IN
  IF c.verb = "ask" /\ x = q
  THEN [status |-> "PENDING", user |-> c.key[2], role |-> c.key[3], by |-> c.actor,
        approver |-> None]
  ELSE IF <<"request", x>> \in locks[q]
  THEN [req[x] EXCEPT !.status = IF c.verb = "approve" THEN "APPROVED" ELSE "REJECTED",
                      !.approver = c.actor]
  ELSE req[x]

(* The call has run its plan: what it has written is published.  An        *)
(* approval or rejection first updates the request that it has locked.     *)
Commit(q) ==
  /\ At(q, "commit")
  /\ rows' = IF call[q].verb = "remove" THEN rows \ locks[q] ELSE rows \cup (locks[q] \cap Keys)
  /\ status' = [x \in Objects |->
       IF <<"status", x>> \in locks[q] THEN Goal(call[q]) ELSE status[x]]
  /\ ver' = [u \in Users |-> IF <<"version", u>> \in locks[q] THEN ver[u] + 1 ELSE ver[u]]
  /\ req' = [x \in RequestIds |-> Decision(q, x)]
  /\ locks' = [locks EXCEPT ![q] = {}]
  /\ pc' = [pc EXCEPT ![q] = "ok"]
  /\ call' = [call EXCEPT ![q] = Blank]
  /\ alone' = {}

(* The process or its connection is lost, a statement times out, or        *)
(* PostgreSQL ends the call to break a deadlock.                           *)
Abort(q) == pc[q] = "run" /\ Leave(q, "failed")

Operation(q) ==
  \/ AddGroupMember(q) \/ RemoveGroupMember(q)
  \/ AssignGroupRole(q) \/ RemoveGroupRole(q)
  \/ AddRolePermission(q) \/ RemoveRolePermission(q)
  \/ AssignUserRole(q) \/ RemoveUserRole(q)
  \/ UpdateGroupOrRole(q) \/ UpgradeRoleTemplate(q) \/ PutCatalog(q)
  \/ Approve(q) \/ Reject(q)

SqlStep(q) ==
  \/ CheckActive(q) \/ CheckUser(q) \/ CheckExists(q) \/ CheckGrantee(q)
  \/ CheckPending(q) \/ FileRequest(q) \/ Reselect(q)
  \/ Read(q) \/ FindAffected(q) \/ UpsertModule(q) \/ CheckReferences(q)
  \/ Write(q) \/ BumpVersions(q) \/ LockRequest(q) \/ Commit(q)

Next == \E q \in Requests : Operation(q) \/ SqlStep(q) \/ Abort(q)

Spec == Init /\ [][Next]_vars

-----------------------------------------------------------------------------
(* Properties. *)

(* The rows have their types, a lock has one holder, and a call that has   *)
(* ended or not begun holds nothing: every exit of tenant_rbac_admin.py    *)
(* commits or rolls back.                                                  *)
TypeOK ==
  /\ rows \subseteq Keys
  /\ status \in [Objects -> Statuses]
  /\ ver \in [Users -> 1 .. 1 + Cardinality(Requests)]
  /\ req \in [RequestIds -> PrivilegedRequests \cup {NoRequest}]
  /\ locks \in [Requests -> SUBSET Things]
  /\ pc \in [Requests -> {"idle", "run"} \cup Outcomes]
  /\ call \in [Requests -> Calls]
  /\ alone \subseteq Running
  /\ \A q \in Requests : q \notin Running => locks[q] = {} /\ call[q] = Blank
  /\ \A q, r \in Requests : q # r => locks[q] \cap locks[r] = {}

(* A change of a user's own roles or group memberships bumps the user's    *)
(* version by one in the same transaction, whatever runs beside it         *)
(* (add_group_member, remove_group_member, assign_user_role,               *)
(* remove_user_role, approve).                                             *)
OwnRows(u) == rows \cap ({<<"member", g, u>> : g \in Groups} \cup {<<"userRole", u, ro>> : ro \in Roles})

OwnChangeBumps ==
  [][\A u \in Users : OwnRows(u)' # OwnRows(u) => ver'[u] = ver[u] + 1]_vars

(* A call of this tenant's administration during which no other commits    *)
(* bumps the version of every user whose effective permissions it changes, *)
(* through direct roles and groups alike (_effective_group_users,          *)
(* _effective_role_users, _bump_versions against                           *)
(* effective_user_permissions).                                            *)
Undisturbed(q) == /\ q \in alone /\ call[q].verb # "catalog"
                  /\ pc[q] = "run" /\ pc'[q] = "ok"

UncontendedChangeBumps ==
  [][\A q \in Requests, u \in Users :
       Undisturbed(q) /\ Effective(u)' # Effective(u) => ver'[u] = ver[u] + 1]_vars

(* A user comes to hold a privileged role directly only in the transaction *)
(* that approves a request for it that was pending, by an approver who     *)
(* neither made it nor is its subject (approve).                           *)
MakerChecker ==
  [][\A u \in Users, ro \in Privileged :
       <<"userRole", u, ro>> \in rows' \ rows =>
         \E x \in Pending(u, ro) :
           /\ req'[x].status = "APPROVED"
           /\ req'[x].approver \notin {None, u, req[x].by}]_vars

(* A decided request is never decided again, by two approvers at once or   *)
(* by an approver and a rejecter (_locked_request).                        *)
DecidedOnce ==
  [][\A x \in RequestIds :
       req[x] # NoRequest /\ req[x].status # "PENDING" => req'[x] = req[x]]_vars

(* Calls other than template upgrades never wait for each other in a       *)
(* circle: they lock their row first and versions in user order            *)
(* (_bump_versions sorts).                                                 *)
WaitsFor(q, r) == r # q /\ Wanted(q) \cap locks[r] # {}

NoWaitCycle ==
  \A S \in SUBSET {q \in Running : call[q].verb # "template"} :
    S # {} => \E q \in S : \A r \in S : ~WaitsFor(q, r)

(* RULE-AUTHVER-002 and -003: a user's version increments in the           *)
(* transaction that changes the user's effective permissions.              *)
EffectiveChangeBumps ==
  [][\A u \in Users : Effective(u)' # Effective(u) => ver'[u] > ver[u]]_vars
==============================================================================
