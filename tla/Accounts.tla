------------------------------- MODULE Accounts -------------------------------
(***************************************************************************)
(* The tables on which the administration of one tenant and of the         *)
(* platform meet, and how their calls run on them.                         *)
(*                                                                         *)
(* Each request is a process that runs one call, one SQL statement per     *)
(* action, in READ COMMITTED.  A call carries its plan, the statements it  *)
(* has still to run, each with the row or unique key that it waits for and *)
(* then holds.  What a call writes is protected by what it holds, so it is *)
(* published by the commit.  Any statement may fail, and the call with it. *)
(* Rows that a call inserts under a new uuid have the name of the call.    *)
(***************************************************************************)
EXTENDS Naturals, Sequences, FiniteSets

CONSTANTS
  Requests,    \* the calls, one process each
  Seeds,       \* names of rows that are there before the calls
  Subjects,    \* subjects of the identity provider
  Roles,       \* roles of the tenant
  Privileged,  \* the roles whose key is in PRIVILEGED_ROLE_KEYS
  MaxDevices,  \* max_active_devices_per_user of the tenant's policy
  Expected,    \* security_bootstrap_super_admin_clerk_user_id
  Verbs,       \* which kinds of call there are
  Starts,      \* the databases that may be found when the calls start
  None

Ids == Requests \cup Seeds
NoRow == [status |-> "NONE"]

Decisions == {"PENDING", "ACCEPTED", "CANCELLED", "EXPIRED", "APPROVED", "REJECTED"}
Invitations == [status : Decisions, user : Ids, roles : SUBSET Roles]
SelfRequests == [status : Decisions, user : Ids]
Devices == [status : {"PENDING", "ACTIVE"}, user : Ids, enrolment : {"PENDING", "APPROVED"}]
Settings == [status : {"ACTIVE", "DISABLED"}, version : Nat \ {0}]
Keys == [status : {"ACTIVE", "DISABLED"}, version : Nat \ {0}, by : Ids]
Paths == {"bootstrap", "claim", "provision"}

Database ==
  [user : [Ids -> {"NONE", "INVITED", "ACTIVE", "INACTIVE"}],
   identity : [Subjects -> Ids \cup {None}],
   admin : [Ids -> Paths \cup {None}],  \* ACTIVE super admins and how they came to be
   login : Ids \cup {None},             \* whose credential has the bootstrap login name
   key : Keys \cup {NoRow},
   tenant : {"NONE", "CONFIGURING", "ACTIVE"},
   setting : Settings \cup {NoRow},
   member : [Ids -> {"NONE", "PENDING", "ACTIVE", "ENDED"}],
   grants : [Ids -> SUBSET Roles],      \* ACTIVE role assignments
   asks : [Ids -> SUBSET Roles],        \* PENDING privileged-access requests
   invitation : [Ids -> Invitations \cup {NoRow}],
   due : SUBSET Ids,                    \* invitations whose expires_at_utc has passed
   request : [Ids -> SelfRequests \cup {NoRow}],
   device : [Ids -> Devices \cup {NoRow}]]

(* The rows and unique keys that a statement may have to wait for.  Of a   *)
(* row of users, "user" is for who changes it, "deleted" for who deletes   *)
(* it and who inserts a row that refers to it.                             *)
Things ==
  ({"principal", "user", "deleted", "member", "open", "invitation", "request", "device",
     "enrolment", "admin"} \X Ids)
    \cup ({"subject"} \X Subjects)
    \cup ({"advisory"} \X Paths)
    \cup {<<"login">>, <<"key">>, <<"tenant">>, <<"setting">>}

AllVerbs == {"invite", "cancel", "accept", "register", "approve", "reject",
             "enroll", "activate", "bootstrap", "claim", "provision",
             "setKey", "disableKey", "createTenant", "activateTenant",
             "rotateToken", "disableToken", "configure", "link"}

Labels ==
  {"tenantExists", "lockInvitation", "expire", "member", "findIdentity", "insertIdentity",
   "access", "noMembership", "insertMember", "user", "dropInvited", "dropPrincipal", "token",
   "findMember", "findRequest", "asItWas", "insertRequest", "lockRequest", "memberOfRequest",
   "insertDevice", "membershipInForce", "pendingDevice", "count", "enrolment",
   "noAdmin", "insertLogin", "advisoryLock", "findClaimant", "findProvisioned", "insertAdmin",
   "findKey", "upsert", "insertTenant", "tenantBefore", "switchTenant", "tenantOfToken",
   "findSetting", "principal", "linked", "upsertIdentity", "linkedUser", "commit"}
Statements == [name : Labels, on : Things \cup {None}]
Calls == [verb : AllVerbs \cup {None},
          row : Ids \cup {None},          \* the invitation, request or device it is about
          subject : Subjects \cup {None}, \* who makes the call
          user : Ids \cup {None},         \* the user it has found or made
          roles : SUBSET Roles,
          version : Nat,                  \* of the secret it presents or the key it writes
          late : BOOLEAN,                 \* the invitation had expired when the call began
          plan : Seq(Statements)]
Blank == [verb |-> None, row |-> None, subject |-> None, user |-> None, roles |-> {},
          version |-> 0, late |-> FALSE, plan |-> <<>>]

ASSUME NamesAssumption ==
  /\ Requests \cap Seeds = {}
  /\ IsFiniteSet(Requests) /\ IsFiniteSet(Seeds)
  /\ None \notin Ids \cup Subjects \cup AllVerbs \cup Paths \cup Things
ASSUME InputAssumption ==
  /\ Privileged \subseteq Roles
  /\ MaxDevices \in Nat
  /\ Expected \in Subjects \cup {None}
  /\ Verbs \subseteq AllVerbs
  /\ Starts \subseteq Database

VARIABLES
  db,     \* the committed rows
  locks,  \* what each call holds
  pc,     \* "idle", "run" or the outcome of each call
  call    \* arguments and local variables of each call

vars == <<db, locks, pc, call>>

Outcomes == {"ok", "unchanged", "denied", "conflict", "failed"}

-----------------------------------------------------------------------------
(* How a statement runs. *)

Do(name, thing) == [name |-> name, on |-> thing]
Look(name) == Do(name, None)
Finish == Look("commit")

Statement(q) == Head(call[q].plan)
At(q, name) == pc[q] = "run" /\ Statement(q).name = name

(* A SELECT ... FOR UPDATE or an UPDATE that finds no row waits for none. *)
NoSuchRow(statement) ==
  \/ /\ statement.name \in {"findMember", "membershipInForce"}
     /\ db.member[statement.on[2]] = "NONE"
  \/ statement.name = "findKey" /\ db.key = NoRow
  \/ statement.name = "findSetting" /\ db.setting = NoRow

Wanted(q) ==
  IF Statement(q).on = None \/ NoSuchRow(Statement(q)) THEN {} ELSE {Statement(q).on}

WaitsFor(q) == {r \in Requests \ {q} : locks[r] \cap Wanted(q) # {}}
Free(q) == WaitsFor(q) = {}

(* The call holds what it wanted and goes on, its local variables as in c. *)
Go(q, c) ==
  /\ locks' = [locks EXCEPT ![q] = @ \cup Wanted(q)]
  /\ call' = [call EXCEPT ![q] = c]
  /\ UNCHANGED <<db, pc>>

(* The same for a statement that reads without a lock. *)
See(q, c) ==
  /\ call' = [call EXCEPT ![q] = c]
  /\ UNCHANGED <<db, locks, pc>>

Next1(c) == [c EXCEPT !.plan = Tail(@)]
Then(c, rest) == [c EXCEPT !.plan = rest]

(* Mutant of Leave: an error leaves the transaction and its locks behind. *)
LeaveLocked(q, outcome) ==
  /\ pc' = [pc EXCEPT ![q] = outcome]
  /\ UNCHANGED <<db, locks, call>>

(* The call ends without effect: its transaction is rolled back. *)
Leave(q, outcome) ==
  /\ pc' = [pc EXCEPT ![q] = outcome]
  /\ locks' = [locks EXCEPT ![q] = {}]
  /\ call' = [call EXCEPT ![q] = Blank]
  /\ UNCHANGED db

(* The commit of q, which leaves the committed rows as in d.  What the     *)
(* call was about is remembered.                                           *)
Publish(q, d, outcome) ==
  /\ db' = d
  /\ pc' = [pc EXCEPT ![q] = outcome]
  /\ locks' = [locks EXCEPT ![q] = {}]
  /\ call' = [call EXCEPT ![q] = [Blank EXCEPT !.verb = call[q].verb, !.row = call[q].row]]

Begin(q, c) ==
  /\ pc[q] = "idle" /\ c.verb \in Verbs
  /\ pc' = [pc EXCEPT ![q] = "run"]
  /\ call' = [call EXCEPT ![q] = c]
  /\ UNCHANGED <<db, locks>>

(* A statement that only has to get its row. *)
Take(q, name) == At(q, name) /\ Free(q) /\ Go(q, Next1(call[q]))

Committing(q, verb) == At(q, "commit") /\ call[q].verb = verb

(* Any statement may raise, the connection may be lost: rollback. *)
Abort(q) == pc[q] = "run" /\ Leave(q, "failed")

(* Calls that wait for one another; the database lets one of them fail. *)
Circle(S) ==
  S # {} /\ \A r \in S : pc[r] = "run" /\ WaitsFor(r) \cap S # {}
BreakCircle(q) ==
  /\ \E S \in SUBSET Requests : q \in S /\ Circle(S)
  /\ Abort(q)

(* A statement that inserts a row of the key it waits for: the unique      *)
(* index refuses it once another call has committed that row.              *)
Insert(q, name, taken) ==
  /\ At(q, name) /\ Free(q)
  /\ IF taken THEN Leave(q, "conflict") ELSE Go(q, Next1(call[q]))

-----------------------------------------------------------------------------
(* Users and their identities. *)

(* The rows of a new USER q with the identity of subject s. *)
WithUser(d, q, s) ==
  [d EXCEPT !.user[q] = "ACTIVE", !.identity[s] = q]

(* UPDATE, upsert or DELETE of the row of users. *)
WriteUser(q) == Take(q, "user")

InsertIdentity(q) ==
  Insert(q, "insertIdentity", db.identity[call[q].subject] # None)

(* Somebody's row refers to user u, which then cannot be deleted. *)
Referenced(u) ==
  \/ \E s \in Subjects : db.identity[s] = u
  \/ \E x \in Ids : db.request[x] # NoRow /\ db.request[x].user = u
  \/ \E x \in Ids : db.device[x] # NoRow /\ db.device[x].user = u
  \/ db.asks[u] # {} \/ db.grants[u] # {} \/ db.member[u] \notin {"NONE", "PENDING"}
==============================================================================
