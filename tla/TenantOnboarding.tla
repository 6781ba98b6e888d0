--------------------------- MODULE TenantOnboarding ---------------------------
(***************************************************************************)
(* How a person becomes a member of a tenant: by an invitation, which may  *)
(* turn out to be for somebody known already, or by a request made with    *)
(* the tenant's token, which an administrator decides.                     *)
(***************************************************************************)
EXTENDS Accounts

-----------------------------------------------------------------------------
(* Invitations. *)

Invite(q, rs) ==
  Begin(q, [Blank EXCEPT !.verb = "invite", !.user = q, !.roles = rs,
              !.plan = <<Look("tenantExists"), Finish>>])

TenantExists(q) ==
  /\ At(q, "tenantExists")
  /\ IF db.tenant = "NONE" THEN Leave(q, "denied") ELSE See(q, Next1(call[q]))

CommitInvite(q) ==
  /\ Committing(q, "invite")
  /\ Publish(q, [db EXCEPT !.user[q] = "INVITED", !.member[q] = "PENDING",
                   !.invitation[q] =
                     [status |-> "PENDING", user |-> q, roles |-> call[q].roles]], "ok")

(* Mutant of Cancel: the membership is taken before the invitation. *)
CancelMemberFirst(q, x) ==
  Begin(q, [Blank EXCEPT !.verb = "cancel", !.row = x,
              !.plan = <<Do("member", <<"member", db.invitation[x].user>>),
                         Do("lockInvitation", <<"invitation", x>>)>>])

Cancel(q, x) ==
  Begin(q, [Blank EXCEPT !.verb = "cancel", !.row = x,
              !.plan = <<Do("lockInvitation", <<"invitation", x>>)>>])

(* The clock is read before the row is locked. *)
Accept(q, x, s) ==
  Begin(q, [Blank EXCEPT !.verb = "accept", !.row = x, !.subject = s, !.late = x \in db.due,
              !.plan = <<Do("lockInvitation", <<"invitation", x>>)>>])

(* What is left to do once the invitation is locked and found PENDING. *)
AfterInvitation(c) ==
  LET u == db.invitation[c.row].user IN
  CASE c.verb = "cancel" -> Then([c EXCEPT !.user = u], <<Do("member", <<"member", u>>), Finish>>)
    [] c.verb = "accept" /\ c.late -> Then(c, <<Look("expire")>>)
    [] OTHER -> Then([c EXCEPT !.user = u, !.roles = db.invitation[c.row].roles],
                     <<Look("findIdentity")>>)

(* Mutant of LockInvitation: SELECT without FOR UPDATE. *)
ReadInvitation(q) ==
  /\ At(q, "lockInvitation")
  /\ IF db.invitation[call[q].row].status # "PENDING"
     THEN Leave(q, "denied")
     ELSE See(q, AfterInvitation(call[q]))

LockInvitation(q) ==
  /\ At(q, "lockInvitation") /\ Free(q)
  /\ IF db.invitation[call[q].row].status # "PENDING"
     THEN Leave(q, "denied")
     ELSE Go(q, AfterInvitation(call[q]))

(* An acceptance that comes too late is denied, and that is committed; the *)
(* invited user's membership stays PENDING.                                *)
ExpireInvitation(q) ==
  /\ At(q, "expire")
  /\ Publish(q, [db EXCEPT !.invitation[call[q].row].status = "EXPIRED"], "denied")

(* An UPDATE or DELETE of the user's membership, applied only where PENDING. *)
TouchMember(q) == Take(q, "member")

CommitCancel(q) ==
  /\ Committing(q, "cancel")
  /\ LET u == call[q].user IN
     Publish(q, [db EXCEPT !.invitation[call[q].row].status = "CANCELLED",
                   !.member[u] = IF @ = "PENDING" THEN "ENDED" ELSE @], "ok")

(* The identity decides who becomes the member: the invited user, or the   *)
(* user it already belongs to, who then takes the invited user's place.    *)
FindInvitedIdentity(q) ==
  /\ At(q, "findIdentity") /\ call[q].verb = "accept"
  /\ LET c == call[q]
         u == db.identity[c.subject]
     IN
     IF u = None
     THEN See(q, Then(c, <<Do("insertIdentity", <<"subject", c.subject>>), Look("access")>>))
     ELSE IF u = c.user THEN See(q, Then(c, <<Look("access")>>))
     ELSE IF db.user[u] # "ACTIVE" THEN Leave(q, "denied")
     ELSE See(q, Then([c EXCEPT !.user = u],
                     <<Look("noMembership"), Do("member", <<"member", c.user>>),
                       Do("insertMember", <<"member", u>>),
                       Do("user", <<"user", c.user>>),
                       Do("dropInvited", <<"deleted", c.user>>),
                       Do("dropPrincipal", <<"principal", c.user>>), Look("access")>>))

NoMembership(q) ==
  /\ At(q, "noMembership")
  /\ IF db.member[call[q].user] # "NONE" THEN Leave(q, "denied") ELSE See(q, Next1(call[q]))

InsertMember(q) == Insert(q, "insertMember", db.member[call[q].user] # "NONE")

(* The DELETE is refused while any row refers to the invited user. *)
DropInvited(q) ==
  /\ At(q, "dropInvited") /\ Free(q)
  /\ IF Referenced(Statement(q).on[2]) THEN Leave(q, "conflict") ELSE Go(q, Next1(call[q]))

DropPrincipal(q) == Take(q, "dropPrincipal")

(* _validated_access: nothing is given as long as a privileged role is     *)
(* asked for, and the membership is left as it is.                         *)
Asks(q) == call[q].roles \cap Privileged # {}
ValidateAccess(q) ==
  /\ At(q, "access")
  /\ LET user == Do("user", <<"user", call[q].user>>)
         member == Do("member", <<"member", call[q].user>>)
     IN See(q, Then(call[q], IF Asks(q) THEN <<user, Finish>> ELSE <<user, member, Finish>>))

(* _materialize_access: the UPDATE may match no row, the roles are given   *)
(* all the same.                                                           *)
Admit(d, u, rs) ==
  [d EXCEPT !.member[u] = IF @ = "PENDING" THEN "ACTIVE" ELSE @,
            !.grants[u] = @ \cup rs]

(* Mutant of Accepted: asks for the privileged roles and grants the others. *)
AcceptedInPart(d, c) ==
  Admit([d EXCEPT !.asks[c.user] = @ \cup (c.roles \cap Privileged),
                  !.invitation[c.row].status = "ACCEPTED"],
        c.user, c.roles \ Privileged)

(* With a privileged role among the proposed ones nothing is granted yet.  *)
Accepted(d, c) ==
  LET e == [d EXCEPT !.invitation[c.row].status = "ACCEPTED",
                     !.user[c.user] = IF @ = "INVITED" THEN "ACTIVE" ELSE @]
      asked == c.roles \cap Privileged
  IN  IF asked # {} THEN [e EXCEPT !.asks[c.user] = @ \cup asked]
      ELSE Admit(e, c.user, c.roles)

(* The invited user u gives way to the one that the identity belongs to. *)
Replaced(d, c, u) ==
  [d EXCEPT !.invitation[c.row].user = c.user, !.user[u] = "NONE",
            !.member = [@ EXCEPT ![u] = "NONE", ![c.user] = "PENDING"]]

CommitAccept(q) ==
  /\ Committing(q, "accept")
  /\ LET c == call[q]
         invited == db.invitation[c.row].user
     IN  Publish(q, Accepted(IF invited = c.user
                             THEN [db EXCEPT !.identity[c.subject] = c.user]
                             ELSE Replaced(db, c, invited), c), "ok")

-----------------------------------------------------------------------------
(* Self-onboarding. *)

(* The person knows the token that is in force now. *)
Register(q, s) ==
  /\ db.setting # NoRow
  /\ Begin(q, [Blank EXCEPT !.verb = "register", !.subject = s, !.version = db.setting.version,
                 !.plan = <<Look("token"), Look("findIdentity")>>])

CheckToken(q) ==
  /\ At(q, "token")
  /\ IF \/ db.tenant = "NONE" \/ db.setting.status # "ACTIVE"
        \/ db.setting.version # call[q].version
     THEN Leave(q, "denied")
     ELSE See(q, Next1(call[q]))

(* _resolve_or_create_identity_user, up to the rows it waits for. *)
FindOwnIdentity(q) ==
  /\ At(q, "findIdentity") /\ call[q].verb = "register"
  /\ LET c == call[q]
         u == db.identity[c.subject]
         rest(w) == <<Do("findMember", <<"member", w>>)>>
     IN
     IF u = None
     THEN See(q, Then([c EXCEPT !.user = q],
                     <<Do("insertIdentity", <<"subject", c.subject>>)>> \o rest(q)))
     ELSE IF db.user[u] = "ACTIVE" THEN See(q, Then([c EXCEPT !.user = u], rest(u)))
     ELSE IF db.user[u] = "INVITED"
     THEN See(q, Then([c EXCEPT !.user = u], <<Do("user", <<"user", u>>)>> \o rest(u)))
     ELSE Leave(q, "denied")

(* Whether the user has a PENDING request already. *)
HasRequest(u) ==
  \E x \in Ids : /\ db.request[x] # NoRow /\ db.request[x].user = u
                 /\ db.request[x].status = "PENDING"

(* Mutant of FindMember: SELECT without FOR UPDATE. *)
ReadMember(q) ==
  /\ At(q, "findMember") /\ call[q].verb = "register" /\ db.member[call[q].user] = "PENDING"
  /\ See(q, Then(call[q], <<Look("findRequest")>>))

FindMember(q) ==
  /\ At(q, "findMember") /\ Free(q) /\ call[q].verb = "register"
  /\ LET c == call[q]
         m == db.member[c.user]
     IN
     CASE m = "ACTIVE" -> Go(q, Then(c, <<Look("asItWas")>>))
       [] m = "ENDED" -> Leave(q, "denied")
       [] m = "PENDING" -> Go(q, Then(c, <<Look("findRequest")>>))
       [] OTHER        -> Go(q, Then(c, <<Look("findRequest"),
                                        Do("insertMember", <<"member", c.user>>)>>))

FindRequest(q) ==
  /\ At(q, "findRequest")
  /\ LET c == call[q] IN
     IF HasRequest(c.user) THEN See(q, Then(c, <<Look("asItWas")>>))
     ELSE See(q, Then(c, Tail(c.plan) \o <<Do("insertRequest", <<"open", c.user>>), Finish>>))

(* uq_open_self_onboarding_request: one request PENDING or APPROVED. *)
InsertRequest(q) ==
  Insert(q, "insertRequest",
         \E x \in Ids : /\ db.request[x] # NoRow /\ db.request[x].user = call[q].user
                        /\ db.request[x].status \in {"PENDING", "APPROVED"})

(* The rows of the caller's USER: a new one, or one that was found INVITED *)
(* and is made ACTIVE, whatever became of it since.                        *)
WithCaller(d, q) ==
  LET u == call[q].user IN
  IF u = q THEN WithUser(d, q, call[q].subject)
  ELSE IF <<"user", u>> \in locks[q] THEN [d EXCEPT !.user[u] = "ACTIVE"]
  ELSE d

CommitAsItWas(q) ==
  /\ At(q, "asItWas")
  /\ Publish(q, WithCaller(db, q), "unchanged")

CommitRegister(q) ==
  /\ Committing(q, "register")
  /\ LET u == call[q].user IN
     Publish(q, [WithCaller(db, q) EXCEPT !.member[u] = "PENDING",
                   !.request[q] = [status |-> "PENDING", user |-> u]], "ok")

Approve(q, x, rs) ==
  Begin(q, [Blank EXCEPT !.verb = "approve", !.row = x, !.roles = rs,
              !.plan = <<Do("lockRequest", <<"request", x>>)>>])
Reject(q, x) ==
  Begin(q, [Blank EXCEPT !.verb = "reject", !.row = x,
              !.plan = <<Do("lockRequest", <<"request", x>>), Finish>>])

(* Mutant of LockRequest: SELECT without FOR UPDATE. *)
ReadRequest(q) ==
  /\ At(q, "lockRequest")
  /\ LET c == call[q] IN
     IF \/ db.request[c.row].status # "PENDING" \/ c.roles \cap Privileged # {}
     THEN Leave(q, "denied")
     ELSE IF c.verb = "reject" THEN See(q, Next1(c))
     ELSE See(q, Then([c EXCEPT !.user = db.request[c.row].user],
                      <<Do("memberOfRequest", <<"member", db.request[c.row].user>>), Finish>>))

(* Privileged roles cannot be given here. *)
LockRequest(q) ==
  /\ At(q, "lockRequest") /\ Free(q)
  /\ LET c == call[q]
         u == db.request[c.row].user
     IN
     IF db.request[c.row].status # "PENDING" \/ c.roles \cap Privileged # {}
     THEN Leave(q, "denied")
     ELSE IF c.verb = "reject" THEN Go(q, Next1(c))
     ELSE Go(q, Then([c EXCEPT !.user = u],
                     <<Do("memberOfRequest", <<"member", u>>), Finish>>))

LockMemberOfRequest(q) ==
  /\ At(q, "memberOfRequest") /\ Free(q)
  /\ IF db.member[call[q].user] # "PENDING" THEN Leave(q, "denied")
     ELSE Go(q, Next1(call[q]))

CommitApprove(q) ==
  /\ Committing(q, "approve")
  /\ LET c == call[q] IN
     Publish(q, Admit([db EXCEPT !.request[c.row].status = "APPROVED"], c.user, c.roles), "ok")

(* The membership of a rejected person stays PENDING. *)
CommitReject(q) ==
  /\ Committing(q, "reject")
  /\ Publish(q, [db EXCEPT !.request[call[q].row].status = "REJECTED"], "ok")

-----------------------------------------------------------------------------
(* The calls and their statements. *)

BeginOnboarding(q) ==
  \/ \E rs \in SUBSET Roles : Invite(q, rs)
  \/ \E x \in Ids, s \in Subjects :
       db.invitation[x] # NoRow /\ (Cancel(q, x) \/ Accept(q, x, s))
  \/ \E s \in Subjects : Register(q, s)
  \/ \E x \in Ids, rs \in SUBSET Roles :
       db.request[x] # NoRow /\ (Approve(q, x, rs) \/ Reject(q, x))

RunOnboarding(q) ==
  \/ TenantExists(q) \/ CommitInvite(q)
  \/ LockInvitation(q) \/ ExpireInvitation(q) \/ TouchMember(q) \/ CommitCancel(q)
  \/ FindInvitedIdentity(q) \/ NoMembership(q) \/ InsertMember(q)
  \/ DropInvited(q) \/ DropPrincipal(q) \/ ValidateAccess(q) \/ CommitAccept(q)
  \/ CheckToken(q) \/ FindOwnIdentity(q) \/ FindMember(q) \/ FindRequest(q)
  \/ InsertRequest(q) \/ CommitAsItWas(q) \/ CommitRegister(q)
  \/ LockRequest(q) \/ LockMemberOfRequest(q) \/ CommitApprove(q) \/ CommitReject(q)

(* The expiry of an invitation passes. *)
TimePasses ==
  \E x \in Ids \ db.due :
    /\ db.invitation[x] # NoRow
    /\ db' = [db EXCEPT !.due = @ \cup {x}]
    /\ UNCHANGED <<locks, pc, call>>
==============================================================================
