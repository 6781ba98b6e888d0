---------------------------- MODULE DeviceEnrolment ----------------------------
(***************************************************************************)
(* Devices of the tenant's members: enrolled PENDING, then approved one by *)
(* one as long as the tenant's policy allows the USER one more.            *)
(***************************************************************************)
EXTENDS Accounts

(* An enrolment needs nothing but the user's row, which must not be in the *)
(* middle of being deleted.                                                *)
Enroll(q, u) ==
  /\ db.user[u] # "NONE"
  /\ Begin(q, [Blank EXCEPT !.verb = "enroll", !.user = u,
              !.plan = <<Do("insertDevice", <<"deleted", u>>)>>])

InsertDevice(q) ==
  /\ At(q, "insertDevice") /\ Free(q) /\ call[q].verb = "enroll"
  /\ IF db.user[call[q].user] = "NONE"
     THEN Leave(q, "conflict")
     ELSE Publish(q, [db EXCEPT !.device[q] = [status |-> "PENDING", user |-> call[q].user,
                                               enrolment |-> "PENDING"]], "ok")

(* Mutant of ApprovalPlan: the membership is read without a lock. *)
UnlockedPlan(d, u) ==
  <<Look("membershipInForce"), Do("pendingDevice", <<"device", d>>), Look("count"),
    Do("enrolment", <<"enrolment", d>>), Finish>>

(* The membership first: it serialises the approvals for one USER. *)
ApprovalPlan(d, u) ==
  <<Do("membershipInForce", <<"member", u>>), Do("pendingDevice", <<"device", d>>),
    Look("count"), Do("enrolment", <<"enrolment", d>>), Finish>>

Activate(q, d) ==
  LET u == db.device[d].user IN
  Begin(q, [Blank EXCEPT !.verb = "activate", !.row = d, !.user = u,
              !.plan = ApprovalPlan(d, u)])

LockMembership(q) ==
  /\ At(q, "membershipInForce") /\ Free(q)
  /\ IF db.member[call[q].user] # "ACTIVE" THEN Leave(q, "denied") ELSE Go(q, Next1(call[q]))

LockPendingDevice(q) ==
  /\ At(q, "pendingDevice") /\ Free(q)
  /\ IF db.device[call[q].row].status # "PENDING" THEN Leave(q, "unchanged")
     ELSE Go(q, Next1(call[q]))

ActiveDevices(u) ==
  {d \in Ids : /\ db.device[d] # NoRow
               /\ db.device[d].user = u /\ db.device[d].status = "ACTIVE"}

CountDevices(q) ==
  /\ At(q, "count")
  /\ IF Cardinality(ActiveDevices(call[q].user)) >= MaxDevices
     THEN Leave(q, "denied") ELSE See(q, Next1(call[q]))

LockEnrolment(q) ==
  /\ At(q, "enrolment") /\ Free(q)
  /\ IF db.device[call[q].row].enrolment # "PENDING" THEN Leave(q, "unchanged")
     ELSE Go(q, Next1(call[q]))

CommitActivate(q) ==
  /\ Committing(q, "activate")
  /\ Publish(q, [db EXCEPT !.device[call[q].row] =
                   [@ EXCEPT !.status = "ACTIVE", !.enrolment = "APPROVED"]], "ok")

-----------------------------------------------------------------------------
BeginDevice(q) ==
  \/ \E u \in Ids : Enroll(q, u)
  \/ \E d \in Ids : db.device[d] # NoRow /\ Activate(q, d)

RunDevice(q) ==
  \/ InsertDevice(q) \/ LockMembership(q) \/ LockPendingDevice(q)
  \/ CountDevices(q) \/ LockEnrolment(q) \/ CommitActivate(q)
==============================================================================
