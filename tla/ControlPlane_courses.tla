-------------------------- MODULE ControlPlane_courses --------------------------
(***************************************************************************)
(* For any number of calls of every kind beside one another, the invariant *)
(* that follows each call along its course: which statements are left,     *)
(* exactly what it holds meanwhile, and what it has read that therefore    *)
(* still is so.                                                            *)
(*                                                                         *)
(* Here is what a call does up to its commit, and that nothing another     *)
(* call commits under locks of its own disturbs it.  What the commits do   *)
(* is in ControlPlane_commits.                                             *)
(***************************************************************************)
EXTENDS ControlPlane_proof, SequenceTheorems

-----------------------------------------------------------------------------
(* The committed rows. *)

PendingInvitation(x) == db.invitation[x].status = "PENDING"
PendingRequest(x) == db.request[x].status = "PENDING"
Unborn(q) == pc[q] \in {"idle", "run"}   \* no row has its name yet

NoneOpen(u) ==
  \A x \in Ids : db.request[x].status \in {"PENDING", "APPROVED"} => db.request[x].user # u
NotInvited(u) ==
  \A x \in Ids : PendingInvitation(x) => db.invitation[x].user # u
Unknown(u) ==
  /\ \A s \in Subjects : db.identity[s] # u
  /\ \A x \in Ids : db.request[x] # NoRow => db.request[x].user # u

Rows ==
  /\ ForeignKeys(db)
  /\ InStep(db)
  /\ \A q \in Requests : Unborn(q) => NoRowsOf(db, q)

-----------------------------------------------------------------------------
(* The courses of the calls. *)

(* The statements that are left, and what the call holds. *)
Here(q, statements, held) == call[q].plan = statements /\ locks[q] = held

Inviting(q) ==
  /\ call[q].user = q
  /\ \/ Here(q, <<Look("tenantExists"), Finish>>, {})
     \/ Here(q, <<Finish>>, {})

Cancelling(q) ==
  LET c == call[q]
      invitation == <<"invitation", c.row>>
      member == <<"member", c.user>>
  IN
  /\ c.row \in Ids /\ db.invitation[c.row] # NoRow
  /\ \/ Here(q, <<Do("lockInvitation", invitation)>>, {})
     \/ /\ PendingInvitation(c.row) /\ c.user = db.invitation[c.row].user
        /\ \/ Here(q, <<Do("member", member), Finish>>, {invitation})
           \/ Here(q, <<Finish>>, {invitation, member})

(* What an acceptance has still to do for the user it has decided on. *)
Admitting(q, held) ==
  LET user == <<"user", call[q].user>>
      member == <<"member", call[q].user>>
  IN
  \/ Here(q, <<Look("access")>>, held)
  \/ /\ Asks(q)
     /\ \/ Here(q, <<Do("user", user), Finish>>, held)
        \/ Here(q, <<Finish>>, held \cup {user})
  \/ /\ ~Asks(q)
     /\ \/ Here(q, <<Do("user", user), Do("member", member), Finish>>, held)
        \/ Here(q, <<Do("member", member), Finish>>, held \cup {user})
        \/ Here(q, <<Finish>>, held \cup {user, member})

(* The invited user has the identity, or it is nobody's. *)
AsInvited(q) ==
  LET c == call[q]
      invitation == <<"invitation", c.row>>
      subject == <<"subject", c.subject>>
  IN
  /\ c.user = db.invitation[c.row].user
  /\ \/ Here(q, <<Look("findIdentity")>>, {invitation})
     \/ Here(q, <<Do("insertIdentity", subject), Look("access")>>, {invitation})
     \/ db.identity[c.subject] = c.user /\ Admitting(q, {invitation})
     \/ db.identity[c.subject] = None /\ Admitting(q, {invitation, subject})

(* It is another user's, who was no member and takes the place of v. *)
AsKnown(q) ==
  LET c == call[q]
      u == c.user
      v == db.invitation[c.row].user
      invitation == <<"invitation", c.row>>
      memberOfV == Do("member", <<"member", v>>)
      memberOfU == Do("insertMember", <<"member", u>>)
      userV == Do("user", <<"user", v>>)
      drop == Do("dropInvited", <<"deleted", v>>)
      principal == Do("dropPrincipal", <<"principal", v>>)
  IN
  /\ u # None /\ db.identity[c.subject] = u /\ u # v
  /\ \/ Here(q, <<Look("noMembership"), memberOfV, memberOfU, userV, drop, principal, Look("access")>>,
             {invitation})
     \/ /\ NotInvited(u)
        /\ \/ Here(q, <<memberOfV, memberOfU, userV, drop, principal, Look("access")>>, {invitation})
           \/ Here(q, <<memberOfU, userV, drop, principal, Look("access")>>,
                   {invitation, <<"member", v>>})
           \/ /\ db.member[u] = "NONE"
              /\ \/ Here(q, <<userV, drop, principal, Look("access")>>,
                         {invitation, <<"member", v>>, <<"member", u>>})
                 \/ Here(q, <<drop, principal, Look("access")>>,
                         {invitation, <<"member", v>>, <<"member", u>>, <<"user", v>>})
                 \/ /\ Unknown(v) /\ db.member[v] = "PENDING"
                    /\ \/ Here(q, <<principal, Look("access")>>,
                               {invitation, <<"member", v>>, <<"member", u>>, <<"user", v>>,
                                <<"deleted", v>>})
                       \/ Admitting(q, {invitation, <<"member", v>>, <<"member", u>>, <<"user", v>>,
                                        <<"deleted", v>>, <<"principal", v>>})

Accepting(q) ==
  LET c == call[q]
      invitation == <<"invitation", c.row>>
  IN
  /\ c.row \in Ids /\ db.invitation[c.row] # NoRow /\ c.subject \in Subjects
  /\ \/ Here(q, <<Do("lockInvitation", invitation)>>, {})
     \/ /\ PendingInvitation(c.row)
        /\ \/ Here(q, <<Look("expire")>>, {invitation})
           \/ c.roles = db.invitation[c.row].roles /\ (AsInvited(q) \/ AsKnown(q))

(* A registration as far as the user is concerned: a new one, or one that  *)
(* is known, whose row it may have locked.                                 *)
ForUser(q, statements, held) ==
  LET c == call[q] IN
  \/ /\ c.user = q /\ db.identity[c.subject] = None
     /\ Here(q, statements, held \cup {<<"subject", c.subject>>})
  \/ /\ c.user # None /\ db.identity[c.subject] = c.user
     /\ \/ Here(q, statements, held)
        \/ Here(q, statements, held \cup {<<"user", c.user>>})

Registering(q) ==
  LET c == call[q]
      u == c.user
      member == <<"member", u>>
      open == <<"open", u>>
  IN
  /\ c.subject \in Subjects
  /\ \/ Here(q, <<Look("token"), Look("findIdentity")>>, {})
     \/ Here(q, <<Look("findIdentity")>>, {})
     \/ /\ u = q
        /\ Here(q, <<Do("insertIdentity", <<"subject", c.subject>>), Do("findMember", member)>>, {})
     \/ /\ u # None /\ db.identity[c.subject] = u
        /\ Here(q, <<Do("user", <<"user", u>>), Do("findMember", member)>>, {})
     \/ ForUser(q, <<Do("findMember", member)>>, {})
     \/ ForUser(q, <<Look("asItWas")>>, {})
     \/ ForUser(q, <<Look("asItWas")>>, {member})
     \/ db.member[u] = "PENDING" /\ ForUser(q, <<Look("findRequest")>>, {member})
     \/ ForUser(q, <<Look("findRequest"), Do("insertMember", member)>>, {})
     \/ ForUser(q, <<Do("insertMember", member), Do("insertRequest", open), Finish>>, {})
     \/ /\ NoneOpen(u) /\ db.member[u] \in {"NONE", "PENDING"}
        /\ \/ ForUser(q, <<Do("insertRequest", open), Finish>>, {member})
           \/ ForUser(q, <<Finish>>, {member, open})

Approving(q) ==
  LET c == call[q]
      request == <<"request", c.row>>
      member == <<"member", c.user>>
  IN
  /\ c.row \in Ids /\ db.request[c.row] # NoRow
  /\ \/ Here(q, <<Do("lockRequest", request)>>, {})
     \/ /\ PendingRequest(c.row) /\ ~Asks(q) /\ c.user = db.request[c.row].user
        /\ \/ Here(q, <<Do("memberOfRequest", member), Finish>>, {request})
           \/ db.member[c.user] = "PENDING" /\ Here(q, <<Finish>>, {request, member})

Rejecting(q) ==
  LET c == call[q]
      request == <<"request", c.row>>
  IN
  /\ c.row \in Ids /\ db.request[c.row] # NoRow
  /\ \/ Here(q, <<Do("lockRequest", request), Finish>>, {})
     \/ PendingRequest(c.row) /\ ~Asks(q) /\ Here(q, <<Finish>>, {request})

Enrolling(q) ==
  /\ call[q].user \in Ids
  /\ Here(q, <<Do("insertDevice", <<"deleted", call[q].user>>)>>, {})

Activating(q) ==
  LET c == call[q]
      member == <<"member", c.user>>
      device == <<"device", c.row>>
      enrolment == <<"enrolment", c.row>>
      last == Do("enrolment", enrolment)
  IN
  /\ c.row \in Ids /\ db.device[c.row] # NoRow /\ c.user = db.device[c.row].user
  /\ \/ Here(q, ApprovalPlan(c.row, c.user), {})
     \/ Here(q, <<Do("pendingDevice", device), Look("count"), last, Finish>>, {member})
     \/ /\ db.device[c.row].status = "PENDING"
        /\ \/ Here(q, <<Look("count"), last, Finish>>, {member, device})
           \/ Here(q, <<last, Finish>>, {member, device})
           \/ Here(q, <<Finish>>, {member, device, enrolment})

Bootstrapping(q) ==
  LET login == <<"login">> IN
  \/ Here(q, <<Look("noAdmin"), Do("insertLogin", login), Finish>>, {})
  \/ Here(q, <<Do("insertLogin", login), Finish>>, {})
  \/ Here(q, <<Finish>>, {login})

(* A claim or a provisioning. *)
Appointing(q) ==
  LET c == call[q]
      advisory == <<"advisory", c.verb>>
      subject == <<"subject", c.subject>>
      admin == <<"admin", c.user>>
      insert == Do("insertAdmin", admin)
  IN
  /\ c.subject \in Subjects
  /\ \/ c.verb = "claim" /\ Here(q, ClaimPlan, {})
     \/ c.verb = "claim" /\ Here(q, <<Look("noAdmin"), Look("findClaimant")>>, {advisory})
     \/ c.verb = "claim" /\ Here(q, <<Look("findClaimant")>>, {advisory})
     \/ c.verb = "provision" /\ Here(q, ProvisionPlan, {})
     \/ c.verb = "provision" /\ Here(q, <<Look("findProvisioned"), Look("noAdmin")>>, {advisory})
     \/ c.verb = "provision" /\ Here(q, <<Look("noAdmin")>>, {advisory})
     \/ /\ c.user = q
        /\ \/ Here(q, <<Do("insertIdentity", subject), insert, Finish>>, {advisory})
           \/ /\ db.identity[c.subject] = None
              /\ \/ Here(q, <<insert, Finish>>, {advisory, subject})
                 \/ Here(q, <<Finish>>, {advisory, subject, admin})
     \/ /\ c.user # None /\ db.identity[c.subject] = c.user
        /\ \/ Here(q, <<insert, Finish>>, {advisory})
           \/ Here(q, <<Finish>>, {advisory, admin})

Keying(q) ==
  LET key == <<"key">>
      version == call[q].version
  IN
  \/ Here(q, <<Do("findKey", key), Do("upsert", key), Finish>>, {})
  \/ version = 1 /\ Here(q, <<Do("upsert", key), Finish>>, {})
  \/ /\ version = 1 \/ (db.key # NoRow /\ version = db.key.version + 1)
     /\ \/ Here(q, <<Do("upsert", key), Finish>>, {key})
        \/ Here(q, <<Finish>>, {key})

Unkeying(q) ==
  \/ Here(q, <<Do("findKey", <<"key">>), Finish>>, {})
  \/ db.key # NoRow /\ Here(q, <<Finish>>, {<<"key">>})

Founding(q) ==
  \/ Here(q, <<Do("insertTenant", <<"tenant">>), Finish>>, {})
  \/ db.tenant = "NONE" /\ Here(q, <<Finish>>, {<<"tenant">>})

Opening(q) ==
  LET tenant == <<"tenant">> IN
  \/ Here(q, <<Look("tenantBefore"), Do("switchTenant", tenant), Finish>>, {})
  \/ Here(q, <<Do("switchTenant", tenant), Finish>>, {})
  \/ db.tenant = "CONFIGURING" /\ Here(q, <<Finish>>, {tenant})

Rotating(q) ==
  LET setting == <<"setting">> IN
  \/ Here(q, <<Look("tenantOfToken"), Do("upsert", setting), Finish>>, {})
  \/ Here(q, <<Do("upsert", setting), Finish>>, {})
  \/ Here(q, <<Finish>>, {setting})

Disabling(q) ==
  LET setting == <<"setting">> IN
  \/ Here(q, <<Look("tenantOfToken"), Do("findSetting", setting), Finish>>, {})
  \/ /\ db.tenant # "NONE"
     /\ \/ Here(q, <<Do("findSetting", setting), Finish>>, {})
        \/ db.setting # NoRow /\ Here(q, <<Finish>>, {setting})

Configuring(q) ==
  LET u == call[q].user
      principal == <<"principal", u>>
      user == <<"user", u>>
  IN
  /\ u \in Ids /\ (u \in Requests \ {q} => ~Unborn(u))
  /\ \/ Here(q, <<Do("principal", principal), Do("user", user), Finish>>, {})
     \/ Here(q, <<Do("user", user), Finish>>, {principal})
     \/ Here(q, <<Finish>>, {principal, user})

Linking(q) ==
  LET c == call[q]
      subject == <<"subject", c.subject>>
      upsert == Do("upsertIdentity", subject)
      linked == Do("linkedUser", <<"deleted", c.user>>)
  IN
  /\ c.user \in Ids /\ c.subject \in Subjects
  /\ \/ Here(q, <<Look("linked"), upsert, linked, Finish>>, {})
     \/ Here(q, <<upsert, linked, Finish>>, {})
     \/ Here(q, <<linked, Finish>>, {subject})
     \/ db.user[c.user] # "NONE" /\ Here(q, <<Finish>>, {subject, <<"deleted", c.user>>})

OnCourse(q) ==
  LET verb == call[q].verb IN
  /\ verb \in AllVerbs
  /\ verb = "invite" => Inviting(q)
  /\ verb = "cancel" => Cancelling(q)
  /\ verb = "accept" => Accepting(q)
  /\ verb = "register" => Registering(q)
  /\ verb = "approve" => Approving(q)
  /\ verb = "reject" => Rejecting(q)
  /\ verb = "enroll" => Enrolling(q)
  /\ verb = "activate" => Activating(q)
  /\ verb = "bootstrap" => Bootstrapping(q)
  /\ verb \in {"claim", "provision"} => Appointing(q)
  /\ verb = "setKey" => Keying(q)
  /\ verb = "disableKey" => Unkeying(q)
  /\ verb = "createTenant" => Founding(q)
  /\ verb = "activateTenant" => Opening(q)
  /\ verb = "rotateToken" => Rotating(q)
  /\ verb = "disableToken" => Disabling(q)
  /\ verb = "configure" => Configuring(q)
  /\ verb = "link" => Linking(q)

(* What a call has decided stays decided. *)
Standing(q) ==
  LET c == call[q] IN
  /\ c.verb \in {"cancel", "accept"} =>
       c.row \in Ids /\ db.invitation[c.row].status \in {"CANCELLED", "ACCEPTED"}
  /\ c.verb \in {"approve", "reject"} =>
       c.row \in Ids /\ db.request[c.row].status \in {"APPROVED", "REJECTED"}
  /\ c.verb = "activate" =>
       c.row \in Ids /\ db.device[c.row] # NoRow /\ db.device[c.row].status = "ACTIVE"
  /\ c.verb = "activateTenant" => db.tenant = "ACTIVE"

CallInv(q) ==
  /\ pc[q] = "run" => OnCourse(q)
  /\ pc[q] # "run" => locks[q] = {}
  /\ pc[q] = "ok" => Standing(q)

(* Types, but for plans and locks: those are what OnCourse says. *)
Framed(c) ==
  c \in [verb : AllVerbs \cup {None}, row : Ids \cup {None}, subject : Subjects \cup {None},
         user : Ids \cup {None}, roles : SUBSET Roles, version : Nat, late : BOOLEAN,
         plan : {c.plan}]
Typed ==
  /\ db \in Database
  /\ locks = [q \in Requests |-> locks[q]]
  /\ pc \in [Requests -> {"idle", "run"} \cup Outcomes]
  /\ call = [q \in Requests |-> call[q]]
  /\ \A q \in Requests : Framed(call[q])

CourseInv ==
  /\ Typed
  /\ Rows
  /\ Exclusive
  /\ \A q \in Requests : CallInv(q)

-----------------------------------------------------------------------------
(* What the steps of a call have in common. *)

(* Call q alone moves, and stays on its course. *)
Alone(q) ==
  /\ pc[q] \in {"idle", "run"} /\ pc'[q] \in {"run"} \cup Outcomes
  /\ pc' = [pc EXCEPT ![q] = pc'[q]]
  /\ locks' = [locks EXCEPT ![q] = locks'[q]]
  /\ call' = [call EXCEPT ![q] = call'[q]]
  /\ Framed(call'[q])
  /\ \A r \in Requests \ {q} : locks'[q] \cap locks[r] \subseteq locks[q]
  /\ pc'[q] = "run" => OnCourse(q)'
  /\ pc'[q] # "run" => locks'[q] = {}
  /\ pc'[q] = "ok" => Standing(q)'

(* What it writes it holds, or has made, or nobody can have relied on. *)
GuardedInvitations(q) ==
  \A x \in Ids : db'.invitation[x] # db.invitation[x] =>
    \/ x = q /\ db'.invitation[x].user = q
    \/ /\ <<"invitation", x>> \in locks[q] /\ db.invitation[x].status = "PENDING"
       /\ db'.invitation[x] # NoRow /\ db'.invitation[x].status # "PENDING"
GuardedIdentities(q) ==
  \A s \in Subjects : db'.identity[s] # db.identity[s] =>
    /\ db.identity[s] = None /\ <<"subject", s>> \in locks[q]
    /\ \/ db'.identity[s] = q
       \/ <<"deleted", db'.identity[s]>> \in locks[q]
       \/ \E x \in Ids : /\ PendingInvitation(x) /\ <<"invitation", x>> \in locks[q]
                        /\ db.invitation[x].user = db'.identity[s]
GuardedMembers(q) ==
  \A u \in Ids : db'.member[u] # db.member[u] => u = q \/ <<"member", u>> \in locks[q]
GuardedRequests(q) ==
  \A x \in Ids : db'.request[x] # db.request[x] =>
    /\ db'.request[x] # NoRow
    /\ \/ x = q /\ <<"member", db'.request[x].user>> \in locks[q]
       \/ /\ <<"request", x>> \in locks[q] /\ db.request[x].status = "PENDING"
          /\ db'.request[x].user = db.request[x].user
GuardedDevices(q) ==
  \A x \in Ids : db'.device[x] # db.device[x] =>
    /\ db'.device[x] # NoRow
    /\ \/ x = q
       \/ /\ <<"device", x>> \in locks[q] /\ db.device[x] # NoRow
          /\ db'.device[x].user = db.device[x].user /\ db'.device[x].status = "ACTIVE"
GuardedSettings(q) ==
  /\ \A u \in Ids : db.user[u] # "NONE" /\ db'.user[u] = "NONE" => <<"deleted", u>> \in locks[q]
  /\ db'.tenant # db.tenant =>
       /\ <<"tenant">> \in locks[q] /\ db'.tenant # "NONE" /\ db.tenant # "ACTIVE"
  /\ db'.setting # db.setting => <<"setting">> \in locks[q] \/ db.tenant = "NONE"
  /\ db'.key # db.key => <<"key">> \in locks[q]
Guarded(q) ==
  /\ GuardedInvitations(q) /\ GuardedIdentities(q) /\ GuardedMembers(q)
  /\ GuardedRequests(q) /\ GuardedDevices(q) /\ GuardedSettings(q)

(* A step of one call without effect on the committed rows. *)
Quiet(q) == Alone(q) /\ UNCHANGED db

-----------------------------------------------------------------------------
(* Statements, and the rows and keys they wait for. *)

LEMMA StatementsAre ==
  /\ \A n, t : Do(n, t).name = n /\ Do(n, t).on = t
  /\ \A n : Look(n).name = n /\ Look(n).on = None
  /\ Finish.name = "commit" /\ Finish.on = None
BY DEF Do, Look, Finish

(* What is next, and what is left after it. *)
LEMMA HereIsOne ==
  ASSUME NEW q, NEW x, NEW h,
         Here(q, <<x>>, h)
  PROVE  Statement(q) = x /\ Tail(call[q].plan) = <<>> /\ locks[q] = h
<1>1. Head(<<x>>) = x /\ Tail(<<x>>) = <<>>
  OBVIOUS
<1> QED BY <1>1 DEF Here, Statement

LEMMA HereIsTwo ==
  ASSUME NEW q, NEW x, NEW x2, NEW h,
         Here(q, <<x, x2>>, h)
  PROVE  Statement(q) = x /\ Tail(call[q].plan) = <<x2>> /\ locks[q] = h
<1>1. Head(<<x, x2>>) = x /\ Tail(<<x, x2>>) = <<x2>>
  OBVIOUS
<1> QED BY <1>1 DEF Here, Statement

LEMMA HereIsThree ==
  ASSUME NEW q, NEW x, NEW x2, NEW x3, NEW h,
         Here(q, <<x, x2, x3>>, h)
  PROVE  Statement(q) = x /\ Tail(call[q].plan) = <<x2, x3>> /\ locks[q] = h
<1>1. Head(<<x, x2, x3>>) = x /\ Tail(<<x, x2, x3>>) = <<x2, x3>>
  OBVIOUS
<1> QED BY <1>1 DEF Here, Statement

LEMMA HereIsFour ==
  ASSUME NEW q, NEW x, NEW x2, NEW x3, NEW x4, NEW h,
         Here(q, <<x, x2, x3, x4>>, h)
  PROVE  Statement(q) = x /\ Tail(call[q].plan) = <<x2, x3, x4>> /\ locks[q] = h
<1>1. Head(<<x, x2, x3, x4>>) = x /\ Tail(<<x, x2, x3, x4>>) = <<x2, x3, x4>>
  OBVIOUS
<1> QED BY <1>1 DEF Here, Statement

LEMMA HereIsFive ==
  ASSUME NEW q, NEW x, NEW x2, NEW x3, NEW x4, NEW x5, NEW h,
         Here(q, <<x, x2, x3, x4, x5>>, h)
  PROVE  Statement(q) = x /\ Tail(call[q].plan) = <<x2, x3, x4, x5>> /\ locks[q] = h
<1>1. Head(<<x, x2, x3, x4, x5>>) = x /\ Tail(<<x, x2, x3, x4, x5>>) = <<x2, x3, x4, x5>>
  OBVIOUS
<1> QED BY <1>1 DEF Here, Statement

LEMMA HereIsSix ==
  ASSUME NEW q, NEW x, NEW x2, NEW x3, NEW x4, NEW x5, NEW x6, NEW h,
         Here(q, <<x, x2, x3, x4, x5, x6>>, h)
  PROVE  Statement(q) = x /\ Tail(call[q].plan) = <<x2, x3, x4, x5, x6>> /\ locks[q] = h
<1>1. Head(<<x, x2, x3, x4, x5, x6>>) = x /\ Tail(<<x, x2, x3, x4, x5, x6>>) = <<x2, x3, x4, x5, x6>>
  OBVIOUS
<1> QED BY <1>1 DEF Here, Statement

LEMMA HereIsSeven ==
  ASSUME NEW q, NEW x, NEW x2, NEW x3, NEW x4, NEW x5, NEW x6, NEW x7, NEW h,
         Here(q, <<x, x2, x3, x4, x5, x6, x7>>, h)
  PROVE  Statement(q) = x /\ Tail(call[q].plan) = <<x2, x3, x4, x5, x6, x7>> /\ locks[q] = h
<1>1. Head(<<x, x2, x3, x4, x5, x6, x7>>) = x /\ Tail(<<x, x2, x3, x4, x5, x6, x7>>) = <<x2, x3, x4, x5, x6, x7>>
  OBVIOUS
<1> QED BY <1>1 DEF Here, Statement

LEMMA ThingsAre ==
  /\ \A u \in Ids :
       /\ <<"principal", u>> \in Things /\ <<"user", u>> \in Things /\ <<"deleted", u>> \in Things
       /\ <<"member", u>> \in Things /\ <<"open", u>> \in Things /\ <<"invitation", u>> \in Things
       /\ <<"request", u>> \in Things /\ <<"device", u>> \in Things /\ <<"enrolment", u>> \in Things
       /\ <<"admin", u>> \in Things
  /\ \A s \in Subjects : <<"subject", s>> \in Things
  /\ \A p \in Paths : <<"advisory", p>> \in Things
  /\ <<"login">> \in Things /\ <<"key">> \in Things
  /\ <<"tenant">> \in Things /\ <<"setting">> \in Things
BY DEF Things

LEMMA Wants ==
  ASSUME NEW q, NEW t
  PROVE  /\ Statement(q).on = None => Wanted(q) = {}
         /\ Statement(q).on = t /\ t \in Things /\ ~NoSuchRow(Statement(q)) => Wanted(q) = {t}
         /\ NoSuchRow(Statement(q)) => Wanted(q) = {}
         /\ Statement(q).name \notin {"findMember", "membershipInForce", "findKey", "findSetting"} =>
              ~NoSuchRow(Statement(q))
BY NamesAssumption DEF Wanted, NoSuchRow

LEMMA Goes ==
  ASSUME CourseInv, NEW q \in Requests, pc[q] = "run", NEW c, Framed(c),
         See(q, c) \/ (Free(q) /\ Go(q, c))
  PROVE  /\ UNCHANGED db /\ pc'[q] = "run" /\ call'[q] = c
         /\ See(q, c) => locks'[q] = locks[q]
         /\ Go(q, c) => locks'[q] = locks[q] \cup Wanted(q)
         /\ OnCourse(q)' => Quiet(q)
<1>1. locks = [r \in Requests |-> locks[r]] /\ call = [r \in Requests |-> call[r]]
      /\ DOMAIN pc = Requests
  BY DEF CourseInv, Typed
<1>2. CASE See(q, c)
  <2>1. UNCHANGED <<db, locks, pc>> /\ call' = [call EXCEPT ![q] = c] /\ call'[q] = c
    BY <1>1, <1>2 DEF See
  <2>2. ~ Go(q, c) \/ locks' = [locks EXCEPT ![q] = @ \cup Wanted(q)]
    BY DEF Go
  <2>3. pc' = [pc EXCEPT ![q] = pc'[q]] /\ locks' = [locks EXCEPT ![q] = locks'[q]]
        /\ call' = [call EXCEPT ![q] = call'[q]]
    BY <1>1, <2>1 DEF CourseInv, Typed
  <2> QED BY <1>1, <2>1, <2>2, <2>3 DEF Quiet, Alone
<1>3. CASE Free(q) /\ Go(q, c)
  <2>1. UNCHANGED <<db, pc>> /\ call' = [call EXCEPT ![q] = c] /\ call'[q] = c
        /\ locks' = [locks EXCEPT ![q] = @ \cup Wanted(q)] /\ locks'[q] = locks[q] \cup Wanted(q)
    BY <1>1, <1>3 DEF Go
  <2>2. \A r \in Requests \ {q} : locks'[q] \cap locks[r] \subseteq locks[q]
    BY <1>3, <2>1 DEF Free, WaitsFor
  <2>3. pc' = [pc EXCEPT ![q] = pc'[q]] /\ locks' = [locks EXCEPT ![q] = locks'[q]]
        /\ call' = [call EXCEPT ![q] = call'[q]]
    BY <1>1, <2>1 DEF CourseInv, Typed
  <2>4. See(q, c) => locks'[q] = locks[q]
    BY DEF See
  <2> QED BY <2>1, <2>2, <2>3, <2>4 DEF Quiet, Alone
<1> QED BY <1>2, <1>3

LEMMA Begins ==
  ASSUME CourseInv, NEW q \in Requests, NEW c, Framed(c), Begin(q, c)
  PROVE  /\ UNCHANGED db /\ pc[q] = "idle" /\ pc'[q] = "run" /\ call'[q] = c /\ locks'[q] = {}
         /\ OnCourse(q)' => Quiet(q)
<1>1. locks = [r \in Requests |-> locks[r]] /\ call = [r \in Requests |-> call[r]]
      /\ DOMAIN pc = Requests
  BY DEF CourseInv, Typed
<1>2. /\ UNCHANGED <<db, locks>> /\ call' = [call EXCEPT ![q] = c] /\ call'[q] = c
      /\ pc[q] = "idle" /\ pc' = [pc EXCEPT ![q] = "run"] /\ pc'[q] = "run"
  BY <1>1 DEF Begin
<1>3. locks[q] = {}
  BY <1>2 DEF CourseInv, CallInv
<1>4. locks' = [locks EXCEPT ![q] = locks'[q]]
  BY <1>1, <1>2
<1> QED BY <1>2, <1>3, <1>4 DEF Quiet, Alone

LEMMA BlankFramed == Framed(Blank)
BY DEF Framed, Blank

LEMMA Leaves ==
  ASSUME CourseInv, NEW q \in Requests, pc[q] = "run",
         NEW outcome \in Outcomes \ {"ok"}, Leave(q, outcome)
  PROVE  Quiet(q) /\ pc'[q] = outcome
<1>1. locks = [r \in Requests |-> locks[r]] /\ call = [r \in Requests |-> call[r]]
      /\ DOMAIN pc = Requests
  BY DEF CourseInv, Typed
<1>2. /\ UNCHANGED db /\ call' = [call EXCEPT ![q] = Blank] /\ call'[q] = Blank
      /\ locks' = [locks EXCEPT ![q] = {}] /\ locks'[q] = {}
      /\ pc' = [pc EXCEPT ![q] = outcome] /\ pc'[q] = outcome
  BY <1>1 DEF Leave
<1> QED BY <1>2, BlankFramed DEF Quiet, Alone, Outcomes

(* What is left of a call that has committed. *)
LEMMA Publishes ==
  ASSUME CourseInv, NEW q \in Requests, pc[q] = "run",
         NEW d, NEW outcome \in Outcomes, Publish(q, d, outcome)
  PROVE  /\ db' = d /\ pc'[q] = outcome
         /\ call'[q].verb = call[q].verb /\ call'[q].row = call[q].row
         /\ (outcome = "ok" => Standing(q)') => Alone(q)
<1>1. locks = [r \in Requests |-> locks[r]] /\ call = [r \in Requests |-> call[r]]
      /\ DOMAIN pc = Requests /\ Framed(call[q])
  BY DEF CourseInv, Typed
<1> DEFINE c == [Blank EXCEPT !.verb = call[q].verb, !.row = call[q].row]
<1>2. Framed(c) /\ c.verb = call[q].verb /\ c.row = call[q].row
  BY <1>1, BlankFramed DEF Framed, Blank
<1>3. /\ db' = d /\ call' = [call EXCEPT ![q] = c] /\ call'[q] = c
      /\ locks' = [locks EXCEPT ![q] = {}] /\ locks'[q] = {}
      /\ pc' = [pc EXCEPT ![q] = outcome] /\ pc'[q] = outcome
  BY <1>1 DEF Publish
<1> QED BY <1>2, <1>3 DEF Alone, Outcomes

-----------------------------------------------------------------------------
(* What a call has found stays so while another one moves. *)

LEMMA OthersSame ==
  ASSUME CourseInv, NEW q \in Requests, Alone(q), NEW r \in Requests \ {q}
  PROVE  call'[r] = call[r] /\ locks'[r] = locks[r] /\ pc'[r] = pc[r]
<1>1. DOMAIN locks = Requests /\ DOMAIN call = Requests /\ DOMAIN pc = Requests
  BY DEF CourseInv, Typed
<1> QED BY <1>1 DEF Alone

(* No row refers to a USER, or is the one, that a call has still to make. *)
LEMMA UnbornUnknown ==
  ASSUME CourseInv, NEW q \in Requests, Unborn(q)
  PROVE  /\ NoRowsOf(db, q) /\ ~PendingInvitation(q) /\ ~PendingRequest(q)
         /\ \A s \in Subjects : db.identity[s] # q
         /\ \A x \in Ids : PendingInvitation(x) => db.invitation[x].user # q
         /\ \A x \in Ids : db.request[x] # NoRow => db.request[x].user # q
<1>1. NoRowsOf(db, q)
  BY DEF CourseInv, Rows
<1>2. q # None
  BY NamesAssumption DEF Ids
<1>3. ~PendingInvitation(q) /\ ~PendingRequest(q)
  BY <1>1 DEF NoRowsOf, PendingInvitation, PendingRequest, NoRow
<1>4. ForeignKeys(db) /\ db.user[q] = "NONE"
  BY <1>1 DEF CourseInv, Rows, NoRowsOf
<1> QED BY <1>1, <1>2, <1>3, <1>4 DEF ForeignKeys, PendingInvitation

LEMMA HeldStays ==
  ASSUME CourseInv, NEW q \in Requests, Alone(q), Guarded(q), NEW r \in Requests \ {q}
  PROVE  /\ \A x \in Ids :
              /\ db.invitation[x] # NoRow => db'.invitation[x] # NoRow
              /\ PendingInvitation(x) /\ <<"invitation", x>> \in locks[r] =>
                   db'.invitation[x] = db.invitation[x]
              /\ db.request[x] # NoRow =>
                   db'.request[x] # NoRow /\ db'.request[x].user = db.request[x].user
              /\ PendingRequest(x) /\ <<"request", x>> \in locks[r] =>
                   db'.request[x] = db.request[x]
              /\ db.device[x] # NoRow =>
                   db'.device[x] # NoRow /\ db'.device[x].user = db.device[x].user
              /\ db.device[x] # NoRow /\ <<"device", x>> \in locks[r] =>
                   db'.device[x] = db.device[x]
         /\ \A s \in Subjects :
              /\ db.identity[s] # None => db'.identity[s] = db.identity[s]
              /\ <<"subject", s>> \in locks[r] => db'.identity[s] = db.identity[s]
         /\ \A u \in Ids : u # q /\ <<"member", u>> \in locks[r] =>
              db'.member[u] = db.member[u]
         /\ \A u \in Ids : db.user[u] # "NONE" /\ <<"deleted", u>> \in locks[r] =>
              db'.user[u] # "NONE"
         /\ <<"tenant">> \in locks[r] => db'.tenant = db.tenant
         /\ <<"setting">> \in locks[r] /\ db.tenant # "NONE" => db'.setting = db.setting
         /\ <<"key">> \in locks[r] => db'.key = db.key
         /\ db.tenant # "NONE" => db'.tenant # "NONE"
<1>1. \A t : t \in locks[r] => t \notin locks[q]
  BY DEF CourseInv, Exclusive
<1>2. Unborn(q)
  BY DEF Alone, Unborn
<1>3. db.invitation[q] = NoRow /\ db.request[q] = NoRow /\ db.device[q] = NoRow
      /\ ~PendingInvitation(q) /\ ~PendingRequest(q)
  BY <1>2, UnbornUnknown DEF NoRowsOf
<1>4. ASSUME NEW x \in Ids
      PROVE  /\ db.invitation[x] # NoRow => db'.invitation[x] # NoRow
             /\ PendingInvitation(x) /\ <<"invitation", x>> \in locks[r] =>
                  db'.invitation[x] = db.invitation[x]
  BY <1>1, <1>3 DEF Guarded, GuardedInvitations
<1>5. ASSUME NEW x \in Ids
      PROVE  /\ db.request[x] # NoRow =>
                  db'.request[x] # NoRow /\ db'.request[x].user = db.request[x].user
             /\ PendingRequest(x) /\ <<"request", x>> \in locks[r] =>
                  db'.request[x] = db.request[x]
  BY <1>1, <1>3 DEF Guarded, GuardedRequests
<1>6. ASSUME NEW x \in Ids
      PROVE  /\ db.device[x] # NoRow =>
                  db'.device[x] # NoRow /\ db'.device[x].user = db.device[x].user
             /\ db.device[x] # NoRow /\ <<"device", x>> \in locks[r] =>
                  db'.device[x] = db.device[x]
  BY <1>1, <1>3 DEF Guarded, GuardedDevices
<1>7. \A s \in Subjects :
        /\ db.identity[s] # None => db'.identity[s] = db.identity[s]
        /\ <<"subject", s>> \in locks[r] => db'.identity[s] = db.identity[s]
  BY Zenon, <1>1 DEF Guarded, GuardedIdentities
<1>8. \A u \in Ids : u # q /\ <<"member", u>> \in locks[r] => db'.member[u] = db.member[u]
  BY <1>1 DEF Guarded, GuardedMembers
<1>9. /\ \A u \in Ids : db.user[u] # "NONE" /\ <<"deleted", u>> \in locks[r] =>
           db'.user[u] # "NONE"
      /\ <<"tenant">> \in locks[r] => db'.tenant = db.tenant
      /\ <<"setting">> \in locks[r] /\ db.tenant # "NONE" => db'.setting = db.setting
      /\ <<"key">> \in locks[r] => db'.key = db.key
      /\ db.tenant # "NONE" => db'.tenant # "NONE"
  BY <1>1 DEF Guarded, GuardedSettings
<1> QED BY <1>4, <1>5, <1>6, <1>7, <1>8, <1>9

(* Nobody is invited anew who is known. *)
LEMMA NotInvitedStays ==
  ASSUME CourseInv, NEW q \in Requests, Alone(q), Guarded(q), NEW u \in Ids, u # q, NotInvited(u)
  PROVE  NotInvited(u)'
BY DEF NotInvited, PendingInvitation, Guarded, GuardedInvitations

(* Nor does anybody get an identity or ask to become a member whose row,   *)
(* invitation and membership another call holds.                           *)
LEMMA UnknownStays ==
  ASSUME CourseInv, NEW q \in Requests, Alone(q), Guarded(q), NEW r \in Requests \ {q},
         NEW x \in Ids, PendingInvitation(x), NEW v, v = db.invitation[x].user,
         <<"invitation", x>> \in locks[r], <<"member", v>> \in locks[r], <<"deleted", v>> \in locks[r],
         Unknown(v)
  PROVE  Unknown(v)'
<1>1. Unborn(q)
  BY DEF Alone, Unborn
<1>2. v # q
  BY <1>1, UnbornUnknown
<1>3. \A t : t \in locks[r] => t \notin locks[q]
  BY DEF CourseInv, Exclusive
<1>4. \A y \in Ids : PendingInvitation(y) /\ db.invitation[y].user = v => y = x
  BY DEF CourseInv, Rows, InStep, PendingInvitation
<1>5. ASSUME NEW s \in Subjects
      PROVE  db'.identity[s] # v
  BY <1>2, <1>3, <1>4 DEF Unknown, Guarded, GuardedIdentities
<1>6. ASSUME NEW y \in Ids, db'.request[y] # NoRow
      PROVE  db'.request[y].user # v
  <2>1. CASE db'.request[y] = db.request[y]
    BY <2>1, <1>6 DEF Unknown
  <2>2. CASE db'.request[y] # db.request[y]
    <3>1. CASE <<"member", db'.request[y].user>> \in locks[q]
      BY <3>1, <1>3
    <3>2. CASE db.request[y].status = "PENDING" /\ db'.request[y].user = db.request[y].user
      BY <3>2 DEF Unknown, NoRow
    <3> QED BY <2>2, <3>1, <3>2 DEF Guarded, GuardedRequests
  <2> QED BY <2>1, <2>2
<1> QED BY <1>5, <1>6 DEF Unknown

LEMMA NoneOpenStays ==
  ASSUME CourseInv, NEW q \in Requests, Alone(q), Guarded(q), NEW r \in Requests \ {q},
         NEW u, <<"member", u>> \in locks[r], NoneOpen(u)
  PROVE  NoneOpen(u)'
<1>1. \A t : t \in locks[r] => t \notin locks[q]
  BY DEF CourseInv, Exclusive
<1> SUFFICES ASSUME NEW x \in Ids, db'.request[x].status \in {"PENDING", "APPROVED"}
             PROVE  db'.request[x].user # u
  BY DEF NoneOpen
<1> QED BY <1>1 DEF NoneOpen, Guarded, GuardedRequests

(* Where another call, r, stands, and on which rows. *)
Bystander(q, r) ==
  /\ call'[r] = call[r] /\ locks'[r] = locks[r]
  /\ Framed(call[r]) /\ call[r].row \in Ids \cup {None} /\ call[r].user \in Ids \cup {None}
  /\ \A s \in Subjects : db.identity[s] # q /\ db.identity[s] \in Ids \cup {None}
  /\ \A x \in Ids : PendingInvitation(x) =>
       /\ db.invitation[x] # NoRow
       /\ db.invitation[x].user # q /\ db.invitation[x].user \in Ids
       /\ <<"invitation", x>> \in locks[r] =>
            db'.invitation[x] = db.invitation[x] /\ PendingInvitation(x)'
  /\ \A x \in Ids : PendingRequest(x) =>
       /\ db.request[x] # NoRow
       /\ db.request[x].user # q /\ db.request[x].user \in Ids
       /\ <<"request", x>> \in locks[r] =>
            db'.request[x] = db.request[x] /\ PendingRequest(x)'

LEMMA OthersStand ==
  ASSUME CourseInv, NEW q \in Requests, Alone(q), Guarded(q), NEW r \in Requests \ {q}
  PROVE  Bystander(q, r)
<1>1. call'[r] = call[r] /\ locks'[r] = locks[r] /\ Framed(call[r]) /\ Unborn(q)
  BY OthersSame DEF CourseInv, Typed, Alone, Unborn
<1>2. call[r].row \in Ids \cup {None} /\ call[r].user \in Ids \cup {None}
  BY <1>1 DEF Framed
<1>3. \A s \in Subjects : db.identity[s] # q /\ db.identity[s] \in Ids \cup {None}
  BY <1>1, UnbornUnknown DEF CourseInv, Typed, Database
<1>4. ASSUME NEW x \in Ids, PendingInvitation(x)
      PROVE  /\ db.invitation[x] # NoRow
             /\ db.invitation[x].user # q /\ db.invitation[x].user \in Ids
             /\ <<"invitation", x>> \in locks[r] =>
                  db'.invitation[x] = db.invitation[x] /\ PendingInvitation(x)'
  <2>1. db.invitation[x] # NoRow /\ db.invitation[x].user # q /\ db.invitation[x].user \in Ids
    BY <1>1, <1>4, UnbornUnknown DEF CourseInv, Typed, Database, Invitations, PendingInvitation, NoRow
  <2>2. <<"invitation", x>> \in locks[r] => db'.invitation[x] = db.invitation[x]
    BY <1>4, HeldStays
  <2> QED BY <1>4, <2>1, <2>2 DEF PendingInvitation
<1>5. ASSUME NEW x \in Ids, PendingRequest(x)
      PROVE  /\ db.request[x] # NoRow
             /\ db.request[x].user # q /\ db.request[x].user \in Ids
             /\ <<"request", x>> \in locks[r] =>
                  db'.request[x] = db.request[x] /\ PendingRequest(x)'
  <2>1. db.request[x] # NoRow /\ db.request[x].user # q /\ db.request[x].user \in Ids
    BY <1>1, <1>5, UnbornUnknown DEF CourseInv, Typed, Database, SelfRequests, PendingRequest, NoRow
  <2>2. <<"request", x>> \in locks[r] => db'.request[x] = db.request[x]
    BY <1>5, HeldStays
  <2> QED BY <1>5, <2>1, <2>2 DEF PendingRequest
<1> QED BY <1>1, <1>2, <1>3, <1>4, <1>5 DEF Bystander

LEMMA AdmittingStays ==
  ASSUME NEW r, call'[r] = call[r], locks'[r] = locks[r], NEW held, Admitting(r, held)
  PROVE  held \subseteq locks[r] /\ Admitting(r, held)'
BY DEF Admitting, Here, Asks

LEMMA AsInvitedStays ==
  ASSUME CourseInv, NEW q \in Requests, Alone(q), Guarded(q), NEW r \in Requests \ {q},
         call[r].row \in Ids, call[r].subject \in Subjects, PendingInvitation(call[r].row), AsInvited(r)
  PROVE  /\ AsInvited(r)' /\ PendingInvitation(call[r].row)'
         /\ db'.invitation[call[r].row] = db.invitation[call[r].row]
<1> DEFINE c == call[r]
           invitation == <<"invitation", c.row>>
           subject == <<"subject", c.subject>>
           v == db.invitation[c.row].user
<1>1. Bystander(q, r) /\ call'[r] = c /\ locks'[r] = locks[r]
  BY OthersStand DEF Bystander
<1>2. c.user = v /\ v \in Ids /\ c.user # None
  <2>1. c.user = v BY DEF AsInvited
  <2>2. v \in Ids BY <1>1 DEF Bystander
  <2> QED BY <2>1, <2>2, NamesAssumption
<1>3. invitation \in locks[r] => db'.invitation[c.row] = db.invitation[c.row] /\ PendingInvitation(c.row)'
  BY <1>1 DEF Bystander
<1>4. CASE Here(r, <<Look("findIdentity")>>, {invitation})
           \/ Here(r, <<Do("insertIdentity", subject), Look("access")>>, {invitation})
  <2>1. invitation \in locks[r] /\ c.user = db'.invitation[c.row].user
    BY <1>2, <1>3, <1>4 DEF Here
  <2>2. \/ Here(r, <<Look("findIdentity")>>, {invitation})'
        \/ Here(r, <<Do("insertIdentity", subject), Look("access")>>, {invitation})'
    BY <1>1, <1>4 DEF Here
  <2> QED BY <1>1, <1>3, <2>1, <2>2 DEF AsInvited
<1>5. CASE db.identity[c.subject] = c.user /\ Admitting(r, {invitation})
  <2> DEFINE held == {invitation}
  <2>1. held \subseteq locks[r] /\ held' = held
    BY <1>1, <1>5, AdmittingStays
  <2>2. Admitting(r, held)'
    <3> HIDE DEF held
    <3>1. Admitting(r, held) BY <1>5 DEF held
    <3> QED BY <1>1, <2>1, <3>1 DEF Admitting, Here, Asks
  <2>3. db'.identity[c.subject] = c.user
    BY <1>2, <1>5, HeldStays
  <2> QED BY <1>1, <1>2, <1>3, <2>1, <2>2, <2>3 DEF AsInvited
<1>6. CASE db.identity[c.subject] = None /\ Admitting(r, {invitation, subject})
  <2> DEFINE held == {invitation, subject}
  <2>1. held \subseteq locks[r] /\ held' = held
    BY <1>1, <1>6, AdmittingStays
  <2>2. Admitting(r, held)'
    <3> HIDE DEF held
    <3>1. Admitting(r, held) BY <1>6 DEF held
    <3> QED BY <1>1, <2>1, <3>1 DEF Admitting, Here, Asks
  <2>3. db'.identity[c.subject] = None
    BY <1>6, <2>1, HeldStays
  <2> QED BY <1>1, <1>2, <1>3, <2>1, <2>2, <2>3 DEF AsInvited
<1> QED BY <1>4, <1>5, <1>6 DEF AsInvited

LEMMA AsKnownStays ==
  ASSUME CourseInv, NEW q \in Requests, Alone(q), Guarded(q), NEW r \in Requests \ {q},
         call[r].row \in Ids, call[r].subject \in Subjects, PendingInvitation(call[r].row), AsKnown(r)
  PROVE  /\ AsKnown(r)' /\ PendingInvitation(call[r].row)'
         /\ db'.invitation[call[r].row] = db.invitation[call[r].row]
<1> DEFINE c == call[r]
           u == c.user
           v == db.invitation[c.row].user
           invitation == <<"invitation", c.row>>
           held == {invitation, <<"member", v>>, <<"member", u>>, <<"user", v>>, <<"deleted", v>>,
                    <<"principal", v>>}
           memberOfV == Do("member", <<"member", v>>)
           memberOfU == Do("insertMember", <<"member", u>>)
           userV == Do("user", <<"user", v>>)
           drop == Do("dropInvited", <<"deleted", v>>)
           principal == Do("dropPrincipal", <<"principal", v>>)
<1>1. Bystander(q, r) /\ call'[r] = c /\ locks'[r] = locks[r]
  BY OthersStand DEF Bystander
<1>2. /\ db.identity[c.subject] = u /\ u # v /\ u # q /\ v # q /\ v \in Ids
  BY Zenon, <1>1 DEF AsKnown, Bystander
<1>3. invitation \in locks[r]
  <2>1. Admitting(r, held) => invitation \in locks[r]
    BY <1>1, AdmittingStays
  <2> QED BY Zenon, <2>1 DEF AsKnown, Here
<1>4. db'.invitation[c.row] = db.invitation[c.row] /\ PendingInvitation(c.row)'
  BY <1>1, <1>3 DEF Bystander
<1>5. u \in Ids /\ db'.identity[c.subject] = u
  BY Zenon, <1>1, <1>2, HeldStays DEF AsKnown, Bystander
<1> DEFINE Stage0 == Here(r, <<Look("noMembership"), memberOfV, memberOfU, userV, drop, principal, Look("access")>>,
                        {invitation})
           Stage1 == Here(r, <<memberOfV, memberOfU, userV, drop, principal, Look("access")>>, {invitation})
           Stage2 == Here(r, <<memberOfU, userV, drop, principal, Look("access")>>,
                          {invitation, <<"member", v>>})
           Stage3 == Here(r, <<userV, drop, principal, Look("access")>>,
                         {invitation, <<"member", v>>, <<"member", u>>})
           Stage4 == Here(r, <<drop, principal, Look("access")>>,
                          {invitation, <<"member", v>>, <<"member", u>>, <<"user", v>>})
           Stage5 == Here(r, <<principal, Look("access")>>,
                         {invitation, <<"member", v>>, <<"member", u>>, <<"user", v>>, <<"deleted", v>>})
<1>6. (Stage0 => Stage0') /\ (Stage1 => Stage1') /\ (Stage2 => Stage2') /\ (Stage3 => Stage3')
      /\ (Stage4 => Stage4') /\ (Stage5 => Stage5')
  BY <1>1, <1>4 DEF Here
<1>7. ASSUME Admitting(r, held)
      PROVE  held \subseteq locks[r] /\ Admitting(r, held)'
  <2>1. held' = held
    BY <1>1, <1>4
  <2> HIDE DEF held
  <2>2. held \subseteq locks[r] BY <1>1, <1>7, AdmittingStays
  <2>3. Admitting(r, held)' BY <1>1, <1>7, <2>1 DEF Admitting, Here, Asks
  <2> QED BY <2>2, <2>3
<1>8. NotInvited(u) => NotInvited(u)'
  <2>1. u' = u
    BY <1>1
  <2> QED BY <1>2, <1>5, <2>1, NotInvitedStays DEF NotInvited
<1>9. /\ <<"member", u>> \in locks[r] => db'.member[u] = db.member[u]
      /\ <<"member", v>> \in locks[r] => db'.member[v] = db.member[v]
  BY <1>2, <1>5, HeldStays
<1>10. /\ <<"member", v>> \in locks[r] /\ <<"deleted", v>> \in locks[r] /\ Unknown(v)
          => Unknown(v)'
  <2>1. v' = v
    BY <1>1, <1>4
  <2> QED BY <1>2, <1>3, <2>1, UnknownStays DEF Unknown
<1>11. /\ Stage3 \/ Stage4 \/ Stage5 => <<"member", u>> \in locks[r]
       /\ Stage5 => <<"member", v>> \in locks[r] /\ <<"deleted", v>> \in locks[r]
       /\ Admitting(r, held) =>
            <<"member", u>> \in locks[r] /\ <<"member", v>> \in locks[r] /\ <<"deleted", v>> \in locks[r]
  <2>1. Stage3 \/ Stage4 \/ Stage5 => <<"member", u>> \in locks[r]
    BY DEF Here
  <2>2. Stage5 => <<"member", v>> \in locks[r] /\ <<"deleted", v>> \in locks[r]
    BY DEF Here
  <2>3. <<"member", u>> \in held /\ <<"member", v>> \in held /\ <<"deleted", v>> \in held
    OBVIOUS
  <2> QED BY <1>7, <2>1, <2>2, <2>3
<1>12. call[r].user' = u /\ c' = c /\ u' = u /\ v' = v
  BY <1>1, <1>4
<1>13. /\ u # None /\ db.identity[c.subject] = u /\ u # v
       /\ \/ Stage0
          \/ NotInvited(u) /\ (Stage1 \/ Stage2)
          \/ /\ NotInvited(u) /\ db.member[u] = "NONE"
             /\ Stage3 \/ Stage4
          \/ /\ NotInvited(u) /\ db.member[u] = "NONE" /\ Unknown(v) /\ db.member[v] = "PENDING"
             /\ Stage5 \/ Admitting(r, held)
  BY Zenon DEF AsKnown
<1> HIDE DEF Stage0, Stage1, Stage2, Stage3, Stage4, Stage5, held
<1>14. /\ u # None /\ db'.identity[c.subject] = u /\ u # v
       /\ \/ Stage0'
          \/ NotInvited(u)' /\ (Stage1' \/ Stage2')
          \/ /\ NotInvited(u)' /\ db'.member[u] = "NONE"
             /\ Stage3' \/ Stage4'
          \/ /\ NotInvited(u)' /\ db'.member[u] = "NONE" /\ Unknown(v)' /\ db'.member[v] = "PENDING"
             /\ Stage5' \/ Admitting(r, held)'
  BY <1>5, <1>6, <1>7, <1>8, <1>9, <1>10, <1>11, <1>13
<1>15. AsKnown(r)'
  BY Zenon, <1>12, <1>14 DEF AsKnown, Stage0, Stage1, Stage2, Stage3, Stage4, Stage5, held
<1> QED BY <1>4, <1>15

LEMMA RegisteringStays ==
  ASSUME CourseInv, NEW q \in Requests, Alone(q), Guarded(q), NEW r \in Requests \ {q}, Registering(r)
  PROVE  Registering(r)'
<1> DEFINE c == call[r]
           u == c.user
           member == <<"member", u>>
           open == <<"open", u>>
           subject == <<"subject", c.subject>>
<1>1. Bystander(q, r) /\ call'[r] = c /\ locks'[r] = locks[r] /\ c.subject \in Subjects
  BY OthersStand DEF Bystander, Registering
<1>2. /\ db.identity[c.subject] # None => db'.identity[c.subject] = db.identity[c.subject]
      /\ subject \in locks[r] => db'.identity[c.subject] = db.identity[c.subject]
      /\ db.identity[c.subject] # q /\ r # q
  BY <1>1, HeldStays DEF Bystander
<1>3. ASSUME NEW statements, NEW held, ForUser(r, statements, held)
      PROVE  /\ ForUser(r, statements, held)' /\ held \subseteq locks[r]
             /\ u # q /\ u \in Ids
  <2>1. CASE /\ u = r /\ db.identity[c.subject] = None
             /\ Here(r, statements, held \cup {subject})
    <3>1. subject \in locks[r] /\ held \subseteq locks[r]
      BY <2>1 DEF Here
    <3>2. Here(r, statements, held \cup {subject})'
      BY <1>1, <2>1 DEF Here
    <3> QED BY <1>1, <1>2, <2>1, <3>1, <3>2 DEF ForUser, Ids
  <2>2. CASE /\ u # None /\ db.identity[c.subject] = u
             /\ Here(r, statements, held) \/ Here(r, statements, held \cup {<<"user", u>>})
    <3>1. held \subseteq locks[r]
      BY <2>2 DEF Here
    <3>2. Here(r, statements, held)' \/ Here(r, statements, held \cup {<<"user", u>>})'
      BY <1>1, <2>2 DEF Here
    <3>3. u \in Ids
      BY <1>1, <2>2 DEF Bystander
    <3> QED BY <1>1, <1>2, <2>2, <3>1, <3>2, <3>3 DEF ForUser
  <2> QED BY <1>3, <2>1, <2>2 DEF ForUser
<1>4. u # q /\ u \in Ids /\ member \in locks[r] =>
        /\ db'.member[u] = db.member[u]
        /\ NoneOpen(u) => NoneOpen(u)'
  <2>1. u' = u BY <1>1
  <2> QED BY <2>1, HeldStays, NoneOpenStays DEF NoneOpen
<1> DEFINE findMember == Do("findMember", member)
           insertMember == Do("insertMember", member)
           insertRequest == Do("insertRequest", open)
<1>5. CASE \/ Here(r, <<Look("token"), Look("findIdentity")>>, {})
           \/ Here(r, <<Look("findIdentity")>>, {})
           \/ u = r /\ Here(r, <<Do("insertIdentity", subject), findMember>>, {})
  BY <1>1, <1>5 DEF Registering, Here
<1>6. CASE /\ u # None /\ db.identity[c.subject] = u
           /\ Here(r, <<Do("user", <<"user", u>>), findMember>>, {})
  BY <1>1, <1>2, <1>6 DEF Registering, Here
<1>7. /\ member' = member /\ findMember' = findMember /\ insertMember' = insertMember
      /\ insertRequest' = insertRequest /\ open' = open /\ c' = c
  BY <1>1
<1> DEFINE asked == <<Look("findRequest"), insertMember>>
           inserting == <<insertMember, insertRequest, Finish>>
           opening == <<insertRequest, Finish>>
<1>8. CASE \/ ForUser(r, <<findMember>>, {}) \/ ForUser(r, <<Look("asItWas")>>, {})
           \/ ForUser(r, <<Look("asItWas")>>, {member})
           \/ ForUser(r, asked, {}) \/ ForUser(r, inserting, {})
  <2>1. \/ ForUser(r, <<findMember>>, {})' \/ ForUser(r, <<Look("asItWas")>>, {})'
        \/ ForUser(r, <<Look("asItWas")>>, {member})'
        \/ ForUser(r, asked, {})' \/ ForUser(r, inserting, {})'
    BY <1>3, <1>7, <1>8
  <2> QED BY <1>1, <1>7, <2>1 DEF Registering
<1>9. CASE db.member[u] = "PENDING" /\ ForUser(r, <<Look("findRequest")>>, {member})
  <2>1. ForUser(r, <<Look("findRequest")>>, {member})' /\ member \in locks[r] /\ u # q /\ u \in Ids
    BY <1>3, <1>7, <1>9
  <2>2. db'.member[u] = "PENDING"
    BY <1>4, <1>9, <2>1
  <2> QED BY <1>1, <1>7, <2>1, <2>2 DEF Registering
<1>10. CASE /\ NoneOpen(u) /\ db.member[u] \in {"NONE", "PENDING"}
            /\ ForUser(r, opening, {member}) \/ ForUser(r, <<Finish>>, {member, open})
  <2>1. /\ ForUser(r, opening, {member})' \/ ForUser(r, <<Finish>>, {member, open})'
        /\ member \in locks[r] /\ u # q /\ u \in Ids
    BY <1>3, <1>7, <1>10
  <2>2. NoneOpen(u)' /\ db'.member[u] \in {"NONE", "PENDING"}
    BY <1>4, <1>10, <2>1
  <2> QED BY <1>1, <1>7, <2>1, <2>2 DEF Registering
<1> QED BY <1>5, <1>6, <1>8, <1>9, <1>10 DEF Registering

(* The other kinds of call rely on less. *)
LEMMA CourseStays ==
  ASSUME CourseInv, NEW q \in Requests, Alone(q), Guarded(q), NEW r \in Requests \ {q}, pc[r] = "run"
  PROVE  OnCourse(r)'
<1> DEFINE c == call[r]
<1>1. /\ Bystander(q, r) /\ call'[r] = c /\ locks'[r] = locks[r] /\ OnCourse(r)
      /\ c.row \in Ids \cup {None} /\ c.user \in Ids \cup {None}
  BY OthersStand DEF Bystander, CourseInv, CallInv
<1>2. c.verb = "invite" => Inviting(r)'
  BY <1>1 DEF OnCourse, Inviting, Here
<1>3. c.verb = "cancel" => Cancelling(r)'
  <2>1. Cancelling(r) => db'.invitation[c.row] # NoRow
    BY HeldStays DEF Cancelling
  <2>2. <<"invitation", c.row>> \in locks[r] /\ PendingInvitation(c.row) /\ c.row \in Ids =>
          db'.invitation[c.row] = db.invitation[c.row] /\ PendingInvitation(c.row)'
    BY <1>1 DEF Bystander
  <2> QED BY <1>1, <2>1, <2>2 DEF OnCourse, Cancelling, Here
<1>4. c.verb = "accept" => Accepting(r)'
  <2> SUFFICES ASSUME c.verb = "accept"
               PROVE  Accepting(r)'
    OBVIOUS
  <2>1. /\ Accepting(r) /\ c.row \in Ids /\ c.subject \in Subjects
        /\ db.invitation[c.row] # NoRow /\ db'.invitation[c.row] # NoRow
    BY <1>1, HeldStays DEF OnCourse, Accepting
  <2>2. CASE Here(r, <<Do("lockInvitation", <<"invitation", c.row>>)>>, {})
    BY <1>1, <2>1, <2>2 DEF Accepting, Here
  <2>3. CASE PendingInvitation(c.row) /\ Here(r, <<Look("expire")>>, {<<"invitation", c.row>>})
    <3>1. PendingInvitation(c.row)'
      BY <1>1, <2>1, <2>3 DEF Bystander, Here
    <3> QED BY <1>1, <2>1, <2>3, <3>1 DEF Accepting, Here
  <2>4. CASE /\ PendingInvitation(c.row) /\ c.roles = db.invitation[c.row].roles
             /\ AsInvited(r) \/ AsKnown(r)
    <3>1. /\ AsInvited(r)' \/ AsKnown(r)'
          /\ PendingInvitation(c.row)' /\ db'.invitation[c.row] = db.invitation[c.row]
      BY <2>1, <2>4, AsInvitedStays, AsKnownStays
    <3> QED BY <1>1, <2>1, <2>4, <3>1 DEF Accepting
  <2> QED BY <2>1, <2>2, <2>3, <2>4 DEF Accepting
<1>5. c.verb = "register" => Registering(r)'
  BY <1>1, RegisteringStays DEF OnCourse
<1>6. c.verb \in {"approve", "reject"} => (Approving(r) => Approving(r)') /\ (Rejecting(r) => Rejecting(r)')
  <2>1. c.row \in Ids /\ db.request[c.row] # NoRow => db'.request[c.row] # NoRow
    BY HeldStays
  <2>2. <<"request", c.row>> \in locks[r] /\ PendingRequest(c.row) /\ c.row \in Ids =>
          /\ db'.request[c.row] = db.request[c.row] /\ PendingRequest(c.row)'
          /\ db.request[c.row].user # q /\ db.request[c.row].user \in Ids
    BY <1>1 DEF Bystander
  <2>3. c.user \in Ids \ {q} /\ <<"member", c.user>> \in locks[r] => db'.member[c.user] = db.member[c.user]
    BY HeldStays
  <2>4. Asks(r)' <=> Asks(r)
    BY <1>1 DEF Asks
  <2>5. Approving(r) => Approving(r)'
    BY <1>1, <2>1, <2>2, <2>3, <2>4 DEF Approving, Here
  <2>6. Rejecting(r) => Rejecting(r)'
    BY <1>1, <2>1, <2>2, <2>4 DEF Rejecting, Here
  <2> QED BY <2>5, <2>6
<1>7. c.verb = "enroll" => Enrolling(r)'
  BY <1>1 DEF OnCourse, Enrolling, Here
<1>8. c.verb = "activate" => Activating(r)'
  <2>1. c.row \in Ids /\ db.device[c.row] # NoRow =>
          /\ db'.device[c.row] # NoRow /\ db'.device[c.row].user = db.device[c.row].user
          /\ <<"device", c.row>> \in locks[r] => db'.device[c.row] = db.device[c.row]
    BY HeldStays
  <2>2. ApprovalPlan(c.row, c.user)' = ApprovalPlan(c.row, c.user)
    BY <1>1 DEF ApprovalPlan
  <2> QED BY <1>1, <2>1, <2>2 DEF OnCourse, Activating, Here
<1>9. c.verb = "bootstrap" => Bootstrapping(r)'
  BY <1>1 DEF OnCourse, Bootstrapping, Here
<1>10. c.verb \in {"claim", "provision"} => Appointing(r)'
  <2>1. c.subject \in Subjects =>
          /\ db.identity[c.subject] # None => db'.identity[c.subject] = db.identity[c.subject]
          /\ <<"subject", c.subject>> \in locks[r] => db'.identity[c.subject] = db.identity[c.subject]
    BY HeldStays
  <2> QED BY <1>1, <2>1 DEF OnCourse, Appointing, Here, ClaimPlan, ProvisionPlan
<1>11. /\ c.verb = "setKey" => Keying(r)'
       /\ c.verb = "disableKey" => Unkeying(r)'
  <2>1. <<"key">> \in locks[r] => db'.key = db.key
    BY HeldStays
  <2>2. c.verb = "setKey" => Keying(r)'
    BY <1>1, <2>1 DEF OnCourse, Keying, Here
  <2> QED BY <1>1, <2>1, <2>2 DEF OnCourse, Unkeying, Here
<1>12. /\ c.verb = "createTenant" => Founding(r)'
       /\ c.verb = "activateTenant" => Opening(r)'
  <2>1. <<"tenant">> \in locks[r] => db'.tenant = db.tenant
    BY HeldStays
  <2>2. c.verb = "createTenant" => Founding(r)'
    BY <1>1, <2>1 DEF OnCourse, Founding, Here
  <2> QED BY <1>1, <2>1, <2>2 DEF OnCourse, Opening, Here
<1>13. /\ c.verb = "rotateToken" => Rotating(r)'
       /\ c.verb = "disableToken" => Disabling(r)'
  <2>1. db.tenant # "NONE" =>
          db'.tenant # "NONE" /\ (<<"setting">> \in locks[r] => db'.setting = db.setting)
    BY HeldStays
  <2>2. c.verb = "rotateToken" => Rotating(r)'
    BY <1>1 DEF OnCourse, Rotating, Here
  <2> QED BY <1>1, <2>1, <2>2 DEF OnCourse, Disabling, Here
<1>14. c.verb = "configure" => Configuring(r)'
  <2>1. \A x \in Requests : ~Unborn(x) => ~Unborn(x)'
    <3>1. Unborn(q) BY DEF Alone, Unborn
    <3>2. \A x \in Requests \ {q} : pc'[x] = pc[x] BY OthersSame
    <3> QED BY <3>1, <3>2 DEF Unborn
  <2> QED BY <1>1, <2>1 DEF OnCourse, Configuring, Here
<1>15. c.verb = "link" => Linking(r)'
  <2>1. c.user \in Ids /\ db.user[c.user] # "NONE" /\ <<"deleted", c.user>> \in locks[r] =>
          db'.user[c.user] # "NONE"
    BY HeldStays
  <2> QED BY <1>1, <2>1 DEF OnCourse, Linking, Here
<1> QED BY <1>1, <1>2, <1>3, <1>4, <1>5, <1>6, <1>7, <1>8, <1>9, <1>10, <1>11, <1>12, <1>13, <1>14, <1>15
       DEF OnCourse

LEMMA StandingStays ==
  ASSUME CourseInv, NEW q \in Requests, Alone(q), Guarded(q), NEW r \in Requests \ {q}, Standing(r)
  PROVE  Standing(r)'
<1> DEFINE c == call[r]
<1>1. call'[r] = c /\ Unborn(q)
  BY OthersSame DEF Alone, Unborn
<1>2. db.invitation[q] = NoRow /\ db.request[q] = NoRow /\ db.device[q] = NoRow
  BY <1>1, UnbornUnknown DEF NoRowsOf
<1>3. \A x \in Ids : db.invitation[x].status \in {"CANCELLED", "ACCEPTED"} =>
        db'.invitation[x] = db.invitation[x]
  <2> SUFFICES ASSUME NEW x \in Ids, db.invitation[x].status \in {"CANCELLED", "ACCEPTED"}
               PROVE  db'.invitation[x] = db.invitation[x]
    OBVIOUS
  <2>1. x # q
    BY <1>2 DEF NoRow
  <2>2. db.invitation[x].status # "PENDING"
    OBVIOUS
  <2> QED BY <2>1, <2>2 DEF Guarded, GuardedInvitations
<1>4. \A x \in Ids : db.request[x].status \in {"APPROVED", "REJECTED"} =>
        db'.request[x] = db.request[x]
  <2> SUFFICES ASSUME NEW x \in Ids, db.request[x].status \in {"APPROVED", "REJECTED"}
               PROVE  db'.request[x] = db.request[x]
    OBVIOUS
  <2>1. x # q
    BY <1>2 DEF NoRow
  <2>2. db.request[x].status # "PENDING"
    OBVIOUS
  <2> QED BY <2>1, <2>2 DEF Guarded, GuardedRequests
<1>5. \A x \in Ids : db.device[x] # NoRow /\ db.device[x].status = "ACTIVE" =>
        db'.device[x] # NoRow /\ db'.device[x].status = "ACTIVE"
  BY <1>2 DEF Guarded, GuardedDevices
<1>6. db.tenant = "ACTIVE" => db'.tenant = "ACTIVE"
  BY DEF Guarded, GuardedSettings
<1> QED BY <1>1, <1>3, <1>4, <1>5, <1>6 DEF Standing

LEMMA AloneKeepsTypes ==
  ASSUME CourseInv, NEW q \in Requests, Alone(q)
  PROVE  /\ locks' = [r \in Requests |-> locks'[r]]
         /\ pc' \in [Requests -> {"idle", "run"} \cup Outcomes]
         /\ call' = [r \in Requests |-> call'[r]]
         /\ \A r \in Requests : Framed(call'[r])
<1>1. locks = [r \in Requests |-> locks[r]] /\ call = [r \in Requests |-> call[r]]
      /\ pc \in [Requests -> {"idle", "run"} \cup Outcomes]
  BY DEF CourseInv, Typed
<1>2. locks' = [r \in Requests |-> locks'[r]]
  BY <1>1 DEF Alone
<1>3. call' = [r \in Requests |-> call'[r]]
  BY <1>1 DEF Alone
<1>4. pc' \in [Requests -> {"idle", "run"} \cup Outcomes]
  BY <1>1 DEF Alone
<1>5. \A r \in Requests : Framed(call'[r])
  BY OthersSame DEF Alone, CourseInv, Typed
<1> QED BY <1>2, <1>3, <1>4, <1>5

(* The step of one call keeps the invariant, if it is guarded.             *)
LEMMA CourseStep ==
  ASSUME CourseInv, NEW q \in Requests, Alone(q), Guarded(q),
         db' \in Database, ForeignKeys(db'), InStep(db'),
         \A r \in Requests : Unborn(r)' => NoRowsOf(db', r)
  PROVE  CourseInv'
<1>1. Typed'
  <2>1. \A r \in Requests : Framed(call'[r])
    BY AloneKeepsTypes
  <2> QED BY AloneKeepsTypes, <2>1 DEF Typed, Framed
<1>2. Rows'
  BY DEF Rows, ForeignKeys, InStep, NoRowsOf
<1>3. Exclusive'
  <2>1. \A r \in Requests \ {q} : locks'[r] = locks[r] /\ locks'[q] \cap locks[r] \subseteq locks[q]
    BY OthersSame DEF Alone
  <2> QED BY <2>1 DEF CourseInv, Exclusive
<1>4. ASSUME NEW r \in Requests
      PROVE  CallInv(r)'
  <2>1. CASE r = q
    BY <2>1 DEF CallInv, Alone
  <2>2. CASE r # q
    <3>1. call'[r] = call[r] /\ locks'[r] = locks[r] /\ pc'[r] = pc[r] /\ CallInv(r)
      BY <2>2, OthersSame DEF CourseInv
    <3>2. pc[r] = "run" => OnCourse(r)'
      BY <2>2, CourseStays
    <3>3. pc[r] = "ok" => Standing(r)'
      BY <2>2, <3>1, StandingStays DEF CallInv
    <3> QED BY <3>1, <3>2, <3>3 DEF CallInv
  <2> QED BY <2>1, <2>2
<1> QED BY <1>1, <1>2, <1>3, <1>4 DEF CourseInv

-----------------------------------------------------------------------------
(* Calls arrive. *)

LEMMA ArrivalIsQuiet ==
  ASSUME CourseInv, NEW q \in Requests, NEW c, Framed(c), Begin(q, c),
         c.verb \in AllVerbs, call'[q] = c /\ locks'[q] = {} /\ UNCHANGED db => OnCourse(q)'
  PROVE  Quiet(q)
BY Begins

LEMMA InviteQuiet ==
  ASSUME CourseInv, NEW q \in Requests, NEW rs \in SUBSET Roles, Invite(q, rs)
  PROVE  Quiet(q)
<1> DEFINE plan == <<Look("tenantExists"), Finish>>
           c == [Blank EXCEPT !.verb = "invite", !.user = q, !.roles = rs, !.plan = plan]
<1>1. Framed(c) /\ c.verb = "invite" /\ c.plan = plan /\ c.user = q
  BY DEF Framed, Blank, AllVerbs, Ids
<1>2. Begin(q, c)
  BY DEF Invite
<1> HIDE DEF c
<1>3. ASSUME call'[q] = c, locks'[q] = {}, UNCHANGED db
      PROVE  OnCourse(q)'
  BY <1>1, <1>3 DEF OnCourse, Inviting, Here, AllVerbs
<1> QED BY <1>1, <1>2, <1>3, ArrivalIsQuiet DEF AllVerbs

LEMMA CancelQuiet ==
  ASSUME CourseInv, NEW q \in Requests, NEW x \in Ids, db.invitation[x] # NoRow, Cancel(q, x)
  PROVE  Quiet(q)
<1> DEFINE plan == <<Do("lockInvitation", <<"invitation", x>>)>>
           c == [Blank EXCEPT !.verb = "cancel", !.row = x, !.plan = plan]
<1>1. Framed(c) /\ c.verb = "cancel" /\ c.plan = plan /\ c.row = x
  BY DEF Framed, Blank, AllVerbs, Ids
<1>2. Begin(q, c)
  BY DEF Cancel
<1> HIDE DEF c
<1>3. ASSUME call'[q] = c, locks'[q] = {}, UNCHANGED db
      PROVE  OnCourse(q)'
  BY <1>1, <1>3 DEF OnCourse, Cancelling, Here, AllVerbs
<1> QED BY <1>1, <1>2, <1>3, ArrivalIsQuiet DEF AllVerbs

LEMMA AcceptQuiet ==
  ASSUME CourseInv, NEW q \in Requests, NEW x \in Ids, NEW s \in Subjects, db.invitation[x] # NoRow, Accept(q, x, s)
  PROVE  Quiet(q)
<1> DEFINE plan == <<Do("lockInvitation", <<"invitation", x>>)>>
           late == x \in db.due
           c == [Blank EXCEPT !.verb = "accept", !.row = x, !.subject = s, !.late = late, !.plan = plan]
<1>0. late \in BOOLEAN
  OBVIOUS
<1>1. Framed(c) /\ c.verb = "accept" /\ c.plan = plan /\ c.row = x /\ c.subject = s
  <2> HIDE DEF late, plan
  <2> QED BY <1>0 DEF Framed, Blank, AllVerbs, Ids
<1>2. Begin(q, c)
  BY DEF Accept
<1> HIDE DEF c
<1>3. ASSUME call'[q] = c, locks'[q] = {}, UNCHANGED db
      PROVE  OnCourse(q)'
  BY <1>1, <1>3 DEF OnCourse, Accepting, Here, AllVerbs
<1> QED BY <1>1, <1>2, <1>3, ArrivalIsQuiet DEF AllVerbs

LEMMA RegisterQuiet ==
  ASSUME CourseInv, NEW q \in Requests, NEW s \in Subjects, Register(q, s)
  PROVE  Quiet(q)
<1> DEFINE plan == <<Look("token"), Look("findIdentity")>>
           c == [Blank EXCEPT !.verb = "register", !.subject = s, !.version = db.setting.version, !.plan = plan]
<1>0. db.setting.version \in Nat
  <2>1. db.setting \in Settings \cup {NoRow}
    BY DEF CourseInv, Typed, Database
  <2>2. db.setting # NoRow
    BY DEF Register
  <2> QED BY <2>1, <2>2 DEF Settings
<1>1. Framed(c) /\ c.verb = "register" /\ c.plan = plan /\ c.subject = s
  BY <1>0 DEF Framed, Blank, AllVerbs, Ids
<1>2. Begin(q, c)
  BY DEF Register
<1> HIDE DEF c
<1>3. ASSUME call'[q] = c, locks'[q] = {}, UNCHANGED db
      PROVE  OnCourse(q)'
  BY <1>1, <1>3 DEF OnCourse, Registering, Here, AllVerbs
<1> QED BY <1>1, <1>2, <1>3, ArrivalIsQuiet DEF AllVerbs

LEMMA ApproveQuiet ==
  ASSUME CourseInv, NEW q \in Requests, NEW x \in Ids, NEW rs \in SUBSET Roles, db.request[x] # NoRow, Approve(q, x, rs)
  PROVE  Quiet(q)
<1> DEFINE plan == <<Do("lockRequest", <<"request", x>>)>>
           c == [Blank EXCEPT !.verb = "approve", !.row = x, !.roles = rs, !.plan = plan]
<1>1. Framed(c) /\ c.verb = "approve" /\ c.plan = plan /\ c.row = x
  BY DEF Framed, Blank, AllVerbs, Ids
<1>2. Begin(q, c)
  BY DEF Approve
<1> HIDE DEF c
<1>3. ASSUME call'[q] = c, locks'[q] = {}, UNCHANGED db
      PROVE  OnCourse(q)'
  BY <1>1, <1>3 DEF OnCourse, Approving, Here, AllVerbs
<1> QED BY <1>1, <1>2, <1>3, ArrivalIsQuiet DEF AllVerbs

LEMMA RejectQuiet ==
  ASSUME CourseInv, NEW q \in Requests, NEW x \in Ids, db.request[x] # NoRow, Reject(q, x)
  PROVE  Quiet(q)
<1> DEFINE plan == <<Do("lockRequest", <<"request", x>>), Finish>>
           c == [Blank EXCEPT !.verb = "reject", !.row = x, !.plan = plan]
<1>1. Framed(c) /\ c.verb = "reject" /\ c.plan = plan /\ c.row = x
  BY DEF Framed, Blank, AllVerbs, Ids
<1>2. Begin(q, c)
  BY DEF Reject
<1> HIDE DEF c
<1>3. ASSUME call'[q] = c, locks'[q] = {}, UNCHANGED db
      PROVE  OnCourse(q)'
  BY <1>1, <1>3 DEF OnCourse, Rejecting, Here, AllVerbs
<1> QED BY <1>1, <1>2, <1>3, ArrivalIsQuiet DEF AllVerbs

LEMMA EnrollQuiet ==
  ASSUME CourseInv, NEW q \in Requests, NEW u \in Ids, Enroll(q, u)
  PROVE  Quiet(q)
<1> DEFINE plan == <<Do("insertDevice", <<"deleted", u>>)>>
           c == [Blank EXCEPT !.verb = "enroll", !.user = u, !.plan = plan]
<1>1. Framed(c) /\ c.verb = "enroll" /\ c.plan = plan /\ c.user = u
  BY DEF Framed, Blank, AllVerbs, Ids
<1>2. Begin(q, c)
  BY DEF Enroll
<1> HIDE DEF c
<1>3. ASSUME call'[q] = c, locks'[q] = {}, UNCHANGED db
      PROVE  OnCourse(q)'
  BY <1>1, <1>3 DEF OnCourse, Enrolling, Here, AllVerbs
<1> QED BY <1>1, <1>2, <1>3, ArrivalIsQuiet DEF AllVerbs

LEMMA ActivateQuiet ==
  ASSUME CourseInv, NEW q \in Requests, NEW d \in Ids, db.device[d] # NoRow, Activate(q, d)
  PROVE  Quiet(q)
<1> DEFINE plan == ApprovalPlan(d, db.device[d].user)
           c == [Blank EXCEPT !.verb = "activate", !.row = d, !.user = db.device[d].user, !.plan = plan]
<1>0. db.device[d].user \in Ids
  BY DEF CourseInv, Typed, Database, Devices
<1>1. Framed(c) /\ c.verb = "activate" /\ c.plan = plan /\ c.row = d /\ c.user = db.device[d].user
  BY <1>0 DEF Framed, Blank, AllVerbs, Ids
<1>2. Begin(q, c)
  BY DEF Activate
<1> HIDE DEF c
<1>3. ASSUME call'[q] = c, locks'[q] = {}, UNCHANGED db
      PROVE  OnCourse(q)'
  BY <1>1, <1>3 DEF OnCourse, Activating, Here, AllVerbs
<1> QED BY <1>1, <1>2, <1>3, ArrivalIsQuiet DEF AllVerbs

LEMMA BootstrapQuiet ==
  ASSUME CourseInv, NEW q \in Requests, Bootstrap(q)
  PROVE  Quiet(q)
<1> DEFINE plan == <<Look("noAdmin"), Do("insertLogin", <<"login">>), Finish>>
           c == [Blank EXCEPT !.verb = "bootstrap", !.user = q, !.plan = plan]
<1>1. Framed(c) /\ c.verb = "bootstrap" /\ c.plan = plan /\ c.user = q
  BY DEF Framed, Blank, AllVerbs, Ids
<1>2. Begin(q, c)
  BY DEF Bootstrap
<1> HIDE DEF c
<1>3. ASSUME call'[q] = c, locks'[q] = {}, UNCHANGED db
      PROVE  OnCourse(q)'
  BY <1>1, <1>3 DEF OnCourse, Bootstrapping, Here, AllVerbs
<1> QED BY <1>1, <1>2, <1>3, ArrivalIsQuiet DEF AllVerbs

LEMMA ClaimQuiet ==
  ASSUME CourseInv, NEW q \in Requests, NEW s \in Subjects, Claim(q, s)
  PROVE  Quiet(q)
<1> DEFINE plan == ClaimPlan
           c == [Blank EXCEPT !.verb = "claim", !.subject = s, !.plan = plan]
<1>1. Framed(c) /\ c.verb = "claim" /\ c.plan = plan /\ c.subject = s
  BY DEF Framed, Blank, AllVerbs, Ids
<1>2. Begin(q, c)
  BY DEF Claim
<1> HIDE DEF c
<1>3. ASSUME call'[q] = c, locks'[q] = {}, UNCHANGED db
      PROVE  OnCourse(q)'
  BY <1>1, <1>3 DEF OnCourse, Appointing, Here, AllVerbs
<1> QED BY <1>1, <1>2, <1>3, ArrivalIsQuiet DEF AllVerbs

LEMMA ProvisionQuiet ==
  ASSUME CourseInv, NEW q \in Requests, NEW s \in Subjects, Provision(q, s)
  PROVE  Quiet(q)
<1> DEFINE plan == ProvisionPlan
           c == [Blank EXCEPT !.verb = "provision", !.subject = s, !.plan = plan]
<1>1. Framed(c) /\ c.verb = "provision" /\ c.plan = plan /\ c.subject = s
  BY DEF Framed, Blank, AllVerbs, Ids
<1>2. Begin(q, c)
  BY DEF Provision
<1> HIDE DEF c
<1>3. ASSUME call'[q] = c, locks'[q] = {}, UNCHANGED db
      PROVE  OnCourse(q)'
  BY <1>1, <1>3 DEF OnCourse, Appointing, Here, AllVerbs
<1> QED BY <1>1, <1>2, <1>3, ArrivalIsQuiet DEF AllVerbs

LEMMA SetKeyQuiet ==
  ASSUME CourseInv, NEW q \in Requests, SetKey(q)
  PROVE  Quiet(q)
<1> DEFINE plan == <<Do("findKey", <<"key">>), Do("upsert", <<"key">>), Finish>>
           c == [Blank EXCEPT !.verb = "setKey", !.plan = plan]
<1>1. Framed(c) /\ c.verb = "setKey" /\ c.plan = plan
  BY DEF Framed, Blank, AllVerbs, Ids
<1>2. Begin(q, c)
  BY DEF SetKey
<1> HIDE DEF c
<1>3. ASSUME call'[q] = c, locks'[q] = {}, UNCHANGED db
      PROVE  OnCourse(q)'
  BY <1>1, <1>3 DEF OnCourse, Keying, Here, AllVerbs
<1> QED BY <1>1, <1>2, <1>3, ArrivalIsQuiet DEF AllVerbs

LEMMA DisableKeyQuiet ==
  ASSUME CourseInv, NEW q \in Requests, DisableKey(q)
  PROVE  Quiet(q)
<1> DEFINE plan == <<Do("findKey", <<"key">>), Finish>>
           c == [Blank EXCEPT !.verb = "disableKey", !.plan = plan]
<1>1. Framed(c) /\ c.verb = "disableKey" /\ c.plan = plan
  BY DEF Framed, Blank, AllVerbs, Ids
<1>2. Begin(q, c)
  BY DEF DisableKey
<1> HIDE DEF c
<1>3. ASSUME call'[q] = c, locks'[q] = {}, UNCHANGED db
      PROVE  OnCourse(q)'
  BY <1>1, <1>3 DEF OnCourse, Unkeying, Here, AllVerbs
<1> QED BY <1>1, <1>2, <1>3, ArrivalIsQuiet DEF AllVerbs

LEMMA CreateTenantQuiet ==
  ASSUME CourseInv, NEW q \in Requests, CreateTenant(q)
  PROVE  Quiet(q)
<1> DEFINE plan == <<Do("insertTenant", <<"tenant">>), Finish>>
           c == [Blank EXCEPT !.verb = "createTenant", !.plan = plan]
<1>1. Framed(c) /\ c.verb = "createTenant" /\ c.plan = plan
  BY DEF Framed, Blank, AllVerbs, Ids
<1>2. Begin(q, c)
  BY DEF CreateTenant
<1> HIDE DEF c
<1>3. ASSUME call'[q] = c, locks'[q] = {}, UNCHANGED db
      PROVE  OnCourse(q)'
  BY <1>1, <1>3 DEF OnCourse, Founding, Here, AllVerbs
<1> QED BY <1>1, <1>2, <1>3, ArrivalIsQuiet DEF AllVerbs

LEMMA ActivateTenantQuiet ==
  ASSUME CourseInv, NEW q \in Requests, ActivateTenant(q)
  PROVE  Quiet(q)
<1> DEFINE plan == <<Look("tenantBefore"), Do("switchTenant", <<"tenant">>), Finish>>
           c == [Blank EXCEPT !.verb = "activateTenant", !.plan = plan]
<1>1. Framed(c) /\ c.verb = "activateTenant" /\ c.plan = plan
  BY DEF Framed, Blank, AllVerbs, Ids
<1>2. Begin(q, c)
  BY DEF ActivateTenant
<1> HIDE DEF c
<1>3. ASSUME call'[q] = c, locks'[q] = {}, UNCHANGED db
      PROVE  OnCourse(q)'
  BY <1>1, <1>3 DEF OnCourse, Opening, Here, AllVerbs
<1> QED BY <1>1, <1>2, <1>3, ArrivalIsQuiet DEF AllVerbs

LEMMA RotateTokenQuiet ==
  ASSUME CourseInv, NEW q \in Requests, RotateToken(q)
  PROVE  Quiet(q)
<1> DEFINE plan == <<Look("tenantOfToken"), Do("upsert", <<"setting">>), Finish>>
           c == [Blank EXCEPT !.verb = "rotateToken", !.plan = plan]
<1>1. Framed(c) /\ c.verb = "rotateToken" /\ c.plan = plan
  BY DEF Framed, Blank, AllVerbs, Ids
<1>2. Begin(q, c)
  BY DEF RotateToken
<1> HIDE DEF c
<1>3. ASSUME call'[q] = c, locks'[q] = {}, UNCHANGED db
      PROVE  OnCourse(q)'
  BY <1>1, <1>3 DEF OnCourse, Rotating, Here, AllVerbs
<1> QED BY <1>1, <1>2, <1>3, ArrivalIsQuiet DEF AllVerbs

LEMMA DisableTokenQuiet ==
  ASSUME CourseInv, NEW q \in Requests, DisableToken(q)
  PROVE  Quiet(q)
<1> DEFINE plan == <<Look("tenantOfToken"), Do("findSetting", <<"setting">>), Finish>>
           c == [Blank EXCEPT !.verb = "disableToken", !.plan = plan]
<1>1. Framed(c) /\ c.verb = "disableToken" /\ c.plan = plan
  BY DEF Framed, Blank, AllVerbs, Ids
<1>2. Begin(q, c)
  BY DEF DisableToken
<1> HIDE DEF c
<1>3. ASSUME call'[q] = c, locks'[q] = {}, UNCHANGED db
      PROVE  OnCourse(q)'
  BY <1>1, <1>3 DEF OnCourse, Disabling, Here, AllVerbs
<1> QED BY <1>1, <1>2, <1>3, ArrivalIsQuiet DEF AllVerbs

LEMMA ConfigureQuiet ==
  ASSUME CourseInv, NEW q \in Requests, NEW u \in Ids, Configure(q, u)
  PROVE  Quiet(q)
<1> DEFINE plan == <<Do("principal", <<"principal", u>>), Do("user", <<"user", u>>), Finish>>
           c == [Blank EXCEPT !.verb = "configure", !.user = u, !.plan = plan]
<1>1. Framed(c) /\ c.verb = "configure" /\ c.plan = plan /\ c.user = u
  BY DEF Framed, Blank, AllVerbs, Ids
<1>2. Begin(q, c)
  BY DEF Configure
<1> HIDE DEF c
<1>3. ASSUME call'[q] = c, locks'[q] = {}, UNCHANGED db
      PROVE  OnCourse(q)'
  <2>1. u \in Requests \ {q} => ~Unborn(u)'
    <3>1. u \in Requests \ {q} => pc'[u] = pc[u] BY <1>2 DEF Begin
    <3> QED BY <3>1 DEF Configure, CourseInv, Rows, NoRowsOf, Unborn
  <2> QED BY <1>1, <1>3, <2>1 DEF OnCourse, Configuring, Here, AllVerbs
<1> QED BY <1>1, <1>2, <1>3, ArrivalIsQuiet DEF AllVerbs

LEMMA LinkQuiet ==
  ASSUME CourseInv, NEW q \in Requests, NEW u \in Ids, NEW s \in Subjects, Link(q, u, s)
  PROVE  Quiet(q)
<1> DEFINE plan == <<Look("linked"), Do("upsertIdentity", <<"subject", s>>), Do("linkedUser", <<"deleted", u>>), Finish>>
           c == [Blank EXCEPT !.verb = "link", !.user = u, !.subject = s, !.plan = plan]
<1>1. Framed(c) /\ c.verb = "link" /\ c.plan = plan /\ c.user = u /\ c.subject = s
  BY DEF Framed, Blank, AllVerbs, Ids
<1>2. Begin(q, c)
  BY DEF Link
<1> HIDE DEF c
<1>3. ASSUME call'[q] = c, locks'[q] = {}, UNCHANGED db
      PROVE  OnCourse(q)'
  BY <1>1, <1>3 DEF OnCourse, Linking, Here, AllVerbs
<1> QED BY <1>1, <1>2, <1>3, ArrivalIsQuiet DEF AllVerbs

LEMMA ArriveQuiet ==
  ASSUME CourseInv, NEW q \in Requests, Arrive(q)
  PROVE  Quiet(q)
<1>1. CASE BeginOnboarding(q)
  BY <1>1, InviteQuiet, CancelQuiet, AcceptQuiet, RegisterQuiet, ApproveQuiet, RejectQuiet
     DEF BeginOnboarding
<1>2. CASE BeginDevice(q)
  BY <1>2, EnrollQuiet, ActivateQuiet DEF BeginDevice
<1>3. CASE BeginSetup(q)
  BY <1>3, BootstrapQuiet, ClaimQuiet, ProvisionQuiet, SetKeyQuiet, DisableKeyQuiet,
     CreateTenantQuiet, ActivateTenantQuiet, RotateTokenQuiet, DisableTokenQuiet DEF BeginSetup
<1>4. CASE BeginAdministration(q)
  BY <1>4, ConfigureQuiet, LinkQuiet DEF BeginAdministration
<1> QED BY <1>1, <1>2, <1>3, <1>4 DEF Arrive
-----------------------------------------------------------------------------
(* The statements that write nothing. *)

(* A step is the one of the statement that is next. *)
LEMMA ByName ==
  ASSUME NEW q, Run(q), NEW n, n = Statement(q).name, NEW v, v = call[q].verb
  PROVE  /\ (n = "user" => WriteUser(q)) /\ (n = "insertIdentity" => InsertIdentity(q))
         /\ (n = "tenantExists" => TenantExists(q)) /\ (n = "lockInvitation" => LockInvitation(q))
         /\ (n = "expire" => ExpireInvitation(q)) /\ (n = "member" => TouchMember(q))
         /\ (n = "noMembership" => NoMembership(q)) /\ (n = "insertMember" => InsertMember(q))
         /\ (n = "dropInvited" => DropInvited(q)) /\ (n = "dropPrincipal" => DropPrincipal(q))
         /\ (n = "access" => ValidateAccess(q)) /\ (n = "token" => CheckToken(q))
         /\ (n = "findMember" => FindMember(q)) /\ (n = "findRequest" => FindRequest(q))
         /\ (n = "insertRequest" => InsertRequest(q)) /\ (n = "asItWas" => CommitAsItWas(q))
         /\ (n = "lockRequest" => LockRequest(q)) /\ (n = "memberOfRequest" => LockMemberOfRequest(q))
         /\ (n = "insertDevice" => InsertDevice(q)) /\ (n = "membershipInForce" => LockMembership(q))
         /\ (n = "pendingDevice" => LockPendingDevice(q)) /\ (n = "count" => CountDevices(q))
         /\ (n = "enrolment" => LockEnrolment(q)) /\ (n = "advisoryLock" => AdvisoryLock(q))
         /\ (n = "noAdmin" => NoAdmin(q)) /\ (n = "insertLogin" => InsertLogin(q))
         /\ (n = "insertAdmin" => InsertAdmin(q)) /\ (n = "findClaimant" => FindClaimant(q))
         /\ (n = "findProvisioned" => FindProvisioned(q)) /\ (n = "findKey" => FindKey(q))
         /\ (n = "upsert" => Upsert(q)) /\ (n = "insertTenant" => InsertTenant(q))
         /\ (n = "tenantBefore" => TenantBefore(q)) /\ (n = "switchTenant" => SwitchTenant(q))
         /\ (n = "tenantOfToken" => TenantOfToken(q)) /\ (n = "findSetting" => FindSetting(q))
         /\ (n = "principal" => FindPrincipal(q)) /\ (n = "linked" => ReadLinked(q))
         /\ (n = "upsertIdentity" => UpsertIdentity(q)) /\ (n = "linkedUser" => CheckLinkedUser(q))
         /\ (n = "findIdentity" /\ v = "accept" => FindInvitedIdentity(q)) /\ (n = "findIdentity" /\ v = "register" => FindOwnIdentity(q))
         /\ (n = "commit" /\ v = "invite" => CommitInvite(q)) /\ (n = "commit" /\ v = "cancel" => CommitCancel(q))
         /\ (n = "commit" /\ v = "accept" => CommitAccept(q)) /\ (n = "commit" /\ v = "register" => CommitRegister(q))
         /\ (n = "commit" /\ v = "approve" => CommitApprove(q)) /\ (n = "commit" /\ v = "reject" => CommitReject(q))
         /\ (n = "commit" /\ v = "activate" => CommitActivate(q)) /\ (n = "commit" /\ v = "bootstrap" => CommitBootstrap(q))
         /\ (n = "commit" /\ v = "setKey" => CommitSetKey(q)) /\ (n = "commit" /\ v = "disableKey" => CommitDisableKey(q))
         /\ (n = "commit" /\ v = "createTenant" => CommitCreateTenant(q)) /\ (n = "commit" /\ v = "activateTenant" => CommitActivateTenant(q))
         /\ (n = "commit" /\ v = "rotateToken" => CommitRotateToken(q)) /\ (n = "commit" /\ v = "disableToken" => CommitDisableToken(q))
         /\ (n = "commit" /\ v = "configure" => CommitConfigure(q)) /\ (n = "commit" /\ v = "link" => CommitLink(q))
         /\ (n = "commit" /\ v \in {"claim", "provision"} => CommitAdmin(q))
<1>1. /\ (WriteUser(q) => n = "user") /\ (InsertIdentity(q) => n = "insertIdentity")
      /\ (TenantExists(q) => n = "tenantExists") /\ (LockInvitation(q) => n = "lockInvitation")
      /\ (ExpireInvitation(q) => n = "expire") /\ (TouchMember(q) => n = "member")
      /\ (NoMembership(q) => n = "noMembership") /\ (InsertMember(q) => n = "insertMember")
      /\ (DropInvited(q) => n = "dropInvited") /\ (DropPrincipal(q) => n = "dropPrincipal")
      /\ (ValidateAccess(q) => n = "access") /\ (CheckToken(q) => n = "token")
      /\ (FindMember(q) => n = "findMember") /\ (FindRequest(q) => n = "findRequest")
      /\ (InsertRequest(q) => n = "insertRequest") /\ (CommitAsItWas(q) => n = "asItWas")
      /\ (LockRequest(q) => n = "lockRequest") /\ (LockMemberOfRequest(q) => n = "memberOfRequest")
      /\ (InsertDevice(q) => n = "insertDevice") /\ (LockMembership(q) => n = "membershipInForce")
      /\ (LockPendingDevice(q) => n = "pendingDevice") /\ (CountDevices(q) => n = "count")
      /\ (LockEnrolment(q) => n = "enrolment") /\ (AdvisoryLock(q) => n = "advisoryLock")
      /\ (NoAdmin(q) => n = "noAdmin") /\ (InsertLogin(q) => n = "insertLogin")
      /\ (InsertAdmin(q) => n = "insertAdmin") /\ (FindClaimant(q) => n = "findClaimant")
      /\ (FindProvisioned(q) => n = "findProvisioned") /\ (FindKey(q) => n = "findKey")
      /\ (Upsert(q) => n = "upsert") /\ (InsertTenant(q) => n = "insertTenant")
      /\ (TenantBefore(q) => n = "tenantBefore") /\ (SwitchTenant(q) => n = "switchTenant")
      /\ (TenantOfToken(q) => n = "tenantOfToken") /\ (FindSetting(q) => n = "findSetting")
      /\ (FindPrincipal(q) => n = "principal") /\ (ReadLinked(q) => n = "linked")
      /\ (UpsertIdentity(q) => n = "upsertIdentity") /\ (CheckLinkedUser(q) => n = "linkedUser")
  BY DEF At, Take, Insert, WriteUser, InsertIdentity, TenantExists, LockInvitation, ExpireInvitation, TouchMember, NoMembership, InsertMember, DropInvited, DropPrincipal, ValidateAccess, CheckToken, FindMember, FindRequest, InsertRequest, CommitAsItWas, LockRequest, LockMemberOfRequest, InsertDevice, LockMembership, LockPendingDevice, CountDevices, LockEnrolment, AdvisoryLock, NoAdmin, InsertLogin, InsertAdmin, FindClaimant, FindProvisioned, FindKey, Upsert, InsertTenant, TenantBefore, SwitchTenant, TenantOfToken, FindSetting, FindPrincipal, ReadLinked, UpsertIdentity, CheckLinkedUser
<1>2. /\ (FindInvitedIdentity(q) => n = "findIdentity" /\ v = "accept") /\ (FindOwnIdentity(q) => n = "findIdentity" /\ v = "register")
      /\ (CommitAdmin(q) => n = "commit" /\ v \in {"claim", "provision"}) /\ (CommitInvite(q) => n = "commit" /\ v = "invite")
      /\ (CommitCancel(q) => n = "commit" /\ v = "cancel") /\ (CommitAccept(q) => n = "commit" /\ v = "accept")
      /\ (CommitRegister(q) => n = "commit" /\ v = "register") /\ (CommitApprove(q) => n = "commit" /\ v = "approve")
      /\ (CommitReject(q) => n = "commit" /\ v = "reject") /\ (CommitActivate(q) => n = "commit" /\ v = "activate")
      /\ (CommitBootstrap(q) => n = "commit" /\ v = "bootstrap") /\ (CommitSetKey(q) => n = "commit" /\ v = "setKey")
      /\ (CommitDisableKey(q) => n = "commit" /\ v = "disableKey") /\ (CommitCreateTenant(q) => n = "commit" /\ v = "createTenant")
      /\ (CommitActivateTenant(q) => n = "commit" /\ v = "activateTenant") /\ (CommitRotateToken(q) => n = "commit" /\ v = "rotateToken")
      /\ (CommitDisableToken(q) => n = "commit" /\ v = "disableToken") /\ (CommitConfigure(q) => n = "commit" /\ v = "configure")
      /\ (CommitLink(q) => n = "commit" /\ v = "link")
  BY DEF At, Committing, FindInvitedIdentity, FindOwnIdentity, CommitAdmin, CommitInvite, CommitCancel, CommitAccept, CommitRegister, CommitApprove, CommitReject, CommitActivate, CommitBootstrap, CommitSetKey, CommitDisableKey, CommitCreateTenant, CommitActivateTenant, CommitRotateToken, CommitDisableToken, CommitConfigure, CommitLink
<1> QED BY <1>1, <1>2 DEF Run, RunOnboarding, RunDevice, RunSetup, RunAdministration

(* Call q has gone on: what is left, what it holds and what it has found.  *)
Forward(q, rest, held, u, rs, v) ==
  /\ UNCHANGED <<db, pc>> /\ pc'[q] = "run"
  /\ call'[q].plan = rest /\ locks'[q] = held
  /\ call'[q].verb = call[q].verb /\ call'[q].row = call[q].row
  /\ call'[q].subject = call[q].subject
  /\ call'[q].user = u /\ call'[q].roles = rs /\ call'[q].version = v
  /\ OnCourse(q)' => Quiet(q)

LEMMA Moves ==
  ASSUME CourseInv, NEW q \in Requests, pc[q] = "run", NEW d, Framed(d),
         d.verb = call[q].verb, d.row = call[q].row, d.subject = call[q].subject, NEW t
  PROVE  /\ See(q, d) => Forward(q, d.plan, locks[q], d.user, d.roles, d.version)
         /\ Free(q) /\ Wanted(q) = t /\ Go(q, d) =>
              Forward(q, d.plan, locks[q] \cup t, d.user, d.roles, d.version)
<1>1. See(q, d) \/ Go(q, d) => UNCHANGED pc
  BY DEF See, Go
<1> QED BY <1>1, Goes DEF Forward

(* It has run its statement, and goes on with the next or as d says. *)
LEMMA Sees ==
  ASSUME CourseInv, NEW q \in Requests, pc[q] = "run", NEW rest
  PROVE  /\ See(q, Next1(call[q])) /\ Tail(call[q].plan) = rest =>
              Forward(q, rest, locks[q], call[q].user, call[q].roles, call[q].version)
         /\ See(q, Then(call[q], rest)) =>
              Forward(q, rest, locks[q], call[q].user, call[q].roles, call[q].version)
<1> DEFINE c == call[q]
           c1 == Next1(c)
           c2 == Then(c, rest)
<1>1. Framed(c)
  BY DEF CourseInv, Typed
<1>2. /\ Framed(c1) /\ c1.verb = c.verb /\ c1.row = c.row /\ c1.subject = c.subject
      /\ c1.plan = Tail(c.plan) /\ c1.user = c.user /\ c1.roles = c.roles /\ c1.version = c.version
  BY <1>1 DEF Framed, Next1
<1>3. /\ Framed(c2) /\ c2.verb = c.verb /\ c2.row = c.row /\ c2.subject = c.subject
      /\ c2.plan = rest /\ c2.user = c.user /\ c2.roles = c.roles /\ c2.version = c.version
  BY <1>1 DEF Framed, Then
<1> HIDE DEF c1, c2
<1>4. See(q, c1) => Forward(q, Tail(c.plan), locks[q], c.user, c.roles, c.version)
  BY <1>2, Moves
<1>5. See(q, c2) => Forward(q, rest, locks[q], c.user, c.roles, c.version)
  BY <1>3, Moves
<1> QED BY <1>4, <1>5 DEF c1, c2

(* What a statement waits for, and the call then holds. *)
LEMMA Gains ==
  ASSUME NEW q, NEW n, n \notin {"findMember", "membershipInForce", "findKey", "findSetting"},
         NEW t \in Things, Statement(q) = Do(n, t)
  PROVE  Wanted(q) = {t}
BY StatementsAre, Wants

LEMMA Gets ==
  ASSUME CourseInv, NEW q \in Requests, pc[q] = "run", NEW rest, NEW held, locks[q] \cup Wanted(q) = held
  PROVE  /\ Free(q) /\ Go(q, Next1(call[q])) /\ Tail(call[q].plan) = rest =>
              Forward(q, rest, held, call[q].user, call[q].roles, call[q].version)
         /\ Free(q) /\ Go(q, Then(call[q], rest)) =>
              Forward(q, rest, held, call[q].user, call[q].roles, call[q].version)
<1> DEFINE c == call[q]
           c1 == Next1(c)
           c2 == Then(c, rest)
<1>1. Framed(c)
  BY DEF CourseInv, Typed
<1>2. /\ Framed(c1) /\ c1.verb = c.verb /\ c1.row = c.row /\ c1.subject = c.subject
      /\ c1.plan = Tail(c.plan) /\ c1.user = c.user /\ c1.roles = c.roles /\ c1.version = c.version
  BY <1>1 DEF Framed, Next1
<1>3. /\ Framed(c2) /\ c2.verb = c.verb /\ c2.row = c.row /\ c2.subject = c.subject
      /\ c2.plan = rest /\ c2.user = c.user /\ c2.roles = c.roles /\ c2.version = c.version
  BY <1>1 DEF Framed, Then
<1> HIDE DEF c1, c2
<1>4. Free(q) /\ Go(q, c1) => Forward(q, Tail(c.plan), held, c.user, c.roles, c.version)
  BY <1>2, Moves
<1>5. Free(q) /\ Go(q, c2) => Forward(q, rest, held, c.user, c.roles, c.version)
  BY <1>3, Moves
<1> QED BY <1>4, <1>5 DEF c1, c2

(* With another user and roles. *)
LEMMA Decides ==
  ASSUME CourseInv, NEW q \in Requests, pc[q] = "run", NEW d, Framed(d),
         d.verb = call[q].verb, d.row = call[q].row, d.subject = call[q].subject, NEW rest
  PROVE  /\ See(q, Then(d, rest)) =>
              Forward(q, rest, locks[q], d.user, d.roles, d.version)
         /\ Free(q) /\ Go(q, Then(d, rest)) =>
              Forward(q, rest, locks[q] \cup Wanted(q), d.user, d.roles, d.version)
<1> DEFINE c == call[q]
           e == Then(d, rest)
<1>1. /\ Framed(e) /\ e.verb = c.verb /\ e.row = c.row /\ e.subject = c.subject
      /\ e.plan = rest /\ e.user = d.user /\ e.roles = d.roles /\ e.version = d.version
  BY DEF Framed, Then
<1> HIDE DEF e
<1>2. /\ See(q, e) => Forward(q, rest, locks[q], d.user, d.roles, d.version)
      /\ Free(q) /\ Go(q, e) => Forward(q, rest, locks[q] \cup Wanted(q), d.user, d.roles, d.version)
  BY <1>1, Moves
<1> QED BY <1>2 DEF e

(* One has the user u now. *)
LEMMA Assigned ==
  ASSUME CourseInv, NEW q \in Requests, NEW u \in Ids \cup {None}
  PROVE  LET c == call[q]
             d == [c EXCEPT !.user = u]
         IN  /\ Framed(d) /\ d.verb = c.verb /\ d.row = c.row /\ d.subject = c.subject
             /\ d.user = u /\ d.roles = c.roles /\ d.version = c.version
BY DEF CourseInv, Typed, Framed

LEMMA BootstrapRuns ==
  ASSUME CourseInv, NEW q \in Requests, pc[q] = "run", call[q].verb = "bootstrap", Run(q)
  PROVE  Quiet(q) \/ (CommitBootstrap(q) /\ Here(q, <<Finish>>, {<<"login">>}))
<1> DEFINE c == call[q]
           login == <<"login">>
           insert == Do("insertLogin", login)
<1>1. Bootstrapping(q)
  BY DEF CourseInv, CallInv, OnCourse
<1>2. CASE Here(q, <<Look("noAdmin"), insert, Finish>>, {})
  <2>1. Statement(q) = Look("noAdmin") /\ Tail(c.plan) = <<insert, Finish>> /\ locks[q] = {}
    BY <1>2, HereIsThree
  <2>2. NoAdmin(q)
    BY <2>1, ByName, StatementsAre
  <2>3. Leave(q, "unchanged") \/ See(q, Next1(c))
    BY <2>2 DEF NoAdmin
  <2>4. See(q, Next1(c)) => Forward(q, <<insert, Finish>>, {}, c.user, c.roles, c.version)
    BY <2>1, Sees
  <2>5. Forward(q, <<insert, Finish>>, {}, c.user, c.roles, c.version) => Quiet(q)
    BY DEF Forward, OnCourse, Bootstrapping, Here, AllVerbs
  <2> QED BY <2>3, <2>4, <2>5, Leaves DEF Outcomes
<1>3. CASE Here(q, <<insert, Finish>>, {})
  <2>1. Statement(q) = insert /\ Tail(c.plan) = <<Finish>> /\ locks[q] = {}
    BY <1>3, HereIsTwo
  <2>2. InsertLogin(q)
    BY <2>1, ByName, StatementsAre
  <2>3. locks[q] \cup Wanted(q) = {login}
    BY <2>1, Gains, ThingsAre
  <2>4. Leave(q, "conflict") \/ (Free(q) /\ Go(q, Next1(c)))
    BY <2>2 DEF InsertLogin, Insert
  <2>5. Free(q) /\ Go(q, Next1(c)) => Forward(q, <<Finish>>, {login}, c.user, c.roles, c.version)
    BY <2>1, <2>3, Gets
  <2>6. Forward(q, <<Finish>>, {login}, c.user, c.roles, c.version) => Quiet(q)
    BY DEF Forward, OnCourse, Bootstrapping, Here, AllVerbs
  <2> QED BY <2>4, <2>5, <2>6, Leaves DEF Outcomes
<1>4. CASE Here(q, <<Finish>>, {login})
  <2>1. Statement(q) = Finish
    BY <1>4, HereIsOne
  <2> QED BY <1>4, <2>1, ByName, StatementsAre
<1> QED BY <1>1, <1>2, <1>3, <1>4 DEF Bootstrapping

LEMMA InviteRuns ==
  ASSUME CourseInv, NEW q \in Requests, pc[q] = "run", call[q].verb = "invite", Run(q)
  PROVE  Quiet(q) \/ (CommitInvite(q) /\ call[q].user = q /\ locks[q] = {})
<1> DEFINE c == call[q]
<1>1. Inviting(q)
  BY DEF CourseInv, CallInv, OnCourse
<1>2. CASE Here(q, <<Look("tenantExists"), Finish>>, {})
  <2>1. Statement(q) = Look("tenantExists") /\ Tail(c.plan) = <<Finish>> /\ locks[q] = {}
    BY <1>2, HereIsTwo
  <2>2. TenantExists(q)
    BY <2>1, ByName, StatementsAre
  <2>3. Leave(q, "denied") \/ (See(q, Next1(c)))
    BY <1>1, <1>2, <2>1, <2>2 DEF TenantExists
  <2>4. See(q, Next1(c)) =>
          Forward(q, <<Finish>>, {}, c.user, c.roles, c.version)
    BY <2>1, Sees
  <2>5. Forward(q, <<Finish>>, {}, c.user, c.roles, c.version)
          => Quiet(q)
    BY <1>1, <1>2 DEF Forward, OnCourse, Inviting, Here, AllVerbs
  <2> QED BY <2>3, <2>4, <2>5, Leaves DEF Outcomes
<1>3. CASE Here(q, <<Finish>>, {})
  <2>1. Statement(q) = Finish
    BY <1>3, HereIsOne
  <2> QED BY <1>1, <1>3, <2>1, ByName, StatementsAre DEF Inviting, Here
<1> QED BY <1>1, <1>2, <1>3 DEF Inviting

LEMMA ApproveRuns ==
  ASSUME CourseInv, NEW q \in Requests, pc[q] = "run", call[q].verb = "approve", Run(q)
  PROVE  Quiet(q) \/ (CommitApprove(q) /\ PendingRequest(call[q].row) /\ call[q].user = db.request[call[q].row].user
                     /\ ~Asks(q) /\ call[q].row \in Ids /\ db.member[call[q].user] = "PENDING"
                     /\ locks[q] = {<<"request", call[q].row>>, <<"member", call[q].user>>})
<1> DEFINE c == call[q]
           u == db.request[c.row].user
           request == <<"request", c.row>>
           member == <<"member", c.user>>
           memberOfU == <<"member", u>>
<1>1. /\ Approving(q) /\ c.row \in Ids /\ db.request[c.row] # NoRow
      /\ u \in Ids /\ c.roles \in SUBSET Roles
  BY DEF CourseInv, CallInv, OnCourse, Approving, Typed, Framed, Database, SelfRequests
<1>2. CASE Here(q, <<Do("lockRequest", request)>>, {})
  <2>1. Statement(q) = Do("lockRequest", request) /\ Tail(c.plan) = <<>> /\ locks[q] = {}
    BY <1>2, HereIsOne
  <2>2. LockRequest(q)
    BY <2>1, ByName, StatementsAre
  <2>3. request \in Things
    BY <1>1, ThingsAre
  <2>4. Wanted(q) = {request}
    BY <2>1, <2>3, Gains
  <2>5. locks[q] \cup Wanted(q) = {request}
    BY <2>1, <2>4
  <2>6. Leave(q, "denied") \/ (PendingRequest(c.row) /\ ~Asks(q) /\ Free(q) /\ Go(q, Then([c EXCEPT !.user = u], <<Do("memberOfRequest", memberOfU), Finish>>)))
    BY <1>1, <1>2, <2>1, <2>2 DEF LockRequest, PendingRequest, Asks
  <2>7. Free(q) /\ Go(q, Then([c EXCEPT !.user = u], <<Do("memberOfRequest", memberOfU), Finish>>)) =>
          Forward(q, <<Do("memberOfRequest", memberOfU), Finish>>, {request}, u, c.roles, c.version)
    <3> DEFINE d == [c EXCEPT !.user = u]
    <3>1. /\ Framed(d) /\ d.verb = c.verb /\ d.row = c.row /\ d.subject = c.subject
          /\ d.user = u /\ d.roles = c.roles /\ d.version = c.version
      BY <1>1, Assigned
    <3> HIDE DEF d
    <3>2. Free(q) /\ Go(q, Then(d, <<Do("memberOfRequest", memberOfU), Finish>>)) =>
            Forward(q, <<Do("memberOfRequest", memberOfU), Finish>>, {request}, u, c.roles, c.version)
      BY <2>1, <2>5, <3>1, Decides
    <3> QED BY <3>2 DEF d
  <2>8. PendingRequest(c.row) /\ ~Asks(q) /\ Forward(q, <<Do("memberOfRequest", memberOfU), Finish>>, {request}, u, c.roles, c.version)
          => Quiet(q)
    BY <1>1, <1>2 DEF Forward, OnCourse, Approving, Here, AllVerbs, Asks, PendingRequest
  <2> QED BY <2>6, <2>7, <2>8, Leaves DEF Outcomes
<1>3. CASE PendingRequest(c.row) /\ ~Asks(q) /\ c.user = u /\ Here(q, <<Do("memberOfRequest", member), Finish>>, {request})
  <2>1. Statement(q) = Do("memberOfRequest", member) /\ Tail(c.plan) = <<Finish>> /\ locks[q] = {request}
    <3>1. Here(q, <<Do("memberOfRequest", member), Finish>>, {request})
      BY <1>3
    <3> QED BY <3>1, HereIsTwo
  <2>2. LockMemberOfRequest(q)
    BY <2>1, ByName, StatementsAre
  <2>3. member \in Things
    BY <1>1, <1>3, ThingsAre
  <2>4. Wanted(q) = {member}
    BY <2>1, <2>3, Gains
  <2>5. locks[q] \cup Wanted(q) = {request, member}
    BY <2>1, <2>4
  <2>6. Leave(q, "denied") \/ (db.member[c.user] = "PENDING" /\ Free(q) /\ Go(q, Next1(c)))
    BY <1>1, <1>3, <2>1, <2>2 DEF LockMemberOfRequest
  <2>7. Free(q) /\ Go(q, Next1(c)) =>
          Forward(q, <<Finish>>, {request, member}, c.user, c.roles, c.version)
    BY <2>1, <2>5, Gets
  <2>8. db.member[c.user] = "PENDING" /\ Forward(q, <<Finish>>, {request, member}, c.user, c.roles, c.version)
          => Quiet(q)
    BY <1>1, <1>3 DEF Forward, OnCourse, Approving, Here, AllVerbs, Asks, PendingRequest
  <2> QED BY <2>6, <2>7, <2>8, Leaves DEF Outcomes
<1>4. CASE PendingRequest(c.row) /\ ~Asks(q) /\ c.user = u /\ db.member[c.user] = "PENDING" /\ Here(q, <<Finish>>, {request, member})
  <2>1. Statement(q) = Finish
    BY <1>4, HereIsOne
  <2> QED BY <1>1, <1>4, <2>1, ByName, StatementsAre DEF Here
<1> QED BY <1>1, <1>2, <1>3, <1>4 DEF Approving

LEMMA RejectRuns ==
  ASSUME CourseInv, NEW q \in Requests, pc[q] = "run", call[q].verb = "reject", Run(q)
  PROVE  Quiet(q) \/ (CommitReject(q) /\ PendingRequest(call[q].row) /\ call[q].row \in Ids
                     /\ locks[q] = {<<"request", call[q].row>>})
<1> DEFINE c == call[q]
           request == <<"request", c.row>>
<1>1. Rejecting(q) /\ c.row \in Ids /\ db.request[c.row] # NoRow
  BY DEF CourseInv, CallInv, OnCourse, Rejecting
<1>2. CASE Here(q, <<Do("lockRequest", request), Finish>>, {})
  <2>1. Statement(q) = Do("lockRequest", request) /\ Tail(c.plan) = <<Finish>> /\ locks[q] = {}
    BY <1>2, HereIsTwo
  <2>2. LockRequest(q)
    BY <2>1, ByName, StatementsAre
  <2>3. request \in Things
    BY <1>1, ThingsAre
  <2>4. Wanted(q) = {request}
    BY <2>1, <2>3, Gains
  <2>5. locks[q] \cup Wanted(q) = {request}
    BY <2>1, <2>4
  <2>6. Leave(q, "denied") \/ (PendingRequest(c.row) /\ ~Asks(q) /\ Free(q) /\ Go(q, Next1(c)))
    BY <1>1, <1>2, <2>1, <2>2 DEF LockRequest, PendingRequest, Asks
  <2>7. Free(q) /\ Go(q, Next1(c)) =>
          Forward(q, <<Finish>>, {request}, c.user, c.roles, c.version)
    BY <2>1, <2>5, Gets
  <2>8. PendingRequest(c.row) /\ ~Asks(q) /\ Forward(q, <<Finish>>, {request}, c.user, c.roles, c.version)
          => Quiet(q)
    BY <1>1, <1>2 DEF Forward, OnCourse, Rejecting, Here, AllVerbs, Asks, PendingRequest
  <2> QED BY <2>6, <2>7, <2>8, Leaves DEF Outcomes
<1>3. CASE PendingRequest(c.row) /\ ~Asks(q) /\ Here(q, <<Finish>>, {request})
  <2>1. Statement(q) = Finish
    BY <1>3, HereIsOne
  <2> QED BY <1>1, <1>3, <2>1, ByName, StatementsAre DEF Here
<1> QED BY <1>1, <1>2, <1>3 DEF Rejecting

LEMMA EnrollRuns ==
  ASSUME CourseInv, NEW q \in Requests, pc[q] = "run", call[q].verb = "enroll", Run(q)
  PROVE  InsertDevice(q) /\ call[q].user \in Ids
<1> DEFINE c == call[q]
           deleted == <<"deleted", c.user>>
<1>1. Enrolling(q)
  BY DEF CourseInv, CallInv, OnCourse
<1>2. CASE Here(q, <<Do("insertDevice", deleted)>>, {})
  <2>1. Statement(q) = Do("insertDevice", deleted)
    BY <1>2, HereIsOne
  <2> QED BY <1>1, <1>2, <2>1, ByName, StatementsAre DEF Enrolling
<1> QED BY <1>1, <1>2 DEF Enrolling

LEMMA ActivateRuns ==
  ASSUME CourseInv, NEW q \in Requests, pc[q] = "run", call[q].verb = "activate", Run(q)
  PROVE  Quiet(q) \/ (CommitActivate(q) /\ call[q].row \in Ids /\ db.device[call[q].row] # NoRow
                     /\ call[q].user = db.device[call[q].row].user /\ db.device[call[q].row].status = "PENDING"
                     /\ <<"device", call[q].row>> \in locks[q])
<1> DEFINE c == call[q]
           member == <<"member", c.user>>
           device == <<"device", c.row>>
           enrolment == <<"enrolment", c.row>>
           force == Do("membershipInForce", member)
           pending == Do("pendingDevice", device)
           last == Do("enrolment", enrolment)
<1>1. Activating(q) /\ c.row \in Ids /\ db.device[c.row] # NoRow /\ c.user = db.device[c.row].user /\ c.user \in Ids
  BY DEF CourseInv, CallInv, OnCourse, Activating, Typed, Database, Devices
<1>2. CASE Here(q, <<force, pending, Look("count"), last, Finish>>, {})
  <2>1. Statement(q) = force /\ Tail(c.plan) = <<pending, Look("count"), last, Finish>> /\ locks[q] = {}
    BY <1>2, HereIsFive
  <2>2. LockMembership(q)
    BY <2>1, ByName, StatementsAre
  <2>3. member \in Things
    BY <1>1, ThingsAre
  <2>4. db.member[c.user] = "ACTIVE" => Wanted(q) = {member}
    BY <2>1, <2>3, StatementsAre, NamesAssumption DEF Wanted, NoSuchRow
  <2>5. db.member[c.user] = "ACTIVE" => locks[q] \cup Wanted(q) = {member}
    BY <2>1, <2>4
  <2>6. Leave(q, "denied") \/ (db.member[c.user] = "ACTIVE" /\ Free(q) /\ Go(q, Next1(c)))
    BY <1>1, <1>2, <2>1, <2>2 DEF LockMembership
  <2>7. db.member[c.user] = "ACTIVE" /\ Free(q) /\ Go(q, Next1(c)) =>
          Forward(q, <<pending, Look("count"), last, Finish>>, {member}, c.user, c.roles, c.version)
    BY <2>1, <2>5, Gets
  <2>8. Forward(q, <<pending, Look("count"), last, Finish>>, {member}, c.user, c.roles, c.version)
          => Quiet(q)
    BY <1>1, <1>2 DEF Forward, OnCourse, Activating, Here, AllVerbs
  <2> QED BY <2>6, <2>7, <2>8, Leaves DEF Outcomes
<1>3. CASE Here(q, <<pending, Look("count"), last, Finish>>, {member})
  <2>1. Statement(q) = pending /\ Tail(c.plan) = <<Look("count"), last, Finish>> /\ locks[q] = {member}
    BY <1>3, HereIsFour
  <2>2. LockPendingDevice(q)
    BY <2>1, ByName, StatementsAre
  <2>3. device \in Things
    BY <1>1, ThingsAre
  <2>4. Wanted(q) = {device}
    BY <2>1, <2>3, Gains
  <2>5. locks[q] \cup Wanted(q) = {member, device}
    BY <2>1, <2>4
  <2>6. Leave(q, "unchanged") \/ (db.device[c.row].status = "PENDING" /\ Free(q) /\ Go(q, Next1(c)))
    BY <1>1, <1>3, <2>1, <2>2 DEF LockPendingDevice
  <2>7. Free(q) /\ Go(q, Next1(c)) =>
          Forward(q, <<Look("count"), last, Finish>>, {member, device}, c.user, c.roles, c.version)
    BY <2>1, <2>5, Gets
  <2>8. db.device[c.row].status = "PENDING" /\ Forward(q, <<Look("count"), last, Finish>>, {member, device}, c.user, c.roles, c.version)
          => Quiet(q)
    BY <1>1, <1>3 DEF Forward, OnCourse, Activating, Here, AllVerbs
  <2> QED BY <2>6, <2>7, <2>8, Leaves DEF Outcomes
<1>4. CASE db.device[c.row].status = "PENDING" /\ Here(q, <<Look("count"), last, Finish>>, {member, device})
  <2>1. Statement(q) = Look("count") /\ Tail(c.plan) = <<last, Finish>> /\ locks[q] = {member, device}
    <3>1. Here(q, <<Look("count"), last, Finish>>, {member, device})
      BY <1>4
    <3> QED BY <3>1, HereIsThree
  <2>2. CountDevices(q)
    BY <2>1, ByName, StatementsAre
  <2>3. Leave(q, "denied") \/ (See(q, Next1(c)))
    BY <1>1, <1>4, <2>1, <2>2 DEF CountDevices
  <2>4. See(q, Next1(c)) =>
          Forward(q, <<last, Finish>>, {member, device}, c.user, c.roles, c.version)
    BY <2>1, Sees
  <2>5. Forward(q, <<last, Finish>>, {member, device}, c.user, c.roles, c.version)
          => Quiet(q)
    BY <1>1, <1>4 DEF Forward, OnCourse, Activating, Here, AllVerbs
  <2> QED BY <2>3, <2>4, <2>5, Leaves DEF Outcomes
<1>5. CASE db.device[c.row].status = "PENDING" /\ Here(q, <<last, Finish>>, {member, device})
  <2>1. Statement(q) = last /\ Tail(c.plan) = <<Finish>> /\ locks[q] = {member, device}
    <3>1. Here(q, <<last, Finish>>, {member, device})
      BY <1>5
    <3> QED BY <3>1, HereIsTwo
  <2>2. LockEnrolment(q)
    BY <2>1, ByName, StatementsAre
  <2>3. enrolment \in Things
    BY <1>1, ThingsAre
  <2>4. Wanted(q) = {enrolment}
    BY <2>1, <2>3, Gains
  <2>5. locks[q] \cup Wanted(q) = {member, device, enrolment}
    BY <2>1, <2>4
  <2>6. Leave(q, "unchanged") \/ (Free(q) /\ Go(q, Next1(c)))
    BY <1>1, <1>5, <2>1, <2>2 DEF LockEnrolment
  <2>7. Free(q) /\ Go(q, Next1(c)) =>
          Forward(q, <<Finish>>, {member, device, enrolment}, c.user, c.roles, c.version)
    BY <2>1, <2>5, Gets
  <2>8. Forward(q, <<Finish>>, {member, device, enrolment}, c.user, c.roles, c.version)
          => Quiet(q)
    BY <1>1, <1>5 DEF Forward, OnCourse, Activating, Here, AllVerbs
  <2> QED BY <2>6, <2>7, <2>8, Leaves DEF Outcomes
<1>6. CASE db.device[c.row].status = "PENDING" /\ Here(q, <<Finish>>, {member, device, enrolment})
  <2>1. Statement(q) = Finish
    BY <1>6, HereIsOne
  <2> QED BY <1>1, <1>6, <2>1, ByName, StatementsAre DEF Here
<1> QED BY <1>1, <1>2, <1>3, <1>4, <1>5, <1>6 DEF Activating, ApprovalPlan

LEMMA CancelRuns ==
  ASSUME CourseInv, NEW q \in Requests, pc[q] = "run", call[q].verb = "cancel", Run(q)
  PROVE  Quiet(q) \/ (CommitCancel(q) /\ call[q].row \in Ids /\ PendingInvitation(call[q].row)
                     /\ call[q].user = db.invitation[call[q].row].user
                     /\ locks[q] = {<<"invitation", call[q].row>>, <<"member", call[q].user>>})
<1> DEFINE c == call[q]
           u == db.invitation[c.row].user
           invitation == <<"invitation", c.row>>
           member == <<"member", c.user>>
           memberOfU == <<"member", u>>
<1>1. /\ Cancelling(q) /\ c.row \in Ids /\ db.invitation[c.row] # NoRow
      /\ u \in Ids
  BY DEF CourseInv, CallInv, OnCourse, Cancelling, Typed, Database, Invitations
<1>2. CASE Here(q, <<Do("lockInvitation", invitation)>>, {})
  <2>1. Statement(q) = Do("lockInvitation", invitation) /\ Tail(c.plan) = <<>> /\ locks[q] = {}
    BY <1>2, HereIsOne
  <2>2. LockInvitation(q)
    BY <2>1, ByName, StatementsAre
  <2>3. invitation \in Things
    BY <1>1, ThingsAre
  <2>4. Wanted(q) = {invitation}
    BY <2>1, <2>3, Gains
  <2>5. locks[q] \cup Wanted(q) = {invitation}
    BY <2>1, <2>4
  <2>6. Leave(q, "denied") \/ (PendingInvitation(c.row) /\ Free(q) /\ Go(q, Then([c EXCEPT !.user = u], <<Do("member", memberOfU), Finish>>)))
    BY <1>1, <1>2, <2>1, <2>2 DEF LockInvitation, AfterInvitation, PendingInvitation
  <2>7. Free(q) /\ Go(q, Then([c EXCEPT !.user = u], <<Do("member", memberOfU), Finish>>)) =>
          Forward(q, <<Do("member", memberOfU), Finish>>, {invitation}, u, c.roles, c.version)
    <3> DEFINE d == [c EXCEPT !.user = u]
               rest == <<Do("member", memberOfU), Finish>>
    <3>1. /\ Framed(d) /\ d.verb = c.verb /\ d.row = c.row /\ d.subject = c.subject
          /\ d.user = u /\ d.roles = c.roles /\ d.version = c.version
      BY <1>1, Assigned
    <3> HIDE DEF d, rest
    <3>2. Free(q) /\ Go(q, Then(d, rest)) =>
            Forward(q, rest, {invitation}, u, c.roles, c.version)
      BY <2>1, <2>5, <3>1, Decides
    <3> QED BY <3>2 DEF d, rest
  <2>8. PendingInvitation(c.row) /\ Forward(q, <<Do("member", memberOfU), Finish>>, {invitation}, u, c.roles, c.version)
          => Quiet(q)
    BY <1>1, <1>2 DEF Forward, OnCourse, Cancelling, Here, AllVerbs, PendingInvitation
  <2> QED BY <2>6, <2>7, <2>8, Leaves DEF Outcomes
<1>3. CASE PendingInvitation(c.row) /\ c.user = u /\ Here(q, <<Do("member", member), Finish>>, {invitation})
  <2>1. Statement(q) = Do("member", member) /\ Tail(c.plan) = <<Finish>> /\ locks[q] = {invitation}
    <3>1. Here(q, <<Do("member", member), Finish>>, {invitation})
      BY <1>3
    <3> QED BY <3>1, HereIsTwo
  <2>2. TouchMember(q)
    BY <2>1, ByName, StatementsAre
  <2>3. member \in Things
    BY <1>1, <1>3, ThingsAre
  <2>4. Wanted(q) = {member}
    BY <2>1, <2>3, Gains
  <2>5. locks[q] \cup Wanted(q) = {invitation, member}
    BY <2>1, <2>4
  <2>6. (Free(q) /\ Go(q, Next1(c)))
    BY <1>1, <1>3, <2>1, <2>2 DEF TouchMember, Take
  <2>7. Free(q) /\ Go(q, Next1(c)) =>
          Forward(q, <<Finish>>, {invitation, member}, c.user, c.roles, c.version)
    BY <2>1, <2>5, Gets
  <2>8. Forward(q, <<Finish>>, {invitation, member}, c.user, c.roles, c.version)
          => Quiet(q)
    BY <1>1, <1>3 DEF Forward, OnCourse, Cancelling, Here, AllVerbs, PendingInvitation
  <2> QED BY <2>6, <2>7, <2>8
<1>4. CASE PendingInvitation(c.row) /\ c.user = u /\ Here(q, <<Finish>>, {invitation, member})
  <2>1. Statement(q) = Finish
    BY <1>4, HereIsOne
  <2> QED BY <1>1, <1>4, <2>1, ByName, StatementsAre DEF Here
<1> QED BY <1>1, <1>2, <1>3, <1>4 DEF Cancelling

LEMMA ClaimRuns ==
  ASSUME CourseInv, NEW q \in Requests, pc[q] = "run", call[q].verb = "claim", Run(q)
  PROVE  Quiet(q) \/ (CommitAdmin(q) /\ call[q].subject \in Subjects /\ call[q].user \in Ids
                     /\ \/ /\ call[q].user = q /\ db.identity[call[q].subject] = None
                           /\ <<"subject", call[q].subject>> \in locks[q]
                        \/ call[q].user # q /\ db.identity[call[q].subject] = call[q].user)
<1> DEFINE c == call[q]
           u == db.identity[c.subject]
           advisory == <<"advisory", c.verb>>
           subject == <<"subject", c.subject>>
           admin == <<"admin", c.user>>
           insert == Do("insertAdmin", admin)
           insertQ == Do("insertAdmin", <<"admin", q>>)
           insertU == Do("insertAdmin", <<"admin", u>>)
           identity == Do("insertIdentity", subject)
<1>1. /\ Appointing(q) /\ c.subject \in Subjects /\ c.verb \in Paths /\ q \in Ids /\ q # None /\ u # q
      /\ u \in Ids \cup {None} /\ c.user \in Ids \cup {None}
  <2>1. Appointing(q) /\ c.subject \in Subjects /\ c.verb \in Paths
    BY DEF CourseInv, CallInv, OnCourse, Appointing, Paths
  <2>2. q \in Ids /\ q # None
    BY NamesAssumption DEF Ids
  <2>3. u # q
    BY <2>1, UnbornUnknown DEF Unborn
  <2>4. u \in Ids \cup {None} /\ c.user \in Ids \cup {None}
    BY <2>1 DEF CourseInv, Typed, Framed, Database
  <2> QED BY <2>1, <2>2, <2>3, <2>4
<1>2. CASE Here(q, <<Do("advisoryLock", advisory), Look("noAdmin"), Look("findClaimant")>>, {})
  <2>1. Statement(q) = Do("advisoryLock", advisory) /\ Tail(c.plan) = <<Look("noAdmin"), Look("findClaimant")>> /\ locks[q] = {}
    BY <1>2, HereIsThree
  <2>2. AdvisoryLock(q)
    BY <2>1, ByName, StatementsAre
  <2>3. advisory \in Things
    BY <1>1, ThingsAre
  <2>4. Wanted(q) = {advisory}
    BY <2>1, <2>3, Gains
  <2>5. locks[q] \cup Wanted(q) = {advisory}
    BY <2>1, <2>4
  <2>6. (Free(q) /\ Go(q, Next1(c)))
    BY <1>1, <1>2, <2>1, <2>2 DEF AdvisoryLock, Take
  <2>7. Free(q) /\ Go(q, Next1(c)) =>
          Forward(q, <<Look("noAdmin"), Look("findClaimant")>>, {advisory}, c.user, c.roles, c.version)
    BY <2>1, <2>5, Gets
  <2>8. Forward(q, <<Look("noAdmin"), Look("findClaimant")>>, {advisory}, c.user, c.roles, c.version)
          => Quiet(q)
    BY <1>1, <1>2 DEF Forward, OnCourse, Appointing, Here, AllVerbs
  <2> QED BY <2>6, <2>7, <2>8
<1>3. CASE Here(q, <<Look("noAdmin"), Look("findClaimant")>>, {advisory})
  <2>1. Statement(q) = Look("noAdmin") /\ Tail(c.plan) = <<Look("findClaimant")>> /\ locks[q] = {advisory}
    BY <1>3, HereIsTwo
  <2>2. NoAdmin(q)
    BY <2>1, ByName, StatementsAre
  <2>3. Leave(q, "denied") \/ (See(q, Next1(c)))
    BY <1>1, <1>3, <2>1, <2>2 DEF NoAdmin
  <2>4. See(q, Next1(c)) =>
          Forward(q, <<Look("findClaimant")>>, {advisory}, c.user, c.roles, c.version)
    BY <2>1, Sees
  <2>5. Forward(q, <<Look("findClaimant")>>, {advisory}, c.user, c.roles, c.version)
          => Quiet(q)
    BY <1>1, <1>3 DEF Forward, OnCourse, Appointing, Here, AllVerbs
  <2> QED BY <2>3, <2>4, <2>5, Leaves DEF Outcomes
<1>4. CASE Here(q, <<Look("findClaimant")>>, {advisory})
  <2>1. Statement(q) = Look("findClaimant") /\ Tail(c.plan) = <<>> /\ locks[q] = {advisory}
    BY <1>4, HereIsOne
  <2>2. FindClaimant(q)
    BY <2>1, ByName, StatementsAre
  <2>3. \/ Leave(q, "denied")
        \/ (See(q, Then([c EXCEPT !.user = q], <<identity, insertQ, Finish>>)))
        \/ (u # None /\ See(q, Then([c EXCEPT !.user = u], <<insertU, Finish>>)))
    BY <1>1, <1>4, <2>1, <2>2 DEF FindClaimant, InsertPlan
  <2>4. See(q, Then([c EXCEPT !.user = q], <<identity, insertQ, Finish>>)) =>
          Forward(q, <<identity, insertQ, Finish>>, {advisory}, q, c.roles, c.version)
    <3> DEFINE d == [c EXCEPT !.user = q]
               rest == <<identity, insertQ, Finish>>
    <3>1. /\ Framed(d) /\ d.verb = c.verb /\ d.row = c.row /\ d.subject = c.subject
          /\ d.user = q /\ d.roles = c.roles /\ d.version = c.version
      BY <1>1, Assigned
    <3> HIDE DEF d, rest
    <3>2. See(q, Then(d, rest)) =>
            Forward(q, rest, {advisory}, q, c.roles, c.version)
      BY <2>1, <3>1, Decides
    <3> QED BY <3>2 DEF d, rest
  <2>5. Forward(q, <<identity, insertQ, Finish>>, {advisory}, q, c.roles, c.version)
          => Quiet(q)
    BY <1>1, <1>4 DEF Forward, OnCourse, Appointing, Here, AllVerbs
  <2>6. See(q, Then([c EXCEPT !.user = u], <<insertU, Finish>>)) =>
          Forward(q, <<insertU, Finish>>, {advisory}, u, c.roles, c.version)
    <3> DEFINE d == [c EXCEPT !.user = u]
               rest == <<insertU, Finish>>
    <3>1. /\ Framed(d) /\ d.verb = c.verb /\ d.row = c.row /\ d.subject = c.subject
          /\ d.user = u /\ d.roles = c.roles /\ d.version = c.version
      BY <1>1, Assigned
    <3> HIDE DEF d, rest
    <3>2. See(q, Then(d, rest)) =>
            Forward(q, rest, {advisory}, u, c.roles, c.version)
      BY <2>1, <3>1, Decides
    <3> QED BY <3>2 DEF d, rest
  <2>7. u # None /\ Forward(q, <<insertU, Finish>>, {advisory}, u, c.roles, c.version)
          => Quiet(q)
    BY <1>1, <1>4 DEF Forward, OnCourse, Appointing, Here, AllVerbs
  <2> QED BY <2>3, <2>4, <2>5, <2>6, <2>7, Leaves DEF Outcomes
<1>5. CASE c.user = q /\ Here(q, <<identity, insert, Finish>>, {advisory})
  <2>1. Statement(q) = identity /\ Tail(c.plan) = <<insert, Finish>> /\ locks[q] = {advisory}
    <3>1. Here(q, <<identity, insert, Finish>>, {advisory})
      BY <1>5
    <3> QED BY <3>1, HereIsThree
  <2>2. InsertIdentity(q)
    BY <2>1, ByName, StatementsAre
  <2>3. subject \in Things
    BY <1>1, ThingsAre
  <2>4. Wanted(q) = {subject}
    BY <2>1, <2>3, Gains
  <2>5. locks[q] \cup Wanted(q) = {advisory, subject}
    BY <2>1, <2>4
  <2>6. Leave(q, "conflict") \/ (u = None /\ Free(q) /\ Go(q, Next1(c)))
    BY <1>1, <1>5, <2>1, <2>2 DEF InsertIdentity, Insert
  <2>7. Free(q) /\ Go(q, Next1(c)) =>
          Forward(q, <<insert, Finish>>, {advisory, subject}, c.user, c.roles, c.version)
    BY <2>1, <2>5, Gets
  <2>8. u = None /\ Forward(q, <<insert, Finish>>, {advisory, subject}, c.user, c.roles, c.version)
          => Quiet(q)
    BY <1>1, <1>5 DEF Forward, OnCourse, Appointing, Here, AllVerbs
  <2> QED BY <2>6, <2>7, <2>8, Leaves DEF Outcomes
<1>6. CASE c.user = q /\ u = None /\ Here(q, <<insert, Finish>>, {advisory, subject})
  <2>1. Statement(q) = insert /\ Tail(c.plan) = <<Finish>> /\ locks[q] = {advisory, subject}
    <3>1. Here(q, <<insert, Finish>>, {advisory, subject})
      BY <1>6
    <3> QED BY <3>1, HereIsTwo
  <2>2. InsertAdmin(q)
    BY <2>1, ByName, StatementsAre
  <2>3. admin \in Things
    BY <1>1, <1>6, ThingsAre
  <2>4. Wanted(q) = {admin}
    BY <2>1, <2>3, Gains
  <2>5. locks[q] \cup Wanted(q) = {advisory, subject, admin}
    BY <2>1, <2>4
  <2>6. Leave(q, "conflict") \/ (Free(q) /\ Go(q, Next1(c)))
    BY <1>1, <1>6, <2>1, <2>2 DEF InsertAdmin, Insert
  <2>7. Free(q) /\ Go(q, Next1(c)) =>
          Forward(q, <<Finish>>, {advisory, subject, admin}, c.user, c.roles, c.version)
    BY <2>1, <2>5, Gets
  <2>8. Forward(q, <<Finish>>, {advisory, subject, admin}, c.user, c.roles, c.version)
          => Quiet(q)
    BY <1>1, <1>6 DEF Forward, OnCourse, Appointing, Here, AllVerbs
  <2> QED BY <2>6, <2>7, <2>8, Leaves DEF Outcomes
<1>7. CASE c.user = q /\ u = None /\ Here(q, <<Finish>>, {advisory, subject, admin})
  <2>1. Statement(q) = Finish
    BY <1>7, HereIsOne
  <2> QED BY <1>1, <1>7, <2>1, ByName, StatementsAre DEF Here
<1>8. CASE c.user # None /\ u = c.user /\ Here(q, <<insert, Finish>>, {advisory})
  <2>1. Statement(q) = insert /\ Tail(c.plan) = <<Finish>> /\ locks[q] = {advisory}
    <3>1. Here(q, <<insert, Finish>>, {advisory})
      BY <1>8
    <3> QED BY <3>1, HereIsTwo
  <2>2. InsertAdmin(q)
    BY <2>1, ByName, StatementsAre
  <2>3. admin \in Things
    BY <1>1, <1>8, ThingsAre
  <2>4. Wanted(q) = {admin}
    BY <2>1, <2>3, Gains
  <2>5. locks[q] \cup Wanted(q) = {advisory, admin}
    BY <2>1, <2>4
  <2>6. Leave(q, "conflict") \/ (Free(q) /\ Go(q, Next1(c)))
    BY <1>1, <1>8, <2>1, <2>2 DEF InsertAdmin, Insert
  <2>7. Free(q) /\ Go(q, Next1(c)) =>
          Forward(q, <<Finish>>, {advisory, admin}, c.user, c.roles, c.version)
    BY <2>1, <2>5, Gets
  <2>8. Forward(q, <<Finish>>, {advisory, admin}, c.user, c.roles, c.version)
          => Quiet(q)
    BY <1>1, <1>8 DEF Forward, OnCourse, Appointing, Here, AllVerbs
  <2> QED BY <2>6, <2>7, <2>8, Leaves DEF Outcomes
<1>9. CASE c.user # None /\ u = c.user /\ Here(q, <<Finish>>, {advisory, admin})
  <2>1. Statement(q) = Finish
    BY <1>9, HereIsOne
  <2> QED BY <1>1, <1>9, <2>1, ByName, StatementsAre
<1> QED BY <1>1, <1>2, <1>3, <1>4, <1>5, <1>6, <1>7, <1>8, <1>9 DEF Appointing, ClaimPlan, ProvisionPlan

LEMMA ProvisionRuns ==
  ASSUME CourseInv, NEW q \in Requests, pc[q] = "run", call[q].verb = "provision", Run(q)
  PROVE  Quiet(q) \/ (CommitAdmin(q) /\ call[q].subject \in Subjects /\ call[q].user \in Ids
                     /\ \/ /\ call[q].user = q /\ db.identity[call[q].subject] = None
                           /\ <<"subject", call[q].subject>> \in locks[q]
                        \/ call[q].user # q /\ db.identity[call[q].subject] = call[q].user)
<1> DEFINE c == call[q]
           u == db.identity[c.subject]
           advisory == <<"advisory", c.verb>>
           subject == <<"subject", c.subject>>
           admin == <<"admin", c.user>>
           insert == Do("insertAdmin", admin)
           insertQ == Do("insertAdmin", <<"admin", q>>)
           insertU == Do("insertAdmin", <<"admin", u>>)
           identity == Do("insertIdentity", subject)
<1>1. /\ Appointing(q) /\ c.subject \in Subjects /\ c.verb \in Paths /\ q \in Ids /\ q # None /\ u # q
      /\ u \in Ids \cup {None} /\ c.user \in Ids \cup {None}
  <2>1. Appointing(q) /\ c.subject \in Subjects /\ c.verb \in Paths
    BY DEF CourseInv, CallInv, OnCourse, Appointing, Paths
  <2>2. q \in Ids /\ q # None
    BY NamesAssumption DEF Ids
  <2>3. u # q
    BY <2>1, UnbornUnknown DEF Unborn
  <2>4. u \in Ids \cup {None} /\ c.user \in Ids \cup {None}
    BY <2>1 DEF CourseInv, Typed, Framed, Database
  <2> QED BY <2>1, <2>2, <2>3, <2>4
<1>2. CASE Here(q, <<Do("advisoryLock", advisory), Look("findProvisioned"), Look("noAdmin")>>, {})
  <2>1. Statement(q) = Do("advisoryLock", advisory) /\ Tail(c.plan) = <<Look("findProvisioned"), Look("noAdmin")>> /\ locks[q] = {}
    BY <1>2, HereIsThree
  <2>2. AdvisoryLock(q)
    BY <2>1, ByName, StatementsAre
  <2>3. advisory \in Things
    BY <1>1, ThingsAre
  <2>4. Wanted(q) = {advisory}
    BY <2>1, <2>3, Gains
  <2>5. locks[q] \cup Wanted(q) = {advisory}
    BY <2>1, <2>4
  <2>6. (Free(q) /\ Go(q, Next1(c)))
    BY <1>1, <1>2, <2>1, <2>2 DEF AdvisoryLock, Take
  <2>7. Free(q) /\ Go(q, Next1(c)) =>
          Forward(q, <<Look("findProvisioned"), Look("noAdmin")>>, {advisory}, c.user, c.roles, c.version)
    BY <2>1, <2>5, Gets
  <2>8. Forward(q, <<Look("findProvisioned"), Look("noAdmin")>>, {advisory}, c.user, c.roles, c.version)
          => Quiet(q)
    BY <1>1, <1>2 DEF Forward, OnCourse, Appointing, Here, AllVerbs
  <2> QED BY <2>6, <2>7, <2>8
<1>3. CASE Here(q, <<Look("findProvisioned"), Look("noAdmin")>>, {advisory})
  <2>1. Statement(q) = Look("findProvisioned") /\ Tail(c.plan) = <<Look("noAdmin")>> /\ locks[q] = {advisory}
    BY <1>3, HereIsTwo
  <2>2. FindProvisioned(q)
    BY <2>1, ByName, StatementsAre
  <2>3. \/ Leave(q, "unchanged")
        \/ Leave(q, "denied")
        \/ (See(q, Next1(c)))
    BY <1>1, <1>3, <2>1, <2>2 DEF FindProvisioned
  <2>4. See(q, Next1(c)) =>
          Forward(q, <<Look("noAdmin")>>, {advisory}, c.user, c.roles, c.version)
    BY <2>1, Sees
  <2>5. Forward(q, <<Look("noAdmin")>>, {advisory}, c.user, c.roles, c.version)
          => Quiet(q)
    BY <1>1, <1>3 DEF Forward, OnCourse, Appointing, Here, AllVerbs
  <2> QED BY <2>3, <2>4, <2>5, Leaves DEF Outcomes
<1>4. CASE Here(q, <<Look("noAdmin")>>, {advisory})
  <2>1. Statement(q) = Look("noAdmin") /\ Tail(c.plan) = <<>> /\ locks[q] = {advisory}
    BY <1>4, HereIsOne
  <2>2. NoAdmin(q)
    BY <2>1, ByName, StatementsAre
  <2>3. Leave(q, "denied") \/ (See(q, Then([c EXCEPT !.user = q], <<identity, insertQ, Finish>>)))
    BY <1>1, <1>4, <2>1, <2>2 DEF NoAdmin, InsertPlan
  <2>4. See(q, Then([c EXCEPT !.user = q], <<identity, insertQ, Finish>>)) =>
          Forward(q, <<identity, insertQ, Finish>>, {advisory}, q, c.roles, c.version)
    <3> DEFINE d == [c EXCEPT !.user = q]
               rest == <<identity, insertQ, Finish>>
    <3>1. /\ Framed(d) /\ d.verb = c.verb /\ d.row = c.row /\ d.subject = c.subject
          /\ d.user = q /\ d.roles = c.roles /\ d.version = c.version
      BY <1>1, Assigned
    <3> HIDE DEF d, rest
    <3>2. See(q, Then(d, rest)) =>
            Forward(q, rest, {advisory}, q, c.roles, c.version)
      BY <2>1, <3>1, Decides
    <3> QED BY <3>2 DEF d, rest
  <2>5. Forward(q, <<identity, insertQ, Finish>>, {advisory}, q, c.roles, c.version)
          => Quiet(q)
    BY <1>1, <1>4 DEF Forward, OnCourse, Appointing, Here, AllVerbs
  <2> QED BY <2>3, <2>4, <2>5, Leaves DEF Outcomes
<1>5. CASE c.user = q /\ Here(q, <<identity, insert, Finish>>, {advisory})
  <2>1. Statement(q) = identity /\ Tail(c.plan) = <<insert, Finish>> /\ locks[q] = {advisory}
    <3>1. Here(q, <<identity, insert, Finish>>, {advisory})
      BY <1>5
    <3> QED BY <3>1, HereIsThree
  <2>2. InsertIdentity(q)
    BY <2>1, ByName, StatementsAre
  <2>3. subject \in Things
    BY <1>1, ThingsAre
  <2>4. Wanted(q) = {subject}
    BY <2>1, <2>3, Gains
  <2>5. locks[q] \cup Wanted(q) = {advisory, subject}
    BY <2>1, <2>4
  <2>6. Leave(q, "conflict") \/ (u = None /\ Free(q) /\ Go(q, Next1(c)))
    BY <1>1, <1>5, <2>1, <2>2 DEF InsertIdentity, Insert
  <2>7. Free(q) /\ Go(q, Next1(c)) =>
          Forward(q, <<insert, Finish>>, {advisory, subject}, c.user, c.roles, c.version)
    BY <2>1, <2>5, Gets
  <2>8. u = None /\ Forward(q, <<insert, Finish>>, {advisory, subject}, c.user, c.roles, c.version)
          => Quiet(q)
    BY <1>1, <1>5 DEF Forward, OnCourse, Appointing, Here, AllVerbs
  <2> QED BY <2>6, <2>7, <2>8, Leaves DEF Outcomes
<1>6. CASE c.user = q /\ u = None /\ Here(q, <<insert, Finish>>, {advisory, subject})
  <2>1. Statement(q) = insert /\ Tail(c.plan) = <<Finish>> /\ locks[q] = {advisory, subject}
    <3>1. Here(q, <<insert, Finish>>, {advisory, subject})
      BY <1>6
    <3> QED BY <3>1, HereIsTwo
  <2>2. InsertAdmin(q)
    BY <2>1, ByName, StatementsAre
  <2>3. admin \in Things
    BY <1>1, <1>6, ThingsAre
  <2>4. Wanted(q) = {admin}
    BY <2>1, <2>3, Gains
  <2>5. locks[q] \cup Wanted(q) = {advisory, subject, admin}
    BY <2>1, <2>4
  <2>6. Leave(q, "conflict") \/ (Free(q) /\ Go(q, Next1(c)))
    BY <1>1, <1>6, <2>1, <2>2 DEF InsertAdmin, Insert
  <2>7. Free(q) /\ Go(q, Next1(c)) =>
          Forward(q, <<Finish>>, {advisory, subject, admin}, c.user, c.roles, c.version)
    BY <2>1, <2>5, Gets
  <2>8. Forward(q, <<Finish>>, {advisory, subject, admin}, c.user, c.roles, c.version)
          => Quiet(q)
    BY <1>1, <1>6 DEF Forward, OnCourse, Appointing, Here, AllVerbs
  <2> QED BY <2>6, <2>7, <2>8, Leaves DEF Outcomes
<1>7. CASE c.user = q /\ u = None /\ Here(q, <<Finish>>, {advisory, subject, admin})
  <2>1. Statement(q) = Finish
    BY <1>7, HereIsOne
  <2> QED BY <1>1, <1>7, <2>1, ByName, StatementsAre DEF Here
<1>8. CASE c.user # None /\ u = c.user /\ Here(q, <<insert, Finish>>, {advisory})
  <2>1. Statement(q) = insert /\ Tail(c.plan) = <<Finish>> /\ locks[q] = {advisory}
    <3>1. Here(q, <<insert, Finish>>, {advisory})
      BY <1>8
    <3> QED BY <3>1, HereIsTwo
  <2>2. InsertAdmin(q)
    BY <2>1, ByName, StatementsAre
  <2>3. admin \in Things
    BY <1>1, <1>8, ThingsAre
  <2>4. Wanted(q) = {admin}
    BY <2>1, <2>3, Gains
  <2>5. locks[q] \cup Wanted(q) = {advisory, admin}
    BY <2>1, <2>4
  <2>6. Leave(q, "conflict") \/ (Free(q) /\ Go(q, Next1(c)))
    BY <1>1, <1>8, <2>1, <2>2 DEF InsertAdmin, Insert
  <2>7. Free(q) /\ Go(q, Next1(c)) =>
          Forward(q, <<Finish>>, {advisory, admin}, c.user, c.roles, c.version)
    BY <2>1, <2>5, Gets
  <2>8. Forward(q, <<Finish>>, {advisory, admin}, c.user, c.roles, c.version)
          => Quiet(q)
    BY <1>1, <1>8 DEF Forward, OnCourse, Appointing, Here, AllVerbs
  <2> QED BY <2>6, <2>7, <2>8, Leaves DEF Outcomes
<1>9. CASE c.user # None /\ u = c.user /\ Here(q, <<Finish>>, {advisory, admin})
  <2>1. Statement(q) = Finish
    BY <1>9, HereIsOne
  <2> QED BY <1>1, <1>9, <2>1, ByName, StatementsAre
<1> QED BY <1>1, <1>2, <1>3, <1>4, <1>5, <1>6, <1>7, <1>8, <1>9 DEF Appointing, ClaimPlan, ProvisionPlan

LEMMA SetKeyRuns ==
  ASSUME CourseInv, NEW q \in Requests, pc[q] = "run", call[q].verb = "setKey", Run(q)
  PROVE  Quiet(q) \/ (CommitSetKey(q) /\ Keying(q) /\ Here(q, <<Finish>>, {<<"key">>}))
<1> DEFINE c == call[q]
           key == <<"key">>
           upsert == Do("upsert", key)
<1>1. Keying(q) /\ Framed(c) /\ db.key \in Keys \cup {NoRow} /\ key \in Things
  BY ThingsAre DEF CourseInv, CallInv, OnCourse, Typed, Database
<1>2. CASE Here(q, <<Do("findKey", key), upsert, Finish>>, {})
  <2> DEFINE version == IF db.key = NoRow THEN 1 ELSE db.key.version + 1
             d == [Next1(c) EXCEPT !.version = version]
  <2>1. Statement(q) = Do("findKey", key) /\ Tail(c.plan) = <<upsert, Finish>> /\ locks[q] = {}
    BY <1>2, HereIsThree
  <2>2. FindKey(q)
    BY <2>1, ByName, StatementsAre
  <2>3. Free(q) /\ Go(q, d)
    BY <2>2 DEF FindKey
  <2>4. version \in Nat
    <3>1. db.key # NoRow => db.key \in Keys
      BY <1>1
    <3> QED BY <3>1 DEF Keys
  <2>5. /\ Framed(d) /\ d.verb = c.verb /\ d.row = c.row /\ d.subject = c.subject
        /\ d.user = c.user /\ d.roles = c.roles /\ d.version = version /\ d.plan = <<upsert, Finish>>
    BY <1>1, <2>1, <2>4 DEF Framed, Next1
  <2> HIDE DEF d
  <2>6. Forward(q, <<upsert, Finish>>, locks[q] \cup Wanted(q), c.user, c.roles, version)
    BY <2>3, <2>5, Moves
  <2>7. CASE db.key = NoRow
    <3>1. locks[q] \cup Wanted(q) = {}
      BY <2>1, <2>7, StatementsAre DEF Wanted, NoSuchRow
    <3>2. version = 1
      BY <2>7
    <3> HIDE DEF version
    <3> QED BY <2>6, <3>1, <3>2 DEF Forward, OnCourse, Keying, Here, AllVerbs
  <2>8. CASE db.key # NoRow
    <3>1. Wanted(q) = {key}
      BY <1>1, <2>1, <2>8, StatementsAre, NamesAssumption DEF Wanted, NoSuchRow
    <3>2. locks[q] \cup Wanted(q) = {key}
      BY <2>1, <3>1
    <3>3. version = db.key.version + 1
      BY <2>8
    <3> HIDE DEF version
    <3> QED BY <2>6, <2>8, <3>2, <3>3 DEF Forward, OnCourse, Keying, Here, AllVerbs
  <2> QED BY <2>7, <2>8
<1>3. CASE c.version = 1 /\ Here(q, <<upsert, Finish>>, {})
  <2>1. Statement(q) = upsert /\ Tail(c.plan) = <<Finish>> /\ locks[q] = {}
    <3>1. Here(q, <<upsert, Finish>>, {})
      BY <1>3
    <3> QED BY <3>1, HereIsTwo
  <2>2. Upsert(q)
    BY <2>1, ByName, StatementsAre
  <2>3. key \in Things
    BY <1>1, ThingsAre
  <2>4. Wanted(q) = {key}
    BY <2>1, <2>3, Gains
  <2>5. locks[q] \cup Wanted(q) = {key}
    BY <2>1, <2>4
  <2>6. (Free(q) /\ Go(q, Next1(c)))
    BY <1>1, <1>3, <2>1, <2>2 DEF Upsert, Take
  <2>7. Free(q) /\ Go(q, Next1(c)) =>
          Forward(q, <<Finish>>, {key}, c.user, c.roles, c.version)
    BY <2>1, <2>5, Gets
  <2>8. Forward(q, <<Finish>>, {key}, c.user, c.roles, c.version)
          => Quiet(q)
    BY <1>1, <1>3 DEF Forward, OnCourse, Keying, Here, AllVerbs
  <2> QED BY <2>6, <2>7, <2>8
<1>4. CASE (c.version = 1 \/ (db.key # NoRow /\ c.version = db.key.version + 1)) /\ Here(q, <<upsert, Finish>>, {key})
  <2>1. Statement(q) = upsert /\ Tail(c.plan) = <<Finish>> /\ locks[q] = {key}
    <3>1. Here(q, <<upsert, Finish>>, {key})
      BY <1>4
    <3> QED BY <3>1, HereIsTwo
  <2>2. Upsert(q)
    BY <2>1, ByName, StatementsAre
  <2>3. key \in Things
    BY <1>1, ThingsAre
  <2>4. Wanted(q) = {key}
    BY <2>1, <2>3, Gains
  <2>5. locks[q] \cup Wanted(q) = {key}
    BY <2>1, <2>4
  <2>6. (Free(q) /\ Go(q, Next1(c)))
    BY <1>1, <1>4, <2>1, <2>2 DEF Upsert, Take
  <2>7. Free(q) /\ Go(q, Next1(c)) =>
          Forward(q, <<Finish>>, {key}, c.user, c.roles, c.version)
    BY <2>1, <2>5, Gets
  <2>8. Forward(q, <<Finish>>, {key}, c.user, c.roles, c.version)
          => Quiet(q)
    BY <1>1, <1>4 DEF Forward, OnCourse, Keying, Here, AllVerbs
  <2> QED BY <2>6, <2>7, <2>8
<1>5. CASE (c.version = 1 \/ (db.key # NoRow /\ c.version = db.key.version + 1)) /\ Here(q, <<Finish>>, {key})
  <2>1. Statement(q) = Finish
    BY <1>5, HereIsOne
  <2> QED BY <1>1, <1>5, <2>1, ByName, StatementsAre
<1> QED BY <1>1, <1>2, <1>3, <1>4, <1>5 DEF Keying

LEMMA DisableKeyRuns ==
  ASSUME CourseInv, NEW q \in Requests, pc[q] = "run", call[q].verb = "disableKey", Run(q)
  PROVE  Quiet(q) \/ (CommitDisableKey(q) /\ db.key # NoRow /\ locks[q] = {<<"key">>})
<1> DEFINE c == call[q]
           key == <<"key">>
<1>1. Unkeying(q) /\ Framed(c) /\ db.key \in Keys \cup {NoRow} /\ key \in Things
  BY ThingsAre DEF CourseInv, CallInv, OnCourse, Typed, Database
<1>2. CASE Here(q, <<Do("findKey", key), Finish>>, {})
  <2> DEFINE version == IF db.key = NoRow THEN 1 ELSE db.key.version + 1
             d == [Next1(c) EXCEPT !.version = version]
  <2>1. Statement(q) = Do("findKey", key) /\ Tail(c.plan) = <<Finish>> /\ locks[q] = {}
    BY <1>2, HereIsTwo
  <2>2. FindKey(q)
    BY <2>1, ByName, StatementsAre
  <2>3. Leave(q, "unchanged") \/ (db.key # NoRow /\ Free(q) /\ Go(q, d))
    BY <2>2 DEF FindKey
  <2>4. ASSUME db.key # NoRow, Free(q), Go(q, d)
        PROVE  Quiet(q)
    <3>1. version \in Nat
      <4>1. db.key \in Keys
        BY <1>1, <2>4
      <4> QED BY <4>1 DEF Keys
    <3>2. /\ Framed(d) /\ d.verb = c.verb /\ d.row = c.row /\ d.subject = c.subject
          /\ d.user = c.user /\ d.roles = c.roles /\ d.version = version /\ d.plan = <<Finish>>
      BY <1>1, <2>1, <3>1 DEF Framed, Next1
    <3> HIDE DEF d, version
    <3>3. Forward(q, <<Finish>>, locks[q] \cup Wanted(q), c.user, c.roles, version)
      BY <2>4, <3>2, Moves
    <3>4. Wanted(q) = {key}
      BY <1>1, <2>1, <2>4, StatementsAre, NamesAssumption DEF Wanted, NoSuchRow
    <3>5. locks[q] \cup Wanted(q) = {key}
      BY <2>1, <3>4
    <3> QED BY <2>4, <3>3, <3>5 DEF Forward, OnCourse, Unkeying, Here, AllVerbs
  <2> QED BY <2>3, <2>4, Leaves DEF Outcomes
<1>3. CASE db.key # NoRow /\ Here(q, <<Finish>>, {key})
  <2>1. Statement(q) = Finish
    BY <1>3, HereIsOne
  <2> QED BY <1>1, <1>3, <2>1, ByName, StatementsAre DEF Here
<1> QED BY <1>1, <1>2, <1>3 DEF Unkeying

LEMMA CreateTenantRuns ==
  ASSUME CourseInv, NEW q \in Requests, pc[q] = "run", call[q].verb = "createTenant", Run(q)
  PROVE  Quiet(q) \/ (CommitCreateTenant(q) /\ db.tenant = "NONE" /\ locks[q] = {<<"tenant">>})
<1> DEFINE c == call[q]
           tenant == <<"tenant">>
<1>1. Founding(q)
  BY DEF CourseInv, CallInv, OnCourse
<1>2. CASE Here(q, <<Do("insertTenant", tenant), Finish>>, {})
  <2>1. Statement(q) = Do("insertTenant", tenant) /\ Tail(c.plan) = <<Finish>> /\ locks[q] = {}
    BY <1>2, HereIsTwo
  <2>2. InsertTenant(q)
    BY <2>1, ByName, StatementsAre
  <2>3. tenant \in Things
    BY <1>1, ThingsAre
  <2>4. Wanted(q) = {tenant}
    BY <2>1, <2>3, Gains
  <2>5. locks[q] \cup Wanted(q) = {tenant}
    BY <2>1, <2>4
  <2>6. Leave(q, "conflict") \/ (db.tenant = "NONE" /\ Free(q) /\ Go(q, Next1(c)))
    BY <1>1, <1>2, <2>1, <2>2 DEF InsertTenant, Insert
  <2>7. Free(q) /\ Go(q, Next1(c)) =>
          Forward(q, <<Finish>>, {tenant}, c.user, c.roles, c.version)
    BY <2>1, <2>5, Gets
  <2>8. db.tenant = "NONE" /\ Forward(q, <<Finish>>, {tenant}, c.user, c.roles, c.version)
          => Quiet(q)
    BY <1>1, <1>2 DEF Forward, OnCourse, Founding, Here, AllVerbs
  <2> QED BY <2>6, <2>7, <2>8, Leaves DEF Outcomes
<1>3. CASE db.tenant = "NONE" /\ Here(q, <<Finish>>, {tenant})
  <2>1. Statement(q) = Finish
    BY <1>3, HereIsOne
  <2> QED BY <1>1, <1>3, <2>1, ByName, StatementsAre DEF Here
<1> QED BY <1>1, <1>2, <1>3 DEF Founding

LEMMA ActivateTenantRuns ==
  ASSUME CourseInv, NEW q \in Requests, pc[q] = "run", call[q].verb = "activateTenant", Run(q)
  PROVE  Quiet(q) \/ (CommitActivateTenant(q) /\ db.tenant = "CONFIGURING" /\ locks[q] = {<<"tenant">>})
<1> DEFINE c == call[q]
           tenant == <<"tenant">>
<1>1. Opening(q)
  BY DEF CourseInv, CallInv, OnCourse
<1>2. CASE Here(q, <<Look("tenantBefore"), Do("switchTenant", tenant), Finish>>, {})
  <2>1. Statement(q) = Look("tenantBefore") /\ Tail(c.plan) = <<Do("switchTenant", tenant), Finish>> /\ locks[q] = {}
    BY <1>2, HereIsThree
  <2>2. TenantBefore(q)
    BY <2>1, ByName, StatementsAre
  <2>3. Leave(q, "denied") \/ (See(q, Next1(c)))
    BY <1>1, <1>2, <2>1, <2>2 DEF TenantBefore
  <2>4. See(q, Next1(c)) =>
          Forward(q, <<Do("switchTenant", tenant), Finish>>, {}, c.user, c.roles, c.version)
    BY <2>1, Sees
  <2>5. Forward(q, <<Do("switchTenant", tenant), Finish>>, {}, c.user, c.roles, c.version)
          => Quiet(q)
    BY <1>1, <1>2 DEF Forward, OnCourse, Opening, Here, AllVerbs
  <2> QED BY <2>3, <2>4, <2>5, Leaves DEF Outcomes
<1>3. CASE Here(q, <<Do("switchTenant", tenant), Finish>>, {})
  <2>1. Statement(q) = Do("switchTenant", tenant) /\ Tail(c.plan) = <<Finish>> /\ locks[q] = {}
    BY <1>3, HereIsTwo
  <2>2. SwitchTenant(q)
    BY <2>1, ByName, StatementsAre
  <2>3. tenant \in Things
    BY <1>1, ThingsAre
  <2>4. Wanted(q) = {tenant}
    BY <2>1, <2>3, Gains
  <2>5. locks[q] \cup Wanted(q) = {tenant}
    BY <2>1, <2>4
  <2>6. Leave(q, "failed") \/ (db.tenant = "CONFIGURING" /\ Free(q) /\ Go(q, Next1(c)))
    BY <1>1, <1>3, <2>1, <2>2 DEF SwitchTenant
  <2>7. Free(q) /\ Go(q, Next1(c)) =>
          Forward(q, <<Finish>>, {tenant}, c.user, c.roles, c.version)
    BY <2>1, <2>5, Gets
  <2>8. db.tenant = "CONFIGURING" /\ Forward(q, <<Finish>>, {tenant}, c.user, c.roles, c.version)
          => Quiet(q)
    BY <1>1, <1>3 DEF Forward, OnCourse, Opening, Here, AllVerbs
  <2> QED BY <2>6, <2>7, <2>8, Leaves DEF Outcomes
<1>4. CASE db.tenant = "CONFIGURING" /\ Here(q, <<Finish>>, {tenant})
  <2>1. Statement(q) = Finish
    BY <1>4, HereIsOne
  <2> QED BY <1>1, <1>4, <2>1, ByName, StatementsAre DEF Here
<1> QED BY <1>1, <1>2, <1>3, <1>4 DEF Opening

LEMMA RotateTokenRuns ==
  ASSUME CourseInv, NEW q \in Requests, pc[q] = "run", call[q].verb = "rotateToken", Run(q)
  PROVE  Quiet(q) \/ (CommitRotateToken(q) /\ locks[q] = {<<"setting">>})
<1> DEFINE c == call[q]
           setting == <<"setting">>
<1>1. Rotating(q)
  BY DEF CourseInv, CallInv, OnCourse
<1>2. CASE Here(q, <<Look("tenantOfToken"), Do("upsert", setting), Finish>>, {})
  <2>1. Statement(q) = Look("tenantOfToken") /\ Tail(c.plan) = <<Do("upsert", setting), Finish>> /\ locks[q] = {}
    BY <1>2, HereIsThree
  <2>2. TenantOfToken(q)
    BY <2>1, ByName, StatementsAre
  <2>3. Leave(q, "unchanged") \/ (See(q, Next1(c)))
    BY <1>1, <1>2, <2>1, <2>2 DEF TenantOfToken
  <2>4. See(q, Next1(c)) =>
          Forward(q, <<Do("upsert", setting), Finish>>, {}, c.user, c.roles, c.version)
    BY <2>1, Sees
  <2>5. Forward(q, <<Do("upsert", setting), Finish>>, {}, c.user, c.roles, c.version)
          => Quiet(q)
    BY <1>1, <1>2 DEF Forward, OnCourse, Rotating, Here, AllVerbs
  <2> QED BY <2>3, <2>4, <2>5, Leaves DEF Outcomes
<1>3. CASE Here(q, <<Do("upsert", setting), Finish>>, {})
  <2>1. Statement(q) = Do("upsert", setting) /\ Tail(c.plan) = <<Finish>> /\ locks[q] = {}
    BY <1>3, HereIsTwo
  <2>2. Upsert(q)
    BY <2>1, ByName, StatementsAre
  <2>3. setting \in Things
    BY <1>1, ThingsAre
  <2>4. Wanted(q) = {setting}
    BY <2>1, <2>3, Gains
  <2>5. locks[q] \cup Wanted(q) = {setting}
    BY <2>1, <2>4
  <2>6. (Free(q) /\ Go(q, Next1(c)))
    BY <1>1, <1>3, <2>1, <2>2 DEF Upsert, Take
  <2>7. Free(q) /\ Go(q, Next1(c)) =>
          Forward(q, <<Finish>>, {setting}, c.user, c.roles, c.version)
    BY <2>1, <2>5, Gets
  <2>8. Forward(q, <<Finish>>, {setting}, c.user, c.roles, c.version)
          => Quiet(q)
    BY <1>1, <1>3 DEF Forward, OnCourse, Rotating, Here, AllVerbs
  <2> QED BY <2>6, <2>7, <2>8
<1>4. CASE Here(q, <<Finish>>, {setting})
  <2>1. Statement(q) = Finish
    BY <1>4, HereIsOne
  <2> QED BY <1>1, <1>4, <2>1, ByName, StatementsAre DEF Here
<1> QED BY <1>1, <1>2, <1>3, <1>4 DEF Rotating

LEMMA DisableTokenRuns ==
  ASSUME CourseInv, NEW q \in Requests, pc[q] = "run", call[q].verb = "disableToken", Run(q)
  PROVE  Quiet(q) \/ (CommitDisableToken(q) /\ db.setting # NoRow /\ locks[q] = {<<"setting">>})
<1> DEFINE c == call[q]
           setting == <<"setting">>
<1>1. Disabling(q)
  BY DEF CourseInv, CallInv, OnCourse
<1>2. CASE Here(q, <<Look("tenantOfToken"), Do("findSetting", setting), Finish>>, {})
  <2>1. Statement(q) = Look("tenantOfToken") /\ Tail(c.plan) = <<Do("findSetting", setting), Finish>> /\ locks[q] = {}
    BY <1>2, HereIsThree
  <2>2. TenantOfToken(q)
    BY <2>1, ByName, StatementsAre
  <2>3. Leave(q, "unchanged") \/ (db.tenant # "NONE" /\ See(q, Next1(c)))
    BY <1>1, <1>2, <2>1, <2>2 DEF TenantOfToken
  <2>4. See(q, Next1(c)) =>
          Forward(q, <<Do("findSetting", setting), Finish>>, {}, c.user, c.roles, c.version)
    BY <2>1, Sees
  <2>5. db.tenant # "NONE" /\ Forward(q, <<Do("findSetting", setting), Finish>>, {}, c.user, c.roles, c.version)
          => Quiet(q)
    BY <1>1, <1>2 DEF Forward, OnCourse, Disabling, Here, AllVerbs
  <2> QED BY <2>3, <2>4, <2>5, Leaves DEF Outcomes
<1>3. CASE db.tenant # "NONE" /\ Here(q, <<Do("findSetting", setting), Finish>>, {})
  <2>1. Statement(q) = Do("findSetting", setting) /\ Tail(c.plan) = <<Finish>> /\ locks[q] = {}
    <3>1. Here(q, <<Do("findSetting", setting), Finish>>, {})
      BY <1>3
    <3> QED BY <3>1, HereIsTwo
  <2>2. FindSetting(q)
    BY <2>1, ByName, StatementsAre
  <2>3. setting \in Things
    BY <1>1, ThingsAre
  <2>4. db.setting # NoRow => Wanted(q) = {setting}
    BY <2>1, <2>3, StatementsAre, NamesAssumption DEF Wanted, NoSuchRow
  <2>5. db.setting # NoRow => locks[q] \cup Wanted(q) = {setting}
    BY <2>1, <2>4
  <2>6. Leave(q, "unchanged") \/ (db.setting # NoRow /\ Free(q) /\ Go(q, Next1(c)))
    BY <1>1, <1>3, <2>1, <2>2 DEF FindSetting
  <2>7. db.setting # NoRow /\ Free(q) /\ Go(q, Next1(c)) =>
          Forward(q, <<Finish>>, {setting}, c.user, c.roles, c.version)
    BY <2>1, <2>5, Gets
  <2>8. db.setting # NoRow /\ Forward(q, <<Finish>>, {setting}, c.user, c.roles, c.version)
          => Quiet(q)
    BY <1>1, <1>3 DEF Forward, OnCourse, Disabling, Here, AllVerbs
  <2> QED BY <2>6, <2>7, <2>8, Leaves DEF Outcomes
<1>4. CASE db.tenant # "NONE" /\ db.setting # NoRow /\ Here(q, <<Finish>>, {setting})
  <2>1. Statement(q) = Finish
    BY <1>4, HereIsOne
  <2> QED BY <1>1, <1>4, <2>1, ByName, StatementsAre DEF Here
<1> QED BY <1>1, <1>2, <1>3, <1>4 DEF Disabling

LEMMA ConfigureRuns ==
  ASSUME CourseInv, NEW q \in Requests, pc[q] = "run", call[q].verb = "configure", Run(q)
  PROVE  Quiet(q) \/ (CommitConfigure(q) /\ call[q].user \in Ids /\ (call[q].user \in Requests \ {q} => ~Unborn(call[q].user)))
<1> DEFINE c == call[q]
           u == c.user
           principal == <<"principal", u>>
           user == <<"user", u>>
<1>1. Configuring(q) /\ u \in Ids /\ (u \in Requests \ {q} => ~Unborn(u))
  BY DEF CourseInv, CallInv, OnCourse, Configuring
<1>2. CASE Here(q, <<Do("principal", principal), Do("user", user), Finish>>, {})
  <2>1. Statement(q) = Do("principal", principal) /\ Tail(c.plan) = <<Do("user", user), Finish>> /\ locks[q] = {}
    BY <1>2, HereIsThree
  <2>2. FindPrincipal(q)
    BY <2>1, ByName, StatementsAre
  <2>3. principal \in Things
    BY <1>1, ThingsAre
  <2>4. Wanted(q) = {principal}
    BY <2>1, <2>3, Gains
  <2>5. locks[q] \cup Wanted(q) = {principal}
    BY <2>1, <2>4
  <2>6. Leave(q, "unchanged") \/ (Free(q) /\ Go(q, Next1(c)))
    BY <1>1, <1>2, <2>1, <2>2 DEF FindPrincipal
  <2>7. Free(q) /\ Go(q, Next1(c)) =>
          Forward(q, <<Do("user", user), Finish>>, {principal}, c.user, c.roles, c.version)
    BY <2>1, <2>5, Gets
  <2>8. Forward(q, <<Do("user", user), Finish>>, {principal}, c.user, c.roles, c.version)
          => Quiet(q)
    BY <1>1, <1>2 DEF Forward, OnCourse, Configuring, Here, AllVerbs, Unborn
  <2> QED BY <2>6, <2>7, <2>8, Leaves DEF Outcomes
<1>3. CASE Here(q, <<Do("user", user), Finish>>, {principal})
  <2>1. Statement(q) = Do("user", user) /\ Tail(c.plan) = <<Finish>> /\ locks[q] = {principal}
    BY <1>3, HereIsTwo
  <2>2. WriteUser(q)
    BY <2>1, ByName, StatementsAre
  <2>3. user \in Things
    BY <1>1, ThingsAre
  <2>4. Wanted(q) = {user}
    BY <2>1, <2>3, Gains
  <2>5. locks[q] \cup Wanted(q) = {principal, user}
    BY <2>1, <2>4
  <2>6. (Free(q) /\ Go(q, Next1(c)))
    BY <1>1, <1>3, <2>1, <2>2 DEF WriteUser, Take
  <2>7. Free(q) /\ Go(q, Next1(c)) =>
          Forward(q, <<Finish>>, {principal, user}, c.user, c.roles, c.version)
    BY <2>1, <2>5, Gets
  <2>8. Forward(q, <<Finish>>, {principal, user}, c.user, c.roles, c.version)
          => Quiet(q)
    BY <1>1, <1>3 DEF Forward, OnCourse, Configuring, Here, AllVerbs, Unborn
  <2> QED BY <2>6, <2>7, <2>8
<1>4. CASE Here(q, <<Finish>>, {principal, user})
  <2>1. Statement(q) = Finish
    BY <1>4, HereIsOne
  <2> QED BY <1>1, <1>4, <2>1, ByName, StatementsAre
<1> QED BY <1>1, <1>2, <1>3, <1>4 DEF Configuring

LEMMA LinkRuns ==
  ASSUME CourseInv, NEW q \in Requests, pc[q] = "run", call[q].verb = "link", Run(q)
  PROVE  Quiet(q) \/ (CommitLink(q) /\ call[q].user \in Ids /\ call[q].subject \in Subjects /\ db.user[call[q].user] # "NONE"
                     /\ locks[q] = {<<"subject", call[q].subject>>, <<"deleted", call[q].user>>})
<1> DEFINE c == call[q]
           subject == <<"subject", c.subject>>
           deleted == <<"deleted", c.user>>
           upsert == Do("upsertIdentity", subject)
           linked == Do("linkedUser", deleted)
<1>1. Linking(q) /\ c.user \in Ids /\ c.subject \in Subjects
  BY DEF CourseInv, CallInv, OnCourse, Linking
<1>2. CASE Here(q, <<Look("linked"), upsert, linked, Finish>>, {})
  <2>1. Statement(q) = Look("linked") /\ Tail(c.plan) = <<upsert, linked, Finish>> /\ locks[q] = {}
    BY <1>2, HereIsFour
  <2>2. ReadLinked(q)
    BY <2>1, ByName, StatementsAre
  <2>3. Leave(q, "unchanged") \/ (See(q, Next1(c)))
    BY <1>1, <1>2, <2>1, <2>2 DEF ReadLinked
  <2>4. See(q, Next1(c)) =>
          Forward(q, <<upsert, linked, Finish>>, {}, c.user, c.roles, c.version)
    BY <2>1, Sees
  <2>5. Forward(q, <<upsert, linked, Finish>>, {}, c.user, c.roles, c.version)
          => Quiet(q)
    BY <1>1, <1>2 DEF Forward, OnCourse, Linking, Here, AllVerbs
  <2> QED BY <2>3, <2>4, <2>5, Leaves DEF Outcomes
<1>3. CASE Here(q, <<upsert, linked, Finish>>, {})
  <2>1. Statement(q) = upsert /\ Tail(c.plan) = <<linked, Finish>> /\ locks[q] = {}
    BY <1>3, HereIsThree
  <2>2. UpsertIdentity(q)
    BY <2>1, ByName, StatementsAre
  <2>3. subject \in Things
    BY <1>1, ThingsAre
  <2>4. Wanted(q) = {subject}
    BY <2>1, <2>3, Gains
  <2>5. locks[q] \cup Wanted(q) = {subject}
    BY <2>1, <2>4
  <2>6. (Free(q) /\ Go(q, Next1(c)))
    BY <1>1, <1>3, <2>1, <2>2 DEF UpsertIdentity, Take
  <2>7. Free(q) /\ Go(q, Next1(c)) =>
          Forward(q, <<linked, Finish>>, {subject}, c.user, c.roles, c.version)
    BY <2>1, <2>5, Gets
  <2>8. Forward(q, <<linked, Finish>>, {subject}, c.user, c.roles, c.version)
          => Quiet(q)
    BY <1>1, <1>3 DEF Forward, OnCourse, Linking, Here, AllVerbs
  <2> QED BY <2>6, <2>7, <2>8
<1>4. CASE Here(q, <<linked, Finish>>, {subject})
  <2>1. Statement(q) = linked /\ Tail(c.plan) = <<Finish>> /\ locks[q] = {subject}
    BY <1>4, HereIsTwo
  <2>2. CheckLinkedUser(q)
    BY <2>1, ByName, StatementsAre
  <2>3. deleted \in Things
    BY <1>1, ThingsAre
  <2>4. Wanted(q) = {deleted}
    BY <2>1, <2>3, Gains
  <2>5. locks[q] \cup Wanted(q) = {subject, deleted}
    BY <2>1, <2>4
  <2>6. Leave(q, "conflict") \/ (db.user[c.user] # "NONE" /\ Free(q) /\ Go(q, Next1(c)))
    BY <1>1, <1>4, <2>1, <2>2 DEF CheckLinkedUser
  <2>7. Free(q) /\ Go(q, Next1(c)) =>
          Forward(q, <<Finish>>, {subject, deleted}, c.user, c.roles, c.version)
    BY <2>1, <2>5, Gets
  <2>8. db.user[c.user] # "NONE" /\ Forward(q, <<Finish>>, {subject, deleted}, c.user, c.roles, c.version)
          => Quiet(q)
    BY <1>1, <1>4 DEF Forward, OnCourse, Linking, Here, AllVerbs
  <2> QED BY <2>6, <2>7, <2>8, Leaves DEF Outcomes
<1>5. CASE db.user[c.user] # "NONE" /\ Here(q, <<Finish>>, {subject, deleted})
  <2>1. Statement(q) = Finish
    BY <1>5, HereIsOne
  <2> QED BY <1>1, <1>5, <2>1, ByName, StatementsAre DEF Here
<1> QED BY <1>1, <1>2, <1>3, <1>4, <1>5 DEF Linking

(* Whose user the registration is for. *)
Callers(q) ==
  LET c == call[q] IN
  /\ c.subject \in Subjects /\ c.user \in Ids
  /\ \/ /\ c.user = q /\ db.identity[c.subject] = None
        /\ <<"subject", c.subject>> \in locks[q]
     \/ c.user # q /\ db.identity[c.subject] = c.user

LEMMA ForUserIs ==
  ASSUME CourseInv, NEW q \in Requests, pc[q] = "run", call[q].subject \in Subjects,
         NEW statements, NEW held, ForUser(q, statements, held)
  PROVE  /\ Callers(q) /\ call[q].user # None /\ held \subseteq locks[q]
         /\ \E h : Here(q, statements, h)
<1>1. q \in Ids /\ q # None
  BY NamesAssumption DEF Ids
<1>2. db.identity[call[q].subject] \in Ids \cup {None}
  BY DEF CourseInv, Typed, Database
<1>3. db.identity[call[q].subject] # q
  BY UnbornUnknown DEF Unborn
<1> QED BY <1>1, <1>2, <1>3 DEF ForUser, Callers, Here

LEMMA Appended ==
  /\ \A s, t : <<s>> \o <<t>> = <<s, t>>
  /\ \A s, t : Tail(<<s>>) \o <<t, Finish>> = <<t, Finish>>
  /\ \A s, s2, t : Tail(<<s, s2>>) \o <<t, Finish>> = <<s2, t, Finish>>
<1>1. ASSUME NEW s, NEW t
      PROVE  <<s>> \o <<t>> = <<s, t>>
  <2>1. <<s>> \in Seq({s, t}) /\ <<t>> \in Seq({s, t}) /\ <<s, t>> \in Seq({s, t})
    OBVIOUS
  <2>2. /\ Len(<<s>>) = 1 /\ Len(<<t>>) = 1 /\ Len(<<s, t>>) = 2
        /\ <<s>>[1] = s /\ <<t>>[1] = t /\ <<s, t>>[1] = s /\ <<s, t>>[2] = t
    OBVIOUS
  <2>3. /\ <<s>> \o <<t>> \in Seq({s, t}) /\ Len(<<s>> \o <<t>>) = 2
        /\ (<<s>> \o <<t>>)[1] = s /\ (<<s>> \o <<t>>)[2] = t
    BY <2>1, <2>2, ConcatProperties
  <2>4. \A i \in 1..2 : i = 1 \/ i = 2
    OBVIOUS
  <2> QED BY <2>1, <2>2, <2>3, <2>4, SeqEqual
<1>2. ASSUME NEW s, NEW t
      PROVE  Tail(<<s>>) \o <<t, Finish>> = <<t, Finish>>
  OBVIOUS
<1>3. ASSUME NEW s, NEW s2, NEW t
      PROVE  Tail(<<s, s2>>) \o <<t, Finish>> = <<s2, t, Finish>>
  <2> DEFINE S == {s2, t, Finish}
             r == <<s2>> \o <<t, Finish>>
  <2>1. <<s2>> \in Seq(S) /\ <<t, Finish>> \in Seq(S) /\ <<s2, t, Finish>> \in Seq(S)
    OBVIOUS
  <2>2. /\ Len(<<s2>>) = 1 /\ Len(<<t, Finish>>) = 2 /\ Len(<<s2, t, Finish>>) = 3
        /\ <<s2>>[1] = s2 /\ <<t, Finish>>[1] = t /\ <<t, Finish>>[2] = Finish
        /\ <<s2, t, Finish>>[1] = s2 /\ <<s2, t, Finish>>[2] = t /\ <<s2, t, Finish>>[3] = Finish
    OBVIOUS
  <2>3. r \in Seq(S) /\ Len(r) = 3 /\ r[1] = s2 /\ r[2] = t /\ r[3] = Finish
    BY <2>1, <2>2, ConcatProperties
  <2>4. \A i \in 1..3 : i = 1 \/ i = 2 \/ i = 3
    OBVIOUS
  <2>5. r = <<s2, t, Finish>>
    BY <2>1, <2>2, <2>3, <2>4, SeqEqual
  <2>6. Tail(<<s, s2>>) = <<s2>>
    OBVIOUS
  <2> QED BY <2>5, <2>6
<1> QED BY <1>1, <1>2, <1>3

(* It has run a statement that leaves it with the same user. *)
ForUserOn(q, rest, held) ==
  LET c == call[q] IN
  /\ UNCHANGED db /\ c.subject' = c.subject /\ c.user' = c.user
  /\ call'[q].plan = rest
  /\ \/ /\ c.user = q /\ db.identity[c.subject] = None
        /\ locks'[q] = held \cup {<<"subject", c.subject>>}
     \/ /\ c.user # None /\ db.identity[c.subject] = c.user
        /\ locks'[q] \in {held, held \cup {<<"user", c.user>>}}

LEMMA RegisterGoes ==
  ASSUME CourseInv, NEW q \in Requests, pc[q] = "run", call[q].verb = "register",
         call[q].subject \in Subjects, NEW statements, NEW held, ForUser(q, statements, held),
         NEW rest, NEW more, NEW held2, held \cup more = held2,
         \/ more = {} /\ See(q, Then(call[q], rest))
         \/ more = Wanted(q) /\ Free(q) /\ Go(q, Then(call[q], rest))
         \/ more = Wanted(q) /\ Free(q) /\ Go(q, Next1(call[q])) /\ Tail(call[q].plan) = rest
  PROVE  ForUserOn(q, rest, held2) /\ (Registering(q)' => Quiet(q))
<1> DEFINE c == call[q]
           h == locks[q] \cup more
<1>1. more = {} /\ See(q, Then(c, rest)) => Forward(q, rest, h, c.user, c.roles, c.version)
  <2>1. {} \cup locks[q] = locks[q] /\ locks[q] \cup {} = locks[q]
    OBVIOUS
  <2> QED BY <2>1, Sees
<1>2. more = Wanted(q) /\ Free(q) /\ Go(q, Then(c, rest)) =>
        Forward(q, rest, h, c.user, c.roles, c.version)
  BY Gets
<1>3. more = Wanted(q) /\ Free(q) /\ Go(q, Next1(c)) /\ Tail(c.plan) = rest =>
        Forward(q, rest, h, c.user, c.roles, c.version)
  BY Gets
<1>4. Forward(q, rest, h, c.user, c.roles, c.version)
  BY <1>1, <1>2, <1>3
<1>5. \A t : (held \cup {t}) \cup more = held2 \cup {t}
  OBVIOUS
<1>6. ForUserOn(q, rest, held2)
  BY <1>4, <1>5 DEF ForUser, Here, Forward, ForUserOn
<1> QED BY <1>4, <1>6 DEF Forward, OnCourse, AllVerbs

LEMMA RegisterRuns ==
  ASSUME CourseInv, NEW q \in Requests, pc[q] = "run", call[q].verb = "register", Run(q)
  PROVE  \/ Quiet(q)
         \/ CommitAsItWas(q) /\ Callers(q)
         \/ /\ CommitRegister(q) /\ Callers(q) /\ NoneOpen(call[q].user)
            /\ db.member[call[q].user] \in {"NONE", "PENDING"}
            /\ <<"member", call[q].user>> \in locks[q]
<1> DEFINE c == call[q]
           u == c.user
           w == db.identity[c.subject]
           member == <<"member", u>>
           open == <<"open", u>>
           subject == <<"subject", c.subject>>
           user == <<"user", u>>
           findMember == Do("findMember", member)
           findOfQ == Do("findMember", <<"member", q>>)
           findOfW == Do("findMember", <<"member", w>>)
           identity == Do("insertIdentity", subject)
           insertMember == Do("insertMember", member)
           insertRequest == Do("insertRequest", open)
<1>1. /\ Registering(q) /\ c.subject \in Subjects /\ q \in Ids /\ q # None /\ w # q
      /\ w \in Ids \cup {None} /\ u \in Ids \cup {None}
  <2>1. Registering(q) /\ c.subject \in Subjects
    BY DEF CourseInv, CallInv, OnCourse, Registering
  <2>2. q \in Ids /\ q # None
    BY NamesAssumption DEF Ids
  <2>3. w # q
    BY <2>1, UnbornUnknown DEF Unborn
  <2>4. w \in Ids \cup {None} /\ u \in Ids \cup {None}
    BY <2>1 DEF CourseInv, Typed, Framed, Database
  <2> QED BY <2>1, <2>2, <2>3, <2>4
<1>2. CASE Here(q, <<Look("token"), Look("findIdentity")>>, {})
  <2>1. Statement(q) = Look("token") /\ Tail(c.plan) = <<Look("findIdentity")>> /\ locks[q] = {}
    BY <1>2, HereIsTwo
  <2>2. CheckToken(q)
    BY <2>1, ByName, StatementsAre
  <2>3. Leave(q, "denied") \/ (See(q, Next1(c)))
    BY <1>1, <1>2, <2>1, <2>2 DEF CheckToken
  <2>4. See(q, Next1(c)) =>
          Forward(q, <<Look("findIdentity")>>, {}, c.user, c.roles, c.version)
    BY <2>1, Sees
  <2>5. Forward(q, <<Look("findIdentity")>>, {}, c.user, c.roles, c.version)
          => Quiet(q)
    BY <1>1, <1>2 DEF Forward, OnCourse, Registering, Here, AllVerbs
  <2> QED BY <2>3, <2>4, <2>5, Leaves DEF Outcomes
<1>3. CASE Here(q, <<Look("findIdentity")>>, {})
  <2>1. Statement(q) = Look("findIdentity") /\ Tail(c.plan) = <<>> /\ locks[q] = {}
    BY <1>3, HereIsOne
  <2>2. FindOwnIdentity(q)
    BY <2>1, ByName, StatementsAre
  <2>3. \/ Leave(q, "denied")
        \/ (See(q, Then([c EXCEPT !.user = q], <<identity, findOfQ>>)))
        \/ (w # None /\ See(q, Then([c EXCEPT !.user = w], <<findOfW>>)))
        \/ (w # None /\ See(q, Then([c EXCEPT !.user = w], <<Do("user", <<"user", w>>), findOfW>>)))
    BY <1>1, <1>3, <2>1, <2>2, Appended DEF FindOwnIdentity
  <2>4. See(q, Then([c EXCEPT !.user = q], <<identity, findOfQ>>)) =>
          Forward(q, <<identity, findOfQ>>, {}, q, c.roles, c.version)
    <3> DEFINE d == [c EXCEPT !.user = q]
               rest == <<identity, findOfQ>>
    <3>1. /\ Framed(d) /\ d.verb = c.verb /\ d.row = c.row /\ d.subject = c.subject
          /\ d.user = q /\ d.roles = c.roles /\ d.version = c.version
      BY <1>1, Assigned
    <3> HIDE DEF d, rest
    <3>2. See(q, Then(d, rest)) =>
            Forward(q, rest, {}, q, c.roles, c.version)
      BY <2>1, <3>1, Decides
    <3> QED BY <3>2 DEF d, rest
  <2>5. Forward(q, <<identity, findOfQ>>, {}, q, c.roles, c.version)
          => Quiet(q)
    BY <1>1, <1>3 DEF Forward, OnCourse, Registering, Here, AllVerbs, ForUser
  <2>6. See(q, Then([c EXCEPT !.user = w], <<findOfW>>)) =>
          Forward(q, <<findOfW>>, {}, w, c.roles, c.version)
    <3> DEFINE d == [c EXCEPT !.user = w]
               rest == <<findOfW>>
    <3>1. /\ Framed(d) /\ d.verb = c.verb /\ d.row = c.row /\ d.subject = c.subject
          /\ d.user = w /\ d.roles = c.roles /\ d.version = c.version
      BY <1>1, Assigned
    <3> HIDE DEF d, rest
    <3>2. See(q, Then(d, rest)) =>
            Forward(q, rest, {}, w, c.roles, c.version)
      BY <2>1, <3>1, Decides
    <3> QED BY <3>2 DEF d, rest
  <2>7. w # None /\ Forward(q, <<findOfW>>, {}, w, c.roles, c.version)
          => Quiet(q)
    BY <1>1, <1>3 DEF Forward, OnCourse, Registering, Here, AllVerbs, ForUser
  <2>8. See(q, Then([c EXCEPT !.user = w], <<Do("user", <<"user", w>>), findOfW>>)) =>
          Forward(q, <<Do("user", <<"user", w>>), findOfW>>, {}, w, c.roles, c.version)
    <3> DEFINE d == [c EXCEPT !.user = w]
               rest == <<Do("user", <<"user", w>>), findOfW>>
    <3>1. /\ Framed(d) /\ d.verb = c.verb /\ d.row = c.row /\ d.subject = c.subject
          /\ d.user = w /\ d.roles = c.roles /\ d.version = c.version
      BY <1>1, Assigned
    <3> HIDE DEF d, rest
    <3>2. See(q, Then(d, rest)) =>
            Forward(q, rest, {}, w, c.roles, c.version)
      BY <2>1, <3>1, Decides
    <3> QED BY <3>2 DEF d, rest
  <2>9. w # None /\ Forward(q, <<Do("user", <<"user", w>>), findOfW>>, {}, w, c.roles, c.version)
          => Quiet(q)
    BY <1>1, <1>3 DEF Forward, OnCourse, Registering, Here, AllVerbs, ForUser
  <2> QED BY <2>3, <2>4, <2>5, <2>6, <2>7, <2>8, <2>9, Leaves DEF Outcomes
<1>4. CASE u = q /\ Here(q, <<identity, findMember>>, {})
  <2>1. Statement(q) = identity /\ Tail(c.plan) = <<findMember>> /\ locks[q] = {}
    <3>1. Here(q, <<identity, findMember>>, {})
      BY <1>4
    <3> QED BY <3>1, HereIsTwo
  <2>2. InsertIdentity(q)
    BY <2>1, ByName, StatementsAre
  <2>3. subject \in Things
    BY <1>1, ThingsAre
  <2>4. Wanted(q) = {subject}
    BY <2>1, <2>3, Gains
  <2>5. locks[q] \cup Wanted(q) = {subject}
    BY <2>1, <2>4
  <2>6. Leave(q, "conflict") \/ (w = None /\ Free(q) /\ Go(q, Next1(c)))
    BY <1>1, <1>4, <2>1, <2>2 DEF InsertIdentity, Insert
  <2>7. Free(q) /\ Go(q, Next1(c)) =>
          Forward(q, <<findMember>>, {subject}, c.user, c.roles, c.version)
    BY <2>1, <2>5, Gets
  <2>8. w = None /\ Forward(q, <<findMember>>, {subject}, c.user, c.roles, c.version)
          => Quiet(q)
    BY <1>1, <1>4 DEF Forward, OnCourse, Registering, Here, AllVerbs, ForUser
  <2> QED BY <2>6, <2>7, <2>8, Leaves DEF Outcomes
<1>5. CASE u # None /\ w = u /\ Here(q, <<Do("user", user), findMember>>, {})
  <2>1. Statement(q) = Do("user", user) /\ Tail(c.plan) = <<findMember>> /\ locks[q] = {}
    <3>1. Here(q, <<Do("user", user), findMember>>, {})
      BY <1>5
    <3> QED BY <3>1, HereIsTwo
  <2>2. WriteUser(q)
    BY <2>1, ByName, StatementsAre
  <2>3. user \in Things
    BY <1>1, <1>5, ThingsAre
  <2>4. Wanted(q) = {user}
    BY <2>1, <2>3, Gains
  <2>5. locks[q] \cup Wanted(q) = {user}
    BY <2>1, <2>4
  <2>6. (Free(q) /\ Go(q, Next1(c)))
    BY <1>1, <1>5, <2>1, <2>2 DEF WriteUser, Take
  <2>7. Free(q) /\ Go(q, Next1(c)) =>
          Forward(q, <<findMember>>, {user}, c.user, c.roles, c.version)
    BY <2>1, <2>5, Gets
  <2>8. Forward(q, <<findMember>>, {user}, c.user, c.roles, c.version)
          => Quiet(q)
    BY <1>1, <1>5 DEF Forward, OnCourse, Registering, Here, AllVerbs, ForUser
  <2> QED BY <2>6, <2>7, <2>8
<1> HIDE DEF findOfQ, findOfW
<1>6. ASSUME NEW statements, NEW held, ForUser(q, statements, held)
      PROVE  /\ Callers(q) /\ u \in Ids /\ u # None /\ held \subseteq locks[q]
             /\ \E h : Here(q, statements, h)
             /\ member \in Things /\ open \in Things
  BY <1>1, <1>6, ForUserIs, ThingsAre DEF Callers
<1>7. db.member[u] \in {"NONE", "PENDING", "ACTIVE", "ENDED"} \/ u \notin Ids
  BY DEF CourseInv, Typed, Database
<1>8. CASE ForUser(q, <<findMember>>, {})
  <2>1. Statement(q) = findMember /\ u \in Ids /\ member \in Things
    BY <1>6, <1>8, HereIsOne
  <2>2. FindMember(q)
    BY <2>1, ByName, StatementsAre
  <2>3. /\ db.member[u] = "NONE" => Wanted(q) = {}
        /\ db.member[u] # "NONE" => Wanted(q) = {member}
    BY <2>1, StatementsAre, NamesAssumption DEF Wanted, NoSuchRow
  <2>4. /\ {} \cup {} = {} /\ {} \cup {member} = {member}
    OBVIOUS
  <2>5. CASE db.member[u] = "ENDED"
    BY <1>1, <2>2, <2>5, Leaves DEF FindMember, Outcomes
  <2>6. CASE db.member[u] = "ACTIVE"
    <3>1. Free(q) /\ Go(q, Then(c, <<Look("asItWas")>>))
      BY <2>2, <2>6 DEF FindMember
    <3>2. ForUserOn(q, <<Look("asItWas")>>, {member}) /\ (Registering(q)' => Quiet(q))
      BY <1>1, <1>8, <2>3, <2>4, <2>6, <3>1, RegisterGoes
    <3> QED BY <1>1, <3>2 DEF Registering, ForUser, ForUserOn, Here
  <2>7. CASE db.member[u] = "PENDING"
    <3>1. Free(q) /\ Go(q, Then(c, <<Look("findRequest")>>))
      BY <2>2, <2>7 DEF FindMember
    <3>2. ForUserOn(q, <<Look("findRequest")>>, {member}) /\ (Registering(q)' => Quiet(q))
      BY <1>1, <1>8, <2>3, <2>4, <2>7, <3>1, RegisterGoes
    <3> QED BY <1>1, <2>7, <3>2 DEF Registering, ForUser, ForUserOn, Here
  <2>8. CASE db.member[u] = "NONE"
    <3> DEFINE rest == <<Look("findRequest"), insertMember>>
    <3>1. Free(q) /\ Go(q, Then(c, rest))
      BY <2>2, <2>8 DEF FindMember
    <3> HIDE DEF rest
    <3>2. ForUserOn(q, rest, {}) /\ (Registering(q)' => Quiet(q))
      BY <1>1, <1>8, <2>3, <2>4, <2>8, <3>1, RegisterGoes
    <3> QED BY <1>1, <3>2 DEF Registering, ForUser, ForUserOn, Here, rest
  <2> QED BY <1>7, <2>1, <2>5, <2>6, <2>7, <2>8
<1>9. CASE ForUser(q, <<Look("asItWas")>>, {}) \/ ForUser(q, <<Look("asItWas")>>, {member})
  <2>1. Statement(q) = Look("asItWas") /\ Callers(q)
    BY <1>6, <1>9, HereIsOne
  <2> QED BY <2>1, ByName, StatementsAre
<1>10. CASE db.member[u] = "PENDING" /\ ForUser(q, <<Look("findRequest")>>, {member})
  <2> DEFINE rest == <<insertRequest, Finish>>
  <2>1. /\ Statement(q) = Look("findRequest") /\ u \in Ids /\ member \in Things
        /\ c.plan = <<Look("findRequest")>>
    <3>1. ForUser(q, <<Look("findRequest")>>, {member})
      BY <1>10
    <3>2. \E h : Here(q, <<Look("findRequest")>>, h)
      BY <1>6, <3>1
    <3> QED BY <1>6, <3>1, <3>2, HereIsOne DEF Here
  <2>2. FindRequest(q)
    BY <2>1, ByName, StatementsAre
  <2>3. {member} \cup {} = {member}
    OBVIOUS
  <2>4. CASE HasRequest(u)
    <3>1. See(q, Then(c, <<Look("asItWas")>>))
      BY <2>2, <2>4 DEF FindRequest
    <3>2. ForUserOn(q, <<Look("asItWas")>>, {member}) /\ (Registering(q)' => Quiet(q))
      BY <1>1, <1>10, <2>3, <3>1, RegisterGoes
    <3> QED BY <1>1, <3>2 DEF Registering, ForUser, ForUserOn, Here
  <2>5. CASE ~HasRequest(u)
    <3>0. Tail(c.plan) \o <<insertRequest, Finish>> = rest
      BY <2>1, Appended
    <3>1. See(q, Then(c, rest))
      BY <2>2, <2>5, <3>0 DEF FindRequest
    <3>2. NoneOpen(u)
      <4> SUFFICES ASSUME NEW x \in Ids, db.request[x].status \in {"PENDING", "APPROVED"},
                          db.request[x].user = u
                   PROVE  FALSE
        BY DEF NoneOpen
      <4>1. db.request[x] # NoRow
        BY DEF NoRow
      <4>2. db.request[x].status # "PENDING"
        BY <2>5, <4>1 DEF HasRequest
      <4>3. db.request[x].status = "APPROVED" => db.member[u] \in {"ACTIVE", "ENDED"}
        BY DEF CourseInv, Rows, InStep
      <4> QED BY <1>10, <4>2, <4>3
    <3> HIDE DEF rest
    <3>3. ForUserOn(q, rest, {member}) /\ (Registering(q)' => Quiet(q))
      BY <1>1, <1>10, <2>3, <3>1, RegisterGoes
    <3>4. NoneOpen(u)' /\ db'.member[u] = "PENDING"
      BY <1>10, <3>2, <3>3 DEF NoneOpen, ForUserOn
    <3> QED BY <1>1, <3>3, <3>4 DEF Registering, ForUser, ForUserOn, Here, rest
  <2> QED BY <2>4, <2>5
<1>11. CASE ForUser(q, <<Look("findRequest"), insertMember>>, {})
  <2> DEFINE rest == <<insertMember, insertRequest, Finish>>
  <2>1. /\ Statement(q) = Look("findRequest") /\ u \in Ids /\ c.plan = <<Look("findRequest"), insertMember>>
    <3>1. \E h : Here(q, <<Look("findRequest"), insertMember>>, h)
      BY <1>6, <1>11
    <3> QED BY <1>6, <1>11, <3>1, HereIsTwo DEF Here
  <2>2. FindRequest(q)
    BY <2>1, ByName, StatementsAre
  <2>3. {} \cup {} = {}
    OBVIOUS
  <2>4. CASE HasRequest(u)
    <3>1. See(q, Then(c, <<Look("asItWas")>>))
      BY <2>2, <2>4 DEF FindRequest
    <3>2. ForUserOn(q, <<Look("asItWas")>>, {}) /\ (Registering(q)' => Quiet(q))
      BY <1>1, <1>11, <2>3, <3>1, RegisterGoes
    <3> QED BY <1>1, <3>2 DEF Registering, ForUser, ForUserOn, Here
  <2>5. CASE ~HasRequest(u)
    <3>0. Tail(c.plan) \o <<insertRequest, Finish>> = rest
      BY <2>1, Appended
    <3>1. See(q, Then(c, rest))
      BY <2>2, <2>5, <3>0 DEF FindRequest
    <3> HIDE DEF rest
    <3>2. ForUserOn(q, rest, {}) /\ (Registering(q)' => Quiet(q))
      BY <1>1, <1>11, <2>3, <3>1, RegisterGoes
    <3> QED BY <1>1, <3>2 DEF Registering, ForUser, ForUserOn, Here, rest
  <2> QED BY <2>4, <2>5
<1>12. CASE ForUser(q, <<insertMember, insertRequest, Finish>>, {})
  <2> DEFINE rest == <<insertRequest, Finish>>
  <2>1. Statement(q) = insertMember /\ u \in Ids /\ member \in Things /\ Tail(c.plan) = rest
    <3>1. \E h : Here(q, <<insertMember, insertRequest, Finish>>, h)
      BY <1>6, <1>12
    <3> QED BY <1>6, <1>12, <3>1, HereIsThree
  <2>2. InsertMember(q)
    BY <2>1, ByName, StatementsAre
  <2>3. Wanted(q) = {member} /\ {} \cup {member} = {member}
    BY <2>1, Gains
  <2>4. CASE db.member[u] # "NONE"
    BY <2>2, <2>4, Leaves DEF InsertMember, Insert, Outcomes
  <2>5. CASE db.member[u] = "NONE"
    <3>1. Free(q) /\ Go(q, Next1(c))
      BY <2>2, <2>5 DEF InsertMember, Insert
    <3>2. NoneOpen(u)
      BY <2>5 DEF NoneOpen, CourseInv, Rows, InStep
    <3> HIDE DEF rest
    <3>3. ForUserOn(q, rest, {member}) /\ (Registering(q)' => Quiet(q))
      BY <1>1, <1>12, <2>1, <2>3, <3>1, RegisterGoes
    <3>4. NoneOpen(u)' /\ db'.member[u] = "NONE"
      BY <2>5, <3>2, <3>3 DEF NoneOpen, ForUserOn
    <3> QED BY <1>1, <3>3, <3>4 DEF Registering, ForUser, ForUserOn, Here, rest
  <2> QED BY <2>4, <2>5
<1>13. CASE /\ NoneOpen(u) /\ db.member[u] \in {"NONE", "PENDING"}
            /\ ForUser(q, <<insertRequest, Finish>>, {member})
  <2> DEFINE rest == <<Finish>>
  <2>1. Statement(q) = insertRequest /\ u \in Ids /\ open \in Things /\ Tail(c.plan) = rest
    <3>1. ForUser(q, <<insertRequest, Finish>>, {member})
      BY <1>13
    <3>2. \E h : Here(q, <<insertRequest, Finish>>, h)
      BY <1>6, <3>1
    <3> QED BY <1>6, <3>1, <3>2, HereIsTwo
  <2>2. InsertRequest(q)
    BY <2>1, ByName, StatementsAre
  <2>3. Wanted(q) = {open} /\ {member} \cup {open} = {member, open}
    BY <2>1, Gains
  <2>4. Leave(q, "conflict") \/ (Free(q) /\ Go(q, Next1(c)))
    BY <2>2 DEF InsertRequest, Insert
  <2>5. CASE Free(q) /\ Go(q, Next1(c))
    <3> HIDE DEF rest
    <3>1. ForUserOn(q, rest, {member, open}) /\ (Registering(q)' => Quiet(q))
      BY <1>1, <1>13, <2>1, <2>3, <2>5, RegisterGoes
    <3>2. NoneOpen(u)' /\ db'.member[u] \in {"NONE", "PENDING"}
      BY <1>13, <3>1 DEF NoneOpen, ForUserOn
    <3> QED BY Zenon, <1>1, <3>1, <3>2 DEF Registering, ForUser, ForUserOn, Here, rest
  <2> QED BY <2>4, <2>5, Leaves DEF Outcomes
<1>14. CASE /\ NoneOpen(u) /\ db.member[u] \in {"NONE", "PENDING"}
            /\ ForUser(q, <<Finish>>, {member, open})
  <2>1. ForUser(q, <<Finish>>, {member, open})
    BY <1>14
  <2>2. Statement(q) = Finish /\ Callers(q) /\ member \in locks[q]
    BY <1>6, <2>1, HereIsOne
  <2> QED BY <1>14, <2>2, ByName, StatementsAre
<1> QED BY <1>1, <1>2, <1>3, <1>4, <1>5, <1>8, <1>9, <1>10, <1>11, <1>12, <1>13, <1>14 DEF Registering

(* It has run a statement of what is left for the user it has decided on. *)
AdmittingOn(q, held) ==
  LET c == call[q]
      user == <<"user", c.user>>
      member == <<"member", c.user>>
      On(rest, h) == Forward(q, rest, h, c.user, c.roles, c.version)
  IN
  \/ Asks(q) /\ (On(<<Do("user", user), Finish>>, held) \/ On(<<Finish>>, held \cup {user}))
  \/ /\ ~Asks(q)
     /\ \/ On(<<Do("user", user), Do("member", member), Finish>>, held)
        \/ On(<<Do("member", member), Finish>>, held \cup {user})
        \/ On(<<Finish>>, held \cup {user, member})

LEMMA AdmittingRuns ==
  ASSUME CourseInv, NEW q \in Requests, pc[q] = "run", call[q].verb = "accept", Run(q),
         call[q].user \in Ids, NEW held, Admitting(q, held)
  PROVE  \/ AdmittingOn(q, held)
         \/ /\ CommitAccept(q) /\ held \subseteq locks[q]
            /\ Asks(q) \/ <<"member", call[q].user>> \in locks[q]
<1> DEFINE c == call[q]
           user == <<"user", c.user>>
           member == <<"member", c.user>>
           writeUser == Do("user", user)
           touch == Do("member", member)
           three == <<writeUser, touch, Finish>>
           two == <<writeUser, Finish>>
           last == <<touch, Finish>>
<1>1. user \in Things /\ member \in Things
  BY ThingsAre
<1>2. CASE Here(q, <<Look("access")>>, held)
  <2>1. Statement(q) = Look("access") /\ locks[q] = held
    BY <1>2, HereIsOne
  <2>2. ValidateAccess(q)
    BY <2>1, ByName, StatementsAre
  <2>3. (Asks(q) /\ See(q, Then(c, two))) \/ (~Asks(q) /\ See(q, Then(c, three)))
    BY <2>2 DEF ValidateAccess
  <2> HIDE DEF two, three
  <2>4. /\ See(q, Then(c, two)) => Forward(q, two, held, c.user, c.roles, c.version)
        /\ See(q, Then(c, three)) => Forward(q, three, held, c.user, c.roles, c.version)
    BY <2>1, Sees
  <2> QED BY <2>3, <2>4 DEF AdmittingOn, two, three
<1>3. CASE Asks(q) /\ Here(q, <<writeUser, Finish>>, held)
  <2>1. Statement(q) = writeUser /\ Tail(c.plan) = <<Finish>> /\ locks[q] = held
    <3>1. Here(q, <<writeUser, Finish>>, held)
      BY <1>3
    <3> QED BY <3>1, HereIsTwo
  <2>2. WriteUser(q)
    BY <2>1, ByName, StatementsAre
  <2>3. locks[q] \cup Wanted(q) = held \cup {user}
    BY <1>1, <2>1, Gains
  <2>4. Free(q) /\ Go(q, Next1(c))
    BY <2>2 DEF WriteUser, Take
  <2>5. Forward(q, <<Finish>>, held \cup {user}, c.user, c.roles, c.version)
    BY <2>1, <2>3, <2>4, Gets
  <2> QED BY <1>3, <2>5 DEF AdmittingOn
<1>4. CASE Asks(q) /\ Here(q, <<Finish>>, held \cup {user})
  <2>1. Statement(q) = Finish /\ locks[q] = held \cup {user}
    <3>1. Here(q, <<Finish>>, held \cup {user})
      BY <1>4
    <3> QED BY <3>1, HereIsOne
  <2> QED BY <1>4, <2>1, ByName, StatementsAre
<1>5. CASE ~Asks(q) /\ Here(q, <<writeUser, touch, Finish>>, held)
  <2>1. Statement(q) = writeUser /\ Tail(c.plan) = last /\ locks[q] = held
    <3>1. Here(q, <<writeUser, touch, Finish>>, held)
      BY <1>5
    <3> QED BY <3>1, HereIsThree
  <2>2. WriteUser(q)
    BY <2>1, ByName, StatementsAre
  <2>3. locks[q] \cup Wanted(q) = held \cup {user}
    BY <1>1, <2>1, Gains
  <2>4. Free(q) /\ Go(q, Next1(c))
    BY <2>2 DEF WriteUser, Take
  <2> HIDE DEF last
  <2>5. Forward(q, last, held \cup {user}, c.user, c.roles, c.version)
    BY <2>1, <2>3, <2>4, Gets
  <2> QED BY <1>5, <2>5 DEF AdmittingOn, last
<1>6. CASE ~Asks(q) /\ Here(q, <<touch, Finish>>, held \cup {user})
  <2>1. Statement(q) = touch /\ Tail(c.plan) = <<Finish>> /\ locks[q] = held \cup {user}
    <3>1. Here(q, <<touch, Finish>>, held \cup {user})
      BY <1>6
    <3> QED BY <3>1, HereIsTwo
  <2>2. TouchMember(q)
    BY <2>1, ByName, StatementsAre
  <2>3. locks[q] \cup Wanted(q) = held \cup {user, member}
    BY <1>1, <2>1, Gains
  <2>4. Free(q) /\ Go(q, Next1(c))
    BY <2>2 DEF TouchMember, Take
  <2>5. Forward(q, <<Finish>>, held \cup {user, member}, c.user, c.roles, c.version)
    BY <2>1, <2>3, <2>4, Gets
  <2> QED BY <1>6, <2>5 DEF AdmittingOn
<1>7. CASE ~Asks(q) /\ Here(q, <<Finish>>, held \cup {user, member})
  <2>1. Statement(q) = Finish /\ locks[q] = held \cup {user, member}
    <3>1. Here(q, <<Finish>>, held \cup {user, member})
      BY <1>7
    <3> QED BY <3>1, HereIsOne
  <2> QED BY <1>7, <2>1, ByName, StatementsAre
<1> QED BY <1>2, <1>3, <1>4, <1>5, <1>6, <1>7 DEF Admitting

LEMMA AdmittingGoes ==
  ASSUME NEW q, NEW held, AdmittingOn(q, held)
  PROVE  /\ Admitting(q, held)'
         /\ Forward(q, call'[q].plan, locks'[q], call[q].user, call[q].roles, call[q].version)
<1> DEFINE c == call[q]
<1>1. Forward(q, call'[q].plan, locks'[q], c.user, c.roles, c.version)
  BY DEF AdmittingOn, Forward
<1>2. c.user' = c.user /\ (Asks(q)' <=> Asks(q))
  BY <1>1 DEF Forward, Asks
<1> QED BY <1>1, <1>2 DEF AdmittingOn, Admitting, Forward, Here

(* The acceptance of an invitation that is locked and still PENDING. *)
Taking(q) ==
  LET c == call[q] IN
  /\ c.row \in Ids /\ c.subject \in Subjects /\ PendingInvitation(c.row)
  /\ c.roles = db.invitation[c.row].roles
  /\ <<"invitation", c.row>> \in locks[q]

(* It goes on with user w. *)
Onward(q, w) ==
  LET c == call[q] IN
  /\ UNCHANGED db /\ c.verb' = c.verb /\ c.row' = c.row /\ c.subject' = c.subject
  /\ c.user' = w /\ c.roles' = c.roles /\ (OnCourse(q)' => Quiet(q))

LEMMA AcceptGoes ==
  ASSUME CourseInv, NEW q \in Requests, call[q].verb = "accept", Taking(q), NEW w, Onward(q, w)
  PROVE  AsInvited(q)' \/ AsKnown(q)' => Quiet(q)
<1>1. db.invitation[call[q].row] # NoRow
  BY DEF Taking, PendingInvitation, NoRow
<1> QED BY <1>1 DEF Onward, OnCourse, Accepting, Taking, PendingInvitation, AllVerbs

(* What an acceptance relies on when it commits. *)
Concluding(q) ==
  LET c == call[q]
      v == db.invitation[c.row].user
  IN
  /\ Taking(q) /\ c.user \in Ids
  /\ Asks(q) \/ <<"member", c.user>> \in locks[q]
  /\ \/ /\ c.user = v
        /\ \/ db.identity[c.subject] = c.user
           \/ db.identity[c.subject] = None /\ <<"subject", c.subject>> \in locks[q]
     \/ /\ c.user # v /\ db.identity[c.subject] = c.user
        /\ NotInvited(c.user) /\ db.member[c.user] = "NONE"
        /\ Unknown(v) /\ db.member[v] = "PENDING"
        /\ {<<"member", v>>, <<"member", c.user>>, <<"user", v>>, <<"deleted", v>>} \subseteq locks[q]

LEMMA AsInvitedRuns ==
  ASSUME CourseInv, NEW q \in Requests, pc[q] = "run", call[q].verb = "accept", Run(q),
         Taking(q), AsInvited(q)
  PROVE  Quiet(q) \/ (CommitAccept(q) /\ Concluding(q))
<1> DEFINE c == call[q]
           u == c.user
           w == db.identity[c.subject]
           invitation == <<"invitation", c.row>>
           subject == <<"subject", c.subject>>
           identity == Do("insertIdentity", subject)
           rest == <<identity, Look("access")>>
           known == <<Look("noMembership"), Do("member", <<"member", u>>),
                       Do("insertMember", <<"member", w>>), Do("user", <<"user", u>>),
                       Do("dropInvited", <<"deleted", u>>),
                       Do("dropPrincipal", <<"principal", u>>), Look("access")>>
<1>1. /\ c.subject \in Subjects /\ w \in Ids \cup {None} /\ u \in Ids /\ u # None
      /\ u = db.invitation[c.row].user
  BY NamesAssumption DEF Taking, PendingInvitation, CourseInv, Typed, Framed, Database, Invitations, NoRow, AsInvited
<1>2. CASE Here(q, <<Look("findIdentity")>>, {invitation})
  <2>1. Statement(q) = Look("findIdentity") /\ locks[q] = {invitation}
    BY <1>2, HereIsOne
  <2>2. FindInvitedIdentity(q)
    BY <2>1, ByName, StatementsAre
  <2>3. \/ Leave(q, "denied")
        \/ w = None /\ See(q, Then(c, rest))
        \/ w = u /\ See(q, Then(c, <<Look("access")>>))
        \/ w \notin {None, u} /\ See(q, Then([c EXCEPT !.user = w], known))
    BY <2>2 DEF FindInvitedIdentity
  <2>4. CASE w = None /\ See(q, Then(c, rest))
    <3> HIDE DEF rest
    <3>1. Forward(q, rest, {invitation}, c.user, c.roles, c.version)
      BY Zenon, <2>1, <2>4, Sees
    <3>2. Onward(q, u) /\ call'[q].plan = rest /\ locks'[q] = {invitation}
      BY <3>1 DEF Forward, Onward
    <3>3. AsInvited(q)' => Quiet(q)
      BY <3>2, AcceptGoes
    <3> QED BY <1>1, <2>4, <3>2, <3>3 DEF AsInvited, Here, Onward, rest
  <2>5. CASE w = u /\ See(q, Then(c, <<Look("access")>>))
    <3>1. Forward(q, <<Look("access")>>, {invitation}, c.user, c.roles, c.version)
      BY <2>1, <2>5, Sees
    <3>2. Onward(q, u) /\ call'[q].plan = <<Look("access")>> /\ locks'[q] = {invitation}
      BY <3>1 DEF Forward, Onward
    <3>3. AsInvited(q)' => Quiet(q)
      BY <3>2, AcceptGoes
    <3> QED BY Zenon, <1>1, <2>5, <3>2, <3>3 DEF AsInvited, Admitting, Here, Onward
  <2>6. CASE w \notin {None, u} /\ See(q, Then([c EXCEPT !.user = w], known))
    <3> DEFINE d == [c EXCEPT !.user = w]
    <3>1. /\ Framed(d) /\ d.verb = c.verb /\ d.row = c.row /\ d.subject = c.subject
          /\ d.user = w /\ d.roles = c.roles /\ d.version = c.version
      BY <1>1, Assigned
    <3> HIDE DEF d, known
    <3>2. Forward(q, known, {invitation}, w, c.roles, c.version)
      BY <2>1, <2>6, <3>1, Decides DEF d
    <3>3. Onward(q, w) /\ call'[q].plan = known /\ locks'[q] = {invitation}
      BY <3>2 DEF Forward, Onward
    <3>4. AsKnown(q)' => Quiet(q)
      BY <3>3, AcceptGoes
    <3> QED BY <1>1, <2>6, <3>3, <3>4 DEF AsKnown, Here, Onward, known
  <2> QED BY <2>3, <2>4, <2>5, <2>6, Leaves DEF Outcomes
<1>3. CASE Here(q, <<identity, Look("access")>>, {invitation})
  <2>1. Statement(q) = identity /\ locks[q] = {invitation} /\ Tail(c.plan) = <<Look("access")>>
    BY <1>3, HereIsTwo
  <2>2. InsertIdentity(q)
    BY <2>1, ByName, StatementsAre
  <2>3. subject \in Things
    BY <1>1, ThingsAre
  <2>4. Wanted(q) = {subject}
    BY <2>1, <2>3, Gains
  <2>5. locks[q] \cup Wanted(q) = {invitation, subject}
    BY <2>1, <2>4
  <2>6. Leave(q, "conflict") \/ (w = None /\ Free(q) /\ Go(q, Next1(c)))
    BY <2>2 DEF InsertIdentity, Insert
  <2>7. CASE w = None /\ Free(q) /\ Go(q, Next1(c))
    <3>1. Forward(q, <<Look("access")>>, {invitation, subject}, c.user, c.roles, c.version)
      BY <2>1, <2>5, <2>7, Gets
    <3>2. Onward(q, u) /\ call'[q].plan = <<Look("access")>> /\ locks'[q] = {invitation, subject}
      BY <3>1 DEF Forward, Onward
    <3>3. AsInvited(q)' => Quiet(q)
      BY <3>2, AcceptGoes
    <3> QED BY Zenon, <1>1, <2>7, <3>2, <3>3 DEF AsInvited, Admitting, Here, Onward
  <2> QED BY <2>6, <2>7, Leaves DEF Outcomes
<1>4. ASSUME NEW held, Admitting(q, held), invitation \in held
      PROVE  \/ CommitAccept(q) /\ Taking(q) /\ held \subseteq locks[q]
                /\ (Asks(q) \/ <<"member", u>> \in locks[q])
             \/ Admitting(q, held)' /\ Onward(q, u) /\ (AsInvited(q)' => Quiet(q))
  <2>1. CASE AdmittingOn(q, held)
    <3>1. Onward(q, u) /\ Admitting(q, held)'
      BY <2>1, AdmittingGoes DEF Forward, Onward
    <3> QED BY <3>1, AcceptGoes
  <2>2. CASE CommitAccept(q) /\ held \subseteq locks[q] /\ (Asks(q) \/ <<"member", u>> \in locks[q])
    BY <2>2
  <2> QED BY <1>1, <1>4, <2>1, <2>2, AdmittingRuns
<1>5. ASSUME NEW held, held = {invitation}, w = u, Admitting(q, held)
      PROVE  Quiet(q) \/ (CommitAccept(q) /\ Concluding(q))
  <2>1. Onward(q, u) /\ Admitting(q, held)' => AsInvited(q)'
    <3>1. Onward(q, u) => u' = u /\ w' = w /\ u' = db'.invitation[c.row'].user /\ {<<"invitation", c.row>>}' = held
      BY <1>1, <1>5 DEF Onward
    <3> QED BY Zenon, <1>5, <3>1 DEF AsInvited, Admitting, Here
  <2> QED BY <1>1, <1>4, <1>5, <2>1 DEF Concluding
<1>6. ASSUME NEW held, held = {invitation, subject}, w = None, Admitting(q, held)
      PROVE  Quiet(q) \/ (CommitAccept(q) /\ Concluding(q))
  <2>1. Onward(q, u) /\ Admitting(q, held)' => AsInvited(q)'
    <3>1. Onward(q, u) => /\ u' = u /\ w' = w /\ u' = db'.invitation[c.row'].user
                          /\ {<<"invitation", c.row>>, <<"subject", c.subject>>}' = held
      BY <1>1, <1>6 DEF Onward
    <3> QED BY Zenon, <1>6, <3>1 DEF AsInvited, Admitting, Here
  <2> QED BY <1>1, <1>4, <1>6, <2>1 DEF Concluding
<1> QED BY <1>1, <1>2, <1>3, <1>5, <1>6 DEF AsInvited

LEMMA AsKnownRuns ==
  ASSUME CourseInv, NEW q \in Requests, pc[q] = "run", call[q].verb = "accept", Run(q),
         Taking(q), AsKnown(q)
  PROVE  Quiet(q) \/ (CommitAccept(q) /\ Concluding(q))
<1> DEFINE c == call[q]
           u == c.user
           v == db.invitation[c.row].user
           invitation == <<"invitation", c.row>>
           memberOfV == Do("member", <<"member", v>>)
           memberOfU == Do("insertMember", <<"member", u>>)
           userV == Do("user", <<"user", v>>)
           drop == Do("dropInvited", <<"deleted", v>>)
           principal == Do("dropPrincipal", <<"principal", v>>)
           h1 == {invitation}
           h2 == {invitation, <<"member", v>>}
           h3 == {invitation, <<"member", v>>, <<"member", u>>}
           h4 == {invitation, <<"member", v>>, <<"member", u>>, <<"user", v>>}
           h5 == {invitation, <<"member", v>>, <<"member", u>>, <<"user", v>>, <<"deleted", v>>}
           h6 == {invitation, <<"member", v>>, <<"member", u>>, <<"user", v>>, <<"deleted", v>>,
                  <<"principal", v>>}
           r1 == <<memberOfV, memberOfU, userV, drop, principal, Look("access")>>
           r2 == <<memberOfU, userV, drop, principal, Look("access")>>
           r3 == <<userV, drop, principal, Look("access")>>
           r4 == <<drop, principal, Look("access")>>
           r5 == <<principal, Look("access")>>
           r6 == <<Look("access")>>
<1>1. /\ c.subject \in Subjects /\ v \in Ids /\ u \in Ids /\ u # v
      /\ db.identity[c.subject] = u
  BY DEF Taking, PendingInvitation, CourseInv, Typed, Framed, Database, Invitations, NoRow, AsKnown
<1>2. ASSUME NEW rest, NEW held, Forward(q, rest, held, u, c.roles, c.version)
      PROVE  /\ UNCHANGED db /\ c.row' = c.row /\ c.subject' = c.subject /\ u' = u
             /\ call'[q].plan = rest /\ locks'[q] = held /\ (AsKnown(q)' => Quiet(q))
  <2>1. Onward(q, u) /\ call'[q].plan = rest /\ locks'[q] = held
    BY <1>2 DEF Forward, Onward
  <2>2. AsKnown(q)' => Quiet(q)
    BY <2>1, AcceptGoes
  <2> QED BY <2>1, <2>2 DEF Onward
<1>3. /\ <<"member", v>> \in Things /\ <<"member", u>> \in Things /\ <<"user", v>> \in Things
      /\ <<"deleted", v>> \in Things /\ <<"principal", v>> \in Things
  BY <1>1, ThingsAre
<1>4. CASE Here(q, <<Look("noMembership"), memberOfV, memberOfU, userV, drop, principal, Look("access")>>, h1)
  <2>1. Statement(q) = Look("noMembership") /\ Tail(c.plan) = r1 /\ locks[q] = h1
    <3>1. Here(q, <<Look("noMembership"), memberOfV, memberOfU, userV, drop, principal, Look("access")>>, h1)
      BY <1>4
    <3> QED BY <3>1, HereIsSeven
  <2>2. NoMembership(q)
    BY <2>1, ByName, StatementsAre
  <2> HIDE DEF r1
  <2>5. Leave(q, "denied") \/ (db.member[u] = "NONE" /\ See(q, Next1(c)))
    BY <2>1, <2>2 DEF NoMembership
  <2>6. See(q, Next1(c)) => Forward(q, r1, h1, u, c.roles, c.version)
    BY Zenon, <2>1, Sees
  <2>7. db.member[u] = "NONE" => NotInvited(u)
    BY <1>1 DEF NotInvited, PendingInvitation, CourseInv, Rows, InStep
  <2>8. NotInvited(u) /\ Forward(q, r1, h1, u, c.roles, c.version) => Quiet(q)
    <3> SUFFICES ASSUME NotInvited(u), Forward(q, r1, h1, u, c.roles, c.version)
                 PROVE  Quiet(q)
      OBVIOUS
    <3>1. /\ UNCHANGED db /\ c.row' = c.row /\ c.subject' = c.subject /\ u' = u
          /\ call'[q].plan = r1 /\ locks'[q] = h1 /\ (AsKnown(q)' => Quiet(q))
      <4> HIDE DEF h1
      <4> QED BY <1>2
    <3>2. NotInvited(u)'
      BY <3>1 DEF NotInvited, Unknown, PendingInvitation
    <3> QED BY Zenon, <1>1, <3>1, <3>2 DEF AsKnown, Admitting, Here, r1
  <2> QED BY <1>4, <2>5, <2>6, <2>8, <2>7, Leaves DEF Outcomes
<1>5. CASE NotInvited(u) /\ Here(q, <<memberOfV, memberOfU, userV, drop, principal, Look("access")>>, h1)
  <2>1. Statement(q) = memberOfV /\ Tail(c.plan) = r2 /\ locks[q] = h1
    <3>1. Here(q, <<memberOfV, memberOfU, userV, drop, principal, Look("access")>>, h1)
      BY <1>5
    <3> QED BY <3>1, HereIsSix
  <2>2. TouchMember(q)
    BY <2>1, ByName, StatementsAre
  <2> HIDE DEF r2
  <2>3. Wanted(q) = {<<"member", v>>}
    BY <1>3, <2>1, Gains
  <2>4. locks[q] \cup Wanted(q) = h2
    BY <2>1, <2>3
  <2>5. (Free(q) /\ Go(q, Next1(c)))
    BY <2>1, <2>2 DEF TouchMember, Take
  <2>6. Free(q) /\ Go(q, Next1(c)) => Forward(q, r2, h2, u, c.roles, c.version)
    <3> HIDE DEF h2
    <3> QED BY Zenon, <2>1, <2>4, Gets
  <2>8. NotInvited(u) /\ Forward(q, r2, h2, u, c.roles, c.version) => Quiet(q)
    <3> SUFFICES ASSUME NotInvited(u), Forward(q, r2, h2, u, c.roles, c.version)
                 PROVE  Quiet(q)
      OBVIOUS
    <3>1. /\ UNCHANGED db /\ c.row' = c.row /\ c.subject' = c.subject /\ u' = u
          /\ call'[q].plan = r2 /\ locks'[q] = h2 /\ (AsKnown(q)' => Quiet(q))
      <4> HIDE DEF h2
      <4> QED BY <1>2
    <3>2. NotInvited(u)'
      BY <3>1 DEF NotInvited, Unknown, PendingInvitation
    <3> QED BY Zenon, <1>1, <3>1, <3>2 DEF AsKnown, Admitting, Here, r2
  <2> QED BY <1>5, <2>5, <2>6, <2>8
<1>6. CASE NotInvited(u) /\ Here(q, <<memberOfU, userV, drop, principal, Look("access")>>, h2)
  <2>1. Statement(q) = memberOfU /\ Tail(c.plan) = r3 /\ locks[q] = h2
    <3>1. Here(q, <<memberOfU, userV, drop, principal, Look("access")>>, h2)
      BY <1>6
    <3> QED BY <3>1, HereIsFive
  <2>2. InsertMember(q)
    BY <2>1, ByName, StatementsAre
  <2> HIDE DEF r3
  <2>3. Wanted(q) = {<<"member", u>>}
    BY <1>3, <2>1, Gains
  <2>4. locks[q] \cup Wanted(q) = h3
    BY <2>1, <2>3
  <2>5. Leave(q, "conflict") \/ (db.member[u] = "NONE" /\ Free(q) /\ Go(q, Next1(c)))
    BY <2>1, <2>2 DEF InsertMember, Insert
  <2>6. Free(q) /\ Go(q, Next1(c)) => Forward(q, r3, h3, u, c.roles, c.version)
    <3> HIDE DEF h3
    <3> QED BY Zenon, <2>1, <2>4, Gets
  <2>8. NotInvited(u) /\ db.member[u] = "NONE" /\ Forward(q, r3, h3, u, c.roles, c.version) => Quiet(q)
    <3> SUFFICES ASSUME NotInvited(u) /\ db.member[u] = "NONE", Forward(q, r3, h3, u, c.roles, c.version)
                 PROVE  Quiet(q)
      OBVIOUS
    <3>1. /\ UNCHANGED db /\ c.row' = c.row /\ c.subject' = c.subject /\ u' = u
          /\ call'[q].plan = r3 /\ locks'[q] = h3 /\ (AsKnown(q)' => Quiet(q))
      <4> HIDE DEF h3
      <4> QED BY <1>2
    <3>2. NotInvited(u)'
      BY <3>1 DEF NotInvited, Unknown, PendingInvitation
    <3> QED BY Zenon, <1>1, <3>1, <3>2 DEF AsKnown, Admitting, Here, r3
  <2> QED BY <1>6, <2>5, <2>6, <2>8, Leaves DEF Outcomes
<1>7. CASE NotInvited(u) /\ db.member[u] = "NONE" /\ Here(q, <<userV, drop, principal, Look("access")>>, h3)
  <2>1. Statement(q) = userV /\ Tail(c.plan) = r4 /\ locks[q] = h3
    <3>1. Here(q, <<userV, drop, principal, Look("access")>>, h3)
      BY <1>7
    <3> QED BY <3>1, HereIsFour
  <2>2. WriteUser(q)
    BY <2>1, ByName, StatementsAre
  <2> HIDE DEF r4
  <2>3. Wanted(q) = {<<"user", v>>}
    BY <1>3, <2>1, Gains
  <2>4. locks[q] \cup Wanted(q) = h4
    BY <2>1, <2>3
  <2>5. (Free(q) /\ Go(q, Next1(c)))
    BY <2>1, <2>2 DEF WriteUser, Take
  <2>6. Free(q) /\ Go(q, Next1(c)) => Forward(q, r4, h4, u, c.roles, c.version)
    <3> HIDE DEF h4
    <3> QED BY Zenon, <2>1, <2>4, Gets
  <2>8. NotInvited(u) /\ db.member[u] = "NONE" /\ Forward(q, r4, h4, u, c.roles, c.version) => Quiet(q)
    <3> SUFFICES ASSUME NotInvited(u) /\ db.member[u] = "NONE", Forward(q, r4, h4, u, c.roles, c.version)
                 PROVE  Quiet(q)
      OBVIOUS
    <3>1. /\ UNCHANGED db /\ c.row' = c.row /\ c.subject' = c.subject /\ u' = u
          /\ call'[q].plan = r4 /\ locks'[q] = h4 /\ (AsKnown(q)' => Quiet(q))
      <4> HIDE DEF h4
      <4> QED BY <1>2
    <3>2. NotInvited(u)'
      BY <3>1 DEF NotInvited, Unknown, PendingInvitation
    <3> QED BY Zenon, <1>1, <3>1, <3>2 DEF AsKnown, Admitting, Here, r4
  <2> QED BY <1>7, <2>5, <2>6, <2>8
<1>8. CASE NotInvited(u) /\ db.member[u] = "NONE" /\ Here(q, <<drop, principal, Look("access")>>, h4)
  <2>1. Statement(q) = drop /\ Tail(c.plan) = r5 /\ locks[q] = h4
    <3>1. Here(q, <<drop, principal, Look("access")>>, h4)
      BY <1>8
    <3> QED BY <3>1, HereIsThree
  <2>2. DropInvited(q)
    BY <2>1, ByName, StatementsAre
  <2> HIDE DEF r5
  <2>3. Wanted(q) = {<<"deleted", v>>}
    BY <1>3, <2>1, Gains
  <2>4. locks[q] \cup Wanted(q) = h5
    BY <2>1, <2>3
  <2>5. Leave(q, "conflict") \/ (~Referenced(v) /\ Free(q) /\ Go(q, Next1(c)))
    BY <2>1, <2>2, StatementsAre DEF DropInvited
  <2>6. Free(q) /\ Go(q, Next1(c)) => Forward(q, r5, h5, u, c.roles, c.version)
    <3> HIDE DEF h5
    <3> QED BY Zenon, <2>1, <2>4, Gets
  <2>7. ~Referenced(v) => Unknown(v) /\ db.member[v] = "PENDING"
    BY Zenon, <1>1 DEF Referenced, Unknown, Taking, PendingInvitation, CourseInv, Rows, InStep
  <2>8. NotInvited(u) /\ db.member[u] = "NONE" /\ Unknown(v) /\ db.member[v] = "PENDING" /\ Forward(q, r5, h5, u, c.roles, c.version) => Quiet(q)
    <3> SUFFICES ASSUME NotInvited(u) /\ db.member[u] = "NONE" /\ Unknown(v) /\ db.member[v] = "PENDING", Forward(q, r5, h5, u, c.roles, c.version)
                 PROVE  Quiet(q)
      OBVIOUS
    <3>1. /\ UNCHANGED db /\ c.row' = c.row /\ c.subject' = c.subject /\ u' = u
          /\ call'[q].plan = r5 /\ locks'[q] = h5 /\ (AsKnown(q)' => Quiet(q))
      <4> HIDE DEF h5
      <4> QED BY <1>2
    <3>2. NotInvited(u)' /\ Unknown(v)'
      BY <3>1 DEF NotInvited, Unknown, PendingInvitation
    <3> QED BY Zenon, <1>1, <3>1, <3>2 DEF AsKnown, Admitting, Here, r5
  <2> QED BY <1>8, <2>5, <2>6, <2>8, <2>7, Leaves DEF Outcomes
<1>9. CASE NotInvited(u) /\ db.member[u] = "NONE" /\ Unknown(v) /\ db.member[v] = "PENDING" /\ Here(q, <<principal, Look("access")>>, h5)
  <2>1. Statement(q) = principal /\ Tail(c.plan) = r6 /\ locks[q] = h5
    <3>1. Here(q, <<principal, Look("access")>>, h5)
      BY <1>9
    <3> QED BY <3>1, HereIsTwo
  <2>2. DropPrincipal(q)
    BY <2>1, ByName, StatementsAre
  <2> HIDE DEF r6
  <2>3. Wanted(q) = {<<"principal", v>>}
    BY <1>3, <2>1, Gains
  <2>4. locks[q] \cup Wanted(q) = h6
    BY <2>1, <2>3
  <2>5. (Free(q) /\ Go(q, Next1(c)))
    BY <2>1, <2>2 DEF DropPrincipal, Take
  <2>6. Free(q) /\ Go(q, Next1(c)) => Forward(q, r6, h6, u, c.roles, c.version)
    <3> HIDE DEF h6
    <3> QED BY Zenon, <2>1, <2>4, Gets
  <2>8. NotInvited(u) /\ db.member[u] = "NONE" /\ Unknown(v) /\ db.member[v] = "PENDING" /\ Forward(q, r6, h6, u, c.roles, c.version) => Quiet(q)
    <3> SUFFICES ASSUME NotInvited(u) /\ db.member[u] = "NONE" /\ Unknown(v) /\ db.member[v] = "PENDING", Forward(q, r6, h6, u, c.roles, c.version)
                 PROVE  Quiet(q)
      OBVIOUS
    <3>1. /\ UNCHANGED db /\ c.row' = c.row /\ c.subject' = c.subject /\ u' = u
          /\ call'[q].plan = r6 /\ locks'[q] = h6 /\ (AsKnown(q)' => Quiet(q))
      <4> HIDE DEF h6
      <4> QED BY <1>2
    <3>2. NotInvited(u)' /\ Unknown(v)'
      BY <3>1 DEF NotInvited, Unknown, PendingInvitation
    <3> QED BY Zenon, <1>1, <3>1, <3>2 DEF AsKnown, Admitting, Here, r6
  <2> QED BY <1>9, <2>5, <2>6, <2>8
<1>10. ASSUME NEW held, held = h6, NotInvited(u), db.member[u] = "NONE", Unknown(v),
              db.member[v] = "PENDING", Admitting(q, held)
      PROVE  Quiet(q) \/ (CommitAccept(q) /\ Concluding(q))
  <2>1. CASE AdmittingOn(q, held)
    <3>1. Onward(q, u) /\ Admitting(q, held)'
      BY <2>1, AdmittingGoes DEF Forward, Onward
    <3>2. AsKnown(q)' => Quiet(q)
      BY <3>1, AcceptGoes
    <3>3. /\ NotInvited(u)' /\ Unknown(v)' /\ u' = u /\ v' = v /\ c.subject' = c.subject
          /\ UNCHANGED db /\ h6' = held
      BY <1>10, <3>1 DEF NotInvited, Unknown, PendingInvitation, Onward
    <3> QED BY Zenon, <1>1, <1>10, <3>1, <3>2, <3>3 DEF AsKnown, Admitting, Here
  <2>2. CASE CommitAccept(q) /\ held \subseteq locks[q] /\ (Asks(q) \/ <<"member", u>> \in locks[q])
    BY <1>1, <1>10, <2>2 DEF Concluding
  <2> QED BY <1>1, <1>10, <2>1, <2>2, AdmittingRuns
<1> QED BY Zenon, <1>4, <1>5, <1>6, <1>7, <1>8, <1>9, <1>10 DEF AsKnown

LEMMA AcceptRuns ==
  ASSUME CourseInv, NEW q \in Requests, pc[q] = "run", call[q].verb = "accept", Run(q)
  PROVE  \/ Quiet(q)
         \/ CommitAccept(q) /\ Concluding(q)
         \/ /\ ExpireInvitation(q) /\ call[q].row \in Ids /\ PendingInvitation(call[q].row)
            /\ <<"invitation", call[q].row>> \in locks[q]
<1> DEFINE c == call[q]
           u == db.invitation[c.row].user
           rs == db.invitation[c.row].roles
           invitation == <<"invitation", c.row>>
           expire == <<Look("expire")>>
           find == <<Look("findIdentity")>>
<1>1. /\ Accepting(q) /\ c.row \in Ids /\ db.invitation[c.row] # NoRow /\ c.subject \in Subjects
      /\ u \in Ids /\ rs \in SUBSET Roles
  BY DEF CourseInv, CallInv, OnCourse, Accepting, Typed, Database, Invitations
<1>2. CASE Here(q, <<Do("lockInvitation", invitation)>>, {})
  <2> DEFINE d == [c EXCEPT !.user = u, !.roles = rs]
  <2>1. Statement(q) = Do("lockInvitation", invitation) /\ locks[q] = {}
    BY <1>2, HereIsOne
  <2>2. LockInvitation(q)
    BY <2>1, ByName, StatementsAre
  <2>3. locks[q] \cup Wanted(q) = {invitation}
    <3>1. invitation \in Things
      BY <1>1, ThingsAre
    <3> QED BY <2>1, <3>1, Gains
  <2>4. \/ Leave(q, "denied")
        \/ PendingInvitation(c.row) /\ Free(q) /\ Go(q, Then(c, expire))
        \/ PendingInvitation(c.row) /\ Free(q) /\ Go(q, Then(d, find))
    BY <2>2 DEF LockInvitation, AfterInvitation, PendingInvitation
  <2>5. CASE PendingInvitation(c.row) /\ Free(q) /\ Go(q, Then(c, expire))
    <3> HIDE DEF expire
    <3>1. Forward(q, expire, {invitation}, c.user, c.roles, c.version)
      BY <2>3, <2>5, Gets
    <3>2. Accepting(q)'
      BY <1>1, <2>5, <3>1 DEF Forward, Accepting, Here, PendingInvitation, expire
    <3> QED BY <3>1, <3>2 DEF Forward, OnCourse, AllVerbs
  <2>6. CASE PendingInvitation(c.row) /\ Free(q) /\ Go(q, Then(d, find))
    <3>1. /\ Framed(d) /\ d.verb = c.verb /\ d.row = c.row /\ d.subject = c.subject
          /\ d.user = u /\ d.roles = rs /\ d.version = c.version
      <4>1. Framed(c)
        BY DEF CourseInv, Typed
      <4> QED BY <1>1, <4>1 DEF Framed
    <3> HIDE DEF d, find
    <3>2. Forward(q, find, {invitation}, u, rs, c.version)
      BY <2>3, <2>6, <3>1, Decides
    <3>3. AsInvited(q)'
      BY <1>1, <3>2 DEF Forward, AsInvited, Here, find
    <3>4. Accepting(q)'
      BY <1>1, <2>6, <3>2, <3>3 DEF Forward, Accepting, PendingInvitation
    <3> QED BY <3>2, <3>4 DEF Forward, OnCourse, AllVerbs
  <2> QED BY <2>4, <2>5, <2>6, Leaves DEF Outcomes
<1>3. CASE PendingInvitation(c.row) /\ Here(q, <<Look("expire")>>, {invitation})
  <2>1. Statement(q) = Look("expire") /\ locks[q] = {invitation}
    <3>1. Here(q, <<Look("expire")>>, {invitation})
      BY <1>3
    <3> QED BY <3>1, HereIsOne
  <2> QED BY <1>1, <1>3, <2>1, ByName, StatementsAre
<1>4. CASE PendingInvitation(c.row) /\ c.roles = rs /\ AsInvited(q)
  <2>1. invitation \in locks[q]
    BY <1>4 DEF AsInvited, Admitting, Here
  <2> QED BY <1>1, <1>4, <2>1, AsInvitedRuns DEF Taking
<1>5. CASE PendingInvitation(c.row) /\ c.roles = rs /\ AsKnown(q)
  <2>1. invitation \in locks[q]
    BY Zenon, <1>5 DEF AsKnown, Admitting, Here
  <2> QED BY <1>1, <1>5, <2>1, AsKnownRuns DEF Taking
<1> QED BY <1>1, <1>2, <1>3, <1>4, <1>5 DEF Accepting
==============================================================================
