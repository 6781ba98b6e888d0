--------------------------- MODULE TenantRbac_proof ---------------------------
(***************************************************************************)
(* For any number of concurrent calls, users, groups and roles: privileged *)
(* roles come by an independent approval only, a decision is final, and a  *)
(* change of what a user has directly bumps the user's version.  The       *)
(* invariant says, of the calls that matter here, which statements they    *)
(* have left and what they hold locked meanwhile.                          *)
(***************************************************************************)
EXTENDS TenantRbac, FiniteSetTheorems, TLAPS

-----------------------------------------------------------------------------
(* The invariant. *)

Fields == {"verb", "key", "object", "request", "actor", "users", "plan"}

(* As much of the types as the proofs need. *)
Shape ==
  /\ DOMAIN locks = Requests /\ DOMAIN pc = Requests /\ DOMAIN call = Requests
  /\ \A q \in Requests : Fields \subseteq DOMAIN call[q]
  /\ req \in [RequestIds -> PrivilegedRequests \cup {NoRequest}]

(* No two calls hold the same row or unique key. *)
Exclusive == \A q, r \in Requests : q # r => locks[q] \cap locks[r] = {}

(* A call's own request is there only once the call has ended. *)
Fresh == \A q \in Requests : pc[q] \in {"idle", "run"} => req[q] = NoRequest

(* A request that is locked is pending, and is the one the call decides. *)
LockedIsPending ==
  \A q \in Requests, x \in RequestIds :
    <<"request", x>> \in locks[q] =>
      /\ call[q].verb \in {"approve", "reject"} /\ call[q].actor \in Actors
      /\ call[q].request = x
      /\ req[x].status = "PENDING"

(* The statements of calls that neither ask for a privileged role nor      *)
(* decide on it.                                                           *)
Statements ==
  {"group", "role", "permission", "user", "exists", "read", "affected", "module", "references",
   "write", "bump"}

(* The rows that give something to u directly. *)
Own(u) == {<<"member", g, u>> : g \in Groups} \cup {<<"userRole", u, ro>> : ro \in Roles}

(* The statements left to a change of such a row until it is written. *)
OwnPlans ==
  {<<"group", "user", "exists", "write", "bump">>,
   <<"role", "user", "role", "exists", "write", "bump">>,
   <<"user", "role", "exists", "write", "bump">>,
   <<"role", "exists", "write", "bump">>,
   <<"user", "exists", "write", "bump">>,
   <<"exists", "write", "bump">>,
   <<"write", "bump">>}
ApprovalPlans ==
  {<<"user", "role", "grantee", "write", "bump">>, <<"role", "grantee", "write", "bump">>,
   <<"grantee", "write", "bump">>, <<"write", "bump">>}
AskPlans ==
  {<<"role", "user", "exists", "pending", "file">>, <<"user", "exists", "pending", "file">>,
   <<"exists", "pending", "file">>, <<"pending", "file">>, <<"file">>, <<"reselect">>, <<>>}

(* The row is written: the version of u is bumped or will be. *)
Bumping(q, u) ==
  \/ call[q].plan = <<"bump">> /\ call[q].users = {u}
  \/ call[q].plan \in {<<"bump">>, <<>>} /\ <<"version", u>> \in locks[q]

(* Only an approval writes a privileged role of a user. *)
Change(q) ==
  /\ call[q].verb = "add" =>
       \A u \in Users, ro \in Privileged : call[q].key # <<"userRole", u, ro>>
  /\ \A u \in Users : call[q].key \in Own(u) =>
       \/ call[q].plan \in OwnPlans /\ call[q].users = {u}
       \/ Bumping(q, u)

(* Past its first statement an approval holds the request, which an        *)
(* independent administrator decides.                                      *)
Approval(q) ==
  LET c == call[q]
      r == req[c.request]
  IN
  /\ c.request \in RequestIds /\ c.actor \in Actors
  /\ \/ /\ c.plan = <<"lock", "user", "role", "grantee", "write", "bump">>
        /\ locks[q] = {}
     \/ /\ <<"request", c.request>> \in locks[q]
        /\ c.key = <<"userRole", r.user, r.role>>
        /\ Independent(r, c.actor)
        /\ \/ c.plan \in ApprovalPlans /\ c.users = {r.user} /\ locks[q] \cap Keys = {}
           \/ c.plan = <<>> /\ locks[q] \cap Keys = {}
           \/ Bumping(q, r.user)

Asking(q) ==
  /\ call[q].plan \in AskPlans
  /\ \E u \in Users, ro \in Roles : call[q].key = <<"userRole", u, ro>>
  /\ call[q].actor \in Actors
  /\ locks[q] \cap Keys = {}

Rejection(q) ==
  /\ call[q].plan \in {<<"lock">>, <<>>}
  /\ call[q].request \in RequestIds /\ call[q].actor \in Actors
  /\ locks[q] \cap Keys = {}

OnTrack(q) ==
  /\ call[q].verb \in AllVerbs
  /\ call[q].verb \notin {"ask", "approve", "reject"} => call[q].plan \in Seq(Statements)
  /\ call[q].verb \in {"status", "catalog"} =>
       call[q].object \in Objects /\ locks[q] \cap Keys = {}
  /\ call[q].verb \in {"add", "remove", "template", "approve"} =>
       locks[q] \cap Keys \subseteq {call[q].key}
  /\ call[q].verb \in {"add", "remove", "template"} => call[q].key \in Keys
  /\ call[q].verb \in {"add", "remove"} => Change(q)
  /\ call[q].verb = "template" => \A u \in Users : call[q].key \notin Own(u)
  /\ call[q].verb = "ask" => Asking(q)
  /\ call[q].verb = "approve" => Approval(q)
  /\ call[q].verb = "reject" => Rejection(q)

Inv ==
  /\ Shape
  /\ Exclusive
  /\ Fresh
  /\ LockedIsPending
  /\ \A q \in Requests : IF pc[q] = "run" THEN OnTrack(q) ELSE locks[q] = {}

-----------------------------------------------------------------------------
(* Facts about keys and plans. *)

LEMMA Tags ==
  /\ <<"module">> \notin Keys
  /\ \A x : <<"status", x>> \notin Keys /\ <<"version", x>> \notin Keys
            /\ <<"request", x>> \notin Keys
  /\ \A x, y : <<"pending", x, y>> \notin Keys
  /\ \A x : <<"request", x>> # <<"module">>
  /\ \A x, y : <<"request", x>> # <<"status", y>> /\ <<"request", x>> # <<"version", y>>
  /\ \A x, y, z : <<"request", x>> # <<"pending", y, z>> /\ <<"request", x>> # <<"userRole", y, z>>
BY DEF Keys

LEMMA Tails ==
  /\ \A x : Head(<<x>>) = x /\ Tail(<<x>>) = <<>>
  /\ \A x, y : Head(<<x, y>>) = x /\ Tail(<<x, y>>) = <<y>>
  /\ \A x, y, z : Head(<<x, y, z>>) = x /\ Tail(<<x, y, z>>) = <<y, z>>
  /\ \A x, y, z, v : Head(<<x, y, z, v>>) = x /\ Tail(<<x, y, z, v>>) = <<y, z, v>>
  /\ \A x, y, z, v, w :
       Head(<<x, y, z, v, w>>) = x /\ Tail(<<x, y, z, v, w>>) = <<y, z, v, w>>
  /\ \A x, y, z, v, w, s :
       Head(<<x, y, z, v, w, s>>) = x /\ Tail(<<x, y, z, v, w, s>>) = <<y, z, v, w, s>>
OBVIOUS

(* Head and tail of a plan. *)
LEMMA PlanTail ==
  ASSUME NEW S, NEW p \in Seq(S), p # <<>>
  PROVE  Head(p) \in S /\ Tail(p) \in Seq(S)
OBVIOUS

LEMMA Again ==
  ASSUME NEW S, NEW p \in Seq(S)
  PROVE  Tail(<<"bump">> \o p) = p
OBVIOUS

-----------------------------------------------------------------------------
(* What the steps of a call have in common. *)

(* Call q, which has not ended, alone takes the step; it gets nothing that *)
(* another call holds, and no lock on a request beyond those it had.       *)
Frame(q) ==
  /\ UNCHANGED committed
  /\ DOMAIN locks' = Requests /\ DOMAIN pc' = Requests /\ DOMAIN call' = Requests
  /\ Fields \subseteq DOMAIN call'[q]
  /\ pc[q] \in {"idle", "run"} /\ pc'[q] # "idle"
  /\ \A r \in Requests \ {q} :
       /\ pc'[r] = pc[r] /\ call'[r] = call[r] /\ locks'[r] = locks[r]
       /\ locks'[q] \cap locks[r] = {}

LEMMA FrameStep ==
  ASSUME Inv, NEW q \in Requests, Frame(q),
         \A x \in RequestIds : <<"request", x>> \in locks'[q] =>
           /\ call'[q].verb \in {"approve", "reject"} /\ call'[q].actor \in Actors
           /\ call'[q].request = x
           /\ req[x].status = "PENDING",
         IF pc'[q] = "run" THEN OnTrack(q)' ELSE locks'[q] = {}
  PROVE  Inv'
<1>1. req' = req /\ UNCHANGED committed
  BY DEF Frame, committed
<1>2. Shape'
  BY <1>1 DEF Inv, Shape, Frame
<1>3. Exclusive' /\ Fresh'
  BY <1>1 DEF Inv, Shape, Exclusive, Fresh, Frame
<1>4. LockedIsPending'
  <2>1. ASSUME NEW r \in Requests, NEW x \in RequestIds, <<"request", x>> \in locks'[r]
        PROVE  /\ call'[r].verb \in {"approve", "reject"} /\ call'[r].actor \in Actors
               /\ call'[r].request = x
               /\ req'[x].status = "PENDING"
    BY <1>1, <2>1 DEF Inv, LockedIsPending, Frame
  <2> QED BY <2>1 DEF LockedIsPending
<1>5. ASSUME NEW r \in Requests
      PROVE  (IF pc[r] = "run" THEN OnTrack(r) ELSE locks[r] = {})'
  <2>1. CASE r = q
    BY <2>1
  <2>2. CASE r # q
    <3>1. req' = req /\ pc'[r] = pc[r] /\ call'[r] = call[r] /\ locks'[r] = locks[r]
      BY <1>1, <2>2 DEF Frame
    <3>2. OnTrack(r)' = OnTrack(r)
      <4>1. Change(r)' = Change(r) /\ Asking(r)' = Asking(r) /\ Rejection(r)' = Rejection(r)
        BY <3>1 DEF Change, Bumping, Asking, Rejection
      <4>2. Approval(r)' = Approval(r)
        BY <3>1 DEF Approval, Bumping
      <4> QED BY <3>1, <4>1, <4>2 DEF OnTrack
    <3> QED BY <3>1, <3>2 DEF Inv
  <2> QED BY <2>1, <2>2
<1> QED BY <1>2, <1>3, <1>4, <1>5 DEF Inv

LEMMA LeaveStep ==
  ASSUME Inv, NEW q \in Requests, pc[q] = "run", NEW outcome \in Outcomes, Leave(q, outcome)
  PROVE  Inv'
<1>1. /\ UNCHANGED committed
      /\ pc' = [pc EXCEPT ![q] = outcome] /\ locks' = [locks EXCEPT ![q] = {}]
      /\ call' = [call EXCEPT ![q] = Blank] /\ outcome \notin {"idle", "run"}
  BY DEF Leave, Outcomes
<1>2. Fields \subseteq DOMAIN Blank
  BY DEF Fields, Blank
<1>3. Frame(q) /\ locks'[q] = {} /\ pc'[q] # "run"
  BY <1>1, <1>2 DEF Frame, Inv, Shape
<1> QED BY <1>3, FrameStep

(* A statement other than the commit: the call goes on as c says.          *)
LEMMA AdvanceFrame ==
  ASSUME Inv, NEW q \in Requests, NEW c, pc[q] = "run", Advance(q, c),
         Fields \subseteq DOMAIN c,
         \/ locks' = locks
         \/ locks' = [locks EXCEPT ![q] = {}]
         \/ \E S : Take(q, S)
  PROVE  /\ Frame(q)
         /\ pc'[q] = "run"
         /\ call'[q] = [c EXCEPT !.plan = Tail(c.plan)]
         /\ call'[q].plan = Tail(c.plan)
         /\ \A f \in Fields \ {"plan"} : call'[q][f] = c[f]
<1>1. /\ UNCHANGED <<committed, pc>>
      /\ call' = [call EXCEPT ![q] = [c EXCEPT !.plan = Tail(c.plan)]]
  BY DEF Advance
<1>2. /\ call'[q] = [c EXCEPT !.plan = Tail(c.plan)]
      /\ \A r \in Requests \ {q} : call'[r] = call[r]
      /\ DOMAIN call' = Requests
  BY <1>1 DEF Inv, Shape
<1>3. Fields \subseteq DOMAIN call'[q] /\ "plan" \in DOMAIN c
  BY <1>2 DEF Fields
<1>4. /\ DOMAIN locks' = Requests
      /\ \A r \in Requests \ {q} : locks'[r] = locks[r] /\ locks'[q] \cap locks[r] = {}
  BY DEF Take, Held, Inv, Shape, Exclusive
<1> QED BY <1>1, <1>2, <1>3, <1>4 DEF Frame, Fields, Inv, Shape

(* As above, for a call that keeps who decides what, and gets no request. *)
LEMMA AdvanceStep ==
  ASSUME Inv, NEW q \in Requests, NEW c, pc[q] = "run", Advance(q, c),
         Fields \subseteq DOMAIN c,
         c.verb = call[q].verb, c.actor = call[q].actor, c.request = call[q].request,
         \/ locks' = locks
         \/ locks' = [locks EXCEPT ![q] = {}]
         \/ \E S : Take(q, S) /\ \A x \in RequestIds : <<"request", x>> \notin S,
         OnTrack(q)'
  PROVE  Inv'
<1>1. /\ Frame(q) /\ pc'[q] = "run"
      /\ \A f \in Fields \ {"plan"} : call'[q][f] = c[f]
  BY AdvanceFrame
<1>2. /\ call'[q].verb = call[q].verb /\ call'[q].actor = call[q].actor
      /\ call'[q].request = call[q].request
  BY <1>1 DEF Fields
<1>3. \A x \in RequestIds : <<"request", x>> \in locks'[q] => <<"request", x>> \in locks[q]
  BY DEF Take, Inv, Shape
<1> QED BY <1>1, <1>2, <1>3, FrameStep DEF Inv, LockedIsPending

(* What At tells. *)
LEMMA AtHead ==
  ASSUME Inv, NEW q \in Requests, NEW s, s # "commit", At(q, s)
  PROVE  /\ pc[q] = "run" /\ OnTrack(q)
         /\ call[q].plan # <<>> /\ Head(call[q].plan) = s
         /\ Fields \subseteq DOMAIN call[q]
         /\ call[q].verb \notin {"ask", "approve", "reject"} =>
              s \in Statements /\ Tail(call[q].plan) \in Seq(Statements)
<1>1. pc[q] = "run" /\ OnTrack(q) /\ Fields \subseteq DOMAIN call[q]
  BY DEF At, Inv, Shape
<1>2. call[q].plan # <<>> /\ Head(call[q].plan) = s
  BY DEF At, Statement
<1>3. ASSUME call[q].verb \notin {"ask", "approve", "reject"}
      PROVE  s \in Statements /\ Tail(call[q].plan) \in Seq(Statements)
  <2>1. call[q].plan \in Seq(Statements)
    BY <1>1, <1>3 DEF OnTrack
  <2> QED BY <1>2, <2>1, PlanTail
<1> QED BY <1>1, <1>2, <1>3

-----------------------------------------------------------------------------
(* Calls arrive. *)

(* A call as it starts. *)
Ready(c) ==
  /\ Fields \subseteq DOMAIN c
  /\ c.verb \notin {"ask", "approve", "reject"} => c.plan \in Seq(Statements)
  /\ c.verb \in {"status", "catalog"} => c.object \in Objects
  /\ c.verb \in {"add", "remove", "template"} => c.key \in Keys
  /\ c.verb = "add" => \A u \in Users, ro \in Privileged : c.key # <<"userRole", u, ro>>
  /\ c.verb \in {"add", "remove"} =>
       \A u \in Users : c.key \in Own(u) => c.plan \in OwnPlans /\ c.users = {u}
  /\ c.verb = "template" => \A u \in Users : c.key \notin Own(u)
  /\ c.verb = "ask" =>
       /\ c.plan \in AskPlans /\ c.actor \in Actors
       /\ \E u \in Users, ro \in Roles : c.key = <<"userRole", u, ro>>
  /\ c.verb = "approve" =>
       /\ c.plan = <<"lock", "user", "role", "grantee", "write", "bump">>
       /\ c.request \in RequestIds /\ c.actor \in Actors
  /\ c.verb = "reject" =>
       c.plan = <<"lock">> /\ c.request \in RequestIds /\ c.actor \in Actors

LEMMA BeginStep ==
  ASSUME Inv, NEW q \in Requests, NEW c, Ready(c), Begin(q, c)
  PROVE  Inv'
<1>1. /\ pc[q] = "idle" /\ c.verb \in AllVerbs /\ locks[q] = {}
      /\ pc' = [pc EXCEPT ![q] = "run"] /\ call' = [call EXCEPT ![q] = c]
      /\ UNCHANGED <<committed, locks>>
  BY InputAssumption DEF Begin, Inv
<1>2. pc'[q] = "run" /\ call'[q] = c /\ locks'[q] = {}
  BY <1>1 DEF Inv, Shape
<1>3. Frame(q)
  BY <1>1, <1>2 DEF Frame, Inv, Shape, Ready
<1>4. /\ c.verb \in {"add", "remove"} => Change(q)'
      /\ c.verb = "ask" => Asking(q)'
      /\ c.verb = "reject" => Rejection(q)'
  BY <1>2 DEF Ready, Change, Asking, Rejection
<1>5. c.verb = "approve" => Approval(q)'
  BY <1>2 DEF Ready, Approval
<1>6. OnTrack(q)'
  BY <1>1, <1>2, <1>4, <1>5 DEF Ready, OnTrack
<1> QED BY <1>2, <1>3, <1>6, FrameStep

LEMMA AllPlans ==
  /\ OwnPlans \subseteq Seq(Statements)
  /\ <<"bump">> \in Seq(Statements)
  /\ <<"group", "role", "exists", "write", "affected", "bump">> \in Seq(Statements)
  /\ <<"permission", "role", "exists", "write", "affected", "bump">> \in Seq(Statements)
  /\ <<"affected", "write", "bump">> \in Seq(Statements)
  /\ <<"read", "affected", "write", "bump">> \in Seq(Statements)
  /\ <<"permission", "write", "affected", "bump">> \in Seq(Statements)
  /\ <<"module", "write">> \in Seq(Statements)
  /\ <<"module", "references", "write">> \in Seq(Statements)
BY DEF OwnPlans, Statements

LEMMA KeyKinds ==
  /\ \A g \in Groups, u \in Users : <<"member", g, u>> \in Keys
  /\ \A g \in Groups, ro \in Roles : <<"groupRole", g, ro>> \in Keys
  /\ \A u \in Users, ro \in Roles : <<"userRole", u, ro>> \in Keys
  /\ \A ro \in Roles, p \in Perms : <<"rolePerm", ro, p>> \in Keys
BY DEF Keys

(* Whose direct row a key is. *)
LEMMA Owners ==
  ASSUME NEW u \in Users
  PROVE  /\ \A g \in Groups, w \in Users : <<"member", g, w>> \in Own(u) => u = w
         /\ \A w \in Users, ro \in Roles : <<"userRole", w, ro>> \in Own(u) => u = w
         /\ \A x, y : <<"groupRole", x, y>> \notin Own(u) /\ <<"rolePerm", x, y>> \notin Own(u)
         /\ \A x, y, v, w : <<"member", x, y>> # <<"userRole", v, w>>
         /\ \A x, y, v, w : <<"groupRole", x, y>> # <<"userRole", v, w>>
         /\ \A x, y, v, w : <<"rolePerm", x, y>> # <<"userRole", v, w>>
BY DEF Own

LEMMA ChangesBegin ==
  ASSUME Inv, NEW q \in Requests,
         \/ AddGroupMember(q) \/ RemoveGroupMember(q)
         \/ AssignGroupRole(q) \/ RemoveGroupRole(q)
         \/ AddRolePermission(q) \/ RemoveRolePermission(q)
         \/ RemoveUserRole(q)
  PROVE  Inv'
<1>1. CASE AddGroupMember(q)
  <2>1. PICK g \in Groups, u \in Users :
          Begin(q, Add(<<"member", g, u>>, {u}, <<"group", "user", "exists", "write", "bump">>))
    BY <1>1 DEF AddGroupMember
  <2>2. Ready(Add(<<"member", g, u>>, {u}, <<"group", "user", "exists", "write", "bump">>))
    BY AllPlans, Owners, KeyKinds DEF Ready, Add, Remove, Blank, Fields, OwnPlans
  <2> QED BY <2>1, <2>2, BeginStep
<1>2. CASE RemoveGroupMember(q)
  <2>1. PICK g \in Groups, u \in Users :
          Begin(q, Remove(<<"member", g, u>>, {u}, <<"write", "bump">>))
    BY <1>2 DEF RemoveGroupMember
  <2>2. Ready(Remove(<<"member", g, u>>, {u}, <<"write", "bump">>))
    BY AllPlans, Owners, KeyKinds DEF Ready, Add, Remove, Blank, Fields, OwnPlans
  <2> QED BY <2>1, <2>2, BeginStep
<1>3. CASE AssignGroupRole(q)
  <2>1. PICK g \in Groups, ro \in Roles :
          Begin(q, Add(<<"groupRole", g, ro>>, {},
                       <<"group", "role", "exists", "write", "affected", "bump">>))
    BY <1>3 DEF AssignGroupRole
  <2>2. Ready(Add(<<"groupRole", g, ro>>, {},
                  <<"group", "role", "exists", "write", "affected", "bump">>))
    BY AllPlans, Owners, KeyKinds DEF Ready, Add, Remove, Blank, Fields
  <2> QED BY <2>1, <2>2, BeginStep
<1>4. CASE RemoveGroupRole(q)
  <2>1. PICK g \in Groups, ro \in Roles :
          Begin(q, Remove(<<"groupRole", g, ro>>, {}, <<"affected", "write", "bump">>))
    BY <1>4 DEF RemoveGroupRole
  <2>2. Ready(Remove(<<"groupRole", g, ro>>, {}, <<"affected", "write", "bump">>))
    BY AllPlans, Owners, KeyKinds DEF Ready, Add, Remove, Blank, Fields
  <2> QED BY <2>1, <2>2, BeginStep
<1>5. CASE AddRolePermission(q)
  <2>1. PICK ro \in Roles, p \in Perms :
          Begin(q, Add(<<"rolePerm", ro, p>>, {},
                       <<"permission", "role", "exists", "write", "affected", "bump">>))
    BY <1>5 DEF AddRolePermission
  <2>2. Ready(Add(<<"rolePerm", ro, p>>, {},
                  <<"permission", "role", "exists", "write", "affected", "bump">>))
    BY AllPlans, Owners, KeyKinds DEF Ready, Add, Remove, Blank, Fields
  <2> QED BY <2>1, <2>2, BeginStep
<1>6. CASE RemoveRolePermission(q)
  <2>1. PICK ro \in Roles, p \in Perms :
          Begin(q, Remove(<<"rolePerm", ro, p>>, {}, <<"affected", "write", "bump">>))
    BY <1>6 DEF RemoveRolePermission
  <2>2. Ready(Remove(<<"rolePerm", ro, p>>, {}, <<"affected", "write", "bump">>))
    BY AllPlans, Owners, KeyKinds DEF Ready, Add, Remove, Blank, Fields
  <2> QED BY <2>1, <2>2, BeginStep
<1>7. CASE RemoveUserRole(q)
  <2>1. PICK u \in Users, ro \in Roles :
          Begin(q, Remove(<<"userRole", u, ro>>, {u}, <<"write", "bump">>))
    BY <1>7 DEF RemoveUserRole
  <2>2. Ready(Remove(<<"userRole", u, ro>>, {u}, <<"write", "bump">>))
    BY AllPlans, Owners, KeyKinds DEF Ready, Add, Remove, Blank, Fields, OwnPlans
  <2> QED BY <2>1, <2>2, BeginStep
<1> QED BY <1>1, <1>2, <1>3, <1>4, <1>5, <1>6, <1>7

(* A role of a user: asked for if privileged, given if not. *)
LEMMA AssignBegins ==
  ASSUME Inv, NEW q \in Requests, AssignUserRole(q)
  PROVE  Inv'
<1>1. PICK u \in Users, ro \in Roles :
        IF ro \in Privileged
        THEN \E a \in Actors :
               Begin(q, [Blank EXCEPT !.verb = "ask", !.key = <<"userRole", u, ro>>, !.actor = a,
                                      !.plan = <<"role", "user", "exists", "pending", "file">>])
        ELSE Begin(q, Add(<<"userRole", u, ro>>, {u},
                          <<"role", "user", "role", "exists", "write", "bump">>))
  BY DEF AssignUserRole
<1>2. CASE ro \in Privileged
  <2>1. PICK a \in Actors :
          Begin(q, [Blank EXCEPT !.verb = "ask", !.key = <<"userRole", u, ro>>, !.actor = a,
                                 !.plan = <<"role", "user", "exists", "pending", "file">>])
    BY <1>1, <1>2
  <2>2. Ready([Blank EXCEPT !.verb = "ask", !.key = <<"userRole", u, ro>>, !.actor = a,
                            !.plan = <<"role", "user", "exists", "pending", "file">>])
    BY AllPlans DEF Ready, Blank, Fields, AskPlans
  <2> QED BY <2>1, <2>2, BeginStep
<1>3. CASE ro \notin Privileged
  <2>1. Ready(Add(<<"userRole", u, ro>>, {u},
                  <<"role", "user", "role", "exists", "write", "bump">>))
    BY <1>3, AllPlans, Owners, KeyKinds DEF Ready, Add, Remove, Blank, Fields, OwnPlans
  <2> QED BY <1>1, <1>3, <2>1, BeginStep
<1> QED BY <1>2, <1>3

LEMMA OthersBegin ==
  ASSUME Inv, NEW q \in Requests,
         UpdateGroupOrRole(q) \/ UpgradeRoleTemplate(q) \/ PutCatalog(q) \/ Approve(q) \/ Reject(q)
  PROVE  Inv'
<1>1. CASE UpdateGroupOrRole(q)
  <2>1. PICK x \in Groups \cup Roles, goal \in {"ACTIVE", "INACTIVE", None} :
          Begin(q, [Blank EXCEPT !.verb = "status", !.object = x, !.goal = goal,
                                 !.plan = <<"read", "affected", "write", "bump">>])
    BY <1>1 DEF UpdateGroupOrRole
  <2>2. Ready([Blank EXCEPT !.verb = "status", !.object = x, !.goal = goal,
                            !.plan = <<"read", "affected", "write", "bump">>])
    BY AllPlans DEF Ready, Blank, Fields, Objects
  <2> QED BY <2>1, <2>2, BeginStep
<1>2. CASE UpgradeRoleTemplate(q)
  <2>1. PICK ro \in Roles, p \in Perms :
          Begin(q, [Blank EXCEPT !.verb = "template", !.key = <<"rolePerm", ro, p>>,
                                 !.plan = <<"permission", "write", "affected", "bump">>])
    BY <1>2 DEF UpgradeRoleTemplate
  <2>2. Ready([Blank EXCEPT !.verb = "template", !.key = <<"rolePerm", ro, p>>,
                            !.plan = <<"permission", "write", "affected", "bump">>])
    BY AllPlans, Owners, KeyKinds DEF Ready, Blank, Fields
  <2> QED BY <2>1, <2>2, BeginStep
<1>3. CASE PutCatalog(q)
  <2>1. PICK p \in Perms, goal \in {"ACTIVE", "DEPRECATED", "RETIRED"} :
          Begin(q, [Blank EXCEPT !.verb = "catalog", !.object = p, !.goal = goal,
                                 !.plan = IF goal = "RETIRED"
                                          THEN <<"module", "references", "write">>
                                          ELSE <<"module", "write">>])
    BY <1>3 DEF PutCatalog
  <2>2. Ready([Blank EXCEPT !.verb = "catalog", !.object = p, !.goal = goal,
                            !.plan = IF goal = "RETIRED"
                                     THEN <<"module", "references", "write">>
                                     ELSE <<"module", "write">>])
    <3>1. (IF goal = "RETIRED" THEN <<"module", "references", "write">> ELSE <<"module", "write">>)
            \in Seq(Statements)
      BY AllPlans
    <3> QED BY <3>1 DEF Ready, Blank, Fields, Objects
  <2> QED BY <2>1, <2>2, BeginStep
<1>4. CASE Approve(q)
  <2>1. PICK x \in RequestIds, a \in Actors :
          Begin(q, [Blank EXCEPT !.verb = "approve", !.request = x, !.actor = a,
                                 !.plan = <<"lock", "user", "role", "grantee", "write", "bump">>])
    BY <1>4 DEF Approve, Decide
  <2>2. Ready([Blank EXCEPT !.verb = "approve", !.request = x, !.actor = a,
                            !.plan = <<"lock", "user", "role", "grantee", "write", "bump">>])
    BY DEF Ready, Blank, Fields
  <2> QED BY <2>1, <2>2, BeginStep
<1>5. CASE Reject(q)
  <2>1. PICK x \in RequestIds, a \in Actors :
          Begin(q, [Blank EXCEPT !.verb = "reject", !.request = x, !.actor = a,
                                 !.plan = <<"lock">>])
    BY <1>5 DEF Reject, Decide
  <2>2. Ready([Blank EXCEPT !.verb = "reject", !.request = x, !.actor = a, !.plan = <<"lock">>])
    BY DEF Ready, Blank, Fields
  <2> QED BY <2>1, <2>2, BeginStep
<1> QED BY <1>1, <1>2, <1>3, <1>4, <1>5

-----------------------------------------------------------------------------
(* The statements. *)

(* Statements that only look, but for "module", which locks its row. *)
Looks == {"group", "role", "permission", "user", "exists", "pending", "read", "references",
          "module"}

LEMMA PlanSteps ==
  /\ \A p \in OwnPlans :
       /\ p # <<>>
       /\ \/ Head(p) \in Looks /\ Tail(p) \in OwnPlans
          \/ Head(p) = "write" /\ Tail(p) = <<"bump">>
  /\ \A p \in ApprovalPlans :
       /\ p # <<>>
       /\ \/ Head(p) \in Looks /\ Tail(p) \in ApprovalPlans
          \/ Head(p) = "grantee" /\ Tail(p) \in ApprovalPlans
          \/ Head(p) = "write" /\ Tail(p) = <<"bump">>
  /\ \A p \in AskPlans :
       \/ p = <<>>
       \/ Head(p) \in Looks /\ Tail(p) \in AskPlans
       \/ Head(p) \in {"file", "reselect"} /\ Tail(p) = <<>>
  /\ Head(<<"lock", "user", "role", "grantee", "write", "bump">>) = "lock"
  /\ Tail(<<"lock", "user", "role", "grantee", "write", "bump">>) \in ApprovalPlans
  /\ Head(<<"lock">>) = "lock" /\ Tail(<<"lock">>) = <<>>
  /\ Head(<<"bump">>) = "bump" /\ Tail(<<"bump">>) = <<>>
BY Tails DEF OwnPlans, ApprovalPlans, AskPlans, Looks

LEMMA LookStep ==
  ASSUME Inv, NEW q \in Requests, NEW s \in Looks, At(q, s), NEW c, Advance(q, c),
         Fields \subseteq DOMAIN c, \A f \in Fields : c[f] = call[q][f],
         locks' = locks \/ Take(q, {<<"module">>})
  PROVE  Inv'
<1>1. /\ pc[q] = "run" /\ OnTrack(q) /\ call[q].plan # <<>> /\ Head(call[q].plan) = s
      /\ call[q].verb \notin {"ask", "approve", "reject"} => Tail(call[q].plan) \in Seq(Statements)
  BY AtHead DEF Looks
<1>2. /\ c.verb = call[q].verb /\ c.actor = call[q].actor /\ c.request = call[q].request
      /\ c.plan = call[q].plan
  BY DEF Fields
<1>3. /\ call'[q].plan = Tail(call[q].plan)
      /\ \A f \in Fields \ {"plan"} : call'[q][f] = call[q][f]
      /\ req' = req
  <2>1. locks' = locks \/ \E S : Take(q, S)
    OBVIOUS
  <2>2. /\ Frame(q) /\ call'[q].plan = Tail(c.plan)
        /\ \A f \in Fields \ {"plan"} : call'[q][f] = c[f]
    BY <1>1, <2>1, AdvanceFrame
  <2> QED BY <1>2, <2>2 DEF Frame, committed
<1>4. /\ call'[q].verb = call[q].verb /\ call'[q].key = call[q].key
      /\ call'[q].object = call[q].object /\ call'[q].users = call[q].users
      /\ call'[q].actor = call[q].actor /\ call'[q].request = call[q].request
  BY <1>3 DEF Fields
<1>5. locks[q] \subseteq locks'[q] /\ locks'[q] \cap Keys = locks[q] \cap Keys
  BY Tags DEF Take, Inv, Shape
<1>6. s \notin {"bump", "write", "lock", "grantee", "file", "reselect"}
  BY DEF Looks
<1>7. call[q].verb \in {"add", "remove"} => Change(q)'
  <2>1. ASSUME NEW u \in Users, Change(q), call[q].key \in Own(u)
        PROVE  call'[q].plan \in OwnPlans /\ call'[q].users = {u}
    BY <1>1, <1>3, <1>4, <1>6, <2>1, PlanSteps DEF Change, Bumping
  <2> QED BY <1>1, <1>4, <2>1 DEF OnTrack, Change
<1>8. call[q].verb = "ask" => Asking(q)'
  BY <1>1, <1>3, <1>4, <1>5, <1>6, PlanSteps DEF OnTrack, Asking
<1>9. call[q].verb = "approve" => Approval(q)'
  <2>1. ASSUME Approval(q)
        PROVE  /\ <<"request", call[q].request>> \in locks[q]
               /\ Tail(call[q].plan) \in ApprovalPlans
               /\ call[q].users = {req[call[q].request].user} /\ locks[q] \cap Keys = {}
    BY <1>1, <1>6, <2>1, PlanSteps DEF Approval, Bumping
  <2>2. ASSUME Approval(q)
        PROVE  Approval(q)'
    BY <1>1, <1>3, <1>4, <1>5, <1>6, <2>1, <2>2, PlanSteps DEF Approval, Bumping
  <2> QED BY <1>1, <2>2 DEF OnTrack
<1>10. call[q].verb # "reject"
  BY <1>1, <1>6, PlanSteps DEF OnTrack, Rejection
<1>11. OnTrack(q)'
  BY <1>1, <1>3, <1>4, <1>5, <1>7, <1>8, <1>9, <1>10 DEF OnTrack
<1> QED BY <1>1, <1>2, <1>11, AdvanceStep, Tags

LEMMA CheckStep ==
  ASSUME Inv, NEW q \in Requests,
         \/ CheckActive(q) \/ CheckUser(q) \/ CheckExists(q) \/ CheckPending(q)
         \/ Read(q) \/ UpsertModule(q) \/ CheckReferences(q)
  PROVE  Inv'
<1> DEFINE seen == [call[q] EXCEPT !.current = status[call[q].object]]
<1>1. ASSUME NEW s \in Looks, At(q, s), Advance(q, call[q]), locks' = locks
      PROVE  Inv'
  BY <1>1, LookStep DEF Inv, Shape
<1>2. ASSUME NEW s \in Looks, At(q, s), NEW outcome \in Outcomes, Leave(q, outcome)
      PROVE  Inv'
  BY <1>2, LeaveStep DEF At
<1>3. CASE CheckActive(q)
  BY <1>1, <1>2, <1>3 DEF CheckActive, Looks, Outcomes
<1>4. CASE CheckUser(q)
  BY <1>1, <1>2, <1>4 DEF CheckUser, Looks, Outcomes
<1>5. CASE CheckExists(q)
  BY <1>1, <1>2, <1>5 DEF CheckExists, Looks, Outcomes
<1>6. CASE CheckPending(q)
  BY <1>1, <1>2, <1>6 DEF CheckPending, Looks, Outcomes
<1>7. CASE Read(q)
  <2>1. At(q, "read") /\ Advance(q, seen) /\ locks' = locks
    BY <1>7 DEF Read
  <2>2. Fields \subseteq DOMAIN seen /\ \A f \in Fields : seen[f] = call[q][f]
    BY DEF Inv, Shape, Fields
  <2> QED BY <2>1, <2>2, LookStep DEF Looks
<1>8. CASE UpsertModule(q)
  <2>1. At(q, "module") /\ Advance(q, call[q]) /\ Take(q, {<<"module">>})
    BY <1>8 DEF UpsertModule, Wanted, At
  <2> QED BY <2>1, LookStep DEF Looks, Inv, Shape
<1>9. CASE CheckReferences(q)
  BY <1>1, <1>2, <1>9 DEF CheckReferences, Looks, Outcomes
<1> QED BY <1>3, <1>4, <1>5, <1>6, <1>7, <1>8, <1>9

(* A call of no interest here goes on: it writes neither a direct row nor  *)
(* a request.                                                              *)
LEMMA OtherStep ==
  ASSUME Inv, NEW q \in Requests, NEW s, s # "commit", At(q, s), NEW c, Advance(q, c),
         Fields \subseteq DOMAIN c, \A f \in Fields \ {"users"} : c[f] = call[q][f],
         call[q].verb \notin {"ask", "approve", "reject"},
         \A u \in Users : call[q].verb \in {"add", "remove"} => call[q].key \notin Own(u),
         \/ locks' = locks
         \/ \E S : /\ Take(q, S) /\ \A x \in RequestIds : <<"request", x>> \notin S
                   /\ call[q].verb \in {"status", "catalog"} => S \cap Keys = {}
                   /\ S \cap Keys \subseteq {call[q].key}
  PROVE  Inv'
<1>1. /\ pc[q] = "run" /\ OnTrack(q) /\ Tail(call[q].plan) \in Seq(Statements)
  BY AtHead
<1>2. /\ c.verb = call[q].verb /\ c.actor = call[q].actor /\ c.request = call[q].request
      /\ c.plan = call[q].plan /\ c.key = call[q].key /\ c.object = call[q].object
  BY DEF Fields
<1>3. /\ Frame(q) /\ call'[q].plan = Tail(c.plan)
      /\ \A f \in Fields \ {"plan"} : call'[q][f] = c[f]
  BY <1>1, AdvanceFrame
<1>4. /\ call'[q].plan = Tail(call[q].plan)
      /\ call'[q].verb = call[q].verb /\ call'[q].key = call[q].key
      /\ call'[q].object = call[q].object
  BY <1>2, <1>3 DEF Fields
<1>5. /\ call[q].verb \in {"status", "catalog"} => locks'[q] \cap Keys = locks[q] \cap Keys
      /\ locks'[q] \cap Keys \subseteq (locks[q] \cap Keys) \cup {call[q].key}
  BY DEF Take, Inv, Shape
<1>6. call[q].verb \in {"add", "remove"} => Change(q)'
  BY <1>1, <1>4 DEF OnTrack, Change
<1>7. OnTrack(q)'
  BY <1>1, <1>4, <1>5, <1>6 DEF OnTrack
<1> QED BY <1>1, <1>2, <1>7, AdvanceStep

LEMMA AffectedStep ==
  ASSUME Inv, NEW q \in Requests, FindAffected(q)
  PROVE  Inv'
<1>1. PICK users : At(q, "affected") /\ locks' = locks
                   /\ Advance(q, [call[q] EXCEPT !.users = users])
  BY DEF FindAffected
<1> DEFINE c == [call[q] EXCEPT !.users = users]
<1>2. Fields \subseteq DOMAIN c /\ \A f \in Fields \ {"users"} : c[f] = call[q][f]
  BY DEF Inv, Shape, Fields
<1>3. /\ OnTrack(q) /\ call[q].plan # <<>> /\ Head(call[q].plan) = "affected"
  BY <1>1, AtHead
<1>4. call[q].verb \notin {"ask", "approve", "reject"}
  BY <1>3, PlanSteps DEF OnTrack, Asking, Approval, Bumping, Rejection, Looks
<1>5. \A u \in Users : call[q].verb \in {"add", "remove"} => call[q].key \notin Own(u)
  BY <1>3, PlanSteps DEF OnTrack, Change, Bumping, Looks
<1> QED BY <1>1, <1>2, <1>4, <1>5, OtherStep

(* Only an approval looks whether the subject has the role already. *)
LEMMA GranteeStep ==
  ASSUME Inv, NEW q \in Requests, CheckGrantee(q)
  PROVE  Inv'
<1> DEFINE cut == [call[q] EXCEPT !.users = {}, !.plan = <<"grantee">>]
<1>1. /\ At(q, "grantee") /\ locks' = locks
      /\ \/ Advance(q, call[q])
         \/ Advance(q, cut)
  BY DEF CheckGrantee
<1>2. /\ pc[q] = "run" /\ OnTrack(q) /\ call[q].plan # <<>> /\ Head(call[q].plan) = "grantee"
      /\ Fields \subseteq DOMAIN call[q]
  BY <1>1, AtHead
<1>3. call[q].verb = "approve"
  <2>1. call[q].verb \in {"ask", "approve", "reject"}
    BY <1>1, AtHead DEF Statements
  <2>2. call[q].verb \notin {"ask", "reject"}
    BY <1>2, PlanSteps DEF OnTrack, Asking, Rejection, Looks
  <2> QED BY <2>1, <2>2
<1>4. /\ Approval(q) /\ <<"request", call[q].request>> \in locks[q]
      /\ call[q].plan \in ApprovalPlans /\ locks[q] \cap Keys = {}
      /\ Tail(call[q].plan) \in ApprovalPlans
  BY <1>2, <1>3, PlanSteps DEF OnTrack, Approval, Bumping, Looks
<1>5. /\ Fields \subseteq DOMAIN cut /\ cut.plan = <<"grantee">>
      /\ cut.verb = call[q].verb /\ cut.actor = call[q].actor
      /\ cut.request = call[q].request /\ cut.key = call[q].key
  BY <1>2 DEF Fields
<1>6. CASE Advance(q, cut)
  <2>1. /\ Frame(q) /\ call'[q].plan = <<>>
        /\ \A f \in Fields \ {"plan"} : call'[q][f] = cut[f]
    <3>1. Tail(cut.plan) = <<>>
      BY <1>5, Tails
    <3> HIDE DEF cut
    <3> QED BY <1>1, <1>2, <1>5, <1>6, <3>1, AdvanceFrame
  <2>2. /\ call'[q].verb = "approve" /\ call'[q].actor = call[q].actor
        /\ call'[q].request = call[q].request /\ call'[q].key = call[q].key
        /\ req' = req
    BY <1>3, <1>5, <2>1 DEF Fields, Frame, committed
  <2>3. Approval(q)'
    BY <1>1, <1>2, <1>4, <2>1, <2>2, PlanSteps DEF Approval, Bumping
  <2>4. OnTrack(q)'
    BY <1>1, <1>2, <1>3, <2>2, <2>3 DEF OnTrack
  <2> QED BY <1>1, <1>2, <1>5, <1>6, <2>4, AdvanceStep
<1>7. CASE Advance(q, call[q])
  <2>1. /\ Frame(q) /\ call'[q].plan = Tail(call[q].plan)
        /\ \A f \in Fields \ {"plan"} : call'[q][f] = call[q][f]
    BY <1>1, <1>2, <1>7, AdvanceFrame
  <2>2. /\ call'[q].verb = "approve" /\ call'[q].actor = call[q].actor
        /\ call'[q].request = call[q].request /\ call'[q].key = call[q].key
        /\ call'[q].users = call[q].users /\ req' = req
    BY <1>3, <2>1 DEF Fields, Frame, committed
  <2>3. Approval(q)'
    BY <1>1, <1>2, <1>4, <2>1, <2>2, PlanSteps DEF Approval, Bumping
  <2>4. OnTrack(q)'
    BY <1>1, <1>2, <1>3, <2>2, <2>3 DEF OnTrack
  <2> QED BY <1>1, <1>2, <1>7, <2>4, AdvanceStep
<1> QED BY <1>1, <1>6, <1>7

LEMMA FileStep ==
  ASSUME Inv, NEW q \in Requests, FileRequest(q)
  PROVE  Inv'
<1> DEFINE again == [call[q] EXCEPT !.plan = <<"file", "reselect">>]
           pending == <<"pending", call[q].key[2], call[q].key[3]>>
<1>1. /\ At(q, "file")
      /\ \/ locks' = [locks EXCEPT ![q] = {}] /\ Advance(q, again)
         \/ Take(q, {pending}) /\ Advance(q, call[q])
  BY DEF FileRequest, Wanted, At
<1>2. /\ pc[q] = "run" /\ OnTrack(q) /\ call[q].plan # <<>> /\ Head(call[q].plan) = "file"
      /\ Fields \subseteq DOMAIN call[q]
  BY <1>1, AtHead
<1>3. call[q].verb = "ask" /\ Asking(q)
  <2>1. call[q].verb \in {"ask", "approve", "reject"}
    BY <1>1, AtHead DEF Statements
  <2>2. call[q].verb \notin {"approve", "reject"}
    BY <1>2, PlanSteps DEF OnTrack, Approval, Bumping, Rejection, Looks
  <2> QED BY <1>2, <2>1, <2>2 DEF OnTrack
<1>4. Tail(call[q].plan) = <<>>
  BY <1>2, <1>3, PlanSteps DEF Asking, Looks
<1>5. /\ Fields \subseteq DOMAIN again /\ Tail(again.plan) = <<"reselect">>
      /\ again.verb = call[q].verb /\ again.actor = call[q].actor
      /\ again.request = call[q].request /\ again.key = call[q].key
  BY <1>2, Tails DEF Fields
<1> HIDE DEF again
<1>6. PICK c \in {again, call[q]} :
        /\ Advance(q, c) /\ Tail(c.plan) \in {<<>>, <<"reselect">>}
        /\ \/ locks' = [locks EXCEPT ![q] = {}]
           \/ Take(q, {pending})
  BY <1>1, <1>4, <1>5
<1>7. /\ Fields \subseteq DOMAIN c /\ c.verb = call[q].verb /\ c.actor = call[q].actor
      /\ c.request = call[q].request /\ c.key = call[q].key
  BY <1>2, <1>5
<1>8. /\ Frame(q) /\ call'[q].plan = Tail(c.plan)
      /\ \A f \in Fields \ {"plan"} : call'[q][f] = c[f]
  BY <1>2, <1>6, <1>7, AdvanceFrame
<1>9. /\ call'[q].verb = "ask" /\ call'[q].actor = call[q].actor /\ call'[q].key = call[q].key
  BY <1>3, <1>7, <1>8 DEF Fields
<1>10. locks'[q] \cap Keys = {}
  BY <1>3, <1>6, Tags DEF Take, Asking, Inv, Shape
<1>11. OnTrack(q)'
  BY <1>3, <1>6, <1>8, <1>9, <1>10 DEF OnTrack, Asking, AskPlans, AllVerbs
<1> QED BY <1>2, <1>6, <1>7, <1>11, AdvanceStep, Tags

(* INSERT, UPDATE or DELETE of the call's row. *)
LEMMA WriteStep ==
  ASSUME Inv, NEW q \in Requests, Write(q)
  PROVE  Inv'
<1>1. /\ At(q, "write")
      /\ \/ \E outcome \in Outcomes : Leave(q, outcome)
         \/ call[q].verb = "template" /\ Advance(q, call[q]) /\ locks' = locks
         \/ Take(q, Wanted(q)) /\ Advance(q, call[q])
  BY DEF Write, Outcomes
<1>2. /\ pc[q] = "run" /\ OnTrack(q) /\ call[q].plan # <<>> /\ Head(call[q].plan) = "write"
      /\ Fields \subseteq DOMAIN call[q]
  BY <1>1, AtHead
<1>3. call[q].verb \notin {"ask", "reject"}
  BY <1>2, PlanSteps DEF OnTrack, Asking, Rejection, Looks
<1>4. /\ Wanted(q) \subseteq {<<"status", call[q].object>>, call[q].key}
      /\ call[q].object # None => Wanted(q) = {<<"status", call[q].object>>}
  BY <1>1 DEF Wanted, At
<1>5. call[q].verb \in {"status", "catalog"} => Wanted(q) \cap Keys = {}
  BY <1>2, <1>4, Tags, NamesAssumption DEF OnTrack
<1>6. Wanted(q) \cap Keys \subseteq {call[q].key}
  BY <1>4, Tags
<1>7. call[q].verb = "approve" =>
        /\ Approval(q) /\ Tail(call[q].plan) = <<"bump">>
        /\ call[q].users = {req[call[q].request].user}
        /\ <<"request", call[q].request>> \in locks[q]
        /\ call[q].key = <<"userRole", req[call[q].request].user, req[call[q].request].role>>
  <2>1. ASSUME call[q].verb = "approve"
        PROVE  Approval(q) /\ call[q].plan # <<>> /\ Head(call[q].plan) = "write"
    BY <1>2, <2>1 DEF OnTrack
  <2>2. ASSUME call[q].verb = "approve"
        PROVE  call[q].plan \in ApprovalPlans /\ Tail(call[q].plan) = <<"bump">>
    BY <2>1, <2>2, PlanSteps DEF Approval, Bumping, Looks
  <2> QED BY <2>1, <2>2, PlanSteps DEF Approval, Bumping
<1>8. \A x \in RequestIds : <<"request", x>> \notin Wanted(q)
  <2>1. call[q].key \in Keys \/ call[q].verb \in {"status", "catalog", "approve"}
    BY <1>2, <1>3 DEF OnTrack, AllVerbs
  <2>2. CASE call[q].verb = "approve"
    <3>1. \A x : <<"request", x>> # <<"status", call[q].object>> /\ <<"request", x>> # call[q].key
      BY <1>7, <2>2, Tags
    <3> QED BY <1>4, <3>1
  <2>3. CASE call[q].verb \in {"status", "catalog"}
    BY <1>2, <1>4, <2>3, Tags, NamesAssumption DEF OnTrack
  <2>4. CASE call[q].key \in Keys
    BY <1>4, <2>4, Tags
  <2> QED BY <2>1, <2>2, <2>3, <2>4
<1>9. CASE call[q].verb \notin {"add", "remove", "approve"}
  BY <1>1, <1>2, <1>3, <1>5, <1>6, <1>8, <1>9, OtherStep, LeaveStep
<1>10. ASSUME call[q].verb \in {"add", "remove", "approve"}, Take(q, Wanted(q)),
              Advance(q, call[q])
       PROVE  Inv'
  <2>1. /\ Frame(q) /\ call'[q].plan = Tail(call[q].plan)
        /\ \A f \in Fields \ {"plan"} : call'[q][f] = call[q][f]
    BY <1>2, <1>10, AdvanceFrame
  <2>2. /\ call'[q].verb = call[q].verb /\ call'[q].actor = call[q].actor
        /\ call'[q].request = call[q].request /\ call'[q].key = call[q].key
        /\ call'[q].users = call[q].users /\ req' = req
    BY <2>1 DEF Fields, Frame, committed
  <2>3. locks'[q] = locks[q] \cup Wanted(q)
    BY <1>10 DEF Take, Inv, Shape
  <2>4. locks'[q] \cap Keys \subseteq {call'[q].key}
    BY <1>2, <1>6, <1>10, <2>2, <2>3 DEF OnTrack
  <2>5. call[q].verb \in {"add", "remove"} => Change(q)'
    <3>1. ASSUME NEW u \in Users, Change(q), call[q].key \in Own(u)
          PROVE  call'[q].plan = <<"bump">> /\ call'[q].users = {u}
      BY <1>2, <2>1, <2>2, <3>1, PlanSteps DEF Change, Bumping, Looks
    <3> QED BY <1>2, <2>2, <3>1 DEF OnTrack, Change, Bumping
  <2>6. call[q].verb = "approve" => Approval(q)'
    BY <1>7, <2>1, <2>2, <2>3 DEF Approval, Bumping
  <2>7. call[q].verb # "approve" => call'[q].plan \in Seq(Statements)
    BY <1>1, <1>10, <2>1, AtHead
  <2>8. OnTrack(q)'
    BY <1>2, <1>10, <2>2, <2>4, <2>5, <2>6, <2>7 DEF OnTrack
  <2> QED BY <1>2, <1>8, <1>10, <2>8, AdvanceStep
<1> QED BY <1>1, <1>2, <1>9, <1>10, LeaveStep

(* One version more, or none left. *)
LEMMA BumpStep ==
  ASSUME Inv, NEW q \in Requests, BumpVersions(q)
  PROVE  Inv'
<1>1. At(q, "bump")
  BY DEF BumpVersions
<1>2. /\ pc[q] = "run" /\ OnTrack(q) /\ call[q].plan # <<>> /\ Head(call[q].plan) = "bump"
      /\ Fields \subseteq DOMAIN call[q]
  BY <1>1, AtHead
<1>3. call[q].verb \notin {"ask", "reject"}
  BY <1>2, PlanSteps DEF OnTrack, Asking, Rejection, Looks
<1>4. ASSUME NEW u \in Users, call[q].verb \in {"add", "remove"}, call[q].key \in Own(u)
      PROVE  Bumping(q, u) /\ call[q].plan = <<"bump">>
  BY <1>2, <1>4, PlanSteps DEF OnTrack, Change, Bumping, Looks
<1>5. ASSUME call[q].verb = "approve"
      PROVE  /\ Approval(q) /\ call[q].plan = <<"bump">> /\ Bumping(q, req[call[q].request].user)
             /\ <<"request", call[q].request>> \in locks[q]
             /\ call[q].key = <<"userRole", req[call[q].request].user, req[call[q].request].role>>
  BY <1>2, <1>5, PlanSteps DEF OnTrack, Approval, Bumping, Looks
<1>6. CASE call[q].users = {}
  <2>1. Advance(q, call[q]) /\ locks' = locks
    BY <1>6 DEF BumpVersions
  <2>2. /\ Frame(q) /\ call'[q].plan = Tail(call[q].plan)
        /\ \A f \in Fields \ {"plan"} : call'[q][f] = call[q][f]
    BY <1>2, <2>1, AdvanceFrame
  <2>3. /\ call'[q].verb = call[q].verb /\ call'[q].actor = call[q].actor
        /\ call'[q].request = call[q].request /\ call'[q].key = call[q].key
        /\ call'[q].object = call[q].object /\ req' = req
    BY <2>2 DEF Fields, Frame, committed
  <2>4. ASSUME NEW u, Bumping(q, u), call[q].plan = <<"bump">>
        PROVE  Bumping(q, u)'
    <3>1. <<"version", u>> \in locks'[q]
      BY <1>6, <2>1, <2>4 DEF Bumping
    <3> QED BY <2>2, <2>4, <3>1, PlanSteps DEF Bumping
  <2>5. call[q].verb \in {"add", "remove"} => Change(q)'
    BY <1>2, <1>4, <2>3, <2>4 DEF OnTrack, Change
  <2>6. call[q].verb = "approve" => Approval(q)'
    BY <1>5, <2>1, <2>3, <2>4 DEF Approval
  <2>7. call[q].verb # "approve" => call'[q].plan \in Seq(Statements)
    BY <1>1, <1>3, <2>2, AtHead
  <2>8. OnTrack(q)'
    BY <1>2, <1>3, <2>1, <2>3, <2>5, <2>6, <2>7 DEF OnTrack
  <2> QED BY <1>2, <2>1, <2>8, AdvanceStep
<1>7. CASE call[q].users # {}
  <2>1. PICK w \in NextUser(q) :
          /\ Take(q, {<<"version", w>>})
          /\ Advance(q, [call[q] EXCEPT !.users = @ \ {w}, !.plan = <<"bump">> \o @])
    BY <1>7 DEF BumpVersions
  <2> DEFINE c == [call[q] EXCEPT !.users = @ \ {w}, !.plan = <<"bump">> \o @]
  <2>2. /\ Fields \subseteq DOMAIN c /\ c.plan = <<"bump">> \o call[q].plan
        /\ c.verb = call[q].verb /\ c.actor = call[q].actor
        /\ c.request = call[q].request /\ c.key = call[q].key /\ c.object = call[q].object
    BY <1>2 DEF Fields
  <2>3. Tail(c.plan) = call[q].plan
    <3>1. call[q].plan \in Seq(Statements)
      BY <1>2, <1>3, <1>5, AllPlans DEF OnTrack
    <3> HIDE DEF c
    <3> QED BY <2>2, <3>1, Again
  <2>4. Advance(q, c)
    BY <2>1
  <2> HIDE DEF c
  <2>5. /\ Frame(q) /\ call'[q].plan = call[q].plan
        /\ \A f \in Fields \ {"plan"} : call'[q][f] = c[f]
    BY <1>2, <2>1, <2>2, <2>3, <2>4, AdvanceFrame
  <2>6. /\ call'[q].verb = call[q].verb /\ call'[q].actor = call[q].actor
        /\ call'[q].request = call[q].request /\ call'[q].key = call[q].key
        /\ call'[q].object = call[q].object /\ req' = req
    BY <2>2, <2>5 DEF Fields, Frame, committed
  <2>7. locks'[q] = locks[q] \cup {<<"version", w>>} /\ locks'[q] \cap Keys = locks[q] \cap Keys
    BY <2>1, Tags DEF Take, Inv, Shape
  <2>8. w \in call[q].users
    BY <2>1 DEF NextUser
  <2>9. ASSUME NEW u, Bumping(q, u), call[q].plan = <<"bump">>
        PROVE  Bumping(q, u)'
    <3>1. <<"version", u>> \in locks'[q]
      BY <2>7, <2>8, <2>9 DEF Bumping
    <3> QED BY <2>5, <2>9, <3>1 DEF Bumping
  <2>10. call[q].verb \in {"add", "remove"} => Change(q)'
    BY <1>2, <1>4, <2>6, <2>9 DEF OnTrack, Change
  <2>11. call[q].verb = "approve" => Approval(q)'
    BY <1>5, <2>6, <2>7, <2>9 DEF Approval
  <2>12. OnTrack(q)'
    BY <1>2, <1>3, <2>5, <2>6, <2>7, <2>10, <2>11 DEF OnTrack
  <2> QED BY <1>2, <2>1, <2>2, <2>4, <2>12, AdvanceStep, Tags
<1> QED BY <1>6, <1>7

(* SELECT ... FOR UPDATE of the request: what it says then, it says until  *)
(* the call ends.                                                          *)
LEMMA LockRequestStep ==
  ASSUME Inv, NEW q \in Requests, LockRequest(q)
  PROVE  Inv'
<1> DEFINE x == call[q].request
           r == req[x]
           c == [call[q] EXCEPT !.key = <<"userRole", r.user, r.role>>, !.users = {r.user}]
<1>1. /\ At(q, "lock")
      /\ \/ /\ r.status = "PENDING" /\ Independent(r, call[q].actor)
            /\ Take(q, {<<"request", x>>})
            /\ Advance(q, c)
         \/ Leave(q, "denied")
  BY DEF LockRequest, Wanted, At
<1>2. /\ pc[q] = "run" /\ OnTrack(q) /\ call[q].plan # <<>> /\ Head(call[q].plan) = "lock"
      /\ Fields \subseteq DOMAIN call[q] /\ call[q].verb \in {"ask", "approve", "reject"}
  BY <1>1, AtHead DEF Statements
<1>3. call[q].verb # "ask"
  BY <1>2, PlanSteps DEF OnTrack, Asking, Looks
<1>4. x \in RequestIds /\ call[q].actor \in Actors
  BY <1>2, <1>3 DEF OnTrack, Approval, Rejection
<1>5. CASE Leave(q, "denied")
  BY <1>2, <1>5, LeaveStep DEF Outcomes
<1>6. CASE /\ r.status = "PENDING" /\ Independent(r, call[q].actor)
           /\ Take(q, {<<"request", x>>})
           /\ Advance(q, c)
  <2>1. /\ Fields \subseteq DOMAIN c /\ c.plan = call[q].plan
        /\ c.verb = call[q].verb /\ c.actor = call[q].actor /\ c.request = x
        /\ c.key = <<"userRole", r.user, r.role>> /\ c.users = {r.user}
    BY <1>2 DEF Fields
  <2>2. /\ Frame(q) /\ call'[q].plan = Tail(call[q].plan) /\ pc'[q] = "run"
        /\ \A f \in Fields \ {"plan"} : call'[q][f] = c[f]
    <3>1. Advance(q, c) /\ \E S : Take(q, S)
      BY <1>6
    <3> HIDE DEF c
    <3>2. /\ Frame(q) /\ call'[q].plan = Tail(c.plan) /\ pc'[q] = "run"
          /\ \A f \in Fields \ {"plan"} : call'[q][f] = c[f]
      BY <1>2, <2>1, <3>1, AdvanceFrame
    <3> QED BY <2>1, <3>2
  <2>3. /\ call'[q].verb = call[q].verb /\ call'[q].actor = call[q].actor
        /\ call'[q].request = x /\ req' = req
        /\ call'[q].key = <<"userRole", r.user, r.role>> /\ call'[q].users = {r.user}
    BY <2>1, <2>2 DEF Fields, Frame, committed
  <2>4. /\ locks'[q] = locks[q] \cup {<<"request", x>>}
        /\ locks'[q] \cap Keys = locks[q] \cap Keys
    BY <1>6, Tags DEF Take, Inv, Shape
  <2>5. call[q].verb = "approve" => Approval(q)' /\ locks'[q] \cap Keys = {}
    <3>1. CASE call[q].verb = "approve"
      <4>1. Tail(call[q].plan) \in ApprovalPlans /\ locks[q] \cap Keys = {}
        BY <1>2, <3>1, PlanSteps DEF OnTrack, Approval, Bumping, Looks
      <4> QED BY <1>4, <1>6, <2>2, <2>3, <2>4, <4>1 DEF Approval
    <3> QED BY <3>1
  <2>6. call[q].verb = "reject" => Rejection(q)'
    <3>1. CASE call[q].verb = "reject"
      <4>1. call[q].plan = <<"lock">> /\ locks[q] \cap Keys = {}
        BY <1>2, <3>1 DEF OnTrack, Rejection
      <4>2. call'[q].plan = <<>>
        BY <2>2, <4>1, Tails
      <4> QED BY <1>4, <2>3, <2>4, <4>1, <4>2 DEF Rejection
    <3> QED BY <3>1
  <2>7. OnTrack(q)'
    BY <1>2, <1>3, <2>3, <2>5, <2>6 DEF OnTrack
  <2>8. ASSUME NEW y \in RequestIds, <<"request", y>> \in locks'[q]
        PROVE  y = x /\ req[y].status = "PENDING"
    BY <1>6, <2>4, <2>8 DEF Inv, LockedIsPending
  <2> QED BY <1>2, <1>3, <1>4, <2>2, <2>3, <2>7, <2>8, FrameStep
<1> QED BY <1>1, <1>5, <1>6

(* What a commit makes of the requests. *)
LEMMA Decisions ==
  ASSUME Inv, NEW q \in Requests, Commit(q)
  PROVE  /\ req' \in [RequestIds -> PrivilegedRequests \cup {NoRequest}]
         /\ \A x \in RequestIds \ {q} : <<"request", x>> \notin locks[q] => req'[x] = req[x]
         /\ \A x \in RequestIds :
              req[x] # NoRequest /\ req[x].status # "PENDING" => req'[x] = req[x]
         /\ \A x \in RequestIds :
              /\ <<"request", x>> \in locks[q] /\ call[q].verb = "approve"
              => req'[x].status = "APPROVED" /\ req'[x].approver = call[q].actor
<1>1. /\ pc[q] = "run" /\ OnTrack(q) /\ req[q] = NoRequest
      /\ req' = [x \in RequestIds |-> Decision(q, x)]
  BY DEF Commit, At, Inv, Fresh
<1>2. ASSUME NEW x \in RequestIds, call[q].verb = "ask", x = q
      PROVE  Decision(q, x) \in PrivilegedRequests
  <2>1. PICK u \in Users, ro \in Roles : call[q].key = <<"userRole", u, ro>>
    BY <1>1, <1>2 DEF OnTrack, Asking
  <2>2. Decision(q, x) = [status |-> "PENDING", user |-> u, role |-> ro, by |-> call[q].actor,
                          approver |-> None]
    BY <1>2, <2>1 DEF Decision
  <2>3. call[q].actor \in Actors
    BY <1>1, <1>2 DEF OnTrack, Asking
  <2> QED BY <2>2, <2>3 DEF PrivilegedRequests
<1>3. ASSUME NEW x \in RequestIds, ~ (call[q].verb = "ask" /\ x = q),
             <<"request", x>> \in locks[q]
      PROVE  /\ Decision(q, x) \in PrivilegedRequests /\ req[x].status = "PENDING"
             /\ call[q].verb = "approve" =>
                  Decision(q, x).status = "APPROVED" /\ Decision(q, x).approver = call[q].actor
  <2>1. req[x].status = "PENDING" /\ call[q].actor \in Actors
    BY <1>3 DEF Inv, LockedIsPending
  <2>2. req[x] \in PrivilegedRequests
    BY <2>1 DEF Inv, Shape, NoRequest
  <2>3. Decision(q, x) =
          [req[x] EXCEPT !.status = IF call[q].verb = "approve" THEN "APPROVED" ELSE "REJECTED",
                         !.approver = call[q].actor]
    BY <1>3 DEF Decision
  <2> QED BY <2>1, <2>2, <2>3 DEF PrivilegedRequests
<1>4. ASSUME NEW x \in RequestIds, ~ (call[q].verb = "ask" /\ x = q),
             <<"request", x>> \notin locks[q]
      PROVE  Decision(q, x) = req[x]
  BY <1>4 DEF Decision
<1>5. \A x \in RequestIds : <<"request", x>> \in locks[q] => call[q].verb # "ask"
  BY DEF Inv, LockedIsPending
<1>6. req' \in [RequestIds -> PrivilegedRequests \cup {NoRequest}]
  <2>1. \A x \in RequestIds : Decision(q, x) \in PrivilegedRequests \cup {NoRequest}
    <3>1. ASSUME NEW x \in RequestIds
          PROVE  Decision(q, x) \in PrivilegedRequests \cup {NoRequest}
      <4>1. CASE call[q].verb = "ask" /\ x = q
        BY <1>2, <4>1
      <4>2. CASE ~ (call[q].verb = "ask" /\ x = q) /\ <<"request", x>> \in locks[q]
        BY <1>3, <4>2
      <4>3. CASE ~ (call[q].verb = "ask" /\ x = q) /\ <<"request", x>> \notin locks[q]
        BY <1>4, <4>3 DEF Inv, Shape
      <4> QED BY <4>1, <4>2, <4>3
    <3> QED BY <3>1
  <2> QED BY <1>1, <2>1
<1> QED BY <1>1, <1>3, <1>4, <1>5, <1>6

LEMMA CommitStep ==
  ASSUME Inv, NEW q \in Requests, Commit(q)
  PROVE  Inv'
<1>1. /\ pc[q] = "run"
      /\ locks' = [locks EXCEPT ![q] = {}] /\ pc' = [pc EXCEPT ![q] = "ok"]
      /\ call' = [call EXCEPT ![q] = Blank]
  BY DEF Commit, At
<1>2. \A r \in Requests \ {q} : /\ locks'[r] = locks[r] /\ pc'[r] = pc[r] /\ call'[r] = call[r]
  BY <1>1 DEF Inv, Shape
<1>3. Shape'
  BY <1>1, <1>2, Decisions DEF Inv, Shape, Fields, Blank
<1>4. Exclusive'
  BY <1>1, <1>2 DEF Inv, Shape, Exclusive
<1>5. ASSUME NEW r \in Requests \ {q}, NEW x \in RequestIds, <<"request", x>> \in locks[r]
      PROVE  req'[x] = req[x]
  <2>1. <<"request", x>> \notin locks[q]
    BY <1>5 DEF Inv, Exclusive
  <2>2. x # q
    BY <1>1, <1>5 DEF Inv, LockedIsPending, Fresh, NoRequest
  <2> QED BY <2>1, <2>2, Decisions
<1>6. LockedIsPending'
  BY <1>1, <1>2, <1>5 DEF Inv, Shape, LockedIsPending
<1>7. Fresh'
  <2>1. ASSUME NEW r \in Requests, pc'[r] \in {"idle", "run"}
        PROVE  req'[r] = NoRequest
    <3>1. r # q /\ req[r] = NoRequest
      BY <1>1, <1>2, <2>1 DEF Inv, Shape, Fresh
    <3>2. r \in RequestIds /\ <<"request", r>> \notin locks[q]
      BY <3>1 DEF RequestIds, Inv, LockedIsPending, NoRequest
    <3> QED BY <3>1, <3>2, Decisions
  <2> QED BY <2>1 DEF Fresh
<1>8. ASSUME NEW r \in Requests
      PROVE  (IF pc[r] = "run" THEN OnTrack(r) ELSE locks[r] = {})'
  <2>1. CASE r = q
    BY <1>1, <2>1 DEF Inv, Shape
  <2>2. CASE r # q /\ pc[r] # "run"
    BY <1>2, <2>2 DEF Inv
  <2>3. CASE r # q /\ pc[r] = "run"
    <3>1. locks'[r] = locks[r] /\ pc'[r] = pc[r] /\ call'[r] = call[r] /\ OnTrack(r)
      BY <1>2, <2>3 DEF Inv
    <3>2. Change(r)' = Change(r) /\ Asking(r)' = Asking(r) /\ Rejection(r)' = Rejection(r)
      BY <3>1 DEF Change, Bumping, Asking, Rejection
    <3>3. Approval(r) => Approval(r)'
      BY <1>5, <2>3, <3>1 DEF Approval, Bumping
    <3>4. OnTrack(r)'
      BY <3>1, <3>2, <3>3 DEF OnTrack
    <3> QED BY <2>3, <3>1, <3>4
  <2> QED BY <2>1, <2>2, <2>3
<1> QED BY <1>3, <1>4, <1>6, <1>7, <1>8 DEF Inv

-----------------------------------------------------------------------------
(* The invariant holds. *)

LEMMA InitInv == Init => Inv
<1> SUFFICES ASSUME Init
             PROVE  Inv
  OBVIOUS
<1>1. PICK s \in Starts :
        req = [x \in RequestIds |-> IF x \in Seeds THEN s.req[x] ELSE NoRequest]
  BY DEF Init
<1>2. s.req \in [Seeds -> PrivilegedRequests]
  BY InputAssumption
<1>3. Shape
  BY <1>1, <1>2 DEF Init, Shape, Fields, Blank
<1>4. Fresh
  BY <1>1, NamesAssumption DEF Fresh, RequestIds
<1>5. Exclusive /\ LockedIsPending
  BY DEF Init, Exclusive, LockedIsPending
<1>6. \A q \in Requests : pc[q] # "run" /\ locks[q] = {}
  BY DEF Init
<1> QED BY <1>3, <1>4, <1>5, <1>6 DEF Inv

LEMMA NextInv == Inv /\ [Next]_vars => Inv'
<1> SUFFICES ASSUME Inv, [Next]_vars
             PROVE  Inv'
  OBVIOUS
<1>1. ASSUME NEW q \in Requests, Operation(q)
      PROVE  Inv'
  BY <1>1, ChangesBegin, AssignBegins, OthersBegin DEF Operation
<1>2. ASSUME NEW q \in Requests, SqlStep(q)
      PROVE  Inv'
  <2>1. CASE Reselect(q)
    BY <2>1, LeaveStep DEF Reselect, At, Outcomes
  <2> QED BY <1>2, <2>1, CheckStep, GranteeStep, FileStep, AffectedStep, WriteStep, BumpStep,
             LockRequestStep, CommitStep DEF SqlStep
<1>3. ASSUME NEW q \in Requests, Abort(q)
      PROVE  Inv'
  BY <1>3, LeaveStep DEF Abort, Outcomes
<1>4. CASE UNCHANGED vars
  <2>1. UNCHANGED <<req, locks, pc, call>>
    BY <1>4 DEF vars, committed
  <2>2. Shape' /\ Exclusive' /\ Fresh' /\ LockedIsPending'
    BY <2>1 DEF Inv, Shape, Exclusive, Fresh, LockedIsPending
  <2>3. ASSUME NEW q \in Requests
        PROVE  OnTrack(q)' = OnTrack(q)
    BY <2>1 DEF OnTrack, Change, Bumping, Approval, Asking, Rejection
  <2> QED BY <2>1, <2>2, <2>3 DEF Inv
<1> QED BY <1>1, <1>2, <1>3, <1>4 DEF Next

-----------------------------------------------------------------------------
(* What a step does to the committed tables. *)

LEMMA OnlyCommits ==
  ASSUME [Next]_vars, ~ UNCHANGED committed
  PROVE  \E q \in Requests : Commit(q)
<1>1. ASSUME NEW q \in Requests, Operation(q)
      PROVE  UNCHANGED committed
  BY <1>1 DEF Operation, AddGroupMember, RemoveGroupMember, AssignGroupRole, RemoveGroupRole,
              AddRolePermission, RemoveRolePermission, AssignUserRole, RemoveUserRole,
              UpdateGroupOrRole, UpgradeRoleTemplate, PutCatalog, Approve, Reject, Decide, Begin
<1>2. ASSUME NEW q \in Requests, SqlStep(q), ~ Commit(q)
      PROVE  UNCHANGED committed
  <2>1. ASSUME NEW c, Advance(q, c)
        PROVE  UNCHANGED committed
    BY <2>1 DEF Advance
  <2>2. ASSUME NEW outcome, Leave(q, outcome)
        PROVE  UNCHANGED committed
    BY <2>2 DEF Leave
  <2> QED BY <1>2, <2>1, <2>2
          DEF SqlStep, CheckActive, CheckUser, CheckExists, CheckGrantee, CheckPending,
              FileRequest, Reselect, Read, FindAffected, UpsertModule, CheckReferences, Write,
              BumpVersions, LockRequest
<1>3. ASSUME NEW q \in Requests, Abort(q)
      PROVE  UNCHANGED committed
  BY <1>3 DEF Abort, Leave
<1>4. Next
  BY DEF vars
<1> QED BY <1>1, <1>2, <1>3, <1>4 DEF Next

(* A commit changes the row that the call is about, and no other. *)
LEMMA Changed ==
  ASSUME Inv, NEW q \in Requests, Commit(q)
  PROVE  /\ OnTrack(q)
         /\ call[q].verb \in {"approve", "add", "remove"} =>
              \/ call[q].plan = <<>>
              \/ \A u \in Users : call[q].key \notin Own(u)
         /\ \A k \in Keys :
              (k \in rows) # (k \in rows') =>
                /\ k \in locks[q] /\ k = call[q].key
                /\ call[q].verb \in {"add", "remove", "template", "approve"}
         /\ \A k \in Keys : k \in rows' /\ k \notin rows => call[q].verb # "remove"
<1>1. /\ OnTrack(q) /\ pc[q] = "run"
      /\ call[q].plan = <<>> \/ Head(call[q].plan) = "commit"
      /\ rows' = IF call[q].verb = "remove" THEN rows \ locks[q]
                 ELSE rows \cup (locks[q] \cap Keys)
  BY DEF Commit, At, Statement, Inv
<1>2. call[q].verb \in {"approve", "add", "remove"} =>
        call[q].plan = <<>> \/ \A u \in Users : call[q].key \notin Own(u)
  BY <1>1, PlanSteps DEF OnTrack, Change, Approval, Bumping, Looks
<1>3. ASSUME NEW k \in Keys, (k \in rows) # (k \in rows')
      PROVE  /\ k \in locks[q] /\ k = call[q].key
             /\ call[q].verb \in {"add", "remove", "template", "approve"}
  <2>1. k \in locks[q] \cap Keys
    BY <1>1, <1>3
  <2>2. call[q].verb \in {"add", "remove", "template", "approve"}
    BY <1>1, <2>1 DEF OnTrack, Asking, Rejection, AllVerbs
  <2> QED BY <1>1, <2>1, <2>2 DEF OnTrack
<1> QED BY <1>1, <1>2, <1>3

(* _locked_request: what is decided is decided. *)
LEMMA DecidedStep ==
  ASSUME Inv, [Next]_vars, NEW x \in RequestIds, req[x] # NoRequest, req[x].status # "PENDING"
  PROVE  req'[x] = req[x]
<1>1. CASE UNCHANGED committed
  BY <1>1 DEF committed
<1>2. CASE ~ UNCHANGED committed
  BY <1>2, OnlyCommits, Decisions
<1> QED BY <1>1, <1>2

(* Only a commit of an approval writes a privileged role of a user. *)
LEMMA PrivilegedStep ==
  ASSUME Inv, [Next]_vars, NEW u \in Users, NEW ro \in Privileged,
         <<"userRole", u, ro>> \in rows' \ rows
  PROVE  \E x \in Pending(u, ro) :
           /\ req'[x].status = "APPROVED"
           /\ req'[x].approver \notin {None, u, req[x].by}
<1> DEFINE k == <<"userRole", u, ro>>
<1>1. PICK q \in Requests : Commit(q)
  BY OnlyCommits DEF committed
<1>2. k \in Keys /\ k \in Own(u)
  BY KeyKinds, InputAssumption DEF Own
<1>3. /\ OnTrack(q) /\ k = call[q].key
      /\ call[q].verb \in {"add", "remove", "template", "approve"} /\ call[q].verb # "remove"
  BY <1>1, <1>2, Changed
<1>4. call[q].verb = "approve"
  BY <1>2, <1>3 DEF OnTrack, Change
<1> DEFINE x == call[q].request
           r == req[x]
<1>5. /\ x \in RequestIds /\ call[q].actor \in Actors
      /\ <<"request", x>> \in locks[q]
      /\ k = <<"userRole", r.user, r.role>> /\ Independent(r, call[q].actor)
  <2>1. k \in locks[q]
    BY <1>1, <1>2, Changed
  <2> QED BY <1>3, <1>4, <2>1 DEF OnTrack, Approval
<1>6. r.user = u /\ r.role = ro
  BY <1>5
<1>7. r.status = "PENDING" /\ r # NoRequest
  BY <1>5 DEF Inv, LockedIsPending, NoRequest
<1>8. x \in Pending(u, ro)
  BY <1>5, <1>6, <1>7 DEF Pending
<1>9. req'[x].status = "APPROVED" /\ req'[x].approver = call[q].actor
  BY <1>1, <1>4, <1>5, Decisions
<1>10. call[q].actor \notin {None, u, r.by}
  BY <1>5, <1>6, NamesAssumption DEF Independent
<1> QED BY <1>8, <1>9, <1>10

(* The version of u is locked when a direct row of u is published. *)
LEMMA OwnStep ==
  ASSUME Inv, [Next]_vars, NEW u \in Users, OwnRows(u)' # OwnRows(u)
  PROVE  ver'[u] = ver[u] + 1
<1>1. PICK k \in Own(u) : (k \in rows) # (k \in rows')
  BY DEF OwnRows, Own
<1>2. PICK q \in Requests : Commit(q)
  BY <1>1, OnlyCommits DEF committed
<1>3. k \in Keys
  BY KeyKinds DEF Own
<1>4. /\ OnTrack(q) /\ k \in locks[q] /\ k = call[q].key
      /\ call[q].verb \in {"add", "remove", "template", "approve"}
      /\ call[q].verb \in {"approve", "add", "remove"} => call[q].plan = <<>>
  BY <1>1, <1>2, <1>3, Changed
<1>5. <<"bump">> # <<>>
  OBVIOUS
<1>6. ASSUME call[q].verb \in {"add", "remove"}
      PROVE  <<"version", u>> \in locks[q]
  <2>1. call[q].plan = <<>> /\ Change(q) /\ call[q].key \in Own(u)
    BY <1>1, <1>4, <1>6 DEF OnTrack
  <2> QED BY <1>5, <2>1, PlanSteps DEF Change, Bumping
<1>7. ASSUME call[q].verb = "approve"
      PROVE  <<"version", u>> \in locks[q]
  <2>1. call[q].plan = <<>> /\ Approval(q) /\ call[q].key \in locks[q] \cap Keys
    BY <1>3, <1>4, <1>7 DEF OnTrack
  <2>2. /\ Bumping(q, req[call[q].request].user)
        /\ call[q].key = <<"userRole", req[call[q].request].user, req[call[q].request].role>>
    BY <2>1, PlanSteps, Tails DEF Approval
  <2>3. req[call[q].request].user = u
    BY <1>1, <1>4, <2>2 DEF Own
  <2> QED BY <1>5, <2>1, <2>2, <2>3 DEF Bumping
<1>8. call[q].verb # "template"
  BY <1>1, <1>4 DEF OnTrack
<1>9. <<"version", u>> \in locks[q]
  BY <1>4, <1>6, <1>7, <1>8
<1> QED BY <1>2, <1>9 DEF Commit

(* A decided request never changes, though several administrators approve  *)
(* and reject it at once (_locked_request).                                *)
THEOREM DecidedOnceHolds == Spec => DecidedOnce
<1>1. Inv /\ [Next]_vars =>
        [\A x \in RequestIds :
           req[x] # NoRequest /\ req[x].status # "PENDING" => req'[x] = req[x]]_vars
  BY DecidedStep
<1> QED BY <1>1, InitInv, NextInv, PTL DEF Spec, DecidedOnce

(* A privileged role of a user is gained only by the approval of a pending *)
(* request, by neither its maker nor its subject (approve).                *)
THEOREM MakerCheckerHolds == Spec => MakerChecker
<1>1. Inv /\ [Next]_vars =>
        [\A u \in Users, ro \in Privileged :
           <<"userRole", u, ro>> \in rows' \ rows =>
             \E x \in Pending(u, ro) :
               /\ req'[x].status = "APPROVED"
               /\ req'[x].approver \notin {None, u, req[x].by}]_vars
  BY PrivilegedStep
<1> QED BY <1>1, InitInv, NextInv, PTL DEF Spec, MakerChecker

(* A change of a user's own roles or memberships bumps the user's version  *)
(* by one in the same transaction (_bump_versions).                        *)
THEOREM OwnChangeBumpsHolds == Spec => OwnChangeBumps
<1>1. Inv /\ [Next]_vars =>
        [\A u \in Users : OwnRows(u)' # OwnRows(u) => ver'[u] = ver[u] + 1]_vars
  BY OwnStep
<1> QED BY <1>1, InitInv, NextInv, PTL DEF Spec, OwnChangeBumps

-----------------------------------------------------------------------------
(* The course of a call: what it has left to do, what it holds meanwhile,  *)
(* and whose versions it will have bumped when it commits.                 *)

Opening == {<<"module", "references", "write">>, <<"module", "write">>,
            <<"lock", "user", "role", "grantee", "write", "bump">>}

(* The plans of changes that affect members of groups and holders of roles, *)
(* as long as these are still to be found.                                  *)
AddPlans ==
  {<<"group", "role", "exists", "write", "affected", "bump">>,
   <<"permission", "role", "exists", "write", "affected", "bump">>,
   <<"role", "exists", "write", "affected", "bump">>,
   <<"exists", "write", "affected", "bump">>,
   <<"permission", "write", "affected", "bump">>,
   <<"write", "affected", "bump">>}
ReadPlan == <<"read", "affected", "write", "bump">>
UpdatePlans == {ReadPlan, <<"affected", "write", "bump">>}
CatalogPlans == {<<"references", "write">>, <<"write">>}

(* The plans, after their opening, up to the writing of the row, ... *)
Unwritten == OwnPlans \cup ApprovalPlans \cup AddPlans \cup UpdatePlans \cup CatalogPlans
(* ... and from then on. *)
Written == {<<"affected", "bump">>, <<"bump">>, <<>>}

Versions(q) == {u \in Users : <<"version", u>> \in locks[q]}
Untouched(q) ==
  /\ \A k \in Keys : k \notin locks[q]
  /\ \A x \in Objects : <<"status", x>> \notin locks[q]
  /\ Versions(q) = {}

(* Versions are locked in the order of the users. *)
Ordered(q) == \A u \in Versions(q), w \in call[q].users : u < w

(* First a request or the module is locked, then the row or the status     *)
(* that is written, then versions in order.                                *)
Course(q) ==
  LET c == call[q] IN
  /\ c.verb \in {"ask", "reject"} => (c.plan # <<>> => locks[q] = {})
  /\ c.verb \notin {"ask", "reject"} =>
       \/ c.plan \in Opening /\ locks[q] = {}
       \/ c.plan \in Unwritten /\ Untouched(q)
       \/ c.plan \in Written /\ (c.plan = <<"affected", "bump">> => Versions(q) = {})
  /\ c.verb # "template" => Ordered(q)

(* The status a call writes is a status, of the object it is about. *)
Restating(q) ==
  LET c == call[q] IN
  /\ c.plan = ReadPlan => c.verb = "status"
  /\ c.object # None <=> c.verb \in {"status", "catalog"}
  /\ c.verb = "catalog" => c.goal # None
  /\ c.verb = "status" => c.object \in Groups \cup Roles
  /\ c.verb = "status" /\ c.plan # ReadPlan => c.current # None
  /\ \A x \in Objects : <<"status", x>> \in locks[q] => x = c.object

(* Whom the change of a call that gives nothing to a user directly affects. *)
Indirect(q) ==
  \/ call[q].verb = "status"
  \/ /\ call[q].verb \in {"add", "remove", "template"}
     /\ \A u \in Users : call[q].key \notin Own(u)
Affected(q) ==
  LET c == call[q]
      x == IF c.object # None THEN c.object ELSE c.key[2]
  IN IF c.verb = "status" /\ Goal(c) = status[c.object] THEN {}
     ELSE IF x \in Groups THEN GroupUsers(x) ELSE RoleUsers(x)

(* The plans that have still to find out. *)
Searching == AddPlans \cup UpdatePlans \cup {<<"affected", "bump">>}

(* As long as no other call commits, nobody who is affected is forgotten. *)
Covered(q) ==
  LET c == call[q] IN
  /\ c.verb = "status" /\ c.plan # ReadPlan =>
       c.current = status[c.object]
  /\ Indirect(q) =>
       \/ c.plan \in Searching
       \/ /\ c.plan \in {<<"write", "bump">>, <<"bump">>, <<>>}
          /\ c.plan = <<>> => c.users = {}
          /\ Affected(q) \subseteq c.users \cup Versions(q)

Typed ==
  /\ rows \subseteq Keys
  /\ status \in [Objects -> Statuses]
  /\ locks \in [Requests -> SUBSET Things]
  /\ pc \in [Requests -> {"idle", "run"} \cup Outcomes]
  /\ call \in [Requests -> Calls]
  /\ alone \subseteq Running
  /\ \A q \in Requests : q \notin Running => call[q] = Blank

(* A commit bumps a version at most once. *)
Counted == ver \in [Users -> 1 .. 1 + Cardinality({q \in Requests : pc[q] = "ok"})]

CourseInv ==
  /\ Typed
  /\ Counted
  /\ \A q \in Running : Course(q) /\ Restating(q)
  /\ \A q \in alone : Covered(q)

LEMMA OwnSteps ==
  \A p \in OwnPlans \cup ApprovalPlans :
    /\ p # <<>>
    /\ \/ Head(p) \in (Looks \ {"module", "read"}) \cup {"grantee"} /\ Tail(p) \in Unwritten
       \/ Head(p) = "write" /\ Tail(p) = <<"bump">>
<1>1. \A p \in OwnPlans : Head(p) \notin {"module", "read"}
  BY Tails DEF OwnPlans
<1>2. \A p \in ApprovalPlans : Head(p) \notin {"module", "read"}
  BY Tails DEF ApprovalPlans
<1>3. OwnPlans \subseteq Unwritten /\ ApprovalPlans \subseteq Unwritten
  BY DEF Unwritten
<1> QED BY <1>1, <1>2, <1>3, PlanSteps

LEMMA AddSteps ==
  \A p \in AddPlans :
    /\ p # <<>>
    /\ \/ Head(p) \in Looks \ {"module", "read"} /\ Tail(p) \in AddPlans
       \/ Head(p) = "write" /\ Tail(p) = <<"affected", "bump">>
<1>1. \A p \in AddPlans : p # <<>>
  BY DEF AddPlans
<1>2. \A p \in AddPlans : Head(p) \in {"group", "permission", "role", "exists", "write"}
  BY Tails DEF AddPlans
<1>3. /\ Tail(<<"group", "role", "exists", "write", "affected", "bump">>)
           = <<"role", "exists", "write", "affected", "bump">>
      /\ Tail(<<"permission", "role", "exists", "write", "affected", "bump">>)
           = <<"role", "exists", "write", "affected", "bump">>
      /\ Tail(<<"role", "exists", "write", "affected", "bump">>)
           = <<"exists", "write", "affected", "bump">>
      /\ Tail(<<"exists", "write", "affected", "bump">>) = <<"write", "affected", "bump">>
      /\ Tail(<<"permission", "write", "affected", "bump">>) = <<"write", "affected", "bump">>
      /\ Tail(<<"write", "affected", "bump">>) = <<"affected", "bump">>
      /\ Head(<<"write", "affected", "bump">>) = "write"
  BY Tails
<1>4. \A p \in AddPlans : p = <<"write", "affected", "bump">> \/ Tail(p) \in AddPlans
  BY <1>3 DEF AddPlans
<1>5. \A p \in AddPlans : Head(p) = "write" => p = <<"write", "affected", "bump">>
  BY Tails DEF AddPlans
<1> QED BY <1>1, <1>2, <1>3, <1>4, <1>5 DEF Looks

LEMMA OtherSteps ==
  /\ \A p \in UpdatePlans :
       /\ p # <<>>
       /\ \/ /\ p = ReadPlan /\ Head(p) = "read"
             /\ Tail(p) = <<"affected", "write", "bump">>
          \/ Head(p) = "affected" /\ Tail(p) = <<"write", "bump">>
  /\ \A p \in CatalogPlans :
       /\ p # <<>>
       /\ \/ Head(p) = "references" /\ Tail(p) = <<"write">>
          \/ Head(p) = "write" /\ Tail(p) = <<>>
  /\ \A p \in Written :
       \/ p = <<>>
       \/ p = <<"bump">> /\ Head(p) = "bump" /\ Tail(p) = <<>>
       \/ p = <<"affected", "bump">> /\ Head(p) = "affected" /\ Tail(p) = <<"bump">>
  /\ \A p \in Opening :
       /\ p # <<>>
       /\ \/ Head(p) = "lock" /\ Tail(p) = <<"user", "role", "grantee", "write", "bump">>
          \/ Head(p) = "module" /\ Tail(p) \in {<<"references", "write">>, <<"write">>}
<1>1. /\ \A p \in UpdatePlans :
           /\ p # <<>>
           /\ p = ReadPlan \/ p = <<"affected", "write", "bump">>
      /\ \A p \in CatalogPlans : p # <<>> /\ (p = <<"references", "write">> \/ p = <<"write">>)
      /\ \A p \in Written : p = <<>> \/ p = <<"bump">> \/ p = <<"affected", "bump">>
  BY DEF UpdatePlans, ReadPlan, CatalogPlans, Written
<1>2. /\ Head(ReadPlan) = "read"
      /\ Tail(ReadPlan) = <<"affected", "write", "bump">>
      /\ Head(<<"affected", "write", "bump">>) = "affected"
      /\ Tail(<<"affected", "write", "bump">>) = <<"write", "bump">>
  BY Tails DEF ReadPlan
<1>3. /\ Head(<<"references", "write">>) = "references"
      /\ Tail(<<"references", "write">>) = <<"write">>
      /\ Head(<<"write">>) = "write" /\ Tail(<<"write">>) = <<>>
      /\ Head(<<"bump">>) = "bump" /\ Tail(<<"bump">>) = <<>>
      /\ Head(<<"affected", "bump">>) = "affected" /\ Tail(<<"affected", "bump">>) = <<"bump">>
  BY Tails
<1>4. /\ Head(<<"lock", "user", "role", "grantee", "write", "bump">>) = "lock"
      /\ Tail(<<"lock", "user", "role", "grantee", "write", "bump">>)
           = <<"user", "role", "grantee", "write", "bump">>
      /\ Head(<<"module", "references", "write">>) = "module"
      /\ Tail(<<"module", "references", "write">>) = <<"references", "write">>
      /\ Head(<<"module", "write">>) = "module" /\ Tail(<<"module", "write">>) = <<"write">>
  BY Tails
<1>5. \A p \in Opening :
        \/ Head(p) = "lock" /\ Tail(p) = <<"user", "role", "grantee", "write", "bump">>
        \/ Head(p) = "module" /\ Tail(p) \in {<<"references", "write">>, <<"write">>}
  BY <1>4 DEF Opening
<1>6. \A p \in Opening : p # <<>>
  BY DEF Opening
<1> QED BY <1>1, <1>2, <1>3, <1>5, <1>6

LEMMA CoursePlans ==
  /\ \A p \in Opening :
       /\ p # <<>> /\ Tail(p) \in Unwritten
       /\ Head(p) \in {"lock", "module"}
  /\ \A p \in Unwritten :
       /\ p # <<>>
       /\ \/ Head(p) \in (Looks \ {"module"}) \cup {"affected", "grantee"} /\ Tail(p) \in Unwritten
          \/ Head(p) = "write" /\ Tail(p) \in Written
  /\ \A p \in Written :
       \/ p = <<>>
       \/ p = <<"bump">> /\ Head(p) = "bump" /\ Tail(p) = <<>>
       \/ p = <<"affected", "bump">> /\ Head(p) = "affected" /\ Tail(p) = <<"bump">>
<1>1. /\ <<"user", "role", "grantee", "write", "bump">> \in Unwritten
      /\ <<"references", "write">> \in Unwritten /\ <<"write">> \in Unwritten
      /\ <<"write", "bump">> \in Unwritten /\ <<"affected", "write", "bump">> \in Unwritten
  BY DEF Unwritten, OwnPlans, ApprovalPlans, UpdatePlans, CatalogPlans
<1>2. /\ <<"affected", "bump">> \in Written /\ <<"bump">> \in Written /\ <<>> \in Written
  BY DEF Written
<1>3. \A p \in Unwritten :
        /\ p # <<>>
        /\ \/ Head(p) \in (Looks \ {"module"}) \cup {"affected", "grantee"} /\ Tail(p) \in Unwritten
           \/ Head(p) = "write" /\ Tail(p) \in Written
  <2>1. AddPlans \subseteq Unwritten /\ {"read", "references"} \subseteq Looks \ {"module"}
    BY DEF Unwritten, Looks
  <2>2. ASSUME NEW p \in OwnPlans \cup ApprovalPlans
        PROVE  /\ p # <<>>
               /\ \/ Head(p) \in (Looks \ {"module"}) \cup {"grantee"} /\ Tail(p) \in Unwritten
                  \/ Head(p) = "write" /\ Tail(p) \in Written
    BY <1>2, OwnSteps
  <2>3. ASSUME NEW p \in AddPlans
        PROVE  /\ p # <<>>
               /\ \/ Head(p) \in Looks \ {"module"} /\ Tail(p) \in Unwritten
                  \/ Head(p) = "write" /\ Tail(p) \in Written
    BY <1>2, <2>1, AddSteps
  <2>4. ASSUME NEW p \in UpdatePlans
        PROVE  /\ p # <<>>
               /\ Head(p) \in {"read", "affected"} /\ Tail(p) \in Unwritten
    BY <1>1, OtherSteps
  <2>5. ASSUME NEW p \in CatalogPlans
        PROVE  /\ p # <<>>
               /\ \/ Head(p) = "references" /\ Tail(p) \in Unwritten
                  \/ Head(p) = "write" /\ Tail(p) \in Written
    BY <1>1, <1>2, OtherSteps
  <2> QED BY <2>1, <2>2, <2>3, <2>4, <2>5 DEF Unwritten
<1> QED BY <1>1, <1>3, OtherSteps

LEMMA SearchPlans ==
  /\ \A p \in Searching :
       /\ p # <<>>
       /\ \/ Head(p) \in (Looks \ {"module"}) \cup {"write"} /\ Tail(p) \in Searching
          \/ Head(p) = "affected" /\ Tail(p) \in {<<"write", "bump">>, <<"bump">>}
  /\ Head(<<"write", "bump">>) = "write" /\ Tail(<<"write", "bump">>) = <<"bump">>
  /\ Head(<<"bump">>) = "bump" /\ Tail(<<"bump">>) = <<>>
<1>1. /\ <<"affected", "bump">> \in Searching /\ <<"affected", "write", "bump">> \in Searching
      /\ AddPlans \subseteq Searching /\ "read" \in Looks
  BY DEF Searching, UpdatePlans, Looks
<1>2. /\ <<"affected", "bump">> # <<>>
      /\ Head(<<"affected", "bump">>) = "affected" /\ Tail(<<"affected", "bump">>) = <<"bump">>
  BY Tails
<1>3. ASSUME NEW p \in AddPlans
      PROVE  /\ p # <<>>
             /\ Head(p) \in (Looks \ {"module"}) \cup {"write"} /\ Tail(p) \in Searching
  BY <1>1, AddSteps
<1>4. ASSUME NEW p \in UpdatePlans
      PROVE  /\ p # <<>>
             /\ \/ Head(p) \in Looks \ {"module"} /\ Tail(p) \in Searching
                \/ Head(p) = "affected" /\ Tail(p) = <<"write", "bump">>
  BY <1>1, OtherSteps DEF Looks
<1>5. \A p \in Searching :
        /\ p # <<>>
        /\ \/ Head(p) \in (Looks \ {"module"}) \cup {"write"} /\ Tail(p) \in Searching
           \/ Head(p) = "affected" /\ Tail(p) \in {<<"write", "bump">>, <<"bump">>}
  BY <1>2, <1>3, <1>4 DEF Searching
<1> QED BY <1>5, Tails

(* Only the whole plan of an update starts with the look at the status. *)
LEMMA ReadPlans ==
  \A p \in Opening \cup Unwritten \cup Written :
    Head(p) = "read" /\ p # <<>> => p = ReadPlan
<1>1. \A p \in OwnPlans \cup ApprovalPlans \cup AddPlans : Head(p) # "read"
  BY OwnSteps, AddSteps
<1> QED BY <1>1, OtherSteps DEF Unwritten

LEMMA Lists ==
  ASSUME NEW S
  PROVE  /\ <<>> \in Seq(S)
         /\ \A x \in S : <<x>> \in Seq(S)
         /\ \A x, y \in S : <<x, y>> \in Seq(S)
         /\ \A x, y, z \in S : <<x, y, z>> \in Seq(S)
         /\ \A x, y, z, v \in S : <<x, y, z, v>> \in Seq(S)
         /\ \A x, y, z, v, w \in S : <<x, y, z, v, w>> \in Seq(S)
         /\ \A x, y, z, v, w, s \in S : <<x, y, z, v, w, s>> \in Seq(S)
OBVIOUS

LEMMA PlansTyped ==
  /\ Opening \subseteq Seq(Labels) /\ Unwritten \subseteq Seq(Labels)
  /\ Written \subseteq Seq(Labels) /\ AskPlans \subseteq Seq(Labels)
  /\ <<"lock">> \in Seq(Labels)
<1>1. Opening \subseteq Seq(Labels) /\ Written \subseteq Seq(Labels)
  BY Lists DEF Opening, Written, Labels
<1>2. OwnPlans \subseteq Seq(Labels)
  BY Lists DEF OwnPlans, Labels
<1>3. ApprovalPlans \subseteq Seq(Labels)
  BY Lists DEF ApprovalPlans, Labels
<1>4. AddPlans \subseteq Seq(Labels)
  BY Lists DEF AddPlans, Labels
<1>5. UpdatePlans \subseteq Seq(Labels) /\ CatalogPlans \subseteq Seq(Labels)
  BY Lists DEF UpdatePlans, ReadPlan, CatalogPlans, Labels
<1>6. AskPlans \subseteq Seq(Labels) /\ <<"lock">> \in Seq(Labels)
  BY Lists DEF AskPlans, Labels
<1> QED BY <1>1, <1>2, <1>3, <1>4, <1>5, <1>6 DEF Unwritten

(* Only call q moves, and it does not commit. *)
LEMMA CourseFrame ==
  ASSUME CourseInv, NEW q \in Requests, UNCHANGED committed,
         locks' \in [Requests -> SUBSET Things], call' \in [Requests -> Calls],
         pc' \in [Requests -> {"idle", "run"} \cup Outcomes],
         \A r \in Requests \ {q} : pc'[r] = pc[r] /\ call'[r] = call[r] /\ locks'[r] = locks[r],
         pc[q] # "ok", pc'[q] # "ok",
         alone' \subseteq alone \cup {q}, q \in alone' => pc'[q] = "run",
         IF pc'[q] = "run" THEN Course(q)' /\ Restating(q)' ELSE call'[q] = Blank,
         q \in alone' => Covered(q)'
  PROVE  CourseInv'
<1>1. rows' = rows /\ status' = status /\ ver' = ver
  BY DEF committed
<1>2. Typed'
  <2>1. alone' \subseteq Running'
    BY DEF CourseInv, Typed, Running
  <2>2. \A r \in Requests : r \notin Running' => call'[r] = Blank
    BY DEF CourseInv, Typed, Running
  <2> QED BY <1>1, <2>1, <2>2 DEF CourseInv, Typed, Running
<1>3. Counted'
  <2>1. {r \in Requests : pc'[r] = "ok"} = {r \in Requests : pc[r] = "ok"}
    OBVIOUS
  <2> QED BY <1>1, <2>1 DEF CourseInv, Counted
<1>4. ASSUME NEW r \in Requests \ {q}
      PROVE  /\ Course(r)' = Course(r) /\ Restating(r)' = Restating(r)
             /\ Covered(r)' = Covered(r)
  <2>1. call'[r] = call[r] /\ locks'[r] = locks[r]
    OBVIOUS
  <2>2. Versions(r)' = Versions(r) /\ Untouched(r)' = Untouched(r) /\ Ordered(r)' = Ordered(r)
    BY <2>1 DEF Versions, Untouched, Ordered
  <2>3. Affected(r)' = Affected(r)
    BY <1>1, <2>1 DEF Affected, GroupUsers, RoleUsers, HasRole, ThroughGroup
  <2>4. Indirect(r)' = Indirect(r)
    BY <2>1 DEF Indirect
  <2> QED BY <1>1, <2>1, <2>2, <2>3, <2>4 DEF Course, Restating, Covered
<1>5. \A r \in Running' : Course(r)' /\ Restating(r)'
  BY <1>4 DEF CourseInv, Running
<1>6. \A r \in alone' : Covered(r)'
  BY <1>4 DEF CourseInv, Typed, Running
<1> QED BY <1>2, <1>3, <1>5, <1>6 DEF CourseInv

LEMMA LeaveCourse ==
  ASSUME Inv, CourseInv, NEW q \in Requests, pc[q] = "run",
         NEW outcome \in {"unchanged", "denied", "failed"}, Leave(q, outcome)
  PROVE  CourseInv'
<1>1. /\ pc' = [pc EXCEPT ![q] = outcome] /\ locks' = [locks EXCEPT ![q] = {}]
      /\ call' = [call EXCEPT ![q] = Blank] /\ alone' = alone \ {q} /\ UNCHANGED committed
  BY DEF Leave
<1>2. Blank \in Calls
  BY DEF Blank, Calls
<1>3. /\ locks' \in [Requests -> SUBSET Things] /\ call' \in [Requests -> Calls]
      /\ pc' \in [Requests -> {"idle", "run"} \cup Outcomes]
  BY <1>1, <1>2 DEF CourseInv, Typed, Outcomes
<1>4. /\ pc'[q] = outcome /\ call'[q] = Blank
      /\ \A r \in Requests \ {q} : pc'[r] = pc[r] /\ call'[r] = call[r] /\ locks'[r] = locks[r]
  BY <1>1 DEF CourseInv, Typed
<1> QED BY <1>1, <1>3, <1>4, CourseFrame

(* A call as it starts. *)
Started(c) ==
  /\ c \in Calls
  /\ c.verb \notin {"ask", "reject"} => c.plan \in Opening \cup Unwritten
  /\ c.object # None <=> c.verb \in {"status", "catalog"}
  /\ c.verb = "catalog" => c.goal # None
  /\ c.verb = "status" => c.object \in Groups \cup Roles
  /\ c.verb = "status" <=> c.plan = ReadPlan
  /\ c.verb \in {"add", "remove", "template"} /\ (\A u \in Users : c.key \notin Own(u)) =>
       c.plan \in Searching

LEMMA BeginCourse ==
  ASSUME Inv, CourseInv, NEW q \in Requests, NEW c, Started(c), Begin(q, c)
  PROVE  CourseInv'
<1>1. /\ pc[q] = "idle" /\ locks[q] = {}
      /\ pc' = [pc EXCEPT ![q] = "run"] /\ call' = [call EXCEPT ![q] = c]
      /\ alone' = alone \cup {q}
      /\ UNCHANGED committed /\ locks' = locks
  BY DEF Begin, Inv
<1>2. pc'[q] = "run" /\ call'[q] = c /\ locks'[q] = {}
  BY <1>1 DEF Inv, Shape
<1>3. /\ locks' \in [Requests -> SUBSET Things] /\ call' \in [Requests -> Calls]
      /\ pc' \in [Requests -> {"idle", "run"} \cup Outcomes]
      /\ \A r \in Requests \ {q} : pc'[r] = pc[r] /\ call'[r] = call[r] /\ locks'[r] = locks[r]
  BY <1>1 DEF CourseInv, Typed, Started
<1>4. Versions(q)' = {} /\ Untouched(q)' /\ Ordered(q)'
  BY <1>2 DEF Versions, Untouched, Ordered
<1>5. Course(q)' /\ Restating(q)'
  BY <1>2, <1>4 DEF Course, Restating, Started
<1>6. Covered(q)'
  <2>1. ReadPlan \in Searching
    BY DEF Searching, UpdatePlans
  <2> QED BY <1>2, <2>1 DEF Covered, Indirect, Started
<1> QED BY <1>1, <1>2, <1>3, <1>5, <1>6, CourseFrame

(* Calls as the operations write them. *)
LEMMA Changing ==
  ASSUME NEW key \in Keys, NEW users \in SUBSET Users,
         NEW plan \in OwnPlans \cup AddPlans \cup UpdatePlans, plan # ReadPlan,
         (\A u \in Users : key \notin Own(u)) => plan \in Searching
  PROVE  Started(Add(key, users, plan)) /\ Started(Remove(key, users, plan))
<1>1. plan \in Unwritten /\ plan \in Seq(Labels)
  BY PlansTyped DEF Unwritten
<1>2. Add(key, users, plan) \in Calls /\ Remove(key, users, plan) \in Calls
  BY <1>1 DEF Add, Remove, Blank, Calls, AllVerbs
<1> QED BY <1>1, <1>2 DEF Started, Add, Remove, Blank

LEMMA ChangesCourse ==
  ASSUME Inv, CourseInv, NEW q \in Requests,
         \/ AddGroupMember(q) \/ RemoveGroupMember(q)
         \/ AssignGroupRole(q) \/ RemoveGroupRole(q)
         \/ AddRolePermission(q) \/ RemoveRolePermission(q)
         \/ RemoveUserRole(q)
  PROVE  CourseInv'
<1>1. /\ <<"group", "user", "exists", "write", "bump">> \in OwnPlans \ {ReadPlan}
      /\ <<"write", "bump">> \in OwnPlans \ {ReadPlan}
  BY DEF OwnPlans, ReadPlan
<1>2. /\ <<"group", "role", "exists", "write", "affected", "bump">> \in AddPlans \ {ReadPlan}
      /\ <<"permission", "role", "exists", "write", "affected", "bump">> \in AddPlans \ {ReadPlan}
  BY DEF AddPlans, ReadPlan
<1>3. <<"affected", "write", "bump">> \in UpdatePlans \ {ReadPlan}
  BY DEF UpdatePlans, ReadPlan
<1>4. AddPlans \subseteq Searching /\ UpdatePlans \subseteq Searching
  BY DEF Searching
<1>5. /\ \A g \in Groups, u \in Users : <<"member", g, u>> \in Own(u)
      /\ \A u \in Users, ro \in Roles : <<"userRole", u, ro>> \in Own(u)
  BY DEF Own
<1>6. CASE AddGroupMember(q)
  BY <1>1, <1>5, <1>6, Changing, KeyKinds, BeginCourse DEF AddGroupMember
<1>7. CASE RemoveGroupMember(q)
  BY <1>1, <1>5, <1>7, Changing, KeyKinds, BeginCourse DEF RemoveGroupMember
<1>8. CASE AssignGroupRole(q)
  BY <1>2, <1>4, <1>8, Changing, KeyKinds, BeginCourse DEF AssignGroupRole
<1>9. CASE RemoveGroupRole(q)
  BY <1>3, <1>4, <1>9, Changing, KeyKinds, BeginCourse DEF RemoveGroupRole
<1>10. CASE AddRolePermission(q)
  BY <1>2, <1>4, <1>10, Changing, KeyKinds, BeginCourse DEF AddRolePermission
<1>11. CASE RemoveRolePermission(q)
  BY <1>3, <1>4, <1>11, Changing, KeyKinds, BeginCourse DEF RemoveRolePermission
<1>12. CASE RemoveUserRole(q)
  BY <1>1, <1>5, <1>12, Changing, KeyKinds, BeginCourse DEF RemoveUserRole
<1> QED BY <1>6, <1>7, <1>8, <1>9, <1>10, <1>11, <1>12

LEMMA OthersCourse ==
  ASSUME Inv, CourseInv, NEW q \in Requests,
         \/ AssignUserRole(q) \/ UpdateGroupOrRole(q) \/ UpgradeRoleTemplate(q) \/ PutCatalog(q)
         \/ Approve(q) \/ Reject(q)
  PROVE  CourseInv'
<1>1. CASE AssignUserRole(q)
  <2>1. PICK u \in Users, ro \in Roles :
          \/ \E a \in Actors :
               Begin(q, [Blank EXCEPT !.verb = "ask", !.key = <<"userRole", u, ro>>, !.actor = a,
                                      !.plan = <<"role", "user", "exists", "pending", "file">>])
          \/ Begin(q, Add(<<"userRole", u, ro>>, {u},
                          <<"role", "user", "role", "exists", "write", "bump">>))
    BY <1>1 DEF AssignUserRole
  <2>2. ASSUME NEW a \in Actors
        PROVE  Started([Blank EXCEPT !.verb = "ask", !.key = <<"userRole", u, ro>>, !.actor = a,
                                     !.plan = <<"role", "user", "exists", "pending", "file">>])
    <3>1. /\ <<"role", "user", "exists", "pending", "file">> \in Seq(Labels)
          /\ <<"role", "user", "exists", "pending", "file">> # ReadPlan
      BY PlansTyped DEF AskPlans, ReadPlan
    <3> QED BY <3>1, KeyKinds DEF Started, Calls, Blank, AllVerbs
  <2>3. /\ <<"role", "user", "role", "exists", "write", "bump">> \in OwnPlans \ {ReadPlan}
        /\ <<"userRole", u, ro>> \in Own(u)
    BY DEF OwnPlans, ReadPlan, Own
  <2>4. Started(Add(<<"userRole", u, ro>>, {u},
                    <<"role", "user", "role", "exists", "write", "bump">>))
    BY <2>3, KeyKinds, Changing
  <2> QED BY <2>1, <2>2, <2>4, BeginCourse
<1>2. CASE UpdateGroupOrRole(q)
  <2>1. PICK x \in Groups \cup Roles, goal \in {"ACTIVE", "INACTIVE", None} :
          Begin(q, [Blank EXCEPT !.verb = "status", !.object = x, !.goal = goal,
                                 !.plan = ReadPlan])
    BY <1>2 DEF UpdateGroupOrRole, ReadPlan
  <2>2. ReadPlan \in Unwritten /\ ReadPlan \in Seq(Labels)
    BY PlansTyped DEF Unwritten, UpdatePlans
  <2>3. x \in Objects \ {None} /\ goal \in Statuses \cup {None}
    BY NamesAssumption DEF Objects, Statuses
  <2>4. Started([Blank EXCEPT !.verb = "status", !.object = x, !.goal = goal,
                              !.plan = ReadPlan])
    BY <2>2, <2>3 DEF Started, Calls, Blank, AllVerbs
  <2> QED BY <2>1, <2>4, BeginCourse
<1>3. CASE UpgradeRoleTemplate(q)
  <2>1. PICK ro \in Roles, p \in Perms :
          Begin(q, [Blank EXCEPT !.verb = "template", !.key = <<"rolePerm", ro, p>>,
                                 !.plan = <<"permission", "write", "affected", "bump">>])
    BY <1>3 DEF UpgradeRoleTemplate
  <2>2. /\ <<"permission", "write", "affected", "bump">> \in AddPlans
        /\ <<"permission", "write", "affected", "bump">> # ReadPlan
    BY DEF AddPlans, ReadPlan
  <2>3. Started([Blank EXCEPT !.verb = "template", !.key = <<"rolePerm", ro, p>>,
                              !.plan = <<"permission", "write", "affected", "bump">>])
    BY <2>2, PlansTyped, KeyKinds DEF Started, Calls, Blank, AllVerbs, Unwritten, Searching
  <2> QED BY <2>1, <2>3, BeginCourse
<1>4. CASE PutCatalog(q)
  <2>1. PICK p \in Perms, goal \in {"ACTIVE", "DEPRECATED", "RETIRED"},
             plan \in {<<"module", "references", "write">>, <<"module", "write">>} :
          Begin(q, [Blank EXCEPT !.verb = "catalog", !.object = p, !.goal = goal, !.plan = plan])
    BY <1>4 DEF PutCatalog
  <2>2. plan \in Opening /\ plan # ReadPlan
    BY DEF Opening, ReadPlan
  <2>3. p \in Objects \ {None} /\ goal \in Statuses \ {None}
    BY NamesAssumption DEF Objects, Statuses
  <2>4. Started([Blank EXCEPT !.verb = "catalog", !.object = p, !.goal = goal, !.plan = plan])
    BY <2>2, <2>3, PlansTyped DEF Started, Calls, Blank, AllVerbs
  <2> QED BY <2>1, <2>4, BeginCourse
<1>5. CASE Approve(q)
  <2> DEFINE plan == <<"lock", "user", "role", "grantee", "write", "bump">>
  <2>1. PICK x \in RequestIds, a \in Actors :
          Begin(q, [Blank EXCEPT !.verb = "approve", !.request = x, !.actor = a, !.plan = plan])
    BY <1>5 DEF Approve, Decide
  <2>2. plan \in Opening /\ plan # ReadPlan
    BY DEF Opening, ReadPlan
  <2> HIDE DEF plan
  <2>3. Started([Blank EXCEPT !.verb = "approve", !.request = x, !.actor = a, !.plan = plan])
    BY <2>2, PlansTyped DEF Started, Calls, Blank, AllVerbs
  <2> QED BY <2>1, <2>3, BeginCourse
<1>6. CASE Reject(q)
  <2>1. PICK x \in RequestIds, a \in Actors :
          Begin(q, [Blank EXCEPT !.verb = "reject", !.request = x, !.actor = a,
                                 !.plan = <<"lock">>])
    BY <1>6 DEF Reject, Decide
  <2>2. <<"lock">> # ReadPlan
    BY DEF ReadPlan
  <2>3. Started([Blank EXCEPT !.verb = "reject", !.request = x, !.actor = a, !.plan = <<"lock">>])
    BY <2>2, PlansTyped DEF Started, Calls, Blank, AllVerbs
  <2> QED BY <2>1, <2>3, BeginCourse
<1> QED BY <1>1, <1>2, <1>3, <1>4, <1>5, <1>6

(* No call looks at the status twice. *)
LEMMA ReadOnce ==
  \A p \in Opening \cup Unwritten \cup Written : p # <<>> => Tail(p) # ReadPlan
<1>1. ReadPlan \notin OwnPlans /\ ReadPlan \notin ApprovalPlans
  BY DEF ReadPlan, OwnPlans, ApprovalPlans
<1>2. ReadPlan \notin AddPlans
  BY DEF ReadPlan, AddPlans
<1>3. /\ ReadPlan \notin {<<"affected", "bump">>, <<"bump">>, <<>>, <<"write">>, <<"write", "bump">>}
      /\ ReadPlan \notin {<<"affected", "write", "bump">>, <<"references", "write">>,
                          <<"user", "role", "grantee", "write", "bump">>}
  BY DEF ReadPlan
<1>4. \A p \in OwnPlans \cup ApprovalPlans : Tail(p) # ReadPlan
  BY <1>1, <1>3, PlanSteps
<1>5. \A p \in AddPlans : Tail(p) # ReadPlan
  BY <1>2, <1>3, AddSteps
<1>6. \A p \in UpdatePlans \cup CatalogPlans \cup Written \cup Opening : p # <<>> => Tail(p) # ReadPlan
  BY <1>3, OtherSteps
<1> QED BY <1>4, <1>5, <1>6 DEF Unwritten

(* Nor does one that asks for a privileged role or rejects a request. *)
LEMMA AskSteps ==
  /\ ReadPlan \notin AskPlans \cup {<<"lock">>}
  /\ \A p \in AskPlans : p # <<>> => Head(p) # "module"
<1>1. ReadPlan \notin AskPlans \cup {<<"lock">>}
  BY DEF ReadPlan, AskPlans
<1> QED BY <1>1, Tails DEF AskPlans

(* The effect of a statement on the call that runs it. *)
LEMMA GoOn ==
  ASSUME CourseInv, NEW q \in Requests, NEW c \in Calls, Advance(q, c), c.plan # <<>>
  PROVE  /\ call' \in [Requests -> Calls]
         /\ call'[q].plan = Tail(c.plan)
         /\ call'[q].verb = c.verb /\ call'[q].key = c.key /\ call'[q].object = c.object
         /\ call'[q].goal = c.goal /\ call'[q].request = c.request
         /\ call'[q].actor = c.actor /\ call'[q].current = c.current
         /\ call'[q].users = c.users
         /\ \A r \in Requests \ {q} : call'[r] = call[r]
         /\ UNCHANGED <<committed, pc, alone>>
<1>1. /\ call' = [call EXCEPT ![q] = [c EXCEPT !.plan = Tail(c.plan)]]
      /\ UNCHANGED <<committed, pc, alone>>
  BY DEF Advance
<1>2. Tail(c.plan) \in Seq(Labels)
  BY PlanTail DEF Calls
<1>3. [c EXCEPT !.plan = Tail(c.plan)] \in Calls
  BY <1>2 DEF Calls
<1>4. call'[q] = [c EXCEPT !.plan = Tail(c.plan)]
  BY <1>1 DEF CourseInv, Typed
<1> QED BY <1>1, <1>3, <1>4 DEF CourseInv, Typed, Calls

(* What a statement other than the commit has to establish. *)
LEMMA AdvanceCourse ==
  ASSUME CourseInv, NEW q \in Requests, pc[q] = "run", NEW c \in Calls, Advance(q, c),
         c.plan # <<>>,
         \/ locks' = locks
         \/ locks' = [locks EXCEPT ![q] = {}]
         \/ \E S \in SUBSET Things : Take(q, S),
         Course(q)', Restating(q)', q \in alone => Covered(q)'
  PROVE  CourseInv'
<1>1. /\ call' \in [Requests -> Calls] /\ UNCHANGED <<committed, pc, alone>>
      /\ \A r \in Requests \ {q} : call'[r] = call[r]
  BY GoOn
<1>2. /\ locks' \in [Requests -> SUBSET Things]
      /\ \A r \in Requests \ {q} : locks'[r] = locks[r]
  BY DEF CourseInv, Typed, Take
<1>3. alone' \subseteq alone \cup {q}
  BY <1>1
<1>4. pc' \in [Requests -> {"idle", "run"} \cup Outcomes]
  BY <1>1 DEF CourseInv, Typed
<1> QED BY <1>1, <1>2, <1>3, <1>4, CourseFrame

LEMMA LookCourse ==
  ASSUME Inv, CourseInv, NEW q \in Requests,
         NEW s \in (Looks \ {"module", "read"}) \cup {"grantee"}, At(q, s),
         Advance(q, call[q]), locks' = locks
  PROVE  CourseInv'
<1> DEFINE p == call[q].plan
<1>1. /\ pc[q] = "run" /\ p # <<>> /\ Head(p) = s /\ OnTrack(q)
      /\ s \notin {"module", "read", "write", "lock", "bump", "affected", "file", "reselect"}
  BY AtHead DEF Looks
<1>2. /\ call[q] \in Calls /\ Course(q) /\ Restating(q) /\ (q \in alone => Covered(q))
  BY <1>1 DEF CourseInv, Typed, Running
<1>3. /\ call'[q].plan = Tail(p)
      /\ call'[q].verb = call[q].verb /\ call'[q].key = call[q].key
      /\ call'[q].object = call[q].object /\ call'[q].goal = call[q].goal
      /\ call'[q].current = call[q].current /\ call'[q].users = call[q].users
      /\ rows' = rows /\ status' = status
  BY <1>1, <1>2, GoOn DEF committed
<1>4. /\ Versions(q)' = Versions(q) /\ Untouched(q)' = Untouched(q)
      /\ Ordered(q)' = Ordered(q) /\ Indirect(q)' = Indirect(q)
  BY <1>3 DEF Versions, Untouched, Ordered, Indirect
<1>5. Affected(q)' = Affected(q)
  BY <1>3 DEF Affected, Goal, GroupUsers, RoleUsers, HasRole, ThroughGroup
<1>6. ASSUME call[q].verb \notin {"ask", "reject"}
      PROVE  p \in Unwritten /\ Tail(p) \in Unwritten /\ Untouched(q)
  <2>1. p \notin Opening /\ p \notin Written
    BY <1>1, CoursePlans
  <2> QED BY <1>1, <1>2, <1>6, <2>1, CoursePlans DEF Course
<1>7. Course(q)'
  BY <1>1, <1>2, <1>3, <1>4, <1>6 DEF Course
<1>8. p # ReadPlan
  BY <1>1, OtherSteps DEF UpdatePlans
<1>9. Tail(p) # ReadPlan
  <2>1. CASE call[q].verb = "ask"
    <3>1. p \in AskPlans
      BY <1>1, <2>1 DEF OnTrack, Asking
    <3>2. Tail(p) \in AskPlans
      BY <1>1, <3>1, PlanSteps
    <3> QED BY <3>2, AskSteps
  <2>2. CASE call[q].verb = "reject"
    BY <1>1, <2>2, PlanSteps DEF OnTrack, Rejection
  <2> QED BY <1>1, <1>6, <2>1, <2>2, ReadOnce
<1>10. Restating(q)'
  BY <1>2, <1>3, <1>8, <1>9 DEF Restating
<1>11. ASSUME Covered(q)
       PROVE  Covered(q)'
  <2>1. p \notin {<<"write", "bump">>, <<"bump">>, <<>>}
    BY <1>1, SearchPlans
  <2>2. p \in Searching => Tail(p) \in Searching
    BY <1>1, SearchPlans
  <2> QED BY <1>3, <1>4, <1>5, <1>8, <1>11, <2>1, <2>2 DEF Covered
<1> QED BY <1>1, <1>2, <1>7, <1>10, <1>11, AdvanceCourse

LEMMA ReadCourse ==
  ASSUME Inv, CourseInv, NEW q \in Requests, Read(q)
  PROVE  CourseInv'
<1> DEFINE p == call[q].plan
           c == [call[q] EXCEPT !.current = status[call[q].object]]
<1>1. /\ pc[q] = "run" /\ p # <<>> /\ Head(p) = "read" /\ OnTrack(q)
      /\ Advance(q, c) /\ locks' = locks
  BY AtHead DEF Read
<1>2. /\ call[q] \in Calls /\ Course(q) /\ Restating(q) /\ (q \in alone => Covered(q))
  BY <1>1 DEF CourseInv, Typed, Running
<1>3. call[q].verb \notin {"ask", "reject"}
  <2>1. call[q].verb # "reject"
    BY <1>1, PlanSteps DEF OnTrack, Rejection
  <2>2. \A a \in AskPlans : a # <<>> => Head(a) # "read"
    BY Tails DEF AskPlans
  <2> QED BY <1>1, <2>1, <2>2 DEF OnTrack, Asking
<1>4. p = ReadPlan /\ call[q].verb = "status"
  BY <1>1, <1>2, <1>3, ReadPlans DEF Course, Restating
<1>5. p \in Unwritten /\ Tail(p) # ReadPlan /\ Tail(p) \in UpdatePlans
  <2>1. p \in UpdatePlans /\ <<"affected", "write", "bump">> \in UpdatePlans
    BY <1>4 DEF UpdatePlans
  <2>2. Tail(p) = <<"affected", "write", "bump">>
    BY <1>4, OtherSteps DEF ReadPlan
  <2> QED BY <1>1, <2>1, <2>2, ReadOnce DEF Unwritten
<1>6. call[q].object \in Objects /\ status[call[q].object] \in Statuses
  BY <1>1, <1>4 DEF OnTrack, CourseInv, Typed
<1>7. c \in Calls
  BY <1>2, <1>6 DEF Calls
<1>8. /\ c.verb = call[q].verb /\ c.key = call[q].key /\ c.object = call[q].object
      /\ c.goal = call[q].goal /\ c.users = call[q].users /\ c.plan = p
      /\ c.current = status[call[q].object]
  BY <1>2 DEF Calls
<1> HIDE DEF c
<1>9. /\ call'[q].plan = Tail(p)
      /\ call'[q].verb = call[q].verb /\ call'[q].key = call[q].key
      /\ call'[q].object = call[q].object /\ call'[q].goal = call[q].goal
      /\ call'[q].current = status[call[q].object] /\ call'[q].users = call[q].users
      /\ status' = status
  BY <1>1, <1>7, <1>8, GoOn DEF committed
<1>10. Versions(q)' = Versions(q) /\ Untouched(q)' = Untouched(q) /\ Ordered(q)' = Ordered(q)
  BY <1>1, <1>9 DEF Versions, Untouched, Ordered
<1>11. p \notin Opening /\ p \notin Written
  BY <1>1, CoursePlans
<1>12. Course(q)'
  BY <1>2, <1>3, <1>5, <1>9, <1>10, <1>11 DEF Course, Unwritten
<1>13. Restating(q)'
  BY <1>1, <1>2, <1>4, <1>5, <1>6, <1>9, NamesAssumption DEF Restating
<1>14. Covered(q)'
  BY <1>5, <1>9 DEF Covered, Searching
<1> QED BY <1>1, <1>7, <1>8, <1>12, <1>13, <1>14, AdvanceCourse

(* Whose versions are bumped: all who are affected. *)
LEMMA AffectedCourse ==
  ASSUME Inv, CourseInv, NEW q \in Requests, FindAffected(q)
  PROVE  CourseInv'
<1> DEFINE p == call[q].plan
           x == IF call[q].object # None THEN call[q].object ELSE call[q].key[2]
           users == IF call[q].verb = "status" /\ Goal(call[q]) = call[q].current THEN {}
                    ELSE IF x \in Groups THEN GroupUsers(x) ELSE RoleUsers(x)
           c == [call[q] EXCEPT !.users = users]
<1>1. /\ pc[q] = "run" /\ p # <<>> /\ Head(p) = "affected" /\ OnTrack(q)
      /\ Advance(q, c) /\ locks' = locks
  BY AtHead DEF FindAffected
<1>2. /\ call[q] \in Calls /\ Course(q) /\ Restating(q) /\ (q \in alone => Covered(q))
  BY <1>1 DEF CourseInv, Typed, Running
<1>3. call[q].verb \notin {"ask", "reject"}
  BY <1>1, PlanSteps DEF OnTrack, Asking, Rejection, Looks
<1>4. users \in SUBSET Users
  BY DEF GroupUsers, RoleUsers
<1>5. c \in Calls
  BY <1>2, <1>4 DEF Calls
<1>6. /\ c.verb = call[q].verb /\ c.key = call[q].key /\ c.object = call[q].object
      /\ c.goal = call[q].goal /\ c.current = call[q].current /\ c.plan = p
      /\ c.users = users
  BY <1>2 DEF Calls
<1> HIDE DEF c, x, users
<1>7. /\ call'[q].plan = Tail(p)
      /\ call'[q].verb = call[q].verb /\ call'[q].key = call[q].key
      /\ call'[q].object = call[q].object /\ call'[q].goal = call[q].goal
      /\ call'[q].current = call[q].current /\ call'[q].users = users
      /\ rows' = rows /\ status' = status
  BY <1>1, <1>5, <1>6, GoOn DEF committed
<1>8. \/ p \in Unwritten /\ Untouched(q)
      \/ p \in Written /\ (p = <<"affected", "bump">> => Versions(q) = {})
  <2>1. p \notin Opening
    BY <1>1, CoursePlans
  <2> QED BY <1>2, <1>3, <2>1 DEF Course
<1>9. /\ Versions(q) = {}
      /\ \/ p \in Unwritten /\ Tail(p) \in Unwritten /\ Untouched(q)
         \/ p \in Written /\ Tail(p) \in Written
  <2>1. p \in Unwritten => Tail(p) \in Unwritten
    BY <1>1, CoursePlans
  <2>2. p \in Written => p = <<"affected", "bump">> /\ Tail(p) = <<"bump">>
    BY <1>1, OtherSteps
  <2>3. <<"bump">> \in Written
    BY DEF Written
  <2> QED BY <1>8, <2>1, <2>2, <2>3 DEF Untouched
<1>10. Versions(q)' = {} /\ Untouched(q)' = Untouched(q)
  BY <1>1, <1>9 DEF Versions, Untouched
<1>11. Course(q)'
  BY <1>3, <1>7, <1>9, <1>10 DEF Course, Ordered
<1>12. p # ReadPlan /\ Tail(p) # ReadPlan
  <2>1. p # ReadPlan
    BY <1>1, Tails DEF ReadPlan
  <2> QED BY <1>1, <1>9, <2>1, ReadOnce
<1>13. Restating(q)'
  BY <1>1, <1>2, <1>7, <1>12 DEF Restating
<1>14. ASSUME Covered(q)
       PROVE  Covered(q)'
  <2>1. call[q].verb = "status" => call[q].current = status[call[q].object]
    BY <1>12, <1>14 DEF Covered
  <2>2. Affected(q)' = users
    BY <1>7, <2>1 DEF Affected, Goal, GroupUsers, RoleUsers, HasRole, ThroughGroup, users, x
  <2>3. Indirect(q)' = Indirect(q)
    BY <1>7 DEF Indirect
  <2>4. Indirect(q) => p \in Searching
    BY <1>1, <1>14, SearchPlans DEF Covered
  <2>5. Indirect(q) => Tail(p) \in {<<"write", "bump">>, <<"bump">>}
    BY <1>1, <2>4, SearchPlans DEF Looks
  <2>6. Indirect(q) => /\ Tail(p) \in {<<"write", "bump">>, <<"bump">>, <<>>}
                      /\ Tail(p) # <<>>
    <3>1. <<"write", "bump">> # <<>> /\ <<"bump">> # <<>>
      OBVIOUS
    <3> QED BY <2>5, <3>1
  <2>7. Indirect(q)' =>
          /\ call'[q].plan \in {<<"write", "bump">>, <<"bump">>, <<>>}
          /\ call'[q].plan # <<>>
          /\ Affected(q)' \subseteq call'[q].users
    BY <1>7, <2>2, <2>3, <2>6
  <2>8. call'[q].verb = "status" => call'[q].current = status'[call'[q].object]
    BY <1>7, <2>1
  <2> QED BY <2>7, <2>8 DEF Covered
<1> QED BY <1>1, <1>2, <1>5, <1>6, <1>11, <1>13, <1>14, AdvanceCourse

LEMMA ModuleCourse ==
  ASSUME Inv, CourseInv, NEW q \in Requests, UpsertModule(q)
  PROVE  CourseInv'
<1> DEFINE p == call[q].plan
<1>1. /\ pc[q] = "run" /\ p # <<>> /\ Head(p) = "module" /\ OnTrack(q)
      /\ Advance(q, call[q]) /\ Take(q, {<<"module">>})
  BY AtHead DEF UpsertModule, Wanted, At
<1>2. /\ call[q] \in Calls /\ Course(q) /\ Restating(q) /\ (q \in alone => Covered(q))
  BY <1>1 DEF CourseInv, Typed, Running
<1>3. call[q].verb \notin {"ask", "reject"}
  BY <1>1, PlanSteps, AskSteps DEF OnTrack, Asking, Rejection
<1>4. /\ call'[q].plan = Tail(p)
      /\ call'[q].verb = call[q].verb /\ call'[q].key = call[q].key
      /\ call'[q].object = call[q].object /\ call'[q].goal = call[q].goal
      /\ call'[q].current = call[q].current /\ call'[q].users = call[q].users
      /\ rows' = rows /\ status' = status
  BY <1>1, <1>2, GoOn DEF committed
<1>5. locks'[q] = locks[q] \cup {<<"module">>} /\ <<"module">> \in Things
  BY <1>1 DEF Take, CourseInv, Typed, Things
<1>6. p \in Opening /\ Tail(p) \in Unwritten /\ locks[q] = {}
  <2>1. p \notin Unwritten /\ p \notin Written
    BY <1>1, CoursePlans
  <2> QED BY <1>2, <1>3, <2>1, CoursePlans DEF Course
<1>7. Untouched(q)' /\ Versions(q)' = {}
  BY <1>5, <1>6, Tags DEF Untouched, Versions
<1>8. Course(q)'
  BY <1>3, <1>4, <1>6, <1>7 DEF Course, Ordered
<1>9. p # ReadPlan /\ Tail(p) # ReadPlan
  BY <1>1, <1>6, OtherSteps, ReadOnce DEF UpdatePlans
<1>10. Restating(q)'
  BY <1>2, <1>4, <1>5, <1>6, <1>9 DEF Restating
<1>11. ASSUME Covered(q)
       PROVE  Covered(q)'
  <2>1. p \notin Searching /\ p \notin {<<"write", "bump">>, <<"bump">>, <<>>}
    BY <1>1, SearchPlans
  <2>2. Indirect(q)' = Indirect(q)
    BY <1>4 DEF Indirect
  <2> QED BY <1>4, <1>9, <1>11, <2>1, <2>2 DEF Covered
<1> QED BY <1>1, <1>2, <1>5, <1>8, <1>10, <1>11, AdvanceCourse

(* What a call wants to write is its row or the status of its object. *)
LEMMA WantedToWrite ==
  ASSUME Inv, CourseInv, NEW q \in Requests, At(q, "write")
  PROVE  /\ call[q].verb \notin {"ask", "reject"}
         /\ Wanted(q) \subseteq Keys \cup {<<"status", x>> : x \in {call[q].object} \cap Objects}
<1>1. /\ call[q].plan # <<>> /\ Head(call[q].plan) = "write" /\ OnTrack(q) /\ Restating(q)
  BY AtHead DEF At, CourseInv, Running
<1>2. call[q].verb \notin {"ask", "reject"}
  BY <1>1, PlanSteps DEF OnTrack, Asking, Rejection, Looks
<1>3. CASE call[q].verb \in {"status", "catalog"}
  <2>1. call[q].object \in Objects /\ call[q].object # None
    BY <1>1, <1>3 DEF OnTrack, Restating
  <2>2. Wanted(q) = {<<"status", call[q].object>>}
    BY <2>1 DEF Wanted, At
  <2> QED BY <1>2, <2>1, <2>2
<1>4. CASE call[q].verb \in {"add", "remove", "template", "approve"}
  <2>1. call[q].object = None
    BY <1>1, <1>4 DEF Restating
  <2>2. Wanted(q) \subseteq {call[q].key}
    BY <2>1 DEF Wanted, At
  <2>3. call[q].key \in Keys
    <3>1. CASE call[q].verb # "approve"
      BY <1>1, <1>4, <3>1 DEF OnTrack
    <3>2. CASE call[q].verb = "approve"
      <4> DEFINE r == req[call[q].request]
      <4>1. Approval(q)
        BY <1>1, <3>2 DEF OnTrack
      <4>2. call[q].request \in RequestIds /\ <<"request", call[q].request>> \in locks[q]
            /\ call[q].key = <<"userRole", r.user, r.role>>
        BY <1>1, <4>1, PlanSteps DEF Approval
      <4>3. r.status = "PENDING"
        BY <4>2 DEF Inv, LockedIsPending
      <4>4. r \in PrivilegedRequests
        BY <4>2, <4>3 DEF Inv, Shape, NoRequest
      <4>5. r.user \in Users /\ r.role \in Roles
        BY <4>4 DEF PrivilegedRequests
      <4> QED BY <4>2, <4>5, KeyKinds
    <3> QED BY <3>1, <3>2
  <2> QED BY <1>2, <2>2, <2>3
<1> QED BY <1>1, <1>2, <1>3, <1>4 DEF OnTrack, AllVerbs

LEMMA WriteCourse ==
  ASSUME Inv, CourseInv, NEW q \in Requests, At(q, "write"), Advance(q, call[q]),
         locks' = locks \/ Take(q, Wanted(q))
  PROVE  CourseInv'
<1> DEFINE p == call[q].plan
<1>1. pc[q] = "run" /\ p # <<>> /\ Head(p) = "write"
  BY AtHead
<1>2. /\ call[q] \in Calls /\ Course(q) /\ Restating(q) /\ (q \in alone => Covered(q))
  BY <1>1 DEF CourseInv, Typed, Running
<1>3. call[q].verb \notin {"ask", "reject"}
  BY WantedToWrite
<1>4. /\ call'[q].plan = Tail(p)
      /\ call'[q].verb = call[q].verb /\ call'[q].key = call[q].key
      /\ call'[q].object = call[q].object /\ call'[q].goal = call[q].goal
      /\ call'[q].current = call[q].current /\ call'[q].users = call[q].users
      /\ rows' = rows /\ status' = status
  BY <1>1, <1>2, GoOn DEF committed
<1>5. p \in Unwritten /\ Tail(p) \in Written /\ Untouched(q)
  <2>1. p \notin Opening /\ p \notin Written
    BY <1>1, CoursePlans
  <2>2. p \in Unwritten /\ Untouched(q)
    BY <1>2, <1>3, <2>1 DEF Course
  <2> QED BY <1>1, <2>2, CoursePlans DEF Looks
<1>6. /\ Wanted(q) \subseteq Things
      /\ \A u : <<"version", u>> \notin Wanted(q)
      /\ \A x \in Objects : <<"status", x>> \in Wanted(q) => x = call[q].object
  <2>1. Wanted(q) \subseteq Keys \cup {<<"status", x>> : x \in {call[q].object} \cap Objects}
    BY WantedToWrite
  <2>2. Wanted(q) \subseteq Things
    BY <2>1 DEF Things
  <2>3. \A u : <<"version", u>> \notin Wanted(q)
    BY <2>1, Tags
  <2>4. \A x \in Objects : <<"status", x>> \in Wanted(q) => x = call[q].object
    BY <2>1, Tags
  <2> QED BY <2>2, <2>3, <2>4
<1>7. locks'[q] = locks[q] \/ locks'[q] = locks[q] \cup Wanted(q)
  BY DEF Take, CourseInv, Typed
<1>8. Versions(q) = {} /\ Versions(q)' = {}
  BY <1>5, <1>6, <1>7 DEF Untouched, Versions
<1>9. Course(q)'
  BY <1>3, <1>4, <1>5, <1>8 DEF Course, Ordered
<1>10. p # ReadPlan /\ Tail(p) # ReadPlan
  <2>1. p # ReadPlan
    BY <1>1, Tails DEF ReadPlan
  <2> QED BY <1>1, <1>5, <2>1, ReadOnce
<1>11. \A x \in Objects : <<"status", x>> \in locks'[q] => x = call[q].object
  BY <1>2, <1>6, <1>7 DEF Restating
<1>12. Restating(q)'
  BY <1>2, <1>4, <1>10, <1>11 DEF Restating
<1>13. ASSUME Covered(q)
       PROVE  Covered(q)'
  <2>1. Affected(q)' = Affected(q) /\ Indirect(q)' = Indirect(q)
    BY <1>4 DEF Affected, Indirect, Goal, GroupUsers, RoleUsers, HasRole, ThroughGroup
  <2>2. p \in Searching => Tail(p) \in Searching
    BY <1>1, SearchPlans
  <2>3. p \in {<<"write", "bump">>, <<"bump">>, <<>>} => Tail(p) = <<"bump">>
    BY <1>1, SearchPlans
  <2>4. <<"bump">> # <<>>
    OBVIOUS
  <2> QED BY <1>4, <1>8, <1>10, <1>13, <2>1, <2>2, <2>3, <2>4 DEF Covered
<1>14. locks' = locks \/ \E S \in SUBSET Things : Take(q, S)
  BY <1>6
<1> QED BY <1>1, <1>2, <1>9, <1>12, <1>13, <1>14, AdvanceCourse

LEMMA BumpFirst ==
  ASSUME NEW S, NEW b \in S, NEW p \in Seq(S)
  PROVE  <<b>> \o p \in Seq(S) /\ <<b>> \o p # <<>>
<1>1. <<b>> \in Seq(S) /\ Len(<<b>> \o p) = 1 + Len(p) /\ Len(p) \in Nat
  OBVIOUS
<1>2. Len(<<b>> \o p) # 0
  BY <1>1
<1> QED BY <1>1, <1>2

(* One version more, in order, or none left. *)
LEMMA BumpCourse ==
  ASSUME Inv, CourseInv, NEW q \in Requests, BumpVersions(q)
  PROVE  CourseInv'
<1> DEFINE p == call[q].plan
<1>1. At(q, "bump") /\ pc[q] = "run" /\ p # <<>> /\ Head(p) = "bump" /\ OnTrack(q)
  BY AtHead DEF BumpVersions
<1>2. /\ call[q] \in Calls /\ Course(q) /\ Restating(q) /\ (q \in alone => Covered(q))
      /\ call[q].users \subseteq Users
  BY <1>1 DEF CourseInv, Typed, Running, Calls
<1>3. call[q].verb \notin {"ask", "reject"}
  BY <1>1, PlanSteps DEF OnTrack, Asking, Rejection, Looks
<1>4. p = <<"bump">> /\ Tail(p) = <<>>
  <2>1. p \notin Opening /\ p \notin Unwritten
    BY <1>1, CoursePlans DEF Looks
  <2>2. p \in Written
    BY <1>2, <1>3, <2>1 DEF Course
  <2> QED BY <1>1, <2>2, OtherSteps
<1>5. /\ <<>> \in Written /\ <<"bump">> \in Written
      /\ <<"bump">> # ReadPlan /\ <<>> # ReadPlan /\ <<"bump">> # <<"affected", "bump">>
      /\ <<>> # <<"affected", "bump">> /\ <<>> # <<"bump">>
  BY DEF Written, ReadPlan
<1>6. <<"bump">> \notin Searching
  BY SearchPlans DEF Looks
<1>7. CASE call[q].users = {}
  <2>1. Advance(q, call[q]) /\ locks' = locks
    BY <1>7 DEF BumpVersions
  <2>2. /\ call'[q].plan = <<>>
        /\ call'[q].verb = call[q].verb /\ call'[q].key = call[q].key
        /\ call'[q].object = call[q].object /\ call'[q].goal = call[q].goal
        /\ call'[q].current = call[q].current /\ call'[q].users = {}
        /\ rows' = rows /\ status' = status
    BY <1>1, <1>2, <1>4, <1>7, <2>1, GoOn DEF committed
  <2>3. Course(q)'
    BY <1>3, <1>5, <2>2 DEF Course, Ordered
  <2>4. Restating(q)'
    BY <1>2, <1>4, <1>5, <2>1, <2>2 DEF Restating
  <2>5. ASSUME Covered(q)
        PROVE  Covered(q)'
    <3>1. Affected(q)' = Affected(q) /\ Indirect(q)' = Indirect(q)
      BY <2>2 DEF Affected, Indirect, Goal, GroupUsers, RoleUsers, HasRole, ThroughGroup
    <3>2. Versions(q)' = Versions(q)
      BY <2>1 DEF Versions
    <3> QED BY <1>4, <1>5, <1>6, <1>7, <2>2, <2>5, <3>1, <3>2 DEF Covered
  <2> QED BY <1>1, <1>2, <2>1, <2>3, <2>4, <2>5, AdvanceCourse
<1>8. CASE call[q].users # {}
  <2>1. PICK w \in NextUser(q) :
          /\ Take(q, {<<"version", w>>})
          /\ Advance(q, [call[q] EXCEPT !.users = @ \ {w}, !.plan = <<"bump">> \o @])
    BY <1>8 DEF BumpVersions
  <2> DEFINE c == [call[q] EXCEPT !.users = @ \ {w}, !.plan = <<"bump">> \o @]
  <2>2. w \in call[q].users /\ w \in Users
    BY <1>2 DEF NextUser
  <2>3. <<"bump">> \in Seq(Labels) /\ <<"bump">> \o p \in Seq(Labels) /\ <<"bump">> \o p # <<>>
    BY <1>4, PlansTyped, BumpFirst DEF Written
  <2>4. c \in Calls
    BY <1>2, <2>3 DEF Calls
  <2>5. /\ c.verb = call[q].verb /\ c.key = call[q].key /\ c.object = call[q].object
        /\ c.goal = call[q].goal /\ c.current = call[q].current
        /\ c.users = call[q].users \ {w} /\ c.plan = <<"bump">> \o p
    BY <1>2 DEF Calls
  <2>6. Advance(q, c)
    BY <2>1
  <2> HIDE DEF c
  <2>7. Tail(c.plan) = <<"bump">>
    BY <1>4, <2>3, <2>5, Again
  <2>8. /\ call'[q].plan = <<"bump">>
        /\ call'[q].verb = call[q].verb /\ call'[q].key = call[q].key
        /\ call'[q].object = call[q].object /\ call'[q].goal = call[q].goal
        /\ call'[q].current = call[q].current /\ call'[q].users = call[q].users \ {w}
        /\ rows' = rows /\ status' = status
    BY <2>3, <2>4, <2>5, <2>6, <2>7, GoOn DEF committed
  <2>9. locks'[q] = locks[q] \cup {<<"version", w>>} /\ {<<"version", w>>} \subseteq Things
    BY <2>1, <2>2 DEF Take, CourseInv, Typed, Things
  <2>10. Versions(q)' = Versions(q) \cup {w}
    BY <2>2, <2>9 DEF Versions
  <2>11. ASSUME call[q].verb # "template"
         PROVE  Ordered(q)'
    <3>1. \A v \in call[q].users : w <= v
      BY <2>1, <2>11 DEF NextUser
    <3>2. w \in Nat /\ \A v \in call[q].users : v \in Nat
      BY <1>2, <2>2, UsersAssumption
    <3>3. \A v \in call[q].users \ {w} : w < v
      BY <3>1, <3>2
    <3>4. Ordered(q)
      BY <1>2, <2>11 DEF Course
    <3> QED BY <2>8, <2>10, <3>3, <3>4 DEF Ordered
  <2>12. Course(q)'
    BY <1>3, <1>5, <2>8, <2>11 DEF Course
  <2>13. \A x \in Objects : <<"status", x>> \in locks'[q] => <<"status", x>> \in locks[q]
    BY <2>9
  <2>14. Restating(q)'
    BY <1>2, <1>4, <1>5, <2>8, <2>13 DEF Restating
  <2>15. ASSUME Covered(q)
         PROVE  Covered(q)'
    <3>1. Affected(q)' = Affected(q) /\ Indirect(q)' = Indirect(q)
      BY <2>8 DEF Affected, Indirect, Goal, GroupUsers, RoleUsers, HasRole, ThroughGroup
    <3> QED BY <1>4, <1>5, <1>6, <2>8, <2>10, <2>15, <3>1 DEF Covered
  <2>16. \E S \in SUBSET Things : Take(q, S)
    BY <2>1, <2>9
  <2>17. c.plan # <<>>
    BY <2>3, <2>5
  <2> QED BY <1>1, <1>2, <2>4, <2>6, <2>12, <2>14, <2>15, <2>16, <2>17, AdvanceCourse
<1> QED BY <1>7, <1>8

(* SELECT ... FOR UPDATE of the request. *)
LEMMA LockCourse ==
  ASSUME Inv, CourseInv, NEW q \in Requests, LockRequest(q)
  PROVE  CourseInv'
<1> DEFINE p == call[q].plan
           x == call[q].request
           r == req[x]
           c == [call[q] EXCEPT !.key = <<"userRole", r.user, r.role>>, !.users = {r.user}]
<1>1. /\ pc[q] = "run" /\ p # <<>> /\ Head(p) = "lock" /\ OnTrack(q)
      /\ call[q].verb \in {"ask", "approve", "reject"}
      /\ \/ r.status = "PENDING" /\ Take(q, {<<"request", x>>}) /\ Advance(q, c)
         \/ Leave(q, "denied")
  BY AtHead DEF LockRequest, Wanted, At, Statements
<1>2. /\ call[q] \in Calls /\ Course(q) /\ Restating(q)
  BY <1>1 DEF CourseInv, Typed, Running
<1>3. /\ call[q].verb \in {"approve", "reject"} /\ x \in RequestIds
      /\ call[q].verb = "approve" =>
           p = <<"lock", "user", "role", "grantee", "write", "bump">> /\ locks[q] = {}
      /\ call[q].verb = "reject" => p = <<"lock">>
  BY <1>1, PlanSteps DEF OnTrack, Asking, Approval, Bumping, Rejection, Looks
<1>4. CASE Leave(q, "denied")
  BY <1>1, <1>4, LeaveCourse
<1>5. CASE r.status = "PENDING" /\ Take(q, {<<"request", x>>}) /\ Advance(q, c)
  <2>1. r \in PrivilegedRequests
    BY <1>3, <1>5 DEF Inv, Shape, NoRequest
  <2>2. r.user \in Users /\ r.role \in Roles
    BY <2>1 DEF PrivilegedRequests
  <2>3. <<"userRole", r.user, r.role>> \in Keys
    BY <2>2, KeyKinds
  <2>4. c \in Calls
    BY <1>2, <2>2, <2>3 DEF Calls
  <2>5. /\ c.verb = call[q].verb /\ c.object = call[q].object /\ c.plan = p
        /\ c.goal = call[q].goal /\ c.current = call[q].current
    BY <1>2 DEF Calls
  <2>6. Advance(q, c)
    BY <1>5
  <2> HIDE DEF c
  <2>7. /\ call'[q].plan = Tail(p)
        /\ call'[q].verb = call[q].verb /\ call'[q].object = call[q].object
        /\ call'[q].goal = call[q].goal /\ call'[q].current = call[q].current
        /\ rows' = rows /\ status' = status
    BY <1>1, <2>4, <2>5, <2>6, GoOn DEF committed
  <2>8. locks'[q] = locks[q] \cup {<<"request", x>>} /\ {<<"request", x>>} \subseteq Things
    BY <1>3, <1>5 DEF Take, CourseInv, Typed, Things
  <2>9. /\ Tail(p) # ReadPlan
        /\ call[q].verb = "approve" => Tail(p) \in Unwritten
        /\ call[q].verb = "reject" => Tail(p) = <<>>
    <3>1. CASE call[q].verb = "approve"
      <4>1. p \in Opening
        BY <1>3, <3>1 DEF Opening
      <4> QED BY <1>1, <3>1, <4>1, CoursePlans, ReadOnce
    <3>2. CASE call[q].verb = "reject"
      <4>1. Tail(p) = <<>>
        BY <1>3, <3>2, PlanSteps
      <4>2. <<>> # ReadPlan
        BY DEF ReadPlan
      <4> QED BY <3>2, <4>1, <4>2
    <3> QED BY <1>3, <3>1, <3>2
  <2>10. call[q].verb = "approve" => Untouched(q)' /\ Versions(q)' = {}
    BY <1>3, <2>8, Tags DEF Untouched, Versions
  <2>11. Ordered(q)'
    <3>1. CASE call[q].verb = "approve"
      BY <2>10, <3>1 DEF Ordered
    <3>2. CASE call[q].verb = "reject"
      <4>1. locks[q] = {}
        BY <1>1, <1>2, <3>2 DEF Course
      <4>2. Versions(q)' = {}
        BY <2>8, <4>1, Tags DEF Versions
      <4> QED BY <4>2 DEF Ordered
    <3> QED BY <1>3, <3>1, <3>2
  <2>12. Course(q)'
    BY <1>3, <2>7, <2>9, <2>10, <2>11 DEF Course
  <2>13. \A y \in Objects : <<"status", y>> \in locks'[q] => <<"status", y>> \in locks[q]
    BY <2>8, Tags
  <2>14. Restating(q)'
    BY <1>2, <1>3, <2>7, <2>9, <2>13 DEF Restating
  <2>15. Covered(q)'
    BY <1>3, <2>7 DEF Covered, Indirect
  <2>16. \E S \in SUBSET Things : Take(q, S)
    BY <1>5, <2>8
  <2> QED BY <1>1, <2>4, <2>5, <2>6, <2>12, <2>14, <2>15, <2>16, AdvanceCourse
<1> QED BY <1>1, <1>4, <1>5

LEMMA FileCourse ==
  ASSUME Inv, CourseInv, NEW q \in Requests, FileRequest(q)
  PROVE  CourseInv'
<1> DEFINE p == call[q].plan
           pending == <<"pending", call[q].key[2], call[q].key[3]>>
           again == [call[q] EXCEPT !.plan = <<"file", "reselect">>]
<1>1. /\ pc[q] = "run" /\ p # <<>> /\ Head(p) = "file" /\ OnTrack(q)
      /\ \/ locks' = [locks EXCEPT ![q] = {}] /\ Advance(q, again)
         \/ Take(q, {pending}) /\ Advance(q, call[q])
  BY AtHead DEF FileRequest, Wanted, At
<1>2. /\ call[q] \in Calls /\ Course(q) /\ Restating(q)
  BY <1>1 DEF CourseInv, Typed, Running
<1>3. call[q].verb = "ask" /\ Asking(q)
  <2>1. call[q].verb \in {"ask", "approve", "reject"}
    BY AtHead DEF Statements, FileRequest
  <2>2. call[q].verb \notin {"approve", "reject"}
    BY <1>1, PlanSteps DEF OnTrack, Approval, Bumping, Rejection, Looks
  <2> QED BY <1>1, <2>1, <2>2 DEF OnTrack
<1>4. Tail(p) = <<>>
  BY <1>1, <1>3, PlanSteps DEF Asking, Looks
<1>5. /\ again \in Calls /\ again.plan # <<>> /\ Tail(again.plan) = <<"reselect">>
      /\ again.verb = "ask" /\ again.object = call[q].object
  <2>1. <<"file", "reselect">> \in Seq(Labels)
    BY Lists DEF Labels
  <2> QED BY <1>2, <1>3, <2>1, Tails DEF Calls
<1> HIDE DEF again
<1>6. PICK c \in {again, call[q]} :
        /\ Advance(q, c)
        /\ \/ locks' = [locks EXCEPT ![q] = {}] /\ Tail(c.plan) = <<"reselect">>
           \/ Take(q, {pending}) /\ Tail(c.plan) = <<>>
  BY <1>1, <1>4, <1>5
<1>7. c \in Calls /\ c.plan # <<>> /\ c.verb = "ask" /\ c.object = call[q].object
  BY <1>1, <1>2, <1>3, <1>5
<1>8. /\ call'[q].plan = Tail(c.plan) /\ call'[q].verb = "ask"
      /\ call'[q].object = call[q].object
  BY <1>6, <1>7, GoOn
<1>9. locks[q] = {}
  BY <1>1, <1>2, <1>3 DEF Course
<1>10. \/ call'[q].plan = <<"reselect">> /\ locks'[q] = {}
       \/ call'[q].plan = <<>> /\ locks'[q] = {pending}
  BY <1>6, <1>8, <1>9 DEF Take, CourseInv, Typed
<1>11. pending \in Things
  BY <1>3 DEF Asking, Things
<1>12. Versions(q)' = {} /\ Untouched(q)'
  BY <1>10, Tags DEF Versions, Untouched
<1>13. Course(q)'
  BY <1>8, <1>10, <1>12 DEF Course, Ordered
<1>14. call'[q].plan # ReadPlan
  BY <1>10 DEF ReadPlan
<1>15. Restating(q)'
  BY <1>2, <1>3, <1>8, <1>12, <1>14 DEF Restating, Untouched
<1>16. Covered(q)'
  BY <1>8 DEF Covered, Indirect
<1>17. \/ locks' = [locks EXCEPT ![q] = {}]
       \/ \E S \in SUBSET Things : Take(q, S)
  BY <1>6, <1>11
<1> QED BY <1>1, <1>6, <1>7, <1>13, <1>15, <1>16, <1>17, AdvanceCourse

LEMMA GranteeCourse ==
  ASSUME Inv, CourseInv, NEW q \in Requests, CheckGrantee(q)
  PROVE  CourseInv'
<1> DEFINE cut == [call[q] EXCEPT !.users = {}, !.plan = <<"grantee">>]
<1>1. /\ At(q, "grantee") /\ pc[q] = "run" /\ OnTrack(q) /\ locks' = locks
      /\ Advance(q, call[q]) \/ Advance(q, cut)
      /\ call[q].plan # <<>> /\ Head(call[q].plan) = "grantee"
  BY AtHead DEF CheckGrantee
<1>2. CASE Advance(q, call[q])
  BY <1>1, <1>2, LookCourse
<1>3. CASE Advance(q, cut)
  <2>1. /\ call[q] \in Calls /\ Course(q) /\ Restating(q)
    BY <1>1 DEF CourseInv, Typed, Running
  <2>2. call[q].verb = "approve"
    <3>1. call[q].verb \in {"ask", "approve", "reject"}
      BY <1>1, AtHead DEF Statements
    <3>2. call[q].verb \notin {"ask", "reject"}
      BY <1>1, PlanSteps DEF OnTrack, Asking, Rejection, Looks
    <3> QED BY <3>1, <3>2
  <2>3. <<"grantee">> \in Seq(Labels) /\ <<"grantee">> # <<>> /\ Tail(<<"grantee">>) = <<>>
    BY Lists, Tails DEF Labels
  <2>4. /\ cut \in Calls /\ cut.plan = <<"grantee">> /\ cut.users = {}
        /\ cut.verb = "approve" /\ cut.object = call[q].object
    BY <2>1, <2>2, <2>3 DEF Calls
  <2> HIDE DEF cut
  <2>5. /\ call'[q].plan = <<>> /\ call'[q].verb = "approve" /\ call'[q].users = {}
        /\ call'[q].object = call[q].object
    BY <1>3, <2>3, <2>4, GoOn
  <2>6. <<>> \in Written /\ <<>> # ReadPlan /\ <<>> # <<"affected", "bump">>
    BY DEF Written, ReadPlan
  <2>7. Course(q)'
    BY <2>5, <2>6 DEF Course, Ordered
  <2>8. Restating(q)'
    BY <1>1, <2>1, <2>2, <2>5, <2>6 DEF Restating
  <2>9. Covered(q)'
    BY <2>5 DEF Covered, Indirect
  <2> QED BY <1>1, <1>3, <2>3, <2>4, <2>7, <2>8, <2>9, AdvanceCourse
<1> QED BY <1>1, <1>2, <1>3

(* A commit publishes what the call has written and bumps the versions     *)
(* that it has locked, once.                                               *)
LEMMA CommitCourse ==
  ASSUME Inv, CourseInv, NEW q \in Requests, Commit(q)
  PROVE  CourseInv'
<1>1. /\ pc[q] = "run" /\ call[q] \in Calls /\ Course(q) /\ Restating(q) /\ OnTrack(q)
      /\ rows \subseteq Keys /\ status \in [Objects -> Statuses]
  BY DEF Commit, At, CourseInv, Typed, Running, Inv
<1>2. call[q].plan = <<>>
  <2>1. call[q].plan # <<>> => Head(call[q].plan) \in Labels
    BY <1>1, PlanTail DEF Calls
  <2> QED BY <2>1 DEF Commit, At, Statement, Labels
<1>3. rows' \subseteq Keys
  BY <1>1 DEF Commit
<1>4. status' \in [Objects -> Statuses]
  <2>1. ASSUME NEW x \in Objects, <<"status", x>> \in locks[q]
        PROVE  Goal(call[q]) \in Statuses
    <3>1. call[q].object # None
      BY <1>1, <2>1, NamesAssumption DEF Restating
    <3>2. call[q].goal = None => call[q].current # None
      <4>1. <<>> # ReadPlan
        BY DEF ReadPlan
      <4> QED BY <1>1, <1>2, <3>1, <4>1 DEF Restating
    <3> QED BY <1>1, <3>2 DEF Goal, Calls
  <2> QED BY <1>1, <2>1 DEF Commit
<1>5. /\ locks' \in [Requests -> SUBSET Things] /\ call' \in [Requests -> Calls]
      /\ pc' \in [Requests -> {"idle", "run"} \cup Outcomes] /\ alone' = {}
  <2>1. Blank \in Calls
    BY DEF Blank, Calls
  <2> QED BY <2>1 DEF Commit, CourseInv, Typed, Outcomes
<1>6. /\ pc'[q] = "ok" /\ call'[q] = Blank
      /\ \A r \in Requests \ {q} : pc'[r] = pc[r] /\ call'[r] = call[r] /\ locks'[r] = locks[r]
  BY DEF Commit, CourseInv, Typed
<1>7. Typed'
  <2>1. \A r \in Requests : r \notin Running' => call'[r] = Blank
    BY <1>6 DEF CourseInv, Typed, Running
  <2> QED BY <1>3, <1>4, <1>5, <2>1 DEF Typed
<1>8. Counted'
  <2> DEFINE done == {r \in Requests : pc[r] = "ok"}
  <2>1. IsFiniteSet(done) /\ Cardinality(done) \in Nat
    BY FS_Subset, FS_CardinalityType, RequestsAssumption
  <2>2. {r \in Requests : pc'[r] = "ok"} = done \cup {q} /\ q \notin done
    BY <1>1, <1>6
  <2> HIDE DEF done
  <2>3. Cardinality(done \cup {q}) = Cardinality(done) + 1
    BY <2>1, <2>2, FS_AddElement
  <2>4. ver \in [Users -> 1 .. 1 + Cardinality(done)]
    BY DEF CourseInv, Counted, done
  <2>5. ver' = [u \in Users |-> IF <<"version", u>> \in locks[q] THEN ver[u] + 1 ELSE ver[u]]
    BY DEF Commit
  <2>6. ver' \in [Users -> 1 .. 1 + (Cardinality(done) + 1)]
    BY <2>1, <2>4, <2>5
  <2> QED BY <2>2, <2>3, <2>6 DEF Counted
<1>9. ASSUME NEW r \in Running'
      PROVE  Course(r)' /\ Restating(r)'
  <2>1. r \in Running /\ call'[r] = call[r] /\ locks'[r] = locks[r]
    BY <1>6 DEF Running
  <2>2. Versions(r)' = Versions(r) /\ Untouched(r)' = Untouched(r) /\ Ordered(r)' = Ordered(r)
    BY <2>1 DEF Versions, Untouched, Ordered
  <2> QED BY <2>1, <2>2 DEF Course, Restating, CourseInv
<1> QED BY <1>5, <1>7, <1>8, <1>9 DEF CourseInv

-----------------------------------------------------------------------------
(* The course holds of every call. *)

LEMMA InitCourse == Init => CourseInv
<1> SUFFICES ASSUME Init
             PROVE  CourseInv
  OBVIOUS
<1>1. Blank \in Calls
  BY DEF Blank, Calls
<1>2. Typed
  BY <1>1, InputAssumption DEF Init, Typed, Running, Statuses
<1>3. Counted
  <2>1. {q \in Requests : pc[q] = "ok"} = {}
    BY DEF Init
  <2> QED BY <2>1, FS_EmptySet DEF Init, Counted
<1>4. Running = {} /\ alone = {}
  BY DEF Init, Running
<1> QED BY <1>2, <1>3, <1>4 DEF CourseInv

LEMMA NextCourse == Inv /\ CourseInv /\ [Next]_vars => CourseInv'
<1> SUFFICES ASSUME Inv, CourseInv, [Next]_vars
             PROVE  CourseInv'
  OBVIOUS
<1>1. ASSUME NEW q \in Requests, Operation(q)
      PROVE  CourseInv'
  BY <1>1, ChangesCourse, OthersCourse DEF Operation
<1>2. ASSUME NEW q \in Requests, SqlStep(q)
      PROVE  CourseInv'
  <2>1. ASSUME NEW s \in Looks \ {"module", "read"}, At(q, s),
               \/ Advance(q, call[q]) /\ locks' = locks
               \/ \E outcome \in {"unchanged", "denied"} : Leave(q, outcome)
        PROVE  CourseInv'
    BY <2>1, LookCourse, LeaveCourse DEF At
  <2>2. CASE CheckActive(q)
    BY <2>1, <2>2 DEF CheckActive, Looks
  <2>3. CASE CheckUser(q) \/ CheckExists(q) \/ CheckPending(q) \/ CheckReferences(q)
    BY <2>1, <2>3 DEF CheckUser, CheckExists, CheckPending, CheckReferences, Looks
  <2>4. CASE Write(q)
    <3>1. /\ At(q, "write")
          /\ \/ \E outcome \in {"unchanged", "failed"} : Leave(q, outcome)
             \/ Advance(q, call[q]) /\ locks' = locks
             \/ Advance(q, call[q]) /\ Take(q, Wanted(q))
      BY <2>4 DEF Write
    <3> QED BY <3>1, WriteCourse, LeaveCourse DEF At
  <2>5. CASE Reselect(q)
    BY <2>5, LeaveCourse DEF Reselect, At
  <2> QED BY <1>2, <2>2, <2>3, <2>4, <2>5, GranteeCourse, FileCourse, ReadCourse, AffectedCourse,
             ModuleCourse, BumpCourse, LockCourse, CommitCourse DEF SqlStep
<1>3. ASSUME NEW q \in Requests, Abort(q)
      PROVE  CourseInv'
  BY <1>3, LeaveCourse DEF Abort
<1>4. CASE UNCHANGED vars
  <2>1. UNCHANGED <<rows, status, ver, locks, pc, call, alone>>
    BY <1>4 DEF vars, committed
  <2>2. Typed' /\ Counted' /\ Running' = Running
    BY <2>1 DEF CourseInv, Typed, Counted, Running
  <2>3. ASSUME NEW q \in Requests
        PROVE  /\ Course(q)' = Course(q) /\ Restating(q)' = Restating(q)
               /\ Covered(q)' = Covered(q)
    BY <2>1 DEF Course, Untouched, Ordered, Versions, Restating, Covered, Indirect, Affected,
               GroupUsers, RoleUsers, HasRole, ThroughGroup
  <2> QED BY <2>1, <2>2, <2>3 DEF CourseInv, Typed, Running
<1> QED BY <1>1, <1>2, <1>3, <1>4 DEF Next

LEMMA Invariants == Spec => [](Inv /\ CourseInv)
BY InitInv, InitCourse, NextInv, NextCourse, PTL DEF Spec

(* The rows keep their types, no two calls hold the same row, a call that  *)
(* is not running holds none, and a version is bumped by a call once at    *)
(* most, whoever runs beside it (tenant_rbac_admin.py).                    *)
THEOREM TypeCorrect == Spec => []TypeOK
<1>1. ASSUME Inv, CourseInv
      PROVE  TypeOK
  <2>1. /\ rows \subseteq Keys /\ status \in [Objects -> Statuses]
        /\ locks \in [Requests -> SUBSET Things] /\ call \in [Requests -> Calls]
        /\ pc \in [Requests -> {"idle", "run"} \cup Outcomes] /\ alone \subseteq Running
        /\ \A q \in Requests : q \notin Running => call[q] = Blank
    BY <1>1 DEF CourseInv, Typed
  <2>2. ver \in [Users -> 1 .. 1 + Cardinality(Requests)]
    <3> DEFINE done == {q \in Requests : pc[q] = "ok"}
    <3>1. Cardinality(done) \in Nat /\ Cardinality(Requests) \in Nat
          /\ Cardinality(done) <= Cardinality(Requests)
      BY FS_Subset, FS_CardinalityType, RequestsAssumption
    <3>2. ver \in [Users -> 1 .. 1 + Cardinality(done)]
      BY <1>1 DEF CourseInv, Counted
    <3> HIDE DEF done
    <3> QED BY <3>1, <3>2
  <2>3. req \in [RequestIds -> PrivilegedRequests \cup {NoRequest}]
    BY <1>1 DEF Inv, Shape
  <2>4. \A q \in Requests : q \notin Running => locks[q] = {}
    BY <1>1 DEF Inv, Running
  <2>5. \A q, r \in Requests : q # r => locks[q] \cap locks[r] = {}
    BY <1>1 DEF Inv, Exclusive
  <2> QED BY <2>1, <2>2, <2>3, <2>4, <2>5 DEF TypeOK
<1> QED BY <1>1, Invariants, PTL

-----------------------------------------------------------------------------
(* Whom a change affects. *)

(* Effective permissions stay if neither the user's own rows change, nor   *)
(* the roles of the user's groups, nor the permissions or the status of    *)
(* anything that the user has.                                             *)
LEMMA SameEffective ==
  ASSUME NEW u \in Users,
         \A ro \in Roles : HasRole(u, ro)' = HasRole(u, ro),
         \A ro \in Roles, p \in Perms : HasRole(u, ro) =>
           /\ (<<"rolePerm", ro, p>> \in rows') = (<<"rolePerm", ro, p>> \in rows)
           /\ (status'[ro] = "ACTIVE") = (status[ro] = "ACTIVE")
           /\ (status'[p] = "ACTIVE") = (status[p] = "ACTIVE")
  PROVE  Effective(u)' = Effective(u)
BY DEF Effective

LEMMA SameRoles ==
  ASSUME NEW u \in Users, OwnRows(u)' = OwnRows(u),
         \A g \in Groups, ro \in Roles : <<"member", g, u>> \in rows =>
           /\ (<<"groupRole", g, ro>> \in rows') = (<<"groupRole", g, ro>> \in rows)
           /\ (status'[g] = "ACTIVE") = (status[g] = "ACTIVE")
  PROVE  \A ro \in Roles : HasRole(u, ro)' = HasRole(u, ro)
<1>1. /\ \A g \in Groups : (<<"member", g, u>> \in rows') = (<<"member", g, u>> \in rows)
      /\ \A ro \in Roles : (<<"userRole", u, ro>> \in rows') = (<<"userRole", u, ro>> \in rows)
  BY DEF OwnRows
<1> QED BY <1>1 DEF HasRole, ThroughGroup

(* What a commit publishes of the status of objects. *)
LEMMA Restated ==
  ASSUME Inv, CourseInv, NEW q \in Requests, Commit(q), call[q].verb # "catalog",
         NEW x \in Objects, status'[x] # status[x]
  PROVE  /\ call[q].verb = "status" /\ call[q].object = x /\ x \in Groups \cup Roles
         /\ Goal(call[q]) # status[x] /\ locks[q] \cap Keys = {}
<1>1. pc[q] = "run" /\ Restating(q) /\ OnTrack(q)
  BY DEF Commit, At, CourseInv, Running, Inv
<1>2. <<"status", x>> \in locks[q] /\ Goal(call[q]) # status[x]
  BY DEF Commit
<1>3. call[q].object = x /\ x # None
  BY <1>1, <1>2, NamesAssumption DEF Restating
<1> QED BY <1>1, <1>2, <1>3 DEF Restating, OnTrack

LEMMA UncontendedStep ==
  ASSUME Inv, CourseInv, [Next]_vars, NEW q \in Requests, NEW u \in Users,
         Undisturbed(q), Effective(u)' # Effective(u)
  PROVE  ver'[u] = ver[u] + 1
<1> DEFINE k == call[q].key
           x == call[q].object
<1>1. PICK r \in Requests : Commit(r)
  <2>1. ~ UNCHANGED committed
    BY DEF Effective, HasRole, ThroughGroup, committed
  <2> QED BY <2>1, OnlyCommits
<1>2. /\ r = q /\ q \in alone /\ call[q].verb # "catalog"
  BY <1>1 DEF Undisturbed, Commit, CourseInv, Typed
<1>3. /\ OnTrack(q) /\ Restating(q) /\ Covered(q) /\ call[q] \in Calls
  BY <1>1, <1>2 DEF Commit, At, CourseInv, Typed, Running, Inv
<1>4. call[q].plan = <<>>
  <2>1. call[q].plan # <<>> => Head(call[q].plan) \in Labels
    BY <1>3, PlanTail DEF Calls
  <2> QED BY <1>1, <1>2, <2>1 DEF Commit, At, Statement, Labels
<1>5. ASSUME Indirect(q), u \in Affected(q)
      PROVE  ver'[u] = ver[u] + 1
  <2>1. <<>> \notin Searching
    BY SearchPlans
  <2>2. u \in Versions(q)
    BY <1>3, <1>4, <1>5, <2>1 DEF Covered
  <2> QED BY <1>1, <1>2, <2>2 DEF Versions, Commit
<1>6. CASE OwnRows(u)' # OwnRows(u)
  BY <1>6, OwnStep
<1>7. CASE \E y \in Objects : status'[y] # status[y]
  <2>1. /\ call[q].verb = "status" /\ x \in Groups \cup Roles /\ locks[q] \cap Keys = {}
        /\ Goal(call[q]) # status[x]
        /\ \A y \in Objects : status'[y] # status[y] => y = x
    BY <1>1, <1>2, <1>7, Restated
  <2>2. /\ \A key \in Keys : (key \in rows') = (key \in rows)
        /\ Indirect(q) /\ x # None
    BY <1>1, <1>2, <2>1, Changed, NamesAssumption DEF Indirect, Objects
  <2>3. OwnRows(u)' = OwnRows(u)
    BY <2>2, KeyKinds DEF OwnRows
  <2>4. CASE x \in Groups
    <3>1. Affected(q) = GroupUsers(x)
      BY <2>1, <2>2, <2>4 DEF Affected
    <3>2. ASSUME <<"member", x, u>> \notin rows
          PROVE  FALSE
      <4>1. \A ro \in Roles : HasRole(u, ro)' = HasRole(u, ro)
        BY <2>1, <2>2, <2>3, <3>2, SameRoles, KeyKinds DEF Objects
      <4>2. Effective(u)' = Effective(u)
        BY <2>1, <2>2, <2>4, <4>1, SameEffective, KeyKinds, NamesAssumption DEF Objects
      <4> QED BY <4>2
    <3> QED BY <1>5, <2>2, <3>1, <3>2 DEF GroupUsers
  <2>5. CASE x \in Roles
    <3>1. Affected(q) = RoleUsers(x)
      BY <2>1, <2>2, <2>5, NamesAssumption DEF Affected
    <3>2. ASSUME ~ HasRole(u, x)
          PROVE  FALSE
      <4>1. \A ro \in Roles : HasRole(u, ro)' = HasRole(u, ro)
        BY <2>1, <2>2, <2>3, <2>5, SameRoles, KeyKinds, NamesAssumption DEF Objects
      <4>2. Effective(u)' = Effective(u)
        BY <2>1, <2>2, <2>5, <3>2, <4>1, SameEffective, KeyKinds, NamesAssumption DEF Objects
      <4> QED BY <4>2
    <3> QED BY <1>5, <2>2, <3>1, <3>2 DEF RoleUsers
  <2> QED BY <2>1, <2>4, <2>5
<1>8. CASE OwnRows(u)' = OwnRows(u) /\ \A y \in Objects : status'[y] = status[y]
  <2>1. PICK key \in Keys : (key \in rows) # (key \in rows')
    <3>1. ASSUME \A key \in Keys : (key \in rows') = (key \in rows)
          PROVE  FALSE
      <4>1. \A ro \in Roles : HasRole(u, ro)' = HasRole(u, ro)
        BY <1>8, <3>1, SameRoles, KeyKinds DEF Objects
      <4>2. Effective(u)' = Effective(u)
        BY <1>8, <3>1, <4>1, SameEffective, KeyKinds DEF Objects
      <4> QED BY <4>2
    <3> QED BY <3>1
  <2>2. /\ key = k /\ call[q].verb \in {"add", "remove", "template", "approve"}
        /\ \A other \in Keys \ {k} : (other \in rows') = (other \in rows)
    BY <1>1, <1>2, <2>1, Changed
  <2>3. x = None
    BY <1>3, <2>2 DEF Restating
  <2>4. CASE \E g \in Groups, ro \in Roles : k = <<"groupRole", g, ro>>
    <3>1. PICK g \in Groups, ro \in Roles : k = <<"groupRole", g, ro>>
      BY <2>4
    <3>2. \A w \in Users : k \notin Own(w)
      BY <3>1, Owners
    <3>3. call[q].verb # "approve"
      BY <1>3, <1>4, <3>1, Owners, PlanSteps DEF OnTrack, Approval
    <3>4. Indirect(q)
      BY <2>2, <3>2, <3>3 DEF Indirect
    <3>5. Affected(q) = GroupUsers(g)
      BY <2>2, <2>3, <3>1 DEF Affected
    <3>6. ASSUME <<"member", g, u>> \notin rows
          PROVE  FALSE
      <4>1. \A h \in Groups, o \in Roles : <<"member", h, u>> \in rows =>
              (<<"groupRole", h, o>> \in rows') = (<<"groupRole", h, o>> \in rows)
        BY <2>2, <3>1, <3>6, KeyKinds
      <4>2. \A o \in Roles : HasRole(u, o)' = HasRole(u, o)
        BY <1>8, <4>1, SameRoles DEF Objects
      <4>3. \A o \in Roles, p \in Perms :
              (<<"rolePerm", o, p>> \in rows') = (<<"rolePerm", o, p>> \in rows)
        <5>1. \A o \in Roles, p \in Perms : <<"rolePerm", o, p>> # k
          BY <3>1
        <5> QED BY <2>2, <5>1, KeyKinds
      <4>4. Effective(u)' = Effective(u)
        BY <1>8, <4>2, <4>3, SameEffective DEF Objects
      <4> QED BY <4>4
    <3> QED BY <1>5, <3>4, <3>5, <3>6 DEF GroupUsers
  <2>5. CASE \E ro \in Roles, p \in Perms : k = <<"rolePerm", ro, p>>
    <3>1. PICK ro \in Roles, p \in Perms : k = <<"rolePerm", ro, p>>
      BY <2>5
    <3>2. \A w \in Users : k \notin Own(w)
      BY <3>1, Owners
    <3>3. call[q].verb # "approve"
      BY <1>3, <1>4, <3>1, Owners, PlanSteps DEF OnTrack, Approval
    <3>4. Indirect(q)
      BY <2>2, <3>2, <3>3 DEF Indirect
    <3>5. Affected(q) = RoleUsers(ro)
      BY <2>2, <2>3, <3>1, NamesAssumption DEF Affected
    <3>6. ASSUME ~ HasRole(u, ro)
          PROVE  FALSE
      <4>1. \A h \in Groups, o \in Roles :
              (<<"groupRole", h, o>> \in rows') = (<<"groupRole", h, o>> \in rows)
        <5>1. \A h \in Groups, o \in Roles : <<"groupRole", h, o>> # k
          BY <3>1
        <5> QED BY <2>2, <5>1, KeyKinds
      <4>2. \A o \in Roles : HasRole(u, o)' = HasRole(u, o)
        BY <1>8, <4>1, SameRoles DEF Objects
      <4>3. \A o \in Roles, s \in Perms : HasRole(u, o) =>
              (<<"rolePerm", o, s>> \in rows') = (<<"rolePerm", o, s>> \in rows)
        BY <2>2, <3>1, <3>6, KeyKinds
      <4>4. Effective(u)' = Effective(u)
        BY <1>8, <4>2, <4>3, SameEffective DEF Objects
      <4> QED BY <4>4
    <3> QED BY <1>5, <3>4, <3>5, <3>6 DEF RoleUsers
  <2>6. CASE \E w \in Users : k \in Own(w)
    <3>1. /\ \A g \in Groups, ro \in Roles : k # <<"groupRole", g, ro>>
          /\ \A ro \in Roles, p \in Perms : k # <<"rolePerm", ro, p>>
      BY <2>6, Owners
    <3>2. \A o \in Roles : HasRole(u, o)' = HasRole(u, o)
      BY <1>8, <2>2, <3>1, SameRoles, KeyKinds DEF Objects
    <3>3. Effective(u)' = Effective(u)
      BY <1>8, <2>2, <3>1, <3>2, SameEffective, KeyKinds DEF Objects
    <3> QED BY <3>3
  <2> QED BY <2>1, <2>2, <2>4, <2>5, <2>6 DEF Keys, Own
<1> QED BY <1>6, <1>7, <1>8

(* A call during which no other commits bumps the version of every user    *)
(* whose effective permissions it changes, directly or through groups and  *)
(* roles: nobody is missing from _effective_group_users and                *)
(* _effective_role_users when _bump_versions runs.                         *)
THEOREM UncontendedChangeBumpsHolds == Spec => UncontendedChangeBumps
<1>1. Inv /\ CourseInv /\ [Next]_vars =>
        [\A q \in Requests, u \in Users :
           Undisturbed(q) /\ Effective(u)' # Effective(u) => ver'[u] = ver[u] + 1]_vars
  BY UncontendedStep
<1> QED BY <1>1, InitInv, InitCourse, NextInv, NextCourse, PTL DEF Spec, UncontendedChangeBumps

-----------------------------------------------------------------------------
(* Who waits for whom. *)

(* How far a waiting call is: before the row is written, at the row, or at *)
(* the version of a user.                                                  *)
Rank(q) ==
  IF call[q].verb \notin {"ask", "reject"} /\ call[q].plan \in Unwritten THEN 1
  ELSE IF call[q].plan = <<"bump">> THEN 2 + (CHOOSE u \in NextUser(q) : TRUE)
  ELSE 0

LEMMA OneNextUser ==
  ASSUME CourseInv, NEW q \in Requests, call[q].verb # "template",
         NEW u \in NextUser(q)
  PROVE  u \in Nat /\ u \in call[q].users /\ u = CHOOSE w \in NextUser(q) : TRUE
<1>1. call[q].users \subseteq Nat
  BY UsersAssumption DEF CourseInv, Typed, Calls
<1>2. NextUser(q) = {w \in call[q].users : \A v \in call[q].users : w <= v}
  BY DEF NextUser
<1>3. \A w \in NextUser(q) : w = u
  BY <1>1, <1>2
<1> QED BY <1>1, <1>2, <1>3

(* What is wanted where. *)
LEMMA Waiting ==
  ASSUME Inv, CourseInv, NEW q \in Running, call[q].verb # "template", Wanted(q) # {}
  PROVE  /\ Rank(q) \in Nat /\ call[q].plan # <<>>
         /\ \/ At(q, "write") /\ Rank(q) = 1
            \/ Statement(q) \in {"module", "lock", "file"} /\ Rank(q) = 0
            \/ At(q, "bump") /\ call[q].plan = <<"bump">>
               /\ call[q].verb \notin {"ask", "reject"}
               /\ \E u \in NextUser(q) : Rank(q) = 2 + u /\ Wanted(q) = {<<"version", u>>}
<1> DEFINE p == call[q].plan
<1>1. Course(q) /\ pc[q] = "run" /\ q \in Requests /\ OnTrack(q)
  BY DEF CourseInv, Running, Inv
<1>2. p # <<>> /\ Head(p) = Statement(q) /\ Statement(q) \in {"write", "module", "lock", "file", "bump"}
  BY DEF Wanted, Statement
<1>3. CASE Statement(q) = "write"
  <2>1. At(q, "write") /\ call[q].verb \notin {"ask", "reject"}
    BY <1>1, <1>3, WantedToWrite DEF At
  <2>2. p \notin Opening /\ p \notin Written
    BY <1>2, <1>3, CoursePlans
  <2>3. p \in Unwritten
    BY <1>1, <2>1, <2>2 DEF Course
  <2> QED BY <1>2, <2>1, <2>3 DEF Rank
<1>4. CASE Statement(q) \in {"module", "lock", "file"}
  <2>1. p \notin Unwritten
    BY <1>2, <1>4, CoursePlans DEF Looks
  <2>2. p # <<"bump">>
    BY <1>2, <1>4, SearchPlans
  <2> QED BY <1>2, <1>4, <2>1, <2>2 DEF Rank
<1>5. CASE Statement(q) = "bump"
  <2>1. call[q].verb \notin {"ask", "reject"}
    BY <1>1, <1>2, <1>5, PlanSteps DEF OnTrack, Asking, Rejection, Looks
  <2>2. p \notin Opening /\ p \notin Unwritten
    BY <1>2, <1>5, CoursePlans DEF Looks
  <2>3. p = <<"bump">>
    <3>1. p \in Written
      BY <1>1, <2>1, <2>2 DEF Course
    <3> QED BY <1>2, <1>5, <3>1, OtherSteps
  <2>4. Wanted(q) = {<<"version", u>> : u \in NextUser(q)}
    BY <1>5 DEF Wanted
  <2>5. PICK u \in NextUser(q) : TRUE
    BY <2>4
  <2>6. /\ u \in Nat /\ u = CHOOSE w \in NextUser(q) : TRUE
        /\ \A w \in NextUser(q) : w = u
    BY <1>1, <2>5, OneNextUser
  <2>7. Rank(q) = 2 + u /\ Rank(q) \in Nat
    BY <2>2, <2>3, <2>6 DEF Rank
  <2>8. Wanted(q) = {<<"version", u>>}
    BY <2>4, <2>5, <2>6
  <2> QED BY <1>1, <1>2, <1>5, <2>1, <2>3, <2>5, <2>7, <2>8 DEF At
<1> QED BY <1>2, <1>3, <1>4, <1>5

(* A call waits only for calls that do not wait or are further than it is. *)
LEMMA WaitsForFurther ==
  ASSUME Inv, CourseInv, NEW q \in Running, NEW r \in Running,
         call[q].verb # "template", call[r].verb # "template",
         WaitsFor(q, r), Wanted(r) # {}
  PROVE  Rank(q) < Rank(r)
<1>1. PICK t \in Wanted(q) : t \in locks[r]
  BY DEF WaitsFor
<1>2. /\ Course(r) /\ q \in Requests /\ r \in Requests /\ Wanted(q) # {}
      /\ call[r].plan # <<>> /\ Rank(r) \in Nat /\ Rank(q) \in Nat
  BY <1>1, Waiting DEF CourseInv, Running
<1>3. /\ call[r].verb \notin {"ask", "reject"}
      /\ \/ call[r].plan \in Unwritten /\ Untouched(r)
         \/ call[r].plan \in Written /\ (call[r].plan = <<"affected", "bump">> => Versions(r) = {})
      /\ Ordered(r)
  BY <1>1, <1>2 DEF Course
<1>4. \/ call[r].plan \in Unwritten /\ Untouched(r) /\ Rank(r) = 1
      \/ /\ call[r].plan = <<"bump">>
         /\ \E w \in NextUser(r) : Rank(r) = 2 + w /\ w \in call[r].users /\ w \in Nat
  <2>1. CASE call[r].plan \in Unwritten /\ Untouched(r)
    BY <1>3, <2>1 DEF Rank
  <2>2. CASE call[r].plan \in Written
    <3>1. Statement(r) = Head(call[r].plan) /\ Head(call[r].plan) \in {"bump", "affected"}
      BY <1>2, <2>2, OtherSteps DEF Statement
    <3>2. call[r].plan = <<"bump">>
           /\ \E w \in NextUser(r) : Rank(r) = 2 + w
      BY <3>1, Waiting DEF At
    <3> QED BY <1>2, <3>2, OneNextUser
  <2> QED BY <1>3, <2>1, <2>2
<1>5. CASE At(q, "write") /\ Rank(q) = 1
  <2>1. t \in Keys \/ \E x \in Objects : t = <<"status", x>>
    BY <1>1, <1>2, <1>5, WantedToWrite
  <2>2. ~ Untouched(r)
    BY <1>1, <2>1 DEF Untouched
  <2> QED BY <1>2, <1>4, <1>5, <2>2
<1>6. CASE Rank(q) = 0
  BY <1>4, <1>6
<1>7. CASE \E u \in NextUser(q) : Rank(q) = 2 + u /\ Wanted(q) = {<<"version", u>>}
  <2>1. PICK u \in NextUser(q) : Rank(q) = 2 + u /\ t = <<"version", u>>
    BY <1>1, <1>7
  <2>2. u \in Nat /\ u \in Users
    BY <1>2, <2>1, OneNextUser DEF CourseInv, Typed, Calls
  <2>3. u \in Versions(r)
    BY <1>1, <2>1, <2>2 DEF Versions
  <2>4. PICK w \in NextUser(r) : Rank(r) = 2 + w /\ w \in call[r].users /\ w \in Nat
    BY <1>4, <2>3 DEF Untouched
  <2>5. u < w
    BY <1>3, <2>3, <2>4 DEF Ordered
  <2> QED BY <2>1, <2>2, <2>4, <2>5
<1> QED BY <1>2, <1>5, <1>6, <1>7, Waiting

LEMMA NoCircle == Inv /\ CourseInv => NoWaitCycle
<1> SUFFICES ASSUME Inv, CourseInv,
                    NEW S \in SUBSET {q \in Running : call[q].verb # "template"}, S # {},
                    \A q \in S : \E r \in S : WaitsFor(q, r)
             PROVE  FALSE
  BY DEF NoWaitCycle
<1> DEFINE Ahead(q) == {r \in S : Rank(q) < Rank(r)}
           T == {Ahead(q) : q \in S}
<1>1. IsFiniteSet(S)
  BY FS_Subset, RequestsAssumption DEF Running
<1>2. \A q \in S : Wanted(q) # {}
  BY DEF WaitsFor
<1>3. \A q \in S : Rank(q) \in Nat
  BY <1>2, Waiting
<1>4. \A q, r \in S : WaitsFor(q, r) => Rank(q) < Rank(r)
  BY <1>2, WaitsForFurther
<1>5. T \subseteq FiniteSubsetsOf(S) /\ T # {}
  <2>1. \A q \in S : Ahead(q) \in SUBSET S
    OBVIOUS
  <2>2. \A B \in SUBSET S : B \in FiniteSubsetsOf(S)
    BY <1>1, FS_Subset DEF FiniteSubsetsOf
  <2> HIDE DEF Ahead
  <2> QED BY <2>1, <2>2
<1>6. PICK A \in T : \A B \in T : ~ (<<B, A>> \in StrictSubsetOrdering(S))
  <2> HIDE DEF T
  <2> QED BY <1>5, FS_StrictSubsetOrderingWellFounded, WFMin
<1>7. PICK q \in S : A = Ahead(q)
  BY <1>6
<1>8. PICK r \in S : WaitsFor(q, r)
  OBVIOUS
<1>9. Rank(q) < Rank(r) /\ Rank(q) \in Nat /\ Rank(r) \in Nat
  BY <1>3, <1>4, <1>8
<1>10. Ahead(r) \subseteq Ahead(q) /\ r \in Ahead(q) /\ r \notin Ahead(r)
  BY <1>3, <1>9
<1>11. <<Ahead(r), Ahead(q)>> \in StrictSubsetOrdering(S)
  BY <1>10 DEF StrictSubsetOrdering
<1> QED BY <1>6, <1>7, <1>11

(* Calls other than template upgrades never wait for each other in a       *)
(* circle, however many there are: each writes its row before it bumps a   *)
(* version, and bumps in the order of the users (_bump_versions).          *)
THEOREM NoWaitCycleHolds == Spec => []NoWaitCycle
BY Invariants, NoCircle, PTL

==============================================================================
