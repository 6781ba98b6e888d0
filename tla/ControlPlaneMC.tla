---------------------------- MODULE ControlPlaneMC ----------------------------
(* ControlPlane for TLC: two calls of any kind on each of eleven databases. *)
EXTENDS ControlPlane

CONSTANTS q1, q2, a, b, s1, s2, role, owner

TheVerbs == AllVerbs

(* Before anything was set up. *)
Empty ==
  [user |-> [x \in Ids |-> "NONE"],
   identity |-> [s \in Subjects |-> None],
   admin |-> [x \in Ids |-> None], login |-> None, key |-> NoRow,
   tenant |-> "NONE", setting |-> NoRow,
   member |-> [x \in Ids |-> "NONE"],
   grants |-> [x \in Ids |-> {}], asks |-> [x \in Ids |-> {}],
   invitation |-> [x \in Ids |-> NoRow], due |-> {},
   request |-> [x \in Ids |-> NoRow], device |-> [x \in Ids |-> NoRow]]

(* A tenant with a token, and a USER a known by s1 who is nowhere a member. *)
Founded ==
  [Empty EXCEPT !.user[a] = "ACTIVE", !.identity[s1] = a,
     !.key = [status |-> "ACTIVE", version |-> 1, by |-> a],
     !.tenant = "ACTIVE", !.setting = [status |-> "ACTIVE", version |-> 1]]

(* Somebody is invited, who may turn out to be a. *)
Invited(rs) ==
  [Founded EXCEPT !.user[b] = "INVITED", !.member[b] = "PENDING",
     !.invitation[b] = [status |-> "PENDING", user |-> b, roles |-> rs]]

(* a has asked to be a member. *)
Asked ==
  [Founded EXCEPT !.tenant = "CONFIGURING", !.member[a] = "PENDING",
     !.request[a] = [status |-> "PENDING", user |-> a]]

(* a has been turned away before. *)
TurnedAway == [Asked EXCEPT !.request[a].status = "REJECTED"]

(* a asked, and his membership was suspended meanwhile. *)
Left == [Asked EXCEPT !.member[a] = "ENDED"]

(* a, whom the invitation may be for, is a USER no longer; the invited b   *)
(* has been linked to an identity already.                                 *)
Suspended == [Invited({role}) EXCEPT !.user[a] = "INACTIVE", !.identity[s2] = b]

(* The invited b is known by an identity already, and may use it to        *)
(* register, while a may accept the invitation in b's place.               *)
Linked == [Invited({role}) EXCEPT !.identity[s2] = b]

(* b has been admitted on a request of his own, the invitation is open.    *)
Admitted ==
  [Linked EXCEPT !.user[b] = "ACTIVE", !.member[b] = "ACTIVE",
     !.request[b] = [status |-> "APPROVED", user |-> b]]

(* Two invitations, perhaps of the same person. *)
InvitedTwice ==
  LET invitation(x) == [status |-> "PENDING", user |-> x, roles |-> {role}] IN
  [Founded EXCEPT !.user = [x \in Ids |-> IF x \in Seeds THEN "INVITED" ELSE "NONE"],
     !.identity[s1] = None,
     !.member = [x \in Ids |-> IF x \in Seeds THEN "PENDING" ELSE "NONE"],
     !.invitation = [x \in Ids |-> IF x \in Seeds THEN invitation(x) ELSE NoRow]]

(* a is a member, with two devices that wait for approval. *)
Enrolled ==
  LET waiting == [status |-> "PENDING", user |-> a, enrolment |-> "PENDING"] IN
  [Founded EXCEPT !.member[a] = "ACTIVE",
     !.request[a] = [status |-> "APPROVED", user |-> a],
     !.device[a] = waiting, !.device[b] = waiting]

Found ==
  {Empty, Invited({role}), Invited({role, owner}), InvitedTwice, Suspended,
   Linked, Admitted, Asked, TurnedAway, Left, Enrolled}
==============================================================================
