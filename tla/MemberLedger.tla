----------------------------- MODULE MemberLedger -----------------------------
(***************************************************************************)
(* What a tenant promises of its members, whatever calls bring it about:   *)
(* nobody has a role who is not an ACTIVE member, nobody becomes one who   *)
(* was not PENDING before, and an ACTIVE member stays one and keeps the    *)
(* roles.  One step is one database commit.                                *)
(***************************************************************************)
CONSTANTS
  Users,
  Roles

VARIABLES
  member,  \* status of each user's membership, "NONE" before there is one
  grants   \* roles given to each user

Init == \A u \in Users : grants[u] # {} => member[u] = "ACTIVE"

(* A membership begins, without any access. *)
Join(u) ==
  /\ member[u] = "NONE"
  /\ member' = [member EXCEPT ![u] = "PENDING"]
  /\ UNCHANGED grants

Admit(u, rs) ==
  /\ member[u] = "PENDING"
  /\ member' = [member EXCEPT ![u] = "ACTIVE"]
  /\ grants' = [grants EXCEPT ![u] = @ \cup rs]

(* A member who was admitted otherwise accepts an invitation too. *)
Extend(u, rs) ==
  /\ member[u] = "ACTIVE"
  /\ grants' = [grants EXCEPT ![u] = @ \cup rs]
  /\ UNCHANGED member

Withdraw(u) ==
  /\ member[u] = "PENDING"
  /\ member' = [member EXCEPT ![u] = "ENDED"]
  /\ UNCHANGED grants

(* w was no member and takes the place of u, admitted at once or not. *)
Succeed(u, w, rs) ==
  /\ member[u] = "PENDING" /\ member[w] = "NONE"
  /\ \/ /\ member' = [member EXCEPT ![u] = "NONE", ![w] = "PENDING"]
        /\ UNCHANGED grants
     \/ /\ member' = [member EXCEPT ![u] = "NONE", ![w] = "ACTIVE"]
        /\ grants' = [grants EXCEPT ![w] = @ \cup rs]

Next ==
  \E u \in Users :
    \/ Join(u) \/ Withdraw(u)
    \/ \E rs \in SUBSET Roles :
         Admit(u, rs) \/ Extend(u, rs) \/ \E w \in Users : Succeed(u, w, rs)

Spec == Init /\ [][Next]_<<member, grants>>
==============================================================================
