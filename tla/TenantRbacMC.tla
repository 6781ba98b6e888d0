----------------------------- MODULE TenantRbacMC -----------------------------
(* Small instances of TenantRbac for TLC. *)
EXTENDS TenantRbac, TLC

CONSTANTS q1, q2, q3, seed, ann, bob, group, ordinary, privileged, perm, none

Symmetry == Permutations(Requests)

Asked == [status |-> "PENDING", user |-> 2, role |-> privileged, by |-> ann, approver |-> none]
Refused == [Asked EXCEPT !.status = "REJECTED", !.approver = bob]

Permitted == {<<"rolePerm", ordinary, perm>>, <<"rolePerm", privileged, perm>>}
Grouped == Permitted \cup {<<"member", group, 1>>, <<"groupRole", group, ordinary>>}

(* Nothing granted; a group with a role and one or two members, once       *)
(* INACTIVE; direct roles, one of them privileged.                         *)
Found ==
  {[rows |-> {}, off |-> {}, req |-> [x \in {seed} |-> Refused]],
   [rows |-> Permitted \cup {<<"member", group, 1>>}, off |-> {}, req |-> [x \in {seed} |-> Asked]],
   [rows |-> Grouped \cup {<<"member", group, 2>>}, off |-> {}, req |-> [x \in {seed} |-> Asked]],
   [rows |-> Grouped, off |-> {group, privileged}, req |-> [x \in {seed} |-> Asked]],
   [rows |-> Grouped \cup {<<"userRole", 2, ordinary>>, <<"userRole", 2, privileged>>},
    off |-> {ordinary}, req |-> [x \in {seed} |-> Asked]],
   [rows |-> Grouped \cup {<<"userRole", 2, ordinary>>, <<"userRole", 1, privileged>>},
    off |-> {}, req |-> [x \in {seed} |-> Refused]]}
==============================================================================
