--------------------------- MODULE AccessSessionsMC ---------------------------
(* Small instances of AccessSessions for TLC. *)
EXTENDS AccessSessions, TLC

CONSTANTS r1, r2, r3, s0, s1, u1, d1, d2, l1, l2, none

OneOwner == [d \in Devices |-> u1]

RequestSymmetry == Permutations(Requests)
==============================================================================
