--------------------------- MODULE SelfOnboardingMC ---------------------------
(* Small instances of SelfOnboarding for TLC. *)
EXTENDS SelfOnboarding, TLC

CONSTANTS p1, p2, p3, v1, v2, e1, e2, m1, m2, none

Symmetry ==
  Permutations(Starts) \cup Permutations(Verifies) \cup Permutations(Emails)
    \cup Permutations(Mobiles)
==============================================================================
