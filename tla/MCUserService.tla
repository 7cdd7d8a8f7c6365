----------------------------- MODULE MCUserService -----------------------------
(* Small instances of UserService for TLC. *)
EXTENDS UserService

CONSTANTS k1, k2, k3, k4, p1, p2, p3, p4

MCKeys == {k1, k2, k3, k4}
MCPrefix ==
  [k \in MCKeys |-> CASE k = k1 -> p1 [] k = k2 -> p2 [] k = k3 -> p3 [] k = k4 -> p4]
=============================================================================
