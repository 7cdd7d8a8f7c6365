-------------------------- MODULE MCLeastConnections --------------------------
(* A burst of requests over two accounts of different priority. *)
EXTENDS LeastConnections, TLC

CONSTANTS a1, a2

MCAccounts == {a1, a2}
MCPriority == (a1 :> 1) @@ (a2 :> 0)

Symmetry == Permutations(Requests)
=============================================================================
