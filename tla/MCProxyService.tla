---------------------------- MODULE MCProxyService ----------------------------
(* Small instances of ProxyService for TLC: two accounts of one priority. *)
EXTENDS ProxyService, TLC

CONSTANTS a1, a2

MCAccounts == {a1, a2}
MCPriority == [a \in MCAccounts |-> 0]
Symmetry == Permutations(Requests)
=============================================================================
