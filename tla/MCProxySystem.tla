---------------------------- MODULE MCProxySystem ----------------------------
(* Small instances of ProxySystem for TLC. *)
EXTENDS ProxySystem, TLC

MCPriority == [a \in Accounts |-> 0]

\* A bound: of two requests one streams and one does not, so that every step of a
\* handler is taken among the steps of the other kind.
OneOfEach == \E r, s \in Requests : kind[r] = "sync" /\ kind[s] = "stream"
MixedInit == SystemInit /\ OneOfEach
MixedSpec == MixedInit /\ [][SystemNext]_systemVars

Symmetry == Permutations(Requests) \cup Permutations(Workers)
=============================================================================
