-------------------------- MODULE MCDatabaseSessions --------------------------
(***************************************************************************)
(* Small instances of DatabaseSessions for TLC.  The requests differ in    *)
(* their kind only: of the assignments of kinds that are permutations of   *)
(* each other, one is enough (TLC's own symmetry cannot be used with       *)
(* liveness).                                                              *)
(***************************************************************************)
EXTENDS DatabaseSessions

Rank == [k \in Kinds |-> CASE k = "sync" -> 1 [] k = "stream" -> 2
                           [] k = "admin" -> 3 [] k = "probe" -> 4]

\* Requests are numbers here.
KindsInOrder ==
  \A r, s \in Requests : r < s => Rank[kind[r]] <= Rank[kind[s]]

MCDbInit == DbInit /\ KindsInOrder

\* DbSpec from the initial states above.
MCDbSpec ==
  /\ MCDbInit /\ [][DbNext]_dbVars
  /\ \A r \in Requests : WF_dbVars(DbStep(r))
=============================================================================
