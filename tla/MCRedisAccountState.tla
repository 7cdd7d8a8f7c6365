------------------------- MODULE MCRedisAccountState -------------------------
(* Small instances of RedisAccountState for TLC. *)
EXTENDS RedisAccountState, TLC

MCRetryAfters == {-1, 0, 1, 2}
MCDeadlines == {1, 4, 5}

\* Accounts are interchangeable, and so are callers.
Symmetry == Permutations(Accounts) \cup Permutations(Callers)
=============================================================================
