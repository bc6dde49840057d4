----------------------------- MODULE MCDatabase -----------------------------
(***************************************************************************)
(* Two keys of one registered schema and of one that is not registered.    *)
(***************************************************************************)
EXTENDS Database, TLC

CONSTANTS accounts, unknown, k1, k2, v1, v2, t1, t2, s1, s2

\* Keys and transactions are interchangeable.
Symmetry == Permutations({k1, k2}) \cup Permutations({t1, t2}) \cup Permutations({s1, s2})
=============================================================================
