----------------------------- MODULE MCUserListCache -----------------------------
(* Model values and symmetry for the runs of UserListCache.  Symmetry is left *)
(* out of the liveness run, where TLC does not support it.                    *)
EXTENDS UserListCache, TLC

Symmetry == Permutations(Reader) \cup Permutations(Writer \ SilentWriter)
=============================================================================
