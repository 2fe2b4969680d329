------------------------------ MODULE MCWebSession ------------------------------
(* Model values and symmetry for the runs of WebSession. *)
EXTENDS WebSession, TLC

Symmetry == Permutations(Token) \cup Permutations(Slot)
=============================================================================
