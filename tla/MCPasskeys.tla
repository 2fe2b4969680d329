------------------------------- MODULE MCPasskeys -------------------------------
(* The run of Passkeys.  Challenges, setups and request slots are            *)
(* interchangeable in every property; passkeys differ by their counters.     *)
EXTENDS Passkeys, TLC

Symmetry == Permutations(Challenge) \cup Permutations(Setup) \cup Permutations(Request)
=============================================================================
