------------------------------- MODULE MCTwoFactor -------------------------------
(* The run of TwoFactor.  Challenges, secrets, places and request slots are    *)
(* interchangeable in every property.                                          *)
EXTENDS TwoFactor, TLC

Symmetry ==
    Permutations(Challenge) \cup Permutations(Secret)
    \cup Permutations(Place) \cup Permutations(Request)
=============================================================================
