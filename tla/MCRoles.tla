---------------------------------- MODULE MCRoles ----------------------------------
(* Model values for the run of Roles.  Liveness is checked, so there is no symmetry. *)
EXTENDS Roles, TLC
=============================================================================
