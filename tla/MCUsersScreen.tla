------------------------------ MODULE MCUsersScreen ------------------------------
(* Model values for the run of UsersScreen. *)
EXTENDS UsersScreen, TLC
=============================================================================
