---------------------------- MODULE MCNotifications ----------------------------
(* Three notifications, two rows to a list, two overlapping fetches and marks. *)
EXTENDS Notifications, TLC
=============================================================================
