----------------------------- MODULE ReadAfterWrite -----------------------------
(***************************************************************************)
(* What a cache in front of the database owes its readers: an answer no    *)
(* older than the last write that had been acknowledged when the read      *)
(* began.  UserListCache implements it; the branding cache of the settings *)
(* module makes the same promise to its readers.                           *)
(*                                                                         *)
(* The data is a version: the number of writes the database has committed. *)
(***************************************************************************)
EXTENDS Naturals

CONSTANT Reader

VARIABLES
    db,      \* committed version
    acked,   \* newest version whose write has been acknowledged
    reading, \* readers waiting for an answer
    floor,   \* per reader, the acknowledged version when its last read began
    answer   \* per reader, its last answer

vars == <<db, acked, reading, floor, answer>>

Init ==
    /\ db = 0 /\ acked = 0 /\ reading = {}
    /\ floor = [r \in Reader |-> 0]
    /\ answer = [r \in Reader |-> 0]

Commit ==
    /\ db' = db + 1
    /\ UNCHANGED <<acked, reading, floor, answer>>

Acknowledge ==
    /\ acked' \in acked + 1 .. db
    /\ UNCHANGED <<db, reading, floor, answer>>

BeginRead(r) ==
    /\ r \notin reading
    /\ reading' = reading \cup {r}
    /\ floor' = [floor EXCEPT ![r] = acked]
    /\ UNCHANGED <<db, acked, answer>>

Answer(r) ==
    /\ r \in reading
    /\ reading' = reading \ {r}
    /\ \E version \in floor[r] .. db : answer' = [answer EXCEPT ![r] = version]
    /\ UNCHANGED <<db, acked, floor>>

Next == Commit \/ Acknowledge \/ \E r \in Reader : BeginRead(r) \/ Answer(r)

Spec == Init /\ [][Next]_vars
=============================================================================
