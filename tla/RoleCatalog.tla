------------------------------- MODULE RoleCatalog -------------------------------
(***************************************************************************)
(* What the services of roles and users owe their callers: each operation  *)
(* on the catalog, on the roles of a user or on a user takes effect at one *)
(* moment or not at all, on the tables as they are at that moment.  There  *)
(* are no transactions here, no locks and no requests under way.  Roles    *)
(* implements it.                                                          *)
(***************************************************************************)

CONSTANTS Role, Name, WellKnown, User, None

VARIABLES
    name,   \* per role, its name; None for an id without a row
    used,   \* ids of roles given out
    users,  \* rows of users
    gone,   \* users who are no more, or never came to be
    holds   \* per user, the ids of the roles held

vars == <<name, used, users, gone, holds>>

Catalog == {i \in Role : name[i] # None}
Taken   == {name[i] : i \in Catalog}

Init ==
    /\ name = [i \in Role |-> IF i \in WellKnown THEN i ELSE None] /\ used = WellKnown
    /\ users \in SUBSET User /\ gone = {}
    /\ holds = [u \in User |-> IF u \in users THEN WellKnown ELSE {}]

(* A name is given once, and the id has never been a role's before. *)
Create ==
    /\ \E n \in Name \ Taken, i \in Role \ used : /\ name' = [name EXCEPT ![i] = n]
                                                  /\ used' = used \cup {i}
    /\ UNCHANGED <<users, gone, holds>>

(* The roles the guards name keep their names, and stay. *)
Custom == Catalog \ WellKnown

Rename ==
    /\ \E i \in Custom, n \in Name \ Taken : name' = [name EXCEPT ![i] = n]
    /\ UNCHANGED <<used, users, gone, holds>>

(* Holders lose the role at the moment it leaves the catalog. *)
Remove ==
    /\ \E i \in Custom : /\ name' = [name EXCEPT ![i] = None]
                         /\ holds' = [u \in User |-> holds[u] \ {i}]
    /\ UNCHANGED <<used, users, gone>>

(* A user comes to be together with the roles, or has them replaced.  Who   *)
(* is gone does not come back.                                              *)
Assign ==
    /\ \E u \in User \ gone, ids \in SUBSET Catalog : /\ users' = users \cup {u}
                                                      /\ holds' = [holds EXCEPT ![u] = ids]
    /\ UNCHANGED <<name, used, gone>>

Dismiss ==
    /\ \E u \in users : /\ users' = users \ {u} /\ gone' = gone \cup {u}
                        /\ holds' = [holds EXCEPT ![u] = {}]
    /\ UNCHANGED <<name, used>>

(* A user whose creation failed never was. *)
GiveUp ==
    /\ \E u \in User \ users : gone' = gone \cup {u}
    /\ UNCHANGED <<name, used, users, holds>>

Next == Create \/ Rename \/ Remove \/ Assign \/ Dismiss \/ GiveUp

Spec == Init /\ [][Next]_vars
=============================================================================
