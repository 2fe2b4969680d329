---------------------------------- MODULE Roles ----------------------------------
(***************************************************************************)
(* The role catalog and who holds which role: RolesService, UsersService   *)
(* and the tables roles, users and user_roles under them.                  *)
(*                                                                         *)
(* A handler reads, checks and then writes with awaits between; requests   *)
(* interleave at each.  The roles of a user are written in a transaction   *)
(* (UPDATE users, DELETE, SELECT, INSERT, COMMIT), seen by nobody before   *)
(* its end.  PostgreSQL (READ COMMITTED) is modelled as this code uses it: *)
(* the UPDATE locks the row of the user, an INSERT the rows of the roles   *)
(* it names, until the end; a DELETE of a role locks its row, then waits   *)
(* for those who have deleted rows that name it; a circle of waiting       *)
(* statements is broken by failing one.  A statement that changes nothing  *)
(* and ends in a 4xx is no step.                                           *)
(***************************************************************************)
EXTENDS Naturals, FiniteSets

CONSTANTS
    Role,       \* ids of roles; a seeded one is written as its name
    Name,       \* names of roles
    WellKnown,  \* WELL_KNOWN_ROLES: the seeded roles and their names
    User,
    Request,    \* requests that can be in flight together
    None

ASSUME RolesAssumption ==
    /\ WellKnown \subseteq Role /\ WellKnown \subseteq Name
    /\ None \notin Role \cup Name \cup User

VARIABLES
    name,     \* roles.name, None for an id without a row
    used,     \* ids of roles given out
    users,    \* rows of users
    known,    \* ids of users given out
    holds,    \* user_roles
    req,      \* where a request stands and what it has read
    granted   \* history: the roles the last write of a user named

catalog == <<name, used>>
people  == <<users, known, holds, granted>>
vars    == <<catalog, people, req>>

(* In a transaction that writes the roles of a user. *)
Writing == {"delete", "select", "insert", "commit"}
PC == Writing \cup {"idle", "create", "clash", "rename", "remove", "cascade", "update", "dismiss"}

(* deleted: the rows the DELETE of the transaction found; renamed: history, *)
(* a role has been renamed since it was selected.                           *)
Locals == [pc : PC, role : Role \cup {None}, as : Name \cup {None}, user : User \cup {None},
           names : SUBSET Name, ids : SUBSET Role, deleted : SUBSET Role, renamed : BOOLEAN]

Idle == [pc |-> "idle", role |-> None, as |-> None, user |-> None,
         names |-> {}, ids |-> {}, deleted |-> {}, renamed |-> FALSE]

TypeOK ==
    /\ name \in [Role -> Name \cup {None}] /\ used \subseteq Role
    /\ users \subseteq known /\ known \subseteq User
    /\ holds \in [User -> SUBSET Role] /\ granted \in [User -> SUBSET Role]
    /\ req \in [Request -> Locals]

Catalog == {i \in Role : name[i] # None}
Taken   == {name[i] : i \in Catalog}

(* The seed: the well-known roles, and users who hold them. *)
Init ==
    /\ name = [i \in Role |-> IF i \in WellKnown THEN i ELSE None] /\ used = WellKnown
    /\ users \in SUBSET User /\ known = users
    /\ holds = [u \in User |-> IF u \in users THEN WellKnown ELSE {}] /\ granted = holds
    /\ req = [r \in Request |-> Idle]

At(r, pc)    == req[r].pc = pc
Goto(r, pc)  == req' = [req EXCEPT ![r].pc = pc]
Return(r)    == req' = [req EXCEPT ![r] = Idle]

(* A request that has to do with role i, or with user u. *)
OnRole(r, pc, i, n) ==
    /\ At(r, "idle")
    /\ req' = [req EXCEPT ![r] = [Idle EXCEPT !.pc = pc, !.role = i, !.as = n]]
OnUser(r, pc, u, names) ==
    /\ At(r, "idle")
    /\ req' = [req EXCEPT ![r] = [Idle EXCEPT !.pc = pc, !.user = u, !.names = names]]

(* The rows locked by the statement or transaction of a request. *)
LocksUser(q, u) == req[q].pc \in Writing /\ req[q].user = u
LocksRole(q, i) == \/ At(q, "cascade") /\ req[q].role = i
                   \/ At(q, "commit") /\ i \in req[q].ids
UserFree(u) == \A q \in Request : ~LocksUser(q, u)
RoleFree(i) == \A q \in Request : ~LocksRole(q, i)

-----------------------------------------------------------------------------
(* RolesService *)

(* The validator looks for the name, the index decides. *)
CreateRole(r) ==
    /\ \E n \in Name \ Taken : OnRole(r, "create", None, n)
    /\ UNCHANGED <<catalog, people>>

(* Bound: an INSERT fails when the ids of the model are used up. *)
InsertRole(r) ==
    /\ At(r, "create")
    /\ \/ /\ req[r].as \notin Taken
          /\ \E i \in Role \ used : /\ name' = [name EXCEPT ![i] = req[r].as]
                                    /\ used' = used \cup {i}
       \/ (req[r].as \in Taken \/ used = Role) /\ UNCHANGED catalog
    /\ Return(r)
    /\ UNCHANGED people

(* Mutant: built-in roles can be renamed. *)
MayChange_Any(i) == i \in Catalog

MayChange(i) == i \in Catalog /\ name[i] \notin WellKnown

RenameRole(r) ==
    /\ \E i \in Role : MayChange(i) /\ \E n \in Name \ {name[i]} : OnRole(r, "clash", i, n)
    /\ UNCHANGED <<catalog, people>>

CheckClash(r) ==
    /\ At(r, "clash")
    /\ \/ req[r].as \notin {name[j] : j \in Role \ {req[r].role}} /\ Goto(r, "rename")
       \/ req[r].as \in {name[j] : j \in Role \ {req[r].role}} /\ Return(r)
    /\ UNCHANGED <<catalog, people>>

(* Nothing is renamed if the row is gone or the name taken by now. *)
UpdateRole(r) ==
    LET i == req[r].role
        n == req[r].as
        ok == i \in Catalog /\ \A j \in Role \ {i} : name[j] # n
    IN
    /\ At(r, "rename") /\ RoleFree(i)
    /\ name' = IF ok THEN [name EXCEPT ![i] = n] ELSE name
    /\ req' = [q \in Request |-> IF q = r THEN Idle
                                 ELSE [req[q] EXCEPT !.renamed = @ \/ i \in req[q].ids]]
    /\ UNCHANGED <<used, people>>

RemoveRole(r) ==
    /\ \E i \in Role : MayChange(i) /\ OnRole(r, "remove", i, None)
    /\ UNCHANGED <<catalog, people>>

(* The DELETE locks the row; there may be none any more. *)
LockRole(r) ==
    /\ At(r, "remove") /\ RoleFree(req[r].role)
    /\ \/ req[r].role \in Catalog /\ Goto(r, "cascade")
       \/ req[r].role \notin Catalog /\ Return(r)
    /\ UNCHANGED <<catalog, people>>

(* Its holders lose the role. *)
CascadeRole(r) ==
    LET i == req[r].role IN
    /\ At(r, "cascade") /\ \A q \in Request : i \notin req[q].deleted
    /\ name' = [name EXCEPT ![i] = None]
    /\ holds' = [u \in User |-> holds[u] \ {i}]
    /\ Return(r)
    /\ UNCHANGED <<used, users, known, granted>>

-----------------------------------------------------------------------------
(* UsersService *)

Asked == SUBSET Name \ {{}}

(* The row of a new user is nobody else's to see before the COMMIT. *)
CreateUser(r) ==
    /\ \E u \in User \ known, names \in Asked : /\ OnUser(r, "select", u, names)
                                                /\ known' = known \cup {u}
    /\ UNCHANGED <<catalog, users, holds, granted>>

FindUser(r) ==
    /\ \E u \in users, names \in Asked : OnUser(r, "update", u, names)
    /\ UNCHANGED <<catalog, people>>

(* Mutant: the transaction does not begin with the UPDATE of the row. *)
LockUser_Not(r) ==
    /\ At(r, "update")
    /\ \/ req[r].user \in users /\ Goto(r, "delete")
       \/ req[r].user \notin users /\ Return(r)
    /\ UNCHANGED <<catalog, people>>

LockUser(r) ==
    /\ At(r, "update") /\ UserFree(req[r].user)
    /\ \/ req[r].user \in users /\ Goto(r, "delete")
       \/ req[r].user \notin users /\ Return(r)
    /\ UNCHANGED <<catalog, people>>

DeleteRoles(r) ==
    /\ At(r, "delete")
    /\ req' = [req EXCEPT ![r].pc = "select", ![r].deleted = holds[req[r].user]]
    /\ UNCHANGED <<catalog, people>>

(* Mutant: a name without a role is passed over. *)
AllFound_Any(names) == TRUE

AllFound(names) == names \subseteq Taken

SelectRoles(r) ==
    LET names == req[r].names IN
    /\ At(r, "select")
    /\ \/ /\ AllFound(names)
          /\ req' = [req EXCEPT ![r].pc = "insert",
                                ![r].ids = {i \in Catalog : name[i] \in names}]
       \/ ~AllFound(names) /\ Return(r)
    /\ UNCHANGED <<catalog, people>>

(* Mutant: an error leaves the transaction open. *)
InsertRoles_Stuck(r) ==
    LET fits == /\ req[r].ids \subseteq Catalog
                /\ req[r].ids \cap (holds[req[r].user] \ req[r].deleted) = {}
    IN
    /\ At(r, "insert") /\ fits
    /\ \A q \in Request, i \in req[r].ids : At(q, "cascade") => req[q].role # i
    /\ Goto(r, "commit")
    /\ UNCHANGED <<catalog, people>>

(* The keys decide: a role that is gone, or a row that is there already,   *)
(* fails the INSERT and takes the transaction back.                        *)
InsertRoles(r) ==
    LET fits == /\ req[r].ids \subseteq Catalog
                /\ req[r].ids \cap (holds[req[r].user] \ req[r].deleted) = {}
    IN
    /\ At(r, "insert")
    /\ \A q \in Request, i \in req[r].ids : At(q, "cascade") => req[q].role # i
    /\ \/ fits /\ Goto(r, "commit")
       \/ ~fits /\ Return(r)
    /\ UNCHANGED <<catalog, people>>

Commit(r) ==
    LET u == req[r].user IN
    /\ At(r, "commit")
    /\ users' = users \cup {u}
    /\ holds' = [holds EXCEPT ![u] = (@ \ req[r].deleted) \cup req[r].ids]
    /\ granted' = [granted EXCEPT ![u] = req[r].ids]
    /\ Return(r)
    /\ UNCHANGED <<catalog, known>>

RemoveUser(r) ==
    /\ \E u \in users : OnUser(r, "dismiss", u, {})
    /\ UNCHANGED <<catalog, people>>

DeleteUser(r) ==
    LET u == req[r].user IN
    /\ At(r, "dismiss") /\ UserFree(u)
    /\ users' = users \ {u}
    /\ holds' = [holds EXCEPT ![u] = {}] /\ granted' = [granted EXCEPT ![u] = {}]
    /\ Return(r)
    /\ UNCHANGED <<catalog, known>>

-----------------------------------------------------------------------------
(* Statements that fail: what was not committed is taken back. *)

Fails(r) ==
    /\ ~At(r, "idle")
    /\ Return(r)
    /\ UNCHANGED <<catalog, people>>

(* An INSERT of a role that is being deleted waits for the DELETE, which    *)
(* waits for those whose transaction has deleted rows with the role.        *)
Waits(q, r) ==
    \/ At(q, "insert") /\ At(r, "cascade") /\ req[r].role \in req[q].ids
    \/ At(q, "cascade") /\ req[q].role \in req[r].deleted

InCircle(r) == \E S \in SUBSET Request :
                   r \in S /\ \A q \in S : \E p \in S : Waits(q, p)

Deadlock(r) == InCircle(r) /\ Fails(r)

Starts(r) == \/ CreateRole(r) \/ RenameRole(r) \/ RemoveRole(r)
             \/ CreateUser(r) \/ FindUser(r) \/ RemoveUser(r)
Goes(r)   == \/ InsertRole(r) \/ CheckClash(r) \/ UpdateRole(r) \/ LockRole(r) \/ CascadeRole(r)
             \/ LockUser(r) \/ DeleteRoles(r) \/ SelectRoles(r) \/ InsertRoles(r) \/ Commit(r)
             \/ DeleteUser(r)

Next == \E r \in Request : Starts(r) \/ Goes(r) \/ Fails(r) \/ Deadlock(r)

Spec == Init /\ [][Next]_vars

(* PostgreSQL answers every statement, grants a lock in turn (hence SF: a   *)
(* lock that comes free again and again is got) and looks for circles;      *)
(* nobody need send a request.                                              *)
Fairness == \A r \in Request : SF_vars(Goes(r)) /\ WF_vars(Deadlock(r))
FairSpec == Spec /\ Fairness

-----------------------------------------------------------------------------
(* Properties. *)

(* "protected from rename/delete so authorization semantics can't be broken *)
(* from the admin UI" (roles.service.ts:18-19): a well-known name always    *)
(* belongs to the role it was seeded for, and to no other, although the     *)
(* check and the write of a rename or removal are apart.                    *)
BuiltInsStay == \A i \in Role, n \in WellKnown : name[i] = n <=> i = n

(* syncUserRoles "replaces a user's roles": whatever writers of one user     *)
(* overlap, the user holds just what one of them named, the last, and of     *)
(* that what has not been deleted from the catalog; never a mixture.         *)
HoldersAreAsked == \A u \in users : holds[u] = granted[u] \cap Catalog

(* The inductive invariant.  Names are unique; who has passed the check of   *)
(* a role works on a custom one; one transaction at a time writes a user,    *)
(* and what it has deleted is all there is; what it is about to commit are   *)
(* roles of the catalog, with the names asked for unless one was renamed     *)
(* after the SELECT.                                                         *)
NamesOK ==
    /\ \A i, j \in Catalog : name[i] = name[j] => i = j
    /\ Catalog \subseteq used /\ WellKnown \subseteq used
ChangesOK ==
    \A r \in Request :
        /\ req[r].pc \in {"clash", "rename", "remove", "cascade"} =>
               req[r].role \in used \ WellKnown
        /\ req[r].pc \in {"create", "clash", "rename"} => req[r].as \in Name
        /\ At(r, "cascade") => req[r].role \in Catalog
        /\ \A q \in Request : At(q, "cascade") /\ LocksRole(r, req[q].role) => q = r
WritersOK ==
    \A r \in Request :
        /\ req[r].user \in known \cup {None}
        /\ req[r].pc \in Writing =>
              /\ req[r].user \in known
              /\ \A q \in Request : LocksUser(q, req[r].user) => q = r
              /\ req[r].user \notin users => \A q \in Request : req[q].user = req[r].user => q = r
              /\ At(r, "delete") => req[r].user \in users
        /\ req[r].pc \in {"select", "insert", "commit"} => req[r].deleted = holds[req[r].user]
        /\ req[r].pc \in {"update", "dismiss"} => req[r].user \in known
GrantsOK ==
    /\ \A u \in User : holds[u] \subseteq Catalog /\ (u \notin users => holds[u] = {})
    /\ \A u \in User : granted[u] \subseteq used
    /\ \A r \in Request :
          /\ req[r].ids \subseteq used
          /\ At(r, "commit") => req[r].ids \subseteq Catalog
          /\ req[r].pc \in {"insert", "commit"} /\ ~req[r].renamed /\ req[r].ids \subseteq Catalog =>
                 {name[i] : i \in req[r].ids} = req[r].names
RolesInv == TypeOK /\ BuiltInsStay /\ NamesOK /\ ChangesOK /\ WritersOK /\ GrantsOK /\ HoldersAreAsked

(* The services as callers see them (RoleCatalog): each operation happens at  *)
(* one moment or not at all.  A user is gone when the row is, unless the      *)
(* transaction that is to bring it is still open.  A late update does not     *)
(* bring back who was removed, a late rename not a role, and no one holds a   *)
(* role that has left the catalog.                                            *)
Gone == {u \in known \ users : UserFree(u)}
Services == INSTANCE RoleCatalog WITH gone <- Gone
ImplementsCatalog == Services!Spec

(* Every request comes to its end, although updates of users and deletions  *)
(* of roles lock each other's rows in different orders.                     *)
RequestsSettle == \A r \in Request : ~At(r, "idle") ~> At(r, "idle")

=============================================================================
