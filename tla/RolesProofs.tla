------------------------------- MODULE RolesProofs -------------------------------
(***************************************************************************)
(* RolesInv is inductive for any number of roles, users and overlapping     *)
(* requests; BuiltInsStay and HoldersAreAsked are parts of it.  From it     *)
(* follows that Roles implements RoleCatalog, one step of a request one     *)
(* operation or none.                                                       *)
(***************************************************************************)
EXTENDS Roles, TLAPS

(* What a request may become in one step, the tables but for known unchanged. *)
Fit(r, v) ==
    /\ v \in Locals
    /\ v.pc \in {"clash", "rename", "remove", "cascade"} => v.role \in used \ WellKnown
    /\ v.pc \in {"create", "clash", "rename"} => v.as \in Name
    /\ v.pc = "cascade" => v.role \in Catalog
    /\ v.pc = "cascade" => \A q \in Request \ {r} : ~LocksRole(q, v.role)
    /\ v.pc = "commit" => \A q \in Request : At(q, "cascade") => req[q].role \notin v.ids
    /\ v.user \in known' \cup {None}
    /\ v.pc \in Writing =>
          /\ v.user \in known'
          /\ \A q \in Request \ {r} : ~LocksUser(q, v.user)
          /\ v.user \notin users => \A q \in Request \ {r} : req[q].user # v.user
    /\ \A q \in Request \ {r} :
          req[q].pc \in Writing /\ req[q].user \notin users => v.user # req[q].user
    /\ v.pc = "delete" => v.user \in users
    /\ v.pc \in {"select", "insert", "commit"} => v.deleted = holds[v.user]
    /\ v.pc \in {"update", "dismiss"} => v.user \in known'
    /\ v.ids \subseteq used
    /\ v.pc = "commit" => v.ids \subseteq Catalog
    /\ v.pc \in {"insert", "commit"} /\ ~v.renamed /\ v.ids \subseteq Catalog =>
          {name[i] : i \in v.ids} = v.names

(* One request moves, and the tables stay, but for new ids of users. *)
LEMMA Moving ==
    ASSUME RolesAssumption, RolesInv, NEW r \in Request, NEW v, Fit(r, v),
           req' = [req EXCEPT ![r] = v],
           UNCHANGED <<name, used, users, holds, granted>>,
           known \subseteq known', known' \subseteq User
    PROVE  RolesInv'
<1> USE DEF RolesInv
<1>1. req' \in [Request -> Locals] /\ \A q \in Request : req'[q] = IF q = r THEN v ELSE req[q]
    BY DEF TypeOK, Fit
<1>2. TypeOK'
    BY <1>1 DEF TypeOK
<1>3. BuiltInsStay' /\ NamesOK' /\ HoldersAreAsked' /\ Catalog' = Catalog
    BY DEF BuiltInsStay, NamesOK, HoldersAreAsked, Catalog
<1>4. ChangesOK'
    <2>1. ASSUME NEW p \in Request
          PROVE  /\ req'[p].pc \in {"clash", "rename", "remove", "cascade"} =>
                        req'[p].role \in used \ WellKnown
                 /\ req'[p].pc \in {"create", "clash", "rename"} => req'[p].as \in Name
                 /\ req'[p].pc = "cascade" => req'[p].role \in Catalog
        BY <1>1 DEF ChangesOK, Fit, At
    <2>2. ASSUME NEW p \in Request, NEW q \in Request, At(q, "cascade")',
                 LocksRole(p, req[q].role)', q # p
          PROVE  FALSE
        <3>1. CASE p = r
            BY <1>1, <2>2, <3>1 DEF ChangesOK, Fit, At, LocksRole
        <3>2. CASE q = r
            BY <1>1, <2>2, <3>2 DEF ChangesOK, Fit, At, LocksRole
        <3>3. CASE p # r /\ q # r
            BY <1>1, <2>2, <3>3 DEF ChangesOK, At, LocksRole
        <3> QED BY <3>1, <3>2, <3>3
    <2> QED BY <1>3, <2>1, <2>2 DEF ChangesOK, At
<1>5. WritersOK'
    <2> SUFFICES ASSUME NEW p \in Request
                 PROVE  (/\ req[p].user \in known \cup {None}
                         /\ req[p].pc \in Writing =>
                               /\ req[p].user \in known
                               /\ \A q \in Request : LocksUser(q, req[p].user) => q = p
                               /\ req[p].user \notin users =>
                                     \A q \in Request : req[q].user = req[p].user => q = p
                               /\ At(p, "delete") => req[p].user \in users
                         /\ req[p].pc \in {"select", "insert", "commit"} =>
                               req[p].deleted = holds[req[p].user]
                         /\ req[p].pc \in {"update", "dismiss"} => req[p].user \in known)'
        BY DEF WritersOK
    <2>1. CASE p = r
        BY <1>1, <2>1 DEF Fit, LocksUser, At
    <2>2. CASE p # r
        <3>1. req'[p] = req[p]
            BY <1>1, <2>2
        <3>2. req[p].pc \in Writing => ~LocksUser(r, req[p].user)'
            BY <1>1, <2>2 DEF Fit, LocksUser
        <3> QED BY <1>1, <2>2, <3>1, <3>2 DEF WritersOK, Fit, LocksUser, At
    <2> QED BY <2>1, <2>2
<1>6. GrantsOK'
    <2>1. ASSUME NEW p \in Request
          PROVE  /\ req'[p].ids \subseteq used
                 /\ At(p, "commit")' => req'[p].ids \subseteq Catalog
                 /\ req'[p].pc \in {"insert", "commit"} /\ ~req'[p].renamed /\ req'[p].ids \subseteq Catalog =>
                        {name[i] : i \in req'[p].ids} = req'[p].names
        <3>1. CASE p = r
            BY <1>1, <3>1 DEF Fit, At
        <3>2. CASE p # r
            BY <1>1, <3>2 DEF GrantsOK, At
        <3> QED BY <3>1, <3>2
    <2> QED BY <1>3, <2>1 DEF GrantsOK
<1> QED BY <1>2, <1>3, <1>4, <1>5, <1>6

(* The steps that begin a request. *)

LEMMA IdleFits ==
    ASSUME RolesAssumption, RolesInv, NEW r \in Request, UNCHANGED known PROVE Fit(r, Idle)
BY DEF RolesAssumption, RolesInv, TypeOK, WritersOK, Fit, Idle, Locals, PC, Writing

LEMMA Returning ==
    ASSUME RolesAssumption, RolesInv, NEW r \in Request, Return(r), UNCHANGED <<catalog, people>>
    PROVE  RolesInv'
BY IdleFits, Moving DEF Return, catalog, people, RolesInv, TypeOK

LEMMA Starting ==
    ASSUME RolesAssumption, RolesInv, NEW r \in Request, Starts(r) PROVE RolesInv'
<1> USE DEF RolesInv
<1> DEFINE o(pc, i, n) == [Idle EXCEPT !.pc = pc, !.role = i, !.as = n]
           w(pc, u, names) == [Idle EXCEPT !.pc = pc, !.user = u, !.names = names]
<1>1. ASSUME NEW pc \in {"create", "clash", "remove"}, NEW i \in Role \cup {None}, NEW n \in Name \cup {None},
             pc \in {"clash", "remove"} => i \in used \ WellKnown,
             pc \in {"create", "clash"} => n \in Name,
             OnRole(r, pc, i, n), UNCHANGED <<catalog, people>>
      PROVE  RolesInv'
    <2>1. Fit(r, o(pc, i, n))
        BY <1>1, ZenonT(30) DEF RolesAssumption, TypeOK, WritersOK, Fit, Idle, Locals, PC, Writing, people
    <2>2. req' = [req EXCEPT ![r] = o(pc, i, n)]
        BY <1>1 DEF OnRole
    <2> HIDE DEF o
    <2> QED BY <1>1, <2>1, <2>2, Moving DEF catalog, people, TypeOK
<1>2. ASSUME NEW pc \in {"update", "dismiss"}, NEW u \in users, NEW names \in SUBSET Name,
             OnUser(r, pc, u, names), UNCHANGED <<catalog, people>>
      PROVE  RolesInv'
    <2>1. Fit(r, w(pc, u, names))
        BY <1>2 DEF RolesAssumption, TypeOK, WritersOK, Fit, Idle, Locals, PC, Writing, people
    <2>2. req' = [req EXCEPT ![r] = w(pc, u, names)]
        BY <1>2 DEF OnUser
    <2> HIDE DEF w
    <2> QED BY <1>2, <2>1, <2>2, Moving DEF catalog, people, TypeOK
<1>3. \A i \in Role : MayChange(i) => i \in used \ WellKnown
    BY DEF MayChange, BuiltInsStay, NamesOK
<1>4. CASE CreateRole(r)
    BY <1>1, <1>4 DEF CreateRole
<1>5. CASE RenameRole(r)
    BY <1>1, <1>3, <1>5 DEF RenameRole
<1>6. CASE RemoveRole(r)
    BY <1>1, <1>3, <1>6 DEF RemoveRole
<1>7. CASE CreateUser(r)
    <2>1. PICK u \in User \ known, names \in Asked :
              OnUser(r, "select", u, names) /\ known' = known \cup {u}
        BY <1>7 DEF CreateUser
    <2>2. \A q \in Request : req[q].user # u
        BY <2>1 DEF RolesAssumption, WritersOK
    <2>3. u \notin users /\ holds[u] = {}
        BY <2>1 DEF TypeOK, GrantsOK
    <2>4. Fit(r, w("select", u, names))
        BY <2>1, <2>2, <2>3
        DEF RolesAssumption, TypeOK, WritersOK, Fit, Idle, Locals, PC, Writing, LocksUser, Asked
    <2>5. req' = [req EXCEPT ![r] = w("select", u, names)]
          /\ UNCHANGED <<name, used, users, holds, granted>>
        BY <1>7, <2>1 DEF OnUser, CreateUser, catalog
    <2> HIDE DEF w
    <2> QED BY <2>1, <2>4, <2>5, Moving DEF TypeOK
<1>8. CASE FindUser(r)
    BY <1>2, <1>8 DEF FindUser, Asked
<1>9. CASE RemoveUser(r)
    BY <1>2, <1>9 DEF RemoveUser
<1> QED BY <1>4, <1>5, <1>6, <1>7, <1>8, <1>9 DEF Starts

(* The steps of a request that look and lock, and leave the tables alone. *)
LEMMA Looking ==
    ASSUME RolesAssumption, RolesInv, NEW r \in Request,
           CheckClash(r) \/ LockRole(r) \/ LockUser(r) \/ DeleteRoles(r) \/ SelectRoles(r) \/ InsertRoles(r)
    PROVE  RolesInv'
<1> USE DEF RolesInv
<1> DEFINE at(pc) == [req[r] EXCEPT !.pc = pc]
<1>1. UNCHANGED <<catalog, people>>
    BY DEF CheckClash, LockRole, LockUser, DeleteRoles, SelectRoles, InsertRoles
<1>2. ASSUME NEW v, Fit(r, v), req' = [req EXCEPT ![r] = v] PROVE RolesInv'
    BY <1>1, <1>2, Moving DEF catalog, people, TypeOK
<1>3. req[r] \in Locals /\ UNCHANGED known
    BY <1>1 DEF TypeOK, people
<1>4. CASE CheckClash(r)
    <2>1. CASE Goto(r, "rename")
        <3>1. Fit(r, at("rename"))
            BY <1>3, <1>4 DEF CheckClash, At, Fit, Locals, PC, Writing, ChangesOK, WritersOK, GrantsOK
        <3> HIDE DEF at
        <3>2. req' = [req EXCEPT ![r] = at("rename")]
            BY <2>1 DEF Goto, TypeOK, at
        <3> QED BY <1>2, <3>1, <3>2
    <2> QED BY <1>1, <1>4, <2>1, Returning DEF CheckClash
<1>5. CASE LockRole(r)
    <2>1. CASE req[r].role \in Catalog /\ Goto(r, "cascade")
        <3>1. Fit(r, at("cascade"))
            BY <1>3, <1>5, <2>1
            DEF LockRole, RoleFree, At, Fit, Locals, PC, Writing, ChangesOK, WritersOK, GrantsOK
        <3>2. req' = [req EXCEPT ![r] = at("cascade")]
            BY <2>1 DEF Goto, TypeOK
        <3> QED BY <1>2, <3>1, <3>2
    <2> QED BY <1>1, <1>5, <2>1, Returning DEF LockRole
<1>6. CASE LockUser(r)
    <2>1. CASE req[r].user \in users /\ Goto(r, "delete")
        <3>1. Fit(r, at("delete"))
            BY <1>3, <1>6, <2>1
            DEF LockUser, UserFree, At, Fit, Locals, PC, Writing, ChangesOK, WritersOK, GrantsOK
        <3>2. req' = [req EXCEPT ![r] = at("delete")]
            BY <2>1 DEF Goto, TypeOK
        <3> QED BY <1>2, <3>1, <3>2
    <2> QED BY <1>1, <1>6, <2>1, Returning DEF LockUser
<1>7. CASE DeleteRoles(r)
    <2> DEFINE v == [req[r] EXCEPT !.pc = "select", !.deleted = holds[req[r].user]]
    <2>0. req[r].pc = "delete" /\ req[r].user \in User
        BY <1>7 DEF DeleteRoles, At, WritersOK, Writing, TypeOK
    <2>1. v \in Locals /\ v.pc = "select" /\ v.deleted = holds[v.user] /\ v.user = req[r].user /\ v.ids = req[r].ids
        BY <1>3, <2>0 DEF Locals, PC, Writing, TypeOK, GrantsOK
    <2>2. req' = [req EXCEPT ![r] = v]
        BY <1>7 DEF DeleteRoles, TypeOK
    <2> HIDE DEF v
    <2>3. Fit(r, v)
        BY <1>3, <2>0, <2>1 DEF Fit, Writing, LocksUser, WritersOK, GrantsOK
    <2> QED BY <1>2, <2>2, <2>3
<1>8. CASE SelectRoles(r)
    <2> DEFINE found == {i \in Catalog : name[i] \in req[r].names}
               v == [req[r] EXCEPT !.pc = "insert", !.ids = found]
    <2>1. CASE AllFound(req[r].names) /\ req' = [req EXCEPT ![r].pc = "insert", ![r].ids = found]
        <3>0. req[r].pc = "select"
            BY <1>8 DEF SelectRoles, At
        <3>1. v \in Locals /\ v.pc = "insert" /\ v.deleted = req[r].deleted /\ v.user = req[r].user
              /\ v.ids = found /\ v.names = req[r].names
            BY <1>3 DEF Locals, PC, Writing, Catalog
        <3>2. {name[i] : i \in found} = req[r].names
            BY <2>1 DEF AllFound, Taken
        <3>3. req' = [req EXCEPT ![r] = v]
            BY <2>1 DEF TypeOK
        <3>4. found \subseteq used
            BY DEF NamesOK
        <3> HIDE DEF v, found
        <3>5. Fit(r, v)
            BY <1>3, <3>0, <3>1, <3>2, <3>4 DEF Fit, Writing, LocksUser, WritersOK
        <3> QED BY <1>2, <3>3, <3>5
    <2> QED BY <1>1, <1>8, <2>1, Returning DEF SelectRoles
<1>9. CASE InsertRoles(r)
    <2>1. CASE req[r].ids \subseteq Catalog /\ Goto(r, "commit")
        <3>0. req[r].pc = "insert" /\ \A q \in Request : At(q, "cascade") => req[q].role \notin req[r].ids
            BY <1>9 DEF InsertRoles, At
        <3>1. Fit(r, at("commit"))
            BY <1>3, <2>1, <3>0 DEF At, Fit, Locals, PC, Writing, LocksUser, WritersOK, GrantsOK
        <3>2. req' = [req EXCEPT ![r] = at("commit")]
            BY <2>1 DEF Goto, TypeOK
        <3> QED BY <1>2, <3>1, <3>2
    <2> QED BY <1>1, <1>9, <2>1, Returning DEF InsertRoles
<1> QED BY <1>4, <1>5, <1>6, <1>7, <1>8, <1>9

(* A request comes to its end, and the others stand where they stood. *)
LEMMA WritersStay ==
    ASSUME RolesAssumption, RolesInv, UNCHANGED <<users, known>>,
           \A q \in Request : \/ req'[q] = Idle
                              \/ /\ req'[q].pc = req[q].pc /\ req'[q].user = req[q].user
                                 /\ req'[q].deleted = req[q].deleted,
           \A q \in Request : req[q].pc \in {"select", "insert", "commit"} =>
                                  req[q].deleted = holds'[req[q].user]
    PROVE  WritersOK'
<1> USE DEF RolesInv
<1> SUFFICES ASSUME NEW p \in Request
             PROVE  (/\ req[p].user \in known \cup {None}
                     /\ req[p].pc \in Writing =>
                           /\ req[p].user \in known
                           /\ \A q \in Request : LocksUser(q, req[p].user) => q = p
                           /\ req[p].user \notin users =>
                                 \A q \in Request : req[q].user = req[p].user => q = p
                           /\ At(p, "delete") => req[p].user \in users
                     /\ req[p].pc \in {"select", "insert", "commit"} =>
                           req[p].deleted = holds[req[p].user]
                     /\ req[p].pc \in {"update", "dismiss"} => req[p].user \in known)'
    BY DEF WritersOK
<1>1. CASE req'[p] = Idle
    BY <1>1 DEF Idle, Writing, At
<1>2. CASE req'[p] # Idle
    <2>1. req'[p].pc = req[p].pc /\ req'[p].user = req[p].user /\ req'[p].deleted = req[p].deleted
        BY <1>2
    <2>2. ASSUME NEW q \in Request, LocksUser(q, req[p].user)', req[p].pc \in Writing PROVE q = p
        <3>1. req'[q].pc \in Writing /\ req'[q].user = req[p].user
            BY <2>1, <2>2 DEF LocksUser
        <3>2. req[q].pc \in Writing /\ req[q].user = req[p].user
            BY <3>1 DEF Idle, Writing
        <3> QED BY <2>2, <3>2 DEF WritersOK, LocksUser
    <2>3. ASSUME NEW q \in Request, req'[q].user = req[p].user, req[p].pc \in Writing,
                 req[p].user \notin users
          PROVE  q = p
        <3>1. req[p].user # None
            BY <2>3 DEF WritersOK, TypeOK, RolesAssumption
        <3>2. req[q].user = req[p].user
            BY <2>3, <3>1 DEF Idle
        <3> QED BY <2>3, <3>2 DEF WritersOK
    <2> QED BY <2>1, <2>2, <2>3 DEF WritersOK, At
<1> QED BY <1>1, <1>2

(* The steps that write the catalog. *)

LEMMA Inserting ==
    ASSUME RolesAssumption, RolesInv, NEW r \in Request, InsertRole(r) PROVE RolesInv'
<1> USE DEF RolesInv
<1>1. CASE UNCHANGED catalog
    BY <1>1, Returning DEF InsertRole
<1>2. ASSUME req[r].as \notin Taken, NEW i \in Role \ used,
             name' = [name EXCEPT ![i] = req[r].as], used' = used \cup {i}
      PROVE  RolesInv'
    <2> DEFINE n == req[r].as
    <2>1. n \in Name /\ n # None /\ i \notin Catalog /\ \A j \in Catalog : name[j] # n
        BY <1>2 DEF InsertRole, ChangesOK, At, NamesOK, RolesAssumption, Taken
    <2>2. n \notin WellKnown
        BY <2>1 DEF BuiltInsStay, RolesAssumption, Catalog
    <2>3. req' = [req EXCEPT ![r] = Idle] /\ UNCHANGED people
        BY DEF InsertRole, Return
    <2> HIDE DEF n
    <2>4. \A j \in Role : name'[j] = IF j = i THEN n ELSE name[j]
        BY <1>2 DEF TypeOK, n
    <2>5. Idle \in Locals
        BY DEF Idle, Locals, PC, Writing
    <2>6. \A q \in Request : req'[q] = IF q = r THEN Idle ELSE req[q]
        BY <2>3 DEF TypeOK
    <2>7. TypeOK'
        BY <1>2, <2>1, <2>3, <2>5 DEF TypeOK, people, n
    <2>8. Catalog' = Catalog \cup {i}
        BY <2>1, <2>4 DEF Catalog
    <2>9. BuiltInsStay'
        BY <1>2, <2>2, <2>4 DEF BuiltInsStay, NamesOK
    <2>10. NamesOK'
        BY <1>2, <2>1, <2>4, <2>8 DEF NamesOK
    <2>11. ChangesOK'
        BY <1>2, <2>6, <2>8 DEF ChangesOK, At, LocksRole, Idle
    <2>12. WritersOK'
        BY <2>3, <2>6, WritersStay DEF WritersOK, people
    <2>13. GrantsOK'
        <3>1. \A u \in User : holds'[u] \subseteq Catalog' /\ (u \notin users' => holds'[u] = {})
            BY <2>3, <2>8 DEF GrantsOK, people
        <3>2. \A u \in User : granted'[u] \subseteq used'
            BY <1>2, <2>3 DEF GrantsOK, people
        <3>3. ASSUME NEW q \in Request
              PROVE  /\ req'[q].ids \subseteq used'
                     /\ At(q, "commit")' => req'[q].ids \subseteq Catalog'
                     /\ req'[q].pc \in {"insert", "commit"} /\ ~req'[q].renamed
                        /\ req'[q].ids \subseteq Catalog' =>
                            {name'[j] : j \in req'[q].ids} = req'[q].names
            <4>1. CASE q = r
                BY <2>6, <4>1 DEF Idle, At
            <4>2. CASE q # r
                <5>1. req'[q] = req[q] /\ req[q].ids \subseteq used
                    BY <2>6, <4>2 DEF GrantsOK
                <5>2. \A j \in req[q].ids : j # i /\ j \in Role /\ name'[j] = name[j]
                    BY <1>2, <2>4, <5>1 DEF TypeOK
                <5>3. {name'[j] : j \in req[q].ids} = {name[j] : j \in req[q].ids}
                    BY <5>2
                <5>4. req[q].ids \subseteq Catalog' => req[q].ids \subseteq Catalog
                    BY <2>8, <5>2
                <5> QED BY <1>2, <2>8, <5>1, <5>3, <5>4 DEF GrantsOK, At
            <4> QED BY <4>1, <4>2
        <3> QED BY <3>1, <3>2, <3>3 DEF GrantsOK
    <2>14. HoldersAreAsked'
        BY <1>2, <2>3, <2>8 DEF HoldersAreAsked, GrantsOK, TypeOK, people
    <2> QED BY <2>7, <2>9, <2>10, <2>11, <2>12, <2>13, <2>14
<1> QED BY <1>1, <1>2 DEF InsertRole

LEMMA Renaming ==
    ASSUME RolesAssumption, RolesInv, NEW r \in Request, UpdateRole(r) PROVE RolesInv'
<1> USE DEF RolesInv
<1> DEFINE i == req[r].role
           n == req[r].as
           ok == i \in Catalog /\ \A j \in Role \ {i} : name[j] # n
           v(q) == IF q = r THEN Idle
                   ELSE [req[q] EXCEPT !.renamed = @ \/ i \in req[q].ids]
<1>1. i \in used \ WellKnown /\ n \in Name
    BY DEF UpdateRole, At, ChangesOK
<1>2. name' = (IF ok THEN [name EXCEPT ![i] = n] ELSE name) /\ req' = [q \in Request |-> v(q)]
      /\ UNCHANGED <<used, people>>
    BY DEF UpdateRole
<1>3. \A q \in Request : v(q) \in Locals
    <2>1. Idle \in Locals
        BY DEF Idle, Locals, PC, Writing
    <2>2. ASSUME NEW q \in Request PROVE [req[q] EXCEPT !.renamed = @ \/ i \in req[q].ids] \in Locals
        <3>1. req[q] \in Locals
            BY DEF TypeOK
        <3> DEFINE b == req[q].renamed \/ i \in req[q].ids
        <3>2. b \in BOOLEAN
            OBVIOUS
        <3> HIDE DEF b, i
        <3>3. [req[q] EXCEPT !.renamed = b] \in Locals
            BY <3>1, <3>2 DEF Locals
        <3> QED BY <3>3 DEF b
    <2> QED BY <2>1, <2>2
<1>4. \A q \in Request \ {r} : /\ v(q).pc = req[q].pc /\ v(q).role = req[q].role /\ v(q).as = req[q].as
                               /\ v(q).user = req[q].user /\ v(q).names = req[q].names
                               /\ v(q).ids = req[q].ids /\ v(q).deleted = req[q].deleted
                               /\ (~v(q).renamed => ~req[q].renamed /\ i \notin req[q].ids)
    BY ZenonT(30) DEF TypeOK, Locals
<1>5. v(r) = Idle
    OBVIOUS
<1> HIDE DEF v
<1>6. \A q \in Request : req'[q] = v(q)
    BY <1>2
<1>7. \A j \in Role : name'[j] = IF ok /\ j = i THEN n ELSE name[j]
    BY <1>1, <1>2 DEF TypeOK
<1>8. ok => n \notin WellKnown
    BY <1>1 DEF BuiltInsStay, RolesAssumption
<1> HIDE DEF n
<1>9. Catalog' = Catalog
    BY <1>1, <1>7 DEF Catalog, RolesAssumption
<1>10. TypeOK'
    BY <1>1, <1>2, <1>3 DEF TypeOK, people
<1>11. BuiltInsStay'
    BY <1>1, <1>7, <1>8 DEF BuiltInsStay
<1>12. NamesOK'
    <2>1. \A j, k \in Catalog : name'[j] = name'[k] => j = k
        BY <1>7 DEF NamesOK, Catalog
    <2> QED BY <1>2, <1>9, <2>1 DEF NamesOK
<1>13. ChangesOK'
    BY <1>2, <1>4, <1>5, <1>6, <1>9 DEF ChangesOK, At, LocksRole, Idle
<1>14. WritersOK'
    <2>1. \A q \in Request : \/ req'[q] = Idle
                             \/ /\ req'[q].pc = req[q].pc /\ req'[q].user = req[q].user
                                /\ req'[q].deleted = req[q].deleted
        BY <1>4, <1>5, <1>6
    <2> QED BY <1>2, <2>1, WritersStay DEF WritersOK, people
<1>15. GrantsOK'
    <2>1. ASSUME NEW q \in Request
          PROVE  /\ req'[q].ids \subseteq used
                 /\ At(q, "commit")' => req'[q].ids \subseteq Catalog
                 /\ req'[q].pc \in {"insert", "commit"} /\ ~req'[q].renamed /\ req'[q].ids \subseteq Catalog =>
                        {name'[j] : j \in req'[q].ids} = req'[q].names
        <3>1. CASE q = r
            BY <1>5, <1>6, <3>1 DEF Idle, At
        <3>2. CASE q # r
            <4>1. /\ req'[q].ids = req[q].ids /\ req'[q].pc = req[q].pc /\ req'[q].names = req[q].names
                  /\ ~req'[q].renamed => ~req[q].renamed /\ i \notin req[q].ids
                BY <1>4, <1>6, <3>2
            <4>2. req[q].ids \subseteq Catalog /\ i \notin req[q].ids =>
                      {name'[j] : j \in req[q].ids} = {name[j] : j \in req[q].ids}
                BY <1>7 DEF Catalog
            <4> QED BY <4>1, <4>2 DEF GrantsOK, At
        <3> QED BY <3>1, <3>2
    <2> QED BY <1>2, <1>9, <2>1 DEF GrantsOK, people
<1>16. HoldersAreAsked'
    BY <1>2, <1>9 DEF HoldersAreAsked, people
<1> QED BY <1>10, <1>11, <1>12, <1>13, <1>14, <1>15, <1>16

LEMMA Cascading ==
    ASSUME RolesAssumption, RolesInv, NEW r \in Request, CascadeRole(r) PROVE RolesInv'
<1> USE DEF RolesInv
<1> DEFINE i == req[r].role
<1>1. /\ i \in used \ WellKnown /\ i \in Catalog /\ i \in Role
      /\ \A q \in Request : LocksRole(q, i) => q = r
    BY DEF CascadeRole, At, ChangesOK, Catalog
<1>2. /\ req[r].pc = "cascade" /\ \A q \in Request : i \notin req[q].deleted
      /\ name' = [name EXCEPT ![i] = None] /\ holds' = [u \in User |-> holds[u] \ {i}]
      /\ req' = [req EXCEPT ![r] = Idle]
      /\ UNCHANGED <<used, users, known, granted>>
    BY DEF CascadeRole, At, Return
<1> HIDE DEF i
<1>3. \A j \in Role : name'[j] = IF j = i THEN None ELSE name[j]
    BY <1>2 DEF TypeOK
<1>4. Idle \in Locals
    BY DEF Idle, Locals, PC, Writing
<1>5. \A q \in Request : req'[q] = IF q = r THEN Idle ELSE req[q]
    BY <1>2 DEF TypeOK
<1>6. Catalog' = Catalog \ {i}
    BY <1>1, <1>3 DEF Catalog
<1>7. TypeOK'
    BY <1>2, <1>4 DEF TypeOK
<1>8. BuiltInsStay'
    BY <1>1, <1>3 DEF BuiltInsStay, RolesAssumption
<1>9. NamesOK'
    BY <1>2, <1>3, <1>6 DEF NamesOK, Catalog
<1>10. ChangesOK'
    <2>1. ASSUME NEW q \in Request, req'[q].pc = "cascade" PROVE req'[q].role \in Catalog'
        <3>1. q # r /\ req'[q] = req[q]
            BY <1>5, <2>1 DEF Idle
        <3>2. req[q].role # i
            BY <1>1, <2>1, <3>1 DEF LocksRole, At
        <3> QED BY <1>6, <2>1, <3>1, <3>2 DEF ChangesOK, At
    <2> QED BY <1>2, <1>5, <2>1 DEF ChangesOK, At, LocksRole, Idle
<1>11. WritersOK'
    <2>1. ASSUME NEW q \in Request, req[q].pc \in {"select", "insert", "commit"}
          PROVE  req[q].deleted = holds'[req[q].user]
        <3>1. req[q].deleted = holds[req[q].user] /\ req[q].user \in User
            BY <2>1 DEF WritersOK, Writing, TypeOK
        <3> QED BY <1>2, <3>1
    <2> QED BY <1>2, <1>5, <2>1, WritersStay
<1>12. GrantsOK'
    <2>1. ASSUME NEW q \in Request
          PROVE  /\ req'[q].ids \subseteq used
                 /\ At(q, "commit")' => req'[q].ids \subseteq Catalog'
                 /\ req'[q].pc \in {"insert", "commit"} /\ ~req'[q].renamed /\ req'[q].ids \subseteq Catalog' =>
                        {name'[j] : j \in req'[q].ids} = req'[q].names
        <3>1. CASE q = r
            BY <1>5, <3>1 DEF Idle, At
        <3>2. CASE q # r
            <4>1. req'[q] = req[q]
                BY <1>5, <3>2
            <4>2. At(q, "commit") => i \notin req[q].ids
                BY <1>1, <3>2 DEF LocksRole
            <4>3. req[q].ids \subseteq Catalog' =>
                      {name'[j] : j \in req[q].ids} = {name[j] : j \in req[q].ids}
                BY <1>3, <1>6 DEF Catalog
            <4> QED BY <1>6, <4>1, <4>2, <4>3 DEF GrantsOK, At
        <3> QED BY <3>1, <3>2
    <2>2. \A u \in User : holds'[u] \subseteq Catalog' /\ (u \notin users' => holds'[u] = {})
        BY <1>2, <1>6 DEF GrantsOK
    <2> QED BY <1>2, <2>1, <2>2 DEF GrantsOK
<1>13. HoldersAreAsked'
    BY <1>2, <1>6 DEF HoldersAreAsked, TypeOK
<1> QED BY <1>7, <1>8, <1>9, <1>10, <1>11, <1>12, <1>13

(* The steps that write the roles of a user. *)

LEMMA Committing ==
    ASSUME RolesAssumption, RolesInv, NEW r \in Request, Commit(r) PROVE RolesInv'
<1> USE DEF RolesInv
<1> DEFINE u == req[r].user
           ids == req[r].ids
<1>1. /\ req[r].pc = "commit" /\ u \in known /\ u \in User
      /\ ids \subseteq Catalog /\ req[r].deleted = holds[u]
      /\ \A q \in Request : LocksUser(q, u) => q = r
    BY DEF Commit, At, WritersOK, Writing, GrantsOK, TypeOK
<1>2. /\ users' = users \cup {u} /\ holds' = [holds EXCEPT ![u] = ids]
      /\ granted' = [granted EXCEPT ![u] = ids] /\ req' = [req EXCEPT ![r] = Idle]
      /\ UNCHANGED <<name, used, known>>
    <2>1. (holds[u] \ holds[u]) \cup ids = ids
        OBVIOUS
    <2> QED BY <1>1, <2>1 DEF Commit, Return, catalog
<1> HIDE DEF u, ids
<1>3. Idle \in Locals
    BY DEF Idle, Locals, PC, Writing
<1>4. \A q \in Request : req'[q] = IF q = r THEN Idle ELSE req[q]
    BY <1>2 DEF TypeOK
<1>5. Catalog' = Catalog /\ ids \subseteq used /\ ids \subseteq Role
    BY <1>1, <1>2 DEF Catalog, NamesOK
<1>6. TypeOK'
    BY <1>1, <1>2, <1>3, <1>5 DEF TypeOK
<1>7. BuiltInsStay' /\ NamesOK'
    BY <1>2, <1>5 DEF BuiltInsStay, NamesOK
<1>8. ChangesOK'
    BY <1>2, <1>4, <1>5 DEF ChangesOK, At, LocksRole, Idle
<1>9. WritersOK'
    <2> SUFFICES ASSUME NEW p \in Request
                 PROVE  (/\ req[p].user \in known \cup {None}
                         /\ req[p].pc \in Writing =>
                               /\ req[p].user \in known
                               /\ \A q \in Request : LocksUser(q, req[p].user) => q = p
                               /\ req[p].user \notin users =>
                                     \A q \in Request : req[q].user = req[p].user => q = p
                               /\ At(p, "delete") => req[p].user \in users
                         /\ req[p].pc \in {"select", "insert", "commit"} =>
                               req[p].deleted = holds[req[p].user]
                         /\ req[p].pc \in {"update", "dismiss"} => req[p].user \in known)'
        BY DEF WritersOK
    <2>1. CASE p = r
        BY <1>4, <2>1 DEF Idle, Writing, At
    <2>2. CASE p # r
        <3>1. req'[p] = req[p]
            BY <1>4, <2>2
        <3>2. ASSUME req[p].pc \in Writing PROVE req[p].user # u /\ req[p].user \in User
            BY <1>1, <2>2, <3>2 DEF LocksUser, WritersOK, TypeOK
        <3>3. ASSUME NEW q \in Request, LocksUser(q, req[p].user)', req[p].pc \in Writing PROVE q = p
            BY <1>4, <3>1, <3>3 DEF LocksUser, Idle, Writing, WritersOK
        <3>4. ASSUME NEW q \in Request, req'[q].user = req[p].user, req[p].pc \in Writing,
                     req[p].user \notin users
              PROVE  q = p
            <4>1. req[p].user # None
                BY <3>4 DEF WritersOK, TypeOK, RolesAssumption
            <4> QED BY <1>4, <3>4, <4>1 DEF WritersOK, Idle
        <3>5. req[p].pc \in {"select", "insert", "commit"} => req[p].deleted = holds'[req[p].user]
            BY <1>2, <3>2 DEF WritersOK, Writing, TypeOK
        <3> QED BY <1>2, <3>1, <3>3, <3>4, <3>5 DEF WritersOK, At
    <2> QED BY <2>1, <2>2
<1>10. GrantsOK'
    <2>1. \A w \in User : /\ holds'[w] \subseteq Catalog' /\ (w \notin users' => holds'[w] = {})
                          /\ granted'[w] \subseteq used
        BY <1>1, <1>2, <1>5 DEF GrantsOK, TypeOK
    <2>2. ASSUME NEW q \in Request
          PROVE  /\ req'[q].ids \subseteq used
                 /\ At(q, "commit")' => req'[q].ids \subseteq Catalog
                 /\ req'[q].pc \in {"insert", "commit"} /\ ~req'[q].renamed /\ req'[q].ids \subseteq Catalog =>
                        {name[j] : j \in req'[q].ids} = req'[q].names
        <3>1. CASE q = r
            BY <1>4, <3>1 DEF Idle, At
        <3>2. CASE q # r
            BY <1>4, <3>2 DEF GrantsOK, At
        <3> QED BY <3>1, <3>2
    <2> QED BY <1>2, <1>5, <2>1, <2>2 DEF GrantsOK
<1>11. HoldersAreAsked'
    BY <1>1, <1>2, <1>5 DEF HoldersAreAsked, TypeOK
<1> QED BY <1>6, <1>7, <1>8, <1>9, <1>10, <1>11

LEMMA Deleting ==
    ASSUME RolesAssumption, RolesInv, NEW r \in Request, DeleteUser(r) PROVE RolesInv'
<1> USE DEF RolesInv
<1> DEFINE u == req[r].user
<1>1. req[r].pc = "dismiss" /\ u \in User /\ \A q \in Request : ~LocksUser(q, u)
    BY DEF DeleteUser, At, WritersOK, TypeOK, UserFree
<1>2. /\ users' = users \ {u} /\ holds' = [holds EXCEPT ![u] = {}]
      /\ granted' = [granted EXCEPT ![u] = {}] /\ req' = [req EXCEPT ![r] = Idle]
      /\ UNCHANGED <<name, used, known>>
    BY DEF DeleteUser, Return, catalog
<1> HIDE DEF u
<1>3. Idle \in Locals
    BY DEF Idle, Locals, PC, Writing
<1>4. \A q \in Request : req'[q] = IF q = r THEN Idle ELSE req[q]
    BY <1>2 DEF TypeOK
<1>5. Catalog' = Catalog
    BY <1>2 DEF Catalog
<1>6. TypeOK'
    BY <1>1, <1>2, <1>3 DEF TypeOK
<1>7. BuiltInsStay' /\ NamesOK'
    BY <1>2, <1>5 DEF BuiltInsStay, NamesOK
<1>8. ChangesOK'
    BY <1>2, <1>4, <1>5 DEF ChangesOK, At, LocksRole, Idle
<1>9. WritersOK'
    <2> SUFFICES ASSUME NEW p \in Request
                 PROVE  (/\ req[p].user \in known \cup {None}
                         /\ req[p].pc \in Writing =>
                               /\ req[p].user \in known
                               /\ \A q \in Request : LocksUser(q, req[p].user) => q = p
                               /\ req[p].user \notin users =>
                                     \A q \in Request : req[q].user = req[p].user => q = p
                               /\ At(p, "delete") => req[p].user \in users
                         /\ req[p].pc \in {"select", "insert", "commit"} =>
                               req[p].deleted = holds[req[p].user]
                         /\ req[p].pc \in {"update", "dismiss"} => req[p].user \in known)'
        BY DEF WritersOK
    <2>1. CASE p = r
        BY <1>4, <2>1 DEF Idle, Writing, At
    <2>2. CASE p # r
        <3>1. req'[p] = req[p]
            BY <1>4, <2>2
        <3>2. ASSUME req[p].pc \in Writing PROVE req[p].user # u /\ req[p].user \in User
            BY <1>1, <3>2 DEF LocksUser, WritersOK, TypeOK
        <3>3. ASSUME NEW q \in Request, LocksUser(q, req[p].user)', req[p].pc \in Writing PROVE q = p
            BY <1>4, <3>1, <3>3 DEF LocksUser, Idle, Writing, WritersOK
        <3>4. ASSUME NEW q \in Request, req'[q].user = req[p].user, req[p].pc \in Writing,
                     req[p].user \notin users'
              PROVE  q = p
            <4>1. req[p].user # None /\ req[p].user \notin users
                BY <1>2, <3>2, <3>4 DEF WritersOK, TypeOK, RolesAssumption
            <4> QED BY <1>4, <3>4, <4>1 DEF WritersOK, Idle
        <3>5. req[p].pc \in {"select", "insert", "commit"} => req[p].deleted = holds'[req[p].user]
            BY <1>2, <3>2 DEF WritersOK, Writing, TypeOK
        <3>6. At(p, "delete") => req[p].user \in users'
            BY <1>2, <3>2 DEF WritersOK, At, Writing
        <3> QED BY <1>2, <3>1, <3>3, <3>4, <3>5, <3>6 DEF WritersOK, At
    <2> QED BY <2>1, <2>2
<1>10. GrantsOK'
    <2>1. \A w \in User : /\ holds'[w] \subseteq Catalog' /\ (w \notin users' => holds'[w] = {})
                          /\ granted'[w] \subseteq used
        BY <1>1, <1>2, <1>5 DEF GrantsOK, TypeOK
    <2>2. ASSUME NEW q \in Request
          PROVE  /\ req'[q].ids \subseteq used
                 /\ At(q, "commit")' => req'[q].ids \subseteq Catalog
                 /\ req'[q].pc \in {"insert", "commit"} /\ ~req'[q].renamed /\ req'[q].ids \subseteq Catalog =>
                        {name[j] : j \in req'[q].ids} = req'[q].names
        <3>1. CASE q = r
            BY <1>4, <3>1 DEF Idle, At
        <3>2. CASE q # r
            BY <1>4, <3>2 DEF GrantsOK, At
        <3> QED BY <3>1, <3>2
    <2> QED BY <1>2, <1>5, <2>1, <2>2 DEF GrantsOK
<1>11. HoldersAreAsked'
    BY <1>1, <1>2, <1>5 DEF HoldersAreAsked, TypeOK
<1> QED BY <1>6, <1>7, <1>8, <1>9, <1>10, <1>11

-----------------------------------------------------------------------------

LEMMA Initially == ASSUME RolesAssumption, Init PROVE RolesInv
<1>1. Idle \in Locals
    BY DEF Idle, Locals, PC, Writing
<1>2. TypeOK
    BY <1>1 DEF Init, TypeOK, RolesAssumption
<1>3. Catalog = WellKnown /\ \A i \in WellKnown : name[i] = i
    BY DEF Init, Catalog, RolesAssumption
<1>4. BuiltInsStay /\ NamesOK
    BY <1>3 DEF Init, BuiltInsStay, NamesOK, RolesAssumption
<1>5. \A r \in Request : req[r] = Idle
    BY DEF Init
<1>6. ChangesOK /\ WritersOK
    BY <1>5 DEF ChangesOK, WritersOK, Idle, At, Writing
<1>7. GrantsOK /\ HoldersAreAsked
    BY <1>3, <1>5 DEF Init, GrantsOK, HoldersAreAsked, Idle, At
<1> QED BY <1>2, <1>4, <1>6, <1>7 DEF RolesInv

LEMMA Stepping == ASSUME RolesAssumption, RolesInv, [Next]_vars PROVE RolesInv'
<1>1. ASSUME NEW r \in Request, Starts(r) PROVE RolesInv'
    BY <1>1, Starting
<1>2. ASSUME NEW r \in Request, Goes(r) PROVE RolesInv'
    BY <1>2, Looking, Inserting, Renaming, Cascading, Committing, Deleting DEF Goes
<1>3. ASSUME NEW r \in Request, Fails(r) PROVE RolesInv'
    BY <1>3, Returning DEF Fails
<1>4. CASE UNCHANGED vars
    <2>1. TypeOK' /\ BuiltInsStay' /\ NamesOK' /\ HoldersAreAsked'
        BY <1>4 DEF vars, catalog, people, RolesInv, TypeOK, BuiltInsStay, NamesOK, HoldersAreAsked, Catalog
    <2>2. ChangesOK' /\ WritersOK' /\ GrantsOK'
        BY <1>4 DEF vars, catalog, people, RolesInv, ChangesOK, WritersOK, GrantsOK, Catalog,
                    At, LocksRole, LocksUser
    <2> QED BY <2>1, <2>2 DEF RolesInv
<1> QED BY <1>1, <1>2, <1>3, <1>4 DEF Next, Deadlock

(* The types, the unique names, the locks and what each transaction is about *)
(* to write, whatever requests overlap or fail (roles.service.ts,            *)
(* users.service.ts, user-roles.ts).                                         *)
THEOREM RolesInvariance == ASSUME RolesAssumption PROVE Spec => []RolesInv
<1>1. Init => RolesInv
    BY Initially
<1>2. RolesInv /\ [Next]_vars => RolesInv'
    BY Stepping
<1> QED BY <1>1, <1>2, PTL DEF Spec

(* The well-known names stay with the roles the seed gave them to, through    *)
(* every creation, rename and removal (roles.service.ts:38-69).               *)
THEOREM BuiltInsProtected == ASSUME RolesAssumption PROVE Spec => []BuiltInsStay
<1>1. RolesInv => BuiltInsStay
    BY DEF RolesInv
<1> QED BY <1>1, RolesInvariance, PTL

(* The roles of a user are those one write named, less the ones removed from  *)
(* the catalog, never a mixture of two writes (user-roles.ts:44-62).          *)
THEOREM OneWriterPrevails == ASSUME RolesAssumption PROVE Spec => []HoldersAreAsked
<1>1. RolesInv => HoldersAreAsked
    BY DEF RolesInv
<1> QED BY <1>1, RolesInvariance, PTL

-----------------------------------------------------------------------------
(* Roles implements RoleCatalog: each step of a request is one step of the    *)
(* abstract services, or none.                                                *)

(* A request that has not begun to write a row that is nobody's, and the      *)
(* tables the same: nothing has happened, or a creation was given up.         *)
LEMMA Unseen ==
    ASSUME RolesAssumption, RolesInv, NEW r \in Request,
           UNCHANGED <<name, used, users, known, holds>>,
           \A q \in Request \ {r} : req'[q].pc = req[q].pc /\ req'[q].user = req[q].user,
           \A u \in known \ users : LocksUser(r, u)' => LocksUser(r, u)
    PROVE  [Services!Next]_(Services!vars)
<1>1. \A u \in User, q \in Request \ {r} : LocksUser(q, u)' <=> LocksUser(q, u)
    BY DEF LocksUser
<1>2. ASSUME NEW u \in known \ users, LocksUser(r, u), ~LocksUser(r, u)'
      PROVE  Services!GiveUp
    <2>1. u \in User \ users /\ req[r].user = u /\ \A q \in Request : LocksUser(q, u) => q = r
        BY <1>2 DEF RolesInv, TypeOK, WritersOK, LocksUser
    <2>2. UserFree(u)'
        BY <1>1, <1>2, <2>1 DEF UserFree
    <2>3. \A w \in (known \ users) \ {u} : UserFree(w)' <=> UserFree(w)
        <3>1. \A w \in (known \ users) \ {u} : ~LocksUser(r, w)
            BY <2>1 DEF LocksUser
        <3> QED BY <1>1, <3>1 DEF UserFree, RolesInv, TypeOK
    <2>4. Gone' = Gone \cup {u}
        BY <1>2, <2>1, <2>2, <2>3 DEF Gone, RolesInv, TypeOK
    <2> QED BY <2>1, <2>4 DEF Services!GiveUp
<1>3. CASE \A u \in known \ users : LocksUser(r, u) => LocksUser(r, u)'
    <2>1. \A u \in known \ users : UserFree(u)' <=> UserFree(u)
        BY <1>1, <1>3 DEF UserFree, RolesInv, TypeOK
    <2>2. Gone' = Gone
        BY <2>1 DEF Gone
    <2> QED BY <2>2 DEF Services!vars
<1> QED BY <1>2, <1>3 DEF Services!Next

(* A request that comes to its end and leaves the tables alone. *)
LEMMA EndingUnseen ==
    ASSUME RolesAssumption, RolesInv, NEW r \in Request, Return(r), UNCHANGED <<catalog, people>>
    PROVE  [Services!Next]_(Services!vars)
<1>1. \A q \in Request : req'[q] = IF q = r THEN Idle ELSE req[q]
    BY DEF Return, RolesInv, TypeOK
<1>2. \A u \in User : ~LocksUser(r, u)'
    BY <1>1 DEF LocksUser, Idle, Writing
<1>3. known \subseteq User
    BY DEF RolesInv, TypeOK
<1> QED BY <1>1, <1>2, <1>3, Unseen DEF catalog, people

(* One that only goes on, and was already writing, or is not now, or writes   *)
(* a row that is there.                                                       *)
LEMMA GoingOnUnseen ==
    ASSUME RolesAssumption, RolesInv, NEW r \in Request, NEW v, UNCHANGED <<catalog, people>>,
           req' = [req EXCEPT ![r] = v],
           v.pc \in Writing => v.user = req[r].user /\ (req[r].pc \in Writing \/ v.user \in users)
    PROVE  [Services!Next]_(Services!vars)
<1>1. \A q \in Request : req'[q] = IF q = r THEN v ELSE req[q]
    BY DEF RolesInv, TypeOK
<1>2. \A u \in known \ users : LocksUser(r, u)' => LocksUser(r, u)
    BY <1>1 DEF LocksUser
<1> QED BY <1>1, <1>2, Unseen DEF catalog, people

(* Nobody sees a request begin; the row of a new user is nobody's yet. *)
LEMMA BeginningUnseen ==
    ASSUME RolesAssumption, RolesInv, NEW r \in Request, Starts(r)
    PROVE  [Services!Next]_(Services!vars)
<1>1. ASSUME NEW v, req' = [req EXCEPT ![r] = v], v.pc \notin Writing, UNCHANGED <<catalog, people>>
      PROVE  [Services!Next]_(Services!vars)
    BY <1>1, GoingOnUnseen
<1>2. CASE CreateUser(r)
    <2>1. PICK u \in User \ known, names \in Asked :
              OnUser(r, "select", u, names) /\ known' = known \cup {u}
        BY <1>2 DEF CreateUser
    <2>2. /\ req[r].pc = "idle" /\ UNCHANGED <<name, used, users, holds>>
          /\ \A q \in Request \ {r} : req'[q] = req[q]
          /\ req'[r].pc = "select" /\ req'[r].user = u
        BY <1>2, <2>1 DEF CreateUser, OnUser, At, catalog, RolesInv, TypeOK, Idle
    <2>3. \A w \in User \ {u} : UserFree(w)' <=> UserFree(w)
        BY <2>2 DEF UserFree, LocksUser, Writing
    <2>4. ~UserFree(u)'
        BY <2>2 DEF UserFree, LocksUser, Writing
    <2>5. Gone' = Gone
        BY <2>1, <2>2, <2>3, <2>4 DEF Gone, RolesInv, TypeOK
    <2> QED BY <2>2, <2>5 DEF Services!vars
<1>3. CASE CreateRole(r)
    BY <1>1, <1>3 DEF CreateRole, OnRole, Idle, Writing
<1>4. CASE RenameRole(r)
    BY <1>1, <1>4 DEF RenameRole, OnRole, Idle, Writing
<1>5. CASE RemoveRole(r)
    BY <1>1, <1>5 DEF RemoveRole, OnRole, Idle, Writing
<1>6. CASE FindUser(r)
    BY <1>1, <1>6 DEF FindUser, OnUser, Idle, Writing
<1>7. CASE RemoveUser(r)
    BY <1>1, <1>7 DEF RemoveUser, OnUser, Idle, Writing
<1> QED BY <1>2, <1>3, <1>4, <1>5, <1>6, <1>7 DEF Starts

(* The looks, the locks and the statements of an open transaction. *)
LEMMA LookingUnseen ==
    ASSUME RolesAssumption, RolesInv, NEW r \in Request,
           CheckClash(r) \/ LockRole(r) \/ LockUser(r) \/ DeleteRoles(r) \/ SelectRoles(r) \/ InsertRoles(r)
    PROVE  [Services!Next]_(Services!vars)
<1>0. req[r] \in Locals /\ UNCHANGED <<catalog, people>>
    BY DEF RolesInv, TypeOK, CheckClash, LockRole, LockUser, DeleteRoles, SelectRoles, InsertRoles
<1>1. CASE Return(r)
    BY <1>0, <1>1, EndingUnseen
<1>2. ASSUME NEW pc, Goto(r, pc),
             pc \in Writing => req[r].pc \in Writing \/ req[r].user \in users
      PROVE  [Services!Next]_(Services!vars)
    <2> DEFINE v == [req[r] EXCEPT !.pc = pc]
    <2>1. v.pc = pc /\ v.user = req[r].user /\ req' = [req EXCEPT ![r] = v]
        BY <1>0, <1>2 DEF Goto, Locals, RolesInv, TypeOK
    <2> HIDE DEF v
    <2> QED BY <1>0, <1>2, <2>1, GoingOnUnseen
<1>3. CASE CheckClash(r)
    BY <1>1, <1>2, <1>3 DEF CheckClash, Writing
<1>4. CASE LockRole(r)
    BY <1>1, <1>2, <1>4 DEF LockRole, Writing
<1>5. CASE LockUser(r)
    BY <1>1, <1>2, <1>5 DEF LockUser
<1>6. CASE DeleteRoles(r)
    <2> DEFINE v == [req[r] EXCEPT !.pc = "select", !.deleted = holds[req[r].user]]
    <2>1. v.user = req[r].user /\ req[r].pc \in Writing /\ req' = [req EXCEPT ![r] = v]
        BY <1>0, <1>6 DEF DeleteRoles, At, Writing, Locals, RolesInv, TypeOK
    <2> HIDE DEF v
    <2> QED BY <1>0, <2>1, GoingOnUnseen
<1>7. CASE SelectRoles(r)
    <2> DEFINE found == {i \in Catalog : name[i] \in req[r].names}
               v == [req[r] EXCEPT !.pc = "insert", !.ids = found]
    <2>1. CASE req' = [req EXCEPT ![r].pc = "insert", ![r].ids = found]
        <3>1. v.user = req[r].user /\ req[r].pc \in Writing /\ req' = [req EXCEPT ![r] = v]
            BY <1>0, <1>7, <2>1 DEF SelectRoles, At, Writing, Locals, RolesInv, TypeOK
        <3> HIDE DEF v
        <3> QED BY <1>0, <3>1, GoingOnUnseen
    <2> QED BY <1>1, <1>7, <2>1 DEF SelectRoles
<1>8. CASE InsertRoles(r)
    BY <1>1, <1>2, <1>8 DEF InsertRoles, At, Writing
<1> QED BY <1>3, <1>4, <1>5, <1>6, <1>7, <1>8

(* The rows of users and who writes them stay, so who is gone stays. *)
LEMMA GoneStays ==
    ASSUME RolesInv, UNCHANGED <<users, known>>,
           \A q \in Request, u \in User : LocksUser(q, u)' <=> LocksUser(q, u)
    PROVE  Gone' = Gone
BY DEF Gone, UserFree, RolesInv, TypeOK

LEMMA InsertingAtOnce ==
    ASSUME RolesAssumption, RolesInv, NEW r \in Request, InsertRole(r)
    PROVE  [Services!Next]_(Services!vars)
<1>1. CASE UNCHANGED catalog
    BY <1>1, EndingUnseen DEF InsertRole
<1>2. ASSUME req[r].as \notin Taken, NEW i \in Role \ used,
             name' = [name EXCEPT ![i] = req[r].as], used' = used \cup {i}
      PROVE  Services!Create
    <2>1. req[r].as \in Name /\ UNCHANGED people
        BY DEF InsertRole, RolesInv, ChangesOK, At
    <2>2. \A q \in Request, u \in User : LocksUser(q, u)' <=> LocksUser(q, u)
        BY DEF InsertRole, At, Return, LocksUser, Idle, Writing, RolesInv, TypeOK
    <2>3. Gone' = Gone
        BY <2>1, <2>2, GoneStays DEF people
    <2>4. Services!Taken = Taken
        BY DEF Services!Taken, Services!Catalog, Taken, Catalog
    <2> QED BY <1>2, <2>1, <2>3, <2>4 DEF Services!Create, people
<1> QED BY <1>1, <1>2 DEF InsertRole, Services!Next

(* A name the role has by now is no change. *)
LEMMA RenamingAtOnce ==
    ASSUME RolesAssumption, RolesInv, NEW r \in Request, UpdateRole(r)
    PROVE  [Services!Next]_(Services!vars)
<1> DEFINE i == req[r].role
           n == req[r].as
           ok == i \in Catalog /\ \A j \in Role \ {i} : name[j] # n
<1>1. i \in used \ WellKnown /\ n \in Name
    BY DEF UpdateRole, At, RolesInv, ChangesOK
<1>2. name' = (IF ok THEN [name EXCEPT ![i] = n] ELSE name) /\ UNCHANGED <<used, people>>
    BY DEF UpdateRole
<1>3. \A q \in Request, u \in User : LocksUser(q, u)' <=> LocksUser(q, u)
    <2>1. ASSUME NEW q \in Request \ {r} PROVE req'[q].pc = req[q].pc /\ req'[q].user = req[q].user
        BY DEF UpdateRole, RolesInv, TypeOK, Locals
    <2>2. req'[r].pc = "idle" /\ req[r].pc = "rename"
        BY DEF UpdateRole, At, Idle
    <2> QED BY <2>1, <2>2 DEF LocksUser, Writing
<1>4. Gone' = Gone
    BY <1>2, <1>3, GoneStays DEF people
<1>5. CASE ok /\ name[i] # n
    <2>1. i \in Services!Custom
        BY <1>1, <1>5 DEF Services!Custom, Services!Catalog, Catalog
    <2>2. n \notin Services!Taken
        BY <1>5 DEF Services!Taken, Services!Catalog
    <2> QED BY <1>1, <1>2, <1>4, <1>5, <2>1, <2>2 DEF Services!Next, Services!Rename, people
<1>6. CASE ~(ok /\ name[i] # n)
    <2>1. name' = name
        BY <1>2, <1>6 DEF RolesInv, TypeOK
    <2> QED BY <1>2, <1>4, <2>1 DEF Services!vars, people
<1> QED BY <1>5, <1>6

LEMMA RemovingAtOnce ==
    ASSUME RolesAssumption, RolesInv, NEW r \in Request, CascadeRole(r) PROVE Services!Remove
<1>1. req[r].role \in Services!Custom
    BY DEF CascadeRole, At, RolesInv, ChangesOK, Services!Custom, Services!Catalog, Catalog
<1>2. \A q \in Request, u \in User : LocksUser(q, u)' <=> LocksUser(q, u)
    BY DEF CascadeRole, At, Return, LocksUser, Idle, Writing, RolesInv, TypeOK
<1>3. Gone' = Gone
    BY <1>2, GoneStays DEF CascadeRole
<1> QED BY <1>1, <1>3 DEF CascadeRole, Services!Remove

(* What the transaction deleted is all the user held, and what it brings is    *)
(* in the catalog: the COMMIT replaces the one by the other.                   *)
LEMMA CommittingAtOnce ==
    ASSUME RolesAssumption, RolesInv, NEW r \in Request, Commit(r) PROVE Services!Assign
<1> DEFINE u == req[r].user
           ids == req[r].ids
<1>1. /\ req[r].pc = "commit" /\ u \in User /\ req[r].deleted = holds[u] /\ ids \subseteq Catalog
      /\ \A q \in Request : LocksUser(q, u) => q = r
    BY DEF Commit, At, RolesInv, TypeOK, WritersOK, GrantsOK, Writing
<1>2. u \notin Gone
    BY <1>1 DEF Gone, UserFree, LocksUser, Writing
<1>3. /\ users' = users \cup {u} /\ holds' = [holds EXCEPT ![u] = ids]
      /\ UNCHANGED <<name, used, known>>
    BY <1>1 DEF Commit, catalog
<1>4. \A q \in Request : req'[q] = IF q = r THEN Idle ELSE req[q]
    BY DEF Commit, Return, RolesInv, TypeOK
<1> HIDE DEF u
<1>5. \A w \in User \ {u} : UserFree(w)' <=> UserFree(w)
    BY <1>4 DEF UserFree, LocksUser, Idle, Writing, u
<1>6. Gone' = Gone
    BY <1>2, <1>3, <1>5 DEF Gone, RolesInv, TypeOK
<1>7. ids \in SUBSET Services!Catalog
    BY <1>1 DEF Services!Catalog, Catalog
<1> QED BY <1>1, <1>2, <1>3, <1>6, <1>7 DEF Services!Assign

(* The row may have been deleted by another request before. *)
LEMMA DismissingAtOnce ==
    ASSUME RolesAssumption, RolesInv, NEW r \in Request, DeleteUser(r)
    PROVE  [Services!Next]_(Services!vars)
<1> DEFINE u == req[r].user
<1>1. req[r].pc = "dismiss" /\ u \in known /\ u \in User /\ UserFree(u)
    BY DEF DeleteUser, At, RolesInv, WritersOK, TypeOK
<1>2. users' = users \ {u} /\ holds' = [holds EXCEPT ![u] = {}] /\ UNCHANGED <<name, used, known>>
    BY DEF DeleteUser, catalog
<1>3. \A q \in Request : req'[q] = IF q = r THEN Idle ELSE req[q]
    BY DEF DeleteUser, Return, RolesInv, TypeOK
<1> HIDE DEF u
<1>4. \A w \in User : UserFree(w)' <=> UserFree(w)
    BY <1>1, <1>3 DEF UserFree, LocksUser, Idle, Writing
<1>5. Gone' = Gone \cup {u}
    BY <1>1, <1>2, <1>4 DEF Gone, RolesInv, TypeOK
<1>6. CASE u \in users
    BY <1>2, <1>5, <1>6 DEF Services!Next, Services!Dismiss
<1>7. CASE u \notin users
    <2>1. holds' = holds /\ users' = users
        BY <1>1, <1>2, <1>7 DEF RolesInv, TypeOK, GrantsOK
    <2>2. Gone' = Gone
        BY <1>1, <1>5, <1>7 DEF Gone
    <2> QED BY <1>2, <2>1, <2>2 DEF Services!vars
<1> QED BY <1>6, <1>7

LEMMA Simulation ==
    ASSUME RolesAssumption, RolesInv, [Next]_vars PROVE [Services!Next]_(Services!vars)
<1>1. ASSUME NEW r \in Request, Goes(r) PROVE [Services!Next]_(Services!vars)
    BY <1>1, LookingUnseen, InsertingAtOnce, RenamingAtOnce, RemovingAtOnce, CommittingAtOnce,
       DismissingAtOnce DEF Goes, Services!Next
<1>2. ASSUME NEW r \in Request, Fails(r) PROVE [Services!Next]_(Services!vars)
    BY <1>2, EndingUnseen DEF Fails
<1>3. CASE UNCHANGED vars
    <2>1. \A q \in Request, u \in User : LocksUser(q, u)' <=> LocksUser(q, u)
        BY <1>3 DEF vars, LocksUser
    <2> QED BY <1>3, <2>1, GoneStays DEF vars, catalog, people, Services!vars
<1> QED BY <1>1, <1>2, <1>3, BeginningUnseen DEF Next, Deadlock

LEMMA SimulationStarts == ASSUME RolesAssumption, Init PROVE Services!Init
<1>1. Gone = {}
    BY DEF Init, Gone
<1> QED BY <1>1 DEF Init, Services!Init

(* The handlers of roles and users, with their transactions, locks and         *)
(* failures, implement operations that happen at one moment or not at all      *)
(* (roles.service.ts:38-73, users.service.ts:54-82, user-roles.ts:44-63).      *)
THEOREM AtOneMoment == ASSUME RolesAssumption PROVE Spec => ImplementsCatalog
<1>1. Init => Services!Init
    BY SimulationStarts
<1>2. RolesInv /\ [Next]_vars => [Services!Next]_(Services!vars)
    BY Simulation
<1> QED BY <1>1, <1>2, RolesInvariance, PTL DEF Spec, ImplementsCatalog, Services!Spec

=============================================================================
