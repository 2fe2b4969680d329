------------------------------- MODULE UsersScreen -------------------------------
(***************************************************************************)
(* The administration screen of the users: the paged and filtered list, the *)
(* form that creates or edits a user, the confirmed removal, and the cache  *)
(* of list pages under them (web-next/features/user, web/app/features/user; *)
(* lib/use-api-mutation.ts, lib/use-paginated-query.ts).  Both front ends   *)
(* are one model: they differ in one call, the refetch after a save.        *)
(*                                                                         *)
(* The cache is a library's (TanStack Query), modelled as the code uses it: *)
(* one entry per filter and page; the page before stays on the screen while *)
(* the next one loads for the first time; a finished write invalidates all  *)
(* entries, refetches the shown one and waits for that; a fetch on its way  *)
(* is restarted only if its entry already has data.  The API answers reads  *)
(* from finished writes (ReadAfterWrite, which UserListCache implements).   *)
(***************************************************************************)
EXTENDS Naturals, FiniteSets

CONSTANTS
    Users,          \* users are numbered in the order they are created
    InitialUsers,   \* how many there are at first
    Role,
    Picked,         \* bound: roles the list is filtered by
    PageSize,
    Removal,        \* removals that may be under way at once
    MaxPage,        \* bound: pages a user turns to
    MaxWrites,      \* bound: writes of all administrators
    MaxFaults,      \* bound: requests whose answer is lost
    MaxMoves,       \* bound: pages turned, filters changed, retries, forms opened
    None

Save == "save"
New  == 0
Job  == Removal \cup {Save}

ASSUME ScreenAssumption ==
    /\ Users \in Nat /\ InitialUsers \in 0 .. Users
    /\ PageSize \in Nat \ {0} /\ MaxPage \in Nat \ {0}
    /\ MaxWrites \in Nat /\ MaxFaults \in Nat /\ MaxMoves \in Nat
    /\ Save \notin Removal
    /\ Picked \subseteq Role /\ None \notin Role
    /\ Role \cap {"unborn", "gone"} = {}

User   == 1 .. Users
Filter == Picked \cup {None}          \* None: all users
Key    == Filter \X (1 .. MaxPage)    \* what names a cached page

VARIABLES
    nuxt,     \* is it the Nuxt screen, which refetches after a save
    role,     \* the API's table: role of a user, "unborn" or "gone"
    version,  \* counts the writes that table has seen
    filter, page,
    last,     \* the last entry shown that had data of its own
    data,     \* cached pages
    fresh,    \* neither invalidated nor older than the stale time
    failed,   \* the last fetch of the entry failed
    fetch,    \* list request of an entry
    job,      \* a save and removals, from the click to the end
    form,     \* the open form: None, New or the user it edits
    acked,    \* history: version of the last write whose answer has come
    astray,   \* history: a list has shrunk, or the pager of one list led into another
    faults, moves

world  == <<nuxt, role, version>>
place  == <<filter, page, last>>
cache  == <<data, fresh, failed, fetch>>
vars   == <<world, place, cache, job, form, acked, astray, faults, moves>>

State == {"unborn", "gone"} \cup Role
Snap  == [rows : SUBSET User, pages : Nat, seen : Nat]
Entry == [rows : SUBSET User, pages : Nat, seen : Nat, outrun : BOOLEAN]

ASSUME NoPage == None \notin Entry

FetchState == [pc : {"none", "sent", "read"}, got : Snap \cup {None}, outrun : BOOLEAN]
JobState   == [pc : {"idle", "asking", "sent", "served", "refused", "settling"},
               target : User \cup {New, None}, stamp : Nat, key : Key \cup {None}]

NoFetch   == [pc |-> "none", got |-> None, outrun |-> FALSE]
SentFetch == [pc |-> "sent", got |-> None, outrun |-> FALSE]
NoJob     == [pc |-> "idle", target |-> None, stamp |-> 0, key |-> None]

TypeOK ==
    /\ nuxt \in BOOLEAN
    /\ role \in [User -> State]
    /\ version \in Nat /\ acked \in Nat /\ faults \in Nat /\ moves \in Nat
    /\ filter \in Filter /\ page \in 1 .. MaxPage
    /\ last \in Key \cup {None}
    /\ data \in [Key -> Entry \cup {None}]
    /\ fresh \in [Key -> BOOLEAN] /\ failed \in [Key -> BOOLEAN]
    /\ fetch \in [Key -> FetchState]
    /\ job \in [Job -> JobState]
    /\ form \in User \cup {New, None}
    /\ astray \in BOOLEAN

-----------------------------------------------------------------------------
(* The API's list: newest first, PageSize users a page, at least one page. *)

Existing       == {u \in User : role[u] \in Role}
Unborn         == {u \in User : role[u] = "unborn"}
Matching(f)    == {u \in Existing : f \in {None, role[u]}}
Ahead(f, u)    == Cardinality({v \in Matching(f) : v > u})
Rows(f, p)     == {u \in Matching(f) : Ahead(f, u) \in (p - 1) * PageSize .. p * PageSize - 1}
PageCount(f)   == 1 + (Cardinality(Matching(f)) - (IF Matching(f) = {} THEN 0 ELSE 1)) \div PageSize
Answer(k)      == [rows |-> Rows(k[1], k[2]), pages |-> PageCount(k[1]), seen |-> version]

Fetching(k) == fetch[k].pc # "none"
HasData(k)  == data[k] # None
Shown       == <<filter, page>>

(* The entry whose rows and pager the screen shows: its own, or while that  *)
(* one loads for the first time the one shown before.                       *)
Displayed == IF HasData(Shown) THEN Shown
             ELSE IF failed[Shown] THEN None ELSE last

OnScreen   == IF Displayed = None \/ failed[Shown] THEN {} ELSE data[Displayed].rows
PagesShown == IF Displayed = None THEN 1 ELSE data[Displayed].pages

Asking == \E j \in Job : job[j].pc = "asking"
(* No dialog is above the table. *)
Table == ~Asking /\ form = None

-----------------------------------------------------------------------------
(* Fetches.  F is the fetch table they start from. *)

(* A fetch of k starts, in place of one on its way if k has data. *)
Started(F, k) == [F EXCEPT ![k] = IF F[k].pc # "none" /\ ~HasData(k) THEN @ ELSE SentFetch]
Cleared(k)    == [failed EXCEPT ![k] = @ /\ HasData(k)]

(* The jobs that wait for the fetch of an entry in K go on to their end. *)
Waiting(K)  == {j \in Job : job[j].pc = "settling" /\ job[j].key \in K}
Finish(J) ==
    /\ job' = [j \in Job |-> IF j \in J THEN NoJob ELSE job[j]]
    /\ form' = IF Save \in J THEN None ELSE form

(* The fetch of k has ended and left the tables F and G (of failures).  A   *)
(* save that waited for it closes the form; the Nuxt screen then refetches  *)
(* the shown entry, and a removal waiting for what that cuts off is done.   *)
Ended(k, F, G) ==
    IF nuxt /\ Save \in Waiting({k})
    THEN /\ fetch' = Started(F, Shown)
         /\ failed' = [G EXCEPT ![Shown] = @ /\ data'[Shown] # None]
         /\ Finish(Waiting({k} \cup IF data'[Shown] # None THEN {Shown} ELSE {}))
    ELSE fetch' = F /\ failed' = G /\ Finish(Waiting({k}))

Init ==
    /\ nuxt \in BOOLEAN
    /\ role \in [User -> State]
    /\ \A u \in User : IF u <= InitialUsers THEN role[u] \in Role ELSE role[u] = "unborn"
    /\ version = 0 /\ acked = 0 /\ faults = 0 /\ moves = 0
    /\ filter = None /\ page = 1 /\ last = None
    /\ data = [k \in Key |-> None]
    /\ fresh = [k \in Key |-> FALSE] /\ failed = [k \in Key |-> FALSE]
    /\ fetch = [k \in Key |-> IF k = <<None, 1>> THEN SentFetch ELSE NoFetch]
    /\ job = [j \in Job |-> NoJob]
    /\ form = None
    /\ astray = FALSE

-----------------------------------------------------------------------------
(* The list: where the user goes, and the pages that come. *)

Move == moves < MaxMoves /\ moves' = moves + 1

(* The screen shows the entry <<f, p>>: fetched unless fresh, and age may   *)
(* have made it stale.  A fetch of it already on its way is waited for.     *)
Show(f, p) ==
    LET k == <<f, p>> IN
    /\ filter' = f /\ page' = p
    /\ last' = IF HasData(k) THEN k ELSE last
    /\ \E stale \in BOOLEAN :
         /\ stale \/ fresh[k]
         /\ fresh' = [fresh EXCEPT ![k] = ~stale]
         /\ IF stale /\ ~Fetching(k)
            THEN fetch' = [fetch EXCEPT ![k] = SentFetch] /\ failed' = Cleared(k)
            ELSE UNCHANGED <<fetch, failed>>
    /\ Move
    /\ UNCHANGED <<world, data, job, form, acked, faults>>

(* The pager, which counts the pages of the list on the screen. *)
Turn ==
    /\ Table /\ PagesShown > 1
    /\ \E p \in {page - 1, page + 1} :
         /\ p \in 1 .. MaxPage /\ (p < page \/ page < PagesShown)
         /\ Show(filter, p)
         /\ astray' = (astray \/ (p > page /\ Displayed[1] # filter))

(* Mutant: the page number survives the change of the filter. *)
Refine_KeepsPage ==
    /\ Table
    /\ \E f \in Filter : <<f, 1>> # Shown /\ Show(f, page)
    /\ UNCHANGED astray

(* A role filter, a search term or a sort order: back to the first page. *)
Refine ==
    /\ Table
    /\ \E f \in Filter : <<f, 1>> # Shown /\ Show(f, 1)
    /\ UNCHANGED astray

(* The retry button of a list that failed to load. *)
Retry ==
    /\ Table /\ failed[Shown]
    /\ fetch' = Started(fetch, Shown) /\ failed' = Cleared(Shown)
    /\ Finish(IF HasData(Shown) THEN Waiting({Shown}) ELSE {})
    /\ Move
    /\ UNCHANGED <<world, place, data, fresh, acked, astray, faults>>

(* The API answers the list request of entry k.  Its rows and its count are  *)
(* two statements; a write between them is one the page need not have seen.  *)
Read(k) ==
    /\ fetch[k].pc = "sent"
    /\ fetch' = [fetch EXCEPT ![k] = [pc |-> "read", got |-> Answer(k), outrun |-> FALSE]]
    /\ UNCHANGED <<world, place, data, fresh, failed, job, form, acked, astray, faults, moves>>

Arrive(k) ==
    LET got == fetch[k].got IN
    /\ fetch[k].pc = "read"
    /\ data' = [data EXCEPT ![k] = [rows |-> got.rows, pages |-> got.pages, seen |-> got.seen,
                                    outrun |-> fetch[k].outrun]]
    /\ fresh' = [fresh EXCEPT ![k] = TRUE]
    /\ last' = IF k = Shown THEN k ELSE last
    /\ Ended(k, [fetch EXCEPT ![k] = NoFetch], [failed EXCEPT ![k] = FALSE])
    /\ UNCHANGED <<world, filter, page, acked, astray, faults, moves>>

(* Mutant: who waits for the fetch is not told that it failed. *)
Fail_Unheard(k) ==
    /\ Fetching(k) /\ faults < MaxFaults /\ faults' = faults + 1
    /\ fetch' = [fetch EXCEPT ![k] = NoFetch] /\ failed' = [failed EXCEPT ![k] = TRUE]
    /\ UNCHANGED <<world, place, data, fresh, job, form, acked, astray, moves>>

(* The fetch of k fails, its retry included. *)
Fail(k) ==
    /\ Fetching(k) /\ faults < MaxFaults /\ faults' = faults + 1
    /\ UNCHANGED data
    /\ Ended(k, [fetch EXCEPT ![k] = NoFetch], [failed EXCEPT ![k] = TRUE])
    /\ UNCHANGED <<world, place, fresh, acked, astray, moves>>

-----------------------------------------------------------------------------
(* The form and the dialog. *)

Budget == version + Cardinality({j \in Job : job[j].pc \in {"asking", "sent"}}) < MaxWrites

Open ==
    /\ Table
    /\ \E u \in OnScreen \cup {New} : form' = u
    /\ Move
    /\ UNCHANGED <<world, place, cache, job, acked, astray, faults>>

Cancel ==
    /\ form # None /\ ~Asking
    /\ form' = None
    /\ UNCHANGED <<world, place, cache, job, acked, astray, faults, moves>>

Ask(j, u, pc) ==
    job' = [job EXCEPT ![j] = [pc |-> pc, target |-> u, stamp |-> 0, key |-> None]]

(* Save: at once, or after a dialog if roles or the password are at stake. *)
Submit ==
    /\ form # None /\ ~Asking /\ job[Save].pc = "idle" /\ Budget
    /\ \E pc \in {"asking", "sent"} : Ask(Save, form, pc)
    /\ UNCHANGED <<world, place, cache, form, acked, astray, faults, moves>>

(* Removals are alike: of the idle ones any single one will do. *)
Idle == {j \in Removal : job[j].pc = "idle"}
AskRemove ==
    /\ Table /\ Budget /\ Idle # {}
    /\ \E u \in OnScreen : Ask(CHOOSE j \in Idle : TRUE, u, "asking")
    /\ UNCHANGED <<world, place, cache, form, acked, astray, faults, moves>>

(* The dialog is answered. *)
Confirm(j) ==
    /\ job[j].pc = "asking"
    /\ \/ job' = [job EXCEPT ![j] = [@ EXCEPT !.pc = "sent"]]
       \/ job' = [job EXCEPT ![j] = NoJob]
    /\ UNCHANGED <<world, place, cache, form, acked, astray, faults, moves>>

-----------------------------------------------------------------------------
(* The writes, their answers and what the screen does with them. *)

(* The row of u becomes s. *)
Write(u, s) ==
    /\ role' = [role EXCEPT ![u] = s]
    /\ version' = version + 1 /\ UNCHANGED nuxt
    /\ astray' = (astray \/ \E f \in Filter : PageCount(f)' < PageCount(f))

Eldest == CHOOSE u \in Unborn : \A v \in Unborn : u <= v

(* What a write of target t does to the table. *)
Effect(j, t) ==
    \/ t = New /\ Unborn # {} /\ \E r \in Role : Write(Eldest, r)
    \/ t \in Existing /\ j = Save /\ \E r \in Role : Write(t, r)
    \/ t \in Existing /\ j # Save /\ Write(t, "gone")

Serve(j) ==
    /\ job[j].pc = "sent"
    /\ \/ /\ Effect(j, job[j].target)
          /\ job' = [job EXCEPT ![j] = [pc |-> "served", target |-> @.target, stamp |-> version', key |-> None]]
       \/ /\ job[j].target \notin Existing
          /\ job' = [job EXCEPT ![j] = [@ EXCEPT !.pc = "refused"]]
          /\ UNCHANGED <<world, astray>>
    /\ UNCHANGED <<place, cache, form, acked, faults, moves>>

OtherAdmin ==
    /\ Budget
    /\ \E j \in Job, t \in User \cup {New} : Effect(j, t)
    /\ UNCHANGED <<place, cache, job, form, acked, faults, moves>>

(* History: the answer to write n overtakes the pages on their way that the  *)
(* API read before it, of entries that are not shown or load for the first   *)
(* time; a page on its way to a shown entry that has data is cut off.        *)
Overtakes(n, k) == /\ fetch[k].pc = "read" /\ fetch[k].got.seen < n
                   /\ k # Shown \/ ~HasData(k)
Outrun(n) == [k \in Key |-> IF Overtakes(n, k) THEN [fetch[k] EXCEPT !.outrun = TRUE]
                                              ELSE fetch[k]]

(* Mutant: only the shown entry is invalidated. *)
Stale_ShownOnly == [fresh EXCEPT ![Shown] = FALSE]

Stale == [k \in Key |-> FALSE]

(* The answer to a write: every entry is invalidated, the shown one is       *)
(* fetched (anew, if it has data), and the job waits for it.  Jobs that      *)
(* waited for the fetch cut off are done; a save among them makes the Nuxt   *)
(* screen refetch once more, which cuts this one off too.                    *)
Acked(j) ==
    LET n    == job[j].stamp
        cut  == IF HasData(Shown) THEN Waiting({Shown}) ELSE {}
        done == cut \cup (IF nuxt /\ Save \in cut THEN {j} ELSE {})
    IN
    /\ job[j].pc = "served"
    /\ acked' = IF n > acked THEN n ELSE acked
    /\ fresh' = Stale
    /\ fetch' = Started(Outrun(n), Shown)
    /\ failed' = Cleared(Shown)
    /\ job' = [i \in Job |-> IF i \in done THEN NoJob
                             ELSE IF i = j THEN [job[j] EXCEPT !.pc = "settling", !.key = Shown]
                             ELSE job[i]]
    /\ form' = IF Save \in cut THEN None ELSE form
    /\ UNCHANGED <<world, place, data, astray, faults, moves>>

(* The API refused the write: a toast, and the form stays as it is. *)
Refused(j) ==
    /\ job[j].pc = "refused"
    /\ job' = [job EXCEPT ![j] = NoJob]
    /\ UNCHANGED <<world, place, cache, form, acked, astray, faults, moves>>

(* The request or its answer is lost: the same toast. *)
Lost(j) ==
    /\ job[j].pc \in {"sent", "served"} /\ faults < MaxFaults
    /\ faults' = faults + 1
    /\ job' = [job EXCEPT ![j] = NoJob]
    /\ UNCHANGED <<world, place, cache, form, acked, astray, moves>>

Clicks == Turn \/ Refine \/ Retry \/ Open \/ Cancel \/ Submit \/ AskRemove \/ \E j \in Job : Confirm(j)
List  == \E k \in Key : Read(k) \/ Arrive(k) \/ Fail(k)
Jobs  == \E j \in Job : Serve(j) \/ Acked(j) \/ Refused(j) \/ Lost(j)

Next == Clicks \/ List \/ Jobs \/ OtherAdmin

Spec == Init /\ [][Next]_vars

(* The API serves what it is sent and its answers come; nobody need click. *)
Fairness ==
    /\ \A k \in Key : WF_vars(Read(k)) /\ WF_vars(Arrive(k))
    /\ \A j \in Job : WF_vars(Serve(j)) /\ WF_vars(Acked(j)) /\ WF_vars(Refused(j))
FairSpec == Spec /\ Fairness

-----------------------------------------------------------------------------
(* Properties. *)

AtRest(k) == HasData(k) /\ ~Fetching(k) /\ ~failed[k]

(* The inductive invariant.  A page that was read or loaded without being    *)
(* overtaken, and not invalidated since, has seen every acknowledged write.  *)
PagesOK ==
    \A k \in Key :
        /\ fetch[k].pc = "read" => /\ fetch[k].got \in Snap
                                  /\ (fetch[k].outrun \/ fetch[k].got.seen >= acked)
        /\ fresh[k] => HasData(k) /\ (data[k].outrun \/ data[k].seen >= acked)
ShownOK ==
    /\ AtRest(Shown) => fresh[Shown]
    /\ last # None => HasData(last)
(* Nobody waits for a fetch that is not under way. *)
JobsOK ==
    /\ acked <= version
    /\ \A j \in Job : /\ job[j].stamp <= version
                      /\ job[j].pc = "settling" => job[j].key \in Key /\ Fetching(job[j].key)
ScreenInv == TypeOK /\ PagesOK /\ ShownOK /\ JobsOK

(* A page the screen shows at rest has seen every write whose answer this   *)
(* administrator has been given, unless that answer overtook it on its way  *)
(* to an entry not shown or still empty: invalidation and the wait for the  *)
(* refetch in useApiMutation.onSuccess, over all entries and turns.         *)
ReadYourWrites ==
    AtRest(Shown) /\ ~data[Shown].outrun => data[Shown].seen >= acked

(* Nobody is left on an empty page beyond the end of a list, with the pager *)
(* gone, unless the list shrank or the pager of another list led there: the *)
(* page starts over with every filter, search term and sort order.          *)
PagesExist ==
    AtRest(Shown) /\ page > 1 /\ data[Shown].rows = {} => astray

(* The inductive invariant behind it.  As long as no list has shrunk, a page  *)
(* that was turned to is there still, so whatever is read for it has rows.    *)
Filled(d, k) == d.pages <= PageCount(k[1]) /\ (k[2] > 1 => d.rows # {})
ListsOK ==
    ~astray =>
        /\ page <= PageCount(filter)
        /\ \A k \in Key :
              /\ Fetching(k) => k[2] <= PageCount(k[1])
              /\ fetch[k].pc = "read" => Filled(fetch[k].got, k)
              /\ HasData(k) => Filled(data[k], k)

(* A save or a removal that was sent comes to an end, whichever list request *)
(* it waits for and however that one ends (mutateAsync awaits onSuccess).   *)
JobsSettle == \A j \in Job : job[j].pc = "sent" ~> job[j].pc = "idle"

=============================================================================
