----------------------------- MODULE Notifications -----------------------------
(***************************************************************************)
(* The notifications of one user: the table behind NotificationsService and *)
(* the bell that shows them, in the Nuxt front end (stores/notifications.ts, *)
(* NotificationPanel.vue) or the Next one (use-notifications.ts,            *)
(* notification-panel.tsx).  The two differ in when they fetch and in when  *)
(* they patch the list on the screen:                                       *)
(*   Nuxt fetches when the panel opens, until a fetch has succeeded, and     *)
(*   patches the list when the API has answered a mark;                      *)
(*   Next fetches when the bell is mounted and the list is stale, and patches *)
(*   it at the click, with no way back if the mark is lost.                  *)
(* A list is two statements of the API and a mark up to two; fetches, marks, *)
(* new notifications and the user's other devices interleave.               *)
(***************************************************************************)
EXTENDS Naturals, FiniteSets

CONSTANTS
    Notes,         \* notifications are numbered in the order they are created
    InitialNotes,  \* how many there are at first
    Limit,         \* rows of a list (50 in the code)
    Fetch,         \* bound: list requests of the Nuxt bell that overlap
    Tap,           \* bound: marks that overlap
    MaxMoves,      \* bound: clicks and mounts
    MaxFaults,     \* bound: requests or answers lost
    MaxOthers,     \* bound: marks of other devices
    All,           \* the target of "mark all as read"
    None

Note == 1 .. Notes

ASSUME NotesAssumption ==
    /\ Notes \in Nat /\ InitialNotes \in 0 .. Notes /\ Limit \in Nat \ {0}
    /\ MaxMoves \in Nat /\ MaxFaults \in Nat /\ MaxOthers \in Nat
    /\ All \notin Note /\ None \notin Note \cup {All}

VARIABLES
    nuxt,      \* is it the Nuxt bell
    row,       \* the table: "unborn", "unread" or "read"
    open,      \* is the panel open
    loading,   \* Nuxt: the loading flag, which hides the rows
    list,      \* what the bell shows, or None
    fetch,     \* list requests on their way
    mark,      \* marks on their way
    late,      \* history: created after a read-all was served, before its answer
    lost,      \* history: named by a mark that did not reach the table
    done,      \* history: named by a mark that was answered
    crossed,   \* history: named by a mark under way together with a fetch
    moves, faults, others

world   == <<nuxt, row>>
screen  == <<open, loading, list>>
history == <<late, lost, done, crossed>>
bounds  == <<moves, faults, others>>
vars    == <<world, screen, fetch, mark, history, bounds>>

(* beyond, torn and twice are history: unread notifications past the Limit; *)
(* were rows and count read from different states of the table; has a       *)
(* notification that showed as read been marked again.                      *)
List == [rows : SUBSET Note, read : SUBSET Note, unread : Nat, beyond : Nat,
         torn : BOOLEAN, twice : BOOLEAN]
(* own is the count of the state of the table the rows were read from. *)
Rows == [rows : SUBSET Note, read : SUBSET Note, own : Nat]
FetchState == [pc : {"none", "sent"}, got : Rows \cup {None}, count : Nat \cup {None}]
MarkState  == [pc : {"idle", "sent", "selected", "served"}, target : Note \cup {All, None}]

NoFetch   == [pc |-> "none", got |-> None, count |-> None]
SentFetch == [pc |-> "sent", got |-> None, count |-> None]
NoMark    == [pc |-> "idle", target |-> None]

ASSUME NoList == None \notin List \cup Rows \cup Nat

TypeOK ==
    /\ nuxt \in BOOLEAN
    /\ row \in [Note -> {"unborn", "unread", "read"}]
    /\ open \in BOOLEAN /\ loading \in BOOLEAN
    /\ list \in List \cup {None}
    /\ fetch \in [Fetch -> FetchState]
    /\ mark \in [Tap -> MarkState]
    /\ late \subseteq Note /\ lost \subseteq Note /\ done \subseteq Note /\ crossed \subseteq Note
    /\ moves \in Nat /\ faults \in Nat /\ others \in Nat

Born        == {n \in Note : row[n] # "unborn"}
Unread      == {n \in Note : row[n] = "unread"}
Named(x)    == IF x = All THEN Note ELSE {x}
Fetching    == \E f \in Fetch : fetch[f].pc = "sent"
Marking     == {t \in Tap : mark[t].pc # "idle"}
UnderWay(n) == \E t \in Tap : mark[t].pc \in {"sent", "selected"} /\ mark[t].target \in {n, All}

Newest == {n \in Born : Cardinality({m \in Born : m > n}) < Limit}

Less(a, b) == IF a > b THEN a - b ELSE 0

Init ==
    /\ nuxt \in BOOLEAN
    /\ row \in [Note -> {"unborn", "unread", "read"}]
    /\ \A n \in Note : row[n] = "unborn" <=> n > InitialNotes
    /\ open = FALSE /\ loading = FALSE /\ list = None
    /\ \E f \in Fetch : fetch = [g \in Fetch |-> IF g = f /\ ~nuxt THEN SentFetch ELSE NoFetch]
    /\ mark = [t \in Tap |-> NoMark]
    /\ late = {} /\ lost = {} /\ done = {} /\ crossed = {}
    /\ moves = 0 /\ faults = 0 /\ others = 0

-----------------------------------------------------------------------------
(* The bell: its panel and its fetches. *)

Move == moves < MaxMoves /\ moves' = moves + 1

(* A fetch starts: every mark under way now crosses it. *)
Start ==
    /\ \E f \in Fetch : fetch[f].pc = "none" /\ fetch' = [fetch EXCEPT ![f] = SentFetch]
    /\ crossed' = crossed \cup UNION {Named(mark[t].target) : t \in Marking}

(* The Nuxt bell fetches when the panel opens, unless it has a list. *)
Open ==
    /\ ~open /\ open' = TRUE
    /\ IF nuxt /\ list = None
       THEN Start /\ loading' = TRUE
       ELSE UNCHANGED <<fetch, crossed, loading>>
    /\ Move
    /\ UNCHANGED <<world, list, mark, late, lost, done, faults, others>>

Close ==
    /\ open /\ open' = FALSE
    /\ UNCHANGED <<world, loading, list, fetch, mark, history, bounds>>

(* The Next bell is mounted again, or the network is back, and time has made *)
(* the list stale; a fetch already on its way is shared.                     *)
Remount ==
    /\ ~nuxt /\ ~Fetching
    /\ Start /\ Move
    /\ UNCHANGED <<world, screen, mark, late, lost, done, faults, others>>

(* The API selects the rows of a list, and counts, in either order. *)
SelectRows(f) ==
    /\ fetch[f].pc = "sent" /\ fetch[f].got = None
    /\ fetch' = [fetch EXCEPT ![f].got = [rows |-> Newest, read |-> Newest \ Unread,
                                          own |-> Cardinality(Unread)]]
    /\ UNCHANGED <<world, screen, mark, history, bounds>>

SelectCount(f) ==
    /\ fetch[f].pc = "sent" /\ fetch[f].count = None
    /\ fetch' = [fetch EXCEPT ![f].count = Cardinality(Unread)]
    /\ UNCHANGED <<world, screen, mark, history, bounds>>

Arrive(f) ==
    LET got == fetch[f].got
        n   == fetch[f].count
    IN
    /\ fetch[f].pc = "sent" /\ got # None /\ n # None
    /\ list' = [rows |-> got.rows, read |-> got.read, unread |-> n, twice |-> FALSE,
                beyond |-> Less(got.own, Cardinality(got.rows \ got.read)),
                torn |-> n # got.own]
    /\ fetch' = [fetch EXCEPT ![f] = NoFetch]
    /\ loading' = FALSE
    /\ UNCHANGED <<world, open, mark, history, bounds>>

(* A fetch fails, its retry included: the bell stays as it is. *)
FailFetch(f) ==
    /\ fetch[f].pc = "sent" /\ faults < MaxFaults
    /\ fetch' = [fetch EXCEPT ![f] = NoFetch]
    /\ loading' = FALSE /\ faults' = faults + 1
    /\ UNCHANGED <<world, open, list, mark, history, moves, others>>

-----------------------------------------------------------------------------
(* Marks. *)

(* Mutant: the Nuxt store takes one off the count for a read row, too. *)
MarkedRead_Always(n) ==
    IF n \in list.rows
    THEN [list EXCEPT !.read = @ \cup {n}, !.unread = Less(@, 1)]
    ELSE list

(* The Nuxt store, when the API has answered the mark of n. *)
MarkedRead(n) ==
    IF n \in list.rows \ list.read
    THEN [list EXCEPT !.read = @ \cup {n}, !.unread = Less(@, 1)]
    ELSE list

MarkedAllRead == [list EXCEPT !.read = list.rows, !.unread = 0, !.beyond = 0, !.torn = FALSE]

(* The Next client, at the click: a single one is counted off though it may  *)
(* have been read before; of all, those are that were not.                   *)
Patched(x) ==
    LET hits == IF x = All THEN list.rows \ list.read ELSE {x} \cap list.rows IN
    [list EXCEPT !.read = @ \cup hits, !.unread = Less(@, Cardinality(hits)),
                 !.twice = @ \/ x \in list.read]

(* The rows are shown, and each can be clicked, read or not; "mark all as   *)
(* read" is shown while the count is above zero.                            *)
Clickable == IF list = None \/ ~open THEN {}
             ELSE (IF loading THEN {} ELSE list.rows) \cup IF list.unread > 0 THEN {All} ELSE {}

Send(x) == \E t \in Tap : mark[t].pc = "idle" /\ mark' = [mark EXCEPT ![t] = [pc |-> "sent", target |-> x]]

(* Mutant: the Nuxt store patches at the click, too. *)
Click_Early(x) ==
    /\ x \in Clickable /\ Move
    /\ Send(x)
    /\ list' = Patched(x)
    /\ crossed' = IF Fetching THEN crossed \cup Named(x) ELSE crossed
    /\ UNCHANGED <<world, open, loading, fetch, late, lost, done, faults, others>>

(* Mutant: the Next client patches and does not send. *)
Click_Unsent(x) ==
    /\ x \in Clickable /\ Move
    /\ IF nuxt THEN Send(x) ELSE UNCHANGED mark
    /\ list' = IF nuxt THEN list ELSE Patched(x)
    /\ crossed' = IF Fetching THEN crossed \cup Named(x) ELSE crossed
    /\ UNCHANGED <<world, open, loading, fetch, late, lost, done, faults, others>>

Click(x) ==
    /\ x \in Clickable /\ Move
    /\ Send(x)
    /\ list' = IF nuxt THEN list ELSE Patched(x)
    /\ crossed' = IF Fetching THEN crossed \cup Named(x) ELSE crossed
    /\ UNCHANGED <<world, open, loading, fetch, late, lost, done, faults, others>>

(* Mutant: markRead returns early when there is something to do. *)
SelectNote_Inverted(t) ==
    /\ mark[t].pc = "sent" /\ mark[t].target \in Note
    /\ mark' = [mark EXCEPT ![t].pc = IF row[mark[t].target] = "read" THEN "selected" ELSE "served"]
    /\ UNCHANGED <<world, screen, fetch, history, bounds>>

(* markRead looks first, and returns if the notification is read already. *)
SelectNote(t) ==
    /\ mark[t].pc = "sent" /\ mark[t].target \in Note
    /\ mark' = [mark EXCEPT ![t].pc = IF row[mark[t].target] = "read" THEN "served" ELSE "selected"]
    /\ UNCHANGED <<world, screen, fetch, history, bounds>>

UpdateNote(t) ==
    /\ mark[t].pc = "selected"
    /\ row' = [row EXCEPT ![mark[t].target] = "read"]
    /\ mark' = [mark EXCEPT ![t].pc = "served"]
    /\ UNCHANGED <<nuxt, screen, fetch, history, bounds>>

AllRead == [n \in Note |-> IF row[n] = "unread" THEN "read" ELSE row[n]]

UpdateAll(t) ==
    /\ mark[t].pc = "sent" /\ mark[t].target = All
    /\ row' = AllRead
    /\ mark' = [mark EXCEPT ![t].pc = "served"]
    /\ UNCHANGED <<nuxt, screen, fetch, history, bounds>>

Answer(t) ==
    LET x == mark[t].target IN
    /\ mark[t].pc = "served"
    /\ mark' = [mark EXCEPT ![t] = NoMark]
    /\ done' = done \cup ((Named(x) \cap Born) \ late)
    /\ list' = IF list = None \/ ~nuxt THEN list
               ELSE IF x = All THEN MarkedAllRead ELSE MarkedRead(x)
    /\ UNCHANGED <<world, open, loading, fetch, late, lost, crossed, bounds>>

(* The request, one of its statements or its answer is lost: silence. *)
Lose(t) ==
    /\ mark[t].pc # "idle" /\ faults < MaxFaults
    /\ faults' = faults + 1
    /\ mark' = [mark EXCEPT ![t] = NoMark]
    /\ lost' = IF mark[t].pc = "served" THEN lost ELSE lost \cup (Named(mark[t].target) \cap Born)
    /\ UNCHANGED <<world, screen, fetch, late, done, crossed, moves, others>>

-----------------------------------------------------------------------------
(* The rest of the world. *)

(* A notification is created. *)
Create ==
    /\ \E n \in Note : /\ row[n] = "unborn" /\ \A m \in Note : row[m] = "unborn" => n <= m
                       /\ row' = [row EXCEPT ![n] = "unread"]
                       /\ late' = IF \E t \in Tap : mark[t].pc = "served" /\ mark[t].target = All
                                  THEN late \cup {n} ELSE late
    /\ UNCHANGED <<nuxt, screen, fetch, mark, lost, done, crossed, bounds>>

(* The user's other devices. *)
OtherDevice ==
    /\ others < MaxOthers /\ others' = others + 1
    /\ \/ row' = AllRead
       \/ \E n \in Unread : row' = [row EXCEPT ![n] = "read"]
    /\ UNCHANGED <<nuxt, screen, fetch, mark, history, moves, faults>>

Bell   == Open \/ Close \/ Remount \/ \E x \in Note \cup {All} : Click(x)
Lists  == \E f \in Fetch : SelectRows(f) \/ SelectCount(f) \/ Arrive(f) \/ FailFetch(f)
Marks  == \E t \in Tap : SelectNote(t) \/ UpdateNote(t) \/ UpdateAll(t) \/ Answer(t) \/ Lose(t)

Next == Bell \/ Lists \/ Marks \/ Create \/ OtherDevice

Spec == Init /\ [][Next]_vars

(* The API works off what it is sent; nobody need click or answer. *)
Fairness == \A t \in Tap : WF_vars(SelectNote(t)) /\ WF_vars(UpdateNote(t)) /\ WF_vars(UpdateAll(t))
FairSpec == Spec /\ Fairness

-----------------------------------------------------------------------------
(* Properties. *)

IsRead(n) == row[n] = "read"

(* The inductive invariant.  What a fetch carries as read is read, what a     *)
(* served mark names is read, and so is what the bell shows as read, but for  *)
(* the Next client's marks under way or lost, and for notifications that came *)
(* between a read-all and its answer.                                         *)
FetchesOK ==
    \A f \in Fetch : fetch[f].got # None =>
        /\ fetch[f].pc = "sent"
        /\ fetch[f].got.read \subseteq fetch[f].got.rows /\ fetch[f].got.rows \subseteq Born
        /\ fetch[f].got.own >= Cardinality(fetch[f].got.rows \ fetch[f].got.read)
        /\ \A n \in fetch[f].got.read : IsRead(n)
MarksOK ==
    \A t \in Tap :
        /\ mark[t].pc # "idle" => mark[t].target = All \/ mark[t].target \in Born
        /\ mark[t].pc = "selected" => mark[t].target # All
        /\ mark[t].pc = "served" => \A n \in Named(mark[t].target) \cap Born :
                                         IsRead(n) \/ (n \in late /\ mark[t].target = All)
ShownOK ==
    list # None => /\ list.read \subseteq list.rows /\ list.rows \subseteq Born
                   /\ \A n \in list.read : IsRead(n) \/ n \in late
                                           \/ (~nuxt /\ (UnderWay(n) \/ n \in lost))
(* A mark crosses the fetches that are under way with it, and no others can   *)
(* carry as unread what it names.                                             *)
CrossingOK ==
    /\ \A n \in done : IsRead(n)
    /\ \A f \in Fetch, t \in Tap : fetch[f].pc = "sent" /\ mark[t].pc # "idle" =>
           Named(mark[t].target) \subseteq crossed
    /\ \A f \in Fetch : fetch[f].got # None =>
           done \cap fetch[f].got.rows \subseteq fetch[f].got.read \cup crossed
    /\ list # None /\ ~nuxt => \A t \in Tap : mark[t].pc # "idle" =>
           Named(mark[t].target) \cap list.rows \subseteq list.read \cup crossed
NotesInv == TypeOK /\ FetchesOK /\ MarksOK /\ ShownOK /\ CrossingOK

(* The dot of the bell and the rows agree: the count is that of the rows      *)
(* shown as unread and of those past the limit, through marks, answers and    *)
(* refetches in any order, unless the two statements of a list saw different  *)
(* states of the table or, in Next, a row that showed as read was clicked.    *)
BadgeCounts ==
    list # None /\ ~list.torn /\ ~list.twice =>
        list.unread = Cardinality(list.rows \ list.read) + list.beyond

(* A notification whose mark was answered never shows as unread again,        *)
(* however often the list is fetched, unless a fetch was under way with the   *)
(* mark: what that fetch carries may be older.                                *)
OwnMarksShow ==
    list # None => done \cap list.rows \subseteq list.read \cup crossed

(* What the bell shows as read is read in the table in the end, unless the    *)
(* mark was lost or the notification came in the middle of a read-all.        *)
ReadInTheEnd ==
    \A n \in Note : (list # None /\ n \in list.read) ~> (IsRead(n) \/ n \in lost \cup late)

=============================================================================
