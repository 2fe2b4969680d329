-------------------------- MODULE NotificationsProofs --------------------------
(***************************************************************************)
(* NotesInv is inductive for any number of notifications, overlapping       *)
(* fetches and marks, and OwnMarksShow and BadgeCounts follow, the latter   *)
(* by an induction of its own beside it.                                    *)
(***************************************************************************)
EXTENDS Notifications, FiniteSetTheorems, TLAPS

USE DEF Note

LEMMA Finite == ASSUME NotesAssumption, NEW S \in SUBSET Note PROVE IsFiniteSet(S) /\ Cardinality(S) \in Nat
<1>1. IsFiniteSet(Note)
    BY FS_Interval DEF NotesAssumption
<1>2. IsFiniteSet(S)
    BY <1>1, FS_Subset
<1> QED BY <1>2, FS_CardinalityType

LEMMA Subsets ==
    ASSUME TypeOK
    PROVE  Born \subseteq Note /\ Unread \subseteq Born /\ Newest \subseteq Born
           /\ \A n \in Born : n \in Unread \/ IsRead(n)
BY DEF TypeOK, Born, Unread, Newest, IsRead

(* What the steps do to the type; one lemma per group of actions. *)

LEMMA Starts ==
    ASSUME NotesAssumption, NotesInv, Start
    PROVE  /\ fetch' \in [Fetch -> FetchState] /\ crossed' \subseteq Note
           /\ crossed \subseteq crossed'
           /\ \A t \in Tap : mark[t].pc # "idle" => Named(mark[t].target) \subseteq crossed'
           /\ \A f \in Fetch : fetch'[f] = fetch[f] \/ fetch'[f] = SentFetch
<1>1. PICK g \in Fetch : fetch' = [fetch EXCEPT ![g] = SentFetch]
    BY DEF Start
<1>2. SentFetch \in FetchState
    BY DEF SentFetch, FetchState
<1>3. crossed' = crossed \cup UNION {Named(mark[t].target) : t \in Marking}
    BY DEF Start
<1>4. \A t \in Marking : Named(mark[t].target) \subseteq Note
    BY DEF NotesInv, MarksOK, Marking, Named, Born
<1>5. crossed' \subseteq Note /\ crossed \subseteq crossed'
    <2>1. crossed \subseteq Note
        BY DEF NotesInv, TypeOK
    <2>2. \A n \in crossed' : n \in crossed \/ \E t \in Marking : n \in Named(mark[t].target)
        BY <1>3
    <2>3. \A n \in crossed : n \in crossed'
        BY <1>3
    <2> QED BY <2>1, <2>2, <2>3, <1>4
<1>6. \A t \in Tap : mark[t].pc # "idle" => Named(mark[t].target) \subseteq crossed'
    BY <1>3 DEF Marking
<1>7. fetch' \in [Fetch -> FetchState] /\ \A f \in Fetch : fetch'[f] = fetch[f] \/ fetch'[f] = SentFetch
    BY <1>1, <1>2 DEF NotesInv, TypeOK
<1> QED BY <1>5, <1>6, <1>7

(* Steps of the bell that leave table, marks and list alone: those that start *)
(* a fetch, and those that do not.                                            *)
LEMMA Turning ==
    ASSUME NotesAssumption, NotesInv,
           Start \/ UNCHANGED <<fetch, crossed>>,
           UNCHANGED <<world, list, mark, late, lost, done>>,
           open' \in BOOLEAN, loading' \in BOOLEAN,
           moves' \in Nat, faults' \in Nat, others' \in Nat
    PROVE  NotesInv'
<1> USE DEF NotesInv, world
<1>1. /\ fetch' \in [Fetch -> FetchState] /\ crossed' \subseteq Note
      /\ crossed \subseteq crossed'
      /\ \A f \in Fetch : fetch'[f] = fetch[f] \/ fetch'[f] = SentFetch
    BY Starts DEF TypeOK
<1>2. \A f \in Fetch, t \in Tap : fetch'[f].pc = "sent" /\ mark[t].pc # "idle" =>
          Named(mark[t].target) \subseteq crossed'
    BY Starts, <1>1 DEF CrossingOK
<1>3. TypeOK'
    BY <1>1 DEF TypeOK
<1> DEFINE Carries(f) == fetch'[f].got # None
<1>0. \A f \in Fetch : Carries(f) => fetch'[f] = fetch[f] /\ fetch[f].got # None
    BY <1>1 DEF SentFetch
<1> HIDE DEF Carries
<1>4. FetchesOK'
    <2>1. \A f \in Fetch : Carries(f) =>
        /\ fetch'[f].pc = "sent"
        /\ fetch'[f].got.read \subseteq fetch'[f].got.rows /\ fetch'[f].got.rows \subseteq Born'
        /\ fetch'[f].got.own >= Cardinality(fetch'[f].got.rows \ fetch'[f].got.read)
        /\ \A n \in fetch'[f].got.read : IsRead(n)'
        BY <1>0 DEF FetchesOK, Born, IsRead
    <2> QED BY <2>1 DEF FetchesOK, Carries
<1>5. MarksOK'
    BY DEF MarksOK, Born, Named, IsRead
<1>6. ShownOK'
    BY DEF ShownOK, Born, IsRead, UnderWay
<1>7. CrossingOK'
    <2>1. \A n \in done' : IsRead(n)'
        BY DEF CrossingOK, IsRead
    <2>2. \A f \in Fetch : fetch'[f].got # None =>
              done' \cap fetch'[f].got.rows \subseteq fetch'[f].got.read \cup crossed'
        BY <1>0, <1>1 DEF CrossingOK, Carries
    <2>3. list' # None /\ ~nuxt' => \A t \in Tap : mark'[t].pc # "idle" =>
              Named(mark'[t].target) \cap list'.rows \subseteq list'.read \cup crossed'
        BY <1>1 DEF CrossingOK
    <2> QED BY <1>2, <2>1, <2>2, <2>3 DEF CrossingOK, Named
<1> QED BY <1>3, <1>4, <1>5, <1>6, <1>7

(* The entry of one fetch becomes v, and nothing but flags and bounds change. *)
LEMMA Serving ==
    ASSUME NotesAssumption, NotesInv, NEW g \in Fetch, NEW v \in FetchState,
           fetch' = [fetch EXCEPT ![g] = v],
           v.pc = "sent" => fetch[g].pc = "sent",
           v.got # None =>
               /\ v.pc = "sent"
               /\ v.got.read \subseteq v.got.rows /\ v.got.rows \subseteq Born
               /\ v.got.own >= Cardinality(v.got.rows \ v.got.read)
               /\ \A n \in v.got.read : IsRead(n)
               /\ done \cap v.got.rows \subseteq v.got.read \cup crossed,
           UNCHANGED <<world, list, mark, history>>,
           open' \in BOOLEAN, loading' \in BOOLEAN,
           moves' \in Nat, faults' \in Nat, others' \in Nat
    PROVE  NotesInv'
<1> USE DEF NotesInv, world, history
<1>1. fetch' \in [Fetch -> FetchState] /\ \A f \in Fetch : fetch'[f] = IF f = g THEN v ELSE fetch[f]
    BY DEF TypeOK
<1>2. TypeOK'
    BY <1>1 DEF TypeOK
<1>3. FetchesOK'
    <2>1. ASSUME NEW f \in Fetch, fetch'[f].got # None
          PROVE  /\ fetch'[f].pc = "sent"
                 /\ fetch'[f].got.read \subseteq fetch'[f].got.rows /\ fetch'[f].got.rows \subseteq Born
                 /\ fetch'[f].got.own >= Cardinality(fetch'[f].got.rows \ fetch'[f].got.read)
                 /\ \A n \in fetch'[f].got.read : IsRead(n)
        <3>1. CASE f = g
            BY <1>1, <2>1, <3>1
        <3>2. CASE f # g
            BY <1>1, <2>1, <3>2 DEF FetchesOK
        <3> QED BY <3>1, <3>2
    <2> QED BY <2>1 DEF FetchesOK, Born, IsRead
<1>4. MarksOK'
    BY DEF MarksOK, Born, Named, IsRead
<1>5. ShownOK'
    BY DEF ShownOK, Born, IsRead, UnderWay
<1>6. CrossingOK'
    <2>1. \A n \in done' : IsRead(n)'
        BY DEF CrossingOK, IsRead
    <2>2. \A f \in Fetch, t \in Tap : fetch'[f].pc = "sent" /\ mark[t].pc # "idle" =>
              Named(mark[t].target) \subseteq crossed
        BY <1>1 DEF CrossingOK
    <2>3. \A f \in Fetch : fetch'[f].got # None =>
              done \cap fetch'[f].got.rows \subseteq fetch'[f].got.read \cup crossed
        BY <1>1 DEF CrossingOK
    <2>4. list # None /\ ~nuxt => \A t \in Tap : mark[t].pc # "idle" =>
              Named(mark[t].target) \cap list.rows \subseteq list.read \cup crossed
        BY DEF CrossingOK
    <2> QED BY <2>1, <2>2, <2>3, <2>4 DEF CrossingOK, Named
<1> QED BY <1>2, <1>3, <1>4, <1>5, <1>6

LEMMA Selecting ==
    ASSUME NotesAssumption, NoList, NotesInv, NEW f \in Fetch,
           SelectRows(f) \/ SelectCount(f) \/ FailFetch(f)
    PROVE  NotesInv'
<1> USE DEF NotesInv
<1>0. fetch[f] \in FetchState /\ Cardinality(Unread) \in Nat
    BY Subsets, Finite DEF TypeOK
<1>1. CASE SelectRows(f)
    <2> DEFINE r == [rows |-> Newest, read |-> Newest \ Unread, own |-> Cardinality(Unread)]
               v == [fetch[f] EXCEPT !.got = r]
    <2>1. r \in Rows
        BY <1>0, Subsets DEF Rows
    <2>2. v \in FetchState /\ v.pc = "sent" /\ v.got = r
        BY <1>0, <1>1, <2>1 DEF FetchState, SelectRows
    <2>3. Cardinality(Unread) >= Cardinality(r.rows \ r.read)
        <3>1. r.rows \ r.read \subseteq Unread /\ IsFiniteSet(Unread)
            BY Subsets, Finite
        <3>2. Cardinality(r.rows \ r.read) <= Cardinality(Unread)
            BY <3>1, FS_Subset
        <3>3. Cardinality(r.rows \ r.read) \in Nat
            BY Subsets, Finite
        <3> QED BY <1>0, <3>2, <3>3
    <2>4. \A n \in r.read : IsRead(n)
        BY Subsets
    <2>5. done \cap r.rows \subseteq r.read \cup crossed
        BY DEF CrossingOK, IsRead, Unread
    <2>6. r.rows \subseteq Born /\ r.read \subseteq r.rows /\ r.own = Cardinality(Unread)
        BY Subsets
    <2>7. fetch' = [fetch EXCEPT ![f] = v] /\ fetch[f].pc = "sent"
          /\ UNCHANGED <<world, screen, mark, history, bounds>>
        BY <1>1 DEF SelectRows
    <2>8. v.got # None =>
               /\ v.pc = "sent"
               /\ v.got.read \subseteq v.got.rows /\ v.got.rows \subseteq Born
               /\ v.got.own >= Cardinality(v.got.rows \ v.got.read)
               /\ \A n \in v.got.read : IsRead(n)
               /\ done \cap v.got.rows \subseteq v.got.read \cup crossed
        <3> HIDE DEF r, v
        <3> QED BY <2>2, <2>3, <2>4, <2>5, <2>6
    <2> HIDE DEF v
    <2> QED BY <2>2, <2>7, <2>8, Serving DEF screen, bounds, TypeOK
<1>2. CASE SelectCount(f)
    <2> DEFINE v == [fetch[f] EXCEPT !.count = Cardinality(Unread)]
    <2>1. v \in FetchState /\ v.pc = "sent" /\ v.got = fetch[f].got
        BY <1>0, <1>2 DEF FetchState, SelectCount
    <2>2. fetch' = [fetch EXCEPT ![f] = v] /\ fetch[f].pc = "sent"
          /\ UNCHANGED <<world, screen, mark, history, bounds>>
        BY <1>2 DEF SelectCount
    <2> HIDE DEF v
    <2>3. v.got # None =>
               /\ v.pc = "sent"
               /\ v.got.read \subseteq v.got.rows /\ v.got.rows \subseteq Born
               /\ v.got.own >= Cardinality(v.got.rows \ v.got.read)
               /\ \A n \in v.got.read : IsRead(n)
               /\ done \cap v.got.rows \subseteq v.got.read \cup crossed
        BY <2>1 DEF FetchesOK, CrossingOK
    <2> QED BY <2>1, <2>2, <2>3, Serving DEF screen, bounds, TypeOK
<1>3. CASE FailFetch(f)
    <2>1. NoFetch \in FetchState /\ NoFetch.pc # "sent" /\ NoFetch.got = None
        BY DEF NoFetch, FetchState
    <2>2. /\ fetch' = [fetch EXCEPT ![f] = NoFetch] /\ loading' = FALSE /\ faults' \in Nat
          /\ UNCHANGED <<world, open, list, mark, history, moves, others>>
        BY <1>3 DEF FailFetch, TypeOK
    <2> QED BY <2>1, <2>2, Serving DEF TypeOK
<1> QED BY <1>1, <1>2, <1>3

(* A list arrives: what the fetch carried is what the bell shows. *)
LEMMA Arriving ==
    ASSUME NotesAssumption, NoList, NotesInv, NEW f \in Fetch, Arrive(f) PROVE NotesInv'
<1> USE DEF NotesInv
<1> DEFINE got == fetch[f].got
           v == [rows |-> got.rows, read |-> got.read, unread |-> fetch[f].count, twice |-> FALSE,
                 beyond |-> Less(got.own, Cardinality(got.rows \ got.read)),
                 torn |-> fetch[f].count # got.own]
<1>1. /\ fetch[f].pc = "sent" /\ got # None /\ fetch[f].count # None /\ list' = v
      /\ fetch' = [fetch EXCEPT ![f] = NoFetch] /\ loading' = FALSE
      /\ UNCHANGED <<world, open, mark, history, bounds>>
    BY DEF Arrive
<1>2. got \in Rows /\ fetch[f].count \in Nat
    BY <1>1 DEF TypeOK, FetchState
<1>3. v \in List
    <2>1. got.own \in Nat /\ Cardinality(got.rows \ got.read) \in Nat
        BY <1>2, Finite DEF Rows
    <2>2. Less(got.own, Cardinality(got.rows \ got.read)) \in Nat
        BY <2>1 DEF Less
    <2> QED BY <1>2, <2>2 DEF List, Rows
<1>4. /\ got.read \subseteq got.rows /\ got.rows \subseteq Born
      /\ \A n \in got.read : IsRead(n)
      /\ \A t \in Tap : mark[t].pc # "idle" => Named(mark[t].target) \subseteq crossed
    BY <1>1 DEF FetchesOK, CrossingOK
<1>5. v.rows = got.rows /\ v.read = got.read
    OBVIOUS
<1> HIDE DEF got, v
<1>6. NoFetch \in FetchState /\ NoFetch.pc # "sent" /\ NoFetch.got = None
    BY DEF NoFetch, FetchState
<1>7. fetch' \in [Fetch -> FetchState] /\ \A g \in Fetch : fetch'[g] = IF g = f THEN NoFetch ELSE fetch[g]
    BY <1>1, <1>6 DEF TypeOK
<1>8. TypeOK'
    BY <1>1, <1>3, <1>7 DEF TypeOK, world, history, bounds
<1>9. FetchesOK'
    <2>1. \A g \in Fetch : fetch'[g].got # None => fetch'[g] = fetch[g] /\ fetch[g].got # None
        BY <1>6, <1>7
    <2>2. UNCHANGED row
        BY <1>1 DEF world
    <2> QED BY <2>1, <2>2 DEF FetchesOK, Born, IsRead
<1>10. MarksOK'
    BY <1>1 DEF MarksOK, Born, Named, IsRead, world, history
<1>11. ShownOK'
    BY <1>1, <1>4, <1>5 DEF ShownOK, Born, IsRead, world
<1>12. CrossingOK'
    <2>1. \A n \in done' : IsRead(n)'
        BY <1>1 DEF CrossingOK, IsRead, world, history
    <2>2. \A g \in Fetch, t \in Tap : fetch'[g].pc = "sent" /\ mark[t].pc # "idle" =>
              Named(mark[t].target) \subseteq crossed
        BY <1>4
    <2>3. \A g \in Fetch : fetch'[g].got # None =>
              done \cap fetch'[g].got.rows \subseteq fetch'[g].got.read \cup crossed
        BY <1>6, <1>7 DEF CrossingOK
    <2>4. UNCHANGED <<nuxt, mark, done, crossed>>
        BY <1>1 DEF world, history
    <2> QED BY <1>4, <2>1, <2>2, <2>3, <2>4 DEF CrossingOK, Named
<1> QED BY <1>8, <1>9, <1>10, <1>11, <1>12

LEMMA Patching ==
    ASSUME NotesAssumption, TypeOK, list # None, NEW x \in {All} \cup list.rows
    PROVE  /\ Patched(x) \in List /\ Patched(x).rows = list.rows
           /\ list.read \subseteq Patched(x).read
           /\ Named(x) \cap list.rows \subseteq Patched(x).read
           /\ Patched(x).read \subseteq list.read \cup (Named(x) \cap list.rows)
<1>1. list \in List
    BY DEF TypeOK
<1> DEFINE hits == IF x = All THEN list.rows \ list.read ELSE {x} \cap list.rows
           k == Less(list.unread, Cardinality(hits))
           b == list.twice \/ x \in list.read
           v == [list EXCEPT !.read = @ \cup hits, !.unread = k, !.twice = b]
<1>2. hits \subseteq list.rows /\ hits \subseteq Note
    BY <1>1 DEF List
<1>3. Cardinality(hits) \in Nat
    BY <1>2, Finite
<1>4. k \in Nat /\ b \in BOOLEAN
    BY <1>1, <1>3 DEF List, Less
<1>5. Patched(x) = v
    BY DEF Patched
<1>6. Named(x) \cap list.rows \subseteq list.read \cup hits /\ hits \subseteq Named(x) \cap list.rows
    BY <1>1, <1>2 DEF Named, List, NotesAssumption
<1> HIDE DEF hits, k, b
<1>7. v \in List /\ v.rows = list.rows /\ v.read = list.read \cup hits
    BY <1>1, <1>2, <1>4 DEF List
<1> HIDE DEF v
<1> QED BY <1>5, <1>6, <1>7

(* A click: a mark is sent, and Next shows what it names as read. *)
LEMMA Clicking ==
    ASSUME NotesAssumption, NoList, NotesInv, NEW x \in Note \cup {All}, Click(x) PROVE NotesInv'
<1> USE DEF NotesInv
<1>1. /\ list # None /\ x \in {All} \cup list.rows
      /\ list' = IF nuxt THEN list ELSE Patched(x)
      /\ crossed' = IF Fetching THEN crossed \cup Named(x) ELSE crossed
      /\ moves' \in Nat
      /\ UNCHANGED <<world, open, loading, fetch, late, lost, done, faults, others>>
    BY DEF Click, Clickable, Move, TypeOK
<1> DEFINE m == [pc |-> "sent", target |-> x]
<1>2. PICK s \in Tap : mark[s].pc = "idle" /\ mark' = [mark EXCEPT ![s] = m]
    BY DEF Click, Send
<1>3. m \in MarkState /\ m.pc = "sent" /\ m.target = x
    BY DEF MarkState
<1> HIDE DEF m
<1>4. mark' \in [Tap -> MarkState] /\ \A t \in Tap : mark'[t] = IF t = s THEN m ELSE mark[t]
    BY <1>2, <1>3 DEF TypeOK
<1>5. /\ list' \in List /\ list'.rows = list.rows /\ list' # None
      /\ list.read \subseteq list'.read /\ (nuxt => list'.read = list.read)
      /\ ~nuxt => Named(x) \cap list.rows \subseteq list'.read
      /\ list'.read \subseteq list.read \cup (Named(x) \cap list.rows)
    <2>1. CASE nuxt
        BY <1>1, <2>1 DEF TypeOK
    <2>2. CASE ~nuxt
        <3>1. list' = Patched(x)
            BY <1>1, <2>2
        <3> QED BY <1>1, <2>2, <3>1, Patching DEF NoList
    <2> QED BY <2>1, <2>2
<1>6. Named(x) \subseteq Note /\ crossed' \subseteq Note /\ crossed \subseteq crossed'
    BY <1>1 DEF Named, TypeOK
<1>7. TypeOK'
    BY <1>1, <1>4, <1>5, <1>6 DEF TypeOK, world
<1>8. FetchesOK'
    BY <1>1 DEF FetchesOK, Born, IsRead, world
<1>9. MarksOK'
    <2>1. x = All \/ x \in Born
        BY <1>1 DEF ShownOK
    <2>2. ASSUME NEW t \in Tap
          PROVE  /\ mark'[t].pc # "idle" => mark'[t].target = All \/ mark'[t].target \in Born
                 /\ mark'[t].pc = "selected" => mark'[t].target # All
                 /\ mark'[t].pc = "served" => \A n \in Named(mark'[t].target) \cap Born :
                                         IsRead(n) \/ (n \in late /\ mark'[t].target = All)
        <3>1. CASE t = s
            BY <1>3, <1>4, <2>1, <3>1
        <3>2. CASE t # s
            BY <1>4, <3>2 DEF MarksOK
        <3> QED BY <3>1, <3>2
    <2>3. UNCHANGED <<row, late>>
        BY <1>1 DEF world
    <2> QED BY <2>2, <2>3 DEF MarksOK, Born, Named, IsRead
<1>10. ShownOK'
    <2>1. ASSUME NEW n, UnderWay(n) PROVE UnderWay(n)'
        <3>1. PICK t \in Tap : mark[t].pc \in {"sent", "selected"} /\ mark[t].target \in {n, All}
            BY <2>1 DEF UnderWay
        <3>2. mark'[t] = mark[t]
            BY <1>2, <1>4, <3>1
        <3> QED BY <3>1, <3>2 DEF UnderWay
    <2>2. \A n \in Named(x) : UnderWay(n)'
        BY <1>3, <1>4 DEF UnderWay, Named
    <2>3. ASSUME NEW n \in list'.read
          PROVE  IsRead(n) \/ n \in late \/ (~nuxt /\ (UnderWay(n)' \/ n \in lost))
        <3>1. CASE n \in list.read
            BY <1>1, <2>1, <3>1 DEF ShownOK
        <3>2. CASE n \notin list.read
            BY <1>5, <2>2, <2>3, <3>2
        <3> QED BY <3>1, <3>2
    <2>4. list'.read \subseteq list'.rows /\ list'.rows \subseteq Born
        BY <1>1, <1>5 DEF ShownOK
    <2>5. UNCHANGED <<nuxt, row, late, lost>>
        BY <1>1 DEF world
    <2> QED BY <2>3, <2>4, <2>5 DEF ShownOK, Born, IsRead
<1>11. CrossingOK'
    <2>0. UNCHANGED <<nuxt, row, done, fetch>>
        BY <1>1 DEF world
    <2>1. \A n \in done' : IsRead(n)'
        BY <2>0 DEF CrossingOK, IsRead
    <2>2. ASSUME NEW f \in Fetch, NEW t \in Tap, fetch[f].pc = "sent", mark'[t].pc # "idle"
          PROVE  Named(mark'[t].target) \subseteq crossed'
        <3>1. CASE t = s
            BY <1>1, <1>3, <1>4, <2>2, <3>1 DEF Fetching
        <3>2. CASE t # s
            BY <1>4, <1>6, <2>2, <3>2 DEF CrossingOK
        <3> QED BY <3>1, <3>2
    <2>3. \A f \in Fetch : fetch[f].got # None =>
              done \cap fetch[f].got.rows \subseteq fetch[f].got.read \cup crossed'
        BY <1>6 DEF CrossingOK
    <2>4. ASSUME ~nuxt, NEW t \in Tap, mark'[t].pc # "idle"
          PROVE  Named(mark'[t].target) \cap list'.rows \subseteq list'.read \cup crossed'
        <3>1. CASE t = s
            BY <1>3, <1>4, <1>5, <2>4, <3>1
        <3>2. CASE t # s
            BY <1>1, <1>4, <1>5, <1>6, <2>4, <3>2 DEF CrossingOK
        <3> QED BY <3>1, <3>2
    <2> QED BY <2>0, <2>1, <2>2, <2>3, <2>4 DEF CrossingOK, Named
<1> QED BY <1>7, <1>8, <1>9, <1>10, <1>11

(* The API serves a mark, or another device does as much: what is read stays *)
(* so, nothing is born, and m has been served only if what it names is read.  *)
LEMMA MarkServed ==
    ASSUME NotesAssumption, NotesInv, NEW s \in Tap, NEW q \in {"selected", "served"},
           mark[s].pc # "idle",
           mark' = [mark EXCEPT ![s] = [mark[s] EXCEPT !.pc = q]],
           q = "selected" => mark[s].target # All,
           q = "served" => \A n \in Named(mark[s].target) \cap Born : row'[n] = "read",
           row' \in [Note -> {"unborn", "unread", "read"}],
           \A n \in Note : (row[n] = "read" => row'[n] = "read") /\ (row'[n] = "unborn" <=> row[n] = "unborn"),
           UNCHANGED <<nuxt, screen, fetch, history, bounds>>
    PROVE  NotesInv'
<1> USE DEF NotesInv, screen, history, bounds
<1> DEFINE m == [mark[s] EXCEPT !.pc = q]
<1>1. m \in MarkState /\ m.pc = q /\ m.target = mark[s].target
    BY DEF TypeOK, MarkState
<1> HIDE DEF m
<1>2. mark' \in [Tap -> MarkState] /\ \A t \in Tap : mark'[t] = IF t = s THEN m ELSE mark[t]
    <2>1. mark' = [mark EXCEPT ![s] = m]
        BY DEF m
    <2> QED BY <1>1, <2>1 DEF TypeOK
<1>3. Born' = Born /\ \A n \in Note : IsRead(n) => IsRead(n)'
    BY DEF Born, IsRead
<1>4. TypeOK'
    BY <1>2 DEF TypeOK
<1>5. FetchesOK'
    BY <1>3 DEF FetchesOK, Born
<1>6. MarksOK'
    <2>1. ASSUME NEW t \in Tap
          PROVE  /\ mark'[t].pc # "idle" => mark'[t].target = All \/ mark'[t].target \in Born
                 /\ mark'[t].pc = "selected" => mark'[t].target # All
                 /\ mark'[t].pc = "served" => \A n \in Named(mark'[t].target) \cap Born :
                                         IsRead(n)' \/ (n \in late /\ mark'[t].target = All)
        <3>1. CASE t = s
            BY <1>1, <1>2, <3>1 DEF MarksOK, IsRead
        <3>2. CASE t # s
            BY <1>2, <1>3, <3>2 DEF MarksOK, Born
        <3> QED BY <3>1, <3>2
    <2> QED BY <1>3, <2>1 DEF MarksOK, Named
<1>7. ShownOK'
    <2>1. ASSUME NEW n \in Born, UnderWay(n) PROVE UnderWay(n)' \/ IsRead(n)'
        <3>1. PICK t \in Tap : mark[t].pc \in {"sent", "selected"} /\ mark[t].target \in {n, All}
            BY <2>1 DEF UnderWay
        <3>2. CASE t # s \/ q = "selected"
            BY <1>1, <1>2, <3>1, <3>2 DEF UnderWay
        <3>3. CASE t = s /\ q = "served"
            BY <3>1, <3>3 DEF Named, Born, IsRead
        <3> QED BY <3>2, <3>3
    <2> QED BY <1>3, <2>1 DEF ShownOK, Born
<1>8. CrossingOK'
    <2>1. \A n \in done : IsRead(n)'
        BY <1>3 DEF CrossingOK, TypeOK
    <2>2. \A t \in Tap : mark'[t].pc # "idle" => mark[t].pc # "idle" /\ mark'[t].target = mark[t].target
        BY <1>1, <1>2
    <2>3. \A f \in Fetch, t \in Tap : fetch[f].pc = "sent" /\ mark'[t].pc # "idle" =>
              Named(mark'[t].target) \subseteq crossed
        BY <2>2 DEF CrossingOK
    <2>4. list # None /\ ~nuxt => \A t \in Tap : mark'[t].pc # "idle" =>
              Named(mark'[t].target) \cap list.rows \subseteq list.read \cup crossed
        BY <2>2 DEF CrossingOK
    <2>5. \A f \in Fetch : fetch[f].got # None =>
              done \cap fetch[f].got.rows \subseteq fetch[f].got.read \cup crossed
        BY DEF CrossingOK
    <2> QED BY <2>1, <2>3, <2>4, <2>5 DEF CrossingOK, Named
<1> QED BY <1>4, <1>5, <1>6, <1>7, <1>8

LEMMA Marked ==
    ASSUME NotesAssumption, NotesInv, NEW t \in Tap,
           SelectNote(t) \/ UpdateNote(t) \/ UpdateAll(t)
    PROVE  NotesInv'
<1> USE DEF NotesInv
<1>1. row \in [Note -> {"unborn", "unread", "read"}]
    BY DEF TypeOK
<1>2. CASE SelectNote(t)
    <2> DEFINE q == IF row[mark[t].target] = "read" THEN "served" ELSE "selected"
    <2>1. /\ mark' = [mark EXCEPT ![t] = [mark[t] EXCEPT !.pc = q]]
          /\ mark[t].pc # "idle" /\ mark[t].target \in Note
          /\ UNCHANGED <<nuxt, row>> /\ UNCHANGED <<screen, fetch, history, bounds>>
        BY <1>2 DEF SelectNote, world
    <2>2. q = "selected" => mark[t].target # All
        BY <2>1 DEF NotesAssumption
    <2>3. q = "served" => \A n \in Named(mark[t].target) \cap Born : row'[n] = "read"
        BY <2>1 DEF Named, NotesAssumption
    <2>4. q \in {"selected", "served"}
        OBVIOUS
    <2>5. /\ row' \in [Note -> {"unborn", "unread", "read"}]
          /\ \A n \in Note : (row[n] = "read" => row'[n] = "read") /\ (row'[n] = "unborn" <=> row[n] = "unborn")
        BY <1>1, <2>1
    <2> HIDE DEF q
    <2> QED BY <2>1, <2>2, <2>3, <2>4, <2>5, MarkServed
<1>3. CASE UpdateNote(t)
    <2>1. /\ mark' = [mark EXCEPT ![t] = [mark[t] EXCEPT !.pc = "served"]]
          /\ mark[t].pc = "selected" /\ row' = [row EXCEPT ![mark[t].target] = "read"]
          /\ UNCHANGED nuxt /\ UNCHANGED <<screen, fetch, history, bounds>>
        BY <1>3 DEF UpdateNote
    <2>2. mark[t].target \in Born /\ mark[t].target # All
        BY <2>1 DEF MarksOK
    <2>3. \A n \in Named(mark[t].target) \cap Born : row'[n] = "read"
        BY <1>1, <2>1, <2>2 DEF Named, Born
    <2>4. /\ row' \in [Note -> {"unborn", "unread", "read"}]
          /\ \A n \in Note : (row[n] = "read" => row'[n] = "read") /\ (row'[n] = "unborn" <=> row[n] = "unborn")
        BY <1>1, <2>1, <2>2 DEF Born
    <2> QED BY <2>1, <2>3, <2>4, MarkServed
<1>4. CASE UpdateAll(t)
    <2>1. /\ mark' = [mark EXCEPT ![t] = [mark[t] EXCEPT !.pc = "served"]]
          /\ mark[t].pc = "sent" /\ row' = AllRead
          /\ UNCHANGED nuxt /\ UNCHANGED <<screen, fetch, history, bounds>>
        BY <1>4 DEF UpdateAll
    <2>2. /\ row' \in [Note -> {"unborn", "unread", "read"}]
          /\ \A n \in Note : (row[n] = "read" => row'[n] = "read") /\ (row'[n] = "unborn" <=> row[n] = "unborn")
          /\ \A n \in Born : row'[n] = "read"
        BY <1>1, <2>1 DEF AllRead, Born
    <2> QED BY <2>1, <2>2, MarkServed
<1> QED BY <1>2, <1>3, <1>4

(* The answer to a mark, or its loss: the mark is gone, D is what was done, L *)
(* what was lost of it, and the list shows as read only what is.              *)
LEMMA Settling ==
    ASSUME NotesAssumption, NotesInv, NEW s \in Tap,
           mark' = [mark EXCEPT ![s] = NoMark],
           done' \subseteq Note, done \subseteq done', \A n \in done' : IsRead(n),
           done' \subseteq done \cup Named(mark[s].target), done' # done => mark[s].pc # "idle",
           lost' \subseteq Note, lost \subseteq lost',
           mark[s].pc \in {"sent", "selected"} => Named(mark[s].target) \cap Born \subseteq lost',
           list' \in List \cup {None}, list' # None => list # None /\ list'.rows = list.rows
               /\ list.read \subseteq list'.read /\ list'.read \subseteq list'.rows
               /\ \A n \in list'.read \ list.read : IsRead(n) \/ n \in late,
           moves' \in Nat, faults' \in Nat, others' \in Nat,
           UNCHANGED <<world, open, loading, fetch, late, crossed>>
    PROVE  NotesInv'
<1> USE DEF NotesInv, world
<1>1. NoMark \in MarkState /\ NoMark.pc = "idle"
    BY DEF NoMark, MarkState
<1>2. mark' \in [Tap -> MarkState] /\ \A t \in Tap : mark'[t] = IF t = s THEN NoMark ELSE mark[t]
    BY <1>1 DEF TypeOK
<1>3. \A t \in Tap : mark'[t].pc # "idle" => mark'[t] = mark[t]
    BY <1>1, <1>2
<1>4. TypeOK'
    BY <1>2 DEF TypeOK
<1>5. FetchesOK'
    BY DEF FetchesOK, Born, IsRead
<1>6. MarksOK'
    <2>1. \A t \in Tap :
        /\ mark'[t].pc # "idle" => mark'[t].target = All \/ mark'[t].target \in Born
        /\ mark'[t].pc = "selected" => mark'[t].target # All
        /\ mark'[t].pc = "served" => \A n \in Named(mark'[t].target) \cap Born :
                                         IsRead(n) \/ (n \in late /\ mark'[t].target = All)
        BY <1>3 DEF MarksOK
    <2> QED BY <2>1 DEF MarksOK, Born, Named, IsRead
<1>7. ShownOK'
    <2>1. ASSUME NEW n \in Born, UnderWay(n) PROVE UnderWay(n)' \/ n \in lost'
        <3>1. PICK t \in Tap : mark[t].pc \in {"sent", "selected"} /\ mark[t].target \in {n, All}
            BY <2>1 DEF UnderWay
        <3>2. CASE t = s
            BY <3>1, <3>2 DEF Named, Born
        <3>3. CASE t # s
            BY <1>2, <3>1, <3>3 DEF UnderWay
        <3> QED BY <3>2, <3>3
    <2> QED BY <2>1 DEF ShownOK, Born, IsRead
<1>8. CrossingOK'
    <2>1. \A f \in Fetch, t \in Tap : fetch[f].pc = "sent" /\ mark'[t].pc # "idle" =>
              Named(mark'[t].target) \subseteq crossed
        BY <1>3 DEF CrossingOK
    <2>2. ASSUME NEW f \in Fetch, fetch[f].got # None
          PROVE  done' \cap fetch[f].got.rows \subseteq fetch[f].got.read \cup crossed
        <3>1. fetch[f].pc = "sent"
            BY <2>2 DEF FetchesOK
        <3>2. mark[s].pc # "idle" => Named(mark[s].target) \subseteq crossed
            BY <3>1 DEF CrossingOK
        <3>3. done \cap fetch[f].got.rows \subseteq fetch[f].got.read \cup crossed
            BY <2>2 DEF CrossingOK
        <3> QED BY <3>2, <3>3
    <2>3. list' # None /\ ~nuxt => \A t \in Tap : mark'[t].pc # "idle" =>
              Named(mark'[t].target) \cap list'.rows \subseteq list'.read \cup crossed
        BY <1>3 DEF CrossingOK
    <2>4. UNCHANGED <<nuxt, row, fetch, crossed>>
        OBVIOUS
    <2> QED BY <2>1, <2>2, <2>3, <2>4 DEF CrossingOK, Named, IsRead
<1> QED BY <1>4, <1>5, <1>6, <1>7, <1>8

(* What the Nuxt store does with an answer. *)
LEMMA Patches ==
    ASSUME NotesAssumption, NotesInv, list # None, NEW x
    PROVE  /\ MarkedRead(x) \in List /\ MarkedRead(x).rows = list.rows
           /\ MarkedRead(x).read = list.read \cup ({x} \cap list.rows)
           /\ MarkedAllRead \in List /\ MarkedAllRead.rows = list.rows
           /\ MarkedAllRead.read = list.rows
<1>1. list \in List /\ list.read \subseteq list.rows
    BY DEF NotesInv, TypeOK, ShownOK
<1>2. Less(list.unread, 1) \in Nat
    BY <1>1 DEF List, Less
<1>3. /\ MarkedRead(x) \in List /\ MarkedRead(x).rows = list.rows
      /\ MarkedRead(x).read = list.read \cup ({x} \cap list.rows)
    <2>1. CASE x \in list.rows \ list.read
        BY <1>1, <1>2, <2>1 DEF MarkedRead, List
    <2>2. CASE x \notin list.rows \ list.read
        BY <1>1, <2>2 DEF MarkedRead
    <2> QED BY <2>1, <2>2
<1>4. /\ MarkedAllRead \in List /\ MarkedAllRead.rows = list.rows
      /\ MarkedAllRead.read = list.rows
    BY <1>1 DEF MarkedAllRead, List
<1> QED BY <1>3, <1>4

LEMMA Answering ==
    ASSUME NotesAssumption, NoList, NotesInv, NEW t \in Tap, Answer(t) \/ Lose(t) PROVE NotesInv'
<1>1. CASE Lose(t)
    <2>1. /\ mark[t].pc # "idle" /\ mark' = [mark EXCEPT ![t] = NoMark] /\ faults' \in Nat
          /\ lost' = IF mark[t].pc = "served" THEN lost ELSE lost \cup (Named(mark[t].target) \cap Born)
          /\ UNCHANGED <<world, screen, fetch, late, done, crossed, moves, others>>
        BY <1>1 DEF Lose, NotesInv, TypeOK
    <2>2. lost' \subseteq Note /\ lost \subseteq lost'
        BY <2>1, Subsets DEF NotesInv, TypeOK
    <2>3. list' = list /\ (list # None => list.read \subseteq list.rows) /\ list \in List \cup {None}
        BY <2>1 DEF screen, NotesInv, ShownOK, TypeOK
    <2>4. \A n \in done : IsRead(n)
        BY DEF NotesInv, CrossingOK
    <2>5. done \subseteq Note /\ moves' \in Nat /\ others' \in Nat
        BY <2>1 DEF NotesInv, TypeOK
    <2> QED BY <2>1, <2>2, <2>3, <2>4, <2>5, Settling DEF screen
<1>2. CASE Answer(t)
    <2> DEFINE x == mark[t].target
    <2>1. /\ mark[t].pc = "served" /\ mark' = [mark EXCEPT ![t] = NoMark]
          /\ done' = done \cup ((Named(x) \cap Born) \ late)
          /\ list' = IF list = None \/ ~nuxt THEN list
                     ELSE IF x = All THEN MarkedAllRead ELSE MarkedRead(x)
          /\ UNCHANGED <<world, open, loading, fetch, late, lost, crossed, bounds>>
        BY <1>2 DEF Answer
    <2>2. \A n \in Named(x) \cap Born : IsRead(n) \/ n \in late
        BY <2>1 DEF NotesInv, MarksOK
    <2>3. /\ done' \subseteq Note /\ done \subseteq done' /\ \A n \in done' : IsRead(n)
          /\ done' \subseteq done \cup Named(x)
        BY <2>1, <2>2, Subsets DEF NotesInv, TypeOK, CrossingOK
    <2>4. /\ list' \in List \cup {None}
          /\ list' # None => list # None /\ list'.rows = list.rows
               /\ list.read \subseteq list'.read /\ list'.read \subseteq list'.rows
               /\ \A n \in list'.read \ list.read : IsRead(n) \/ n \in late
        <3>1. list # None => list.read \subseteq list.rows /\ list.rows \subseteq Born
            BY DEF NotesInv, ShownOK
        <3>2. CASE list = None \/ ~nuxt
            BY <2>1, <3>1, <3>2 DEF NotesInv, TypeOK
        <3>3. CASE list # None /\ nuxt /\ x = All
            <4>1. list' = MarkedAllRead /\ Named(x) = Note
                BY <2>1, <3>3 DEF Named
            <4>2. list' \in List /\ list'.rows = list.rows /\ list'.read = list.rows
                BY <3>3, <4>1, Patches
            <4>3. \A n \in list.rows : IsRead(n) \/ n \in late
                BY <2>2, <3>1, <3>3, <4>1 DEF Born
            <4> QED BY <3>1, <3>3, <4>2, <4>3
        <3>4. CASE list # None /\ nuxt /\ x # All
            <4>1. list' = MarkedRead(x) /\ Named(x) = {x}
                BY <2>1, <3>4 DEF Named
            <4> QED BY <2>2, <3>1, <3>4, <4>1, Patches
        <3> QED BY <3>2, <3>3, <3>4
    <2>5. moves' \in Nat /\ faults' \in Nat /\ others' \in Nat /\ lost' \subseteq Note /\ lost \subseteq lost'
        BY <2>1 DEF NotesInv, TypeOK, bounds
    <2> HIDE DEF x
    <2>6. x = mark[t].target
        BY DEF x
    <2> QED BY <2>1, <2>3, <2>4, <2>5, <2>6, Settling
<1> QED BY <1>1, <1>2

(* The rest of the world: what was born and read remains, and what is born in *)
(* the middle of a read-all is recorded as late.                              *)
LEMMA Elsewhere ==
    ASSUME NotesAssumption, NotesInv, Create \/ OtherDevice PROVE NotesInv'
<1> USE DEF NotesInv
<1>1. /\ row' \in [Note -> {"unborn", "unread", "read"}]
      /\ \A n \in Note : (IsRead(n) => IsRead(n)') /\ (row'[n] = "unborn" => row[n] = "unborn")
    BY DEF Create, OtherDevice, AllRead, Unread, IsRead, TypeOK
<1>2. /\ UNCHANGED <<nuxt, screen, fetch, mark, lost, done, crossed>>
      /\ moves' \in Nat /\ faults' \in Nat /\ others' \in Nat
    BY DEF Create, OtherDevice, bounds, history, TypeOK
<1>3. late' \subseteq Note /\ late \subseteq late'
    BY DEF Create, OtherDevice, history, TypeOK
<1>4. ASSUME NEW n \in Born', n \notin Born, NEW t \in Tap, mark[t].pc = "served", mark[t].target = All
      PROVE  n \in late'
    <2>1. CASE Create
        BY <1>4, <2>1 DEF Create, Born, TypeOK
    <2>2. CASE OtherDevice
        BY <1>4, <2>2 DEF OtherDevice, AllRead, Unread, Born, TypeOK
    <2> QED BY <2>1, <2>2
<1>5. Born \subseteq Born'
    BY <1>1 DEF Born
<1>6. TypeOK'
    BY <1>1, <1>2, <1>3 DEF TypeOK, screen
<1>7. FetchesOK'
    <2>1. \A n \in Born : IsRead(n) => IsRead(n)'
        BY <1>1 DEF Born
    <2> QED BY <1>2, <1>5, <2>1 DEF FetchesOK
<1>8. MarksOK'
    <2>1. ASSUME NEW t \in Tap, mark[t].pc = "served", NEW n \in Named(mark[t].target) \cap Born'
          PROVE  IsRead(n)' \/ (n \in late' /\ mark[t].target = All)
        <3>1. CASE n \in Born
            BY <1>1, <1>3, <2>1, <3>1 DEF MarksOK, Born
        <3>2. CASE n \notin Born
            BY <1>4, <2>1, <3>2 DEF MarksOK, Named
        <3> QED BY <3>1, <3>2
    <2>2. \A t \in Tap : /\ mark[t].pc # "idle" => mark[t].target = All \/ mark[t].target \in Born'
                         /\ mark[t].pc = "selected" => mark[t].target # All
        BY <1>5 DEF MarksOK
    <2> QED BY <1>2, <2>1, <2>2 DEF MarksOK, Named
<1>9. ShownOK'
    <2>1. \A n \in Born : IsRead(n) => IsRead(n)'
        BY <1>1 DEF Born
    <2> QED BY <1>2, <1>3, <1>5, <2>1 DEF ShownOK, UnderWay, screen
<1>10. CrossingOK'
    <2>1. \A n \in done : IsRead(n)'
        BY <1>1 DEF CrossingOK, TypeOK
    <2> QED BY <1>2, <2>1 DEF CrossingOK, Named, screen
<1> QED BY <1>6, <1>7, <1>8, <1>9, <1>10

LEMMA Initially == ASSUME NotesAssumption, Init PROVE NotesInv
<1>1. TypeOK
    <2>1. fetch \in [Fetch -> FetchState]
        BY DEF Init, NoFetch, SentFetch, FetchState
    <2>2. mark \in [Tap -> MarkState]
        BY DEF Init, NoMark, MarkState
    <2> QED BY <2>1, <2>2 DEF Init, TypeOK
<1>2. FetchesOK /\ MarksOK /\ ShownOK /\ CrossingOK
    BY DEF Init, FetchesOK, MarksOK, ShownOK, CrossingOK, NoFetch, SentFetch, NoMark
<1> QED BY <1>1, <1>2 DEF NotesInv

LEMMA Inductive ==
    ASSUME NotesAssumption, NoList, NotesInv, [Next]_vars PROVE NotesInv'
<1>1. CASE Bell
    <2>1. CASE Open
        <3>1. /\ open' = TRUE /\ moves' = moves + 1
              /\ UNCHANGED <<world, list, mark, late, lost, done, faults, others>>
            BY <2>1 DEF Open, Move
        <3>2. (Start /\ loading' = TRUE) \/ UNCHANGED <<fetch, crossed, loading>>
            BY <2>1 DEF Open
        <3>3. loading' \in BOOLEAN
            BY <3>2 DEF NotesInv, TypeOK
        <3>4. moves' \in Nat /\ faults' \in Nat /\ others' \in Nat
            BY <3>1 DEF NotesInv, TypeOK
        <3> QED BY <3>1, <3>2, <3>3, <3>4, Turning
    <2>2. CASE Close
        BY <2>2, Turning DEF Close, history, bounds, NotesInv, TypeOK
    <2>3. CASE Remount
        BY <2>3, Turning DEF Remount, Move, screen, NotesInv, TypeOK
    <2> QED BY <1>1, <2>1, <2>2, <2>3, Clicking DEF Bell
<1>2. CASE Lists
    BY <1>2, Selecting, Arriving DEF Lists
<1>3. CASE Marks
    BY <1>3, Marked, Answering DEF Marks
<1>4. CASE Create \/ OtherDevice
    BY <1>4, Elsewhere
<1>5. CASE UNCHANGED vars
    BY <1>5, Turning DEF vars, screen, history, bounds, NotesInv, TypeOK
<1> QED BY <1>1, <1>2, <1>3, <1>4, <1>5 DEF Next

(* What the bell shows as read is read in the table, but for Next's marks that *)
(* are under way or lost and for what came in the middle of a read-all; and a  *)
(* fetch that no mark crosses carries as read whatever was marked.             *)
THEOREM NotesInvariance ==
    ASSUME NotesAssumption, NoList PROVE Spec => []NotesInv
<1>1. Init => NotesInv
    BY Initially
<1>2. NotesInv /\ [Next]_vars => NotesInv'
    BY Inductive
<1> QED BY <1>1, <1>2, PTL DEF Spec

(* Only a list that arrives, a click and an answer change what is shown. *)
LEMMA Unchanging ==
    ASSUME NotesAssumption, NotesInv, [Next]_vars,
           ~ \E f \in Fetch : Arrive(f), ~ \E t \in Tap : Answer(t),
           ~ \E x \in Note \cup {All} : Click(x)
    PROVE  UNCHANGED <<list, done>> /\ crossed \subseteq crossed'
<1>1. CASE Bell
    BY <1>1, Starts DEF Bell, Open, Close, Remount, screen, history
<1>2. CASE Lists
    BY <1>2 DEF Lists, SelectRows, SelectCount, FailFetch, screen, history
<1>3. CASE Marks
    BY <1>3 DEF Marks, SelectNote, UpdateNote, UpdateAll, Lose, screen, history
<1>4. CASE Create \/ OtherDevice
    BY <1>4 DEF Create, OtherDevice, screen, history
<1>5. CASE UNCHANGED vars
    BY <1>5 DEF vars, screen, history
<1> QED BY <1>1, <1>2, <1>3, <1>4, <1>5 DEF Next

(* A notification whose mark was answered does not show as unread, however     *)
(* often the list is fetched, unless a fetch was under way with the mark.      *)
THEOREM OwnMarksStay ==
    ASSUME NotesAssumption, NoList PROVE Spec => []OwnMarksShow
<1>1. Init => OwnMarksShow
    BY DEF Init, OwnMarksShow
<1>2. ASSUME NotesInv, OwnMarksShow, [Next]_vars PROVE OwnMarksShow'
    <2>1. ASSUME NEW f \in Fetch, Arrive(f) PROVE OwnMarksShow'
        <3>1. /\ fetch[f].got # None /\ list'.rows = fetch[f].got.rows /\ list'.read = fetch[f].got.read
              /\ UNCHANGED <<done, crossed>>
            BY <2>1 DEF Arrive, history
        <3> QED BY <1>2, <3>1 DEF NotesInv, CrossingOK, OwnMarksShow
    <2>2. ASSUME NEW x \in Note \cup {All}, Click(x) PROVE OwnMarksShow'
        <3>1. /\ list # None /\ x \in {All} \cup list.rows /\ list' = IF nuxt THEN list ELSE Patched(x)
              /\ UNCHANGED done /\ crossed \subseteq crossed'
            BY <1>2, <2>2 DEF Click, Clickable, NotesInv, TypeOK
        <3>2. list'.rows = list.rows /\ list.read \subseteq list'.read
            BY <1>2, <3>1, Patching DEF NotesInv
        <3> QED BY <1>2, <3>1, <3>2 DEF OwnMarksShow
    <2>3. ASSUME NEW t \in Tap, Answer(t) PROVE OwnMarksShow'
        <3> DEFINE x == mark[t].target
        <3>1. /\ mark[t].pc = "served" /\ done' \subseteq done \cup Named(x) /\ UNCHANGED crossed
              /\ list' = IF list = None \/ ~nuxt THEN list
                         ELSE IF x = All THEN MarkedAllRead ELSE MarkedRead(x)
            BY <2>3 DEF Answer
        <3>2. CASE list = None
            BY <3>1, <3>2 DEF OwnMarksShow
        <3>3. CASE list # None /\ ~nuxt
            <4>1. Named(x) \cap list.rows \subseteq list.read \cup crossed
                BY <1>2, <3>1, <3>3 DEF NotesInv, CrossingOK
            <4> QED BY <1>2, <3>1, <3>3, <4>1 DEF OwnMarksShow
        <3>4. CASE list # None /\ nuxt /\ x = All
            <4>1. list' = MarkedAllRead
                BY <3>1, <3>4
            <4>2. list'.rows = list.rows /\ list'.read = list.rows
                BY <1>2, <3>4, <4>1, Patches
            <4> QED BY <4>2 DEF OwnMarksShow
        <3>5. CASE list # None /\ nuxt /\ x # All
            <4>1. list' = MarkedRead(x) /\ Named(x) = {x}
                BY <3>1, <3>5 DEF Named
            <4>2. list'.rows = list.rows /\ list'.read = list.read \cup ({x} \cap list.rows)
                BY <1>2, <3>5, <4>1, Patches
            <4> QED BY <1>2, <3>1, <3>5, <4>1, <4>2 DEF OwnMarksShow
        <3> QED BY <3>2, <3>3, <3>4, <3>5
    <2>4. CASE ~((\E f \in Fetch : Arrive(f)) \/ (\E t \in Tap : Answer(t)) \/ (\E x \in Note \cup {All} : Click(x)))
        <3>1. UNCHANGED <<list, done>> /\ crossed \subseteq crossed'
            BY <1>2, <2>4, Unchanging
        <3> QED BY <1>2, <3>1 DEF OwnMarksShow
    <2> QED BY <2>1, <2>2, <2>3, <2>4
<1> QED BY <1>1, <1>2, NotesInvariance, PTL DEF Spec

(* The count of the bell is that of the rows shown as unread and of those past *)
(* the limit, unless a list was torn or, in Next, a read row was clicked.      *)
THEOREM BadgeIsRight ==
    ASSUME NotesAssumption, NoList PROVE Spec => []BadgeCounts
<1>1. Init => BadgeCounts
    BY DEF Init, BadgeCounts
<1>2. ASSUME NotesInv, BadgeCounts, [Next]_vars PROVE BadgeCounts'
    <2>1. ASSUME NEW f \in Fetch, Arrive(f) PROVE BadgeCounts'
        <3> DEFINE got == fetch[f].got
                   c   == Cardinality(got.rows \ got.read)
        <3>1. /\ got # None /\ list'.rows = got.rows /\ list'.read = got.read
              /\ list'.unread = fetch[f].count /\ list'.beyond = Less(got.own, c)
              /\ list'.torn = (fetch[f].count # got.own)
            BY <2>1 DEF Arrive
        <3>2. got \in Rows /\ got.own >= c
            BY <1>2, <3>1 DEF NotesInv, TypeOK, FetchState, FetchesOK
        <3>3. got.own \in Nat /\ c \in Nat
            BY <3>2, Finite DEF Rows
        <3> HIDE DEF got, c
        <3>4. c + Less(got.own, c) = got.own
            BY <3>2, <3>3 DEF Less
        <3>5. Cardinality(list'.rows \ list'.read) = c
            BY <3>1 DEF c
        <3> QED BY <3>1, <3>4, <3>5 DEF BadgeCounts
    <2>2. ASSUME list # None, NEW n \in list.rows \ list.read
          PROVE  Cardinality(list.rows \ (list.read \cup {n})) = Cardinality(list.rows \ list.read) - 1
        <3>1. list.rows \ (list.read \cup {n}) = (list.rows \ list.read) \ {n}
            OBVIOUS
        <3>2. IsFiniteSet(list.rows \ list.read)
            BY <1>2, <2>2, Finite DEF NotesInv, TypeOK, List
        <3>3. Cardinality((list.rows \ list.read) \ {n}) = Cardinality(list.rows \ list.read) - 1
            BY <3>2, FS_RemoveElement
        <3> QED BY <3>1, <3>3
    <2>3. list # None => /\ list \in List /\ Cardinality(list.rows \ list.read) \in Nat
                         /\ list.read \subseteq list.rows
        BY <1>2, Finite DEF NotesInv, TypeOK, List, ShownOK
    <2>4. ASSUME NEW x \in Note \cup {All}, Click(x) PROVE BadgeCounts'
        <3>1. /\ list # None /\ x \in {All} \cup list.rows /\ list' = IF nuxt THEN list ELSE Patched(x)
            BY <2>4 DEF Click, Clickable
        <3>2. CASE nuxt
            BY <1>2, <3>1, <3>2 DEF BadgeCounts
        <3>3. CASE ~nuxt /\ x = All
            <4> DEFINE hits == list.rows \ list.read
            <4>1. /\ list'.rows = list.rows /\ list'.read = list.read \cup hits
                  /\ list'.unread = Less(list.unread, Cardinality(hits))
                  /\ list'.beyond = list.beyond /\ list'.torn = list.torn
                  /\ list'.twice = (list.twice \/ x \in list.read)
                BY <2>3, <3>1, <3>3 DEF Patched, List
            <4>2. list'.rows \ list'.read = {}
                BY <4>1
            <4>3. Cardinality(list'.rows \ list'.read) = 0
                BY <4>2, FS_EmptySet
            <4>4. ~list.torn /\ ~list.twice => Less(list.unread, Cardinality(hits)) = list.beyond
                BY <1>2, <2>3, <3>1 DEF BadgeCounts, Less, List
            <4>5. list.beyond \in Nat
                BY <2>3, <3>1 DEF List
            <4>6. ~list.torn /\ ~list.twice => list'.unread = 0 + list'.beyond
                BY <4>1, <4>4, <4>5
            <4> HIDE DEF hits
            <4> QED BY <4>1, <4>3, <4>6 DEF BadgeCounts
        <3>4. CASE ~nuxt /\ x # All
            <4>1. x \in list.rows /\ {x} \cap list.rows = {x} /\ Cardinality({x}) = 1
                BY <3>1, <3>4, FS_Singleton
            <4>2. /\ list'.rows = list.rows /\ list'.read = list.read \cup {x}
                  /\ list'.unread = Less(list.unread, 1)
                  /\ list'.beyond = list.beyond /\ list'.torn = list.torn
                  /\ list'.twice = (list.twice \/ x \in list.read)
                BY <2>3, <3>1, <3>4, <4>1 DEF Patched, List
            <4>3. CASE x \in list.read
                BY <4>2, <4>3 DEF BadgeCounts
            <4>4. CASE x \notin list.read
                <5>1. Cardinality(list'.rows \ list'.read) = Cardinality(list.rows \ list.read) - 1
                    BY <2>2, <3>1, <4>1, <4>2, <4>4
                <5>2. Cardinality(list.rows \ list.read) # 0
                    BY <2>3, <3>1, <4>1, <4>4, Finite, FS_EmptySet DEF List
                <5> QED BY <1>2, <2>3, <3>1, <4>2, <4>4, <5>1, <5>2 DEF BadgeCounts, Less, List
            <4> QED BY <4>3, <4>4
        <3> QED BY <3>2, <3>3, <3>4
    <2>5. ASSUME NEW t \in Tap, Answer(t) PROVE BadgeCounts'
        <3> DEFINE x == mark[t].target
        <3>1. list' = IF list = None \/ ~nuxt THEN list
                      ELSE IF x = All THEN MarkedAllRead ELSE MarkedRead(x)
            BY <2>5 DEF Answer
        <3>2. CASE list' = list
            BY <1>2, <3>2 DEF BadgeCounts
        <3>3. CASE list # None /\ list' = MarkedAllRead
            <4>1. list'.rows = list.rows /\ list'.read = list.rows /\ list'.unread = 0 /\ list'.beyond = 0
                BY <2>3, <3>3 DEF MarkedAllRead, List
            <4>2. list'.rows \ list'.read = {}
                BY <4>1
            <4>3. Cardinality(list'.rows \ list'.read) = 0
                BY <4>2, FS_EmptySet
            <4> QED BY <4>1, <4>3 DEF BadgeCounts
        <3>4. CASE list # None /\ x \in list.rows \ list.read /\ list' = MarkedRead(x)
            <4>1. /\ list'.rows = list.rows /\ list'.read = list.read \cup {x}
                  /\ list'.unread = Less(list.unread, 1)
                  /\ list'.beyond = list.beyond /\ list'.torn = list.torn /\ list'.twice = list.twice
                BY <2>3, <3>4 DEF MarkedRead, List
            <4>2. Cardinality(list'.rows \ list'.read) = Cardinality(list.rows \ list.read) - 1
                BY <2>2, <3>4, <4>1
            <4>3. Cardinality(list.rows \ list.read) # 0
                BY <2>3, <3>4, Finite, FS_EmptySet DEF List
            <4> QED BY <1>2, <2>3, <3>4, <4>1, <4>2, <4>3 DEF BadgeCounts, Less, List
        <3> QED BY <3>1, <3>2, <3>3, <3>4 DEF MarkedRead
    <2>6. CASE ~((\E f \in Fetch : Arrive(f)) \/ (\E t \in Tap : Answer(t)) \/ (\E x \in Note \cup {All} : Click(x)))
        <3>1. UNCHANGED list
            BY <1>2, <2>6, Unchanging
        <3> QED BY <1>2, <3>1 DEF BadgeCounts
    <2> QED BY <2>1, <2>4, <2>5, <2>6
<1> QED BY <1>1, <1>2, NotesInvariance, PTL DEF Spec
=============================================================================
