--------------------------- MODULE UsersScreenProofs ---------------------------
(***************************************************************************)
(* ScreenInv is inductive, and ReadYourWrites follows from it; with it       *)
(* ListsOK is, and PagesExist follows: for any number of users, roles,      *)
(* pages, removals and writes, and any page size.                           *)
(***************************************************************************)
EXTENDS UsersScreen, FiniteSetTheorems, TLAPS

USE DEF Job, Save, New, User, Filter, Shown, HasData, Fetching

(* A list answered by the API is a page: rows, a count of pages, a version. *)
LEMMA AnswerType ==
    ASSUME ScreenAssumption, TypeOK, NEW k \in Key
    PROVE  Answer(k) \in Snap /\ Answer(k).seen = version
<1>1. Matching(k[1]) \subseteq User
    BY DEF Matching, Existing
<1>2. IsFiniteSet(Matching(k[1]))
    <2>1. IsFiniteSet(User)
        BY FS_Interval DEF ScreenAssumption
    <2> QED BY <2>1, <1>1, FS_Subset
<1>3. /\ Cardinality(Matching(k[1])) \in Nat
      /\ Cardinality(Matching(k[1])) = 0 <=> Matching(k[1]) = {}
    BY <1>2, FS_CardinalityType, FS_EmptySet
<1> DEFINE n == Cardinality(Matching(k[1])) - (IF Matching(k[1]) = {} THEN 0 ELSE 1)
<1>4. n \in Nat
    BY <1>3
<1>5. n \div PageSize \in Nat
    <2> HIDE DEF n
    <2> QED BY <1>4, SMT DEF ScreenAssumption
<1>6. PageCount(k[1]) \in Nat
    BY <1>5 DEF PageCount
<1>7. Rows(k[1], k[2]) \subseteq User
    BY <1>1 DEF Rows
<1> QED BY <1>6, <1>7 DEF Answer, Snap, TypeOK

(* What the screen shows are users, and the entry it shows them from exists. *)
LEMMA ScreenType ==
    ASSUME TypeOK, ShownOK
    PROVE  /\ Shown \in Key
           /\ Displayed # None => Displayed \in Key /\ data[Displayed] \in Entry
           /\ OnScreen \subseteq User
<1>1. Shown \in Key
    BY DEF TypeOK, Key
<1>2. Displayed # None => Displayed \in Key /\ data[Displayed] \in Entry
    <2>1. CASE HasData(Shown)
        BY <2>1, <1>1 DEF Displayed, TypeOK
    <2>2. CASE ~HasData(Shown)
        BY <2>2, <1>1 DEF Displayed, TypeOK, ShownOK
    <2> QED BY <2>1, <2>2
<1>3. OnScreen \subseteq User
    BY <1>2 DEF OnScreen, Entry
<1> QED BY <1>1, <1>2, <1>3

(* The invariant holds at first. *)
LEMMA Initially == ASSUME ScreenAssumption, Init PROVE ScreenInv
<1>1. TypeOK
    <2>1. fetch \in [Key -> FetchState]
        BY DEF Init, NoFetch, SentFetch, FetchState
    <2>2. job \in [Job -> JobState]
        BY DEF Init, NoJob, JobState
    <2>3. fresh \in [Key -> BOOLEAN] /\ failed \in [Key -> BOOLEAN]
        BY DEF Init
    <2>4. astray \in BOOLEAN /\ nuxt \in BOOLEAN
        BY DEF Init
    <2>5. data \in [Key -> Entry \cup {None}]
        BY DEF Init
    <2>6. /\ role \in [User -> State] /\ filter \in Filter /\ page \in 1 .. MaxPage
          /\ version \in Nat /\ acked \in Nat /\ faults \in Nat /\ moves \in Nat
          /\ last \in Key \cup {None} /\ form \in User \cup {New, None}
        BY DEF Init, ScreenAssumption
    <2> QED BY <2>1, <2>2, <2>3, <2>4, <2>5, <2>6 DEF TypeOK
<1>2. PagesOK
    BY DEF Init, PagesOK, NoFetch, SentFetch
<1>3. ShownOK
    BY DEF Init, ShownOK, AtRest, Key, SentFetch, ScreenAssumption
<1>4. JobsOK
    BY DEF Init, JobsOK, NoJob
<1> QED BY <1>1, <1>2, <1>3, <1>4 DEF ScreenInv

(* Steps that leave the cache and the place alone, and put no job to wait. *)
LEMMA Aside ==
    ASSUME ScreenInv, TypeOK', UNCHANGED <<place, cache, acked>>, version' >= version,
           \A j \in Job : \/ job'[j] = job[j]
                          \/ job'[j].pc # "settling" /\ job'[j].stamp <= version'
    PROVE  ScreenInv'
<1> USE DEF ScreenInv, place, cache
<1>1. PagesOK'
    BY DEF PagesOK
<1>2. ShownOK'
    BY DEF ShownOK, AtRest
<1>3. JobsOK'
    BY DEF JobsOK, JobState, TypeOK
<1> QED BY <1>1, <1>2, <1>3

(* The form and the dialog. *)
LEMMA Forms ==
    ASSUME ScreenAssumption, ScreenInv,
           Open \/ Cancel \/ Submit \/ AskRemove \/ (\E j \in Job : Confirm(j))
    PROVE  ScreenInv'
<1> USE DEF ScreenInv
<1>1. CASE Open
    <2>1. TypeOK'
        BY <1>1, ScreenType DEF Open, Move, TypeOK, world, place, cache
    <2> QED BY <1>1, <2>1, Aside DEF Open, world, TypeOK
<1>2. CASE Cancel
    <2>1. TypeOK'
        BY <1>2 DEF Cancel, TypeOK, world, place, cache
    <2> QED BY <1>2, <2>1, Aside DEF Cancel, world, TypeOK
<1>3. CASE Submit
    <2>1. TypeOK'
        BY <1>3 DEF Submit, Ask, JobState, TypeOK, world, place, cache
    <2>2. \A j \in Job : job'[j] = job[j] \/ (job'[j].pc # "settling" /\ job'[j].stamp <= version')
        BY <1>3 DEF Submit, Ask, JobState, TypeOK, world
    <2> QED BY <1>3, <2>1, <2>2, Aside DEF Submit, world, TypeOK
<1>4. CASE AskRemove
    <2>1. PICK u \in OnScreen : Ask(CHOOSE j \in Idle : TRUE, u, "asking")
        BY <1>4 DEF AskRemove
    <2>2. PICK d \in Job : Ask(d, u, "asking")
        BY <1>4, <2>1 DEF AskRemove, Idle
    <2>3. u \in User
        BY ScreenType
    <2>4. TypeOK'
        BY <1>4, <2>2, <2>3 DEF AskRemove, Ask, JobState, TypeOK, world, place, cache
    <2>5. \A j \in Job : job'[j] = job[j] \/ (job'[j].pc # "settling" /\ job'[j].stamp <= version')
        BY <1>4, <2>2 DEF AskRemove, Ask, JobState, TypeOK, world
    <2> QED BY <1>4, <2>4, <2>5, Aside DEF AskRemove, world, TypeOK
<1>5. CASE \E j \in Job : Confirm(j)
    <2>1. PICK d \in Job : Confirm(d)
        BY <1>5
    <2>2. UNCHANGED <<world, place, cache, form, acked, astray, faults, moves>>
        BY <2>1 DEF Confirm
    <2>3. job[d] \in JobState /\ job[d].stamp <= version
        BY <2>1 DEF TypeOK, JobsOK
    <2>4. PICK v \in {[job[d] EXCEPT !.pc = "sent"], NoJob} : job' = [job EXCEPT ![d] = v]
        BY <2>1 DEF Confirm
    <2>5. v \in JobState /\ v.pc # "settling" /\ v.stamp <= version
        <3>1. CASE v = NoJob
            BY <3>1 DEF NoJob, JobState, TypeOK
        <3>2. CASE v = [job[d] EXCEPT !.pc = "sent"]
            BY <2>3, <3>2 DEF JobState
        <3> QED BY <2>4, <3>1, <3>2
    <2>6. TypeOK'
        BY <2>2, <2>4, <2>5 DEF TypeOK, world, place, cache
    <2>7. \A j \in Job : job'[j] = job[j] \/ (job'[j].pc # "settling" /\ job'[j].stamp <= version')
        BY <2>2, <2>4, <2>5 DEF TypeOK, world
    <2>8. version' >= version /\ UNCHANGED <<place, cache, acked>>
        BY <2>2 DEF world, TypeOK
    <2> QED BY <2>6, <2>7, <2>8, Aside
<1> QED BY <1>1, <1>2, <1>3, <1>4, <1>5

(* The writes, as the table sees them, and the answers that change no list. *)
LEMMA Writes ==
    ASSUME ScreenAssumption, ScreenInv,
           OtherAdmin \/ (\E j \in Job : Serve(j) \/ Refused(j) \/ Lost(j))
    PROVE  ScreenInv'
<1> USE DEF ScreenInv
<1>1. ASSUME NEW u, NEW s, s \in State, Write(u, s)
      PROVE  /\ role' \in [User -> State] /\ astray' \in BOOLEAN
             /\ version' = version + 1 /\ UNCHANGED nuxt
    <2>1. role' \in [User -> State] /\ version' = version + 1 /\ UNCHANGED nuxt
        BY <1>1 DEF Write, TypeOK
    <2>2. astray' \in BOOLEAN
        BY <1>1 DEF Write, TypeOK
    <2> QED BY <2>1, <2>2
<1>2. ASSUME NEW j, NEW t, Effect(j, t)
      PROVE  /\ role' \in [User -> State] /\ astray' \in BOOLEAN
             /\ version' = version + 1 /\ UNCHANGED nuxt
    BY <1>1, <1>2 DEF Effect, State
<1>3. CASE OtherAdmin
    <2>1. TypeOK' /\ version' = version + 1
        BY <1>2, <1>3 DEF OtherAdmin, TypeOK, place, cache
    <2>2. UNCHANGED job /\ UNCHANGED <<place, cache, acked>>
        BY <1>3 DEF OtherAdmin
    <2>3. version' >= version
        BY <2>1 DEF TypeOK
    <2> QED BY <2>1, <2>2, <2>3, Aside
<1>4. ASSUME NEW d \in Job, Serve(d) PROVE ScreenInv'
    <2>1. UNCHANGED <<place, cache, acked>> /\ UNCHANGED <<form, faults, moves>>
        BY <1>4 DEF Serve
    <2>2. job[d] \in JobState /\ job[d].stamp <= version /\ version \in Nat
        BY DEF TypeOK, JobsOK
    <2>3. CASE Effect(d, job[d].target) /\ job' = [job EXCEPT ![d] = [pc |-> "served", target |-> @.target, stamp |-> version', key |-> None]]
        <3>1. /\ role' \in [User -> State] /\ astray' \in BOOLEAN
              /\ version' = version + 1 /\ version' \in Nat /\ UNCHANGED nuxt
            BY <1>2, <2>2, <2>3
        <3> DEFINE v == [pc |-> "served", target |-> job[d].target, stamp |-> version', key |-> None]
        <3>2. v \in JobState /\ v.pc # "settling" /\ v.stamp <= version'
            BY <2>2, <3>1 DEF JobState
        <3>3. job' = [job EXCEPT ![d] = v]
            BY <2>3
        <3> HIDE DEF v
        <3>4. TypeOK'
            BY <2>1, <3>1, <3>2, <3>3 DEF TypeOK, place, cache
        <3>5. \A j \in Job : job'[j] = job[j] \/ (job'[j].pc # "settling" /\ job'[j].stamp <= version')
            BY <3>2, <3>3 DEF TypeOK
        <3>6. version' >= version
            BY <2>2, <3>1
        <3> QED BY <2>1, <3>4, <3>5, <3>6, Aside
    <2>4. CASE job' = [job EXCEPT ![d] = [@ EXCEPT !.pc = "refused"]] /\ UNCHANGED <<world, astray>>
        <3> DEFINE v == [job[d] EXCEPT !.pc = "refused"]
        <3>1. v \in JobState /\ v.pc # "settling" /\ v.stamp <= version
            BY <2>2 DEF JobState
        <3>2. job' = [job EXCEPT ![d] = v] /\ UNCHANGED <<world, astray>>
            BY <2>4
        <3> HIDE DEF v
        <3>3. TypeOK'
            BY <2>1, <3>1, <3>2 DEF TypeOK, world, place, cache
        <3>4. \A j \in Job : job'[j] = job[j] \/ (job'[j].pc # "settling" /\ job'[j].stamp <= version')
            BY <3>1, <3>2 DEF TypeOK, world
        <3>5. version' >= version
            BY <2>2, <3>2 DEF world
        <3> QED BY <2>1, <3>3, <3>4, <3>5, Aside
    <2> QED BY <1>4, <2>3, <2>4 DEF Serve
<1>5. ASSUME NEW d \in Job, Refused(d) \/ Lost(d) PROVE ScreenInv'
    <2>1. job' = [job EXCEPT ![d] = NoJob] /\ UNCHANGED <<world, place, cache, form, acked, astray, moves>>
        BY <1>5 DEF Refused, Lost
    <2>2. faults' \in Nat
        BY <1>5 DEF Refused, Lost, TypeOK
    <2>3. TypeOK'
        BY <2>1, <2>2 DEF TypeOK, NoJob, JobState, world, place, cache
    <2>4. \A j \in Job : job'[j] = job[j] \/ (job'[j].pc # "settling" /\ job'[j].stamp <= version')
        BY <2>1 DEF TypeOK, NoJob, world
    <2>5. version' >= version
        BY <2>1 DEF TypeOK, world
    <2> QED BY <2>1, <2>3, <2>4, <2>5, Aside
<1> QED BY <1>3, <1>4, <1>5

(* Starting a fetch of k leaves every other one as it is, and loses none. *)
LEMMA Starting ==
    ASSUME NEW F \in [Key -> FetchState], NEW k \in Key
    PROVE  /\ Started(F, k) \in [Key -> FetchState]
           /\ \A i \in Key : Started(F, k)[i] = F[i] \/ Started(F, k)[i].pc = "sent"
           /\ \A i \in Key : F[i].pc # "none" => Started(F, k)[i].pc # "none"
           /\ Started(F, k)[k].pc # "none"
           /\ HasData(k) => Started(F, k)[k].pc = "sent"
<1> DEFINE v == IF F[k].pc # "none" /\ ~HasData(k) THEN F[k] ELSE SentFetch
<1>1. Started(F, k) = [F EXCEPT ![k] = v]
    BY DEF Started
<1>2. /\ v \in FetchState /\ v.pc # "none" /\ (v = F[k] \/ v.pc = "sent")
      /\ HasData(k) => v.pc = "sent"
    BY DEF SentFetch, FetchState
<1> HIDE DEF v
<1> QED BY <1>1, <1>2

(* The screen goes to another entry. *)
LEMMA Showing ==
    ASSUME ScreenAssumption, ScreenInv, NEW f \in Filter, NEW p \in 1 .. MaxPage,
           Show(f, p), astray' \in BOOLEAN
    PROVE  ScreenInv'
<1> USE DEF ScreenInv
<1> DEFINE k == <<f, p>>
<1>1. k \in Key /\ Shown' = k
    BY DEF Show, Key
<1>2. PICK stale \in BOOLEAN :
          /\ stale \/ fresh[k]
          /\ fresh' = [fresh EXCEPT ![k] = ~stale]
          /\ IF stale /\ ~Fetching(k)
             THEN fetch' = [fetch EXCEPT ![k] = SentFetch] /\ failed' = Cleared(k)
             ELSE UNCHANGED <<fetch, failed>>
    BY DEF Show
<1>3. /\ filter' = f /\ page' = p /\ last' = IF HasData(k) THEN k ELSE last
      /\ UNCHANGED <<world, data, job, form, acked, faults>> /\ moves' \in Nat
    BY DEF Show, Move, TypeOK
<1>4. fresh' \in [Key -> BOOLEAN] /\ failed' \in [Key -> BOOLEAN]
    <2>1. fresh' \in [Key -> BOOLEAN]
        BY <1>2 DEF TypeOK
    <2>2. failed' \in [Key -> BOOLEAN]
        BY <1>2 DEF TypeOK, Cleared
    <2> QED BY <2>1, <2>2
<1>5. /\ fetch' \in [Key -> FetchState]
      /\ \A i \in Key : fetch'[i] = fetch[i] \/ fetch'[i].pc = "sent"
    <2>1. SentFetch \in FetchState /\ SentFetch.pc = "sent"
        BY DEF SentFetch, FetchState
    <2>2. fetch' = fetch \/ fetch' = [fetch EXCEPT ![k] = SentFetch]
        BY <1>2
    <2> HIDE DEF k
    <2> QED BY <1>1, <2>1, <2>2 DEF TypeOK
<1>6. \A i \in Key : fresh'[i] => fresh[i]
    BY <1>1, <1>2 DEF TypeOK
<1>7. TypeOK'
    BY <1>1, <1>3, <1>4, <1>5 DEF TypeOK, world
<1>8. PagesOK'
    BY <1>3, <1>5, <1>6 DEF PagesOK
<1>9. ShownOK'
    <2>1. CASE stale
        <3>1. fetch'[k].pc # "none"
            BY <1>1, <1>2, <2>1 DEF TypeOK, SentFetch
        <3> QED BY <1>1, <1>3, <3>1 DEF ShownOK, AtRest
    <2>2. CASE ~stale
        <3>1. fresh'[k]
            BY <1>1, <1>2, <2>2 DEF TypeOK
        <3> QED BY <1>1, <1>3, <3>1 DEF ShownOK
    <2> QED BY <2>1, <2>2
<1>10. JobsOK'
    BY <1>3, <1>5 DEF JobsOK, TypeOK, world
<1> QED BY <1>7, <1>8, <1>9, <1>10

LEMMA Navigation ==
    ASSUME ScreenAssumption, ScreenInv, Turn \/ Refine PROVE ScreenInv'
<1>1. CASE Turn
    <2>1. PICK p \in 1 .. MaxPage : Show(filter, p) /\ astray' \in BOOLEAN
        BY <1>1 DEF Turn, ScreenInv, TypeOK
    <2>2. filter \in Filter
        BY DEF ScreenInv, TypeOK
    <2> QED BY <2>1, <2>2, Showing
<1>2. CASE Refine
    <2>1. PICK f \in Filter : Show(f, 1) /\ astray' \in BOOLEAN
        BY <1>2 DEF Refine, ScreenInv, TypeOK
    <2>2. 1 \in 1 .. MaxPage
        BY DEF ScreenAssumption
    <2> QED BY <2>1, <2>2, Showing
<1> QED BY <1>1, <1>2

(* Finishing jobs makes some idle and leaves the others. *)
LEMMA Finishing ==
    ASSUME TypeOK, NEW J, Finish(J)
    PROVE  /\ job' \in [Job -> JobState] /\ form' \in User \cup {New, None}
           /\ \A j \in Job : job'[j] = IF j \in J THEN NoJob ELSE job[j]
<1>1. NoJob \in JobState
    BY DEF NoJob, JobState
<1>2. job' = [j \in Job |-> IF j \in J THEN NoJob ELSE job[j]]
    BY DEF Finish
<1>3. form' \in User \cup {New, None}
    BY DEF Finish, TypeOK
<1> QED BY <1>1, <1>2, <1>3 DEF TypeOK

LEMMA Retrying ==
    ASSUME ScreenAssumption, ScreenInv, Retry PROVE ScreenInv'
<1> USE DEF ScreenInv
<1>1. /\ fetch' = Started(fetch, Shown) /\ failed' = Cleared(Shown)
      /\ Finish(IF HasData(Shown) THEN Waiting({Shown}) ELSE {})
      /\ UNCHANGED <<world, place, data, fresh, acked, astray, faults>> /\ moves' \in Nat
    BY DEF Retry, Move, TypeOK
<1>2. Shown \in Key /\ Shown' = Shown
    BY <1>1 DEF TypeOK, place, Key
<1>3. /\ fetch' \in [Key -> FetchState]
      /\ \A i \in Key : fetch'[i] = fetch[i] \/ fetch'[i].pc = "sent"
      /\ \A i \in Key : fetch[i].pc # "none" => fetch'[i].pc # "none"
      /\ fetch'[Shown].pc # "none"
    <2>1. PICK k \in Key : k = Shown
        BY <1>2
    <2>2. fetch' = Started(fetch, k)
        <3>1. fetch' = Started(fetch, Shown)
            BY DEF Retry
        <3> QED BY <2>1, <3>1, Zenon
    <2>3. fetch \in [Key -> FetchState]
        BY DEF TypeOK
    <2>4. /\ Started(fetch, k) \in [Key -> FetchState]
          /\ \A i \in Key : Started(fetch, k)[i] = fetch[i] \/ Started(fetch, k)[i].pc = "sent"
          /\ \A i \in Key : fetch[i].pc # "none" => Started(fetch, k)[i].pc # "none"
          /\ Started(fetch, k)[k].pc # "none"
        BY <2>3, Starting
    <2> QED BY <2>1, <2>2, <2>4, Zenon
<1>4. /\ job' \in [Job -> JobState] /\ form' \in User \cup {New, None}
      /\ \A j \in Job : job'[j] = NoJob \/ job'[j] = job[j]
    BY <1>1, Finishing
<1>5. failed' \in [Key -> BOOLEAN]
    BY <1>1 DEF Cleared, TypeOK
<1>6. TypeOK'
    BY <1>1, <1>3, <1>4, <1>5 DEF TypeOK, world, place
<1>7. PagesOK'
    BY <1>1, <1>3 DEF PagesOK
<1>8. ShownOK'
    BY <1>1, <1>2, <1>3 DEF ShownOK, AtRest, place
<1>9. JobsOK'
    <2>1. \A j \in Job : /\ job'[j].stamp <= version
                         /\ job'[j].pc = "settling" => job'[j] = job[j]
        BY <1>4 DEF JobsOK, TypeOK, NoJob
    <2>2. acked' = acked /\ version' = version
        BY <1>1 DEF world
    <2>3. \A j \in Job : job[j].pc = "settling" => job[j].key \in Key /\ fetch[job[j].key].pc # "none"
        BY DEF JobsOK
    <2>4. acked <= version
        BY DEF JobsOK
    <2>5. ASSUME NEW j \in Job, job'[j].pc = "settling"
          PROVE  job'[j].key \in Key /\ fetch'[job'[j].key].pc # "none"
        <3>1. job'[j] = job[j] /\ job[j].pc = "settling"
            BY <2>1, <2>5
        <3>2. PICK i \in Key : i = job[j].key /\ fetch[i].pc # "none"
            BY <2>3, <3>1
        <3>3. fetch'[i].pc # "none"
            BY <1>3, <3>2
        <3> QED BY <3>1, <3>2, <3>3
    <2>6. acked' <= version' /\ \A j \in Job : job'[j].stamp <= version'
        BY <2>1, <2>2, <2>4
    <2> QED BY <2>5, <2>6 DEF JobsOK
<1> QED BY <1>6, <1>7, <1>8, <1>9

LEMMA Reading ==
    ASSUME ScreenAssumption, ScreenInv, NEW k \in Key, Read(k) PROVE ScreenInv'
<1> USE DEF ScreenInv
<1> DEFINE v == [pc |-> "read", got |-> Answer(k), outrun |-> FALSE]
<1>1. /\ fetch[k].pc = "sent" /\ fetch' = [fetch EXCEPT ![k] = v]
      /\ UNCHANGED <<world, place, data, fresh, failed, job, form, acked, astray, faults, moves>>
    BY DEF Read
<1>2. /\ v \in FetchState /\ v.pc = "read" /\ ~v.outrun
      /\ v.got \in Snap /\ v.got.seen = version
    BY AnswerType DEF FetchState
<1> HIDE DEF v
<1>3. TypeOK'
    BY <1>1, <1>2 DEF TypeOK, world, place
<1>4. PagesOK'
    <2>1. version >= acked
        BY DEF JobsOK, TypeOK
    <2> QED BY <1>1, <1>2, <2>1 DEF PagesOK, TypeOK
<1>5. ShownOK'
    BY <1>1, <1>2 DEF ShownOK, AtRest, TypeOK, place
<1>6. JobsOK'
    BY <1>1, <1>2 DEF JobsOK, TypeOK, world
<1> QED BY <1>3, <1>4, <1>5, <1>6

(* The end of the fetch of k: what waited for it goes on, nothing else is    *)
(* lost, and where the shown entry is not fetched its failures are as left.  *)
LEMMA Ending ==
    ASSUME TypeOK, NEW k \in Key, NEW F \in [Key -> FetchState], NEW G \in [Key -> BOOLEAN],
           Ended(k, F, G)
    PROVE  /\ fetch' \in [Key -> FetchState] /\ failed' \in [Key -> BOOLEAN]
           /\ \A i \in Key : fetch'[i] = F[i] \/ fetch'[i].pc = "sent"
           /\ \A i \in Key : F[i].pc # "none" => fetch'[i].pc # "none"
           /\ fetch'[Shown].pc = "none" => failed' = G
           /\ job' \in [Job -> JobState] /\ form' \in User \cup {New, None}
           /\ \A j \in Job : \/ job'[j] = NoJob
                             \/ job'[j] = job[j] /\ ~(job[j].pc = "settling" /\ job[j].key = k)
<1>1. Shown \in Key
    BY DEF TypeOK, Key
<1>2. CASE nuxt /\ Save \in Waiting({k})
    <2>1. /\ fetch' = Started(F, Shown)
          /\ failed' = [G EXCEPT ![Shown] = G[Shown] /\ data'[Shown] # None]
        BY <1>2 DEF Ended
    <2>2. PICK K : k \in K /\ Finish(Waiting(K))
        BY <1>2 DEF Ended
    <2>3. /\ job' \in [Job -> JobState] /\ form' \in User \cup {New, None}
          /\ \A j \in Job : job'[j] = IF j \in Waiting(K) THEN NoJob ELSE job[j]
        BY <2>2, Finishing
    <2>4. \A j \in Job : job[j].pc = "settling" /\ job[j].key = k => j \in Waiting(K)
        BY <2>2 DEF Waiting
    <2>5. failed' \in [Key -> BOOLEAN]
        BY <2>1
    <2>6. PICK s \in Key : s = Shown
        BY <1>1
    <2>7. /\ fetch' \in [Key -> FetchState]
          /\ \A i \in Key : fetch'[i] = F[i] \/ fetch'[i].pc = "sent"
          /\ \A i \in Key : F[i].pc # "none" => fetch'[i].pc # "none"
          /\ fetch'[Shown].pc # "none"
        <3>1. fetch' = Started(F, s)
            BY <2>1, <2>6
        <3> QED BY <2>6, <3>1, Starting
    <2> QED BY <2>3, <2>4, <2>5, <2>7
<1>3. CASE ~(nuxt /\ Save \in Waiting({k}))
    <2>1. fetch' = F /\ failed' = G /\ Finish(Waiting({k}))
        BY <1>3 DEF Ended
    <2>2. /\ job' \in [Job -> JobState] /\ form' \in User \cup {New, None}
          /\ \A j \in Job : job'[j] = IF j \in Waiting({k}) THEN NoJob ELSE job[j]
        BY <2>1, Finishing
    <2>3. \A j \in Job : job[j].pc = "settling" /\ job[j].key = k => j \in Waiting({k})
        BY DEF Waiting
    <2> QED BY <2>1, <2>2, <2>3
<1> QED BY <1>2, <1>3

(* What the end of the fetch of k, with or without a page, does to the rest. *)
LEMMA Leaving ==
    ASSUME ScreenInv, NEW k \in Key, NEW b \in BOOLEAN,
           Ended(k, [fetch EXCEPT ![k] = NoFetch], [failed EXCEPT ![k] = b]),
           UNCHANGED <<version, acked, filter, page>>
    PROVE  /\ fetch' \in [Key -> FetchState] /\ failed' \in [Key -> BOOLEAN]
           /\ job' \in [Job -> JobState] /\ form' \in User \cup {New, None}
           /\ \A i \in Key : fetch'[i].pc = "read" => fetch'[i] = fetch[i]
           /\ fetch'[Shown].pc = "none" => /\ failed'[Shown] = IF k = Shown THEN b ELSE failed[Shown]
                                           /\ k # Shown => fetch[Shown].pc = "none"
           /\ JobsOK'
<1> USE DEF ScreenInv
<1> DEFINE F == [fetch EXCEPT ![k] = NoFetch]
           G == [failed EXCEPT ![k] = b]
<1>1. /\ F \in [Key -> FetchState] /\ G \in [Key -> BOOLEAN]
      /\ F[k].pc = "none" /\ \A i \in Key : i # k => F[i] = fetch[i]
      /\ \A i \in Key : G[i] = IF i = k THEN b ELSE failed[i]
    BY DEF TypeOK, NoFetch, FetchState
<1>2. Shown \in Key
    BY DEF TypeOK, Key
<1> HIDE DEF F, G
<1>3. Ended(k, F, G)
    BY DEF F, G
<1>4. /\ fetch' \in [Key -> FetchState] /\ failed' \in [Key -> BOOLEAN]
      /\ \A i \in Key : fetch'[i] = F[i] \/ fetch'[i].pc = "sent"
      /\ \A i \in Key : F[i].pc # "none" => fetch'[i].pc # "none"
      /\ fetch'[Shown].pc = "none" => failed' = G
      /\ job' \in [Job -> JobState] /\ form' \in User \cup {New, None}
      /\ \A j \in Job : \/ job'[j] = NoJob
                        \/ job'[j] = job[j] /\ ~(job[j].pc = "settling" /\ job[j].key = k)
    BY <1>1, <1>3, Ending
<1>5. \A i \in Key : fetch'[i].pc = "read" => fetch'[i] = fetch[i]
    BY <1>1, <1>4
<1>6. fetch'[Shown].pc = "none" => /\ failed'[Shown] = IF k = Shown THEN b ELSE failed[Shown]
                                   /\ k # Shown => fetch[Shown].pc = "none"
    BY <1>1, <1>2, <1>4
<1>7. JobsOK'
    <2>1. \A j \in Job : job'[j].stamp <= version
        BY <1>4 DEF JobsOK, TypeOK, NoJob
    <2>2. ASSUME NEW j \in Job, job'[j].pc = "settling"
          PROVE  job'[j].key \in Key /\ fetch'[job'[j].key].pc # "none"
        <3>1. job'[j] = job[j] /\ job[j].pc = "settling" /\ job[j].key # k
            BY <1>4, <2>2 DEF NoJob
        <3>2. PICK i \in Key : i = job[j].key /\ fetch[i].pc # "none"
            BY <3>1 DEF JobsOK
        <3>3. fetch'[i].pc # "none"
            BY <1>1, <1>4, <3>1, <3>2
        <3> QED BY <3>1, <3>2, <3>3
    <2>3. acked' <= version' /\ \A j \in Job : job'[j].stamp <= version'
        BY <2>1 DEF JobsOK
    <2> QED BY <2>2, <2>3 DEF JobsOK
<1> QED BY <1>4, <1>5, <1>6, <1>7

LEMMA Arriving ==
    ASSUME ScreenAssumption, NoPage, ScreenInv, NEW k \in Key, Arrive(k) PROVE ScreenInv'
<1> USE DEF ScreenInv
<1> DEFINE v == [rows |-> fetch[k].got.rows, pages |-> fetch[k].got.pages,
                 seen |-> fetch[k].got.seen, outrun |-> fetch[k].outrun]
<1>1. /\ fetch[k].pc = "read"
      /\ data' = [data EXCEPT ![k] = v] /\ fresh' = [fresh EXCEPT ![k] = TRUE]
      /\ last' = IF k = Shown THEN k ELSE last
      /\ Ended(k, [fetch EXCEPT ![k] = NoFetch], [failed EXCEPT ![k] = FALSE])
      /\ UNCHANGED <<world, filter, page, acked, astray, faults, moves>>
    BY DEF Arrive
<1>2. v \in Entry /\ v # None /\ (v.outrun \/ v.seen >= acked)
    <2>1. /\ fetch[k] \in FetchState /\ fetch[k].got \in Snap
          /\ fetch[k].outrun \/ fetch[k].got.seen >= acked
        BY <1>1 DEF TypeOK, PagesOK
    <2>2. v \in Entry
        BY <2>1 DEF FetchState, Snap, Entry
    <2>3. v.outrun \/ v.seen >= acked
        BY <2>1
    <2> HIDE DEF v
    <2> QED BY <2>2, <2>3 DEF NoPage
<1> HIDE DEF v
<1>3. /\ fetch' \in [Key -> FetchState] /\ failed' \in [Key -> BOOLEAN]
      /\ job' \in [Job -> JobState] /\ form' \in User \cup {New, None}
      /\ \A i \in Key : fetch'[i].pc = "read" => fetch'[i] = fetch[i]
      /\ fetch'[Shown].pc = "none" => /\ failed'[Shown] = IF k = Shown THEN FALSE ELSE failed[Shown]
                                      /\ k # Shown => fetch[Shown].pc = "none"
      /\ JobsOK'
    BY <1>1, Leaving DEF world
<1>4. Shown \in Key /\ Shown' = Shown
    BY <1>1 DEF TypeOK, Key
<1>5. /\ data' \in [Key -> Entry \cup {None}] /\ fresh' \in [Key -> BOOLEAN]
      /\ \A i \in Key : data'[i] = IF i = k THEN v ELSE data[i]
      /\ \A i \in Key : fresh'[i] = IF i = k THEN TRUE ELSE fresh[i]
    BY <1>1, <1>2 DEF TypeOK
<1>6. TypeOK'
    BY <1>1, <1>3, <1>5 DEF TypeOK, world
<1>7. PagesOK'
    BY <1>1, <1>2, <1>3, <1>5 DEF PagesOK
<1>8. ShownOK'
    <2>1. AtRest(Shown)' => fresh'[Shown']
        BY <1>3, <1>4, <1>5 DEF ShownOK, AtRest
    <2>2. last' # None => HasData(last)'
        BY <1>1, <1>2, <1>5 DEF ShownOK, TypeOK
    <2> QED BY <2>1, <2>2 DEF ShownOK
<1> QED BY <1>3, <1>6, <1>7, <1>8

LEMMA Failing ==
    ASSUME ScreenAssumption, ScreenInv, NEW k \in Key, Fail(k) PROVE ScreenInv'
<1> USE DEF ScreenInv
<1>1. /\ Ended(k, [fetch EXCEPT ![k] = NoFetch], [failed EXCEPT ![k] = TRUE])
      /\ UNCHANGED <<world, place, data, fresh, acked, astray, moves>> /\ faults' \in Nat
    BY DEF Fail, TypeOK
<1>2. /\ fetch' \in [Key -> FetchState] /\ failed' \in [Key -> BOOLEAN]
      /\ job' \in [Job -> JobState] /\ form' \in User \cup {New, None}
      /\ \A i \in Key : fetch'[i].pc = "read" => fetch'[i] = fetch[i]
      /\ fetch'[Shown].pc = "none" => /\ failed'[Shown] = IF k = Shown THEN TRUE ELSE failed[Shown]
                                      /\ k # Shown => fetch[Shown].pc = "none"
      /\ JobsOK'
    BY <1>1, Leaving DEF world, place
<1>3. Shown' = Shown
    BY <1>1 DEF place
<1>4. TypeOK'
    BY <1>1, <1>2 DEF TypeOK, world, place
<1>5. PagesOK'
    BY <1>1, <1>2 DEF PagesOK
<1>6. ShownOK'
    BY <1>1, <1>2, <1>3 DEF ShownOK, AtRest, place
<1> QED BY <1>2, <1>4, <1>5, <1>6

(* The answer to a write: the pages it overtakes are marked, the shown entry *)
(* is fetched, and the job waits for that fetch.                             *)
LEMMA Acking ==
    ASSUME ScreenAssumption, ScreenInv, NEW d \in Job, Acked(d) PROVE ScreenInv'
<1> USE DEF ScreenInv
<1> DEFINE n == job[d].stamp
           F == Outrun(n)
<1>1. /\ acked' = IF n > acked THEN n ELSE acked
      /\ fresh' = [i \in Key |-> FALSE]
      /\ failed' = Cleared(Shown)
      /\ UNCHANGED <<world, place, data, astray, faults, moves>>
    BY DEF Acked, Stale
<1>2. n \in Nat /\ n <= version /\ acked <= version /\ acked \in Nat /\ version \in Nat
    BY DEF TypeOK, JobsOK, JobState
<1>3. acked' \in Nat /\ acked' <= version /\ (acked' = n \/ acked' = acked)
    BY <1>1, <1>2
<1>4. PICK k \in Key : k = Shown
    BY DEF TypeOK, Key
<1>5. /\ F \in [Key -> FetchState]
      /\ \A i \in Key : /\ F[i].pc = fetch[i].pc /\ F[i].got = fetch[i].got
                        /\ F[i].outrun = (fetch[i].outrun \/ Overtakes(n, i))
    <2>1. ASSUME NEW i \in Key
          PROVE  /\ F[i] \in FetchState /\ F[i].pc = fetch[i].pc /\ F[i].got = fetch[i].got
                 /\ F[i].outrun = (fetch[i].outrun \/ Overtakes(n, i))
        <3>1. fetch[i] \in FetchState
            BY DEF TypeOK
        <3>2. F[i] = IF Overtakes(n, i) THEN [fetch[i] EXCEPT !.outrun = TRUE] ELSE fetch[i]
            BY DEF Outrun
        <3> HIDE DEF n, F
        <3>3. CASE Overtakes(n, i)
            BY <3>1, <3>2, <3>3 DEF FetchState
        <3>4. CASE ~Overtakes(n, i)
            BY <3>1, <3>2, <3>4 DEF FetchState
        <3> QED BY <3>3, <3>4
    <2>2. F = [i \in Key |-> F[i]]
        BY DEF Outrun
    <2> HIDE DEF n, F
    <2> QED BY <2>1, <2>2
<1>6. fetch' = Started(F, k)
    BY <1>4 DEF Acked
<1> HIDE DEF n, F
<1>7. /\ fetch' \in [Key -> FetchState]
      /\ \A i \in Key : fetch'[i] = F[i] \/ fetch'[i].pc = "sent"
      /\ \A i \in Key : fetch[i].pc # "none" => fetch'[i].pc # "none"
      /\ fetch'[k].pc # "none"
      /\ HasData(k) => fetch'[k].pc = "sent"
    BY <1>5, <1>6, Starting
<1>8. /\ job' \in [Job -> JobState] /\ form' \in User \cup {New, None}
      /\ \A i \in Job : \/ job'[i] = NoJob \/ job'[i] = job[i]
                        \/ i = d /\ job'[i] = [job[d] EXCEPT !.pc = "settling", !.key = k]
    <2>1. PICK done : job' = [i \in Job |-> IF i \in done THEN NoJob
                             ELSE IF i = d THEN [job[d] EXCEPT !.pc = "settling", !.key = k]
                             ELSE job[i]]
        BY <1>4 DEF Acked
    <2>2. form' \in User \cup {New, None}
        BY DEF Acked, TypeOK
    <2>3. NoJob \in JobState /\ [job[d] EXCEPT !.pc = "settling", !.key = k] \in JobState
        <3>1. NoJob \in JobState
            BY DEF NoJob, JobState
        <3>2. job[d] \in JobState
            BY DEF TypeOK
        <3> QED BY <3>1, <3>2 DEF JobState
    <2>4. \A i \in Job : job[i] \in JobState
        BY DEF TypeOK
    <2> QED BY <2>1, <2>2, <2>3, <2>4
<1>9. TypeOK'
    <2>1. failed' \in [Key -> BOOLEAN] /\ fresh' \in [Key -> BOOLEAN]
        BY <1>1 DEF TypeOK, Cleared
    <2> QED BY <1>1, <1>3, <1>7, <1>8, <2>1 DEF TypeOK, world, place
<1>10. PagesOK'
    <2>1. ASSUME NEW i \in Key, fetch'[i].pc = "read"
          PROVE  fetch'[i].got \in Snap /\ (fetch'[i].outrun \/ fetch'[i].got.seen >= acked')
        <3>1. /\ fetch'[i] = F[i] /\ fetch[i].pc = "read" /\ fetch'[i].got = fetch[i].got
              /\ fetch'[i].outrun = (fetch[i].outrun \/ Overtakes(n, i))
            BY <1>5, <1>7, <2>1
        <3>2. fetch[i].got \in Snap /\ (fetch[i].outrun \/ fetch[i].got.seen >= acked)
            BY <3>1 DEF PagesOK
        <3>3. ~(i = Shown /\ HasData(i))
            BY <1>4, <1>7, <2>1
        <3>4. fetch[i].got.seen < n => Overtakes(n, i)
            BY <3>1, <3>3 DEF Overtakes
        <3>5. fetch[i].got.seen \in Nat
            BY <3>2 DEF Snap
        <3>6. Overtakes(n, i) \in BOOLEAN
            BY DEF Overtakes
        <3>7. fetch[i].got.seen >= n \/ Overtakes(n, i)
            BY <1>2, <3>4, <3>5
        <3> QED BY <1>3, <3>1, <3>2, <3>7
    <2>2. \A i \in Key : ~fresh'[i]
        BY <1>1
    <2> QED BY <2>1, <2>2 DEF PagesOK
<1>11. ShownOK'
    BY <1>1, <1>4, <1>7 DEF ShownOK, AtRest, place
<1>12. JobsOK'
    <2>1. ASSUME NEW j \in Job PROVE job'[j].stamp <= version
        <3>1. CASE job'[j] = NoJob
            BY <1>2, <3>1 DEF NoJob
        <3>2. CASE job'[j] = job[j]
            BY <3>2 DEF JobsOK
        <3>3. CASE j = d /\ job'[j] = [job[d] EXCEPT !.pc = "settling", !.key = k]
            BY <3>3 DEF JobsOK, TypeOK, JobState
        <3> QED BY <1>8, <3>1, <3>2, <3>3
    <2>2. ASSUME NEW j \in Job, job'[j].pc = "settling"
          PROVE  job'[j].key \in Key /\ fetch'[job'[j].key].pc # "none"
        <3>1. CASE job'[j] = NoJob
            BY <2>2, <3>1 DEF NoJob
        <3>2. CASE job'[j] = job[j]
            <4>1. PICK i \in Key : i = job[j].key /\ fetch[i].pc # "none"
                BY <2>2, <3>2 DEF JobsOK
            <4> QED BY <1>7, <3>2, <4>1
        <3>3. CASE j = d /\ job'[j] = [job[d] EXCEPT !.pc = "settling", !.key = k]
            <4>1. job'[j].key = k
                BY <3>3 DEF TypeOK, JobState
            <4> QED BY <1>7, <4>1
        <3> QED BY <1>8, <3>1, <3>2, <3>3
    <2>3. acked' <= version' /\ \A j \in Job : job'[j].stamp <= version'
        BY <1>1, <1>3, <2>1 DEF world
    <2> QED BY <2>2, <2>3 DEF JobsOK
<1> QED BY <1>9, <1>10, <1>11, <1>12

(* ScreenInv holds in every state the screen, its cache and the API can be   *)
(* in, for any bounds: pages not overtaken follow the acknowledged writes,   *)
(* the shown page is never left stale, and nobody waits for a fetch that is  *)
(* not under way.                                                            *)
THEOREM ScreenInvariance ==
    ASSUME ScreenAssumption, NoPage PROVE Spec => []ScreenInv
<1>1. Init => ScreenInv
    BY Initially
<1>2. ScreenInv /\ [Next]_vars => ScreenInv'
    <2> SUFFICES ASSUME ScreenInv, [Next]_vars PROVE ScreenInv'
        OBVIOUS
    <2>1. CASE Clicks
        BY <2>1, Navigation, Retrying, Forms DEF Clicks
    <2>2. CASE List
        BY <2>2, Reading, Arriving, Failing DEF List
    <2>3. CASE Jobs
        BY <2>3, Writes, Acking DEF Jobs
    <2>4. CASE OtherAdmin
        BY <2>4, Writes
    <2>5. CASE UNCHANGED vars
        <3>1. TypeOK'
            BY <2>5 DEF ScreenInv, TypeOK, vars, world, place, cache
        <3>2. UNCHANGED <<place, cache, acked, version, job>>
            BY <2>5 DEF vars, world
        <3>3. version' >= version
            BY <3>2 DEF ScreenInv, TypeOK
        <3> QED BY <3>1, <3>2, <3>3, Aside
    <2> QED BY <2>1, <2>2, <2>3, <2>4, <2>5 DEF Next
<1> QED BY <1>1, <1>2, PTL DEF Spec

(* A page shown at rest has seen every write the administrator was given the *)
(* answer of, unless that answer overtook it.                                *)
THEOREM FollowsWrites ==
    ASSUME ScreenAssumption, NoPage PROVE Spec => []ReadYourWrites
<1>1. ScreenInv => ReadYourWrites
    BY DEF ScreenInv, TypeOK, PagesOK, ShownOK, ReadYourWrites, AtRest, Key
<1> QED BY <1>1, ScreenInvariance, PTL

-----------------------------------------------------------------------------
(* PagesExist, from ranks among numbers to the steps of the screen. *)

(* A non-empty finite set of numbers has a greatest one. *)
LEMMA Greatest ==
    ASSUME NEW T \in SUBSET Nat, IsFiniteSet(T), T # {}
    PROVE  \E x \in T : \A y \in T : y <= x
<1> DEFINE Above(u) == {v \in T : v > u}
           F == {Above(u) : u \in T}
<1>1. F \in SUBSET FiniteSubsetsOf(T) /\ F # {}
    <2>1. \A u \in T : Above(u) \in SUBSET T
        OBVIOUS
    <2>2. F # {}
        OBVIOUS
    <2> HIDE DEF Above
    <2>3. F \in SUBSET SUBSET T
        BY <2>1
    <2> HIDE DEF F
    <2> QED BY <2>2, <2>3, FS_FiniteSubsetsOfFinite
<1>2. PICK A \in F : \A B \in F : ~(<<B, A>> \in StrictSubsetOrdering(T))
    <2> HIDE DEF F
    <2> QED BY <1>1, FS_StrictSubsetOrderingWellFounded, WFMin
<1>3. PICK x \in T : A = Above(x)
    BY <1>2
<1>4. ASSUME NEW y \in T, y > x PROVE FALSE
    <2>1. Above(y) \in SUBSET T /\ Above(x) \in SUBSET T
        OBVIOUS
    <2>2. y \in Above(x) /\ y \notin Above(y)
        <3>1. y \in Nat
            OBVIOUS
        <3>2. ~(y > y)
            BY <3>1
        <3> QED BY <1>4, <3>2
    <2>3. \A v \in T : v > y => v > x
        <3>1. \A v \in T : v \in Nat /\ x \in Nat /\ y \in Nat
            OBVIOUS
        <3> QED BY <1>4, <3>1
    <2>4. Above(y) \subseteq Above(x)
        BY <2>3
    <2>5. Above(y) \in F
        OBVIOUS
    <2> HIDE DEF Above, F
    <2>6. <<Above(y), Above(x)>> \in StrictSubsetOrdering(T)
        BY <2>1, <2>2, <2>4 DEF StrictSubsetOrdering
    <2> QED BY <1>2, <1>3, <2>5, <2>6
<1>5. \A y \in T : x \in Nat /\ y \in Nat
    OBVIOUS
<1> QED BY <1>3, <1>4, <1>5

(* And a least one. *)
LEMMA Least ==
    ASSUME NEW T \in SUBSET Nat, IsFiniteSet(T), T # {}
    PROVE  \E x \in T : \A y \in T : x <= y
<1> DEFINE Below(u) == {v \in T : v < u}
           F == {Below(u) : u \in T}
<1>1. F \in SUBSET FiniteSubsetsOf(T) /\ F # {}
    <2>1. \A u \in T : Below(u) \in SUBSET T
        OBVIOUS
    <2>2. F # {}
        OBVIOUS
    <2> HIDE DEF Below
    <2>3. F \in SUBSET SUBSET T
        BY <2>1
    <2> HIDE DEF F
    <2> QED BY <2>2, <2>3, FS_FiniteSubsetsOfFinite
<1>2. PICK A \in F : \A B \in F : ~(<<B, A>> \in StrictSubsetOrdering(T))
    <2> HIDE DEF F
    <2> QED BY <1>1, FS_StrictSubsetOrderingWellFounded, WFMin
<1>3. PICK x \in T : A = Below(x)
    BY <1>2
<1>4. ASSUME NEW y \in T, y < x PROVE FALSE
    <2>1. Below(y) \in SUBSET T /\ Below(x) \in SUBSET T
        OBVIOUS
    <2>2. y \in Below(x) /\ y \notin Below(y)
        <3>1. y \in Nat
            OBVIOUS
        <3>2. ~(y < y)
            BY <3>1
        <3> QED BY <1>4, <3>2
    <2>3. \A v \in T : v < y => v < x
        <3>1. \A v \in T : v \in Nat /\ x \in Nat /\ y \in Nat
            OBVIOUS
        <3> QED BY <1>4, <3>1
    <2>4. Below(y) \subseteq Below(x)
        BY <2>3
    <2>5. Below(y) \in F
        OBVIOUS
    <2> HIDE DEF Below, F
    <2>6. <<Below(y), Below(x)>> \in StrictSubsetOrdering(T)
        BY <2>1, <2>2, <2>4 DEF StrictSubsetOrdering
    <2> QED BY <1>2, <1>3, <2>5, <2>6
<1>5. \A y \in T : x \in Nat /\ y \in Nat
    OBVIOUS
<1> QED BY <1>3, <1>4, <1>5

(* Of a set with more than n numbers one has exactly n above it. *)
LEMMA Ranked ==
    ASSUME NEW M \in SUBSET Nat, IsFiniteSet(M), NEW n \in Nat, n < Cardinality(M)
    PROVE  \E u \in M : Cardinality({v \in M : v > u}) = n
<1> DEFINE Above(u) == {v \in M : v > u}
           Few == {u \in M : Cardinality(Above(u)) <= n}
<1>1. \A u \in M : IsFiniteSet(Above(u)) /\ Cardinality(Above(u)) \in Nat
    <2> TAKE u \in M
    <2>1. Above(u) \in SUBSET M
        OBVIOUS
    <2> HIDE DEF Above
    <2> QED BY <2>1, FS_Subset, FS_CardinalityType
<1>2. M # {}
    BY FS_EmptySet
<1>3. IsFiniteSet(Few) /\ Few \in SUBSET Nat
    <2>1. Few \in SUBSET M
        OBVIOUS
    <2> HIDE DEF Few
    <2> QED BY <2>1, FS_Subset
<1>4. Few # {}
    <2>1. PICK g \in M : \A y \in M : y <= g
        BY <1>2, Greatest
    <2>2. \A y \in M : g \in Nat /\ y \in Nat
        OBVIOUS
    <2>3. \A y \in M : ~(y > g)
        BY <2>1, <2>2
    <2>4. Above(g) = {}
        BY <2>3
    <2>5. Cardinality(Above(g)) <= n
        BY <2>4, FS_EmptySet
    <2> QED BY <2>5
<1>5. PICK u \in Few : \A v \in Few : u <= v
    <2> HIDE DEF Few
    <2> QED BY <1>3, <1>4, Least
<1>6. u \in M /\ u \in Nat /\ Cardinality(Above(u)) <= n
    BY <1>5
<1>7. ASSUME Cardinality(Above(u)) # n PROVE FALSE
    <2> DEFINE Below == {v \in M : v < u}
    <2>1. Cardinality(Above(u)) < n
        BY <1>1, <1>6, <1>7
    <2>2. u \notin Above(u)
        BY <1>6
    <2>3. Below # {}
        <3>1. SUFFICES ASSUME Below = {} PROVE FALSE
            OBVIOUS
        <3>2. \A v \in M : v = u \/ v > u
            BY <1>6, <3>1
        <3>3. M = Above(u) \cup {u}
            BY <1>6, <3>2
        <3> HIDE DEF Above
        <3>4. Cardinality(M) = Cardinality(Above(u)) + 1
            BY <1>1, <1>6, <2>2, <3>3, FS_AddElement
        <3> QED BY <1>1, <1>6, <2>1, <3>4
    <2>4. IsFiniteSet(Below) /\ Below \in SUBSET Nat
        <3>1. Below \in SUBSET M
            OBVIOUS
        <3> HIDE DEF Below
        <3> QED BY <3>1, FS_Subset
    <2>5. PICK w \in Below : \A y \in Below : y <= w
        <3> HIDE DEF Below
        <3> QED BY <2>3, <2>4, Greatest
    <2>6. w \in M /\ w \in Nat /\ w < u
        BY <2>5
    <2>7. \A v \in M : v > w <=> v > u \/ v = u
        <3> TAKE v \in M
        <3>1. v \in Nat
            OBVIOUS
        <3>2. v < u => v <= w
            BY <2>5
        <3> QED BY <1>6, <2>6, <3>1, <3>2
    <2>8. Above(w) = Above(u) \cup {u}
        BY <1>6, <2>7
    <2>9. Cardinality(Above(w)) = Cardinality(Above(u)) + 1
        <3> HIDE DEF Above
        <3> QED BY <1>1, <1>6, <2>2, <2>8, FS_AddElement
    <2>10. Cardinality(Above(w)) <= n
        <3> HIDE DEF Above
        <3> QED BY <1>1, <1>6, <2>1, <2>9
    <2>11. w \in Few
        BY <2>6, <2>10
    <2> HIDE DEF Few
    <2> QED BY <1>5, <1>6, <2>6, <2>11
<1> QED BY <1>6, <1>7

(* What the quotient by P reaches, its multiple does. *)
LEMMA Quotients ==
    ASSUME NEW m \in Nat, NEW P \in Nat \ {0}, NEW a \in Nat, a <= m \div P
    PROVE  a * P <= m /\ a * P \in Nat /\ m \div P \in Nat
<1>1. m \div P \in Nat /\ (m \div P) * P <= m
    BY SMT
<1>2. PICK c \in Nat : m \div P = a + c
    <2>1. m \div P - a \in Nat
        BY <1>1
    <2> QED BY <1>1, <2>1
<1>3. (m \div P) * P = a * P + c * P
    BY <1>2, SMT
<1>4. a * P \in Nat /\ c * P \in Nat
    BY SMT
<1> QED BY <1>1, <1>3, <1>4

(* There are finitely many users, and so matches of a filter. *)
LEMMA UsersFinite == ASSUME ScreenAssumption PROVE IsFiniteSet(User) /\ User \in SUBSET Nat
<1>1. 1 \in Int /\ Users \in Int
    BY DEF ScreenAssumption
<1>2. IsFiniteSet(User)
    BY <1>1, FS_Interval
<1> QED BY <1>2 DEF ScreenAssumption

(* The matches of a filter can be counted. *)
LEMMA Matches ==
    ASSUME ScreenAssumption, NEW f
    PROVE  /\ Matching(f) \in SUBSET Nat /\ IsFiniteSet(Matching(f))
           /\ Cardinality(Matching(f)) \in Nat
           /\ Cardinality(Matching(f)) = 0 <=> Matching(f) = {}
<1>1. Matching(f) \in SUBSET User
    BY DEF Matching, Existing
<1>2. Matching(f) \in SUBSET Nat /\ IsFiniteSet(Matching(f))
    BY <1>1, UsersFinite, FS_Subset
<1> QED BY <1>2, FS_CardinalityType, FS_EmptySet

(* A list has at least one page, in this state and in the next. *)
LEMMA PagesOf ==
    ASSUME ScreenAssumption, NEW M \in SUBSET User
    PROVE  1 + (Cardinality(M) - (IF M = {} THEN 0 ELSE 1)) \div PageSize \in Nat \ {0}
<1> DEFINE n == Cardinality(M) - (IF M = {} THEN 0 ELSE 1)
<1>1. IsFiniteSet(M)
    BY UsersFinite, FS_Subset
<1>2. n \in Nat
    BY <1>1, FS_CardinalityType, FS_EmptySet
<1> HIDE DEF n
<1>3. n \div PageSize \in Nat
    BY <1>2, Quotients DEF ScreenAssumption
<1>4. 1 + n \div PageSize \in Nat \ {0}
    BY <1>3
<1> QED BY <1>4 DEF n

(* The same of a filter's list. *)
LEMMA PagesCounted ==
    ASSUME ScreenAssumption, NEW f PROVE PageCount(f) \in Nat \ {0} /\ PageCount(f)' \in Nat \ {0}
<1>1. Matching(f) \in SUBSET User /\ Matching(f)' \in SUBSET User
    BY DEF Matching, Existing
<1> QED BY <1>1, PagesOf DEF PageCount

(* The API answers a request for a page of its list with rows: of the users  *)
(* that match one has just as many before it as the pages before hold.       *)
LEMMA AnswerFilled ==
    ASSUME ScreenAssumption, NEW k \in Key, k[2] <= PageCount(k[1])
    PROVE  Filled(Answer(k), k)
<1> DEFINE f == k[1]
           p == k[2]
           M == Matching(f)
           n == Cardinality(M) - (IF M = {} THEN 0 ELSE 1)
<1>1. p \in Nat \ {0} /\ p <= PageCount(f) /\ PageSize \in Nat \ {0}
    BY DEF Key, ScreenAssumption
<1>2. Answer(k).rows = Rows(f, p) /\ Answer(k).pages = PageCount(f)
    BY DEF Answer
<1>3. M \in SUBSET Nat /\ IsFiniteSet(M) /\ Cardinality(M) \in Nat /\ n \in Nat
      /\ (M = {} => Cardinality(M) = 0)
    BY Matches
<1>4. PageCount(f) = 1 + n \div PageSize
    BY DEF PageCount
<1>5. Rows(f, p) = {u \in M : Cardinality({v \in M : v > u}) \in (p - 1) * PageSize .. p * PageSize - 1}
    BY DEF Rows, Ahead
<1>6. n = 0 \/ n = Cardinality(M) - 1
    BY <1>3
<1>7. PageCount(f) \in Nat
    BY PagesCounted
<1> HIDE DEF f, p, M, n
<1>8. ASSUME p > 1 PROVE Rows(f, p) # {}
    <2> DEFINE a == p - 1
               s == a * PageSize
    <2>1. a \in Nat \ {0} /\ a <= n \div PageSize
        <3>1. n \div PageSize \in Nat
            BY <1>1, <1>3, Quotients
        <3> QED BY <1>1, <1>4, <1>8, <3>1
    <2>2. p * PageSize = s + PageSize
        <3>1. p = a + 1
            BY <1>1
        <3> HIDE DEF a
        <3> QED BY <1>1, <2>1, <3>1, SMT
    <2> HIDE DEF a
    <2>3. s <= n /\ s \in Nat /\ s >= PageSize
        <3>1. s <= n /\ s \in Nat
            BY <1>1, <1>3, <2>1, Quotients
        <3>2. PICK c \in Nat : a = c + 1
            <4>1. a - 1 \in Nat
                BY <2>1
            <4> QED BY <2>1, <4>1
        <3>3. c * PageSize \in Nat /\ s = c * PageSize + PageSize
            BY <1>1, <3>2, SMT
        <3> QED BY <1>1, <3>1, <3>3
    <2> HIDE DEF s
    <2>4. s < Cardinality(M)
        BY <1>1, <1>3, <1>6, <2>3
    <2>5. PICK u \in M : Cardinality({v \in M : v > u}) = s
        BY <1>3, <2>3, <2>4, Ranked
    <2>6. s \in s .. p * PageSize - 1
        BY <1>1, <2>2, <2>3
    <2>7. u \in Rows(f, p)
        BY <1>5, <2>5, <2>6 DEF s, a
    <2> QED BY <2>7
<1> QED BY <1>2, <1>7, <1>8 DEF Filled, f, p

(* While the API's table stands still, so do its page counts and answers. *)
LEMMA Steady ==
    ASSUME UNCHANGED role PROVE \A f : PageCount(f)' = PageCount(f)
<1> TAKE f
<1>1. Matching(f)' = Matching(f)
    BY DEF Matching, Existing
<1> QED BY <1>1 DEF PageCount

(* What keeps ListsOK: while no list shrinks and the page is one of its      *)
(* list, requests that go on, or start for such a page, or are answered, and *)
(* answers that are kept, or become data.                                    *)
LEMMA Keeping ==
    ASSUME ScreenAssumption, ScreenInv, ListsOK,
           filter' \in Filter, page' \in Nat,
           ~astray' => /\ ~astray
                       /\ \A f \in Filter : PageCount(f)' >= PageCount(f)
                       /\ page' <= PageCount(filter)',
           \A k \in Key :
               \/ fetch'[k].pc = "none"
               \/ fetch'[k].pc = "sent" /\ (Fetching(k) \/ k = Shown')
               \/ fetch'[k].pc = "read" /\ fetch[k].pc = "read" /\ fetch'[k].got = fetch[k].got
               \/ fetch'[k].pc = "read" /\ fetch[k].pc = "sent" /\ fetch'[k].got = Answer(k),
           \A k \in Key :
               \/ data'[k] = data[k]
               \/ /\ fetch[k].pc = "read"
                  /\ data'[k].rows = fetch[k].got.rows /\ data'[k].pages = fetch[k].got.pages
    PROVE  ListsOK'
<1> SUFFICES ASSUME ~astray', NEW k \in Key
             PROVE  /\ Fetching(k)' => k[2] <= PageCount(k[1])'
                    /\ (fetch[k].pc = "read" => Filled(fetch[k].got, k))'
                    /\ (HasData(k) => Filled(data[k], k))'
    BY DEF ListsOK
<1>1. /\ Fetching(k) => k[2] <= PageCount(k[1])
      /\ fetch[k].pc = "read" => Filled(fetch[k].got, k)
      /\ HasData(k) => Filled(data[k], k)
    BY DEF ListsOK
<1>2. /\ k[1] \in Filter /\ k[2] \in Nat
      /\ PageCount(k[1]) \in Nat /\ PageCount(k[1])' \in Nat /\ PageCount(k[1])' >= PageCount(k[1])
    <2>1. k[1] \in Filter /\ k[2] \in Nat
        BY DEF Key
    <2> QED BY <2>1, PagesCounted
<1>3. /\ fetch[k].pc = "read" => fetch[k].got.pages \in Nat
      /\ HasData(k) => data[k].pages \in Nat
    BY DEF ScreenInv, TypeOK, PagesOK, Snap, Entry
<1>4. k = Shown' => k[2] <= PageCount(k[1])'
    <2>1. k = Shown' => k[1] = filter' /\ k[2] = page'
        OBVIOUS
    <2>2. ASSUME k = Shown' PROVE PageCount(filter)' = PageCount(k[1])'
        BY <2>1, <2>2 DEF PageCount, Matching
    <2> QED BY <2>1, <2>2
<1>5. Fetching(k)' => k[2] <= PageCount(k[1])'
    BY <1>1, <1>2, <1>4
<1>6. ASSUME fetch'[k].pc = "read" PROVE Filled(fetch[k].got, k)'
    <2>1. CASE fetch[k].pc = "read" /\ fetch'[k].got = fetch[k].got
        <3>1. Filled(fetch[k].got, k) /\ fetch[k].got.pages \in Nat
            BY <1>1, <1>3, <2>1
        <3> QED BY <1>2, <2>1, <3>1 DEF Filled
    <2>2. CASE fetch[k].pc = "sent" /\ fetch'[k].got = Answer(k)
        <3>1. Filled(Answer(k), k)
            BY <1>1, <2>2, AnswerFilled
        <3>2. Answer(k).pages \in Nat
            BY <1>2 DEF Answer
        <3> QED BY <1>2, <2>2, <3>1, <3>2 DEF Filled
    <2> QED BY <1>6, <2>1, <2>2
<1>7. ASSUME HasData(k)' PROVE Filled(data[k], k)'
    <2>1. CASE data'[k] = data[k]
        BY <1>1, <1>2, <1>3, <1>7, <2>1 DEF Filled
    <2>2. CASE /\ fetch[k].pc = "read"
               /\ data'[k].rows = fetch[k].got.rows /\ data'[k].pages = fetch[k].got.pages
        <3>1. Filled(fetch[k].got, k) /\ fetch[k].got.pages \in Nat
            BY <1>1, <1>3, <2>2
        <3> QED BY <1>2, <2>2, <3>1 DEF Filled
    <2> QED BY <2>1, <2>2
<1> QED BY <1>5, <1>6, <1>7

(* Steps that leave the screen and its cache alone, and shrink no list        *)
(* unless astray says so.                                                     *)
LEMMA BesideLists ==
    ASSUME ScreenAssumption, ScreenInv, ListsOK, UNCHANGED <<place, cache>>,
           ~astray' => ~astray /\ \A f \in Filter : PageCount(f)' >= PageCount(f)
    PROVE  ListsOK'
<1>1. UNCHANGED <<filter, page, data, fetch>> /\ filter \in Filter /\ page \in Nat
    BY DEF place, cache, ScreenInv, TypeOK
<1>2. ~astray' => page' <= PageCount(filter)'
    <2>1. ASSUME ~astray' PROVE page <= PageCount(filter)
        BY <2>1 DEF ListsOK
    <2>3. ASSUME ~astray' PROVE PageCount(filter)' >= PageCount(filter)
        <3>1. PICK f \in Filter : f = filter
            BY <1>1
        <3>2. PageCount(f)' >= PageCount(f)
            BY <2>3
        <3> QED BY <1>1, <3>1, <3>2 DEF PageCount, Matching
    <2>4. PageCount(filter) \in Nat /\ PageCount(filter)' \in Nat
        BY <1>1, PagesCounted
    <2> QED BY <1>1, <2>1, <2>3, <2>4
<1>3. \A k \in Key : \/ fetch'[k].pc = "none"
                     \/ fetch'[k].pc = "sent" /\ Fetching(k)
                     \/ fetch'[k].pc = "read" /\ fetch[k].pc = "read" /\ fetch'[k].got = fetch[k].got
    BY <1>1 DEF ScreenInv, TypeOK, FetchState
<1> QED BY <1>1, <1>2, <1>3, Keeping

(* In particular, no list shrinks then. *)
LEMMA Unshrunk ==
    ASSUME ScreenAssumption, UNCHANGED role
    PROVE  \A f \in Filter : PageCount(f)' = PageCount(f) /\ PageCount(f) \in Nat /\ PageCount(f)' >= PageCount(f)
BY Steady, PagesCounted

(* A write shrinks no list but the ones it is counted for. *)
LEMMA WritesKeep ==
    ASSUME ScreenAssumption, NEW j, NEW t, Effect(j, t)
    PROVE  ~astray' => ~astray /\ \A f \in Filter : PageCount(f)' >= PageCount(f)
<1>1. PICK u, s : Write(u, s)
    BY DEF Effect
<1>2. ASSUME NEW f \in Filter, ~(PageCount(f)' < PageCount(f)) PROVE PageCount(f)' >= PageCount(f)
    BY <1>2, PagesCounted
<1> QED BY <1>1, <1>2 DEF Write

(* The form, the dialog, the writes and their answers that fetch nothing. *)
LEMMA FormsKeepLists ==
    ASSUME ScreenAssumption, ScreenInv, ListsOK,
           \/ Open \/ Cancel \/ Submit \/ AskRemove \/ OtherAdmin \/ UNCHANGED vars
           \/ \E j \in Job : Confirm(j) \/ Serve(j) \/ Refused(j) \/ Lost(j)
    PROVE  ListsOK'
<1>1. UNCHANGED <<place, cache>>
    BY DEF Open, Cancel, Submit, AskRemove, OtherAdmin, Confirm, Serve, Refused, Lost, vars
<1>2. CASE UNCHANGED <<world, astray>>
    <2>1. UNCHANGED role /\ UNCHANGED astray
        BY <1>2 DEF world
    <2> QED BY <1>1, <2>1, Unshrunk, BesideLists
<1>3. CASE OtherAdmin
    <2>1. PICK j, t : Effect(j, t)
        BY <1>3 DEF OtherAdmin
    <2> QED BY <1>1, <2>1, WritesKeep, BesideLists
<1>4. ASSUME NEW j \in Job, Serve(j) PROVE ListsOK'
    <2>1. CASE Effect(j, job[j].target)
        BY <1>1, <2>1, WritesKeep, BesideLists
    <2> QED BY <1>2, <1>4, <2>1 DEF Serve
<1>5. \/ OtherAdmin \/ (\E j \in Job : Serve(j)) \/ UNCHANGED <<world, astray>>
    BY DEF Open, Cancel, Submit, AskRemove, Confirm, Refused, Lost, vars
<1> QED BY <1>2, <1>3, <1>4, <1>5

(* Turning pages ends at the last page of the list, unless it is another's. *)
LEMMA TurningPages ==
    ASSUME ScreenAssumption, ScreenInv, ListsOK, NEW p \in 1 .. MaxPage, NEW f \in Filter,
           Show(f, p), ~astray' => ~astray /\ p <= PageCount(f)
    PROVE  ListsOK'
<1>1. /\ filter' = f /\ page' = p /\ UNCHANGED <<role, data>> /\ Shown' = <<f, p>>
      /\ fetch' = fetch \/ fetch' = [fetch EXCEPT ![<<f, p>>] = SentFetch]
    BY DEF Show, world
<1>2. \A g \in Filter : PageCount(g)' = PageCount(g) /\ PageCount(g)' >= PageCount(g)
    BY <1>1, Unshrunk
<1>3. PageCount(filter)' = PageCount(f)'
    BY <1>1 DEF PageCount, Matching
<1>4. ASSUME NEW k \in Key
      PROVE  \/ fetch'[k].pc = "none"
             \/ fetch'[k].pc = "sent" /\ (Fetching(k) \/ k = Shown')
             \/ fetch'[k].pc = "read" /\ fetch[k].pc = "read" /\ fetch'[k].got = fetch[k].got
    <2>1. fetch[k].pc \in {"none", "sent", "read"} /\ fetch \in [Key -> FetchState]
        BY DEF ScreenInv, TypeOK, FetchState
    <2>2. fetch'[k] = fetch[k] \/ (k = Shown' /\ fetch'[k] = SentFetch)
        BY <1>1, <2>1
    <2> QED BY <2>1, <2>2 DEF SentFetch
<1>5. filter' \in Filter /\ page' \in Nat
    BY <1>1
<1>6. ~astray' => page' <= PageCount(filter)'
    BY <1>1, <1>2, <1>3
<1> QED BY <1>1, <1>2, <1>4, <1>5, <1>6, Keeping

(* The pager stops at the last page of the list on the screen; a filter       *)
(* starts at the first.                                                      *)
LEMMA NavigationKeepsLists ==
    ASSUME ScreenAssumption, ScreenInv, ListsOK, Turn \/ Refine PROVE ListsOK'
<1>1. filter \in Filter /\ page \in Nat
    BY DEF ScreenInv, TypeOK
<1>2. CASE Refine
    <2>1. PICK f \in Filter : Show(f, 1) /\ UNCHANGED astray
        BY <1>2 DEF Refine
    <2>2. 1 \in 1 .. MaxPage /\ 1 <= PageCount(f)
        <3>1. PageCount(f) \in Nat \ {0}
            BY PagesCounted
        <3> QED BY <3>1 DEF ScreenAssumption
    <2> QED BY <2>1, <2>2, TurningPages
<1>3. CASE Turn
    <2>1. PICK p \in 1 .. MaxPage :
              /\ p \in {page - 1, page + 1} /\ (p < page \/ page < PagesShown)
              /\ Show(filter, p) /\ astray' = (astray \/ (p > page /\ Displayed[1] # filter))
        BY <1>3 DEF Turn
    <2>2. PagesShown > 1
        BY <1>3 DEF Turn
    <2>3. PageCount(filter) \in Nat
        BY <1>1, PagesCounted
    <2>4. ASSUME ~astray' PROVE ~astray /\ p <= PageCount(filter)
        <3>1. ~astray /\ page <= PageCount(filter)
            BY <2>1, <2>4 DEF ListsOK, ScreenInv, TypeOK
        <3>2. CASE p < page
            BY <1>1, <2>3, <3>1, <3>2
        <3>3. CASE ~(p < page)
            <4>1. p = page + 1 /\ page < PagesShown
                BY <1>1, <2>1, <3>3
            <4>2. Displayed # None /\ Displayed[1] = filter
                <5>1. p > page
                    BY <1>1, <4>1
                <5>2. Displayed[1] = filter
                    BY <2>1, <2>4, <5>1, Zenon
                <5> QED BY <2>2, <5>2 DEF PagesShown
            <4>3. Displayed \in Key /\ data[Displayed] \in Entry /\ data[Displayed] # None
                BY <4>2, ScreenType DEF ScreenInv, ShownOK, Displayed
            <4>4. PagesShown = data[Displayed].pages /\ PagesShown <= PageCount(filter)
                BY <3>1, <4>2, <4>3 DEF ListsOK, Filled, PagesShown
            <4>5. PagesShown \in Nat
                BY <4>3, <4>4 DEF Entry
            <4> QED BY <1>1, <2>3, <3>1, <4>1, <4>4, <4>5
        <3> QED BY <3>2, <3>3
    <2> QED BY <1>1, <2>1, <2>4, TurningPages
<1> QED BY <1>2, <1>3

(* The table and the page stay; requests start for the shown page only. *)
LEMMA FetchesKeepLists ==
    ASSUME ScreenAssumption, ScreenInv, ListsOK, UNCHANGED <<role, astray, filter, page>>,
           \A k \in Key :
               \/ fetch'[k].pc = "none"
               \/ fetch'[k].pc = "sent" /\ (Fetching(k) \/ k = Shown)
               \/ fetch'[k].pc = "read" /\ fetch[k].pc = "read" /\ fetch'[k].got = fetch[k].got
               \/ fetch'[k].pc = "read" /\ fetch[k].pc = "sent" /\ fetch'[k].got = Answer(k),
           \A k \in Key :
               \/ data'[k] = data[k]
               \/ /\ fetch[k].pc = "read"
                  /\ data'[k].rows = fetch[k].got.rows /\ data'[k].pages = fetch[k].got.pages
    PROVE  ListsOK'
<1>1. filter \in Filter /\ page \in Nat /\ Shown' = Shown
    BY DEF ScreenInv, TypeOK
<1>2. \A f \in Filter : PageCount(f)' = PageCount(f) /\ PageCount(f)' >= PageCount(f)
    BY Unshrunk
<1>3. PageCount(filter)' = PageCount(filter)
    BY Steady
<1>4. ~astray' => page' <= PageCount(filter)'
    BY <1>3 DEF ListsOK
<1> QED BY <1>1, <1>2, <1>4, Keeping

(* A fetch that starts for the shown entry is the only one that does. *)
LEMMA StartingKeeps ==
    ASSUME TypeOK, NEW F \in [Key -> FetchState], NEW k \in Key
    PROVE  Started(F, Shown)[k] = F[k] \/ (k = Shown /\ Started(F, Shown)[k] = SentFetch)
<1>1. PICK s \in Key : s = Shown
    BY DEF TypeOK, Key
<1> QED BY <1>1 DEF Started

(* So it is when a fetch ends. *)
LEMMA EndingKeeps ==
    ASSUME ScreenInv, NEW k \in Key, NEW G, NEW i \in Key,
           Ended(k, [fetch EXCEPT ![k] = NoFetch], G)
    PROVE  \/ fetch'[i] = fetch[i] \/ fetch'[i] = NoFetch
           \/ fetch'[i] = SentFetch /\ i = Shown
<1> DEFINE F == [fetch EXCEPT ![k] = NoFetch]
<1>1. F \in [Key -> FetchState] /\ (F[i] = fetch[i] \/ F[i] = NoFetch)
    BY DEF ScreenInv, TypeOK, NoFetch, FetchState
<1> HIDE DEF F
<1>2. fetch' = F \/ fetch' = Started(F, Shown)
    BY DEF Ended, F
<1>3. Started(F, Shown)[i] = F[i] \/ (i = Shown /\ Started(F, Shown)[i] = SentFetch)
    BY <1>1, StartingKeeps DEF ScreenInv
<1> QED BY <1>1, <1>2, <1>3

(* The requests of the list, from the start to the end. *)
LEMMA RequestsKeepLists ==
    ASSUME ScreenAssumption, ScreenInv, ListsOK,
           \/ Retry \/ \E k \in Key : Read(k) \/ Arrive(k) \/ Fail(k)
           \/ \E j \in Job : Acked(j)
    PROVE  ListsOK'
<1> DEFINE FetchOK(k) ==
               \/ fetch'[k].pc = "none"
               \/ fetch'[k].pc = "sent" /\ (Fetching(k) \/ k = Shown)
               \/ fetch'[k].pc = "read" /\ fetch[k].pc = "read" /\ fetch'[k].got = fetch[k].got
               \/ fetch'[k].pc = "read" /\ fetch[k].pc = "sent" /\ fetch'[k].got = Answer(k)
           DataOK(k) ==
               \/ data'[k] = data[k]
               \/ /\ fetch[k].pc = "read"
                  /\ data'[k].rows = fetch[k].got.rows /\ data'[k].pages = fetch[k].got.pages
<1>1. /\ fetch \in [Key -> FetchState] /\ data \in [Key -> Entry \cup {None}]
      /\ \A k \in Key : fetch[k].pc \in {"none", "sent", "read"}
    BY DEF ScreenInv, TypeOK, FetchState
<1>2. \A k \in Key : \/ fetch'[k] = fetch[k] \/ fetch'[k] = NoFetch
                     \/ fetch'[k] = SentFetch /\ k = Shown
                     => FetchOK(k)
    BY <1>1 DEF NoFetch, SentFetch
<1>3. ASSUME \A k \in Key : FetchOK(k) /\ DataOK(k), UNCHANGED <<role, astray, filter, page>>
      PROVE  ListsOK'
    BY <1>3, FetchesKeepLists
<1>4. CASE Retry
    <2>1. UNCHANGED <<role, astray, filter, page, data>> /\ fetch' = Started(fetch, Shown)
        BY <1>4 DEF Retry, world, place
    <2>2. \A k \in Key : fetch'[k] = fetch[k] \/ (k = Shown /\ fetch'[k] = SentFetch)
        BY <1>1, <2>1, StartingKeeps DEF ScreenInv
    <2>3. \A k \in Key : FetchOK(k) /\ DataOK(k)
        BY <1>2, <2>1, <2>2
    <2> HIDE DEF FetchOK, DataOK
    <2> QED BY <1>3, <2>1, <2>3
<1>5. ASSUME NEW k \in Key, Read(k) PROVE ListsOK'
    <2>1. /\ UNCHANGED <<role, astray, filter, page, data>> /\ fetch[k].pc = "sent"
          /\ fetch' = [fetch EXCEPT ![k] = [pc |-> "read", got |-> Answer(k), outrun |-> FALSE]]
        BY <1>5 DEF Read, world, place
    <2>2. \A i \in Key : i # k => FetchOK(i)
        BY <1>1, <1>2, <2>1
    <2>3. FetchOK(k)
        BY <1>1, <2>1
    <2>4. \A i \in Key : DataOK(i)
        BY <2>1
    <2> HIDE DEF FetchOK, DataOK
    <2> QED BY <1>3, <2>1, <2>2, <2>3, <2>4
<1>6. ASSUME NEW k \in Key, Arrive(k) PROVE ListsOK'
    <2>1. /\ UNCHANGED <<role, astray, filter, page>> /\ fetch[k].pc = "read"
          /\ Ended(k, [fetch EXCEPT ![k] = NoFetch], [failed EXCEPT ![k] = FALSE])
          /\ data' = [data EXCEPT ![k] = [rows |-> fetch[k].got.rows, pages |-> fetch[k].got.pages,
                                          seen |-> fetch[k].got.seen, outrun |-> fetch[k].outrun]]
        BY <1>6 DEF Arrive, world
    <2>2. \A i \in Key : FetchOK(i)
        BY <1>2, <2>1, EndingKeeps
    <2>3. \A i \in Key : DataOK(i)
        BY <1>1, <2>1
    <2> HIDE DEF FetchOK, DataOK
    <2> QED BY <1>3, <2>1, <2>2, <2>3
<1>7. ASSUME NEW k \in Key, Fail(k) PROVE ListsOK'
    <2>1. /\ UNCHANGED <<role, astray, filter, page, data>>
          /\ Ended(k, [fetch EXCEPT ![k] = NoFetch], [failed EXCEPT ![k] = TRUE])
        BY <1>7 DEF Fail, world, place
    <2>2. \A i \in Key : FetchOK(i)
        BY <1>2, <2>1, EndingKeeps
    <2>3. \A i \in Key : DataOK(i)
        BY <2>1
    <2> HIDE DEF FetchOK, DataOK
    <2> QED BY <1>3, <2>1, <2>2, <2>3
<1>8. ASSUME NEW j \in Job, Acked(j) PROVE ListsOK'
    <2> DEFINE F == Outrun(job[j].stamp)
    <2>1. UNCHANGED <<role, astray, filter, page, data>> /\ fetch' = Started(F, Shown)
        BY <1>8 DEF Acked, world, place
    <2>2. F \in [Key -> FetchState] /\ \A k \in Key : F[k].pc = fetch[k].pc /\ F[k].got = fetch[k].got
        BY <1>1 DEF Outrun, FetchState
    <2> HIDE DEF F
    <2>3. \A k \in Key : fetch'[k] = F[k] \/ (k = Shown /\ fetch'[k] = SentFetch)
        BY <2>1, <2>2, StartingKeeps DEF ScreenInv
    <2>4. \A k \in Key : FetchOK(k) /\ DataOK(k)
        BY <1>1, <2>1, <2>2, <2>3 DEF SentFetch
    <2> HIDE DEF FetchOK, DataOK
    <2> QED BY <1>3, <2>1, <2>4
<1> QED BY <1>4, <1>5, <1>6, <1>7, <1>8

(* At first there is one request, for the first page. *)
LEMMA ListsAtFirst == ASSUME ScreenAssumption, Init PROVE ListsOK
<1>1. PageCount(None) \in Nat \ {0}
    BY PagesCounted
<1>2. filter = None /\ page = 1 /\ \A k \in Key : ~HasData(k) /\ fetch[k].pc # "read"
    BY DEF Init, NoFetch, SentFetch
<1>3. \A k \in Key : Fetching(k) => k[1] = None /\ k[2] = 1
    BY DEF Init, NoFetch
<1> QED BY <1>1, <1>2, <1>3 DEF ListsOK

(* Nobody is left on an empty page beyond the end of a list, unless a list    *)
(* shrank or the pager of another list led there, for any number of users     *)
(* and any page size: by ListsOK a page that was turned to is there still.    *)
THEOREM NobodyStrays ==
    ASSUME ScreenAssumption, NoPage PROVE Spec => []PagesExist
<1>1. Init => ListsOK
    BY ListsAtFirst
<1>2. ScreenInv /\ ListsOK /\ [Next]_vars => ListsOK'
    <2> SUFFICES ASSUME ScreenInv, ListsOK, [Next]_vars PROVE ListsOK'
        OBVIOUS
    <2>1. CASE Clicks
        BY <2>1, NavigationKeepsLists, RequestsKeepLists, FormsKeepLists DEF Clicks
    <2>2. CASE List
        BY <2>2, RequestsKeepLists DEF List
    <2>3. CASE Jobs
        BY <2>3, FormsKeepLists, RequestsKeepLists DEF Jobs
    <2>4. CASE OtherAdmin \/ UNCHANGED vars
        BY <2>4, FormsKeepLists
    <2> QED BY <2>1, <2>2, <2>3, <2>4 DEF Next
<1>3. ScreenInv /\ ListsOK => PagesExist
    BY DEF ScreenInv, TypeOK, ListsOK, Filled, PagesExist, AtRest, Key
<1> QED BY <1>1, <1>2, <1>3, ScreenInvariance, PTL DEF Spec
=============================================================================
