------------------------------ MODULE UserListCache ------------------------------
(***************************************************************************)
(* The cached user list (apps/api/src/modules/users/users.service.ts):     *)
(* pages are cached in Redis under a generation counter, and a write bumps *)
(* the counter instead of deleting keys.  Pages of different queries are   *)
(* cached under different keys of one generation and never meet, so one    *)
(* query is modelled.                                                      *)
(*                                                                         *)
(* Readers and writers are requests; each await is a step.  A page is the  *)
(* version of the database its first SELECT saw: the count and the role    *)
(* names are read later, so they are no older.                             *)
(***************************************************************************)
EXTENDS Naturals

CONSTANTS
    Reader, Writer, \* requests that list users, and that write what a list shows
    SilentWriter,   \* writers whose handler never calls invalidateList: password
                    \* change and reset, activation of the second factor
    Faults,         \* whether Redis commands may fail, and Redis lose its data
    MaxWrites,      \* bound: committed writes
    MaxGen          \* bound: generations

ASSUME CacheAssumption ==
    /\ SilentWriter \subseteq Writer
    /\ Faults \in BOOLEAN
    /\ MaxWrites \in Nat /\ MaxGen \in Nat

VARIABLES
    db,      \* version of the users, roles and user_roles tables
    acked,   \* newest version whose write has been answered
    gen,     \* Redis key users:gen; 0 stands for its absence
    present, \* generations with a page in Redis
    cached,  \* that page, as a version
    reader,  \* readers: [pc, gen, page]
    writer,  \* writers: [pc, version]
    floor,   \* history: acked when a reader's last read began
    answer   \* a reader's last answer

cache == <<gen, present, cached>>
vars == <<db, acked, cache, reader, writer, floor, answer>>

Gen == 0 .. MaxGen
ReaderState == [pc: {"idle", "lookup", "query", "store"}, gen: Gen, page: Nat]
WriterState == [pc: {"idle", "bump"}, version: Nat]
ReaderIdle == [pc |-> "idle", gen |-> 0, page |-> 0]
WriterIdle == [pc |-> "idle", version |-> 0]

TypeOK ==
    /\ db \in Nat /\ acked \in Nat /\ gen \in Gen
    /\ present \subseteq Gen /\ cached \in [Gen -> Nat]
    /\ reader \in [Reader -> ReaderState] /\ writer \in [Writer -> WriterState]
    /\ floor \in [Reader -> Nat] /\ answer \in [Reader -> Nat]

Init ==
    /\ db = 0 /\ acked = 0 /\ gen = 0
    /\ present = {} /\ cached = [g \in Gen |-> 0]
    /\ reader = [r \in Reader |-> ReaderIdle]
    /\ writer = [w \in Writer |-> WriterIdle]
    /\ floor = [r \in Reader |-> 0] /\ answer = [r \in Reader |-> 0]

Newer(v) == IF v > acked THEN v ELSE acked

-----------------------------------------------------------------------------
(* Mutants: bugs this code could plausibly have, none of them in Next. *)

(* The page is stored under the generation of the moment. *)
Store_LateKey(r) ==
    /\ reader[r].pc = "store"
    /\ present' = present \cup {gen}
    /\ cached' = [cached EXCEPT ![gen] = reader[r].page]
    /\ answer' = [answer EXCEPT ![r] = reader[r].page]
    /\ reader' = [reader EXCEPT ![r] = ReaderIdle]
    /\ UNCHANGED <<db, acked, gen, writer, floor>>

(* The page of the current generation is stored without a TTL. *)
Expire_OldOnly(g) ==
    /\ g \in present \ {gen}
    /\ present' = present \ {g} /\ cached' = [cached EXCEPT ![g] = 0]
    /\ UNCHANGED <<db, acked, gen, reader, writer, floor, answer>>

-----------------------------------------------------------------------------
(* findAll *)

(* listCacheKey: the generation the page will be looked up and stored under. *)
(* A failed GET, like an absent key, counts as generation 0.                 *)
ReadGen(r) ==
    /\ reader[r].pc = "idle"
    /\ \E g \in {gen} \cup (IF Faults THEN {0} ELSE {}) :
          reader' = [reader EXCEPT ![r] = [pc |-> "lookup", gen |-> g, page |-> 0]]
    /\ floor' = [floor EXCEPT ![r] = acked]
    /\ UNCHANGED <<db, acked, cache, writer, answer>>

Hit(r) ==
    /\ reader[r].pc = "lookup" /\ reader[r].gen \in present
    /\ answer' = [answer EXCEPT ![r] = cached[reader[r].gen]]
    /\ reader' = [reader EXCEPT ![r] = ReaderIdle]
    /\ UNCHANGED <<db, acked, cache, writer, floor>>

Miss(r) ==
    /\ reader[r].pc = "lookup"
    /\ reader[r].gen \notin present \/ Faults
    /\ reader' = [reader EXCEPT ![r].pc = "query"]
    /\ UNCHANGED <<db, acked, cache, writer, floor, answer>>

(* UsersRepository.paginate *)
Paginate(r) ==
    /\ reader[r].pc = "query"
    /\ reader' = [reader EXCEPT ![r].pc = "store", ![r].page = db]
    /\ UNCHANGED <<db, acked, cache, writer, floor, answer>>

(* SET under the generation read at the start, with a TTL; a failure is swallowed. *)
Store(r) ==
    LET g == reader[r].gen IN
    /\ reader[r].pc = "store"
    /\ \/ /\ present' = present \cup {g}
          /\ cached' = [cached EXCEPT ![g] = reader[r].page]
       \/ Faults /\ UNCHANGED <<present, cached>>
    /\ answer' = [answer EXCEPT ![r] = reader[r].page]
    /\ reader' = [reader EXCEPT ![r] = ReaderIdle]
    /\ UNCHANGED <<db, acked, gen, writer, floor>>

-----------------------------------------------------------------------------
(* create, update, updateProfile, remove, register, and the role handlers *)

(* The write commits.  A silent writer answers there and then. *)
Commit(w) ==
    /\ writer[w].pc = "idle" /\ db < MaxWrites
    /\ db' = db + 1
    /\ IF w \in SilentWriter
       THEN acked' = db + 1 /\ UNCHANGED writer
       ELSE /\ writer' = [writer EXCEPT ![w] = [pc |-> "bump", version |-> db + 1]]
            /\ UNCHANGED acked
    /\ UNCHANGED <<cache, reader, floor, answer>>

(* invalidateList: INCR, a failure of which is swallowed, and the answer. *)
Bump(w) ==
    /\ writer[w].pc = "bump"
    /\ \/ gen < MaxGen /\ gen' = gen + 1
       \/ Faults /\ UNCHANGED gen
    /\ acked' = Newer(writer[w].version)
    /\ writer' = [writer EXCEPT ![w] = WriterIdle]
    /\ UNCHANGED <<db, present, cached, reader, floor, answer>>

(* The process dies before the INCR: committed, never answered. *)
Crash(w) ==
    /\ writer[w].pc = "bump"
    /\ writer' = [writer EXCEPT ![w] = WriterIdle]
    /\ UNCHANGED <<db, acked, cache, reader, floor, answer>>

-----------------------------------------------------------------------------
(* Redis *)

Expire(g) ==
    /\ g \in present
    /\ present' = present \ {g} /\ cached' = [cached EXCEPT ![g] = 0]
    /\ UNCHANGED <<db, acked, gen, reader, writer, floor, answer>>

(* Redis comes back empty: the counter starts over. *)
LoseRedis ==
    /\ Faults
    /\ gen' = 0 /\ present' = {} /\ cached' = [g \in Gen |-> 0]
    /\ UNCHANGED <<db, acked, reader, writer, floor, answer>>

ReaderStep(r) == Hit(r) \/ Miss(r) \/ Paginate(r) \/ Store(r)

Next ==
    \/ \E r \in Reader : ReadGen(r) \/ ReaderStep(r)
    \/ \E w \in Writer : Commit(w) \/ Bump(w) \/ Crash(w)
    \/ \E g \in Gen : Expire(g)
    \/ LoseRedis

Spec == Init /\ [][Next]_vars

(* A reader that has begun goes on, and Redis expires what it holds.  Nothing *)
(* is assumed of writers, of the arrival of reads, or of failures.            *)
FairSpec ==
    /\ Spec
    /\ \A r \in Reader : WF_vars(ReaderStep(r))
    /\ \A g \in Gen : WF_vars(Expire(g))

-----------------------------------------------------------------------------
(* Properties *)

(* "Bump the cache generation so the next list read misses the stale cache"  *)
(* (users.service.ts:127): a list request never answers with a page older    *)
(* than a write that had been answered when the request came in, however     *)
(* lookups, queries, late stores, writes and bumps interleave.               *)
ReadsSeeFinishedWrites ==
    \A r \in Reader : reader[r].pc = "idle" => answer[r] >= floor[r]

(* The same promise as an abstract cache. *)
Promise == INSTANCE ReadAfterWrite WITH
    reading <- {r \in Reader : reader[r].pc # "idle"}
ImplementsPromise == Promise!Spec

(* Redis is "never a hard dependency" (users.service.ts:133): whatever        *)
(* commands fail and whatever Redis loses, once the writes have ceased no     *)
(* stale page is left in the cache for good.                                  *)
StaleOnlyForATime == <>[](\A g \in present : cached[g] = db)

-----------------------------------------------------------------------------
(* The inductive invariant behind ReadsSeeFinishedWrites, without faults and *)
(* silent writers.                                                           *)

Active(r) == reader[r].pc # "idle"
Storing(r) == reader[r].pc = "store"

(* No page or reader is ahead of the counter, nothing ahead of the database. *)
NothingAhead ==
    /\ acked <= db
    /\ \A g \in present : g <= gen /\ cached[g] <= db
    /\ \A r \in Reader : /\ reader[r].gen <= gen /\ reader[r].page <= db
                         /\ floor[r] <= acked
    /\ \A w \in Writer : writer[w].version <= db

(* What the current generation holds, or is about to, has seen every write    *)
(* that was answered.                                                         *)
CurrentGenerationFresh ==
    /\ gen \in present => cached[gen] >= acked
    /\ \A r \in Reader : Storing(r) /\ reader[r].gen = gen => reader[r].page >= acked

(* What any generation holds, or is about to, is new enough for each reader   *)
(* that may still look it up there.                                           *)
ReadersServed ==
    \A r \in Reader : Active(r) =>
        /\ reader[r].gen \in present => cached[reader[r].gen] >= floor[r]
        /\ \A q \in Reader : Storing(q) /\ reader[q].gen = reader[r].gen
                                => reader[q].page >= floor[r]

CacheInv ==
    /\ TypeOK /\ NothingAhead /\ CurrentGenerationFresh /\ ReadersServed
    /\ ReadsSeeFinishedWrites
=============================================================================
