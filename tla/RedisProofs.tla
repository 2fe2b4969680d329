------------------------------- MODULE RedisProofs -------------------------------
(* Proofs about the two components whose requests meet in Redis: UserListCache, *)
(* where every writer bumps the generation and Redis neither fails nor loses    *)
(* data, and Passkeys.                                                          *)
EXTENDS UserListCache, Passkeys, TLAPS

LEMMA TypeStep ==
    ASSUME TypeOK, [Next]_vars
    PROVE  TypeOK'
<1> USE CacheAssumption DEF TypeOK, vars, cache, Gen, ReaderState, WriterState
<1>1. CASE UNCHANGED vars
  BY <1>1
<1>2. ASSUME NEW r \in Reader, ReadGen(r) PROVE TypeOK'
  BY <1>2 DEF ReadGen, ReaderIdle
<1>3. ASSUME NEW r \in Reader, Hit(r) PROVE TypeOK'
  BY <1>3 DEF Hit, ReaderIdle
<1>4. ASSUME NEW r \in Reader, Miss(r) PROVE TypeOK'
  BY <1>4 DEF Miss, ReaderIdle
<1>5. ASSUME NEW r \in Reader, Paginate(r) PROVE TypeOK'
  BY <1>5, ZenonT(30) DEF Paginate, ReaderIdle
<1>6. ASSUME NEW r \in Reader, Store(r) PROVE TypeOK'
  <2>1. cached' \in [Gen -> Nat] /\ present' \subseteq Gen
    BY <1>6 DEF Store
  <2> QED
    BY <1>6, <2>1, SMTT(30) DEF Store, ReaderIdle
<1>7. ASSUME NEW w \in Writer, Commit(w) PROVE TypeOK'
  <2>1. db' \in Nat /\ acked' \in Nat
    BY <1>7 DEF Commit
  <2>2. [pc |-> "bump", version |-> db + 1] \in WriterState
    OBVIOUS
  <2>3. writer' \in [Writer -> WriterState]
    BY <1>7, <2>2 DEF Commit
  <2> QED
    BY <1>7, <2>1, <2>3 DEF Commit
<1>8. ASSUME NEW w \in Writer, Bump(w) PROVE TypeOK'
  BY <1>8 DEF Bump, Newer, WriterIdle
<1>9. ASSUME NEW w \in Writer, Crash(w) PROVE TypeOK'
  BY <1>9 DEF Crash, WriterIdle
<1>10. ASSUME NEW g \in Gen, Expire(g) PROVE TypeOK'
  BY <1>10 DEF Expire
<1>11. CASE LoseRedis
  BY <1>11 DEF LoseRedis
<1> QED
  BY <1>1, <1>2, <1>3, <1>4, <1>5, <1>6, <1>7, <1>8, <1>9, <1>10, <1>11 DEF Next, ReaderStep

LEMMA InvStep ==
    ASSUME Faults = FALSE, SilentWriter = {}, CacheInv, [Next]_vars
    PROVE  CacheInv'
<1> USE DEF CacheInv
<1>0. TypeOK'
  BY TypeStep
<1>1. CASE UNCHANGED vars
  BY <1>0, <1>1 DEF NothingAhead, CurrentGenerationFresh, ReadersServed, ReadsSeeFinishedWrites,
     Active, Storing, vars, cache
<1>2. ASSUME NEW r \in Reader, ReadGen(r) PROVE CacheInv'
  <2> USE <1>0, <1>2 DEF TypeOK, cache, ReaderState, WriterState, ReadGen, ReaderIdle
  <2>1. NothingAhead'
    <3>1. (acked <= db)'
      BY DEF NothingAhead
    <3>2. (\A h \in present : h <= gen /\ cached[h] <= db)'
      BY DEF NothingAhead, Gen
    <3>3. (\A q \in Reader : reader[q].gen <= gen /\ reader[q].page <= db /\ floor[q] <= acked)'
      BY DEF NothingAhead, Gen
    <3>4. (\A v \in Writer : writer[v].version <= db)'
      BY DEF NothingAhead
    <3> QED
      BY <3>1, <3>2, <3>3, <3>4 DEF NothingAhead
  <2>2. CurrentGenerationFresh'
    BY DEF NothingAhead, CurrentGenerationFresh, Storing, Gen
  <2>3. ReadersServed'
    BY DEF NothingAhead, CurrentGenerationFresh, ReadersServed, Active, Storing
  <2>4. ReadsSeeFinishedWrites'
    BY DEF NothingAhead, ReadersServed, ReadsSeeFinishedWrites, Active, Storing
  <2> QED
    BY <1>0, <2>1, <2>2, <2>3, <2>4
<1>3. ASSUME NEW r \in Reader, Hit(r) PROVE CacheInv'
  <2> USE <1>0, <1>3 DEF TypeOK, cache, ReaderState, WriterState, Hit, ReaderIdle
  <2>1. NothingAhead'
    <3>1. (acked <= db)'
      BY DEF NothingAhead
    <3>2. (\A h \in present : h <= gen /\ cached[h] <= db)'
      BY DEF NothingAhead, Gen
    <3>3. (\A q \in Reader : reader[q].gen <= gen /\ reader[q].page <= db /\ floor[q] <= acked)'
      BY DEF NothingAhead, Gen
    <3>4. (\A v \in Writer : writer[v].version <= db)'
      BY DEF NothingAhead
    <3> QED
      BY <3>1, <3>2, <3>3, <3>4 DEF NothingAhead
  <2>2. CurrentGenerationFresh'
    BY DEF NothingAhead, CurrentGenerationFresh, Storing, Gen
  <2>3. ReadersServed'
    BY DEF NothingAhead, CurrentGenerationFresh, ReadersServed, Active, Storing
  <2>4. ReadsSeeFinishedWrites'
    BY DEF NothingAhead, ReadersServed, ReadsSeeFinishedWrites, Active, Storing
  <2> QED
    BY <1>0, <2>1, <2>2, <2>3, <2>4
<1>4. ASSUME NEW r \in Reader, Miss(r) PROVE CacheInv'
  <2> USE <1>0, <1>4 DEF TypeOK, cache, ReaderState, WriterState, Miss, ReaderIdle
  <2>1. NothingAhead'
    <3>1. (acked <= db)'
      BY DEF NothingAhead
    <3>2. (\A h \in present : h <= gen /\ cached[h] <= db)'
      BY DEF NothingAhead, Gen
    <3>3. (\A q \in Reader : reader[q].gen <= gen /\ reader[q].page <= db /\ floor[q] <= acked)'
      BY DEF NothingAhead, Gen
    <3>4. (\A v \in Writer : writer[v].version <= db)'
      BY DEF NothingAhead
    <3> QED
      BY <3>1, <3>2, <3>3, <3>4 DEF NothingAhead
  <2>2. CurrentGenerationFresh'
    BY DEF NothingAhead, CurrentGenerationFresh, Storing, Gen
  <2>3. ReadersServed'
    BY DEF NothingAhead, CurrentGenerationFresh, ReadersServed, Active, Storing
  <2>4. ReadsSeeFinishedWrites'
    BY DEF NothingAhead, ReadersServed, ReadsSeeFinishedWrites, Active, Storing
  <2> QED
    BY <1>0, <2>1, <2>2, <2>3, <2>4
<1>5. ASSUME NEW r \in Reader, Paginate(r) PROVE CacheInv'
  <2> USE <1>0, <1>5 DEF TypeOK, cache, ReaderState, WriterState, Paginate, ReaderIdle
  <2>1. NothingAhead'
    <3>1. (acked <= db)'
      BY DEF NothingAhead
    <3>2. (\A h \in present : h <= gen /\ cached[h] <= db)'
      BY DEF NothingAhead, Gen
    <3>3. (\A q \in Reader : reader[q].gen <= gen /\ reader[q].page <= db /\ floor[q] <= acked)'
      BY SMTT(30) DEF NothingAhead, Gen
    <3>4. (\A v \in Writer : writer[v].version <= db)'
      BY DEF NothingAhead
    <3> QED
      BY <3>1, <3>2, <3>3, <3>4 DEF NothingAhead
  <2>2. CurrentGenerationFresh'
    BY DEF NothingAhead, CurrentGenerationFresh, Storing, Gen
  <2>3. ReadersServed'
    BY DEF NothingAhead, CurrentGenerationFresh, ReadersServed, Active, Storing
  <2>4. ReadsSeeFinishedWrites'
    BY DEF NothingAhead, ReadersServed, ReadsSeeFinishedWrites, Active, Storing
  <2> QED
    BY <1>0, <2>1, <2>2, <2>3, <2>4
<1>6. ASSUME NEW r \in Reader, Store(r) PROVE CacheInv'
  <2> USE <1>0, <1>6 DEF TypeOK, cache, ReaderState, WriterState, Store, ReaderIdle
  <2>1. NothingAhead'
    <3>1. (acked <= db)'
      BY DEF NothingAhead
    <3>2. (\A h \in present : h <= gen /\ cached[h] <= db)'
      BY DEF NothingAhead, Gen
    <3>3. (\A q \in Reader : reader[q].gen <= gen /\ reader[q].page <= db /\ floor[q] <= acked)'
      BY DEF NothingAhead, Gen
    <3>4. (\A v \in Writer : writer[v].version <= db)'
      BY DEF NothingAhead
    <3> QED
      BY <3>1, <3>2, <3>3, <3>4 DEF NothingAhead
  <2>2. CurrentGenerationFresh'
    BY DEF NothingAhead, CurrentGenerationFresh, Storing, Gen
  <2>3. ReadersServed'
    BY DEF NothingAhead, CurrentGenerationFresh, ReadersServed, Active, Storing
  <2>4. ReadsSeeFinishedWrites'
    BY DEF NothingAhead, ReadersServed, ReadsSeeFinishedWrites, Active, Storing
  <2> QED
    BY <1>0, <2>1, <2>2, <2>3, <2>4
<1>7. ASSUME NEW w \in Writer, Commit(w) PROVE CacheInv'
  <2> USE <1>0, <1>7 DEF TypeOK, cache, ReaderState, WriterState, Commit, WriterIdle
  <2>1. NothingAhead'
    <3>1. (acked <= db)'
      BY DEF NothingAhead
    <3>2. (\A h \in present : h <= gen /\ cached[h] <= db)'
      <4>1. present' = present /\ cached' = cached /\ gen' = gen /\ db' = db + 1
        OBVIOUS
      <4>2. \A h \in present : cached[h] \in Nat
        BY DEF Gen
      <4>3. \A h \in present : h <= gen /\ cached[h] <= db
        BY DEF NothingAhead, CacheInv
      <4>4. db \in Nat
        OBVIOUS
      <4> QED
        BY ONLY <4>1, <4>2, <4>3, <4>4
    <3>3. (\A q \in Reader : reader[q].gen <= gen /\ reader[q].page <= db /\ floor[q] <= acked)'
      BY DEF NothingAhead, Gen
    <3>4. (\A v \in Writer : writer[v].version <= db)'
      BY DEF NothingAhead
    <3> QED
      BY <3>1, <3>2, <3>3, <3>4 DEF NothingAhead
  <2>2. CurrentGenerationFresh'
    BY DEF NothingAhead, CurrentGenerationFresh, Storing, Gen
  <2>3. ReadersServed'
    BY DEF NothingAhead, CurrentGenerationFresh, ReadersServed, Active, Storing
  <2>4. ReadsSeeFinishedWrites'
    BY DEF NothingAhead, ReadersServed, ReadsSeeFinishedWrites, Active, Storing
  <2> QED
    BY <1>0, <2>1, <2>2, <2>3, <2>4
<1>8. ASSUME NEW w \in Writer, Bump(w) PROVE CacheInv'
  <2> USE <1>0, <1>8 DEF TypeOK, cache, ReaderState, WriterState, Bump, Newer, WriterIdle
  <2>1. NothingAhead'
    <3>1. (acked <= db)'
      BY DEF NothingAhead
    <3>2. (\A h \in present : h <= gen /\ cached[h] <= db)'
      BY DEF NothingAhead, Gen
    <3>3. (\A q \in Reader : reader[q].gen <= gen /\ reader[q].page <= db /\ floor[q] <= acked)'
      BY DEF NothingAhead, Gen
    <3>4. (\A v \in Writer : writer[v].version <= db)'
      BY DEF NothingAhead
    <3> QED
      BY <3>1, <3>2, <3>3, <3>4 DEF NothingAhead
  <2>2. CurrentGenerationFresh'
    BY DEF NothingAhead, CurrentGenerationFresh, Storing, Gen
  <2>3. ReadersServed'
    BY DEF NothingAhead, CurrentGenerationFresh, ReadersServed, Active, Storing
  <2>4. ReadsSeeFinishedWrites'
    BY DEF NothingAhead, ReadersServed, ReadsSeeFinishedWrites, Active, Storing
  <2> QED
    BY <1>0, <2>1, <2>2, <2>3, <2>4
<1>9. ASSUME NEW w \in Writer, Crash(w) PROVE CacheInv'
  <2> USE <1>0, <1>9 DEF TypeOK, cache, ReaderState, WriterState, Crash, WriterIdle
  <2>1. NothingAhead'
    <3>1. (acked <= db)'
      BY DEF NothingAhead
    <3>2. (\A h \in present : h <= gen /\ cached[h] <= db)'
      BY DEF NothingAhead, Gen
    <3>3. (\A q \in Reader : reader[q].gen <= gen /\ reader[q].page <= db /\ floor[q] <= acked)'
      BY DEF NothingAhead, Gen
    <3>4. (\A v \in Writer : writer[v].version <= db)'
      BY DEF NothingAhead
    <3> QED
      BY <3>1, <3>2, <3>3, <3>4 DEF NothingAhead
  <2>2. CurrentGenerationFresh'
    BY DEF NothingAhead, CurrentGenerationFresh, Storing, Gen
  <2>3. ReadersServed'
    BY DEF NothingAhead, CurrentGenerationFresh, ReadersServed, Active, Storing
  <2>4. ReadsSeeFinishedWrites'
    BY DEF NothingAhead, ReadersServed, ReadsSeeFinishedWrites, Active, Storing
  <2> QED
    BY <1>0, <2>1, <2>2, <2>3, <2>4
<1>10. ASSUME NEW g \in Gen, Expire(g) PROVE CacheInv'
  <2> USE <1>0, <1>10 DEF TypeOK, cache, ReaderState, WriterState, Expire
  <2>1. NothingAhead'
    <3>1. (acked <= db)'
      BY DEF NothingAhead
    <3>2. (\A h \in present : h <= gen /\ cached[h] <= db)'
      BY DEF NothingAhead, Gen
    <3>3. (\A q \in Reader : reader[q].gen <= gen /\ reader[q].page <= db /\ floor[q] <= acked)'
      BY DEF NothingAhead, Gen
    <3>4. (\A v \in Writer : writer[v].version <= db)'
      BY DEF NothingAhead
    <3> QED
      BY <3>1, <3>2, <3>3, <3>4 DEF NothingAhead
  <2>2. CurrentGenerationFresh'
    BY DEF NothingAhead, CurrentGenerationFresh, Storing, Gen
  <2>3. ReadersServed'
    BY DEF NothingAhead, CurrentGenerationFresh, ReadersServed, Active, Storing
  <2>4. ReadsSeeFinishedWrites'
    BY DEF NothingAhead, ReadersServed, ReadsSeeFinishedWrites, Active, Storing
  <2> QED
    BY <1>0, <2>1, <2>2, <2>3, <2>4
<1> HIDE DEF CacheInv
<1>11. CASE LoseRedis
  BY <1>11 DEF LoseRedis
<1>12. CASE Next
  BY <1>0, <1>2, <1>3, <1>4, <1>5, <1>6, <1>7, <1>8, <1>9, <1>10, <1>11, <1>12 DEF Next, ReaderStep
<1> QED
  BY <1>1, <1>12

LEMMA InvInit == Init => CacheInv
BY CacheAssumption DEF Init, CacheInv, TypeOK, NothingAhead, CurrentGenerationFresh,
   ReadersServed, ReadsSeeFinishedWrites, Active, Storing, Gen, ReaderState, WriterState,
   ReaderIdle, WriterIdle

(* The invariant holds in every reachable state. *)
THEOREM Invariance ==
    ASSUME Faults = FALSE, SilentWriter = {}
    PROVE  Spec => []CacheInv
BY InvInit, InvStep, PTL DEF Spec

(* A list request never answers with a page older than a write that had been  *)
(* answered when it came in, for any number of readers and writers.           *)
THEOREM FreshReads ==
    ASSUME Faults = FALSE, SilentWriter = {}
    PROVE  Spec => []ReadsSeeFinishedWrites
BY Invariance, PTL DEF CacheInv

-----------------------------------------------------------------------------
(* Every step is a step of ReadAfterWrite, or changes nothing it can see. *)
LEMMA StepSimulation ==
    ASSUME Faults = FALSE, SilentWriter = {}, CacheInv, [Next]_vars
    PROVE  [Promise!Next]_(Promise!vars)
<1> USE DEF CacheInv, TypeOK, vars, cache, Promise!vars, ReaderIdle, ReaderState, Gen
<1>1. CASE UNCHANGED vars
  BY <1>1
<1>2. ASSUME NEW r \in Reader, ReadGen(r) PROVE Promise!BeginRead(r)
  BY <1>2 DEF ReadGen, Promise!BeginRead
<1>3. ASSUME NEW r \in Reader, Hit(r) PROVE Promise!Answer(r)
  <2> DEFINE version == cached[reader[r].gen]
  <2>1. version \in floor[r] .. db
    BY <1>3 DEF Hit, NothingAhead, ReadersServed, Active
  <2>2. answer' = [answer EXCEPT ![r] = version]
    BY <1>3 DEF Hit
  <2> HIDE DEF version
  <2> QED
    BY <1>3, <2>1, <2>2 DEF Hit, Promise!Answer
<1>4. ASSUME NEW r \in Reader, Miss(r) \/ Paginate(r) PROVE UNCHANGED Promise!vars
  BY <1>4 DEF Miss, Paginate
<1>5. ASSUME NEW r \in Reader, Store(r) PROVE Promise!Answer(r)
  <2> DEFINE version == reader[r].page
  <2>1. version \in floor[r] .. db
    BY <1>5 DEF Store, NothingAhead, ReadersServed, Active, Storing
  <2>2. answer' = [answer EXCEPT ![r] = version]
    BY <1>5 DEF Store
  <2> HIDE DEF version
  <2> QED
    BY <1>5, <2>1, <2>2 DEF Store, Promise!Answer
<1>6. ASSUME NEW w \in Writer, Commit(w) PROVE Promise!Commit
  BY <1>6 DEF Commit, Promise!Commit
<1>7. ASSUME NEW w \in Writer, Bump(w) PROVE Promise!Acknowledge \/ UNCHANGED Promise!vars
  BY <1>7 DEF Bump, Newer, Promise!Acknowledge, NothingAhead, WriterState
<1>8. ASSUME NEW w \in Writer, Crash(w) PROVE UNCHANGED Promise!vars
  BY <1>8 DEF Crash
<1>9. ASSUME NEW g \in Gen, Expire(g) PROVE UNCHANGED Promise!vars
  BY <1>9 DEF Expire
<1>10. CASE LoseRedis
  BY <1>10 DEF LoseRedis
<1> QED
  BY <1>1, <1>2, <1>3, <1>4, <1>5, <1>6, <1>7, <1>8, <1>9, <1>10
     DEF Next, ReaderStep, Promise!Next

(* The generation counter implements the abstract cache. *)
THEOREM Implementation ==
    ASSUME Faults = FALSE, SilentWriter = {}
    PROVE  Spec => ImplementsPromise
<1>1. Init => Promise!Init
  BY DEF Init, Promise!Init, ReaderIdle
<1> QED
  BY <1>1, StepSimulation, Invariance, PTL DEF Spec, Promise!Spec, ImplementsPromise

-----------------------------------------------------------------------------
(* Passkeys: each part of the invariant is kept by every action. *)

LEMMA PasskeysTypeStep ==
    ASSUME PasskeysInv, PasskeysNext
    PROVE  PasskeysTypeOK'
<1> USE PasskeyAssumption DEF PasskeysInv, redis, outside, history, Idle, At, Begin, Goto,
        Return, Cross, Rows, SigningIn, Registering, Verified, PasskeysTypeOK, Locals, PC,
        Assertion, RequestsOK
<1>1. CASE LoginOptions
  BY <1>1 DEF LoginOptions
<1>2. CASE RemoveAccount
  BY <1>2 DEF RemoveAccount
<1>3. CASE ChallengeExpires
  BY <1>3 DEF ChallengeExpires
<1>4. ASSUME NEW p \in Passkey, Create(p) PROVE PasskeysTypeOK'
  BY <1>4 DEF Create
<1>5. ASSUME NEW p \in Passkey, NEW c \in Challenge, Sign(p, c) PROVE PasskeysTypeOK'
  BY <1>5 DEF Sign
<1>6. ASSUME NEW r \in Request, RegOptions(r) PROVE PasskeysTypeOK'
  BY <1>6 DEF RegOptions
<1>7. ASSUME NEW r \in Request, RegPark(r) PROVE PasskeysTypeOK'
  BY <1>7 DEF RegPark
<1>8. ASSUME NEW r \in Request, NEW p \in Passkey, RegGet(r, p) PROVE PasskeysTypeOK'
  BY <1>8 DEF RegGet
<1>9. ASSUME NEW r \in Request, RegForget(r) PROVE PasskeysTypeOK'
  BY <1>9 DEF RegForget
<1>10. ASSUME NEW r \in Request, RegInsert(r) PROVE PasskeysTypeOK'
  BY <1>10 DEF RegInsert
<1>11. ASSUME NEW r \in Request, NEW a \in signed, VerifyGet(r, a) PROVE PasskeysTypeOK'
  BY <1>11 DEF VerifyGet
<1>12. ASSUME NEW r \in Request, VerifySelect(r) PROVE PasskeysTypeOK'
  BY <1>12 DEF VerifySelect
<1>13. ASSUME NEW r \in Request, Consume(r) PROVE PasskeysTypeOK'
  BY <1>13 DEF Consume
<1>14. ASSUME NEW r \in Request, Count(r) PROVE PasskeysTypeOK'
  BY <1>14 DEF Count
<1>15. ASSUME NEW r \in Request, ReadAccount(r) PROVE PasskeysTypeOK'
  BY <1>15 DEF ReadAccount
<1>16. ASSUME NEW r \in Request, NEW p \in Passkey, RemoveSelect(r, p) PROVE PasskeysTypeOK'
  BY <1>16 DEF RemoveSelect
<1>17. ASSUME NEW r \in Request, RemoveDelete(r) PROVE PasskeysTypeOK'
  BY <1>17 DEF RemoveDelete
<1>18. ASSUME NEW r \in Request, Fails(r) PROVE PasskeysTypeOK'
  BY <1>18 DEF Fails
<1> QED
  BY <1>1, <1>2, <1>3, <1>4, <1>5, <1>6, <1>7, <1>8, <1>9, <1>10, <1>11, <1>12, <1>13, <1>14,
     <1>15, <1>16, <1>17, <1>18
     DEF PasskeysNext, Handler, Authenticators

LEMMA PasskeysRequestsStep ==
    ASSUME PasskeysInv, PasskeysNext
    PROVE  RequestsOK'
<1> USE PasskeyAssumption DEF PasskeysInv, redis, outside, history, Idle, At, Begin, Goto,
        Return, Cross, Rows, SigningIn, Registering, Verified, PasskeysTypeOK, Locals, PC,
        Assertion, RequestsOK, RowsOK, SignedOK
<1>1. CASE LoginOptions
  BY <1>1 DEF LoginOptions
<1>2. CASE RemoveAccount
  BY <1>2 DEF RemoveAccount
<1>3. CASE ChallengeExpires
  BY <1>3 DEF ChallengeExpires
<1>4. ASSUME NEW p \in Passkey, Create(p) PROVE RequestsOK'
  BY <1>4 DEF Create
<1>5. ASSUME NEW p \in Passkey, NEW c \in Challenge, Sign(p, c) PROVE RequestsOK'
  BY <1>5 DEF Sign
<1>6. ASSUME NEW r \in Request, RegOptions(r) PROVE RequestsOK'
  BY <1>6 DEF RegOptions
<1>7. ASSUME NEW r \in Request, RegPark(r) PROVE RequestsOK'
  BY <1>7 DEF RegPark
<1>8. ASSUME NEW r \in Request, NEW p \in Passkey, RegGet(r, p) PROVE RequestsOK'
  BY <1>8 DEF RegGet
<1>9. ASSUME NEW r \in Request, RegForget(r) PROVE RequestsOK'
  BY <1>9 DEF RegForget
<1>10. ASSUME NEW r \in Request, RegInsert(r) PROVE RequestsOK'
  BY <1>10 DEF RegInsert
<1>11. ASSUME NEW r \in Request, NEW a \in signed, VerifyGet(r, a) PROVE RequestsOK'
  BY <1>11 DEF VerifyGet
<1>12. ASSUME NEW r \in Request, VerifySelect(r) PROVE RequestsOK'
  BY <1>12 DEF VerifySelect
<1>13. ASSUME NEW r \in Request, Consume(r) PROVE RequestsOK'
  BY <1>13 DEF Consume
<1>14. ASSUME NEW r \in Request, Count(r) PROVE RequestsOK'
  BY <1>14 DEF Count
<1>15. ASSUME NEW r \in Request, ReadAccount(r) PROVE RequestsOK'
  BY <1>15 DEF ReadAccount
<1>16. ASSUME NEW r \in Request, NEW p \in Passkey, RemoveSelect(r, p) PROVE RequestsOK'
  BY <1>16 DEF RemoveSelect
<1>17. ASSUME NEW r \in Request, RemoveDelete(r) PROVE RequestsOK'
  BY <1>17 DEF RemoveDelete
<1>18. ASSUME NEW r \in Request, Fails(r) PROVE RequestsOK'
  BY <1>18 DEF Fails
<1> QED
  BY <1>1, <1>2, <1>3, <1>4, <1>5, <1>6, <1>7, <1>8, <1>9, <1>10, <1>11, <1>12, <1>13, <1>14,
     <1>15, <1>16, <1>17, <1>18
     DEF PasskeysNext, Handler, Authenticators

LEMMA RowsStep ==
    ASSUME PasskeysInv, PasskeysNext
    PROVE  RowsOK'
<1> USE PasskeyAssumption DEF PasskeysInv, redis, outside, history, Idle, At, Begin, Goto,
        Return, Cross, Rows, SigningIn, Registering, Verified, PasskeysTypeOK, Locals, PC,
        Assertion, RequestsOK, RowsOK, SignedOK
<1>1. CASE LoginOptions
  BY <1>1 DEF LoginOptions
<1>2. CASE RemoveAccount
  BY <1>2 DEF RemoveAccount
<1>3. CASE ChallengeExpires
  BY <1>3 DEF ChallengeExpires
<1>4. ASSUME NEW p \in Passkey, Create(p) PROVE RowsOK'
  BY <1>4 DEF Create
<1>5. ASSUME NEW p \in Passkey, NEW c \in Challenge, Sign(p, c) PROVE RowsOK'
  BY <1>5 DEF Sign
<1>6. ASSUME NEW r \in Request, RegOptions(r) PROVE RowsOK'
  BY <1>6 DEF RegOptions
<1>7. ASSUME NEW r \in Request, RegPark(r) PROVE RowsOK'
  BY <1>7 DEF RegPark
<1>8. ASSUME NEW r \in Request, NEW p \in Passkey, RegGet(r, p) PROVE RowsOK'
  BY <1>8 DEF RegGet
<1>9. ASSUME NEW r \in Request, RegForget(r) PROVE RowsOK'
  BY <1>9 DEF RegForget
<1>10. ASSUME NEW r \in Request, RegInsert(r) PROVE RowsOK'
  BY <1>10 DEF RegInsert
<1>11. ASSUME NEW r \in Request, NEW a \in signed, VerifyGet(r, a) PROVE RowsOK'
  BY <1>11 DEF VerifyGet
<1>12. ASSUME NEW r \in Request, VerifySelect(r) PROVE RowsOK'
  BY <1>12 DEF VerifySelect
<1>13. ASSUME NEW r \in Request, Consume(r) PROVE RowsOK'
  BY <1>13 DEF Consume
<1>14. ASSUME NEW r \in Request, Count(r) PROVE RowsOK'
  BY <1>14 DEF Count
<1>15. ASSUME NEW r \in Request, ReadAccount(r) PROVE RowsOK'
  BY <1>15 DEF ReadAccount
<1>16. ASSUME NEW r \in Request, NEW p \in Passkey, RemoveSelect(r, p) PROVE RowsOK'
  BY <1>16 DEF RemoveSelect
<1>17. ASSUME NEW r \in Request, RemoveDelete(r) PROVE RowsOK'
  BY <1>17 DEF RemoveDelete
<1>18. ASSUME NEW r \in Request, Fails(r) PROVE RowsOK'
  BY <1>18 DEF Fails
<1> QED
  BY <1>1, <1>2, <1>3, <1>4, <1>5, <1>6, <1>7, <1>8, <1>9, <1>10, <1>11, <1>12, <1>13, <1>14,
     <1>15, <1>16, <1>17, <1>18
     DEF PasskeysNext, Handler, Authenticators

LEMMA SignedStep ==
    ASSUME PasskeysInv, PasskeysNext
    PROVE  SignedOK'
<1> USE PasskeyAssumption DEF PasskeysInv, redis, outside, history, Idle, At, Begin, Goto,
        Return, Cross, Rows, SigningIn, Registering, Verified, PasskeysTypeOK, Locals, PC,
        Assertion, RequestsOK, SignedOK
<1>1. CASE LoginOptions
  BY <1>1 DEF LoginOptions
<1>2. CASE RemoveAccount
  BY <1>2 DEF RemoveAccount
<1>3. CASE ChallengeExpires
  BY <1>3 DEF ChallengeExpires
<1>4. ASSUME NEW p \in Passkey, Create(p) PROVE SignedOK'
  BY <1>4 DEF Create
<1>5. ASSUME NEW p \in Passkey, NEW c \in Challenge, Sign(p, c) PROVE SignedOK'
  BY <1>5 DEF Sign
<1>6. ASSUME NEW r \in Request, RegOptions(r) PROVE SignedOK'
  BY <1>6 DEF RegOptions
<1>7. ASSUME NEW r \in Request, RegPark(r) PROVE SignedOK'
  BY <1>7 DEF RegPark
<1>8. ASSUME NEW r \in Request, NEW p \in Passkey, RegGet(r, p) PROVE SignedOK'
  BY <1>8 DEF RegGet
<1>9. ASSUME NEW r \in Request, RegForget(r) PROVE SignedOK'
  BY <1>9 DEF RegForget
<1>10. ASSUME NEW r \in Request, RegInsert(r) PROVE SignedOK'
  BY <1>10 DEF RegInsert
<1>11. ASSUME NEW r \in Request, NEW a \in signed, VerifyGet(r, a) PROVE SignedOK'
  BY <1>11 DEF VerifyGet
<1>12. ASSUME NEW r \in Request, VerifySelect(r) PROVE SignedOK'
  BY <1>12 DEF VerifySelect
<1>13. ASSUME NEW r \in Request, Consume(r) PROVE SignedOK'
  BY <1>13 DEF Consume
<1>14. ASSUME NEW r \in Request, Count(r) PROVE SignedOK'
  BY <1>14 DEF Count
<1>15. ASSUME NEW r \in Request, ReadAccount(r) PROVE SignedOK'
  BY <1>15 DEF ReadAccount
<1>16. ASSUME NEW r \in Request, NEW p \in Passkey, RemoveSelect(r, p) PROVE SignedOK'
  BY <1>16 DEF RemoveSelect
<1>17. ASSUME NEW r \in Request, RemoveDelete(r) PROVE SignedOK'
  BY <1>17 DEF RemoveDelete
<1>18. ASSUME NEW r \in Request, Fails(r) PROVE SignedOK'
  BY <1>18 DEF Fails
<1> QED
  BY <1>1, <1>2, <1>3, <1>4, <1>5, <1>6, <1>7, <1>8, <1>9, <1>10, <1>11, <1>12, <1>13, <1>14,
     <1>15, <1>16, <1>17, <1>18
     DEF PasskeysNext, Handler, Authenticators

LEMMA RegistrationsStep ==
    ASSUME PasskeysInv, PasskeysNext
    PROVE  RegistrationsOK'
<1> USE PasskeyAssumption DEF PasskeysInv, redis, outside, history, Idle, At, Begin, Goto,
        Return, Cross, Rows, SigningIn, Registering, Verified, PasskeysTypeOK, Locals, PC,
        Assertion, RequestsOK, RowsOK, SignedOK, RegistrationsOK, Enrolled
<1>1. CASE LoginOptions
  BY <1>1 DEF LoginOptions
<1>2. CASE RemoveAccount
  BY <1>2 DEF RemoveAccount
<1>3. CASE ChallengeExpires
  BY <1>3 DEF ChallengeExpires
<1>4. ASSUME NEW p \in Passkey, Create(p) PROVE RegistrationsOK'
  BY <1>4 DEF Create
<1>5. ASSUME NEW p \in Passkey, NEW c \in Challenge, Sign(p, c) PROVE RegistrationsOK'
  BY <1>5 DEF Sign
<1>6. ASSUME NEW r \in Request, RegOptions(r) PROVE RegistrationsOK'
  BY <1>6 DEF RegOptions
<1>7. ASSUME NEW r \in Request, RegPark(r) PROVE RegistrationsOK'
  BY <1>7 DEF RegPark
<1>8. ASSUME NEW r \in Request, NEW p \in Passkey, RegGet(r, p) PROVE RegistrationsOK'
  BY <1>8 DEF RegGet
<1>9. ASSUME NEW r \in Request, RegForget(r) PROVE RegistrationsOK'
  BY <1>9 DEF RegForget
<1>10. ASSUME NEW r \in Request, RegInsert(r) PROVE RegistrationsOK'
  BY <1>10 DEF RegInsert
<1>11. ASSUME NEW r \in Request, NEW a \in signed, VerifyGet(r, a) PROVE RegistrationsOK'
  BY <1>11 DEF VerifyGet
<1>12. ASSUME NEW r \in Request, VerifySelect(r) PROVE RegistrationsOK'
  BY <1>12 DEF VerifySelect
<1>13. ASSUME NEW r \in Request, Consume(r) PROVE RegistrationsOK'
  BY <1>13 DEF Consume
<1>14. ASSUME NEW r \in Request, Count(r) PROVE RegistrationsOK'
  BY <1>14 DEF Count
<1>15. ASSUME NEW r \in Request, ReadAccount(r) PROVE RegistrationsOK'
  BY <1>15 DEF ReadAccount
<1>16. ASSUME NEW r \in Request, NEW p \in Passkey, RemoveSelect(r, p) PROVE RegistrationsOK'
  BY <1>16 DEF RemoveSelect
<1>17. ASSUME NEW r \in Request, RemoveDelete(r) PROVE RegistrationsOK'
  BY <1>17 DEF RemoveDelete
<1>18. ASSUME NEW r \in Request, Fails(r) PROVE RegistrationsOK'
  BY <1>18 DEF Fails
<1> QED
  BY <1>1, <1>2, <1>3, <1>4, <1>5, <1>6, <1>7, <1>8, <1>9, <1>10, <1>11, <1>12, <1>13, <1>14,
     <1>15, <1>16, <1>17, <1>18
     DEF PasskeysNext, Handler, Authenticators

LEMMA ChallengesStep ==
    ASSUME PasskeysInv, PasskeysNext
    PROVE  ChallengesOK'
<1> USE PasskeyAssumption DEF PasskeysInv, redis, outside, history, Idle, At, Begin, Goto,
        Return, Cross, Rows, SigningIn, Registering, Verified, PasskeysTypeOK, Locals, PC,
        Assertion, RequestsOK, SignedOK, ChallengesOK
<1>1. CASE LoginOptions
  BY <1>1 DEF LoginOptions
<1>2. CASE RemoveAccount
  BY <1>2 DEF RemoveAccount
<1>3. CASE ChallengeExpires
  BY <1>3 DEF ChallengeExpires
<1>4. ASSUME NEW p \in Passkey, Create(p) PROVE ChallengesOK'
  BY <1>4 DEF Create
<1>5. ASSUME NEW p \in Passkey, NEW c \in Challenge, Sign(p, c) PROVE ChallengesOK'
  BY <1>5 DEF Sign
<1>6. ASSUME NEW r \in Request, RegOptions(r) PROVE ChallengesOK'
  BY <1>6 DEF RegOptions
<1>7. ASSUME NEW r \in Request, RegPark(r) PROVE ChallengesOK'
  BY <1>7 DEF RegPark
<1>8. ASSUME NEW r \in Request, NEW p \in Passkey, RegGet(r, p) PROVE ChallengesOK'
  BY <1>8 DEF RegGet
<1>9. ASSUME NEW r \in Request, RegForget(r) PROVE ChallengesOK'
  BY <1>9 DEF RegForget
<1>10. ASSUME NEW r \in Request, RegInsert(r) PROVE ChallengesOK'
  BY <1>10 DEF RegInsert
<1>11. ASSUME NEW r \in Request, NEW a \in signed, VerifyGet(r, a) PROVE ChallengesOK'
  <2>1. /\ req' = [req EXCEPT ![r] = [pc |-> "select", key |-> a.key, got |-> a]]
        /\ a.challenge \in challenges /\ UNCHANGED <<challenges, opened>>
    BY <1>11 DEF VerifyGet
  <2>2. /\ shared \subseteq shared'
        /\ \A q \in Request : req[q].got # None /\ req[q].got.challenge = a.challenge =>
              a.challenge \in shared'
    BY <1>11 DEF VerifyGet
  <2>3. ASSUME NEW q \in Request, q # r, req[q].pc \in SigningIn PROVE req[q].got # None
    BY <2>3, AssertionAssumption
  <2>4. \A b \in opened : b.challenge # a.challenge
    BY <2>1
  <2> QED
    BY <2>1, <2>2, <2>3, <2>4
<1>12. ASSUME NEW r \in Request, VerifySelect(r) PROVE ChallengesOK'
  BY <1>12 DEF VerifySelect
<1>13. ASSUME NEW r \in Request, Consume(r) PROVE ChallengesOK'
  BY <1>13 DEF Consume
<1>14. ASSUME NEW r \in Request, Count(r) PROVE ChallengesOK'
  BY <1>14 DEF Count
<1>15. ASSUME NEW r \in Request, ReadAccount(r) PROVE ChallengesOK'
  BY <1>15 DEF ReadAccount
<1>16. ASSUME NEW r \in Request, NEW p \in Passkey, RemoveSelect(r, p) PROVE ChallengesOK'
  BY <1>16 DEF RemoveSelect
<1>17. ASSUME NEW r \in Request, RemoveDelete(r) PROVE ChallengesOK'
  BY <1>17 DEF RemoveDelete
<1>18. ASSUME NEW r \in Request, Fails(r) PROVE ChallengesOK'
  BY <1>18 DEF Fails
<1> QED
  BY <1>1, <1>2, <1>3, <1>4, <1>5, <1>6, <1>7, <1>8, <1>9, <1>10, <1>11, <1>12, <1>13, <1>14,
     <1>15, <1>16, <1>17, <1>18
     DEF PasskeysNext, Handler, Authenticators

LEMMA CountersStep ==
    ASSUME PasskeysInv, PasskeysNext
    PROVE  CountersOK'
<1> USE PasskeyAssumption DEF PasskeysInv, redis, outside, history, Idle, At, Begin, Goto,
        Return, Cross, Rows, SigningIn, Registering, Verified, PasskeysTypeOK, Locals, PC,
        Assertion, RequestsOK, RowsOK, SignedOK, RegistrationsOK, Enrolled, CountersOK,
        Working
<1>1. CASE LoginOptions
  BY <1>1 DEF LoginOptions
<1>2. CASE RemoveAccount
  BY <1>2 DEF RemoveAccount
<1>3. CASE ChallengeExpires
  BY <1>3 DEF ChallengeExpires
<1>4. ASSUME NEW p \in Passkey, Create(p) PROVE CountersOK'
  BY <1>4 DEF Create
<1>5. ASSUME NEW p \in Passkey, NEW c \in Challenge, Sign(p, c) PROVE CountersOK'
  BY <1>5 DEF Sign
<1>6. ASSUME NEW r \in Request, RegOptions(r) PROVE CountersOK'
  BY <1>6 DEF RegOptions
<1>7. ASSUME NEW r \in Request, RegPark(r) PROVE CountersOK'
  BY <1>7 DEF RegPark
<1>8. ASSUME NEW r \in Request, NEW p \in Passkey, RegGet(r, p) PROVE CountersOK'
  BY <1>8 DEF RegGet
<1>9. ASSUME NEW r \in Request, RegForget(r) PROVE CountersOK'
  BY <1>9 DEF RegForget
<1>10. ASSUME NEW r \in Request, RegInsert(r) PROVE CountersOK'
  BY <1>10 DEF RegInsert
<1>11. ASSUME NEW r \in Request, NEW a \in signed, VerifyGet(r, a) PROVE CountersOK'
  BY <1>11 DEF VerifyGet
<1>12. ASSUME NEW r \in Request, VerifySelect(r) PROVE CountersOK'
  <2> DEFINE p == req[r].key
  <2>1. /\ req' = [req EXCEPT ![r].pc = "consume"] /\ p \in Rows
        /\ req[r].pc = "select" /\ UNCHANGED <<counter, opened>>
    BY <1>12 DEF VerifySelect
  <2>2. crossed \subseteq crossed' /\ \A q \in Request \ {r} : Working(q, p,
     Verified) => p \in crossed'
    BY <1>12 DEF VerifySelect
  <2>3. p \notin Synced => counter[p] < req[r].got.count
    BY <1>12 DEF VerifySelect
  <2> QED
    BY <2>1, <2>2, <2>3
<1>13. ASSUME NEW r \in Request, Consume(r) PROVE CountersOK'
  BY <1>13 DEF Consume
<1>14. ASSUME NEW r \in Request, Count(r) PROVE CountersOK'
  BY <1>14 DEF Count
<1>15. ASSUME NEW r \in Request, ReadAccount(r) PROVE CountersOK'
  BY <1>15 DEF ReadAccount
<1>16. ASSUME NEW r \in Request, NEW p \in Passkey, RemoveSelect(r, p) PROVE CountersOK'
  BY <1>16 DEF RemoveSelect
<1>17. ASSUME NEW r \in Request, RemoveDelete(r) PROVE CountersOK'
  BY <1>17 DEF RemoveDelete
<1>18. ASSUME NEW r \in Request, Fails(r) PROVE CountersOK'
  BY <1>18 DEF Fails
<1> QED
  BY <1>1, <1>2, <1>3, <1>4, <1>5, <1>6, <1>7, <1>8, <1>9, <1>10, <1>11, <1>12, <1>13, <1>14,
     <1>15, <1>16, <1>17, <1>18
     DEF PasskeysNext, Handler, Authenticators

LEMMA RetiredStep ==
    ASSUME PasskeysInv, PasskeysNext
    PROVE  RetiredStayOut'
<1> USE PasskeyAssumption DEF PasskeysInv, redis, outside, history, Idle, At, Begin, Goto,
        Return, Cross, Rows, SigningIn, Registering, Verified, PasskeysTypeOK, Locals, PC,
        Assertion, RequestsOK, RowsOK, RegistrationsOK, Enrolled, RetiredStayOut, Quiet
<1>1. CASE LoginOptions
  BY <1>1 DEF LoginOptions
<1>2. CASE RemoveAccount
  <2> SUFFICES ASSUME NEW p \in retired'

        PROVE  p \notin Rows' /\ Quiet(p)' /\ pending' # created'[p] /\ created'[p] # None
    OBVIOUS
  <2>1. Rows' = {} /\ UNCHANGED <<req, pending, created>>
    BY <1>2 DEF RemoveAccount
  <2>2. p \in retired \/ (p \in Rows /\ Quiet(p))
    BY <1>2 DEF RemoveAccount
  <2>3. Quiet(p) /\ created[p] # None
    BY <2>2
  <2>4. created[p] # pending
    BY <2>2
  <2> QED
    BY <2>1, <2>3, <2>4
<1>3. CASE ChallengeExpires
  BY <1>3 DEF ChallengeExpires
<1>4. ASSUME NEW p \in Passkey, Create(p) PROVE RetiredStayOut'
  BY <1>4 DEF Create
<1>5. ASSUME NEW p \in Passkey, NEW c \in Challenge, Sign(p, c) PROVE RetiredStayOut'
  BY <1>5 DEF Sign
<1>6. ASSUME NEW r \in Request, RegOptions(r) PROVE RetiredStayOut'
  BY <1>6 DEF RegOptions
<1>7. ASSUME NEW r \in Request, RegPark(r) PROVE RetiredStayOut'
  BY <1>7 DEF RegPark
<1>8. ASSUME NEW r \in Request, NEW p \in Passkey, RegGet(r, p) PROVE RetiredStayOut'
  BY <1>8 DEF RegGet
<1>9. ASSUME NEW r \in Request, RegForget(r) PROVE RetiredStayOut'
  BY <1>9 DEF RegForget
<1>10. ASSUME NEW r \in Request, RegInsert(r) PROVE RetiredStayOut'
  BY <1>10 DEF RegInsert
<1>11. ASSUME NEW r \in Request, NEW a \in signed, VerifyGet(r, a) PROVE RetiredStayOut'
  BY <1>11 DEF VerifyGet
<1>12. ASSUME NEW r \in Request, VerifySelect(r) PROVE RetiredStayOut'
  BY <1>12 DEF VerifySelect
<1>13. ASSUME NEW r \in Request, Consume(r) PROVE RetiredStayOut'
  BY <1>13 DEF Consume
<1>14. ASSUME NEW r \in Request, Count(r) PROVE RetiredStayOut'
  BY <1>14 DEF Count
<1>15. ASSUME NEW r \in Request, ReadAccount(r) PROVE RetiredStayOut'
  BY <1>15 DEF ReadAccount
<1>16. ASSUME NEW r \in Request, NEW p \in Passkey, RemoveSelect(r, p) PROVE RetiredStayOut'
  BY <1>16 DEF RemoveSelect
<1>17. ASSUME NEW r \in Request, RemoveDelete(r) PROVE RetiredStayOut'
  BY <1>17 DEF RemoveDelete
<1>18. ASSUME NEW r \in Request, Fails(r) PROVE RetiredStayOut'
  BY <1>18 DEF Fails
<1> QED
  BY <1>1, <1>2, <1>3, <1>4, <1>5, <1>6, <1>7, <1>8, <1>9, <1>10, <1>11, <1>12, <1>13, <1>14,
     <1>15, <1>16, <1>17, <1>18
     DEF PasskeysNext, Handler, Authenticators

-----------------------------------------------------------------------------
LEMMA PasskeysStep ==
    ASSUME PasskeysInv, [PasskeysNext]_passkeysVars
    PROVE  PasskeysInv'
<1>1. CASE PasskeysNext
  BY <1>1, PasskeysTypeStep, PasskeysRequestsStep, RowsStep, SignedStep, RegistrationsStep,
     ChallengesStep, CountersStep, RetiredStep DEF PasskeysInv
<1>2. CASE UNCHANGED passkeysVars
  <2> USE <1>2 DEF passkeysVars, redis, outside, history, Rows
  <2>1. PasskeysTypeOK' /\ RequestsOK' /\ RowsOK' /\ SignedOK'
    BY DEF PasskeysInv, PasskeysTypeOK, RequestsOK, RowsOK, SignedOK
  <2>2. RegistrationsOK' /\ RetiredStayOut'
    BY DEF PasskeysInv, RegistrationsOK, Enrolled, RetiredStayOut, Quiet
  <2>3. ChallengesOK'
    BY DEF PasskeysInv, ChallengesOK
  <2>4. CountersOK'
    BY DEF PasskeysInv, CountersOK, Working
  <2> QED
    BY <2>1, <2>2, <2>3, <2>4 DEF PasskeysInv
<1> QED
  BY <1>1, <1>2

LEMMA PasskeysStart == PasskeysInit => PasskeysInv
<1> SUFFICES ASSUME PasskeysInit PROVE PasskeysInv
  OBVIOUS
<1> USE PasskeyAssumption DEF PasskeysInit, Rows
<1>1. /\ \A r \in Request : req[r].pc = "idle" /\ req[r].key = None /\ req[r].got = None
      /\ Rows = {}
  BY DEF Idle
<1>2. PasskeysTypeOK
  BY DEF PasskeysTypeOK, Idle, Locals, PC
<1>3. RequestsOK /\ RowsOK /\ SignedOK /\ RetiredStayOut
  BY <1>1 DEF RequestsOK, RowsOK, SignedOK, RetiredStayOut, SigningIn, Registering, Verified
<1>4. RegistrationsOK
  BY <1>1 DEF RegistrationsOK, Enrolled
<1>5. ChallengesOK
  BY <1>1 DEF ChallengesOK, SigningIn, Verified
<1>6. CountersOK
  BY <1>1 DEF CountersOK, Working, Verified
<1> QED
  BY <1>2, <1>3, <1>4, <1>5, <1>6 DEF PasskeysInv

(* The invariant of the passkeys holds in every reachable state, for any number *)
(* of passkeys, challenges and requests; with it, a passkey removed while       *)
(* nobody worked on it stays out.                                               *)
THEOREM PasskeysInvariance == PasskeysSpec => []PasskeysInv
BY PasskeysStart, PasskeysStep, PTL DEF PasskeysSpec

LEMMA ReplayStep ==
    ASSUME PasskeysInv, NEW r \in Request, ReadAccount(r), req[r].got \in opened
    PROVE  req[r].got.challenge \in shared /\ req[r].key \in Synced \cup crossed
<1> USE DEF PasskeysInv, SigningIn, Verified
<1>1. At(r, "read") /\ account /\ opened' = opened \cup {req[r].got}
  BY DEF ReadAccount
<1>2. req[r].got \in signed /\ req[r].key = req[r].got.key /\ req[r].key \in Passkey
  BY <1>1 DEF At, RequestsOK, PasskeysTypeOK, Assertion
<1>3. req[r].got.challenge \in shared
  BY <1>1, <1>2 DEF At, ChallengesOK
<1>4. ASSUME req[r].key \notin Synced \cup crossed PROVE FALSE
  BY <1>1, <1>2, <1>4 DEF At, CountersOK, Working
<1> QED
  BY <1>3, <1>4

(* An assertion that signs in a second time had its challenge held by two       *)
(* requests together, and comes from an authenticator without a counter or from *)
(* one whose passkey two requests verified, or registered, together.            *)
THEOREM ReplaysAreRefused == PasskeysSpec => ReplaysRefused
<1>1. PasskeysInv /\ [PasskeysNext]_passkeysVars =>
          [\A r \in Request : ReadAccount(r) /\ req[r].got \in opened =>
              /\ req[r].got.challenge \in shared
              /\ req[r].key \in Synced \cup crossed]_passkeysVars
  BY ReplayStep
<1> QED
  BY <1>1, PasskeysInvariance, PTL DEF PasskeysSpec, ReplaysRefused

LEMMA AdvanceStep ==
    ASSUME PasskeysInv, PasskeysNext
    PROVE  \A p \in Rows : p \in Rows' /\ counter'[p] < counter[p] => p \in crossed
<1> SUFFICES ASSUME NEW p \in Rows, p \in Rows', counter'[p] < counter[p], p \notin crossed
             PROVE  FALSE
  OBVIOUS
<1> USE PasskeyAssumption DEF PasskeysInv, PasskeysTypeOK, Rows, Verified
<1>1. p \in Passkey /\ counter[p] \in Nat /\ ~(counter[p] < counter[p])
  OBVIOUS
<1>2. ASSUME NEW r \in Request, RegInsert(r) PROVE FALSE
  BY <1>1, <1>2 DEF RegInsert
<1>3. ASSUME NEW r \in Request, RemoveDelete(r) PROVE FALSE
  BY <1>1, <1>3 DEF RemoveDelete
<1>4. CASE RemoveAccount
  BY <1>4 DEF RemoveAccount
<1>5. ASSUME NEW r \in Request, Count(r) PROVE FALSE
  <2>1. req[r].key = p /\ At(r, "count") /\ counter'[p] = req[r].got.count
    BY <1>1, <1>5 DEF Count
  <2>2. CASE p \in Synced
    <3>1. counter[p] = 0
      BY <2>2 DEF RowsOK
    <3>2. req[r].got \in signed /\ req[r].got.count \in Nat
      BY <2>1 DEF RequestsOK, At, SigningIn, Assertion
    <3> QED
      BY <2>1, <3>1, <3>2
  <2>3. CASE p \notin Synced
    <3>1. counter[p] < req[r].got.count
      BY <1>1, <2>1, <2>3 DEF CountersOK, Working, At
    <3>2. req[r].got.count \in Nat
      BY <2>1 DEF RequestsOK, At, SigningIn, Assertion
    <3> QED
      BY <1>1, <2>1, <3>1, <3>2
  <2> QED
    BY <2>2, <2>3
<1>6. CASE UNCHANGED counter
  BY <1>1, <1>6
<1>7. \/ \E r \in Request : RegInsert(r) \/ RemoveDelete(r) \/ Count(r)
      \/ RemoveAccount \/ UNCHANGED counter
  BY DEF PasskeysNext, Handler, Authenticators, LoginOptions, ChallengeExpires, Create, Sign,
     RegOptions, RegPark, RegGet, RegForget, VerifyGet, VerifySelect, Consume, ReadAccount,
     RemoveSelect, Fails
<1> QED
  BY <1>2, <1>3, <1>4, <1>5, <1>6, <1>7

(* The counter of a row never goes back unless two requests verified, or        *)
(* registered, its passkey together.                                            *)
THEOREM CountersGoUp == PasskeysSpec => CountersAdvance
<1>1. PasskeysInv /\ [PasskeysNext]_passkeysVars =>
          [\A p \in Rows : p \in Rows' /\ counter'[p] < counter[p] => p \in crossed]_passkeysVars
  BY AdvanceStep
<1> QED
  BY <1>1, PasskeysInvariance, PTL DEF PasskeysSpec, CountersAdvance
=============================================================================
