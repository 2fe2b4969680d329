----------------------------- MODULE TwoFactorProofs -----------------------------
(* Proofs about TwoFactor, for any number of challenges, requests, secrets and  *)
(* codes, with requests interleaving and failing at every await.                *)
EXTENDS TwoFactor, TLAPS

LEMMA MintType == ASSUME NEW m \in 1 .. MaxMints PROVE Mint(m) \subseteq Code
BY DEF Mint, Code

LEMMA MintedType == ASSUME TypeOK PROVE Minted \subseteq Code
BY TwoFactorAssumption DEF TypeOK, Minted, Code

(* A new minting holds no code of an earlier one. *)
LEMMA MintFresh ==
    ASSUME TypeOK, minted' = minted + 1
    PROVE  /\ Mint(minted') \subseteq Minted' /\ Minted \subseteq Minted'
           /\ Mint(minted') \cap Minted = {}
BY TwoFactorAssumption DEF TypeOK, Mint, Minted

(* What was minted together before a minting still is, and so is the new list. *)
LEMMA MintTogether ==
    ASSUME TypeOK, minted' = minted + 1
    PROVE  \A S : MintedTogether(S) \/ S = Mint(minted') => \E m \in 1 .. minted' : S = Mint(m)
<1>1. /\ minted \in Nat /\ minted' \in 1 .. minted'
      /\ \A m \in 1 .. minted : m \in 1 .. minted'
  BY TwoFactorAssumption DEF TypeOK
<1> QED
  BY <1>1 DEF MintedTogether

LEMMA IdleType == Idle \in Locals
BY DEF Idle, Held, Locals, PC, Answer

LEMMA HeldType ==
    ASSUME NEW pc \in PC, NEW c \in Challenge \cup {None}, NEW n \in Nat,
           NEW answer \in Answer, NEW hashes \in SUBSET Code
    PROVE  Held(pc, c, n, answer, hashes) \in Locals
BY DEF Held, Locals

LEMMA CountType ==
    ASSUME NEW count \in [Challenge -> Nat], NEW c \in Challenge
    PROVE  PlusOne(count, c) \in [Challenge -> Nat]
<1>1. \A d \in Challenge : count[d] + 1 \in Nat
  OBVIOUS
<1> QED
  BY <1>1 DEF PlusOne

-----------------------------------------------------------------------------
LEMMA TypeStep == ASSUME TypeOK, RequestsOK, [Next]_vars PROVE TypeOK'
<1> USE TwoFactorAssumption, IdleType DEF TypeOK, row, redis, counts, answered, listed
<1>1. CASE UNCHANGED vars
  BY <1>1 DEF vars
<1>2. ASSUME NEW r \in Request, SetupSelect(r) PROVE TypeOK'
  <2>1. Held("setup", None, 0, None, {}) \in Locals
    BY HeldType DEF PC, Answer
  <2>2. req' \in [Request -> Locals]
    BY <1>2, <2>1 DEF SetupSelect, Begin
  <2> QED
    BY <1>2, <2>2 DEF SetupSelect
<1>3. ASSUME NEW r \in Request, SetupStore(r) PROVE TypeOK'
  BY <1>3 DEF SetupStore, Return
<1>4. ASSUME NEW r \in Request, ActivateGet(r) PROVE TypeOK'
  <2>1. Held("activate", None, 0, setup, {}) \in Locals
    BY HeldType DEF PC, Answer
  <2>2. req' \in [Request -> Locals]
    BY <1>4, <2>1 DEF ActivateGet, Begin
  <2> QED
    BY <1>4, <2>2 DEF ActivateGet
<1>5. ASSUME NEW r \in Request, ActivateUpdate(r) PROVE TypeOK'
  <2>1. minted' \in 1 .. MaxMints /\ Mint(minted') \in SUBSET Code
    <3>1. minted' \in 1 .. MaxMints
      BY <1>5 DEF ActivateUpdate, MintCodes
    <3> QED
      BY <3>1, MintType
  <2>2. codes' \subseteq Code /\ retired' \subseteq Code /\ spent' \subseteq Code
    BY <1>5, <2>1 DEF ActivateUpdate, MintCodes, WriteCodes
  <2>3. Held("finish", None, 0, None, Mint(minted')) \in Locals
    BY <2>1, HeldType DEF PC, Answer
  <2>4. req' \in [Request -> Locals]
    BY <1>5, <2>3 DEF ActivateUpdate, MintCodes
  <2>5. stale' \subseteq Request /\ torn' \in BOOLEAN /\ UNCHANGED shown
    BY <1>5 DEF ActivateUpdate, MintCodes, WriteCodes
  <2>6. req[r].answer \in Secret
    BY <1>5 DEF ActivateUpdate, RequestsOK
  <2>7. stray' \in BOOLEAN /\ enabled' \in BOOLEAN
    BY <1>5 DEF ActivateUpdate
  <2>8. secret' \in Secret \cup {None}
    BY <1>5, <2>6 DEF ActivateUpdate
  <2> QED
    BY <1>5, <2>1, <2>2, <2>4, <2>5, <2>7, <2>8 DEF ActivateUpdate
<1>6. ASSUME NEW r \in Request, ActivateDel(r) PROVE TypeOK'
  BY <1>6 DEF ActivateDel, Goto, Locals, PC
<1>7. ASSUME NEW r \in Request, NEW c \in Challenge, VerifyGet(r, c) PROVE TypeOK'
  <2>1. Held("select", c, attempts[c], None, {}) \in Locals
    BY HeldType DEF PC, Answer
  <2>2. req' \in [Request -> Locals]
    BY <1>7, <2>1 DEF VerifyGet
  <2> QED
    BY <1>7, <2>2 DEF VerifyGet
<1>8. ASSUME NEW r \in Request, NEW answer \in Answer, VerifySelect(r, answer) PROVE TypeOK'
  <2>1. req[r].challenge \in Challenge \cup {None} /\ req[r].attempts \in Nat
    BY DEF Locals
  <2>2. answer \in codes => Spliced(answer) \in SUBSET Code
    BY DEF Spliced
  <2>3. \A pc \in {"drop", "consume"} : Held(pc, req[r].challenge, 0, None, {}) \in Locals
    BY <2>1, HeldType DEF PC, Answer
  <2>4. answer \in codes => Held("spend", req[r].challenge, 0, answer, Spliced(answer)) \in Locals
    BY <2>1, <2>2, HeldType DEF PC
  <2>5. Held("fail", req[r].challenge, req[r].attempts, None, {}) \in Locals
    BY <2>1, HeldType DEF PC, Answer
  <2>6. req' \in [Request -> Locals]
    BY <1>8, <2>3, <2>4, <2>5 DEF VerifySelect
  <2> QED
    BY <1>8, <2>6 DEF VerifySelect
<1>9. ASSUME NEW r \in Request, Spend(r) PROVE TypeOK'
  <2>1. req[r].hashes \subseteq Code /\ req[r].answer \in Code
    BY <1>9, MintedType DEF Spend, RequestsOK, Locals
  <2>2. codes' \subseteq Code /\ retired' \subseteq Code /\ spent' \subseteq Code
    BY <1>9, <2>1 DEF Spend
  <2>3. Held("consume", req[r].challenge, 0, None, {}) \in Locals
    BY HeldType DEF PC, Answer, Locals
  <2>4. req' \in [Request -> Locals]
    BY <1>9, <2>3 DEF Spend
  <2> QED
    BY <1>9, <2>2, <2>4 DEF Spend
<1>10. ASSUME NEW r \in Request, Consume(r) PROVE TypeOK'
  <2>1. req[r].challenge \in issued
    BY <1>10 DEF Consume, RequestsOK, At
  <2>2. req' \in [Request -> Locals]
    BY <1>10 DEF Consume, Goto, Locals, PC
  <2>3. live' \subseteq issued' /\ closed' \subseteq issued' /\ issued' = issued
    BY <1>10, <2>1 DEF Consume, DelChallenge
  <2>4. behind' \subseteq Request /\ raced' \subseteq issued'
    BY <1>10, <2>1, <2>3 DEF Consume, Answered
  <2> QED
    BY <1>10, <2>2, <2>3, <2>4 DEF Consume, DelChallenge
<1>11. ASSUME NEW r \in Request, SignIn(r) PROVE TypeOK'
  <2>1. req[r].challenge \in Challenge
    BY <1>11 DEF SignIn, RequestsOK, At
  <2>2. signIns' \in [Challenge -> Nat]
    BY <1>11, <2>1, CountType DEF SignIn
  <2>3. req' \in [Request -> Locals]
    BY <1>11 DEF SignIn, Return
  <2> QED
    BY <1>11, <2>2, <2>3 DEF SignIn
<1>12. ASSUME NEW r \in Request, Drop(r) PROVE TypeOK'
  <2>1. req[r].challenge \in issued
    BY <1>12 DEF Drop, RequestsOK, At
  <2>2. req' \in [Request -> Locals]
    BY <1>12 DEF Drop, Return
  <2>3. live' \subseteq issued' /\ closed' \subseteq issued' /\ issued' = issued
    BY <1>12, <2>1 DEF Drop, DelChallenge
  <2>4. behind' \subseteq Request /\ raced' \subseteq issued'
    BY <1>12, <2>1, <2>3 DEF Drop, Answered
  <2> QED
    BY <1>12, <2>2, <2>3, <2>4 DEF Drop, DelChallenge
<1>13. ASSUME NEW r \in Request, Fail(r) PROVE TypeOK'
  <2>1. req[r].challenge \in issued
    BY <1>13 DEF Fail, RequestsOK, At
  <2>2. req' \in [Request -> Locals]
    BY <1>13 DEF Fail, Return
  <2>3. live' \subseteq issued' /\ closed' \subseteq issued' /\ issued' = issued
    BY <1>13, <2>1 DEF Fail, DelChallenge
  <2>4. behind' \subseteq Request /\ raced' \subseteq issued'
    BY <1>13, <2>1, <2>3 DEF Fail, Answered
  <2>5. attempts' \in [Challenge -> Nat]
    <3>1. req[r].attempts + 1 \in Nat
      BY DEF Locals
    <3> QED
      BY <1>13, <3>1 DEF Fail, DelChallenge
  <2>6. failures' \in [Challenge -> Nat]
    BY <1>13, <2>1, CountType DEF Fail
  <2>7. UNCHANGED expired
    BY <1>13 DEF Fail, DelChallenge
  <2> QED
    BY <1>13, <2>2, <2>3, <2>4, <2>5, <2>6, <2>7 DEF Fail
<1>14. ASSUME NEW r \in Request, RegenerateSelect(r) PROVE TypeOK'
  <2>1. Held("regenerate", None, 0, None, {}) \in Locals
    BY HeldType DEF PC, Answer
  <2>2. req' \in [Request -> Locals]
    BY <1>14, <2>1 DEF RegenerateSelect, Begin
  <2> QED
    BY <1>14, <2>2 DEF RegenerateSelect
<1>15. ASSUME NEW r \in Request, RegenerateUpdate(r) PROVE TypeOK'
  <2>1. minted' \in 1 .. MaxMints /\ Mint(minted') \in SUBSET Code
    <3>1. minted' \in 1 .. MaxMints
      BY <1>15 DEF RegenerateUpdate, MintCodes
    <3> QED
      BY <3>1, MintType
  <2>2. codes' \subseteq Code /\ retired' \subseteq Code /\ spent' \subseteq Code
    BY <1>15, <2>1 DEF RegenerateUpdate, MintCodes, WriteCodes
  <2>3. Held("reply", None, 0, None, Mint(minted')) \in Locals
    BY <2>1, HeldType DEF PC, Answer
  <2>4. req' \in [Request -> Locals]
    BY <1>15, <2>3 DEF RegenerateUpdate, MintCodes
  <2>5. stale' \subseteq Request /\ torn' \in BOOLEAN /\ UNCHANGED shown
    BY <1>15 DEF RegenerateUpdate, MintCodes, WriteCodes
  <2> QED
    BY <1>15, <2>1, <2>2, <2>4, <2>5 DEF RegenerateUpdate
<1>16. ASSUME NEW r \in Request, Reply(r) PROVE TypeOK'
  <2>1. req[r].hashes \subseteq Code
    BY DEF Locals
  <2>2. req' \in [Request -> Locals]
    BY <1>16 DEF Reply, Return
  <2> QED
    BY <1>16, <2>1, <2>2 DEF Reply
<1>17. ASSUME NEW r \in Request, Fails(r) PROVE TypeOK'
  <2>1. At(r, "fail") => req[r].challenge \in Challenge
    BY DEF RequestsOK, At
  <2>2. failures' \in [Challenge -> Nat] /\ lapsed' \in [Challenge -> Nat]
    BY <1>17, <2>1, CountType DEF Fails
  <2>3. req' \in [Request -> Locals]
    BY <1>17 DEF Fails, Return
  <2> QED
    BY <1>17, <2>2, <2>3 DEF Fails
<1>18. ASSUME SetupExpires PROVE TypeOK'
  BY <1>18 DEF SetupExpires
<1>19. ASSUME NEW c \in Challenge, Issue(c) PROVE TypeOK'
  BY <1>19 DEF Issue
<1>20. ASSUME NEW c \in Challenge, ChallengeExpires(c) PROVE TypeOK'
  BY <1>20 DEF ChallengeExpires
<1>21. ASSUME AccountRemoved PROVE TypeOK'
  BY <1>21 DEF AccountRemoved
<1> QED
  BY <1>1, <1>2, <1>3, <1>4, <1>5, <1>6, <1>7, <1>8, <1>9, <1>10, <1>11, <1>12, <1>13, <1>14, <1>15, <1>16, <1>17, <1>18, <1>19, <1>20, <1>21 DEF Next

-----------------------------------------------------------------------------
LEMMA RequestsStep == ASSUME TypeOK, RequestsOK, CodesMinted, [Next]_vars PROVE RequestsOK'
<1> USE AnswersAssumption DEF TypeOK, RequestsOK, At, row, redis, counts, answered, listed
<1>1. CASE UNCHANGED vars
  BY <1>1 DEF vars, Minted, MintedTogether
<1>2. ASSUME NEW r \in Request, SetupSelect(r) PROVE RequestsOK'
  BY <1>2 DEF SetupSelect, Begin, Held, Locals, Minted, MintedTogether
<1>3. ASSUME NEW r \in Request, SetupStore(r) PROVE RequestsOK'
  BY <1>3 DEF SetupStore, InUse, Return, Idle, Held, Locals, Minted, MintedTogether
<1>4. ASSUME NEW r \in Request, ActivateGet(r) PROVE RequestsOK'
  BY <1>4 DEF ActivateGet, Begin, Held, Locals, Minted, MintedTogether
<1>5. ASSUME NEW r \in Request, ActivateUpdate(r) PROVE RequestsOK'
  <2>1. minted' = minted + 1 /\ UNCHANGED issued
    BY <1>5 DEF ActivateUpdate, MintCodes
  <2>2. Minted \subseteq Minted'
    BY <2>1, MintFresh
  <2>3. /\ req'[r] = Held("finish", None, 0, None, Mint(minted'))
        /\ \A q \in Request \ {r} : req'[q] = req[q]
    BY <1>5 DEF ActivateUpdate, MintCodes
  <2>4. \A q \in Request : req'[q].pc \in {"finish", "reply"} =>
            \E m \in 1 .. minted' : req'[q].hashes = Mint(m)
    BY <2>1, <2>3, MintTogether DEF Held, At
  <2> QED
    BY <2>1, <2>2, <2>3, <2>4 DEF Held, MintedTogether, Mint
<1>6. ASSUME NEW r \in Request, ActivateDel(r) PROVE RequestsOK'
  BY <1>6 DEF ActivateDel, Goto, Locals, Minted, MintedTogether
<1>7. ASSUME NEW r \in Request, NEW c \in Challenge, VerifyGet(r, c) PROVE RequestsOK'
  BY <1>7 DEF VerifyGet, Held, Locals, Minted, MintedTogether
<1>8. ASSUME NEW r \in Request, NEW answer \in Answer, VerifySelect(r, answer) PROVE RequestsOK'
  <2>1. req[r].challenge \in issued
    BY <1>8 DEF VerifySelect
  <2>2. answer \in codes => answer \in Minted /\ answer \notin Spliced(answer)
    BY DEF Spliced, CodesMinted
  <2>3. Spliced(answer) \subseteq Minted
    BY DEF Spliced, CodesMinted
  <2>4. \A q \in Request \ {r} : req'[q] = req[q]
    BY <1>8 DEF VerifySelect
  <2>5. /\ req'[r].challenge = req[r].challenge
        /\ req'[r].pc \in {"drop", "consume", "spend", "fail"}
        /\ req'[r].pc = "spend" =>
              answer \in codes /\ req'[r].answer = answer /\ req'[r].hashes = Spliced(answer)
    BY <1>8 DEF VerifySelect, Held
  <2> QED
    BY <1>8, <2>1, <2>2, <2>3, <2>4, <2>5 DEF VerifySelect, Minted, MintedTogether
<1>9. ASSUME NEW r \in Request, Spend(r) PROVE RequestsOK'
  BY <1>9 DEF Spend, Held, Locals, Minted, MintedTogether
<1>10. ASSUME NEW r \in Request, Consume(r) PROVE RequestsOK'
  BY <1>10 DEF Consume, DelChallenge, Answered, Goto, Locals, Minted, MintedTogether
<1>11. ASSUME NEW r \in Request, SignIn(r) PROVE RequestsOK'
  BY <1>11 DEF SignIn, PlusOne, Return, Idle, Held, Locals, Minted, MintedTogether
<1>12. ASSUME NEW r \in Request, Drop(r) PROVE RequestsOK'
  BY <1>12 DEF Drop, DelChallenge, Answered, Return, Idle, Held, Locals, Minted, MintedTogether
<1>13. ASSUME NEW r \in Request, Fail(r) PROVE RequestsOK'
  BY <1>13 DEF Fail, DelChallenge, Answered, PlusOne, Countable, Return, Idle, Held, Locals, Minted, MintedTogether
<1>14. ASSUME NEW r \in Request, RegenerateSelect(r) PROVE RequestsOK'
  BY <1>14 DEF RegenerateSelect, Begin, Held, Locals, Minted, MintedTogether
<1>15. ASSUME NEW r \in Request, RegenerateUpdate(r) PROVE RequestsOK'
  <2>1. minted' = minted + 1 /\ UNCHANGED issued
    BY <1>15 DEF RegenerateUpdate, MintCodes
  <2>2. Minted \subseteq Minted'
    BY <2>1, MintFresh
  <2>3. /\ req'[r] = Held("reply", None, 0, None, Mint(minted'))
        /\ \A q \in Request \ {r} : req'[q] = req[q]
    BY <1>15 DEF RegenerateUpdate, MintCodes
  <2>4. \A q \in Request : req'[q].pc \in {"finish", "reply"} =>
            \E m \in 1 .. minted' : req'[q].hashes = Mint(m)
    BY <2>1, <2>3, MintTogether DEF Held, At
  <2> QED
    BY <2>1, <2>2, <2>3, <2>4 DEF Held, MintedTogether, Mint
<1>16. ASSUME NEW r \in Request, Reply(r) PROVE RequestsOK'
  BY <1>16 DEF Reply, Return, Idle, Held, Locals, Minted, MintedTogether
<1>17. ASSUME NEW r \in Request, Fails(r) PROVE RequestsOK'
  BY <1>17 DEF Fails, PlusOne, Return, Idle, Held, Locals, Minted, MintedTogether
<1>18. ASSUME SetupExpires PROVE RequestsOK'
  BY <1>18 DEF SetupExpires, Locals, Minted, MintedTogether
<1>19. ASSUME NEW c \in Challenge, Issue(c) PROVE RequestsOK'
  BY <1>19 DEF Issue, Locals, Minted, MintedTogether
<1>20. ASSUME NEW c \in Challenge, ChallengeExpires(c) PROVE RequestsOK'
  BY <1>20 DEF ChallengeExpires, Locals, Minted, MintedTogether
<1>21. ASSUME AccountRemoved PROVE RequestsOK'
  BY <1>21 DEF AccountRemoved, Locals, Minted, MintedTogether
<1> QED
  BY <1>1, <1>2, <1>3, <1>4, <1>5, <1>6, <1>7, <1>8, <1>9, <1>10, <1>11, <1>12, <1>13, <1>14, <1>15, <1>16, <1>17, <1>18, <1>19, <1>20, <1>21 DEF Next

-----------------------------------------------------------------------------
LEMMA CodesStep == ASSUME TypeOK, RequestsOK, CodesMinted, [Next]_vars PROVE CodesMinted'
<1> USE DEF TypeOK, RequestsOK, CodesMinted, At, row, redis, counts, answered, listed
<1>1. CASE UNCHANGED vars
  BY <1>1 DEF vars, Minted, MintedTogether
<1>2. ASSUME NEW r \in Request, SetupSelect(r) PROVE CodesMinted'
  BY <1>2 DEF SetupSelect, Begin, Held, Minted, MintedTogether
<1>3. ASSUME NEW r \in Request, SetupStore(r) PROVE CodesMinted'
  BY <1>3 DEF SetupStore, InUse, Return, Idle, Held, Minted, MintedTogether
<1>4. ASSUME NEW r \in Request, ActivateGet(r) PROVE CodesMinted'
  BY <1>4 DEF ActivateGet, Begin, Held, Minted, MintedTogether
<1>5. ASSUME NEW r \in Request, ActivateUpdate(r) PROVE CodesMinted'
  <2>1. minted' = minted + 1 /\ UNCHANGED <<exists, shown>>
    BY <1>5 DEF ActivateUpdate, MintCodes
  <2>2. Minted \subseteq Minted' /\ Mint(minted') \subseteq Minted'
    BY <2>1, MintFresh
  <2>3. codes' \cup spent' \cup retired' \subseteq Minted'
    BY <1>5, <2>1, <2>2 DEF ActivateUpdate, MintCodes, WriteCodes
  <2>4. shown' = {} \/ \E m \in 1 .. minted' : shown' = Mint(m)
    BY <2>1, MintTogether
  <2> QED
    BY <2>3, <2>4 DEF MintedTogether, Mint
<1>6. ASSUME NEW r \in Request, ActivateDel(r) PROVE CodesMinted'
  BY <1>6 DEF ActivateDel, Goto, Minted, MintedTogether
<1>7. ASSUME NEW r \in Request, NEW c \in Challenge, VerifyGet(r, c) PROVE CodesMinted'
  BY <1>7 DEF VerifyGet, Held, Minted, MintedTogether
<1>8. ASSUME NEW r \in Request, NEW answer \in Answer, VerifySelect(r, answer) PROVE CodesMinted'
  BY <1>8 DEF VerifySelect, Spliced, Held, Minted, MintedTogether
<1>9. ASSUME NEW r \in Request, Spend(r) PROVE CodesMinted'
  BY <1>9 DEF Spend, Held, Minted, MintedTogether
<1>10. ASSUME NEW r \in Request, Consume(r) PROVE CodesMinted'
  BY <1>10 DEF Consume, DelChallenge, Answered, Goto, Minted, MintedTogether
<1>11. ASSUME NEW r \in Request, SignIn(r) PROVE CodesMinted'
  BY <1>11 DEF SignIn, PlusOne, Return, Idle, Held, Minted, MintedTogether
<1>12. ASSUME NEW r \in Request, Drop(r) PROVE CodesMinted'
  BY <1>12 DEF Drop, DelChallenge, Answered, Return, Idle, Held, Minted, MintedTogether
<1>13. ASSUME NEW r \in Request, Fail(r) PROVE CodesMinted'
  BY <1>13 DEF Fail, DelChallenge, Answered, PlusOne, Countable, Return, Idle, Held, Minted, MintedTogether
<1>14. ASSUME NEW r \in Request, RegenerateSelect(r) PROVE CodesMinted'
  BY <1>14 DEF RegenerateSelect, Begin, Held, Minted, MintedTogether
<1>15. ASSUME NEW r \in Request, RegenerateUpdate(r) PROVE CodesMinted'
  <2>1. minted' = minted + 1 /\ UNCHANGED <<exists, shown>>
    BY <1>15 DEF RegenerateUpdate, MintCodes
  <2>2. Minted \subseteq Minted' /\ Mint(minted') \subseteq Minted'
    BY <2>1, MintFresh
  <2>3. codes' \cup spent' \cup retired' \subseteq Minted'
    BY <1>15, <2>1, <2>2 DEF RegenerateUpdate, MintCodes, WriteCodes
  <2>4. shown' = {} \/ \E m \in 1 .. minted' : shown' = Mint(m)
    BY <2>1, MintTogether
  <2> QED
    BY <2>3, <2>4 DEF MintedTogether, Mint
<1>16. ASSUME NEW r \in Request, Reply(r) PROVE CodesMinted'
  BY <1>16 DEF Reply, Return, Idle, Held, Minted, MintedTogether
<1>17. ASSUME NEW r \in Request, Fails(r) PROVE CodesMinted'
  BY <1>17 DEF Fails, PlusOne, Return, Idle, Held, Minted, MintedTogether
<1>18. ASSUME SetupExpires PROVE CodesMinted'
  BY <1>18 DEF SetupExpires, Minted, MintedTogether
<1>19. ASSUME NEW c \in Challenge, Issue(c) PROVE CodesMinted'
  BY <1>19 DEF Issue, Minted, MintedTogether
<1>20. ASSUME NEW c \in Challenge, ChallengeExpires(c) PROVE CodesMinted'
  BY <1>20 DEF ChallengeExpires, Minted, MintedTogether
<1>21. ASSUME AccountRemoved PROVE CodesMinted'
  BY <1>21 DEF AccountRemoved, Minted, MintedTogether
<1> QED
  BY <1>1, <1>2, <1>3, <1>4, <1>5, <1>6, <1>7, <1>8, <1>9, <1>10, <1>11, <1>12, <1>13, <1>14, <1>15, <1>16, <1>17, <1>18, <1>19, <1>20, <1>21 DEF Next

-----------------------------------------------------------------------------
LEMMA RetiredStep == ASSUME IInv, [Next]_vars PROVE RetiredCodesStayRetired'
<1> USE DEF IInv, TypeOK, RequestsOK, RetiredCodesStayRetired, Holds, At, row, redis, counts, answered, listed
<1>1. CASE UNCHANGED vars
  BY <1>1 DEF vars
<1>2. ASSUME NEW r \in Request, SetupSelect(r) PROVE RetiredCodesStayRetired'
  BY <1>2 DEF SetupSelect, Begin, Held, Locals
<1>3. ASSUME NEW r \in Request, SetupStore(r) PROVE RetiredCodesStayRetired'
  BY <1>3 DEF SetupStore, InUse, Return, Idle, Held, Locals
<1>4. ASSUME NEW r \in Request, ActivateGet(r) PROVE RetiredCodesStayRetired'
  BY <1>4 DEF ActivateGet, Begin, Held, Locals
<1>5. ASSUME NEW r \in Request, ActivateUpdate(r) PROVE RetiredCodesStayRetired'
  <2>1. minted' = minted + 1 /\ UNCHANGED exists
    BY <1>5 DEF ActivateUpdate, MintCodes
  <2>2. Mint(minted') \cap Minted = {}
    BY <2>1, MintFresh
  <2>3. codes' = IF exists THEN Mint(minted') ELSE codes
    BY <1>5 DEF ActivateUpdate, MintCodes, WriteCodes
  <2>4. \A c \in retired' : c \in retired \/ (c \in codes \ Mint(minted') /\ exists /\ \A q \in Request : ~Holds(q, c))
    BY <1>5 DEF ActivateUpdate, MintCodes, WriteCodes
  <2>5. \A c \in retired' : c \notin codes'
    BY <2>2, <2>3, <2>4 DEF CodesMinted, RetiredCodesStayRetired
  <2>6. \A c \in retired' : \A q \in Request : ~Holds(q, c)
    BY <2>4 DEF RetiredCodesStayRetired
  <2>7. \A q \in Request, c \in retired' : Holds(q, c)' => Holds(q, c)
    BY <1>5 DEF ActivateUpdate, MintCodes, Held, Holds, At, TypeOK
  <2> QED
    BY <2>5, <2>6, <2>7 DEF RetiredCodesStayRetired
<1>6. ASSUME NEW r \in Request, ActivateDel(r) PROVE RetiredCodesStayRetired'
  BY <1>6 DEF ActivateDel, Goto, Locals
<1>7. ASSUME NEW r \in Request, NEW c \in Challenge, VerifyGet(r, c) PROVE RetiredCodesStayRetired'
  BY <1>7 DEF VerifyGet, Held, Locals
<1>8. ASSUME NEW r \in Request, NEW answer \in Answer, VerifySelect(r, answer) PROVE RetiredCodesStayRetired'
  BY <1>8 DEF VerifySelect, Spliced, Held, Locals
<1>9. ASSUME NEW r \in Request, Spend(r) PROVE RetiredCodesStayRetired'
  <2>1. req[r].answer \notin req[r].hashes /\ At(r, "spend")
    BY <1>9 DEF Spend
  <2>2. \A q \in Request, c \in Code : Holds(q, c)' => q # r /\ Holds(q, c)
    BY <1>9 DEF Spend, Held
  <2>3. \A c \in retired : c # req[r].answer /\ c \notin req[r].hashes
    BY <2>1
  <2>4. \A c \in retired' : c \in retired \/ (c = req[r].answer /\ exists /\ ~HeldByOther(r, c))
    BY <1>9 DEF Spend
  <2>5. codes' = IF exists THEN req[r].hashes ELSE codes
    BY <1>9 DEF Spend
  <2>6. \A c \in retired' : c \notin codes'
    BY <2>1, <2>3, <2>4, <2>5
  <2>7. \A c \in retired', q \in Request \ {r} : ~Holds(q, c)
    BY <2>4 DEF HeldByOther
  <2>8. \A c \in retired' : c \in Code
    BY <2>1, <2>4, MintedType
  <2> QED
    BY <2>2, <2>6, <2>7, <2>8 DEF RetiredCodesStayRetired
<1>10. ASSUME NEW r \in Request, Consume(r) PROVE RetiredCodesStayRetired'
  BY <1>10 DEF Consume, DelChallenge, Answered, Goto, Locals
<1>11. ASSUME NEW r \in Request, SignIn(r) PROVE RetiredCodesStayRetired'
  BY <1>11 DEF SignIn, PlusOne, Return, Idle, Held, Locals
<1>12. ASSUME NEW r \in Request, Drop(r) PROVE RetiredCodesStayRetired'
  BY <1>12 DEF Drop, DelChallenge, Answered, Return, Idle, Held, Locals
<1>13. ASSUME NEW r \in Request, Fail(r) PROVE RetiredCodesStayRetired'
  BY <1>13 DEF Fail, DelChallenge, Answered, PlusOne, Countable, Return, Idle, Held, Locals
<1>14. ASSUME NEW r \in Request, RegenerateSelect(r) PROVE RetiredCodesStayRetired'
  BY <1>14 DEF RegenerateSelect, Begin, Held, Locals
<1>15. ASSUME NEW r \in Request, RegenerateUpdate(r) PROVE RetiredCodesStayRetired'
  <2>1. minted' = minted + 1 /\ UNCHANGED exists
    BY <1>15 DEF RegenerateUpdate, MintCodes
  <2>2. Mint(minted') \cap Minted = {}
    BY <2>1, MintFresh
  <2>3. codes' = IF exists THEN Mint(minted') ELSE codes
    BY <1>15 DEF RegenerateUpdate, MintCodes, WriteCodes
  <2>4. \A c \in retired' : c \in retired \/ (c \in codes \ Mint(minted') /\ exists /\ \A q \in Request : ~Holds(q, c))
    BY <1>15 DEF RegenerateUpdate, MintCodes, WriteCodes
  <2>5. \A c \in retired' : c \notin codes'
    BY <2>2, <2>3, <2>4 DEF CodesMinted, RetiredCodesStayRetired
  <2>6. \A c \in retired' : \A q \in Request : ~Holds(q, c)
    BY <2>4 DEF RetiredCodesStayRetired
  <2>7. \A q \in Request, c \in retired' : Holds(q, c)' => Holds(q, c)
    BY <1>15 DEF RegenerateUpdate, MintCodes, Held, Holds, At, TypeOK
  <2> QED
    BY <2>5, <2>6, <2>7 DEF RetiredCodesStayRetired
<1>16. ASSUME NEW r \in Request, Reply(r) PROVE RetiredCodesStayRetired'
  BY <1>16 DEF Reply, Return, Idle, Held, Locals
<1>17. ASSUME NEW r \in Request, Fails(r) PROVE RetiredCodesStayRetired'
  BY <1>17 DEF Fails, PlusOne, Return, Idle, Held, Locals
<1>18. ASSUME SetupExpires PROVE RetiredCodesStayRetired'
  BY <1>18 DEF SetupExpires, Locals
<1>19. ASSUME NEW c \in Challenge, Issue(c) PROVE RetiredCodesStayRetired'
  BY <1>19 DEF Issue, Locals
<1>20. ASSUME NEW c \in Challenge, ChallengeExpires(c) PROVE RetiredCodesStayRetired'
  BY <1>20 DEF ChallengeExpires, Locals
<1>21. ASSUME AccountRemoved PROVE RetiredCodesStayRetired'
  BY <1>21 DEF AccountRemoved, Locals
<1> QED
  BY <1>1, <1>2, <1>3, <1>4, <1>5, <1>6, <1>7, <1>8, <1>9, <1>10, <1>11, <1>12, <1>13, <1>14, <1>15, <1>16, <1>17, <1>18, <1>19, <1>20, <1>21 DEF Next

-----------------------------------------------------------------------------
LEMMA ClosedStep == ASSUME IInv, [Next]_vars PROVE ClosedChallengesStayClosed'
<1> USE AnswersAssumption DEF IInv, TypeOK, RequestsOK, ClosedChallengesStayClosed, Reading, At, row, redis, counts, answered, listed
<1>1. CASE UNCHANGED vars
  BY <1>1 DEF vars
<1>2. ASSUME NEW r \in Request, SetupSelect(r) PROVE ClosedChallengesStayClosed'
  BY <1>2 DEF SetupSelect, Begin, Held, ReadByOther, Locals
<1>3. ASSUME NEW r \in Request, SetupStore(r) PROVE ClosedChallengesStayClosed'
  BY <1>3 DEF SetupStore, InUse, Return, Idle, Held, ReadByOther, Locals
<1>4. ASSUME NEW r \in Request, ActivateGet(r) PROVE ClosedChallengesStayClosed'
  BY <1>4 DEF ActivateGet, Begin, Held, ReadByOther, Locals
<1>5. ASSUME NEW r \in Request, ActivateUpdate(r) PROVE ClosedChallengesStayClosed'
  BY <1>5 DEF ActivateUpdate, MintCodes, WriteCodes, Held, ReadByOther, Locals
<1>6. ASSUME NEW r \in Request, ActivateDel(r) PROVE ClosedChallengesStayClosed'
  BY <1>6 DEF ActivateDel, Goto, ReadByOther, Locals
<1>7. ASSUME NEW r \in Request, NEW c \in Challenge, VerifyGet(r, c) PROVE ClosedChallengesStayClosed'
  BY <1>7 DEF VerifyGet, Held, ReadByOther, Locals
<1>8. ASSUME NEW r \in Request, NEW answer \in Answer, VerifySelect(r, answer) PROVE ClosedChallengesStayClosed'
  BY <1>8 DEF VerifySelect, Spliced, Held, ReadByOther, Locals
<1>9. ASSUME NEW r \in Request, Spend(r) PROVE ClosedChallengesStayClosed'
  BY <1>9 DEF Spend, Held, ReadByOther, Locals
<1>10. ASSUME NEW r \in Request, Consume(r) PROVE ClosedChallengesStayClosed'
  BY <1>10 DEF Consume, DelChallenge, Answered, Goto, ReadByOther, Locals
<1>11. ASSUME NEW r \in Request, SignIn(r) PROVE ClosedChallengesStayClosed'
  BY <1>11 DEF SignIn, PlusOne, Return, Idle, Held, ReadByOther, Locals
<1>12. ASSUME NEW r \in Request, Drop(r) PROVE ClosedChallengesStayClosed'
  BY <1>12 DEF Drop, DelChallenge, Answered, Return, Idle, Held, ReadByOther, Locals
<1>13. ASSUME NEW r \in Request, Fail(r) PROVE ClosedChallengesStayClosed'
  BY <1>13 DEF Fail, DelChallenge, Answered, PlusOne, Countable, Return, Idle, Held, ReadByOther, Locals
<1>14. ASSUME NEW r \in Request, RegenerateSelect(r) PROVE ClosedChallengesStayClosed'
  BY <1>14 DEF RegenerateSelect, Begin, Held, ReadByOther, Locals
<1>15. ASSUME NEW r \in Request, RegenerateUpdate(r) PROVE ClosedChallengesStayClosed'
  BY <1>15 DEF RegenerateUpdate, MintCodes, WriteCodes, Held, ReadByOther, Locals
<1>16. ASSUME NEW r \in Request, Reply(r) PROVE ClosedChallengesStayClosed'
  BY <1>16 DEF Reply, Return, Idle, Held, ReadByOther, Locals
<1>17. ASSUME NEW r \in Request, Fails(r) PROVE ClosedChallengesStayClosed'
  BY <1>17 DEF Fails, PlusOne, Return, Idle, Held, ReadByOther, Locals
<1>18. ASSUME SetupExpires PROVE ClosedChallengesStayClosed'
  BY <1>18 DEF SetupExpires, ReadByOther, Locals
<1>19. ASSUME NEW c \in Challenge, Issue(c) PROVE ClosedChallengesStayClosed'
  BY <1>19 DEF Issue, ReadByOther, Locals
<1>20. ASSUME NEW c \in Challenge, ChallengeExpires(c) PROVE ClosedChallengesStayClosed'
  BY <1>20 DEF ChallengeExpires, ReadByOther, Locals
<1>21. ASSUME AccountRemoved PROVE ClosedChallengesStayClosed'
  BY <1>21 DEF AccountRemoved, ReadByOther, Locals
<1> QED
  BY <1>1, <1>2, <1>3, <1>4, <1>5, <1>6, <1>7, <1>8, <1>9, <1>10, <1>11, <1>12, <1>13, <1>14, <1>15, <1>16, <1>17, <1>18, <1>19, <1>20, <1>21 DEF Next

-----------------------------------------------------------------------------
LEMMA ExpiredStep == ASSUME IInv, [Next]_vars PROVE ExpiredChallengesStayGone'
<1> USE DEF IInv, TypeOK, ExpiredChallengesStayGone, row, redis, counts, answered, listed
<1>1. CASE UNCHANGED vars
  BY <1>1 DEF vars
<1>2. ASSUME NEW r \in Request, SetupSelect(r) PROVE ExpiredChallengesStayGone'
  BY <1>2 DEF SetupSelect, Begin, Held
<1>3. ASSUME NEW r \in Request, SetupStore(r) PROVE ExpiredChallengesStayGone'
  BY <1>3 DEF SetupStore, InUse, Return, Idle, Held
<1>4. ASSUME NEW r \in Request, ActivateGet(r) PROVE ExpiredChallengesStayGone'
  BY <1>4 DEF ActivateGet, Begin, Held
<1>5. ASSUME NEW r \in Request, ActivateUpdate(r) PROVE ExpiredChallengesStayGone'
  BY <1>5 DEF ActivateUpdate, MintCodes, WriteCodes, Held
<1>6. ASSUME NEW r \in Request, ActivateDel(r) PROVE ExpiredChallengesStayGone'
  BY <1>6 DEF ActivateDel, Goto
<1>7. ASSUME NEW r \in Request, NEW c \in Challenge, VerifyGet(r, c) PROVE ExpiredChallengesStayGone'
  BY <1>7 DEF VerifyGet, Held
<1>8. ASSUME NEW r \in Request, NEW answer \in Answer, VerifySelect(r, answer) PROVE ExpiredChallengesStayGone'
  BY <1>8 DEF VerifySelect, Spliced, Held
<1>9. ASSUME NEW r \in Request, Spend(r) PROVE ExpiredChallengesStayGone'
  BY <1>9 DEF Spend, Held
<1>10. ASSUME NEW r \in Request, Consume(r) PROVE ExpiredChallengesStayGone'
  BY <1>10 DEF Consume, DelChallenge, Answered, Goto
<1>11. ASSUME NEW r \in Request, SignIn(r) PROVE ExpiredChallengesStayGone'
  BY <1>11 DEF SignIn, PlusOne, Return, Idle, Held
<1>12. ASSUME NEW r \in Request, Drop(r) PROVE ExpiredChallengesStayGone'
  BY <1>12 DEF Drop, DelChallenge, Answered, Return, Idle, Held
<1>13. ASSUME NEW r \in Request, Fail(r) PROVE ExpiredChallengesStayGone'
  BY <1>13 DEF Fail, DelChallenge, Answered, PlusOne, Countable, Return, Idle, Held
<1>14. ASSUME NEW r \in Request, RegenerateSelect(r) PROVE ExpiredChallengesStayGone'
  BY <1>14 DEF RegenerateSelect, Begin, Held
<1>15. ASSUME NEW r \in Request, RegenerateUpdate(r) PROVE ExpiredChallengesStayGone'
  BY <1>15 DEF RegenerateUpdate, MintCodes, WriteCodes, Held
<1>16. ASSUME NEW r \in Request, Reply(r) PROVE ExpiredChallengesStayGone'
  BY <1>16 DEF Reply, Return, Idle, Held
<1>17. ASSUME NEW r \in Request, Fails(r) PROVE ExpiredChallengesStayGone'
  BY <1>17 DEF Fails, PlusOne, Return, Idle, Held
<1>18. ASSUME SetupExpires PROVE ExpiredChallengesStayGone'
  BY <1>18 DEF SetupExpires
<1>19. ASSUME NEW c \in Challenge, Issue(c) PROVE ExpiredChallengesStayGone'
  BY <1>19 DEF Issue
<1>20. ASSUME NEW c \in Challenge, ChallengeExpires(c) PROVE ExpiredChallengesStayGone'
  BY <1>20 DEF ChallengeExpires
<1>21. ASSUME AccountRemoved PROVE ExpiredChallengesStayGone'
  BY <1>21 DEF AccountRemoved
<1> QED
  BY <1>1, <1>2, <1>3, <1>4, <1>5, <1>6, <1>7, <1>8, <1>9, <1>10, <1>11, <1>12, <1>13, <1>14, <1>15, <1>16, <1>17, <1>18, <1>19, <1>20, <1>21 DEF Next

-----------------------------------------------------------------------------
LEMMA OneMintStep == ASSUME IInv, [Next]_vars PROVE ListsAreOneMint'
<1> USE DEF IInv, TypeOK, ListsAreOneMint, SameMint, row, redis, counts, answered, listed
<1>1. CASE UNCHANGED vars
  BY <1>1 DEF vars
<1>2. ASSUME NEW r \in Request, SetupSelect(r) PROVE ListsAreOneMint'
  BY <1>2 DEF SetupSelect, Begin, Held, Mint, Locals
<1>3. ASSUME NEW r \in Request, SetupStore(r) PROVE ListsAreOneMint'
  BY <1>3 DEF SetupStore, InUse, Return, Idle, Held, Mint, Locals
<1>4. ASSUME NEW r \in Request, ActivateGet(r) PROVE ListsAreOneMint'
  BY <1>4 DEF ActivateGet, Begin, Held, Mint, Locals
<1>5. ASSUME NEW r \in Request, ActivateUpdate(r) PROVE ListsAreOneMint'
  BY <1>5 DEF ActivateUpdate, MintCodes, WriteCodes, Held, Mint, Locals
<1>6. ASSUME NEW r \in Request, ActivateDel(r) PROVE ListsAreOneMint'
  BY <1>6 DEF ActivateDel, Goto, Mint, Locals
<1>7. ASSUME NEW r \in Request, NEW c \in Challenge, VerifyGet(r, c) PROVE ListsAreOneMint'
  BY <1>7 DEF VerifyGet, Held, Mint, Locals
<1>8. ASSUME NEW r \in Request, NEW answer \in Answer, VerifySelect(r, answer) PROVE ListsAreOneMint'
  BY <1>8 DEF VerifySelect, Spliced, Held, Mint, Locals
<1>9. ASSUME NEW r \in Request, Spend(r) PROVE ListsAreOneMint'
  BY <1>9 DEF Spend, Held, Mint, Locals
<1>10. ASSUME NEW r \in Request, Consume(r) PROVE ListsAreOneMint'
  BY <1>10 DEF Consume, DelChallenge, Answered, Goto, Mint, Locals
<1>11. ASSUME NEW r \in Request, SignIn(r) PROVE ListsAreOneMint'
  BY <1>11 DEF SignIn, PlusOne, Return, Idle, Held, Mint, Locals
<1>12. ASSUME NEW r \in Request, Drop(r) PROVE ListsAreOneMint'
  BY <1>12 DEF Drop, DelChallenge, Answered, Return, Idle, Held, Mint, Locals
<1>13. ASSUME NEW r \in Request, Fail(r) PROVE ListsAreOneMint'
  BY <1>13 DEF Fail, DelChallenge, Answered, PlusOne, Countable, Return, Idle, Held, Mint, Locals
<1>14. ASSUME NEW r \in Request, RegenerateSelect(r) PROVE ListsAreOneMint'
  BY <1>14 DEF RegenerateSelect, Begin, Held, Mint, Locals
<1>15. ASSUME NEW r \in Request, RegenerateUpdate(r) PROVE ListsAreOneMint'
  BY <1>15 DEF RegenerateUpdate, MintCodes, WriteCodes, Held, Mint, Locals
<1>16. ASSUME NEW r \in Request, Reply(r) PROVE ListsAreOneMint'
  BY <1>16 DEF Reply, Return, Idle, Held, Mint, Locals
<1>17. ASSUME NEW r \in Request, Fails(r) PROVE ListsAreOneMint'
  BY <1>17 DEF Fails, PlusOne, Return, Idle, Held, Mint, Locals
<1>18. ASSUME SetupExpires PROVE ListsAreOneMint'
  BY <1>18 DEF SetupExpires, Mint, Locals
<1>19. ASSUME NEW c \in Challenge, Issue(c) PROVE ListsAreOneMint'
  BY <1>19 DEF Issue, Mint, Locals
<1>20. ASSUME NEW c \in Challenge, ChallengeExpires(c) PROVE ListsAreOneMint'
  BY <1>20 DEF ChallengeExpires, Mint, Locals
<1>21. ASSUME AccountRemoved PROVE ListsAreOneMint'
  BY <1>21 DEF AccountRemoved, Mint, Locals
<1> QED
  BY <1>1, <1>2, <1>3, <1>4, <1>5, <1>6, <1>7, <1>8, <1>9, <1>10, <1>11, <1>12, <1>13, <1>14, <1>15, <1>16, <1>17, <1>18, <1>19, <1>20, <1>21 DEF Next

-----------------------------------------------------------------------------
(* A step that answers, reads and counts nothing: whoever keeps a challenge goes *)
(* on with the copy it has.                                                      *)
LEMMA QuietStep ==
    ASSUME IInv, UNCHANGED <<redis, counts, raced>>,
           \A q \in Request :
              \/ req'[q].challenge = None
              \/ /\ req'[q].challenge = req[q].challenge
                 /\ At(q, "signin")' <=> At(q, "signin")
                 /\ req'[q].pc \in {"select", "fail"} =>
                       req[q].pc \in {"select", "fail"} /\ req'[q].attempts = req[q].attempts
                 /\ q \in behind => q \in behind'
    PROVE  ChallengesOK'
<1> USE AnswersAssumption DEF IInv, redis, counts
<1> SUFFICES ASSUME NEW c \in Challenge, c \notin raced, CountedOK(c) PROVE CountedOK(c)'
  BY DEF ChallengesOK
<1>1. \A q \in Request : At(q, "signin")' /\ req'[q].challenge = c =>
          At(q, "signin") /\ req[q].challenge = c
  OBVIOUS
<1>2. Open(c) => Open(c)'
  BY <1>1 DEF Open
<1>3. \A q \in Request \ behind' : Reading(q, c)' =>
          /\ q \notin behind /\ Reading(q, c)
          /\ req'[q].pc \in {"select", "fail"} =>
                req[q].pc \in {"select", "fail"} /\ req'[q].attempts = req[q].attempts
  BY DEF Reading
<1>4. c \in live' =>
          Open(c)' /\ attempts'[c] < MaxAttempts /\ attempts'[c] + lapsed'[c] = failures'[c]
  BY <1>2 DEF CountedOK
<1>5. \A q \in Request \ behind' : Reading(q, c)' =>
          /\ Open(c)'
          /\ req'[q].pc \in {"select", "fail"} =>
                req'[q].attempts < MaxAttempts /\ req'[q].attempts + lapsed'[c] = failures'[c]
  BY <1>2, <1>3 DEF CountedOK
<1>6. \A q \in Request : At(q, "signin")' /\ req'[q].challenge = c =>
          signIns'[c] = 0 /\ \A p \in Request : At(p, "signin")' /\ req'[p].challenge = c => p = q
  BY <1>1 DEF CountedOK
<1> QED
  BY <1>4, <1>5, <1>6 DEF CountedOK

LEMMA ChallengesStep == ASSUME IInv, [Next]_vars PROVE ChallengesOK'
<1> USE AnswersAssumption DEF IInv, TypeOK, At, row, redis, counts, answered, listed
<1>1. CASE UNCHANGED vars
  BY <1>1, QuietStep DEF vars
<1>2. ASSUME NEW r \in Request, SetupSelect(r) PROVE ChallengesOK'
  <2>1. UNCHANGED <<redis, counts, raced, behind>>
    BY <1>2 DEF SetupSelect, Begin
  <2>2. \A q \in Request \ {r} : req'[q] = req[q]
    BY <1>2 DEF SetupSelect, Begin
  <2>3. req'[r].challenge = None
    BY <1>2 DEF SetupSelect, Begin, Held, Idle
  <2> QED
    BY <2>1, <2>2, <2>3, QuietStep DEF At
<1>3. ASSUME NEW r \in Request, SetupStore(r) PROVE ChallengesOK'
  <2>1. UNCHANGED <<redis, counts, raced, behind>>
    BY <1>3 DEF SetupStore, Return
  <2>2. \A q \in Request \ {r} : req'[q] = req[q]
    BY <1>3 DEF SetupStore, Return
  <2>3. req'[r].challenge = None
    BY <1>3 DEF SetupStore, Return, Held, Idle
  <2> QED
    BY <2>1, <2>2, <2>3, QuietStep DEF At
<1>4. ASSUME NEW r \in Request, ActivateGet(r) PROVE ChallengesOK'
  <2>1. UNCHANGED <<redis, counts, raced, behind>>
    BY <1>4 DEF ActivateGet, Begin
  <2>2. \A q \in Request \ {r} : req'[q] = req[q]
    BY <1>4 DEF ActivateGet, Begin
  <2>3. req'[r].challenge = None
    BY <1>4 DEF ActivateGet, Begin, Held, Idle
  <2> QED
    BY <2>1, <2>2, <2>3, QuietStep DEF At
<1>5. ASSUME NEW r \in Request, ActivateUpdate(r) PROVE ChallengesOK'
  <2>1. UNCHANGED <<redis, counts, raced, behind>>
    BY <1>5 DEF ActivateUpdate, MintCodes
  <2>2. \A q \in Request \ {r} : req'[q] = req[q]
    BY <1>5 DEF ActivateUpdate, MintCodes
  <2>3. req'[r].challenge = None
    BY <1>5 DEF ActivateUpdate, MintCodes, Held, Idle
  <2> QED
    BY <2>1, <2>2, <2>3, QuietStep DEF At
<1>6. ASSUME NEW r \in Request, ActivateDel(r) PROVE ChallengesOK'
  <2>1. UNCHANGED <<redis, counts, raced, behind>>
    BY <1>6 DEF ActivateDel, Goto, RequestsOK, At
  <2>2. \A q \in Request \ {r} : req'[q] = req[q]
    BY <1>6 DEF ActivateDel, Goto, RequestsOK, At
  <2>3. req'[r].challenge = None
    BY <1>6 DEF ActivateDel, Goto, RequestsOK, At, Held, Idle
  <2> QED
    BY <2>1, <2>2, <2>3, QuietStep DEF At
<1>7. ASSUME NEW r \in Request, NEW c \in Challenge, VerifyGet(r, c) PROVE ChallengesOK'
  <2>1. /\ UNCHANGED <<redis, counts, answered>> /\ c \in live
        /\ req'[r] = Held("select", c, attempts[c], None, {})
        /\ \A q \in Request \ {r} : req'[q] = req[q]
    BY <1>7 DEF VerifyGet
  <2> SUFFICES ASSUME NEW d \in Challenge, d \notin raced, CountedOK(d) PROVE CountedOK(d)'
    BY <2>1 DEF ChallengesOK
  <2>2. \A q \in Request : At(q, "signin")' => q # r /\ At(q, "signin") /\ req'[q] = req[q]
    BY <2>1 DEF Held, At
  <2>3. Open(d) => Open(d)'
    BY <2>1, <2>2 DEF Open
  <2>4. \A q \in Request : Reading(q, d)' =>
            \/ q # r /\ Reading(q, d) /\ req'[q] = req[q]
            \/ q = r /\ d = c /\ req'[q].attempts = attempts[c]
    BY <2>1 DEF Held, Reading, At
  <2>5. d \in live' =>
            Open(d)' /\ attempts'[d] < MaxAttempts /\ attempts'[d] + lapsed'[d] = failures'[d]
    BY <2>1, <2>3 DEF CountedOK
  <2>6. \A q \in Request \ behind' : Reading(q, d)' =>
            /\ Open(d)'
            /\ req'[q].pc \in {"select", "fail"} =>
                  req'[q].attempts < MaxAttempts /\ req'[q].attempts + lapsed'[d] = failures'[d]
    BY <2>1, <2>3, <2>4 DEF CountedOK
  <2>7. \A q \in Request : At(q, "signin")' /\ req'[q].challenge = d =>
            signIns'[d] = 0 /\ \A p \in Request : At(p, "signin")' /\ req'[p].challenge = d => p = q
    BY <2>1, <2>2 DEF CountedOK
  <2> QED
    BY <2>1, <2>5, <2>6, <2>7 DEF CountedOK
<1>8. ASSUME NEW r \in Request, NEW answer \in Answer, VerifySelect(r, answer) PROVE ChallengesOK'
  <2>1. UNCHANGED <<redis, counts, raced, behind>>
    BY <1>8 DEF VerifySelect, At
  <2>2. \A q \in Request \ {r} : req'[q] = req[q]
    BY <1>8 DEF VerifySelect, At
  <2>3. /\ req'[r].challenge = req[r].challenge
        /\ req[r].pc # "signin" /\ req'[r].pc # "signin"
        /\ req'[r].pc \in {"select", "fail"} =>
              req[r].pc \in {"select", "fail"} /\ req'[r].attempts = req[r].attempts
    BY <1>8 DEF VerifySelect, At, Held, Idle
  <2> QED
    BY <2>1, <2>2, <2>3, QuietStep DEF At
<1>9. ASSUME NEW r \in Request, Spend(r) PROVE ChallengesOK'
  <2>1. UNCHANGED <<redis, counts, raced, behind>>
    BY <1>9 DEF Spend, At
  <2>2. \A q \in Request \ {r} : req'[q] = req[q]
    BY <1>9 DEF Spend, At
  <2>3. /\ req'[r].challenge = req[r].challenge
        /\ req[r].pc # "signin" /\ req'[r].pc # "signin"
        /\ req'[r].pc \in {"select", "fail"} =>
              req[r].pc \in {"select", "fail"} /\ req'[r].attempts = req[r].attempts
    BY <1>9 DEF Spend, At, Held, Idle
  <2> QED
    BY <2>1, <2>2, <2>3, QuietStep DEF At
<1>10. ASSUME NEW r \in Request, Consume(r) PROVE ChallengesOK'
  <2> DEFINE c == req[r].challenge
  <2>1. /\ c \in issued /\ c \in Challenge /\ At(r, "consume")
        /\ behind' = (behind \ {r}) \cup {q \in Request \ {r} : Reading(q, c)}
        /\ raced' = IF r \in behind THEN raced \cup {c} ELSE raced
        /\ UNCHANGED <<issued, attempts, counts>>
        /\ \A q \in Request \ {r} : req'[q] = req[q]
    BY <1>10 DEF Consume, Answered, DelChallenge, RequestsOK, Goto
  <2>2. /\ live' = live \ {c} /\ req'[r].challenge = c /\ At(r, "signin")'
    BY <1>10 DEF Consume, DelChallenge, Goto, At, Locals
  <2> HIDE DEF c
  <2> SUFFICES ASSUME NEW d \in Challenge, d \notin raced' PROVE CountedOK(d)'
    BY <2>1 DEF ChallengesOK
  <2>3. d \notin raced /\ CountedOK(d) /\ (d = c => r \notin behind)
    BY <2>1 DEF ChallengesOK
  <2>4. \A q \in Request : At(q, "signin")' => q = r \/ (At(q, "signin") /\ req'[q] = req[q])
    BY <2>1 DEF At
  <2>5. CASE d = c
    <3>1. Open(d)
      BY <2>1, <2>3, <2>5 DEF CountedOK, Reading, At, c
    <3>2. \A q \in Request \ behind' : ~Reading(q, d)'
      BY <2>1, <2>2, <2>5 DEF Reading, At
    <3>3. \A q \in Request : At(q, "signin")' /\ req'[q].challenge = d => q = r
      BY <2>4, <3>1 DEF Open
    <3> QED
      BY <2>1, <2>2, <2>3, <2>5, <3>1, <3>2, <3>3 DEF CountedOK, Open
  <2>6. CASE d # c
    <3>1. \A q \in Request : At(q, "signin")' /\ req'[q].challenge = d =>
              At(q, "signin") /\ req[q].challenge = d
      BY <2>2, <2>4, <2>6
    <3>2. \A q \in Request \ behind' : Reading(q, d)' =>
              q # r /\ q \notin behind /\ Reading(q, d) /\ req'[q] = req[q]
      BY <2>1, <2>2, <2>6 DEF Reading, At
    <3>3. (Open(d) => Open(d)') /\ (d \in live' => d \in live)
      BY <2>1, <2>2, <3>1 DEF Open
    <3> QED
      BY <2>1, <2>3, <3>1, <3>2, <3>3 DEF CountedOK
  <2> QED
    BY <2>5, <2>6
<1>11. ASSUME NEW r \in Request, SignIn(r) PROVE ChallengesOK'
  <2> DEFINE c == req[r].challenge
  <2>1. /\ c \in issued /\ c \in Challenge /\ At(r, "signin") /\ req'[r].challenge = None
        /\ UNCHANGED <<redis, failures, lapsed, answered>> /\ signIns' = PlusOne(signIns, c)
        /\ \A q \in Request \ {r} : req'[q] = req[q]
    BY <1>11 DEF SignIn, RequestsOK, Return, Idle, Held
  <2> HIDE DEF c
  <2> SUFFICES ASSUME NEW d \in Challenge
               PROVE  /\ d \notin issued => signIns'[d] = 0
                      /\ d \notin raced => CountedOK(d)'
    BY <2>1 DEF ChallengesOK
  <2>2. \A q \in Request : At(q, "signin")' /\ req'[q].challenge = d =>
            q # r /\ At(q, "signin") /\ req[q].challenge = d
    BY <2>1 DEF At
  <2>3. \A q \in Request : Reading(q, d)' => q # r /\ Reading(q, d) /\ req'[q] = req[q]
    BY <2>1 DEF Reading, At
  <2>4. CASE d # c
    <3>1. signIns'[d] = signIns[d]
      BY <2>1, <2>4 DEF PlusOne
    <3>2. Open(d) => Open(d)'
      BY <2>2, <3>1 DEF Open
    <3> QED
      BY <2>1, <2>2, <2>3, <3>1, <3>2 DEF ChallengesOK, CountedOK
  <2>5. CASE d = c /\ d \notin raced
    <3>1. CountedOK(d)
      BY <2>5 DEF ChallengesOK
    <3>2. ~Open(d)
      BY <2>1, <2>5 DEF Open, c
    <3>3. d \notin live /\ \A q \in Request \ behind : ~Reading(q, d)
      BY <3>1, <3>2 DEF CountedOK
    <3>4. signIns'[d] = 1
      BY <2>1, <2>5, <3>1 DEF PlusOne, CountedOK, c
    <3>5. \A q \in Request : At(q, "signin")' => req'[q].challenge # d
      BY <2>1, <2>2, <2>5, <3>1 DEF CountedOK, c
    <3>6. d \notin live' /\ \A q \in Request \ behind' : ~Reading(q, d)'
      BY <2>1, <2>3, <3>3
    <3>7. signIns'[d] <= 1 /\ failures'[d] <= MaxAttempts + lapsed'[d]
      BY <2>1, <3>1, <3>4 DEF CountedOK
    <3> QED
      BY <2>1, <2>5, <3>5, <3>6, <3>7 DEF CountedOK
  <2> QED
    BY <2>1, <2>4, <2>5
<1>12. ASSUME NEW r \in Request, Drop(r) PROVE ChallengesOK'
  <2> DEFINE c == req[r].challenge
  <2>1. /\ c \in issued /\ c \in Challenge /\ At(r, "drop")
        /\ behind' = (behind \ {r}) \cup {q \in Request \ {r} : Reading(q, c)}
        /\ raced' = IF r \in behind THEN raced \cup {c} ELSE raced
        /\ UNCHANGED <<issued, attempts, counts>>
        /\ \A q \in Request \ {r} : req'[q] = req[q]
    BY <1>12 DEF Drop, Answered, DelChallenge, RequestsOK, Return
  <2>2. /\ live' = live \ {c} /\ req'[r].challenge = None /\ ~At(r, "signin")'
    BY <1>12 DEF Drop, DelChallenge, Return, Idle, Held, At
  <2> HIDE DEF c
  <2> SUFFICES ASSUME NEW d \in Challenge, d \notin raced' PROVE CountedOK(d)'
    BY <2>1 DEF ChallengesOK
  <2>3. d \notin raced /\ CountedOK(d)
    BY <2>1 DEF ChallengesOK
  <2>4. \A q \in Request : At(q, "signin")' => q # r /\ At(q, "signin") /\ req'[q] = req[q]
    BY <2>1, <2>2 DEF At
  <2>5. \A q \in Request \ behind' : Reading(q, d)' =>
            q # r /\ q \notin behind /\ Reading(q, d) /\ req'[q] = req[q]
    BY <2>1, <2>2 DEF Reading, At
  <2>6. (Open(d) => Open(d)') /\ (d \in live' => d \in live)
    BY <2>1, <2>2, <2>4 DEF Open
  <2> QED
    BY <2>1, <2>3, <2>4, <2>5, <2>6 DEF CountedOK
<1>13. ASSUME NEW r \in Request, Fail(r) PROVE ChallengesOK'
  <2> DEFINE c == req[r].challenge
  <2>1. /\ c \in issued /\ c \in Challenge /\ At(r, "fail")
        /\ behind' = (behind \ {r}) \cup {q \in Request \ {r} : Reading(q, c)}
        /\ raced' = IF r \in behind THEN raced \cup {c} ELSE raced
        /\ UNCHANGED <<issued, signIns, lapsed>>
        /\ \A q \in Request \ {r} : req'[q] = req[q]
    BY <1>13 DEF Fail, Answered, DelChallenge, RequestsOK, Return
  <2>2. /\ req'[r].challenge = None /\ ~At(r, "signin")'
    BY <1>13 DEF Fail, Return, Idle, Held, At
  <2>3. /\ failures' = PlusOne(failures, c)
        /\ \/ /\ req[r].attempts + 1 >= MaxAttempts
              /\ live' = live \ {c} /\ UNCHANGED attempts
           \/ /\ req[r].attempts + 1 < MaxAttempts
              /\ live' = live \cup {c}
              /\ attempts' = [attempts EXCEPT ![c] = req[r].attempts + 1]
           \/ /\ req[r].attempts + 1 < MaxAttempts
              /\ c \in expired /\ UNCHANGED <<live, attempts>>
    <3>1. req[r].attempts \in Nat
      BY DEF Locals
    <3> QED
      BY <1>13, <3>1, TwoFactorAssumption DEF Fail, DelChallenge, Exhausted, Countable
  <2>4. req[r].attempts \in Nat
    BY DEF Locals
  <2> HIDE DEF c
  <2>5. \A q \in Request : At(q, "signin")' => q # r /\ At(q, "signin") /\ req'[q] = req[q]
    BY <2>1, <2>2 DEF At
  <2> SUFFICES ASSUME NEW d \in Challenge
               PROVE  /\ d \notin issued =>
                            signIns'[d] = 0 /\ failures'[d] = 0 /\ lapsed'[d] = 0 /\ attempts'[d] = 0
                      /\ d \notin raced' => CountedOK(d)'
    BY <2>1 DEF ChallengesOK
  <2>6. \A q \in Request \ behind' : Reading(q, d)' =>
            q # r /\ d # c /\ q \notin behind /\ Reading(q, d) /\ req'[q] = req[q]
    BY <2>1, <2>2 DEF Reading, At
  <2>7. Open(d) => Open(d)'
    BY <2>1, <2>5 DEF Open
  <2>8. CASE d # c
    <3>1. failures'[d] = failures[d] /\ attempts'[d] = attempts[d] /\ (d \in live' <=> d \in live)
      BY <2>3, <2>8 DEF PlusOne
    <3>2. d \notin raced' => d \notin raced
      BY <2>1
    <3> QED
      BY <2>1, <2>5, <2>6, <2>7, <3>1, <3>2 DEF ChallengesOK, CountedOK
  <2>9. CASE d = c /\ d \notin raced'
    <3>1. d \notin raced /\ r \notin behind /\ CountedOK(d)
      BY <2>1, <2>9 DEF ChallengesOK
    <3>2. /\ Open(d) /\ req[r].attempts < MaxAttempts
          /\ req[r].attempts + lapsed[d] = failures[d]
      BY <2>1, <2>9, <3>1 DEF CountedOK, Reading, At, c
    <3>3. failures'[d] = failures[d] + 1
      BY <2>3, <2>9 DEF PlusOne
    <3>4. failures'[d] <= MaxAttempts + lapsed'[d]
      BY <2>1, <2>4, <3>2, <3>3, TwoFactorAssumption
    <3>5. d \in live' => attempts'[d] < MaxAttempts /\ attempts'[d] + lapsed'[d] = failures'[d]
      BY <2>1, <2>3, <2>4, <2>9, <3>2, <3>3, TwoFactorAssumption DEF ExpiredChallengesStayGone
    <3>6. \A q \in Request : At(q, "signin")' => req'[q].challenge # d
      BY <2>5, <3>2 DEF Open
    <3> QED
      BY <2>1, <2>6, <2>7, <2>9, <3>2, <3>4, <3>5, <3>6 DEF CountedOK, Open
  <2> QED
    BY <2>1, <2>8, <2>9
<1>14. ASSUME NEW r \in Request, RegenerateSelect(r) PROVE ChallengesOK'
  <2>1. UNCHANGED <<redis, counts, raced, behind>>
    BY <1>14 DEF RegenerateSelect, Begin
  <2>2. \A q \in Request \ {r} : req'[q] = req[q]
    BY <1>14 DEF RegenerateSelect, Begin
  <2>3. req'[r].challenge = None
    BY <1>14 DEF RegenerateSelect, Begin, Held, Idle
  <2> QED
    BY <2>1, <2>2, <2>3, QuietStep DEF At
<1>15. ASSUME NEW r \in Request, RegenerateUpdate(r) PROVE ChallengesOK'
  <2>1. UNCHANGED <<redis, counts, raced, behind>>
    BY <1>15 DEF RegenerateUpdate, MintCodes
  <2>2. \A q \in Request \ {r} : req'[q] = req[q]
    BY <1>15 DEF RegenerateUpdate, MintCodes
  <2>3. req'[r].challenge = None
    BY <1>15 DEF RegenerateUpdate, MintCodes, Held, Idle
  <2> QED
    BY <2>1, <2>2, <2>3, QuietStep DEF At
<1>16. ASSUME NEW r \in Request, Reply(r) PROVE ChallengesOK'
  <2>1. UNCHANGED <<redis, counts, raced, behind>>
    BY <1>16 DEF Reply, Return
  <2>2. \A q \in Request \ {r} : req'[q] = req[q]
    BY <1>16 DEF Reply, Return
  <2>3. req'[r].challenge = None
    BY <1>16 DEF Reply, Return, Held, Idle
  <2> QED
    BY <2>1, <2>2, <2>3, QuietStep DEF At
<1>17. ASSUME NEW r \in Request, Fails(r) PROVE ChallengesOK'
  <2> DEFINE c == req[r].challenge
  <2>1. /\ UNCHANGED <<redis, signIns, raced>> /\ req'[r].challenge = None /\ ~At(r, "signin")'
        /\ behind' = behind \ {r}
        /\ \A q \in Request \ {r} : req'[q] = req[q]
    BY <1>17 DEF Fails, Return, Idle, Held
  <2>2. CASE UNCHANGED <<failures, lapsed>>
    BY <2>1, <2>2, QuietStep DEF At
  <2>3. CASE /\ At(r, "fail") /\ failures' = PlusOne(failures, c) /\ lapsed' = PlusOne(lapsed, c)
    <3>1. c \in issued /\ c \in Challenge
      BY <2>3 DEF RequestsOK
    <3> HIDE DEF c
    <3> SUFFICES ASSUME NEW d \in Challenge
                 PROVE  /\ d \notin issued => failures'[d] = 0 /\ lapsed'[d] = 0
                        /\ d \notin raced => CountedOK(d)'
      BY <2>1 DEF ChallengesOK
    <3>2. \A q \in Request : At(q, "signin")' => q # r /\ At(q, "signin") /\ req'[q] = req[q]
      BY <2>1 DEF At
    <3>3. \A q \in Request \ behind' : Reading(q, d)' =>
              q # r /\ q \notin behind /\ Reading(q, d) /\ req'[q] = req[q]
      BY <2>1 DEF Reading, At
    <3>4. Open(d) => Open(d)'
      BY <2>1, <3>2 DEF Open
    <3>5. \/ failures'[d] = failures[d] /\ lapsed'[d] = lapsed[d]
          \/ d = c /\ failures'[d] = failures[d] + 1 /\ lapsed'[d] = lapsed[d] + 1
      BY <2>3 DEF PlusOne
    <3>6. \A n \in Nat : n + lapsed[d] = failures[d] => n + lapsed'[d] = failures'[d]
      BY <3>5
    <3>7. d \notin raced => failures'[d] <= MaxAttempts + lapsed'[d]
      BY <3>5, TwoFactorAssumption DEF ChallengesOK, CountedOK
    <3>8. \A q \in Request : req[q].attempts \in Nat
      BY DEF Locals
    <3> QED
      BY <2>1, <3>1, <3>2, <3>3, <3>4, <3>5, <3>6, <3>7, <3>8 DEF ChallengesOK, CountedOK
  <2> QED
    BY <1>17, <2>2, <2>3 DEF Fails
<1>18. ASSUME SetupExpires PROVE ChallengesOK'
  BY <1>18, QuietStep DEF SetupExpires, At
<1>19. ASSUME NEW c \in Challenge, Issue(c) PROVE ChallengesOK'
  <2>1. /\ c \notin issued /\ live' = live \cup {c} /\ issued' = issued \cup {c}
        /\ UNCHANGED <<attempts, req, counts, answered>>
    BY <1>19 DEF Issue
  <2> SUFFICES ASSUME NEW d \in Challenge, d \notin raced, CountedOK(d) PROVE CountedOK(d)'
    BY <2>1 DEF ChallengesOK
  <2>2. CASE d = c
    <3>1. Open(c) /\ attempts[c] = 0 /\ lapsed[c] = 0 /\ failures[c] = 0
      BY <2>1 DEF ChallengesOK, RequestsOK, Open
    <3> QED
      BY <2>1, <2>2, <3>1, TwoFactorAssumption DEF CountedOK, Open, Reading
  <2>3. CASE d # c
    BY <2>1, <2>3 DEF CountedOK, Open, Reading
  <2> QED
    BY <2>2, <2>3
<1>20. ASSUME NEW c \in Challenge, ChallengeExpires(c) PROVE ChallengesOK'
  <2>1. live' \subseteq live /\ UNCHANGED <<attempts, issued, req, counts, answered>>
    BY <1>20 DEF ChallengeExpires
  <2> QED
    BY <2>1 DEF ChallengesOK, CountedOK, Open, Reading
<1>21. ASSUME AccountRemoved PROVE ChallengesOK'
  BY <1>21, QuietStep DEF AccountRemoved, At
<1> QED
  BY <1>1, <1>2, <1>3, <1>4, <1>5, <1>6, <1>7, <1>8, <1>9, <1>10, <1>11, <1>12, <1>13, <1>14, <1>15, <1>16, <1>17, <1>18, <1>19, <1>20, <1>21 DEF Next

-----------------------------------------------------------------------------
(* A step that writes no list: whoever holds one goes on with it. *)
LEMMA SameListStep ==
    ASSUME IInv, UNCHANGED <<exists, codes, minted, spent, torn>>,
           \A q \in Request :
              At(q, "spend")' => req'[q] = req[q] /\ (q \in stale => q \in stale')
    PROVE  ListOK'
BY DEF IInv, ListOK, LastMinted, Mint, At

-----------------------------------------------------------------------------
LEMMA ListStep == ASSUME IInv, [Next]_vars PROVE ListOK'
<1> USE DEF IInv, TypeOK, row, redis, counts, answered, listed
<1>1. CASE UNCHANGED vars
  BY <1>1, SameListStep DEF vars, At
<1>2. ASSUME NEW r \in Request, SetupSelect(r) PROVE ListOK'
  <2>1. UNCHANGED <<exists, codes, minted, spent, torn>>
    BY <1>2 DEF SetupSelect, Begin
  <2>2. \A q \in Request \ {r} : req'[q] = req[q]
    BY <1>2 DEF SetupSelect, Begin
  <2>3. req'[r].pc # "spend" /\ \A q \in Request \ {r} : q \in stale => q \in stale'
    BY <1>2 DEF SetupSelect, Begin, Held, Idle
  <2> QED
    BY <2>1, <2>2, <2>3, SameListStep DEF At
<1>3. ASSUME NEW r \in Request, SetupStore(r) PROVE ListOK'
  <2>1. UNCHANGED <<exists, codes, minted, spent, torn>>
    BY <1>3 DEF SetupStore, Return
  <2>2. \A q \in Request \ {r} : req'[q] = req[q]
    BY <1>3 DEF SetupStore, Return
  <2>3. req'[r].pc # "spend" /\ \A q \in Request \ {r} : q \in stale => q \in stale'
    BY <1>3 DEF SetupStore, Return, Held, Idle
  <2> QED
    BY <2>1, <2>2, <2>3, SameListStep DEF At
<1>4. ASSUME NEW r \in Request, ActivateGet(r) PROVE ListOK'
  <2>1. UNCHANGED <<exists, codes, minted, spent, torn>>
    BY <1>4 DEF ActivateGet, Begin
  <2>2. \A q \in Request \ {r} : req'[q] = req[q]
    BY <1>4 DEF ActivateGet, Begin
  <2>3. req'[r].pc # "spend" /\ \A q \in Request \ {r} : q \in stale => q \in stale'
    BY <1>4 DEF ActivateGet, Begin, Held, Idle
  <2> QED
    BY <2>1, <2>2, <2>3, SameListStep DEF At
<1>5. ASSUME NEW r \in Request, ActivateUpdate(r) PROVE ListOK'
  <2>1. /\ minted' = minted + 1 /\ spent' = {} /\ UNCHANGED exists
        /\ codes' = IF exists THEN Mint(minted') ELSE codes
        /\ stale' = {q \in Request : exists /\ At(q, "spend")}
    BY <1>5 DEF ActivateUpdate, MintCodes, WriteCodes
  <2>2. \A q \in Request : At(q, "spend")' => At(q, "spend")
    BY <1>5 DEF ActivateUpdate, MintCodes, Held, At
  <2>3. minted' # 0
    BY <2>1, TwoFactorAssumption
  <2> QED
    BY <2>1, <2>2, <2>3 DEF ListOK, LastMinted, Mint
<1>6. ASSUME NEW r \in Request, ActivateDel(r) PROVE ListOK'
  <2>1. UNCHANGED <<exists, codes, minted, spent, torn>>
    BY <1>6 DEF ActivateDel, Goto
  <2>2. \A q \in Request \ {r} : req'[q] = req[q]
    BY <1>6 DEF ActivateDel, Goto
  <2>3. req'[r].pc # "spend" /\ \A q \in Request \ {r} : q \in stale => q \in stale'
    BY <1>6 DEF ActivateDel, Goto, Held, Idle, Locals
  <2> QED
    BY <2>1, <2>2, <2>3, SameListStep DEF At
<1>7. ASSUME NEW r \in Request, NEW c \in Challenge, VerifyGet(r, c) PROVE ListOK'
  <2>1. UNCHANGED <<exists, codes, minted, spent, torn>>
    BY <1>7 DEF VerifyGet
  <2>2. \A q \in Request \ {r} : req'[q] = req[q]
    BY <1>7 DEF VerifyGet
  <2>3. req'[r].pc # "spend" /\ \A q \in Request \ {r} : q \in stale => q \in stale'
    BY <1>7 DEF VerifyGet, Held, Idle
  <2> QED
    BY <2>1, <2>2, <2>3, SameListStep DEF At
<1>8. ASSUME NEW r \in Request, NEW answer \in Answer, VerifySelect(r, answer) PROVE ListOK'
  <2>1. UNCHANGED <<exists, codes, minted, spent, torn, stale>>
    BY <1>8 DEF VerifySelect
  <2>2. \A q \in Request \ {r} : req'[q] = req[q]
    BY <1>8 DEF VerifySelect
  <2>3. req'[r].pc = "spend" =>
            /\ answer \in codes /\ req'[r].answer = answer
            /\ req'[r].hashes = codes \ {answer}
    BY <1>8 DEF VerifySelect, Held, Spliced
  <2> QED
    BY <2>1, <2>2, <2>3 DEF ListOK, LastMinted, Mint, At
<1>9. ASSUME NEW r \in Request, Spend(r) PROVE ListOK'
  <2> SUFFICES ASSUME exists PROVE ListOK'
    BY <1>9 DEF Spend, ListOK
  <2>1. /\ codes' = req[r].hashes /\ spent' = spent \cup {req[r].answer}
        /\ stale' = {q \in Request \ {r} : At(q, "spend")}
        /\ torn' = (torn \/ r \in stale) /\ UNCHANGED <<exists, minted>>
    BY <1>9 DEF Spend
  <2>2. \A q \in Request : At(q, "spend")' => q # r /\ At(q, "spend")
    BY <1>9 DEF Spend, Held, At
  <2>3. ~torn' => ~torn /\ codes = LastMinted \ spent /\ req[r].hashes = codes \ {req[r].answer}
    BY <1>9, <2>1 DEF Spend, ListOK
  <2>4. ~torn' => codes' = LastMinted' \ spent'
    BY <2>1, <2>3 DEF LastMinted, Mint
  <2> QED
    BY <2>1, <2>2, <2>4 DEF ListOK
<1>10. ASSUME NEW r \in Request, Consume(r) PROVE ListOK'
  <2>1. UNCHANGED <<exists, codes, minted, spent, torn>>
    BY <1>10 DEF Consume, Goto
  <2>2. \A q \in Request \ {r} : req'[q] = req[q]
    BY <1>10 DEF Consume, Goto
  <2>3. req'[r].pc # "spend" /\ \A q \in Request \ {r} : q \in stale => q \in stale'
    BY <1>10 DEF Consume, Goto, Held, Idle, Locals
  <2> QED
    BY <2>1, <2>2, <2>3, SameListStep DEF At
<1>11. ASSUME NEW r \in Request, SignIn(r) PROVE ListOK'
  <2>1. UNCHANGED <<exists, codes, minted, spent, torn>>
    BY <1>11 DEF SignIn, Return
  <2>2. \A q \in Request \ {r} : req'[q] = req[q]
    BY <1>11 DEF SignIn, Return
  <2>3. req'[r].pc # "spend" /\ \A q \in Request \ {r} : q \in stale => q \in stale'
    BY <1>11 DEF SignIn, Return, Held, Idle
  <2> QED
    BY <2>1, <2>2, <2>3, SameListStep DEF At
<1>12. ASSUME NEW r \in Request, Drop(r) PROVE ListOK'
  <2>1. UNCHANGED <<exists, codes, minted, spent, torn>>
    BY <1>12 DEF Drop, Return
  <2>2. \A q \in Request \ {r} : req'[q] = req[q]
    BY <1>12 DEF Drop, Return
  <2>3. req'[r].pc # "spend" /\ \A q \in Request \ {r} : q \in stale => q \in stale'
    BY <1>12 DEF Drop, Return, Held, Idle
  <2> QED
    BY <2>1, <2>2, <2>3, SameListStep DEF At
<1>13. ASSUME NEW r \in Request, Fail(r) PROVE ListOK'
  <2>1. UNCHANGED <<exists, codes, minted, spent, torn>>
    BY <1>13 DEF Fail, Return
  <2>2. \A q \in Request \ {r} : req'[q] = req[q]
    BY <1>13 DEF Fail, Return
  <2>3. req'[r].pc # "spend" /\ \A q \in Request \ {r} : q \in stale => q \in stale'
    BY <1>13 DEF Fail, Return, Held, Idle
  <2> QED
    BY <2>1, <2>2, <2>3, SameListStep DEF At
<1>14. ASSUME NEW r \in Request, RegenerateSelect(r) PROVE ListOK'
  <2>1. UNCHANGED <<exists, codes, minted, spent, torn>>
    BY <1>14 DEF RegenerateSelect, Begin
  <2>2. \A q \in Request \ {r} : req'[q] = req[q]
    BY <1>14 DEF RegenerateSelect, Begin
  <2>3. req'[r].pc # "spend" /\ \A q \in Request \ {r} : q \in stale => q \in stale'
    BY <1>14 DEF RegenerateSelect, Begin, Held, Idle
  <2> QED
    BY <2>1, <2>2, <2>3, SameListStep DEF At
<1>15. ASSUME NEW r \in Request, RegenerateUpdate(r) PROVE ListOK'
  <2>1. /\ minted' = minted + 1 /\ spent' = {} /\ UNCHANGED exists
        /\ codes' = IF exists THEN Mint(minted') ELSE codes
        /\ stale' = {q \in Request : exists /\ At(q, "spend")}
    BY <1>15 DEF RegenerateUpdate, MintCodes, WriteCodes
  <2>2. \A q \in Request : At(q, "spend")' => At(q, "spend")
    BY <1>15 DEF RegenerateUpdate, MintCodes, Held, At
  <2>3. minted' # 0
    BY <2>1, TwoFactorAssumption
  <2> QED
    BY <2>1, <2>2, <2>3 DEF ListOK, LastMinted, Mint
<1>16. ASSUME NEW r \in Request, Reply(r) PROVE ListOK'
  <2>1. UNCHANGED <<exists, codes, minted, spent, torn>>
    BY <1>16 DEF Reply, Return
  <2>2. \A q \in Request \ {r} : req'[q] = req[q]
    BY <1>16 DEF Reply, Return
  <2>3. req'[r].pc # "spend" /\ \A q \in Request \ {r} : q \in stale => q \in stale'
    BY <1>16 DEF Reply, Return, Held, Idle
  <2> QED
    BY <2>1, <2>2, <2>3, SameListStep DEF At
<1>17. ASSUME NEW r \in Request, Fails(r) PROVE ListOK'
  <2>1. UNCHANGED <<exists, codes, minted, spent, torn>>
    BY <1>17 DEF Fails, Return
  <2>2. \A q \in Request \ {r} : req'[q] = req[q]
    BY <1>17 DEF Fails, Return
  <2>3. req'[r].pc # "spend" /\ \A q \in Request \ {r} : q \in stale => q \in stale'
    BY <1>17 DEF Fails, Return, Held, Idle
  <2> QED
    BY <2>1, <2>2, <2>3, SameListStep DEF At
<1>18. ASSUME SetupExpires PROVE ListOK'
  BY <1>18, SameListStep DEF SetupExpires
<1>19. ASSUME NEW c \in Challenge, Issue(c) PROVE ListOK'
  BY <1>19, SameListStep DEF Issue
<1>20. ASSUME NEW c \in Challenge, ChallengeExpires(c) PROVE ListOK'
  BY <1>20, SameListStep DEF ChallengeExpires
<1>21. ASSUME AccountRemoved PROVE ListOK'
  BY <1>21 DEF AccountRemoved, ListOK
<1> QED
  BY <1>1, <1>2, <1>3, <1>4, <1>5, <1>6, <1>7, <1>8, <1>9, <1>10, <1>11, <1>12, <1>13, <1>14, <1>15, <1>16, <1>17, <1>18, <1>19, <1>20, <1>21 DEF Next

-----------------------------------------------------------------------------
LEMMA SetupStep == ASSUME IInv, [Next]_vars PROVE SetupOK'
<1> USE DEF IInv, TypeOK, SetupOK, At, row, redis, counts, answered, listed
<1>1. CASE UNCHANGED vars
  BY <1>1 DEF vars
<1>2. ASSUME NEW r \in Request, SetupSelect(r) PROVE SetupOK'
  BY <1>2 DEF SetupSelect, MaySetUp
<1>3. ASSUME NEW r \in Request, SetupStore(r) PROVE SetupOK'
  BY <1>3 DEF SetupStore, InUse, Return, Idle, Held, Locals
<1>4. ASSUME NEW r \in Request, ActivateGet(r) PROVE SetupOK'
  BY <1>4 DEF ActivateGet, Begin, Held, Locals
<1>5. ASSUME NEW r \in Request, ActivateUpdate(r) PROVE SetupOK'
  <2> SUFFICES ASSUME exists, ~stray' PROVE SetupOK'
    BY <1>5 DEF ActivateUpdate
  <2>1. secret' = req[r].answer /\ ~OtherSetup(r) /\ UNCHANGED setup
    BY <1>5 DEF ActivateUpdate
  <2>2. \A q \in Request \ {r} : req'[q] = req[q]
    BY <1>5 DEF ActivateUpdate, MintCodes
  <2>3. req'[r].pc = "finish"
    BY <1>5 DEF ActivateUpdate, MintCodes, Held
  <2> QED
    BY <2>1, <2>2, <2>3 DEF OtherSetup
<1>6. ASSUME NEW r \in Request, ActivateDel(r) PROVE SetupOK'
  BY <1>6 DEF ActivateDel, Goto, Locals
<1>7. ASSUME NEW r \in Request, NEW c \in Challenge, VerifyGet(r, c) PROVE SetupOK'
  BY <1>7 DEF VerifyGet, Held, Locals
<1>8. ASSUME NEW r \in Request, NEW answer \in Answer, VerifySelect(r, answer) PROVE SetupOK'
  BY <1>8 DEF VerifySelect, Spliced, Held, Locals
<1>9. ASSUME NEW r \in Request, Spend(r) PROVE SetupOK'
  BY <1>9 DEF Spend, Held, Locals
<1>10. ASSUME NEW r \in Request, Consume(r) PROVE SetupOK'
  BY <1>10 DEF Consume, DelChallenge, Answered, Goto, Locals
<1>11. ASSUME NEW r \in Request, SignIn(r) PROVE SetupOK'
  BY <1>11 DEF SignIn, PlusOne, Return, Idle, Held, Locals
<1>12. ASSUME NEW r \in Request, Drop(r) PROVE SetupOK'
  BY <1>12 DEF Drop, DelChallenge, Answered, Return, Idle, Held, Locals
<1>13. ASSUME NEW r \in Request, Fail(r) PROVE SetupOK'
  BY <1>13 DEF Fail, DelChallenge, Answered, PlusOne, Countable, Return, Idle, Held, Locals
<1>14. ASSUME NEW r \in Request, RegenerateSelect(r) PROVE SetupOK'
  BY <1>14 DEF RegenerateSelect, Begin, Held, Locals
<1>15. ASSUME NEW r \in Request, RegenerateUpdate(r) PROVE SetupOK'
  BY <1>15 DEF RegenerateUpdate, MintCodes, WriteCodes, Held, Locals
<1>16. ASSUME NEW r \in Request, Reply(r) PROVE SetupOK'
  BY <1>16 DEF Reply, Return, Idle, Held, Locals
<1>17. ASSUME NEW r \in Request, Fails(r) PROVE SetupOK'
  BY <1>17 DEF Fails, PlusOne, Return, Idle, Held, Locals
<1>18. ASSUME SetupExpires PROVE SetupOK'
  BY <1>18 DEF SetupExpires, Locals
<1>19. ASSUME NEW c \in Challenge, Issue(c) PROVE SetupOK'
  BY <1>19 DEF Issue, Locals
<1>20. ASSUME NEW c \in Challenge, ChallengeExpires(c) PROVE SetupOK'
  BY <1>20 DEF ChallengeExpires, Locals
<1>21. ASSUME AccountRemoved PROVE SetupOK'
  BY <1>21 DEF AccountRemoved, Locals
<1> QED
  BY <1>1, <1>2, <1>3, <1>4, <1>5, <1>6, <1>7, <1>8, <1>9, <1>10, <1>11, <1>12, <1>13, <1>14, <1>15, <1>16, <1>17, <1>18, <1>19, <1>20, <1>21 DEF Next

-----------------------------------------------------------------------------
(* The inductive invariant holds in every reachable state. *)
THEOREM Invariance == Spec => []IInv
<1>1. ASSUME Init PROVE IInv
  <2> USE <1>1 DEF Init
  <2>1. TypeOK
    <3>1. exists \in BOOLEAN /\ enabled \in BOOLEAN /\ torn \in BOOLEAN /\ stray \in BOOLEAN
      OBVIOUS
    <3>2. req \in [Request -> Locals]
      BY IdleType
    <3>3. /\ minted \in 0 .. MaxMints
          /\ attempts \in [Challenge -> Nat] /\ signIns \in [Challenge -> Nat]
          /\ failures \in [Challenge -> Nat] /\ lapsed \in [Challenge -> Nat]
      BY TwoFactorAssumption
    <3> QED
      BY <3>1, <3>2, <3>3 DEF TypeOK
  <2>2. RequestsOK
    BY DEF RequestsOK, At, Idle, Held
  <2>3. CodesMinted /\ RetiredCodesStayRetired /\ ClosedChallengesStayClosed
        /\ ExpiredChallengesStayGone
    BY DEF CodesMinted, RetiredCodesStayRetired, ClosedChallengesStayClosed, ExpiredChallengesStayGone
  <2>4. ListsAreOneMint
    BY DEF ListsAreOneMint, SameMint, Idle, Held
  <2>5. ChallengesOK
    <3>1. \A r \in Request : req[r].challenge = None
      BY DEF Idle, Held
    <3>2. \A c \in Challenge : /\ signIns[c] = 0 /\ failures[c] = 0 /\ lapsed[c] = 0
                               /\ attempts[c] = 0 /\ c \notin live
      OBVIOUS
    <3>3. 0 <= 1 /\ 0 <= MaxAttempts + 0
      BY TwoFactorAssumption
    <3> HIDE <1>1 DEF Init
    <3> QED
      BY <3>1, <3>2, <3>3, AnswersAssumption DEF ChallengesOK, CountedOK, Reading
  <2>6. ListOK /\ SetupOK
    BY DEF ListOK, LastMinted, SetupOK, At, Idle, Held
  <2> QED
    BY <2>1, <2>2, <2>3, <2>4, <2>5, <2>6 DEF IInv
<1>2. IInv /\ [Next]_vars => IInv'
  BY TypeStep, RequestsStep, CodesStep, RetiredStep, ClosedStep, ExpiredStep, OneMintStep,
     ChallengesStep, ListStep, SetupStep DEF IInv
<1> QED
  BY <1>1, <1>2, PTL DEF Spec

(* A recovery code spent or replaced while no other request held a list with *)
(* it never works again, whatever is written later.                          *)
THEOREM Retirement == Spec => []RetiredCodesStayRetired
BY Invariance, PTL DEF IInv

(* A challenge answered or used up while no other request had read it is gone *)
(* for good.                                                                  *)
THEOREM Closure == Spec => []ClosedChallengesStayClosed
BY Invariance, PTL DEF IInv

(* No failed attempt brings an expired challenge back. *)
THEOREM Expiry == Spec => []ExpiredChallengesStayGone
BY Invariance, PTL DEF IInv

(* Late writes replace the list as a whole, and never mix two mintings. *)
THEOREM OneMint == Spec => []ListsAreOneMint
BY Invariance, PTL DEF IInv

(* Until a request answers a challenge that another has overtaken, the         *)
(* challenge signs in at most once and rejects at most MaxAttempts answers and *)
(* those a failed command left uncounted.                                      *)
THEOREM AttemptsBoundedAlways == Spec => []AttemptsBounded
<1>1. IInv => AttemptsBounded
  BY DEF IInv, ChallengesOK, CountedOK, AttemptsBounded
<1> QED
  BY <1>1, Invariance, PTL

(* Whatever fails after a list has been written, the codes that work are those *)
(* last shown less those taken off since, or none of them; until a list is     *)
(* written that another request has overtaken.                                 *)
THEOREM ShownCodesWorkAlways == Spec => []ShownCodesWork
<1>1. ASSUME IInv, exists, ~torn
      PROVE  IF shown = LastMinted THEN codes = shown \ spent ELSE codes \cap shown = {}
  <2>1. codes = LastMinted \ spent
    BY <1>1 DEF IInv, ListOK
  <2>2. CASE shown = LastMinted
    BY <2>1, <2>2
  <2>3. CASE shown # LastMinted /\ shown # {}
    <3>1. PICK m \in 1 .. minted : shown = Mint(m)
      BY <1>1, <2>3 DEF IInv, CodesMinted, MintedTogether
    <3>2. minted # 0 /\ m # minted
      BY <1>1, <2>3, <3>1 DEF IInv, TypeOK, LastMinted
    <3> QED
      BY <2>1, <2>3, <3>1, <3>2 DEF LastMinted, Mint
  <2>4. CASE shown # LastMinted /\ shown = {}
    BY <2>4
  <2> QED
    BY <2>2, <2>3, <2>4
<1>2. IInv => ShownCodesWork
  BY <1>1 DEF ShownCodesWork
<1> QED
  BY <1>2, Invariance, PTL

(* Only an activation writes the secret, and the one it writes is in force.    *)
LEMMA SecretStep ==
    ASSUME IInv, Next, enabled, ~stray
    PROVE  secret' = secret
<1>1. ASSUME NEW r \in Request, ActivateUpdate(r) PROVE secret' = secret
  BY <1>1 DEF ActivateUpdate, IInv, SetupOK
<1>2. CASE ~\E r \in Request : ActivateUpdate(r)
  BY <1>2 DEF Next, row, SetupSelect, SetupStore, ActivateGet, ActivateDel, VerifyGet, VerifySelect,
     Spend, Consume, SignIn, Drop, Fail, RegenerateSelect, RegenerateUpdate, Reply, Fails,
     SetupExpires, Issue, ChallengeExpires, AccountRemoved
<1> QED
  BY <1>1, <1>2

(* An enabled second factor keeps its secret, whatever setup a request that    *)
(* failed left over, unless another was under way when it was enabled.         *)
THEOREM EnabledSecretKeptAlways == Spec => EnabledSecretKept
<1>1. IInv /\ [Next]_vars => [enabled /\ ~stray => secret' = secret]_vars
  BY SecretStep
<1> QED
  BY <1>1, Invariance, PTL DEF Spec, EnabledSecretKept

=============================================================================
