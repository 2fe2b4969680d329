--------------------------- MODULE AuthSessionsProofs ---------------------------
(* Proofs about AuthSessions and about MCAuthSessions, for any number of        *)
(* accounts, tokens and requests.                                              *)
EXTENDS MCAuthSessions, TLAPS

(* Types.  The parts of the invariant that say which account and token a     *)
(* request works on are needed where a step looks up a column of that token. *)
LEMMA TypeStep == IInv /\ [Next]_vars => TypeOK'
<1> SUFFICES ASSUME TypeOK, RequestsOK, ColumnsOK, [Next]_vars PROVE TypeOK'
  BY DEF IInv
<1> USE ConstantsAssumption DEF TypeOK, vars, accounts, tokens, resets, resetNotes, Challenge,
            Locals, PC, Issuing, Rotating, Idle, IsIdle, At, Goto, Return, ReadOnly, Begin, BeginAs,
            BeginWith, DeleteTokens, DeleteResets, TokensOf, FamilyOf, ResetsOf
<1>1. CASE UNCHANGED vars
  BY <1>1
<1>2. CASE Clock
  BY <1>2 DEF Clock, TokenExpires, ResetExpires, ChallengeDropped
<1>3. ASSUME NEW r \in Request, NEW u \in User, LoginSelect(r, u) PROVE TypeOK'
  BY <1>3 DEF LoginSelect
<1>4. ASSUME NEW r \in Request, LoginIssue(r) PROVE TypeOK'
  BY <1>4 DEF LoginIssue, IssueTokens, InsertToken
<1>5. ASSUME NEW r \in Request, LoginChallenge(r) PROVE TypeOK'
  <2>1. req[r].user \in User /\ req[r].seen \in Nat
    BY <1>5 DEF LoginChallenge, RequestsOK
  <2> QED
    BY <1>5, <2>1 DEF LoginChallenge
<1>6. ASSUME NEW r \in Request, NEW c \in challenges, CodeAccepted(r, c) PROVE TypeOK'
  BY <1>6 DEF CodeAccepted
<1>7. ASSUME NEW r \in Request, ChallengeConsumed(r) PROVE TypeOK'
  BY <1>7 DEF ChallengeConsumed
<1>8. ASSUME NEW r \in Request, NEW u \in User, PasskeyVerified(r, u) PROVE TypeOK'
  BY <1>8 DEF PasskeyVerified
<1>9. ASSUME NEW r \in Request, NEW u \in User, Register(r, u) PROVE TypeOK'
  BY <1>9 DEF Register
<1>10. ASSUME NEW r \in Request, IssueSession(r) PROVE TypeOK'
  BY <1>10 DEF IssueSession, IssueTokens, InsertToken
<1>11. ASSUME NEW r \in Request, NEW t \in Token, RefreshSelect(r, t) PROVE TypeOK'
  BY <1>11 DEF RefreshSelect
<1>12. ASSUME NEW r \in Request, RefreshRevoke(r) PROVE TypeOK'
  BY <1>12, SMTT(30) DEF RefreshRevoke
<1>13. ASSUME NEW r \in Request, RefreshReload(r) PROVE TypeOK'
  BY <1>13 DEF RefreshReload
<1>14. ASSUME NEW r \in Request, RefreshIssue(r) PROVE TypeOK'
  BY <1>14 DEF RefreshIssue, IssueTokens, InsertToken, RequestsOK
<1>15. ASSUME NEW r \in Request, RefreshDrop(r) PROVE TypeOK'
  BY <1>15 DEF RefreshDrop
<1>16. ASSUME NEW r \in Request, NEW t \in Token, LogoutSelect(r, t) PROVE TypeOK'
  BY <1>16 DEF LogoutSelect
<1>17. ASSUME NEW r \in Request, FamilyWipe(r) PROVE TypeOK'
  BY <1>17 DEF FamilyWipe, RequestsOK, ColumnsOK
<1>18. ASSUME NEW r \in Request, NEW u \in User, ForgotSelect(r, u) PROVE TypeOK'
  BY <1>18 DEF ForgotSelect
<1>19. ASSUME NEW r \in Request, ForgotDelete(r) PROVE TypeOK'
  BY <1>19 DEF ForgotDelete
<1>20. ASSUME NEW r \in Request, ForgotInsert(r) PROVE TypeOK'
  BY <1>20 DEF ForgotInsert
<1>21. ASSUME NEW r \in Request, NEW p \in ResetToken, ResetSelect(r, p) PROVE TypeOK'
  BY <1>21 DEF ResetSelect
<1>22. ASSUME NEW r \in Request, ResetCommit(r) PROVE TypeOK'
  BY <1>22 DEF ResetCommit, BeingIssued
<1>23. ASSUME NEW r \in Request, NEW u \in User, ChangeSelect(r, u) PROVE TypeOK'
  BY <1>23 DEF ChangeSelect
<1>24. ASSUME NEW r \in Request, ChangeCommit(r) PROVE TypeOK'
  BY <1>24 DEF ChangeCommit
<1>25. ASSUME NEW r \in Request, NEW u \in User, AdminSetPassword(r, u) PROVE TypeOK'
  BY <1>25 DEF AdminSetPassword
<1>26. ASSUME NEW r \in Request, NEW u \in User, AdminCreate(r, u) PROVE TypeOK'
  BY <1>26 DEF AdminCreate
<1>27. ASSUME NEW r \in Request, NEW u \in User, AdminRemove(r, u) PROVE TypeOK'
  BY <1>27 DEF AdminRemove
<1>28. ASSUME NEW r \in Request, Abort(r) PROVE TypeOK'
  BY <1>28 DEF Abort
<1>29. ASSUME NEW u \in User, Activated(u) PROVE TypeOK'
  BY <1>29 DEF Activated
<1> QED
  BY <1>1, <1>2, <1>3, <1>4, <1>5, <1>6, <1>7, <1>8, <1>9, <1>10, <1>11, <1>12, <1>13, <1>14, <1>15, <1>16, <1>17, <1>18, <1>19, <1>20, <1>21, <1>22, <1>23, <1>24, <1>25, <1>26, <1>27, <1>28, <1>29 DEF Next, Handler, Arrival

LEMMA InvStep == IInv /\ [Next]_vars => IInv'
<1> SUFFICES ASSUME IInv, [Next]_vars PROVE IInv'
  OBVIOUS
<1>0. TypeOK'
  BY TypeStep DEF IInv
<1> USE ConstantsAssumption DEF TypeOK, vars, accounts, tokens, resets, resetNotes, Challenge,
            Locals, PC, Issuing, Rotating, Idle, IsIdle, At, Goto, Return, ReadOnly, Begin, BeginAs,
            BeginWith, DeleteTokens, DeleteResets, TokensOf, FamilyOf, ResetsOf, IInv, ColumnsOK,
            RequestsOK, ResetColumnsOK, NoOrphanTokens, RotatedTokenIsSpent, ClosedOK,
            QuietWipeIsFinal, QuietOK, QuietResetIsFinal
<1>1. CASE UNCHANGED vars
  BY <1>1
<1>2. CASE Clock
  BY <1>2 DEF Clock, TokenExpires, ResetExpires, ChallengeDropped
<1>3. ASSUME NEW r \in Request, NEW u \in User, LoginSelect(r, u) PROVE IInv'
  BY <1>3 DEF LoginSelect
<1>4. ASSUME NEW r \in Request, LoginIssue(r) PROVE IInv'
  BY <1>4 DEF LoginIssue, IssueTokens, InsertToken
<1>5. ASSUME NEW r \in Request, LoginChallenge(r) PROVE IInv'
  BY <1>5 DEF LoginChallenge
<1>6. ASSUME NEW r \in Request, NEW c \in challenges, CodeAccepted(r, c) PROVE IInv'
  BY <1>6, ZenonT(30) DEF CodeAccepted
<1>7. ASSUME NEW r \in Request, ChallengeConsumed(r) PROVE IInv'
  BY <1>7, SMTT(30) DEF ChallengeConsumed
<1>8. ASSUME NEW r \in Request, NEW u \in User, PasskeyVerified(r, u) PROVE IInv'
  <2>1. CASE BeginAs(r, "issue", u)
    BY <1>8, <2>1 DEF PasskeyVerified
  <2>2. CASE u \in twoFactorEnabled /\ BeginAs(r, "park", u)
    BY <1>8, <2>2 DEF PasskeyVerified
  <2> QED
    BY <1>8, <2>1, <2>2 DEF PasskeyVerified
<1>9. ASSUME NEW r \in Request, NEW u \in User, Register(r, u) PROVE IInv'
  BY <1>9 DEF Register
<1>10. ASSUME NEW r \in Request, IssueSession(r) PROVE IInv'
  BY <1>10 DEF IssueSession, IssueTokens, InsertToken
<1>11. ASSUME NEW r \in Request, NEW t \in Token, RefreshSelect(r, t) PROVE IInv'
  <2>1. CASE BeginWith(r, "wipe", t)
    BY <1>11, <2>1 DEF RefreshSelect
  <2>2. CASE BeginWith(r, "drop", t)
    BY <1>11, <2>2 DEF RefreshSelect
  <2>3. CASE t \notin revokedAt \cup expired /\ BeginWith(r, "revoke", t)
    BY <1>11, <2>3 DEF RefreshSelect
  <2> QED
    BY <1>11, <2>1, <2>2, <2>3 DEF RefreshSelect
<1>12. ASSUME NEW r \in Request, RefreshRevoke(r) PROVE IInv'
  BY <1>12 DEF RefreshRevoke
<1>13. ASSUME NEW r \in Request, RefreshReload(r) PROVE IInv'
  BY <1>13, SMTT(30) DEF RefreshReload
<1>14. ASSUME NEW r \in Request, RefreshIssue(r) PROVE IInv'
  BY <1>14, SMTT(30) DEF RefreshIssue, IssueTokens, InsertToken
<1>15. ASSUME NEW r \in Request, RefreshDrop(r) PROVE IInv'
  BY <1>15 DEF RefreshDrop
<1>16. ASSUME NEW r \in Request, NEW t \in Token, LogoutSelect(r, t) PROVE IInv'
  BY <1>16 DEF LogoutSelect
<1>17. ASSUME NEW r \in Request, FamilyWipe(r) PROVE IInv'
  <2>1. ColumnsOK'
    BY <1>17 DEF FamilyWipe
  <2>2. RequestsOK'
    BY <1>17 DEF FamilyWipe
  <2>3. ResetColumnsOK'
    BY <1>17 DEF FamilyWipe
  <2>4. NoOrphanTokens'
    BY <1>17 DEF FamilyWipe
  <2>5. RotatedTokenIsSpent'
    BY <1>17 DEF FamilyWipe
  <2>6. ClosedOK'
    BY <1>17 DEF FamilyWipe
  <2>7. QuietWipeIsFinal'
    BY <1>17 DEF FamilyWipe
  <2>8. QuietOK'
    BY <1>17 DEF FamilyWipe
  <2>9. QuietResetIsFinal'
    BY <1>17 DEF FamilyWipe
  <2> QED
    BY <1>0, <2>1, <2>2, <2>3, <2>4, <2>5, <2>6, <2>7, <2>8, <2>9
<1>18. ASSUME NEW r \in Request, NEW u \in User, ForgotSelect(r, u) PROVE IInv'
  BY <1>18 DEF ForgotSelect
<1>19. ASSUME NEW r \in Request, ForgotDelete(r) PROVE IInv'
  BY <1>19 DEF ForgotDelete
<1>20. ASSUME NEW r \in Request, ForgotInsert(r) PROVE IInv'
  BY <1>20 DEF ForgotInsert
<1>21. ASSUME NEW r \in Request, NEW p \in ResetToken, ResetSelect(r, p) PROVE IInv'
  BY <1>21 DEF ResetSelect
<1>22. ASSUME NEW r \in Request, ResetCommit(r) PROVE IInv'
  <2>1. ColumnsOK'
    BY <1>22 DEF ResetCommit, BeingIssued
  <2>2. RequestsOK'
    BY <1>22 DEF ResetCommit, BeingIssued
  <2>3. ResetColumnsOK'
    BY <1>22 DEF ResetCommit, BeingIssued
  <2>4. NoOrphanTokens'
    BY <1>22 DEF ResetCommit, BeingIssued
  <2>5. RotatedTokenIsSpent'
    BY <1>22 DEF ResetCommit, BeingIssued
  <2>6. ClosedOK'
    BY <1>22 DEF ResetCommit, BeingIssued
  <2>7. QuietWipeIsFinal'
    BY <1>22 DEF ResetCommit, BeingIssued
  <2>8. QuietOK'
    BY <1>22 DEF ResetCommit, BeingIssued
  <2>9. QuietResetIsFinal'
    BY <1>22 DEF ResetCommit, BeingIssued
  <2> QED
    BY <1>0, <2>1, <2>2, <2>3, <2>4, <2>5, <2>6, <2>7, <2>8, <2>9
<1>23. ASSUME NEW r \in Request, NEW u \in User, ChangeSelect(r, u) PROVE IInv'
  BY <1>23 DEF ChangeSelect
<1>24. ASSUME NEW r \in Request, ChangeCommit(r) PROVE IInv'
  BY <1>24 DEF ChangeCommit
<1>25. ASSUME NEW r \in Request, NEW u \in User, AdminSetPassword(r, u) PROVE IInv'
  BY <1>25 DEF AdminSetPassword
<1>26. ASSUME NEW r \in Request, NEW u \in User, AdminCreate(r, u) PROVE IInv'
  BY <1>26 DEF AdminCreate
<1>27. ASSUME NEW r \in Request, NEW u \in User, AdminRemove(r, u) PROVE IInv'
  BY <1>27 DEF AdminRemove
<1>28. ASSUME NEW r \in Request, Abort(r) PROVE IInv'
  BY <1>28 DEF Abort
<1>29. ASSUME NEW u \in User, Activated(u) PROVE IInv'
  BY <1>29 DEF Activated
<1> QED
  BY <1>1, <1>2, <1>3, <1>4, <1>5, <1>6, <1>7, <1>8, <1>9, <1>10, <1>11, <1>12, <1>13, <1>14, <1>15, <1>16, <1>17, <1>18, <1>19, <1>20, <1>21, <1>22, <1>23, <1>24, <1>25, <1>26, <1>27, <1>28, <1>29 DEF Next, Handler, Arrival

(* Every reachable state satisfies the invariant. *)
THEOREM Invariance == Spec => []IInv
<1>1. Init => IInv
  BY ConstantsAssumption DEF Init, IInv, TypeOK, ColumnsOK, RequestsOK, ResetColumnsOK,
     NoOrphanTokens, RotatedTokenIsSpent, ClosedOK, QuietWipeIsFinal, QuietOK, QuietResetIsFinal,
     Idle, IsIdle, Locals, PC, Issuing, Rotating, Challenge
<1> QED
  BY <1>1, InvStep, PTL DEF Spec

(* Variables keep their types: rows are among the ids ever given out, flags *)
(* among the rows, whatever statement of whatever handler runs next.        *)
THEOREM TypeCorrect == Spec => []TypeOK
BY Invariance, PTL DEF IInv

(* A rotation past its UPDATE holds a token that no longer refreshes. *)
THEOREM RotatedTokenSpent == Spec => []RotatedTokenIsSpent
BY Invariance, PTL DEF IInv

(* No refresh token and no reset token outlives its account. *)
THEOREM NoOrphans == Spec => []NoOrphanTokens
BY Invariance, PTL DEF IInv

(* A logout or a detected replay with no rotation in flight is final. *)
THEOREM QuietWipeFinal == Spec => []QuietWipeIsFinal
BY Invariance, PTL DEF IInv

(* A password reset with no session being issued ends every older session. *)
THEOREM QuietResetFinal == Spec => []QuietResetIsFinal
BY Invariance, PTL DEF IInv

(* The tokens of a family belong to one account: each belongs to the owner of *)
(* the token the family started with.                                         *)
THEOREM FamilyOwner == Spec => []OneOwnerPerFamily
<1>1. IInv => OneOwnerPerFamily
  BY DEF IInv, TypeOK, ColumnsOK, OneOwnerPerFamily
<1> QED
  BY <1>1, Invariance, PTL

(* Only an INSERT makes a token usable, and it inserts a token never seen. *)
LEMMA SpentStep == IInv /\ [Next]_vars =>
    [\A t \in minted : t \notin refreshTokens \ revokedAt => t \notin refreshTokens' \ revokedAt']_vars
<1> SUFFICES ASSUME IInv, Next
             PROVE  \A t \in minted : t \notin refreshTokens \ revokedAt
                                        => t \notin refreshTokens' \ revokedAt'
  OBVIOUS
<1> USE DEF tokens, ReadOnly, DeleteTokens
<1>1. CASE Clock
  BY <1>1 DEF Clock, TokenExpires, ResetExpires, ChallengeDropped
<1>2. ASSUME NEW r \in Request, Arrival(r)
      PROVE  refreshTokens' \ revokedAt' \subseteq refreshTokens \ revokedAt
  BY <1>2 DEF Arrival, LoginSelect, PasskeyVerified, Register, ForgotSelect, ChangeSelect,
     AdminSetPassword, AdminCreate, AdminRemove, RefreshSelect, LogoutSelect, ResetSelect,
     CodeAccepted
<1>3. ASSUME NEW r \in Request, LoginIssue(r) \/ IssueSession(r) \/ RefreshIssue(r)
      PROVE  \E t \in Token \ minted : refreshTokens' = refreshTokens \cup {t} /\ revokedAt' = revokedAt
  BY <1>3 DEF LoginIssue, IssueSession, RefreshIssue, IssueTokens, InsertToken
<1>4. ASSUME NEW r \in Request, Handler(r), ~(LoginIssue(r) \/ IssueSession(r) \/ RefreshIssue(r))
      PROVE  refreshTokens' \ revokedAt' \subseteq refreshTokens \ revokedAt
  BY <1>4 DEF Handler, LoginChallenge, ChallengeConsumed, RefreshRevoke, RefreshReload, RefreshDrop,
     FamilyWipe, ForgotDelete, ForgotInsert, ResetCommit, ChangeCommit, Abort
<1>5. ASSUME NEW u \in User, Activated(u)
      PROVE  refreshTokens' = refreshTokens /\ revokedAt' = revokedAt
  BY <1>5 DEF Activated
<1> QED
  BY <1>1, <1>2, <1>3, <1>4, <1>5 DEF Next

(* A refresh token that has stopped being usable stays so, for every set of *)
(* accounts, tokens and requests and in every interleaving.                 *)
THEOREM SpentForGood == Spec => SpentStaysSpent
BY Invariance, SpentStep, PTL DEF Spec, SpentStaysSpent

-----------------------------------------------------------------------------
(* MCAuthSessions: what holds as long as no two requests have overlapped.      *)
LEMMA FamilyStep ==
    ASSUME IInv, Solo, Solo', OneLiveTokenPerFamily, RotationOK, [Next]_vars
    PROVE  OneLiveTokenPerFamily' /\ RotationOK'
<1> USE ConstantsAssumption DEF IInv, TypeOK, Locals, ColumnsOK, RequestsOK, Solo, OneLiveTokenPerFamily,
            RotationOK, LiveIn, FamilyOf, accounts, tokens, IsIdle, At, Goto, Return, Idle, ReadOnly,
            Begin, BeginAs, BeginWith, Rotating
<1>1. CASE UNCHANGED vars
  BY <1>1 DEF vars
<1>2. CASE Clock
  BY <1>2 DEF Clock, TokenExpires, ResetExpires, ChallengeDropped
<1>3. ASSUME NEW r \in Request, NEW u \in User, LoginSelect(r, u)
      PROVE  OneLiveTokenPerFamily' /\ RotationOK'
  BY <1>3 DEF LoginSelect
<1>4. ASSUME NEW r \in Request, LoginIssue(r)
      PROVE  OneLiveTokenPerFamily' /\ RotationOK'
  BY <1>4 DEF LoginIssue, IssueTokens, InsertToken
<1>5. ASSUME NEW r \in Request, LoginChallenge(r)
      PROVE  OneLiveTokenPerFamily' /\ RotationOK'
  BY <1>5 DEF LoginChallenge
<1>6. ASSUME NEW r \in Request, NEW c \in challenges, CodeAccepted(r, c)
      PROVE  OneLiveTokenPerFamily' /\ RotationOK'
  BY <1>6 DEF CodeAccepted
<1>7. ASSUME NEW r \in Request, ChallengeConsumed(r)
      PROVE  OneLiveTokenPerFamily' /\ RotationOK'
  BY <1>7 DEF ChallengeConsumed
<1>8. ASSUME NEW r \in Request, NEW u \in User, PasskeyVerified(r, u)
      PROVE  OneLiveTokenPerFamily' /\ RotationOK'
  BY <1>8 DEF PasskeyVerified
<1>9. ASSUME NEW r \in Request, NEW u \in User, Register(r, u)
      PROVE  OneLiveTokenPerFamily' /\ RotationOK'
  BY <1>9 DEF Register
<1>10. ASSUME NEW r \in Request, IssueSession(r)
      PROVE  OneLiveTokenPerFamily' /\ RotationOK'
  BY <1>10 DEF IssueSession, IssueTokens, InsertToken
<1>11. ASSUME NEW r \in Request, NEW t \in Token, RefreshSelect(r, t)
      PROVE  OneLiveTokenPerFamily' /\ RotationOK'
  BY <1>11 DEF RefreshSelect
<1>12. ASSUME NEW r \in Request, RefreshRevoke(r)
      PROVE  OneLiveTokenPerFamily' /\ RotationOK'
  BY <1>12 DEF RefreshRevoke
<1>13. ASSUME NEW r \in Request, RefreshReload(r)
      PROVE  OneLiveTokenPerFamily' /\ RotationOK'
  BY <1>13 DEF RefreshReload
<1>14. ASSUME NEW r \in Request, RefreshIssue(r)
      PROVE  OneLiveTokenPerFamily' /\ RotationOK'
  BY <1>14 DEF RefreshIssue, IssueTokens, InsertToken
<1>15. ASSUME NEW r \in Request, RefreshDrop(r)
      PROVE  OneLiveTokenPerFamily' /\ RotationOK'
  BY <1>15 DEF RefreshDrop, DeleteTokens
<1>16. ASSUME NEW r \in Request, NEW t \in Token, LogoutSelect(r, t)
      PROVE  OneLiveTokenPerFamily' /\ RotationOK'
  BY <1>16 DEF LogoutSelect
<1>17. ASSUME NEW r \in Request, FamilyWipe(r)
      PROVE  OneLiveTokenPerFamily' /\ RotationOK'
  BY <1>17 DEF FamilyWipe, DeleteTokens
<1>18. ASSUME NEW r \in Request, NEW u \in User, ForgotSelect(r, u)
      PROVE  OneLiveTokenPerFamily' /\ RotationOK'
  BY <1>18 DEF ForgotSelect
<1>19. ASSUME NEW r \in Request, ForgotDelete(r)
      PROVE  OneLiveTokenPerFamily' /\ RotationOK'
  BY <1>19 DEF ForgotDelete
<1>20. ASSUME NEW r \in Request, ForgotInsert(r)
      PROVE  OneLiveTokenPerFamily' /\ RotationOK'
  BY <1>20 DEF ForgotInsert
<1>21. ASSUME NEW r \in Request, NEW p \in ResetToken, ResetSelect(r, p)
      PROVE  OneLiveTokenPerFamily' /\ RotationOK'
  BY <1>21 DEF ResetSelect
<1>22. ASSUME NEW r \in Request, ResetCommit(r)
      PROVE  OneLiveTokenPerFamily' /\ RotationOK'
  BY <1>22 DEF ResetCommit, BeingIssued, DeleteTokens
<1>23. ASSUME NEW r \in Request, NEW u \in User, ChangeSelect(r, u)
      PROVE  OneLiveTokenPerFamily' /\ RotationOK'
  BY <1>23 DEF ChangeSelect
<1>24. ASSUME NEW r \in Request, ChangeCommit(r)
      PROVE  OneLiveTokenPerFamily' /\ RotationOK'
  BY <1>24 DEF ChangeCommit
<1>25. ASSUME NEW r \in Request, NEW u \in User, AdminSetPassword(r, u)
      PROVE  OneLiveTokenPerFamily' /\ RotationOK'
  BY <1>25 DEF AdminSetPassword
<1>26. ASSUME NEW r \in Request, NEW u \in User, AdminCreate(r, u)
      PROVE  OneLiveTokenPerFamily' /\ RotationOK'
  BY <1>26 DEF AdminCreate
<1>27. ASSUME NEW r \in Request, NEW u \in User, AdminRemove(r, u)
      PROVE  OneLiveTokenPerFamily' /\ RotationOK'
  BY <1>27 DEF AdminRemove, DeleteTokens
<1>28. ASSUME NEW r \in Request, Abort(r)
      PROVE  OneLiveTokenPerFamily' /\ RotationOK'
  BY <1>28 DEF Abort
<1>29. ASSUME NEW u \in User, Activated(u)
      PROVE  OneLiveTokenPerFamily' /\ RotationOK'
  BY <1>29 DEF Activated
<1> QED
  BY <1>1, <1>2, <1>3, <1>4, <1>5, <1>6, <1>7, <1>8, <1>9, <1>10, <1>11, <1>12, <1>13, <1>14, <1>15, <1>16, <1>17, <1>18, <1>19, <1>20, <1>21, <1>22, <1>23, <1>24, <1>25, <1>26, <1>27, <1>28, <1>29 DEF Next, Handler, Arrival

LEMMA RowsStep ==
    ASSUME IInv, Solo, Solo', OneActiveResetToken, RowsAsRead, [Next]_vars
    PROVE  OneActiveResetToken' /\ RowsAsRead'
<1> USE ConstantsAssumption DEF IInv, TypeOK, Locals, ColumnsOK, RequestsOK, Solo, OneActiveResetToken,
            RowsAsRead, ResetsOf, accounts, tokens, resets, IsIdle, At, Goto, Return, Idle, ReadOnly,
            Begin, BeginAs, BeginWith, Rotating
<1>1. CASE UNCHANGED vars
  BY <1>1 DEF vars
<1>2. CASE Clock
  BY <1>2 DEF Clock, TokenExpires, ResetExpires, ChallengeDropped
<1>3. ASSUME NEW r \in Request, NEW u \in User, LoginSelect(r, u)
      PROVE  OneActiveResetToken' /\ RowsAsRead'
  BY <1>3 DEF LoginSelect
<1>4. ASSUME NEW r \in Request, LoginIssue(r)
      PROVE  OneActiveResetToken' /\ RowsAsRead'
  BY <1>4 DEF LoginIssue, IssueTokens, InsertToken
<1>5. ASSUME NEW r \in Request, LoginChallenge(r)
      PROVE  OneActiveResetToken' /\ RowsAsRead'
  BY <1>5 DEF LoginChallenge
<1>6. ASSUME NEW r \in Request, NEW c \in challenges, CodeAccepted(r, c)
      PROVE  OneActiveResetToken' /\ RowsAsRead'
  BY <1>6 DEF CodeAccepted
<1>7. ASSUME NEW r \in Request, ChallengeConsumed(r)
      PROVE  OneActiveResetToken' /\ RowsAsRead'
  BY <1>7 DEF ChallengeConsumed
<1>8. ASSUME NEW r \in Request, NEW u \in User, PasskeyVerified(r, u)
      PROVE  OneActiveResetToken' /\ RowsAsRead'
  BY <1>8 DEF PasskeyVerified
<1>9. ASSUME NEW r \in Request, NEW u \in User, Register(r, u)
      PROVE  OneActiveResetToken' /\ RowsAsRead'
  BY <1>9 DEF Register
<1>10. ASSUME NEW r \in Request, IssueSession(r)
      PROVE  OneActiveResetToken' /\ RowsAsRead'
  BY <1>10 DEF IssueSession, IssueTokens, InsertToken
<1>11. ASSUME NEW r \in Request, NEW t \in Token, RefreshSelect(r, t)
      PROVE  OneActiveResetToken' /\ RowsAsRead'
  BY <1>11 DEF RefreshSelect
<1>12. ASSUME NEW r \in Request, RefreshRevoke(r)
      PROVE  OneActiveResetToken' /\ RowsAsRead'
  BY <1>12 DEF RefreshRevoke
<1>13. ASSUME NEW r \in Request, RefreshReload(r)
      PROVE  OneActiveResetToken' /\ RowsAsRead'
  BY <1>13 DEF RefreshReload
<1>14. ASSUME NEW r \in Request, RefreshIssue(r)
      PROVE  OneActiveResetToken' /\ RowsAsRead'
  BY <1>14 DEF RefreshIssue, IssueTokens, InsertToken
<1>15. ASSUME NEW r \in Request, RefreshDrop(r)
      PROVE  OneActiveResetToken' /\ RowsAsRead'
  BY <1>15 DEF RefreshDrop, DeleteTokens
<1>16. ASSUME NEW r \in Request, NEW t \in Token, LogoutSelect(r, t)
      PROVE  OneActiveResetToken' /\ RowsAsRead'
  BY <1>16 DEF LogoutSelect
<1>17. ASSUME NEW r \in Request, FamilyWipe(r)
      PROVE  OneActiveResetToken' /\ RowsAsRead'
  BY <1>17 DEF FamilyWipe, DeleteTokens
<1>18. ASSUME NEW r \in Request, NEW u \in User, ForgotSelect(r, u)
      PROVE  OneActiveResetToken' /\ RowsAsRead'
  BY <1>18 DEF ForgotSelect
<1>19. ASSUME NEW r \in Request, ForgotDelete(r)
      PROVE  OneActiveResetToken' /\ RowsAsRead'
  BY <1>19 DEF ForgotDelete, DeleteResets
<1>20. ASSUME NEW r \in Request, ForgotInsert(r)
      PROVE  OneActiveResetToken' /\ RowsAsRead'
  BY <1>20 DEF ForgotInsert
<1>21. ASSUME NEW r \in Request, NEW p \in ResetToken, ResetSelect(r, p)
      PROVE  OneActiveResetToken' /\ RowsAsRead'
  BY <1>21 DEF ResetSelect
<1>22. ASSUME NEW r \in Request, ResetCommit(r)
      PROVE  OneActiveResetToken' /\ RowsAsRead'
  BY <1>22 DEF ResetCommit, BeingIssued, DeleteTokens, TokensOf
<1>23. ASSUME NEW r \in Request, NEW u \in User, ChangeSelect(r, u)
      PROVE  OneActiveResetToken' /\ RowsAsRead'
  BY <1>23 DEF ChangeSelect
<1>24. ASSUME NEW r \in Request, ChangeCommit(r)
      PROVE  OneActiveResetToken' /\ RowsAsRead'
  BY <1>24 DEF ChangeCommit
<1>25. ASSUME NEW r \in Request, NEW u \in User, AdminSetPassword(r, u)
      PROVE  OneActiveResetToken' /\ RowsAsRead'
  BY <1>25 DEF AdminSetPassword
<1>26. ASSUME NEW r \in Request, NEW u \in User, AdminCreate(r, u)
      PROVE  OneActiveResetToken' /\ RowsAsRead'
  BY <1>26 DEF AdminCreate
<1>27. ASSUME NEW r \in Request, NEW u \in User, AdminRemove(r, u)
      PROVE  OneActiveResetToken' /\ RowsAsRead'
  BY <1>27 DEF AdminRemove, DeleteTokens, DeleteResets, TokensOf
<1>28. ASSUME NEW r \in Request, Abort(r)
      PROVE  OneActiveResetToken' /\ RowsAsRead'
  BY <1>28 DEF Abort
<1>29. ASSUME NEW u \in User, Activated(u)
      PROVE  OneActiveResetToken' /\ RowsAsRead'
  BY <1>29 DEF Activated
<1> QED
  BY <1>1, <1>2, <1>3, <1>4, <1>5, <1>6, <1>7, <1>8, <1>9, <1>10, <1>11, <1>12, <1>13, <1>14, <1>15, <1>16, <1>17, <1>18, <1>19, <1>20, <1>21, <1>22, <1>23, <1>24, <1>25, <1>26, <1>27, <1>28, <1>29 DEF Next, Handler, Arrival

LEMMA AloneStep ==
    ASSUME IInv, AloneInv, [MCNext]_<<vars, overlapped>>
    PROVE  AloneInv'
<1>1. [Next]_vars
  BY DEF MCNext
<1>2. overlapped' \in BOOLEAN
  BY DEF MCNext, AloneInv
<1>3. ASSUME ~overlapped' PROVE ~overlapped /\ Solo'
  <2>1. CASE UNCHANGED <<vars, overlapped>>
    BY <1>3, <2>1 DEF AloneInv, Solo, IsIdle, vars
  <2>2. CASE MCNext
    BY <1>3, <2>2 DEF MCNext, Solo
  <2> QED
    BY <2>1, <2>2
<1>4. ASSUME ~overlapped'
      PROVE  OneLiveTokenPerFamily' /\ RotationOK' /\ OneActiveResetToken' /\ RowsAsRead'
  BY <1>1, <1>3, <1>4, FamilyStep, RowsStep DEF AloneInv
<1> QED
  BY <1>2, <1>3, <1>4 DEF AloneInv

LEMMA AloneInit == MCInit => AloneInv
<1> SUFFICES ASSUME MCInit PROVE AloneInv
  OBVIOUS
<1>1. /\ refreshTokens = {} /\ minted = {} /\ resetTokens = {} /\ overlapped = FALSE
      /\ \A r \in Request : req[r].pc = "idle"
  BY DEF MCInit, Init, Idle
<1>2. Solo
  BY <1>1 DEF Solo, IsIdle
<1>3. OneLiveTokenPerFamily /\ OneActiveResetToken
  BY <1>1 DEF OneLiveTokenPerFamily, OneActiveResetToken
<1>4. RotationOK /\ RowsAsRead
  BY <1>1 DEF RotationOK, RowsAsRead, At, Rotating
<1> QED
  BY <1>1, <1>2, <1>3, <1>4 DEF AloneInv

LEMMA Detailed == MCSpec => Spec
<1>1. MCInit => Init
  BY DEF MCInit
<1>2. [MCNext]_<<vars, overlapped>> => [Next]_vars
  BY DEF MCNext
<1> QED
  BY <1>1, <1>2, PTL DEF MCSpec, Spec

(* What a request that has the tables to itself relies on holds until two      *)
(* requests overlap.                                                           *)
THEOREM AloneInvariance == MCSpec => []AloneInv
BY AloneInit, AloneStep, Detailed, Invariance, PTL DEF MCSpec

(* One request at a time, a family has at most one usable token, for any       *)
(* number of accounts, tokens and families.                                    *)
THEOREM OneLiveToken == MCSpec => []OneLiveTokenAlone
<1>1. AloneInv => OneLiveTokenAlone
  BY DEF AloneInv, OneLiveTokenAlone
<1> QED
  BY <1>1, AloneInvariance, PTL

(* One request at a time, an account has at most one reset token that works.   *)
THEOREM OneResetToken == MCSpec => []OneResetTokenAlone
<1>1. AloneInv => OneResetTokenAlone
  BY DEF AloneInv, OneResetTokenAlone
<1> QED
  BY <1>1, AloneInvariance, PTL

LEMMA PromisesStep ==
    ASSUME IInv, AloneInv, MCNext, NEW r \in Request, ~overlapped'
    PROVE  /\ RefreshRevoke(r) => req[r].token \notin revokedAt
           /\ RefreshIssue(r) => FamilyOf(familyId[req[r].token]) # {}
           /\ ResetCommit(r) => req[r].reset \notin usedAt
<1>1. RowsAsRead
  BY DEF MCNext, AloneInv
<1>2. RefreshRevoke(r) => req[r].token \notin revokedAt
  BY <1>1 DEF RefreshRevoke, RowsAsRead
<1>3. ASSUME RefreshIssue(r) PROVE FamilyOf(familyId[req[r].token]) # {}
  <2>1. At(r, "reissue") /\ req[r].user \in users
    BY <1>3 DEF RefreshIssue, IssueTokens
  <2>2. req[r].token \in refreshTokens
    BY <1>1, <2>1 DEF RowsAsRead, Rotating, At
  <2> QED
    BY <2>2 DEF FamilyOf
<1>4. ResetCommit(r) => req[r].reset \notin usedAt
  BY <1>1 DEF ResetCommit, RowsAsRead
<1> QED
  BY <1>2, <1>3, <1>4

(* One request at a time, a rotation revokes a token that was not, and extends *)
(* a family that is there; a reset spends a token nobody has spent.            *)
THEOREM PromisesKept == MCSpec => PromisesKeptAlone
<1>1. IInv /\ AloneInv /\ [MCNext]_<<vars, overlapped>> =>
          [\A r \in Request : ~overlapped' =>
              /\ RefreshRevoke(r) => req[r].token \notin revokedAt
              /\ RefreshIssue(r) => FamilyOf(familyId[req[r].token]) # {}
              /\ ResetCommit(r) => req[r].reset \notin usedAt]_<<vars, overlapped>>
  BY PromisesStep
<1> QED
  BY <1>1, AloneInvariance, Detailed, Invariance, PTL DEF MCSpec, PromisesKeptAlone
=============================================================================
