------------------------------ MODULE AuthSessions ------------------------------
(***************************************************************************)
(* Sessions of the API: login, registration, refresh-token rotation,       *)
(* logout, password reset, password change and account removal             *)
(* (apps/api/src/modules/auth/auth.service.ts, with the parts of the users *)
(* module that write the same tables).                                     *)
(*                                                                         *)
(* Every handler is a sequence of awaited statements and the Node process  *)
(* interleaves handlers at each await, so a request in flight is a         *)
(* process: req[r].pc names the statement it awaits next, the other fields *)
(* are its local variables.  One statement, or one transaction, is one     *)
(* step.  A statement that changes nothing and ends in a 4xx is no step.   *)
(***************************************************************************)
EXTENDS Naturals, FiniteSets

CONSTANTS
    User,        \* account ids (rows of `users`, one e-mail each)
    Token,       \* refresh tokens; a token stands for its SHA-256 hash
    ResetToken,  \* password-reset tokens
    Request,     \* requests that can be in flight together
    MaxPassword, \* bound: password writes per account
    None

ASSUME ConstantsAssumption ==
    /\ MaxPassword \in Nat
    /\ None \notin User \cup Token \cup ResetToken

VARIABLES
    users,          \* rows of `users`
    created,        \* ids ever given out; randomUUID never repeats one
    password,       \* per account, the number of password writes so far
    twoFactorEnabled, \* accounts whose column of that name is true
    refreshTokens,  \* rows of `refresh_tokens`
    revokedAt,      \* those whose revokedAt is set
    expired,        \* those whose expiresAt has passed
    minted,         \* tokens ever inserted; randomBytes(32) never repeats one
    owner,          \* column userId
    familyId,       \* column familyId; a family is named after its first token
    resetTokens,    \* rows of `password_reset_tokens`
    usedAt,         \* those whose usedAt is set
    resetExpired,   \* those whose expiresAt has passed
    resetMinted,    \* reset tokens ever inserted
    resetOwner,     \* column userId of a reset token
    challenges,     \* parked second-factor challenges (Redis)
    req,            \* requests in flight
    \* History, read by no guard:
    openedUnder,    \* per token, the password its login or passkey was checked under
    lastReset,      \* per account, the password the last reset wrote
    closed,         \* families wiped while no rotation of theirs was in flight
    quietReset      \* accounts last reset while no session of theirs was being issued

accounts   == <<users, created, password, twoFactorEnabled>>
tokens     == <<refreshTokens, revokedAt, expired, minted, owner, familyId>>
resets     == <<resetTokens, usedAt, resetExpired, resetMinted, resetOwner>>
resetNotes == <<lastReset, quietReset>>
vars == <<accounts, tokens, resets, challenges, req, openedUnder, resetNotes, closed>>

(* The statement a request awaits next. *)
Rotating == {"revoke", "reload", "reissue"}
Issuing  == Rotating \cup {"open", "park", "consume", "issue"}
PC == Issuing \cup {"idle", "wipe", "drop", "forgot_delete", "forgot_insert", "reset", "change"}

Challenge == [user: User, seen: Nat]

Locals == [pc: PC, user: User \cup {None}, token: Token \cup {None},
           reset: ResetToken \cup {None}, seen: Nat]

Idle == [pc |-> "idle", user |-> None, token |-> None, reset |-> None, seen |-> 0]

TypeOK ==
    /\ users \subseteq created /\ created \subseteq User
    /\ password \in [User -> Nat] /\ twoFactorEnabled \subseteq User
    /\ refreshTokens \subseteq minted /\ minted \subseteq Token
    /\ revokedAt \subseteq refreshTokens /\ expired \subseteq refreshTokens
    /\ owner \in [Token -> User \cup {None}]
    /\ familyId \in [Token -> Token \cup {None}]
    /\ resetTokens \subseteq resetMinted /\ resetMinted \subseteq ResetToken
    /\ usedAt \subseteq resetTokens /\ resetExpired \subseteq resetTokens
    /\ resetOwner \in [ResetToken -> User \cup {None}]
    /\ challenges \subseteq Challenge
    /\ req \in [Request -> Locals]
    /\ openedUnder \in [Token -> Nat]
    /\ lastReset \in [User -> Nat]
    /\ closed \subseteq Token
    /\ quietReset \subseteq User

Init ==
    /\ users = {} /\ created = {} /\ password = [u \in User |-> 0] /\ twoFactorEnabled = {}
    /\ refreshTokens = {} /\ revokedAt = {} /\ expired = {} /\ minted = {}
    /\ owner = [t \in Token |-> None] /\ familyId = [t \in Token |-> None]
    /\ resetTokens = {} /\ usedAt = {} /\ resetExpired = {} /\ resetMinted = {}
    /\ resetOwner = [p \in ResetToken |-> None]
    /\ challenges = {}
    /\ req = [r \in Request |-> Idle]
    /\ openedUnder = [t \in Token |-> 0]
    /\ lastReset = [u \in User |-> 0]
    /\ closed = {} /\ quietReset = {}

-----------------------------------------------------------------------------
(* Where a request stands, and the statements several handlers share. *)

IsIdle(r)    == req[r].pc = "idle"
At(r, pc)    == req[r].pc = pc
ReadOnly     == UNCHANGED <<accounts, tokens, resets, challenges, openedUnder, resetNotes, closed>>
Goto(r, pc)  == req' = [req EXCEPT ![r].pc = pc]
Return(r)    == req' = [req EXCEPT ![r] = Idle]

(* Start a handler for user u, on row t or p; `seen` is the password it has read. *)
Begin(r, pc, u, t, p, seen) ==
    /\ IsIdle(r)
    /\ req' = [req EXCEPT ![r] = [pc |-> pc, user |-> u, token |-> t, reset |-> p, seen |-> seen]]
BeginAs(r, pc, u)    == Begin(r, pc, u, None, None, password[u])
BeginWith(r, pc, t)  == Begin(r, pc, owner[t], t, None, 0)

(* DELETE FROM refresh_tokens *)
DeleteTokens(S) ==
    /\ refreshTokens' = refreshTokens \ S
    /\ revokedAt' = revokedAt \ S
    /\ expired' = expired \ S
    /\ UNCHANGED <<minted, owner, familyId>>

(* DELETE FROM password_reset_tokens *)
DeleteResets(S) ==
    /\ resetTokens' = resetTokens \ S
    /\ usedAt' = usedAt \ S
    /\ resetExpired' = resetExpired \ S
    /\ UNCHANGED <<resetMinted, resetOwner>>

TokensOf(u)  == {t \in refreshTokens : owner[t] = u}
FamilyOf(f)  == {t \in refreshTokens : familyId[t] = f}
ResetsOf(u)  == {p \in resetTokens : resetOwner[p] = u}

(* The INSERT of issueTokens; token and hash are fresh, the response follows. *)
InsertToken(r, t, family, under) ==
    /\ t \in Token \ minted
    /\ minted' = minted \cup {t}
    /\ refreshTokens' = refreshTokens \cup {t}
    /\ owner' = [owner EXCEPT ![t] = req[r].user]
    /\ familyId' = [familyId EXCEPT ![t] = family]
    /\ openedUnder' = [openedUnder EXCEPT ![t] = under]
    /\ Return(r)
    /\ UNCHANGED <<revokedAt, expired>>

(* The foreign key on userId demands that the account still exists. *)
IssueTokens(r, t, family, under) ==
    /\ req[r].user \in users
    /\ InsertToken(r, t, family, under)

-----------------------------------------------------------------------------
(* Mutants: bugs this code could plausibly have, none of them in Next.  Each *)
(* stands in for the definition it is named after, to show that a property   *)
(* is able to fail.                                                          *)

(* Rotation forgets its UPDATE. *)
RefreshRevoke_Skipped(r) ==
    /\ At(r, "revoke") /\ Goto(r, "reload")
    /\ ReadOnly

(* A refresh that fails hands the old token back. *)
Abort_Unrevoke(r) ==
    /\ ~IsIdle(r) /\ Return(r)
    /\ revokedAt' = revokedAt \ {req[r].token}
    /\ UNCHANGED <<accounts, refreshTokens, expired, minted, owner, familyId, resets,
                   challenges, openedUnder, resetNotes, closed>>

(* Only the token presented is deleted. *)
FamilyWipe_OneRow(r) ==
    /\ At(r, "wipe")
    /\ DeleteTokens({req[r].token}) /\ Return(r)
    /\ closed' = IF \E q \in Request : req[q].pc \in Rotating
                                         /\ familyId[req[q].token] = familyId[req[r].token]
                 THEN closed ELSE closed \cup {familyId[req[r].token]}
    /\ UNCHANGED <<accounts, resets, challenges, openedUnder, resetNotes>>

BeingIssued(u) ==
    \/ \E q \in Request : req[q].pc \in Issuing /\ req[q].user = u
    \/ \E c \in challenges : c.user = u

(* The reset leaves the sessions in place. *)
ResetCommit_KeepSessions(r) ==
    LET u == req[r].user IN
    /\ At(r, "reset") /\ u \in users /\ password[u] < MaxPassword
    /\ password' = [password EXCEPT ![u] = @ + 1]
    /\ usedAt' = usedAt \cup ({req[r].reset} \cap resetTokens)
    /\ Return(r)
    /\ lastReset' = [lastReset EXCEPT ![u] = password[u] + 1]
    /\ quietReset' = IF BeingIssued(u) THEN quietReset \ {u} ELSE quietReset \cup {u}
    /\ UNCHANGED <<users, created, twoFactorEnabled, tokens, resetTokens, resetExpired,
                   resetMinted, resetOwner, challenges, openedUnder, closed>>

-----------------------------------------------------------------------------
(* Login, second factor, passkey, registration. *)

(* findUserByEmail, then bcrypt against the hash just read: the comparison  *)
(* and the need of a second factor are decided here, whatever is written    *)
(* before bcrypt answers.                                                   *)
LoginSelect(r, u) ==
    /\ u \in users
    /\ BeginAs(r, IF u \in twoFactorEnabled THEN "park" ELSE "open", u)
    /\ ReadOnly

(* No second factor on the row that was read: a session of a new family. *)
LoginIssue(r) ==
    /\ At(r, "open")
    /\ \E t \in Token : IssueTokens(r, t, t, req[r].seen)
    /\ UNCHANGED <<accounts, resets, challenges, resetNotes, closed>>

(* issueLoginChallenge: parked in Redis, the response carries its id. *)
LoginChallenge(r) ==
    /\ At(r, "park")
    /\ challenges' = challenges \cup {[user |-> req[r].user, seen |-> req[r].seen]}
    /\ Return(r)
    /\ UNCHANGED <<accounts, tokens, resets, openedUnder, resetNotes, closed>>

(* verifyLoginChallenge up to a valid code: challenge, account and code are *)
(* read; the challenge is still parked (TwoFactor models the attempts).     *)
CodeAccepted(r, c) ==
    /\ IsIdle(r)
    /\ c \in challenges /\ c.user \in users
    /\ req' = [req EXCEPT ![r] = [Idle EXCEPT !.pc = "consume", !.user = c.user, !.seen = c.seen]]
    /\ ReadOnly

(* Its DEL.  Challenges of one account and password version are told apart  *)
(* by their ids only, so another one like it may stay parked.               *)
ChallengeConsumed(r) ==
    /\ At(r, "consume")
    /\ challenges' \in {challenges, challenges \ {[user |-> req[r].user, seen |-> req[r].seen]}}
    /\ Goto(r, "issue")
    /\ UNCHANGED <<accounts, tokens, resets, openedUnder, resetNotes, closed>>

(* The five-minute TTL, a fifth wrong code, or an account that is gone. *)
ChallengeDropped(c) ==
    /\ c \in challenges
    /\ challenges' = challenges \ {c}
    /\ UNCHANGED <<accounts, tokens, resets, req, openedUnder, resetNotes, closed>>

(* WebAuthnService.verifyLogin up to its read of the account.  Without user *)
(* verification the controller takes the same branch as a password login.   *)
PasskeyVerified(r, u) ==
    /\ u \in users
    /\ \/ BeginAs(r, "issue", u)
       \/ u \in twoFactorEnabled /\ BeginAs(r, "park", u)
    /\ ReadOnly

(* TwoFactorService.activate; the code never turns a second factor off. *)
Activated(u) ==
    /\ u \in users \ twoFactorEnabled
    /\ twoFactorEnabled' = twoFactorEnabled \cup {u}
    /\ UNCHANGED <<users, created, password, tokens, resets, challenges, req, openedUnder,
                   resetNotes, closed>>

(* register: the transaction that inserts the account. *)
Register(r, u) ==
    /\ u \in User \ created
    /\ users' = users \cup {u} /\ created' = created \cup {u}
    /\ BeginAs(r, "issue", u)
    /\ UNCHANGED <<password, twoFactorEnabled, tokens, resets, challenges,
                   openedUnder, resetNotes, closed>>

(* issueSession: the end of register, 2fa/verify and webauthn/login/verify. *)
IssueSession(r) ==
    /\ At(r, "issue")
    /\ \E t \in Token : IssueTokens(r, t, t, req[r].seen)
    /\ UNCHANGED <<accounts, resets, challenges, resetNotes, closed>>

-----------------------------------------------------------------------------
(* Refresh and logout. *)

(* SELECT by hash and the three branches on the row that was read. *)
RefreshSelect(r, t) ==
    /\ t \in refreshTokens
    /\ \/ t \in revokedAt /\ BeginWith(r, "wipe", t)
       \/ t \in expired \ revokedAt /\ BeginWith(r, "drop", t)
       \/ t \notin revokedAt \cup expired /\ BeginWith(r, "revoke", t)
    /\ ReadOnly

(* UPDATE .. SET revokedAt by id: unconditional, and a no-op on a deleted row. *)
RefreshRevoke(r) ==
    /\ At(r, "revoke")
    /\ revokedAt' = revokedAt \cup ({req[r].token} \cap refreshTokens)
    /\ Goto(r, "reload")
    /\ UNCHANGED <<accounts, refreshTokens, expired, minted, owner, familyId, resets,
                   challenges, openedUnder, resetNotes, closed>>

(* SELECT of the account (and of its role names). *)
RefreshReload(r) ==
    /\ At(r, "reload") /\ req[r].user \in users
    /\ Goto(r, "reissue")
    /\ ReadOnly

(* issueTokens into the family of the token presented. *)
RefreshIssue(r) ==
    /\ At(r, "reissue")
    /\ \E t \in Token : IssueTokens(r, t, familyId[req[r].token], openedUnder[req[r].token])
    /\ UNCHANGED <<accounts, resets, challenges, resetNotes, closed>>

(* The expired branch deletes its own row. *)
RefreshDrop(r) ==
    /\ At(r, "drop")
    /\ DeleteTokens({req[r].token}) /\ Return(r)
    /\ UNCHANGED <<accounts, resets, challenges, openedUnder, resetNotes, closed>>

LogoutSelect(r, t) ==
    /\ t \in refreshTokens
    /\ BeginWith(r, "wipe", t)
    /\ ReadOnly

(* DELETE by family: a replay detected by refresh, or a logout. *)
FamilyWipe(r) ==
    LET f == familyId[req[r].token] IN
    /\ At(r, "wipe")
    /\ DeleteTokens(FamilyOf(f)) /\ Return(r)
    /\ closed' = IF \E q \in Request : req[q].pc \in Rotating /\ familyId[req[q].token] = f
                 THEN closed ELSE closed \cup {f}
    /\ UNCHANGED <<accounts, resets, challenges, openedUnder, resetNotes>>

-----------------------------------------------------------------------------
(* Forgotten and changed passwords, administration. *)

ForgotSelect(r, u) ==
    /\ u \in users
    /\ Begin(r, "forgot_delete", u, None, None, 0)
    /\ ReadOnly

(* "One active token per user": the unused ones go. *)
ForgotDelete(r) ==
    /\ At(r, "forgot_delete")
    /\ DeleteResets(ResetsOf(req[r].user) \ usedAt)
    /\ Goto(r, "forgot_insert")
    /\ UNCHANGED <<accounts, tokens, challenges, openedUnder, resetNotes, closed>>

(* The new one is inserted and mailed. *)
ForgotInsert(r) ==
    /\ At(r, "forgot_insert") /\ req[r].user \in users
    /\ \E p \in ResetToken \ resetMinted :
        /\ resetMinted' = resetMinted \cup {p}
        /\ resetTokens' = resetTokens \cup {p}
        /\ resetOwner' = [resetOwner EXCEPT ![p] = req[r].user]
    /\ Return(r)
    /\ UNCHANGED <<accounts, tokens, usedAt, resetExpired, challenges, openedUnder,
                   resetNotes, closed>>

(* The token is validated, then bcrypt hashes the new password. *)
ResetSelect(r, p) ==
    /\ p \in resetTokens \ (usedAt \cup resetExpired)
    /\ Begin(r, "reset", resetOwner[p], None, p, 0)
    /\ ReadOnly

(* The transaction: new password, token spent, every session deleted.  On a *)
(* deleted account all three statements match no row.                       *)
ResetCommit(r) ==
    LET u == req[r].user IN
    /\ At(r, "reset") /\ u \in users /\ password[u] < MaxPassword
    /\ password' = [password EXCEPT ![u] = @ + 1]
    /\ usedAt' = usedAt \cup ({req[r].reset} \cap resetTokens)
    /\ DeleteTokens(TokensOf(u))
    /\ Return(r)
    /\ lastReset' = [lastReset EXCEPT ![u] = password[u] + 1]
    /\ quietReset' = IF BeingIssued(u) THEN quietReset \ {u} ELSE quietReset \cup {u}
    /\ UNCHANGED <<users, created, twoFactorEnabled, resetTokens, resetExpired, resetMinted,
                   resetOwner, challenges, openedUnder, closed>>

(* changePassword: the current hash is read and compared, ... *)
ChangeSelect(r, u) ==
    /\ u \in users
    /\ BeginAs(r, "change", u)
    /\ ReadOnly

(* ... and the new one written; no session is revoked. *)
ChangeCommit(r) ==
    LET u == req[r].user IN
    /\ At(r, "change") /\ u \in users /\ password[u] < MaxPassword
    /\ password' = [password EXCEPT ![u] = @ + 1]
    /\ Return(r)
    /\ UNCHANGED <<users, created, twoFactorEnabled, tokens, resets, challenges,
                   openedUnder, resetNotes, closed>>

(* UsersService.update with a password; its findOne only answers 404. *)
AdminSetPassword(r, u) ==
    /\ IsIdle(r) /\ u \in users /\ password[u] < MaxPassword
    /\ password' = [password EXCEPT ![u] = @ + 1]
    /\ UNCHANGED <<users, created, twoFactorEnabled, tokens, resets, challenges, req,
                   openedUnder, resetNotes, closed>>

(* UsersService.create: an account without a session. *)
AdminCreate(r, u) ==
    /\ IsIdle(r) /\ u \in User \ created
    /\ users' = users \cup {u} /\ created' = created \cup {u}
    /\ UNCHANGED <<password, twoFactorEnabled, tokens, resets, challenges, req,
                   openedUnder, resetNotes, closed>>

(* UsersService.remove: the row, and by cascade its tokens of both kinds. *)
AdminRemove(r, u) ==
    /\ IsIdle(r) /\ u \in users
    /\ users' = users \ {u}
    /\ DeleteTokens(TokensOf(u)) /\ DeleteResets(ResetsOf(u))
    /\ UNCHANGED <<created, password, twoFactorEnabled, challenges, req,
                   openedUnder, resetNotes, closed>>

-----------------------------------------------------------------------------
(* Time, and the failure of a request. *)

TokenExpires(t) ==
    /\ t \in refreshTokens \ expired
    /\ expired' = expired \cup {t}
    /\ UNCHANGED <<accounts, refreshTokens, revokedAt, minted, owner, familyId, resets,
                   challenges, req, openedUnder, resetNotes, closed>>

ResetExpires(p) ==
    /\ p \in resetTokens \ resetExpired
    /\ resetExpired' = resetExpired \cup {p}
    /\ UNCHANGED <<accounts, tokens, resetTokens, usedAt, resetMinted, resetOwner,
                   challenges, req, openedUnder, resetNotes, closed>>

(* The statement a request awaits fails (a foreign key, a lost connection), *)
(* matches no account, or the process dies: what it has committed stays.    *)
Abort(r) ==
    /\ ~IsIdle(r) /\ Return(r)
    /\ ReadOnly

Handler(r) ==
    \/ LoginIssue(r) \/ LoginChallenge(r) \/ ChallengeConsumed(r) \/ IssueSession(r)
    \/ RefreshRevoke(r) \/ RefreshReload(r) \/ RefreshIssue(r) \/ RefreshDrop(r) \/ FamilyWipe(r)
    \/ ForgotDelete(r) \/ ForgotInsert(r) \/ ResetCommit(r) \/ ChangeCommit(r)
    \/ Abort(r)

Arrival(r) ==
    \/ \E u \in User :
        \/ LoginSelect(r, u) \/ PasskeyVerified(r, u) \/ Register(r, u)
        \/ ForgotSelect(r, u) \/ ChangeSelect(r, u)
        \/ AdminSetPassword(r, u) \/ AdminCreate(r, u) \/ AdminRemove(r, u)
    \/ \E t \in Token : RefreshSelect(r, t) \/ LogoutSelect(r, t)
    \/ \E p \in ResetToken : ResetSelect(r, p)
    \/ \E c \in challenges : CodeAccepted(r, c)

Clock ==
    \/ \E t \in Token : TokenExpires(t)
    \/ \E p \in ResetToken : ResetExpires(p)
    \/ \E c \in challenges : ChallengeDropped(c)

Next == Clock \/ (\E u \in User : Activated(u)) \/ \E r \in Request : Handler(r) \/ Arrival(r)

Spec == Init /\ [][Next]_vars

-----------------------------------------------------------------------------
(* Properties of the code as it is, with requests interleaved. *)

(* refresh revokes before it inserts (auth.service.ts:179-194): once a       *)
(* rotation is past its UPDATE the token it presented is revoked or gone, so *)
(* no successor is ever issued beside a token that still refreshes.          *)
RotatedTokenIsSpent ==
    \A r \in Request : req[r].pc \in {"reload", "reissue"} =>
        req[r].token \notin refreshTokens \ revokedAt

(* Rotation hands the family of the row it read to the account it reloaded   *)
(* (auth.service.ts:184-194): however requests interleave, all tokens of a   *)
(* family belong to one account, so a wipe never logs a second account out.  *)
OneOwnerPerFamily ==
    \A t1, t2 \in refreshTokens : familyId[t1] = familyId[t2] => owner[t1] = owner[t2]

(* The cascades of users (schema.ts:86-88, 108-110) and the foreign key on   *)
(* the two inserts: no token outlives the account it opens.                  *)
NoOrphanTokens ==
    /\ \A t \in refreshTokens : owner[t] \in users
    /\ \A p \in resetTokens : resetOwner[p] \in users

(* What a logout or a detected replay does guarantee (auth.service.ts:170,   *)
(* 206): a family wiped while no rotation of it is in flight stays empty.    *)
QuietWipeIsFinal == \A t \in refreshTokens : familyId[t] \notin closed

(* What a password reset does guarantee (auth.service.ts:270-277): when no   *)
(* login, challenge or rotation of the account is in flight at the commit,   *)
(* every session there is from then on was opened under the new password or  *)
(* a later one.                                                              *)
QuietResetIsFinal ==
    \A t \in refreshTokens : owner[t] \in quietReset => openedUnder[t] >= lastReset[owner[t]]

(* No statement clears revokedAt or re-inserts a row: a refresh token that   *)
(* has stopped being usable never becomes usable again, in any interleaving  *)
(* of rotations, wipes, resets and removals.                                 *)
SpentStaysSpent ==
    [][ \A t \in minted : t \notin refreshTokens \ revokedAt
                            => t \notin refreshTokens' \ revokedAt' ]_vars

-----------------------------------------------------------------------------
(* The inductive invariant behind those properties. *)

(* Columns are written once, and a family is its first token, of one owner. *)
ColumnsOK ==
    \A t \in minted : /\ owner[t] \in User /\ familyId[t] \in minted
                      /\ owner[familyId[t]] = owner[t]

(* A handler works on a row it has read and for that row's account. *)
RequestsOK ==
    \A r \in Request :
        /\ ~IsIdle(r) => req[r].user \in User
        /\ req[r].pc \in Rotating \cup {"wipe", "drop"} =>
              req[r].token \in minted /\ req[r].user = owner[req[r].token]

ResetColumnsOK == \A p \in resetMinted : resetOwner[p] \in User

(* No rotation of a closed family is in flight to bring it back. *)
ClosedOK ==
    /\ closed \subseteq minted
    /\ \A r \in Request : req[r].pc \in Rotating => familyId[req[r].token] \notin closed

(* Whatever is on its way to a session of a quietly reset account was checked *)
(* under the new password.                                                    *)
QuietOK ==
    /\ \A u \in User : lastReset[u] <= password[u]
    /\ \A c \in challenges : c.user \in quietReset => c.seen >= lastReset[c.user]
    /\ \A r \in Request :
        /\ req[r].pc \in Issuing \ Rotating /\ req[r].user \in quietReset =>
              req[r].seen >= lastReset[req[r].user]
        /\ req[r].pc \in Rotating /\ req[r].user \in quietReset =>
              openedUnder[req[r].token] >= lastReset[req[r].user]

IInv ==
    /\ TypeOK /\ ColumnsOK /\ RequestsOK /\ ResetColumnsOK
    /\ NoOrphanTokens /\ RotatedTokenIsSpent
    /\ ClosedOK /\ QuietWipeIsFinal
    /\ QuietOK /\ QuietResetIsFinal

-----------------------------------------------------------------------------
(* Properties the comments promise.  They fail when requests interleave.     *)
(* Handled one at a time they hold (MCAuthSessions), but for two:            *)
(* ResetEndsSessions, as a challenge parked before the reset opens a session *)
(* after it, and ChangeVerifiesCurrent, as an administrator sets a password  *)
(* in one statement between the two of a change.                             *)

(* "a token is revoked the moment it is rotated" (auth.service.ts:152): the  *)
(* UPDATE of a rotation always finds its token unrevoked.                    *)
RotatesOnce ==
    [][ \A r \in Request : RefreshRevoke(r) => req[r].token \notin revokedAt ]_vars

(* The chain of rotations is linear: a family has at most one usable token.  *)
OneLiveTokenPerFamily ==
    \A t1, t2 \in refreshTokens \ revokedAt : familyId[t1] = familyId[t2] => t1 = t2

(* "Revoke the whole family" (auth.service.ts:197): a rotation never puts a  *)
(* token into a family that a logout or a replay has emptied.                *)
WipedFamilyStaysEmpty ==
    [][ \A r \in Request : RefreshIssue(r) => FamilyOf(familyId[req[r].token]) # {} ]_vars

(* "revokes every refresh token so any existing sessions are forced to       *)
(* re-authenticate" (auth.service.ts:256): no session opened before a reset  *)
(* is there after it.                                                        *)
ResetEndsSessions ==
    \A t \in refreshTokens : openedUnder[t] >= lastReset[owner[t]]

(* "we issue a single-use, time-boxed token" (auth.service.ts:212): a reset  *)
(* commits only on a token nobody has spent.                                 *)
ResetTokenSingleUse ==
    [][ \A r \in Request : ResetCommit(r) => req[r].reset \notin usedAt ]_vars

(* "One active token per user" (auth.service.ts:222).                        *)
OneActiveResetToken ==
    \A p, q \in resetTokens \ usedAt : resetOwner[p] = resetOwner[q] => p = q

(* "Rotate the authenticated user's own password after verifying the current *)
(* one" (users.service.ts:98): the password a change overwrites is the one   *)
(* it has verified.                                                          *)
ChangeVerifiesCurrent ==
    [][ \A r \in Request : ChangeCommit(r) => req[r].seen = password[req[r].user] ]_vars
=============================================================================
