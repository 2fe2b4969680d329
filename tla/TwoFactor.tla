-------------------------------- MODULE TwoFactor --------------------------------
(***************************************************************************)
(* The second factor of one account                                        *)
(* (apps/api/src/modules/auth/two-factor.service.ts): setup and activation *)
(* of a TOTP secret, login challenges, recovery codes.  Accounts share     *)
(* nothing here, so one is modelled.                                       *)
(*                                                                         *)
(* Requests interleave at every await, and every await may be the last: a  *)
(* statement fails or the process dies, and what was written before stays. *)
(* req[r] holds what a handler has read.  A TOTP code is represented by    *)
(* the secret it is computed from; the rounding of a TTL up to whole       *)
(* seconds is left out.  A statement that changes nothing and ends in a    *)
(* 4xx is no step.                                                         *)
(***************************************************************************)
EXTENDS Naturals

CONSTANTS
    Challenge,    \* ids of login challenges
    Request,      \* requests that can be in flight together
    Secret,       \* TOTP secrets
    MaxAttempts,  \* MAX_CHALLENGE_ATTEMPTS
    Place,        \* places on a list of codes: RECOVERY_CODE_COUNT of them
    MaxMints,     \* bound: times recovery codes are minted
    MaxLapses,    \* bound: rejected answers of a challenge that go uncounted
    None

ASSUME TwoFactorAssumption ==
    /\ MaxAttempts \in Nat \ {0} /\ MaxMints \in Nat /\ MaxLapses \in Nat

(* Codes are named after the minting they come from; a minting never repeats *)
(* an earlier code.                                                          *)
Mint(m) == {m} \X Place
Code == (1 .. MaxMints) \X Place

ASSUME AnswersAssumption ==
    None \notin Challenge \cup Secret \cup Code /\ Secret \cap Code = {}

VARIABLES
    exists,    \* whether the row in `users` is there
    enabled, secret, codes, \* its columns twoFactorEnabled, twoFactorSecret, recoveryCodes
    minted,    \* number of mintings
    setup,     \* Redis 2fa:setup: the pending secret
    live,      \* challenges in Redis
    attempts,  \* their attempts
    issued, expired, \* challenges given out, and those past expiresAt
    req,
    \* History, read by no guard:
    signIns,   \* per challenge, sign-ins it completed
    failures,  \* per challenge, answers rejected
    lapsed,    \* those of them whose count was never written
    behind,    \* requests whose challenge another request has answered since they read it
    raced,     \* challenges answered by a request that was behind
    closed,    \* challenges consumed or dropped while no other request held them
    shown,     \* recovery codes last returned to the user
    spent,     \* codes taken off the list by sign-ins since the last minting
    retired,   \* codes spent or replaced while no other request held a list of codes
    stale,     \* requests holding a list that another request has written since
    torn,      \* whether such a list was written, and no new codes since
    stray      \* whether another setup was under way when the second factor was enabled

row == <<exists, enabled, secret, codes, minted>>
redis == <<live, attempts, issued, expired>>
counts == <<signIns, failures, lapsed>>
answered == <<behind, raced, closed>>
listed == <<shown, spent, retired, stale, torn>>
vars == <<row, setup, redis, req, counts, answered, listed, stray>>

PC == {"idle", "setup", "activate", "finish", "select", "spend", "consume", "signin",
       "fail", "drop", "regenerate", "reply"}
Answer == Secret \cup Code \cup {None}
Locals == [pc: PC, challenge: Challenge \cup {None}, attempts: Nat,
           hashes: SUBSET Code, answer: Answer]
Held(pc, c, n, answer, hashes) ==
    [pc |-> pc, challenge |-> c, attempts |-> n, hashes |-> hashes, answer |-> answer]
Idle == Held("idle", None, 0, None, {})

TypeOK ==
    /\ exists \in BOOLEAN /\ enabled \in BOOLEAN
    /\ secret \in Secret \cup {None} /\ codes \subseteq Code /\ minted \in 0 .. MaxMints
    /\ setup \in Secret \cup {None}
    /\ live \subseteq issued /\ expired \subseteq issued /\ issued \subseteq Challenge
    /\ attempts \in [Challenge -> Nat]
    /\ req \in [Request -> Locals]
    /\ signIns \in [Challenge -> Nat] /\ failures \in [Challenge -> Nat]
    /\ lapsed \in [Challenge -> Nat]
    /\ behind \subseteq Request /\ raced \subseteq issued /\ closed \subseteq issued
    /\ shown \subseteq Code /\ spent \subseteq Code /\ retired \subseteq Code
    /\ stale \subseteq Request /\ torn \in BOOLEAN /\ stray \in BOOLEAN

Init ==
    /\ exists = TRUE /\ enabled = FALSE /\ secret = None /\ codes = {} /\ minted = 0
    /\ setup = None
    /\ live = {} /\ attempts = [c \in Challenge |-> 0] /\ issued = {} /\ expired = {}
    /\ req = [r \in Request |-> Idle]
    /\ signIns = [c \in Challenge |-> 0] /\ failures = [c \in Challenge |-> 0]
    /\ lapsed = [c \in Challenge |-> 0]
    /\ behind = {} /\ raced = {} /\ closed = {}
    /\ shown = {} /\ spent = {} /\ retired = {} /\ stale = {} /\ torn = FALSE
    /\ stray = FALSE

At(r, pc) == req[r].pc = pc
Goto(r, pc) == req' = [req EXCEPT ![r].pc = pc]
Return(r) == req' = [req EXCEPT ![r] = Idle]
Begin(r, pc, answer) == req' = [req EXCEPT ![r] = Held(pc, None, 0, answer, {})]

(* Whether a request other than r could still write a list with code c. *)
Holds(q, c) == At(q, "spend") /\ c \in req[q].hashes \cup {req[q].answer}
HeldByOther(r, c) == \E q \in Request \ {r} : Holds(q, c)

(* Whether a request other than r has read challenge c and not answered. *)
Reading(q, c) == req[q].challenge = c /\ ~At(q, "signin")
ReadByOther(r, c) == \E q \in Request \ {r} : Reading(q, c)

-----------------------------------------------------------------------------
(* Mutants: bugs this code could plausibly have, none of them in Next. *)

(* The matching code is not taken off the list. *)
Spliced_Not(c) == codes

(* New codes are added to the old ones. *)
WriteCodes_Append(new) ==
    /\ codes' = codes \cup new
    /\ retired' = retired \cup {c \in codes \ new : \A q \in Request : ~Holds(q, c)}
    /\ stale' = {q \in Request : At(q, "spend")} /\ torn' = FALSE

(* A rejected answer is counted without looking at the clock. *)
Countable_Always(c) == TRUE

(* A challenge is left in Redis after a successful answer. *)
DelChallenge_Not(r) ==
    LET c == req[r].challenge IN
    /\ closed' = IF ReadByOther(r, c) THEN closed ELSE closed \cup {c}
    /\ UNCHANGED <<live, attempts, issued, expired>>

(* The limit of attempts is off by one. *)
Exhausted_OffByOne(n) == n > MaxAttempts

(* beginSetup does not look at twoFactorEnabled. *)
MaySetUp_Always == TRUE

-----------------------------------------------------------------------------
(* Statements that several handlers share *)

(* UPDATE users SET recoveryCodes; an account that is gone has no row to update. *)
WriteCodes(new) ==
    /\ codes' = IF exists THEN new ELSE codes
    /\ retired' = retired \cup
          {c \in codes \ new : exists /\ \A q \in Request : ~Holds(q, c)}
    /\ stale' = {q \in Request : exists /\ At(q, "spend")} /\ torn' = FALSE

(* New codes are minted and written; r holds them for its answer. *)
MintCodes(r, pc) ==
    /\ minted < MaxMints /\ minted' = minted + 1
    /\ WriteCodes(Mint(minted'))
    /\ req' = [req EXCEPT ![r] = Held(pc, None, 0, None, Mint(minted'))]
    /\ spent' = {} /\ UNCHANGED shown

(* DEL of the challenge r has answered. *)
DelChallenge(r) ==
    LET c == req[r].challenge IN
    /\ live' = live \ {c}
    /\ closed' = IF ReadByOther(r, c) THEN closed ELSE closed \cup {c}
    /\ UNCHANGED <<attempts, issued, expired>>

(* r has answered its challenge; whoever still holds a copy is behind. *)
Answered(r) ==
    LET c == req[r].challenge IN
    /\ behind' = (behind \ {r}) \cup {q \in Request \ {r} : Reading(q, c)}
    /\ raced' = IF r \in behind THEN raced \cup {c} ELSE raced

(* Answers are counted for as long as their challenge is not raced. *)
PlusOne(count, c) == IF c \in raced' THEN count ELSE [count EXCEPT ![c] = @ + 1]

-----------------------------------------------------------------------------
(* beginSetup *)

MaySetUp == ~(exists /\ enabled)

SetupSelect(r) ==
    /\ At(r, "idle") /\ MaySetUp
    /\ Begin(r, "setup", None)
    /\ UNCHANGED <<row, setup, redis, counts, answered, listed, stray>>

(* A new secret is none of those somebody still has. *)
InUse == {setup, secret} \cup {req[q].answer : q \in Request}

SetupStore(r) ==
    /\ At(r, "setup")
    /\ setup' \in Secret \ InUse
    /\ Return(r)
    /\ UNCHANGED <<row, redis, counts, answered, listed, stray>>

(* activate, with a code the pending secret accepts *)

ActivateGet(r) ==
    /\ At(r, "idle") /\ setup # None
    /\ Begin(r, "activate", setup)
    /\ UNCHANGED <<row, setup, redis, counts, answered, listed, stray>>

OtherSetup(r) ==
    \/ setup \notin {None, req[r].answer}
    \/ \E q \in Request : At(q, "setup") \/ (At(q, "activate") /\ req[q].answer # req[r].answer)

ActivateUpdate(r) ==
    /\ At(r, "activate")
    /\ enabled' = (enabled \/ exists)
    /\ secret' = IF exists THEN req[r].answer ELSE secret
    /\ MintCodes(r, "finish")
    /\ stray' = (stray \/ (exists /\ OtherSetup(r)))
    /\ UNCHANGED <<exists, setup, redis, counts, answered>>

ActivateDel(r) ==
    /\ At(r, "finish")
    /\ setup' = None
    /\ Goto(r, "reply")
    /\ UNCHANGED <<row, redis, counts, answered, listed, stray>>

(* The new codes reach the user: "returned exactly once" (lines 87-88). *)
Reply(r) ==
    /\ At(r, "reply")
    /\ shown' = IF exists THEN req[r].hashes ELSE shown
    /\ Return(r)
    /\ UNCHANGED <<row, setup, redis, counts, answered, spent, retired, stale, torn, stray>>

SetupExpires ==
    /\ setup # None /\ setup' = None
    /\ UNCHANGED <<row, redis, req, counts, answered, listed, stray>>

-----------------------------------------------------------------------------
(* issueLoginChallenge, for a password or passkey that has been accepted with *)
(* a row read earlier                                                         *)
Issue(c) ==
    /\ enabled /\ c \notin issued
    /\ issued' = issued \cup {c} /\ live' = live \cup {c}
    /\ UNCHANGED <<row, setup, attempts, expired, req, counts, answered, listed, stray>>

(* Looked at only while the challenge, or somebody's copy of it, is there. *)
ChallengeExpires(c) ==
    /\ c \in issued \ expired /\ (c \in live \/ \E q \in Request : Reading(q, c))
    /\ expired' = expired \cup {c} /\ live' = live \ {c}
    /\ UNCHANGED <<row, setup, attempts, issued, req, counts, answered, listed, stray>>

(* verifyLoginChallenge *)

VerifyGet(r, c) ==
    /\ At(r, "idle") /\ c \in live
    /\ req' = [req EXCEPT ![r] = Held("select", c, attempts[c], None, {})]
    /\ UNCHANGED <<row, setup, redis, counts, answered, listed, stray>>

Spliced(c) == codes \ {c}

(* The row is read and the answer judged by it: a TOTP code of the secret, a *)
(* recovery code on the list, or neither; without a row, no answer will do.  *)
(* A request keeps no more of its copies than it still reads.                *)
VerifySelect(r, answer) ==
    LET Goes(pc, n, a, list) ==
            req' = [req EXCEPT ![r] = Held(pc, @.challenge, n, a, list)]
    IN
    /\ At(r, "select")
    /\ \/ ~exists /\ Goes("drop", 0, None, {})
       \/ exists /\ answer = secret /\ Goes("consume", 0, None, {})
       \/ exists /\ answer \in codes /\ Goes("spend", 0, answer, Spliced(answer))
       \/ exists /\ answer = None /\ Goes("fail", req[r].attempts, None, {})
    /\ UNCHANGED <<row, setup, redis, counts, answered, listed, stray>>

(* UPDATE with the list read before, less the code used. *)
Spend(r) ==
    /\ At(r, "spend")
    /\ codes' = IF exists THEN req[r].hashes ELSE codes
    /\ spent' = IF exists THEN spent \cup {req[r].answer} ELSE spent
    /\ retired' = IF exists /\ ~HeldByOther(r, req[r].answer)
                  THEN retired \cup {req[r].answer} ELSE retired
    /\ stale' = {q \in Request \ {r} : exists /\ At(q, "spend")}
    /\ torn' = (torn \/ r \in stale)
    /\ req' = [req EXCEPT ![r] = Held("consume", @.challenge, 0, None, {})]
    /\ UNCHANGED <<exists, enabled, secret, minted, setup, redis, counts, answered, shown, stray>>

(* The challenge is deleted; what DEL found is not looked at. *)
Consume(r) ==
    /\ At(r, "consume")
    /\ DelChallenge(r) /\ Answered(r)
    /\ Goto(r, "signin")
    /\ UNCHANGED <<row, setup, counts, listed, stray>>

(* The roles are read and the user is signed in (lines 182 and 197). *)
SignIn(r) ==
    /\ At(r, "signin")
    /\ UNCHANGED answered
    /\ signIns' = PlusOne(signIns, req[r].challenge)
    /\ Return(r)
    /\ UNCHANGED <<row, setup, redis, failures, lapsed, listed, stray>>

Drop(r) ==
    /\ At(r, "drop")
    /\ DelChallenge(r) /\ Answered(r)
    /\ Return(r)
    /\ UNCHANGED <<row, setup, counts, listed, stray>>

Exhausted(n) == n >= MaxAttempts
Countable(c) == c \notin expired

(* fail(): the attempt is counted on the copy read before, and the copy written *)
(* back for as long as the challenge has to live.                              *)
Fail(r) ==
    LET c == req[r].challenge
        n == req[r].attempts + 1
    IN
    /\ At(r, "fail") /\ Answered(r)
    /\ failures' = PlusOne(failures, c)
    /\ \/ Exhausted(n) /\ DelChallenge(r)
       \/ /\ ~Exhausted(n) /\ Countable(c)
          /\ live' = live \cup {c} /\ attempts' = [attempts EXCEPT ![c] = n]
          /\ UNCHANGED <<issued, expired, closed>>
       \/ ~Exhausted(n) /\ ~Countable(c) /\ UNCHANGED <<redis, closed>>
    /\ Return(r)
    /\ UNCHANGED <<row, setup, signIns, lapsed, listed, stray>>

-----------------------------------------------------------------------------
(* regenerateRecoveryCodes, with the right password *)

RegenerateSelect(r) ==
    /\ At(r, "idle") /\ exists /\ enabled
    /\ Begin(r, "regenerate", None)
    /\ UNCHANGED <<row, setup, redis, counts, answered, listed, stray>>

RegenerateUpdate(r) ==
    /\ At(r, "regenerate")
    /\ MintCodes(r, "reply")
    /\ UNCHANGED <<exists, enabled, secret, setup, redis, counts, answered, stray>>

-----------------------------------------------------------------------------
(* The next statement fails, or the process dies: what was written stays, and   *)
(* nothing more is.  One that was carried out and whose answer was lost is its  *)
(* own step and then this one.                                                  *)
Fails(r) ==
    LET c == req[r].challenge IN
    /\ ~At(r, "idle")
    /\ behind' = behind \ {r} /\ stale' = stale \ {r} /\ UNCHANGED <<raced, closed>>
    /\ \/ ~At(r, "fail") /\ UNCHANGED <<failures, lapsed>>
       \/ /\ At(r, "fail") /\ lapsed[c] < MaxLapses
          /\ failures' = PlusOne(failures, c) /\ lapsed' = PlusOne(lapsed, c)
    /\ Return(r)
    /\ UNCHANGED <<row, setup, redis, signIns, shown, spent, retired, torn, stray>>

(* UsersService.remove: the list of codes goes with its row, and its history *)
(* with it, for no row comes back.                                           *)
AccountRemoved ==
    /\ exists /\ exists' = FALSE
    /\ codes' = {} /\ shown' = {} /\ spent' = {} /\ retired' = {}
    /\ stale' = {} /\ torn' = FALSE
    /\ UNCHANGED <<enabled, secret, minted, setup, redis, req, counts, answered, stray>>

Next ==
    \/ \E r \in Request :
          \/ SetupSelect(r) \/ SetupStore(r)
          \/ ActivateGet(r) \/ ActivateUpdate(r) \/ ActivateDel(r)
          \/ \E c \in Challenge : VerifyGet(r, c)
          \/ \E answer \in Answer : VerifySelect(r, answer)
          \/ Spend(r) \/ Consume(r) \/ SignIn(r) \/ Drop(r) \/ Fail(r)
          \/ RegenerateSelect(r) \/ RegenerateUpdate(r)
          \/ Reply(r) \/ Fails(r)
    \/ SetupExpires
    \/ \E c \in Challenge : Issue(c) \/ ChallengeExpires(c)
    \/ AccountRemoved

Spec == Init /\ [][Next]_vars

-----------------------------------------------------------------------------
(* Properties, with requests interleaving and failing at every await *)

(* "each recovery code is single-use" (lines 139-140): a code spent, or         *)
(* replaced by a new set, while no other request held a list with it is never   *)
(* on the list again and no request will put it there.                          *)
RetiredCodesStayRetired ==
    \A c \in retired : c \notin codes /\ \A q \in Request : ~Holds(q, c)

(* "Consume a login challenge" (line 139): a challenge answered, or used up,    *)
(* while no other request had read it never comes back.                         *)
ClosedChallengesStayClosed ==
    \A c \in closed : c \notin live /\ \A q \in Request : ~Reading(q, c)

(* "failed attempts don't silently extend the TTL" (line 40): no attempt        *)
(* written back late puts an expired challenge into Redis again.                *)
ExpiredChallengesStayGone == expired \cap live = {}

(* "Failed attempts are counted on the challenge itself; too many invalidate    *)
(* it" (lines 140-141): a challenge signs in once and rejects no more answers   *)
(* than the limit and those a failed SET or DEL left uncounted, whoever reads   *)
(* it meanwhile, until a request answers it that another has overtaken.         *)
AttemptsBounded ==
    \A c \in Challenge \ raced :
        signIns[c] <= 1 /\ failures[c] <= MaxAttempts + lapsed[c]

(* "Existing codes become invalid" (i18n/locales/en.json:454): once the answer  *)
(* of the last minting has arrived, the codes that work are those it showed,    *)
(* less those taken off since; until then, and for good when the answer is lost *)
(* or an older one comes after it, none of the codes last shown works.  Only a  *)
(* list written after another request has overtaken it breaks this.             *)
LastMinted == IF minted = 0 THEN {} ELSE Mint(minted)
ShownCodesWork ==
    exists /\ ~torn =>
        IF shown = LastMinted THEN codes = shown \ spent ELSE codes \cap shown = {}

(* "Two-factor auth is already enabled for this account" (line 75): an enabled  *)
(* second factor keeps its secret, whatever setup was left over by requests     *)
(* that failed, unless another setup was under way when it was enabled.         *)
EnabledSecretKept == [][enabled /\ ~stray => secret' = secret]_vars

-----------------------------------------------------------------------------
(* The inductive invariant behind them *)

(* The list never mixes codes of two mintings, whatever late write replaces it. *)
SameMint(S) == \A c, d \in S : c[1] = d[1]
ListsAreOneMint == SameMint(codes) /\ \A r \in Request : SameMint(req[r].hashes)

(* What a request carries fits where it stands; codes come from mintings so far. *)
Minted == (1 .. minted) \X Place
MintedTogether(S) == \E m \in 1 .. minted : S = Mint(m)
CodesMinted ==
    /\ codes \cup spent \cup retired \subseteq Minted
    /\ shown = {} \/ MintedTogether(shown)
RequestsOK ==
    \A r \in Request :
        /\ At(r, "activate") => req[r].answer \in Secret
        /\ At(r, "spend") =>
              /\ req[r].answer \in Minted /\ req[r].hashes \subseteq Minted
              /\ req[r].answer \notin req[r].hashes
        /\ req[r].pc \in {"finish", "reply"} => MintedTogether(req[r].hashes)
        /\ req[r].pc \in {"select", "spend", "consume", "signin", "fail", "drop"} =>
              req[r].challenge \in issued
        /\ req[r].pc \in {"idle", "setup", "activate", "finish", "regenerate", "reply"} =>
              req[r].challenge = None

(* As long as nobody behind has answered challenge c, its count in Redis and on *)
(* every copy that is not behind is that of the answers rejected and counted.   *)
Open(c) == signIns[c] = 0 /\ \A r \in Request : At(r, "signin") => req[r].challenge # c
CountedOK(c) ==
    /\ signIns[c] <= 1 /\ failures[c] <= MaxAttempts + lapsed[c]
    /\ c \in live =>
          Open(c) /\ attempts[c] < MaxAttempts /\ attempts[c] + lapsed[c] = failures[c]
    /\ \A r \in Request \ behind : Reading(r, c) =>
          /\ Open(c)
          /\ req[r].pc \in {"select", "fail"} =>
                req[r].attempts < MaxAttempts /\ req[r].attempts + lapsed[c] = failures[c]
    /\ \A r \in Request : At(r, "signin") /\ req[r].challenge = c =>
          signIns[c] = 0 /\ \A q \in Request : At(q, "signin") /\ req[q].challenge = c => q = r
ChallengesOK ==
    \A c \in Challenge :
        /\ c \notin issued =>
              signIns[c] = 0 /\ failures[c] = 0 /\ lapsed[c] = 0 /\ attempts[c] = 0
        /\ c \notin raced => CountedOK(c)

(* The list is the last minting less the codes taken off it, and every list     *)
(* held that is not stale is that list less one code.                           *)
ListOK ==
    exists =>
        /\ ~torn => codes = LastMinted \ spent
        /\ \A r \in Request \ stale : At(r, "spend") =>
              req[r].answer \in codes /\ req[r].hashes = codes \ {req[r].answer}

(* Once enabled, a setup left over carries the secret that is in force. *)
SetupOK ==
    exists /\ enabled /\ ~stray =>
        /\ setup \in {None, secret}
        /\ \A r \in Request : ~At(r, "setup") /\ (At(r, "activate") => req[r].answer = secret)

IInv ==
    /\ TypeOK /\ RequestsOK /\ CodesMinted
    /\ RetiredCodesStayRetired /\ ClosedChallengesStayClosed
    /\ ExpiredChallengesStayGone /\ ListsAreOneMint
    /\ ChallengesOK /\ ListOK /\ SetupOK
=============================================================================
