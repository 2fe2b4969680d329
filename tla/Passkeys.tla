-------------------------------- MODULE Passkeys --------------------------------
(***************************************************************************)
(* The passkeys of one account (apps/api/src/modules/auth/                 *)
(* webauthn.service.ts): registration, sign-in, removal.                   *)
(*                                                                         *)
(* Challenges live in Redis, one per sign-in and one per account for a     *)
(* registration, and are read, verified and deleted in separate awaits; a  *)
(* row of the table passkeys keeps the signature counter of its            *)
(* authenticator.  The verification belongs to a library: it compares the  *)
(* challenge and demands a counter above the one of the row, unless both   *)
(* are 0; if it throws nothing is deleted.  Authenticators are modelled as *)
(* far as the code relies on them.  A statement that changes nothing and   *)
(* ends in a 4xx is no step.  The names Init, Next, ... carry the module's *)
(* own, so that it can be extended beside another component.               *)
(***************************************************************************)
EXTENDS Naturals, FiniteSets

CONSTANTS
    Passkey,    \* credential ids; an authenticator never makes one twice
    Synced,     \* those whose authenticator keeps no counter and reports 0
    Challenge,  \* ids of sign-in challenges, each with a challenge of its own
    Setup,      \* challenges of registrations
    Request,    \* requests that can be in flight together
    MaxCount,   \* bound: signatures of an authenticator
    None

ASSUME PasskeyAssumption ==
    /\ Synced \subseteq Passkey /\ MaxCount \in Nat
    /\ None \notin Passkey \cup Setup \cup Nat

VARIABLES
    account,     \* is the row of the user there
    counter,     \* passkeys.counter, None for an id without a row
    challenges,  \* sign-in challenges in Redis
    issued,      \* those ever given out
    pending,     \* the registration challenge in Redis
    offered,     \* those ever given out
    created,     \* authenticators: the setup a credential was made for
    device,      \* authenticators: their counter
    reported,    \* authenticators: what it was when the credential was made
    signed,      \* assertions made by authenticators
    req,         \* where a request stands and what it works on
    opened,      \* history: assertions that have signed in
    shared,      \* history: challenges two requests have held together
    crossed,     \* history: passkeys two requests have verified, or registered, together
    retired      \* history: passkeys removed while no request worked on them

redis   == <<challenges, issued, pending, offered>>
outside == <<created, device, reported, signed>>
history == <<opened, shared, crossed, retired>>
passkeysVars    == <<account, counter, redis, outside, req, history>>

Assertion == [key : Passkey, challenge : Challenge, count : Nat]

ASSUME AssertionAssumption == None \notin Assertion

(* Past the SELECT of the passkey, and before the UPDATE of its counter. *)
Verified == {"consume", "count"}
SigningIn   == {"select", "read"} \cup Verified
Registering == {"forget", "insert"}
PC == SigningIn \cup Registering \cup {"idle", "park", "delete"}

Locals == [pc : PC, key : Passkey \cup {None}, got : Assertion \cup {None}]
Idle   == [pc |-> "idle", key |-> None, got |-> None]

PasskeysTypeOK ==
    /\ account \in BOOLEAN
    /\ counter \in [Passkey -> Nat \cup {None}]
    /\ challenges \subseteq issued /\ issued \subseteq Challenge
    /\ pending \in offered \cup {None} /\ offered \subseteq Setup
    /\ created \in [Passkey -> offered \cup {None}]
    /\ device \in [Passkey -> 0 .. MaxCount] /\ reported \in [Passkey -> 0 .. MaxCount]
    /\ signed \subseteq Assertion /\ opened \subseteq signed
    /\ req \in [Request -> Locals]
    /\ shared \subseteq Challenge /\ crossed \subseteq Passkey /\ retired \subseteq Passkey

PasskeysInit ==
    /\ account = TRUE
    /\ counter = [p \in Passkey |-> None]
    /\ challenges = {} /\ issued = {} /\ pending = None /\ offered = {}
    /\ created = [p \in Passkey |-> None]
    /\ device = [p \in Passkey |-> 0] /\ reported = device
    /\ signed = {} /\ opened = {}
    /\ req = [r \in Request |-> Idle]
    /\ shared = {} /\ crossed = {} /\ retired = {}

At(r, pc)        == req[r].pc = pc
Begin(r, pc, p, a) ==
    /\ At(r, "idle")
    /\ req' = [req EXCEPT ![r] = [pc |-> pc, key |-> p, got |-> a]]
Goto(r, pc)      == req' = [req EXCEPT ![r].pc = pc]
Return(r)        == req' = [req EXCEPT ![r] = Idle]
Rows             == {p \in Passkey : counter[p] # None}

(* History: r comes to work on p where another request is at one of pcs with it. *)
Cross(r, p, pcs) ==
    crossed' = crossed \cup {k \in {p} : \E q \in Request \ {r} : req[q].key = k /\ req[q].pc \in pcs}

-----------------------------------------------------------------------------
(* Registration. *)

(* registrationOptions: the account and the credentials to exclude are read, *)
RegOptions(r) ==
    /\ account
    /\ Begin(r, "park", None, None)
    /\ UNCHANGED <<account, counter, redis, outside, history>>

(* ... and the challenge is set under the one key of the account. *)
RegPark(r) ==
    /\ At(r, "park")
    /\ \E s \in Setup \ offered : pending' = s /\ offered' = offered \cup {s}
    /\ Return(r)
    /\ UNCHANGED <<account, counter, challenges, issued, outside, history>>

(* External: an authenticator makes a credential; its counter may have moved *)
(* for others before.                                                        *)
Create(p) ==
    /\ created[p] = None
    /\ \E s \in offered : created' = [created EXCEPT ![p] = s]
    /\ \E n \in IF p \in Synced THEN {0} ELSE 0 .. MaxCount :
          device' = [device EXCEPT ![p] = n] /\ reported' = [reported EXCEPT ![p] = n]
    /\ UNCHANGED <<account, counter, redis, signed, req, history>>

(* verifyRegistration: the response is verified against the challenge read, *)
RegGet(r, p) ==
    /\ created[p] # None /\ pending = created[p]
    /\ Begin(r, "forget", p, None)
    /\ Cross(r, p, Registering)
    /\ UNCHANGED <<account, counter, redis, outside, opened, shared, retired>>

(* Mutant: the challenge stays until its TTL. *)
RegForget_Kept(r) ==
    /\ At(r, "forget") /\ Goto(r, "insert")
    /\ UNCHANGED <<account, counter, redis, outside, history>>

(* ... the key is deleted, whichever challenge it holds by now, *)
RegForget(r) ==
    /\ At(r, "forget") /\ Goto(r, "insert")
    /\ pending' = None
    /\ UNCHANGED <<account, counter, challenges, issued, offered, outside, history>>

(* ... and the row inserted: its id is the primary key, its user a foreign one. *)
RegInsert(r) ==
    LET p == req[r].key IN
    /\ At(r, "insert") /\ p \notin Rows /\ account
    /\ counter' = [counter EXCEPT ![p] = reported[p]]
    /\ Return(r)
    /\ UNCHANGED <<account, redis, outside, history>>

-----------------------------------------------------------------------------
(* Sign-in. *)

LoginOptions ==
    /\ \E c \in Challenge \ issued : issued' = issued \cup {c} /\ challenges' = challenges \cup {c}
    /\ UNCHANGED <<account, counter, pending, offered, outside, req, history>>

(* External: an authenticator answers a challenge. *)
Sign(p, c) ==
    LET n == IF p \in Synced THEN 0 ELSE device[p] + 1 IN
    /\ created[p] # None /\ c \in issued /\ n <= MaxCount
    /\ device' = [device EXCEPT ![p] = n]
    /\ signed' = signed \cup {[key |-> p, challenge |-> c, count |-> n]}
    /\ UNCHANGED <<account, counter, redis, created, reported, req, history>>

(* verifyLogin: GET of the challenge by the id that came with the assertion, *)
VerifyGet(r, a) ==
    /\ a.challenge \in challenges
    /\ Begin(r, "select", a.key, a)
    /\ shared' = shared \cup {c \in {a.challenge} :
                                 \E q \in Request : req[q].got # None /\ req[q].got.challenge = c}
    /\ UNCHANGED <<account, counter, redis, outside, opened, crossed, retired>>

(* Mutant: the counter of the row is not compared. *)
VerifySelect_AnyCount(r) ==
    /\ At(r, "select") /\ req[r].key \in Rows
    /\ Goto(r, "consume")
    /\ Cross(r, req[r].key, Verified)
    /\ UNCHANGED <<account, counter, redis, outside, opened, shared, retired>>

(* ... SELECT of the passkey and the verification against what it read, *)
VerifySelect(r) ==
    LET p == req[r].key  n == req[r].got.count IN
    /\ At(r, "select") /\ p \in Rows
    /\ n > counter[p] \/ (n = 0 /\ counter[p] = 0)
    /\ Goto(r, "consume")
    /\ Cross(r, req[r].key, Verified)
    /\ UNCHANGED <<account, counter, redis, outside, opened, shared, retired>>

(* Mutant: the challenge stays until its TTL. *)
Consume_Kept(r) ==
    /\ At(r, "consume") /\ Goto(r, "count")
    /\ UNCHANGED <<account, counter, redis, outside, history>>

(* ... DEL of the challenge, whether it is still there or not, *)
Consume(r) ==
    /\ At(r, "consume") /\ Goto(r, "count")
    /\ challenges' = challenges \ {req[r].got.challenge}
    /\ UNCHANGED <<account, counter, issued, pending, offered, outside, history>>

(* ... UPDATE of the counter, which finds no row if the passkey is gone, *)
Count(r) ==
    /\ At(r, "count") /\ Goto(r, "read")
    /\ counter' = [p \in Passkey |-> IF p = req[r].key /\ p \in Rows THEN req[r].got.count ELSE counter[p]]
    /\ UNCHANGED <<account, redis, outside, history>>

(* ... SELECT of the account; the controller issues its session. *)
ReadAccount(r) ==
    /\ At(r, "read") /\ account
    /\ opened' = opened \cup {req[r].got}
    /\ Return(r)
    /\ UNCHANGED <<account, counter, redis, outside, shared, crossed, retired>>

-----------------------------------------------------------------------------
(* Removal, time and failure. *)

(* No request will still write the row of p or sign in with it. *)
Quiet(p) == \A q \in Request : req[q].key = p => req[q].pc \in {"idle", "select", "delete"}

(* removePasskey: SELECT and the check of its user, *)
RemoveSelect(r, p) ==
    /\ p \in Rows
    /\ Begin(r, "delete", p, None)
    /\ UNCHANGED <<account, counter, redis, outside, history>>

(* ... and the DELETE. *)
RemoveDelete(r) ==
    LET p == req[r].key IN
    /\ At(r, "delete") /\ Return(r)
    /\ counter' = [counter EXCEPT ![p] = None]
    /\ retired' = retired \cup {q \in {p} : Quiet(q)}
    /\ UNCHANGED <<account, redis, outside, opened, shared, crossed>>

(* UsersService.remove: the row of the user and, by cascade, its passkeys. *)
RemoveAccount ==
    /\ account /\ account' = FALSE
    /\ counter' = [p \in Passkey |-> None]
    /\ retired' = retired \cup {p \in Rows : Quiet(p)}
    /\ UNCHANGED <<redis, outside, req, opened, shared, crossed>>

(* The five minutes of a challenge pass. *)
ChallengeExpires ==
    /\ \/ \E c \in challenges : challenges' = challenges \ {c} /\ UNCHANGED pending
       \/ pending # None /\ pending' = None /\ UNCHANGED challenges
    /\ UNCHANGED <<account, counter, issued, offered, outside, req, history>>

(* A statement fails, matches nothing or the process dies: what it has      *)
(* written stays.  Also a response that the library finds unverified.       *)
Fails(r) ==
    /\ ~At(r, "idle") /\ Return(r)
    /\ UNCHANGED <<account, counter, redis, outside, history>>

Handler(r) ==
    \/ RegOptions(r) \/ RegPark(r) \/ RegForget(r) \/ RegInsert(r)
    \/ VerifySelect(r) \/ Consume(r) \/ Count(r) \/ ReadAccount(r)
    \/ RemoveDelete(r) \/ Fails(r)
    \/ \E p \in Passkey : RegGet(r, p) \/ RemoveSelect(r, p)
    \/ \E a \in signed : VerifyGet(r, a)

Authenticators == \E p \in Passkey : Create(p) \/ \E c \in Challenge : Sign(p, c)

PasskeysNext == LoginOptions \/ RemoveAccount \/ ChallengeExpires \/ Authenticators \/ \E r \in Request : Handler(r)

PasskeysSpec == PasskeysInit /\ [][PasskeysNext]_passkeysVars

-----------------------------------------------------------------------------
(* Properties. *)

(* A passkey that was removed while no request worked on it is out for good: *)
(* neither a registration answered long ago nor an assertion brings it back, *)
(* because the registration challenge is deleted before the row is written   *)
(* (webauthn.service.ts:92-99).                                              *)
RetiredStayOut ==
    \A p \in retired :
        /\ p \notin Rows /\ Quiet(p)
        /\ pending # created[p] /\ created[p] # None

(* The inductive invariant behind it and the two properties below.            *)
(* Who signs in holds an assertion of its passkey, who registers or removes   *)
(* works on a credential that was made.                                       *)
RequestsOK ==
    \A r \in Request :
        /\ req[r].pc \in SigningIn => req[r].got \in signed /\ req[r].key = req[r].got.key
        /\ req[r].pc \notin SigningIn => req[r].got = None
        /\ req[r].pc \in Registering \cup {"delete"} => req[r].key \in Passkey
        /\ req[r].pc \in {"idle", "park"} => req[r].key = None
        /\ req[r].key # None => created[req[r].key] # None
RowsOK ==
    /\ \A p \in Rows : created[p] # None /\ account /\ (p \in Synced => counter[p] = 0)
    /\ \A p \in Synced : reported[p] = 0
SignedOK ==
    \A a \in signed :
        created[a.key] # None /\ a.challenge \in issued /\ (a.key \in Synced <=> a.count = 0)

(* The challenge of a registration is gone before its row is written, so a    *)
(* passkey is inserted once, unless two requests registered it together.      *)
Enrolled(p) ==
    \/ p \in Rows \/ \E a \in opened : a.key = p
    \/ \E r \in Request : req[r].key = p /\ req[r].pc \in Verified \cup {"read", "delete"}
RegistrationsOK ==
    \A p \in Passkey :
        /\ Enrolled(p) => created[p] # pending
        /\ \A r \in Request : req[r].key = p =>
              /\ req[r].pc = "insert" => created[p] # pending
              /\ req[r].pc \in Registering =>
                    p \in crossed \/ (~Enrolled(p) /\ \A q \in Request \ {r} :
                                                     req[q].key = p => req[q].pc \notin Registering)

(* Whoever has found a challenge that signed somebody in, or that another     *)
(* request has found too, holds a shared one.                                 *)
ChallengesOK ==
    /\ \A a \in opened : a.challenge \notin challenges
    /\ \A r \in Request : req[r].pc \in SigningIn =>
          /\ req[r].pc \in {"count", "read"} => req[r].got.challenge \notin challenges
          /\ \A a \in opened : a.challenge = req[r].got.challenge => a.challenge \in shared
          /\ \A q \in Request \ {r} :
                req[q].pc \in SigningIn /\ req[q].got.challenge = req[r].got.challenge =>
                    req[r].got.challenge \in shared

(* A counter stands between what has signed in and what is being verified.    *)
Working(r, p, pcs) == req[r].key = p /\ req[r].pc \in pcs
CountersOK ==
    \A p \in Passkey \ crossed :
        /\ \A q, r \in Request : Working(q, p, Verified) /\ Working(r, p, Verified) => q = r
        /\ p \notin Synced =>
              /\ p \in Rows => \A a \in opened : a.key = p => a.count <= counter[p]
              /\ \A r \in Request :
                    /\ Working(r, p, Verified) /\ p \in Rows => counter[p] < req[r].got.count
                    /\ Working(r, p, {"read"}) /\ p \in Rows => req[r].got.count <= counter[p]
                    /\ Working(r, p, Verified \cup {"read"}) => req[r].got \notin opened
                    /\ \A q \in Request \ {r} :
                          Working(r, p, {"read"}) /\ Working(q, p, Verified \cup {"read"}) =>
                              req[q].got # req[r].got

PasskeysInv ==
    /\ PasskeysTypeOK /\ RequestsOK /\ RowsOK /\ SignedOK
    /\ RegistrationsOK /\ ChallengesOK /\ CountersOK /\ RetiredStayOut

(* Two barriers keep an assertion from signing in twice, the challenge that  *)
(* is deleted and the counter that must grow: both have been passed by       *)
(* requests under way together before it happens (webauthn.service.ts:162,   *)
(* 165-173), or the row, and its counter, by two registrations under way     *)
(* together; an authenticator without a counter has the first one only.      *)
ReplaysRefused ==
    [][ \A r \in Request : ReadAccount(r) /\ req[r].got \in opened =>
            /\ req[r].got.challenge \in shared
            /\ req[r].key \in Synced \cup crossed ]_passkeysVars

(* The counter of a row, written from a verification against an earlier      *)
(* read, never goes back (and so lets a copied authenticator pass) unless    *)
(* two requests verified, or registered, the passkey together.               *)
CountersAdvance ==
    [][ \A p \in Rows : p \in Rows' /\ counter'[p] < counter[p] => p \in crossed ]_passkeysVars

=============================================================================
