----------------------------- MODULE MCAuthSessions -----------------------------
(***************************************************************************)
(* The run of AuthSessions, with a history of whether requests have        *)
(* overlapped, for what holds only while they have not.  Tokens and        *)
(* request slots are interchangeable in every property.                    *)
(***************************************************************************)
EXTENDS AuthSessions, TLC

VARIABLE overlapped

Symmetry == Permutations(Token) \cup Permutations(ResetToken) \cup Permutations(Request)

MCInit == Init /\ overlapped = FALSE
MCNext ==
    /\ Next
    /\ overlapped' = (overlapped \/ \E q, r \in Request : q # r /\ ~IsIdle(q)' /\ ~IsIdle(r)')
MCSpec == MCInit /\ [][MCNext]_<<vars, overlapped>>

(* The chain of rotations is linear (auth.service.ts:150-153): one request at  *)
(* a time, a family has at most one usable token, through replays, resets,     *)
(* failed statements and removals.                                             *)
OneLiveTokenAlone == ~overlapped => OneLiveTokenPerFamily

(* What the comments of the service promise of its statements                  *)
(* (auth.service.ts:152, 197, 212; the definitions of AuthSessions say which)  *)
(* holds as long as nothing overlaps: a rotation revokes a token that was not, *)
(* extends a family that is there, and a reset spends a token nobody has.      *)
PromisesKeptAlone ==
    [][ \A r \in Request : ~overlapped' =>
            /\ RefreshRevoke(r) => req[r].token \notin revokedAt
            /\ RefreshIssue(r) => FamilyOf(familyId[req[r].token]) # {}
            /\ ResetCommit(r) => req[r].reset \notin usedAt ]_<<vars, overlapped>>

(* And an account has one reset token that works (auth.service.ts:222).        *)
OneResetTokenAlone == ~overlapped => OneActiveResetToken

-----------------------------------------------------------------------------
(* The inductive invariant behind these, as long as nothing overlaps.          *)
Solo == \A q, r \in Request : q # r => IsIdle(q) \/ IsIdle(r)

(* A rotation leaves no usable token in the family it is about to extend.      *)
LiveIn(f) == FamilyOf(f) \ revokedAt
RotationOK ==
    \A r \in Request :
        /\ At(r, "revoke") => LiveIn(familyId[req[r].token]) \subseteq {req[r].token}
        /\ req[r].pc \in {"reload", "reissue"} => LiveIn(familyId[req[r].token]) = {}

(* The row a request has read is as it was, unless its account is gone.        *)
RowsAsRead ==
    /\ \A t \in minted : owner[t] \in created
    /\ \A r \in Request :
          /\ At(r, "revoke") => req[r].token \notin revokedAt
          /\ req[r].pc \in Rotating => req[r].token \in refreshTokens \/ req[r].user \notin users
          /\ At(r, "reset") => req[r].reset \notin usedAt
          /\ At(r, "forgot_insert") => ResetsOf(req[r].user) \subseteq usedAt

AloneInv ==
    /\ overlapped \in BOOLEAN
    /\ ~overlapped => Solo /\ OneLiveTokenPerFamily /\ RotationOK /\ OneActiveResetToken /\ RowsAsRead
=============================================================================
