------------------------------- MODULE WebSession -------------------------------
(***************************************************************************)
(* The browser's side of a session: an access token in the memory of each  *)
(* tab, a refresh cookie all tabs share, the silent refresh on a 401, the  *)
(* route guards, login and logout.  Two front ends implement it: the Next  *)
(* one (apps/web-next/lib/auth-api.ts, lib/use-api.ts, components/auth)    *)
(* shares one refresh between everything in a tab that wants one; the Nuxt *)
(* one (apps/web/app/stores/auth.ts, composables/useApi.ts, middleware)    *)
(* starts one per call.                                                    *)
(*                                                                         *)
(* The API is here as far as a browser can tell it apart: AuthSessions     *)
(* models it in full.  A refresh request is a flight; its server side runs *)
(* in the three steps of AuthService.refresh that another one can come     *)
(* between.  A row whose token neither the cookie nor a flight holds can   *)
(* never be presented again: the model forgets it and reuses the name, so  *)
(* behaviours are not bounded by the number of tokens.                     *)
(***************************************************************************)
EXTENDS Naturals, FiniteSets

CONSTANTS
    Tab,       \* browser tabs that share the cookie jar
    NextTab,   \* those that run the Next front end; the others run Nuxt
    Slot,      \* API calls a page may have open at once
    Token,     \* refresh tokens held at a time
    Family,    \* rotation families held at a time
    MaxMoves,  \* bound: navigations, reloads, lost answers and revocations
    None

Page == "page"      \* what the guards (Next) or the start-up plugin (Nuxt) wait for
Left == "left"      \* a request whose page is gone: the server still works on it

ASSUME WebAssumption ==
    /\ NextTab \subseteq Tab
    /\ MaxMoves \in Nat
    /\ None \notin Token \cup Family
    /\ Page \notin Slot /\ Left \notin Slot

Flight == Tab \X (Slot \cup {Page, Left})
Call == Tab \X Slot

VARIABLES
    status,    \* row of a token: "gone", "live" or "spent" (revokedAt set)
    family,    \* its familyId
    cookie,    \* the refresh cookie
    access,    \* per tab, the access token: "none", "live" or "stale" (expired)
    route,     \* per tab, the page: "admin" or "login"
    guard,     \* per tab, its guard: "mount", "check" or "open" (content shown)
    call,      \* API calls
    flight,    \* refresh requests
    signing,   \* per tab, the request of a login or logout: "no", "in", "out"
    moves,     \* counts what MaxMoves bounds
    trouble    \* history since the last login: "calm", or a second refresh of
               \* one page came beside a first ("parallel"), or a "mishap"

server == <<status, family>>
pages  == <<route, guard>>
vars   == <<server, cookie, access, pages, call, flight, signing, moves, trouble>>

CallState   == {"idle", "sent", "waiting", "failed"}
FlightState == {"idle", "sent", "revoke", "issue", "wipe", "granted", "denied"}
NoFlight    == [pc |-> "idle", token |-> None]

TypeOK ==
    /\ status \in [Token -> {"gone", "live", "spent"}]
    /\ family \in [Token -> Family \cup {None}]
    /\ cookie \in Token \cup {None}
    /\ access \in [Tab -> {"none", "live", "stale"}]
    /\ route \in [Tab -> {"admin", "login"}]
    /\ guard \in [Tab -> {"mount", "check", "open"}]
    /\ call \in [Call -> CallState]
    /\ flight \in [Flight -> [pc : FlightState, token : Token \cup {None}]]
    /\ signing \in [Tab -> {"no", "in", "out"}]
    /\ moves \in 0 .. MaxMoves
    /\ trouble \in {"calm", "parallel", "mishap"}

Flying(f)  == flight[f].pc # "idle"
Held       == ({cookie} \cup {flight[f].token : f \in Flight}) \ {None}

(* Names are interchangeable: of the free ones any single one will do. *)
Some(S)     == IF S = {} THEN {} ELSE {CHOOSE x \in S : TRUE}
FreshToken  == Some(Token \ Held)
FreshFamily == Some(Family \ {family[t] : t \in Held})

(* The rows are now s and k, as far as their tokens can still be presented. *)
Rows(s, k) ==
    /\ status' = [t \in Token |-> IF t \in Held' THEN s[t] ELSE "gone"]
    /\ family' = [t \in Token |-> IF t \in Held' THEN k[t] ELSE None]

(* Nobody is signed in and every tab shows the login form. *)
Init ==
    /\ status = [t \in Token |-> "gone"]
    /\ family = [t \in Token |-> None]
    /\ cookie = None
    /\ access = [a \in Tab |-> "none"]
    /\ route = [a \in Tab |-> "login"] /\ guard = [a \in Tab |-> "open"]
    /\ call = [c \in Call |-> "idle"]
    /\ flight = [f \in Flight |-> NoFlight]
    /\ signing = [a \in Tab |-> "no"]
    /\ moves = 0
    /\ trouble = "mishap"

Move == moves < MaxMoves /\ moves' = moves + 1

-----------------------------------------------------------------------------
(* Starting a refresh. *)

(* Mutant: every call refreshes for itself in both front ends. *)
FlightFor_Own(a, s) == <<a, s>>

(* The flight a caller in tab a waits for: ensureSession hands out the one   *)
(* promise of the tab, the Nuxt store sends a request of the call's own.     *)
FlightFor(a, s) == <<a, IF a \in NextTab THEN Page ELSE s>>

Beside(f) == {g \in Flight \ {f} : Flying(g)}

(* What a further refresh beside those in progress says of the history. *)
TroubleWith(f) ==
    IF Beside(f) = {} \/ trouble = "mishap" THEN trouble
    ELSE IF \A g \in Beside(f) : g[1] = f[1] /\ g[2] # Left THEN "parallel" ELSE "mishap"

(* Wait for flight f, sending it with the cookie of the moment if need be. *)
Join(f) ==
    IF Flying(f) THEN UNCHANGED <<flight, trouble>>
    ELSE /\ flight' = [flight EXCEPT ![f] = [pc |-> "sent", token |-> cookie]]
         /\ trouble' = TroubleWith(f)

(* The session check of a guard, or of the Nuxt plugin, gives its verdict.   *)
(* Next: AdminGuard and GuestGuard bounce to each other's page and mount     *)
(* anew.  Nuxt: middleware reads the store at once.                          *)
GoTo(a, r, signedIn) ==
    /\ route' = [route EXCEPT ![a] = IF a \in NextTab THEN r
                                     ELSE IF signedIn THEN "admin" ELSE "login"]
    /\ guard' = [guard EXCEPT ![a] = IF a \in NextTab THEN "mount" ELSE "open"]

(* Mutant: the guest guard bounces everyone. *)
Verdict_BounceAll(a, signedIn) ==
    IF guard[a] # "check" THEN UNCHANGED pages
    ELSE IF route[a] = "admin" /\ signedIn
    THEN guard' = [guard EXCEPT ![a] = "open"] /\ UNCHANGED route
    ELSE GoTo(a, IF route[a] = "admin" THEN "login" ELSE "admin", signedIn)

Verdict(a, signedIn) ==
    LET due == IF signedIn THEN "admin" ELSE "login" IN
    IF guard[a] # "check" THEN UNCHANGED pages
    ELSE IF route[a] = due THEN guard' = [guard EXCEPT ![a] = "open"] /\ UNCHANGED route
    ELSE GoTo(a, due, signedIn)

(* Who waits for flight f. *)
Waiters(f) == {c \in Call : /\ call[c] = "waiting"
                            /\ c[1] = f[1] /\ f = FlightFor(c[1], c[2])}

(* Mutant: a failed refresh leaves its callers waiting. *)
Settle_SilentFailure(f, ok) ==
    /\ flight' = [flight EXCEPT ![f] = NoFlight]
    /\ IF f[2] = Left THEN UNCHANGED <<access, call, pages>>
       ELSE /\ access' = [access EXCEPT ![f[1]] = IF ok THEN "live" ELSE "none"]
            /\ call' = [c \in Call |-> IF ok /\ c \in Waiters(f) THEN "idle" ELSE call[c]]
            /\ IF f[2] = Page THEN Verdict(f[1], ok) ELSE UNCHANGED pages

(* What the page does with the answer: setSession, and the waiting calls are *)
(* replayed with the new token; or clearSession, and they fail with their    *)
(* original error.  Nobody listens for a left flight.                        *)
Settle(f, ok) ==
    /\ flight' = [flight EXCEPT ![f] = NoFlight]
    /\ IF f[2] = Left THEN UNCHANGED <<access, call, pages>>
       ELSE /\ access' = [access EXCEPT ![f[1]] = IF ok THEN "live" ELSE "none"]
            /\ call' = [c \in Call |-> IF c \notin Waiters(f) THEN call[c]
                                       ELSE IF ok THEN "idle" ELSE "failed"]
            /\ IF f[2] = Page THEN Verdict(f[1], ok) ELSE UNCHANGED pages

-----------------------------------------------------------------------------
(* The API on a refresh (AuthService.refresh). *)

ServerStep(f, to) ==
    /\ flight' = [flight EXCEPT ![f] = IF to = "denied" THEN [pc |-> to, token |-> None]
                                       ELSE [pc |-> to, token |-> @.token]]
    /\ UNCHANGED <<cookie, access, pages, call, signing, moves, trouble>>

(* SELECT: no row is a 401, a revoked one a replay, a live one a rotation. *)
Select(f) ==
    LET t == flight[f].token IN
    /\ flight[f].pc = "sent"
    /\ \/ t = None /\ ServerStep(f, "denied")
       \/ t # None /\ status[t] = "gone"  /\ ServerStep(f, "denied")
       \/ t # None /\ status[t] = "spent" /\ ServerStep(f, "wipe")
       \/ t # None /\ status[t] = "live"  /\ ServerStep(f, "revoke")
    /\ Rows(status, family)

(* UPDATE: a no-op on a row that a wipe has deleted. *)
Revoke(f) ==
    LET t == flight[f].token IN
    /\ flight[f].pc = "revoke"
    /\ status' = IF status[t] = "gone" THEN status ELSE [status EXCEPT ![t] = "spent"]
    /\ ServerStep(f, "issue")
    /\ UNCHANGED family

(* INSERT into the family of the token presented; the answer sets the cookie. *)
Issue(f) ==
    /\ flight[f].pc = "issue"
    /\ UNCHANGED <<cookie, access, pages, call, signing, moves, trouble>>
    /\ \E t \in FreshToken :
        /\ flight' = [flight EXCEPT ![f] = [pc |-> "granted", token |-> t]]
        /\ Rows([status EXCEPT ![t] = "live"],
                [family EXCEPT ![t] = family[flight[f].token]])

Without(k) == [t \in Token |-> IF family[t] = k THEN "gone" ELSE status[t]]

(* Replay: the whole family goes and the answer is a 401. *)
Wipe(f) ==
    /\ flight[f].pc = "wipe"
    /\ ServerStep(f, "denied")
    /\ Rows(Without(family[flight[f].token]), family)

(* A reset, a removed account or seven days end the session. *)
SessionEnds ==
    /\ Move
    /\ \E t \in Held : status' = Without(family[t])
    /\ trouble' = "mishap"
    /\ UNCHANGED <<family, cookie, access, pages, call, flight, signing>>

-----------------------------------------------------------------------------
(* The answer reaches the browser, or is lost on the way. *)

(* Mutant: the browser keeps the cookie it had. *)
Granted_NoCookie(f) ==
    /\ flight[f].pc = "granted"
    /\ UNCHANGED <<cookie, server, signing, moves, trouble>>
    /\ Settle(f, TRUE)

Granted(f) ==
    /\ flight[f].pc = "granted"
    /\ cookie' = IF f[2] = Left THEN cookie ELSE flight[f].token
    /\ Settle(f, TRUE)
    /\ Rows(status, family)
    /\ UNCHANGED <<signing, moves, trouble>>

(* A 401 sets no cookie. *)
Denied(f) ==
    /\ flight[f].pc = "denied"
    /\ Settle(f, FALSE)
    /\ UNCHANGED <<server, cookie, signing, moves, trouble>>

(* The request never got there, was throttled, or its answer never came back. *)
Lost(f) ==
    /\ Move
    /\ flight[f].pc \in {"sent", "granted"} /\ f[2] # Left
    /\ trouble' = "mishap"
    /\ Settle(f, FALSE)
    /\ UNCHANGED <<cookie, signing>>
    /\ Rows(status, family)

-----------------------------------------------------------------------------
(* API calls of a page (withRefreshRetry, useApi). *)

AccessExpires(a) ==
    /\ access[a] = "live"
    /\ access' = [access EXCEPT ![a] = "stale"]
    /\ UNCHANGED <<server, cookie, pages, call, flight, signing, moves, trouble>>

(* A call carries the token of the moment; with a live one it is served and  *)
(* leaves no trace here.                                                     *)
Send(c) ==
    LET a == c[1] IN
    /\ route[a] = "admin" /\ guard[a] = "open" /\ access[a] # "live"
    /\ call[c] \in {"idle", "failed"}
    /\ call' = [call EXCEPT ![c] = "sent"]
    /\ UNCHANGED <<server, cookie, access, pages, flight, signing, moves, trouble>>

(* 401: refresh once, and replay when that succeeds. *)
Unauthorized(c) ==
    /\ call[c] = "sent"
    /\ call' = [call EXCEPT ![c] = "waiting"]
    /\ Join(FlightFor(c[1], c[2]))
    /\ UNCHANGED <<server, cookie, access, pages, signing, moves>>

-----------------------------------------------------------------------------
(* Pages. *)

(* Mutant: the page shows while its guard still asks. *)
Mount_ShowsForm(a) ==
    /\ guard[a] = "mount"
    /\ guard' = [guard EXCEPT ![a] = "open"]
    /\ Join(<<a, Page>>)
    /\ UNCHANGED <<server, cookie, access, route, call, signing, moves>>

(* The effect of AdminGuard and GuestGuard: they always ask for the session. *)
Mount(a) ==
    /\ guard[a] = "mount"
    /\ guard' = [guard EXCEPT ![a] = "check"]
    /\ Join(<<a, Page>>)
    /\ UNCHANGED <<server, cookie, access, route, call, signing, moves>>

Visit(a, r) ==
    /\ Move
    /\ a \in NextTab \/ guard[a] = "open"
    /\ GoTo(a, r, access[a] # "none")
    /\ UNCHANGED <<server, cookie, access, call, flight, signing, trouble>>

(* The memory of the page goes; a request it had open stays with the server. *)
Abandon(a) ==
    LET open == {f \in Flight : f[1] = a /\ Flying(f)} IN
    \/ /\ open = {}
       /\ flight' = [flight EXCEPT ![<<a, Page>>] =
                        IF a \in NextTab THEN NoFlight ELSE [pc |-> "sent", token |-> cookie]]
       /\ trouble' = IF a \in NextTab THEN trouble ELSE TroubleWith(<<a, Page>>)
    \/ \E f \in open :
       /\ open = {f} /\ f[2] # Left
       /\ flight' = [flight EXCEPT ![f] = NoFlight, ![<<a, Left>>] = flight[f],
                        ![<<a, Page>>] =
                        IF a \in NextTab THEN NoFlight ELSE [pc |-> "sent", token |-> cookie]]
       /\ trouble' = "mishap"

(* A hard reload: Next mounts its guard, Nuxt runs its plugin first. *)
Reload(a) ==
    /\ Move
    /\ Abandon(a)
    /\ access' = [access EXCEPT ![a] = "none"]
    /\ guard' = [guard EXCEPT ![a] = IF a \in NextTab THEN "mount" ELSE "check"]
    /\ call' = [c \in Call |-> IF c[1] = a THEN "idle" ELSE call[c]]
    /\ signing' = [signing EXCEPT ![a] = "no"]
    /\ UNCHANGED <<server, cookie, route>>

-----------------------------------------------------------------------------
(* Login (with its second step, a passkey or a registration) and logout. *)

LoginSend(a) ==
    /\ route[a] = "login" /\ guard[a] = "open" /\ signing[a] = "no"
    /\ signing' = [signing EXCEPT ![a] = "in"]
    /\ UNCHANGED <<server, cookie, access, pages, call, flight, moves, trouble>>

(* The form is still there and nothing behind it waits for a refresh: then   *)
(* the login is all there is, whatever a guard may still have under way.     *)
FormAlone(a) ==
    /\ route[a] = "login" /\ guard[a] = "open"
    /\ \A f \in Flight : Flying(f) => f = <<a, Page>>
    /\ \A s \in Slot : call[<<a, s>>] # "waiting"

(* A new family; the session is set and the form goes on to the dashboard. *)
LoginAnswer(a) ==
    /\ signing[a] = "in"
    /\ UNCHANGED <<call, flight, moves>>
    /\ \E t \in FreshToken, k \in FreshFamily :
        /\ cookie' = t
        /\ Rows([status EXCEPT ![t] = "live"], [family EXCEPT ![t] = k])
    /\ access' = [access EXCEPT ![a] = "live"]
    /\ signing' = [signing EXCEPT ![a] = "no"]
    /\ GoTo(a, "admin", TRUE)
    /\ trouble' = IF FormAlone(a) THEN "calm" ELSE "mishap"

LoginFails(a) ==
    /\ signing[a] = "in"
    /\ signing' = [signing EXCEPT ![a] = "no"]
    /\ UNCHANGED <<server, cookie, access, pages, call, flight, moves, trouble>>

(* The API deletes the family of the cookie the request carries. *)
LogoutSend(a) ==
    /\ route[a] = "admin" /\ guard[a] = "open" /\ access[a] # "none" /\ signing[a] = "no"
    /\ signing' = [signing EXCEPT ![a] = "out"]
    /\ IF cookie = None \/ status[cookie] = "gone" THEN UNCHANGED status
       ELSE status' = Without(family[cookie])
    /\ trouble' = "mishap"
    /\ UNCHANGED <<family, cookie, access, pages, call, flight, moves>>

(* Its answer clears the cookie; the page clears its session in any case. *)
LogoutAnswer(a) ==
    /\ signing[a] = "out"
    /\ \/ cookie' = None /\ UNCHANGED moves
       \/ Move /\ UNCHANGED cookie
    /\ access' = [access EXCEPT ![a] = "none"]
    /\ signing' = [signing EXCEPT ![a] = "no"]
    /\ GoTo(a, "login", FALSE)
    /\ trouble' = "mishap"
    /\ UNCHANGED <<call, flight>>
    /\ Rows(status, family)

-----------------------------------------------------------------------------
Answers(f) == Select(f) \/ Revoke(f) \/ Issue(f) \/ Wipe(f) \/ Granted(f) \/ Denied(f)

Next ==
    \/ \E f \in Flight : Answers(f) \/ Lost(f)
    \/ \E c \in Call : Send(c) \/ Unauthorized(c)
    \/ \E a \in Tab :
        \/ AccessExpires(a) \/ Mount(a) \/ Reload(a)
        \/ \E r \in {"admin", "login"} : Visit(a, r)
        \/ LoginSend(a) \/ LoginAnswer(a) \/ LoginFails(a) \/ LogoutSend(a) \/ LogoutAnswer(a)
    \/ SessionEnds

Spec == Init /\ [][Next]_vars

(* Requests are answered and effects run; nobody has to click anything. *)
Fairness ==
    /\ \A f \in Flight : WF_vars(Answers(f))
    /\ \A c \in Call : WF_vars(Unauthorized(c))
    /\ \A a \in Tab : WF_vars(Mount(a))

FairSpec == Spec /\ Fairness

-----------------------------------------------------------------------------
(* The inductive invariant. *)

(* A page that is shown has no refresh of its guard under way, unless calls  *)
(* of it wait for the same one; the Nuxt pages check only at start-up.       *)
PagesOK ==
    \A a \in Tab :
        /\ Flying(<<a, Page>>) /\ guard[a] = "open" =>
               a \in NextTab /\ \E s \in Slot : call[<<a, s>>] = "waiting"
        /\ a \notin NextTab => guard[a] # "mount" /\ (signing[a] # "no" => guard[a] = "open")

(* Flight f is on its way to exchange the cookie the browser holds. *)
Exchanging(f) ==
    /\ f[2] # Left
    /\ \/ flight[f].pc \in {"sent", "revoke"} /\ flight[f].token = cookie /\ status[cookie] = "live"
       \/ flight[f].pc = "issue" /\ flight[f].token = cookie
       \/ flight[f].pc = "granted" /\ flight[f].token # None /\ status[flight[f].token] = "live"

(* While nothing went wrong the cookie refreshes, or one flight is about to  *)
(* replace it.                                                               *)
CalmOK ==
    trouble = "calm" =>
        /\ cookie # None
        /\ (\A f \in Flight : ~Flying(f)) => status[cookie] = "live"
        /\ \A f \in Flight : Flying(f) => Exchanging(f) /\ Beside(f) = {}

(* Only a request that carries a cookie gets past the SELECT. *)
FlightsOK ==
    \A f \in Flight : flight[f].pc \in {"revoke", "issue", "wipe", "granted"} => flight[f].token # None

(* A Next tab only flies the one flight it shares: alone it has no parallel. *)
SharedOK ==
    /\ \A f \in Flight : f[1] \in NextTab /\ Flying(f) => f[2] \notin Slot
    /\ NextTab = Tab => trouble # "parallel"

WebInv == TypeOK /\ FlightsOK /\ SharedOK /\ PagesOK /\ CalmOK

-----------------------------------------------------------------------------
(* Properties. *)

(* "silently refresh once and replay" (use-api.ts:30-33): since the last     *)
(* login nothing was lost, no other tab, no reload and no second refresh got *)
(* in between: then a call that meets an expired access token succeeds.      *)
CallsSucceedWhileCalm ==
    [][ \A c \in Call : call[c] = "waiting" /\ call'[c] = "failed" => trouble' # "calm" ]_vars

(* "a transparent 401 -> refresh -> retry" (useApi.ts:24-29): the same when  *)
(* several calls of a page meet the expired token together, as a page that   *)
(* loads several resources has it.  It needs the refreshes to be shared.     *)
TransparentRefresh ==
    [][ \A c \in Call : call[c] = "waiting" /\ call'[c] = "failed" => trouble' = "mishap" ]_vars

(* refreshSession clears the session on any failure (auth-api.ts:132): while *)
(* nothing went wrong since the login, only a reload and a logout take the   *)
(* access token of a tab away, the refresh of a guard never does.            *)
SignedInStaysSignedIn ==
    [][ \A a \in Tab : access[a] # "none" /\ access'[a] = "none" =>
            trouble' # "calm" \/ Reload(a) \/ LogoutAnswer(a) ]_vars

(* "every guard share one refresh call" (auth-api.ts:161-165): a refresh     *)
(* that is denied or lost also ends the calls that wait for it, so every     *)
(* call is answered in the end.                                              *)
CallsSettle == \A c \in Call : call[c] = "waiting" ~> call[c] \in {"idle", "failed"}

(* The two guards send a visitor to each other's page, each after a refresh  *)
(* of its own (admin-guard.tsx:37-65, guest-guard.tsx:38-44): whatever those *)
(* refreshes answer, the bouncing ends and the tab shows a page.             *)
GuardsSettle == \A a \in Tab : guard[a] # "open" ~> guard[a] = "open"
=============================================================================
