---------------------------- MODULE WebSessionProofs ----------------------------
EXTENDS WebSession, TLAPS

(* A free name is one that nobody holds. *)
LEMMA FreshIsFree ==
    /\ \A t \in FreshToken : t \in Token /\ t \notin Held
    /\ \A k \in FreshFamily : k \in Family
BY DEF FreshToken, FreshFamily, Some

(* What a flight is and whom it belongs to. *)
LEMMA FlightTypes ==
    /\ \A f \in Flight : f = <<f[1], f[2]>> /\ f[1] \in Tab
    /\ \A c \in Call : c = <<c[1], c[2]>> /\ c[1] \in Tab /\ c[2] \in Slot
    /\ \A a \in Tab : <<a, Page>> \in Flight /\ <<a, Left>> \in Flight
    /\ \A c \in Call : FlightFor(c[1], c[2]) \in Flight
BY DEF Flight, Call, FlightFor

(* Rows keep their types whatever is forgotten. *)
LEMMA RowsTypes ==
    ASSUME NEW s \in [Token -> {"gone", "live", "spent"}],
           NEW k \in [Token -> Family \cup {None}], Rows(s, k)
    PROVE  /\ status' \in [Token -> {"gone", "live", "spent"}]
           /\ family' \in [Token -> Family \cup {None}]
BY DEF Rows

(* A page's reaction to an answer keeps the types of what it writes. *)
LEMMA SettleTypes ==
    ASSUME TypeOK, NEW f \in Flight, NEW ok \in BOOLEAN, Settle(f, ok)
    PROVE  /\ access' \in [Tab -> {"none", "live", "stale"}]
           /\ route' \in [Tab -> {"admin", "login"}]
           /\ guard' \in [Tab -> {"mount", "check", "open"}]
           /\ call' \in [Call -> CallState]
           /\ flight' \in [Flight -> [pc : FlightState, token : Token \cup {None}]]
<1>1. flight' \in [Flight -> [pc : FlightState, token : Token \cup {None}]]
  BY DEF TypeOK, Settle, NoFlight, FlightState
<1>2. CASE f[2] = Left
  BY <1>1, <1>2 DEF TypeOK, Settle, pages
<1>3. CASE f[2] # Left
  <2>1. access' \in [Tab -> {"none", "live", "stale"}] /\ call' \in [Call -> CallState]
    BY <1>3 DEF TypeOK, Settle, CallState
  <2>2. route' \in [Tab -> {"admin", "login"}] /\ guard' \in [Tab -> {"mount", "check", "open"}]
    <3>1. Verdict(f[1], ok) \/ UNCHANGED pages
      BY <1>3 DEF Settle
    <3>2. CASE UNCHANGED pages
      BY <3>2 DEF TypeOK, pages
    <3>3. CASE Verdict(f[1], ok) /\ ~UNCHANGED pages
      <4>1. \/ guard' = [guard EXCEPT ![f[1]] = "open"] /\ UNCHANGED route
            \/ GoTo(f[1], "admin", ok) \/ GoTo(f[1], "login", ok)
        BY <3>3 DEF Verdict
      <4> QED
        BY <4>1 DEF TypeOK, GoTo
    <3> QED
      BY <3>1, <3>2, <3>3
  <2> QED
    BY <1>1, <2>1, <2>2
<1> QED
  BY <1>2, <1>3

(* Starting or joining a flight keeps the types. *)
LEMMA JoinTypes ==
    ASSUME TypeOK, NEW f \in Flight, Join(f)
    PROVE  /\ flight' \in [Flight -> [pc : FlightState, token : Token \cup {None}]]
           /\ trouble' \in {"calm", "parallel", "mishap"}
BY DEF TypeOK, Join, FlightState, TroubleWith

(* Every step keeps the types, and a flight past its SELECT has a token. *)
LEMMA TypeStep == TypeOK /\ FlightsOK /\ [Next]_vars => TypeOK' /\ FlightsOK'
<1> SUFFICES ASSUME TypeOK, FlightsOK, [Next]_vars PROVE TypeOK' /\ FlightsOK'
  OBVIOUS
<1> USE WebAssumption DEF FlightsOK
<1> DEFINE Goal == TypeOK' /\ FlightsOK'
<1> DEFINE T == [Token -> {"gone", "live", "spent"}]
<1> DEFINE K == [Token -> Family \cup {None}]
<1>1. CASE UNCHANGED vars
  BY <1>1 DEF vars, server, pages, TypeOK
<1>2. ASSUME NEW f \in Flight, Select(f) PROVE Goal
  <2>1. status' \in T /\ family' \in K
    BY <1>2, RowsTypes DEF Select, TypeOK
  <2> QED
    BY <1>2, <2>1, SMTT(30) DEF Select, ServerStep, TypeOK, pages, FlightState
<1>3. ASSUME NEW f \in Flight, Revoke(f) PROVE Goal
  BY <1>3 DEF Revoke, ServerStep, TypeOK, pages, FlightState
<1>4. ASSUME NEW f \in Flight, Issue(f) PROVE Goal
  <2> PICK t \in FreshToken :
        /\ flight' = [flight EXCEPT ![f] = [pc |-> "granted", token |-> t]]
        /\ Rows([status EXCEPT ![t] = "live"],
                [family EXCEPT ![t] = family[flight[f].token]])
    BY <1>4 DEF Issue
  <2>1. t \in Token /\ flight[f].token \in Token
    BY <1>4, FreshIsFree DEF Issue, TypeOK
  <2>2. status' \in T /\ family' \in K
    BY <2>1 DEF TypeOK, Rows
  <2> QED
    BY <1>4, <2>1, <2>2 DEF Issue, TypeOK, pages, FlightState
<1>5. ASSUME NEW f \in Flight, Wipe(f) PROVE Goal
  <2>1. status' \in T /\ family' \in K
    BY <1>5, RowsTypes DEF Wipe, Without, TypeOK
  <2> QED
    BY <1>5, <2>1 DEF Wipe, ServerStep, TypeOK, pages, FlightState
<1>6. CASE SessionEnds
  BY <1>6 DEF SessionEnds, Move, Without, TypeOK, pages
<1>7. ASSUME NEW f \in Flight, Granted(f) PROVE Goal
  <2>1. status' \in T /\ family' \in K /\ cookie' \in Token \cup {None}
    BY <1>7, RowsTypes DEF Granted, TypeOK
  <2>2. flight' = [flight EXCEPT ![f] = NoFlight]
    BY <1>7 DEF Granted, Settle
  <2> QED
    BY <1>7, <2>1, <2>2, SettleTypes, ZenonT(30) DEF Granted, TypeOK, NoFlight
<1>8. ASSUME NEW f \in Flight, Denied(f) PROVE Goal
  <2>1. flight' = [flight EXCEPT ![f] = NoFlight]
    BY <1>8 DEF Denied, Settle
  <2> QED
    BY <1>8, <2>1, SettleTypes, ZenonT(30) DEF Denied, TypeOK, NoFlight, server
<1>9. ASSUME NEW f \in Flight, Lost(f) PROVE Goal
  <2>1. status' \in T /\ family' \in K
    BY <1>9, RowsTypes DEF Lost, TypeOK
  <2>2. flight' = [flight EXCEPT ![f] = NoFlight]
    BY <1>9 DEF Lost, Settle
  <2>3. Settle(f, FALSE) /\ FALSE \in BOOLEAN
    BY <1>9 DEF Lost
  <2>4. moves' \in 0 .. MaxMoves
    BY <1>9 DEF Lost, Move, TypeOK
  <2>5. FlightsOK'
    BY <2>2 DEF TypeOK, NoFlight
  <2> QED
    BY <1>9, <2>1, <2>3, <2>4, <2>5, SettleTypes DEF Lost, TypeOK
<1>10. ASSUME NEW c \in Call, Send(c) PROVE Goal
  BY <1>10 DEF Send, TypeOK, server, pages, CallState
<1>11. ASSUME NEW c \in Call, Unauthorized(c) PROVE Goal
  <2> DEFINE f == FlightFor(c[1], c[2])
  <2>1. f \in Flight /\ Join(f)
    BY <1>11, FlightTypes DEF Unauthorized
  <2>2. FlightsOK'
    BY <2>1 DEF Join, TypeOK
  <2> QED
    BY <1>11, <2>1, <2>2, JoinTypes DEF Unauthorized, TypeOK, server, pages, CallState
<1>12. ASSUME NEW a \in Tab, AccessExpires(a) PROVE Goal
  BY <1>12 DEF AccessExpires, TypeOK, server, pages
<1>13. ASSUME NEW a \in Tab, Mount(a) PROVE Goal
  <2>1. <<a, Page>> \in Flight /\ Join(<<a, Page>>)
    BY <1>13, FlightTypes DEF Mount
  <2>2. FlightsOK'
    <3>1. CASE Flying(<<a, Page>>)
      BY <2>1, <3>1 DEF Join
    <3>2. CASE flight' = [flight EXCEPT ![<<a, Page>>] = [pc |-> "sent", token |-> cookie]]
      BY <2>1, <3>2 DEF TypeOK
    <3> QED
      BY <2>1, <3>1, <3>2 DEF Join
  <2> QED
    BY <1>13, <2>1, <2>2, JoinTypes DEF Mount, TypeOK, server
<1>14. ASSUME NEW a \in Tab, Reload(a) PROVE Goal
  <2>1. /\ flight' \in [Flight -> [pc : FlightState, token : Token \cup {None}]]
        /\ FlightsOK' /\ trouble' \in {"calm", "parallel", "mishap"}
    <3>1. <<a, Page>> \in Flight /\ <<a, Left>> \in Flight
      BY FlightTypes
    <3> DEFINE first == IF a \in NextTab THEN NoFlight ELSE [pc |-> "sent", token |-> cookie]
    <3>2. first \in [pc : FlightState, token : Token \cup {None}]
          /\ first.pc \in {"idle", "sent"}
      BY DEF NoFlight, FlightState, TypeOK
    <3>3. trouble' \in {"calm", "parallel", "mishap"}
      BY <1>14 DEF Reload, Abandon, TypeOK, TroubleWith
    <3>4. CASE flight' = [flight EXCEPT ![<<a, Page>>] = first]
      BY <3>1, <3>2, <3>3, <3>4 DEF TypeOK
    <3>5. CASE \E f \in Flight : flight' = [flight EXCEPT ![f] = NoFlight,
                  ![<<a, Left>>] = flight[f], ![<<a, Page>>] = first]
      <4> PICK f \in Flight : flight' = [flight EXCEPT ![f] = NoFlight,
                  ![<<a, Left>>] = flight[f], ![<<a, Page>>] = first]
        BY <3>5
      <4>1. NoFlight \in [pc : FlightState, token : Token \cup {None}]
        BY DEF NoFlight, FlightState
      <4> HIDE DEF first
      <4>2. flight' \in [Flight -> [pc : FlightState, token : Token \cup {None}]]
        BY <3>1, <3>2, <4>1 DEF TypeOK
      <4>3. FlightsOK'
        BY <3>1, <3>2, <4>1 DEF TypeOK, NoFlight
      <4> QED
        BY <3>3, <4>2, <4>3
    <3> QED
      BY <1>14, <3>1, <3>4, <3>5 DEF Reload, Abandon
  <2> QED
    BY <1>14, <2>1 DEF Reload, Move, TypeOK, server, CallState
<1>15. ASSUME NEW a \in Tab, NEW r \in {"admin", "login"}, Visit(a, r) PROVE Goal
  BY <1>15 DEF Visit, Move, GoTo, TypeOK, server
<1>16. ASSUME NEW a \in Tab, LoginSend(a) PROVE Goal
  BY <1>16 DEF LoginSend, TypeOK, server, pages
<1>17. ASSUME NEW a \in Tab, LoginAnswer(a) PROVE Goal
  <2> PICK t \in FreshToken, k \in FreshFamily :
        /\ cookie' = t
        /\ Rows([status EXCEPT ![t] = "live"], [family EXCEPT ![t] = k])
    BY <1>17 DEF LoginAnswer
  <2>1. t \in Token /\ k \in Family
    BY FreshIsFree
  <2>2. status' \in T /\ family' \in K
    BY <2>1 DEF TypeOK, Rows
  <2> QED
    BY <1>17, <2>1, <2>2 DEF LoginAnswer, GoTo, TypeOK
<1>18. ASSUME NEW a \in Tab, LoginFails(a) PROVE Goal
  BY <1>18 DEF LoginFails, TypeOK, server, pages
<1>19. ASSUME NEW a \in Tab, LogoutSend(a) PROVE Goal
  BY <1>19 DEF LogoutSend, Without, TypeOK, pages
<1>20. ASSUME NEW a \in Tab, LogoutAnswer(a) PROVE Goal
  <2>1. status' \in T /\ family' \in K
    BY <1>20, RowsTypes DEF LogoutAnswer, TypeOK
  <2> QED
    BY <1>20, <2>1 DEF LogoutAnswer, Move, GoTo, TypeOK
<1> QED
  BY <1>1, <1>2, <1>3, <1>4, <1>5, <1>6, <1>7, <1>8, <1>9, <1>10, <1>11, <1>12, <1>13, <1>14,
     <1>15, <1>16, <1>17, <1>18, <1>19, <1>20 DEF Next, Answers

-----------------------------------------------------------------------------
(* While calm, what a caller joins is, or becomes, the one flight that       *)
(* exchanges the cookie.                                                     *)
LEMMA CalmJoin ==
    ASSUME TypeOK, CalmOK, NEW f \in Flight, f[2] # Left, Join(f),
           UNCHANGED <<server, cookie>>
    PROVE  CalmOK'
<1> SUFFICES ASSUME trouble' = "calm" PROVE CalmOK'
  BY DEF CalmOK
<1>1. CASE Flying(f)
  BY <1>1 DEF CalmOK, Join, Flying, Exchanging, Beside, server
<1>2. CASE ~Flying(f)
  <2>1. flight' = [flight EXCEPT ![f] = [pc |-> "sent", token |-> cookie]]
        /\ trouble' = TroubleWith(f)
    BY <1>2 DEF Join
  <2>2. trouble = "calm" /\ Beside(f) = {}
    BY <2>1 DEF TroubleWith, TypeOK
  <2>3. \A g \in Flight : ~Flying(g)
    BY <1>2, <2>2 DEF Beside
  <2>4. cookie # None /\ status[cookie] = "live"
    BY <2>2, <2>3 DEF CalmOK
  <2>5. \A g \in Flight : Flying(g)' => g = f
    BY <2>1, <2>3 DEF Flying, TypeOK
  <2>6. flight'[f] = [pc |-> "sent", token |-> cookie]
    BY <2>1 DEF TypeOK
  <2>7. Exchanging(f)' /\ Flying(f)'
    BY <2>4, <2>6 DEF Exchanging, Flying, server
  <2>8. Beside(f)' = {}
    BY <2>5 DEF Beside
  <2> QED
    BY <2>4, <2>5, <2>7, <2>8 DEF CalmOK, server
<1> QED
  BY <1>1, <1>2

(* While calm, a flight that does not answer is the one there is, and it is  *)
(* neither denied nor about to be.                                           *)
LEMMA CalmFlight ==
    ASSUME CalmOK, trouble = "calm", NEW f \in Flight, Flying(f)
    PROVE  /\ Exchanging(f) /\ cookie # None
           /\ flight[f].pc \notin {"wipe", "denied"}
           /\ \A g \in Flight \ {f} : flight[g].pc = "idle"
BY DEF CalmOK, Exchanging, Beside, Flying

(* Every step keeps the cookie of a calm session exchangeable.               *)
LEMMA CalmStep == WebInv /\ [Next]_vars => CalmOK'
<1> SUFFICES ASSUME TypeOK, FlightsOK, PagesOK, CalmOK, [Next]_vars, trouble' = "calm"
             PROVE  CalmOK'
  BY DEF WebInv, CalmOK
<1> USE WebAssumption
<1>1. CASE UNCHANGED vars
  BY <1>1 DEF vars, server, CalmOK, Exchanging, Beside, Flying
<1>2. ASSUME NEW f \in Flight, flight[f].pc # "idle", trouble = "calm",
             NEW to \in {"revoke", "issue", "granted"}, NEW t \in Token,
             flight' = [flight EXCEPT ![f] = [pc |-> to, token |-> t]],
             f[2] # Left, cookie' = cookie,
             IF to = "granted" THEN status'[t] = "live" ELSE t = cookie,
             to = "revoke" => status'[cookie] = "live"
      PROVE  CalmOK'
  <2>1. cookie # None /\ \A g \in Flight \ {f} : flight[g].pc = "idle"
    BY <1>2, CalmFlight DEF Flying
  <2>2. flight'[f] = [pc |-> to, token |-> t]
        /\ \A g \in Flight \ {f} : flight'[g].pc = "idle"
    BY <1>2, <2>1 DEF TypeOK
  <2>3. Exchanging(f)' /\ Flying(f)'
    BY <1>2, <2>2 DEF Exchanging, Flying
  <2>4. \A g \in Flight : Flying(g)' => g = f /\ Beside(g)' = {}
    BY <2>2 DEF Beside, Flying
  <2> QED
    BY <1>2, <2>1, <2>3, <2>4 DEF CalmOK
<1>3. ASSUME NEW f \in Flight, Select(f) PROVE CalmOK'
  <2>1. trouble = "calm" /\ flight[f].pc = "sent" /\ cookie' = cookie
    BY <1>3 DEF Select, ServerStep
  <2>2. flight[f].token = cookie /\ status[cookie] = "live" /\ cookie # None /\ f[2] # Left
    BY <2>1, CalmFlight DEF Exchanging, Flying
  <2>3. cookie \in Token /\ flight' = [flight EXCEPT ![f] = [pc |-> "revoke", token |-> cookie]]
    BY <1>3, <2>2 DEF Select, ServerStep, TypeOK
  <2>4. status'[cookie] = "live"
    BY <1>3, <2>1, <2>2, <2>3 DEF Select, Rows, Held
  <2> QED
    BY <1>2, <2>1, <2>2, <2>3, <2>4
<1>4. ASSUME NEW f \in Flight, Revoke(f) PROVE CalmOK'
  <2>1. trouble = "calm" /\ flight[f].pc = "revoke" /\ cookie' = cookie
    BY <1>4 DEF Revoke, ServerStep
  <2>2. flight[f].token = cookie /\ cookie # None /\ f[2] # Left
    BY <2>1, CalmFlight DEF Exchanging, Flying
  <2>3. cookie \in Token /\ flight' = [flight EXCEPT ![f] = [pc |-> "issue", token |-> cookie]]
    BY <1>4, <2>2 DEF Revoke, ServerStep, TypeOK
  <2> QED
    BY <1>2, <2>1, <2>2, <2>3
<1>5. ASSUME NEW f \in Flight, Issue(f) PROVE CalmOK'
  <2> PICK t \in FreshToken :
        /\ flight' = [flight EXCEPT ![f] = [pc |-> "granted", token |-> t]]
        /\ Rows([status EXCEPT ![t] = "live"],
                [family EXCEPT ![t] = family[flight[f].token]])
    BY <1>5 DEF Issue
  <2>1. trouble = "calm" /\ flight[f].pc = "issue" /\ cookie' = cookie /\ t \in Token
    BY <1>5, FreshIsFree DEF Issue
  <2>2. f[2] # Left
    BY <2>1, CalmFlight DEF Exchanging, Flying
  <2>3. t \in Held'
    BY <2>1 DEF Held, TypeOK
  <2>4. status'[t] = "live"
    BY <2>1, <2>3 DEF Rows, TypeOK
  <2> QED
    BY <1>2, <2>1, <2>2, <2>4
<1>6. ASSUME NEW f \in Flight, Granted(f) PROVE CalmOK'
  <2> DEFINE t == flight[f].token
  <2>1. trouble = "calm" /\ flight[f].pc = "granted" /\ Settle(f, TRUE) /\ Rows(status, family)
    BY <1>6 DEF Granted
  <2>2. f[2] # Left /\ t # None /\ status[t] = "live"
        /\ \A g \in Flight \ {f} : flight[g].pc = "idle"
    BY <2>1, CalmFlight DEF Exchanging, Flying
  <2>3. cookie' = t /\ t \in Token
    BY <1>6, <2>2 DEF Granted, TypeOK
  <2>4. \A g \in Flight : ~Flying(g)'
    BY <2>1, <2>2 DEF Settle, TypeOK, NoFlight, Flying
  <2>5. status'[cookie'] = "live"
    BY <2>1, <2>2, <2>3 DEF Rows, Held
  <2> QED
    BY <2>2, <2>3, <2>4, <2>5 DEF CalmOK
<1>7. ASSUME NEW f \in Flight, Wipe(f) \/ Denied(f) PROVE CalmOK'
  <2>1. trouble = "calm" /\ flight[f].pc \in {"wipe", "denied"}
    BY <1>7 DEF Wipe, ServerStep, Denied
  <2> QED
    BY <2>1, CalmFlight DEF Flying
<1>8. ASSUME NEW c \in Call, Unauthorized(c) PROVE CalmOK'
  <2>1. FlightFor(c[1], c[2]) \in Flight /\ FlightFor(c[1], c[2])[2] # Left
    BY FlightTypes DEF FlightFor, Page, Left
  <2> QED
    BY <1>8, <2>1, CalmJoin DEF Unauthorized, server
<1>9. ASSUME NEW a \in Tab, Mount(a) PROVE CalmOK'
  <2>1. <<a, Page>> \in Flight /\ <<a, Page>>[2] # Left
    BY FlightTypes DEF Page, Left
  <2> QED
    BY <1>9, <2>1, CalmJoin DEF Mount, server
<1>10. ASSUME NEW a \in Tab, Reload(a) PROVE CalmOK'
  <2> DEFINE f == <<a, Page>>
  <2>1. f \in Flight /\ f[1] = a /\ f[2] # Left
    BY FlightTypes DEF Page, Left
  <2>2. ~Flying(f) /\ UNCHANGED <<server, cookie>>
    BY <1>10, <2>1 DEF Reload, Abandon
  <2>3. CASE a \in NextTab
    <3>1. trouble = "calm" /\ flight' = [flight EXCEPT ![f] = NoFlight]
      BY <1>10, <2>3 DEF Reload, Abandon
    <3>2. \A g \in Flight : /\ Flying(g)' <=> Flying(g)
                            /\ Flying(g) => flight'[g] = flight[g]
      BY <2>1, <2>2, <3>1 DEF TypeOK, NoFlight, Flying
    <3>3. \A g \in Flight : Flying(g) => (Exchanging(g) => Exchanging(g)')
      BY <2>2, <3>2 DEF Exchanging, server
    <3>4. \A g \in Flight : Beside(g)' = Beside(g)
      BY <3>2 DEF Beside
    <3> QED
      BY <2>2, <3>1, <3>2, <3>3, <3>4 DEF CalmOK, server
  <2>4. CASE a \notin NextTab
    <3>1. flight' = [flight EXCEPT ![f] = [pc |-> "sent", token |-> cookie]]
          /\ trouble' = TroubleWith(f)
      BY <1>10, <2>4 DEF Reload, Abandon
    <3>2. Join(f)
      BY <2>2, <3>1 DEF Join
    <3> QED
      BY <2>1, <2>2, <3>2, CalmJoin
  <2> QED
    BY <2>3, <2>4
<1>11. ASSUME NEW a \in Tab, LoginAnswer(a) PROVE CalmOK'
  <2> PICK t \in FreshToken, k \in FreshFamily :
        /\ cookie' = t
        /\ Rows([status EXCEPT ![t] = "live"], [family EXCEPT ![t] = k])
    BY <1>11 DEF LoginAnswer
  <2>1. t \in Token /\ t # None
    BY FreshIsFree
  <2>2. FormAlone(a) /\ UNCHANGED flight
    BY <1>11 DEF LoginAnswer
  <2>3. \A f \in Flight : ~Flying(f)
    BY <2>2 DEF FormAlone, PagesOK
  <2>4. status'[t] = "live"
    BY <2>1 DEF Rows, Held, TypeOK
  <2> QED
    BY <2>1, <2>2, <2>3, <2>4 DEF CalmOK, Flying
<1>12. ASSUME UNCHANGED <<server, cookie, flight, trouble>> PROVE CalmOK'
  BY <1>12 DEF server, CalmOK, Exchanging, Beside, Flying
<1>13. ASSUME NEW f \in Flight, Lost(f) PROVE FALSE
  BY <1>13 DEF Lost
<1>14. ASSUME NEW a \in Tab, LogoutSend(a) \/ LogoutAnswer(a) PROVE FALSE
  BY <1>14 DEF LogoutSend, LogoutAnswer
<1>15. ASSUME SessionEnds PROVE FALSE
  BY <1>15 DEF SessionEnds
<1>16. ASSUME NEW c \in Call, Send(c) PROVE CalmOK'
  BY <1>16, <1>12 DEF Send
<1>17. ASSUME NEW a \in Tab, AccessExpires(a) \/ LoginSend(a) \/ LoginFails(a) PROVE CalmOK'
  BY <1>17, <1>12 DEF AccessExpires, LoginSend, LoginFails
<1>18. ASSUME NEW a \in Tab, NEW r \in {"admin", "login"}, Visit(a, r) PROVE CalmOK'
  BY <1>18, <1>12 DEF Visit
<1> QED
  BY <1>1, <1>3, <1>4, <1>5, <1>6, <1>7, <1>8, <1>9, <1>10, <1>11, <1>13, <1>14,
     <1>15, <1>16, <1>17, <1>18 DEF Next, Answers

-----------------------------------------------------------------------------
(* What a Next tab joins is its shared flight: no flight of its own beside. *)
LEMMA SharedJoin ==
    ASSUME TypeOK, SharedOK, NEW f \in Flight, Join(f), f[2] # Left,
           f[1] \in NextTab => f[2] \notin Slot
    PROVE  SharedOK'
<1>1. CASE Flying(f)
  BY <1>1 DEF Join, SharedOK, Flying
<1>2. CASE ~Flying(f)
  <2>1. flight' = [flight EXCEPT ![f] = [pc |-> "sent", token |-> cookie]]
        /\ trouble' = TroubleWith(f)
    BY <1>2 DEF Join
  <2>2. \A g \in Flight : g[1] \in NextTab /\ Flying(g)' => g[2] \notin Slot
    BY <2>1 DEF SharedOK, Flying, TypeOK
  <2>3. ASSUME NextTab = Tab, trouble' = "parallel" PROVE FALSE
    <3>1. Beside(f) # {} /\ \A g \in Beside(f) : g[1] = f[1] /\ g[2] # Left
      BY <2>1, <2>3 DEF TroubleWith, SharedOK
    <3>2. PICK g \in Beside(f) : g[1] = f[1] /\ g[2] # Left
      BY <3>1
    <3>3. g \in Flight /\ g # f /\ Flying(g) /\ g[1] \in NextTab /\ f[1] \in NextTab
      BY <2>3, <3>2, FlightTypes DEF Beside
    <3>4. g[2] = Page /\ f[2] = Page
      BY <3>2, <3>3 DEF SharedOK, Flight
    <3> QED
      BY <3>2, <3>3, <3>4, FlightTypes
  <2> QED
    BY <2>2, <2>3 DEF SharedOK
<1> QED
  BY <1>1, <1>2

(* Every step keeps Next tabs to their shared flight. *)
LEMMA SharedStep == WebInv /\ [Next]_vars => SharedOK'
<1> SUFFICES ASSUME TypeOK, SharedOK, [Next]_vars PROVE SharedOK'
  BY DEF WebInv
<1> USE WebAssumption
<1>1. ASSUME UNCHANGED <<flight, trouble>> PROVE SharedOK'
  BY <1>1 DEF SharedOK, Flying
<1>2. ASSUME NEW f \in Flight, NEW x,
             flight' = [flight EXCEPT ![f] = x],
             Flying(f) \/ x.pc = "idle", trouble' \in {trouble, "mishap"}
      PROVE  SharedOK'
  BY <1>2 DEF SharedOK, Flying, TypeOK
<1>3. ASSUME NEW f \in Flight,
             Select(f) \/ Revoke(f) \/ Wipe(f) PROVE SharedOK'
  <2>1. /\ flight[f].pc # "idle" /\ trouble' = trouble
        /\ \E x : flight' = [flight EXCEPT ![f] = x]
    BY <1>3 DEF Select, Revoke, Wipe, ServerStep
  <2> QED
    BY <1>2, <2>1 DEF Flying
<1>4. ASSUME NEW f \in Flight, Issue(f) PROVE SharedOK'
  <2>1. /\ flight[f].pc # "idle" /\ trouble' = trouble
        /\ \E x : flight' = [flight EXCEPT ![f] = x]
    BY <1>4 DEF Issue
  <2> QED
    BY <1>2, <2>1 DEF Flying
<1>5. ASSUME NEW f \in Flight, Granted(f) \/ Denied(f) \/ Lost(f) PROVE SharedOK'
  <2>1. /\ flight' = [flight EXCEPT ![f] = NoFlight] /\ NoFlight.pc = "idle"
        /\ trouble' \in {trouble, "mishap"}
    BY <1>5 DEF Granted, Denied, Lost, Settle, NoFlight
  <2> QED
    BY <1>2, <2>1
<1>6. ASSUME NEW c \in Call, Unauthorized(c) PROVE SharedOK'
  <2> DEFINE f == FlightFor(c[1], c[2])
  <2>1. f \in Flight /\ Join(f) /\ f[2] # Left /\ (f[1] \in NextTab => f[2] \notin Slot)
    BY <1>6, FlightTypes DEF Unauthorized, FlightFor, Page, Left
  <2> QED
    BY <2>1, SharedJoin
<1>7. ASSUME NEW a \in Tab, Mount(a) PROVE SharedOK'
  <2>1. <<a, Page>> \in Flight /\ <<a, Page>>[2] = Page /\ Page # Left
    BY FlightTypes DEF Page, Left
  <2> QED
    BY <1>7, <2>1, SharedJoin DEF Mount
<1>8. ASSUME NEW a \in Tab, Reload(a) PROVE SharedOK'
  <2> DEFINE f == <<a, Page>>
             first == IF a \in NextTab THEN NoFlight ELSE [pc |-> "sent", token |-> cookie]
  <2>1. f \in Flight /\ <<a, Left>> \in Flight /\ f[2] = Page /\ f[1] = a /\ Page # Left
        /\ NoFlight.pc = "idle"
    BY FlightTypes DEF Page, Left, NoFlight
  <2>2. CASE ~Flying(f) /\ flight' = [flight EXCEPT ![f] = first]
             /\ trouble' = IF a \in NextTab THEN trouble ELSE TroubleWith(f)
    <3>1. CASE a \in NextTab
      BY <1>2, <2>1, <2>2, <3>1
    <3>2. CASE a \notin NextTab
      BY <2>1, <2>2, <3>2, SharedJoin DEF Join
    <3> QED
      BY <3>1, <3>2
  <2>3. CASE \E g \in Flight : flight' = [flight EXCEPT ![g] = NoFlight,
                  ![<<a, Left>>] = flight[g], ![f] = first] /\ trouble' = "mishap"
    BY <2>1, <2>3 DEF SharedOK, Flying, TypeOK
  <2> QED
    BY <1>8, <2>1, <2>2, <2>3 DEF Reload, Abandon
<1>9. ASSUME NEW a \in Tab, LoginAnswer(a) \/ LogoutSend(a) \/ LogoutAnswer(a) PROVE SharedOK'
  BY <1>9 DEF LoginAnswer, LogoutSend, LogoutAnswer, SharedOK, Flying
<1>10. ASSUME SessionEnds PROVE SharedOK'
  BY <1>10 DEF SessionEnds, SharedOK, Flying
<1>11. ASSUME NEW c \in Call, Send(c) PROVE SharedOK'
  BY <1>11, <1>1 DEF Send
<1>12. ASSUME NEW a \in Tab, AccessExpires(a) \/ LoginSend(a) \/ LoginFails(a) PROVE SharedOK'
  BY <1>12, <1>1 DEF AccessExpires, LoginSend, LoginFails
<1>13. ASSUME NEW a \in Tab, NEW r \in {"admin", "login"}, Visit(a, r) PROVE SharedOK'
  BY <1>13, <1>1 DEF Visit
<1>14. CASE UNCHANGED vars
  BY <1>14, <1>1 DEF vars
<1> QED
  BY <1>3, <1>4, <1>5, <1>6, <1>7, <1>8, <1>9, <1>10, <1>11, <1>12, <1>13, <1>14
     DEF Next, Answers

-----------------------------------------------------------------------------
(* A Next page joins for itself, a Nuxt call in a flight of its own: either  *)
(* keeps PagesOK.                                                            *)
LEMMA PagesStep == WebInv /\ [Next]_vars => PagesOK'
<1> SUFFICES ASSUME TypeOK, PagesOK, [Next]_vars PROVE PagesOK'
  BY DEF WebInv
<1> USE WebAssumption
<1>1. ASSUME UNCHANGED <<pages, call, signing>>,
             \A a \in Tab : Flying(<<a, Page>>)' => Flying(<<a, Page>>)
      PROVE  PagesOK'
  BY <1>1 DEF PagesOK, pages
<1>2. ASSUME NEW f \in Flight, Select(f) \/ Revoke(f) \/ Wipe(f) \/ Issue(f) PROVE PagesOK'
  <2>1. /\ flight[f].pc # "idle" /\ UNCHANGED <<pages, call, signing>>
        /\ \E x : flight' = [flight EXCEPT ![f] = x]
    BY <1>2 DEF Select, Revoke, Wipe, Issue, ServerStep
  <2> QED
    BY <1>1, <2>1, FlightTypes DEF Flying, TypeOK
<1>3. ASSUME NEW f \in Flight, NEW ok \in BOOLEAN, Settle(f, ok), UNCHANGED signing
      PROVE  PagesOK'
  <2>1. flight' = [flight EXCEPT ![f] = NoFlight] /\ NoFlight.pc = "idle"
    BY <1>3 DEF Settle, NoFlight
  <2>2. \A g \in Flight : Flying(g)' => Flying(g) /\ g # f
    BY <2>1 DEF Flying, TypeOK
  <2>3. CASE f[2] = Left
    BY <1>1, <1>3, <2>2, <2>3, FlightTypes DEF Settle
  <2>4. CASE f[2] # Left
    <3>1. \A c \in Call : call[c] = "waiting" /\ call'[c] # "waiting"
                          => f = FlightFor(c[1], c[2])
      BY <1>3, <2>4 DEF Settle, Waiters, TypeOK
    <3>2. \A a \in NextTab, r \in Slot :
             call[<<a, r>>] = "waiting" /\ call'[<<a, r>>] # "waiting" => f = <<a, Page>>
      BY <3>1 DEF FlightFor, Call
    <3>3. CASE UNCHANGED pages
      BY <2>2, <3>2, <3>3, <1>3, FlightTypes DEF PagesOK, pages
    <3>4. CASE ~UNCHANGED pages
      <4>1. f[2] = Page /\ Verdict(f[1], ok) /\ guard[f[1]] = "check" /\ f = <<f[1], Page>>
            /\ f[1] \in Tab
        BY <1>3, <2>4, <3>4, FlightTypes DEF Settle, Verdict
      <4>2. \A a \in Tab \ {f[1]} : guard'[a] = guard[a]
        BY <4>1 DEF Verdict, GoTo, pages, TypeOK
      <4>3. f[1] \notin NextTab => guard'[f[1]] = "open"
        BY <3>4, <4>1 DEF Verdict, GoTo, TypeOK
      <4>4. ASSUME NEW a \in Tab, Flying(<<a, Page>>)', guard'[a] = "open"
            PROVE  a \in NextTab /\ \E s \in Slot : call'[<<a, s>>] = "waiting"
        <5>1. a # f[1] /\ Flying(<<a, Page>>)
          BY <2>2, <4>1, <4>4, FlightTypes
        <5>2. a \in NextTab /\ (\E s \in Slot : call[<<a, s>>] = "waiting")
          BY <4>2, <4>4, <5>1 DEF PagesOK
        <5> QED
          BY <3>2, <4>1, <5>1, <5>2
      <4>5. ASSUME NEW a \in Tab, a \notin NextTab
            PROVE  guard'[a] # "mount" /\ (signing'[a] # "no" => guard'[a] = "open")
        BY <1>3, <4>1, <4>2, <4>3, <4>5 DEF PagesOK
      <4> QED
        BY <4>4, <4>5 DEF PagesOK
    <3> QED
      BY <3>3, <3>4
  <2> QED
    BY <2>3, <2>4
<1>4. ASSUME NEW f \in Flight, Granted(f) \/ Denied(f) \/ Lost(f) PROVE PagesOK'
  BY <1>3, <1>4 DEF Granted, Denied, Lost
<1>5. ASSUME NEW c \in Call, Unauthorized(c) PROVE PagesOK'
  <2> DEFINE f == FlightFor(c[1], c[2])
  <2>1. \A g \in Flight : Flying(g)' => Flying(g) \/ g = f
    BY <1>5, FlightTypes DEF Unauthorized, Join, Flying, TypeOK
  <2>2. \A d \in Call : call[d] = "waiting" => call'[d] = "waiting"
    BY <1>5 DEF Unauthorized, TypeOK
  <2>3. \A a \in Tab : <<a, Page>> = f => a = c[1] /\ a \in NextTab
    BY FlightTypes DEF FlightFor
  <2>4. call'[<<c[1], c[2]>>] = "waiting" /\ c[2] \in Slot
    BY <1>5, FlightTypes DEF Unauthorized, TypeOK
  <2>5. \A a \in Tab, r \in Slot : <<a, r>> \in Call
    BY DEF Call
  <2>6. UNCHANGED <<pages, signing>>
    BY <1>5 DEF Unauthorized
  <2>7. ASSUME NEW a \in Tab, Flying(<<a, Page>>)', guard'[a] = "open"
        PROVE  a \in NextTab /\ \E s \in Slot : call'[<<a, s>>] = "waiting"
    <3>1. CASE <<a, Page>> = f
      BY <2>3, <2>4, <3>1
    <3>2. CASE Flying(<<a, Page>>)
      <4>1. PICK s \in Slot : call[<<a, s>>] = "waiting"
        BY <2>6, <2>7, <3>2 DEF PagesOK, pages
      <4> QED
        BY <2>2, <2>5, <2>6, <2>7, <3>2, <4>1 DEF PagesOK, pages
    <3> QED
      BY <2>1, <2>7, <3>1, <3>2, FlightTypes
  <2> HIDE DEF f
  <2> QED
    BY <2>6, <2>7 DEF PagesOK, pages
<1>6. ASSUME NEW a \in Tab, Mount(a) PROVE PagesOK'
  <2>1. \A g \in Flight : Flying(g)' => Flying(g) \/ g = <<a, Page>>
    BY <1>6, FlightTypes DEF Mount, Join, Flying, TypeOK
  <2>2. \A b \in Tab \ {a} : guard'[b] = guard[b]
    BY <1>6 DEF Mount, TypeOK
  <2>3. guard'[a] = "check" /\ a \in NextTab
    BY <1>6 DEF Mount, TypeOK, PagesOK
  <2> QED
    BY <1>6, <2>1, <2>2, <2>3, FlightTypes DEF Mount, PagesOK
<1>7. ASSUME NEW a \in Tab, Reload(a) PROVE PagesOK'
  <2>1. \A b \in Tab \ {a} : Flying(<<b, Page>>)' => Flying(<<b, Page>>)
    <3>1. \A b \in Tab \ {a} : <<b, Page>> # <<a, Page>> /\ <<b, Page>> # <<a, Left>>
      OBVIOUS
    <3> QED
      BY <1>7, <3>1, FlightTypes, ZenonT(30) DEF Reload, Abandon, Flying, NoFlight, TypeOK
  <2>2. \A b \in Tab \ {a} : guard'[b] = guard[b] /\ signing'[b] = signing[b]
                             /\ \A r \in Slot : call'[<<b, r>>] = call[<<b, r>>]
    BY <1>7 DEF Reload, TypeOK, Call
  <2>3. signing'[a] = "no" /\ guard'[a] = IF a \in NextTab THEN "mount" ELSE "check"
    BY <1>7 DEF Reload, TypeOK
  <2> QED
    BY <2>1, <2>2, <2>3 DEF PagesOK
<1>8. ASSUME NEW a \in Tab, NEW r \in {"admin", "login"}, NEW ok \in BOOLEAN, GoTo(a, r, ok),
             a \in NextTab \/ guard[a] = "open", UNCHANGED <<call, flight>>,
             \A b \in Tab \ {a} : signing'[b] = signing[b]
      PROVE  PagesOK'
  <2>1. \A b \in Tab \ {a} : guard'[b] = guard[b]
    BY <1>8 DEF GoTo, TypeOK
  <2>2. guard'[a] = IF a \in NextTab THEN "mount" ELSE "open"
    BY <1>8 DEF GoTo, TypeOK
  <2> QED
    BY <1>8, <2>1, <2>2 DEF PagesOK, Flying
<1>9. ASSUME NEW a \in Tab, NEW r \in {"admin", "login"}, Visit(a, r) PROVE PagesOK'
  BY <1>8, <1>9 DEF Visit
<1>10. ASSUME NEW a \in Tab, LoginAnswer(a) \/ LogoutAnswer(a) PROVE PagesOK'
  <2>1. a \in NextTab \/ guard[a] = "open"
    BY <1>10 DEF LoginAnswer, LogoutAnswer, PagesOK
  <2>2. \A b \in Tab \ {a} : signing'[b] = signing[b]
    BY <1>10 DEF LoginAnswer, LogoutAnswer, TypeOK
  <2>3. (GoTo(a, "admin", TRUE) \/ GoTo(a, "login", FALSE)) /\ UNCHANGED <<call, flight>>
    BY <1>10 DEF LoginAnswer, LogoutAnswer
  <2> QED
    BY <1>8, <2>1, <2>2, <2>3
<1>11. ASSUME NEW a \in Tab, LoginSend(a) \/ LoginFails(a) \/ LogoutSend(a) PROVE PagesOK'
  <2>1. guard[a] = "open" \/ signing'[a] = "no" \/ a \in NextTab
    BY <1>11 DEF LoginSend, LoginFails, LogoutSend, TypeOK
  <2>2. \A b \in Tab \ {a} : signing'[b] = signing[b]
    BY <1>11 DEF LoginSend, LoginFails, LogoutSend, TypeOK
  <2>3. UNCHANGED <<pages, call, flight>>
    BY <1>11 DEF LoginSend, LoginFails, LogoutSend
  <2> QED
    BY <2>1, <2>2, <2>3 DEF PagesOK, pages, Flying
<1>12. ASSUME NEW c \in Call, Send(c) PROVE PagesOK'
  BY <1>12 DEF Send, PagesOK, pages, Flying, TypeOK
<1>13. ASSUME UNCHANGED <<pages, call, signing, flight>> PROVE PagesOK'
  BY <1>1, <1>13 DEF Flying
<1>14. ASSUME NEW a \in Tab, AccessExpires(a) PROVE PagesOK'
  BY <1>13, <1>14 DEF AccessExpires
<1>15. CASE SessionEnds
  BY <1>13, <1>15 DEF SessionEnds
<1>16. CASE UNCHANGED vars
  BY <1>13, <1>16 DEF vars
<1> QED
  BY <1>2, <1>4, <1>5, <1>6, <1>7, <1>9, <1>10, <1>11, <1>12, <1>14, <1>15, <1>16
     DEF Next, Answers

-----------------------------------------------------------------------------
(* The initial pages show a form; no flight, and a history that is no calm.  *)
LEMMA InitInv == Init => WebInv
<1> SUFFICES ASSUME Init PROVE WebInv
  OBVIOUS
<1>1. TypeOK /\ \A f \in Flight : ~Flying(f) /\ flight[f].pc = "idle"
  BY WebAssumption DEF Init, TypeOK, CallState, FlightState, NoFlight, Flying
<1>2. FlightsOK /\ CalmOK /\ SharedOK
  BY <1>1 DEF Init, FlightsOK, CalmOK, SharedOK
<1>3. PagesOK
  BY <1>1, FlightTypes DEF Init, PagesOK
<1> QED
  BY <1>1, <1>2, <1>3 DEF WebInv

(* WebInv holds in every reachable state: what lib/auth-api.ts and           *)
(* stores/auth.ts keep true of the flights, the pages and the cookie.        *)
THEOREM WebInvariance == Spec => []WebInv
<1>1. WebInv /\ [Next]_vars => WebInv'
  BY TypeStep, SharedStep, PagesStep, CalmStep DEF WebInv
<1> QED
  BY InitInv, <1>1, PTL DEF Spec

(* A step that fails the answer of a flight is an answer that failed.        *)
LEMMA Failing ==
    ASSUME WebInv, [Next]_vars, NEW c \in Call, call[c] = "waiting", call'[c] = "failed"
    PROVE  trouble' = "mishap" \/ \E f \in Flight : Denied(f) /\ Flying(f)
<1> USE DEF WebInv
<1>1. ASSUME NEW f \in Flight, Granted(f) PROVE FALSE
  BY <1>1 DEF Granted, Settle, TypeOK
<1>2. ASSUME NEW f \in Flight, Lost(f) PROVE trouble' = "mishap"
  BY <1>2 DEF Lost
<1>3. ASSUME NEW f \in Flight, Denied(f) PROVE Flying(f)
  BY <1>3 DEF Denied, Flying
<1>5. ASSUME NEW f \in Flight, Select(f) \/ Revoke(f) \/ Issue(f) \/ Wipe(f) PROVE FALSE
  BY <1>5 DEF Select, Revoke, Issue, Wipe, ServerStep
<1>6. ASSUME NEW d \in Call, Send(d) \/ Unauthorized(d) PROVE FALSE
  BY <1>6 DEF Send, Unauthorized, TypeOK
<1>7. ASSUME NEW a \in Tab, Reload(a) PROVE FALSE
  BY <1>7 DEF Reload, TypeOK
<1>8. ASSUME NEW a \in Tab, AccessExpires(a) \/ Mount(a) \/ LoginSend(a) \/ LoginAnswer(a)
                \/ LoginFails(a) \/ LogoutSend(a) \/ LogoutAnswer(a)
                \/ \E r \in {"admin", "login"} : Visit(a, r)
      PROVE  FALSE
  BY <1>8 DEF AccessExpires, Mount, LoginSend, LoginAnswer, LoginFails, LogoutSend,
              LogoutAnswer, Visit
<1>9. CASE SessionEnds
  BY <1>9 DEF SessionEnds
<1>10. CASE UNCHANGED vars
  BY <1>10 DEF vars
<1> QED
  BY <1>1, <1>2, <1>3, <1>5, <1>6, <1>7, <1>8, <1>9, <1>10 DEF Next, Answers

(* While calm no flight is denied.                                           *)
LEMMA NotDeniedWhileCalm ==
    ASSUME WebInv, NEW f \in Flight, Denied(f), Flying(f)
    PROVE  trouble' # "calm"
BY CalmFlight DEF WebInv, Denied

(* For any number of tabs, calls and tokens: a call whose 401 finds nothing  *)
(* lost, no other tab and no second refresh in between is replayed           *)
(* successfully (use-api.ts:34-55, useApi.ts:41-53).                         *)
THEOREM CallsSucceed == Spec => CallsSucceedWhileCalm
<1>1. WebInv /\ [Next]_vars =>
      [\A c \in Call : call[c] = "waiting" /\ call'[c] = "failed" => trouble' # "calm"]_vars
  BY Failing, NotDeniedWhileCalm
<1> QED
  BY <1>1, WebInvariance, PTL DEF Spec, CallsSucceedWhileCalm

(* Where every tab runs the Next front end, sharing the refresh makes it     *)
(* transparent for any number of calls at once (auth-api.ts:161-173).        *)
THEOREM SharingIsTransparent == NextTab = Tab => (Spec => TransparentRefresh)
<1> SUFFICES ASSUME NextTab = Tab PROVE Spec => TransparentRefresh
  OBVIOUS
<1>1. WebInv /\ [Next]_vars =>
      [\A c \in Call : call[c] = "waiting" /\ call'[c] = "failed" => trouble' = "mishap"]_vars
  <2> SUFFICES ASSUME WebInv, [Next]_vars, NEW c \in Call,
                      call[c] = "waiting", call'[c] = "failed", trouble' # "mishap"
               PROVE  FALSE
    OBVIOUS
  <2>1. PICK f \in Flight : Denied(f) /\ Flying(f)
    BY Failing
  <2>2. trouble' \in {"calm", "parallel"} /\ trouble' # "parallel"
    BY TypeStep, SharedStep DEF WebInv, TypeOK, SharedOK
  <2> QED
    BY <2>1, <2>2, NotDeniedWhileCalm
<1> QED
  BY <1>1, WebInvariance, PTL DEF Spec, TransparentRefresh

(* While calm, no refresh of a guard or of a call signs a tab out: only a    *)
(* reload, which forgets the token, and a logout do (auth-api.ts:132).       *)
THEOREM StaysSignedIn == Spec => SignedInStaysSignedIn
<1>1. WebInv /\ [Next]_vars =>
      [\A a \in Tab : access[a] # "none" /\ access'[a] = "none" =>
          trouble' # "calm" \/ Reload(a) \/ LogoutAnswer(a)]_vars
  <2> SUFFICES ASSUME WebInv, [Next]_vars, NEW a \in Tab,
                      access[a] # "none", access'[a] = "none", trouble' = "calm",
                      ~Reload(a), ~LogoutAnswer(a)
               PROVE  FALSE
    OBVIOUS
  <2> USE DEF WebInv
  <2>1. ASSUME NEW f \in Flight, Granted(f) PROVE FALSE
    BY <2>1 DEF Granted, Settle, TypeOK
  <2>2. ASSUME NEW f \in Flight, Denied(f) PROVE FALSE
    BY <2>2, NotDeniedWhileCalm DEF Denied, Flying
  <2>3. ASSUME NEW f \in Flight, Lost(f) \/ Select(f) \/ Revoke(f) \/ Issue(f) \/ Wipe(f)
        PROVE  FALSE
    BY <2>3 DEF Lost, Select, Revoke, Issue, Wipe, ServerStep
  <2>4. ASSUME NEW d \in Call, Send(d) \/ Unauthorized(d) PROVE FALSE
    BY <2>4 DEF Send, Unauthorized
  <2>5. ASSUME NEW b \in Tab, b # a, Reload(b) \/ LogoutAnswer(b) PROVE FALSE
    BY <2>5 DEF Reload, LogoutAnswer, TypeOK
  <2>6. ASSUME NEW b \in Tab, Mount(b) \/ LoginSend(b) \/ LoginFails(b) \/ LogoutSend(b)
                \/ \E r \in {"admin", "login"} : Visit(b, r)
        PROVE  FALSE
    BY <2>6 DEF Mount, LoginSend, LoginFails, LogoutSend, Visit
  <2>7. ASSUME NEW b \in Tab, AccessExpires(b) \/ LoginAnswer(b) PROVE FALSE
    BY <2>7, ZenonT(30) DEF AccessExpires, LoginAnswer, TypeOK
  <2>8. CASE SessionEnds
    BY <2>8 DEF SessionEnds
  <2>9. CASE UNCHANGED vars
    BY <2>9 DEF vars
  <2> QED
    BY <2>1, <2>2, <2>3, <2>4, <2>5, <2>6, <2>7, <2>8, <2>9 DEF Next, Answers
<1> QED
  BY <1>1, WebInvariance, PTL DEF Spec, SignedInStaysSignedIn

=============================================================================
