---------------------------- MODULE PortalProofs -----------------------------
(***************************************************************************)
(* Theorems about PortalPage, for any accounts, any number of sittings at  *)
(* the page and any number of requests.  The invariants are built in       *)
(* layers: the types, what a request's place says of the audit trail, what *)
(* its tab shows meanwhile, and in which sitting it was asked for.         *)
(***************************************************************************)
EXTENDS PortalPage, TLAPS

(* A request of which the audit trail knows has been sent, and how far it  *)
(* is says whether its view is recorded.                                   *)
Trailed ==
  \A f \in Fetches :
    /\ at[f] \in {"unasked", "token"} => stage[f] = "unsent"
    /\ stage[f] \in {"unsent", "gateway", "backend"} => f \notin audit
    /\ stage[f] = "viewed" => f \in audit
    /\ answer[f] = "data" => f \in audit
    /\ answer[f] = "refusal" => f \notin audit /\ stage[f] = "over"

(* Without overlapping requests a tab has one at most, and while it has,   *)
(* neither an error nor data.                                              *)
Alone ==
  \A t \in Tabs : t \notin crowded =>
    /\ \A f, g \in PendingFor(t) : f = g
    /\ PendingFor(t) # {} => ~error[t] /\ shown[t] = None
    /\ ~(error[t] /\ shown[t] # None)

(* Who sits at the page in each sitting is the one whose requests are      *)
(* made in it, and of whom they bring something.                           *)
Dated ==
  /\ account # None => session >= 1 /\ account = Sittings[session]
  /\ \A f \in Fetches : at[f] # "unasked" =>
       during[f] \in 1..session /\ by[f] = Sittings[during[f]]
  /\ \A r \in Routes : shown[r] # None => shown[r].of = Sittings[shown[r].session]
  /\ name # None => name.of = Sittings[name.session]

(* What is shown was recorded. *)
Backed ==
  \A r \in Routes : shown[r] # None =>
    \E f \in audit : route[f] = r /\ by[f] = shown[r].of

-----------------------------------------------------------------------------
(* Asking is recorded under the next number. *)
LEMMA Asked ==
  ASSUME TypeOK, NEW r \in Routes, NEW who \in Accounts,
         NEW n \in 1..Len(Sittings), Ask(r, who, n)
  PROVE  /\ asked + 1 \in Fetches /\ at[asked + 1] = "unasked"
         /\ asked' \in 0..MaxFetches
         /\ at' \in [Fetches -> {"unasked", "token", "sent", "ended"}]
         /\ route' \in [Fetches -> Routes \cup {None}]
         /\ by' \in [Fetches -> Accounts \cup {None}]
         /\ during' \in [Fetches -> 0..Len(Sittings)]
         /\ \A f \in Fetches :
              /\ at'[f] = "unasked" <=> f > asked'
              /\ at'[f] # "unasked" => by'[f] \in Accounts /\ during'[f] >= 1 /\ route'[f] \in Routes
              /\ f # asked + 1 =>
                   at'[f] = at[f] /\ route'[f] = route[f] /\ by'[f] = by[f] /\ during'[f] = during[f]
         /\ at'[asked + 1] = "token" /\ route'[asked + 1] = r
         /\ by'[asked + 1] = who /\ during'[asked + 1] = n
<1> USE PageAssumption DEF Ask, TypeOK, Fetches, Routes
<1>1. asked + 1 \in Fetches /\ at[asked + 1] = "unasked"
  OBVIOUS
<1>2. Len(Sittings) \in Nat
  OBVIOUS
<1>3. n \in 0..Len(Sittings)
  BY <1>2
<1>4. /\ at' \in [Fetches -> {"unasked", "token", "sent", "ended"}]
      /\ route' \in [Fetches -> Routes \cup {None}]
      /\ by' \in [Fetches -> Accounts \cup {None}]
      /\ during' \in [Fetches -> 0..Len(Sittings)]
  BY <1>1, <1>3
<1>5. \A f \in Fetches : f # asked + 1 =>
        at'[f] = at[f] /\ route'[f] = route[f] /\ by'[f] = by[f] /\ during'[f] = during[f]
  BY <1>1
<1>6. at'[asked + 1] = "token" /\ route'[asked + 1] = r
      /\ by'[asked + 1] = who /\ during'[asked + 1] = n
  BY <1>1
<1>7. \A f \in Fetches : at'[f] = "unasked" <=> f > asked'
  BY <1>1, <1>5, <1>6
<1>8. \A f \in Fetches :
        at'[f] # "unasked" => by'[f] \in Accounts /\ during'[f] >= 1 /\ route'[f] \in Routes
  BY <1>1, <1>5, <1>6
<1> QED BY <1>1, <1>4, <1>5, <1>6, <1>7, <1>8

(* A tab is no route besides its own, and None no record. *)
LEMMA Names == Tabs \subseteq Routes /\ "me" \in Routes /\ None \notin Origin
BY PageAssumption DEF Tabs, Routes, Origin

(* What a request does with its answer is typed. *)
LEMMA Ended ==
  ASSUME TypeOK, NEW f \in Fetches, at[f] \in {"token", "sent"}, End(f)
  PROVE  /\ at' = [at EXCEPT ![f] = "ended"]
         /\ at' \in [Fetches -> {"unasked", "token", "sent", "ended"}]
         /\ route' = route /\ by' = by /\ asked' = asked /\ during' = during
         /\ crowded' = crowded
         /\ route[f] \in Routes /\ by[f] \in Accounts /\ during[f] \in 1..Len(Sittings)
         /\ \A g \in Fetches :
              /\ at'[g] = "unasked" <=> g > asked
              /\ at'[g] # "unasked" => at[g] # "unasked"
              /\ Pending(g)' <=> Pending(g) /\ g # f
<1> USE DEF End, TypeOK, Pending
<1>1. /\ at' = [at EXCEPT ![f] = "ended"]
      /\ at' \in [Fetches -> {"unasked", "token", "sent", "ended"}]
      /\ route' = route /\ by' = by /\ asked' = asked /\ during' = during
      /\ crowded' = crowded
  OBVIOUS
<1>2. route[f] \in Routes /\ by[f] \in Accounts /\ during[f] >= 1 /\ during[f] \in 0..Len(Sittings)
  OBVIOUS
<1>3. during[f] \in 1..Len(Sittings)
  BY <1>2, PageAssumption
<1>4. \A g \in Fetches :
              /\ at'[g] = "unasked" <=> g > asked
              /\ at'[g] # "unasked" => at[g] # "unasked"
              /\ Pending(g)' <=> Pending(g) /\ g # f
  BY <1>1
<1> QED BY <1>1, <1>2, <1>3, <1>4

-----------------------------------------------------------------------------
(* Somebody who is signed in sits at the page. *)
Typed == TypeOK /\ (account # None => session >= 1)

LEMMA TypeInit == Init => Typed
<1> SUFFICES ASSUME Init PROVE Typed
  OBVIOUS
<1>1. Len(Sittings) \in Nat
  BY PageAssumption
<1> QED
  BY <1>1, PageAssumption
     DEF Init, GatewayInit, Blank, Typed, TypeOK, GatewayTypeOK, Fetches, Routes, Tabs

LEMMA GatewayTypes ==
  ASSUME GatewayTypeOK, NEW f \in Fetches,
         Send(f) \/ Serve(f) \/ GiveUp(f) \/ UNCHANGED gateway
  PROVE  GatewayTypeOK'
BY DEF GatewayTypeOK, Send, Serve, GiveUp, TurnAway, Forward, Refuse, View, Reply, Die, Answered,
   gateway

(* The effect that runs again asks like the one of a sign-in. *)
LEMMA AgainAsks ==
  ASSUME Typed, AskAgain
  PROVE  account \in Accounts /\ session \in 1..Len(Sittings) /\ "me" \in Routes
BY PageAssumption DEF AskAgain, Typed, TypeOK, Routes

LEMMA TypeNext == Typed /\ [Next]_vars => Typed'
<1> SUFFICES ASSUME Typed, [Next]_vars PROVE Typed'
  OBVIOUS
<1>s. TypeOK /\ Len(Sittings) \in Nat /\ GatewayTypeOK /\ (account # None => session >= 1)
  BY PageAssumption DEF Typed, TypeOK
<1>g. UNCHANGED gateway => GatewayTypeOK'
  BY <1>s DEF GatewayTypeOK, gateway
<1>1. CASE UNCHANGED vars
  BY <1>1, <1>g, <1>s DEF Typed, TypeOK, vars, signedIn, screen, code
<1>2. CASE SignIn
  <2>1. session' \in 1..Len(Sittings) /\ account' \in Accounts
    BY <1>2, <1>s, PageAssumption DEF TypeOK, SignIn
  <2>2. "me" \in Routes /\ Ask("me", account', session')
    BY <1>2 DEF Routes, SignIn
  <2>3. session' \in 0..Len(Sittings)
    BY <2>1, <1>s
  <2>4. UNCHANGED <<gateway, view, shown, name, loading, error, crowded>>
    BY <1>2 DEF SignIn, screen
  <2> QED BY <2>1, <2>2, <2>3, <2>4, <1>g, <1>s, Asked DEF Typed, TypeOK
<1>m. CASE AskAgain
  <2>1. UNCHANGED <<gateway, account, session, view, shown, name, loading, error, crowded>>
    BY <1>m DEF AskAgain, signedIn, screen
  <2> QED BY <1>m, <2>1, <1>g, <1>s, AgainAsks, Asked DEF AskAgain, Typed, TypeOK
<1>3. CASE SignOut
  BY <1>3, <1>g, <1>s DEF SignOut, Typed, TypeOK, screen, code
<1>4. ASSUME NEW t \in Tabs, Show(t) PROVE Typed'
  <2>1. account \in Accounts /\ Ask(t, account, session) /\ t \in Routes
    BY <1>4, <1>s, Names DEF Show, TypeOK
  <2>2. session \in 1..Len(Sittings)
    BY <1>4, <1>s DEF Show, TypeOK
  <2>3. crowded' \subseteq Tabs /\ error' \in [Tabs -> BOOLEAN] /\ loading' \in [Tabs -> BOOLEAN]
    BY <1>4, <1>s DEF Show, TypeOK
  <2>4. view' \in Tabs \cup {"dashboard"} /\ UNCHANGED <<gateway, account, session, shown, name>>
    BY <1>4 DEF Show, signedIn
  <2> QED BY <2>1, <2>2, <2>3, <2>4, <1>g, <1>s, Asked DEF Typed, TypeOK
<1>5. ASSUME NEW t \in Tabs, Return(t) PROVE Typed'
  BY <1>5, <1>g, <1>s DEF Return, Typed, TypeOK, signedIn, code
<1>6. CASE Dashboard
  BY <1>6, <1>g, <1>s DEF Dashboard, Typed, TypeOK, signedIn, code
<1>7. ASSUME NEW f \in Fetches, GetToken(f) PROVE Typed'
  <2>1. GatewayTypeOK'
    BY <1>7, <1>s, GatewayTypes DEF GetToken
  <2> QED BY <1>7, <2>1, <1>s DEF GetToken, Typed, TypeOK, signedIn, screen
<1>8. ASSUME NEW f \in Fetches, GetNoToken(f) \/ ArriveError(f) PROVE Typed'
  <2>1. End(f) /\ Disappoint(f) /\ at[f] \in {"token", "sent"} /\ UNCHANGED <<gateway, signedIn>>
    BY <1>8 DEF GetNoToken, ArriveError, Disappoint
  <2>2. /\ error' \in [Tabs -> BOOLEAN] /\ loading' \in [Tabs -> BOOLEAN]
        /\ UNCHANGED <<view, shown, name>>
    BY <2>1, <1>s DEF Disappoint, TypeOK
  <2> QED BY <2>1, <2>2, <1>g, <1>s, Ended DEF Typed, TypeOK, signedIn
<1>9. ASSUME NEW f \in Fetches, ArriveData(f) PROVE Typed'
  <2>1. End(f) /\ at[f] \in {"token", "sent"} /\ UNCHANGED <<gateway, signedIn, view, error>>
    BY <1>9 DEF ArriveData
  <2>2. [of |-> by[f], session |-> during[f]] \in Origin
    BY <2>1, <1>s, Ended DEF Origin
  <2>3. /\ shown' \in [Routes -> Origin \cup {None}] /\ name' \in Origin \cup {None}
        /\ loading' \in [Tabs -> BOOLEAN]
    BY <1>9, <2>2, <1>s DEF ArriveData, TypeOK
  <2> QED BY <2>1, <2>3, <1>g, <1>s, Ended DEF Typed, TypeOK, signedIn
<1>10. ASSUME NEW f \in Fetches, Travel(f) PROVE Typed'
  <2>1. GatewayTypeOK'
    BY <1>10, <1>s, GatewayTypes DEF Travel
  <2> QED BY <1>10, <2>1, <1>s DEF Travel, Typed, TypeOK, signedIn, screen, code
<1> QED
  BY <1>1, <1>2, <1>m, <1>3, <1>4, <1>5, <1>6, <1>7, <1>8, <1>9, <1>10 DEF Next, User, Finished, Proceed

(* The state of the page, of its requests and of the gateway have their    *)
(* types whatever overlaps.                                                *)
THEOREM TypesOfPage == Spec => []TypeOK
<1>1. Spec => []Typed
  BY TypeInit, TypeNext, PTL DEF Spec
<1> QED BY <1>1, PTL DEF Typed

(* The types with what they rest on, for the proofs below.                 *)
LEMMA PageTyped == Spec => []Typed
BY TypeInit, TypeNext, PTL DEF Spec
-----------------------------------------------------------------------------
(* The steps of one request, as they move it on.                           *)
LEMMA TrailNext == Typed /\ Trailed /\ [Next]_vars => Trailed'
<1> SUFFICES ASSUME Typed, Trailed, [Next]_vars PROVE Trailed'
  OBVIOUS
<1>s. TypeOK /\ GatewayTypeOK
  BY DEF Typed, TypeOK
<1>1. CASE UNCHANGED vars
  BY <1>1 DEF Trailed, vars, gateway, code
<1>2. ASSUME NEW r \in Routes, NEW who \in Accounts, NEW n \in 1..Len(Sittings),
             Ask(r, who, n), UNCHANGED gateway
      PROVE  Trailed'
  BY <1>2, <1>s, Asked DEF Trailed, gateway
<1>3. CASE SignIn
  <2>1. session' \in 1..Len(Sittings) /\ account' \in Accounts
    BY <1>3, <1>s, PageAssumption DEF TypeOK, SignIn
  <2> QED BY <1>2, <1>3, <2>1 DEF SignIn, Routes
<1>m. CASE AskAgain
  BY <1>2, <1>m, AgainAsks DEF AskAgain
<1>4. ASSUME NEW t \in Tabs, Show(t) PROVE Trailed'
  <2>1. account \in Accounts /\ session \in 1..Len(Sittings)
    BY <1>4, PageAssumption DEF Show, Typed, TypeOK
  <2> QED BY <1>2, <1>4, <2>1, Names DEF Show
<1>5. ASSUME SignOut \/ Dashboard \/ (\E t \in Tabs : Return(t)) PROVE Trailed'
  BY <1>5 DEF SignOut, Dashboard, Return, Trailed, gateway, code
<1>6. ASSUME NEW f \in Fetches, GetToken(f) PROVE Trailed'
  BY <1>6, <1>s DEF GetToken, Send, Trailed, TypeOK, GatewayTypeOK
<1>7. ASSUME NEW f \in Fetches, GetNoToken(f) \/ ArriveError(f) \/ ArriveData(f) PROVE Trailed'
  <2>1. End(f) /\ at[f] \in {"token", "sent"} /\ UNCHANGED gateway
    BY <1>7 DEF GetNoToken, ArriveError, ArriveData, Disappoint
  <2> QED BY <2>1, <1>s, Ended DEF Trailed, gateway, TypeOK
<1>8. ASSUME NEW f \in Fetches, Travel(f) PROVE Trailed'
  <2> USE <1>s DEF Travel, code, Trailed, GatewayTypeOK
  <2>1. CASE TurnAway(f) \/ Forward(f)
    BY <2>1, <1>8 DEF TurnAway, Forward, Answered
  <2>2. CASE GiveUp(f) \/ Refuse(f)
    BY <2>2, <1>8 DEF GiveUp, Refuse, Answered
  <2>3. CASE View(f)
    BY <2>3, <1>8 DEF View
  <2>4. CASE Reply(f) \/ Die(f)
    BY <2>4, <1>8 DEF Reply, Die, Answered
  <2> QED BY <1>8, <2>1, <2>2, <2>3, <2>4 DEF Serve
<1> QED
  BY <1>1, <1>3, <1>m, <1>4, <1>5, <1>6, <1>7, <1>8 DEF Next, User, Finished, Proceed

(* The audit trail and the places of the requests agree.                   *)
LEMMA PageTrailed == Spec => []Trailed
<1>1. Init => Trailed
  BY DEF Init, GatewayInit, Trailed
<1> QED BY <1>1, PageTyped, TrailNext, PTL DEF Spec

(* Data reach the browser only of a recorded view, and refusals only of    *)
(* one that is not, for any interleaving of nginx and the backend.         *)
THEOREM AnswersAreRecorded == Spec => []AuditMeansAnswered
<1>1. Trailed => AuditMeansAnswered
  BY DEF Trailed, AuditMeansAnswered
<1> QED BY <1>1, PageTrailed, PTL
-----------------------------------------------------------------------------
(* Which requests are pending after a step. *)
LEMMA AskPends ==
  ASSUME TypeOK, NEW r \in Routes, NEW who \in Accounts,
         NEW n \in 1..Len(Sittings), Ask(r, who, n), NEW t \in Routes
  PROVE  PendingFor(t)' = IF t = r THEN PendingFor(t) \cup {asked + 1} ELSE PendingFor(t)
BY Asked DEF PendingFor, Pending

LEMMA EndPends ==
  ASSUME TypeOK, NEW f \in Fetches, at[f] \in {"token", "sent"}, End(f), NEW t \in Routes
  PROVE  /\ PendingFor(t)' = PendingFor(t) \ {f}
         /\ f \in PendingFor(t) <=> t = route[f]
BY Ended DEF PendingFor, Pending

LEMMA KeepPends ==
  ASSUME UNCHANGED code, NEW t \in Routes
  PROVE  PendingFor(t)' = PendingFor(t)
BY DEF PendingFor, Pending, code

LEMMA TokenPends ==
  ASSUME TypeOK, NEW f \in Fetches, GetToken(f), NEW t \in Routes
  PROVE  PendingFor(t)' = PendingFor(t)
BY DEF PendingFor, Pending, GetToken, TypeOK

LEMMA AloneNext == Typed /\ Alone /\ [Next]_vars => Alone'
<1> SUFFICES ASSUME Typed, Alone, [Next]_vars PROVE Alone'
  OBVIOUS
<1>s. TypeOK /\ Tabs \subseteq Routes
  BY Names DEF Typed
<1>1. ASSUME UNCHANGED code, UNCHANGED <<shown, error>> PROVE Alone'
  BY <1>1, <1>s, KeepPends DEF Alone, code
<1>2. CASE SignIn
  <2>1. session' \in 1..Len(Sittings) /\ account' \in Accounts /\ "me" \in Routes
    BY <1>2, <1>s, PageAssumption DEF TypeOK, SignIn, Routes
  <2>2. \A t \in Tabs : PendingFor(t)' = PendingFor(t)
    BY <1>2, <1>s, <2>1, AskPends DEF SignIn, Tabs
  <2> QED BY <1>2, <2>2 DEF Alone, SignIn, screen
<1>m. CASE AskAgain
  <2>1. \A t \in Tabs : PendingFor(t)' = PendingFor(t)
    BY <1>m, <1>s, AgainAsks, AskPends DEF AskAgain, Tabs
  <2> QED BY <1>m, <2>1 DEF Alone, AskAgain, screen
<1>3. ASSUME NEW t \in Tabs, Show(t) PROVE Alone'
  <2>1. account \in Accounts /\ session \in 1..Len(Sittings)
    BY <1>3, PageAssumption DEF Show, Typed, TypeOK
  <2>2. \A u \in Tabs :
          PendingFor(u)' = IF u = t THEN PendingFor(u) \cup {asked + 1} ELSE PendingFor(u)
    BY <1>3, <1>s, <2>1, AskPends DEF Show
  <2>3. shown' = shown /\ shown[t] = None /\ ~error'[t] /\ (\A u \in Tabs : u # t => error'[u] = error[u])
    BY <1>3, <1>s DEF Show, TypeOK
  <2>4. \A u \in Tabs : u \notin crowded' => u \notin crowded /\ (u = t => PendingFor(u) = {})
    BY <1>3 DEF Show
  <2> QED BY <2>2, <2>3, <2>4 DEF Alone
<1>4. ASSUME NEW t \in Tabs, Return(t) PROVE Alone'
  <2>1. UNCHANGED <<code, shown>> /\ \A u \in Tabs : error'[u] => error[u]
    BY <1>4, <1>s DEF Return, TypeOK
  <2> QED BY <2>1, <1>s, KeepPends DEF Alone, code
<1>5. ASSUME NEW f \in Fetches, GetToken(f) PROVE Alone'
  <2>1. \A t \in Tabs : PendingFor(t)' = PendingFor(t)
    BY <1>5, <1>s, TokenPends
  <2> QED BY <1>5, <2>1 DEF Alone, GetToken, screen
<1>6. ASSUME NEW f \in Fetches, GetNoToken(f) \/ ArriveError(f) \/ ArriveData(f) PROVE Alone'
  <2>1. End(f) /\ at[f] \in {"token", "sent"}
    BY <1>6 DEF GetNoToken, ArriveError, ArriveData, Disappoint
  <2>2. \A t \in Tabs : /\ PendingFor(t)' = PendingFor(t) \ {f}
                        /\ f \in PendingFor(t) <=> t = route[f]
    BY <1>s, <2>1, EndPends
  <2>3. \A t \in Tabs : t # route[f] => error'[t] = error[t] /\ shown'[t] = shown[t]
    BY <1>6, <1>s, <2>1, Ended DEF GetNoToken, ArriveError, ArriveData, Disappoint, TypeOK
  <2>4. route[f] \in Tabs => error'[route[f]] = error[route[f]] \/ shown'[route[f]] = shown[route[f]]
    BY <1>6 DEF GetNoToken, ArriveError, ArriveData, Disappoint
  <2>5. crowded' = crowded
    BY <1>s, <2>1, Ended
  <2>6. \A t \in Tabs : t # route[f] => PendingFor(t)' = PendingFor(t)
    BY <2>2
  <2>7. ASSUME NEW t \in Tabs, t = route[f], t \notin crowded
        PROVE  PendingFor(t)' = {} /\ ~error[t] /\ shown[t] = None
    <3>1. f \in PendingFor(t) /\ PendingFor(t)' = PendingFor(t) \ {f}
      BY <2>2, <2>7
    <3>2. \A g \in PendingFor(t) : g = f
      BY <3>1, <2>7 DEF Alone
    <3> QED BY <3>1, <3>2, <2>7 DEF Alone
  <2> QED
    <3> SUFFICES ASSUME NEW t \in Tabs, t \notin crowded
                 PROVE  /\ \A g, h \in PendingFor(t)' : g = h
                        /\ PendingFor(t)' # {} => ~error'[t] /\ shown'[t] = None
                        /\ ~(error'[t] /\ shown'[t] # None)
      BY <2>5 DEF Alone
    <3>1. CASE t = route[f]
      <4>1. PendingFor(t)' = {} /\ ~error[t] /\ shown[t] = None
        BY <3>1, <2>7
      <4>2. error'[t] = error[t] \/ shown'[t] = shown[t]
        BY <3>1, <2>4
      <4> QED BY <4>1, <4>2
    <3>2. CASE t # route[f]
      BY <3>2, <2>3, <2>6 DEF Alone
    <3> QED BY <3>1, <3>2
<1>7. UNCHANGED vars \/ SignOut \/ Dashboard \/ (\E f \in Fetches : Travel(f)) =>
        UNCHANGED code /\ UNCHANGED <<shown, error>>
  BY DEF vars, SignOut, Dashboard, Travel, screen
<1> QED
  BY <1>1, <1>2, <1>m, <1>3, <1>4, <1>5, <1>6, <1>7 DEF Next, User, Finished, Proceed

(* An error beside data means overlapping requests for the tab, for any    *)
(* number of them.                                                         *)
THEOREM ErrorsBesideDataAreCrowds == Spec => []ErrorBesideDataNeedsCrowd
<1>1. Init => Alone
  BY Names DEF Init, Blank, Alone, PendingFor, Pending
<1>2. Alone => ErrorBesideDataNeedsCrowd
  BY DEF Alone, ErrorBesideDataNeedsCrowd
<1> QED BY <1>1, <1>2, PageTyped, AloneNext, PTL DEF Spec
-----------------------------------------------------------------------------
LEMMA ShowingNext == Typed /\ NeverBlank /\ [Next]_vars => NeverBlank'
<1> SUFFICES ASSUME Typed, NeverBlank, [Next]_vars PROVE NeverBlank'
  OBVIOUS
<1>s. TypeOK /\ Tabs \subseteq Routes
  BY Names DEF Typed
<1>1. ASSUME UNCHANGED <<code, shown, loading, error>>, view' \in {view, "dashboard"}
      PROVE  NeverBlank'
  BY <1>1, <1>s, KeepPends DEF NeverBlank, Tabs, code
<1>2. CASE SignIn
  <2>1. session' \in 1..Len(Sittings) /\ account' \in Accounts /\ "me" \in Routes
    BY <1>2, <1>s, PageAssumption DEF TypeOK, SignIn, Routes
  <2>2. \A t \in Tabs : PendingFor(t)' = PendingFor(t)
    BY <1>2, <1>s, <2>1, AskPends DEF SignIn, Tabs
  <2> QED BY <1>2, <2>2 DEF NeverBlank, SignIn, screen
<1>m. CASE AskAgain
  <2>1. \A t \in Tabs : PendingFor(t)' = PendingFor(t)
    BY <1>m, <1>s, AgainAsks, AskPends DEF AskAgain, Tabs
  <2> QED BY <1>m, <2>1 DEF NeverBlank, AskAgain, screen
<1>3. ASSUME NEW t \in Tabs, Show(t) PROVE NeverBlank'
  <2>1. account \in Accounts /\ session \in 1..Len(Sittings)
    BY <1>3, PageAssumption DEF Show, Typed, TypeOK
  <2>2. \A u \in Tabs :
          PendingFor(u)' = IF u = t THEN PendingFor(u) \cup {asked + 1} ELSE PendingFor(u)
    BY <1>3, <1>s, <2>1, AskPends DEF Show
  <2>3. /\ view' = t /\ loading'[t]
        /\ \A u \in Tabs : u # t => loading'[u] = loading[u]
    BY <1>3, <1>s DEF Show, TypeOK
  <2> QED BY <2>2, <2>3 DEF NeverBlank
<1>4. ASSUME NEW t \in Tabs, Return(t) PROVE NeverBlank'
  <2>1. UNCHANGED <<code, shown, loading>> /\ view' = t /\ shown[t] # None
    BY <1>4 DEF Return
  <2> QED BY <2>1, <1>s, KeepPends DEF NeverBlank, code
<1>5. ASSUME NEW f \in Fetches, GetToken(f) PROVE NeverBlank'
  <2>1. \A t \in Tabs : PendingFor(t)' = PendingFor(t)
    BY <1>5, <1>s, TokenPends
  <2> QED BY <1>5, <2>1 DEF NeverBlank, GetToken, screen
<1>6. ASSUME NEW f \in Fetches, GetNoToken(f) \/ ArriveError(f) \/ ArriveData(f) PROVE NeverBlank'
  <2>1. End(f) /\ at[f] \in {"token", "sent"}
    BY <1>6 DEF GetNoToken, ArriveError, ArriveData, Disappoint
  <2>2. \A t \in Tabs : /\ PendingFor(t)' = PendingFor(t) \ {f}
                        /\ f \in PendingFor(t) <=> t = route[f]
    BY <1>s, <2>1, EndPends
  <2>3. \A t \in Tabs : t # route[f] =>
          error'[t] = error[t] /\ shown'[t] = shown[t] /\ loading'[t] = loading[t]
    <3>1. CASE Disappoint(f)
      BY <3>1, <1>s DEF Disappoint, TypeOK
    <3>2. CASE ArriveData(f)
      BY <3>2, <1>s DEF ArriveData, TypeOK
    <3> QED BY <1>6, <3>1, <3>2 DEF GetNoToken, ArriveError
  <2>4. \A t \in Tabs : t = route[f] => ~loading'[t] /\ (error'[t] \/ shown'[t] # None)
    <3>1. ASSUME Disappoint(f), NEW t \in Tabs, t = route[f] PROVE ~loading'[t] /\ error'[t]
      BY <3>1, <1>s DEF Disappoint, TypeOK
    <3>2. ASSUME ArriveData(f), NEW t \in Tabs, t = route[f] PROVE ~loading'[t] /\ shown'[t] # None
      <4>1. by[f] \in Accounts /\ during[f] \in 1..Len(Sittings)
        BY <1>s, <2>1, Ended
      <4>2. [of |-> by[f], session |-> during[f]] \in Origin
        BY <4>1 DEF Origin
      <4> QED BY <3>2, <4>2, <1>s, Names DEF ArriveData, TypeOK
    <3> QED BY <1>6, <3>1, <3>2 DEF GetNoToken, ArriveError
  <2>5. view' = view
    BY <1>6 DEF GetNoToken, ArriveError, ArriveData, Disappoint
  <2>6. \A t \in Tabs : t # route[f] => PendingFor(t)' = PendingFor(t)
    BY <2>2
  <2>7. \A t \in Tabs : loading'[t] => PendingFor(t)' # {}
    BY <2>3, <2>4, <2>6 DEF NeverBlank
  <2>8. view \in Tabs => loading'[view] \/ error'[view] \/ shown'[view] # None
    BY <2>3, <2>4 DEF NeverBlank
  <2> QED BY <2>5, <2>7, <2>8 DEF NeverBlank
<1>7. UNCHANGED vars \/ SignOut \/ Dashboard \/ (\E f \in Fetches : Travel(f)) =>
        UNCHANGED <<code, shown, loading, error>> /\ view' \in {view, "dashboard"}
  BY DEF vars, SignOut, Dashboard, Travel, screen
<1> QED
  BY <1>1, <1>2, <1>m, <1>3, <1>4, <1>5, <1>6, <1>7 DEF Next, User, Finished, Proceed

(* No tab is ever blank, and every spinner stands for a request, for any   *)
(* number of requests.                                                     *)
THEOREM TabsAreNeverBlank == Spec => []NeverBlank
<1>1. Init => NeverBlank
  BY DEF Init, Blank, NeverBlank, Tabs
<1> QED BY <1>1, PageTyped, ShowingNext, PTL DEF Spec
-----------------------------------------------------------------------------
LEMMA DatedNext == Typed /\ Dated /\ [Next]_vars => Dated'
<1> SUFFICES ASSUME Typed, Dated, [Next]_vars PROVE Dated'
  OBVIOUS
<1>s. TypeOK /\ Len(Sittings) \in Nat /\ session \in Nat
  BY PageAssumption DEF Typed, TypeOK
<1>1. CASE UNCHANGED vars
  BY <1>1 DEF Dated, vars, signedIn, screen, code
<1>2. CASE SignIn
  <2>1. session' \in 1..Len(Sittings) /\ account' \in Accounts /\ "me" \in Routes
    BY <1>2, <1>s, PageAssumption DEF TypeOK, SignIn, Routes
  <2>2. session' = session + 1 /\ account' = Sittings[session'] /\ UNCHANGED screen
    BY <1>2 DEF SignIn
  <2>3. \A f \in Fetches : at'[f] # "unasked" =>
          during'[f] \in 1..session' /\ by'[f] = Sittings[during'[f]]
    <3> SUFFICES ASSUME NEW f \in Fetches, at'[f] # "unasked"
                 PROVE  during'[f] \in 1..session' /\ by'[f] = Sittings[during'[f]]
      OBVIOUS
    <3>1. Ask("me", account', session')
      BY <1>2 DEF SignIn
    <3>2. CASE f = asked + 1
      BY <3>1, <3>2, <2>1, <2>2, <1>s, Asked
    <3>3. CASE f # asked + 1
      <4>1. at[f] # "unasked" /\ during'[f] = during[f] /\ by'[f] = by[f]
        BY <3>1, <3>3, <2>1, <1>s, Asked
      <4> QED BY <4>1, <2>2, <1>s DEF Dated
    <3> QED BY <3>2, <3>3
  <2> QED BY <2>1, <2>2, <2>3 DEF Dated, screen
<1>m. CASE AskAgain
  <2>1. \A f \in Fetches : at'[f] # "unasked" =>
          during'[f] \in 1..session /\ by'[f] = Sittings[during'[f]]
    <3> SUFFICES ASSUME NEW f \in Fetches, at'[f] # "unasked"
                 PROVE  during'[f] \in 1..session /\ by'[f] = Sittings[during'[f]]
      OBVIOUS
    <3>1. Ask("me", account, session) /\ account # None
      BY <1>m DEF AskAgain
    <3>2. CASE f = asked + 1
      BY <3>1, <3>2, <1>m, <1>s, AgainAsks, Asked DEF Dated
    <3>3. CASE f # asked + 1
      BY <3>1, <3>3, <1>m, <1>s, AgainAsks, Asked DEF Dated
    <3> QED BY <3>2, <3>3
  <2> QED BY <1>m, <2>1 DEF Dated, AskAgain, signedIn, screen
<1>3. CASE SignOut
  BY <1>3 DEF SignOut, Dated, screen, code
<1>4. ASSUME NEW t \in Tabs, Show(t) PROVE Dated'
  <2>1. account \in Accounts /\ session \in 1..Len(Sittings) /\ t \in Routes
    BY <1>4, PageAssumption, Names DEF Show, Typed, TypeOK
  <2>2. \A f \in Fetches : at'[f] # "unasked" =>
          during'[f] \in 1..session /\ by'[f] = Sittings[during'[f]]
    <3> SUFFICES ASSUME NEW f \in Fetches, at'[f] # "unasked"
                 PROVE  during'[f] \in 1..session /\ by'[f] = Sittings[during'[f]]
      OBVIOUS
    <3>1. Ask(t, account, session) /\ account # None
      BY <1>4 DEF Show
    <3>2. CASE f = asked + 1
      BY <3>1, <3>2, <2>1, <1>s, Asked DEF Dated
    <3>3. CASE f # asked + 1
      BY <3>1, <3>3, <2>1, <1>s, Asked DEF Dated
    <3> QED BY <3>2, <3>3
  <2> QED BY <1>4, <2>2 DEF Dated, Show, signedIn
<1>5. ASSUME Dashboard \/ (\E t \in Tabs : Return(t)) PROVE Dated'
  BY <1>5 DEF Dashboard, Return, Dated, signedIn, code
<1>6. ASSUME NEW f \in Fetches, GetToken(f) PROVE Dated'
  BY <1>6, <1>s DEF GetToken, Dated, TypeOK, signedIn, screen
<1>7. ASSUME NEW f \in Fetches, GetNoToken(f) \/ ArriveError(f) \/ ArriveData(f) PROVE Dated'
  <2>1. End(f) /\ at[f] \in {"token", "sent"} /\ UNCHANGED signedIn
    BY <1>7 DEF GetNoToken, ArriveError, ArriveData, Disappoint
  <2>2. /\ during[f] \in 1..session /\ by[f] = Sittings[during[f]]
        /\ \A g \in Fetches : at'[g] # "unasked" => at[g] # "unasked"
        /\ during' = during /\ by' = by
    BY <2>1, <1>s, Ended DEF Dated
  <2>3. \A r \in Routes : shown'[r] # None => shown'[r].of = Sittings[shown'[r].session]
    BY <1>7, <2>2, <1>s DEF GetNoToken, ArriveError, ArriveData, Disappoint, TypeOK, Dated
  <2>4. name' # None => name'.of = Sittings[name'.session]
    BY <1>7, <2>2 DEF GetNoToken, ArriveError, ArriveData, Disappoint, Dated
  <2> QED BY <2>1, <2>2, <2>3, <2>4 DEF Dated, signedIn
<1>8. ASSUME NEW f \in Fetches, Travel(f) PROVE Dated'
  BY <1>8 DEF Travel, Dated, signedIn, screen, code
<1> QED
  BY <1>1, <1>2, <1>m, <1>3, <1>4, <1>5, <1>6, <1>7, <1>8 DEF Next, User, Finished, Proceed

LEMMA BackedNext == Typed /\ Trailed /\ Backed /\ [Next]_vars => Backed'
<1> SUFFICES ASSUME Typed, Trailed, Backed, [Next]_vars PROVE Backed'
  OBVIOUS
<1>s. TypeOK /\ audit \subseteq Fetches
  BY DEF Typed, TypeOK, GatewayTypeOK
<1>1. ASSUME UNCHANGED <<shown, route, by>>, audit \subseteq audit' PROVE Backed'
  BY <1>1 DEF Backed
<1>2. ASSUME NEW r \in Routes, NEW who \in Accounts, NEW n \in 1..Len(Sittings),
             Ask(r, who, n), UNCHANGED <<shown, audit>>
      PROVE  Backed'
  <2>1. asked + 1 \notin audit
    BY <1>2, <1>s, Asked DEF Trailed
  <2>2. \A f \in audit : route'[f] = route[f] /\ by'[f] = by[f]
    BY <1>2, <1>s, <2>1, Asked
  <2> QED BY <1>2, <2>2 DEF Backed
<1>3. CASE SignIn
  <2>1. session' \in 1..Len(Sittings) /\ account' \in Accounts
    BY <1>3, <1>s, PageAssumption DEF TypeOK, SignIn
  <2> QED BY <1>2, <1>3, <2>1 DEF SignIn, Routes, screen, gateway
<1>m. CASE AskAgain
  BY <1>2, <1>m, AgainAsks DEF AskAgain, screen, gateway
<1>4. ASSUME NEW t \in Tabs, Show(t) PROVE Backed'
  <2>1. account \in Accounts /\ session \in 1..Len(Sittings)
    BY <1>4, PageAssumption DEF Show, Typed, TypeOK
  <2> QED BY <1>2, <1>4, <2>1, Names DEF Show, gateway
<1>5. ASSUME NEW f \in Fetches, ArriveData(f) PROVE Backed'
  <2>1. f \in audit
    BY <1>5 DEF ArriveData, Trailed
  <2>2. UNCHANGED <<audit, route, by>>
    BY <1>5 DEF ArriveData, End, gateway
  <2>3. \A r \in Routes : r # route[f] => shown'[r] = shown[r]
    BY <1>5, <1>s DEF ArriveData, TypeOK
  <2>4. route[f] \in Routes => shown'[route[f]].of = by[f]
    BY <1>5, <1>s DEF ArriveData, TypeOK
  <2> QED BY <2>1, <2>2, <2>3, <2>4 DEF Backed
<1>6. ASSUME NEW f \in Fetches, GetToken(f) \/ GetNoToken(f) \/ ArriveError(f) \/ Travel(f)
      PROVE  Backed'
  <2>1. UNCHANGED <<shown, route, by>>
    BY <1>6 DEF GetToken, GetNoToken, ArriveError, Disappoint, Travel, End, screen, code
  <2>2. audit \subseteq audit'
    BY <1>6 DEF GetToken, Send, GetNoToken, ArriveError, Travel, Serve, GiveUp, TurnAway, Forward,
       Refuse, View, Reply, Die, gateway
  <2> QED BY <1>1, <2>1, <2>2
<1>7. UNCHANGED vars \/ SignOut \/ Dashboard \/ (\E t \in Tabs : Return(t)) =>
        UNCHANGED <<shown, route, by>> /\ audit \subseteq audit'
  BY DEF vars, SignOut, Dashboard, Return, screen, code, gateway
<1> QED
  BY <1>1, <1>3, <1>m, <1>4, <1>5, <1>6, <1>7 DEF Next, User, Finished, Proceed

(* What this sitting has asked for is the person's own, however late it    *)
(* comes and whoever sat here before, and all that is shown is recorded.   *)
THEOREM LeftoversAreOld == Spec => []StrangersAreLeftovers
<1>1. Init => Dated /\ Backed
  BY DEF Init, Blank, Dated, Backed, Fetches
<1>2. Dated /\ Backed => StrangersAreLeftovers
  BY DEF Dated, Backed, StrangersAreLeftovers
<1> QED BY <1>1, <1>2, PageTyped, PageTrailed, DatedNext, BackedNext, PTL DEF Spec
-----------------------------------------------------------------------------
(* What is still ahead of a request: its code, its way through nginx and   *)
(* the route, and its answer.                                              *)
CodeLeft == [unasked |-> 3, token |-> 2, sent |-> 1, ended |-> 0]
WayLeft == [unsent |-> 4, gateway |-> 3, backend |-> 2, viewed |-> 1, over |-> 0]
AnswerLeft(f) == IF answer[f] = "none" THEN 1 ELSE 0
StepsLeft(f) == CodeLeft[at[f]] + WayLeft[stage[f]] + AnswerLeft(f)

Untouched(f) == UNCHANGED <<at[f], route[f], by[f], during[f], stage[f], answer[f]>>

(* A request that the page waits for has its answer, or is somewhere from  *)
(* where nginx answers when nobody else does.                              *)
AnswerAhead ==
  \A f \in Fetches : at[f] = "sent" =>
    answer[f] # "none" \/ stage[f] \in {"gateway", "backend", "viewed"}

(* What the browser has been answered is not taken back, nor is a record.  *)
AnswersStay ==
  /\ \A f \in Fetches : answer[f] # "none" => answer'[f] = answer[f]
  /\ audit \subseteq audit'

LEMMA WayTypes ==
  ASSUME TypeOK, NEW f \in Fetches
  PROVE  /\ CodeLeft[at[f]] \in 0..3 /\ WayLeft[stage[f]] \in 0..4 /\ AnswerLeft(f) \in 0..1
         /\ StepsLeft(f) \in 0..8
<1>1. CodeLeft[at[f]] \in 0..3 /\ WayLeft[stage[f]] \in 0..4 /\ AnswerLeft(f) \in 0..1
  BY DEF TypeOK, GatewayTypeOK, CodeLeft, WayLeft, AnswerLeft
<1> QED BY <1>1 DEF StepsLeft

LEMMA WayTypesThen ==
  ASSUME TypeOK', NEW f \in Fetches
  PROVE  CodeLeft[at'[f]] \in 0..3 /\ WayLeft[stage'[f]] \in 0..4 /\ AnswerLeft(f)' \in 0..1
BY DEF TypeOK, GatewayTypeOK, CodeLeft, WayLeft, AnswerLeft

(* A step of nginx or the route takes its request on and leaves the others.*)
LEMMA TravelFalls ==
  ASSUME TypeOK, TypeOK', NEW f \in Fetches, Travel(f)
  PROVE  /\ StepsLeft(f)' < StepsLeft(f) /\ AnswersStay
         /\ \A g \in Fetches \ {f} : Untouched(g)
<1>t. GatewayTypeOK /\ UNCHANGED code
  BY DEF TypeOK, Travel
<1>1. \A g \in Fetches \ {f} : Untouched(g)
  BY <1>t DEF Untouched, Travel, Serve, GiveUp, TurnAway, Forward, Refuse, View, Reply, Die,
     Answered, GatewayTypeOK, code
<1>2. AnswersStay
  BY <1>t DEF AnswersStay, Travel, Serve, GiveUp, TurnAway, Forward, Refuse, View, Reply, Die,
     Answered, GatewayTypeOK
<1>3. CodeLeft[at[f]]' = CodeLeft[at[f]]
  BY <1>t DEF code
<1>4. AnswerLeft(f)' <= AnswerLeft(f)
  BY <1>2 DEF AnswersStay, AnswerLeft
<1>5. CASE Serve(f)
  <2>1. WayLeft[stage[f]]' < WayLeft[stage[f]]
    BY <1>5, <1>t DEF Serve, TurnAway, Forward, Refuse, View, Reply, Die, GatewayTypeOK, WayLeft
  <2> QED BY <1>1, <1>2, <1>3, <1>4, <2>1, WayTypes, WayTypesThen DEF StepsLeft
<1>6. CASE GiveUp(f)
  <2>1. AnswerLeft(f)' < AnswerLeft(f) /\ WayLeft[stage[f]]' = WayLeft[stage[f]]
    BY <1>6, <1>t DEF GiveUp, Answered, AnswerLeft, GatewayTypeOK
  <2> QED BY <1>1, <1>2, <1>3, <2>1, WayTypes, WayTypesThen DEF StepsLeft
<1> QED BY <1>5, <1>6 DEF Travel

(* So does a step of its own code. *)
LEMMA ProceedFalls ==
  ASSUME TypeOK, TypeOK', Trailed, NEW f \in Fetches, Proceed(f)
  PROVE  /\ StepsLeft(f)' < StepsLeft(f) /\ AnswersStay
         /\ \A g \in Fetches \ {f} : Untouched(g)
<1>t. GatewayTypeOK /\ at \in [Fetches -> {"unasked", "token", "sent", "ended"}]
  BY DEF TypeOK
<1>1. \A g \in Fetches \ {f} : Untouched(g)
  BY <1>t DEF Untouched, Proceed, GetToken, Send, GetNoToken, ArriveError, ArriveData, Disappoint,
     End, GatewayTypeOK, gateway
<1>2. AnswersStay /\ UNCHANGED answer
  BY DEF AnswersStay, Proceed, GetToken, Send, GetNoToken, ArriveError, ArriveData, gateway
<1>3. CodeLeft[at[f]]' < CodeLeft[at[f]]
  BY <1>t DEF Proceed, GetToken, GetNoToken, ArriveError, ArriveData, Disappoint, End, CodeLeft
<1>4. WayLeft[stage[f]]' <= WayLeft[stage[f]]
  <2>1. CASE GetToken(f)
    BY <2>1, <1>t DEF GetToken, Send, Trailed, GatewayTypeOK, WayLeft
  <2>2. CASE UNCHANGED gateway
    BY <2>2, WayTypes DEF gateway
  <2> QED BY <2>1, <2>2 DEF Proceed, GetNoToken, ArriveError, ArriveData
<1>5. AnswerLeft(f)' = AnswerLeft(f)
  BY <1>2 DEF AnswerLeft
<1> QED BY <1>1, <1>2, <1>3, <1>4, <1>5, WayTypes, WayTypesThen DEF StepsLeft

(* To ask is a step of the new request and of no other. *)
LEMMA AskFalls ==
  ASSUME TypeOK, NEW r \in Routes, NEW who \in Accounts,
         NEW n \in 1..Len(Sittings), Ask(r, who, n), UNCHANGED gateway
  PROVE  /\ \A f \in Fetches : Untouched(f) \/ StepsLeft(f)' < StepsLeft(f)
         /\ AnswersStay
<1>1. ASSUME NEW f \in Fetches, f # asked + 1 PROVE Untouched(f)
  BY <1>1, Asked DEF Untouched, gateway
<1>2. ASSUME NEW f \in Fetches, f = asked + 1 PROVE StepsLeft(f)' < StepsLeft(f)
  <2>1. at[f] = "unasked" /\ at'[f] = "token"
    BY <1>2, Asked
  <2>2. CodeLeft[at[f]] = 3 /\ CodeLeft[at'[f]] = 2
    BY <2>1 DEF CodeLeft
  <2>3. WayLeft[stage'[f]] = WayLeft[stage[f]] /\ AnswerLeft(f)' = AnswerLeft(f)
    BY DEF gateway, AnswerLeft
  <2> QED BY <2>2, <2>3, WayTypes DEF StepsLeft
<1> QED BY <1>1, <1>2 DEF AnswersStay, gateway

LEMMA AheadNext == Typed /\ AnswerAhead /\ [Next]_vars => AnswerAhead'
<1> SUFFICES ASSUME Typed, AnswerAhead, [Next]_vars PROVE AnswerAhead'
  OBVIOUS
<1>t. TypeOK /\ GatewayTypeOK
  BY DEF Typed, TypeOK
<1>1. CASE UNCHANGED <<gateway, at>>
  BY <1>1 DEF AnswerAhead, gateway
<1>2. ASSUME NEW r \in Routes, NEW who \in Accounts, NEW n \in 1..Len(Sittings),
             Ask(r, who, n), UNCHANGED gateway
      PROVE  AnswerAhead'
  BY <1>2, <1>t, Asked DEF AnswerAhead, gateway
<1>3. CASE SignIn
  <2>1. session' \in 1..Len(Sittings) /\ account' \in Accounts
    BY <1>3, <1>t, PageAssumption DEF TypeOK, SignIn
  <2> QED BY <1>2, <1>3, <2>1 DEF SignIn, Routes
<1>m. CASE AskAgain
  BY <1>2, <1>m, AgainAsks DEF AskAgain
<1>4. ASSUME NEW t \in Tabs, Show(t) PROVE AnswerAhead'
  <2>1. account \in Accounts /\ session \in 1..Len(Sittings)
    BY <1>4, PageAssumption DEF Show, Typed, TypeOK
  <2> QED BY <1>2, <1>4, <2>1, Names DEF Show
<1>5. ASSUME NEW f \in Fetches, Proceed(f) PROVE AnswerAhead'
  BY <1>5, <1>t DEF AnswerAhead, Proceed, GetToken, Send, GetNoToken, ArriveError, ArriveData,
     Disappoint, End, TypeOK, GatewayTypeOK, gateway
<1>6. ASSUME NEW f \in Fetches, Travel(f) PROVE AnswerAhead'
  BY <1>6, <1>t DEF AnswerAhead, Travel, Serve, GiveUp, TurnAway, Forward, Refuse, View, Reply, Die,
     Answered, GatewayTypeOK, code
<1> QED
  BY <1>1, <1>3, <1>m, <1>4, <1>5, <1>6 DEF Next, User, SignOut, Return, Dashboard, Finished, vars, code

(* The safety half of EverySpinnerStops: a request takes eight steps at    *)
(* most, its own, those of nginx and those of the route together; nothing  *)
(* that the user or other requests do adds any or takes one back; and one  *)
(* that the page waits for has its answer or will have it of nginx         *)
(* (App.tsx lines 95-152, nginx.conf lines 35-45).                         *)
THEOREM FetchesOnlyAdvance ==
  Spec => /\ []AnswerAhead
          /\ [](\A f \in Fetches : StepsLeft(f) \in 0..8)
          /\ [][\A f \in Fetches : Untouched(f) \/ StepsLeft(f)' < StepsLeft(f)]_vars
          /\ [][AnswersStay]_vars
<1>1. Init => AnswerAhead
  BY DEF Init, AnswerAhead
<1>2. Typed => \A f \in Fetches : StepsLeft(f) \in 0..8
  BY WayTypes DEF Typed
<1>3. Typed /\ Typed' /\ Trailed /\ [Next]_vars =>
        [(\A f \in Fetches : Untouched(f) \/ StepsLeft(f)' < StepsLeft(f)) /\ AnswersStay]_vars
  <2> SUFFICES ASSUME Typed, Typed', Trailed, Next
               PROVE  (\A f \in Fetches : Untouched(f) \/ StepsLeft(f)' < StepsLeft(f)) /\ AnswersStay
    OBVIOUS
  <2>t. TypeOK /\ TypeOK'
    BY DEF Typed
  <2>1. CASE UNCHANGED <<gateway, code>>
    BY <2>1 DEF Untouched, AnswersStay, gateway, code
  <2>2. CASE SignIn
    <3>1. session' \in 1..Len(Sittings) /\ account' \in Accounts
      BY <2>2, <2>t, PageAssumption DEF TypeOK, SignIn
    <3> QED BY <2>2, <2>t, <3>1, AskFalls DEF SignIn, Routes
  <2>m. CASE AskAgain
    BY <2>m, <2>t, AgainAsks, AskFalls DEF AskAgain
  <2>3. ASSUME NEW t \in Tabs, Show(t)
        PROVE  (\A f \in Fetches : Untouched(f) \/ StepsLeft(f)' < StepsLeft(f)) /\ AnswersStay
    <3>1. account \in Accounts /\ session \in 1..Len(Sittings)
      BY <2>3, PageAssumption DEF Show, Typed, TypeOK
    <3> QED BY <2>3, <2>t, <3>1, AskFalls, Names DEF Show
  <2>4. ASSUME NEW f \in Fetches, Proceed(f) \/ Travel(f)
        PROVE  (\A g \in Fetches : Untouched(g) \/ StepsLeft(g)' < StepsLeft(g)) /\ AnswersStay
    BY <2>4, <2>t, ProceedFalls, TravelFalls
  <2> QED BY <2>1, <2>2, <2>m, <2>3, <2>4 DEF Next, User, SignOut, Return, Dashboard, Finished, vars
<1> QED BY <1>1, <1>2, <1>3, AheadNext, PageTyped, PageTrailed, PTL DEF Spec
=============================================================================
