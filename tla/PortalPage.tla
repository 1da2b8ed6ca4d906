----------------------------- MODULE PortalPage ------------------------------
(***************************************************************************)
(* One page of the portal in a browser: the state of the React component   *)
(* App, the account of MSAL, and the requests through the Gateway, which   *)
(* are answered late, in any order, or by nginx itself.  A function of the *)
(* component runs in one step from one await to the next.  The texts and   *)
(* the records shown are left out: of each only whose it is and in which   *)
(* sitting at the page it was asked for.                                   *)
(***************************************************************************)
EXTENDS Gateway, Sequences

CONSTANTS
  Accounts,  \* the accounts that sign in at the page
  Sittings,  \* bound: who sits down at it, one after the other
  None

Routes == {"me", "profile", "leave"}

ASSUME PageAssumption ==
  /\ MaxFetches \in Nat
  /\ Sittings \in Seq(Accounts)
  /\ None \notin Accounts /\ None \notin Routes
  /\ None \notin [of : Accounts, session : 1..Len(Sittings)]

Tabs == {"profile", "leave"}

VARIABLES
  account,  \* the account that is signed in, or None
  view,     \* the view, in the code one of the tabs or the dashboard
  shown,    \* what each route has brought: profile, leaveBalances, mappingStatus
  name,     \* displayName, whose it is
  loading,  \* profileLoading, leaveLoading
  error,    \* profileError, leaveError: is there one
  at,       \* where the code of each request is
  route,    \* what it asks for
  by,       \* the account it has in hand
  asked,    \* the number of requests so far
  session,  \* auxiliary: the number of sign-ins so far
  during,   \* auxiliary: the one during which each request was asked for
  crowded   \* auxiliary: the tabs two requests for which have overlapped

signedIn == <<account, session>>
screen == <<view, shown, name, loading, error>>
code == <<at, route, by, asked, during, crowded>>
vars == <<gateway, signedIn, screen, code>>

Origin == [of : Accounts, session : 1..Len(Sittings)]

TypeOK ==
  /\ GatewayTypeOK
  /\ account \in Accounts \cup {None}
  /\ view \in Tabs \cup {"dashboard"}
  /\ shown \in [Routes -> Origin \cup {None}]
  /\ name \in Origin \cup {None}
  /\ loading \in [Tabs -> BOOLEAN]
  /\ error \in [Tabs -> BOOLEAN]
  /\ at \in [Fetches -> {"unasked", "token", "sent", "ended"}]
  /\ route \in [Fetches -> Routes \cup {None}]
  /\ by \in [Fetches -> Accounts \cup {None}]
  /\ asked \in 0..MaxFetches
  /\ session \in 0..Len(Sittings)
  /\ during \in [Fetches -> 0..Len(Sittings)]
  /\ crowded \subseteq Tabs
  /\ \A f \in Fetches :
       /\ at[f] = "unasked" <=> f > asked
       /\ at[f] # "unasked" => by[f] \in Accounts /\ during[f] >= 1 /\ route[f] \in Routes

Blank ==
  /\ view = "dashboard"
  /\ shown = [r \in Routes |-> None]
  /\ name = None
  /\ loading = [t \in Tabs |-> FALSE]
  /\ error = [t \in Tabs |-> FALSE]

(* MSAL keeps its accounts in memory: a page that is loaded has none, and  *)
(* no name to begin with.                                                  *)
Init ==
  /\ GatewayInit
  /\ Blank
  /\ account = None /\ session = 0
  /\ at = [f \in Fetches |-> "unasked"]
  /\ route = [f \in Fetches |-> None]
  /\ by = [f \in Fetches |-> None]
  /\ during = [f \in Fetches |-> 0]
  /\ asked = 0
  /\ crowded = {}
-----------------------------------------------------------------------------
Pending(f) == at[f] \in {"token", "sent"}

PendingFor(r) == {f \in Fetches : Pending(f) /\ route[f] = r}

(* The code of a request runs up to where it waits for a token of the      *)
(* account who.  The sitting is n.                                         *)
Ask(r, who, n) ==
  /\ asked < MaxFetches
  /\ asked' = asked + 1
  /\ at' = [at EXCEPT ![asked + 1] = "token"]
  /\ route' = [route EXCEPT ![asked + 1] = r]
  /\ by' = [by EXCEPT ![asked + 1] = who]
  /\ during' = [during EXCEPT ![asked + 1] = n]

(* signIn, when the popup brings an account, and the effect that asks for  *)
(* /me when there is one.  A popup that fails brings a text to the login   *)
(* card and no more.                                                       *)
SignIn ==
  /\ account = None
  /\ session < Len(Sittings)
  /\ session' = session + 1
  /\ account' = Sittings[session + 1]
  /\ Ask("me", account', session')
  /\ UNCHANGED <<gateway, screen, crowded>>

(* The effect runs again with the account that is there, because MSAL has  *)
(* a new list of accounts, though the same is active.                      *)
AskAgain ==
  /\ account # None
  /\ Ask("me", account, session)
  /\ UNCHANGED <<gateway, signedIn, screen, crowded>>

(* signOut, when the popup succeeds.  What the page has shown stays in the *)
(* state of the component, which goes on to show the login card.           *)
SignOut ==
  /\ account # None
  /\ account' = None
  /\ UNCHANGED <<gateway, screen, code, session>>

(* Fault: the account is taken from what the header shows. *)
Show_ByName(t) ==
  /\ account # None
  /\ shown[t] = None
  /\ view' = t
  /\ loading' = [loading EXCEPT ![t] = TRUE]
  /\ error' = [error EXCEPT ![t] = FALSE]
  /\ Ask(t, IF name = None THEN account ELSE name.of, session)
  /\ crowded' = IF PendingFor(t) = {} THEN crowded ELSE crowded \cup {t}
  /\ UNCHANGED <<gateway, signedIn, shown, name>>

(* Fault: the error of an earlier request is not cleared. *)
Show_KeepsError(t) ==
  /\ account # None
  /\ shown[t] = None
  /\ view' = t
  /\ loading' = [loading EXCEPT ![t] = TRUE]
  /\ Ask(t, account, session)
  /\ crowded' = IF PendingFor(t) = {} THEN crowded ELSE crowded \cup {t}
  /\ UNCHANGED <<gateway, signedIn, shown, name, error>>

(* Fault: whoever is signed in is asked for, be it nobody. *)
Show_Anybody(t) ==
  /\ shown[t] = None
  /\ view' = t
  /\ loading' = [loading EXCEPT ![t] = TRUE]
  /\ error' = [error EXCEPT ![t] = FALSE]
  /\ Ask(t, account, session)
  /\ crowded' = IF PendingFor(t) = {} THEN crowded ELSE crowded \cup {t}
  /\ UNCHANGED <<gateway, signedIn, shown, name>>

(* showProfile and showLeave when there is nothing to show yet: from the   *)
(* navigation, a card, or the button to try again, all of which are there  *)
(* only for somebody who is signed in.                                     *)
Show(t) ==
  /\ account # None
  /\ shown[t] = None
  /\ view' = t
  /\ loading' = [loading EXCEPT ![t] = TRUE]
  /\ error' = [error EXCEPT ![t] = FALSE]
  /\ Ask(t, account, session)
  /\ crowded' = IF PendingFor(t) = {} THEN crowded ELSE crowded \cup {t}
  /\ UNCHANGED <<gateway, signedIn, shown, name>>

(* The same when there is something; the button clears the error first.    *)
Return(t) ==
  /\ account # None
  /\ shown[t] # None
  /\ view' = t
  /\ \/ UNCHANGED error
     \/ /\ view = t /\ error[t]
        /\ error' = [error EXCEPT ![t] = FALSE]
  /\ UNCHANGED <<gateway, signedIn, shown, name, loading, code>>

Dashboard ==
  /\ account # None
  /\ view' = "dashboard"
  /\ UNCHANGED <<gateway, signedIn, shown, name, loading, error, code>>

(* acquireTokenSilent has a token of the account it was given, be it still *)
(* signed in or not, and the request is sent.                              *)
GetToken(f) ==
  /\ at[f] = "token"
  /\ at' = [at EXCEPT ![f] = "sent"]
  /\ Send(f)
  /\ UNCHANGED <<signedIn, screen, route, by, asked, during, crowded>>

End(f) ==
  /\ at' = [at EXCEPT ![f] = "ended"]
  /\ UNCHANGED <<route, by, asked, during, crowded>>

(* The end of a request that brings nothing: the error of its tab.  That   *)
(* of /me leaves everything as it was.                                     *)
Disappoint(f) ==
  /\ End(f)
  /\ IF route[f] \in Tabs
     THEN /\ error' = [error EXCEPT ![route[f]] = TRUE]
          /\ loading' = [loading EXCEPT ![route[f]] = FALSE]
     ELSE UNCHANGED <<error, loading>>
  /\ UNCHANGED <<view, shown, name>>

GetNoToken(f) ==
  /\ at[f] = "token"
  /\ Disappoint(f)
  /\ UNCHANGED <<gateway, signedIn>>

(* Fault: an answer that is no data ends the function early.               *)
ArriveError_Spins(f) ==
  /\ at[f] = "sent" /\ answer[f] \in {"refusal", "page"}
  /\ End(f)
  /\ IF route[f] \in Tabs
     THEN error' = [error EXCEPT ![route[f]] = TRUE]
     ELSE UNCHANGED error
  /\ UNCHANGED <<gateway, signedIn, view, shown, name, loading>>

(* Fault: the function ends without a word when the answer is no JSON.     *)
ArriveError_Silent(f) ==
  /\ at[f] = "sent" /\ answer[f] \in {"refusal", "page"}
  /\ End(f)
  /\ IF route[f] \in Tabs
     THEN loading' = [loading EXCEPT ![route[f]] = FALSE]
     ELSE UNCHANGED loading
  /\ UNCHANGED <<gateway, signedIn, view, shown, name, error>>

ArriveError(f) ==
  /\ at[f] = "sent" /\ answer[f] \in {"refusal", "page"}
  /\ Disappoint(f)
  /\ UNCHANGED <<gateway, signedIn>>

(* The data are stored, whoever is signed in by now; their name may go     *)
(* to the header (an employee's record may have none).                     *)
ArriveData(f) ==
  LET origin == [of |-> by[f], session |-> during[f]]
  IN  /\ at[f] = "sent" /\ answer[f] = "data"
      /\ End(f)
      /\ shown' = [shown EXCEPT ![route[f]] = origin]
      /\ \/ route[f] # "leave" /\ name' = origin
         \/ route[f] # "me" /\ UNCHANGED name
      /\ loading' = [t \in Tabs |-> loading[t] /\ t # route[f]]
      /\ UNCHANGED <<gateway, signedIn, view, error>>

Travel(f) == (Serve(f) \/ GiveUp(f)) /\ UNCHANGED <<signedIn, screen, code>>

Proceed(f) == GetToken(f) \/ GetNoToken(f) \/ ArriveError(f) \/ ArriveData(f)

User ==
  \/ SignIn
  \/ SignOut
  \/ \E t \in Tabs : Show(t) \/ Return(t)
  \/ Dashboard

(* Nobody is at the page any more: the bounds are used up.                 *)
Finished ==
  /\ account = None /\ (session = Len(Sittings) \/ asked = MaxFetches)
  /\ \A f \in Fetches : at[f] \in {"unasked", "ended"} /\ stage[f] \in {"unsent", "over"}
  /\ UNCHANGED vars

Next == User \/ AskAgain \/ (\E f \in Fetches : Proceed(f) \/ Travel(f)) \/ Finished

Spec == Init /\ [][Next]_vars

(* MSAL and the browser come to an end with each request that has an       *)
(* answer.  Of nginx only its timeouts are assumed, and of the backend     *)
(* nothing.                                                                *)
TimesOut(f) == (TurnAway(f) \/ Forward(f) \/ GiveUp(f)) /\ UNCHANGED <<signedIn, screen, code>>

FairSpec == Spec /\ \A f \in Fetches : WF_vars(Proceed(f)) /\ WF_vars(TimesOut(f))
-----------------------------------------------------------------------------
(* A tab that is looked at is never blank: it has data, an error, or a     *)
(* spinner, and a spinner stands for a request that is under way, however  *)
(* many requests for the tab overlap (App.tsx lines 95-123, 183-191).      *)
NeverBlank ==
  /\ \A t \in Tabs : loading[t] => PendingFor(t) # {}
  /\ view \in Tabs => loading[view] \/ error[view] \/ shown[view] # None

(* An error stands beside the data of its tab only when requests for the   *)
(* tab have overlapped: an earlier one failed after a later one began      *)
(* (lines 97-99, 113).                                                     *)
ErrorBesideDataNeedsCrowd ==
  \A t \in Tabs : error[t] /\ shown[t] # None => t \in crowded

(* What the page shows a person of somebody else was asked for in an       *)
(* earlier sitting, by the one it is of: what this sitting has asked for   *)
(* is its own, also when its answer comes late (lines 56, 97, 100, 116).   *)
StrangersAreLeftovers ==
  /\ account # None =>
       \A o \in {shown[r] : r \in Routes} \cup {name} :
         o # None /\ o.session = session => o.of = account
  /\ \A r \in Routes : shown[r] # None =>
       \E f \in audit : route[f] = r /\ by[f] = shown[r].of

(* No spinner turns for ever, whatever the backend does. *)
EverySpinnerStops == \A t \in Tabs : loading[t] ~> ~loading[t]
=============================================================================
