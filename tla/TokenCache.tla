----------------------------- MODULE TokenCache -----------------------------
(***************************************************************************)
(* What D365TokenService promises to the calls of one process, without its *)
(* clock, its lock and the queue before it: one call at a time asks Entra  *)
(* for a token, the others are answered from what it brought, and whoever  *)
(* is answered gets the newest token that Entra has issued by then.        *)
(***************************************************************************)
EXTENDS Integers

CONSTANTS Calls, None

VARIABLES
  issued,   \* the number of tokens Entra has issued; the newest has this number
  pending,  \* the calls that have asked and are not answered
  filler,   \* the pending call that asks Entra, or None
  held      \* the token each call's request carries, or None

vars == <<issued, pending, filler, held>>

Init ==
  /\ issued = 0
  /\ pending = {}
  /\ filler = None
  /\ held = [c \in Calls |-> None]

Holds(c, token) == held' = [held EXCEPT ![c] = token]

(* Answered at once: there is a token, though another may be on its way. *)
Hit(c) ==
  /\ c \notin pending
  /\ issued > 0
  /\ Holds(c, issued)
  /\ UNCHANGED <<issued, pending, filler>>

(* Not answered at once: the call asks Entra, if nobody does, or waits. *)
Join(c) ==
  /\ c \notin pending
  /\ pending' = pending \cup {c}
  /\ Holds(c, None)
  /\ filler' = filler \/ (filler = None /\ filler' = c)
  /\ UNCHANGED issued

(* Nobody asks Entra any more: one that waits does so after all ... *)
TakeOver(c) ==
  /\ c \in pending
  /\ filler = None
  /\ filler' = c
  /\ UNCHANGED <<issued, pending, held>>

(* ... or shares what was brought meanwhile. *)
Share(c) ==
  /\ c \in pending
  /\ filler = None
  /\ issued > 0
  /\ pending' = pending \ {c}
  /\ Holds(c, issued)
  /\ UNCHANGED <<issued, filler>>

(* The one that asks is given a new token, or the newest there is. *)
Fill(c) ==
  /\ filler = c
  /\ issued' \in {issued, issued + 1} \ {0}
  /\ pending' = pending \ {c}
  /\ filler' = None
  /\ Holds(c, issued')

(* It is given none, and the next may try. *)
Abandon(c) ==
  /\ filler = c
  /\ pending' = pending \ {c}
  /\ filler' = None
  /\ UNCHANGED <<issued, held>>

(* The request is answered, or given up. *)
Drop(c) ==
  /\ held[c] # None
  /\ Holds(c, None)
  /\ UNCHANGED <<issued, pending, filler>>

Next ==
  \E c \in Calls :
    Hit(c) \/ Join(c) \/ TakeOver(c) \/ Share(c) \/ Fill(c) \/ Abandon(c) \/ Drop(c)

Spec == Init /\ [][Next]_vars
-----------------------------------------------------------------------------
(* What follows from the promise, whoever keeps it.                        *)

TypeOK ==
  /\ issued \in Nat
  /\ pending \subseteq Calls
  /\ filler \in Calls \cup {None}
  /\ held \in [Calls -> Nat \cup {None}]

(* Only one that waits asks Entra, nobody who waits has a request under    *)
(* way, and every request carries a token that Entra has issued.           *)
Consistent ==
  /\ filler # None => filler \in pending
  /\ \A c \in pending : held[c] = None
  /\ \A c \in Calls : held[c] # None => held[c] \in 1..issued

(* A request that leaves carries the newest token there is; only the one   *)
(* that asks is issued another, and leaves with it; and nobody else asks   *)
(* before it has been answered.                                            *)
NewestLeaves ==
  [][/\ \A c \in Calls : held'[c] # held[c] /\ held'[c] # None => held'[c] = issued'
     /\ issued' # issued => issued' = issued + 1 /\ filler # None /\ held'[filler] = issued'
     /\ filler # None /\ filler' # filler => filler' = None /\ filler \notin pending']_vars

(* From a request with token v on, call c sends none with an older one.    *)
NeverOlder(c, v) == [](held[c] = v => [](held[c] # None => held[c] >= v))
=============================================================================
