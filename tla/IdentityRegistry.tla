-------------------------- MODULE IdentityRegistry --------------------------
(***************************************************************************)
(* What identity resolution promises, without requests that overlap,       *)
(* claims in several spellings, rows, rollbacks or audit tables: a person  *)
(* who signed in is bound at most once, for good, to a worker that D365 or *)
(* an administrator stated to be that person; a binding can be withdrawn;  *)
(* and an answer tells a caller about the worker the caller's own binding  *)
(* names, if that binding was not withdrawn when the request looked.       *)
(***************************************************************************)
CONSTANTS Requests, Oids, Persons, Companies, None

VARIABLES
  stated,     \* who has been said to be which worker
  bound,      \* the worker of each person, or None
  live,       \* the persons whose binding stands
  caller,     \* the person who makes each request, or None
  withdrawn,  \* the persons whose binding was withdrawn when a request looked
  told        \* the worker a request was told about, or None

registry == <<stated, bound, live, caller, withdrawn, told>>

Init ==
  /\ stated = {}
  /\ bound = [o \in Oids |-> None]
  /\ live = {}
  /\ caller = [r \in Requests |-> None]
  /\ withdrawn = [r \in Requests |-> {}]
  /\ told = [r \in Requests |-> None]

State(c) ==
  /\ stated' = stated \cup {c}
  /\ UNCHANGED <<bound, live, caller, withdrawn, told>>

Bind(c) ==
  /\ c \in stated
  /\ bound[c.oid] = None
  /\ bound' = [bound EXCEPT ![c.oid] = [pn |-> c.pn, co |-> c.co]]
  /\ live' = live \cup {c.oid}
  /\ UNCHANGED <<stated, caller, withdrawn, told>>

Withdraw(o) ==
  /\ live' = live \ {o}
  /\ UNCHANGED <<stated, bound, caller, withdrawn, told>>

Call(r, o) ==
  /\ caller[r] = None
  /\ caller' = [caller EXCEPT ![r] = o]
  /\ UNCHANGED <<stated, bound, live, withdrawn, told>>

Look(r) ==
  /\ withdrawn' = [withdrawn EXCEPT
                     ![r] = {o \in Oids : bound[o] # None /\ o \notin live}]
  /\ UNCHANGED <<stated, bound, live, caller, told>>

Tell(r) ==
  /\ caller[r] # None
  /\ caller[r] \notin withdrawn[r]
  /\ bound[caller[r]] # None
  /\ told' = [told EXCEPT ![r] = bound[caller[r]].pn]
  /\ UNCHANGED <<stated, bound, live, caller, withdrawn>>

Next ==
  \/ \E c \in [oid : Oids, pn : Persons, co : Companies] : State(c) \/ Bind(c)
  \/ \E o \in Oids : Withdraw(o)
  \/ \E r \in Requests :
       \/ \E o \in Oids : Call(r, o)
       \/ Look(r)
       \/ Tell(r)

Spec == Init /\ [][Next]_registry
-----------------------------------------------------------------------------
(* What follows from the promise, whoever keeps it.                        *)

TypeOK ==
  /\ stated \subseteq [oid : Oids, pn : Persons, co : Companies]
  /\ bound \in [Oids -> [pn : Persons, co : Companies] \cup {None}]
  /\ live \subseteq Oids
  /\ caller \in [Requests -> Oids \cup {None}]
  /\ withdrawn \in [Requests -> SUBSET Oids]
  /\ told \in [Requests -> Persons \cup {None}]

(* Nobody is bound but as stated, only bindings are live, what a request   *)
(* saw withdrawn is not live again, and what a request told is still what  *)
(* its caller is bound to, long after the answer.                          *)
Faithful ==
  /\ \A o \in Oids : bound[o] # None =>
       \E c \in stated : c.oid = o /\ bound[o] = [pn |-> c.pn, co |-> c.co]
  /\ \A o \in live : bound[o] # None
  /\ \A r \in Requests : \A o \in withdrawn[r] : bound[o] # None /\ o \notin live
  /\ \A r \in Requests : told[r] # None =>
       /\ caller[r] # None /\ bound[caller[r]] # None
       /\ told[r] = bound[caller[r]].pn

(* Two answers to one person, whenever they are given, name one worker.    *)
AnswersAgree ==
  \A q, r \in Requests :
    told[q] # None /\ told[r] # None /\ caller[q] = caller[r] => told[q] = told[r]

(* A binding is for good: it is withdrawn at most once and never changed,  *)
(* and neither is an answer.                                               *)
ForGood ==
  [][/\ \A o \in Oids : bound[o] # None =>
          bound'[o] = bound[o] /\ (o \in live' => o \in live)
     /\ \A r \in Requests : told[r] # None => told'[r] = told[r]]_registry
=============================================================================
