------------------------------ MODULE Gateway -------------------------------
(***************************************************************************)
(* A request of the portal page on its way: nginx, which answers for the   *)
(* backend when that is too slow or gone, and the route behind it, which   *)
(* records the view and then answers.  What the route does until then, and *)
(* that it answers of its caller, is the subject of Identity; here it      *)
(* takes as long as it likes, and goes on when nginx has given up.         *)
(* The actions constrain only the variables of this module; PortalPage     *)
(* composes them with its own.                                             *)
(***************************************************************************)
EXTENDS Integers

CONSTANTS
  MaxFetches  \* bound: how many requests the page makes

Fetches == 1..MaxFetches

VARIABLES
  stage,   \* where each request is
  answer,  \* what the browser gets: data, the backend's JSON refusal, or
           \* another page, such as nginx's own 503 and 504
  audit    \* the requests whose view is in the audit trail as SUCCESS

gateway == <<stage, answer, audit>>

GatewayTypeOK ==
  /\ stage \in [Fetches -> {"unsent", "gateway", "backend", "viewed", "over"}]
  /\ answer \in [Fetches -> {"none", "data", "refusal", "page"}]
  /\ audit \subseteq Fetches

GatewayInit ==
  /\ stage = [f \in Fetches |-> "unsent"]
  /\ answer = [f \in Fetches |-> "none"]
  /\ audit = {}

Send(f) ==
  /\ stage' = [stage EXCEPT ![f] = "gateway"]
  /\ UNCHANGED <<answer, audit>>

(* The first answer goes to the browser, and a later one nowhere. *)
Answered(f, how) ==
  answer' = [answer EXCEPT ![f] = IF answer[f] = "none" THEN how ELSE answer[f]]

(* The limit of requests per second, or no connection to the backend. *)
TurnAway(f) ==
  /\ stage[f] = "gateway"
  /\ stage' = [stage EXCEPT ![f] = "over"]
  /\ Answered(f, "page")
  /\ UNCHANGED audit

Forward(f) ==
  /\ stage[f] = "gateway"
  /\ stage' = [stage EXCEPT ![f] = "backend"]
  /\ UNCHANGED <<answer, audit>>

(* proxy_read_timeout: the browser gets a 504, and the backend goes on. *)
GiveUp(f) ==
  /\ stage[f] \in {"backend", "viewed"}
  /\ answer[f] = "none"
  /\ Answered(f, "page")
  /\ UNCHANGED <<stage, audit>>

(* A PortalError, which has a JSON body, or any other exception.           *)
Refuse(f) ==
  /\ stage[f] = "backend"
  /\ stage' = [stage EXCEPT ![f] = "over"]
  /\ \E how \in {"refusal", "page"} : Answered(f, how)
  /\ UNCHANGED audit

(* Fault: the view is recorded before the data are fetched. *)
View_Early(f) ==
  /\ stage[f] = "backend"
  /\ audit' = audit \cup {f}
  /\ UNCHANGED <<stage, answer>>

(* record_audit, the last of the route before it answers. *)
View(f) ==
  /\ stage[f] = "backend"
  /\ stage' = [stage EXCEPT ![f] = "viewed"]
  /\ audit' = audit \cup {f}
  /\ UNCHANGED answer

Reply(f) ==
  /\ stage[f] = "viewed"
  /\ stage' = [stage EXCEPT ![f] = "over"]
  /\ Answered(f, "data")
  /\ UNCHANGED audit

(* The process of the backend ends; or the acknowledgement of a commit is  *)
(* lost, and the record is there while the route raises an exception.      *)
Die(f) ==
  /\ stage[f] \in {"backend", "viewed"}
  /\ stage' = [stage EXCEPT ![f] = "over"]
  /\ Answered(f, "page")
  /\ UNCHANGED audit

Serve(f) == TurnAway(f) \/ Forward(f) \/ Refuse(f) \/ View(f) \/ Reply(f) \/ Die(f)
-----------------------------------------------------------------------------
(* The browser has data only of a view that is in the audit trail, and is  *)
(* told of a refusal only of one that is not.  What the trail says too     *)
(* much was lost on the way: a 504 or an error page stands in its place    *)
(* (router.py lines 91-101, nginx.conf line 45).                           *)
AuditMeansAnswered ==
  \A f \in Fetches :
    /\ answer[f] = "data" => f \in audit
    /\ answer[f] = "refusal" => f \notin audit
=============================================================================
