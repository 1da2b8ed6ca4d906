------------------------------ MODULE Identity ------------------------------
(***************************************************************************)
(* Identity resolution in the portal backend: how an authenticated request *)
(* finds, or creates, the row of employee_identity_mapping that says which *)
(* D365 worker the caller is, and what it may answer with that row.        *)
(*                                                                         *)
(* Several requests run at once (two gunicorn workers, each an asyncio     *)
(* loop), next to runs of the create_identity_mapping tool.  A request can *)
(* be interleaved with the others wherever it awaits, so an action is the  *)
(* code from one await to the next: one statement or one commit of its     *)
(* session, or one answer of D365, and the local code that follows.        *)
(* PostgreSQL runs at READ COMMITTED: a select sees what is committed when *)
(* it runs, a commit installs all the rows added to the session or none.   *)
(***************************************************************************)
CONSTANTS
  Requests,   \* API requests that passed authentication and the role check
  Approvals,  \* runs of the create_identity_mapping tool
  Claims,     \* values the signed oid claim can have, however it is spelled
  Oids,       \* object ids in the canonical spelling str(uuid.UUID(..)) gives
  Canonical,  \* the spelling of each claim; None for one that is not a UUID
  Persons,    \* personnel numbers
  Companies,  \* company ids as they are spelled in D365 or by an administrator
  CaseFold,   \* what str.casefold makes of each of them
  None        \* Python's None

Routes == {"me", "profile", "leave"}
Actors == Requests \cup Approvals

User == [claim : Claims, upn : BOOLEAN, route : Routes]

(* The key of a worker, and who is said to be that worker. *)
Candidate == [oid : Oids, pn : Persons, co : Companies]

(* A row of employee_identity_mapping; uuid4 ids are as fresh as creators. *)
Mapping ==
  [id : Actors, oid : Oids, pn : Persons, co : Companies,
   source : {"manual_approved", "d365_oid_auto_verified"},
   verified : BOOLEAN, enabled : BOOLEAN]

History == [mapping : Actors, by : Oids \cup {"administrator"},
            change : {"CREATE_VERIFIED", "AUTO_VERIFY_D365_OID"}]

(* correlation is the request id that every audit row carries. *)
AuditEvent == [correlation : Requests, claim : Claims,
               action : {"IDENTITY_AUTO_PROVISION", "VIEW"},
               target : Persons \cup {None}]

Outcomes == {"pending", "OK", "MAPPING_REQUIRED", "MAPPING_CONFLICT",
             "PROVISIONING_NOT_CONFIGURED", "PROVISIONING_UNAVAILABLE",
             "SERVICE_ERROR", "ABORTED"}

Phases == {"idle", "find", "configure", "lookup", "conflicts", "insert",
           "recheck", "auditProvision", "fetch", "auditView", "done"}

ASSUME IdentityAssumption ==
  /\ Requests \cap Approvals = {}
  /\ Oids \subseteq Claims
  /\ Canonical \in [Claims -> Oids \cup {None}]
  /\ \A o \in Oids : Canonical[o] = o
  /\ CaseFold \in [Companies -> Companies]
  /\ None \notin Oids \cup Persons
  /\ None \notin User
  /\ None \notin Mapping
  /\ None \notin Candidate
  /\ None \notin [pn : Persons, co : Companies]

VARIABLES
  mappings,  \* committed rows of employee_identity_mapping
  history,   \* committed rows of employee_identity_mapping_history
  audit,     \* committed rows of audit_event
  pc,        \* where each request is
  user,      \* the AuthenticatedUser and the route of each request
  cand,      \* the oid of the caller and the worker of the verified record
  held,      \* the mapping object a request holds, as it was when read
  outcome,   \* what the client is answered
  served,    \* the personnel number of the employee record in the answer
  cli,       \* the phase and arguments of each run of the tool
  vouched,   \* auxiliary: every <oid, worker> D365 or an administrator stated
  barred     \* auxiliary: ids inactive when a request ran find_verified

tables == <<mappings, history, audit>>
reqs   == <<pc, user, cand, held, outcome, served>>
vars   == <<tables, reqs, cli, vouched, barred>>

TypeOK ==
  /\ mappings \subseteq Mapping
  /\ history \subseteq History
  /\ audit \subseteq AuditEvent
  /\ pc \in [Requests -> Phases]
  /\ user \in [Requests -> User \cup {None}]
  /\ cand \in [Requests -> Candidate \cup {None}]
  /\ held \in [Requests -> Mapping \cup {None}]
  /\ outcome \in [Requests -> Outcomes]
  /\ served \in [Requests -> Persons \cup {None}]
  /\ cli \in [Approvals -> [phase : {"start", "insert", "done"},
                            arg : Candidate \cup {None}]]
  /\ vouched \subseteq Candidate
  /\ barred \in [Requests -> SUBSET Actors]

Init ==
  /\ mappings = {} /\ history = {} /\ audit = {}
  /\ pc = [r \in Requests |-> "idle"]
  /\ user = [r \in Requests |-> None]
  /\ cand = [r \in Requests |-> None]
  /\ held = [r \in Requests |-> None]
  /\ outcome = [r \in Requests |-> "pending"]
  /\ served = [r \in Requests |-> None]
  /\ cli = [a \in Approvals |-> [phase |-> "start", arg |-> None]]
  /\ vouched = {}
  /\ barred = [r \in Requests |-> {}]
-----------------------------------------------------------------------------
(* Queries and checks.                                                     *)

Active(m) == m.enabled /\ m.verified

(* The canonical object id the caller's token proves, or None. *)
Oid(r) == Canonical[user[r].claim]

(* Fault: only a row of the same object id is looked for. *)
FindConflicts_ByOid(c) == {m \in mappings : m.oid = c.oid}

(* _find_conflicts: any row of that object id, and any row, enabled or     *)
(* not, of that worker.  The company is compared as it is spelled.         *)
FindConflicts(c) ==
  {m \in mappings : m.oid = c.oid \/ (m.pn = c.pn /\ m.co = c.co)}

(* Fault: a disabled row of the same worker counts as the same mapping. *)
IsSameMapping_Disabled(m, c) ==
  m.oid = c.oid /\ m.pn = c.pn /\ CaseFold[m.co] = CaseFold[c.co]

(* _is_same_mapping: here the company is compared casefolded. *)
IsSameMapping(m, c) ==
  /\ m.oid = c.oid
  /\ m.pn = c.pn
  /\ CaseFold[m.co] = CaseFold[c.co]
  /\ Active(m)

(* uq_identity_mapping_entra_oid, the only unique constraint of the table. *)
OidIsFree(o) == \A m \in mappings : m.oid # o

(* What D365 may answer to the exact-UPN lookup of provision(): an error,  *)
(* a body that is no list, no record, several, or one record.              *)
NoRecordReply == [kind : {"d365_error", "malformed", "empty", "ambiguous"}]
RecordReply == [kind : {"record"}, worker : Candidate,
                upnMatches : BOOLEAN, wellFormed : BOOLEAN]

(* Fault: the record is matched by user principal name alone. *)
VerifyRecord_ByName(rec, o) == rec.upnMatches /\ rec.wellFormed

(* _verify_record: the record names the caller's own object id and UPN,    *)
(* and its personnel number and company are neither blank nor too long.    *)
VerifyRecord(rec, o) ==
  rec.worker.oid = o /\ rec.upnMatches /\ rec.wellFormed
-----------------------------------------------------------------------------
(* The request handlers.                                                   *)

GoTo(r, phase) == pc' = [pc EXCEPT ![r] = phase]

Answer(r, code) ==
  /\ GoTo(r, "done")
  /\ outcome' = [outcome EXCEPT ![r] = code]

(* The end of resolve_identity with mapping m, and the next await of the   *)
(* route: /me records its audit event, the others query D365.              *)
Resolve(r, m) ==
  /\ held' = [held EXCEPT ![r] = m]
  /\ IF m = None /\ user[r].route # "me"
     THEN Answer(r, "MAPPING_REQUIRED")
     ELSE /\ GoTo(r, IF user[r].route = "me" THEN "auditView" ELSE "fetch")
          /\ UNCHANGED outcome

Start(r) ==
  /\ pc[r] = "idle"
  /\ \E u \in User : user' = [user EXCEPT ![r] = u]
  /\ GoTo(r, "find")
  /\ UNCHANGED <<tables, cand, held, outcome, served, cli, vouched, barred>>

(* Fault: the select does not ask for enabled and verified rows. *)
Found_Disabled(r) == {m \in mappings : m.oid = user[r].claim}

(* The select of find_verified, with the claim as it is spelled. *)
Found(r) == {m \in mappings : m.oid = user[r].claim /\ Active(m)}

(* IdentityMappingService.find_verified, and the entry of provision() up   *)
(* to its first await.                                                     *)
FindVerified(r) ==
  LET found == Found(r) IN
  /\ pc[r] = "find"
  /\ barred' = [barred EXCEPT ![r] = {m.id : m \in {n \in mappings : ~Active(n)}}]
  /\ \/ /\ \E m, n \in found : m # n
        /\ Answer(r, "MAPPING_CONFLICT")
        /\ UNCHANGED held
     \/ \E m \in found : found = {m} /\ Resolve(r, m)
     \/ found = {} /\ ~user[r].upn /\ Resolve(r, None)
     \/ /\ found = {} /\ user[r].upn
        /\ IF Oid(r) = None
           THEN Answer(r, "MAPPING_CONFLICT")
           ELSE GoTo(r, "configure") /\ UNCHANGED outcome
        /\ UNCHANGED held
  /\ UNCHANGED <<tables, user, cand, served, cli, vouched>>

(* _configuration and _validated_fields: the "identity" row is usable, or  *)
(* it is missing, disabled or incomplete.                                  *)
Configure(r) ==
  /\ pc[r] = "configure"
  /\ \/ GoTo(r, "lookup") /\ UNCHANGED outcome
     \/ Answer(r, "PROVISIONING_NOT_CONFIGURED")
  /\ UNCHANGED <<tables, user, cand, held, served, cli, vouched, barred>>

(* The answer of D365 to the lookup when it is not one record. *)
LookupNoRecord(r) ==
  /\ pc[r] = "lookup"
  /\ \E reply \in NoRecordReply :
       CASE reply.kind = "empty"     -> Resolve(r, None)
         [] reply.kind = "ambiguous" -> Answer(r, "MAPPING_CONFLICT") /\ UNCHANGED held
         [] OTHER -> Answer(r, "PROVISIONING_UNAVAILABLE") /\ UNCHANGED held
  /\ UNCHANGED <<tables, user, cand, served, cli, vouched, barred>>

(* One record came back: what is inserted later is the caller's own object *)
(* id with the personnel number and the company of the record.             *)
LookupRecord(r) ==
  /\ pc[r] = "lookup"
  /\ \E rec \in RecordReply :
       /\ vouched' = vouched \cup {rec.worker}
       /\ IF VerifyRecord(rec, Oid(r))
          THEN /\ cand' = [cand EXCEPT ![r] = [rec.worker EXCEPT !.oid = Oid(r)]]
               /\ GoTo(r, "conflicts")
               /\ UNCHANGED outcome
          ELSE Answer(r, "MAPPING_CONFLICT") /\ UNCHANGED cand
  /\ UNCHANGED <<tables, user, held, served, cli, barred>>

(* The existing rows decide before the insert ... *)
CheckConflicts(r) ==
  LET existing == FindConflicts(cand[r]) IN
  /\ pc[r] = "conflicts"
  /\ \/ /\ existing = {}
        /\ GoTo(r, "insert")
        /\ UNCHANGED <<held, outcome>>
     \/ \E m \in existing :
          /\ existing = {m} /\ IsSameMapping(m, cand[r])
          /\ held' = [held EXCEPT ![r] = m]
          /\ GoTo(r, "auditProvision")
          /\ UNCHANGED outcome
     \/ /\ existing # {}
        /\ ~\E m \in existing : existing = {m} /\ IsSameMapping(m, cand[r])
        /\ Answer(r, "MAPPING_CONFLICT")
        /\ UNCHANGED held
  /\ UNCHANGED <<tables, user, cand, served, cli, vouched, barred>>

(* Fault: the claim is stored as the token spells it. *)
NewMapping_AsSpelled(r) ==
  [id |-> r, oid |-> user[r].claim, pn |-> cand[r].pn, co |-> cand[r].co,
   source |-> "d365_oid_auto_verified", verified |-> TRUE, enabled |-> TRUE]

(* ... the commit installs the mapping and its history row together, or    *)
(* raises IntegrityError and is rolled back ...                            *)
NewMapping(r) ==
  [id |-> r, oid |-> cand[r].oid, pn |-> cand[r].pn, co |-> cand[r].co,
   source |-> "d365_oid_auto_verified", verified |-> TRUE, enabled |-> TRUE]

CommitMapping(r) ==
  /\ pc[r] = "insert"
  /\ OidIsFree(cand[r].oid)
  /\ mappings' = mappings \cup {NewMapping(r)}
  /\ history' = history \cup {[mapping |-> r, by |-> cand[r].oid,
                               change |-> "AUTO_VERIFY_D365_OID"]}
  /\ held' = [held EXCEPT ![r] = NewMapping(r)]
  /\ GoTo(r, "auditProvision")
  /\ UNCHANGED <<audit, user, cand, outcome, served, cli, vouched, barred>>

(* Fault: an IntegrityError is a conflict, without a second look. *)
RollBackMapping_Refuse(r) ==
  /\ pc[r] = "insert"
  /\ ~OidIsFree(cand[r].oid)
  /\ Answer(r, "MAPPING_CONFLICT")
  /\ UNCHANGED <<tables, user, cand, held, served, cli, vouched, barred>>

(* Fault: the history row was committed on its own and stays. *)
RollBackMapping_KeepHistory(r) ==
  /\ pc[r] = "insert"
  /\ ~OidIsFree(cand[r].oid)
  /\ history' = history \cup {[mapping |-> r, by |-> cand[r].oid,
                               change |-> "AUTO_VERIFY_D365_OID"]}
  /\ GoTo(r, "recheck")
  /\ UNCHANGED <<mappings, audit, user, cand, held, outcome, served, cli, vouched, barred>>

RollBackMapping(r) ==
  /\ pc[r] = "insert"
  /\ ~OidIsFree(cand[r].oid)
  /\ GoTo(r, "recheck")
  /\ UNCHANGED <<tables, user, cand, held, outcome, served, cli, vouched, barred>>

(* Fault: the insert is tried again until the conflict is gone. *)
RecheckConflicts_Retry(r) ==
  /\ pc[r] = "recheck"
  /\ GoTo(r, "insert")
  /\ UNCHANGED <<tables, user, cand, held, outcome, served, cli, vouched, barred>>

(* ... and after a rollback the rows are read once more. *)
RecheckConflicts(r) ==
  LET existing == FindConflicts(cand[r]) IN
  /\ pc[r] = "recheck"
  /\ \/ \E m \in existing :
          /\ existing = {m} /\ IsSameMapping(m, cand[r])
          /\ held' = [held EXCEPT ![r] = m]
          /\ GoTo(r, "auditProvision")
          /\ UNCHANGED outcome
     \/ /\ ~\E m \in existing : existing = {m} /\ IsSameMapping(m, cand[r])
        /\ Answer(r, "MAPPING_CONFLICT")
        /\ UNCHANGED held
  /\ UNCHANGED <<tables, user, cand, served, cli, vouched, barred>>

Event(r, action) ==
  [correlation |-> r, claim |-> user[r].claim, action |-> action,
   target |-> IF held[r] = None THEN None ELSE held[r].pn]

(* The provisioning audit event is a transaction of its own. *)
AuditProvision(r) ==
  /\ pc[r] = "auditProvision"
  /\ audit' = audit \cup {Event(r, "IDENTITY_AUTO_PROVISION")}
  /\ Resolve(r, held[r])
  /\ UNCHANGED <<mappings, history, user, cand, served, cli, vouched, barred>>

(* Fault: the record D365 returns is trusted to be the caller's. *)
FetchOwnData_Unverified(r) ==
  /\ pc[r] = "fetch"
  /\ \E p \in Persons : served' = [served EXCEPT ![r] = p]
  /\ GoTo(r, "auditView")
  /\ UNCHANGED <<tables, user, cand, held, outcome, cli, vouched, barred>>

(* get_profile or get_balances: D365 answers with a record of some worker, *)
(* with nothing (an empty list of balances), or the service raises.        *)
FetchOwnData(r) ==
  /\ pc[r] = "fetch"
  /\ \/ \E p \in Persons :
          IF p = held[r].pn
          THEN /\ served' = [served EXCEPT ![r] = p]
               /\ GoTo(r, "auditView")
               /\ UNCHANGED outcome
          ELSE Answer(r, "SERVICE_ERROR") /\ UNCHANGED served
     \/ user[r].route = "leave" /\ GoTo(r, "auditView") /\ UNCHANGED <<outcome, served>>
     \/ Answer(r, "SERVICE_ERROR") /\ UNCHANGED served
  /\ UNCHANGED <<tables, user, cand, held, cli, vouched, barred>>

(* Fault: the answer leaves first and the audit event is lost. *)
AuditView_Lost(r) ==
  /\ pc[r] = "auditView"
  /\ Answer(r, "OK")
  /\ UNCHANGED <<tables, user, cand, held, served, cli, vouched, barred>>

(* The view is on record before the handler returns its DTO. *)
AuditView(r) ==
  /\ pc[r] = "auditView"
  /\ audit' = audit \cup {Event(r, "VIEW")}
  /\ Answer(r, "OK")
  /\ UNCHANGED <<mappings, history, user, cand, held, served, cli, vouched, barred>>

(* The worker process dies, the database connection is lost or an          *)
(* exception nobody handles is raised: the open transaction is undone, what*)
(* is committed stays, and the client is not answered with data.           *)
Abort(r) ==
  /\ pc[r] \notin {"idle", "done"}
  /\ Answer(r, "ABORTED")
  /\ served' = [served EXCEPT ![r] = None]
  /\ UNCHANGED <<tables, user, cand, held, cli, vouched, barred>>
-----------------------------------------------------------------------------
(* The administrator: create_identity_mapping, and direct edits of a row.  *)

(* The tool looks for a row of the object id, or an enabled row of the     *)
(* worker, and stops if it finds one.                                      *)
ApproveCheck(a) ==
  /\ cli[a].phase = "start"
  /\ \E c \in Candidate :
       LET existing == {m \in mappings :
                          m.oid = c.oid \/ (m.pn = c.pn /\ m.co = c.co /\ m.enabled)}
       IN  /\ cli' = [cli EXCEPT ![a] =
                        [phase |-> IF existing = {} THEN "insert" ELSE "done", arg |-> c]]
           /\ vouched' = vouched \cup {c}
  /\ UNCHANGED <<tables, reqs, barred>>

ApprovedMapping(a) ==
  [id |-> a, oid |-> cli[a].arg.oid, pn |-> cli[a].arg.pn, co |-> cli[a].arg.co,
   source |-> "manual_approved", verified |-> TRUE, enabled |-> TRUE]

(* The commit of the tool; an IntegrityError ends it with nothing written. *)
ApproveCommit(a) ==
  /\ cli[a].phase = "insert"
  /\ cli' = [cli EXCEPT ![a].phase = "done"]
  /\ IF OidIsFree(cli[a].arg.oid)
     THEN /\ mappings' = mappings \cup {ApprovedMapping(a)}
          /\ history' = history \cup {[mapping |-> a, by |-> "administrator",
                                       change |-> "CREATE_VERIFIED"]}
     ELSE UNCHANGED <<mappings, history>>
  /\ UNCHANGED <<audit, reqs, vouched, barred>>

(* No code of the repository changes a row, yet its queries expect rows    *)
(* that are disabled or not verified: an administrator edits the table.    *)
(* An assumption on the administrator, not code: rows are only withdrawn,  *)
(* never enabled again, and their oid and worker are never edited.         *)
Suspend(m) ==
  /\ m \in mappings
  /\ \/ m.enabled  /\ mappings' = (mappings \ {m}) \cup {[m EXCEPT !.enabled = FALSE]}
     \/ m.verified /\ mappings' = (mappings \ {m}) \cup {[m EXCEPT !.verified = FALSE]}
  /\ UNCHANGED <<history, audit, reqs, cli, vouched, barred>>
-----------------------------------------------------------------------------
(* The steps a request takes by itself once it has started. *)
Proceed(r) ==
  \/ FindVerified(r)
  \/ Configure(r)
  \/ LookupNoRecord(r)
  \/ LookupRecord(r)
  \/ CheckConflicts(r)
  \/ CommitMapping(r)
  \/ RollBackMapping(r)
  \/ RecheckConflicts(r)
  \/ AuditProvision(r)
  \/ FetchOwnData(r)
  \/ AuditView(r)

(* Every request is answered and every run of the tool is over. *)
Finished ==
  /\ \A r \in Requests : pc[r] = "done"
  /\ \A a \in Approvals : cli[a].phase = "done"
  /\ UNCHANGED vars

Next ==
  \/ \E r \in Requests : Start(r) \/ Proceed(r) \/ Abort(r)
  \/ \E a \in Approvals : ApproveCheck(a) \/ ApproveCommit(a)
  \/ \E m \in mappings : Suspend(m)
  \/ Finished

Spec == Init /\ [][Next]_vars

(* Each await ends: D365 calls have timeouts and a bounded number of       *)
(* retries, and the database answers or the connection breaks.             *)
FairSpec == Spec /\ \A r \in Requests : WF_vars(Proceed(r))
-----------------------------------------------------------------------------
(* Safety.                                                                 *)

(* No two rows ever carry one object id, whoever wrote them: the branch of *)
(* find_verified for several rows is unreachable, and a caller has one     *)
(* identity (mapping_service.py find_verified, models.py unique            *)
(* constraint, the inserts of provision() and of create_identity_mapping). *)
UniqueOid == \A m, n \in mappings : m.oid = n.oid => m = n

(* Every row says what D365 answered or an administrator stated, word for  *)
(* word: no interleaving of lookups, rollbacks and edits mixes the object  *)
(* id of one with the worker of another (_verify_record, lines 82-92).     *)
MappingVouched ==
  \A m \in mappings : [oid |-> m.oid, pn |-> m.pn, co |-> m.co] \in vouched

(* An employee record in an answer is of the worker whom a row of the      *)
(* caller's own, signed object id names, in whichever spelling the claim   *)
(* came (router.py my_profile and my_leave_balances).                      *)
ServedIsOwn ==
  \A r \in Requests : served[r] # None =>
    \E m \in mappings : m.oid = Oid(r) /\ m.pn = served[r]

(* Whoever resolves to a mapping that was made by its first access, in     *)
(* this request or an earlier one, finds its history with it: one history  *)
(* row for each mapping, naming who made it, and none without a mapping,   *)
(* whatever commit failed (provisioning_service.py lines 93-110).          *)
HistoryMatchesMappings ==
  /\ \A m \in mappings :
       \E h \in history :
         /\ h.mapping = m.id
         /\ \A g \in history : g.mapping = m.id => g = h
         /\ IF m.source = "manual_approved"
            THEN h.change = "CREATE_VERIFIED" /\ h.by = "administrator"
            ELSE h.change = "AUTO_VERIFY_D365_OID" /\ h.by = m.oid
  /\ \A h \in history : \E m \in mappings : m.id = h.mapping

(* A client that was answered with data is on record: its view was         *)
(* committed with the worker it saw before the answer left (router.py:     *)
(* record_audit precedes every return).                                    *)
AuditedBeforeAnswer ==
  \A r \in Requests : outcome[r] = "OK" =>
    \E e \in audit :
      /\ e.correlation = r /\ e.claim = user[r].claim /\ e.action = "VIEW"
      /\ held[r] # None => e.target = held[r].pn
      /\ served[r] \in {None, e.target}

(* A mapping made by a first access has its creation on record, with the   *)
(* worker and the caller it was made for, unless the request is about to   *)
(* write it or died before it did: no other way through the handler leaves *)
(* one out (router.py resolve_identity).                                   *)
CreationsOnRecord ==
  \A m \in mappings : m.id \in Requests =>
    \/ pc[m.id] = "auditProvision"
    \/ outcome[m.id] = "ABORTED"
    \/ \E e \in audit :
         /\ e.correlation = m.id /\ e.action = "IDENTITY_AUTO_PROVISION"
         /\ e.target = m.pn /\ Canonical[e.claim] = m.oid

(* Nobody is on record with another person's worker: whatever event names  *)
(* a worker, a row of the very caller's object id names it too, be it the  *)
(* caller who made that row or not (resolve_identity and the three routes).*)
EventsAreOwn ==
  \A e \in audit :
    /\ e.action = "IDENTITY_AUTO_PROVISION" => e.target # None
    /\ e.target # None =>
         \E m \in mappings : m.oid = Canonical[e.claim] /\ m.pn = e.target

(* The trail is complete: answers and creations are on record, with the    *)
(* worker they are about (router.py resolve_identity and the three routes).*)
AuditTrail == AuditedBeforeAnswer /\ CreationsOnRecord

(* Neither an answer nor the audit table ever couples a caller with the    *)
(* worker of somebody else, whatever changed between the lookup, the       *)
(* insert, the second look at the rows and the use of what they gave.      *)
NobodyElsesWorker == ServedIsOwn /\ EventsAreOwn

(* A request never goes on with a mapping that was disabled, or lost its   *)
(* verification, before the request looked for one: provisioning does not  *)
(* bring it back by another door (_is_same_mapping, find_verified).        *)
DisabledStaysOut ==
  \A r \in Requests : held[r] # None => held[r].id \notin barred[r]

(* A caller whom D365 confirmed is refused only for a row that really      *)
(* disagrees: of two first logins of one person that race to insert, the   *)
(* loser gets the winner's row, never a 409 (lines 107-116).               *)
RefusedForCause ==
  \A r \in Requests :
    outcome[r] = "MAPPING_CONFLICT" /\ cand[r] # None =>
      \E m \in FindConflicts(cand[r]) : ~IsSameMapping(m, cand[r])

(* Liveness.  Every request that has begun is answered, whatever the other *)
(* requests, the administrator and D365 do: no retry loop in it.           *)
EveryRequestAnswered ==
  \A r \in Requests : pc[r] = "find" ~> pc[r] = "done"

(* The refinement: rows with one object id become that person's binding,   *)
(* and a request tells what it served when it is answered OK.              *)
BoundTo(o) ==
  IF \E m \in mappings : m.oid = o
  THEN LET m == CHOOSE n \in mappings : n.oid = o IN [pn |-> m.pn, co |-> m.co]
  ELSE None

Bound     == [o \in Oids |-> BoundTo(o)]
Live      == {m.oid : m \in {n \in mappings : Active(n)}}
Caller    == [r \in Requests |-> IF user[r] = None THEN None ELSE Oid(r)]
Withdrawn == [r \in Requests |-> {m.oid : m \in {n \in mappings : n.id \in barred[r]}}]
Told      == [r \in Requests |-> IF outcome[r] = "OK" THEN served[r] ELSE None]

Registry == INSTANCE IdentityRegistry WITH
  stated <- vouched, bound <- Bound, live <- Live, caller <- Caller,
  withdrawn <- Withdrawn, told <- Told

(* All of the above implements the registry of IdentityRegistry: bindings  *)
(* are made once and only as stated, and answers come from them            *)
(* (resolve_identity, provision, create_identity_mapping together).        *)
ImplementsRegistry == Registry!Spec
-----------------------------------------------------------------------------
(* What the documents say and the code does not do.                        *)

(* "Missing, mismatched, duplicate, disabled, or conflicting mappings fail *)
(* closed" (README.md:142): no worker is the active identity of two        *)
(* persons.  The check for another row of the worker and the insert are    *)
(* two steps, no constraint of the table stands behind the check, and it   *)
(* compares the company as spelled.                                        *)
NoDuplicateWorker ==
  \A m, n \in mappings :
    m.pn = n.pn /\ CaseFold[m.co] = CaseFold[n.co] /\ Active(m) /\ Active(n) => m = n

(* "A unique result creates a verified local mapping plus mapping history  *)
(* and an audit event" (README.md:141): once the request that created a    *)
(* mapping is over, its creation is in the audit table.                    *)
CreationIsAudited ==
  \A r \in Requests :
    pc[r] = "done" /\ (\E m \in mappings : m.id = r) =>
      \E e \in audit : e.correlation = r /\ e.action = "IDENTITY_AUTO_PROVISION"
=============================================================================
