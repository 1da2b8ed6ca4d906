--------------------------- MODULE IdentityProofs ---------------------------
(***************************************************************************)
(* Proofs about Identity, and about IdentityRaces at the end, for any sets *)
(* of requests, approvals, claims, persons and companies.  Each invariant  *)
(* below is inductive together with those before it.                       *)
(***************************************************************************)
EXTENDS IdentityRaces, Integers, TLAPS

(* What a request, or a run of the tool, must have by the phase it is in. *)
StageOf(r) ==
  /\ pc[r] = "idle" <=> user[r] = None
  /\ pc[r] \in {"idle", "find", "configure", "lookup"} => cand[r] = None
  /\ pc[r] \in {"conflicts", "insert", "recheck"} => cand[r] # None
  /\ pc[r] \in {"idle", "find", "configure", "lookup", "conflicts", "insert", "recheck"} =>
       held[r] = None
  /\ pc[r] \in {"auditProvision", "fetch"} => held[r] # None
  /\ pc[r] \in {"configure", "lookup", "conflicts", "insert", "recheck"} => Oid(r) # None

Stages ==
  /\ \A r \in Requests : StageOf(r)
  /\ \A a \in Approvals : cli[a].phase = "insert" => cli[a].arg # None

Typed == TypeOK /\ Stages
-----------------------------------------------------------------------------
LEMMA TypedInit == Init => Typed
<1> SUFFICES ASSUME Init PROVE Typed
  OBVIOUS
<1>1. TypeOK
  BY DEF Init, TypeOK, Phases, Outcomes
<1>2. Stages
  BY DEF Init, Stages, StageOf
<1> QED BY <1>1, <1>2 DEF Typed

LEMMA EventType ==
  ASSUME Typed, NEW r \in Requests, pc[r] # "idle",
         NEW action \in {"IDENTITY_AUTO_PROVISION", "VIEW"}
  PROVE  Event(r, action) \in AuditEvent
<1>1. user[r] \in User
  BY DEF Typed, TypeOK, Stages, StageOf
<1>2. held[r] # None => held[r].pn \in Persons
  BY DEF Typed, TypeOK, Mapping
<1> QED
  BY <1>1, <1>2 DEF Event, AuditEvent, User

LEMMA NewMappingType ==
  ASSUME Typed, NEW r \in Requests, cand[r] # None
  PROVE  NewMapping(r) \in Mapping
<1>1. cand[r] \in Candidate
  BY DEF Typed, TypeOK
<1> QED
  BY <1>1 DEF NewMapping, Mapping, Candidate, Actors

LEMMA ApprovedMappingType ==
  ASSUME Typed, NEW a \in Approvals, cli[a].phase = "insert"
  PROVE  ApprovedMapping(a) \in Mapping
<1>1. cli[a].arg \in Candidate
  BY DEF Typed, TypeOK, Stages
<1> QED
  BY <1>1 DEF ApprovedMapping, Mapping, Candidate, Actors

(* A step of one request leaves what another one must have. *)
LEMMA StagesStep ==
  ASSUME Typed, NEW r \in Requests, StageOf(r)', UNCHANGED cli,
         \A q \in Requests \ {r} : pc'[q] = pc[q] /\ user'[q] = user[q]
                                 /\ cand'[q] = cand[q] /\ held'[q] = held[q]
  PROVE  Stages'
<1>1. ASSUME NEW q \in Requests PROVE StageOf(q)'
  BY DEF Typed, Stages, StageOf, Oid
<1>2. \A a \in Approvals : cli'[a].phase = "insert" => cli'[a].arg # None
  BY DEF Typed, Stages
<1> QED BY <1>1, <1>2 DEF Stages

(* Suspending a row changes nothing of it but a flag. *)
LEMMA SuspendKeeps ==
  ASSUME Typed, NEW m \in mappings, Suspend(m)
  PROVE  /\ \E n \in Mapping :
              /\ mappings' = (mappings \ {m}) \cup {n}
              /\ n.id = m.id /\ n.oid = m.oid /\ n.pn = m.pn /\ n.co = m.co
              /\ n.source = m.source /\ ~Active(n)
         /\ UNCHANGED <<history, audit, pc, user, cand, held, outcome, served,
                        cli, vouched, barred>>
<1>1. m \in Mapping
  BY DEF Typed, TypeOK
<1>2. CASE mappings' = (mappings \ {m}) \cup {[m EXCEPT !.enabled = FALSE]}
  <2>1. [m EXCEPT !.enabled = FALSE] \in Mapping /\ ~Active([m EXCEPT !.enabled = FALSE])
    BY <1>1 DEF Mapping, Active
  <2> QED BY <1>1, <1>2, <2>1 DEF Mapping, Suspend, reqs
<1>3. CASE mappings' = (mappings \ {m}) \cup {[m EXCEPT !.verified = FALSE]}
  <2>1. [m EXCEPT !.verified = FALSE] \in Mapping /\ ~Active([m EXCEPT !.verified = FALSE])
    BY <1>1 DEF Mapping, Active
  <2> QED BY <1>1, <1>3, <2>1 DEF Mapping, Suspend, reqs
<1> QED BY <1>2, <1>3 DEF Suspend

LEMMA TypedNext == Typed /\ [Next]_vars => Typed'
<1> SUFFICES ASSUME Typed, [Next]_vars PROVE Typed'
  OBVIOUS
<1> USE IdentityAssumption DEF Typed
<1>1. ASSUME NEW r \in Requests, Start(r) PROVE Typed'
  <2> USE <1>1 DEF Start, GoTo, tables
  <2>1. TypeOK'
    BY DEF TypeOK, Phases, Outcomes, Actors
  <2>2. StageOf(r)'
    BY DEF Stages, StageOf, TypeOK, Oid, reqs
  <2>3. Stages'
    BY <2>2, StagesStep DEF TypeOK, reqs
  <2> QED BY <2>1, <2>3
<1>2. ASSUME NEW r \in Requests, FindVerified(r) PROVE Typed'
  <2> USE <1>2 DEF FindVerified, GoTo, Answer, Resolve, Found, tables
  <2>1. held' \in [Requests -> Mapping \cup {None}]
    BY DEF TypeOK
  <2>2. barred' \in [Requests -> SUBSET Actors]
    <3>1. {m.id : m \in {n \in mappings : ~Active(n)}} \subseteq Actors
      BY DEF TypeOK, Mapping
    <3> QED BY <3>1 DEF TypeOK
  <2>3. pc' \in [Requests -> Phases] /\ outcome' \in [Requests -> Outcomes]
    BY DEF TypeOK, Phases, Outcomes
  <2>4. TypeOK'
    BY <2>1, <2>2, <2>3 DEF TypeOK
  <2>5. pc'[r] # "idle" /\ user'[r] # None /\ held[r] = None /\ cand'[r] = None
    BY DEF TypeOK, Stages, StageOf
  <2>6. pc'[r] \in {"configure", "auditView", "fetch", "done"}
    BY DEF TypeOK
  <2>7. pc'[r] = "fetch" => held'[r] # None
    BY DEF TypeOK
  <2>8. pc'[r] = "configure" => held'[r] = None /\ Oid(r)' # None
    BY <2>5 DEF TypeOK, Oid
  <2>9. StageOf(r)'
    BY <2>5, <2>6, <2>7, <2>8 DEF StageOf
  <2>10. Stages'
    BY <2>9, StagesStep DEF TypeOK
  <2> QED BY <2>4, <2>10
<1>3. ASSUME NEW r \in Requests, Configure(r) PROVE Typed'
  <2> USE <1>3 DEF Configure, GoTo, Answer, tables
  <2>1. TypeOK'
    BY DEF TypeOK, Phases, Outcomes, Actors
  <2>2. StageOf(r)'
    BY DEF Stages, StageOf, TypeOK, Oid, reqs
  <2>3. Stages'
    BY <2>2, StagesStep DEF TypeOK, reqs
  <2> QED BY <2>1, <2>3
<1>4. ASSUME NEW r \in Requests, LookupNoRecord(r) PROVE Typed'
  <2> USE <1>4 DEF LookupNoRecord, NoRecordReply, GoTo, Answer, Resolve, tables
  <2>1. TypeOK'
    BY DEF TypeOK, Phases, Outcomes, Actors
  <2>2. StageOf(r)'
    BY DEF Stages, StageOf, TypeOK, Oid, reqs
  <2>3. Stages'
    BY <2>2, StagesStep DEF TypeOK, reqs
  <2> QED BY <2>1, <2>3
<1>5. ASSUME NEW r \in Requests, LookupRecord(r) PROVE Typed'
  <2> USE DEF GoTo, Answer, tables
  <2>1. PICK rec \in RecordReply :
          /\ vouched' = vouched \cup {rec.worker}
          /\ IF VerifyRecord(rec, Oid(r))
             THEN /\ cand' = [cand EXCEPT ![r] = [rec.worker EXCEPT !.oid = Oid(r)]]
                  /\ GoTo(r, "conflicts")
                  /\ UNCHANGED outcome
             ELSE Answer(r, "MAPPING_CONFLICT") /\ UNCHANGED cand
    BY <1>5 DEF LookupRecord
  <2>2. pc[r] = "lookup" /\ UNCHANGED <<tables, user, held, served, cli, barred>>
    BY <1>5 DEF LookupRecord
  <2>3. rec.worker \in Candidate
    BY <2>1 DEF RecordReply
  <2>4. VerifyRecord(rec, Oid(r)) => [rec.worker EXCEPT !.oid = Oid(r)] \in Candidate
    BY <2>3 DEF VerifyRecord, Candidate
  <2>5. TypeOK'
    BY <2>1, <2>2, <2>3, <2>4 DEF TypeOK, Phases, Outcomes
  <2>6. pc'[r] = "conflicts" => cand'[r] # None
    BY <2>1, <2>2, <2>4 DEF TypeOK
  <2>7. StageOf(r)'
    BY <2>1, <2>2, <2>6 DEF Stages, StageOf, TypeOK, Oid
  <2>8. Stages'
    BY <2>1, <2>2, <2>7, StagesStep DEF TypeOK
  <2> QED BY <2>5, <2>8
<1>6. ASSUME NEW r \in Requests, CheckConflicts(r) PROVE Typed'
  <2> USE <1>6 DEF CheckConflicts, FindConflicts, GoTo, Answer, tables
  <2>1. TypeOK'
    BY DEF TypeOK, Phases, Outcomes, Actors
  <2>2. StageOf(r)'
    BY DEF Stages, StageOf, TypeOK, Oid, reqs
  <2>3. Stages'
    BY <2>2, StagesStep DEF TypeOK, reqs
  <2> QED BY <2>1, <2>3
<1>7. ASSUME NEW r \in Requests, CommitMapping(r) PROVE Typed'
  <2> USE <1>7 DEF CommitMapping, GoTo, tables
  <2>1. TypeOK'
    BY NewMappingType DEF TypeOK, Phases, Outcomes, Actors, Stages, StageOf, Candidate, History
  <2>2. StageOf(r)'
    BY NewMappingType DEF Stages, StageOf, TypeOK, Oid, reqs
  <2>3. Stages'
    BY <2>2, StagesStep DEF TypeOK, reqs
  <2> QED BY <2>1, <2>3
<1>8. ASSUME NEW r \in Requests, RollBackMapping(r) PROVE Typed'
  <2> USE <1>8 DEF RollBackMapping, GoTo, tables
  <2>1. TypeOK'
    BY DEF TypeOK, Phases, Outcomes, Actors
  <2>2. StageOf(r)'
    BY DEF Stages, StageOf, TypeOK, Oid, reqs
  <2>3. Stages'
    BY <2>2, StagesStep DEF TypeOK, reqs
  <2> QED BY <2>1, <2>3
<1>9. ASSUME NEW r \in Requests, RecheckConflicts(r) PROVE Typed'
  <2> USE <1>9 DEF RecheckConflicts, FindConflicts, GoTo, Answer, tables
  <2>1. TypeOK'
    BY DEF TypeOK, Phases, Outcomes, Actors
  <2>2. StageOf(r)'
    BY DEF Stages, StageOf, TypeOK, Oid, reqs
  <2>3. Stages'
    BY <2>2, StagesStep DEF TypeOK, reqs
  <2> QED BY <2>1, <2>3
<1>10. ASSUME NEW r \in Requests, AuditProvision(r) PROVE Typed'
  <2> USE <1>10 DEF AuditProvision, Resolve, GoTo, Answer, tables
  <2>1. TypeOK'
    BY EventType DEF TypeOK, Phases, Outcomes, Actors
  <2>2. StageOf(r)'
    BY DEF Stages, StageOf, TypeOK, Oid, reqs
  <2>3. Stages'
    BY <2>2, StagesStep DEF TypeOK, reqs
  <2> QED BY <2>1, <2>3
<1>11. ASSUME NEW r \in Requests, FetchOwnData(r) PROVE Typed'
  <2> USE <1>11 DEF FetchOwnData, GoTo, Answer, tables
  <2>1. served' \in [Requests -> Persons \cup {None}]
    BY DEF TypeOK
  <2>2. TypeOK'
    BY <2>1 DEF TypeOK, Phases, Outcomes
  <2>3. StageOf(r)'
    BY DEF Stages, StageOf, TypeOK, Oid
  <2>4. Stages'
    BY <2>3, StagesStep DEF TypeOK
  <2> QED BY <2>2, <2>4
<1>12. ASSUME NEW r \in Requests, AuditView(r) PROVE Typed'
  <2> USE <1>12 DEF AuditView, GoTo, Answer, tables
  <2>1. TypeOK'
    BY EventType DEF TypeOK, Phases, Outcomes, Actors
  <2>2. StageOf(r)'
    BY DEF Stages, StageOf, TypeOK, Oid, reqs
  <2>3. Stages'
    BY <2>2, StagesStep DEF TypeOK, reqs
  <2> QED BY <2>1, <2>3
<1>13. ASSUME NEW r \in Requests, Abort(r) PROVE Typed'
  <2> USE <1>13 DEF Abort, GoTo, Answer, tables
  <2>1. TypeOK'
    BY DEF TypeOK, Phases, Outcomes, Actors
  <2>2. StageOf(r)'
    BY DEF Stages, StageOf, TypeOK, Oid, reqs
  <2>3. Stages'
    BY <2>2, StagesStep DEF TypeOK, reqs
  <2> QED BY <2>1, <2>3
<1>14. ASSUME NEW a \in Approvals, ApproveCheck(a) PROVE Typed'
  <2> USE <1>14 DEF ApproveCheck, tables, reqs
  <2>1. TypeOK'
    BY DEF TypeOK
  <2>2. Stages'
    BY DEF Stages, StageOf, TypeOK, Oid
  <2> QED BY <2>1, <2>2
<1>15. ASSUME NEW a \in Approvals, ApproveCommit(a) PROVE Typed'
  <2> USE <1>15 DEF ApproveCommit, reqs
  <2>1. TypeOK'
    BY ApprovedMappingType DEF TypeOK, Actors, History
  <2>2. Stages'
    BY DEF Stages, StageOf, TypeOK, Oid
  <2> QED BY <2>1, <2>2
<1>16. ASSUME NEW m \in mappings, Suspend(m) PROVE Typed'
  <2> USE <1>16 DEF Suspend, reqs
  <2>1. TypeOK'
    BY SuspendKeeps DEF TypeOK
  <2>2. Stages'
    BY DEF Stages, StageOf, Oid
  <2> QED BY <2>1, <2>2
<1>17. CASE UNCHANGED vars
  BY <1>17 DEF vars, tables, reqs, TypeOK, Stages, StageOf, Oid
<1> QED
  BY <1>1, <1>2, <1>3, <1>4, <1>5, <1>6, <1>7, <1>8, <1>9, <1>10, <1>11, <1>12,
     <1>13, <1>14, <1>15, <1>16, <1>17 DEF Next, Proceed, Finished

LEMMA TypedAlways == Spec => []Typed
  BY TypedInit, TypedNext, PTL DEF Spec

(* Every variable keeps to its type, for any number of concurrent requests *)
(* and approvals.                                                          *)
THEOREM TypeCorrect == Spec => []TypeOK
<1>1. Typed => TypeOK
  BY DEF Typed
<1> QED BY <1>1, TypedAlways, PTL
-----------------------------------------------------------------------------
(* Rows: what is inserted was vouched for when it was remembered.          *)

CandOwn ==
  \A r \in Requests : cand[r] # None => cand[r] \in vouched /\ cand[r].oid = Oid(r)

ArgStated == \A a \in Approvals : cli[a].arg # None => cli[a].arg \in vouched

Rows == UniqueOid /\ MappingVouched /\ CandOwn /\ ArgStated

LEMMA RowsNext == Typed /\ Typed' /\ Rows /\ [Next]_vars => Rows'
<1> SUFFICES ASSUME Typed, Typed', Rows, [Next]_vars PROVE Rows'
  OBVIOUS
<1> USE DEF Rows
<1>1. ASSUME NEW r \in Requests, Start(r) PROVE Rows'
  <2>1. cand[r] = None
    BY <1>1 DEF Start, Typed, Stages, StageOf
  <2>2. UNCHANGED <<mappings, cand, cli, vouched>> /\ \A q \in Requests \ {r} : user'[q] = user[q]
    BY <1>1 DEF Start, tables, Typed, TypeOK
  <2> QED BY <2>1, <2>2 DEF UniqueOid, MappingVouched, CandOwn, ArgStated, Oid
<1>2. ASSUME NEW r \in Requests, LookupRecord(r) PROVE Rows'
  <2>1. PICK rec \in RecordReply :
          /\ vouched' = vouched \cup {rec.worker}
          /\ \/ /\ VerifyRecord(rec, Oid(r))
                /\ cand' = [cand EXCEPT ![r] = [rec.worker EXCEPT !.oid = Oid(r)]]
             \/ UNCHANGED cand
    BY <1>2 DEF LookupRecord
  <2>2. UNCHANGED <<mappings, user, cli>>
    BY <1>2 DEF LookupRecord, tables
  <2>3. VerifyRecord(rec, Oid(r)) => [rec.worker EXCEPT !.oid = Oid(r)] = rec.worker
    BY DEF VerifyRecord, RecordReply, Candidate
  <2>4. CandOwn'
    BY <2>1, <2>2, <2>3 DEF CandOwn, Oid, Typed, TypeOK, VerifyRecord
  <2> QED BY <2>1, <2>2, <2>4 DEF UniqueOid, MappingVouched, ArgStated
<1>3. ASSUME NEW r \in Requests, CommitMapping(r) PROVE Rows'
  <2>1. /\ OidIsFree(cand[r].oid) /\ cand[r] \in Candidate /\ cand[r] \in vouched
        /\ mappings' = mappings \cup {NewMapping(r)} /\ UNCHANGED <<user, cand, cli, vouched>>
    BY <1>3 DEF CommitMapping, CandOwn, Typed, TypeOK, Stages, StageOf
  <2>2. [oid |-> NewMapping(r).oid, pn |-> NewMapping(r).pn, co |-> NewMapping(r).co] = cand[r]
    BY <2>1 DEF NewMapping, Candidate
  <2>3. UniqueOid'
    BY <2>1, <2>2 DEF UniqueOid, OidIsFree
  <2>4. MappingVouched'
    BY <2>1, <2>2 DEF MappingVouched
  <2> QED BY <2>1, <2>3, <2>4 DEF CandOwn, ArgStated, Oid
<1>4. ASSUME NEW a \in Approvals, ApproveCheck(a) PROVE Rows'
  BY <1>4 DEF ApproveCheck, tables, reqs, UniqueOid, MappingVouched, CandOwn, ArgStated,
     Oid, Typed, TypeOK
<1>5. ASSUME NEW a \in Approvals, ApproveCommit(a) PROVE Rows'
  <2>1. cli[a].arg \in Candidate /\ cli[a].arg \in vouched
    BY <1>5 DEF ApproveCommit, ArgStated, Typed, TypeOK, Stages
  <2>2. /\ \/ /\ OidIsFree(cli[a].arg.oid)
              /\ mappings' = mappings \cup {ApprovedMapping(a)}
           \/ UNCHANGED mappings
        /\ UNCHANGED <<user, cand, vouched>>
        /\ \A b \in Approvals : cli'[b].arg = cli[b].arg
    BY <1>5 DEF ApproveCommit, reqs, Typed, TypeOK
  <2>3. [oid |-> ApprovedMapping(a).oid, pn |-> ApprovedMapping(a).pn,
         co |-> ApprovedMapping(a).co] = cli[a].arg
    BY <2>1 DEF ApprovedMapping, Candidate
  <2>4. UniqueOid'
    BY <2>1, <2>2, <2>3 DEF UniqueOid, OidIsFree
  <2>5. MappingVouched'
    BY <2>1, <2>2, <2>3 DEF MappingVouched
  <2> QED BY <2>2, <2>4, <2>5 DEF CandOwn, ArgStated, Oid
<1>6. ASSUME NEW m \in mappings, Suspend(m) PROVE Rows'
  <2>1. PICK n \in Mapping : /\ n.oid = m.oid /\ n.pn = m.pn /\ n.co = m.co
                             /\ mappings' = (mappings \ {m}) \cup {n}
    BY <1>6 DEF Suspend, Typed, TypeOK, Mapping
  <2>2. UNCHANGED <<user, cand, cli, vouched>>
    BY <1>6 DEF Suspend, reqs
  <2> QED BY <2>1, <2>2 DEF UniqueOid, MappingVouched, CandOwn, ArgStated, Oid
<1>7. CASE UNCHANGED <<mappings, user, cand, cli, vouched>>
  BY <1>7 DEF UniqueOid, MappingVouched, CandOwn, ArgStated, Oid
<1> QED
  BY <1>1, <1>2, <1>3, <1>4, <1>5, <1>6, <1>7 DEF Next, Proceed, Finished, vars, tables,
     reqs, FindVerified, Configure, LookupNoRecord, CheckConflicts, RollBackMapping,
     RecheckConflicts, AuditProvision, FetchOwnData, AuditView, Abort

LEMMA RowsAlways == Spec => []Rows
<1>1. Init => Rows
  BY DEF Init, Rows, UniqueOid, MappingVouched, CandOwn, ArgStated
<1> QED BY <1>1, RowsNext, TypedAlways, PTL DEF Spec

(* A caller has at most one identity, whoever races to insert it. *)
THEOREM IdentityIsUnique == Spec => []UniqueOid
<1>1. Rows => UniqueOid
  BY DEF Rows
<1> QED BY <1>1, RowsAlways, PTL

(* No row says of a person what neither D365 nor an administrator said. *)
THEOREM RowsAreVouched == Spec => []MappingVouched
<1>1. Rows => MappingVouched
  BY DEF Rows
<1> QED BY <1>1, RowsAlways, PTL
-----------------------------------------------------------------------------
(* Creators: nobody inserts twice, so that ids tell rows apart.            *)

Inserted == {"auditProvision", "fetch", "auditView", "done"}

Creators ==
  /\ \A m, n \in mappings : m.id = n.id => m = n
  /\ \A m \in mappings :
       /\ m.id \in Requests => pc[m.id] \in Inserted
       /\ m.id \in Approvals => cli[m.id].phase = "done"

LEMMA CreatorsNext == Typed /\ Typed' /\ Creators /\ [Next]_vars => Creators'
<1> SUFFICES ASSUME Typed, Typed', Creators, [Next]_vars PROVE Creators'
  OBVIOUS
<1> USE IdentityAssumption DEF Inserted
<1>1. ASSUME NEW r \in Requests, CommitMapping(r) PROVE Creators'
  <2>1. /\ mappings' = mappings \cup {NewMapping(r)} /\ NewMapping(r).id = r
        /\ pc[r] = "insert" /\ pc' = [pc EXCEPT ![r] = "auditProvision"] /\ UNCHANGED cli
    BY <1>1 DEF CommitMapping, NewMapping, GoTo
  <2>2. \A m \in mappings : m.id # r
    BY <2>1 DEF Creators
  <2> QED BY <2>1, <2>2 DEF Creators, Typed, TypeOK
<1>2. ASSUME NEW a \in Approvals, ApproveCommit(a) PROVE Creators'
  <2>1. /\ \/ mappings' = mappings \cup {ApprovedMapping(a)} /\ ApprovedMapping(a).id = a
           \/ UNCHANGED mappings
        /\ cli[a].phase = "insert" /\ cli' = [cli EXCEPT ![a].phase = "done"] /\ UNCHANGED pc
    BY <1>2 DEF ApproveCommit, ApprovedMapping, reqs
  <2>2. \A m \in mappings : m.id # a
    BY <2>1 DEF Creators
  <2>3. cli'[a].phase = "done" /\ \A e \in Approvals \ {a} : cli'[e] = cli[e]
    BY <2>1 DEF Typed, TypeOK
  <2>4. a \notin Requests
    OBVIOUS
  <2>5. \A m, n \in mappings' : m.id = n.id => m = n
    BY <2>1, <2>2 DEF Creators
  <2>6. ASSUME NEW m \in mappings'
        PROVE  /\ m.id \in Requests => pc'[m.id] \in Inserted
               /\ m.id \in Approvals => cli'[m.id].phase = "done"
    <3>1. CASE m \in mappings
      BY <2>1, <2>2, <2>3, <3>1 DEF Creators
    <3>2. CASE m \notin mappings
      <4>1. m.id = a
        BY <2>1, <3>2
      <4> QED BY <2>3, <2>4, <4>1
    <3> QED BY <3>1, <3>2
  <2> HIDE DEF Inserted
  <2> QED BY <2>5, <2>6 DEF Creators
<1>3. ASSUME NEW m \in mappings, Suspend(m) PROVE Creators'
  BY <1>3, SuspendKeeps DEF Creators
<1>4. ASSUME UNCHANGED mappings,
             \A r \in Requests : pc[r] \in Inserted => pc'[r] \in Inserted,
             \A a \in Approvals : cli[a].phase = "done" => cli'[a].phase = "done"
      PROVE  Creators'
  BY <1>4 DEF Creators
<1>5. ASSUME NEW r \in Requests, Start(r) \/ Proceed(r) \/ Abort(r), ~CommitMapping(r)
      PROVE  Creators'
  <2>1. UNCHANGED <<mappings, cli>> /\ \A q \in Requests \ {r} : pc'[q] = pc[q]
    BY <1>5 DEF Typed, TypeOK, Start, Proceed, Abort, FindVerified, Configure, LookupNoRecord,
       LookupRecord, CheckConflicts, RollBackMapping, RecheckConflicts, AuditProvision,
       FetchOwnData, AuditView, tables, GoTo, Answer, Resolve
  <2>2. pc[r] \in Inserted => pc'[r] \in Inserted
    BY <1>5 DEF Typed, TypeOK, Start, Proceed, Abort, FindVerified, Configure, LookupNoRecord,
       LookupRecord, CheckConflicts, RollBackMapping, RecheckConflicts, AuditProvision,
       FetchOwnData, AuditView, tables, GoTo, Answer, Resolve
  <2> QED BY <2>1, <2>2, <1>4
<1>6. ASSUME NEW a \in Approvals, ApproveCheck(a) PROVE Creators'
  BY <1>6, <1>4 DEF ApproveCheck, tables, reqs, Typed, TypeOK
<1>7. CASE UNCHANGED vars
  BY <1>7 DEF vars, tables, reqs, Creators
<1> QED
  BY <1>1, <1>2, <1>3, <1>5, <1>6, <1>7 DEF Next, Finished, Proceed

LEMMA CreatorsAlways == Spec => []Creators
<1>1. Init => Creators
  BY DEF Init, Creators
<1> QED BY <1>1, CreatorsNext, TypedAlways, PTL DEF Spec
-----------------------------------------------------------------------------
(* History: a row and the story of its making come and stay together.      *)

(* What the property says of one mapping, for any table of history rows. *)
ToldOf(m, rows) ==
  \E h \in rows :
    /\ h.mapping = m.id
    /\ \A g \in rows : g.mapping = m.id => g = h
    /\ IF m.source = "manual_approved"
       THEN h.change = "CREATE_VERIFIED" /\ h.by = "administrator"
       ELSE h.change = "AUTO_VERIFY_D365_OID" /\ h.by = m.oid

(* Adding a row and its history together keeps the two in step. *)
LEMMA HistoryInsert ==
  ASSUME HistoryMatchesMappings, NEW new, NEW h,
         mappings' = mappings \cup {new}, history' = history \cup {h},
         h.mapping = new.id, ToldOf(new, {h}),
         \A m \in mappings : m.id # new.id
  PROVE  HistoryMatchesMappings'
<1>1. \A g \in history : g.mapping # new.id
  BY DEF HistoryMatchesMappings
<1>2. ASSUME NEW m \in mappings PROVE ToldOf(m, history')
  <2>1. ToldOf(m, history)
    BY DEF HistoryMatchesMappings, ToldOf
  <2> QED BY <2>1 DEF ToldOf
<1>3. ToldOf(new, history')
  BY <1>1 DEF ToldOf
<1>4. \A g \in history' : \E m \in mappings' : m.id = g.mapping
  BY DEF HistoryMatchesMappings
<1> QED BY <1>2, <1>3, <1>4 DEF HistoryMatchesMappings, ToldOf

LEMMA HistoryNext ==
  Typed /\ Typed' /\ Creators /\ HistoryMatchesMappings /\ [Next]_vars
    => HistoryMatchesMappings'
<1> SUFFICES ASSUME Typed, Typed', Creators, HistoryMatchesMappings, [Next]_vars
             PROVE  HistoryMatchesMappings'
  OBVIOUS
<1> USE IdentityAssumption
<1>1. ASSUME NEW r \in Requests, CommitMapping(r) PROVE HistoryMatchesMappings'
  <2> DEFINE h == [mapping |-> r, by |-> cand[r].oid, change |-> "AUTO_VERIFY_D365_OID"]
  <2>1. /\ mappings' = mappings \cup {NewMapping(r)} /\ history' = history \cup {h}
        /\ pc[r] = "insert"
    BY <1>1 DEF CommitMapping
  <2>2. /\ NewMapping(r).id = r /\ NewMapping(r).oid = cand[r].oid
        /\ NewMapping(r).source = "d365_oid_auto_verified"
    BY DEF NewMapping
  <2>3. \A m \in mappings : m.id # r
    BY <2>1 DEF Creators, Inserted
  <2>4. ToldOf(NewMapping(r), {h})
    BY <2>2 DEF ToldOf
  <2>5. h.mapping = NewMapping(r).id
    BY <2>2
  <2>6. \A m \in mappings : m.id # NewMapping(r).id
    BY <2>2, <2>3
  <2> HIDE DEF h
  <2> QED BY <2>1, <2>4, <2>5, <2>6, HistoryInsert
<1>2. ASSUME NEW a \in Approvals, ApproveCommit(a) PROVE HistoryMatchesMappings'
  <2> DEFINE h == [mapping |-> a, by |-> "administrator", change |-> "CREATE_VERIFIED"]
  <2>1. CASE UNCHANGED <<mappings, history>>
    BY <2>1 DEF HistoryMatchesMappings
  <2>2. CASE mappings' = mappings \cup {ApprovedMapping(a)} /\ history' = history \cup {h}
    <3>1. ApprovedMapping(a).id = a /\ ApprovedMapping(a).source = "manual_approved"
      BY DEF ApprovedMapping
    <3>2. \A m \in mappings : m.id # a
      BY <1>2 DEF Creators, ApproveCommit
    <3>3. ToldOf(ApprovedMapping(a), {h})
      BY <3>1 DEF ToldOf
    <3>4. h.mapping = ApprovedMapping(a).id
      BY <3>1
    <3>5. \A m \in mappings : m.id # ApprovedMapping(a).id
      BY <3>1, <3>2
    <3> HIDE DEF h
    <3> QED BY <2>2, <3>3, <3>4, <3>5, HistoryInsert
  <2> QED BY <1>2, <2>1, <2>2 DEF ApproveCommit
<1>3. ASSUME NEW m \in mappings, Suspend(m) PROVE HistoryMatchesMappings'
  <2>1. PICK n \in Mapping :
          /\ mappings' = (mappings \ {m}) \cup {n}
          /\ n.id = m.id /\ n.oid = m.oid /\ n.source = m.source
    BY <1>3, SuspendKeeps
  <2>2. UNCHANGED history
    BY <1>3, SuspendKeeps
  <2> QED BY <2>1, <2>2 DEF HistoryMatchesMappings
<1>4. CASE UNCHANGED <<mappings, history>>
  BY <1>4 DEF HistoryMatchesMappings
<1> QED
  BY <1>1, <1>2, <1>3, <1>4 DEF Next, Proceed, Finished, vars, tables, Start, FindVerified,
     Configure, LookupNoRecord, LookupRecord, CheckConflicts, RollBackMapping,
     RecheckConflicts, AuditProvision, FetchOwnData, AuditView, Abort, ApproveCheck

(* Whatever fails and whoever races, a mapping has its history.            *)
THEOREM HistoryIsComplete == Spec => []HistoryMatchesMappings
<1>1. Init => HistoryMatchesMappings
  BY DEF Init, HistoryMatchesMappings
<1> QED BY <1>1, HistoryNext, TypedAlways, CreatorsAlways, PTL DEF Spec
-----------------------------------------------------------------------------
(* Held: a request that resolved holds a copy of a row of its caller, and  *)
(* not of one that had been disabled when the request looked.              *)

SameRow(m, h) == m.id = h.id /\ m.oid = h.oid /\ m.pn = h.pn /\ m.co = h.co

HeldBy(r) ==
  /\ held[r] # None =>
       /\ held[r].oid = Oid(r)
       /\ held[r].id \notin barred[r]
       /\ \E m \in mappings : SameRow(m, held[r])
  /\ served[r] # None => held[r] # None /\ served[r] = held[r].pn

BarredAreInactive ==
  \A r \in Requests : \A i \in barred[r] : \E m \in mappings : m.id = i /\ ~Active(m)

Held == (\A r \in Requests : HeldBy(r)) /\ BarredAreInactive

(* No step takes a row away, changes who it names or enables it again. *)
RowsKept ==
  \A m \in mappings : \E n \in mappings' : SameRow(n, m) /\ (~Active(m) => ~Active(n))

LEMMA RowsAreKept == Typed /\ [Next]_vars => RowsKept
<1> SUFFICES ASSUME Typed, [Next]_vars PROVE RowsKept
  OBVIOUS
<1>1. ASSUME NEW m \in mappings, Suspend(m) PROVE RowsKept
  BY <1>1, SuspendKeeps DEF RowsKept, SameRow
<1>2. CASE mappings \subseteq mappings'
  BY <1>2 DEF RowsKept, SameRow
<1> QED
  BY <1>1, <1>2 DEF Next, Proceed, Finished, vars, tables, Start, FindVerified, Configure,
     LookupNoRecord, LookupRecord, CheckConflicts, CommitMapping, RollBackMapping,
     RecheckConflicts, AuditProvision, FetchOwnData, AuditView, Abort, ApproveCheck,
     ApproveCommit

(* What a request holds stays good while others act ... *)
LEMMA HeldKept ==
  ASSUME RowsKept, NEW r \in Requests, HeldBy(r),
         held'[r] = held[r], barred'[r] = barred[r], served'[r] = served[r],
         user'[r] = user[r]
  PROVE  HeldBy(r)'
  BY DEF HeldBy, RowsKept, SameRow, Oid

(* ... and an active row of the caller's is a good one to hold. *)
LEMMA ActiveRowIsGood ==
  ASSUME Creators, BarredAreInactive, NEW r \in Requests,
         NEW m \in mappings, Active(m)
  PROVE  m.id \notin barred[r]
  BY DEF Creators, BarredAreInactive

LEMMA HeldNext ==
  Typed /\ Typed' /\ Rows /\ Creators /\ Held /\ [Next]_vars => Held'
<1> SUFFICES ASSUME Typed, Typed', Rows, Creators, Held, [Next]_vars PROVE Held'
  OBVIOUS
<1> USE IdentityAssumption
<1> RowsKept
  BY RowsAreKept
<1>1. ASSUME NEW r \in Requests, HeldBy(r)', UNCHANGED barred,
             \A q \in Requests \ {r} : held'[q] = held[q] /\ served'[q] = served[q]
                                     /\ user'[q] = user[q]
      PROVE  Held'
  <2>1. \A q \in Requests : HeldBy(q)'
    BY <1>1, HeldKept DEF Held
  <2>2. BarredAreInactive'
    BY <1>1 DEF Held, BarredAreInactive, RowsKept, SameRow
  <2> QED BY <2>1, <2>2 DEF Held
<1>2. ASSUME NEW r \in Requests, Start(r) PROVE Held'
  <2>1. held[r] = None /\ served[r] = None
    BY <1>2 DEF Typed, Stages, StageOf, Start, Held, HeldBy
  <2>2. UNCHANGED <<held, served, barred>>
    BY <1>2 DEF Start
  <2>3. HeldBy(r)'
    BY <2>1, <2>2 DEF HeldBy
  <2> QED BY <1>1, <1>2, <2>2, <2>3 DEF Start, Typed, TypeOK
<1>3. ASSUME NEW r \in Requests, FindVerified(r) PROVE Held'
  <2>1. /\ held[r] = None /\ served[r] = None
        /\ UNCHANGED <<mappings, user, served>>
        /\ \A q \in Requests \ {r} : held'[q] = held[q] /\ barred'[q] = barred[q]
        /\ barred'[r] = {m.id : m \in {n \in mappings : ~Active(n)}}
    BY <1>3 DEF Typed, TypeOK, Stages, StageOf, FindVerified, Resolve, Answer, tables,
       Held, HeldBy
  <2>2. held'[r] # None => held'[r] \in Found(r)
    BY <1>3, <2>1 DEF FindVerified, Resolve, Typed, TypeOK
  <2>3. \A m \in Found(r) : m.oid = Oid(r) /\ m \in mappings /\ Active(m)
    BY DEF Found, Oid, Typed, TypeOK, Mapping
  <2>4. \A m \in Found(r) : m.id \notin barred'[r]
    BY <2>1, <2>3 DEF Creators
  <2>5. HeldBy(r)'
    BY <2>1, <2>2, <2>3, <2>4 DEF HeldBy, SameRow, Oid
  <2>6. \A q \in Requests : HeldBy(q)'
    BY <2>1, <2>5, HeldKept DEF Held
  <2>7. BarredAreInactive'
    BY <2>1 DEF Held, BarredAreInactive
  <2> QED BY <2>6, <2>7 DEF Held
<1>4. ASSUME NEW r \in Requests, CheckConflicts(r) \/ RecheckConflicts(r) PROVE Held'
  <2>1. /\ served[r] = None
        /\ UNCHANGED <<mappings, user, served, barred>>
        /\ \A q \in Requests \ {r} : held'[q] = held[q]
        /\ cand[r] # None /\ held[r] = None
    BY <1>4 DEF Typed, TypeOK, Stages, StageOf, CheckConflicts, RecheckConflicts, tables,
       Held, HeldBy
  <2>2. held'[r] # None => held'[r] \in mappings /\ IsSameMapping(held'[r], cand[r])
    BY <1>4, <2>1 DEF CheckConflicts, RecheckConflicts, FindConflicts, Typed, TypeOK
  <2>3. held'[r] # None => held'[r].oid = Oid(r) /\ held'[r].id \notin barred[r]
    BY <2>1, <2>2, ActiveRowIsGood DEF IsSameMapping, Rows, CandOwn, Held
  <2>4. HeldBy(r)'
    BY <2>1, <2>2, <2>3 DEF HeldBy, SameRow, Oid
  <2> QED BY <1>1, <2>1, <2>4
<1>5. ASSUME NEW r \in Requests, CommitMapping(r) PROVE Held'
  <2>1. /\ UNCHANGED <<user, served, barred>> /\ served[r] = None
        /\ cand[r] # None /\ pc[r] = "insert"
        /\ mappings' = mappings \cup {NewMapping(r)}
        /\ held' = [held EXCEPT ![r] = NewMapping(r)]
    BY <1>5 DEF CommitMapping, Typed, Stages, StageOf, Held, HeldBy
  <2>2. NewMapping(r).id = r /\ NewMapping(r).oid = Oid(r)
    BY <2>1 DEF NewMapping, Rows, CandOwn
  <2>3. r \notin barred[r]
    BY <2>1 DEF Held, BarredAreInactive, Creators, Inserted
  <2>4. held'[r] = NewMapping(r) /\ NewMapping(r) \in mappings'
    BY <2>1 DEF Typed, TypeOK
  <2>5. HeldBy(r)'
    BY <2>1, <2>2, <2>3, <2>4 DEF HeldBy, SameRow, Oid
  <2> QED BY <1>1, <2>1, <2>5 DEF Typed, TypeOK
<1>6. ASSUME NEW r \in Requests, LookupNoRecord(r) PROVE Held'
  <2>1. /\ UNCHANGED <<mappings, user, served, barred>> /\ held[r] = None /\ held' = held
    BY <1>6 DEF LookupNoRecord, NoRecordReply, Resolve, Answer, tables, Typed, TypeOK,
       Stages, StageOf
  <2> QED BY <1>1, <2>1, HeldKept DEF Held
<1>7. ASSUME NEW r \in Requests, AuditProvision(r) PROVE Held'
  <2>1. UNCHANGED <<mappings, user, served, barred>> /\ held' = held
    BY <1>7 DEF AuditProvision, Resolve, Typed, TypeOK
  <2> QED BY <1>1, <2>1, HeldKept DEF Held
<1>8. ASSUME NEW r \in Requests, FetchOwnData(r) \/ Abort(r) PROVE Held'
  <2>1. /\ UNCHANGED <<mappings, user, held, barred>>
        /\ \A q \in Requests \ {r} : served'[q] = served[q]
    BY <1>8 DEF FetchOwnData, Abort, tables, Typed, TypeOK
  <2>2. served'[r] # None =>
          \/ served'[r] = served[r]
          \/ served'[r] = held[r].pn /\ held[r] # None
    BY <1>8 DEF FetchOwnData, Abort, Answer, Typed, TypeOK, Stages, StageOf
  <2>3. HeldBy(r)'
    BY <2>1, <2>2 DEF Held, HeldBy, Oid
  <2> QED BY <1>1, <2>1, <2>3
<1>9. ASSUME UNCHANGED <<user, held, served, barred>> PROVE Held'
  <2>1. \A q \in Requests : HeldBy(q)'
    BY <1>9, HeldKept DEF Held
  <2>2. BarredAreInactive'
    BY <1>9 DEF Held, BarredAreInactive, RowsKept, SameRow
  <2> QED BY <2>1, <2>2 DEF Held
<1> QED
  BY <1>2, <1>3, <1>4, <1>5, <1>6, <1>7, <1>8, <1>9 DEF Next, Proceed, Finished, vars,
     tables, reqs, Configure, LookupRecord, RollBackMapping, AuditView, ApproveCheck,
     ApproveCommit, Suspend

LEMMA HeldAlways == Spec => []Held
<1>1. Init => Held
  BY DEF Init, Held, HeldBy, BarredAreInactive
<1> QED BY <1>1, HeldNext, TypedAlways, RowsAlways, CreatorsAlways, PTL DEF Spec

(* Every answer with an employee's record is about the caller's own        *)
(* worker, however many requests and approvals interleave.                 *)
LEMMA ServedAlways == Spec => []ServedIsOwn
<1>1. Held => ServedIsOwn
  BY DEF Held, HeldBy, ServedIsOwn, SameRow
<1> QED BY <1>1, HeldAlways, PTL

(* A mapping disabled before a request looked does not serve that request. *)
THEOREM DisabledMappingsStayOut == Spec => []DisabledStaysOut
<1>1. Held => DisabledStaysOut
  BY DEF Held, HeldBy, DisabledStaysOut
<1> QED BY <1>1, HeldAlways, PTL
-----------------------------------------------------------------------------
(* Refusals: a 409 after D365 confirmed the caller has a row behind it.    *)

Disagrees(c) == \E m \in FindConflicts(c) : ~IsSameMapping(m, c)

RefusalOf(r) ==
  /\ pc[r] = "recheck" => ~OidIsFree(cand[r].oid)
  /\ pc[r] # "done" => outcome[r] = "pending"
  /\ outcome[r] = "MAPPING_CONFLICT" /\ cand[r] # None => Disagrees(cand[r])

Refusals == \A r \in Requests : RefusalOf(r)

(* A row that disagrees goes on to disagree, and an object id stays taken. *)
LEMMA DisagreementKept ==
  ASSUME RowsKept, NEW c PROVE Disagrees(c) => Disagrees(c)'
  BY DEF RowsKept, SameRow, Disagrees, FindConflicts, IsSameMapping

LEMMA RefusalKept ==
  ASSUME RowsKept, NEW r \in Requests, RefusalOf(r),
         pc'[r] = pc[r], outcome'[r] = outcome[r], cand'[r] = cand[r]
  PROVE  RefusalOf(r)'
<1>1. ~OidIsFree(cand[r].oid) => ~OidIsFree(cand[r].oid)'
  BY DEF RowsKept, SameRow, OidIsFree
<1>2. Disagrees(cand[r]) => Disagrees(cand[r])'
  BY DisagreementKept
<1> QED BY <1>1, <1>2 DEF RefusalOf, Disagrees, FindConflicts, OidIsFree, IsSameMapping

(* Two rows, or one that is not the same mapping, cannot both agree. *)
LEMMA NoAgreement ==
  ASSUME UniqueOid, NEW c, FindConflicts(c) # {},
         ~\E m \in FindConflicts(c) : FindConflicts(c) = {m} /\ IsSameMapping(m, c)
  PROVE  Disagrees(c)
<1>1. PICK m \in FindConflicts(c) : TRUE
  OBVIOUS
<1>2. CASE FindConflicts(c) = {m}
  BY <1>1, <1>2 DEF Disagrees
<1>3. CASE FindConflicts(c) # {m}
  <2>1. PICK n \in FindConflicts(c) : n # m
    BY <1>1, <1>3
  <2>2. m.oid # n.oid
    BY <1>1, <2>1 DEF UniqueOid, FindConflicts
  <2> QED BY <1>1, <2>1, <2>2 DEF Disagrees, IsSameMapping
<1> QED BY <1>2, <1>3

LEMMA RefusalsNext ==
  Typed /\ Typed' /\ Rows /\ Refusals /\ [Next]_vars => Refusals'
<1> SUFFICES ASSUME Typed, Typed', Rows, Refusals, [Next]_vars PROVE Refusals'
  OBVIOUS
<1> RowsKept
  BY RowsAreKept
<1>1. ASSUME NEW r \in Requests, RefusalOf(r)',
             \A q \in Requests \ {r} : pc'[q] = pc[q] /\ outcome'[q] = outcome[q]
                                     /\ cand'[q] = cand[q]
      PROVE  Refusals'
  BY <1>1, RefusalKept DEF Refusals
<1>2. ASSUME NEW r \in Requests, CheckConflicts(r) \/ RecheckConflicts(r) PROVE Refusals'
  <2>1. /\ UNCHANGED <<mappings, cand>>
        /\ \A q \in Requests \ {r} : pc'[q] = pc[q] /\ outcome'[q] = outcome[q]
        /\ outcome[r] = "pending" /\ pc'[r] \in {"insert", "auditProvision", "done"}
        /\ pc'[r] # "done" => outcome'[r] = outcome[r]
    BY <1>2 DEF CheckConflicts, RecheckConflicts, GoTo, Answer, tables, Typed, TypeOK,
       Refusals, RefusalOf
  <2>2. outcome'[r] = "MAPPING_CONFLICT" =>
          /\ FindConflicts(cand[r]) # {}
          /\ ~\E m \in FindConflicts(cand[r]) :
                FindConflicts(cand[r]) = {m} /\ IsSameMapping(m, cand[r])
    BY <1>2, <2>1 DEF CheckConflicts, RecheckConflicts, Refusals, RefusalOf, OidIsFree,
       FindConflicts, Answer, Typed, TypeOK
  <2>3. outcome'[r] = "MAPPING_CONFLICT" => Disagrees(cand[r])'
    BY <2>1, <2>2, NoAgreement, DisagreementKept DEF Rows, Disagrees, FindConflicts,
       IsSameMapping
  <2>4. RefusalOf(r)'
    BY <2>1, <2>3 DEF RefusalOf, Disagrees, FindConflicts, IsSameMapping
  <2> QED BY <1>1, <2>1, <2>4
<1>3. ASSUME NEW r \in Requests,
             FindVerified(r) \/ LookupNoRecord(r) \/ LookupRecord(r)
      PROVE  Refusals'
  <2>1. /\ \A q \in Requests \ {r} : pc'[q] = pc[q] /\ outcome'[q] = outcome[q]
                                   /\ cand'[q] = cand[q]
        /\ pc'[r] # "recheck" /\ outcome[r] = "pending"
        /\ pc'[r] # "done" => outcome'[r] = outcome[r]
        /\ pc'[r] = "done" => cand'[r] = None
    BY <1>3 DEF FindVerified, LookupNoRecord, LookupRecord, NoRecordReply, Resolve, GoTo,
       Answer, Typed, TypeOK, Stages, StageOf, Refusals, RefusalOf
  <2> QED BY <1>1, <2>1 DEF RefusalOf
<1>4. ASSUME NEW r \in Requests,
             \/ Start(r) \/ Configure(r) \/ CommitMapping(r) \/ AuditProvision(r)
             \/ FetchOwnData(r) \/ AuditView(r) \/ Abort(r)
      PROVE  Refusals'
  <2>1. /\ \A q \in Requests \ {r} : pc'[q] = pc[q] /\ outcome'[q] = outcome[q]
        /\ UNCHANGED cand /\ pc'[r] # "recheck" /\ outcome[r] = "pending"
        /\ pc'[r] # "done" => outcome'[r] = outcome[r]
        /\ outcome'[r] # "MAPPING_CONFLICT"
    BY <1>4 DEF Start, Configure, CommitMapping, AuditProvision, FetchOwnData, AuditView,
       Abort, Resolve, GoTo, Answer, Typed, TypeOK, Stages, StageOf, Refusals, RefusalOf
  <2> QED BY <1>1, <2>1 DEF RefusalOf
<1>5. ASSUME NEW r \in Requests, RollBackMapping(r) PROVE Refusals'
  <2>1. /\ \A q \in Requests \ {r} : pc'[q] = pc[q]
        /\ UNCHANGED <<mappings, cand, outcome>>
        /\ pc'[r] # "done" /\ pc[r] # "done" /\ ~OidIsFree(cand[r].oid)
    BY <1>5 DEF RollBackMapping, GoTo, tables, Typed, TypeOK
  <2> QED BY <1>1, <2>1 DEF Refusals, RefusalOf, OidIsFree
<1>6. CASE UNCHANGED <<pc, outcome, cand>>
  BY <1>6, RefusalKept DEF Refusals
<1> QED
  BY <1>2, <1>3, <1>4, <1>5, <1>6 DEF Next, Proceed, Finished, vars, reqs, ApproveCheck,
     ApproveCommit, Suspend

LEMMA RefusalsAlways == Spec => []Refusals
<1>1. Init => Refusals
  BY DEF Init, Refusals, RefusalOf
<1> QED BY <1>1, RefusalsNext, TypedAlways, RowsAlways, PTL DEF Spec

(* The loser of a race of first logins is never refused for having lost.   *)
THEOREM RefusalsHaveCause == Spec => []RefusedForCause
<1>1. Refusals => RefusedForCause
  BY DEF Refusals, RefusalOf, Disagrees, RefusedForCause
<1> QED BY <1>1, RefusalsAlways, PTL
-----------------------------------------------------------------------------
(* Audit: nothing that happens after an answer changes what it was.        *)

AuditedOf(r) ==
  outcome[r] = "OK" =>
    /\ pc[r] = "done"
    /\ \E e \in audit :
         /\ e.correlation = r /\ e.claim = user[r].claim /\ e.action = "VIEW"
         /\ held[r] # None => e.target = held[r].pn
         /\ served[r] \in {None, e.target}

Audited == \A r \in Requests : AuditedOf(r)

LEMMA AuditedNext == Typed /\ Held /\ Audited /\ [Next]_vars => Audited'
<1> SUFFICES ASSUME Typed, Held, Audited, [Next]_vars, NEW q \in Requests
             PROVE  AuditedOf(q)'
  BY DEF Audited
<1> USE DEF Audited
<1>1. CASE AuditView(q)
  <2>1. /\ audit' = audit \cup {Event(q, "VIEW")} /\ UNCHANGED <<user, held, served>>
        /\ pc'[q] = "done"
    BY <1>1 DEF AuditView, Answer, GoTo, Typed, TypeOK
  <2>2. served[q] # None => held[q] # None /\ served[q] = held[q].pn
    BY DEF Held, HeldBy
  <2>3. /\ Event(q, "VIEW").correlation = q /\ Event(q, "VIEW").claim = user[q].claim
        /\ Event(q, "VIEW").action = "VIEW"
        /\ held[q] # None => Event(q, "VIEW").target = held[q].pn
    BY DEF Event
  <2>4. Event(q, "VIEW") \in audit'
    BY <2>1
  <2> QED BY <2>1, <2>2, <2>3, <2>4 DEF AuditedOf
<1>2. ASSUME audit \subseteq audit', pc'[q] = pc[q], outcome'[q] = outcome[q],
             user'[q] = user[q], held'[q] = held[q], served'[q] = served[q]
      PROVE  AuditedOf(q)'
  <2>1. CASE outcome[q] = "OK"
    <3>1. PICK e \in audit :
            /\ e.correlation = q /\ e.claim = user[q].claim /\ e.action = "VIEW"
            /\ held[q] # None => e.target = held[q].pn
            /\ served[q] \in {None, e.target}
      BY <2>1 DEF AuditedOf
    <3>2. e \in audit' /\ pc[q] = "done"
      BY <1>2, <2>1 DEF AuditedOf
    <3> QED BY <1>2, <3>1, <3>2 DEF AuditedOf
  <2>2. CASE outcome[q] # "OK"
    BY <1>2, <2>2 DEF AuditedOf
  <2> QED BY <2>1, <2>2
<1>3. ASSUME outcome'[q] # "OK" PROVE AuditedOf(q)'
  BY <1>3 DEF AuditedOf
<1>4. ASSUME Start(q) \/ (Proceed(q) /\ ~AuditView(q)) \/ Abort(q) PROVE outcome'[q] # "OK"
  <2>1. pc[q] # "done"
    BY <1>4 DEF Start, Proceed, Abort, FindVerified, Configure, LookupNoRecord, LookupRecord,
       CheckConflicts, CommitMapping, RollBackMapping, RecheckConflicts, AuditProvision,
       FetchOwnData
  <2>2. outcome[q] # "OK"
    BY <2>1 DEF AuditedOf
  <2> QED
    BY <1>4, <2>2 DEF Start, Proceed, Abort, FindVerified, Configure, LookupNoRecord,
       NoRecordReply, LookupRecord, CheckConflicts, CommitMapping, RollBackMapping,
       RecheckConflicts, AuditProvision, FetchOwnData, Resolve, Answer, GoTo, Typed, TypeOK
<1>5. ASSUME NEW r \in Requests \ {q}, Start(r) \/ Proceed(r) \/ Abort(r)
      PROVE  /\ audit \subseteq audit' /\ pc'[q] = pc[q] /\ outcome'[q] = outcome[q]
             /\ user'[q] = user[q] /\ held'[q] = held[q] /\ served'[q] = served[q]
  BY <1>5 DEF Start, Proceed, Abort, FindVerified, Configure, LookupNoRecord, NoRecordReply,
     LookupRecord, CheckConflicts, CommitMapping, RollBackMapping, RecheckConflicts,
     AuditProvision, FetchOwnData, AuditView, Resolve, Answer, GoTo, tables, Typed, TypeOK
<1> QED
  BY <1>1, <1>2, <1>3, <1>4, <1>5 DEF Next, Finished, vars, tables, reqs, ApproveCheck,
     ApproveCommit, Suspend

LEMMA AuditedAlways == Spec => []Audited
<1>1. Init => Audited
  BY DEF Init, Audited, AuditedOf
<1> QED BY <1>1, AuditedNext, TypedAlways, HeldAlways, PTL DEF Spec

(* Creations: the row a request makes is its caller's, the event it writes *)
(* about it names that row, and only its death keeps it from writing it.   *)

OwnRows == \A m \in mappings : m.id \in Requests => m.oid = Oid(m.id)

Trail == OwnRows /\ CreationsOnRecord /\ EventsAreOwn

(* A request that makes a row makes one of its own caller. *)
LEMMA OwnRowsNext ==
  Typed /\ Typed' /\ Rows /\ Creators /\ OwnRows /\ [Next]_vars => OwnRows'
<1> SUFFICES ASSUME Typed, Typed', Rows, Creators, OwnRows, [Next]_vars
             PROVE  OwnRows'
  OBVIOUS
<1> USE IdentityAssumption
<1>1. ASSUME NEW r \in Requests, CommitMapping(r) PROVE OwnRows'
  <2>1. /\ mappings' = mappings \cup {NewMapping(r)} /\ UNCHANGED user
        /\ NewMapping(r).id = r /\ NewMapping(r).oid = cand[r].oid /\ cand[r] # None
    BY <1>1 DEF CommitMapping, NewMapping, Typed, Stages, StageOf
  <2>2. cand[r].oid = Oid(r)
    BY <2>1 DEF Rows, CandOwn
  <2> QED BY <2>1, <2>2 DEF OwnRows, Oid
<1>2. ASSUME NEW a \in Approvals, ApproveCommit(a) PROVE OwnRows'
  <2>1. UNCHANGED user /\ ApprovedMapping(a).id \notin Requests
        /\ mappings' \subseteq mappings \cup {ApprovedMapping(a)}
    BY <1>2 DEF ApproveCommit, ApprovedMapping, reqs
  <2> QED BY <2>1 DEF OwnRows, Oid
<1>3. ASSUME NEW m \in mappings, Suspend(m) PROVE OwnRows'
  BY <1>3, SuspendKeeps DEF OwnRows, Oid
<1>4. ASSUME NEW r \in Requests, Start(r) PROVE OwnRows'
  <2>1. UNCHANGED mappings /\ pc[r] \notin Inserted /\ \A q \in Requests \ {r} : user'[q] = user[q]
    BY <1>4 DEF Start, tables, Inserted, Typed, TypeOK
  <2> QED BY <2>1 DEF OwnRows, Creators, Oid
<1>5. CASE UNCHANGED <<mappings, user>>
  BY <1>5 DEF OwnRows, Oid
<1> QED
  BY <1>1, <1>2, <1>3, <1>4, <1>5 DEF Next, Proceed, Finished, vars, tables, reqs,
     FindVerified, Configure, LookupNoRecord, LookupRecord, CheckConflicts, RollBackMapping,
     RecheckConflicts, AuditProvision, FetchOwnData, AuditView, Abort, ApproveCheck

(* What one row asks of the audit table. *)
RecordedIn(m, at, how, events) ==
  \/ at = "auditProvision"
  \/ how = "ABORTED"
  \/ \E e \in events :
       /\ e.correlation = m.id /\ e.action = "IDENTITY_AUTO_PROVISION"
       /\ e.target = m.pn /\ Canonical[e.claim] = m.oid

(* The provisioning event of a request that made a row is about that row.  *)
LEMMA EventOfRow ==
  ASSUME Typed, Rows, Held, OwnRows, NEW r \in Requests, pc[r] = "auditProvision",
         NEW m \in mappings, m.id = r
  PROVE  LET e == Event(r, "IDENTITY_AUTO_PROVISION")
         IN  /\ e.correlation = r /\ e.action = "IDENTITY_AUTO_PROVISION"
             /\ e.target = m.pn /\ Canonical[e.claim] = m.oid
<1>1. held[r] # None /\ m.oid = Oid(r)
  BY DEF Typed, Stages, StageOf, OwnRows
<1>2. PICK n \in mappings : SameRow(n, held[r])
  BY <1>1 DEF Held, HeldBy
<1>3. held[r].oid = Oid(r)
  BY <1>1 DEF Held, HeldBy
<1>4. n = m
  BY <1>1, <1>2, <1>3 DEF SameRow, Rows, UniqueOid
<1> QED BY <1>1, <1>2, <1>4 DEF Event, SameRow, Oid

(* An outcome is there only once a request is over. *)
LEMMA CreationsNext ==
  Typed /\ Typed' /\ Rows /\ Creators /\ Held /\ Refusals /\ Trail /\ [Next]_vars
    => CreationsOnRecord'
<1> SUFFICES ASSUME Typed, Typed', Rows, Creators, Held, Refusals, Trail, [Next]_vars
             PROVE  CreationsOnRecord'
  OBVIOUS
<1> USE IdentityAssumption
<1>1. SUFFICES ASSUME NEW m \in mappings', m.id \in Requests
               PROVE  RecordedIn(m, pc'[m.id], outcome'[m.id], audit')
  BY DEF CreationsOnRecord, RecordedIn
<1>2. ASSUME NEW o \in mappings, o.id = m.id, o.pn = m.pn, o.oid = m.oid
      PROVE  RecordedIn(m, pc[m.id], outcome[m.id], audit)
  BY <1>1, <1>2 DEF Trail, CreationsOnRecord, RecordedIn
<1>3. ASSUME NEW o \in mappings, o.id = m.id, o.pn = m.pn, o.oid = m.oid,
             audit \subseteq audit', pc'[m.id] = pc[m.id], outcome'[m.id] = outcome[m.id]
      PROVE  RecordedIn(m, pc'[m.id], outcome'[m.id], audit')
  BY <1>2, <1>3 DEF RecordedIn
<1>4. ASSUME NEW r \in Requests, CommitMapping(r)
      PROVE  RecordedIn(m, pc'[m.id], outcome'[m.id], audit')
  <2>1. /\ mappings' = mappings \cup {NewMapping(r)} /\ NewMapping(r).id = r
        /\ pc' = [pc EXCEPT ![r] = "auditProvision"] /\ UNCHANGED <<audit, outcome>>
    BY <1>4 DEF CommitMapping, NewMapping, GoTo
  <2>2. CASE m.id = r
    BY <2>1, <2>2 DEF RecordedIn, Typed, TypeOK
  <2>3. CASE m.id # r
    BY <1>3, <2>1, <2>3 DEF Typed, TypeOK
  <2> QED BY <2>2, <2>3
<1>5. ASSUME NEW a \in Approvals, ApproveCommit(a)
      PROVE  RecordedIn(m, pc'[m.id], outcome'[m.id], audit')
  <2>1. /\ UNCHANGED <<audit, pc, outcome>> /\ ApprovedMapping(a).id \notin Requests
        /\ mappings' \subseteq mappings \cup {ApprovedMapping(a)}
    BY <1>5 DEF ApproveCommit, ApprovedMapping, reqs
  <2> QED BY <1>1, <1>3, <2>1
<1>6. ASSUME NEW n \in mappings, Suspend(n)
      PROVE  RecordedIn(m, pc'[m.id], outcome'[m.id], audit')
  <2>1. \E o \in mappings : o.id = m.id /\ o.pn = m.pn /\ o.oid = m.oid
    BY <1>6, SuspendKeeps
  <2> QED BY <1>3, <1>6, <2>1, SuspendKeeps
<1>7. ASSUME NEW r \in Requests, AuditProvision(r)
      PROVE  RecordedIn(m, pc'[m.id], outcome'[m.id], audit')
  <2>1. /\ UNCHANGED mappings /\ pc[r] = "auditProvision"
        /\ audit' = audit \cup {Event(r, "IDENTITY_AUTO_PROVISION")}
    BY <1>7 DEF AuditProvision
  <2>2. CASE m.id = r
    BY <2>1, <2>2, EventOfRow DEF RecordedIn, Trail
  <2>3. CASE m.id # r
    <3>1. pc'[m.id] = pc[m.id] /\ outcome'[m.id] = outcome[m.id]
      BY <1>1, <1>7, <2>3 DEF AuditProvision, Resolve, Answer, GoTo, Typed, TypeOK
    <3> QED BY <1>3, <2>1, <3>1
  <2> QED BY <2>2, <2>3
<1>8. ASSUME NEW r \in Requests,
             Start(r) \/ (Proceed(r) /\ ~CommitMapping(r) /\ ~AuditProvision(r)) \/ Abort(r)
      PROVE  RecordedIn(m, pc'[m.id], outcome'[m.id], audit')
  <2>1. UNCHANGED mappings /\ audit \subseteq audit'
        /\ \A q \in Requests \ {r} : pc'[q] = pc[q] /\ outcome'[q] = outcome[q]
    BY <1>8 DEF Start, Proceed, Abort, FindVerified, Configure, LookupNoRecord, NoRecordReply,
       LookupRecord, CheckConflicts, RollBackMapping, RecheckConflicts,
       FetchOwnData, AuditView, Resolve, Answer, GoTo, tables, Typed, TypeOK
  <2>2. CASE m.id # r
    BY <1>1, <1>3, <2>1, <2>2
  <2>3. CASE m.id = r /\ Abort(r)
    BY <2>3 DEF Abort, Answer, RecordedIn, Typed, TypeOK
  <2>4. CASE m.id = r /\ ~Abort(r)
    <3>1. pc[r] # "done" /\ pc[r] # "auditProvision" /\ outcome[r] # "ABORTED"
      <4>1. pc[r] # "done" /\ pc[r] # "auditProvision"
        BY <1>8, <2>4 DEF Start, Proceed, FindVerified, Configure, LookupNoRecord,
           LookupRecord, CheckConflicts, RollBackMapping, RecheckConflicts, FetchOwnData,
           AuditView
      <4> QED BY <4>1 DEF Refusals, RefusalOf
    <3> QED BY <1>2, <2>1, <2>4, <3>1 DEF RecordedIn
  <2> QED BY <2>2, <2>3, <2>4
<1>9. ASSUME UNCHANGED <<mappings, audit, pc, outcome>>
      PROVE  RecordedIn(m, pc'[m.id], outcome'[m.id], audit')
  BY <1>3, <1>9
<1> QED
  BY <1>4, <1>5, <1>6, <1>7, <1>8, <1>9 DEF Next, Proceed, Finished, vars, tables, reqs,
     ApproveCheck

(* Events stay true while rows are kept, and a new one is true of what the *)
(* request holds.                                                          *)
LEMMA EventsNext ==
  Typed /\ Typed' /\ Held /\ EventsAreOwn /\ [Next]_vars => EventsAreOwn'
<1> SUFFICES ASSUME Typed, Typed', Held, EventsAreOwn, [Next]_vars, NEW e \in audit'
             PROVE  /\ e.action = "IDENTITY_AUTO_PROVISION" => e.target # None
                    /\ e.target # None =>
                         \E m \in mappings' : m.oid = Canonical[e.claim] /\ m.pn = e.target
  BY DEF EventsAreOwn
<1> USE IdentityAssumption
<1>1. CASE e \in audit
  <2>1. /\ e.action = "IDENTITY_AUTO_PROVISION" => e.target # None
        /\ e.target # None =>
             \E m \in mappings : m.oid = Canonical[e.claim] /\ m.pn = e.target
    BY <1>1 DEF EventsAreOwn
  <2>2. RowsKept
    BY RowsAreKept
  <2> QED BY <2>1, <2>2 DEF RowsKept, SameRow
<1>2. CASE e \notin audit
  <2>1. PICK r \in Requests :
          /\ UNCHANGED mappings
          /\ \/ pc[r] = "auditProvision" /\ e = Event(r, "IDENTITY_AUTO_PROVISION")
             \/ e = Event(r, "VIEW")
    BY <1>2 DEF Next, Proceed, Finished, vars, tables, reqs, Start, FindVerified, Configure,
       LookupNoRecord, LookupRecord, CheckConflicts, CommitMapping, RollBackMapping,
       RecheckConflicts, AuditProvision, FetchOwnData, AuditView, Abort, ApproveCheck,
       ApproveCommit, Suspend
  <2>2. e.target # None => held[r] # None /\ e.target = held[r].pn
    BY <2>1 DEF Event
  <2>3. e.claim = user[r].claim
    BY <2>1 DEF Event
  <2>4. held[r] # None => \E m \in mappings : m.oid = Oid(r) /\ m.pn = held[r].pn
    BY DEF Held, HeldBy, SameRow
  <2>5. pc[r] = "auditProvision" => held[r] # None /\ held[r].pn # None
    BY DEF Typed, TypeOK, Stages, StageOf, Mapping
  <2>6. e.action = "IDENTITY_AUTO_PROVISION" => e.target # None
    BY <2>1, <2>5 DEF Event
  <2> QED BY <2>1, <2>2, <2>3, <2>4, <2>6 DEF Oid
<1> QED BY <1>1, <1>2

LEMMA TrailAlways == Spec => []Trail
<1>1. Init => Trail
  BY DEF Init, Trail, OwnRows, CreationsOnRecord, EventsAreOwn
<1>2. ASSUME Typed, Typed', Rows, Creators, Held, Refusals, Trail, [Next]_vars
      PROVE  Trail'
  <2>1. OwnRows'
    BY <1>2, OwnRowsNext DEF Trail
  <2>2. CreationsOnRecord'
    BY <1>2, CreationsNext
  <2>3. EventsAreOwn'
    BY <1>2, EventsNext DEF Trail
  <2> QED BY <2>1, <2>2, <2>3 DEF Trail
<1> QED BY <1>1, <1>2, TypedAlways, RowsAlways, CreatorsAlways, HeldAlways,
           RefusalsAlways, PTL DEF Spec

(* No answer and no event of the audit table is about another person's     *)
(* worker, with any number of requests and approvals interleaved.          *)
THEOREM AnswersAreOwn == Spec => []NobodyElsesWorker
<1>1. ServedIsOwn /\ Trail => NobodyElsesWorker
  BY DEF NobodyElsesWorker, Trail
<1> QED BY <1>1, ServedAlways, TrailAlways, PTL

(* Whoever was answered with data is on record with the worker it saw, and *)
(* a mapping made by a first access lacks its event only if the request    *)
(* died between the two commits.                                           *)
THEOREM AnswersAreAudited == Spec => []AuditTrail
<1>1. Audited => AuditedBeforeAnswer
  BY DEF Audited, AuditedOf, AuditedBeforeAnswer
<1>2. Audited /\ Trail => AuditTrail
  BY <1>1 DEF AuditTrail, Trail
<1> QED BY <1>2, AuditedAlways, TrailAlways, PTL

(* What the README says of a creation and its audit event is true of every *)
(* request that ends by itself.                                            *)
THEOREM CreationIsAuditedUnlessAborted ==
  Spec => [](\A r \in Requests :
               /\ pc[r] = "done" /\ outcome[r] # "ABORTED"
               /\ \E m \in mappings : m.id = r
               => \E e \in audit : e.correlation = r /\ e.action = "IDENTITY_AUTO_PROVISION")
<1>1. Trail => \A r \in Requests :
               /\ pc[r] = "done" /\ outcome[r] # "ABORTED"
               /\ \E m \in mappings : m.id = r
               => \E e \in audit : e.correlation = r /\ e.action = "IDENTITY_AUTO_PROVISION"
  BY DEF Trail, CreationsOnRecord
<1> QED BY <1>1, TrailAlways, PTL
-----------------------------------------------------------------------------
(* Work: a request has so many steps before it, and none leads back.       *)

StepsFrom ==
  [idle |-> 10, find |-> 9, configure |-> 8, lookup |-> 7, conflicts |-> 6, insert |-> 5,
   recheck |-> 4, auditProvision |-> 3, fetch |-> 2, auditView |-> 1, done |-> 0]

Left(r) == StepsFrom[pc[r]]

LEMMA StepsAreLeft == Typed => \A r \in Requests : Left(r) \in 0..10 /\ (Left(r) = 0 <=> pc[r] = "done")
<1> SUFFICES ASSUME Typed, NEW r \in Requests
             PROVE  Left(r) \in 0..10 /\ (Left(r) = 0 <=> pc[r] = "done")
  OBVIOUS
<1>1. pc[r] \in Phases
  BY DEF Typed, TypeOK
<1> QED BY <1>1 DEF Left, StepsFrom, Phases

Untouched(r) ==
  /\ pc'[r] = pc[r] /\ user'[r] = user[r] /\ cand'[r] = cand[r]
  /\ held'[r] = held[r] /\ outcome'[r] = outcome[r] /\ served'[r] = served[r]

LEMMA RequestStep ==
  ASSUME Typed, NEW r \in Requests, Start(r) \/ Proceed(r) \/ Abort(r)
  PROVE  Left(r)' < Left(r) /\ \A q \in Requests \ {r} : Untouched(q)
<1>1. \A q \in Requests \ {r} : Untouched(q)
  BY DEF Untouched, Start, Proceed, Abort, FindVerified, Configure, LookupNoRecord,
     NoRecordReply, LookupRecord, CheckConflicts, CommitMapping, RollBackMapping,
     RecheckConflicts, AuditProvision, FetchOwnData, AuditView, Resolve, Answer, GoTo,
     tables, Typed, TypeOK
<1> SUFFICES Left(r)' < Left(r)
  BY <1>1
<1> pc \in [Requests -> Phases]
  BY DEF Typed, TypeOK
<1>2. CASE Start(r) \/ FindVerified(r) \/ Configure(r)
  <2>1. \/ pc[r] = "idle" /\ pc'[r] = "find"
        \/ pc[r] = "find" /\ pc'[r] \in {"configure", "auditView", "fetch", "done"}
        \/ pc[r] = "configure" /\ pc'[r] \in {"lookup", "done"}
    BY <1>2 DEF Start, FindVerified, Configure, Resolve, Answer, GoTo
  <2> QED BY <2>1 DEF Left, StepsFrom
<1>3. CASE LookupNoRecord(r) \/ LookupRecord(r)
  <2>1. pc[r] = "lookup" /\ pc'[r] \in {"conflicts", "auditView", "fetch", "done"}
    BY <1>3 DEF LookupNoRecord, NoRecordReply, LookupRecord, Resolve, Answer, GoTo
  <2> QED BY <2>1 DEF Left, StepsFrom
<1>4. CASE CheckConflicts(r) \/ CommitMapping(r) \/ RollBackMapping(r) \/ RecheckConflicts(r)
  <2>1. \/ pc[r] = "conflicts" /\ pc'[r] \in {"insert", "auditProvision", "done"}
        \/ pc[r] = "insert" /\ pc'[r] \in {"recheck", "auditProvision"}
        \/ pc[r] = "recheck" /\ pc'[r] \in {"auditProvision", "done"}
    BY <1>4 DEF CheckConflicts, CommitMapping, RollBackMapping, RecheckConflicts, Answer, GoTo
  <2> QED BY <2>1 DEF Left, StepsFrom
<1>5. CASE AuditProvision(r) \/ FetchOwnData(r) \/ AuditView(r)
  <2>1. \/ pc[r] = "auditProvision" /\ pc'[r] \in {"fetch", "auditView", "done"}
        \/ pc[r] = "fetch" /\ pc'[r] \in {"auditView", "done"}
        \/ pc[r] = "auditView" /\ pc'[r] = "done"
    BY <1>5 DEF AuditProvision, FetchOwnData, AuditView, Resolve, Answer, GoTo
  <2> QED BY <2>1 DEF Left, StepsFrom
<1>6. CASE Abort(r)
  <2>1. pc[r] # "done" /\ pc'[r] = "done"
    BY <1>6 DEF Abort, Answer, GoTo
  <2>2. pc[r] \in Phases
    OBVIOUS
  <2> QED BY <2>1, <2>2 DEF Left, StepsFrom, Phases
<1> QED BY <1>2, <1>3, <1>4, <1>5, <1>6 DEF Proceed

(* The safety half of EveryRequestAnswered: a request takes ten steps at   *)
(* most, each nearer to its answer, and no step of another one, of the     *)
(* tool or of an administrator sets it back (provision() has no loop, and  *)
(* its rollback is followed by one second look).                           *)
THEOREM RequestsOnlyAdvance ==
  Spec => /\ [](\A r \in Requests : Left(r) \in 0..10 /\ (Left(r) = 0 <=> pc[r] = "done"))
          /\ [][\A r \in Requests : Untouched(r) \/ Left(r)' < Left(r)]_vars
<1>1. Typed /\ [Next]_vars => [\A r \in Requests : Untouched(r) \/ Left(r)' < Left(r)]_vars
  <2> SUFFICES ASSUME Typed, Next, NEW r \in Requests
               PROVE  Untouched(r) \/ Left(r)' < Left(r)
    OBVIOUS
  <2>1. ASSUME NEW q \in Requests, Start(q) \/ Proceed(q) \/ Abort(q)
        PROVE  Untouched(r) \/ Left(r)' < Left(r)
    BY <2>1, RequestStep
  <2>2. CASE UNCHANGED reqs
    BY <2>2 DEF reqs, Untouched
  <2> QED
    BY <2>1, <2>2 DEF Next, Finished, vars, reqs, ApproveCheck, ApproveCommit, Suspend
<1> QED BY <1>1, StepsAreLeft, TypedAlways, PTL DEF Spec
-----------------------------------------------------------------------------
(* Races: a creator keeps away from what it saw, and ids outlive commits.  *)

(* What creator a of a row for worker w owes to those of rows that it saw. *)
ClearOf(a, w, rows, ids) ==
  \A n \in rows : n.id \in ids =>
    /\ n.oid # w.oid
    /\ n.pn = w.pn /\ n.co = w.co => a \in Approvals /\ ~n.enabled

Races ==
  /\ seen \in [Actors -> SUBSET Actors]
  /\ \A a \in Actors : \A i \in seen[a] : \E m \in mappings : m.id = i
  /\ \A r \in Requests : pc[r] = "insert" => ClearOf(r, cand[r], mappings, seen[r])
  /\ \A a \in Approvals : cli[a].phase = "insert" =>
       ClearOf(a, cli[a].arg, mappings, seen[a])
  /\ \A m \in mappings : ClearOf(m.id, m, mappings, seen[m.id])

(* The rows later have rows before behind them, unless nobody saw them. *)
LEMMA ClearStays ==
  ASSUME NEW a, NEW w, NEW rows, NEW later, NEW ids, ClearOf(a, w, rows, ids),
         \A n \in later : n.id \notin ids \/
           \E o \in rows : o.id = n.id /\ o.oid = n.oid /\ o.pn = n.pn /\ o.co = n.co
                         /\ (n.enabled => o.enabled)
  PROVE  ClearOf(a, w, later, ids)
  BY DEF ClearOf

(* Nobody who decides has a row, and a decision meets no conflict. *)
LEMMA DecidersAreNew ==
  ASSUME Typed, Creators, NEW m \in mappings
  PROVE  ~Decides(m.id)
  BY IdentityAssumption DEF Creators, Inserted, Decides, Typed, TypeOK

LEMMA DecisionsOfRequests ==
  ASSUME Typed, [Next]_vars, NEW r \in Requests, pc'[r] = "insert"
  PROVE  \/ Decides(r) /\ UNCHANGED mappings /\ FindConflicts(cand'[r]) = {}
         \/ pc[r] = "insert" /\ cand'[r] = cand[r]
<1>1. CASE pc'[r] = pc[r]
  <2>1. cand'[r] = cand[r]
    BY <1>1, IdentityAssumption DEF Next, Proceed, Finished, vars, tables, reqs, Start,
       FindVerified, Configure, LookupNoRecord, LookupRecord, CheckConflicts, CommitMapping,
       RollBackMapping, RecheckConflicts, AuditProvision, FetchOwnData, AuditView, Abort,
       ApproveCheck, ApproveCommit, Suspend, Answer, GoTo, Typed, TypeOK
  <2> QED BY <1>1, <2>1
<1>2. CASE pc'[r] # pc[r]
  <2>1. PICK q \in Requests : Start(q) \/ Proceed(q) \/ Abort(q)
    BY <1>2 DEF Next, Finished, vars, reqs, ApproveCheck, ApproveCommit, Suspend
  <2>2. q = r /\ CheckConflicts(q)
    BY <1>2, <2>1 DEF Start, Proceed, Abort, FindVerified, Configure, LookupNoRecord,
       NoRecordReply, LookupRecord, CheckConflicts, CommitMapping, RollBackMapping,
       RecheckConflicts, AuditProvision, FetchOwnData, AuditView, Resolve, Answer, GoTo,
       Typed, TypeOK
  <2> QED
    BY <2>2 DEF CheckConflicts, Decides, tables, GoTo, Answer, Typed, TypeOK
<1> QED BY <1>1, <1>2

LEMMA DecisionsOfTools ==
  ASSUME Typed, [Next]_vars, NEW a \in Approvals, cli'[a].phase = "insert"
  PROVE  \/ /\ Decides(a) /\ UNCHANGED mappings
            /\ \A n \in mappings :
                 /\ n.oid # cli'[a].arg.oid
                 /\ n.pn = cli'[a].arg.pn /\ n.co = cli'[a].arg.co => ~n.enabled
         \/ cli'[a] = cli[a]
<1>1. CASE cli' = cli
  BY <1>1
<1>2. CASE cli' # cli
  <2>1. PICK b \in Approvals : ApproveCheck(b) \/ ApproveCommit(b)
    BY <1>2 DEF Next, Proceed, Finished, vars, tables, reqs, Start, FindVerified, Configure,
       LookupNoRecord, LookupRecord, CheckConflicts, CommitMapping, RollBackMapping,
       RecheckConflicts, AuditProvision, FetchOwnData, AuditView, Abort, Suspend
  <2>2. CASE ApproveCommit(b)
    BY <2>2 DEF ApproveCommit, Typed, TypeOK
  <2>3. CASE ApproveCheck(b) /\ b # a
    BY <2>3 DEF ApproveCheck, Typed, TypeOK
  <2>4. CASE ApproveCheck(b) /\ b = a
    <3>1. cli[a].phase = "start" /\ UNCHANGED mappings
      BY <2>4 DEF ApproveCheck, tables
    <3>2. PICK c \in Candidate :
            cli' = [cli EXCEPT ![a] =
              [phase |-> IF {m \in mappings : m.oid = c.oid \/
                               (m.pn = c.pn /\ m.co = c.co /\ m.enabled)} = {}
                         THEN "insert" ELSE "done", arg |-> c]]
      BY <2>4 DEF ApproveCheck
    <3>3. cli'[a].arg = c /\
          {m \in mappings : m.oid = c.oid \/ (m.pn = c.pn /\ m.co = c.co /\ m.enabled)} = {}
      BY <3>2 DEF Typed, TypeOK
    <3> QED BY <3>1, <3>3 DEF Decides
  <2> QED BY <2>1, <2>2, <2>3, <2>4
<1> QED BY <1>1, <1>2

(* A committed row is new: nobody has seen its id. *)
LEMMA RowsOfStep ==
  ASSUME Typed, Creators, Races, [Next]_vars, NEW n \in mappings'
  PROVE  \/ \E o \in mappings :
              /\ o.id = n.id /\ o.oid = n.oid /\ o.pn = n.pn /\ o.co = n.co
              /\ n.enabled => o.enabled
         \/ /\ \A a \in Actors : n.id \notin seen[a]
            /\ \A a \in Actors : ~Decides(a)
            /\ ClearOf(n.id, n, mappings, seen[n.id])
            /\ \A m \in mappings' : m = n \/ m \in mappings
<1> USE IdentityAssumption
<1>1. ASSUME NEW r \in Requests, CommitMapping(r), n \notin mappings
      PROVE  /\ \A a \in Actors : n.id \notin seen[a]
             /\ \A a \in Actors : ~Decides(a)
             /\ ClearOf(n.id, n, mappings, seen[n.id])
             /\ \A m \in mappings' : m = n \/ m \in mappings
  <2>1. /\ pc[r] = "insert" /\ n = NewMapping(r) /\ mappings' = mappings \cup {n}
        /\ pc' = [pc EXCEPT ![r] = "auditProvision"] /\ UNCHANGED cli
    BY <1>1 DEF CommitMapping, GoTo
  <2>2. n.id = r /\ n.oid = cand[r].oid /\ n.pn = cand[r].pn /\ n.co = cand[r].co
    BY <2>1 DEF NewMapping
  <2>3. \A a \in Actors : r \notin seen[a]
    BY <2>1 DEF Races, Creators, Inserted
  <2>4. \A a \in Actors : ~Decides(a)
    BY <2>1 DEF Decides, Actors, Typed, TypeOK
  <2>5. ClearOf(r, cand[r], mappings, seen[r])
    BY <2>1 DEF Races
  <2> QED BY <2>1, <2>2, <2>3, <2>4, <2>5 DEF ClearOf
<1>2. ASSUME NEW b \in Approvals, ApproveCommit(b), n \notin mappings
      PROVE  /\ \A a \in Actors : n.id \notin seen[a]
             /\ \A a \in Actors : ~Decides(a)
             /\ ClearOf(n.id, n, mappings, seen[n.id])
             /\ \A m \in mappings' : m = n \/ m \in mappings
  <2>1. /\ cli[b].phase = "insert" /\ n = ApprovedMapping(b) /\ mappings' = mappings \cup {n}
        /\ cli' = [cli EXCEPT ![b].phase = "done"] /\ UNCHANGED pc
    BY <1>2 DEF ApproveCommit, reqs
  <2>2. /\ n.id = b /\ n.oid = cli[b].arg.oid /\ n.pn = cli[b].arg.pn
        /\ n.co = cli[b].arg.co
    BY <2>1 DEF ApprovedMapping
  <2>3. \A a \in Actors : b \notin seen[a]
    BY <2>1 DEF Races, Creators
  <2>4. \A a \in Actors : ~Decides(a)
    BY <2>1 DEF Decides, Actors, Typed, TypeOK
  <2>5. ClearOf(b, cli[b].arg, mappings, seen[b])
    BY <2>1 DEF Races
  <2> QED BY <2>1, <2>2, <2>3, <2>4, <2>5 DEF ClearOf
<1>3. ASSUME NEW m \in mappings, Suspend(m)
      PROVE  \E o \in mappings :
               /\ o.id = n.id /\ o.oid = n.oid /\ o.pn = n.pn /\ o.co = n.co
               /\ n.enabled => o.enabled
  BY <1>3 DEF Suspend, Typed, TypeOK, Mapping
<1>4. CASE n \in mappings
  BY <1>4
<1>5. CASE UNCHANGED mappings
  BY <1>5
<1> QED
  BY <1>1, <1>2, <1>3, <1>4, <1>5 DEF Next, Proceed, Finished, vars, tables, Start,
     FindVerified, Configure, LookupNoRecord, LookupRecord, CheckConflicts, RollBackMapping,
     RecheckConflicts, AuditProvision, FetchOwnData, AuditView, Abort, ApproveCheck

LEMMA RacesNext ==
  Typed /\ Typed' /\ Creators /\ Creators' /\ Races /\ [Next /\ Remember]_<<vars, seen>>
    => Races'
<1> SUFFICES ASSUME Typed, Typed', Creators, Creators', Races,
                    [Next /\ Remember]_<<vars, seen>>
             PROVE  Races'
  OBVIOUS
<1>1. CASE UNCHANGED <<vars, seen>>
  BY <1>1 DEF Races, vars, tables, reqs
<1>2. CASE Next /\ Remember
  <2> DEFINE ids == {m.id : m \in mappings}
  <2>1. ids \subseteq Actors
    BY DEF Typed, TypeOK, Mapping
  <2>2. \A a \in Actors : seen'[a] = IF Decides(a) THEN ids ELSE seen[a]
    BY <1>2 DEF Remember
  <2>3. seen' \in [Actors -> SUBSET Actors]
    BY <1>2, <2>1 DEF Remember, Races
  <2>4. RowsKept
    BY <1>2, RowsAreKept
  <2> HIDE DEF ids
  <2>5. \A a \in Actors : \A i \in seen'[a] : \E m \in mappings' : m.id = i
    <3> SUFFICES ASSUME NEW a \in Actors, NEW i \in seen'[a]
                 PROVE  \E m \in mappings' : m.id = i
      OBVIOUS
    <3>1. \E m \in mappings : m.id = i
      <4>1. CASE i \in ids
        BY <4>1 DEF ids
      <4>2. CASE i \in seen[a]
        BY <4>2 DEF Races
      <4> QED BY <2>2, <4>1, <4>2
    <3> QED BY <2>4, <3>1 DEF RowsKept, SameRow
  <2>6. ASSUME NEW a \in Actors, ~Decides(a), NEW w, ClearOf(a, w, mappings, seen[a])
        PROVE  ClearOf(a, w, mappings', seen'[a])
    <3>1. seen'[a] = seen[a]
      BY <2>2, <2>6
    <3>2. \A n \in mappings' : n.id \notin seen[a] \/
            \E o \in mappings : o.id = n.id /\ o.oid = n.oid /\ o.pn = n.pn /\ o.co = n.co
                              /\ (n.enabled => o.enabled)
      BY <1>2, <2>6, RowsOfStep
    <3> QED BY <2>6, <3>1, <3>2, ClearStays
  <2>7. ASSUME NEW r \in Requests, pc'[r] = "insert"
        PROVE  ClearOf(r, cand'[r], mappings', seen'[r])
    <3>1. CASE FindConflicts(cand'[r]) = {} /\ UNCHANGED mappings
      <4>1. \A n \in mappings : n.oid # cand'[r].oid /\ ~(n.pn = cand'[r].pn /\ n.co = cand'[r].co)
        BY <3>1 DEF FindConflicts
      <4> QED BY <3>1, <4>1 DEF ClearOf
    <3>2. CASE pc[r] = "insert" /\ cand'[r] = cand[r]
      <4>1. r \in Actors /\ ~Decides(r)
        BY <3>2, IdentityAssumption DEF Decides, Actors
      <4>2. ClearOf(r, cand[r], mappings, seen[r])
        BY <3>2 DEF Races
      <4> QED BY <2>6, <3>2, <4>1, <4>2
    <3> QED BY <1>2, <2>7, <3>1, <3>2, DecisionsOfRequests
  <2>8. ASSUME NEW a \in Approvals, cli'[a].phase = "insert"
        PROVE  ClearOf(a, cli'[a].arg, mappings', seen'[a])
    <3>1. CASE /\ UNCHANGED mappings
               /\ \A n \in mappings :
                    /\ n.oid # cli'[a].arg.oid
                    /\ n.pn = cli'[a].arg.pn /\ n.co = cli'[a].arg.co => ~n.enabled
      BY <3>1 DEF ClearOf
    <3>2. CASE cli'[a] = cli[a]
      <4>1. a \in Actors /\ ~Decides(a)
        BY <2>8, <3>2, IdentityAssumption DEF Decides, Actors
      <4>2. ClearOf(a, cli[a].arg, mappings, seen[a])
        BY <2>8, <3>2 DEF Races
      <4> QED BY <2>6, <3>2, <4>1, <4>2
    <3> QED BY <1>2, <2>8, <3>1, <3>2, DecisionsOfTools
  <2>9. ASSUME NEW m \in mappings' PROVE ClearOf(m.id, m, mappings', seen'[m.id])
    <3>1. m.id \in Actors
      BY DEF Typed, TypeOK, Mapping
    <3>2. CASE \E o \in mappings :
                 /\ o.id = m.id /\ o.oid = m.oid /\ o.pn = m.pn /\ o.co = m.co
                 /\ m.enabled => o.enabled
      <4>1. PICK o \in mappings : o.id = m.id /\ o.oid = m.oid /\ o.pn = m.pn /\ o.co = m.co
        BY <3>2
      <4>2. ClearOf(m.id, m, mappings, seen[m.id])
        BY <4>1 DEF Races, ClearOf
      <4>3. ~Decides(m.id)
        BY <4>1, DecidersAreNew
      <4> QED BY <2>6, <3>1, <4>2, <4>3
    <3>3. CASE /\ \A a \in Actors : ~Decides(a)
               /\ ClearOf(m.id, m, mappings, seen[m.id])
      BY <2>6, <3>1, <3>3
    <3> QED BY <1>2, <3>2, <3>3, RowsOfStep
  <2> QED BY <2>3, <2>5, <2>7, <2>8, <2>9 DEF Races
<1> QED BY <1>1, <1>2

(* Nothing but a memory is added: whatever holds of Identity holds here. *)
LEMMA RacesAreIdentity == RaceSpec => Spec
<1>1. RaceInit => Init
  BY DEF RaceInit
<1>2. [Next /\ Remember]_<<vars, seen>> => [Next]_vars
  OBVIOUS
<1> QED BY <1>1, <1>2, PTL DEF RaceSpec, Spec

LEMMA RacesAlways == RaceSpec => []Races
<1>1. RaceInit => Races
  BY DEF RaceInit, Init, Races
<1> QED BY <1>1, RacesNext, RacesAreIdentity, TypedAlways, CreatorsAlways, PTL DEF RaceSpec

LEMMA RespectExcludes == Typed /\ Races => SeenIsRespected /\ DuplicatesNeedRace
<1> SUFFICES ASSUME Typed, Races PROVE SeenIsRespected /\ DuplicatesNeedRace
  OBVIOUS
<1>1. SeenIsRespected
  BY DEF SeenIsRespected, Races, ClearOf
<1>2. DuplicatesNeedRace
  BY <1>1 DEF SeenIsRespected, DuplicatesNeedRace, Active
<1> QED BY <1>1, <1>2

(* One object id has one row, whoever races.  One worker has one active    *)
(* row as far as its company is spelled alike, unless two creators looked  *)
(* before either had committed: nothing else lets a second one in.         *)
THEOREM DuplicatesComeFromRaces == RaceSpec => []OneRowEach
<1>1. Rows => UniqueOid
  BY DEF Rows
<1>2. Typed /\ Rows /\ Races => OneRowEach
  BY <1>1, RespectExcludes DEF OneRowEach
<1> QED BY <1>2, RacesAlways, RacesAreIdentity, TypedAlways, RowsAlways, PTL
=============================================================================
