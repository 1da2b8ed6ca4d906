------------------------ MODULE IdentityRefinement ------------------------
(***************************************************************************)
(* Identity implements IdentityRegistry: every step of a request, a tool   *)
(* or an administrator is a step of the registry or leaves it as it is.    *)
(***************************************************************************)
EXTENDS IdentityProofs

Good == Typed /\ Rows /\ Creators /\ Held /\ Refusals /\ Audited

(* The binding of a person is what the one row of that person says. *)
LEMMA BoundToRow ==
  ASSUME UniqueOid, NEW m \in mappings
  PROVE  BoundTo(m.oid) = [pn |-> m.pn, co |-> m.co]
<1>1. \A n \in mappings : n.oid = m.oid => n = m
  BY DEF UniqueOid
<1>2. (CHOOSE n \in mappings : n.oid = m.oid) = m
  BY <1>1
<1> QED BY <1>2 DEF BoundTo

LEMMA BoundIffRow ==
  ASSUME Typed, UniqueOid, NEW o \in Oids
  PROVE  BoundTo(o) # None <=> \E m \in mappings : m.oid = o
<1>1. ASSUME NEW m \in mappings, m.oid = o PROVE BoundTo(o) # None
  <2>1. m.pn \in Persons /\ m.co \in Companies
    BY DEF Typed, TypeOK, Mapping
  <2>2. [pn |-> m.pn, co |-> m.co] \in [pn : Persons, co : Companies]
    BY <2>1
  <2> QED BY <1>1, <2>2, BoundToRow, IdentityAssumption
<1> QED BY <1>1 DEF BoundTo

(* A row for a new person, made by someone who made none before. *)
LEMMA InsertBinds ==
  ASSUME Good, Good', NEW new \in Mapping, OidIsFree(new.oid), Active(new),
         mappings' = mappings \cup {new},
         [oid |-> new.oid, pn |-> new.pn, co |-> new.co] \in vouched,
         \A m \in mappings : m.id # new.id,
         UNCHANGED <<vouched, barred, user, outcome, served>>
  PROVE  Registry!Next
<1> DEFINE c == [oid |-> new.oid, pn |-> new.pn, co |-> new.co]
<1>1. c \in Candidate
  BY DEF Mapping, Candidate
<1>2. UniqueOid /\ UniqueOid'
  BY DEF Good, Rows
<1>3. Bound[c.oid] = None
  BY <1>1 DEF Bound, BoundTo, OidIsFree, Candidate
<1>4. Bound' = [Bound EXCEPT ![c.oid] = [pn |-> c.pn, co |-> c.co]]
  <2>1. BoundTo(c.oid)' = [pn |-> c.pn, co |-> c.co]
    BY <1>2 DEF UniqueOid, BoundTo
  <2>2. ASSUME NEW o \in Oids, o # c.oid PROVE BoundTo(o)' = BoundTo(o)
    <3>1. \A n \in mappings' : n.oid = o <=> n \in mappings /\ n.oid = o
      BY <2>2
    <3>2. CASE \E m \in mappings : m.oid = o
      <4>1. PICK m \in mappings : m.oid = o
        BY <3>2
      <4>2. BoundTo(o) = [pn |-> m.pn, co |-> m.co]
        BY <1>2, <4>1, BoundToRow
      <4>3. (CHOOSE n \in mappings' : n.oid = o) = m
        BY <1>2, <3>1, <4>1 DEF UniqueOid
      <4>4. BoundTo(o)' = [pn |-> m.pn, co |-> m.co]
        BY <3>1, <4>1, <4>3 DEF BoundTo
      <4> QED BY <4>2, <4>4
    <3>3. CASE ~\E m \in mappings : m.oid = o
      BY <3>1, <3>3 DEF BoundTo
    <3> QED BY <3>2, <3>3
  <2> QED BY <1>1, <2>1, <2>2 DEF Bound, Candidate
<1>5. Live' = Live \cup {c.oid}
  BY DEF Live
<1>6. \A r \in Requests : new.id \notin barred[r]
  BY DEF Good, Held, BarredAreInactive
<1>7. Withdrawn' = Withdrawn
  BY <1>6 DEF Withdrawn
<1>8. Caller' = Caller /\ Told' = Told
  BY DEF Caller, Told, Oid
<1>9. Registry!Bind(c)
  BY <1>3, <1>4, <1>5, <1>7, <1>8 DEF Registry!Bind
<1> QED BY <1>1, <1>9 DEF Registry!Next, Candidate

(* What the registry sees depends on these variables alone. *)
LEMMA SameRegistry ==
  ASSUME Typed, Typed', UNCHANGED <<mappings, vouched, barred, user>>,
         \A r \in Requests : Told'[r] = Told[r]
  PROVE  UNCHANGED Registry!registry
<1>1. Bound' = Bound /\ Live' = Live /\ Withdrawn' = Withdrawn /\ Caller' = Caller
  BY DEF Bound, BoundTo, Live, Withdrawn, Caller, Oid
<1>2. Told' = Told
  BY DEF Told
<1> QED BY <1>1, <1>2 DEF Registry!registry

(* Before an answer nothing is told, nor after an answer other than OK. *)
LEMMA NothingTold ==
  ASSUME Good, NEW r \in Requests, pc[r] # "done", outcome'[r] # "OK",
         \A q \in Requests \ {r} : outcome'[q] = outcome[q] /\ served'[q] = served[q]
  PROVE  \A q \in Requests : Told'[q] = Told[q]
<1>1. outcome[r] # "OK"
  BY DEF Good, Refusals, RefusalOf
<1> QED BY <1>1 DEF Told

LEMMA RefinementStep ==
  Good /\ Good' /\ [Next]_vars => [Registry!Next]_(Registry!registry)
<1> SUFFICES ASSUME Good, Good', [Next]_vars
             PROVE  Registry!Next \/ UNCHANGED Registry!registry
  OBVIOUS
<1> USE IdentityAssumption
<1>a. /\ Typed /\ Typed' /\ Rows /\ Rows' /\ Creators /\ Held /\ Refusals
      /\ UniqueOid /\ UniqueOid'
  BY DEF Good, Rows
<1>1. ASSUME NEW r \in Requests, Start(r)
      PROVE  Registry!Next \/ UNCHANGED Registry!registry
  <2>1. /\ UNCHANGED <<mappings, vouched, barred, outcome, served>>
        /\ user[r] = None /\ user'[r] \in User
        /\ \A q \in Requests \ {r} : user'[q] = user[q]
    BY <1>1, <1>a DEF Start, tables, Typed, TypeOK, Stages, StageOf
  <2>2. UNCHANGED <<vouched, Bound, Live, Withdrawn, Told>>
    BY <2>1 DEF Bound, BoundTo, Live, Withdrawn, Told
  <2>3. Oid(r)' \in Oids \cup {None}
    BY <2>1 DEF Oid, User
  <2>4. Caller[r] = None /\ Caller' = [Caller EXCEPT ![r] = Oid(r)']
    BY <2>1 DEF Caller, Oid
  <2>5. CASE Oid(r)' = None
    <3>1. Caller' = Caller
      BY <2>4, <2>5 DEF Caller
    <3> QED BY <2>2, <3>1 DEF Registry!registry
  <2>6. CASE Oid(r)' \in Oids
    <3>1. Registry!Call(r, Oid(r)')
      BY <2>2, <2>4 DEF Registry!Call
    <3> QED BY <2>6, <3>1 DEF Registry!Next
  <2> QED BY <2>3, <2>5, <2>6
<1>2. ASSUME NEW r \in Requests, FindVerified(r)
      PROVE  Registry!Next \/ UNCHANGED Registry!registry
  <2>1. /\ UNCHANGED <<mappings, vouched, user, served>> /\ pc[r] # "done"
        /\ outcome'[r] # "OK" /\ \A q \in Requests \ {r} : outcome'[q] = outcome[q]
        /\ barred' = [barred EXCEPT ![r] = {m.id : m \in {n \in mappings : ~Active(n)}}]
    BY <1>2, <1>a DEF FindVerified, Resolve, Answer, tables, Typed, TypeOK, Refusals, RefusalOf
  <2>2. UNCHANGED <<vouched, Bound, Live, Caller, Told>>
    <3>1. \A q \in Requests : Told'[q] = Told[q]
      BY <2>1, NothingTold
    <3>2. Told' = Told
      BY <3>1 DEF Told
    <3> QED BY <2>1, <3>2 DEF Bound, BoundTo, Live, Caller, Oid
  <2>3. {m.oid : m \in {n \in mappings : n.id \in barred'[r]}}
          = {o \in Oids : Bound[o] # None /\ o \notin Live}
    <3>1. ASSUME NEW m \in mappings
          PROVE  m.id \in barred'[r] <=> ~Active(m)
      BY <2>1, <1>a DEF Creators, Typed, TypeOK
    <3>2. ASSUME NEW m \in mappings
          PROVE  m.oid \in Live <=> Active(m)
      BY <1>a DEF Live, UniqueOid
    <3>3. ASSUME NEW o \in Oids
          PROVE  Bound[o] # None <=> \E m \in mappings : m.oid = o
      BY <1>a, BoundIffRow DEF Bound
    <3>4. \A m \in mappings : m.oid \in Oids
      BY <1>a DEF Typed, TypeOK, Mapping
    <3> QED BY <3>1, <3>2, <3>3, <3>4
  <2>4. Withdrawn' = [Withdrawn EXCEPT ![r] = {o \in Oids : Bound[o] # None /\ o \notin Live}]
    <3>1. barred'[r] = {m.id : m \in {n \in mappings : ~Active(n)}}
          /\ \A q \in Requests \ {r} : barred'[q] = barred[q]
      BY <2>1, <1>a DEF Typed, TypeOK
    <3>2. Withdrawn'[r] = {o \in Oids : Bound[o] # None /\ o \notin Live}
      BY <2>1, <2>3 DEF Withdrawn
    <3>3. ASSUME NEW q \in Requests \ {r} PROVE Withdrawn'[q] = Withdrawn[q]
      BY <2>1, <3>1 DEF Withdrawn
    <3> QED BY <3>2, <3>3 DEF Withdrawn
  <2>5. Registry!Look(r)
    BY <2>2, <2>4 DEF Registry!Look
  <2> QED BY <2>5 DEF Registry!Next
<1>3. ASSUME NEW r \in Requests, LookupRecord(r)
      PROVE  Registry!Next \/ UNCHANGED Registry!registry
  <2>1. PICK rec \in RecordReply : vouched' = vouched \cup {rec.worker}
    BY <1>3 DEF LookupRecord
  <2>2. /\ UNCHANGED <<mappings, barred, user, served>> /\ pc[r] # "done"
        /\ outcome'[r] # "OK" /\ \A q \in Requests \ {r} : outcome'[q] = outcome[q]
    BY <1>3, <1>a DEF LookupRecord, Answer, tables, Typed, TypeOK, Refusals, RefusalOf
  <2>3. \A q \in Requests : Told'[q] = Told[q]
    BY <2>2, NothingTold
  <2>4. UNCHANGED <<Bound, Live, Caller, Withdrawn, Told>>
    BY <2>2, <2>3 DEF Bound, BoundTo, Live, Caller, Withdrawn, Told, Oid
  <2>5. Registry!State(rec.worker) /\ rec.worker \in Candidate
    BY <2>1, <2>4 DEF Registry!State, RecordReply
  <2> QED BY <2>5 DEF Registry!Next, Candidate
<1>4. ASSUME NEW r \in Requests, CommitMapping(r)
      PROVE  Registry!Next \/ UNCHANGED Registry!registry
  <2>1. /\ mappings' = mappings \cup {NewMapping(r)} /\ OidIsFree(cand[r].oid)
        /\ cand[r] \in vouched /\ cand[r] \in Candidate /\ pc[r] = "insert"
        /\ UNCHANGED <<vouched, barred, user, outcome, served>>
    BY <1>4, <1>a DEF CommitMapping, Typed, TypeOK, Stages, StageOf, Rows, CandOwn
  <2>2. NewMapping(r) \in Mapping
    BY <1>a, <2>1, NewMappingType
  <2>3. /\ NewMapping(r).id = r /\ Active(NewMapping(r)) /\ NewMapping(r).oid = cand[r].oid
        /\ [oid |-> NewMapping(r).oid, pn |-> NewMapping(r).pn, co |-> NewMapping(r).co]
             = cand[r]
    BY <2>1 DEF NewMapping, Active, Candidate
  <2>4. \A m \in mappings : m.id # r
    BY <1>a, <2>1 DEF Creators, Inserted
  <2> QED BY <2>1, <2>2, <2>3, <2>4, InsertBinds
<1>5. ASSUME NEW r \in Requests, AuditView(r)
      PROVE  Registry!Next \/ UNCHANGED Registry!registry
  <2>1. /\ UNCHANGED <<mappings, vouched, barred, user, held, served>>
        /\ outcome' = [outcome EXCEPT ![r] = "OK"] /\ outcome[r] # "OK"
    BY <1>5, <1>a DEF AuditView, Answer, Refusals, RefusalOf
  <2>2. UNCHANGED <<vouched, Bound, Live, Caller, Withdrawn>>
    BY <2>1 DEF Bound, BoundTo, Live, Caller, Withdrawn, Oid
  <2>3. Told[r] = None /\ Told' = [Told EXCEPT ![r] = served[r]]
    BY <2>1, <1>a DEF Told, Typed, TypeOK
  <2>4. CASE served[r] = None
    <3>1. Told' = Told
      BY <2>3, <2>4 DEF Told
    <3> QED BY <2>2, <3>1 DEF Registry!registry
  <2>5. CASE served[r] # None
    <3>1. /\ held[r] # None /\ served[r] = held[r].pn /\ held[r].oid = Oid(r)
          /\ held[r].id \notin barred[r]
      BY <2>5, <1>a DEF Held, HeldBy
    <3>2. PICK m \in mappings : SameRow(m, held[r])
      BY <3>1, <1>a DEF Held, HeldBy
    <3>3. /\ m.oid = Oid(r) /\ m.pn = served[r] /\ m.id \notin barred[r] /\ m.oid \in Oids
      BY <3>1, <3>2, <1>a DEF SameRow, Typed, TypeOK, Mapping
    <3>4. user[r] # None
      BY <1>5, <1>a DEF AuditView, Typed, Stages, StageOf
    <3>5. Caller[r] = m.oid /\ Caller[r] # None
      BY <3>3, <3>4 DEF Caller
    <3>6. Bound[m.oid] = [pn |-> m.pn, co |-> m.co] /\ Bound[m.oid] # None
      BY <1>a, <3>3, BoundToRow, BoundIffRow DEF Bound
    <3>7. m.oid \notin Withdrawn[r]
      BY <1>a, <3>3 DEF Withdrawn, UniqueOid
    <3>8. Registry!Tell(r)
      BY <2>2, <2>3, <3>3, <3>5, <3>6, <3>7 DEF Registry!Tell
    <3> QED BY <3>8 DEF Registry!Next
  <2> QED BY <2>4, <2>5
<1>6. ASSUME NEW r \in Requests,
             \/ Configure(r) \/ LookupNoRecord(r) \/ CheckConflicts(r) \/ RollBackMapping(r)
             \/ RecheckConflicts(r) \/ AuditProvision(r) \/ FetchOwnData(r) \/ Abort(r)
      PROVE  UNCHANGED Registry!registry
  <2>1. UNCHANGED <<mappings, vouched, barred, user>> /\ pc[r] # "done"
    BY <1>6 DEF Configure, LookupNoRecord, CheckConflicts, RollBackMapping, RecheckConflicts,
       AuditProvision, FetchOwnData, Abort, tables
  <2>2. outcome[r] = "pending"
    BY <2>1, <1>a DEF Refusals, RefusalOf
  <2>3. /\ outcome'[r] # "OK"
        /\ \A q \in Requests \ {r} : outcome'[q] = outcome[q] /\ served'[q] = served[q]
    BY <1>6, <1>a, <2>2 DEF Configure, LookupNoRecord, NoRecordReply, CheckConflicts,
       RollBackMapping, RecheckConflicts, AuditProvision, FetchOwnData, Abort, Resolve,
       Answer, Typed, TypeOK
  <2> QED BY <1>a, <2>1, <2>3, NothingTold, SameRegistry
<1>7. ASSUME NEW a \in Approvals, ApproveCheck(a)
      PROVE  Registry!Next \/ UNCHANGED Registry!registry
  <2>1. PICK c \in Candidate : vouched' = vouched \cup {c}
    BY <1>7 DEF ApproveCheck
  <2>2. UNCHANGED <<mappings, barred, user, outcome, served>>
    BY <1>7 DEF ApproveCheck, tables, reqs
  <2>3. Registry!State(c)
    BY <2>1, <2>2 DEF Registry!State, Bound, BoundTo, Live, Caller, Withdrawn, Told, Oid
  <2> QED BY <2>3 DEF Registry!Next, Candidate
<1>8. ASSUME NEW a \in Approvals, ApproveCommit(a)
      PROVE  Registry!Next \/ UNCHANGED Registry!registry
  <2>1. /\ UNCHANGED <<vouched, barred, user, outcome, served>>
        /\ cli[a].phase = "insert" /\ cli[a].arg \in Candidate /\ cli[a].arg \in vouched
    BY <1>8, <1>a DEF ApproveCommit, reqs, Rows, ArgStated, Typed, TypeOK, Stages
  <2>2. CASE UNCHANGED mappings
    BY <2>1, <2>2, <1>a, SameRegistry DEF Told
  <2>3. CASE OidIsFree(cli[a].arg.oid) /\ mappings' = mappings \cup {ApprovedMapping(a)}
    <3>1. ApprovedMapping(a) \in Mapping
      BY <1>a, <2>1, ApprovedMappingType
    <3>2. /\ ApprovedMapping(a).id = a /\ Active(ApprovedMapping(a))
          /\ ApprovedMapping(a).oid = cli[a].arg.oid
          /\ [oid |-> ApprovedMapping(a).oid, pn |-> ApprovedMapping(a).pn,
              co |-> ApprovedMapping(a).co] = cli[a].arg
      BY <2>1 DEF ApprovedMapping, Active, Candidate
    <3>3. \A m \in mappings : m.id # a
      BY <1>a, <2>1 DEF Creators
    <3> QED BY <2>1, <2>3, <3>1, <3>2, <3>3, InsertBinds
  <2> QED BY <1>8, <2>2, <2>3 DEF ApproveCommit
<1>9. ASSUME NEW m \in mappings, Suspend(m)
      PROVE  Registry!Next \/ UNCHANGED Registry!registry
  <2>1. PICK n \in Mapping :
          /\ mappings' = (mappings \ {m}) \cup {n}
          /\ n.id = m.id /\ n.oid = m.oid /\ n.pn = m.pn /\ n.co = m.co /\ ~Active(n)
    BY <1>9, <1>a, SuspendKeeps
  <2>2. UNCHANGED <<vouched, barred, user, outcome, served>>
    BY <1>9, <1>a, SuspendKeeps
  <2>3. \A x \in mappings : x.oid = m.oid => x = m
    BY <1>a DEF UniqueOid
  <2>4. Live' = Live \ {m.oid}
    BY <2>1, <2>3 DEF Live
  <2>5. Withdrawn' = Withdrawn
    BY <2>1, <2>2 DEF Withdrawn
  <2>6. ASSUME NEW o \in Oids PROVE BoundTo(o)' = BoundTo(o)
    <3>1. CASE o = m.oid
      <4>1. BoundTo(o) = [pn |-> m.pn, co |-> m.co]
        BY <1>a, <3>1, BoundToRow
      <4>2. n \in mappings' /\ \A x \in mappings' : x.oid = o => x = n
        BY <2>1, <2>3, <3>1
      <4>3. (CHOOSE x \in mappings' : x.oid = o) = n
        BY <2>1, <3>1, <4>2
      <4>4. BoundTo(o)' = [pn |-> n.pn, co |-> n.co]
        BY <2>1, <3>1, <4>2, <4>3 DEF BoundTo
      <4> QED BY <2>1, <4>1, <4>4
    <3>2. CASE o # m.oid
      <4>1. \A x : x \in mappings' /\ x.oid = o <=> x \in mappings /\ x.oid = o
        BY <2>1, <3>2
      <4>2. CASE \E x \in mappings : x.oid = o
        <5>1. PICK x \in mappings : x.oid = o
          BY <4>2
        <5>2. BoundTo(o) = [pn |-> x.pn, co |-> x.co]
          BY <1>a, <5>1, BoundToRow
        <5>3. (CHOOSE y \in mappings' : y.oid = o) = x
          BY <1>a, <4>1, <5>1 DEF UniqueOid
        <5>4. BoundTo(o)' = [pn |-> x.pn, co |-> x.co]
          BY <4>1, <5>1, <5>3 DEF BoundTo
        <5> QED BY <5>2, <5>4
      <4>3. CASE ~\E x \in mappings : x.oid = o
        BY <4>1, <4>3 DEF BoundTo
      <4> QED BY <4>2, <4>3
    <3> QED BY <3>1, <3>2
  <2>7. Bound' = Bound /\ Caller' = Caller /\ Told' = Told
    BY <2>2, <2>6 DEF Bound, Caller, Told, Oid
  <2>8. Registry!Withdraw(m.oid) /\ m.oid \in Oids
    BY <2>2, <2>4, <2>5, <2>7, <1>a DEF Registry!Withdraw, Typed, TypeOK, Mapping
  <2> QED BY <2>8 DEF Registry!Next
<1>10. CASE UNCHANGED vars
  BY <1>10, <1>a, SameRegistry DEF vars, tables, reqs, Told
<1> QED
  BY <1>1, <1>2, <1>3, <1>4, <1>5, <1>6, <1>7, <1>8, <1>9, <1>10 DEF Next, Proceed, Finished

(* Identity resolution, with all its interleavings, rollbacks and crashes, *)
(* does nothing the registry does not allow.                               *)
THEOREM IdentityImplementsRegistry == Spec => ImplementsRegistry
<1>1. Init => Registry!Init
  BY DEF Init, Registry!Init, Bound, BoundTo, Live, Caller, Withdrawn, Told
<1>2. Spec => []Good
  BY TypedAlways, RowsAlways, CreatorsAlways, HeldAlways, RefusalsAlways, AuditedAlways, PTL
     DEF Good
<1>3. Good /\ Good' /\ [Next]_vars => [Registry!Next]_(Registry!registry)
  BY RefinementStep
<1> QED BY <1>1, <1>2, <1>3, PTL DEF Spec, ImplementsRegistry, Registry!Spec
-----------------------------------------------------------------------------
(* What the registry's promise is worth.  The mapped variables stay folded *)
(* here: the argument is about any six that behave as the registry says.   *)

Sound == Registry!TypeOK /\ Registry!Faithful

Stays ==
  /\ \A o \in Oids : Bound[o] # None => Bound'[o] = Bound[o] /\ (o \in Live' => o \in Live)
  /\ \A r \in Requests : Told[r] # None => Told'[r] = Told[r]

LEMMA RegistryInit == Registry!Init => Sound
  BY DEF Registry!Init, Sound, Registry!TypeOK, Registry!Faithful

LEMMA RegistryStep ==
  Sound /\ [Registry!Next]_(Registry!registry) => Sound' /\ Stays
<1> SUFFICES ASSUME Sound, [Registry!Next]_(Registry!registry) PROVE Sound' /\ Stays
  OBVIOUS
<1> USE IdentityAssumption DEF Sound, Registry!TypeOK, Registry!Faithful, Stays
<1>1. CASE UNCHANGED Registry!registry
  BY <1>1 DEF Registry!registry
<1>2. ASSUME NEW c \in Candidate, Registry!State(c) PROVE Sound' /\ Stays
  BY <1>2 DEF Registry!State, Candidate
<1>3. ASSUME NEW c \in Candidate, Registry!Bind(c) PROVE Sound' /\ Stays
  <2>1. /\ c \in vouched /\ Bound[c.oid] = None /\ c.oid \in Oids
        /\ Bound' = [Bound EXCEPT ![c.oid] = [pn |-> c.pn, co |-> c.co]]
        /\ Live' = Live \cup {c.oid}
        /\ UNCHANGED <<vouched, Caller, Withdrawn, Told>>
    BY <1>3 DEF Registry!Bind, Candidate
  <2>2. [pn |-> c.pn, co |-> c.co] \in [pn : Persons, co : Companies]
    BY DEF Candidate
  <2>3. Registry!TypeOK'
    BY <2>1, <2>2
  <2>4. /\ Bound'[c.oid] = [pn |-> c.pn, co |-> c.co]
        /\ \A o \in Oids \ {c.oid} : Bound'[o] = Bound[o]
    BY <2>1
  <2>5. Stays
    BY <2>1, <2>4
  <2>6. Registry!Faithful'
    BY <2>1, <2>2, <2>4
  <2> QED BY <2>3, <2>5, <2>6
<1>4. ASSUME NEW o \in Oids, Registry!Withdraw(o) PROVE Sound' /\ Stays
  BY <1>4 DEF Registry!Withdraw
<1>5. ASSUME NEW r \in Requests, NEW o \in Oids, Registry!Call(r, o) PROVE Sound' /\ Stays
  BY <1>5 DEF Registry!Call
<1>6. ASSUME NEW r \in Requests, Registry!Look(r) PROVE Sound' /\ Stays
  BY <1>6 DEF Registry!Look
<1>7. ASSUME NEW r \in Requests, Registry!Tell(r) PROVE Sound' /\ Stays
  BY <1>7 DEF Registry!Tell
<1> QED
  BY <1>1, <1>2, <1>3, <1>4, <1>5, <1>6, <1>7 DEF Registry!Next, Candidate

(* Whatever races, crashes or is retried, a person is bound once, as       *)
(* stated, and for good; the answers a person is given, now and later,     *)
(* name one worker; and a binding once withdrawn is not live again.        *)
THEOREM BindingsAreForGood ==
  Spec => []Registry!Faithful /\ []Registry!AnswersAgree /\ Registry!ForGood
<1>1. Spec => Registry!Spec
  BY IdentityImplementsRegistry DEF ImplementsRegistry
<1>2. Registry!Spec => []Sound
  BY RegistryInit, RegistryStep, PTL DEF Registry!Spec
<1>3. Sound => Registry!Faithful /\ Registry!AnswersAgree
  BY DEF Sound, Registry!Faithful, Registry!AnswersAgree
<1>4. Sound /\ [Registry!Next]_(Registry!registry) =>
        [/\ \A o \in Oids : Bound[o] # None => Bound'[o] = Bound[o] /\ (o \in Live' => o \in Live)
         /\ \A r \in Requests : Told[r] # None => Told'[r] = Told[r]]_(Registry!registry)
  BY RegistryStep DEF Stays
<1> QED BY <1>1, <1>2, <1>3, <1>4, PTL DEF Registry!Spec, Registry!ForGood
=============================================================================
