------------------------ MODULE EntityMappingsProofs ------------------------
(* What overlapping runs of apply_d365_mapping may do to the table, for    *)
(* any number of runs, requests and files and any metadata.                *)
EXTENDS EntityMappings, TLAPS

USE DEF Phases

(* The tables the steps update are functions. *)
Tables ==
  /\ phase = [a \in Requests \cup Runs |-> phase[a]]
  /\ file = [t \in Runs |-> file[t]]
  /\ loaded = [t \in Runs |-> loaded[t]]

(* A run writes the table only with a file that passed validation, and has *)
(* read rows of that file's keys only.                                     *)
Checked ==
  \A t \in Runs :
    /\ phase[t] = "new" => DOMAIN loaded[t] = {}
    /\ phase[t] = "loading" =>
         /\ file[t] \in Files
         /\ \A k \in DOMAIN file[t] : IsValid(file[t][k])
         /\ DOMAIN loaded[t] \subseteq DOMAIN file[t]

(* A row that is there was written, and whoever wrote it has ended. *)
Owned ==
  /\ \A k \in Keys : mapping[k] # None => writers[k] # {}
  /\ \A k \in Keys : \A t \in writers[k] : t \in Runs /\ phase[t] = "done"

(* What a run has read stands, until another run commits between: then the *)
(* run is among the overlapped, but what it found is there all the same.      *)
Read ==
  \A t \in Runs : phase[t] = "loading" =>
    \A k \in DOMAIN loaded[t] :
      /\ loaded[t][k] # None => mapping[k] # None
      /\ t \notin overlapped => loaded[t][k] = mapping[k]

Inv == TypeOK /\ Tables /\ Checked /\ Owned /\ Read /\ RunsFailForCause

(* The keys of a file are keys of the table. *)
LEMMA FileKeys ==
  ASSUME NEW f \in Files
  PROVE  DOMAIN f \subseteq Keys
  BY MappingAssumption

(* A column of an item has a value that a row may have there. *)
LEMMA ItemColumns ==
  ASSUME NEW f \in Files, NEW k \in DOMAIN f
  PROVE  /\ "entity_name" \in DOMAIN f[k]
         /\ \E row \in Row : /\ DOMAIN f[k] \subseteq DOMAIN row
                             /\ \A c \in DOMAIN f[k] : f[k][c] = row[c]
  BY MappingAssumption DEF IsItem

LEMMA RowIntro ==
  ASSUME NEW f,
         f = [c \in {"personnel_number_field", "company_field", "field_mapping", "enabled",
                     "entity_name"} |-> f[c]],
         f["entity_name"] \in Entities,
         f["personnel_number_field"] \in Columns \cup {None},
         f["company_field"] \in Columns \cup {None},
         f["field_mapping"] \in Partial(Logical, Columns),
         f["enabled"] \in BOOLEAN
  PROVE  f \in Row
<1> DEFINE g == [entity_name |-> f["entity_name"],
                 personnel_number_field |-> f["personnel_number_field"],
                 company_field |-> f["company_field"],
                 field_mapping |-> f["field_mapping"], enabled |-> f["enabled"]]
<1>1. f = g
  OBVIOUS
<1> HIDE DEF g
<1>2. g \in Row
  BY DEF Row, g
<1> QED
  BY <1>1, <1>2

LEMMA RowElim ==
  ASSUME NEW r \in Row
  PROVE  /\ DOMAIN r = {"personnel_number_field", "company_field", "field_mapping", "enabled",
                       "entity_name"}
         /\ r["entity_name"] \in Entities
         /\ r["personnel_number_field"] \in Columns \cup {None}
         /\ r["company_field"] \in Columns \cup {None}
         /\ r["field_mapping"] \in Partial(Logical, Columns)
         /\ r["enabled"] \in BOOLEAN
  BY DEF Row

LEMMA EmptyPartial == \A S, T : Empty \in Partial(S, T)
<1> TAKE S, T
<1>1. Empty \in [{} -> T]
  BY DEF Empty
<1> QED
  BY <1>1 DEF Partial

(* What a run commits for a key is a row. *)
LEMMA WrittenIsRow ==
  ASSUME NEW t \in Runs, file[t] \in Files, NEW k \in DOMAIN file[t],
         loaded[t][k] \in Row \cup {None}, loaded[t][k] # None => mapping[k] \in Row
  PROVE  Written(t, k) \in Row
<1> DEFINE item == file[t][k]
           old == loaded[t][k]
           row == Written(t, k)
           D == {"personnel_number_field", "company_field", "field_mapping", "enabled",
                 "entity_name"}
<1>1. PICK model \in Row : DOMAIN item \subseteq DOMAIN model /\ \A c \in DOMAIN item : item[c] = model[c]
  BY ItemColumns
<1>2. "entity_name" \in DOMAIN item
  BY ItemColumns
<1>3. CASE old = None
  <2>1. DOMAIN Defaults \cup {"entity_name"} = D
    BY DEF Defaults
  <2>2. row = [c \in D |-> IF c = "entity_name" \/ Assigned(item, c) THEN item[c] ELSE Defaults[c]]
    BY <1>3, <2>1 DEF Written
  <2>3. \A c \in D : row[c] = model[c] \/ (c # "entity_name" /\ row[c] = Defaults[c])
    BY <2>2, <1>1, <1>2 DEF Assigned
  <2>4. row = [c \in D |-> row[c]]
    BY <2>2
  <2> HIDE DEF row
  <2>5. /\ row["entity_name"] \in Entities
        /\ row["personnel_number_field"] \in Columns \cup {None}
        /\ row["company_field"] \in Columns \cup {None}
        /\ row["field_mapping"] \in Partial(Logical, Columns)
        /\ row["enabled"] \in BOOLEAN
    BY <2>3, RowElim, EmptyPartial DEF Defaults
  <2> QED
    BY <2>4, <2>5, RowIntro DEF row
<1>4. CASE old # None
  <2>1. old \in Row /\ mapping[k] \in Row /\ DOMAIN old = D
    BY <1>4, RowElim
  <2>2. row = [c \in D |-> IF Assigned(item, c) /\ item[c] # old[c] THEN item[c] ELSE mapping[k][c]]
    BY <1>4, <2>1 DEF Written
  <2>3. \A c \in D : row[c] = model[c] \/ row[c] = mapping[k][c]
    BY <2>2, <1>1 DEF Assigned
  <2>4. row = [c \in D |-> row[c]]
    BY <2>2
  <2> HIDE DEF row
  <2>5. /\ row["entity_name"] \in Entities
        /\ row["personnel_number_field"] \in Columns \cup {None}
        /\ row["company_field"] \in Columns \cup {None}
        /\ row["field_mapping"] \in Partial(Logical, Columns)
        /\ row["enabled"] \in BOOLEAN
    BY <2>1, <2>3, RowElim
  <2> QED
    BY <2>4, <2>5, RowIntro DEF row
<1> QED
  BY <1>3, <1>4

(* What a request does keeps the types of what it changes. *)
LEMMA RequestTypes ==
  ASSUME TypeOK, NEW r \in Requests,
         Start(r) \/ ShowProfile(r) \/ ShowLeave(r) \/ AskFails(r) \/ FallBack(r)
  PROVE  TypeOK'
<1>0. \A k \in Keys : Scalar(k) # None => Scalar(k) \in Row
  BY DEF TypeOK, Scalar
<1>1. ASSUME NEW k \in Keys, NEW row \in Row, Goes(r, k, row)
      PROVE  /\ configuration' \in [Requests -> Row \cup {None}]
             /\ fields' \in [Requests -> Partial(Logical, Columns)]
             /\ phase' \in [Requests \cup Runs -> Phases]
  BY <1>1, RowElim DEF TypeOK, Goes, Keys
<1>2. ASSUME Fails(r)
      PROVE  phase' \in [Requests \cup Runs -> Phases]
  BY <1>2 DEF TypeOK, Fails
<1>3. CASE Start(r)
  <2>1. identity' \in [Requests -> [worker : Workers, company : Companies \cup {None}] \cup {None}]
    BY <1>3 DEF Start, TypeOK
  <2>2. /\ configuration' \in [Requests -> Row \cup {None}]
        /\ fields' \in [Requests -> Partial(Logical, Columns)]
        /\ phase' \in [Requests \cup Runs -> Phases]
    <3>1. PICK k \in {"profile", "leave_balance"} :
            IF Scalar(k) # None /\ Complete(k, Scalar(k))
            THEN Goes(r, k, Scalar(k))
            ELSE Fails(r) /\ UNCHANGED <<configuration, fields>>
      BY <1>3 DEF Start
    <3>2. k \in Keys
      BY DEF Keys
    <3>3. CASE Goes(r, k, Scalar(k)) /\ Scalar(k) # None
      BY <3>2, <3>3, <1>0, <1>1
    <3>4. CASE Fails(r) /\ UNCHANGED <<configuration, fields>>
      BY <3>4, <1>2 DEF TypeOK
    <3> QED
      BY <3>1, <3>3, <3>4
  <2> QED
    BY <2>1, <2>2, <1>3 DEF Start, TypeOK, runVars
<1>4. CASE ShowProfile(r)
  BY <1>4 DEF ShowProfile, TypeOK, runVars
<1>5. CASE ShowLeave(r)
  <2>1. \A records \in Answers(r) : records \subseteq Record
    BY DEF Answers
  <2>2. shown' \in [Requests -> SUBSET Record]
    BY <1>5, <2>1 DEF ShowLeave, TypeOK
  <2>3. phase' \in [Requests \cup Runs -> Phases]
    BY <1>5 DEF ShowLeave, TypeOK
  <2> QED
    BY <2>2, <2>3, <1>5 DEF ShowLeave, TypeOK, runVars
<1>6. CASE AskFails(r)
  BY <1>6, <1>2 DEF AskFails, TypeOK, runVars, requestVars
<1>7. CASE FallBack(r)
  <2> DEFINE k == "leave_balance_active"
  <2>1. k \in Keys
    BY DEF Keys
  <2>2. /\ configuration' \in [Requests -> Row \cup {None}]
        /\ fields' \in [Requests -> Partial(Logical, Columns)]
        /\ phase' \in [Requests \cup Runs -> Phases]
    <3>1. CASE Goes(r, k, Scalar(k)) /\ Scalar(k) # None
      BY <2>1, <3>1, <1>0, <1>1
    <3>2. CASE Fails(r) /\ UNCHANGED <<configuration, fields>>
      BY <3>2, <1>2 DEF TypeOK
    <3>3. CASE phase' = [phase EXCEPT ![r] = "done"] /\ UNCHANGED <<configuration, fields>>
      BY <3>3 DEF TypeOK
    <3> QED
      BY <1>7, <3>1, <3>2, <3>3 DEF FallBack
  <2> QED
    BY <2>2, <1>7 DEF FallBack, TypeOK, runVars
<1> QED
  BY <1>3, <1>4, <1>5, <1>6, <1>7

(* What a request does leaves the table and every run as they are. *)
LEMMA RequestsOnlyRead ==
  ASSUME Inv, NEW r \in Requests,
         Start(r) \/ ShowProfile(r) \/ ShowLeave(r) \/ AskFails(r) \/ FallBack(r)
  PROVE  /\ UNCHANGED runVars
         /\ \A t \in Runs : phase'[t] = phase[t]
         /\ TypeOK' /\ Tables'
<1>1. UNCHANGED runVars
  BY DEF Start, ShowProfile, ShowLeave, AskFails, FallBack, requestVars
<1>2. \E p : phase' = [phase EXCEPT ![r] = p]
  BY DEF Start, ShowProfile, ShowLeave, AskFails, FallBack, Goes, Fails
<1>3. \A t \in Runs : t # r
  BY MappingAssumption
<1>4. TypeOK'
  BY RequestTypes DEF Inv
<1> QED
  BY <1>1, <1>2, <1>3, <1>4 DEF Inv, Tables, runVars

LEMMA Initially ==
  ASSUME Init
  PROVE  Inv
<1>1. TypeOK
  BY EmptyPartial DEF Init, TypeOK, Empty
<1> QED
  BY <1>1 DEF Init, Inv, Tables, Checked, Owned, Read, RunsFailForCause, Empty

LEMMA ValidateKeeps ==
  ASSUME Inv, NEW t \in Runs, Validate(t)
  PROVE  Inv'
<1> USE DEF Inv, Validate
<1>1. Tables'
  BY DEF Tables, Fails
<1>2. \A u \in Runs \ {t} : phase'[u] = phase[u] /\ file'[u] = file[u]
  BY DEF Tables, Fails
<1>3. /\ phase'[t] \in {"done", "failed", "loading"}
      /\ phase'[t] = "loading" => file'[t] \in Files /\ \A k \in DOMAIN file'[t] : IsValid(file'[t][k])
  BY DEF Tables, Fails
<1>4. DOMAIN loaded[t] = {} /\ phase[t] = "new"
  BY DEF Checked
<1>5. Checked'
  BY <1>2, <1>3, <1>4 DEF Checked, IsValid, ConfiguredFields
<1>6. Owned'
  BY <1>2, <1>4 DEF Owned
<1>7. Read'
  BY <1>2, <1>4 DEF Read
<1>8. RunsFailForCause'
  BY <1>2, <1>4 DEF RunsFailForCause
<1>9. TypeOK'
  BY DEF TypeOK, Fails, requestVars
<1> QED
  BY <1>1, <1>5, <1>6, <1>7, <1>8, <1>9

LEMMA LoadKeeps ==
  ASSUME Inv, NEW t \in Runs, Load(t)
  PROVE  Inv'
<1> USE DEF Inv
<1>1. PICK k \in DOMAIN file[t] \ DOMAIN loaded[t] :
        loaded' = [loaded EXCEPT ![t] = [l \in DOMAIN @ \cup {k} |->
                                           IF l = k THEN mapping[k] ELSE @[l]]]
  BY DEF Load
<1>2. /\ phase[t] = "loading"
      /\ UNCHANGED <<mapping, phase, file, overlapped, writers>>
  BY DEF Load
<1>3. /\ \A u \in Runs \ {t} : loaded'[u] = loaded[u]
      /\ DOMAIN loaded'[t] = DOMAIN loaded[t] \cup {k}
      /\ \A l \in DOMAIN loaded[t] : loaded'[t][l] = loaded[t][l]
      /\ loaded'[t][k] = mapping[k]
  BY <1>1 DEF Tables
<1>4. Tables'
  BY <1>1, <1>2 DEF Tables
<1>5. Checked'
  BY <1>2, <1>3 DEF Checked, IsValid, ConfiguredFields
<1>6. k \in Keys
  BY <1>2, FileKeys DEF Checked
<1>7. Read'
  BY <1>2, <1>3, <1>6 DEF Read, Owned
<1>8. Owned'
  BY <1>2 DEF Owned
<1>9. RunsFailForCause'
  BY <1>2, <1>3 DEF RunsFailForCause
<1>10. TypeOK'
  BY <1>2, <1>3, <1>6 DEF Load, TypeOK, requestVars
<1> QED
  BY <1>10, <1>4, <1>5, <1>7, <1>8, <1>9

LEMMA CommitKeeps ==
  ASSUME Inv, NEW t \in Runs, Commit(t)
  PROVE  Inv'
<1> USE DEF Inv
<1>1. /\ phase[t] = "loading" /\ DOMAIN loaded[t] = DOMAIN file[t]
      /\ \A k \in DOMAIN file[t] : loaded[t][k] = None => mapping[k] = None
      /\ UNCHANGED <<file, loaded>>
  BY DEF Commit
<1>2. phase' = [phase EXCEPT ![t] = "done"]
  BY DEF Commit
<1>3. \A u \in Runs \ {t} : phase'[u] = phase[u]
  BY <1>2 DEF Tables
<1>4. phase'[t] = "done"
  BY <1>2 DEF Tables
<1>5. \A k \in Keys :
        /\ mapping'[k] = IF k \in DOMAIN file[t] THEN Written(t, k) ELSE mapping[k]
        /\ writers'[k] = writers[k] \cup (IF k \in DOMAIN file[t] THEN {t} ELSE {})
  BY DEF Commit
<1>6. overlapped' =
        overlapped \cup {u \in Runs \ {t} : phase[u] = "loading" /\ DOMAIN loaded[u] # {}}
  BY DEF Commit
<1>13. \A k \in DOMAIN file[t] : Written(t, k) \in Row /\ k \in Keys
  <2> SUFFICES ASSUME NEW k \in DOMAIN file[t]
               PROVE  Written(t, k) \in Row /\ k \in Keys
    OBVIOUS
  <2>1. file[t] \in Files /\ k \in Keys
    BY <1>1, FileKeys DEF Checked
  <2>2. loaded[t][k] \in Row \cup {None} /\ mapping[k] \in Row \cup {None}
    BY <1>1, <2>1 DEF TypeOK
  <2>3. loaded[t][k] # None => mapping[k] # None
    BY <1>1 DEF Read
  <2> QED
    BY <2>1, <2>2, <2>3, WrittenIsRow
<1>7. Tables'
  BY <1>1, <1>2 DEF Tables
<1>8. Checked'
  BY <1>1, <1>3, <1>4 DEF Checked, IsValid, ConfiguredFields
<1>9. Owned'
  BY <1>1, <1>3, <1>4, <1>5 DEF Owned
<1>10. TypeOK'
  <2>1. mapping' \in [Keys -> Row \cup {None}]
    BY <1>5, <1>13 DEF Commit, TypeOK
  <2>2. writers' \in [Keys -> SUBSET Runs]
    BY <1>5 DEF Commit, TypeOK
  <2>3. phase' \in [Requests \cup Runs -> Phases]
    BY <1>2 DEF TypeOK
  <2>4. overlapped' \subseteq Runs
    BY <1>6 DEF TypeOK
  <2> QED
    BY <2>1, <2>2, <2>3, <2>4, <1>1 DEF Commit, TypeOK, requestVars
<1>11. Read'
  <2> SUFFICES ASSUME NEW u \in Runs, phase'[u] = "loading", NEW k \in DOMAIN loaded'[u]
               PROVE  /\ loaded'[u][k] # None => mapping'[k] # None
                      /\ u \in overlapped'
    BY DEF Read
  <2>1. u # t /\ phase[u] = "loading" /\ loaded'[u] = loaded[u]
    BY <1>1, <1>3, <1>4
  <2>2. k \in Keys
    BY <2>1, FileKeys DEF Checked
  <2>3. k \in DOMAIN file[t] => mapping'[k] # None
    BY <2>2, <1>5, <1>13, MappingAssumption
  <2> QED
    BY <2>1, <2>2, <2>3, <1>5, <1>6 DEF Read
<1>12. RunsFailForCause'
  BY <1>1, <1>3, <1>4, <1>6 DEF RunsFailForCause
<1> QED
  BY <1>7, <1>8, <1>9, <1>10, <1>11, <1>12

LEMMA CommitFailsKeeps ==
  ASSUME Inv, NEW t \in Runs, CommitFails(t)
  PROVE  Inv'
<1> USE DEF Inv
<1>1. /\ phase[t] = "loading" /\ DOMAIN loaded[t] = DOMAIN file[t]
      /\ \E k \in DOMAIN file[t] : loaded[t][k] = None /\ mapping[k] # None
      /\ UNCHANGED runVars
  BY DEF CommitFails
<1>2. Tables' /\ (\A u \in Runs \ {t} : phase'[u] = phase[u]) /\ phase'[t] = "failed"
  BY <1>1 DEF CommitFails, Fails, Tables, runVars
<1>3. t \in overlapped
  BY <1>1 DEF Read
<1>4. Checked' /\ Owned' /\ Read'
  BY <1>1, <1>2 DEF Checked, Owned, Read, runVars, IsValid, ConfiguredFields
<1>5. RunsFailForCause'
  BY <1>1, <1>2, <1>3 DEF RunsFailForCause, runVars
<1>6. TypeOK'
  BY <1>1 DEF CommitFails, Fails, TypeOK, requestVars, runVars
<1> QED
  BY <1>2, <1>4, <1>5, <1>6

LEMMA DiesKeeps ==
  ASSUME Inv, NEW t \in Runs, Dies(t)
  PROVE  Inv'
<1> USE DEF Inv
<1>1. /\ phase[t] = "loading" /\ phase'[t] = "dead" /\ DOMAIN loaded'[t] = {}
      /\ UNCHANGED <<mapping, overlapped, writers>>
      /\ \A u \in Runs \ {t} :
           phase'[u] = phase[u] /\ file'[u] = file[u] /\ loaded'[u] = loaded[u]
  BY DEF Dies, Tables, Empty
<1>2. Tables'
  BY DEF Dies, Tables
<1>3. Checked' /\ Owned' /\ Read'
  BY <1>1 DEF Checked, Owned, Read, IsValid, ConfiguredFields
<1>4. RunsFailForCause'
  BY <1>1 DEF RunsFailForCause
<1>5. TypeOK'
  <2>1. /\ phase' \in [Requests \cup Runs -> Phases] /\ file' \in [Runs -> Files \cup {None}]
    BY DEF Dies, TypeOK
  <2> QED
    BY <1>1, <2>1 DEF Dies, TypeOK, requestVars
<1> QED
  BY <1>2, <1>3, <1>4, <1>5

LEMMA ReadingKeeps ==
  ASSUME Inv, TypeOK', Tables', UNCHANGED runVars, \A t \in Runs : phase'[t] = phase[t]
  PROVE  Inv'
  BY DEF Inv, runVars, Checked, Owned, Read, RunsFailForCause, IsValid, ConfiguredFields

LEMMA Invariance == Spec => []Inv
<1>1. Init => Inv
  BY Initially
<1>2. Inv /\ [Next]_vars => Inv'
  <2> SUFFICES ASSUME Inv, [Next]_vars
               PROVE  Inv'
    OBVIOUS
  <2>1. ASSUME NEW r \in Requests,
               Start(r) \/ ShowProfile(r) \/ ShowLeave(r) \/ AskFails(r) \/ FallBack(r)
        PROVE  Inv'
    BY <2>1, RequestsOnlyRead, ReadingKeeps
  <2>2. ASSUME NEW t \in Runs, Validate(t) \/ Load(t) \/ Commit(t) \/ CommitFails(t) \/ Dies(t)
        PROVE  Inv'
    BY <2>2, ValidateKeeps, LoadKeeps, CommitKeeps, CommitFailsKeeps, DiesKeeps
  <2>3. ASSUME UNCHANGED vars
        PROVE  Inv'
    BY <2>3, ReadingKeeps DEF vars, runVars, Inv, Tables, TypeOK
  <2> QED
    BY <2>1, <2>2, <2>3 DEF Next, Finished
<1> QED
  BY <1>1, <1>2, PTL DEF Spec

(* Type correctness, for any number of runs, requests and files. *)
THEOREM TypesStay == Spec => []TypeOK
<1>1. Inv => TypeOK
  BY DEF Inv
<1> QED
  BY <1>1, Invariance, PTL

(* A run whose INSERT is refused was overtaken by another one's commit     *)
(* while it read the table (apply_d365_mapping.py lines 71-92).            *)
THEOREM FailuresHaveCause == Spec => []RunsFailForCause
<1>1. Inv => RunsFailForCause
  BY DEF Inv
<1> QED
  BY <1>1, Invariance, PTL

-----------------------------------------------------------------------------
(* The services, when every file names the columns the fields are meant    *)
(* for: no item is put under another key than its own.                     *)
Meant(k, row) ==
  /\ "personnel_number_field" \in DOMAIN row =>
       row["personnel_number_field"] \in {"PersonnelNumber", None}
  /\ "field_mapping" \in DOMAIN row =>
       \A f \in DOMAIN row["field_mapping"] :
         /\ f = "personnelNumber" => row["field_mapping"][f] = "PersonnelNumber"
         /\ f = "hidden" => row["field_mapping"][f] = "HideLeaveBalances"
         /\ f = "leaveType" => k # "profile"

FilesAreMeant == \A f \in Files : \A k \in DOMAIN f : Meant(k, f[k])

RowsAreMeant == \A k \in Keys : mapping[k] # None => Meant(k, mapping[k])

(* A request that waits for an answer goes by a whole row that was meant   *)
(* for its query, and reads the answer with the fields of that row; none   *)
(* shows a record before it ends.                                          *)
Going ==
  \A r \in Requests :
    /\ shown[r] # {} => phase[r] = "done"
    /\ phase[r] \in Keys =>
         /\ configuration[r] \in Row /\ Meant(phase[r], configuration[r])
         /\ Complete(phase[r], configuration[r])
         /\ fields[r] = configuration[r]["field_mapping"]

Scoped == RowsAreMeant /\ Going /\ AnswersAreScoped

(* Every column of a row that commits is the item's, the old row's or a    *)
(* default, and each of these is meant.                                    *)
LEMMA WrittenIsMeant ==
  ASSUME NEW t \in Runs, NEW k \in DOMAIN file[t], Meant(k, file[t][k]),
         file[t] \in Files, loaded[t][k] \in Row \cup {None},
         loaded[t][k] # None => mapping[k] \in Row /\ Meant(k, mapping[k])
  PROVE  Meant(k, Written(t, k))
<1> DEFINE item == file[t][k]
           old == loaded[t][k]
           row == Written(t, k)
           C == {"personnel_number_field", "field_mapping"}
<1>1. \A c \in C : \/ c \in DOMAIN item /\ row[c] = item[c]
                   \/ old = None /\ row[c] = Defaults[c]
                   \/ old # None /\ row[c] = mapping[k][c]
  <2>1. CASE old = None
    BY <2>1 DEF Written, Assigned, Defaults
  <2>2. CASE old # None
    <3>1. C \subseteq DOMAIN old
      BY <2>2, RowElim
    <3> QED
      BY <2>2, <3>1 DEF Written, Assigned
  <2> QED
    BY <2>1, <2>2
<1>2. old # None => C \subseteq DOMAIN mapping[k]
  BY RowElim
<1>3. Defaults["personnel_number_field"] = None /\ DOMAIN Defaults["field_mapping"] = {}
  BY DEF Defaults, Empty
<1> HIDE DEF row, item, old
<1>4. row["personnel_number_field"] \in {"PersonnelNumber", None}
  BY <1>1, <1>2, <1>3 DEF Meant, item, old
<1>5. \A f \in DOMAIN row["field_mapping"] :
         /\ f = "personnelNumber" => row["field_mapping"][f] = "PersonnelNumber"
         /\ f = "hidden" => row["field_mapping"][f] = "HideLeaveBalances"
         /\ f = "leaveType" => k # "profile"
  BY <1>1, <1>2, <1>3 DEF Meant, item, old
<1> QED
  BY <1>4, <1>5 DEF Meant, row

LEMMA RunsKeepScope ==
  ASSUME FilesAreMeant, Inv, Scoped,
         NEW t \in Runs, Validate(t) \/ Load(t) \/ Commit(t) \/ CommitFails(t) \/ Dies(t)
  PROVE  Scoped'
<1>1. UNCHANGED requestVars
  BY DEF Validate, Load, Commit, CommitFails, Dies
<1>2. \A r \in Requests : phase'[r] = phase[r]
  <2>1. \A r \in Requests : r # t
    BY MappingAssumption
  <2>2. phase' = phase \/ \E p : phase' = [phase EXCEPT ![t] = p]
    BY DEF Validate, Load, Commit, CommitFails, Dies, Fails
  <2> QED
    BY <2>1, <2>2 DEF Inv, Tables
<1>3. Going' /\ AnswersAreScoped'
  BY <1>1, <1>2 DEF Scoped, Going, AnswersAreScoped, requestVars, Complete, Meant
<1>4. CASE UNCHANGED mapping
  BY <1>3, <1>4 DEF Scoped, RowsAreMeant, Meant
<1>5. CASE Commit(t)
  <2>1. /\ phase[t] = "loading" /\ DOMAIN loaded[t] = DOMAIN file[t]
        /\ \A k \in Keys :
             mapping'[k] = IF k \in DOMAIN file[t] THEN Written(t, k) ELSE mapping[k]
    BY <1>5 DEF Commit
  <2>2. ASSUME NEW k \in Keys, mapping'[k] # None PROVE Meant(k, mapping'[k])
    <3>1. CASE k \notin DOMAIN file[t]
      BY <2>1, <2>2, <3>1 DEF Scoped, RowsAreMeant
    <3>2. CASE k \in DOMAIN file[t]
      <4>1. file[t] \in Files /\ Meant(k, file[t][k])
        BY <2>1, <3>2 DEF Inv, Checked, FilesAreMeant
      <4>2. loaded[t][k] \in Row \cup {None} /\ mapping[k] \in Row \cup {None}
        BY <2>1, <3>2 DEF Inv, TypeOK
      <4>3. loaded[t][k] # None => mapping[k] # None
        BY <2>1, <3>2 DEF Inv, Read
      <4>4. loaded[t][k] # None => mapping[k] \in Row /\ Meant(k, mapping[k])
        BY <4>2, <4>3 DEF Scoped, RowsAreMeant
      <4> QED
        BY <2>1, <3>2, <4>1, <4>2, <4>4, WrittenIsMeant
    <3> QED
      BY <3>1, <3>2
  <2>3. RowsAreMeant'
    BY <2>2 DEF RowsAreMeant, Meant
  <2> QED
    BY <1>3, <2>3 DEF Scoped
<1> QED
  BY <1>4, <1>5 DEF Validate, Load, CommitFails, Dies, runVars

(* A request that takes a row takes it whole. *)
LEMMA GoesIsGoing ==
  ASSUME TypeOK, RowsAreMeant, Going, NEW r \in Requests, NEW k \in Keys, phase[r] # "done",
         LET row == Scalar(k) IN row # None /\ Complete(k, row) /\ Goes(r, k, row),
         UNCHANGED <<mapping, shown>>
  PROVE  Going'
<1>1. Scalar(k) = mapping[k] /\ Scalar(k) \in Row /\ Meant(k, Scalar(k)) /\ Complete(k, Scalar(k))
  BY DEF Scalar, TypeOK, RowsAreMeant
<1>2. /\ configuration'[r] = Scalar(k) /\ fields'[r] = Scalar(k)["field_mapping"]
      /\ phase'[r] = k
      /\ \A q \in Requests \ {r} : /\ configuration'[q] = configuration[q]
                                   /\ fields'[q] = fields[q] /\ phase'[q] = phase[q]
  BY DEF Goes, TypeOK
<1>3. shown[r] = {}
  BY DEF Going
<1> SUFFICES ASSUME NEW q \in Requests
             PROVE  /\ shown'[q] # {} => phase'[q] = "done"
                    /\ phase'[q] \in Keys =>
                         /\ configuration'[q] \in Row /\ Meant(phase'[q], configuration'[q])
                         /\ Complete(phase'[q], configuration'[q])
                         /\ fields'[q] = configuration'[q]["field_mapping"]
  BY DEF Going, Complete, Meant
<1>4. CASE q = r
  BY <1>1, <1>2, <1>3, <1>4
<1>5. CASE q # r
  BY <1>2, <1>5 DEF Going
<1> QED
  BY <1>4, <1>5

(* One that ends, or looks on, without a record shows none. *)
LEMMA StopIsGoing ==
  ASSUME TypeOK, Going, NEW r \in Requests, NEW p \in {"done", "failed", "empty"}, phase[r] # "done",
         phase' = [phase EXCEPT ![r] = p], UNCHANGED <<configuration, fields, shown>>
  PROVE  Going'
<1>1. phase'[r] = p /\ p \notin Keys /\ \A q \in Requests \ {r} : phase'[q] = phase[q]
  BY DEF TypeOK, Keys
<1>2. shown[r] = {}
  BY DEF Going
<1> QED
  BY <1>1, <1>2 DEF Going, Complete, Meant

LEMMA StartKeepsScope ==
  ASSUME Inv, Scoped, NEW r \in Requests, Start(r)
  PROVE  Scoped'
<1>1. TypeOK /\ Going /\ phase[r] = "new" /\ shown[r] = {} /\ UNCHANGED <<mapping, shown>>
  BY DEF Inv, Scoped, Going, Start, runVars
<1>2. PICK k \in {"profile", "leave_balance"} :
        IF Scalar(k) # None /\ Complete(k, Scalar(k))
        THEN Goes(r, k, Scalar(k))
        ELSE Fails(r) /\ UNCHANGED <<configuration, fields>>
  BY DEF Start
<1>3. Going'
  <2>1. CASE Scalar(k) # None /\ Complete(k, Scalar(k))
    BY <1>1, <1>2, <2>1, GoesIsGoing DEF Keys, Scoped
  <2>2. CASE ~(Scalar(k) # None /\ Complete(k, Scalar(k)))
    BY <1>1, <1>2, <2>2, StopIsGoing DEF Fails
  <2> QED
    BY <2>1, <2>2
<1>4. \A q \in Requests \ {r} : identity'[q] = identity[q] /\ configuration'[q] = configuration[q]
  BY <1>1, <1>2 DEF Start, Goes, TypeOK
<1>5. AnswersAreScoped'
  BY <1>1, <1>4 DEF AnswersAreScoped, Scoped
<1> QED
  BY <1>1, <1>3, <1>5 DEF Scoped, RowsAreMeant, Meant

LEMMA FallBackKeepsScope ==
  ASSUME Inv, Scoped, NEW r \in Requests, FallBack(r)
  PROVE  Scoped'
<1> DEFINE k == "leave_balance_active"
<1>1. /\ TypeOK /\ Going /\ phase[r] = "empty" /\ shown[r] = {}
      /\ UNCHANGED <<mapping, shown, identity>>
  BY DEF Inv, Scoped, Going, FallBack, runVars
<1>2. Going'
  <2>1. CASE Scalar(k) # None /\ Complete(k, Scalar(k)) /\ Goes(r, k, Scalar(k))
    BY <1>1, <2>1, GoesIsGoing DEF Keys, Scoped
  <2>2. CASE /\ UNCHANGED <<configuration, fields>>
             /\ Fails(r) \/ phase' = [phase EXCEPT ![r] = "done"]
    BY <1>1, <2>2, StopIsGoing DEF Fails
  <2> QED
    BY <2>1, <2>2 DEF FallBack
<1>3. \A q \in Requests \ {r} : configuration'[q] = configuration[q]
  BY <1>1 DEF FallBack, Goes, TypeOK
<1>4. AnswersAreScoped'
  BY <1>1, <1>3 DEF AnswersAreScoped, Scoped
<1> QED
  BY <1>1, <1>2, <1>4 DEF Scoped, RowsAreMeant, Meant

LEMMA ShowKeepsScope ==
  ASSUME Inv, Scoped, NEW r \in Requests, ShowProfile(r) \/ ShowLeave(r)
  PROVE  Scoped'
<1> DEFINE row == configuration[r]
<1>1. /\ TypeOK /\ Going /\ phase[r] \in Keys /\ phase[r] # "done" /\ phase[r] # "empty"
      /\ UNCHANGED <<identity, configuration, fields, mapping>>
  BY DEF Inv, Scoped, ShowProfile, ShowLeave, runVars, Keys
<1>2. row \in Row /\ Meant(phase[r], row) /\ Complete(phase[r], row)
      /\ fields[r] = row["field_mapping"] /\ shown[r] = {}
      /\ {"personnel_number_field", "field_mapping"} \subseteq DOMAIN row
  BY <1>1, RowElim DEF Going
<1>3. ASSUME NEW x \in shown'[r]
      PROVE  /\ x.PersonnelNumber = identity[r].worker
             /\ "leaveType" \in DOMAIN row.field_mapping =>
                  /\ row.company_field = "dataAreaId" /\ identity[r].company # None =>
                       CaseFold[x.dataAreaId] = CaseFold[identity[r].company]
                  /\ "hidden" \in DOMAIN row.field_mapping => x.HideLeaveBalances = FALSE
  <2>1. CASE ShowProfile(r)
    <3>1. phase[r] = "profile" /\ x[fields[r]["personnelNumber"]] = identity[r].worker
      BY <1>1, <1>3, <2>1 DEF ShowProfile, TypeOK
    <3>2. "personnelNumber" \in DOMAIN fields[r] /\ "leaveType" \notin DOMAIN row["field_mapping"]
      BY <1>2, <3>1 DEF Complete, Meant
    <3>3. fields[r]["personnelNumber"] = "PersonnelNumber"
      BY <1>2, <3>2 DEF Meant
    <3> QED
      BY <3>1, <3>2, <3>3
  <2>2. CASE ShowLeave(r)
    <3>1. /\ phase[r] # "profile" /\ Validated(r, x) /\ Hidden(r, x) \in BOOLEAN
          /\ ~Hidden(r, x)
      BY <1>1, <1>2, <1>3, <2>2 DEF ShowLeave, TypeOK
    <3>2. row["personnel_number_field"] = "PersonnelNumber"
      BY <1>2 DEF Complete, Meant
    <3>3. x.PersonnelNumber = identity[r].worker
      BY <3>1, <3>2 DEF Validated
    <3>4. ASSUME row.company_field = "dataAreaId", identity[r].company # None
          PROVE  CaseFold[x.dataAreaId] = CaseFold[identity[r].company]
      <4>1. row.company_field # None
        BY <3>4, MappingAssumption DEF Columns
      <4>2. Company(r) = identity[r].company
        BY <4>1 DEF Company
      <4> QED
        BY <3>1, <3>4, <4>2 DEF Validated
    <3>5. ASSUME "hidden" \in DOMAIN row.field_mapping PROVE x.HideLeaveBalances = FALSE
      <4>1. fields[r]["hidden"] = "HideLeaveBalances"
        BY <1>2, <3>5 DEF Meant
      <4>2. Hidden(r, x) = x["HideLeaveBalances"]
        BY <1>2, <3>5, <4>1 DEF Hidden
      <4> QED
        BY <3>1, <4>2
    <3> QED
      BY <3>3, <3>4, <3>5
  <2> QED
    BY <2>1, <2>2
<1>4. /\ \A q \in Requests \ {r} : shown'[q] = shown[q] /\ phase'[q] = phase[q]
      /\ phase'[r] \in {"done", "empty"} /\ (shown'[r] # {} => phase'[r] = "done")
  BY <1>1, <1>2 DEF ShowProfile, ShowLeave, TypeOK
<1>5. AnswersAreScoped'
  <2> SUFFICES ASSUME NEW q \in Requests, NEW x \in shown'[q]
               PROVE  LET w == configuration[q]
                      IN  /\ x.PersonnelNumber = identity[q].worker
                          /\ "leaveType" \in DOMAIN w.field_mapping =>
                               /\ w.company_field = "dataAreaId" /\ identity[q].company # None =>
                                    CaseFold[x.dataAreaId] = CaseFold[identity[q].company]
                               /\ "hidden" \in DOMAIN w.field_mapping => x.HideLeaveBalances = FALSE
    BY <1>1 DEF AnswersAreScoped
  <2>1. CASE q = r
    BY <1>3, <2>1
  <2>2. CASE q # r
    BY <1>4, <2>2 DEF Scoped, AnswersAreScoped
  <2> QED
    BY <2>1, <2>2
<1>6. Going'
  BY <1>1, <1>4 DEF Going, Keys, Complete, Meant
<1> QED
  BY <1>1, <1>5, <1>6 DEF Scoped, RowsAreMeant, Meant

LEMMA ScopeNext == FilesAreMeant /\ Inv /\ Scoped /\ [Next]_vars => Scoped'
<1> SUFFICES ASSUME FilesAreMeant, Inv, Scoped, [Next]_vars
             PROVE  Scoped'
  OBVIOUS
<1>1. ASSUME NEW r \in Requests, AskFails(r)
      PROVE  Scoped'
  <2>1. /\ TypeOK /\ Going /\ phase[r] # "done" /\ phase' = [phase EXCEPT ![r] = "failed"]
        /\ UNCHANGED <<mapping, identity, configuration, fields, shown>>
    BY <1>1 DEF AskFails, Fails, Inv, Scoped, Keys, runVars, requestVars
  <2>2. Going'
    BY <2>1, StopIsGoing
  <2> QED
    BY <2>1, <2>2 DEF Scoped, RowsAreMeant, AnswersAreScoped, Meant
<1>2. CASE UNCHANGED vars
  BY <1>2 DEF vars, Scoped, RowsAreMeant, Going, AnswersAreScoped, Complete, Meant
<1> QED
  BY <1>1, <1>2, StartKeepsScope, ShowKeepsScope, FallBackKeepsScope, RunsKeepScope
  DEF Next, Finished

(* With files that name the columns each field is meant for, an answer     *)
(* holds records of the verified worker and company alone and no hidden    *)
(* one, whatever rows the runs commit between its two queries              *)
(* (leave_service.py lines 29-113, profile_service.py lines 36-117).       *)
THEOREM AnswersKeepScope == FilesAreMeant => (Spec => []AnswersAreScoped)
<1> SUFFICES ASSUME FilesAreMeant
             PROVE  Spec => []AnswersAreScoped
  OBVIOUS
<1>1. Init => Scoped
  BY DEF Init, Scoped, RowsAreMeant, Going, AnswersAreScoped, Keys
<1>2. Inv /\ Scoped /\ [Next]_vars => Scoped'
  BY ScopeNext
<1>3. Scoped => AnswersAreScoped
  BY DEF Scoped
<1> QED
  BY <1>1, <1>2, <1>3, Invariance, PTL DEF Spec
-----------------------------------------------------------------------------
(* Where the columns of a row come from: whatever the runs read and in     *)
(* whatever order they commit, each column has the value that the file of  *)
(* one of its writers gives it, or its default.                            *)

FromFile(k, c) ==
  \E t \in writers[k] : c \in DOMAIN file[t][k] /\ mapping[k][c] = file[t][k][c]

Filed ==
  /\ \A k \in Keys : \A t \in writers[k] :
       file[t] \in Files /\ k \in DOMAIN file[t] /\ IsValid(file[t][k])
  /\ \A k \in Keys : mapping[k] # None =>
       \A c \in DOMAIN mapping[k] :
         FromFile(k, c) \/ (c # "entity_name" /\ mapping[k][c] = Defaults[c])

(* What a run commits, column by column. *)
LEMMA WrittenColumns ==
  ASSUME NEW t \in Runs, NEW k \in DOMAIN file[t], file[t] \in Files,
         loaded[t][k] \in Row \cup {None}, loaded[t][k] # None => mapping[k] \in Row,
         NEW c \in DOMAIN Written(t, k)
  PROVE  \/ c \in DOMAIN file[t][k] /\ Written(t, k)[c] = file[t][k][c]
         \/ c # "entity_name" /\ Written(t, k)[c] = Defaults[c]
         \/ mapping[k] # None /\ c \in DOMAIN mapping[k] /\ Written(t, k)[c] = mapping[k][c]
<1>1. CASE loaded[t][k] = None
  <2>1. "entity_name" \in DOMAIN file[t][k]
    BY ItemColumns
  <2> QED BY <1>1, <2>1 DEF Written, Assigned
<1>2. CASE loaded[t][k] # None
  <2>1. DOMAIN loaded[t][k] = DOMAIN mapping[k] /\ mapping[k] # None
    BY <1>2, RowElim, MappingAssumption
  <2> QED BY <1>2, <2>1 DEF Written, Assigned
<1> QED BY <1>1, <1>2

LEMMA CommitFiles ==
  ASSUME Inv, Filed, NEW t \in Runs, Commit(t)
  PROVE  Filed'
<1>1. /\ phase[t] = "loading" /\ DOMAIN loaded[t] = DOMAIN file[t] /\ file' = file
      /\ \A k \in Keys :
           /\ mapping'[k] = IF k \in DOMAIN file[t] THEN Written(t, k) ELSE mapping[k]
           /\ writers'[k] = writers[k] \cup (IF k \in DOMAIN file[t] THEN {t} ELSE {})
  BY DEF Commit
<1>2. file[t] \in Files /\ \A k \in DOMAIN file[t] : IsValid(file[t][k])
  BY <1>1 DEF Inv, Checked
<1>3. ASSUME NEW k \in Keys, NEW u \in writers'[k]
      PROVE  file'[u] \in Files /\ k \in DOMAIN file'[u] /\ IsValid(file'[u][k])
  BY <1>1, <1>2, <1>3 DEF Filed
<1>4. ASSUME NEW k \in Keys, NEW c, FromFile(k, c), mapping'[k][c] = mapping[k][c]
      PROVE  FromFile(k, c)'
  BY <1>1, <1>4 DEF FromFile
<1>5. ASSUME NEW k \in Keys, mapping'[k] # None, NEW c \in DOMAIN mapping'[k]
      PROVE  FromFile(k, c)' \/ (c # "entity_name" /\ mapping'[k][c] = Defaults[c])
  <2>1. CASE k \notin DOMAIN file[t]
    <3>1. mapping'[k] = mapping[k]
      BY <1>1, <2>1
    <3> QED BY <1>4, <1>5, <3>1 DEF Filed
  <2>2. CASE k \in DOMAIN file[t]
    <3>1. mapping'[k] = Written(t, k) /\ t \in writers'[k]
      BY <1>1, <2>2
    <3>2. loaded[t][k] \in Row \cup {None} /\ (loaded[t][k] # None => mapping[k] \in Row)
      BY <1>1, <2>2 DEF Inv, TypeOK, Read
    <3>3. \/ c \in DOMAIN file[t][k] /\ Written(t, k)[c] = file[t][k][c]
          \/ c # "entity_name" /\ Written(t, k)[c] = Defaults[c]
          \/ mapping[k] # None /\ c \in DOMAIN mapping[k] /\ Written(t, k)[c] = mapping[k][c]
      BY <1>2, <1>5, <2>2, <3>1, <3>2, WrittenColumns
    <3>4. CASE c \in DOMAIN file[t][k] /\ Written(t, k)[c] = file[t][k][c]
      BY <1>1, <3>1, <3>4 DEF FromFile
    <3>5. CASE mapping[k] # None /\ c \in DOMAIN mapping[k] /\ Written(t, k)[c] = mapping[k][c]
      BY <1>4, <3>1, <3>5 DEF Filed
    <3> QED BY <3>1, <3>3, <3>4, <3>5
  <2> QED BY <2>1, <2>2
<1> QED BY <1>3, <1>5 DEF Filed

LEMMA FiledNext == Inv /\ Filed /\ [Next]_vars => Filed'
<1> SUFFICES ASSUME Inv, Filed, [Next]_vars PROVE Filed'
  OBVIOUS
<1>1. ASSUME NEW t \in Runs, Commit(t) PROVE Filed'
  BY <1>1, CommitFiles
<1>2. ASSUME NEW t \in Runs, Validate(t) PROVE Filed'
  <2>1. UNCHANGED <<mapping, writers>> /\ \A u \in Runs \ {t} : file'[u] = file[u]
    BY <1>2 DEF Validate, Inv, Tables
  <2>2. \A k \in Keys : t \notin writers[k] /\ writers[k] \subseteq Runs
    BY <1>2 DEF Validate, Inv, Owned
  <2>3. \A k \in Keys : \A u \in writers[k] : file'[u] = file[u]
    BY <2>1, <2>2
  <2> QED BY <2>1, <2>3 DEF Filed, FromFile, IsValid, ConfiguredFields
<1>3. ASSUME NEW t \in Runs, Dies(t) PROVE Filed'
  <2>1. UNCHANGED <<mapping, writers>> /\ \A u \in Runs \ {t} : file'[u] = file[u]
    BY <1>3 DEF Dies, Inv, Tables
  <2>2. \A k \in Keys : t \notin writers[k] /\ writers[k] \subseteq Runs
    BY <1>3 DEF Dies, Inv, Owned
  <2>3. \A k \in Keys : \A u \in writers[k] : file'[u] = file[u]
    BY <2>1, <2>2
  <2> QED BY <2>1, <2>3 DEF Filed, FromFile, IsValid, ConfiguredFields
<1>4. CASE UNCHANGED <<mapping, writers, file>>
  BY <1>4 DEF Filed, FromFile, IsValid, ConfiguredFields
<1> QED
  BY <1>1, <1>2, <1>3, <1>4
  DEF Next, Finished, vars, runVars, Start, ShowProfile, ShowLeave, AskFails, FallBack, Load, CommitFails

LEMMA FiledAlways == Spec => []Filed
<1>1. Init => Filed
  BY DEF Init, Filed
<1> QED BY <1>1, FiledNext, Invariance, PTL DEF Spec

(* Where a configured field of a row was confirmed. *)
LEMMA FieldsAreFiled ==
  ASSUME Inv, Filed, NEW k \in Keys, mapping[k] # None
  PROVE  /\ \E t \in writers[k] : mapping[k].entity_name = file[t][k].entity_name
         /\ \A x \in ConfiguredFields(mapping[k]) :
              \E t \in writers[k] : x \in ConfiguredFields(file[t][k])
<1>1. /\ mapping[k] \in Row
      /\ DOMAIN mapping[k] = {"personnel_number_field", "company_field", "field_mapping", "enabled",
                              "entity_name"}
  BY RowElim DEF Inv, TypeOK
<1>2. \E t \in writers[k] : mapping[k].entity_name = file[t][k].entity_name
  BY <1>1 DEF Filed, FromFile
<1>3. ASSUME NEW x \in ConfiguredFields(mapping[k])
      PROVE  \E t \in writers[k] : x \in ConfiguredFields(file[t][k])
  <2>1. \/ \E c \in {"personnel_number_field", "company_field"} : x = mapping[k][c] /\ x # None
        \/ \E f \in DOMAIN mapping[k].field_mapping : x = mapping[k].field_mapping[f]
    BY <1>1 DEF ConfiguredFields
  <2>2. ASSUME NEW c \in {"personnel_number_field", "company_field"}, x = mapping[k][c], x # None
        PROVE  \E t \in writers[k] : x \in ConfiguredFields(file[t][k])
    <3>1. Defaults[c] = None
      BY DEF Defaults
    <3>2. FromFile(k, c)
      BY <1>1, <2>2, <3>1 DEF Filed
    <3> QED BY <2>2, <3>2 DEF FromFile, ConfiguredFields
  <2>3. ASSUME NEW f \in DOMAIN mapping[k].field_mapping, x = mapping[k].field_mapping[f]
        PROVE  \E t \in writers[k] : x \in ConfiguredFields(file[t][k])
    <3>1. DOMAIN Defaults["field_mapping"] = {}
      BY DEF Defaults, Empty
    <3>2. FromFile(k, "field_mapping")
      BY <1>1, <2>3, <3>1 DEF Filed
    <3> QED BY <2>3, <3>2 DEF FromFile, ConfiguredFields
  <2> QED BY <2>1, <2>2, <2>3
<1> QED BY <1>2, <1>3

(* A row with columns that its entity does not have was written by runs    *)
(* that disagree on the entity, and even its columns were each confirmed,  *)
(* in whatever order the runs read and commit                              *)
(* (apply_d365_mapping.py lines 48-92).                                    *)
THEOREM ConfirmationIsLostByMixing == Spec => []RowsKeepConfirmation
<1>1. Inv /\ Filed => ConfirmedPiecewise
  BY FieldsAreFiled DEF ConfirmedPiecewise, Filed, IsValid
<1>2. Inv /\ Filed => OnlyMixturesAreUnconfirmed
  <2> SUFFICES ASSUME Inv, Filed, NEW k \in Keys, mapping[k] # None,
                      \A t, u \in writers[k] : file[t][k].entity_name = file[u][k].entity_name
               PROVE  ColumnsExist(mapping[k])
    BY DEF OnlyMixturesAreUnconfirmed
  <2>1. PICK t \in writers[k] : mapping[k].entity_name = file[t][k].entity_name
    BY FieldsAreFiled
  <2>2. ASSUME NEW x \in ConfiguredFields(mapping[k])
        PROVE  x \in Properties[mapping[k].entity_name]
    <3>1. PICK u \in writers[k] : x \in ConfiguredFields(file[u][k])
      BY FieldsAreFiled
    <3>2. file[u][k].entity_name = mapping[k].entity_name
      BY <2>1
    <3> QED BY <3>1, <3>2 DEF Filed, IsValid
  <2> QED BY <2>1, <2>2 DEF ColumnsExist, Filed, IsValid
<1>3. Inv /\ Filed => RowsKeepConfirmation
  BY <1>1, <1>2 DEF RowsKeepConfirmation
<1> QED BY <1>3, Invariance, FiledAlways, PTL

(* No two files put different entities under one key. *)
EntitiesStay ==
  \A f, g \in Files : \A k \in DOMAIN f \cap DOMAIN g : f[k].entity_name = g[k].entity_name

(* That MappingsAreConfirmed fails takes files that change the entity of a *)
(* key: as long as none does, every row has only columns its entity has,   *)
(* whatever the files leave out and however the runs overlap.              *)
THEOREM ConfirmedWhileEntitiesStay == EntitiesStay => (Spec => []MappingsAreConfirmed)
<1> SUFFICES ASSUME EntitiesStay PROVE Spec => []MappingsAreConfirmed
  OBVIOUS
<1>1. Filed /\ RowsKeepConfirmation => MappingsAreConfirmed
  BY DEF MappingsAreConfirmed, RowsKeepConfirmation, OnlyMixturesAreUnconfirmed, Filed, EntitiesStay
<1> QED BY <1>1, FiledAlways, ConfirmationIsLostByMixing, PTL
-----------------------------------------------------------------------------
(* What a run has read is still there, column by column, or a run's file   *)
(* has given the column the value it has now.                              *)

Kept ==
  \A t \in Runs : phase[t] = "loading" =>
    \A k \in DOMAIN loaded[t] : loaded[t][k] # None =>
      \A c \in DOMAIN loaded[t][k] : mapping[k][c] = loaded[t][k][c] \/ FromFile(k, c)

LEMMA CommitKeepsRead ==
  ASSUME Inv, Kept, NEW t \in Runs, Commit(t)
  PROVE  Kept'
<1>1. /\ phase[t] = "loading" /\ DOMAIN loaded[t] = DOMAIN file[t]
      /\ \A k \in DOMAIN file[t] : loaded[t][k] = None => mapping[k] = None
      /\ UNCHANGED <<file, loaded>>
      /\ phase'[t] # "loading" /\ \A u \in Runs \ {t} : phase'[u] = phase[u]
      /\ \A k \in Keys :
           /\ mapping'[k] = IF k \in DOMAIN file[t] THEN Written(t, k) ELSE mapping[k]
           /\ writers'[k] = writers[k] \cup (IF k \in DOMAIN file[t] THEN {t} ELSE {})
  BY DEF Commit, Inv, Tables
<1>2. SUFFICES ASSUME NEW u \in Runs, phase[u] = "loading", NEW k \in DOMAIN loaded[u],
                      loaded[u][k] # None, NEW c \in DOMAIN loaded[u][k]
               PROVE  mapping'[k][c] = loaded[u][k][c] \/ FromFile(k, c)'
  BY <1>1 DEF Kept, FromFile
<1>3. k \in Keys /\ mapping[k] # None /\ loaded[u][k] \in Row
  BY <1>2, FileKeys DEF Inv, Checked, Read, TypeOK
<1>4. ASSUME mapping'[k][c] = mapping[k][c]
      PROVE  mapping'[k][c] = loaded[u][k][c] \/ FromFile(k, c)'
  BY <1>1, <1>2, <1>3, <1>4 DEF Kept, FromFile
<1>5. ASSUME k \in DOMAIN file[t], mapping'[k][c] # mapping[k][c]
      PROVE  FromFile(k, c)'
  <2>1. loaded[t][k] \in Row /\ loaded[t][k] # None
    BY <1>1, <1>3, <1>5 DEF Inv, TypeOK
  <2>2. c \in DOMAIN loaded[t][k]
    BY <1>2, <1>3, <2>1, RowElim
  <2>3. c \in DOMAIN file[t][k] /\ mapping'[k][c] = file[t][k][c]
    BY <1>1, <1>3, <1>5, <2>1, <2>2 DEF Written, Assigned
  <2> QED BY <1>1, <1>3, <1>5, <2>3 DEF FromFile
<1> QED BY <1>1, <1>3, <1>4, <1>5

LEMMA KeptNext == Inv /\ Kept /\ [Next]_vars => Kept'
<1> SUFFICES ASSUME Inv, Kept, [Next]_vars PROVE Kept'
  OBVIOUS
<1>1. ASSUME NEW t \in Runs, Commit(t) PROVE Kept'
  BY <1>1, CommitKeepsRead
<1>2. ASSUME NEW t \in Runs, Validate(t) \/ Dies(t) PROVE Kept'
  <2>1. /\ UNCHANGED <<mapping, writers>>
        /\ \A u \in Runs \ {t} :
             phase'[u] = phase[u] /\ file'[u] = file[u] /\ loaded'[u] = loaded[u]
        /\ phase'[t] = "loading" => DOMAIN loaded'[t] = {}
    BY <1>2 DEF Validate, Dies, Fails, Inv, Tables, Checked
  <2>2. \A k \in Keys : t \notin writers[k] /\ writers[k] \subseteq Runs
    BY <1>2 DEF Validate, Dies, Inv, Owned
  <2>3. ASSUME NEW k \in Keys, NEW c, FromFile(k, c) PROVE FromFile(k, c)'
    BY <2>1, <2>2, <2>3 DEF FromFile
  <2>4. \A u \in Runs : phase[u] = "loading" => DOMAIN loaded[u] \subseteq Keys
    BY FileKeys DEF Inv, Checked
  <2> QED BY <2>1, <2>3, <2>4 DEF Kept
<1>3. ASSUME NEW t \in Runs, Load(t) PROVE Kept'
  <2>1. PICK k \in DOMAIN file[t] \ DOMAIN loaded[t] :
          loaded' = [loaded EXCEPT ![t] = [l \in DOMAIN @ \cup {k} |->
                                             IF l = k THEN mapping[k] ELSE @[l]]]
    BY <1>3 DEF Load
  <2>2. /\ UNCHANGED <<mapping, phase, file, writers>>
        /\ \A u \in Runs \ {t} : loaded'[u] = loaded[u]
        /\ DOMAIN loaded'[t] = DOMAIN loaded[t] \cup {k} /\ loaded'[t][k] = mapping[k]
        /\ \A l \in DOMAIN loaded[t] : loaded'[t][l] = loaded[t][l]
    BY <1>3, <2>1 DEF Load, Inv, Tables
  <2> QED BY <2>2 DEF Kept, FromFile
<1>4. CASE UNCHANGED <<mapping, writers, file, loaded>> /\ \A t \in Runs : phase'[t] \in {phase[t], "failed"}
  BY <1>4 DEF Kept, FromFile
<1>5. ASSUME NEW r \in Requests,
             Start(r) \/ ShowProfile(r) \/ ShowLeave(r) \/ AskFails(r) \/ FallBack(r)
      PROVE  Kept'
  BY <1>4, <1>5, RequestsOnlyRead DEF runVars
<1>6. ASSUME NEW t \in Runs, CommitFails(t) PROVE Kept'
  BY <1>4, <1>6 DEF CommitFails, Fails, Inv, Tables, runVars
<1>7. CASE UNCHANGED vars
  BY <1>4, <1>7 DEF vars
<1> QED
  BY <1>1, <1>2, <1>3, <1>5, <1>6, <1>7 DEF Next, Finished

LEMMA KeptAlways == Spec => []Kept
<1>1. Init => Kept
  BY DEF Init, Kept
<1> QED BY <1>1, KeptNext, Invariance, PTL DEF Spec

(* A run that ends well leaves the table as its file has it, although it   *)
(* writes only what differs from the rows it read, but for columns that it *)
(* found so and another run's file has changed since: however many runs    *)
(* overlap (apply_d365_mapping.py lines 69-92).                            *)
THEOREM ApplicationIsExact == Spec => AppliedAsFiled
<1>1. Inv /\ Kept /\ [Next]_vars =>
        \A t \in Runs : phase[t] = "loading" /\ phase'[t] = "done" =>
          \A k \in DOMAIN file[t] : \A c \in DOMAIN file[t][k] :
            mapping'[k][c] # file[t][k][c] =>
              /\ t \in overlapped
              /\ loaded[t][k] # None /\ loaded[t][k][c] = file[t][k][c]
              /\ \E u \in writers[k] : c \in DOMAIN file[u][k] /\ mapping'[k][c] = file[u][k][c]
  <2> SUFFICES ASSUME Inv, Kept, [Next]_vars,
                      NEW t \in Runs, phase[t] = "loading", phase'[t] = "done",
                      NEW k \in DOMAIN file[t], NEW c \in DOMAIN file[t][k],
                      mapping'[k][c] # file[t][k][c]
               PROVE  /\ t \in overlapped
                      /\ loaded[t][k] # None /\ loaded[t][k][c] = file[t][k][c]
                      /\ \E u \in writers[k] : c \in DOMAIN file[u][k] /\ mapping'[k][c] = file[u][k][c]
    OBVIOUS
  <2>1. Commit(t)
    <3>1. ASSUME NEW r \in Requests,
                 Start(r) \/ ShowProfile(r) \/ ShowLeave(r) \/ AskFails(r) \/ FallBack(r)
          PROVE  FALSE
      BY <3>1, RequestsOnlyRead
    <3>2. ASSUME NEW u \in Runs,
                 Validate(u) \/ Load(u) \/ CommitFails(u) \/ Dies(u) \/ (Commit(u) /\ u # t)
          PROVE  FALSE
      BY <3>2 DEF Validate, Load, CommitFails, Dies, Commit, Fails, Inv, Tables
    <3>3. ~UNCHANGED vars
      BY DEF vars
    <3> QED
      BY <3>1, <3>2, <3>3 DEF Next, Finished
  <2>2. k \in Keys /\ k \in DOMAIN loaded[t] /\ mapping'[k] = Written(t, k)
    BY <2>1, FileKeys DEF Commit, Inv, Checked
  <2>3. /\ loaded[t][k] \in Row \cup {None} /\ mapping[k] \in Row \cup {None}
        /\ \E row \in Row : DOMAIN file[t][k] \subseteq DOMAIN row
    BY <2>2, ItemColumns DEF Inv, TypeOK, Checked
  <2>4. c \in {"personnel_number_field", "company_field", "field_mapping", "enabled", "entity_name"}
    BY <2>3, RowElim
  <2>5. loaded[t][k] # None
    BY <2>2, <2>4 DEF Written, Assigned, Defaults
  <2>6. c \in DOMAIN loaded[t][k]
    BY <2>3, <2>4, <2>5, RowElim
  <2>7. loaded[t][k][c] = file[t][k][c] /\ mapping'[k][c] = mapping[k][c]
    BY <2>2, <2>5, <2>6 DEF Written, Assigned
  <2>8. FromFile(k, c)
    BY <2>2, <2>5, <2>6, <2>7 DEF Kept
  <2>9. t \in overlapped
    BY <2>2, <2>7 DEF Inv, Read
  <2> QED
    BY <2>5, <2>7, <2>8, <2>9 DEF FromFile
<1> QED
  BY <1>1, Invariance, KeptAlways, PTL DEF Spec, AppliedAsFiled
=============================================================================
