--------------------------- MODULE EntityMappings ---------------------------
(***************************************************************************)
(* The table d365_entity_mapping, which says which entity and columns of   *)
(* D365 hold an employee's data: apply_d365_mapping writes it, after a     *)
(* check of the file against the metadata of D365, and the profile and     *)
(* leave services read it, one row per query, while they answer requests.  *)
(* Several runs of the tool and several requests are under way at once.    *)
(***************************************************************************)
CONSTANTS
  Requests,
  Runs,        \* runs of apply_d365_mapping
  Files,       \* the configuration files: mapping keys to items
  Entities,
  Properties,  \* the metadata of D365: the columns of the entities it has
  Workers,     \* personnel numbers
  Companies,   \* legal entities as they may be spelled
  CaseFold,    \* str.casefold of a company
  None

Keys == {"profile", "leave_balance", "leave_balance_active"}
Logical == {"personnelNumber", "leaveType", "hidden"}
Columns == {"PersonnelNumber", "dataAreaId", "LeaveTypeId", "HideLeaveBalances"}

(* Any of the functions from a part of S to T. *)
Partial(S, T) == UNION {[D -> T] : D \in SUBSET S}

(* A row of the table.  The email, position, department and manager fields *)
(* are treated as company_field is, and nothing reads them.                *)
Row ==
  [entity_name : Entities, personnel_number_field : Columns \cup {None},
   company_field : Columns \cup {None}, field_mapping : Partial(Logical, Columns),
   enabled : BOOLEAN]

Empty == [x \in {} |-> None]

(* The columns that a new row has where the file is silent. *)
Defaults ==
  [personnel_number_field |-> None, company_field |-> None, field_mapping |-> Empty,
   enabled |-> FALSE]

(* An item names the entity and any of the other columns of a row. *)
IsItem(item) ==
  /\ "entity_name" \in DOMAIN item
  /\ \E row \in Row : /\ DOMAIN item \subseteq DOMAIN row
                      /\ \A c \in DOMAIN item : item[c] = row[c]

ASSUME MappingAssumption ==
  /\ Requests \cap Runs = {}
  /\ \A file \in Files : DOMAIN file \subseteq Keys /\ \A k \in DOMAIN file : IsItem(file[k])
  /\ DOMAIN Properties \subseteq Entities
  /\ \A e \in DOMAIN Properties : Properties[e] \subseteq Columns
  /\ Companies \subseteq DOMAIN CaseFold
  /\ None \notin Row \cup Columns \cup Companies \cup Files

(* A record that D365 returns: a value of each column.  A visibility that  *)
(* is neither yes nor no is None.                                          *)
Record ==
  [PersonnelNumber : Workers, dataAreaId : Companies, LeaveTypeId : {"leave"},
   HideLeaveBalances : BOOLEAN \cup {None}]

VARIABLES
  mapping,     \* the table: a row or None for each key
  phase,       \* where each request and each run is
  identity,    \* the verified worker and company of a request
  configuration, \* the row a request goes by
  fields,      \* the columns it reads the records with
  shown,       \* the records in its answer
  file,        \* the file that a run applies
  loaded,      \* the rows a run has read, and found or not
  overlapped,  \* auxiliary: the runs that another commit came between
  writers      \* auxiliary: the runs that wrote a row of each key

vars == <<mapping, phase, identity, configuration, fields, shown, file, loaded,
          overlapped, writers>>
requestVars == <<identity, configuration, fields, shown>>
runVars == <<mapping, file, loaded, overlapped, writers>>

Phases == Keys \cup {"new", "empty", "loading", "done", "failed", "dead"}

TypeOK ==
  /\ mapping \in [Keys -> Row \cup {None}]
  /\ phase \in [Requests \cup Runs -> Phases]
  /\ identity \in [Requests -> [worker : Workers, company : Companies \cup {None}] \cup {None}]
  /\ configuration \in [Requests -> Row \cup {None}]
  /\ fields \in [Requests -> Partial(Logical, Columns)]
  /\ shown \in [Requests -> SUBSET Record]
  /\ file \in [Runs -> Files \cup {None}]
  /\ \A t \in Runs : /\ DOMAIN loaded[t] \subseteq Keys
                     /\ \A k \in DOMAIN loaded[t] : loaded[t][k] \in Row \cup {None}
  /\ overlapped \subseteq Runs
  /\ writers \in [Keys -> SUBSET Runs]

Init ==
  /\ mapping = [k \in Keys |-> None]
  /\ phase = [a \in Requests \cup Runs |-> "new"]
  /\ identity = [r \in Requests |-> None]
  /\ configuration = [r \in Requests |-> None]
  /\ fields = [r \in Requests |-> Empty]
  /\ shown = [r \in Requests |-> {}]
  /\ file = [t \in Runs |-> None]
  /\ loaded = [t \in Runs |-> Empty]
  /\ overlapped = {}
  /\ writers = [k \in Keys |-> {}]
-----------------------------------------------------------------------------
(* The services that read the table.                                       *)

Scalar(k) == IF mapping[k] # None /\ mapping[k].enabled THEN mapping[k] ELSE None

(* What a row must have for its query. *)
Complete(k, row) ==
  /\ row.personnel_number_field # None
  /\ (IF k = "profile" THEN "personnelNumber" ELSE "leaveType") \in DOMAIN row.field_mapping

(* The request takes row, the one of key k, for its next query to D365.    *)
(* _validated_fields leaves out the fields the service does not know, of   *)
(* which Logical has none.                                                 *)
Goes(r, k, row) ==
  /\ configuration' = [configuration EXCEPT ![r] = row]
  /\ fields' = [fields EXCEPT ![r] = row.field_mapping]
  /\ phase' = [phase EXCEPT ![r] = k]

Fails(a) == phase' = [phase EXCEPT ![a] = "failed"]

(* A request for the profile or the balances of the verified worker reads  *)
(* the row it needs.                                                       *)
Start(r) ==
  /\ phase[r] = "new"
  /\ \E w \in Workers, c \in Companies \cup {None} :
       identity' = [identity EXCEPT ![r] = [worker |-> w, company |-> c]]
  /\ \E k \in {"profile", "leave_balance"} :
       LET row == Scalar(k)
       IN  IF row # None /\ Complete(k, row)
           THEN Goes(r, k, row)
           ELSE Fails(r) /\ UNCHANGED <<configuration, fields>>
  /\ UNCHANGED <<shown, runVars>>

Company(r) == IF configuration[r].company_field = None THEN None ELSE identity[r].company

Selected(r) ==
  {configuration[r].personnel_number_field} \cup {fields[r][f] : f \in DOMAIN fields[r]}
    \cup (IF Company(r) = None THEN {} ELSE {configuration[r].company_field})

(* What D365 may answer to the query of r: it refuses a query for columns  *)
(* it does not have, and need not have heeded the filter otherwise.  Two   *)
(* records are enough for any two to differ.                               *)
Answers(r) ==
  LET e == configuration[r].entity_name
  IN  IF e \in DOMAIN Properties /\ Selected(r) \subseteq Properties[e]
      THEN {{}} \cup {{x, y} : x, y \in Record}
      ELSE {}

(* The answer of the profile entity: exactly one record, of the worker. *)
ShowProfile(r) ==
  /\ phase[r] = "profile"
  /\ \E x \in Record :
       /\ {x} \in Answers(r)
       /\ x[fields[r]["personnelNumber"]] = identity[r].worker
       /\ shown' = [shown EXCEPT ![r] = {x}]
  /\ phase' = [phase EXCEPT ![r] = "done"]
  /\ UNCHANGED <<identity, configuration, fields, runVars>>

(* What _records asks of each record. *)
Validated(r, x) ==
  /\ x[configuration[r].personnel_number_field] = identity[r].worker
  /\ Company(r) # None =>
       CaseFold[x[configuration[r].company_field]] = CaseFold[identity[r].company]

Hidden(r, x) == IF "hidden" \in DOMAIN fields[r] THEN x[fields[r]["hidden"]] ELSE FALSE

(* The answer of a leave entity.  An empty one of the first makes the      *)
(* service look for the second; a record that fails a check ends it.       *)
ShowLeave(r) ==
  /\ phase[r] \in {"leave_balance", "leave_balance_active"}
  /\ \E records \in Answers(r) :
       /\ \A x \in records : Validated(r, x) /\ Hidden(r, x) \in BOOLEAN
       /\ IF records = {} /\ phase[r] = "leave_balance"
          THEN phase' = [phase EXCEPT ![r] = "empty"] /\ UNCHANGED shown
          ELSE /\ phase' = [phase EXCEPT ![r] = "done"]
               /\ shown' = [shown EXCEPT ![r] = {x \in records : ~Hidden(r, x)}]
  /\ UNCHANGED <<identity, configuration, fields, runVars>>

(* D365 fails, or its answer a check: the request ends with an error. *)
AskFails(r) ==
  /\ phase[r] \in Keys
  /\ Fails(r)
  /\ UNCHANGED <<requestVars, runVars>>

(* Fault: the second query's records are read with the first one's fields. *)
FallBack_OldFields(r) ==
  /\ phase[r] = "empty"
  /\ LET k == "leave_balance_active"
         row == Scalar(k)
     IN  \/ row = None /\ phase' = [phase EXCEPT ![r] = "done"] /\ UNCHANGED configuration
         \/ row # None /\ ~Complete(k, row) /\ Fails(r) /\ UNCHANGED configuration
         \/ /\ row # None /\ Complete(k, row)
            /\ configuration' = [configuration EXCEPT ![r] = row]
            /\ phase' = [phase EXCEPT ![r] = k]
  /\ UNCHANGED <<identity, fields, shown, runVars>>

(* The row of the second entity need not be there: no balances then. *)
FallBack(r) ==
  /\ phase[r] = "empty"
  /\ LET k == "leave_balance_active"
         row == Scalar(k)
     IN  \/ /\ row = None
            /\ phase' = [phase EXCEPT ![r] = "done"]
            /\ UNCHANGED <<configuration, fields>>
         \/ row # None /\ ~Complete(k, row) /\ Fails(r) /\ UNCHANGED <<configuration, fields>>
         \/ row # None /\ Complete(k, row) /\ Goes(r, k, row)
  /\ UNCHANGED <<identity, shown, runVars>>
-----------------------------------------------------------------------------
(* The tool that writes the table.                                         *)

ConfiguredFields(item) ==
  ({item[c] : c \in DOMAIN item \cap {"personnel_number_field", "company_field"}} \ {None})
    \cup (IF "field_mapping" \in DOMAIN item
          THEN {item.field_mapping[f] : f \in DOMAIN item.field_mapping} ELSE {})

(* Fault: the fields of the file are not looked up. *)
IsValid_EntityOnly(item) == item.entity_name \in DOMAIN Properties

IsValid(item) ==
  /\ item.entity_name \in DOMAIN Properties
  /\ ConfiguredFields(item) \subseteq Properties[item.entity_name]

(* The file is checked whole before the first row is read.  It may be      *)
(* meant for another environment, or D365 not answer; a dry run ends.      *)
Validate(t) ==
  /\ phase[t] = "new"
  /\ \E f \in Files :
       IF \A k \in DOMAIN f : IsValid(f[k])
       THEN \/ /\ phase' = [phase EXCEPT ![t] = "loading"]
               /\ file' = [file EXCEPT ![t] = f]
            \/ /\ \E p \in {"done", "failed"} : phase' = [phase EXCEPT ![t] = p]
               /\ UNCHANGED file
       ELSE Fails(t) /\ UNCHANGED file
  /\ UNCHANGED <<mapping, loaded, overlapped, writers, requestVars>>

(* Fault: the SELECT finds enabled rows only, as those of the services do. *)
Load_Enabled(t) ==
  /\ phase[t] = "loading"
  /\ \E k \in DOMAIN file[t] \ DOMAIN loaded[t] :
       loaded' = [loaded EXCEPT ![t] = [l \in DOMAIN @ \cup {k} |->
                                          IF l = k THEN Scalar(k) ELSE @[l]]]
  /\ UNCHANGED <<mapping, phase, file, overlapped, writers, requestVars>>

(* One SELECT of the loop, which sees what is committed by then.  The      *)
(* order of the items in the file is left open.                            *)
Load(t) ==
  /\ phase[t] = "loading"
  /\ \E k \in DOMAIN file[t] \ DOMAIN loaded[t] :
       loaded' = [loaded EXCEPT ![t] = [l \in DOMAIN @ \cup {k} |->
                                          IF l = k THEN mapping[k] ELSE @[l]]]
  /\ UNCHANGED <<mapping, phase, file, overlapped, writers, requestVars>>

(* Fault: a value that Python takes for false is not set. *)
Assigned_Truthy(item, c) ==
  c \in DOMAIN item /\ IF c = "enabled" THEN item[c] ELSE item[c] # None

Assigned(item, c) == c \in DOMAIN item

(* Fault: a new row has only the columns of the file. *)
Written_Bare(t, k) ==
  LET item == file[t][k]
      old == loaded[t][k]
  IN  IF old = None THEN item
      ELSE [c \in DOMAIN old |->
              IF Assigned(item, c) /\ item[c] # old[c] THEN item[c] ELSE mapping[k][c]]

(* The row that commits for key k.  The UPDATE has only the columns whose  *)
(* value differs from the one that was read.                               *)
Written(t, k) ==
  LET item == file[t][k]
      old == loaded[t][k]
  IN  IF old = None
      THEN [c \in DOMAIN Defaults \cup {"entity_name"} |->
              IF c = "entity_name" \/ Assigned(item, c) THEN item[c] ELSE Defaults[c]]
      ELSE [c \in DOMAIN old |->
              IF Assigned(item, c) /\ item[c] # old[c] THEN item[c] ELSE mapping[k][c]]

(* All rows are committed together. *)
Commit(t) ==
  /\ phase[t] = "loading" /\ DOMAIN loaded[t] = DOMAIN file[t]
  /\ \A k \in DOMAIN file[t] : loaded[t][k] = None => mapping[k] = None
  /\ mapping' = [k \in Keys |-> IF k \in DOMAIN file[t] THEN Written(t, k) ELSE mapping[k]]
  /\ phase' = [phase EXCEPT ![t] = "done"]
  /\ writers' = [k \in Keys |-> writers[k] \cup (IF k \in DOMAIN file[t] THEN {t} ELSE {})]
  /\ overlapped' = overlapped \cup {u \in Runs \ {t} : phase[u] = "loading" /\ DOMAIN loaded[u] # {}}
  /\ UNCHANGED <<file, loaded, requestVars>>

(* mapping_key is unique: the INSERT of a key that another run has         *)
(* inserted meanwhile raises an IntegrityError, which ends the run.        *)
CommitFails(t) ==
  /\ phase[t] = "loading" /\ DOMAIN loaded[t] = DOMAIN file[t]
  /\ \E k \in DOMAIN file[t] : loaded[t][k] = None /\ mapping[k] # None
  /\ Fails(t)
  /\ UNCHANGED <<requestVars, runVars>>

(* The run ends in its loop or at its commit with nothing written: an item *)
(* without a mapping_key, a null where the table takes none, a database or *)
(* a process that is lost.  What it had in memory is gone.                 *)
Dies(t) ==
  /\ phase[t] = "loading"
  /\ phase' = [phase EXCEPT ![t] = "dead"]
  /\ file' = [file EXCEPT ![t] = None]
  /\ loaded' = [loaded EXCEPT ![t] = Empty]
  /\ UNCHANGED <<mapping, overlapped, writers, requestVars>>

Finished ==
  /\ \A a \in Requests \cup Runs : phase[a] \in {"done", "failed", "dead"}
  /\ UNCHANGED vars

Next ==
  \/ \E r \in Requests : Start(r) \/ ShowProfile(r) \/ ShowLeave(r) \/ AskFails(r) \/ FallBack(r)
  \/ \E t \in Runs : Validate(t) \/ Load(t) \/ Commit(t) \/ CommitFails(t) \/ Dies(t)
  \/ Finished

Spec == Init /\ [][Next]_vars
-----------------------------------------------------------------------------
(* The service "remains scoped to the verified personnel number and        *)
(* company, and suppresses rows whose HideLeaveBalances value is enabled"  *)
(* (README.md lines 137-138), by the row of the table that each query was  *)
(* made from, whatever the tool makes of that row meanwhile.               *)
AnswersAreScoped ==
  \A r \in Requests : \A x \in shown[r] :
    LET row == configuration[r]
    IN  /\ x.PersonnelNumber = identity[r].worker
        /\ "leaveType" \in DOMAIN row.field_mapping =>
             /\ row.company_field = "dataAreaId" /\ identity[r].company # None =>
                  CaseFold[x.dataAreaId] = CaseFold[identity[r].company]
             /\ "hidden" \in DOMAIN row.field_mapping => x.HideLeaveBalances = FALSE

ColumnsExist(row) ==
  /\ row.entity_name \in DOMAIN Properties
  /\ ConfiguredFields(row) \subseteq Properties[row.entity_name]

(* A row has columns its entity does not have only if runs whose files name*)
(* different entities wrote it (apply_d365_mapping.py lines 48-90).        *)
OnlyMixturesAreUnconfirmed ==
  \A k \in Keys : mapping[k] # None /\ ~ColumnsExist(mapping[k]) =>
    \E t, u \in writers[k] : file[t][k].entity_name # file[u][k].entity_name

(* Even then the entity of the row exists, and each of its columns was     *)
(* confirmed, though perhaps of another entity, by a run that wrote it.    *)
ConfirmedPiecewise ==
  \A k \in Keys : mapping[k] # None =>
    /\ mapping[k].entity_name \in DOMAIN Properties
    /\ \A x \in ConfiguredFields(mapping[k]) :
         \E t \in writers[k] : x \in Properties[file[t][k].entity_name]

(* What is left of "metadata-confirmed" (README.md:3) when runs overlap or *)
(* files are terse: as much as the checks of the runs that wrote the row   *)
(* give, and all of it as long as they agree on its entity.                *)
RowsKeepConfirmation == OnlyMixturesAreUnconfirmed /\ ConfirmedPiecewise

(* Of runs that insert one key the first is applied: a run that read the   *)
(* table and does not die is refused only if another one committed since.  *)
RunsFailForCause ==
  \A t \in Runs : phase[t] = "failed" /\ DOMAIN loaded[t] # {} => t \in overlapped

(* A run that ends well leaves every column as its file has it, also those *)
(* the file clears or disables, but for one it had found so already and    *)
(* left out of its UPDATE, while another run's file gave it the value that *)
(* it has (line 89): nothing else of an earlier file, or of what the run   *)
(* read, gets in the way of what it reports as applied.                    *)
AppliedAsFiled ==
  [][\A t \in Runs : phase[t] = "loading" /\ phase'[t] = "done" =>
       \A k \in DOMAIN file[t] : \A c \in DOMAIN file[t][k] :
         mapping'[k][c] # file[t][k][c] =>
           /\ t \in overlapped
           /\ loaded[t][k] # None /\ loaded[t][k][c] = file[t][k][c]
           /\ \E u \in writers[k] : c \in DOMAIN file[u][k] /\ mapping'[k][c] = file[u][k][c]]_vars

(* "D365 profile access is driven only by metadata-confirmed database      *)
(* configuration" (README.md:3); a mapping "is checked against live        *)
(* metadata before persistence" (README.md:125).                           *)
MappingsAreConfirmed == \A k \in Keys : mapping[k] # None => ColumnsExist(mapping[k])
=============================================================================
