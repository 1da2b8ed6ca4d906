----------------------------- MODULE MCMappings -----------------------------
(* A small instance of EntityMappings for TLC.                             *)
EXTENDS EntityMappings, TLC

CONSTANTS r1, t1, t2, t3, w1, w2, SSSA, sssa, USMF

MCCaseFold == (SSSA :> sssa) @@ (sssa :> sssa) @@ (USMF :> USMF)

MCProperties ==
  [Ess |-> {"PersonnelNumber", "dataAreaId", "LeaveTypeId"},
   Active |-> Columns,
   Bare |-> {"PersonnelNumber", "LeaveTypeId"}]

(* An item that names every column. *)
Item(e, company, map, on) ==
  [entity_name |-> e, personnel_number_field |-> "PersonnelNumber", company_field |-> company,
   field_mapping |-> map, enabled |-> on]

Type == [leaveType |-> "LeaveTypeId"]

(* The confirmed file; one that corrects an entity and one that does so    *)
(* and says nothing of the company; one that disables a row; and one that  *)
(* names a column that is not there.                                       *)
Confirmed ==
  [profile |-> Item("Ess", "dataAreaId", [personnelNumber |-> "PersonnelNumber"], TRUE),
   leave_balance |-> Item("Ess", "dataAreaId", Type, TRUE),
   leave_balance_active |->
     Item("Active", "dataAreaId", [leaveType |-> "LeaveTypeId", hidden |-> "HideLeaveBalances"], TRUE)]
Corrected == [leave_balance |-> Item("Bare", None, Type, TRUE)]
Terse == [leave_balance |-> [entity_name |-> "Bare"]]
Disabling == [leave_balance |-> [entity_name |-> "Ess", enabled |-> FALSE]]
Wrong == [leave_balance |-> Item("Bare", "dataAreaId", Type, TRUE)]

MCFiles == {Confirmed, Corrected, Terse, Disabling, Wrong}

Symmetry == Permutations(Runs) \cup Permutations(Workers)
=============================================================================
