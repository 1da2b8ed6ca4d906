---------------------------- MODULE IdentityRaces ----------------------------
(***************************************************************************)
(* Identity with a memory: which rows each creator of a mapping, a request *)
(* or a run of the tool, could see when it looked for a conflict and found *)
(* none.  A history variable records it and constrains nothing, so that    *)
(* every behaviour of Identity is one of RaceSpec with seen added, and     *)
(* what is true of a race here is true of it there.                        *)
(***************************************************************************)
EXTENDS Identity

VARIABLE seen  \* history: ids of the rows each creator decided in view of

(* No conflict was found: the insert and its commit are what is left. *)
Decides(a) ==
  \/ a \in Requests /\ pc[a] = "conflicts" /\ pc'[a] = "insert"
  \/ a \in Approvals /\ cli[a].phase = "start" /\ cli'[a].phase = "insert"

Remember ==
  seen' = [a \in Actors |-> IF Decides(a) THEN {m.id : m \in mappings} ELSE seen[a]]

RaceInit == Init /\ seen = [a \in Actors |-> {}]
RaceSpec == RaceInit /\ [][Next /\ Remember]_<<vars, seen>>

FairRaceSpec == RaceSpec /\ \A r \in Requests : WF_vars(Proceed(r))
-----------------------------------------------------------------------------
(* What a creator saw is what it keeps away from: its row has another      *)
(* object id than any row that was there, and another worker, save that an *)
(* administrator may give a worker again whose row had been disabled       *)
(* (provisioning_service.py lines 75-80, create_identity_mapping.py lines  *)
(* 21-40).                                                                 *)
SeenIsRespected ==
  \A m, n \in mappings : n.id \in seen[m.id] =>
    /\ n.oid # m.oid
    /\ n.pn = m.pn /\ n.co = m.co => m.id \in Approvals /\ ~n.enabled

(* The exact extent of what NoDuplicateWorker denies: two active rows of   *)
(* one worker are spelled differently, or neither of their creators saw    *)
(* the other's row, so that the check of each came before the commit of    *)
(* the other.                                                              *)
DuplicatesNeedRace ==
  \A m, n \in mappings :
    /\ m # n /\ Active(m) /\ Active(n)
    /\ m.pn = n.pn /\ CaseFold[m.co] = CaseFold[n.co]
    => m.co # n.co \/ (n.id \notin seen[m.id] /\ m.id \notin seen[n.id])

(* One row for each object id, and one for each worker as far as looking   *)
(* first can see to it.                                                    *)
OneRowEach == UniqueOid /\ SeenIsRespected /\ DuplicatesNeedRace
=============================================================================
