----------------------------- MODULE MCIdentity -----------------------------
(* Small instances of Identity for TLC. *)
EXTENDS Identity, TLC

CONSTANTS r1, r2, a1, o1, o2, O1, junk, sssa, SSSA

(* O1 is o1 in capitals; junk is an oid claim that is no UUID. *)
MCCanonical ==
  [c \in Claims |-> CASE c \in Oids -> c [] c = O1 -> o1 [] OTHER -> None]

MCCaseFold == [c \in Companies |-> IF c = SSSA THEN sssa ELSE c]

Symmetry == Permutations(Requests)
=============================================================================
