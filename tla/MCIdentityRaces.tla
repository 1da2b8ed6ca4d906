--------------------------- MODULE MCIdentityRaces ---------------------------
(* Small instances of IdentityRaces for TLC. *)
EXTENDS MCIdentity, IdentityRaces
=============================================================================
