------------------------------ MODULE MCPortal ------------------------------
(* A small instance of PortalPage for TLC: two people who use one page one *)
(* after the other.                                                        *)
EXTENDS PortalPage, TLC

CONSTANTS p1, p2

MCSittings == <<p1, p2>>
=============================================================================
