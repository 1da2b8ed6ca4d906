---------------------------- MODULE MCEntraKeys -----------------------------
(* A small instance of TokenValidation for TLC: three concurrent requests, *)
(* two key ids, a cache that lives for a minute and a minute for an        *)
(* answer.  One request comes with any of the tokens, the others with a    *)
(* good one of either key.                                                 *)
EXTENDS TokenValidation, TLC

CONSTANTS r1, r2, r3, k1, k2

Signed(k, flaws) == [kid |-> k, signer |-> k, from |-> 0, exp |-> MaxTime, flaws |-> flaws]

Good == {Signed(k1, {}), Signed(k2, {})}

(* One ends and one begins while the request may be waiting; the others    *)
(* are forged, have no key id, lack a claim, are of another tenant, of     *)
(* another client, or of nobody.  Each has a flaw that a later check would *)
(* find, too.                                                              *)
MCTokens == Good \cup
  {[Signed(k1, {"role"}) EXCEPT !.exp = 0],
   [Signed(k2, {"scope", "oid"}) EXCEPT !.from = 2],
   [Signed(k1, {"client"}) EXCEPT !.signer = None],
   [Signed(k1, {}) EXCEPT !.kid = None],
   Signed(k1, {"tenant", "client"}),
   Signed(k1, {"missing", "client"}),
   Signed(k1, {"client", "role"}),
   Signed(k2, {"oid", "role"})}

MCCarries == [r \in Requests |->
  IF r = r1 THEN MCTokens \cup {None} ELSE IF r = r2 THEN {Signed(k1, {})} ELSE {Signed(k2, {})}]
=============================================================================
