------------------------------ MODULE MCTeams ------------------------------
(* Two teams: u1 owns the first, u2 owns the second and is in the first, u3 *)
(* has no account yet, and a third team may be created.  Two handlers are   *)
(* in flight.                                                               *)
EXTENDS Teams, TLC

CONSTANTS u1, u2, u3, t1, t2, t3, r1, r2

TheFounder == [t \in {t1, t2} |-> IF t = t1 THEN u1 ELSE u2]
TheCrew    == {<<t1, u2>>}
Handlers   == Permutations({r1, r2})
=============================================================================
