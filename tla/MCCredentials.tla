--------------------------- MODULE MCCredentials ---------------------------
(* Two providers, two handlers in flight. *)
EXTENDS Credentials, TLC

CONSTANTS p1, p2, r1, r2

Symmetry == Permutations({p1, p2}) \cup Permutations({r1, r2})
=============================================================================
