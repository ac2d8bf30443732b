------------------------------ MODULE MCSignIn ------------------------------
(* Two addresses, two handlers in flight. *)
EXTENDS SignIn, TLC

CONSTANTS a, b, r1, r2

Symmetry == Permutations({a, b}) \cup Permutations({r1, r2})
=============================================================================
