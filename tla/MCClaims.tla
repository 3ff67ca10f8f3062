------------------------------- MODULE MCClaims -------------------------------
(* Instances of Claims for TLC. *)
EXTENDS Claims, TLC

CONSTANTS h1, h2, c1, c2

Symmetry == Permutations(Handlers) \cup Permutations(Claims)
===============================================================================
