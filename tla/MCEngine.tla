------------------------------ MODULE MCEngine ------------------------------
(* A small instance of Engine for TLC.                                     *)
EXTENDS Engine, TLC

CONSTANTS c1, c2, s1, s2, k1, k2

\* A row alone, and together with a second one.
Pairs == {{k1}, {k1, k2}}

Alike == Permutations(Clients) \cup Permutations(Sets)
=============================================================================
