---------------------------- MODULE MCCatalogue -----------------------------
(* A small instance of Catalogue for TLC.                                  *)
EXTENDS Catalogue, TLC

CONSTANTS h1, h2, s1, s2

Symmetry == Permutations({h1, h2})

\* Two that disagree on a column, one declaring a retention and the other a unit, and
\* one whose declaration is malformed.
SomeRequests ==
  [k \in {"a", "b", "c"} |->
     CASE k = "a" -> [set |-> s1, kind |-> "label", ret |-> 1, meta |-> ""]
       [] k = "b" -> [set |-> s1, kind |-> "field", ret |-> Undeclared, meta |-> "unit"]
       [] k = "c" -> [set |-> s1, kind |-> "field", ret |-> 1, meta |-> "bad"]]
=============================================================================
