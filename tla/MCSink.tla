------------------------------- MODULE MCSink -------------------------------
(* Small instances of Sink for TLC.                                        *)
EXTENDS Sink

CONSTANTS w1, w2   \* writers

\* The first writer fills one set, the others go back and forth.
Split == [x \in Sample |-> IF x[1] = w1 THEN 1 ELSE (x[2] % Cardinality(Sets)) + 1]

\* The second sample of the first writer is large.
OneLarge == [x \in Sample |-> IF x = <<w1, 2>> THEN 4 ELSE 1]

FirstBad == {<<w1, 1>>}
FirstUnencodable == {<<w2, 1>>}
TwoEach == [w \in Writers |-> IF w = w1 THEN 2 ELSE 3]   \* that can be queued
=============================================================================
