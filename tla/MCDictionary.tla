---------------------------- MODULE MCDictionary ----------------------------
(* A small instance of Dictionary for TLC.                                 *)
EXTENDS Dictionary

CONSTANTS w1, w2, l1, l2, a, b, s1, s2

\* Nothing, or an array in which an older build placed a value twice.
Packed == {[l \in Labels |-> <<>>],
           [l \in Labels |-> IF l = l1 THEN <<a, a>> ELSE <<>>]}

Alike == Permutations(Writers) \cup Permutations(Shards)
=============================================================================
