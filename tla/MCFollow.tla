------------------------------ MODULE MCFollow ------------------------------
(* Small instances of Follow for TLC.                                      *)
EXTENDS Follow

CONSTANTS a, b   \* paths

MCSamples == SUBSET Records

\* Every record yields a sample of its own.
Plain == [r \in Records |-> "plain"]

\* Two records that join a window, then one that closes it and opens another.
Windows == [r \in Records |-> IF r[3] = 3 THEN "roll" ELSE "join"]

\* A window that the second record closes to open the next; in the content
\* after that, a record of its own and one that yields nothing.
Mixed == [r \in Records |->
            CASE r[2] = 1 /\ r[3] = 1 -> "join" [] r[2] = 1 /\ r[3] > 1 -> "roll"
              [] r[2] > 1 /\ r[3] = 1 -> "plain" [] r[2] > 1 /\ r[3] > 1 -> "none"]

\* One file whose records wait in a window, one whose records do not.
Beside == [r \in Records |-> IF r[1] = a THEN "join" ELSE "plain"]

Nothing == {}
=============================================================================
