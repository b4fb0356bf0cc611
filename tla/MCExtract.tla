----------------------------- MODULE MCExtract ------------------------------
(* A small instance of Extract for TLC.                                    *)
EXTENDS Extract

Line(ts, mode, key, has, val) ==
  [ts |-> ts, start |-> "", cont |-> {}, joins |-> {}, mode |-> mode, key |-> key,
   rank |-> IF key = "a" THEN 1 ELSE 2, has |-> has, val |-> val]

\* Two windows and the records that close them, a rule whose records aggregate or do
\* not and one whose records count, a continuation of both without a time and one of
\* the first with an earlier one.
SomeLines ==
  {Line(1, "sum", "a", "yes", 2), Line(3, "sum", "a", "no", 0),
   Line(1, "max", "b", "yes", -1), [Line(3, "increment", "c", "junk", 0) EXCEPT !.start = "q"],
   [Line(1, "sum", "a", "no", 0) EXCEPT !.start = "r"],
   [Line(3, "plain", "", "no", 0) EXCEPT !.start = "r"],
   [Line(NoTS, "plain", "", "yes", 3) EXCEPT !.cont = {"r", "q"}, !.joins = {"r", "q"}],
   [Line(0, "none", "", "no", 0) EXCEPT !.cont = {"r"}]}

\* The first of six opens a window or a record.
SixLines ==
  [n \in 1 .. 6 |-> IF n = 1 THEN {l \in SomeLines : l.cont = {} /\ l.ts = 1} ELSE SomeLines]

TwoRules == <<"r", "q">>
=============================================================================
