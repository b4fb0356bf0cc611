------------------------------ MODULE MCQuery -------------------------------
(* A small instance of Query for TLC.                                      *)
EXTENDS Query

\* Before and after the epoch, two rows of one instant, two of one day, one without a
\* label, one without the field.
Row(id, ts, host, has, val) == [id |-> id, ts |-> ts, host |-> host, has |-> has, val |-> val]

SomeRows ==
  {Row(1, -3, "a", TRUE, 2), Row(2, 0, "b", TRUE, 4), Row(3, 2, "a", TRUE, 1),
   Row(4, 2, "b", TRUE, 6), Row(5, 5, "", TRUE, 3), Row(6, 9, "a", TRUE, 5),
   Row(7, 30, "a", FALSE, 0)}

Leaf(op, arg) == [op |-> op, arg |-> arg, subs |-> {}]
Node(op, subs) == [op |-> op, arg |-> {}, subs |-> subs]
Anything == Leaf("all", {})

NoClamp == [on |-> FALSE, hasMin |-> FALSE, min |-> 0, hasMax |-> FALSE, max |-> 0, elseRaw |-> FALSE]
Plain == [delta |-> FALSE, rate |-> FALSE, negate |-> FALSE, gap |-> -1, clamp |-> NoClamp,
          sse |-> [mode |-> "const", val |-> 0]]

Base == [fmt |-> "table", from |-> -10, to |-> 40, where |-> Anything, by |-> FALSE,
         points |-> 0, series |-> 0, every |-> 0, maxdp |-> 8, interval |-> 0,
         alert |-> FALSE, mods |-> Plain]

\* A gauge with a cadence and limits.
Gauge == [gap |-> 3, hasMin |-> TRUE, min |-> 1, hasMax |-> TRUE, max |-> 5]

Tables ==
  {[Base EXCEPT !.points = 1], [Base EXCEPT !.fmt = "logs", !.points = 1],
   [Base EXCEPT !.from = 0, !.to = 8, !.where = Leaf("ne", {"b"})],
   [Base EXCEPT !.to = -1, !.where = Leaf("match", {"a"})]}

Graphs ==
  LET g == [Base EXCEPT !.fmt = "series", !.from = 0] IN
  {[g EXCEPT !.every = 6], [g EXCEPT !.by = TRUE, !.points = 2, !.mods.gap = 0],
   [g EXCEPT !.maxdp = 20, !.mods.delta = TRUE, !.mods.rate = TRUE],
   [g EXCEPT !.mods.negate = TRUE, !.mods.sse.mode = "repeat"],
   [g EXCEPT !.alert = TRUE, !.every = 1, !.mods.clamp = [NoClamp EXCEPT !.on = TRUE, !.hasMax = TRUE, !.max = 3]]}

Others ==
  {[Base EXCEPT !.fmt = "heat", !.every = 4, !.points = 2, !.series = 1, !.by = TRUE],
   [Base EXCEPT !.fmt = "labels", !.where = Node("or", {Leaf("eq", {"a"}), Leaf("malformed", {}),
                                                         Leaf("nomalformed", {})})],
   [Base EXCEPT !.fmt = "labels", !.series = 1, !.where = Node("not", {Leaf("eq", {"a"})})],
   [Base EXCEPT !.fmt = "labels", !.where = Node("and", {Leaf("nomatch", {"b"}), Leaf("has", {})})],
   [Base EXCEPT !.where = Leaf("missing", {})]}

\* A ceiling that is not positive is none.
NoCeiling == -1

SomeQueries == Tables \cup Graphs \cup Others
=============================================================================
