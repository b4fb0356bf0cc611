------------------------------- MODULE Query --------------------------------
(***************************************************************************)
(* Shards, retention and queries of one set (internal/store: store.go,     *)
(* query.go).                                                              *)
(*                                                                         *)
(* A row goes to the shard its time falls in, under the width declared at  *)
(* that moment; a query plans which shards to read, lowers its predicate   *)
(* onto the label dictionary as it is then, and reads shard after shard    *)
(* while rows arrive, widths change and the retention sweeps.  Times are   *)
(* in hours.  The engine reads a shard as of the moment the read begins,   *)
(* and hands the query its rows one by one.                                *)
(***************************************************************************)
EXTENDS Integers, Sequences, FiniteSets, SequencesExt, FiniteSetsExt, Render

Formats == {"table", "logs", "series", "heat", "labels"}

\* Earlier and later than anything: the bounds of the unsharded shard.
Forever == 10000

\* The values a predicate names are label values: none is the absence of the label.
NamesValues(e) == "" \notin e.arg /\ \A s \in e.subs : "" \notin s.arg

CONSTANTS
  Pool,           \* the rows clients may send: id, ts, host ("" if none), has, val
  Queries,        \* what clients may ask
  Info,           \* what the catalogue says of the field
  Widths, Retentions,   \* what may be declared of the set
  DefaultWidth,   \* Config.Shard
  Instants,       \* when the sweep may look at the clock
  MaxSeries, MaxPoints, \* the ceilings of the store; not positive is none
  DefaultLimit,   \* of rows in a table
  Slack,          \* tabularSlack
  MaxRows,        \* bound on rows written
  MaxChange       \* bound on declarations

ASSUME QueryAssumption ==
  /\ \A r \in Pool : r.ts \in Int /\ r.val \in Int /\ r.has \in BOOLEAN
  /\ \A r \in Pool : -Forever < r.ts /\ r.ts < Forever
  /\ \A q \in Queries : q.from \in Int /\ q.to \in Int /\ q.points \in Int
  /\ \A q \in Queries : q.fmt \in Formats /\ NamesValues(q.where)
  /\ Widths \subseteq Nat /\ Retentions \subseteq Nat /\ Instants \subseteq Int
  /\ \E t \in Instants : \A u \in Instants : t <= u
  /\ DefaultWidth \in Nat \ {0} /\ DefaultLimit \in Nat /\ Slack \in Nat
  /\ MaxSeries \in Int /\ MaxPoints \in Int
  /\ MaxRows \in Nat /\ MaxChange \in Nat

\* What a graph is drawn from.  A cadence that is declared is not negative.
ASSUME GraphAssumption ==
  /\ \A q \in Queries : q.every \in Int /\ q.maxdp \in Int /\ q.interval \in Int
  /\ \A q \in Queries : q.mods.gap \in Int /\ q.mods.sse.val \in Int
  /\ \A q \in Queries :
       q.mods.clamp \in [on : BOOLEAN, hasMin : BOOLEAN, min : Int, hasMax : BOOLEAN, max : Int,
                        elseRaw : BOOLEAN]
  /\ Info.gap \in Nat /\ Info.min \in Int /\ Info.max \in Int
  /\ Info.hasMin \in BOOLEAN /\ Info.hasMax \in BOOLEAN

Hosts == {r.host : r \in Pool} \ {""}

VARIABLES
  shards,   \* the shards of the set the engine knows
  stored,   \* <<row, shard>>
  dict,     \* the interned values of the label
  width, retention,   \* what is declared of the set
  now,
  job,      \* the query
  steady,   \* rows it should find: stored when it was planned, and not removed since
  puts, changes

vars == <<shards, stored, dict, width, retention, now, job, steady, puts, changes>>

-----------------------------------------------------------------------------
(* Shards.                                                                 *)

All == [start |-> -Forever, end |-> Forever]

\* normaliseShardWidth: whole days, or hours that divide a day.
Normalise(w) ==
  IF w >= 24 THEN (w \div 24) * 24
  ELSE Max({1} \cup {h \in {1, 2, 3, 4, 6, 8, 12} : h <= w})

\* floorDiv, mod and floorTo: towards minus infinity.
Floor(ts, w) == ts - (ts % w)

\* shardNameAt: the name says where the shard starts and how wide it is.
ShardAt(ts, w) ==
  IF w = 0 THEN All
  ELSE LET h == Normalise(w) IN [start |-> Floor(ts, h), end |-> Floor(ts, h) + h]

ShardWidth ==
  IF width > 0 THEN width ELSE IF retention > 0 THEN DefaultWidth ELSE 0

\* Mutant: shards are taken to be disjoint.
OverlapsNone(found) == FALSE

\* Two of the shards can hold a row of the same instant.
Overlapping(found) ==
  \E s, t \in found : s # t /\ s.start <= t.start /\ t.start < s.end

\* shardsInRange.
ShardsInRange(from, to) ==
  {s \in shards : s = All \/ (s.end > from /\ s.start <= to)}

-----------------------------------------------------------------------------
(* Predicates.  A predicate is [op, arg, subs]; a regular expression is    *)
(* the set of values it matches, and a lowered predicate is the set of     *)
(* values, "" for a row without the label, that pass the scan.             *)

Everyone == Hosts \cup {""}

\* An expression that does not compile, asked for and asked against.
Malformed == {"malformed", "nomalformed"}

Known(e) == e.arg \cap dict
EveryValue(e) == Known(e) = dict /\ dict # {}

\* The values that pass a leaf.
LeafMatch(e) ==
  CASE e.op \in {"eq", "in"} -> Known(e)
    [] e.op = "ne" -> Hosts \ Known(e)
    [] e.op = "has" -> Hosts
    [] e.op = "missing" -> {""}
    [] e.op = "match" -> IF EveryValue(e) THEN Hosts ELSE Known(e)
    [] e.op = "nomatch" -> IF EveryValue(e) THEN {} ELSE Hosts \ Known(e)
    [] e.op \in Malformed -> {}
    [] OTHER -> Everyone

\* No row can pass it.
LeafNever(e) ==
  \/ e.op \in {"eq", "in", "match"} /\ Known(e) = {}
  \/ e.op = "nomatch" /\ EveryValue(e)
  \/ e.op = "malformed"

\* buildExpr: conjunction, disjunction and negation over the leaves.
LowerMatch(e) ==
  CASE e.op = "and" -> {h \in Everyone : \A s \in e.subs : h \in LeafMatch(s)}
    [] e.op = "or" -> UNION {LeafMatch(s) : s \in e.subs}
    [] e.op = "not" -> Everyone \ UNION {LeafMatch(s) : s \in e.subs}
    [] OTHER -> LeafMatch(e)

\* Mutant: a disjunction is impossible as soon as one arm is.
EagerNever(e) ==
  IF e.op \in {"and", "or"} THEN \E s \in e.subs : LeafNever(s) ELSE e.op # "not" /\ LeafNever(e)

LowerNever(e) ==
  CASE e.op = "and" -> \E s \in e.subs : LeafNever(s)
    [] e.op = "or" -> \A s \in e.subs : LeafNever(s)
    [] e.op = "not" -> FALSE
    [] OTHER -> LeafNever(e)

-----------------------------------------------------------------------------
(* Visiting a row.                                                         *)

\* A limit may only narrow.
Narrower(ceiling, limit) ==
  IF limit <= 0 THEN ceiling
  ELSE IF ceiling <= 0 \/ limit < ceiling THEN limit ELSE ceiling

Tabular(q) == q.fmt \in {"table", "logs"}
Limit(q) == IF q.points > 0 THEN q.points ELSE DefaultLimit

\* seriesKey: the values of BY.
Group(q, r) == IF q.by THEN r.host ELSE ""

\* The rows a query has kept are numbered in the order they came in.
Arrived(j, r) == j.kept \cup {[n |-> j.seen + 1, row |-> r]}

\* The stable order of keepBest: the newest first for logs, else the oldest.
Better(q, x, y) ==
  \/ IF q.fmt = "logs" THEN x.row.ts > y.row.ts ELSE x.row.ts < y.row.ts
  \/ x.row.ts = y.row.ts /\ x.n < y.n

\* keepBest: the rows that fewer than the limit are better than.
KeepBest(q, rows) ==
  {x \in rows : Cardinality({y \in rows : Better(q, y, x)}) < Limit(q)}

\* runTabular: one row past the limit says that there are more, and without order
\* between the shards every row has to be seen.
VisitTable(j, r) ==
  LET q == j.query
      rows == Arrived(j, r)
      past == Cardinality(rows) > Limit(q)
      full == past /\ j.overlap /\ Cardinality(rows) >= 2 * Limit(q) + Slack
  IN IF ~r.has THEN j
     ELSE [j EXCEPT !.kept = IF full THEN KeepBest(q, rows) ELSE rows,
                    !.seen = @ + 1,
                    !.trunc = @ \/ past,
                    !.stop = past /\ ~j.overlap]

\* heatmapWindow.
HeatWindow(q) ==
  LET w == IF q.every > 0 THEN q.every ELSE SingleWindow(q.to - q.from, q.maxdp, q.interval)
  IN IF w <= 0 THEN 1 ELSE w

\* The cell of a heatmap a row falls into.
Cell(q, r) == <<Group(q, r), Floor(r.ts, HeatWindow(q))>>

\* A point is a sample of a series, a cell of a heatmap or a row of LABELS.
PointsOf(q, rows) ==
  IF q.fmt = "heat" THEN Cardinality({Cell(q, x.row) : x \in rows})
  ELSE Cardinality(rows)

SeriesOf(q, rows) ==
  {IF q.fmt = "labels" THEN x.row.host ELSE Group(q, x.row) : x \in rows}

Over(n, max) == max > 0 /\ n > max

\* runTimeseries, runHeatmap and queryLabelValues, with their two gates.
VisitPoint(j, r) ==
  LET q == j.query
      rows == Arrived(j, r)
  IN IF (q.fmt # "labels" /\ ~r.has) \/ (q.fmt = "labels" /\ r.host = "") THEN j
     ELSE IF \/ Over(PointsOf(q, rows), Narrower(MaxPoints, q.points))
             \/ Over(Cardinality(SeriesOf(q, rows)), Narrower(MaxSeries, q.series))
     THEN [j EXCEPT !.trunc = TRUE, !.stop = TRUE]
     ELSE [j EXCEPT !.kept = rows, !.seen = @ + 1]

-----------------------------------------------------------------------------
(* The answer.                                                             *)

\* resolveField: an explicit modifier wins over the catalogue, whose limits are used
\* when they are a range and the field is not negated.
Resolve(q) ==
  LET m == q.mods
      ordered == ~(Info.hasMin /\ Info.hasMax) \/ Info.min <= Info.max
      limits == IF m.clamp.on THEN m.clamp
                ELSE IF ~m.negate /\ ordered
                THEN [m.clamp EXCEPT !.hasMin = Info.hasMin, !.min = Info.min,
                                     !.hasMax = Info.hasMax, !.max = Info.max,
                                     !.elseRaw = m.delta]
                ELSE m.clamp
  IN [delta |-> m.delta, rate |-> m.rate, negate |-> m.negate,
      gap |-> IF m.gap >= 0 THEN m.gap ELSE Info.gap,
      hasMin |-> limits.hasMin, min |-> limits.min,
      hasMax |-> limits.hasMax, max |-> limits.max, elseRaw |-> limits.elseRaw,
      sse |-> IF q.alert THEN [mode |-> "off", val |-> 0] ELSE m.sse,
      end |-> IF q.alert THEN 0 ELSE q.to]

\* The samples of a series in the order the scan met them.
PointsIn(j, g) ==
  LET mine == {x \in j.kept : Group(j.query, x.row) = g}
      place(k) == CHOOSE x \in mine : Cardinality({y \in mine : y.n < x.n}) = k - 1
  IN [k \in 1 .. Cardinality(mine) |-> place(k).row]

SeriesWindow(q) ==
  IF q.every > 0 THEN q.every ELSE Window(q.to - q.from, q.maxdp, q.interval)

\* What the panel gets, by format.  A table is sent in the order of time.
TableAnswer(j) ==
  IF Cardinality(j.kept) > Limit(j.query) THEN KeepBest(j.query, j.kept) ELSE j.kept

SeriesAnswer(j) ==
  [g \in SeriesOf(j.query, j.kept) |-> Series(PointsIn(j, g), Resolve(j.query), SeriesWindow(j.query))]

Total(f, S) == MapThenSumSet(LAMBDA x : f[x], S)
Values(kept) == [x \in kept |-> x.row.val]

HeatAnswer(j) ==
  [c \in {Cell(j.query, x.row) : x \in j.kept} |->
     Total(Values(j.kept), {x \in j.kept : Cell(j.query, x.row) = c})]

-----------------------------------------------------------------------------
(* The store.                                                              *)

NoQuery == [fmt |-> "none"]
NoJob == [at |-> "idle", query |-> NoQuery, shards |-> {}, todo |-> {}, overlap |-> FALSE,
          match |-> {}, known |-> {}, kept |-> {}, seen |-> 0, trunc |-> FALSE, stop |-> FALSE]

\* Store.Write: the label is interned, and the row goes where its time says, in the
\* width of now.
Put(r) ==
  LET s == ShardAt(r.ts, ShardWidth) IN
  /\ puts < MaxRows /\ puts' = puts + 1
  /\ r \notin {e[1] : e \in stored}
  /\ dict' = dict \cup ({r.host} \ {""})
  /\ shards' = shards \cup {s}
  /\ stored' = stored \cup {<<r, s>>}
  /\ UNCHANGED <<width, retention, now, job, steady, changes>>

\* SetRetentionFor.
Declare(w, ret) ==
  /\ changes < MaxChange
  /\ width' = w /\ retention' = ret
  /\ changes' = changes + 1
  /\ UNCHANGED <<shards, stored, dict, now, job, steady, puts>>

Advance(t) ==
  /\ t > now
  /\ now' = t
  /\ UNCHANGED <<shards, stored, dict, width, retention, job, steady, puts, changes>>

\* Mutant: the width of a shard is taken from the declaration.
AgedByWidth(s) == s.start + Normalise(Max({1, width})) < now - retention

\* A dated shard is past the horizon when all it can hold is.
Aged(s) == s.end < now - retention

Removed(gone) ==
  /\ stored' = stored \ gone
  /\ steady' = steady \ {e[1] : e \in gone}

\* RunRetention, one shard of it: a range delete, or row by row in the unsharded one.
Sweep(s) ==
  /\ retention > 0 /\ s \in shards
  /\ \/ /\ s = All
        /\ \E e \in stored : e[2] = s /\ e[1].ts < now - retention
        /\ Removed({e \in stored : e[2] = s /\ e[1].ts < now - retention})
        /\ UNCHANGED shards
     \/ /\ s # All /\ Aged(s)
        /\ Removed({e \in stored : e[2] = s})
        /\ shards' = shards \ {s}
  /\ UNCHANGED <<dict, width, retention, now, job, puts, changes>>

Finished == job.stop \/ (job.shards = {} /\ job.todo = {})

\* The client goes away while it reads.
Cancel ==
  /\ job.at = "reading" /\ ~Finished
  /\ job' = NoJob
  /\ steady' = {}
  /\ UNCHANGED <<shards, stored, dict, width, retention, now, puts, changes>>

\* The meaning of a predicate, for what the planner is compared with.
MatchesLeaf(e, h) ==
  CASE e.op \in {"eq", "in", "match"} -> h \in e.arg
    [] e.op \in {"ne", "nomatch"} -> h # "" /\ h \notin e.arg
    [] e.op = "has" -> h # ""
    [] e.op = "missing" -> h = ""
    [] e.op \in Malformed -> FALSE
    [] OTHER -> TRUE

Matches(e, h) ==
  CASE e.op = "and" -> \A s \in e.subs : MatchesLeaf(s, h)
    [] e.op = "or" -> \E s \in e.subs : MatchesLeaf(s, h)
    [] e.op = "not" -> \A s \in e.subs : ~MatchesLeaf(s, h)
    [] OTHER -> MatchesLeaf(e, h)

Wanted(q, r) ==
  /\ r.ts >= q.from /\ r.ts <= q.to
  /\ Matches(q.where, r.host)
  /\ IF q.fmt = "labels" THEN r.host # "" ELSE r.has

\* Query: a slot, and the plan.
Plan(q) ==
  LET found == ShardsInRange(q.from, q.to) IN
  /\ job.at = "idle"
  /\ job' = [NoJob EXCEPT !.at = "reading", !.query = q,
                          !.shards = IF LowerNever(q.where) THEN {} ELSE found,
                          !.overlap = Overlapping(found),
                          !.match = LowerMatch(q.where), !.known = dict]
  /\ steady' = {e[1] : e \in {x \in stored : Wanted(q, x[1])}}
  /\ UNCHANGED <<shards, stored, dict, width, retention, now, puts, changes>>

\* The rows of a shard in the range that pass.
RowsOf(s, q, match) ==
  {e[1] : e \in {x \in stored : /\ x[2] = s
                                /\ x[1].ts >= q.from /\ x[1].ts <= q.to
                                /\ x[1].host \in match}}

\* scan: the next shard is opened, the oldest or for logs the newest; of shards with one
\* start the order of the names decides, which is left open here.  One that is gone has
\* no rows.
Open(s) ==
  /\ job.at = "reading" /\ ~job.stop /\ job.todo = {}
  /\ s \in job.shards
  /\ \A t \in job.shards :
       IF job.query.fmt = "logs" THEN s.start >= t.start ELSE s.start <= t.start
  /\ job' = [job EXCEPT !.shards = @ \ {s}, !.todo = RowsOf(s, job.query, job.match)]
  /\ UNCHANGED <<shards, stored, dict, width, retention, now, steady, puts, changes>>

\* The order of the rows of a shard: by time, then by key.
Earlier(r, t) == r.ts < t.ts \/ (r.ts = t.ts /\ r.id < t.id)

\* visit: the next row of the shard.
Visit(r) ==
  LET rest == [job EXCEPT !.todo = @ \ {r}] IN
  /\ job.at = "reading" /\ ~job.stop
  /\ r \in job.todo
  /\ \A t \in job.todo \ {r} : IF job.query.fmt = "logs" THEN Earlier(t, r) ELSE Earlier(r, t)
  /\ job' = IF Tabular(job.query) THEN VisitTable(rest, r) ELSE VisitPoint(rest, r)
  /\ UNCHANGED <<shards, stored, dict, width, retention, now, steady, puts, changes>>

\* The answer is sent and the slot given back.
Deliver ==
  /\ job.at = "reading" /\ Finished
  /\ job' = NoJob
  /\ steady' = {}
  /\ UNCHANGED <<shards, stored, dict, width, retention, now, puts, changes>>

Init ==
  /\ shards = {} /\ stored = {} /\ dict = {}
  /\ width \in Widths /\ retention \in Retentions
  /\ now = Min(Instants)
  /\ job = NoJob /\ steady = {} /\ puts = 0 /\ changes = 0

Next ==
  \/ \E r \in Pool : Put(r)
  \/ \E w \in Widths, ret \in Retentions : Declare(w, ret)
  \/ \E t \in Instants : Advance(t)
  \/ \E s \in shards : Sweep(s)
  \/ \E q \in Queries : Plan(q)
  \/ \E s \in job.shards : Open(s)
  \/ \E r \in job.todo : Visit(r)
  \/ Cancel \/ Deliver

Spec == Init /\ [][Next]_vars

-----------------------------------------------------------------------------
(* Properties.                                                             *)

Done(fmts) == job.at = "reading" /\ Finished /\ job.query.fmt \in fmts
Rows(kept) == {x.row : x \in kept}

\* A query that was not cut short has found every row that was there when it was
\* planned and is still there, whatever shards the rows are in.  It returns only rows
\* its predicate is true of, unless their label value is newer than the plan.
AnswerExact ==
  Done(Formats) =>
    /\ ~job.trunc => steady \subseteq Rows(job.kept)
    /\ \A r \in Rows(job.kept) :
         Wanted(job.query, r) \/ r.host \notin job.known \cup {""}

\* A table that was cut short has as many rows as it may, and they are the newest for
\* logs and the oldest otherwise, of those that were there all the time.
LimitExact ==
  Done({"table", "logs"}) /\ job.trunc =>
    LET rows == TableAnswer(job) IN
    /\ Cardinality(rows) = Limit(job.query)
    /\ \A r \in steady \ Rows(rows), k \in Rows(rows) :
         IF job.query.fmt = "logs" THEN r.ts <= k.ts ELSE r.ts >= k.ts

\* The first sample of an instant, of samples in the order of time: the others are dropped.
First(s, j) == j = 1 \/ s[j - 1].ts # s[j].ts

\* What each of them is worth after the modifiers, from the one of the instant before.
Worth(s, spec) ==
  LET firsts == {j \in 1 .. Len(s) : First(s, j)}
      next == {e \in firsts \X firsts : e[1] < e[2] /\ s[e[1]].ts = s[e[2] - 1].ts}
  IN {[ts |-> s[e[2]].ts,
       val |-> Drawn(spec, s[e[2]].val, s[e[1]].val, s[e[2]].ts - s[e[1]].ts)] : e \in next}
     \cup IF spec.delta \/ spec.rate \/ s = <<>> THEN {}
          ELSE {[ts |-> s[1].ts, val |-> Drawn(spec, s[1].val, 0, 0)]}

Points(out) == {[ts |-> p.ts, val |-> p.val] : p \in {x \in ToSet(out) : x.kind = "point"}}

\* A heatmap has each row in the column of its time and nothing twice.
HeatHonest ==
  Done({"heat"}) =>
    LET w == HeatWindow(job.query) cells == HeatAnswer(job) IN
    /\ \A r \in Rows(job.kept) : \E c \in DOMAIN cells : c[2] <= r.ts /\ r.ts < c[2] + w
    /\ Total(cells, DOMAIN cells) = Total(Values(job.kept), job.kept)

\* A series is drawn in strictly increasing time, every point of it is a sample, and
\* the highest and the lowest sample are there however wide the windows are.
SeriesHonest ==
  Done({"series"}) =>
    \A g \in SeriesOf(job.query, job.kept) :
      LET out == SeriesAnswer(job)[g]
          worth == Worth(Sorted(PointsIn(job, g)), Resolve(job.query))
          drawn == Points(out)
      IN /\ \A i \in 1 .. Len(out) - 1 : out[i].ts < out[i + 1].ts
         /\ drawn \subseteq worth
         /\ worth # {} =>
              /\ \E p \in drawn : \A w \in worth : p.val >= w.val
              /\ \E p \in drawn : \A w \in worth : p.val <= w.val

\* What is drawn is what was found: heatmaps and series.
DrawnHonest == HeatHonest /\ SeriesHonest

\* Two points are joined by a line only if the cadence was kept between them.
BreaksShown ==
  Done({"series"}) =>
    \A g \in SeriesOf(job.query, job.kept) :
      LET out == SeriesAnswer(job)[g]
          raw == Sorted(PointsIn(job, g))
          gap == Resolve(job.query).gap
      IN \A i \in 1 .. Len(out) - 1 :
           out[i].kind = "point" /\ out[i + 1].kind = "point" /\ gap # 0 =>
             \A k \in 1 .. Len(raw) - 1 :
               raw[k].ts >= out[i].ts /\ raw[k + 1].ts <= out[i + 1].ts
                 => raw[k + 1].ts - raw[k].ts <= gap

\* The retention removes no row younger than the horizon, whatever widths the set has
\* had since the row was written.
YoungKept == [][\A e \in stored \ stored' : e[1].ts < now - retention]_vars
=============================================================================
