---------------------------- MODULE QueryProofs -----------------------------
(***************************************************************************)
(* Proofs about Query, for any rows, queries, widths, retentions and       *)
(* clocks: the retention removes no young row, a plan reads every row that *)
(* is wanted, a query that was not cut short has found every row that was  *)
(* there all the time, a table that was cut short has the rows it says,    *)
(* heatmaps and graphs show what was found, and a graph joins no two       *)
(* points across a missed cadence.  The last two rest on a theorem about   *)
(* the walk for any samples, modifiers and window.                         *)
(***************************************************************************)
EXTENDS Query, FiniteSetTheorems, WellFoundedInduction, TLAPS

-----------------------------------------------------------------------------
(* The inductive invariant.                                                *)

ShardSet == [start : Int, end : Int]

\* A shard that can hold a row.
Solid(s) == s \in ShardSet /\ s.start < s.end /\ s.start < Forever /\ -Forever < s.end

\* Times, declarations, shards and label values are what the constants allow.
Declared ==
  /\ now \in Int
  /\ width \in Nat /\ retention \in Nat
  /\ dict \subseteq Hosts
  /\ \A s \in shards : Solid(s)

\* A row lies in a shard the engine knows, a dated one covers the instant of each of its
\* rows whatever width it was given, and the label value of a row is interned.
Placed ==
  \A e \in stored :
    /\ e[1] \in Pool
    /\ e[2] \in shards
    /\ e[2] # All => e[2].start <= e[1].ts /\ e[1].ts < e[2].end
    /\ e[1].host = "" \/ e[1].host \in dict

JobType ==
  job \in [at : {"idle", "reading"}, query : Queries \cup {NoQuery},
           shards : SUBSET ShardSet, todo : SUBSET Pool, overlap : BOOLEAN,
           match : SUBSET Everyone, known : SUBSET Hosts,
           kept : SUBSET [n : Nat, row : Pool], seen : Nat,
           trunc : BOOLEAN, stop : BOOLEAN]

\* The rows a query has kept are numbered.
Counted ==
  /\ IsFiniteSet(job.kept)
  /\ \A x \in job.kept : x.n <= job.seen
  /\ \A x, y \in job.kept : x.n = y.n => x = y

\* A row that the query is interested in, and one that passes the scan.
Carries(q, r) == IF q.fmt = "labels" THEN r.host # "" ELSE r.has
Passes(r) == r.ts >= job.query.from /\ r.ts <= job.query.to /\ r.host \in job.match

Passed ==
  /\ \A r \in job.todo : Passes(r)
  /\ \A x \in job.kept : Passes(x.row) /\ Carries(job.query, x.row)

\* The lowered predicate is exact on the values of the moment of the plan.
Lowered ==
  \A h \in job.known \cup {""} : h \in job.match <=> Matches(job.query.where, h)

Expected ==
  \A r \in steady : /\ r \in Pool /\ Wanted(job.query, r)
                    /\ r.host \in job.known \cup {""}

\* A table that was cut short is full, and one of overlapping shards is read to the end.
Stops ==
  /\ job.stop => job.trunc
  /\ Tabular(job.query) => /\ job.overlap => ~job.stop
                           /\ job.trunc => Limit(job.query) <= Cardinality(job.kept)

\* The scan of disjoint shards meets an instant a no later than b.
Ordered(q, a, b) == IF q.fmt = "logs" THEN a >= b ELSE a <= b

\* A row that was passed over: the points are too many, or the table is full of rows
\* that are better.
Dropped(r) ==
  /\ job.trunc
  /\ Tabular(job.query) =>
       /\ job.overlap
       /\ \A b \in KeepBest(job.query, job.kept) : Ordered(job.query, b.row.ts, r.ts)

\* Every row the query should find is kept, about to be read or passed over.
Found ==
  \A r \in steady :
    \/ r \in Rows(job.kept) \cup job.todo
    \/ \E e \in stored : e[1] = r /\ e[2] \in job.shards
    \/ Dropped(r)

\* No instant is in both shards; all that is in the shard is still to be met.
Apart(s, t) == s # All /\ t # All /\ (s.end <= t.start \/ t.end <= s.start)
Beyond(q, ts, s) == s # All /\ IF q.fmt = "logs" THEN s.end <= ts ELSE ts < s.start

\* Disjoint shards are read in the order of time.
InTime ==
  Tabular(job.query) /\ ~job.overlap =>
    /\ \A s, t \in job.shards : s # t => Apart(s, t)
    /\ \A x \in job.kept, s \in job.shards : Beyond(job.query, x.row.ts, s)
    /\ \A r \in job.todo, s \in job.shards : Beyond(job.query, r.ts, s)
    /\ \A x \in job.kept, r \in job.todo : Ordered(job.query, x.row.ts, r.ts)

\* What a query that reads can rely on.
Reading ==
  /\ job.query \in Queries
  /\ \A s \in job.shards : Solid(s)
  /\ Counted /\ Passed /\ Lowered /\ Expected /\ Stops /\ Found /\ InTime

JobInv == JobType /\ (job.at = "reading" => Reading)

IInv == Declared /\ Placed /\ JobInv

-----------------------------------------------------------------------------
(* Shards.                                                                 *)

\* The largest of some of the widths below a day is one of them.
LEMMA MaxOfHours ==
  ASSUME NEW S, S \subseteq {1, 2, 3, 4, 6, 8, 12}, 1 \in S
  PROVE  Max(S) \in S
<1>1. \E x \in S : \A y \in S : x >= y
  <2>1. CASE 12 \in S
    BY <2>1
  <2>2. CASE 12 \notin S /\ 8 \in S
    BY <2>2
  <2>3. CASE 12 \notin S /\ 8 \notin S /\ 6 \in S
    BY <2>3
  <2>4. CASE 12 \notin S /\ 8 \notin S /\ 6 \notin S
    <3>1. S \subseteq {1, 2, 3, 4}
      BY <2>4
    <3>2. CASE 4 \in S
      BY <3>1, <3>2
    <3>3. CASE 4 \notin S /\ 3 \in S
      BY <3>1, <3>3
    <3>4. CASE 4 \notin S /\ 3 \notin S
      BY <3>1, <3>4
    <3> QED BY <3>2, <3>3, <3>4
  <2> QED BY <2>1, <2>2, <2>3, <2>4
<1> QED BY <1>1 DEF Max

\* normaliseShardWidth never gives a width of nothing.
LEMMA NormalisePositive ==
  ASSUME NEW w \in Nat
  PROVE  Normalise(w) \in Nat \ {0}
<1>1. CASE w >= 24
  <2>1. w \div 24 \in Nat /\ w \div 24 >= 1
    BY <1>1
  <2> QED BY <1>1, <2>1 DEF Normalise
<1>2. CASE ~(w >= 24)
  <2> DEFINE S == {1} \cup {h \in {1, 2, 3, 4, 6, 8, 12} : h <= w}
  <2>1. S \subseteq {1, 2, 3, 4, 6, 8, 12} /\ 1 \in S
    OBVIOUS
  <2>2. Max(S) \in S
    <3> HIDE DEF S
    <3> QED BY <2>1, MaxOfHours
  <2>3. Normalise(w) = Max(S)
    BY <1>2 DEF Normalise
  <2>4. \A x \in S : x \in Nat \ {0}
    BY <2>1
  <2> HIDE DEF S
  <2> QED BY <2>2, <2>3, <2>4
<1> QED BY <1>1, <1>2

\* floorTo is at or before the instant, by less than the width, before the epoch too.
LEMMA FloorCovers ==
  ASSUME NEW ts \in Int, NEW w \in Nat \ {0}
  PROVE  /\ Floor(ts, w) \in Int
         /\ Floor(ts, w) <= ts
         /\ ts < Floor(ts, w) + w
<1>1. ts % w \in 0 .. (w - 1)
  OBVIOUS
<1> QED BY <1>1 DEF Floor

\* The shard a row is written to is solid and covers its instant.
LEMMA ShardCovers ==
  ASSUME NEW r \in Pool, NEW w \in Nat
  PROVE  LET s == ShardAt(r.ts, w) IN
         /\ Solid(s)
         /\ s # All => s.start <= r.ts /\ r.ts < s.end
<1> DEFINE h == Normalise(w)
           ts == r.ts
<1>0. ts \in Int /\ -Forever < ts /\ ts < Forever BY QueryAssumption
<1>1. CASE w = 0
  <2>1. ShardAt(ts, w) = All BY <1>1 DEF ShardAt
  <2>2. Solid(All) BY DEF Solid, All, ShardSet, Forever
  <2> QED BY <2>1, <2>2
<1>2. CASE w # 0
  <2>1. h \in Nat \ {0} BY NormalisePositive
  <2>2. ShardAt(ts, w) = [start |-> Floor(ts, h), end |-> Floor(ts, h) + h]
    BY <1>2 DEF ShardAt
  <2> HIDE DEF h, ts
  <2>3. Floor(ts, h) \in Int /\ Floor(ts, h) <= ts /\ ts < Floor(ts, h) + h
    BY <1>0, <2>1, FloorCovers
  <2> DEFINE f == Floor(ts, h)
  <2>4. f \in Int /\ f <= ts /\ ts < f + h /\ ShardAt(ts, w) = [start |-> f, end |-> f + h]
    BY <2>2, <2>3
  <2> HIDE DEF f
  <2>5. Forever \in Int BY DEF Forever
  <2>6. Solid(ShardAt(ts, w)) BY <1>0, <2>1, <2>4, <2>5 DEF Solid, ShardSet
  <2>7. ShardAt(ts, w).start <= ts /\ ts < ShardAt(ts, w).end BY <2>4
  <2> QED BY <2>6, <2>7 DEF ts
<1> QED BY <1>1, <1>2

-----------------------------------------------------------------------------
(* The order of the rows of a table.                                       *)

StrictOrder(R, K) ==
  /\ \A x \in K : <<x, x>> \notin R
  /\ \A x, y \in K : x # y => <<x, y>> \in R \/ <<y, x>> \in R
  /\ \A x, y, z \in K : <<x, y>> \in R /\ <<y, z>> \in R => <<x, z>> \in R

Below(R, K, x) == {y \in K : <<y, x>> \in R}
Ranked(R, K, n) == {x \in K : Cardinality(Below(R, K, x)) < n}

\* Of a finite set in a strict total order, the elements that fewer than n precede are
\* n, and they precede the others.
LEMMA RankCut ==
  ASSUME NEW K, IsFiniteSet(K), NEW R, StrictOrder(R, K), NEW n \in Nat, n <= Cardinality(K)
  PROVE  /\ Cardinality(Ranked(R, K, n)) = n
         /\ \A b \in Ranked(R, K, n), y \in K \ Ranked(R, K, n) : <<b, y>> \in R
<1> USE DEF StrictOrder
<1> DEFINE below(x) == {y \in K : <<y, x>> \in R}
           size == Cardinality(K)
           rank == [x \in K |-> Cardinality(below(x))]
           best == {x \in K : rank[x] < n}
<1>1. size \in Nat BY FS_CardinalityType
<1>2. \A x \in K : below(x) \in SUBSET K /\ x \notin below(x) OBVIOUS
<1>3. ASSUME NEW x \in K PROVE IsFiniteSet(below(x)) /\ Cardinality(below(x)) \in 0 .. size - 1
  <2>1. IsFiniteSet(below(x)) /\ Cardinality(below(x)) <= size /\ (size = Cardinality(below(x)) => K = below(x))
    BY <1>2, FS_Subset
  <2>2. Cardinality(below(x)) \in Nat BY <2>1, FS_CardinalityType
  <2>3. K # below(x) BY <1>2
  <2> QED BY <1>1, <2>1, <2>2, <2>3
<1>4. ASSUME NEW x \in K, NEW y \in K, <<x, y>> \in R PROVE Cardinality(below(x)) < Cardinality(below(y))
  <2>1. below(x) \in SUBSET below(y) BY <1>4
  <2>2. x \in below(y) /\ x \notin below(x) BY <1>4
  <2>3. /\ Cardinality(below(x)) <= Cardinality(below(y))
        /\ Cardinality(below(y)) = Cardinality(below(x)) => below(y) = below(x)
    BY <1>3, <2>1, FS_Subset
  <2>4. below(x) # below(y) BY <2>2
  <2>5. Cardinality(below(x)) \in 0 .. size - 1 /\ Cardinality(below(y)) \in 0 .. size - 1 BY <1>3
  <2> HIDE DEF below, size
  <2> QED BY <1>1, <2>3, <2>4, <2>5
<1>5. rank \in [K -> 0 .. size - 1] BY <1>3
<1>6. \A x, y \in K : <<x, y>> \in R => rank[x] < rank[y] BY <1>4
<1>7. \A x \in K : rank[x] = Cardinality({y \in K : <<y, x>> \in R}) OBVIOUS
<1> HIDE DEF rank, size
<1>8. ASSUME NEW x \in K, NEW y \in K, x # y PROVE rank[x] # rank[y]
  <2>1. rank[x] \in Int /\ rank[y] \in Int BY <1>5, <1>1
  <2>2. <<x, y>> \in R \/ <<y, x>> \in R BY <1>8
  <2>3. rank[x] < rank[y] \/ rank[y] < rank[x] BY <1>6, <2>2
  <2> QED BY <2>1, <2>3
<1>9. rank \in Injection(K, 0 .. size - 1)
  BY <1>5, <1>8 DEF Injection, IsInjective
<1>10. IsFiniteSet(0 .. size - 1) /\ Cardinality(0 .. size - 1) = size
  <2>1. 0 \in Int /\ size - 1 \in Int BY <1>1
  <2>2. IsFiniteSet(0 .. size - 1) /\ Cardinality(0 .. size - 1) = IF 0 > size - 1 THEN 0 ELSE size - 1 - 0 + 1
    BY <2>1, FS_Interval
  <2> QED BY <1>1, <2>2
<1>11. rank \in Surjection(K, 0 .. size - 1)
  BY <1>9, <1>10, FS_Injection DEF size
<1>12. best \in SUBSET K /\ IsFiniteSet(best) BY FS_Subset
<1> DEFINE cut == [x \in best |-> rank[x]]
<1>13. cut \in Bijection(best, 0 .. n - 1)
  <2>1. cut \in [best -> 0 .. n - 1] BY <1>5, <1>1
  <2>2. \A x, y \in best : cut[x] = cut[y] => x = y BY <1>8
  <2>3. ASSUME NEW k \in 0 .. n - 1 PROVE \E x \in best : cut[x] = k
    <3>1. k \in 0 .. size - 1 /\ k < n BY <1>1 DEF size
    <3>2. PICK x \in K : rank[x] = k BY <1>11, <3>1 DEF Surjection
    <3> QED BY <3>1, <3>2
  <2> HIDE DEF cut
  <2> QED BY <2>1, <2>2, <2>3 DEF Bijection, Injection, Surjection, IsInjective
<1>14. IsFiniteSet(0 .. n - 1) /\ Cardinality(0 .. n - 1) = n
  <2>1. 0 \in Int /\ n - 1 \in Int OBVIOUS
  <2>2. IsFiniteSet(0 .. n - 1) /\ Cardinality(0 .. n - 1) = IF 0 > n - 1 THEN 0 ELSE n - 1 - 0 + 1
    BY <2>1, FS_Interval
  <2> QED BY <2>2
<1>15. Cardinality(best) = n
  <2>1. ExistsBijection(best, 0 .. n - 1) BY <1>13 DEF ExistsBijection
  <2>2. Cardinality(0 .. n - 1) = Cardinality(best) BY <1>12, <2>1, FS_Bijection
  <2> QED BY <1>14, <2>2
<1>16. ASSUME NEW b \in best, NEW y \in K \ best PROVE <<b, y>> \in R
  <2>1. rank[b] < n /\ ~(rank[y] < n) /\ b # y /\ b \in K OBVIOUS
  <2>2. rank[b] \in Int /\ rank[y] \in Int BY <1>5, <1>1, <2>1
  <2>3. ~(rank[y] < rank[b]) BY <2>1, <2>2
  <2>4. <<y, b>> \notin R BY <1>6, <2>1, <2>3
  <2> QED BY <2>1, <2>4
<1>17. best = Ranked(R, K, n) BY <1>7 DEF Ranked, Below
<1> HIDE DEF best
<1> QED BY <1>15, <1>16, <1>17
\* A finite set of numbered rows, as a query keeps them.
Numbered(K) ==
  /\ IsFiniteSet(K) /\ K \subseteq [n : Nat, row : Pool]
  /\ \A x, y \in K : x.n = y.n => x = y

\* The order of keepBest is strict and total.
LEMMA BetterOrder ==
  ASSUME NEW q, NEW K, Numbered(K)
  PROVE  /\ \A x \in K : ~Better(q, x, x)
         /\ \A x, y \in K : x # y => Better(q, x, y) \/ Better(q, y, x)
         /\ \A x, y, z \in K : Better(q, x, y) /\ Better(q, y, z) => Better(q, x, z)
         /\ \A x, y \in K : Better(q, x, y) => Ordered(q, x.row.ts, y.row.ts)
<1>1. \A x \in K : x.n \in Nat /\ x.row \in Pool BY DEF Numbered
<1>2. \A x \in K : x.row.ts \in Int BY <1>1, QueryAssumption
<1>3. \A x, y \in K : x # y => x.n # y.n BY DEF Numbered
<1>4. CASE q.fmt = "logs" BY <1>1, <1>2, <1>3, <1>4 DEF Better, Ordered
<1>5. CASE q.fmt # "logs" BY <1>1, <1>2, <1>3, <1>5 DEF Better, Ordered
<1> QED BY <1>4, <1>5

\* keepBest keeps as many rows as the limit says, and they are better than the others.
LEMMA KeepBestFacts ==
  ASSUME NEW q \in Queries, NEW K, Numbered(K), Limit(q) <= Cardinality(K)
  PROVE  /\ KeepBest(q, K) \subseteq K
         /\ Cardinality(KeepBest(q, K)) = Limit(q)
         /\ \A b \in KeepBest(q, K), y \in K \ KeepBest(q, K) : Better(q, b, y)
<1> DEFINE R == {p \in K \X K : Better(q, p[1], p[2])}
           n == Limit(q)
<1>1. n \in Nat BY QueryAssumption DEF Limit
<1>2. \A x, y \in K : <<x, y>> \in R <=> Better(q, x, y) OBVIOUS
<1>3. \A x \in K : {y \in K : Better(q, y, x)} = Below(R, K, x) BY <1>2 DEF Below
<1>4. KeepBest(q, K) = Ranked(R, K, n) BY <1>3 DEF KeepBest, Ranked
<1>5. n <= Cardinality(K) /\ IsFiniteSet(K) BY DEF Numbered
<1> HIDE DEF R, n
<1>6. StrictOrder(R, K) BY <1>2, BetterOrder DEF StrictOrder
<1>7. /\ Cardinality(Ranked(R, K, n)) = n
      /\ \A b \in Ranked(R, K, n), y \in K \ Ranked(R, K, n) : <<b, y>> \in R
  BY <1>1, <1>5, <1>6, RankCut
<1>8. Ranked(R, K, n) \subseteq K BY DEF Ranked
<1> QED BY <1>2, <1>4, <1>7, <1>8 DEF n

\* What is better than the best so far stays so when a row comes in.
LEMMA BestImproves ==
  ASSUME NEW q \in Queries, NEW K, Numbered(K), NEW x, Numbered(K \cup {x}), x \notin K,
         Limit(q) <= Cardinality(K), NEW ts \in Int,
         \A b \in KeepBest(q, K) : Ordered(q, b.row.ts, ts)
  PROVE  \A b \in KeepBest(q, K \cup {x}) : Ordered(q, b.row.ts, ts)
<1> DEFINE M == K \cup {x}
<1> TAKE b \in KeepBest(q, M)
<1>1. Limit(q) \in Nat BY QueryAssumption DEF Limit
<1>2. b \in M /\ Cardinality({y \in M : Better(q, y, b)}) < Limit(q) BY DEF KeepBest
<1>3. IsFiniteSet(M) /\ {y \in M : Better(q, y, b)} \in SUBSET M BY DEF Numbered
<1>4. /\ IsFiniteSet({y \in M : Better(q, y, b)})
      /\ Cardinality({y \in M : Better(q, y, b)}) \in Nat
  BY <1>3, FS_Subset, FS_CardinalityType
<1>5. CASE b \in K
  <2>1. {y \in K : Better(q, y, b)} \in SUBSET {y \in M : Better(q, y, b)} OBVIOUS
  <2>2. /\ Cardinality({y \in K : Better(q, y, b)}) <= Cardinality({y \in M : Better(q, y, b)})
        /\ IsFiniteSet({y \in K : Better(q, y, b)})
    BY <1>4, <2>1, FS_Subset
  <2>3. Cardinality({y \in K : Better(q, y, b)}) \in Nat BY <2>2, FS_CardinalityType
  <2>4. Cardinality({y \in K : Better(q, y, b)}) < Limit(q) BY <1>1, <1>2, <1>4, <2>2, <2>3
  <2>5. b \in KeepBest(q, K) BY <1>5, <2>4 DEF KeepBest
  <2> QED BY <2>5
<1>6. CASE b = x
  <2>1. KeepBest(q, K) \subseteq K /\ Cardinality(KeepBest(q, K)) = Limit(q) BY KeepBestFacts
  <2>2. PICK c \in KeepBest(q, K) : ~Better(q, c, b)
    <3>1. SUFFICES ASSUME \A c \in KeepBest(q, K) : Better(q, c, b) PROVE FALSE OBVIOUS
    <3>2. KeepBest(q, K) \in SUBSET {y \in M : Better(q, y, b)} BY <2>1, <3>1
    <3>3. Limit(q) <= Cardinality({y \in M : Better(q, y, b)}) BY <1>4, <2>1, <3>2, FS_Subset
    <3> QED BY <1>1, <1>2, <1>4, <3>3
  <2>3. c \in M /\ b \in M /\ c # b BY <1>6, <2>1
  <2>4. Better(q, b, c) BY <2>2, <2>3, BetterOrder
  <2>5. Ordered(q, b.row.ts, c.row.ts) BY <2>3, <2>4, BetterOrder
  <2>6. Ordered(q, c.row.ts, ts) OBVIOUS
  <2>7. b.row.ts \in Int /\ c.row.ts \in Int BY <2>3, QueryAssumption DEF Numbered
  <2> QED BY <2>5, <2>6, <2>7 DEF Ordered
<1> QED BY <1>2, <1>5, <1>6

\* The best of the best are all of them.
LEMMA BestAgain ==
  ASSUME NEW q \in Queries, NEW K, Numbered(K), Limit(q) = Cardinality(K)
  PROVE  KeepBest(q, K) = K
<1>1. KeepBest(q, K) \subseteq K /\ Cardinality(KeepBest(q, K)) = Limit(q)
  <2>1. Limit(q) \in Nat BY QueryAssumption DEF Limit
  <2> QED BY <2>1, KeepBestFacts
<1>2. IsFiniteSet(K) /\ KeepBest(q, K) \in SUBSET K BY <1>1 DEF Numbered
<1> QED BY <1>1, <1>2, FS_Subset

-----------------------------------------------------------------------------
(* The plan of a query.                                                    *)

\* On the values known to the dictionary, and on rows without the label, a lowered leaf
\* is what the leaf means, and it is called impossible only if nothing passes.
LEMMA LeafExact ==
  ASSUME NEW e, "" \notin e.arg, dict \subseteq Hosts,
         NEW h, h = "" \/ h \in dict
  PROVE  /\ h \in LeafMatch(e) <=> MatchesLeaf(e, h)
         /\ LeafNever(e) => ~MatchesLeaf(e, h)
<1> DEFINE Ops == {"eq", "in", "ne", "has", "missing", "match", "nomatch"} \cup Malformed
<1>1. "" \notin Hosts
  BY DEF Hosts
<1>2. h \in Known(e) <=> h \in e.arg
  BY <1>1 DEF Known
<1>3. h \in Hosts <=> h # ""
  BY <1>1
<1>4. h \in Everyone
  BY <1>3 DEF Everyone
<1>5. CASE e.op \in {"eq", "in"}
  <2>1. MatchesLeaf(e, h) <=> h \in e.arg
    BY <1>5 DEF MatchesLeaf, Malformed
  <2>2. LeafMatch(e) = Known(e)
    BY <1>5 DEF LeafMatch, Malformed
  <2> QED BY <1>5, <1>2, <2>1, <2>2 DEF LeafNever
<1>6. CASE e.op = "ne"
  <2>1. MatchesLeaf(e, h) <=> h # "" /\ h \notin e.arg
    BY <1>6 DEF MatchesLeaf, Malformed
  <2>2. LeafMatch(e) = Hosts \ Known(e)
    BY <1>6 DEF LeafMatch, Malformed
  <2> QED BY <1>6, <1>2, <1>3, <2>1, <2>2 DEF LeafNever
<1>7. CASE e.op = "has"
  <2>1. MatchesLeaf(e, h) <=> h # ""
    BY <1>7 DEF MatchesLeaf, Malformed
  <2>2. LeafMatch(e) = Hosts
    BY <1>7 DEF LeafMatch, Malformed
  <2> QED BY <1>7, <1>3, <2>1, <2>2 DEF LeafNever
<1>8. CASE e.op = "missing"
  <2>1. MatchesLeaf(e, h) <=> h = ""
    BY <1>8 DEF MatchesLeaf, Malformed
  <2>2. LeafMatch(e) = {""}
    BY <1>8 DEF LeafMatch, Malformed
  <2> QED BY <1>8, <2>1, <2>2 DEF LeafNever
<1>9. CASE e.op = "match"
  <2>1. MatchesLeaf(e, h) <=> h \in e.arg
    BY <1>9 DEF MatchesLeaf, Malformed
  <2>2. LeafMatch(e) = IF EveryValue(e) THEN Hosts ELSE Known(e)
    BY <1>9 DEF LeafMatch, Malformed
  <2> QED BY <1>9, <1>2, <1>3, <2>1, <2>2 DEF LeafNever, EveryValue
<1>10. CASE e.op = "nomatch"
  <2>1. MatchesLeaf(e, h) <=> h # "" /\ h \notin e.arg
    BY <1>10 DEF MatchesLeaf, Malformed
  <2>2. LeafMatch(e) = IF EveryValue(e) THEN {} ELSE Hosts \ Known(e)
    BY <1>10 DEF LeafMatch, Malformed
  <2> QED BY <1>10, <1>2, <1>3, <2>1, <2>2 DEF LeafNever, EveryValue
<1>11. CASE e.op \in Malformed
  <2>1. MatchesLeaf(e, h) <=> FALSE
    BY <1>11 DEF MatchesLeaf, Malformed
  <2>2. LeafMatch(e) = {}
    BY <1>11 DEF LeafMatch, Malformed
  <2> QED BY <1>11, <2>1, <2>2 DEF LeafNever, Malformed
<1>12. CASE e.op \notin Ops
  <2>1. MatchesLeaf(e, h) <=> TRUE
    BY <1>12 DEF MatchesLeaf, Malformed
  <2>2. LeafMatch(e) = Everyone
    BY <1>12 DEF LeafMatch, Malformed
  <2> QED BY <1>12, <1>4, <2>1, <2>2 DEF LeafNever, Malformed
<1> QED BY <1>5, <1>6, <1>7, <1>8, <1>9, <1>10, <1>11, <1>12

\* So is a lowered predicate.
LEMMA LowerExact ==
  ASSUME NEW e, NamesValues(e), dict \subseteq Hosts,
         NEW h, h = "" \/ h \in dict
  PROVE  /\ h \in LowerMatch(e) <=> Matches(e, h)
         /\ LowerNever(e) => ~Matches(e, h)
<1>1. \A s \in e.subs : /\ h \in LeafMatch(s) <=> MatchesLeaf(s, h)
                        /\ LeafNever(s) => ~MatchesLeaf(s, h)
  BY LeafExact DEF NamesValues
<1>2. h \in Everyone
  BY DEF Everyone
<1>3. CASE e.op = "and"
  <2>1. Matches(e, h) <=> \A s \in e.subs : MatchesLeaf(s, h)
    BY <1>3 DEF Matches
  <2>2. LowerMatch(e) = {x \in Everyone : \A s \in e.subs : x \in LeafMatch(s)}
    BY <1>3 DEF LowerMatch
  <2>3. LowerNever(e) <=> \E s \in e.subs : LeafNever(s)
    BY <1>3 DEF LowerNever
  <2> QED BY <1>1, <1>2, <2>1, <2>2, <2>3
<1>4. CASE e.op = "or"
  <2>1. Matches(e, h) <=> \E s \in e.subs : MatchesLeaf(s, h)
    BY <1>4 DEF Matches
  <2>2. LowerMatch(e) = UNION {LeafMatch(s) : s \in e.subs}
    BY <1>4 DEF LowerMatch
  <2>3. LowerNever(e) <=> \A s \in e.subs : LeafNever(s)
    BY <1>4 DEF LowerNever
  <2> QED BY <1>1, <2>1, <2>2, <2>3
<1>5. CASE e.op = "not"
  <2>1. Matches(e, h) <=> \A s \in e.subs : ~MatchesLeaf(s, h)
    BY <1>5 DEF Matches
  <2>2. LowerMatch(e) = Everyone \ UNION {LeafMatch(s) : s \in e.subs}
    BY <1>5 DEF LowerMatch
  <2>3. ~LowerNever(e)
    BY <1>5 DEF LowerNever
  <2> QED BY <1>1, <1>2, <2>1, <2>2, <2>3
<1>6. CASE e.op \notin {"and", "or", "not"}
  <2>1. Matches(e, h) <=> MatchesLeaf(e, h)
    BY <1>6 DEF Matches
  <2>2. LowerMatch(e) = LeafMatch(e)
    BY <1>6 DEF LowerMatch
  <2>3. LowerNever(e) <=> LeafNever(e)
    BY <1>6 DEF LowerNever
  <2>4. /\ h \in LeafMatch(e) <=> MatchesLeaf(e, h)
        /\ LeafNever(e) => ~MatchesLeaf(e, h)
    BY LeafExact DEF NamesValues
  <2> QED BY <2>1, <2>2, <2>3, <2>4
<1> QED BY <1>3, <1>4, <1>5, <1>6

\* What passes is a label value or the absence of one.
LEMMA LowerWithin ==
  ASSUME NEW e, dict \subseteq Hosts
  PROVE  LowerMatch(e) \subseteq Everyone
<1>1. ASSUME NEW s PROVE LeafMatch(s) \subseteq Everyone
  <2>1. Known(s) \subseteq Hosts BY DEF Known
  <2>2. LeafMatch(s) \in {Known(s), Hosts \ Known(s), Hosts, {""}, {}, Everyone}
    BY DEF LeafMatch, Malformed
  <2> QED BY <2>1, <2>2 DEF Everyone
<1>2. UNION {LeafMatch(s) : s \in e.subs} \subseteq Everyone BY <1>1
<1>3. \/ LowerMatch(e) = {h \in Everyone : \A s \in e.subs : h \in LeafMatch(s)}
      \/ LowerMatch(e) = UNION {LeafMatch(s) : s \in e.subs}
      \/ LowerMatch(e) = Everyone \ UNION {LeafMatch(s) : s \in e.subs}
      \/ LowerMatch(e) = LeafMatch(e)
  BY DEF LowerMatch
<1> QED BY <1>1, <1>2, <1>3

-----------------------------------------------------------------------------
(* The invariant is inductive: the store.                                  *)

LEMMA IdleType == NoJob \in [at : {"idle", "reading"}, query : Queries \cup {NoQuery},
           shards : SUBSET ShardSet, todo : SUBSET Pool, overlap : BOOLEAN,
           match : SUBSET Everyone, known : SUBSET Hosts,
           kept : SUBSET [n : Nat, row : Pool], seen : Nat,
           trunc : BOOLEAN, stop : BOOLEAN]
BY DEF NoJob

LEMMA InitInv == Init => IInv
<1> SUFFICES ASSUME Init PROVE IInv
  OBVIOUS
<1>1. Min(Instants) \in Instants
  BY QueryAssumption DEF Min
<1>2. Declared
  BY <1>1, QueryAssumption DEF Init, Declared
<1>3. Placed
  BY DEF Init, Placed
<1>4. JobType BY IdleType DEF Init, JobType
<1>5. job.at # "reading" BY DEF Init, NoJob
<1> QED BY <1>2, <1>3, <1>4, <1>5 DEF IInv, JobInv

\* A query goes on unharmed when rows come, and when rows go that it need not find.
LEMMA Undisturbed ==
  ASSUME JobInv, job' = job, steady' \subseteq steady,
         \A e \in stored : e[1] \in steady' => e \in stored'
  PROVE  JobInv'
<1>1. JobType' BY DEF JobInv, JobType
<1>2. ASSUME job.at = "reading" PROVE Reading'
  <2>0. Reading BY <1>2 DEF JobInv
  <2>1. job'.query \in Queries /\ \A s \in job'.shards : Solid(s) BY <2>0 DEF Reading
  <2>2. Counted' BY <2>0 DEF Reading, Counted
  <2>3. Passed' BY <2>0 DEF Reading, Passed, Passes, Carries
  <2>4. Lowered' BY <2>0 DEF Reading, Lowered
  <2>5. Expected' BY <2>0 DEF Reading, Expected
  <2>6. Stops' BY <2>0 DEF Reading, Stops
  <2>7. Found'
    <3> SUFFICES ASSUME NEW r \in steady'
                 PROVE  \/ r \in Rows(job.kept) \cup job.todo
                        \/ \E e \in stored' : e[1] = r /\ e[2] \in job.shards
                        \/ Dropped(r)
      BY DEF Found, Dropped, Rows
    <3> QED BY <2>0 DEF Reading, Found
  <2>8. InTime' BY <2>0 DEF Reading, InTime
  <2> QED BY <2>1, <2>2, <2>3, <2>4, <2>5, <2>6, <2>7, <2>8 DEF Reading
<1> QED BY <1>1, <1>2 DEF JobInv

LEMMA PutInv ==
  ASSUME IInv, NEW r \in Pool, Put(r)
  PROVE  IInv'
<1> DEFINE s == ShardAt(r.ts, ShardWidth)
<1>1. ShardWidth \in Nat
  BY QueryAssumption DEF IInv, Declared, ShardWidth
<1>2. Solid(s) /\ (s # All => s.start <= r.ts /\ r.ts < s.end)
  BY <1>1, ShardCovers
<1>3. /\ stored' = stored \cup {<<r, s>>}
      /\ shards' = shards \cup {s}
      /\ dict' = dict \cup ({r.host} \ {""})
      /\ UNCHANGED <<width, retention, now, job, steady>>
  BY DEF Put
<1> HIDE DEF s
<1>4. Declared'
  <2>1. {r.host} \ {""} \subseteq Hosts
    BY DEF Hosts
  <2> QED BY <1>2, <1>3, <2>1 DEF IInv, Declared
<1>5. Placed'
  <2> SUFFICES ASSUME NEW e \in stored'
               PROVE  /\ e[1] \in Pool
                      /\ e[2] \in shards'
                      /\ e[2] # All => e[2].start <= e[1].ts /\ e[1].ts < e[2].end
                      /\ e[1].host = "" \/ e[1].host \in dict'
    BY DEF Placed, All
  <2>1. CASE e \in stored
    BY <1>3, <2>1 DEF IInv, Placed
  <2>2. CASE e = <<r, s>>
    BY <1>2, <1>3, <2>2
  <2> QED BY <1>3, <2>1, <2>2
<1>6. JobInv' BY <1>3, Undisturbed DEF IInv
<1> QED BY <1>4, <1>5, <1>6 DEF IInv

LEMMA DeclareInv ==
  ASSUME IInv, NEW w \in Widths, NEW ret \in Retentions, Declare(w, ret)
  PROVE  IInv'
<1>1. Declared' /\ Placed' BY QueryAssumption DEF IInv, Declared, Placed, Declare, All
<1>2. JobInv' BY Undisturbed DEF IInv, Declare
<1> QED BY <1>1, <1>2 DEF IInv

LEMMA AdvanceInv ==
  ASSUME IInv, NEW t \in Instants, Advance(t)
  PROVE  IInv'
<1>1. Declared' /\ Placed' BY QueryAssumption DEF IInv, Declared, Placed, Advance, All
<1>2. JobInv' BY Undisturbed DEF IInv, Advance
<1> QED BY <1>1, <1>2 DEF IInv

\* A shard goes with all its rows, and nobody expects them any more.
LEMMA SweepInv ==
  ASSUME IInv, NEW s \in shards, Sweep(s)
  PROVE  IInv'
<1>1. Declared'
  BY DEF IInv, Declared, Sweep
<1>2. stored' \subseteq stored /\ dict' = dict /\ job' = job
  BY DEF Sweep, Removed
<1>3. \A e \in stored' : e[2] \in shards'
  BY <1>2 DEF IInv, Placed, Sweep, Removed
<1>4. Placed'
  BY <1>2, <1>3 DEF IInv, Placed, All
<1>5. PICK gone : Removed(gone) BY DEF Sweep
<1>6. steady' \subseteq steady /\ \A e \in stored : e[1] \in steady' => e \in stored'
  BY <1>5 DEF Removed
<1>7. JobInv' BY <1>2, <1>6, Undisturbed DEF IInv
<1> QED BY <1>1, <1>4, <1>7 DEF IInv

-----------------------------------------------------------------------------
(* The invariant is inductive: the query.                                  *)

LEMMA StoreStays ==
  ASSUME Declared, Placed, UNCHANGED <<shards, stored, dict, width, retention, now>>
  PROVE  Declared' /\ Placed'
BY DEF Declared, Placed, All

\* The slot is given back.
LEMMA GoneInv ==
  ASSUME IInv, Cancel \/ Deliver
  PROVE  IInv'
<1>1. /\ job' = NoJob
      /\ UNCHANGED <<shards, stored, dict, width, retention, now>>
  BY DEF Cancel, Deliver
<1>2. JobType' BY <1>1, IdleType DEF JobType
<1>3. job'.at # "reading" BY <1>1 DEF NoJob
<1> QED BY <1>1, <1>2, <1>3, StoreStays DEF IInv, JobInv

\* Two shards of a plan that are not said to overlap have no instant in common.
LEMMA ApartFacts ==
  ASSUME NEW found, \A s \in found : Solid(s), ~Overlapping(found),
         NEW s \in found, NEW t \in found, s # t
  PROVE  Apart(s, t)
<1>1. /\ s.start \in Int /\ s.end \in Int /\ s.start < s.end /\ s.start < Forever /\ -Forever < s.end
      /\ t.start \in Int /\ t.end \in Int /\ t.start < t.end /\ t.start < Forever /\ -Forever < t.end
  BY DEF Solid, ShardSet
<1>2. ~(s.start <= t.start /\ t.start < s.end) /\ ~(t.start <= s.start /\ s.start < t.end)
  BY DEF Overlapping
<1>3. All.start = -Forever /\ All.end = Forever /\ Forever \in Int BY DEF All, Forever
<1>4. s # All BY <1>1, <1>2, <1>3
<1>5. t # All BY <1>1, <1>2, <1>3
<1> QED BY <1>1, <1>2, <1>4, <1>5 DEF Apart

LEMMA PlanInv ==
  ASSUME IInv, NEW q \in Queries, Plan(q)
  PROVE  IInv'
<1> DEFINE found == ShardsInRange(q.from, q.to)
           over == Overlapping(found)
           list == IF LowerNever(q.where) THEN {} ELSE found
           match == LowerMatch(q.where)
<1>1. job' = [NoJob EXCEPT !.at = "reading", !.query = q, !.shards = list, !.overlap = over,
                           !.match = match, !.known = dict]
  BY DEF Plan
<1>2. /\ steady' = {e[1] : e \in {x \in stored : Wanted(q, x[1])}}
      /\ UNCHANGED <<shards, stored, dict, width, retention, now>>
  BY DEF Plan
<1>3. dict \subseteq Hosts /\ match \subseteq Everyone BY LowerWithin DEF IInv, Declared
<1>4. found \subseteq shards /\ list \subseteq found BY DEF ShardsInRange
<1>5. \A s \in found : Solid(s) BY <1>4 DEF IInv, Declared
<1>6. list \subseteq ShardSet BY <1>4, <1>5 DEF Solid
<1>7. over \in BOOLEAN BY DEF Overlapping
<1>8. ~over => \A s, t \in list : s # t => Apart(s, t) BY <1>4, <1>5, ApartFacts
<1>9. q.from \in Int /\ q.to \in Int /\ NamesValues(q.where) BY QueryAssumption
<1>10. \A h \in dict \cup {""} : h \in match <=> Matches(q.where, h)
  BY <1>3, <1>9, LowerExact
<1>11. \A h \in dict \cup {""} : Matches(q.where, h) => ~LowerNever(q.where)
  BY <1>3, <1>9, LowerExact
<1>12. ASSUME NEW e \in stored, Wanted(q, e[1])
       PROVE  e[2] \in list /\ e[1] \in Pool /\ e[1].host \in dict \cup {""}
  <2>1. /\ e[1] \in Pool /\ e[2] \in shards /\ e[1].host \in dict \cup {""}
        /\ e[2] # All => e[2].start <= e[1].ts /\ e[1].ts < e[2].end
    BY DEF IInv, Placed
  <2>2. e[1].ts \in Int /\ Solid(e[2]) BY <2>1, QueryAssumption DEF IInv, Declared
  <2>3. e[1].ts >= q.from /\ e[1].ts <= q.to /\ Matches(q.where, e[1].host) BY <1>12 DEF Wanted
  <2>4. ~LowerNever(q.where) BY <1>11, <2>1, <2>3
  <2>5. e[2].start \in Int /\ e[2].end \in Int BY <2>2 DEF Solid, ShardSet
  <2>6. e[2] = All \/ (e[2].end > q.from /\ e[2].start <= q.to)
    <3> DEFINE ts == e[1].ts
               a == e[2].start
               b == e[2].end
    <3>1. ts \in Int /\ a \in Int /\ b \in Int /\ ts >= q.from /\ ts <= q.to BY <2>2, <2>3, <2>5
    <3>2. e[2] # All => a <= ts /\ ts < b BY <2>1
    <3> HIDE DEF ts, a, b
    <3>3. e[2] # All => b > q.from /\ a <= q.to BY <1>9, <3>1, <3>2
    <3> QED BY <3>3 DEF a, b
  <2>7. e[2] \in found BY <2>1, <2>6 DEF ShardsInRange
  <2> QED BY <2>1, <2>4, <2>7
<1> HIDE DEF found, over, list, match
<1>13. JobType' BY <1>1, <1>3, <1>6, <1>7, IdleType DEF JobType, NoJob
<1>14. /\ job'.query = q /\ job'.shards = list /\ job'.todo = {} /\ job'.kept = {} /\ job'.seen = 0
       /\ job'.match = match /\ job'.known = dict
  BY <1>1 DEF NoJob
<1>15. job'.overlap = over /\ job'.trunc = FALSE /\ job'.stop = FALSE BY <1>1 DEF NoJob
<1>16. Counted' BY <1>14, FS_EmptySet DEF Counted
<1>17. Passed' BY <1>14 DEF Passed
<1>18. Lowered' BY <1>10, <1>14 DEF Lowered
<1>19. Expected' BY <1>2, <1>12, <1>14 DEF Expected
<1>20. Stops' BY <1>15 DEF Stops
<1>21. Found' BY <1>2, <1>12, <1>14 DEF Found
<1>22. InTime' BY <1>8, <1>14, <1>15 DEF InTime
<1>23. Reading'
  BY <1>4, <1>5, <1>14, <1>16, <1>17, <1>18, <1>19, <1>20, <1>21, <1>22 DEF Reading
<1> QED BY <1>2, <1>13, <1>23, StoreStays DEF IInv, JobInv

LEMMA OpenInv ==
  ASSUME IInv, NEW s \in job.shards, Open(s)
  PROVE  IInv'
<1> DEFINE q == job.query
           rows == RowsOf(s, q, job.match)
<1>1. /\ job.at = "reading" /\ ~job.stop /\ job.todo = {}
      /\ \A t \in job.shards : IF q.fmt = "logs" THEN s.start >= t.start ELSE s.start <= t.start
      /\ job' = [job EXCEPT !.shards = @ \ {s}, !.todo = rows]
      /\ UNCHANGED <<shards, stored, dict, width, retention, now, steady>>
  BY DEF Open
<1>2. Reading /\ JobType /\ Placed BY <1>1 DEF IInv, JobInv
<1>3. ASSUME NEW r \in rows
      PROVE  /\ r \in Pool /\ Passes(r)
             /\ s # All => s.start <= r.ts /\ r.ts < s.end
  <2>1. PICK e \in stored : e[1] = r /\ e[2] = s /\ r.ts >= q.from /\ r.ts <= q.to /\ r.host \in job.match
    BY DEF RowsOf
  <2> QED BY <1>2, <2>1 DEF Placed, Passes
<1>4. \A e \in stored : e[2] = s /\ Passes(e[1]) => e[1] \in rows
  BY DEF RowsOf, Passes
<1> HIDE DEF rows
<1>5. JobType' BY <1>1, <1>2, <1>3 DEF JobType
<1>6. /\ job'.query = q /\ job'.shards = job.shards \ {s} /\ job'.todo = rows /\ job'.kept = job.kept
      /\ job'.seen = job.seen /\ job'.match = job.match /\ job'.known = job.known
  BY <1>1, <1>2 DEF JobType
<1>7. job'.overlap = job.overlap /\ job'.trunc = job.trunc /\ job'.stop = job.stop
  BY <1>1, <1>2 DEF JobType
<1>8. Counted' BY <1>2, <1>6 DEF Reading, Counted
<1>9. Passed' BY <1>2, <1>3, <1>6 DEF Reading, Passed, Passes
<1>10. Lowered' BY <1>2, <1>6 DEF Reading, Lowered
<1>11. Expected' BY <1>1, <1>2, <1>6 DEF Reading, Expected
<1>12. Stops' BY <1>2, <1>6, <1>7 DEF Reading, Stops
<1>13. Found'
  <2> SUFFICES ASSUME NEW r \in steady
               PROVE  \/ r \in Rows(job.kept) \cup rows
                      \/ \E e \in stored : e[1] = r /\ e[2] \in job.shards \ {s}
                      \/ Dropped(r)'
    BY <1>1, <1>6 DEF Found, Rows
  <2>1. Dropped(r) => Dropped(r)' BY <1>6, <1>7 DEF Dropped
  <2>2. CASE \E e \in stored : e[1] = r /\ e[2] \in job.shards
    <3>1. PICK e \in stored : e[1] = r /\ e[2] \in job.shards BY <2>2
    <3>2. Wanted(q, r) /\ r.host \in job.known \cup {""} BY <1>2 DEF Reading, Expected
    <3>3. Passes(r) BY <1>2, <3>2 DEF Reading, Lowered, Wanted, Passes
    <3>4. e[2] = s => r \in rows BY <1>4, <3>1, <3>3
    <3> QED BY <3>1, <3>4
  <2>3. CASE r \in Rows(job.kept) BY <2>3
  <2>4. r \notin job.todo BY <1>1
  <2> QED BY <1>2, <2>1, <2>2, <2>3, <2>4 DEF Reading, Found
<1>14. InTime'
  <2> SUFFICES ASSUME Tabular(q), ~job.overlap
               PROVE  /\ \A t, u \in job.shards \ {s} : t # u => Apart(t, u)
                      /\ \A x \in job.kept, t \in job.shards \ {s} : Beyond(q, x.row.ts, t)
                      /\ \A r \in rows, t \in job.shards \ {s} : Beyond(q, r.ts, t)
                      /\ \A x \in job.kept, r \in rows : Ordered(q, x.row.ts, r.ts)
    BY <1>6, <1>7 DEF InTime
  <2>1. /\ \A t, u \in job.shards : t # u => Apart(t, u)
        /\ \A x \in job.kept, t \in job.shards : Beyond(q, x.row.ts, t)
    BY <1>2 DEF Reading, InTime
  <2>2. \A t \in job.shards : t.start \in Int /\ t.end \in Int /\ t.start < t.end
    BY <1>2 DEF Reading, Solid, ShardSet
  <2>3. \A r \in Pool : r.ts \in Int BY QueryAssumption
  <2>4. ASSUME NEW r \in rows, NEW t \in job.shards \ {s} PROVE Beyond(q, r.ts, t)
    <3>1. Apart(s, t) BY <2>1
    <3>2. r.ts \in Int /\ (s # All => s.start <= r.ts /\ r.ts < s.end) BY <1>3, <2>3
    <3>3. IF q.fmt = "logs" THEN s.start >= t.start ELSE s.start <= t.start BY <1>1
    <3> QED BY <2>2, <3>1, <3>2, <3>3 DEF Apart, Beyond
  <2>5. ASSUME NEW x \in job.kept, NEW r \in rows PROVE Ordered(q, x.row.ts, r.ts)
    <3>1. Beyond(q, x.row.ts, s) BY <2>1
    <3>2. r.ts \in Int /\ (s # All => s.start <= r.ts /\ r.ts < s.end) BY <1>3, <2>3
    <3>3. x.row.ts \in Int BY <1>2, <2>3 DEF JobType
    <3> QED BY <2>2, <3>1, <3>2, <3>3 DEF Beyond, Ordered
  <2> QED BY <2>1, <2>4, <2>5
<1>15. Reading'
  BY <1>2, <1>6, <1>8, <1>9, <1>10, <1>11, <1>12, <1>13, <1>14 DEF Reading
<1> QED BY <1>1, <1>5, <1>15, StoreStays DEF IInv, JobInv

\* The limit of a table, and the rows of a query that reads.
LEMMA ReadingFacts ==
  ASSUME JobType, Reading
  PROVE  /\ Limit(job.query) \in Nat
         /\ Numbered(job.kept)
         /\ Cardinality(job.kept) \in Nat
         /\ \A x \in job.kept : x.row \in Pool /\ x.row.ts \in Int
         /\ \A r \in job.todo : r \in Pool /\ r.ts \in Int
<1>1. job.kept \subseteq [n : Nat, row : Pool] /\ job.todo \subseteq Pool BY DEF JobType
<1>2. Limit(job.query) \in Nat BY QueryAssumption DEF Limit, Reading
<1>3. IsFiniteSet(job.kept) /\ \A x, y \in job.kept : x.n = y.n => x = y BY DEF Reading, Counted
<1> QED BY <1>1, <1>2, <1>3, QueryAssumption, FS_CardinalityType DEF Numbered

\* A row that came in.
LEMMA ArrivedFacts ==
  ASSUME JobType, Reading, NEW r \in job.todo, NEW x, x = [n |-> job.seen + 1, row |-> r],
         NEW K, K = job.kept \cup {x}
  PROVE  /\ x \notin job.kept /\ Numbered(K) /\ \A y \in K : y.n <= job.seen + 1
         /\ Cardinality(K) = Cardinality(job.kept) + 1
         /\ Rows(K) = Rows(job.kept) \cup {r}
<1>1. job.seen \in Nat /\ job.kept \subseteq [n : Nat, row : Pool] /\ r \in Pool BY DEF JobType
<1>2. /\ IsFiniteSet(job.kept) /\ \A y \in job.kept : y.n <= job.seen /\ y.n \in Nat
      /\ \A y, z \in job.kept : y.n = z.n => y = z
  BY <1>1 DEF Reading, Counted
<1>3. x.n = job.seen + 1 /\ x.row = r /\ x \in [n : Nat, row : Pool] BY <1>1
<1>4. \A y \in job.kept : y.n # x.n BY <1>1, <1>2, <1>3
<1>5. x \notin job.kept BY <1>4
<1>6. IsFiniteSet(K) /\ Cardinality(K) = Cardinality(job.kept) + 1 BY <1>2, <1>5, FS_AddElement
<1>7. \A y, z \in K : y.n = z.n => y = z BY <1>2, <1>4
<1>8. \A y \in K : y.n <= job.seen + 1 BY <1>1, <1>2, <1>3
<1>9. Rows(K) = Rows(job.kept) \cup {r} BY <1>3 DEF Rows
<1>10. Numbered(K) BY <1>1, <1>3, <1>6, <1>7 DEF Numbered
<1> QED BY <1>5, <1>6, <1>8, <1>9, <1>10

\* What a visit leaves alone.
VisitFrame(r) ==
  /\ job'.at = job.at /\ job'.query = job.query /\ job'.shards = job.shards
  /\ job'.todo = job.todo \ {r} /\ job'.match = job.match /\ job'.known = job.known
  /\ job'.overlap = job.overlap
  /\ UNCHANGED <<shards, stored, dict, width, retention, now, steady>>

\* A step of the scan that takes one row from the shard keeps what the row does not touch.
LEMMA VisitRest ==
  ASSUME JobType, Reading, NEW r \in job.todo, VisitFrame(r), JobType',
         Counted', Stops', Found', Rows(job'.kept) \subseteq Rows(job.kept) \cup {r},
         r \in Rows(job'.kept) => Carries(job.query, r),
         \A t \in job.todo \ {r} : Ordered(job.query, r.ts, t.ts)
  PROVE  Reading'
<1>0. /\ job'.query = job.query /\ job'.shards = job.shards
      /\ job'.todo = job.todo \ {r} /\ job'.match = job.match /\ job'.known = job.known
      /\ job'.overlap = job.overlap /\ steady' = steady
  BY DEF VisitFrame
<1>1. job'.query \in Queries /\ \A s \in job'.shards : Solid(s) BY <1>0 DEF Reading
<1>2. \A x \in job'.kept : x.row = r \/ \E y \in job.kept : y.row = x.row BY DEF Rows
<1>3. \A x \in job'.kept : x.row = r => Carries(job.query, r) BY DEF Rows
<1>4. Passed'
  <2>1. /\ \A t \in job.todo : Passes(t)
        /\ \A x \in job.kept : Passes(x.row) /\ Carries(job.query, x.row)
    BY DEF Reading, Passed
  <2>2. \A x \in job'.kept : Passes(x.row) /\ Carries(job.query, x.row) BY <1>2, <1>3, <2>1
  <2>3. \A t : Passes(t) => Passes(t)' BY <1>0 DEF Passes
  <2> QED BY <1>0, <2>1, <2>2, <2>3 DEF Passed
<1>5. Lowered' BY <1>0 DEF Reading, Lowered
<1>6. Expected' BY <1>0 DEF Reading, Expected
<1>7. InTime'
  <2> SUFFICES ASSUME Tabular(job.query), ~job.overlap
               PROVE  /\ \A s, t \in job.shards : s # t => Apart(s, t)
                      /\ \A x \in job'.kept, s \in job.shards : Beyond(job.query, x.row.ts, s)
                      /\ \A t \in job.todo \ {r}, s \in job.shards : Beyond(job.query, t.ts, s)
                      /\ \A x \in job'.kept, t \in job.todo \ {r} : Ordered(job.query, x.row.ts, t.ts)
    BY <1>0 DEF InTime
  <2>1. /\ \A s, t \in job.shards : s # t => Apart(s, t)
        /\ \A x \in job.kept, s \in job.shards : Beyond(job.query, x.row.ts, s)
        /\ \A t \in job.todo, s \in job.shards : Beyond(job.query, t.ts, s)
        /\ \A x \in job.kept, t \in job.todo : Ordered(job.query, x.row.ts, t.ts)
    BY DEF Reading, InTime
  <2>2. \A x \in job'.kept, s \in job.shards : Beyond(job.query, x.row.ts, s) BY <1>2, <2>1
  <2>3. \A x \in job'.kept, t \in job.todo \ {r} : Ordered(job.query, x.row.ts, t.ts) BY <1>2, <2>1
  <2> QED BY <2>1, <2>2, <2>3
<1> QED BY <1>1, <1>4, <1>5, <1>6, <1>7 DEF Reading

\* A row without the field, or without the label: it is passed by.
LEMMA SkipInv ==
  ASSUME JobType, Reading, NEW r \in job.todo, ~Carries(job.query, r),
         job' = [job EXCEPT !.todo = @ \ {r}],
         UNCHANGED <<shards, stored, dict, width, retention, now, steady>>,
         \A t \in job.todo \ {r} : Ordered(job.query, r.ts, t.ts)
  PROVE  JobType' /\ Reading'
<1>1. JobType' BY DEF JobType
<1>2. VisitFrame(r) BY DEF JobType, VisitFrame
<1>3. job'.kept = job.kept /\ job'.seen = job.seen BY DEF JobType
<1>4. job'.trunc = job.trunc /\ job'.stop = job.stop BY DEF JobType
<1>5. Counted' BY <1>3 DEF Reading, Counted
<1>6. Stops' BY <1>2, <1>3, <1>4 DEF Reading, Stops, VisitFrame
<1>7. Found'
  <2> SUFFICES ASSUME NEW t \in steady
               PROVE  \/ t \in Rows(job.kept) \cup (job.todo \ {r})
                      \/ \E e \in stored : e[1] = t /\ e[2] \in job.shards
                      \/ Dropped(t)'
    BY <1>2, <1>3 DEF Found, Rows, VisitFrame
  <2>1. Dropped(t) => Dropped(t)' BY <1>2, <1>3, <1>4 DEF Dropped, VisitFrame
  <2>2. Wanted(job.query, t) BY DEF Reading, Expected
  <2>3. Carries(job.query, t) BY <2>2 DEF Wanted, Carries
  <2>4. t # r BY <2>3
  <2> QED BY <2>1, <2>4 DEF Reading, Found
<1>8. r \in Rows(job'.kept) => Carries(job.query, r) BY <1>3 DEF Reading, Passed, Rows
<1> QED BY <1>1, <1>2, <1>3, <1>5, <1>6, <1>7, <1>8, VisitRest

\* A point too many: the scan stops.
LEMMA OverInv ==
  ASSUME JobType, Reading, NEW r \in job.todo, ~Tabular(job.query),
         job' = [job EXCEPT !.todo = @ \ {r}, !.trunc = TRUE, !.stop = TRUE],
         UNCHANGED <<shards, stored, dict, width, retention, now, steady>>,
         \A t \in job.todo \ {r} : Ordered(job.query, r.ts, t.ts)
  PROVE  JobType' /\ Reading'
<1>1. JobType' BY DEF JobType
<1>2. VisitFrame(r) BY DEF JobType, VisitFrame
<1>3. job'.kept = job.kept /\ job'.seen = job.seen BY DEF JobType
<1>4. job'.trunc = TRUE /\ job'.stop = TRUE BY DEF JobType
<1>5. Counted' BY <1>3 DEF Reading, Counted
<1>6. ~Tabular(job'.query) BY <1>2 DEF VisitFrame
<1>7. Stops' BY <1>4, <1>6 DEF Stops
<1>8. Found' BY <1>4, <1>6 DEF Found, Dropped
<1>9. r \in Rows(job'.kept) => Carries(job.query, r) BY <1>3 DEF Reading, Passed, Rows
<1> QED BY <1>1, <1>2, <1>3, <1>5, <1>7, <1>8, <1>9, VisitRest

\* A row that is kept, while nothing is thrown away for it.
LEMMA KeepInv ==
  ASSUME JobType, Reading, NEW r \in job.todo, Carries(job.query, r), NEW tr \in BOOLEAN, NEW st \in BOOLEAN,
         job' = [job EXCEPT !.todo = @ \ {r}, !.kept = @ \cup {[n |-> job.seen + 1, row |-> r]},
                            !.seen = @ + 1, !.trunc = tr, !.stop = st],
         job.trunc => tr, st => tr,
         Tabular(job.query) => /\ st => ~job.overlap
                               /\ tr => job.trunc \/ Cardinality(job.kept) + 1 > Limit(job.query),
         UNCHANGED <<shards, stored, dict, width, retention, now, steady>>,
         \A t \in job.todo \ {r} : Ordered(job.query, r.ts, t.ts)
  PROVE  JobType' /\ Reading'
<1> DEFINE x == [n |-> job.seen + 1, row |-> r]
           K == job.kept \cup {x}
           q == job.query
<1>0. job.seen \in Nat /\ r \in Pool BY DEF JobType
<1>1. JobType'
  <2>1. K \subseteq [n : Nat, row : Pool] BY <1>0 DEF JobType
  <2>2. job' = [job EXCEPT !.todo = @ \ {r}, !.kept = K, !.seen = @ + 1, !.trunc = tr, !.stop = st]
    BY DEF JobType
  <2>3. /\ job.at \in {"idle", "reading"} /\ q \in Queries \cup {NoQuery}
        /\ job.shards \subseteq ShardSet /\ job.todo \ {r} \subseteq Pool
        /\ job.match \subseteq Everyone /\ job.known \subseteq Hosts /\ job.seen + 1 \in Nat
    BY <1>0 DEF JobType
  <2>4. job.overlap \in BOOLEAN BY DEF JobType
  <2> HIDE DEF K
  <2>5. job' = [at |-> job.at, query |-> q, shards |-> job.shards, todo |-> job.todo \ {r},
                overlap |-> job.overlap, match |-> job.match, known |-> job.known,
                kept |-> K, seen |-> job.seen + 1, trunc |-> tr, stop |-> st]
    BY <2>2 DEF JobType
  <2> HIDE DEF q
  <2> QED BY <2>1, <2>3, <2>4, <2>5 DEF JobType
<1>2. VisitFrame(r) BY DEF JobType, VisitFrame
<1>3. job'.kept = K /\ job'.seen = job.seen + 1 BY DEF JobType
<1>4. job'.trunc = tr /\ job'.stop = st BY DEF JobType
<1>5. /\ x \notin job.kept /\ Numbered(K) /\ \A y \in K : y.n <= job.seen + 1
      /\ Cardinality(K) = Cardinality(job.kept) + 1
      /\ Rows(K) = Rows(job.kept) \cup {r}
  BY ArrivedFacts
<1>6. /\ Limit(q) \in Nat /\ Numbered(job.kept) /\ Cardinality(job.kept) \in Nat
  BY ReadingFacts
<1> HIDE DEF K, x
<1>7. Counted'
  <2>1. IsFiniteSet(K) /\ \A y, z \in K : y.n = z.n => y = z BY <1>5 DEF Numbered
  <2>2. \A y \in K : y.n <= job.seen + 1 BY <1>5
  <2> QED BY <1>3, <2>1, <2>2 DEF Counted
<1>8. Stops'
  <2>1. Tabular(q) /\ tr => Limit(q) <= Cardinality(K)
    BY <1>5, <1>6 DEF Reading, Stops
  <2> QED BY <1>2, <1>3, <1>4, <2>1 DEF Stops, VisitFrame
<1>9. Found'
  <2> SUFFICES ASSUME NEW t \in steady
               PROVE  \/ t \in Rows(job.kept) \cup {r} \cup (job.todo \ {r})
                      \/ \E e \in stored : e[1] = t /\ e[2] \in job.shards
                      \/ Dropped(t)'
    BY <1>2, <1>3, <1>5 DEF Found, VisitFrame
  <2>1. Dropped(t) => Dropped(t)'
    <3> SUFFICES ASSUME Dropped(t)
                 PROVE  tr /\ (Tabular(q) => /\ job.overlap
                                            /\ \A b \in KeepBest(q, K) : Ordered(q, b.row.ts, t.ts))
      BY <1>2, <1>3, <1>4 DEF Dropped, VisitFrame
    <3>1. tr BY DEF Dropped
    <3>2. ASSUME Tabular(q) PROVE job.overlap /\ \A b \in KeepBest(q, K) : Ordered(q, b.row.ts, t.ts)
      <4>1. job.overlap /\ \A b \in KeepBest(q, job.kept) : Ordered(q, b.row.ts, t.ts)
        BY <3>2 DEF Dropped
      <4>2. Limit(q) <= Cardinality(job.kept) BY <3>2 DEF Dropped, Reading, Stops
      <4>3. t.ts \in Int /\ q \in Queries BY QueryAssumption DEF Reading, Expected
      <4>4. \A b \in KeepBest(q, job.kept \cup {x}) : Ordered(q, b.row.ts, t.ts)
        BY <1>5, <1>6, <4>1, <4>2, <4>3, BestImproves DEF K
      <4> QED BY <4>1, <4>4 DEF K
    <3> QED BY <3>1, <3>2
  <2> QED BY <2>1 DEF Reading, Found
<1>10. Rows(job'.kept) \subseteq Rows(job.kept) \cup {r} BY <1>3, <1>5
<1> QED BY <1>1, <1>2, <1>7, <1>8, <1>9, <1>10, VisitRest

\* A table of overlapping shards that is full: the best rows are kept.
Trimmed(r, K) ==
  job' = [job EXCEPT !.todo = @ \ {r}, !.kept = KeepBest(job.query, K),
                     !.seen = @ + 1, !.trunc = TRUE, !.stop = FALSE]

LEMMA BestInv ==
  ASSUME JobType, Reading, NEW r \in job.todo, Carries(job.query, r), Tabular(job.query), job.overlap,
         NEW K, K = job.kept \cup {[n |-> job.seen + 1, row |-> r]}, Cardinality(K) > Limit(job.query),
         Trimmed(r, K),
         UNCHANGED <<shards, stored, dict, width, retention, now, steady>>,
         \A t \in job.todo \ {r} : Ordered(job.query, r.ts, t.ts)
  PROVE  JobType' /\ Reading'
<1> DEFINE x == [n |-> job.seen + 1, row |-> r]
           q == job.query
           best == KeepBest(q, K)
<1>0. job.seen \in Nat /\ r \in Pool /\ q \in Queries BY DEF JobType, Reading
<1>1. /\ x \notin job.kept /\ Numbered(K) /\ \A y \in K : y.n <= job.seen + 1
      /\ Cardinality(K) = Cardinality(job.kept) + 1
      /\ Rows(K) = Rows(job.kept) \cup {r}
  BY ArrivedFacts
<1>2. /\ Limit(q) \in Nat /\ Numbered(job.kept) /\ Cardinality(job.kept) \in Nat
  BY ReadingFacts
<1>3. Limit(q) <= Cardinality(job.kept) /\ Limit(q) <= Cardinality(K) BY <1>1, <1>2
<1>4. /\ best \subseteq K /\ Cardinality(best) = Limit(q)
      /\ \A b \in best, y \in K \ best : Better(q, b, y)
  <2>1. q \in Queries /\ Numbered(K) /\ Limit(q) <= Cardinality(K) BY <1>0, <1>1, <1>3
  <2> HIDE DEF q
  <2> QED BY <2>1, KeepBestFacts
<1>5. IsFiniteSet(K) /\ K \subseteq [n : Nat, row : Pool] /\ \A y, z \in K : y.n = z.n => y = z
  BY <1>1 DEF Numbered
<1>6. Numbered(best)
  <2> HIDE DEF best
  <2>0. best \in SUBSET K BY <1>4
  <2>1. IsFiniteSet(best) BY <1>5, <2>0, FS_Subset
  <2> QED BY <1>4, <1>5, <2>1 DEF Numbered
<1>7. KeepBest(q, best) = best BY <1>0, <1>4, <1>6, BestAgain
<1>8. best \subseteq [n : Nat, row : Pool] BY <1>4, <1>5
<1>9. job' = [job EXCEPT !.todo = @ \ {r}, !.kept = best, !.seen = @ + 1, !.trunc = TRUE, !.stop = FALSE]
  BY DEF Trimmed
<1> HIDE DEF best, x
<1>10. JobType'
  <2>1. /\ job.at \in {"idle", "reading"} /\ q \in Queries \cup {NoQuery}
        /\ job.shards \subseteq ShardSet /\ job.todo \ {r} \subseteq Pool
        /\ job.match \subseteq Everyone /\ job.known \subseteq Hosts /\ job.seen + 1 \in Nat
    BY <1>0 DEF JobType
  <2>2. job.overlap \in BOOLEAN BY DEF JobType
  <2>3. job' = [at |-> job.at, query |-> q, shards |-> job.shards, todo |-> job.todo \ {r},
                overlap |-> job.overlap, match |-> job.match, known |-> job.known,
                kept |-> best, seen |-> job.seen + 1, trunc |-> TRUE, stop |-> FALSE]
    BY <1>9 DEF JobType
  <2> HIDE DEF q
  <2> QED BY <1>8, <2>1, <2>2, <2>3 DEF JobType
<1>11. VisitFrame(r) BY <1>9 DEF JobType, VisitFrame
<1>12. job'.kept = best /\ job'.seen = job.seen + 1 BY <1>9 DEF JobType
<1>13. job'.trunc = TRUE /\ job'.stop = FALSE BY <1>9 DEF JobType
<1>14. Counted'
  <2>1. IsFiniteSet(best) /\ \A y, z \in best : y.n = z.n => y = z BY <1>6 DEF Numbered
  <2>2. \A y \in best : y.n <= job.seen + 1 BY <1>1, <1>4
  <2> QED BY <1>12, <2>1, <2>2 DEF Counted
<1>15. Stops' BY <1>2, <1>4, <1>11, <1>12, <1>13 DEF Stops, VisitFrame
<1>16. Found'
  <2> SUFFICES ASSUME NEW t \in steady
               PROVE  \/ t \in Rows(best) \cup (job.todo \ {r})
                      \/ \E e \in stored : e[1] = t /\ e[2] \in job.shards
                      \/ \A b \in best : Ordered(q, b.row.ts, t.ts)
    BY <1>7, <1>11, <1>12, <1>13 DEF Found, VisitFrame, Dropped
  <2>1. CASE Dropped(t)
    <3>1. \A b \in KeepBest(q, job.kept) : Ordered(q, b.row.ts, t.ts) BY <2>1 DEF Dropped
    <3>2. t.ts \in Int BY QueryAssumption DEF Reading, Expected
    <3>3. K = job.kept \cup {x} BY DEF x
    <3>4. \A b \in KeepBest(q, K) : Ordered(q, b.row.ts, t.ts)
      BY <1>0, <1>1, <1>2, <1>3, <3>1, <3>2, <3>3, BestImproves
    <3> QED BY <3>4 DEF best
  <2>2. CASE t \in Rows(K)
    <3>1. PICK y \in K : y.row = t BY <2>2 DEF Rows
    <3>2. CASE y \in best BY <3>1, <3>2 DEF Rows
    <3>3. CASE y \notin best
      <4>1. \A b \in best : Better(q, b, y) BY <1>4, <3>3
      <4>2. \A b \in best : Ordered(q, b.row.ts, y.row.ts) BY <1>1, <1>4, <4>1, BetterOrder
      <4> QED BY <3>1, <4>2
    <3> QED BY <3>2, <3>3
  <2> QED BY <1>1, <2>1, <2>2 DEF Reading, Found
<1>17. Rows(job'.kept) \subseteq Rows(job.kept) \cup {r} BY <1>1, <1>4, <1>12 DEF Rows
<1> QED BY <1>10, <1>11, <1>14, <1>15, <1>16, <1>17, VisitRest

LEMMA VisitInv ==
  ASSUME IInv, NEW r \in job.todo, Visit(r)
  PROVE  IInv'
<1> DEFINE q == job.query
           rest == [job EXCEPT !.todo = @ \ {r}]
           K == job.kept \cup {[n |-> job.seen + 1, row |-> r]}
           past == Cardinality(K) > Limit(q)
           full == past /\ job.overlap /\ Cardinality(K) >= 2 * Limit(q) + Slack
<1>1. /\ job.at = "reading" /\ ~job.stop
      /\ \A t \in job.todo \ {r} : IF q.fmt = "logs" THEN Earlier(t, r) ELSE Earlier(r, t)
      /\ job' = IF Tabular(q) THEN VisitTable(rest, r) ELSE VisitPoint(rest, r)
      /\ UNCHANGED <<shards, stored, dict, width, retention, now, steady>>
  BY DEF Visit
<1>2. JobType /\ Reading BY <1>1 DEF IInv, JobInv
<1>3. \A t \in job.todo \ {r} : Ordered(q, r.ts, t.ts)
  <2>1. \A t \in job.todo : t.ts \in Int BY <1>2, ReadingFacts
  <2> QED BY <1>1, <2>1 DEF Earlier, Ordered
<1>4. /\ rest.query = q /\ rest.kept = job.kept /\ rest.seen = job.seen /\ rest.overlap = job.overlap
      /\ Arrived(rest, r) = K
  BY <1>2 DEF JobType, Arrived
<1>5. /\ Limit(q) \in Nat /\ Cardinality(job.kept) \in Nat /\ Cardinality(K) = Cardinality(job.kept) + 1
  BY <1>2, ReadingFacts, ArrivedFacts
<1>6. JobType' /\ Reading'
  <2>1. CASE Tabular(q) /\ ~r.has
    <3>1. job' = rest BY <1>1, <2>1 DEF VisitTable
    <3>2. ~Carries(q, r) BY <2>1 DEF Tabular, Carries
    <3> QED BY <1>1, <1>2, <1>3, <3>1, <3>2, SkipInv
  <2>2. CASE Tabular(q) /\ r.has /\ full
    <3>1. job' = [rest EXCEPT !.kept = KeepBest(q, K), !.seen = @ + 1, !.trunc = @ \/ past,
                              !.stop = past /\ ~job.overlap]
      BY <1>1, <1>4, <2>2 DEF VisitTable
    <3>2. past /\ job.overlap BY <2>2
    <3>3. Trimmed(r, K) BY <1>2, <3>1, <3>2 DEF JobType, Trimmed
    <3>4. Carries(q, r) BY <2>2 DEF Tabular, Carries
    <3> HIDE DEF K
    <3>5. Cardinality(K) > Limit(q) BY <3>2
    <3> QED BY <1>1, <1>2, <1>3, <2>2, <3>2, <3>3, <3>4, <3>5, BestInv DEF K
  <2>3. CASE Tabular(q) /\ r.has /\ ~full
    <3> DEFINE tr == job.trunc \/ past
               st == past /\ ~job.overlap
    <3>1. job' = [rest EXCEPT !.kept = K, !.seen = @ + 1, !.trunc = @ \/ past,
                              !.stop = past /\ ~job.overlap]
      BY <1>1, <1>4, <2>3 DEF VisitTable
    <3>2. job' = [job EXCEPT !.todo = @ \ {r}, !.kept = @ \cup {[n |-> job.seen + 1, row |-> r]},
                            !.seen = @ + 1, !.trunc = tr, !.stop = st]
      BY <1>2, <3>1 DEF JobType
    <3>3. Carries(q, r) BY <2>3 DEF Tabular, Carries
    <3>4. tr \in BOOLEAN /\ st \in BOOLEAN OBVIOUS
    <3>5. (job.trunc => tr) /\ (st => tr) /\ (st => ~job.overlap) OBVIOUS
    <3>6. tr => job.trunc \/ Cardinality(job.kept) + 1 > Limit(q) BY <1>5
    <3> HIDE DEF tr, st
    <3> QED BY <1>1, <1>2, <1>3, <3>2, <3>3, <3>4, <3>5, <3>6, KeepInv
  <2>4. CASE ~Tabular(q) /\ ~Carries(q, r)
    <3>1. job' = rest BY <1>1, <1>4, <2>4 DEF VisitPoint, Carries
    <3> QED BY <1>1, <1>2, <1>3, <2>4, <3>1, SkipInv
  <2>5. CASE ~Tabular(q) /\ Carries(q, r)
    <3>1. \/ job' = [rest EXCEPT !.trunc = TRUE, !.stop = TRUE]
          \/ job' = [rest EXCEPT !.kept = K, !.seen = @ + 1]
      BY <1>1, <1>4, <2>5 DEF VisitPoint, Carries
    <3>2. CASE job' = [rest EXCEPT !.trunc = TRUE, !.stop = TRUE]
      <4>1. job' = [job EXCEPT !.todo = @ \ {r}, !.trunc = TRUE, !.stop = TRUE] BY <3>2
      <4> QED BY <1>1, <1>2, <1>3, <2>5, <4>1, OverInv
    <3>3. CASE job' = [rest EXCEPT !.kept = K, !.seen = @ + 1]
      <4> DEFINE tr == job.trunc
                 st == job.stop
      <4>1. job' = [job EXCEPT !.todo = @ \ {r}, !.kept = @ \cup {[n |-> job.seen + 1, row |-> r]},
                              !.seen = @ + 1, !.trunc = tr, !.stop = st]
        BY <1>2, <3>3 DEF JobType
      <4>2. tr \in BOOLEAN /\ st \in BOOLEAN BY <1>2 DEF JobType
      <4>3. (job.trunc => tr) /\ (st => tr) BY <1>2 DEF Reading, Stops
      <4> HIDE DEF tr, st
      <4> QED BY <1>1, <1>2, <1>3, <2>5, <4>1, <4>2, <4>3, KeepInv
    <3> QED BY <3>1, <3>2, <3>3
  <2> QED BY <2>1, <2>2, <2>3, <2>4, <2>5
<1> QED BY <1>1, <1>6, StoreStays DEF IInv, JobInv

LEMMA NextInv == IInv /\ [Next]_vars => IInv'
<1> SUFFICES ASSUME IInv, [Next]_vars PROVE IInv'
  OBVIOUS
<1>1. CASE \E r \in Pool : Put(r)
  BY <1>1, PutInv
<1>2. CASE \E w \in Widths, ret \in Retentions : Declare(w, ret)
  BY <1>2, DeclareInv
<1>3. CASE \E t \in Instants : Advance(t)
  BY <1>3, AdvanceInv
<1>4. CASE \E s \in shards : Sweep(s)
  BY <1>4, SweepInv
<1>5. CASE \E q \in Queries : Plan(q)
  BY <1>5, PlanInv
<1>6. CASE \E s \in job.shards : Open(s)
  BY <1>6, OpenInv
<1>7. CASE \E r \in job.todo : Visit(r)
  BY <1>7, VisitInv
<1>8. CASE Cancel \/ Deliver
  BY <1>8, GoneInv
<1>9. CASE UNCHANGED vars
  <2>1. UNCHANGED <<shards, stored, dict, width, retention, now, job, steady>> BY <1>9 DEF vars
  <2>2. Declared' /\ Placed' BY <2>1, StoreStays DEF IInv
  <2>3. JobInv' BY <2>1, Undisturbed DEF IInv
  <2> QED BY <2>2, <2>3 DEF IInv
<1> QED BY <1>1, <1>2, <1>3, <1>4, <1>5, <1>6, <1>7, <1>8, <1>9 DEF Next

LEMMA InvHolds == Spec => []IInv
BY InitInv, NextInv, PTL DEF Spec

-----------------------------------------------------------------------------
(* Retention.                                                              *)

LEMMA StepKeepsYoung ==
  IInv /\ [Next]_vars => [\A e \in stored \ stored' : e[1].ts < now - retention]_vars
<1> SUFFICES ASSUME IInv, Next, NEW e \in stored, e \notin stored'
             PROVE  e[1].ts < now - retention
  OBVIOUS
<1>1. PICK s \in shards : Sweep(s)
  <2>1. CASE \E r \in Pool : Put(r)
    BY <2>1 DEF Put
  <2>2. CASE \E w \in Widths, ret \in Retentions : Declare(w, ret)
    BY <2>2 DEF Declare
  <2>3. CASE \E t \in Instants : Advance(t)
    BY <2>3 DEF Advance
  <2>4. CASE \E s \in shards : Sweep(s)
    BY <2>4
  <2>5. CASE \/ \E q \in Queries : Plan(q)
             \/ \E s \in job.shards : Open(s)
             \/ \E r \in job.todo : Visit(r)
             \/ Cancel \/ Deliver
    BY <2>5 DEF Plan, Open, Visit, Cancel, Deliver
  <2> QED BY <2>1, <2>2, <2>3, <2>4, <2>5 DEF Next
<1>2. CASE s = All
  BY <1>1, <1>2 DEF Sweep, Removed
<1>3. CASE s # All
  <2>1. e[2] = s /\ s.end < now - retention
    BY <1>1, <1>3 DEF Sweep, Removed, Aged
  <2>2. s.end \in Int /\ e[1].ts < s.end /\ e[1] \in Pool
    BY <1>3, <2>1 DEF IInv, Placed, Declared, Solid, ShardSet
  <2>3. e[1].ts \in Int /\ now \in Int /\ retention \in Int
    BY <2>2, QueryAssumption DEF IInv, Declared
  <2> QED BY <2>1, <2>2, <2>3
<1> QED BY <1>2, <1>3

\* RunRetention removes no row younger than the horizon: a dated shard is dropped only
\* when its end, which no row of it reaches, is past the horizon, however often the
\* width and the retention of the set were declared anew and before the epoch too.
THEOREM YoungRowsStay == Spec => YoungKept
<1>1. Spec => []IInv
  BY InitInv, NextInv, PTL DEF Spec
<1>2. IInv /\ [Next]_vars => [\A e \in stored \ stored' : e[1].ts < now - retention]_vars
  BY StepKeepsYoung
<1> QED BY <1>1, <1>2, PTL DEF Spec, YoungKept

-----------------------------------------------------------------------------
(* The plan.                                                               *)

\* The shards a query of a range reads.
InRange(s, from, to) == s = All \/ (s.end > from /\ s.start <= to)

\* Were q planned now, it would not be called impossible while a row it wants is stored,
\* the shard of each such row would be among those it reads, and in that shard a row in
\* the range of the query passes the scan exactly if the predicate is true of it.
PlanExact ==
  \A q \in Queries : \A e \in stored :
    /\ Wanted(q, e[1]) => /\ ~LowerNever(q.where)
                          /\ e[2] \in {s \in shards : InRange(s, q.from, q.to)}
    /\ e[1].host \in LowerMatch(q.where) <=> Matches(q.where, e[1].host)

\* A plan misses no row and lets none through that the predicate is false of: shards of
\* any widths that overlap, boundaries before the epoch, values that were never interned,
\* expressions that match every value or none, and all their combinations by AND, OR and
\* NOT (shardsInRange, buildExpr).
THEOREM PlansAreExact == Spec => []PlanExact
<1>1. Spec => []IInv
  BY InitInv, NextInv, PTL DEF Spec
<1>2. IInv => PlanExact
  <2> SUFFICES ASSUME IInv, NEW q \in Queries, NEW e \in stored
               PROVE  /\ Wanted(q, e[1]) =>
                           /\ ~LowerNever(q.where)
                           /\ e[2] \in {s \in shards : InRange(s, q.from, q.to)}
                      /\ e[1].host \in LowerMatch(q.where) <=> Matches(q.where, e[1].host)
    BY DEF PlanExact
  <2> DEFINE h == e[1].host
  <2>1. h = "" \/ h \in dict
    BY DEF IInv, Placed
  <2>2. dict \subseteq Hosts /\ NamesValues(q.where)
    BY QueryAssumption DEF IInv, Declared
  <2>3. /\ h \in LowerMatch(q.where) <=> Matches(q.where, h)
        /\ LowerNever(q.where) => ~Matches(q.where, h)
    BY <2>1, <2>2, LowerExact
  <2>4. ASSUME Wanted(q, e[1])
        PROVE  /\ Matches(q.where, h)
               /\ e[1].ts >= q.from /\ e[1].ts <= q.to
    BY <2>4 DEF Wanted
  <2>5. ASSUME Wanted(q, e[1]) PROVE InRange(e[2], q.from, q.to)
    <3>1. e[1].ts \in Int /\ q.from \in Int /\ q.to \in Int
      BY QueryAssumption DEF IInv, Placed
    <3>2. e[2] # All => /\ e[2].start \in Int /\ e[2].end \in Int
                        /\ e[2].start <= e[1].ts /\ e[1].ts < e[2].end
      BY DEF IInv, Placed, Declared, Solid, ShardSet
    <3>3. e[1].ts >= q.from /\ e[1].ts <= q.to
      BY <2>4, <2>5
    <3> QED BY <3>1, <3>2, <3>3 DEF InRange
  <2>6. e[2] \in shards
    BY DEF IInv, Placed
  <2> QED BY <2>3, <2>4, <2>5, <2>6
<1> QED BY <1>1, <1>2, PTL

-----------------------------------------------------------------------------
(* The answer.                                                             *)

\* A query that was not cut short has every row that was stored when it was planned and
\* has not been removed since, though rows arrived, widths were declared anew and the
\* retention swept between any two rows it read; and it has no row its predicate is false
\* of, except one whose label value was interned after the plan.
THEOREM AnswersAreExact == Spec => []AnswerExact
<1>1. IInv => AnswerExact
  <2> SUFFICES ASSUME IInv, Done(Formats)
               PROVE  /\ ~job.trunc => steady \subseteq Rows(job.kept)
                      /\ \A r \in Rows(job.kept) :
                           Wanted(job.query, r) \/ r.host \notin job.known \cup {""}
    BY DEF AnswerExact
  <2>1. Reading /\ Finished BY DEF IInv, JobInv, Done
  <2>2. ASSUME ~job.trunc, NEW r \in steady PROVE r \in Rows(job.kept)
    <3>1. ~Dropped(r) BY <2>2 DEF Dropped
    <3>2. job.shards = {} /\ job.todo = {} BY <2>1, <2>2 DEF Finished, Reading, Stops
    <3> QED BY <2>1, <3>1, <3>2 DEF Reading, Found
  <2>3. ASSUME NEW r \in Rows(job.kept), r.host \in job.known \cup {""} PROVE Wanted(job.query, r)
    <3>1. Passes(r) /\ Carries(job.query, r) BY <2>1 DEF Reading, Passed, Rows
    <3>2. Matches(job.query.where, r.host) BY <2>1, <2>3, <3>1 DEF Reading, Lowered, Passes
    <3> QED BY <3>1, <3>2 DEF Wanted, Passes, Carries
  <2> QED BY <2>2, <2>3
<1> QED BY <1>1, InvHolds, PTL

\* A table that was cut short has exactly as many rows as its limit, and no row that was
\* there all the time is older than one of them (newer, for logs) and missing: whether the
\* scan stopped early, trusting the order of disjoint shards, or went through overlapping
\* ones and threw away what was not best.
THEOREM LimitsAreExact == Spec => []LimitExact
<1>1. IInv => LimitExact
  <2> DEFINE q == job.query
             rows == TableAnswer(job)
  <2> SUFFICES ASSUME IInv, Done({"table", "logs"}), job.trunc PROVE LimitExact
    BY DEF LimitExact
  <2> SUFFICES /\ Cardinality(rows) = Limit(q)
               /\ \A r \in steady \ Rows(rows), k \in Rows(rows) : Ordered(q, k.ts, r.ts)
    <3>1. ASSUME NEW r \in steady, NEW k \in Rows(rows), Ordered(q, k.ts, r.ts)
          PROVE  IF q.fmt = "logs" THEN r.ts <= k.ts ELSE r.ts >= k.ts
      <4>1. k.ts \in Int /\ r.ts \in Int
        <5>1. Reading /\ JobType BY DEF IInv, JobInv, Done
        <5>2. rows \subseteq job.kept BY DEF TableAnswer, KeepBest
        <5>3. k \in Pool BY <5>1, <5>2 DEF Rows, JobType
        <5>4. r \in Pool BY <5>1 DEF Reading, Expected
        <5> QED BY <5>3, <5>4, QueryAssumption
      <4> QED BY <3>1, <4>1 DEF Ordered
    <3> HIDE DEF rows
    <3> QED BY <3>1 DEF LimitExact, rows
  <2>1. Reading /\ JobType /\ Finished /\ Tabular(q) BY DEF IInv, JobInv, Done, Tabular
  <2>2. /\ Limit(q) \in Nat /\ Numbered(job.kept) /\ Cardinality(job.kept) \in Nat /\ q \in Queries
        /\ \A x \in job.kept : x.row \in Pool /\ x.row.ts \in Int
    BY <2>1, ReadingFacts DEF Reading
  <2>3. Limit(q) <= Cardinality(job.kept) BY <2>1 DEF Reading, Stops
  <2>4. rows = KeepBest(q, job.kept)
    <3>1. CASE Cardinality(job.kept) > Limit(q) BY <3>1 DEF TableAnswer
    <3>2. CASE ~(Cardinality(job.kept) > Limit(q))
      <4>1. Limit(q) = Cardinality(job.kept) BY <2>2, <2>3, <3>2
      <4>2. KeepBest(q, job.kept) = job.kept BY <2>2, <4>1, BestAgain
      <4> QED BY <3>2, <4>2 DEF TableAnswer
    <3> QED BY <3>1, <3>2
  <2> HIDE DEF rows
  <2>5. /\ rows \subseteq job.kept /\ Cardinality(rows) = Limit(q)
        /\ \A b \in rows, y \in job.kept \ rows : Better(q, b, y)
    BY <2>2, <2>3, <2>4, KeepBestFacts
  <2>6. ASSUME NEW r \in steady, r \notin Rows(rows), NEW b \in rows PROVE Ordered(q, b.row.ts, r.ts)
    <3>0. r \in Pool /\ r.ts \in Int BY <2>1, QueryAssumption DEF Reading, Expected
    <3>1. CASE r \in Rows(job.kept)
      <4>1. PICK y \in job.kept : y.row = r BY <3>1 DEF Rows
      <4>2. y \notin rows BY <2>6, <4>1 DEF Rows
      <4>3. Better(q, b, y) BY <2>5, <4>2
      <4>4. Ordered(q, b.row.ts, y.row.ts) BY <2>2, <2>5, <4>3, BetterOrder
      <4> QED BY <4>1, <4>4
    <3>2. CASE Dropped(r) BY <2>1, <2>4, <3>2 DEF Dropped
    <3>3. CASE r \in job.todo \/ \E e \in stored : e[1] = r /\ e[2] \in job.shards
      <4>1. ~job.overlap BY <2>1, <3>3 DEF Finished, Reading, Stops
      <4>2. /\ \A x \in job.kept, s \in job.shards : Beyond(q, x.row.ts, s)
            /\ \A x \in job.kept, t \in job.todo : Ordered(q, x.row.ts, t.ts)
        BY <2>1, <4>1 DEF Reading, InTime
      <4>3. CASE r \in job.todo BY <2>5, <4>2, <4>3
      <4>4. CASE \E e \in stored : e[1] = r /\ e[2] \in job.shards
        <5>1. PICK e \in stored : e[1] = r /\ e[2] \in job.shards BY <4>4
        <5>2. Beyond(q, b.row.ts, e[2]) /\ b.row.ts \in Int BY <2>2, <2>5, <4>2, <5>1
        <5>3. e[2].start \in Int /\ e[2].end \in Int BY <2>1, <5>1 DEF Reading, Solid, ShardSet
        <5>4. e[2].start <= r.ts /\ r.ts < e[2].end BY <5>1, <5>2 DEF IInv, Placed, Beyond
        <5> QED BY <3>0, <5>2, <5>3, <5>4 DEF Beyond, Ordered
      <4> QED BY <3>3, <4>3, <4>4
    <3> QED BY <2>1, <3>1, <3>2, <3>3 DEF Reading, Found
  <2> QED BY <2>5, <2>6 DEF Rows
<1> QED BY <1>1, InvHolds, PTL

-----------------------------------------------------------------------------
(* The walk: what it is given and what it draws.                           *)

\* The samples of a series in the order of their times, none before the epoch.
Sampled(s) ==
  /\ Len(s) \in Nat
  /\ \A i \in 1 .. Len(s) : s[i].ts \in Nat /\ s[i].val \in Int
  /\ \A i, j \in 1 .. Len(s) : i <= j => s[i].ts <= s[j].ts

SpecOK(spec) ==
  /\ spec.gap \in Nat /\ spec.end \in Int /\ spec.min \in Int /\ spec.max \in Int

\* p is what the sample at j is worth after the modifiers, from the instant before it.
IsWorth(s, spec, j, p) ==
  /\ First(s, j)
  /\ \/ /\ j = 1 /\ ~spec.delta /\ ~spec.rate
        /\ p = [ts |-> s[1].ts, val |-> Drawn(spec, s[1].val, 0, 0)]
     \/ \E h \in 1 .. j - 1 :
          /\ First(s, h) /\ s[h].ts = s[j - 1].ts
          /\ p = [ts |-> s[j].ts, val |-> Drawn(spec, s[j].val, s[h].val, s[j].ts - s[h].ts)]

\* The cadence was missed before the sample at j.
Missed(s, spec, j) == spec.gap # 0 /\ s[j].ts - s[j - 1].ts > spec.gap

Mark == [kind : {"point", "null"}, ts : Nat, val : Int]
Spot == [ts : Nat, val : Int]

Has(out, x) == \E k \in 1 .. Len(out) : out[k] = x
HasPoint(out, x) == Has(out, x) /\ x.kind = "point"
HasNull(out, x) == Has(out, x) /\ x.kind = "null"

Rising(out) == \A i, j \in 1 .. Len(out) : i < j => out[i].ts < out[j].ts
Piece(out) == out \in Seq(Mark) /\ Rising(out)

\* Every point is a sample's worth; every sample has a point that is as high and one that
\* is as low no further than a window away; and what was missed is shown by a break with
\* no point between it and the sample that came too late.
AllWorth(s, spec, i, out) ==
  \A x : HasPoint(out, x) =>
    \E j \in 1 .. i : IsWorth(s, spec, j, [ts |-> x.ts, val |-> x.val])

Covers(out, w, p) ==
  /\ \E x : HasPoint(out, x) /\ x.val >= p.val /\ x.ts \in p.ts - w .. p.ts + w
  /\ \E x : HasPoint(out, x) /\ x.val <= p.val /\ x.ts \in p.ts - w .. p.ts + w

Shown(out, s, j) ==
  \E n : /\ HasNull(out, n) /\ n.ts >= s[j].ts - 1
         /\ \A y : HasPoint(out, y) /\ y.ts >= s[j].ts => y.ts > n.ts

Honest(s, spec, w, i, g, out) ==
  /\ Piece(out)
  /\ AllWorth(s, spec, i, out)
  /\ \A j \in 1 .. i : \A p : IsWorth(s, spec, j, p) => Covers(out, w, p)
  /\ \A j \in 2 .. g : Missed(s, spec, j) => Shown(out, s, j)

-----------------------------------------------------------------------------
(* Pieces of output.                                                       *)

LEMMA NoPiece == Piece(<<>>) /\ \A x : ~Has(<<>>, x)
BY DEF Piece, Rising, Has

LEMMA OnePiece ==
  ASSUME NEW x \in Mark
  PROVE  Piece(<<x>>) /\ \A y : Has(<<x>>, y) <=> y = x
<1>1. <<x>> \in Seq(Mark) /\ Len(<<x>>) = 1 /\ <<x>>[1] = x OBVIOUS
<1>2. Rising(<<x>>) BY DEF Rising
<1>3. \A y : Has(<<x>>, y) <=> y = x
  <2> DEFINE o == <<x>>
  <2>1. 1 .. Len(o) = {1} /\ o[1] = x OBVIOUS
  <2> HIDE DEF o
  <2>2. \A y : Has(o, y) <=> y = x BY <2>1 DEF Has
  <2> QED BY <2>2 DEF o
<1> QED BY <1>1, <1>2, <1>3 DEF Piece

\* Numbers in a row.
LEMMA Follows ==
  ASSUME NEW a \in Nat, NEW b \in Nat, NEW c \in Nat, a < b, b < c
  PROVE  a < c
OBVIOUS

LEMMA Between ==
  ASSUME NEW a \in Nat, NEW b \in Nat, NEW c \in Nat, NEW d \in Nat, a < b, b <= c, c <= d
  PROVE  a < d
OBVIOUS

\* There is an instant between two samples that are further apart than a cadence.
LEMMA RoomForBreak ==
  ASSUME NEW a \in Nat, NEW b \in Nat, NEW gap \in Nat, gap # 0, b - a > gap
  PROVE  a < b - 1 /\ b - 1 \in Nat /\ b - 1 >= 1
OBVIOUS

\* Two instants of one window are no further apart than it is long.
LEMMA NoFurther ==
  ASSUME NEW a \in Nat, NEW w \in Nat, NEW t \in Nat, NEW u \in Nat,
         a <= t, t <= a + w, a <= u, u <= a + w
  PROVE  t \in u - w .. u + w
OBVIOUS

LEMMA PieceTimes ==
  ASSUME NEW out, Piece(out), NEW x, Has(out, x)
  PROVE  x \in Mark /\ x.ts \in Nat /\ x.val \in Int
<1>1. PICK k \in 1 .. Len(out) : out[k] = x BY DEF Has
<1>2. out \in Seq(Mark) BY DEF Piece
<1>3. out[k] \in Mark BY <1>2
<1> QED BY <1>1, <1>3 DEF Mark

\* Two sequences, the first before the second.
LEMMA JoinRising ==
  ASSUME NEW M, NEW a \in Seq(M), NEW b \in Seq(M), Rising(a), Rising(b),
         \A x, y : Has(a, x) /\ Has(b, y) => x.ts < y.ts
  PROVE  a \o b \in Seq(M) /\ Rising(a \o b) /\ \A x : Has(a \o b, x) <=> Has(a, x) \/ Has(b, x)
<1> DEFINE o == a \o b
<1>0. Len(a) \in Nat /\ Len(b) \in Nat OBVIOUS
<1>1. o \in Seq(M) /\ Len(o) = Len(a) + Len(b) BY <1>0
<1>2. \A k \in 1 .. Len(o) : o[k] = IF k <= Len(a) THEN a[k] ELSE b[k - Len(a)] BY <1>0
<1> HIDE DEF o
<1>3. ASSUME NEW k \in 1 .. Len(a) PROVE k \in 1 .. Len(o) /\ o[k] = a[k] BY <1>0, <1>1, <1>2
<1>4. ASSUME NEW k \in 1 .. Len(b) PROVE Len(a) + k \in 1 .. Len(o) /\ o[Len(a) + k] = b[k]
  BY <1>0, <1>1, <1>2
<1>5. ASSUME NEW k \in 1 .. Len(o)
      PROVE  \/ k \in 1 .. Len(a) /\ o[k] = a[k]
             \/ k - Len(a) \in 1 .. Len(b) /\ o[k] = b[k - Len(a)] /\ k > Len(a)
  BY <1>0, <1>1, <1>2
<1>6. \A x : Has(o, x) <=> Has(a, x) \/ Has(b, x) BY <1>3, <1>4, <1>5 DEF Has
<1>7. ASSUME NEW i \in 1 .. Len(o), NEW j \in 1 .. Len(o), i < j PROVE o[i].ts < o[j].ts
  <2>1. CASE i \in 1 .. Len(a) /\ o[i] = a[i] /\ j \in 1 .. Len(a) /\ o[j] = a[j]
    BY <1>7, <2>1 DEF Rising
  <2>2. CASE /\ i - Len(a) \in 1 .. Len(b) /\ o[i] = b[i - Len(a)]
             /\ j - Len(a) \in 1 .. Len(b) /\ o[j] = b[j - Len(a)]
    BY <1>0, <1>7, <2>2 DEF Rising
  <2>3. CASE /\ i \in 1 .. Len(a) /\ o[i] = a[i]
             /\ j - Len(a) \in 1 .. Len(b) /\ o[j] = b[j - Len(a)]
    BY <2>3 DEF Has
  <2>4. ~(i > Len(a) /\ j \in 1 .. Len(a)) BY <1>0, <1>7
  <2> QED BY <1>5, <2>1, <2>2, <2>3, <2>4
<1>8. Rising(o) BY <1>7 DEF Rising
<1> QED BY <1>1, <1>6, <1>8 DEF o

LEMMA JoinPieces ==
  ASSUME NEW a, NEW b, Piece(a), Piece(b), \A x, y : Has(a, x) /\ Has(b, y) => x.ts < y.ts
  PROVE  Piece(a \o b) /\ \A x : Has(a \o b, x) <=> Has(a, x) \/ Has(b, x)
BY JoinRising DEF Piece

\* A set of naturals that is not empty has a smallest member.
LEMMA NatLeast ==
  ASSUME NEW S, S \subseteq Nat, S # {}
  PROVE  \E m \in S : \A k \in S : m <= k
<1> DEFINE R == OpToRel(<, Nat)
<1>1. IsWellFoundedOn(R, Nat) BY NatLessThanWellFounded, Zenon
<1>2. \A x, y \in Nat : <<y, x>> \in R <=> y < x BY DEF OpToRel
<1> HIDE DEF R
<1>3. PICK x \in S : \A y \in S : ~(<<y, x>> \in R) BY <1>1, WFMin
<1>4. \A y \in S : ~(y < x) BY <1>2, <1>3
<1>5. \A y \in S : x <= y BY <1>4
<1> QED BY <1>5

\* A set of numbers that are not above m has a largest.
LEMMA Largest ==
  ASSUME NEW S, NEW m \in Nat, \A k \in S : k \in -1 .. m, S # {}
  PROVE  Max(S) \in S /\ \A k \in S : k <= Max(S)
<1> DEFINE T == {m - k : k \in S}
<1>1. T \subseteq Nat /\ T # {} OBVIOUS
<1> HIDE DEF T
<1>2. PICK x \in T : \A y \in T : x <= y BY <1>1, NatLeast
<1>3. PICK n \in S : x = m - n BY <1>2 DEF T
<1>4. \A k \in S : k <= n
  <2> SUFFICES ASSUME NEW k \in S PROVE k <= n OBVIOUS
  <2>1. m - k \in T BY DEF T
  <2>2. m - n <= m - k BY <1>2, <1>3, <2>1
  <2> QED BY <2>2
<1>5. \A k \in S : n >= k BY <1>4
<1> QED BY <1>4, <1>5 DEF Max

LEMMA BreakFacts ==
  ASSUME NEW slot, NEW m \in Nat, \A n \in slot : n \in 1 .. m
  PROVE  /\ Piece(Break(slot))
         /\ \A x : Has(Break(slot), x) => x.kind = "null" /\ x.ts \in slot
         /\ \A n \in slot : \E x : Has(Break(slot), x) /\ x.ts >= n
<1>1. CASE slot = {} BY <1>1, NoPiece DEF Break
<1>2. CASE slot # {}
  <2>1. Max(slot) \in slot /\ \A n \in slot : n <= Max(slot) BY <1>2, Largest
  <2> DEFINE all == slot \cup {NoTime}
  <2>2. \A n \in all : n \in -1 .. m BY DEF NoTime
  <2>3. Max(all) \in all /\ \A n \in all : n <= Max(all) BY <2>2, Largest
  <2>4. Max(slot) \in all /\ Max(slot) \in 1 .. m BY <2>1
  <2>5. Max(all) # NoTime BY <2>2, <2>3, <2>4 DEF NoTime
  <2> DEFINE x == Output("null", Max(slot), 0)
  <2>6. Break(slot) = <<x>> BY <1>2, <2>5 DEF Break
  <2>7. x \in Mark /\ x.kind = "null" /\ x.ts = Max(slot) BY <2>4 DEF Output, Mark
  <2> HIDE DEF x
  <2>8. Piece(<<x>>) /\ \A y : Has(<<x>>, y) <=> y = x BY <2>7, OnePiece
  <2> QED BY <2>1, <2>6, <2>7, <2>8
<1> QED BY <1>1, <1>2

\* emitWindow: the extremes, and a break for each slot that has one.
LEMMA EmitFacts ==
  ASSUME NEW lo \in Spot, NEW hi \in Spot, lo.ts = hi.ts => lo = hi,
         NEW nulls, NEW m \in Nat, \A n \in nulls : n \in 1 .. m
  PROVE  /\ Piece(Emit(lo, hi, nulls))
         /\ \A x : Has(Emit(lo, hi, nulls), x) =>
              \/ x.kind = "point" /\ [ts |-> x.ts, val |-> x.val] \in {lo, hi}
              \/ x.kind = "null" /\ x.ts \in nulls
         /\ Has(Emit(lo, hi, nulls), Output("point", lo.ts, lo.val))
         /\ Has(Emit(lo, hi, nulls), Output("point", hi.ts, hi.val))
         /\ \A n \in nulls : n # lo.ts /\ n # hi.ts =>
              \E x : /\ HasNull(Emit(lo, hi, nulls), x) /\ x.ts >= n
                     /\ \A y : HasPoint(Emit(lo, hi, nulls), y) /\ y.ts > n => y.ts > x.ts
<1> DEFINE first == IF lo.ts < hi.ts THEN lo ELSE hi
           second == IF lo.ts < hi.ts THEN hi ELSE lo
           SA == {n \in nulls : n < first.ts}
           SC == {n \in nulls : n > first.ts /\ n < second.ts}
           SE == {n \in nulls : n > second.ts}
           A == Break(SA)
           pb == Output("point", first.ts, first.val)
           pd == Output("point", second.ts, second.val)
           B == <<pb>>
           C == Break(SC)
           D == IF first.ts < second.ts THEN <<pd>> ELSE <<>>
           E == Break(SE)
<1>1. Emit(lo, hi, nulls) = A \o B \o C \o D \o E BY DEF Emit
<1>2. /\ first \in Spot /\ second \in Spot /\ {first, second} = {lo, hi}
      /\ first.ts <= second.ts /\ (first.ts = second.ts => first = second)
  BY DEF Spot
<1>3. /\ \A p \in Spot : /\ Output("point", p.ts, p.val) \in Mark
                         /\ Output("point", p.ts, p.val).kind = "point"
                         /\ Output("point", p.ts, p.val).ts = p.ts
                         /\ [ts |-> p.ts, val |-> p.val] = p
                         /\ Output("point", p.ts, p.val).val = p.val
  BY DEF Output, Mark, Spot
<1> HIDE DEF first, second
<1>4. first.ts \in Nat /\ second.ts \in Nat BY <1>2 DEF Spot
<1>5. /\ \A n \in SA : n \in 1 .. m /\ n \in nulls /\ n < first.ts
      /\ \A n \in SC : n \in 1 .. m /\ n \in nulls /\ n > first.ts /\ n < second.ts
      /\ \A n \in SE : n \in 1 .. m /\ n \in nulls /\ n > second.ts
      /\ \A n \in nulls : n \in SA \/ n \in SC \/ n \in SE \/ n = first.ts \/ n = second.ts
  BY <1>4
<1> HIDE DEF SA, SC, SE
<1>6. /\ Piece(A) /\ \A x : Has(A, x) => x.kind = "null" /\ x.ts \in SA
      /\ \A n \in SA : \E x : Has(A, x) /\ x.ts >= n
  BY <1>5, BreakFacts
<1>7. /\ Piece(C) /\ \A x : Has(C, x) => x.kind = "null" /\ x.ts \in SC
      /\ \A n \in SC : \E x : Has(C, x) /\ x.ts >= n
  BY <1>5, BreakFacts
<1>8. /\ Piece(E) /\ \A x : Has(E, x) => x.kind = "null" /\ x.ts \in SE
      /\ \A n \in SE : \E x : Has(E, x) /\ x.ts >= n
  BY <1>5, BreakFacts
<1>9. Piece(B) /\ \A x : Has(B, x) <=> x = pb BY <1>2, <1>3, OnePiece
<1>10. Piece(D) /\ \A x : Has(D, x) <=> x = pd /\ first.ts < second.ts
  BY <1>2, <1>3, OnePiece, NoPiece
<1>11. /\ pb.kind = "point" /\ pb.ts = first.ts /\ [ts |-> pb.ts, val |-> pb.val] = first
       /\ pd.kind = "point" /\ pd.ts = second.ts /\ [ts |-> pd.ts, val |-> pd.val] = second
  BY <1>2, <1>3
<1> HIDE DEF A, B, C, D, E, pb, pd
<1> DEFINE AB == A \o B
           AC == AB \o C
           AD == AC \o D
           AE == AD \o E
<1>12. Piece(AB) /\ \A x : Has(AB, x) <=> Has(A, x) \/ Has(B, x)
  <2>1. \A x, y : Has(A, x) /\ Has(B, y) => x.ts < y.ts BY <1>5, <1>6, <1>9, <1>11
  <2> QED BY <1>6, <1>9, <2>1, JoinPieces
<1> HIDE DEF AB
<1>13. Piece(AC) /\ \A x : Has(AC, x) <=> Has(AB, x) \/ Has(C, x)
  <2>1. \A x, y : Has(AB, x) /\ Has(C, y) => x.ts < y.ts
    BY <1>4, <1>5, <1>6, <1>7, <1>9, <1>11, <1>12
  <2> QED BY <1>7, <1>12, <2>1, JoinPieces
<1> HIDE DEF AC
<1>14. Piece(AD) /\ \A x : Has(AD, x) <=> Has(AC, x) \/ Has(D, x)
  <2>1. ASSUME NEW x, NEW y, Has(AC, x), Has(D, y) PROVE x.ts < y.ts
    <3>1. y.ts = second.ts /\ first.ts < second.ts BY <1>10, <1>11, <2>1
    <3>2. CASE Has(A, x) BY <1>4, <1>5, <1>6, <3>1, <3>2
    <3>3. CASE Has(B, x) BY <1>9, <1>11, <3>1, <3>3
    <3>4. CASE Has(C, x) BY <1>5, <1>7, <3>1, <3>4
    <3> QED BY <1>12, <1>13, <2>1, <3>2, <3>3, <3>4
  <2> QED BY <1>10, <1>13, <2>1, JoinPieces
<1> HIDE DEF AD
<1>15. Piece(AE) /\ \A x : Has(AE, x) <=> Has(AD, x) \/ Has(E, x)
  <2>1. ASSUME NEW x, NEW y, Has(AD, x), Has(E, y) PROVE x.ts < y.ts
    <3>1. y.ts \in 1 .. m /\ y.ts > second.ts BY <1>5, <1>8, <2>1
    <3>2. CASE Has(A, x) BY <1>2, <1>4, <1>5, <1>6, <3>1, <3>2
    <3>3. CASE Has(B, x) BY <1>2, <1>4, <1>9, <1>11, <3>1, <3>3
    <3>4. CASE Has(C, x) BY <1>4, <1>5, <1>7, <3>1, <3>4
    <3>5. CASE Has(D, x) BY <1>10, <1>11, <3>1, <3>5
    <3> QED BY <1>12, <1>13, <1>14, <2>1, <3>2, <3>3, <3>4, <3>5
  <2> QED BY <1>8, <1>14, <2>1, JoinPieces
<1>16. Emit(lo, hi, nulls) = AE BY <1>1 DEF AB, AC, AD
<1> HIDE DEF AE
<1>17. \A x : Has(AE, x) <=> Has(A, x) \/ Has(B, x) \/ Has(C, x) \/ Has(D, x) \/ Has(E, x)
  BY <1>12, <1>13, <1>14, <1>15
<1>18. \A x : Has(AE, x) =>
         \/ x.kind = "point" /\ [ts |-> x.ts, val |-> x.val] \in {lo, hi}
         \/ x.kind = "null" /\ x.ts \in nulls
  <2> SUFFICES ASSUME NEW x, Has(AE, x)
               PROVE  \/ x.kind = "point" /\ [ts |-> x.ts, val |-> x.val] \in {lo, hi}
                      \/ x.kind = "null" /\ x.ts \in nulls
    OBVIOUS
  <2>1. CASE Has(A, x) BY <1>5, <1>6, <2>1
  <2>2. CASE Has(B, x) BY <1>2, <1>9, <1>11, <2>2
  <2>3. CASE Has(C, x) BY <1>5, <1>7, <2>3
  <2>4. CASE Has(D, x) BY <1>2, <1>10, <1>11, <2>4
  <2>5. CASE Has(E, x) BY <1>5, <1>8, <2>5
  <2> QED BY <1>17, <2>1, <2>2, <2>3, <2>4, <2>5
<1>19. Has(AE, pb) /\ Has(AE, pd)
  <2>1. Has(AE, pb) BY <1>9, <1>17
  <2>2. first.ts < second.ts => Has(AE, pd) BY <1>10, <1>17
  <2>3. first.ts = second.ts => pd = pb BY <1>2 DEF pb, pd
  <2> QED BY <1>2, <1>4, <2>1, <2>2, <2>3
<1>20. Has(AE, Output("point", lo.ts, lo.val)) /\ Has(AE, Output("point", hi.ts, hi.val))
  BY <1>19 DEF pb, pd, first, second
<1>21. \A y : HasPoint(AE, y) => y.ts = first.ts \/ y.ts = second.ts
  BY <1>6, <1>7, <1>8, <1>9, <1>10, <1>11, <1>17 DEF HasPoint
<1>22. ASSUME NEW n \in nulls, n # lo.ts, n # hi.ts
       PROVE  \E x : /\ HasNull(AE, x) /\ x.ts >= n
                     /\ \A y : HasPoint(AE, y) /\ y.ts > n => y.ts > x.ts
  <2>0. n # first.ts /\ n # second.ts BY <1>22 DEF first, second
  <2>1. CASE n \in SA
    <3>1. PICK x : Has(A, x) /\ x.ts >= n BY <1>6, <2>1
    <3>2. HasNull(AE, x) /\ x.ts < first.ts /\ x.ts \in 1 .. m BY <1>5, <1>6, <1>17, <3>1 DEF HasNull
    <3>3. \A y : HasPoint(AE, y) => y.ts > x.ts BY <1>2, <1>4, <1>21, <3>2
    <3> QED BY <3>1, <3>2, <3>3
  <2>2. CASE n \in SC
    <3>1. PICK x : Has(C, x) /\ x.ts >= n BY <1>7, <2>2
    <3>2. HasNull(AE, x) /\ x.ts < second.ts /\ x.ts \in 1 .. m BY <1>5, <1>7, <1>17, <3>1 DEF HasNull
    <3>3. n > first.ts /\ n \in 1 .. m BY <1>5, <2>2
    <3>4. \A y : HasPoint(AE, y) /\ y.ts > n => y.ts > x.ts BY <1>4, <1>21, <3>2, <3>3
    <3> QED BY <3>1, <3>2, <3>4
  <2>3. CASE n \in SE
    <3>1. PICK x : Has(E, x) /\ x.ts >= n BY <1>8, <2>3
    <3>2. HasNull(AE, x) BY <1>8, <1>17, <3>1 DEF HasNull
    <3>3. n > second.ts /\ n \in 1 .. m BY <1>5, <2>3
    <3>4. \A y : HasPoint(AE, y) => ~(y.ts > n) BY <1>2, <1>4, <1>21, <3>3
    <3> QED BY <3>1, <3>2, <3>4
  <2> QED BY <1>5, <2>0, <2>1, <2>2, <2>3
<1> QED BY <1>15, <1>16, <1>18, <1>20, <1>22

-----------------------------------------------------------------------------
(* The walk, sample by sample.                                             *)

\* The window that is open: its extremes are the worth of samples in it.
Framed(s, spec, w, i, out, win) ==
  /\ i > 0 /\ win.start \in Nat /\ win.lo \in Spot /\ win.hi \in Spot
  /\ \A p \in {win.lo, win.hi} : /\ p.ts >= win.start /\ p.ts <= win.start + w
                                /\ p.ts <= s[i].ts
                                /\ \E j \in 1 .. i : IsWorth(s, spec, j, p)
  /\ win.lo.val <= win.hi.val /\ (win.lo.ts = win.hi.ts => win.lo = win.hi)
  /\ \A x : Has(out, x) => x.ts < win.start

\* A break that waits lies between two instants, and after all that was emitted.
Late(s, g, out, n) ==
  /\ n \in Nat /\ n >= 1
  /\ \E j \in 2 .. g : s[j - 1].ts < n /\ n = s[j].ts - 1
  /\ \A x : Has(out, x) => x.ts < n

InWindow(win, w, p) ==
  /\ win.open /\ p.ts >= win.start /\ p.ts <= win.start + w
  /\ win.lo.val <= p.val /\ p.val <= win.hi.val

\* The walk has taken i samples and looked for gaps up to the one at g.
Loaded(s, spec, w, i, g, a) ==
  /\ a = [out |-> a.out, last |-> a.last, seeded |-> a.seeded, raw |-> a.raw, win |-> a.win]
  /\ a.win = [open |-> a.win.open, start |-> a.win.start, lo |-> a.win.lo, hi |-> a.win.hi,
              nulls |-> a.win.nulls]
  /\ Piece(a.out)
  /\ ~a.win.open => a.out = <<>> /\ \A j \in 1 .. i : \A p : ~IsWorth(s, spec, j, p)
  /\ a.win.open => Framed(s, spec, w, i, a.out, a.win)
  /\ \A n \in a.win.nulls : Late(s, g, a.out, n)
  /\ AllWorth(s, spec, i, a.out)
  /\ \A j \in 1 .. i : \A p : IsWorth(s, spec, j, p) => InWindow(a.win, w, p) \/ Covers(a.out, w, p)
  /\ \A j \in 2 .. g : Missed(s, spec, j) => s[j].ts - 1 \in a.win.nulls \/ Shown(a.out, s, j)

\* What it remembers of the last instant.
Remembers(s, i, a) ==
  /\ i = 0 => a = Walk
  /\ i > 0 => /\ a.last = s[i].ts /\ a.seeded = TRUE
              /\ \E h \in 1 .. i : First(s, h) /\ s[h].ts = s[i].ts /\ a.raw = s[h].val

Walking(s, spec, w, i, a) == Remembers(s, i, a) /\ Loaded(s, spec, w, i, i, a)

\* An instant has one first sample.
LEMMA OneFirst ==
  ASSUME NEW s, Sampled(s), NEW g \in 1 .. Len(s), NEW h \in 1 .. Len(s),
         First(s, g), First(s, h), s[g].ts = s[h].ts
  PROVE  g = h
<1>0. Len(s) \in Nat BY DEF Sampled
<1>1. ASSUME NEW a \in 1 .. Len(s), NEW b \in 1 .. Len(s), a < b, First(s, b), s[a].ts = s[b].ts
      PROVE  FALSE
  <2>1. b - 1 \in 1 .. Len(s) /\ a <= b - 1 /\ b - 1 <= b BY <1>0, <1>1
  <2>2. s[a].ts <= s[b - 1].ts /\ s[b - 1].ts <= s[b].ts BY <2>1 DEF Sampled
  <2>3. s[a].ts \in Nat /\ s[b - 1].ts \in Nat /\ s[b].ts \in Nat BY <2>1 DEF Sampled
  <2>4. s[b - 1].ts = s[b].ts BY <1>1, <2>2, <2>3
  <2>5. b # 1 BY <1>0, <1>1
  <2> QED BY <1>1, <2>4, <2>5 DEF First
<1> QED BY <1>0, <1>1

LEMMA DrawnInt ==
  ASSUME NEW spec, SpecOK(spec), NEW raw \in Int, NEW prev \in Int, NEW elapsed \in Int
  PROVE  Drawn(spec, raw, prev, elapsed) \in Int
<1>0. Scale \in Int BY RenderAssumption
<1> DEFINE diff == IF spec.delta THEN raw - prev ELSE raw
           neg == IF spec.negate THEN -diff ELSE diff
           val == Clamped(spec, neg, raw)
<1>1. neg \in Int OBVIOUS
<1> HIDE DEF neg
<1>2. spec.min \in Int /\ spec.max \in Int BY DEF SpecOK
<1>3. val \in Int BY <1>1, <1>2 DEF Clamped
<1>4. Drawn(spec, raw, prev, elapsed) = IF spec.rate /\ elapsed > 0 THEN (val * Scale) \div elapsed ELSE val
  BY DEF Drawn, neg
<1> HIDE DEF val
<1>5. val * Scale \in Int BY <1>0, <1>3
<1> DEFINE m == val * Scale
<1> HIDE DEF m
<1>6. m \in Int BY <1>5 DEF m
<1>7. elapsed > 0 => m \div elapsed \in Int BY <1>6
<1> QED BY <1>3, <1>4, <1>7 DEF m

\* A sample's worth is a spot at the time of the sample.
LEMMA WorthFacts ==
  ASSUME NEW s, Sampled(s), NEW spec, SpecOK(spec), NEW j \in 1 .. Len(s), NEW p,
         IsWorth(s, spec, j, p)
  PROVE  p \in Spot /\ p.ts = s[j].ts
<1>0. Len(s) \in Nat /\ 1 \in 1 .. Len(s) BY DEF Sampled
<1>1. \A k \in 1 .. Len(s) : s[k].ts \in Nat /\ s[k].val \in Int BY DEF Sampled
<1>2. CASE j = 1 /\ p = [ts |-> s[1].ts, val |-> Drawn(spec, s[1].val, 0, 0)]
  <2>1. Drawn(spec, s[1].val, 0, 0) \in Int BY <1>0, <1>1, DrawnInt
  <2> QED BY <1>0, <1>1, <1>2, <2>1 DEF Spot
<1>3. ASSUME NEW h \in 1 .. j - 1,
             p = [ts |-> s[j].ts, val |-> Drawn(spec, s[j].val, s[h].val, s[j].ts - s[h].ts)]
      PROVE  p \in Spot /\ p.ts = s[j].ts
  <2>1. h \in 1 .. Len(s) BY <1>0
  <2>2. s[j].ts - s[h].ts \in Int /\ s[j].val \in Int /\ s[h].val \in Int BY <1>1, <2>1
  <2>3. Drawn(spec, s[j].val, s[h].val, s[j].ts - s[h].ts) \in Int BY <2>2, DrawnInt
  <2> QED BY <1>1, <1>3, <2>3 DEF Spot
<1> QED BY <1>2, <1>3 DEF IsWorth

\* A break that waits is not at the time of a sample.
LEMMA LateFacts ==
  ASSUME NEW s, Sampled(s), NEW g \in 0 .. Len(s), NEW out, NEW n, Late(s, g, out, n),
         NEW k \in 1 .. Len(s)
  PROVE  n # s[k].ts /\ (g > 0 => n < s[g].ts)
<1>0. Len(s) \in Nat BY DEF Sampled
<1>1. \A i \in 1 .. Len(s) : s[i].ts \in Nat BY DEF Sampled
<1>2. \A a, b \in 1 .. Len(s) : a <= b => s[a].ts <= s[b].ts BY DEF Sampled
<1>3. PICK j \in 2 .. g : s[j - 1].ts < n /\ n = s[j].ts - 1 BY DEF Late
<1>4. j \in 1 .. Len(s) /\ j - 1 \in 1 .. Len(s) /\ g \in 1 .. Len(s) /\ j <= g BY <1>0, <1>3
<1>5. k <= j - 1 \/ j <= k BY <1>4
<1>6. s[k].ts <= s[j - 1].ts \/ s[j].ts <= s[k].ts BY <1>2, <1>4, <1>5
<1>7. n # s[k].ts BY <1>1, <1>3, <1>4, <1>6
<1>8. n < s[g].ts BY <1>1, <1>2, <1>3, <1>4
<1> QED BY <1>7, <1>8

\* A window is emitted: what waited in it is drawn.
LEMMA EmitLoaded ==
  ASSUME NEW s, Sampled(s), NEW spec, SpecOK(spec), NEW w \in Nat, NEW i \in 0 .. Len(s),
         NEW g \in 0 .. Len(s), NEW a, Loaded(s, spec, w, i, g, a), a.win.open
  PROVE  /\ Honest(s, spec, w, i, g, a.out \o Emit(a.win.lo, a.win.hi, a.win.nulls))
         /\ \A x : Has(a.out \o Emit(a.win.lo, a.win.hi, a.win.nulls), x) =>
              x.ts <= s[i].ts \/ (g > 0 /\ x.ts < s[g].ts)
<1> DEFINE lo == a.win.lo
           hi == a.win.hi
           N == a.win.nulls
           out == a.out
           start == a.win.start
           em == Emit(lo, hi, N)
           o == out \o em
<1>0. Len(s) \in Nat /\ \A k \in 1 .. Len(s) : s[k].ts \in Nat BY DEF Sampled
<1>1. Framed(s, spec, w, i, out, a.win) /\ Piece(out) BY DEF Loaded
<1>2. /\ i \in 1 .. Len(s) /\ start \in Nat /\ lo \in Spot /\ hi \in Spot
      /\ lo.val <= hi.val /\ (lo.ts = hi.ts => lo = hi)
      /\ \A x : Has(out, x) => x.ts < start
  BY <1>0, <1>1 DEF Framed
<1>3. \A p \in {lo, hi} : /\ p.ts >= start /\ p.ts <= start + w /\ p.ts <= s[i].ts
                          /\ \E j \in 1 .. i : IsWorth(s, spec, j, p)
  BY <1>1 DEF Framed
<1>4. \A n \in N : Late(s, g, out, n) BY DEF Loaded
<1>5. /\ AllWorth(s, spec, i, out)
      /\ \A j \in 1 .. i : \A p : IsWorth(s, spec, j, p) => InWindow(a.win, w, p) \/ Covers(out, w, p)
      /\ \A j \in 2 .. g : Missed(s, spec, j) => s[j].ts - 1 \in N \/ Shown(out, s, j)
  BY DEF Loaded
<1>6. \A p : InWindow(a.win, w, p) =>
        p.ts >= start /\ p.ts <= start + w /\ lo.val <= p.val /\ p.val <= hi.val
  BY DEF InWindow
<1>7. /\ lo.ts \in Nat /\ lo.val \in Int /\ hi.ts \in Nat /\ hi.val \in Int
  BY <1>2 DEF Spot
<1> HIDE DEF lo, hi, N, out, start
<1>8. \A n \in N : n \in 1 .. s[i].ts + (IF g > 0 THEN s[g].ts ELSE 0)
  <2> SUFFICES ASSUME NEW n \in N PROVE n \in 1 .. s[i].ts + (IF g > 0 THEN s[g].ts ELSE 0) OBVIOUS
  <2>1. n \in Nat /\ n >= 1 /\ g > 0 BY <1>4 DEF Late
  <2>2. n < s[g].ts BY <1>2, <1>4, <2>1, LateFacts
  <2> QED BY <1>0, <1>2, <2>1, <2>2
<1> DEFINE m == s[i].ts + (IF g > 0 THEN s[g].ts ELSE 0)
<1>9. m \in Nat BY <1>0, <1>2
<1> HIDE DEF m
<1>10. \A n \in N : n \in 1 .. m BY <1>8 DEF m
<1>11. /\ Piece(em)
       /\ \A x : Has(em, x) =>
            \/ x.kind = "point" /\ [ts |-> x.ts, val |-> x.val] \in {lo, hi}
            \/ x.kind = "null" /\ x.ts \in N
       /\ Has(em, Output("point", lo.ts, lo.val)) /\ Has(em, Output("point", hi.ts, hi.val))
       /\ \A n \in N : n # lo.ts /\ n # hi.ts =>
            \E x : /\ HasNull(em, x) /\ x.ts >= n
                   /\ \A y : HasPoint(em, y) /\ y.ts > n => y.ts > x.ts
  BY <1>2, <1>9, <1>10, EmitFacts
<1> HIDE DEF em
<1>12. \A x : Has(em, x) /\ [ts |-> x.ts, val |-> x.val] \in {lo, hi} => x.ts \in {lo.ts, hi.ts}
  OBVIOUS
<1>13. \A x : Has(em, x) => \/ x.ts \in {lo.ts, hi.ts}
                            \/ x.ts \in N
  BY <1>11, <1>12
<1>14. \A x, y : Has(out, x) /\ Has(em, y) => x.ts < y.ts
  <2> SUFFICES ASSUME NEW x, NEW y, Has(out, x), Has(em, y) PROVE x.ts < y.ts OBVIOUS
  <2>0. x.ts \in Nat BY <1>1, PieceTimes DEF out
  <2>1. CASE y.ts \in N BY <1>4, <2>1 DEF Late
  <2>2. CASE y.ts \in {lo.ts, hi.ts} BY <1>2, <1>3, <1>7, <2>0, <2>2
  <2> QED BY <1>13, <2>1, <2>2
<1>15. Piece(o) /\ \A x : Has(o, x) <=> Has(out, x) \/ Has(em, x)
  BY <1>1, <1>11, <1>14, JoinPieces DEF out
<1> HIDE DEF o
<1>16. AllWorth(s, spec, i, o)
  <2> SUFFICES ASSUME NEW x, HasPoint(o, x)
               PROVE  \E j \in 1 .. i : IsWorth(s, spec, j, [ts |-> x.ts, val |-> x.val])
    BY DEF AllWorth
  <2>1. CASE Has(out, x) BY <1>5, <2>1 DEF AllWorth, HasPoint
  <2>2. CASE Has(em, x)
    <3>1. [ts |-> x.ts, val |-> x.val] \in {lo, hi} BY <1>11, <2>2 DEF HasPoint
    <3> QED BY <1>3, <3>1
  <2> QED BY <1>15, <2>1, <2>2 DEF HasPoint
<1> DEFINE pl == Output("point", lo.ts, lo.val)
           ph == Output("point", hi.ts, hi.val)
<1>17. /\ HasPoint(o, pl) /\ pl.ts = lo.ts /\ pl.val = lo.val
       /\ HasPoint(o, ph) /\ ph.ts = hi.ts /\ ph.val = hi.val
  BY <1>11, <1>15 DEF HasPoint, Output
<1> HIDE DEF pl, ph
<1>18. ASSUME NEW j \in 1 .. i, NEW p, IsWorth(s, spec, j, p) PROVE Covers(o, w, p)
  <2>0. p.ts \in Nat /\ p.val \in Int
    <3>1. j \in 1 .. Len(s) BY <1>0, <1>2
    <3>2. p \in Spot BY <1>18, <3>1, WorthFacts
    <3> QED BY <3>2 DEF Spot
  <2>1. CASE InWindow(a.win, w, p)
    <3>1. p.ts >= start /\ p.ts <= start + w /\ lo.val <= p.val /\ p.val <= hi.val BY <1>6, <2>1
    <3>2. pl.ts \in p.ts - w .. p.ts + w /\ ph.ts \in p.ts - w .. p.ts + w
      <4>1. start \in Nat /\ lo.ts \in Nat /\ hi.ts \in Nat BY <1>2, <1>7
      <4>2. lo.ts >= start /\ lo.ts <= start + w BY <1>3
      <4>3. hi.ts >= start /\ hi.ts <= start + w BY <1>3
      <4>4. lo.ts \in p.ts - w .. p.ts + w BY <2>0, <3>1, <4>1, <4>2, NoFurther
      <4>5. hi.ts \in p.ts - w .. p.ts + w BY <2>0, <3>1, <4>1, <4>3, NoFurther
      <4> QED BY <1>17, <4>4, <4>5
    <3>3. pl.val <= p.val /\ ph.val >= p.val BY <1>7, <1>17, <2>0, <3>1
    <3> QED BY <1>17, <3>2, <3>3 DEF Covers
  <2>2. CASE Covers(out, w, p)
    <3>1. \A x : HasPoint(out, x) => HasPoint(o, x) BY <1>15 DEF HasPoint
    <3> QED BY <2>2, <3>1 DEF Covers
  <2> QED BY <1>5, <1>18, <2>1, <2>2
<1>19. ASSUME NEW j \in 2 .. g, Missed(s, spec, j) PROVE Shown(o, s, j)
  <2>0. j \in 1 .. Len(s) /\ s[j].ts \in Nat BY <1>0
  <2>1. CASE s[j].ts - 1 \in N
    <3> DEFINE n == s[j].ts - 1
    <3>1. n \in N /\ Late(s, g, out, n) BY <1>4, <2>1
    <3>2. n # lo.ts /\ n # hi.ts
      <4>1. ASSUME NEW p \in {lo, hi} PROVE n # p.ts
        <5>1. PICK k \in 1 .. i : IsWorth(s, spec, k, p) BY <1>3, <4>1
        <5>2. k \in 1 .. Len(s) BY <1>0, <1>2
        <5>3. p.ts = s[k].ts BY <5>1, <5>2, WorthFacts
        <5>4. n # s[k].ts BY <3>1, <5>2, LateFacts
        <5> QED BY <5>3, <5>4
      <4> QED BY <4>1
    <3>3. PICK x : /\ HasNull(em, x) /\ x.ts >= n
                   /\ \A y : HasPoint(em, y) /\ y.ts > n => y.ts > x.ts
      BY <1>11, <3>1, <3>2
    <3>4. HasNull(o, x) /\ x.ts >= s[j].ts - 1 BY <1>15, <3>3 DEF HasNull
    <3>5. ASSUME NEW y, HasPoint(o, y), y.ts >= s[j].ts PROVE y.ts > x.ts
      <4>0. y.ts \in Nat BY <1>15, <3>5, PieceTimes DEF HasPoint
      <4>1. CASE Has(out, y)
        <5>1. y.ts < s[j].ts - 1 BY <3>1, <4>1 DEF Late
        <5> QED BY <2>0, <3>5, <4>0, <5>1
      <4>2. CASE Has(em, y)
        <5>1. HasPoint(em, y) /\ y.ts > n BY <2>0, <3>5, <4>0, <4>2 DEF HasPoint
        <5> QED BY <3>3, <5>1
      <4> QED BY <1>15, <3>5, <4>1, <4>2 DEF HasPoint
    <3> QED BY <3>4, <3>5 DEF Shown
  <2>2. CASE Shown(out, s, j)
    <3>1. PICK n : /\ HasNull(out, n) /\ n.ts >= s[j].ts - 1
                   /\ \A y : HasPoint(out, y) /\ y.ts >= s[j].ts => y.ts > n.ts
      BY <2>2 DEF Shown
    <3>2. HasNull(o, n) BY <1>15, <3>1 DEF HasNull
    <3>3. ASSUME NEW y, HasPoint(o, y), y.ts >= s[j].ts PROVE y.ts > n.ts
      <4>0. y.ts \in Nat /\ n.ts \in Nat
        BY <1>15, <3>2, <3>3, PieceTimes DEF HasPoint, HasNull
      <4>1. CASE Has(out, y) BY <3>1, <3>3, <4>1 DEF HasPoint
      <4>2. CASE Has(em, y) BY <1>14, <3>1, <4>0, <4>2 DEF HasNull
      <4> QED BY <1>15, <3>3, <4>1, <4>2 DEF HasPoint
    <3> QED BY <3>1, <3>2, <3>3 DEF Shown
  <2> QED BY <1>5, <1>19, <2>1, <2>2
<1>20. ASSUME NEW x, Has(o, x) PROVE x.ts <= s[i].ts \/ (g > 0 /\ x.ts < s[g].ts)
  <2>0. x.ts \in Nat /\ s[i].ts \in Nat BY <1>0, <1>2, <1>15, <1>20, PieceTimes
  <2>1. CASE Has(out, x)
    <3>1. x.ts < start /\ start \in Nat BY <1>2, <2>1
    <3>2. lo.ts >= start /\ lo.ts <= s[i].ts /\ lo.ts \in Nat BY <1>3, <1>7
    <3>3. x.ts < s[i].ts BY <2>0, <3>1, <3>2, Between
    <3> QED BY <2>0, <3>3
  <2>2. CASE x.ts \in {lo.ts, hi.ts} BY <1>3, <2>2
  <2>3. CASE x.ts \in N
    <3>1. Late(s, g, out, x.ts) BY <1>4, <2>3
    <3>2. g > 0 BY <3>1 DEF Late
    <3> QED BY <1>2, <3>1, <3>2, LateFacts
  <2> QED BY <1>13, <1>15, <1>20, <2>1, <2>2, <2>3
<1>21. Honest(s, spec, w, i, g, o) BY <1>15, <1>16, <1>18, <1>19 DEF Honest
<1> QED BY <1>20, <1>21 DEF o, em, out, lo, hi, N

\* t is a walk with this output and this window, the rest as in a.
Moved(a, t, out, win) ==
  t = [out |-> out, last |-> a.last, seeded |-> a.seeded, raw |-> a.raw, win |-> win]

WorthIs(s, spec, j, q) == \A p : IsWorth(s, spec, j, p) <=> p = q

\* Stages 8 to 10 take a sample that is worth q.
LEMMA AccumulateLoaded ==
  ASSUME NEW s, Sampled(s), NEW spec, SpecOK(spec), NEW w \in Nat, NEW i \in Nat, i + 1 <= Len(s),
         NEW b, Loaded(s, spec, w, i, i + 1, b), NEW q, q.ts = s[i + 1].ts,
         WorthIs(s, spec, i + 1, q), i > 0 => s[i].ts < s[i + 1].ts
  PROVE  /\ Loaded(s, spec, w, i + 1, i + 1, Accumulate(b, w, q))
         /\ Accumulate(b, w, q).last = b.last /\ Accumulate(b, w, q).seeded = b.seeded
         /\ Accumulate(b, w, q).raw = b.raw
<1> DEFINE k == i + 1
           win == b.win
           t == Accumulate(b, w, q)
           fresh == [open |-> TRUE, start |-> q.ts, lo |-> q, hi |-> q, nulls |-> {}]
<1>0. Len(s) \in Nat /\ k \in 1 .. Len(s) /\ i \in 0 .. Len(s) /\ k \in 0 .. Len(s) BY DEF Sampled
<1>1. /\ \A j \in 1 .. Len(s) : s[j].ts \in Nat BY DEF Sampled
<1>2. IsWorth(s, spec, k, q) /\ q \in Spot /\ q.ts \in Nat /\ q.val \in Int /\ q.ts = s[k].ts
  <2>1. IsWorth(s, spec, k, q) BY DEF WorthIs
  <2>2. q \in Spot BY <1>0, <2>1, WorthFacts
  <2> QED BY <2>1, <2>2 DEF Spot
<1>3. /\ b = [out |-> b.out, last |-> b.last, seeded |-> b.seeded, raw |-> b.raw, win |-> b.win]
      /\ win = [open |-> win.open, start |-> win.start, lo |-> win.lo, hi |-> win.hi,
                nulls |-> win.nulls]
      /\ Piece(b.out)
  BY DEF Loaded
<1>4. \A j : j \in 1 .. k <=> j \in 1 .. i \/ j = k OBVIOUS
<1>5. \A p : IsWorth(s, spec, k, p) => p = q BY DEF WorthIs
<1>6. \A o : AllWorth(s, spec, i, o) => AllWorth(s, spec, k, o)
  BY <1>4 DEF AllWorth
<1>7. CASE ~win.open
  <2> DEFINE new == [open |-> TRUE, start |-> q.ts, lo |-> q, hi |-> q, nulls |-> win.nulls]
  <2>1. t = [b EXCEPT !.win = new] BY <1>7 DEF Accumulate
  <2>2. /\ new.open = TRUE /\ new.start = q.ts /\ new.lo = q /\ new.hi = q /\ new.nulls = win.nulls
        /\ new = [open |-> new.open, start |-> new.start, lo |-> new.lo, hi |-> new.hi,
                  nulls |-> new.nulls]
    OBVIOUS
  <2> HIDE DEF new, t
  <2>3. Moved(b, t, b.out, new) BY <1>3, <2>1 DEF Moved
  <2>4. t.out = b.out /\ t.win = new BY <2>3 DEF Moved
  <2>5. b.out = <<>> /\ \A j \in 1 .. i : \A p : ~IsWorth(s, spec, j, p) BY <1>7 DEF Loaded
  <2>6. \A x : ~Has(t.out, x) BY <2>4, <2>5, NoPiece
  <2>7. Framed(s, spec, w, k, t.out, t.win)
    <3>1. \A p \in {q} : /\ p.ts >= q.ts /\ p.ts <= q.ts + w /\ p.ts <= s[k].ts
                         /\ \E j \in 1 .. k : IsWorth(s, spec, j, p)
      BY <1>2, <1>4
    <3>2. k > 0 /\ q.val <= q.val BY <1>2
    <3> QED BY <1>2, <2>2, <2>4, <2>6, <3>1, <3>2 DEF Framed
  <2>8. \A n \in t.win.nulls : Late(s, k, t.out, n) BY <2>2, <2>4 DEF Loaded
  <2>9. AllWorth(s, spec, k, t.out) BY <2>6 DEF AllWorth, HasPoint
  <2>10. ASSUME NEW j \in 1 .. k, NEW p, IsWorth(s, spec, j, p)
         PROVE  InWindow(t.win, w, p) \/ Covers(t.out, w, p)
    <3>1. p = q BY <1>4, <1>5, <2>5, <2>10
    <3>2. q.ts >= q.ts /\ q.ts <= q.ts + w /\ q.val <= q.val BY <1>2
    <3> QED BY <2>2, <2>4, <3>1, <3>2 DEF InWindow
  <2>11. \A j \in 2 .. k : Missed(s, spec, j) => s[j].ts - 1 \in t.win.nulls \/ Shown(t.out, s, j)
    BY <2>2, <2>4 DEF Loaded
  <2>12. /\ t = [out |-> t.out, last |-> t.last, seeded |-> t.seeded, raw |-> t.raw, win |-> t.win]
         /\ t.last = b.last /\ t.seeded = b.seeded /\ t.raw = b.raw
    BY <2>3 DEF Moved
  <2>13. Loaded(s, spec, w, k, k, t)
    BY <1>3, <2>2, <2>4, <2>7, <2>8, <2>9, <2>10, <2>11, <2>12 DEF Loaded
  <2> QED BY <2>12, <2>13 DEF t
<1>8. CASE win.open /\ q.ts - win.start > w
  <2> DEFINE o == b.out \o Emit(win.lo, win.hi, win.nulls)
  <2>1. t = [b EXCEPT !.out = o, !.win = fresh] BY <1>8 DEF Accumulate
  <2>2. /\ Honest(s, spec, w, i, k, o)
        /\ \A x : Has(o, x) => x.ts <= s[i].ts \/ (k > 0 /\ x.ts < s[k].ts)
    BY <1>0, <1>8, EmitLoaded
  <2>3. /\ fresh.open = TRUE /\ fresh.start = q.ts /\ fresh.lo = q /\ fresh.hi = q /\ fresh.nulls = {}
        /\ fresh = [open |-> fresh.open, start |-> fresh.start, lo |-> fresh.lo, hi |-> fresh.hi,
                    nulls |-> fresh.nulls]
    OBVIOUS
  <2> HIDE DEF fresh, t, o
  <2>4. Moved(b, t, o, fresh) BY <1>3, <2>1 DEF Moved
  <2>5. /\ t = [out |-> t.out, last |-> t.last, seeded |-> t.seeded, raw |-> t.raw, win |-> t.win]
        /\ t.last = b.last /\ t.seeded = b.seeded /\ t.raw = b.raw /\ t.out = o /\ t.win = fresh
    BY <2>4 DEF Moved
  <2>6. i > 0 /\ i \in 1 .. Len(s) BY <1>0, <1>8 DEF Loaded, Framed
  <2>7. ASSUME NEW x, Has(o, x) PROVE x.ts < q.ts
    <3>1. x.ts \in Nat BY <2>2, <2>7, PieceTimes DEF Honest
    <3> QED BY <1>0, <1>1, <1>2, <2>2, <2>6, <2>7, <3>1
  <2>8. Framed(s, spec, w, k, t.out, t.win)
    <3>1. \A p \in {q} : /\ p.ts >= q.ts /\ p.ts <= q.ts + w /\ p.ts <= s[k].ts
                         /\ \E j \in 1 .. k : IsWorth(s, spec, j, p)
      BY <1>2, <1>4
    <3>2. k > 0 /\ q.val <= q.val BY <1>2
    <3> QED BY <1>2, <2>3, <2>5, <2>7, <3>1, <3>2 DEF Framed
  <2>9. AllWorth(s, spec, k, t.out) BY <1>6, <2>2, <2>5 DEF Honest
  <2>10. ASSUME NEW j \in 1 .. k, NEW p, IsWorth(s, spec, j, p)
         PROVE  InWindow(t.win, w, p) \/ Covers(t.out, w, p)
    <3>1. CASE j \in 1 .. i BY <2>2, <2>5, <2>10, <3>1 DEF Honest
    <3>2. CASE j = k
      <4>1. p = q BY <1>5, <2>10, <3>2
      <4>2. q.ts >= q.ts /\ q.ts <= q.ts + w /\ q.val <= q.val BY <1>2
      <4> QED BY <2>3, <2>5, <4>1, <4>2 DEF InWindow
    <3> QED BY <1>4, <3>1, <3>2
  <2>11. \A j \in 2 .. k : Missed(s, spec, j) => Shown(t.out, s, j) BY <2>2, <2>5 DEF Honest
  <2>12. Piece(t.out) BY <2>2, <2>5 DEF Honest
  <2>13. Loaded(s, spec, w, k, k, t)
    BY <2>3, <2>5, <2>8, <2>9, <2>10, <2>11, <2>12 DEF Loaded
  <2> QED BY <2>5, <2>13 DEF t
<1>9. CASE win.open /\ ~(q.ts - win.start > w)
  <2> DEFINE lo == IF q.val < win.lo.val THEN q ELSE win.lo
             hi == IF q.val > win.hi.val THEN q ELSE win.hi
             new == [open |-> win.open, start |-> win.start, lo |-> lo, hi |-> hi,
                     nulls |-> win.nulls]
  <2>1. t = [b EXCEPT !.win.lo = lo, !.win.hi = hi] BY <1>9 DEF Accumulate
  <2>2. Framed(s, spec, w, i, b.out, win) BY <1>9 DEF Loaded
  <2>3. /\ i > 0 /\ i \in 1 .. Len(s) /\ win.start \in Nat /\ win.lo \in Spot /\ win.hi \in Spot
        /\ win.lo.val <= win.hi.val /\ (win.lo.ts = win.hi.ts => win.lo = win.hi)
        /\ \A x : Has(b.out, x) => x.ts < win.start
    BY <1>0, <2>2 DEF Framed
  <2>4. \A p \in {win.lo, win.hi} : /\ p.ts >= win.start /\ p.ts <= win.start + w /\ p.ts <= s[i].ts
                                    /\ \E j \in 1 .. i : IsWorth(s, spec, j, p)
    BY <2>2 DEF Framed
  <2>5. /\ win.lo.ts \in Nat /\ win.lo.val \in Int /\ win.hi.ts \in Nat /\ win.hi.val \in Int
        /\ s[i].ts \in Nat /\ s[i].ts < q.ts
    BY <1>1, <1>2, <2>3 DEF Spot
  <2>6. /\ lo \in {q, win.lo} /\ hi \in {q, win.hi} /\ lo.val <= q.val /\ lo.val <= win.lo.val
        /\ hi.val >= q.val /\ hi.val >= win.hi.val /\ ~(lo = q /\ hi = q /\ lo # win.lo /\ hi # win.hi)
    <3>1. q.val \in Int /\ win.lo.val \in Int /\ win.hi.val \in Int /\ win.lo.val <= win.hi.val
      BY <1>2, <2>3, <2>5 DEF Spot
    <3>2. lo \in {q, win.lo} /\ lo.val <= q.val /\ lo.val <= win.lo.val BY <3>1
    <3>3. hi \in {q, win.hi} /\ hi.val >= q.val /\ hi.val >= win.hi.val BY <3>1
    <3>4. ~(lo = q /\ hi = q /\ lo # win.lo /\ hi # win.hi) BY <3>1
    <3> QED BY <3>2, <3>3, <3>4
  <2>7. /\ lo \in Spot /\ hi \in Spot /\ lo.val <= hi.val /\ (lo.ts = hi.ts => lo = hi)
    BY <1>2, <2>3, <2>4, <2>5, <2>6
  <2>0. q.ts >= win.start /\ q.ts <= win.start + w
    <3>1. win.lo.ts >= win.start /\ win.lo.ts <= s[i].ts BY <2>4
    <3> DEFINE start == win.start
               low == win.lo.ts
    <3>2. /\ start \in Nat /\ low \in Nat /\ low >= start /\ low <= s[i].ts /\ s[i].ts < q.ts
          /\ s[i].ts \in Nat /\ ~(q.ts - start > w)
      BY <1>9, <2>3, <2>5, <3>1
    <3> HIDE DEF start, low
    <3>3. q.ts >= start /\ q.ts <= start + w BY <1>2, <3>2
    <3> QED BY <3>3 DEF start
  <2>8. \A p \in {lo, hi} : /\ p.ts >= win.start /\ p.ts <= win.start + w /\ p.ts <= s[k].ts
                            /\ \E j \in 1 .. k : IsWorth(s, spec, j, p)
    <3>1. /\ q.ts >= win.start /\ q.ts <= win.start + w /\ q.ts <= s[k].ts BY <1>2, <2>0
    <3>2. ASSUME NEW p \in {win.lo, win.hi}
          PROVE  /\ p.ts >= win.start /\ p.ts <= win.start + w /\ p.ts <= s[k].ts
                 /\ \E j \in 1 .. k : IsWorth(s, spec, j, p)
      <4>1. p.ts >= win.start /\ p.ts <= win.start + w /\ p.ts <= s[i].ts BY <2>4
      <4>2. p.ts \in Nat BY <2>5
      <4>3. p.ts <= s[k].ts BY <1>2, <2>5, <4>1, <4>2
      <4>4. \E j \in 1 .. i : IsWorth(s, spec, j, p) BY <2>4
      <4> QED BY <1>4, <4>1, <4>3, <4>4
    <3>3. \E j \in 1 .. k : IsWorth(s, spec, j, q) BY <1>2, <1>4
    <3> QED BY <2>6, <3>1, <3>2, <3>3
  <2>9. /\ new.open = win.open /\ new.start = win.start /\ new.lo = lo /\ new.hi = hi
        /\ new.nulls = win.nulls
        /\ new = [open |-> new.open, start |-> new.start, lo |-> new.lo, hi |-> new.hi,
                  nulls |-> new.nulls]
    OBVIOUS
  <2> HIDE DEF lo, hi, t
  <2>10. Moved(b, t, b.out, new)
    <3> DEFINE v == [win EXCEPT !.lo = lo]
               u == [v EXCEPT !.hi = hi]
    <3>0. t = [b EXCEPT !.win = u] BY <1>3, <2>1
    <3>1. v = [open |-> win.open, start |-> win.start, lo |-> lo, hi |-> win.hi, nulls |-> win.nulls]
      <4> HIDE DEF win
      <4> QED BY <1>3
    <3> HIDE DEF v
    <3>2. u = new BY <3>1
    <3> HIDE DEF u, new
    <3>3. t = [b EXCEPT !.win = new] BY <3>0, <3>2
    <3> QED BY <1>3, <3>3 DEF Moved
  <2> HIDE DEF new
  <2>11. /\ t = [out |-> t.out, last |-> t.last, seeded |-> t.seeded, raw |-> t.raw, win |-> t.win]
         /\ t.last = b.last /\ t.seeded = b.seeded /\ t.raw = b.raw /\ t.out = b.out /\ t.win = new
    BY <2>10 DEF Moved
  <2>12. Framed(s, spec, w, k, t.out, t.win) BY <2>3, <2>7, <2>8, <2>9, <2>11 DEF Framed
  <2>13. \A n \in t.win.nulls : Late(s, k, t.out, n) BY <2>9, <2>11 DEF Loaded
  <2>14. AllWorth(s, spec, k, t.out) BY <1>6, <2>11 DEF Loaded
  <2>15. ASSUME NEW j \in 1 .. k, NEW p, IsWorth(s, spec, j, p)
         PROVE  InWindow(t.win, w, p) \/ Covers(t.out, w, p)
    <3>0. p.val \in Int
      <4>1. j \in 1 .. Len(s) BY <1>0
      <4>2. p \in Spot BY <2>15, <4>1, WorthFacts
      <4> QED BY <4>2 DEF Spot
    <3>1. CASE j = k
      <4>1. p = q BY <1>5, <2>15, <3>1
      <4> QED BY <1>2, <1>9, <2>0, <2>6, <2>9, <2>11, <4>1 DEF InWindow
    <3>2. CASE j \in 1 .. i /\ Covers(b.out, w, p) BY <2>11, <3>2
    <3>3. CASE j \in 1 .. i /\ InWindow(win, w, p)
      <4>1. /\ p.ts >= win.start /\ p.ts <= win.start + w /\ win.lo.val <= p.val /\ p.val <= win.hi.val
        BY <3>3 DEF InWindow
      <4>2. lo.val \in Int /\ hi.val \in Int BY <2>7 DEF Spot
      <4>3. lo.val <= p.val /\ p.val <= hi.val BY <2>5, <2>6, <3>0, <4>1, <4>2
      <4> QED BY <1>9, <2>9, <2>11, <4>1, <4>3 DEF InWindow
    <3>4. j \in 1 .. i => InWindow(win, w, p) \/ Covers(b.out, w, p) BY <2>15 DEF Loaded
    <3> QED BY <1>4, <3>1, <3>2, <3>3, <3>4
  <2>16. \A j \in 2 .. k : Missed(s, spec, j) => s[j].ts - 1 \in t.win.nulls \/ Shown(t.out, s, j)
    BY <2>9, <2>11 DEF Loaded
  <2>17. Loaded(s, spec, w, k, k, t)
    BY <1>3, <1>9, <2>9, <2>11, <2>12, <2>13, <2>14, <2>15, <2>16 DEF Loaded
  <2> QED BY <2>11, <2>17 DEF t
<1> QED BY <1>7, <1>8, <1>9

\* The samples, one more: stage 1 looks for a gap before it.
Noted(spec, a, p) ==
  IF a.last # NoTime /\ spec.gap # 0 /\ p.ts - a.last > spec.gap
  THEN a.win.nulls \cup {p.ts - 1} ELSE a.win.nulls

Reframed(a, nulls) ==
  [open |-> a.win.open, start |-> a.win.start, lo |-> a.win.lo, hi |-> a.win.hi, nulls |-> nulls]

\* A sample: what the walk is after stages 1 and 2, and which case applies.
SampleIs(spec, w, a, p, seen, taken) ==
  /\ seen = [out |-> a.out, last |-> p.ts, seeded |-> a.seeded, raw |-> a.raw,
             win |-> Reframed(a, Noted(spec, a, p))]
  /\ taken.out = a.out /\ taken.last = p.ts /\ taken.seeded = TRUE /\ taken.raw = p.val
  /\ taken.win = Reframed(a, Noted(spec, a, p))
  /\ taken = [out |-> taken.out, last |-> taken.last, seeded |-> taken.seeded,
              raw |-> taken.raw, win |-> taken.win]
  /\ \/ a.last = p.ts /\ Sample(spec, w, a, p) = seen
     \/ /\ a.last # p.ts /\ ((spec.delta /\ ~a.seeded) \/ (spec.rate /\ a.last < 0))
        /\ Sample(spec, w, a, p) = taken
     \/ /\ a.last # p.ts /\ ~((spec.delta /\ ~a.seeded) \/ (spec.rate /\ a.last < 0))
        /\ Sample(spec, w, a, p) =
             Accumulate(taken, w, [ts |-> p.ts,
                                   val |-> Drawn(spec, p.val, a.raw, p.ts - a.last)])

LEMMA SampleCases ==
  ASSUME NEW spec, NEW w, NEW a, NEW p,
         a = [out |-> a.out, last |-> a.last, seeded |-> a.seeded, raw |-> a.raw, win |-> a.win],
         a.win = [open |-> a.win.open, start |-> a.win.start, lo |-> a.win.lo, hi |-> a.win.hi,
                  nulls |-> a.win.nulls]
  PROVE  \E seen, taken : SampleIs(spec, w, a, p, seen, taken)
<1> DEFINE gap == a.last # NoTime /\ spec.gap # 0 /\ p.ts - a.last > spec.gap
           seen == [a EXCEPT !.win.nulls = IF gap THEN @ \cup {p.ts - 1} ELSE @, !.last = p.ts]
           taken == [seen EXCEPT !.seeded = TRUE, !.raw = p.val]
           q == [ts |-> p.ts, val |-> Drawn(spec, p.val, a.raw, p.ts - a.last)]
           N == Noted(spec, a, p)
           v == [a.win EXCEPT !.nulls = N]
           u == [a EXCEPT !.win = v]
<1>1. \/ a.last = p.ts /\ Sample(spec, w, a, p) = seen
      \/ /\ a.last # p.ts /\ ((spec.delta /\ ~a.seeded) \/ (spec.rate /\ a.last < 0))
         /\ Sample(spec, w, a, p) = taken
      \/ /\ a.last # p.ts /\ ~((spec.delta /\ ~a.seeded) \/ (spec.rate /\ a.last < 0))
         /\ Sample(spec, w, a, p) = Accumulate(taken, w, q)
  BY DEF Sample
<1>2. seen = [a EXCEPT !.win.nulls = N, !.last = p.ts] BY DEF Noted
<1> HIDE DEF N
<1>3. v = Reframed(a, N)
  <2> DEFINE win == a.win
  <2>1. win = [open |-> win.open, start |-> win.start, lo |-> win.lo, hi |-> win.hi,
               nulls |-> win.nulls]
    OBVIOUS
  <2> HIDE DEF win
  <2>2. [win EXCEPT !.nulls = N] = [open |-> win.open, start |-> win.start, lo |-> win.lo,
                                    hi |-> win.hi, nulls |-> N]
    BY <2>1
  <2> QED BY <2>2 DEF win, Reframed
<1>4. seen = [u EXCEPT !.last = p.ts] BY <1>2
<1> HIDE DEF v
<1>5. u = [out |-> a.out, last |-> a.last, seeded |-> a.seeded, raw |-> a.raw, win |-> v]
  OBVIOUS
<1> HIDE DEF u, seen
<1>6. seen = [out |-> a.out, last |-> p.ts, seeded |-> a.seeded, raw |-> a.raw, win |-> v]
  BY <1>4, <1>5
<1> DEFINE yes == TRUE
           t1 == [seen EXCEPT !.seeded = yes]
<1>7. taken = [t1 EXCEPT !.raw = p.val] OBVIOUS
<1> HIDE DEF yes
<1>8. t1 = [out |-> a.out, last |-> p.ts, seeded |-> yes, raw |-> a.raw, win |-> v] BY <1>6
<1> HIDE DEF t1, taken
<1>9. taken = [out |-> a.out, last |-> p.ts, seeded |-> yes, raw |-> p.val, win |-> v]
  BY <1>7, <1>8
<1>10. /\ taken.out = a.out /\ taken.last = p.ts /\ taken.seeded = yes /\ taken.raw = p.val
       /\ taken.win = v
       /\ taken = [out |-> taken.out, last |-> taken.last, seeded |-> taken.seeded,
                   raw |-> taken.raw, win |-> taken.win]
  BY <1>9
<1>11. taken.seeded = TRUE BY <1>10 DEF yes
<1> HIDE DEF q
<1>12. /\ seen = [out |-> a.out, last |-> p.ts, seeded |-> a.seeded, raw |-> a.raw,
                  win |-> Reframed(a, N)]
       /\ taken.win = Reframed(a, N)
  BY <1>3, <1>6, <1>10
<1>13. SampleIs(spec, w, a, p, seen, taken) BY <1>1, <1>10, <1>11, <1>12, Zenon DEF q, N, SampleIs
<1> QED BY <1>13

\* Stages 1 and 2.
LEMMA NotedLoaded ==
  ASSUME NEW s, Sampled(s), NEW spec, SpecOK(spec), NEW w \in Nat, NEW i \in Nat, i + 1 <= Len(s),
         NEW a, Walking(s, spec, w, i, a), a.last # s[i + 1].ts,
         NEW b, b.out = a.out, b.win = Reframed(a, Noted(spec, a, s[i + 1])),
         b = [out |-> b.out, last |-> b.last, seeded |-> b.seeded, raw |-> b.raw, win |-> b.win]
  PROVE  Loaded(s, spec, w, i, i + 1, b) /\ (i > 0 => s[i].ts < s[i + 1].ts)
<1> DEFINE k == i + 1
           p == s[k]
           N == Noted(spec, a, p)
<1>0. /\ Len(s) \in Nat /\ k \in 1 .. Len(s) /\ p.ts \in Nat
      /\ i > 0 => i \in 1 .. Len(s) /\ s[i].ts \in Nat /\ s[i].ts <= p.ts /\ a.last = s[i].ts
  BY DEF Sampled, Walking, Remembers
<1>1. i > 0 => s[i].ts < p.ts BY <1>0
<1>2. Loaded(s, spec, w, i, i, a) BY DEF Walking
<1>3. i = 0 => a.last = NoTime /\ a.win.nulls = {} BY DEF Walking, Remembers, Walk, NoWindow
<1>4. /\ b.win.open = a.win.open /\ b.win.start = a.win.start /\ b.win.lo = a.win.lo
      /\ b.win.hi = a.win.hi /\ b.win.nulls = N
      /\ b.win = [open |-> b.win.open, start |-> b.win.start, lo |-> b.win.lo, hi |-> b.win.hi,
                  nulls |-> b.win.nulls]
  BY DEF Reframed
<1>5. spec.gap \in Nat BY DEF SpecOK
<1>6. \A n \in N : n \in a.win.nulls \/ (n = p.ts - 1 /\ i > 0 /\ Missed(s, spec, k))
  BY <1>0, <1>3 DEF Noted, Missed
<1>7. i > 0 /\ Missed(s, spec, k) => p.ts - 1 \in N BY <1>0 DEF Noted, Missed, NoTime
<1>8. a.win.nulls \subseteq N BY DEF Noted
<1> HIDE DEF N
<1>9. ASSUME NEW n \in N PROVE Late(s, k, b.out, n)
  <2>1. CASE n \in a.win.nulls
    <3>1. Late(s, i, a.out, n) BY <1>2, <2>1 DEF Loaded
    <3>2. \A j \in 2 .. i : j \in 2 .. k OBVIOUS
    <3> QED BY <3>1, <3>2 DEF Late
  <2>2. CASE n = p.ts - 1 /\ i > 0 /\ Missed(s, spec, k)
    <3>1. k \in 2 .. k /\ s[k - 1].ts = s[i].ts BY <2>2
    <3>2. s[i].ts < n /\ n \in Nat /\ n >= 1
      <4>1. s[i].ts \in Nat /\ p.ts \in Nat BY <1>0, <2>2
      <4>2. spec.gap # 0 /\ p.ts - s[i].ts > spec.gap BY <2>2, <3>1 DEF Missed
      <4> HIDE DEF p
      <4>3. s[i].ts < p.ts - 1 /\ p.ts - 1 \in Nat /\ p.ts - 1 >= 1 BY <1>5, <4>1, <4>2, RoomForBreak
      <4> QED BY <2>2, <4>3
    <3>3. ASSUME NEW x, Has(a.out, x) PROVE x.ts < n
      <4>1. CASE ~a.win.open BY <1>2, <3>3, <4>1, NoPiece DEF Loaded
      <4>2. CASE a.win.open
        <5>1. Framed(s, spec, w, i, a.out, a.win) BY <1>2, <4>2 DEF Loaded
        <5>2. x.ts < a.win.start /\ a.win.start <= a.win.lo.ts /\ a.win.lo.ts <= s[i].ts
          BY <3>3, <5>1 DEF Framed, Spot
        <5>3. a.win.start \in Nat /\ a.win.lo.ts \in Nat BY <5>1 DEF Framed, Spot
        <5>4. x.ts \in Nat BY <1>2, <3>3, PieceTimes DEF Loaded
        <5>5. s[i].ts \in Nat BY <1>0, <2>2
        <5>6. s[i].ts < n /\ n \in Nat BY <3>2
        <5> HIDE DEF N, k, p
        <5>7. x.ts < s[i].ts BY <5>2, <5>3, <5>4, <5>5, Between
        <5> QED BY <5>4, <5>5, <5>6, <5>7, Follows
      <4> QED BY <4>1, <4>2
    <3>4. \E j \in 2 .. k : s[j - 1].ts < n /\ n = s[j].ts - 1 BY <2>2, <3>1, <3>2
    <3> QED BY <3>2, <3>3, <3>4 DEF Late
  <2> QED BY <1>6, <2>1, <2>2
<1>10. ASSUME NEW j \in 2 .. k, Missed(s, spec, j)
       PROVE  s[j].ts - 1 \in b.win.nulls \/ Shown(b.out, s, j)
  <2>1. CASE j = k BY <1>4, <1>7, <1>10, <2>1
  <2>2. CASE j \in 2 .. i BY <1>2, <1>4, <1>8, <1>10, <2>2 DEF Loaded
  <2> QED BY <2>1, <2>2
<1>11. b.win.open => Framed(s, spec, w, i, b.out, b.win) BY <1>2, <1>4 DEF Loaded, Framed
<1>12. \A j \in 1 .. i : \A x : IsWorth(s, spec, j, x) => InWindow(b.win, w, x) \/ Covers(b.out, w, x)
  <2>1. \A x : InWindow(a.win, w, x) => InWindow(b.win, w, x) BY <1>4 DEF InWindow
  <2> QED BY <1>2, <2>1 DEF Loaded
<1>13. /\ Piece(b.out) /\ AllWorth(s, spec, i, b.out)
       /\ ~b.win.open => b.out = <<>> /\ \A j \in 1 .. i : \A x : ~IsWorth(s, spec, j, x)
  BY <1>2, <1>4 DEF Loaded
<1>14. \A n \in b.win.nulls : Late(s, k, b.out, n) BY <1>4, <1>9
<1> QED BY <1>1, <1>4, <1>10, <1>11, <1>12, <1>13, <1>14 DEF Loaded

\* A second sample of an instant changes nothing.
LEMMA AgainWalking ==
  ASSUME NEW s, Sampled(s), NEW spec, SpecOK(spec), NEW w \in Nat, NEW i \in Nat, i + 1 <= Len(s),
         NEW a, Walking(s, spec, w, i, a), i > 0, s[i].ts = s[i + 1].ts
  PROVE  Walking(s, spec, w, i + 1, a)
<1> DEFINE k == i + 1
<1>0. /\ Len(s) \in Nat /\ k \in 1 .. Len(s) /\ k # 1 /\ k - 1 = i /\ s[i].ts \in Nat
      /\ \A j \in 1 .. k : j \in 1 .. i \/ j = k
      /\ \A j \in 2 .. k : j \in 2 .. i \/ j = k
      /\ \A j \in 1 .. i : j \in 1 .. k
      /\ \A j \in 2 .. i : j \in 2 .. k
  BY DEF Sampled
<1>1. Remembers(s, i, a) /\ Loaded(s, spec, w, i, i, a) BY DEF Walking
<1>2. Remembers(s, k, a) BY <1>0, <1>1 DEF Remembers
<1>3. \A p : ~IsWorth(s, spec, k, p) BY <1>0 DEF IsWorth, First
<1>4. ~Missed(s, spec, k) BY <1>0 DEF Missed, SpecOK
<1>5. a.win.open => Framed(s, spec, w, k, a.out, a.win)
  <2> SUFFICES ASSUME a.win.open PROVE Framed(s, spec, w, k, a.out, a.win) OBVIOUS
  <2>1. Framed(s, spec, w, i, a.out, a.win) BY <1>1 DEF Loaded
  <2> QED BY <1>0, <2>1 DEF Framed
<1>6. \A n \in a.win.nulls : Late(s, k, a.out, n)
  <2>1. \A n \in a.win.nulls : Late(s, i, a.out, n) BY <1>1 DEF Loaded
  <2> QED BY <1>0, <2>1 DEF Late
<1>7. AllWorth(s, spec, k, a.out)
  <2>1. AllWorth(s, spec, i, a.out) BY <1>1 DEF Loaded
  <2> QED BY <1>0, <2>1 DEF AllWorth
<1>8. \A j \in 1 .. k : \A p : IsWorth(s, spec, j, p) => InWindow(a.win, w, p) \/ Covers(a.out, w, p)
  BY <1>0, <1>1, <1>3 DEF Loaded
<1>9. \A j \in 2 .. k : Missed(s, spec, j) => s[j].ts - 1 \in a.win.nulls \/ Shown(a.out, s, j)
  BY <1>0, <1>1, <1>4 DEF Loaded
<1>10. ~a.win.open => a.out = <<>> /\ \A j \in 1 .. k : \A p : ~IsWorth(s, spec, j, p)
  BY <1>0, <1>1, <1>3 DEF Loaded
<1>11. Loaded(s, spec, w, k, k, a)
  BY <1>1, <1>5, <1>6, <1>7, <1>8, <1>9, <1>10 DEF Loaded
<1> QED BY <1>2, <1>11 DEF Walking

\* What the walk takes for a sample is what the sample is worth.
LEMMA TakenWorth ==
  ASSUME NEW s, Sampled(s), NEW spec, NEW i \in Nat, i + 1 <= Len(s), NEW a, Remembers(s, i, a),
         i > 0 => s[i].ts < s[i + 1].ts,
         ~((spec.delta /\ ~a.seeded) \/ (spec.rate /\ a.last < 0)),
         NEW p
  PROVE  IsWorth(s, spec, i + 1, p) <=>
           p = [ts |-> s[i + 1].ts,
                val |-> Drawn(spec, s[i + 1].val, a.raw, s[i + 1].ts - a.last)]
<1> DEFINE k == i + 1
<1>0. /\ Len(s) \in Nat /\ k \in 1 .. Len(s) /\ k - 1 = i /\ s[k].ts \in Nat
      /\ i > 0 => i \in 1 .. Len(s) /\ s[i].ts \in Nat /\ k # 1
  BY DEF Sampled
<1>1. First(s, k) BY <1>0 DEF First
<1>2. CASE i = 0
  <2>1. a.raw = 0 /\ a.last = -1 /\ a.seeded = FALSE BY <1>2 DEF Remembers, Walk, NoTime
  <2>2. ~spec.delta /\ ~spec.rate BY <2>1
  <2>3. k = 1 /\ 1 .. k - 1 = {} BY <1>2
  <2>4. Drawn(spec, s[1].val, 0, s[1].ts - a.last) = Drawn(spec, s[1].val, 0, 0) BY <2>2 DEF Drawn
  <2>5. IsWorth(s, spec, 1, p) <=> p = [ts |-> s[1].ts, val |-> Drawn(spec, s[1].val, 0, 0)]
    BY <1>1, <2>2, <2>3 DEF IsWorth
  <2> QED BY <2>1, <2>3, <2>4, <2>5
<1>3. CASE i > 0
  <2>1. a.last = s[i].ts BY <1>3 DEF Remembers
  <2>2. PICK h \in 1 .. i : First(s, h) /\ s[h].ts = s[i].ts /\ a.raw = s[h].val
    BY <1>3 DEF Remembers
  <2>3. \A g \in 1 .. i : First(s, g) /\ s[g].ts = s[i].ts => g = h
    <3>1. \A g \in 1 .. i : g \in 1 .. Len(s) BY <1>0
    <3> QED BY <2>2, <3>1, OneFirst
  <2>4. IsWorth(s, spec, k, p) <=>
          \E g \in 1 .. i :
            /\ First(s, g) /\ s[g].ts = s[i].ts
            /\ p = [ts |-> s[k].ts, val |-> Drawn(spec, s[k].val, s[g].val, s[k].ts - s[g].ts)]
    BY <1>0, <1>1, <1>3 DEF IsWorth
  <2> QED BY <2>1, <2>2, <2>3, <2>4
<1> QED BY <1>2, <1>3

\* Every sample keeps the invariant of the walk.
LEMMA SampleWalking ==
  ASSUME NEW s, Sampled(s), NEW spec, SpecOK(spec), NEW w \in Nat, NEW i \in Nat, i + 1 <= Len(s),
         NEW a, Walking(s, spec, w, i, a)
  PROVE  Walking(s, spec, w, i + 1, Sample(spec, w, a, s[i + 1]))
<1> DEFINE k == i + 1
           p == s[k]
           q == [ts |-> p.ts, val |-> Drawn(spec, p.val, a.raw, p.ts - a.last)]
           t == Sample(spec, w, a, p)
           win == Reframed(a, Noted(spec, a, p))
<1>0. /\ Len(s) \in Nat /\ k \in 1 .. Len(s) /\ p.ts \in Nat /\ k > 0
      /\ i > 0 => i \in 1 .. Len(s) /\ s[i].ts \in Nat /\ s[i].ts <= p.ts /\ k # 1 /\ k - 1 = i
  BY DEF Sampled
<1>1. Remembers(s, i, a) /\ Loaded(s, spec, w, i, i, a) BY DEF Walking
<1>2. /\ a = [out |-> a.out, last |-> a.last, seeded |-> a.seeded, raw |-> a.raw, win |-> a.win]
      /\ a.win = [open |-> a.win.open, start |-> a.win.start, lo |-> a.win.lo, hi |-> a.win.hi,
                  nulls |-> a.win.nulls]
  BY <1>1 DEF Loaded
<1>3. /\ i = 0 => a.last = -1
      /\ i > 0 => a.last = s[i].ts /\ a.seeded = TRUE
  BY <1>1 DEF Remembers, Walk, NoTime
<1> HIDE DEF t, win
<1>41. PICK seen, taken : SampleIs(spec, w, a, p, seen, taken) BY <1>2, SampleCases
<1>4. /\ seen = [out |-> a.out, last |-> p.ts, seeded |-> a.seeded, raw |-> a.raw, win |-> win]
      /\ taken.out = a.out /\ taken.last = p.ts /\ taken.seeded = TRUE /\ taken.raw = p.val
      /\ taken.win = win
      /\ taken = [out |-> taken.out, last |-> taken.last, seeded |-> taken.seeded,
                  raw |-> taken.raw, win |-> taken.win]
      /\ \/ a.last = p.ts /\ t = seen
         \/ /\ a.last # p.ts /\ ((spec.delta /\ ~a.seeded) \/ (spec.rate /\ a.last < 0))
            /\ t = taken
         \/ /\ a.last # p.ts /\ ~((spec.delta /\ ~a.seeded) \/ (spec.rate /\ a.last < 0))
            /\ t = Accumulate(taken, w, q)
  BY <1>41 DEF SampleIs, t, win
<1>5. CASE a.last = p.ts /\ t = seen
  <2>1. i > 0 /\ s[i].ts = p.ts BY <1>0, <1>3, <1>5
  <2>2. Noted(spec, a, p) = a.win.nulls
    <3>1. spec.gap \in Nat /\ ~(p.ts - a.last > spec.gap) BY <1>0, <1>5 DEF SpecOK
    <3> QED BY <3>1 DEF Noted
  <2>3. win = a.win BY <1>2, <2>2 DEF win, Reframed
  <2>4. t = a BY <1>2, <1>4, <1>5, <2>3
  <2>5. Walking(s, spec, w, k, a) BY <2>1, AgainWalking
  <2> QED BY <2>4, <2>5 DEF t
<1>6. ASSUME a.last # p.ts
      PROVE  Loaded(s, spec, w, i, k, taken) /\ (i > 0 => s[i].ts < s[k].ts)
  BY <1>4, <1>6, NotedLoaded DEF win
<1>7. ASSUME a.last # p.ts, NEW b, b.last = p.ts, b.seeded = TRUE, b.raw = p.val
      PROVE  Remembers(s, k, b)
  <2>1. First(s, k) BY <1>0, <1>6, <1>7 DEF First
  <2>2. k \in 1 .. k BY <1>0
  <2>3. \E h \in 1 .. k : First(s, h) /\ s[h].ts = s[k].ts /\ b.raw = s[h].val
    BY <1>7, <2>1, <2>2
  <2>4. k # 0 BY <1>0
  <2> HIDE DEF k
  <2> QED BY <1>7, <2>3, <2>4 DEF Remembers
<1>8. CASE /\ a.last # p.ts /\ ((spec.delta /\ ~a.seeded) \/ (spec.rate /\ a.last < 0))
           /\ t = taken
  <2>1. i = 0 /\ k = 1 BY <1>0, <1>3, <1>8
  <2>2. spec.delta \/ spec.rate BY <1>8
  <2>3. Loaded(s, spec, w, i, k, taken) /\ Remembers(s, k, taken) BY <1>4, <1>6, <1>7, <1>8
  <2>4. \A j \in 1 .. k : \A x : ~IsWorth(s, spec, j, x)
    <3>1. 1 .. k = {1} /\ 1 .. 1 - 1 = {} BY <2>1
    <3> QED BY <2>2, <3>1 DEF IsWorth
  <2>5. a = Walk BY <1>1, <2>1 DEF Remembers
  <2>6. ~taken.win.open /\ a.out = <<>>
    <3>1. a.win.open = FALSE /\ a.out = <<>> BY <2>5 DEF Walk, NoWindow
    <3>2. taken.win.open = a.win.open BY <1>4 DEF win, Reframed
    <3> QED BY <3>1, <3>2
  <2>7. AllWorth(s, spec, k, taken.out) BY <1>4, <2>6, NoPiece DEF AllWorth, HasPoint
  <2>8. Loaded(s, spec, w, k, k, taken) BY <1>4, <2>3, <2>4, <2>6, <2>7 DEF Loaded
  <2> QED BY <1>8, <2>3, <2>8 DEF Walking, t
<1>9. CASE /\ a.last # p.ts /\ ~((spec.delta /\ ~a.seeded) \/ (spec.rate /\ a.last < 0))
           /\ t = Accumulate(taken, w, q)
  <2>1. Loaded(s, spec, w, i, k, taken) /\ (i > 0 => s[i].ts < s[k].ts) BY <1>6, <1>9
  <2>2. WorthIs(s, spec, k, q)
    <3>1. \A x : IsWorth(s, spec, k, x) <=> x = q BY <1>1, <1>9, <2>1, TakenWorth
    <3> QED BY <3>1 DEF WorthIs
  <2>3. q.ts = s[k].ts OBVIOUS
  <2> HIDE DEF q
  <2>4. /\ Loaded(s, spec, w, k, k, t) /\ t.last = taken.last /\ t.seeded = taken.seeded
        /\ t.raw = taken.raw
    <3>1. /\ Loaded(s, spec, w, i + 1, i + 1, Accumulate(taken, w, q))
          /\ Accumulate(taken, w, q).last = taken.last
          /\ Accumulate(taken, w, q).seeded = taken.seeded
          /\ Accumulate(taken, w, q).raw = taken.raw
      BY <2>1, <2>2, <2>3, AccumulateLoaded
    <3> QED BY <1>9, <3>1
  <2>5. Remembers(s, k, t) BY <1>4, <1>7, <1>9, <2>4
  <2> QED BY <2>4, <2>5 DEF Walking, t
<1> QED BY <1>4, <1>5, <1>8, <1>9

-----------------------------------------------------------------------------
(* The whole pass.                                                         *)

\* Induction, as a fact about sets.
LEMMA NatSet ==
  ASSUME NEW S, S \subseteq Nat, 0 \in S, \A n \in S : n + 1 \in S
  PROVE  S = Nat
<1> DEFINE T == Nat \ S
<1> SUFFICES ASSUME T # {} PROVE FALSE OBVIOUS
<1>1. PICK x \in T : \A y \in T : x <= y BY NatLeast
<1>2. x # 0 /\ x - 1 \in Nat /\ x - 1 \notin T BY <1>1
<1>3. x - 1 \in S BY <1>2
<1> QED BY <1>1, <1>3

\* A function that computes the pass over the first n samples.
Passing(f, s, spec, w, n) ==
  f = [i \in 0 .. n |-> IF i = 0 THEN Walk ELSE Sample(spec, w, f[i - 1], s[i])]

LEMMA PassingExists ==
  ASSUME NEW s, NEW spec, NEW w
  PROVE  \A n \in Nat : \E f : Passing(f, s, spec, w, n)
<1> DEFINE S == {n \in Nat : \E f : Passing(f, s, spec, w, n)}
<1>1. 0 \in S
  <2>1. Passing([i \in 0 .. 0 |-> Walk], s, spec, w, 0) BY DEF Passing
  <2> QED BY <2>1
<1>2. ASSUME NEW n \in S PROVE n + 1 \in S
  <2>1. PICK f : Passing(f, s, spec, w, n) BY <1>2
  <2> DEFINE g == [i \in 0 .. n + 1 |-> IF i = n + 1 THEN Sample(spec, w, f[n], s[n + 1]) ELSE f[i]]
  <2>2. \A i \in 0 .. n : g[i] = f[i] OBVIOUS
  <2>3. \A i \in 0 .. n : f[i] = IF i = 0 THEN Walk ELSE Sample(spec, w, f[i - 1], s[i])
    BY <2>1 DEF Passing
  <2>4. ASSUME NEW i \in 0 .. n + 1
        PROVE  g[i] = IF i = 0 THEN Walk ELSE Sample(spec, w, g[i - 1], s[i])
    <3>1. CASE i = n + 1 BY <3>1, <2>2, n \in 0 .. n, i - 1 = n
    <3>2. CASE i # n + 1
      <4>1. i \in 0 .. n /\ (i # 0 => i - 1 \in 0 .. n) BY <3>2
      <4> HIDE DEF g
      <4> QED BY <4>1, <2>2, <2>3
    <3> QED BY <3>1, <3>2
  <2>5. g = [i \in 0 .. n + 1 |-> IF i = 0 THEN Walk ELSE Sample(spec, w, g[i - 1], s[i])]
    BY <2>4
  <2> HIDE DEF g
  <2>6. Passing(g, s, spec, w, n + 1) BY <2>5 DEF Passing
  <2> QED BY <2>6
<1>3. S = Nat BY <1>1, <1>2, NatSet
<1> QED BY <1>3

LEMMA WalkedFacts ==
  ASSUME NEW s, Len(s) \in Nat, NEW spec, NEW w
  PROVE  \E f : /\ Walked(s, spec, w) = f[Len(s)]
                /\ f[0] = Walk
                /\ \A i \in 1 .. Len(s) : f[i] = Sample(spec, w, f[i - 1], s[i])
<1> DEFINE f == CHOOSE f : f = [i \in 0 .. Len(s) |->
                  IF i = 0 THEN Walk ELSE Sample(spec, w, f[i - 1], s[i])]
<1>1. Walked(s, spec, w) = f[Len(s)] BY DEF Walked
<1>2. \E g : Passing(g, s, spec, w, Len(s)) BY PassingExists
<1>3. Passing(f, s, spec, w, Len(s)) BY <1>2 DEF Passing
<1> HIDE DEF f
<1>4. f[0] = Walk BY <1>3 DEF Passing
<1>5. \A i \in 1 .. Len(s) : f[i] = Sample(spec, w, f[i - 1], s[i]) BY <1>3 DEF Passing
<1> QED BY <1>1, <1>4, <1>5

LEMMA NoneWalking ==
  ASSUME NEW s, NEW spec, NEW w
  PROVE  Walking(s, spec, w, 0, Walk)
<1>1. /\ Walk.out = <<>> /\ Walk.win = NoWindow
      /\ Walk = [out |-> Walk.out, last |-> Walk.last, seeded |-> Walk.seeded, raw |-> Walk.raw,
                 win |-> Walk.win]
  BY DEF Walk
<1>2. /\ ~NoWindow.open /\ NoWindow.nulls = {}
      /\ NoWindow = [open |-> NoWindow.open, start |-> NoWindow.start, lo |-> NoWindow.lo,
                     hi |-> NoWindow.hi, nulls |-> NoWindow.nulls]
  BY DEF NoWindow
<1>3. Piece(<<>>) /\ AllWorth(s, spec, 0, <<>>) BY NoPiece DEF AllWorth, HasPoint
<1>4. 1 .. 0 = {} /\ 2 .. 0 = {} OBVIOUS
<1>5. Loaded(s, spec, w, 0, 0, Walk) BY <1>1, <1>2, <1>3, <1>4 DEF Loaded
<1> QED BY <1>5 DEF Walking, Remembers

LEMMA WalkedWalking ==
  ASSUME NEW s, Sampled(s), NEW spec, SpecOK(spec), NEW w \in Nat
  PROVE  Walking(s, spec, w, Len(s), Walked(s, spec, w))
<1>0. Len(s) \in Nat BY DEF Sampled
<1>1. PICK f : /\ Walked(s, spec, w) = f[Len(s)]
               /\ f[0] = Walk
               /\ \A i \in 1 .. Len(s) : f[i] = Sample(spec, w, f[i - 1], s[i])
  BY <1>0, WalkedFacts
<1> DEFINE S == {i \in Nat : i <= Len(s) => Walking(s, spec, w, i, f[i])}
<1>2. 0 \in S BY <1>1, NoneWalking
<1>3. ASSUME NEW i \in S PROVE i + 1 \in S
  <2> SUFFICES ASSUME i + 1 <= Len(s) PROVE Walking(s, spec, w, i + 1, f[i + 1]) OBVIOUS
  <2>1. Walking(s, spec, w, i, f[i]) BY <1>0
  <2>2. f[i + 1] = Sample(spec, w, f[i], s[i + 1]) BY <1>0, <1>1
  <2>3. i \in Nat OBVIOUS
  <2>4. Walking(s, spec, w, i + 1, Sample(spec, w, f[i], s[i + 1])) BY <2>1, <2>3, SampleWalking
  <2> QED BY <2>2, <2>4
<1>4. S = Nat BY <1>2, <1>3, NatSet
<1> QED BY <1>0, <1>1, <1>4

\* A break after all that is drawn.
LEMMA BreakAfter ==
  ASSUME NEW s, NEW spec, NEW w, NEW i, NEW g, NEW out, Honest(s, spec, w, i, g, out),
         NEW x \in Mark, x.kind = "null", \A y : Has(out, y) => y.ts < x.ts
  PROVE  Honest(s, spec, w, i, g, out \o <<x>>)
<1> DEFINE o == out \o <<x>>
<1>1. Piece(<<x>>) /\ \A y : Has(<<x>>, y) <=> y = x BY OnePiece
<1>2. Piece(out) BY DEF Honest
<1>3. \A y, z : Has(out, y) /\ Has(<<x>>, z) => y.ts < z.ts BY <1>1
<1>4. Piece(o) /\ \A y : Has(o, y) <=> Has(out, y) \/ Has(<<x>>, y)
  BY <1>1, <1>2, <1>3, JoinPieces
<1> HIDE DEF o
<1>5. /\ \A y : HasPoint(o, y) <=> HasPoint(out, y)
      /\ \A y : HasNull(out, y) => HasNull(o, y)
  <2>1. x.kind # "point" OBVIOUS
  <2>2. \A y : HasPoint(o, y) <=> HasPoint(out, y) BY <1>1, <1>4, <2>1 DEF HasPoint
  <2>3. \A y : HasNull(out, y) => HasNull(o, y) BY <1>4 DEF HasNull
  <2> QED BY <2>2, <2>3
<1>6. AllWorth(s, spec, i, o) BY <1>5 DEF Honest, AllWorth
<1>7. \A p : Covers(out, w, p) => Covers(o, w, p) BY <1>5 DEF Covers
<1>8. \A j : Shown(out, s, j) => Shown(o, s, j) BY <1>5 DEF Shown
<1>9. Honest(s, spec, w, i, g, o) BY <1>4, <1>6, <1>7, <1>8 DEF Honest
<1> QED BY <1>9 DEF o

\* Nothing drawn is later than the last of it.
LEMMA LastLatest ==
  ASSUME NEW out, Piece(out), out # <<>>
  PROVE  Last(out).ts \in Nat /\ \A x : Has(out, x) => x.ts <= Last(out).ts
<1> DEFINE n == Len(out)
<1>1. out \in Seq(Mark) /\ n \in Nat /\ n # 0 BY DEF Piece
<1>2. n \in 1 .. n /\ Last(out) = out[n] BY <1>1 DEF Last
<1>3. Has(out, out[n]) BY <1>2 DEF Has
<1>4. out[n].ts \in Nat BY <1>3, PieceTimes
<1>5. ASSUME NEW k \in 1 .. n PROVE out[k].ts <= out[n].ts
  <2>1. out[k].ts \in Nat BY <1>5, PieceTimes DEF Has
  <2>2. k < n => out[k].ts < out[n].ts BY <1>1, <1>2 DEF Piece, Rising
  <2>3. k < n \/ k = n BY <1>1
  <2> QED BY <1>4, <2>1, <2>2, <2>3
<1>6. \A x : Has(out, x) => x.ts <= out[n].ts BY <1>5 DEF Has
<1> QED BY <1>2, <1>4, <1>6

\* The last window and the trailing break.
LEMMA OutputsHonest ==
  ASSUME NEW s, Sampled(s), NEW spec, SpecOK(spec), NEW w \in Nat
  PROVE  \/ Honest(s, spec, w, Len(s), Len(s), Outputs(s, spec, w))
         \/ /\ Outputs(s, spec, w) = <<>>
            /\ \A j \in 1 .. Len(s) : \A p : ~IsWorth(s, spec, j, p)
<1> DEFINE a == Walked(s, spec, w)
           n == Len(s)
           drawn == a.out \o (IF a.win.open THEN Emit(a.win.lo, a.win.hi, a.win.nulls) ELSE <<>>)
           tail == Trailing(spec, a.last, drawn)
<1>0. n \in Nat /\ n \in 0 .. n BY DEF Sampled
<1>1. Outputs(s, spec, w) = drawn \o tail BY DEF Outputs
<1>2. Remembers(s, n, a) /\ Loaded(s, spec, w, n, n, a) BY WalkedWalking DEF Walking
<1> HIDE DEF a
<1>3. CASE ~a.win.open
  <2>1. a.out = <<>> /\ \A j \in 1 .. n : \A p : ~IsWorth(s, spec, j, p) BY <1>2, <1>3 DEF Loaded
  <2>2. drawn = <<>> BY <1>3, <2>1
  <2> HIDE DEF drawn
  <2>3. tail = <<>> BY <2>2 DEF Trailing
  <2> HIDE DEF tail
  <2>4. Outputs(s, spec, w) = <<>> BY <1>1, <2>2, <2>3
  <2> QED BY <2>1, <2>4
<1>4. CASE a.win.open
  <2>1. drawn = a.out \o Emit(a.win.lo, a.win.hi, a.win.nulls) BY <1>4
  <2>2. Honest(s, spec, w, n, n, drawn) BY <1>0, <1>2, <1>4, <2>1, EmitLoaded
  <2>3. Piece(drawn) /\ drawn \in Seq(Mark) BY <2>2 DEF Honest, Piece
  <2> HIDE DEF drawn
  <2>4. CASE tail = <<>>
    <3>1. Outputs(s, spec, w) = drawn BY <1>1, <2>3, <2>4
    <3> QED BY <2>2, <3>1
  <2>5. CASE tail # <<>>
    <3> DEFINE x == Output("null", a.last + spec.gap, 0)
    <3>1. /\ drawn # <<>> /\ a.last # NoTime /\ a.last + spec.gap > Last(drawn).ts
          /\ tail = <<x>>
      BY <2>5 DEF Trailing
    <3>2. n > 0 BY <1>0, <1>2, <3>1 DEF Remembers, Walk
    <3>3. a.last \in Nat /\ spec.gap \in Nat
      <4>1. a.last = s[n].ts /\ n \in 1 .. n BY <1>0, <1>2, <3>2 DEF Remembers
      <4> QED BY <4>1 DEF Sampled, SpecOK
    <3>4. x \in Mark /\ x.kind = "null" /\ x.ts = a.last + spec.gap BY <3>3 DEF Output, Mark
    <3> HIDE DEF x
    <3>5. Last(drawn).ts \in Nat /\ \A y : Has(drawn, y) => y.ts <= Last(drawn).ts
      BY <2>3, <3>1, LastLatest
    <3>6. ASSUME NEW y, Has(drawn, y) PROVE y.ts < x.ts
      <4>1. y.ts \in Nat BY <2>3, <3>6, PieceTimes
      <4> QED BY <3>1, <3>3, <3>4, <3>5, <3>6, <4>1
    <3>7. Honest(s, spec, w, n, n, drawn \o <<x>>) BY <2>2, <3>4, <3>6, BreakAfter
    <3>8. Outputs(s, spec, w) = drawn \o <<x>> BY <1>1, <3>1
    <3> QED BY <3>7, <3>8
  <2> QED BY <2>4, <2>5
<1> QED BY <1>3, <1>4

\* A missed cadence parts what is drawn before it from what is drawn after it.
Parted(out, before, after) ==
  \A x, y : HasPoint(out, x) /\ HasPoint(out, y) /\ x.ts <= before /\ after <= y.ts =>
    \E n : HasNull(out, n) /\ x.ts < n.ts /\ n.ts < y.ts

\* What the pass draws of a series (Series up to padIsolated), whatever its samples,
\* modifiers and window: the times increase strictly, every point is the worth of a
\* sample, every sample has a point as high and one as low no further than a window away,
\* and no two points are joined across a missed cadence.
THEOREM WalksAreHonest ==
  ASSUME NEW s, Sampled(s), NEW spec, SpecOK(spec), NEW w \in Nat
  PROVE  /\ Rising(Outputs(s, spec, w))
         /\ AllWorth(s, spec, Len(s), Outputs(s, spec, w))
         /\ \A j \in 1 .. Len(s) : \A p :
              IsWorth(s, spec, j, p) => Covers(Outputs(s, spec, w), w, p)
         /\ \A j \in 2 .. Len(s) :
              Missed(s, spec, j) => Parted(Outputs(s, spec, w), s[j - 1].ts, s[j].ts)
<1> DEFINE out == Outputs(s, spec, w)
           n == Len(s)
<1>0. n \in Nat /\ \A j \in 1 .. n : s[j].ts \in Nat BY DEF Sampled
<1>1. \/ Honest(s, spec, w, n, n, out)
      \/ out = <<>> /\ \A j \in 1 .. n : \A p : ~IsWorth(s, spec, j, p)
  BY OutputsHonest
<1> HIDE DEF out
<1>2. CASE Honest(s, spec, w, n, n, out)
  <2>1. /\ Piece(out) /\ Rising(out) /\ AllWorth(s, spec, n, out)
        /\ \A j \in 1 .. n : \A p : IsWorth(s, spec, j, p) => Covers(out, w, p)
        /\ \A j \in 2 .. n : Missed(s, spec, j) => Shown(out, s, j)
    BY <1>2 DEF Honest, Piece
  <2>2. ASSUME NEW j \in 2 .. n, Missed(s, spec, j) PROVE Parted(out, s[j - 1].ts, s[j].ts)
    <3>0. j \in 1 .. n /\ j - 1 \in 1 .. n /\ s[j].ts \in Nat /\ s[j - 1].ts \in Nat BY <1>0
    <3>1. s[j - 1].ts < s[j].ts - 1 BY <2>2, <3>0 DEF Missed, SpecOK
    <3>2. PICK k : /\ HasNull(out, k) /\ k.ts >= s[j].ts - 1
                   /\ \A y : HasPoint(out, y) /\ y.ts >= s[j].ts => y.ts > k.ts
      BY <2>1, <2>2 DEF Shown
    <3>3. k.ts \in Nat BY <2>1, <3>2, PieceTimes DEF HasNull
    <3>4. ASSUME NEW x, NEW y, HasPoint(out, x), HasPoint(out, y), x.ts <= s[j - 1].ts, s[j].ts <= y.ts
          PROVE  x.ts < k.ts /\ k.ts < y.ts
      <4>1. x.ts \in Nat /\ y.ts \in Nat BY <2>1, <3>4, PieceTimes DEF HasPoint
      <4>2. y.ts > k.ts BY <3>0, <3>2, <3>4, <4>1
      <4> QED BY <3>0, <3>1, <3>2, <3>3, <3>4, <4>1, <4>2
    <3> QED BY <3>2, <3>4 DEF Parted
  <2> QED BY <2>1, <2>2 DEF out
<1>3. CASE out = <<>> /\ \A j \in 1 .. n : \A p : ~IsWorth(s, spec, j, p)
  <2>1. Rising(out) /\ \A x : ~HasPoint(out, x) BY <1>3, NoPiece DEF Piece, HasPoint
  <2>2. AllWorth(s, spec, n, out) BY <2>1 DEF AllWorth
  <2>3. \A j \in 2 .. n : Parted(out, s[j - 1].ts, s[j].ts) BY <2>1 DEF Parted
  <2> QED BY <1>3, <2>1, <2>2, <2>3 DEF out
<1> QED BY <1>1, <1>2, <1>3

-----------------------------------------------------------------------------
(* Places.                                                                 *)

\* The k-th of a finite set in a strict total order is the one that k - 1 precede.
Place(R, K, k) == CHOOSE x \in K : Cardinality(Below(R, K, x)) = k - 1

LEMMA PlaceFacts ==
  ASSUME NEW K, IsFiniteSet(K), NEW R, StrictOrder(R, K)
  PROVE  /\ Cardinality(K) \in Nat
         /\ \A k \in 1 .. Cardinality(K) : Place(R, K, k) \in K
         /\ \A k, l \in 1 .. Cardinality(K) : k < l => <<Place(R, K, k), Place(R, K, l)>> \in R
         /\ \A x \in K : \E k \in 1 .. Cardinality(K) : Place(R, K, k) = x
<1> DEFINE n == Cardinality(K)
           f == [k \in 1 .. n |-> Place(R, K, k)]
<1>0. n \in Nat BY FS_CardinalityType
<1> HIDE DEF n
<1>1. \A x \in K : Cardinality(Below(R, K, x)) \in Nat
  <2> SUFFICES ASSUME NEW x \in K PROVE Cardinality(Below(R, K, x)) \in Nat OBVIOUS
  <2>1. Below(R, K, x) \in SUBSET K BY DEF Below
  <2>2. IsFiniteSet(Below(R, K, x)) BY <2>1, FS_Subset
  <2> QED BY <2>2, FS_CardinalityType
<1>2. ASSUME NEW m \in 0 .. n PROVE Cardinality(Ranked(R, K, m)) = m /\
        \A b \in Ranked(R, K, m), y \in K \ Ranked(R, K, m) : <<b, y>> \in R
  BY <1>0, RankCut DEF n
<1>3. ASSUME NEW k \in 1 .. n PROVE \E x \in K : Cardinality(Below(R, K, x)) = k - 1
  <2>1. Cardinality(Ranked(R, K, k)) = k /\ Cardinality(Ranked(R, K, k - 1)) = k - 1
    BY <1>0, <1>2
  <2>2. ~(Ranked(R, K, k) \subseteq Ranked(R, K, k - 1))
    <3> SUFFICES ASSUME Ranked(R, K, k) \subseteq Ranked(R, K, k - 1) PROVE FALSE OBVIOUS
    <3>1. \A x \in K : Cardinality(Below(R, K, x)) < k - 1 => Cardinality(Below(R, K, x)) < k
      BY <1>0, <1>1
    <3>2. Ranked(R, K, k) = Ranked(R, K, k - 1) BY <3>1 DEF Ranked
    <3> QED BY <1>0, <2>1, <3>2
  <2>3. PICK x \in Ranked(R, K, k) : x \notin Ranked(R, K, k - 1) BY <2>2
  <2>4. x \in K /\ Cardinality(Below(R, K, x)) < k /\ ~(Cardinality(Below(R, K, x)) < k - 1)
    BY <2>3 DEF Ranked
  <2> QED BY <1>0, <1>1, <2>4
<1>4. ASSUME NEW k \in 1 .. n
      PROVE  Place(R, K, k) \in K /\ Cardinality(Below(R, K, Place(R, K, k))) = k - 1
  BY <1>3 DEF Place
<1>5. ASSUME NEW k \in 1 .. n, NEW l \in 1 .. n, k < l
      PROVE  <<Place(R, K, k), Place(R, K, l)>> \in R
  <2>1. Place(R, K, k) \in Ranked(R, K, k) BY <1>0, <1>4 DEF Ranked
  <2>2. Place(R, K, l) \in K \ Ranked(R, K, k) BY <1>0, <1>4, <1>5 DEF Ranked
  <2>3. k \in 0 .. n BY <1>0
  <2> QED BY <1>2, <2>1, <2>2, <2>3
<1>6. f \in [1 .. n -> K] BY <1>4
<1>7. ASSUME NEW k \in 1 .. n, NEW l \in 1 .. n, k # l PROVE f[k] # f[l]
  <2>1. k < l \/ l < k BY <1>0, <1>7
  <2>2. \A x \in K : <<x, x>> \notin R BY DEF StrictOrder
  <2>3. f[k] = Place(R, K, k) /\ f[l] = Place(R, K, l) OBVIOUS
  <2> QED BY <1>4, <1>5, <2>1, <2>2, <2>3
<1>8. f \in Injection(1 .. n, K)
  <2> HIDE DEF f
  <2> QED BY <1>6, <1>7 DEF Injection, IsInjective
<1>9. Cardinality(1 .. n) = n
  <2>1. Cardinality(1 .. n) = IF 1 > n THEN 0 ELSE n - 1 + 1 BY <1>0, FS_Interval
  <2> QED BY <1>0, <2>1
<1>10. f \in Surjection(1 .. n, K)
  <2> HIDE DEF f
  <2> QED BY <1>8, <1>9, FS_Injection DEF n
<1>11. \A x \in K : \E k \in 1 .. n : f[k] = x
  <2> HIDE DEF f
  <2> QED BY <1>10 DEF Surjection
<1>12. \A k \in 1 .. n : f[k] = Place(R, K, k) OBVIOUS
<1> HIDE DEF f
<1> QED BY <1>0, <1>4, <1>5, <1>11, <1>12 DEF n

\* Sorted puts the samples in the order of their times, each at one place.
LEMMA SortedFacts ==
  ASSUME NEW D, \A x \in D : x.ts \in Nat /\ x.val \in Int, NEW s \in Seq(D)
  PROVE  /\ Sorted(s) \in Seq(D) /\ Len(Sorted(s)) = Len(s)
         /\ Sampled(Sorted(s))
         /\ \A j \in 1 .. Len(s) : \E k \in 1 .. Len(s) : Sorted(s)[k] = s[j]
<1> DEFINE n == Len(s)
           K == 1 .. n
           R == {e \in K \X K : Before(s, e[1], e[2])}
           up == Sorted(s)
<1>0. n \in Nat /\ DOMAIN s = K /\ \A j \in K : s[j] \in D OBVIOUS
<1>1. \A j \in K : s[j].ts \in Nat /\ s[j].val \in Int BY <1>0
<1>2. IsFiniteSet(K) /\ Cardinality(K) = n
  <2>1. IsFiniteSet(K) /\ Cardinality(K) = IF 1 > n THEN 0 ELSE n - 1 + 1 BY <1>0, FS_Interval
  <2> QED BY <1>0, <2>1
<1>3. \A i, j \in K : <<i, j>> \in R <=> Before(s, i, j) OBVIOUS
<1> HIDE DEF R
<1>4. StrictOrder(R, K)
  <2>1. \A i \in K : i \in Int BY <1>0
  <2>2. \A i \in K : ~Before(s, i, i) BY <1>1, <2>1 DEF Before
  <2>3. \A i, j \in K : i # j => Before(s, i, j) \/ Before(s, j, i) BY <1>1, <2>1 DEF Before
  <2>4. \A i, j, k \in K : Before(s, i, j) /\ Before(s, j, k) => Before(s, i, k)
    BY <1>1, <2>1 DEF Before
  <2> HIDE DEF K
  <2> QED BY <1>3, <2>2, <2>3, <2>4 DEF StrictOrder
<1>5. ASSUME NEW k \in K PROVE up[k] = s[Place(R, K, k)]
  <2>1. \A j \in K : {i \in K : Before(s, i, j)} = Below(R, K, j) BY <1>3 DEF Below
  <2> DEFINE place == CHOOSE j \in DOMAIN s : Cardinality({i \in DOMAIN s : Before(s, i, j)}) = k - 1
  <2>2. up[k] = s[place] BY <1>0 DEF Sorted
  <2>3. place = CHOOSE j \in K : Cardinality({i \in K : Before(s, i, j)}) = k - 1 BY <1>0
  <2> HIDE DEF place, K
  <2>4. place = Place(R, K, k) BY <2>1, <2>3 DEF Place
  <2> QED BY <2>2, <2>4
<1>6. /\ \A k \in K : Place(R, K, k) \in K
      /\ \A k, l \in K : k < l => <<Place(R, K, k), Place(R, K, l)>> \in R
      /\ \A j \in K : \E k \in K : Place(R, K, k) = j
  <2>1. 1 .. Cardinality(K) = K /\ IsFiniteSet(K) BY <1>2
  <2> HIDE DEF K
  <2>2. /\ \A k \in 1 .. Cardinality(K) : Place(R, K, k) \in K
        /\ \A k, l \in 1 .. Cardinality(K) : k < l => <<Place(R, K, k), Place(R, K, l)>> \in R
        /\ \A x \in K : \E k \in 1 .. Cardinality(K) : Place(R, K, k) = x
    BY <1>4, <2>1, PlaceFacts
  <2> QED BY <2>1, <2>2
<1>7. up \in Seq(D) /\ Len(up) = n
  <2>1. DOMAIN up = K BY <1>0 DEF Sorted
  <2>2. up = [k \in K |-> up[k]] BY <1>0 DEF Sorted
  <2>3. \A k \in K : up[k] \in D BY <1>0, <1>5, <1>6
  <2> HIDE DEF up
  <2>4. up \in [1 .. n -> D] BY <2>2, <2>3
  <2> QED BY <1>0, <2>4
<1>8. \A k \in K : up[k].ts \in Nat /\ up[k].val \in Int BY <1>1, <1>5, <1>6
<1> HIDE DEF up
<1>9. ASSUME NEW k \in K, NEW l \in K, k <= l PROVE up[k].ts <= up[l].ts
  <2>1. CASE k = l BY <1>8, <2>1
  <2>2. CASE k < l
    <3>1. Before(s, Place(R, K, k), Place(R, K, l)) BY <1>3, <1>6, <2>2
    <3>2. up[k].ts < up[l].ts \/ up[k].ts = up[l].ts BY <1>5, <3>1 DEF Before
    <3> QED BY <1>8, <3>2
  <2> QED BY <1>0, <1>9, <2>1, <2>2
<1>10. Sampled(up) BY <1>0, <1>7, <1>8, <1>9 DEF Sampled
<1>11. \A j \in K : \E k \in K : up[k] = s[j] BY <1>5, <1>6
<1> QED BY <1>7, <1>10, <1>11 DEF up


-----------------------------------------------------------------------------
(* Padding.                                                                *)

\* A function that joins the first n of some sequences.
Joining(f, ss, n) ==
  f = [i \in 1 .. n |-> IF i = 1 THEN ss[i] ELSE f[i - 1] \o ss[i]]

LEMMA JoiningExists ==
  ASSUME NEW ss
  PROVE  \A n \in Nat : \E f : Joining(f, ss, n)
<1> DEFINE S == {n \in Nat : \E f : Joining(f, ss, n)}
<1>1. 0 \in S
  <2>1. Joining([i \in 1 .. 0 |-> 0], ss, 0) BY DEF Joining
  <2> QED BY <2>1
<1>2. ASSUME NEW n \in S PROVE n + 1 \in S
  <2>1. PICK f : Joining(f, ss, n) BY <1>2
  <2> DEFINE g == [i \in 1 .. n + 1 |->
                     IF i = n + 1 THEN IF i = 1 THEN ss[i] ELSE f[i - 1] \o ss[i] ELSE f[i]]
  <2>2. \A i \in 1 .. n : g[i] = f[i] OBVIOUS
  <2>3. \A i \in 1 .. n : f[i] = IF i = 1 THEN ss[i] ELSE f[i - 1] \o ss[i]
    BY <2>1 DEF Joining
  <2>4. g[n + 1] = IF n + 1 = 1 THEN ss[n + 1] ELSE f[n + 1 - 1] \o ss[n + 1] OBVIOUS
  <2>5. DOMAIN g = 1 .. n + 1 /\ g = [i \in 1 .. n + 1 |-> g[i]] OBVIOUS
  <2> HIDE DEF g
  <2>6. ASSUME NEW i \in 1 .. n + 1 PROVE g[i] = IF i = 1 THEN ss[i] ELSE g[i - 1] \o ss[i]
    <3>1. CASE i = n + 1
      <4>1. CASE i = 1 BY <2>4, <3>1, <4>1
      <4>2. CASE i # 1
        <5>1. n \in 1 .. n /\ i - 1 = n /\ n + 1 - 1 = n BY <3>1, <4>2
        <5> QED BY <2>2, <2>4, <3>1, <4>2, <5>1
      <4> QED BY <4>1, <4>2
    <3>2. CASE i # n + 1
      <4>1. i \in 1 .. n /\ (i # 1 => i - 1 \in 1 .. n) BY <3>2
      <4> QED BY <4>1, <2>2, <2>3
    <3> QED BY <3>1, <3>2
  <2>7. g = [i \in 1 .. n + 1 |-> IF i = 1 THEN ss[i] ELSE g[i - 1] \o ss[i]]
    BY <2>5, <2>6
  <2>8. Joining(g, ss, n + 1) BY <2>7 DEF Joining
  <2> QED BY <2>8
<1>3. S = Nat BY <1>1, <1>2, NatSet
<1> QED BY <1>3

\* Each sequence is before those that follow it.
InTurn(ss) ==
  \A i, j \in 1 .. Len(ss) : i < j =>
    \A x, y : Has(ss[i], x) /\ Has(ss[j], y) => x.ts < y.ts

LEMMA FlattenRising ==
  ASSUME NEW M, NEW ss \in Seq(Seq(M)), \A i \in 1 .. Len(ss) : Rising(ss[i]), InTurn(ss)
  PROVE  /\ FlattenSeq(ss) \in Seq(M) /\ Rising(FlattenSeq(ss))
         /\ \A x : Has(FlattenSeq(ss), x) <=> \E i \in 1 .. Len(ss) : Has(ss[i], x)
<1> DEFINE n == Len(ss)
<1>0. n \in Nat /\ \A i \in 1 .. n : ss[i] \in Seq(M) OBVIOUS
<1>1. CASE n = 0
  <2>1. FlattenSeq(ss) = <<>> BY <1>1 DEF FlattenSeq
  <2>2. <<>> \in Seq(M) /\ Rising(<<>>) /\ \A x : ~Has(<<>>, x) BY NoPiece DEF Piece
  <2> QED BY <1>1, <2>1, <2>2
<1>2. CASE n # 0
  <2> DEFINE f == CHOOSE f : f = [i \in 1 .. n |-> IF i = 1 THEN ss[i] ELSE f[i - 1] \o ss[i]]
  <2>1. FlattenSeq(ss) = f[n] BY <1>2 DEF FlattenSeq
  <2>2. \E g : Joining(g, ss, n) BY <1>0, JoiningExists
  <2>3. f = [i \in 1 .. n |-> IF i = 1 THEN ss[i] ELSE f[i - 1] \o ss[i]] BY <2>2 DEF Joining
  <2> HIDE DEF f
  <2>4. \A i \in 1 .. n : f[i] = IF i = 1 THEN ss[i] ELSE f[i - 1] \o ss[i] BY <2>3
  <2> DEFINE Good(i) == /\ f[i] \in Seq(M) /\ Rising(f[i])
                        /\ \A x : Has(f[i], x) <=> \E k \in 1 .. i : Has(ss[k], x)
             S == {i \in Nat : i + 1 <= n => Good(i + 1)}
  <2>5. Good(1)
    <3>1. f[1] = ss[1] BY <1>0, <1>2, <2>4
    <3>2. 1 .. 1 = {1} OBVIOUS
    <3> QED BY <1>0, <1>2, <3>1, <3>2
  <2>6. ASSUME NEW i \in Nat, i + 1 <= n => Good(i + 1), i + 2 <= n PROVE Good(i + 2)
    <3>0. i + 1 \in 1 .. n /\ i + 2 \in 1 .. n /\ Good(i + 1) BY <1>0, <2>6
    <3> DEFINE a == f[i + 1]
               b == ss[i + 2]
    <3>1. f[i + 2] = a \o b
      <4>1. i + 2 # 1 /\ i + 2 - 1 = i + 1 OBVIOUS
      <4>2. f[i + 2] = IF i + 2 = 1 THEN ss[i + 2] ELSE f[i + 2 - 1] \o ss[i + 2] BY <2>4, <3>0
      <4> QED BY <4>1, <4>2
    <3>2. a \in Seq(M) /\ b \in Seq(M) /\ Rising(a) /\ Rising(b) BY <1>0, <3>0
    <3>3. ASSUME NEW x, NEW y, Has(a, x), Has(b, y) PROVE x.ts < y.ts
      <4>1. PICK k \in 1 .. i + 1 : Has(ss[k], x) BY <3>0, <3>3
      <4>2. k \in 1 .. n /\ k < i + 2 BY <1>0, <3>0
      <4> QED BY <3>0, <3>3, <4>1, <4>2 DEF InTurn
    <3> HIDE DEF a, b
    <3>4. /\ a \o b \in Seq(M) /\ Rising(a \o b)
          /\ \A x : Has(a \o b, x) <=> Has(a, x) \/ Has(b, x)
      BY <3>2, <3>3, JoinRising
    <3>5. \A x : Has(a, x) <=> \E k \in 1 .. i + 1 : Has(ss[k], x) BY <3>0 DEF a
    <3>6. 1 .. i + 2 = 1 .. i + 1 \cup {i + 2} OBVIOUS
    <3>7. \A x : Has(a \o b, x) <=> \E k \in 1 .. i + 2 : Has(ss[k], x)
      BY <3>4, <3>5, <3>6 DEF b
    <3> QED BY <3>1, <3>4, <3>7
  <2> HIDE DEF Good
  <2>7. 0 \in S BY <2>5
  <2>8. ASSUME NEW i \in S PROVE i + 1 \in S BY <2>6, i + 1 + 1 = i + 2
  <2>9. S = Nat BY <2>7, <2>8, NatSet
  <2> HIDE DEF n
  <2>10. n - 1 \in Nat /\ n - 1 + 1 = n BY <1>0, <1>2
  <2>11. Good(n)
    <3>1. n - 1 \in S BY <2>9, <2>10
    <3>2. n - 1 + 1 <= n => Good(n - 1 + 1) BY <3>1
    <3>3. n <= n BY <1>0
    <3> QED BY <2>10, <3>2, <3>3
  <2> QED BY <2>1, <2>11 DEF Good, n
<1> QED BY <1>1, <1>2

\* A point, a break or padding.
Drawable == [kind : {"point", "null", "pad"}, ts : Int, val : Int]

LEMMA OneDrawable ==
  ASSUME NEW x \in Drawable
  PROVE  <<x>> \in Seq(Drawable) /\ Rising(<<x>>) /\ \A y : Has(<<x>>, y) <=> y = x
<1>1. <<x>> \in Seq(Drawable) /\ Len(<<x>>) = 1 /\ <<x>>[1] = x OBVIOUS
<1>2. Rising(<<x>>) BY DEF Rising
<1>3. \A y : Has(<<x>>, y) <=> y = x
  <2> DEFINE o == <<x>>
  <2>1. 1 .. Len(o) = {1} /\ o[1] = x OBVIOUS
  <2> HIDE DEF o
  <2>2. \A y : Has(o, y) <=> y = x BY <2>1 DEF Has
  <2> QED BY <2>2 DEF o
<1> QED BY <1>1, <1>2, <1>3

\* Padding or none, before a point or after it.
LEMMA MaybePad ==
  ASSUME NEW c \in BOOLEAN, NEW t \in Int, NEW v \in Int
  PROVE  LET o == IF c THEN <<Output("pad", t, v)>> ELSE <<>> IN
         /\ o \in Seq(Drawable) /\ Rising(o)
         /\ \A y : Has(o, y) <=> c /\ y = Output("pad", t, v)
<1>1. Output("pad", t, v) \in Drawable BY DEF Output, Drawable
<1>2. CASE c BY <1>1, <1>2, OneDrawable
<1>3. CASE ~c
  <2>1. <<>> \in Seq(Drawable) /\ Rising(<<>>) /\ \A y : ~Has(<<>>, y) BY NoPiece DEF Piece
  <2> QED BY <1>3, <2>1
<1> QED BY <1>2, <1>3

LEMMA Nearest ==
  ASSUME NEW a \in Int, NEW b \in Int, NEW c \in BOOLEAN
  PROVE  /\ Max({a} \cup IF c THEN {b} ELSE {}) \in Int
         /\ c => Max({a} \cup IF c THEN {b} ELSE {}) >= b
         /\ Min({a} \cup IF c THEN {b} ELSE {}) \in Int
         /\ c => Min({a} \cup IF c THEN {b} ELSE {}) <= b
<1> DEFINE S == {a} \cup IF c THEN {b} ELSE {}
<1>1. a \in S /\ (c => b \in S) /\ S \subseteq Int /\ \A x \in S : x = a \/ (c /\ x = b) OBVIOUS
<1> HIDE DEF S
<1>2. \E x \in S : \A y \in S : x >= y BY <1>1
<1>3. \E x \in S : \A y \in S : x <= y BY <1>1
<1>4. Max(S) \in S /\ \A y \in S : Max(S) >= y BY <1>2 DEF Max
<1>5. Min(S) \in S /\ \A y \in S : Min(S) <= y BY <1>3 DEF Min
<1>6. Max(S) \in Int /\ (c => Max(S) >= b) /\ Min(S) \in Int /\ (c => Min(S) <= b)
  BY <1>1, <1>4, <1>5
<1> QED BY <1>6 DEF S

\* A point gets padding only where no line reaches it, and the padding lies between the
\* outputs on its two sides.
Padded(out, i, o) ==
  /\ o \in Seq(Drawable) /\ Rising(o) /\ Has(o, out[i])
  /\ \A x : Has(o, x) /\ x # out[i] =>
       /\ x.kind = "pad" /\ out[i].kind = "point"
       /\ i > 1 => out[i - 1].ts < x.ts /\ out[i - 1].kind = "null"
       /\ i < Len(out) => x.ts < out[i + 1].ts /\ out[i + 1].kind = "null"

LEMMA PadFacts ==
  ASSUME NEW out, Piece(out), NEW i \in 1 .. Len(out), NEW sse, sse.val \in Int
  PROVE  Padded(out, i, PadAt(out, i, sse))
<1> DEFINE p == out[i]
           stranded == /\ p.kind = "point"
                       /\ i = 1 \/ out[i - 1].kind = "null"
                       /\ i = Len(out) \/ out[i + 1].kind = "null"
           val == IF sse.mode = "repeat" THEN p.val ELSE sse.val
           left == Max({p.ts - PadWidth} \cup IF i > 1 THEN {out[i - 1].ts + 1} ELSE {})
           right == Min({p.ts + PadWidth} \cup IF i < Len(out) THEN {out[i + 1].ts - 1} ELSE {})
           a == IF left < p.ts THEN <<Output("pad", left, val)>> ELSE <<>>
           b == IF right > p.ts THEN <<Output("pad", right, val)>> ELSE <<>>
<1>0. Len(out) \in Nat /\ i \in Int /\ \A k \in 1 .. Len(out) : out[k] \in Mark BY DEF Piece
<1>1. \A k \in 1 .. Len(out) : out[k].ts \in Nat /\ out[k].val \in Int BY <1>0 DEF Mark
<1>2. p \in Drawable /\ p.ts \in Int /\ p.val \in Int BY <1>0, <1>1 DEF Mark, Drawable
<1>3. PadAt(out, i, sse) = IF ~stranded \/ sse.mode = "off" THEN <<p>> ELSE a \o <<p>> \o b
  BY DEF PadAt
<1>4. i > 1 => i - 1 \in 1 .. Len(out) /\ out[i - 1].ts \in Int BY <1>0, <1>1
<1>5. i < Len(out) => i + 1 \in 1 .. Len(out) /\ out[i + 1].ts \in Int BY <1>0, <1>1
<1>6. val \in Int BY <1>2
<1>7. left \in Int /\ (i > 1 => left > out[i - 1].ts)
  <2>0. p.ts - PadWidth \in Int BY <1>2, RenderAssumption
  <2>1. CASE i > 1
    <3>1. out[i - 1].ts + 1 \in Int BY <1>4, <2>1
    <3>2. left \in Int /\ left >= out[i - 1].ts + 1
      <4> HIDE DEF p
      <4> QED BY <2>0, <2>1, <3>1, Nearest
    <3> QED BY <1>4, <2>1, <3>2
  <2>2. CASE ~(i > 1)
    <3> HIDE DEF p
    <3>1. left = Max({p.ts - PadWidth} \cup {}) BY <2>2
    <3>2. Max({p.ts - PadWidth} \cup {}) \in Int BY <2>0 DEF Max
    <3> QED BY <2>2, <3>1, <3>2
  <2> QED BY <2>1, <2>2
<1>8. right \in Int /\ (i < Len(out) => right < out[i + 1].ts)
  <2>0. p.ts + PadWidth \in Int BY <1>2, RenderAssumption
  <2>1. CASE i < Len(out)
    <3>1. out[i + 1].ts - 1 \in Int BY <1>5, <2>1
    <3>2. right \in Int /\ right <= out[i + 1].ts - 1
      <4> HIDE DEF p
      <4> QED BY <2>0, <2>1, <3>1, Nearest
    <3> QED BY <1>5, <2>1, <3>2
  <2>2. CASE ~(i < Len(out))
    <3> HIDE DEF p
    <3>1. right = Min({p.ts + PadWidth} \cup {}) BY <2>2
    <3>2. Min({p.ts + PadWidth} \cup {}) \in Int BY <2>0 DEF Min
    <3> QED BY <2>2, <3>1, <3>2
  <2> QED BY <2>1, <2>2
<1>9. <<p>> \in Seq(Drawable) /\ Rising(<<p>>) /\ \A y : Has(<<p>>, y) <=> y = p
  BY <1>2, OneDrawable
<1> HIDE DEF left, right, val, p
<1>10. /\ a \in Seq(Drawable) /\ Rising(a)
       /\ \A y : Has(a, y) <=> left < p.ts /\ y = Output("pad", left, val)
  BY <1>2, <1>6, <1>7, MaybePad
<1>11. /\ b \in Seq(Drawable) /\ Rising(b)
       /\ \A y : Has(b, y) <=> right > p.ts /\ y = Output("pad", right, val)
  BY <1>2, <1>6, <1>8, MaybePad
<1> HIDE DEF a, b
<1>12. CASE ~stranded \/ sse.mode = "off"
  <2>1. PadAt(out, i, sse) = <<p>> BY <1>3, <1>12
  <2> QED BY <1>9, <2>1 DEF Padded, p
<1>13. CASE ~(~stranded \/ sse.mode = "off")
  <2> DEFINE l == Output("pad", left, val)
             r == Output("pad", right, val)
  <2>0. l.ts = left /\ r.ts = right /\ l.kind = "pad" /\ r.kind = "pad" BY DEF Output
  <2> HIDE DEF l, r
  <2>1. \A x, y : Has(a, x) /\ Has(<<p>>, y) => x.ts < y.ts BY <1>9, <1>10, <2>0 DEF l
  <2>2. /\ a \o <<p>> \in Seq(Drawable) /\ Rising(a \o <<p>>)
        /\ \A x : Has(a \o <<p>>, x) <=> Has(a, x) \/ Has(<<p>>, x)
    BY <1>9, <1>10, <2>1, JoinRising
  <2>3. \A x, y : Has(a \o <<p>>, x) /\ Has(b, y) => x.ts < y.ts
    BY <1>2, <1>7, <1>8, <1>9, <1>10, <1>11, <2>0, <2>2 DEF l, r
  <2> DEFINE o == a \o <<p>> \o b
  <2>4. /\ o \in Seq(Drawable) /\ Rising(o)
        /\ \A x : Has(o, x) <=> Has(a \o <<p>>, x) \/ Has(b, x)
    BY <1>11, <2>2, <2>3, JoinRising
  <2>5. PadAt(out, i, sse) = o BY <1>3, <1>13
  <2> HIDE DEF o
  <2>6. ASSUME NEW x, Has(o, x), x # p
        PROVE  /\ x.kind = "pad" /\ p.kind = "point"
               /\ i > 1 => out[i - 1].ts < x.ts /\ out[i - 1].kind = "null"
               /\ i < Len(out) => x.ts < out[i + 1].ts /\ out[i + 1].kind = "null"
    <3>1. (left < p.ts /\ x = l) \/ (right > p.ts /\ x = r)
      BY <1>9, <1>10, <1>11, <2>2, <2>4, <2>6 DEF l, r
    <3>2. x.kind = "pad" /\ x.ts \in Int BY <1>7, <1>8, <2>0, <3>1
    <3>3. i > 1 => out[i - 1].ts < p.ts BY <1>0, <1>4 DEF Piece, Rising, p
    <3>4. i < Len(out) => p.ts < out[i + 1].ts BY <1>0, <1>5 DEF Piece, Rising, p
    <3>5. i > 1 => out[i - 1].ts < x.ts BY <1>2, <1>4, <1>7, <1>8, <2>0, <3>1, <3>3
    <3>6. i < Len(out) => x.ts < out[i + 1].ts BY <1>2, <1>5, <1>7, <1>8, <2>0, <3>1, <3>4
    <3>7. i > 1 => i # 1 BY <1>0
    <3>8. i < Len(out) => i # Len(out) BY <1>0
    <3> QED BY <1>13, <3>2, <3>5, <3>6, <3>7, <3>8
  <2>7. Has(o, p) BY <1>9, <2>2, <2>4
  <2> QED BY <2>4, <2>5, <2>6, <2>7 DEF Padded, p
<1> QED BY <1>12, <1>13

\* Padding adds nothing but padding, and keeps the order.
LEMMA PaddingFacts ==
  ASSUME NEW out, Piece(out), NEW sse, sse.val \in Int
  PROVE  LET o == FlattenSeq([i \in DOMAIN out |-> PadAt(out, i, sse)]) IN
         /\ o \in Seq(Drawable) /\ Rising(o)
         /\ \A x : Has(o, x) /\ x.kind # "pad" <=> Has(out, x)
<1> DEFINE n == Len(out)
           ss == [i \in DOMAIN out |-> PadAt(out, i, sse)]
<1>0. n \in Nat /\ DOMAIN out = 1 .. n /\ \A k \in 1 .. n : out[k] \in Mark BY DEF Piece
<1>1. \A k \in 1 .. n : out[k].ts \in Nat /\ out[k].kind # "pad" BY <1>0 DEF Mark
<1>2. \A i \in 1 .. n : ss[i] = PadAt(out, i, sse) BY <1>0
<1>3. \A i \in 1 .. n : Padded(out, i, ss[i]) BY <1>2, PadFacts
<1>4. ss = [i \in 1 .. n |-> ss[i]] BY <1>0
<1> HIDE DEF ss
<1>5. \A i \in 1 .. n : ss[i] \in Seq(Drawable) /\ Rising(ss[i]) BY <1>3 DEF Padded
<1>6. ss \in Seq(Seq(Drawable)) /\ Len(ss) = n
  <2>1. ss \in [1 .. n -> Seq(Drawable)] BY <1>4, <1>5
  <2> QED BY <1>0, <2>1
<1>7. \A i, j \in 1 .. n : i < j => out[i].ts < out[j].ts BY DEF Piece, Rising
<1>8. ASSUME NEW i \in 1 .. n, NEW j \in 1 .. n, i < j, NEW x, NEW y, Has(ss[i], x), Has(ss[j], y)
      PROVE  x.ts < y.ts
  <2>1. i + 1 \in 1 .. n /\ j - 1 \in 1 .. n /\ i < n /\ j > 1 /\ i + 1 <= j /\ i <= j - 1
        /\ i \in Int /\ j \in Int
    BY <1>0, <1>8
  <2>2. out[i].ts \in Int /\ out[j].ts \in Int /\ out[i + 1].ts \in Int /\ out[j - 1].ts \in Int
    BY <1>1, <2>1
  <2>3. x # out[i] => x.ts < out[i + 1].ts /\ out[i + 1].kind = "null"
    BY <1>3, <1>8, <2>1 DEF Padded
  <2>4. y # out[j] => out[j - 1].ts < y.ts /\ out[j].kind = "point"
    BY <1>3, <1>8, <2>1 DEF Padded
  <2>5. x.ts \in Int /\ y.ts \in Int
    <3>1. x \in Drawable BY <1>5, <1>8 DEF Has
    <3>2. y \in Drawable BY <1>5, <1>8 DEF Has
    <3> QED BY <3>1, <3>2 DEF Drawable
  <2>6. CASE x = out[i] /\ y = out[j] BY <1>7, <1>8, <2>6
  <2>7. CASE x = out[i] /\ y # out[j]
    <3>1. out[i].ts <= out[j - 1].ts
      <4>1. i = j - 1 \/ i < j - 1 BY <2>1
      <4> QED BY <1>7, <2>1, <2>2, <4>1
    <3> QED BY <2>2, <2>4, <2>5, <2>7, <3>1
  <2>8. CASE x # out[i] /\ y = out[j]
    <3>1. out[i + 1].ts <= out[j].ts
      <4>1. i + 1 = j \/ i + 1 < j BY <2>1
      <4> QED BY <1>7, <2>1, <2>2, <4>1
    <3> QED BY <2>2, <2>3, <2>5, <2>8, <3>1
  <2>9. CASE x # out[i] /\ y # out[j]
    <3>1. i + 1 # j BY <2>3, <2>4, <2>9
    <3>2. out[i + 1].ts <= out[j - 1].ts
      <4>1. i + 1 = j - 1 \/ i + 1 < j - 1 BY <2>1, <3>1
      <4> QED BY <1>7, <2>1, <2>2, <4>1
    <3> QED BY <2>2, <2>3, <2>4, <2>5, <2>9, <3>2
  <2> QED BY <2>6, <2>7, <2>8, <2>9
<1>9. InTurn(ss) BY <1>6, <1>8 DEF InTurn
<1> DEFINE o == FlattenSeq(ss)
<1>10. /\ o \in Seq(Drawable) /\ Rising(o)
       /\ \A x : Has(o, x) <=> \E i \in 1 .. n : Has(ss[i], x)
  BY <1>5, <1>6, <1>9, FlattenRising
<1> HIDE DEF o
<1>11. ASSUME NEW x, Has(o, x), x.kind # "pad" PROVE Has(out, x)
  <2>1. PICK i \in 1 .. n : Has(ss[i], x) BY <1>10, <1>11
  <2>2. x = out[i] BY <1>3, <1>11, <2>1 DEF Padded
  <2> QED BY <2>2 DEF Has
<1>12. ASSUME NEW x, Has(out, x) PROVE Has(o, x) /\ x.kind # "pad"
  <2>1. PICK i \in 1 .. n : out[i] = x BY <1>12 DEF Has
  <2>2. Has(ss[i], x) BY <1>3, <2>1 DEF Padded
  <2> QED BY <1>1, <1>10, <2>1, <2>2
<1> QED BY <1>10, <1>11, <1>12 DEF o, ss

\* What Series sends of a series, whatever its samples, in whatever order they were
\* scanned, its modifiers and its window: the times increase strictly, padding included;
\* every point is the worth of a sample; every sample has a point as high and one as low
\* no further than a window away; and no two points are joined across a missed cadence.
THEOREM SeriesAreHonest ==
  ASSUME NEW D, \A x \in D : x.ts \in Nat /\ x.val \in Int, NEW points \in Seq(D),
         NEW spec, SpecOK(spec), spec.sse.val \in Int, NEW w \in Nat
  PROVE  LET s == Sorted(points) out == Series(points, spec, w) IN
         /\ out \in Seq(Drawable) /\ Rising(out)
         /\ AllWorth(s, spec, Len(s), out)
         /\ \A j \in 1 .. Len(s) : \A p : IsWorth(s, spec, j, p) => Covers(out, w, p)
         /\ \A j \in 2 .. Len(s) : Missed(s, spec, j) => Parted(out, s[j - 1].ts, s[j].ts)
<1> DEFINE s == Sorted(points)
           bare == Outputs(s, spec, w)
           out == Series(points, spec, w)
<1>1. Sampled(s) BY SortedFacts
<1> HIDE DEF s
<1>2. /\ Rising(bare) /\ AllWorth(s, spec, Len(s), bare)
      /\ \A j \in 1 .. Len(s) : \A p : IsWorth(s, spec, j, p) => Covers(bare, w, p)
      /\ \A j \in 2 .. Len(s) : Missed(s, spec, j) => Parted(bare, s[j - 1].ts, s[j].ts)
  BY <1>1, WalksAreHonest
<1>3. Piece(bare)
  <2>1. Honest(s, spec, w, Len(s), Len(s), bare) \/ bare = <<>> BY <1>1, OutputsHonest
  <2> QED BY <2>1, NoPiece DEF Honest
<1> HIDE DEF bare
<1>4. out = FlattenSeq([i \in DOMAIN bare |-> PadAt(bare, i, spec.sse)])
  BY DEF Series, s, bare
<1> HIDE DEF out
<1>5. /\ out \in Seq(Drawable) /\ Rising(out)
      /\ \A x : Has(out, x) /\ x.kind # "pad" <=> Has(bare, x)
  BY <1>3, <1>4, PaddingFacts
<1>6. \A x : (HasPoint(out, x) <=> HasPoint(bare, x)) /\ (HasNull(out, x) <=> HasNull(bare, x))
  BY <1>5 DEF HasPoint, HasNull
<1>7. AllWorth(s, spec, Len(s), out) BY <1>2, <1>6 DEF AllWorth
<1>8. \A p : Covers(bare, w, p) => Covers(out, w, p) BY <1>6 DEF Covers
<1>9. \A t, u : Parted(bare, t, u) => Parted(out, t, u) BY <1>6 DEF Parted
<1>10. /\ out \in Seq(Drawable) /\ Rising(out)
       /\ AllWorth(s, spec, Len(s), out)
       /\ \A j \in 1 .. Len(s) : \A p : IsWorth(s, spec, j, p) => Covers(out, w, p)
       /\ \A j \in 2 .. Len(s) : Missed(s, spec, j) => Parted(out, s[j - 1].ts, s[j].ts)
  BY <1>2, <1>5, <1>7, <1>8, <1>9
<1> QED BY <1>10 DEF s, out

-----------------------------------------------------------------------------
(* What a query draws.                                                     *)

\* A graph starts no earlier than the epoch: -1 is the walk's mark of no time.
FromEpoch == \A q \in Queries : q.fmt = "series" => q.from >= 0

\* The rows of graphs.
Timed == {r \in Pool : r.ts >= 0}

LEMMA WindowNat ==
  ASSUME NEW range \in Int, NEW maxPoints \in Int, NEW interval \in Int
  PROVE  SingleWindow(range, maxPoints, interval) \in Nat
         /\ Window(range, maxPoints, interval) \in Nat
<1> DEFINE n == IF maxPoints <= 0 THEN 1 ELSE maxPoints
           w == range \div n
           u == IF interval > 0 /\ interval < w THEN interval ELSE w
<1>1. n \in Nat /\ n > 0 OBVIOUS
<1> HIDE DEF n
<1>2. w \in Int BY <1>1
<1> HIDE DEF w
<1>3. u \in Int BY <1>2
<1> HIDE DEF u
<1>4. \E x \in {0, u} : \A y \in {0, u} : x >= y BY <1>3
<1>5. Max({0, u}) \in {0, u} /\ Max({0, u}) >= 0 BY <1>4 DEF Max
<1>6. Max({0, u}) \in Nat BY <1>3, <1>5
<1>7. SingleWindow(range, maxPoints, interval) = Max({0, u}) BY DEF SingleWindow, u, w, n
<1> QED BY <1>6, <1>7 DEF Window

LEMMA ResolveFacts ==
  ASSUME NEW q \in Queries
  PROVE  SpecOK(Resolve(q)) /\ Resolve(q).sse.val \in Int
<1>1. /\ q.from \in Int /\ q.to \in Int /\ q.mods.gap \in Int /\ q.mods.sse.val \in Int
      /\ Info.gap \in Nat /\ Info.min \in Int /\ Info.max \in Int
  BY QueryAssumption, GraphAssumption
<1> DEFINE m == q.mods
           C == [on : BOOLEAN, hasMin : BOOLEAN, min : Int, hasMax : BOOLEAN, max : Int,
                 elseRaw : BOOLEAN]
           ordered == ~(Info.hasMin /\ Info.hasMax) \/ Info.min <= Info.max
           given == [m.clamp EXCEPT !.hasMin = Info.hasMin, !.min = Info.min,
                                    !.hasMax = Info.hasMax, !.max = Info.max,
                                    !.elseRaw = m.delta]
           limits == IF m.clamp.on THEN m.clamp ELSE IF ~m.negate /\ ordered THEN given ELSE m.clamp
<1>2. m.clamp \in C BY GraphAssumption
<1> HIDE DEF m
<1>3. given.min = Info.min /\ given.max = Info.max BY <1>2
<1> HIDE DEF given
<1>4. limits.min \in Int /\ limits.max \in Int
  <2>1. m.clamp.min \in Int /\ m.clamp.max \in Int BY <1>2
  <2> QED BY <1>1, <1>3, <2>1
<1> HIDE DEF limits
<1>5. Resolve(q) = [delta |-> m.delta, rate |-> m.rate, negate |-> m.negate,
                    gap |-> IF m.gap >= 0 THEN m.gap ELSE Info.gap,
                    hasMin |-> limits.hasMin, min |-> limits.min,
                    hasMax |-> limits.hasMax, max |-> limits.max, elseRaw |-> limits.elseRaw,
                    sse |-> IF q.alert THEN [mode |-> "off", val |-> 0] ELSE m.sse,
                    end |-> IF q.alert THEN 0 ELSE q.to]
  BY DEF Resolve, limits, given, m
<1>6. Resolve(q).min \in Int /\ Resolve(q).max \in Int BY <1>4, <1>5
<1>7. Resolve(q).gap \in Nat
  <2>1. Resolve(q).gap = IF m.gap >= 0 THEN m.gap ELSE Info.gap BY <1>5
  <2>2. m.gap \in Int BY <1>1 DEF m
  <2> QED BY <1>1, <2>1, <2>2
<1>8. Resolve(q).end \in Int
  <2>1. Resolve(q).end = IF q.alert THEN 0 ELSE q.to BY <1>5
  <2> QED BY <1>1, <2>1
<1>9. Resolve(q).sse.val \in Int
  <2>1. Resolve(q).sse = IF q.alert THEN [mode |-> "off", val |-> 0] ELSE m.sse BY <1>5
  <2>2. m.sse.val \in Int BY <1>1 DEF m
  <2> QED BY <2>1, <2>2
<1> QED BY <1>6, <1>7, <1>8, <1>9 DEF SpecOK

LEMMA SeriesWindowNat ==
  ASSUME NEW q \in Queries
  PROVE  SeriesWindow(q) \in Nat
<1>1. q.every \in Int /\ q.maxdp \in Int /\ q.interval \in Int /\ q.to - q.from \in Int
  BY QueryAssumption, GraphAssumption
<1>2. Window(q.to - q.from, q.maxdp, q.interval) \in Nat BY <1>1, WindowNat
<1> QED BY <1>1, <1>2 DEF SeriesWindow

\* The samples of a series are the rows kept of it, in the order they came in.
LEMMA PointsInFacts ==
  ASSUME IInv, FromEpoch, Done({"series"}), NEW g
  PROVE  /\ PointsIn(job, g) \in Seq(Timed)
         /\ \A x \in job.kept : Group(job.query, x.row) = g =>
              \E k \in 1 .. Len(PointsIn(job, g)) : PointsIn(job, g)[k] = x.row
<1> DEFINE mine == {x \in job.kept : Group(job.query, x.row) = g}
           R == {e \in mine \X mine : e[1].n < e[2].n}
           n == Cardinality(mine)
           p == PointsIn(job, g)
<1>1. Reading /\ JobType /\ job.query.fmt = "series" BY DEF IInv, JobInv, Done
<1>2. /\ job.query \in Queries /\ IsFiniteSet(job.kept)
      /\ \A x, y \in job.kept : x.n = y.n => x = y
      /\ \A x \in job.kept : Passes(x.row)
  BY <1>1 DEF Reading, Counted, Passed
<1>3. job.kept \subseteq [n : Nat, row : Pool] BY <1>1 DEF JobType
<1>4. \A x \in job.kept : x.row \in Timed /\ x.n \in Nat
  <2> SUFFICES ASSUME NEW x \in job.kept PROVE x.row \in Timed /\ x.n \in Nat OBVIOUS
  <2>1. x.row \in Pool /\ x.n \in Nat BY <1>3
  <2>2. x.row.ts \in Int /\ job.query.from \in Int BY <1>2, <2>1, QueryAssumption
  <2>3. job.query.from >= 0 BY <1>1, <1>2 DEF FromEpoch
  <2>4. x.row.ts >= job.query.from BY <1>2 DEF Passes
  <2> QED BY <2>1, <2>2, <2>3, <2>4 DEF Timed
<1>5. mine \in SUBSET job.kept OBVIOUS
<1>6. IsFiniteSet(mine) BY <1>2, <1>5, FS_Subset
<1>7. \A x, y \in mine : <<x, y>> \in R <=> x.n < y.n OBVIOUS
<1>8. \A x \in job.kept : Group(job.query, x.row) = g => x \in mine OBVIOUS
<1>9. p = [k \in 1 .. n |-> (CHOOSE x \in mine : Cardinality({y \in mine : y.n < x.n}) = k - 1).row]
  BY DEF PointsIn
<1> HIDE DEF R, mine, p
<1>10. StrictOrder(R, mine)
  <2>1. \A x \in mine : x.n \in Nat BY <1>4, <1>5
  <2>2. \A x \in mine : <<x, x>> \notin R BY <1>7, <2>1
  <2>3. \A x, y \in mine : x # y => <<x, y>> \in R \/ <<y, x>> \in R
    <3> SUFFICES ASSUME NEW x \in mine, NEW y \in mine, x # y PROVE x.n < y.n \/ y.n < x.n BY <1>7
    <3>1. x.n # y.n BY <1>2, <1>5
    <3> QED BY <2>1, <3>1
  <2>4. \A x, y, z \in mine : <<x, y>> \in R /\ <<y, z>> \in R => <<x, z>> \in R
    <3> SUFFICES ASSUME NEW x \in mine, NEW y \in mine, NEW z \in mine, x.n < y.n, y.n < z.n
                 PROVE  x.n < z.n
      BY <1>7
    <3> QED BY <2>1
  <2> QED BY <2>2, <2>3, <2>4 DEF StrictOrder
<1>11. ASSUME NEW k \in 1 .. n PROVE p[k] = Place(R, mine, k).row
  <2>1. \A x \in mine : {y \in mine : y.n < x.n} = Below(R, mine, x) BY <1>7 DEF Below
  <2> DEFINE place == CHOOSE x \in mine : Cardinality({y \in mine : y.n < x.n}) = k - 1
  <2>2. p[k] = place.row BY <1>9
  <2>3. place = Place(R, mine, k) BY <2>1 DEF Place
  <2> HIDE DEF place
  <2> QED BY <2>2, <2>3
<1>12. /\ n \in Nat /\ \A k \in 1 .. n : Place(R, mine, k) \in mine
       /\ \A x \in mine : \E k \in 1 .. n : Place(R, mine, k) = x
  BY <1>6, <1>10, PlaceFacts
<1> HIDE DEF n
<1>13. p \in Seq(Timed) /\ Len(p) = n
  <2>1. \A k \in 1 .. n : p[k] \in Timed
    <3> SUFFICES ASSUME NEW k \in 1 .. n PROVE p[k] \in Timed OBVIOUS
    <3>1. Place(R, mine, k) \in job.kept BY <1>5, <1>12
    <3> QED BY <1>4, <1>11, <3>1
  <2>2. p = [k \in 1 .. n |-> p[k]] BY <1>9
  <2>3. p \in [1 .. n -> Timed] BY <2>1, <2>2
  <2> QED BY <1>12, <2>3
<1>14. ASSUME NEW x \in job.kept, Group(job.query, x.row) = g PROVE \E k \in 1 .. Len(p) : p[k] = x.row
  <2>1. x \in mine BY <1>8, <1>14
  <2>2. PICK k \in 1 .. n : Place(R, mine, k) = x BY <1>12, <2>1
  <2> QED BY <1>11, <1>13, <2>2
<1> QED BY <1>13, <1>14 DEF p

\* What the theorem on series says of one that a query draws.
LEMMA DrawnSeries ==
  ASSUME IInv, FromEpoch, Done({"series"}), NEW g \in SeriesOf(job.query, job.kept)
  PROVE  LET s == Sorted(PointsIn(job, g))
             out == SeriesAnswer(job)[g]
             spec == Resolve(job.query)
             w == SeriesWindow(job.query)
         IN /\ SpecOK(spec) /\ Sampled(s) /\ s \in Seq(Timed)
            /\ out \in Seq(Drawable) /\ Rising(out)
            /\ AllWorth(s, spec, Len(s), out)
            /\ \A j \in 1 .. Len(s) : \A p : IsWorth(s, spec, j, p) => Covers(out, w, p)
            /\ \A j \in 2 .. Len(s) : Missed(s, spec, j) => Parted(out, s[j - 1].ts, s[j].ts)
<1> DEFINE points == PointsIn(job, g)
           s == Sorted(points)
           out == SeriesAnswer(job)[g]
           spec == Resolve(job.query)
           w == SeriesWindow(job.query)
<1>1. job.query \in Queries BY DEF IInv, JobInv, Done, Reading
<1>2. points \in Seq(Timed) BY PointsInFacts
<1>3. \A x \in Timed : x.ts \in Nat /\ x.val \in Int BY QueryAssumption DEF Timed
<1>4. SpecOK(spec) /\ spec.sse.val \in Int /\ w \in Nat BY <1>1, ResolveFacts, SeriesWindowNat
<1>5. out = Series(points, spec, w) BY DEF SeriesAnswer
<1> HIDE DEF points, spec, w, out
<1>6. /\ out \in Seq(Drawable) /\ Rising(out)
      /\ AllWorth(s, spec, Len(s), out)
      /\ \A j \in 1 .. Len(s) : \A p : IsWorth(s, spec, j, p) => Covers(out, w, p)
      /\ \A j \in 2 .. Len(s) : Missed(s, spec, j) => Parted(out, s[j - 1].ts, s[j].ts)
  BY <1>2, <1>3, <1>4, <1>5, SeriesAreHonest
<1>7. Sampled(s) /\ s \in Seq(Timed) BY <1>2, <1>3, SortedFacts
<1> QED BY <1>4, <1>6, <1>7 DEF points, spec, w, out

\* A graph never joins two points by a line across a missed cadence, whatever was stored,
\* read, clamped, downsampled and padded on the way.
THEOREM BreaksAreShown ==
  ASSUME FromEpoch
  PROVE  Spec => []BreaksShown
<1>1. ASSUME IInv PROVE BreaksShown
  <2> SUFFICES ASSUME Done({"series"}), NEW g \in SeriesOf(job.query, job.kept)
               PROVE  LET out == SeriesAnswer(job)[g]
                          raw == Sorted(PointsIn(job, g))
                          gap == Resolve(job.query).gap
                      IN \A i \in 1 .. Len(out) - 1 :
                           out[i].kind = "point" /\ out[i + 1].kind = "point" /\ gap # 0 =>
                             \A k \in 1 .. Len(raw) - 1 :
                               raw[k].ts >= out[i].ts /\ raw[k + 1].ts <= out[i + 1].ts
                                 => raw[k + 1].ts - raw[k].ts <= gap
    BY DEF BreaksShown
  <2> DEFINE out == SeriesAnswer(job)[g]
             raw == Sorted(PointsIn(job, g))
             spec == Resolve(job.query)
  <2>1. /\ SpecOK(spec) /\ Sampled(raw) /\ raw \in Seq(Timed)
        /\ out \in Seq(Drawable) /\ Rising(out)
        /\ \A j \in 2 .. Len(raw) : Missed(raw, spec, j) => Parted(out, raw[j - 1].ts, raw[j].ts)
    BY <1>1, DrawnSeries
  <2> HIDE DEF out, raw, spec
  <2>2. ASSUME NEW i \in 1 .. Len(out) - 1, out[i].kind = "point", out[i + 1].kind = "point",
               spec.gap # 0, NEW k \in 1 .. Len(raw) - 1,
               raw[k].ts >= out[i].ts, raw[k + 1].ts <= out[i + 1].ts
        PROVE  raw[k + 1].ts - raw[k].ts <= spec.gap
    <3>0. Len(raw) \in Nat /\ Len(out) \in Nat BY <2>1
    <3>1. k \in 1 .. Len(raw) /\ k + 1 \in 2 .. Len(raw) /\ k + 1 \in 1 .. Len(raw) /\ k + 1 - 1 = k
      BY <3>0
    <3>2. raw[k].ts \in Nat /\ raw[k + 1].ts \in Nat /\ spec.gap \in Nat
      BY <2>1, <3>1 DEF Sampled, SpecOK
    <3>3. i \in 1 .. Len(out) /\ i + 1 \in 1 .. Len(out) /\ i \in Int BY <3>0
    <3>4. \A m \in 1 .. Len(out) : out[m].ts \in Int
      <4>1. \A m \in 1 .. Len(out) : out[m] \in Drawable BY <2>1
      <4> QED BY <4>1 DEF Drawable
    <3> SUFFICES ASSUME ~(raw[k + 1].ts - raw[k].ts <= spec.gap) PROVE FALSE OBVIOUS
    <3>5. Missed(raw, spec, k + 1) BY <2>2, <3>1, <3>2 DEF Missed
    <3>6. Parted(out, raw[k].ts, raw[k + 1].ts) BY <2>1, <3>1, <3>5
    <3>7. HasPoint(out, out[i]) /\ HasPoint(out, out[i + 1]) BY <2>2, <3>3 DEF HasPoint, Has
    <3>8. out[i].ts <= raw[k].ts /\ raw[k + 1].ts <= out[i + 1].ts BY <2>2, <3>2, <3>3, <3>4
    <3>9. PICK x : HasNull(out, x) /\ out[i].ts < x.ts /\ x.ts < out[i + 1].ts
      BY <3>6, <3>7, <3>8 DEF Parted
    <3>10. PICK m \in 1 .. Len(out) : out[m] = x BY <3>9 DEF HasNull, Has
    <3>11. m <= i \/ m >= i + 1 BY <3>3
    <3>12. m <= i => out[m].ts <= out[i].ts BY <2>1, <3>3, <3>4 DEF Rising
    <3>13. m >= i + 1 => out[m].ts >= out[i + 1].ts BY <2>1, <3>3, <3>4 DEF Rising
    <3> QED BY <3>3, <3>4, <3>9, <3>10, <3>11, <3>12, <3>13
  <2> QED BY <2>2 DEF out, raw, spec
<1> QED BY <1>1, InvHolds, PTL

\* The highest of some numbers.
LEMMA Highest ==
  ASSUME NEW n \in Nat, NEW P, P \subseteq 1 .. n, P # {}, NEW v, \A i \in P : v[i] \in Int
  PROVE  \E i \in P : \A j \in P : v[i] >= v[j]
<1> DEFINE Q(m) == P \cap 1 .. m
           Good(m) == Q(m) # {} => \E i \in Q(m) : \A j \in Q(m) : v[i] >= v[j]
           S == {m \in Nat : Good(m)}
<1>1. 0 \in S OBVIOUS
<1>2. ASSUME NEW m \in S PROVE m + 1 \in S
  <2>1. m \in Nat /\ Good(m) OBVIOUS
  <2>2. Q(m + 1) = IF m + 1 \in P THEN Q(m) \cup {m + 1} ELSE Q(m) BY <2>1
  <2>3. \A i \in Q(m) \cup Q(m + 1) : v[i] \in Int OBVIOUS
  <2>4. CASE m + 1 \notin P BY <2>1, <2>2, <2>4
  <2>5. CASE m + 1 \in P /\ Q(m) = {}
    <3>1. Q(m + 1) = {m + 1} BY <2>2, <2>5
    <3>2. v[m + 1] \in Int BY <2>5
    <3> HIDE DEF Q
    <3>3. Good(m + 1) BY <3>1, <3>2
    <3> QED BY <2>1, <3>3
  <2>6. CASE m + 1 \in P /\ Q(m) # {}
    <3>1. PICK i \in Q(m) : \A j \in Q(m) : v[i] >= v[j] BY <2>1, <2>6
    <3>2. Q(m + 1) = Q(m) \cup {m + 1} BY <2>2, <2>6
    <3>3. v[i] \in Int /\ v[m + 1] \in Int BY <2>3, <2>6
    <3> HIDE DEF Q
    <3>4. CASE v[i] >= v[m + 1]
      <4>1. \A j \in Q(m + 1) : v[i] >= v[j] BY <3>1, <3>2, <3>4
      <4> QED BY <2>1, <3>2, <4>1
    <3>5. CASE ~(v[i] >= v[m + 1])
      <4>1. \A j \in Q(m) : v[m + 1] >= v[j] BY <2>3, <3>1, <3>3, <3>5
      <4>2. v[m + 1] >= v[m + 1] BY <3>3
      <4>3. m + 1 \in Q(m + 1) /\ \A j \in Q(m + 1) : v[m + 1] >= v[j] BY <3>2, <4>1, <4>2
      <4> QED BY <2>1, <4>3
    <3> QED BY <3>4, <3>5
  <2> QED BY <2>4, <2>5, <2>6
<1> HIDE DEF Good
<1>3. S = Nat BY <1>1, <1>2, NatSet
<1>4. Good(n) BY <1>3
<1>5. Q(n) = P OBVIOUS
<1> QED BY <1>4, <1>5 DEF Good

\* Worth lists what the samples are worth.
LEMMA WorthLists ==
  ASSUME NEW D, NEW s \in Seq(D), NEW spec, NEW p
  PROVE  p \in Worth(s, spec) <=> \E j \in 1 .. Len(s) : IsWorth(s, spec, j, p)
<1> DEFINE firsts == {j \in 1 .. Len(s) : First(s, j)}
           next == {e \in firsts \X firsts : e[1] < e[2] /\ s[e[1]].ts = s[e[2] - 1].ts}
           later == {[ts |-> s[e[2]].ts,
                      val |-> Drawn(spec, s[e[2]].val, s[e[1]].val, s[e[2]].ts - s[e[1]].ts)] :
                     e \in next}
           one == [ts |-> s[1].ts, val |-> Drawn(spec, s[1].val, 0, 0)]
           of(h, j) == [ts |-> s[j].ts, val |-> Drawn(spec, s[j].val, s[h].val, s[j].ts - s[h].ts)]
<1>0. Len(s) \in Nat OBVIOUS
<1>1. Worth(s, spec) = later \cup IF spec.delta \/ spec.rate \/ s = <<>> THEN {} ELSE {one}
  BY DEF Worth
<1>2. s = <<>> <=> Len(s) = 0 OBVIOUS
<1>3. p \in later <=> \E h, j \in firsts : h < j /\ s[h].ts = s[j - 1].ts /\ p = of(h, j)
  <2>1. ASSUME NEW e \in next, p = of(e[1], e[2])
        PROVE  \E h, j \in firsts : h < j /\ s[h].ts = s[j - 1].ts /\ p = of(h, j)
    <3>1. e[1] \in firsts /\ e[2] \in firsts /\ e[1] < e[2] /\ s[e[1]].ts = s[e[2] - 1].ts
      OBVIOUS
    <3> QED BY <2>1, <3>1
  <2>2. ASSUME NEW h \in firsts, NEW j \in firsts, h < j, s[h].ts = s[j - 1].ts, p = of(h, j)
        PROVE  \E e \in next : p = of(e[1], e[2])
    <3>1. <<h, j>> \in next /\ <<h, j>>[1] = h /\ <<h, j>>[2] = j BY <2>2
    <3> QED BY <2>2, <3>1
  <2>3. p \in later <=> \E e \in next : p = of(e[1], e[2]) OBVIOUS
  <2> HIDE DEF later, next, of
  <2> QED BY <2>1, <2>2, <2>3
<1> HIDE DEF later
<1>4. ASSUME p \in later PROVE \E j \in 1 .. Len(s) : IsWorth(s, spec, j, p)
  <2>1. PICK h \in firsts, j \in firsts : h < j /\ s[h].ts = s[j - 1].ts /\ p = of(h, j)
    BY <1>3, <1>4
  <2>2. h \in 1 .. j - 1 /\ j \in 1 .. Len(s) /\ First(s, h) /\ First(s, j) BY <1>0, <2>1
  <2> QED BY <2>1, <2>2 DEF IsWorth
<1>5. ASSUME p = one, ~(spec.delta \/ spec.rate \/ s = <<>>)
      PROVE  \E j \in 1 .. Len(s) : IsWorth(s, spec, j, p)
  <2>1. 1 \in 1 .. Len(s) /\ First(s, 1) BY <1>0, <1>2, <1>5 DEF First
  <2> QED BY <1>5, <2>1 DEF IsWorth
<1>6. ASSUME NEW j \in 1 .. Len(s), IsWorth(s, spec, j, p) PROVE p \in Worth(s, spec)
  <2>1. CASE j = 1 /\ ~spec.delta /\ ~spec.rate /\ p = one
    <3>1. s # <<>> BY <1>0, <1>2, <2>1
    <3> QED BY <1>1, <2>1, <3>1
  <2>2. ASSUME NEW h \in 1 .. j - 1, First(s, h), s[h].ts = s[j - 1].ts, p = of(h, j)
        PROVE  p \in Worth(s, spec)
    <3>1. h \in firsts /\ j \in firsts /\ h < j BY <1>0, <1>6, <2>2 DEF IsWorth
    <3> HIDE DEF of, firsts
    <3>2. p \in later BY <1>3, <2>2, <3>1
    <3> QED BY <1>1, <3>2
  <2> QED BY <1>6, <2>1, <2>2 DEF IsWorth
<1> QED BY <1>1, <1>4, <1>5, <1>6

\* A graph shows the samples that were found: its points are theirs, in strictly
\* increasing time, and the highest and the lowest of them are there.
LEMMA SeriesHonestly ==
  ASSUME IInv, FromEpoch
  PROVE  SeriesHonest
<1> SUFFICES ASSUME Done({"series"}), NEW g \in SeriesOf(job.query, job.kept)
             PROVE  LET out == SeriesAnswer(job)[g]
                        worth == Worth(Sorted(PointsIn(job, g)), Resolve(job.query))
                        drawn == Points(out)
                    IN /\ \A i \in 1 .. Len(out) - 1 : out[i].ts < out[i + 1].ts
                       /\ drawn \subseteq worth
                       /\ worth # {} =>
                            /\ \E p \in drawn : \A w \in worth : p.val >= w.val
                            /\ \E p \in drawn : \A w \in worth : p.val <= w.val
  BY DEF SeriesHonest
<1> DEFINE out == SeriesAnswer(job)[g]
           s == Sorted(PointsIn(job, g))
           spec == Resolve(job.query)
           width0 == SeriesWindow(job.query)
           worth == Worth(s, spec)
           drawn == Points(out)
           P == {i \in 1 .. Len(out) : out[i].kind = "point"}
           spot(x) == [ts |-> x.ts, val |-> x.val]
<1>1. /\ SpecOK(spec) /\ Sampled(s) /\ s \in Seq(Timed)
      /\ out \in Seq(Drawable) /\ Rising(out)
      /\ AllWorth(s, spec, Len(s), out)
      /\ \A j \in 1 .. Len(s) : \A p : IsWorth(s, spec, j, p) => Covers(out, width0, p)
  BY DrawnSeries
<1> HIDE DEF out, s, spec, width0
<1>2. Len(out) \in Nat /\ DOMAIN out = 1 .. Len(out) /\ \A i \in 1 .. Len(out) : out[i] \in Drawable
  BY <1>1
<1>3. \A i \in 1 .. Len(out) : out[i].ts \in Int /\ out[i].val \in Int BY <1>2 DEF Drawable
<1>4. \A p : p \in worth <=> \E j \in 1 .. Len(s) : IsWorth(s, spec, j, p) BY <1>1, WorthLists
<1>5. \A p \in worth : p.val \in Int
  <2> SUFFICES ASSUME NEW p \in worth PROVE p.val \in Int OBVIOUS
  <2>1. PICK j \in 1 .. Len(s) : IsWorth(s, spec, j, p) BY <1>4
  <2>2. p \in Spot BY <1>1, <2>1, WorthFacts
  <2> QED BY <2>2 DEF Spot
<1> HIDE DEF worth
<1>6. \A i \in P : spot(out[i]) \in drawn BY <1>2 DEF Points, ToSet
<1>7. ASSUME NEW p \in drawn PROVE \E i \in P : p = spot(out[i]) BY <1>2 DEF Points, ToSet
<1> HIDE DEF drawn
<1>8. \A i \in 1 .. Len(out) - 1 : out[i].ts < out[i + 1].ts
  <2> SUFFICES ASSUME NEW i \in 1 .. Len(out) - 1 PROVE out[i].ts < out[i + 1].ts OBVIOUS
  <2>1. i \in 1 .. Len(out) /\ i + 1 \in 1 .. Len(out) /\ i < i + 1 BY <1>2
  <2> QED BY <1>1, <2>1 DEF Rising
<1>9. drawn \subseteq worth
  <2> SUFFICES ASSUME NEW p \in drawn PROVE p \in worth OBVIOUS
  <2>1. PICK i \in P : p = spot(out[i]) BY <1>7
  <2>2. HasPoint(out, out[i]) BY <2>1 DEF HasPoint, Has
  <2>3. \E j \in 1 .. Len(s) : IsWorth(s, spec, j, spot(out[i])) BY <1>1, <2>2 DEF AllWorth
  <2> HIDE DEF spot
  <2> QED BY <1>4, <2>1, <2>3
<1>10. ASSUME NEW w \in worth
       PROVE  /\ \E i \in P : out[i].val >= w.val
              /\ \E i \in P : out[i].val <= w.val
  <2>1. PICK j \in 1 .. Len(s) : IsWorth(s, spec, j, w) BY <1>4
  <2>2. Covers(out, width0, w) BY <1>1, <2>1
  <2>3. PICK x : HasPoint(out, x) /\ x.val >= w.val BY <2>2 DEF Covers
  <2>4. PICK y : HasPoint(out, y) /\ y.val <= w.val BY <2>2 DEF Covers
  <2>5. \E i \in P : out[i] = x BY <2>3 DEF HasPoint, Has
  <2>6. \E i \in P : out[i] = y BY <2>4 DEF HasPoint, Has
  <2> QED BY <2>3, <2>4, <2>5, <2>6
<1>11. P \subseteq 1 .. Len(out) /\ \A i \in P : out[i].val \in Int BY <1>3
<1> HIDE DEF P
<1>12. ASSUME worth # {}
       PROVE  \E p \in drawn : \A w \in worth : p.val >= w.val
  <2>1. P # {} BY <1>10, <1>12
  <2> DEFINE v == [i \in P |-> out[i].val]
  <2>2. \A i \in P : v[i] = out[i].val /\ v[i] \in Int BY <1>11
  <2> HIDE DEF v
  <2>3. PICK i \in P : \A j \in P : v[i] >= v[j] BY <1>2, <1>11, <2>1, <2>2, Highest
  <2>4. ASSUME NEW w \in worth PROVE out[i].val >= w.val
    <3>1. PICK j \in P : out[j].val >= w.val BY <1>10
    <3>2. out[i].val >= out[j].val BY <2>2, <2>3
    <3> QED BY <1>5, <1>11, <3>1, <3>2
  <2>5. spot(out[i]).val = out[i].val OBVIOUS
  <2> HIDE DEF spot
  <2> QED BY <1>6, <2>4, <2>5
<1>13. ASSUME worth # {}
       PROVE  \E p \in drawn : \A w \in worth : p.val <= w.val
  <2>1. P # {} BY <1>10, <1>13
  <2> DEFINE v == [i \in P |-> -out[i].val]
  <2>2. \A i \in P : v[i] = -out[i].val /\ v[i] \in Int BY <1>11
  <2> HIDE DEF v
  <2>3. PICK i \in P : \A j \in P : v[i] >= v[j] BY <1>2, <1>11, <2>1, <2>2, Highest
  <2>4. ASSUME NEW w \in worth PROVE out[i].val <= w.val
    <3>1. PICK j \in P : out[j].val <= w.val BY <1>10
    <3>2. out[i].val <= out[j].val BY <1>11, <2>2, <2>3
    <3> QED BY <1>5, <1>11, <3>1, <3>2
  <2>5. spot(out[i]).val = out[i].val OBVIOUS
  <2> HIDE DEF spot
  <2> QED BY <1>6, <2>4, <2>5
<1>14. /\ \A i \in 1 .. Len(out) - 1 : out[i].ts < out[i + 1].ts
       /\ drawn \subseteq worth
       /\ worth # {} =>
            /\ \E p \in drawn : \A w \in worth : p.val >= w.val
            /\ \E p \in drawn : \A w \in worth : p.val <= w.val
  BY <1>8, <1>9, <1>12, <1>13
<1> QED BY <1>14 DEF out, worth, drawn, s, spec

-----------------------------------------------------------------------------
(* Sums.                                                                   *)

\* Induction over the subsets of a finite set.
LEMMA SubsetInduction ==
  ASSUME NEW U, IsFiniteSet(U), NEW G, {} \in G,
         \A T \in SUBSET U : T # {} /\ (\A x \in T : T \ {x} \in G) => T \in G
  PROVE  \A T \in SUBSET U : T \in G
<1> DEFINE S == {m \in Nat : \A T \in SUBSET U : Cardinality(T) = m => T \in G}
<1>0. ASSUME NEW T \in SUBSET U PROVE IsFiniteSet(T) /\ Cardinality(T) \in Nat
  BY FS_Subset, FS_CardinalityType
<1>1. 0 \in S
  <2> SUFFICES ASSUME NEW T \in SUBSET U, Cardinality(T) = 0 PROVE T \in G OBVIOUS
  <2>1. T = {} BY <1>0, FS_EmptySet
  <2> QED BY <2>1
<1>2. ASSUME NEW m \in S PROVE m + 1 \in S
  <2> SUFFICES ASSUME NEW T \in SUBSET U, Cardinality(T) = m + 1 PROVE T \in G OBVIOUS
  <2>1. T # {} BY FS_EmptySet
  <2>2. ASSUME NEW x \in T PROVE T \ {x} \in G
    <3>1. Cardinality(T \ {x}) = Cardinality(T) - 1 BY <1>0, FS_RemoveElement
    <3>2. Cardinality(T \ {x}) = m BY <3>1
    <3>3. T \ {x} \in SUBSET U OBVIOUS
    <3> QED BY <3>2, <3>3
  <2> QED BY <2>1, <2>2
<1>3. S = Nat BY <1>1, <1>2, NatSet
<1> SUFFICES ASSUME NEW T \in SUBSET U PROVE T \in G OBVIOUS
<1>4. Cardinality(T) \in S BY <1>0, <1>3
<1> QED BY <1>4

Some(s) == CHOOSE x \in s : TRUE

\* A function that sums f over the subsets of U, one element at a time.
Sums(h, f, s) == IF s = {} THEN 0 ELSE f[Some(s)] + h[s \ {Some(s)}]
Summing(h, f, U) == h = [s \in SUBSET U |-> Sums(h, f, s)]

LEMMA SummingExists ==
  ASSUME NEW U, IsFiniteSet(U), NEW f
  PROVE  \E h : Summing(h, f, U)
<1> DEFINE L(m) == {t \in SUBSET U : Cardinality(t) <= m}
           Upto(h, m) == h = [s \in L(m) |-> Sums(h, f, s)]
           S == {m \in Nat : \E h : Upto(h, m)}
<1>0. ASSUME NEW t \in SUBSET U PROVE IsFiniteSet(t) /\ Cardinality(t) \in Nat
  BY FS_Subset, FS_CardinalityType
<1>1. 0 \in S
  <2>1. \A s \in L(0) : s = {} BY <1>0, FS_EmptySet
  <2> DEFINE h == [s \in L(0) |-> 0]
  <2>2. \A s \in L(0) : Sums(h, f, s) = 0 BY <2>1 DEF Sums
  <2> HIDE DEF L
  <2>3. h = [s \in L(0) |-> Sums(h, f, s)] BY <2>2
  <2> QED BY <2>3
<1>2. ASSUME NEW m \in S PROVE m + 1 \in S
  <2>1. PICK g : Upto(g, m) BY <1>2
  <2>2. \A s \in L(m) : g[s] = Sums(g, f, s) BY <2>1
  <2> DEFINE h == [s \in L(m + 1) |-> IF s \in L(m) THEN g[s] ELSE Sums(g, f, s)]
  <2>3. ASSUME NEW s \in L(m + 1), s # {} PROVE s \ {Some(s)} \in L(m)
    <3>1. Some(s) \in s BY <2>3 DEF Some
    <3>2. Cardinality(s \ {Some(s)}) = Cardinality(s) - 1 BY <1>0, <3>1, FS_RemoveElement
    <3>3. Cardinality(s) <= m + 1 /\ Cardinality(s) \in Nat /\ m \in Nat BY <1>0
    <3> QED BY <3>2, <3>3
  <2>4. \A s \in L(m) : s \in L(m + 1) BY <1>0
  <2> HIDE DEF L
  <2>5. \A s \in L(m) : h[s] = g[s] BY <2>4
  <2>6. ASSUME NEW s \in L(m + 1) PROVE h[s] = Sums(h, f, s)
    <3>1. h[s] = Sums(g, f, s) BY <2>2
    <3>2. s # {} => h[s \ {Some(s)}] = g[s \ {Some(s)}] BY <2>3, <2>5
    <3> HIDE DEF h
    <3> QED BY <3>1, <3>2 DEF Sums
  <2>7. h = [s \in L(m + 1) |-> h[s]] OBVIOUS
  <2> HIDE DEF h
  <2>8. h = [s \in L(m + 1) |-> Sums(h, f, s)] BY <2>6, <2>7
  <2> QED BY <2>8
<1>3. S = Nat BY <1>1, <1>2, NatSet
<1>4. Cardinality(U) \in Nat BY FS_CardinalityType
<1>5. \E h : Upto(h, Cardinality(U)) BY <1>3, <1>4
<1>6. L(Cardinality(U)) = SUBSET U BY FS_Subset
<1> QED BY <1>5, <1>6 DEF Summing

\* Total is such a function's value.
LEMMA TotalSumming ==
  ASSUME NEW U, IsFiniteSet(U), NEW f
  PROVE  \E h : Summing(h, f, U) /\ Total(f, U) = h[U]
<1> DEFINE h == CHOOSE h : h = [s \in SUBSET U |-> Sums(h, f, s)]
<1>1. \E g : g = [s \in SUBSET U |-> Sums(g, f, s)]
  <2>1. PICK g : Summing(g, f, U) BY SummingExists
  <2> QED BY <2>1 DEF Summing
<1>2. h = [s \in SUBSET U |-> Sums(h, f, s)] BY <1>1
<1>3. Total(f, U) = h[U] BY DEF Total, MapThenSumSet, MapThenFoldSet, Sums, Some
<1> HIDE DEF h
<1> QED BY <1>2, <1>3 DEF Summing

\* A sum is taken one element at a time.
LEMMA TotalStep ==
  ASSUME NEW U, IsFiniteSet(U), NEW f
  PROVE  Total(f, U) = IF U = {} THEN 0 ELSE f[Some(U)] + Total(f, U \ {Some(U)})
<1>1. PICK h : Summing(h, f, U) /\ Total(f, U) = h[U] BY TotalSumming
<1>2. \A s \in SUBSET U : h[s] = Sums(h, f, s) BY <1>1 DEF Summing
<1>3. U \in SUBSET U OBVIOUS
<1>4. CASE U = {} BY <1>1, <1>2, <1>3, <1>4 DEF Sums
<1>5. CASE U # {}
  <2> DEFINE T == U \ {Some(U)}
  <2>1. T \in SUBSET U OBVIOUS
  <2>2. IsFiniteSet(T) BY <2>1, FS_Subset
  <2>3. Total(f, U) = f[Some(U)] + h[T] BY <1>1, <1>2, <1>3, <1>5 DEF Sums
  <2> HIDE DEF T
  <2>4. PICK k : Summing(k, f, T) /\ Total(f, T) = k[T] BY <2>2, TotalSumming
  <2>5. \A s \in SUBSET T : k[s] = Sums(k, f, s) BY <2>4 DEF Summing
  <2> DEFINE G == {s \in SUBSET T : k[s] = h[s]}
  <2>6. {} \in G
    <3>1. {} \in SUBSET T /\ {} \in SUBSET U OBVIOUS
    <3>2. k[{}] = 0 /\ h[{}] = 0 BY <1>2, <2>5, <3>1 DEF Sums
    <3> QED BY <3>1, <3>2
  <2>7. ASSUME NEW s \in SUBSET T, s # {}, \A x \in s : s \ {x} \in G PROVE s \in G
    <3>1. Some(s) \in s BY <2>7 DEF Some
    <3>2. k[s \ {Some(s)}] = h[s \ {Some(s)}] BY <2>7, <3>1
    <3>3. s \in SUBSET U BY <2>1
    <3>4. k[s] = h[s] BY <1>2, <2>5, <3>2, <3>3 DEF Sums
    <3> QED BY <3>4
  <2> HIDE DEF G
  <2>8. \A s \in SUBSET T : s \in G BY <2>2, <2>6, <2>7, SubsetInduction
  <2>9. T \in G BY <2>8
  <2>10. k[T] = h[T] BY <2>9 DEF G
  <2> QED BY <1>5, <2>3, <2>4, <2>10 DEF T
<1> QED BY <1>4, <1>5

\* Any element may be taken out first, and the sum of integers is one.
LEMMA TotalRemove ==
  ASSUME NEW U, IsFiniteSet(U), NEW f, \A x \in U : f[x] \in Int
  PROVE  /\ Total(f, {}) = 0
         /\ \A T \in SUBSET U : Total(f, T) \in Int
         /\ \A T \in SUBSET U : \A x \in T : Total(f, T) = f[x] + Total(f, T \ {x})
<1>0. ASSUME NEW T \in SUBSET U PROVE IsFiniteSet(T) BY FS_Subset
<1>1. Total(f, {}) = 0
  <2>1. IsFiniteSet({}) BY FS_EmptySet
  <2> QED BY <2>1, TotalStep
<1>2. ASSUME NEW T \in SUBSET U, T # {}
      PROVE  Some(T) \in T /\ Total(f, T) = f[Some(T)] + Total(f, T \ {Some(T)})
  <2>1. Some(T) \in T BY <1>2 DEF Some
  <2> QED BY <1>0, <1>2, <2>1, TotalStep
<1> DEFINE I == {T \in SUBSET U : Total(f, T) \in Int}
<1>3. \A T \in SUBSET U : T \in I
  <2>1. {} \in I BY <1>1
  <2>2. ASSUME NEW T \in SUBSET U, T # {}, \A x \in T : T \ {x} \in I PROVE T \in I
    <3>1. Some(T) \in T /\ f[Some(T)] \in Int BY <1>2, <2>2
    <3>2. Total(f, T \ {Some(T)}) \in Int BY <2>2, <3>1
    <3>3. Total(f, T) \in Int BY <1>2, <2>2, <3>1, <3>2
    <3> QED BY <3>3
  <2> HIDE DEF I
  <2> QED BY <2>1, <2>2, SubsetInduction
<1>4. \A T \in SUBSET U : Total(f, T) \in Int BY <1>3
<1> HIDE DEF I
<1> DEFINE out(T) == \A x \in T : Total(f, T) = f[x] + Total(f, T \ {x})
           G == {T \in SUBSET U : out(T)}
<1>5. {} \in G OBVIOUS
<1>6. ASSUME NEW T \in SUBSET U, T # {}, \A x \in T : T \ {x} \in G PROVE T \in G
  <2> SUFFICES ASSUME NEW x \in T PROVE Total(f, T) = f[x] + Total(f, T \ {x}) OBVIOUS
  <2> DEFINE y == Some(T)
             V == T \ {x, y}
  <2>1. y \in T /\ Total(f, T) = f[y] + Total(f, T \ {y}) BY <1>2, <1>6
  <2> HIDE DEF y
  <2>2. CASE x = y BY <2>1, <2>2
  <2>3. CASE x # y
    <3>1. x \in T \ {y} /\ y \in T \ {x} BY <2>1, <2>3
    <3>2. (T \ {y}) \ {x} = V /\ (T \ {x}) \ {y} = V OBVIOUS
    <3>3. out(T \ {y}) /\ out(T \ {x}) BY <1>6, <2>1
    <3>4. Total(f, T \ {y}) = f[x] + Total(f, V) BY <3>1, <3>2, <3>3
    <3>5. Total(f, T \ {x}) = f[y] + Total(f, V) BY <3>1, <3>2, <3>3
    <3>6. f[x] \in Int /\ f[y] \in Int BY <2>1
    <3>7. Total(f, V) \in Int BY <1>4
    <3> QED BY <2>1, <3>4, <3>5, <3>6, <3>7
  <2> QED BY <2>2, <2>3
<1> HIDE DEF G
<1>7. \A T \in SUBSET U : T \in G BY <1>5, <1>6, SubsetInduction
<1> QED BY <1>1, <1>4, <1>7 DEF G

\* The sum over two parts is the sum of their sums.
LEMMA TotalUnion ==
  ASSUME NEW U, IsFiniteSet(U), NEW f, \A x \in U : f[x] \in Int,
         NEW A \in SUBSET U, NEW B \in SUBSET U, A \cap B = {}
  PROVE  Total(f, A \cup B) = Total(f, A) + Total(f, B)
<1>1. /\ Total(f, {}) = 0
      /\ \A T \in SUBSET U : Total(f, T) \in Int
      /\ \A T \in SUBSET U : \A x \in T : Total(f, T) = f[x] + Total(f, T \ {x})
  BY TotalRemove
<1> DEFINE G == {T \in SUBSET A : Total(f, T \cup B) = Total(f, T) + Total(f, B)}
<1>2. {} \in G
  <2>1. {} \cup B = B /\ Total(f, B) \in Int BY <1>1
  <2> QED BY <1>1, <2>1
<1>3. ASSUME NEW T \in SUBSET A, T # {}, \A x \in T : T \ {x} \in G PROVE T \in G
  <2>1. PICK x \in T : TRUE BY <1>3
  <2>2. x \in U /\ x \notin B /\ x \in T \cup B OBVIOUS
  <2>3. (T \cup B) \ {x} = (T \ {x}) \cup B BY <2>2
  <2>4. T \cup B \in SUBSET U /\ T \in SUBSET U /\ T \ {x} \in SUBSET U OBVIOUS
  <2>5. Total(f, T \cup B) = f[x] + Total(f, (T \ {x}) \cup B) BY <1>1, <2>2, <2>3, <2>4
  <2>6. Total(f, (T \ {x}) \cup B) = Total(f, T \ {x}) + Total(f, B) BY <1>3
  <2>7. Total(f, T) = f[x] + Total(f, T \ {x}) BY <1>1, <2>4
  <2>8. f[x] \in Int /\ Total(f, T \ {x}) \in Int /\ Total(f, B) \in Int BY <1>1, <2>2, <2>4
  <2>9. Total(f, T \cup B) = Total(f, T) + Total(f, B) BY <2>5, <2>6, <2>7, <2>8
  <2> QED BY <2>9
<1>4. IsFiniteSet(A) BY FS_Subset
<1> HIDE DEF G
<1>5. \A T \in SUBSET A : T \in G BY <1>2, <1>3, <1>4, SubsetInduction
<1>6. A \in G BY <1>5
<1> QED BY <1>6 DEF G

\* The cells of a column map: each has the sum of what falls into it.
CellsOf(cells, f, K, col) ==
  cells = [d \in {col[x] : x \in K} |-> Total(f, {x \in K : col[x] = d})]

\* The sum of the sums of the cells is the sum of all.
LEMMA TotalCells ==
  ASSUME NEW K, IsFiniteSet(K), NEW f, \A x \in K : f[x] \in Int, NEW col, NEW cells,
         CellsOf(cells, f, K, col)
  PROVE  Total(cells, DOMAIN cells) = Total(f, K)
<1> DEFINE C == {col[x] : x \in K}
           In(d) == {x \in K : col[x] = d}
           Of(D) == {x \in K : col[x] \in D}
<1>1. IsFiniteSet(C)
  <2> DEFINE k == [x \in K |-> col[x]]
  <2>1. k \in Surjection(K, C) BY DEF Surjection
  <2> HIDE DEF k, C
  <2> QED BY <2>1, FS_Surjection
<1>2. DOMAIN cells = C /\ \A d \in C : cells[d] = Total(f, In(d)) BY DEF CellsOf
<1>3. \A T \in SUBSET K : Total(f, T) \in Int BY TotalRemove
<1>4. \A d \in C : cells[d] \in Int BY <1>2, <1>3
<1>5. Total(f, {}) = 0 BY TotalRemove
<1>6. /\ Total(cells, {}) = 0
      /\ \A D \in SUBSET C : \A d \in D : Total(cells, D) = cells[d] + Total(cells, D \ {d})
  <2> HIDE DEF C
  <2> QED BY <1>1, <1>4, TotalRemove
<1> DEFINE G == {D \in SUBSET C : Total(cells, D) = Total(f, Of(D))}
<1>7. {} \in G
  <2>1. Of({}) = {} OBVIOUS
  <2> QED BY <1>5, <1>6, <2>1
<1>8. ASSUME NEW D \in SUBSET C, D # {}, \A d \in D : D \ {d} \in G PROVE D \in G
  <2>1. PICK d \in D : TRUE BY <1>8
  <2>2. d \in C OBVIOUS
  <2>3. Total(cells, D) = cells[d] + Total(cells, D \ {d}) BY <1>6
  <2>4. Total(cells, D \ {d}) = Total(f, Of(D \ {d})) BY <1>8
  <2>5. cells[d] = Total(f, In(d)) BY <1>2, <2>2
  <2>6. Of(D) = In(d) \cup Of(D \ {d}) /\ In(d) \cap Of(D \ {d}) = {} OBVIOUS
  <2>7. In(d) \in SUBSET K /\ Of(D \ {d}) \in SUBSET K OBVIOUS
  <2> DEFINE A == In(d)
             B == Of(D \ {d})
  <2>8. Total(f, Of(D)) = Total(f, A) + Total(f, B)
    <3>1. A \in SUBSET K /\ B \in SUBSET K /\ A \cap B = {} /\ Of(D) = A \cup B BY <2>6, <2>7
    <3> HIDE DEF A, B
    <3>2. Total(f, A \cup B) = Total(f, A) + Total(f, B) BY <3>1, TotalUnion
    <3> QED BY <3>1, <3>2
  <2> HIDE DEF In, Of
  <2>9. Total(cells, D) = Total(f, Of(D)) BY <2>3, <2>4, <2>5, <2>8
  <2> QED BY <2>9
<1> HIDE DEF G
<1>9. \A D \in SUBSET C : D \in G
  <2> HIDE DEF C
  <2> QED BY <1>1, <1>7, <1>8, SubsetInduction
<1>10. C \in G BY <1>9
<1>11. Of(C) = K OBVIOUS
<1> QED BY <1>2, <1>10, <1>11 DEF G

\* A time is in the column it is rounded down to.
LEMMA FloorColumn ==
  ASSUME NEW ts \in Int, NEW w \in Nat, w > 0
  PROVE  Floor(ts, w) \in Int /\ Floor(ts, w) <= ts /\ ts < Floor(ts, w) + w
<1>1. ts % w \in 0 .. w - 1 OBVIOUS
<1> QED BY <1>1 DEF Floor

\* A heatmap has every row in the column of its time, and the values of its cells add up
\* to those of the rows.
LEMMA HeatHonestly ==
  ASSUME IInv
  PROVE  HeatHonest
<1> SUFFICES ASSUME Done({"heat"})
             PROVE  LET w == HeatWindow(job.query) cells == HeatAnswer(job) IN
                    /\ \A r \in Rows(job.kept) : \E c \in DOMAIN cells : c[2] <= r.ts /\ r.ts < c[2] + w
                    /\ Total(cells, DOMAIN cells) = Total(Values(job.kept), job.kept)
  BY DEF HeatHonest
<1> DEFINE q == job.query
           K == job.kept
           w == HeatWindow(q)
           cells == HeatAnswer(job)
           f == Values(K)
           col == [x \in K |-> Cell(q, x.row)]
<1>1. Reading /\ JobType BY DEF IInv, JobInv, Done
<1>2. q \in Queries /\ IsFiniteSet(K) BY <1>1 DEF Reading, Counted
<1>3. \A x \in K : x.row \in Pool BY <1>1 DEF JobType
<1>4. \A x \in K : x.row.ts \in Int /\ x.row.val \in Int BY <1>3, QueryAssumption
<1>5. w \in Nat /\ w > 0
  <2>1. q.every \in Int /\ q.maxdp \in Int /\ q.interval \in Int /\ q.to - q.from \in Int
    BY <1>2, QueryAssumption, GraphAssumption
  <2> DEFINE u == SingleWindow(q.to - q.from, q.maxdp, q.interval)
  <2>2. u \in Nat BY <2>1, WindowNat
  <2> HIDE DEF u
  <2>3. w = LET v == IF q.every > 0 THEN q.every ELSE u IN IF v <= 0 THEN 1 ELSE v
    BY DEF HeatWindow, u
  <2> QED BY <2>1, <2>2, <2>3
<1>6. \A x \in K : f[x] = x.row.val BY DEF Values
<1>7. \A x \in K : col[x] = Cell(q, x.row) OBVIOUS
<1>8. cells = [c \in {Cell(q, x.row) : x \in K} |-> Total(f, {x \in K : Cell(q, x.row) = c})]
  BY DEF HeatAnswer
<1>9. {Cell(q, x.row) : x \in K} = {col[x] : x \in K} BY <1>7
<1>10. \A c : {x \in K : Cell(q, x.row) = c} = {x \in K : col[x] = c} BY <1>7
<1> HIDE DEF col, f, cells, w
<1>11. CellsOf(cells, f, K, col) BY <1>8, <1>9, <1>10 DEF CellsOf
<1>12. Total(cells, DOMAIN cells) = Total(f, K) BY <1>2, <1>4, <1>6, <1>11, TotalCells
<1>13. ASSUME NEW r \in Rows(K) PROVE \E c \in DOMAIN cells : c[2] <= r.ts /\ r.ts < c[2] + w
  <2>1. PICK x \in K : r = x.row BY <1>13 DEF Rows
  <2> DEFINE c == Cell(q, r)
  <2>2. c \in DOMAIN cells BY <1>8, <2>1
  <2>3. c[2] = Floor(r.ts, w) BY DEF Cell, w
  <2>4. Floor(r.ts, w) <= r.ts /\ r.ts < Floor(r.ts, w) + w BY <1>4, <1>5, <2>1, FloorColumn
  <2> HIDE DEF c
  <2> QED BY <2>2, <2>3, <2>4
<1> QED BY <1>12, <1>13 DEF cells, f, w

\* What is drawn is what was found, for any rows, queries and order of the store's steps:
\* the columns and sums of heatmaps, and the points and extremes of series.
THEOREM DrawingsAreHonest ==
  ASSUME FromEpoch
  PROVE  Spec => []DrawnHonest
<1>1. IInv => DrawnHonest BY SeriesHonestly, HeatHonestly DEF DrawnHonest
<1> QED BY <1>1, InvHolds, PTL
=============================================================================
