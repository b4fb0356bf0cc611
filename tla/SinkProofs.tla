----------------------------- MODULE SinkProofs -----------------------------
(***************************************************************************)
(* Proofs about Sink, for any writers, sets, samples, limits and failures. *)
(***************************************************************************)
EXTENDS Sink, FiniteSetTheorems, SequenceTheorems, TLAPS

-----------------------------------------------------------------------------
(* The inductive invariant.                                                *)

Steps == {"free", "round", "take", "sent", "back", "backhold", "lost", "meta"}
WSteps == {"idle", "wait", "check", "room", "flush"}
Wanting == {"wait", "check", "room"}
BySet == [Sets -> Seq(Sample)]
Snd == [at : Steps, by : Callers \cup {""}, round : Nat, meta : SUBSET Decls, batch : BySet,
        partial : BOOLEAN, before : Nat]

Types ==
  /\ buffers \in BySet /\ snd \in Snd
  /\ pending \in Nat /\ inflight \in Nat
  /\ writer \in [Writers -> WSteps] /\ puts \in [Writers -> Nat]
  /\ metaQ \subseteq Decls /\ hold \in BOOLEAN

\* A writer that waits for room, or has it, has a sample to put.
Waiting ==
  \A w \in Writers : writer[w] \in Wanting => puts[w] < Puts[w] /\ <<w, puts[w] + 1>> \notin Unencodable

\* Samples are where they belong and in the order they were put.
Belongs(x, s) == SetOf[x] = s /\ x[2] <= puts[x[1]]
Inc(q) == \A i, j \in DOMAIN q : i < j /\ q[i][1] = q[j][1] => q[i][2] < q[j][2]
Neat(f) == \A s \in Sets : Inc(f[s]) /\ \A i \in DOMAIN f[s] : Belongs(f[s][i], s)
Ahead(f, g) ==
  \A s \in Sets : \A i \in DOMAIN f[s], j \in DOMAIN g[s] : f[s][i][1] = g[s][j][1] => f[s][i][2] < g[s][j][2]
Moving == snd.at \in {"sent", "lost"}
InOrder ==
  /\ Neat(buffers)
  /\ Moving => Neat(snd.batch) /\ Ahead(snd.batch, buffers)

NoneLost == Handed \ Unencodable \subseteq Elements(buffers) \cup Flying \cup Settled \cup dropped

\* A request that was announced carries all that was marked and not yet settled.
AckOK ==
  /\ AckCovers
  /\ snd.at = "sent" /\ ~snd.partial
       => mark \ Unencodable \subseteq Elements(snd.batch) \cup Settled \cup dropped

HoldOK == snd.at \in {"take", "meta"} => ~hold

\* Room that was promised counts like room that is taken.
Roomy == {w \in Writers : writer[w] = "room"}
CapOK == Cardinality(Held) + Cardinality(Roomy) <= MaxBuffered + Cardinality(Writers) - 1

IInv ==
  /\ Types
  /\ Waiting
  /\ InOrder
  /\ CountersExact
  /\ NoneLost
  /\ AckOK
  /\ HoldOK
  /\ CapOK

-----------------------------------------------------------------------------
(* Lemmas: samples by set.                                                 *)

LEMMA SampleFacts ==
  /\ \A x \in Sample : /\ x[1] \in Writers /\ x[2] \in Nat /\ x[2] >= 1 /\ x[2] <= Puts[x[1]]
                       /\ x = <<x[1], x[2]>> /\ SetOf[x] \in Sets
  /\ \A w \in Writers, i \in Nat : i >= 1 /\ i <= Puts[w] => <<w, i>> \in Sample
BY SinkAssumption DEF Sample

LEMMA ElementsFacts ==
  ASSUME NEW f \in BySet
  PROVE  /\ \A x : x \in Elements(f) <=> \E s \in Sets : \E i \in DOMAIN f[s] : x = f[s][i]
         /\ \A s \in Sets : \A i \in DOMAIN f[s] : f[s][i] \in Sample /\ f[s][i] \in Elements(f)
         /\ Elements(f) \subseteq Sample
         /\ \A s \in Sets : f[s] \in Seq(Sample) /\ DOMAIN f[s] = 1 .. Len(f[s]) /\ Len(f[s]) \in Nat
<1>1. \A s \in Sets : f[s] \in Seq(Sample) /\ DOMAIN f[s] = 1 .. Len(f[s]) /\ Len(f[s]) \in Nat
  BY DEF BySet
<1>2. \A x : x \in Elements(f) <=> \E s \in Sets : \E i \in DOMAIN f[s] : x = f[s][i]
  BY DEF Elements, Range
<1>3. \A s \in Sets : \A i \in DOMAIN f[s] : f[s][i] \in Sample BY <1>1
<1> QED BY <1>1, <1>2, <1>3

LEMMA ElementsIn ==
  ASSUME NEW f \in BySet, NEW S, \A s \in Sets : \A i \in DOMAIN f[s] : f[s][i] \in S
  PROVE  Elements(f) \subseteq S
BY ElementsFacts

LEMMA EmptyFacts ==
  /\ Empty \in BySet /\ Elements(Empty) = {} /\ Neat(Empty)
  /\ \A s \in Sets : Empty[s] = <<>> /\ DOMAIN Empty[s] = {}
<1>1. Empty \in BySet /\ \A s \in Sets : Empty[s] = <<>> /\ DOMAIN Empty[s] = {} BY DEF Empty, BySet
<1>2. Elements(Empty) = {} BY <1>1, ElementsFacts
<1> QED BY <1>1, <1>2 DEF Neat, Inc

Tidy(f) == \A s \in Sets : Inc(f[s]) /\ \A i \in DOMAIN f[s] : SetOf[f[s][i]] = s

LEMMA NeatTidy ==
  ASSUME NEW f, Neat(f)
  PROVE  Tidy(f)
BY DEF Neat, Tidy, Belongs

\* Where nothing is twice, counting places is counting samples.
LEMMA CountIsCardinality ==
  ASSUME NEW f \in BySet, Tidy(f)
  PROVE  Count(f) = Cardinality(Elements(f)) /\ IsFiniteSet(Elements(f)) /\ Count(f) \in Nat
<1> DEFINE row(s) == {s} \X DOMAIN f[s]
           places == UNION {row(s) : s \in Sets}
           rows == {row(s) : s \in Sets}
           at == [p \in places |-> f[p[1]][p[2]]]
<1>1. IsFiniteSet(places)
  <2>1. \A s \in Sets : IsFiniteSet(row(s))
    <3> TAKE s \in Sets
    <3>1. IsFiniteSet({s}) BY FS_Singleton
    <3>2. IsFiniteSet(1 .. Len(f[s])) /\ DOMAIN f[s] = 1 .. Len(f[s]) BY ElementsFacts, FS_Interval
    <3> QED BY <3>1, <3>2, FS_Product
  <2>2. IsFiniteSet(rows)
    <3> DEFINE g == [s \in Sets |-> row(s)]
    <3>1. g \in Surjection(Sets, rows)
      <4>1. g \in [Sets -> rows] OBVIOUS
      <4>2. \A t \in rows : \E s \in Sets : g[s] = t OBVIOUS
      <4> HIDE DEF g, rows
      <4> QED BY <4>1, <4>2 DEF Surjection
    <3>2. IsFiniteSet(Sets) BY SinkAssumption
    <3> HIDE DEF g, rows
    <3> QED BY <3>1, <3>2, FS_Surjection
  <2> QED BY <2>1, <2>2, FS_UNION
<1>2. \A p \in places : p[1] \in Sets /\ p[2] \in DOMAIN f[p[1]] /\ p = <<p[1], p[2]>> OBVIOUS
<1>3. \A s \in Sets : \A i \in DOMAIN f[s] : <<s, i>> \in places OBVIOUS
<1> HIDE DEF places
<1>4. at \in Bijection(places, Elements(f))
  <2>1. at \in [places -> Elements(f)] BY <1>2, ElementsFacts
  <2>2. ASSUME NEW p \in places, NEW q \in places, at[p] = at[q] PROVE p = q
    <3> DEFINE x == f[p[1]][p[2]]
    <3>1. x = f[q[1]][q[2]] BY <2>2
    <3>2. SetOf[x] = p[1] BY <1>2 DEF Tidy
    <3>3. SetOf[x] = q[1] BY <1>2, <3>1 DEF Tidy
    <3>4. p[1] = q[1] /\ p[1] \in Sets BY <3>2, <3>3, <1>2
    <3>5. Inc(f[p[1]]) BY <3>4 DEF Tidy
    <3>6. x \in Sample /\ x[2] \in Nat BY <1>2, ElementsFacts, SampleFacts
    <3>7. p[2] \in Nat /\ q[2] \in Nat /\ p[2] \in DOMAIN f[p[1]] /\ q[2] \in DOMAIN f[p[1]]
      BY <1>2, <3>4, ElementsFacts
    <3>8. ~(p[2] < q[2]) /\ ~(q[2] < p[2]) BY <3>1, <3>4, <3>5, <3>6, <3>7 DEF Inc
    <3>9. p[2] = q[2] BY <3>7, <3>8
    <3> QED BY <3>4, <3>9, <1>2
  <2>3. \A x \in Elements(f) : \E p \in places : at[p] = x
    <3> TAKE x \in Elements(f)
    <3>1. PICK s \in Sets : \E i \in DOMAIN f[s] : x = f[s][i] BY ElementsFacts
    <3>2. PICK i \in DOMAIN f[s] : x = f[s][i] BY <3>1
    <3>3. <<s, i>> \in places /\ at[<<s, i>>] = x BY <1>3, <3>2
    <3> QED BY <3>3
  <2> HIDE DEF at
  <2> QED BY <2>1, <2>2, <2>3 DEF Bijection, Injection, Surjection, IsInjective
<1>5. ExistsBijection(places, Elements(f)) BY <1>4 DEF ExistsBijection
<1>6. Count(f) = Cardinality(places) BY DEF Count, places
<1> QED BY <1>1, <1>5, <1>6, FS_Bijection, FS_CardinalityType

\* A sequence cut in two.
LEMMA CutSeq ==
  ASSUME NEW S, NEW q \in Seq(S), NEW k \in Nat, k <= Len(q)
  PROVE  /\ SubSeq(q, 1, k) \in Seq(S) /\ SubSeq(q, k + 1, Len(q)) \in Seq(S)
         /\ DOMAIN SubSeq(q, 1, k) = 1 .. k
         /\ DOMAIN SubSeq(q, k + 1, Len(q)) = 1 .. Len(q) - k
         /\ \A i \in 1 .. k : SubSeq(q, 1, k)[i] = q[i]
         /\ \A i \in 1 .. Len(q) - k : SubSeq(q, k + 1, Len(q))[i] = q[i + k]
<1>1. Len(q) \in Nat /\ DOMAIN q = 1 .. Len(q) OBVIOUS
<1>2. \A i \in 1 .. Len(q) : q[i] \in S OBVIOUS
<1>3. \A i \in 1 .. k : q[i] \in S BY <1>1, <1>2
<1>4. \A i \in k + 1 .. Len(q) : q[i] \in S BY <1>1, <1>2
<1>5. /\ SubSeq(q, 1, k) \in Seq(S)
      /\ Len(SubSeq(q, 1, k)) = IF 1 <= k THEN k - 1 + 1 ELSE 0
      /\ \A i \in 1 .. k - 1 + 1 : SubSeq(q, 1, k)[i] = q[1 + i - 1]
  <2>1. 1 \in Int /\ k \in Int OBVIOUS
  <2> QED BY <1>3, <2>1, SubSeqProperties
<1>6. /\ SubSeq(q, k + 1, Len(q)) \in Seq(S)
      /\ Len(SubSeq(q, k + 1, Len(q))) = IF k + 1 <= Len(q) THEN Len(q) - (k + 1) + 1 ELSE 0
      /\ \A i \in 1 .. Len(q) - (k + 1) + 1 : SubSeq(q, k + 1, Len(q))[i] = q[(k + 1) + i - 1]
  <2>1. k + 1 \in Int /\ Len(q) \in Int BY <1>1
  <2> QED BY <1>4, <2>1, SubSeqProperties
<1> DEFINE head == SubSeq(q, 1, k)
           tail == SubSeq(q, k + 1, Len(q))
           n == Len(q)
<1>7. /\ head \in Seq(S) /\ Len(head) = IF 1 <= k THEN k - 1 + 1 ELSE 0
      /\ \A i \in 1 .. k - 1 + 1 : head[i] = q[1 + i - 1]
  BY <1>5
<1>8. /\ tail \in Seq(S) /\ Len(tail) = IF k + 1 <= n THEN n - (k + 1) + 1 ELSE 0
      /\ \A i \in 1 .. n - (k + 1) + 1 : tail[i] = q[(k + 1) + i - 1]
  BY <1>6
<1>9. n \in Nat /\ k <= n BY <1>1
<1> HIDE DEF head, tail, n
<1>10. Len(head) = k /\ Len(tail) = n - k BY <1>7, <1>8, <1>9
<1>11. DOMAIN head = 1 .. k /\ DOMAIN tail = 1 .. n - k BY <1>7, <1>8, <1>10
<1>12. ASSUME NEW i \in 1 .. k PROVE head[i] = q[i]
  <2>1. i \in 1 .. k - 1 + 1 /\ 1 + i - 1 = i OBVIOUS
  <2> QED BY <1>7, <2>1
<1>13. ASSUME NEW i \in 1 .. n - k PROVE tail[i] = q[i + k]
  <2>1. i \in 1 .. n - (k + 1) + 1 /\ (k + 1) + i - 1 = i + k BY <1>9
  <2> QED BY <1>8, <2>1
<1> QED BY <1>7, <1>8, <1>11, <1>12, <1>13 DEF head, tail, n

\* Samples that are taken off the front.
LEMMA CutFacts ==
  ASSUME Types, Neat(buffers), NEW n \in Runs
  PROVE  /\ Heads(n) \in BySet /\ Tails(n) \in BySet
         /\ Neat(Heads(n)) /\ Neat(Tails(n)) /\ Ahead(Heads(n), Tails(n))
         /\ Elements(buffers) = Elements(Heads(n)) \cup Elements(Tails(n))
         /\ Elements(Heads(n)) # {}
<1>1. \A s \in Sets : n[s] \in Nat /\ n[s] <= Len(buffers[s]) /\ buffers[s] \in Seq(Sample) /\ Len(buffers[s]) \in Nat
  BY ElementsFacts DEF Runs, Types
<1>2. \A s \in Sets : /\ Heads(n)[s] \in Seq(Sample) /\ Tails(n)[s] \in Seq(Sample)
                      /\ DOMAIN Heads(n)[s] = 1 .. n[s]
                      /\ DOMAIN Tails(n)[s] = 1 .. Len(buffers[s]) - n[s]
                      /\ \A i \in 1 .. n[s] : Heads(n)[s][i] = buffers[s][i]
                      /\ \A i \in 1 .. Len(buffers[s]) - n[s] : Tails(n)[s][i] = buffers[s][i + n[s]]
  <2> TAKE s \in Sets
  <2>1. Heads(n)[s] = SubSeq(buffers[s], 1, n[s]) /\ Tails(n)[s] = SubSeq(buffers[s], n[s] + 1, Len(buffers[s]))
    BY DEF Heads, Tails
  <2> DEFINE q == buffers[s]
             k == n[s]
  <2>2. q \in Seq(Sample) /\ k \in Nat /\ k <= Len(q) BY <1>1
  <2>3. Heads(n)[s] = SubSeq(q, 1, k) /\ Tails(n)[s] = SubSeq(q, k + 1, Len(q)) BY <2>1
  <2> HIDE DEF q, k
  <2>4. /\ SubSeq(q, 1, k) \in Seq(Sample) /\ SubSeq(q, k + 1, Len(q)) \in Seq(Sample)
        /\ DOMAIN SubSeq(q, 1, k) = 1 .. k
        /\ DOMAIN SubSeq(q, k + 1, Len(q)) = 1 .. Len(q) - k
        /\ \A i \in 1 .. k : SubSeq(q, 1, k)[i] = q[i]
        /\ \A i \in 1 .. Len(q) - k : SubSeq(q, k + 1, Len(q))[i] = q[i + k]
    BY <2>2, CutSeq
  <2> QED BY <2>3, <2>4 DEF q, k
<1>3. Heads(n) \in BySet /\ Tails(n) \in BySet BY <1>2 DEF Heads, Tails, BySet
<1>4. \A s \in Sets : DOMAIN buffers[s] = 1 .. Len(buffers[s]) BY <1>1
<1>5. Neat(Heads(n))
  <2> SUFFICES ASSUME NEW s \in Sets PROVE Inc(Heads(n)[s]) /\ \A i \in DOMAIN Heads(n)[s] : Belongs(Heads(n)[s][i], s)
    BY DEF Neat
  <2>1. Inc(buffers[s]) /\ \A i \in DOMAIN buffers[s] : Belongs(buffers[s][i], s) BY DEF Neat
  <2>2. \A i \in 1 .. n[s] : i \in DOMAIN buffers[s] BY <1>1, <1>4
  <2>3. DOMAIN Heads(n)[s] = 1 .. n[s] /\ \A i \in 1 .. n[s] : Heads(n)[s][i] = buffers[s][i] BY <1>2
  <2>4. \A i \in DOMAIN Heads(n)[s] : i \in DOMAIN buffers[s] /\ Heads(n)[s][i] = buffers[s][i]
    BY <2>2, <2>3
  <2>5. Inc(Heads(n)[s]) BY <2>1, <2>4 DEF Inc
  <2>6. \A i \in DOMAIN Heads(n)[s] : Belongs(Heads(n)[s][i], s) BY <2>1, <2>4
  <2> QED BY <2>5, <2>6
<1>6. Neat(Tails(n))
  <2> SUFFICES ASSUME NEW s \in Sets PROVE Inc(Tails(n)[s]) /\ \A i \in DOMAIN Tails(n)[s] : Belongs(Tails(n)[s][i], s)
    BY DEF Neat
  <2>1. Inc(buffers[s]) /\ \A i \in DOMAIN buffers[s] : Belongs(buffers[s][i], s) BY DEF Neat
  <2>2. \A i \in 1 .. Len(buffers[s]) - n[s] : i + n[s] \in DOMAIN buffers[s] /\ i \in Nat BY <1>1, <1>4
  <2>3. ASSUME NEW i \in DOMAIN Tails(n)[s] PROVE Belongs(Tails(n)[s][i], s)
    <3>1. i + n[s] \in DOMAIN buffers[s] BY <2>2, <1>2
    <3>2. Tails(n)[s][i] = buffers[s][i + n[s]] BY <1>2
    <3> QED BY <3>1, <3>2, <2>1
  <2>4. ASSUME NEW i \in DOMAIN Tails(n)[s], NEW j \in DOMAIN Tails(n)[s], i < j,
               Tails(n)[s][i][1] = Tails(n)[s][j][1]
        PROVE  Tails(n)[s][i][2] < Tails(n)[s][j][2]
    <3>1. i + n[s] \in DOMAIN buffers[s] /\ j + n[s] \in DOMAIN buffers[s] /\ i + n[s] < j + n[s]
      BY <2>2, <2>4, <1>1, <1>2
    <3>2. Tails(n)[s][i] = buffers[s][i + n[s]] /\ Tails(n)[s][j] = buffers[s][j + n[s]] BY <1>2
    <3> QED BY <3>1, <3>2, <2>1, <2>4 DEF Inc
  <2> QED BY <2>3, <2>4 DEF Inc
<1>7. Ahead(Heads(n), Tails(n))
  <2> SUFFICES ASSUME NEW s \in Sets, NEW i \in DOMAIN Heads(n)[s], NEW j \in DOMAIN Tails(n)[s],
                      Heads(n)[s][i][1] = Tails(n)[s][j][1]
               PROVE  Heads(n)[s][i][2] < Tails(n)[s][j][2]
    BY DEF Ahead
  <2>a. i \in 1 .. n[s] /\ j \in 1 .. Len(buffers[s]) - n[s] BY <1>2
  <2>b. n[s] \in Nat /\ n[s] <= Len(buffers[s]) /\ Len(buffers[s]) \in Nat BY <1>1
  <2>1. i \in DOMAIN buffers[s] /\ j + n[s] \in DOMAIN buffers[s] /\ i < j + n[s] BY <2>a, <2>b, <1>4
  <2>2. Heads(n)[s][i] = buffers[s][i] /\ Tails(n)[s][j] = buffers[s][j + n[s]] BY <1>2
  <2> QED BY <2>1, <2>2 DEF Neat, Inc
<1>8. Elements(buffers) = Elements(Heads(n)) \cup Elements(Tails(n))
  <2>1. ASSUME NEW x \in Elements(buffers) PROVE x \in Elements(Heads(n)) \cup Elements(Tails(n))
    <3>1. PICK s \in Sets : \E i \in DOMAIN buffers[s] : x = buffers[s][i] BY ElementsFacts DEF Types
    <3>2. PICK i \in 1 .. Len(buffers[s]) : x = buffers[s][i] BY <3>1, <1>4
    <3>3. CASE i <= n[s]
      <4>1. i \in DOMAIN Heads(n)[s] /\ Heads(n)[s][i] = x BY <3>2, <3>3, <1>1, <1>2
      <4> QED BY <4>1, <1>3, ElementsFacts
    <3>4. CASE n[s] < i
      <4>1. i - n[s] \in 1 .. Len(buffers[s]) - n[s] /\ (i - n[s]) + n[s] = i BY <3>4, <1>1
      <4>2. i - n[s] \in DOMAIN Tails(n)[s] /\ Tails(n)[s][i - n[s]] = x BY <3>2, <4>1, <1>2
      <4> QED BY <4>2, <1>3, ElementsFacts
    <3> QED BY <3>3, <3>4, <1>1
  <2>2. ASSUME NEW s \in Sets, NEW i \in DOMAIN Heads(n)[s] PROVE Heads(n)[s][i] \in Elements(buffers)
    <3>1. i \in DOMAIN buffers[s] /\ Heads(n)[s][i] = buffers[s][i] BY <1>1, <1>2, <1>4
    <3> QED BY <3>1, ElementsFacts DEF Types
  <2>3. ASSUME NEW s \in Sets, NEW i \in DOMAIN Tails(n)[s] PROVE Tails(n)[s][i] \in Elements(buffers)
    <3>1. i \in 1 .. Len(buffers[s]) - n[s] BY <1>2
    <3>2. i + n[s] \in DOMAIN buffers[s] BY <3>1, <1>1, <1>4
    <3>3. Tails(n)[s][i] = buffers[s][i + n[s]] BY <3>1, <1>2
    <3> QED BY <3>2, <3>3, ElementsFacts DEF Types
  <2>4. Elements(Heads(n)) \subseteq Elements(buffers) BY <2>2, <1>3, ElementsFacts
  <2>5. Elements(Tails(n)) \subseteq Elements(buffers) BY <2>3, <1>3, ElementsFacts
  <2> QED BY <2>1, <2>4, <2>5
<1>9. Elements(Heads(n)) # {}
  <2>1. Heads(n) # Empty BY DEF Runs
  <2>2. PICK s \in Sets : Heads(n)[s] # <<>> BY <2>1 DEF Heads, Empty
  <2>3. 1 \in DOMAIN Heads(n)[s] BY <2>2, <1>1, <1>2
  <2> QED BY <2>3, <1>3, ElementsFacts
<1> QED BY <1>3, <1>5, <1>6, <1>7, <1>8, <1>9

LEMMA AheadDisjoint ==
  ASSUME NEW f \in BySet, NEW g \in BySet, Neat(f), Neat(g), Ahead(f, g)
  PROVE  Elements(f) \cap Elements(g) = {}
<1> SUFFICES ASSUME NEW x \in Elements(f), x \in Elements(g) PROVE FALSE
  OBVIOUS
<1>1. PICK s \in Sets : \E i \in DOMAIN f[s] : x = f[s][i] BY ElementsFacts
<1>2. PICK i \in DOMAIN f[s] : x = f[s][i] BY <1>1
<1>3. PICK t \in Sets : \E j \in DOMAIN g[t] : x = g[t][j] BY ElementsFacts
<1>4. PICK j \in DOMAIN g[t] : x = g[t][j] BY <1>3
<1>5. s = t
  <2>1. Belongs(f[s][i], s) /\ Belongs(g[t][j], t) BY DEF Neat
  <2> QED BY <2>1, <1>2, <1>4 DEF Belongs
<1>6. x[2] < x[2] BY <1>2, <1>4, <1>5 DEF Ahead
<1>7. x[2] \in Nat BY ElementsFacts, SampleFacts
<1> QED BY <1>6, <1>7

LEMMA CountUnion ==
  ASSUME NEW f \in BySet, NEW g \in BySet, NEW h \in BySet, Neat(f), Neat(g), Neat(h),
         Ahead(f, g), Elements(h) = Elements(f) \cup Elements(g)
  PROVE  Count(h) = Count(f) + Count(g) /\ Count(f) \in Nat /\ Count(g) \in Nat
<1>1. Elements(f) \cap Elements(g) = {} BY AheadDisjoint
<1>2. Cardinality(Elements(f) \cap Elements(g)) = 0 BY <1>1, FS_EmptySet
<1>3. /\ Count(f) = Cardinality(Elements(f)) /\ IsFiniteSet(Elements(f)) /\ Count(f) \in Nat
      /\ Count(g) = Cardinality(Elements(g)) /\ IsFiniteSet(Elements(g)) /\ Count(g) \in Nat
      /\ Count(h) = Cardinality(Elements(h))
  BY NeatTidy, CountIsCardinality
<1>4. Cardinality(Elements(f) \cup Elements(g)) =
        Cardinality(Elements(f)) + Cardinality(Elements(g)) - Cardinality(Elements(f) \cap Elements(g))
  BY <1>3, FS_Union
<1> QED BY <1>2, <1>3, <1>4

\* A batch that goes back to the head of its buffers.
Join(f, g) == [s \in Sets |-> f[s] \o g[s]]

LEMMA JoinFacts ==
  ASSUME NEW f \in BySet, NEW g \in BySet, Neat(f), Neat(g), Ahead(f, g)
  PROVE  /\ Join(f, g) \in BySet /\ Neat(Join(f, g))
         /\ Elements(Join(f, g)) = Elements(f) \cup Elements(g)
         /\ Count(Join(f, g)) = Count(f) + Count(g) /\ Count(f) \in Nat /\ Count(g) \in Nat
<1> DEFINE h == Join(f, g)
<1>1. \A s \in Sets : /\ f[s] \in Seq(Sample) /\ DOMAIN f[s] = 1 .. Len(f[s]) /\ Len(f[s]) \in Nat
                      /\ g[s] \in Seq(Sample) /\ DOMAIN g[s] = 1 .. Len(g[s]) /\ Len(g[s]) \in Nat
  BY ElementsFacts
<1>2. \A s \in Sets : /\ h[s] \in Seq(Sample) /\ DOMAIN h[s] = 1 .. (Len(f[s]) + Len(g[s]))
                      /\ \A k \in 1 .. (Len(f[s]) + Len(g[s])) :
                           h[s][k] = IF k <= Len(f[s]) THEN f[s][k] ELSE g[s][k - Len(f[s])]
  <2> TAKE s \in Sets
  <2>1. h[s] = f[s] \o g[s] BY DEF Join
  <2>2. f[s] \in Seq(Sample) /\ g[s] \in Seq(Sample) BY <1>1
  <2>3. /\ f[s] \o g[s] \in Seq(Sample)
        /\ Len(f[s] \o g[s]) = Len(f[s]) + Len(g[s])
        /\ \A k \in 1 .. (Len(f[s]) + Len(g[s])) :
             (f[s] \o g[s])[k] = IF k <= Len(f[s]) THEN f[s][k] ELSE g[s][k - Len(f[s])]
    BY <2>2, ConcatProperties
  <2> DEFINE q == f[s] \o g[s]
  <2>4. q \in Seq(Sample) BY <2>3
  <2> HIDE DEF h, q
  <2>5. DOMAIN q = 1 .. Len(q) BY <2>4
  <2> QED BY <2>1, <2>3, <2>5 DEF q
<1>3. h \in BySet BY <1>2 DEF BySet, Join
<1> HIDE DEF h
\* Where the k-th sample of a set comes from, and where the samples of each part go.
<1>4. ASSUME NEW s \in Sets, NEW k \in DOMAIN h[s]
      PROVE  /\ k \in Nat
             /\ \/ k \in DOMAIN f[s] /\ h[s][k] = f[s][k]
                \/ k - Len(f[s]) \in DOMAIN g[s] /\ h[s][k] = g[s][k - Len(f[s])] /\ k > Len(f[s])
  <2> DEFINE m == Len(f[s])
             n == Len(g[s])
  <2>1. m \in Nat /\ n \in Nat /\ DOMAIN f[s] = 1 .. m /\ DOMAIN g[s] = 1 .. n BY <1>1
  <2>2. k \in 1 .. (m + n) /\ h[s][k] = IF k <= m THEN f[s][k] ELSE g[s][k - m] BY <1>2
  <2> HIDE DEF m, n
  <2>3. CASE k <= m BY <2>1, <2>2, <2>3 DEF m
  <2>4. CASE k > m
    <3>1. k - m \in 1 .. n /\ k \in Nat BY <2>1, <2>2, <2>4
    <3> QED BY <3>1, <2>1, <2>2, <2>4 DEF m
  <2> QED BY <2>1, <2>2, <2>3, <2>4
<1>5. ASSUME NEW s \in Sets, NEW i \in DOMAIN f[s] PROVE i \in DOMAIN h[s] /\ h[s][i] = f[s][i]
  <2> DEFINE m == Len(f[s])
             n == Len(g[s])
  <2>1. m \in Nat /\ n \in Nat /\ i \in 1 .. m BY <1>1
  <2>2. /\ DOMAIN h[s] = 1 .. (m + n)
        /\ \A k \in 1 .. (m + n) : h[s][k] = IF k <= m THEN f[s][k] ELSE g[s][k - m]
    BY <1>2
  <2> HIDE DEF m, n
  <2> QED BY <2>1, <2>2
<1>6. ASSUME NEW s \in Sets, NEW i \in DOMAIN g[s]
      PROVE  i + Len(f[s]) \in DOMAIN h[s] /\ h[s][i + Len(f[s])] = g[s][i]
  <2> DEFINE m == Len(f[s])
             n == Len(g[s])
  <2>1. m \in Nat /\ n \in Nat /\ i \in 1 .. n BY <1>1
  <2>2. /\ DOMAIN h[s] = 1 .. (m + n)
        /\ \A k \in 1 .. (m + n) : h[s][k] = IF k <= m THEN f[s][k] ELSE g[s][k - m]
    BY <1>2
  <2> HIDE DEF m, n
  <2>3. i + m \in 1 .. (m + n) /\ ~(i + m <= m) /\ (i + m) - m = i BY <2>1
  <2> QED BY <2>2, <2>3 DEF m
<1>7. Neat(h)
  <2> SUFFICES ASSUME NEW s \in Sets PROVE Inc(h[s]) /\ \A i \in DOMAIN h[s] : Belongs(h[s][i], s)
    BY DEF Neat
  <2>a. /\ Inc(f[s]) /\ \A i \in DOMAIN f[s] : Belongs(f[s][i], s)
        /\ Inc(g[s]) /\ \A i \in DOMAIN g[s] : Belongs(g[s][i], s)
    BY DEF Neat
  <2>1. ASSUME NEW i \in DOMAIN h[s] PROVE Belongs(h[s][i], s) BY <1>4, <2>a
  <2>2. ASSUME NEW i \in DOMAIN h[s], NEW j \in DOMAIN h[s], i < j, h[s][i][1] = h[s][j][1]
        PROVE  h[s][i][2] < h[s][j][2]
    <3> DEFINE m == Len(f[s])
    <3>1. i \in Nat /\ j \in Nat /\ m \in Nat /\ DOMAIN f[s] = 1 .. m BY <1>1, <1>4
    <3>2. /\ \/ i \in DOMAIN f[s] /\ h[s][i] = f[s][i]
             \/ i - m \in DOMAIN g[s] /\ h[s][i] = g[s][i - m] /\ i > m
          /\ \/ j \in DOMAIN f[s] /\ h[s][j] = f[s][j]
             \/ j - m \in DOMAIN g[s] /\ h[s][j] = g[s][j - m] /\ j > m
      BY <1>4
    <3> HIDE DEF m
    <3>3. CASE j \in DOMAIN f[s] /\ h[s][j] = f[s][j]
      <4>1. i \in DOMAIN f[s] /\ h[s][i] = f[s][i] BY <3>1, <3>2, <3>3, <2>2
      <4> QED BY <4>1, <3>3, <2>2, <2>a DEF Inc
    <3>4. CASE i \in DOMAIN f[s] /\ h[s][i] = f[s][i] /\ j - m \in DOMAIN g[s] /\ h[s][j] = g[s][j - m]
      BY <3>4, <2>2 DEF Ahead
    <3>5. CASE /\ i - m \in DOMAIN g[s] /\ h[s][i] = g[s][i - m]
               /\ j - m \in DOMAIN g[s] /\ h[s][j] = g[s][j - m]
      <4>1. i - m < j - m BY <3>1, <2>2
      <4> QED BY <4>1, <3>5, <2>2, <2>a DEF Inc
    <3> QED BY <3>2, <3>3, <3>4, <3>5
  <2> QED BY <2>1, <2>2 DEF Inc
<1>8. Elements(h) = Elements(f) \cup Elements(g)
  <2>1. \A s \in Sets : \A k \in DOMAIN h[s] : h[s][k] \in Elements(f) \cup Elements(g)
    BY <1>4, ElementsFacts
  <2>2. \A s \in Sets : \A i \in DOMAIN f[s] : f[s][i] \in Elements(h) BY <1>3, <1>5, ElementsFacts
  <2>3. \A s \in Sets : \A i \in DOMAIN g[s] : g[s][i] \in Elements(h) BY <1>3, <1>6, ElementsFacts
  <2>4. Elements(h) \subseteq Elements(f) \cup Elements(g) BY <2>1, <1>3, ElementsIn
  <2>5. Elements(f) \subseteq Elements(h) BY <2>2, ElementsIn
  <2>6. Elements(g) \subseteq Elements(h) BY <2>3, ElementsIn
  <2> QED BY <2>4, <2>5, <2>6
<1>9. Count(h) = Count(f) + Count(g) /\ Count(f) \in Nat /\ Count(g) \in Nat
  BY <1>3, <1>7, <1>8, CountUnion
<1> QED BY <1>3, <1>7, <1>8, <1>9 DEF h

\* A sample that is appended to its buffer.
Grown(x) == [buffers EXCEPT ![SetOf[x]] = Append(@, x)]

LEMMA AppendFacts ==
  ASSUME Types, Neat(buffers), NEW x \in Sample, x[2] > puts[x[1]],
         NEW b, b = Grown(x)
  PROVE  /\ b \in BySet
         /\ \A s \in Sets : /\ Len(buffers[s]) \in Nat /\ DOMAIN buffers[s] = 1 .. Len(buffers[s])
                            /\ DOMAIN b[s] = IF s = SetOf[x] THEN 1 .. Len(buffers[s]) + 1 ELSE DOMAIN buffers[s]
                            /\ \A i \in DOMAIN buffers[s] : b[s][i] = buffers[s][i]
                            /\ s = SetOf[x] => b[s][Len(buffers[s]) + 1] = x
         /\ Elements(b) = Elements(buffers) \cup {x}
         /\ x \notin Elements(buffers)
<1>1. SetOf[x] \in Sets /\ x[2] \in Nat /\ x[1] \in Writers BY SampleFacts
<1>2. \A s \in Sets : buffers[s] \in Seq(Sample) /\ DOMAIN buffers[s] = 1 .. Len(buffers[s]) /\ Len(buffers[s]) \in Nat
  BY ElementsFacts DEF Types
<1>3. \A s \in Sets : b[s] = IF s = SetOf[x] THEN Append(buffers[s], x) ELSE buffers[s]
  BY <1>1 DEF Types, BySet, Grown
<1>4. b \in BySet BY <1>1, <1>2 DEF Types, BySet, Grown
<1>5. \A s \in Sets : /\ Len(buffers[s]) \in Nat /\ DOMAIN buffers[s] = 1 .. Len(buffers[s])
                      /\ DOMAIN b[s] = IF s = SetOf[x] THEN 1 .. Len(buffers[s]) + 1 ELSE DOMAIN buffers[s]
                      /\ \A i \in DOMAIN buffers[s] : b[s][i] = buffers[s][i]
                      /\ s = SetOf[x] => b[s][Len(buffers[s]) + 1] = x
  <2> TAKE s \in Sets
  <2>1. CASE s = SetOf[x]
    <3>1. b[s] = Append(buffers[s], x) /\ buffers[s] \in Seq(Sample) /\ Len(buffers[s]) \in Nat
      BY <2>1, <1>2, <1>3
    <3>2. /\ DOMAIN Append(buffers[s], x) = 1 .. Len(buffers[s]) + 1
          /\ \A i \in 1 .. Len(buffers[s]) : Append(buffers[s], x)[i] = buffers[s][i]
          /\ Append(buffers[s], x)[Len(buffers[s]) + 1] = x
      BY <3>1
    <3> QED BY <3>1, <3>2, <2>1, <1>2
  <2>2. CASE s # SetOf[x] BY <2>2, <1>2, <1>3
  <2> QED BY <2>1, <2>2
<1>6. x \in Elements(b)
  <2> DEFINE s == SetOf[x]
  <2>1. Len(buffers[s]) + 1 \in DOMAIN b[s] /\ b[s][Len(buffers[s]) + 1] = x BY <1>1, <1>5
  <2> QED BY <2>1, <1>1, <1>4, ElementsFacts
<1>7. \A s \in Sets : \A i \in DOMAIN buffers[s] : buffers[s][i] \in Elements(b)
  <2> TAKE s \in Sets
  <2> TAKE i \in DOMAIN buffers[s]
  <2>1. i \in DOMAIN b[s] /\ b[s][i] = buffers[s][i] BY <1>5
  <2> QED BY <2>1, <1>4, ElementsFacts
<1>8. \A s \in Sets : \A i \in DOMAIN b[s] : b[s][i] = x \/ b[s][i] \in Elements(buffers)
  <2> TAKE s \in Sets
  <2> TAKE i \in DOMAIN b[s]
  <2>1. i \in DOMAIN buffers[s] \/ (s = SetOf[x] /\ i = Len(buffers[s]) + 1) BY <1>5
  <2> QED BY <2>1, <1>5, ElementsFacts DEF Types
<1>9. Elements(b) = Elements(buffers) \cup {x}
  <2>1. Elements(buffers) \subseteq Elements(b) BY <1>7, ElementsIn DEF Types
  <2> DEFINE S == Elements(buffers) \cup {x}
  <2>a. \A s \in Sets : \A i \in DOMAIN b[s] : b[s][i] \in S BY <1>8
  <2> HIDE DEF S
  <2>b. Elements(b) \subseteq S BY <2>a, <1>4, ElementsIn
  <2>2. Elements(b) \subseteq Elements(buffers) \cup {x} BY <2>b DEF S
  <2> QED BY <2>1, <2>2, <1>6
<1>10. x \notin Elements(buffers)
  <2> SUFFICES ASSUME x \in Elements(buffers) PROVE FALSE
    OBVIOUS
  <2>1. PICK s \in Sets : \E i \in DOMAIN buffers[s] : x = buffers[s][i] BY ElementsFacts DEF Types
  <2>2. x[2] <= puts[x[1]] /\ puts[x[1]] \in Nat BY <2>1, <1>1 DEF Neat, Belongs, Types
  <2> QED BY <2>2, <1>1
<1> QED BY <1>4, <1>5, <1>9, <1>10

-----------------------------------------------------------------------------
(* Lemmas: what a step leaves alone.                                       *)

LEMMA SndFacts ==
  ASSUME Types
  PROVE  /\ snd.at \in Steps /\ snd.by \in Callers \cup {""} /\ snd.round \in Nat /\ snd.meta \subseteq Decls
         /\ snd.batch \in BySet /\ snd.before \in Nat
BY DEF Types, Snd

LEMMA FreeFacts ==
  /\ Free \in Snd /\ Free.at = "free" /\ Free.batch = Empty /\ Free.partial = FALSE
BY EmptyFacts DEF Free, Snd, Steps

\* What the sink holds, counted.
LEMMA HeldFacts ==
  ASSUME Types, InOrder, CountersExact
  PROVE  /\ IsFiniteSet(Held) /\ Cardinality(Held) \in Nat /\ Cardinality(Held) <= pending + inflight
         /\ IsFiniteSet(Elements(buffers)) /\ pending = Cardinality(Elements(buffers))
         /\ Moving => Elements(snd.batch) \cap Elements(buffers) = {}
<1> DEFINE E == Elements(buffers)
           F == Elements(snd.batch)
<1>1. IsFiniteSet(E) /\ pending = Cardinality(E) /\ pending \in Nat /\ inflight \in Nat
  BY NeatTidy, CountIsCardinality DEF Types, InOrder, CountersExact
<1>2. Moving => E \cap F = {} BY SndFacts, AheadDisjoint DEF Types, InOrder
<1>3. CASE snd.at = "sent"
  <2>1. Moving /\ Neat(snd.batch) /\ snd.batch \in BySet BY <1>3, SndFacts DEF Moving, InOrder
  <2>2. IsFiniteSet(F) /\ Cardinality(F) = Count(snd.batch) /\ Cardinality(F) \in Nat
    BY <2>1, NeatTidy, CountIsCardinality
  <2>3. inflight = Cardinality(F) BY <2>2, <1>3 DEF CountersExact, InFlight
  <2>4. Held = E \cup F BY <1>3 DEF Held
  <2> HIDE DEF E, F
  <2>5. IsFiniteSet(E \cap F) /\ Cardinality(E \cap F) \in Nat
    BY <1>1, FS_Intersection, FS_CardinalityType
  <2>6. IsFiniteSet(E \cup F) /\ Cardinality(E \cup F) = Cardinality(E) + Cardinality(F) - Cardinality(E \cap F)
    BY <1>1, <2>2, FS_Union
  <2>7. Cardinality(E \cup F) \in Nat BY <2>6, FS_CardinalityType
  <2>8. Cardinality(E \cup F) <= pending + inflight BY <1>1, <2>2, <2>3, <2>5, <2>6
  <2> QED BY <1>1, <1>2, <2>4, <2>6, <2>7, <2>8 DEF E, F
<1>4. CASE snd.at # "sent"
  <2>1. Held = E BY <1>4 DEF Held
  <2>2. Cardinality(E) <= pending + inflight BY <1>1
  <2> QED BY <1>1, <1>2, <2>1, <2>2
<1> QED BY <1>3, <1>4

LEMMA RoomyFacts ==
  /\ IsFiniteSet(Roomy) /\ Cardinality(Roomy) \in Nat /\ Cardinality(Roomy) <= Cardinality(Writers)
  /\ Cardinality(Writers) \in Nat /\ MaxBuffered \in Nat /\ MaxBuffered >= 1
<1>1. Roomy \in SUBSET Writers BY DEF Roomy
<1> QED BY <1>1, SinkAssumption, FS_Subset, FS_CardinalityType

\* Fewer samples and fewer promises stay within the cap.
LEMMA CapFrame ==
  ASSUME Types, InOrder, CountersExact, CapOK, Held' \subseteq Held, Roomy' \subseteq Roomy
  PROVE  CapOK'
<1> DEFINE a == Cardinality(Held)
           b == Cardinality(Roomy)
           c == Cardinality(Held')
           d == Cardinality(Roomy')
<1>1. IsFiniteSet(Held) /\ IsFiniteSet(Roomy) BY HeldFacts, RoomyFacts
<1>2. c <= a /\ d <= b BY <1>1, FS_Subset
<1>3. IsFiniteSet(Held') /\ IsFiniteSet(Roomy') BY <1>1, FS_Subset
<1>4. a \in Nat /\ b \in Nat /\ c \in Nat /\ d \in Nat BY <1>1, <1>3, FS_CardinalityType
<1>5. a + b <= MaxBuffered + Cardinality(Writers) - 1 BY DEF CapOK
<1>6. MaxBuffered \in Nat /\ Cardinality(Writers) \in Nat BY RoomyFacts
<1> HIDE DEF a, b, c, d
<1>7. c + d <= MaxBuffered + Cardinality(Writers) - 1 BY <1>2, <1>4, <1>5, <1>6
<1> QED BY <1>7 DEF CapOK, c, d

\* Steps that leave the buffers alone: a request moves on, or ends with its samples
\* settled or given up.
LEMMA QuietStep ==
  ASSUME IInv, snd' \in Snd, writer' \in [Writers -> WSteps], hold' \in BOOLEAN, metaQ' \subseteq Decls,
         inflight' \in Nat, inflight' = InFlight',
         UNCHANGED <<buffers, pending, puts>>, stored \subseteq stored', dropped \subseteq dropped',
         \A w \in Writers : /\ writer'[w] \in Wanting => writer[w] \in Wanting
                            /\ writer'[w] = "room" => writer[w] = "room",
         Moving' => /\ Moving /\ snd'.batch = snd.batch /\ snd'.partial = snd.partial
                    /\ snd'.at = "sent" => snd.at = "sent" /\ mark' = mark,
         Moving /\ ~Moving' => Elements(snd.batch) \subseteq stored' \cup Bad \cup dropped',
         snd'.at \in {"take", "meta"} => ~hold',
         acked' \ Unencodable \subseteq stored' \cup Bad \cup dropped'
  PROVE  IInv'
<1>1. Types' BY DEF IInv, Types
<1>2. Waiting' BY DEF IInv, Waiting
<1>3. InOrder'
  <2>1. Neat(buffers)' BY DEF IInv, InOrder, Neat, Belongs
  <2>2. Moving' => Neat(snd.batch)' BY DEF IInv, InOrder, Neat, Belongs
  <2>3. Moving' => Ahead(snd.batch, buffers)' BY DEF IInv, InOrder, Ahead
  <2> QED BY <2>1, <2>2, <2>3 DEF InOrder
<1>4. CountersExact' BY DEF IInv, CountersExact
<1>5. Flying = IF Moving THEN Elements(snd.batch) ELSE {} BY DEF Flying, Moving
<1>6. Flying' = IF Moving' THEN Elements(snd'.batch) ELSE {} BY DEF Flying, Moving, Elements
<1>7. Settled' = stored' \cup Bad /\ Settled \subseteq Settled' BY DEF Settled
<1>8. NoneLost'
  <2>1. Handed' = Handed BY DEF Handed
  <2>2. Flying \subseteq Flying' \cup Settled' \cup dropped' BY <1>5, <1>6, <1>7
  <2>3. Elements(buffers)' = Elements(buffers) OBVIOUS
  <2>4. Handed \ Unencodable \subseteq Elements(buffers) \cup Flying \cup Settled \cup dropped
    BY DEF IInv, NoneLost
  <2> QED BY <2>1, <2>2, <2>3, <2>4, <1>7 DEF NoneLost
<1>9. AckOK'
  <2>1. AckCovers' BY <1>7 DEF AckCovers
  <2>2. ASSUME snd'.at = "sent", ~snd'.partial
        PROVE  mark' \ Unencodable \subseteq Elements(snd.batch)' \cup Settled' \cup dropped'
    <3>1. snd.at = "sent" /\ ~snd.partial /\ mark' = mark /\ Elements(snd.batch)' = Elements(snd.batch)
      BY <2>2 DEF Moving
    <3>2. mark \ Unencodable \subseteq Elements(snd.batch) \cup Settled \cup dropped BY <3>1 DEF IInv, AckOK
    <3> QED BY <3>1, <3>2, <1>7
  <2> QED BY <2>1, <2>2 DEF AckOK
<1>10. HoldOK' BY DEF HoldOK
<1>11. CapOK'
  <2>1. Held' \subseteq Held BY DEF Held, Moving
  <2>2. Roomy' \subseteq Roomy BY DEF Roomy
  <2> QED BY <2>1, <2>2, CapFrame DEF IInv
<1> QED BY <1>1, <1>2, <1>3, <1>4, <1>8, <1>9, <1>10, <1>11 DEF IInv

LEMMA WokenFacts ==
  ASSUME NEW ws \in [Writers -> WSteps]
  PROVE  /\ Woken(ws) \in [Writers -> WSteps]
         /\ \A w \in Writers : /\ Woken(ws)[w] \in Wanting => ws[w] \in Wanting
                               /\ Woken(ws)[w] = "room" => ws[w] = "room"
BY DEF Woken, WSteps, Wanting

LEMMA ReturnFacts ==
  ASSUME Types, NEW ws \in [Writers -> WSteps], NEW ok, Return(ws, ok),
         \A w \in Writers : /\ ws[w] \in Wanting => writer[w] \in Wanting
                            /\ ws[w] = "room" => writer[w] = "room"
  PROVE  /\ snd' \in Snd /\ snd'.at = "free" /\ writer' \in [Writers -> WSteps]
         /\ \A w \in Writers : /\ writer'[w] \in Wanting => writer[w] \in Wanting
                               /\ writer'[w] = "room" => writer[w] = "room"
<1>1. snd' \in Snd /\ snd'.at = "free" BY FreeFacts DEF Return
<1>2. writer' = IF snd.by \in Writers THEN [ws EXCEPT ![snd.by] = "idle"] ELSE ws BY DEF Return
<1>3. writer' \in [Writers -> WSteps] BY <1>2 DEF WSteps
<1>4. \A w \in Writers : writer'[w] = ws[w] \/ writer'[w] = "idle" BY <1>2
<1> QED BY <1>1, <1>3, <1>4 DEF Wanting

LEMMA AtMoves ==
  ASSUME Types, NEW a \in Steps, snd' = [snd EXCEPT !.at = a]
  PROVE  snd' \in Snd /\ snd'.at = a /\ snd'.batch = snd.batch /\ snd'.partial = snd.partial
<1>1. snd \in Snd BY DEF Types
<1> QED BY <1>1 DEF Snd

LEMMA ReleaseFacts ==
  ASSUME IInv, ReleaseInflight, snd.at \in {"sent", "back", "backhold"}
  PROVE  inflight' = 0
<1>1. inflight = Count(snd.batch) /\ inflight \in Nat BY DEF IInv, CountersExact, InFlight, Types
<1> QED BY <1>1 DEF ReleaseInflight

-----------------------------------------------------------------------------
(* Writers.                                                                *)

\* Only the writer moves.
LEMMA WriterStep ==
  ASSUME IInv, NEW w \in Writers, NEW a \in WSteps, writer' = [writer EXCEPT ![w] = a],
         UNCHANGED <<buffers, pending, inflight, puts, snd, metaQ, hold, stored, dropped, mark, acked>>,
         a \in Wanting => puts[w] < Puts[w] /\ <<w, puts[w] + 1>> \notin Unencodable,
         a = "room" => pending + inflight < MaxBuffered
  PROVE  IInv'
<1>1. writer' \in [Writers -> WSteps] /\ \A v \in Writers : writer'[v] = IF v = w THEN a ELSE writer[v]
  BY DEF IInv, Types
<1>2. Types' BY <1>1 DEF IInv, Types
<1>3. Waiting' BY <1>1 DEF IInv, Waiting
<1>4. InOrder' BY DEF IInv, InOrder, Neat, Belongs, Ahead, Moving
<1>5. CountersExact' BY DEF IInv, CountersExact, InFlight
<1>6. NoneLost' BY DEF IInv, NoneLost, Handed, Flying, Settled
<1>7. AckOK' BY DEF IInv, AckOK, AckCovers, Settled
<1>8. HoldOK' BY DEF IInv, HoldOK
<1>9. CapOK'
  <2>1. Held' = Held BY DEF Held
  <2>2. CASE a # "room"
    <3>1. Roomy' \subseteq Roomy BY <2>2, <1>1 DEF Roomy
    <3> QED BY <2>1, <3>1, CapFrame DEF IInv
  <2>3. CASE a = "room"
    <3>1. /\ Cardinality(Held) \in Nat /\ Cardinality(Held) <= pending + inflight
          /\ pending \in Nat /\ inflight \in Nat
      BY HeldFacts DEF IInv, Types
    <3>2. Roomy' \in SUBSET Writers BY DEF Roomy
    <3>3. /\ Cardinality(Roomy') \in Nat /\ Cardinality(Roomy') <= Cardinality(Writers)
          /\ Cardinality(Writers) \in Nat /\ MaxBuffered \in Nat
      BY <3>2, SinkAssumption, FS_Subset, FS_CardinalityType
    <3>4. pending + inflight < MaxBuffered BY <2>3
    <3>5. Cardinality(Held') \in Nat /\ Cardinality(Held') <= pending + inflight BY <2>1, <3>1
    <3>6. Cardinality(Held') + Cardinality(Roomy') <= MaxBuffered + Cardinality(Writers) - 1
      BY <3>1, <3>3, <3>4, <3>5
    <3> QED BY <3>6 DEF CapOK
  <2> QED BY <2>2, <2>3
<1> QED BY <1>2, <1>3, <1>4, <1>5, <1>6, <1>7, <1>8, <1>9 DEF IInv

LEMMA WaitRoomStep ==
  ASSUME IInv, NEW w \in Writers, WaitRoom(w)
  PROVE  IInv'
<1> DEFINE a == IF pending + inflight >= MaxBuffered THEN "wait" ELSE "room"
<1>1. /\ puts[w] < Puts[w] /\ <<w, puts[w] + 1>> \notin Unencodable
      /\ writer' = [writer EXCEPT ![w] = a]
      /\ UNCHANGED <<buffers, pending, inflight, puts, snd, metaQ, hold, stored, dropped, mark, acked>>
  BY DEF WaitRoom, world
<1>2. pending + inflight \in Nat /\ MaxBuffered \in Nat BY RoomyFacts DEF IInv, Types
<1>3. a \in WSteps /\ (a = "room" => pending + inflight < MaxBuffered) BY <1>2 DEF WSteps
<1> HIDE DEF a
<1> QED BY <1>1, <1>3, WriterStep

LEMMA WaitCancelledStep ==
  ASSUME IInv, NEW w \in Writers, WaitCancelled(w)
  PROVE  IInv'
<1>1. /\ writer' = [writer EXCEPT ![w] = "idle"]
      /\ UNCHANGED <<buffers, pending, inflight, puts, snd, metaQ, hold, stored, dropped, mark, acked>>
  BY DEF WaitCancelled, world
<1>2. "idle" \in WSteps /\ "idle" \notin Wanting BY DEF WSteps, Wanting
<1> QED BY <1>1, <1>2, WriterStep

\* A writer has handed over one more sample.
LEMMA HandedOneMore ==
  ASSUME Types, NEW w \in Writers, puts' = [puts EXCEPT ![w] = @ + 1]
  PROVE  /\ puts' \in [Writers -> Nat] /\ puts'[w] = puts[w] + 1
         /\ \A v \in Writers : puts[v] \in Nat /\ puts[v] <= puts'[v] /\ (v # w => puts'[v] = puts[v])
         /\ \A x \in Handed' : x \in Handed \/ x = <<w, puts[w] + 1>>
<1>1. /\ puts' \in [Writers -> Nat] /\ puts'[w] = puts[w] + 1
      /\ \A v \in Writers : puts[v] \in Nat /\ puts[v] <= puts'[v] /\ (v # w => puts'[v] = puts[v])
  BY DEF Types
<1>2. ASSUME NEW x \in Handed' PROVE x \in Handed \/ x = <<w, puts[w] + 1>>
  <2>1. x \in Sample /\ x[2] <= puts'[x[1]] BY DEF Handed
  <2>2. x[1] \in Writers /\ x[2] \in Nat /\ x = <<x[1], x[2]>> BY <2>1, SampleFacts
  <2>3. CASE x[1] # w
    <3>1. x[2] <= puts[x[1]] BY <2>1, <2>2, <2>3, <1>1
    <3> QED BY <3>1, <2>1 DEF Handed
  <2>4. CASE x[1] = w
    <3>1. x[2] <= puts[w] + 1 /\ puts[w] \in Nat BY <2>1, <2>4, <1>1
    <3>2. x[2] <= puts[w] \/ x[2] = puts[w] + 1 BY <3>1, <2>2
    <3> QED BY <3>2, <2>1, <2>2, <2>4 DEF Handed
  <2> QED BY <2>3, <2>4
<1> QED BY <1>1, <1>2

LEMMA NeatLater ==
  ASSUME Types, NEW f \in BySet, Neat(f), puts' \in [Writers -> Nat],
         \A v \in Writers : puts[v] \in Nat /\ puts[v] <= puts'[v]
  PROVE  \A s \in Sets : Inc(f[s]) /\ \A i \in DOMAIN f[s] : SetOf[f[s][i]] = s /\ f[s][i][2] <= puts'[f[s][i][1]]
<1> SUFFICES ASSUME NEW s \in Sets, NEW i \in DOMAIN f[s]
             PROVE  SetOf[f[s][i]] = s /\ f[s][i][2] <= puts'[f[s][i][1]]
  BY DEF Neat
<1>1. Belongs(f[s][i], s) /\ f[s][i] \in Sample BY ElementsFacts DEF Neat
<1>2. f[s][i][1] \in Writers /\ f[s][i][2] \in Nat BY <1>1, SampleFacts
<1>3. f[s][i][2] <= puts[f[s][i][1]] /\ SetOf[f[s][i]] = s BY <1>1 DEF Belongs
<1>4. puts[f[s][i][1]] \in Nat /\ puts'[f[s][i][1]] \in Nat /\ puts[f[s][i][1]] <= puts'[f[s][i][1]] BY <1>2
<1> QED BY <1>2, <1>3, <1>4

LEMMA ScreenStep ==
  ASSUME IInv, NEW w \in Writers, Screen(w)
  PROVE  IInv'
<1>1. /\ writer[w] = "idle" /\ <<w, puts[w] + 1>> \in Unencodable /\ puts' = [puts EXCEPT ![w] = @ + 1]
      /\ UNCHANGED <<buffers, pending, inflight, writer, snd, metaQ, hold, stored, dropped, mark, acked>>
  BY DEF Screen, world
<1>2. Types BY DEF IInv
<1>3. /\ puts' \in [Writers -> Nat] /\ puts'[w] = puts[w] + 1
      /\ \A v \in Writers : puts[v] \in Nat /\ puts[v] <= puts'[v] /\ (v # w => puts'[v] = puts[v])
      /\ \A x \in Handed' : x \in Handed \/ x = <<w, puts[w] + 1>>
  BY <1>1, <1>2, HandedOneMore
<1>4. Types' BY <1>1, <1>3 DEF IInv, Types
<1>5. Waiting'
  <2> SUFFICES ASSUME NEW v \in Writers, writer[v] \in Wanting
               PROVE  puts'[v] < Puts[v] /\ <<v, puts'[v] + 1>> \notin Unencodable
    BY <1>1 DEF Waiting
  <2>1. v # w BY <1>1 DEF Wanting
  <2>2. puts'[v] = puts[v] BY <2>1, <1>3
  <2> QED BY <2>2 DEF IInv, Waiting
<1>6. InOrder'
  <2>1. Neat(buffers)' BY <1>1, <1>2, <1>3, NeatLater DEF IInv, InOrder, Types, Neat, Belongs
  <2>2. ASSUME Moving PROVE Neat(snd.batch)'
    <3>1. Neat(snd.batch) /\ snd.batch \in BySet BY <2>2, SndFacts DEF IInv, InOrder
    <3> QED BY <3>1, <1>1, <1>2, <1>3, NeatLater DEF Neat, Belongs
  <2>3. Moving => Ahead(snd.batch, buffers)' BY <1>1 DEF IInv, InOrder, Ahead
  <2>4. Moving' = Moving BY <1>1 DEF Moving
  <2> QED BY <2>1, <2>2, <2>3, <2>4 DEF InOrder
<1>7. CountersExact' BY <1>1 DEF IInv, CountersExact, InFlight
<1>8. NoneLost'
  <2>1. Handed' \ Unencodable \subseteq Handed \ Unencodable BY <1>1, <1>3
  <2>2. Flying' = Flying /\ Settled' = Settled BY <1>1 DEF Flying, Settled
  <2> QED BY <2>1, <2>2, <1>1 DEF IInv, NoneLost
<1>9. AckOK' BY <1>1 DEF IInv, AckOK, AckCovers, Settled
<1>10. HoldOK' BY <1>1 DEF IInv, HoldOK
<1>11. CapOK' BY <1>1 DEF IInv, CapOK, Held, Roomy
<1> QED BY <1>4, <1>5, <1>6, <1>7, <1>8, <1>9, <1>10, <1>11 DEF IInv

LEMMA PutStep ==
  ASSUME IInv, NEW w \in Writers, Put(w)
  PROVE  IInv'
<1> DEFINE x == <<w, puts[w] + 1>>
           a == IF pending + 1 >= BatchSize THEN "flush" ELSE "idle"
<1>1. /\ writer[w] = "room" /\ buffers' = Grown(x) /\ puts' = [puts EXCEPT ![w] = @ + 1]
      /\ pending' = pending + 1 /\ writer' = [writer EXCEPT ![w] = a]
      /\ UNCHANGED <<inflight, snd, metaQ, hold, stored, dropped, mark, acked>>
  BY DEF Put, world, Grown
<1>2. a \in {"flush", "idle"} OBVIOUS
<1> HIDE DEF a
<1>3. Types /\ puts[w] \in Nat /\ Neat(buffers) BY DEF IInv, Types, InOrder
<1>4. puts[w] < Puts[w] /\ Puts[w] \in Nat BY <1>1, SinkAssumption DEF IInv, Waiting, Wanting
<1>5. x \in Sample /\ x[1] = w /\ x[2] = puts[w] + 1
  <2>1. puts[w] + 1 \in Nat /\ puts[w] + 1 >= 1 /\ puts[w] + 1 <= Puts[w] BY <1>3, <1>4
  <2> QED BY <2>1, SampleFacts
<1>6. x[2] > puts[x[1]] BY <1>3, <1>5
<1> HIDE DEF x
<1>7. /\ buffers' \in BySet
      /\ \A s \in Sets : /\ Len(buffers[s]) \in Nat /\ DOMAIN buffers[s] = 1 .. Len(buffers[s])
                         /\ DOMAIN buffers'[s] = IF s = SetOf[x] THEN 1 .. Len(buffers[s]) + 1 ELSE DOMAIN buffers[s]
                         /\ \A i \in DOMAIN buffers[s] : buffers'[s][i] = buffers[s][i]
                         /\ s = SetOf[x] => buffers'[s][Len(buffers[s]) + 1] = x
      /\ Elements(buffers') = Elements(buffers) \cup {x}
      /\ x \notin Elements(buffers)
  BY <1>1, <1>3, <1>5, <1>6, AppendFacts
<1>8. /\ puts' \in [Writers -> Nat] /\ puts'[w] = puts[w] + 1
      /\ \A v \in Writers : puts[v] \in Nat /\ puts[v] <= puts'[v] /\ (v # w => puts'[v] = puts[v])
      /\ \A y \in Handed' : y \in Handed \/ y = x
  BY <1>1, <1>3, HandedOneMore DEF x
<1>9. writer' \in [Writers -> WSteps] /\ \A v \in Writers : writer'[v] = IF v = w THEN a ELSE writer[v]
  BY <1>1, <1>2, <1>3 DEF Types, WSteps
<1>10. Types' BY <1>1, <1>7, <1>8, <1>9 DEF IInv, Types
<1>11. Waiting'
  <2> SUFFICES ASSUME NEW v \in Writers, writer'[v] \in Wanting
               PROVE  puts'[v] < Puts[v] /\ <<v, puts'[v] + 1>> \notin Unencodable
    BY DEF Waiting
  <2>1. v # w /\ writer[v] \in Wanting BY <1>2, <1>9 DEF Wanting
  <2>2. puts'[v] = puts[v] BY <2>1, <1>8
  <2> QED BY <2>1, <2>2 DEF IInv, Waiting
\* What is where in the grown buffers, and the newest sample after all of its writer's.
<1>12. ASSUME NEW s \in Sets, NEW i \in DOMAIN buffers'[s]
       PROVE  \/ i \in DOMAIN buffers[s] /\ buffers'[s][i] = buffers[s][i]
              \/ s = SetOf[x] /\ i = Len(buffers[s]) + 1 /\ buffers'[s][i] = x
  BY <1>7
<1>13. ASSUME NEW f \in BySet, Neat(f), NEW s \in Sets, NEW i \in DOMAIN f[s], f[s][i][1] = x[1]
       PROVE  f[s][i][2] < x[2]
  <2>1. Belongs(f[s][i], s) /\ f[s][i] \in Sample BY <1>13, ElementsFacts DEF Neat
  <2>2. f[s][i][2] \in Nat /\ f[s][i][2] <= puts[w] BY <2>1, <1>5, <1>13, SampleFacts DEF Belongs
  <2> QED BY <2>2, <1>3, <1>5
<1>14. InOrder'
  <2>1. Neat(buffers)'
    <3> SUFFICES ASSUME NEW s \in Sets
                 PROVE  /\ Inc(buffers'[s])
                        /\ \A i \in DOMAIN buffers'[s] :
                             SetOf[buffers'[s][i]] = s /\ buffers'[s][i][2] <= puts'[buffers'[s][i][1]]
      BY DEF Neat, Belongs, Inc
    <3>1. /\ Inc(buffers[s])
          /\ \A i \in DOMAIN buffers[s] : SetOf[buffers[s][i]] = s /\ buffers[s][i][2] <= puts'[buffers[s][i][1]]
      BY <1>3, <1>8, NeatLater DEF Types
    <3>2. ASSUME NEW i \in DOMAIN buffers'[s]
          PROVE  SetOf[buffers'[s][i]] = s /\ buffers'[s][i][2] <= puts'[buffers'[s][i][1]]
      <4>1. CASE i \in DOMAIN buffers[s] /\ buffers'[s][i] = buffers[s][i] BY <4>1, <3>1
      <4>2. CASE s = SetOf[x] /\ buffers'[s][i] = x
        <5>1. x[2] <= puts'[x[1]] BY <1>3, <1>5, <1>8
        <5> QED BY <5>1, <4>2
      <4> QED BY <4>1, <4>2, <1>12
    <3>3. ASSUME NEW i \in DOMAIN buffers'[s], NEW j \in DOMAIN buffers'[s], i < j,
                 buffers'[s][i][1] = buffers'[s][j][1]
          PROVE  buffers'[s][i][2] < buffers'[s][j][2]
      <4>a. Len(buffers[s]) \in Nat /\ DOMAIN buffers[s] = 1 .. Len(buffers[s])
            /\ i \in 1 .. Len(buffers[s]) + 1 /\ j \in 1 .. Len(buffers[s]) + 1
        BY <1>7
      <4>1. CASE j \in DOMAIN buffers[s] /\ buffers'[s][j] = buffers[s][j]
        <5>1. i \in DOMAIN buffers[s] BY <4>1, <4>a, <3>3
        <5>2. buffers'[s][i] = buffers[s][i] BY <5>1, <1>7
        <5> QED BY <5>1, <5>2, <4>1, <3>1, <3>3 DEF Inc
      <4>2. CASE s = SetOf[x] /\ j = Len(buffers[s]) + 1 /\ buffers'[s][j] = x
        <5>1. i \in DOMAIN buffers[s] BY <4>2, <4>a, <3>3
        <5>2. buffers'[s][i] = buffers[s][i] BY <5>1, <1>7
        <5> QED BY <5>1, <5>2, <4>2, <3>3, <1>3, <1>13 DEF Types
      <4> QED BY <4>1, <4>2, <1>12
    <3> QED BY <3>2, <3>3 DEF Inc
  <2>2. ASSUME Moving PROVE Neat(snd.batch)' /\ Ahead(snd.batch, buffers)'
    <3>1. Neat(snd.batch) /\ snd.batch \in BySet /\ Ahead(snd.batch, buffers)
      BY <2>2, SndFacts DEF IInv, InOrder
    <3>2. Neat(snd.batch)' BY <3>1, <1>1, <1>3, <1>8, NeatLater DEF Neat, Belongs
    <3>3. ASSUME NEW s \in Sets, NEW i \in DOMAIN snd.batch[s], NEW j \in DOMAIN buffers'[s],
                 snd.batch[s][i][1] = buffers'[s][j][1]
          PROVE  snd.batch[s][i][2] < buffers'[s][j][2]
      <4>1. CASE j \in DOMAIN buffers[s] /\ buffers'[s][j] = buffers[s][j] BY <4>1, <3>1, <3>3 DEF Ahead
      <4>2. CASE buffers'[s][j] = x BY <4>2, <3>1, <3>3, <1>13
      <4> QED BY <4>1, <4>2, <1>12
    <3> QED BY <3>2, <3>3, <1>1 DEF Ahead
  <2>3. Moving' = Moving BY <1>1 DEF Moving
  <2> QED BY <2>1, <2>2, <2>3 DEF InOrder
<1>15. CountersExact'
  <2>1. Count(buffers) = Cardinality(Elements(buffers)) /\ IsFiniteSet(Elements(buffers))
    BY <1>3, NeatTidy, CountIsCardinality DEF Types
  <2>2. Count(buffers)' = Cardinality(Elements(buffers'))
    <3>1. Neat(buffers)' BY <1>14 DEF InOrder
    <3>2. Tidy(buffers') BY <3>1 DEF Neat, Tidy, Belongs, Inc
    <3>3. Count(buffers') = Cardinality(Elements(buffers')) BY <3>2, <1>7, CountIsCardinality
    <3> QED BY <3>3 DEF Count
  <2>3. Cardinality(Elements(buffers')) = Cardinality(Elements(buffers)) + 1 BY <2>1, <1>7, FS_AddElement
  <2>4. pending = Count(buffers) BY DEF IInv, CountersExact
  <2>5. inflight' = InFlight' BY <1>1 DEF IInv, CountersExact, InFlight
  <2> QED BY <2>1, <2>2, <2>3, <2>4, <2>5, <1>1 DEF CountersExact
<1>16. NoneLost'
  <2>1. Handed' \subseteq Handed \cup {x} BY <1>8
  <2>2. Flying' = Flying /\ Settled' = Settled BY <1>1 DEF Flying, Settled
  <2>3. Handed \ Unencodable \subseteq Elements(buffers) \cup Flying \cup Settled \cup dropped
    BY DEF IInv, NoneLost
  <2> QED BY <2>1, <2>2, <2>3, <1>1, <1>7 DEF NoneLost
<1>17. AckOK' BY <1>1 DEF IInv, AckOK, AckCovers, Settled
<1>18. HoldOK' BY <1>1 DEF IInv, HoldOK
<1>19. CapOK'
  <2>1. Held' = Held \cup {x} BY <1>1, <1>7 DEF Held
  <2>2. Roomy' = Roomy \ {w} /\ w \in Roomy BY <1>1, <1>2, <1>9 DEF Roomy
  <2>3. IsFiniteSet(Held) /\ Cardinality(Held) \in Nat BY HeldFacts DEF IInv
  <2>4. IsFiniteSet(Roomy) /\ Cardinality(Roomy) \in Nat /\ Cardinality(Writers) \in Nat /\ MaxBuffered \in Nat
    BY RoomyFacts
  <2>5. Cardinality(Held') \in Nat /\ Cardinality(Held') <= Cardinality(Held) + 1
    <3>1. Cardinality(Held') = (IF x \in Held THEN Cardinality(Held) ELSE Cardinality(Held) + 1)
      BY <2>1, <2>3, FS_AddElement
    <3> QED BY <3>1, <2>3
  <2>6. Cardinality(Roomy') = Cardinality(Roomy) - 1 BY <2>2, <2>4, FS_RemoveElement
  <2>7. Cardinality(Held) + Cardinality(Roomy) <= MaxBuffered + Cardinality(Writers) - 1 BY DEF IInv, CapOK
  <2>8. Cardinality(Held') + Cardinality(Roomy') <= MaxBuffered + Cardinality(Writers) - 1
    BY <2>3, <2>4, <2>5, <2>6, <2>7
  <2> QED BY <2>8 DEF CapOK
<1> QED BY <1>10, <1>11, <1>14, <1>15, <1>16, <1>17, <1>18, <1>19 DEF IInv

-----------------------------------------------------------------------------
(* Flush.                                                                  *)

\* A step that sends nothing back and changes the request's place only.
LEMMA PassStep ==
  ASSUME IInv, snd' \in Snd, hold' \in BOOLEAN, metaQ' \subseteq Decls, writer' \in [Writers -> WSteps],
         UNCHANGED <<buffers, pending, inflight, puts, dropped, mark, acked>>, stored \subseteq stored',
         \A w \in Writers : /\ writer'[w] \in Wanting => writer[w] \in Wanting
                            /\ writer'[w] = "room" => writer[w] = "room",
         \/ snd' = snd
         \/ snd.at \in {"free", "round", "take", "meta"} /\ snd'.at \in {"free", "round", "take", "meta"},
         snd'.at \in {"take", "meta"} => ~hold'
  PROVE  IInv'
<1>1. inflight' = InFlight' BY DEF IInv, CountersExact, InFlight
<1>2. inflight' \in Nat BY DEF IInv, Types
<1>3. Moving' => /\ Moving /\ snd'.batch = snd.batch /\ snd'.partial = snd.partial
                 /\ snd'.at = "sent" => snd.at = "sent" /\ mark' = mark
  BY DEF Moving
<1>4. ~(Moving /\ ~Moving') BY DEF Moving
<1>5. acked' \ Unencodable \subseteq stored' \cup Bad \cup dropped'
  BY DEF IInv, AckOK, AckCovers, Settled
<1> QED BY <1>1, <1>2, <1>3, <1>4, <1>5, QuietStep

LEMMA SameWriters ==
  ASSUME IInv, UNCHANGED writer
  PROVE  /\ writer' \in [Writers -> WSteps]
         /\ \A w \in Writers : /\ writer'[w] \in Wanting => writer[w] \in Wanting
                               /\ writer'[w] = "room" => writer[w] = "room"
BY DEF IInv, Types

LEMMA WriterTypes ==
  ASSUME IInv
  PROVE  /\ Types /\ writer \in [Writers -> WSteps]
         /\ metaQ \subseteq Decls /\ hold \in BOOLEAN /\ snd \in Snd
BY DEF IInv, Types

LEMMA FlushStep ==
  ASSUME IInv, NEW c \in Callers, Flush(c)
  PROVE  IInv'
<1>1. /\ snd.at = "free"
      /\ snd' = [Free EXCEPT !.at = "round", !.by = c, !.round = 1, !.before = pending]
      /\ UNCHANGED <<buffers, pending, inflight, writer, puts, metaQ, hold, stored, dropped, mark, acked>>
  BY DEF Flush, wvars, world
<1>2. snd' \in Snd /\ snd'.at = "round"
  <2>1. Free \in Snd /\ pending \in Nat /\ "round" \in Steps BY FreeFacts DEF IInv, Types, Steps
  <2> QED BY <1>1, <2>1 DEF Snd
<1> QED BY <1>1, <1>2, SameWriters, WriterTypes, PassStep

LEMMA RoundHeldStep ==
  ASSUME IInv, RoundHeld
  PROVE  IInv'
<1>1. /\ snd.at = "round" /\ Return(Woken(writer), TRUE)
      /\ UNCHANGED <<buffers, pending, inflight, puts, metaQ, hold, stored, dropped, mark, acked>>
  BY DEF RoundHeld, world
<1>2. Woken(writer) \in [Writers -> WSteps]
      /\ \A w \in Writers : /\ Woken(writer)[w] \in Wanting => writer[w] \in Wanting
                            /\ Woken(writer)[w] = "room" => writer[w] = "room"
  BY WriterTypes, WokenFacts
<1>3. /\ snd' \in Snd /\ snd'.at = "free" /\ writer' \in [Writers -> WSteps]
      /\ \A w \in Writers : /\ writer'[w] \in Wanting => writer[w] \in Wanting
                            /\ writer'[w] = "room" => writer[w] = "room"
  BY <1>1, <1>2, WriterTypes, ReturnFacts
<1> QED BY <1>1, <1>3, WriterTypes, PassStep

LEMMA TakeMetaStep ==
  ASSUME IInv, TakeMeta
  PROVE  IInv'
<1>1. /\ snd.at = "round" /\ ~hold /\ snd' = [snd EXCEPT !.at = "take", !.meta = metaQ] /\ metaQ' = {}
      /\ UNCHANGED <<buffers, pending, inflight, writer, puts, hold, stored, dropped, mark, acked>>
  BY DEF TakeMeta, wvars, world
<1>2. snd' \in Snd /\ snd'.at = "take"
  <2>1. "take" \in Steps BY DEF Steps
  <2> QED BY <1>1, <2>1, WriterTypes DEF Snd
<1> QED BY <1>1, <1>2, SameWriters, WriterTypes, PassStep

\* Flush returns without having sent samples.
LEMMA ReturnStep ==
  ASSUME IInv, snd.at \in {"take", "meta"}, NEW ok, Return(writer, ok), metaQ' \subseteq Decls, hold' \in BOOLEAN,
         UNCHANGED <<buffers, pending, inflight, puts, stored, dropped, mark, acked>>
  PROVE  IInv'
<1>1. /\ snd' \in Snd /\ snd'.at = "free" /\ writer' \in [Writers -> WSteps]
      /\ \A w \in Writers : /\ writer'[w] \in Wanting => writer[w] \in Wanting
                            /\ writer'[w] = "room" => writer[w] = "room"
  BY WriterTypes, ReturnFacts
<1> QED BY <1>1, PassStep

LEMMA TakeNothingStep ==
  ASSUME IInv, TakeNothing
  PROVE  IInv'
<1>1. /\ snd.at = "take"
      /\ UNCHANGED <<buffers, pending, inflight, puts, metaQ, hold, stored, dropped, mark, acked>>
  BY DEF TakeNothing, world
<1>2. CASE Return(writer, TRUE) BY <1>1, <1>2, WriterTypes, ReturnStep
<1>3. CASE snd' = [snd EXCEPT !.at = "meta"] /\ UNCHANGED writer
  <2>1. "meta" \in Steps BY DEF Steps
  <2>2. snd' \in Snd /\ snd'.at = "meta" BY <2>1, <1>3, WriterTypes, AtMoves
  <2>3. ~hold BY <1>1 DEF IInv, HoldOK
  <2> QED BY <1>1, <1>3, <2>2, <2>3, SameWriters, WriterTypes, PassStep
<1> QED BY <1>2, <1>3 DEF TakeNothing

LEMMA MetaSteps ==
  ASSUME IInv, MetaSent \/ MetaRejected \/ \E why \in Failures \ {"fatal"} : MetaFailed(why)
  PROVE  IInv'
<1>1. CASE MetaSent BY <1>1, WriterTypes, ReturnStep DEF MetaSent
<1>2. CASE MetaRejected BY <1>2, WriterTypes, ReturnStep DEF MetaRejected
<1>3. CASE \E why \in Failures \ {"fatal"} : MetaFailed(why)
  <2> PICK why \in Failures \ {"fatal"} : MetaFailed(why) BY <1>3
  <2>1. /\ snd.at = "meta" /\ metaQ' = metaQ \cup snd.meta /\ hold' = (hold \/ why = "auth") /\ Return(writer, FALSE)
        /\ UNCHANGED <<buffers, pending, inflight, puts, stored, dropped, mark, acked>>
    BY DEF MetaFailed, world
  <2>2. metaQ' \subseteq Decls BY <2>1, WriterTypes, SndFacts
  <2>3. hold' \in BOOLEAN BY <2>1
  <2> QED BY <2>1, <2>2, <2>3, ReturnStep
<1> QED BY <1>1, <1>2, <1>3

\* Nobody's step: the hold runs out, Close begins, a declaration is queued, the store
\* commits, or nothing happens.
LEMMA OutsideStep ==
  ASSUME IInv, UNCHANGED <<buffers, pending, inflight, writer, puts, snd, dropped, mark, acked>>,
         stored \subseteq stored', metaQ' \subseteq Decls, hold' = FALSE \/ UNCHANGED hold
  PROVE  IInv'
<1>1. hold' \in BOOLEAN /\ (snd'.at \in {"take", "meta"} => ~hold')
  <2>1. CASE hold' = FALSE BY <2>1
  <2>2. CASE UNCHANGED hold
    <3>1. hold \in BOOLEAN BY WriterTypes
    <3>2. snd.at \in {"take", "meta"} => ~hold BY DEF IInv, HoldOK
    <3> QED BY <2>2, <3>1, <3>2
  <2> QED BY <2>1, <2>2
<1> QED BY <1>1, SameWriters, WriterTypes, PassStep

LEMMA OutsideSteps ==
  ASSUME IInv, \/ HoldExpires \/ Close \/ UNCHANGED vars
               \/ \E d \in Decls : Declare(d)
               \/ \E S \in SUBSET Elements(snd.batch) : StoreCommit(S)
  PROVE  IInv'
<1>1. CASE HoldExpires BY <1>1, WriterTypes, OutsideStep DEF HoldExpires, wvars, world
<1>2. CASE Close BY <1>2, WriterTypes, OutsideStep DEF Close, wvars, world
<1>3. CASE UNCHANGED vars BY <1>3, WriterTypes, OutsideStep DEF vars, wvars, world
<1>4. CASE \E d \in Decls : Declare(d) BY <1>4, WriterTypes, OutsideStep DEF Declare, wvars, world
<1>5. CASE \E S \in SUBSET Elements(snd.batch) : StoreCommit(S)
  BY <1>5, WriterTypes, OutsideStep DEF StoreCommit, wvars
<1> QED BY <1>1, <1>2, <1>3, <1>4, <1>5

-----------------------------------------------------------------------------
(* The request.                                                            *)

LEMMA AcceptedStep ==
  ASSUME IInv, Accepted
  PROVE  IInv'
<1>1. /\ snd.at = "sent" /\ Elements(snd.batch) \subseteq Settled /\ ReleaseInflight /\ hold' = FALSE
      /\ acked' = (IF snd.partial THEN acked ELSE mark)
      /\ UNCHANGED <<buffers, pending, puts, metaQ, stored, dropped, mark>>
  BY DEF Accepted
<1>2. inflight' = 0 BY <1>1, ReleaseFacts
<1>3. Woken(writer) \in [Writers -> WSteps]
      /\ \A w \in Writers : /\ Woken(writer)[w] \in Wanting => writer[w] \in Wanting
                            /\ Woken(writer)[w] = "room" => writer[w] = "room"
  BY WriterTypes, WokenFacts
<1>4. /\ snd' \in Snd /\ snd'.at \in {"free", "round"} /\ writer' \in [Writers -> WSteps]
      /\ \A w \in Writers : /\ writer'[w] \in Wanting => writer[w] \in Wanting
                            /\ writer'[w] = "room" => writer[w] = "room"
  <2>1. CASE Return(Woken(writer), TRUE) BY <2>1, <1>3, WriterTypes, ReturnFacts
  <2>2. CASE /\ snd' = [Free EXCEPT !.at = "round", !.by = snd.by, !.round = snd.round + 1, !.before = snd.before]
             /\ writer' = Woken(writer)
    <3>1. Free \in Snd /\ "round" \in Steps BY FreeFacts DEF Steps
    <3>2. snd.by \in Callers \cup {""} /\ snd.round + 1 \in Nat /\ snd.before \in Nat
      <4>1. snd.by \in Callers \cup {""} /\ snd.round \in Nat /\ snd.before \in Nat
        BY WriterTypes, SndFacts
      <4>2. \A n \in Nat : n + 1 \in Nat OBVIOUS
      <4> QED BY <4>1, <4>2, Zenon
    <3>3. snd' \in Snd /\ snd'.at = "round" BY <2>2, <3>1, <3>2 DEF Snd
    <3> QED BY <2>2, <3>3, <1>3
  <2> QED BY <2>1, <2>2 DEF Accepted
<1>5. ~Moving' /\ inflight' = InFlight' BY <1>2, <1>4 DEF Moving, InFlight
<1>6. acked' \ Unencodable \subseteq stored' \cup Bad \cup dropped'
  <2>1. acked \ Unencodable \subseteq Settled \cup dropped BY DEF IInv, AckOK, AckCovers
  <2>2. ~snd.partial => mark \ Unencodable \subseteq Elements(snd.batch) \cup Settled \cup dropped
    BY <1>1 DEF IInv, AckOK
  <2>3. acked' \ Unencodable \subseteq Settled \cup dropped BY <1>1, <2>1, <2>2
  <2> QED BY <2>3, <1>1 DEF Settled
<1>7. Elements(snd.batch) \subseteq stored' \cup Bad \cup dropped' BY <1>1 DEF Settled
<1>8. hold' \in BOOLEAN /\ inflight' \in Nat /\ metaQ' \subseteq Decls /\ snd'.at \notin {"take", "meta"}
  BY <1>1, <1>2, <1>4, WriterTypes
<1> QED BY <1>1, <1>4, <1>5, <1>6, <1>7, <1>8, QuietStep

LEMMA RequeuedStep ==
  ASSUME IInv, Requeued
  PROVE  IInv'
<1>1. /\ snd.at \in {"back", "backhold"} /\ ReleaseInflight /\ metaQ' = metaQ \cup snd.meta
      /\ hold' = (hold \/ snd.at = "backhold") /\ Return(Woken(writer), FALSE)
      /\ UNCHANGED <<buffers, pending, puts, stored, dropped, mark, acked>>
  BY DEF Requeued, world
<1>2. inflight' = 0 BY <1>1, ReleaseFacts
<1>3. Woken(writer) \in [Writers -> WSteps]
      /\ \A w \in Writers : /\ Woken(writer)[w] \in Wanting => writer[w] \in Wanting
                            /\ Woken(writer)[w] = "room" => writer[w] = "room"
  BY WriterTypes, WokenFacts
<1>4. /\ snd' \in Snd /\ snd'.at = "free" /\ writer' \in [Writers -> WSteps]
      /\ \A w \in Writers : /\ writer'[w] \in Wanting => writer[w] \in Wanting
                            /\ writer'[w] = "room" => writer[w] = "room"
  BY <1>1, <1>3, WriterTypes, ReturnFacts
<1>5. ~Moving /\ ~Moving' /\ inflight' = InFlight' BY <1>1, <1>2, <1>4 DEF Moving, InFlight
<1>6. metaQ' \subseteq Decls BY <1>1, WriterTypes, SndFacts
<1>7. hold' \in BOOLEAN BY <1>1
<1>8. acked' \ Unencodable \subseteq stored' \cup Bad \cup dropped' BY <1>1 DEF IInv, AckOK, AckCovers, Settled
<1> QED BY <1>1, <1>2, <1>4, <1>5, <1>6, <1>7, <1>8, QuietStep

LEMMA RejectedStep ==
  ASSUME IInv, Rejected
  PROVE  IInv'
<1>1. /\ snd.at = "sent" /\ ReleaseInflight /\ writer' = Woken(writer) /\ snd' = [snd EXCEPT !.at = "lost"]
      /\ UNCHANGED <<buffers, pending, puts, metaQ, hold, stored, dropped, mark, acked>>
  BY DEF Rejected, world
<1>2. inflight' = 0 BY <1>1, ReleaseFacts
<1>3. snd' \in Snd /\ snd'.at = "lost" /\ snd'.batch = snd.batch /\ snd'.partial = snd.partial
  <2>1. "lost" \in Steps BY DEF Steps
  <2> QED BY <2>1, <1>1, WriterTypes, AtMoves
<1>4. Moving /\ Moving' /\ inflight' = InFlight' BY <1>1, <1>2, <1>3 DEF Moving, InFlight
<1>5. acked' \ Unencodable \subseteq stored' \cup Bad \cup dropped' BY <1>1 DEF IInv, AckOK, AckCovers, Settled
<1> QED BY <1>1, <1>2, <1>3, <1>4, <1>5, WriterTypes, WokenFacts, QuietStep

LEMMA ReportLostStep ==
  ASSUME IInv, ReportLost
  PROVE  IInv'
<1>1. /\ snd.at = "lost" /\ dropped' = dropped \cup Elements(snd.batch)
      /\ \E ok : Return(writer, ok)
      /\ UNCHANGED <<buffers, pending, inflight, puts, metaQ, hold, stored, acked>>
  BY DEF ReportLost
<1>2. /\ snd' \in Snd /\ snd'.at = "free" /\ writer' \in [Writers -> WSteps]
      /\ \A w \in Writers : /\ writer'[w] \in Wanting => writer[w] \in Wanting
                            /\ writer'[w] = "room" => writer[w] = "room"
  BY <1>1, WriterTypes, ReturnFacts
<1>3. ~Moving' /\ inflight' = InFlight' /\ inflight' \in Nat
  BY <1>1, <1>2 DEF Moving, InFlight, IInv, CountersExact, Types
<1>4. acked' \ Unencodable \subseteq stored' \cup Bad \cup dropped' BY <1>1 DEF IInv, AckOK, AckCovers, Settled
<1>5. Elements(snd.batch) \subseteq dropped' BY <1>1
<1> QED BY <1>1, <1>2, <1>3, <1>4, <1>5, WriterTypes, QuietStep

\* The batch goes back.
LEMMA BackStep ==
  ASSUME IInv, snd.at = "sent", PutBack, NEW a \in {"back", "backhold"}, snd' = [snd EXCEPT !.at = a],
         UNCHANGED <<inflight, writer, puts, metaQ, hold, stored, dropped, mark, acked>>
  PROVE  IInv'
<1>1. snd' \in Snd /\ snd'.at = a /\ snd'.batch = snd.batch
  <2>1. a \in Steps BY DEF Steps
  <2> QED BY <2>1, WriterTypes, AtMoves
<1>2. Moving /\ ~Moving' BY <1>1 DEF Moving
<1>3. Neat(snd.batch) /\ snd.batch \in BySet /\ Neat(buffers) /\ buffers \in BySet /\ Ahead(snd.batch, buffers)
  BY <1>2, WriterTypes, SndFacts DEF IInv, InOrder, Types
<1>4. buffers' = Join(snd.batch, buffers) /\ pending' = pending + Count(snd.batch) BY DEF PutBack, Join
<1>5. /\ buffers' \in BySet /\ Neat(Join(snd.batch, buffers))
      /\ Elements(buffers') = Elements(snd.batch) \cup Elements(buffers)
      /\ Count(buffers') = Count(snd.batch) + Count(buffers) /\ Count(snd.batch) \in Nat /\ Count(buffers) \in Nat
  BY <1>3, <1>4, JoinFacts
<1>6. pending = Count(buffers) /\ inflight = Count(snd.batch) BY DEF IInv, CountersExact, InFlight
<1>7. Types' BY <1>1, <1>4, <1>5, <1>6 DEF IInv, Types
<1>8. Waiting' BY DEF IInv, Waiting
<1>9. InOrder' BY <1>2, <1>4, <1>5 DEF InOrder, Neat, Belongs
<1>10. CountersExact'
  <2>1. Count(buffers)' = Count(buffers') /\ Count(snd.batch)' = Count(snd.batch) BY <1>1 DEF Count
  <2>2. InFlight' = Count(snd.batch) BY <1>1, <2>1 DEF InFlight
  <2> QED BY <2>1, <2>2, <1>4, <1>5, <1>6 DEF CountersExact
<1>11. Elements(buffers)' = Elements(buffers') BY DEF Elements
<1>12. NoneLost'
  <2>1. Flying = Elements(snd.batch) BY DEF Flying
  <2>2. Handed' = Handed /\ Settled' = Settled BY DEF Handed, Settled
  <2> QED BY <2>1, <2>2, <1>5, <1>11 DEF IInv, NoneLost
<1>13. AckOK' BY <1>1 DEF IInv, AckOK, AckCovers, Settled
<1>14. HoldOK' BY <1>1 DEF HoldOK
<1>15. CapOK'
  <2>1. Held = Elements(buffers) \cup Elements(snd.batch) BY DEF Held
  <2>2. Held' = Elements(buffers') BY <1>1, <1>11 DEF Held
  <2>3. Held' \subseteq Held BY <2>1, <2>2, <1>5
  <2>4. Roomy' = Roomy BY DEF Roomy
  <2> QED BY <2>3, <2>4, CapFrame DEF IInv
<1> QED BY <1>7, <1>8, <1>9, <1>10, <1>12, <1>13, <1>14, <1>15 DEF IInv

LEMMA BackSteps ==
  ASSUME IInv, RefusedTooLarge \/ \E why \in Failures \ {"fatal"} : Failed(why)
  PROVE  IInv'
<1>1. CASE RefusedTooLarge BY <1>1, BackStep DEF RefusedTooLarge, wvars, world
<1>2. CASE \E why \in Failures \ {"fatal"} : Failed(why)
  <2> PICK why \in Failures \ {"fatal"} : Failed(why) BY <1>2
  <2> DEFINE a == IF why = "cancel" THEN "back" ELSE "backhold"
  <2>1. /\ snd.at = "sent" /\ PutBack /\ snd' = [snd EXCEPT !.at = a]
        /\ UNCHANGED <<inflight, writer, puts, metaQ, hold, stored, dropped, mark, acked>>
    BY DEF Failed, wvars, world
  <2>2. a \in {"back", "backhold"} OBVIOUS
  <2> HIDE DEF a
  <2> QED BY <2>1, <2>2, BackStep
<1> QED BY <1>1, <1>2

\* What takeLocked leaves, and what it says of it.
LEMMA TakeFacts ==
  ASSUME IInv, Take
  PROVE  \E n \in Runs :
           /\ snd.at = "take" /\ pending > 0
           /\ snd' \in Snd /\ snd'.at = "sent" /\ snd'.batch = Heads(n) /\ buffers' = Tails(n)
           /\ (snd'.partial <=> pending > Count(Heads(n)))
           /\ pending' = pending - Count(Heads(n)) /\ inflight' = inflight + Count(Heads(n))
           /\ whole' = (pending = Count(Heads(n)))
           /\ mark' = (IF pending = Count(Heads(n)) THEN Handed ELSE mark)
           /\ UNCHANGED <<writer, puts, metaQ, hold, stored, dropped, acked>>
<1>1. PICK n \in TakeLocked :
         /\ snd' = [snd EXCEPT !.at = "sent", !.batch = Heads(n), !.partial = (pending > Count(Heads(n)))]
         /\ buffers' = Tails(n)
         /\ pending' = pending - Count(Heads(n)) /\ inflight' = inflight + Count(Heads(n))
         /\ whole' = (pending = Count(Heads(n)))
         /\ mark' = (IF pending = Count(Heads(n)) THEN Handed ELSE mark)
  BY DEF Take
<1>2. n \in Runs BY DEF TakeLocked
<1>3. Heads(n) \in BySet BY <1>2, CutFacts, WriterTypes DEF IInv, InOrder
<1>4. "sent" \in Steps BY DEF Steps
<1> DEFINE more == pending > Count(Heads(n))
<1>5. more \in BOOLEAN OBVIOUS
<1>6. snd' = [snd EXCEPT !.at = "sent", !.batch = Heads(n), !.partial = more] BY <1>1
<1> HIDE DEF more
<1>7. /\ snd' \in Snd /\ snd'.at = "sent" /\ snd'.batch = Heads(n)
      /\ snd'.partial <=> more
  BY <1>3, <1>4, <1>5, <1>6, WriterTypes DEF Snd
<1>8. /\ snd.at = "take" /\ pending > 0 /\ UNCHANGED <<writer, puts, metaQ, hold, stored, dropped, acked>>
  BY DEF Take, wvars
<1> QED BY <1>1, <1>2, <1>7, <1>8 DEF more

LEMMA TakeStep ==
  ASSUME IInv, Take
  PROVE  IInv'
<1>1. PICK n \in Runs :
           /\ snd.at = "take" /\ pending > 0
           /\ snd' \in Snd /\ snd'.at = "sent" /\ snd'.batch = Heads(n) /\ buffers' = Tails(n)
           /\ (snd'.partial <=> pending > Count(Heads(n)))
           /\ pending' = pending - Count(Heads(n)) /\ inflight' = inflight + Count(Heads(n))
           /\ mark' = (IF pending = Count(Heads(n)) THEN Handed ELSE mark)
           /\ UNCHANGED <<writer, puts, metaQ, hold, stored, dropped, acked>>
  BY TakeFacts
<1> DEFINE H == Heads(n)
           T == Tails(n)
<1>2. /\ H \in BySet /\ T \in BySet /\ Neat(H) /\ Neat(T) /\ Ahead(H, T)
      /\ Elements(buffers) = Elements(H) \cup Elements(T)
  BY CutFacts, WriterTypes DEF IInv, InOrder
<1>3. buffers \in BySet /\ Neat(buffers) BY WriterTypes DEF IInv, InOrder, Types
<1>4. snd' \in Snd /\ snd'.at = "sent" /\ snd'.batch = H /\ buffers' = T BY <1>1
<1> HIDE DEF H, T
<1>5. Count(buffers) = Count(H) + Count(T) /\ Count(H) \in Nat /\ Count(T) \in Nat
  BY <1>2, <1>3, CountUnion
<1>6. pending = Count(buffers) /\ inflight = 0
  BY <1>1 DEF IInv, CountersExact, InFlight
<1>7. pending' = Count(T) /\ inflight' = Count(H) /\ (snd'.partial <=> pending > Count(H))
  BY <1>1, <1>5, <1>6 DEF H
<1>8. Types' BY <1>1, <1>2, <1>4, <1>5, <1>7 DEF IInv, Types
<1>9. Waiting' BY <1>1 DEF IInv, Waiting
<1>10. InOrder'
  <2>1. Neat(buffers)' BY <1>1, <1>2, <1>4 DEF Neat, Belongs
  <2>2. Neat(snd.batch)' BY <1>1, <1>2, <1>4 DEF Neat, Belongs
  <2>3. Ahead(snd.batch, buffers)' BY <1>2, <1>4 DEF Ahead
  <2> QED BY <2>1, <2>2, <2>3 DEF InOrder
<1>11. CountersExact'
  <2>1. Count(buffers)' = Count(T) /\ Count(snd.batch)' = Count(H) BY <1>4 DEF Count
  <2> QED BY <2>1, <1>4, <1>7 DEF CountersExact, InFlight
<1>12. Elements(buffers)' = Elements(T) /\ Elements(snd.batch)' = Elements(H) BY <1>4 DEF Elements
<1>13. Flying' = Elements(H) /\ Flying = {} BY <1>1, <1>4, <1>12 DEF Flying
<1>14. Handed' = Handed /\ Settled' = Settled BY <1>1 DEF Handed, Settled
<1>15. Handed \ Unencodable \subseteq Elements(T) \cup Elements(H) \cup Settled \cup dropped
  BY <1>2, <1>13 DEF IInv, NoneLost
<1>16. NoneLost' BY <1>1, <1>12, <1>13, <1>14, <1>15 DEF NoneLost
<1>17. AckOK'
  <2>1. AckCovers' BY <1>1, <1>14 DEF IInv, AckOK, AckCovers
  <2>2. ASSUME ~snd'.partial PROVE mark' \ Unencodable \subseteq Elements(H) \cup Settled \cup dropped
    <3>1. pending = Count(H) /\ Count(T) = 0 BY <2>2, <1>5, <1>6, <1>7
    <3>2. mark' = Handed BY <3>1, <1>1 DEF H
    <3>3. Count(T) = Cardinality(Elements(T)) /\ IsFiniteSet(Elements(T))
      BY <1>2, NeatTidy, CountIsCardinality
    <3>4. Elements(T) = {} BY <3>1, <3>3, FS_EmptySet
    <3> QED BY <3>2, <3>4, <1>15
  <2> QED BY <2>1, <2>2, <1>1, <1>12, <1>14 DEF AckOK
<1>18. HoldOK' BY <1>4 DEF HoldOK
<1>19. CapOK'
  <2>1. Held' = Elements(T) \cup Elements(H) BY <1>4, <1>12 DEF Held
  <2>2. Held = Elements(buffers) BY <1>1 DEF Held
  <2>3. Held' \subseteq Held BY <2>1, <2>2, <1>2
  <2>4. Roomy' = Roomy BY <1>1 DEF Roomy
  <2> QED BY <2>3, <2>4, CapFrame DEF IInv
<1> QED BY <1>8, <1>9, <1>10, <1>11, <1>16, <1>17, <1>18, <1>19 DEF IInv

-----------------------------------------------------------------------------
(* The invariant holds.                                                    *)

LEMMA InitHolds == Init => IInv
<1> SUFFICES ASSUME Init PROVE IInv
  OBVIOUS
<1>1. buffers = Empty /\ snd = Free /\ pending = 0 /\ inflight = 0 /\ metaQ = {} /\ hold = FALSE
  BY DEF Init, Empty
<1>2. writer = [w \in Writers |-> "idle"] /\ puts = [w \in Writers |-> 0] /\ acked = {} /\ mark = {}
  BY DEF Init
<1>3. snd \in Snd /\ snd.at = "free" BY <1>1, FreeFacts
<1>4. Types
  <2>1. writer \in [Writers -> WSteps] BY <1>2 DEF WSteps
  <2>2. puts \in [Writers -> Nat] BY <1>2
  <2> QED BY <1>1, <1>3, <2>1, <2>2, EmptyFacts DEF Types
<1>5. \A w \in Writers : writer[w] = "idle" /\ puts[w] = 0 BY <1>2
<1>6. Waiting BY <1>5 DEF Waiting, Wanting
<1>7. InOrder BY <1>1, <1>3, EmptyFacts DEF InOrder, Moving
<1>8. CountersExact
  <2>1. Count(Empty) = Cardinality({}) BY EmptyFacts, NeatTidy, CountIsCardinality
  <2>2. Count(Empty) = 0 BY <2>1, FS_EmptySet
  <2> QED BY <2>2, <1>1, <1>3 DEF CountersExact, InFlight
<1>9. NoneLost
  <2>1. Handed = {} BY <1>5, SampleFacts DEF Handed
  <2> QED BY <2>1 DEF NoneLost
<1>10. AckOK BY <1>2, <1>3 DEF AckOK, AckCovers
<1>11. HoldOK BY <1>3 DEF HoldOK
<1>12. CapOK
  <2>1. Held = {} BY <1>1, <1>3, EmptyFacts DEF Held
  <2>2. Roomy = {} BY <1>5 DEF Roomy
  <2>3. Cardinality(Held) = 0 /\ Cardinality(Roomy) = 0 BY <2>1, <2>2, FS_EmptySet
  <2> QED BY <2>3, RoomyFacts DEF CapOK
<1> QED BY <1>4, <1>6, <1>7, <1>8, <1>9, <1>10, <1>11, <1>12 DEF IInv

LEMMA NextPreserves == IInv /\ [Next]_vars => IInv'
<1> SUFFICES ASSUME IInv, [Next]_vars PROVE IInv'
  OBVIOUS
<1>1. CASE Writing
  BY <1>1, ScreenStep, WaitRoomStep, PutStep, WaitCancelledStep, OutsideSteps DEF Writing
<1>2. CASE Sending
  <2>1. CASE \E c \in Callers : Flush(c) BY <2>1, FlushStep
  <2>2. CASE RoundHeld \/ TakeMeta \/ Take \/ TakeNothing
    BY <2>2, RoundHeldStep, TakeMetaStep, TakeStep, TakeNothingStep
  <2>3. CASE (\E S \in SUBSET Elements(snd.batch) : StoreCommit(S)) \/ HoldExpires BY <2>3, OutsideSteps
  <2>4. CASE Accepted \/ Rejected \/ ReportLost \/ Requeued
    BY <2>4, AcceptedStep, RejectedStep, ReportLostStep, RequeuedStep
  <2>5. CASE RefusedTooLarge \/ \E why \in Failures \ {"fatal"} : Failed(why) BY <2>5, BackSteps
  <2>6. CASE MetaSent \/ MetaRejected \/ \E why \in Failures \ {"fatal"} : MetaFailed(why)
    BY <2>6, MetaSteps
  <2> QED BY <1>2, <2>1, <2>2, <2>3, <2>4, <2>5, <2>6 DEF Sending
<1>3. CASE Close \/ UNCHANGED vars BY <1>3, OutsideSteps
<1> QED BY <1>1, <1>2, <1>3 DEF Next

LEMMA Inductive == Spec => []IInv
<1>1. Init => IInv BY InitHolds
<1>2. IInv /\ [Next]_vars => IInv' BY NextPreserves
<1> QED BY <1>1, <1>2, PTL DEF Spec

-----------------------------------------------------------------------------
(* What the invariant says of the runs' properties.                        *)

\* Sink.pending and Sink.inflight, which waitRoom, the batch trigger and Close
\* decide on, always agree with the buffers and with the request, whichever
\* way a flush round ends.
THEOREM CountersAgree == Spec => []CountersExact
<1>1. IInv => CountersExact BY DEF IInv
<1> QED BY <1>1, Inductive, PTL

\* What Add and AddSample were handed is in a buffer or in the request in
\* progress, once, until the store has it, has refused it by name, or the sink
\* has reported it lost: takeLocked, requeueBatches and every outcome of a
\* flush round keep it.
THEOREM NothingIsLostOrDoubled == Spec => []NoneLostNoneTwice
<1>1. IInv => NoneLostNoneTwice
  <2> SUFFICES ASSUME IInv PROVE NoneLostNoneTwice
    OBVIOUS
  <2>1. Types /\ InOrder /\ CountersExact /\ NoneLost /\ buffers \in BySet BY DEF IInv, Types
  <2>2. ASSUME NEW s \in Sets PROVE IsInjective(buffers[s])
    <3>1. Inc(buffers[s]) BY <2>1 DEF InOrder, Neat
    <3>2. DOMAIN buffers[s] = 1 .. Len(buffers[s]) /\ Len(buffers[s]) \in Nat BY <2>1, ElementsFacts
    <3>3. \A i \in DOMAIN buffers[s] : buffers[s][i] \in Sample /\ buffers[s][i][2] \in Nat /\ i \in Nat
      BY <2>1, <3>2, ElementsFacts, SampleFacts
    <3>4. ASSUME NEW i \in DOMAIN buffers[s], NEW j \in DOMAIN buffers[s], buffers[s][i] = buffers[s][j]
          PROVE  i = j
      <4>1. ~(i < j) /\ ~(j < i) BY <3>1, <3>3, <3>4 DEF Inc
      <4> QED BY <4>1, <3>3
    <3> QED BY <3>4 DEF IsInjective
  <2>3. Elements(buffers) \cap Flying = {} BY <2>1, HeldFacts DEF Flying, Moving
  <2> QED BY <2>1, <2>2, <2>3 DEF NoneLostNoneTwice, NoneLost
<1> QED BY <1>1, Inductive, PTL

\* For each writer and set, samples stand in the order they were added, those
\* of the request before those that wait: requeueBatches puts a failed request
\* back at the head.
THEOREM OrderIsKept == Spec => []OrderKept
<1>1. IInv => OrderKept
  <2> SUFFICES ASSUME IInv, NEW s \in Sets
               PROVE  LET q == (IF snd.at = "sent" THEN snd.batch[s] ELSE <<>>) \o buffers[s]
                      IN  \A i, j \in 1 .. Len(q) : i < j /\ q[i][1] = q[j][1] => q[i][2] < q[j][2]
    BY DEF OrderKept
  <2>1. Types /\ InOrder /\ buffers \in BySet /\ snd.batch \in BySet /\ Neat(buffers)
    BY SndFacts DEF IInv, Types, InOrder
  <2>2. buffers[s] \in Seq(Sample) /\ Inc(buffers[s]) /\ DOMAIN buffers[s] = 1 .. Len(buffers[s])
    BY <2>1, ElementsFacts DEF Neat
  <2>3. CASE snd.at = "sent"
    <3>1. Neat(snd.batch) /\ Ahead(snd.batch, buffers) BY <2>1, <2>3 DEF InOrder, Moving
    <3> DEFINE J == Join(snd.batch, buffers)
    <3>2. J \in BySet /\ Neat(J) BY <2>1, <3>1, JoinFacts
    <3>3. J[s] = snd.batch[s] \o buffers[s] BY DEF Join
    <3> HIDE DEF J
    <3>4. Inc(J[s]) /\ DOMAIN J[s] = 1 .. Len(J[s]) BY <3>2, ElementsFacts DEF Neat
    <3> QED BY <2>3, <3>3, <3>4 DEF Inc
  <2>4. CASE snd.at # "sent"
    <3>1. <<>> \o buffers[s] = buffers[s] BY <2>2
    <3> QED BY <2>2, <2>4, <3>1 DEF Inc
  <2> QED BY <2>3, <2>4
<1> QED BY <1>1, Inductive, PTL

\* What EndFlush acknowledges to the delivery observers is in the store, was
\* refused by it, or was reported lost; so a feeder may advance its checkpoint.
THEOREM AcknowledgementsCover == Spec => []AckCovers
<1>1. IInv => AckCovers BY DEF IInv, AckOK
<1> QED BY <1>1, Inductive, PTL

\* MaxBuffered is exceeded by less than the number of writers: waitRoom's check
\* and the append are two critical sections, and no outcome of a flush round
\* adds to that.
THEOREM CapIsSoft == Spec => []SoftCap
<1>1. IInv => SoftCap
  <2> SUFFICES ASSUME IInv PROVE SoftCap
    OBVIOUS
  <2>1. Cardinality(Held) \in Nat BY HeldFacts DEF IInv
  <2>2. Cardinality(Held) + Cardinality(Roomy) <= MaxBuffered + Cardinality(Writers) - 1 BY DEF IInv, CapOK
  <2>3. Cardinality(Roomy) \in Nat /\ Cardinality(Writers) \in Nat /\ MaxBuffered \in Nat BY RoomyFacts
  <2> QED BY <2>1, <2>2, <2>3 DEF SoftCap
<1> QED BY <1>1, Inductive, PTL

-----------------------------------------------------------------------------
(* The sink implements the delivery contract.                              *)

\* A request carries samples.
Carrying == Moving => Elements(snd.batch) # {}

LEMMA CarryingHolds == Spec => []Carrying
<1>1. Init => Carrying BY FreeFacts DEF Init, Carrying, Moving
<1>2. IInv /\ Carrying /\ [Next]_vars => Carrying'
  <2> SUFFICES ASSUME IInv, Carrying, [Next]_vars, Moving' PROVE Elements(snd.batch)' # {}
    BY DEF Carrying
  <2>1. CASE Take
    <3>1. PICK n \in Runs : snd'.batch = Heads(n) BY <2>1, TakeFacts
    <3>2. Elements(Heads(n)) # {} BY CutFacts, WriterTypes DEF IInv, InOrder
    <3> QED BY <3>1, <3>2 DEF Elements
  <2>2. CASE UNCHANGED snd BY <2>2 DEF Carrying, Moving, Elements
  <2>3. CASE Rejected
    <3>1. snd' = [snd EXCEPT !.at = "lost"] /\ snd.at = "sent" BY <2>3 DEF Rejected
    <3>2. snd'.batch = snd.batch BY <3>1, WriterTypes DEF Snd
    <3> QED BY <3>1, <3>2 DEF Carrying, Moving, Elements
  <2>4. ASSUME snd'.at \notin {"sent", "lost"} PROVE FALSE BY <2>4 DEF Moving
  <2>5. Free \in Snd /\ Free.at = "free" /\ snd \in Snd BY FreeFacts, WriterTypes
  <2>6. CASE Writing
    BY <2>2, <2>6 DEF Writing, Screen, WaitRoom, Put, WaitCancelled, Declare
  <2>7. CASE Sending
    <3>1. CASE \E c \in Callers : Flush(c)
      <4>1. snd'.at = "round" BY <3>1, <2>5 DEF Flush, Snd
      <4> QED BY <4>1, <2>4
    <3>2. CASE TakeMeta \/ RefusedTooLarge \/ \E why \in Failures \ {"fatal"} : Failed(why)
      <4>1. snd'.at \in {"take", "back", "backhold"} BY <3>2, <2>5 DEF TakeMeta, RefusedTooLarge, Failed, Snd
      <4> QED BY <4>1, <2>4
    <3>3. CASE TakeNothing
      <4>1. snd'.at \in {"meta", "free"} BY <3>3, <2>5 DEF TakeNothing, Return, Snd
      <4> QED BY <4>1, <2>4
    <3>4. CASE \/ RoundHeld \/ ReportLost \/ Requeued \/ MetaSent \/ MetaRejected
               \/ \E why \in Failures \ {"fatal"} : MetaFailed(why)
      <4>1. snd' = Free BY <3>4 DEF RoundHeld, ReportLost, Requeued, MetaSent, MetaRejected, MetaFailed, Return
      <4> QED BY <4>1, <2>4, <2>5
    <3>5. CASE Accepted
      <4>1. snd'.at \in {"round", "free"} BY <3>5, <2>5 DEF Accepted, Return, Snd
      <4> QED BY <4>1, <2>4
    <3>6. CASE HoldExpires \/ \E S \in SUBSET Elements(snd.batch) : StoreCommit(S)
      BY <3>6, <2>2 DEF HoldExpires, StoreCommit
    <3> QED BY <2>1, <2>3, <2>7, <3>1, <3>2, <3>3, <3>4, <3>5, <3>6 DEF Sending
  <2>8. CASE Close \/ UNCHANGED vars BY <2>2, <2>8 DEF Close, vars
  <2> QED BY <2>6, <2>7, <2>8 DEF Next
<1> QED BY <1>1, <1>2, Inductive, PTL DEF Spec

Holding == hold \/ snd.at = "backhold"
Keeps == D!DNext \/ UNCHANGED D!dvars

LEMMA Stutters ==
  ASSUME Elements(buffers)' = Elements(buffers), Flying' = Flying, Holding' = Holding,
         UNCHANGED <<whole, stored, dropped>>
  PROVE  Keeps
BY DEF Keeps, D!dvars, Holding

\* A step outside requests moves no sample.
LEMMA SameBuffers ==
  ASSUME buffers' = buffers, ~Moving, ~Moving'
  PROVE  Elements(buffers)' = Elements(buffers) /\ Flying' = {} /\ Flying = {}
BY DEF Elements, Flying, Moving

LEMMA WritingKeeps ==
  ASSUME IInv, Writing
  PROVE  Keeps
<1>1. CASE \E w \in Writers : Put(w)
  <2>1. PICK w \in Writers : Put(w) BY <1>1
  <2> DEFINE x == <<w, puts[w] + 1>>
  <2>2. writer[w] = "room" /\ buffers' = Grown(x) /\ UNCHANGED <<snd, whole, hold, stored, dropped>>
    BY <2>1 DEF Put, Grown, world
  <2>3. puts[w] \in Nat /\ puts[w] < Puts[w] /\ Puts[w] \in Nat
    BY <2>2, SinkAssumption DEF IInv, Types, Waiting, Wanting
  <2>4. x \in Sample /\ x[2] > puts[x[1]] BY <2>3, SampleFacts
  <2> HIDE DEF x
  <2>5. Elements(buffers') = Elements(buffers) \cup {x}
    BY <2>2, <2>4, AppendFacts DEF IInv, InOrder
  <2>6. Elements(buffers)' = Elements(buffers) \cup {x} BY <2>5 DEF Elements
  <2>7. Flying' = Flying /\ (hold \/ snd.at = "backhold")' = (hold \/ snd.at = "backhold")
    BY <2>2 DEF Flying, Elements
  <2>8. {x} \in SUBSET Sample BY <2>4
  <2>9. D!Add({x}) BY <2>2, <2>6, <2>7 DEF D!Add
  <2> QED BY <2>8, <2>9 DEF Keeps, D!DNext
<1>2. ASSUME UNCHANGED <<buffers, snd, hold, whole, stored, dropped>> PROVE Keeps
  <2>1. Elements(buffers)' = Elements(buffers) /\ Flying' = Flying /\ Holding' = Holding
    BY <1>2 DEF Elements, Flying, Holding
  <2> QED BY <2>1, <1>2, Stutters
<1> QED BY <1>1, <1>2 DEF Writing, Screen, WaitRoom, WaitCancelled, Declare, world

LEMMA TakeKeeps ==
  ASSUME IInv, Take
  PROVE  Keeps
<1>1. PICK n \in Runs :
           /\ snd.at = "take" /\ pending > 0
           /\ snd' \in Snd /\ snd'.at = "sent" /\ snd'.batch = Heads(n) /\ buffers' = Tails(n)
           /\ whole' = (pending = Count(Heads(n)))
           /\ UNCHANGED <<writer, puts, metaQ, hold, stored, dropped, acked>>
  BY TakeFacts
<1> DEFINE H == Heads(n)
           T == Tails(n)
<1>2. /\ H \in BySet /\ T \in BySet /\ Neat(H) /\ Neat(T) /\ Ahead(H, T)
      /\ Elements(buffers) = Elements(H) \cup Elements(T) /\ Elements(H) # {}
  BY CutFacts, WriterTypes DEF IInv, InOrder
<1>3. buffers \in BySet /\ Neat(buffers) /\ pending = Count(buffers)
  BY WriterTypes DEF IInv, InOrder, Types, CountersExact
<1>4. snd'.at = "sent" /\ snd'.batch = H /\ buffers' = T /\ whole' = (pending = Count(H)) BY <1>1
<1> HIDE DEF H, T
<1>5. Count(buffers) = Count(H) + Count(T) /\ Count(H) \in Nat /\ Count(T) \in Nat
  BY <1>2, <1>3, CountUnion
<1>6. Elements(H) \cap Elements(T) = {} BY <1>2, AheadDisjoint
<1>7. Count(T) = Cardinality(Elements(T)) /\ IsFiniteSet(Elements(T))
  BY <1>2, NeatTidy, CountIsCardinality
<1>8. pending = Count(H) <=> Elements(T) = {} BY <1>3, <1>5, <1>7, FS_EmptySet
<1>9. pending = Count(H) <=> Elements(H) = Elements(buffers) BY <1>2, <1>6, <1>8
<1>10. whole' = (Elements(H) = Elements(buffers)) BY <1>4, <1>9
<1>11. Elements(buffers)' = Elements(T) /\ Flying' = Elements(H) /\ Flying = {}
  BY <1>1, <1>4 DEF Elements, Flying
<1>12. Elements(T) = Elements(buffers) \ Elements(H) BY <1>2, <1>6
<1>13. ~(hold \/ snd.at = "backhold") /\ ~(hold \/ snd.at = "backhold")'
  BY <1>1, <1>4 DEF IInv, HoldOK
<1>14. D!Take(Elements(H))
  BY <1>1, <1>2, <1>10, <1>11, <1>12, <1>13 DEF D!Take
<1>15. Elements(H) \in SUBSET Elements(buffers) BY <1>2
<1> QED BY <1>14, <1>15 DEF Keeps, D!DNext

\* Steps between requests: nothing moves, and at most a hold begins.
LEMMA BetweenKeeps ==
  ASSUME IInv, \/ \E c \in Callers : Flush(c)
               \/ RoundHeld \/ TakeMeta \/ TakeNothing \/ MetaSent \/ MetaRejected
               \/ \E why \in Failures \ {"fatal"} : MetaFailed(why)
  PROVE  Keeps
<1>1. Free \in Snd /\ Free.at = "free" /\ snd \in Snd /\ hold \in BOOLEAN BY FreeFacts, WriterTypes
<1>2. /\ snd.at \in {"free", "round", "take", "meta"}
      /\ UNCHANGED <<buffers, whole, stored, dropped>>
  BY DEF Flush, RoundHeld, TakeMeta, TakeNothing, MetaSent, MetaRejected, MetaFailed, world
<1>3. snd'.at \in {"free", "round", "take", "meta"}
  <2>1. CASE \E c \in Callers : Flush(c) BY <2>1, <1>1 DEF Flush, Snd
  <2>2. CASE TakeMeta BY <2>2, <1>1 DEF TakeMeta, Snd
  <2>3. CASE TakeNothing BY <2>3, <1>1 DEF TakeNothing, Return, Snd
  <2>4. CASE \/ RoundHeld \/ MetaSent \/ MetaRejected
             \/ \E why \in Failures \ {"fatal"} : MetaFailed(why)
    BY <2>4, <1>1 DEF RoundHeld, MetaSent, MetaRejected, MetaFailed, Return
  <2> QED BY <2>1, <2>2, <2>3, <2>4
<1>4. Elements(buffers)' = Elements(buffers) /\ Flying' = {} /\ Flying = {}
  BY <1>2, <1>3, SameBuffers DEF Moving
<1>5. CASE UNCHANGED hold
  <2>1. Holding' = Holding BY <1>2, <1>3, <1>5 DEF Holding
  <2> QED BY <2>1, <1>2, <1>4, Stutters
<1>6. CASE \E why \in Failures \ {"fatal"} : MetaFailed(why) /\ ~UNCHANGED hold
  <2>1. snd.at = "meta" /\ ~hold BY <1>6 DEF MetaFailed, IInv, HoldOK
  <2>2. hold' = TRUE BY <1>6, <2>1, <1>1 DEF MetaFailed
  <2>3. ~(hold \/ snd.at = "backhold") /\ (hold \/ snd.at = "backhold")' = TRUE BY <2>1, <2>2
  <2>4. D!StartHold BY <1>2, <1>4, <2>3 DEF D!StartHold
  <2> QED BY <2>4 DEF Keeps, D!DNext
<1> QED BY <1>5, <1>6 DEF Flush, RoundHeld, TakeMeta, TakeNothing, MetaSent, MetaRejected

\* The hold runs out, or Close clears it.
LEMMA HoldKeeps ==
  ASSUME IInv, HoldExpires \/ Close
  PROVE  Keeps
<1>1. UNCHANGED <<buffers, snd, whole, stored, dropped>> /\ hold' = FALSE /\ hold \in BOOLEAN
  BY WriterTypes DEF HoldExpires, Close, world
<1>2. Elements(buffers)' = Elements(buffers) /\ Flying' = Flying BY <1>1 DEF Elements, Flying
<1>3. CASE hold /\ snd.at # "backhold"
  <2>1. (hold \/ snd.at = "backhold") /\ (hold \/ snd.at = "backhold")' = FALSE BY <1>1, <1>3
  <2>2. D!Release BY <1>1, <1>2, <2>1 DEF D!Release
  <2> QED BY <2>2 DEF Keeps, D!DNext
<1>4. CASE ~hold \/ snd.at = "backhold"
  <2>1. Holding' = Holding BY <1>1, <1>4 DEF Holding
  <2> QED BY <2>1, <1>1, <1>2, Stutters
<1> QED BY <1>3, <1>4

\* How a request ends.
LEMMA EndsKeep ==
  ASSUME IInv, Carrying,
         \/ \E S \in SUBSET Elements(snd.batch) : StoreCommit(S)
         \/ Accepted \/ RefusedTooLarge \/ Rejected \/ ReportLost \/ Requeued
         \/ \E why \in Failures \ {"fatal"} : Failed(why)
  PROVE  Keeps
<1>1. Free \in Snd /\ Free.at = "free" /\ snd \in Snd /\ hold \in BOOLEAN BY FreeFacts, WriterTypes
<1>2. CASE \E S \in SUBSET Elements(snd.batch) : StoreCommit(S)
  <2>1. PICK S \in SUBSET Elements(snd.batch) : StoreCommit(S) BY <1>2
  <2>2. /\ snd.at = "sent" /\ S \subseteq Elements(snd.batch) \ Bad /\ stored' = stored \cup S
        /\ UNCHANGED <<buffers, snd, hold, whole, dropped>>
    BY <2>1 DEF StoreCommit
  <2>3. Flying = Elements(snd.batch) /\ Flying # {} BY <2>2 DEF Flying, Carrying, Moving
  <2>4. Elements(buffers)' = Elements(buffers) /\ Flying' = Flying BY <2>2 DEF Elements, Flying
  <2>5. (hold \/ snd.at = "backhold")' = (hold \/ snd.at = "backhold") BY <2>2
  <2>6. D!Commit(S) BY <2>2, <2>3, <2>4, <2>5 DEF D!Commit
  <2> QED BY <2>3, <2>6 DEF Keeps, D!DNext
<1>3. CASE Accepted
  <2>1. /\ snd.at = "sent" /\ Elements(snd.batch) \subseteq Settled /\ hold' = FALSE
        /\ UNCHANGED <<buffers, whole, stored, dropped>>
    BY <1>3 DEF Accepted
  <2>2. snd'.at \in {"round", "free"} BY <1>3, <1>1 DEF Accepted, Return, Snd
  <2>3. Flying = Elements(snd.batch) /\ Flying # {} /\ Flying' = {}
    BY <2>1, <2>2 DEF Flying, Carrying, Moving
  <2>4. Elements(buffers)' = Elements(buffers) BY <2>1 DEF Elements
  <2>5. (hold \/ snd.at = "backhold")' = FALSE BY <2>1, <2>2
  <2>6. Flying \subseteq D!Settled BY <2>1, <2>3 DEF D!Settled, Settled
  <2>7. D!Accept BY <2>1, <2>3, <2>4, <2>5, <2>6 DEF D!Accept
  <2> QED BY <2>7 DEF Keeps, D!DNext
<1>4. ASSUME NEW a \in {"back", "backhold"}, snd.at = "sent", PutBack, snd' = [snd EXCEPT !.at = a],
             UNCHANGED <<hold, whole, stored, dropped>>
      PROVE  Keeps
  <2>1. snd'.at = a BY <1>1, <1>4 DEF Snd
  <2>2. Flying = Elements(snd.batch) /\ Flying # {} /\ Flying' = {}
    BY <2>1, <1>4 DEF Flying, Carrying, Moving
  <2>3. buffers' = Join(snd.batch, buffers) BY <1>4 DEF PutBack, Join
  <2>4. Elements(Join(snd.batch, buffers)) = Elements(snd.batch) \cup Elements(buffers)
    BY <1>1, <1>4, JoinFacts, SndFacts DEF IInv, Types, InOrder, Moving
  <2>5. Elements(buffers)' = Elements(buffers) \cup Flying BY <2>2, <2>3, <2>4 DEF Elements
  <2> DEFINE h == (a = "backhold")
  <2>6. h \in BOOLEAN OBVIOUS
  <2>7. (hold \/ snd.at = "backhold")' = ((hold \/ snd.at = "backhold") \/ h) BY <2>1, <1>4
  <2> HIDE DEF h
  <2>8. D!Requeue(h) BY <1>4, <2>2, <2>5, <2>7 DEF D!Requeue
  <2> QED BY <2>6, <2>8 DEF Keeps, D!DNext
<1>5. CASE RefusedTooLarge \/ \E why \in Failures \ {"fatal"} : Failed(why)
  BY <1>4, <1>5 DEF RefusedTooLarge, Failed, world
<1>6. CASE Rejected
  <2>1. /\ snd.at = "sent" /\ snd' = [snd EXCEPT !.at = "lost"]
        /\ UNCHANGED <<buffers, hold, whole, stored, dropped>>
    BY <1>6 DEF Rejected, world
  <2>2. snd'.at = "lost" /\ snd'.batch = snd.batch BY <2>1, <1>1 DEF Snd
  <2>3. Elements(buffers)' = Elements(buffers) /\ Flying' = Flying BY <2>1, <2>2 DEF Elements, Flying
  <2>4. Holding' = Holding BY <2>1, <2>2 DEF Holding
  <2> QED BY <2>1, <2>3, <2>4, Stutters
<1>7. CASE ReportLost
  <2>1. /\ snd.at = "lost" /\ dropped' = dropped \cup Elements(snd.batch) /\ snd' = Free
        /\ UNCHANGED <<buffers, hold, whole, stored>>
    BY <1>7 DEF ReportLost, Return
  <2>2. Flying = Elements(snd.batch) /\ Flying # {} /\ Flying' = {}
    BY <2>1, <1>1 DEF Flying, Carrying, Moving
  <2>3. Elements(buffers)' = Elements(buffers) BY <2>1 DEF Elements
  <2>4. (hold \/ snd.at = "backhold")' = (hold \/ snd.at = "backhold") BY <2>1, <1>1
  <2>5. D!Drop BY <2>1, <2>2, <2>3, <2>4 DEF D!Drop
  <2> QED BY <2>5 DEF Keeps, D!DNext
<1>8. CASE Requeued
  <2>1. /\ snd.at \in {"back", "backhold"} /\ snd' = Free /\ hold' = (hold \/ snd.at = "backhold")
        /\ UNCHANGED <<buffers, whole, stored, dropped>>
    BY <1>8 DEF Requeued, Return, world
  <2>2. Elements(buffers)' = Elements(buffers) /\ Flying' = {} /\ Flying = {}
    BY <2>1, <1>1, SameBuffers DEF Moving
  <2>3. Holding' = Holding BY <2>1, <1>1 DEF Holding
  <2> QED BY <2>1, <2>2, <2>3, Stutters
<1> QED BY <1>2, <1>3, <1>5, <1>6, <1>7, <1>8

\* The sink implements the delivery contract its feeders are written against:
\* whatever writers, flushes, refusals, retries and failures overlap, samples
\* leave the buffer in one request at a time and never while delivery is held,
\* and each request ends stored, requeued or reported, whole.
THEOREM SinkImplementsDelivery == Spec => Implements
<1>1. Init => D!DInit
  <2> SUFFICES ASSUME Init PROVE D!DInit
    OBVIOUS
  <2>1. buffers = Empty /\ snd = Free BY DEF Init, Empty
  <2>2. Elements(buffers) = {} /\ snd.at = "free" /\ Flying = {} BY <2>1, EmptyFacts, FreeFacts DEF Flying
  <2>3. whole = FALSE /\ hold = FALSE /\ stored = {} /\ dropped = {} BY DEF Init
  <2>4. (hold \/ snd.at = "backhold") = FALSE BY <2>2, <2>3
  <2> QED BY <2>2, <2>3, <2>4 DEF D!DInit
<1>2. IInv /\ Carrying /\ [Next]_vars => [D!DNext]_(D!dvars)
  <2> SUFFICES ASSUME IInv, Carrying, [Next]_vars PROVE Keeps
    BY DEF Keeps
  <2>1. CASE Writing BY <2>1, WritingKeeps
  <2>2. CASE Sending BY <2>2, TakeKeeps, BetweenKeeps, HoldKeeps, EndsKeep DEF Sending
  <2>3. CASE Close BY <2>3, HoldKeeps
  <2>4. CASE UNCHANGED vars
    <3>1. UNCHANGED <<buffers, snd, hold, whole, stored, dropped>> BY <2>4 DEF vars, world
    <3>2. Elements(buffers)' = Elements(buffers) /\ Flying' = Flying /\ Holding' = Holding
      BY <3>1 DEF Elements, Flying, Holding
    <3> QED BY <3>1, <3>2, Stutters
  <2> QED BY <2>1, <2>2, <2>3, <2>4 DEF Next
<1> QED BY <1>1, <1>2, Inductive, CarryingHolds, PTL DEF Spec, Implements, D!DSpec
=============================================================================
