-------------------------- MODULE DictionaryProofs --------------------------
(***************************************************************************)
(* Proofs about Dictionary, for any writers, labels, values and shards,    *)
(* any arrays left by earlier builds and any number of failures and        *)
(* crashes.                                                                *)
(***************************************************************************)
EXTENDS Dictionary, NaturalsInduction, WellFoundedInduction, TLAPS

-----------------------------------------------------------------------------
(* The inductive invariant.                                                *)

Entry == Values \cup {Hole}

\* Where a lookup of v in dictionary d looks.
Posns(d, v) == IF d.index[v] = 0 THEN {} ELSE {d.index[v]} \cup d.alias[v]

DictType(d) ==
  /\ d = [on |-> d.on, entries |-> d.entries, index |-> d.index, alias |-> d.alias,
          holes |-> d.holes, live |-> d.live]
  /\ d.entries \in Seq(Entry) /\ d.index \in [Values -> Nat]
  /\ d.alias \in [Values -> SUBSET Nat] /\ d.holes \subseteq Nat

\* The index and the aliases name every position of a value and no position of
\* another; what the free list has, neither names.
IndexOK(d) ==
  /\ d.entries # <<>> => d.on
  /\ \A v \in Values : d.index[v] = 0 => d.alias[v] = {}
  /\ \A v \in Values : \A i \in DOMAIN d.entries : d.entries[i] = v => i \in Posns(d, v)
  /\ \A v \in Values : \A i \in Posns(d, v) : i \in DOMAIN d.entries /\ d.entries[i] \in {v, Hole}
  /\ \A j \in d.holes : /\ j \in DOMAIN d.entries /\ d.entries[j] = Hole
                        /\ \A v \in Values : j \notin Posns(d, v)

DictOK(d) == DictType(d) /\ IndexOK(d)

RowType(r) == r.label \in Labels /\ r.val \in Values /\ r.shard \in Shards /\ r.pos \in Nat

DiskOK(d) ==
  /\ d = [recs |-> d.recs, packed |-> d.packed, rows |-> d.rows]
  /\ d.recs \in [Labels -> [1 .. MaxPos -> Entry]] /\ d.packed \in [Labels -> Seq(Entry)]
  /\ \A r \in d.rows : RowType(r)

Scanning == [at : {"scan"}, keys : SUBSET Labels, used : SUBSET (Labels \X Nat), todo : SUBSET Shards]

Types ==
  /\ DOMAIN dict = Labels /\ \A l \in Labels : DictOK(dict[l])
  /\ DiskOK(disk) /\ DiskOK(safe)
  /\ DOMAIN req = Writers /\ \A w \in Writers : req[w].on => RowType(req[w])
  /\ sweep.at = "scan" => sweep \in Scanning

\* What position i of label l says in memory, and what it would say once loaded.
Mem(l, i) == ValueAt(dict[l], i)
OnDisk(d, l, i) ==
  IF i \in 1 .. MaxPos /\ d.recs[l][i] # Hole THEN d.recs[l][i]
  ELSE IF i \in DOMAIN d.packed[l] THEN d.packed[l][i] ELSE Hole

\* A value in memory is the one on disk.
Agree == \A l \in Labels : \A i \in Nat : Mem(l, i) # Hole => OnDisk(disk, l, i) = Mem(l, i)

RowsOK == \A r \in disk.rows : ~r.mark => Mem(r.label, r.pos) = r.val
SafeOK == \A r \in safe.rows : ~r.mark => OnDisk(safe, r.label, r.pos) = r.val
ReqOK == \A w \in Writers : req[w].on /\ ~req[w].mark => Mem(req[w].label, req[w].pos) = req[w].val

\* The sweep has seen every row, or will.
SweepOK ==
  sweep.at = "scan" =>
    \A r \in disk.rows : ~r.mark => \/ r.shard \in sweep.todo /\ r.label \in sweep.keys
                                    \/ <<r.label, r.pos>> \in sweep.used

IInv == Types /\ Agree /\ RowsOK /\ SafeOK /\ ReqOK /\ SweepOK

-----------------------------------------------------------------------------
(* Lemmas: the largest and the least of a set of numbers.                  *)

LEMMA Least ==
  ASSUME NEW T \in SUBSET Nat, T # {}
  PROVE  \E x \in T : \A y \in T : x <= y
<1>1. \E x \in T : \A y \in T : ~ (<<y, x>> \in OpToRel(<, Nat))
  BY NatLessThanWellFounded, WFMin
<1>2. OpToRel(<, Nat) = {ss \in Nat \X Nat : ss[1] < ss[2]} BY SMT DEF OpToRel
<1>3. PICK x \in T : \A y \in T : <<y, x>> \notin {ss \in Nat \X Nat : ss[1] < ss[2]} BY <1>1, <1>2, Zenon
<1>4. \A y \in T : ~(y < x)
  <2> TAKE y \in T
  <2>1. <<y, x>> \in Nat \X Nat OBVIOUS
  <2>2. <<y, x>> \notin {ss \in Nat \X Nat : ss[1] < ss[2]} BY <1>3
  <2>3. ~(<<y, x>>[1] < <<y, x>>[2]) BY <2>1, <2>2, Zenon
  <2> QED BY <2>3
<1>5. x \in Nat /\ \A y \in T : y \in Nat OBVIOUS
<1> QED BY <1>4, <1>5

LEMMA MinFacts ==
  ASSUME NEW S \in SUBSET Nat, S # {}
  PROVE  Min(S) \in S
<1>1. \E x \in S : \A y \in S : x <= y BY Least
<1> QED BY <1>1 DEF Min

LEMMA MaxFacts ==
  ASSUME NEW N \in Nat, NEW S \in SUBSET (0 .. N), S # {}
  PROVE  Max(S) \in S /\ \A y \in S : y <= Max(S)
<1> DEFINE T == {i \in 0 .. N : N - i \in S}
<1>1. T # {}
  <2> PICK s \in S : TRUE OBVIOUS
  <2>1. N - s \in 0 .. N /\ N - (N - s) = s OBVIOUS
  <2> QED BY <2>1
<1>2. T \in SUBSET Nat OBVIOUS
<1> HIDE DEF T
<1>3. PICK x \in T : \A y \in T : x <= y BY <1>1, <1>2, Least
<1>4. N - x \in S BY DEF T
<1>5. \A y \in S : y <= N - x
  <2> TAKE y \in S
  <2>1. N - y \in T BY DEF T
  <2>2. x <= N - y BY <2>1, <1>3
  <2>3. x \in 0 .. N BY DEF T
  <2> QED BY <2>2, <2>3
<1>6. \E m \in S : \A y \in S : m >= y BY <1>4, <1>5
<1> QED BY <1>6 DEF Max

-----------------------------------------------------------------------------
(* Lemmas: dictionaries.                                                   *)

LEMMA HoleFacts == Hole \in Entry /\ Hole \notin Values /\ \A v \in Values : v \in Entry /\ v # Hole
BY DictionaryAssumption DEF Entry

LEMMA EntriesFacts ==
  ASSUME NEW d, DictType(d)
  PROVE  /\ DOMAIN d.entries = 1 .. Len(d.entries) /\ Len(d.entries) \in Nat
         /\ \A i \in DOMAIN d.entries : i \in Nat \ {0} /\ d.entries[i] \in Entry
BY DEF DictType

LEMMA RebuildFacts ==
  ASSUME NEW es \in Seq(Entry)
  PROVE  DictOK(RebuildIndex(es)) /\ RebuildIndex(es).entries = es /\ RebuildIndex(es).on
<1> DEFINE at(v) == {i \in DOMAIN es : es[i] = v}
           first(v) == IF at(v) = {} THEN 0 ELSE Min(at(v))
           d == RebuildIndex(es)
<1>1. DOMAIN es = 1 .. Len(es) /\ Len(es) \in Nat OBVIOUS
<1>2. \A v : at(v) \subseteq Nat \ {0} BY <1>1
<1>3. ASSUME NEW v PROVE /\ first(v) \in Nat /\ (at(v) # {} => first(v) \in at(v) /\ first(v) # 0)
                         /\ (at(v) = {} => first(v) = 0)
  <2>1. at(v) \in SUBSET Nat BY <1>2
  <2> HIDE DEF at
  <2>2. at(v) # {} => Min(at(v)) \in at(v) BY <2>1, MinFacts
  <2> QED BY <1>2, <2>1, <2>2
<1>4. /\ d = [on |-> TRUE, entries |-> es, index |-> [v \in Values |-> first(v)],
              alias |-> [v \in Values |-> at(v) \ {first(v)}], holes |-> at(Hole),
              live |-> Len(es) - Cardinality(at(Hole))]
  BY DEF RebuildIndex
<1>5. \A v : \A i : i \in at(v) <=> i \in DOMAIN es /\ es[i] = v OBVIOUS
<1> HIDE DEF at, first, d
<1>6. /\ d.on /\ d.entries = es /\ d.holes = at(Hole)
      /\ \A v \in Values : d.index[v] = first(v) /\ d.alias[v] = at(v) \ {first(v)}
  BY <1>4
<1>7. DictType(d) BY <1>2, <1>3, <1>4 DEF DictType
<1>8. \A v \in Values : Posns(d, v) = at(v)
  <2> TAKE v \in Values
  <2>1. CASE at(v) = {} BY <2>1, <1>3, <1>6 DEF Posns
  <2>2. CASE at(v) # {}
    <3>1. first(v) \in at(v) /\ first(v) # 0 BY <2>2, <1>3
    <3> QED BY <3>1, <1>6 DEF Posns
  <2> QED BY <2>1, <2>2
<1>9. \A v \in Values : d.index[v] = 0 => d.alias[v] = {} BY <1>3, <1>6
<1>10. \A j \in d.holes : j \in DOMAIN es /\ es[j] = Hole /\ \A v \in Values : j \notin Posns(d, v)
  BY <1>5, <1>6, <1>8, HoleFacts
<1>11. IndexOK(d)
  <2>1. \A v \in Values : \A i \in DOMAIN es : es[i] = v => i \in Posns(d, v) BY <1>5, <1>8
  <2>2. \A v \in Values : \A i \in Posns(d, v) : i \in DOMAIN es /\ es[i] \in {v, Hole} BY <1>5, <1>8
  <2> QED BY <1>6, <1>9, <1>10, <2>1, <2>2 DEF IndexOK
<1> QED BY <1>6, <1>7, <1>11 DEF DictOK, d

LEMMA NoDictFacts == DictOK(NoDict) /\ NoDict.entries = <<>>
<1>1. DictType(NoDict) BY DEF DictType, NoDict
<1>2. NoDict.entries = <<>> /\ NoDict.holes = {} /\ \A v \in Values : NoDict.index[v] = 0 /\ NoDict.alias[v] = {}
  BY DEF NoDict
<1>3. IndexOK(NoDict) BY <1>2 DEF IndexOK, Posns
<1> QED BY <1>1, <1>2, <1>3 DEF DictOK

\* What is loaded says what is on disk.
LEMMA LoadFacts ==
  ASSUME NEW d, DiskOK(d), NEW l \in Labels
  PROVE  DictOK(Load(d, l)) /\ \A i \in Nat : ValueAt(Load(d, l), i) = OnDisk(d, l, i)
<1> DEFINE recs == {i \in 1 .. MaxPos : d.recs[l][i] # Hole}
           n == Len(d.packed[l])
           all == {n} \cup recs
           size == Max(all)
           entry(i) == IF i \in recs THEN d.recs[l][i] ELSE IF i <= n THEN d.packed[l][i] ELSE Hole
           es == [i \in 1 .. size |-> entry(i)]
<1>1. d.recs[l] \in [1 .. MaxPos -> Entry] /\ d.packed[l] \in Seq(Entry) BY DEF DiskOK
<1>2. n \in Nat /\ DOMAIN d.packed[l] = 1 .. n BY <1>1
<1>3. MaxPos \in Nat BY DictionaryAssumption
<1>4. size \in Nat /\ n <= size /\ (\A i \in recs : i <= size) /\ size \in all
  <2> DEFINE N == n + MaxPos
  <2>1. N \in Nat /\ all \in SUBSET (0 .. N) /\ all # {} BY <1>2, <1>3
  <2> HIDE DEF N, all
  <2>2. Max(all) \in all /\ \A y \in all : y <= Max(all) BY <2>1, MaxFacts
  <2>3. n \in all /\ \A i \in recs : i \in all BY DEF all
  <2>4. size = Max(all) OBVIOUS
  <2>5. \A y \in all : y \in Nat BY <2>1
  <2> HIDE DEF size
  <2> QED BY <2>2, <2>3, <2>4, <2>5
<1>5. Load(d, l) = IF size = 0 THEN NoDict ELSE RebuildIndex(es) BY DEF Load
<1>6. \A i : i \in recs <=> i \in 1 .. MaxPos /\ d.recs[l][i] # Hole OBVIOUS
<1> HIDE DEF all, size, recs, n
<1>7. \A i \in Nat \ {0} : entry(i) = OnDisk(d, l, i)
  BY <1>1, <1>2, <1>3, <1>6 DEF OnDisk
<1>8. \A i \in Nat \ {0} : entry(i) \in Entry
  <2> TAKE i \in Nat \ {0}
  <2>1. i \in recs => d.recs[l][i] \in Entry BY <1>1, <1>6
  <2>2. i <= n => d.packed[l][i] \in Entry BY <1>1, <1>2
  <2> QED BY <2>1, <2>2, HoleFacts
<1>9. \A i \in Nat : i \notin 1 .. size => OnDisk(d, l, i) = Hole
  <2> TAKE i \in Nat
  <2> HAVE i \notin 1 .. size
  <2>1. i \notin recs /\ i \notin 1 .. n BY <1>2, <1>3, <1>4, <1>6
  <2> QED BY <2>1, <1>2, <1>6 DEF OnDisk
<1>10. CASE size = 0
  <2>1. Load(d, l) = NoDict BY <1>5, <1>10
  <2>2. \A i \in Nat : ValueAt(NoDict, i) = Hole BY NoDictFacts DEF ValueAt
  <2> QED BY <2>1, <2>2, <1>4, <1>9, <1>10, NoDictFacts
<1>11. CASE size # 0
  <2>1. Load(d, l) = RebuildIndex(es) BY <1>5, <1>11
  <2>2. es \in Seq(Entry) /\ DOMAIN es = 1 .. size /\ \A i \in 1 .. size : es[i] = OnDisk(d, l, i)
    <3>1. \A i \in 1 .. size : entry(i) \in Entry /\ entry(i) = OnDisk(d, l, i) BY <1>4, <1>7, <1>8
    <3> HIDE DEF entry
    <3>2. es \in [1 .. size -> Entry] BY <3>1
    <3> QED BY <3>1, <3>2, <1>4
  <2> HIDE DEF es, entry
  <2>3. DictOK(RebuildIndex(es)) /\ RebuildIndex(es).entries = es BY <2>2, RebuildFacts
  <2>4. \A i \in Nat : ValueAt(RebuildIndex(es), i) = OnDisk(d, l, i)
    BY <2>2, <2>3, <1>9 DEF ValueAt
  <2> QED BY <2>1, <2>3, <2>4
<1> QED BY <1>10, <1>11

-----------------------------------------------------------------------------
(* Lemmas: what a step leaves alone.                                       *)

LEMMA MemFacts ==
  ASSUME Types, NEW l \in Labels
  PROVE  /\ DictOK(dict[l]) /\ DictType(dict[l]) /\ IndexOK(dict[l])
         /\ \A i \in Nat : /\ Mem(l, i) \in Entry
                           /\ Mem(l, i) # Hole => i \in DOMAIN dict[l].entries /\ Mem(l, i) = dict[l].entries[i]
<1>1. DictOK(dict[l]) BY DEF Types
<1>2. DictType(dict[l]) /\ IndexOK(dict[l]) BY <1>1 DEF DictOK
<1>3. \A i \in DOMAIN dict[l].entries : dict[l].entries[i] \in Entry BY <1>2, EntriesFacts
<1> QED BY <1>1, <1>2, <1>3, HoleFacts DEF Mem, ValueAt

\* The dictionaries and the engine are as they were.
LEMMA DataFrame ==
  ASSUME IInv, UNCHANGED <<dict, disk, safe>>
  PROVE  /\ Agree' /\ RowsOK' /\ SafeOK'
         /\ DOMAIN dict' = Labels /\ (\A l \in Labels : DictOK(dict[l])') /\ DiskOK(disk)' /\ DiskOK(safe)'
         /\ \A l, i : Mem(l, i)' = Mem(l, i)
<1>1. \A l, i : Mem(l, i)' = Mem(l, i) BY DEF Mem
<1>2. Agree' BY <1>1 DEF IInv, Agree, OnDisk
<1>3. RowsOK' BY <1>1 DEF IInv, RowsOK
<1>4. SafeOK' BY DEF IInv, SafeOK, OnDisk
<1>5. DOMAIN dict' = Labels /\ (\A l \in Labels : DictOK(dict[l])') BY DEF IInv, Types
<1>6. DiskOK(disk)' /\ DiskOK(safe)' BY DEF IInv, Types
<1> QED BY <1>1, <1>2, <1>3, <1>4, <1>5, <1>6

\* Only the sweep moves, and is not scanning.
LEMMA SweepEnds ==
  ASSUME IInv, UNCHANGED <<dict, disk, safe, req>>, sweep'.at # "scan"
  PROVE  IInv'
<1>1. Types' BY DataFrame DEF IInv, Types
<1>2. ReqOK' BY DataFrame DEF IInv, ReqOK
<1>3. SweepOK' BY DEF SweepOK
<1> QED BY <1>1, <1>2, <1>3, DataFrame DEF IInv

\* Nothing the invariant speaks of moves.
LEMMA NothingMoves ==
  ASSUME IInv, UNCHANGED <<dict, disk, safe, req, sweep>>
  PROVE  IInv'
<1>1. Types' BY DataFrame DEF IInv, Types
<1>2. ReqOK' BY DataFrame DEF IInv, ReqOK
<1>3. SweepOK' BY DEF IInv, SweepOK
<1> QED BY <1>1, <1>2, <1>3, DataFrame DEF IInv

\* A row in hand.
LEMMA InternedFacts ==
  ASSUME NEW w \in Writers, NEW l \in Labels, NEW v \in Values, NEW s \in Shards, NEW i \in Nat, NEW stale,
         DOMAIN req = Writers, Interned(w, l, v, s, i, stale)
  PROVE  /\ DOMAIN req' = Writers /\ \A x \in Writers \ {w} : req'[x] = req[x]
         /\ req'[w].label = l /\ req'[w].val = v /\ req'[w].shard = s /\ req'[w].pos = i
         /\ RowType(req'[w]) /\ (~stale => ~req'[w].mark) /\ (~req'[w].mark => ~stale)
BY DEF Interned, RowType

-----------------------------------------------------------------------------
(* The steps of a write.                                                   *)

LEMMA InternHitStep ==
  ASSUME IInv, NEW w \in Writers, NEW l \in Labels, NEW v \in Values, NEW s \in Shards,
         InternHit(w, l, v, s), UNCHANGED <<safe, sweep>>
  PROVE  IInv'
<1> DEFINE i == dict[l].index[v]
           stale == ValueAt(dict[l], i) # v
<1>1. Interned(w, l, v, s, i, stale) /\ UNCHANGED <<dict, disk, safe, sweep>> BY DEF InternHit
<1>2. i \in Nat BY MemFacts DEF IInv, DictType
<1>3. DOMAIN req = Writers BY DEF IInv, Types
<1>4. Mem(l, i) = v \/ stale BY DEF Mem
<1> HIDE DEF i, stale
<1>5. /\ DOMAIN req' = Writers /\ \A x \in Writers \ {w} : req'[x] = req[x]
      /\ req'[w].label = l /\ req'[w].val = v /\ req'[w].pos = i
      /\ RowType(req'[w]) /\ (~req'[w].mark => ~stale)
  BY <1>1, <1>2, <1>3, InternedFacts
<1>6. \A x \in Writers : req'[x].on => RowType(req'[x]) BY <1>5 DEF IInv, Types
<1>7. Types'
  <2>1. sweep'.at = "scan" => sweep' \in Scanning BY <1>1 DEF IInv, Types
  <2>2. \A x \in Writers : (req[x].on => RowType(req[x]))' BY <1>6 DEF RowType
  <2> QED BY <1>1, <1>5, <2>1, <2>2, DataFrame DEF Types, Scanning
<1>8. ReqOK'
  <2>1. ASSUME NEW x \in Writers, req'[x].on, ~req'[x].mark PROVE Mem(req'[x].label, req'[x].pos) = req'[x].val
    <3>1. CASE x = w BY <3>1, <2>1, <1>4, <1>5
    <3>2. CASE x # w BY <3>2, <2>1, <1>5 DEF IInv, ReqOK
    <3> QED BY <3>1, <3>2
  <2> QED BY <2>1, <1>1 DEF ReqOK, Mem
<1>9. SweepOK' BY <1>1 DEF IInv, SweepOK
<1> QED BY <1>1, <1>7, <1>8, <1>9, DataFrame DEF IInv

\* A free position: the last on the list, or the next one at the end.
Place(d) == IF TakeHole(d).pos # 0 THEN TakeHole(d).pos ELSE Len(d.entries) + 1

LEMMA TakeHoleFacts ==
  ASSUME NEW d, DictOK(d)
  PROVE  /\ TakeHole(d).pos = 0 \/ TakeHole(d).pos \in d.holes
         /\ TakeHole(d).pos \in Nat
         /\ TakeHole(d).rest \subseteq d.holes /\ TakeHole(d).pos \notin TakeHole(d).rest
<1> DEFINE free == {j \in d.holes \cap DOMAIN d.entries : d.entries[j] = Hole}
<1>1. Len(d.entries) \in Nat /\ free \in SUBSET (0 .. Len(d.entries)) BY EntriesFacts DEF DictOK
<1>2. TakeHole(d) = IF free = {} THEN [pos |-> 0, rest |-> {}]
                    ELSE [pos |-> Max(free), rest |-> {j \in d.holes : j < Max(free)}]
  BY DEF TakeHole
<1>3. free \subseteq d.holes OBVIOUS
<1> HIDE DEF free
<1>4. CASE free = {} BY <1>2, <1>4
<1>5. CASE free # {}
  <2>1. Max(free) \in free BY <1>1, <1>5, MaxFacts
  <2>a. \A y \in free : y \in Nat BY <1>1
  <2>2. Max(free) \in Nat BY <2>1, <2>a, Zenon
  <2>3. TakeHole(d).pos = Max(free) /\ TakeHole(d).rest = {j \in d.holes : j < Max(free)} BY <1>2, <1>5
  <2> QED BY <1>3, <2>1, <2>2, <2>3
<1> QED BY <1>4, <1>5

\* The dictionary with v interned at its free position.
Grown(d, v) ==
  [d EXCEPT !.on = TRUE, !.holes = TakeHole(d).rest, !.live = @ + 1, !.index[v] = Place(d),
            !.entries = IF TakeHole(d).pos # 0 THEN [@ EXCEPT ![Place(d)] = v] ELSE Append(@, v)]

LEMMA GrownFacts ==
  ASSUME NEW d, DictOK(d), NEW v \in Values, d.index[v] = 0
  PROVE  /\ Place(d) \in Nat \ {0} /\ ValueAt(d, Place(d)) = Hole
         /\ DictOK(Grown(d, v))
         /\ \A i \in Nat : ValueAt(Grown(d, v), i) = IF i = Place(d) THEN v ELSE ValueAt(d, i)
<1> DEFINE p == Place(d)
           g == Grown(d, v)
           h == TakeHole(d)
           n == Len(d.entries)
           new == IF h.pos # 0 THEN [d.entries EXCEPT ![p] = v] ELSE Append(d.entries, v)
<1>1. DictType(d) /\ IndexOK(d) BY DEF DictOK
<1>2. DOMAIN d.entries = 1 .. n /\ n \in Nat /\ d.entries \in Seq(Entry) BY <1>1, EntriesFacts DEF DictType
<1>3. /\ h.pos = 0 \/ h.pos \in d.holes
      /\ h.pos \in Nat /\ h.rest \subseteq d.holes /\ h.pos \notin h.rest
  BY TakeHoleFacts
<1>4. p = IF h.pos # 0 THEN h.pos ELSE n + 1 BY DEF Place
<1>5. v \in Entry /\ v # Hole BY HoleFacts
<1> HIDE DEF p, h, n
<1>6. /\ p \in Nat \ {0} /\ (h.pos # 0 => p \in 1 .. n /\ d.entries[p] = Hole)
      /\ (h.pos = 0 => p = n + 1)
      /\ \A u \in Values : p \notin Posns(d, u)
      /\ p \notin h.rest
  <2>1. CASE h.pos # 0
    <3>1. p \in d.holes /\ p = h.pos BY <2>1, <1>3, <1>4
    <3>2. p \in DOMAIN d.entries /\ d.entries[p] = Hole /\ \A u \in Values : p \notin Posns(d, u)
      BY <3>1, <1>1 DEF IndexOK
    <3> QED BY <2>1, <3>1, <3>2, <1>2, <1>3
  <2>2. CASE h.pos = 0
    <3>1. p = n + 1 BY <2>2, <1>4
    <3>2. p \notin DOMAIN d.entries BY <3>1, <1>2
    <3>3. \A u \in Values : p \notin Posns(d, u) BY <3>2, <1>1 DEF IndexOK
    <3>4. p \notin d.holes BY <3>2, <1>1 DEF IndexOK
    <3> QED BY <2>2, <3>1, <3>3, <3>4, <1>2, <1>3
  <2> QED BY <2>1, <2>2
<1>7. ValueAt(d, p) = Hole BY <1>2, <1>6 DEF ValueAt
<1>8. /\ new \in Seq(Entry) /\ DOMAIN new = DOMAIN d.entries \cup {p} /\ new[p] = v
      /\ \A i \in DOMAIN d.entries \ {p} : new[i] = d.entries[i]
  <2>1. CASE h.pos # 0 BY <2>1, <1>2, <1>5, <1>6
  <2>2. CASE h.pos = 0
    <3>1. new = Append(d.entries, v) /\ p = n + 1 BY <2>2, <1>6
    <3>2. Append(d.entries, v) \in Seq(Entry) BY <1>2, <1>5
    <3>3. DOMAIN Append(d.entries, v) = 1 .. n + 1 /\ Append(d.entries, v)[n + 1] = v BY <1>2 DEF n
    <3>4. \A i \in 1 .. n : Append(d.entries, v)[i] = d.entries[i] BY <1>2 DEF n
    <3>5. 1 .. n + 1 = (1 .. n) \cup {n + 1} BY <1>2
    <3> QED BY <3>1, <3>2, <3>3, <3>4, <3>5, <1>2
  <2> QED BY <2>1, <2>2
<1>9. g = [d EXCEPT !.on = TRUE, !.holes = h.rest, !.live = @ + 1, !.index[v] = p, !.entries = new]
  BY DEF Grown, p, h
<1> HIDE DEF g, new
<1>10. /\ g.on /\ g.holes = h.rest /\ g.entries = new /\ g.alias = d.alias
       /\ g.index = [d.index EXCEPT ![v] = p] /\ g = [on |-> g.on, entries |-> g.entries, index |-> g.index,
            alias |-> g.alias, holes |-> g.holes, live |-> g.live]
  BY <1>1, <1>9 DEF DictType
<1>11. g.index \in [Values -> Nat] /\ g.index[v] = p /\ \A u \in Values \ {v} : g.index[u] = d.index[u]
  BY <1>1, <1>6, <1>10 DEF DictType
<1>12. DictType(g) BY <1>1, <1>3, <1>8, <1>10, <1>11 DEF DictType
<1>13. Posns(g, v) = {p} /\ Posns(d, v) = {}
  <2>1. d.alias[v] = {} BY <1>1 DEF IndexOK
  <2> QED BY <2>1, <1>6, <1>10, <1>11 DEF Posns
<1>14. \A u \in Values \ {v} : Posns(g, u) = Posns(d, u) BY <1>10, <1>11 DEF Posns
<1>15. IndexOK(g)
  <2>1. \A u \in Values : g.index[u] = 0 => g.alias[u] = {} BY <1>1, <1>6, <1>10, <1>11 DEF IndexOK
  <2>2. ASSUME NEW u \in Values, NEW i \in DOMAIN new, new[i] = u PROVE i \in Posns(g, u)
    <3>1. CASE i = p BY <3>1, <2>2, <1>8, <1>13
    <3>2. CASE i # p
      <4>1. i \in DOMAIN d.entries /\ d.entries[i] = u BY <3>2, <2>2, <1>8
      <4>2. i \in Posns(d, u) BY <4>1, <1>1 DEF IndexOK
      <4> QED BY <4>2, <1>13, <1>14
    <3> QED BY <3>1, <3>2
  <2>3. ASSUME NEW u \in Values, NEW i \in Posns(g, u) PROVE i \in DOMAIN new /\ new[i] \in {u, Hole}
    <3>1. CASE u = v BY <3>1, <2>3, <1>8, <1>13
    <3>2. CASE u # v
      <4>1. i \in Posns(d, u) BY <3>2, <2>3, <1>14
      <4>2. i \in DOMAIN d.entries /\ d.entries[i] \in {u, Hole} BY <4>1, <1>1 DEF IndexOK
      <4> QED BY <4>1, <4>2, <1>6, <1>8
    <3> QED BY <3>1, <3>2
  <2>4. ASSUME NEW j \in g.holes
        PROVE  j \in DOMAIN new /\ new[j] = Hole /\ \A u \in Values : j \notin Posns(g, u)
    <3>1. j \in d.holes /\ j # p BY <1>3, <1>6, <1>10
    <3>2. j \in DOMAIN d.entries /\ d.entries[j] = Hole /\ \A u \in Values : j \notin Posns(d, u)
      BY <3>1, <1>1 DEF IndexOK
    <3> QED BY <3>1, <3>2, <1>8, <1>13, <1>14
  <2> QED BY <2>1, <2>2, <2>3, <2>4, <1>10 DEF IndexOK
<1>16. \A i \in Nat : ValueAt(g, i) = IF i = p THEN v ELSE ValueAt(d, i) BY <1>8, <1>10 DEF ValueAt
<1> QED BY <1>6, <1>7, <1>12, <1>15, <1>16 DEF DictOK, p, g

LEMMA InternNewStep ==
  ASSUME IInv, NEW w \in Writers, NEW l \in Labels, NEW v \in Values, NEW s \in Shards,
         InternNew(w, l, v, s), UNCHANGED <<safe, sweep>>
  PROVE  IInv'
<1> DEFINE d == dict[l]
           p == Place(d)
<1>1. Types /\ DictOK(d) /\ d.index[v] = 0 /\ DOMAIN dict = Labels BY MemFacts DEF IInv, InternNew, Types
<1>2. CASE /\ disk' = [disk EXCEPT !.recs[l][p] = v] /\ p <= MaxPos
           /\ dict' = [dict EXCEPT ![l] = Grown(d, v)]
           /\ Interned(w, l, v, s, p, FALSE)
  <2>1. /\ p \in Nat \ {0} /\ ValueAt(d, p) = Hole /\ DictOK(Grown(d, v))
        /\ \A i \in Nat : ValueAt(Grown(d, v), i) = IF i = p THEN v ELSE ValueAt(d, i)
    BY <1>1, GrownFacts
  <2>2. DOMAIN dict' = Labels /\ dict'[l] = Grown(d, v) /\ \A k \in Labels \ {l} : dict'[k] = dict[k]
    BY <1>1, <1>2
  <2> DEFINE g == Grown(d, v)
  <2>a. dict'[l] = g /\ DictOK(g) BY <2>1, <2>2
  <2>3. /\ Mem(l, p) = Hole
        /\ \A k \in Labels, i \in Nat : Mem(k, i)' = IF k = l /\ i = p THEN v ELSE Mem(k, i)
    <3>1. \A i \in Nat : ValueAt(dict'[l], i) = IF i = p THEN v ELSE ValueAt(d, i) BY <2>1, <2>2
    <3>2. Mem(l, p) = Hole BY <2>1 DEF Mem
    <3> HIDE DEF p, d
    <3>3. \A k \in Labels, i \in Nat : ValueAt(dict'[k], i) = IF k = l /\ i = p THEN v ELSE ValueAt(dict[k], i)
      BY <3>1, <2>2 DEF d
    <3> QED BY <3>2, <3>3 DEF Mem, ValueAt
  <2>4. v \in Entry /\ v # Hole /\ MaxPos \in Nat BY HoleFacts, DictionaryAssumption
  <2> HIDE DEF p, d, g
  <2>5. p \in 1 .. MaxPos BY <1>2, <2>1, <2>4
  <2>6. DiskOK(disk) BY <1>1 DEF Types
  <2> DEFINE rc == [disk.recs EXCEPT ![l] = [disk.recs[l] EXCEPT ![p] = v]]
  <2>7. disk'.recs = rc /\ disk'.packed = disk.packed /\ disk'.rows = disk.rows
        /\ disk' = [recs |-> disk'.recs, packed |-> disk'.packed, rows |-> disk'.rows]
    BY <1>2, <2>6 DEF DiskOK
  <2>8. /\ rc \in [Labels -> [1 .. MaxPos -> Entry]] /\ rc[l][p] = v
        /\ \A k \in Labels, i \in 1 .. MaxPos : rc[k][i] = IF k = l /\ i = p THEN v ELSE disk.recs[k][i]
    BY <2>4, <2>5, <2>6 DEF DiskOK
  <2> HIDE DEF rc
  <2>9. DiskOK(disk)' BY <2>6, <2>7, <2>8 DEF DiskOK, RowType
  <2>10. \A k \in Labels, i \in Nat : OnDisk(disk, k, i)' = IF k = l /\ i = p THEN v ELSE OnDisk(disk, k, i)
    <3> TAKE k \in Labels, i \in Nat
    <3>1. CASE i \in 1 .. MaxPos BY <3>1, <2>4, <2>5, <2>7, <2>8 DEF OnDisk
    <3>2. CASE i \notin 1 .. MaxPos BY <3>2, <2>5, <2>7 DEF OnDisk
    <3> QED BY <3>1, <3>2
  <2>11. /\ DOMAIN req' = Writers /\ \A x \in Writers \ {w} : req'[x] = req[x]
         /\ req'[w].label = l /\ req'[w].val = v /\ req'[w].pos = p /\ RowType(req'[w])
    <3>1. DOMAIN req = Writers BY <1>1 DEF Types
    <3>2. req' = [req EXCEPT ![w] = [on |-> TRUE, label |-> l, val |-> v, shard |-> s, pos |-> p, mark |-> FALSE]]
      BY <1>2 DEF Interned
    <3> QED BY <3>1, <3>2, <2>1 DEF RowType
  <2>12. Types'
    <3>1. \A k \in Labels : DictOK(dict'[k]) BY <1>1, <2>2, <2>a DEF Types, g
    <3>2. \A x \in Writers : (req[x].on => RowType(req[x]))' BY <1>1, <2>11 DEF Types, RowType
    <3>3. (sweep.at = "scan" => sweep \in Scanning)' BY <1>1 DEF Types, Scanning
    <3>4. DiskOK(safe)' BY <1>1 DEF Types
    <3>5. \A k \in Labels : DictOK(dict[k])' BY <3>1
    <3> QED BY <2>2, <2>9, <2>11, <3>2, <3>3, <3>4, <3>5 DEF Types
  <2>13. Agree' BY <2>3, <2>10 DEF IInv, Agree
  <2>14. RowsOK'
    <3> SUFFICES ASSUME NEW r \in disk.rows, ~r.mark PROVE Mem(r.label, r.pos)' = r.val
      BY <2>7 DEF RowsOK
    <3>1. Mem(r.label, r.pos) = r.val /\ r.label \in Labels /\ r.pos \in Nat /\ r.val # Hole
      BY <2>6, HoleFacts DEF IInv, RowsOK, DiskOK, RowType
    <3> QED BY <3>1, <2>3
  <2>15. SafeOK' BY DEF IInv, SafeOK, OnDisk
  <2>16. ReqOK'
    <3> SUFFICES ASSUME NEW x \in Writers, req'[x].on, ~req'[x].mark
                 PROVE  ValueAt(dict'[req'[x].label], req'[x].pos) = req'[x].val
      BY DEF ReqOK, Mem, ValueAt
    <3> DEFINE k == req'[x].label
               i == req'[x].pos
    <3>1. \A a \in Labels, b \in Nat : ValueAt(dict'[a], b) = IF a = l /\ b = p THEN v ELSE Mem(a, b)
      BY <2>3 DEF Mem, ValueAt
    <3>2. CASE x = w BY <3>1, <3>2, <2>1, <2>11
    <3>3. CASE x # w
      <4>1. req'[x] = req[x] BY <3>3, <2>11
      <4>2. k \in Labels /\ i \in Nat /\ req'[x].val # Hole /\ Mem(k, i) = req'[x].val
        BY <4>1, <1>1, HoleFacts DEF IInv, ReqOK, Types, RowType
      <4> HIDE DEF k, i
      <4>3. ~(k = l /\ i = p) BY <4>2, <2>3
      <4>4. ValueAt(dict'[k], i) = req'[x].val BY <4>2, <4>3, <3>1
      <4> QED BY <4>4 DEF k, i
    <3> QED BY <3>2, <3>3
  <2>17. SweepOK' BY <2>7 DEF IInv, SweepOK
  <2> QED BY <2>12, <2>13, <2>14, <2>15, <2>16, <2>17 DEF IInv
<1>3. CASE /\ dict' = [dict EXCEPT ![l].holes = TakeHole(d).rest \cup ({TakeHole(d).pos} \ {0})]
           /\ UNCHANGED <<disk, req>>
  <2> DEFINE h == TakeHole(d)
             left == h.rest \cup ({h.pos} \ {0})
             g == [d EXCEPT !.holes = left]
  <2>1. left \subseteq d.holes BY <1>1, TakeHoleFacts
  <2>2. dict' = [dict EXCEPT ![l] = g] BY <1>3
  <2> HIDE DEF left, g
  <2>3. DOMAIN dict' = Labels /\ dict'[l] = g /\ \A k \in Labels \ {l} : dict'[k] = dict[k] BY <1>1, <2>2
  <2>4. /\ g.on = d.on /\ g.entries = d.entries /\ g.index = d.index /\ g.alias = d.alias /\ g.holes = left
        /\ g = [on |-> g.on, entries |-> g.entries, index |-> g.index, alias |-> g.alias, holes |-> g.holes, live |-> g.live]
    BY <1>1 DEF DictOK, DictType, g
  <2>5. DictType(g) BY <1>1, <2>1, <2>4 DEF DictOK, DictType
  <2>6. IndexOK(g)
    <3>1. \A u \in Values : Posns(g, u) = Posns(d, u) BY <2>4 DEF Posns
    <3> QED BY <3>1, <1>1, <2>1, <2>4 DEF DictOK, IndexOK
  <2>7. \A k \in Labels : DictOK(dict'[k]) /\ dict'[k].entries = dict[k].entries
    BY <1>1, <2>3, <2>4, <2>5, <2>6 DEF DictOK, Types
  <2>8. \A k \in Labels : \A i : Mem(k, i)' = Mem(k, i) BY <2>7 DEF Mem, ValueAt
  <2>9. Types'
    <3>1. DiskOK(disk)' /\ DiskOK(safe)' BY <1>1, <1>3 DEF Types
    <3>2. \A x \in Writers : (req[x].on => RowType(req[x]))' BY <1>1, <1>3 DEF Types
    <3>3. (sweep.at = "scan" => sweep \in Scanning)' BY <1>1 DEF Types, Scanning
    <3>4. \A k \in Labels : DictOK(dict[k])' BY <2>7
    <3>5. DOMAIN req' = Writers BY <1>1, <1>3 DEF Types
    <3> QED BY <2>3, <3>1, <3>2, <3>3, <3>4, <3>5 DEF Types
  <2>10. Agree' BY <1>3, <2>8 DEF IInv, Agree, OnDisk
  <2>11. RowsOK'
    <3>1. \A r \in disk.rows : r.label \in Labels BY <1>1 DEF Types, DiskOK, RowType
    <3> QED BY <3>1, <1>3, <2>8 DEF IInv, RowsOK
  <2>12. SafeOK' BY DEF IInv, SafeOK, OnDisk
  <2>13. ReqOK'
    <3>1. \A x \in Writers : req[x].on => req[x].label \in Labels BY <1>1 DEF Types, RowType
    <3> QED BY <3>1, <1>3, <2>8 DEF IInv, ReqOK
  <2>14. SweepOK' BY <1>3 DEF IInv, SweepOK
  <2> QED BY <2>9, <2>10, <2>11, <2>12, <2>13, <2>14 DEF IInv
<1> QED BY <1>2, <1>3 DEF InternNew, Grown, Place

LEMMA InternStep ==
  ASSUME IInv, NEW w \in Writers, NEW l \in Labels, NEW v \in Values, NEW s \in Shards, Intern(w, l, v, s)
  PROVE  IInv'
<1>1. UNCHANGED <<safe, sweep>> /\ (InternHit(w, l, v, s) \/ InternNew(w, l, v, s)) BY DEF Intern
<1> QED BY <1>1, InternHitStep, InternNewStep

LEMMA PutBatchStep ==
  ASSUME IInv, NEW w \in Writers, PutBatch(w)
  PROVE  IInv'
<1> DEFINE r == RowOf(req[w])
<1>1. /\ req[w].on /\ req' = [req EXCEPT ![w] = NoReq] /\ UNCHANGED <<dict, safe, sweep>>
      /\ disk' = [disk EXCEPT !.rows = @ \cup {r}] \/ UNCHANGED disk
  BY DEF PutBatch
<1>2. Types /\ RowType(req[w]) /\ DOMAIN req = Writers /\ DiskOK(disk) BY <1>1 DEF IInv, Types
<1>3. /\ r.label = req[w].label /\ r.pos = req[w].pos /\ r.val = req[w].val /\ r.shard = req[w].shard
      /\ (~r.mark => ~req[w].mark /\ ~Missed(req[w]))
  BY DEF RowOf
<1>4. RowType(r) BY <1>2, <1>3 DEF RowType
<1>5. ~r.mark => Mem(r.label, r.pos) = r.val BY <1>1, <1>3 DEF IInv, ReqOK
<1>6. ~r.mark /\ sweep.at = "scan" => r.shard \in sweep.todo /\ r.label \in sweep.keys BY <1>3 DEF Missed
<1> HIDE DEF r
<1>7. /\ disk'.recs = disk.recs /\ disk'.packed = disk.packed /\ disk'.rows \subseteq disk.rows \cup {r}
      /\ disk' = [recs |-> disk'.recs, packed |-> disk'.packed, rows |-> disk'.rows]
  BY <1>1, <1>2 DEF DiskOK
<1>8. DiskOK(disk)' BY <1>2, <1>4, <1>7 DEF DiskOK, RowType
<1>9. DOMAIN req' = Writers /\ ~req'[w].on /\ \A x \in Writers \ {w} : req'[x] = req[x] BY <1>1, <1>2 DEF NoReq
<1>10. Types'
  <2>1. \A x \in Writers : (req[x].on => RowType(req[x]))' BY <1>2, <1>9 DEF Types, RowType
  <2>2. (sweep.at = "scan" => sweep \in Scanning)' BY <1>1, <1>2 DEF Types, Scanning
  <2>3. DOMAIN dict' = Labels /\ (\A k \in Labels : DictOK(dict[k])') /\ DiskOK(safe)' BY <1>1, <1>2 DEF Types
  <2> QED BY <1>8, <1>9, <2>1, <2>2, <2>3 DEF Types
<1>11. \A l, i : Mem(l, i)' = Mem(l, i) BY <1>1 DEF Mem
<1>12. Agree' BY <1>7, <1>11 DEF IInv, Agree, OnDisk
<1>13. RowsOK' BY <1>5, <1>7, <1>11 DEF IInv, RowsOK
<1>14. SafeOK' BY <1>1 DEF IInv, SafeOK, OnDisk
<1>15. ReqOK' BY <1>1, <1>9 DEF IInv, ReqOK, Mem
<1>16. SweepOK' BY <1>1, <1>6, <1>7 DEF IInv, SweepOK
<1> QED BY <1>10, <1>12, <1>13, <1>14, <1>15, <1>16 DEF IInv

-----------------------------------------------------------------------------
(* The steps of the sweep.                                                 *)

LEMMA RetainStep ==
  ASSUME IInv, NEW s \in Shards, NEW gone \in SUBSET RowsIn(s), Retain(s, gone)
  PROVE  IInv'
<1>1. CASE UNCHANGED disk /\ sweep' = NoSweep
  <2>1. sweep'.at # "scan" BY <1>1 DEF NoSweep
  <2> QED BY <1>1, <2>1, SweepEnds DEF Retain
<1>2. CASE disk' = [disk EXCEPT !.rows = @ \ gone] /\ sweep' = [at |-> "begin"]
  <2>1. UNCHANGED <<dict, safe, req>> /\ sweep'.at # "scan" BY <1>2 DEF Retain
  <2>2. Types /\ DiskOK(disk) BY DEF IInv, Types
  <2>3. /\ disk'.recs = disk.recs /\ disk'.packed = disk.packed /\ disk'.rows \subseteq disk.rows
        /\ disk' = [recs |-> disk'.recs, packed |-> disk'.packed, rows |-> disk'.rows]
    BY <1>2, <2>2 DEF DiskOK
  <2>4. DiskOK(disk)' BY <2>2, <2>3 DEF DiskOK
  <2>5. Types'
    <3>1. DOMAIN dict' = Labels /\ (\A k \in Labels : DictOK(dict[k])') /\ DiskOK(safe)' BY <2>1, <2>2 DEF Types
    <3>2. DOMAIN req' = Writers /\ \A x \in Writers : (req[x].on => RowType(req[x]))' BY <2>1, <2>2 DEF Types
    <3> QED BY <2>1, <2>4, <3>1, <3>2 DEF Types
  <2>6. \A l, i : Mem(l, i)' = Mem(l, i) BY <2>1 DEF Mem
  <2>7. Agree' BY <2>3, <2>6 DEF IInv, Agree, OnDisk
  <2>8. RowsOK' BY <2>3, <2>6 DEF IInv, RowsOK
  <2>9. SafeOK' BY <2>1 DEF IInv, SafeOK, OnDisk
  <2>10. ReqOK' BY <2>1, <2>6 DEF IInv, ReqOK
  <2>11. SweepOK' BY <2>1 DEF SweepOK
  <2> QED BY <2>5, <2>7, <2>8, <2>9, <2>10, <2>11 DEF IInv
<1> QED BY <1>1, <1>2 DEF Retain

LEMMA SweepMoves ==
  ASSUME IInv, UNCHANGED <<dict, disk, safe, req>>, sweep'.at = "scan", sweep' \in Scanning,
         \A r \in disk.rows : ~r.mark => \/ r.shard \in sweep'.todo /\ r.label \in sweep'.keys
                                         \/ <<r.label, r.pos>> \in sweep'.used
  PROVE  IInv'
<1>1. Types' BY DataFrame DEF IInv, Types, Scanning
<1>2. ReqOK' BY DataFrame DEF IInv, ReqOK
<1>3. SweepOK' BY DEF SweepOK
<1> QED BY <1>1, <1>2, <1>3, DataFrame DEF IInv

LEMMA ReclaimBeginStep ==
  ASSUME IInv, ReclaimBegin
  PROVE  IInv'
<1>1. UNCHANGED <<dict, disk, safe, req>> BY DEF ReclaimBegin
<1>2. CASE Known = {}
  <2>1. sweep'.at # "scan" BY <1>2 DEF ReclaimBegin, NoSweep
  <2> QED BY <1>1, <2>1, SweepEnds
<1>3. CASE Known # {}
  <2> DEFINE todo == {s \in Shards : RowsIn(s) # {}}
  <2>1. sweep' = [at |-> "scan", keys |-> Known, used |-> {}, todo |-> todo] BY <1>3 DEF ReclaimBegin
  <2>2. Known \subseteq Labels BY DEF Known
  <2>3. ASSUME NEW r \in disk.rows, ~r.mark PROVE r.shard \in todo /\ r.label \in Known
    <3>1. RowType(r) /\ Mem(r.label, r.pos) = r.val BY <2>3 DEF IInv, Types, DiskOK, RowsOK
    <3>2. r.label \in Labels /\ r.pos \in Nat /\ r.shard \in Shards /\ r.val # Hole BY <3>1, HoleFacts DEF RowType
    <3>3. r.pos \in DOMAIN dict[r.label].entries /\ IndexOK(dict[r.label]) BY <3>1, <3>2, MemFacts DEF IInv
    <3>4. dict[r.label].on BY <3>3 DEF IndexOK
    <3>5. r \in RowsIn(r.shard) BY DEF RowsIn
    <3> QED BY <3>2, <3>4, <3>5 DEF Known
  <2>4. todo \subseteq Shards OBVIOUS
  <2> HIDE DEF todo
  <2>5. sweep' \in Scanning /\ sweep'.at = "scan" /\ sweep'.todo = todo /\ sweep'.keys = Known
    BY <2>1, <2>2, <2>4 DEF Scanning
  <2> QED BY <1>1, <2>3, <2>5, SweepMoves
<1> QED BY <1>2, <1>3

LEMMA ReclaimScanStep ==
  ASSUME IInv, NEW s \in Shards, ReclaimScan(s)
  PROVE  IInv'
<1> DEFINE seen == {<<r.label, r.pos>> : r \in {x \in RowsIn(s) : x.label \in sweep.keys}}
<1>1. /\ sweep.at = "scan" /\ s \in sweep.todo /\ UNCHANGED <<dict, disk, safe, req>>
      /\ sweep' = [sweep EXCEPT !.todo = @ \ {s}, !.used = @ \cup seen]
  BY DEF ReclaimScan
<1>2. sweep \in Scanning /\ \A r \in disk.rows : RowType(r) BY <1>1 DEF IInv, Types, DiskOK
<1>3. seen \subseteq Labels \X Nat BY <1>2 DEF RowsIn, RowType
<1>4. \A r \in disk.rows : r.shard = s /\ r.label \in sweep.keys => <<r.label, r.pos>> \in seen BY DEF RowsIn
<1> HIDE DEF seen
<1>5. /\ sweep' \in Scanning /\ sweep'.at = "scan" /\ sweep'.todo = sweep.todo \ {s}
      /\ sweep'.used = sweep.used \cup seen /\ sweep'.keys = sweep.keys
  BY <1>1, <1>2, <1>3 DEF Scanning
<1>6. ASSUME NEW r \in disk.rows, ~r.mark
      PROVE  \/ r.shard \in sweep'.todo /\ r.label \in sweep'.keys
             \/ <<r.label, r.pos>> \in sweep'.used
  <2>1. \/ r.shard \in sweep.todo /\ r.label \in sweep.keys
        \/ <<r.label, r.pos>> \in sweep.used
    BY <1>1, <1>6 DEF IInv, SweepOK
  <2> QED BY <2>1, <1>4, <1>5
<1> QED BY <1>1, <1>5, <1>6, SweepMoves

LEMMA ReclaimScanFailsStep ==
  ASSUME IInv, ReclaimScanFails
  PROVE  IInv'
<1>1. UNCHANGED <<dict, disk, safe, req>> /\ sweep'.at # "scan" BY DEF ReclaimScanFails, NoSweep
<1> QED BY <1>1, SweepEnds

-----------------------------------------------------------------------------
(* Flush, crash and restart.                                               *)

LEMMA FlushStep ==
  ASSUME IInv, Flush
  PROVE  IInv'
<1>1. safe' = disk /\ UNCHANGED <<dict, disk, req, sweep>> BY DEF Flush
<1>2. \A l, i : Mem(l, i)' = Mem(l, i) BY <1>1 DEF Mem
<1>3. Types'
  <2>1. DOMAIN dict' = Labels /\ (\A k \in Labels : DictOK(dict[k])') BY <1>1 DEF IInv, Types
  <2>2. DOMAIN req' = Writers /\ \A x \in Writers : (req[x].on => RowType(req[x]))' BY <1>1 DEF IInv, Types
  <2>3. (sweep.at = "scan" => sweep \in Scanning)' BY <1>1 DEF IInv, Types, Scanning
  <2>4. DiskOK(disk)' /\ DiskOK(safe)' BY <1>1 DEF IInv, Types
  <2> QED BY <2>1, <2>2, <2>3, <2>4 DEF Types
<1>4. Agree' BY <1>1, <1>2 DEF IInv, Agree, OnDisk
<1>5. RowsOK' BY <1>1, <1>2 DEF IInv, RowsOK
<1>6. SafeOK'
  <2>1. ASSUME NEW r \in disk.rows, ~r.mark PROVE OnDisk(disk, r.label, r.pos) = r.val
    <3>1. RowType(r) /\ Mem(r.label, r.pos) = r.val BY <2>1 DEF IInv, Types, DiskOK, RowsOK
    <3> QED BY <3>1, HoleFacts DEF IInv, Agree, RowType
  <2> QED BY <1>1, <2>1 DEF SafeOK, OnDisk
<1>7. ReqOK' BY <1>1, <1>2 DEF IInv, ReqOK
<1>8. SweepOK' BY <1>1 DEF IInv, SweepOK
<1> QED BY <1>3, <1>4, <1>5, <1>6, <1>7, <1>8 DEF IInv

\* A process that has just loaded what is on disk.
LEMMA Loaded ==
  ASSUME NEW d, DiskOK(d), \A r \in d.rows : ~r.mark => OnDisk(d, r.label, r.pos) = r.val,
         disk = d, safe = d, dict = [l \in Labels |-> Load(d, l)],
         req = [w \in Writers |-> NoReq], sweep = NoSweep
  PROVE  IInv
<1>1. \A l \in Labels : DictOK(dict[l]) /\ \A i \in Nat : Mem(l, i) = OnDisk(d, l, i)
  BY LoadFacts DEF Mem
<1>2. DOMAIN req = Writers /\ \A w \in Writers : ~req[w].on BY DEF NoReq
<1>3. sweep.at # "scan" BY DEF NoSweep
<1>4. Types BY <1>1, <1>2, <1>3 DEF Types
<1>5. Agree BY <1>1 DEF Agree
<1>6. RowsOK BY <1>1 DEF RowsOK, DiskOK, RowType
<1>7. SafeOK BY DEF SafeOK
<1>8. ReqOK BY <1>2 DEF ReqOK
<1>9. SweepOK BY <1>3 DEF SweepOK
<1> QED BY <1>4, <1>5, <1>6, <1>7, <1>8, <1>9 DEF IInv

LEMMA InitHolds == Init => IInv
<1> SUFFICES ASSUME Init PROVE IInv
  OBVIOUS
<1>1. /\ safe = disk /\ dict = [l \in Labels |-> Load(disk, l)] /\ req = [w \in Writers |-> NoReq] /\ sweep = NoSweep
  BY DEF Init
<1>2. /\ disk = [recs |-> disk.recs, packed |-> disk.packed, rows |-> disk.rows] /\ disk.rows = {}
      /\ disk.recs = [l \in Labels |-> [i \in 1 .. MaxPos |-> Hole]] /\ disk.packed \in Old
  BY DEF Init
<1>3. DiskOK(disk)
  <2>1. disk.packed \in [Labels -> Seq(Entry)] BY <1>2, DictionaryAssumption DEF Entry
  <2>2. disk.recs \in [Labels -> [1 .. MaxPos -> Entry]] BY <1>2, HoleFacts
  <2> QED BY <1>2, <2>1, <2>2 DEF DiskOK
<1> QED BY <1>1, <1>2, <1>3, Loaded

LEMMA RestartStep ==
  ASSUME IInv, Restart
  PROVE  IInv'
<1>1. /\ disk' = safe /\ safe' = safe /\ dict' = [l \in Labels |-> Load(safe, l)]
      /\ req' = [w \in Writers |-> NoReq] /\ sweep' = NoSweep
  BY DEF Restart
<1>2. DiskOK(safe) BY DEF IInv, Types
<1>3. \A l \in Labels : DictOK(dict'[l]) /\ \A i \in Nat : ValueAt(dict'[l], i) = OnDisk(safe, l, i)
  BY <1>1, <1>2, LoadFacts
<1>4. DOMAIN req' = Writers /\ \A w \in Writers : ~req'[w].on BY <1>1 DEF NoReq
<1>5. sweep'.at # "scan" BY <1>1 DEF NoSweep
<1>6. \A l \in Labels : \A i \in Nat : Mem(l, i)' = OnDisk(safe, l, i) BY <1>3 DEF Mem, ValueAt
<1>7. Types'
  <2>1. \A l \in Labels : DictOK(dict[l])' BY <1>3
  <2>2. DiskOK(disk)' /\ DiskOK(safe)' BY <1>1, <1>2
  <2>3. DOMAIN dict' = Labels BY <1>1
  <2> QED BY <1>4, <1>5, <2>1, <2>2, <2>3 DEF Types
<1>8. Agree' BY <1>1, <1>6 DEF Agree, OnDisk
<1>9. RowsOK'
  <2>1. \A r \in safe.rows : r.label \in Labels /\ r.pos \in Nat BY <1>2 DEF DiskOK, RowType
  <2> QED BY <1>1, <1>6, <2>1 DEF RowsOK, IInv, SafeOK
<1>10. SafeOK' BY <1>1 DEF IInv, SafeOK, OnDisk
<1>11. ReqOK' BY <1>4 DEF ReqOK
<1>12. SweepOK' BY <1>5 DEF SweepOK
<1> QED BY <1>7, <1>8, <1>9, <1>10, <1>11, <1>12 DEF IInv

-----------------------------------------------------------------------------
(* ReclaimBlank.                                                           *)

\* What a reclaim may blank, delete and rewrite.
Allowed(rebuilt, packed, blank, freed) ==
  /\ rebuilt \subseteq Known /\ DOMAIN blank = Labels /\ DOMAIN freed = Labels
  /\ \A l \in Labels : freed[l] \subseteq blank[l] /\ blank[l] \subseteq Unused(l)
  /\ \A l \in Labels : l \in packed => blank[l] = Unused(l)

LEMMA UnusedFacts ==
  ASSUME Types, NEW l \in Labels
  PROVE  \A i \in Unused(l) : i \in Nat /\ i \in DOMAIN dict[l].entries /\ <<l, i>> \notin sweep.used
<1>1. DictType(dict[l]) BY DEF Types, DictOK
<1> QED BY <1>1, EntriesFacts DEF Unused

LEMMA BlankFacts ==
  ASSUME Types, ReclaimBlank
  PROVE  \E rebuilt, packed, blank, freed :
           Allowed(rebuilt, packed, blank, freed) /\ Reclaim(rebuilt, packed, blank, freed)
<1> DEFINE changed == {l \in Known : Unused(l) # {}}
           all(done) == [l \in Labels |-> IF l \in done THEN Unused(l) ELSE {}]
           upTo(l, i) == {j \in Unused(l) : j <= i}
<1>1. changed \subseteq Known /\ changed \subseteq Labels BY DEF Known
<1>2. ASSUME NEW B \in SUBSET changed, NEW W \in SUBSET B
      PROVE  Allowed(B, W, all(B), all(B))
  BY <1>1 DEF Allowed
<1>3. ASSUME NEW l \in changed, NEW done \in SUBSET (changed \ {l}), NEW i \in Unused(l)
      PROVE  Allowed(done, done, [all(done) EXCEPT ![l] = upTo(l, i)], [all(done) EXCEPT ![l] = upTo(l, i - 1)])
  <2>1. \A j \in Unused(l) : j \in Nat BY <1>1, UnusedFacts
  <2>2. upTo(l, i - 1) \subseteq upTo(l, i) /\ upTo(l, i) \subseteq Unused(l) BY <2>1
  <2> DEFINE m == upTo(l, i)
             f == upTo(l, i - 1)
  <2>3. f \subseteq m /\ m \subseteq Unused(l) BY <2>2
  <2> HIDE DEF m, f
  <2>4. Allowed(done, done, [all(done) EXCEPT ![l] = m], [all(done) EXCEPT ![l] = f])
    BY <1>1, <2>3 DEF Allowed
  <2> QED BY <2>4 DEF m, f
<1>4. \/ Reclaim(changed, changed, all(changed), all(changed))
      \/ \E l \in changed : \E done \in SUBSET (changed \ {l}) :
           \/ \E i \in Unused(l) :
                Reclaim(done, done, [all(done) EXCEPT ![l] = upTo(l, i)], [all(done) EXCEPT ![l] = upTo(l, i - 1)])
           \/ Reclaim(done \cup {l}, done, all(done \cup {l}), all(done \cup {l}))
  BY DEF ReclaimBlank
<1>5. CASE Reclaim(changed, changed, all(changed), all(changed))
  <2>1. Allowed(changed, changed, all(changed), all(changed)) BY <1>2
  <2> HIDE DEF changed, all
  <2> QED BY <1>5, <2>1
<1>6. ASSUME NEW l \in changed, NEW done \in SUBSET (changed \ {l}), NEW i \in Unused(l),
             Reclaim(done, done, [all(done) EXCEPT ![l] = upTo(l, i)], [all(done) EXCEPT ![l] = upTo(l, i - 1)])
      PROVE  \E rebuilt, packed, blank, freed :
           Allowed(rebuilt, packed, blank, freed) /\ Reclaim(rebuilt, packed, blank, freed)
  BY <1>3, <1>6, Zenon
<1>7. ASSUME NEW l \in changed, NEW done \in SUBSET (changed \ {l}),
             Reclaim(done \cup {l}, done, all(done \cup {l}), all(done \cup {l}))
      PROVE  \E rebuilt, packed, blank, freed :
           Allowed(rebuilt, packed, blank, freed) /\ Reclaim(rebuilt, packed, blank, freed)
  <2>1. done \cup {l} \in SUBSET changed /\ done \in SUBSET (done \cup {l}) OBVIOUS
  <2>2. Allowed(done \cup {l}, done, all(done \cup {l}), all(done \cup {l})) BY <1>2, <2>1
  <2> QED BY <1>7, <2>2, Zenon
<1>8. CASE \E l \in changed : \E done \in SUBSET (changed \ {l}) :
           \/ \E i \in Unused(l) :
                Reclaim(done, done, [all(done) EXCEPT ![l] = upTo(l, i)], [all(done) EXCEPT ![l] = upTo(l, i - 1)])
           \/ Reclaim(done \cup {l}, done, all(done \cup {l}), all(done \cup {l}))
  <2> HIDE DEF changed, all, upTo
  <2>1. PICK l \in changed : \E done \in SUBSET (changed \ {l}) :
           \/ \E i \in Unused(l) :
                Reclaim(done, done, [all(done) EXCEPT ![l] = upTo(l, i)], [all(done) EXCEPT ![l] = upTo(l, i - 1)])
           \/ Reclaim(done \cup {l}, done, all(done \cup {l}), all(done \cup {l}))
    BY <1>8, Zenon
  <2>2. PICK done \in SUBSET (changed \ {l}) :
           \/ \E i \in Unused(l) :
                Reclaim(done, done, [all(done) EXCEPT ![l] = upTo(l, i)], [all(done) EXCEPT ![l] = upTo(l, i - 1)])
           \/ Reclaim(done \cup {l}, done, all(done \cup {l}), all(done \cup {l}))
    BY <2>1, Zenon
  <2>3. CASE \E i \in Unused(l) :
                Reclaim(done, done, [all(done) EXCEPT ![l] = upTo(l, i)], [all(done) EXCEPT ![l] = upTo(l, i - 1)])
    BY <1>6, <2>3, Zenon
  <2>4. CASE Reclaim(done \cup {l}, done, all(done \cup {l}), all(done \cup {l}))
    BY <1>7, <2>4, Zenon
  <2> QED BY <2>2, <2>3, <2>4, Zenon
<1> HIDE DEF changed, all, upTo
<1> QED BY <1>4, <1>5, <1>8, Zenon

\* What a reclaim leaves of each label, in memory and on disk.
LEMMA ReclaimFacts ==
  ASSUME IInv, NEW rebuilt, NEW packed, NEW blank, NEW freed,
         Allowed(rebuilt, packed, blank, freed), Reclaim(rebuilt, packed, blank, freed)
  PROVE  /\ DOMAIN dict' = Labels /\ disk'.rows = disk.rows /\ DiskOK(disk')
         /\ \A l \in Labels : DictOK(dict'[l])
         /\ \A l \in Labels : \A i \in Nat :
              ValueAt(dict'[l], i) = IF i \in blank[l] THEN Hole ELSE Mem(l, i)
         /\ \A l \in Labels : \A i \in Nat :
              ValueAt(dict'[l], i) # Hole => OnDisk(disk', l, i) = ValueAt(dict'[l], i)
<1> DEFINE es(l) == Blanked(dict[l].entries, blank[l])
<1>1. /\ \A l \in Labels : freed[l] \subseteq blank[l] /\ blank[l] \subseteq Unused(l)
      /\ \A l \in Labels : l \in packed => blank[l] = Unused(l)
      /\ rebuilt \subseteq Known
  BY DEF Allowed
<1>2. /\ dict' = [l \in Labels |-> IF l \in rebuilt THEN RebuildIndex(es(l))
                                   ELSE [dict[l] EXCEPT !.entries = es(l)]]
      /\ disk' = [disk EXCEPT
            !.recs = [l \in Labels |-> RecsLeft(l, freed[l])],
            !.packed = [l \in Labels |-> IF l \in packed THEN Repacked(l) ELSE disk.packed[l]]]
  BY DEF Reclaim
<1>3. Types /\ Agree BY DEF IInv
<1>4. DiskOK(disk) BY <1>3 DEF Types
<1>5. /\ disk'.rows = disk.rows
      /\ disk'.recs = [l \in Labels |-> RecsLeft(l, freed[l])]
      /\ disk'.packed = [l \in Labels |-> IF l \in packed THEN Repacked(l) ELSE disk.packed[l]]
      /\ disk' = [recs |-> disk'.recs, packed |-> disk'.packed, rows |-> disk'.rows]
  BY <1>2, <1>4 DEF DiskOK
<1>6. ASSUME NEW l \in Labels
      PROVE  /\ es(l) \in Seq(Entry) /\ DOMAIN es(l) = DOMAIN dict[l].entries
             /\ \A i \in DOMAIN dict[l].entries : es(l)[i] = IF i \in blank[l] THEN Hole ELSE dict[l].entries[i]
  <2>1. DictType(dict[l]) BY <1>3 DEF Types, DictOK
  <2>2. /\ DOMAIN dict[l].entries = 1 .. Len(dict[l].entries) /\ Len(dict[l].entries) \in Nat
        /\ \A i \in DOMAIN dict[l].entries : dict[l].entries[i] \in Entry
    BY <2>1, EntriesFacts
  <2>3. DOMAIN es(l) = DOMAIN dict[l].entries BY DEF Blanked
  <2>4. \A i \in DOMAIN dict[l].entries : es(l)[i] = IF i \in blank[l] THEN Hole ELSE dict[l].entries[i]
    BY DEF Blanked
  <2>5. es(l) \in [1 .. Len(dict[l].entries) -> Entry]
    <3>1. es(l) = [i \in 1 .. Len(dict[l].entries) |-> IF i \in blank[l] THEN Hole ELSE dict[l].entries[i]]
      BY <2>2 DEF Blanked
    <3> QED BY <3>1, <2>2, HoleFacts
  <2>6. es(l) \in Seq(Entry) BY <2>2, <2>5
  <2> QED BY <2>3, <2>4, <2>6
<1> HIDE DEF es
<1>7. ASSUME NEW l \in Labels
      PROVE  DictOK(dict'[l]) /\ dict'[l].entries = es(l)
  <2>1. CASE l \in rebuilt
    <3>1. dict'[l] = RebuildIndex(es(l)) BY <1>2, <2>1
    <3> QED BY <3>1, <1>6, RebuildFacts
  <2>2. CASE l \notin rebuilt
    <3> DEFINE d == dict[l]
    <3>1. DictOK(d) BY <1>3 DEF Types
    <3>2. dict'[l] = [d EXCEPT !.entries = es(l)] BY <1>2, <2>2
    <3> HIDE DEF d
    <3>3. /\ dict'[l] = [on |-> d.on, entries |-> es(l), index |-> d.index, alias |-> d.alias,
                         holes |-> d.holes, live |-> d.live]
      BY <3>1, <3>2 DEF DictOK, DictType
    <3>4. /\ dict'[l].entries = es(l) /\ dict'[l].index = d.index /\ dict'[l].alias = d.alias
          /\ dict'[l].holes = d.holes /\ dict'[l].on = d.on /\ dict'[l].live = d.live
      BY <3>3
    <3>5. DictType(dict'[l])
      <4>1. dict'[l] = [on |-> dict'[l].on, entries |-> dict'[l].entries, index |-> dict'[l].index,
                        alias |-> dict'[l].alias, holes |-> dict'[l].holes, live |-> dict'[l].live]
        BY <3>3, <3>4
      <4> QED BY <4>1, <3>1, <3>4, <1>6 DEF DictOK, DictType
    <3>6. DOMAIN es(l) = DOMAIN d.entries
          /\ \A i \in DOMAIN d.entries : es(l)[i] = d.entries[i] \/ es(l)[i] = Hole
      BY <1>6 DEF d
    <3>7. d.entries = <<>> \/ d.on BY <3>1 DEF DictOK, IndexOK
    <3>8. es(l) # <<>> => d.entries # <<>>
      <4>1. d.entries \in Seq(Entry) /\ es(l) \in Seq(Entry) BY <3>1, <1>6 DEF DictOK, DictType
      <4> QED BY <4>1, <3>6
    <3>9. \A v \in Values : Posns(dict'[l], v) = Posns(d, v) BY <3>4 DEF Posns
    <3>10. dict'[l].entries # <<>> => dict'[l].on BY <3>4, <3>7, <3>8
    <3>11. \A v \in Values : dict'[l].index[v] = 0 => dict'[l].alias[v] = {}
      BY <3>1, <3>4 DEF DictOK, IndexOK
    <3>12. \A v \in Values : \A i \in DOMAIN es(l) : es(l)[i] = v => i \in Posns(d, v)
      BY <3>1, <3>6, HoleFacts DEF DictOK, IndexOK
    <3>13. \A v \in Values : \A i \in Posns(d, v) : i \in DOMAIN es(l) /\ es(l)[i] \in {v, Hole}
      BY <3>1, <3>6 DEF DictOK, IndexOK
    <3>14. \A j \in d.holes : /\ j \in DOMAIN es(l) /\ es(l)[j] = Hole
                              /\ \A v \in Values : j \notin Posns(d, v)
      BY <3>1, <3>6 DEF DictOK, IndexOK
    <3>15. IndexOK(dict'[l]) BY <3>4, <3>9, <3>10, <3>11, <3>12, <3>13, <3>14 DEF IndexOK
    <3> QED BY <3>4, <3>5, <3>15 DEF DictOK
  <2> QED BY <2>1, <2>2
<1>8. \A l \in Labels : \A i \in Nat : ValueAt(dict'[l], i) = IF i \in blank[l] THEN Hole ELSE Mem(l, i)
  BY <1>6, <1>7 DEF ValueAt, Mem
<1>9. ASSUME NEW l \in Labels
      PROVE  /\ disk'.recs[l] \in [1 .. MaxPos -> Entry] /\ disk'.packed[l] \in Seq(Entry)
             /\ DOMAIN disk'.packed[l] = DOMAIN disk.packed[l]
             /\ \A i \in 1 .. MaxPos : disk'.recs[l][i] = IF i \in freed[l] THEN Hole ELSE disk.recs[l][i]
             /\ \A i \in DOMAIN disk.packed[l] :
                  \/ disk'.packed[l][i] = disk.packed[l][i]
                  \/ i \in DOMAIN dict[l].entries /\ disk'.packed[l][i] = es(l)[i]
  <2>1. disk.recs[l] \in [1 .. MaxPos -> Entry] /\ disk.packed[l] \in Seq(Entry) BY <1>4 DEF DiskOK
  <2>2. disk'.recs[l] = [i \in 1 .. MaxPos |-> IF i \in freed[l] THEN Hole ELSE disk.recs[l][i]]
    BY <1>5 DEF RecsLeft
  <2>3. disk'.recs[l] \in [1 .. MaxPos -> Entry] BY <2>1, <2>2, HoleFacts
  <2>4. CASE l \notin packed
    <3>1. disk'.packed[l] = disk.packed[l] BY <1>5, <2>4
    <3> QED BY <2>1, <2>2, <2>3, <3>1
  <2>5. CASE l \in packed
    <3>1. blank[l] = Unused(l) BY <1>1, <2>5
    <3>2. disk'.packed[l] = [i \in DOMAIN disk.packed[l] |->
                              IF i \in DOMAIN dict[l].entries THEN es(l)[i] ELSE disk.packed[l][i]]
      BY <1>5, <2>5, <3>1 DEF Repacked, es
    <3>3. DOMAIN disk.packed[l] = 1 .. Len(disk.packed[l]) /\ Len(disk.packed[l]) \in Nat BY <2>1
    <3>4. \A i \in DOMAIN disk.packed[l] : disk.packed[l][i] \in Entry BY <2>1
    <3>5. \A i \in DOMAIN dict[l].entries : es(l)[i] \in Entry BY <1>6
    <3>6. disk'.packed[l] \in [1 .. Len(disk.packed[l]) -> Entry] BY <3>2, <3>3, <3>4, <3>5
    <3>7. disk'.packed[l] \in Seq(Entry) BY <3>3, <3>6
    <3> QED BY <2>2, <2>3, <3>2, <3>7
  <2> QED BY <2>4, <2>5
<1>10. DiskOK(disk')
  <2>1. disk'.recs \in [Labels -> [1 .. MaxPos -> Entry]] BY <1>5, <1>9
  <2>2. disk'.packed \in [Labels -> Seq(Entry)] BY <1>5, <1>9
  <2>3. \A r \in disk'.rows : RowType(r) BY <1>4, <1>5 DEF DiskOK
  <2> QED BY <1>5, <2>1, <2>2, <2>3 DEF DiskOK
<1>11. ASSUME NEW l \in Labels, NEW i \in Nat, ValueAt(dict'[l], i) # Hole
       PROVE  OnDisk(disk', l, i) = ValueAt(dict'[l], i)
  <2>1. i \notin blank[l] /\ ValueAt(dict'[l], i) = Mem(l, i) /\ Mem(l, i) # Hole BY <1>8, <1>11
  <2>2. OnDisk(disk, l, i) = Mem(l, i) BY <1>3, <2>1 DEF Agree
  <2>3. i \notin freed[l] BY <1>1, <2>1
  <2>4. i \in DOMAIN dict[l].entries => es(l)[i] = Mem(l, i) BY <1>6, <2>1 DEF Mem, ValueAt
  <2>5. i \in 1 .. MaxPos => disk'.recs[l][i] = disk.recs[l][i] BY <1>9, <2>3
  <2>6. i \in DOMAIN disk.packed[l] => disk'.packed[l][i] \in {disk.packed[l][i], Mem(l, i)} BY <1>9, <2>4
  <2>7. DOMAIN disk'.packed[l] = DOMAIN disk.packed[l] BY <1>9
  <2> QED BY <2>1, <2>2, <2>5, <2>6, <2>7 DEF OnDisk
<1>12. DOMAIN dict' = Labels BY <1>2
<1> QED BY <1>5, <1>7, <1>8, <1>10, <1>11, <1>12

\* Every row has been seen, so no unmarked row loses its value; every request that
\* is on its way is marked.
LEMMA ReclaimBlankStep ==
  ASSUME IInv, ReclaimBlank
  PROVE  IInv'
<1>1. /\ sweep.at = "scan" /\ sweep.todo = {} /\ sweep' = NoSweep /\ safe' = safe
      /\ req' = [w \in Writers |-> IF req[w].on THEN [req[w] EXCEPT !.mark = TRUE] ELSE req[w]]
  BY DEF ReclaimBlank
<1>2. Types /\ RowsOK /\ SafeOK /\ SweepOK BY DEF IInv
<1>3. PICK rebuilt, packed, blank, freed :
        Allowed(rebuilt, packed, blank, freed) /\ Reclaim(rebuilt, packed, blank, freed)
  BY <1>2, BlankFacts
<1>4. /\ DOMAIN dict' = Labels /\ disk'.rows = disk.rows /\ DiskOK(disk')
      /\ \A l \in Labels : DictOK(dict'[l])
      /\ \A l \in Labels : \A i \in Nat :
           ValueAt(dict'[l], i) = IF i \in blank[l] THEN Hole ELSE Mem(l, i)
      /\ \A l \in Labels : \A i \in Nat :
           ValueAt(dict'[l], i) # Hole => OnDisk(disk', l, i) = ValueAt(dict'[l], i)
  BY <1>3, ReclaimFacts
<1>5. \A l \in Labels : \A i \in blank[l] : <<l, i>> \notin sweep.used
  BY <1>2, <1>3, UnusedFacts DEF Allowed
<1>6. DOMAIN req' = Writers /\ \A w \in Writers : req'[w].on => req'[w].mark /\ RowType(req'[w])
  <2>1. DOMAIN req' = Writers BY <1>1
  <2>2. ASSUME NEW w \in Writers, req'[w].on PROVE req'[w].mark /\ RowType(req'[w])
    <3>1. CASE req[w].on
      <4>1. req'[w] = [req[w] EXCEPT !.mark = TRUE] BY <1>1, <3>1
      <4>2. RowType(req[w]) BY <1>2, <3>1 DEF Types
      <4> QED BY <4>1, <4>2 DEF RowType
    <3>2. CASE ~req[w].on BY <1>1, <2>2, <3>2
    <3> QED BY <3>1, <3>2
  <2> QED BY <2>1, <2>2
<1>7. sweep'.at # "scan" BY <1>1 DEF NoSweep
<1>8. Types'
  <2>1. \A l \in Labels : DictOK(dict[l])' BY <1>4
  <2>2. DiskOK(disk)' /\ DiskOK(safe)' BY <1>1, <1>2, <1>4 DEF Types
  <2> QED BY <1>4, <1>6, <1>7, <2>1, <2>2 DEF Types
<1>9. Agree' BY <1>4 DEF Agree, Mem
<1>10. RowsOK'
  <2>1. ASSUME NEW r \in disk.rows, ~r.mark PROVE ValueAt(dict'[r.label], r.pos) = r.val
    <3>1. RowType(r) BY <1>2 DEF Types, DiskOK
    <3>2. r.label \in Labels /\ r.pos \in Nat BY <3>1 DEF RowType
    <3>3. <<r.label, r.pos>> \in sweep.used BY <1>1, <1>2, <2>1 DEF SweepOK
    <3>4. r.pos \notin blank[r.label] BY <1>5, <3>2, <3>3
    <3>5. Mem(r.label, r.pos) = r.val BY <1>2, <2>1 DEF RowsOK
    <3> QED BY <1>4, <3>2, <3>4, <3>5
  <2> QED BY <1>4, <2>1 DEF RowsOK, Mem
<1>11. SafeOK' BY <1>1, <1>2 DEF SafeOK, OnDisk
<1>12. ReqOK' BY <1>6 DEF ReqOK
<1>13. SweepOK' BY <1>7 DEF SweepOK
<1> QED BY <1>8, <1>9, <1>10, <1>11, <1>12, <1>13 DEF IInv

-----------------------------------------------------------------------------
(* The theorems.                                                           *)

LEMMA NextPreserves ==
  ASSUME IInv, [Next]_vars
  PROVE  IInv'
<1>1. CASE \E w \in Writers : \E l \in Labels, v \in Values, s \in Shards : Intern(w, l, v, s)
  BY <1>1, InternStep
<1>2. CASE \E w \in Writers : PutBatch(w) BY <1>2, PutBatchStep
<1>3. CASE \E s \in Shards : \E gone \in SUBSET RowsIn(s) : Retain(s, gone) BY <1>3, RetainStep
<1>4. CASE \E s \in Shards : ReclaimScan(s) BY <1>4, ReclaimScanStep
<1>5. CASE ReclaimBegin BY <1>5, ReclaimBeginStep
<1>6. CASE ReclaimScanFails BY <1>6, ReclaimScanFailsStep
<1>7. CASE ReclaimBlank BY <1>7, ReclaimBlankStep
<1>8. CASE Flush BY <1>8, FlushStep
<1>9. CASE Restart BY <1>9, RestartStep
<1>10. CASE UNCHANGED vars
  BY <1>10 DEF vars, IInv, Types, Agree, RowsOK, SafeOK, ReqOK, SweepOK, Mem, OnDisk
<1> QED BY <1>1, <1>2, <1>3, <1>4, <1>5, <1>6, <1>7, <1>8, <1>9, <1>10 DEF Next

LEMMA Inductive == Spec => []IInv
<1>1. Init => IInv BY InitHolds
<1>2. IInv /\ [Next]_vars => IInv' BY NextPreserves
<1> QED BY <1>1, <1>2, PTL DEF Spec

\* A stored row shows the label it was written with (labelValue), for any number of
\* writers, sweeps, failures and crashes: a position is given out again only when no
\* row that reclaimDictionaries could see uses it.
THEOREM RowsKeepTheirLabels == Spec => []RowResolves
<1>1. IInv => RowResolves
  <2> SUFFICES ASSUME IInv, NEW r \in disk.rows, ~r.mark PROVE Resolves(dict[r.label], r)
    BY DEF RowResolves
  <2>1. Mem(r.label, r.pos) = r.val BY DEF IInv, RowsOK
  <2> QED BY <2>1 DEF Mem, Resolves
<1> QED BY <1>1, Inductive, PTL

\* What loadDictionaries would build from the engine, after a crash or a clean stop,
\* still shows every stored row the label it was written with: the record is written
\* before the row (intern, PutBatch) and deleted only when nothing stored needs it.
THEOREM RestartsResolve == Spec => []RestartResolves
<1>1. IInv => RestartResolves
  <2> SUFFICES ASSUME IInv, NEW d \in {disk, safe}, NEW r \in d.rows, ~r.mark
               PROVE  Resolves(Load(d, r.label), r)
    BY DEF RestartResolves
  <2>1. DiskOK(d) BY DEF IInv, Types
  <2>2. r.label \in Labels /\ r.pos \in Nat /\ r.val \in Values BY <2>1 DEF DiskOK, RowType
  <2>3. ValueAt(Load(d, r.label), r.pos) = OnDisk(d, r.label, r.pos) BY <2>1, <2>2, LoadFacts
  <2>4. OnDisk(d, r.label, r.pos) = r.val
    <3>1. CASE d = safe BY <3>1 DEF IInv, SafeOK
    <3>2. CASE d = disk
      <4>1. Mem(r.label, r.pos) = r.val BY <3>2 DEF IInv, RowsOK
      <4>2. Mem(r.label, r.pos) # Hole BY <4>1, <2>2, HoleFacts
      <4> QED BY <4>1, <4>2, <2>2, <3>2 DEF IInv, Agree
    <3> QED BY <3>1, <3>2
  <2> QED BY <2>3, <2>4 DEF Resolves
<1> QED BY <1>1, Inductive, PTL

\* A comparison with a label value (lookupPositions) reads every position that holds
\* it and none that holds another value, also after a reclaim that failed halfway and
\* left the index as it was.
THEOREM LookupsAreExact == Spec => []LookupExact
<1>1. IInv => LookupExact
  <2> SUFFICES ASSUME IInv, NEW l \in Labels, NEW v \in Values
               PROVE  /\ {i \in DOMAIN dict[l].entries : dict[l].entries[i] = v} \subseteq Positions(l, v)
                      /\ \A i \in Positions(l, v) : ValueAt(dict[l], i) \in {v, Hole}
    BY DEF LookupExact
  <2>1. IndexOK(dict[l]) BY DEF IInv, Types, DictOK
  <2>2. Positions(l, v) = Posns(dict[l], v) BY DEF Positions, Posns
  <2> QED BY <2>1, <2>2 DEF IndexOK, ValueAt
<1> QED BY <1>1, Inductive, PTL

=============================================================================
