--------------------------- MODULE ExtractProofs ---------------------------
(***************************************************************************)
(* Proofs about Extract, for any lines, rules, windows and bounds: every   *)
(* line ends in exactly one place, what may be acknowledged never moves    *)
(* back, and no record gets into a window that has ended.  One backward    *)
(* pass over the spans finds the last position that nothing open begins    *)
(* before and no span contains.                                            *)
(***************************************************************************)
EXTENDS Extract, FiniteSetTheorems, WellFoundedInduction, TLAPS

-----------------------------------------------------------------------------
(* The inductive invariant.                                                *)

Event ==
  [kind : {"line"}, line : LineType, at : Nat]
    \cup [kind : {"idle"}, due : SUBSET ToSet(Rules), quiet : Nat, at : Nat]

\* Lines from mark on, read up to position n.
Within(from, mark, n) == \A k \in from : k \in mark .. n

\* A record, a window and a span of the list.
BufferOK(b, n) ==
  /\ b = [line |-> b.line, ts |-> b.ts, parts |-> b.parts, mark |-> b.mark, last |-> b.last,
          from |-> b.from]
  /\ b.line \in LineType /\ b.ts \in Nat /\ b.mark \in 1 .. n /\ b.last \in 1 .. n
  /\ Within(b.from, b.mark, n)

WindowOK(w, n) ==
  /\ w = [key |-> w.key, rank |-> w.rank, mode |-> w.mode, born |-> w.born, start |-> w.start,
          end |-> w.end, val |-> w.val, has |-> w.has, mark |-> w.mark, last |-> w.last,
          from |-> w.from]
  /\ w.rank \in Nat /\ w.end \in Nat /\ w.mark \in 1 .. n /\ w.last \in 1 .. n
  /\ Within(w.from, w.mark, n)

SpanOK(e, n) == e.mark \in 1 .. n /\ e.last \in 1 .. n

Shaped(s, n) ==
  /\ s = [bufs |-> s.bufs, wins |-> s.wins, made |-> s.made, holds |-> s.holds,
          lastTS |-> s.lastTS, rows |-> s.rows, refused |-> s.refused, shed |-> s.shed]
  /\ s.made \in Nat /\ s.lastTS \in Nat \cup {NoTS}
  /\ DOMAIN s.bufs \subseteq ToSet(Rules)
  /\ \A r \in DOMAIN s.bufs : BufferOK(s.bufs[r], n)
  /\ \A w \in s.wins : WindowOK(w, n)
  /\ \A e \in s.holds : SpanOK(e, n)

\* Every open window has exactly its own entry in the list.
Listed(s) ==
  /\ \A w \in s.wins : Entry(w) \in s.holds
  /\ \A e \in s.holds, w \in s.wins : e.key = w.key /\ e.born = w.born => e = Entry(w)
  /\ \A v, w \in s.wins : v.born = w.born => v = w
  /\ \A w \in s.wins : w.born \in 1 .. s.made
  /\ \A e \in s.holds : e.born \in 0 .. s.made

\* Nothing that is open begins before f, and no span has f inside.
Clear(s, f) ==
  /\ \A r \in DOMAIN s.bufs : s.bufs[r].mark >= f
  /\ \A w \in s.wins : w.mark >= f
  /\ \A e \in s.holds : e.mark >= f \/ e.last < f

\* What was refused, the rows and the open windows share no line.
Apart(s) ==
  /\ s.refused \cap Rowed(s) = {} /\ s.refused \cap Windowed(s) = {}
  /\ Rowed(s) \cap Windowed(s) = {}
  /\ \A x, y \in s.rows : x # y => x.from \cap y.from = {}
  /\ \A x, y \in s.wins : x # y => x.from \cap y.from = {}

Taken(s) == s.refused \cup Rowed(s) \cup Windowed(s)

\* The records that are open share no line with each other or with what was taken.
Waiting(s, n) ==
  /\ Taken(s) \cap Joining(s) = {} /\ Taken(s) \cup Joining(s) = 1 .. n
  /\ \A x, y \in DOMAIN s.bufs : x # y => s.bufs[x].from \cap s.bufs[y].from = {}

Sound(s, n, f) == Shaped(s, n) /\ Listed(s) /\ Clear(s, f) /\ Apart(s)

\* The stream after m lines, when spans may reach to n and nothing is below f.
Steady(s, n, m, f) == Sound(s, n, f) /\ Waiting(s, m)

IInv ==
  /\ events \in Seq(Event)
  /\ Steady(st, Count, Count, 0)

-----------------------------------------------------------------------------
(* Numbers.                                                                *)

\* A set of naturals that is not empty has a smallest member.
LEMMA NatLeast ==
  ASSUME NEW S, S \subseteq Nat, S # {}
  PROVE  \E m \in S : \A k \in S : m <= k
<1> DEFINE R == OpToRel(<, Nat)
<1>1. IsWellFoundedOn(R, Nat) BY NatLessThanWellFounded, Zenon
<1>2. \A x, y \in Nat : <<y, x>> \in R <=> y < x BY DEF OpToRel
<1> HIDE DEF R
<1>3. PICK x \in S : \A y \in S : ~(<<y, x>> \in R) BY <1>1, WFMin
<1>4. \A y \in S : ~(y < x) BY <1>2, <1>3
<1>5. \A y \in S : x <= y BY <1>4
<1> QED BY <1>5

\* Induction, as a fact about sets.
LEMMA NatSet ==
  ASSUME NEW S, S \subseteq Nat, 0 \in S, \A n \in S : n + 1 \in S
  PROVE  S = Nat
<1> DEFINE T == Nat \ S
<1> SUFFICES ASSUME T # {} PROVE FALSE OBVIOUS
<1>1. PICK x \in T : \A y \in T : x <= y BY NatLeast
<1>2. x # 0 /\ x - 1 \in Nat /\ x - 1 \notin T BY <1>1
<1>3. x - 1 \in S BY <1>2
<1> QED BY <1>1, <1>3

LEMMA MinFacts ==
  ASSUME NEW S, S \subseteq Nat, S # {}
  PROVE  Min(S) \in S /\ \A k \in S : Min(S) <= k
BY NatLeast DEF Min

LEMMA MinOfTwo ==
  ASSUME NEW a \in Nat, NEW b \in Nat
  PROVE  Min({a, b}) \in {a, b} /\ Min({a, b}) <= a /\ Min({a, b}) <= b
BY MinFacts, {a, b} \subseteq Nat, {a, b} # {}

LEMMA MaxOfTwo ==
  ASSUME NEW a \in Nat, NEW b \in Nat
  PROVE  Max({a, b}) \in {a, b} /\ Max({a, b}) >= a /\ Max({a, b}) >= b
<1>1. \E m \in {a, b} : \A k \in {a, b} : m >= k
  <2>1. CASE a <= b BY <2>1
  <2>2. CASE b <= a BY <2>2
  <2> QED BY <2>1, <2>2
<1> QED BY <1>1 DEF Max

-----------------------------------------------------------------------------
(* The backward pass.                                                      *)

Pulled(holds, top, k, f) ==
  IF \E e \in holds : e.mark = top - k /\ e.last >= f THEN top - k ELSE f

\* A function that computes it.
Passes(p, holds, top, n) ==
  p = [k \in 0 .. n |-> IF k = 0 THEN top ELSE Pulled(holds, top, k, p[k - 1])]

LEMMA PassExists ==
  ASSUME NEW holds, NEW top
  PROVE  \A n \in Nat : \E p : Passes(p, holds, top, n)
<1> DEFINE S == {n \in Nat : \E p : Passes(p, holds, top, n)}
<1>1. 0 \in S
  <2>1. Passes([k \in 0 .. 0 |-> top], holds, top, 0) BY DEF Passes
  <2> QED BY <2>1
<1>2. ASSUME NEW n \in S PROVE n + 1 \in S
  <2>1. PICK p : Passes(p, holds, top, n) BY <1>2
  <2> DEFINE q == [k \in 0 .. n + 1 |-> IF k = n + 1 THEN Pulled(holds, top, n + 1, p[n]) ELSE p[k]]
  <2>2. \A k \in 0 .. n : q[k] = p[k] OBVIOUS
  <2>3. \A k \in 0 .. n : p[k] = IF k = 0 THEN top ELSE Pulled(holds, top, k, p[k - 1])
    BY <2>1 DEF Passes
  <2>4. ASSUME NEW k \in 0 .. n + 1
        PROVE  q[k] = IF k = 0 THEN top ELSE Pulled(holds, top, k, q[k - 1])
    <3>1. CASE k = n + 1 BY <3>1, <2>2, n \in 0 .. n, k - 1 = n
    <3>2. CASE k # n + 1
      <4>1. k \in 0 .. n /\ (k # 0 => k - 1 \in 0 .. n) BY <3>2
      <4> HIDE DEF q
      <4> QED BY <4>1, <2>2, <2>3
    <3> QED BY <3>1, <3>2
  <2>5. q = [k \in 0 .. n + 1 |-> IF k = 0 THEN top ELSE Pulled(holds, top, k, q[k - 1])]
    BY <2>4
  <2> HIDE DEF q
  <2>6. Passes(q, holds, top, n + 1) BY <2>5 DEF Passes
  <2> QED BY <2>6
<1>3. S = Nat BY <1>1, <1>2, NatSet
<1> QED BY <1>3

LEMMA PassFacts ==
  ASSUME NEW holds, NEW top \in Nat
  PROVE  \E p : /\ PullBack(holds, top) = p[top]
                /\ p[0] = top
                /\ \A k \in 1 .. top : p[k] = Pulled(holds, top, k, p[k - 1])
<1> DEFINE p == CHOOSE p : p = [k \in 0 .. top |->
                  IF k = 0 THEN top
                  ELSE IF \E e \in holds : e.mark = top - k /\ e.last >= p[k - 1] THEN top - k
                  ELSE p[k - 1]]
<1>1. PullBack(holds, top) = p[top] BY DEF PullBack
<1>2. \E q : Passes(q, holds, top, top) BY PassExists
<1>3. Passes(p, holds, top, top) BY <1>2 DEF Passes, Pulled
<1> HIDE DEF p
<1>4. p[0] = top BY <1>3 DEF Passes
<1>5. \A k \in 1 .. top : p[k] = Pulled(holds, top, k, p[k - 1]) BY <1>3 DEF Passes
<1> QED BY <1>1, <1>4, <1>5

\* The position it ends at is not inside a span, and it does not pass one that is not.
LEMMA PullBackFacts ==
  ASSUME NEW holds, NEW top \in Nat, NEW n, \A e \in holds : SpanOK(e, n), n \in Nat
  PROVE  /\ PullBack(holds, top) \in 0 .. top
         /\ \A e \in holds : e.mark >= PullBack(holds, top) \/ e.last < PullBack(holds, top)
         /\ \A f \in 0 .. top :
              (\A e \in holds : e.mark >= f \/ e.last < f) => PullBack(holds, top) >= f
<1>1. PICK p : /\ PullBack(holds, top) = p[top]
               /\ p[0] = top
               /\ \A k \in 1 .. top : p[k] = Pulled(holds, top, k, p[k - 1])
  BY PassFacts
<1>0. \A e \in holds : e.mark \in Nat /\ e.last \in Nat BY DEF SpanOK
<1> DEFINE A(k) == /\ p[k] \in top - k .. top
                   /\ \A e \in holds : e.mark >= top - k => (e.mark >= p[k] \/ e.last < p[k])
           S == {k \in Nat : k <= top => A(k)}
<1>2. 0 \in S BY <1>0, <1>1
<1>3. ASSUME NEW k \in S PROVE k + 1 \in S
  <2> SUFFICES ASSUME k + 1 <= top PROVE A(k + 1) OBVIOUS
  <2>1. A(k) OBVIOUS
  <2>2. p[k + 1] = Pulled(holds, top, k + 1, p[k]) BY <1>1
  <2>3. CASE \E e \in holds : e.mark = top - (k + 1) /\ e.last >= p[k]
    BY <2>1, <2>2, <2>3, <1>0 DEF Pulled
  <2>4. CASE ~\E e \in holds : e.mark = top - (k + 1) /\ e.last >= p[k]
    BY <2>1, <2>2, <2>4, <1>0 DEF Pulled
  <2> QED BY <2>3, <2>4
<1>4. S = Nat BY <1>2, <1>3, NatSet
<1>5. A(top) BY <1>4
<1>6. ASSUME NEW f \in 0 .. top, \A e \in holds : e.mark >= f \/ e.last < f
      PROVE  p[top] >= f
  <2> DEFINE T == {k \in Nat : k <= top => p[k] \in Nat /\ p[k] >= f}
  <2>1. 0 \in T BY <1>1
  <2>2. ASSUME NEW k \in T PROVE k + 1 \in T
    BY <1>1, <1>0, <1>6 DEF Pulled
  <2>3. T = Nat BY <2>1, <2>2, NatSet
  <2> QED BY <2>3
<1> QED BY <1>0, <1>1, <1>5, <1>6

-----------------------------------------------------------------------------
(* The list.                                                               *)

\* Open records and windows that are in the list begin at positions.
LEMMA MarksFacts ==
  ASSUME NEW s, NEW n \in Nat, Shaped(s, n)
  PROVE  Marks(s) \subseteq Nat
BY DEF Shaped, Marks, BufferOK, SpanOK

\* The floor is the last position before everything open that is inside no span.
LEMMA HoldFloorFacts ==
  ASSUME NEW s, NEW n \in Nat, Shaped(s, n), Marks(s) # {}
  PROVE  /\ HoldFloor(s) \in Nat
         /\ \A m \in Marks(s) : HoldFloor(s) <= m
         /\ \A e \in s.holds : e.mark >= HoldFloor(s) \/ e.last < HoldFloor(s)
         /\ \A f \in Nat :
              /\ \A m \in Marks(s) : m >= f
              /\ \A e \in s.holds : e.mark >= f \/ e.last < f
              => HoldFloor(s) >= f
<1> DEFINE top == Min(Marks(s))
<1>1. Marks(s) \subseteq Nat BY MarksFacts
<1>2. top \in Marks(s) /\ \A m \in Marks(s) : top <= m BY <1>1, MinFacts
<1>3. HoldFloor(s) = PullBack(s.holds, top) BY DEF HoldFloor
<1>4. \A e \in s.holds : SpanOK(e, n) BY DEF Shaped
<1>5. top \in Nat BY <1>1, <1>2
<1> HIDE DEF top
<1>6. /\ PullBack(s.holds, top) \in 0 .. top
      /\ \A e \in s.holds : e.mark >= PullBack(s.holds, top) \/ e.last < PullBack(s.holds, top)
      /\ \A f \in 0 .. top :
           (\A e \in s.holds : e.mark >= f \/ e.last < f) => PullBack(s.holds, top) >= f
  BY <1>4, <1>5, PullBackFacts
<1>7. ASSUME NEW f \in Nat, \A m \in Marks(s) : m >= f, \A e \in s.holds : e.mark >= f \/ e.last < f
      PROVE  PullBack(s.holds, top) >= f
  <2>1. f \in 0 .. top BY <1>2, <1>5, <1>7
  <2> QED BY <1>6, <1>7, <2>1
<1> QED BY <1>1, <1>2, <1>3, <1>5, <1>6, <1>7

\* t is s with another list.
Relisted(s, t) ==
  /\ t = [bufs |-> s.bufs, wins |-> s.wins, made |-> s.made, holds |-> t.holds,
          lastTS |-> s.lastTS, rows |-> s.rows, refused |-> s.refused, shed |-> s.shed]

LEMMA RelistedFacts ==
  ASSUME NEW s, NEW t, Relisted(s, t)
  PROVE  /\ t.bufs = s.bufs /\ t.wins = s.wins /\ t.made = s.made /\ t.lastTS = s.lastTS
         /\ t.rows = s.rows /\ t.refused = s.refused /\ t.shed = s.shed
BY DEF Relisted

LEMMA Relist ==
  ASSUME NEW s, NEW n, Shaped(s, n), NEW h
  PROVE  Relisted(s, [s EXCEPT !.holds = h]) /\ [s EXCEPT !.holds = h].holds = h
BY DEF Shaped, Relisted

\* A shorter list that has the entries of the open windows is as good.
LEMMA ThinSound ==
  ASSUME NEW s, NEW n, NEW f, Sound(s, n, f), NEW t, Relisted(s, t), t.holds \subseteq s.holds,
         \A e \in s.holds : Live(s, e) => e \in t.holds
  PROVE  Sound(t, n, f)
<1> USE RelistedFacts
<1>1. Shaped(t, n) BY DEF Sound, Shaped, Relisted
<1>2. Listed(t)
  <2>1. ASSUME NEW w \in s.wins PROVE Entry(w) \in t.holds
    <3>1. Entry(w) \in s.holds BY DEF Sound, Listed
    <3>2. Live(s, Entry(w)) BY DEF Live, Entry
    <3> QED BY <3>1, <3>2
  <2> QED BY <2>1 DEF Sound, Listed
<1>3. Clear(t, f) BY DEF Sound, Clear
<1>4. Apart(t) BY DEF Sound, Apart, Rowed, Windowed
<1> QED BY <1>1, <1>2, <1>3, <1>4 DEF Sound

\* pruneHolds never drops the entry of an open window.
LEMMA PruneSound ==
  ASSUME NEW s, NEW n \in Nat, NEW f, Sound(s, n, f)
  PROVE  Sound(Prune(s), n, f) /\ Relisted(s, Prune(s))
<1>0. Shaped(s, n) /\ Listed(s) BY DEF Sound
<1>1. CASE Cardinality(s.holds) <= 2 * Cardinality(s.wins) + HoldSlack
  <2>1. Prune(s) = s BY <1>1 DEF Prune
  <2>2. Relisted(s, s) BY <1>0 DEF Relisted, Shaped
  <2> QED BY <2>1, <2>2
<1>2. CASE ~(Cardinality(s.holds) <= 2 * Cardinality(s.wins) + HoldSlack)
  <2> DEFINE long == {e \in s.holds : Live(s, e) \/ (e.last >= HoldFloor(s) /\ e.last > e.mark)}
             h == IF HoldFloor(s) = NoHold THEN {} ELSE long
  <2>1. Prune(s) = [s EXCEPT !.holds = h] BY <1>2 DEF Prune
  <2>2. h \subseteq s.holds OBVIOUS
  <2>3. ASSUME NEW e \in s.holds, Live(s, e) PROVE e \in h
    <3>1. e.mark \in Marks(s) BY <2>3 DEF Marks
    <3>2. HoldFloor(s) \in Nat BY <1>0, <3>1, HoldFloorFacts
    <3>3. HoldFloor(s) # NoHold BY <3>2 DEF NoHold
    <3> QED BY <2>3, <3>3
  <2> HIDE DEF h
  <2>4. Relisted(s, Prune(s)) /\ Prune(s).holds = h BY <1>0, <2>1, Relist
  <2> QED BY <2>2, <2>3, <2>4, ThinSound
<1> QED BY <1>1, <1>2

LEMMA AddHoldSound ==
  ASSUME NEW s, NEW n \in Nat, NEW f, NEW e, NEW u, Relisted(s, u),
         [s EXCEPT !.holds = @ \cup {e}] = u, Sound(u, n, f)
  PROVE  Sound(AddHold(s, e), n, f) /\ Relisted(s, AddHold(s, e))
<1>1. AddHold(s, e) = Prune(u) BY DEF AddHold
<1>2. Sound(Prune(u), n, f) /\ Relisted(u, Prune(u)) BY PruneSound
<1>3. Relisted(s, Prune(u)) BY <1>2 DEF Relisted
<1> QED BY <1>1, <1>2, <1>3

\* The span of a record begins where nothing is acknowledged.
LEMMA HoldRecordSound ==
  ASSUME NEW s, NEW n \in Nat, NEW f \in Nat, Sound(s, n, f), NEW b, BufferOK(b, n),
         b.mark >= f, NEW through \in 0 .. n
  PROVE  Sound(HoldRecord(s, b, through), n, f) /\ Relisted(s, HoldRecord(s, b, through))
<1> DEFINE last == Max({b.last, through})
           e == Span(b.mark, last)
           u == [s EXCEPT !.holds = @ \cup {e}]
<1>0. Shaped(s, n) /\ Listed(s) /\ Clear(s, f) /\ Apart(s) BY DEF Sound
<1>1. b.mark \in 1 .. n /\ b.last \in 1 .. n BY DEF BufferOK
<1>2. last \in {b.last, through} /\ last >= b.last /\ last >= through BY <1>1, MaxOfTwo
<1>3. last \in 1 .. n BY <1>1, <1>2
<1>4. CASE last <= b.mark
  <2>1. HoldRecord(s, b, through) = s BY <1>4 DEF HoldRecord
  <2>2. Relisted(s, s) BY <1>0 DEF Relisted, Shaped
  <2> QED BY <2>1, <2>2
<1>5. CASE ~(last <= b.mark)
  <2>1. HoldRecord(s, b, through) = AddHold(s, e) BY <1>5 DEF HoldRecord
  <2> HIDE DEF last
  <2>2. e.mark = b.mark /\ e.born = 0 /\ e.last = last BY DEF Span
  <2> HIDE DEF e
  <2>3. Relisted(s, u) /\ u.holds = s.holds \cup {e} BY <1>0, Relist
  <2> HIDE DEF u
  <2> USE <2>3, RelistedFacts
  <2>4. Shaped(u, n)
    <3>1. SpanOK(e, n) BY <1>1, <1>3, <2>2 DEF SpanOK
    <3> QED BY <1>0, <3>1 DEF Shaped, Relisted
  <2>5. Listed(u)
    <3>1. \A w \in s.wins : e.born # w.born BY <1>0, <2>2 DEF Listed
    <3>2. e.born \in 0 .. s.made BY <1>0, <2>2 DEF Shaped
    <3> QED BY <1>0, <3>1, <3>2 DEF Listed
  <2>6. Clear(u, f) BY <1>0, <2>2 DEF Clear
  <2>7. Apart(u) BY <1>0 DEF Apart, Rowed, Windowed
  <2>8. Sound(u, n, f) BY <2>4, <2>5, <2>6, <2>7 DEF Sound
  <2>9. [s EXCEPT !.holds = @ \cup {e}] = u BY DEF u
  <2> QED BY <2>1, <2>8, <2>9, AddHoldSound
<1> QED BY <1>4, <1>5

-----------------------------------------------------------------------------
(* Windows.                                                                *)

LEMMA Members ==
  ASSUME NEW s
  PROVE  /\ \A x : x \in Rowed(s) <=> \E r \in s.rows : x \in r.from
         /\ \A x : x \in Windowed(s) <=> \E w \in s.wins : x \in w.from
BY DEF Rowed, Windowed

\* The windows that close become rows or nothing, with their lines.
LEMMA EmitSound ==
  ASSUME NEW s, NEW n, NEW f, Sound(s, n, f), NEW gone \in SUBSET s.wins
  PROVE  /\ Sound(Emit(s, gone), n, f)
         /\ Taken(Emit(s, gone)) = Taken(s)
         /\ Emit(s, gone).bufs = s.bufs /\ Emit(s, gone).lastTS = s.lastTS
<1> DEFINE t == Emit(s, gone)
           full == {x \in gone : Measured(x)}
           none == {x \in gone : ~Measured(x)}
<1>0. Shaped(s, n) /\ Listed(s) /\ Clear(s, f) /\ Apart(s) BY DEF Sound
<1>1. /\ t = [bufs |-> s.bufs, wins |-> s.wins \ gone, made |-> s.made, holds |-> s.holds,
              lastTS |-> s.lastTS, rows |-> s.rows \cup {RowOf(w) : w \in full},
              refused |-> s.refused \cup UNION {w.from : w \in none}, shed |-> s.shed]
  <2> DEFINE R == {RowOf(w) : w \in full}
             N == UNION {w.from : w \in none}
  <2>1. t = [s EXCEPT !.wins = @ \ gone, !.rows = @ \cup R, !.refused = @ \cup N] BY DEF Emit
  <2> HIDE DEF R, N, t
  <2>2. /\ t = [bufs |-> s.bufs, wins |-> s.wins \ gone, made |-> s.made, holds |-> s.holds,
                lastTS |-> s.lastTS, rows |-> s.rows \cup R,
                refused |-> s.refused \cup N, shed |-> s.shed]
    BY <1>0, <2>1 DEF Shaped
  <2> QED BY <2>2 DEF R, N
<1>2. /\ t.bufs = s.bufs /\ t.wins = s.wins \ gone /\ t.made = s.made /\ t.holds = s.holds
      /\ t.lastTS = s.lastTS /\ t.rows = s.rows \cup {RowOf(w) : w \in full}
      /\ t.refused = s.refused \cup UNION {w.from : w \in none}
      /\ t = [bufs |-> t.bufs, wins |-> t.wins, made |-> t.made, holds |-> t.holds,
              lastTS |-> t.lastTS, rows |-> t.rows, refused |-> t.refused, shed |-> t.shed]
  BY <1>1
<1> HIDE DEF t
<1>3. Shaped(t, n) BY <1>0, <1>2 DEF Shaped
<1>4. Listed(t) BY <1>0, <1>2 DEF Listed
<1>5. Clear(t, f) BY <1>0, <1>2 DEF Clear
<1>6. full \cup none = gone /\ full \cap none = {} /\ gone \subseteq s.wins OBVIOUS
<1> HIDE DEF full, none
<1>7. \A r : r \in t.rows <=> r \in s.rows \/ \E w \in full : r = RowOf(w) BY <1>2
<1>8. \A w : RowOf(w).from = w.from BY DEF RowOf
<1>9. \A x : x \in t.refused <=> x \in s.refused \/ \E w \in none : x \in w.from BY <1>2
<1>10. \A x : x \in Rowed(t) <=> x \in Rowed(s) \/ \E w \in full : x \in w.from
  BY <1>7, <1>8, Members
<1>11. \A x : x \in Windowed(t) <=> \E w \in s.wins \ gone : x \in w.from BY <1>2, Members
<1>12. \A x : x \in Windowed(s) <=> \E w \in s.wins : x \in w.from BY Members
<1>13. Apart(t)
  <2>1. \A v, w \in s.wins : v # w => v.from \cap w.from = {} BY <1>0 DEF Apart
  <2>2. \A v, w \in s.wins : \A x : x \in v.from /\ x \in w.from => v = w BY <2>1
  <2>3. \A x : ~(x \in s.refused /\ x \in Rowed(s)) /\ ~(x \in s.refused /\ x \in Windowed(s))
    BY <1>0 DEF Apart
  <2>4. \A x : ~(x \in Rowed(s) /\ x \in Windowed(s)) BY <1>0 DEF Apart
  <2>5. t.refused \cap Rowed(t) = {} BY <1>6, <1>9, <1>10, <1>12, <2>2, <2>3, <2>4
  <2>6. t.refused \cap Windowed(t) = {} BY <1>6, <1>9, <1>11, <1>12, <2>2, <2>3
  <2>7. Rowed(t) \cap Windowed(t) = {} BY <1>6, <1>10, <1>11, <1>12, <2>2, <2>4
  <2>8. ASSUME NEW a \in t.rows, NEW b \in t.rows, a # b PROVE a.from \cap b.from = {}
    <3>1. CASE a \in s.rows /\ b \in s.rows BY <1>0, <2>8, <3>1 DEF Apart
    <3>2. CASE a \in s.rows /\ b \notin s.rows
      <4>1. PICK w \in full : b = RowOf(w) BY <1>7, <3>2
      <4>2. \A x : x \in b.from => x \in Windowed(s) BY <1>6, <1>8, <1>12, <4>1
      <4>3. \A x : x \in a.from => x \in Rowed(s) BY <3>2, Members
      <4> QED BY <4>2, <4>3, <2>4
    <3>3. CASE a \notin s.rows /\ b \in s.rows
      <4>1. PICK w \in full : a = RowOf(w) BY <1>7, <3>3
      <4>2. \A x : x \in a.from => x \in Windowed(s) BY <1>6, <1>8, <1>12, <4>1
      <4>3. \A x : x \in b.from => x \in Rowed(s) BY <3>3, Members
      <4> QED BY <4>2, <4>3, <2>4
    <3>4. CASE a \notin s.rows /\ b \notin s.rows
      <4>1. PICK v \in full : a = RowOf(v) BY <1>7, <3>4
      <4>2. PICK w \in full : b = RowOf(w) BY <1>7, <3>4
      <4>3. v \in s.wins /\ w \in s.wins /\ v # w BY <1>6, <2>8, <4>1, <4>2
      <4> QED BY <1>8, <2>1, <4>1, <4>2, <4>3
    <3> QED BY <3>1, <3>2, <3>3, <3>4
  <2>9. \A v, w \in t.wins : v # w => v.from \cap w.from = {} BY <1>2, <2>1
  <2> QED BY <2>5, <2>6, <2>7, <2>8, <2>9 DEF Apart
<1>14. Taken(t) = Taken(s)
  <2>1. \A x : x \in Taken(t) <=> x \in Taken(s)
    BY <1>6, <1>9, <1>10, <1>11, <1>12 DEF Taken
  <2> QED BY <2>1 DEF Taken
<1>15. Sound(t, n, f) BY <1>3, <1>4, <1>5, <1>13 DEF Sound
<1> QED BY <1>2, <1>14, <1>15 DEF t

LEMMA CloseExpiredSound ==
  ASSUME NEW s, NEW n, NEW f, Sound(s, n, f), NEW now
  PROVE  /\ Sound(CloseExpired(s, now), n, f)
         /\ Taken(CloseExpired(s, now)) = Taken(s)
         /\ CloseExpired(s, now).bufs = s.bufs /\ CloseExpired(s, now).lastTS = s.lastTS
<1> DEFINE gone == {w \in s.wins : w.end <= now}
<1>1. gone \in SUBSET s.wins OBVIOUS
<1>2. CloseExpired(s, now) = s \/ CloseExpired(s, now) = Emit(s, gone) BY DEF CloseExpired
<1> HIDE DEF gone
<1> QED BY <1>1, <1>2, EmitSound

\* Of windows there is one that ends first, and of those one that is first by its key.
LEMMA FirstWindow ==
  ASSUME NEW W, W # {}, \A w \in W : w.end \in Nat /\ w.rank \in Nat
  PROVE  \E w \in W : \A x \in W : w.end < x.end \/ (w.end = x.end /\ w.rank <= x.rank)
<1>1. \A w \in W : w.end \in Nat /\ w.rank \in Nat OBVIOUS
<1> DEFINE ends == {w.end : w \in W}
<1>2. ends \subseteq Nat /\ ends # {} BY <1>1
<1>3. PICK e \in ends : \A k \in ends : e <= k BY <1>2, NatLeast
<1> DEFINE ranks == {w.rank : w \in {x \in W : x.end = e}}
<1>4. ranks \subseteq Nat /\ ranks # {} BY <1>1, <1>3
<1>5. PICK r \in ranks : \A k \in ranks : r <= k BY <1>4, NatLeast
<1>6. PICK w \in W : w.end = e /\ w.rank = r BY <1>5
<1>7. ASSUME NEW x \in W PROVE w.end < x.end \/ (w.end = x.end /\ w.rank <= x.rank)
  <2>1. w.end <= x.end BY <1>3, <1>6
  <2>2. x.end = e => x.rank \in ranks OBVIOUS
  <2> QED BY <1>1, <1>5, <1>6, <2>1, <2>2
<1> QED BY <1>7

\* Shedding closes a window that is open.
LEMMA ShedOldestSound ==
  ASSUME NEW s, NEW n, NEW f, Sound(s, n, f)
  PROVE  /\ Sound(ShedOldest(s), n, f)
         /\ Taken(ShedOldest(s)) = Taken(s)
         /\ ShedOldest(s).bufs = s.bufs /\ ShedOldest(s).lastTS = s.lastTS
<1>1. CASE Cardinality(s.wins) <= MaxOpen BY <1>1 DEF ShedOldest
<1>2. CASE ~(Cardinality(s.wins) <= MaxOpen)
  <2> DEFINE first == CHOOSE w \in s.wins : \A x \in s.wins :
                        w.end < x.end \/ (w.end = x.end /\ w.rank <= x.rank)
             u == Emit(s, {first})
             t == [u EXCEPT !.shed = @ + 1]
  <2>1. s.wins # {}
    <3>1. Cardinality({}) = 0 BY FS_EmptySet
    <3>2. MaxOpen \in Nat BY ExtractAssumption
    <3>3. 0 <= MaxOpen BY <3>2
    <3> QED BY <1>2, <3>1, <3>3
  <2>2. first \in s.wins
    <3>1. \A w \in s.wins : w.end \in Nat /\ w.rank \in Nat BY DEF Sound, Shaped, WindowOK
    <3> QED BY <2>1, <3>1, FirstWindow
  <2>3. ShedOldest(s) = t BY <1>2 DEF ShedOldest
  <2> HIDE DEF first
  <2>4. {first} \in SUBSET s.wins BY <2>2
  <2>5. Sound(u, n, f) /\ Taken(u) = Taken(s) /\ u.bufs = s.bufs /\ u.lastTS = s.lastTS
    BY <2>4, EmitSound
  <2> HIDE DEF u
  <2>6. /\ t.bufs = u.bufs /\ t.wins = u.wins /\ t.made = u.made /\ t.holds = u.holds
        /\ t.lastTS = u.lastTS /\ t.rows = u.rows /\ t.refused = u.refused
        /\ t = [bufs |-> t.bufs, wins |-> t.wins, made |-> t.made, holds |-> t.holds,
                lastTS |-> t.lastTS, rows |-> t.rows, refused |-> t.refused, shed |-> t.shed]
    BY <2>5 DEF Sound, Shaped
  <2> HIDE DEF t
  <2>7. Shaped(t, n) /\ Listed(t) /\ Clear(t, f) BY <2>5, <2>6 DEF Sound, Shaped, Listed, Clear
  <2>8. Rowed(t) = Rowed(u) /\ Windowed(t) = Windowed(u) BY <2>6 DEF Rowed, Windowed
  <2>9. Apart(t) /\ Taken(t) = Taken(u) BY <2>5, <2>6, <2>8 DEF Sound, Apart, Taken
  <2> QED BY <2>3, <2>5, <2>6, <2>7, <2>9 DEF Sound
<1> QED BY <1>1, <1>2

\* A window takes the lines of those it replaces, and lines that nothing has yet.
Gathers(g, D, from) == \A x : x \in g.from <=> x \in from \/ \E d \in D : x \in d.from

LEMMA JoinApart ==
  ASSUME NEW s, Apart(s), NEW t, NEW D \in SUBSET s.wins, NEW g, NEW from,
         from \cap Taken(s) = {},
         Gathers(g, D, from),
         t.wins = (s.wins \ D) \cup {g}, t.rows = s.rows, t.refused = s.refused
  PROVE  Apart(t) /\ Taken(t) = Taken(s) \cup from
<1>1. \A v, w \in s.wins : v # w => v.from \cap w.from = {} BY DEF Apart
<1>2. \A v, w \in s.wins : \A x : x \in v.from /\ x \in w.from => v = w BY <1>1
<1>3. \A x : x \in Windowed(t) <=> (x \in g.from \/ \E w \in s.wins \ D : x \in w.from)
  BY Members
<1>4. \A x : x \in Windowed(s) <=> \E w \in s.wins : x \in w.from BY Members
<1>5. \A x : x \in Windowed(t) <=> x \in Windowed(s) \/ x \in from BY <1>3, <1>4 DEF Gathers
<1>6. Rowed(t) = Rowed(s) BY DEF Rowed
<1>7. Taken(t) = Taken(s) \cup from BY <1>5, <1>6 DEF Taken
<1>8. \A x \in from : x \notin s.refused /\ x \notin Rowed(s) /\ x \notin Windowed(s) BY DEF Taken
<1>9. ASSUME NEW w \in s.wins \ D PROVE g.from \cap w.from = {} /\ w.from \cap g.from = {}
  <2>1. \A x : x \in w.from => x \in Windowed(s) BY <1>4
  <2>2. \A x : x \in w.from => x \notin g.from BY <1>2, <1>8, <2>1 DEF Gathers
  <2> QED BY <2>2
<1>10. \A v, w \in t.wins : v # w => v.from \cap w.from = {} BY <1>1, <1>9
<1>11. t.refused \cap Windowed(t) = {} /\ Rowed(t) \cap Windowed(t) = {}
  BY <1>5, <1>6, <1>8 DEF Apart
<1> QED BY <1>6, <1>7, <1>10, <1>11 DEF Apart

\* t is s after a record was processed: what it was made of is taken.
Took(s, t, n, f, from) ==
  Sound(t, n, f) /\ Taken(t) = Taken(s) \cup from /\ t.bufs = s.bufs /\ t.lastTS = s.lastTS

\* A record that may be processed: it begins at mark and nothing has its lines.
Fresh(s, n, f, line, ts, mark, from) ==
  /\ Sound(s, n, f) /\ line \in LineType /\ ts \in Nat
  /\ mark \in 1 .. n /\ mark >= f /\ from \cap Taken(s) = {}
  /\ Within(from, mark, n)

\* A record that reaches an open window: the entry of the window follows it.
LEMMA FoldIntoSound ==
  ASSUME NEW s, NEW n \in Nat, NEW f \in Nat, NEW line, NEW ts, NEW mark, NEW from,
         Fresh(s, n, f, line, ts, mark, from), NEW w \in s.wins
  PROVE  Took(s, FoldInto(s, w, line, mark, from), n, f, from)
<1> DEFINE high == Max({w.last, mark})
           low == Min({w.mark, mark})
           g == [w EXCEPT !.last = Max({@, mark}), !.mark = Min({@, mark}), !.from = @ \cup from,
                          !.val = Folded(w, line), !.has = IF line.has = "yes" THEN "yes" ELSE @]
           u == [s EXCEPT !.wins = (@ \ {w}) \cup {g}]
           mine == {e \in u.holds : e.key = g.key /\ e.born = g.born}
           others == [u EXCEPT !.holds = @ \ mine]
           v == [others EXCEPT !.holds = @ \cup {Entry(g)}]
<1>0. /\ Shaped(s, n) /\ Listed(s) /\ Clear(s, f) /\ Apart(s)
      /\ mark \in 1 .. n /\ mark >= f /\ from \cap Taken(s) = {} /\ Within(from, mark, n)
  BY DEF Fresh, Sound
<1>1. WindowOK(w, n) BY <1>0 DEF Shaped
<1>2. /\ high \in 1 .. n /\ low \in 1 .. n /\ low >= f
  <2>1. w.mark \in 1 .. n /\ w.last \in 1 .. n BY <1>1 DEF WindowOK
  <2>2. high \in {w.last, mark} /\ low \in {w.mark, mark} BY <1>0, <2>1, MinOfTwo, MaxOfTwo
  <2>3. w.mark >= f BY <1>0 DEF Clear
  <2> QED BY <1>0, <2>1, <2>2, <2>3
<1>3. /\ g.key = w.key /\ g.born = w.born /\ g.rank = w.rank /\ g.end = w.end
      /\ g.last = high /\ g.mark = low /\ g.from = w.from \cup from
      /\ g = [key |-> g.key, rank |-> g.rank, mode |-> g.mode, born |-> g.born, start |-> g.start,
              end |-> g.end, val |-> g.val, has |-> g.has, mark |-> g.mark, last |-> g.last,
              from |-> g.from]
  <2> DEFINE val == Folded(w, line)
             has == IF line.has = "yes" THEN "yes" ELSE w.has
  <2>1. g = [w EXCEPT !.last = high, !.mark = low, !.from = @ \cup from, !.val = val, !.has = has]
    OBVIOUS
  <2> HIDE DEF g, high, low, val, has
  <2>2. /\ w = [key |-> w.key, rank |-> w.rank, mode |-> w.mode, born |-> w.born, start |-> w.start,
                end |-> w.end, val |-> w.val, has |-> w.has, mark |-> w.mark, last |-> w.last,
                from |-> w.from]
    BY <1>1 DEF WindowOK
  <2> QED BY <2>1, <2>2
<1>4. FoldInto(s, w, line, mark, from) = Rehold(u, g) BY DEF FoldInto
<1>5. Rehold(u, g) = v \/ Rehold(u, g) = Prune(v) BY DEF Rehold, AddHold
<1>6. WindowOK(g, n)
  <2>1. low <= w.mark /\ low <= mark BY <1>0, <1>1, MinOfTwo DEF WindowOK
  <2>2. w.mark \in 1 .. n /\ Within(w.from, w.mark, n) BY <1>1 DEF WindowOK
  <2> HIDE DEF g, high, low
  <2>3. Within(g.from, low, n) BY <1>0, <1>2, <1>3, <2>1, <2>2 DEF Within
  <2> QED BY <1>1, <1>2, <1>3, <2>3 DEF WindowOK
<1> HIDE DEF g, high, low
<1>7. /\ u = [bufs |-> s.bufs, wins |-> (s.wins \ {w}) \cup {g}, made |-> s.made, holds |-> s.holds,
              lastTS |-> s.lastTS, rows |-> s.rows, refused |-> s.refused, shed |-> s.shed]
  BY <1>0 DEF Shaped
<1>8. mine = {e \in s.holds : e.key = w.key /\ e.born = w.born} BY <1>3, <1>7
<1> HIDE DEF u, mine
<1>9. /\ v = [bufs |-> s.bufs, wins |-> (s.wins \ {w}) \cup {g}, made |-> s.made,
              holds |-> (s.holds \ mine) \cup {Entry(g)},
              lastTS |-> s.lastTS, rows |-> s.rows, refused |-> s.refused, shed |-> s.shed]
  <2>1. /\ others = [bufs |-> s.bufs, wins |-> (s.wins \ {w}) \cup {g}, made |-> s.made,
                     holds |-> s.holds \ mine,
                     lastTS |-> s.lastTS, rows |-> s.rows, refused |-> s.refused, shed |-> s.shed]
    BY <1>7
  <2> HIDE DEF others
  <2> QED BY <2>1
<1>10. /\ v.bufs = s.bufs /\ v.wins = (s.wins \ {w}) \cup {g} /\ v.made = s.made
       /\ v.holds = (s.holds \ mine) \cup {Entry(g)} /\ v.lastTS = s.lastTS
       /\ v.rows = s.rows /\ v.refused = s.refused
       /\ v = [bufs |-> v.bufs, wins |-> v.wins, made |-> v.made, holds |-> v.holds,
               lastTS |-> v.lastTS, rows |-> v.rows, refused |-> v.refused, shed |-> v.shed]
  BY <1>9
<1> HIDE DEF v
<1>11. \A x : /\ Entry(x).mark = x.mark /\ Entry(x).last = x.last
              /\ Entry(x).key = x.key /\ Entry(x).born = x.born
  BY DEF Entry
<1>12. Shaped(v, n)
  <2>1. SpanOK(Entry(g), n) BY <1>6, <1>11 DEF SpanOK, WindowOK
  <2> QED BY <1>0, <1>6, <1>10, <2>1 DEF Shaped
<1>13. Listed(v)
  <2>1. \A x \in s.wins \ {w} : x.born # w.born BY <1>0 DEF Listed
  <2>2. \A x \in v.wins : Entry(x) \in v.holds
    <3>1. ASSUME NEW x \in s.wins \ {w} PROVE Entry(x) \in s.holds \ mine
      BY <1>0, <1>8, <1>11, <2>1 DEF Listed
    <3> QED BY <1>10, <3>1
  <2>3. ASSUME NEW e \in v.holds, NEW x \in v.wins, e.key = x.key, e.born = x.born
        PROVE  e = Entry(x)
    <3>1. CASE e \in s.holds \ mine /\ x \in s.wins \ {w} BY <1>0, <2>3, <3>1 DEF Listed
    <3>2. CASE e \in s.holds \ mine /\ x = g BY <1>3, <1>8, <2>3, <3>2
    <3>3. CASE e = Entry(g) /\ x \in s.wins \ {w} BY <1>3, <1>11, <2>1, <2>3, <3>3
    <3>4. CASE e = Entry(g) /\ x = g BY <3>4
    <3> QED BY <1>10, <3>1, <3>2, <3>3, <3>4
  <2>4. \A x, y \in v.wins : x.born = y.born => x = y BY <1>0, <1>3, <1>10, <2>1 DEF Listed
  <2>5. \A x \in v.wins : x.born \in 1 .. v.made BY <1>0, <1>3, <1>10 DEF Listed
  <2>6. \A e \in v.holds : e.born \in 0 .. v.made
    <3>1. Entry(g).born \in 1 .. s.made BY <1>0, <1>3, <1>11 DEF Listed
    <3>2. Entry(g).born \in 0 .. s.made BY <1>0, <3>1 DEF Shaped
    <3> QED BY <1>0, <1>10, <3>2 DEF Listed
  <2> QED BY <2>2, <2>3, <2>4, <2>5, <2>6 DEF Listed
<1>14. Clear(v, f) BY <1>0, <1>2, <1>3, <1>10, <1>11 DEF Clear
<1>15. Apart(v) /\ Taken(v) = Taken(s) \cup from
  <2>1. Gathers(g, {w}, from) BY <1>3 DEF Gathers
  <2>2. {w} \in SUBSET s.wins OBVIOUS
  <2> QED BY <1>0, <1>10, <2>1, <2>2, JoinApart
<1>16. Sound(v, n, f) BY <1>12, <1>13, <1>14, <1>15 DEF Sound
<1>17. Sound(Prune(v), n, f) /\ Relisted(v, Prune(v)) BY <1>16, PruneSound
<1>18. Taken(Prune(v)) = Taken(v) /\ Prune(v).bufs = v.bufs /\ Prune(v).lastTS = v.lastTS
  BY <1>17, RelistedFacts DEF Taken, Rowed, Windowed
<1> QED BY <1>4, <1>5, <1>10, <1>15, <1>16, <1>17, <1>18 DEF Took

LEMMA OpenWindowSound ==
  ASSUME NEW s, NEW n \in Nat, NEW f \in Nat, NEW line, NEW ts, NEW mark, NEW from,
         Fresh(s, n, f, line, ts, mark, from)
  PROVE  Took(s, OpenWindow(s, line, ts, mark, from), n, f, from)
<1> DEFINE val == IF line.mode = "increment" THEN 1
                  ELSE IF line.has = "yes" THEN line.val ELSE 0
           has == IF line.mode = "increment" THEN "yes" ELSE line.has
           w == [key |-> line.key, rank |-> line.rank, mode |-> line.mode, born |-> s.made + 1,
                 start |-> ts, end |-> ts + Every, val |-> val, has |-> has,
                 mark |-> mark, last |-> mark, from |-> from]
           u == [s EXCEPT !.wins = @ \cup {w}, !.made = @ + 1]
           v == [u EXCEPT !.holds = @ \cup {Entry(w)}]
<1>0. /\ Shaped(s, n) /\ Listed(s) /\ Clear(s, f) /\ Apart(s)
      /\ line \in LineType /\ ts \in Nat /\ mark \in 1 .. n /\ mark >= f
      /\ from \cap Taken(s) = {} /\ s.made \in Nat /\ Within(from, mark, n)
  BY DEF Fresh, Sound, Shaped
<1>1. OpenWindow(s, line, ts, mark, from) = ShedOldest(Prune(v)) BY DEF OpenWindow, AddHold
<1> HIDE DEF val, has
<1>2. Every \in Nat BY ExtractAssumption
<1>3. line.rank \in Nat BY <1>0 DEF LineType
<1>4. /\ WindowOK(w, n) /\ w.mark = mark /\ w.last = mark /\ w.from = from /\ w.born = s.made + 1
  BY <1>0, <1>2, <1>3 DEF WindowOK
<1> HIDE DEF w
<1>5. /\ u = [bufs |-> s.bufs, wins |-> s.wins \cup {w}, made |-> s.made + 1, holds |-> s.holds,
              lastTS |-> s.lastTS, rows |-> s.rows, refused |-> s.refused, shed |-> s.shed]
  <2> DEFINE more == s.made + 1
             all == s.wins \cup {w}
  <2>1. u = [s EXCEPT !.wins = all, !.made = more] OBVIOUS
  <2> HIDE DEF more, all, u
  <2>2. /\ u = [bufs |-> s.bufs, wins |-> all, made |-> more, holds |-> s.holds,
                lastTS |-> s.lastTS, rows |-> s.rows, refused |-> s.refused, shed |-> s.shed]
    BY <1>0, <2>1 DEF Shaped
  <2> QED BY <2>2 DEF more, all
<1> HIDE DEF u
<1>6. /\ v = [bufs |-> s.bufs, wins |-> s.wins \cup {w}, made |-> s.made + 1,
              holds |-> s.holds \cup {Entry(w)},
              lastTS |-> s.lastTS, rows |-> s.rows, refused |-> s.refused, shed |-> s.shed]
  BY <1>5
<1> HIDE DEF v
<1>7. /\ v.bufs = s.bufs /\ v.wins = s.wins \cup {w} /\ v.made = s.made + 1
      /\ v.holds = s.holds \cup {Entry(w)} /\ v.lastTS = s.lastTS
      /\ v.rows = s.rows /\ v.refused = s.refused
      /\ v = [bufs |-> v.bufs, wins |-> v.wins, made |-> v.made, holds |-> v.holds,
              lastTS |-> v.lastTS, rows |-> v.rows, refused |-> v.refused, shed |-> v.shed]
  BY <1>6
<1>8. \A x : /\ Entry(x).mark = x.mark /\ Entry(x).last = x.last
             /\ Entry(x).key = x.key /\ Entry(x).born = x.born
  BY DEF Entry
<1>9. Shaped(v, n)
  <2>1. SpanOK(Entry(w), n) BY <1>4, <1>8 DEF SpanOK, WindowOK
  <2> QED BY <1>0, <1>4, <1>7, <2>1 DEF Shaped
<1>10. Listed(v)
  <2>1. \A x \in s.wins : x.born \in 1 .. s.made BY <1>0 DEF Listed
  <2>2. \A e \in s.holds : e.born \in 0 .. s.made BY <1>0 DEF Listed
  <2>3. \A x \in v.wins : Entry(x) \in v.holds BY <1>0, <1>7 DEF Listed
  <2>4. ASSUME NEW e \in v.holds, NEW x \in v.wins, e.key = x.key, e.born = x.born
        PROVE  e = Entry(x)
    <3>1. CASE e \in s.holds /\ x \in s.wins BY <1>0, <2>4, <3>1 DEF Listed
    <3>2. CASE e \in s.holds /\ x = w BY <1>0, <1>4, <2>2, <2>4, <3>2
    <3>3. CASE e = Entry(w) /\ x \in s.wins BY <1>0, <1>4, <1>8, <2>1, <2>4, <3>3
    <3>4. CASE e = Entry(w) /\ x = w BY <3>4
    <3> QED BY <1>7, <3>1, <3>2, <3>3, <3>4
  <2>5. \A x, y \in v.wins : x.born = y.born => x = y BY <1>0, <1>4, <1>7, <2>1 DEF Listed
  <2>6. \A x \in v.wins : x.born \in 1 .. v.made BY <1>0, <1>4, <1>7, <2>1
  <2>7. \A e \in v.holds : e.born \in 0 .. v.made BY <1>0, <1>4, <1>7, <1>8, <2>2
  <2> QED BY <2>3, <2>4, <2>5, <2>6, <2>7 DEF Listed
<1>11. Clear(v, f) BY <1>0, <1>4, <1>7, <1>8 DEF Clear
<1>12. Apart(v) /\ Taken(v) = Taken(s) \cup from
  <2>1. Gathers(w, {}, from) BY <1>4 DEF Gathers
  <2>2. {} \in SUBSET s.wins /\ v.wins = (s.wins \ {}) \cup {w} BY <1>7
  <2> QED BY <1>0, <1>7, <2>1, <2>2, JoinApart
<1>13. Sound(v, n, f) BY <1>9, <1>10, <1>11, <1>12 DEF Sound
<1>14. Sound(Prune(v), n, f) /\ Relisted(v, Prune(v)) BY <1>13, PruneSound
<1>15. Taken(Prune(v)) = Taken(v) /\ Prune(v).bufs = v.bufs /\ Prune(v).lastTS = v.lastTS
  BY <1>14, RelistedFacts DEF Taken, Rowed, Windowed
<1> QED BY <1>1, <1>7, <1>12, <1>14, <1>15, ShedOldestSound DEF Took

LEMMA RefuseSound ==
  ASSUME NEW s, NEW n, NEW f, Sound(s, n, f), NEW from, from \cap Taken(s) = {}
  PROVE  Took(s, Refuse(s, from), n, f, from)
<1> DEFINE t == Refuse(s, from)
<1>0. Shaped(s, n) /\ Listed(s) /\ Clear(s, f) /\ Apart(s) BY DEF Sound
<1>1. /\ t.bufs = s.bufs /\ t.wins = s.wins /\ t.made = s.made /\ t.holds = s.holds
      /\ t.lastTS = s.lastTS /\ t.rows = s.rows /\ t.refused = s.refused \cup from
      /\ t = [bufs |-> t.bufs, wins |-> t.wins, made |-> t.made, holds |-> t.holds,
              lastTS |-> t.lastTS, rows |-> t.rows, refused |-> t.refused, shed |-> t.shed]
  BY <1>0 DEF Shaped, Refuse
<1> HIDE DEF t
<1>2. Shaped(t, n) /\ Listed(t) /\ Clear(t, f) BY <1>0, <1>1 DEF Shaped, Listed, Clear
<1>3. Rowed(t) = Rowed(s) /\ Windowed(t) = Windowed(s) BY <1>1 DEF Rowed, Windowed
<1>4. Apart(t) /\ Taken(t) = Taken(s) \cup from BY <1>0, <1>1, <1>3 DEF Apart, Taken
<1>5. Sound(t, n, f) BY <1>2, <1>4 DEF Sound
<1>6. Took(s, t, n, f, from) BY <1>1, <1>4, <1>5 DEF Took
<1> QED BY <1>6 DEF t

LEMMA AggregateSound ==
  ASSUME NEW s, NEW n \in Nat, NEW f \in Nat, NEW line, NEW ts, NEW mark, NEW from,
         Fresh(s, n, f, line, ts, mark, from)
  PROVE  Took(s, Aggregate(s, line, ts, mark, from), n, f, from)
<1> DEFINE open == {w \in s.wins : w.key = line.key}
           w == CHOOSE w \in open : TRUE
<1>0. Sound(s, n, f) /\ from \cap Taken(s) = {} BY DEF Fresh
<1>1. \/ Aggregate(s, line, ts, mark, from) = Refuse(s, from)
      \/ Aggregate(s, line, ts, mark, from) = OpenWindow(s, line, ts, mark, from)
      \/ open # {} /\ Aggregate(s, line, ts, mark, from) = FoldInto(s, w, line, mark, from)
  BY DEF Aggregate
<1>2. open # {} => w \in s.wins OBVIOUS
<1> HIDE DEF open, w
<1>3. Took(s, Refuse(s, from), n, f, from) BY <1>0, RefuseSound
<1>4. Took(s, OpenWindow(s, line, ts, mark, from), n, f, from) BY OpenWindowSound
<1>5. ASSUME w \in s.wins PROVE Took(s, FoldInto(s, w, line, mark, from), n, f, from)
  BY <1>5, FoldIntoSound
<1> QED BY <1>1, <1>2, <1>3, <1>4, <1>5

\* A row that is not aggregated has the lines of its record.
LEMMA PlainSound ==
  ASSUME NEW s, NEW n, NEW f, Sound(s, n, f), NEW row, row.from \cap Taken(s) = {}
  PROVE  Took(s, [s EXCEPT !.rows = @ \cup {row}], n, f, row.from)
<1> DEFINE t == [s EXCEPT !.rows = @ \cup {row}]
<1>0. Shaped(s, n) /\ Listed(s) /\ Clear(s, f) /\ Apart(s) BY DEF Sound
<1>1. /\ t.bufs = s.bufs /\ t.wins = s.wins /\ t.made = s.made /\ t.holds = s.holds
      /\ t.lastTS = s.lastTS /\ t.rows = s.rows \cup {row} /\ t.refused = s.refused
      /\ t = [bufs |-> t.bufs, wins |-> t.wins, made |-> t.made, holds |-> t.holds,
              lastTS |-> t.lastTS, rows |-> t.rows, refused |-> t.refused, shed |-> t.shed]
  BY <1>0 DEF Shaped
<1> HIDE DEF t
<1>2. Shaped(t, n) /\ Listed(t) /\ Clear(t, f) BY <1>0, <1>1 DEF Shaped, Listed, Clear
<1>3. Windowed(t) = Windowed(s) BY <1>1 DEF Windowed
<1>4. \A x : x \in Rowed(t) <=> x \in Rowed(s) \/ x \in row.from BY <1>1, Members
<1>5. Taken(t) = Taken(s) \cup row.from BY <1>1, <1>3, <1>4 DEF Taken
<1>6. \A r \in s.rows : \A x \in r.from : x \in Rowed(s) BY Members
<1>7. \A x \in row.from : x \notin s.refused /\ x \notin Rowed(s) /\ x \notin Windowed(s)
  BY DEF Taken
<1>8. \A x, y \in t.rows : x # y => x.from \cap y.from = {}
  <2>1. \A r \in s.rows : r.from \cap row.from = {} /\ row.from \cap r.from = {} BY <1>6, <1>7
  <2> QED BY <1>0, <1>1, <2>1 DEF Apart
<1>9. Apart(t) BY <1>0, <1>1, <1>3, <1>4, <1>7, <1>8 DEF Apart
<1>10. Sound(t, n, f) BY <1>2, <1>9 DEF Sound
<1>11. Took(s, t, n, f, row.from) BY <1>1, <1>5, <1>10 DEF Took
<1> QED BY <1>11 DEF t

\* The pattern stage takes the lines of the record and moves no others.
LEMMA ProcessAtSound ==
  ASSUME NEW s, NEW n \in Nat, NEW f \in Nat, NEW line, NEW ts, NEW mark, NEW from,
         Fresh(s, n, f, line, ts, mark, from)
  PROVE  Took(s, ProcessAt(s, line, ts, mark, from), n, f, from)
<1> DEFINE c == CloseExpired(s, ts)
           row == [ts |-> ts, key |-> "", mode |-> "plain", val |-> line.val, from |-> from]
<1>0. Sound(s, n, f) /\ from \cap Taken(s) = {} BY DEF Fresh
<1>1. Sound(c, n, f) /\ Taken(c) = Taken(s) /\ c.bufs = s.bufs /\ c.lastTS = s.lastTS
  BY <1>0, CloseExpiredSound
<1>2. \/ ProcessAt(s, line, ts, mark, from) = Refuse(s, from)
      \/ ProcessAt(s, line, ts, mark, from) = [c EXCEPT !.rows = @ \cup {row}]
      \/ ProcessAt(s, line, ts, mark, from) = Aggregate(c, line, ts, mark, from)
  BY DEF ProcessAt
<1>3. row.from = from OBVIOUS
<1> HIDE DEF c, row
<1>4. Took(s, Refuse(s, from), n, f, from) BY <1>0, RefuseSound
<1>5. Took(c, [c EXCEPT !.rows = @ \cup {row}], n, f, from) BY <1>0, <1>1, <1>3, PlainSound
<1>6. Fresh(c, n, f, line, ts, mark, from) BY <1>1 DEF Fresh
<1>7. Took(c, Aggregate(c, line, ts, mark, from), n, f, from) BY <1>6, AggregateSound
<1>8. \A t : Took(c, t, n, f, from) => Took(s, t, n, f, from) BY <1>1 DEF Took
<1> QED BY <1>2, <1>4, <1>5, <1>7, <1>8

-----------------------------------------------------------------------------
(* Records that are open.                                                  *)

LEMMA JoiningMembers ==
  ASSUME NEW s
  PROVE  \A x : x \in Joining(s) <=> \E r \in DOMAIN s.bufs : x \in s.bufs[r].from
BY DEF Joining

LEMMA WaitingFacts ==
  ASSUME NEW s, NEW m \in Nat, Waiting(s, m)
  PROVE  /\ \A x, y \in DOMAIN s.bufs : \A k : k \in s.bufs[x].from /\ k \in s.bufs[y].from => x = y
         /\ \A k : ~(k \in Taken(s) /\ k \in Joining(s))
         /\ \A k : k \in Taken(s) \/ k \in Joining(s) <=> k \in 1 .. m
         /\ m + 1 \notin Taken(s) /\ m + 1 \notin Joining(s)
<1>1. \A k : k \in Taken(s) \/ k \in Joining(s) <=> k \in 1 .. m BY DEF Waiting
<1>2. m + 1 \notin 1 .. m OBVIOUS
<1>3. \A x, y \in DOMAIN s.bufs : \A k : k \in s.bufs[x].from /\ k \in s.bufs[y].from => x = y
  BY DEF Waiting
<1>4. \A k : ~(k \in Taken(s) /\ k \in Joining(s)) BY DEF Waiting
<1> QED BY <1>1, <1>2, <1>3, <1>4

LEMMA WaitingFrom ==
  ASSUME NEW s, NEW m,
         \A x, y \in DOMAIN s.bufs : \A k : k \in s.bufs[x].from /\ k \in s.bufs[y].from => x = y,
         \A k : ~(k \in Taken(s) /\ k \in Joining(s)),
         \A k : k \in Taken(s) \/ k \in Joining(s) <=> k \in 1 .. m
  PROVE  Waiting(s, m)
<1>1. Taken(s) \cap Joining(s) = {} OBVIOUS
<1>2. Taken(s) \cup Joining(s) = 1 .. m OBVIOUS
<1>3. \A x, y \in DOMAIN s.bufs : x # y => s.bufs[x].from \cap s.bufs[y].from = {} OBVIOUS
<1> QED BY <1>1, <1>2, <1>3 DEF Waiting

\* The lines of a record that is closed are taken.
LEMMA CloseWaiting ==
  ASSUME NEW s, NEW m \in Nat, Waiting(s, m), NEW r \in DOMAIN s.bufs, NEW t,
         DOMAIN t.bufs = DOMAIN s.bufs \ {r}, \A x \in DOMAIN t.bufs : t.bufs[x] = s.bufs[x],
         Taken(t) = Taken(s) \cup s.bufs[r].from
  PROVE  Waiting(t, m)
<1>1. \A x, y \in DOMAIN s.bufs : \A k : k \in s.bufs[x].from /\ k \in s.bufs[y].from => x = y
  BY WaitingFacts
<1>2. \A k : ~(k \in Taken(s) /\ k \in Joining(s)) BY WaitingFacts
<1>3. \A k : k \in Taken(s) \/ k \in Joining(s) <=> k \in 1 .. m BY WaitingFacts
<1>4. \A k : k \in Joining(s) <=> \E x \in DOMAIN s.bufs : k \in s.bufs[x].from BY JoiningMembers
<1>5. \A k : k \in Joining(t) <=> \E x \in DOMAIN s.bufs \ {r} : k \in s.bufs[x].from
  BY JoiningMembers
<1>6. \A k : k \in Taken(t) <=> k \in Taken(s) \/ k \in s.bufs[r].from OBVIOUS
<1>7. \A x, y \in DOMAIN t.bufs : \A k : k \in t.bufs[x].from /\ k \in t.bufs[y].from => x = y
  BY <1>1
<1>8. \A k : ~(k \in Taken(t) /\ k \in Joining(t)) BY <1>1, <1>2, <1>4, <1>5, <1>6
<1>9. \A k : k \in Taken(t) \/ k \in Joining(t) <=> k \in 1 .. m BY <1>3, <1>4, <1>5, <1>6
<1> QED BY <1>7, <1>8, <1>9, WaitingFrom

\* The line in hand joins a record, new or open.
LEMMA JoinWaiting ==
  ASSUME NEW s, NEW m \in Nat, Waiting(s, m), NEW r, NEW t,
         DOMAIN t.bufs = DOMAIN s.bufs \cup {r},
         \A x \in DOMAIN s.bufs \ {r} : t.bufs[x] = s.bufs[x],
         t.bufs[r].from = {m + 1} \cup IF r \in DOMAIN s.bufs THEN s.bufs[r].from ELSE {},
         Taken(t) = Taken(s)
  PROVE  Waiting(t, m + 1)
<1>1. \A x, y \in DOMAIN s.bufs : \A k : k \in s.bufs[x].from /\ k \in s.bufs[y].from => x = y
  BY WaitingFacts
<1>2. \A k : ~(k \in Taken(s) /\ k \in Joining(s)) BY WaitingFacts
<1>3. \A k : k \in Taken(s) \/ k \in Joining(s) <=> k \in 1 .. m BY WaitingFacts
<1>4. \A k : k \in Joining(s) <=> \E x \in DOMAIN s.bufs : k \in s.bufs[x].from BY JoiningMembers
<1>5. \A k : k \in Joining(t) <=> \E x \in DOMAIN t.bufs : k \in t.bufs[x].from BY JoiningMembers
<1>6. m + 1 \notin Taken(s) /\ m + 1 \notin Joining(s) BY WaitingFacts
<1>7. \A k : k \in t.bufs[r].from <=> k = m + 1 \/ (r \in DOMAIN s.bufs /\ k \in s.bufs[r].from)
  OBVIOUS
<1>8. \A k : k \in Joining(t) <=> k = m + 1 \/ k \in Joining(s) BY <1>4, <1>5, <1>7
<1>9. \A x, y \in DOMAIN t.bufs : \A k : k \in t.bufs[x].from /\ k \in t.bufs[y].from => x = y
  BY <1>1, <1>4, <1>6, <1>7
<1>10. \A k : ~(k \in Taken(t) /\ k \in Joining(t)) BY <1>2, <1>6, <1>8
<1>11. \A k : k \in 1 .. m + 1 <=> k \in 1 .. m \/ k = m + 1 OBVIOUS
<1>12. \A k : k \in Taken(t) \/ k \in Joining(t) <=> k \in 1 .. m + 1 BY <1>3, <1>8, <1>11
<1> QED BY <1>9, <1>10, <1>12, WaitingFrom, m + 1 \in Nat

\* The line in hand is taken.
LEMMA TakeWaiting ==
  ASSUME NEW s, NEW m \in Nat, Waiting(s, m), NEW t, DOMAIN t.bufs = DOMAIN s.bufs,
         \A x \in DOMAIN s.bufs : t.bufs[x].from = s.bufs[x].from,
         Taken(t) = Taken(s) \cup {m + 1}
  PROVE  Waiting(t, m + 1)
<1>1. \A x, y \in DOMAIN s.bufs : \A k : k \in s.bufs[x].from /\ k \in s.bufs[y].from => x = y
  BY WaitingFacts
<1>2. \A k : ~(k \in Taken(s) /\ k \in Joining(s)) BY WaitingFacts
<1>3. \A k : k \in Taken(s) \/ k \in Joining(s) <=> k \in 1 .. m BY WaitingFacts
<1>4. m + 1 \notin Taken(s) /\ m + 1 \notin Joining(s) BY WaitingFacts
<1>5. \A k : k \in Joining(t) <=> k \in Joining(s) BY JoiningMembers
<1>6. \A x, y \in DOMAIN t.bufs : \A k : k \in t.bufs[x].from /\ k \in t.bufs[y].from => x = y
  BY <1>1
<1>7. \A k : ~(k \in Taken(t) /\ k \in Joining(t)) BY <1>2, <1>4, <1>5
<1>8. \A k : k \in 1 .. m + 1 <=> k \in 1 .. m \/ k = m + 1 OBVIOUS
<1>9. \A k : k \in Taken(t) \/ k \in Joining(t) <=> k \in 1 .. m + 1 BY <1>3, <1>5, <1>8
<1> QED BY <1>6, <1>7, <1>9, WaitingFrom, m + 1 \in Nat

\* t is s with other records open.
Rebuffered(s, t) ==
  t = [bufs |-> t.bufs, wins |-> s.wins, made |-> s.made, holds |-> s.holds,
       lastTS |-> t.lastTS, rows |-> s.rows, refused |-> s.refused, shed |-> s.shed]

LEMMA RebufferedSound ==
  ASSUME NEW s, NEW n, NEW f, Sound(s, n, f), NEW t, Rebuffered(s, t),
         t.lastTS \in Nat \cup {NoTS}, DOMAIN t.bufs \subseteq ToSet(Rules),
         \A r \in DOMAIN t.bufs : BufferOK(t.bufs[r], n) /\ t.bufs[r].mark >= f
  PROVE  Sound(t, n, f) /\ Taken(t) = Taken(s)
<1>0. Shaped(s, n) /\ Listed(s) /\ Clear(s, f) /\ Apart(s) BY DEF Sound
<1>1. /\ t.wins = s.wins /\ t.made = s.made /\ t.holds = s.holds
      /\ t.rows = s.rows /\ t.refused = s.refused
      /\ t = [bufs |-> t.bufs, wins |-> t.wins, made |-> t.made, holds |-> t.holds,
              lastTS |-> t.lastTS, rows |-> t.rows, refused |-> t.refused, shed |-> t.shed]
  BY DEF Rebuffered
<1>2. Shaped(t, n) /\ Listed(t) /\ Clear(t, f) BY <1>0, <1>1 DEF Shaped, Listed, Clear
<1>3. Rowed(t) = Rowed(s) /\ Windowed(t) = Windowed(s) BY <1>1 DEF Rowed, Windowed
<1>4. Apart(t) /\ Taken(t) = Taken(s) BY <1>0, <1>1, <1>3 DEF Apart, Taken
<1> QED BY <1>2, <1>4 DEF Sound

LEMMA BufferFacts ==
  ASSUME NEW s, NEW n, NEW f, Sound(s, n, f)
  PROVE  /\ DOMAIN s.bufs \subseteq ToSet(Rules) /\ s.lastTS \in Nat \cup {NoTS}
         /\ \A r \in DOMAIN s.bufs : BufferOK(s.bufs[r], n) /\ s.bufs[r].mark >= f
BY DEF Sound, Shaped, Clear

LEMMA ClosedSound ==
  ASSUME NEW s, NEW n, NEW f, Sound(s, n, f), NEW r
  PROVE  /\ Sound(Closed(s, r), n, f) /\ Taken(Closed(s, r)) = Taken(s)
         /\ Closed(s, r).lastTS = s.lastTS
         /\ DOMAIN Closed(s, r).bufs = DOMAIN s.bufs \ {r}
         /\ \A x \in DOMAIN s.bufs \ {r} : Closed(s, r).bufs[x] = s.bufs[x]
<1> DEFINE t == Closed(s, r)
           h == [x \in DOMAIN s.bufs \ {r} |-> s.bufs[x]]
<1>1. t = [s EXCEPT !.bufs = h] BY DEF Closed
<1> HIDE DEF h, t
<1>2. Rebuffered(s, t) /\ t.bufs = h /\ t.lastTS = s.lastTS
  BY <1>1 DEF Sound, Shaped, Rebuffered
<1>3. DOMAIN h = DOMAIN s.bufs \ {r} /\ \A x \in DOMAIN s.bufs \ {r} : h[x] = s.bufs[x] BY DEF h
<1>4. /\ t.lastTS \in Nat \cup {NoTS} /\ DOMAIN t.bufs \subseteq ToSet(Rules)
      /\ \A x \in DOMAIN t.bufs : BufferOK(t.bufs[x], n) /\ t.bufs[x].mark >= f
  BY <1>2, <1>3, BufferFacts
<1>5. Sound(t, n, f) /\ Taken(t) = Taken(s) BY <1>2, <1>4, RebufferedSound
<1> QED BY <1>2, <1>3, <1>5 DEF t

LEMMA BufferedSound ==
  ASSUME NEW s, NEW n, NEW f, Sound(s, n, f), NEW r \in ToSet(Rules), NEW b, BufferOK(b, n),
         b.mark >= f
  PROVE  /\ Sound(Buffered(s, r, b), n, f) /\ Taken(Buffered(s, r, b)) = Taken(s)
         /\ Buffered(s, r, b).lastTS = s.lastTS
         /\ DOMAIN Buffered(s, r, b).bufs = DOMAIN s.bufs \cup {r}
         /\ Buffered(s, r, b).bufs[r] = b
         /\ \A x \in DOMAIN s.bufs \ {r} : Buffered(s, r, b).bufs[x] = s.bufs[x]
<1> DEFINE t == Buffered(s, r, b)
           h == [x \in DOMAIN s.bufs \cup {r} |-> IF x = r THEN b ELSE s.bufs[x]]
<1>1. t = [s EXCEPT !.bufs = h] BY DEF Buffered
<1> HIDE DEF h, t
<1>2. Rebuffered(s, t) /\ t.bufs = h /\ t.lastTS = s.lastTS
  BY <1>1 DEF Sound, Shaped, Rebuffered
<1>3. /\ DOMAIN h = DOMAIN s.bufs \cup {r} /\ h[r] = b
      /\ \A x \in DOMAIN s.bufs \ {r} : h[x] = s.bufs[x]
  BY DEF h
<1>4. /\ t.lastTS \in Nat \cup {NoTS} /\ DOMAIN t.bufs \subseteq ToSet(Rules)
      /\ \A x \in DOMAIN t.bufs : BufferOK(t.bufs[x], n) /\ t.bufs[x].mark >= f
  BY <1>2, <1>3, BufferFacts
<1>5. Sound(t, n, f) /\ Taken(t) = Taken(s) BY <1>2, <1>4, RebufferedSound
<1> QED BY <1>2, <1>3, <1>5 DEF t

\* A record that is open is processed: its lines are taken.
LEMMA ProcessBufferedSound ==
  ASSUME NEW s, NEW n \in Nat, NEW f \in Nat, Sound(s, n, f), NEW b, BufferOK(b, n), b.mark >= f,
         b.from \cap Taken(s) = {}
  PROVE  Took(s, ProcessBuffered(s, b), n, f, b.from)
<1>1. Fresh(s, n, f, b.line, b.ts, b.mark, b.from) BY DEF Fresh, BufferOK
<1> QED BY <1>1, ProcessAtSound DEF ProcessBuffered

-----------------------------------------------------------------------------
(* Lines.                                                                  *)

LEMMA Untaken ==
  ASSUME NEW s, NEW m \in Nat, Waiting(s, m), NEW r \in DOMAIN s.bufs
  PROVE  s.bufs[r].from \cap Taken(s) = {} /\ m + 1 \notin s.bufs[r].from
<1>1. \A k : ~(k \in Taken(s) /\ k \in Joining(s)) BY WaitingFacts
<1>2. m + 1 \notin Joining(s) BY WaitingFacts
<1>3. \A k \in s.bufs[r].from : k \in Joining(s) BY JoiningMembers
<1> QED BY <1>1, <1>2, <1>3

LEMMA JoinedFacts ==
  ASSUME NEW b, NEW n, BufferOK(b, n), NEW line \in LineType
  PROVE  BufferOK(Joined(b, line), n) /\ Joined(b, line).mark = b.mark
         /\ Joined(b, line).from = b.from
<1> DEFINE more == [b EXCEPT !.parts = @ + 1]
           text == [b.line EXCEPT !.has = line.has, !.val = line.val]
<1>0. /\ b = [line |-> b.line, ts |-> b.ts, parts |-> b.parts, mark |-> b.mark, last |-> b.last,
              from |-> b.from]
  BY DEF BufferOK
<1>1. /\ more = [line |-> b.line, ts |-> b.ts, parts |-> more.parts, mark |-> b.mark,
                 last |-> b.last, from |-> b.from]
  <2> DEFINE parts == b.parts + 1
  <2>1. more = [b EXCEPT !.parts = parts] OBVIOUS
  <2> HIDE DEF parts, more
  <2> QED BY <1>0, <2>1
<1>2. text \in LineType
  <2>1. b.line \in LineType /\ line.has \in {"yes", "no", "junk"} /\ line.val \in Int
    BY DEF BufferOK, LineType
  <2> QED BY <2>1 DEF LineType
<1>3. Joined(b, line) = more \/ Joined(b, line) = [more EXCEPT !.line = text]
  <2> HIDE DEF more
  <2>1. more.line = b.line BY <1>1
  <2>2. [more EXCEPT !.line.has = line.has, !.line.val = line.val] = [more EXCEPT !.line = text]
    BY <1>1, <2>1
  <2>3. Joined(b, line) = more \/ Joined(b, line) = [more EXCEPT !.line.has = line.has, !.line.val = line.val]
    BY DEF Joined, more
  <2> QED BY <2>2, <2>3
<1> HIDE DEF more, text
<1>4. BufferOK(more, n) /\ more.mark = b.mark /\ more.from = b.from BY <1>1 DEF BufferOK
<1>5. /\ [more EXCEPT !.line = text] = [line |-> text, ts |-> b.ts, parts |-> more.parts,
                                        mark |-> b.mark, last |-> b.last, from |-> b.from]
  BY <1>1
<1>6. /\ BufferOK([more EXCEPT !.line = text], n)
      /\ [more EXCEPT !.line = text].mark = b.mark /\ [more EXCEPT !.line = text].from = b.from
  BY <1>2, <1>5 DEF BufferOK
<1> QED BY <1>3, <1>4, <1>6

\* A continuation joins its record, is refused, or closes it and is refused.
LEMMA ContinueSound ==
  ASSUME NEW s, NEW n \in Nat, NEW m \in Nat, n = m + 1, NEW f \in Nat, Steady(s, n, m, f),
         NEW line \in LineType, NEW r \in DOMAIN s.bufs
  PROVE  Steady(Continue(s, r, line, n), n, n, f)
<1> DEFINE b == s.bufs[r]
           s1 == Closed(s, r)
           s2 == HoldRecord(s1, b, n)
           s3 == ProcessBuffered(s2, b)
           s4 == Refuse(s3, {n})
           j == [Joined(b, line) EXCEPT !.last = n, !.from = @ \cup {n}]
           t == Buffered(s, r, j)
           i == [b EXCEPT !.last = n]
           u == Buffered(s, r, i)
           v == Refuse(u, {n})
<1>0. Sound(s, n, f) /\ Waiting(s, m) BY DEF Steady
<1>1. Continue(s, r, line, n) = s4 \/ Continue(s, r, line, n) = t \/ Continue(s, r, line, n) = v
  BY DEF Continue
<1>2. r \in DOMAIN s.bufs /\ r \in ToSet(Rules) /\ BufferOK(b, n) /\ b.mark >= f
  BY <1>0, BufferFacts
<1>3. b.from \cap Taken(s) = {} /\ n \notin b.from /\ n \notin Taken(s)
  BY <1>0, <1>2, Untaken, WaitingFacts
<1>4. n \in 1 .. n /\ n \in 0 .. n OBVIOUS
<1> HIDE DEF b
<1>5. Steady(s4, n, n, f)
  <2>1. /\ Sound(s1, n, f) /\ Taken(s1) = Taken(s)
        /\ DOMAIN s1.bufs = DOMAIN s.bufs \ {r} /\ \A x \in DOMAIN s.bufs \ {r} : s1.bufs[x] = s.bufs[x]
    BY <1>0, ClosedSound
  <2> HIDE DEF s1
  <2>2. Sound(s2, n, f) /\ Relisted(s1, s2) BY <1>2, <1>4, <2>1, HoldRecordSound
  <2> HIDE DEF s2
  <2>3. Taken(s2) = Taken(s) /\ s2.bufs = s1.bufs
    BY <2>1, <2>2, RelistedFacts DEF Taken, Rowed, Windowed
  <2>4. Took(s2, s3, n, f, b.from) BY <1>2, <1>3, <2>2, <2>3, ProcessBufferedSound
  <2> HIDE DEF s3
  <2>5. Sound(s3, n, f) /\ Taken(s3) = Taken(s) \cup b.from /\ s3.bufs = s1.bufs
    BY <2>3, <2>4 DEF Took
  <2>6. Waiting(s3, m) BY <1>0, <1>2, <2>1, <2>5, CloseWaiting DEF b
  <2>7. Took(s3, s4, n, f, {n}) BY <1>3, <2>5, RefuseSound
  <2> HIDE DEF s4
  <2>8. Sound(s4, n, f) /\ Taken(s4) = Taken(s3) \cup {n} /\ s4.bufs = s3.bufs BY <2>7 DEF Took
  <2>9. Waiting(s4, n) BY <2>6, <2>8, TakeWaiting
  <2> QED BY <2>8, <2>9 DEF Steady
<1>6. Steady(t, n, n, f)
  <2>1. BufferOK(Joined(b, line), n) /\ Joined(b, line).mark = b.mark /\ Joined(b, line).from = b.from
    BY <1>2, JoinedFacts
  <2>2. BufferOK(j, n) /\ j.mark = b.mark /\ j.from = b.from \cup {n}
    <3> DEFINE k == Joined(b, line)
               all == k.from \cup {n}
    <3>1. j = [k EXCEPT !.last = n, !.from = all] OBVIOUS
    <3>2. BufferOK(k, n) /\ k.mark = b.mark /\ k.from = b.from BY <2>1
    <3> HIDE DEF k, all, j
    <3>3. j = [line |-> k.line, ts |-> k.ts, parts |-> k.parts, mark |-> k.mark, last |-> n, from |-> all]
      BY <3>1, <3>2 DEF BufferOK
    <3>4. Within(all, k.mark, n) BY <1>4, <3>2 DEF BufferOK, Within, all
    <3>5. BufferOK(j, n) /\ j.mark = k.mark /\ j.from = all BY <1>4, <3>2, <3>3, <3>4 DEF BufferOK
    <3> QED BY <3>2, <3>5 DEF all
  <2> HIDE DEF j
  <2>3. /\ Sound(t, n, f) /\ Taken(t) = Taken(s) /\ DOMAIN t.bufs = DOMAIN s.bufs \cup {r}
        /\ t.bufs[r] = j /\ \A x \in DOMAIN s.bufs \ {r} : t.bufs[x] = s.bufs[x]
    BY <1>0, <1>2, <2>2, BufferedSound
  <2> HIDE DEF t
  <2>4. t.bufs[r].from = {m + 1} \cup IF r \in DOMAIN s.bufs THEN s.bufs[r].from ELSE {}
    BY <1>2, <2>2, <2>3 DEF b
  <2>5. Waiting(t, m + 1) BY <1>0, <2>3, <2>4, JoinWaiting
  <2> QED BY <2>3, <2>5 DEF Steady
<1>7. Steady(v, n, n, f)
  <2>1. BufferOK(i, n) /\ i.mark = b.mark /\ i.from = b.from BY <1>2, <1>4 DEF BufferOK
  <2> HIDE DEF i
  <2>2. /\ Sound(u, n, f) /\ Taken(u) = Taken(s) /\ DOMAIN u.bufs = DOMAIN s.bufs \cup {r}
        /\ u.bufs[r] = i /\ \A x \in DOMAIN s.bufs \ {r} : u.bufs[x] = s.bufs[x]
    BY <1>0, <1>2, <2>1, BufferedSound
  <2> HIDE DEF u
  <2>3. Took(u, v, n, f, {n}) BY <1>3, <2>2, RefuseSound
  <2> HIDE DEF v
  <2>4. Sound(v, n, f) /\ Taken(v) = Taken(s) \cup {m + 1} /\ v.bufs = u.bufs BY <2>2, <2>3 DEF Took
  <2>5. DOMAIN v.bufs = DOMAIN s.bufs /\ \A x \in DOMAIN s.bufs : v.bufs[x].from = s.bufs[x].from
    BY <1>2, <2>1, <2>2, <2>4 DEF b
  <2>6. Waiting(v, m + 1) BY <1>0, <2>4, <2>5, TakeWaiting
  <2> QED BY <2>4, <2>6 DEF Steady
<1> QED BY <1>1, <1>5, <1>6, <1>7

\* A start marker closes the record of its rule and opens the next.
LEMMA StartSound ==
  ASSUME NEW s, NEW n \in Nat, NEW m \in Nat, n = m + 1, NEW f \in 0 .. n, Steady(s, n, m, f),
         NEW line \in LineType, line.start \in ToSet(Rules), line.ts \in Nat
  PROVE  Steady(Start(s, line, n), n, n, f)
<1> DEFINE r == line.start
           b == s.bufs[r]
           s2 == HoldRecord(s, b, 0)
           s3 == ProcessBuffered(s2, b)
           flushed == IF r \in DOMAIN s.bufs THEN s3 ELSE s
           new == [line |-> line, ts |-> line.ts, parts |-> 0, mark |-> n, last |-> n, from |-> {n}]
           c == Closed(flushed, r)
           t == Buffered(flushed, r, new)
<1>0. Sound(s, n, f) /\ Waiting(s, m) /\ f \in Nat BY DEF Steady
<1>1. Start(s, line, n) = t BY DEF Start
<1>2. BufferOK(new, n) /\ new.mark >= f /\ new.from = {n} BY DEF BufferOK, Within
<1> HIDE DEF r, b, new
<1>3. /\ Sound(flushed, n, f)
      /\ flushed.bufs = s.bufs
      /\ Taken(flushed) = Taken(s) \cup IF r \in DOMAIN s.bufs THEN b.from ELSE {}
  <2>1. CASE r \in DOMAIN s.bufs
    <3>1. BufferOK(b, n) /\ b.mark >= f BY <1>0, <2>1, BufferFacts DEF b
    <3>2. b.from \cap Taken(s) = {} BY <1>0, <2>1, Untaken DEF b
    <3>3. 0 \in 0 .. n OBVIOUS
    <3>4. Sound(s2, n, f) /\ Relisted(s, s2) BY <1>0, <3>1, <3>3, HoldRecordSound
    <3> HIDE DEF s2
    <3>5. Taken(s2) = Taken(s) /\ s2.bufs = s.bufs
      BY <3>4, RelistedFacts DEF Taken, Rowed, Windowed
    <3>6. Took(s2, s3, n, f, b.from) BY <1>0, <3>1, <3>2, <3>4, <3>5, ProcessBufferedSound
    <3> HIDE DEF s3
    <3> QED BY <2>1, <3>5, <3>6 DEF Took
  <2>2. CASE r \notin DOMAIN s.bufs BY <1>0, <2>2
  <2> QED BY <2>1, <2>2
<1> HIDE DEF flushed
<1>4. Waiting(c, m) /\ Taken(c) = Taken(flushed) /\ DOMAIN c.bufs = DOMAIN s.bufs \ {r}
      /\ \A x \in DOMAIN s.bufs \ {r} : c.bufs[x] = s.bufs[x]
  <2>1. /\ Taken(c) = Taken(flushed) /\ DOMAIN c.bufs = DOMAIN s.bufs \ {r}
        /\ \A x \in DOMAIN s.bufs \ {r} : c.bufs[x] = s.bufs[x]
    BY <1>3, ClosedSound
  <2> HIDE DEF c
  <2>2. CASE r \in DOMAIN s.bufs BY <1>0, <1>3, <2>1, <2>2, CloseWaiting DEF b
  <2>3. CASE r \notin DOMAIN s.bufs
    <3>1. DOMAIN c.bufs = DOMAIN s.bufs /\ \A x \in DOMAIN s.bufs : c.bufs[x] = s.bufs[x] BY <2>1, <2>3
    <3>2. Taken(c) = Taken(s) BY <1>3, <2>1, <2>3
    <3>3. \A k : k \in Joining(c) <=> k \in Joining(s) BY <3>1, JoiningMembers
    <3>4. Joining(c) = Joining(s) BY <3>3
    <3> QED BY <1>0, <2>1, <3>1, <3>2, <3>4 DEF Waiting
  <2> QED BY <2>1, <2>2, <2>3
<1> HIDE DEF c
<1>5. /\ Sound(t, n, f) /\ Taken(t) = Taken(flushed) /\ DOMAIN t.bufs = DOMAIN s.bufs \cup {r}
      /\ t.bufs[r] = new /\ \A x \in DOMAIN s.bufs \ {r} : t.bufs[x] = s.bufs[x]
  <2>1. r \in ToSet(Rules) BY DEF r
  <2> QED BY <1>2, <1>3, <2>1, BufferedSound
<1> HIDE DEF t
<1>6. Waiting(t, m + 1)
  <2>1. DOMAIN t.bufs = DOMAIN c.bufs \cup {r} /\ r \notin DOMAIN c.bufs BY <1>4, <1>5
  <2>2. \A x \in DOMAIN c.bufs \ {r} : t.bufs[x] = c.bufs[x] BY <1>4, <1>5
  <2>3. t.bufs[r].from = {m + 1} \cup IF r \in DOMAIN c.bufs THEN c.bufs[r].from ELSE {}
    BY <1>2, <1>5, <2>1
  <2>4. Taken(t) = Taken(c) BY <1>4, <1>5
  <2> QED BY <1>4, <2>1, <2>2, <2>3, <2>4, JoinWaiting
<1> QED BY <1>1, <1>5, <1>6 DEF Steady

\* Another time of the last line changes nothing else.
LEMMA TimedSound ==
  ASSUME NEW s, NEW n, NEW m, NEW f, Steady(s, n, m, f), NEW ts \in Nat \cup {NoTS}
  PROVE  Steady([s EXCEPT !.lastTS = ts], n, m, f)
<1> DEFINE t == [s EXCEPT !.lastTS = ts]
<1>1. Rebuffered(s, t) /\ t.bufs = s.bufs /\ t.lastTS = ts
  BY DEF Steady, Sound, Shaped, Rebuffered
<1>2. Sound(s, n, f) BY DEF Steady
<1> HIDE DEF t
<1>3. Sound(t, n, f) /\ Taken(t) = Taken(s) BY <1>1, <1>2, BufferFacts, RebufferedSound
<1>4. Joining(t) = Joining(s) BY <1>1 DEF Joining
<1>5. Waiting(t, m) BY <1>1, <1>3, <1>4 DEF Steady, Waiting
<1>6. Steady(t, n, m, f) BY <1>3, <1>5 DEF Steady
<1> QED BY <1>6 DEF t

\* A line that is judged by itself is taken.
LEMMA TookSteady ==
  ASSUME NEW s, NEW n \in Nat, NEW m \in Nat, n = m + 1, NEW f, Steady(s, n, m, f), NEW t,
         Took(s, t, n, f, {n})
  PROVE  Steady(t, n, n, f)
<1>1. Sound(t, n, f) /\ Taken(t) = Taken(s) \cup {m + 1} /\ t.bufs = s.bufs BY DEF Took
<1>2. Waiting(t, m + 1) BY <1>1, TakeWaiting DEF Steady
<1> QED BY <1>1, <1>2 DEF Steady

\* The rule whose record a line continues.
LEMMA FirstContinued ==
  ASSUME NEW s, NEW line \in LineType, Continues(s, line) # {}
  PROVE  /\ FirstOf(Continues(s, line)) \in DOMAIN s.bufs
         /\ line.cont # {}
<1> DEFINE c == Continues(s, line)
           I == {i \in DOMAIN Rules : Rules[i] \in c}
<1>1. line.cont \subseteq ToSet(Rules) BY DEF LineType
<1>2. c \subseteq line.cont /\ c \subseteq DOMAIN s.bufs /\ c # {} BY DEF Continues
<1>3. Rules \in Seq(ToSet(Rules)) BY ExtractAssumption
<1>4. DOMAIN Rules \subseteq Nat BY <1>3
<1> HIDE DEF c
<1>5. PICK x \in c : TRUE BY <1>2
<1>6. x \in ToSet(Rules) BY <1>1, <1>2
<1>7. \E i \in DOMAIN Rules : Rules[i] = x BY <1>6 DEF ToSet
<1>8. I \subseteq Nat /\ I # {} BY <1>4, <1>7
<1>9. Min(I) \in I BY <1>8, MinFacts
<1>10. FirstOf(c) = Rules[Min(I)] BY DEF FirstOf
<1>11. FirstOf(c) \in c BY <1>9, <1>10
<1> QED BY <1>2, <1>11 DEF c

LEMMA ProcessSound ==
  ASSUME NEW s, NEW n \in Nat, NEW m \in Nat, n = m + 1, NEW f \in 0 .. n, Steady(s, n, m, f),
         NEW line \in LineType
  PROVE  Steady(Process(s, line, n), n, n, f)
<1> DEFINE timed == [s EXCEPT !.lastTS = line.ts]
           c == Continues(s, line)
           r == FirstOf(c)
           goes == c # {}
<1>0. line.ts \in Nat \cup {NoTS} /\ line.start \in ToSet(Rules) \cup {""} BY DEF LineType
<1>1. Steady(timed, n, m, f) BY <1>0, TimedSound
<1>2. f \in Nat OBVIOUS
<1>3. \A u : Steady(u, n, m, f) => n \notin Taken(u) BY WaitingFacts DEF Steady
<1>4. \/ goes /\ Process(s, line, n) = Continue(s, r, line, n)
      \/ Process(s, line, n) = Refuse(s, {n})
      \/ Process(s, line, n) = Refuse(timed, {n})
      \/ /\ line.ts # NoTS /\ line.start # ""
         /\ Process(s, line, n) = Start(timed, line, n)
      \/ line.ts # NoTS /\ Process(s, line, n) = ProcessAt(timed, line, line.ts, n, {n})
  BY DEF Process
<1> HIDE DEF timed, r
<1>5. CASE goes /\ Process(s, line, n) = Continue(s, r, line, n)
  <2>1. r \in DOMAIN s.bufs BY <1>5, FirstContinued DEF r
  <2> QED BY <1>2, <1>5, <2>1, ContinueSound
<1> HIDE DEF goes
<1>6. CASE Process(s, line, n) = Refuse(s, {n})
  <2>1. Sound(s, n, f) /\ {n} \cap Taken(s) = {} BY <1>3 DEF Steady
  <2>2. Took(s, Refuse(s, {n}), n, f, {n}) BY <2>1, RefuseSound
  <2> QED BY <1>6, <2>2, TookSteady
<1>7. CASE Process(s, line, n) = Refuse(timed, {n})
  <2>1. Sound(timed, n, f) /\ {n} \cap Taken(timed) = {} BY <1>1, <1>3 DEF Steady
  <2>2. Took(timed, Refuse(timed, {n}), n, f, {n}) BY <2>1, RefuseSound
  <2> QED BY <1>1, <1>7, <2>2, TookSteady
<1>8. CASE /\ line.ts # NoTS /\ line.start # ""
           /\ Process(s, line, n) = Start(timed, line, n)
  <2>1. line.ts \in Nat /\ line.start \in ToSet(Rules) BY <1>0, <1>8
  <2> QED BY <1>1, <1>8, <2>1, StartSound
<1>9. CASE line.ts # NoTS /\ Process(s, line, n) = ProcessAt(timed, line, line.ts, n, {n})
  <2>0. /\ line.ts \in Nat /\ n \in 1 .. n /\ n >= f
        /\ Sound(timed, n, f) /\ {n} \cap Taken(timed) = {}
    <3>1. line.ts \in Nat BY <1>0, <1>9
    <3>2. n \in 1 .. n /\ n >= f OBVIOUS
    <3>3. Sound(timed, n, f) /\ n \notin Taken(timed) BY <1>1, <1>3 DEF Steady
    <3> QED BY <3>1, <3>2, <3>3
  <2>1. Fresh(timed, n, f, line, line.ts, n, {n}) BY <2>0 DEF Fresh, Within
  <2>2. Took(timed, ProcessAt(timed, line, line.ts, n, {n}), n, f, {n}) BY <1>2, <2>1, ProcessAtSound
  <2> QED BY <1>1, <1>9, <2>2, TookSteady
<1> QED BY <1>4, <1>5, <1>6, <1>7, <1>8, <1>9

-----------------------------------------------------------------------------
(* Idle ticks.                                                             *)

LEMMA IdleRuleSound ==
  ASSUME NEW s, NEW n \in Nat, NEW m \in Nat, NEW f \in Nat, Steady(s, n, m, f), NEW r
  PROVE  Steady(IdleRule(s, r), n, m, f)
<1> DEFINE b == s.bufs[r]
           s2 == HoldRecord(s, b, 0)
           s3 == ProcessBuffered(s2, b)
           t == Closed(s3, r)
<1>0. Sound(s, n, f) /\ Waiting(s, m) BY DEF Steady
<1>1. CASE r \notin DOMAIN s.bufs BY <1>1 DEF IdleRule
<1>2. CASE r \in DOMAIN s.bufs
  <2>1. BufferOK(b, n) /\ b.mark >= f BY <1>0, <1>2, BufferFacts
  <2>2. b.from \cap Taken(s) = {} BY <1>0, <1>2, Untaken
  <2>3. 0 \in 0 .. n OBVIOUS
  <2>4. IdleRule(s, r) = t BY <1>2 DEF IdleRule
  <2> HIDE DEF b
  <2>5. Sound(s2, n, f) /\ Relisted(s, s2) BY <1>0, <2>1, <2>3, HoldRecordSound
  <2> HIDE DEF s2
  <2>6. Taken(s2) = Taken(s) /\ s2.bufs = s.bufs BY <2>5, RelistedFacts DEF Taken, Rowed, Windowed
  <2>7. Took(s2, s3, n, f, b.from) BY <2>1, <2>2, <2>5, <2>6, ProcessBufferedSound
  <2> HIDE DEF s3
  <2>8. Sound(s3, n, f) /\ Taken(s3) = Taken(s) \cup b.from /\ s3.bufs = s.bufs BY <2>6, <2>7 DEF Took
  <2>9. /\ Sound(t, n, f) /\ Taken(t) = Taken(s3) /\ DOMAIN t.bufs = DOMAIN s.bufs \ {r}
        /\ \A x \in DOMAIN s.bufs \ {r} : t.bufs[x] = s.bufs[x]
    BY <2>8, ClosedSound
  <2> HIDE DEF t
  <2>10. Waiting(t, m) BY <1>0, <1>2, <2>8, <2>9, CloseWaiting DEF b
  <2> QED BY <2>4, <2>9, <2>10 DEF Steady
<1> QED BY <1>1, <1>2

\* A function that computes the walk over the rules.
IdleStep(s, due, i) == IF Rules[i] \in due THEN IdleRule(s, Rules[i]) ELSE s

Walks(g, s, due, n) ==
  g = [i \in 0 .. n |-> IF i = 0 THEN s ELSE IdleStep(g[i - 1], due, i)]

LEMMA WalkExists ==
  ASSUME NEW s, NEW due
  PROVE  \A n \in Nat : \E g : Walks(g, s, due, n)
<1> DEFINE S == {n \in Nat : \E g : Walks(g, s, due, n)}
<1>1. 0 \in S
  <2>1. Walks([k \in 0 .. 0 |-> s], s, due, 0) BY DEF Walks
  <2> QED BY <2>1
<1>2. ASSUME NEW n \in S PROVE n + 1 \in S
  <2>1. PICK p : Walks(p, s, due, n) BY <1>2
  <2> DEFINE q == [k \in 0 .. n + 1 |-> IF k = n + 1 THEN IdleStep(p[n], due, n + 1) ELSE p[k]]
  <2>2. \A k \in 0 .. n : q[k] = p[k] OBVIOUS
  <2>3. \A k \in 0 .. n : p[k] = IF k = 0 THEN s ELSE IdleStep(p[k - 1], due, k)
    BY <2>1 DEF Walks
  <2>4. ASSUME NEW k \in 0 .. n + 1
        PROVE  q[k] = IF k = 0 THEN s ELSE IdleStep(q[k - 1], due, k)
    <3>1. CASE k = n + 1 BY <3>1, <2>2, n \in 0 .. n, k - 1 = n
    <3>2. CASE k # n + 1
      <4>1. k \in 0 .. n /\ (k # 0 => k - 1 \in 0 .. n) BY <3>2
      <4> HIDE DEF q
      <4> QED BY <4>1, <2>2, <2>3
    <3> QED BY <3>1, <3>2
  <2>5. q = [k \in 0 .. n + 1 |-> IF k = 0 THEN s ELSE IdleStep(q[k - 1], due, k)] BY <2>4
  <2> HIDE DEF q
  <2>6. Walks(q, s, due, n + 1) BY <2>5 DEF Walks
  <2> QED BY <2>6
<1>3. S = Nat BY <1>1, <1>2, NatSet
<1> QED BY <1>3

LEMMA RulesLength == Len(Rules) \in Nat
<1>1. Rules \in Seq(ToSet(Rules)) BY ExtractAssumption
<1> DEFINE all == ToSet(Rules)
<1> HIDE DEF all
<1>2. Rules \in Seq(all) BY <1>1 DEF all
<1> QED BY <1>2

LEMMA WalkFacts ==
  ASSUME NEW s, NEW due
  PROVE  \E g : /\ IdleRules(s, due) = g[Len(Rules)]
                /\ g[0] = s
                /\ \A i \in 1 .. Len(Rules) : g[i] = IdleStep(g[i - 1], due, i)
<1> DEFINE g == CHOOSE g : g = [i \in 0 .. Len(Rules) |->
                  IF i = 0 THEN s
                  ELSE IF Rules[i] \in due THEN IdleRule(g[i - 1], Rules[i]) ELSE g[i - 1]]
<1>0. Len(Rules) \in Nat BY RulesLength
<1>1. IdleRules(s, due) = g[Len(Rules)] BY DEF IdleRules
<1>2. \E q : Walks(q, s, due, Len(Rules)) BY <1>0, WalkExists
<1>3. Walks(g, s, due, Len(Rules)) BY <1>2 DEF Walks, IdleStep
<1> HIDE DEF g
<1>4. g[0] = s BY <1>0, <1>3 DEF Walks
<1>5. \A i \in 1 .. Len(Rules) : g[i] = IdleStep(g[i - 1], due, i) BY <1>0, <1>3 DEF Walks
<1> QED BY <1>1, <1>4, <1>5

LEMMA IdleRulesSound ==
  ASSUME NEW s, NEW n \in Nat, NEW m \in Nat, NEW f \in Nat, Steady(s, n, m, f), NEW due
  PROVE  Steady(IdleRules(s, due), n, m, f)
<1>0. Len(Rules) \in Nat BY RulesLength
<1>1. PICK g : /\ IdleRules(s, due) = g[Len(Rules)]
               /\ g[0] = s
               /\ \A i \in 1 .. Len(Rules) : g[i] = IdleStep(g[i - 1], due, i)
  BY WalkFacts
<1> DEFINE S == {i \in Nat : i <= Len(Rules) => Steady(g[i], n, m, f)}
<1>2. 0 \in S BY <1>1
<1>3. ASSUME NEW i \in S PROVE i + 1 \in S
  <2> SUFFICES ASSUME i + 1 <= Len(Rules) PROVE Steady(g[i + 1], n, m, f) OBVIOUS
  <2>1. Steady(g[i], n, m, f) BY <1>0
  <2>2. g[i + 1] = IdleStep(g[i], due, i + 1) BY <1>0, <1>1
  <2>3. Steady(IdleRule(g[i], Rules[i + 1]), n, m, f) BY <2>1, IdleRuleSound
  <2> QED BY <2>1, <2>2, <2>3 DEF IdleStep
<1>4. S = Nat BY <1>2, <1>3, NatSet
<1> QED BY <1>0, <1>1, <1>4

LEMMA FlushIdleSound ==
  ASSUME NEW s, NEW n \in Nat, NEW m \in Nat, NEW f \in Nat, Steady(s, n, m, f), NEW due, NEW quiet
  PROVE  Steady(FlushIdle(s, due, quiet), n, m, f)
<1> DEFINE u == IdleRules(s, due)
           t == CloseExpired(u, IF s.lastTS = NoTS THEN NoTS ELSE s.lastTS + quiet)
<1>1. Steady(u, n, m, f) BY IdleRulesSound
<1> HIDE DEF u
<1>2. Sound(t, n, f) /\ Taken(t) = Taken(u) /\ t.bufs = u.bufs BY <1>1, CloseExpiredSound DEF Steady
<1>3. FlushIdle(s, due, quiet) = t BY DEF FlushIdle, u
<1> HIDE DEF t
<1>4. Joining(t) = Joining(u) BY <1>2 DEF Joining
<1>5. Waiting(t, m) BY <1>1, <1>2, <1>4 DEF Steady, Waiting
<1> QED BY <1>2, <1>3, <1>5 DEF Steady

-----------------------------------------------------------------------------
(* The driver.                                                             *)

LEMMA CountFacts ==
  ASSUME events \in Seq(Event)
  PROVE  Count \in Nat
<1>1. CASE events = <<>> BY <1>1 DEF Count
<1>2. CASE events # <<>>
  <2>1. Len(events) \in 1 .. Len(events) /\ Len(events) \in DOMAIN events BY <1>2
  <2>2. events[Len(events)] \in Event BY <2>1
  <2>3. events[Len(events)].at \in Nat BY <2>2 DEF Event
  <2> QED BY <1>2, <2>3 DEF Count
<1> QED BY <1>1, <1>2

LEMMA CountAfter ==
  ASSUME events \in Seq(Event), NEW e \in Event, events' = Append(events, e)
  PROVE  Count' = e.at /\ events' \in Seq(Event)
<1>1. events' \in Seq(Event) /\ Len(events') = Len(events) + 1 /\ events'[Len(events) + 1] = e
  OBVIOUS
<1>2. events' # <<>> BY <1>1
<1> QED BY <1>1, <1>2 DEF Count

LEMMA Later ==
  ASSUME NEW s, NEW m \in Nat, NEW f, Sound(s, m, f)
  PROVE  Sound(s, m + 1, f)
<1>1. 1 .. m \subseteq 1 .. m + 1 OBVIOUS
<1>0. ASSUME NEW from, NEW k \in 1 .. m, Within(from, k, m) PROVE Within(from, k, m + 1)
  BY <1>0 DEF Within
<1>2. \A b : BufferOK(b, m) => BufferOK(b, m + 1) BY <1>0, <1>1 DEF BufferOK
<1>3. \A w : WindowOK(w, m) => WindowOK(w, m + 1) BY <1>0, <1>1 DEF WindowOK
<1>4. \A e : SpanOK(e, m) => SpanOK(e, m + 1) BY <1>1 DEF SpanOK
<1>5. Shaped(s, m + 1) BY <1>2, <1>3, <1>4 DEF Sound, Shaped
<1> QED BY <1>5 DEF Sound

LEMMA PruneSteady ==
  ASSUME NEW s, NEW n \in Nat, NEW m, NEW f, Steady(s, n, m, f)
  PROVE  Steady(Prune(s), n, m, f)
<1>1. Sound(Prune(s), n, f) /\ Relisted(s, Prune(s)) BY PruneSound DEF Steady
<1> DEFINE t == Prune(s)
<1> HIDE DEF t
<1>2. Sound(t, n, f) /\ t.bufs = s.bufs /\ Taken(t) = Taken(s) /\ Joining(t) = Joining(s)
  BY <1>1, RelistedFacts DEF t, Taken, Rowed, Windowed, Joining
<1>3. Steady(t, n, m, f) BY <1>2 DEF Steady, Waiting
<1> QED BY <1>3 DEF t

\* A step keeps the stream steady, and nothing falls below a position that was clear.
LEMMA StepSteady ==
  ASSUME IInv, Next
  PROVE  /\ events' \in Seq(Event) /\ Count \in Nat /\ Count' \in Nat /\ Count' >= Count
         /\ \A f \in 0 .. Count + 1 :
              Steady(st, Count, Count, f) => Steady(st', Count', Count', f)
<1>0. events \in Seq(Event) /\ Count \in Nat BY CountFacts DEF IInv
<1>1. ASSUME NEW line \in UNION ToSet(Lines), Read(line)
      PROVE  /\ events' \in Seq(Event) /\ Count' = Count + 1
             /\ \A f \in 0 .. Count + 1 :
                  Steady(st, Count, Count, f) => Steady(st', Count', Count', f)
  <2> DEFINE n == Count + 1
             e == [kind |-> "line", line |-> line, at |-> n]
  <2>1. line \in LineType BY ExtractAssumption
  <2>2. st' = Apply(st, e) /\ events' = Append(events, e) BY <1>1 DEF Read
  <2>3. n \in Nat /\ n = Count + 1 BY <1>0
  <2>4. Apply(st, e) = Prune(Process(st, line, n)) BY DEF Apply
  <2> HIDE DEF n
  <2>5. e \in Event /\ e.at = n BY <2>1, <2>3 DEF Event
  <2> HIDE DEF e
  <2>6. Count' = n /\ events' \in Seq(Event) BY <1>0, <2>2, <2>5, CountAfter
  <2>7. ASSUME NEW f \in 0 .. n, Steady(st, Count, Count, f) PROVE Steady(st', n, n, f)
    <3>1. Sound(st, n, f) BY <1>0, <2>3, <2>7, Later DEF Steady
    <3>2. Steady(st, n, Count, f) BY <2>7, <3>1 DEF Steady
    <3>3. Steady(Process(st, line, n), n, n, f) BY <1>0, <2>1, <2>3, <3>2, ProcessSound
    <3> QED BY <2>2, <2>3, <2>4, <3>3, PruneSteady
  <2> QED BY <2>3, <2>6, <2>7
<1>2. ASSUME NEW due \in SUBSET ToSet(Rules), NEW quiet \in Waits, Idle(due, quiet)
      PROVE  /\ events' \in Seq(Event) /\ Count' = Count
             /\ \A f \in 0 .. Count + 1 :
                  Steady(st, Count, Count, f) => Steady(st', Count', Count', f)
  <2> DEFINE e == [kind |-> "idle", due |-> due, quiet |-> quiet, at |-> Count]
  <2>1. quiet \in Nat BY ExtractAssumption
  <2>2. st' = Apply(st, e) /\ events' = Append(events, e) BY <1>2 DEF Idle
  <2>3. Apply(st, e) = Prune(FlushIdle(st, due, quiet)) BY DEF Apply
  <2>4. e \in Event /\ e.at = Count BY <1>0, <2>1 DEF Event
  <2> HIDE DEF e
  <2>5. Count' = Count /\ events' \in Seq(Event) BY <1>0, <2>2, <2>4, CountAfter
  <2>6. ASSUME NEW f \in 0 .. Count + 1, Steady(st, Count, Count, f)
        PROVE  Steady(st', Count, Count, f)
    <3>1. f \in Nat BY <1>0
    <3>2. Steady(FlushIdle(st, due, quiet), Count, Count, f) BY <1>0, <2>6, <3>1, FlushIdleSound
    <3> QED BY <1>0, <2>2, <2>3, <3>2, PruneSteady
  <2> QED BY <2>5, <2>6
<1> QED BY <1>0, <1>1, <1>2 DEF Next

LEMMA InitInv == Init => IInv
<1> SUFFICES ASSUME Init PROVE IInv OBVIOUS
<1>1. events = <<>> /\ st = NewStream BY DEF Init
<1>2. events \in Seq(Event) /\ Count = 0 BY <1>1 DEF Count
<1>3. /\ st.bufs = [r \in {} |-> 0] /\ st.wins = {} /\ st.made = 0 /\ st.holds = {}
      /\ st.lastTS = NoTS /\ st.rows = {} /\ st.refused = {}
      /\ st = [bufs |-> st.bufs, wins |-> st.wins, made |-> st.made, holds |-> st.holds,
               lastTS |-> st.lastTS, rows |-> st.rows, refused |-> st.refused, shed |-> st.shed]
  BY <1>1 DEF NewStream
<1>4. DOMAIN st.bufs = {} BY <1>3
<1>5. Shaped(st, 0) BY <1>3, <1>4 DEF Shaped
<1>6. Listed(st) BY <1>3 DEF Listed
<1>7. Clear(st, 0) BY <1>3, <1>4 DEF Clear
<1>8. Rowed(st) = {} /\ Windowed(st) = {} /\ Joining(st) = {}
  BY <1>3, <1>4 DEF Rowed, Windowed, Joining
<1>9. Apart(st) /\ Taken(st) = {} BY <1>3, <1>8 DEF Apart, Taken
<1>10. Waiting(st, 0) BY <1>4, <1>8, <1>9 DEF Waiting
<1> QED BY <1>2, <1>5, <1>6, <1>7, <1>9, <1>10 DEF IInv, Steady, Sound

LEMMA NextInv == IInv /\ [Next]_vars => IInv'
<1> SUFFICES ASSUME IInv, [Next]_vars PROVE IInv' OBVIOUS
<1>1. CASE Next
  <2>1. /\ events' \in Seq(Event) /\ Count \in Nat
        /\ \A f \in 0 .. Count + 1 :
             Steady(st, Count, Count, f) => Steady(st', Count', Count', f)
    BY <1>1, StepSteady
  <2>2. 0 \in 0 .. Count + 1 BY <2>1
  <2>3. Steady(st', Count', Count', 0) BY <2>1, <2>2 DEF IInv
  <2> QED BY <2>1, <2>3 DEF IInv
<1>2. CASE UNCHANGED vars
  <2>1. st' = st /\ events' = events BY <1>2 DEF vars
  <2>2. Count' = Count BY <2>1 DEF Count
  <2> QED BY <2>1, <2>2 DEF IInv
<1> QED BY <1>1, <1>2

LEMMA InvHolds == Spec => []IInv
<1>1. Init => IInv BY InitInv
<1>2. IInv /\ [Next]_vars => IInv' BY NextInv
<1> QED BY <1>1, <1>2, PTL DEF Spec

-----------------------------------------------------------------------------
(* Windows and time.                                                       *)

LineEvent == [kind : {"line"}, line : LineType, at : Nat]

\* The records among these lines are earlier than t; E are the lines that were read.
Early(E, from, t) ==
  \A e \in E : e.at \in from /\ e.line.cont = {} => e.line.ts < t

IsStream(s) ==
  s = [bufs |-> s.bufs, wins |-> s.wins, made |-> s.made, holds |-> s.holds,
       lastTS |-> s.lastTS, rows |-> s.rows, refused |-> s.refused, shed |-> s.shed]

WindowTimely(E, w) ==
  /\ w = [key |-> w.key, rank |-> w.rank, mode |-> w.mode, born |-> w.born, start |-> w.start,
          end |-> w.end, val |-> w.val, has |-> w.has, mark |-> w.mark, last |-> w.last,
          from |-> w.from]
  /\ w.rank \in Nat /\ w.start \in Nat /\ w.end = w.start + Every
  /\ Early(E, w.from, w.end)

RecordTimely(E, b) ==
  /\ b = [line |-> b.line, ts |-> b.ts, parts |-> b.parts, mark |-> b.mark, last |-> b.last,
          from |-> b.from]
  /\ b.line \in LineType /\ b.ts \in Nat /\ Early(E, b.from, b.ts + 1)

\* No window, row or open record has a record that is too late for it.
Timely(s, E) ==
  /\ IsStream(s)
  /\ \A w \in s.wins : WindowTimely(E, w)
  /\ \A x \in s.rows : x.mode # "plain" => Early(E, x.from, x.ts + Every)
  /\ \A r \in DOMAIN s.bufs : RecordTimely(E, s.bufs[r])

\* t has the windows, rows and open records of s.
LEMMA SameTimely ==
  ASSUME NEW E, NEW s, Timely(s, E), NEW t, IsStream(t), t.wins = s.wins, t.rows = s.rows,
         t.bufs = s.bufs
  PROVE  Timely(t, E)
BY DEF Timely

LEMMA PruneRelists ==
  ASSUME NEW s, IsStream(s)
  PROVE  Relisted(s, Prune(s))
<1>1. Prune(s) = s \/ \E h : Prune(s) = [s EXCEPT !.holds = h] BY DEF Prune
<1>2. Relisted(s, s) BY DEF IsStream, Relisted
<1>3. ASSUME NEW h PROVE Relisted(s, [s EXCEPT !.holds = h]) BY DEF IsStream, Relisted
<1> QED BY <1>1, <1>2, <1>3

LEMMA AddHoldRelists ==
  ASSUME NEW s, IsStream(s), NEW e
  PROVE  Relisted(s, AddHold(s, e))
<1> DEFINE h == s.holds \cup {e}
           u == [s EXCEPT !.holds = h]
<1>1. AddHold(s, e) = Prune(u) BY DEF AddHold
<1> HIDE DEF h
<1>2. Relisted(s, u) /\ IsStream(u) BY DEF IsStream, Relisted
<1> HIDE DEF u
<1>3. Relisted(u, Prune(u)) BY <1>2, PruneRelists
<1>4. Relisted(s, Prune(u)) BY <1>2, <1>3 DEF Relisted
<1> QED BY <1>1, <1>4

LEMMA HoldRecordRelists ==
  ASSUME NEW s, IsStream(s), NEW b, NEW through
  PROVE  Relisted(s, HoldRecord(s, b, through))
<1>1. HoldRecord(s, b, through) = s \/ \E e : HoldRecord(s, b, through) = AddHold(s, e)
  BY DEF HoldRecord
<1>2. Relisted(s, s) BY DEF IsStream, Relisted
<1> QED BY <1>1, <1>2, AddHoldRelists

LEMMA RelistTimely ==
  ASSUME NEW E, NEW s, Timely(s, E), NEW t, Relisted(s, t)
  PROVE  Timely(t, E) /\ t.bufs = s.bufs /\ t.wins = s.wins
<1>1. t.wins = s.wins /\ t.rows = s.rows /\ t.bufs = s.bufs BY RelistedFacts
<1>2. IsStream(t)
  <2>1. /\ t.made = s.made /\ t.lastTS = s.lastTS /\ t.refused = s.refused /\ t.shed = s.shed
    BY RelistedFacts
  <2> QED BY <1>1, <2>1 DEF Relisted, IsStream
<1> QED BY <1>1, <1>2, SameTimely

\* A window that closes leaves its lines to its row.
LEMMA EmitTimely ==
  ASSUME NEW E, NEW s, Timely(s, E), NEW gone \in SUBSET s.wins
  PROVE  /\ Timely(Emit(s, gone), E) /\ Emit(s, gone).wins = s.wins \ gone
         /\ Emit(s, gone).bufs = s.bufs
<1> DEFINE t == Emit(s, gone)
           R == {RowOf(w) : w \in {x \in gone : Measured(x)}}
           N == UNION {w.from : w \in {x \in gone : ~Measured(x)}}
<1>0. IsStream(s) BY DEF Timely
<1>1. t = [s EXCEPT !.wins = @ \ gone, !.rows = @ \cup R, !.refused = @ \cup N] BY DEF Emit
<1>2. ASSUME NEW x \in R PROVE x.mode # "plain" => Early(E, x.from, x.ts + Every)
  <2>1. PICK w \in gone : x = RowOf(w) BY <1>2
  <2>2. WindowTimely(E, w) BY <2>1 DEF Timely
  <2>3. x.from = w.from /\ x.ts = w.start BY <2>1 DEF RowOf
  <2> QED BY <2>2, <2>3 DEF WindowTimely
<1> HIDE DEF R, N, t
<1>3. /\ t = [bufs |-> s.bufs, wins |-> s.wins \ gone, made |-> s.made, holds |-> s.holds,
              lastTS |-> s.lastTS, rows |-> s.rows \cup R, refused |-> s.refused \cup N,
              shed |-> s.shed]
  BY <1>0, <1>1 DEF IsStream
<1>4. t.wins = s.wins \ gone /\ t.rows = s.rows \cup R /\ t.bufs = s.bufs /\ IsStream(t)
  BY <1>3 DEF IsStream
<1>5. Timely(t, E) BY <1>2, <1>4 DEF Timely
<1> QED BY <1>4, <1>5 DEF t

\* After the time has passed, every window that is open ends later.
LEMMA CloseExpiredTimely ==
  ASSUME NEW E, NEW s, Timely(s, E), NEW now
  PROVE  /\ Timely(CloseExpired(s, now), E) /\ CloseExpired(s, now).bufs = s.bufs
         /\ now \in Nat => \A w \in CloseExpired(s, now).wins : now < w.end
<1> DEFINE gone == {w \in s.wins : w.end <= now}
<1>1. gone \in SUBSET s.wins OBVIOUS
<1>2. CloseExpired(s, now) = s \/ CloseExpired(s, now) = Emit(s, gone) BY DEF CloseExpired
<1>3. now \in Nat => CloseExpired(s, now) = Emit(s, gone) BY DEF CloseExpired, NoTS
<1>4. ASSUME now \in Nat, NEW w \in s.wins \ gone PROVE now < w.end
  <2>1. w.start \in Nat /\ w.end = w.start + Every BY DEF Timely, WindowTimely
  <2>2. Every \in Nat BY ExtractAssumption
  <2>3. w.end \in Nat BY <2>1, <2>2
  <2> QED BY <1>4, <2>3
<1> HIDE DEF gone
<1>5. Timely(Emit(s, gone), E) /\ Emit(s, gone).wins = s.wins \ gone /\ Emit(s, gone).bufs = s.bufs
  BY <1>1, EmitTimely
<1> QED BY <1>2, <1>3, <1>4, <1>5

LEMMA ShedTimely ==
  ASSUME NEW E, NEW s, Timely(s, E)
  PROVE  Timely(ShedOldest(s), E) /\ ShedOldest(s).bufs = s.bufs
<1>1. CASE Cardinality(s.wins) <= MaxOpen BY <1>1 DEF ShedOldest
<1>2. CASE ~(Cardinality(s.wins) <= MaxOpen)
  <2> DEFINE first == CHOOSE w \in s.wins : \A x \in s.wins :
                        w.end < x.end \/ (w.end = x.end /\ w.rank <= x.rank)
             u == Emit(s, {first})
             t == [u EXCEPT !.shed = @ + 1]
  <2>1. s.wins # {}
    <3>1. Cardinality({}) = 0 BY FS_EmptySet
    <3>2. MaxOpen \in Nat BY ExtractAssumption
    <3> QED BY <1>2, <3>1, <3>2
  <2>2. first \in s.wins
    <3>1. ASSUME NEW w \in s.wins PROVE w.end \in Nat /\ w.rank \in Nat
      <4>1. WindowTimely(E, w) BY DEF Timely
      <4>2. Every \in Nat BY ExtractAssumption
      <4> QED BY <4>1, <4>2 DEF WindowTimely
    <3> QED BY <2>1, <3>1, FirstWindow
  <2>3. ShedOldest(s) = t BY <1>2 DEF ShedOldest
  <2> HIDE DEF first
  <2>4. {first} \in SUBSET s.wins BY <2>2
  <2>5. Timely(u, E) /\ u.bufs = s.bufs BY <2>4, EmitTimely
  <2> HIDE DEF u
  <2>6. t.wins = u.wins /\ t.rows = u.rows /\ t.bufs = u.bufs /\ IsStream(t)
    BY <2>5 DEF Timely, IsStream
  <2> HIDE DEF t
  <2> QED BY <2>3, <2>5, <2>6, SameTimely
<1> QED BY <1>1, <1>2

LEMMA TimeIsInt ==
  ASSUME NEW line \in LineType
  PROVE  line.ts \in Int /\ (line.ts # NoTS => line.ts \in Nat)
<1>1. line.ts \in Nat \cup {NoTS} BY DEF LineType
<1> QED BY <1>1 DEF NoTS

\* A record that reaches an open window is earlier than its end.
LEMMA FoldTimely ==
  ASSUME NEW E, NEW s, Timely(s, E), NEW w \in s.wins, NEW line, NEW mark, NEW from,
         Early(E, from, w.end)
  PROVE  Timely(FoldInto(s, w, line, mark, from), E) /\ FoldInto(s, w, line, mark, from).bufs = s.bufs
<1> DEFINE high == Max({w.last, mark})
           low == Min({w.mark, mark})
           val == Folded(w, line)
           has == IF line.has = "yes" THEN "yes" ELSE w.has
           all == w.from \cup from
           g == [w EXCEPT !.last = high, !.mark = low, !.from = all, !.val = val, !.has = has]
           W == (s.wins \ {w}) \cup {g}
           u == [s EXCEPT !.wins = W]
           mine == {e \in u.holds : e.key = g.key /\ e.born = g.born}
           few == u.holds \ mine
           others == [u EXCEPT !.holds = few]
           more == others.holds \cup {Entry(g)}
           v == [others EXCEPT !.holds = more]
<1>0. IsStream(s) /\ WindowTimely(E, w) BY DEF Timely
<1>1. FoldInto(s, w, line, mark, from) = Rehold(u, g) BY DEF FoldInto
<1>2. Rehold(u, g) = v \/ Rehold(u, g) = AddHold(others, Entry(g)) BY DEF Rehold
<1>3. WindowTimely(E, g)
  <2>1. Early(E, all, w.end) BY <1>0 DEF WindowTimely, Early
  <2> HIDE DEF high, low, val, has, all
  <2>0. g = [w EXCEPT !.last = high, !.mark = low, !.from = all, !.val = val, !.has = has]
    OBVIOUS
  <2> HIDE DEF g
  <2>2. /\ w = [key |-> w.key, rank |-> w.rank, mode |-> w.mode, born |-> w.born, start |-> w.start,
                end |-> w.end, val |-> w.val, has |-> w.has, mark |-> w.mark, last |-> w.last,
                from |-> w.from]
    BY <1>0 DEF WindowTimely
  <2>3. /\ g = [key |-> g.key, rank |-> g.rank, mode |-> g.mode, born |-> g.born, start |-> g.start,
                end |-> g.end, val |-> g.val, has |-> g.has, mark |-> g.mark, last |-> g.last,
                from |-> g.from]
        /\ g.rank = w.rank /\ g.start = w.start /\ g.end = w.end /\ g.from = all
    BY <2>0, <2>2
  <2> QED BY <1>0, <2>1, <2>3 DEF WindowTimely
<1> HIDE DEF g, high, low, val, has, all
<1>4. u.wins = W /\ u.rows = s.rows /\ u.bufs = s.bufs /\ IsStream(u) BY <1>0 DEF IsStream
<1> HIDE DEF u
<1>5. Timely(u, E) BY <1>3, <1>4 DEF Timely
<1> HIDE DEF few, mine
<1>6. Relisted(u, others) BY <1>4 DEF IsStream, Relisted
<1> HIDE DEF others
<1>7. Timely(others, E) /\ others.bufs = s.bufs BY <1>4, <1>5, <1>6, RelistTimely
<1> HIDE DEF more
<1>8. Relisted(others, v) BY <1>7 DEF Timely, IsStream, Relisted
<1> HIDE DEF v
<1>9. Timely(v, E) /\ v.bufs = s.bufs BY <1>7, <1>8, RelistTimely
<1>10. Relisted(others, AddHold(others, Entry(g))) BY <1>7, AddHoldRelists DEF Timely
<1>11. /\ Timely(AddHold(others, Entry(g)), E)
       /\ AddHold(others, Entry(g)).bufs = s.bufs
  BY <1>7, <1>10, RelistTimely
<1> QED BY <1>1, <1>2, <1>9, <1>11

LEMMA OpenTimely ==
  ASSUME NEW E, E \subseteq LineEvent, NEW s, Timely(s, E), NEW line \in LineType, NEW ts \in Nat,
         NEW mark, NEW from, Early(E, from, ts + 1)
  PROVE  /\ Timely(OpenWindow(s, line, ts, mark, from), E)
         /\ OpenWindow(s, line, ts, mark, from).bufs = s.bufs
<1> DEFINE val == IF line.mode = "increment" THEN 1
                  ELSE IF line.has = "yes" THEN line.val ELSE 0
           has == IF line.mode = "increment" THEN "yes" ELSE line.has
           one == s.made + 1
           w == [key |-> line.key, rank |-> line.rank, mode |-> line.mode, born |-> one,
                 start |-> ts, end |-> ts + Every, val |-> val, has |-> has,
                 mark |-> mark, last |-> mark, from |-> from]
           W == s.wins \cup {w}
           u == [s EXCEPT !.wins = W, !.made = one]
           v == AddHold(u, Entry(w))
<1>0. IsStream(s) BY DEF Timely
<1>1. OpenWindow(s, line, ts, mark, from) = ShedOldest(v) BY DEF OpenWindow
<1> HIDE DEF val, has, one
<1>2. WindowTimely(E, w)
  <2>0. Every \in Nat \ {0} BY ExtractAssumption
  <2>1. Every \in Nat /\ Every >= 1 BY <2>0
  <2>2. line.rank \in Nat BY DEF LineType
  <2>3. ASSUME NEW e \in E, e.at \in from, e.line.cont = {} PROVE e.line.ts < ts + Every
    <3>1. e.line \in LineType BY DEF LineEvent
    <3>2. e.line.ts \in Int BY <3>1, TimeIsInt
    <3>3. e.line.ts < ts + 1 BY <2>3 DEF Early
    <3> QED BY <2>1, <3>2, <3>3
  <2>4. Early(E, from, ts + Every) BY <2>3 DEF Early
  <2>5. /\ w = [key |-> w.key, rank |-> w.rank, mode |-> w.mode, born |-> w.born, start |-> w.start,
                end |-> w.end, val |-> w.val, has |-> w.has, mark |-> w.mark, last |-> w.last,
                from |-> w.from]
        /\ w.rank = line.rank /\ w.start = ts /\ w.end = ts + Every /\ w.from = from
    OBVIOUS
  <2> HIDE DEF w
  <2> QED BY <2>2, <2>4, <2>5 DEF WindowTimely
<1> HIDE DEF w
<1>3. u.wins = W /\ u.rows = s.rows /\ u.bufs = s.bufs /\ IsStream(u)
  <2>1. u = [s EXCEPT !.wins = W, !.made = one] OBVIOUS
  <2> HIDE DEF W, u
  <2>2. /\ s = [bufs |-> s.bufs, wins |-> s.wins, made |-> s.made, holds |-> s.holds,
                lastTS |-> s.lastTS, rows |-> s.rows, refused |-> s.refused, shed |-> s.shed]
    BY <1>0 DEF IsStream
  <2>3. /\ u = [bufs |-> s.bufs, wins |-> W, made |-> one, holds |-> s.holds,
                lastTS |-> s.lastTS, rows |-> s.rows, refused |-> s.refused, shed |-> s.shed]
    BY <2>1, <2>2
  <2> QED BY <2>3 DEF IsStream
<1> HIDE DEF u
<1>4. Timely(u, E) BY <1>2, <1>3 DEF Timely
<1>5. Relisted(u, v) BY <1>3, AddHoldRelists
<1> HIDE DEF v
<1>6. Timely(v, E) /\ v.bufs = s.bufs BY <1>3, <1>4, <1>5, RelistTimely
<1> QED BY <1>1, <1>6, ShedTimely

LEMMA RefuseTimely ==
  ASSUME NEW E, NEW s, Timely(s, E), NEW from
  PROVE  Timely(Refuse(s, from), E) /\ Refuse(s, from).bufs = s.bufs
<1> DEFINE all == s.refused \cup from
           t == [s EXCEPT !.refused = all]
<1>1. Refuse(s, from) = t BY DEF Refuse
<1> HIDE DEF all
<1>2. t.wins = s.wins /\ t.rows = s.rows /\ t.bufs = s.bufs /\ IsStream(t)
  BY DEF Timely, IsStream
<1> HIDE DEF t
<1> QED BY <1>1, <1>2, SameTimely

\* A record closes the windows that ended by its time before it looks for one to join.
LEMMA ProcessAtTimely ==
  ASSUME NEW E, E \subseteq LineEvent, NEW s, Timely(s, E), NEW line \in LineType, NEW ts \in Nat,
         NEW mark, NEW from, Early(E, from, ts + 1)
  PROVE  /\ Timely(ProcessAt(s, line, ts, mark, from), E)
         /\ ProcessAt(s, line, ts, mark, from).bufs = s.bufs
<1> DEFINE t == ProcessAt(s, line, ts, mark, from)
           c == CloseExpired(s, ts)
           row == [ts |-> ts, key |-> "", mode |-> "plain", val |-> line.val, from |-> from]
           R == c.rows \cup {row}
           p == [c EXCEPT !.rows = R]
           open == {w \in c.wins : w.key = line.key}
           x == CHOOSE w \in open : TRUE
<1>1. Timely(c, E) /\ c.bufs = s.bufs /\ \A w \in c.wins : ts < w.end BY CloseExpiredTimely
<1>2. \/ t = Refuse(s, from) \/ t = p \/ t = Refuse(c, from)
      \/ t = OpenWindow(c, line, ts, mark, from)
      \/ open # {} /\ t = FoldInto(c, x, line, mark, from)
  BY DEF ProcessAt, Aggregate
<1>3. open # {} => x \in c.wins OBVIOUS
<1>4. row.mode = "plain" OBVIOUS
<1> HIDE DEF c, t, open, x, row
<1>5. Timely(Refuse(s, from), E) /\ Refuse(s, from).bufs = s.bufs BY RefuseTimely
<1>6. Timely(Refuse(c, from), E) /\ Refuse(c, from).bufs = s.bufs BY <1>1, RefuseTimely
<1>7. Timely(p, E) /\ p.bufs = s.bufs
  <2> HIDE DEF R
  <2>1. p.wins = c.wins /\ p.rows = R /\ p.bufs = c.bufs /\ IsStream(p)
    BY <1>1 DEF Timely, IsStream
  <2> HIDE DEF p
  <2> QED BY <1>1, <1>4, <2>1 DEF Timely, R
<1>8. /\ Timely(OpenWindow(c, line, ts, mark, from), E)
      /\ OpenWindow(c, line, ts, mark, from).bufs = s.bufs
  BY <1>1, OpenTimely
<1>9. ASSUME open # {}
      PROVE  /\ Timely(FoldInto(c, x, line, mark, from), E)
             /\ FoldInto(c, x, line, mark, from).bufs = s.bufs
  <2>1. x \in c.wins /\ ts < x.end BY <1>1, <1>3, <1>9
  <2>2. WindowTimely(E, x) BY <1>1, <2>1 DEF Timely
  <2>3. x.end \in Nat
    <3>1. Every \in Nat BY ExtractAssumption
    <3> QED BY <2>2, <3>1 DEF WindowTimely
  <2>4. ASSUME NEW e \in E, e.at \in from, e.line.cont = {} PROVE e.line.ts < x.end
    <3>1. e.line \in LineType BY DEF LineEvent
    <3>2. e.line.ts \in Int BY <3>1, TimeIsInt
    <3>3. e.line.ts < ts + 1 BY <2>4 DEF Early
    <3> QED BY <2>1, <2>3, <3>2, <3>3
  <2>5. Early(E, from, x.end) BY <2>4 DEF Early
  <2> QED BY <1>1, <2>1, <2>5, FoldTimely
<1> QED BY <1>2, <1>5, <1>6, <1>7, <1>8, <1>9 DEF t

LEMMA ProcessBufferedTimely ==
  ASSUME NEW E, E \subseteq LineEvent, NEW s, Timely(s, E), NEW b, RecordTimely(E, b)
  PROVE  Timely(ProcessBuffered(s, b), E) /\ ProcessBuffered(s, b).bufs = s.bufs
<1>1. b.line \in LineType /\ b.ts \in Nat /\ Early(E, b.from, b.ts + 1) BY DEF RecordTimely
<1> QED BY <1>1, ProcessAtTimely DEF ProcessBuffered

LEMMA ClosedTimely ==
  ASSUME NEW E, NEW s, Timely(s, E), NEW r
  PROVE  Timely(Closed(s, r), E)
<1> DEFINE t == Closed(s, r)
           h == [x \in DOMAIN s.bufs \ {r} |-> s.bufs[x]]
<1>1. t = [s EXCEPT !.bufs = h] BY DEF Closed
<1>2. DOMAIN h = DOMAIN s.bufs \ {r} /\ \A x \in DOMAIN s.bufs \ {r} : h[x] = s.bufs[x] OBVIOUS
<1> HIDE DEF h, t
<1>3. t.wins = s.wins /\ t.rows = s.rows /\ t.bufs = h /\ IsStream(t)
  BY <1>1 DEF Timely, IsStream
<1>4. Timely(t, E) BY <1>2, <1>3 DEF Timely
<1> QED BY <1>4 DEF t

LEMMA BufferedTimely ==
  ASSUME NEW E, NEW s, Timely(s, E), NEW r, NEW b, RecordTimely(E, b)
  PROVE  Timely(Buffered(s, r, b), E)
<1> DEFINE t == Buffered(s, r, b)
           h == [x \in DOMAIN s.bufs \cup {r} |-> IF x = r THEN b ELSE s.bufs[x]]
<1>1. t = [s EXCEPT !.bufs = h] BY DEF Buffered
<1>2. /\ DOMAIN h = DOMAIN s.bufs \cup {r} /\ h[r] = b
      /\ \A x \in DOMAIN s.bufs \ {r} : h[x] = s.bufs[x]
  OBVIOUS
<1> HIDE DEF h, t
<1>3. t.wins = s.wins /\ t.rows = s.rows /\ t.bufs = h /\ IsStream(t)
  BY <1>1 DEF Timely, IsStream
<1>4. \A x \in DOMAIN h : RecordTimely(E, h[x]) BY <1>2 DEF Timely
<1>5. Timely(t, E) BY <1>3, <1>4 DEF Timely
<1> QED BY <1>5 DEF t

\* What is joined to a record changes neither its time nor its lines.
LEMMA JoinedTimely ==
  ASSUME NEW E, NEW b, RecordTimely(E, b), NEW line \in LineType
  PROVE  RecordTimely(E, Joined(b, line)) /\ Joined(b, line).from = b.from /\ Joined(b, line).ts = b.ts
<1> DEFINE parts == b.parts + 1
           more == [b EXCEPT !.parts = parts]
           text == [b.line EXCEPT !.has = line.has, !.val = line.val]
           full == [more EXCEPT !.line = text]
<1>0. /\ b = [line |-> b.line, ts |-> b.ts, parts |-> b.parts, mark |-> b.mark, last |-> b.last,
              from |-> b.from]
      /\ b.line \in LineType /\ b.ts \in Nat /\ Early(E, b.from, b.ts + 1)
  BY DEF RecordTimely
<1>1. Joined(b, line) = more \/ Joined(b, line) = [more EXCEPT !.line.has = line.has, !.line.val = line.val]
  BY DEF Joined
<1> HIDE DEF parts
<1>2. /\ more = [line |-> b.line, ts |-> b.ts, parts |-> parts, mark |-> b.mark,
                 last |-> b.last, from |-> b.from]
  BY <1>0
<1>3. text \in LineType
  <2>1. line.has \in {"yes", "no", "junk"} /\ line.val \in Int BY DEF LineType
  <2> QED BY <1>0, <2>1 DEF LineType
<1> HIDE DEF more
<1>4. [more EXCEPT !.line.has = line.has, !.line.val = line.val] = full
  <2>1. more.line = b.line BY <1>2
  <2> QED BY <1>2, <2>1
<1> HIDE DEF text
<1>5. /\ full = [line |-> text, ts |-> b.ts, parts |-> parts, mark |-> b.mark,
                 last |-> b.last, from |-> b.from]
  BY <1>2
<1> HIDE DEF full
<1>6. RecordTimely(E, more) /\ more.from = b.from /\ more.ts = b.ts BY <1>0, <1>2 DEF RecordTimely
<1>7. RecordTimely(E, full) /\ full.from = b.from /\ full.ts = b.ts BY <1>0, <1>3, <1>5 DEF RecordTimely
<1> QED BY <1>1, <1>4, <1>6, <1>7

LEMMA ContinueTimely ==
  ASSUME NEW E, E \subseteq LineEvent, NEW s, Timely(s, E), NEW line \in LineType, NEW n,
         line.cont # {}, NEW r \in DOMAIN s.bufs, \A e \in E : e.at = n => e.line = line
  PROVE  Timely(Continue(s, r, line, n), E)
<1> DEFINE b == s.bufs[r]
           s1 == Closed(s, r)
           s2 == HoldRecord(s1, b, n)
           s3 == ProcessBuffered(s2, b)
           jb == Joined(b, line)
           all == jb.from \cup {n}
           j == [jb EXCEPT !.last = n, !.from = all]
           i == [b EXCEPT !.last = n]
           v == Buffered(s, r, i)
<1>0. RecordTimely(E, b) BY DEF Timely
<1>1. \/ Continue(s, r, line, n) = Refuse(s3, {n}) \/ Continue(s, r, line, n) = Buffered(s, r, j)
      \/ Continue(s, r, line, n) = Refuse(v, {n})
  BY DEF Continue
<1> HIDE DEF b
<1>2. Timely(Refuse(s3, {n}), E)
  <2>1. Timely(s1, E) BY ClosedTimely
  <2> HIDE DEF s1
  <2>2. Relisted(s1, s2) BY <2>1, HoldRecordRelists DEF Timely
  <2>3. Timely(s2, E) BY <2>1, <2>2, RelistTimely
  <2> HIDE DEF s2
  <2>4. Timely(s3, E) BY <1>0, <2>3, ProcessBufferedTimely
  <2> HIDE DEF s3
  <2> QED BY <2>4, RefuseTimely
<1>3. Timely(Buffered(s, r, j), E)
  <2>1. RecordTimely(E, jb) BY <1>0, JoinedTimely
  <2>2. Early(E, all, jb.ts + 1) BY <2>1 DEF RecordTimely, Early
  <2> HIDE DEF jb, all
  <2>0. /\ jb = [line |-> jb.line, ts |-> jb.ts, parts |-> jb.parts, mark |-> jb.mark,
                 last |-> jb.last, from |-> jb.from]
    BY <2>1 DEF RecordTimely
  <2>5. j = [jb EXCEPT !.last = n, !.from = all] OBVIOUS
  <2> HIDE DEF j
  <2>3. /\ j = [line |-> jb.line, ts |-> jb.ts, parts |-> jb.parts, mark |-> jb.mark, last |-> n,
                from |-> all]
    BY <2>0, <2>5
  <2>4. RecordTimely(E, j) BY <2>1, <2>2, <2>3 DEF RecordTimely
  <2> QED BY <2>4, BufferedTimely
<1>4. Timely(Refuse(v, {n}), E)
  <2>0. /\ b = [line |-> b.line, ts |-> b.ts, parts |-> b.parts, mark |-> b.mark, last |-> b.last,
                from |-> b.from]
    BY <1>0 DEF RecordTimely
  <2>4. i = [b EXCEPT !.last = n] OBVIOUS
  <2> HIDE DEF i
  <2>1. /\ i = [line |-> b.line, ts |-> b.ts, parts |-> b.parts, mark |-> b.mark, last |-> n,
                from |-> b.from]
    BY <2>0, <2>4
  <2>2. RecordTimely(E, i) BY <1>0, <2>1 DEF RecordTimely
  <2>3. Timely(v, E) BY <2>2, BufferedTimely
  <2> HIDE DEF v
  <2> QED BY <2>3, RefuseTimely
<1> QED BY <1>1, <1>2, <1>3, <1>4

LEMMA StartTimely ==
  ASSUME NEW E, E \subseteq LineEvent, NEW s, Timely(s, E), NEW line \in LineType, NEW n,
         line.ts \in Nat, Early(E, {n}, line.ts + 1)
  PROVE  Timely(Start(s, line, n), E)
<1> DEFINE r == line.start
           b == s.bufs[r]
           held == HoldRecord(s, b, 0)
           u == IF r \in DOMAIN s.bufs THEN ProcessBuffered(held, b) ELSE s
           new == [line |-> line, ts |-> line.ts, parts |-> 0, mark |-> n, last |-> n, from |-> {n}]
<1>1. Start(s, line, n) = Buffered(u, r, new) BY DEF Start
<1>2. RecordTimely(E, new) BY DEF RecordTimely
<1>3. Timely(u, E)
  <2>1. CASE r \notin DOMAIN s.bufs BY <2>1
  <2>2. CASE r \in DOMAIN s.bufs
    <3>1. RecordTimely(E, b) BY <2>2 DEF Timely
    <3>2. Relisted(s, held) BY HoldRecordRelists DEF Timely
    <3>3. Timely(held, E) BY <3>2, RelistTimely
    <3> HIDE DEF held, b
    <3>4. Timely(ProcessBuffered(held, b), E) BY <3>1, <3>3, ProcessBufferedTimely
    <3> QED BY <2>2, <3>4
  <2> QED BY <2>1, <2>2
<1> HIDE DEF u, new
<1> QED BY <1>1, <1>2, <1>3, BufferedTimely

LEMMA ProcessTimely ==
  ASSUME NEW E, E \subseteq LineEvent, NEW s, Timely(s, E), NEW line \in LineType, NEW n,
         \A e \in E : e.at = n => e.line = line
  PROVE  Timely(Process(s, line, n), E)
<1> DEFINE timed == [s EXCEPT !.lastTS = line.ts]
<1>1. CASE Continues(s, line) # {}
  <2> DEFINE r == FirstOf(Continues(s, line))
  <2>1. Process(s, line, n) = Continue(s, r, line, n) BY <1>1 DEF Process
  <2>2. r \in DOMAIN s.bufs /\ line.cont # {} BY <1>1, FirstContinued
  <2> HIDE DEF r
  <2> QED BY <2>1, <2>2, ContinueTimely
<1>2. CASE Continues(s, line) = {}
  <2>1. \/ Process(s, line, n) = Refuse(s, {n}) \/ Process(s, line, n) = Refuse(timed, {n})
        \/ line.ts # NoTS /\ Process(s, line, n) = Start(timed, line, n)
        \/ line.ts # NoTS /\ Process(s, line, n) = ProcessAt(timed, line, line.ts, n, {n})
    BY <1>2 DEF Process
  <2>2. timed.wins = s.wins /\ timed.rows = s.rows /\ timed.bufs = s.bufs /\ IsStream(timed)
    BY DEF Timely, IsStream
  <2> HIDE DEF timed
  <2>3. Timely(timed, E) BY <2>2, SameTimely
  <2>4. Timely(Refuse(s, {n}), E) /\ Timely(Refuse(timed, {n}), E) BY <2>3, RefuseTimely
  <2>5. ASSUME line.ts # NoTS
        PROVE  /\ Timely(Start(timed, line, n), E)
               /\ Timely(ProcessAt(timed, line, line.ts, n, {n}), E)
    <3>1. line.ts \in Nat BY <2>5, TimeIsInt
    <3>2. line.ts < line.ts + 1 BY <3>1
    <3>3. Early(E, {n}, line.ts + 1) BY <3>2 DEF Early
    <3>4. Timely(Start(timed, line, n), E) BY <2>3, <3>1, <3>3, StartTimely
    <3>5. Timely(ProcessAt(timed, line, line.ts, n, {n}), E) BY <2>3, <3>1, <3>3, ProcessAtTimely
    <3> QED BY <3>4, <3>5
  <2> QED BY <2>1, <2>4, <2>5
<1> QED BY <1>1, <1>2

LEMMA IdleRuleTimely ==
  ASSUME NEW E, E \subseteq LineEvent, NEW s, Timely(s, E), NEW r
  PROVE  Timely(IdleRule(s, r), E)
<1> DEFINE b == s.bufs[r]
           held == HoldRecord(s, b, 0)
           u == ProcessBuffered(held, b)
<1>1. CASE r \notin DOMAIN s.bufs BY <1>1 DEF IdleRule
<1>2. CASE r \in DOMAIN s.bufs
  <2>1. IdleRule(s, r) = Closed(u, r) BY <1>2 DEF IdleRule
  <2>2. RecordTimely(E, b) BY <1>2 DEF Timely
  <2>3. Relisted(s, held) BY HoldRecordRelists DEF Timely
  <2>4. Timely(held, E) BY <2>3, RelistTimely
  <2> HIDE DEF held, b
  <2>5. Timely(u, E) BY <2>2, <2>4, ProcessBufferedTimely
  <2> HIDE DEF u
  <2> QED BY <2>1, <2>5, ClosedTimely
<1> QED BY <1>1, <1>2

LEMMA FlushIdleTimely ==
  ASSUME NEW E, E \subseteq LineEvent, NEW s, Timely(s, E), NEW due, NEW quiet
  PROVE  Timely(FlushIdle(s, due, quiet), E)
<1>0. Len(Rules) \in Nat BY RulesLength
<1>1. PICK g : /\ IdleRules(s, due) = g[Len(Rules)]
               /\ g[0] = s
               /\ \A i \in 1 .. Len(Rules) : g[i] = IdleStep(g[i - 1], due, i)
  BY WalkFacts
<1> DEFINE S == {i \in Nat : i <= Len(Rules) => Timely(g[i], E)}
<1>2. 0 \in S BY <1>1
<1>3. ASSUME NEW i \in S PROVE i + 1 \in S
  <2> SUFFICES ASSUME i + 1 <= Len(Rules) PROVE Timely(g[i + 1], E) OBVIOUS
  <2>1. Timely(g[i], E) BY <1>0
  <2>2. g[i + 1] = IdleStep(g[i], due, i + 1) BY <1>0, <1>1
  <2>3. Timely(IdleRule(g[i], Rules[i + 1]), E) BY <2>1, IdleRuleTimely
  <2> QED BY <2>1, <2>2, <2>3 DEF IdleStep
<1>4. S = Nat BY <1>2, <1>3, NatSet
<1>5. Timely(IdleRules(s, due), E) BY <1>0, <1>1, <1>4
<1> QED BY <1>5, CloseExpiredTimely DEF FlushIdle

\* The lines that were read.
Lined == {e \in ToSet(events) : e.kind = "line"}

TimeInv ==
  /\ Timely(st, Lined)
  /\ \A e \in Lined : e \in LineEvent /\ e.at \in 1 .. Count
  /\ \A n \in 1 .. Count : \E e \in Lined : e.at = n

LEMMA LinedAfter ==
  ASSUME events \in Seq(Event), NEW e \in Event, events' = Append(events, e)
  PROVE  \A x : x \in Lined' <=> x \in Lined \/ (x = e /\ e.kind = "line")
<1>1. /\ DOMAIN events = 1 .. Len(events) /\ Len(events) \in Nat
      /\ DOMAIN events' = 1 .. Len(events) + 1
      /\ events'[Len(events) + 1] = e /\ \A i \in 1 .. Len(events) : events'[i] = events[i]
  OBVIOUS
<1>2. \A x : x \in ToSet(events) <=> \E i \in 1 .. Len(events) : x = events[i] BY <1>1 DEF ToSet
<1>3. \A x : x \in ToSet(events') <=> \E i \in 1 .. Len(events) + 1 : x = events'[i]
  BY <1>1 DEF ToSet
<1>4. \A i : i \in 1 .. Len(events) + 1 <=> i \in 1 .. Len(events) \/ i = Len(events) + 1 BY <1>1
<1>5. \A x : x \in ToSet(events') <=> x \in ToSet(events) \/ x = e BY <1>1, <1>2, <1>3, <1>4
<1> QED BY <1>5 DEF Lined

\* A line that was not read before is in nothing.
LEMMA NewLineTimely ==
  ASSUME NEW s, NEW m \in Nat, Waiting(s, m), NEW E, NEW F, Timely(s, E),
         \A x \in F : x \in E \/ x.at = m + 1
  PROVE  Timely(s, F)
<1>1. m + 1 \notin 1 .. m OBVIOUS
<1>2. \A x : x \in Taken(s) \/ x \in Joining(s) => x \in 1 .. m BY DEF Waiting
<1>3. m + 1 \notin Taken(s) /\ m + 1 \notin Joining(s) BY <1>1, <1>2
<1>4. ASSUME NEW from, NEW t, m + 1 \notin from, Early(E, from, t) PROVE Early(F, from, t)
  BY <1>4 DEF Early
<1>5. \A w \in s.wins : WindowTimely(F, w)
  <2> SUFFICES ASSUME NEW w \in s.wins PROVE WindowTimely(F, w) OBVIOUS
  <2>1. m + 1 \notin w.from BY <1>3 DEF Taken, Windowed
  <2>2. WindowTimely(E, w) BY DEF Timely
  <2>3. Early(F, w.from, w.end) BY <1>4, <2>1, <2>2 DEF WindowTimely
  <2> QED BY <2>2, <2>3 DEF WindowTimely
<1>6. \A x \in s.rows : x.mode # "plain" => Early(F, x.from, x.ts + Every)
  <2> SUFFICES ASSUME NEW x \in s.rows, x.mode # "plain" PROVE Early(F, x.from, x.ts + Every) OBVIOUS
  <2>1. m + 1 \notin x.from BY <1>3 DEF Taken, Rowed
  <2>2. Early(E, x.from, x.ts + Every) BY DEF Timely
  <2> QED BY <1>4, <2>1, <2>2
<1>7. \A r \in DOMAIN s.bufs : RecordTimely(F, s.bufs[r])
  <2> SUFFICES ASSUME NEW r \in DOMAIN s.bufs PROVE RecordTimely(F, s.bufs[r]) OBVIOUS
  <2>1. m + 1 \notin s.bufs[r].from BY <1>3 DEF Joining
  <2>2. RecordTimely(E, s.bufs[r]) BY DEF Timely
  <2>3. Early(F, s.bufs[r].from, s.bufs[r].ts + 1) BY <1>4, <2>1, <2>2 DEF RecordTimely
  <2> QED BY <2>2, <2>3 DEF RecordTimely
<1> QED BY <1>5, <1>6, <1>7 DEF Timely

LEMMA PruneTimely ==
  ASSUME NEW E, NEW s, Timely(s, E)
  PROVE  Timely(Prune(s), E)
<1>1. Relisted(s, Prune(s)) BY PruneRelists DEF Timely
<1> QED BY <1>1, RelistTimely

LEMMA TimeNext == IInv /\ TimeInv /\ [Next]_vars => TimeInv'
<1> SUFFICES ASSUME IInv, TimeInv, [Next]_vars PROVE TimeInv' OBVIOUS
<1>0. /\ events \in Seq(Event) /\ Count \in Nat /\ Waiting(st, Count)
      /\ Timely(st, Lined) /\ (\A e \in Lined : e \in LineEvent /\ e.at \in 1 .. Count)
      /\ \A n \in 1 .. Count : \E e \in Lined : e.at = n
  BY CountFacts DEF IInv, TimeInv, Steady
<1>1. ASSUME NEW line \in UNION ToSet(Lines), Read(line) PROVE TimeInv'
  <2> DEFINE n == Count + 1
             e == [kind |-> "line", line |-> line, at |-> n]
  <2>1. line \in LineType BY ExtractAssumption
  <2>2. st' = Prune(Process(st, line, n)) /\ events' = Append(events, e) BY <1>1 DEF Read, Apply
  <2>3. e \in LineEvent /\ e \in Event /\ e.at = n /\ e.line = line /\ e.kind = "line"
    BY <1>0, <2>1 DEF Event, LineEvent
  <2> HIDE DEF e
  <2>4. Count' = n BY <1>0, <2>2, <2>3, CountAfter
  <2>5. \A x : x \in Lined' <=> x \in Lined \/ x = e BY <1>0, <2>2, <2>3, LinedAfter
  <2>6. \A x \in Lined' : x \in LineEvent /\ x.at \in 1 .. n BY <1>0, <2>3, <2>5
  <2>7. \A k \in 1 .. n : \E x \in Lined' : x.at = k
    <3>1. \A k \in 1 .. n : k \in 1 .. Count \/ k = n BY <1>0
    <3> QED BY <1>0, <2>3, <2>5, <3>1
  <2>8. Timely(st, Lined') BY <1>0, <2>3, <2>5, NewLineTimely
  <2>9. \A x \in Lined' : x.at = n => x.line = line
    <3>1. \A x \in Lined : x.at # n BY <1>0
    <3> QED BY <2>3, <2>5, <3>1
  <2>10. Lined' \subseteq LineEvent BY <2>6
  <2>11. Timely(Process(st, line, n), Lined') BY <2>1, <2>8, <2>9, <2>10, ProcessTimely
  <2>12. Timely(st', Lined') BY <2>2, <2>11, PruneTimely
  <2> QED BY <2>4, <2>6, <2>7, <2>12 DEF TimeInv
<1>2. ASSUME NEW due \in SUBSET ToSet(Rules), NEW quiet \in Waits, Idle(due, quiet) PROVE TimeInv'
  <2> DEFINE e == [kind |-> "idle", due |-> due, quiet |-> quiet, at |-> Count]
  <2>1. quiet \in Nat BY ExtractAssumption
  <2>2. st' = Prune(FlushIdle(st, due, quiet)) /\ events' = Append(events, e)
    BY <1>2 DEF Idle, Apply
  <2>3. e \in Event /\ e.at = Count /\ e.kind # "line" BY <1>0, <2>1 DEF Event
  <2> HIDE DEF e
  <2>4. Count' = Count BY <1>0, <2>2, <2>3, CountAfter
  <2>5. \A x : x \in Lined' <=> x \in Lined BY <1>0, <2>2, <2>3, LinedAfter
  <2>6. Lined' = Lined /\ Lined \subseteq LineEvent
    <3>1. Lined \subseteq ToSet(events) /\ Lined' \subseteq ToSet(events') BY DEF Lined
    <3>2. Lined' = Lined BY <2>5 DEF Lined
    <3> QED BY <1>0, <3>2
  <2>7. Timely(FlushIdle(st, due, quiet), Lined) BY <1>0, <2>6, FlushIdleTimely
  <2>8. Timely(st', Lined') BY <2>2, <2>6, <2>7, PruneTimely
  <2> QED BY <1>0, <2>4, <2>6, <2>8 DEF TimeInv
<1>3. CASE UNCHANGED vars
  <2>1. st' = st /\ events' = events BY <1>3 DEF vars
  <2>2. Count' = Count /\ Lined' = Lined BY <2>1 DEF Count, Lined
  <2> QED BY <2>1, <2>2 DEF TimeInv
<1> QED BY <1>1, <1>2, <1>3 DEF Next

LEMMA TimeInit == Init => TimeInv
<1> SUFFICES ASSUME Init PROVE TimeInv OBVIOUS
<1>1. events = <<>> /\ st = NewStream BY DEF Init
<1>2. Count = 0 /\ Lined = {} BY <1>1 DEF Count, Lined, ToSet
<1>3. st.wins = {} /\ st.rows = {} /\ st.bufs = [r \in {} |-> 0] /\ IsStream(st)
  BY <1>1 DEF NewStream, IsStream
<1>4. DOMAIN st.bufs = {} BY <1>3
<1>5. Timely(st, Lined) BY <1>3, <1>4 DEF Timely
<1>6. 1 .. 0 = {} OBVIOUS
<1> QED BY <1>2, <1>5, <1>6 DEF TimeInv

-----------------------------------------------------------------------------
(* What is proved.                                                         *)

\* Every line the stream was given ends in one row, window, open record or refusal,
\* and in no two, whatever rules, windows and times there are (Process,
\* joinContinuation, aggregate, shedOldestWindows, FlushIdle).
THEOREM LinesEndOnce == Spec => []OnceEach
<1>1. IInv => OnceEach
  <2> SUFFICES ASSUME IInv PROVE OnceEach OBVIOUS
  <2>1. Apart(st) /\ Waiting(st, Count) BY DEF IInv, Steady, Sound
  <2> QED BY <2>1 DEF OnceEach, Apart, Waiting, Taken
<1> QED BY <1>1, InvHolds, PTL

\* The floor is a position, at most the next one, that nothing open is below.
LEMMA FloorFacts ==
  ASSUME IInv
  PROVE  Floor \in 0 .. Count + 1 /\ Steady(st, Count, Count, Floor)
<1>0. Count \in Nat BY CountFacts DEF IInv
<1>1. Shaped(st, Count) /\ Listed(st) /\ Apart(st) /\ Waiting(st, Count)
  BY DEF IInv, Steady, Sound
<1>2. \A w \in st.wins : w.mark \in Marks(st)
  <2>1. ASSUME NEW w \in st.wins PROVE w.mark \in Marks(st)
    <3>1. Entry(w) \in st.holds /\ Live(st, Entry(w)) /\ Entry(w).mark = w.mark
      BY <1>1 DEF Listed, Live, Entry
    <3> QED BY <3>1 DEF Marks
  <2> QED BY <2>1
<1>3. \A r \in DOMAIN st.bufs : st.bufs[r].mark \in Marks(st) BY DEF Marks
<1>4. \A e \in st.holds : e.mark \in 1 .. Count /\ e.last \in 1 .. Count BY <1>1 DEF Shaped, SpanOK
<1>5. CASE Marks(st) = {}
  <2>1. HoldFloor(st) = NoHold BY <1>5 DEF HoldFloor
  <2>2. Floor = Count + 1 BY <2>1 DEF Floor
  <2>3. Clear(st, Count + 1) BY <1>0, <1>2, <1>3, <1>4, <1>5 DEF Clear
  <2> QED BY <1>0, <1>1, <2>2, <2>3 DEF Steady, Sound
<1>6. CASE Marks(st) # {}
  <2>1. /\ HoldFloor(st) \in Nat
        /\ \A m \in Marks(st) : HoldFloor(st) <= m
        /\ \A e \in st.holds : e.mark >= HoldFloor(st) \/ e.last < HoldFloor(st)
    BY <1>0, <1>1, <1>6, HoldFloorFacts
  <2>2. Floor = HoldFloor(st) BY <2>1 DEF Floor, NoHold
  <2>3. Marks(st) \subseteq 1 .. Count BY <1>1, <1>4 DEF Marks, Shaped, BufferOK
  <2>4. PICK m : m \in Marks(st) BY <1>6
  <2>5. HoldFloor(st) \in 0 .. Count + 1 BY <1>0, <2>1, <2>3, <2>4
  <2>6. \A k \in Marks(st) : k >= HoldFloor(st) BY <1>0, <2>1, <2>3
  <2>7. Clear(st, HoldFloor(st)) BY <1>2, <1>3, <2>1, <2>6 DEF Clear
  <2> QED BY <1>1, <2>2, <2>5, <2>7 DEF Steady, Sound
<1> QED BY <1>5, <1>6

\* What a driver acknowledges is settled (HeldFrom): each line before the floor is in a
\* row that was returned, or was refused.
Settled == \A k \in 1 .. Floor - 1 : k \in st.refused \cup Rowed(st)

\* A driver that keeps offsets never acknowledges a line whose row is still to come:
\* no window and no joined record that is open has a line before the floor, however
\* records reach into windows from before their start and spans cover each other.
THEOREM AcknowledgedIsSettled == Spec => []Settled
<1>1. ASSUME IInv PROVE Settled
  <2>1. Floor \in 0 .. Count + 1 /\ Steady(st, Count, Count, Floor) BY <1>1, FloorFacts
  <2>2. Count \in Nat BY <1>1, CountFacts DEF IInv
  <2>3. Shaped(st, Count) /\ Clear(st, Floor) /\ Waiting(st, Count) BY <2>1 DEF Steady, Sound
  <2> DEFINE f == Floor
             c == Count
  <2>4. f \in 0 .. c + 1 /\ c \in Nat /\ Shaped(st, c) /\ Clear(st, f) /\ Waiting(st, c)
    BY <2>1, <2>2, <2>3
  <2> HIDE DEF f, c
  <2>5. ASSUME NEW k \in 1 .. f - 1 PROVE k \in st.refused \cup Rowed(st)
    <3>1. k \in 1 .. c BY <2>4
    <3>2. k \in Taken(st) \/ k \in Joining(st) BY <2>4, <3>1 DEF Waiting
    <3>3. ASSUME NEW r \in DOMAIN st.bufs, k \in st.bufs[r].from PROVE FALSE
      <4>1. st.bufs[r].mark \in 1 .. c /\ k \in st.bufs[r].mark .. c /\ st.bufs[r].mark >= f
        BY <2>4, <3>3 DEF Shaped, BufferOK, Within, Clear
      <4> QED BY <2>4, <4>1
    <3>4. ASSUME NEW w \in st.wins, k \in w.from PROVE FALSE
      <4>1. w.mark \in 1 .. c /\ k \in w.mark .. c /\ w.mark >= f
        BY <2>4, <3>4 DEF Shaped, WindowOK, Within, Clear
      <4> QED BY <2>4, <4>1
    <3>5. k \notin Joining(st) BY <3>3, JoiningMembers
    <3>6. k \notin Windowed(st) BY <3>4, Members
    <3> QED BY <3>2, <3>5, <3>6 DEF Taken
  <2> QED BY <2>5 DEF Settled, f
<1> QED BY <1>1, InvHolds, PTL

\* A position that is clear is not above the floor.
LEMMA FloorAbove ==
  ASSUME NEW s, NEW n \in Nat, NEW f \in Nat, Sound(s, n, f), Marks(s) # {}
  PROVE  HoldFloor(s) >= f
<1>1. Shaped(s, n) /\ Listed(s) /\ Clear(s, f) BY DEF Sound
<1>2. ASSUME NEW e \in s.holds, Live(s, e) PROVE e.mark >= f
  <2>1. PICK w \in s.wins : w.key = e.key /\ w.born = e.born BY <1>2 DEF Live
  <2>2. e = Entry(w) /\ w.mark >= f BY <1>1, <2>1 DEF Listed, Clear
  <2> QED BY <2>2 DEF Entry
<1>3. \A m \in Marks(s) : m >= f BY <1>1, <1>2 DEF Marks, Clear
<1>4. \A e \in s.holds : e.mark >= f \/ e.last < f BY <1>1 DEF Clear
<1> QED BY <1>1, <1>3, <1>4, HoldFloorFacts

\* What a driver may acknowledge never moves back (HeldFrom, holdFloor, pruneHolds):
\* a step that closes windows or records, folds a record into a window from before its
\* start, or prunes the list leaves the old floor clear.
THEOREM FloorNeverFalls == Spec => FloorRises
<1>1. ASSUME IInv, [Next]_vars PROVE [Floor' >= Floor]_vars
  <2>1. CASE UNCHANGED vars BY <2>1
  <2>2. CASE Next
    <3>1. Floor \in 0 .. Count + 1 /\ Steady(st, Count, Count, Floor) BY <1>1, FloorFacts
    <3>2. /\ Count \in Nat /\ Count' \in Nat /\ Count' >= Count
          /\ \A f \in 0 .. Count + 1 :
               Steady(st, Count, Count, f) => Steady(st', Count', Count', f)
      BY <1>1, <2>2, StepSteady
    <3>3. Sound(st', Count', Floor) /\ Floor \in Nat BY <3>1, <3>2 DEF Steady
    <3> DEFINE f == Floor
               g == Floor'
    <3>4. g = IF HoldFloor(st') = NoHold THEN Count' + 1 ELSE HoldFloor(st') BY DEF Floor
    <3>5. f \in 0 .. Count + 1 /\ Sound(st', Count', f) BY <3>1, <3>3
    <3> HIDE DEF f, g
    <3>6. CASE Marks(st') = {}
      <4>1. HoldFloor(st') = NoHold BY <3>6 DEF HoldFloor
      <4>2. g = Count' + 1 BY <3>4, <4>1
      <4>3. Count \in Nat /\ Count' \in Nat /\ Count' >= Count BY <3>2
      <4>4. f \in 0 .. Count + 1 BY <3>5
      <4> DEFINE a == Count
                 b == Count'
      <4>5. a \in Nat /\ b \in Nat /\ b >= a /\ f \in 0 .. a + 1 /\ g = b + 1
        BY <4>2, <4>3, <4>4
      <4> HIDE DEF a, b
      <4>6. g >= f BY <4>5
      <4> QED BY <4>6 DEF f, g
    <3>7. CASE Marks(st') # {}
      <4>1. f \in Nat BY <3>2, <3>5
      <4>2. HoldFloor(st') >= f BY <3>2, <3>5, <3>7, <4>1, FloorAbove
      <4>3. HoldFloor(st') \in Nat BY <3>2, <3>5, <3>7, HoldFloorFacts DEF Sound
      <4>4. g = HoldFloor(st') BY <3>4, <4>3 DEF NoHold
      <4> QED BY <4>2, <4>4 DEF f, g
    <3> QED BY <3>6, <3>7
  <2> QED BY <1>1, <2>1, <2>2
<1> QED BY <1>1, InvHolds, PTL DEF Spec, FloorRises

\* No record gets into a window that has ended by its time, whether it comes late, was
\* joined from several lines, or reaches the window when an idle stream is flushed
\* (process closes what has expired first, and aggregate then looks for the window).
THEOREM WindowsEndInTime == Spec => []InTime
<1>1. ASSUME IInv, TimeInv PROVE InTime
  <2> SUFFICES ASSUME NEW row \in Windowy, NEW n \in Records(row)
               PROVE  LineAt(n).ts < row.ts + Every
    BY DEF InTime
  <2>1. row \in st.rows /\ row.mode # "plain" /\ n \in row.from /\ LineAt(n).cont = {}
    BY DEF Windowy, Records
  <2>2. n \in Taken(st) BY <2>1 DEF Taken, Rowed
  <2>3. n \in 1 .. Count BY <1>1, <2>2 DEF IInv, Steady, Waiting
  <2>4. \E e \in ToSet(events) : e.kind = "line" /\ e.at = n BY <1>1, <2>3 DEF TimeInv, Lined
  <2> DEFINE e == CHOOSE x \in ToSet(events) : x.kind = "line" /\ x.at = n
  <2>5. e \in Lined /\ e.at = n BY <2>4 DEF Lined
  <2>6. LineAt(n) = e.line BY DEF LineAt
  <2> HIDE DEF e
  <2>7. Early(Lined, row.from, row.ts + Every) BY <1>1, <2>1 DEF TimeInv, Timely
  <2> QED BY <2>1, <2>5, <2>6, <2>7 DEF Early
<1>2. Spec => []TimeInv
  <2>1. Spec => []IInv BY InvHolds
  <2> QED BY <2>1, TimeInit, TimeNext, PTL DEF Spec
<1> QED BY <1>1, <1>2, InvHolds, PTL
=============================================================================
