------------------------------- MODULE Render -------------------------------
(***************************************************************************)
(* The downsampling walk (pkg/render/render.go): one pass over the samples *)
(* of a series that turns them into the points to draw.                    *)
(*                                                                         *)
(* A sample is [ts, val]; values are integers and rates are in fixed       *)
(* point.  An output is a point, a break (a null) or the padding beside a  *)
(* point that would not be drawn alone.                                    *)
(***************************************************************************)
EXTENDS Integers, Sequences, SequencesExt, FiniteSetsExt

CONSTANTS
  PadWidth,   \* ssePadMs
  Scale       \* what a rate is multiplied by

ASSUME RenderAssumption == PadWidth \in Nat /\ Scale \in Nat

NoTime == -1

Output(kind, ts, val) == [kind |-> kind, ts |-> ts, val |-> val]

\* SingleWindow and Window: the width a window needs to fit the render budget.
SingleWindow(range, maxPoints, interval) ==
  LET n == IF maxPoints <= 0 THEN 1 ELSE maxPoints
      w == range \div n
  IN Max({0, IF interval > 0 /\ interval < w THEN interval ELSE w})

Window(range, maxPoints, interval) == 2 * SingleWindow(range, maxPoints, interval)

\* A stable sort by time: the k-th sample is the one that k - 1 come before.
Before(s, i, j) == s[i].ts < s[j].ts \/ (s[i].ts = s[j].ts /\ i < j)

Sorted(s) ==
  LET place(k) == CHOOSE j \in DOMAIN s : Cardinality({i \in DOMAIN s : Before(s, i, j)}) = k - 1
  IN [k \in DOMAIN s |-> s[place(k)]]

-----------------------------------------------------------------------------
(* A window.                                                               *)

\* Of the breaks in one slot the last one is kept; -1 is the mark of none.
Break(slot) ==
  IF slot = {} \/ Max(slot \cup {NoTime}) = NoTime THEN <<>>
  ELSE <<Output("null", Max(slot), 0)>>

\* Mutant: the minimum is drawn before the maximum.
EmitMinFirst(lo, hi, nulls) ==
  <<Output("point", lo.ts, lo.val)>>
    \o (IF lo.ts # hi.ts THEN <<Output("point", hi.ts, hi.val)>> ELSE <<>>)

\* Mutant: a break between the extremes is not drawn.
EmitNoMiddle(lo, hi, nulls) ==
  LET first == IF lo.ts < hi.ts THEN lo ELSE hi
      second == IF lo.ts < hi.ts THEN hi ELSE lo
  IN Break({n \in nulls : n < first.ts})
       \o <<Output("point", first.ts, first.val)>>
       \o (IF first.ts < second.ts THEN <<Output("point", second.ts, second.val)>> ELSE <<>>)
       \o Break({n \in nulls : n > second.ts})

\* emitWindow: the extremes in the order of their times, with the breaks before,
\* between and after them.
Emit(lo, hi, nulls) ==
  LET first == IF lo.ts < hi.ts THEN lo ELSE hi
      second == IF lo.ts < hi.ts THEN hi ELSE lo
  IN Break({n \in nulls : n < first.ts})
       \o <<Output("point", first.ts, first.val)>>
       \o Break({n \in nulls : n > first.ts /\ n < second.ts})
       \o (IF first.ts < second.ts THEN <<Output("point", second.ts, second.val)>> ELSE <<>>)
       \o Break({n \in nulls : n > second.ts})

-----------------------------------------------------------------------------
(* The walk.                                                               *)

NoWindow == [open |-> FALSE, start |-> 0, lo |-> [ts |-> 0, val |-> 0],
             hi |-> [ts |-> 0, val |-> 0], nulls |-> {}]

Walk == [out |-> <<>>, last |-> NoTime, seeded |-> FALSE, raw |-> 0, win |-> NoWindow]

\* Stages 8 to 10: a sample beyond the window closes it and opens the next; the
\* earliest of equal extremes is kept.
Accumulate(walk, w, p) ==
  LET win == walk.win
      fresh(nulls) == [open |-> TRUE, start |-> p.ts, lo |-> p, hi |-> p, nulls |-> nulls]
  IN CASE ~win.open ->
            [walk EXCEPT !.win = fresh(win.nulls)]
       [] win.open /\ p.ts - win.start > w ->
            [walk EXCEPT !.out = @ \o Emit(win.lo, win.hi, win.nulls), !.win = fresh({})]
       [] OTHER ->
            [walk EXCEPT !.win.lo = IF p.val < @.val THEN p ELSE @,
                         !.win.hi = IF p.val > @.val THEN p ELSE @]

\* Stage 6, with the raw sample instead of a bound where the specification says so.
Clamped(spec, val, raw) ==
  LET low == IF spec.hasMin /\ val < spec.min THEN IF spec.elseRaw THEN raw ELSE spec.min
             ELSE val
  IN IF spec.hasMax /\ low > spec.max THEN IF spec.elseRaw THEN raw ELSE spec.max
     ELSE low

\* Stages 3 to 7, from the sample, the last accepted one and the last time.
Drawn(spec, raw, prevRaw, elapsed) ==
  LET diff == IF spec.delta THEN raw - prevRaw ELSE raw
      val == Clamped(spec, IF spec.negate THEN -diff ELSE diff, raw)
  IN IF spec.rate /\ elapsed > 0 THEN (val * Scale) \div elapsed ELSE val

\* One sample: stage 1 looks for a gap, stage 2 drops a second sample of an instant,
\* and the first sample of a difference or a rate is consumed.
Sample(spec, w, walk, p) ==
  LET gap == walk.last # NoTime /\ spec.gap # 0 /\ p.ts - walk.last > spec.gap
      seen == [walk EXCEPT !.win.nulls = IF gap THEN @ \cup {p.ts - 1} ELSE @,
                           !.last = p.ts]
      taken == [seen EXCEPT !.seeded = TRUE, !.raw = p.val]
  IN CASE walk.last = p.ts -> seen
       [] walk.last # p.ts /\ ((spec.delta /\ ~walk.seeded) \/ (spec.rate /\ walk.last < 0)) ->
            taken
       [] OTHER ->
            Accumulate(taken, w,
                       [ts |-> p.ts, val |-> Drawn(spec, p.val, walk.raw, p.ts - walk.last)])

\* The declared cadence was missed before the end of the range.
Trailing(spec, last, out) ==
  IF /\ out # <<>> /\ spec.gap # 0 /\ spec.end > 0 /\ last # NoTime
     /\ spec.end - last > spec.gap
     /\ last + spec.gap > Last(out).ts
  THEN <<Output("null", last + spec.gap, 0)>>
  ELSE <<>>

\* padIsolated: a point with no neighbour on either side gets padding, as wide as its
\* neighbours leave room for.
PadAt(out, i, sse) ==
  LET p == out[i]
      stranded == /\ p.kind = "point"
                  /\ i = 1 \/ out[i - 1].kind = "null"
                  /\ i = Len(out) \/ out[i + 1].kind = "null"
      val == IF sse.mode = "repeat" THEN p.val ELSE sse.val
      left == Max({p.ts - PadWidth} \cup IF i > 1 THEN {out[i - 1].ts + 1} ELSE {})
      right == Min({p.ts + PadWidth} \cup IF i < Len(out) THEN {out[i + 1].ts - 1} ELSE {})
  IN IF ~stranded \/ sse.mode = "off" THEN <<p>>
     ELSE (IF left < p.ts THEN <<Output("pad", left, val)>> ELSE <<>>)
            \o <<p>>
            \o (IF right > p.ts THEN <<Output("pad", right, val)>> ELSE <<>>)

\* The single pass over the samples in order.
Walked(s, spec, w) ==
  LET after[i \in 0 .. Len(s)] == IF i = 0 THEN Walk ELSE Sample(spec, w, after[i - 1], s[i])
  IN after[Len(s)]

\* What is drawn of them: the window that is open at the end is emitted too.
Outputs(s, spec, w) ==
  LET walk == Walked(s, spec, w)
      drawn == walk.out \o (IF walk.win.open
                            THEN Emit(walk.win.lo, walk.win.hi, walk.win.nulls) ELSE <<>>)
  IN drawn \o Trailing(spec, walk.last, drawn)

Series(points, spec, w) ==
  LET out == Outputs(Sorted(points), spec, w)
  IN FlattenSeq([i \in DOMAIN out |-> PadAt(out, i, spec.sse)])

=============================================================================
