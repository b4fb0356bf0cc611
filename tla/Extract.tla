------------------------------ MODULE Extract -------------------------------
(***************************************************************************)
(* One extraction stream (pkg/extract/stream.go): records joined from      *)
(* several lines, aggregation windows, and the position a driver that      *)
(* keeps offsets may acknowledge.                                          *)
(*                                                                         *)
(* A line is what the specification reads out of it:                       *)
(*   ts            its time, NoTS if none is found                         *)
(*   start         the multiline rule it starts a record of, or ""         *)
(*   cont, joins   the rules it continues, and those whose join captures   *)
(*   mode          "none" (no pattern), "empty" (no field), "plain", or    *)
(*                 how it aggregates                                       *)
(*   key           the values it aggregates on, "" if one is missing       *)
(*   has, val      the aggregated field: "yes", "no" or "junk"             *)
(* Every row remembers the positions of the lines it was made of.          *)
(***************************************************************************)
EXTENDS Integers, Sequences, FiniteSets, SequencesExt, FiniteSetsExt

CONSTANTS
  Lines,       \* a sequence: what may be read at each position
  Rules,       \* the multiline rules, in order
  Every,       \* how long a window is
  From, To,    \* the configured range
  MaxParts,    \* how many joined lines a record has room for
  MaxOpen,     \* maxOpenWindows
  HoldSlack,   \* the 16 of pruneHolds
  Waits,       \* how long a stream may have been quiet
  MaxIdle      \* bound on idle ticks

NoTS == -1
NoHold == -1

LineType ==
  [ts : Nat \cup {NoTS}, start : ToSet(Rules) \cup {""},
   cont : SUBSET ToSet(Rules), joins : SUBSET ToSet(Rules),
   mode : {"none", "empty", "plain", "increment", "sum", "max", "last"},
   key : STRING, rank : Nat, has : {"yes", "no", "junk"}, val : Int]

ASSUME ExtractAssumption ==
  /\ Rules \in Seq(ToSet(Rules)) /\ "" \notin ToSet(Rules)
  /\ \A line \in UNION ToSet(Lines) : line \in LineType
  /\ Every \in Nat \ {0} /\ From \in Int /\ To \in Int
  /\ MaxParts \in Nat /\ MaxOpen \in Nat \ {0} /\ HoldSlack \in Nat
  /\ Waits \subseteq Nat /\ MaxIdle \in Nat

VARIABLES
  st,      \* the stream
  events   \* what it was given: lines, and idle ticks

vars == <<st, events>>

-----------------------------------------------------------------------------
(* The stream.                                                             *)

NewStream ==
  [bufs |-> [r \in {} |-> 0],   \* the open records, by rule
   wins |-> {},      \* open windows
   made |-> 0,       \* how many windows it has opened: each is told apart by its number
   holds |-> {},     \* spans
   lastTS |-> NoTS,
   rows |-> {},      \* what it returned
   refused |-> {},   \* positions that became nothing
   shed |-> 0]

Buffered(s, rule, b) ==
  [s EXCEPT !.bufs = [r \in DOMAIN @ \cup {rule} |-> IF r = rule THEN b ELSE @[r]]]

Closed(s, rule) == [s EXCEPT !.bufs = [r \in DOMAIN @ \ {rule} |-> @[r]]]

Refuse(s, from) == [s EXCEPT !.refused = @ \cup from]

-----------------------------------------------------------------------------
(* The hold list: a set of spans, since only their marks order it.         *)

\* The entry of a window; the span of a record that was emitted has no window.
Entry(w) == [mark |-> w.mark, key |-> w.key, born |-> w.born, last |-> w.last]
Span(mark, last) == [mark |-> mark, key |-> "", born |-> 0, last |-> last]

\* Stream.live.
Live(s, e) == \E w \in s.wins : w.key = e.key /\ w.born = e.born

\* Where open records and open windows begin.
Marks(s) ==
  {s.bufs[r].mark : r \in DOMAIN s.bufs} \cup {e.mark : e \in {x \in s.holds : Live(s, x)}}

\* One backward pass, from a position to the first: it is pulled back to the start of
\* each span that contains it.
PullBack(holds, top) ==
  LET pass[k \in 0 .. top] ==
        IF k = 0 THEN top
        ELSE IF \E e \in holds : e.mark = top - k /\ e.last >= pass[k - 1] THEN top - k
        ELSE pass[k - 1]
  IN pass[top]

\* Mutant: only windows are held.
HoldFloorWindows(s) ==
  IF s.wins = {} THEN NoHold ELSE Min({w.mark : w \in s.wins})

\* holdFloor: the oldest open record or window, pulled back over the emitted spans.
HoldFloor(s) ==
  IF Marks(s) = {} THEN NoHold ELSE PullBack(s.holds, Min(Marks(s)))

\* pruneHolds: once the list is long, what no later floor can fall into is dropped.
Prune(s) ==
  LET floor == HoldFloor(s)
      kept(e) == Live(s, e) \/ (e.last >= floor /\ e.last > e.mark)
  IN IF Cardinality(s.holds) <= 2 * Cardinality(s.wins) + HoldSlack THEN s
     ELSE [s EXCEPT !.holds = IF floor = NoHold THEN {} ELSE {e \in @ : kept(e)}]

AddHold(s, e) == Prune([s EXCEPT !.holds = @ \cup {e}])

\* holdRecord: the span of a joined record that was emitted.
HoldRecord(s, b, through) ==
  LET last == Max({b.last, through})
  IN IF last <= b.mark THEN s ELSE AddHold(s, Span(b.mark, last))

\* lowerHoldMark and the growth of a span: the entry of a window follows the window.
Rehold(s, w) ==
  LET mine == {e \in s.holds : e.key = w.key /\ e.born = w.born}
      others == [s EXCEPT !.holds = @ \ mine]
  IN IF \E e \in mine : e.mark = w.mark
     THEN [others EXCEPT !.holds = @ \cup {Entry(w)}]
     ELSE AddHold(others, Entry(w))

-----------------------------------------------------------------------------
(* Windows.                                                                *)

\* emit, for a set of windows: one that measured nothing writes no row.
Measured(w) == w.has = "yes" \/ w.mode \notin {"max", "last"}

RowOf(w) ==
  [ts |-> w.start, key |-> w.key, mode |-> w.mode, val |-> w.val, from |-> w.from]

Emit(s, gone) ==
  [s EXCEPT !.wins = @ \ gone,
            !.rows = @ \cup {RowOf(w) : w \in {x \in gone : Measured(x)}},
            !.refused = @ \cup UNION {w.from : w \in {x \in gone : ~Measured(x)}}]

\* Mutant: a window that ends now is open.
CloseEnded(s, now) ==
  IF now = NoTS THEN s ELSE Emit(s, {w \in s.wins : w.end < now})

\* closeExpiredAggregators.
CloseExpired(s, now) ==
  IF now = NoTS THEN s ELSE Emit(s, {w \in s.wins : w.end <= now})

\* shedOldestWindows: one window was added, so at most one is too many.
ShedOldest(s) ==
  IF Cardinality(s.wins) <= MaxOpen THEN s
  ELSE LET first == CHOOSE w \in s.wins : \A x \in s.wins :
                      w.end < x.end \/ (w.end = x.end /\ w.rank <= x.rank)
       IN [Emit(s, {first}) EXCEPT !.shed = @ + 1]

\* What a record contributes to a window that is open.
Folded(w, line) ==
  CASE w.mode = "increment" -> w.val + 1
    [] w.mode # "increment" /\ line.has # "yes" -> w.val
    [] w.mode = "sum" /\ line.has = "yes" -> w.val + line.val
    [] w.mode = "max" /\ line.has = "yes" ->
         IF w.has # "yes" \/ line.val > w.val THEN line.val ELSE w.val
    [] OTHER -> line.val

\* Mutant: the span grows forward only.
FoldForward(s, w, line, mark, from) ==
  LET grown == [w EXCEPT !.last = Max({@, mark}), !.from = @ \cup from,
                         !.val = Folded(w, line),
                         !.has = IF line.has = "yes" THEN "yes" ELSE @]
  IN Rehold([s EXCEPT !.wins = (@ \ {w}) \cup {grown}], grown)

\* A record reaches an open window, maybe from before its start.
FoldInto(s, w, line, mark, from) ==
  LET grown == [w EXCEPT !.last = Max({@, mark}), !.mark = Min({@, mark}), !.from = @ \cup from,
                         !.val = Folded(w, line),
                         !.has = IF line.has = "yes" THEN "yes" ELSE @]
  IN Rehold([s EXCEPT !.wins = (@ \ {w}) \cup {grown}], grown)

OpenWindow(s, line, ts, mark, from) ==
  LET w == [key |-> line.key, rank |-> line.rank, mode |-> line.mode, born |-> s.made + 1,
            start |-> ts, end |-> ts + Every,
            val |-> IF line.mode = "increment" THEN 1
                    ELSE IF line.has = "yes" THEN line.val ELSE 0,
            has |-> IF line.mode = "increment" THEN "yes" ELSE line.has,
            mark |-> mark, last |-> mark, from |-> from]
      opened == [s EXCEPT !.wins = @ \cup {w}, !.made = @ + 1]
  IN ShedOldest(AddHold(opened, Entry(w)))

\* aggregate: the key of a window says how it aggregates, too.
Aggregate(s, line, ts, mark, from) ==
  LET open == {w \in s.wins : w.key = line.key} IN
  IF line.key = "" \/ (line.has = "junk" /\ line.mode # "increment") THEN Refuse(s, from)
  ELSE IF open = {} THEN OpenWindow(s, line, ts, mark, from)
  ELSE FoldInto(s, CHOOSE w \in open : TRUE, line, mark, from)

\* process: the pattern stage, for a record that begins at mark.
ProcessAt(s, line, ts, mark, from) ==
  IF line.mode \in {"none", "empty"} THEN Refuse(s, from)
  ELSE LET closed == CloseExpired(s, ts) IN
       IF line.mode = "plain"
       THEN [closed EXCEPT !.rows = @ \cup {[ts |-> ts, key |-> "", mode |-> "plain",
                                             val |-> line.val, from |-> from]}]
       ELSE Aggregate(closed, line, ts, mark, from)

\* processBuffered: under the mark of the line that opened it.
ProcessBuffered(s, b) == ProcessAt(s, b.line, b.ts, b.mark, b.from)

-----------------------------------------------------------------------------
(* Lines.                                                                  *)

\* The record of a rule has more text: the first value in it counts.
Joined(b, line) ==
  LET more == [b EXCEPT !.parts = @ + 1] IN
  IF b.parts >= MaxParts \/ b.line.has # "no" THEN more
  ELSE [more EXCEPT !.line.has = line.has, !.line.val = line.val]

\* Mutant: an earlier time throws the record away.
ContinueDropping(s, r, line, n) ==
  LET b == s.bufs[r] IN
  IF line.ts # NoTS /\ line.ts < b.ts THEN Refuse(Closed(s, r), {n})
  ELSE Buffered(s, r, [Joined(b, line) EXCEPT !.last = n, !.from = @ \cup {n}])

\* joinContinuation: the first rule with an open record that the line continues and
\* does not start.
Continues(s, line) == (line.cont \cap DOMAIN s.bufs) \ {line.start}
FirstOf(rules) == Rules[Min({i \in DOMAIN Rules : Rules[i] \in rules})]

\* A continuation with an earlier time flushes the record and is refused; one that no
\* join captures is absorbed into nothing.
Continue(s, r, line, n) ==
  LET b == s.bufs[r] IN
  CASE line.ts # NoTS /\ line.ts < b.ts ->
         Refuse(ProcessBuffered(HoldRecord(Closed(s, r), b, n), b), {n})
    [] r \in line.joins /\ ~(line.ts # NoTS /\ line.ts < b.ts) ->
         Buffered(s, r, [Joined(b, line) EXCEPT !.last = n, !.from = @ \cup {n}])
    [] OTHER ->
         Refuse(Buffered(s, r, [b EXCEPT !.last = n]), {n})

\* A start marker flushes the record before it, and opens the next.
Start(s, line, n) ==
  LET b == s.bufs[line.start]
      flushed == IF line.start \in DOMAIN s.bufs THEN ProcessBuffered(HoldRecord(s, b, 0), b) ELSE s
  IN Buffered(flushed, line.start,
              [line |-> line, ts |-> line.ts, parts |-> 0, mark |-> n, last |-> n, from |-> {n}])

\* Process, with the position of the line.
Process(s, line, n) ==
  LET timed == [s EXCEPT !.lastTS = line.ts] IN
  IF Continues(s, line) # {} THEN Continue(s, FirstOf(Continues(s, line)), line, n)
  ELSE IF line.ts = NoTS THEN Refuse(s, {n})
  ELSE IF line.ts < From \/ line.ts > To THEN Refuse(timed, {n})
  ELSE IF line.start # "" THEN Start(timed, line, n)
  ELSE ProcessAt(timed, line, line.ts, n, {n})

\* Flush, in the order of the rules, then every window.
FlushRule(s, rule) ==
  IF rule \in DOMAIN s.bufs THEN Closed(ProcessBuffered(s, s.bufs[rule]), rule) ELSE s

Flush(s) ==
  LET joined == FoldLeft(FlushRule, s, Rules)
  IN [Emit(joined, joined.wins) EXCEPT !.holds = {}]

\* FlushIdle: the records that waited too long, and the windows that must have ended
\* when the stream has been quiet for so long.
IdleRule(s, rule) ==
  LET b == s.bufs[rule] IN
  IF rule \in DOMAIN s.bufs THEN Closed(ProcessBuffered(HoldRecord(s, b, 0), b), rule) ELSE s

IdleRules(s, due) ==
  LET go[i \in 0 .. Len(Rules)] ==
        IF i = 0 THEN s
        ELSE IF Rules[i] \in due THEN IdleRule(go[i - 1], Rules[i]) ELSE go[i - 1]
  IN go[Len(Rules)]

FlushIdle(s, due, quiet) ==
  CloseExpired(IdleRules(s, due), IF s.lastTS = NoTS THEN NoTS ELSE s.lastTS + quiet)

-----------------------------------------------------------------------------
(* A driver that keeps offsets: it marks every line, and asks what is held.*)

Apply(s, e) ==
  Prune(IF e.kind = "line" THEN Process(s, e.line, e.at)
        ELSE FlushIdle(s, e.due, e.quiet))

Count == IF events = <<>> THEN 0 ELSE events[Len(events)].at

Read(line) ==
  LET n == Count + 1
      e == [kind |-> "line", line |-> line, at |-> n]
  IN
  /\ n <= Len(Lines) /\ line \in Lines[n]
  /\ st' = Apply(st, e)
  /\ events' = Append(events, e)

Idle(due, quiet) ==
  LET e == [kind |-> "idle", due |-> due, quiet |-> quiet, at |-> Count] IN
  /\ Len(events) - Count < MaxIdle
  /\ due \subseteq DOMAIN st.bufs
  /\ st' = Apply(st, e)
  /\ events' = Append(events, e)

Init == st = NewStream /\ events = <<>>

Next ==
  \/ \E line \in UNION ToSet(Lines) : Read(line)
  \/ \E due \in SUBSET ToSet(Rules), quiet \in Waits : Idle(due, quiet)

Spec == Init /\ [][Next]_vars

-----------------------------------------------------------------------------
(* Properties.                                                             *)

\* What the driver may acknowledge: all that was read, when nothing is held.
Floor == IF HoldFloor(st) = NoHold THEN Count + 1 ELSE HoldFloor(st)

\* A new stream that reads again from the floor on.  The clock does not go back: what
\* the first was told about idle time is not repeated.
Replayed ==
  FoldLeft(Apply, NewStream, SelectSeq(events, LAMBDA e : e.kind = "line" /\ e.at >= Floor))

\* The lines came in the order of their times.
InOrder ==
  LET timed == SelectSeq(events, LAMBDA e : e.kind = "line" /\ e.line.ts # NoTS)
  IN \A i, j \in DOMAIN timed : i < j => timed[i].line.ts <= timed[j].line.ts

\* No idle tick since the floor.
Busy == \A e \in ToSet(events) : e.kind = "idle" => e.at < Floor

\* The lines of the rows, of the open windows and of the open records.
Rowed(s) == UNION {r.from : r \in s.rows}
Windowed(s) == UNION {w.from : w \in s.wins}
Joining(s) == UNION {s.bufs[r].from : r \in DOMAIN s.bufs}

\* The line at a position.
LineAt(n) == (CHOOSE e \in ToSet(events) : e.kind = "line" /\ e.at = n).line

\* A process that stops anywhere and reads again from what it may acknowledge returns,
\* with what it returned before, exactly the rows of one that did not stop, if the lines
\* are in order, none was shed and no idle tick came after the floor.  Without these it
\* may cut its windows elsewhere, but a reading that the first would have put into a row
\* is in a row of the one or the other, unless it continues an open record.
ReplayExact ==
  LET whole == Flush(st)
      again == Flush(Replayed)
  IN /\ st.shed = 0 /\ InOrder /\ Busy => st.rows \cup again.rows = whole.rows
     /\ \A n \in Rowed(whole) \ (Rowed(st) \cup Rowed(again)) :
          LineAt(n).has # "yes" \/ LineAt(n).cont # {}

\* What may be acknowledged never moves back.
FloorRises == [][Floor' >= Floor]_vars

\* Every line ends in one row, window, record or refusal, and in no two.
OnceEach ==
  /\ st.refused \cup Rowed(st) \cup Windowed(st) \cup Joining(st) = 1 .. Count
  /\ st.refused \cap (Rowed(st) \cup Windowed(st) \cup Joining(st)) = {}
  /\ Rowed(st) \cap (Windowed(st) \cup Joining(st)) = {}
  /\ Windowed(st) \cap Joining(st) = {}
  /\ \A x, y \in st.rows : x # y => x.from \cap y.from = {}
  /\ \A x, y \in st.wins : x # y => x.from \cap y.from = {}
  /\ \A x, y \in DOMAIN st.bufs : x # y => st.bufs[x].from \cap st.bufs[y].from = {}

\* A line before n of the same joined record has the value.
ReadBefore(n, from) ==
  \E r \in LineAt(n).cont \cap {LineAt(k).start : k \in from} :
    \E m \in from : /\ m < n /\ LineAt(m).has = "yes"
                    /\ r \in LineAt(m).cont \cup {LineAt(m).start}
                    /\ \A k \in m + 1 .. n : LineAt(k).start # r

Windowy == {r \in st.rows : r.mode # "plain"}
Records(row) == {n \in row.from : LineAt(n).cont = {}}

\* No record in a window is as late as its end.
InTime == \A row \in Windowy : \A n \in Records(row) : LineAt(n).ts < row.ts + Every

\* The value of a window is that of the readings of its records, each counted once
\* with what was joined to it.
AddsUp ==
  \A row \in Windowy :
    LET read == {n \in row.from : LineAt(n).has = "yes" /\ ~ReadBefore(n, row.from)}
    IN CASE row.mode = "increment" -> row.val = Cardinality(Records(row))
         [] row.mode = "sum" -> row.val = MapThenSumSet(LAMBDA n : LineAt(n).val, read)
         [] row.mode = "max" -> row.val = Max({LineAt(n).val : n \in read})
         [] OTHER -> row.val \in {LineAt(n).val : n \in read}

\* A window measures its records and no others: no record in it is as late as its end,
\* and its value is that of their readings, each counted once with what was joined to it.
WindowHonest == InTime /\ AddsUp
=============================================================================
