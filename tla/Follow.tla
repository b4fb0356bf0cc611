------------------------------- MODULE Follow -------------------------------
(***************************************************************************)
(* Local file follow (internal/ingest/follow.go, checkpoint.go) over the   *)
(* delivery contract of the sink.  One poll goroutine tails the files,     *)
(* hands samples to the sink and publishes how far it has got; flushes run *)
(* beside it and turn delivery outcomes into checkpoints; the files are    *)
(* appended to, rotated and rewritten by their owners; the process stops   *)
(* and crashes at any step and starts again from the records on disk.      *)
(*                                                                         *)
(* A file's bytes are its records 1..size: offset n stands for "the first  *)
(* n records have been consumed".  A path holds contents 1, 2, ... in      *)
(* turn; two contents never share the prefix a fingerprint covers.         *)
(***************************************************************************)
EXTENDS Delivery, Naturals, FiniteSets

CONSTANTS
  Paths,     \* the followed paths
  MaxGen,    \* bound: contents a path goes through
  MaxPos,    \* bound: records per content
  Shape,     \* what extraction makes of each record
  StartAt,   \* --start-at
  Failures,  \* what can fail: a request ("hold", "retry", "fatal"), or the
             \* write of a resume record ("save")
  Moves,     \* what besides appending lines happens to the files and the spec:
             \* subset of {"fragment", "rotate", "remove", "rewrite", "blip", "reload"}
  MaxCrash,  \* bound: process stops
  MaxFail,   \* bound: failed writes
  MaxRounds  \* maxFlushRounds

Gens == 1 .. MaxGen
Records == Paths \X Gens \X (1 .. MaxPos)

ASSUME FollowAssumption ==
  /\ MaxGen \in Nat /\ MaxPos \in Nat /\ MaxRounds \in Nat
  /\ MaxCrash \in Nat /\ MaxFail \in Nat
  /\ Shape \in [Records -> {"plain", "join", "roll", "none"}]
  /\ StartAt \in {"checkpoint", "beginning", "end"}
  /\ Failures \subseteq {"hold", "retry", "fatal", "save"}
  /\ Moves \subseteq {"fragment", "rotate", "remove", "rewrite", "blip", "reload"}
  /\ Samples = SUBSET Records

VARIABLES
  \* The file system, owned by whoever writes the logs.
  live,      \* live[p]: the newest content created at p, 0 before the first
  present,   \* present[p]: the path exists
  size,      \* size[p][g]: terminated records in content g
  frag,      \* frag[p][g]: an unterminated record follows them
  kept,      \* kept[p][g]: a rotated content findSameFile can locate
  \* The follower.
  tl,        \* tl[p]: the tailer of p
  job,       \* where the poll goroutine is
  mine,      \* the request in progress was started by the poll goroutine
  disk,      \* disk[p]: the resume record in the checkpoint store
  stop,      \* why the follower must stop: "cancel" (its context), "gaveup"
             \* (Sink.GaveUp), or "no" reason yet
  \* Bookkeeping for the properties and the bounds.
  slipped,   \* records passed over: of an abandoned batch whose tailer was not
             \* frozen, or of a rewritten file below an offset still owed to disk
  skipped,   \* records "--start-at end" asked not to read
  refused,   \* records whose samples Add turned away after a cancellation
  crashes, fails

fsvars == <<live, present, size, frag, kept>>
vars == <<dvars, fsvars, tl, job, mine, disk, slipped, skipped, refused, stop, crashes, fails>>

NoTail == [gen |-> 0, off |-> 0]
NoRecord == [had |-> FALSE, fpc |-> 0, acked |-> 0, tail |-> NoTail]
NoTailer ==
  [on |-> FALSE, file |-> 0, base |-> 0, off |-> 0, pend |-> 0, infl |-> 0,
   ack |-> 0, holed |-> FALSE, rewind |-> FALSE, fpc |-> 0, fpw |-> 0,
   win |-> {}, from |-> 0, owed |-> FALSE, cpack |-> 0, cptail |-> NoTail]

-----------------------------------------------------------------------------
(* The tailer's own methods, as functions of its state.                    *)

SetPending(t, n) == IF t.rewind THEN t ELSE [t EXCEPT !.pend = n]

MarkInflight(t) == IF t.rewind THEN t ELSE [t EXCEPT !.infl = t.pend]

\* Whether a flush had bytes of this tailer to acknowledge or to lose.
HasInflight(t) == t.infl > t.ack

MarkHoled(t) ==
  IF t.holed \/ ~HasInflight(t) THEN t ELSE [t EXCEPT !.holed = TRUE]

\* Mutant: a thawed tailer goes on reading where it is.
ClearOnly(t) == [t EXCEPT !.holed = FALSE, !.pend = t.ack, !.infl = t.ack]

ClearHole(t) ==
  [t EXCEPT !.holed = FALSE, !.pend = t.ack, !.infl = t.ack, !.rewind = TRUE]

\* Mutant: what has been published since the flush is acknowledged too.
CommitPending(t, now) ==
  [t EXCEPT !.ack = t.pend, !.cpack = t.pend, !.owed = ~now]

\* commitInflight; the record goes to disk now or is owed (takeSaveLocked).
CommitInflight(t, now) ==
  [t EXCEPT !.ack = t.infl, !.cpack = t.infl, !.owed = ~now]

Reset(t, n) ==
  [t EXCEPT !.off = n, !.pend = n, !.infl = n, !.ack = n,
            !.holed = FALSE, !.rewind = FALSE]

SetFingerprint(t, c, w) == [t EXCEPT !.fpc = c, !.fpw = w]

\* The hash of the first off records, as the handle shows them now.
WidenFingerprint(t) ==
  IF t.off > t.fpw THEN SetFingerprint(t, t.file, t.off) ELSE t

\* extract.Stream emptied by Flush.
Emptied(t) == [t EXCEPT !.win = {}, !.from = 0]

\* The bytes the extractor holds will be read again.
ReplayOwed(t) == t.holed \/ t.rewind

\* The read head, pulled back to the oldest record the extractor holds.
SyncPending(t) ==
  SetPending(t, IF t.win # {} /\ t.from < t.off THEN t.from ELSE t.off)

\* The open window of p's extractor as the one sample it would emit.
WindowOf(p, t) == IF t.win = {} THEN {} ELSE {{<<p, t.file, k>> : k \in t.win}}

\* What Stream.Process emits for record k, and the extractor afterwards.
Emits(p, t, k) ==
  CASE Shape[<<p, t.file, k>>] = "plain" -> {{<<p, t.file, k>>}}
    [] Shape[<<p, t.file, k>>] = "roll"  -> WindowOf(p, t)
    [] OTHER -> {}

Processed(p, t, k) ==
  CASE Shape[<<p, t.file, k>>] = "join" ->
         [t EXCEPT !.win = @ \cup {k}, !.from = IF t.win = {} THEN k - 1 ELSE @]
    [] Shape[<<p, t.file, k>>] = "roll" -> [t EXCEPT !.win = {k}, !.from = k - 1]
    [] OTHER -> t

\* The resume record a Save writes for this tailer.
RecordOf(t) == [had |-> TRUE, fpc |-> t.fpc, acked |-> t.cpack, tail |-> t.cptail]

\* CheckpointStore.Save for every path whose record changes: each write is
\* all or nothing, and one that fails is reported and not tried again.
Save(new) ==
  \E ok \in SUBSET Paths :
    /\ ok = Paths \/ "save" \in Failures
    /\ disk' = [p \in Paths |-> IF p \in ok THEN new[p] ELSE disk[p]]

\* Sink.Add for each sample of S, of which it takes some: waitRoom turns a
\* sample away when the buffer is at its cap and the context is cancelled.
\* No caller keeps what was turned away.
HandOver(S, taken) ==
  /\ taken \subseteq S
  /\ taken = S \/ stop = "cancel"
  /\ Add(taken)
  /\ refused' = refused \cup UNION (S \ taken)

-----------------------------------------------------------------------------
(* Delivery observers.                                                     *)

\* BeginFlush, with the buffer lock held: every live tailer snapshots.
BeginFlush ==
  [p \in Paths |-> IF tl[p].on THEN MarkInflight(tl[p]) ELSE tl[p]]

\* Mutant: a frozen tailer is committed like any other.
CommittedRegardless(t, now) == IF t.on /\ HasInflight(t) THEN CommitInflight(t, now) ELSE t

\* EndFlush(dropped = FALSE) for one tailer.
Committed(t, now) ==
  CASE ~t.on         -> t
    [] t.on /\ t.holed -> ClearHole(t)
    [] t.on /\ ~t.holed /\ HasInflight(t) -> CommitInflight(t, now)
    [] OTHER         -> t

\* The tailers whose records EndFlush writes, given those whose last write
\* is older than checkpointSaveInterval.
Saving(due) == {p \in due : tl[p].on /\ ~tl[p].holed /\ HasInflight(tl[p])}

\* EndFlush(dropped = TRUE); a partial take is announced only now.
Frozen ==
  LET begun == IF whole THEN tl ELSE BeginFlush
  IN  [p \in Paths |-> IF begun[p].on THEN MarkHoled(begun[p]) ELSE begun[p]]

\* Records of the lost batch that no frozen or rewinding tailer re-reads.
Unprotected ==
  {r \in UNION flying :
     LET t == Frozen[r[1]] IN ~(t.on /\ t.base = r[2] /\ ReplayOwed(t))}

-----------------------------------------------------------------------------
(* Flushing.  A flush started inside Add is one of these steps taken while *)
(* the poll goroutine stands between queueing and publishing.              *)

FlushTake(F) ==
  /\ job.at # "down"
  /\ Take(F)
  /\ tl' = IF F = queue THEN BeginFlush ELSE tl
  /\ mine' = FALSE
  /\ UNCHANGED <<fsvars, job, disk, slipped, skipped, refused, stop, crashes, fails>>

\* Flush called by the poll goroutine, which waits for the verdict.
PollFlushTake(F) ==
  /\ job.at = "flush" /\ job.n < MaxRounds
  /\ Take(F)
  /\ tl' = IF F = queue THEN BeginFlush ELSE tl
  /\ mine' = TRUE
  /\ job' = [job EXCEPT !.at = "wait", !.n = @ + 1]
  /\ UNCHANGED <<fsvars, disk, slipped, skipped, refused, stop, crashes, fails>>

\* flushRound returns nil without a request: delivery is held, there is
\* nothing to send, or the rounds of this Flush are used up.
PollFlushNil ==
  /\ job.at = "flush" /\ flying = {}
  /\ hold \/ queue = {} \/ job.n = MaxRounds
  /\ job' = [job EXCEPT !.at = "flushed", !.ok = TRUE]
  /\ UNCHANGED <<dvars, fsvars, tl, mine, disk, slipped, skipped, refused, stop, crashes, fails>>

\* The verdict reaches the goroutine that called Flush.
Verdict(nil, again) ==
  job' = IF ~mine THEN job
         ELSE IF again THEN [job EXCEPT !.at = "flush"]
         ELSE [job EXCEPT !.at = "flushed", !.ok = nil]

StoreCommit(S) ==
  /\ Commit(S)
  /\ UNCHANGED <<fsvars, tl, job, mine, disk, slipped, skipped, refused, stop, crashes, fails>>

FlushAccepted(due) ==
  /\ Accept
  /\ IF whole
     THEN /\ tl' = [p \in Paths |-> Committed(tl[p], p \in due)]
          /\ Save([p \in Paths |->
               IF p \in Saving(due) THEN RecordOf(tl'[p]) ELSE disk[p]])
     ELSE UNCHANGED <<tl, disk>>
  /\ Verdict(TRUE, ~whole)
  /\ mine' = FALSE
  /\ UNCHANGED <<fsvars, slipped, skipped, refused, stop, crashes, fails>>

\* A failure of the store's or the network's making.
Fault(h) ==
  /\ fails < MaxFail
  /\ (IF h THEN "hold" ELSE "retry") \in Failures
  /\ fails' = fails + 1

\* The poll goroutine flushes on its own context, inside Add or by itself,
\* except for the last time.
Interrupted ==
  /\ stop = "cancel"
  /\ IF mine THEN job.mode # "stop" ELSE job.at \in {"publish", "drained"}
  /\ UNCHANGED fails

FlushRequeued(h) ==
  /\ Fault(h) \/ (~h /\ Interrupted)
  /\ Requeue(h)
  /\ Verdict(FALSE, FALSE)
  /\ mine' = FALSE
  /\ UNCHANGED <<fsvars, tl, disk, slipped, skipped, refused, stop, crashes>>

\* gave: this drop reached MaxFatalDrops, so Flush reports ErrGaveUp.
FlushDropped(gave) ==
  /\ fails < MaxFail
  /\ "fatal" \in Failures
  /\ Drop
  /\ tl' = Frozen
  /\ slipped' = slipped \cup Unprotected
  /\ Verdict(~gave, FALSE)
  /\ mine' = FALSE
  /\ stop' = IF gave /\ stop = "no" THEN "gaveup" ELSE stop
  /\ fails' = fails + 1
  /\ UNCHANGED <<fsvars, disk, skipped, refused, crashes>>

\* sendMeta failed: a flush that found no samples had declarations to send.
\* own: it was the poll goroutine's flush; h: the credential was refused.
MetaRefused(own, h) ==
  /\ \/ Fault(h)
     \/ own /\ ~h /\ stop = "cancel" /\ job.mode # "stop" /\ UNCHANGED fails
  /\ job.at # "down" /\ (own => job.at = "flush")
  /\ flying = {} /\ ~hold
  /\ IF h THEN StartHold ELSE UNCHANGED dvars
  /\ job' = IF own THEN [job EXCEPT !.at = "flushed", !.ok = FALSE] ELSE job
  /\ UNCHANGED <<fsvars, tl, mine, disk, slipped, skipped, refused, stop, crashes>>

HoldExpires ==
  /\ Release
  /\ UNCHANGED <<fsvars, tl, job, mine, disk, slipped, skipped, refused, stop, crashes, fails>>

-----------------------------------------------------------------------------
(* The poll goroutine.                                                     *)

Idle == [at |-> "idle", path |-> "", mode |-> "", n |-> 0, ok |-> TRUE, todo |-> {}]
At(stage) == [job EXCEPT !.at = stage]
Begin(stage, p, mode) == [Idle EXCEPT !.at = stage, !.path = p, !.mode = mode]

\* Mutant: the record is not consulted.
ResumeAfresh(p) ==
  IF StartAt = "end" /\ ~disk[p].had THEN size[p][live[p]] ELSE 0

\* ensure: where the record on disk lets a content be resumed.
ResumeAt(p) ==
  LET cp == disk[p] g == live[p]
      start == IF cp.had /\ StartAt # "beginning" /\ cp.fpc # 0 /\ cp.fpc = g
                 THEN cp.acked
               ELSE IF StartAt = "end" /\ ~cp.had THEN size[p][g]
               ELSE 0
  IN  IF start > size[p][g] THEN 0 ELSE start

\* A tailer opened on content g with the record cp, reading from start.
Opened(g, cp, start) ==
  SetFingerprint(
    Reset([NoTailer EXCEPT !.on = TRUE, !.file = g, !.base = g,
                           !.cpack = cp.acked, !.cptail = cp.tail], start),
    IF start > 0 THEN g ELSE 0, start)

Ensure(p) ==
  /\ job.at = "idle" /\ ~tl[p].on /\ present[p]
  /\ tl' = [tl EXCEPT ![p] = Opened(live[p], disk[p], ResumeAt(p))]
  /\ skipped' = IF StartAt = "end" /\ ~disk[p].had
                THEN skipped \cup {<<p, live[p], k>> : k \in 1 .. ResumeAt(p)}
                ELSE skipped
  /\ UNCHANGED <<dvars, fsvars, job, mine, disk, slipped, refused, stop, crashes, fails>>

\* applyRewind: the window is discarded, not emitted.
Rewound(t) == IF t.rewind THEN Reset(Emptied(t), t.ack) ELSE t

\* Mutant: only a file that has shrunk counts as rewritten.
Shrunk(p, t) == size[p][t.file] < t.off

\* The bytes behind the read head are no longer the ones consumed.
Rewritten(p, t) ==
  \/ size[p][t.file] < t.off
  \/ t.fpw > 0 /\ (t.fpc # t.file \/ size[p][t.file] < t.fpw)

\* poll on a path that has a tailer: applyRewind and checkRotation.  The
\* unlink branch is the race of a removal between the glob and the stat.
Sweep(p) ==
  /\ job.at = "idle" /\ tl[p].on
  /\ LET t == Rewound(tl[p]) IN
     \/ /\ Rewritten(p, t)
        /\ tl' = [tl EXCEPT ![p] = t]
        /\ job' = Begin("drain", p, "rewritten")
        /\ UNCHANGED disk
     \/ /\ ~Rewritten(p, t)
        /\ tl' = [tl EXCEPT ![p] = WidenFingerprint(t)]
        /\ \/ /\ present[p] /\ live[p] = t.file
              /\ job' = Begin("read", p, "sweep")
              /\ UNCHANGED disk
           \/ /\ ~present[p]
              /\ job' = Begin("read", p, "retire")
              /\ UNCHANGED disk
           \/ /\ present[p] /\ live[p] # t.file
              /\ job' = Begin("read", p, "retire")
              \* noteRotated
              /\ Save(IF kept[p][t.file]
                      THEN [disk EXCEPT ![p] =
                             [RecordOf(tl'[p]) EXCEPT
                                !.tail = [gen |-> t.file, off |-> t.ack]]]
                      ELSE disk)
  /\ UNCHANGED <<dvars, fsvars, mine, slipped, skipped, refused, stop, crashes, fails>>

\* retireUnmatched: the glob no longer returns p, because the path is gone
\* or because the directory could not be read this once.
Unmatched(p) ==
  /\ job.at = "idle" /\ tl[p].on
  /\ ~present[p] \/ "blip" \in Moves
  /\ job' = Begin("read", p, "keep")
  /\ UNCHANGED <<dvars, fsvars, tl, mine, disk, slipped, skipped, refused, stop, crashes, fails>>

\* A reloaded spec: a tailer that is not mid-record is closed and reopened.
Reloaded(p) ==
  /\ "reload" \in Moves
  /\ job.at = "idle" /\ tl[p].on /\ tl[p].win = {}
  /\ job' = Begin("drain", p, "keep")
  /\ UNCHANGED <<dvars, fsvars, tl, mine, disk, slipped, skipped, refused, stop, crashes, fails>>

\* One record goes through the extractor and its samples into the sink; ok
\* says whether Add took them.
ReadRecord ==
  LET p == job.path t == tl[p] k == t.off + 1 IN
  /\ job.at = "read"
  /\ ~t.rewind /\ k <= size[p][t.file]
  /\ \E taken \in SUBSET Emits(p, t, k) :
       /\ HandOver(Emits(p, t, k), taken)
       /\ job' = [job EXCEPT !.at = "publish", !.ok = (taken = Emits(p, t, k))]
  /\ tl' = [tl EXCEPT ![p] = Processed(p, t, k)]
  /\ UNCHANGED <<fsvars, mine, disk, slipped, skipped, stop, crashes, fails>>

\* The offset moves past the record, and pending with it, whatever Add said.
\* failed: Add turned a sample away or the flush inside it returned an
\* error, so read returns it after publishing.
Publish(failed) ==
  LET p == job.path t == tl[p] IN
  /\ job.at = "publish"
  /\ tl' = [tl EXCEPT ![p] = SyncPending([t EXCEPT !.off = t.off + 1])]
  /\ job' = IF ~failed THEN At("read")
            ELSE IF job.mode = "keep" THEN At("drain") ELSE Idle
  /\ failed => fails > 0 \/ stop = "cancel"
  /\ ~job.ok => failed
  /\ UNCHANGED <<dvars, fsvars, mine, disk, slipped, skipped, refused, stop, crashes, fails>>

\* read returns nil: a rewind is owed, or the end of the file (atEOF).
ReadDone ==
  LET p == job.path t == tl[p] IN
  /\ job.at = "read"
  /\ t.rewind \/ t.off = size[p][t.file]
  /\ tl' = IF t.rewind THEN tl ELSE [tl EXCEPT ![p] = WidenFingerprint(t)]
  /\ job' = IF job.mode = "sweep" THEN At("persist") ELSE At("drain")
  /\ UNCHANGED <<dvars, fsvars, mine, disk, slipped, skipped, refused, stop, crashes, fails>>

\* persistOwed(FALSE) at the end of a sweep: due is what the interval allows.
PersistOwed(due) ==
  /\ job.at = "persist"
  /\ LET owing == {p \in due : tl[p].on /\ tl[p].owed} IN
     /\ tl' = [p \in Paths |-> IF p \in owing THEN [tl[p] EXCEPT !.owed = FALSE]
                               ELSE tl[p]]
     /\ Save([p \in Paths |-> IF p \in owing THEN RecordOf(tl[p]) ELSE disk[p]])
  /\ job' = Idle
  /\ UNCHANGED <<dvars, fsvars, mine, slipped, skipped, refused, stop, crashes, fails>>

\* Mutant: a final record without its newline is not a record.
NoFinal(p, t) == FALSE

\* The unterminated record at the end of a file that can no longer grow.
HasFinal(p, t) == t.off = size[p][t.file] /\ frag[p][t.file]

\* Emptying the extractor into the sink: drainExtractor for a rewritten
\* file, after drainFinalRecord for a rotated or removed one, and
\* drainOrDiscard for a path that keeps its checkpoint.
Drain ==
  LET p == job.path
      t == tl[p]
      final == job.mode = "retire" /\ HasFinal(p, t)
      last == IF final THEN [Processed(p, t, t.off + 1) EXCEPT !.off = @ + 1] ELSE t
      discard == job.mode = "keep" /\ ReplayOwed(t)
  IN
  /\ job.at = "drain"
  /\ LET out == IF discard THEN {}
                ELSE WindowOf(p, last) \cup (IF final THEN Emits(p, t, t.off + 1) ELSE {})
     IN  \E taken \in SUBSET out : HandOver(out, taken)
  /\ tl' = [tl EXCEPT ![p] = Emptied(last)]
  /\ job' = IF discard THEN At("close") ELSE At("drained")
  /\ UNCHANGED <<fsvars, mine, disk, slipped, skipped, stop, crashes, fails>>

\* Mutant: the idle window is discarded.
FlushIdleDiscarding(p) ==
  /\ job.at = "idle" /\ tl[p].on /\ ~ReplayOwed(tl[p]) /\ tl[p].win # {}
  /\ tl' = [tl EXCEPT ![p] = Emptied(@)]
  /\ job' = Begin("drained", p, "idle")
  /\ UNCHANGED <<dvars, fsvars, mine, disk, slipped, skipped, refused, stop, crashes, fails>>

\* flushIdle: a window nobody closed is emitted.
FlushIdle(p) ==
  LET t == tl[p] IN
  /\ job.at = "idle" /\ t.on /\ ~ReplayOwed(t) /\ t.win # {}
  /\ \E taken \in SUBSET WindowOf(p, t) : HandOver(WindowOf(p, t), taken)
  /\ tl' = [tl EXCEPT ![p] = Emptied(t)]
  /\ job' = Begin("drained", p, "idle")
  /\ UNCHANGED <<fsvars, mine, disk, slipped, skipped, stop, crashes, fails>>

\* syncPending once every drained sample has been offered to the sink.
DrainPublish ==
  LET p == job.path IN
  /\ job.at = "drained"
  /\ tl' = [tl EXCEPT ![p] = SyncPending(@)]
  /\ job' = CASE job.mode = "idle" -> Idle
              [] job.mode = "stop" -> [job EXCEPT !.at = "closing", !.todo = @ \ {p}]
              [] OTHER -> At("close")
  /\ UNCHANGED <<dvars, fsvars, mine, disk, slipped, skipped, refused, stop, crashes, fails>>

\* The records of content g of p that lie below offset n.
Below(p, g, n) == {r \in Records : r[1] = p /\ r[2] = g /\ r[3] <= n}

\* The rewritten branch of checkRotation, after the drain.  A save that is
\* owed stays owed, with the offset of the content that is gone.
RestartRead ==
  LET p == job.path t == tl[p] IN
  /\ job.at = "close" /\ job.mode = "rewritten"
  /\ tl' = [tl EXCEPT ![p] = SetFingerprint(Reset([t EXCEPT !.base = t.file], 0), 0, 0)]
  /\ slipped' = IF t.owed THEN slipped \cup Below(p, t.file, t.cpack) ELSE slipped
  /\ job' = Begin("read", p, "sweep")
  /\ UNCHANGED <<dvars, fsvars, mine, disk, skipped, refused, stop, crashes, fails>>

\* closeTailer(rewind = FALSE): the record on disk stays, or catches up.
CloseKeeping ==
  LET p == job.path t == tl[p] IN
  /\ job.at = "close" /\ job.mode = "keep"
  /\ Save(IF t.owed THEN [disk EXCEPT ![p] = RecordOf(t)] ELSE disk)
  /\ tl' = [tl EXCEPT ![p] = NoTailer]
  /\ job' = Idle
  /\ UNCHANGED <<dvars, fsvars, mine, slipped, skipped, refused, stop, crashes, fails>>

\* closeTailer(rewind = TRUE): the tailer leaves the map, then Flush runs.
CloseRewinding ==
  LET p == job.path IN
  /\ job.at = "close" /\ job.mode = "retire"
  /\ tl' = [tl EXCEPT ![p].on = FALSE, ![p].owed = FALSE]
  /\ job' = Begin("flush", p, "retire")
  /\ UNCHANGED <<dvars, fsvars, mine, disk, slipped, skipped, refused, stop, crashes, fails>>

\* After that Flush: the record starts the next content at zero, and still
\* remembers the rotated file only if the flush reported an error.
RetireSave ==
  LET p == job.path IN
  /\ job.at = "flushed" /\ job.mode = "retire"
  /\ Save([disk EXCEPT ![p] =
       [had |-> TRUE, fpc |-> 0, acked |-> 0,
        tail |-> IF disk[p].had /\ ~job.ok THEN disk[p].tail ELSE tl[p].cptail]])
  /\ tl' = [tl EXCEPT ![p] = NoTailer]
  /\ job' = [Idle EXCEPT !.at = "persist"]
  /\ UNCHANGED <<dvars, fsvars, mine, slipped, skipped, refused, stop, crashes, fails>>

-----------------------------------------------------------------------------
(* Stopping and crashing.                                                  *)

\* Mutant: closeAll also visits paths whose tailer has been closed.
ShutdownEverything ==
  /\ job.at = "idle" /\ stop # "no" /\ crashes < MaxCrash
  /\ job' = [Idle EXCEPT !.at = "closing", !.mode = "stop", !.todo = Paths]
  /\ UNCHANGED <<dvars, fsvars, tl, mine, disk, slipped, skipped, refused, stop, crashes, fails>>

\* The context is cancelled, which every call in progress sees.
Cancel ==
  /\ job.at # "down" /\ stop # "cancel" /\ crashes < MaxCrash
  /\ stop' = "cancel"
  /\ UNCHANGED <<dvars, fsvars, tl, job, mine, disk, slipped, skipped, refused, crashes, fails>>

\* The loop notices a cancellation or a give-up: closeAll goes through every
\* tailer, on the context as it is.
Shutdown ==
  /\ job.at = "idle" /\ stop # "no" /\ crashes < MaxCrash
  /\ job' = [Idle EXCEPT !.at = "closing", !.mode = "stop",
                         !.todo = {p \in Paths : tl[p].on}]
  /\ UNCHANGED <<dvars, fsvars, tl, mine, disk, slipped, skipped, refused, stop, crashes, fails>>

\* closeAll for one tailer: drainOrDiscard.
CloseOne(p) ==
  LET t == tl[p] IN
  /\ job.at = "closing" /\ p \in job.todo
  /\ LET out == IF ReplayOwed(t) THEN {} ELSE WindowOf(p, t)
     IN  \E taken \in SUBSET out : HandOver(out, taken)
  /\ tl' = [tl EXCEPT ![p] = Emptied(t)]
  /\ job' = IF ReplayOwed(t) THEN [job EXCEPT !.todo = @ \ {p}]
            ELSE [job EXCEPT !.at = "drained", !.path = p]
  /\ UNCHANGED <<fsvars, mine, disk, slipped, skipped, stop, crashes, fails>>

\* closeAll is done; the final Flush.
FinalFlush ==
  /\ job.at = "closing" /\ job.todo = {}
  /\ job' = At("flush")
  /\ UNCHANGED <<dvars, fsvars, tl, mine, disk, slipped, skipped, refused, stop, crashes, fails>>

Down ==
  /\ Lose
  /\ tl' = [p \in Paths |-> NoTailer]
  /\ mine' = FALSE
  /\ job' = [Idle EXCEPT !.at = "down"]
  /\ stop' = "no"
  /\ crashes' = crashes + 1

\* persistOwed(TRUE), and the process exits.
ShutdownSave ==
  /\ job.at = "flushed" /\ job.mode = "stop"
  /\ Save([p \in Paths |-> IF tl[p].on /\ tl[p].owed THEN RecordOf(tl[p]) ELSE disk[p]])
  /\ Down
  /\ UNCHANGED <<fsvars, slipped, skipped, refused, fails>>

Crash ==
  /\ job.at # "down" /\ crashes < MaxCrash
  /\ Down
  /\ UNCHANGED <<fsvars, disk, slipped, skipped, refused, fails>>

-----------------------------------------------------------------------------
(* Starting: recoverRotated finishes the files the records still name.     *)

Start ==
  /\ job.at = "down"
  /\ job' = [Idle EXCEPT !.at = "recover",
                         !.todo = {p \in Paths : disk[p].tail.gen # 0}]
  /\ UNCHANGED <<dvars, fsvars, tl, mine, disk, slipped, skipped, refused, stop, crashes, fails>>

\* The samples of content g of p from offset a to its end: each plain record
\* alone, the window records between two rolls together.
SamplesFrom(p, g, a) ==
  LET end == size[p][g] + (IF frag[p][g] THEN 1 ELSE 0)
      range == (a + 1) .. end
      shape(k) == Shape[<<p, g, k>>]
      windowed == {k \in range : shape(k) \in {"join", "roll"}}
      together(i, j) == ~\E k \in range : shape(k) = "roll" /\ i < k /\ k <= j
      window(i) == {j \in windowed : together(i, j) /\ together(j, i)}
  IN  {{<<p, g, k>>} : k \in {k \in range : shape(k) = "plain"}}
        \cup {{<<p, g, j>> : j \in window(i)} : i \in windowed}

\* Of these, the window the extractor still holds at the end of the file.
HeldAtEnd(S) ==
  {s \in S : \E q \in s : /\ Shape[q] # "plain"
                         /\ \A r \in UNION S : Shape[r] # "plain" => r[3] <= q[3]}

\* finishRotated up to its Flush.  The file may have gone away; and a
\* cancellation ends the read early, which the record on disk outlives.  What
\* the extractor holds at the end is offered and not missed if turned away.
Recover(p) ==
  LET tail == disk[p].tail
      all == SamplesFrom(p, tail.gen, tail.off)
      errand(stage) == [job EXCEPT !.at = stage, !.path = p, !.mode = "recover", !.n = 0]
  IN
  /\ job.at = "recover" /\ p \in job.todo
  /\ IF tail.gen # 0 /\ kept[p][tail.gen]
     THEN \/ /\ \E taken \in SUBSET all :
                  HandOver(all, taken) /\ all \ taken \subseteq HeldAtEnd(all)
             /\ job' = errand("flush")
          \/ /\ stop = "cancel"
             /\ \E some \in SUBSET all : Add(some)
             /\ job' = [errand("flushed") EXCEPT !.ok = FALSE]
             /\ UNCHANGED refused
     ELSE /\ job' = [job EXCEPT !.todo = @ \ {p}]
          /\ UNCHANGED <<dvars, refused>>
  /\ UNCHANGED <<fsvars, tl, mine, disk, slipped, skipped, stop, crashes, fails>>

\* The rotated file is forgotten when finishRotated returned no error.
RecoverSave ==
  LET p == job.path IN
  /\ job.at = "flushed" /\ job.mode = "recover"
  /\ Save(IF job.ok THEN [disk EXCEPT ![p].tail = NoTail] ELSE disk)
  /\ job' = [job EXCEPT !.at = "recover", !.todo = @ \ {p}]
  /\ UNCHANGED <<dvars, fsvars, tl, mine, slipped, skipped, refused, stop, crashes, fails>>

Recovered ==
  /\ job.at = "recover" /\ job.todo = {}
  /\ job' = Idle
  /\ UNCHANGED <<dvars, fsvars, tl, mine, disk, slipped, skipped, refused, stop, crashes, fails>>

-----------------------------------------------------------------------------
(* The owners of the files.                                                *)

others == <<dvars, job, mine, disk, slipped, skipped, refused, stop, crashes, fails>>

AppendRecord(p) ==
  LET g == live[p] IN
  /\ present[p] /\ size[p][g] < MaxPos
  /\ size' = [size EXCEPT ![p][g] = @ + 1]
  /\ frag' = [frag EXCEPT ![p][g] = FALSE]
  /\ UNCHANGED <<live, present, kept, tl, others>>

AppendFragment(p) ==
  LET g == live[p] IN
  /\ "fragment" \in Moves
  /\ present[p] /\ size[p][g] < MaxPos /\ ~frag[p][g]
  /\ frag' = [frag EXCEPT ![p][g] = TRUE]
  /\ UNCHANGED <<live, present, size, kept, tl, others>>

\* rename + create in one sweep.  found: findSameFile can locate the file.
Rotate(p, found) ==
  /\ "rotate" \in Moves
  /\ present[p] /\ live[p] < MaxGen
  /\ live' = [live EXCEPT ![p] = @ + 1]
  /\ kept' = [kept EXCEPT ![p][live[p]] = found]
  /\ UNCHANGED <<present, size, frag, tl, others>>

\* rename or unlink with nothing in its place yet, and the file coming later.
Remove(p, found) ==
  /\ "remove" \in Moves
  /\ present[p]
  /\ present' = [present EXCEPT ![p] = FALSE]
  /\ kept' = [kept EXCEPT ![p][live[p]] = found]
  /\ UNCHANGED <<live, size, frag, tl, others>>

Create(p) ==
  /\ ~present[p] /\ live[p] < MaxGen
  /\ present' = [present EXCEPT ![p] = TRUE]
  /\ live' = [live EXCEPT ![p] = @ + 1]
  /\ UNCHANGED <<size, frag, kept, tl, others>>

\* truncate or copytruncate: the open handle now shows the new content.
\* Assumed to happen between two sweeps, not inside one.
Rewrite(p, n) ==
  /\ "rewrite" \in Moves /\ job.at = "idle"
  /\ present[p] /\ live[p] < MaxGen
  /\ live' = [live EXCEPT ![p] = @ + 1]
  /\ size' = [size EXCEPT ![p][live[p] + 1] = n]
  /\ frag' = [frag EXCEPT ![p][live[p] + 1] = FALSE]
  /\ tl' = IF tl[p].on /\ tl[p].file = live[p]
           THEN [tl EXCEPT ![p].file = live[p] + 1] ELSE tl
  /\ UNCHANGED <<present, kept, others>>

-----------------------------------------------------------------------------
Init ==
  /\ DInit
  /\ live = [p \in Paths |-> 0]
  /\ present = [p \in Paths |-> FALSE]
  /\ size = [p \in Paths |-> [g \in Gens |-> 0]]
  /\ frag = [p \in Paths |-> [g \in Gens |-> FALSE]]
  /\ kept = [p \in Paths |-> [g \in Gens |-> FALSE]]
  /\ tl = [p \in Paths |-> NoTailer]
  /\ job = Idle
  /\ mine = FALSE
  /\ disk = [p \in Paths |-> NoRecord]
  /\ slipped = {} /\ skipped = {} /\ refused = {}
  /\ stop = "no"
  /\ crashes = 0 /\ fails = 0

Delivering ==
  \/ \E F \in SUBSET queue : FlushTake(F) \/ PollFlushTake(F)
  \/ PollFlushNil
  \/ \E S \in SUBSET flying : StoreCommit(S)
  \/ \E due \in SUBSET Paths : FlushAccepted(due)
  \/ \E h \in BOOLEAN : FlushRequeued(h)
  \/ \E gave \in BOOLEAN : FlushDropped(gave)
  \/ \E own, h \in BOOLEAN : MetaRefused(own, h)
  \/ HoldExpires

Polling ==
  \/ \E p \in Paths : \/ Ensure(p) \/ Sweep(p) \/ Unmatched(p) \/ Reloaded(p)
                      \/ FlushIdle(p) \/ CloseOne(p) \/ Recover(p)
  \/ ReadRecord
  \/ \E failed \in BOOLEAN : Publish(failed)
  \/ ReadDone
  \/ \E due \in SUBSET Paths : PersistOwed(due)
  \/ Drain \/ DrainPublish
  \/ RestartRead \/ CloseKeeping \/ CloseRewinding \/ RetireSave
  \/ Cancel \/ Shutdown \/ FinalFlush \/ ShutdownSave
  \/ Start \/ RecoverSave \/ Recovered

Owners ==
  \E p \in Paths :
    \/ AppendRecord(p) \/ AppendFragment(p) \/ Create(p)
    \/ \E found \in BOOLEAN : Rotate(p, found) \/ Remove(p, found)
    \/ \E n \in 0 .. MaxPos : Rewrite(p, n)

Next == Delivering \/ Polling \/ Owners \/ Crash

Spec == Init /\ [][Next]_vars

-----------------------------------------------------------------------------
(* Fairness.  The sweep, the idle tick and the flush tick are tickers, so  *)
(* each path is swept and the buffer is flushed again and again; a request *)
(* ends, because the client bounds its retries; a hold runs out.  Nothing  *)
(* is assumed of the files' owners, of crashes or of failures.             *)

Fairness ==
  /\ \A p \in Paths : /\ SF_vars(Ensure(p)) /\ SF_vars(Sweep(p)) /\ SF_vars(FlushIdle(p))
                      /\ WF_vars(CloseOne(p)) /\ WF_vars(Recover(p))
  /\ WF_vars(ReadRecord \/ Publish(FALSE) \/ ReadDone)
  /\ WF_vars(PersistOwed(Paths))
  /\ WF_vars(Drain \/ DrainPublish \/ RestartRead \/ CloseKeeping \/ CloseRewinding)
  /\ SF_vars(Shutdown) /\ WF_vars(FinalFlush \/ ShutdownSave \/ RetireSave)
  /\ WF_vars(Start \/ RecoverSave \/ Recovered)
  /\ WF_vars(PollFlushNil)
  /\ SF_vars(PollFlushTake(queue)) /\ SF_vars(FlushTake(queue))
  /\ WF_vars(StoreCommit(flying \ Bad)) /\ WF_vars(FlushAccepted(Paths))
  /\ WF_vars(HoldExpires)

FairSpec == Spec /\ Fairness

-----------------------------------------------------------------------------
(* Properties.                                                             *)

Tail == [gen : 0 .. MaxGen, off : Nat]
Record == [had : BOOLEAN, fpc : 0 .. MaxGen, acked : Nat, tail : Tail]
Tailer ==
  [on : BOOLEAN, file : 0 .. MaxGen, base : 0 .. MaxGen, off : Nat, pend : Nat,
   infl : Nat, ack : Nat, holed : BOOLEAN, rewind : BOOLEAN, fpc : 0 .. MaxGen,
   fpw : Nat, win : SUBSET (1 .. MaxPos), from : Nat, owed : BOOLEAN, cpack : Nat, cptail : Tail]
Stages == {"idle", "read", "publish", "persist", "drain", "drained", "close",
           "flush", "wait", "flushed", "closing", "recover", "down"}
Modes == {"", "sweep", "retire", "keep", "rewritten", "idle", "stop", "recover"}
Job == [at : Stages, path : Paths \cup {""}, mode : Modes, n : Nat, ok : BOOLEAN,
        todo : SUBSET Paths]

SinkOK ==
  /\ queue \subseteq Samples /\ flying \subseteq Samples
  /\ stored \subseteq Samples /\ dropped \subseteq Samples
  /\ whole \in BOOLEAN /\ hold \in BOOLEAN

DirOK ==
  /\ live \in [Paths -> 0 .. MaxGen] /\ present \in [Paths -> BOOLEAN]
  /\ size \in [Paths -> [Gens -> 0 .. MaxPos]]
  /\ frag \in [Paths -> [Gens -> BOOLEAN]] /\ kept \in [Paths -> [Gens -> BOOLEAN]]

FollowerOK ==
  /\ tl \in [Paths -> Tailer] /\ job \in Job /\ disk \in [Paths -> Record]
  /\ mine \in BOOLEAN

BooksOK ==
  /\ slipped \subseteq Records /\ skipped \subseteq Records /\ refused \subseteq Records
  /\ stop \in {"no", "gaveup", "cancel"}
  /\ crashes \in Nat /\ fails \in Nat

\* Type invariant: the follower keeps well-formed tailers and resume records,
\* and hands the sink only samples made of records of the followed files.
TypeOK == SinkOK /\ DirOK /\ FollowerOK /\ BooksOK

\* The store holds record r or has nothing to get from it.
Delivered(r) ==
  \/ Shape[r] = "none"
  \/ r \in skipped
  \/ \E s \in Settled : r \in s

\* As Delivered, forgiving what the code is known to pass over: a batch lost
\* before its feeder was frozen (see FeederFrozen), the head of a rewritten
\* file whose old offset was owed to disk, what Add turned away after the
\* context was cancelled.
Accounted(r) == Delivered(r) \/ r \in slipped \/ r \in refused

\* The offset a tailer has had acknowledged covers only records the store
\* holds: no commit of a later batch, no thaw and no re-read moves it past a
\* record that is still queued, in flight, inside the extractor or lost.
AckedIsStored ==
  \A p \in Paths :
    tl[p].on /\ tl[p].base = tl[p].file
      => \A k \in 1 .. tl[p].ack : Accounted(<<p, tl[p].base, k>>)

\* Nor does the resume record on disk, whenever it was written: a process
\* that starts from it skips no record the store lacks.
CheckpointHonest ==
  \A p \in Paths :
    present[p] /\ disk[p].fpc # 0 /\ disk[p].fpc = live[p]
      => \A k \in 1 .. disk[p].acked : Accounted(<<p, live[p], k>>)

\* The resume record of the file at a path never moves backwards, so a
\* restart re-reads no more than the previous one would have.
ResumeNeverRegresses ==
  [][\A p \in Paths :
       disk[p].fpc # 0 /\ disk[p].fpc = live[p] /\ disk'[p].fpc = disk[p].fpc
         => disk'[p].acked >= disk[p].acked]_vars

\* A rotated or removed file is let go only when every record it holds, the
\* unterminated last one included, has been handed to the sink.  Excepted is
\* a rewrite nobody can notice: of bytes no fingerprint covered yet.
DrainComplete ==
  LET p == job.path g == tl[p].file IN
  job.mode = "retire" /\ job.at \in {"flush", "wait", "flushed"} /\ tl[p].base = g
    => \A k \in 1 .. size[p][g] + (IF frag[p][g] THEN 1 ELSE 0) :
         Accounted(<<p, g, k>>) \/ <<p, g, k>> \in UNION (queue \cup flying)

\* Every terminated record of a file the follower has opened is in the store
\* in the end, whatever failed, stopped or crashed on the way, but for those Add
\* turned away after a cancellation.
EventuallyStored ==
  \A p \in Paths, g \in Gens, k \in 1 .. MaxPos :
    (tl[p].on /\ tl[p].file = g /\ size[p][g] >= k)
      ~> (Delivered(<<p, g, k>>) \/ <<p, g, k>> \in refused)

-----------------------------------------------------------------------------
(* The inductive invariant behind TypeOK and AckedIsStored.                *)

\* While the poll goroutine is inside a file, it has that file's tailer, and
\* what closeAll has left to close is open.
JobOK ==
  /\ job.at \in {"read", "publish", "drain", "drained", "close"}
       => job.path \in Paths /\ tl[job.path].on
  /\ job.at = "closing" => job.mode = "stop"
  /\ job.mode = "stop" => \A p \in job.todo : tl[p].on

\* An open handle shows a content that exists; so does a path; a fragment
\* leaves room for the record it begins.
FileOK ==
  \A p \in Paths :
    /\ tl[p].on => tl[p].file # 0
    /\ present[p] => live[p] # 0
    /\ \A g \in Gens : frag[p][g] => size[p][g] < MaxPos

TypeInv == TypeOK /\ JobOK /\ FileOK

\* Records nothing further is owed for, and those somewhere on the way.
Done == {r \in Records : Accounted(r)}
InHand == Done \cup UNION (queue \cup flying)

Covers(R, p, g, n) == \A k \in 1 .. n : <<p, g, k>> \in R

\* One tailer: what it has had acknowledged, or would write to disk, is done;
\* and unless a replay is owed, what it has published is in hand and what it
\* has read is in hand or in the window its pending offset stays before.
TailerInv(p, t, done, hand) ==
  t.on =>
    /\ t.base = t.file /\ t.fpc \in {0, t.file}
    /\ Covers(done, p, t.file, t.ack)
    /\ t.owed => Covers(done, p, t.file, t.cpack)
    /\ t.rewind => t.infl = t.ack
    /\ ~ReplayOwed(t) =>
         /\ Covers(hand, p, t.file, t.pend)
         /\ \A k \in 1 .. t.off : <<p, t.file, k>> \in hand \/ k \in t.win
         /\ t.win # {} => t.from <= t.off /\ \A k \in t.win : k > t.from

\* The snapshot of an announced request covers only that request's records.
FlightInv(p, t, done) ==
  t.on /\ ~ReplayOwed(t) /\ flying # {} /\ whole
    => Covers(done \cup UNION flying, p, t.file, t.infl)

\* Between queueing a record and publishing it, the record is in hand; a
\* drained extractor stays empty until its file is read again.
PublishInv ==
  LET p == job.path t == tl[p] IN
  /\ job.at = "publish" /\ ~ReplayOwed(t)
       => <<p, t.file, t.off + 1>> \in InHand \/ t.off + 1 \in t.win
  /\ job.at \in {"drained", "close"} => t.win = {}

\* A resume record is of a content that exists, and one for the newest
\* content covers only what is done.
RecordInv(p, cp, g, done) ==
  cp.fpc <= g /\ (cp.fpc # 0 /\ cp.fpc = g => Covers(done, p, g, cp.acked))

\* The inductive invariant of a follower whose files are not rewritten.
AckInv ==
  /\ \A p \in Paths : TailerInv(p, tl[p], Done, InHand) /\ FlightInv(p, tl[p], Done)
  /\ PublishInv
  /\ \A p \in Paths : /\ tl[p].on => tl[p].file <= live[p]
                     /\ RecordInv(p, disk[p], live[p], Done)

-----------------------------------------------------------------------------
(* What a comment says of the program and the code does not do.            *)

\* markHoled: "a tailer that had nothing in flight cannot have contributed to
\* the lost batch".  If so, no acknowledged record was lost in one.
FeederFrozen ==
  \A p \in Paths :
    tl[p].on => \A k \in 1 .. tl[p].ack : Delivered(<<p, tl[p].base, k>>)

=============================================================================
