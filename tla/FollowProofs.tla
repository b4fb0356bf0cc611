---------------------------- MODULE FollowProofs ----------------------------
(***************************************************************************)
(* Proofs about Follow for every set of paths, every record shape, every   *)
(* bound and every choice of failures: its types, and of a follower whose  *)
(* files are not rewritten in place that it never acknowledges, in memory  *)
(* or on disk, a record the store lacks; lets go of a rotated or removed   *)
(* file only when it has all of it; and never moves the resume record of a *)
(* file back.                                                              *)
(***************************************************************************)
EXTENDS Follow, TLAPS

-----------------------------------------------------------------------------
(* The tailer's methods keep its type.                                     *)

LEMMA TailerTypes ==
  ASSUME NEW t \in Tailer, NEW n \in Nat, NEW g \in 0 .. MaxGen
  PROVE  /\ SetPending(t, n) \in Tailer
         /\ MarkInflight(t) \in Tailer
         /\ MarkHoled(t) \in Tailer
         /\ ClearHole(t) \in Tailer
         /\ \A now \in BOOLEAN : CommitInflight(t, now) \in Tailer
         /\ Reset(t, n) \in Tailer
         /\ SetFingerprint(t, g, n) \in Tailer
         /\ WidenFingerprint(t) \in Tailer
         /\ Emptied(t) \in Tailer
         /\ SyncPending(t) \in Tailer
         /\ Rewound(t) \in Tailer
         /\ RecordOf(t) \in Record
<1>1. SetPending(t, n) \in Tailer BY DEF SetPending, Tailer
<1>2. MarkInflight(t) \in Tailer BY DEF MarkInflight, Tailer
<1>3. MarkHoled(t) \in Tailer BY DEF MarkHoled, Tailer
<1>4. ClearHole(t) \in Tailer BY DEF ClearHole, Tailer
<1>5. \A now \in BOOLEAN : CommitInflight(t, now) \in Tailer
      BY DEF CommitInflight, Tailer
<1>6. ASSUME NEW u \in Tailer, NEW m \in Nat PROVE Reset(u, m) \in Tailer
  <2>1. [u EXCEPT !.off = m, !.pend = m] \in Tailer BY DEF Tailer
  <2>2. [u EXCEPT !.off = m, !.pend = m, !.infl = m, !.ack = m] \in Tailer BY DEF Tailer
  <2> QED BY <2>2 DEF Reset, Tailer
<1>7. \A c \in 0 .. MaxGen, w \in Nat : SetFingerprint(t, c, w) \in Tailer
      BY DEF SetFingerprint, Tailer
<1>8. WidenFingerprint(t) \in Tailer BY <1>7 DEF WidenFingerprint, Tailer
<1>9. Emptied(t) \in Tailer BY DEF Emptied, Tailer
<1>10. SyncPending(t) \in Tailer BY DEF SyncPending, SetPending, Tailer
<1>11. t.ack \in Nat BY DEF Tailer
<1>12. Rewound(t) \in Tailer BY <1>6, <1>9, <1>11 DEF Rewound
<1>13. RecordOf(t) \in Record BY DEF RecordOf, Record, Tailer
<1> QED BY <1>1, <1>2, <1>3, <1>4, <1>5, <1>6, <1>7, <1>8, <1>9, <1>10, <1>12, <1>13

\* Nor do they change which file it has open.
SameHandle(u, t) == u.on = t.on /\ u.file = t.file

LEMMA TailerHandle ==
  ASSUME NEW t \in Tailer, NEW n, NEW g
  PROVE  /\ SameHandle(SetPending(t, n), t)
         /\ SameHandle(MarkInflight(t), t)
         /\ SameHandle(MarkHoled(t), t)
         /\ SameHandle(ClearHole(t), t)
         /\ \A now : SameHandle(CommitInflight(t, now), t)
         /\ SameHandle(Reset(t, n), t)
         /\ SameHandle(SetFingerprint(t, g, n), t)
         /\ SameHandle(WidenFingerprint(t), t)
         /\ SameHandle(Emptied(t), t)
         /\ SameHandle(SyncPending(t), t)
         /\ SameHandle(Rewound(t), t)
<1> USE DEF SameHandle, Tailer
<1>1. SameHandle(SetPending(t, n), t) BY DEF SetPending
<1>2. SameHandle(MarkInflight(t), t) BY DEF MarkInflight
<1>3. SameHandle(MarkHoled(t), t) BY DEF MarkHoled
<1>4. SameHandle(ClearHole(t), t) BY DEF ClearHole
<1>5. \A now : SameHandle(CommitInflight(t, now), t) BY DEF CommitInflight
<1>6. SameHandle(Reset(t, n), t) BY DEF Reset
<1>7. SameHandle(SetFingerprint(t, g, n), t) BY DEF SetFingerprint
<1>8. SameHandle(WidenFingerprint(t), t) BY DEF WidenFingerprint, SetFingerprint
<1>9. SameHandle(Emptied(t), t) BY DEF Emptied
<1>10. SameHandle(SyncPending(t), t) BY DEF SyncPending, SetPending
<1>11. SameHandle(Rewound(t), t) BY DEF Rewound, Reset, Emptied
<1> QED BY <1>1, <1>2, <1>3, <1>4, <1>5, <1>6, <1>7, <1>8, <1>9, <1>10, <1>11

\* What the extractor holds and emits consists of records of its file.
LEMMA WindowType ==
  ASSUME NEW p \in Paths, NEW t \in Tailer, t.file # 0
  PROVE  WindowOf(p, t) \subseteq Samples
<1>1. t.file \in Gens /\ t.win \in SUBSET (1 .. MaxPos)
      BY FollowAssumption DEF Tailer, Gens
<1> QED BY <1>1, FollowAssumption DEF WindowOf, Records

LEMMA EmitsType ==
  ASSUME NEW p \in Paths, NEW t \in Tailer, t.file # 0, NEW k \in 1 .. MaxPos
  PROVE  /\ Emits(p, t, k) \subseteq Samples
         /\ Processed(p, t, k) \in Tailer
         /\ SameHandle(Processed(p, t, k), t)
         /\ Processed(p, t, k).off = t.off
<1>1. t.file \in Gens /\ t.win \in SUBSET (1 .. MaxPos) /\ t.from \in Nat
      BY FollowAssumption DEF Tailer, Gens
<1>2. Emits(p, t, k) \subseteq Samples
      BY <1>1, WindowType, FollowAssumption DEF Emits, Records
<1>3. k - 1 \in Nat BY FollowAssumption
<1>4. Processed(p, t, k) \in Tailer
      BY <1>1, <1>3 DEF Processed, Tailer
<1>5. SameHandle(Processed(p, t, k), t) /\ Processed(p, t, k).off = t.off
      BY DEF Processed, Tailer, SameHandle
<1> QED BY <1>2, <1>4, <1>5

-----------------------------------------------------------------------------
(* Type correctness.                                                       *)

LEMMA RestingTypes == NoTailer \in Tailer /\ NoRecord \in Record /\ Idle \in Job
<1>1. NoTailer \in Tailer BY FollowAssumption DEF NoTailer, Tailer, Tail, NoTail
<1>2. NoRecord \in Record BY FollowAssumption DEF NoRecord, Record, Tail, NoTail
<1>3. Idle \in Job BY DEF Idle, Job, Stages, Modes
<1> QED BY <1>1, <1>2, <1>3

LEMMA TypeInit == Init => TypeInv
<1> SUFFICES ASSUME Init PROVE TypeInv OBVIOUS
<1> USE DEF Init, DInit
<1>1. SinkOK BY DEF SinkOK
<1>2. live \in [Paths -> 0 .. MaxGen] /\ size \in [Paths -> [Gens -> 0 .. MaxPos]]
      BY FollowAssumption
<1>3. /\ present \in [Paths -> BOOLEAN] /\ frag \in [Paths -> [Gens -> BOOLEAN]]
      /\ kept \in [Paths -> [Gens -> BOOLEAN]]
      BY Zenon
<1>4. FollowerOK BY RestingTypes DEF FollowerOK
<1>5. BooksOK BY DEF BooksOK
<1>6. JobOK BY DEF JobOK, Idle
<1>7. FileOK BY DEF FileOK, NoTailer
<1> QED BY <1>1, <1>2, <1>3, <1>4, <1>5, <1>6, <1>7 DEF TypeInv, TypeOK, DirOK

\* The observers treat every tailer alike and close none.
LEMMA ObserverTypes ==
  ASSUME TypeInv
  PROVE  /\ BeginFlush \in [Paths -> Tailer] /\ Frozen \in [Paths -> Tailer]
         /\ \A p \in Paths : /\ SameHandle(BeginFlush[p], tl[p])
                             /\ SameHandle(Frozen[p], tl[p])
         /\ \A p \in Paths, now \in BOOLEAN :
              Committed(tl[p], now) \in Tailer /\ SameHandle(Committed(tl[p], now), tl[p])
<1> USE DEF TypeInv, TypeOK, FollowerOK, SinkOK
<1>0. \A u \in Tailer : MarkInflight(u) \in Tailer /\ MarkHoled(u) \in Tailer
      BY TailerTypes, FollowAssumption
<1>1. BeginFlush \in [Paths -> Tailer] BY <1>0 DEF BeginFlush
<1>2. Frozen \in [Paths -> Tailer] BY <1>0, <1>1 DEF Frozen
<1>3. ASSUME NEW p \in Paths PROVE SameHandle(BeginFlush[p], tl[p])
      BY TailerHandle DEF BeginFlush, SameHandle
<1>4. ASSUME NEW p \in Paths PROVE SameHandle(Frozen[p], tl[p])
  <2> DEFINE u == IF whole THEN tl[p] ELSE BeginFlush[p]
  <2>1. u \in Tailer /\ SameHandle(u, tl[p]) BY <1>1, <1>3 DEF SameHandle
  <2>2. Frozen[p] = IF u.on THEN MarkHoled(u) ELSE u BY DEF Frozen
  <2>3. SameHandle(MarkHoled(u), u) BY <2>1, TailerHandle
  <2> QED BY <2>1, <2>2, <2>3 DEF SameHandle
<1>5. ASSUME NEW p \in Paths, NEW now \in BOOLEAN
      PROVE  Committed(tl[p], now) \in Tailer /\ SameHandle(Committed(tl[p], now), tl[p])
  <2>1. tl[p] \in Tailer /\ 0 \in Nat /\ 0 \in 0 .. MaxGen BY FollowAssumption
  <2>2. ClearHole(tl[p]) \in Tailer /\ CommitInflight(tl[p], now) \in Tailer
        BY <2>1, TailerTypes
  <2>3. SameHandle(ClearHole(tl[p]), tl[p]) /\ SameHandle(CommitInflight(tl[p], now), tl[p])
        BY <2>1, TailerHandle
  <2> QED BY <2>1, <2>2, <2>3 DEF Committed, SameHandle
<1> QED BY <1>1, <1>2, <1>3, <1>4, <1>5

\* A step that moves no handle and stays inside the same file is well typed
\* as far as handles and files go.
LEMMA HandlesKept ==
  ASSUME TypeInv, UNCHANGED fsvars,
         \A p \in Paths : SameHandle(tl'[p], tl[p]),
         \/ job'.at \notin {"read", "publish", "drain", "drained", "close"}
         \/ job'.path = job.path /\ job.at \in {"read", "publish", "drain", "drained", "close"}
         \/ job'.path \in Paths /\ tl[job'.path].on,
         job'.at = "closing" => job'.mode = "stop",
         job'.mode = "stop" => \A p \in job'.todo : tl'[p].on
  PROVE  JobOK' /\ FileOK'
BY DEF TypeInv, JobOK, FileOK, fsvars, SameHandle

\* A save leaves each path with its old record or the new one.
LEMMA SaveTypes ==
  ASSUME NEW new, Save(new), disk \in [Paths -> Record], \A p \in Paths : new[p] \in Record
  PROVE  disk' \in [Paths -> Record]
BY DEF Save

LEMMA SaveEach ==
  ASSUME NEW new, Save(new), NEW p \in Paths
  PROVE  disk'[p] = new[p] \/ disk'[p] = disk[p]
BY DEF Save

LEMMA JobCount ==
  ASSUME NEW j \in Job
  PROVE  j.n + 1 \in Nat
<1>1. j.n \in Nat BY DEF Job
<1> QED BY <1>1

LEMMA DeliveringType ==
  ASSUME TypeInv, Delivering
  PROVE  TypeInv'
<1> USE DEF TypeInv, TypeOK
<1>0. ASSUME job'.mode = job.mode, job'.todo = job.todo,
             \A p \in Paths : SameHandle(tl'[p], tl[p])
      PROVE  job'.mode = "stop" => \A p \in job'.todo : tl'[p].on
  <2>1. job.todo \subseteq Paths BY DEF FollowerOK, Job
  <2> QED BY <1>0, <2>1 DEF JobOK, SameHandle
<1>1. ASSUME NEW F \in SUBSET queue, Take(F) PROVE SinkOK'
      BY <1>1 DEF SinkOK, Take
<1>2. ASSUME UNCHANGED fsvars PROVE DirOK'
      BY <1>2 DEF DirOK, fsvars
<1>3. ASSUME NEW F \in SUBSET queue, FlushTake(F)
      PROVE  TypeInv'
  <2>1. tl' \in [Paths -> Tailer] /\ \A p \in Paths : SameHandle(tl'[p], tl[p])
        BY <1>3, ObserverTypes DEF FlushTake, SameHandle, FollowerOK
  <2>2. FollowerOK' /\ BooksOK' BY <1>3, <2>1 DEF FlushTake, FollowerOK, BooksOK
  <2> QED BY <1>0, <1>1, <1>2, <1>3, <2>1, <2>2, HandlesKept DEF FlushTake, JobOK
<1>4. ASSUME NEW F \in SUBSET queue, PollFlushTake(F)
      PROVE  TypeInv'
  <2>1. tl' \in [Paths -> Tailer] /\ \A p \in Paths : SameHandle(tl'[p], tl[p])
        BY <1>4, ObserverTypes DEF PollFlushTake, SameHandle, FollowerOK
  <2>2. job' \in Job /\ job'.at = "wait" /\ job'.mode = job.mode /\ job'.todo = job.todo
    <3>0. job \in Job BY DEF FollowerOK
    <3>1. job.n + 1 \in Nat BY <3>0, JobCount
    <3>2. \A j \in Job, m \in Nat :
            /\ [j EXCEPT !.at = "wait", !.n = m] \in Job
            /\ [j EXCEPT !.at = "wait", !.n = m].at = "wait"
            /\ [j EXCEPT !.at = "wait", !.n = m].mode = j.mode
            /\ [j EXCEPT !.at = "wait", !.n = m].todo = j.todo
          BY DEF Job, Stages
    <3>3. job' = [job EXCEPT !.at = "wait", !.n = job.n + 1]
          BY <1>4 DEF PollFlushTake
    <3> QED BY <3>0, <3>1, <3>2, <3>3
  <2>3. FollowerOK' /\ BooksOK' BY <1>4, <2>1, <2>2 DEF PollFlushTake, FollowerOK, BooksOK
  <2> QED BY <1>0, <1>1, <1>2, <1>4, <2>1, <2>2, <2>3, HandlesKept DEF PollFlushTake
<1>5. CASE PollFlushNil
  <2>1. job' \in Job /\ job'.at = "flushed" /\ job'.mode = job.mode /\ job'.todo = job.todo
        BY <1>5 DEF PollFlushNil, Job, Stages, FollowerOK
  <2>2. SinkOK' BY <1>5 DEF PollFlushNil, dvars, SinkOK
  <2>3. FollowerOK' /\ BooksOK' BY <1>5, <2>1 DEF PollFlushNil, FollowerOK, BooksOK
  <2> QED BY <1>0, <1>2, <1>5, <2>1, <2>2, <2>3, HandlesKept DEF PollFlushNil, SameHandle
<1>6. ASSUME NEW S \in SUBSET flying, StoreCommit(S)
      PROVE  TypeInv'
  <2>1. SinkOK' BY <1>6 DEF StoreCommit, Commit, SinkOK
  <2>2. FollowerOK' /\ BooksOK' BY <1>6 DEF StoreCommit, FollowerOK, BooksOK
  <2>3. JobOK' /\ FileOK' BY <1>6 DEF StoreCommit, fsvars, JobOK, FileOK
  <2> QED BY <1>2, <1>6, <2>1, <2>2, <2>3 DEF StoreCommit
<1>7. ASSUME NEW nil \in BOOLEAN, NEW again \in BOOLEAN, Verdict(nil, again)
      PROVE  /\ job' \in Job /\ (job' = job \/ job'.at \in {"flush", "flushed"})
             /\ job'.mode = job.mode /\ job'.todo = job.todo
      BY <1>7 DEF Verdict, Job, Stages, FollowerOK
<1>8. ASSUME NEW due \in SUBSET Paths, FlushAccepted(due)
      PROVE  TypeInv'
  <2>1. tl' \in [Paths -> Tailer] /\ \A p \in Paths : SameHandle(tl'[p], tl[p])
    <3>1. CASE whole
      <4>1. tl' = [p \in Paths |-> Committed(tl[p], p \in due)]
            BY <1>8, <3>1 DEF FlushAccepted
      <4>2. ASSUME NEW p \in Paths
            PROVE  /\ Committed(tl[p], p \in due) \in Tailer
                   /\ SameHandle(Committed(tl[p], p \in due), tl[p])
        <5>1. (p \in due) \in BOOLEAN OBVIOUS
        <5> QED BY <5>1, ObserverTypes, Zenon
      <4> QED BY <4>1, <4>2, Zenon
    <3>2. CASE ~whole
          BY <1>8, <3>2 DEF FlushAccepted, SameHandle, FollowerOK
    <3> QED BY <3>1, <3>2
  <2>2. \A u \in Tailer : RecordOf(u) \in Record
        BY TailerTypes, FollowAssumption
  <2>3. disk' \in [Paths -> Record]
    <3>1. CASE whole
      <4> DEFINE new == [p \in Paths |->
                           IF p \in Saving(due) THEN RecordOf(tl'[p]) ELSE disk[p]]
      <4>1. \A p \in Paths : new[p] \in Record BY <2>1, <2>2 DEF FollowerOK
      <4>2. Save(new) BY <1>8, <3>1 DEF FlushAccepted
      <4> QED BY <4>1, <4>2, SaveTypes DEF FollowerOK
    <3>2. CASE ~whole BY <1>8, <3>2 DEF FlushAccepted, FollowerOK
    <3> QED BY <3>1, <3>2
  <2>4. /\ job' \in Job /\ (job' = job \/ job'.at \in {"flush", "flushed"})
        /\ job'.mode = job.mode /\ job'.todo = job.todo
        BY <1>7, <1>8 DEF FlushAccepted, SinkOK
  <2>5. SinkOK' BY <1>8 DEF FlushAccepted, Accept, SinkOK
  <2>6. FollowerOK' /\ BooksOK'
        BY <1>8, <2>1, <2>3, <2>4 DEF FlushAccepted, FollowerOK, BooksOK
  <2> QED BY <1>0, <1>2, <1>8, <2>1, <2>4, <2>5, <2>6, HandlesKept DEF FlushAccepted, JobOK
<1>9. ASSUME NEW h \in BOOLEAN, FlushRequeued(h)
      PROVE  TypeInv'
  <2>1. /\ job' \in Job /\ (job' = job \/ job'.at \in {"flush", "flushed"})
        /\ job'.mode = job.mode /\ job'.todo = job.todo
        BY <1>7, <1>9 DEF FlushRequeued
  <2>2. SinkOK' BY <1>9 DEF FlushRequeued, Requeue, SinkOK
  <2>3. FollowerOK' BY <1>9, <2>1 DEF FlushRequeued, FollowerOK
  <2>4. BooksOK' BY <1>9 DEF FlushRequeued, Fault, Interrupted, BooksOK
  <2> QED BY <1>0, <1>2, <1>9, <2>1, <2>2, <2>3, <2>4, HandlesKept DEF FlushRequeued, SameHandle, JobOK
<1>10. ASSUME NEW gave \in BOOLEAN, FlushDropped(gave)
       PROVE  TypeInv'
  <2>1. tl' \in [Paths -> Tailer] /\ \A p \in Paths : SameHandle(tl'[p], tl[p])
        BY <1>10, ObserverTypes DEF FlushDropped
  <2>2. /\ job' \in Job /\ (job' = job \/ job'.at \in {"flush", "flushed"})
        /\ job'.mode = job.mode /\ job'.todo = job.todo
        BY <1>7, <1>10 DEF FlushDropped
  <2>3. Unprotected \subseteq Records
        BY FollowAssumption DEF Unprotected, SinkOK
  <2>4. SinkOK' BY <1>10 DEF FlushDropped, Drop, SinkOK
  <2>5. FollowerOK' BY <1>10, <2>1, <2>2 DEF FlushDropped, FollowerOK
  <2>6. BooksOK' BY <1>10, <2>3 DEF FlushDropped, BooksOK
  <2> QED BY <1>0, <1>2, <1>10, <2>1, <2>2, <2>4, <2>5, <2>6, HandlesKept DEF FlushDropped, JobOK
<1>11. CASE HoldExpires
  <2>1. SinkOK' BY <1>11 DEF HoldExpires, Release, SinkOK
  <2>2. FollowerOK' /\ BooksOK' BY <1>11 DEF HoldExpires, FollowerOK, BooksOK
  <2>3. JobOK' /\ FileOK' BY <1>11 DEF HoldExpires, fsvars, JobOK, FileOK
  <2> QED BY <1>2, <1>11, <2>1, <2>2, <2>3 DEF HoldExpires
<1>12. ASSUME NEW own \in BOOLEAN, NEW h \in BOOLEAN, MetaRefused(own, h)
       PROVE  TypeInv'
  <2>1. /\ job' \in Job /\ (job' = job \/ job'.at = "flushed")
        /\ job'.mode = job.mode /\ job'.todo = job.todo
        BY <1>12 DEF MetaRefused, Job, Stages, FollowerOK
  <2>2. SinkOK' BY <1>12 DEF MetaRefused, StartHold, dvars, SinkOK
  <2>3. FollowerOK' BY <1>12, <2>1 DEF MetaRefused, FollowerOK
  <2>4. BooksOK' BY <1>12 DEF MetaRefused, Fault, BooksOK
  <2> QED BY <1>0, <1>2, <1>12, <2>1, <2>2, <2>3, <2>4, HandlesKept
          DEF MetaRefused, SameHandle, JobOK
<1> QED BY <1>3, <1>4, <1>5, <1>6, <1>8, <1>9, <1>10, <1>11, <1>12 DEF Delivering

LEMMA OwnersType ==
  ASSUME TypeInv, Owners
  PROVE  TypeInv'
<1> SUFFICES ASSUME NEW p \in Paths,
                    \/ AppendRecord(p) \/ AppendFragment(p) \/ Create(p)
                    \/ \E found \in BOOLEAN : Rotate(p, found) \/ Remove(p, found)
                    \/ \E n \in 0 .. MaxPos : Rewrite(p, n)
             PROVE  TypeInv'
    BY DEF Owners
<1> USE FollowAssumption DEF TypeInv, TypeOK
<1>1. ASSUME UNCHANGED others PROVE SinkOK' /\ BooksOK'
      BY <1>1 DEF others, dvars, SinkOK, BooksOK
<1>2. ASSUME UNCHANGED <<tl, others>> PROVE FollowerOK' /\ JobOK'
      BY <1>2 DEF others, FollowerOK, JobOK
<1>3. CASE AppendRecord(p)
  <2>a. size' \in [Paths -> [Gens -> 0 .. MaxPos]]
        BY <1>3 DEF AppendRecord, DirOK, FileOK, Gens
  <2>b. frag' \in [Paths -> [Gens -> BOOLEAN]] BY <1>3 DEF AppendRecord, DirOK
  <2>1. DirOK' BY <1>3, <2>a, <2>b DEF AppendRecord, DirOK
  <2>2. FileOK' BY <1>3 DEF AppendRecord, FileOK, DirOK, Gens
  <2> QED BY <1>1, <1>2, <1>3, <2>1, <2>2 DEF AppendRecord
<1>4. CASE AppendFragment(p)
  <2>1. DirOK' BY <1>4 DEF AppendFragment, DirOK, Gens
  <2>2. FileOK' BY <1>4 DEF AppendFragment, FileOK, DirOK, Gens
  <2> QED BY <1>1, <1>2, <1>4, <2>1, <2>2 DEF AppendFragment
<1>5. CASE Create(p)
  <2>1. DirOK' BY <1>5 DEF Create, DirOK
  <2>2. FileOK' BY <1>5 DEF Create, FileOK, DirOK
  <2> QED BY <1>1, <1>2, <1>5, <2>1, <2>2 DEF Create
<1>6. ASSUME NEW found \in BOOLEAN, Rotate(p, found)
      PROVE  TypeInv'
  <2>1. kept' \in [Paths -> [Gens -> BOOLEAN]] BY <1>6 DEF Rotate, DirOK
  <2>2. DirOK' BY <1>6, <2>1 DEF Rotate, DirOK
  <2>3. FileOK' BY <1>6 DEF Rotate, FileOK, DirOK
  <2> QED BY <1>1, <1>2, <1>6, <2>2, <2>3 DEF Rotate
<1>7. ASSUME NEW found \in BOOLEAN, Remove(p, found)
      PROVE  TypeInv'
  <2>1. kept' \in [Paths -> [Gens -> BOOLEAN]] BY <1>7 DEF Remove, DirOK
  <2>2. present' \in [Paths -> BOOLEAN] BY <1>7 DEF Remove, DirOK
  <2>3. DirOK' BY <1>7, <2>1, <2>2 DEF Remove, DirOK
  <2>4. FileOK' BY <1>7 DEF Remove, FileOK, DirOK
  <2> QED BY <1>1, <1>2, <1>7, <2>3, <2>4 DEF Remove
<1>8. ASSUME NEW n \in 0 .. MaxPos, Rewrite(p, n)
      PROVE  TypeInv'
  <2>1. live[p] + 1 \in 1 .. MaxGen /\ live' \in [Paths -> 0 .. MaxGen]
        BY <1>8 DEF Rewrite, DirOK
  <2>2. \A t \in Tailer, g \in 0 .. MaxGen :
          /\ [t EXCEPT !.file = g] \in Tailer
          /\ [t EXCEPT !.file = g].on = t.on /\ [t EXCEPT !.file = g].file = g
        BY DEF Tailer
  <2>3. \A q \in Paths : tl'[q] = tl[q] \/ tl'[q] = [tl[q] EXCEPT !.file = live[p] + 1]
        BY <1>8 DEF Rewrite, FollowerOK
  <2>4. tl' \in [Paths -> Tailer]
        BY <1>8, <2>1, <2>2, <2>3 DEF Rewrite, FollowerOK
  <2>5. \A q \in Paths : tl'[q].on = tl[q].on /\ (tl[q].file # 0 => tl'[q].file # 0)
    <3> SUFFICES ASSUME NEW q \in Paths
                 PROVE  tl'[q].on = tl[q].on /\ (tl[q].file # 0 => tl'[q].file # 0)
        OBVIOUS
    <3>1. tl[q] \in Tailer BY DEF FollowerOK
    <3>2. CASE tl'[q] = tl[q] BY <3>2
    <3>3. CASE tl'[q] = [tl[q] EXCEPT !.file = live[p] + 1]
          BY <2>1, <2>2, <3>1, <3>3
    <3> QED BY <2>3, <3>2, <3>3
  <2>6. size' \in [Paths -> [Gens -> 0 .. MaxPos]] BY <1>8, <2>1 DEF Rewrite, DirOK, Gens
  <2>7. frag' \in [Paths -> [Gens -> BOOLEAN]] BY <1>8 DEF Rewrite, DirOK
  <2>8. DirOK' BY <1>8, <2>1, <2>6, <2>7 DEF Rewrite, DirOK
  <2>9. FollowerOK' /\ JobOK' BY <1>8, <2>4, <2>5 DEF Rewrite, others, FollowerOK, JobOK
  <2>10. ASSUME NEW q \in Paths, NEW g \in Gens, frag'[q][g]
         PROVE  size'[q][g] < MaxPos
         BY <1>8, <2>1, <2>10 DEF Rewrite, FileOK, DirOK, Gens
  <2>11. FileOK' BY <1>8, <2>1, <2>5, <2>10 DEF Rewrite, FileOK, DirOK
  <2> QED BY <1>1, <1>8, <2>8, <2>9, <2>11 DEF Rewrite
<1> QED BY <1>3, <1>4, <1>5, <1>6, <1>7, <1>8

LEMMA CrashType ==
  ASSUME TypeInv, Crash
  PROVE  TypeInv'
<1> USE DEF TypeInv, TypeOK, Crash, Down, Lose
<1>1. tl' \in [Paths -> Tailer] BY RestingTypes
<1>2. job' \in Job /\ job'.at = "down" /\ job'.mode = "" BY DEF Idle, Job, Stages, Modes
<1>3. SinkOK' BY DEF SinkOK
<1>4. DirOK' BY DEF DirOK, fsvars
<1>5. FollowerOK' BY <1>1, <1>2 DEF FollowerOK
<1>6. BooksOK' BY DEF BooksOK
<1>7. JobOK' BY <1>2 DEF JobOK
<1>8. FileOK' BY DEF FileOK, fsvars, NoTailer
<1> QED BY <1>3, <1>4, <1>5, <1>6, <1>7, <1>8

\* Handing well-typed samples to the sink keeps it, and the books, well typed.
LEMMA HandOverType ==
  ASSUME SinkOK, BooksOK, NEW S, S \subseteq Samples, NEW taken, HandOver(S, taken),
         UNCHANGED <<slipped, skipped, stop, crashes, fails>>
  PROVE  SinkOK' /\ BooksOK'
<1>1. SinkOK' BY DEF HandOver, SinkOK, Add
<1>2. UNION (S \ taken) \subseteq Records BY FollowAssumption
<1>3. BooksOK' BY <1>2 DEF HandOver, BooksOK
<1> QED BY <1>1, <1>3

\* A step that leaves the books alone.
books == <<slipped, skipped, refused, stop, crashes, fails>>

LEMMA BooksKept ==
  ASSUME BooksOK, UNCHANGED books
  PROVE  BooksOK'
BY DEF BooksOK, books

\* A step of the poll goroutine that only replaces p's tailer.
LEMMA TailerReplaced ==
  ASSUME FollowerOK, NEW p \in Paths, NEW u \in Tailer, tl' = [tl EXCEPT ![p] = u]
  PROVE  /\ tl' \in [Paths -> Tailer]
         /\ tl'[p] = u
         /\ \A q \in Paths : q # p => tl'[q] = tl[q]
         /\ SameHandle(u, tl[p]) => \A q \in Paths : SameHandle(tl'[q], tl[q])
BY DEF FollowerOK, SameHandle

\* Opening and sweeping.
LEMMA SweepingType ==
  ASSUME TypeInv, NEW p \in Paths,
         Ensure(p) \/ Sweep(p) \/ Unmatched(p) \/ Reloaded(p) \/ FlushIdle(p)
  PROVE  TypeInv'
<1> USE DEF TypeInv, TypeOK
<1>t. tl[p] \in Tailer /\ job \in Job /\ disk[p] \in Record BY DEF FollowerOK
<1>s. \A s \in {"read", "drain", "drained"},
         m \in {"sweep", "retire", "keep", "rewritten", "idle"} :
           Begin(s, p, m) \in Job /\ Begin(s, p, m).path = p /\ Begin(s, p, m).mode # "stop" /\ Begin(s, p, m).at = s
  <2> SUFFICES ASSUME NEW s \in {"read", "drain", "drained"},
                      NEW m \in {"sweep", "retire", "keep", "rewritten", "idle"}
               PROVE  Begin(s, p, m) \in Job /\ Begin(s, p, m).path = p /\ Begin(s, p, m).mode # "stop" /\ Begin(s, p, m).at = s
      OBVIOUS
  <2>1. s \in Stages /\ m \in Modes /\ p \in Paths \cup {""} BY DEF Stages, Modes
  <2>2. m # "stop" OBVIOUS
  <2>3. /\ Begin(s, p, m) \in Job /\ Begin(s, p, m).path = p
        /\ Begin(s, p, m).at = s /\ Begin(s, p, m).mode = m
        BY <2>1 DEF Begin, Idle, Job, Stages, Modes
  <2> QED BY <2>2, <2>3
<1>1. CASE Ensure(p)
  <2>1. live[p] \in Gens /\ live[p] \in 0 .. MaxGen
        BY <1>1, FollowAssumption DEF Ensure, FileOK, DirOK, Gens
  <2>2. size[p][live[p]] \in 0 .. MaxPos BY <2>1 DEF DirOK
  <2>3. ResumeAt(p) \in Nat
        BY <1>t, <2>2, FollowAssumption DEF ResumeAt, Record
  <2>4. ASSUME StartAt = "end", ~disk[p].had PROVE ResumeAt(p) \in 0 .. MaxPos
        BY <1>t, <2>2, <2>4, FollowAssumption DEF ResumeAt
  <2> DEFINE new == [NoTailer EXCEPT !.on = TRUE, !.file = live[p], !.base = live[p],
                        !.cpack = disk[p].acked, !.cptail = disk[p].tail]
  <2>5. new \in Tailer /\ new.on = TRUE /\ new.file = live[p]
        BY <1>t, <2>1, RestingTypes DEF Tailer, Record
  <2>6. Reset(new, ResumeAt(p)) \in Tailer /\ SameHandle(Reset(new, ResumeAt(p)), new)
        BY <2>1, <2>3, <2>5, TailerTypes, TailerHandle
  <2>7. \A g \in 0 .. MaxGen :
           /\ SetFingerprint(Reset(new, ResumeAt(p)), g, ResumeAt(p)) \in Tailer
           /\ SameHandle(SetFingerprint(Reset(new, ResumeAt(p)), g, ResumeAt(p)),
                         Reset(new, ResumeAt(p)))
        BY <2>3, <2>6, TailerTypes, TailerHandle
  <2>8. 0 \in 0 .. MaxGen BY FollowAssumption
  <2> DEFINE u == Opened(live[p], disk[p], ResumeAt(p))
  <2>9. u \in Tailer /\ u.on /\ u.file = live[p]
        BY <2>1, <2>5, <2>6, <2>7, <2>8 DEF Opened, SameHandle
  <2>10. tl' \in [Paths -> Tailer] /\ tl'[p] = u /\ \A q \in Paths : q # p => tl'[q] = tl[q]
         BY <1>1, <2>9, TailerReplaced DEF Ensure
  <2>11. SinkOK' /\ DirOK' BY <1>1 DEF Ensure, dvars, fsvars, SinkOK, DirOK
  <2>12. FollowerOK' BY <1>1, <2>10 DEF Ensure, FollowerOK
  <2>13. ASSUME StartAt = "end", ~disk[p].had
         PROVE  {<<p, live[p], k>> : k \in 1 .. ResumeAt(p)} \subseteq Records
    <3>1. \A k \in 1 .. ResumeAt(p) : k \in 1 .. MaxPos
          BY <2>4, <2>13, FollowAssumption
    <3> QED BY <2>1, <3>1 DEF Records
  <2>14. skipped' \subseteq Records BY <1>1, <2>13 DEF Ensure, BooksOK
  <2>15. BooksOK' BY <1>1, <2>14 DEF Ensure, BooksOK
  <2>16. JobOK' BY <1>1 DEF Ensure, JobOK
  <2>17. FileOK' BY <1>1, <2>1, <2>9, <2>10, FollowAssumption DEF Ensure, fsvars, FileOK, Gens
  <2> QED BY <2>11, <2>12, <2>15, <2>16, <2>17
<1>2. CASE Sweep(p)
  <2> DEFINE t == Rewound(tl[p])
  <2>1. t \in Tailer /\ SameHandle(t, tl[p])
        BY <1>t, TailerTypes, TailerHandle, FollowAssumption
  <2>2. WidenFingerprint(t) \in Tailer /\ SameHandle(WidenFingerprint(t), t)
        BY <2>1, TailerTypes, TailerHandle, FollowAssumption
  <2>3. PICK u \in Tailer : SameHandle(u, tl[p]) /\ tl' = [tl EXCEPT ![p] = u]
        BY <1>2, <2>1, <2>2 DEF Sweep, SameHandle
  <2>4. tl' \in [Paths -> Tailer] /\ \A q \in Paths : SameHandle(tl'[q], tl[q])
        BY <2>3, TailerReplaced
  <2>5. job' \in Job /\ job'.path = p /\ job'.mode # "stop" /\ job'.at # "closing"
        BY <1>2, <1>s DEF Sweep
  <2>6. tl[p].on BY <1>2 DEF Sweep
  <2>7. RecordOf(tl'[p]) \in Record BY <2>4, TailerTypes, FollowAssumption
  <2>8. t.file \in 0 .. MaxGen /\ t.ack \in Nat BY <2>1 DEF Tailer
  <2>9. [RecordOf(tl'[p]) EXCEPT !.tail = [gen |-> t.file, off |-> t.ack]] \in Record
        BY <2>7, <2>8 DEF Record, Tail
  <2>10. disk' \in [Paths -> Record]
    <3> DEFINE new == IF kept[p][t.file]
                      THEN [disk EXCEPT ![p] =
                             [RecordOf(tl'[p]) EXCEPT !.tail = [gen |-> t.file, off |-> t.ack]]]
                      ELSE disk
    <3>1. \A q \in Paths : new[q] \in Record BY <2>9 DEF FollowerOK
    <3>2. UNCHANGED disk \/ Save(new) BY <1>2 DEF Sweep
    <3> QED BY <3>1, <3>2, SaveTypes DEF FollowerOK
  <2>11. SinkOK' /\ DirOK' BY <1>2 DEF Sweep, dvars, fsvars, SinkOK, DirOK
  <2>12. FollowerOK' BY <1>2, <2>4, <2>5, <2>10 DEF Sweep, FollowerOK
  <2>13. BooksOK' BY <1>2 DEF Sweep, BooksOK
  <2>14. JobOK' /\ FileOK' BY <1>2, <2>4, <2>5, <2>6, HandlesKept DEF Sweep
  <2> QED BY <2>11, <2>12, <2>13, <2>14
<1>3. CASE Unmatched(p) \/ Reloaded(p)
  <2>1. tl[p].on /\ UNCHANGED <<dvars, fsvars, tl, mine, disk, books>>
        BY <1>3 DEF Unmatched, Reloaded, books
  <2>2. job' \in Job /\ job'.path = p /\ job'.mode # "stop" /\ job'.at # "closing"
        BY <1>3, <1>s DEF Unmatched, Reloaded
  <2>3. SinkOK' /\ DirOK' BY <2>1 DEF dvars, fsvars, SinkOK, DirOK
  <2>4. FollowerOK' BY <2>1, <2>2 DEF FollowerOK
  <2>5. BooksOK' BY <2>1, BooksKept
  <2>6. JobOK' /\ FileOK' BY <2>1, <2>2, HandlesKept DEF SameHandle
  <2> QED BY <2>3, <2>4, <2>5, <2>6
<1>4. CASE FlushIdle(p)
  <2>1. tl[p].on /\ tl[p].file # 0 BY <1>4 DEF FlushIdle, FileOK
  <2>2. Emptied(tl[p]) \in Tailer /\ SameHandle(Emptied(tl[p]), tl[p])
        BY <1>t, TailerTypes, TailerHandle, FollowAssumption
  <2>3. tl' \in [Paths -> Tailer] /\ \A q \in Paths : SameHandle(tl'[q], tl[q])
        BY <1>4, <2>2, TailerReplaced DEF FlushIdle
  <2>4. job' \in Job /\ job'.path = p /\ job'.mode # "stop" /\ job'.at # "closing"
        BY <1>4, <1>s DEF FlushIdle
  <2>5. WindowOf(p, tl[p]) \subseteq Samples BY <1>t, <2>1, WindowType
  <2>6. SinkOK' /\ BooksOK' BY <1>4, <2>5, HandOverType DEF FlushIdle
  <2>7. DirOK' BY <1>4 DEF FlushIdle, fsvars, DirOK
  <2>8. FollowerOK' BY <1>4, <2>3, <2>4 DEF FlushIdle, FollowerOK
  <2>10. JobOK' /\ FileOK' BY <1>4, <2>1, <2>3, <2>4, HandlesKept DEF FlushIdle
  <2> QED BY <2>6, <2>7, <2>8, <2>10
<1> QED BY <1>1, <1>2, <1>3, <1>4

\* A step of the poll goroutine inside one file, or between two.
LEMMA PollStepType ==
  ASSUME TypeInv, UNCHANGED <<fsvars, mine>>, SinkOK', BooksOK' \/ UNCHANGED books,
         tl' \in [Paths -> Tailer], job' \in Job, disk' \in [Paths -> Record],
         \A p \in Paths : tl'[p].on => SameHandle(tl'[p], tl[p]),
         job'.at \in {"read", "publish", "drain", "drained", "close"}
           => job'.path \in Paths /\ tl'[job'.path].on,
         job'.at = "closing" => job'.mode = "stop",
         job'.mode = "stop" =>
           \/ \A p \in job'.todo : tl'[p].on
           \/ /\ job.mode = "stop" /\ job'.todo \subseteq job.todo
              /\ \A p \in Paths : SameHandle(tl'[p], tl[p])
  PROVE  TypeInv'
<1> USE DEF TypeInv, TypeOK
<1>1. DirOK' BY DEF DirOK, fsvars
<1>2. FollowerOK' BY DEF FollowerOK
<1>3. BooksOK' BY BooksKept
<1>4. JobOK'
  <2>1. job'.todo \subseteq Paths BY DEF Job
  <2> QED BY <2>1 DEF JobOK, SameHandle
<1>5. FileOK' BY DEF FileOK, fsvars, SameHandle
<1> QED BY <1>1, <1>2, <1>3, <1>4, <1>5

\* A job that stays with its path, its mode and its list.
SameErrand(j, i) == j.path = i.path /\ j.mode = i.mode /\ j.todo = i.todo

\* Reading and publishing.
LEMMA ReadingType ==
  ASSUME TypeInv,
         \/ ReadRecord \/ ReadDone
         \/ \E failed \in BOOLEAN : Publish(failed)
  PROVE  TypeInv'
<1> DEFINE p == job.path
           t == tl[p]
<1>1. p \in Paths /\ t \in Tailer /\ t.on /\ t.file # 0 /\ t.file \in Gens /\ job \in Job
  <2>1. p \in Paths /\ t.on BY DEF TypeInv, JobOK, ReadRecord, ReadDone, Publish
  <2>2. t \in Tailer /\ t.file # 0 /\ job \in Job
        BY <2>1 DEF TypeInv, TypeOK, FollowerOK, FileOK
  <2> QED BY <2>1, <2>2, FollowAssumption DEF Tailer, Gens
<1>2. \A s \in Stages : At(s) \in Job /\ At(s).at = s /\ SameErrand(At(s), job)
  <2> SUFFICES ASSUME NEW s \in Stages PROVE At(s) \in Job /\ At(s).at = s /\ SameErrand(At(s), job)
      OBVIOUS
  <2> QED BY <1>1 DEF At, Job, SameErrand
<1>3. CASE ReadRecord
  <2> DEFINE k == t.off + 1
  <2>1. k \in 1 .. MaxPos
    <3>1. t.off \in Nat BY <1>1 DEF Tailer
    <3>2. size[p][t.file] \in 0 .. MaxPos BY <1>1 DEF TypeInv, TypeOK, DirOK
    <3>3. k <= size[p][t.file] BY <1>3 DEF ReadRecord
    <3> QED BY <3>1, <3>2, <3>3, FollowAssumption
  <2>2. /\ Emits(p, t, k) \subseteq Samples /\ Processed(p, t, k) \in Tailer
        /\ SameHandle(Processed(p, t, k), t)
        BY <1>1, <2>1, EmitsType
  <2>3. SinkOK' /\ BooksOK' BY <1>3, <2>2, HandOverType DEF ReadRecord, TypeInv, TypeOK
  <2>4. tl' \in [Paths -> Tailer] /\ \A q \in Paths : SameHandle(tl'[q], tl[q])
        BY <1>1, <1>3, <2>2, TailerReplaced DEF ReadRecord, TypeInv, TypeOK
  <2>5. job' \in Job /\ job'.at = "publish" /\ SameErrand(job', job)
    <3>1. \A b \in BOOLEAN :
            LET j == [job EXCEPT !.at = "publish", !.ok = b]
            IN  j \in Job /\ j.at = "publish" /\ SameErrand(j, job)
          BY <1>1 DEF Job, Stages, SameErrand
    <3>2. PICK b \in BOOLEAN : job' = [job EXCEPT !.at = "publish", !.ok = b]
          BY <1>3 DEF ReadRecord
    <3> QED BY <3>1, <3>2
  <2> QED BY <1>1, <1>3, <2>3, <2>4, <2>5, PollStepType
          DEF books, ReadRecord, SameHandle, SameErrand, TypeInv, TypeOK, FollowerOK
<1>4. ASSUME NEW failed \in BOOLEAN, Publish(failed) PROVE TypeInv'
  <2>1. \A u \in Tailer : /\ [u EXCEPT !.off = u.off + 1] \in Tailer
                         /\ SameHandle([u EXCEPT !.off = u.off + 1], u)
        BY DEF Tailer, SameHandle
  <2> DEFINE u == [t EXCEPT !.off = t.off + 1]
  <2>2. u \in Tailer /\ SameHandle(u, t) BY <1>1, <2>1
  <2>3. SyncPending(u) \in Tailer /\ SameHandle(SyncPending(u), u)
        BY <2>2, TailerTypes, TailerHandle, FollowAssumption
  <2>4. tl' = [tl EXCEPT ![p] = SyncPending(u)]
        BY <1>1, <1>4 DEF Publish
  <2>5. tl' \in [Paths -> Tailer] /\ \A q \in Paths : SameHandle(tl'[q], tl[q])
        BY <1>1, <2>2, <2>3, <2>4, TailerReplaced DEF TypeInv, TypeOK, SameHandle
  <2>6. job' \in Job /\ ((job'.at # "closing" /\ SameErrand(job', job)) \/ job' = Idle)
        BY <1>2, <1>4, RestingTypes DEF Publish, Stages
  <2>7. SinkOK' BY <1>4 DEF Publish, TypeInv, TypeOK, SinkOK, dvars
  <2>8. Idle.at = "idle" /\ Idle.mode = "" BY DEF Idle
  <2> QED BY <1>1, <1>4, <2>5, <2>6, <2>7, <2>8, PollStepType
          DEF books, Publish, SameHandle, SameErrand, TypeInv, TypeOK, FollowerOK
<1>5. CASE ReadDone
  <2>1. WidenFingerprint(t) \in Tailer /\ SameHandle(WidenFingerprint(t), t)
        BY <1>1, TailerTypes, TailerHandle, FollowAssumption
  <2>2. tl' = [tl EXCEPT ![p] = WidenFingerprint(t)] \/ tl' = tl
        BY <1>5 DEF ReadDone
  <2>3. tl' \in [Paths -> Tailer] /\ \A q \in Paths : SameHandle(tl'[q], tl[q])
        BY <1>1, <2>1, <2>2, TailerReplaced DEF TypeInv, TypeOK, FollowerOK, SameHandle
  <2>4. job' \in Job /\ job'.at # "closing" /\ SameErrand(job', job)
        BY <1>2, <1>5 DEF ReadDone, Stages
  <2>5. SinkOK' BY <1>5 DEF ReadDone, TypeInv, TypeOK, SinkOK, dvars
  <2> QED BY <1>1, <1>5, <2>3, <2>4, <2>5, PollStepType
          DEF books, ReadDone, SameHandle, SameErrand, TypeInv, TypeOK, FollowerOK
<1> QED BY <1>3, <1>4, <1>5

\* Draining a tailer, restarting it and letting it go.
LEMMA ClosingType ==
  ASSUME TypeInv,
         \/ Drain \/ DrainPublish \/ RestartRead \/ CloseKeeping \/ CloseRewinding
  PROVE  TypeInv'
<1> DEFINE p == job.path
           t == tl[p]
<1>1. p \in Paths /\ t \in Tailer /\ t.on /\ t.file # 0 /\ t.file \in Gens /\ job \in Job
  <2>1. p \in Paths /\ t.on
        BY DEF TypeInv, JobOK, Drain, DrainPublish, RestartRead, CloseKeeping, CloseRewinding
  <2>2. t \in Tailer /\ t.file # 0 /\ job \in Job
        BY <2>1 DEF TypeInv, TypeOK, FollowerOK, FileOK
  <2> QED BY <2>1, <2>2, FollowAssumption DEF Tailer, Gens
<1>2. \A s \in Stages : At(s) \in Job /\ At(s).at = s /\ SameErrand(At(s), job)
  <2> SUFFICES ASSUME NEW s \in Stages PROVE At(s) \in Job /\ At(s).at = s /\ SameErrand(At(s), job)
      OBVIOUS
  <2> QED BY <1>1 DEF At, Job, SameErrand
<1>3. \A s \in {"read", "flush"}, m \in {"sweep", "retire"} :
        /\ Begin(s, p, m) \in Job /\ Begin(s, p, m).path = p
        /\ Begin(s, p, m).at = s /\ Begin(s, p, m).mode # "stop"
  <2> SUFFICES ASSUME NEW s \in {"read", "flush"}, NEW m \in {"sweep", "retire"}
               PROVE  /\ Begin(s, p, m) \in Job /\ Begin(s, p, m).path = p
        /\ Begin(s, p, m).at = s /\ Begin(s, p, m).mode # "stop"
      OBVIOUS
  <2>1. s \in Stages /\ m \in Modes /\ p \in Paths \cup {""} BY <1>1 DEF Stages, Modes
  <2>2. m # "stop" OBVIOUS
  <2>3. /\ Begin(s, p, m) \in Job /\ Begin(s, p, m).path = p
        /\ Begin(s, p, m).at = s /\ Begin(s, p, m).mode = m
        BY <2>1 DEF Begin, Idle, Job, Stages, Modes
  <2> QED BY <2>2, <2>3
<1>4. CASE Drain
  <2> DEFINE k == t.off + 1
             final == job.mode = "retire" /\ HasFinal(p, t)
             last == IF final THEN [Processed(p, t, k) EXCEPT !.off = @ + 1] ELSE t
             discard == job.mode = "keep" /\ ReplayOwed(t)
             out == IF discard THEN {}
                    ELSE WindowOf(p, last) \cup (IF final THEN Emits(p, t, k) ELSE {})
  <2>1. ASSUME final
        PROVE  /\ Emits(p, t, k) \subseteq Samples /\ Processed(p, t, k) \in Tailer
               /\ SameHandle(Processed(p, t, k), t)
    <3>1. t.off \in Nat BY <1>1 DEF Tailer
    <3>2. size[p][t.file] < MaxPos /\ t.off = size[p][t.file]
          BY <1>1, <2>1 DEF HasFinal, TypeInv, FileOK
    <3>3. k \in 1 .. MaxPos BY <3>1, <3>2, FollowAssumption
    <3> QED BY <1>1, <3>3, EmitsType
  <2>2. \A u \in Tailer : /\ [u EXCEPT !.off = @ + 1] \in Tailer
                         /\ SameHandle([u EXCEPT !.off = @ + 1], u)
        BY DEF Tailer, SameHandle
  <2>3. last \in Tailer /\ SameHandle(last, t)
    <3>1. CASE final BY <2>1, <2>2, <3>1 DEF SameHandle
    <3>2. CASE ~final BY <1>1, <3>2 DEF SameHandle
    <3> QED BY <3>1, <3>2
  <2>4. out \subseteq Samples
    <3>1. WindowOf(p, last) \subseteq Samples
          BY <1>1, <2>3, WindowType DEF SameHandle
    <3> QED BY <2>1, <3>1
  <2>5. Emptied(last) \in Tailer /\ SameHandle(Emptied(last), last)
        BY <2>3, TailerTypes, TailerHandle, FollowAssumption
  <2> HIDE DEF last
  <2>6. tl' = [tl EXCEPT ![p] = Emptied(last)] /\ \E taken : HandOver(out, taken)
        BY <1>4 DEF Drain, last
  <2>7. SinkOK' /\ BooksOK' BY <1>4, <2>4, <2>6, HandOverType DEF Drain, TypeInv, TypeOK
  <2>8. tl' \in [Paths -> Tailer] /\ \A q \in Paths : SameHandle(tl'[q], tl[q])
        BY <1>1, <2>3, <2>5, <2>6, TailerReplaced DEF TypeInv, TypeOK, SameHandle
  <2>9. job' \in Job /\ job'.at # "closing" /\ SameErrand(job', job)
        BY <1>2, <1>4 DEF Drain, Stages
  <2> QED BY <1>1, <1>4, <2>7, <2>8, <2>9, PollStepType
          DEF books, Drain, SameHandle, SameErrand, TypeInv, TypeOK, FollowerOK
<1>5. CASE DrainPublish
  <2>1. SyncPending(t) \in Tailer /\ SameHandle(SyncPending(t), t)
        BY <1>1, TailerTypes, TailerHandle, FollowAssumption
  <2>2. tl' \in [Paths -> Tailer] /\ \A q \in Paths : SameHandle(tl'[q], tl[q])
        BY <1>1, <1>5, <2>1, TailerReplaced DEF DrainPublish, TypeInv, TypeOK
  <2>3. \A T \in SUBSET Paths : /\ [job EXCEPT !.at = "closing", !.todo = T] \in Job
                               /\ [job EXCEPT !.at = "closing", !.todo = T].at = "closing"
                               /\ [job EXCEPT !.at = "closing", !.todo = T].mode = job.mode
                               /\ [job EXCEPT !.at = "closing", !.todo = T].todo = T
        BY <1>1 DEF Job, Stages
  <2>4. job.todo \ {p} \in SUBSET Paths BY <1>1 DEF Job
  <2>5. /\ job' \in Job
        /\ \/ SameErrand(job', job) /\ job'.at = "close"
           \/ job' = Idle
           \/ job.mode = "stop" /\ job'.at = "closing" /\ job'.mode = job.mode
              /\ job'.todo = job.todo \ {p}
    <3>1. At("close") \in Job /\ At("close").at = "close" /\ SameErrand(At("close"), job) BY <1>2 DEF Stages
    <3>2. Idle \in Job BY RestingTypes
    <3> QED BY <1>5, <2>3, <2>4, <3>1, <3>2 DEF DrainPublish
  <2>6. SinkOK' BY <1>5 DEF DrainPublish, TypeInv, TypeOK, SinkOK, dvars
  <2>7. Idle.at = "idle" /\ Idle.mode = "" BY DEF Idle
  <2> QED BY <1>1, <1>5, <2>2, <2>5, <2>6, <2>7, PollStepType
          DEF books, DrainPublish, SameHandle, SameErrand, TypeInv, TypeOK, FollowerOK
<1>6. CASE RestartRead
  <2>1. [t EXCEPT !.base = t.file] \in Tailer /\ SameHandle([t EXCEPT !.base = t.file], t)
        BY <1>1 DEF Tailer, SameHandle
  <2>a. \A v \in Tailer : Reset(v, 0) \in Tailer /\ SameHandle(Reset(v, 0), v)
        BY TailerTypes, TailerHandle, FollowAssumption
  <2> DEFINE u == Reset([t EXCEPT !.base = t.file], 0)
  <2>2. u \in Tailer /\ SameHandle(u, t)
        BY <2>1, <2>a DEF SameHandle
  <2>3. SetFingerprint(u, 0, 0) \in Tailer /\ SameHandle(SetFingerprint(u, 0, 0), u)
        BY <2>2, TailerTypes, TailerHandle, FollowAssumption
  <2>4. tl' \in [Paths -> Tailer] /\ \A q \in Paths : SameHandle(tl'[q], tl[q])
        BY <1>1, <1>6, <2>2, <2>3, TailerReplaced DEF RestartRead, TypeInv, TypeOK, SameHandle
  <2>5. job' \in Job /\ job'.path = p /\ job'.mode # "stop" /\ job'.at = "read" BY <1>3, <1>6 DEF RestartRead
  <2>6. SinkOK' BY <1>6 DEF RestartRead, TypeInv, TypeOK, SinkOK, dvars
  <2>7. Below(p, t.file, t.cpack) \subseteq Records BY DEF Below
  <2>8. BooksOK' BY <1>6, <2>7 DEF RestartRead, TypeInv, TypeOK, BooksOK
  <2> QED BY <1>1, <1>6, <2>4, <2>5, <2>6, <2>8, PollStepType
          DEF books, RestartRead, SameHandle, TypeInv, TypeOK, FollowerOK
<1>7. CASE CloseKeeping
  <2>1. tl' \in [Paths -> Tailer] /\ \A q \in Paths : tl'[q].on => SameHandle(tl'[q], tl[q])
        BY <1>1, <1>7, RestingTypes DEF CloseKeeping, TypeInv, TypeOK, FollowerOK, SameHandle, NoTailer
  <2>2. RecordOf(t) \in Record BY <1>1, TailerTypes, FollowAssumption
  <2>3. disk' \in [Paths -> Record]
    <3> DEFINE new == IF t.owed THEN [disk EXCEPT ![p] = RecordOf(t)] ELSE disk
    <3>1. disk \in [Paths -> Record] BY DEF TypeInv, TypeOK, FollowerOK
    <3>2. \A q \in Paths : new[q] \in Record BY <2>2, <3>1
    <3>3. Save(new) BY <1>7 DEF CloseKeeping
    <3> QED BY <3>1, <3>2, <3>3, SaveTypes
  <2>4. job' \in Job /\ job'.at = "idle" /\ job'.mode = "" BY <1>7, RestingTypes DEF CloseKeeping, Idle
  <2>5. SinkOK' BY <1>7 DEF CloseKeeping, TypeInv, TypeOK, SinkOK, dvars
  <2> QED BY <1>7, <2>1, <2>3, <2>4, <2>5, PollStepType DEF books, CloseKeeping
<1>8. CASE CloseRewinding
  <2>1. \A u \in Tailer : /\ [u EXCEPT !.on = FALSE, !.owed = FALSE] \in Tailer
                         /\ ~[u EXCEPT !.on = FALSE, !.owed = FALSE].on
        BY DEF Tailer
  <2>2. tl' = [tl EXCEPT ![p] = [t EXCEPT !.on = FALSE, !.owed = FALSE]]
        BY <1>1, <1>8 DEF CloseRewinding, TypeInv, TypeOK, FollowerOK
  <2>3. tl' \in [Paths -> Tailer] /\ \A q \in Paths : tl'[q].on => SameHandle(tl'[q], tl[q])
        BY <1>1, <2>1, <2>2, TailerReplaced DEF TypeInv, TypeOK, SameHandle
  <2>4. job' \in Job /\ job'.at = "flush" /\ job'.mode # "stop" BY <1>3, <1>8 DEF CloseRewinding
  <2>5. SinkOK' BY <1>8 DEF CloseRewinding, TypeInv, TypeOK, SinkOK, dvars
  <2> QED BY <1>8, <2>3, <2>4, <2>5, PollStepType
          DEF books, CloseRewinding, TypeInv, TypeOK, FollowerOK
<1> QED BY <1>4, <1>5, <1>6, <1>7, <1>8
\* Starting, stopping and the goroutine's own saves.
LEMMA RunningType ==
  ASSUME TypeInv,
         \/ \E due \in SUBSET Paths : PersistOwed(due)
         \/ RetireSave \/ Cancel \/ Shutdown \/ FinalFlush \/ Start \/ RecoverSave \/ Recovered
  PROVE  TypeInv'
<1>1. job \in Job /\ tl \in [Paths -> Tailer] /\ disk \in [Paths -> Record]
      BY DEF TypeInv, TypeOK, FollowerOK
<1>2. \A u \in Tailer : RecordOf(u) \in Record BY TailerTypes, FollowAssumption
<1>3. NoTail \in Tail BY FollowAssumption DEF NoTail, Tail
<1>4. ASSUME UNCHANGED dvars PROVE SinkOK'
      BY <1>4 DEF TypeInv, TypeOK, SinkOK, dvars
<1>5. ASSUME NEW due \in SUBSET Paths, PersistOwed(due) PROVE TypeInv'
  <2>1. \A u \in Tailer : /\ [u EXCEPT !.owed = FALSE] \in Tailer
                         /\ SameHandle([u EXCEPT !.owed = FALSE], u)
        BY DEF Tailer, SameHandle
  <2>2. tl' \in [Paths -> Tailer] /\ \A p \in Paths : SameHandle(tl'[p], tl[p])
        BY <1>1, <1>5, <2>1 DEF PersistOwed, SameHandle
  <2>3. disk' \in [Paths -> Record]
    <3> DEFINE new == [p \in Paths |-> IF p \in {q \in due : tl[q].on /\ tl[q].owed}
                                      THEN RecordOf(tl[p]) ELSE disk[p]]
    <3>1. \A p \in Paths : new[p] \in Record BY <1>1, <1>2
    <3>2. Save(new) BY <1>5 DEF PersistOwed
    <3> QED BY <1>1, <3>1, <3>2, SaveTypes
  <2>4. job' \in Job /\ job'.at = "idle" /\ job'.mode = "" BY <1>5, RestingTypes DEF PersistOwed, Idle
  <2> QED BY <1>4, <1>5, <2>2, <2>3, <2>4, PollStepType DEF books, PersistOwed
<1>6. CASE RetireSave
  <2>1. tl' \in [Paths -> Tailer] /\ \A p \in Paths : tl'[p].on => SameHandle(tl'[p], tl[p])
        BY <1>1, <1>6, RestingTypes DEF RetireSave, SameHandle, NoTailer
  <2>2. \A x \in Tail : [had |-> TRUE, fpc |-> 0, acked |-> 0, tail |-> x] \in Record
        BY FollowAssumption DEF Record
  <2>3. \A p \in Paths : disk[p].tail \in Tail /\ tl[p].cptail \in Tail
        BY <1>1 DEF Record, Tailer
  <2>4. disk' \in [Paths -> Record]
    <3> DEFINE p == job.path
               new == [disk EXCEPT ![p] =
                 [had |-> TRUE, fpc |-> 0, acked |-> 0,
                  tail |-> IF disk[p].had /\ ~job.ok THEN disk[p].tail ELSE tl[p].cptail]]
    <3>1. \A q \in Paths : new[q] \in Record BY <1>1, <2>2, <2>3
    <3>2. Save(new) BY <1>6 DEF RetireSave
    <3> QED BY <1>1, <3>1, <3>2, SaveTypes
  <2>5. job' \in Job /\ job'.at = "persist" /\ job'.mode = ""
        BY <1>6 DEF RetireSave, Idle, Job, Stages, Modes
  <2> QED BY <1>4, <1>6, <2>1, <2>4, <2>5, PollStepType DEF books, RetireSave
<1>7. CASE Shutdown
  <2>1. \A T \in SUBSET Paths :
          /\ [Idle EXCEPT !.at = "closing", !.mode = "stop", !.todo = T] \in Job
          /\ [Idle EXCEPT !.at = "closing", !.mode = "stop", !.todo = T].mode = "stop"
          /\ [Idle EXCEPT !.at = "closing", !.mode = "stop", !.todo = T].at = "closing"
          /\ [Idle EXCEPT !.at = "closing", !.mode = "stop", !.todo = T].todo = T
        BY DEF Idle, Job, Stages, Modes
  <2>2. {p \in Paths : tl[p].on} \in SUBSET Paths OBVIOUS
  <2>3. /\ job' \in Job /\ job'.at = "closing" /\ job'.mode = "stop"
        /\ job'.todo = {p \in Paths : tl[p].on}
        BY <1>7, <2>1, <2>2 DEF Shutdown
  <2> QED BY <1>1, <1>4, <1>7, <2>3, PollStepType DEF books, Shutdown, SameHandle
<1>8. CASE FinalFlush
  <2>1. job' \in Job /\ job'.at = "flush" /\ job'.mode = job.mode /\ job'.todo = job.todo
        BY <1>1, <1>8 DEF FinalFlush, At, Job, Stages
  <2> QED BY <1>1, <1>4, <1>8, <2>1, PollStepType DEF books, FinalFlush, SameHandle
<1>9. CASE Start
  <2>1. \A T \in SUBSET Paths :
          /\ [Idle EXCEPT !.at = "recover", !.todo = T] \in Job
          /\ [Idle EXCEPT !.at = "recover", !.todo = T].at = "recover"
          /\ [Idle EXCEPT !.at = "recover", !.todo = T].mode = ""
        BY DEF Idle, Job, Stages, Modes
  <2>2. {p \in Paths : disk[p].tail.gen # 0} \in SUBSET Paths OBVIOUS
  <2>3. job' \in Job /\ job'.at = "recover" /\ job'.mode = "" BY <1>9, <2>1, <2>2 DEF Start
  <2> QED BY <1>1, <1>4, <1>9, <2>3, PollStepType DEF books, Start, SameHandle
<1>10. CASE RecoverSave
  <2>1. \A T \in SUBSET Paths : /\ [job EXCEPT !.at = "recover", !.todo = T] \in Job
                               /\ [job EXCEPT !.at = "recover", !.todo = T].at = "recover"
                               /\ [job EXCEPT !.at = "recover", !.todo = T].mode = job.mode
        BY <1>1 DEF Job, Stages
  <2>2. job.todo \ {job.path} \in SUBSET Paths BY <1>1 DEF Job
  <2>3. job' \in Job /\ job'.at = "recover" /\ job'.mode = "recover"
        BY <1>10, <2>1, <2>2 DEF RecoverSave
  <2>4. \A r \in Record : [r EXCEPT !.tail = NoTail] \in Record BY <1>3 DEF Record
  <2>5. disk' \in [Paths -> Record]
    <3> DEFINE new == IF job.ok THEN [disk EXCEPT ![job.path].tail = NoTail] ELSE disk
    <3>1. \A q \in Paths : new[q] \in Record BY <1>1, <2>4
    <3>2. Save(new) BY <1>10 DEF RecoverSave
    <3> QED BY <1>1, <3>1, <3>2, SaveTypes
  <2> QED BY <1>1, <1>4, <1>10, <2>3, <2>5, PollStepType DEF books, RecoverSave, SameHandle
<1>11. CASE Recovered
  <2>1. job' \in Job /\ job'.at = "idle" /\ job'.mode = "" BY <1>11, RestingTypes DEF Recovered, Idle
  <2> QED BY <1>1, <1>4, <1>11, <2>1, PollStepType DEF books, Recovered, SameHandle
<1>12. CASE Cancel
  <2>1. BooksOK' BY <1>12 DEF Cancel, TypeInv, TypeOK, BooksOK
  <2> QED BY <1>1, <1>4, <1>12, <2>1, PollStepType DEF books, Cancel, SameHandle, TypeInv, JobOK
<1> QED BY <1>5, <1>6, <1>7, <1>8, <1>9, <1>10, <1>11, <1>12

LEMMA RecoveredSamples ==
  ASSUME NEW p \in Paths, NEW g \in Gens, NEW a \in Nat, TypeInv
  PROVE  SamplesFrom(p, g, a) \subseteq Samples
<1> DEFINE end == size[p][g] + (IF frag[p][g] THEN 1 ELSE 0)
<1>1. size[p][g] \in 0 .. MaxPos /\ (frag[p][g] => size[p][g] < MaxPos)
      BY DEF TypeInv, TypeOK, DirOK, FileOK
<1>2. end \in 0 .. MaxPos BY <1>1, FollowAssumption
<1>3. \A k \in (a + 1) .. end : k \in 1 .. MaxPos BY <1>2, FollowAssumption
<1>4. \A k \in (a + 1) .. end : <<p, g, k>> \in Records BY <1>3 DEF Records
<1> HIDE DEF end
<1> DEFINE range == (a + 1) .. end
           shape(k) == Shape[<<p, g, k>>]
           windowed == {k \in range : shape(k) \in {"join", "roll"}}
           together(i, j) == ~\E k \in range : shape(k) = "roll" /\ i < k /\ k <= j
           window(i) == {j \in windowed : together(i, j) /\ together(j, i)}
<1>5. {{<<p, g, k>>} : k \in {k \in range : shape(k) = "plain"}} \subseteq SUBSET Records
      BY <1>4
<1>6. \A i \in windowed : {<<p, g, j>> : j \in window(i)} \subseteq Records BY <1>4
<1>7. {{<<p, g, j>> : j \in window(i)} : i \in windowed} \subseteq SUBSET Records
      BY <1>6
<1>8. SamplesFrom(p, g, a) =
        {{<<p, g, k>>} : k \in {k \in range : shape(k) = "plain"}}
          \cup {{<<p, g, j>> : j \in window(i)} : i \in windowed}
      BY Zenon DEF SamplesFrom, end
<1> QED BY <1>5, <1>7, <1>8, FollowAssumption

LEMMA PerPathType ==
  ASSUME TypeInv, NEW p \in Paths, CloseOne(p) \/ Recover(p)
  PROVE  TypeInv'
<1>1. /\ job \in Job /\ tl \in [Paths -> Tailer] /\ disk \in [Paths -> Record]
      /\ tl[p] \in Tailer
      BY DEF TypeInv, TypeOK, FollowerOK
<1>2. \A T \in SUBSET Paths : /\ [job EXCEPT !.todo = T] \in Job
                             /\ [job EXCEPT !.todo = T].at = job.at
                             /\ [job EXCEPT !.todo = T].mode = job.mode
                             /\ [job EXCEPT !.todo = T].todo = T
      BY <1>1 DEF Job
<1>3. job.todo \ {p} \in SUBSET Paths BY <1>1 DEF Job
<1>4. CASE CloseOne(p)
  <2>1. Emptied(tl[p]) \in Tailer /\ SameHandle(Emptied(tl[p]), tl[p])
        BY <1>1, TailerTypes, TailerHandle, FollowAssumption
  <2>2. tl' \in [Paths -> Tailer] /\ \A q \in Paths : SameHandle(tl'[q], tl[q])
        BY <1>4, <2>1, TailerReplaced DEF CloseOne, TypeInv, TypeOK
  <2>3. tl[p].on BY <1>4 DEF CloseOne, TypeInv, JobOK
  <2>4. WindowOf(p, tl[p]) \subseteq Samples BY <1>1, <2>3, WindowType DEF TypeInv, FileOK
  <2> DEFINE out == IF ReplayOwed(tl[p]) THEN {} ELSE WindowOf(p, tl[p])
  <2>a. out \subseteq Samples BY <2>4
  <2>b. \E taken : HandOver(out, taken) BY <1>4 DEF CloseOne
  <2>5. SinkOK' /\ BooksOK' BY <1>4, <2>a, <2>b, HandOverType DEF CloseOne, TypeInv, TypeOK
  <2>6. /\ [job EXCEPT !.at = "drained", !.path = p] \in Job
        /\ [job EXCEPT !.at = "drained", !.path = p].path = p
        /\ [job EXCEPT !.at = "drained", !.path = p].at = "drained"
        /\ [job EXCEPT !.at = "drained", !.path = p].mode = job.mode
        /\ [job EXCEPT !.at = "drained", !.path = p].todo = job.todo
        BY <1>1 DEF Job, Stages
  <2>7. /\ job' \in Job /\ (job'.at = "closing" \/ job'.path = p)
        /\ job'.mode = job.mode /\ job'.todo \subseteq job.todo
        BY <1>2, <1>3, <1>4, <2>6 DEF CloseOne
  <2>8. job.mode = "stop" BY <1>4 DEF CloseOne, TypeInv, JobOK
  <2> QED BY <1>1, <1>4, <2>2, <2>3, <2>5, <2>7, <2>8, PollStepType DEF books, CloseOne, SameHandle
<1>5. CASE Recover(p)
  <2>1. disk[p].tail.gen \in 0 .. MaxGen /\ disk[p].tail.off \in Nat
        BY <1>1 DEF Record, Tail
  <2>2. ASSUME disk[p].tail.gen # 0
        PROVE  SamplesFrom(p, disk[p].tail.gen, disk[p].tail.off) \subseteq Samples
    <3>1. disk[p].tail.gen \in Gens BY <2>1, <2>2, FollowAssumption DEF Gens
    <3> QED BY <2>1, <3>1, RecoveredSamples
  <2> DEFINE all == SamplesFrom(p, disk[p].tail.gen, disk[p].tail.off)
             errand(stage) ==
               [job EXCEPT !.at = stage, !.path = p, !.mode = "recover", !.n = 0]
  <2> HIDE DEF all
  <2>c. \/ disk[p].tail.gen # 0 /\ (\E taken : HandOver(all, taken)) /\ job' = errand("flush")
        \/ /\ disk[p].tail.gen # 0 /\ (\E some \in SUBSET all : Add(some)) /\ UNCHANGED refused
           /\ job' = [errand("flushed") EXCEPT !.ok = FALSE]
        \/ job' = [job EXCEPT !.todo = job.todo \ {p}] /\ UNCHANGED <<dvars, refused>>
        BY <1>5 DEF Recover, all
  <2>d. UNCHANGED <<slipped, skipped, stop, crashes, fails>> BY <1>5 DEF Recover
  <2>3. SinkOK' /\ BooksOK'
    <3>1. ASSUME disk[p].tail.gen # 0, NEW taken, HandOver(all, taken) PROVE SinkOK' /\ BooksOK'
          BY <2>2, <2>d, <3>1, HandOverType DEF all, TypeInv, TypeOK
    <3>2. ASSUME disk[p].tail.gen # 0, NEW some \in SUBSET all, Add(some) PROVE SinkOK'
          BY <2>2, <3>2 DEF all, Add, TypeInv, TypeOK, SinkOK
    <3>3. ASSUME UNCHANGED dvars PROVE SinkOK' BY <3>3 DEF TypeInv, TypeOK, SinkOK, dvars
    <3>4. ASSUME UNCHANGED refused PROVE BooksOK' BY <2>d, <3>4 DEF TypeInv, TypeOK, BooksOK
    <3> QED BY <2>c, <3>1, <3>2, <3>3, <3>4
  <2>4. \A s \in {"flush", "flushed"} :
          /\ errand(s) \in Job /\ errand(s).at = s /\ errand(s).mode = "recover"
        BY <1>1 DEF Job, Stages, Modes
  <2>e. \A j \in Job : /\ [j EXCEPT !.ok = FALSE] \in Job
                       /\ [j EXCEPT !.ok = FALSE].at = j.at
                       /\ [j EXCEPT !.ok = FALSE].mode = j.mode
        BY DEF Job
  <2>5. /\ job' \in Job /\ job'.at \in {"flush", "flushed", "recover"}
        /\ job'.mode = "recover" \/ (job'.mode = job.mode /\ job'.todo \subseteq job.todo)
    <3>1. CASE job' = errand("flush") BY <2>4, <3>1
    <3>3. CASE job' = [errand("flushed") EXCEPT !.ok = FALSE] BY <2>4, <2>e, <3>3
    <3>2. CASE job' = [job EXCEPT !.todo = job.todo \ {p}]
          BY <1>2, <1>3, <1>5, <3>2 DEF Recover
    <3> QED BY <2>c, <3>1, <3>2, <3>3
  <2> QED BY <1>1, <1>5, <2>3, <2>5, PollStepType DEF books, Recover, SameHandle
<1> QED BY <1>4, <1>5

LEMMA ShutdownType ==
  ASSUME TypeInv, ShutdownSave
  PROVE  TypeInv'
<1> USE DEF TypeInv, TypeOK, ShutdownSave, Down, Lose
<1>1. tl' \in [Paths -> Tailer] BY RestingTypes
<1>2. job' \in Job /\ job'.at = "down" /\ job'.mode = "" BY DEF Idle, Job, Stages, Modes
<1>3. SinkOK' BY DEF SinkOK
<1>4. DirOK' BY DEF DirOK, fsvars
<1>5. \A u \in Tailer : RecordOf(u) \in Record BY TailerTypes, FollowAssumption
<1>6. disk' \in [Paths -> Record]
  <2> DEFINE new == [p \in Paths |-> IF tl[p].on /\ tl[p].owed THEN RecordOf(tl[p]) ELSE disk[p]]
  <2>1. \A p \in Paths : new[p] \in Record BY <1>5 DEF FollowerOK
  <2>2. Save(new) OBVIOUS
  <2> QED BY <2>1, <2>2, SaveTypes DEF FollowerOK
<1>7. FollowerOK' BY <1>1, <1>2, <1>6 DEF FollowerOK
<1>8. BooksOK' BY DEF BooksOK
<1>9. JobOK' BY <1>2 DEF JobOK
<1>10. FileOK' BY DEF FileOK, fsvars, NoTailer
<1> QED BY <1>3, <1>4, <1>7, <1>8, <1>9, <1>10

LEMMA TypeStep == TypeInv /\ [Next]_vars => TypeInv'
<1> SUFFICES ASSUME TypeInv, [Next]_vars PROVE TypeInv' OBVIOUS
<1>1. CASE Delivering BY <1>1, DeliveringType
<1>2. CASE Owners BY <1>2, OwnersType
<1>3. CASE Crash BY <1>3, CrashType
<1>4. CASE Polling
      BY <1>4, SweepingType, ReadingType, ClosingType, RunningType, PerPathType, ShutdownType
      DEF Polling
<1>5. CASE UNCHANGED vars
  <2> USE <1>5 DEF vars, dvars, fsvars, TypeInv, TypeOK
  <2>1. SinkOK' BY DEF SinkOK
  <2>2. DirOK' BY DEF DirOK
  <2>3. FollowerOK' BY DEF FollowerOK
  <2>4. BooksOK' BY DEF BooksOK
  <2>5. JobOK' BY DEF JobOK
  <2>6. FileOK' BY DEF FileOK
  <2> QED BY <2>1, <2>2, <2>3, <2>4, <2>5, <2>6
<1> QED BY <1>1, <1>2, <1>3, <1>4, <1>5 DEF Next

\* Type correctness (TypeOK) of every run of the follower, together with the
\* facts it needs: the poll goroutine is only ever inside a file it has open,
\* and an open handle shows a content that exists.
THEOREM TypeCorrect == Spec => []TypeInv
<1> QED BY TypeInit, TypeStep, PTL DEF Spec

-----------------------------------------------------------------------------
(* One tailer's part of the invariant under its own methods.  done and     *)
(* hand stand for the sets Done and InHand.                                *)

\* The invariant survives as more records are done or in hand.
LEMMA TailerInvGrows ==
  ASSUME NEW p, NEW t, NEW done, NEW hand, NEW done2, NEW hand2,
         TailerInv(p, t, done, hand), done \subseteq done2, hand \subseteq hand2
  PROVE  TailerInv(p, t, done2, hand2)
BY DEF TailerInv, Covers

\* Snapshots, freezing, thawing and fingerprints.
LEMMA TailerInvMethods ==
  ASSUME NEW p, NEW t \in Tailer, NEW done, NEW hand, TailerInv(p, t, done, hand)
  PROVE  /\ TailerInv(p, MarkInflight(t), done, hand)
         /\ TailerInv(p, MarkHoled(t), done, hand)
         /\ TailerInv(p, ClearHole(t), done, hand)
         /\ TailerInv(p, WidenFingerprint(t), done, hand)
         /\ TailerInv(p, [t EXCEPT !.owed = FALSE], done, hand)
<1> USE DEF TailerInv, ReplayOwed, Tailer
<1>1. TailerInv(p, MarkInflight(t), done, hand) BY DEF MarkInflight
<1>2. TailerInv(p, MarkHoled(t), done, hand) BY DEF MarkHoled
<1>3. TailerInv(p, ClearHole(t), done, hand) BY DEF ClearHole
<1>4. TailerInv(p, WidenFingerprint(t), done, hand)
      BY DEF WidenFingerprint, SetFingerprint
<1>5. TailerInv(p, [t EXCEPT !.owed = FALSE], done, hand) OBVIOUS
<1> QED BY <1>1, <1>2, <1>3, <1>4, <1>5

\* A commit is sound when the snapshot it acknowledges is done.
LEMMA TailerInvCommit ==
  ASSUME NEW p, NEW t \in Tailer, NEW done, NEW hand, NEW now \in BOOLEAN,
         TailerInv(p, t, done, hand), ~t.rewind, Covers(done, p, t.file, t.infl)
  PROVE  TailerInv(p, CommitInflight(t, now), done, hand)
BY DEF TailerInv, ReplayOwed, Tailer, CommitInflight

\* A replay starts from what has been acknowledged, with nothing held.
LEMMA TailerInvReset ==
  ASSUME NEW p, NEW t \in Tailer, NEW done, NEW hand, done \subseteq hand,
         TailerInv(p, t, done, hand), NEW n \in Nat, Covers(done, p, t.file, n)
  PROVE  TailerInv(p, Reset(Emptied(t), n), done, hand)
<1> DEFINE u == Reset(Emptied(t), n)
<1>1. /\ u.on = t.on /\ u.file = t.file /\ u.base = t.base /\ u.fpc = t.fpc
      /\ u.ack = n /\ u.infl = n /\ u.pend = n /\ u.off = n /\ u.win = {}
      /\ u.owed = t.owed /\ u.cpack = t.cpack /\ u.rewind = FALSE
      BY DEF Reset, Emptied, Tailer
<1>2. Covers(hand, p, t.file, n) BY DEF Covers
<1> HIDE DEF u
<1> QED BY <1>1, <1>2 DEF TailerInv, Covers, u

LEMMA TailerInvRewound ==
  ASSUME NEW p, NEW t \in Tailer, NEW done, NEW hand, done \subseteq hand,
         TailerInv(p, t, done, hand)
  PROVE  TailerInv(p, Rewound(t), done, hand)
<1>1. CASE ~t.rewind BY <1>1 DEF Rewound
<1>2. CASE t.rewind /\ t.on
  <2>1. t.ack \in Nat /\ Covers(done, p, t.file, t.ack) BY <1>2 DEF Tailer, TailerInv
  <2> QED BY <1>2, <2>1, TailerInvReset DEF Rewound
<1>3. CASE ~t.on
  <2>1. ~Rewound(t).on BY <1>3 DEF Rewound, Reset, Emptied, Tailer
  <2> QED BY <2>1 DEF TailerInv
<1> QED BY <1>1, <1>2, <1>3

\* The pending offset stops before the window, so it covers only what is in
\* hand.
LEMMA TailerInvSync ==
  ASSUME NEW p, NEW t \in Tailer, NEW done, NEW hand, TailerInv(p, t, done, hand)
  PROVE  TailerInv(p, SyncPending(t), done, hand)
<1> DEFINE n == IF t.win # {} /\ t.from < t.off THEN t.from ELSE t.off
<1>1. CASE t.rewind BY <1>1 DEF SyncPending, SetPending
<1>2. CASE ~t.rewind
  <2> DEFINE u == SyncPending(t)
  <2>1. u = [t EXCEPT !.pend = n] BY <1>2 DEF SyncPending, SetPending
  <2>2. /\ u.on = t.on /\ u.file = t.file /\ u.base = t.base /\ u.fpc = t.fpc
        /\ u.ack = t.ack /\ u.infl = t.infl /\ u.pend = n /\ u.off = t.off
        /\ u.win = t.win /\ u.from = t.from /\ u.owed = t.owed /\ u.cpack = t.cpack
        /\ u.rewind = t.rewind /\ u.holed = t.holed
        BY <2>1 DEF Tailer
  <2>3. ASSUME t.on, ~ReplayOwed(t) PROVE Covers(hand, p, t.file, n)
    <3>1. t.off \in Nat /\ t.from \in Nat /\ t.win \subseteq 1 .. MaxPos BY DEF Tailer
    <3>2. /\ \A k \in 1 .. t.off : <<p, t.file, k>> \in hand \/ k \in t.win
          /\ t.win # {} => t.from <= t.off /\ \A k \in t.win : k > t.from
          BY <2>3 DEF TailerInv
    <3>3. n \in Nat /\ n <= t.off BY <3>1
    <3>a. t.win # {} => n <= t.from BY <3>1, <3>2
    <3> HIDE DEF n
    <3>4. ASSUME NEW k \in 1 .. n, k \in t.win PROVE FALSE
      <4>1. k > t.from /\ n <= t.from BY <3>2, <3>4, <3>a
      <4>2. k \in Nat /\ k <= n BY <3>3
      <4> QED BY <3>1, <3>3, <4>1, <4>2
    <3> QED BY <3>1, <3>2, <3>3, <3>4 DEF Covers
  <2> HIDE DEF u, n
  <2> QED BY <2>2, <2>3 DEF TailerInv, ReplayOwed, u
<1> QED BY <1>1, <1>2

\* The read head moves past a record that is in hand or in the window.
LEMMA TailerInvAdvance ==
  ASSUME NEW p, NEW t \in Tailer, NEW done, NEW hand, TailerInv(p, t, done, hand),
         t.on /\ ~ReplayOwed(t) => <<p, t.file, t.off + 1>> \in hand \/ t.off + 1 \in t.win
  PROVE  TailerInv(p, [t EXCEPT !.off = t.off + 1], done, hand)
<1> DEFINE v == [t EXCEPT !.off = t.off + 1]
<1>1. /\ v.off = t.off + 1 /\ v.on = t.on /\ v.file = t.file /\ v.base = t.base
      /\ v.fpc = t.fpc /\ v.ack = t.ack /\ v.infl = t.infl /\ v.pend = t.pend
      /\ v.win = t.win /\ v.from = t.from /\ v.owed = t.owed /\ v.cpack = t.cpack
      /\ v.rewind = t.rewind /\ v.holed = t.holed
      BY DEF Tailer
<1> HIDE DEF v
<1>2. t.off \in Nat /\ t.from \in Nat BY DEF Tailer
<1>3. ReplayOwed(v) = ReplayOwed(t) BY <1>1 DEF ReplayOwed
<1>4. ASSUME t.on, ~ReplayOwed(t)
      PROVE  /\ \A k \in 1 .. v.off : <<p, t.file, k>> \in hand \/ k \in t.win
             /\ t.win # {} => t.from <= v.off /\ \A k \in t.win : k > t.from
  <2>1. /\ \A k \in 1 .. t.off : <<p, t.file, k>> \in hand \/ k \in t.win
        /\ t.win # {} => t.from <= t.off /\ \A k \in t.win : k > t.from
        BY <1>4 DEF TailerInv
  <2>2. \A k \in 1 .. v.off : k \in 1 .. t.off \/ k = t.off + 1 BY <1>1, <1>2
  <2> QED BY <1>1, <1>2, <1>4, <2>1, <2>2
<1> QED BY <1>1, <1>3, <1>4 DEF TailerInv, v

\* Emptying the extractor, once its window is in hand.
LEMMA TailerInvEmptied ==
  ASSUME NEW p, NEW t \in Tailer, NEW done, NEW hand, NEW hand2,
         TailerInv(p, t, done, hand), hand \subseteq hand2,
         ~ReplayOwed(t) => \A k \in t.win : <<p, t.file, k>> \in hand2
  PROVE  TailerInv(p, Emptied(t), done, hand2)
<1> DEFINE u == Emptied(t)
<1>1. /\ u.on = t.on /\ u.file = t.file /\ u.base = t.base /\ u.fpc = t.fpc
      /\ u.ack = t.ack /\ u.infl = t.infl /\ u.pend = t.pend /\ u.off = t.off
      /\ u.win = {} /\ u.owed = t.owed /\ u.cpack = t.cpack
      /\ u.rewind = t.rewind /\ u.holed = t.holed
      BY DEF Emptied, Tailer
<1> HIDE DEF u
<1> QED BY <1>1 DEF TailerInv, Covers, ReplayOwed, u

\* What the extractor makes of record k is in hand.
Fed(p, t, k, hand) ==
  /\ UNION Emits(p, t, k) \subseteq hand
  /\ Shape[<<p, t.file, k>>] = "none" => <<p, t.file, k>> \in hand

\* The tailer u after record k has gone through t's extractor.
Extracted(p, t, u, k, done, hand) ==
  /\ TailerInv(p, u, done, hand)
  /\ ReplayOwed(u) = ReplayOwed(t)
  /\ u.on = t.on /\ u.file = t.file /\ u.off = t.off /\ u.infl = t.infl
  /\ t.on /\ ~ReplayOwed(t) => <<p, t.file, k>> \in hand \/ k \in u.win

LEMMA TailerInvProcessed ==
  ASSUME NEW p \in Paths, NEW t \in Tailer, NEW done, NEW hand, NEW hand2,
         t.file # 0, NEW k \in 1 .. MaxPos, k = t.off + 1,
         TailerInv(p, t, done, hand), hand \subseteq hand2,
         Fed(p, t, k, hand2)
  PROVE  Extracted(p, t, Processed(p, t, k), k, done, hand2)
<1> USE DEF Fed
<1> DEFINE u == Processed(p, t, k)
           r == <<p, t.file, k>>
<1>0. /\ t.off \in Nat /\ t.from \in Nat /\ t.win \subseteq 1 .. MaxPos /\ k - 1 = t.off
      BY DEF Tailer
<1>1. r \in Records
      BY FollowAssumption DEF Records, Gens, Tailer
<1>2. Shape[r] \in {"plain", "join", "roll", "none"} BY <1>1, FollowAssumption
<1>3. /\ u.on = t.on /\ u.file = t.file /\ u.base = t.base /\ u.fpc = t.fpc
      /\ u.ack = t.ack /\ u.infl = t.infl /\ u.pend = t.pend /\ u.off = t.off
      /\ u.owed = t.owed /\ u.cpack = t.cpack /\ u.rewind = t.rewind /\ u.holed = t.holed
      BY DEF Processed, Tailer
<1>4. ReplayOwed(u) = ReplayOwed(t) BY <1>3 DEF ReplayOwed
<1>5. ASSUME t.on, ~ReplayOwed(t)
      PROVE  /\ r \in hand2 \/ k \in u.win
             /\ \A j \in 1 .. t.off : <<p, t.file, j>> \in hand2 \/ j \in u.win
             /\ u.win # {} => u.from <= t.off /\ \A j \in u.win : j > u.from
  <2>1. /\ \A j \in 1 .. t.off : <<p, t.file, j>> \in hand2 \/ j \in t.win
        /\ t.win # {} => t.from <= t.off /\ \A j \in t.win : j > t.from
        BY <1>5 DEF TailerInv
  <2>2. CASE Shape[r] = "plain"
    <3>1. u = t /\ {r} \in Emits(p, t, k) BY <2>2 DEF Processed, Emits
    <3> QED BY <2>1, <3>1
  <2>3. CASE Shape[r] = "none"
    <3>1. u = t BY <2>3 DEF Processed
    <3> QED BY <2>1, <2>3, <3>1
  <2>4. CASE Shape[r] = "join"
    <3>1. u.win = t.win \cup {k} /\ u.from = IF t.win = {} THEN k - 1 ELSE t.from
          BY <2>4 DEF Processed, Tailer
    <3>2. CASE t.win = {} BY <1>0, <2>1, <3>1, <3>2
    <3>3. CASE t.win # {} BY <1>0, <2>1, <3>1, <3>3
    <3> QED BY <3>2, <3>3
  <2>5. CASE Shape[r] = "roll"
    <3>1. u.win = {k} /\ u.from = k - 1 BY <2>5 DEF Processed, Tailer
    <3>2. ASSUME NEW j \in t.win PROVE <<p, t.file, j>> \in hand2
      <4>1. Emits(p, t, k) = {{<<p, t.file, i>> : i \in t.win}}
            BY <2>5 DEF Emits, WindowOf
      <4> QED BY <4>1, ZenonT(40)
    <3> QED BY <1>0, <2>1, <3>1, <3>2
  <2> QED BY <1>2, <2>2, <2>3, <2>4, <2>5
<1>6. TailerInv(p, u, done, hand2)
  <2> HIDE DEF u
  <2> QED BY <1>3, <1>4, <1>5 DEF TailerInv, Covers
<1> QED BY <1>3, <1>4, <1>5, <1>6 DEF Extracted

-----------------------------------------------------------------------------
(* Steps.                                                                  *)

\* What is done stays done.
LEMMA DoneGrows ==
  ASSUME stored \subseteq stored', skipped \subseteq skipped', slipped \subseteq slipped',
         refused \subseteq refused'
  PROVE  Done \subseteq Done'
BY DEF Done, Accounted, Delivered, Settled

\* Whatever the sink had is still in hand.
LEMMA HandGrows ==
  ASSUME Done \subseteq Done',
         \A s \in queue \cup flying : s \in queue' \cup flying' \/ s \subseteq Done'
  PROVE  InHand \subseteq InHand'
BY DEF InHand

\* A sample the store has settled is done.
LEMMA SettledDone ==
  ASSUME NEW s, s \in Samples, s \in Settled
  PROVE  s \subseteq Done
BY FollowAssumption DEF Done, Accounted, Delivered

\* How a tailer's snapshot may move while a request is under way.
Snapshot(u, t) ==
  u.on => \/ u.infl = u.ack
          \/ /\ t.on /\ u.file = t.file /\ u.infl = t.infl
             /\ ReplayOwed(t) => ReplayOwed(u)

\* A step that leaves the request in progress alone.
LEMMA FlightKept ==
  ASSUME NEW p \in Paths, FlightInv(p, tl[p], Done), Done \subseteq Done',
         UNCHANGED <<flying, whole>>, Snapshot(tl'[p], tl[p]),
         TailerInv(p, tl'[p], Done', InHand')
  PROVE  FlightInv(p, tl[p], Done)'
<1>1. CASE tl'[p].infl = tl'[p].ack
      BY <1>1 DEF FlightInv, TailerInv, Covers
<1>2. CASE tl'[p].infl # tl'[p].ack
      BY <1>2 DEF FlightInv, Snapshot, Covers
<1> QED BY <1>1, <1>2

LEMMA RecordGrows ==
  ASSUME NEW p, NEW cp, NEW g, NEW done, NEW done2, RecordInv(p, cp, g, done), done \subseteq done2
  PROVE  RecordInv(p, cp, g, done2)
BY DEF RecordInv, Covers

\* The record of a tailer whose acknowledged offset is what the record says.
LEMMA RecordSaved ==
  ASSUME NEW p, NEW t \in Tailer, NEW done, NEW hand, NEW g \in 0 .. MaxGen,
         TailerInv(p, t, done, hand), t.on, t.file <= g,
         t.file = g => Covers(done, p, t.file, t.cpack)
  PROVE  RecordInv(p, RecordOf(t), g, done)
<1>1. RecordOf(t).fpc \in {0, t.file} /\ RecordOf(t).acked = t.cpack /\ t.file \in 0 .. MaxGen
      BY DEF RecordOf, TailerInv, Tailer
<1> HIDE DEF RecordOf
<1> QED BY <1>1, FollowAssumption DEF RecordInv

\* What every step has to show.
LEMMA AckKept ==
  ASSUME AckInv, UNCHANGED <<flying, whole>>, Done \subseteq Done', PublishInv',
         \A p \in Paths :
           /\ TailerInv(p, tl'[p], Done', InHand') /\ Snapshot(tl'[p], tl[p])
           /\ tl'[p].on => tl'[p].file <= live'[p]
           /\ RecordInv(p, disk'[p], live'[p], Done')
  PROVE  AckInv'
<1>1. ASSUME NEW p \in Paths PROVE FlightInv(p, tl[p], Done)' BY FlightKept DEF AckInv
<1> QED BY <1>1 DEF AckInv

\* The owners of the files change nothing the follower has said, and a new
\* content has no record yet.
LEMMA OwnersAck ==
  ASSUME TypeInv, AckInv, Owners, "rewrite" \notin Moves
  PROVE  AckInv'
<1>1. /\ UNCHANGED <<tl, dvars, job, disk, slipped, skipped, refused>>
      /\ \A p \in Paths : live'[p] = live[p] \/ live'[p] = live[p] + 1
  <2>1. PICK p \in Paths : \/ AppendRecord(p) \/ AppendFragment(p) \/ Create(p)
                           \/ \E found \in BOOLEAN : Rotate(p, found) \/ Remove(p, found)
                           \/ \E n \in 0 .. MaxPos : Rewrite(p, n)
        BY DEF Owners
  <2>2. UNCHANGED <<tl, others>>
        BY <2>1 DEF AppendRecord, AppendFragment, Create, Rotate, Remove, Rewrite
  <2>3. live' = live \/ live' = [live EXCEPT ![p] = live[p] + 1]
        BY <2>1 DEF AppendRecord, AppendFragment, Create, Rotate, Remove, Rewrite
  <2>4. live \in [Paths -> 0 .. MaxGen] BY DEF TypeInv, TypeOK, DirOK
  <2> QED BY <2>2, <2>3, <2>4 DEF others
<1>2. Done' = Done /\ InHand' = InHand
  <2>1. Done' = Done
        BY <1>1 DEF dvars, Done, Accounted, Delivered, Settled
  <2> QED BY <1>1, <2>1 DEF dvars, InHand
<1>3. PublishInv' BY <1>1, <1>2 DEF AckInv, PublishInv
<1>4. ASSUME NEW p \in Paths
      PROVE  /\ TailerInv(p, tl'[p], Done', InHand') /\ Snapshot(tl'[p], tl[p])
             /\ tl'[p].on => tl'[p].file <= live'[p]
             /\ RecordInv(p, disk'[p], live'[p], Done')
  <2>1. /\ TailerInv(p, tl[p], Done, InHand) /\ (tl[p].on => tl[p].file <= live[p])
        /\ RecordInv(p, disk[p], live[p], Done)
        BY DEF AckInv
  <2>2. live[p] \in Nat /\ tl[p].file \in Nat /\ disk[p].fpc \in Nat
        BY FollowAssumption DEF TypeInv, TypeOK, DirOK, FollowerOK, Tailer, Record
  <2>3. RecordInv(p, disk[p], live'[p], Done) BY <1>1, <2>1, <2>2 DEF RecordInv
  <2>4. tl[p].on => tl[p].file <= live'[p] BY <1>1, <2>1, <2>2
  <2> QED BY <1>1, <1>2, <2>1, <2>3, <2>4 DEF Snapshot
<1> QED BY <1>1, <1>2, <1>3, <1>4, AckKept DEF dvars

\* Stopping and crashing leave no tailer; a clean stop writes what is owed.
LEMMA DownAck ==
  ASSUME TypeInv, AckInv, Crash \/ ShutdownSave
  PROVE  AckInv'
<1>1. /\ tl' = [p \in Paths |-> NoTailer] /\ job' = [Idle EXCEPT !.at = "down"]
      /\ UNCHANGED <<fsvars, stored, slipped, skipped, refused>>
      BY DEF Crash, ShutdownSave, Down, Lose
<1>2. Done' = Done BY <1>1 DEF Done, Accounted, Delivered, Settled
<1>3. \A p \in Paths : ~tl'[p].on BY <1>1 DEF NoTailer
<1>4. job'.at = "down" BY <1>1 DEF Idle
<1>5. ASSUME NEW p \in Paths PROVE RecordInv(p, disk'[p], live'[p], Done')
  <2>1. /\ TailerInv(p, tl[p], Done, InHand) /\ (tl[p].on => tl[p].file <= live[p])
        /\ RecordInv(p, disk[p], live[p], Done)
        BY DEF AckInv
  <2>2. tl[p] \in Tailer /\ live[p] \in 0 .. MaxGen BY DEF TypeInv, TypeOK, DirOK, FollowerOK
  <2>3. ASSUME tl[p].on, tl[p].owed PROVE RecordInv(p, RecordOf(tl[p]), live[p], Done)
    <3>1. Covers(Done, p, tl[p].file, tl[p].cpack) BY <2>1, <2>3 DEF TailerInv
    <3> QED BY <2>1, <2>2, <2>3, <3>1, RecordSaved
  <2>4. disk'[p] = disk[p] \/ (tl[p].on /\ tl[p].owed /\ disk'[p] = RecordOf(tl[p]))
    <3> DEFINE new == [q \in Paths |-> IF tl[q].on /\ tl[q].owed THEN RecordOf(tl[q]) ELSE disk[q]]
    <3>1. UNCHANGED disk \/ Save(new) BY DEF Crash, ShutdownSave
    <3> QED BY <3>1, SaveEach
  <2> QED BY <1>1, <1>2, <2>1, <2>3, <2>4 DEF fsvars
<1> QED BY <1>3, <1>4, <1>5 DEF AckInv, TailerInv, FlightInv, PublishInv

\* A step that queues samples, replaces the tailer of p and perhaps its
\* record.
LEMMA AckPoll ==
  ASSUME TypeInv, AckInv, NEW p \in Paths, NEW u \in Tailer,
         UNCHANGED <<fsvars, flying, whole, stored>>,
         skipped \subseteq skipped', slipped \subseteq slipped', refused \subseteq refused',
         queue \subseteq queue',
         tl' = [tl EXCEPT ![p] = u], PublishInv',
         TailerInv(p, u, Done', InHand'), Snapshot(u, tl[p]),
         u.on => u.file <= live[p],
         RecordInv(p, disk'[p], live[p], Done'),
         \A q \in Paths : q # p => disk'[q] = disk[q]
  PROVE  AckInv'
<1>1. Done \subseteq Done' BY DoneGrows
<1>2. InHand \subseteq InHand' BY <1>1, HandGrows
<1>3. ASSUME NEW q \in Paths
      PROVE  /\ TailerInv(q, tl'[q], Done', InHand') /\ Snapshot(tl'[q], tl[q])
             /\ tl'[q].on => tl'[q].file <= live'[q]
             /\ RecordInv(q, disk'[q], live'[q], Done')
  <2>1. tl'[q] = (IF q = p THEN u ELSE tl[q]) /\ live' = live
        BY DEF TypeInv, TypeOK, FollowerOK, fsvars
  <2>2. CASE q = p BY <2>1, <2>2
  <2>3. CASE q # p
    <3>1. /\ TailerInv(q, tl[q], Done, InHand) /\ (tl[q].on => tl[q].file <= live[q])
          /\ RecordInv(q, disk[q], live[q], Done)
          BY DEF AckInv
    <3>2. TailerInv(q, tl[q], Done', InHand') BY <1>1, <1>2, <3>1, TailerInvGrows
    <3>3. RecordInv(q, disk[q], live[q], Done') BY <1>1, <3>1, RecordGrows
    <3> QED BY <2>1, <2>3, <3>1, <3>2, <3>3 DEF Snapshot
  <2> QED BY <2>2, <2>3
<1> QED BY <1>1, <1>3, AckKept

\* The facts about one path that the steps start from.
LEMMA AckFacts ==
  ASSUME TypeInv, AckInv, NEW p \in Paths
  PROVE  /\ tl[p] \in Tailer /\ disk[p] \in Record /\ live[p] \in 0 .. MaxGen
         /\ TailerInv(p, tl[p], Done, InHand)
         /\ tl[p].on => tl[p].file <= live[p] /\ tl[p].file # 0 /\ tl[p].file \in Gens
         /\ RecordInv(p, disk[p], live[p], Done)
         /\ Done \subseteq InHand
<1>1. tl[p] \in Tailer /\ disk[p] \in Record /\ live[p] \in 0 .. MaxGen
      BY DEF TypeInv, TypeOK, DirOK, FollowerOK
<1>2. tl[p].on => tl[p].file # 0 /\ tl[p].file \in Gens
      BY <1>1, FollowAssumption DEF TypeInv, FileOK, Tailer, Gens
<1>3. Done \subseteq InHand BY DEF InHand
<1> QED BY <1>1, <1>2, <1>3 DEF AckInv

\* Opening resumes only past what is done.
LEMMA EnsureAck ==
  ASSUME TypeInv, AckInv, NEW p \in Paths, Ensure(p)
  PROVE  AckInv'
<1> DEFINE g == live[p]
           n == ResumeAt(p)
           u == Opened(g, disk[p], n)
<1>1. g \in Gens /\ size[p][g] \in 0 .. MaxPos /\ g \in 0 .. MaxGen
  <2>1. g \in Gens /\ g \in 0 .. MaxGen
        BY FollowAssumption DEF Ensure, TypeInv, TypeOK, FileOK, DirOK, Gens
  <2> QED BY <2>1 DEF TypeInv, TypeOK, DirOK
<1>2. disk[p] \in Record /\ RecordInv(p, disk[p], g, Done) BY AckFacts
<1>3. n \in 0 .. MaxPos
  <2>1. disk[p].acked \in Nat BY <1>2 DEF Record
  <2> QED BY <1>1, <2>1, FollowAssumption DEF ResumeAt
<1>4. /\ u \in Tailer /\ u.on /\ u.file = g /\ u.base = g /\ u.fpc \in {0, g}
      /\ u.ack = n /\ u.infl = n /\ u.pend = n /\ u.off = n
      /\ ~u.owed /\ ~u.rewind /\ ~u.holed /\ u.win = {}
  <2>1. disk[p].acked \in Nat /\ disk[p].tail \in Tail /\ n \in Nat
        BY <1>2, <1>3, FollowAssumption DEF Record
  <2> HIDE DEF n
  <2>2. NoTailer \in Tailer BY RestingTypes
  <2> DEFINE c == IF n > 0 THEN g ELSE 0
             v == [NoTailer EXCEPT !.on = TRUE, !.file = g, !.base = g,
                                   !.cpack = disk[p].acked, !.cptail = disk[p].tail]
  <2>3. v \in Tailer BY <1>1, <2>1, <2>2, FollowAssumption DEF Tailer
  <2>4. v.on /\ v.file = g /\ v.base = g /\ ~v.owed /\ v.win = {} BY DEF NoTailer
  <2>5. u = [v EXCEPT !.off = n, !.pend = n, !.infl = n, !.ack = n, !.holed = FALSE, !.rewind = FALSE,
                      !.fpc = c, !.fpw = n]
    BY <2>3 DEF Opened, SetFingerprint, Reset, Tailer
  <2>6. c \in 0 .. MaxGen /\ c \in {0, g} BY <1>1, <2>1, FollowAssumption
  <2> HIDE DEF v, c
  <2>7. u \in Tailer BY <2>1, <2>3, <2>5, <2>6, ZenonT(40) DEF Tailer
  <2>8. /\ u.on = v.on /\ u.file = v.file /\ u.base = v.base /\ u.fpc = c
        /\ u.ack = n /\ u.infl = n /\ u.pend = n /\ u.off = n
        /\ u.owed = v.owed /\ u.rewind = FALSE /\ u.holed = FALSE /\ u.win = v.win
    BY <2>3, <2>5 DEF Tailer
  <2> QED BY <2>4, <2>6, <2>7, <2>8
<1>5. Done \subseteq Done' /\ skipped \subseteq skipped'
  <2>1. skipped \subseteq skipped' BY DEF Ensure
  <2> QED BY <2>1, DoneGrows DEF Ensure, dvars
<1>6. Covers(Done', p, g, n)
  <2>1. CASE n = 0 BY <2>1 DEF Covers
  <2>2. CASE n # 0 /\ StartAt = "end" /\ ~disk[p].had
    <3>1. \A k \in 1 .. n : <<p, g, k>> \in Records /\ <<p, g, k>> \in skipped'
          BY <1>1, <1>3, <2>2, FollowAssumption DEF Ensure, Records
    <3> QED BY <3>1 DEF Covers, Done, Accounted, Delivered
  <2>3. CASE n # 0 /\ ~(StartAt = "end" /\ ~disk[p].had)
    <3>1. n = disk[p].acked /\ disk[p].fpc # 0 /\ disk[p].fpc = g
          BY <2>3, FollowAssumption DEF ResumeAt
    <3>2. Covers(Done, p, g, n) BY <1>2, <3>1 DEF RecordInv
    <3> QED BY <1>5, <3>2 DEF Covers
  <2> QED BY <2>1, <2>2, <2>3
<1> HIDE DEF u, n
<1>7. TailerInv(p, u, Done', InHand')
  <2>1. Covers(InHand', p, g, n) BY <1>6 DEF Covers, InHand
  <2> QED BY <1>4, <1>6, <2>1 DEF TailerInv, Covers
<1>8. Snapshot(u, tl[p]) BY <1>4 DEF Snapshot
<1>9. tl' = [tl EXCEPT ![p] = u] BY DEF Ensure, u, n
<1>10. u.file <= g BY <1>1, <1>4, FollowAssumption
<1>11. RecordInv(p, disk[p], g, Done') BY <1>2, <1>5, RecordGrows
<1>12. PublishInv' BY DEF Ensure, PublishInv
<1> QED BY <1>4, <1>5, <1>7, <1>8, <1>9, <1>10, <1>11, <1>12, AckPoll DEF Ensure, dvars

\* A sweep rewinds to what is acknowledged and notes the rotated file.
LEMMA SweepAck ==
  ASSUME TypeInv, AckInv, NEW p \in Paths, Sweep(p)
  PROVE  AckInv'
<1> DEFINE t == Rewound(tl[p])
<1>1. /\ tl[p] \in Tailer /\ live[p] \in 0 .. MaxGen /\ Done \subseteq InHand
      /\ TailerInv(p, tl[p], Done, InHand) /\ RecordInv(p, disk[p], live[p], Done)
      /\ tl[p].on /\ tl[p].file <= live[p]
      BY AckFacts DEF Sweep
<1>2. Done' = Done /\ InHand' = InHand
  <2>1. Done' = Done BY DEF Sweep, dvars, Done, Accounted, Delivered, Settled
  <2> QED BY <2>1 DEF Sweep, dvars, InHand
<1>3. t \in Tailer /\ WidenFingerprint(t) \in Tailer
  <2>1. t \in Tailer BY <1>1, TailerTypes, FollowAssumption
  <2> QED BY <2>1, TailerTypes, FollowAssumption
<1>4. t.on /\ t.file = tl[p].file /\ Snapshot(t, tl[p])
      BY <1>1 DEF Rewound, Reset, Emptied, Tailer, Snapshot, ReplayOwed
<1>5. TailerInv(p, t, Done, InHand) BY <1>1, TailerInvRewound
<1>6. TailerInv(p, WidenFingerprint(t), Done, InHand) BY <1>3, <1>5, TailerInvMethods
<1> HIDE DEF t
<1>7. /\ WidenFingerprint(t).on = t.on /\ WidenFingerprint(t).file = t.file
      /\ WidenFingerprint(t).infl = t.infl /\ WidenFingerprint(t).ack = t.ack
      /\ ReplayOwed(WidenFingerprint(t)) = ReplayOwed(t)
      BY <1>3 DEF WidenFingerprint, SetFingerprint, Tailer, ReplayOwed
<1>8. PICK u \in {t, WidenFingerprint(t)} : tl' = [tl EXCEPT ![p] = u]
      BY DEF Sweep, t
<1>9. /\ u \in Tailer /\ u.on /\ u.file = tl[p].file /\ TailerInv(p, u, Done', InHand')
      /\ Snapshot(u, tl[p])
      BY <1>2, <1>3, <1>4, <1>5, <1>6, <1>7, <1>8 DEF Snapshot
<1>10. RecordInv(p, disk'[p], live[p], Done') /\ \A q \in Paths : q # p => disk'[q] = disk[q]
  <2> DEFINE new == [disk EXCEPT ![p] =
                      [RecordOf(tl'[p]) EXCEPT !.tail = [gen |-> t.file, off |-> t.ack]]]
           noted == IF kept[p][t.file] THEN new ELSE disk
  <2>b. UNCHANGED disk \/ (live[p] # t.file /\ Save(noted))
        BY DEF Sweep, t
  <2>c. \A q \in Paths : (q # p \/ ~kept[p][t.file] => noted[q] = disk[q])
                          /\ (kept[p][t.file] => noted[q] = new[q])
        BY DEF TypeInv, TypeOK, FollowerOK
  <2>d. noted[p] = disk[p] \/ noted[p] = [RecordOf(tl'[p]) EXCEPT !.tail = [gen |-> t.file, off |-> t.ack]]
        BY DEF TypeInv, TypeOK, FollowerOK
  <2> HIDE DEF noted
  <2>a. ASSUME NEW q \in Paths, q # p PROVE disk'[q] = disk[q]
        BY <2>b, <2>c, <2>a, SaveEach
  <2>1. CASE disk'[p] = disk[p] BY <1>1, <1>2, <2>1, <2>a
  <2>2. CASE disk'[p] # disk[p]
    <3>1. /\ live[p] # t.file
          /\ disk'[p] = [RecordOf(tl'[p]) EXCEPT !.tail = [gen |-> t.file, off |-> t.ack]]
          BY <2>b, <2>d, <2>2, SaveEach
    <3>2. tl'[p] = u /\ disk \in [Paths -> Record]
          BY <1>8 DEF TypeInv, TypeOK, FollowerOK
    <3>3. RecordInv(p, RecordOf(u), live[p], Done')
          BY <1>1, <1>4, <1>9, <3>1, RecordSaved
    <3>4. /\ [RecordOf(u) EXCEPT !.tail = [gen |-> t.file, off |-> t.ack]].fpc = RecordOf(u).fpc
          /\ [RecordOf(u) EXCEPT !.tail = [gen |-> t.file, off |-> t.ack]].acked = RecordOf(u).acked
          BY DEF RecordOf
    <3> HIDE DEF RecordOf
    <3> QED BY <2>a, <3>1, <3>2, <3>3, <3>4 DEF RecordInv
  <2> QED BY <2>1, <2>2
<1>11. PublishInv'
  <2>1. job'.at \in {"drain", "read"} BY DEF Sweep, Begin, Idle
  <2> QED BY <2>1 DEF PublishInv
<1> QED BY <1>1, <1>8, <1>9, <1>10, <1>11, AckPoll DEF Sweep, dvars

\* What entered the buffer is in hand; so, booked as refused, is the rest.
Handed(S) ==
  /\ Done \subseteq Done' /\ InHand \subseteq InHand' /\ UNION S \subseteq InHand'
  /\ UNCHANGED <<flying, whole, stored, skipped, slipped>>
  /\ queue \subseteq queue' /\ refused \subseteq refused'

LEMMA HandOverHand ==
  ASSUME NEW S, S \subseteq Samples, NEW taken, HandOver(S, taken),
         UNCHANGED <<skipped, slipped>>
  PROVE  Handed(S)
<1>1. /\ UNCHANGED <<flying, whole, stored>> /\ refused \subseteq refused'
      /\ queue' = queue \cup taken
      BY DEF HandOver, Add
<1>2. Done \subseteq Done' BY <1>1, DoneGrows
<1>3. InHand \subseteq InHand' BY <1>1, <1>2, HandGrows
<1>4. ASSUME NEW x \in S, NEW r \in x PROVE r \in InHand'
  <2>1. r \in Records BY FollowAssumption
  <2>2. CASE x \in taken BY <1>1, <2>2 DEF InHand
  <2>3. CASE x \notin taken
    <3>1. r \in refused' BY <2>3 DEF HandOver
    <3> QED BY <2>1, <3>1 DEF InHand, Done, Accounted
  <2> QED BY <2>2, <2>3
<1> QED BY <1>1, <1>2, <1>3, <1>4 DEF Handed

\* The record the goroutine is about to publish is in hand or in the window.
LEMMA ReadRecordAck ==
  ASSUME TypeInv, AckInv, ReadRecord
  PROVE  AckInv'
<1> DEFINE p == job.path
           t == tl[p]
           k == t.off + 1
           u == Processed(p, t, k)
<1>1. p \in Paths /\ t.on /\ job \in Job BY DEF ReadRecord, TypeInv, TypeOK, FollowerOK, JobOK
<1>2. /\ t \in Tailer /\ TailerInv(p, t, Done, InHand) /\ t.file <= live[p]
      /\ t.file # 0 /\ t.file \in Gens /\ RecordInv(p, disk[p], live[p], Done)
      BY <1>1, AckFacts
<1>3. k \in 1 .. MaxPos
  <2>1. t.off \in Nat BY <1>2 DEF Tailer
  <2>2. size[p][t.file] \in 0 .. MaxPos BY <1>1, <1>2 DEF TypeInv, TypeOK, DirOK
  <2>3. k <= size[p][t.file] BY DEF ReadRecord
  <2> QED BY <2>1, <2>2, <2>3, FollowAssumption
<1>4. Handed(Emits(p, t, k))
  <2>1. Emits(p, t, k) \subseteq Samples BY <1>1, <1>2, <1>3, EmitsType
  <2>2. \E taken : HandOver(Emits(p, t, k), taken) BY DEF ReadRecord
  <2>3. UNCHANGED <<skipped, slipped>> BY DEF ReadRecord
  <2> QED BY <2>1, <2>2, <2>3, HandOverHand
<1>5. Fed(p, t, k, InHand')
  <2>1. <<p, t.file, k>> \in Records BY <1>1, <1>2, <1>3 DEF Records
  <2>2. UNION Emits(p, t, k) \subseteq InHand' BY <1>4 DEF Handed
  <2> QED BY <2>1, <2>2 DEF Fed, InHand, Done, Accounted, Delivered
<1>6. Extracted(p, t, u, k, Done, InHand')
      BY <1>1, <1>2, <1>3, <1>4, <1>5, TailerInvProcessed DEF Handed
<1>7. u \in Tailer BY <1>1, <1>2, <1>3, EmitsType
<1>9. /\ tl' = [tl EXCEPT ![p] = u]
      /\ \E b \in BOOLEAN : job' = [job EXCEPT !.at = "publish", !.ok = b]
      BY DEF ReadRecord
<1>10. tl'[p] = u /\ job'.path = p /\ job'.at = "publish"
       BY <1>1, <1>9 DEF Job, TypeInv, TypeOK, FollowerOK
<1> HIDE DEF u, k
<1>11. PublishInv' BY <1>1, <1>6, <1>10 DEF PublishInv, Extracted, k
<1>12. Snapshot(u, t) BY <1>1, <1>6 DEF Snapshot, Extracted
<1>13. TailerInv(p, u, Done', InHand') /\ RecordInv(p, disk'[p], live[p], Done')
  <2>1. Done \subseteq Done' /\ disk' = disk BY <1>4 DEF Handed, ReadRecord
  <2>2. TailerInv(p, u, Done, InHand') BY <1>6 DEF Extracted
  <2>3. TailerInv(p, u, Done', InHand') BY <2>1, <2>2, TailerInvGrows
  <2>4. RecordInv(p, disk[p], live[p], Done') BY <1>2, <2>1, RecordGrows
  <2> QED BY <2>1, <2>3, <2>4
<1>14. u.on => u.file <= live[p] BY <1>2, <1>6 DEF Extracted
<1> HIDE DEF p, t
<1> QED BY <1>1, <1>4, <1>7, <1>9, <1>11, <1>12, <1>13, <1>14, AckPoll DEF ReadRecord, Handed, p, t

\* A step of the goroutine inside the file of job.path that queues nothing
\* and leaves the record on disk alone.
LEMMA AckInside ==
  ASSUME TypeInv, AckInv, job.path \in Paths, NEW u \in Tailer,
         UNCHANGED <<dvars, fsvars, disk, skipped, refused>>, slipped \subseteq slipped',
         tl' = [tl EXCEPT ![job.path] = u], job'.at # "publish",
         job'.at \in {"drained", "close"} => job'.path = job.path /\ u.win = {},
         TailerInv(job.path, u, Done, InHand), Snapshot(u, tl[job.path]),
         u.on => u.file <= live[job.path]
  PROVE  AckInv'
<1>1. Done \subseteq Done' BY DoneGrows DEF dvars
<1>2. InHand \subseteq InHand' BY <1>1, HandGrows DEF dvars
<1>3. PublishInv' BY DEF PublishInv, TypeInv, TypeOK, FollowerOK
<1>4. RecordInv(job.path, disk'[job.path], live[job.path], Done')
      BY <1>1, AckFacts, RecordGrows
<1>5. TailerInv(job.path, u, Done', InHand') BY <1>1, <1>2, TailerInvGrows
<1> QED BY <1>3, <1>4, <1>5, AckPoll DEF dvars

LEMMA PublishAck ==
  ASSUME TypeInv, AckInv, NEW failed \in BOOLEAN, Publish(failed)
  PROVE  AckInv'
<1> DEFINE p == job.path
           t == tl[p]
           v == [t EXCEPT !.off = t.off + 1]
           u == SyncPending(v)
<1>1. p \in Paths /\ t.on /\ job \in Job BY DEF Publish, TypeInv, TypeOK, FollowerOK, JobOK
<1>2. t \in Tailer /\ TailerInv(p, t, Done, InHand) /\ t.file <= live[p]
      BY <1>1, AckFacts
<1>3. /\ v \in Tailer /\ v.on = t.on /\ v.file = t.file /\ v.infl = t.infl
      /\ v.rewind = t.rewind /\ v.holed = t.holed
      BY <1>2 DEF Tailer
<1>4. t.on /\ ~ReplayOwed(t) => <<p, t.file, t.off + 1>> \in InHand \/ t.off + 1 \in t.win
      BY DEF Publish, AckInv, PublishInv
<1>5. TailerInv(p, v, Done, InHand) BY <1>2, <1>4, TailerInvAdvance
<1> HIDE DEF v
<1>6. TailerInv(p, u, Done, InHand) BY <1>3, <1>5, TailerInvSync
<1>7. u \in Tailer BY <1>3, TailerTypes, FollowAssumption
<1>8. /\ u.on = t.on /\ u.file = t.file /\ u.infl = t.infl
      /\ u.rewind = t.rewind /\ u.holed = t.holed
      BY <1>3 DEF SyncPending, SetPending, Tailer
<1>9. tl' = [tl EXCEPT ![p] = u] BY DEF Publish, v
<1> HIDE DEF u
<1>10. Snapshot(u, t) BY <1>1, <1>8 DEF Snapshot, ReplayOwed
<1>11. job'.at \notin {"publish", "drained", "close"}
  <2>1. At("read").at = "read" /\ At("drain").at = "drain" BY <1>1 DEF At, Job
  <2>2. Idle.at = "idle" BY DEF Idle
  <2> QED BY <2>1, <2>2 DEF Publish
<1>12. u.on => u.file <= live[p] BY <1>2, <1>8
<1> QED BY <1>1, <1>6, <1>7, <1>9, <1>10, <1>11, <1>12, AckInside DEF Publish

LEMMA ReadDoneAck ==
  ASSUME TypeInv, AckInv, ReadDone
  PROVE  AckInv'
<1> DEFINE p == job.path
           t == tl[p]
<1>1. p \in Paths /\ t.on /\ job \in Job BY DEF ReadDone, TypeInv, TypeOK, FollowerOK, JobOK
<1>2. t \in Tailer /\ TailerInv(p, t, Done, InHand) /\ t.file <= live[p]
      BY <1>1, AckFacts
<1>3. PICK u \in {t, WidenFingerprint(t)} : tl' = [tl EXCEPT ![p] = u]
  <2>1. tl = [tl EXCEPT ![p] = t] BY <1>1 DEF TypeInv, TypeOK, FollowerOK
  <2> QED BY <2>1 DEF ReadDone
<1>4. WidenFingerprint(t) \in Tailer BY <1>2, TailerTypes, FollowAssumption
<1>5. TailerInv(p, WidenFingerprint(t), Done, InHand) BY <1>2, TailerInvMethods
<1>6. /\ WidenFingerprint(t).on = t.on /\ WidenFingerprint(t).file = t.file
      /\ WidenFingerprint(t).infl = t.infl /\ ReplayOwed(WidenFingerprint(t)) = ReplayOwed(t)
      BY <1>2 DEF WidenFingerprint, SetFingerprint, Tailer, ReplayOwed
<1>7. Snapshot(u, t) /\ (u.on => u.file <= live[p]) BY <1>1, <1>2, <1>3, <1>6 DEF Snapshot
<1>8. job'.at \notin {"publish", "drained", "close"}
  <2>1. At("persist").at = "persist" /\ At("drain").at = "drain" BY <1>1 DEF At, Job
  <2> QED BY <2>1 DEF ReadDone
<1> QED BY <1>1, <1>2, <1>3, <1>4, <1>5, <1>7, <1>8, AckInside DEF ReadDone

LEMMA DrainPublishAck ==
  ASSUME TypeInv, AckInv, DrainPublish
  PROVE  AckInv'
<1> DEFINE p == job.path
           t == tl[p]
           u == SyncPending(t)
<1>1. p \in Paths /\ t.on /\ job \in Job BY DEF DrainPublish, TypeInv, TypeOK, FollowerOK, JobOK
<1>2. t \in Tailer /\ TailerInv(p, t, Done, InHand) /\ t.file <= live[p]
      BY <1>1, AckFacts
<1>3. u \in Tailer /\ TailerInv(p, u, Done, InHand)
      BY <1>2, TailerTypes, TailerInvSync, FollowAssumption
<1>4. /\ u.on = t.on /\ u.file = t.file /\ u.infl = t.infl
      /\ u.rewind = t.rewind /\ u.holed = t.holed /\ u.win = t.win
      BY <1>2 DEF SyncPending, SetPending, Tailer
<1>5. Snapshot(u, t) /\ (u.on => u.file <= live[p])
      BY <1>1, <1>2, <1>4 DEF Snapshot, ReplayOwed
<1>6. job'.at # "publish" /\ (job'.at \in {"drained", "close"} => job'.path = p /\ u.win = {})
  <2>0. u.win = {} BY <1>4 DEF DrainPublish, AckInv, PublishInv
  <2>1. /\ At("close").at = "close" /\ At("close").path = p
        /\ [job EXCEPT !.at = "closing", !.todo = job.todo \ {p}].at = "closing"
        BY <1>1 DEF At, Job
  <2>2. Idle.at = "idle" BY DEF Idle
  <2> QED BY <2>0, <2>1, <2>2 DEF DrainPublish
<1>7. tl' = [tl EXCEPT ![p] = u] BY DEF DrainPublish
<1> HIDE DEF u
<1> QED BY <1>1, <1>3, <1>5, <1>6, <1>7, AckInside DEF DrainPublish

\* A file that looks rewritten starts over with nothing acknowledged.
LEMMA RestartReadAck ==
  ASSUME TypeInv, AckInv, RestartRead
  PROVE  AckInv'
<1> DEFINE p == job.path
           t == tl[p]
           u == SetFingerprint(Reset([t EXCEPT !.base = t.file], 0), 0, 0)
<1>1. p \in Paths /\ t.on /\ job \in Job BY DEF RestartRead, TypeInv, TypeOK, FollowerOK, JobOK
<1>2. t \in Tailer /\ TailerInv(p, t, Done, InHand) /\ t.file <= live[p]
      BY <1>1, AckFacts
<1>3. /\ u \in Tailer /\ u.on = t.on /\ u.file = t.file /\ u.base = t.file /\ u.fpc = 0
      /\ u.ack = 0 /\ u.infl = 0 /\ u.pend = 0 /\ u.off = 0
      /\ u.owed = t.owed /\ u.cpack = t.cpack /\ u.win = t.win /\ u.from = t.from
      /\ u.rewind = FALSE /\ u.holed = FALSE
  <2>1. [t EXCEPT !.base = t.file] \in Tailer BY <1>2 DEF Tailer
  <2>2. Reset([t EXCEPT !.base = t.file], 0) \in Tailer BY <2>1, TailerTypes, FollowAssumption
  <2>3. u \in Tailer BY <2>2, TailerTypes, FollowAssumption
  <2> QED BY <1>2, <2>3 DEF SetFingerprint, Reset, Tailer
<1>4. t.win = {} BY DEF RestartRead, AckInv, PublishInv
<1>5. tl' = [tl EXCEPT ![p] = u] BY DEF RestartRead
<1> HIDE DEF u
<1>6. TailerInv(p, u, Done, InHand) BY <1>1, <1>2, <1>3, <1>4 DEF TailerInv, Covers
<1>7. Snapshot(u, t) /\ (u.on => u.file <= live[p]) BY <1>2, <1>3 DEF Snapshot
<1>8. job'.at \notin {"publish", "drained", "close"}  BY DEF RestartRead, Begin, Idle
<1> QED BY <1>1, <1>3, <1>5, <1>6, <1>7, <1>8, AckInside DEF RestartRead

\* The window of v and perhaps one more record go to the sink, and p's tailer
\* becomes v emptied.
LEMMA AckEmptied ==
  ASSUME TypeInv, AckInv, NEW p \in Paths, NEW v \in Tailer, NEW S, Handed(S),
         UNCHANGED <<fsvars, disk>>,
         tl' = [tl EXCEPT ![p] = Emptied(v)],
         TailerInv(p, v, Done, InHand'), tl[p].on, v.on,
         v.file = tl[p].file, v.infl = tl[p].infl, ReplayOwed(v) = ReplayOwed(tl[p]),
         ~ReplayOwed(v) => WindowOf(p, v) \subseteq S,
         job'.at # "publish", job'.at \in {"drained", "close"} => job'.path = p
  PROVE  AckInv'
<1>1. /\ Done \subseteq Done' /\ InHand \subseteq InHand' /\ UNION S \subseteq InHand'
      /\ UNCHANGED <<flying, whole, stored, skipped, slipped>>
      /\ queue \subseteq queue' /\ refused \subseteq refused'
      BY DEF Handed
<1>2. ASSUME ~ReplayOwed(v), NEW k \in v.win PROVE <<p, v.file, k>> \in InHand'
  <2>1. {<<p, v.file, j>> : j \in v.win} \in S BY <1>2 DEF WindowOf
  <2>2. <<p, v.file, k>> \in UNION S BY <2>1
  <2> QED BY <1>1, <2>2
<1>3. TailerInv(p, Emptied(v), Done, InHand') BY <1>2, TailerInvEmptied
<1>4. /\ Emptied(v) \in Tailer /\ Emptied(v).on = v.on /\ Emptied(v).file = v.file
      /\ Emptied(v).infl = v.infl /\ ReplayOwed(Emptied(v)) = ReplayOwed(v)
      /\ Emptied(v).win = {}
  <2>1. Emptied(v) \in Tailer BY TailerTypes, FollowAssumption
  <2> QED BY <2>1 DEF Emptied, Tailer, ReplayOwed
<1>5. Snapshot(Emptied(v), tl[p]) BY <1>4 DEF Snapshot
<1>6. PublishInv' BY <1>4 DEF PublishInv, TypeInv, TypeOK, FollowerOK
<1>7. tl[p].file <= live[p] /\ RecordInv(p, disk[p], live[p], Done) BY AckFacts
<1>8. TailerInv(p, Emptied(v), Done', InHand') BY <1>1, <1>3, TailerInvGrows
<1>9. RecordInv(p, disk[p], live[p], Done') BY <1>1, <1>7, RecordGrows
<1> QED BY <1>1, <1>4, <1>5, <1>6, <1>7, <1>8, <1>9, AckPoll

LEMMA FlushIdleAck ==
  ASSUME TypeInv, AckInv, NEW p \in Paths, FlushIdle(p)
  PROVE  AckInv'
<1>1. tl[p] \in Tailer /\ TailerInv(p, tl[p], Done, InHand) /\ tl[p].on
      BY AckFacts DEF FlushIdle
<1>2. Handed(WindowOf(p, tl[p]))
  <2>1. WindowOf(p, tl[p]) \subseteq Samples BY <1>1, AckFacts, WindowType
  <2>2. (\E taken : HandOver(WindowOf(p, tl[p]), taken)) /\ UNCHANGED <<skipped, slipped>>
        BY DEF FlushIdle
  <2> QED BY <2>1, <2>2, HandOverHand
<1>3. TailerInv(p, tl[p], Done, InHand') BY <1>1, <1>2, TailerInvGrows DEF Handed
<1>4. job'.at = "drained" /\ job'.path = p BY DEF FlushIdle, Begin, Idle
<1> QED BY <1>1, <1>2, <1>3, <1>4, AckEmptied DEF FlushIdle

LEMMA CloseOneAck ==
  ASSUME TypeInv, AckInv, NEW p \in Paths, CloseOne(p)
  PROVE  AckInv'
<1>1. tl[p].on BY DEF CloseOne, TypeInv, JobOK
<1>2. tl[p] \in Tailer /\ TailerInv(p, tl[p], Done, InHand) BY AckFacts
<1> DEFINE out == IF ReplayOwed(tl[p]) THEN {} ELSE WindowOf(p, tl[p])
<1>3. Handed(out)
  <2>1. out \subseteq Samples BY <1>1, <1>2, AckFacts, WindowType
  <2>2. (\E taken : HandOver(out, taken)) /\ UNCHANGED <<skipped, slipped>> BY DEF CloseOne
  <2> HIDE DEF out
  <2> QED BY <2>1, <2>2, HandOverHand
<1>6. ~ReplayOwed(tl[p]) => WindowOf(p, tl[p]) \subseteq out OBVIOUS
<1> HIDE DEF out
<1>4. TailerInv(p, tl[p], Done, InHand') BY <1>2, <1>3, TailerInvGrows DEF Handed
<1>5. job'.at # "publish" /\ (job'.at \in {"drained", "close"} => job'.path = p)
  <2>1. job \in Job BY DEF TypeInv, TypeOK, FollowerOK
  <2>2. [job EXCEPT !.todo = job.todo \ {p}].at = job.at BY <2>1 DEF Job
  <2>3. [job EXCEPT !.at = "drained", !.path = p].path = p
        /\ [job EXCEPT !.at = "drained", !.path = p].at = "drained" BY <2>1 DEF Job
  <2> QED BY <2>2, <2>3 DEF CloseOne
<1> QED BY <1>1, <1>2, <1>3, <1>4, <1>5, <1>6, AckEmptied DEF CloseOne

LEMMA DrainAck ==
  ASSUME TypeInv, AckInv, Drain
  PROVE  AckInv'
<1> DEFINE p == job.path
           t == tl[p]
           k == t.off + 1
           w == Processed(p, t, k)
           final == job.mode = "retire" /\ HasFinal(p, t)
           last == IF final THEN [w EXCEPT !.off = w.off + 1] ELSE t
           discard == job.mode = "keep" /\ ReplayOwed(t)
           out == IF discard THEN {}
                  ELSE WindowOf(p, last) \cup (IF final THEN Emits(p, t, k) ELSE {})
<1>1. p \in Paths /\ t.on /\ job \in Job BY DEF Drain, TypeInv, TypeOK, FollowerOK, JobOK
<1>2. /\ t \in Tailer /\ TailerInv(p, t, Done, InHand) /\ t.file # 0 /\ t.file \in Gens
      BY <1>1, AckFacts
<1>k. final => k \in 1 .. MaxPos /\ w \in Tailer /\ w.file = t.file /\ Emits(p, t, k) \subseteq Samples
  <2> SUFFICES ASSUME final
               PROVE  /\ k \in 1 .. MaxPos /\ w \in Tailer /\ w.file = t.file
                      /\ Emits(p, t, k) \subseteq Samples
      OBVIOUS
  <2>1. t.off \in Nat BY <1>2 DEF Tailer
  <2>2. size[p][t.file] < MaxPos /\ t.off = size[p][t.file]
        BY <1>1, <1>2 DEF HasFinal, TypeInv, FileOK
  <2>3. k \in 1 .. MaxPos BY <2>1, <2>2, FollowAssumption
  <2> QED BY <1>1, <1>2, <2>3, EmitsType DEF SameHandle
<1>o. out \subseteq Samples
  <2>1. CASE final
    <3>1. \A x \in Tailer : LET y == [x EXCEPT !.off = x.off + 1]
                             IN  y \in Tailer /\ y.file = x.file
          BY DEF Tailer
    <3>2. last \in Tailer /\ last.file = t.file BY <1>k, <2>1, <3>1
    <3>3. WindowOf(p, last) \subseteq Samples BY <1>1, <1>2, <3>2, WindowType
    <3> QED BY <1>k, <2>1, <3>3
  <2>2. CASE ~final BY <1>1, <1>2, <2>2, WindowType
  <2> QED BY <2>1, <2>2
<1>3. (\E taken : HandOver(out, taken)) /\ tl' = [tl EXCEPT ![p] = Emptied(last)]
  <2>1. w.off = t.off BY DEF Processed
  <2> QED BY DEF Drain
<1>h. Handed(out)
  <2>1. UNCHANGED <<skipped, slipped>> BY DEF Drain
  <2> HIDE DEF out
  <2> QED BY <1>3, <1>o, <2>1, HandOverHand
<1>4. InHand \subseteq InHand' /\ UNION out \subseteq InHand'
      BY <1>h DEF Handed
<1>5. /\ last \in Tailer /\ TailerInv(p, last, Done, InHand') /\ last.on
      /\ last.file = t.file /\ last.infl = t.infl /\ ReplayOwed(last) = ReplayOwed(t)
  <2>1. CASE ~final
        BY <1>1, <1>2, <1>4, <2>1, TailerInvGrows
  <2>2. CASE final
    <3>1. k \in 1 .. MaxPos BY <1>k, <2>2
    <3>2. Fed(p, t, k, InHand')
      <4>1. <<p, t.file, k>> \in Records BY <1>1, <1>2, <3>1 DEF Records
      <4>2. ~discard BY <2>2
      <4>3. Emits(p, t, k) \subseteq out BY <2>2, <4>2
      <4>4. UNION Emits(p, t, k) \subseteq InHand' BY <1>4, <4>3
      <4> QED BY <1>4, <4>1, <4>4 DEF Fed, InHand, Done, Accounted, Delivered
    <3>3. Extracted(p, t, w, k, Done, InHand')
          BY <1>1, <1>2, <1>4, <3>1, <3>2, TailerInvProcessed
    <3>4. w \in Tailer BY <1>1, <1>2, <3>1, EmitsType
    <3> HIDE DEF w
    <3>5. TailerInv(p, [w EXCEPT !.off = w.off + 1], Done, InHand')
          BY <3>3, <3>4, TailerInvAdvance DEF Extracted
    <3>6. /\ [w EXCEPT !.off = w.off + 1] \in Tailer
          /\ [w EXCEPT !.off = w.off + 1].on = w.on
          /\ [w EXCEPT !.off = w.off + 1].file = w.file
          /\ [w EXCEPT !.off = w.off + 1].infl = w.infl
          /\ ReplayOwed([w EXCEPT !.off = w.off + 1]) = ReplayOwed(w)
          BY <3>4 DEF Tailer, ReplayOwed
    <3> QED BY <1>1, <2>2, <3>3, <3>5, <3>6 DEF Extracted
  <2> QED BY <2>1, <2>2
<1>6. ~ReplayOwed(last) => WindowOf(p, last) \subseteq out BY <1>5
<1>7. job'.at # "publish" /\ job'.path = p
  <2>1. \A s : At(s).at = s /\ At(s).path = p BY <1>1 DEF At, Job
  <2> QED BY <2>1 DEF Drain
<1> HIDE DEF last, out
<1> QED BY <1>1, <1>3, <1>5, <1>6, <1>7, <1>h, AckEmptied DEF Drain

\* Letting a tailer go, and the record that remains.
LEMMA CloseAck ==
  ASSUME TypeInv, AckInv, CloseKeeping \/ CloseRewinding \/ RetireSave
  PROVE  AckInv'
<1> DEFINE p == job.path
           t == tl[p]
<1>1. UNCHANGED <<dvars, fsvars, slipped, skipped, refused>>
      BY DEF CloseKeeping, CloseRewinding, RetireSave
<1>2. Done' = Done
      BY <1>1 DEF dvars, Done, Accounted, Delivered, Settled
<1>3. InHand' = InHand BY <1>1, <1>2 DEF dvars, InHand
<1>4. PublishInv'
  <2>1. job'.at \in {"idle", "flush", "persist"}
    <3>1. CASE CloseKeeping BY <3>1 DEF CloseKeeping, Idle
    <3>2. CASE CloseRewinding BY <3>2 DEF CloseRewinding, Begin, Idle
    <3>3. CASE RetireSave BY <3>3 DEF RetireSave, Idle
    <3> QED BY <3>1, <3>2, <3>3
  <2> QED BY <2>1 DEF PublishInv
<1>5. ASSUME NEW q \in Paths
      PROVE  tl'[q] = tl[q] \/ ~tl'[q].on
      BY DEF CloseKeeping, CloseRewinding, RetireSave, NoTailer, TypeInv, TypeOK, FollowerOK, Tailer
<1>6. ASSUME NEW q \in Paths
      PROVE  RecordInv(q, disk'[q], live[q], Done)
  <2>1. /\ tl[q] \in Tailer /\ live[q] \in 0 .. MaxGen /\ RecordInv(q, disk[q], live[q], Done)
        /\ TailerInv(q, tl[q], Done, InHand) /\ (tl[q].on => tl[q].file <= live[q])
        BY AckFacts
  <2>2. CASE CloseKeeping
    <3>1. disk'[q] = disk[q] \/ (q = p /\ tl[q].owed /\ disk'[q] = RecordOf(tl[q]))
      <4> DEFINE new == IF t.owed THEN [disk EXCEPT ![p] = RecordOf(t)] ELSE disk
      <4>1. Save(new) BY <2>2 DEF CloseKeeping
      <4>2. disk'[q] = new[q] \/ disk'[q] = disk[q] BY <4>1, SaveEach
      <4> QED BY <4>2 DEF TypeInv, TypeOK, FollowerOK
    <3>2. CASE disk'[q] = disk[q] BY <2>1, <3>2
    <3>3. CASE q = p /\ tl[q].owed /\ disk'[q] = RecordOf(tl[q])
      <4>1. tl[q].on BY <2>2, <3>3 DEF CloseKeeping, TypeInv, JobOK
      <4>2. Covers(Done, q, tl[q].file, tl[q].cpack) BY <2>1, <3>3, <4>1 DEF TailerInv
      <4> QED BY <2>1, <3>3, <4>1, <4>2, RecordSaved
    <3> QED BY <3>1, <3>2, <3>3
  <2>3. CASE CloseRewinding BY <2>1, <2>3 DEF CloseRewinding
  <2>4. CASE RetireSave
    <3>1. disk'[q] = disk[q] \/ disk'[q].fpc = 0
      <4> DEFINE new == [disk EXCEPT ![p] =
                   [had |-> TRUE, fpc |-> 0, acked |-> 0,
                    tail |-> IF disk[p].had /\ ~job.ok THEN disk[p].tail ELSE tl[p].cptail]]
      <4>1. Save(new) BY <2>4 DEF RetireSave
      <4>2. disk'[q] = new[q] \/ disk'[q] = disk[q] BY <4>1, SaveEach
      <4> QED BY <4>2 DEF TypeInv, TypeOK, FollowerOK
    <3> QED BY <2>1, <3>1, FollowAssumption DEF RecordInv
  <2> QED BY <2>2, <2>3, <2>4
<1>7. ASSUME NEW q \in Paths
      PROVE  /\ TailerInv(q, tl'[q], Done', InHand') /\ Snapshot(tl'[q], tl[q])
             /\ tl'[q].on => tl'[q].file <= live'[q]
  <2>1. CASE tl'[q] = tl[q] BY <1>1, <1>2, <1>3, <2>1, AckFacts DEF fsvars, Snapshot
  <2>2. CASE ~tl'[q].on BY <2>2 DEF TailerInv, Snapshot
  <2> QED BY <1>5, <2>1, <2>2
<1> QED BY <1>1, <1>2, <1>4, <1>6, <1>7, AckKept DEF dvars, fsvars

\* The coalesced saves at the end of a sweep.
LEMMA PersistOwedAck ==
  ASSUME TypeInv, AckInv, NEW due \in SUBSET Paths, PersistOwed(due)
  PROVE  AckInv'
<1>1. UNCHANGED <<dvars, fsvars, slipped, skipped, refused>> BY DEF PersistOwed
<1>2. Done' = Done
      BY <1>1 DEF dvars, Done, Accounted, Delivered, Settled
<1>3. InHand' = InHand BY <1>1, <1>2 DEF dvars, InHand
<1>4. PublishInv' BY DEF PersistOwed, Idle, PublishInv
<1>5. ASSUME NEW q \in Paths
      PROVE  /\ TailerInv(q, tl'[q], Done, InHand) /\ Snapshot(tl'[q], tl[q])
             /\ tl'[q].on => tl'[q].file <= live[q]
             /\ RecordInv(q, disk'[q], live[q], Done)
  <2>1. /\ tl[q] \in Tailer /\ live[q] \in 0 .. MaxGen /\ RecordInv(q, disk[q], live[q], Done)
        /\ TailerInv(q, tl[q], Done, InHand) /\ (tl[q].on => tl[q].file <= live[q])
        BY AckFacts
  <2> DEFINE new == [p \in Paths |-> IF p \in {r \in due : tl[r].on /\ tl[r].owed}
                                    THEN RecordOf(tl[p]) ELSE disk[p]]
  <2>a. disk'[q] = new[q] \/ disk'[q] = disk[q]
    <3>1. Save(new) BY DEF PersistOwed
    <3> QED BY <3>1, SaveEach
  <2>2. CASE ~(q \in due /\ tl[q].on /\ tl[q].owed)
    <3>1. tl'[q] = tl[q] /\ disk'[q] = disk[q] BY <2>2, <2>a DEF PersistOwed
    <3> QED BY <2>1, <3>1 DEF Snapshot
  <2>3. CASE q \in due /\ tl[q].on /\ tl[q].owed
    <3> DEFINE u == [tl[q] EXCEPT !.owed = FALSE]
    <3>1. tl'[q] = u /\ (disk'[q] = RecordOf(tl[q]) \/ disk'[q] = disk[q])
          BY <2>3, <2>a DEF PersistOwed
    <3>2. /\ u.on = tl[q].on /\ u.file = tl[q].file /\ u.infl = tl[q].infl
          /\ ReplayOwed(u) = ReplayOwed(tl[q])
          BY <2>1 DEF Tailer, ReplayOwed
    <3>3. TailerInv(q, u, Done, InHand) BY <2>1, TailerInvMethods
    <3>4. Covers(Done, q, tl[q].file, tl[q].cpack) BY <2>1, <2>3 DEF TailerInv
    <3>5. RecordInv(q, RecordOf(tl[q]), live[q], Done) BY <2>1, <2>3, <3>4, RecordSaved
    <3> HIDE DEF u
    <3> QED BY <2>1, <2>3, <3>1, <3>2, <3>3, <3>5 DEF Snapshot
  <2> QED BY <2>2, <2>3
<1> QED BY <1>1, <1>2, <1>3, <1>4, <1>5, AckKept DEF dvars, fsvars

\* A recovery goes on to its flush, gives up, or has nothing to recover.
LEMMA RecoverJob ==
  ASSUME TypeInv, NEW p \in Paths, Recover(p)
  PROVE  job'.at \in {"flush", "flushed", "recover"}
<1> DEFINE errand(stage) == [job EXCEPT !.at = stage, !.path = p, !.mode = "recover", !.n = 0]
<1>1. job \in Job BY DEF TypeInv, TypeOK, FollowerOK
<1>2. \/ job' = errand("flush") \/ job' = [errand("flushed") EXCEPT !.ok = FALSE]
      \/ job' = [job EXCEPT !.todo = job.todo \ {p}]
      BY DEF Recover
<1>3. /\ errand("flush").at = "flush" /\ [errand("flushed") EXCEPT !.ok = FALSE].at = "flushed"
      /\ [job EXCEPT !.todo = job.todo \ {p}].at = job.at
      BY <1>1 DEF Job
<1> HIDE DEF errand
<1> QED BY <1>2, <1>3 DEF Recover

\* Steps that move only the goroutine, queue recovered samples or forget a
\* rotated file.
LEMMA QuietAck ==
  ASSUME TypeInv, AckInv,
         \/ Cancel \/ Shutdown \/ FinalFlush \/ Start \/ RecoverSave \/ Recovered
         \/ PollFlushNil
         \/ \E p \in Paths : Unmatched(p) \/ Reloaded(p) \/ Recover(p)
  PROVE  AckInv'
<1>0. job \in Job BY DEF TypeInv, TypeOK, FollowerOK
<1>1. /\ UNCHANGED <<fsvars, tl, slipped, skipped, stored, flying, whole>>
      /\ queue \subseteq queue' /\ refused \subseteq refused'
  <2>1. ASSUME NEW p \in Paths, Recover(p)
        PROVE  /\ UNCHANGED <<fsvars, tl, slipped, skipped, stored, flying, whole>>
               /\ queue \subseteq queue' /\ refused \subseteq refused'
        BY <2>1 DEF Recover, HandOver, Add, dvars
  <2> QED BY <2>1 DEF Cancel, Shutdown, FinalFlush, Start, RecoverSave, Recovered,
             PollFlushNil, Unmatched, Reloaded, dvars
<1>2. Done \subseteq Done' BY <1>1, DoneGrows
<1>3. InHand \subseteq InHand' BY <1>1, <1>2, HandGrows
<1>4. PublishInv'
  <2>1. \A s, T : [job EXCEPT !.at = s, !.todo = T].at = s BY <1>0 DEF Job
  <2>2. \A s : [job EXCEPT !.at = s].at = s BY <1>0 DEF Job
  <2>3. \A T : [job EXCEPT !.todo = T].at = job.at BY <1>0 DEF Job
  <2>4. [job EXCEPT !.at = "flushed", !.ok = TRUE].at = "flushed" BY <1>0 DEF Job
  <2>5. \A p, m, n : [job EXCEPT !.at = "flush", !.path = p, !.mode = m, !.n = n].at = "flush"
        BY <1>0 DEF Job
  <2>6. job'.at \notin {"publish", "drained", "close"} \/ UNCHANGED job
     <3>a. CASE Shutdown BY <3>a DEF Shutdown, Idle
     <3>b. CASE Start BY <3>b DEF Start, Idle
     <3>1. CASE Recovered BY <3>1 DEF Recovered, Idle
     <3>c. CASE FinalFlush BY <2>1, <2>2, <2>4, <3>c DEF FinalFlush, At
     <3>d. CASE RecoverSave BY <2>1, <2>2, <3>d DEF RecoverSave, At
     <3>2. CASE PollFlushNil BY <2>2, <2>4, <3>2 DEF PollFlushNil, At
     <3>3. ASSUME NEW p \in Paths, Unmatched(p) PROVE job'.at = "read"
           BY <3>3 DEF Unmatched, Begin, Idle
     <3>4. ASSUME NEW p \in Paths, Reloaded(p) PROVE job'.at = "drain"
           BY <3>4 DEF Reloaded, Begin, Idle
     <3>5. ASSUME NEW p \in Paths, Recover(p) PROVE job'.at \in {"flush", "flushed", "recover"}
           BY <3>5, RecoverJob
     <3>e. CASE Cancel BY <3>e DEF Cancel
     <3> QED BY <3>a, <3>b, <3>c, <3>d, <3>e, <3>1, <3>2, <3>3, <3>4, <3>5
  <2> QED BY <1>1, <1>3, <2>6 DEF AckInv, PublishInv
<1>5. ASSUME NEW q \in Paths
      PROVE  disk'[q].fpc = disk[q].fpc /\ disk'[q].acked = disk[q].acked
  <2>1. CASE disk'[q] = disk[q] BY <2>1
  <2>2. CASE disk'[q] = [disk EXCEPT ![job.path].tail = NoTail][q]
    <3>1. \A r \in Record : /\ [r EXCEPT !.tail = NoTail].fpc = r.fpc
                            /\ [r EXCEPT !.tail = NoTail].acked = r.acked
          BY DEF Record
    <3> QED BY <2>2, <3>1 DEF TypeInv, TypeOK, FollowerOK
  <2>3. UNCHANGED disk \/ Save(disk) \/ Save([disk EXCEPT ![job.path].tail = NoTail])
        BY DEF Cancel, Shutdown, FinalFlush, Start, RecoverSave, Recovered,
               PollFlushNil, Unmatched, Reloaded, Recover
  <2> QED BY <2>1, <2>2, <2>3, SaveEach
<1>6. ASSUME NEW q \in Paths
      PROVE  /\ TailerInv(q, tl'[q], Done', InHand') /\ Snapshot(tl'[q], tl[q])
             /\ tl'[q].on => tl'[q].file <= live'[q]
             /\ RecordInv(q, disk'[q], live'[q], Done')
  <2>1. /\ RecordInv(q, disk[q], live[q], Done) /\ TailerInv(q, tl[q], Done, InHand)
        /\ (tl[q].on => tl[q].file <= live[q])
        BY AckFacts
  <2>2. TailerInv(q, tl[q], Done', InHand') BY <1>2, <1>3, <2>1, TailerInvGrows
  <2>3. RecordInv(q, disk'[q], live[q], Done) BY <1>5, <2>1 DEF RecordInv
  <2>4. RecordInv(q, disk'[q], live[q], Done') BY <1>2, <2>3, RecordGrows
  <2> QED BY <1>1, <2>1, <2>2, <2>4 DEF fsvars, Snapshot
<1> QED BY <1>1, <1>2, <1>4, <1>6, AckKept

-----------------------------------------------------------------------------
(* Deliveries.                                                             *)

\* An observer leaves the read head and the extractor alone, and never
\* forgets a replay.
SameRead(u, t) ==
  /\ u.on = t.on /\ u.file = t.file /\ u.base = t.base /\ u.off = t.off /\ u.win = t.win
  /\ ReplayOwed(t) => ReplayOwed(u)

LEMMA ObserversRead ==
  ASSUME NEW t \in Tailer
  PROVE  /\ SameRead(MarkInflight(t), t) /\ SameRead(MarkHoled(t), t)
         /\ SameRead(ClearHole(t), t)
         /\ \A now \in BOOLEAN : SameRead(CommitInflight(t, now), t)
<1> USE DEF SameRead, ReplayOwed, Tailer
<1>1. SameRead(MarkInflight(t), t) BY DEF MarkInflight
<1>2. SameRead(MarkHoled(t), t) BY DEF MarkHoled
<1>3. SameRead(ClearHole(t), t) BY DEF ClearHole
<1>4. \A now \in BOOLEAN : SameRead(CommitInflight(t, now), t) BY DEF CommitInflight
<1> QED BY <1>1, <1>2, <1>3, <1>4

\* Only the records of the tailer's own file matter to it.
LEMMA TailerInvOwn ==
  ASSUME NEW p, NEW t, NEW done, NEW hand, NEW done2, NEW hand2,
         TailerInv(p, t, done, hand), done \subseteq done2,
         t.on /\ ~ReplayOwed(t) => \A k : <<p, t.file, k>> \in hand => <<p, t.file, k>> \in hand2
  PROVE  TailerInv(p, t, done2, hand2)
BY DEF TailerInv, Covers

\* A delivery step keeps the invariant if it keeps each tailer's part of it.
LEMMA AckDelivery ==
  ASSUME TypeInv, AckInv, UNCHANGED fsvars, Done \subseteq Done',
         job' = job \/ job'.at \notin {"publish", "drained", "close"},
         \A p \in Paths :
           /\ SameRead(tl'[p], tl[p]) /\ TailerInv(p, tl'[p], Done', InHand')
           /\ FlightInv(p, tl[p], Done)'
           /\ RecordInv(p, disk'[p], live[p], Done')
           /\ tl'[p].on /\ ~ReplayOwed(tl'[p]) =>
                \A k : <<p, tl[p].file, k>> \in InHand => <<p, tl[p].file, k>> \in InHand'
  PROVE  AckInv'
<1>1. PublishInv'
  <2>1. CASE job'.at \notin {"publish", "drained", "close"} BY <2>1 DEF PublishInv
  <2>2. CASE job' = job /\ job.at \in {"publish", "drained", "close"}
    <3>1. job.path \in Paths /\ tl[job.path].on BY <2>2 DEF TypeInv, JobOK
    <3>2. PublishInv BY DEF AckInv
    <3> QED BY <2>2, <3>1, <3>2 DEF PublishInv, SameRead
  <2> QED BY <2>1, <2>2
<1>2. \A p \in Paths : tl'[p].on => tl'[p].file <= live'[p]
      BY DEF AckInv, SameRead, fsvars
<1> QED BY <1>1, <1>2 DEF AckInv, fsvars

\* A request that takes the whole buffer snapshots what is then in hand.
LEMMA TakeAck ==
  ASSUME TypeInv, AckInv, NEW F \in SUBSET queue, FlushTake(F) \/ PollFlushTake(F)
  PROVE  AckInv'
<1>1. /\ Take(F) /\ tl' = (IF F = queue THEN BeginFlush ELSE tl)
      /\ UNCHANGED <<fsvars, disk, slipped, skipped, refused>>
      BY DEF FlushTake, PollFlushTake
<1>2. job' = job \/ job'.at = "wait"
  <2>1. job \in Job BY DEF TypeInv, TypeOK, FollowerOK
  <2>2. [job EXCEPT !.at = "wait", !.n = job.n + 1].at = "wait" BY <2>1 DEF Job
  <2> QED BY <2>2 DEF FlushTake, PollFlushTake
<1>3. Done' = Done BY <1>1 DEF Take, Done, Accounted, Delivered, Settled
<1>4. InHand' = InHand /\ InHand = Done \cup UNION queue
  <2>1. flying = {} /\ queue' \cup flying' = queue \cup flying BY <1>1 DEF Take
  <2> QED BY <1>3, <2>1 DEF InHand
<1>5. ASSUME NEW p \in Paths
      PROVE  /\ SameRead(tl'[p], tl[p]) /\ TailerInv(p, tl'[p], Done', InHand')
             /\ FlightInv(p, tl[p], Done)'
             /\ RecordInv(p, disk'[p], live[p], Done')
  <2>1. /\ tl[p] \in Tailer /\ TailerInv(p, tl[p], Done, InHand)
        /\ RecordInv(p, disk[p], live[p], Done)
        BY AckFacts
  <2>2. tl'[p] = tl[p] \/ tl'[p] = MarkInflight(tl[p]) BY <1>1 DEF BeginFlush
  <2>3. SameRead(tl'[p], tl[p]) BY <2>1, <2>2, ObserversRead DEF SameRead
  <2>4. TailerInv(p, tl'[p], Done', InHand')
    <3>1. TailerInv(p, MarkInflight(tl[p]), Done, InHand) BY <2>1, TailerInvMethods
    <3> QED BY <1>3, <1>4, <2>1, <2>2, <3>1
  <2>5. FlightInv(p, tl[p], Done)'
    <3>1. CASE F # queue BY <1>1, <3>1 DEF Take, FlightInv
    <3>2. CASE ~tl'[p].on BY <3>2 DEF FlightInv
    <3>3. CASE F = queue /\ tl'[p].on
      <4>1. tl[p].on /\ tl'[p] = MarkInflight(tl[p])
            BY <1>1, <2>3, <3>3 DEF BeginFlush, SameRead
      <4>2. ASSUME ~ReplayOwed(tl'[p]) PROVE Covers(InHand, p, tl'[p].file, tl'[p].infl)
        <5>1. ~ReplayOwed(tl[p]) BY <2>3, <4>2 DEF SameRead
        <5>2. tl'[p].infl = tl[p].pend /\ tl'[p].file = tl[p].file
              BY <2>1, <4>1, <5>1 DEF MarkInflight, ReplayOwed, Tailer
        <5> QED BY <2>1, <4>1, <5>1, <5>2 DEF TailerInv
      <4>3. InHand = Done' \cup UNION flying' BY <1>1, <1>3, <1>4, <3>3 DEF Take
      <4> QED BY <4>2, <4>3 DEF FlightInv
    <3> QED BY <3>1, <3>2, <3>3
  <2> QED BY <1>1, <1>3, <2>1, <2>3, <2>4, <2>5
<1> QED BY <1>1, <1>2, <1>3, <1>4, <1>5, AckDelivery

LEMMA CommitAck ==
  ASSUME TypeInv, AckInv, HoldExpires \/ \E S \in SUBSET flying : StoreCommit(S)
  PROVE  AckInv'
<1>1. /\ UNCHANGED <<fsvars, tl, job, disk, slipped, skipped, refused, queue, flying, whole>>
      /\ stored \subseteq stored'
      BY DEF HoldExpires, Release, StoreCommit, Commit
<1>2. Done \subseteq Done' BY <1>1, DoneGrows
<1>3. InHand \subseteq InHand' BY <1>1, <1>2, HandGrows
<1>4. ASSUME NEW p \in Paths
      PROVE  /\ SameRead(tl'[p], tl[p]) /\ TailerInv(p, tl'[p], Done', InHand')
             /\ FlightInv(p, tl[p], Done)'
             /\ RecordInv(p, disk'[p], live[p], Done')
  <2>1. /\ TailerInv(p, tl[p], Done, InHand) /\ RecordInv(p, disk[p], live[p], Done)
        /\ FlightInv(p, tl[p], Done)
        BY DEF AckInv
  <2>2. TailerInv(p, tl[p], Done', InHand') BY <1>2, <1>3, <2>1, TailerInvGrows
  <2>3. RecordInv(p, disk[p], live[p], Done') BY <1>2, <2>1, RecordGrows
  <2>4. Snapshot(tl'[p], tl[p]) BY <1>1 DEF Snapshot
  <2>5. FlightInv(p, tl[p], Done)' BY <1>1, <1>2, <2>1, <2>2, <2>4, FlightKept
  <2> QED BY <1>1, <2>2, <2>3, <2>5 DEF SameRead
<1> QED BY <1>1, <1>2, <1>3, <1>4, AckDelivery

LEMMA VerdictJob ==
  ASSUME TypeInv, NEW nil, NEW again, Verdict(nil, again)
  PROVE  job' = job \/ job'.at \in {"flush", "flushed"}
<1>1. job \in Job BY DEF TypeInv, TypeOK, FollowerOK
<1> QED BY <1>1 DEF Verdict, Job

LEMMA RequeuedAck ==
  ASSUME TypeInv, AckInv, NEW h \in BOOLEAN, FlushRequeued(h)
  PROVE  AckInv'
<1>1. /\ UNCHANGED <<fsvars, tl, disk, slipped, skipped, refused, stored>>
      /\ queue' = queue \cup flying /\ flying' = {}
      BY DEF FlushRequeued, Requeue
<1>2. job' = job \/ job'.at \in {"flush", "flushed"} BY VerdictJob DEF FlushRequeued
<1>3. Done' = Done BY <1>1 DEF Done, Accounted, Delivered, Settled
<1>4. InHand' = InHand BY <1>1, <1>3 DEF InHand
<1>5. ASSUME NEW p \in Paths
      PROVE  /\ SameRead(tl'[p], tl[p]) /\ TailerInv(p, tl'[p], Done', InHand')
             /\ FlightInv(p, tl[p], Done)'
             /\ RecordInv(p, disk'[p], live[p], Done')
      BY <1>1, <1>3, <1>4, AckFacts DEF SameRead, FlightInv
<1> QED BY <1>1, <1>2, <1>3, <1>4, <1>5, AckDelivery

\* A refused declaration changes no tailer, sample or record.
LEMMA MetaRefusedAck ==
  ASSUME TypeInv, AckInv, NEW own \in BOOLEAN, NEW h \in BOOLEAN, MetaRefused(own, h)
  PROVE  AckInv'
<1>1. UNCHANGED <<fsvars, tl, disk, slipped, skipped, refused, stored, queue, flying>> /\ flying' = {}
      BY DEF MetaRefused, StartHold, dvars
<1>2. job' = job \/ job'.at \in {"flush", "flushed"}
  <2>1. job \in Job BY DEF TypeInv, TypeOK, FollowerOK
  <2> QED BY <2>1 DEF MetaRefused, Job
<1>3. Done' = Done BY <1>1 DEF Done, Accounted, Delivered, Settled
<1>4. InHand' = InHand BY <1>1, <1>3 DEF InHand
<1>5. ASSUME NEW p \in Paths
      PROVE  /\ SameRead(tl'[p], tl[p]) /\ TailerInv(p, tl'[p], Done', InHand')
             /\ FlightInv(p, tl[p], Done)'
             /\ RecordInv(p, disk'[p], live[p], Done')
      BY <1>1, <1>3, <1>4, AckFacts DEF SameRead, FlightInv
<1> QED BY <1>1, <1>2, <1>3, <1>4, <1>5, AckDelivery

\* 200: what the announced request carried is done, so the snapshots are.
LEMMA AcceptedAck ==
  ASSUME TypeInv, AckInv, NEW due \in SUBSET Paths, FlushAccepted(due)
  PROVE  AckInv'
<1>1. /\ UNCHANGED <<fsvars, slipped, skipped, refused, stored, queue>> /\ flying' = {}
      /\ flying # {} /\ flying \subseteq Settled
      BY DEF FlushAccepted, Accept
<1>2. job' = job \/ job'.at \in {"flush", "flushed"} BY VerdictJob DEF FlushAccepted
<1>3. Done' = Done BY <1>1 DEF Done, Accounted, Delivered, Settled
<1>4. \A s \in flying : s \subseteq Done
      BY <1>1, SettledDone DEF TypeInv, TypeOK, SinkOK
<1>5. InHand \subseteq InHand'
  <2>1. \A s \in queue \cup flying : s \in queue' \cup flying' \/ s \subseteq Done'
        BY <1>1, <1>3, <1>4
  <2> QED BY <1>3, <2>1, HandGrows
<1>6. ASSUME NEW p \in Paths
      PROVE  /\ SameRead(tl'[p], tl[p]) /\ TailerInv(p, tl'[p], Done, InHand')
             /\ RecordInv(p, disk'[p], live[p], Done)
  <2> DEFINE t == tl[p]
             now == p \in due
             u == CommitInflight(t, now)
  <2>1. /\ t \in Tailer /\ TailerInv(p, t, Done, InHand) /\ live[p] \in 0 .. MaxGen
        /\ RecordInv(p, disk[p], live[p], Done) /\ (t.on => t.file <= live[p])
        BY AckFacts
  <2>2. TailerInv(p, t, Done, InHand') BY <1>5, <2>1, TailerInvGrows
  <2>3. CASE tl'[p] = t /\ disk'[p] = disk[p] BY <2>1, <2>2, <2>3 DEF SameRead
  <2>4. CASE tl'[p] = ClearHole(t) /\ disk'[p] = disk[p]
        BY <2>1, <2>2, <2>4, ObserversRead, TailerInvMethods
  <2>5. CASE /\ whole /\ t.on /\ ~t.holed /\ HasInflight(t) /\ tl'[p] = u
             /\ disk'[p] = disk[p] \/ disk'[p] = RecordOf(u)
    <3>1. ~t.rewind
      <4>1. t.infl \in Nat /\ t.ack \in Nat BY <2>1 DEF Tailer
      <4> QED BY <2>1, <2>5, <4>1 DEF HasInflight, TailerInv
    <3>2. Covers(Done \cup UNION flying, p, t.file, t.infl)
          BY <1>1, <2>5, <3>1 DEF AckInv, FlightInv, ReplayOwed
    <3>3. Covers(Done, p, t.file, t.infl) BY <1>4, <3>2 DEF Covers
    <3>4. now \in BOOLEAN OBVIOUS
    <3>5. TailerInv(p, u, Done, InHand') /\ SameRead(u, t) /\ u \in Tailer
      <4>1. TailerInv(p, u, Done, InHand') BY <2>1, <2>2, <3>1, <3>3, <3>4, TailerInvCommit
      <4>2. SameRead(u, t) BY <2>1, <3>4, ObserversRead
      <4>3. u \in Tailer BY <2>1, <3>4, TailerTypes, FollowAssumption
      <4> QED BY <4>1, <4>2, <4>3
    <3>6. u.cpack = t.infl BY <2>1 DEF CommitInflight, Tailer
    <3> HIDE DEF u
    <3>7. RecordInv(p, RecordOf(u), live[p], Done)
          BY <2>1, <2>5, <3>3, <3>5, <3>6, RecordSaved DEF SameRead
    <3> QED BY <2>1, <2>5, <3>5, <3>7
  <2>6. \/ tl'[p] = t /\ disk'[p] = disk[p]
        \/ tl'[p] = ClearHole(t) /\ disk'[p] = disk[p]
        \/ /\ whole /\ t.on /\ ~t.holed /\ HasInflight(t) /\ tl'[p] = u
           /\ disk'[p] = disk[p] \/ disk'[p] = RecordOf(u)
    <3>1. CASE ~whole BY <3>1 DEF FlushAccepted
    <3>2. CASE whole
      <4>1. /\ tl'[p] = Committed(t, now)
            /\ disk'[p] = disk[p] \/ (p \in Saving(due) /\ disk'[p] = RecordOf(tl'[p]))
        <5> DEFINE new == [q \in Paths |->
                             IF q \in Saving(due) THEN RecordOf(tl'[q]) ELSE disk[q]]
        <5>1. tl'[p] = Committed(t, now) /\ Save(new) BY <3>2, Zenon DEF FlushAccepted
        <5>2. disk'[p] = new[p] \/ disk'[p] = disk[p] BY <5>1, SaveEach
        <5> QED BY <5>1, <5>2, Zenon
      <4>2. p \in Saving(due) => t.on /\ ~t.holed /\ HasInflight(t) BY DEF Saving
      <4>3. CASE ~t.on BY <4>1, <4>2, <4>3 DEF Committed
      <4>4. CASE t.on /\ t.holed BY <4>1, <4>2, <4>4 DEF Committed
      <4>5. CASE t.on /\ ~t.holed /\ HasInflight(t) BY <3>2, <4>1, <4>5 DEF Committed
      <4>6. CASE t.on /\ ~t.holed /\ ~HasInflight(t) BY <4>1, <4>2, <4>6 DEF Committed
      <4> QED BY <4>3, <4>4, <4>5, <4>6
    <3> QED BY <3>1, <3>2
  <2> QED BY <2>3, <2>4, <2>5, <2>6
<1>7. ASSUME NEW p \in Paths PROVE FlightInv(p, tl[p], Done)' BY <1>1 DEF FlightInv
<1> QED BY <1>1, <1>2, <1>3, <1>5, <1>6, <1>7, AckDelivery

\* An abandoned batch: a tailer it leaves unfrozen fed it nothing that is not
\* booked as slipped.
LEMMA DroppedAck ==
  ASSUME TypeInv, AckInv, NEW gave \in BOOLEAN, FlushDropped(gave)
  PROVE  AckInv'
<1>1. /\ UNCHANGED <<fsvars, disk, skipped, refused, stored, queue>> /\ flying' = {}
      /\ tl' = Frozen /\ slipped' = slipped \cup Unprotected
      BY DEF FlushDropped, Drop
<1>2. job' = job \/ job'.at \in {"flush", "flushed"} BY VerdictJob DEF FlushDropped
<1>3. Done \subseteq Done' BY <1>1, DoneGrows
<1>4. Unprotected \subseteq Done'
  <2>1. Unprotected \subseteq Records
        BY FollowAssumption DEF Unprotected, TypeInv, TypeOK, SinkOK
  <2> QED BY <1>1, <2>1 DEF Done, Accounted
<1>5. ASSUME NEW p \in Paths
      PROVE  /\ SameRead(tl'[p], tl[p]) /\ TailerInv(p, tl'[p], Done', InHand')
             /\ RecordInv(p, disk'[p], live[p], Done')
             /\ tl'[p].on /\ ~ReplayOwed(tl'[p]) =>
                  \A k : <<p, tl[p].file, k>> \in InHand => <<p, tl[p].file, k>> \in InHand'
  <2> DEFINE t == tl[p]
             b == IF whole THEN t ELSE BeginFlush[p]
             u == tl'[p]
  <2>1. /\ t \in Tailer /\ TailerInv(p, t, Done, InHand) /\ RecordInv(p, disk[p], live[p], Done)
        BY AckFacts
  <2>2. b \in Tailer /\ TailerInv(p, b, Done, InHand) /\ SameRead(b, t)
    <3>1. b = t \/ b = MarkInflight(t) BY DEF BeginFlush
    <3>2. MarkInflight(t) \in Tailer BY <2>1, TailerTypes, FollowAssumption
    <3>3. TailerInv(p, MarkInflight(t), Done, InHand) BY <2>1, TailerInvMethods
    <3>4. SameRead(MarkInflight(t), t) BY <2>1, ObserversRead
    <3> QED BY <2>1, <3>1, <3>2, <3>3, <3>4 DEF SameRead
  <2>3. u = IF b.on THEN MarkHoled(b) ELSE b BY <1>1 DEF Frozen
  <2> HIDE DEF b
  <2>4. TailerInv(p, u, Done, InHand) /\ SameRead(u, b)
    <3>1. TailerInv(p, MarkHoled(b), Done, InHand) BY <2>2, TailerInvMethods
    <3>2. SameRead(MarkHoled(b), b) BY <2>2, ObserversRead
    <3> QED BY <2>2, <2>3, <3>1, <3>2 DEF SameRead
  <2>5. SameRead(u, t) BY <2>2, <2>4 DEF SameRead
  <2>6. ASSUME u.on, ~ReplayOwed(u), NEW k, <<p, t.file, k>> \in InHand
        PROVE  <<p, t.file, k>> \in InHand'
    <3> DEFINE r == <<p, t.file, k>>
    <3>1. CASE r \in Done BY <1>3, <3>1 DEF InHand
    <3>2. CASE r \in UNION queue BY <1>1, <3>2 DEF InHand
    <3>3. CASE r \in UNION flying
      <4>1. r[1] = p /\ Frozen[p] = u BY <1>1
      <4>2. r \in Unprotected BY <2>6, <3>3, <4>1 DEF Unprotected
      <4> QED BY <1>4, <4>2 DEF InHand
    <3> QED BY <2>6, <3>1, <3>2, <3>3 DEF InHand
  <2>7. TailerInv(p, u, Done', InHand')
    <3>1. u.file = t.file BY <2>5 DEF SameRead
    <3> HIDE DEF u
    <3> QED BY <1>3, <2>4, <2>6, <3>1, TailerInvOwn
  <2>8. RecordInv(p, disk'[p], live[p], Done') BY <1>1, <1>3, <2>1, RecordGrows
  <2> QED BY <2>5, <2>6, <2>7, <2>8
<1>6. ASSUME NEW p \in Paths PROVE FlightInv(p, tl[p], Done)' BY <1>1 DEF FlightInv
<1> QED BY <1>1, <1>2, <1>3, <1>5, <1>6, AckDelivery

-----------------------------------------------------------------------------
LEMMA AckInit == Init => AckInv
<1> SUFFICES ASSUME Init PROVE AckInv OBVIOUS
<1>1. \A p \in Paths : ~tl[p].on /\ disk[p].fpc = 0 /\ live[p] = 0
      BY DEF Init, NoTailer, NoRecord
<1>2. job.at = "idle" BY DEF Init, Idle
<1> QED BY <1>1, <1>2 DEF AckInv, TailerInv, FlightInv, PublishInv, RecordInv

LEMMA AckStep ==
  ASSUME TypeInv, AckInv, [Next]_vars, "rewrite" \notin Moves
  PROVE  AckInv'
<1>1. CASE Delivering
      BY <1>1, TakeAck, QuietAck, CommitAck, AcceptedAck, RequeuedAck, DroppedAck,
         MetaRefusedAck DEF Delivering
<1>2. CASE Owners BY <1>2, OwnersAck
<1>3. CASE Crash BY <1>3, DownAck
<1>4. CASE Polling
      BY <1>4, EnsureAck, SweepAck, QuietAck, FlushIdleAck, CloseOneAck, ReadRecordAck,
         PublishAck, ReadDoneAck, PersistOwedAck, DrainAck, DrainPublishAck, RestartReadAck,
         CloseAck, DownAck
      DEF Polling
<1>5. CASE UNCHANGED vars
  <2>1. Done' = Done
        BY <1>5 DEF vars, dvars, Done, Accounted, Delivered, Settled
  <2>2. InHand' = InHand BY <1>5, <2>1 DEF vars, dvars, InHand
  <2> QED BY <1>5, <2>1, <2>2
          DEF vars, dvars, fsvars, AckInv, TailerInv, FlightInv, PublishInv, RecordInv
<1> QED BY <1>1, <1>2, <1>3, <1>4, <1>5 DEF Next

\* The invariant says what it is for.
LEMMA AckSound == AckInv => AckedIsStored /\ CheckpointHonest
<1> SUFFICES ASSUME AckInv PROVE AckedIsStored /\ CheckpointHonest OBVIOUS
<1>1. \A r \in Done : Accounted(r) BY DEF Done
<1>2. AckedIsStored BY <1>1 DEF AckInv, TailerInv, Covers, AckedIsStored
<1>3. CheckpointHonest BY <1>1 DEF AckInv, RecordInv, Covers, CheckpointHonest
<1> QED BY <1>2, <1>3

\* Whatever fails, stops or crashes, the offset a tailer holds as acknowledged
\* and the resume record on disk cover only records that the store has, that
\* slipped with an abandoned batch, or whose sample Add refused after the
\* context was cancelled, as long as no followed file is rewritten in place.
THEOREM AckedSafe ==
  ASSUME "rewrite" \notin Moves
  PROVE  Spec => [](AckedIsStored /\ CheckpointHonest)
<1>1. Init => TypeInv /\ AckInv BY TypeInit, AckInit
<1>2. TypeInv /\ AckInv /\ [Next]_vars => TypeInv' /\ AckInv' BY TypeStep, AckStep
<1>3. TypeInv /\ AckInv => AckedIsStored /\ CheckpointHonest BY AckSound
<1> QED BY <1>1, <1>2, <1>3, PTL DEF Spec

\* The invariant that carries the argument, which the runs check on small instances.
THEOREM AckInvariant ==
  ASSUME "rewrite" \notin Moves
  PROVE  Spec => []AckInv
<1>1. Init => TypeInv /\ AckInv BY TypeInit, AckInit
<1>2. TypeInv /\ AckInv /\ [Next]_vars => TypeInv' /\ AckInv' BY TypeStep, AckStep
<1> QED BY <1>1, <1>2, PTL DEF Spec

\* A process that starts from the resume records on disk (ensure) skips no record the
\* store lacks, whenever they were written and whatever failed in between, except those
\* that slipped or that Add refused after a cancellation.
THEOREM ResumeSkipsNothing ==
  ASSUME "rewrite" \notin Moves
  PROVE  Spec => []CheckpointHonest
<1>1. AckInv => CheckpointHonest BY AckSound
<1> QED BY <1>1, AckInvariant, PTL

\* Add (waitRoom) refuses a sample only once the context is cancelled.
RefusedLate == refused # {} => crashes > 0 \/ stop = "cancel"

LEMMA RefusedStep ==
  ASSUME TypeInv, RefusedLate, [Next]_vars
  PROVE  RefusedLate'
<1>c. crashes \in Nat BY DEF TypeInv, TypeOK, BooksOK
<1>1. ASSUME NEW S, NEW taken, HandOver(S, taken), UNCHANGED <<stop, crashes>>
      PROVE  RefusedLate'
  <2>1. CASE taken = S BY <1>1, <2>1 DEF HandOver, RefusedLate
  <2>2. CASE taken # S BY <1>1, <2>2 DEF HandOver, RefusedLate
  <2> QED BY <2>1, <2>2
<1>2. ASSUME UNCHANGED <<refused, stop, crashes>> PROVE RefusedLate'
      BY <1>2 DEF RefusedLate
<1>3. CASE Delivering
  <2>1. UNCHANGED <<refused, crashes>> /\ (stop = "cancel" => stop' = "cancel")
        BY <1>3 DEF Delivering, FlushTake, PollFlushTake, PollFlushNil, StoreCommit, FlushAccepted,
           FlushRequeued, FlushDropped, MetaRefused, HoldExpires
  <2> QED BY <2>1 DEF RefusedLate
<1>4. CASE Owners
  <2>1. UNCHANGED <<refused, stop, crashes>>
        BY <1>4 DEF Owners, AppendRecord, AppendFragment, Create, Rotate, Remove, Rewrite, others
  <2> QED BY <1>2, <2>1
<1>5. CASE Crash \/ ShutdownSave
  <2>1. crashes' = crashes + 1 BY <1>5 DEF Crash, ShutdownSave, Down
  <2> QED BY <1>c, <2>1 DEF RefusedLate
<1>6. CASE Cancel BY <1>6 DEF Cancel, RefusedLate
<1>7. ASSUME NEW p \in Paths, FlushIdle(p) \/ CloseOne(p) PROVE RefusedLate'
  <2>1. UNCHANGED <<stop, crashes>> /\ \E S, taken : HandOver(S, taken)
        BY <1>7 DEF FlushIdle, CloseOne
  <2> QED BY <1>1, <2>1
<1>8. CASE ReadRecord \/ Drain
  <2>1. UNCHANGED <<stop, crashes>> /\ \E S, taken : HandOver(S, taken)
        BY <1>8 DEF ReadRecord, Drain
  <2> QED BY <1>1, <2>1
<1>9. ASSUME NEW p \in Paths, Recover(p) PROVE RefusedLate'
  <2>1. UNCHANGED <<stop, crashes>> /\ (UNCHANGED refused \/ \E S, taken : HandOver(S, taken))
        BY <1>9 DEF Recover
  <2> QED BY <1>1, <1>2, <2>1
<1>10. CASE Polling
  BY <1>2, <1>5, <1>6, <1>7, <1>8, <1>9, <1>10
  DEF Polling, Ensure, Sweep, Unmatched, Reloaded, Publish, ReadDone, PersistOwed, DrainPublish,
      RestartRead, CloseKeeping, CloseRewinding, RetireSave, Shutdown, FinalFlush, Start,
      RecoverSave, Recovered
<1>11. CASE UNCHANGED vars BY <1>2, <1>11 DEF vars
<1> QED BY <1>3, <1>4, <1>5, <1>10, <1>11 DEF Next

\* Until its context is cancelled the follower acknowledges, whatever fails, only records
\* the store has or that slipped with an abandoned batch.
AckedWhileRunning ==
  crashes = 0 /\ stop # "cancel" =>
    \A p \in Paths :
      tl[p].on /\ tl[p].base = tl[p].file =>
        \A k \in 1 .. tl[p].ack :
          Delivered(<<p, tl[p].base, k>>) \/ <<p, tl[p].base, k>> \in slipped

\* A sample is turned away only in a stop: while the follower runs, the acknowledged
\* offset (commitInflight) has no exception but the abandoned batches.
THEOREM RunningAcksAreExact ==
  ASSUME "rewrite" \notin Moves
  PROVE  Spec => []AckedWhileRunning
<1>1. Init => TypeInv /\ AckInv /\ RefusedLate
  <2>1. Init => RefusedLate BY DEF Init, RefusedLate
  <2> QED BY <2>1, TypeInit, AckInit
<1>2. TypeInv /\ AckInv /\ RefusedLate /\ [Next]_vars => TypeInv' /\ AckInv' /\ RefusedLate'
  BY TypeStep, AckStep, RefusedStep
<1>3. TypeInv /\ AckInv /\ RefusedLate => AckedWhileRunning
  <2> SUFFICES ASSUME AckInv, RefusedLate, crashes = 0, stop # "cancel" PROVE AckedWhileRunning
      BY DEF AckedWhileRunning
  <2>1. refused = {} BY DEF RefusedLate
  <2>2. AckedIsStored BY AckSound
  <2> QED BY <2>1, <2>2 DEF AckedIsStored, Accounted, AckedWhileRunning
<1> QED BY <1>1, <1>2, <1>3, PTL DEF Spec

-----------------------------------------------------------------------------
(* Retiring a rotated or removed file.                                     *)

\* The records of a content, with the unterminated one at its end.
End(p, g) == size[p][g] + (IF frag[p][g] THEN 1 ELSE 0)

Letting == {"flush", "wait", "flushed"}

\* A file that is retired can no longer grow.  Unless a replay is owed, it is drained
\* only at its end, and when its tailer is let go all of it is in hand.
RetireInv ==
  LET p == job.path t == tl[p] IN
  /\ mine => job.at = "wait"
  /\ job.mode = "retire" =>
       /\ p \in Paths /\ job.at \in {"read", "publish", "drain", "drained", "close"} \cup Letting
       /\ t.file \in Gens /\ t.file <= live[p] /\ ~(present[p] /\ live[p] = t.file)
       /\ job.at \in Letting => ~t.on
       /\ job.at = "drain" /\ ~t.rewind => t.off = size[p][t.file]
       /\ job.at \in {"drained", "close"} /\ ~ReplayOwed(t) => t.off = End(p, t.file)
       /\ job.at \in Letting /\ ~ReplayOwed(t) => Covers(InHand, p, t.file, End(p, t.file))

\* A step of the poll goroutine that retires nothing.
LEMMA RetireElse ==
  ASSUME RetireInv, job.at # "wait", UNCHANGED mine, job'.mode # "retire"
  PROVE  RetireInv'
BY DEF RetireInv

\* A step inside the file that is retired.
LEMMA RetireInside ==
  ASSUME TypeInv, RetireInv, job.mode = "retire", job.at # "wait", UNCHANGED <<fsvars, mine>>,
         NEW u, tl' = [tl EXCEPT ![job.path] = u], u.file = tl[job.path].file,
         job'.mode = "retire", job'.path = job.path,
         job'.at \in {"read", "publish", "drain", "drained", "close"},
         job'.at = "drain" /\ ~u.rewind => u.off = size[job.path][u.file],
         job'.at \in {"drained", "close"} /\ ~ReplayOwed(u) => u.off = End(job.path, u.file)
  PROVE  RetireInv'
<1>1. job.path \in Paths BY DEF RetireInv
<1>2. tl'[job.path] = u BY <1>1 DEF TypeInv, TypeOK, FollowerOK
<1>3. ~mine' BY DEF RetireInv
<1>4. job'.at \notin Letting BY DEF Letting
<1>5. UNCHANGED <<live, present, size, frag>> BY DEF fsvars
<1>6. /\ u.file \in Gens /\ u.file <= live[job.path] /\ ~(present[job.path] /\ live[job.path] = u.file)
  BY DEF RetireInv
<1> QED BY <1>1, <1>2, <1>3, <1>4, <1>5, <1>6 DEF RetireInv, End

\* A delivery moves neither the read head nor the goroutine out of its file.
LEMMA RetireDelivery ==
  ASSUME TypeInv, RetireInv, UNCHANGED fsvars, mine' => job'.at = "wait",
         job'.mode = job.mode, job'.path = job.path,
         job'.at = job.at \/ (job.at \in Letting /\ job'.at \in Letting),
         \A p \in Paths : /\ SameRead(tl'[p], tl[p]) /\ (tl[p].rewind => tl'[p].rewind)
                          /\ ~tl[p].on => \A k : <<p, tl[p].file, k>> \in InHand => <<p, tl[p].file, k>> \in InHand'
  PROVE  RetireInv'
<1> SUFFICES ASSUME job.mode = "retire" PROVE RetireInv' BY DEF RetireInv
<1> DEFINE p == job.path
           t == tl[p]
           u == tl'[p]
<1>1. p \in Paths BY DEF RetireInv
<1>2. /\ u.on = t.on /\ u.file = t.file /\ u.off = t.off /\ (t.rewind => u.rewind)
      /\ ReplayOwed(t) => ReplayOwed(u)
  BY <1>1 DEF SameRead
<1>3. UNCHANGED <<live, present, size, frag>> BY DEF fsvars
<1>4. job.at \in Letting => ~t.on BY DEF RetireInv
<1>5. /\ t.file \in Gens /\ t.file <= live[p] /\ ~(present[p] /\ live[p] = t.file)
      /\ job'.at \in {"read", "publish", "drain", "drained", "close"} \cup Letting
  BY DEF RetireInv
<1>6. job'.at \in Letting => ~u.on BY <1>2, <1>4
<1>7. job'.at = "drain" /\ ~u.rewind => u.off = size[p][u.file] BY <1>2 DEF RetireInv, Letting
<1>8. job'.at \in {"drained", "close"} /\ ~ReplayOwed(u) => u.off = End(p, u.file)
  BY <1>2 DEF RetireInv, Letting
<1>9. job'.at \in Letting /\ ~ReplayOwed(u) => Covers(InHand', p, u.file, End(p, u.file))
  <2> SUFFICES ASSUME job'.at \in Letting, ~ReplayOwed(u) PROVE Covers(InHand', p, u.file, End(p, u.file))
    OBVIOUS
  <2>1. job.at \in Letting /\ ~t.on /\ ~ReplayOwed(t) BY <1>2, <1>4
  <2>2. Covers(InHand, p, t.file, End(p, t.file)) BY <2>1 DEF RetireInv
  <2>3. \A k : <<p, t.file, k>> \in InHand => <<p, t.file, k>> \in InHand' BY <1>1, <2>1
  <2> QED BY <1>2, <2>2, <2>3 DEF Covers
<1> HIDE DEF u
<1> QED BY <1>1, <1>2, <1>3, <1>5, <1>6, <1>7, <1>8, <1>9 DEF RetireInv, End, u

\* What an observer does to the flag that asks for a rewind.
LEMMA ObserversRewind ==
  ASSUME NEW t \in Tailer, t.rewind
  PROVE  /\ MarkInflight(t).rewind /\ MarkHoled(t).rewind /\ ClearHole(t).rewind
         /\ \A now \in BOOLEAN : CommitInflight(t, now).rewind
BY DEF MarkInflight, MarkHoled, ClearHole, CommitInflight, Tailer

\* What Verdict leaves of the job.
LEMMA VerdictRetire ==
  ASSUME TypeInv, RetireInv, NEW nil, NEW again, Verdict(nil, again)
  PROVE  /\ job'.mode = job.mode /\ job'.path = job.path
         /\ job'.at = job.at \/ (job.at \in Letting /\ job'.at \in Letting)
<1>1. job \in Job BY DEF TypeInv, TypeOK, FollowerOK
<1>2. CASE ~mine BY <1>2 DEF Verdict
<1>3. CASE mine
  <2>1. job.at = "wait" BY <1>3 DEF RetireInv
  <2> QED BY <1>1, <1>3, <2>1 DEF Verdict, Job, Letting
<1> QED BY <1>2, <1>3

\* Samples move between the buffer, the request and the store.
LEMMA TakeRetire ==
  ASSUME TypeInv, RetireInv, NEW F \in SUBSET queue, FlushTake(F) \/ PollFlushTake(F)
  PROVE  RetireInv'
<1>1. /\ Take(F) /\ tl' = (IF F = queue THEN BeginFlush ELSE tl)
      /\ UNCHANGED <<fsvars, slipped, skipped, refused>>
  BY DEF FlushTake, PollFlushTake
<1>2. job \in Job BY DEF TypeInv, TypeOK, FollowerOK
<1>3. /\ job'.mode = job.mode /\ job'.path = job.path /\ (mine' => job'.at = "wait")
      /\ job'.at = job.at \/ (job.at \in Letting /\ job'.at \in Letting)
  <2>1. CASE FlushTake(F) BY <2>1 DEF FlushTake
  <2>2. CASE PollFlushTake(F)
    <3>1. job.at = "flush" /\ job' = [job EXCEPT !.at = "wait", !.n = job.n + 1] BY <2>2 DEF PollFlushTake
    <3> QED BY <1>2, <3>1 DEF Job, Letting
  <2> QED BY <2>1, <2>2
<1>4. Done' = Done BY <1>1 DEF Take, Done, Accounted, Delivered, Settled
<1>5. InHand' = InHand
  <2>1. queue' \cup flying' = queue \cup flying BY <1>1 DEF Take
  <2> QED BY <1>4, <2>1 DEF InHand
<1>6. ASSUME NEW p \in Paths PROVE SameRead(tl'[p], tl[p]) /\ (tl[p].rewind => tl'[p].rewind)
  <2>1. tl[p] \in Tailer BY DEF TypeInv, TypeOK, FollowerOK
  <2>2. tl'[p] = tl[p] \/ tl'[p] = MarkInflight(tl[p]) BY <1>1 DEF BeginFlush
  <2> QED BY <2>1, <2>2, ObserversRead, ObserversRewind DEF SameRead
<1> QED BY <1>1, <1>3, <1>5, <1>6, RetireDelivery

LEMMA SettleRetire ==
  ASSUME TypeInv, RetireInv,
         \/ HoldExpires \/ PollFlushNil \/ \E S \in SUBSET flying : StoreCommit(S)
         \/ \E h \in BOOLEAN : FlushRequeued(h) \/ \E own \in BOOLEAN : MetaRefused(own, h)
  PROVE  RetireInv'
<1>1. /\ UNCHANGED <<fsvars, tl, slipped, skipped, refused>> /\ stored \subseteq stored'
      /\ queue' \cup flying' = queue \cup flying
  <2>1. CASE \E h \in BOOLEAN : FlushRequeued(h) BY <2>1 DEF FlushRequeued, Requeue
  <2>2. CASE \E h, own \in BOOLEAN : MetaRefused(own, h) BY <2>2 DEF MetaRefused, StartHold, dvars
  <2>3. CASE HoldExpires \/ PollFlushNil \/ \E S \in SUBSET flying : StoreCommit(S)
    BY <2>3 DEF HoldExpires, Release, PollFlushNil, StoreCommit, Commit, dvars
  <2> QED BY <2>1, <2>2, <2>3
<1>2. InHand \subseteq InHand'
  <2>1. Done \subseteq Done' BY <1>1, DoneGrows
  <2> QED BY <1>1, <2>1 DEF InHand
<1>3. job \in Job BY DEF TypeInv, TypeOK, FollowerOK
<1>4. /\ job'.mode = job.mode /\ job'.path = job.path /\ (mine' => job'.at = "wait")
      /\ job'.at = job.at \/ (job.at \in Letting /\ job'.at \in Letting)
  <2>1. CASE HoldExpires \/ \E S \in SUBSET flying : StoreCommit(S)
    BY <2>1 DEF HoldExpires, StoreCommit, RetireInv
  <2>2. CASE PollFlushNil
    <3>1. job.at = "flush" /\ job' = [job EXCEPT !.at = "flushed", !.ok = TRUE] /\ mine' = mine
      BY <2>2 DEF PollFlushNil
    <3>2. ~mine BY <3>1 DEF RetireInv
    <3> QED BY <1>3, <3>1, <3>2 DEF Job, Letting
  <2>3. ASSUME NEW h \in BOOLEAN, FlushRequeued(h)
        PROVE  /\ job'.mode = job.mode /\ job'.path = job.path /\ (mine' => job'.at = "wait")
               /\ job'.at = job.at \/ (job.at \in Letting /\ job'.at \in Letting)
    <3>1. Verdict(FALSE, FALSE) /\ ~mine' BY <2>3 DEF FlushRequeued
    <3> QED BY <3>1, VerdictRetire
  <2>4. ASSUME NEW h \in BOOLEAN, NEW own \in BOOLEAN, MetaRefused(own, h)
        PROVE  /\ job'.mode = job.mode /\ job'.path = job.path /\ (mine' => job'.at = "wait")
               /\ job'.at = job.at \/ (job.at \in Letting /\ job'.at \in Letting)
    <3>1. mine' = mine /\ (own => job.at = "flush")
          /\ job' = IF own THEN [job EXCEPT !.at = "flushed", !.ok = FALSE] ELSE job
      BY <2>4 DEF MetaRefused
    <3>2. CASE own
      <4>1. job' = [job EXCEPT !.at = "flushed", !.ok = FALSE] /\ job.at = "flush" BY <3>1, <3>2
      <4>2. ~mine BY <4>1 DEF RetireInv
      <4> QED BY <1>3, <3>1, <4>1, <4>2 DEF Job, Letting
    <3>3. CASE ~own BY <3>1, <3>3 DEF RetireInv
    <3> QED BY <3>2, <3>3
  <2> QED BY <2>1, <2>2, <2>3, <2>4
<1>5. \A p \in Paths : SameRead(tl'[p], tl[p]) /\ (tl[p].rewind => tl'[p].rewind)
  BY <1>1 DEF SameRead
<1> QED BY <1>1, <1>2, <1>4, <1>5, RetireDelivery

LEMMA AcceptedRetire ==
  ASSUME TypeInv, RetireInv, NEW due \in SUBSET Paths, FlushAccepted(due)
  PROVE  RetireInv'
<1>1. /\ UNCHANGED <<fsvars, slipped, skipped, refused, stored, queue>> /\ flying' = {}
      /\ flying \subseteq Settled
      /\ Verdict(TRUE, ~whole) /\ ~mine'
  BY DEF FlushAccepted, Accept
<1>2. Done' = Done BY <1>1 DEF Done, Accounted, Delivered, Settled
<1>3. InHand \subseteq InHand'
  <2>1. \A s \in flying : s \subseteq Done BY <1>1, SettledDone DEF TypeInv, TypeOK, SinkOK
  <2>2. \A s \in queue \cup flying : s \in queue' \cup flying' \/ s \subseteq Done' BY <1>1, <1>2, <2>1
  <2> QED BY <1>2, <2>2, HandGrows
<1>4. /\ job'.mode = job.mode /\ job'.path = job.path
      /\ job'.at = job.at \/ (job.at \in Letting /\ job'.at \in Letting)
  BY <1>1, VerdictRetire
<1>5. ASSUME NEW p \in Paths PROVE SameRead(tl'[p], tl[p]) /\ (tl[p].rewind => tl'[p].rewind)
  <2> DEFINE t == tl[p]
             now == p \in due
  <2>1. t \in Tailer /\ now \in BOOLEAN BY DEF TypeInv, TypeOK, FollowerOK
  <2>2. tl'[p] = t \/ tl'[p] = Committed(t, now)
    <3>1. CASE ~whole BY <3>1 DEF FlushAccepted
    <3>2. CASE whole BY <3>2, Zenon DEF FlushAccepted
    <3> QED BY <3>1, <3>2
  <2>3. Committed(t, now) \in {t, ClearHole(t), CommitInflight(t, now)}
    <3>1. CASE ~t.on BY <3>1 DEF Committed
    <3>2. CASE t.on /\ t.holed BY <3>2 DEF Committed
    <3>3. CASE t.on /\ ~t.holed /\ HasInflight(t) BY <3>3 DEF Committed
    <3>4. CASE t.on /\ ~t.holed /\ ~HasInflight(t) BY <3>4 DEF Committed
    <3> QED BY <3>1, <3>2, <3>3, <3>4
  <2> HIDE DEF t, now
  <2>4. SameRead(tl'[p], t) BY <2>1, <2>2, <2>3, ObserversRead DEF SameRead
  <2>5. t.rewind => tl'[p].rewind BY <2>1, <2>2, <2>3, ObserversRewind
  <2> QED BY <2>4, <2>5 DEF t
<1> QED BY <1>1, <1>3, <1>4, <1>5, RetireDelivery

\* A batch that is abandoned slips the records of a file that has been let go.
LEMMA DroppedRetire ==
  ASSUME TypeInv, RetireInv, NEW gave \in BOOLEAN, FlushDropped(gave)
  PROVE  RetireInv'
<1>1. /\ UNCHANGED <<fsvars, skipped, refused, stored, queue>> /\ flying' = {}
      /\ tl' = Frozen /\ slipped' = slipped \cup Unprotected
      /\ Verdict(~gave, FALSE) /\ ~mine'
  BY DEF FlushDropped, Drop
<1>2. Done \subseteq Done' BY <1>1, DoneGrows
<1>3. Unprotected \subseteq Done'
  <2>1. Unprotected \subseteq Records BY FollowAssumption DEF Unprotected, TypeInv, TypeOK, SinkOK
  <2> QED BY <1>1, <2>1 DEF Done, Accounted
<1>4. /\ job'.mode = job.mode /\ job'.path = job.path
      /\ job'.at = job.at \/ (job.at \in Letting /\ job'.at \in Letting)
  BY <1>1, VerdictRetire
<1>5. ASSUME NEW p \in Paths
      PROVE  /\ SameRead(tl'[p], tl[p]) /\ (tl[p].rewind => tl'[p].rewind)
             /\ ~tl[p].on => \A k : <<p, tl[p].file, k>> \in InHand => <<p, tl[p].file, k>> \in InHand'
  <2> DEFINE t == tl[p]
             b == IF whole THEN t ELSE BeginFlush[p]
             u == tl'[p]
  <2>1. t \in Tailer BY DEF TypeInv, TypeOK, FollowerOK
  <2>2. b \in Tailer /\ SameRead(b, t) /\ (t.rewind => b.rewind)
    <3>1. b = t \/ b = MarkInflight(t) BY DEF BeginFlush
    <3>2. MarkInflight(t) \in Tailer BY <2>1, TailerTypes, FollowAssumption
    <3> QED BY <2>1, <3>1, <3>2, ObserversRead, ObserversRewind DEF SameRead
  <2>3. u = IF b.on THEN MarkHoled(b) ELSE b BY <1>1 DEF Frozen
  <2> HIDE DEF b
  <2>4. SameRead(u, b) /\ (b.rewind => u.rewind)
    BY <2>2, <2>3, ObserversRead, ObserversRewind DEF SameRead
  <2>5. SameRead(u, t) /\ (t.rewind => u.rewind) BY <2>2, <2>4 DEF SameRead
  <2>6. ASSUME ~t.on, NEW k, <<p, t.file, k>> \in InHand PROVE <<p, t.file, k>> \in InHand'
    <3> DEFINE r == <<p, t.file, k>>
    <3>1. CASE r \in Done BY <1>2, <3>1 DEF InHand
    <3>2. CASE r \in UNION queue BY <1>1, <3>2 DEF InHand
    <3>3. CASE r \in UNION flying
      <4>1. r[1] = p /\ Frozen[p] = u /\ ~u.on BY <1>1, <2>5, <2>6 DEF SameRead
      <4>2. r \in Unprotected BY <3>3, <4>1 DEF Unprotected
      <4> QED BY <1>3, <4>2 DEF InHand
    <3> QED BY <2>6, <3>1, <3>2, <3>3 DEF InHand
  <2> QED BY <2>5, <2>6
<1> QED BY <1>1, <1>4, <1>5, RetireDelivery

\* The owners of the files only touch what a path shows now.
LEMMA OwnersRetire ==
  ASSUME TypeInv, AckInv, RetireInv, Owners, "rewrite" \notin Moves
  PROVE  RetireInv'
<1>1. PICK q \in Paths :
        \/ AppendRecord(q) \/ AppendFragment(q) \/ Create(q)
        \/ \E found \in BOOLEAN : Rotate(q, found) \/ Remove(q, found)
        \/ \E n \in 0 .. MaxPos : Rewrite(q, n)
  BY DEF Owners
<1>2. UNCHANGED <<tl, job, mine, queue, flying, stored, skipped, slipped, refused>>
  BY <1>1 DEF AppendRecord, AppendFragment, Create, Rotate, Remove, Rewrite, others, dvars
<1>3. InHand' = InHand BY <1>2 DEF InHand, Done, Accounted, Delivered, Settled
<1> SUFFICES ASSUME job.mode = "retire" PROVE RetireInv' BY <1>2 DEF RetireInv
<1> DEFINE p == job.path
           g == tl[p].file
<1>4. /\ p \in Paths /\ g \in Gens /\ g <= live[p] /\ ~(present[p] /\ live[p] = g)
  BY DEF RetireInv
<1>5. /\ live \in [Paths -> 0 .. MaxGen] /\ present \in [Paths -> BOOLEAN]
      /\ size \in [Paths -> [Gens -> 0 .. MaxPos]] /\ frag \in [Paths -> [Gens -> BOOLEAN]]
      /\ g \in Nat /\ live[p] \in Nat
  <2>1. /\ live \in [Paths -> 0 .. MaxGen] /\ present \in [Paths -> BOOLEAN]
        /\ size \in [Paths -> [Gens -> 0 .. MaxPos]] /\ frag \in [Paths -> [Gens -> BOOLEAN]]
    BY DEF TypeInv, TypeOK, DirOK
  <2> HIDE DEF p, g
  <2>2. MaxGen \in Nat BY FollowAssumption
  <2>3. g \in Nat /\ live[p] \in Nat BY <1>4, <2>1, <2>2 DEF Gens
  <2> QED BY <2>1, <2>3
<1>6. /\ g <= live'[p] /\ ~(present'[p] /\ live'[p] = g)
      /\ size'[p][g] = size[p][g] /\ frag'[p][g] = frag[p][g]
  <2> HIDE DEF p, g
  <2>1. CASE AppendRecord(q) BY <1>4, <1>5, <2>1 DEF AppendRecord
  <2>2. CASE AppendFragment(q) BY <1>4, <1>5, <2>2 DEF AppendFragment
  <2>3. CASE Create(q) BY <1>4, <1>5, <2>3 DEF Create
  <2>4. CASE \E found \in BOOLEAN : Rotate(q, found) BY <1>4, <1>5, <2>4 DEF Rotate
  <2>5. CASE \E found \in BOOLEAN : Remove(q, found) BY <1>4, <1>5, <2>5 DEF Remove
  <2> QED BY <1>1, <2>1, <2>2, <2>3, <2>4, <2>5 DEF Rewrite
<1>7. End(p, g)' = End(p, g) BY <1>2, <1>6 DEF End
<1> QED BY <1>2, <1>3, <1>4, <1>6, <1>7 DEF RetireInv, Covers, ReplayOwed

\* A process that stops has nothing to retire.
LEMMA DownRetire ==
  ASSUME Crash \/ ShutdownSave
  PROVE  RetireInv'
<1>1. mine' = FALSE /\ job' = [Idle EXCEPT !.at = "down"] BY DEF Crash, ShutdownSave, Down
<1>2. job'.mode # "retire" BY <1>1 DEF Idle
<1> QED BY <1>1, <1>2 DEF RetireInv

\* The steps of the poll goroutine that are not about a file to retire.
LEMMA QuietRetire ==
  ASSUME TypeInv, RetireInv,
         \/ \E p \in Paths : \/ Ensure(p) \/ Unmatched(p) \/ Reloaded(p) \/ FlushIdle(p)
                             \/ CloseOne(p) \/ Recover(p)
         \/ \E due \in SUBSET Paths : PersistOwed(due)
         \/ RestartRead \/ CloseKeeping \/ RetireSave \/ Shutdown \/ FinalFlush
         \/ Start \/ RecoverSave \/ Recovered
  PROVE  RetireInv'
<1>1. job \in Job BY DEF TypeInv, TypeOK, FollowerOK
<1>2. Idle.mode = "" BY DEF Idle
<1>3. job.at \in {"idle", "persist", "closing", "recover", "down"} => job.mode # "retire"
  BY DEF RetireInv, Letting
<1>4. mine' = mine /\ job.at # "wait"
  BY DEF Ensure, Unmatched, Reloaded, FlushIdle, CloseOne, Recover, PersistOwed, RestartRead,
         CloseKeeping, RetireSave, Shutdown, FinalFlush, Start, RecoverSave, Recovered
<1>5. job'.mode # "retire"
  <2>1. CASE \E p \in Paths : Ensure(p) BY <1>3, <2>1 DEF Ensure
  <2>2. CASE \E p \in Paths : Unmatched(p) \/ Reloaded(p) \/ FlushIdle(p)
    BY <2>2 DEF Unmatched, Reloaded, FlushIdle, Begin, Idle
  <2>3. CASE \E p \in Paths : CloseOne(p) BY <1>1, <1>3, <2>3 DEF CloseOne, Job
  <2>4. CASE \E p \in Paths : Recover(p) BY <1>1, <1>3, <2>4 DEF Recover, Job
  <2>5. CASE (\E due \in SUBSET Paths : PersistOwed(due)) \/ CloseKeeping \/ Recovered
    BY <1>2, <2>5 DEF PersistOwed, CloseKeeping, Recovered
  <2>6. CASE RestartRead BY <2>6 DEF RestartRead, Begin, Idle
  <2>7. CASE RetireSave \/ Shutdown \/ Start BY <2>7 DEF RetireSave, Shutdown, Start, Idle
  <2>8. CASE FinalFlush BY <1>1, <1>3, <2>8 DEF FinalFlush, At, Job
  <2>9. CASE RecoverSave BY <1>1, <2>9 DEF RecoverSave, Job
  <2> QED BY <2>1, <2>2, <2>3, <2>4, <2>5, <2>6, <2>7, <2>8, <2>9
<1> QED BY <1>4, <1>5, RetireElse

\* checkRotation finds that the path shows another file, or none.
LEMMA SweepRetire ==
  ASSUME TypeInv, AckInv, RetireInv, NEW p \in Paths, Sweep(p)
  PROVE  RetireInv'
<1> DEFINE t == Rewound(tl[p])
           u == tl'[p]
<1>1. tl[p] \in Tailer /\ tl \in [Paths -> Tailer] BY DEF TypeInv, TypeOK, FollowerOK
<1>2. mine' = mine /\ UNCHANGED fsvars /\ job.at = "idle" /\ tl[p].on BY DEF Sweep
<1>4. CASE job'.mode # "retire" BY <1>2, <1>4, RetireElse
<1>5. CASE job'.mode = "retire"
  <2>1. /\ tl' = [tl EXCEPT ![p] = WidenFingerprint(t)] /\ job' = Begin("read", p, "retire")
        /\ ~present[p] \/ (present[p] /\ live[p] # t.file)
    BY <1>5 DEF Sweep, Begin, Idle
  <2>2. job'.at = "read" /\ job'.path = p BY <2>1 DEF Begin, Idle
  <2>3. t \in Tailer /\ t.file = tl[p].file
    <3>1. t \in Tailer BY <1>1, TailerTypes, FollowAssumption
    <3>2. SameHandle(t, tl[p]) BY <1>1, TailerHandle
    <3> QED BY <3>1, <3>2 DEF SameHandle
  <2> HIDE DEF t
  <2>4. u = WidenFingerprint(t) /\ u.file = tl[p].file
    BY <1>1, <2>1, <2>3 DEF WidenFingerprint, SetFingerprint, Tailer
  <2>5. tl[p].file \in Gens /\ tl[p].file <= live[p]
    BY <1>1, <1>2, FollowAssumption DEF AckInv, TypeInv, FileOK, Gens, Tailer
  <2>6. UNCHANGED <<live, present, size, frag>> BY <1>2 DEF fsvars
  <2>7. ~mine' BY <1>2 DEF RetireInv
  <2> HIDE DEF u
  <2> QED BY <2>1, <2>2, <2>3, <2>4, <2>5, <2>6, <2>7 DEF RetireInv, Letting, u
<1> QED BY <1>4, <1>5

\* What reading and draining leave of the file a tailer reads.
LEMMA ProcessedHandle ==
  ASSUME NEW p, NEW t \in Tailer, NEW k
  PROVE  /\ Processed(p, t, k).file = t.file /\ Processed(p, t, k).off = t.off
         /\ Processed(p, t, k).holed = t.holed /\ Processed(p, t, k).rewind = t.rewind
<1>1. CASE Shape[<<p, t.file, k>>] = "join" BY <1>1 DEF Processed, Tailer
<1>2. CASE Shape[<<p, t.file, k>>] = "roll" BY <1>2 DEF Processed, Tailer
<1>3. CASE Shape[<<p, t.file, k>>] \notin {"join", "roll"} BY <1>3 DEF Processed
<1> QED BY <1>1, <1>2, <1>3

LEMMA PublishJob ==
  ASSUME NEW failed \in BOOLEAN, Publish(failed)
  PROVE  /\ job' \in {At("read"), At("drain"), Idle}
         /\ job.mode # "keep" => job' \in {At("read"), Idle}
<1>1. job' = IF ~failed THEN At("read")
             ELSE IF job.mode = "keep" THEN At("drain") ELSE Idle
  BY DEF Publish
<1>2. CASE failed
  <2>1. job' = IF job.mode = "keep" THEN At("drain") ELSE Idle BY <1>1, <1>2, Zenon
  <2> QED BY <2>1, Zenon
<1>3. CASE ~failed
  <2>1. job' = At("read") BY <1>1, <1>3, Zenon
  <2> QED BY <2>1, Zenon
<1> QED BY <1>2, <1>3

LEMMA ReadingRetire ==
  ASSUME TypeInv, RetireInv,
         ReadRecord \/ ReadDone \/ DrainPublish \/ \E failed \in BOOLEAN : Publish(failed)
  PROVE  RetireInv'
<1> DEFINE p == job.path
           t == tl[p]
<1>1. job \in Job /\ tl \in [Paths -> Tailer] BY DEF TypeInv, TypeOK, FollowerOK
<1>2. mine' = mine /\ UNCHANGED fsvars /\ job.at \in {"read", "publish", "drained"}
  BY DEF ReadRecord, Publish, ReadDone, DrainPublish
<1>3. Idle.mode # "retire" BY DEF Idle
<1>4. CASE job'.mode # "retire" BY <1>2, <1>4, RetireElse
<1>5. CASE job'.mode = "retire"
  <2>1. \/ job' \in {At("read"), At("persist"), At("drain"), At("close")}
        \/ \E b \in BOOLEAN : job' = [job EXCEPT !.at = "publish", !.ok = b]
    <3>1. CASE ReadRecord BY <3>1 DEF ReadRecord
    <3>2. CASE ReadDone BY <3>2 DEF ReadDone
    <3>3. CASE DrainPublish
      <4>1. CASE job.mode = "idle" BY <1>5, <3>3, <4>1 DEF DrainPublish, Idle
      <4>2. CASE job.mode = "stop" BY <1>1, <1>5, <3>3, <4>2 DEF DrainPublish, Job
      <4>3. CASE job.mode \notin {"idle", "stop"} BY <3>3, <4>3 DEF DrainPublish
      <4> QED BY <4>1, <4>2, <4>3
    <3>4. CASE \E failed \in BOOLEAN : Publish(failed)
      <4>1. job' \in {At("read"), At("drain"), Idle} BY <3>4, PublishJob
      <4>2. job' # Idle BY <1>5, <1>3
      <4> QED BY <4>1, <4>2
    <3> QED BY <3>1, <3>2, <3>3, <3>4
  <2>2. job'.mode = job.mode /\ job'.path = job.path BY <1>1, <2>1 DEF At, Job
  <2>3. job.mode = "retire" BY <1>5, <2>2
  <2>4. p \in Paths /\ t \in Tailer BY <1>1, <2>3 DEF RetireInv
  <2>5. CASE ReadRecord
    <3>1. /\ tl' = [tl EXCEPT ![p] = Processed(p, t, t.off + 1)] /\ job'.at = "publish"
      BY <1>1, <2>5 DEF ReadRecord, At, Job
    <3>2. Processed(p, t, t.off + 1).file = t.file BY <2>4, ProcessedHandle
    <3> HIDE DEF p, t
    <3> DEFINE u == Processed(p, t, t.off + 1)
    <3> HIDE DEF u
    <3> QED BY <1>2, <2>2, <2>3, <3>1, <3>2, RetireInside DEF p, t, u
  <2>6. CASE \E failed \in BOOLEAN : Publish(failed)
    <3> DEFINE u == SyncPending([t EXCEPT !.off = t.off + 1])
    <3>1. tl' = [tl EXCEPT ![p] = u] BY <2>6 DEF Publish
    <3>2. job'.at = "read"
      <4>1. job' # Idle BY <1>5, <1>3
      <4>2. job.mode # "keep" BY <2>3
      <4>3. job' = At("read") BY <2>6, <4>1, <4>2, PublishJob
      <4> QED BY <1>1, <4>3 DEF At, Job
    <3>3. u.file = t.file BY <2>4 DEF SyncPending, SetPending, Tailer
    <3> HIDE DEF u
    <3> QED BY <1>2, <2>2, <2>3, <3>1, <3>2, <3>3, RetireInside
  <2>7. CASE ReadDone
    <3> DEFINE u == IF t.rewind THEN t ELSE WidenFingerprint(t)
    <3>1. tl' = [tl EXCEPT ![p] = u] BY <1>1, <2>4, <2>7 DEF ReadDone
    <3>2. job'.at = "drain" BY <1>1, <2>3, <2>7 DEF ReadDone, At, Job
    <3>3. u.file = t.file /\ u.off = t.off /\ u.rewind = t.rewind
      BY <2>4 DEF WidenFingerprint, SetFingerprint, Tailer
    <3>4. t.rewind \/ t.off = size[p][t.file] BY <2>7 DEF ReadDone
    <3> HIDE DEF u
    <3> QED BY <1>2, <2>2, <2>3, <3>1, <3>2, <3>3, <3>4, RetireInside
  <2>8. CASE DrainPublish
    <3> DEFINE u == SyncPending(t)
    <3>1. tl' = [tl EXCEPT ![p] = u] BY <2>8 DEF DrainPublish
    <3>2. job.at = "drained" /\ job'.at = "close" BY <1>1, <2>3, <2>8 DEF DrainPublish, At, Job
    <3>3. u.file = t.file /\ u.off = t.off /\ u.rewind = t.rewind /\ u.holed = t.holed
      BY <2>4 DEF SyncPending, SetPending, Tailer
    <3>4. ~ReplayOwed(t) => t.off = End(p, t.file) BY <2>3, <3>2 DEF RetireInv
    <3>5. ReplayOwed(u) = ReplayOwed(t) BY <3>3 DEF ReplayOwed
    <3> HIDE DEF u
    <3> QED BY <1>2, <2>2, <2>3, <3>1, <3>2, <3>3, <3>4, <3>5, RetireInside
  <2> QED BY <2>5, <2>6, <2>7, <2>8
<1> QED BY <1>4, <1>5

\* drainFinalRecord: the record without its newline is the last one.
LEMMA DrainRetire ==
  ASSUME TypeInv, RetireInv, Drain
  PROVE  RetireInv'
<1> DEFINE p == job.path
           t == tl[p]
           final == HasFinal(p, t)
           last == IF final THEN [Processed(p, t, t.off + 1) EXCEPT !.off = @ + 1] ELSE t
           u == Emptied(last)
<1>1. job \in Job /\ tl \in [Paths -> Tailer] BY DEF TypeInv, TypeOK, FollowerOK
<1>2. mine' = mine /\ UNCHANGED fsvars /\ job.at = "drain" BY DEF Drain
<1>3. job' \in {At("close"), At("drained")} BY DEF Drain
<1>4. job'.mode = job.mode /\ job'.path = job.path BY <1>1, <1>3 DEF At, Job
<1>5. CASE job.mode # "retire" BY <1>2, <1>4, <1>5, RetireElse
<1>6. CASE job.mode = "retire"
  <2>1. p \in Paths /\ t \in Tailer /\ (~t.rewind => t.off = size[p][t.file])
    BY <1>1, <1>2, <1>6 DEF RetireInv
  <2>2. tl' = [tl EXCEPT ![p] = u] BY <1>6 DEF Drain
  <2>3. job'.at = "drained" BY <1>1, <1>6 DEF Drain, At, Job
  <2>4. /\ u.file = t.file /\ u.holed = t.holed /\ u.rewind = t.rewind
        /\ u.off = IF final THEN t.off + 1 ELSE t.off
    <3> DEFINE w == Processed(p, t, t.off + 1)
    <3>1. w.file = t.file /\ w.off = t.off /\ w.holed = t.holed /\ w.rewind = t.rewind
      BY <2>1, ProcessedHandle
    <3>2. CASE ~final BY <2>1, <3>2 DEF Emptied, Tailer
    <3>3. CASE final
      <4>1. t.off \in Nat /\ t.file \in Gens /\ t.file # 0
        BY <1>6, <2>1, FollowAssumption DEF RetireInv, Gens, Tailer
      <4>2. size[p][t.file] < MaxPos /\ t.off = size[p][t.file]
        BY <2>1, <3>3, <4>1 DEF HasFinal, TypeInv, FileOK
      <4>3. t.off + 1 \in 1 .. MaxPos BY <4>1, <4>2, FollowAssumption
      <4>4. w \in Tailer BY <2>1, <4>1, <4>3, EmitsType
      <4>5. last = [w EXCEPT !.off = w.off + 1] BY <3>3
      <4> HIDE DEF w, last
      <4> QED BY <3>1, <3>3, <4>4, <4>5 DEF Emptied, Tailer
    <3> QED BY <3>2, <3>3
  <2>5. ~ReplayOwed(u) => u.off = End(p, u.file)
    <3> SUFFICES ASSUME ~ReplayOwed(u) PROVE u.off = End(p, u.file) OBVIOUS
    <3>1. t.off = size[p][t.file] BY <2>1, <2>4 DEF ReplayOwed
    <3>2. final <=> frag[p][t.file] BY <3>1 DEF HasFinal
    <3>3. size[p][t.file] \in Nat BY <2>1, <3>1 DEF Tailer
    <3> HIDE DEF u, final
    <3> QED BY <2>4, <3>1, <3>2, <3>3 DEF End
  <2> HIDE DEF u
  <2> QED BY <1>2, <1>4, <1>6, <2>2, <2>3, <2>4, <2>5, RetireInside
<1> QED BY <1>5, <1>6

\* closeTailer(rewind = TRUE): what was drained at the end of the file is all of it.
LEMMA CloseRetire ==
  ASSUME TypeInv, AckInv, RetireInv, CloseRewinding
  PROVE  RetireInv'
<1> DEFINE p == job.path
           t == tl[p]
           u == tl'[p]
<1>1. /\ job.at = "close" /\ job.mode = "retire" /\ job' = Begin("flush", p, "retire")
      /\ UNCHANGED <<dvars, fsvars, mine, slipped, skipped, refused>>
      /\ tl' = [tl EXCEPT ![p].on = FALSE, ![p].owed = FALSE]
  BY DEF CloseRewinding
<1>2. p \in Paths /\ t \in Tailer /\ t.on /\ tl \in [Paths -> Tailer]
  BY <1>1 DEF TypeInv, TypeOK, FollowerOK, JobOK
<1>3. job'.at = "flush" /\ job'.path = p /\ job'.mode = "retire" BY <1>1 DEF Begin, Idle
<1>4. /\ ~u.on /\ u.file = t.file /\ u.holed = t.holed /\ u.rewind = t.rewind
  BY <1>1, <1>2 DEF Tailer
<1>5. UNCHANGED <<live, present, size, frag>> /\ InHand' = InHand
  BY <1>1 DEF fsvars, dvars, InHand, Done, Accounted, Delivered, Settled
<1>6. ~ReplayOwed(t) => Covers(InHand, p, t.file, End(p, t.file))
  <2> SUFFICES ASSUME ~ReplayOwed(t) PROVE Covers(InHand, p, t.file, End(p, t.file)) OBVIOUS
  <2>1. t.off = End(p, t.file) BY <1>1 DEF RetireInv
  <2>2. t.win = {} BY <1>1 DEF AckInv, PublishInv
  <2>3. TailerInv(p, t, Done, InHand) BY <1>2 DEF AckInv
  <2> HIDE DEF t, p
  <2> QED BY <1>2, <2>1, <2>2, <2>3 DEF TailerInv, Covers
<1>7. t.file \in Gens /\ t.file <= live[p] /\ ~(present[p] /\ live[p] = t.file) /\ ~mine'
  BY <1>1 DEF RetireInv
<1>8. ReplayOwed(u) = ReplayOwed(t) BY <1>4 DEF ReplayOwed
<1>9. ~ReplayOwed(u) => Covers(InHand', p, u.file, size'[p][u.file] + (IF frag'[p][u.file] THEN 1 ELSE 0))
  BY <1>4, <1>5, <1>6, <1>8 DEF End
<1>10. tl'[job'.path] = u /\ job'.path = p BY <1>3
<1> HIDE DEF u, p, t
<1> QED BY <1>2, <1>3, <1>4, <1>5, <1>7, <1>9, <1>10 DEF RetireInv, Letting, End

LEMMA RetireInit == Init => RetireInv
<1>1. Idle.mode # "retire" BY DEF Idle
<1>2. Init => job = Idle /\ ~mine BY DEF Init
<1> QED BY <1>1, <1>2 DEF RetireInv

LEMMA RetireStep ==
  ASSUME TypeInv, AckInv, RetireInv, [Next]_vars, "rewrite" \notin Moves
  PROVE  RetireInv'
<1>1. CASE Delivering
  BY <1>1, TakeRetire, SettleRetire, AcceptedRetire, DroppedRetire DEF Delivering
<1>2. CASE Owners BY <1>2, OwnersRetire
<1>3. CASE Crash BY <1>3, DownRetire
<1>5. CASE Cancel \/ UNCHANGED vars
  <2>1. UNCHANGED <<fsvars, dvars, tl, job, mine, slipped, skipped, refused>>
    BY <1>5 DEF vars, Cancel
  <2>2. InHand' = InHand
    BY <2>1 DEF dvars, InHand, Done, Accounted, Delivered, Settled
  <2> QED BY <2>1, <2>2 DEF fsvars, RetireInv, End, Covers, ReplayOwed
<1>4. CASE Polling
  BY <1>4, <1>5, QuietRetire, SweepRetire, ReadingRetire, DrainRetire, CloseRetire, DownRetire
  DEF Polling
<1> QED BY <1>1, <1>2, <1>3, <1>4, <1>5 DEF Next

\* Only an abandoned batch makes a tailer owe a replay.
Sound == \A p \in Paths : ~ReplayOwed(tl[p])

LEMMA SoundMethods ==
  ASSUME NEW t \in Tailer, ~ReplayOwed(t)
  PROVE  /\ ~ReplayOwed(MarkInflight(t)) /\ Rewound(t) = t
         /\ ~ReplayOwed(WidenFingerprint(t)) /\ ~ReplayOwed(SyncPending(t)) /\ ~ReplayOwed(Emptied(t))
         /\ \A now \in BOOLEAN : ~ReplayOwed(Committed(t, now))
         /\ \A n : ~ReplayOwed(Reset(t, n)) /\ \A g, m : ~ReplayOwed(SetFingerprint(t, g, n))
<1> USE DEF ReplayOwed, Tailer
<1>1. ~ReplayOwed(MarkInflight(t)) BY DEF MarkInflight
<1>2. Rewound(t) = t BY DEF Rewound
<1>3. ~ReplayOwed(WidenFingerprint(t)) BY DEF WidenFingerprint, SetFingerprint
<1>4. ~ReplayOwed(SyncPending(t)) BY DEF SyncPending, SetPending
<1>5. ~ReplayOwed(Emptied(t)) BY DEF Emptied
<1>6. ASSUME NEW now \in BOOLEAN PROVE ~ReplayOwed(Committed(t, now))
  <2>1. CASE ~t.on BY <2>1 DEF Committed
  <2>2. CASE t.on /\ ~t.holed /\ HasInflight(t) BY <2>2 DEF Committed, CommitInflight
  <2>3. CASE t.on /\ ~t.holed /\ ~HasInflight(t) BY <2>3 DEF Committed
  <2> QED BY <2>1, <2>2, <2>3
<1>7. \A n : ~ReplayOwed(Reset(t, n)) BY DEF Reset
<1>8. \A n, g : ~ReplayOwed(SetFingerprint(t, g, n)) BY DEF SetFingerprint
<1> QED BY <1>1, <1>2, <1>3, <1>4, <1>5, <1>6, <1>7, <1>8

LEMMA SoundOne ==
  ASSUME TypeInv, Sound, NEW p, NEW u, tl' = [tl EXCEPT ![p] = u], p \in Paths => ~ReplayOwed(u)
  PROVE  Sound'
<1>1. tl \in [Paths -> Tailer] BY DEF TypeInv, TypeOK, FollowerOK
<1>2. \A q \in Paths : tl'[q] = tl[q] \/ (q = p /\ tl'[q] = u) BY <1>1
<1> QED BY <1>2 DEF Sound, ReplayOwed

LEMMA SoundDelivering ==
  ASSUME TypeInv, Sound, Delivering, "fatal" \notin Failures
  PROVE  Sound'
<1>1. \A p \in Paths : tl[p] \in Tailer /\ ~ReplayOwed(tl[p])
  BY DEF TypeInv, TypeOK, FollowerOK, Sound
<1>2. CASE UNCHANGED tl BY <1>2 DEF Sound, ReplayOwed
<1>3. CASE tl' = BeginFlush
  <2>1. \A p \in Paths : tl'[p] = tl[p] \/ tl'[p] = MarkInflight(tl[p]) BY <1>3 DEF BeginFlush
  <2> QED BY <1>1, <2>1, SoundMethods DEF Sound, ReplayOwed
<1>4. ASSUME NEW due \in SUBSET Paths, FlushAccepted(due), whole PROVE Sound'
  <2>1. \A p \in Paths : tl'[p] = Committed(tl[p], p \in due) BY <1>4, Zenon DEF FlushAccepted
  <2>2. ASSUME NEW p \in Paths PROVE ~ReplayOwed(tl'[p])
    <3> DEFINE now == p \in due
    <3>1. now \in BOOLEAN OBVIOUS
    <3>2. tl'[p] = Committed(tl[p], now) BY <2>1
    <3> HIDE DEF now
    <3> QED BY <1>1, <3>1, <3>2, SoundMethods
  <2> QED BY <2>2 DEF Sound, ReplayOwed
<1> QED BY <1>2, <1>3, <1>4
  DEF Delivering, FlushTake, PollFlushTake, PollFlushNil, StoreCommit, FlushAccepted,
      FlushRequeued, FlushDropped, MetaRefused, HoldExpires

LEMMA SoundPolling ==
  ASSUME TypeInv, Sound, Polling
  PROVE  Sound'
<1>1. \A p \in Paths : tl[p] \in Tailer /\ ~ReplayOwed(tl[p])
  BY DEF TypeInv, TypeOK, FollowerOK, Sound
<1>2. CASE UNCHANGED tl BY <1>2 DEF Sound, ReplayOwed
<1>3. ASSUME NEW p \in Paths, Ensure(p) PROVE Sound'
  <2> DEFINE n == ResumeAt(p)
             u == Opened(live[p], disk[p], n)
  <2>1. tl' = [tl EXCEPT ![p] = u] BY <1>3 DEF Ensure
  <2>2. disk[p].acked \in Nat /\ disk[p].tail \in Tail /\ live[p] \in 0 .. MaxGen
    BY DEF TypeInv, TypeOK, DirOK, FollowerOK, Record
  <2>3. NoTailer \in Tailer BY RestingTypes
  <2> HIDE DEF n
  <2>4. ~u.holed /\ ~u.rewind
    BY <2>2, <2>3 DEF Opened, SetFingerprint, Reset, Tailer, NoTailer
  <2> HIDE DEF u
  <2> QED BY <2>1, <2>4, SoundOne DEF ReplayOwed
<1>4. ASSUME NEW p \in Paths, Sweep(p) PROVE Sound'
  <2>1. Rewound(tl[p]) = tl[p] BY <1>1, SoundMethods
  <2>2. tl' = [tl EXCEPT ![p] = tl[p]] \/ tl' = [tl EXCEPT ![p] = WidenFingerprint(tl[p])]
    BY <1>4, <2>1 DEF Sweep
  <2> QED BY <1>1, <2>2, SoundMethods, SoundOne
<1>5. ASSUME NEW p \in Paths, FlushIdle(p) \/ CloseOne(p) PROVE Sound'
  <2>1. tl' = [tl EXCEPT ![p] = Emptied(tl[p])] BY <1>5 DEF FlushIdle, CloseOne
  <2> QED BY <1>1, <2>1, SoundMethods, SoundOne
<1>6. ASSUME NEW due \in SUBSET Paths, PersistOwed(due) PROVE Sound'
  <2>1. \A p \in Paths : tl'[p] = tl[p] \/ tl'[p] = [tl[p] EXCEPT !.owed = FALSE]
    BY <1>6 DEF PersistOwed
  <2>2. \A t \in Tailer : ReplayOwed([t EXCEPT !.owed = FALSE]) = ReplayOwed(t)
    BY DEF ReplayOwed, Tailer
  <2>3. \A p \in Paths : ~ReplayOwed(tl'[p]) BY <1>1, <2>1, <2>2
  <2> QED BY <2>3 DEF Sound, ReplayOwed
<1>7. CASE CloseKeeping \/ RetireSave
  <2>1. tl' = [tl EXCEPT ![job.path] = NoTailer] BY <1>7 DEF CloseKeeping, RetireSave
  <2>2. ~ReplayOwed(NoTailer) BY DEF ReplayOwed, NoTailer
  <2> QED BY <2>1, <2>2, SoundOne
<1>8. CASE ShutdownSave
  <2>1. tl' = [p \in Paths |-> NoTailer] BY <1>8 DEF ShutdownSave, Down
  <2>2. ~NoTailer.holed /\ ~NoTailer.rewind BY DEF NoTailer
  <2> QED BY <2>1, <2>2 DEF Sound, ReplayOwed
<1> DEFINE p == job.path
           t == tl[p]
<1>9. CASE ReadRecord
  <2>1. tl' = [tl EXCEPT ![p] = Processed(p, t, t.off + 1)] BY <1>9 DEF ReadRecord
  <2>2. p \in Paths => ~ReplayOwed(Processed(p, t, t.off + 1))
    BY <1>1, ProcessedHandle DEF ReplayOwed
  <2> QED BY <2>1, <2>2, SoundOne
<1>10. CASE \E failed \in BOOLEAN : Publish(failed)
  <2> DEFINE u == [t EXCEPT !.off = t.off + 1]
  <2>1. tl' = [tl EXCEPT ![p] = SyncPending(u)] BY <1>10 DEF Publish
  <2>2. p \in Paths => u \in Tailer /\ ~ReplayOwed(u) BY <1>1 DEF Tailer, ReplayOwed
  <2> HIDE DEF u
  <2> QED BY <2>1, <2>2, SoundMethods, SoundOne
<1>11. CASE ReadDone
  <2>1. tl' = tl \/ tl' = [tl EXCEPT ![p] = WidenFingerprint(t)] BY <1>11 DEF ReadDone
  <2> QED BY <1>1, <1>2, <2>1, SoundMethods, SoundOne
<1>12. CASE DrainPublish
  <2>1. tl' = [tl EXCEPT ![p] = SyncPending(t)] BY <1>12 DEF DrainPublish
  <2> QED BY <1>1, <2>1, SoundMethods, SoundOne
<1>13. CASE RestartRead
  <2> DEFINE u == SetFingerprint(Reset([t EXCEPT !.base = t.file], 0), 0, 0)
  <2>1. tl' = [tl EXCEPT ![p] = u] BY <1>13 DEF RestartRead
  <2>2. p \in Paths => ~u.holed /\ ~u.rewind BY <1>1 DEF SetFingerprint, Reset, Tailer
  <2> HIDE DEF u
  <2> QED BY <2>1, <2>2, SoundOne DEF ReplayOwed
<1>14. CASE CloseRewinding
  <2> DEFINE u == [t EXCEPT !.on = FALSE, !.owed = FALSE]
  <2>1. tl' = [tl EXCEPT ![p] = u] BY <1>14 DEF CloseRewinding, TypeInv, TypeOK, FollowerOK
  <2>2. p \in Paths => ~u.holed /\ ~u.rewind BY <1>1 DEF Tailer, ReplayOwed
  <2> HIDE DEF u
  <2> QED BY <2>1, <2>2, SoundOne DEF ReplayOwed
<1>15. CASE Drain
  <2> DEFINE w == Processed(p, t, t.off + 1)
             last == IF job.mode = "retire" /\ HasFinal(p, t) THEN [w EXCEPT !.off = w.off + 1] ELSE t
  <2>1. tl' = [tl EXCEPT ![p] = Emptied(last)] BY <1>15 DEF Drain
  <2>2. p \in Paths /\ t.on BY <1>15 DEF Drain, TypeInv, JobOK
  <2>3. t \in Tailer /\ ~ReplayOwed(t) BY <1>1, <2>2
  <2>4. last \in Tailer /\ ~ReplayOwed(last)
    <3>1. CASE ~(job.mode = "retire" /\ HasFinal(p, t)) BY <2>3, <3>1
    <3>2. CASE job.mode = "retire" /\ HasFinal(p, t)
      <4>1. t.off \in Nat /\ t.file \in Gens /\ t.file # 0
        BY <2>2, <2>3, FollowAssumption DEF TypeInv, FileOK, Gens, Tailer
      <4>2. size[p][t.file] < MaxPos /\ t.off = size[p][t.file]
        BY <2>2, <3>2, <4>1 DEF HasFinal, TypeInv, FileOK
      <4>3. t.off + 1 \in 1 .. MaxPos BY <4>1, <4>2, FollowAssumption
      <4>4. w \in Tailer BY <2>2, <2>3, <4>1, <4>3, EmitsType
      <4>5. ~w.holed /\ ~w.rewind BY <2>3, ProcessedHandle DEF ReplayOwed
      <4>6. last = [w EXCEPT !.off = w.off + 1] BY <3>2
      <4> HIDE DEF w, last
      <4> QED BY <4>4, <4>5, <4>6 DEF Tailer, ReplayOwed
    <3> QED BY <3>1, <3>2
  <2> HIDE DEF last
  <2> QED BY <2>1, <2>4, SoundMethods, SoundOne
<1> QED BY <1>2, <1>3, <1>4, <1>5, <1>6, <1>7, <1>8, <1>9, <1>10, <1>11, <1>12, <1>13, <1>14, <1>15
  DEF Polling, Unmatched, Reloaded, Recover, Cancel, Shutdown, FinalFlush, Start, RecoverSave, Recovered

LEMMA SoundStep ==
  ASSUME TypeInv, Sound, [Next]_vars, "fatal" \notin Failures, "rewrite" \notin Moves
  PROVE  Sound'
<1>1. CASE UNCHANGED tl BY <1>1 DEF Sound, ReplayOwed
<1>2. CASE Crash
  <2>1. tl' = [p \in Paths |-> NoTailer] BY <1>2 DEF Crash, Down
  <2>2. ~NoTailer.holed /\ ~NoTailer.rewind BY DEF NoTailer
  <2> QED BY <2>1, <2>2 DEF Sound, ReplayOwed
<1>3. CASE Owners
  BY <1>1, <1>3 DEF Owners, AppendRecord, AppendFragment, Create, Rotate, Remove, Rewrite
<1>4. CASE UNCHANGED vars BY <1>1, <1>4 DEF vars
<1> QED BY <1>2, <1>3, <1>4, SoundDelivering, SoundPolling DEF Next

\* A file that is let go without a replay owed is wholly in hand.
LEMMA RetireSound == Sound /\ RetireInv => DrainComplete
<1> SUFFICES ASSUME Sound, RetireInv, job.mode = "retire", job.at \in Letting
             PROVE  \A k \in 1 .. size[job.path][tl[job.path].file]
                                  + (IF frag[job.path][tl[job.path].file] THEN 1 ELSE 0) :
                      \/ Accounted(<<job.path, tl[job.path].file, k>>)
                      \/ <<job.path, tl[job.path].file, k>> \in UNION (queue \cup flying)
  BY DEF DrainComplete, Letting
<1>1. job.path \in Paths /\ ~ReplayOwed(tl[job.path]) BY DEF RetireInv, Sound
<1>2. Covers(InHand, job.path, tl[job.path].file, End(job.path, tl[job.path].file))
  BY <1>1 DEF RetireInv
<1> QED BY <1>2 DEF Covers, End, InHand, Done

\* Whatever is abandoned: a file that is let go with no replay owed to its tailer is in hand,
\* to its last record.
RetiredInHand ==
  LET p == job.path t == tl[p] IN
  job.mode = "retire" /\ job.at \in Letting /\ ~ReplayOwed(t)
    => Covers(InHand, p, t.file, End(p, t.file))

\* Retiring a file (checkRotation, drainFinalRecord, closeTailer) leaves a record behind only when
\* a batch of that file was abandoned and its replay is still owed, or when Add refused its
\* sample after the context was cancelled.
THEOREM RetiredFilesAreInHand ==
  ASSUME "rewrite" \notin Moves
  PROVE  Spec => []RetiredInHand
<1>1. Init => TypeInv /\ AckInv /\ RetireInv BY TypeInit, AckInit, RetireInit
<1>2. TypeInv /\ AckInv /\ RetireInv /\ [Next]_vars => TypeInv' /\ AckInv' /\ RetireInv'
  BY TypeStep, AckStep, RetireStep
<1>3. RetireInv => RetiredInHand BY DEF RetireInv, RetiredInHand
<1> QED BY <1>1, <1>2, <1>3, PTL DEF Spec

\* A rotated or removed file is let go (closeTailer) only when every record it holds, the
\* unterminated last one included, is in the store or on the way to it or was refused after a
\* cancellation, as long as no batch is abandoned and no file is rewritten.
THEOREM DrainsAreComplete ==
  ASSUME "rewrite" \notin Moves, "fatal" \notin Failures
  PROVE  Spec => []DrainComplete
<1>1. Init => TypeInv /\ AckInv /\ RetireInv /\ Sound
  <2>1. ~NoTailer.holed /\ ~NoTailer.rewind BY DEF NoTailer
  <2>2. Init => Sound BY <2>1 DEF Init, Sound, ReplayOwed
  <2> QED BY <2>2, TypeInit, AckInit, RetireInit
<1>2. TypeInv /\ AckInv /\ RetireInv /\ Sound /\ [Next]_vars
        => TypeInv' /\ AckInv' /\ RetireInv' /\ Sound'
  BY TypeStep, AckStep, RetireStep, SoundStep
<1>3. Sound /\ RetireInv => DrainComplete BY RetireSound
<1> QED BY <1>1, <1>2, <1>3, PTL DEF Spec

-----------------------------------------------------------------------------
(* Resume records only move forward.                                       *)

\* A tailer within the first n records of its file.
Within(t, n) == t.off <= n /\ t.fpw <= n /\ t.ack <= n /\ t.infl <= n /\ t.pend <= n

\* The fingerprint is of the file that is read, and a record that is owed says what is
\* acknowledged.
Shaped(t) == (t.fpw > 0 => t.fpc = t.file) /\ (t.owed => t.cpack = t.ack)

\* The unterminated last record takes a tailer past the records counted, on the way to its
\* retirement.
Leaving(p) == job.mode = "retire" /\ job.path = p /\ job.at \in {"drained", "close"}

\* A record is not ahead of the file, and no tailer is behind the record it resumed from; so a
\* file that only grows is never found rewritten.
ResumeInv ==
  /\ \A p \in Paths : tl[p].on =>
       /\ Shaped(tl[p])
       /\ disk[p].fpc = tl[p].file /\ tl[p].file = live[p] => disk[p].acked <= tl[p].ack
       /\ ~Leaving(p) => Within(tl[p], size[p][tl[p].file])
  /\ \A p \in Paths :
       /\ disk[p].fpc # 0 => disk[p].had
       /\ present[p] /\ disk[p].fpc = live[p] => disk[p].acked <= size[p][live[p]]
  /\ job.mode # "rewritten"
  /\ job.at = "publish" => tl[job.path].off < size[job.path][tl[job.path].file]

\* What a step may do to one tailer.
Moved(u, t) == u.on => t.on /\ u.file = t.file /\ t.ack <= u.ack /\ Shaped(u)

LEMMA MovedMethods ==
  ASSUME NEW t \in Tailer, t.on, Shaped(t)
  PROVE  /\ Moved(t, t) /\ Moved(MarkInflight(t), t) /\ Moved(MarkHoled(t), t)
         /\ Moved(ClearHole(t), t) /\ Moved(Rewound(t), t) /\ Moved(WidenFingerprint(t), t)
         /\ Moved(SyncPending(t), t) /\ Moved(Emptied(t), t)
         /\ \A now \in BOOLEAN : HasInflight(t) => Moved(CommitInflight(t, now), t)
         /\ Moved([t EXCEPT !.off = t.off + 1], t) /\ Moved([t EXCEPT !.owed = FALSE], t)
<1> USE DEF Moved, Shaped, Tailer
<1>1. Moved(t, t) /\ Moved(MarkInflight(t), t) /\ Moved(MarkHoled(t), t)
  BY DEF MarkInflight, MarkHoled
<1>2. Moved(ClearHole(t), t) /\ Moved(Rewound(t), t) BY DEF ClearHole, Rewound, Reset, Emptied
<1>3. Moved(WidenFingerprint(t), t) BY DEF WidenFingerprint, SetFingerprint
<1>4. Moved(SyncPending(t), t) /\ Moved(Emptied(t), t) BY DEF SyncPending, SetPending, Emptied
<1>5. ASSUME NEW now \in BOOLEAN, HasInflight(t) PROVE Moved(CommitInflight(t, now), t)
  BY <1>5 DEF CommitInflight, HasInflight
<1>6. Moved([t EXCEPT !.off = t.off + 1], t) /\ Moved([t EXCEPT !.owed = FALSE], t) OBVIOUS
<1> QED BY <1>1, <1>2, <1>3, <1>4, <1>5, <1>6

LEMMA WithinMethods ==
  ASSUME NEW t \in Tailer, NEW n \in Nat, Within(t, n)
  PROVE  /\ Within(MarkInflight(t), n) /\ Within(MarkHoled(t), n)
         /\ Within(ClearHole(t), n) /\ Within(Rewound(t), n) /\ Within(WidenFingerprint(t), n)
         /\ Within(SyncPending(t), n) /\ Within(Emptied(t), n)
         /\ \A now \in BOOLEAN : Within(CommitInflight(t, now), n)
         /\ t.off < n => Within([t EXCEPT !.off = t.off + 1], n)
         /\ Within([t EXCEPT !.owed = FALSE], n)
<1> USE DEF Within, Tailer
<1>1. Within(MarkInflight(t), n) /\ Within(MarkHoled(t), n) BY DEF MarkInflight, MarkHoled
<1>2. Within(ClearHole(t), n) /\ Within(Rewound(t), n) BY DEF ClearHole, Rewound, Reset, Emptied
<1>3. Within(WidenFingerprint(t), n) BY DEF WidenFingerprint, SetFingerprint
<1>4. Within(SyncPending(t), n) /\ Within(Emptied(t), n) BY DEF SyncPending, SetPending, Emptied
<1>5. \A now \in BOOLEAN : Within(CommitInflight(t, now), n) BY DEF CommitInflight
<1>6. t.off < n => Within([t EXCEPT !.off = t.off + 1], n) OBVIOUS
<1>7. Within([t EXCEPT !.owed = FALSE], n) OBVIOUS
<1> QED BY <1>1, <1>2, <1>3, <1>4, <1>5, <1>6, <1>7

LEMMA MovedTwice ==
  ASSUME NEW u, NEW v, NEW t, u.ack \in Nat, v.ack \in Nat, t.ack \in Nat, Moved(u, v), Moved(v, t)
  PROVE  Moved(u, t)
BY DEF Moved

LEMMA ProcessedMoves ==
  ASSUME NEW p, NEW t \in Tailer, NEW k, t.on, Shaped(t)
  PROVE  /\ Moved(Processed(p, t, k), t) /\ \A n : Within(t, n) => Within(Processed(p, t, k), n)
         /\ Processed(p, t, k).ack = t.ack
<1> DEFINE u == Processed(p, t, k)
<1>1. /\ u.on = t.on /\ u.file = t.file /\ u.ack = t.ack /\ u.fpw = t.fpw /\ u.fpc = t.fpc
      /\ u.owed = t.owed /\ u.cpack = t.cpack /\ u.off = t.off /\ u.infl = t.infl /\ u.pend = t.pend
  <2>1. CASE Shape[<<p, t.file, k>>] = "join" BY <2>1 DEF Processed, Tailer
  <2>2. CASE Shape[<<p, t.file, k>>] = "roll" BY <2>2 DEF Processed, Tailer
  <2>3. CASE Shape[<<p, t.file, k>>] \notin {"join", "roll"} BY <2>3 DEF Processed
  <2> QED BY <2>1, <2>2, <2>3
<1>2. t.ack \in Nat BY DEF Tailer
<1> HIDE DEF u
<1>3. Moved(u, t) /\ u.ack = t.ack BY <1>1, <1>2 DEF Moved, Shaped
<1>4. \A n : Within(t, n) => Within(u, n) BY <1>1 DEF Within
<1> QED BY <1>3, <1>4 DEF u

\* What a step may write for p, whose tailer it leaves as u.
Recorded(p, cp, u) ==
  \/ cp.fpc = disk[p].fpc /\ cp.acked = disk[p].acked /\ cp.had = disk[p].had
  \/ cp.fpc = 0
  \/ cp.had /\ tl[p].on /\ cp.fpc = tl[p].file /\ tl[p].file # live[p]
  \/ /\ cp.had /\ tl[p].on /\ cp.fpc = tl[p].file /\ tl[p].ack <= cp.acked
     /\ u.on => cp.acked <= u.ack
     /\ present[p] /\ tl[p].file = live[p] => cp.acked <= size[p][live[p]]

\* No record of the content at its path moves back in this step.
NoRegress ==
  \A p \in Paths :
    disk[p].fpc # 0 /\ disk[p].fpc = live[p] /\ disk'[p].fpc = disk[p].fpc
      => disk'[p].acked >= disk[p].acked

LEMMA SameDisk ==
  ASSUME TypeInv, UNCHANGED disk
  PROVE  NoRegress
<1>1. \A p \in Paths : disk[p].acked \in Nat BY DEF TypeInv, TypeOK, FollowerOK, Record
<1> QED BY <1>1 DEF NoRegress

\* A step that leaves the files alone has to show what it does to tailers, records and goroutine.
LEMMA ResumeKept ==
  ASSUME TypeInv, ResumeInv, UNCHANGED fsvars, TypeInv',
         \A p \in Paths : /\ Moved(tl'[p], tl[p]) /\ Recorded(p, disk'[p], tl'[p])
                          /\ tl'[p].on /\ ~Leaving(p)' => Within(tl'[p], size[p][tl'[p].file]),
         job'.mode # "rewritten",
         job'.at = "publish" => tl'[job'.path].off < size[job'.path][tl'[job'.path].file]
  PROVE  ResumeInv' /\ NoRegress
<1>1. UNCHANGED <<live, present, size>> BY DEF fsvars
<1>2. ASSUME NEW p \in Paths, tl'[p].on
      PROVE  /\ Shaped(tl'[p])
             /\ disk'[p].fpc = tl'[p].file /\ tl'[p].file = live[p] => disk'[p].acked <= tl'[p].ack
             /\ ~Leaving(p)' => Within(tl'[p], size[p][tl'[p].file])
  <2>1. tl[p].on /\ tl'[p].file = tl[p].file /\ tl[p].ack <= tl'[p].ack /\ Shaped(tl'[p])
    BY <1>2 DEF Moved
  <2>2. /\ tl[p].ack \in Nat /\ tl'[p].ack \in Nat /\ disk[p].acked \in Nat /\ tl[p].file # 0
    BY <2>1 DEF TypeInv, TypeOK, FollowerOK, FileOK, Tailer, Record
  <2>3. disk[p].fpc = tl[p].file /\ tl[p].file = live[p] => disk[p].acked <= tl[p].ack
    BY <2>1 DEF ResumeInv
  <2>4. disk'[p].fpc = tl'[p].file /\ tl'[p].file = live[p] => disk'[p].acked <= tl'[p].ack
    BY <1>2, <2>1, <2>2, <2>3 DEF Recorded
  <2> QED BY <1>2, <2>1, <2>4
<1>3. ASSUME NEW p \in Paths
      PROVE  /\ disk'[p].fpc # 0 => disk'[p].had
             /\ present[p] /\ disk'[p].fpc = live[p] => disk'[p].acked <= size[p][live[p]]
  <2>1. present[p] => live[p] # 0 BY DEF TypeInv, FileOK
  <2>2. /\ disk[p].fpc # 0 => disk[p].had
        /\ present[p] /\ disk[p].fpc = live[p] => disk[p].acked <= size[p][live[p]]
    BY DEF ResumeInv
  <2> QED BY <2>1, <2>2 DEF Recorded
<1>4. ResumeInv' BY <1>1, <1>2, <1>3 DEF ResumeInv
<1>5. NoRegress
  <2> SUFFICES ASSUME NEW p \in Paths, disk[p].fpc # 0, disk[p].fpc = live[p], disk'[p].fpc = disk[p].fpc
               PROVE  disk[p].acked <= disk'[p].acked
    <3>1. \A p \in Paths : disk[p].acked \in Nat /\ disk'[p].acked \in Nat
      BY DEF TypeInv, TypeOK, FollowerOK, Record
    <3> QED BY <3>1 DEF NoRegress
  <2>1. disk[p].acked \in Nat /\ disk'[p].acked \in Nat /\ tl[p].ack \in Nat
    BY DEF TypeInv, TypeOK, FollowerOK, Record, Tailer
  <2>2. tl[p].on /\ disk[p].fpc = tl[p].file => disk[p].acked <= tl[p].ack BY DEF ResumeInv
  <2>3. Recorded(p, disk'[p], tl'[p]) OBVIOUS
  <2> QED BY <2>1, <2>2, <2>3 DEF Recorded
<1> QED BY <1>4, <1>5

\* The facts about one path that the steps below use.
LEMMA ResumeFacts ==
  ASSUME TypeInv, AckInv, RetireInv, ResumeInv, NEW p \in Paths, tl[p].on
  PROVE  /\ tl[p] \in Tailer /\ Shaped(tl[p]) /\ tl[p].file \in Gens /\ tl[p].file # 0
         /\ size[p][tl[p].file] \in Nat /\ tl[p].fpc \in {0, tl[p].file}
         /\ ~Leaving(p) => Within(tl[p], size[p][tl[p].file])
         /\ Leaving(p) => ~(present[p] /\ live[p] = tl[p].file)
<1>1. /\ tl[p] \in Tailer /\ tl[p].file \in Gens /\ tl[p].file # 0 /\ tl[p].fpc \in {0, tl[p].file}
  BY AckFacts DEF TailerInv
<1>2. size[p][tl[p].file] \in 0 .. MaxPos BY <1>1 DEF TypeInv, TypeOK, DirOK
<1>3. Leaving(p) => ~(present[p] /\ live[p] = tl[p].file) BY DEF Leaving, RetireInv
<1> QED BY <1>1, <1>2, <1>3, FollowAssumption DEF ResumeInv

\* A step of the poll goroutine on the tailer of one path.
LEMMA ResumeOne ==
  ASSUME TypeInv, AckInv, RetireInv, ResumeInv, UNCHANGED fsvars, TypeInv', NEW p \in Paths, NEW u,
         tl' = [tl EXCEPT ![p] = u], Moved(u, tl[p]), Recorded(p, disk'[p], u),
         u.on /\ ~Leaving(p)' => Within(u, size[p][u.file]),
         job.path = p \/ job.mode # "retire" \/ job.at \notin {"drained", "close"},
         \A q \in Paths : q # p => disk'[q] = disk[q],
         job'.mode # "rewritten",
         job'.at = "publish" => job'.path = p /\ u.off < size[p][u.file]
  PROVE  ResumeInv' /\ NoRegress
<1>1. tl \in [Paths -> Tailer] BY DEF TypeInv, TypeOK, FollowerOK
<1>2. tl'[p] = u /\ \A q \in Paths : q # p => tl'[q] = tl[q] BY <1>1
<1>3. ASSUME NEW q \in Paths
      PROVE  /\ Moved(tl'[q], tl[q]) /\ Recorded(q, disk'[q], tl'[q])
             /\ tl'[q].on /\ ~Leaving(q)' => Within(tl'[q], size[q][tl'[q].file])
  <2>1. CASE q = p BY <1>2, <2>1
  <2>2. CASE q # p
    <3>1. tl'[q] = tl[q] /\ disk'[q] = disk[q] BY <1>2, <2>2
    <3>2. Recorded(q, disk'[q], tl'[q]) BY <3>1 DEF Recorded
    <3>3. tl[q].on => Moved(tl[q], tl[q]) BY ResumeFacts, MovedMethods
    <3>4. Moved(tl'[q], tl[q]) BY <3>1, <3>3 DEF Moved
    <3>5. ~Leaving(q) BY <2>2 DEF Leaving
    <3>6. tl[q].on => Within(tl[q], size[q][tl[q].file]) BY <3>5, ResumeFacts
    <3> QED BY <3>1, <3>2, <3>4, <3>6
  <2> QED BY <2>1, <2>2
<1>4. job'.at = "publish" => tl'[job'.path].off < size[job'.path][tl'[job'.path].file] BY <1>2
<1> QED BY <1>3, <1>4, ResumeKept

LEMMA SameRecord ==
  ASSUME NEW p, NEW u
  PROVE  Recorded(p, disk[p], u)
BY DEF Recorded

\* The record a Save writes for the tailer v that becomes u.
LEMMA RecordOfRecorded ==
  ASSUME TypeInv, AckInv, RetireInv, ResumeInv, NEW p \in Paths, tl[p].on, NEW v, NEW u,
         v.fpc = tl[p].fpc, tl[p].ack <= v.cpack, u.on => v.cpack <= u.ack,
         ~Leaving(p) => v.cpack <= size[p][tl[p].file]
  PROVE  Recorded(p, RecordOf(v), u)
<1>1. /\ RecordOf(v).had /\ RecordOf(v).fpc = v.fpc /\ RecordOf(v).acked = v.cpack BY DEF RecordOf
<1>2. v.fpc \in {0, tl[p].file} /\ (Leaving(p) => ~(present[p] /\ live[p] = tl[p].file))
  BY ResumeFacts
<1> HIDE DEF RecordOf
<1>3. present[p] /\ tl[p].file = live[p] => v.cpack <= size[p][live[p]] BY <1>2
<1> QED BY <1>1, <1>2, <1>3 DEF Recorded

LEMMA ReadingResume ==
  ASSUME TypeInv, AckInv, RetireInv, ResumeInv, TypeInv',
         ReadRecord \/ ReadDone \/ DrainPublish \/ \E failed \in BOOLEAN : Publish(failed)
  PROVE  ResumeInv' /\ NoRegress
<1> DEFINE p == job.path
           t == tl[p]
           n == size[p][t.file]
<1>1. /\ job \in Job /\ p \in Paths /\ job.at \in {"read", "publish", "drained"}
      /\ UNCHANGED <<fsvars, disk>> /\ t.on
  BY DEF ReadRecord, Publish, ReadDone, DrainPublish, TypeInv, TypeOK, FollowerOK, JobOK
<1>2. /\ t \in Tailer /\ Shaped(t) /\ n \in Nat /\ (~Leaving(p) => Within(t, n))
  BY <1>1, ResumeFacts
<1>3. \A q \in Paths : \A u : disk'[q] = disk[q] /\ Recorded(q, disk'[q], u) BY <1>1, SameRecord
<1>4. \A s : At(s).at = s /\ At(s).mode = job.mode /\ At(s).path = p BY <1>1 DEF At, Job
<1>5. job.mode # "rewritten" /\ Idle.at = "idle" /\ Idle.mode = "" BY DEF ResumeInv, Idle
<1>6. CASE ReadRecord
  <2> DEFINE u == Processed(p, t, t.off + 1)
  <2>1. tl' = [tl EXCEPT ![p] = u] /\ t.off + 1 <= n /\ job.at = "read"
        /\ \E b \in BOOLEAN : job' = [job EXCEPT !.at = "publish", !.ok = b]
    BY <1>6 DEF ReadRecord
  <2>2. Moved(u, t) /\ (Within(t, n) => Within(u, n)) BY <1>1, <1>2, ProcessedMoves
  <2>3. u.file = t.file /\ u.off = t.off /\ t.off \in Nat BY <1>2, ProcessedHandle DEF Tailer
  <2>4. Within(u, n) BY <1>2, <2>1, <2>2 DEF Leaving
  <2> HIDE DEF u
  <2>5. u.off < size[p][u.file] /\ Within(u, size[p][u.file]) BY <1>2, <2>1, <2>3, <2>4
  <2>6. job'.path = p /\ job'.mode # "rewritten" BY <1>1, <1>5, <2>1 DEF Job
  <2> QED BY <1>1, <1>3, <2>1, <2>2, <2>5, <2>6, ResumeOne
<1>7. CASE \E failed \in BOOLEAN : Publish(failed)
  <2> DEFINE v == [t EXCEPT !.off = t.off + 1]
             u == SyncPending(v)
  <2>1. tl' = [tl EXCEPT ![p] = u] /\ job.at = "publish" BY <1>7 DEF Publish
  <2>2. job' \in {At("read"), At("drain"), Idle} BY <1>7, PublishJob
  <2>3. t.off < n /\ Within(t, n) BY <1>2, <2>1 DEF ResumeInv, Leaving
  <2>4. v \in Tailer /\ v.on /\ v.file = t.file /\ Shaped(v) /\ Within(v, n) /\ Moved(v, t)
    <3>1. v \in Tailer /\ v.on /\ v.file = t.file BY <1>1, <1>2 DEF Tailer
    <3>2. Within(v, n) /\ Moved(v, t) BY <1>1, <1>2, <2>3, WithinMethods, MovedMethods
    <3> HIDE DEF v
    <3> QED BY <3>1, <3>2 DEF Moved
  <2> HIDE DEF v
  <2>5. Moved(u, v) /\ Within(u, n) /\ u \in Tailer
    <3>1. u \in Tailer BY <2>4, TailerTypes, FollowAssumption
    <3>2. Moved(u, v) BY <2>4, MovedMethods
    <3> HIDE DEF n
    <3>3. Within(u, n) BY <1>2, <2>4, WithinMethods
    <3> QED BY <3>1, <3>2, <3>3
  <2> HIDE DEF u
  <2>6. Moved(u, t)
    <3>1. u.ack \in Nat /\ v.ack \in Nat /\ t.ack \in Nat BY <1>2, <2>4, <2>5 DEF Tailer
    <3> QED BY <2>4, <2>5, <3>1, MovedTwice
  <2>7. u.on => u.file = t.file BY <2>6 DEF Moved
  <2>8. job'.at \notin {"publish"} /\ job'.mode # "rewritten" BY <1>4, <1>5, <2>2
  <2> QED BY <1>1, <1>3, <2>1, <2>5, <2>6, <2>7, <2>8, ResumeOne
<1>8. CASE ReadDone
  <2> DEFINE u == IF t.rewind THEN t ELSE WidenFingerprint(t)
  <2>1. tl' = [tl EXCEPT ![p] = u] /\ job' \in {At("persist"), At("drain")} /\ job.at = "read"
    BY <1>1, <1>8 DEF ReadDone, TypeInv, TypeOK, FollowerOK
  <2>2. Within(t, n) BY <1>2, <2>1 DEF Leaving
  <2>3. Moved(u, t) /\ Within(u, n) BY <1>1, <1>2, <2>2, WithinMethods, MovedMethods
  <2> HIDE DEF u
  <2>4. u.on => u.file = t.file BY <2>3 DEF Moved
  <2>5. job'.at # "publish" /\ job'.mode # "rewritten" BY <1>4, <1>5, <2>1
  <2> QED BY <1>1, <1>3, <2>1, <2>3, <2>4, <2>5, ResumeOne
<1>9. CASE DrainPublish
  <2> DEFINE u == SyncPending(t)
  <2>1. tl' = [tl EXCEPT ![p] = u] /\ job.at = "drained" BY <1>9 DEF DrainPublish
  <2>2. /\ job'.at \in {"idle", "closing", "close"} /\ job'.mode # "rewritten"
        /\ job.mode = "retire" => job'.at = "close" /\ job'.mode = "retire" /\ job'.path = p
    <3>1. CASE job.mode = "idle" BY <1>5, <1>9, <3>1 DEF DrainPublish
    <3>2. CASE job.mode = "stop" BY <1>1, <1>9, <3>2 DEF DrainPublish, Job
    <3>3. CASE job.mode \notin {"idle", "stop"} BY <1>4, <1>5, <1>9, <3>3 DEF DrainPublish
    <3> QED BY <3>1, <3>2, <3>3
  <2>3. PICK r \in Paths : r = p BY <1>1
  <2>4. Leaving(r) => Leaving(r)' BY <2>2, <2>3 DEF Leaving
  <2>5. Moved(u, t) /\ (Within(t, n) => Within(u, n)) BY <1>1, <1>2, WithinMethods, MovedMethods
  <2> HIDE DEF u
  <2>6. u.on => u.file = t.file BY <2>5 DEF Moved
  <2>7. u.on /\ ~Leaving(r)' => Within(u, size[r][u.file]) BY <1>2, <2>3, <2>4, <2>5, <2>6
  <2>8. job'.at # "publish" /\ job'.mode # "rewritten" BY <2>2
  <2> QED BY <1>1, <1>3, <2>1, <2>3, <2>5, <2>7, <2>8, ResumeOne
<1> QED BY <1>6, <1>7, <1>8, <1>9

LEMMA DrainResume ==
  ASSUME TypeInv, AckInv, RetireInv, ResumeInv, TypeInv', Drain
  PROVE  ResumeInv' /\ NoRegress
<1>1. PICK p \in Paths : p = job.path /\ tl[p].on BY DEF Drain, TypeInv, JobOK
<1> DEFINE t == tl[p]
           n == size[p][t.file]
           k == t.off + 1
           w == Processed(p, t, k)
           final == job.mode = "retire" /\ HasFinal(p, t)
           last == IF final THEN [w EXCEPT !.off = w.off + 1] ELSE t
           u == Emptied(last)
<1>2. /\ job \in Job /\ job.at = "drain" /\ UNCHANGED <<fsvars, disk>>
      /\ tl' = [tl EXCEPT ![p] = u] /\ job' \in {At("close"), At("drained")}
  BY <1>1 DEF Drain, TypeInv, TypeOK, FollowerOK
<1>3. /\ t \in Tailer /\ Shaped(t) /\ n \in Nat /\ (~Leaving(p) => Within(t, n)) /\ t.file # 0
  BY <1>1, ResumeFacts
<1>4. \A s : At(s).at = s /\ At(s).mode = job.mode /\ At(s).path = p BY <1>1, <1>2 DEF At, Job
<1>5. job'.at \in {"close", "drained"} /\ job'.mode = job.mode /\ job'.path = p BY <1>2, <1>4
<1>6. Moved(u, t) /\ (job.mode # "retire" => Within(u, n))
  <2>1. CASE ~final
    <3>1. Within(t, n) BY <1>2, <1>3 DEF Leaving
    <3>2. u = Emptied(t) BY <2>1
    <3> HIDE DEF n, u
    <3> QED BY <1>1, <1>3, <3>1, <3>2, WithinMethods, MovedMethods
  <2>2. CASE final
    <3>1. t.off \in Nat BY <1>3 DEF Tailer
    <3>2. size[p][t.file] < MaxPos /\ t.off = size[p][t.file]
      <4>1. t.file \in Gens BY <1>1, ResumeFacts
      <4> QED BY <2>2, <4>1 DEF HasFinal, TypeInv, FileOK
    <3>3. k \in 1 .. MaxPos BY <3>1, <3>2, FollowAssumption
    <3>4. w \in Tailer /\ Moved(w, t) BY <1>1, <1>3, <3>3, EmitsType, ProcessedMoves
    <3>5. u = Emptied([w EXCEPT !.off = w.off + 1]) BY <2>2
    <3> HIDE DEF w
    <3> DEFINE x == [w EXCEPT !.off = w.off + 1]
    <3>a. /\ x \in Tailer
          /\ x.on = w.on /\ x.file = w.file /\ x.ack = w.ack /\ x.fpw = w.fpw /\ x.fpc = w.fpc
          /\ x.owed = w.owed /\ x.cpack = w.cpack
      BY <3>4 DEF Tailer
    <3>b. u = Emptied(x) BY <3>5
    <3> HIDE DEF x, u
    <3>6. /\ u.on = w.on /\ u.file = w.file /\ u.ack = w.ack /\ u.fpw = w.fpw /\ u.fpc = w.fpc
          /\ u.owed = w.owed /\ u.cpack = w.cpack
      BY <3>a, <3>b DEF Emptied, Tailer
    <3> QED BY <2>2, <3>4, <3>6 DEF Moved, Shaped
  <2> QED BY <2>1, <2>2
<1> HIDE DEF u
<1>7. u.on /\ ~Leaving(p)' => Within(u, size[p][u.file])
  <2>1. job.mode = "retire" => Leaving(p)' BY <1>5 DEF Leaving
  <2>2. u.on => u.file = t.file BY <1>6 DEF Moved
  <2> QED BY <1>6, <2>1, <2>2
<1>8. Recorded(p, disk'[p], u) BY <1>2, SameRecord
<1>9. job.path = p /\ job'.mode # "rewritten" BY <1>1, <1>5 DEF ResumeInv
<1> QED BY <1>2, <1>5, <1>6, <1>7, <1>8, <1>9, ResumeOne

\* Letting a tailer go writes at most what it has had acknowledged.
LEMMA CloseResume ==
  ASSUME TypeInv, AckInv, RetireInv, ResumeInv, TypeInv', CloseKeeping \/ CloseRewinding \/ RetireSave
  PROVE  ResumeInv' /\ NoRegress
<1>1. UNCHANGED fsvars /\ job.at \in {"close", "flushed"}
  BY DEF CloseKeeping, CloseRewinding, RetireSave
<1>2. PICK p \in Paths : p = job.path
  BY DEF CloseKeeping, CloseRewinding, RetireSave, TypeInv, JobOK, RetireInv
<1>3. Idle.at = "idle" /\ Idle.mode = "" /\ [Idle EXCEPT !.at = "persist"].at = "persist"
      /\ [Idle EXCEPT !.at = "persist"].mode = ""
  BY DEF Idle
<1>4. ~NoTailer.on BY DEF NoTailer
<1>5. CASE CloseKeeping
  <2> DEFINE new == IF tl[p].owed THEN [disk EXCEPT ![p] = RecordOf(tl[p])] ELSE disk
  <2>1. /\ tl' = [tl EXCEPT ![p] = NoTailer] /\ job' = Idle /\ Save(new)
        /\ job.at = "close" /\ job.mode = "keep"
    BY <1>2, <1>5 DEF CloseKeeping
  <2>2. tl[p].on /\ tl[p] \in Tailer BY <1>2, <2>1 DEF TypeInv, TypeOK, FollowerOK, JobOK
  <2>3. \A q \in Paths : disk'[q] = new[q] \/ disk'[q] = disk[q] BY <2>1, SaveEach
  <2>4. \A q \in Paths : q # p => disk'[q] = disk[q] BY <2>3
  <2>5. disk'[p] = disk[p] \/ (tl[p].owed /\ disk'[p] = RecordOf(tl[p]))
    BY <2>3 DEF TypeInv, TypeOK, FollowerOK
  <2>6. tl[p].owed => Recorded(p, RecordOf(tl[p]), NoTailer)
    <3> SUFFICES ASSUME tl[p].owed PROVE Recorded(p, RecordOf(tl[p]), NoTailer) OBVIOUS
    <3>1. tl[p].cpack = tl[p].ack /\ tl[p].ack \in Nat /\ ~Leaving(p)
      BY <2>1, <2>2, ResumeFacts DEF Shaped, Tailer, Leaving
    <3>2. Within(tl[p], size[p][tl[p].file]) BY <2>2, <3>1, ResumeFacts
    <3> QED BY <1>4, <2>2, <3>1, <3>2, RecordOfRecorded DEF Within
  <2>7. Recorded(p, disk'[p], NoTailer) BY <2>5, <2>6, SameRecord
  <2>8. Moved(NoTailer, tl[p]) BY <1>4 DEF Moved
  <2> QED BY <1>1, <1>2, <1>3, <1>4, <2>1, <2>4, <2>7, <2>8, ResumeOne
<1>6. CASE CloseRewinding
  <2> DEFINE u == [tl[p] EXCEPT !.on = FALSE, !.owed = FALSE]
  <2>1. tl' = [tl EXCEPT ![p] = u] /\ UNCHANGED disk /\ job' = Begin("flush", p, "retire")
    BY <1>2, <1>6 DEF CloseRewinding, TypeInv, TypeOK, FollowerOK
  <2>2. ~u.on BY DEF TypeInv, TypeOK, FollowerOK, Tailer
  <2> HIDE DEF u
  <2>3. job'.at = "flush" /\ job'.mode = "retire" BY <2>1 DEF Begin, Idle
  <2>4. Moved(u, tl[p]) /\ Recorded(p, disk'[p], u) BY <2>1, <2>2, SameRecord DEF Moved
  <2> QED BY <1>1, <1>2, <2>1, <2>2, <2>3, <2>4, ResumeOne
<1>7. CASE RetireSave
  <2> DEFINE cp == [had |-> TRUE, fpc |-> 0, acked |-> 0,
                    tail |-> IF disk[p].had /\ ~job.ok THEN disk[p].tail ELSE tl[p].cptail]
             new == [disk EXCEPT ![p] = cp]
  <2>1. /\ tl' = [tl EXCEPT ![p] = NoTailer] /\ job' = [Idle EXCEPT !.at = "persist"] /\ Save(new)
    BY <1>2, <1>7 DEF RetireSave
  <2>2. \A q \in Paths : disk'[q] = new[q] \/ disk'[q] = disk[q] BY <2>1, SaveEach
  <2>3. \A q \in Paths : q # p => disk'[q] = disk[q] BY <2>2
  <2>4. disk'[p] = disk[p] \/ disk'[p] = cp BY <2>2 DEF TypeInv, TypeOK, FollowerOK
  <2>5. cp.fpc = 0 OBVIOUS
  <2> HIDE DEF cp
  <2>6. Recorded(p, disk'[p], NoTailer) BY <2>4, <2>5, SameRecord DEF Recorded
  <2>7. Moved(NoTailer, tl[p]) BY <1>4 DEF Moved
  <2> QED BY <1>1, <1>2, <1>3, <1>4, <2>1, <2>3, <2>6, <2>7, ResumeOne
<1> QED BY <1>5, <1>6, <1>7

\* A file that only grows is not found rewritten, and noteRotated writes for another content.
LEMMA SweepResume ==
  ASSUME TypeInv, AckInv, RetireInv, ResumeInv, TypeInv', NEW p \in Paths, Sweep(p)
  PROVE  ResumeInv' /\ NoRegress
<1> DEFINE t == tl[p]
           n == size[p][t.file]
           v == Rewound(t)
           u == WidenFingerprint(v)
<1>1. job.at = "idle" /\ t.on /\ UNCHANGED fsvars BY DEF Sweep
<1>2. /\ t \in Tailer /\ Shaped(t) /\ n \in Nat /\ Within(t, n) /\ t.fpc \in {0, t.file}
  BY <1>1, ResumeFacts DEF Leaving
<1>3. v \in Tailer /\ u \in Tailer BY <1>2, TailerTypes, FollowAssumption
<1>4. Moved(v, t) /\ Within(v, n) BY <1>1, <1>2, MovedMethods, WithinMethods
<1>5. v.on /\ v.fpc = t.fpc /\ v.file = t.file BY <1>1, <1>2 DEF Rewound, Reset, Emptied, Tailer
<1>6. Shaped(v) BY <1>4, <1>5 DEF Moved
<1> HIDE DEF v, n
<1>7. Moved(u, v) /\ Within(u, n) BY <1>2, <1>3, <1>4, <1>5, <1>6, MovedMethods, WithinMethods
<1>8. u.fpc \in {0, t.file} /\ u.file = t.file /\ u.on
  BY <1>2, <1>3, <1>5 DEF WidenFingerprint, SetFingerprint, Tailer
<1>9. Moved(u, t)
  <2>1. u.ack \in Nat /\ v.ack \in Nat /\ t.ack \in Nat BY <1>2, <1>3 DEF Tailer
  <2> HIDE DEF u
  <2> QED BY <1>4, <1>7, <2>1, MovedTwice
<1>10. ~Rewritten(p, v)
  <2>1. /\ v.off <= n /\ v.fpw <= n /\ (v.fpw > 0 => v.fpc = v.file) /\ v.off \in Nat /\ v.fpw \in Nat
    BY <1>3, <1>4, <1>6 DEF Within, Shaped, Tailer
  <2>2. size[p][v.file] = n BY <1>5 DEF n
  <2> QED BY <1>2, <2>1, <2>2 DEF Rewritten
<1>11. tl' = [tl EXCEPT ![p] = u] /\ job'.at = "read" /\ job'.mode # "rewritten"
  BY <1>10 DEF Sweep, Begin, Idle, v
<1> HIDE DEF u
<1>12. tl'[p] = u BY <1>11 DEF TypeInv, TypeOK, FollowerOK
<1>13. /\ \A q \in Paths : q # p => disk'[q] = disk[q]
       /\ \/ disk'[p] = disk[p]
          \/ /\ live[p] # t.file
             /\ disk'[p] = [RecordOf(u) EXCEPT !.tail = [gen |-> v.file, off |-> v.ack]]
  <2> DEFINE cp == [RecordOf(u) EXCEPT !.tail = [gen |-> v.file, off |-> v.ack]]
             new == IF kept[p][v.file] THEN [disk EXCEPT ![p] = cp] ELSE disk
  <2>1. UNCHANGED disk \/ (live[p] # v.file /\ Save(new)) BY <1>10, <1>12 DEF Sweep, v
  <2>2. CASE UNCHANGED disk BY <2>2
  <2>3. CASE live[p] # v.file /\ Save(new)
    <3>1. \A q \in Paths : disk'[q] = new[q] \/ disk'[q] = disk[q] BY <2>3, SaveEach
    <3>2. \A q \in Paths : q # p => new[q] = disk[q] OBVIOUS
    <3>3. new[p] = disk[p] \/ new[p] = cp BY DEF TypeInv, TypeOK, FollowerOK
    <3> HIDE DEF new
    <3> QED BY <1>5, <2>3, <3>1, <3>2, <3>3
  <2> QED BY <2>1, <2>2, <2>3
<1>14. Recorded(p, disk'[p], u)
  <2>1. CASE disk'[p] = disk[p] BY <2>1, SameRecord
  <2>2. CASE /\ live[p] # t.file
             /\ disk'[p] = [RecordOf(u) EXCEPT !.tail = [gen |-> v.file, off |-> v.ack]]
    <3>1. disk'[p].had /\ disk'[p].fpc = u.fpc BY <2>2 DEF RecordOf
    <3> QED BY <1>1, <1>8, <2>2, <3>1 DEF Recorded
  <2> QED BY <1>13, <2>1, <2>2
<1>15. Within(u, size[p][u.file]) BY <1>7, <1>8 DEF n
<1> QED BY <1>1, <1>9, <1>11, <1>13, <1>14, <1>15, ResumeOne

\* The window of one path goes to the sink.
LEMMA WindowResume ==
  ASSUME TypeInv, AckInv, RetireInv, ResumeInv, TypeInv', NEW p \in Paths, FlushIdle(p) \/ CloseOne(p)
  PROVE  ResumeInv' /\ NoRegress
<1> DEFINE u == Emptied(tl[p])
<1>1. /\ tl' = [tl EXCEPT ![p] = u] /\ UNCHANGED <<fsvars, disk>> /\ job.at \in {"idle", "closing"}
  BY DEF FlushIdle, CloseOne
<1>2. tl[p].on BY DEF FlushIdle, CloseOne, TypeInv, JobOK
<1>3. /\ tl[p] \in Tailer /\ Shaped(tl[p]) /\ size[p][tl[p].file] \in Nat
      /\ Within(tl[p], size[p][tl[p].file])
  BY <1>1, <1>2, ResumeFacts DEF Leaving
<1>4. Moved(u, tl[p]) /\ Within(u, size[p][tl[p].file]) BY <1>2, <1>3, MovedMethods, WithinMethods
<1>5. job'.at # "publish" /\ job'.mode # "rewritten"
  <2>1. CASE FlushIdle(p) BY <2>1 DEF FlushIdle, Begin, Idle
  <2>2. CASE CloseOne(p)
    <3>1. job \in Job /\ job.at = "closing" /\ job.mode = "stop"
      BY <2>2 DEF CloseOne, TypeInv, TypeOK, FollowerOK, JobOK
    <3> QED BY <2>2, <3>1 DEF CloseOne, Job
  <2> QED BY <2>1, <2>2
<1>6. Recorded(p, disk'[p], u) BY <1>1, SameRecord
<1> HIDE DEF u
<1>7. u.on => Within(u, size[p][u.file]) BY <1>4 DEF Moved
<1> QED BY <1>1, <1>4, <1>5, <1>6, <1>7, ResumeOne

LEMMA PersistResume ==
  ASSUME TypeInv, AckInv, RetireInv, ResumeInv, TypeInv', NEW due \in SUBSET Paths, PersistOwed(due)
  PROVE  ResumeInv' /\ NoRegress
<1> DEFINE owing == {q \in due : tl[q].on /\ tl[q].owed}
           new == [q \in Paths |-> IF q \in owing THEN RecordOf(tl[q]) ELSE disk[q]]
<1>1. /\ UNCHANGED fsvars /\ job.at = "persist" /\ job' = Idle /\ Save(new)
      /\ \A q \in Paths : tl'[q] = IF q \in owing THEN [tl[q] EXCEPT !.owed = FALSE] ELSE tl[q]
  BY DEF PersistOwed
<1>2. job'.at = "idle" /\ job'.mode = "" BY <1>1 DEF Idle
<1>3. ASSUME NEW p \in Paths
      PROVE  /\ Moved(tl'[p], tl[p]) /\ Recorded(p, disk'[p], tl'[p])
             /\ tl'[p].on => Within(tl'[p], size[p][tl'[p].file])
  <2>1. disk'[p] = disk[p] \/ (p \in owing /\ disk'[p] = RecordOf(tl[p]))
    <3>1. disk'[p] = new[p] \/ disk'[p] = disk[p] BY <1>1, SaveEach
    <3> QED BY <3>1
  <2>2. CASE ~tl[p].on
    <3>1. tl'[p] = tl[p] /\ disk'[p] = disk[p] BY <1>1, <2>1, <2>2
    <3> QED BY <2>2, <3>1, SameRecord DEF Moved
  <2>3. CASE tl[p].on
    <3> DEFINE t == tl[p]
               n == size[p][t.file]
    <3>1. t \in Tailer /\ Shaped(t) /\ n \in Nat /\ Within(t, n) /\ ~Leaving(p)
      BY <1>1, <2>3, ResumeFacts DEF Leaving
    <3>2. tl'[p] = t \/ tl'[p] = [t EXCEPT !.owed = FALSE] BY <1>1
    <3>3. Moved(tl'[p], t) /\ Within(tl'[p], n)
      <4>1. Moved(t, t) /\ Moved([t EXCEPT !.owed = FALSE], t) BY <2>3, <3>1, MovedMethods
      <4>2. Within([t EXCEPT !.owed = FALSE], n)
        <5> HIDE DEF n
        <5> QED BY <3>1, WithinMethods
      <4> QED BY <3>1, <3>2, <4>1, <4>2
    <3>4. tl'[p].on /\ tl'[p].file = t.file /\ tl'[p].ack = t.ack BY <2>3, <3>1, <3>2 DEF Tailer
    <3>5. p \in owing => Recorded(p, RecordOf(t), tl'[p])
      <4> SUFFICES ASSUME t.owed PROVE Recorded(p, RecordOf(t), tl'[p]) OBVIOUS
      <4>1. t.cpack = t.ack /\ t.ack \in Nat /\ t.ack <= n BY <3>1 DEF Shaped, Within, Tailer
      <4> QED BY <2>3, <3>1, <3>4, <4>1, RecordOfRecorded
    <3> QED BY <2>1, <3>3, <3>4, <3>5, SameRecord
  <2> QED BY <2>2, <2>3
<1> QED BY <1>1, <1>2, <1>3, ResumeKept

LEMMA QuietResume ==
  ASSUME TypeInv, AckInv, RetireInv, ResumeInv, TypeInv',
         \/ Shutdown \/ FinalFlush \/ Start \/ RecoverSave \/ Recovered
         \/ \E p \in Paths : Unmatched(p) \/ Reloaded(p) \/ Recover(p)
  PROVE  ResumeInv' /\ NoRegress
<1>1. job \in Job BY DEF TypeInv, TypeOK, FollowerOK
<1>2. /\ UNCHANGED <<fsvars, tl>> /\ job.at \in {"idle", "closing", "down", "recover", "flushed"}
  BY DEF Shutdown, FinalFlush, Start, RecoverSave, Recovered, Unmatched, Reloaded, Recover
<1>3. job'.at # "publish" /\ job'.mode # "rewritten"
  <2>1. job.mode # "rewritten" BY DEF ResumeInv
  <2>2. CASE Shutdown \/ Start \/ Recovered
    <3>1. CASE Shutdown BY <3>1 DEF Shutdown, Idle
    <3>2. CASE Start BY <3>2 DEF Start, Idle
    <3>3. CASE Recovered BY <3>3 DEF Recovered, Idle
    <3> QED BY <2>2, <3>1, <3>2, <3>3
  <2>3. CASE FinalFlush BY <1>1, <2>1, <2>3 DEF FinalFlush, At, Job
  <2>4. CASE RecoverSave BY <1>1, <2>1, <2>4 DEF RecoverSave, Job
  <2>5. CASE \E p \in Paths : Unmatched(p) \/ Reloaded(p)
    BY <2>5 DEF Unmatched, Reloaded, Begin, Idle
  <2>6. ASSUME NEW p \in Paths, Recover(p) PROVE job'.at # "publish" /\ job'.mode # "rewritten"
    <3> DEFINE errand(s) == [job EXCEPT !.at = s, !.path = p, !.mode = "recover", !.n = 0]
    <3>1. \/ job' = errand("flush") \/ job' = [errand("flushed") EXCEPT !.ok = FALSE]
          \/ job.at = "recover" /\ job' = [job EXCEPT !.todo = job.todo \ {p}]
      BY <2>6 DEF Recover
    <3>2. CASE job' = errand("flush") \/ job' = [errand("flushed") EXCEPT !.ok = FALSE]
      BY <1>1, <3>2 DEF Job
    <3>3. CASE job.at = "recover" /\ job' = [job EXCEPT !.todo = job.todo \ {p}]
      BY <1>1, <2>1, <3>3 DEF Job
    <3> QED BY <3>1, <3>2, <3>3
  <2> QED BY <2>2, <2>3, <2>4, <2>5, <2>6
<1>4. ASSUME NEW q \in Paths
      PROVE  disk'[q].fpc = disk[q].fpc /\ disk'[q].acked = disk[q].acked /\ disk'[q].had = disk[q].had
  <2>1. CASE disk'[q] = disk[q] BY <2>1
  <2>2. CASE disk'[q] = [disk EXCEPT ![job.path].tail = NoTail][q]
    <3>1. \A r \in Record : /\ [r EXCEPT !.tail = NoTail].fpc = r.fpc
                            /\ [r EXCEPT !.tail = NoTail].acked = r.acked
                            /\ [r EXCEPT !.tail = NoTail].had = r.had
          BY DEF Record
    <3> QED BY <2>2, <3>1 DEF TypeInv, TypeOK, FollowerOK
  <2>3. UNCHANGED disk \/ Save(disk) \/ Save([disk EXCEPT ![job.path].tail = NoTail])
        BY DEF Shutdown, FinalFlush, Start, RecoverSave, Recovered, Unmatched, Reloaded, Recover
  <2> QED BY <2>1, <2>2, <2>3, SaveEach
<1>5. ASSUME NEW p \in Paths
      PROVE  /\ Moved(tl'[p], tl[p]) /\ Recorded(p, disk'[p], tl'[p])
             /\ tl'[p].on => Within(tl'[p], size[p][tl'[p].file])
  <2>1. Recorded(p, disk'[p], tl'[p]) BY <1>4 DEF Recorded
  <2>2. ~Leaving(p) BY <1>2 DEF Leaving
  <2>3. tl[p].on => Moved(tl[p], tl[p]) /\ Within(tl[p], size[p][tl[p].file])
    BY <2>2, ResumeFacts, MovedMethods
  <2> QED BY <1>2, <2>1, <2>3 DEF Moved
<1> QED BY <1>2, <1>3, <1>5, ResumeKept

\* Opening: ensure takes up the record of the content it finds.
LEMMA EnsureResume ==
  ASSUME TypeInv, AckInv, RetireInv, ResumeInv, StartAt # "beginning", NEW p \in Paths, Ensure(p)
  PROVE  ResumeInv' /\ NoRegress
<1> DEFINE g == live[p]
           n == ResumeAt(p)
           u == Opened(g, disk[p], n)
<1>1. /\ job.at = "idle" /\ present[p] /\ UNCHANGED <<fsvars, job, disk>> /\ tl' = [tl EXCEPT ![p] = u]
  BY DEF Ensure
<1>2. g \in Gens /\ g # 0 /\ size[p][g] \in Nat /\ g \in 0 .. MaxGen
  <2>1. g \in Gens /\ g # 0 /\ g \in 0 .. MaxGen
    BY <1>1, FollowAssumption DEF TypeInv, TypeOK, FileOK, DirOK, Gens
  <2>2. size[p][g] \in 0 .. MaxPos BY <2>1 DEF TypeInv, TypeOK, DirOK
  <2> QED BY <2>1, <2>2, FollowAssumption
<1>3. disk[p].acked \in Nat /\ disk[p].tail \in Tail BY DEF TypeInv, TypeOK, FollowerOK, Record
<1>4. n \in Nat /\ n <= size[p][g] BY <1>2, <1>3 DEF ResumeAt
<1>5. disk[p].fpc = g => disk[p].acked <= n
  <2> SUFFICES ASSUME disk[p].fpc = g PROVE disk[p].acked <= n OBVIOUS
  <2>1. disk[p].had /\ disk[p].acked <= size[p][g] BY <1>1, <1>2 DEF ResumeInv
  <2> QED BY <1>2, <1>3, <2>1 DEF ResumeAt
<1> HIDE DEF n
<1>6. /\ u.on /\ u.file = g /\ u.ack = n /\ u.infl = n /\ u.pend = n /\ u.off = n /\ u.fpw = n
      /\ ~u.owed /\ (n > 0 => u.fpc = g)
  <2>1. NoTailer \in Tailer BY RestingTypes
  <2> QED BY <1>2, <1>3, <1>4, <2>1 DEF Opened, SetFingerprint, Reset, Tailer, NoTailer
<1> HIDE DEF u
<1>7. Shaped(u) /\ Within(u, size[p][g]) BY <1>4, <1>6 DEF Shaped, Within
<1>8. tl'[p] = u /\ \A q \in Paths : q # p => tl'[q] = tl[q]
  BY <1>1 DEF TypeInv, TypeOK, FollowerOK
<1>9. UNCHANGED <<live, present, size>> BY <1>1 DEF fsvars
<1>10. ASSUME NEW q \in Paths, tl'[q].on
       PROVE  /\ Shaped(tl'[q])
              /\ disk[q].fpc = tl'[q].file /\ tl'[q].file = live[q] => disk[q].acked <= tl'[q].ack
              /\ ~Leaving(q)' => Within(tl'[q], size[q][tl'[q].file])
  <2>1. CASE q = p BY <1>5, <1>6, <1>7, <1>8, <2>1
  <2>2. CASE q # p
    <3>1. tl'[q] = tl[q] BY <1>8, <2>2
    <3>2. ~Leaving(q) BY <1>1 DEF Leaving
    <3> QED BY <1>10, <3>1, <3>2 DEF ResumeInv
  <2> QED BY <2>1, <2>2
<1>11. NoRegress BY <1>1, SameDisk
<1> QED BY <1>1, <1>9, <1>10, <1>11 DEF ResumeInv

LEMMA OwnersResume ==
  ASSUME TypeInv, AckInv, RetireInv, ResumeInv, Owners, "rewrite" \notin Moves
  PROVE  ResumeInv' /\ NoRegress
<1>1. PICK q \in Paths :
        \/ AppendRecord(q) \/ AppendFragment(q) \/ Create(q)
        \/ \E found \in BOOLEAN : Rotate(q, found) \/ Remove(q, found)
        \/ \E n \in 0 .. MaxPos : Rewrite(q, n)
  BY DEF Owners
<1>2. UNCHANGED <<tl, job, disk>>
  BY <1>1 DEF AppendRecord, AppendFragment, Create, Rotate, Remove, Rewrite, others
<1>3. ASSUME NEW p \in Paths
      PROVE  /\ live'[p] \in {live[p], live[p] + 1}
             /\ present'[p] => live'[p] # live[p] \/ present[p]
             /\ \A g \in Gens : size[p][g] <= size'[p][g]
  <2>1. /\ live \in [Paths -> 0 .. MaxGen] /\ present \in [Paths -> BOOLEAN]
        /\ size \in [Paths -> [Gens -> 0 .. MaxPos]]
        /\ live[p] \in Nat /\ \A g \in Gens : size[p][g] \in Nat
    BY FollowAssumption DEF TypeInv, TypeOK, DirOK
  <2>2. CASE AppendRecord(q)
    <3>1. /\ UNCHANGED <<live, present>>
          /\ size' = [size EXCEPT ![q] = [size[q] EXCEPT ![live[q]] = size[q][live[q]] + 1]]
      BY <2>1, <2>2 DEF AppendRecord
    <3>2. \A g \in Gens : size'[p][g] = size[p][g] \/ size'[p][g] = size[p][g] + 1 BY <2>1, <3>1
    <3> QED BY <2>1, <3>1, <3>2
  <2>3. CASE AppendFragment(q) BY <2>1, <2>3 DEF AppendFragment
  <2>4. CASE Create(q) BY <2>1, <2>4 DEF Create
  <2>5. CASE \E found \in BOOLEAN : Rotate(q, found) BY <2>1, <2>5 DEF Rotate
  <2>6. CASE \E found \in BOOLEAN : Remove(q, found) BY <2>1, <2>6 DEF Remove
  <2> QED BY <1>1, <2>2, <2>3, <2>4, <2>5, <2>6 DEF Rewrite
<1>4. ASSUME NEW p \in Paths, tl[p].on
      PROVE  /\ Shaped(tl[p])
             /\ disk[p].fpc = tl[p].file /\ tl[p].file = live'[p] => disk[p].acked <= tl[p].ack
             /\ ~Leaving(p) => Within(tl[p], size'[p][tl[p].file])
  <2>1. /\ tl[p] \in Tailer /\ Shaped(tl[p]) /\ tl[p].file \in Gens /\ size[p][tl[p].file] \in Nat
        /\ ~Leaving(p) => Within(tl[p], size[p][tl[p].file])
    BY <1>4, ResumeFacts
  <2>2. tl[p].file <= live[p] /\ tl[p].file \in Nat /\ live[p] \in Nat
    BY <1>4, <2>1, FollowAssumption DEF AckInv, TypeInv, TypeOK, DirOK, Gens
  <2>3. tl[p].file = live'[p] => tl[p].file = live[p] BY <1>3, <2>2
  <2>4. size[p][tl[p].file] <= size'[p][tl[p].file] BY <1>3, <2>1
  <2>5. size'[p][tl[p].file] \in Nat
    <3>1. TypeInv' BY TypeStep DEF Next
    <3>2. size'[p][tl[p].file] \in 0 .. MaxPos BY <2>1, <3>1 DEF TypeInv, TypeOK, DirOK
    <3> QED BY <3>2, FollowAssumption
  <2>6. ~Leaving(p) => Within(tl[p], size'[p][tl[p].file])
    BY <2>1, <2>4, <2>5 DEF Within, Tailer
  <2>7. disk[p].fpc = tl[p].file /\ tl[p].file = live[p] => disk[p].acked <= tl[p].ack
    BY <1>4 DEF ResumeInv
  <2> QED BY <2>1, <2>3, <2>6, <2>7
<1>5. ASSUME NEW p \in Paths
      PROVE  /\ disk[p].fpc # 0 => disk[p].had
             /\ present'[p] /\ disk[p].fpc = live'[p] => disk[p].acked <= size'[p][live'[p]]
  <2>1. disk[p].fpc # 0 => disk[p].had BY DEF ResumeInv
  <2>2. ASSUME present'[p], disk[p].fpc = live'[p] PROVE disk[p].acked <= size'[p][live'[p]]
    <3>1. disk[p].fpc <= live[p] /\ disk[p].fpc \in Nat /\ live[p] \in Nat /\ disk[p].acked \in Nat
      BY FollowAssumption DEF AckInv, RecordInv, TypeInv, TypeOK, DirOK, FollowerOK, Record
    <3>2. live'[p] = live[p] /\ present[p] BY <1>3, <2>2, <3>1
    <3>3. live[p] \in Gens BY <3>1, <3>2, FollowAssumption DEF TypeInv, TypeOK, DirOK, FileOK, Gens
    <3>4. disk[p].acked <= size[p][live[p]] BY <2>2, <3>2 DEF ResumeInv
    <3>5. size[p][live[p]] <= size'[p][live[p]] BY <1>3, <3>3
    <3>6. size[p][live[p]] \in Nat /\ size'[p][live[p]] \in Nat
      <4>1. TypeInv' BY TypeStep DEF Next
      <4>2. size[p][live[p]] \in 0 .. MaxPos /\ size'[p][live[p]] \in 0 .. MaxPos
        BY <3>3, <4>1 DEF TypeInv, TypeOK, DirOK
      <4> QED BY <4>2, FollowAssumption
    <3> QED BY <3>1, <3>2, <3>4, <3>5, <3>6
  <2> QED BY <2>1, <2>2
<1>6. job.at = "publish" => tl[job.path].off < size'[job.path][tl[job.path].file]
  <2> SUFFICES ASSUME job.at = "publish" PROVE tl[job.path].off < size'[job.path][tl[job.path].file]
    OBVIOUS
  <2>1. PICK p \in Paths : p = job.path /\ tl[p].on BY DEF TypeInv, JobOK
  <2>2. tl[p].off < size[p][tl[p].file] BY <2>1 DEF ResumeInv
  <2>3. tl[p].off \in Nat /\ tl[p].file \in Gens /\ size[p][tl[p].file] \in Nat
    BY <2>1, ResumeFacts DEF Tailer
  <2>4. size[p][tl[p].file] <= size'[p][tl[p].file] BY <1>3, <2>3
  <2>5. size'[p][tl[p].file] \in Nat
    <3>1. TypeInv' BY TypeStep DEF Next
    <3>2. size'[p][tl[p].file] \in 0 .. MaxPos BY <2>3, <3>1 DEF TypeInv, TypeOK, DirOK
    <3> QED BY <3>2, FollowAssumption
  <2> QED BY <2>1, <2>2, <2>3, <2>4, <2>5
<1>7. \A p \in Paths : Leaving(p)' = Leaving(p) BY <1>2 DEF Leaving
<1>8. NoRegress BY <1>2, SameDisk
<1> QED BY <1>2, <1>4, <1>5, <1>6, <1>7, <1>8 DEF ResumeInv

\* What a delivery leaves of the job.
LEMMA DeliveringJob ==
  ASSUME TypeInv, RetireInv, Delivering
  PROVE  /\ job'.mode = job.mode /\ job'.path = job.path
         /\ job'.at = job.at \/ (job.at \in Letting /\ job'.at \in Letting)
<1>1. job \in Job BY DEF TypeInv, TypeOK, FollowerOK
<1>2. CASE UNCHANGED job BY <1>2
<1>3. CASE \E F \in SUBSET queue : PollFlushTake(F)
  <2>1. job.at = "flush" /\ job' = [job EXCEPT !.at = "wait", !.n = job.n + 1]
    BY <1>3 DEF PollFlushTake
  <2> QED BY <1>1, <2>1 DEF Job, Letting
<1>4. CASE PollFlushNil
  <2>1. job.at = "flush" /\ job' = [job EXCEPT !.at = "flushed", !.ok = TRUE] BY <1>4 DEF PollFlushNil
  <2> QED BY <1>1, <2>1 DEF Job, Letting
<1>5. CASE \E own, h \in BOOLEAN : MetaRefused(own, h)
  <2>1. PICK own \in BOOLEAN : /\ own => job.at = "flush"
                               /\ job' = IF own THEN [job EXCEPT !.at = "flushed", !.ok = FALSE] ELSE job
    BY <1>5 DEF MetaRefused
  <2>2. CASE own
    <3>1. job.at = "flush" /\ job' = [job EXCEPT !.at = "flushed", !.ok = FALSE] BY <2>1, <2>2
    <3> QED BY <1>1, <3>1 DEF Job, Letting
  <2>3. CASE ~own BY <2>1, <2>3
  <2> QED BY <2>2, <2>3
<1>6. ASSUME NEW nil, NEW again, Verdict(nil, again)
      PROVE  /\ job'.mode = job.mode /\ job'.path = job.path
             /\ job'.at = job.at \/ (job.at \in Letting /\ job'.at \in Letting)
  BY <1>6, VerdictRetire
<1> QED BY <1>2, <1>3, <1>4, <1>5, <1>6
  DEF Delivering, FlushTake, StoreCommit, FlushAccepted, FlushRequeued, FlushDropped, HoldExpires

LEMMA DeliveringResume ==
  ASSUME TypeInv, AckInv, RetireInv, ResumeInv, TypeInv', Delivering
  PROVE  ResumeInv' /\ NoRegress
<1>1. /\ job'.mode = job.mode /\ job'.path = job.path
      /\ job'.at = job.at \/ (job.at \in Letting /\ job'.at \in Letting)
  BY DeliveringJob
<1>2. UNCHANGED fsvars
  BY DEF Delivering, FlushTake, PollFlushTake, PollFlushNil, StoreCommit, FlushAccepted,
         FlushRequeued, FlushDropped, MetaRefused, HoldExpires
<1>3. job'.mode # "rewritten" BY <1>1 DEF ResumeInv
<1>4. \A p \in Paths : Leaving(p)' = Leaving(p) BY <1>1 DEF Leaving, Letting
\* Each tailer is left alone or observed.
<1>5. ASSUME NEW p \in Paths
      PROVE  \/ tl'[p] = tl[p] /\ disk'[p] = disk[p]
             \/ tl[p].on /\ tl'[p] = MarkInflight(tl[p]) /\ disk'[p] = disk[p]
             \/ tl[p].on /\ tl'[p] = MarkHoled(tl[p]) /\ disk'[p] = disk[p]
             \/ tl[p].on /\ tl'[p] = MarkHoled(MarkInflight(tl[p])) /\ disk'[p] = disk[p]
             \/ tl[p].on /\ tl'[p] = ClearHole(tl[p]) /\ disk'[p] = disk[p]
             \/ /\ tl[p].on /\ HasInflight(tl[p])
                /\ \E now \in BOOLEAN : tl'[p] = CommitInflight(tl[p], now)
                /\ disk'[p] = disk[p] \/ disk'[p] = RecordOf(tl'[p])
  <2>1. CASE UNCHANGED <<tl, disk>> BY <2>1
  <2>2. CASE UNCHANGED disk /\ tl' = BeginFlush BY <2>2 DEF BeginFlush
  <2>3. CASE UNCHANGED disk /\ tl' = Frozen
    <3>1. PICK b : b = (IF whole THEN tl[p] ELSE BeginFlush[p]) OBVIOUS
    <3>2. tl'[p] = IF b.on THEN MarkHoled(b) ELSE b BY <2>3, <3>1 DEF Frozen
    <3>3. b = tl[p] \/ (tl[p].on /\ b = MarkInflight(tl[p])) BY <3>1 DEF BeginFlush
    <3>4. tl[p] \in Tailer BY DEF TypeInv, TypeOK, FollowerOK
    <3>5. MarkInflight(tl[p]).on = tl[p].on BY <3>4, ObserversRead DEF SameRead
    <3> QED BY <2>3, <3>2, <3>3, <3>5
  <2>4. ASSUME NEW due \in SUBSET Paths, FlushAccepted(due), whole
        PROVE  \/ tl'[p] = tl[p] /\ disk'[p] = disk[p]
               \/ tl[p].on /\ tl'[p] = ClearHole(tl[p]) /\ disk'[p] = disk[p]
               \/ /\ tl[p].on /\ HasInflight(tl[p])
                  /\ \E now \in BOOLEAN : tl'[p] = CommitInflight(tl[p], now)
                  /\ disk'[p] = disk[p] \/ disk'[p] = RecordOf(tl'[p])
    <3> DEFINE now == p \in due
               new == [q \in Paths |-> IF q \in Saving(due) THEN RecordOf(tl'[q]) ELSE disk[q]]
    <3>1. now \in BOOLEAN OBVIOUS
    <3>2. tl'[p] = Committed(tl[p], now) BY <2>4, Zenon DEF FlushAccepted
    <3>3. Save(new) BY <2>4, Zenon DEF FlushAccepted
    <3>4. disk'[p] = new[p] \/ disk'[p] = disk[p] BY <3>3, SaveEach
    <3>5. \/ disk'[p] = disk[p]
          \/ disk'[p] = RecordOf(tl'[p]) /\ tl[p].on /\ ~tl[p].holed /\ HasInflight(tl[p])
      BY <3>4 DEF Saving
    <3> HIDE DEF now
    <3>6. CASE ~tl[p].on BY <3>2, <3>5, <3>6 DEF Committed
    <3>7. CASE tl[p].on /\ tl[p].holed BY <3>2, <3>5, <3>7 DEF Committed
    <3>8. CASE tl[p].on /\ ~tl[p].holed /\ HasInflight(tl[p])
      <4>1. tl'[p] = CommitInflight(tl[p], now) BY <3>2, <3>8 DEF Committed
      <4> QED BY <3>1, <3>5, <3>8, <4>1
    <3>9. CASE tl[p].on /\ ~tl[p].holed /\ ~HasInflight(tl[p]) BY <3>2, <3>5, <3>9 DEF Committed
    <3> QED BY <3>6, <3>7, <3>8, <3>9
  <2> QED BY <2>1, <2>2, <2>3, <2>4
    DEF Delivering, FlushTake, PollFlushTake, PollFlushNil, StoreCommit, FlushAccepted,
        FlushRequeued, FlushDropped, MetaRefused, HoldExpires
<1>6. ASSUME NEW p \in Paths
      PROVE  /\ Moved(tl'[p], tl[p]) /\ Recorded(p, disk'[p], tl'[p])
             /\ tl'[p].on /\ ~Leaving(p) => Within(tl'[p], size[p][tl'[p].file])
             /\ tl[p].on => tl'[p].off = tl[p].off /\ tl'[p].file = tl[p].file
  <2>1. CASE ~tl[p].on
    <3>1. tl'[p] = tl[p] /\ disk'[p] = disk[p] BY <1>5, <2>1
    <3> QED BY <2>1, <3>1, SameRecord DEF Moved
  <2>2. CASE tl[p].on
    <3> DEFINE t == tl[p]
               n == size[p][t.file]
               b == MarkInflight(t)
    <3>1. t \in Tailer /\ Shaped(t) /\ n \in Nat /\ (~Leaving(p) => Within(t, n))
      BY <2>2, ResumeFacts
    <3> HIDE DEF n
    <3>2. b \in Tailer /\ Moved(b, t) /\ (Within(t, n) => Within(b, n)) /\ SameRead(b, t)
      <4>1. b \in Tailer BY <3>1, TailerTypes, FollowAssumption
      <4>2. Moved(b, t) BY <2>2, <3>1, MovedMethods
      <4>3. Within(t, n) => Within(b, n) BY <3>1, WithinMethods
      <4>4. SameRead(b, t) BY <3>1, ObserversRead
      <4> QED BY <4>1, <4>2, <4>3, <4>4
    <3>3. b.on /\ Shaped(b) BY <2>2, <3>2 DEF Moved, SameRead
    <3> HIDE DEF b
    <3>4. /\ MarkHoled(b) \in Tailer /\ Moved(MarkHoled(b), t) /\ SameRead(MarkHoled(b), t)
          /\ Within(b, n) => Within(MarkHoled(b), n)
      <4>1. MarkHoled(b) \in Tailer /\ Moved(MarkHoled(b), b) /\ SameRead(MarkHoled(b), b)
        <5>1. MarkHoled(b) \in Tailer BY <3>2, TailerTypes, FollowAssumption
        <5>2. Moved(MarkHoled(b), b) BY <3>2, <3>3, MovedMethods
        <5>3. SameRead(MarkHoled(b), b) BY <3>2, ObserversRead
        <5> QED BY <5>1, <5>2, <5>3
      <4>2. MarkHoled(b).ack \in Nat /\ b.ack \in Nat /\ t.ack \in Nat BY <3>1, <3>2, <4>1 DEF Tailer
      <4>3. Moved(MarkHoled(b), t) BY <3>2, <4>1, <4>2, MovedTwice
      <4>4. Within(b, n) => Within(MarkHoled(b), n) BY <3>1, <3>2, WithinMethods
      <4> QED BY <3>2, <4>1, <4>3, <4>4 DEF SameRead
    <3>5. /\ Moved(MarkHoled(t), t) /\ SameRead(MarkHoled(t), t)
          /\ Moved(ClearHole(t), t) /\ SameRead(ClearHole(t), t) /\ SameRead(t, t) /\ Moved(t, t)
          /\ Within(t, n) => Within(MarkHoled(t), n) /\ Within(ClearHole(t), n)
      BY <2>2, <3>1, MovedMethods, WithinMethods, ObserversRead DEF SameRead
    <3>6. CASE HasInflight(t) /\ \E now \in BOOLEAN : tl'[p] = CommitInflight(t, now)
      <4>1. PICK now \in BOOLEAN : tl'[p] = CommitInflight(t, now) BY <3>6
      <4> DEFINE u == CommitInflight(t, now)
      <4>2. Moved(u, t) /\ SameRead(u, t) /\ (Within(t, n) => Within(u, n))
        BY <2>2, <3>1, <3>6, MovedMethods, WithinMethods, ObserversRead
      <4>3. u.fpc = t.fpc /\ u.cpack = t.infl /\ u.ack = t.infl /\ t.ack < t.infl /\ t.infl \in Nat /\ t.ack \in Nat
        BY <3>1, <3>6 DEF CommitInflight, HasInflight, Tailer
      <4>4. ~Leaving(p) => t.infl <= n BY <3>1 DEF Within
      <4> HIDE DEF u
      <4>5. Recorded(p, RecordOf(u), u) BY <2>2, <4>3, <4>4, RecordOfRecorded DEF n
      <4>6. disk'[p] = disk[p] \/ disk'[p] = RecordOf(u) BY <1>5, <4>1 DEF u
      <4>7. Recorded(p, disk'[p], u) BY <4>5, <4>6, SameRecord
      <4> QED BY <2>2, <3>1, <4>1, <4>2, <4>7 DEF u, n, SameRead
    <3>7. CASE /\ disk'[p] = disk[p]
               /\ tl'[p] \in {t, b, MarkHoled(t), MarkHoled(b), ClearHole(t)}
      <4>1. Moved(tl'[p], t) /\ SameRead(tl'[p], t) /\ (Within(t, n) => Within(tl'[p], n))
        BY <3>2, <3>4, <3>5, <3>7
      <4> QED BY <2>2, <3>1, <3>7, <4>1, SameRecord DEF n, SameRead
    <3> QED BY <1>5, <3>6, <3>7 DEF b
  <2> QED BY <2>1, <2>2
<1>7. job'.at = "publish" => tl'[job'.path].off < size[job'.path][tl'[job'.path].file]
  <2> SUFFICES ASSUME job'.at = "publish"
               PROVE  tl'[job'.path].off < size[job'.path][tl'[job'.path].file]
    OBVIOUS
  <2>1. job.at = "publish" BY <1>1 DEF Letting
  <2>2. job.path \in Paths /\ tl[job.path].on BY <2>1 DEF TypeInv, JobOK
  <2> QED BY <1>1, <1>6, <2>1, <2>2 DEF ResumeInv
<1> QED BY <1>2, <1>3, <1>4, <1>6, <1>7, ResumeKept

\* What a stop writes is owed, so acknowledged; a crash writes nothing.
LEMMA DownRecorded ==
  ASSUME TypeInv, AckInv, RetireInv, ResumeInv, Crash \/ ShutdownSave, NEW p \in Paths
  PROVE  Recorded(p, disk'[p], tl'[p]) /\ Moved(tl'[p], tl[p]) /\ ~tl'[p].on
<1>1. ~tl'[p].on BY DEF Crash, ShutdownSave, Down, NoTailer
<1>2. CASE disk'[p] = disk[p] BY <1>1, <1>2, SameRecord DEF Moved
<1>3. CASE disk'[p] # disk[p]
  <2> DEFINE t == tl[p]
             new == [q \in Paths |-> IF tl[q].on /\ tl[q].owed THEN RecordOf(tl[q]) ELSE disk[q]]
  <2>1. Save(new) /\ job.mode = "stop" BY <1>3 DEF Crash, ShutdownSave
  <2>2. disk'[p] = new[p] BY <1>3, <2>1, SaveEach
  <2>3. t.on /\ t.owed /\ disk'[p] = RecordOf(t) BY <1>3, <2>2
  <2>4. ~Leaving(p) BY <2>1 DEF Leaving
  <2>5. t \in Tailer /\ Shaped(t) /\ Within(t, size[p][t.file]) BY <2>3, <2>4, ResumeFacts
  <2>6. t.cpack = t.ack /\ t.ack \in Nat /\ t.ack <= size[p][t.file]
    BY <2>3, <2>5 DEF Shaped, Within, Tailer
  <2>7. Recorded(p, RecordOf(t), tl'[p]) BY <1>1, <2>3, <2>6, RecordOfRecorded
  <2> QED BY <1>1, <2>3, <2>7 DEF Moved
<1> QED BY <1>2, <1>3

LEMMA DownResume ==
  ASSUME TypeInv, AckInv, RetireInv, ResumeInv, TypeInv', Crash \/ ShutdownSave
  PROVE  ResumeInv' /\ NoRegress
<1>1. UNCHANGED fsvars BY DEF Crash, ShutdownSave
<1>2. job' = [Idle EXCEPT !.at = "down"] BY DEF Crash, ShutdownSave, Down
<1>3. job'.at = "down" /\ job'.mode = "" BY <1>2 DEF Idle
<1> QED BY <1>1, <1>3, DownRecorded, ResumeKept

LEMMA ResumeInit == Init => ResumeInv
<1> SUFFICES ASSUME Init PROVE ResumeInv OBVIOUS
<1>1. \A p \in Paths : ~tl[p].on /\ disk[p].fpc = 0 /\ ~present[p]
      BY DEF Init, NoTailer, NoRecord
<1>2. job.at = "idle" /\ job.mode = "" BY DEF Init, Idle
<1> QED BY <1>1, <1>2 DEF ResumeInv

LEMMA ResumeStep ==
  ASSUME TypeInv, AckInv, RetireInv, ResumeInv, [Next]_vars,
         "rewrite" \notin Moves, StartAt # "beginning"
  PROVE  ResumeInv' /\ NoRegress
<1>1. TypeInv' BY TypeStep
<1>2. CASE Delivering BY <1>1, <1>2, DeliveringResume
<1>3. CASE Owners BY <1>3, OwnersResume
<1>4. CASE Crash BY <1>1, <1>4, DownResume
<1>6. CASE Cancel \/ UNCHANGED vars
  <2>1. UNCHANGED <<tl, disk, job, live, present, size>> BY <1>6 DEF vars, fsvars, Cancel
  <2>2. \A p \in Paths : Leaving(p)' = Leaving(p) BY <2>1 DEF Leaving
  <2>3. NoRegress BY <2>1, SameDisk
  <2> QED BY <2>1, <2>2, <2>3 DEF ResumeInv
<1>5. CASE Polling
  <2>1. ~RestartRead BY DEF RestartRead, ResumeInv
  <2> QED BY <1>1, <1>5, <1>6, <2>1, EnsureResume, SweepResume, QuietResume, WindowResume, ReadingResume,
             PersistResume, DrainResume, CloseResume, DownResume
          DEF Polling
<1> QED BY <1>2, <1>3, <1>4, <1>5, <1>6 DEF Next

\* The resume record of the file at a path never moves backwards (EndFlush, persistOwed,
\* closeTailer, noteRotated), so a restart re-reads no more than the previous one would have; only
\* "--start-at beginning" and a rewrite in place begin again.
THEOREM ResumeOnlyAdvances ==
  ASSUME "rewrite" \notin Moves, StartAt # "beginning"
  PROVE  Spec => ResumeNeverRegresses
<1> DEFINE Inv == TypeInv /\ AckInv /\ RetireInv /\ ResumeInv
<1>1. Init => Inv BY TypeInit, AckInit, RetireInit, ResumeInit
<1>2. Inv /\ [Next]_vars => Inv' BY TypeStep, AckStep, RetireStep, ResumeStep
<1>3. Inv /\ [Next]_vars => [NoRegress]_vars BY ResumeStep
<1>4. ResumeNeverRegresses <=> [][NoRegress]_vars
  BY DEF ResumeNeverRegresses, NoRegress
<1> QED BY <1>1, <1>2, <1>3, <1>4, PTL DEF Spec

=============================================================================
