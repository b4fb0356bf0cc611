-------------------------------- MODULE Sink --------------------------------
(***************************************************************************)
(* The ingest sink (internal/ingest/sink.go): writers put samples into per *)
(* set buffers under a cap, and whoever calls Flush - a writer that filled *)
(* a batch, the ticker, Close - sends the buffers to the store in requests *)
(* bounded by a body budget, one request at a time.  The delivery          *)
(* observers are abstracted to what they are told: BeginFlush marks every  *)
(* sample handed over so far, EndFlush acknowledges the mark.              *)
(***************************************************************************)
EXTENDS Naturals, Sequences, FiniteSets, SequencesExt, FiniteSetsExt

CONSTANTS
  Writers,      \* goroutines that call Add or AddSample
  Sets,         \* destination sets, 1 .. n in the order takeLocked sorts them
  Puts,         \* bound: samples of each writer
  SetOf,        \* SetOf[<<w, i>>]: where writer w's i-th sample goes
  Bytes,        \* Bytes[<<w, i>>]: what the sample occupies in a body
  Bad,          \* samples the store refuses by name inside a 200 response
  Unencodable,  \* samples encodable() refuses
  Decls,        \* field and set declarations, one body unit each
  BatchSize, BatchBytes, MinBatchBytes, MaxBuffered, MaxFatalDrops, MaxRounds,
  EnvelopeBytes,  \* a batch's set name and brackets
  StoreLimit,   \* the store's max_request_bytes
  Failures,     \* subset of {"auth", "retry", "cancel", "fatal"}
  MaxFail       \* bound: failed requests

Sample == UNION {{w} \X (1 .. Puts[w]) : w \in Writers}

ASSUME SinkAssumption ==
  /\ IsFiniteSet(Writers) /\ Puts \in [Writers -> Nat]
  /\ IsFiniteSet(Sets) /\ Sets = 1 .. Cardinality(Sets)
  /\ SetOf \in [Sample -> Sets] /\ Bytes \in [Sample -> Nat]
  /\ Bad \subseteq Sample /\ Unencodable \subseteq Sample
  /\ Failures \subseteq {"auth", "retry", "cancel", "fatal"}
  /\ MaxBuffered \in Nat \ {0}
  /\ BatchSize > 0 /\ MaxRounds > 0 /\ MinBatchBytes > 0

VARIABLES
  buffers,      \* buffers[set]: samples waiting, oldest first
  pending,      \* Sink.pending
  inflight,     \* Sink.inflight
  writer,       \* writer[w]: where w is inside Add
  puts,         \* puts[w]: samples w has handed over
  snd,          \* the Flush that holds sendMu
  metaSent,     \* declarations queued so far
  metaQ,        \* Sink.metaQ and Sink.setQ
  hold,         \* holdUntil lies in the future
  budget,       \* Sink.batchBytes
  drops,        \* Stats.FatalDrop
  gaveUp,       \* the GaveUp channel is closed
  closing,      \* Close: "open", "flush", "again", "closed"
  \* The store and the observers.
  stored, dropped, metaDone,
  whole,        \* the last take was announced
  mark, acked,  \* what BeginFlush marked, what EndFlush acknowledged
  fails

wvars == <<writer, puts>>
world == <<stored, dropped, metaDone, whole, mark, acked>>
vars == <<buffers, pending, inflight, wvars, snd, metaSent, metaQ, hold, budget,
          drops, gaveUp, closing, world, fails>>

\* Buffers and requests are samples by set.
Empty == [s \in Sets |-> <<>>]
Elements(f) == UNION {Range(f[s]) : s \in Sets}
Count(f) == Cardinality(UNION {{s} \X DOMAIN f[s] : s \in Sets})

Free == [at |-> "free", by |-> "", round |-> 0, meta |-> {}, batch |-> Empty,
         partial |-> FALSE, before |-> 0]

Handed == {x \in Sample : x[2] <= puts[x[1]]}
Settled == stored \cup Bad

-----------------------------------------------------------------------------
(* Writers.                                                                *)

\* Add refuses a sample that cannot be marshalled, before any lock.
Screen(w) ==
  /\ closing = "open" /\ writer[w] = "idle" /\ puts[w] < Puts[w]
  /\ <<w, puts[w] + 1>> \in Unencodable
  /\ puts' = [puts EXCEPT ![w] = @ + 1]
  /\ UNCHANGED <<metaSent, buffers, pending, inflight, writer, snd, metaQ, hold, budget,
                 drops, gaveUp, closing, world, fails>>

\* Mutant: what is in flight has left the buffer.
WaitRoomPending(w) ==
  /\ closing = "open" /\ writer[w] \in {"idle", "check"} /\ puts[w] < Puts[w]
  /\ <<w, puts[w] + 1>> \notin Unencodable
  /\ writer' = [writer EXCEPT ![w] = IF pending >= MaxBuffered THEN "wait" ELSE "room"]
  /\ UNCHANGED <<metaSent, buffers, pending, inflight, puts, snd, metaQ, hold,
                 budget, drops, gaveUp, closing, world, fails>>

\* waitRoom: the cap counts what is buffered and what is in flight.  The lock
\* is released between this check and the append.
WaitRoom(w) ==
  /\ closing = "open" /\ writer[w] \in {"idle", "check"} /\ puts[w] < Puts[w]
  /\ <<w, puts[w] + 1>> \notin Unencodable
  /\ writer' = [writer EXCEPT ![w] =
                  IF pending + inflight >= MaxBuffered THEN "wait" ELSE "room"]
  /\ UNCHANGED <<metaSent, buffers, pending, inflight, puts, snd, metaQ, hold, budget,
                 drops, gaveUp, closing, world, fails>>

\* The append of Add and AddSample.
Put(w) ==
  LET x == <<w, puts[w] + 1>> IN
  /\ writer[w] = "room"
  /\ buffers' = [buffers EXCEPT ![SetOf[x]] = Append(@, x)]
  /\ puts' = [puts EXCEPT ![w] = @ + 1]
  /\ pending' = pending + 1
  /\ writer' = [writer EXCEPT ![w] = IF pending + 1 >= BatchSize THEN "flush" ELSE "idle"]
  /\ UNCHANGED <<metaSent, inflight, snd, metaQ, hold, budget, drops, gaveUp, closing, world, fails>>

\* The caller of Add is cancelled while it waits: the sample is not queued.
WaitCancelled(w) ==
  /\ "cancel" \in Failures /\ writer[w] \in {"wait", "check"}
  /\ writer' = [writer EXCEPT ![w] = "idle"]
  /\ UNCHANGED <<metaSent, buffers, pending, inflight, puts, snd, metaQ, hold, budget,
                 drops, gaveUp, closing, world, fails>>

\* Mutant: nobody is woken.
WokenNobody(ws) == ws

\* room.Broadcast: every waiting writer looks again.
Woken(ws) == [w \in Writers |-> IF ws[w] = "wait" THEN "check" ELSE ws[w]]

\* DeclareFields and DeclareSets queue each declaration once.
Declare(d) ==
  /\ closing = "open" /\ d \notin metaSent
  /\ metaSent' = metaSent \cup {d}
  /\ metaQ' = metaQ \cup {d}
  /\ UNCHANGED <<buffers, pending, inflight, wvars, snd, hold, budget, drops,
                 gaveUp, closing, world, fails>>

-----------------------------------------------------------------------------
(* Flush.                                                                  *)

\* The caller gets sendMu.
Flush(c) ==
  /\ snd.at = "free"
  /\ \/ c \in Writers /\ writer[c] = "flush"
     \/ c = "ticker" /\ closing = "open"
     \/ c = "close" /\ closing \in {"flush", "again"}
  /\ snd' = [Free EXCEPT !.at = "round", !.by = c, !.round = 1,
                      !.before = pending]
  /\ UNCHANGED <<metaSent, buffers, pending, inflight, wvars, metaQ, hold, budget, drops,
                 gaveUp, closing, world, fails>>

\* Flush returns: a writer leaves Add; Close goes on while there is progress.
Return(ws, ok) ==
  /\ snd' = Free
  /\ writer' = IF snd.by \in Writers THEN [ws EXCEPT ![snd.by] = "idle"] ELSE ws
  /\ closing' = IF snd.by # "close" THEN closing
                ELSE IF ok /\ pending > 0 /\ (closing = "flush" \/ pending < snd.before)
                     THEN "again" ELSE "closed"

\* flushRound while holding: waiters are woken and nothing is sent.
RoundHeld ==
  /\ snd.at = "round" /\ hold
  /\ UNCHANGED <<metaSent, buffers, pending, inflight, puts, metaQ, hold, budget, drops,
                 gaveUp, world, fails>>
  /\ Return(Woken(writer), TRUE)

\* Mutant: a hold delays nothing.
TakeMetaHeld ==
  /\ snd.at = "round"
  /\ snd' = [snd EXCEPT !.at = "take", !.meta = metaQ]
  /\ metaQ' = {}
  /\ UNCHANGED <<metaSent, buffers, pending, inflight, wvars, hold, budget, drops,
                 gaveUp, closing, world, fails>>

\* The declarations leave the queue first, charged to the same body.
TakeMeta ==
  /\ snd.at = "round" /\ ~hold
  /\ snd' = [snd EXCEPT !.at = "take", !.meta = metaQ]
  /\ metaQ' = {}
  /\ UNCHANGED <<metaSent, buffers, pending, inflight, wvars, hold, budget, drops, gaveUp,
                 closing, world, fails>>

\* sampleBudget: never below one, since zero means no bound.
SampleBudget ==
  IF budget = 0 THEN 0
  ELSE IF budget > Cardinality(snd.meta) THEN budget - Cardinality(snd.meta) ELSE 1

\* What the samples of a request occupy in its body, with the envelope of each set.
Size(f) == FoldSet(LAMBDA x, n : Bytes[x] + n, 0, Elements(f))
             + EnvelopeBytes * Cardinality({s \in Sets : f[s] # <<>>})

\* The first n[s] samples of each set, and the rest.
Heads(n) == [s \in Sets |-> SubSeq(buffers[s], 1, n[s])]
Tails(n) == [s \in Sets |-> SubSeq(buffers[s], n[s] + 1, Len(buffers[s]))]

\* takeLocked: set by set, the longest run of samples that fits, and at least
\* one however large it is.
Runs == {n \in [Sets -> 0 .. pending] :
           /\ \A s \in Sets : n[s] <= Len(buffers[s])
           /\ \A s, t \in Sets : s < t /\ n[t] > 0 => n[s] = Len(buffers[s])
           /\ Heads(n) # Empty}
Fits(n) == Count(Heads(n)) = 1 \/ SampleBudget = 0 \/ Size(Heads(n)) <= SampleBudget
TakeLocked == {n \in Runs : Fits(n) /\ \A m \in Runs : Fits(m) => \A s \in Sets : m[s] <= n[s]}

\* Mutant: every take is announced.
TakeAnnounced ==
  /\ snd.at = "take" /\ pending > 0
  /\ \E n \in TakeLocked : LET batch == Heads(n) IN
     /\ snd' = [snd EXCEPT !.at = "sent", !.batch = batch]
     /\ buffers' = Tails(n)
     /\ pending' = pending - Count(batch)
     /\ inflight' = inflight + Count(batch)
     /\ whole' = (pending = Count(batch))
     /\ mark' = Handed
  /\ UNCHANGED <<metaSent, wvars, metaQ, hold, budget, drops, gaveUp, closing,
                 stored, dropped, metaDone, acked, fails>>

\* The take; one that empties the buffer is announced under the same lock.
Take ==
  /\ snd.at = "take" /\ pending > 0
  /\ \E n \in TakeLocked : LET batch == Heads(n) IN
     /\ snd' = [snd EXCEPT !.at = "sent", !.batch = batch,
                           !.partial = (pending > Count(batch))]
     /\ buffers' = Tails(n)
     /\ pending' = pending - Count(batch)
     /\ inflight' = inflight + Count(batch)
     /\ whole' = (pending = Count(batch))
     /\ mark' = IF pending = Count(batch) THEN Handed ELSE mark
  /\ UNCHANGED <<metaSent, wvars, metaQ, hold, budget, drops, gaveUp, closing,
                 stored, dropped, metaDone, acked, fails>>

\* Nothing buffered: sendMeta, unless there is nothing to declare either.
TakeNothing ==
  /\ snd.at = "take" /\ pending = 0
  /\ IF snd.meta = {}
     THEN Return(writer, TRUE)
     ELSE /\ snd' = [snd EXCEPT !.at = "meta"]
          /\ UNCHANGED <<metaSent, writer, closing>>
  /\ UNCHANGED <<metaSent, buffers, pending, inflight, puts, metaQ, hold, budget, drops,
                 gaveUp, world, fails>>

-----------------------------------------------------------------------------
(* The request, and how it ends.                                           *)

\* releaseInflight: never below zero.
ReleaseInflight ==
  inflight' = IF Count(snd.batch) > inflight THEN 0 ELSE inflight - Count(snd.batch)

TooLarge == Size(snd.batch) + Cardinality(snd.meta) > StoreLimit

\* The store applies the declarations and commits some of the samples; the
\* answer may still be lost.
StoreCommit(S) ==
  /\ snd.at = "sent" /\ ~TooLarge
  /\ S \subseteq Elements(snd.batch) \ Bad
  /\ stored' = stored \cup S
  /\ metaDone' = metaDone \cup snd.meta
  /\ UNCHANGED <<metaSent, buffers, pending, inflight, wvars, snd, metaQ, hold, budget,
                 drops, gaveUp, closing, dropped, whole, mark, acked, fails>>

\* 200: the cap gets its room back, the hold is over, and an announced batch
\* is acknowledged.
Accepted ==
  /\ snd.at = "sent" /\ Elements(snd.batch) \subseteq Settled /\ snd.meta \subseteq metaDone
  /\ ReleaseInflight
  /\ hold' = FALSE
  /\ acked' = IF snd.partial THEN acked ELSE mark
  /\ IF snd.partial /\ snd.round < MaxRounds
     THEN /\ snd' = [Free EXCEPT !.at = "round", !.by = snd.by, !.round = snd.round + 1,
                                 !.before = snd.before]
          /\ writer' = Woken(writer)
          /\ UNCHANGED closing
     ELSE Return(Woken(writer), TRUE)
  /\ UNCHANGED <<metaSent, buffers, pending, puts, metaQ, budget, drops, gaveUp, stored,
                 dropped, metaDone, whole, mark, fails>>

\* Mutants: the batch goes back uncounted, behind what was queued since, into
\* or not at all.
PutBackUncounted ==
  /\ buffers' = [s \in Sets |-> snd.batch[s] \o buffers[s]]
  /\ UNCHANGED pending
PutBackLast ==
  /\ buffers' = [s \in Sets |-> buffers[s] \o snd.batch[s]]
  /\ pending' = pending + Count(snd.batch)
PutBackNothing == UNCHANGED <<buffers, pending>>

\* requeueBatches: at the head of each set's buffer.  The samples still count
\* as in flight until the next step.
PutBack ==
  /\ buffers' = [s \in Sets |-> snd.batch[s] \o buffers[s]]
  /\ pending' = pending + Count(snd.batch)

\* Mutant: the budget stays.
NotShrunk == budget

\* shrinkBatchBytes
Shrunk == IF budget \div 2 < MinBatchBytes THEN MinBatchBytes ELSE budget \div 2

\* 413 above the floor: halve the budget and put the batch back.
RefusedTooLarge ==
  /\ snd.at = "sent" /\ TooLarge /\ budget > MinBatchBytes
  /\ budget' = Shrunk
  /\ PutBack
  /\ snd' = [snd EXCEPT !.at = "back"]
  /\ UNCHANGED <<metaSent, inflight, wvars, metaQ, hold, drops, gaveUp, closing, world, fails>>

\* A cancelled caller, a refused credential, or retries used up.
Failed(why) ==
  /\ snd.at = "sent" /\ fails < MaxFail /\ why \in Failures
  /\ why = "cancel" => snd.by # "ticker"
  /\ fails' = fails + 1
  /\ PutBack
  /\ snd' = [snd EXCEPT !.at = IF why = "cancel" THEN "back" ELSE "backhold"]
  /\ UNCHANGED <<metaSent, inflight, wvars, metaQ, hold, budget, drops, gaveUp, closing, world>>

\* releaseInflight, requeueMeta and, for the last two, holdDelivery.
Requeued ==
  /\ snd.at \in {"back", "backhold"}
  /\ ReleaseInflight
  /\ metaQ' = metaQ \cup snd.meta
  /\ hold' = (hold \/ snd.at = "backhold")
  /\ UNCHANGED <<metaSent, buffers, pending, puts, budget, drops, gaveUp, world, fails>>
  /\ Return(Woken(writer), FALSE)

\* ErrFatal, or a 413 at the floor: the samples are gone and make room.
Rejected ==
  /\ snd.at = "sent"
  /\ \/ TooLarge /\ budget <= MinBatchBytes /\ UNCHANGED fails
     \/ ~TooLarge /\ "fatal" \in Failures /\ fails < MaxFail /\ fails' = fails + 1
  /\ drops' = drops + 1
  /\ ReleaseInflight
  /\ writer' = Woken(writer)
  /\ snd' = [snd EXCEPT !.at = "lost"]
  /\ UNCHANGED <<metaSent, buffers, pending, puts, metaQ, hold, budget, gaveUp, closing, world>>

\* reportLost, discardMeta and give-up.
ReportLost ==
  /\ snd.at = "lost"
  /\ dropped' = dropped \cup Elements(snd.batch)
  /\ mark' = IF snd.partial THEN Handed ELSE mark
  /\ gaveUp' = (gaveUp \/ (MaxFatalDrops > 0 /\ drops >= MaxFatalDrops))
  /\ UNCHANGED <<metaSent, buffers, pending, inflight, puts, metaQ, hold, budget, drops,
                 stored, metaDone, whole, acked, fails>>
  /\ Return(writer, ~(MaxFatalDrops > 0 /\ drops >= MaxFatalDrops))

\* sendMeta
MetaSent ==
  /\ snd.at = "meta" /\ ~TooLarge
  /\ metaDone' = metaDone \cup snd.meta
  /\ UNCHANGED <<metaSent, buffers, pending, inflight, puts, metaQ, hold, budget, drops,
                 gaveUp, stored, dropped, whole, mark, acked, fails>>
  /\ Return(writer, TRUE)

MetaRejected ==
  /\ snd.at = "meta"
  /\ \/ TooLarge /\ UNCHANGED fails
     \/ ~TooLarge /\ "fatal" \in Failures /\ fails < MaxFail /\ fails' = fails + 1
  /\ UNCHANGED <<metaSent, buffers, pending, inflight, puts, metaQ, hold, budget, drops,
                 gaveUp, stored, dropped, metaDone, whole, mark, acked>>
  /\ Return(writer, TRUE)

MetaFailed(why) ==
  /\ snd.at = "meta" /\ fails < MaxFail /\ why \in Failures \ {"fatal"}
  /\ why = "cancel" => snd.by # "ticker"
  /\ fails' = fails + 1
  /\ metaQ' = metaQ \cup snd.meta
  /\ hold' = (hold \/ why = "auth")
  /\ UNCHANGED <<metaSent, buffers, pending, inflight, puts, budget, drops, gaveUp, world>>
  /\ Return(writer, FALSE)

HoldExpires ==
  /\ hold
  /\ hold' = FALSE
  /\ UNCHANGED <<metaSent, buffers, pending, inflight, wvars, snd, metaQ, budget, drops,
                 gaveUp, closing, world, fails>>

\* Close, called when no writer is left: the ticker stops between two of its
\* flushes, the hold is cleared, then flushes as long as they help.
Close ==
  /\ closing = "open" /\ snd.at = "free"
  /\ \A w \in Writers : writer[w] = "idle"
  /\ closing' = "flush"
  /\ hold' = FALSE
  /\ UNCHANGED <<metaSent, buffers, pending, inflight, wvars, snd, metaQ, budget, drops,
                 gaveUp, world, fails>>

-----------------------------------------------------------------------------
Callers == Writers \cup {"ticker", "close"}

Init ==
  /\ buffers = [s \in Sets |-> <<>>] /\ pending = 0 /\ inflight = 0
  /\ writer = [w \in Writers |-> "idle"] /\ puts = [w \in Writers |-> 0]
  /\ snd = Free /\ metaSent = {} /\ metaQ = {} /\ hold = FALSE
  /\ budget = BatchBytes /\ drops = 0 /\ gaveUp = FALSE /\ closing = "open"
  /\ stored = {} /\ dropped = {} /\ metaDone = {}
  /\ whole = FALSE /\ mark = {} /\ acked = {} /\ fails = 0

Writing ==
  \/ \E w \in Writers : Screen(w) \/ WaitRoom(w) \/ Put(w) \/ WaitCancelled(w)
  \/ \E d \in Decls : Declare(d)

Sending ==
  \/ \E c \in Callers : Flush(c)
  \/ RoundHeld \/ TakeMeta \/ Take \/ TakeNothing
  \/ \E S \in SUBSET Elements(snd.batch) : StoreCommit(S)
  \/ Accepted \/ RefusedTooLarge \/ Rejected \/ ReportLost \/ Requeued
  \/ \E why \in Failures \ {"fatal"} : Failed(why) \/ MetaFailed(why)
  \/ MetaSent \/ MetaRejected
  \/ HoldExpires

Next == Writing \/ Sending \/ Close

Spec == Init /\ [][Next]_vars

\* Goroutines that have begun a step of Add or Flush go on; the mutex and the
\* ticker let every caller of Flush in again and again (a Go mutex hands over
\* to a starving waiter); the client bounds its retries; a hold runs out.
Fairness ==
  /\ \A w \in Writers : /\ WF_vars(writer[w] = "check" /\ WaitRoom(w))
                        /\ WF_vars(Put(w)) /\ SF_vars(Flush(w))
  /\ SF_vars(Flush("ticker")) /\ SF_vars(Flush("close"))
  /\ WF_vars(RoundHeld \/ TakeMeta \/ Take \/ TakeNothing)
  /\ WF_vars(StoreCommit(Elements(snd.batch) \ Bad)) /\ WF_vars(Accepted)
  /\ WF_vars(RefusedTooLarge) /\ WF_vars(TooLarge /\ Rejected)
  /\ WF_vars(ReportLost) /\ WF_vars(Requeued)
  /\ WF_vars(MetaSent) /\ WF_vars(TooLarge /\ MetaRejected)
  /\ WF_vars(HoldExpires)

FairSpec == Spec /\ Fairness

-----------------------------------------------------------------------------
(* Properties.                                                             *)

Flying == IF snd.at \in {"sent", "lost"} THEN Elements(snd.batch) ELSE {}
InFlight == IF snd.at \in {"sent", "back", "backhold"} THEN Count(snd.batch) ELSE 0

\* The two counters the cap, the batch trigger and Close are decided on agree
\* with the buffers at every step of every outcome.
CountersExact == pending = Count(buffers) /\ inflight = InFlight

\* A sample handed to the sink is in memory exactly once until it is settled
\* or abandoned: no outcome loses it silently, no requeue doubles it.
NoneLostNoneTwice ==
  /\ \A s \in Sets : IsInjective(buffers[s])
  /\ Elements(buffers) \cap Flying = {}
  /\ Handed \ Unencodable \subseteq Elements(buffers) \cup Flying \cup Settled \cup dropped

\* Requests and requeues keep each writer's samples in the order it queued
\* them, what is in flight before what waits.
OrderKept ==
  \A s \in Sets :
    LET q == (IF snd.at = "sent" THEN snd.batch[s] ELSE <<>>) \o buffers[s]
    IN  \A i, j \in 1 .. Len(q) : i < j /\ q[i][1] = q[j][1] => q[i][2] < q[j][2]

\* What EndFlush acknowledges the store holds, or has refused, or the
\* observers were told is lost: an announced batch covers the whole backlog.
AckCovers == acked \ Unencodable \subseteq Settled \cup dropped

\* The cap is soft by at most one sample per further writer, because the
\* check and the append are two critical sections.
Held == Elements(buffers) \cup (IF snd.at = "sent" THEN Elements(snd.batch) ELSE {})
SoftCap == Cardinality(Held) <= MaxBuffered + Cardinality(Writers) - 1

\* The sink implements the delivery contract its feeders rely on.
D == INSTANCE Delivery
       WITH Samples <- Sample, Bad <- Bad, queue <- Elements(buffers), flying <- Flying,
            whole <- whole, hold <- hold \/ snd.at = "backhold",
            stored <- stored, dropped <- dropped
Implements == D!DSpec

\* Every sample handed over is settled or abandoned in the end, unless the
\* process closes the sink first; a writer that waits for room gets it.
EventuallyOut ==
  \A x \in Sample \ Unencodable :
    x \in Handed ~> (x \in Settled \cup dropped \/ closing = "closed")
NoWriterStuck ==
  \A w \in Writers : writer[w] = "wait" ~> writer[w] \notin {"wait", "check"}

=============================================================================
