--------------------------- MODULE ReceiveProofs ----------------------------
(***************************************************************************)
(* Proofs about Receive, for any records, senders, connections, requests   *)
(* and limits.                                                             *)
(***************************************************************************)
EXTENDS Receive, FiniteSetTheorems, TLAPS

-----------------------------------------------------------------------------
(* The inductive invariant.                                                *)

Steps == {"off", "ready", "lookup", "drain", "emit", "process", "add", "idle", "ticked"}
Job == [at : Steps, peer : Peers \cup {""}, rec : Recs \cup {""}, ps : Ids \cup {None},
        out : SUBSET Recs, todo : SUBSET Ids, ticks : SUBSET Ids]

TypeOK ==
  /\ taken \subseteq Recs /\ refused \subseteq Recs
  /\ queue \in Seq(Recs)
  /\ job \in [Handlers -> Job]
  /\ tracked \in [Peers -> Ids \cup {None}]
  /\ held \in [Ids -> SUBSET Recs]
  /\ ids \in Nat
  /\ fresh \subseteq Peers
  /\ sink \subseteq Recs /\ stored \subseteq Recs /\ turned \subseteq Recs
  /\ state \in {"serving", "stopping", "draining", "done"}
  /\ cut \subseteq Http /\ failed \subseteq Listeners /\ left \subseteq Recs
  /\ "http" \in failed => cut = Http

Queued(r) == \E i \in 1 .. Len(queue) : queue[i] = r

\* A handler whose record has not been given to its stream.
Carries(j) == j.at = "process" \/ (j.at \in {"drain", "emit"} /\ j.ps # None)
InHand(j) == j.at = "lookup" \/ Carries(j)

\* The stream that a handler works for is its sender's until it is done with it.
StreamHeld(j) == Alone => j.peer \in fresh /\ tracked[j.peer] = j.ps

JobOK(h, j) ==
  /\ j.at \notin {"drain", "emit"} => j.todo = {}
  /\ j.at \notin {"add", "emit", "ticked"} => j.out = {}
  /\ h \in {Idle, Main} => j.ps = None /\ j.at \in {"off", "drain", "emit", "idle", "ticked"}
  /\ h \in {Udp} => j.at # "off"
  /\ h # Idle => j.at \notin {"idle", "ticked"}
  /\ j.at \in {"off", "ready", "lookup"} => j.ps = None
  /\ j.at = "lookup" => j.peer = Feed[j.rec].peer
  /\ InHand(j) => /\ j.rec \in taken
                  /\ Feed[j.rec].kind \in {"plain", "hold", "close", "bad"}
  /\ Carries(j) => j.ps # None /\ j.peer \in Peers /\ StreamHeld(j)

Jobs == \A h \in Handlers : JobOK(h, job[h])

\* A record is in the queue or with one handler, and there once.
Once ==
  /\ \A i \in 1 .. Len(queue) : queue[i] \in taken
  /\ \A i, j \in 1 .. Len(queue) : queue[i] = queue[j] => i = j
  /\ \A h \in Handlers : job[h].at = "lookup" => ~Queued(job[h].rec)
  /\ \A h, g \in Handlers :
       job[h].at = "lookup" /\ job[g].at = "lookup" /\ job[h].rec = job[g].rec => h = g

\* The records that have been looked up; a stream is made for one of them.
Past == {r \in taken : /\ ~Queued(r)
                       /\ \A h \in Handlers : job[h].at = "lookup" => job[h].rec # r}
Enough == ids <= Cardinality(Past)

\* A handler that has something left to do.
Busy(h) == job[h].at # "off" /\ (h = Udp => job[h].at # "ready" \/ queue # <<>>)

Phases ==
  /\ state \in {"serving", "stopping"} => job[Main].at = "off"
  /\ state \in {"draining", "done"} /\ cut = {} =>
       (\A h \in Handlers \ {Main} : ~Busy(h)) /\ Tracked = {}
  /\ state = "done" /\ cut = {} => job[Main].at = "off" /\ sink = stored \cup left

\* Someone will flush the stream.
Cared(s) == (\E p \in Peers : tracked[p] = s) \/ (\E h \in Handlers : s \in job[h].todo)
AllCared == Alone => \A s \in Ids : held[s] # {} => Cared(s)

\* A record is somewhere.
Somewhere(r) ==
  \/ Queued(r)
  \/ \E h \in Handlers : InHand(job[h]) /\ job[h].rec = r
  \/ \E h \in Handlers : r \in job[h].out
  \/ \E s \in Ids : r \in held[s]
  \/ r \in sink \cup refused \cup turned
NoneLost == cut = {} => \A r \in taken : Somewhere(r)

IInv ==
  /\ TypeOK
  /\ Jobs
  /\ Once
  /\ Enough
  /\ Phases
  /\ AllCared
  /\ NoneLost

USE DEF ending, Alone

-----------------------------------------------------------------------------
(* Lemmas: every step is a step of one handler, and most leave most alone. *)

\* The step is handler h's.
Only(h) == job' \in [Handlers -> Job] /\ \A g \in Handlers \ {h} : job'[g] = job[g]

LEMMA HandlerFacts ==
  /\ Udp \in Handlers /\ Idle \in Handlers /\ Main \in Handlers
  /\ Udp # Idle /\ Udp # Main /\ Idle # Main
  /\ \A h \in Tcp \cup Http : h \in Handlers /\ h # Udp /\ h # Idle /\ h # Main
BY ReceiveAssumption DEF Handlers, Udp, Idle, Main

LEMMA OffFacts ==
  /\ Off \in Job /\ Off.at = "off" /\ Off.out = {} /\ Off.todo = {} /\ Off.ps = None
  /\ \A p \in Peers \cup {""} :
       /\ Ready(p) \in Job /\ Ready(p).at = "ready" /\ Ready(p).out = {} /\ Ready(p).todo = {}
       /\ Ready(p).ps = None /\ Ready(p).peer = p
<1>1. Off \in Job /\ Off.at = "off" /\ Off.out = {} /\ Off.todo = {} /\ Off.ps = None
  BY DEF Off, Job, Steps
<1>2. ASSUME NEW p \in Peers \cup {""}
      PROVE  /\ Ready(p) \in Job /\ Ready(p).at = "ready" /\ Ready(p).out = {} /\ Ready(p).todo = {}
             /\ Ready(p).ps = None /\ Ready(p).peer = p
  <2>1. "ready" \in Steps BY DEF Steps
  <2> QED BY <1>1, <2>1 DEF Ready, Job
<1> QED BY <1>1, <1>2

LEMMA JobsFrame ==
  ASSUME TypeOK, Jobs, NEW h \in Handlers, Only(h), JobOK(h, job[h])', taken \subseteq taken',
         \A g \in Handlers \ {h} : Carries(job[g]) /\ StreamHeld(job[g]) => StreamHeld(job[g])'
  PROVE  Jobs'
<1> SUFFICES ASSUME NEW g \in Handlers, g # h PROVE JobOK(g, job[g])'
  BY DEF Jobs
<1>1. job'[g] = job[g] /\ JobOK(g, job[g]) BY DEF Only, Jobs
<1> QED BY <1>1 DEF JobOK, InHand, Carries

LEMMA StreamsStay ==
  ASSUME UNCHANGED tracked, Alone' => Alone, fresh \subseteq fresh', NEW h \in Handlers, Only(h)
  PROVE  \A g \in Handlers \ {h} : StreamHeld(job[g]) => StreamHeld(job[g])'
BY DEF StreamHeld, Only

LEMMA OnceFrame ==
  ASSUME TypeOK, Once, Enough, UNCHANGED <<taken, queue, ids>>, NEW h \in Handlers, Only(h),
         job'[h].at = "lookup" <=> job[h].at = "lookup",
         job[h].at = "lookup" => job'[h].rec = job[h].rec
  PROVE  Once' /\ Enough'
<1>1. \A g \in Handlers : /\ job'[g].at = "lookup" <=> job[g].at = "lookup"
                          /\ job[g].at = "lookup" => job'[g].rec = job[g].rec
  BY DEF Only
<1>2. Once' BY <1>1 DEF Once, Queued
<1>3. Past' = Past BY <1>1 DEF Past, Queued
<1> QED BY <1>2, <1>3 DEF Enough

LEMMA PhasesFrame ==
  ASSUME TypeOK, Phases, NEW h \in Handlers, h # Main, Busy(h) \/ Serving \/ cut # {}, Only(h),
         UNCHANGED <<state, cut>>
  PROVE  Phases'
BY HandlerFacts DEF Phases, Busy, Only, Serving, TypeOK

LEMMA BusyFrame ==
  ASSUME TypeOK, Phases, NEW h \in Handlers, Busy(h), Only(h), UNCHANGED <<state, cut, tracked, queue>>
  PROVE  Phases'
<1>1. CASE h # Main BY <1>1, PhasesFrame
<1>2. CASE h = Main
  <2>1. job[Main].at # "off" BY <1>2 DEF Busy
  <2>2. state \in {"draining", "done"} /\ (state = "done" => cut # {}) BY <2>1 DEF Phases, TypeOK
  <2>3. \A g \in Handlers \ {Main} : Busy(g)' <=> Busy(g) BY <1>2 DEF Busy, Only
  <2>4. Tracked' = Tracked BY DEF Tracked
  <2> QED BY <2>2, <2>3, <2>4 DEF Phases
<1> QED BY <1>1, <1>2

LEMMA LostFrame ==
  ASSUME TypeOK, NoneLost, UNCHANGED <<taken, queue, cut>>, NEW h \in Handlers, Only(h),
         \A r \in taken :
           \/ InHand(job[h]) /\ job[h].rec = r
           \/ r \in job[h].out
           \/ \E s \in Ids : r \in held[s]
           \/ r \in sink \cup refused \cup turned
           => \/ (InHand(job[h]) /\ job[h].rec = r)'
              \/ r \in job'[h].out
              \/ \E s \in Ids : r \in held'[s]
              \/ r \in sink' \cup refused' \cup turned'
  PROVE  NoneLost'
<1> SUFFICES ASSUME cut = {}, NEW r \in taken PROVE Somewhere(r)'
  BY DEF NoneLost
<1>1. Somewhere(r) BY DEF NoneLost
<1>2. CASE Queued(r) BY <1>2 DEF Somewhere, Queued
<1>3. CASE \/ InHand(job[h]) /\ job[h].rec = r
           \/ r \in job[h].out
           \/ \E s \in Ids : r \in held[s]
           \/ r \in sink \cup refused \cup turned
  BY <1>3 DEF Somewhere
<1>4. CASE \E g \in Handlers \ {h} : (InHand(job[g]) /\ job[g].rec = r) \/ r \in job[g].out
  <2> PICK g \in Handlers \ {h} : (InHand(job[g]) /\ job[g].rec = r) \/ r \in job[g].out BY <1>4
  <2>1. job'[g] = job[g] BY DEF Only
  <2> QED BY <2>1 DEF Somewhere, InHand, Carries
<1> QED BY <1>1, <1>2, <1>3, <1>4 DEF Somewhere

LEMMA CaredFrame ==
  ASSUME TypeOK, AllCared, UNCHANGED tracked, Alone' => Alone, NEW h \in Handlers, Only(h),
         \A s \in Ids : held'[s] # {} /\ Alone =>
           /\ held[s] # {} \/ \E p \in Peers : tracked[p] = s
           /\ s \in job[h].todo => s \in job'[h].todo
  PROVE  AllCared'
<1> SUFFICES ASSUME Alone, NEW s \in Ids, held'[s] # {} PROVE Cared(s)'
  BY DEF AllCared
<1>1. Cared(s) BY DEF AllCared, Cared
<1> QED BY <1>1 DEF Cared, Only

\* A handler goes on with what it has.
LEMMA GoesOn ==
  ASSUME IInv, NEW h \in Handlers, h # Main, Busy(h) \/ Serving \/ cut # {}, Only(h), JobOK(h, job[h])',
         UNCHANGED <<taken, refused, queue, tracked, held, ids, fresh, sink, stored, turned, ending>>,
         job'[h].todo = job[h].todo, job'[h].out = job[h].out,
         InHand(job[h])' <=> InHand(job[h]), InHand(job[h]) => job'[h].rec = job[h].rec,
         job'[h].at = "lookup" <=> job[h].at = "lookup"
  PROVE  IInv'
<1>1. TypeOK' BY DEF IInv, TypeOK, Only
<1>2. Jobs' BY StreamsStay, JobsFrame DEF IInv
<1>3. Once' /\ Enough' BY OnceFrame DEF IInv, InHand
<1>4. Phases' BY PhasesFrame DEF IInv
<1>5. AllCared' BY CaredFrame DEF IInv
<1>6. NoneLost' BY LostFrame DEF IInv
<1> QED BY <1>1, <1>2, <1>3, <1>4, <1>5, <1>6 DEF IInv

-----------------------------------------------------------------------------
(* Arrivals.                                                               *)

LEMMA AcceptStep ==
  ASSUME IInv, NEW h \in Tcp \cup Http, NEW p \in Peers, Accept(h, p)
  PROVE  IInv'
<1> USE HandlerFacts, OffFacts
<1>1. /\ job[h].at = "off" /\ Reachable(h) /\ job' = [job EXCEPT ![h] = Ready(p)]
      /\ UNCHANGED <<taken, refused, queue, tracked, held, ids, fresh, sink, stored, turned, ending>>
  BY DEF Accept
<1>2. Only(h) /\ job'[h] = Ready(p) BY <1>1 DEF IInv, TypeOK, Only
<1>3. JobOK(h, job[h])'
  <2>1. p \in Peers \cup {""} OBVIOUS
  <2>2. /\ Ready(p).at = "ready" /\ Ready(p).out = {} /\ Ready(p).todo = {} /\ Ready(p).ps = None
    BY <2>1, OffFacts
  <2>3. /\ job'[h].at = "ready" /\ job'[h].out = {} /\ job'[h].todo = {} /\ job'[h].ps = None
    BY <1>2, <2>2
  <2> QED BY <2>3 DEF JobOK, InHand, Carries
<1>4. job[h].todo = {} /\ job[h].out = {} BY <1>1 DEF IInv, Jobs, JobOK
<1>5. Serving \/ cut # {}
  <2>1. Serving \/ (h \in Http /\ "http" \in failed) BY <1>1 DEF Reachable
  <2> QED BY <2>1 DEF IInv, TypeOK
<1> QED BY <1>1, <1>2, <1>3, <1>4, <1>5, GoesOn DEF InHand, Carries

LEMMA HangupStep ==
  ASSUME IInv, NEW h \in Tcp \cup Http, Hangup(h) \/ Unblock(h)
  PROVE  IInv'
<1> USE HandlerFacts, OffFacts
<1>1. /\ job[h].at = "ready" /\ job' = [job EXCEPT ![h] = Off]
      /\ UNCHANGED <<taken, refused, queue, tracked, held, ids, fresh, sink, stored, turned, ending>>
  BY DEF Hangup, Unblock
<1>2. Only(h) /\ job'[h] = Off BY <1>1 DEF IInv, TypeOK, Only
<1>3. JobOK(h, job[h])' BY <1>2 DEF JobOK, InHand, Carries
<1>4. job[h].todo = {} /\ job[h].out = {} /\ Busy(h) BY <1>1 DEF IInv, Jobs, JobOK, Busy
<1> QED BY <1>1, <1>2, <1>3, <1>4, GoesOn DEF InHand, Carries

\* Records that are past their lookup stay so, and the count of streams with them.
LEMMA MorePast ==
  ASSUME TypeOK, TypeOK', Enough, Past \subseteq Past', ids' = ids
  PROVE  Enough'
<1>1. IsFiniteSet(Past') BY FS_Subset, ReceiveAssumption DEF Past, TypeOK
<1>2. Cardinality(Past) <= Cardinality(Past') /\ Cardinality(Past) \in Nat /\ Cardinality(Past') \in Nat
  BY <1>1, FS_Subset, FS_CardinalityType
<1> QED BY <1>2 DEF Enough, TypeOK

\* A record in hand, that nobody else has: what a stream does not need goes to the sink.
LEMMA HandlingStep ==
  ASSUME IInv, NEW h \in Handlers, h \notin {Idle, Main}, Busy(h) \/ Serving, NEW r \in Recs,
         job[h].at = "ready", Handling(h, r), r \in taken',
         \/ /\ taken' = taken /\ queue # <<>> /\ r = Head(queue) /\ queue' = Tail(queue)
         \/ /\ taken' = taken \cup {r} /\ r \notin taken /\ queue' = queue,
         UNCHANGED <<tracked, held, ids, fresh, sink, stored, turned, ending>>
  PROVE  IInv'
<1> USE HandlerFacts
<1> DEFINE now == [job[h] EXCEPT !.peer = Feed[r].peer, !.rec = r]
           added == [now EXCEPT !.at = "add", !.out = {r}]
           looked == [now EXCEPT !.at = "lookup"]
<1>1. job \in [Handlers -> Job] /\ job[h] \in Job /\ JobOK(h, job[h]) /\ queue \in Seq(Recs) /\ taken \subseteq Recs
  BY DEF IInv, TypeOK, Jobs
<1>2. Feed[r].peer \in Peers /\ Feed[r].kind \in {"plain", "hold", "close", "bad", "sample", "invalid"}
  BY ReceiveAssumption DEF Peers
<1>3. /\ now \in Job /\ now.at = "ready" /\ now.peer = Feed[r].peer /\ now.rec = r
      /\ now.ps = job[h].ps /\ now.out = job[h].out /\ now.todo = job[h].todo
  BY <1>1, <1>2 DEF Job
<1> HIDE DEF now
<1>4. /\ added \in Job /\ added.at = "add" /\ added.out = {r} /\ added.todo = job[h].todo
      /\ looked \in Job /\ looked.at = "lookup" /\ looked.out = job[h].out /\ looked.todo = job[h].todo
      /\ looked.ps = job[h].ps /\ looked.rec = r /\ looked.peer = Feed[r].peer
  <2>1. "add" \in Steps /\ "lookup" \in Steps BY DEF Steps
  <2> QED BY <1>3, <2>1 DEF Job
<1> HIDE DEF added, looked
<1>5. job[h].out = {} /\ job[h].todo = {} BY <1>1 DEF JobOK
<1>6. \/ Feed[r].kind = "invalid" /\ refused' = refused \cup {r} /\ job' = job
      \/ Feed[r].kind = "sample" /\ refused' = refused /\ job' = [job EXCEPT ![h] = added]
      \/ /\ Feed[r].kind \in {"plain", "hold", "close", "bad"} /\ refused' = refused
         /\ job' = [job EXCEPT ![h] = looked]
  BY <1>2 DEF Handling, added, looked, now
<1>7. Only(h) /\ job'[h].todo = {}
      /\ \/ Feed[r].kind = "invalid" /\ refused' = refused \cup {r} /\ job'[h] = job[h]
         \/ Feed[r].kind = "sample" /\ refused' = refused /\ job'[h] = added
         \/ Feed[r].kind \in {"plain", "hold", "close", "bad"} /\ refused' = refused /\ job'[h] = looked
  BY <1>1, <1>4, <1>5, <1>6 DEF Only
<1>8. queue' \in Seq(Recs) /\ taken \subseteq taken' /\ taken' \subseteq Recs BY <1>1
<1>9. TypeOK' BY <1>7, <1>8 DEF IInv, TypeOK, Only
<1>10. JobOK(h, job[h])'
  <2>1. CASE job'[h] = job[h] BY <2>1, <1>1, <1>8 DEF JobOK, InHand, Carries
  <2>2. CASE job'[h] = added BY <2>2, <1>4, <1>5 DEF JobOK, InHand, Carries
  <2>3. CASE job'[h] = looked /\ Feed[r].kind \in {"plain", "hold", "close", "bad"}
    <3>1. job[h].ps = None BY <1>1 DEF JobOK
    <3> QED BY <2>3, <1>4, <1>5, <3>1 DEF JobOK, InHand, Carries
  <2> QED BY <2>1, <2>2, <2>3, <1>7
<1>11. Jobs' BY <1>7, <1>8, <1>10, StreamsStay, JobsFrame DEF IInv
<1>12. /\ ~Queued(r)'
       /\ \A x \in Recs : Queued(x)' => Queued(x)
       /\ \A x \in Recs \ {r} : Queued(x) => Queued(x)'
       /\ r \in taken => Queued(r)
       /\ \A i \in 1 .. Len(queue') : queue'[i] \in taken
       /\ \A i, j \in 1 .. Len(queue') : queue'[i] = queue'[j] => i = j
  <2>1. CASE taken' = taken /\ queue # <<>> /\ r = Head(queue) /\ queue' = Tail(queue)
    <3>1. Len(queue') = Len(queue) - 1 /\ \A i \in 1 .. Len(queue') : queue'[i] = queue[i + 1]
      BY <2>1, <1>1
    <3>2. r = queue[1] /\ Len(queue) \in Nat /\ Len(queue) >= 1 BY <2>1, <1>1
    <3>3. \A i \in 2 .. Len(queue) : i - 1 \in 1 .. Len(queue') /\ queue'[i - 1] = queue[i] BY <3>1, <3>2
    <3>4. \A i \in 1 .. Len(queue') : i + 1 \in 2 .. Len(queue) /\ i + 1 \in 1 .. Len(queue) BY <3>1, <3>2
    <3>5. /\ \A i \in 1 .. Len(queue) : queue[i] \in taken
          /\ \A i, j \in 1 .. Len(queue) : queue[i] = queue[j] => i = j
      BY DEF IInv, Once
    <3>6. ~Queued(r)' BY <3>1, <3>2, <3>4, <3>5 DEF Queued
    <3>7. \A x \in Recs : Queued(x)' => Queued(x) BY <3>1, <3>4 DEF Queued
    <3>8. \A x \in Recs \ {r} : Queued(x) => Queued(x)'
      <4> SUFFICES ASSUME NEW x \in Recs \ {r}, NEW i \in 1 .. Len(queue), queue[i] = x PROVE Queued(x)'
        BY DEF Queued
      <4>1. i \in 2 .. Len(queue) BY <3>2
      <4> QED BY <4>1, <3>3 DEF Queued
    <3>9. Queued(r) BY <3>2 DEF Queued
    <3>10. \A i \in 1 .. Len(queue') : queue'[i] \in taken BY <3>1, <3>4, <3>5
    <3>11. \A i, j \in 1 .. Len(queue') : queue'[i] = queue'[j] => i = j BY <3>1, <3>2, <3>4, <3>5
    <3> QED BY <3>6, <3>7, <3>8, <3>9, <3>10, <3>11
  <2>2. CASE taken' = taken \cup {r} /\ r \notin taken /\ queue' = queue
    BY <2>2 DEF IInv, Once, Queued
  <2> QED BY <2>1, <2>2
<1>13. \A g \in Handlers : job[g].at = "lookup" => job[g].rec \in taken /\ ~Queued(job[g].rec)
  BY DEF IInv, Jobs, JobOK, InHand, Once
<1>14. \A g \in Handlers : job'[g].at = "lookup" => \/ g # h /\ job'[g] = job[g] /\ job[g].at = "lookup"
                                                    \/ g = h /\ job'[g].rec = r
  BY <1>4, <1>7 DEF Only
<1>15. Once'
  <2>1. \A g \in Handlers : job'[g].at = "lookup" => ~Queued(job[g].rec)'
    <3> SUFFICES ASSUME NEW g \in Handlers, job'[g].at = "lookup" PROVE ~Queued(job[g].rec)'
      OBVIOUS
    <3>1. job'[g].rec = r \/ (job'[g].rec = job[g].rec /\ job[g].at = "lookup") BY <1>14
    <3>2. CASE job'[g].rec = r BY <3>2, <1>12 DEF Queued
    <3>3. CASE job'[g].rec = job[g].rec /\ job[g].at = "lookup"
      <4>1. job[g].rec \in Recs /\ ~Queued(job[g].rec) BY <3>3, <1>13, <1>1
      <4> QED BY <3>3, <4>1, <1>12 DEF Queued
    <3> QED BY <3>1, <3>2, <3>3
  <2>2. \A g \in Handlers \ {h} : job[g].at = "lookup" => job[g].rec # r BY <1>12, <1>13
  <2>3. \A g, k \in Handlers :
          job'[g].at = "lookup" /\ job'[k].at = "lookup" /\ job'[g].rec = job'[k].rec => g = k
    BY <1>14, <2>2 DEF IInv, Once
  <2> QED BY <1>8, <1>12, <2>1, <2>3 DEF Once
<1>16. Enough'
  <2>1. Past \subseteq Past'
    <3> SUFFICES ASSUME NEW x \in Past PROVE x \in Past'
      OBVIOUS
    <3>1. x \in taken /\ x \in Recs /\ ~Queued(x) /\ x # r BY <1>1, <1>12 DEF Past
    <3>2. ~Queued(x)' BY <3>1, <1>12
    <3>3. \A g \in Handlers : job'[g].at = "lookup" => job'[g].rec # x BY <3>1, <1>14 DEF Past
    <3> QED BY <3>1, <3>2, <3>3, <1>8 DEF Past
  <2> QED BY <2>1, <1>9, MorePast DEF IInv
<1>17. Phases' BY <1>7, PhasesFrame DEF IInv
<1>18. AllCared' BY <1>5, <1>7, CaredFrame DEF IInv
<1>19. NoneLost'
  <2> SUFFICES ASSUME cut = {}, NEW x \in taken' PROVE Somewhere(x)'
    BY DEF NoneLost
  <2>1. CASE x = r
    <3>1. CASE Feed[r].kind = "invalid" /\ refused' = refused \cup {r} BY <2>1, <3>1 DEF Somewhere
    <3>2. CASE job'[h] = added BY <2>1, <3>2, <1>4 DEF Somewhere
    <3>3. CASE job'[h] = looked BY <2>1, <3>3, <1>4 DEF Somewhere, InHand
    <3> QED BY <3>1, <3>2, <3>3, <1>7
  <2>2. CASE x # r
    <3>1. x \in taken /\ Somewhere(x) /\ x \in Recs BY <2>2, <1>1 DEF IInv, NoneLost
    <3>2. CASE Queued(x) BY <3>1, <3>2, <2>2, <1>12 DEF Somewhere
    <3>3. CASE \E g \in Handlers : (InHand(job[g]) /\ job[g].rec = x) \/ x \in job[g].out
      <4> PICK g \in Handlers : (InHand(job[g]) /\ job[g].rec = x) \/ x \in job[g].out BY <3>3
      <4>1. g # h BY <1>5 DEF InHand, Carries
      <4>2. job'[g] = job[g] BY <4>1, <1>7 DEF Only
      <4> QED BY <4>2 DEF Somewhere, InHand, Carries
    <3>4. CASE (\E s \in Ids : x \in held[s]) \/ x \in sink \cup refused \cup turned
      BY <3>4, <1>7 DEF Somewhere
    <3> QED BY <3>1, <3>2, <3>3, <3>4 DEF Somewhere
  <2> QED BY <2>1, <2>2
<1> QED BY <1>9, <1>11, <1>15, <1>16, <1>17, <1>18, <1>19 DEF IInv

LEMMA TakeStep ==
  ASSUME IInv, NEW h \in Tcp \cup Http, NEW r \in Recs,
         Take(h, r) \/ TakeLine(h, r) \/ TakeSample(h, r)
  PROVE  IInv'
<1>1. /\ job[h].at = "ready" /\ r \notin taken /\ taken' = taken \cup {r} /\ Handling(h, r)
      /\ UNCHANGED <<queue, tracked, held, ids, fresh, sink, stored, turned, ending>>
  BY DEF Take, TakeLine, TakeSample, Offered
<1>2. Busy(h) BY <1>1, HandlerFacts DEF Busy
<1> QED BY <1>1, <1>2, HandlingStep, HandlerFacts

LEMMA ConsumeStep ==
  ASSUME IInv, Consume
  PROVE  IInv'
<1>1. /\ job[Udp].at = "ready" /\ queue # <<>> /\ queue' = Tail(queue) /\ Handling(Udp, Head(queue))
      /\ UNCHANGED <<taken, tracked, held, ids, fresh, sink, stored, turned, ending>>
  BY DEF Consume
<1>2. queue \in Seq(Recs) BY DEF IInv, TypeOK
<1>3. Head(queue) = queue[1] /\ 1 \in 1 .. Len(queue) BY <1>1, <1>2
<1>4. Head(queue) \in taken /\ Head(queue) \in Recs BY <1>3 DEF IInv, Once, TypeOK
<1>5. Busy(Udp) BY <1>1 DEF Busy
<1> QED BY <1>1, <1>4, <1>5, HandlingStep, HandlerFacts

\* A record that is refused as it arrives.
LEMMA CutShortStep ==
  ASSUME IInv, NEW h \in Tcp \cup Http, NEW r \in Recs, CutShort(h, r)
  PROVE  IInv'
<1> USE HandlerFacts, OffFacts
<1>1. /\ job[h].at = "ready" /\ r \notin taken /\ taken' = taken \cup {r} /\ refused' = refused \cup {r}
      /\ job' = [job EXCEPT ![h] = Off]
      /\ UNCHANGED <<queue, tracked, held, ids, fresh, sink, stored, turned, ending>>
  BY DEF CutShort, Offered
<1>2. Only(h) /\ job'[h] = Off BY <1>1 DEF IInv, TypeOK, Only
<1>3. TypeOK' BY <1>1, <1>2 DEF IInv, TypeOK, Only
<1>4. job[h].todo = {} /\ job[h].out = {} /\ Busy(h) BY <1>1 DEF IInv, Jobs, JobOK, Busy
<1>5. JobOK(h, job[h])' BY <1>2 DEF JobOK, InHand, Carries
<1>6. Jobs' BY <1>1, <1>2, <1>5, StreamsStay, JobsFrame DEF IInv
<1>7. \A g \in Handlers : job'[g].at = "lookup" => job'[g] = job[g] /\ job[g].at = "lookup"
  BY <1>2 DEF Only
<1>8. Once'
  <2>1. ASSUME NEW g \in Handlers, job'[g].at = "lookup" PROVE ~Queued(job[g].rec)'
    <3>1. job'[g] = job[g] /\ ~Queued(job[g].rec) BY <1>7, <2>1 DEF IInv, Once
    <3> QED BY <3>1, <1>1 DEF Queued
  <2>2. ASSUME NEW g \in Handlers, NEW k \in Handlers, job'[g].at = "lookup", job'[k].at = "lookup",
               job'[g].rec = job'[k].rec
        PROVE  g = k
    <3>1. job[g].at = "lookup" /\ job[k].at = "lookup" /\ job[g].rec = job[k].rec BY <1>7, <2>2
    <3> QED BY <3>1 DEF IInv, Once
  <2>3. \A i \in 1 .. Len(queue) : queue[i] \in taken' BY <1>1 DEF IInv, Once
  <2>4. \A i, k \in 1 .. Len(queue) : queue[i] = queue[k] => i = k BY DEF IInv, Once
  <2>5. \A g \in Handlers : job'[g].at = "lookup" => ~Queued(job[g].rec)' /\ job'[g].rec = job[g].rec
    BY <1>7, <2>1
  <2>6. queue' = queue BY <1>1
  <2>7. \A i \in 1 .. Len(queue') : queue'[i] \in taken' BY <2>3, <2>6
  <2>8. \A i, k \in 1 .. Len(queue') : queue'[i] = queue'[k] => i = k BY <2>4, <2>6
  <2> QED BY <2>2, <2>5, <2>7, <2>8 DEF Once
<1>9. Past \subseteq Past'
  <2> SUFFICES ASSUME NEW x \in Past PROVE x \in Past'
    OBVIOUS
  <2>1. x \in taken /\ ~Queued(x) /\ \A g \in Handlers : job[g].at = "lookup" => job[g].rec # x
    BY DEF Past
  <2>2. x \in taken' /\ ~Queued(x)' BY <1>1, <2>1 DEF Queued
  <2>3. \A g \in Handlers : job'[g].at = "lookup" => job'[g].rec # x BY <1>7, <2>1
  <2> QED BY <2>2, <2>3 DEF Past
<1>10. Enough' BY <1>1, <1>3, <1>9, MorePast DEF IInv
<1>11. Phases' BY <1>1, <1>2, <1>4, PhasesFrame DEF IInv
<1>12. AllCared' BY <1>1, <1>2, <1>4, CaredFrame DEF IInv
<1>13. NoneLost'
  <2> SUFFICES ASSUME cut = {}, NEW x \in taken' PROVE Somewhere(x)'
    BY <1>1 DEF NoneLost
  <2>1. CASE x = r BY <2>1, <1>1 DEF Somewhere
  <2>2. CASE x # r
    <3>1. Somewhere(x) BY <2>2, <1>1 DEF IInv, NoneLost
    <3>2. CASE Queued(x) BY <3>2, <1>1 DEF Somewhere, Queued
    <3>3. CASE \E g \in Handlers : (InHand(job[g]) /\ job[g].rec = x) \/ x \in job[g].out
      <4> PICK g \in Handlers : (InHand(job[g]) /\ job[g].rec = x) \/ x \in job[g].out BY <3>3
      <4>1. g # h BY <1>1, <1>4 DEF InHand, Carries
      <4>2. job'[g] = job[g] BY <4>1, <1>2 DEF Only
      <4> QED BY <4>2 DEF Somewhere, InHand, Carries
    <3>4. CASE (\E s \in Ids : x \in held[s]) \/ x \in sink \cup refused \cup turned
      BY <3>4, <1>1 DEF Somewhere
    <3> QED BY <3>1, <3>2, <3>3, <3>4 DEF Somewhere
  <2> QED BY <2>1, <2>2
<1> QED BY <1>3, <1>6, <1>8, <1>10, <1>11, <1>12, <1>13 DEF IInv

LEMMA DatagramStep ==
  ASSUME IInv, NEW r \in Recs, NEW whole \in BOOLEAN, Datagram(r, whole)
  PROVE  IInv'
<1> USE HandlerFacts
<1>1. /\ Serving /\ r \notin taken /\ taken' = taken \cup {r}
      /\ \/ queue' = Append(queue, r) /\ refused' = refused
         \/ refused' = refused \cup {r} /\ queue' = queue
      /\ UNCHANGED <<job, tracked, held, ids, fresh, sink, stored, turned, ending>>
  <2>1. /\ Serving /\ r \notin taken /\ taken' = taken \cup {r}
        /\ UNCHANGED <<job, tracked, held, ids, fresh, sink, stored, turned, ending>>
    BY DEF Datagram
  <2>2. \/ queue' = Append(queue, r) /\ refused' = refused
        \/ refused' = refused \cup {r} /\ queue' = queue
    <3>1. CASE Feed[r].peer \in Allowed /\ whole /\ Len(queue) < UDPQueue BY <3>1, Zenon DEF Datagram
    <3>2. CASE ~(Feed[r].peer \in Allowed /\ whole /\ Len(queue) < UDPQueue) BY <3>2, Zenon DEF Datagram
    <3> QED BY <3>1, <3>2
  <2> QED BY <2>1, <2>2
<1>2. queue \in Seq(Recs) /\ taken \subseteq Recs /\ Len(queue) \in Nat BY DEF IInv, TypeOK
<1>3. TypeOK' BY <1>1 DEF IInv, TypeOK
<1>4. /\ \A x \in Recs \ {r} : Queued(x)' <=> Queued(x)
      /\ Queued(r)' \/ r \in refused'
      /\ \A i \in 1 .. Len(queue') : queue'[i] \in taken'
      /\ \A i, j \in 1 .. Len(queue') : queue'[i] = queue'[j] => i = j
  <2>1. CASE queue' = Append(queue, r)
    <3>1. /\ Len(queue') = Len(queue) + 1 /\ queue'[Len(queue) + 1] = r
          /\ \A i \in 1 .. Len(queue) : queue'[i] = queue[i] /\ queue[i] # r
      BY <2>1, <1>1, <1>2 DEF IInv, Once
    <3>2. \A i \in 1 .. Len(queue') : i \in 1 .. Len(queue) \/ i = Len(queue) + 1 BY <3>1, <1>2
    <3>3. \A i \in 1 .. Len(queue) : i \in 1 .. Len(queue') BY <3>1, <1>2
    <3>4. Len(queue) + 1 \in 1 .. Len(queue') BY <3>1, <1>2
    <3>5. \A x \in Recs \ {r} : Queued(x)' <=> Queued(x) BY <3>1, <3>2, <3>3 DEF Queued
    <3>6. Queued(r)' BY <3>1, <3>4 DEF Queued
    <3>7. \A i \in 1 .. Len(queue') : queue'[i] \in taken' BY <3>1, <3>2, <1>1 DEF IInv, Once
    <3>8. \A i, j \in 1 .. Len(queue') : queue'[i] = queue'[j] => i = j BY <3>1, <3>2 DEF IInv, Once
    <3> QED BY <3>5, <3>6, <3>7, <3>8
  <2>2. CASE refused' = refused \cup {r} /\ queue' = queue
    BY <2>2, <1>1 DEF IInv, Once, Queued
  <2> QED BY <2>1, <2>2, <1>1
<1>5. \A g \in Handlers : InHand(job[g]) => job[g].rec \in taken /\ job[g].rec # r
  BY <1>1 DEF IInv, Jobs, JobOK
<1>6. Jobs' BY <1>1 DEF IInv, Jobs, JobOK, StreamHeld, InHand, Carries
<1>7. Once'
  <2>1. \A g \in Handlers : job'[g].at = "lookup" => ~Queued(job[g].rec)'
    <3> SUFFICES ASSUME NEW g \in Handlers, job[g].at = "lookup" PROVE ~Queued(job[g].rec)'
      BY <1>1
    <3>1. job[g].rec \in Recs \ {r} /\ ~Queued(job[g].rec) BY <1>2, <1>5 DEF IInv, Once, InHand
    <3> QED BY <3>1, <1>1, <1>4 DEF Queued
  <2> QED BY <2>1, <1>1, <1>4 DEF IInv, Once
<1>8. Past \subseteq Past'
  <2> SUFFICES ASSUME NEW x \in Past PROVE x \in Past'
    OBVIOUS
  <2>1. x \in taken /\ x \in Recs \ {r} /\ ~Queued(x) BY <1>1, <1>2 DEF Past
  <2>2. ~Queued(x)' BY <2>1, <1>4
  <2> QED BY <2>1, <2>2, <1>1 DEF Past
<1>9. Enough' BY <1>1, <1>3, <1>8, MorePast DEF IInv
<1>10. Phases' BY <1>1 DEF IInv, Phases, Serving, Busy
<1>11. AllCared' BY <1>1 DEF IInv, AllCared, Cared
<1>12. NoneLost'
  <2> SUFFICES ASSUME cut = {}, NEW x \in taken' PROVE Somewhere(x)'
    BY <1>1 DEF NoneLost
  <2>1. CASE x = r BY <2>1, <1>4 DEF Somewhere
  <2>2. CASE x # r
    <3>1. Somewhere(x) /\ x \in Recs BY <2>2, <1>1, <1>2 DEF IInv, NoneLost
    <3> QED BY <3>1, <2>2, <1>1, <1>4 DEF Somewhere, InHand, Carries
  <2> QED BY <2>1, <2>2
<1> QED BY <1>3, <1>6, <1>7, <1>9, <1>10, <1>11, <1>12 DEF IInv

-----------------------------------------------------------------------------
(* A record.                                                               *)

LEMMA SilenceStep ==
  ASSUME IInv, NEW p \in Peers, Silence(p)
  PROVE  IInv'
<1>1. /\ \A h \in Handlers : job[h].peer # p \/ job[h].at \in {"off", "ready"}
      /\ fresh' = fresh \ {p}
      /\ UNCHANGED <<taken, refused, queue, job, tracked, held, ids, sink, stored, turned, ending>>
  BY DEF Silence
<1>2. TypeOK' BY <1>1 DEF IInv, TypeOK
<1>3. Jobs'
  <2> SUFFICES ASSUME NEW h \in Handlers PROVE JobOK(h, job[h])'
    BY DEF Jobs
  <2>1. JobOK(h, job[h]) BY DEF IInv, Jobs
  <2>2. Carries(job[h]) => job[h].peer # p BY <1>1 DEF Carries
  <2> QED BY <1>1, <2>1, <2>2 DEF JobOK, InHand, Carries, StreamHeld
<1>4. Once' BY <1>1 DEF IInv, Once, Queued
<1>5. Past' = Past BY <1>1 DEF Past, Queued
<1>6. Enough' BY <1>1, <1>5 DEF IInv, Enough
<1>7. Phases' BY <1>1 DEF IInv, Phases, Busy, Tracked
<1>8. AllCared' BY <1>1 DEF IInv, AllCared, Cared
<1>9. NoneLost' BY <1>1 DEF IInv, NoneLost, Somewhere, Queued, InHand, Carries
<1> QED BY <1>2, <1>3, <1>4, <1>6, <1>7, <1>8, <1>9 DEF IInv

\* A lookup is over: there is one more record to have made a stream for.
LEMMA LookedUp ==
  ASSUME IInv, UNCHANGED <<taken, queue>>, NEW h \in Handlers, Only(h),
         job[h].at = "lookup", job'[h].at # "lookup"
  PROVE  /\ Once'
         /\ job[h].rec \in taken /\ job[h].rec \notin Past
         /\ Past \cup {job[h].rec} \subseteq Past'
<1>1. \A g \in Handlers : job'[g].at = "lookup" => g # h /\ job'[g] = job[g] /\ job[g].at = "lookup"
  BY DEF Only
<1>2. Once'
  <2>1. ASSUME NEW g \in Handlers, job'[g].at = "lookup" PROVE ~Queued(job[g].rec)'
    <3>1. job'[g] = job[g] /\ ~Queued(job[g].rec) BY <1>1, <2>1 DEF IInv, Once
    <3> QED BY <3>1 DEF Queued
  <2>2. ASSUME NEW g \in Handlers, NEW k \in Handlers, job'[g].at = "lookup", job'[k].at = "lookup",
               job'[g].rec = job'[k].rec
        PROVE  g = k
    <3>1. job[g].at = "lookup" /\ job[k].at = "lookup" /\ job[g].rec = job[k].rec BY <1>1, <2>2
    <3> QED BY <3>1 DEF IInv, Once
  <2> QED BY <2>1, <2>2 DEF IInv, Once
<1>3. job[h].rec \in taken BY DEF IInv, Jobs, JobOK, InHand
<1>4. job[h].rec \notin Past BY DEF Past
<1>5. ASSUME NEW x \in Past \cup {job[h].rec} PROVE x \in Past'
  <2>1. x \in taken /\ ~Queued(x) BY <1>3 DEF Past, IInv, Once
  <2>2. ~Queued(x)' BY <2>1 DEF Queued
  <2>3. ASSUME NEW g \in Handlers, job'[g].at = "lookup" PROVE job'[g].rec # x
    <3>1. g # h /\ job'[g] = job[g] /\ job[g].at = "lookup" BY <2>3, <1>1
    <3>2. job[g].rec # job[h].rec BY <3>1 DEF IInv, Once
    <3>3. x \in Past => job[g].rec # x BY <3>1 DEF Past
    <3> QED BY <3>1, <3>2, <3>3
  <2> QED BY <2>1, <2>2, <2>3 DEF Past
<1> QED BY <1>2, <1>3, <1>4, <1>5

LEMMA FoundStep ==
  ASSUME IInv, NEW h \in Handlers, Found(h)
  PROVE  IInv'
<1> USE HandlerFacts
<1> DEFINE p == job[h].peer
           next == [job[h] EXCEPT !.at = "process", !.ps = tracked[p]]
<1>1. /\ job[h].at = "lookup" /\ p \in Tracked /\ fresh' = fresh \cup {p}
      /\ UNCHANGED <<taken, refused, queue, tracked, held, ids, sink, stored, turned, ending>>
  BY DEF Found
<1>2. job \in [Handlers -> Job] /\ job[h] \in Job /\ JobOK(h, job[h]) /\ tracked \in [Peers -> Ids \cup {None}]
  BY DEF IInv, TypeOK, Jobs
<1>3. p \in Peers /\ tracked[p] \in Ids /\ tracked[p] # None BY <1>1, <1>2 DEF Tracked
<1>4. /\ next \in Job /\ next.at = "process" /\ next.peer = p /\ next.rec = job[h].rec
      /\ next.ps = tracked[p] /\ next.out = job[h].out /\ next.todo = job[h].todo
  <2>1. "process" \in Steps BY DEF Steps
  <2> QED BY <1>2, <1>3, <2>1 DEF Job
<1>5. job' = [job EXCEPT ![h] = next] BY <1>2 DEF Found, Job
<1> HIDE DEF next
<1>6. Only(h) /\ job'[h] = next BY <1>2, <1>4, <1>5 DEF Only
<1>7. TypeOK' BY <1>1, <1>3, <1>6 DEF IInv, TypeOK, Only
<1>8. job[h].out = {} /\ job[h].todo = {} /\ h \notin {Idle, Main} /\ Busy(h) BY <1>1, <1>2 DEF JobOK, Busy
<1>9. InHand(job[h]) /\ (InHand(job[h]) /\ Carries(job[h]))' BY <1>1, <1>4, <1>6 DEF InHand, Carries
<1>10. JobOK(h, job[h])'
  <2>1. job[h].rec \in taken /\ Feed[job[h].rec].kind \in {"plain", "hold", "close", "bad"}
    BY <1>2, <1>9 DEF JobOK
  <2>2. StreamHeld(job[h])' BY <1>1, <1>4, <1>6 DEF StreamHeld
  <2> QED BY <1>1, <1>3, <1>4, <1>6, <1>8, <2>1, <2>2 DEF JobOK
<1>11. Jobs' BY <1>1, <1>6, <1>10, StreamsStay, JobsFrame DEF IInv
<1>12. Once' /\ Past \subseteq Past' BY <1>1, <1>4, <1>6, LookedUp
<1>13. Enough' BY <1>1, <1>7, <1>12, MorePast DEF IInv
<1>14. Phases' BY <1>1, <1>6, <1>8, BusyFrame DEF IInv
<1>15. AllCared' BY <1>1, <1>4, <1>6, <1>8, CaredFrame DEF IInv
<1>16. NoneLost' BY <1>1, <1>4, <1>6, <1>8, <1>9, LostFrame DEF IInv
<1> QED BY <1>7, <1>11, <1>12, <1>13, <1>14, <1>15, <1>16 DEF IInv

\* Who makes room has the streams it took from their senders.
LEMMA CaredMoves ==
  ASSUME TypeOK, AllCared, NEW h \in Handlers, Only(h), UNCHANGED held, Alone' => Alone, job[h].todo = {},
         NEW gone \in SUBSET Peers, job'[h].todo = {tracked[x] : x \in gone},
         \A x \in Peers \ gone : tracked[x] # None => tracked'[x] = tracked[x]
  PROVE  AllCared'
<1> SUFFICES ASSUME Alone, NEW s \in Ids, held[s] # {} PROVE Cared(s)'
  BY DEF AllCared
<1>1. Cared(s) BY DEF AllCared
<1>2. CASE \E x \in Peers : tracked[x] = s
  <2> PICK x \in Peers : tracked[x] = s BY <1>2
  <2>1. s # None BY DEF Ids, None
  <2>2. CASE x \in gone BY <2>2 DEF Cared
  <2>3. CASE x \notin gone BY <2>1, <2>3 DEF Cared
  <2> QED BY <2>2, <2>3
<1>3. CASE \E g \in Handlers : s \in job[g].todo BY <1>3 DEF Cared, Only
<1> QED BY <1>1, <1>2, <1>3 DEF Cared

\* The sender of a record in hand has been heard of lately, so its stream stays.
LEMMA StreamsKept ==
  ASSUME TypeOK, Jobs, NEW h \in Handlers, Only(h), Alone' => Alone, fresh \subseteq fresh',
         \A x \in Peers \cap fresh : tracked[x] # None => tracked'[x] = tracked[x]
  PROVE  \A g \in Handlers \ {h} : Carries(job[g]) /\ StreamHeld(job[g]) => StreamHeld(job[g])'
<1> SUFFICES ASSUME NEW g \in Handlers \ {h}, Carries(job[g]), StreamHeld(job[g]) PROVE StreamHeld(job[g])'
  OBVIOUS
<1>1. job[g].ps # None /\ job[g].peer \in Peers /\ job'[g] = job[g] BY DEF Jobs, JobOK, Only
<1> QED BY <1>1 DEF StreamHeld

LEMMA NotFoundStep ==
  ASSUME IInv, NEW h \in Handlers, NotFound(h)
  PROVE  IInv'
<1> USE HandlerFacts
<1> DEFINE p == job[h].peer
           moved == {tracked[x] : x \in Silent}
           made == [job[h] EXCEPT !.at = "drain", !.ps = ids + 1, !.todo = moved]
           turnedAway == [job[h] EXCEPT !.at = "drain", !.ps = None, !.todo = moved]
<1>1. /\ job[h].at = "lookup" /\ p \notin Tracked
      /\ UNCHANGED <<taken, queue, held, sink, stored, turned, ending>>
  BY DEF NotFound
<1>2. job \in [Handlers -> Job] /\ job[h] \in Job /\ JobOK(h, job[h]) /\ tracked \in [Peers -> Ids \cup {None}]
  BY DEF IInv, TypeOK, Jobs
<1>3. InHand(job[h]) BY <1>1 DEF InHand
<1>4. /\ job[h].rec \in taken /\ job[h].rec \in Recs /\ Feed[job[h].rec].kind \in {"plain", "hold", "close", "bad"}
      /\ p \in Peers /\ tracked[p] = None
  <2>1. job[h].rec \in taken /\ Feed[job[h].rec].kind \in {"plain", "hold", "close", "bad"}
    BY <1>2, <1>3 DEF JobOK
  <2>2. job[h].rec \in Recs BY <2>1 DEF IInv, TypeOK
  <2>3. p \in Peers BY <1>1, <1>2, <2>2 DEF JobOK, Peers
  <2> QED BY <2>1, <2>2, <2>3, <1>1 DEF Tracked
<1>5. moved \in SUBSET Ids /\ Silent \in SUBSET Peers BY <1>2 DEF Silent, Tracked
<1>6. job[h].out = {} /\ job[h].todo = {} /\ h \notin {Idle, Main} /\ Busy(h) BY <1>1, <1>2 DEF JobOK, Busy
<1>7. \/ /\ ids' = ids + 1 /\ fresh' = fresh \cup {p} /\ refused' = refused
         /\ job' = [job EXCEPT ![h] = made]
         /\ tracked' = [x \in Peers |-> IF x = p THEN ids + 1
                                        ELSE IF x \in Silent THEN None ELSE tracked[x]]
      \/ /\ ids' = ids /\ fresh' = fresh /\ refused' = refused \cup {job[h].rec}
         /\ job' = [job EXCEPT ![h] = turnedAway]
         /\ tracked' = [x \in Peers |-> IF x \in Silent THEN None ELSE tracked[x]]
  <2>1. CASE Cardinality(Tracked \ Silent) < MaxPeers BY <2>1, <1>2 DEF NotFound, Job
  <2>2. CASE ~(Cardinality(Tracked \ Silent) < MaxPeers) BY <2>2, <1>2 DEF NotFound, Evict, Job
  <2> QED BY <2>1, <2>2
<1>8. Cardinality(Past \cup {job[h].rec}) = Cardinality(Past) + 1 /\ ids + 1 \in Ids
      /\ Cardinality(Past) \in Nat
  <2>1. IsFiniteSet(Past) /\ Past \subseteq Recs BY FS_Subset, ReceiveAssumption DEF Past, IInv, TypeOK
  <2>2. job[h].rec \notin Past BY <1>1 DEF Past
  <2>3. Cardinality(Past \cup {job[h].rec}) = Cardinality(Past) + 1 BY <2>1, <2>2, FS_AddElement
  <2>4. Cardinality(Past \cup {job[h].rec}) <= Cardinality(Recs) /\ Cardinality(Recs) \in Nat
    BY <2>1, <1>4, FS_Subset, FS_CardinalityType, ReceiveAssumption
  <2>5. ids \in Nat /\ ids <= Cardinality(Past) /\ Cardinality(Past) \in Nat
    BY <2>1, FS_CardinalityType DEF IInv, TypeOK, Enough
  <2> QED BY <2>3, <2>4, <2>5 DEF Ids
<1>9. /\ made \in Job /\ made.at = "drain" /\ made.ps = ids + 1 /\ made.todo = moved /\ made.out = job[h].out
      /\ made.rec = job[h].rec /\ made.peer = p
      /\ turnedAway \in Job /\ turnedAway.at = "drain" /\ turnedAway.ps = None /\ turnedAway.todo = moved
      /\ turnedAway.out = job[h].out /\ turnedAway.rec = job[h].rec
  <2>1. "drain" \in Steps BY DEF Steps
  <2> QED BY <1>2, <1>5, <1>8, <2>1 DEF Job
<1> HIDE DEF made, turnedAway, moved
<1>10. /\ Only(h) /\ job'[h].at = "drain" /\ job'[h].todo = moved /\ job'[h].out = {}
       /\ job'[h] = made \/ job'[h] = turnedAway
  BY <1>2, <1>6, <1>7, <1>9 DEF Only
<1>11. \/ /\ ids' = ids + 1 /\ fresh' = fresh \cup {p} /\ refused' = refused /\ job'[h] = made /\ tracked'[p] = ids + 1
       \/ /\ ids' = ids /\ fresh' = fresh /\ refused' = refused \cup {job[h].rec} /\ job'[h] = turnedAway
  BY <1>2, <1>4, <1>7
<1>12. \A x \in Peers \ Silent : tracked[x] # None => tracked'[x] = tracked[x]
  BY <1>4, <1>7
<1>13. Once' /\ Past \cup {job[h].rec} \subseteq Past' BY <1>1, <1>10, LookedUp
<1>14. TypeOK'
  <2>1. job' \in [Handlers -> Job] BY <1>10 DEF Only
  <2>2. tracked' \in [Peers -> Ids \cup {None}] BY <1>2, <1>7, <1>8
  <2>3. ids' \in Nat /\ fresh' \subseteq Peers /\ refused' \subseteq Recs
    BY <1>4, <1>11 DEF IInv, TypeOK
  <2> QED BY <2>1, <2>2, <2>3, <1>1 DEF IInv, TypeOK
<1>15. Enough'
  <2>1. IsFiniteSet(Past') BY <1>14, FS_Subset, ReceiveAssumption DEF Past, TypeOK
  <2>2. /\ Cardinality(Past \cup {job[h].rec}) <= Cardinality(Past') /\ Cardinality(Past') \in Nat
    BY <2>1, <1>13, FS_Subset, FS_CardinalityType
  <2>3. ids \in Nat /\ ids <= Cardinality(Past) /\ (ids' = ids \/ ids' = ids + 1)
    BY <1>11 DEF IInv, TypeOK, Enough
  <2> QED BY <2>2, <2>3, <1>8 DEF Enough
<1>16. JobOK(h, job[h])'
  <2>1. CASE job'[h] = made /\ fresh' = fresh \cup {p} /\ tracked'[p] = ids + 1
    <3>1. StreamHeld(job[h])' BY <2>1, <1>9 DEF StreamHeld
    <3>2. ids + 1 # None BY <1>8 DEF Ids, None
    <3> QED BY <2>1, <3>1, <3>2, <1>1, <1>4, <1>6, <1>9 DEF JobOK, InHand, Carries
  <2>2. CASE job'[h] = turnedAway
    BY <2>2, <1>6, <1>9 DEF JobOK, InHand, Carries
  <2> QED BY <2>1, <2>2, <1>11
<1>17. Jobs'
  <2>1. \A x \in Peers \cap fresh : tracked[x] # None => tracked'[x] = tracked[x]
    BY <1>12 DEF Silent
  <2>2. fresh \subseteq fresh' BY <1>11
  <2> QED BY <1>1, <1>10, <1>16, <2>1, <2>2, StreamsKept, JobsFrame DEF IInv
<1>18. Phases' BY <1>1, <1>6, <1>10, PhasesFrame DEF IInv
<1>19. AllCared' BY <1>1, <1>5, <1>6, <1>10, <1>12, CaredMoves DEF IInv, moved
<1>20. NoneLost'
  <2>1. CASE job'[h] = made /\ refused' = refused
    <3>1. (InHand(job[h]) /\ job[h].rec = job[h].rec)' /\ job'[h].rec = job[h].rec
      <4>1. ids + 1 # None BY <1>8 DEF Ids, None
      <4> QED BY <2>1, <4>1, <1>9 DEF InHand, Carries
    <3> QED BY <2>1, <3>1, <1>1, <1>3, <1>6, <1>10, LostFrame DEF IInv
  <2>2. CASE refused' = refused \cup {job[h].rec}
    BY <2>2, <1>1, <1>6, <1>10, LostFrame DEF IInv
  <2> QED BY <2>1, <2>2, <1>11
<1> QED BY <1>13, <1>14, <1>15, <1>17, <1>18, <1>19, <1>20 DEF IInv

LEMMA DrainStep ==
  ASSUME IInv, NEW h \in Handlers, Drain(h)
  PROVE  IInv'
<1> USE HandlerFacts
<1>1. /\ job[h].at = "drain"
      /\ UNCHANGED <<taken, refused, queue, tracked, ids, fresh, sink, stored, turned, ending>>
  BY DEF Drain
<1>2. PICK s \in job[h].todo :
        /\ job' = [job EXCEPT ![h].todo = @ \ {s}, ![h].at = "emit", ![h].out = held[s]]
        /\ held' = [held EXCEPT ![s] = {}]
  BY DEF Drain
<1> DEFINE next == [job[h] EXCEPT !.todo = @ \ {s}, !.at = "emit", !.out = held[s]]
<1>3. job \in [Handlers -> Job] /\ job[h] \in Job /\ JobOK(h, job[h]) /\ held \in [Ids -> SUBSET Recs]
  BY DEF IInv, TypeOK, Jobs
<1>4. s \in Ids /\ held[s] \subseteq Recs BY <1>3 DEF Job
<1>5. /\ next \in Job /\ next.at = "emit" /\ next.todo = job[h].todo \ {s} /\ next.out = held[s]
      /\ next.ps = job[h].ps /\ next.peer = job[h].peer /\ next.rec = job[h].rec
  <2>1. "emit" \in Steps BY DEF Steps
  <2> QED BY <1>3, <1>4, <2>1 DEF Job
<1>6. job' = [job EXCEPT ![h] = next] BY <1>2, <1>3 DEF Job
<1> HIDE DEF next
<1>7. Only(h) /\ job'[h] = next BY <1>3, <1>5, <1>6 DEF Only
<1>8. held' \in [Ids -> SUBSET Recs] /\ held'[s] = {} /\ \A t \in Ids \ {s} : held'[t] = held[t]
  BY <1>2, <1>3, <1>4
<1>9. TypeOK' BY <1>1, <1>7, <1>8 DEF IInv, TypeOK, Only
<1>10. job[h].out = {} /\ Busy(h) BY <1>1, <1>3 DEF JobOK, Busy
<1>11. Carries(job[h])' <=> Carries(job[h]) BY <1>1, <1>5, <1>7 DEF Carries
<1>12. InHand(job[h])' <=> InHand(job[h]) BY <1>1, <1>5, <1>7, <1>11 DEF InHand
<1>13. JobOK(h, job[h])'
  <2>1. StreamHeld(job[h])' <=> StreamHeld(job[h]) BY <1>1, <1>5, <1>7 DEF StreamHeld
  <2> QED BY <1>1, <1>3, <1>5, <1>7, <1>11, <1>12, <2>1 DEF JobOK
<1>14. Jobs' BY <1>1, <1>7, <1>13, StreamsStay, JobsFrame DEF IInv
<1>15. Once' /\ Enough' BY <1>1, <1>5, <1>7, OnceFrame DEF IInv
<1>16. Phases' BY <1>1, <1>7, <1>10, BusyFrame DEF IInv
<1>17. AllCared'
  <2>1. \A t \in Ids : held'[t] # {} => held[t] # {} /\ (t \in job[h].todo => t \in job'[h].todo)
    BY <1>5, <1>7, <1>8
  <2> QED BY <2>1, <1>1, <1>7, CaredFrame DEF IInv
<1>18. NoneLost'
  <2>1. \A t \in Ids : held[t] \subseteq held'[t] \cup job'[h].out BY <1>5, <1>7, <1>8
  <2>2. job'[h].rec = job[h].rec BY <1>5, <1>7
  <2> QED BY <2>1, <2>2, <1>1, <1>7, <1>10, <1>12, LostFrame DEF IInv
<1> QED BY <1>9, <1>14, <1>15, <1>16, <1>17, <1>18 DEF IInv

\* A handler that adds its samples has none left to add, and no record in hand if it had none.
LEMMA AddedStep ==
  ASSUME IInv, NEW h \in Handlers, Busy(h), NEW lost \in SUBSET job[h].out, Added(h, lost),
         NEW next \in Job, job' = [job EXCEPT ![h] = next], next.out = {}, next.todo = job[h].todo,
         job[h].at # "lookup", next.at # "lookup",
         InHand(job[h]) => InHand(next) /\ next.rec = job[h].rec,
         JobOK(h, next),
         UNCHANGED <<taken, refused, queue, tracked, held, ids, fresh, stored, ending>>
  PROVE  IInv'
<1>1. job \in [Handlers -> Job] /\ job[h] \in Job BY DEF IInv, TypeOK
<1>2. Only(h) /\ job'[h] = next BY <1>1 DEF Only
<1>3. sink' = sink \cup (job[h].out \ lost) /\ turned' = turned \cup lost BY DEF Added
<1>4. TypeOK' BY <1>1, <1>2, <1>3 DEF IInv, TypeOK, Job, Only
<1>5. JobOK(h, job[h])' BY <1>2 DEF JobOK, InHand, Carries, StreamHeld
<1>6. Jobs' BY <1>2, <1>5, StreamsStay, JobsFrame DEF IInv
<1>7. Once' /\ Enough' BY <1>2, OnceFrame DEF IInv
<1>8. Phases'
  <2>1. CASE h # Main BY <2>1, <1>2, PhasesFrame DEF IInv
  <2>2. CASE h = Main BY <2>2, <1>2, BusyFrame DEF IInv
  <2> QED BY <2>1, <2>2
<1>9. AllCared' BY <1>2, CaredFrame DEF IInv
<1>10. NoneLost'
  <2>1. InHand(job[h]) => InHand(job[h])' /\ job'[h].rec = job[h].rec BY <1>2 DEF InHand, Carries
  <2> QED BY <2>1, <1>2, <1>3, LostFrame DEF IInv
<1> QED BY <1>4, <1>6, <1>7, <1>8, <1>9, <1>10 DEF IInv

LEMMA EmitOutStep ==
  ASSUME IInv, NEW h \in Handlers, EmitOut(h)
  PROVE  IInv'
<1> USE HandlerFacts
<1> DEFINE next == [job[h] EXCEPT !.at = "drain", !.out = {}]
<1>1. /\ job[h].at = "emit"
      /\ UNCHANGED <<taken, refused, queue, tracked, held, ids, fresh, stored, ending>>
      /\ job' = [job EXCEPT ![h].at = "drain", ![h].out = {}]
  BY DEF EmitOut
<1>2. PICK lost \in SUBSET job[h].out : Added(h, lost) BY DEF EmitOut
<1>3. job \in [Handlers -> Job] /\ job[h] \in Job /\ JobOK(h, job[h]) BY DEF IInv, TypeOK, Jobs
<1>4. /\ next \in Job /\ next.at = "drain" /\ next.todo = job[h].todo /\ next.out = {}
      /\ next.ps = job[h].ps /\ next.peer = job[h].peer /\ next.rec = job[h].rec
  <2>1. "drain" \in Steps BY DEF Steps
  <2> QED BY <1>3, <2>1 DEF Job
<1>5. job' = [job EXCEPT ![h] = next] BY <1>1, <1>3 DEF Job
<1> HIDE DEF next
<1>6. Busy(h) BY <1>1 DEF Busy
<1>7. (Carries(next) <=> Carries(job[h])) /\ (InHand(next) <=> InHand(job[h]))
  BY <1>1, <1>4 DEF Carries, InHand
<1>8. JobOK(h, next)
  <2>1. StreamHeld(next) <=> StreamHeld(job[h]) BY <1>4 DEF StreamHeld
  <2> QED BY <1>1, <1>3, <1>4, <1>7, <2>1 DEF JobOK
<1> QED BY <1>1, <1>2, <1>4, <1>5, <1>6, <1>7, <1>8, AddedStep

LEMMA AddStep ==
  ASSUME IInv, NEW h \in Handlers, NEW failing \in BOOLEAN, Add(h, failing)
  PROVE  IInv'
<1> USE HandlerFacts
<1>1. /\ job[h].at = "add"
      /\ UNCHANGED <<taken, refused, queue, tracked, held, ids, fresh, stored, ending>>
  BY DEF Add
<1>2. job \in [Handlers -> Job] /\ job[h] \in Job /\ JobOK(h, job[h]) BY DEF IInv, TypeOK, Jobs
<1>3. PICK lost \in SUBSET job[h].out :
        /\ Added(h, lost)
        /\ job' = [job EXCEPT ![h] = IF h \in Http /\ ((failing /\ job[h].out # {}) \/ lost # {})
                                     THEN Off ELSE Ready(job[h].peer)]
  BY <1>2 DEF Add
<1>4. job[h].peer \in Peers \cup {""} BY <1>2 DEF Job
<1>5. Busy(h) /\ job[h].todo = {} /\ h \notin {Idle, Main} /\ ~InHand(job[h])
  BY <1>1, <1>2 DEF Busy, JobOK, InHand, Carries
<1>6. CASE h \in Http /\ job' = [job EXCEPT ![h] = Off]
  <2>1. Off \in Job /\ Off.at = "off" /\ Off.out = {} /\ Off.todo = {} /\ Off.ps = None BY OffFacts
  <2>2. JobOK(h, Off) BY <1>5, <1>6, <2>1 DEF JobOK, InHand, Carries
  <2> QED BY <1>1, <1>3, <1>5, <1>6, <2>1, <2>2, AddedStep
<1>7. CASE job' = [job EXCEPT ![h] = Ready(job[h].peer)]
  <2> DEFINE next == Ready(job[h].peer)
  <2>1. next \in Job /\ next.at = "ready" /\ next.out = {} /\ next.todo = {} /\ next.ps = None
    BY <1>4, OffFacts
  <2> HIDE DEF next
  <2>2. JobOK(h, next) BY <1>5, <2>1 DEF JobOK, InHand, Carries
  <2>3. job' = [job EXCEPT ![h] = next] BY <1>7 DEF next
  <2> QED BY <1>1, <1>3, <1>5, <2>1, <2>2, <2>3, AddedStep
<1> QED BY <1>3, <1>6, <1>7

LEMMA DrainedStep ==
  ASSUME IInv, NEW h \in Handlers, Drained(h)
  PROVE  IInv'
<1> USE HandlerFacts
<1>1. /\ job[h].at = "drain" /\ job[h].todo = {} /\ h \notin {Idle, Main}
      /\ UNCHANGED <<taken, refused, queue, tracked, held, ids, fresh, sink, stored, turned, ending>>
  BY DEF Drained
<1>2. job \in [Handlers -> Job] /\ job[h] \in Job /\ JobOK(h, job[h]) BY DEF IInv, TypeOK, Jobs
<1>3. job[h].peer \in Peers \cup {""} BY <1>2 DEF Job
<1>4. Busy(h) /\ job[h].out = {} BY <1>1, <1>2 DEF Busy, JobOK
<1>5. CASE job[h].ps = None
  <2>1. /\ Ready(job[h].peer) \in Job /\ Ready(job[h].peer).at = "ready" /\ Ready(job[h].peer).out = {}
        /\ Ready(job[h].peer).todo = {} /\ Ready(job[h].peer).ps = None
    BY <1>3, OffFacts
  <2>2. job' = [job EXCEPT ![h] = Ready(job[h].peer)] BY <1>2, <1>5 DEF Drained
  <2>3. Only(h) /\ job'[h] = Ready(job[h].peer) BY <1>2, <2>1, <2>2 DEF Only
  <2>4. /\ job'[h].at = "ready" /\ job'[h].out = {} /\ job'[h].todo = {} /\ job'[h].ps = None
    BY <2>1, <2>3
  <2>5. JobOK(h, job[h])' BY <1>1, <2>4 DEF JobOK, InHand, Carries
  <2>6. ~InHand(job[h]) /\ ~InHand(job[h])' BY <1>1, <1>5, <2>4 DEF InHand, Carries
  <2> QED BY <1>1, <1>4, <2>3, <2>4, <2>5, <2>6, GoesOn
<1>6. CASE job[h].ps # None
  <2> DEFINE next == [job[h] EXCEPT !.at = "process"]
  <2>1. /\ next \in Job /\ next.at = "process" /\ next.todo = job[h].todo /\ next.out = job[h].out
        /\ next.ps = job[h].ps /\ next.peer = job[h].peer /\ next.rec = job[h].rec
    <3>1. "process" \in Steps BY DEF Steps
    <3> QED BY <1>2, <3>1 DEF Job
  <2>2. job' = [job EXCEPT ![h] = next] BY <1>2, <1>6 DEF Drained
  <2> HIDE DEF next
  <2>3. Only(h) /\ job'[h] = next BY <1>2, <2>1, <2>2 DEF Only
  <2>4. InHand(job[h]) /\ InHand(job[h])' /\ Carries(job[h]) BY <1>1, <1>6, <2>1, <2>3 DEF InHand, Carries
  <2>5. JobOK(h, job[h])'
    <3>1. StreamHeld(job[h])' <=> StreamHeld(job[h]) BY <1>1, <2>1, <2>3 DEF StreamHeld
    <3> QED BY <1>1, <1>2, <1>4, <2>1, <2>3, <2>4, <3>1 DEF JobOK
  <2> QED BY <1>1, <1>4, <2>1, <2>3, <2>4, <2>5, GoesOn
<1> QED BY <1>5, <1>6

LEMMA ProcessStep ==
  ASSUME IInv, NEW h \in Handlers, Process(h)
  PROVE  IInv'
<1> USE HandlerFacts
<1> DEFINE r == job[h].rec
           s == job[h].ps
           kind == Feed[r].kind
           kept == CASE kind = "hold" -> held[s] \cup {r} [] kind = "close" -> {} [] OTHER -> held[s]
           given == CASE kind = "plain" -> {r} [] kind = "close" -> {r} \cup held[s] [] OTHER -> {}
           next == [job[h] EXCEPT !.at = "add", !.out = given]
<1>1. /\ job[h].at = "process"
      /\ refused' = IF kind = "bad" THEN refused \cup {r} ELSE refused
      /\ UNCHANGED <<taken, queue, tracked, ids, fresh, sink, stored, turned, ending>>
  BY DEF Process
<1>2. job \in [Handlers -> Job] /\ job[h] \in Job /\ JobOK(h, job[h]) /\ held \in [Ids -> SUBSET Recs]
  BY DEF IInv, TypeOK, Jobs
<1>3. Carries(job[h]) /\ InHand(job[h]) BY <1>1 DEF Carries, InHand
<1>4. /\ r \in taken /\ r \in Recs /\ kind \in {"plain", "hold", "close", "bad"}
      /\ s # None /\ job[h].peer \in Peers /\ StreamHeld(job[h])
  <2>1. r \in taken /\ kind \in {"plain", "hold", "close", "bad"}
    BY <1>2, <1>3 DEF JobOK
  <2>2. r \in Recs BY <2>1 DEF IInv, TypeOK
  <2>3. s # None /\ job[h].peer \in Peers /\ StreamHeld(job[h]) BY <1>2, <1>3 DEF JobOK
  <2> QED BY <2>1, <2>2, <2>3
<1>5. s \in Ids /\ held[s] \subseteq Recs BY <1>2, <1>4 DEF Job
<1>6. given \subseteq Recs /\ kept \subseteq Recs BY <1>4, <1>5
<1>7. held' = [held EXCEPT ![s] = kept] BY <1>2, <1>5 DEF Process
<1>8. job' = [job EXCEPT ![h] = next] BY <1>2 DEF Process, Job
<1>9. \/ kind = "plain" /\ given = {r} /\ kept = held[s]
      \/ kind = "hold" /\ given = {} /\ kept = held[s] \cup {r}
      \/ kind = "close" /\ given = {r} \cup held[s] /\ kept = {}
      \/ kind = "bad" /\ given = {} /\ kept = held[s] /\ refused' = refused \cup {r}
  BY <1>1, <1>4
<1>10. refused \subseteq refused' /\ refused' \subseteq Recs BY <1>1, <1>4 DEF IInv, TypeOK
<1> HIDE DEF given, kept
<1>11. /\ next \in Job /\ next.at = "add" /\ next.todo = job[h].todo /\ next.out = given
       /\ next.ps = job[h].ps
  <2>1. "add" \in Steps BY DEF Steps
  <2> QED BY <1>2, <1>6, <2>1 DEF Job
<1> HIDE DEF next
<1>12. Only(h) /\ job'[h] = next BY <1>2, <1>8, <1>11 DEF Only
<1>13. held' \in [Ids -> SUBSET Recs] /\ held'[s] = kept /\ \A t \in Ids \ {s} : held'[t] = held[t]
  BY <1>2, <1>5, <1>6, <1>7
<1>14. TypeOK' BY <1>1, <1>10, <1>12, <1>13 DEF IInv, TypeOK, Only
<1>15. job[h].out = {} /\ job[h].todo = {} /\ h \notin {Idle, Main} /\ Busy(h) BY <1>1, <1>2 DEF JobOK, Busy
<1>16. JobOK(h, job[h])' BY <1>11, <1>12, <1>15 DEF JobOK, InHand, Carries
<1>17. Jobs' BY <1>1, <1>12, <1>16, StreamsStay, JobsFrame DEF IInv
<1>18. Once' /\ Enough' BY <1>1, <1>11, <1>12, OnceFrame DEF IInv
<1>19. Phases' BY <1>1, <1>12, <1>15, PhasesFrame DEF IInv
<1>20. AllCared'
  <2>1. Alone => tracked[job[h].peer] = s BY <1>4 DEF StreamHeld
  <2>2. \A t \in Ids : held'[t] # {} /\ Alone => held[t] # {} \/ \E p \in Peers : tracked[p] = t
    BY <2>1, <1>4, <1>13
  <2> QED BY <2>2, <1>1, <1>12, <1>15, CaredFrame DEF IInv
<1>21. NoneLost'
  <2>1. job'[h].out = given BY <1>11, <1>12
  <2>2. r \in job'[h].out \/ r \in held'[s] \/ r \in refused' BY <2>1, <1>9, <1>13
  <2>3. \A t \in Ids : held[t] \subseteq held'[t] \cup job'[h].out BY <2>1, <1>9, <1>13
  <2> HIDE DEF r
  <2>4. ASSUME NEW x \in taken,
               \/ InHand(job[h]) /\ job[h].rec = x
               \/ x \in job[h].out
               \/ \E t \in Ids : x \in held[t]
               \/ x \in sink \cup refused \cup turned
        PROVE  \/ x \in job'[h].out
               \/ \E t \in Ids : x \in held'[t]
               \/ x \in sink' \cup refused' \cup turned'
    <3>1. CASE job[h].rec = x BY <3>1, <2>2, <1>5 DEF r
    <3>2. CASE \E t \in Ids : x \in held[t] BY <3>2, <2>3
    <3>3. CASE x \in sink \cup refused \cup turned BY <3>3, <1>1, <1>10
    <3> QED BY <2>4, <3>1, <3>2, <3>3, <1>15
  <2> QED BY <2>4, <1>1, <1>12, LostFrame DEF IInv
<1> QED BY <1>14, <1>17, <1>18, <1>19, <1>20, <1>21 DEF IInv

LEMMA StepStep ==
  ASSUME IInv, NEW h \in Handlers, Step(h)
  PROVE  IInv'
BY FoundStep, NotFoundStep, DrainStep, EmitOutStep, DrainedStep, ProcessStep, AddStep DEF Step

-----------------------------------------------------------------------------
(* The tick.                                                               *)

\* What a ticker or a shutdown starts with.
LEMMA DrainFacts ==
  ASSUME NEW todo \in SUBSET Ids
  PROVE  LET next == [[Off EXCEPT !.at = "drain"] EXCEPT !.todo = todo] IN
         next \in Job /\ next.at = "drain" /\ next.todo = todo /\ next.out = {} /\ next.ps = None
BY DEF Off, Job, Steps

LEMMA TickStep ==
  ASSUME IInv, Tick
  PROVE  IInv'
<1> USE HandlerFacts
<1> DEFINE moved == {tracked[p] : p \in Silent}
           next == [[Off EXCEPT !.at = "drain"] EXCEPT !.todo = moved]
<1>1. /\ Serving /\ job[Idle].at = "off" /\ job' = [job EXCEPT ![Idle] = next]
      /\ tracked' = [p \in Peers |-> IF p \in Silent THEN None ELSE tracked[p]]
      /\ UNCHANGED <<taken, refused, queue, held, ids, fresh, sink, stored, turned, ending>>
  BY DEF Tick, Evict
<1>2. job \in [Handlers -> Job] /\ job[Idle] \in Job /\ JobOK(Idle, job[Idle]) /\ tracked \in [Peers -> Ids \cup {None}]
  BY DEF IInv, TypeOK, Jobs
<1>3. moved \in SUBSET Ids /\ Silent \in SUBSET Peers BY <1>2 DEF Silent, Tracked
<1>4. next \in Job /\ next.at = "drain" /\ next.todo = moved /\ next.out = {} /\ next.ps = None
  BY <1>3, DrainFacts
<1> HIDE DEF next, moved
<1>5. Only(Idle) /\ job'[Idle] = next BY <1>1, <1>2, <1>4 DEF Only
<1>6. TypeOK' BY <1>1, <1>2, <1>5 DEF IInv, TypeOK, Only
<1>7. job[Idle].out = {} /\ job[Idle].todo = {} BY <1>1, <1>2 DEF JobOK
<1>8. \A x \in Peers \ Silent : tracked'[x] = tracked[x] BY <1>1
<1>9. JobOK(Idle, job[Idle])' BY <1>4, <1>5 DEF JobOK, InHand, Carries
<1>10. Jobs'
  <2>1. \A x \in Peers \cap fresh : tracked[x] # None => tracked'[x] = tracked[x] BY <1>8 DEF Silent
  <2> QED BY <2>1, <1>1, <1>5, <1>9, StreamsKept, JobsFrame DEF IInv
<1>11. Once' /\ Enough' BY <1>1, <1>4, <1>5, OnceFrame DEF IInv
<1>12. Phases' BY <1>1, <1>5, PhasesFrame DEF IInv
<1>13. AllCared' BY <1>1, <1>3, <1>4, <1>5, <1>7, <1>8, CaredMoves DEF IInv, moved
<1>14. NoneLost'
  <2>1. ~InHand(job[Idle]) BY <1>1 DEF InHand, Carries
  <2> QED BY <2>1, <1>1, <1>5, <1>7, LostFrame DEF IInv
<1> QED BY <1>6, <1>10, <1>11, <1>12, <1>13, <1>14 DEF IInv

LEMMA TickPeersStep ==
  ASSUME IInv, TickPeers
  PROVE  IInv'
<1> USE HandlerFacts
<1> DEFINE all == {tracked[p] : p \in Tracked}
           next == [job[Idle] EXCEPT !.at = "idle", !.ticks = all]
<1>1. /\ job[Idle].at = "drain" /\ job[Idle].todo = {}
      /\ job' = [job EXCEPT ![Idle].at = "idle", ![Idle].ticks = all]
      /\ UNCHANGED <<taken, refused, queue, tracked, held, ids, fresh, sink, stored, turned, ending>>
  BY DEF TickPeers
<1>2. job \in [Handlers -> Job] /\ job[Idle] \in Job /\ JobOK(Idle, job[Idle]) /\ tracked \in [Peers -> Ids \cup {None}]
  BY DEF IInv, TypeOK, Jobs
<1>3. all \in SUBSET Ids BY <1>2 DEF Tracked
<1>4. next \in Job /\ next.at = "idle" /\ next.todo = job[Idle].todo /\ next.out = job[Idle].out /\ next.ps = job[Idle].ps
  <2>1. "idle" \in Steps BY DEF Steps
  <2> QED BY <1>2, <1>3, <2>1 DEF Job
<1>5. job' = [job EXCEPT ![Idle] = next] BY <1>1, <1>2 DEF Job
<1> HIDE DEF next
<1>6. Only(Idle) /\ job'[Idle] = next BY <1>2, <1>4, <1>5 DEF Only
<1>7. Busy(Idle) /\ job[Idle].out = {} /\ job[Idle].ps = None BY <1>1, <1>2 DEF Busy, JobOK
<1>8. ~InHand(job[Idle]) /\ ~InHand(job[Idle])' BY <1>1, <1>4, <1>6, <1>7 DEF InHand, Carries
<1>9. JobOK(Idle, job[Idle])' BY <1>1, <1>4, <1>6, <1>7 DEF JobOK, InHand, Carries
<1> QED BY <1>1, <1>4, <1>6, <1>7, <1>8, <1>9, GoesOn

LEMMA TickOneStep ==
  ASSUME IInv, NEW due \in BOOLEAN, TickOne(due)
  PROVE  IInv'
<1> USE HandlerFacts
<1>1. /\ job[Idle].at = "idle"
      /\ UNCHANGED <<taken, refused, queue, tracked, ids, fresh, sink, stored, turned, ending>>
  BY DEF TickOne
<1>2. job \in [Handlers -> Job] /\ job[Idle] \in Job /\ JobOK(Idle, job[Idle]) /\ held \in [Ids -> SUBSET Recs]
  BY DEF IInv, TypeOK, Jobs
<1>3. PICK s \in job[Idle].ticks :
        /\ job' = [job EXCEPT ![Idle].ticks = @ \ {s}, ![Idle].at = "ticked",
                              ![Idle].out = IF due THEN held[s] ELSE {}]
        /\ held' = [held EXCEPT ![s] = IF due THEN {} ELSE @]
  BY DEF TickOne
<1> DEFINE given == IF due THEN held[s] ELSE {}
           next == [job[Idle] EXCEPT !.ticks = @ \ {s}, !.at = "ticked", !.out = given]
<1>4. s \in Ids /\ held[s] \subseteq Recs BY <1>2 DEF Job
<1>5. given \subseteq Recs BY <1>4
<1>6. /\ held' \in [Ids -> SUBSET Recs] /\ held[s] \subseteq held'[s] \cup given /\ held'[s] \subseteq held[s]
      /\ \A t \in Ids \ {s} : held'[t] = held[t]
  BY <1>2, <1>3, <1>4
<1>7. job' = [job EXCEPT ![Idle] = next] BY <1>2, <1>3 DEF Job
<1> HIDE DEF given
<1>8. /\ next \in Job /\ next.at = "ticked" /\ next.todo = job[Idle].todo /\ next.out = given /\ next.ps = job[Idle].ps
  <2>1. "ticked" \in Steps BY DEF Steps
  <2> QED BY <1>2, <1>5, <2>1 DEF Job
<1> HIDE DEF next
<1>9. Only(Idle) /\ job'[Idle] = next BY <1>2, <1>7, <1>8 DEF Only
<1>10. TypeOK' BY <1>1, <1>6, <1>9 DEF IInv, TypeOK, Only
<1>11. job[Idle].out = {} /\ job[Idle].todo = {} /\ job[Idle].ps = None /\ Busy(Idle) BY <1>1, <1>2 DEF JobOK, Busy
<1>12. JobOK(Idle, job[Idle])' BY <1>8, <1>9, <1>11 DEF JobOK, InHand, Carries
<1>13. Jobs' BY <1>1, <1>9, <1>12, StreamsStay, JobsFrame DEF IInv
<1>14. Once' /\ Enough' BY <1>1, <1>8, <1>9, OnceFrame DEF IInv
<1>15. Phases' BY <1>1, <1>9, <1>11, PhasesFrame DEF IInv
<1>16. AllCared'
  <2>1. \A t \in Ids : held'[t] # {} => held[t] # {} BY <1>6
  <2> QED BY <2>1, <1>1, <1>9, <1>11, CaredFrame DEF IInv
<1>17. NoneLost'
  <2>1. \A t \in Ids : held[t] \subseteq held'[t] \cup job'[Idle].out BY <1>6, <1>8, <1>9
  <2>2. ~InHand(job[Idle]) BY <1>1 DEF InHand, Carries
  <2> QED BY <2>1, <2>2, <1>1, <1>9, <1>11, LostFrame DEF IInv
<1> QED BY <1>10, <1>13, <1>14, <1>15, <1>16, <1>17 DEF IInv

LEMMA TickEmitStep ==
  ASSUME IInv, TickEmit
  PROVE  IInv'
<1> USE HandlerFacts
<1> DEFINE next == [job[Idle] EXCEPT !.at = "idle", !.out = {}]
<1>1. /\ job[Idle].at = "ticked"
      /\ UNCHANGED <<taken, refused, queue, tracked, held, ids, fresh, stored, ending>>
      /\ job' = [job EXCEPT ![Idle].at = "idle", ![Idle].out = {}]
  BY DEF TickEmit
<1>2. PICK lost \in SUBSET job[Idle].out : Added(Idle, lost) BY DEF TickEmit
<1>3. job \in [Handlers -> Job] /\ job[Idle] \in Job /\ JobOK(Idle, job[Idle]) BY DEF IInv, TypeOK, Jobs
<1>4. next \in Job /\ next.at = "idle" /\ next.todo = job[Idle].todo /\ next.out = {} /\ next.ps = job[Idle].ps
  <2>1. "idle" \in Steps BY DEF Steps
  <2> QED BY <1>3, <2>1 DEF Job
<1>5. job' = [job EXCEPT ![Idle] = next] BY <1>1, <1>3 DEF Job
<1> HIDE DEF next
<1>6. Busy(Idle) /\ ~InHand(job[Idle]) /\ job[Idle].todo = {} /\ job[Idle].ps = None
  BY <1>1, <1>3 DEF Busy, InHand, Carries, JobOK
<1>7. JobOK(Idle, next) BY <1>4, <1>6 DEF JobOK, InHand, Carries
<1> QED BY <1>1, <1>2, <1>4, <1>5, <1>6, <1>7, AddedStep

LEMMA TickDoneStep ==
  ASSUME IInv, TickDone
  PROVE  IInv'
<1> USE HandlerFacts
<1>1. /\ job[Idle].at = "idle" /\ job' = [job EXCEPT ![Idle] = Off]
      /\ UNCHANGED <<taken, refused, queue, tracked, held, ids, fresh, sink, stored, turned, ending>>
  BY DEF TickDone
<1>2. Off \in Job /\ Off.at = "off" /\ Off.out = {} /\ Off.todo = {} /\ Off.ps = None BY OffFacts
<1>3. Only(Idle) /\ job'[Idle] = Off BY <1>1, <1>2 DEF IInv, TypeOK, Only
<1>4. JobOK(Idle, job[Idle])' BY <1>2, <1>3 DEF JobOK, InHand, Carries
<1>5. job[Idle].todo = {} /\ job[Idle].out = {} /\ Busy(Idle) BY <1>1 DEF IInv, Jobs, JobOK, Busy
<1>6. ~InHand(job[Idle]) /\ ~InHand(job[Idle])' BY <1>1, <1>2, <1>3 DEF InHand, Carries
<1> QED BY <1>1, <1>2, <1>3, <1>4, <1>5, <1>6, GoesOn

-----------------------------------------------------------------------------
(* Shutdown.                                                               *)

\* The phase moves on and nobody else does anything.
LEMMA CancelStep ==
  ASSUME IInv, Cancel \/ GraceExpires \/ \E l \in Listeners : Fails(l) \/ Reports(l)
  PROVE  IInv'
<1>1. /\ state \in {"serving", "stopping"} /\ state' \in {"serving", "stopping"}
      /\ cut \subseteq cut' /\ cut' \subseteq Http
      /\ failed' \subseteq Listeners /\ ("http" \in failed' => cut' = Http)
      /\ UNCHANGED <<taken, refused, queue, job, tracked, held, ids, fresh, sink, stored, turned, left>>
  <2>0. cut \subseteq Http /\ failed \subseteq Listeners /\ ("http" \in failed => cut = Http)
    BY DEF IInv, TypeOK
  <2>1. CASE Cancel BY <2>0, <2>1 DEF Cancel, Serving
  <2>2. CASE GraceExpires BY <2>0, <2>2 DEF GraceExpires
  <2>3. CASE \E l \in Listeners : Fails(l)
    <3> PICK l \in Listeners : Fails(l) BY <2>3
    <3> QED BY <2>0 DEF Fails, Serving
  <2>4. CASE \E l \in Listeners : Reports(l)
    <3> PICK l \in Listeners : Reports(l) BY <2>4
    <3> QED BY <2>0 DEF Reports, Serving
  <2> QED BY <2>1, <2>2, <2>3, <2>4
<1>2. cut' = {} => cut = {} BY <1>1
<1>3. TypeOK' BY <1>1 DEF IInv, TypeOK
<1>4. Jobs'
  <2> SUFFICES ASSUME NEW h \in Handlers PROVE JobOK(h, job[h])'
    BY DEF Jobs
  <2>1. JobOK(h, job[h]) BY DEF IInv, Jobs
  <2>2. StreamHeld(job[h]) => StreamHeld(job[h])' BY <1>1, <1>2 DEF StreamHeld
  <2> QED BY <1>1, <2>1, <2>2 DEF JobOK, InHand, Carries
<1>5. Once' BY <1>1 DEF IInv, Once, Queued
<1>6. Past' = Past BY <1>1 DEF Past, Queued
<1>7. Enough' BY <1>1, <1>6 DEF IInv, Enough
<1>8. Phases' BY <1>1 DEF IInv, Phases
<1>9. AllCared' BY <1>1, <1>2 DEF IInv, AllCared, Cared
<1>10. NoneLost' BY <1>1, <1>2 DEF IInv, NoneLost, Somewhere, Queued, InHand, Carries
<1> QED BY <1>3, <1>4, <1>5, <1>7, <1>8, <1>9, <1>10 DEF IInv

LEMMA FlushAllStep ==
  ASSUME IInv, FlushAll
  PROVE  IInv'
<1> USE HandlerFacts
<1> DEFINE moved == {tracked[p] : p \in Tracked}
           next == [[Off EXCEPT !.at = "drain"] EXCEPT !.todo = moved]
<1>1. /\ state = "stopping" /\ state' = "draining" /\ job[Idle].at = "off"
      /\ \A h \in Tcp \cup Http : job[h].at = "off" \/ h \in cut
      /\ queue = <<>> /\ job[Udp].at = "ready"
      /\ job' = [job EXCEPT ![Main] = next]
      /\ tracked' = [p \in Peers |-> IF p \in Tracked THEN None ELSE tracked[p]]
      /\ UNCHANGED <<taken, refused, queue, held, ids, fresh, sink, stored, turned, cut, failed, left>>
  BY DEF FlushAll, Evict, ListenersDown, ConsumerDone
<1>2. job \in [Handlers -> Job] /\ job[Main] \in Job /\ JobOK(Main, job[Main]) /\ tracked \in [Peers -> Ids \cup {None}]
  BY DEF IInv, TypeOK, Jobs
<1>3. moved \in SUBSET Ids /\ Tracked \in SUBSET Peers BY <1>2 DEF Tracked
<1>4. next \in Job /\ next.at = "drain" /\ next.todo = moved /\ next.out = {} /\ next.ps = None
  BY <1>3, DrainFacts
<1> HIDE DEF next, moved
<1>5. Only(Main) /\ job'[Main] = next BY <1>1, <1>2, <1>4 DEF Only
<1>6. TypeOK' BY <1>1, <1>2, <1>5 DEF IInv, TypeOK, Only
<1>7. job[Main].at = "off" /\ job[Main].out = {} /\ job[Main].todo = {}
  <2>1. job[Main].at = "off" BY <1>1 DEF IInv, Phases
  <2> QED BY <2>1, <1>2 DEF JobOK
<1>8. cut = {} => \A g \in Handlers \ {Main} : ~Busy(g) /\ ~Carries(job[g])
  BY <1>1 DEF Busy, Carries, Handlers
<1>9. JobOK(Main, job[Main])' BY <1>4, <1>5 DEF JobOK, InHand, Carries
<1>10. Jobs'
  <2>1. \A g \in Handlers \ {Main} : Carries(job[g]) => StreamHeld(job[g])' BY <1>1, <1>8 DEF StreamHeld
  <2> QED BY <2>1, <1>1, <1>5, <1>9, JobsFrame DEF IInv
<1>11. Once' /\ Enough' BY <1>1, <1>4, <1>5, <1>7, OnceFrame DEF IInv
<1>12. Phases'
  <2>1. Tracked' = {} BY <1>1, <1>2 DEF Tracked
  <2>2. \A g \in Handlers \ {Main} : Busy(g)' <=> Busy(g) BY <1>1, <1>5 DEF Busy, Only
  <2> QED BY <2>1, <2>2, <1>1, <1>8 DEF Phases
<1>13. AllCared'
  <2>1. \A x \in Peers \ Tracked : tracked[x] # None => tracked'[x] = tracked[x] BY <1>1
  <2> QED BY <2>1, <1>1, <1>3, <1>4, <1>5, <1>7, CaredMoves DEF IInv, moved
<1>14. NoneLost'
  <2>1. ~InHand(job[Main]) BY <1>7 DEF InHand, Carries
  <2> QED BY <2>1, <1>1, <1>5, <1>7, LostFrame DEF IInv
<1> QED BY <1>6, <1>10, <1>11, <1>12, <1>13, <1>14 DEF IInv

LEMMA LastFlushStep ==
  ASSUME IInv, LastFlush
  PROVE  IInv'
<1> USE HandlerFacts
<1>1. /\ state = "draining" /\ state' = "done" /\ job[Main].at = "drain" /\ job[Main].todo = {}
      /\ left' \subseteq sink /\ stored' = sink \ left'
      /\ job' = [job EXCEPT ![Main] = Off]
      /\ UNCHANGED <<taken, refused, queue, tracked, held, ids, fresh, sink, turned, cut, failed>>
  BY DEF LastFlush
<1>2. Off \in Job /\ Off.at = "off" /\ Off.out = {} /\ Off.todo = {} /\ Off.ps = None BY OffFacts
<1>3. Only(Main) /\ job'[Main] = Off BY <1>1, <1>2 DEF IInv, TypeOK, Only
<1>4. TypeOK' BY <1>1, <1>3 DEF IInv, TypeOK, Only
<1>5. job[Main].out = {} /\ job[Main].ps = None BY <1>1 DEF IInv, Jobs, JobOK
<1>6. JobOK(Main, job[Main])' BY <1>2, <1>3 DEF JobOK, InHand, Carries
<1>7. Jobs' BY <1>1, <1>3, <1>6, StreamsStay, JobsFrame DEF IInv
<1>8. Once' /\ Enough' BY <1>1, <1>2, <1>3, OnceFrame DEF IInv
<1>9. Phases'
  <2>1. \A g \in Handlers \ {Main} : Busy(g)' <=> Busy(g) BY <1>1, <1>3 DEF Busy, Only
  <2>2. Tracked' = Tracked BY <1>1 DEF Tracked
  <2> QED BY <2>1, <2>2, <1>1, <1>2, <1>3 DEF IInv, Phases
<1>10. AllCared' BY <1>1, <1>2, <1>3, CaredFrame DEF IInv
<1>11. NoneLost'
  <2>1. ~InHand(job[Main]) BY <1>1, <1>5 DEF InHand, Carries
  <2> QED BY <2>1, <1>1, <1>3, <1>5, LostFrame DEF IInv
<1> QED BY <1>4, <1>7, <1>8, <1>9, <1>10, <1>11 DEF IInv

-----------------------------------------------------------------------------
(* The results.                                                            *)

LEMMA InitEstablishes ==
  ASSUME Init
  PROVE  IInv
<1> USE HandlerFacts
<1>1. "" \in Peers \cup {""} OBVIOUS
<1>2. /\ Off \in Job /\ Off.at = "off" /\ Off.out = {} /\ Off.todo = {} /\ Off.ps = None
      /\ Ready("") \in Job /\ Ready("").at = "ready" /\ Ready("").out = {} /\ Ready("").todo = {}
      /\ Ready("").ps = None
  BY <1>1, OffFacts
<1>3. /\ job \in [Handlers -> Job] /\ job[Udp] = Ready("")
      /\ \A h \in Handlers \ {Udp} : job[h] = Off
  BY <1>2 DEF Init
<1>4. Cardinality(Recs) \in Nat /\ Ids \subseteq Nat BY FS_CardinalityType, ReceiveAssumption DEF Ids
<1>5. TypeOK
  <2>1. queue \in Seq(Recs)
    <3>1. queue = <<>> BY DEF Init
    <3> QED BY <3>1
  <2>2. tracked \in [Peers -> Ids \cup {None}] /\ held \in [Ids -> SUBSET Recs] BY DEF Init
  <2>3. ids \in Nat BY DEF Init
  <2> QED BY <2>1, <2>2, <2>3, <1>3 DEF Init, TypeOK
<1>6. Jobs
  <2>1. JobOK(Udp, job[Udp]) BY <1>2, <1>3 DEF JobOK, InHand, Carries
  <2>2. \A h \in Handlers \ {Udp} : JobOK(h, job[h]) BY <1>2, <1>3 DEF JobOK, InHand, Carries
  <2> QED BY <2>1, <2>2 DEF Jobs
<1>7. \A h \in Handlers : job[h].at # "lookup" BY <1>2, <1>3
<1>8. Once
  <2>1. queue = <<>> BY DEF Init
  <2>2. Len(queue) = 0 BY <2>1
  <2> QED BY <1>7, <2>2 DEF Once
<1>9. Enough
  <2>1. Past = {} BY DEF Past, Init
  <2>2. Cardinality(Past) = 0 BY <2>1, FS_EmptySet
  <2>3. ids = 0 BY DEF Init
  <2> QED BY <2>2, <2>3 DEF Enough
<1>10. Phases BY <1>2, <1>3 DEF Init, Phases
<1>11. AllCared BY DEF Init, AllCared
<1>12. NoneLost BY DEF Init, NoneLost
<1> QED BY <1>5, <1>6, <1>8, <1>9, <1>10, <1>11, <1>12 DEF IInv

LEMMA NextPreserves ==
  ASSUME IInv, [Next]_vars
  PROVE  IInv'
<1>1. CASE UNCHANGED vars
  <2>1. /\ taken' = taken /\ refused' = refused /\ queue' = queue /\ job' = job /\ tracked' = tracked
        /\ held' = held /\ ids' = ids /\ fresh' = fresh /\ sink' = sink /\ stored' = stored
        /\ turned' = turned /\ state' = state /\ cut' = cut
        /\ failed' = failed /\ left' = left
    BY <1>1 DEF vars
  <2>2. TypeOK' /\ Once' BY <2>1 DEF IInv, TypeOK, Once, Queued
  <2>3. Jobs' BY <2>1 DEF IInv, Jobs, JobOK, InHand, Carries, StreamHeld
  <2>4. Past' = Past BY <2>1 DEF Past, Queued
  <2>5. Enough' BY <2>1, <2>4 DEF IInv, Enough
  <2>6. Phases' BY <2>1 DEF IInv, Phases, Busy, Tracked
  <2>7. AllCared' BY <2>1 DEF IInv, AllCared, Cared
  <2>8. NoneLost' BY <2>1 DEF IInv, NoneLost, Somewhere, Queued, InHand, Carries
  <2> QED BY <2>2, <2>3, <2>5, <2>6, <2>7, <2>8 DEF IInv
<1>2. CASE Next
  <2>1. CASE \E h \in Tcp \cup Http, p \in Peers : Accept(h, p) BY <2>1, AcceptStep
  <2>2. CASE \E h \in Tcp \cup Http, r \in Recs :
               Take(h, r) \/ TakeLine(h, r) \/ TakeSample(h, r) \/ CutShort(h, r)
    BY <2>2, TakeStep, CutShortStep
  <2>3. CASE \E h \in Tcp \cup Http : Hangup(h) \/ Unblock(h) BY <2>3, HangupStep
  <2>4. CASE \E r \in Recs, whole \in BOOLEAN : Datagram(r, whole) BY <2>4, DatagramStep
  <2>5. CASE Consume BY <2>5, ConsumeStep
  <2>6. CASE \E p \in Peers : Silence(p) BY <2>6, SilenceStep
  <2>7. CASE \E h \in Handlers : Step(h) BY <2>7, StepStep
  <2>8. CASE Tick \/ Ticker BY <2>8, TickStep, TickPeersStep, TickOneStep, TickEmitStep, TickDoneStep DEF Ticker
  <2>9. CASE \/ \E l \in Listeners : Fails(l) \/ Reports(l)
             \/ Cancel \/ GraceExpires \/ FlushAll \/ LastFlush
    BY <2>9, CancelStep, FlushAllStep, LastFlushStep
  <2> QED BY <1>2, <2>1, <2>2, <2>3, <2>4, <2>5, <2>6, <2>7, <2>8, <2>9 DEF Next
<1> QED BY <1>1, <1>2

\* Every state that the listeners reach has the invariant.
LEMMA Inductive == Spec => []IInv
BY InitEstablishes, NextPreserves, PTL DEF Spec

\* What a stream holds is never left behind: not when the tick or a new sender takes
\* the streams of silent ones (evictLocked), not when a listener is slow or fails; the
\* stream is tracked, or whoever took it has it to drain, unless a request that nobody
\* waits for runs beside flushAll.
THEOREM NothingIsStranded == Spec => []NoneStranded
<1>1. IInv => NoneStranded
  <2> SUFFICES ASSUME IInv, NEW s \in Ids, held[s] # {}, Alone
               PROVE  \/ s \in {tracked[p] : p \in Peers}
                      \/ \E h \in Handlers : s \in job[h].todo
    BY DEF NoneStranded
  <2>1. Cared(s) BY DEF IInv, AllCared
  <2> QED BY <2>1 DEF Cared
<1> QED BY <1>1, Inductive, PTL

\* When Receive returns, every record that a listener read was in the sink before its
\* last Flush, which stored it or left it over, or was refused by name, or turned away
\* by a full sink: for any number of connections, requests, datagrams and senders, in
\* any interleaving with the tick and whichever listener of datagrams or connections
\* failed, unless a request outlived its grace or Serve failed.
THEOREM EveryRecordIsDelivered == Spec => []AllDelivered
<1>1. IInv => AllDelivered
  <2> SUFFICES ASSUME IInv, state = "done", cut = {}, NEW r \in taken
               PROVE  r \in stored \cup left \cup refused \cup turned
    BY DEF AllDelivered
  <2> USE HandlerFacts
  <2>1. /\ \A h \in Handlers \ {Main} : ~Busy(h)
        /\ Tracked = {} /\ job[Main].at = "off" /\ sink = stored \cup left
    BY DEF IInv, Phases
  <2>2. \A h \in Handlers : JobOK(h, job[h]) BY DEF IInv, Jobs
  <2>3. job[Udp].at # "off" BY <2>2 DEF JobOK
  <2>4. queue = <<>> /\ job[Udp].at = "ready" BY <2>1, <2>3 DEF Busy
  <2>5. \A h \in Handlers : job[h].at \in {"off", "ready"}
    BY <2>1, <2>4 DEF Busy
  <2>6. \A h \in Handlers : job[h].out = {} /\ job[h].todo = {} /\ ~InHand(job[h])
    BY <2>2, <2>5 DEF JobOK, InHand, Carries
  <2>7. \A s \in Ids : ~Cared(s)
    <3>1. \A p \in Peers : tracked[p] = None BY <2>1 DEF Tracked
    <3>2. \A s \in Ids : s # None BY DEF Ids, None
    <3> QED BY <2>6, <3>1, <3>2 DEF Cared
  <2>8. \A s \in Ids : held[s] = {} BY <2>7 DEF IInv, AllCared
  <2>9. ~Queued(r) BY <2>4 DEF Queued
  <2>10. Somewhere(r) BY DEF IInv, NoneLost
  <2> QED BY <2>1, <2>6, <2>8, <2>9, <2>10 DEF Somewhere
<1> QED BY <1>1, Inductive, PTL
=============================================================================
