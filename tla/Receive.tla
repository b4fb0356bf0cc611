------------------------------ MODULE Receive -------------------------------
(***************************************************************************)
(* The listeners (internal/ingest/receive.go): TCP connections, the UDP    *)
(* queue and its consumer, HTTP requests, the idle tick, and the shutdown  *)
(* that has to wait for all of them.                                       *)
(*                                                                         *)
(* One extraction stream per sender; what it does to a record is the       *)
(* record's kind: "plain" gives a sample, "hold" opens a joined record or  *)
(* a window, "close" gives a sample and what was held, "bad" is refused.   *)
(* A "sample" needs no extraction (the line protocol, /ingest/v1/samples)  *)
(* and "invalid" is one that does not validate.  Nobody is slower with a   *)
(* record than PeerIdle.                                                   *)
(***************************************************************************)
EXTENDS Naturals, Sequences, FiniteSets, SequencesExt

CONSTANTS
  Recs,       \* records senders may send, each once
  Feed,       \* [Recs -> [peer, via, kind]], via "tcp", "udp", "lines" or "samples"
  Allowed,    \* the senders of AllowedSources
  Tcp, Http,  \* handlers: connections, requests
  UDPQueue, MaxPeers, MaxConnections,
  MaxFailures \* bound on the listeners that fail

Udp == "udp"     \* the consumer of the queue
Idle == "idle"   \* the ticker
Main == "main"
Handlers == Tcp \cup Http \cup {Udp, Idle, Main}
Listeners == {"tcp", "udp", "http"}
Peers == {Feed[r].peer : r \in Recs}
Ids == 1 .. Cardinality(Recs)
None == 0

ASSUME ReceiveAssumption ==
  /\ UDPQueue \in Nat \ {0} /\ MaxPeers \in Nat \ {0} /\ MaxConnections \in Nat \ {0}
  /\ MaxFailures \in Nat
  /\ IsFiniteSet(Recs)
  /\ \A r \in Recs : /\ Feed[r].via \in {"tcp", "udp", "lines", "samples"}
                     /\ Feed[r].kind \in {"plain", "hold", "close", "bad", "sample", "invalid"}
  /\ (Tcp \cup Http) \cap {Udp, Idle, Main} = {}

VARIABLES
  taken,     \* records a listener has read
  refused,   \* records counted, logged or answered as not taken
  queue,     \* of datagrams
  job,       \* what each handler is doing
  tracked,   \* receiver.streams: the stream of each sender
  held,      \* what each stream holds
  ids,       \* streams made
  fresh,     \* senders seen within PeerIdle
  sink, stored,   \* added, and covered by the last Flush
  turned,    \* what the sink had no room for when the wait was cancelled
  state,     \* "serving", "stopping", "draining", "flushing", "done"
  cut,       \* requests nobody waits for: they outlived httpDrainGrace, or Serve failed
  failed,    \* listeners whose error has still to cancel the rest, and a failed Serve
  left       \* what the last Flush could not deliver

\* Changed by the steps of the shutdown only.
ending == <<state, cut, failed, left>>
vars == <<taken, refused, queue, job, tracked, held, ids, fresh, sink, stored, turned, ending>>

Off == [at |-> "off", peer |-> "", rec |-> "", ps |-> None, out |-> {}, todo |-> {}, ticks |-> {}]
Ready(p) == [Off EXCEPT !.at = "ready", !.peer = p]

Serving == state = "serving"
Open == {h \in Tcp \cup Http : job[h].at # "off"}

-----------------------------------------------------------------------------
(* Arrivals.                                                               *)

\* A listener accepts until it fails or the context is cancelled; but where Serve failed
\* nobody closes the connections senders kept open, and they bring further requests.
Reachable(h) == IF h \in Tcp THEN Serving /\ "tcp" \notin failed
                ELSE Serving \/ ("http" \in failed /\ state # "done")

\* serveTCP and gateListener share the slots; a sender that is not allowed is let go.
Accept(h, p) ==
  /\ h \in Tcp \cup Http /\ Reachable(h) /\ job[h].at = "off"
  /\ p \in Allowed
  /\ Cardinality(Open) < MaxConnections
  /\ job' = [job EXCEPT ![h] = Ready(p)]
  /\ UNCHANGED <<taken, refused, queue, tracked, held, ids, fresh, sink, stored, turned, ending>>

\* A handler has a record in hand: a sample goes to the sink as it is.
Handling(h, r) ==
  LET now == [job[h] EXCEPT !.peer = Feed[r].peer, !.rec = r] IN
  CASE Feed[r].kind = "invalid" ->
         /\ refused' = refused \cup {r}
         /\ UNCHANGED job
    [] Feed[r].kind = "sample" ->
         /\ job' = [job EXCEPT ![h] = [now EXCEPT !.at = "add", !.out = {r}]]
         /\ UNCHANGED refused
    [] OTHER ->
         /\ job' = [job EXCEPT ![h] = [now EXCEPT !.at = "lookup"]]
         /\ UNCHANGED refused

Offered(h, r, via) ==
  /\ job[h].at = "ready" /\ r \notin taken
  /\ Feed[r].peer = job[h].peer /\ Feed[r].via = via

\* handleConn reads a record, while the context is not cancelled.
Take(h, r) ==
  /\ h \in Tcp /\ Serving /\ Offered(h, r, "tcp")
  /\ taken' = taken \cup {r}
  /\ Handling(h, r)
  /\ UNCHANGED <<queue, tracked, held, ids, fresh, sink, stored, turned, ending>>

\* /ingest/v1/lines reads its body to the end.
TakeLine(h, r) ==
  /\ h \in Http /\ Offered(h, r, "lines")
  /\ taken' = taken \cup {r}
  /\ Handling(h, r)
  /\ UNCHANGED <<queue, tracked, held, ids, fresh, sink, stored, turned, ending>>

\* /ingest/v1/samples: what does not validate is refused, the rest needs no stream.
TakeSample(h, r) ==
  /\ h \in Http /\ Offered(h, r, "samples") /\ Feed[r].kind \in {"sample", "invalid"}
  /\ taken' = taken \cup {r}
  /\ Handling(h, r)
  /\ UNCHANGED <<queue, tracked, held, ids, fresh, sink, stored, turned, ending>>

\* The sender goes away in the middle of a record: the fragment is not extracted.
CutShort(h, r) ==
  /\ h \in Tcp \cup Http
  /\ Offered(h, r, IF h \in Tcp THEN "tcp" ELSE "lines")
  /\ taken' = taken \cup {r} /\ refused' = refused \cup {r}
  /\ job' = [job EXCEPT ![h] = Off]
  /\ UNCHANGED <<queue, tracked, held, ids, fresh, sink, stored, turned, ending>>

\* The sender closes, or has been silent for connIdleTimeout; a request is answered,
\* at the end of its body or where the body is too large.
Hangup(h) ==
  /\ h \in Tcp \cup Http /\ job[h].at = "ready"
  /\ job' = [job EXCEPT ![h] = Off]
  /\ UNCHANGED <<taken, refused, queue, tracked, held, ids, fresh, sink, stored, turned, ending>>

\* Mutant: the read waits for its own deadline.
UnblockLate(h) ==
  /\ h \in Tcp /\ job[h].at = "ready" /\ Serving
  /\ job' = [job EXCEPT ![h] = Off]
  /\ UNCHANGED <<taken, refused, queue, tracked, held, ids, fresh, sink, stored, turned, ending>>

\* The watch of handleConn: the read is unblocked when the context is cancelled.
Unblock(h) ==
  /\ h \in Tcp /\ job[h].at = "ready" /\ ~Serving
  /\ job' = [job EXCEPT ![h] = Off]
  /\ UNCHANGED <<taken, refused, queue, tracked, held, ids, fresh, sink, stored, turned, ending>>

\* serveUDP: a datagram that is not allowed or too large, or finds the queue full, is
\* dropped and counted.
Datagram(r, whole) ==
  /\ Serving /\ "udp" \notin failed /\ Feed[r].via = "udp" /\ r \notin taken
  /\ taken' = taken \cup {r}
  /\ IF Feed[r].peer \in Allowed /\ whole /\ Len(queue) < UDPQueue
     THEN queue' = Append(queue, r) /\ UNCHANGED refused
     ELSE refused' = refused \cup {r} /\ UNCHANGED queue
  /\ UNCHANGED <<job, tracked, held, ids, fresh, sink, stored, turned, ending>>

\* The consumer goes on until the queue is closed and empty.
Consume ==
  /\ job[Udp].at = "ready" /\ queue # <<>>
  /\ queue' = Tail(queue)
  /\ Handling(Udp, Head(queue))
  /\ UNCHANGED <<taken, tracked, held, ids, fresh, sink, stored, turned, ending>>

-----------------------------------------------------------------------------
(* A record.                                                               *)

Tracked == {p \in Peers : tracked[p] # None}
Silent == {p \in Tracked : p \notin fresh}

\* PeerIdle goes by without a record of the sender.
Silence(p) ==
  /\ p \in fresh
  /\ \A h \in Handlers : job[h].peer # p \/ job[h].at \in {"off", "ready"}
  /\ fresh' = fresh \ {p}
  /\ UNCHANGED <<taken, refused, queue, job, tracked, held, ids, sink, stored, turned, ending>>

\* Mutant: the evicted streams are let go as they are.
EvictOnly(gone, h, next) ==
  /\ tracked' = [p \in Peers |-> IF p \in gone THEN None ELSE tracked[p]]
  /\ job' = [job EXCEPT ![h] = next]

\* evictLocked: what the evicted senders hold is to be flushed by the caller.
Evict(gone, h, next) ==
  /\ tracked' = [p \in Peers |-> IF p \in gone THEN None ELSE tracked[p]]
  /\ job' = [job EXCEPT ![h] = [next EXCEPT !.todo = {tracked[p] : p \in gone}]]

\* streamLocked: the stream of a known sender.
Found(h) ==
  LET p == job[h].peer IN
  /\ job[h].at = "lookup" /\ p \in Tracked
  /\ fresh' = fresh \cup {p}
  /\ job' = [job EXCEPT ![h].at = "process", ![h].ps = tracked[p]]
  /\ UNCHANGED <<taken, refused, queue, tracked, held, ids, sink, stored, turned, ending>>

\* streamLocked: room is made, and a stream if there is room.
NotFound(h) ==
  LET p == job[h].peer
      room == Cardinality(Tracked \ Silent) < MaxPeers
  IN
  /\ job[h].at = "lookup" /\ p \notin Tracked
  /\ IF room
     THEN /\ ids' = ids + 1
          /\ fresh' = fresh \cup {p}
          /\ job' = [job EXCEPT ![h].at = "drain", ![h].ps = ids + 1,
                                ![h].todo = {tracked[x] : x \in Silent}]
          /\ tracked' = [x \in Peers |-> IF x = p THEN ids + 1
                                         ELSE IF x \in Silent THEN None ELSE tracked[x]]
          /\ UNCHANGED refused
     ELSE /\ Evict(Silent, h, [job[h] EXCEPT !.at = "drain", !.ps = None])
          /\ refused' = refused \cup {job[h].rec}
          /\ UNCHANGED <<ids, fresh>>
  /\ UNCHANGED <<taken, queue, held, sink, stored, turned, ending>>

\* drain, one stream of it: Flush under the lock of the stream, emit after it.
Drain(h) ==
  /\ job[h].at = "drain"
  /\ \E s \in job[h].todo :
       /\ job' = [job EXCEPT ![h].todo = @ \ {s}, ![h].at = "emit", ![h].out = held[s]]
       /\ held' = [held EXCEPT ![s] = {}]
  /\ UNCHANGED <<taken, refused, queue, tracked, ids, fresh, sink, stored, turned, ending>>

\* The samples are added, but for those the sink has no room for until the context is
\* cancelled: the receiver's own, or that of a request whose sender is gone.
Added(h, lost) ==
  /\ lost # {} => h \in Http \/ (h # Main /\ ~Serving)
  /\ sink' = sink \cup (job[h].out \ lost)
  /\ turned' = turned \cup lost

\* emit goes on whatever Add says.
EmitOut(h) ==
  /\ job[h].at = "emit"
  /\ \E lost \in SUBSET job[h].out : Added(h, lost)
  /\ job' = [job EXCEPT ![h].at = "drain", ![h].out = {}]
  /\ UNCHANGED <<taken, refused, queue, tracked, held, ids, fresh, stored, ending>>

\* Back from drain.
Drained(h) ==
  /\ job[h].at = "drain" /\ job[h].todo = {} /\ h \notin {Idle, Main}
  /\ job' = [job EXCEPT ![h] = IF @.ps = None THEN Ready(@.peer) ELSE [@ EXCEPT !.at = "process"]]
  /\ UNCHANGED <<taken, refused, queue, tracked, held, ids, fresh, sink, stored, turned, ending>>

\* Process, under the lock of the stream.
Process(h) ==
  LET r == job[h].rec s == job[h].ps kind == Feed[r].kind IN
  /\ job[h].at = "process"
  /\ held' = [held EXCEPT ![s] = CASE kind = "hold" -> @ \cup {r} [] kind = "close" -> {} [] OTHER -> @]
  /\ refused' = IF kind = "bad" THEN refused \cup {r} ELSE refused
  /\ job' = [job EXCEPT ![h].at = "add",
                        ![h].out = CASE kind = "plain" -> {r} [] kind = "close" -> {r} \cup held[s]
                                     [] OTHER -> {}]
  /\ UNCHANGED <<taken, queue, tracked, ids, fresh, sink, stored, turned, ending>>

\* Every sample of the record is offered, whatever Add says; a request whose delivery
\* is failing is answered and ends.
Add(h, failing) ==
  /\ job[h].at = "add"
  /\ \E lost \in SUBSET job[h].out :
       /\ Added(h, lost)
       /\ job' = [job EXCEPT ![h] = IF h \in Http /\ ((failing /\ @.out # {}) \/ lost # {})
                                    THEN Off ELSE Ready(@.peer)]
  /\ UNCHANGED <<taken, refused, queue, tracked, held, ids, fresh, stored, ending>>

-----------------------------------------------------------------------------
(* The tick.                                                               *)

\* flushIdle: silent senders first, then the streams of the others.
Tick ==
  /\ Serving /\ job[Idle].at = "off"
  /\ Evict(Silent, Idle, [Off EXCEPT !.at = "drain"])
  /\ UNCHANGED <<taken, refused, queue, held, ids, fresh, sink, stored, turned, ending>>

TickPeers ==
  /\ job[Idle].at = "drain" /\ job[Idle].todo = {}
  /\ job' = [job EXCEPT ![Idle].at = "idle", ![Idle].ticks = {tracked[p] : p \in Tracked}]
  /\ UNCHANGED <<taken, refused, queue, tracked, held, ids, fresh, sink, stored, turned, ending>>

\* FlushIdle of one stream, which may find nothing due.
TickOne(due) ==
  /\ job[Idle].at = "idle"
  /\ \E s \in job[Idle].ticks :
       /\ job' = [job EXCEPT ![Idle].ticks = @ \ {s}, ![Idle].at = "ticked",
                             ![Idle].out = IF due THEN held[s] ELSE {}]
       /\ held' = [held EXCEPT ![s] = IF due THEN {} ELSE @]
  /\ UNCHANGED <<taken, refused, queue, tracked, ids, fresh, sink, stored, turned, ending>>

TickEmit ==
  /\ job[Idle].at = "ticked"
  /\ \E lost \in SUBSET job[Idle].out : Added(Idle, lost)
  /\ job' = [job EXCEPT ![Idle].at = "idle", ![Idle].out = {}]
  /\ UNCHANGED <<taken, refused, queue, tracked, held, ids, fresh, stored, ending>>

TickDone ==
  /\ job[Idle].at = "idle" /\ job[Idle].ticks = {}
  /\ job' = [job EXCEPT ![Idle] = Off]
  /\ UNCHANGED <<taken, refused, queue, tracked, held, ids, fresh, sink, stored, turned, ending>>

-----------------------------------------------------------------------------
(* Shutdown.                                                               *)

\* The context is cancelled, or the sink gives up: all stop.
Cancel ==
  /\ Serving
  /\ state' = "stopping"
  /\ failed' = failed \cap {"http"}
  /\ UNCHANGED <<taken, refused, queue, job, tracked, held, ids, fresh, sink, stored, turned, cut, left>>

\* A listener's own Accept, read or Serve fails.  Where it is Serve, the goroutine that
\* would have called Shutdown ends, and no request is waited for.
Fails(l) ==
  /\ Serving /\ l \notin failed /\ Cardinality(failed) < MaxFailures
  /\ failed' = failed \cup {l}
  /\ cut' = IF l = "http" THEN Http ELSE cut
  /\ UNCHANGED <<taken, refused, queue, job, tracked, held, ids, fresh, sink, stored, turned, state, left>>

ConsumerDone == queue = <<>> /\ job[Udp].at = "ready"

\* Its error cancels the others, but first serveTCP waits for the connections it has
\* accepted, which nothing hurries, and serveUDP for the consumer of its queue.
Reports(l) ==
  /\ Serving /\ l \in failed
  /\ l = "tcp" => \A h \in Tcp : job[h].at = "off"
  /\ l = "udp" => ConsumerDone
  /\ state' = "stopping"
  /\ failed' = failed \cap {"http"}
  /\ UNCHANGED <<taken, refused, queue, job, tracked, held, ids, fresh, sink, stored, turned, cut, left>>

\* http.Server.Shutdown gives up on requests that will not finish.
GraceExpires ==
  /\ state = "stopping"
  /\ cut' = cut \cup {h \in Http : job[h].at # "off"}
  /\ UNCHANGED <<taken, refused, queue, job, tracked, held, ids, fresh, sink, stored, turned, state, failed, left>>

\* Mutant: nobody waits for the consumer of the queue.
ListenersUndrained == \A h \in Tcp \cup Http : job[h].at = "off" \/ h \in cut

\* Every listener waits for what it has accepted, but for the requests in cut.
ListenersDown ==
  /\ \A h \in Tcp \cup Http : job[h].at = "off" \/ h \in cut
  /\ ConsumerDone

\* flushAll, when the listeners and the ticker are done.
FlushAll ==
  /\ state = "stopping" /\ ListenersDown /\ job[Idle].at = "off"
  /\ state' = "draining"
  /\ Evict(Tracked, Main, [Off EXCEPT !.at = "drain"])
  /\ UNCHANGED <<taken, refused, queue, held, ids, fresh, sink, stored, turned, cut, failed, left>>

\* The last Sink.Flush, on a live context; its error is ignored, and it may also leave
\* samples that are held or over its rounds.
LastFlush ==
  /\ state = "draining" /\ job[Main].at = "drain" /\ job[Main].todo = {}
  /\ state' = "done"
  /\ left' \in SUBSET sink
  /\ stored' = sink \ left'
  /\ job' = [job EXCEPT ![Main] = Off]
  /\ UNCHANGED <<taken, refused, queue, tracked, held, ids, fresh, sink, turned, cut, failed>>

-----------------------------------------------------------------------------
Init ==
  /\ taken = {} /\ refused = {} /\ queue = <<>>
  /\ job = [h \in Handlers |-> IF h = Udp THEN Ready("") ELSE Off]
  /\ tracked = [p \in Peers |-> None]
  /\ held = [s \in Ids |-> {}]
  /\ ids = 0 /\ fresh = {} /\ sink = {} /\ stored = {} /\ turned = {}
  /\ state = "serving" /\ cut = {} /\ failed = {} /\ left = {}

Step(h) ==
  \/ Found(h) \/ NotFound(h) \/ Drain(h) \/ EmitOut(h) \/ Drained(h) \/ Process(h)
  \/ \E failing \in BOOLEAN : Add(h, failing)

Ticker == TickPeers \/ (\E due \in BOOLEAN : TickOne(due)) \/ TickEmit \/ TickDone

Next ==
  \/ \E h \in Tcp \cup Http, p \in Peers : Accept(h, p)
  \/ \E h \in Tcp \cup Http, r \in Recs :
       Take(h, r) \/ TakeLine(h, r) \/ TakeSample(h, r) \/ CutShort(h, r)
  \/ \E h \in Tcp \cup Http : Hangup(h) \/ Unblock(h)
  \/ \E r \in Recs, whole \in BOOLEAN : Datagram(r, whole)
  \/ Consume
  \/ \E p \in Peers : Silence(p)
  \/ \E h \in Handlers : Step(h)
  \/ Tick \/ Ticker
  \/ \E l \in Listeners : Fails(l) \/ Reports(l)
  \/ Cancel \/ GraceExpires \/ FlushAll \/ LastFlush

Spec == Init /\ [][Next]_vars

\* What the goroutine of a handler does when nobody sends.
Goroutine(h) ==
  \/ Step(h)
  \/ h \in Tcp /\ Unblock(h)
  \/ h = Udp /\ Consume
  \/ h = Idle /\ Ticker
  \/ h = Main /\ (FlushAll \/ LastFlush)

\* Every goroutine runs on; senders do nothing they need not do.
Fairness ==
  /\ \A h \in Handlers : WF_vars(Goroutine(h))
  /\ WF_vars(\E l \in Listeners : Reports(l))
  /\ WF_vars(GraceExpires)

FairSpec == Spec /\ Fairness

-----------------------------------------------------------------------------
(* Properties.                                                             *)

\* No request runs beside the last flushes.
Alone == cut # {} => state \in {"serving", "stopping"}

\* What a stream holds will be flushed by someone: the stream is that of a sender, or
\* a handler has it to drain, unless a request that nobody waits for runs beside
\* flushAll, having outlived its grace or the listener that failed.
NoneStranded ==
  \A s \in Ids : held[s] # {} =>
    \/ s \in {tracked[p] : p \in Peers}
    \/ \E h \in Handlers : s \in job[h].todo
    \/ ~Alone

\* When Receive returns, every record a listener took was given to the sink before its
\* last Flush, which stored it or has it left over, or was refused by name, or was
\* turned away by a full sink once its caller was cancelled: if every request ended
\* within its grace and Serve did not fail.
AllDelivered ==
  state = "done" /\ cut = {} => taken \subseteq stored \cup left \cup refused \cup turned

\* A listener that stops takes Receive with it, however silent the senders are: once the
\* context is cancelled, or the datagrams or the requests failed.  (TCP connections of a
\* listener that failed end when their senders like, or are silent for connIdleTimeout.)
EventuallyReturns ==
  state = "stopping" \/ failed \cap {"udp", "http"} # {} ~> state = "done"
=============================================================================
