------------------------------ MODULE Delivery ------------------------------
(***************************************************************************)
(* What the ingest sink promises to whoever feeds it (internal/ingest/     *)
(* sink.go): samples wait in a buffer, one request at a time carries some  *)
(* of them to the store, and each request ends in exactly one of three     *)
(* ways - the store answered 200, the samples go back in the buffer, or    *)
(* the samples are abandoned.  A request that takes the whole buffer is    *)
(* announced to the delivery observers when it is taken and when it ends;  *)
(* a request that leaves samples behind is announced only if it is lost.   *)
(*                                                                         *)
(* Batching, byte budgets, metadata, the order inside the buffer and the   *)
(* cap on it are left to the module Sink, which is checked to implement    *)
(* this one.                                                               *)
(***************************************************************************)
CONSTANTS
  Samples,  \* the samples that can be handed to the sink
  Bad       \* the samples the store refuses by name inside a 200 response

ASSUME BadAssumption == Bad \subseteq Samples

VARIABLES
  queue,    \* Sink.buffers: samples waiting in memory
  flying,   \* the batch of the request in progress, {} when sendMu is free
  whole,    \* that batch emptied the buffer, so BeginFlush was announced
  hold,     \* Sink.holdUntil lies in the future: flushRound does nothing
  stored,   \* samples the store holds durably
  dropped   \* samples the sink abandoned

dvars == <<queue, flying, whole, hold, stored, dropped>>

\* A sample needs no further delivery once the store has it or has refused it.
Settled == stored \cup Bad

DInit ==
  /\ queue = {} /\ flying = {} /\ whole = FALSE
  /\ hold = FALSE /\ stored = {} /\ dropped = {}

\* Sink.Add and Sink.AddSample: the samples enter the buffer.  S may repeat
\* samples the sink or the store already has: a re-read queues them again.
Add(S) ==
  /\ queue' = queue \cup S
  /\ UNCHANGED <<flying, whole, hold, stored, dropped>>

\* flushRound up to the request: not while holding, nothing when the buffer
\* is empty, and only one request at a time (sendMu).
Take(F) ==
  /\ flying = {} /\ ~hold
  /\ F # {} /\ F \subseteq queue
  /\ flying' = F
  /\ queue' = queue \ F
  /\ whole' = (F = queue)
  /\ UNCHANGED <<hold, stored, dropped>>

\* The store commits some of the request.  Several requests of one Write
\* (retries) repeat this step, and it may happen without the client ever
\* seeing the answer.
Commit(S) ==
  /\ flying # {}
  /\ S \subseteq flying \ Bad
  /\ stored' = stored \cup S
  /\ UNCHANGED <<queue, flying, whole, hold, dropped>>

\* 200: every sample of the request is stored or was refused by name.
Accept ==
  /\ flying # {}
  /\ flying \subseteq Settled
  /\ flying' = {}
  /\ hold' = FALSE
  /\ UNCHANGED <<queue, whole, stored, dropped>>

\* requeueBatches: the request failed in a way that says nothing about its
\* samples.  h: the failure also starts a delivery hold.
Requeue(h) ==
  /\ flying # {}
  /\ queue' = queue \cup flying
  /\ flying' = {}
  /\ hold' = (hold \/ h)
  /\ UNCHANGED <<whole, stored, dropped>>

\* ErrFatal: the batch is abandoned and the observers hear of it.
Drop ==
  /\ flying # {}
  /\ dropped' = dropped \cup flying
  /\ flying' = {}
  /\ UNCHANGED <<queue, whole, hold, stored>>

\* A request that carried declarations and no samples was refused for its
\* credential, which starts a hold as well.
StartHold ==
  /\ flying = {} /\ ~hold
  /\ hold' = TRUE
  /\ UNCHANGED <<queue, flying, whole, stored, dropped>>

\* The hold has run out, or Close clears it.
Release ==
  /\ hold
  /\ hold' = FALSE
  /\ UNCHANGED <<queue, flying, whole, stored, dropped>>

\* The process ends: everything in memory is gone.
Lose ==
  /\ queue' = {} /\ flying' = {} /\ whole' = FALSE /\ hold' = FALSE
  /\ UNCHANGED <<stored, dropped>>

DNext ==
  \/ \E S \in SUBSET Samples : Add(S)
  \/ \E F \in SUBSET queue : Take(F)
  \/ \E S \in SUBSET flying : Commit(S)
  \/ Accept
  \/ \E h \in BOOLEAN : Requeue(h)
  \/ Drop
  \/ StartHold
  \/ Release
  \/ Lose

DSpec == DInit /\ [][DNext]_dvars
=============================================================================
