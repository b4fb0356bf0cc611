------------------------------- MODULE Tables -------------------------------
(***************************************************************************)
(* What the engine promises to the store.  Each set holds rows, and they   *)
(* change only as callers ask: a batch of rows appears whole, a drop       *)
(* empties its set and no other, rows asked to be deleted go, or the call  *)
(* fails and nothing happens.  After a crash every set is as it was at one *)
(* earlier moment, the same for all of them.                               *)
(***************************************************************************)
CONSTANTS Clients, Sets, Keys

VARIABLES
  table,  \* the keys of the rows a query of each set would find
  kept,   \* the same, should the machine fail now
  asked   \* the call each client is in

tvars == <<table, kept, asked>>

Nothing == [do |-> "nothing"]
Calls == [do : {"put", "delete"}, set : Sets, keys : SUBSET Keys]
           \cup [do : {"drop"}, set : Sets]

TInit ==
  /\ table \in [Sets -> SUBSET Keys]
  /\ kept = table
  /\ asked = [c \in Clients |-> Nothing]

\* A write may be synced, and then all before it is.
Settle == kept' \in {kept, table'}

Ask(c) ==
  /\ asked[c] = Nothing
  /\ asked'[c] \in Calls
  /\ asked' = [asked EXCEPT ![c] = asked'[c]]
  /\ Settle
  /\ UNCHANGED table

Effect(r) ==
  CASE r.do = "put"    -> [table EXCEPT ![r.set] = @ \cup r.keys]
    [] r.do = "delete" -> [table EXCEPT ![r.set] = @ \ r.keys]
    [] r.do = "drop"   -> [table EXCEPT ![r.set] = {}]

Done(c) ==
  /\ asked[c] # Nothing
  /\ table' = Effect(asked[c])
  /\ asked' = [asked EXCEPT ![c] = Nothing]
  /\ Settle

Failed(c) ==
  /\ asked[c] # Nothing
  /\ asked' = [asked EXCEPT ![c] = Nothing]
  /\ UNCHANGED <<table, kept>>

Keep ==
  /\ kept' = table
  /\ UNCHANGED <<table, asked>>

Fall ==
  /\ table' = kept
  /\ asked' = [c \in Clients |-> Nothing]
  /\ UNCHANGED kept

TNext ==
  \/ \E c \in Clients : Ask(c) \/ Done(c) \/ Failed(c)
  \/ Keep
  \/ Fall

TSpec == TInit /\ [][TNext]_tvars
=============================================================================
