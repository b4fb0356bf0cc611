------------------------------- MODULE Engine -------------------------------
(***************************************************************************)
(* The engine: named sets over one ordered key space (internal/engine).    *)
(*                                                                         *)
(* Rows are keyed by the id of their set, the record of a set by its name, *)
(* so every operation has to keep the two in step, beside other operations *)
(* and across failed writes and crashes.  The steps of an operation are    *)
(* its writes to the key space and the moments it gives a lock up.         *)
(*                                                                         *)
(* A row carries its timestamp, as every row of the store does: all sets   *)
(* are indexed.  A row k brings a column of its own, also named k, so a    *)
(* schema is a set of keys.                                                *)
(***************************************************************************)
EXTENDS Integers, FiniteSets, FiniteSetsExt

CONSTANTS
  Clients,   \* goroutines that call the engine
  Sets,      \* set names
  Keys,      \* primary keys; each names one row of a set
  Batches,   \* the sets of rows that PutBatch is called with
  Old,       \* the keys whose timestamp is before the retention horizon
  Profiles,  \* the durability profiles to consider
  MaxId,     \* bound on set ids
  MaxFail,   \* bound on failed writes
  MaxCrash   \* bound on crashes

ASSUME EngineAssumption ==
  /\ Old \subseteq Keys /\ Batches \subseteq SUBSET Keys
  /\ Profiles \subseteq {"batch", "stream", "paranoid"}
  /\ MaxId \in Nat /\ MaxFail \in Nat /\ MaxCrash \in Nat

VARIABLES
  profile,  \* Options.EnableWAL and SyncWrites
  up,       \* the database is open
  sets,     \* DB.sets
  nextID,   \* DB.nextID
  disk,     \* the key space as this process sees it
  safe,     \* the key space as a crash would leave it
  op,       \* what each client is doing
  acked,    \* rows whose PutBatch returned nil, not dropped or deleted since
  fails, crashes

vars == <<profile, up, sets, nextID, disk, safe, op, acked, fails, crashes>>

Absent == [id |-> -1, cols |-> {}, dirty |-> FALSE]
Idle == [at |-> "idle", set |-> "", was |-> Absent, keys |-> {}]

\* The record of a set on disk: dirty is not serialised.
Record(sm) == [sm EXCEPT !.dirty = FALSE]

Row(id, n, k) == [id |-> id, of |-> n, key |-> k]
RowsOf(d, id) == {r \in d.rows : r.id = id}

Empty == [meta |-> [n \in Sets |-> Absent], hw |-> 0, rows |-> {}]

\* A directory of an earlier build: a set with an old row, no next_set_id record.
Legacy(n, k) ==
  [Empty EXCEPT !.meta[n] = [Absent EXCEPT !.id = 0, !.cols = {k}],
                !.rows = {Row(0, n, k)}]

-----------------------------------------------------------------------------
(* Writes: metaOpts syncs whenever there is a log, writeOpts only in the   *)
(* paranoid profile.  A synced write makes all earlier ones safe.          *)

WriteMeta(d) ==
  /\ disk' = d
  /\ safe' = IF profile = "batch" THEN safe ELSE d

WriteRows(d) ==
  /\ disk' = d
  /\ safe' = IF profile = "paranoid" THEN d ELSE safe

\* A batch or a record is written whole or not at all.
Fail ==
  /\ fails < MaxFail
  /\ fails' = fails + 1
  /\ UNCHANGED <<disk, safe>>

Wrote == UNCHANGED fails

\* dropMu: held shared from Lookup and Expire on, exclusively by DropSet.
DropMuUntilResolved == \E c \in Clients : op[c].at = "persist"
DropMuShared == \E c \in Clients : op[c].at \in {"persist", "apply", "expire"}
DropMuHeld == \E c \in Clients : op[c].at = "drop"

\* mu: held from the creation of a set until its record is written.
MuHeld == \E c \in Clients : op[c].at = "persist"

Ready(c) == up /\ op[c] = Idle
Goto(c, o) == op' = [op EXCEPT ![c] = o]
Return(c) == Goto(c, Idle)

-----------------------------------------------------------------------------
(* PutBatch; setLocked is its first two steps.                             *)

\* The id is spent whether or not the mark could be written.
CreateSetUnrecorded(c, n, ks) ==
  /\ sets[n] = Absent /\ nextID < MaxId
  /\ nextID' = nextID + 1
  /\ sets' = [sets EXCEPT ![n] = [id |-> nextID, cols |-> ks, dirty |-> TRUE]]
  /\ WriteMeta([disk EXCEPT !.hw = nextID'])
  /\ Goto(c, [Idle EXCEPT !.at = "apply", !.set = n, !.was = sets'[n], !.keys = ks])
  /\ Wrote

CreateSet(c, n, ks) ==
  /\ sets[n] = Absent /\ nextID < MaxId
  /\ nextID' = nextID + 1
  /\ \/ /\ sets' = [sets EXCEPT ![n] = [id |-> nextID, cols |-> ks, dirty |-> TRUE]]
        /\ WriteMeta([disk EXCEPT !.hw = nextID'])
        /\ Goto(c, [Idle EXCEPT !.at = "persist", !.set = n, !.was = sets'[n], !.keys = ks])
        /\ Wrote
     \/ /\ Fail
        /\ UNCHANGED <<sets, op>>

\* dirty may also be left from a record an earlier call could not write.
WidenSet(c, n, ks) ==
  LET sm == sets[n]
      wide == [sm EXCEPT !.cols = @ \cup ks, !.dirty = @ \/ ~(ks \subseteq sm.cols)]
  IN
  /\ sm # Absent
  /\ sets' = [sets EXCEPT ![n] = wide]
  /\ Goto(c, [Idle EXCEPT !.at = IF wide.dirty THEN "persist" ELSE "apply",
                          !.set = n, !.was = wide, !.keys = ks])
  /\ UNCHANGED <<nextID, disk, safe, fails>>

Lookup(c, n, ks) ==
  /\ Ready(c) /\ ~DropMuHeld /\ ~MuHeld
  /\ CreateSet(c, n, ks) \/ WidenSet(c, n, ks)
  /\ UNCHANGED <<profile, up, acked, crashes>>

\* persistSet; a failure leaves the set dirty for the next call.
Persist(c) ==
  LET n == op[c].set IN
  /\ op[c].at = "persist"
  /\ \/ /\ WriteMeta([disk EXCEPT !.meta[n] = Record(sets[n])])
        /\ sets' = [sets EXCEPT ![n].dirty = FALSE]
        /\ Goto(c, [op[c] EXCEPT !.at = "apply"])
        /\ Wrote
     \/ /\ Fail
        /\ Return(c)
        /\ UNCHANGED sets
  /\ UNCHANGED <<profile, up, nextID, acked, crashes>>

\* The rows go under the id read before mu was given up.
Apply(c) ==
  LET n == op[c].set  ks == op[c].keys IN
  /\ op[c].at = "apply"
  /\ \/ /\ WriteRows([disk EXCEPT !.rows = @ \cup {Row(op[c].was.id, n, k) : k \in ks}])
        /\ acked' = acked \cup {<<n, k>> : k \in ks}
        /\ Wrote
     \/ /\ Fail
        /\ UNCHANGED acked
  /\ Return(c)
  /\ UNCHANGED <<profile, up, sets, nextID, crashes>>

-----------------------------------------------------------------------------
(* DropSet and DeleteOlderThan.                                            *)

DropSetReusing(c, n) ==
  /\ Ready(c) /\ ~DropMuHeld /\ ~DropMuShared
  /\ sets[n] # Absent
  /\ sets' = [sets EXCEPT ![n] = Absent]
  /\ nextID' = sets[n].id
  /\ Goto(c, [Idle EXCEPT !.at = "drop", !.set = n, !.was = sets[n]])
  /\ UNCHANGED <<profile, up, disk, safe, acked, fails, crashes>>

DropSet(c, n) ==
  /\ Ready(c) /\ ~DropMuHeld /\ ~DropMuShared
  /\ sets[n] # Absent
  /\ sets' = [sets EXCEPT ![n] = Absent]
  /\ Goto(c, [Idle EXCEPT !.at = "drop", !.set = n, !.was = sets[n]])
  /\ UNCHANGED <<profile, up, nextID, disk, safe, acked, fails, crashes>>

\* A scan in progress is no longer owed the rows removed under it.
Forget(c, gone) ==
  op' = [d \in Clients |->
           IF d = c THEN Idle
           ELSE IF op[d].at = "scan"
           THEN [op[d] EXCEPT !.keys = {k \in @ : <<op[d].set, k>> \notin gone}]
           ELSE op[d]]

DropApplyUnrestored(c) ==
  LET n == op[c].set  gone == {n} \X Keys IN
  /\ op[c].at = "drop"
  /\ \/ /\ WriteMeta([disk EXCEPT !.rows = @ \ RowsOf(disk, op[c].was.id), !.meta[n] = Absent])
        /\ acked' = acked \ gone
        /\ Forget(c, gone)
        /\ Wrote
     \/ /\ Fail
        /\ Return(c)
        /\ UNCHANGED acked
  /\ UNCHANGED <<profile, up, sets, nextID, crashes>>

\* Both range deletes and the record in one batch; restore on failure.
DropApply(c) ==
  LET n == op[c].set  id == op[c].was.id
      gone == {n} \X Keys
  IN
  /\ op[c].at = "drop"
  /\ \/ /\ WriteMeta([disk EXCEPT !.rows = @ \ RowsOf(disk, id), !.meta[n] = Absent])
        /\ acked' = acked \ gone
        /\ Forget(c, gone)
        /\ Wrote
        /\ UNCHANGED sets
     \/ /\ Fail
        /\ sets' = [sets EXCEPT ![n] = op[c].was]
        /\ Return(c)
        /\ UNCHANGED acked
  /\ UNCHANGED <<profile, up, nextID, crashes>>

\* The rows before the horizon are collected first and deleted later.
Expire(c, n) ==
  LET dead == {r.key : r \in RowsOf(disk, sets[n].id)} \cap Old IN
  /\ Ready(c) /\ ~DropMuHeld /\ ~MuHeld
  /\ sets[n] # Absent /\ dead # {}
  /\ Goto(c, [Idle EXCEPT !.at = "expire", !.set = n, !.was = sets[n], !.keys = dead])
  /\ UNCHANGED <<profile, up, sets, nextID, disk, safe, acked, fails, crashes>>

ExpireApply(c) ==
  LET n == op[c].set  gone == {n} \X op[c].keys IN
  /\ op[c].at = "expire"
  /\ \/ /\ WriteRows([disk EXCEPT !.rows = @ \ {Row(op[c].was.id, n, k) : k \in op[c].keys}])
        /\ acked' = acked \ gone
        /\ Forget(c, gone)
        /\ Wrote
     \/ /\ Fail
        /\ Return(c)
        /\ UNCHANGED acked
  /\ UNCHANGED <<profile, up, sets, nextID, crashes>>

-----------------------------------------------------------------------------
(* Run and Get: the set's id is read under mu, the rows later and without  *)
(* any lock, from a snapshot.  keys are the rows the scan owes its caller; *)
(* what it would return now is Found.                                      *)

Scan(c, n) ==
  /\ Ready(c) /\ ~MuHeld
  /\ sets[n] # Absent
  /\ Goto(c, [Idle EXCEPT !.at = "scan", !.set = n, !.was = sets[n],
                          !.keys = {k \in Keys : <<n, k>> \in acked}])
  /\ UNCHANGED <<profile, up, sets, nextID, disk, safe, acked, fails, crashes>>

Found(c) == RowsOf(disk, op[c].was.id)

Read(c) ==
  /\ op[c].at = "scan"
  /\ Return(c)
  /\ UNCHANGED <<profile, up, sets, nextID, disk, safe, acked, fails, crashes>>

-----------------------------------------------------------------------------
(* Flush, Close, a crash and Open.                                         *)

\* DB.Flush, or the key space writing its memory out by itself.
Flush ==
  /\ up /\ safe # disk
  /\ safe' = disk
  /\ UNCHANGED <<profile, up, sets, nextID, disk, op, acked, fails, crashes>>

Stop ==
  /\ up' = FALSE
  /\ sets' = [n \in Sets |-> Absent]
  /\ nextID' = 0
  /\ op' = [c \in Clients |-> Idle]

\* The store closes the engine when no call is inside it.
Close ==
  /\ up /\ crashes < MaxCrash
  /\ \A c \in Clients : op[c] = Idle
  /\ safe' = disk
  /\ Stop
  /\ crashes' = crashes + 1
  /\ UNCHANGED <<profile, disk, acked, fails>>

\* What may be lost is what the profile does not promise to keep.
Crash ==
  /\ up /\ crashes < MaxCrash
  /\ disk' = safe
  /\ acked' = IF profile = "paranoid" THEN acked
              ELSE {a \in acked : \E r \in safe.rows : r.of = a[1] /\ r.key = a[2]}
  /\ Stop
  /\ crashes' = crashes + 1
  /\ UNCHANGED <<profile, safe, fails>>

\* loadMeta: the larger of the mark and what the surviving sets imply.
HighWater(d) == Max({d.hw} \cup {d.meta[n].id + 1 : n \in Sets})

Open ==
  /\ ~up
  /\ up' = TRUE
  /\ sets' = disk.meta
  /\ nextID' = HighWater(disk)
  /\ IF disk.hw # nextID' THEN WriteMeta([disk EXCEPT !.hw = nextID'])
                          ELSE UNCHANGED <<disk, safe>>
  /\ UNCHANGED <<profile, op, acked, fails, crashes>>

-----------------------------------------------------------------------------
Init ==
  /\ profile \in Profiles
  /\ up = FALSE
  /\ sets = [n \in Sets |-> Absent]
  /\ nextID = 0
  /\ disk \in {Empty} \cup {Legacy(n, k) : n \in Sets, k \in Old}
  /\ safe = disk
  /\ op = [c \in Clients |-> Idle]
  /\ acked = {<<r.of, r.key>> : r \in disk.rows}
  /\ fails = 0 /\ crashes = 0

Next ==
  \/ \E c \in Clients :
       \/ \E n \in Sets :
            \/ \E ks \in Batches : Lookup(c, n, ks)
            \/ DropSet(c, n)
            \/ Expire(c, n)
            \/ Scan(c, n)
       \/ Persist(c) \/ Apply(c)
       \/ DropApply(c) \/ ExpireApply(c)
       \/ Read(c)
  \/ Flush \/ Close \/ Crash \/ Open

Spec == Init /\ [][Next]_vars

-----------------------------------------------------------------------------
(* Properties.                                                             *)

\* Every row belongs to the record of the set it was written to, under that
\* record's id, and its columns are in the recorded schema.
Owned(d) ==
  \A r \in d.rows : /\ d.meta[r.of].id = r.id
                    /\ r.key \in d.meta[r.of].cols

\* No row is ever out of reach of queries, drops and retention, neither now nor after
\* a crash: the order of the writes of setLocked, PutBatch and DropSet.
NoOrphans == Owned(disk) /\ Owned(safe)

\* A row that PutBatch reported written is found under the id a query would use, until
\* its set is dropped or the row deleted: also after a failed drop, after a clean Close
\* in every profile and after a crash in the paranoid one.
AckedReadable ==
  up => \A a \in acked :
          \/ \E c \in Clients : op[c].at = "drop" /\ op[c].set = a[1]
          \/ sets[a[1]] # Absent /\ Row(sets[a[1]].id, a[1], a[2]) \in disk.rows

\* A scan returns rows of its own set only, and every row acknowledged before it began
\* and not removed since, though a drop may have come between its two steps.
ScanExact ==
  \A c \in Clients : op[c].at = "scan" =>
    /\ \A r \in Found(c) : r.of = op[c].set
    /\ op[c].keys \subseteq {r.key : r \in Found(c)}

\* What a query of each set would find in key space d.
Contents(d) == [n \in Sets |-> {r.key : r \in RowsOf(d, d.meta[n].id)}]

\* The call a client is in, as its caller sees it.
Asked(c) ==
  CASE op[c].at \in {"persist", "apply"} -> [do |-> "put", set |-> op[c].set, keys |-> op[c].keys]
    [] op[c].at = "expire" -> [do |-> "delete", set |-> op[c].set, keys |-> op[c].keys]
    [] op[c].at = "drop" -> [do |-> "drop", set |-> op[c].set]
    [] OTHER -> [do |-> "nothing"]

\* The engine implements the tables the store is written against: rows change only at
\* the one write of a call that asked for it, whole, and fall back together.
Contract == INSTANCE Tables WITH table <- Contents(disk), kept <- Contents(safe),
                                 asked <- [c \in Clients |-> Asked(c)]
KeepsContract == Contract!TSpec
=============================================================================
