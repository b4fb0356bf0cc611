----------------------------- MODULE Dictionary -----------------------------
(***************************************************************************)
(* The label dictionaries of the store (internal/store/store.go).          *)
(*                                                                         *)
(* A row holds a position for each label, and the dictionary of the label  *)
(* gives the value at that position.  Writes intern values and put their   *)
(* rows later; retention removes rows and then blanks the values that no   *)
(* row it has seen uses, so that their positions can be given out again.   *)
(* Dictionary records and rows are separate writes to the engine.          *)
(*                                                                         *)
(* A row has one label here.  Positions count from one; one sweep runs.    *)
(***************************************************************************)
EXTENDS Integers, Sequences, SequencesExt, FiniteSets, FiniteSetsExt

CONSTANTS
  Writers,  \* write requests in progress
  Labels, Values, Shards,
  MaxKeys,  \* Config.MaxLabelKeys
  MaxCard,  \* Config.MaxLabelCardinality
  Old,      \* packed arrays that an earlier build may have left, per label
  MaxPos,   \* bound on positions
  MaxWrite, \* bound on write requests
  MaxFail,  \* bound on failed engine writes
  MaxCrash  \* bound on crashes

\* An empty entry, which no label value equals (ValidateLabelValue).
Hole == "hole"

ASSUME DictionaryAssumption ==
  /\ Hole \notin Values /\ Old \subseteq [Labels -> Seq(Values \cup {Hole})]
  /\ MaxKeys \in Nat \ {0} /\ MaxCard \in Nat \ {0}
  /\ MaxPos \in Nat /\ MaxWrite \in Nat
  /\ MaxFail \in Nat /\ MaxCrash \in Nat

VARIABLES
  dict,   \* Store.dict
  disk,   \* what the engine holds: recs, packed, rows
  safe,   \* what a crash would leave of it
  req,    \* the position each writer has interned and not yet put
  sweep,  \* the retention sweep
  writes, fails, crashes

vars == <<dict, disk, safe, req, sweep, writes, fails, crashes>>

NoReq == [on |-> FALSE]
NoSweep == [at |-> "idle"]

NoDict == [on |-> FALSE, entries |-> <<>>, index |-> [v \in Values |-> 0],
           alias |-> [v \in Values |-> {}], holes |-> {}, live |-> 0]

\* rebuildIndex: everything but the entries is derived from them.  The free list is
\* a set: built in ascending order, it only loses its last and takes it back.
RebuildIndex(es) ==
  LET at(v) == {i \in DOMAIN es : es[i] = v}
      first(v) == IF at(v) = {} THEN 0 ELSE Min(at(v))
  IN  [on |-> TRUE,
       entries |-> es,
       index |-> [v \in Values |-> first(v)],
       alias |-> [v \in Values |-> at(v) \ {first(v)}],
       holes |-> at(Hole),
       live |-> Len(es) - Cardinality(at(Hole))]

\* Mutant: the packed array read over the records.
LoadPackedLast(d, l) ==
  LET recs == {i \in 1 .. MaxPos : d.recs[l][i] # Hole}
      size == Max({Len(d.packed[l])} \cup recs)
      entry(i) == IF i <= Len(d.packed[l]) THEN d.packed[l][i] ELSE d.recs[l][i]
  IN  IF size = 0 THEN NoDict ELSE RebuildIndex([i \in 1 .. size |-> entry(i)])

\* loadDictionaries: the packed array first, the records over it.
Load(d, l) ==
  LET recs == {i \in 1 .. MaxPos : d.recs[l][i] # Hole}
      size == Max({Len(d.packed[l])} \cup recs)
      entry(i) == IF i \in recs THEN d.recs[l][i]
                  ELSE IF i <= Len(d.packed[l]) THEN d.packed[l][i] ELSE Hole
  IN  IF size = 0 THEN NoDict ELSE RebuildIndex([i \in 1 .. size |-> entry(i)])

\* Mutant: only the position the index names.
PositionsFirst(l, v) == {dict[l].index[v]} \ {0}

\* positions: where a comparison with v looks.
Positions(l, v) ==
  IF dict[l].index[v] = 0 THEN {} ELSE {dict[l].index[v]} \cup dict[l].alias[v]

\* labelValue.
ValueAt(d, i) == IF i \in DOMAIN d.entries THEN d.entries[i] ELSE Hole

\* takeHole: the last listed position that is still free, and the list below it.
TakeHole(d) ==
  LET free == {j \in d.holes \cap DOMAIN d.entries : d.entries[j] = Hole}
  IN  IF free = {} THEN [pos |-> 0, rest |-> {}]
      ELSE [pos |-> Max(free), rest |-> {j \in d.holes : j < Max(free)}]

Fail ==
  /\ fails < MaxFail
  /\ fails' = fails + 1

-----------------------------------------------------------------------------
(* Write: intern the label, then put the row.                              *)

Known == {l \in Labels : dict[l].on}

\* rowFor keeps the position in a row that it has still to put.
Interned(w, l, v, s, i, stale) ==
  req' = [req EXCEPT ![w] =
            [on |-> TRUE, label |-> l, val |-> v, shard |-> s, pos |-> i, mark |-> stale]]

\* The index may name a position that a failed reclaim has blanked: a stale hit.
InternHit(w, l, v, s) ==
  LET i == dict[l].index[v] IN
  /\ i # 0
  /\ Interned(w, l, v, s, i, ValueAt(dict[l], i) # v)
  /\ UNCHANGED <<dict, disk, fails>>

\* The record is written before the value is used.
InternNew(w, l, v, s) ==
  LET d == dict[l]
      hole == TakeHole(d)
      i == IF hole.pos # 0 THEN hole.pos ELSE Len(d.entries) + 1
  IN
  /\ d.index[v] = 0
  /\ d.on \/ Cardinality(Known) < MaxKeys
  /\ d.live < MaxCard /\ i <= MaxPos
  /\ \/ /\ disk' = [disk EXCEPT !.recs[l][i] = v]
        /\ dict' = [dict EXCEPT ![l] =
             [d EXCEPT !.on = TRUE, !.holes = hole.rest, !.live = @ + 1,
                       !.index[v] = i,
                       !.entries = IF hole.pos # 0 THEN [@ EXCEPT ![i] = v] ELSE Append(@, v)]]
        /\ Interned(w, l, v, s, i, FALSE)
        /\ UNCHANGED fails
     \/ /\ Fail
        /\ dict' = [dict EXCEPT ![l].holes =
             hole.rest \cup ({hole.pos} \ {0})]
        /\ UNCHANGED <<disk, req>>

Intern(w, l, v, s) ==
  /\ ~req[w].on
  /\ writes < MaxWrite
  /\ writes' = writes + 1
  /\ InternHit(w, l, v, s) \/ InternNew(w, l, v, s)
  /\ UNCHANGED <<safe, sweep, crashes>>

\* The sweep will not see the row: its shard has been scanned or was not there,
\* or its label was not known when the sweep began.
Missed(r) ==
  /\ sweep.at = "scan"
  /\ r.shard \notin sweep.todo \/ r.label \notin sweep.keys

RowOf(r) == [label |-> r.label, pos |-> r.pos, val |-> r.val, shard |-> r.shard,
             mark |-> r.mark \/ Missed(r)]

PutBatch(w) ==
  /\ req[w].on
  /\ \/ /\ disk' = [disk EXCEPT !.rows = @ \cup {RowOf(req[w])}]
        /\ UNCHANGED fails
     \/ /\ Fail
        /\ UNCHANGED disk
  /\ req' = [req EXCEPT ![w] = NoReq]
  /\ UNCHANGED <<dict, safe, sweep, writes, crashes>>

-----------------------------------------------------------------------------
(* RunRetention: rows go, then reclaimDictionaries.                        *)

RowsIn(s) == {r \in disk.rows : r.shard = s}

\* One shard of the loop: DropSet if it has aged, DeleteOlderThan if it is unsharded.
\* An error returns from RunRetention, and what the earlier shards freed is not reclaimed.
Retain(s, gone) ==
  /\ sweep.at \in {"idle", "begin"}
  /\ gone # {}
  /\ \/ /\ disk' = [disk EXCEPT !.rows = @ \ gone]
        /\ sweep' = [at |-> "begin"]
        /\ UNCHANGED fails
     \/ /\ Fail
        /\ sweep' = NoSweep
        /\ UNCHANGED disk
  /\ UNCHANGED <<dict, safe, req, writes, crashes>>

\* The keys known now are the columns the scans read.
ReclaimBegin ==
  /\ sweep.at = "begin"
  /\ sweep' = IF Known = {} THEN NoSweep
              ELSE [at |-> "scan", keys |-> Known, used |-> {},
                    todo |-> {s \in Shards : RowsIn(s) # {}}]
  /\ UNCHANGED <<dict, disk, safe, req, fails, writes, crashes>>

\* Mutant: each shard starts the set of used positions again.
ReclaimScanForgets(s) ==
  /\ sweep.at = "scan" /\ s \in sweep.todo
  /\ sweep' = [sweep EXCEPT !.todo = @ \ {s},
                            !.used = {<<r.label, r.pos>> : r \in RowsIn(s)}]
  /\ UNCHANGED <<dict, disk, safe, req, fails, writes, crashes>>

\* The iterator reads the shard as it is when the scan starts.
ReclaimScan(s) ==
  /\ sweep.at = "scan" /\ s \in sweep.todo
  /\ sweep' = [sweep EXCEPT !.todo = @ \ {s},
                            !.used = @ \cup {<<r.label, r.pos>> : r \in
                                              {x \in RowsIn(s) : x.label \in sweep.keys}}]
  /\ UNCHANGED <<dict, disk, safe, req, fails, writes, crashes>>

\* A scan that fails ends the sweep.
ReclaimScanFails ==
  /\ sweep.at = "scan" /\ sweep.todo # {}
  /\ Fail
  /\ sweep' = NoSweep
  /\ UNCHANGED <<dict, disk, safe, req, writes, crashes>>

Unused(l) == {i \in DOMAIN dict[l].entries :
                dict[l].entries[i] # Hole /\ <<l, i>> \notin sweep.used}

Blanked(es, free) == [i \in DOMAIN es |-> IF i \in free THEN Hole ELSE es[i]]

\* The records of the freed positions go, and the packed array is written again.
RecsLeft(l, free) == [i \in 1 .. MaxPos |-> IF i \in free THEN Hole ELSE disk.recs[l][i]]
Repacked(l) == [i \in DOMAIN disk.packed[l] |->
                  IF i \in DOMAIN dict[l].entries
                  THEN Blanked(dict[l].entries, Unused(l))[i] ELSE disk.packed[l][i]]

\* The positions in blank go from memory and those in freed from the records; the
\* labels in rebuilt have a new index and those in packed a new packed array.
Reclaim(rebuilt, packed, blank, freed) ==
  LET es(l) == Blanked(dict[l].entries, blank[l]) IN
  /\ dict' = [l \in Labels |-> IF l \in rebuilt THEN RebuildIndex(es(l))
                              ELSE [dict[l] EXCEPT !.entries = es(l)]]
  /\ disk' = [disk EXCEPT
       !.recs = [l \in Labels |-> RecsLeft(l, freed[l])],
       !.packed = [l \in Labels |-> IF l \in packed THEN Repacked(l) ELSE @[l]]]

\* The labels in done are finished.  The first failure, at label l, ends it: the
\* record of position i could not be deleted (the index of l is then not rebuilt),
\* or the packed array could not be read or written.
ReclaimBlank ==
  LET changed == {l \in Known : Unused(l) # {}}
      all(done) == [l \in Labels |-> IF l \in done THEN Unused(l) ELSE {}]
      upTo(l, i) == {j \in Unused(l) : j <= i}
      deleteFails(done, l, i) ==
        Reclaim(done, done, [all(done) EXCEPT ![l] = upTo(l, i)],
                            [all(done) EXCEPT ![l] = upTo(l, i - 1)])
      packedFails(done, l) ==
        Reclaim(done \cup {l}, done, all(done \cup {l}), all(done \cup {l}))
  IN
  /\ sweep.at = "scan" /\ sweep.todo = {}
  /\ \/ Reclaim(changed, changed, all(changed), all(changed)) /\ UNCHANGED fails
     \/ \E l \in changed : \E done \in SUBSET (changed \ {l}) :
          /\ Fail
          /\ \/ \E i \in Unused(l) : deleteFails(done, l, i)
             \/ packedFails(done, l)
  /\ req' = [w \in Writers |-> IF req[w].on THEN [req[w] EXCEPT !.mark = TRUE] ELSE req[w]]
  /\ sweep' = NoSweep
  /\ UNCHANGED <<safe, writes, crashes>>

-----------------------------------------------------------------------------
\* What was written reaches the disk in the order it was written.
Flush ==
  /\ safe # disk
  /\ safe' = disk
  /\ UNCHANGED <<dict, disk, req, sweep, fails, writes, crashes>>

\* A crash, and the next Open.
Restart ==
  /\ crashes < MaxCrash
  /\ crashes' = crashes + 1
  /\ disk' = safe
  /\ dict' = [l \in Labels |-> Load(safe, l)]
  /\ req' = [w \in Writers |-> NoReq]
  /\ sweep' = NoSweep
  /\ UNCHANGED <<safe, writes, fails>>

Init ==
  /\ disk \in [recs : {[l \in Labels |-> [i \in 1 .. MaxPos |-> Hole]]},
               packed : Old, rows : {{}}]
  /\ safe = disk
  /\ dict = [l \in Labels |-> Load(disk, l)]
  /\ req = [w \in Writers |-> NoReq]
  /\ sweep = NoSweep
  /\ writes = 0 /\ fails = 0 /\ crashes = 0

Next ==
  \/ \E w \in Writers :
       \/ \E l \in Labels, v \in Values, s \in Shards : Intern(w, l, v, s)
       \/ PutBatch(w)
  \/ \E s \in Shards :
       \/ \E gone \in SUBSET RowsIn(s) : Retain(s, gone)
       \/ ReclaimScan(s)
  \/ ReclaimBegin \/ ReclaimScanFails \/ ReclaimBlank
  \/ Flush \/ Restart

Spec == Init /\ [][Next]_vars

-----------------------------------------------------------------------------
(* Properties.                                                             *)

Resolves(d, r) == ValueAt(d, r.pos) = r.val

\* A stored row shows the label it was written with: neither a position given out
\* again nor a sweep changes it, unless the row was on its way while a sweep ran and
\* the sweep could not see it, or was written through a stale index.
RowResolves == \A r \in disk.rows : r.mark \/ Resolves(dict[r.label], r)

\* The same of every row that a crash would leave, in the dictionary that would be
\* loaded: a record is on disk before the rows that need it, and goes after them.
RestartResolves ==
  \A d \in {disk, safe} : \A r \in d.rows : r.mark \/ Resolves(Load(d, r.label), r)

\* A comparison with a value reads every position that holds it and none that holds
\* another: lookupPositions against labelValue.
LookupExact ==
  \A l \in Labels : \A v \in Values :
    LET holds == {i \in DOMAIN dict[l].entries : dict[l].entries[i] = v} IN
    /\ holds \subseteq Positions(l, v)
    /\ \A i \in Positions(l, v) : ValueAt(dict[l], i) \in {v, Hole}

=============================================================================
