---------------------------- MODULE EngineProofs ----------------------------
(***************************************************************************)
(* Proofs about Engine, for any clients, sets, keys and batches, and any   *)
(* number of failed writes and crashes.                                    *)
(***************************************************************************)
EXTENDS Engine, TLAPS, WellFoundedInduction

-----------------------------------------------------------------------------
(* The inductive invariant.                                                *)

Meta == [id : -1 .. MaxId, cols : SUBSET Keys, dirty : BOOLEAN]
Rows == [id : 0 .. MaxId, of : Sets, key : Keys]
Space == [meta : [Sets -> Meta], hw : 0 .. MaxId + 1, rows : SUBSET Rows]
Steps == {"idle", "persist", "apply", "drop", "expire", "scan"}
Ops == [at : Steps, set : Sets \cup {""}, was : Meta, keys : SUBSET Keys]

TypeOK ==
  /\ profile \in Profiles
  /\ up \in BOOLEAN
  /\ sets \in [Sets -> Meta]
  /\ nextID \in 0 .. MaxId + 1
  /\ disk \in Space
  /\ safe \in Space
  /\ op \in [Clients -> Ops]
  /\ acked \subseteq Sets \X Keys
  /\ fails \in Nat /\ crashes \in Nat

\* A set without an id is no set.
Whole(f) == \A n \in Sets : f[n].id = -1 => f[n] = Absent

\* A key space from which Open can start: records are whole, no two sets share an
\* id, and every row is owned.
Sound(d) ==
  /\ Whole(d.meta)
  /\ \A n \in Sets : ~d.meta[n].dirty
  /\ \A m, n \in Sets : d.meta[m].id = d.meta[n].id /\ d.meta[m].id # -1 => m = n
  /\ Owned(d)

Spaces ==
  /\ Sound(disk) /\ Sound(safe)
  /\ profile = "paranoid" => safe = disk

\* Set n goes, or went, by id i: in memory, on disk, or with a call in progress.
Used(n, i) ==
  \/ sets[n].id = i
  \/ disk.meta[n].id = i
  \/ \E c \in Clients : op[c].at # "idle" /\ op[c].set = n /\ op[c].was.id = i

\* An id belongs to one set for good, and the next one is new.
IdsOnce ==
  \A n \in Sets, i \in 0 .. MaxId :
    Used(n, i) => i < nextID /\ \A m \in Sets : Used(m, i) => m = n

\* What is on disk of set n is what memory says of it, or an earlier, narrower record.
Fits(sm, n) ==
  /\ disk.meta[n].id \in {-1, sm.id}
  /\ disk.meta[n].cols \subseteq sm.cols
  /\ ~sm.dirty => disk.meta[n] = sm

Recorded ==
  \A n \in Sets :
    /\ sets[n] # Absent => Fits(sets[n], n)
    /\ sets[n] = Absent =>
         \/ disk.meta[n] = Absent
         \/ \E c \in Clients : op[c].at = "drop" /\ op[c].set = n

\* What a call relies on between its steps.
Persisting(o) ==
  /\ sets[o.set].id = o.was.id
  /\ o.keys \subseteq sets[o.set].cols

Applying(o) ==
  /\ disk.meta[o.set].id = o.was.id
  /\ o.keys \subseteq disk.meta[o.set].cols

Expiring(o) == sets[o.set].id = o.was.id

Dropping(c) ==
  /\ sets[op[c].set] = Absent
  /\ Fits(op[c].was, op[c].set)
  /\ \A d \in Clients \ {c} : op[d].at \in {"idle", "scan"}

Scanning(o) ==
  \A k \in o.keys : Row(o.was.id, o.set, k) \in disk.rows

CallsHold ==
  \A c \in Clients : op[c].at # "idle" =>
    /\ up /\ op[c].set \in Sets /\ op[c].was.id # -1
    /\ op[c].at = "persist" => Persisting(op[c])
    /\ op[c].at = "apply" => Applying(op[c])
    /\ op[c].at = "expire" => Expiring(op[c])
    /\ op[c].at = "drop" => Dropping(c)
    /\ op[c].at = "scan" => Scanning(op[c])

\* An acknowledged row is in the key space under the id of its record.
AckedStored == \A a \in acked : Row(disk.meta[a[1]].id, a[1], a[2]) \in disk.rows

IInv ==
  /\ TypeOK
  /\ Whole(sets)
  /\ Spaces
  /\ up => IdsOnce /\ Recorded
  /\ CallsHold
  /\ AckedStored

-----------------------------------------------------------------------------
(* Lemmas.                                                                 *)

(* Max is a CHOOSE: a bounded set of numbers has a largest element, and a *)
(* set of numbers a least one.                                             *)

LEMMA Least ==
  ASSUME NEW T \in SUBSET Nat, T # {}
  PROVE  \E x \in T : \A y \in T : x <= y
<1>1. \E x \in T : \A y \in T : ~ (<<y, x>> \in OpToRel(<, Nat))
  BY NatLessThanWellFounded, WFMin
<1>2. OpToRel(<, Nat) = {ss \in Nat \X Nat : ss[1] < ss[2]} BY SMT DEF OpToRel
<1>3. PICK x \in T : \A y \in T : <<y, x>> \notin {ss \in Nat \X Nat : ss[1] < ss[2]} BY <1>1, <1>2, Zenon
<1>4. \A y \in T : ~(y < x)
  <2> TAKE y \in T
  <2>1. <<y, x>> \in Nat \X Nat OBVIOUS
  <2>2. <<y, x>> \notin {ss \in Nat \X Nat : ss[1] < ss[2]} BY <1>3
  <2>3. ~(<<y, x>>[1] < <<y, x>>[2]) BY <2>1, <2>2, Zenon
  <2> QED BY <2>3
<1>5. x \in Nat /\ \A y \in T : y \in Nat OBVIOUS
<1> QED BY <1>4, <1>5

LEMMA Largest ==
  ASSUME NEW N \in Nat, NEW S \in SUBSET (0 .. N), S # {}
  PROVE  Max(S) \in S /\ \A y \in S : y <= Max(S)
<1> DEFINE T == {i \in 0 .. N : N - i \in S}
<1>1. T # {}
  <2> PICK s \in S : TRUE OBVIOUS
  <2>1. N - s \in 0 .. N /\ N - (N - s) = s OBVIOUS
  <2> QED BY <2>1
<1>2. T \in SUBSET Nat OBVIOUS
<1> HIDE DEF T
<1>3. PICK x \in T : \A y \in T : x <= y BY <1>1, <1>2, Least
<1>4. N - x \in S BY DEF T
<1>5. \A y \in S : y <= N - x 
  <2> TAKE y \in S
  <2>1. N - y \in T BY DEF T
  <2>2. x <= N - y BY <2>1, <1>3
  <2>3. x \in 0 .. N BY DEF T
  <2> QED BY <2>2, <2>3
<1>6. \E m \in S : \A y \in S : m >= y BY <1>4, <1>5
<1> QED BY <1>6 DEF Max

LEMMA AbsentFacts == Absent \in Meta /\ Absent.id = -1 /\ Absent.cols = {} /\ ~Absent.dirty
BY EngineAssumption DEF Absent, Meta

LEMMA LegacyMeta ==
  ASSUME NEW k \in Keys, NEW sm, sm = [Absent EXCEPT !.id = 0, !.cols = {k}]
  PROVE  sm \in Meta /\ sm.id = 0 /\ sm.cols = {k} /\ ~sm.dirty
<1>1. Absent \in Meta /\ ~Absent.dirty BY AbsentFacts
<1>2. {k} \in SUBSET Keys /\ 0 \in -1 .. MaxId BY EngineAssumption
<1> QED BY <1>1, <1>2 DEF Meta

LEMMA IdleFacts == Idle \in Ops /\ Idle.at = "idle"
BY AbsentFacts DEF Idle, Ops, Steps

LEMMA OpFacts ==
  ASSUME NEW o \in Ops
  PROVE  o.was \in Meta /\ o.keys \subseteq Keys /\ (o.was.id # -1 => o.was.id \in 0 .. MaxId)
<1>1. o.was \in Meta /\ o.keys \subseteq Keys BY DEF Ops
<1>2. o.was.id \in -1 .. MaxId BY <1>1 DEF Meta
<1> QED BY <1>1, <1>2, EngineAssumption

\* A write leaves both key spaces sound when what it writes is sound: what a crash
\* would leave is either what it was or all of what was written.
LEMMA Writes ==
  ASSUME TypeOK, Spaces, NEW d \in Space, Sound(d), WriteMeta(d) \/ WriteRows(d),
         profile' = profile
  PROVE  disk' = d /\ disk' \in Space /\ safe' \in Space /\ Spaces'
<1>1. disk' = d /\ (safe' = safe \/ safe' = d) BY DEF WriteMeta, WriteRows
<1>2. safe \in Space BY DEF TypeOK
<1>3. profile = "paranoid" => safe' = d
  <2>1. CASE WriteMeta(d) BY <2>1 DEF WriteMeta
  <2>2. CASE WriteRows(d) BY <2>2 DEF WriteRows
  <2> QED BY <2>1, <2>2
<1>4. Sound(disk') BY <1>1
<1>5. Sound(safe') BY <1>1 DEF Spaces
<1> QED BY <1>1, <1>2, <1>3, <1>4, <1>5 DEF Spaces

\* The rows of a set's id are the rows written to that set.
LEMMA RowsByName ==
  ASSUME NEW d \in Space, Sound(d), NEW n \in Sets, NEW r \in d.rows
  PROVE  /\ r.of = n <=> r.id = d.meta[n].id
         /\ r = Row(d.meta[r.of].id, r.of, r.key)
         /\ r.of \in Sets /\ r.key \in Keys /\ r.id \in 0 .. MaxId
<1>1. r \in Rows BY DEF Space
<1>2. r.of \in Sets /\ r.key \in Keys /\ r.id \in 0 .. MaxId BY <1>1 DEF Rows
<1>3. d.meta[r.of].id = r.id BY DEF Sound, Owned
<1>4. r.id = d.meta[n].id => r.of = n BY <1>2, <1>3 DEF Sound
<1>5. r = Row(r.id, r.of, r.key) BY <1>1 DEF Rows, Row
<1> QED BY <1>2, <1>3, <1>4, <1>5

\* A step that changes none of the variables keeps the invariant.
LEMMA StutterStep ==
  ASSUME IInv, UNCHANGED vars
  PROVE  IInv'
<1>0. UNCHANGED <<profile, up, sets, nextID, disk, safe, op, acked, fails, crashes>> BY DEF vars
<1>1. TypeOK' BY <1>0 DEF IInv, TypeOK
<1>2. Whole(sets)' BY <1>0 DEF IInv, Whole
<1>3. Spaces' BY <1>0 DEF IInv, Spaces, Sound, Whole, Owned
<1>4. \A n, i : Used(n, i)' <=> Used(n, i) BY <1>0 DEF Used
<1>5. IdsOnce => IdsOnce' BY <1>0, <1>4 DEF IdsOnce
<1>6. Recorded => Recorded' BY <1>0 DEF Recorded, Fits
<1>7. CallsHold' BY <1>0 DEF IInv, CallsHold, Persisting, Applying, Expiring, Dropping, Scanning, Fits
<1>8. AckedStored' BY <1>0 DEF IInv, AckedStored
<1> QED BY <1>0, <1>1, <1>2, <1>3, <1>5, <1>6, <1>7, <1>8 DEF IInv

-----------------------------------------------------------------------------
(* PutBatch.                                                               *)

LEMMA CreateStep ==
  ASSUME IInv, NEW c \in Clients, NEW n \in Sets, NEW ks \in Batches,
         Ready(c), ~DropMuHeld, CreateSet(c, n, ks),
         UNCHANGED <<profile, up, acked, crashes>>
  PROVE  IInv'
<1> USE EngineAssumption, AbsentFacts, IdleFacts
<1>1. CASE Fail /\ UNCHANGED <<sets, op>>
  <2>1. nextID' = nextID + 1 /\ nextID < MaxId BY DEF CreateSet
  <2>2. TypeOK' BY <1>1, <2>1 DEF IInv, TypeOK, Fail
  <2>3. Whole(sets)' /\ Spaces' /\ CallsHold' /\ AckedStored' /\ Recorded' = Recorded
    BY <1>1 DEF Fail, IInv, TypeOK, Spaces, Whole, Sound, Owned, Recorded, Fits, CallsHold,
                Persisting, Applying, Expiring, Dropping, Scanning, AckedStored
  <2>4. up => IdsOnce'
    BY <1>1, <2>1 DEF Fail, IInv, TypeOK, IdsOnce, Used
  <2> QED BY <2>2, <2>3, <2>4 DEF IInv
<1>2. CASE /\ sets' = [sets EXCEPT ![n] = [id |-> nextID, cols |-> ks, dirty |-> TRUE]]
           /\ WriteMeta([disk EXCEPT !.hw = nextID'])
           /\ Goto(c, [Idle EXCEPT !.at = "persist", !.set = n, !.was = sets'[n], !.keys = ks])
           /\ Wrote
  <2> DEFINE sm == [id |-> nextID, cols |-> ks, dirty |-> TRUE]
             d == [disk EXCEPT !.hw = nextID']
             o == [Idle EXCEPT !.at = "persist", !.set = n, !.was = sets'[n], !.keys = ks]
  <2>1. nextID' = nextID + 1 /\ nextID \in 0 .. MaxId /\ nextID < MaxId /\ sets[n] = Absent
    BY DEF CreateSet, IInv, TypeOK
  <2>2. sm \in Meta /\ sm.id # -1 /\ sm # Absent /\ sets' = [sets EXCEPT ![n] = sm] /\ sets'[n] = sm
    BY <1>2, <2>1 DEF IInv, TypeOK, Meta, Absent
  <2>3. o \in Ops /\ o.at = "persist" /\ o.set = n /\ o.was = sm /\ o.keys = ks
    BY <2>2 DEF Ops, Steps, Idle
  <2>4. op' = [op EXCEPT ![c] = o] /\ op[c].at = "idle" BY <1>2 DEF Goto, Ready
  <2>5. d \in Space /\ d.meta = disk.meta /\ d.rows = disk.rows /\ Sound(d)
    BY <2>1 DEF IInv, TypeOK, Space, Spaces, Sound, Owned
  <2>6. disk' = d /\ disk' \in Space /\ safe' \in Space /\ Spaces'
    BY <1>2, <2>5, Writes DEF IInv
  <2>7. disk'.meta = disk.meta /\ disk'.rows = disk.rows BY <2>5, <2>6
  <2> HIDE DEF sm, d, o
  <2>8. TypeOK'
    <3>1. sets' \in [Sets -> Meta] BY <2>2 DEF IInv, TypeOK
    <3>2. op' \in [Clients -> Ops] BY <2>3, <2>4 DEF IInv, TypeOK
    <3>3. nextID' \in 0 .. MaxId + 1 BY <2>1
    <3> QED BY <1>2, <2>6, <3>1, <3>2, <3>3 DEF IInv, TypeOK, Wrote
  <2>9. Whole(sets)' BY <2>1, <2>2 DEF IInv, TypeOK, Whole
  <2>10. up /\ disk.meta[n] = Absent
    BY <2>1 DEF IInv, Recorded, DropMuHeld, Ready
  <2>11. \A m \in Sets, i \in 0 .. MaxId : Used(m, i)' => Used(m, i) \/ (m = n /\ i = nextID)
    <3> SUFFICES ASSUME NEW m \in Sets, NEW i \in 0 .. MaxId, Used(m, i)', ~Used(m, i)
                 PROVE  m = n /\ i = nextID
      OBVIOUS
    <3>1. CASE sets'[m].id = i BY <3>1, <2>2 DEF Used, IInv, TypeOK, sm
    <3>2. CASE disk'.meta[m].id = i BY <3>2, <2>7 DEF Used
    <3>3. CASE \E b \in Clients : op'[b].at # "idle" /\ op'[b].set = m /\ op'[b].was.id = i
      BY <3>3, <2>3, <2>4 DEF Used, IInv, TypeOK, sm
    <3> QED BY <3>1, <3>2, <3>3 DEF Used
  <2>12. IdsOnce'
    BY <2>1, <2>10, <2>11 DEF IInv, IdsOnce
  <2>13. Recorded'
    <3> SUFFICES ASSUME NEW m \in Sets
                 PROVE  /\ sets'[m] # Absent => Fits(sets[m], m)'
                        /\ sets'[m] = Absent =>
                             \/ disk'.meta[m] = Absent
                             \/ \E b \in Clients : op'[b].at = "drop" /\ op'[b].set = m
      BY DEF Recorded
    <3>1. CASE m = n
      BY <3>1, <2>2, <2>7, <2>10 DEF Fits, sm
    <3>2. CASE m # n
      <4>1. sets'[m] = sets[m] BY <3>2, <2>2
      <4>2. sets[m] # Absent => Fits(sets[m], m) BY <2>10 DEF IInv, Recorded
      <4>3. Fits(sets[m], m)' <=> Fits(sets[m], m) BY <4>1, <2>7 DEF Fits
      <4>4. sets[m] = Absent => disk.meta[m] = Absent BY <2>10 DEF IInv, Recorded, DropMuHeld
      <4> QED BY <4>1, <4>2, <4>3, <4>4, <2>7
    <3> QED BY <3>1, <3>2
  <2>14. CallsHold'
    <3> SUFFICES ASSUME NEW b \in Clients, op'[b].at # "idle"
                 PROVE  /\ up' /\ op'[b].set \in Sets /\ op'[b].was.id # -1
                        /\ op'[b].at = "persist" => Persisting(op[b])'
                        /\ op'[b].at = "apply" => Applying(op[b])'
                        /\ op'[b].at = "expire" => Expiring(op[b])'
                        /\ op'[b].at = "drop" => Dropping(b)'
                        /\ op'[b].at = "scan" => Scanning(op[b])'
      BY DEF CallsHold
    <3>1. CASE b = c
      BY <3>1, <2>1, <2>2, <2>3, <2>4, <2>10 DEF IInv, TypeOK, Persisting, sm
    <3>2. CASE b # c
      <4>1. op'[b] = op[b] BY <3>2, <2>4 DEF IInv, TypeOK
      <4>2. op[b].at # "drop" BY DEF DropMuHeld
      <4>3. Persisting(op[b]) /\ op[b].set \in Sets /\ op[b].was.id # -1 => Persisting(op[b])'
        BY <4>1, <2>1, <2>2 DEF Persisting, IInv, TypeOK
      <4>4. Applying(op[b]) => Applying(op[b])' BY <4>1, <2>7 DEF Applying
      <4>5. Scanning(op[b]) => Scanning(op[b])' BY <4>1, <2>7 DEF Scanning
      <4>6. Expiring(op[b]) /\ op[b].set \in Sets /\ op[b].was.id # -1 => Expiring(op[b])'
        BY <4>1, <2>1, <2>2 DEF Expiring, IInv, TypeOK
      <4> QED BY <4>1, <4>2, <4>3, <4>4, <4>5, <4>6 DEF IInv, CallsHold
    <3> QED BY <3>1, <3>2
  <2>15. AckedStored' BY <2>7 DEF IInv, AckedStored
  <2> QED BY <2>6, <2>8, <2>9, <2>12, <2>13, <2>14, <2>15 DEF IInv
<1> QED BY <1>1, <1>2 DEF CreateSet

LEMMA WidenStep ==
  ASSUME IInv, NEW c \in Clients, NEW n \in Sets, NEW ks \in Batches,
         Ready(c), ~DropMuHeld, WidenSet(c, n, ks),
         UNCHANGED <<profile, up, acked, crashes>>
  PROVE  IInv'
<1> USE EngineAssumption, AbsentFacts, IdleFacts
<1> DEFINE sm == sets[n]
           wide == [sm EXCEPT !.cols = @ \cup ks, !.dirty = @ \/ ~(ks \subseteq sm.cols)]
           o == [Idle EXCEPT !.at = IF wide.dirty THEN "persist" ELSE "apply",
                             !.set = n, !.was = wide, !.keys = ks]
<1>1. /\ sm # Absent /\ sets' = [sets EXCEPT ![n] = wide] /\ op' = [op EXCEPT ![c] = o]
      /\ UNCHANGED <<nextID, disk, safe, fails>>
  BY DEF WidenSet, Goto
<1>2. sm \in Meta /\ sm.id # -1 /\ up /\ op[c].at = "idle" /\ Fits(sm, n)
  BY <1>1 DEF IInv, TypeOK, Whole, Ready, Recorded
<1>3. /\ wide \in Meta /\ wide.id = sm.id /\ wide.id # -1 /\ wide # Absent
      /\ wide.cols = sm.cols \cup ks
      /\ ~wide.dirty => ~sm.dirty /\ ks \subseteq sm.cols /\ wide = sm
  <2>1. wide \in Meta BY <1>2 DEF Meta
  <2>2. wide.id = sm.id /\ wide.cols = sm.cols \cup ks BY <1>2 DEF Meta
  <2>3. wide.dirty = (sm.dirty \/ ~(ks \subseteq sm.cols)) BY <1>2 DEF Meta
  <2>4. wide.id # -1 /\ wide # Absent BY <1>2, <2>2
  <2>5. ASSUME ~wide.dirty PROVE ~sm.dirty /\ ks \subseteq sm.cols /\ wide = sm
    <3>1. ~sm.dirty /\ ks \subseteq sm.cols BY <2>3, <2>5
    <3>2. wide.cols = sm.cols /\ wide.dirty = sm.dirty /\ sm.dirty \in BOOLEAN /\ wide.dirty \in BOOLEAN
      BY <1>2, <2>1, <2>2, <2>5, <3>1 DEF Meta
    <3> HIDE DEF wide
    <3>3. wide = sm BY <1>2, <2>1, <2>2, <3>2 DEF Meta
    <3> QED BY <3>1, <3>3
  <2> HIDE DEF wide
  <2> QED BY <2>1, <2>2, <2>4, <2>5
<1>4. /\ o \in Ops /\ o.set = n /\ o.was = wide /\ o.keys = ks
      /\ o.at = IF wide.dirty THEN "persist" ELSE "apply"
  BY <1>3 DEF Ops, Steps, Idle
<1>5. sets'[n] = wide /\ op'[c] = o BY <1>1 DEF IInv, TypeOK
<1> HIDE DEF wide, o
<1>6. TypeOK'
  <2>1. sets' \in [Sets -> Meta] BY <1>1, <1>3 DEF IInv, TypeOK
  <2>2. op' \in [Clients -> Ops] BY <1>1, <1>4 DEF IInv, TypeOK
  <2> QED BY <1>1, <2>1, <2>2 DEF IInv, TypeOK
<1>7. Whole(sets)' BY <1>1, <1>3 DEF IInv, TypeOK, Whole
<1>8. Spaces' BY <1>1 DEF IInv, Spaces, Sound, Owned, Whole
<1>9. \A m \in Sets, i \in 0 .. MaxId : Used(m, i)' => Used(m, i)
  <2> SUFFICES ASSUME NEW m \in Sets, NEW i \in 0 .. MaxId, Used(m, i)', ~Used(m, i)
               PROVE  FALSE
    OBVIOUS
  <2>1. CASE sets'[m].id = i BY <2>1, <1>1, <1>3 DEF Used, IInv, TypeOK
  <2>2. CASE disk'.meta[m].id = i BY <2>2, <1>1 DEF Used
  <2>3. CASE \E b \in Clients : op'[b].at # "idle" /\ op'[b].set = m /\ op'[b].was.id = i
    BY <2>3, <1>1, <1>3, <1>4 DEF Used, IInv, TypeOK
  <2> QED BY <2>1, <2>2, <2>3 DEF Used
<1>10. IdsOnce' BY <1>1, <1>2, <1>9 DEF IInv, IdsOnce
<1>11. Recorded'
  <2> SUFFICES ASSUME NEW m \in Sets
               PROVE  /\ sets'[m] # Absent => Fits(sets[m], m)'
                      /\ sets'[m] = Absent =>
                           \/ disk'.meta[m] = Absent
                           \/ \E b \in Clients : op'[b].at = "drop" /\ op'[b].set = m
    BY DEF Recorded
  <2>1. CASE m = n BY <2>1, <1>1, <1>2, <1>3, <1>5 DEF Fits
  <2>2. CASE m # n
    <3>1. sets'[m] = sets[m] BY <2>2, <1>1 DEF IInv, TypeOK
    <3>2. sets[m] # Absent => Fits(sets[m], m) BY <1>2 DEF IInv, Recorded
    <3>3. Fits(sets[m], m)' <=> Fits(sets[m], m) BY <3>1, <1>1 DEF Fits
    <3>4. sets[m] = Absent => disk.meta[m] = Absent BY <1>2 DEF IInv, Recorded, DropMuHeld
    <3> QED BY <3>1, <3>2, <3>3, <3>4, <1>1
  <2> QED BY <2>1, <2>2
<1>12. CallsHold'
  <2> SUFFICES ASSUME NEW b \in Clients, op'[b].at # "idle"
               PROVE  /\ up' /\ op'[b].set \in Sets /\ op'[b].was.id # -1
                      /\ op'[b].at = "persist" => Persisting(op[b])'
                      /\ op'[b].at = "apply" => Applying(op[b])'
                      /\ op'[b].at = "expire" => Expiring(op[b])'
                      /\ op'[b].at = "drop" => Dropping(b)'
                      /\ op'[b].at = "scan" => Scanning(op[b])'
    BY DEF CallsHold
  <2>1. CASE b = c
    <3>1. op'[b] = o BY <2>1, <1>5
    <3>2. Persisting(op[b])' BY <3>1, <1>3, <1>4, <1>5 DEF Persisting
    <3>3. ~wide.dirty => Applying(op[b])' BY <3>1, <1>1, <1>2, <1>3, <1>4 DEF Applying, Fits
    <3> QED BY <3>1, <3>2, <3>3, <1>2, <1>3, <1>4
  <2>2. CASE b # c
    <3>1. op'[b] = op[b] BY <2>2, <1>1 DEF IInv, TypeOK
    <3>2. op[b].at # "drop" BY DEF DropMuHeld
    <3>3. op[b].set \in Sets => sets'[op[b].set].id = sets[op[b].set].id
                                /\ sets[op[b].set].cols \subseteq sets'[op[b].set].cols
      BY <1>1, <1>3 DEF IInv, TypeOK
    <3>4. Persisting(op[b]) /\ op[b].set \in Sets => Persisting(op[b])'
      BY <3>1, <3>3 DEF Persisting
    <3>5. Applying(op[b]) => Applying(op[b])' BY <3>1, <1>1 DEF Applying
    <3>6. Scanning(op[b]) => Scanning(op[b])' BY <3>1, <1>1 DEF Scanning
    <3>7. Expiring(op[b]) /\ op[b].set \in Sets => Expiring(op[b])' BY <3>1, <3>3 DEF Expiring
    <3> QED BY <3>1, <3>2, <3>4, <3>5, <3>6, <3>7 DEF IInv, CallsHold
  <2> QED BY <2>1, <2>2
<1>13. AckedStored' BY <1>1 DEF IInv, AckedStored
<1> QED BY <1>6, <1>7, <1>8, <1>10, <1>11, <1>12, <1>13 DEF IInv

LEMMA LookupStep ==
  ASSUME IInv, NEW c \in Clients, NEW n \in Sets, NEW ks \in Batches, Lookup(c, n, ks)
  PROVE  IInv'
BY CreateStep, WidenStep DEF Lookup

\* A call that gives up at a failed write, having changed nothing.
LEMMA GiveUp ==
  ASSUME IInv, NEW c \in Clients, op[c].at \in {"persist", "apply", "expire"},
         Fail, Return(c), UNCHANGED <<profile, up, sets, nextID, acked, crashes>>
  PROVE  IInv'
<1> USE EngineAssumption, AbsentFacts, IdleFacts
<1>1. UNCHANGED <<profile, up, sets, nextID, acked, crashes, disk, safe>> /\ fails' = fails + 1
  BY DEF Fail
<1>2. op' = [op EXCEPT ![c] = Idle] BY DEF Return, Goto
<1>3. TypeOK'
  <2>1. op' \in [Clients -> Ops] BY <1>2 DEF IInv, TypeOK
  <2> QED BY <1>1, <2>1 DEF IInv, TypeOK
<1>4. Whole(sets)' BY <1>1 DEF IInv, Whole
<1>5. Spaces' BY <1>1 DEF IInv, Spaces, Sound, Owned, Whole
<1>6. \A b \in Clients : op'[b].at # "idle" => b # c /\ op'[b] = op[b] BY <1>2 DEF IInv, TypeOK
<1>7. \A m \in Sets, i \in 0 .. MaxId : Used(m, i)' => Used(m, i) BY <1>1, <1>6 DEF Used
<1>8. up => IdsOnce' BY <1>1, <1>7 DEF IInv, IdsOnce
<1>9. \A b \in Clients : op[b].at = "drop" => op'[b] = op[b] BY <1>2 DEF IInv, TypeOK
<1>10. up => Recorded' BY <1>1, <1>9 DEF IInv, Recorded, Fits
<1>11. CallsHold'
  <2> SUFFICES ASSUME NEW b \in Clients, op'[b].at # "idle"
               PROVE  /\ up' /\ op'[b].set \in Sets /\ op'[b].was.id # -1
                      /\ op'[b].at = "persist" => Persisting(op[b])'
                      /\ op'[b].at = "apply" => Applying(op[b])'
                      /\ op'[b].at = "expire" => Expiring(op[b])'
                      /\ op'[b].at = "drop" => Dropping(b)'
                      /\ op'[b].at = "scan" => Scanning(op[b])'
    BY DEF CallsHold
  <2>1. b # c /\ op'[b] = op[b] BY <1>6
  <2>2. op[b].at = "drop" => ~Dropping(b) BY <2>1 DEF Dropping
  <2> QED BY <1>1, <2>1, <2>2 DEF IInv, CallsHold, Persisting, Applying, Expiring, Scanning
<1>12. AckedStored' BY <1>1 DEF IInv, AckedStored
<1> QED BY <1>1, <1>3, <1>4, <1>5, <1>8, <1>10, <1>11, <1>12 DEF IInv

LEMMA PersistStep ==
  ASSUME IInv, NEW c \in Clients, Persist(c)
  PROVE  IInv'
<1> USE EngineAssumption, AbsentFacts, IdleFacts
<1> DEFINE n == op[c].set
           d == [disk EXCEPT !.meta[n] = Record(sets[n])]
           o == [op[c] EXCEPT !.at = "apply"]
<1>1. CASE Fail /\ Return(c) /\ UNCHANGED sets BY <1>1, GiveUp DEF Persist
<1>2. CASE /\ WriteMeta(d) /\ sets' = [sets EXCEPT ![n].dirty = FALSE] /\ Goto(c, o) /\ Wrote
  <2>1. op[c].at = "persist" /\ UNCHANGED <<profile, up, nextID, acked, crashes, fails>>
    BY <1>2 DEF Persist, Wrote
  <2>2. up /\ n \in Sets /\ op[c].was.id # -1 /\ Persisting(op[c])
    BY <2>1 DEF IInv, CallsHold
  <2>3. sets[n] \in Meta /\ sets[n].id = op[c].was.id /\ sets[n] # Absent /\ op[c].keys \subseteq sets[n].cols
    BY <2>2 DEF IInv, TypeOK, Persisting
  <2>4. Fits(sets[n], n) BY <2>2, <2>3 DEF IInv, Recorded
  <2>5. op[c] \in Ops /\ op' = [op EXCEPT ![c] = o] BY <1>2 DEF IInv, TypeOK, Goto
  <2>6. o \in Ops /\ o.at = "apply" /\ o.set = n /\ o.was = op[c].was /\ o.keys = op[c].keys
    BY <2>5 DEF Ops, Steps
  <2> DEFINE sm == Record(sets[n])
  <2>7. sm \in Meta /\ sm.id = sets[n].id /\ sm.id # -1 /\ sm # Absent /\ sm.cols = sets[n].cols /\ ~sm.dirty
    BY <2>2, <2>3 DEF Record, Meta
  <2>8. sets' = [sets EXCEPT ![n] = sm] BY <1>2, <2>2 DEF Record, IInv, TypeOK
  <2>9. d \in Space /\ d.rows = disk.rows /\ d.meta = [disk.meta EXCEPT ![n] = sm]
    BY <2>7 DEF IInv, TypeOK, Space
  <2> HIDE DEF sm, o, n
  <2>10. disk.meta \in [Sets -> Meta] /\ sets \in [Sets -> Meta] BY DEF IInv, TypeOK, Space
  <2>11. \A m \in Sets : m # n => d.meta[m] = disk.meta[m] BY <2>9, <2>10
  <2>12. d.meta[n] = sm BY <2>2, <2>9, <2>10
  <2>13. \A m \in Sets : disk.meta[m].id \in {-1, d.meta[m].id} /\ disk.meta[m].cols \subseteq d.meta[m].cols
    BY <2>4, <2>7, <2>11, <2>12 DEF Fits
  <2> HIDE DEF d
  <2>14. Sound(disk) BY DEF IInv, Spaces
  <2>15. Sound(d)
    <3>1. Whole(d.meta) /\ \A m \in Sets : ~d.meta[m].dirty
      BY <2>7, <2>11, <2>12, <2>14 DEF Sound, Whole
    <3>2. ASSUME NEW m \in Sets, NEW k \in Sets, d.meta[m].id = d.meta[k].id, d.meta[m].id # -1
          PROVE  m = k
      <4>1. d.meta[m].id \in 0 .. MaxId BY <3>2, <2>9 DEF Space, Meta
      <4>2. Used(m, d.meta[m].id) /\ Used(k, d.meta[k].id)
        BY <2>7, <2>11, <2>12 DEF Used
      <4> QED BY <3>2, <4>1, <4>2, <2>2 DEF IInv, IdsOnce
    <3>3. Owned(d)
      <4> SUFFICES ASSUME NEW r \in disk.rows
                   PROVE  d.meta[r.of].id = r.id /\ r.key \in d.meta[r.of].cols
        BY <2>9 DEF Owned
      <4>1. r \in Rows BY DEF IInv, TypeOK, Space
      <4>2. disk.meta[r.of].id = r.id /\ r.key \in disk.meta[r.of].cols BY <2>14 DEF Sound, Owned
      <4>3. r.of \in Sets /\ r.id # -1 BY <4>1 DEF Rows
      <4> QED BY <4>2, <4>3, <2>13
    <3> QED BY <3>1, <3>2, <3>3 DEF Sound
  <2>16. disk' = d /\ disk' \in Space /\ safe' \in Space /\ Spaces'
    BY <1>2, <2>1, <2>9, <2>15, Writes DEF IInv
  <2>17. TypeOK'
    <3>1. sets' \in [Sets -> Meta] BY <2>7, <2>8, <2>10
    <3>2. op' \in [Clients -> Ops] BY <2>5, <2>6 DEF IInv, TypeOK
    <3> QED BY <2>1, <2>16, <3>1, <3>2 DEF IInv, TypeOK
  <2>18. \A m \in Sets : sets'[m].id = sets[m].id /\ sets'[m].cols = sets[m].cols
    BY <2>7, <2>8, <2>10
  <2>19. Whole(sets)' BY <2>7, <2>8, <2>10 DEF IInv, Whole
  <2>20. \A m \in Sets, i \in 0 .. MaxId : Used(m, i)' => Used(m, i)
    <3> SUFFICES ASSUME NEW m \in Sets, NEW i \in 0 .. MaxId, Used(m, i)', ~Used(m, i)
                 PROVE  FALSE
      OBVIOUS
    <3>1. CASE sets'[m].id = i BY <3>1, <2>18 DEF Used
    <3>2. CASE disk'.meta[m].id = i BY <3>2, <2>7, <2>11, <2>12, <2>16 DEF Used
    <3>3. CASE \E b \in Clients : op'[b].at # "idle" /\ op'[b].set = m /\ op'[b].was.id = i
      BY <3>3, <2>1, <2>5, <2>6 DEF Used, IInv, TypeOK, n
    <3> QED BY <3>1, <3>2, <3>3 DEF Used
  <2>21. IdsOnce' BY <2>1, <2>2, <2>20 DEF IInv, IdsOnce
  <2>22. \A b \in Clients : op[b].at # "drop"
    BY <2>1 DEF IInv, CallsHold, Dropping
  <2>23. Recorded'
    <3> SUFFICES ASSUME NEW m \in Sets
                 PROVE  /\ sets'[m] # Absent => Fits(sets[m], m)'
                        /\ sets'[m] = Absent =>
                             \/ disk'.meta[m] = Absent
                             \/ \E b \in Clients : op'[b].at = "drop" /\ op'[b].set = m
      BY DEF Recorded
    <3>1. CASE m = n BY <3>1, <2>7, <2>8, <2>10, <2>12, <2>16 DEF Fits
    <3>2. CASE m # n
      <4>1. sets'[m] = sets[m] /\ disk'.meta[m] = disk.meta[m]
        BY <3>2, <2>8, <2>10, <2>11, <2>16
      <4>2. sets[m] # Absent => Fits(sets[m], m) BY <2>2 DEF IInv, Recorded
      <4>3. Fits(sets[m], m)' <=> Fits(sets[m], m) BY <4>1 DEF Fits
      <4>4. sets[m] = Absent => disk.meta[m] = Absent BY <2>2, <2>22 DEF IInv, Recorded
      <4> QED BY <4>1, <4>2, <4>3, <4>4
    <3> QED BY <3>1, <3>2
  <2>24. CallsHold'
    <3> SUFFICES ASSUME NEW b \in Clients, op'[b].at # "idle"
                 PROVE  /\ up' /\ op'[b].set \in Sets /\ op'[b].was.id # -1
                        /\ op'[b].at = "persist" => Persisting(op[b])'
                        /\ op'[b].at = "apply" => Applying(op[b])'
                        /\ op'[b].at = "expire" => Expiring(op[b])'
                        /\ op'[b].at = "drop" => Dropping(b)'
                        /\ op'[b].at = "scan" => Scanning(op[b])'
      BY DEF CallsHold
    <3>1. CASE b = c
      <4>1. op'[b] = o BY <3>1, <2>5 DEF IInv, TypeOK
      <4>2. Applying(op[b])' BY <4>1, <2>3, <2>6, <2>7, <2>12, <2>16 DEF Applying
      <4> QED BY <4>1, <4>2, <2>1, <2>2, <2>6 
    <3>2. CASE b # c
      <4>1. op'[b] = op[b] BY <3>2, <2>5 DEF IInv, TypeOK
      <4>2. op[b].set \in Sets /\ op[b].was.id # -1 /\ up BY <4>1 DEF IInv, CallsHold
      <4>3. Persisting(op[b]) => Persisting(op[b])' BY <4>1, <4>2, <2>18 DEF Persisting
      <4>4. Applying(op[b]) => Applying(op[b])' BY <4>1, <4>2, <2>13, <2>16 DEF Applying
      <4>5. Scanning(op[b]) => Scanning(op[b])' BY <4>1, <2>9, <2>16 DEF Scanning
      <4>6. Expiring(op[b]) => Expiring(op[b])' BY <4>1, <4>2, <2>18 DEF Expiring
      <4> QED BY <4>1, <4>2, <4>3, <4>4, <4>5, <4>6, <2>1, <2>22 DEF IInv, CallsHold
    <3> QED BY <3>1, <3>2
  <2>25. AckedStored'
    <3> SUFFICES ASSUME NEW a \in acked
                 PROVE  Row(d.meta[a[1]].id, a[1], a[2]) \in d.rows
      BY <2>1, <2>16 DEF AckedStored
    <3>1. Row(disk.meta[a[1]].id, a[1], a[2]) \in disk.rows /\ a[1] \in Sets
      BY DEF IInv, AckedStored, TypeOK
    <3>2. disk.meta[a[1]].id # -1
      BY <3>1 DEF IInv, TypeOK, Space, Rows, Row
    <3> QED BY <3>1, <3>2, <2>9, <2>13
  <2> QED BY <2>16, <2>17, <2>19, <2>21, <2>23, <2>24, <2>25 DEF IInv
<1> QED BY <1>1, <1>2 DEF Persist

LEMMA ApplyStep ==
  ASSUME IInv, NEW c \in Clients, Apply(c)
  PROVE  IInv'
<1> USE EngineAssumption, AbsentFacts, IdleFacts
<1> DEFINE n == op[c].set
           new == {Row(op[c].was.id, n, k) : k \in op[c].keys}
           d == [disk EXCEPT !.rows = @ \cup new]
<1>1. CASE Fail /\ UNCHANGED acked BY <1>1, GiveUp DEF Apply
<1>2. CASE WriteRows(d) /\ acked' = acked \cup {<<n, k>> : k \in op[c].keys} /\ Wrote
  <2>1. op[c].at = "apply" /\ UNCHANGED <<profile, up, sets, nextID, crashes, fails>>
    BY <1>2 DEF Apply, Wrote
  <2>2. up /\ n \in Sets /\ op[c].was.id # -1 /\ Applying(op[c])
    BY <2>1 DEF IInv, CallsHold
  <2>3. op[c] \in Ops /\ op' = [op EXCEPT ![c] = Idle] BY DEF IInv, TypeOK, Return, Goto, Apply
  <2>4. op[c].keys \subseteq Keys /\ op[c].was.id \in 0 .. MaxId BY <2>2, <2>3, OpFacts
  <2>5. new \subseteq Rows BY <2>2, <2>4 DEF Rows, Row
  <2>6. d \in Space /\ d.rows = disk.rows \cup new /\ d.meta = disk.meta
    BY <2>5 DEF IInv, TypeOK, Space
  <2>7. Sound(d)
    <3>1. ASSUME NEW r \in new
          PROVE  disk.meta[r.of].id = r.id /\ r.key \in disk.meta[r.of].cols
      BY <2>2 DEF Applying, Row
    <3> HIDE DEF new
    <3> QED BY <2>6, <3>1 DEF IInv, Spaces, Sound, Whole, Owned
  <2> HIDE DEF new, d
  <2>8. disk' = d /\ disk' \in Space /\ safe' \in Space /\ Spaces'
    BY <1>2, <2>1, <2>6, <2>7, Writes DEF IInv
  <2>9. TypeOK'
    <3>1. acked' \subseteq Sets \X Keys BY <1>2, <2>2, <2>4 DEF IInv, TypeOK
    <3>2. op' \in [Clients -> Ops] BY <2>3 DEF IInv, TypeOK
    <3> QED BY <2>1, <2>8, <3>1, <3>2 DEF IInv, TypeOK
  <2>10. Whole(sets)' BY <2>1 DEF IInv, Whole
  <2>11. \A b \in Clients : op'[b].at # "idle" => b # c /\ op'[b] = op[b] BY <2>3 DEF IInv, TypeOK
  <2>12. \A m \in Sets, i \in 0 .. MaxId : Used(m, i)' => Used(m, i)
    BY <2>1, <2>6, <2>8, <2>11 DEF Used
  <2>13. IdsOnce' BY <2>1, <2>2, <2>12 DEF IInv, IdsOnce
  <2>14. \A b \in Clients : op[b].at # "drop" BY <2>1 DEF IInv, CallsHold, Dropping
  <2>15. Recorded' BY <2>1, <2>2, <2>6, <2>8, <2>14 DEF IInv, Recorded, Fits
  <2>16. CallsHold'
    <3> SUFFICES ASSUME NEW b \in Clients, op'[b].at # "idle"
                 PROVE  /\ up' /\ op'[b].set \in Sets /\ op'[b].was.id # -1
                        /\ op'[b].at = "persist" => Persisting(op[b])'
                        /\ op'[b].at = "apply" => Applying(op[b])'
                        /\ op'[b].at = "expire" => Expiring(op[b])'
                        /\ op'[b].at = "drop" => Dropping(b)'
                        /\ op'[b].at = "scan" => Scanning(op[b])'
      BY DEF CallsHold
    <3>1. op'[b] = op[b] /\ b # c BY <2>11
    <3>2. Persisting(op[b]) => Persisting(op[b])' BY <3>1, <2>1 DEF Persisting
    <3>3. Applying(op[b]) => Applying(op[b])' BY <3>1, <2>6, <2>8 DEF Applying
    <3>4. Scanning(op[b]) => Scanning(op[b])' BY <3>1, <2>6, <2>8 DEF Scanning
    <3>5. Expiring(op[b]) => Expiring(op[b])' BY <3>1, <2>1 DEF Expiring
    <3> QED BY <3>1, <3>2, <3>3, <3>4, <3>5, <2>1, <2>14 DEF IInv, CallsHold
  <2>17. AckedStored'
    <3> SUFFICES ASSUME NEW a \in acked'
                 PROVE  Row(disk.meta[a[1]].id, a[1], a[2]) \in d.rows
      BY <2>6, <2>8 DEF AckedStored
    <3>1. CASE a \in acked BY <3>1, <2>6 DEF IInv, AckedStored
    <3>2. CASE a \in {<<n, k>> : k \in op[c].keys}
      <4> PICK k \in op[c].keys : a = <<n, k>> BY <3>2
      <4>1. Row(disk.meta[a[1]].id, a[1], a[2]) = Row(op[c].was.id, n, k) BY <2>2 DEF Applying
      <4> QED BY <4>1, <2>6 DEF new
    <3> QED BY <3>1, <3>2, <1>2
  <2> QED BY <2>8, <2>9, <2>10, <2>13, <2>15, <2>16, <2>17 DEF IInv
<1> QED BY <1>1, <1>2 DEF Apply

-----------------------------------------------------------------------------
(* DropSet and DeleteOlderThan.                                            *)

LEMMA DropSetStep ==
  ASSUME IInv, NEW c \in Clients, NEW n \in Sets, DropSet(c, n)
  PROVE  IInv'
<1> USE EngineAssumption, AbsentFacts, IdleFacts
<1> DEFINE o == [Idle EXCEPT !.at = "drop", !.set = n, !.was = sets[n]]
<1>1. /\ up /\ op[c] = Idle /\ sets[n] # Absent
      /\ sets' = [sets EXCEPT ![n] = Absent] /\ op' = [op EXCEPT ![c] = o]
      /\ UNCHANGED <<profile, up, nextID, disk, safe, acked, fails, crashes>>
  BY DEF DropSet, Ready, Goto
<1>2. sets \in [Sets -> Meta] /\ sets[n].id # -1 /\ op \in [Clients -> Ops] BY <1>1 DEF IInv, TypeOK, Whole
<1>3. o \in Ops /\ o.at = "drop" /\ o.set = n /\ o.was = sets[n] BY <1>2 DEF Ops, Steps, Idle
<1>4. \A b \in Clients : op[b].at \in {"idle", "scan"}
  BY <1>2 DEF DropSet, DropMuHeld, DropMuShared, Ops, Steps
<1> HIDE DEF o
<1>5. TypeOK' BY <1>1, <1>2, <1>3 DEF IInv, TypeOK
<1>6. Whole(sets)' BY <1>1, <1>2 DEF IInv, Whole
<1>7. Spaces' BY <1>1 DEF IInv, Spaces, Sound, Owned, Whole
<1>8. \A m \in Sets, i \in 0 .. MaxId : Used(m, i)' => Used(m, i)
  <2> SUFFICES ASSUME NEW m \in Sets, NEW i \in 0 .. MaxId, Used(m, i)', ~Used(m, i)
               PROVE  FALSE
    OBVIOUS
  <2>1. CASE sets'[m].id = i BY <2>1, <1>1, <1>2 DEF Used
  <2>2. CASE disk'.meta[m].id = i BY <2>2, <1>1 DEF Used
  <2>3. CASE \E b \in Clients : op'[b].at # "idle" /\ op'[b].set = m /\ op'[b].was.id = i
    BY <2>3, <1>1, <1>2, <1>3 DEF Used
  <2> QED BY <2>1, <2>2, <2>3 DEF Used
<1>9. IdsOnce' BY <1>1, <1>8 DEF IInv, IdsOnce
<1>10. Recorded'
  <2> SUFFICES ASSUME NEW m \in Sets
               PROVE  /\ sets'[m] # Absent => Fits(sets[m], m)'
                      /\ sets'[m] = Absent =>
                           \/ disk'.meta[m] = Absent
                           \/ \E b \in Clients : op'[b].at = "drop" /\ op'[b].set = m
    BY DEF Recorded
  <2>1. CASE m = n BY <2>1, <1>1, <1>2, <1>3
  <2>2. CASE m # n
    <3>1. sets'[m] = sets[m] BY <2>2, <1>1, <1>2
    <3>2. sets[m] # Absent => Fits(sets[m], m) BY <1>1 DEF IInv, Recorded
    <3>3. Fits(sets[m], m)' <=> Fits(sets[m], m) BY <3>1, <1>1 DEF Fits
    <3>4. sets[m] = Absent => disk.meta[m] = Absent BY <1>1, <1>4 DEF IInv, Recorded
    <3> QED BY <3>1, <3>2, <3>3, <3>4, <1>1
  <2> QED BY <2>1, <2>2
<1>11. CallsHold'
  <2> SUFFICES ASSUME NEW b \in Clients, op'[b].at # "idle"
               PROVE  /\ up' /\ op'[b].set \in Sets /\ op'[b].was.id # -1
                      /\ op'[b].at = "persist" => Persisting(op[b])'
                      /\ op'[b].at = "apply" => Applying(op[b])'
                      /\ op'[b].at = "expire" => Expiring(op[b])'
                      /\ op'[b].at = "drop" => Dropping(b)'
                      /\ op'[b].at = "scan" => Scanning(op[b])'
    BY DEF CallsHold
  <2>1. CASE b = c
    <3>1. op'[b] = o /\ sets'[n] = Absent BY <2>1, <1>1, <1>2
    <3>2. Fits(sets[n], n) BY <1>1 DEF IInv, Recorded
    <3>3. Fits(op[b].was, op[b].set)' BY <3>1, <3>2, <1>1, <1>3 DEF Fits
    <3>4. \A e \in Clients \ {b} : op'[e].at \in {"idle", "scan"} BY <2>1, <1>1, <1>2, <1>4
    <3>5. Dropping(b)' BY <3>1, <3>3, <3>4, <1>3 DEF Dropping
    <3> QED BY <3>1, <3>5, <1>1, <1>2, <1>3
  <2>2. CASE b # c
    <3>1. op'[b] = op[b] /\ op[b].at = "scan" BY <2>2, <1>1, <1>2, <1>4
    <3> QED BY <3>1, <1>1 DEF IInv, CallsHold, Scanning
  <2> QED BY <2>1, <2>2
<1>12. AckedStored' BY <1>1 DEF IInv, AckedStored
<1> QED BY <1>5, <1>6, <1>7, <1>9, <1>10, <1>11, <1>12 DEF IInv

\* What Forget leaves of the other calls.
LEMMA Forgotten ==
  ASSUME IInv, NEW c \in Clients, NEW gone, Forget(c, gone)
  PROVE  /\ op' \in [Clients -> Ops] /\ op'[c] = Idle
         /\ \A b \in Clients \ {c} :
              /\ op'[b].at = op[b].at /\ op'[b].set = op[b].set /\ op'[b].was = op[b].was
              /\ op[b].at # "scan" => op'[b] = op[b]
              /\ op[b].at = "scan" =>
                   \A k \in op'[b].keys : k \in op[b].keys /\ <<op[b].set, k>> \notin gone
<1> USE IdleFacts
<1> DEFINE new(b) == IF b = c THEN Idle
                     ELSE IF op[b].at = "scan"
                     THEN [op[b] EXCEPT !.keys = {k \in @ : <<op[b].set, k>> \notin gone}]
                     ELSE op[b]
<1>1. op' = [b \in Clients |-> new(b)] BY DEF Forget
<1>2. ASSUME NEW b \in Clients, b # c
      PROVE  /\ new(b) \in Ops
             /\ new(b).at = op[b].at /\ new(b).set = op[b].set /\ new(b).was = op[b].was
             /\ op[b].at # "scan" => new(b) = op[b]
             /\ op[b].at = "scan" =>
                  \A k \in new(b).keys : k \in op[b].keys /\ <<op[b].set, k>> \notin gone
  <2>1. op[b] \in Ops BY DEF IInv, TypeOK
  <2>2. CASE op[b].at = "scan"
    <3>1. new(b) = [op[b] EXCEPT !.keys = {k \in @ : <<op[b].set, k>> \notin gone}] BY <1>2, <2>2
    <3>2. {k \in op[b].keys : <<op[b].set, k>> \notin gone} \in SUBSET Keys BY <2>1 DEF Ops
    <3> QED BY <2>1, <2>2, <3>1, <3>2 DEF Ops
  <2>3. CASE op[b].at # "scan" BY <1>2, <2>1, <2>3
  <2> QED BY <2>2, <2>3
<1>3. new(c) = Idle OBVIOUS
<1> HIDE DEF new
<1> QED BY <1>1, <1>2, <1>3

\* The rows under the id of a set being dropped are all of that set's, and no other's.
LEMMA DroppedRows ==
  ASSUME IInv, NEW c \in Clients, op[c].at = "drop"
  PROVE  \A r \in disk.rows : r.id = op[c].was.id <=> r.of = op[c].set
<1> DEFINE n == op[c].set
           id == op[c].was.id
<1> SUFFICES ASSUME NEW r \in disk.rows PROVE r.id = id <=> r.of = n
  OBVIOUS
<1>1. up /\ n \in Sets /\ id # -1 /\ Fits(op[c].was, n) BY DEF IInv, CallsHold, Dropping
<1>2. r \in Rows BY DEF IInv, TypeOK, Space
<1>3. r.of \in Sets /\ r.id \in 0 .. MaxId BY <1>2 DEF Rows
<1>4. disk.meta[r.of].id = r.id BY DEF IInv, Spaces, Sound, Owned
<1>5. Used(r.of, r.id) /\ Used(n, id) BY <1>4 DEF Used
<1>6. r.id = id => r.of = n BY <1>1, <1>3, <1>5 DEF IInv, IdsOnce
<1>7. r.of = n => r.id = id BY <1>1, <1>3, <1>4, EngineAssumption DEF Fits
<1> QED BY <1>6, <1>7

LEMMA DropApplyStep ==
  ASSUME IInv, NEW c \in Clients, DropApply(c)
  PROVE  IInv'
<1> USE EngineAssumption, AbsentFacts, IdleFacts
<1> DEFINE n == op[c].set
           id == op[c].was.id
           gone == {n} \X Keys
           d == [disk EXCEPT !.rows = @ \ RowsOf(disk, id), !.meta[n] = Absent]
<1>1. op[c].at = "drop" /\ UNCHANGED <<profile, up, nextID, crashes>> BY DEF DropApply
<1>2. up /\ n \in Sets /\ id # -1 /\ Dropping(c) BY <1>1 DEF IInv, CallsHold
<1>3. op \in [Clients -> Ops] /\ sets \in [Sets -> Meta] /\ disk.meta \in [Sets -> Meta]
  BY DEF IInv, TypeOK, Space
<1>4. op[c].was \in Meta /\ id \in 0 .. MaxId BY <1>2, <1>3, OpFacts
<1>5. \A b \in Clients \ {c} : op[b].at \in {"idle", "scan"} BY <1>2 DEF Dropping
<1>6. sets[n] = Absent /\ Fits(op[c].was, n) BY <1>2 DEF Dropping
<1>7. \A m \in Sets : m # n /\ sets[m] = Absent => disk.meta[m] = Absent
  BY <1>2, <1>5 DEF IInv, Recorded
<1>8. CASE Fail /\ sets' = [sets EXCEPT ![n] = op[c].was] /\ Return(c) /\ UNCHANGED acked
  <2>1. op' = [op EXCEPT ![c] = Idle] /\ UNCHANGED <<disk, safe, acked>> /\ fails' = fails + 1
    BY <1>8 DEF Return, Goto, Fail
  <2>2. sets' \in [Sets -> Meta] /\ sets'[n] = op[c].was /\ \A m \in Sets : m # n => sets'[m] = sets[m]
    BY <1>2, <1>3, <1>4, <1>8
  <2>3. op' \in [Clients -> Ops] /\ \A b \in Clients : op'[b].at # "idle" => b # c /\ op'[b] = op[b]
    BY <1>3, <2>1
  <2>4. TypeOK' BY <1>1, <2>1, <2>2, <2>3 DEF IInv, TypeOK
  <2>5. Whole(sets)' BY <1>2, <2>2 DEF IInv, Whole
  <2>6. Spaces' BY <1>1, <2>1 DEF IInv, Spaces, Sound, Owned, Whole
  <2>7. \A m \in Sets, i \in 0 .. MaxId : Used(m, i)' => Used(m, i)
    <3> SUFFICES ASSUME NEW m \in Sets, NEW i \in 0 .. MaxId, Used(m, i)', ~Used(m, i)
                 PROVE  FALSE
      OBVIOUS
    <3>1. CASE sets'[m].id = i BY <3>1, <1>1, <2>2 DEF Used
    <3>2. CASE disk'.meta[m].id = i BY <3>2, <2>1 DEF Used
    <3>3. CASE \E b \in Clients : op'[b].at # "idle" /\ op'[b].set = m /\ op'[b].was.id = i
      BY <3>3, <2>3 DEF Used
    <3> QED BY <3>1, <3>2, <3>3 DEF Used
  <2>8. IdsOnce' BY <1>1, <1>2, <2>7 DEF IInv, IdsOnce
  <2>9. Recorded'
    <3> SUFFICES ASSUME NEW m \in Sets
                 PROVE  /\ sets'[m] # Absent => Fits(sets[m], m)'
                        /\ sets'[m] = Absent => disk'.meta[m] = Absent
      BY DEF Recorded
    <3>1. CASE m = n BY <3>1, <1>2, <1>6, <2>1, <2>2 DEF Fits
    <3>2. CASE m # n
      <4>1. sets'[m] = sets[m] BY <3>2, <2>2
      <4>2. sets[m] # Absent => Fits(sets[m], m) BY <1>2 DEF IInv, Recorded
      <4>3. Fits(sets[m], m)' <=> Fits(sets[m], m) BY <4>1, <2>1 DEF Fits
      <4> QED BY <3>2, <4>1, <4>2, <4>3, <1>7, <2>1
    <3> QED BY <3>1, <3>2
  <2>10. CallsHold'
    <3> SUFFICES ASSUME NEW b \in Clients, op'[b].at # "idle"
                 PROVE  /\ up' /\ op'[b].set \in Sets /\ op'[b].was.id # -1
                        /\ op'[b].at = "scan" /\ Scanning(op[b])'
      BY DEF CallsHold
    <3>1. op'[b] = op[b] /\ op[b].at = "scan" BY <1>5, <2>3
    <3> QED BY <3>1, <1>1, <2>1 DEF IInv, CallsHold, Scanning
  <2>11. AckedStored' BY <2>1 DEF IInv, AckedStored
  <2> QED BY <2>4, <2>5, <2>6, <2>8, <2>9, <2>10, <2>11 DEF IInv
<1>9. CASE WriteMeta(d) /\ acked' = acked \ gone /\ Forget(c, gone) /\ Wrote /\ UNCHANGED sets
  <2>1. \A r \in disk.rows : r \in Rows /\ r.of \in Sets /\ r.id \in 0 .. MaxId
    BY DEF IInv, TypeOK, Space, Rows
  <2>2. Sound(disk) BY DEF IInv, Spaces
  <2>3. \A r \in disk.rows : r.id = id <=> r.of = n BY <1>1, DroppedRows
  <2>4. d.rows = disk.rows \ RowsOf(disk, id) /\ d.meta = [disk.meta EXCEPT ![n] = Absent] /\ d \in Space
    BY <1>3 DEF IInv, TypeOK, Space
  <2>5. d.rows = {r \in disk.rows : r.of # n} BY <2>3, <2>4 DEF RowsOf
  <2>6. d.meta[n] = Absent /\ \A m \in Sets : m # n => d.meta[m] = disk.meta[m] BY <1>2, <1>3, <2>4
  <2> HIDE DEF d
  <2>7. Sound(d)
    <3>1. Whole(d.meta) /\ \A m \in Sets : ~d.meta[m].dirty BY <2>2, <2>6 DEF Sound, Whole
    <3>2. \A m, k \in Sets : d.meta[m].id = d.meta[k].id /\ d.meta[m].id # -1 => m = k
      BY <2>2, <2>6 DEF Sound
    <3>3. Owned(d) BY <2>1, <2>2, <2>5, <2>6 DEF Sound, Owned
    <3> QED BY <3>1, <3>2, <3>3 DEF Sound
  <2>8. disk' = d /\ disk' \in Space /\ safe' \in Space /\ Spaces'
    BY <1>1, <1>9, <2>4, <2>7, Writes DEF IInv
  <2>9. /\ op' \in [Clients -> Ops] /\ op'[c] = Idle
        /\ \A b \in Clients \ {c} :
             /\ op'[b].at = op[b].at /\ op'[b].set = op[b].set /\ op'[b].was = op[b].was
             /\ op[b].at = "scan" =>
                  \A k \in op'[b].keys : k \in op[b].keys /\ <<op[b].set, k>> \notin gone
    BY <1>9, Forgotten
  <2>10. TypeOK' BY <1>1, <1>9, <2>8, <2>9 DEF IInv, TypeOK, Wrote
  <2>11. Whole(sets)' BY <1>9 DEF IInv, Whole
  <2>12. \A m \in Sets, i \in 0 .. MaxId : Used(m, i)' => Used(m, i)
    <3> SUFFICES ASSUME NEW m \in Sets, NEW i \in 0 .. MaxId, Used(m, i)', ~Used(m, i)
                 PROVE  FALSE
      OBVIOUS
    <3>1. CASE sets'[m].id = i BY <3>1, <1>9 DEF Used
    <3>2. CASE disk'.meta[m].id = i BY <3>2, <2>6, <2>8 DEF Used
    <3>3. CASE \E b \in Clients : op'[b].at # "idle" /\ op'[b].set = m /\ op'[b].was.id = i
      BY <3>3, <2>9 DEF Used
    <3> QED BY <3>1, <3>2, <3>3 DEF Used
  <2>13. IdsOnce' BY <1>1, <1>2, <2>12 DEF IInv, IdsOnce
  <2>14. Recorded'
    <3> SUFFICES ASSUME NEW m \in Sets
                 PROVE  /\ sets'[m] # Absent => Fits(sets[m], m)'
                        /\ sets'[m] = Absent => disk'.meta[m] = Absent
      BY DEF Recorded
    <3>1. CASE m = n BY <3>1, <1>6, <1>9, <2>6, <2>8
    <3>2. CASE m # n
      <4>1. sets'[m] = sets[m] /\ disk'.meta[m] = disk.meta[m] BY <3>2, <1>9, <2>6, <2>8
      <4>2. sets[m] # Absent => Fits(sets[m], m) BY <1>2 DEF IInv, Recorded
      <4>3. Fits(sets[m], m)' <=> Fits(sets[m], m) BY <4>1 DEF Fits
      <4> QED BY <3>2, <4>1, <4>2, <4>3, <1>7
    <3> QED BY <3>1, <3>2
  <2>15. CallsHold'
    <3> SUFFICES ASSUME NEW b \in Clients, op'[b].at # "idle"
                 PROVE  /\ up' /\ op'[b].set \in Sets /\ op'[b].was.id # -1
                        /\ op'[b].at = "scan" /\ Scanning(op[b])'
      BY DEF CallsHold
    <3>1. b # c /\ op'[b].at = op[b].at /\ op'[b].set = op[b].set /\ op'[b].was = op[b].was /\ op[b].at = "scan"
      BY <1>5, <2>9
    <3>2. op[b].set \in Sets /\ op[b].was.id # -1 /\ Scanning(op[b]) BY <3>1 DEF IInv, CallsHold
    <3>3. ASSUME NEW k \in op'[b].keys
          PROVE  Row(op[b].was.id, op[b].set, k) \in d.rows
      <4>1. k \in op[b].keys /\ k \in Keys /\ <<op[b].set, k>> \notin gone
        BY <3>1, <2>9, <1>3, OpFacts
      <4>2. op[b].set # n BY <4>1
      <4>3. Row(op[b].was.id, op[b].set, k) \in disk.rows BY <3>2, <4>1 DEF Scanning
      <4> QED BY <4>2, <4>3, <2>5 DEF Row
    <3>4. Scanning(op[b])' BY <3>1, <3>3, <2>8 DEF Scanning
    <3> QED BY <3>1, <3>2, <3>4, <1>1, <1>2
  <2>16. AckedStored'
    <3> SUFFICES ASSUME NEW a \in acked \ gone
                 PROVE  Row(d.meta[a[1]].id, a[1], a[2]) \in d.rows
      BY <1>9, <2>8 DEF AckedStored
    <3>1. a \in Sets \X Keys BY DEF IInv, TypeOK
    <3>2. a[1] \in Sets /\ a[1] # n BY <3>1
    <3>3. Row(disk.meta[a[1]].id, a[1], a[2]) \in disk.rows BY DEF IInv, AckedStored
    <3> QED BY <3>2, <3>3, <2>5, <2>6 DEF Row
  <2> QED BY <2>8, <2>10, <2>11, <2>13, <2>14, <2>15, <2>16 DEF IInv
<1> QED BY <1>8, <1>9 DEF DropApply

\* A call that has so far only read what it will work on.
LEMMA StartStep ==
  ASSUME IInv, NEW c \in Clients, NEW n \in Sets, NEW o \in Ops,
         up, op[c].at = "idle", sets[n] # Absent, op' = [op EXCEPT ![c] = o],
         o.set = n, o.was = sets[n],
         \/ o.at = "expire" /\ ~DropMuHeld
         \/ o.at = "scan" /\ Scanning(o),
         UNCHANGED <<profile, up, sets, nextID, disk, safe, acked, fails, crashes>>
  PROVE  IInv'
<1> USE EngineAssumption, AbsentFacts
<1>1. op \in [Clients -> Ops] /\ sets \in [Sets -> Meta] /\ sets[n].id # -1 BY DEF IInv, TypeOK, Whole
<1>2. op' \in [Clients -> Ops] /\ op'[c] = o /\ \A b \in Clients : b # c => op'[b] = op[b] BY <1>1
<1>3. TypeOK' BY <1>2 DEF IInv, TypeOK
<1>4. Whole(sets)' BY DEF IInv, Whole
<1>5. Spaces' BY DEF IInv, Spaces, Sound, Owned, Whole
<1>6. \A m \in Sets, i \in 0 .. MaxId : Used(m, i)' => Used(m, i) BY <1>2 DEF Used
<1>7. IdsOnce' BY <1>6 DEF IInv, IdsOnce
<1>8. \A b \in Clients : op[b].at = "drop" => op'[b] = op[b] BY <1>2
<1>9. Recorded' BY <1>8 DEF IInv, Recorded, Fits
<1>10. CallsHold'
  <2> SUFFICES ASSUME NEW b \in Clients, op'[b].at # "idle"
               PROVE  /\ up' /\ op'[b].set \in Sets /\ op'[b].was.id # -1
                      /\ op'[b].at = "persist" => Persisting(op[b])'
                      /\ op'[b].at = "apply" => Applying(op[b])'
                      /\ op'[b].at = "expire" => Expiring(op[b])'
                      /\ op'[b].at = "drop" => Dropping(b)'
                      /\ op'[b].at = "scan" => Scanning(op[b])'
    BY DEF CallsHold
  <2>1. CASE b = c
    <3>1. op'[b] = o BY <2>1, <1>2
    <3>2. Scanning(o) => Scanning(op[b])' BY <3>1 DEF Scanning
    <3>3. Expiring(op[b])' BY <3>1 DEF Expiring
    <3> QED BY <3>1, <3>2, <3>3, <1>1
  <2>2. CASE b # c
    <3>1. op'[b] = op[b] BY <2>2, <1>2
    <3>2. Persisting(op[b]) => Persisting(op[b])' BY <3>1 DEF Persisting
    <3>3. Applying(op[b]) => Applying(op[b])' BY <3>1 DEF Applying
    <3>4. Scanning(op[b]) => Scanning(op[b])' BY <3>1 DEF Scanning
    <3>5. ASSUME op[b].at = "drop", Dropping(b) PROVE Dropping(b)'
      <4>1. o.at = "scan" BY <3>5 DEF DropMuHeld
      <4>2. \A e \in Clients \ {b} : op'[e].at \in {"idle", "scan"} BY <4>1, <1>2, <3>5 DEF Dropping
      <4>3. Fits(op[b].was, op[b].set)' BY <3>1, <3>5 DEF Dropping, Fits
      <4> QED BY <3>1, <3>5, <4>2, <4>3 DEF Dropping
    <3>6. Expiring(op[b]) => Expiring(op[b])' BY <3>1 DEF Expiring
    <3> QED BY <3>1, <3>2, <3>3, <3>4, <3>5, <3>6 DEF IInv, CallsHold
  <2> QED BY <2>1, <2>2
<1>11. AckedStored' BY DEF IInv, AckedStored
<1> QED BY <1>3, <1>4, <1>5, <1>7, <1>9, <1>10, <1>11 DEF IInv

LEMMA ExpireStep ==
  ASSUME IInv, NEW c \in Clients, NEW n \in Sets, Expire(c, n)
  PROVE  IInv'
<1> DEFINE dead == {r.key : r \in RowsOf(disk, sets[n].id)} \cap Old
           o == [Idle EXCEPT !.at = "expire", !.set = n, !.was = sets[n], !.keys = dead]
<1>1. dead \subseteq Keys BY EngineAssumption
<1>2. sets[n] \in Meta BY DEF IInv, TypeOK
<1> HIDE DEF dead
<1>3. o \in Ops /\ o.at = "expire" /\ o.set = n /\ o.was = sets[n]
  BY <1>1, <1>2, IdleFacts DEF Ops, Steps, Idle
<1>4. op' = [op EXCEPT ![c] = o] BY DEF Expire, Goto, dead
<1> HIDE DEF o
<1> QED BY <1>3, <1>4, StartStep, IdleFacts DEF Expire, Ready

LEMMA ScanStep ==
  ASSUME IInv, NEW c \in Clients, NEW n \in Sets, Scan(c, n)
  PROVE  IInv'
<1> DEFINE owed == {k \in Keys : <<n, k>> \in acked}
           o == [Idle EXCEPT !.at = "scan", !.set = n, !.was = sets[n], !.keys = owed]
<1>1. owed \in SUBSET Keys OBVIOUS
<1>2. sets[n] \in Meta BY DEF IInv, TypeOK
<1> HIDE DEF owed
<1>3. o \in Ops /\ o.at = "scan" /\ o.set = n /\ o.was = sets[n] /\ o.keys = owed
  BY <1>1, <1>2, IdleFacts DEF Ops, Steps, Idle
<1>4. op' = [op EXCEPT ![c] = o] BY DEF Scan, Goto, owed
<1>5. sets[n] # Absent /\ up BY DEF Scan, Ready
<1>6. Fits(sets[n], n) BY <1>5 DEF IInv, Recorded
<1> HIDE DEF o
<1>7. Scanning(o)
  <2> SUFFICES ASSUME NEW k \in owed PROVE Row(sets[n].id, n, k) \in disk.rows
    BY <1>3 DEF Scanning
  <2>1. <<n, k>> \in acked BY DEF owed
  <2>2. Row(disk.meta[n].id, n, k) \in disk.rows BY <2>1 DEF IInv, AckedStored
  <2>3. disk.meta[n].id # -1 BY <2>2 DEF IInv, TypeOK, Space, Rows, Row
  <2> QED BY <2>2, <2>3, <1>6 DEF Fits
<1> QED BY <1>3, <1>4, <1>5, <1>7, StartStep, IdleFacts DEF Scan, Ready

\* A call that ends and leaves nothing behind.
LEMMA ReadStep ==
  ASSUME IInv, NEW c \in Clients, Read(c)
  PROVE  IInv'
<1> USE EngineAssumption, AbsentFacts, IdleFacts
<1>1. op' = [op EXCEPT ![c] = Idle] /\ op[c].at = "scan"
      /\ UNCHANGED <<profile, up, sets, nextID, disk, safe, acked, fails, crashes>>
  BY DEF Read, Return, Goto
<1>2. op' \in [Clients -> Ops] /\ \A b \in Clients : b # c => op'[b] = op[b] BY <1>1 DEF IInv, TypeOK
<1>3. op'[c].at = "idle" /\ \A b \in Clients : op'[b].at # "idle" => b # c BY <1>1 DEF IInv, TypeOK
<1>4. TypeOK' BY <1>1, <1>2 DEF IInv, TypeOK
<1>5. Whole(sets)' BY <1>1 DEF IInv, Whole
<1>6. Spaces' BY <1>1 DEF IInv, Spaces, Sound, Owned, Whole
<1>7. \A m \in Sets, i \in 0 .. MaxId : Used(m, i)' => Used(m, i) BY <1>1, <1>2, <1>3 DEF Used
<1>8. up => IdsOnce' BY <1>1, <1>7 DEF IInv, IdsOnce
<1>9. \A b \in Clients : op[b].at = "drop" => op'[b] = op[b] BY <1>1, <1>2
<1>10. up => Recorded' BY <1>1, <1>9 DEF IInv, Recorded, Fits
<1>11. CallsHold'
  <2> SUFFICES ASSUME NEW b \in Clients, op'[b].at # "idle"
               PROVE  /\ up' /\ op'[b].set \in Sets /\ op'[b].was.id # -1
                      /\ op'[b].at = "persist" => Persisting(op[b])'
                      /\ op'[b].at = "apply" => Applying(op[b])'
                      /\ op'[b].at = "expire" => Expiring(op[b])'
                      /\ op'[b].at = "drop" => Dropping(b)'
                      /\ op'[b].at = "scan" => Scanning(op[b])'
    BY DEF CallsHold
  <2>1. op'[b] = op[b] BY <1>2, <1>3
  <2>2. Dropping(b) => Dropping(b)'
    <3>1. \A e \in Clients : op'[e].at = op[e].at \/ op'[e].at = "idle" BY <1>2, <1>3
    <3> QED BY <2>1, <3>1, <1>1 DEF Dropping, Fits
  <2> QED BY <1>1, <2>1, <2>2 DEF IInv, CallsHold, Persisting, Applying, Expiring, Scanning
<1>12. AckedStored' BY <1>1 DEF IInv, AckedStored
<1> QED BY <1>1, <1>4, <1>5, <1>6, <1>8, <1>10, <1>11, <1>12 DEF IInv

LEMMA ExpireApplyStep ==
  ASSUME IInv, NEW c \in Clients, ExpireApply(c)
  PROVE  IInv'
<1> USE EngineAssumption, AbsentFacts, IdleFacts
<1> DEFINE n == op[c].set
           ks == op[c].keys
           gone == {n} \X ks
           dead == {Row(op[c].was.id, n, k) : k \in ks}
           d == [disk EXCEPT !.rows = @ \ dead]
<1>1. CASE Fail /\ Return(c) /\ UNCHANGED acked BY <1>1, GiveUp DEF ExpireApply
<1>2. CASE WriteRows(d) /\ acked' = acked \ gone /\ Forget(c, gone) /\ Wrote
  <2>1. op[c].at = "expire" /\ UNCHANGED <<profile, up, sets, nextID, crashes, fails>>
    BY <1>2 DEF ExpireApply, Wrote
  <2>2. d \in Space /\ d.rows = disk.rows \ dead /\ d.meta = disk.meta
    BY DEF IInv, TypeOK, Space
  <2>3. \A i, m, k : Row(i, m, k) \in dead => <<m, k>> \in gone BY DEF Row
  <2> HIDE DEF d, dead
  <2>4. Sound(d) BY <2>2 DEF IInv, Spaces, Sound, Whole, Owned
  <2>5. disk' = d /\ disk' \in Space /\ safe' \in Space /\ Spaces'
    BY <1>2, <2>1, <2>2, <2>4, Writes DEF IInv
  <2>6. /\ op' \in [Clients -> Ops] /\ op'[c] = Idle
        /\ \A b \in Clients \ {c} :
             /\ op'[b].at = op[b].at /\ op'[b].set = op[b].set /\ op'[b].was = op[b].was
             /\ op[b].at # "scan" => op'[b] = op[b]
             /\ op[b].at = "scan" =>
                  \A k \in op'[b].keys : k \in op[b].keys /\ <<op[b].set, k>> \notin gone
    BY <1>2, Forgotten
  <2>7. TypeOK' BY <1>2, <2>1, <2>5, <2>6 DEF IInv, TypeOK
  <2>8. Whole(sets)' BY <2>1 DEF IInv, Whole
  <2>9. \A m \in Sets, i \in 0 .. MaxId : Used(m, i)' => Used(m, i)
    BY <2>1, <2>2, <2>5, <2>6 DEF Used
  <2>10. up => IdsOnce' BY <2>1, <2>9 DEF IInv, IdsOnce
  <2>11. \A b \in Clients : op[b].at # "drop" BY <2>1 DEF IInv, CallsHold, Dropping
  <2>12. up => Recorded' BY <2>1, <2>2, <2>5, <2>11 DEF IInv, Recorded, Fits
  <2>13. CallsHold'
    <3> SUFFICES ASSUME NEW b \in Clients, op'[b].at # "idle"
                 PROVE  /\ up' /\ op'[b].set \in Sets /\ op'[b].was.id # -1
                        /\ op'[b].at = "persist" => Persisting(op[b])'
                        /\ op'[b].at = "apply" => Applying(op[b])'
                        /\ op'[b].at = "expire" => Expiring(op[b])'
                        /\ op'[b].at = "drop" => Dropping(b)'
                        /\ op'[b].at = "scan" => Scanning(op[b])'
      BY DEF CallsHold
    <3>1. b # c /\ op'[b].at = op[b].at /\ op'[b].set = op[b].set /\ op'[b].was = op[b].was
      BY <2>6
    <3>2. up /\ op[b].set \in Sets /\ op[b].was.id # -1 BY <3>1 DEF IInv, CallsHold
    <3>3. op[b].at = "persist" => Persisting(op[b])'
      BY <3>1, <2>1, <2>6 DEF IInv, CallsHold, Persisting
    <3>4. op[b].at = "apply" => Applying(op[b])'
      BY <3>1, <2>2, <2>5, <2>6 DEF IInv, CallsHold, Applying
    <3>5. ASSUME op[b].at = "scan", NEW k \in op'[b].keys
          PROVE  Row(op[b].was.id, op[b].set, k) \in d.rows
      <4>1. k \in op[b].keys /\ <<op[b].set, k>> \notin gone BY <3>1, <3>5, <2>6
      <4>2. Row(op[b].was.id, op[b].set, k) \in disk.rows
        BY <3>1, <3>5, <4>1 DEF IInv, CallsHold, Scanning
      <4> QED BY <4>1, <4>2, <2>2, <2>3
    <3>6. op[b].at = "scan" => Scanning(op[b])' BY <3>1, <3>5, <2>5 DEF Scanning
    <3>7. op[b].at = "expire" => Expiring(op[b])'
      BY <3>1, <2>1, <2>6 DEF IInv, CallsHold, Expiring
    <3> QED BY <3>1, <3>2, <3>3, <3>4, <3>6, <3>7, <2>1, <2>11
  <2>14. AckedStored'
    <3> SUFFICES ASSUME NEW a \in acked \ gone
                 PROVE  Row(disk.meta[a[1]].id, a[1], a[2]) \in d.rows
      BY <1>2, <2>2, <2>5 DEF AckedStored
    <3>1. a \in Sets \X Keys BY DEF IInv, TypeOK
    <3>2. a = <<a[1], a[2]>> BY <3>1
    <3>3. Row(disk.meta[a[1]].id, a[1], a[2]) \in disk.rows BY DEF IInv, AckedStored
    <3> QED BY <3>2, <3>3, <2>2, <2>3
  <2> QED BY <2>1, <2>5, <2>7, <2>8, <2>10, <2>12, <2>13, <2>14 DEF IInv
<1> QED BY <1>1, <1>2 DEF ExpireApply

-----------------------------------------------------------------------------
(* Flush, Close, a crash and Open.                                         *)

LEMMA FlushStep ==
  ASSUME IInv, Flush
  PROVE  IInv'
<1>1. UNCHANGED <<profile, up, sets, nextID, disk, op, acked, fails, crashes>> /\ safe' = disk
  BY DEF Flush
<1>2. TypeOK' BY <1>1 DEF IInv, TypeOK
<1>3. Whole(sets)' BY <1>1 DEF IInv, Whole
<1>4. Spaces' BY <1>1 DEF IInv, Spaces, Sound, Owned, Whole
<1>5. up => IdsOnce' BY <1>1 DEF IInv, IdsOnce, Used
<1>6. up => Recorded' BY <1>1 DEF IInv, Recorded, Fits
<1>7. CallsHold' BY <1>1 DEF IInv, CallsHold, Persisting, Applying, Expiring, Dropping, Scanning, Fits
<1>8. AckedStored' BY <1>1 DEF IInv, AckedStored
<1> QED BY <1>1, <1>2, <1>3, <1>4, <1>5, <1>6, <1>7, <1>8 DEF IInv

\* A closed database has no sets and no calls, so only its key space matters.
LEMMA StopStep ==
  ASSUME IInv, Stop, disk' \in Space, safe' \in Space, Spaces',
         AckedStored', acked' \subseteq acked, UNCHANGED <<profile, fails>>, crashes' = crashes + 1
  PROVE  IInv'
<1> USE EngineAssumption, AbsentFacts, IdleFacts
<1>1. ~up' /\ up' \in BOOLEAN /\ sets' = [n \in Sets |-> Absent] /\ nextID' = 0 /\ op' = [c \in Clients |-> Idle]
  BY DEF Stop
<1>2. TypeOK' BY <1>1 DEF IInv, TypeOK
<1>3. Whole(sets)' BY <1>1 DEF Whole
<1>4. CallsHold' BY <1>1 DEF CallsHold
<1> QED BY <1>1, <1>2, <1>3, <1>4 DEF IInv

LEMMA CloseStep ==
  ASSUME IInv, Close
  PROVE  IInv'
<1>1. Stop /\ safe' = disk /\ UNCHANGED <<profile, disk, acked, fails>> /\ crashes' = crashes + 1
  BY DEF Close
<1>2. disk' \in Space /\ safe' \in Space BY <1>1 DEF IInv, TypeOK
<1>3. Spaces' BY <1>1 DEF IInv, Spaces, Sound, Owned, Whole
<1>4. AckedStored' BY <1>1 DEF IInv, AckedStored
<1> QED BY <1>1, <1>2, <1>3, <1>4, StopStep

LEMMA CrashStep ==
  ASSUME IInv, Crash
  PROVE  IInv'
<1>1. /\ Stop /\ disk' = safe /\ UNCHANGED <<profile, safe, fails>> /\ crashes' = crashes + 1
      /\ acked' = IF profile = "paranoid" THEN acked
                  ELSE {a \in acked : \E r \in safe.rows : r.of = a[1] /\ r.key = a[2]}
  BY DEF Crash
<1>2. safe \in Space /\ Sound(safe) BY DEF IInv, TypeOK, Spaces
<1>3. disk' \in Space /\ safe' \in Space BY <1>1, <1>2
<1>4. Spaces' BY <1>1 DEF IInv, Spaces, Sound, Owned, Whole
<1>5. AckedStored'
  <2>1. CASE profile = "paranoid"
    <3>1. safe = disk BY <2>1 DEF IInv, Spaces
    <3> QED BY <1>1, <2>1, <3>1 DEF IInv, AckedStored
  <2>2. CASE profile # "paranoid"
    <3> SUFFICES ASSUME NEW a \in acked, NEW r \in safe.rows, r.of = a[1], r.key = a[2]
                 PROVE  Row(safe.meta[a[1]].id, a[1], a[2]) \in safe.rows
      BY <1>1, <2>2 DEF AckedStored
    <3>1. r \in Rows BY <1>2 DEF Space
    <3>2. r.of \in Sets BY <3>1 DEF Rows
    <3>3. r = Row(safe.meta[r.of].id, r.of, r.key) BY <1>2, <3>2, RowsByName
    <3> QED BY <3>3
  <2> QED BY <2>1, <2>2
<1>6. acked' \subseteq acked BY <1>1
<1> QED BY <1>1, <1>3, <1>4, <1>5, <1>6, StopStep

\* loadMeta's next id is beyond every id in the key space, and is not made up.
LEMMA HighWaterFacts ==
  ASSUME NEW d \in Space
  PROVE  /\ HighWater(d) \in 0 .. MaxId + 1
         /\ \A n \in Sets : d.meta[n].id < HighWater(d)
<1> USE EngineAssumption
<1> DEFINE S == {d.hw} \cup {d.meta[n].id + 1 : n \in Sets}
<1>1. \A n \in Sets : d.meta[n].id \in -1 .. MaxId /\ d.meta[n].id + 1 \in 0 .. MaxId + 1
  BY DEF Space, Meta
<1>2. S \in SUBSET (0 .. MaxId + 1) /\ S # {} BY <1>1 DEF Space
<1>3. MaxId + 1 \in Nat OBVIOUS
<1>4. \A n \in Sets : d.meta[n].id + 1 \in S OBVIOUS
<1> HIDE DEF S
<1>5. Max(S) \in S /\ \A y \in S : y <= Max(S) BY <1>2, <1>3, Largest
<1>6. HighWater(d) = Max(S) BY DEF HighWater, S
<1> HIDE DEF HighWater
<1>7. HighWater(d) \in 0 .. MaxId + 1 BY <1>2, <1>5, <1>6
<1>8. ASSUME NEW n \in Sets PROVE d.meta[n].id < HighWater(d)
  <2>1. d.meta[n].id + 1 <= HighWater(d) BY <1>4, <1>5, <1>6
  <2> QED BY <2>1, <1>1, <1>7
<1> QED BY <1>7, <1>8

LEMMA OpenStep ==
  ASSUME IInv, Open
  PROVE  IInv'
<1> USE EngineAssumption, AbsentFacts, IdleFacts
<1>1. /\ ~up /\ up' /\ up' \in BOOLEAN /\ sets' = disk.meta /\ nextID' = HighWater(disk)
      /\ UNCHANGED <<profile, op, acked, fails, crashes>>
  BY DEF Open
<1>2. disk \in Space /\ disk.meta \in [Sets -> Meta] BY DEF IInv, TypeOK, Space
<1>3. nextID' \in 0 .. MaxId + 1 /\ \A n \in Sets : disk.meta[n].id < nextID'
  BY <1>1, <1>2, HighWaterFacts
<1> DEFINE d == [disk EXCEPT !.hw = nextID']
<1>4. d \in Space /\ d.meta = disk.meta /\ d.rows = disk.rows BY <1>2, <1>3 DEF Space
<1>5. Sound(d) BY <1>4 DEF IInv, Spaces, Sound, Owned
<1> HIDE DEF d
<1>6. disk' \in Space /\ safe' \in Space /\ Spaces' /\ disk'.meta = disk.meta /\ disk'.rows = disk.rows
  <2>1. CASE WriteMeta(d)
    <3>1. disk' = d /\ disk' \in Space /\ safe' \in Space /\ Spaces'
      BY <1>1, <1>4, <1>5, <2>1, Writes DEF IInv
    <3> QED BY <3>1, <1>4
  <2>2. CASE UNCHANGED <<disk, safe>>
    BY <1>1, <2>2 DEF IInv, TypeOK, Spaces, Sound, Owned, Whole
  <2> QED BY <2>1, <2>2 DEF Open, d
<1>7. TypeOK' BY <1>1, <1>2, <1>3, <1>6 DEF IInv, TypeOK
<1>8. Whole(sets)' BY <1>1 DEF IInv, Spaces, Sound, Whole
<1>9. \A c \in Clients : op[c].at = "idle" BY <1>1 DEF IInv, CallsHold
<1>10. \A m \in Sets, i \in 0 .. MaxId : Used(m, i)' => disk.meta[m].id = i
  BY <1>1, <1>6, <1>9 DEF Used
<1>11. IdsOnce'
  <2> SUFFICES ASSUME NEW n \in Sets, NEW m \in Sets, NEW i \in 0 .. MaxId, Used(n, i)', Used(m, i)'
               PROVE  i < nextID' /\ m = n
    <3>1. \A n \in Sets, i \in 0 .. MaxId : Used(n, i)' => i < nextID' BY <1>3, <1>10
    <3> QED BY <3>1 DEF IdsOnce
  <2>1. disk.meta[n].id = i /\ disk.meta[m].id = i BY <1>10
  <2> QED BY <2>1, <1>3 DEF IInv, Spaces, Sound
<1>12. Recorded' BY <1>1, <1>6 DEF Recorded, Fits
<1>13. CallsHold' BY <1>1, <1>9 DEF CallsHold
<1>14. AckedStored' BY <1>1, <1>6 DEF IInv, AckedStored
<1> QED BY <1>6, <1>7, <1>8, <1>11, <1>12, <1>13, <1>14 DEF IInv

-----------------------------------------------------------------------------
(* The theorems.                                                           *)

LEMMA InitHolds ==
  ASSUME Init
  PROVE  IInv
<1> USE EngineAssumption, AbsentFacts, IdleFacts
<1>1. /\ disk \in Space /\ Sound(disk)
      /\ \A r \in disk.rows : r = Row(disk.meta[r.of].id, r.of, r.key)
  <2>1. CASE disk = Empty
    <3>1. Empty \in Space /\ Empty.rows = {} /\ \A n \in Sets : Empty.meta[n] = Absent BY DEF Empty, Space
    <3> QED BY <2>1, <3>1 DEF Sound, Owned, Whole
  <2>2. ASSUME NEW n \in Sets, NEW k \in Old, disk = Legacy(n, k)
        PROVE  /\ disk \in Space /\ Sound(disk)
               /\ \A r \in disk.rows : r = Row(disk.meta[r.of].id, r.of, r.key)
    <3> DEFINE sm == [Absent EXCEPT !.id = 0, !.cols = {k}]
    <3>0. k \in Keys OBVIOUS
    <3>1. sm \in Meta /\ sm.id = 0 /\ sm.cols = {k} /\ ~sm.dirty
      BY <3>0, LegacyMeta
    <3>2. Row(0, n, k) \in Rows /\ Row(0, n, k).id = 0 /\ Row(0, n, k).of = n /\ Row(0, n, k).key = k
      BY <3>0 DEF Rows, Row
    <3> HIDE DEF sm
    <3>3. /\ disk.meta = [m \in Sets |-> IF m = n THEN sm ELSE Absent]
          /\ disk.rows = {Row(0, n, k)} /\ disk.hw = 0 /\ disk \in Space
      <4>1. disk = [meta |-> [m \in Sets |-> IF m = n THEN sm ELSE Absent], hw |-> 0, rows |-> {Row(0, n, k)}]
        BY <2>2 DEF Legacy, Empty, sm
      <4> QED BY <4>1, <3>1, <3>2 DEF Space
    <3>4. Sound(disk) BY <3>1, <3>2, <3>3 DEF Sound, Owned, Whole
    <3> QED BY <3>1, <3>2, <3>3, <3>4
  <2> QED BY <2>1, <2>2 DEF Init
<1>2. safe = disk BY DEF Init
<1>3. acked = {<<r.of, r.key>> : r \in disk.rows} BY DEF Init
<1>4. acked \subseteq Sets \X Keys
  <2>1. \A r \in disk.rows : r.of \in Sets /\ r.key \in Keys BY <1>1 DEF Space, Rows
  <2> QED BY <1>3, <2>1
<1>5. TypeOK
  <2>1. sets \in [Sets -> Meta] /\ op \in [Clients -> Ops] /\ nextID \in 0 .. MaxId + 1 BY DEF Init
  <2>2. profile \in Profiles /\ up = FALSE /\ fails = 0 /\ crashes = 0 BY DEF Init
  <2> QED BY <1>1, <1>2, <1>4, <2>1, <2>2 DEF TypeOK
<1>6. Whole(sets) /\ CallsHold /\ ~up BY DEF Init, Whole, CallsHold
<1>7. Spaces BY <1>1, <1>2 DEF Spaces
<1>8. AckedStored BY <1>1, <1>3 DEF AckedStored
<1> QED BY <1>5, <1>6, <1>7, <1>8 DEF IInv

LEMMA NextHolds ==
  ASSUME IInv, [Next]_vars
  PROVE  IInv'
BY StutterStep, LookupStep, PersistStep, ApplyStep, DropSetStep, DropApplyStep, ExpireStep,
   ExpireApplyStep, ScanStep, ReadStep, FlushStep, CloseStep, CrashStep, OpenStep
   DEF Next

\* The invariant the three properties rest on holds in every state the engine reaches.
LEMMA Inductive == Spec => []IInv
<1>1. Init => IInv BY InitHolds
<1>2. IInv /\ [Next]_vars => IInv' BY NextHolds
<1> QED BY <1>1, <1>2, PTL DEF Spec

\* No row is ever out of reach: neither in the key space of the running process nor in
\* what a crash would leave of it, whatever calls of setLocked, PutBatch, DropSet and
\* DeleteOlderThan overlap, whichever of their writes fail, in every profile.
THEOREM RowsAreOwned == Spec => []NoOrphans
<1>1. IInv => NoOrphans BY DEF IInv, Spaces, Sound, NoOrphans
<1> QED BY <1>1, Inductive, PTL

\* A row that PutBatch reported written is found under the id a query would use until
\* its set is dropped or the row deleted, across failed drops, Close and Open in every
\* profile, and across crashes in the paranoid one.
THEOREM AckedRowsAreFound == Spec => []AckedReadable
<1>1. ASSUME IInv PROVE AckedReadable
  <2> SUFFICES ASSUME up, NEW a \in acked,
                      ~ \E c \in Clients : op[c].at = "drop" /\ op[c].set = a[1]
               PROVE  sets[a[1]] # Absent /\ Row(sets[a[1]].id, a[1], a[2]) \in disk.rows
    BY DEF AckedReadable
  <2>1. a[1] \in Sets /\ Row(disk.meta[a[1]].id, a[1], a[2]) \in disk.rows
    BY <1>1 DEF IInv, TypeOK, AckedStored
  <2>2. disk.meta[a[1]].id # -1 BY <1>1, <2>1 DEF IInv, TypeOK, Space, Rows, Row
  <2>3. sets[a[1]] # Absent BY <1>1, <2>1, <2>2, AbsentFacts DEF IInv, Recorded
  <2>4. disk.meta[a[1]].id = sets[a[1]].id BY <1>1, <2>1, <2>2, <2>3 DEF IInv, Recorded, Fits
  <2> QED BY <2>1, <2>3, <2>4
<1> QED BY <1>1, Inductive, PTL

\* A scan that began under an id returns rows of its own set only, and every row
\* acknowledged before it began and not removed since: ids are never given out twice,
\* so a drop and a re-creation between its two steps cannot show it another set's rows.
THEOREM ScansAreExact == Spec => []ScanExact
<1>1. ASSUME IInv PROVE ScanExact
  <2> SUFFICES ASSUME NEW c \in Clients, op[c].at = "scan"
               PROVE  /\ \A r \in Found(c) : r.of = op[c].set
                      /\ op[c].keys \subseteq {r.key : r \in Found(c)}
    BY DEF ScanExact
  <2>1. up /\ op[c].set \in Sets /\ op[c].was.id # -1 /\ Scanning(op[c])
    BY <1>1 DEF IInv, CallsHold
  <2>2. ASSUME NEW r \in Found(c) PROVE r.of = op[c].set
    <3>1. r \in disk.rows /\ r.id = op[c].was.id BY <2>2 DEF Found, RowsOf
    <3>2. r \in Rows BY <1>1, <3>1 DEF IInv, TypeOK, Space
    <3>3. r.of \in Sets /\ r.id \in 0 .. MaxId BY <3>2 DEF Rows
    <3>4. disk.meta[r.of].id = r.id BY <1>1, <3>1 DEF IInv, Spaces, Sound, Owned
    <3>5. Used(r.of, r.id) /\ Used(op[c].set, r.id) BY <3>1, <3>4 DEF Used
    <3> QED BY <1>1, <2>1, <3>3, <3>5 DEF IInv, IdsOnce
  <2>3. ASSUME NEW k \in op[c].keys PROVE k \in {r.key : r \in Found(c)}
    <3>1. Row(op[c].was.id, op[c].set, k) \in disk.rows BY <2>1 DEF Scanning
    <3>2. Row(op[c].was.id, op[c].set, k).id = op[c].was.id /\ Row(op[c].was.id, op[c].set, k).key = k
      BY DEF Row
    <3>3. Row(op[c].was.id, op[c].set, k) \in Found(c) BY <3>1, <3>2 DEF Found, RowsOf
    <3> QED BY <3>2, <3>3
  <2> QED BY <2>2, <2>3
<1> QED BY <1>1, Inductive, PTL

-----------------------------------------------------------------------------
(* The engine implements its contract, step by step.                       *)

\* Once every row is owned, what a query finds is what was written to the set.
Held(d) == [n \in Sets |-> {k \in Keys : \E r \in d.rows : r.of = n /\ r.key = k}]

LEMMA ContentsHeld ==
  ASSUME NEW d \in Space, Sound(d)
  PROVE  Contents(d) = Held(d) /\ Contents(d) \in [Sets -> SUBSET Keys]
<1>1. ASSUME NEW n \in Sets
      PROVE  {r.key : r \in RowsOf(d, d.meta[n].id)} = {k \in Keys : \E r \in d.rows : r.of = n /\ r.key = k}
  <2>1. \A r \in d.rows : r.key \in Keys /\ (r.of = n <=> r.id = d.meta[n].id) BY RowsByName
  <2> QED BY <2>1 DEF RowsOf
<1>2. Contents(d) = Held(d) BY <1>1 DEF Contents, Held
<1> QED BY <1>2 DEF Held

LEMMA HeldType == \A d : Held(d) \in [Sets -> SUBSET Keys]
BY DEF Held

\* In every state of the invariant both key spaces show tables.
LEMMA BothHeld ==
  ASSUME IInv
  PROVE  /\ Contents(disk) = Held(disk) /\ Contents(safe) = Held(safe)
         /\ Contents(disk) \in [Sets -> SUBSET Keys]
BY ContentsHeld DEF IInv, TypeOK, Spaces

\* A write that is synced makes all before it safe: the contract's Settle.
LEMMA Settles ==
  ASSUME IInv, IInv', safe' = safe \/ safe' = disk'
  PROVE  Contract!Settle
<1>1. Contents(safe)' = Contents(safe) \/ Contents(safe)' = Contents(disk)'
  <2>1. CASE safe' = safe BY <2>1 DEF Contents, RowsOf
  <2>2. CASE safe' = disk' BY <2>2 DEF Contents, RowsOf
  <2> QED BY <2>1, <2>2
<1> QED BY <1>1 DEF Contract!Settle

LEMMA SafeMoves ==
  ASSUME NEW d, WriteMeta(d) \/ WriteRows(d)
  PROVE  safe' = safe \/ safe' = disk'
BY DEF WriteMeta, WriteRows

\* The call that the step o of an operation belongs to.
AskOf(o) ==
  CASE o.at \in {"persist", "apply"} -> [do |-> "put", set |-> o.set, keys |-> o.keys]
    [] o.at = "expire" -> [do |-> "delete", set |-> o.set, keys |-> o.keys]
    [] o.at = "drop" -> [do |-> "drop", set |-> o.set]
    [] OTHER -> [do |-> "nothing"]

LEMMA AskedOf == [c \in Clients |-> Asked(c)] = [c \in Clients |-> AskOf(op[c])]
BY DEF Asked, AskOf

LEMMA AskOfFacts ==
  ASSUME NEW o
  PROVE  /\ o.at \in {"persist", "apply"} => AskOf(o) = [do |-> "put", set |-> o.set, keys |-> o.keys]
         /\ o.at = "expire" => AskOf(o) = [do |-> "delete", set |-> o.set, keys |-> o.keys]
         /\ o.at = "drop" => AskOf(o) = [do |-> "drop", set |-> o.set]
         /\ o.at \in {"idle", "scan"} => AskOf(o) = Contract!Nothing
BY DEF AskOf, Contract!Nothing

LEMMA RealCalls ==
  ASSUME NEW o \in Ops, o.set \in Sets, o.at \in {"persist", "apply", "expire", "drop"}
  PROVE  AskOf(o) \in Contract!Calls /\ AskOf(o) # Contract!Nothing
<1>1. o.keys \in SUBSET Keys BY DEF Ops
<1>2. CASE o.at \in {"persist", "apply"}
  BY <1>1, <1>2, AskOfFacts DEF Contract!Calls, Contract!Nothing
<1>3. CASE o.at = "expire" BY <1>1, <1>3, AskOfFacts DEF Contract!Calls, Contract!Nothing
<1>4. CASE o.at = "drop" BY <1>4, AskOfFacts DEF Contract!Calls, Contract!Nothing
<1> QED BY <1>2, <1>3, <1>4

\* Rows that stay where they are show the same tables.
LEMMA SameRows ==
  ASSUME IInv, IInv', disk'.rows = disk.rows
  PROVE  Contents(disk)' = Contents(disk)
<1>1. Held(disk)' = Held(disk) BY DEF Held
<1>2. Contents(disk)' = Held(disk)' BY ContentsHeld DEF IInv, TypeOK, Spaces
<1> QED BY <1>1, <1>2, BothHeld

\* A step that asks for something, and so far changes no row.
LEMMA AsAsk ==
  ASSUME IInv, IInv', NEW c \in Clients, NEW o \in Ops,
         op[c].at = "idle", op' = [op EXCEPT ![c] = o],
         o.set \in Sets, o.at \in {"persist", "apply", "expire", "drop"},
         disk'.rows = disk.rows, safe' = safe \/ safe' = disk'
  PROVE  Contract!Ask(c)
<1> DEFINE asks == [b \in Clients |-> AskOf(op[b])]
<1>1. asks[c] = Contract!Nothing BY AskOfFacts
<1>2. asks' = [asks EXCEPT ![c] = AskOf(o)] BY DEF IInv, TypeOK
<1>3. asks'[c] \in Contract!Calls /\ asks' = [asks EXCEPT ![c] = asks'[c]] BY <1>2, RealCalls
<1>4. Contract!Settle BY Settles
<1>5. Contents(disk)' = Contents(disk) BY SameRows
<1>6. [b \in Clients |-> Asked(b)] = asks BY AskedOf
<1>7. [b \in Clients |-> Asked(b)]' = asks' BY DEF Asked, AskOf
<1> HIDE DEF asks
<1> QED BY <1>1, <1>3, <1>4, <1>5, <1>6, <1>7 DEF Contract!Ask

\* A step that does what was asked.
LEMMA AsDone ==
  ASSUME IInv, IInv', NEW c \in Clients,
         op[c].set \in Sets, op[c].at \in {"persist", "apply", "expire", "drop"},
         op'[c].at = "idle", \A b \in Clients \ {c} : AskOf(op[b])' = AskOf(op[b]),
         Contents(disk)' = Contract!Effect(AskOf(op[c])), safe' = safe \/ safe' = disk'
  PROVE  Contract!Done(c)
<1> DEFINE asks == [b \in Clients |-> AskOf(op[b])]
<1>1. op[c] \in Ops BY DEF IInv, TypeOK
<1>2. asks[c] = AskOf(op[c]) /\ asks[c] # Contract!Nothing BY <1>1, RealCalls
<1>3. AskOf(op[c])' = Contract!Nothing BY DEF AskOf, Contract!Nothing
<1>4. asks' = [asks EXCEPT ![c] = Contract!Nothing] BY <1>3
<1>5. Contract!Settle BY Settles
<1>6. [b \in Clients |-> Asked(b)] = asks BY AskedOf
<1>7. [b \in Clients |-> Asked(b)]' = asks' BY DEF Asked, AskOf
<1> HIDE DEF asks
<1> QED BY <1>2, <1>4, <1>5, <1>6, <1>7 DEF Contract!Done

\* A step that gives up and changes nothing.
LEMMA AsFailed ==
  ASSUME IInv, NEW c \in Clients,
         op[c].set \in Sets, op[c].at \in {"persist", "apply", "expire", "drop"},
         op' = [op EXCEPT ![c] = Idle], UNCHANGED <<disk, safe>>
  PROVE  Contract!Failed(c)
<1> DEFINE asks == [b \in Clients |-> AskOf(op[b])]
<1>1. op[c] \in Ops BY DEF IInv, TypeOK
<1>2. asks[c] # Contract!Nothing BY <1>1, RealCalls
<1>3. AskOf(Idle) = Contract!Nothing BY AskOfFacts, IdleFacts
<1>4. asks' = [asks EXCEPT ![c] = Contract!Nothing] BY <1>3 DEF IInv, TypeOK
<1>5. UNCHANGED <<Contents(disk), Contents(safe)>> BY DEF Contents, RowsOf
<1>6. [b \in Clients |-> Asked(b)] = asks BY AskedOf
<1>7. [b \in Clients |-> Asked(b)]' = asks' BY DEF Asked, AskOf
<1> HIDE DEF asks
<1> QED BY <1>2, <1>4, <1>5, <1>6, <1>7 DEF Contract!Failed

\* A step the callers do not see, but for what it may make safe.
LEMMA AsKeep ==
  ASSUME IInv, IInv', \A b \in Clients : AskOf(op[b])' = AskOf(op[b]),
         disk'.rows = disk.rows, safe' = safe \/ safe' = disk'
  PROVE  Contract!Keep \/ UNCHANGED Contract!tvars
<1> DEFINE asks == [b \in Clients |-> AskOf(op[b])]
<1>1. asks' = asks OBVIOUS
<1>2. [b \in Clients |-> Asked(b)] = asks BY AskedOf
<1>3. [b \in Clients |-> Asked(b)]' = asks' BY DEF Asked, AskOf
<1>4. Contents(disk)' = Contents(disk) BY SameRows
<1>5. Contents(safe)' = Contents(safe) \/ Contents(safe)' = Contents(disk)
  <2>1. CASE safe' = safe BY <2>1 DEF Contents, RowsOf
  <2>2. CASE safe' = disk'
    <3>1. Contents(safe)' = Contents(disk)' BY <2>2 DEF Contents, RowsOf
    <3> QED BY <3>1, <1>4
  <2> QED BY <2>1, <2>2
<1> HIDE DEF asks
<1> QED BY <1>1, <1>2, <1>3, <1>4, <1>5 DEF Contract!Keep, Contract!tvars

LEMMA LookupKeeps ==
  ASSUME IInv, IInv', NEW c \in Clients, NEW n \in Sets, NEW ks \in Batches, Lookup(c, n, ks)
  PROVE  Contract!Ask(c) \/ Contract!Keep \/ UNCHANGED Contract!tvars
<1> USE IdleFacts
<1>1. CASE Fail /\ UNCHANGED <<sets, op>>
  <2>1. UNCHANGED <<disk, safe>> BY <1>1 DEF Fail
  <2>2. \A b \in Clients : AskOf(op[b])' = AskOf(op[b]) BY <1>1
  <2> QED BY <2>1, <2>2, AsKeep
<1>2. ASSUME NEW o, Goto(c, o), o.set = n, o.at \in {"persist", "apply"},
             disk'.rows = disk.rows, safe' = safe \/ safe' = disk'
      PROVE  Contract!Ask(c)
  <2>1. op[c].at = "idle" BY DEF Lookup, Ready
  <2>2. op' = [op EXCEPT ![c] = o] /\ o = op'[c] BY <1>2 DEF Goto, IInv, TypeOK
  <2>3. o \in Ops BY <2>2 DEF IInv, TypeOK
  <2> QED BY <1>2, <2>1, <2>2, <2>3, AsAsk
<1>3. CASE /\ sets' = [sets EXCEPT ![n] = [id |-> nextID, cols |-> ks, dirty |-> TRUE]]
           /\ WriteMeta([disk EXCEPT !.hw = nextID'])
           /\ Goto(c, [Idle EXCEPT !.at = "persist", !.set = n, !.was = sets'[n], !.keys = ks])
  <2> DEFINE o == [Idle EXCEPT !.at = "persist", !.set = n, !.was = sets'[n], !.keys = ks]
  <2>1. Goto(c, o) /\ o.set = n /\ o.at = "persist" BY <1>3 DEF Idle
  <2>2. safe' = safe \/ safe' = disk' BY <1>3, SafeMoves
  <2>3. disk'.rows = disk.rows BY <1>3 DEF WriteMeta, IInv, TypeOK, Space
  <2> HIDE DEF o
  <2> QED BY <2>1, <2>2, <2>3, <1>2
<1>4. CASE WidenSet(c, n, ks)
  <2> DEFINE sm == sets[n]
             wide == [sm EXCEPT !.cols = @ \cup ks, !.dirty = @ \/ ~(ks \subseteq sm.cols)]
             o == [Idle EXCEPT !.at = IF wide.dirty THEN "persist" ELSE "apply",
                               !.set = n, !.was = wide, !.keys = ks]
  <2>1. Goto(c, o) /\ UNCHANGED <<disk, safe>> BY <1>4 DEF WidenSet
  <2> HIDE DEF wide
  <2>2. o.set = n /\ o.at \in {"persist", "apply"} BY DEF Idle
  <2> HIDE DEF o
  <2> QED BY <2>1, <2>2, <1>2
<1> QED BY <1>1, <1>3, <1>4 DEF Lookup, CreateSet

LEMMA PersistKeeps ==
  ASSUME IInv, IInv', NEW c \in Clients, Persist(c)
  PROVE  Contract!Failed(c) \/ Contract!Keep \/ UNCHANGED Contract!tvars
<1> DEFINE n == op[c].set
           o == [op[c] EXCEPT !.at = "apply"]
<1>1. op[c].at = "persist" /\ op[c] \in Ops /\ op[c].set \in Sets
  BY DEF Persist, IInv, TypeOK, CallsHold
<1>2. CASE Fail /\ Return(c) BY <1>1, <1>2, AsFailed DEF Fail, Return, Goto
<1>3. CASE WriteMeta([disk EXCEPT !.meta[n] = Record(sets[n])]) /\ Goto(c, o)
  <2>1. safe' = safe \/ safe' = disk' BY <1>3, SafeMoves
  <2>2. disk'.rows = disk.rows BY <1>3 DEF WriteMeta, IInv, TypeOK, Space
  <2>3. o.at = "apply" /\ o.set = op[c].set /\ o.keys = op[c].keys BY <1>1 DEF Ops
  <2>4. op'[c] = o /\ \A b \in Clients \ {c} : op'[b] = op[b] BY <1>3 DEF Goto, IInv, TypeOK
  <2> HIDE DEF o
  <2>5. AskOf(o) = AskOf(op[c]) BY <1>1, <2>3, AskOfFacts
  <2>6. \A b \in Clients : AskOf(op[b])' = AskOf(op[b]) BY <2>4, <2>5
  <2> QED BY <2>1, <2>2, <2>6, AsKeep
<1> QED BY <1>2, <1>3 DEF Persist

LEMMA ApplyKeeps ==
  ASSUME IInv, IInv', NEW c \in Clients, Apply(c)
  PROVE  Contract!Failed(c) \/ Contract!Done(c)
<1> USE IdleFacts
<1> DEFINE n == op[c].set
           ks == op[c].keys
           new == {Row(op[c].was.id, n, k) : k \in ks}
<1>1. /\ op[c].at = "apply" /\ op[c] \in Ops /\ n \in Sets /\ ks \subseteq Keys
      /\ op' = [op EXCEPT ![c] = Idle]
  BY OpFacts DEF Apply, Return, Goto, IInv, TypeOK, CallsHold
<1>2. CASE Fail BY <1>1, <1>2, AsFailed DEF Fail
<1>3. CASE WriteRows([disk EXCEPT !.rows = @ \cup new])
  <2>1. safe' = safe \/ safe' = disk' BY <1>3, SafeMoves
  <2>2. disk'.rows = disk.rows \cup new BY <1>3 DEF WriteRows, IInv, TypeOK, Space
  <2>3. op'[c].at = "idle" /\ \A b \in Clients \ {c} : op'[b] = op[b] BY <1>1 DEF IInv, TypeOK
  <2>4. \A b \in Clients \ {c} : AskOf(op[b])' = AskOf(op[b]) BY <2>3
  <2>5. \A m \in Sets, k \in Keys :
          (\E r \in disk'.rows : r.of = m /\ r.key = k) <=>
             \/ \E r \in disk.rows : r.of = m /\ r.key = k
             \/ m = n /\ k \in ks
    <3>1. \A r \in new : r.of = n /\ r.key \in ks BY DEF Row
    <3>2. \A k \in ks : \E r \in new : r.of = n /\ r.key = k
      <4> TAKE k \in ks
      <4> WITNESS Row(op[c].was.id, n, k) \in new
      <4> QED BY DEF Row
    <3> HIDE DEF new
    <3> QED BY <2>2, <3>1, <3>2
  <2>6. Held(disk') = [Held(disk) EXCEPT ![n] = @ \cup ks]
    <3>1. \A m \in Sets : m # n => Held(disk')[m] = Held(disk)[m] BY <2>5 DEF Held
    <3>2. Held(disk')[n] = Held(disk)[n] \cup ks BY <1>1, <2>5 DEF Held
    <3>3. Held(disk) \in [Sets -> SUBSET Keys] /\ Held(disk') \in [Sets -> SUBSET Keys] BY HeldType
    <3> QED BY <1>1, <3>1, <3>2, <3>3
  <2>7. Contents(disk') = Held(disk') BY ContentsHeld DEF IInv, TypeOK, Spaces
  <2>8. Contents(disk)' = Contract!Effect(AskOf(op[c]))
    <3>1. AskOf(op[c]) = [do |-> "put", set |-> n, keys |-> ks] BY <1>1, AskOfFacts
    <3> QED BY <2>6, <2>7, <3>1, BothHeld DEF Contract!Effect
  <2> QED BY <1>1, <2>1, <2>3, <2>4, <2>8, AsDone
<1> QED BY <1>2, <1>3 DEF Apply

\* A call that so far has only been made.
LEMMA StartKeeps ==
  ASSUME IInv, IInv', NEW c \in Clients, NEW o, Ready(c), Goto(c, o),
         o.set \in Sets, o.at \in {"drop", "expire"}, UNCHANGED <<disk, safe>>
  PROVE  Contract!Ask(c)
<1>1. op[c].at = "idle" BY IdleFacts DEF Ready
<1>2. op' = [op EXCEPT ![c] = o] /\ o = op'[c] BY DEF Goto, IInv, TypeOK
<1>3. o \in Ops BY <1>2 DEF IInv, TypeOK
<1> QED BY <1>1, <1>2, <1>3, AsAsk

LEMMA DropSetKeeps ==
  ASSUME IInv, IInv', NEW c \in Clients, NEW n \in Sets, DropSet(c, n)
  PROVE  Contract!Ask(c)
<1> DEFINE o == [Idle EXCEPT !.at = "drop", !.set = n, !.was = sets[n]]
<1>1. Ready(c) /\ Goto(c, o) /\ UNCHANGED <<disk, safe>> BY DEF DropSet
<1>2. o.set = n /\ o.at = "drop" BY DEF Idle
<1> HIDE DEF o
<1> QED BY <1>1, <1>2, StartKeeps

LEMMA ExpireKeeps ==
  ASSUME IInv, IInv', NEW c \in Clients, NEW n \in Sets, Expire(c, n)
  PROVE  Contract!Ask(c)
<1> DEFINE dead == {r.key : r \in RowsOf(disk, sets[n].id)} \cap Old
           o == [Idle EXCEPT !.at = "expire", !.set = n, !.was = sets[n], !.keys = dead]
<1>1. Ready(c) /\ Goto(c, o) /\ UNCHANGED <<disk, safe>> BY DEF Expire
<1> HIDE DEF dead
<1>2. o.set = n /\ o.at = "expire" BY DEF Idle
<1> HIDE DEF o
<1> QED BY <1>1, <1>2, StartKeeps

\* The calls of the others are what they were when their scans are told of deletions.
LEMMA ForgottenAsks ==
  ASSUME IInv, NEW c \in Clients, NEW gone, Forget(c, gone)
  PROVE  op'[c].at = "idle" /\ \A b \in Clients \ {c} : AskOf(op[b])' = AskOf(op[b])
<1>1. op'[c] = Idle BY Forgotten
<1>2. ASSUME NEW b \in Clients \ {c} PROVE AskOf(op'[b]) = AskOf(op[b])
  <2>1. op'[b].at = op[b].at /\ (op[b].at # "scan" => op'[b] = op[b]) BY Forgotten
  <2>2. CASE op[b].at = "scan" BY <2>1, <2>2, AskOfFacts
  <2>3. CASE op[b].at # "scan" BY <2>1, <2>3
  <2> QED BY <2>2, <2>3
<1> QED BY <1>1, <1>2, IdleFacts

LEMMA DropApplyKeeps ==
  ASSUME IInv, IInv', NEW c \in Clients, DropApply(c)
  PROVE  Contract!Failed(c) \/ Contract!Done(c)
<1> USE IdleFacts
<1> DEFINE n == op[c].set
           id == op[c].was.id
           gone == {n} \X Keys
<1>1. op[c].at = "drop" /\ op[c] \in Ops /\ n \in Sets BY DEF DropApply, IInv, TypeOK, CallsHold
<1>2. CASE Fail /\ Return(c) BY <1>1, <1>2, AsFailed DEF Fail, Return, Goto
<1>3. CASE /\ WriteMeta([disk EXCEPT !.rows = @ \ RowsOf(disk, id), !.meta[n] = Absent])
           /\ Forget(c, gone)
  <2>1. safe' = safe \/ safe' = disk' BY <1>3, SafeMoves
  <2>2. disk'.rows = disk.rows \ RowsOf(disk, id) BY <1>3 DEF WriteMeta, IInv, TypeOK, Space
  <2>3. disk'.rows = {r \in disk.rows : r.of # n} BY <1>1, <2>2, DroppedRows DEF RowsOf
  <2>4. op'[c].at = "idle" /\ \A b \in Clients \ {c} : AskOf(op[b])' = AskOf(op[b])
    BY <1>3, ForgottenAsks
  <2>5. Held(disk') = [Held(disk) EXCEPT ![n] = {}]
    <3>1. \A m \in Sets : m # n => Held(disk')[m] = Held(disk)[m] BY <2>3 DEF Held
    <3>2. Held(disk')[n] = {} BY <1>1, <2>3 DEF Held
    <3>3. Held(disk) \in [Sets -> SUBSET Keys] /\ Held(disk') \in [Sets -> SUBSET Keys] BY HeldType
    <3> QED BY <1>1, <3>1, <3>2, <3>3
  <2>6. Contents(disk') = Held(disk') BY ContentsHeld DEF IInv, TypeOK, Spaces
  <2>7. Contents(disk)' = Contract!Effect(AskOf(op[c]))
    <3>1. AskOf(op[c]) = [do |-> "drop", set |-> n] BY <1>1, AskOfFacts
    <3> QED BY <2>5, <2>6, <3>1, BothHeld DEF Contract!Effect
  <2> QED BY <1>1, <2>1, <2>4, <2>7, AsDone
<1> QED BY <1>2, <1>3 DEF DropApply

LEMMA ExpireApplyKeeps ==
  ASSUME IInv, IInv', NEW c \in Clients, ExpireApply(c)
  PROVE  Contract!Failed(c) \/ Contract!Done(c)
<1> USE IdleFacts
<1> DEFINE n == op[c].set
           ks == op[c].keys
           gone == {n} \X ks
           dead == {Row(op[c].was.id, n, k) : k \in ks}
<1>1. op[c].at = "expire" /\ op[c] \in Ops /\ up /\ n \in Sets /\ op[c].was.id # -1 /\ Expiring(op[c])
  BY DEF ExpireApply, IInv, TypeOK, CallsHold
<1>2. CASE Fail /\ Return(c) BY <1>1, <1>2, AsFailed DEF Fail, Return, Goto
<1>3. CASE WriteRows([disk EXCEPT !.rows = @ \ dead]) /\ Forget(c, gone)
  <2>1. safe' = safe \/ safe' = disk' BY <1>3, SafeMoves
  <2>2. disk'.rows = disk.rows \ dead BY <1>3 DEF WriteRows, IInv, TypeOK, Space
  <2>3. op'[c].at = "idle" /\ \A b \in Clients \ {c} : AskOf(op[b])' = AskOf(op[b])
    BY <1>3, ForgottenAsks
  <2>4. \A r \in disk.rows : r \in dead <=> r.of = n /\ r.key \in ks
    <3> TAKE r \in disk.rows
    <3>1. r \in dead => r.of = n /\ r.key \in ks BY DEF Row
    <3>2. ASSUME r.of = n, r.key \in ks PROVE r \in dead
      <4>1. r = Row(disk.meta[n].id, n, r.key) /\ r.id = disk.meta[n].id /\ r.id \in 0 .. MaxId
        BY <3>2, <1>1, RowsByName DEF IInv, TypeOK, Spaces
      <4>2. sets[n].id = op[c].was.id BY <1>1 DEF Expiring
      <4>3. Fits(sets[n], n) BY <1>1, <4>2, AbsentFacts DEF IInv, Recorded
      <4>4. disk.meta[n].id = op[c].was.id BY <4>1, <4>2, <4>3, EngineAssumption DEF Fits
      <4> QED BY <3>2, <4>1, <4>4
    <3> QED BY <3>1, <3>2
  <2> HIDE DEF dead
  <2>5. Held(disk') = [Held(disk) EXCEPT ![n] = @ \ ks]
    <3>1. \A m \in Sets : m # n => Held(disk')[m] = Held(disk)[m] BY <2>2, <2>4 DEF Held
    <3>2. Held(disk')[n] = Held(disk)[n] \ ks BY <1>1, <2>2, <2>4 DEF Held
    <3>3. Held(disk) \in [Sets -> SUBSET Keys] /\ Held(disk') \in [Sets -> SUBSET Keys] BY HeldType
    <3> QED BY <1>1, <3>1, <3>2, <3>3
  <2>6. Contents(disk') = Held(disk') BY ContentsHeld DEF IInv, TypeOK, Spaces
  <2>7. Contents(disk)' = Contract!Effect(AskOf(op[c]))
    <3>1. AskOf(op[c]) = [do |-> "delete", set |-> n, keys |-> ks] BY <1>1, AskOfFacts
    <3> QED BY <2>5, <2>6, <3>1, BothHeld DEF Contract!Effect
  <2> QED BY <1>1, <2>1, <2>3, <2>7, AsDone
<1> QED BY <1>2, <1>3 DEF ExpireApply

\* Scans ask nothing; a flush or a clean Close makes safe what is there; Open writes
\* only its mark.
LEMMA QuietKeeps ==
  ASSUME IInv, IInv',
         \/ \E c \in Clients : Read(c) \/ \E n \in Sets : Scan(c, n)
         \/ Flush \/ Close \/ Open \/ UNCHANGED vars
  PROVE  Contract!Keep \/ UNCHANGED Contract!tvars
<1> USE IdleFacts
<1>1. CASE \E c \in Clients : Read(c)
  <2> PICK c \in Clients : Read(c) BY <1>1
  <2>1. op[c].at = "scan" /\ op' = [op EXCEPT ![c] = Idle] /\ UNCHANGED <<disk, safe>>
    BY DEF Read, Return, Goto
  <2>2. \A b \in Clients : AskOf(op[b])' = AskOf(op[b])
    BY <2>1, AskOfFacts DEF IInv, TypeOK
  <2> QED BY <2>1, <2>2, AsKeep
<1>2. CASE \E c \in Clients, n \in Sets : Scan(c, n)
  <2> PICK c \in Clients, n \in Sets : Scan(c, n) BY <1>2
  <2> DEFINE o == [Idle EXCEPT !.at = "scan", !.set = n, !.was = sets[n],
                               !.keys = {k \in Keys : <<n, k>> \in acked}]
  <2>1. op[c] = Idle /\ op' = [op EXCEPT ![c] = o] /\ UNCHANGED <<disk, safe>>
    BY DEF Scan, Ready, Goto
  <2>2. o.at = "scan" BY DEF Idle
  <2> HIDE DEF o
  <2>3. \A b \in Clients : AskOf(op[b])' = AskOf(op[b])
    BY <2>1, <2>2, AskOfFacts DEF IInv, TypeOK
  <2> QED BY <2>1, <2>3, AsKeep
<1>3. CASE Flush BY <1>3, AsKeep DEF Flush
<1>4. CASE Close
  <2>1. (\A c \in Clients : op[c] = Idle /\ op'[c] = Idle) /\ disk' = disk /\ safe' = disk'
    BY <1>4 DEF Close, Stop
  <2> QED BY <2>1, AsKeep
<1>5. CASE Open
  <2>1. op' = op BY <1>5 DEF Open
  <2>2. disk'.rows = disk.rows /\ (safe' = safe \/ safe' = disk')
    <3>1. CASE WriteMeta([disk EXCEPT !.hw = nextID'])
      <4>1. disk'.rows = disk.rows BY <3>1 DEF WriteMeta, IInv, TypeOK, Space
      <4> QED BY <3>1, <4>1, SafeMoves
    <3>2. CASE UNCHANGED <<disk, safe>> BY <3>2
    <3> QED BY <1>5, <3>1, <3>2 DEF Open
  <2> QED BY <2>1, <2>2, AsKeep
<1>6. CASE UNCHANGED vars BY <1>6, AsKeep DEF vars
<1> QED BY <1>1, <1>2, <1>3, <1>4, <1>5, <1>6

LEMMA CrashKeeps ==
  ASSUME IInv, Crash
  PROVE  Contract!Fall
<1>1. disk' = safe /\ safe' = safe /\ op' = [c \in Clients |-> Idle] BY DEF Crash, Stop
<1>2. Contents(disk)' = Contents(safe) /\ Contents(safe)' = Contents(safe) BY <1>1 DEF Contents, RowsOf
<1>3. [c \in Clients |-> Asked(c)]' = [c \in Clients |-> Contract!Nothing]
  BY <1>1, IdleFacts DEF Asked, Contract!Nothing
<1> QED BY <1>2, <1>3 DEF Contract!Fall

\* The engine implements the tables the store is written against: whatever calls
\* overlap, whichever writes fail and whenever the process stops, rows change only at
\* the one write of the call that asked for it, whole and in its own set, and a crash
\* takes every set back to one earlier moment.
THEOREM EngineImplementsTables == Spec => KeepsContract
<1>1. Init => Contract!TInit
  <2> SUFFICES ASSUME Init PROVE Contract!TInit OBVIOUS
  <2>1. IInv BY InitHolds
  <2>2. safe = disk /\ op = [c \in Clients |-> Idle] BY DEF Init
  <2>3. [c \in Clients |-> Asked(c)] = [c \in Clients |-> Contract!Nothing]
    BY <2>2, IdleFacts DEF Asked, Contract!Nothing
  <2>4. Contents(safe) = Contents(disk) BY <2>2
  <2> QED BY <2>1, <2>3, <2>4, BothHeld DEF Contract!TInit
<1>2. IInv /\ IInv' /\ [Next]_vars => [Contract!TNext]_(Contract!tvars)
  <2> SUFFICES ASSUME IInv, IInv', [Next]_vars
               PROVE  Contract!TNext \/ UNCHANGED Contract!tvars
    OBVIOUS
  <2>1. ASSUME NEW c \in Clients, NEW n \in Sets,
               (\E ks \in Batches : Lookup(c, n, ks)) \/ DropSet(c, n) \/ Expire(c, n)
        PROVE  Contract!TNext \/ UNCHANGED Contract!tvars
    BY <2>1, LookupKeeps, DropSetKeeps, ExpireKeeps DEF Contract!TNext
  <2>2. ASSUME NEW c \in Clients, Persist(c) \/ Apply(c) \/ DropApply(c) \/ ExpireApply(c)
        PROVE  Contract!TNext \/ UNCHANGED Contract!tvars
    BY <2>2, PersistKeeps, ApplyKeeps, DropApplyKeeps, ExpireApplyKeeps DEF Contract!TNext
  <2>3. ASSUME \/ \E c \in Clients : Read(c) \/ \E n \in Sets : Scan(c, n)
               \/ Flush \/ Close \/ Open \/ UNCHANGED vars
        PROVE  Contract!TNext \/ UNCHANGED Contract!tvars
    BY <2>3, QuietKeeps DEF Contract!TNext
  <2>4. Crash => Contract!TNext BY CrashKeeps DEF Contract!TNext
  <2> QED BY <2>1, <2>2, <2>3, <2>4 DEF Next
<1> QED BY <1>1, <1>2, Inductive, PTL DEF Spec, KeepsContract, Contract!TSpec
=============================================================================
