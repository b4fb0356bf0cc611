----------------------------- MODULE Catalogue ------------------------------
(***************************************************************************)
(* The write path of the store and its catalogue (internal/store: http.go, *)
(* write.go, store.go).                                                    *)
(*                                                                         *)
(* A write is admitted, claims its idempotency key, applies what it        *)
(* declares, saves the catalogue if that moved the version, checks its     *)
(* sample against the catalogue, puts it, tells the catalogue and records  *)
(* the key.  Beside it run other writes, retries of the same request, the  *)
(* admin drop, the retention sweep and the ticker that saves.  Catalogue,  *)
(* overrides and rows are under different locks, and a save writes outside *)
(* its lock what it read inside.                                           *)
(*                                                                         *)
(* A request has one sample of one column, which is a label or a field.    *)
(***************************************************************************)
EXTENDS Integers, FiniteSets, FiniteSetsExt

CONSTANTS
  Handlers,     \* goroutines serving writes
  Sets,
  Before,       \* sets an earlier run may have left in the catalogue
  Requests,     \* what clients send, by idempotency key: set, kind, ret, meta
  DefaultRet,   \* Config.Retention: 0 keeps everything
  Durable,      \* Config.Durability is not batch
  MaxSets,      \* Config.MaxSets
  IdemMax,      \* the size of the idempotency cache
  MaxRequest, MaxBuffered, MaxSlots,  \* the limits of the API
  MaxTry,       \* bound on attempts
  MaxEvent      \* bound on drops, sweeps, fetches, flushes, expiries, failures
                \* and stops

Keys == DOMAIN Requests
Undeclared == -1  \* a retention nobody declared; 0 declared keeps everything

ASSUME CatalogueAssumption ==
  /\ Before \subseteq Sets
  /\ Handlers \cap {"admin", "sweep", "tick"} = {}
  /\ \A k \in Keys : Requests[k] \in [set : Sets, kind : {"label", "field"},
                                      ret : Nat \cup {Undeclared}, meta : {"", "unit", "bad"}]
  /\ DefaultRet \in Nat /\ Durable \in BOOLEAN
  /\ MaxSets \in Nat \ {0} /\ IdemMax \in Nat \ {0} /\ MaxSlots \in Nat \ {0}
  /\ MaxRequest \in Nat \ {0, 1} /\ MaxBuffered \in Nat
  /\ MaxTry \in Nat /\ MaxEvent \in Nat

\* The admin's drop, the sweep and the ticker are processes of their own.
Procs == Handlers \cup {"admin", "sweep", "tick"}

VARIABLES
  cat,      \* Store.catalogue
  over,     \* Store.setRetention
  ver,      \* Store.catVer
  idem,     \* idempotencyCache: the committed keys
  claims,   \* idempotencyCache.inflight
  disk,     \* what the engine holds: the catalogue record and the rows
  safe,     \* what a crash would leave of it
  state,    \* open, closing or down
  op,       \* where each process is
  bytes, slots,   \* API.bodyBytes and API.writeSlots
  held,     \* what each handler owes back to bytes
  copy,     \* the catalogue a client has cached, with its ETag
  promised, \* rows of requests answered 200 and not removed since
  lasting,  \* those answered as durable
  orphaned, \* rows whose description was forgotten
  unsaved,  \* sets whose entry the last stop did not leave on disk as it was
  tries, events

vars == <<cat, over, ver, idem, claims, disk, safe, state, op, bytes, slots, held,
          copy, promised, lasting, orphaned, unsaved, tries, events>>

NoEntry == [on |-> FALSE, ret |-> Undeclared, cols |-> {}, meta |-> ""]
NoRec == [ver |-> 0, cat |-> [s \in Sets |-> NoEntry]]
Idle == [at |-> "idle", key |-> "", set |-> "", from |-> 0, snap |-> NoRec]

Snapshot == [ver |-> ver, cat |-> cat]
Known == {s \in Sets : cat[s].on}
Goto(p, at) == op' = [op EXCEPT ![p].at = at]
Done(p) == op' = [op EXCEPT ![p] = Idle]
Req(p) == Requests[op[p].key]
RowsIn(s) == {r \in disk.rows : r.set = s}
RowFor(k) == [key |-> k, set |-> Requests[k].set, kind |-> Requests[k].kind]

Event == events < MaxEvent /\ events' = events + 1

\* A write to the engine; with a write-ahead log a crash of the process keeps it.
WriteTo(d) ==
  /\ disk' = d
  /\ safe' = IF Durable THEN d ELSE safe

idemVars == <<idem, claims>>
apiVars == <<bytes, slots, held>>
ghosts == <<promised, lasting, orphaned, unsaved>>
bounds == <<tries, events>>

-----------------------------------------------------------------------------
(* handleWrite: admission.                                                 *)

\* readBody: the whole limit is reserved for a body whose length is not known.
Arrive(h, k) ==
  /\ state # "down"
  /\ op[h].at = "idle" /\ tries < MaxTry
  /\ bytes + MaxRequest <= MaxBuffered
  /\ bytes' = bytes + MaxRequest
  /\ held' = [held EXCEPT ![h] = MaxRequest]
  /\ op' = [op EXCEPT ![h] = [Idle EXCEPT !.at = "body", !.key = k]]
  /\ tries' = tries + 1
  /\ UNCHANGED <<cat, over, ver, idemVars, disk, safe, state, slots, copy, ghosts, events>>

\* The reservation is corrected to what the body turned out to be.
Hold(h, n) ==
  /\ bytes' = bytes + n - held[h]
  /\ held' = [held EXCEPT ![h] = n]

TakeSlot ==
  /\ slots < MaxSlots
  /\ slots' = slots + 1

\* A write slot, or the request is shed; then enterEngine.
Admit(h) ==
  /\ op[h].at = "body"
  /\ \/ /\ state = "open"
        /\ TakeSlot
        /\ \E n \in 1 .. MaxRequest - 1 : Hold(h, n)
        /\ Goto(h, "claim")
     \/ /\ slots = MaxSlots \/ state # "open"
        /\ Hold(h, 0)
        /\ Done(h)
        /\ UNCHANGED slots
  /\ UNCHANGED <<cat, over, ver, idemVars, disk, safe, state, copy, ghosts, bounds>>

\* The deferred calls of handleWrite.
Leave(h) ==
  /\ Hold(h, 0)
  /\ slots' = slots - 1
  /\ Done(h)

-----------------------------------------------------------------------------
(* Store.Write.                                                            *)

\* What a request declares is applied in this order.
First(k) == CASE Requests[k].meta # "" -> "fields"
              [] Requests[k].ret # Undeclared -> "room"
              [] OTHER -> "declared"

\* Mutant: retries of one key do not wait for each other.
ClaimAtOnce(h) ==
  LET k == op[h].key IN
  /\ op[h].at = "claim"
  /\ claims' = claims \cup {k}
  /\ op' = [op EXCEPT ![h].at = IF k \in idem THEN "seen" ELSE First(k), ![h].from = ver]
  /\ UNCHANGED <<cat, over, ver, idem, disk, safe, state, apiVars, copy, ghosts, bounds>>

\* acquire and seen.
Claim(h) ==
  LET k == op[h].key IN
  /\ op[h].at = "claim"
  /\ k \notin claims
  /\ claims' = claims \cup {k}
  /\ op' = [op EXCEPT ![h].at = IF k \in idem THEN "seen" ELSE First(k), ![h].from = ver]
  /\ UNCHANGED <<cat, over, ver, idem, disk, safe, state, apiVars, copy, ghosts, bounds>>

\* A failed write gives its key back without recording it.
GiveUp(h) ==
  /\ claims' = claims \ {op[h].key}
  /\ Leave(h)

Refuse(h) ==
  /\ GiveUp(h)
  /\ UNCHANGED <<cat, over, ver, idem, disk, safe, state, copy, ghosts, bounds>>

\* Declarations are looked at before any of them is applied.
Malformed(r) == r.meta = "bad"

Room(r) == cat[r.set].on \/ Cardinality(Known) < MaxSets

\* applyFieldMeta: budget, merge and version under one lock; last writer wins.
DeclareFields(h) ==
  LET r == Req(h)
      e == cat[r.set]
      new == [e EXCEPT !.on = TRUE, !.meta = r.meta]
  IN
  /\ op[h].at = "fields"
  /\ ~Malformed(r) /\ Room(r)
  /\ cat' = [cat EXCEPT ![r.set] = new]
  /\ ver' = IF new # e THEN ver + 1 ELSE ver
  /\ Goto(h, IF r.ret # Undeclared THEN "room" ELSE "declared")
  /\ UNCHANGED <<over, idemVars, disk, safe, state, apiVars, copy, ghosts, bounds>>

FieldsRefused(h) ==
  /\ op[h].at = "fields"
  /\ Malformed(Req(h)) \/ ~Room(Req(h))
  /\ Refuse(h)

\* applySetMeta: the room is looked at under a lock of its own.
DeclareRoom(h) ==
  /\ op[h].at = "room"
  /\ Room(Req(h))
  /\ Goto(h, "over")
  /\ UNCHANGED <<cat, over, ver, idemVars, disk, safe, state, apiVars, copy, ghosts, bounds>>

RoomRefused(h) ==
  /\ op[h].at = "room"
  /\ ~Room(Req(h))
  /\ Refuse(h)

\* SetRetentionFor: the override, then the entry, then the version.
DeclareOver(h) ==
  /\ op[h].at = "over"
  /\ over' = [over EXCEPT ![Req(h).set] = Req(h).ret]
  /\ Goto(h, "entry")
  /\ UNCHANGED <<cat, ver, idemVars, disk, safe, state, apiVars, copy, ghosts, bounds>>

DeclareEntry(h) ==
  LET r == Req(h)
      new == [cat[r.set] EXCEPT !.on = TRUE, !.ret = r.ret]
  IN
  /\ op[h].at = "entry"
  /\ cat' = [cat EXCEPT ![r.set] = new]
  /\ Goto(h, IF new # cat[r.set] THEN "bump" ELSE "declared")
  /\ UNCHANGED <<over, ver, idemVars, disk, safe, state, apiVars, copy, ghosts, bounds>>

\* catVer.Add after the lock is released.
AfterBump(p) == IF p \in Handlers THEN "declared" ELSE IF p = "admin" THEN "gate" ELSE "save"

Bump(p) ==
  /\ op[p].at = "bump"
  /\ ver' = ver + 1
  /\ Goto(p, AfterBump(p))
  /\ UNCHANGED <<cat, over, idemVars, disk, safe, state, apiVars, copy, ghosts, bounds>>

\* A declaration that changed the catalogue is saved now.
Declared(h) ==
  /\ op[h].at = "declared"
  /\ op' = [op EXCEPT ![h].at = IF ver # op[h].from THEN "save" ELSE "check", ![h].from = 0]
  /\ UNCHANGED <<cat, over, ver, idemVars, disk, safe, state, apiVars, copy, ghosts, bounds>>

\* saveCatalogue: the record is made under the lock and written after it.
SaveSnap(p) ==
  /\ op[p].at = "save"
  /\ op' = [op EXCEPT ![p].at = "put", ![p].snap = Snapshot]
  /\ UNCHANGED <<cat, over, ver, idemVars, disk, safe, state, apiVars, copy, ghosts, bounds>>

\* A save that fails is logged.
SavePut(p) ==
  /\ op[p].at = "put"
  /\ \/ /\ WriteTo([disk EXCEPT !.rec = op[p].snap])
        /\ UNCHANGED events
     \/ /\ Event
        /\ UNCHANGED <<disk, safe>>
  /\ IF p \in Handlers THEN op' = [op EXCEPT ![p].at = "check", ![p].snap = NoRec]
                       ELSE Done(p)
  /\ UNCHANGED <<cat, over, ver, idemVars, state, apiVars, copy, ghosts, tries>>

\* checkColumnNamespace and catalogueRoom; a refused sample is named in the answer.
Rejected(r) ==
  \/ cat[r.set].cols \ {r.kind} # {}
  \/ ~Room(r)

Check(h) ==
  /\ op[h].at = "check"
  /\ Goto(h, IF Rejected(Req(h)) THEN "reply" ELSE "row")
  /\ UNCHANGED <<cat, over, ver, idemVars, disk, safe, state, apiVars, copy, ghosts, bounds>>

PutBatch(h) ==
  /\ op[h].at = "row"
  /\ WriteTo([disk EXCEPT !.rows = @ \cup {RowFor(op[h].key)}])
  /\ Goto(h, "observe")
  /\ UNCHANGED <<cat, over, ver, idemVars, state, apiVars, copy, ghosts, bounds>>

PutFails(h) ==
  /\ op[h].at = "row"
  /\ Event
  /\ GiveUp(h)
  /\ UNCHANGED <<cat, over, ver, idem, disk, safe, state, copy, ghosts, tries>>

\* Mutant: only a set the catalogue does not know is looked at.
ObserveNew(h) ==
  LET r == Req(h)
      e == cat[r.set]
      new == IF e.on THEN e ELSE [e EXCEPT !.on = TRUE, !.cols = @ \cup {r.kind}]
  IN
  /\ op[h].at = "observe"
  /\ cat' = [cat EXCEPT ![r.set] = new]
  /\ ver' = IF new.cols # e.cols THEN ver + 1 ELSE ver
  /\ orphaned' = {o \in orphaned : o.set # r.set \/ o.kind # r.kind}
  /\ Goto(h, "reply")
  /\ UNCHANGED <<over, idemVars, disk, safe, state, apiVars, copy, promised, lasting, unsaved, bounds>>

\* Mutant: the version stands still.
ObserveQuietly(h) ==
  LET r == Req(h) IN
  /\ op[h].at = "observe"
  /\ cat' = [cat EXCEPT ![r.set].on = TRUE, ![r.set].cols = @ \cup {r.kind}]
  /\ orphaned' = {o \in orphaned : o.set # r.set \/ o.kind # r.kind}
  /\ Goto(h, "reply")
  /\ UNCHANGED <<over, ver, idemVars, disk, safe, state, apiVars, copy, promised, lasting, unsaved, bounds>>

\* observeSet: the version moves under the lock, and for the schema only.
Observe(h) ==
  LET r == Req(h)
      e == cat[r.set]
      new == [e EXCEPT !.on = TRUE, !.cols = @ \cup {r.kind}]
  IN
  /\ op[h].at = "observe"
  /\ cat' = [cat EXCEPT ![r.set] = new]
  /\ ver' = IF new.cols # e.cols THEN ver + 1 ELSE ver
  /\ orphaned' = {o \in orphaned : o.set # r.set \/ o.kind # r.kind}
  /\ Goto(h, "reply")
  /\ UNCHANGED <<over, idemVars, disk, safe, state, apiVars, copy, promised, lasting, unsaved, bounds>>

\* idempotencyCache.record: past its size the cache forgets old keys.  The claim is
\* still held, so nobody can tell this step from the answer.
Record(h) ==
  LET all == idem \cup {op[h].key} IN
  idem' \in IF op[h].at = "seen" THEN {idem}
            ELSE IF Cardinality(all) <= IdemMax THEN {all}
            ELSE {S \in SUBSET all : Cardinality(S) = IdemMax /\ op[h].key \in S}

\* idempotencyWindow.
Expire(k) ==
  /\ k \in idem /\ Event
  /\ idem' = idem \ {k}
  /\ UNCHANGED <<cat, over, ver, claims, disk, safe, state, op, apiVars, copy, ghosts, tries>>

\* Mutant: a client that asks for durability is answered like the others.
ReplyUnflushed(h) ==
  LET mine == {RowFor(op[h].key)} \cap disk.rows IN
  /\ op[h].at \in {"seen", "reply"}
  /\ Record(h)
  /\ GiveUp(h)
  /\ promised' = promised \cup mine
  /\ lasting' = lasting \cup mine
  /\ UNCHANGED <<cat, over, ver, disk, safe, state, copy, orphaned, unsaved, bounds>>

\* The answer.  A client that asked for durability waits for a flush where the
\* engine keeps no log; if the flush fails it is told to come back.
Reply(h) ==
  LET mine == {RowFor(op[h].key)} \cap disk.rows IN
  /\ op[h].at \in {"seen", "reply"}
  /\ Record(h)
  /\ \/ /\ promised' = promised \cup mine
        /\ lasting' = IF Durable THEN lasting \cup mine ELSE lasting
        /\ UNCHANGED <<safe, events>>
     \/ /\ ~Durable /\ state = "open"
        /\ safe' = disk
        /\ promised' = promised \cup mine /\ lasting' = lasting \cup mine
        /\ UNCHANGED events
     \/ /\ ~Durable
        /\ Event \/ (state # "open" /\ UNCHANGED events)
        /\ UNCHANGED <<safe, promised, lasting>>
  /\ GiveUp(h)
  /\ UNCHANGED <<cat, over, ver, disk, state, copy, orphaned, unsaved, tries>>

-----------------------------------------------------------------------------
(* Maintenance.                                                            *)

Begin(p, s, at) ==
  /\ state = "open" /\ op[p] = Idle
  /\ op' = [op EXCEPT ![p] = [Idle EXCEPT !.at = at, !.set = s]]

Remove(s, gone) ==
  /\ WriteTo([disk EXCEPT !.rows = @ \ gone])
  /\ promised' = promised \ gone
  /\ lasting' = lasting \ gone

\* handleDropSet, DropShards.
Drop(s) ==
  /\ Event
  /\ RowsIn(s) # {} \/ cat[s].on
  /\ Begin("admin", s, "forget")
  /\ Remove(s, RowsIn(s))
  /\ UNCHANGED <<cat, over, ver, idemVars, state, apiVars, copy, orphaned, unsaved, tries>>

\* retentionFor.
RetentionFor(s) == IF over[s] # Undeclared THEN over[s] ELSE DefaultRet

\* RunRetention: the shards of a set that are past its horizon.
Sweep(s, gone) ==
  /\ Event
  /\ RetentionFor(s) > 0 /\ gone # {}
  /\ Begin("sweep", s, "live")
  /\ Remove(s, gone)
  /\ UNCHANGED <<cat, over, ver, idemVars, state, apiVars, copy, orphaned, unsaved, tries>>

\* If some remain the observed start may have to be raised; else the set has aged out.
SweepLive ==
  /\ op["sweep"].at = "live"
  /\ IF RowsIn(op["sweep"].set) = {} THEN Goto("sweep", "forget")
                                     ELSE Goto("sweep", "bump") \/ Done("sweep")
  /\ UNCHANGED <<cat, over, ver, idemVars, disk, safe, state, apiVars, copy, ghosts, bounds>>

\* ForgetSet removes the entry, forgetAgedSet keeps what was declared of the set;
\* `from` says whether the version has to move for it.
Forget(p) ==
  LET s == op[p].set
      kept == p = "sweep" /\ cat[s].ret # Undeclared
      new == IF kept THEN [cat[s] EXCEPT !.cols = {}, !.meta = ""] ELSE NoEntry
      next == CASE ~kept /\ (p = "admin" \/ cat[s].on) -> "unset"
                [] kept /\ new # cat[s] -> "bump"
                [] OTHER -> "idle"
  IN
  /\ op[p].at = "forget"
  /\ cat' = [cat EXCEPT ![s] = new]
  /\ orphaned' = orphaned \cup RowsIn(s)
  /\ unsaved' = IF state = "down" THEN unsaved \cup {s} ELSE unsaved
  /\ op' = [op EXCEPT ![p] = IF next = "idle" THEN Idle
                             ELSE [@ EXCEPT !.at = next, !.from = IF cat[s].on THEN 1 ELSE 0]]
  /\ UNCHANGED <<over, ver, idemVars, disk, safe, state, apiVars, copy, promised, lasting, bounds>>

\* The overrides are under another lock.  An admin's drop of what nobody knew or
\* declared leaves the version alone.
Unset(p) ==
  LET s == op[p].set IN
  /\ op[p].at = "unset"
  /\ over' = [over EXCEPT ![s] = Undeclared]
  /\ Goto(p, IF op[p].from = 1 \/ over[s] # Undeclared THEN "bump" ELSE AfterBump(p))
  /\ UNCHANGED <<cat, ver, idemVars, disk, safe, state, apiVars, copy, ghosts, bounds>>

\* SaveCatalogue: a store that is closing refuses, and handleDropSet logs it.
Gate ==
  /\ op["admin"].at = "gate"
  /\ IF state = "open" THEN Goto("admin", "save") ELSE Done("admin")
  /\ UNCHANGED <<cat, over, ver, idemVars, disk, safe, state, apiVars, copy, ghosts, bounds>>

\* The thirty-second ticker, and the quiesce of the admin.
Tick ==
  /\ Snapshot # disk.rec
  /\ state = "open" /\ op["tick"] = Idle
  /\ op' = [op EXCEPT !["tick"] = [Idle EXCEPT !.at = "save"]]
  /\ UNCHANGED <<cat, over, ver, idemVars, disk, safe, state, apiVars, copy, ghosts, bounds>>

\* The engine flushes its memory tables when it likes.
Flush ==
  /\ state # "down" /\ safe # disk /\ Event
  /\ safe' = disk
  /\ UNCHANGED <<cat, over, ver, idemVars, disk, state, op, apiVars, copy, ghosts, tries>>

\* handleCatalogue: not modified while the tag matches.  Retention is not part of what
\* it shows.
Shown == [s \in Sets |-> [on |-> cat[s].on, cols |-> cat[s].cols, meta |-> cat[s].meta]]

Fetch ==
  /\ state # "down" /\ copy.ver # ver /\ Event
  /\ copy' = [ver |-> ver, body |-> Shown]
  /\ UNCHANGED <<cat, over, ver, idemVars, disk, safe, state, op, apiVars, ghosts, tries>>

-----------------------------------------------------------------------------
(* Close, crash and Open.                                                  *)

\* From here on enterEngine refuses.
Close ==
  /\ state = "open"
  /\ state' = "closing"
  /\ UNCHANGED <<cat, over, ver, idemVars, disk, safe, op, apiVars, copy, ghosts, bounds>>

\* enterEngine.  Of the admin's drop only DropShards and the save are inside.
InEngine(p) ==
  /\ op[p].at \notin {"idle", "body"}
  /\ ~(p = "admin" /\ op[p].at \in {"forget", "unset", "bump", "gate"})

\* Mutant: nothing is waited for.
CloseSaveAtOnce ==
  /\ state = "closing"
  /\ disk' = [disk EXCEPT !.rec = Snapshot]
  /\ unsaved' = {}
  /\ safe' = disk'
  /\ state' = "down"
  /\ UNCHANGED <<cat, over, ver, idemVars, op, apiVars, copy, promised, lasting, orphaned, bounds>>

\* drainEngine, the last save, whose failure is logged, and the engine's own Close.
CloseSave ==
  /\ state = "closing"
  /\ \A p \in Procs : ~InEngine(p)
  /\ \/ disk' = [disk EXCEPT !.rec = Snapshot] /\ unsaved' = {}
     \/ disk' = disk /\ unsaved' = Sets
  /\ safe' = disk'
  /\ state' = "down"
  /\ UNCHANGED <<cat, over, ver, idemVars, op, apiVars, copy, promised, lasting, orphaned, bounds>>

\* Nothing of the process is left.
Gone ==
  /\ idem' = {} /\ claims' = {}
  /\ op' = [p \in Procs |-> Idle]
  /\ bytes' = 0 /\ slots' = 0 /\ held' = [h \in Handlers |-> 0]

Crash ==
  /\ state # "down" /\ Event
  /\ state' = "down"
  /\ disk' = safe
  /\ cat' = safe.rec.cat /\ ver' = safe.rec.ver
  /\ promised' = promised \cap safe.rows
  /\ orphaned' = safe.rows
  /\ unsaved' = {}
  /\ Gone
  /\ UNCHANGED <<over, safe, copy, lasting, tries>>

\* loadCatalogue; what clients cached before is not followed.  Rows of a set whose entry
\* was not saved may have lost their description.
Open ==
  /\ state = "down"
  /\ state' = "open"
  /\ cat' = disk.rec.cat /\ ver' = disk.rec.ver
  /\ over' = [s \in Sets |-> disk.rec.cat[s].ret]
  /\ Gone
  /\ copy' = [ver |-> ver', body |-> Shown']
  /\ orphaned' = orphaned \cup {r \in disk.rows : r.set \in unsaved}
  /\ unsaved' = {}
  /\ UNCHANGED <<disk, safe, promised, lasting, bounds>>

Init ==
  /\ \E old \in SUBSET Before : cat = [s \in Sets |-> [NoEntry EXCEPT !.on = s \in old]]
  /\ ver = 0
  /\ over = [s \in Sets |-> Undeclared]
  /\ idem = {} /\ claims = {}
  /\ disk = [rec |-> Snapshot, rows |-> {}] /\ safe = disk
  /\ state = "open"
  /\ op = [p \in Procs |-> Idle]
  /\ bytes = 0 /\ slots = 0 /\ held = [h \in Handlers |-> 0]
  /\ copy = [ver |-> 0, body |-> Shown]
  /\ promised = {} /\ lasting = {} /\ orphaned = {} /\ unsaved = {}
  /\ tries = 0 /\ events = 0

Write(h) ==
  \/ Admit(h) \/ Claim(h)
  \/ DeclareFields(h) \/ FieldsRefused(h)
  \/ DeclareRoom(h) \/ RoomRefused(h)
  \/ DeclareOver(h) \/ DeclareEntry(h) \/ Declared(h)
  \/ Check(h) \/ PutBatch(h) \/ PutFails(h) \/ Observe(h) \/ Reply(h)

Next ==
  \/ \E h \in Handlers : Write(h) \/ \E k \in Keys : Arrive(h, k)
  \/ \E p \in Procs : Bump(p) \/ SaveSnap(p) \/ SavePut(p) \/ Forget(p) \/ Unset(p)
  \/ \E s \in Sets : Drop(s) \/ \E gone \in SUBSET RowsIn(s) : Sweep(s, gone)
  \/ \E k \in Keys : Expire(k)
  \/ SweepLive \/ Gate \/ Tick \/ Flush \/ Fetch
  \/ Close \/ CloseSave \/ Crash \/ Open

Spec == Init /\ [][Next]_vars

-----------------------------------------------------------------------------
(* Properties.                                                             *)

Writing == {"fields", "room", "over", "entry", "bump", "declared", "save", "put",
            "check", "row", "observe", "reply"}

\* A request is written by one handler at a time and never again while its key is
\* remembered: a retry that crossed with its own success does not write twice.
NeverTwice ==
  \A h, g \in Handlers :
    /\ op[h].at \in Writing => op[h].key \notin idem
    /\ op[h].at \in Writing /\ op[g].at \in Writing /\ op[h].key = op[g].key => h = g

\* A row whose request was answered 200, "duplicate" included, is there until a drop
\* or the retention removes it; if the answer said durable, a crash leaves it too.
AnsweredKept == promised \subseteq disk.rows /\ lasting \subseteq safe.rows

\* The catalogue describes every row of an answered request, unless its entry was
\* forgotten behind the write, or a crash or a last save that failed has lost it.
Described ==
  \A r \in promised : r \in orphaned \/ r.kind \in cat[r.set].cols

\* A client whose ETag is still the current one has the current catalogue, once the
\* change in progress has moved the version.
ETagHonest ==
  state # "down" /\ copy.ver = ver /\ (\A p \in Procs : op[p].at \notin {"bump", "unset"})
    => copy.body = Shown

\* An orderly stop leaves all rows on disk, and each entry of the catalogue as it was in
\* memory, whatever calls the stop crossed with.  Excepted are an entry that an admin's
\* drop removes only after the last save, and a last save that fails.
CleanStop ==
  state = "down" => /\ safe = disk
                    /\ \A s \in Sets \ unsaved : disk.rec.cat[s] = cat[s]

=============================================================================
