-------------------------- MODULE CatalogueProofs ---------------------------
(***************************************************************************)
(* Proofs about Catalogue, for any handlers, sets, requests and limits.    *)
(***************************************************************************)
EXTENDS Catalogue, TLAPS

-----------------------------------------------------------------------------
(* The inductive invariant.                                                *)

Kinds == {"label", "field"}
Rets == Nat \cup {Undeclared}
Entry == [on : BOOLEAN, ret : Rets, cols : SUBSET Kinds, meta : {"", "unit", "bad"}]

\* An entry that is not there says nothing.
Cat == {c \in [Sets -> Entry] : \A s \in Sets : ~c[s].on => c[s] = NoEntry}
Rec == [ver : Nat, cat : Cat]
Row == [key : Keys, set : Sets, kind : Kinds]
Disk == [rec : Rec, rows : SUBSET Row]
Steps == Writing \cup {"idle", "body", "claim", "seen", "forget", "unset", "live", "gate"}
Op == [at : Steps, key : Keys \cup {""}, set : Sets \cup {""}, from : Nat, snap : Rec]

Types ==
  /\ cat \in Cat /\ ver \in Nat
  /\ idem \subseteq Keys /\ claims \subseteq Keys
  /\ disk \in Disk /\ safe \in Disk
  /\ state \in {"open", "closing", "down"}
  /\ op \in [Procs -> Op]
  /\ copy.ver \in Nat

\* Where a process can be, and what it then has in hand.
PlaceOK(p, j) ==
  /\ p \in Handlers => /\ j.at \in Writing \cup {"idle", "body", "claim", "seen"}
                       /\ j.at # "idle" => j.key \in Keys
  /\ p \notin Handlers => /\ j.at \in {"idle", "forget", "live", "unset", "bump", "gate", "save", "put"}
                          /\ j.at \in {"forget", "live", "unset"} => j.set \in Sets
Places == \A p \in Procs : PlaceOK(p, op[p])

\* Who has a key has claimed it, alone, and has not found it recorded.
Claiming(j) == j.at \in Writing \cup {"seen"}
ClaimsOK ==
  /\ \A h \in Handlers : Claiming(op[h]) => op[h].key \in claims
  /\ \A h, g \in Handlers : Claiming(op[h]) /\ Claiming(op[g]) /\ op[h].key = op[g].key => h = g
  /\ \A h \in Handlers : op[h].at \in Writing => op[h].key \notin idem

KeptOK ==
  /\ promised \subseteq disk.rows
  /\ lasting \subseteq promised /\ lasting \subseteq safe.rows
  /\ Durable => safe = disk

\* A row is described, or its writer is about to; one that was answered for is.
DescribedOK ==
  /\ Described
  /\ \A r \in disk.rows :
       \/ r \in orphaned \/ r.kind \in cat[r.set].cols
       \/ \E h \in Handlers : op[h].at = "observe" /\ r = RowFor(op[h].key)

Bumping(j) == j.at = "bump" \/ (j.at = "unset" /\ j.from = 1)
TagOK ==
  state # "down" =>
    /\ copy.ver <= ver
    /\ copy.ver = ver /\ (\A p \in Procs : ~Bumping(op[p])) => copy.body = Shown

StopOK == state = "down" => /\ safe = disk
                            /\ \A s \in Sets \ unsaved : disk.rec.cat[s] = cat[s]
                            /\ \A p \in Procs : ~InEngine(p)

IInv ==
  /\ Types
  /\ Places
  /\ ClaimsOK
  /\ KeptOK
  /\ DescribedOK
  /\ TagOK
  /\ StopOK

-----------------------------------------------------------------------------
(* Lemmas: what a step of one process leaves alone.                        *)

Only(p) == op' \in [Procs -> Op] /\ \A q \in Procs \ {p} : op'[q] = op[q]

LEMMA ProcFacts ==
  /\ "admin" \in Procs /\ "sweep" \in Procs /\ "tick" \in Procs
  /\ "admin" \notin Handlers /\ "sweep" \notin Handlers /\ "tick" \notin Handlers
  /\ \A h \in Handlers : h \in Procs
BY CatalogueAssumption DEF Procs

LEMMA NoEntryFacts ==
  /\ NoEntry \in Entry /\ ~NoEntry.on /\ NoEntry.cols = {} /\ NoEntry.meta = ""
  /\ NoEntry.ret = Undeclared /\ NoRec \in Rec
<1>1. NoEntry \in Entry /\ ~NoEntry.on /\ NoEntry.cols = {} /\ NoEntry.meta = ""
      /\ NoEntry.ret = Undeclared
  BY DEF NoEntry, Entry, Kinds, Rets
<1>2. [s \in Sets |-> NoEntry] \in Cat BY <1>1 DEF Cat
<1> QED BY <1>1, <1>2 DEF NoRec, Rec

LEMMA IdleFacts ==
  /\ Idle \in Op /\ Idle.at = "idle"
  /\ \A p \in Procs : PlaceOK(p, Idle)
<1>1. Idle \in Op /\ Idle.at = "idle" BY NoEntryFacts DEF Idle, Op, Steps
<1> QED BY <1>1 DEF PlaceOK

LEMMA GotoFacts ==
  ASSUME Types, NEW p \in Procs, NEW a \in Steps, Goto(p, a)
  PROVE  /\ Only(p)
         /\ op'[p].at = a /\ op'[p].key = op[p].key /\ op'[p].set = op[p].set
         /\ op'[p].from = op[p].from /\ op'[p].snap = op[p].snap
<1>1. op \in [Procs -> Op] /\ op[p] \in Op BY DEF Types
<1> QED BY <1>1 DEF Goto, Op, Only

LEMMA DoneFacts ==
  ASSUME Types, NEW p \in Procs, Done(p)
  PROVE  Only(p) /\ op'[p] = Idle
BY IdleFacts DEF Types, Done, Only

LEMMA RequestFacts ==
  ASSUME NEW k \in Keys
  PROVE  /\ Requests[k].set \in Sets /\ Requests[k].kind \in Kinds /\ Requests[k].ret \in Rets
         /\ Requests[k].meta \in {"", "unit", "bad"}
         /\ RowFor(k) \in Row /\ RowFor(k).key = k /\ RowFor(k).set = Requests[k].set
         /\ RowFor(k).kind = Requests[k].kind
BY CatalogueAssumption DEF RowFor, Row, Kinds, Rets

LEMMA PlacesFrame ==
  ASSUME Places, NEW p \in Procs, Only(p), PlaceOK(p, op'[p])
  PROVE  Places'
<1> SUFFICES ASSUME NEW q \in Procs, q # p PROVE PlaceOK(q, op[q])'
  BY DEF Places, PlaceOK
<1>1. op'[q] = op[q] /\ PlaceOK(q, op[q]) BY DEF Only, Places
<1> QED BY <1>1 DEF PlaceOK

\* The keys stay with those who have them.
LEMMA ClaimsFrame ==
  ASSUME ClaimsOK, NEW p \in Procs, Only(p), idem' \subseteq idem, UNCHANGED claims,
         p \in Handlers => /\ Claiming(op'[p]) => Claiming(op[p]) /\ op'[p].key = op[p].key
                           /\ op'[p].at \in Writing => op[p].at \in Writing
  PROVE  ClaimsOK'
<1>1. \A h \in Handlers : /\ Claiming(op'[h]) => Claiming(op[h]) /\ op'[h].key = op[h].key
                          /\ op'[h].at \in Writing => op[h].at \in Writing
  BY ProcFacts DEF Only
<1>2. \A h \in Handlers : op'[h].at \in Writing => Claiming(op'[h]) BY DEF Claiming
<1>3. \A h \in Handlers : Claiming(op[h])' <=> Claiming(op'[h]) BY DEF Claiming
<1> QED BY <1>1, <1>2, <1>3 DEF ClaimsOK

\* A key is given back, recorded or not.
LEMMA ReleaseFrame ==
  ASSUME ClaimsOK, NEW h \in Handlers, Only(h), op'[h] = Idle, Claiming(op[h]),
         claims' = claims \ {op[h].key}, idem' \subseteq idem \cup {op[h].key}
  PROVE  ClaimsOK'
<1>1. ~Claiming(op'[h]) BY IdleFacts DEF Claiming, Writing
<1>2. \A g \in Handlers : Claiming(op'[g]) => g # h /\ op'[g] = op[g] /\ Claiming(op[g]) /\ op[g].key # op[h].key
  BY <1>1, ProcFacts DEF Only, ClaimsOK
<1>3. \A g \in Handlers : op'[g].at \in Writing => Claiming(op'[g]) BY DEF Claiming
<1>4. \A g \in Handlers : Claiming(op[g])' <=> Claiming(op'[g]) BY DEF Claiming
<1> QED BY <1>2, <1>3, <1>4 DEF ClaimsOK

LEMMA DescribedFrame ==
  ASSUME DescribedOK, NEW p \in Procs, Only(p), op[p].at # "observe", disk'.rows \subseteq disk.rows,
         promised' \subseteq promised,
         \A r \in disk'.rows \cup promised' :
           /\ r \in orphaned => r \in orphaned'
           /\ r.kind \in cat[r.set].cols => r \in orphaned' \/ r.kind \in cat'[r.set].cols
  PROVE  DescribedOK'
<1>a. Described' BY DEF DescribedOK, Described
<1> SUFFICES ASSUME NEW r \in disk'.rows
             PROVE  \/ r \in orphaned' \/ r.kind \in cat'[r.set].cols
                    \/ \E h \in Handlers : op'[h].at = "observe" /\ r = RowFor(op[h].key)'
  BY <1>a DEF DescribedOK
<1>1. CASE \E h \in Handlers : op[h].at = "observe" /\ r = RowFor(op[h].key)
  <2> PICK h \in Handlers : op[h].at = "observe" /\ r = RowFor(op[h].key) BY <1>1
  <2>1. h # p /\ op'[h] = op[h] BY ProcFacts DEF Only
  <2> QED BY <2>1 DEF RowFor
<1> QED BY <1>1 DEF DescribedOK

\* A change of what a client is shown moves the version or is about to.
LEMMA TagFrame ==
  ASSUME Types, TagOK, NEW p \in Procs, Only(p), UNCHANGED <<copy, state>>,
         \/ ver' = ver + 1
         \/ ver' = ver /\ Bumping(op'[p])
         \/ ver' = ver /\ Shown' = Shown /\ ~Bumping(op[p])
  PROVE  TagOK'
<1> SUFFICES ASSUME state # "down"
             PROVE  /\ copy.ver <= ver'
                    /\ copy.ver = ver' /\ (\A q \in Procs : ~Bumping(op[q])') => copy.body = Shown'
  BY DEF TagOK
<1>1. copy.ver <= ver /\ copy.ver \in Nat /\ ver \in Nat BY DEF TagOK, Types
<1>2. CASE ver' = ver + 1 BY <1>1, <1>2
<1>3. CASE ver' = ver /\ Bumping(op'[p]) BY <1>1, <1>3 DEF Bumping
<1>4. CASE ver' = ver /\ Shown' = Shown /\ ~Bumping(op[p])
  <2>1. ASSUME \A q \in Procs : ~Bumping(op[q])' PROVE \A q \in Procs : ~Bumping(op[q])
    BY <2>1, <1>4 DEF Only, Bumping
  <2> QED BY <1>1, <1>4, <2>1 DEF TagOK
<1> QED BY <1>2, <1>3, <1>4

LEMMA StopFrame ==
  ASSUME StopOK, NEW p \in Procs, InEngine(p), UNCHANGED state
  PROVE  state # "down" /\ StopOK'
BY DEF StopOK

\* A step inside the engine that answers nobody.
LEMMA InnerStep ==
  ASSUME IInv, NEW p \in Procs, InEngine(p) \/ StopOK', Only(p), PlaceOK(p, op'[p]), Types',
         UNCHANGED <<idem, claims, state, copy, promised, lasting>>,
         p \in Handlers => /\ Claiming(op'[p]) => Claiming(op[p]) /\ op'[p].key = op[p].key
                           /\ op'[p].at \in Writing => op[p].at \in Writing,
         KeptOK', DescribedOK',
         \/ ver' = ver + 1
         \/ ver' = ver /\ Bumping(op'[p])
         \/ ver' = ver /\ Shown' = Shown /\ ~Bumping(op[p])
  PROVE  IInv'
<1>1. Places' BY PlacesFrame DEF IInv
<1>2. ClaimsOK' BY ClaimsFrame DEF IInv
<1>3. TagOK' BY TagFrame DEF IInv
<1>4. StopOK' BY StopFrame DEF IInv
<1> QED BY <1>1, <1>2, <1>3, <1>4 DEF IInv

LEMMA ShownStays ==
  ASSUME UNCHANGED cat
  PROVE  Shown' = Shown
BY DEF Shown

LEMMA KeptStays ==
  ASSUME KeptOK, UNCHANGED <<disk, safe, promised, lasting>>
  PROVE  KeptOK'
BY DEF KeptOK

\* A process moves on, and nothing else changes.
LEMMA QuietStep ==
  ASSUME IInv, NEW p \in Procs, Only(p), PlaceOK(p, op'[p]),
         UNCHANGED <<cat, ver, idem, claims, disk, safe, state, copy, promised, lasting, orphaned, unsaved>>,
         p \in Handlers => /\ Claiming(op'[p]) => Claiming(op[p]) /\ op'[p].key = op[p].key
                           /\ op'[p].at \in Writing => op[p].at \in Writing,
         op[p].at # "observe", ~Bumping(op[p]) \/ Bumping(op'[p]),
         state = "down" => op'[p].at \in {"idle", "body"} \/ (p = "admin" /\ op'[p].at \in {"bump", "gate"})
  PROVE  IInv'
<1>1. Types' BY DEF IInv, Types, Only
<1>2. Places' BY PlacesFrame DEF IInv
<1>3. ClaimsOK' BY ClaimsFrame DEF IInv
<1>4. KeptOK' BY KeptStays DEF IInv
<1>5. DescribedOK' BY DescribedFrame DEF IInv
<1>6. TagOK' BY TagFrame, ShownStays DEF IInv
<1>7. StopOK'
  <2>1. state = "down" => ~InEngine(p)' BY DEF InEngine
  <2>2. \A q \in Procs \ {p} : InEngine(q)' <=> InEngine(q) BY DEF InEngine, Only
  <2> QED BY <2>1, <2>2 DEF IInv, StopOK
<1> QED BY <1>1, <1>2, <1>3, <1>4, <1>5, <1>6, <1>7 DEF IInv

\* What a handler inside the engine has in hand.
LEMMA HandFacts ==
  ASSUME IInv, NEW h \in Handlers, op[h].at \notin {"idle", "body"}
  PROVE  /\ h \in Procs /\ InEngine(h) /\ state # "down" /\ op[h].key \in Keys
         /\ Req(h).set \in Sets /\ Req(h).kind \in Kinds /\ Req(h).ret \in Rets
         /\ Req(h).meta \in {"", "unit", "bad"}
         /\ cat[Req(h).set] \in Entry
<1>1. h \in Procs BY ProcFacts
<1>2. InEngine(h) BY ProcFacts DEF InEngine
<1>3. state # "down" BY <1>1, <1>2 DEF IInv, StopOK
<1>4. op[h].key \in Keys BY <1>1 DEF IInv, Places, PlaceOK
<1>5. /\ Req(h).set \in Sets /\ Req(h).kind \in Kinds /\ Req(h).ret \in Rets
      /\ Req(h).meta \in {"", "unit", "bad"}
  BY <1>4, RequestFacts DEF Req
<1>6. cat[Req(h).set] \in Entry BY <1>5 DEF IInv, Types, Cat
<1> QED BY <1>1, <1>2, <1>3, <1>4, <1>5, <1>6

-----------------------------------------------------------------------------
(* A write.                                                                *)

LEMMA ArriveStep ==
  ASSUME IInv, NEW h \in Handlers, NEW k \in Keys, Arrive(h, k)
  PROVE  IInv'
<1> USE ProcFacts
<1> DEFINE j == [Idle EXCEPT !.at = "body", !.key = k]
<1>1. /\ state # "down" /\ op[h].at = "idle" /\ op' = [op EXCEPT ![h] = j]
      /\ UNCHANGED <<cat, ver, idem, claims, disk, safe, state, copy, promised, lasting, orphaned, unsaved>>
  BY DEF Arrive, idemVars, ghosts
<1>2. j \in Op /\ j.at = "body" /\ j.key = k
  <2>1. Idle \in Op /\ "body" \in Steps BY IdleFacts DEF Steps
  <2> QED BY <2>1 DEF Op
<1> HIDE DEF j
<1>3. Only(h) /\ op'[h] = j BY <1>1, <1>2 DEF IInv, Types, Only
<1>4. PlaceOK(h, op'[h]) BY <1>2, <1>3 DEF PlaceOK
<1>5. ~Claiming(op'[h]) /\ op'[h].at \notin Writing /\ ~Bumping(op[h])
  BY <1>1, <1>2, <1>3 DEF Claiming, Writing, Bumping
<1> QED BY <1>1, <1>3, <1>4, <1>5, QuietStep

LEMMA AdmitStep ==
  ASSUME IInv, NEW h \in Handlers, Admit(h)
  PROVE  IInv'
<1> USE ProcFacts
<1>1. /\ op[h].at = "body"
      /\ (state = "open" /\ Goto(h, "claim")) \/ Done(h)
      /\ UNCHANGED <<cat, ver, idem, claims, disk, safe, state, copy, promised, lasting, orphaned, unsaved>>
  BY DEF Admit, idemVars, ghosts
<1>2. op[h].key \in Keys BY <1>1 DEF IInv, Places, PlaceOK
<1>3. /\ Only(h) /\ op'[h].at \in {"idle", "claim"} /\ (op'[h].at = "claim" => op'[h].key = op[h].key)
      /\ state = "down" => op'[h].at = "idle"
  <2>1. CASE state = "open" /\ Goto(h, "claim")
    <3>1. "claim" \in Steps BY DEF Steps
    <3> QED BY <2>1, <3>1, GotoFacts DEF IInv
  <2>2. CASE Done(h) BY <2>2, DoneFacts, IdleFacts DEF IInv
  <2> QED BY <2>1, <2>2, <1>1
<1>4. PlaceOK(h, op'[h]) BY <1>2, <1>3 DEF PlaceOK
<1>5. ~Claiming(op'[h]) /\ op'[h].at \notin Writing /\ ~Bumping(op[h])
  BY <1>1, <1>3 DEF Claiming, Writing, Bumping
<1> QED BY <1>1, <1>3, <1>4, <1>5, QuietStep

LEMMA FirstFacts ==
  ASSUME NEW k \in Keys
  PROVE  First(k) \in {"fields", "room", "declared"}
BY DEF First

LEMMA ClaimStep ==
  ASSUME IInv, NEW h \in Handlers, Claim(h)
  PROVE  IInv'
<1> USE ProcFacts
<1> DEFINE k == op[h].key
           a == IF k \in idem THEN "seen" ELSE First(k)
           j == [op[h] EXCEPT !.at = a, !.from = ver]
<1>1. /\ op[h].at = "claim" /\ k \notin claims /\ claims' = claims \cup {k}
      /\ op' = [op EXCEPT ![h].at = a, ![h].from = ver]
      /\ UNCHANGED <<cat, ver, idem, disk, safe, state, copy, promised, lasting, orphaned, unsaved>>
  BY DEF Claim, ghosts
<1>2. k \in Keys /\ InEngine(h) /\ state # "down" BY <1>1, HandFacts
<1>3. op \in [Procs -> Op] /\ op[h] \in Op /\ ver \in Nat BY DEF IInv, Types
<1>4. a \in {"fields", "room", "declared", "seen"} /\ a \in Steps /\ (a # "seen" => k \notin idem)
  BY <1>2, FirstFacts DEF Steps, Writing
<1> HIDE DEF a
<1>5. j \in Op /\ j.at = a /\ j.key = k BY <1>3, <1>4 DEF Op
<1>6. op' = [op EXCEPT ![h] = j] BY <1>1, <1>3 DEF Op
<1> HIDE DEF j
<1>7. Only(h) /\ op'[h] = j BY <1>3, <1>5, <1>6 DEF Only
<1>8. Types' BY <1>1, <1>2, <1>7 DEF IInv, Types, Only
<1>9. PlaceOK(h, op'[h]) BY <1>2, <1>4, <1>5, <1>7 DEF PlaceOK, Writing
<1>10. Places' BY <1>7, <1>9, PlacesFrame DEF IInv
<1>11. ClaimsOK'
  <2>1. \A g \in Handlers \ {h} : /\ Claiming(op'[g]) => op[g].key \in claims /\ op[g].key # k /\ op'[g] = op[g]
                                  /\ op'[g] = op[g]
    BY <1>1, <1>7 DEF Only, IInv, ClaimsOK
  <2>2. op'[h].key = k /\ (op'[h].at \in Writing => k \notin idem) BY <1>4, <1>5, <1>7 DEF Writing
  <2>3. \A g \in Handlers : Claiming(op[g])' <=> Claiming(op'[g]) BY DEF Claiming
  <2>4. ASSUME NEW g \in Handlers, Claiming(op'[g]) PROVE op'[g].key \in claims'
    <3>1. CASE g = h BY <3>1, <1>1, <2>2
    <3>2. CASE g # h
      <4>1. op'[g] = op[g] /\ op[g].key \in claims BY <3>2, <2>1, <2>4
      <4>2. claims \subseteq claims' BY <1>1
      <4> QED BY <4>1, <4>2
    <3> QED BY <3>1, <3>2
  <2>5. ASSUME NEW g \in Handlers, NEW f \in Handlers, Claiming(op'[g]), Claiming(op'[f]), op'[g].key = op'[f].key
        PROVE  g = f
    <3>1. CASE g # h /\ f # h BY <3>1, <2>1, <2>5 DEF IInv, ClaimsOK
    <3>2. CASE g = h \/ f = h BY <3>2, <2>1, <2>2, <2>5
    <3> QED BY <3>1, <3>2
  <2>6. ASSUME NEW g \in Handlers, op'[g].at \in Writing PROVE op'[g].key \notin idem'
    <3>1. CASE g = h BY <3>1, <1>1, <2>2, <2>6
    <3>2. CASE g # h
      <4>1. op'[g] = op[g] BY <3>2, <2>1
      <4>2. idem' = idem BY <1>1
      <4> QED BY <4>1, <4>2, <2>6 DEF IInv, ClaimsOK
    <3> QED BY <3>1, <3>2
  <2> QED BY <2>3, <2>4, <2>5, <2>6 DEF ClaimsOK
<1>12. KeptOK' BY <1>1, KeptStays DEF IInv
<1>13. DescribedOK' BY <1>1, <1>7, DescribedFrame DEF IInv
<1>14. TagOK'
  <2>1. ~Bumping(op[h]) BY <1>1 DEF Bumping
  <2> QED BY <2>1, <1>1, <1>7, TagFrame, ShownStays DEF IInv
<1>15. StopOK' BY <1>1, <1>2, StopFrame DEF IInv
<1> QED BY <1>8, <1>10, <1>11, <1>12, <1>13, <1>14, <1>15 DEF IInv

\* A handler leaves without an answer that promises anything.
LEMMA RefuseStep ==
  ASSUME IInv, NEW h \in Handlers, op[h].at \in Writing \ {"observe", "bump"}, GiveUp(h),
         UNCHANGED <<cat, ver, idem, disk, safe, state, copy, promised, lasting, orphaned, unsaved>>
  PROVE  IInv'
<1> USE ProcFacts
<1>1. claims' = claims \ {op[h].key} /\ Done(h) BY DEF GiveUp, Leave
<1>2. Only(h) /\ op'[h] = Idle BY <1>1, DoneFacts DEF IInv
<1>3. InEngine(h) /\ Claiming(op[h]) /\ ~Bumping(op[h]) /\ op[h].at # "observe"
  BY DEF InEngine, Claiming, Writing, Bumping
<1>4. Types' BY <1>1, <1>2 DEF IInv, Types, Only
<1>5. Places' BY <1>2, IdleFacts, PlacesFrame DEF IInv
<1>6. ClaimsOK' BY <1>1, <1>2, <1>3, ReleaseFrame DEF IInv
<1>7. KeptOK' BY KeptStays DEF IInv
<1>8. DescribedOK' BY <1>2, <1>3, DescribedFrame DEF IInv
<1>9. TagOK' BY <1>2, <1>3, TagFrame, ShownStays DEF IInv
<1>10. StopOK' BY <1>3, StopFrame DEF IInv
<1> QED BY <1>4, <1>5, <1>6, <1>7, <1>8, <1>9, <1>10 DEF IInv

LEMMA RefusedStep ==
  ASSUME IInv, NEW h \in Handlers, FieldsRefused(h) \/ RoomRefused(h) \/ PutFails(h)
  PROVE  IInv'
<1>1. /\ op[h].at \in {"fields", "room", "row"} /\ GiveUp(h)
      /\ UNCHANGED <<cat, ver, idem, disk, safe, state, copy, promised, lasting, orphaned, unsaved>>
  BY DEF FieldsRefused, RoomRefused, PutFails, Refuse, ghosts
<1>2. op[h].at \in Writing \ {"observe", "bump"} BY <1>1 DEF Writing
<1> QED BY <1>1, <1>2, RefuseStep

\* Steps that only lead on.
LEMMA LeadsOn ==
  ASSUME IInv, NEW h \in Handlers, Goto(h, "over") \/ Goto(h, "entry") \/ Goto(h, "row") \/ Goto(h, "reply"),
         op[h].at \in {"room", "over", "check"},
         UNCHANGED <<cat, ver, idem, claims, disk, safe, state, copy, promised, lasting, orphaned, unsaved>>
  PROVE  IInv'
<1>1. op[h].key \in Keys /\ h \in Procs /\ state # "down" BY HandFacts
<1>2. Only(h) /\ op'[h].at \in {"over", "entry", "row", "reply"} /\ op'[h].key = op[h].key
  <2>1. "over" \in Steps /\ "entry" \in Steps /\ "row" \in Steps /\ "reply" \in Steps BY DEF Steps, Writing
  <2> QED BY <1>1, <2>1, GotoFacts DEF IInv
<1>3. PlaceOK(h, op'[h]) BY <1>1, <1>2 DEF PlaceOK, Writing
<1>4. Claiming(op[h]) /\ op[h].at \in Writing /\ ~Bumping(op[h]) BY DEF Claiming, Writing, Bumping
<1> QED BY <1>1, <1>2, <1>3, <1>4, QuietStep

LEMMA LeadingSteps ==
  ASSUME IInv, NEW h \in Handlers, DeclareRoom(h) \/ DeclareOver(h) \/ Check(h)
  PROVE  IInv'
<1>1. /\ op[h].at \in {"room", "over", "check"}
      /\ Goto(h, "over") \/ Goto(h, "entry") \/ Goto(h, "row") \/ Goto(h, "reply")
      /\ UNCHANGED <<cat, ver, idem, claims, disk, safe, state, copy, promised, lasting, orphaned, unsaved>>
  BY DEF DeclareRoom, DeclareOver, Check, idemVars, ghosts
<1> QED BY <1>1, LeadsOn

LEMMA EntryPut ==
  ASSUME cat \in Cat, NEW s \in Sets, NEW e \in Entry, e.on \/ e = NoEntry, cat' = [cat EXCEPT ![s] = e]
  PROVE  cat' \in Cat /\ cat'[s] = e /\ \A t \in Sets \ {s} : cat'[t] = cat[t]
<1>1. cat \in [Sets -> Entry] /\ \A t \in Sets : ~cat[t].on => cat[t] = NoEntry BY DEF Cat
<1>2. cat' \in [Sets -> Entry] /\ cat'[s] = e /\ \A t \in Sets \ {s} : cat'[t] = cat[t] BY <1>1
<1> QED BY <1>1, <1>2 DEF Cat

LEMMA EntryKept ==
  ASSUME cat \in Cat, NEW s \in Sets, cat' = [cat EXCEPT ![s] = cat[s]]
  PROVE  cat' = cat
BY DEF Cat

\* A row's set is one.
LEMMA RowSets ==
  ASSUME Types
  PROVE  \A r \in disk.rows : r \in Row /\ r.set \in Sets
BY DEF Types, Disk, Row

LEMMA DeclareFieldsStep ==
  ASSUME IInv, NEW h \in Handlers, DeclareFields(h)
  PROVE  IInv'
<1> DEFINE r == Req(h)
           e == cat[r.set]
           new == [e EXCEPT !.on = TRUE, !.meta = r.meta]
           a == IF r.ret # Undeclared THEN "room" ELSE "declared"
<1>1. /\ op[h].at = "fields" /\ cat' = [cat EXCEPT ![r.set] = new]
      /\ ver' = (IF new # e THEN ver + 1 ELSE ver) /\ Goto(h, a)
      /\ UNCHANGED <<idem, claims, disk, safe, state, copy, promised, lasting, orphaned, unsaved>>
  BY DEF DeclareFields, idemVars, ghosts
<1>2. /\ h \in Procs /\ InEngine(h) /\ op[h].key \in Keys
      /\ r.set \in Sets /\ r.meta \in {"", "unit", "bad"} /\ e \in Entry
  BY <1>1, HandFacts
<1>3. new \in Entry /\ new.on /\ new.cols = e.cols BY <1>2 DEF Entry
<1>4. /\ Only(h) /\ op'[h].at \in {"room", "declared"} /\ op'[h].key = op[h].key
  <2>1. a \in {"room", "declared"} /\ a \in Steps BY DEF Steps, Writing
  <2> HIDE DEF a
  <2> QED BY <1>1, <1>2, <2>1, GotoFacts DEF IInv
<1>5. cat \in Cat /\ ver \in Nat BY DEF IInv, Types
<1> HIDE DEF new
<1>6. cat' \in Cat /\ \A s \in Sets : cat'[s].cols = cat[s].cols BY <1>1, <1>2, <1>3, <1>5, EntryPut
<1>7. ver' = ver + 1 \/ (ver' = ver /\ cat' = cat)
  <2>1. CASE new = e BY <2>1, <1>1, <1>2, <1>5, EntryKept
  <2>2. CASE new # e BY <2>2, <1>1
  <2> QED BY <2>1, <2>2
<1>8. Types' BY <1>1, <1>4, <1>5, <1>6, <1>7 DEF IInv, Types, Only
<1>9. PlaceOK(h, op'[h]) BY <1>2, <1>4 DEF PlaceOK, Writing
<1>10. Claiming(op[h]) /\ op[h].at \in Writing /\ ~Bumping(op[h]) BY <1>1 DEF Claiming, Writing, Bumping
<1>11. KeptOK' BY <1>1, KeptStays DEF IInv
<1>12. DescribedOK'
  <2>1. \A x \in disk.rows \cup promised : x.set \in Sets BY RowSets DEF IInv, KeptOK
  <2> QED BY <2>1, <1>1, <1>2, <1>4, <1>6, DescribedFrame DEF IInv
<1> QED BY <1>1, <1>2, <1>4, <1>7, <1>8, <1>9, <1>10, <1>11, <1>12, InnerStep, ShownStays

LEMMA DeclareEntryStep ==
  ASSUME IInv, NEW h \in Handlers, DeclareEntry(h)
  PROVE  IInv'
<1> DEFINE r == Req(h)
           e == cat[r.set]
           new == [e EXCEPT !.on = TRUE, !.ret = r.ret]
           a == IF new # e THEN "bump" ELSE "declared"
<1>1. /\ op[h].at = "entry" /\ cat' = [cat EXCEPT ![r.set] = new] /\ Goto(h, a)
      /\ UNCHANGED <<ver, idem, claims, disk, safe, state, copy, promised, lasting, orphaned, unsaved>>
  BY DEF DeclareEntry, idemVars, ghosts
<1>2. /\ h \in Procs /\ InEngine(h) /\ op[h].key \in Keys
      /\ r.set \in Sets /\ r.ret \in Rets /\ e \in Entry
  BY <1>1, HandFacts
<1>3. new \in Entry /\ new.on /\ new.cols = e.cols BY <1>2 DEF Entry
<1>4. /\ Only(h) /\ op'[h].at = a /\ op'[h].key = op[h].key /\ a \in {"bump", "declared"}
  <2>1. a \in {"bump", "declared"} /\ a \in Steps BY DEF Steps, Writing
  <2> HIDE DEF a
  <2> QED BY <1>1, <1>2, <2>1, GotoFacts DEF IInv
<1>5. cat \in Cat BY DEF IInv, Types
<1> HIDE DEF new
<1>6. cat' \in Cat /\ \A s \in Sets : cat'[s].cols = cat[s].cols BY <1>1, <1>2, <1>3, <1>5, EntryPut
<1>7. op'[h].at = "bump" \/ cat' = cat
  <2>1. CASE new = e BY <2>1, <1>1, <1>2, <1>5, EntryKept
  <2>2. CASE new # e BY <2>2, <1>4
  <2> QED BY <2>1, <2>2
<1> HIDE DEF a
<1>8. Types' BY <1>1, <1>4, <1>6 DEF IInv, Types, Only
<1>9. PlaceOK(h, op'[h]) BY <1>2, <1>4 DEF PlaceOK, Writing
<1>10. Claiming(op[h]) /\ op[h].at \in Writing /\ ~Bumping(op[h]) BY <1>1 DEF Claiming, Writing, Bumping
<1>11. KeptOK' BY <1>1, KeptStays DEF IInv
<1>12. DescribedOK'
  <2>1. \A x \in disk.rows \cup promised : x.set \in Sets BY RowSets DEF IInv, KeptOK
  <2> QED BY <2>1, <1>1, <1>2, <1>4, <1>6, DescribedFrame DEF IInv
<1>13. Bumping(op'[h]) \/ Shown' = Shown BY <1>7, ShownStays DEF Bumping
<1> QED BY <1>1, <1>2, <1>4, <1>8, <1>9, <1>10, <1>11, <1>12, <1>13, InnerStep

LEMMA BumpStep ==
  ASSUME IInv, NEW p \in Procs, Bump(p)
  PROVE  IInv'
<1> DEFINE a == AfterBump(p)
<1>1. /\ op[p].at = "bump" /\ ver' = ver + 1 /\ Goto(p, a)
      /\ UNCHANGED <<cat, idem, claims, disk, safe, state, copy, promised, lasting, orphaned, unsaved>>
  BY DEF Bump, idemVars, ghosts
<1>2. /\ a \in Steps /\ (p \in Handlers => a = "declared") /\ (p = "admin" => a = "gate")
      /\ p \notin Handlers => a \in {"gate", "save"}
  BY ProcFacts DEF AfterBump, Steps, Writing
<1>3. PlaceOK(p, op[p]) BY DEF IInv, Places
<1> HIDE DEF a
<1>4. Only(p) /\ op'[p].at = a /\ op'[p].key = op[p].key BY <1>1, <1>2, GotoFacts DEF IInv
<1>5. Types' BY <1>1, <1>4 DEF IInv, Types, Only
<1>6. PlaceOK(p, op'[p]) BY <1>1, <1>2, <1>3, <1>4 DEF PlaceOK, Writing
<1>7. Claiming(op[p]) /\ op[p].at \in Writing BY <1>1 DEF Claiming, Writing
<1>8. KeptOK' BY <1>1, KeptStays DEF IInv
<1>9. DescribedOK' BY <1>1, <1>4, DescribedFrame DEF IInv
<1>10. InEngine(p) \/ StopOK'
  <2>1. p # "admin" => InEngine(p) BY <1>1 DEF InEngine
  <2>2. CASE p = "admin"
    <3>1. ~InEngine(p)' BY <2>2, <1>2, <1>4 DEF InEngine
    <3>2. \A q \in Procs \ {p} : InEngine(q)' <=> InEngine(q) BY <1>4 DEF InEngine, Only
    <3> QED BY <3>1, <3>2, <1>1 DEF IInv, StopOK
  <2> QED BY <2>1, <2>2
<1> QED BY <1>1, <1>3, <1>4, <1>5, <1>6, <1>7, <1>8, <1>9, <1>10, InnerStep

LEMMA DeclaredStep ==
  ASSUME IInv, NEW h \in Handlers, Declared(h)
  PROVE  IInv'
<1> DEFINE a == IF ver # op[h].from THEN "save" ELSE "check"
           j == [op[h] EXCEPT !.at = a, !.from = 0]
<1>1. /\ op[h].at = "declared" /\ op' = [op EXCEPT ![h].at = a, ![h].from = 0]
      /\ UNCHANGED <<cat, ver, idem, claims, disk, safe, state, copy, promised, lasting, orphaned, unsaved>>
  BY DEF Declared, idemVars, ghosts
<1>2. h \in Procs /\ op[h].key \in Keys /\ state # "down" BY <1>1, HandFacts
<1>3. op \in [Procs -> Op] /\ op[h] \in Op BY <1>2 DEF IInv, Types
<1>4. a \in {"save", "check"} /\ a \in Steps BY DEF Steps, Writing
<1> HIDE DEF a
<1>5. j \in Op /\ j.at = a /\ j.key = op[h].key BY <1>3, <1>4 DEF Op
<1>6. op' = [op EXCEPT ![h] = j] BY <1>1, <1>3 DEF Op
<1> HIDE DEF j
<1>7. Only(h) /\ op'[h] = j BY <1>2, <1>3, <1>5, <1>6 DEF Only
<1>8. PlaceOK(h, op'[h]) BY <1>2, <1>4, <1>5, <1>7 DEF PlaceOK, Writing
<1>9. Claiming(op[h]) /\ op[h].at \in Writing /\ ~Bumping(op[h]) BY <1>1 DEF Claiming, Writing, Bumping
<1> QED BY <1>1, <1>2, <1>5, <1>7, <1>8, <1>9, QuietStep

LEMMA SaveSnapStep ==
  ASSUME IInv, NEW p \in Procs, SaveSnap(p)
  PROVE  IInv'
<1> DEFINE j == [op[p] EXCEPT !.at = "put", !.snap = Snapshot]
<1>1. /\ op[p].at = "save" /\ op' = [op EXCEPT ![p].at = "put", ![p].snap = Snapshot]
      /\ UNCHANGED <<cat, ver, idem, claims, disk, safe, state, copy, promised, lasting, orphaned, unsaved>>
  BY DEF SaveSnap, idemVars, ghosts
<1>2. InEngine(p) /\ PlaceOK(p, op[p]) /\ state # "down" BY <1>1 DEF InEngine, IInv, Places, StopOK
<1>3. op \in [Procs -> Op] /\ op[p] \in Op /\ Snapshot \in Rec BY DEF IInv, Types, Snapshot, Rec
<1>4. j \in Op /\ j.at = "put" /\ j.key = op[p].key
  <2>1. "put" \in Steps BY DEF Steps, Writing
  <2> QED BY <1>3, <2>1 DEF Op
<1>5. op' = [op EXCEPT ![p] = j] BY <1>1, <1>3 DEF Op
<1> HIDE DEF j
<1>6. Only(p) /\ op'[p] = j BY <1>3, <1>4, <1>5 DEF Only
<1>7. PlaceOK(p, op'[p]) BY <1>1, <1>2, <1>4, <1>6 DEF PlaceOK, Writing
<1>8. Claiming(op[p]) /\ op[p].at \in Writing /\ ~Bumping(op[p]) BY <1>1 DEF Claiming, Writing, Bumping
<1> QED BY <1>1, <1>2, <1>4, <1>6, <1>7, <1>8, QuietStep

\* A write that removes only what nobody is promised any more.
LEMMA WriteKept ==
  ASSUME KeptOK, NEW d \in Disk, WriteTo(d), promised' \subseteq d.rows,
         lasting' \subseteq promised', lasting' \subseteq lasting
  PROVE  KeptOK'
BY DEF KeptOK, WriteTo

LEMMA SavePutStep ==
  ASSUME IInv, NEW p \in Procs, SavePut(p)
  PROVE  IInv'
<1> DEFINE d == [disk EXCEPT !.rec = op[p].snap]
           j == [op[p] EXCEPT !.at = "check", !.snap = NoRec]
<1>1. /\ op[p].at = "put"
      /\ WriteTo(d) \/ UNCHANGED <<disk, safe>>
      /\ UNCHANGED <<cat, ver, idem, claims, state, copy, promised, lasting, orphaned, unsaved>>
  BY DEF SavePut, idemVars, ghosts
<1>2. op[p].at = "put" /\ InEngine(p) /\ PlaceOK(p, op[p]) BY DEF SavePut, InEngine, IInv, Places
<1>3. op \in [Procs -> Op] /\ op[p] \in Op /\ op[p].snap \in Rec /\ disk \in Disk /\ safe \in Disk
  BY DEF IInv, Types, Op
<1>4. d \in Disk /\ d.rows = disk.rows BY <1>3 DEF Disk
<1> HIDE DEF d
<1>5. j \in Op /\ j.at = "check" /\ j.key = op[p].key
  <2>1. "check" \in Steps /\ NoRec \in Rec BY NoEntryFacts DEF Steps, Writing
  <2> QED BY <1>3, <2>1 DEF Op
<1>6. /\ p \in Handlers => op' = [op EXCEPT ![p] = j]
      /\ p \notin Handlers => Done(p)
  BY <1>3 DEF SavePut, Op
<1> HIDE DEF j
<1>7. /\ Only(p) /\ (p \in Handlers => op'[p] = j) /\ (p \notin Handlers => op'[p] = Idle)
  <2>1. CASE p \in Handlers BY <2>1, <1>3, <1>5, <1>6 DEF Only
  <2>2. CASE p \notin Handlers BY <2>2, <1>6, DoneFacts DEF IInv
  <2> QED BY <2>1, <2>2
<1>8. disk'.rows = disk.rows /\ disk' \in Disk /\ safe' \in Disk
  <2>1. CASE WriteTo(d) BY <2>1, <1>3, <1>4 DEF WriteTo
  <2>2. CASE UNCHANGED <<disk, safe>> BY <2>2, <1>3
  <2> QED BY <1>1, <2>1, <2>2
<1>9. Types' BY <1>1, <1>7, <1>8 DEF IInv, Types, Only
<1>10. PlaceOK(p, op'[p]) BY <1>2, <1>5, <1>7, IdleFacts DEF PlaceOK, Writing
<1>11. Claiming(op[p]) /\ op[p].at \in Writing /\ ~Bumping(op[p]) BY <1>2 DEF Claiming, Writing, Bumping
<1>12. KeptOK'
  <2>1. CASE WriteTo(d)
    <3>1. promised' \subseteq d.rows /\ lasting' \subseteq promised' /\ lasting' \subseteq lasting
      BY <1>1, <1>4 DEF IInv, KeptOK
    <3> QED BY <2>1, <3>1, <1>4, WriteKept DEF IInv
  <2>2. CASE UNCHANGED <<disk, safe>> BY <2>2, <1>1, KeptStays DEF IInv
  <2> QED BY <1>1, <2>1, <2>2
<1>13. DescribedOK' BY <1>1, <1>2, <1>7, <1>8, DescribedFrame DEF IInv
<1> QED BY <1>1, <1>2, <1>5, <1>7, <1>9, <1>10, <1>11, <1>12, <1>13, InnerStep, ShownStays

LEMMA PutBatchStep ==
  ASSUME IInv, NEW h \in Handlers, PutBatch(h)
  PROVE  IInv'
<1> DEFINE row == RowFor(op[h].key)
           d == [disk EXCEPT !.rows = @ \cup {row}]
<1>1. /\ op[h].at = "row" /\ WriteTo(d) /\ Goto(h, "observe")
      /\ UNCHANGED <<cat, ver, idem, claims, state, copy, promised, lasting, orphaned, unsaved>>
  BY DEF PutBatch, idemVars, ghosts
<1>2. h \in Procs /\ InEngine(h) /\ op[h].key \in Keys BY <1>1, HandFacts
<1>3. disk \in Disk /\ safe \in Disk /\ row \in Row BY <1>2, RequestFacts DEF IInv, Types
<1>4. d \in Disk /\ d.rows = disk.rows \cup {row} BY <1>3 DEF Disk
<1> HIDE DEF d
<1>5. Only(h) /\ op'[h].at = "observe" /\ op'[h].key = op[h].key
  <2>1. "observe" \in Steps BY DEF Steps, Writing
  <2> QED BY <1>1, <1>2, <2>1, GotoFacts DEF IInv
<1>6. disk' = d /\ safe' \in Disk BY <1>1, <1>3, <1>4 DEF WriteTo
<1>7. Types' BY <1>1, <1>4, <1>5, <1>6 DEF IInv, Types, Only
<1>8. PlaceOK(h, op'[h]) BY <1>2, <1>5 DEF PlaceOK, Writing
<1>9. Claiming(op[h]) /\ op[h].at \in Writing /\ ~Bumping(op[h]) BY <1>1 DEF Claiming, Writing, Bumping
<1>10. KeptOK'
  <2>1. promised' \subseteq d.rows /\ lasting' \subseteq promised' /\ lasting' \subseteq lasting
    BY <1>1, <1>4 DEF IInv, KeptOK
  <2> QED BY <2>1, <1>1, <1>4, WriteKept DEF IInv
<1>11. DescribedOK'
  <2>1. Described' BY <1>1 DEF IInv, DescribedOK, Described
  <2>2. ASSUME NEW r \in disk'.rows
        PROVE  \/ r \in orphaned' \/ r.kind \in cat'[r.set].cols
               \/ \E g \in Handlers : op'[g].at = "observe" /\ r = RowFor(op'[g].key)
    <3>1. CASE r = row BY <3>1, <1>5
    <3>2. CASE r \in disk.rows
      <4>1. CASE \E g \in Handlers : op[g].at = "observe" /\ r = RowFor(op[g].key)
        <5> PICK g \in Handlers : op[g].at = "observe" /\ r = RowFor(op[g].key) BY <4>1
        <5>1. g # h /\ op'[g] = op[g] BY <1>1, <1>5, ProcFacts DEF Only
        <5> QED BY <5>1
      <4> QED BY <3>2, <4>1, <1>1 DEF IInv, DescribedOK
    <3> QED BY <3>1, <3>2, <1>4, <1>6
  <2>3. \A g \in Handlers : RowFor(op[g].key)' = RowFor(op'[g].key) BY DEF RowFor
  <2> QED BY <2>1, <2>2, <2>3 DEF DescribedOK
<1> QED BY <1>1, <1>2, <1>5, <1>7, <1>8, <1>9, <1>10, <1>11, InnerStep, ShownStays

LEMMA ObserveStep ==
  ASSUME IInv, NEW h \in Handlers, Observe(h)
  PROVE  IInv'
<1> DEFINE r == Req(h)
           e == cat[r.set]
           new == [e EXCEPT !.on = TRUE, !.cols = @ \cup {r.kind}]
<1>1. /\ op[h].at = "observe" /\ cat' = [cat EXCEPT ![r.set] = new]
      /\ ver' = (IF new.cols # e.cols THEN ver + 1 ELSE ver)
      /\ orphaned' = {o \in orphaned : o.set # r.set \/ o.kind # r.kind}
      /\ Goto(h, "reply")
      /\ UNCHANGED <<idem, claims, disk, safe, state, copy, promised, lasting>>
  BY DEF Observe, idemVars
<1>2. /\ h \in Procs /\ InEngine(h) /\ op[h].key \in Keys
      /\ r.set \in Sets /\ r.kind \in Kinds /\ e \in Entry
  BY <1>1, HandFacts
<1>3. new \in Entry /\ new.on /\ new.cols = e.cols \cup {r.kind} /\ (e.on /\ new.cols = e.cols => new = e)
  BY <1>2 DEF Entry
<1>4. Only(h) /\ op'[h].at = "reply" /\ op'[h].key = op[h].key
  <2>1. "reply" \in Steps BY DEF Steps, Writing
  <2> QED BY <1>1, <1>2, <2>1, GotoFacts DEF IInv
<1>5. cat \in Cat /\ ver \in Nat BY DEF IInv, Types
<1> HIDE DEF new
<1>6. cat' \in Cat /\ cat'[r.set] = new /\ \A s \in Sets \ {r.set} : cat'[s] = cat[s]
  BY <1>1, <1>2, <1>3, <1>5, EntryPut
<1>7. ver' = ver + 1 \/ (ver' = ver /\ cat' = cat)
  <2>1. CASE new.cols # e.cols BY <2>1, <1>1
  <2>2. CASE new.cols = e.cols
    <3>1. r.kind \in e.cols BY <2>2, <1>3
    <3>2. e.on BY <3>1, <1>2, <1>5, NoEntryFacts DEF Cat
    <3>3. new = e BY <2>2, <3>2, <1>3
    <3> QED BY <3>3, <1>1, <1>2, <1>5, EntryKept
  <2> QED BY <2>1, <2>2
<1>8. Types' BY <1>1, <1>4, <1>5, <1>6, <1>7 DEF IInv, Types, Only
<1>9. PlaceOK(h, op'[h]) BY <1>2, <1>4 DEF PlaceOK, Writing
<1>10. Claiming(op[h]) /\ op[h].at \in Writing /\ ~Bumping(op[h]) BY <1>1 DEF Claiming, Writing, Bumping
<1>11. KeptOK' BY <1>1, KeptStays DEF IInv
<1>12. DescribedOK'
  <2>1. \A x \in disk.rows \cup promised : x.set \in Sets BY RowSets DEF IInv, KeptOK
  <2>2. ASSUME NEW x \in disk.rows \cup promised, x \in orphaned \/ x.kind \in cat[x.set].cols
        PROVE  x \in orphaned' \/ x.kind \in cat'[x.set].cols
    <3>1. x.set \in Sets BY <2>1
    <3>2. CASE x.set = r.set /\ x.kind = r.kind BY <3>2, <1>3, <1>6
    <3>3. CASE x.set = r.set /\ x.kind # r.kind BY <2>2, <3>3, <1>1, <1>3, <1>6
    <3>4. CASE x.set # r.set BY <2>2, <3>1, <3>4, <1>1, <1>6
    <3> QED BY <3>2, <3>3, <3>4
  <2>3. Described' BY <2>2, <1>1 DEF IInv, DescribedOK, Described
  <2>4. ASSUME NEW x \in disk.rows
        PROVE  \/ x \in orphaned' \/ x.kind \in cat'[x.set].cols
               \/ \E g \in Handlers : op'[g].at = "observe" /\ x = RowFor(op'[g].key)
    <3>1. CASE x \in orphaned \/ x.kind \in cat[x.set].cols BY <2>2, <3>1
    <3>2. CASE \E g \in Handlers : op[g].at = "observe" /\ x = RowFor(op[g].key)
      <4> PICK g \in Handlers : op[g].at = "observe" /\ x = RowFor(op[g].key) BY <3>2
      <4>1. CASE g = h
        <5>1. x.set = r.set /\ x.kind = r.kind BY <4>1, <1>2, RequestFacts DEF Req
        <5> QED BY <5>1, <1>3, <1>6
      <4>2. CASE g # h
        <5>1. op'[g] = op[g] BY <4>2, <1>4, ProcFacts DEF Only
        <5> QED BY <5>1
      <4> QED BY <4>1, <4>2
    <3> QED BY <3>1, <3>2 DEF IInv, DescribedOK
  <2>5. \A g \in Handlers : RowFor(op[g].key)' = RowFor(op'[g].key) BY DEF RowFor
  <2> QED BY <2>3, <2>4, <2>5, <1>1 DEF DescribedOK
<1> QED BY <1>1, <1>2, <1>4, <1>7, <1>8, <1>9, <1>10, <1>11, <1>12, InnerStep, ShownStays

LEMMA ReplyStep ==
  ASSUME IInv, NEW h \in Handlers, Reply(h)
  PROVE  IInv'
<1> USE ProcFacts
<1> DEFINE row == RowFor(op[h].key)
           mine == {row} \cap disk.rows
<1>1. /\ op[h].at \in {"seen", "reply"} /\ Record(h) /\ GiveUp(h)
      /\ UNCHANGED <<cat, ver, disk, state, copy, orphaned>>
  BY DEF Reply
<1>2. \/ promised' = promised \cup mine /\ lasting' = (IF Durable THEN lasting \cup mine ELSE lasting) /\ safe' = safe
      \/ ~Durable /\ safe' = disk /\ promised' = promised \cup mine /\ lasting' = lasting \cup mine
      \/ safe' = safe /\ promised' = promised /\ lasting' = lasting
  BY DEF Reply
<1>3. h \in Procs /\ InEngine(h) /\ op[h].key \in Keys BY <1>1, HandFacts
<1>4. claims' = claims \ {op[h].key} /\ Only(h) /\ op'[h] = Idle
  BY <1>1, <1>3, DoneFacts DEF GiveUp, Leave, IInv
<1>5. idem' \subseteq idem \cup {op[h].key}
  <2>1. CASE op[h].at = "seen" BY <2>1, <1>1 DEF Record
  <2>2. CASE op[h].at # "seen"
    <3>1. CASE Cardinality(idem \cup {op[h].key}) <= IdemMax BY <2>2, <3>1, <1>1 DEF Record
    <3>2. CASE ~(Cardinality(idem \cup {op[h].key}) <= IdemMax) BY <2>2, <3>2, <1>1 DEF Record
    <3> QED BY <3>1, <3>2
  <2> QED BY <2>1, <2>2
<1>6. Claiming(op[h]) /\ ~Bumping(op[h]) /\ op[h].at # "observe" BY <1>1 DEF Claiming, Writing, Bumping
<1>7. Types' BY <1>1, <1>2, <1>3, <1>4, <1>5 DEF IInv, Types, Only
<1>8. Places' BY <1>4, IdleFacts, PlacesFrame DEF IInv
<1>9. ClaimsOK' BY <1>4, <1>5, <1>6, ReleaseFrame DEF IInv
<1>10. KeptOK' BY <1>1, <1>2 DEF IInv, KeptOK
<1>11. DescribedOK'
  <2>1. \A x \in mine : x \in orphaned \/ x.kind \in cat[x.set].cols
    <3> SUFFICES ASSUME NEW g \in Handlers, op[g].at = "observe", row = RowFor(op[g].key) PROVE FALSE
      BY DEF IInv, DescribedOK
    <3>1. op[g].key \in Keys BY HandFacts
    <3>a. op[h].key \in Keys BY <1>3
    <3>b. RowFor(op[g].key).key = op[g].key BY <3>1, RequestFacts
    <3>c. RowFor(op[h].key).key = op[h].key BY <3>a, RequestFacts
    <3>2. op[g].key = op[h].key BY <3>b, <3>c
    <3>3. Claiming(op[g]) BY DEF Claiming, Writing
    <3>4. g = h BY <3>2, <3>3, <1>6 DEF IInv, ClaimsOK
    <3> QED BY <3>4, <1>6
  <2>2. promised' \subseteq promised \cup mine BY <1>2
  <2> HIDE DEF mine
  <2>3. Described' BY <2>1, <2>2, <1>1 DEF IInv, DescribedOK, Described
  <2>4. ASSUME NEW x \in disk.rows
        PROVE  \/ x \in orphaned \/ x.kind \in cat[x.set].cols
               \/ \E g \in Handlers : op'[g].at = "observe" /\ x = RowFor(op'[g].key)
    <3>1. CASE \E g \in Handlers : op[g].at = "observe" /\ x = RowFor(op[g].key)
      <4> PICK g \in Handlers : op[g].at = "observe" /\ x = RowFor(op[g].key) BY <3>1
      <4>1. g # h /\ op'[g] = op[g] BY <1>4, <1>6 DEF Only
      <4> QED BY <4>1
    <3> QED BY <3>1 DEF IInv, DescribedOK
  <2>5. \A g \in Handlers : RowFor(op[g].key)' = RowFor(op'[g].key) BY DEF RowFor
  <2> QED BY <2>3, <2>4, <2>5, <1>1 DEF DescribedOK
<1>12. TagOK' BY <1>1, <1>4, <1>6, TagFrame, ShownStays DEF IInv
<1>13. StopOK' BY <1>1, <1>3, StopFrame DEF IInv
<1> QED BY <1>7, <1>8, <1>9, <1>10, <1>11, <1>12, <1>13 DEF IInv

LEMMA WriteStep ==
  ASSUME IInv, NEW h \in Handlers, Write(h)
  PROVE  IInv'
BY AdmitStep, ClaimStep, DeclareFieldsStep, RefusedStep, LeadingSteps, DeclareEntryStep, DeclaredStep,
   PutBatchStep, ObserveStep, ReplyStep DEF Write

-----------------------------------------------------------------------------
(* Maintenance.                                                            *)

\* A drop or a sweep begins by removing rows.
LEMMA RemoveStep ==
  ASSUME IInv, NEW p \in Procs, p \notin Handlers, NEW s \in Sets, NEW a \in {"forget", "live"},
         NEW gone, Begin(p, s, a), Remove(s, gone),
         UNCHANGED <<cat, ver, idem, claims, state, copy, orphaned>>
  PROVE  IInv'
<1> DEFINE j == [Idle EXCEPT !.at = a, !.set = s]
           d == [disk EXCEPT !.rows = @ \ gone]
<1>1. /\ state = "open" /\ op[p] = Idle /\ op' = [op EXCEPT ![p] = j]
      /\ WriteTo(d) /\ promised' = promised \ gone /\ lasting' = lasting \ gone
  BY DEF Begin, Remove
<1>2. j \in Op /\ j.at = a /\ j.set = s
  <2>1. Idle \in Op /\ a \in Steps BY IdleFacts DEF Steps
  <2> QED BY <2>1 DEF Op
<1> HIDE DEF j
<1>3. Only(p) /\ op'[p] = j BY <1>1, <1>2 DEF IInv, Types, Only
<1>4. disk \in Disk /\ safe \in Disk BY DEF IInv, Types
<1>5. d \in Disk /\ d.rows = disk.rows \ gone BY <1>4 DEF Disk
<1> HIDE DEF d
<1>6. disk' = d /\ safe' \in Disk BY <1>1, <1>4, <1>5 DEF WriteTo
<1>7. Types' BY <1>3, <1>5, <1>6 DEF IInv, Types, Only
<1>8. PlaceOK(p, op'[p]) BY <1>2, <1>3 DEF PlaceOK
<1>9. Places' BY <1>3, <1>8, PlacesFrame DEF IInv
<1>10. ClaimsOK' BY <1>3, ClaimsFrame DEF IInv
<1>11. KeptOK'
  <2>1. promised' \subseteq d.rows /\ lasting' \subseteq promised' /\ lasting' \subseteq lasting
    BY <1>1, <1>5 DEF IInv, KeptOK
  <2> QED BY <2>1, <1>1, <1>5, WriteKept DEF IInv
<1>12. op[p].at = "idle" BY <1>1, IdleFacts
<1>13. DescribedOK' BY <1>1, <1>3, <1>5, <1>6, <1>12, DescribedFrame DEF IInv
<1>14. TagOK'
  <2>1. ~Bumping(op[p]) BY <1>12 DEF Bumping
  <2> QED BY <2>1, <1>3, TagFrame, ShownStays DEF IInv
<1>15. StopOK' BY <1>1 DEF StopOK
<1> QED BY <1>7, <1>9, <1>10, <1>11, <1>13, <1>14, <1>15 DEF IInv

LEMMA DropStep ==
  ASSUME IInv, NEW s \in Sets, Drop(s)
  PROVE  IInv'
<1>1. /\ Begin("admin", s, "forget") /\ Remove(s, RowsIn(s))
      /\ UNCHANGED <<cat, ver, idem, claims, state, copy, orphaned>>
  BY DEF Drop, idemVars
<1> QED BY <1>1, RemoveStep, ProcFacts

LEMMA SweepStep ==
  ASSUME IInv, NEW s \in Sets, NEW gone \in SUBSET RowsIn(s), Sweep(s, gone)
  PROVE  IInv'
<1>1. /\ Begin("sweep", s, "live") /\ Remove(s, gone)
      /\ UNCHANGED <<cat, ver, idem, claims, state, copy, orphaned>>
  BY DEF Sweep, idemVars
<1> QED BY <1>1, RemoveStep, ProcFacts

LEMMA SweepLiveStep ==
  ASSUME IInv, SweepLive
  PROVE  IInv'
<1> USE ProcFacts
<1>1. /\ op["sweep"].at = "live" /\ (Goto("sweep", "forget") \/ Goto("sweep", "bump") \/ Done("sweep"))
      /\ UNCHANGED <<cat, ver, idem, claims, disk, safe, state, copy, promised, lasting, orphaned, unsaved>>
  BY DEF SweepLive, idemVars, ghosts
<1>2. /\ Only("sweep") /\ op'["sweep"].at \in {"idle", "forget", "bump"}
      /\ op'["sweep"].at # "idle" => op'["sweep"].set = op["sweep"].set
  <2>1. "forget" \in Steps /\ "bump" \in Steps BY DEF Steps, Writing
  <2>2. CASE Goto("sweep", "forget") BY <2>1, <2>2, GotoFacts DEF IInv
  <2>3. CASE Goto("sweep", "bump") BY <2>1, <2>3, GotoFacts DEF IInv
  <2>4. CASE Done("sweep") BY <2>4, DoneFacts, IdleFacts DEF IInv
  <2> QED BY <1>1, <2>2, <2>3, <2>4
<1>4. op["sweep"].set \in Sets /\ state # "down" BY <1>1 DEF IInv, Places, PlaceOK, StopOK, InEngine
<1>5. PlaceOK("sweep", op'["sweep"]) BY <1>2, <1>4 DEF PlaceOK
<1>6. ~Bumping(op["sweep"]) BY <1>1 DEF Bumping
<1> QED BY <1>1, <1>2, <1>4, <1>5, <1>6, QuietStep

LEMMA ForgetStep ==
  ASSUME IInv, NEW p \in Procs, Forget(p)
  PROVE  IInv'
<1> DEFINE s == op[p].set
           kept == p = "sweep" /\ cat[s].ret # Undeclared
           new == IF kept THEN [cat[s] EXCEPT !.cols = {}, !.meta = ""] ELSE NoEntry
           a == CASE ~kept /\ (p = "admin" \/ cat[s].on) -> "unset"
                  [] kept /\ new # cat[s] -> "bump"
                  [] OTHER -> "idle"
           n == IF cat[s].on THEN 1 ELSE 0
           j == IF a = "idle" THEN Idle ELSE [op[p] EXCEPT !.at = a, !.from = n]
<1>1. /\ op[p].at = "forget" /\ cat' = [cat EXCEPT ![s] = new] /\ orphaned' = orphaned \cup RowsIn(s)
      /\ unsaved' = (IF state = "down" THEN unsaved \cup {s} ELSE unsaved)
      /\ op' = [op EXCEPT ![p] = j]
      /\ UNCHANGED <<ver, idem, claims, disk, safe, state, copy, promised, lasting>>
  BY DEF Forget, idemVars
<1>2. p \notin Handlers /\ s \in Sets
  BY <1>1 DEF IInv, Places, PlaceOK, Writing
<1>3. cat \in Cat /\ cat[s] \in Entry /\ (~cat[s].on => cat[s] = NoEntry) BY <1>2 DEF IInv, Types, Cat
<1>4. new \in Entry /\ (new.on \/ new = NoEntry)
  <2>1. CASE kept
    <3>1. cat[s].on BY <2>1, <1>3, NoEntryFacts
    <3> QED BY <2>1, <3>1, <1>3 DEF Entry
  <2>2. CASE ~kept BY <2>2, NoEntryFacts
  <2> QED BY <2>1, <2>2
<1>5. /\ a \in {"unset", "bump", "idle"} /\ a \in Steps /\ n \in {0, 1}
      /\ p = "admin" => a = "unset"
  <2>1. p = "admin" => ~kept OBVIOUS
  <2> QED BY <2>1 DEF Steps, Writing
<1>6. a = "bump" \/ (a = "unset" /\ n = 1) \/ new = cat[s]
  <2>1. CASE kept
    <3>1. new # cat[s] => a = "bump" BY <2>1
    <3> QED BY <3>1
  <2>2. CASE ~kept
    <3>1. cat[s].on => a = "unset" /\ n = 1 BY <2>2
    <3>2. new = NoEntry BY <2>2
    <3> QED BY <3>1, <3>2, <1>3
  <2> QED BY <2>1, <2>2
<1> HIDE DEF a, new, kept, n
<1>a. j \in Op /\ j.at = a /\ (a # "idle" => j.set = s /\ j.from = n)
  <2>1. op[p] \in Op BY DEF IInv, Types
  <2>2. CASE a = "idle" BY <2>2, IdleFacts
  <2>3. CASE a # "idle"
    <3>1. j = [op[p] EXCEPT !.at = a, !.from = n] BY <2>3
    <3>2. a \in Steps /\ n \in Nat BY <1>5
    <3> HIDE DEF j
    <3> QED BY <2>1, <3>1, <3>2 DEF Op
  <2> QED BY <2>2, <2>3
<1> HIDE DEF j
<1>7. Only(p) /\ op'[p] = j BY <1>1, <1>a DEF IInv, Types, Only
<1>8. cat' \in Cat /\ \A t \in Sets \ {s} : cat'[t] = cat[t] BY <1>1, <1>2, <1>3, <1>4, EntryPut
<1>9. Types' BY <1>1, <1>7, <1>8 DEF IInv, Types, Only
<1>10. PlaceOK(p, op'[p]) BY <1>2, <1>5, <1>7, <1>a DEF PlaceOK
<1>11. KeptOK' BY <1>1, KeptStays DEF IInv
<1>12. DescribedOK'
  <2>1. \A x \in disk.rows \cup promised : x \in disk.rows /\ x.set \in Sets BY RowSets DEF IInv, KeptOK
  <2>2. \A x \in disk.rows \cup promised : x.set = s => x \in orphaned' BY <2>1, <1>1 DEF RowsIn
  <2>3. \A x \in disk.rows \cup promised : x.set # s => cat'[x.set] = cat[x.set] BY <2>1, <1>8
  <2>4. \A x \in disk.rows \cup promised :
           /\ x \in orphaned => x \in orphaned'
           /\ x.kind \in cat[x.set].cols => x \in orphaned' \/ x.kind \in cat'[x.set].cols
    BY <2>2, <2>3, <1>1
  <2> QED BY <2>4, <1>1, <1>7, DescribedFrame DEF IInv
<1>13. Bumping(op'[p]) \/ Shown' = Shown
  <2>1. CASE a = "bump" \/ (a = "unset" /\ n = 1) BY <2>1, <1>7, <1>a DEF Bumping
  <2>2. CASE new = cat[s] BY <2>2, <1>1, <1>2, <1>3, EntryKept, ShownStays
  <2> QED BY <2>1, <2>2, <1>6
<1>14. ~Bumping(op[p]) BY <1>1 DEF Bumping
<1>15. InEngine(p) \/ StopOK'
  <2>1. p # "admin" => InEngine(p) BY <1>1 DEF InEngine
  <2>2. CASE p = "admin"
    <3>1. ~InEngine(p)' BY <2>2, <1>5, <1>7, <1>a DEF InEngine
    <3>2. \A q \in Procs \ {p} : InEngine(q)' <=> InEngine(q) BY <1>7 DEF InEngine, Only
    <3>3. state = "down" => \A t \in Sets \ unsaved' : t \in Sets \ unsaved /\ cat'[t] = cat[t]
      BY <1>1, <1>8
    <3> QED BY <3>1, <3>2, <3>3, <1>1 DEF IInv, StopOK
  <2> QED BY <2>1, <2>2
<1> QED BY <1>1, <1>2, <1>7, <1>9, <1>10, <1>11, <1>12, <1>13, <1>14, <1>15, InnerStep

LEMMA UnsetStep ==
  ASSUME IInv, NEW p \in Procs, Unset(p)
  PROVE  IInv'
<1> DEFINE a == IF op[p].from = 1 \/ over[op[p].set] # Undeclared THEN "bump" ELSE AfterBump(p)
<1>1. /\ op[p].at = "unset" /\ Goto(p, a)
      /\ UNCHANGED <<cat, ver, idem, claims, disk, safe, state, copy, promised, lasting, orphaned, unsaved>>
  BY DEF Unset, idemVars, ghosts
<1>2. p \notin Handlers /\ (p # "admin" => state # "down")
  BY <1>1 DEF IInv, Places, PlaceOK, Writing, StopOK, InEngine
<1>3. /\ a \in {"bump", "gate", "save"} /\ a \in Steps /\ (p = "admin" => a \in {"bump", "gate"})
      /\ op[p].from = 1 => a = "bump"
  BY <1>2 DEF AfterBump, Steps, Writing
<1> HIDE DEF a
<1>4. Only(p) /\ op'[p].at = a BY <1>1, <1>3, GotoFacts DEF IInv
<1>5. PlaceOK(p, op'[p]) BY <1>2, <1>3, <1>4 DEF PlaceOK
<1>6. ~Bumping(op[p]) \/ Bumping(op'[p]) BY <1>1, <1>3, <1>4 DEF Bumping
<1> QED BY <1>1, <1>2, <1>3, <1>4, <1>5, <1>6, QuietStep

LEMMA GateStep ==
  ASSUME IInv, Gate
  PROVE  IInv'
<1> USE ProcFacts
<1>1. /\ op["admin"].at = "gate"
      /\ (state = "open" /\ Goto("admin", "save")) \/ Done("admin")
      /\ UNCHANGED <<cat, ver, idem, claims, disk, safe, state, copy, promised, lasting, orphaned, unsaved>>
  BY DEF Gate, idemVars, ghosts
<1>2. Only("admin") /\ op'["admin"].at \in {"idle", "save"} /\ (state = "down" => op'["admin"].at = "idle")
  <2>1. "save" \in Steps BY DEF Steps, Writing
  <2>2. CASE state = "open" /\ Goto("admin", "save") BY <2>1, <2>2, GotoFacts DEF IInv
  <2>3. CASE Done("admin") BY <2>3, DoneFacts, IdleFacts DEF IInv
  <2> QED BY <1>1, <2>2, <2>3
<1>3. PlaceOK("admin", op'["admin"]) BY <1>2 DEF PlaceOK
<1>4. ~Bumping(op["admin"]) BY <1>1 DEF Bumping
<1> QED BY <1>1, <1>2, <1>3, <1>4, QuietStep

LEMMA TickStep ==
  ASSUME IInv, Tick
  PROVE  IInv'
<1> USE ProcFacts
<1> DEFINE j == [Idle EXCEPT !.at = "save"]
<1>1. /\ state = "open" /\ op["tick"] = Idle /\ op' = [op EXCEPT !["tick"] = j]
      /\ UNCHANGED <<cat, ver, idem, claims, disk, safe, state, copy, promised, lasting, orphaned, unsaved>>
  BY DEF Tick, idemVars, ghosts
<1>2. j \in Op /\ j.at = "save"
  <2>1. Idle \in Op /\ "save" \in Steps BY IdleFacts DEF Steps, Writing
  <2> QED BY <2>1 DEF Op
<1> HIDE DEF j
<1>3. Only("tick") /\ op'["tick"] = j BY <1>1, <1>2 DEF IInv, Types, Only
<1>4. PlaceOK("tick", op'["tick"]) BY <1>2, <1>3 DEF PlaceOK
<1>5. op["tick"].at = "idle" /\ ~Bumping(op["tick"]) BY <1>1, IdleFacts DEF Bumping
<1> QED BY <1>1, <1>3, <1>4, <1>5, QuietStep

\* Steps of nobody's: the engine flushes, a key expires, a client asks, the stop begins.
LEMMA OutsideStep ==
  ASSUME IInv, UNCHANGED <<cat, ver, claims, disk, op, promised, lasting, orphaned, unsaved>>, idem' \subseteq idem,
         \/ UNCHANGED <<safe, state, copy>>
         \/ state # "down" /\ safe' = disk /\ UNCHANGED <<state, copy>>
         \/ state # "down" /\ copy' = [ver |-> ver, body |-> Shown] /\ UNCHANGED <<safe, state>>
         \/ state = "open" /\ state' = "closing" /\ UNCHANGED <<safe, copy>>
  PROVE  IInv'
<1>1. Types'
  <2>1. copy'.ver \in Nat BY DEF IInv, Types
  <2>2. safe' \in Disk BY DEF IInv, Types
  <2> QED BY <2>1, <2>2 DEF IInv, Types
<1>2. Places' BY DEF IInv, Places, PlaceOK
<1>3. ClaimsOK' BY DEF IInv, ClaimsOK, Claiming
<1>4. KeptOK' BY DEF IInv, KeptOK
<1>5. DescribedOK'
  <2>1. Described' BY DEF IInv, DescribedOK, Described
  <2>2. \A g \in Handlers : RowFor(op[g].key)' = RowFor(op[g].key) BY DEF RowFor
  <2> QED BY <2>1, <2>2 DEF IInv, DescribedOK
<1>6. Shown' = Shown BY ShownStays
<1>7. TagOK'
  <2>1. CASE copy' = copy /\ (state' = state \/ state = "open") BY <2>1, <1>6 DEF IInv, TagOK, Bumping
  <2>2. CASE copy' = [ver |-> ver, body |-> Shown]
    <3>1. copy'.ver = ver /\ copy'.body = Shown /\ ver \in Nat BY <2>2 DEF IInv, Types
    <3> QED BY <3>1, <1>6 DEF TagOK
  <2> QED BY <2>1, <2>2
<1>8. StopOK' BY DEF IInv, StopOK, Snapshot, InEngine
<1> QED BY <1>1, <1>2, <1>3, <1>4, <1>5, <1>7, <1>8 DEF IInv

LEMMA OutsideSteps ==
  ASSUME IInv, Flush \/ Fetch \/ Close \/ \E k \in Keys : Expire(k)
  PROVE  IInv'
<1>1. CASE Flush BY <1>1, OutsideStep DEF Flush, idemVars, ghosts
<1>2. CASE Fetch BY <1>2, OutsideStep DEF Fetch, idemVars, ghosts
<1>3. CASE Close BY <1>3, OutsideStep DEF Close, idemVars, ghosts
<1>4. CASE \E k \in Keys : Expire(k) BY <1>4, OutsideStep DEF Expire, ghosts
<1> QED BY <1>1, <1>2, <1>3, <1>4

\* The last save, when nobody is inside any more.
LEMMA CloseSaveStep ==
  ASSUME IInv, CloseSave
  PROVE  IInv'
<1>1. /\ \A p \in Procs : ~InEngine(p)
      /\ \/ disk' = [disk EXCEPT !.rec = Snapshot] /\ unsaved' = {}
         \/ disk' = disk /\ unsaved' = Sets
      /\ safe' = disk' /\ state' = "down"
      /\ UNCHANGED <<cat, ver, idem, claims, op, copy, promised, lasting, orphaned>>
  BY DEF CloseSave, idemVars
<1>2. disk' \in Disk /\ disk'.rows = disk.rows /\ \A s \in Sets \ unsaved' : disk'.rec.cat[s] = cat[s]
  <2>1. Snapshot \in Rec /\ Snapshot.cat = cat BY DEF IInv, Types, Snapshot, Rec
  <2>2. disk \in Disk BY DEF IInv, Types
  <2> HIDE DEF Snapshot
  <2>3. CASE disk' = [disk EXCEPT !.rec = Snapshot] BY <2>1, <2>2, <2>3 DEF Disk
  <2>4. CASE disk' = disk /\ unsaved' = Sets BY <2>2, <2>4
  <2> QED BY <1>1, <2>3, <2>4
<1>3. Types' BY <1>1, <1>2 DEF IInv, Types
<1>4. Places' BY <1>1 DEF IInv, Places, PlaceOK
<1>5. ClaimsOK' BY <1>1 DEF IInv, ClaimsOK, Claiming
<1>6. KeptOK' BY <1>1, <1>2 DEF IInv, KeptOK
<1>7. DescribedOK'
  <2>1. Described' BY <1>1 DEF IInv, DescribedOK, Described
  <2>2. \A g \in Handlers : RowFor(op[g].key)' = RowFor(op[g].key) BY <1>1 DEF RowFor
  <2> QED BY <2>1, <2>2, <1>1, <1>2 DEF IInv, DescribedOK
<1>8. TagOK' BY <1>1 DEF TagOK
<1>9. StopOK' BY <1>1, <1>2 DEF StopOK, InEngine
<1> QED BY <1>3, <1>4, <1>5, <1>6, <1>7, <1>8, <1>9 DEF IInv

\* What holds of any state in which the process has just started or is not there.
LEMMA GoneFacts ==
  ASSUME op = [p \in Procs |-> Idle]
  PROVE  /\ op \in [Procs -> Op] /\ Places /\ \A p \in Procs : ~InEngine(p) /\ op[p].at = "idle"
         /\ \A h \in Handlers : ~Claiming(op[h]) /\ op[h].at \notin Writing
<1>1. \A p \in Procs : op[p] = Idle /\ op[p].at = "idle" BY IdleFacts
<1>2. op \in [Procs -> Op] BY IdleFacts
<1>3. Places BY <1>1, IdleFacts DEF Places
<1>4. \A p \in Procs : ~InEngine(p) BY <1>1 DEF InEngine
<1>5. \A h \in Handlers : ~Claiming(op[h]) /\ op[h].at \notin Writing
  BY <1>1, ProcFacts DEF Claiming, Writing
<1> QED BY <1>1, <1>2, <1>3, <1>4, <1>5

LEMMA GoneStep ==
  ASSUME Gone
  PROVE  /\ op' \in [Procs -> Op] /\ Places' /\ \A p \in Procs : ~InEngine(p)' /\ op'[p].at = "idle"
         /\ ClaimsOK' /\ idem' = {} /\ claims' = {}
<1>1. op' = [p \in Procs |-> Idle] /\ idem' = {} /\ claims' = {} BY DEF Gone
<1>2. \A p \in Procs : op'[p] = Idle /\ op'[p].at = "idle" BY <1>1, IdleFacts
<1>3. op' \in [Procs -> Op] BY <1>1, IdleFacts
<1>4. Places' BY <1>2, IdleFacts DEF Places, PlaceOK
<1>5. \A p \in Procs : ~InEngine(p)' BY <1>2 DEF InEngine
<1>6. \A h \in Handlers : op'[h].at \notin Writing \cup {"seen"} BY <1>2, ProcFacts DEF Writing
<1>7. ClaimsOK' BY <1>6 DEF ClaimsOK, Claiming
<1> QED BY <1>1, <1>2, <1>3, <1>4, <1>5, <1>7

LEMMA CrashStep ==
  ASSUME IInv, Crash
  PROVE  IInv'
<1>1. /\ state' = "down" /\ disk' = safe /\ cat' = safe.rec.cat /\ ver' = safe.rec.ver
      /\ promised' = promised \cap safe.rows /\ orphaned' = safe.rows
      /\ UNCHANGED <<safe, copy, lasting>> /\ Gone
  BY DEF Crash
<1>2. safe \in Disk /\ safe.rec \in Rec /\ safe.rec.cat \in Cat /\ safe.rec.ver \in Nat
  BY DEF IInv, Types, Disk, Rec
<1>3. Types' BY <1>1, <1>2, GoneStep DEF IInv, Types
<1>4. KeptOK' BY <1>1 DEF IInv, KeptOK
<1>5. DescribedOK'
  <2>1. Described' BY <1>1 DEF Described
  <2> QED BY <2>1, <1>1 DEF DescribedOK
<1>6. TagOK' BY <1>1 DEF TagOK
<1>7. StopOK'
  <2> QED BY <1>1, GoneStep DEF StopOK
<1> QED BY <1>1, <1>3, <1>4, <1>5, <1>6, <1>7, GoneStep DEF IInv

LEMMA OpenStep ==
  ASSUME IInv, Open
  PROVE  IInv'
<1>1. /\ state = "down" /\ state' = "open" /\ cat' = disk.rec.cat /\ ver' = disk.rec.ver
      /\ copy' = [ver |-> ver', body |-> Shown']
      /\ orphaned' = orphaned \cup {r \in disk.rows : r.set \in unsaved}
      /\ UNCHANGED <<disk, safe, promised, lasting>> /\ Gone
  BY DEF Open
<1>2. /\ \A s \in Sets \ unsaved : cat'[s] = cat[s]
      /\ \A p \in Procs : ~InEngine(p)
  BY <1>1 DEF IInv, StopOK
<1>3. cat' \in Cat /\ ver' \in Nat /\ copy'.ver = ver' /\ copy'.body = Shown'
  BY <1>1 DEF IInv, Types, Disk, Rec
<1>4. Types' BY <1>1, <1>3, GoneStep DEF IInv, Types
<1>5. KeptOK' BY <1>1 DEF IInv, KeptOK
<1>6. DescribedOK'
  <2>a. \A r \in disk.rows : r \in orphaned \/ r.kind \in cat[r.set].cols
    <3>1. \A h \in Handlers : op[h].at # "observe" BY <1>2, ProcFacts DEF InEngine
    <3> QED BY <3>1 DEF IInv, DescribedOK
  <2>b. \A r \in disk.rows : r.set \in Sets BY RowSets DEF IInv
  <2>1. \A r \in disk.rows : r \in orphaned' \/ r.kind \in cat'[r.set].cols
    BY <2>a, <2>b, <1>1, <1>2
  <2>2. promised \subseteq disk.rows BY DEF IInv, KeptOK
  <2> QED BY <2>1, <2>2, <1>1 DEF DescribedOK, Described
<1>7. TagOK' BY <1>3 DEF TagOK
<1>8. StopOK' BY <1>1 DEF StopOK
<1> QED BY <1>1, <1>4, <1>5, <1>6, <1>7, <1>8, GoneStep DEF IInv

-----------------------------------------------------------------------------
(* The theorems.                                                           *)

LEMMA InitHolds ==
  ASSUME Init
  PROVE  IInv
<1>1. PICK old \in SUBSET Before : cat = [s \in Sets |-> [NoEntry EXCEPT !.on = s \in old]]
  BY DEF Init
<1>2. /\ ver = 0 /\ idem = {} /\ claims = {} /\ state = "open" /\ safe = disk
      /\ promised = {} /\ lasting = {}
  BY DEF Init
<1>3. disk = [rec |-> Snapshot, rows |-> {}] /\ copy = [ver |-> 0, body |-> Shown] BY DEF Init
<1>4. op = [p \in Procs |-> Idle] BY DEF Init
<1>5. cat \in Cat
  <2> DEFINE T == [on : BOOLEAN, ret : {Undeclared}, cols : {{}}, meta : {""}]
             e(b) == [NoEntry EXCEPT !.on = b]
  <2>1. NoEntry \in T /\ NoEntry.on = FALSE BY DEF NoEntry
  <2>2. \A b \in BOOLEAN : e(b) \in T /\ e(b).on = b BY <2>1
  <2>3. ASSUME NEW x \in T, NEW y \in T, x.on = y.on PROVE x = y
    <3>1. x.ret = y.ret /\ x.cols = y.cols /\ x.meta = y.meta OBVIOUS
    <3>2. x = [on |-> x.on, ret |-> x.ret, cols |-> x.cols, meta |-> x.meta] OBVIOUS
    <3>3. y = [on |-> y.on, ret |-> y.ret, cols |-> y.cols, meta |-> y.meta] OBVIOUS
    <3>4. [on |-> x.on, ret |-> x.ret, cols |-> x.cols, meta |-> x.meta]
            = [on |-> y.on, ret |-> y.ret, cols |-> y.cols, meta |-> y.meta]
      BY <3>1, <2>3, Zenon
    <3> HIDE DEF T
    <3> QED BY <3>2, <3>3, <3>4, Zenon
  <2>a. ASSUME NEW x \in T PROVE x \in Entry
    <3>1. x = [on |-> x.on, ret |-> x.ret, cols |-> x.cols, meta |-> x.meta] OBVIOUS
    <3>2. x.on \in BOOLEAN /\ x.ret = Undeclared /\ x.cols = {} /\ x.meta = "" OBVIOUS
    <3> HIDE DEF T
    <3>3. x.ret \in Rets BY <3>2, Zenon DEF Rets
    <3>4. x.cols \in SUBSET Kinds BY <3>2, Zenon
    <3>5. x.meta \in {"", "unit", "bad"} BY <3>2, Zenon
    <3> QED BY <3>1, <3>2, <3>3, <3>4, <3>5 DEF Entry
  <2>b. \A s \in Sets : cat[s] = e(s \in old) BY <1>1
  <2> HIDE DEF T, e
  <2>4. \A s \in Sets : cat[s] \in Entry /\ (~cat[s].on => cat[s] = NoEntry)
    <3> TAKE s \in Sets
    <3>1. cat[s] = e(s \in old) /\ (s \in old) \in BOOLEAN BY <2>b
    <3>2. cat[s] \in T /\ cat[s].on = (s \in old) BY <3>1, <2>2
    <3>3. ~cat[s].on => cat[s].on = NoEntry.on
      <4>1. ~cat[s].on => s \notin old BY <3>2
      <4>2. s \notin old => (s \in old) = FALSE OBVIOUS
      <4> QED BY <4>1, <4>2, <3>2, <2>1, Zenon
    <3> QED BY <3>2, <3>3, <2>1, <2>3, <2>a
  <2>5. cat \in [Sets -> Entry] BY <1>1, <2>4
  <2> QED BY <2>4, <2>5 DEF Cat
<1>6. disk \in Disk /\ disk.rows = {}
  <2>1. Snapshot \in Rec BY <1>2, <1>5 DEF Snapshot, Rec
  <2> QED BY <2>1, <1>3 DEF Disk
<1>7. copy.ver = 0 /\ copy.body = Shown BY <1>3
<1>8. Types BY <1>2, <1>4, <1>5, <1>6, <1>7, GoneFacts DEF Types
<1>9. ClaimsOK BY <1>4, GoneFacts DEF ClaimsOK
<1>10. KeptOK BY <1>2 DEF KeptOK
<1>11. DescribedOK BY <1>2, <1>6 DEF DescribedOK, Described
<1>12. TagOK BY <1>2, <1>7 DEF TagOK
<1>13. StopOK BY <1>2 DEF StopOK
<1> QED BY <1>4, <1>8, <1>9, <1>10, <1>11, <1>12, <1>13, GoneFacts DEF IInv

LEMMA NextPreserves ==
  ASSUME IInv, [Next]_vars
  PROVE  IInv'
<1>1. CASE UNCHANGED vars BY <1>1, OutsideStep DEF vars
<1>2. CASE \E h \in Handlers : Write(h) BY <1>2, WriteStep
<1>3. CASE \E h \in Handlers, k \in Keys : Arrive(h, k) BY <1>3, ArriveStep
<1>4. CASE \E p \in Procs : Bump(p) \/ SaveSnap(p) \/ SavePut(p) \/ Forget(p) \/ Unset(p)
  BY <1>4, BumpStep, SaveSnapStep, SavePutStep, ForgetStep, UnsetStep
<1>5. CASE \E s \in Sets : Drop(s) BY <1>5, DropStep
<1>6. CASE \E s \in Sets : \E gone \in SUBSET RowsIn(s) : Sweep(s, gone) BY <1>6, SweepStep
<1>7. CASE SweepLive \/ Gate \/ Tick BY <1>7, SweepLiveStep, GateStep, TickStep
<1>8. CASE Flush \/ Fetch \/ Close \/ \E k \in Keys : Expire(k) BY <1>8, OutsideSteps
<1>9. CASE CloseSave \/ Crash \/ Open BY <1>9, CloseSaveStep, CrashStep, OpenStep
<1> QED BY <1>1, <1>2, <1>3, <1>4, <1>5, <1>6, <1>7, <1>8, <1>9 DEF Next

LEMMA Inductive == Spec => []IInv
<1>1. Init => IInv BY InitHolds
<1>2. IInv /\ [Next]_vars => IInv' BY NextPreserves
<1> QED BY <1>1, <1>2, PTL DEF Spec

\* A request is written by one handler at a time, and never while its key is recorded:
\* idempotencyCache.acquire gives a key to one, and record comes before the release.
THEOREM RequestsAreWrittenOnce == Spec => []NeverTwice
<1>1. IInv => NeverTwice
  <2> SUFFICES ASSUME IInv, NEW h \in Handlers, NEW g \in Handlers
               PROVE  /\ op[h].at \in Writing => op[h].key \notin idem
                      /\ op[h].at \in Writing /\ op[g].at \in Writing /\ op[h].key = op[g].key => h = g
    BY DEF NeverTwice
  <2>1. /\ op[h].at \in Writing => Claiming(op[h])
        /\ op[g].at \in Writing => Claiming(op[g])
    BY DEF Claiming
  <2> QED BY <2>1 DEF IInv, ClaimsOK
<1> QED BY <1>1, Inductive, PTL

\* What Store.Write answered 200 for stays until a drop or the sweep removes it, and
\* what it answered as durable is not lost by a crash.
THEOREM AnsweredRowsStay == Spec => []AnsweredKept
<1>1. IInv => AnsweredKept BY DEF IInv, KeptOK, AnsweredKept
<1> QED BY <1>1, Inductive, PTL

\* observeSet describes the rows of an answered write, whatever declarations, drops,
\* sweeps and saves run beside it.
THEOREM AnsweredRowsAreDescribed == Spec => []Described
<1>1. IInv => Described BY DEF IInv, DescribedOK
<1> QED BY <1>1, Inductive, PTL

\* handleCatalogue never answers "not modified" for a catalogue that has changed, once
\* the change has moved catVer.
THEOREM TagsAreHonest == Spec => []ETagHonest
<1>1. IInv => ETagHonest BY DEF IInv, TagOK, Bumping, ETagHonest
<1> QED BY <1>1, Inductive, PTL

\* Store.Close leaves the rows on disk, and every entry of the catalogue as it was in
\* memory, unless the last save failed or an admin's drop took the entry away behind it:
\* drainEngine has waited for everything that was past enterEngine.
THEOREM StopsAreClean == Spec => []CleanStop
<1>1. IInv => CleanStop BY DEF IInv, StopOK, CleanStop
<1> QED BY <1>1, Inductive, PTL
=============================================================================
