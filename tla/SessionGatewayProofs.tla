------------------------ MODULE SessionGatewayProofs ------------------------
(***************************************************************************)
(* Proofs about SessionGateway, for any callers, meta data and bounds.     *)
(***************************************************************************)
EXTENDS SessionGateway, TLAPS

USE DEF Adapter!state, Adapter!historyVars, Store!metaVars, Store!Entries,
        adapterVars, storeVars, requestVars

\* The adapter's operations keep its variables in their ranges, the log at least
\* as long as the file it was made from, and UpdatedAt behind the file.
LEMMA AdapterType ==
  ASSUME Adapter!TypeOK,
         \/ Adapter!Background \/ Adapter!CreateSession \/ Adapter!DeleteSession
         \/ Adapter!Restart \/ \E p \in Callers : Adapter!SyncHistory(p)
  PROVE  Adapter!TypeOK'
<1> USE DEF Adapter!TypeOK
<1>1. CASE Adapter!Background
  BY <1>1 DEF Adapter!Background, Adapter!AgentSaves, Adapter!SendLog,
              Adapter!AppendEvent, Adapter!SetStatus
<1>2. CASE Adapter!CreateSession
  <2>1. /\ UNCHANGED <<file, snap, deleted, given, reused>>
        /\ alive' \in BOOLEAN /\ imported' \in BOOLEAN /\ status' = "idle"
    BY <1>2 DEF Adapter!CreateSession
  <2>2. length' = 0 /\ known' = 0 /\ shown' = 0
    BY <1>2 DEF Adapter!CreateSession
  <2> QED
    BY <2>1, <2>2
<1>3. CASE Adapter!DeleteSession
  BY <1>3 DEF Adapter!DeleteSession
<1>4. CASE Adapter!Restart
  <2>1. snap' \in [Callers -> Nat] /\ \A p \in Callers : snap'[p] <= file'
    BY <1>4 DEF Adapter!Restart
  <2>2. /\ alive' = FALSE /\ deleted' = FALSE /\ imported' = FALSE /\ reused' = FALSE
        /\ status' = "idle" /\ file' = file
    BY <1>4 DEF Adapter!Restart
  <2>3. length' \in Nat /\ known' \in Nat /\ shown' \in Nat /\ given' \in Nat
    BY <1>4 DEF Adapter!Restart
  <2> QED
    BY <2>1, <2>2, <2>3
<1>5. ASSUME NEW p \in Callers, Adapter!SyncHistory(p)
      PROVE  Adapter!TypeOK'
  <2> USE <1>5 DEF Adapter!SyncHistory
  <2>1. snap[p] \in Nat /\ snap[p] <= file
    OBVIOUS
  <2>2. UNCHANGED <<file, snap, deleted, given, reused>>
    OBVIOUS
  <2>3. CASE snap[p] = 0 \/ deleted
    BY <2>2, <2>3
  <2>4. CASE ~(snap[p] = 0 \/ deleted) /\ ~alive
    <3>1. length' = snap[p] /\ known' = snap[p] /\ shown' = snap[p] /\ status' = "idle"
          /\ alive' = TRUE /\ imported' = TRUE
      BY <2>4 DEF Adapter!Rebuild
    <3> QED
      BY <2>1, <2>2, <3>1
  <2>5. CASE ~(snap[p] = 0 \/ deleted) /\ alive
    <3>1. UNCHANGED <<alive, imported>>
      BY <2>5
    <3>2. \/ length' = snap[p] /\ known' = snap[p] /\ shown' = snap[p] /\ status' = "idle"
          \/ /\ known' = IF known < snap[p] THEN snap[p] ELSE known
             /\ UNCHANGED <<length, shown, status>>
      BY <2>5 DEF Adapter!Rebuild
    <3> QED
      BY <2>1, <2>2, <2>5, <3>1, <3>2
  <2> QED
    BY <2>3, <2>4, <2>5
<1> QED
  BY <1>1, <1>2, <1>3, <1>4, <1>5

\* The store's operations keep its variables in their ranges.
LEMMA StoreType ==
  ASSUME Store!TypeOK, NEW ok \in BOOLEAN,
         \/ Store!Load \/ Store!WriteOther(ok)
         \/ \E meta \in Metas \cup {NoMeta} : Store!Write(meta, ok)
  PROVE  Store!TypeOK'
BY DEF Store!TypeOK, Store!Load, Store!WriteOther, Store!Write, Store!Persist

\* Type correctness of the composition.
THEOREM TypeCorrect == Spec => []TypeOK
<1>1. Init => TypeOK
  <2> SUFFICES ASSUME Init
               PROVE  TypeOK
    OBVIOUS
  <2>1. Adapter!TypeOK
    <3>1. file \in Nat
      BY DEF Init, Adapter!Init
    <3>2. snap \in [Callers -> Nat] /\ \A p \in Callers : snap[p] <= file
      BY <3>1 DEF Init, Adapter!Init
    <3>3. alive = FALSE /\ deleted = FALSE /\ imported = FALSE /\ reused = FALSE /\ status = "idle"
      BY DEF Init, Adapter!Init
    <3>4. length \in Nat /\ known \in Nat /\ shown \in Nat /\ given \in Nat
      BY DEF Init, Adapter!Init
    <3> QED
      BY <3>1, <3>2, <3>3, <3>4 DEF Adapter!TypeOK
  <2>2. Store!TypeOK
    BY DEF Init, Store!Init, Store!TypeOK
  <2> QED
    BY <2>1, <2>2 DEF Init, TypeOK
<1>2. TypeOK /\ [Next]_vars => TypeOK'
  <2> SUFFICES ASSUME TypeOK, [Next]_vars
               PROVE  TypeOK'
    OBVIOUS
  <2> USE DEF TypeOK, Goto
  <2>1. ASSUME NEW p \in Callers, NEW o \in {"get", "put", "clear", "delete"},
               NEW m \in Metas \cup {NoMeta}, Arrive(p, o, m)
        PROVE  TypeOK'
    <3>1. UNCHANGED <<file, alive, deleted, imported, status, length, known, shown, given,
                      reused, storeVars, overtaken>>
      BY <2>1 DEF Arrive
    <3>2. snap' \in [Callers -> Nat] /\ \A q \in Callers : snap'[q] <= file
      BY <2>1 DEF Arrive, Adapter!TypeOK
    <3>3. Adapter!TypeOK' /\ Store!TypeOK'
      BY <3>1, <3>2 DEF Adapter!TypeOK, Store!TypeOK
    <3>4. alone' \in [Callers -> BOOLEAN] /\ expect' \in Metas \cup {NoMeta, Unknown}
      BY <2>1 DEF Arrive
    <3> QED
      BY <2>1, <3>1, <3>3, <3>4 DEF Arrive
  <2>2. ASSUME NEW p \in Callers, Sync(p)
        PROVE  TypeOK'
    <3>1. Adapter!TypeOK'
      BY <2>2, AdapterType DEF Sync
    <3> QED
      BY <2>2, <3>1 DEF Sync, Store!TypeOK
  <2>3. ASSUME NEW p \in Callers, Find(p) \/ Get(p) \/ Answer(p)
        PROVE  TypeOK'
    BY <2>3 DEF Find, Get, Answer, Adapter!TypeOK, Store!TypeOK
  <2>4. ASSUME NEW p \in Callers, Delete(p)
        PROVE  TypeOK'
    <3>1. Adapter!TypeOK'
      <4>1. CASE Adapter!DeleteSession
        BY <4>1, AdapterType
      <4>2. CASE UNCHANGED adapterVars
        BY <4>2 DEF Adapter!TypeOK
      <4> QED
        BY <2>4, <4>1, <4>2 DEF Delete
    <3> QED
      BY <2>4, <3>1 DEF Delete, Store!TypeOK
  <2>5. ASSUME NEW p \in Callers, NEW ok \in BOOLEAN, Save(p, ok) \/ Drop(p, ok)
        PROVE  TypeOK'
    <3>1. Store!TypeOK'
      BY <2>5, StoreType DEF Save, Drop
    <3> QED
      BY <2>5, <3>1 DEF Save, Drop, Adapter!TypeOK
  <2>6. CASE Background
    <3>1. CASE /\ Adapter!Background \/ Adapter!CreateSession
               /\ UNCHANGED <<storeVars, requestVars>>
      BY <3>1, AdapterType DEF Store!TypeOK
    <3>2. ASSUME NEW ok \in BOOLEAN, Store!WriteOther(ok), UNCHANGED <<adapterVars, requestVars>>
          PROVE  TypeOK'
      BY <3>2, StoreType DEF Adapter!TypeOK
    <3> QED
      BY <2>6, <3>1, <3>2 DEF Background
  <2>7. CASE Restart
    <3>1. Adapter!TypeOK' /\ Store!TypeOK'
      BY <2>7, AdapterType, StoreType DEF Restart
    <3> QED
      BY <2>7, <3>1 DEF Restart
  <2>8. CASE UNCHANGED vars
    BY <2>8 DEF vars, Adapter!TypeOK, Store!TypeOK
  <2> QED
    BY <2>1, <2>2, <2>3, <2>4, <2>5, <2>6, <2>7, <2>8 DEF Next, Request
<1> QED
  BY <1>1, <1>2, PTL DEF Spec
-----------------------------------------------------------------------------
\* What each step does to the session: it is deleted and imported by the
\* adapter's operations alone, and a log is made only from what is newer.
LEMMA SessionMoves ==
  ASSUME TypeOK, [Next]_vars
  PROVE  /\ NoResurrection => NoResurrection'
         /\ alive /\ alive' => shown' >= shown
         /\ deleted' => deleted \/ \E p \in Callers : pc[p] = "deleting" /\ pc'[p] = "removed"
<1> USE DEF TypeOK, Adapter!TypeOK, NoResurrection, Goto
<1> DEFINE Goal == /\ NoResurrection => NoResurrection'
                   /\ alive /\ alive' => shown' >= shown
                   /\ deleted' => deleted \/ \E p \in Callers : pc[p] = "deleting" /\ pc'[p] = "removed"
<1>1. ASSUME NEW p \in Callers, Sync(p)
      PROVE  Goal
  <2>1. CASE snap[p] = 0 \/ deleted
    BY <1>1, <2>1 DEF Sync, Adapter!SyncHistory
  <2>2. CASE ~(snap[p] = 0 \/ deleted)
    BY <1>1, <2>2 DEF Sync, Adapter!SyncHistory, Adapter!Rebuild
  <2> QED
    BY <2>1, <2>2
<1>2. ASSUME NEW p \in Callers,
             \/ Find(p) \/ Get(p) \/ Answer(p) \/ \E ok \in BOOLEAN : Save(p, ok) \/ Drop(p, ok)
             \/ \E o \in {"get", "put", "clear", "delete"}, m \in Metas \cup {NoMeta} : Arrive(p, o, m)
      PROVE  Goal
  BY <1>2 DEF Find, Get, Answer, Save, Drop, Arrive
<1>3. ASSUME NEW p \in Callers, Delete(p)
      PROVE  Goal
  BY <1>3 DEF Delete, Adapter!DeleteSession
<1>4. CASE Background
  BY <1>4 DEF Background, Adapter!Background, Adapter!AgentSaves, Adapter!SendLog,
              Adapter!AppendEvent, Adapter!SetStatus, Adapter!CreateSession
<1>5. CASE Restart
  BY <1>5 DEF Restart, Adapter!Restart
<1>6. CASE UNCHANGED vars
  BY <1>6 DEF vars
<1> QED
  BY <1>1, <1>2, <1>3, <1>4, <1>5, <1>6 DEF Next, Request

\* A deleted session stays deleted, whatever calls read before the deletion.
THEOREM NoResurrectionAlways == Spec => []NoResurrection
<1>1. Init => NoResurrection
  BY DEF Init, Adapter!Init, NoResurrection
<1>2. NoResurrection /\ TypeOK /\ [Next]_vars => NoResurrection'
  BY SessionMoves
<1> QED
  BY <1>1, <1>2, TypeCorrect, PTL DEF Spec

\* The log is never made again from an older version of the file.
THEOREM SyncForwardAlways == Spec => SyncForward
<1>1. TypeOK /\ [Next]_vars => [alive /\ alive' => shown' >= shown]_vars
  BY SessionMoves
<1> QED
  BY <1>1, TypeCorrect, PTL DEF Spec, SyncForward
-----------------------------------------------------------------------------
\* Where each kind of request may stand.
KindInv ==
  \A p \in Callers :
    /\ pc[p] # "free" => (op[p] = "put" <=> body[p] # NoMeta)
    /\ pc[p] \in {"deleting", "removed"} => op[p] = "delete"
    /\ pc[p] \in {"written", "failed"} => op[p] \in Writes

LEMMA KindStep ==
  ASSUME TypeOK, KindInv, [Next]_vars
  PROVE  KindInv'
<1> USE DEF TypeOK, KindInv, Goto, Writes
<1>1. ASSUME NEW p \in Callers, Request(p)
      PROVE  KindInv'
  BY <1>1 DEF Request, Arrive, Sync, Find, Get, Save, Delete, Drop, Answer
<1>2. CASE Background
  BY <1>2 DEF Background
<1>3. CASE Restart
  BY <1>3 DEF Restart
<1>4. CASE UNCHANGED vars
  BY <1>4 DEF vars
<1> QED
  BY <1>1, <1>2, <1>3, <1>4 DEF Next

\* A write that is alone is the only one under way, and once it is written the
\* store has what it brought; an answer that still decides has no write after it.
SaveInv ==
  /\ expect # Unknown => Writing = {} /\ items = expect /\ (attached => disk = expect)
  /\ \A p \in Callers : p \in Writing /\ alone[p] => Writing = {p}
  /\ \A p \in Callers : pc[p] = "written" /\ alone[p] =>
       items = body[p] /\ (attached => disk = body[p])

\* What a client was told is saved stays saved.
THEOREM SavedIsKeptAlways == Spec => []SavedIsKept
<1>1. Init => KindInv /\ SaveInv
  BY DEF Init, KindInv, SaveInv, Writing
<1>2. KindInv /\ SaveInv /\ TypeOK /\ [Next]_vars => KindInv' /\ SaveInv'
  <2> SUFFICES ASSUME KindInv, SaveInv, TypeOK, [Next]_vars
               PROVE  SaveInv'
    BY KindStep
  <2> USE DEF TypeOK, Goto
  \* Steps that leave the store alone and move one request on or out.
  <2>1. ASSUME NEW p \in Callers, UNCHANGED <<storeVars, op, body, alone, expect>>,
               NEW l, pc' = [pc EXCEPT ![p] = l], pc[p] # "free", l # "written"
        PROVE  SaveInv'
    <3>1. Writing' \subseteq Writing /\ (p \notin Writing => p \notin Writing')
          /\ Writing \ {p} = Writing' \ {p}
      BY <2>1 DEF Writing
    <3> QED
      BY <2>1, <3>1 DEF SaveInv, Writing
  <2>2. ASSUME NEW p \in Callers, NEW o \in {"get", "put", "clear", "delete"},
               NEW m \in Metas \cup {NoMeta}, Arrive(p, o, m)
        PROVE  SaveInv'
    <3>1. pc[p] = "free" /\ p \notin Writing /\ UNCHANGED storeVars
          /\ (\A q \in Callers : q # p => pc'[q] = pc[q] /\ op'[q] = op[q] /\ body'[q] = body[q])
          /\ pc'[p] \in {"deleting", "read"} /\ op'[p] = o
      BY <2>2 DEF Arrive, Writing
    <3>2. CASE o \in Writes
      <4>1. expect' = Unknown /\ alone' = [q \in Callers |-> q = p /\ Writing = {}]
        BY <2>2, <3>2 DEF Arrive
      <4>2. Writing' = Writing \cup {p}
        BY <3>1, <3>2 DEF Writing
      <4> QED
        BY <3>1, <4>1, <4>2 DEF SaveInv
    <3>3. CASE o \notin Writes
      <4>1. UNCHANGED <<expect, alone>>
        BY <2>2, <3>3 DEF Arrive
      <4>2. Writing' = Writing
        BY <3>1, <3>3 DEF Writing
      <4> QED
        BY <3>1, <4>1, <4>2 DEF SaveInv
    <3> QED
      BY <3>2, <3>3
  <2>3. ASSUME NEW p \in Callers, Sync(p) \/ Find(p) \/ Get(p) \/ Delete(p)
        PROVE  SaveInv'
    <3>1. \E l \in {"synced", "found", "free", "removed"} : pc' = [pc EXCEPT ![p] = l]
      BY <2>3 DEF Sync, Find, Get, Delete
    <3> QED
      BY <2>3, <3>1, <2>1 DEF Sync, Find, Get, Delete
  <2>4. ASSUME NEW p \in Callers, NEW ok \in BOOLEAN, Save(p, ok) \/ Drop(p, ok)
        PROVE  SaveInv'
    <3>1. p \in Writing /\ pc[p] # "written"
      BY <2>4 DEF Save, Drop, Writing, KindInv, Writes
    <3>2. expect' = Unknown /\ UNCHANGED <<op, body, alone>> /\ Writing' = Writing
      BY <2>4, <3>1 DEF Save, Drop, SaveInv, Writing
    <3>3. \A q \in Callers : q # p => ~(pc'[q] = "written" /\ alone[q])
      <4> SUFFICES ASSUME NEW q \in Callers, q # p, pc[q] = "written", alone[q]
                   PROVE  FALSE
        BY <2>4 DEF Save, Drop
      <4>1. q \in Writing
        BY DEF KindInv, Writing
      <4> QED
        BY <3>1, <4>1 DEF SaveInv
    <3>4. pc'[p] = "written" => items' = body[p] /\ (attached' => disk' = body[p])
      BY <2>4 DEF Save, Drop, Store!Write, Store!Persist
    <3> QED
      BY <3>2, <3>3, <3>4 DEF SaveInv
  <2>5. ASSUME NEW p \in Callers, Answer(p)
        PROVE  SaveInv'
    <3>1. p \in Writing /\ p \notin Writing' /\ Writing' \subseteq Writing
          /\ UNCHANGED <<storeVars, op, body, alone>>
      BY <2>5 DEF Answer, Writing, KindInv
    <3>2. expect = Unknown
      BY <3>1 DEF SaveInv
    <3>3. \A q \in Callers : q \in Writing' \/ (pc'[q] = "written") => q # p /\ ~alone[q]
      <4> SUFFICES ASSUME NEW q \in Callers, q \in Writing' \/ (pc'[q] = "written")
                   PROVE  q # p /\ ~alone[q]
        OBVIOUS
      <4>1. q # p
        BY <2>5, <3>1 DEF Answer
      <4>2. q \in Writing
        BY <2>5, <3>1, <4>1 DEF Answer, KindInv, Writing
      <4> QED
        BY <3>1, <4>1, <4>2 DEF SaveInv
    <3>4. CASE pc[p] = "written" /\ alone[p]
      <4>1. expect' = body[p] /\ items' = body[p] /\ (attached' => disk' = body[p])
        BY <2>5, <3>1, <3>4 DEF Answer, SaveInv
      <4>2. Writing' = {}
        BY <3>1, <3>4 DEF SaveInv, Writing
      <4> QED
        BY <3>1, <3>3, <4>1, <4>2 DEF SaveInv
    <3>5. CASE ~(pc[p] = "written" /\ alone[p])
      BY <2>5, <3>1, <3>2, <3>3, <3>5 DEF Answer, SaveInv
    <3> QED
      BY <3>4, <3>5
  <2>6. CASE Background
    <3>1. Writing' = Writing /\ UNCHANGED requestVars
      BY <2>6 DEF Background, Writing
    <3>2. CASE UNCHANGED storeVars
      BY <3>1, <3>2 DEF SaveInv
    <3>3. ASSUME NEW ok \in BOOLEAN, Store!WriteOther(ok)
          PROVE  SaveInv'
      BY <3>1, <3>3 DEF SaveInv, Store!WriteOther, Store!Persist
    <3> QED
      BY <2>6, <3>2, <3>3 DEF Background
  <2>7. CASE Restart
    <3>1. Writing' = {} /\ \A p \in Callers : pc'[p] = "free"
      BY <2>7 DEF Restart, Writing
    <3> QED
      BY <2>7, <3>1 DEF SaveInv, Restart, Store!Load
  <2>8. CASE UNCHANGED vars
    <3>1. Writing' = Writing
      BY <2>8 DEF vars, Writing
    <3> QED
      BY <2>8, <3>1 DEF vars, SaveInv
  <2> QED
    BY <2>2, <2>3, <2>4, <2>5, <2>6, <2>7, <2>8 DEF Next, Request
<1>3. SaveInv => SavedIsKept
  BY DEF SaveInv, SavedIsKept
<1> QED
  BY <1>1, <1>2, <1>3, TypeCorrect, PTL DEF Spec
-----------------------------------------------------------------------------
\* After a deletion no PUT is about to use the store, unless one had found the
\* session before; and the entry is gone, or its removal is still to come.
LeftInv ==
  /\ NoResurrection
  /\ deleted /\ ~overtaken =>
       /\ \A q \in Callers : ~(pc[q] = "found" /\ op[q] = "put")
       /\ items = NoMeta \/ \E p \in Callers : pc[p] = "removed"

\* Once its deletion is answered the store has nothing of a session, unless a
\* PUT had found it before.
THEOREM NothingLeftAlways == Spec => []NothingLeft
<1>1. Init => KindInv /\ LeftInv
  BY DEF Init, KindInv, LeftInv, NoResurrection, Adapter!Init
<1>2. KindInv /\ LeftInv /\ TypeOK /\ [Next]_vars => KindInv' /\ LeftInv'
  <2> SUFFICES ASSUME KindInv, LeftInv, TypeOK, [Next]_vars
               PROVE  LeftInv'
    BY KindStep
  <2>0. NoResurrection'
    BY SessionMoves DEF LeftInv
  <2> USE DEF TypeOK, Goto
  <2>1. ASSUME NEW p \in Callers, Sync(p) \/ Find(p) \/ Get(p) \/ Answer(p)
        PROVE  LeftInv'
    <3>1. UNCHANGED <<items, deleted, overtaken, op>>
      BY <2>1 DEF Sync, Find, Get, Answer, Adapter!SyncHistory
    <3>2. \A q \in Callers : (pc'[q] = "removed" <=> pc[q] = "removed")
                             /\ (pc'[q] = "found" => pc[q] = "found" \/ alive)
      BY <2>1 DEF Sync, Find, Get, Answer
    <3> QED
      BY <2>0, <3>1, <3>2 DEF LeftInv, NoResurrection
  <2>2. ASSUME NEW p \in Callers, NEW o \in {"get", "put", "clear", "delete"},
               NEW m \in Metas \cup {NoMeta}, Arrive(p, o, m)
        PROVE  LeftInv'
    <3>1. UNCHANGED <<items, deleted, overtaken>>
      BY <2>2 DEF Arrive
    <3>2. \A q \in Callers : (pc'[q] = "removed" <=> pc[q] = "removed")
                             /\ (pc'[q] = "found" => pc[q] = "found" /\ op'[q] = op[q])
      BY <2>2 DEF Arrive
    <3> QED
      BY <2>0, <3>1, <3>2 DEF LeftInv
  <2>3. ASSUME NEW p \in Callers, Delete(p)
        PROVE  LeftInv'
    <3>1. CASE alive
      <4>1. pc'[p] = "removed" /\ op' = op
            /\ overtaken' = (overtaken \/ \E q \in Callers : pc[q] = "found" /\ op[q] = "put")
            /\ \A q \in Callers : pc'[q] = "found" => pc[q] = "found"
        BY <2>3, <3>1 DEF Delete
      <4> QED
        BY <2>0, <4>1 DEF LeftInv
    <3>2. CASE ~alive
      <4>1. UNCHANGED <<items, deleted, overtaken, op>>
        BY <2>3, <3>2 DEF Delete
      <4>2. \A q \in Callers : (pc'[q] = "removed" <=> pc[q] = "removed")
                               /\ (pc'[q] = "found" => pc[q] = "found")
        BY <2>3, <3>2 DEF Delete
      <4> QED
        BY <2>0, <4>1, <4>2 DEF LeftInv
    <3> QED
      BY <3>1, <3>2
  <2>4. ASSUME NEW p \in Callers, NEW ok \in BOOLEAN, Save(p, ok)
        PROVE  LeftInv'
    <3>1. deleted /\ ~overtaken => items' = NoMeta
      <4>1. items' = body[p] /\ pc[p] = "found"
        BY <2>4 DEF Save, Store!Write
      <4> QED
        BY <4>1 DEF LeftInv, KindInv
    <3>2. UNCHANGED <<deleted, overtaken, op>> /\ \A q \in Callers : pc'[q] = "found" => pc[q] = "found"
      BY <2>4 DEF Save
    <3> QED
      BY <2>0, <3>1, <3>2 DEF LeftInv
  <2>5. ASSUME NEW p \in Callers, NEW ok \in BOOLEAN, Drop(p, ok)
        PROVE  LeftInv'
    <3>1. items' = NoMeta /\ UNCHANGED <<deleted, overtaken, op>>
          /\ \A q \in Callers : pc'[q] = "found" => pc[q] = "found"
      BY <2>5 DEF Drop, Store!Write
    <3> QED
      BY <2>0, <3>1 DEF LeftInv
  <2>6. CASE Background
    <3>1. UNCHANGED <<requestVars, items, deleted>>
      BY <2>6 DEF Background, Store!WriteOther, Adapter!Background, Adapter!AgentSaves,
                  Adapter!SendLog, Adapter!AppendEvent, Adapter!SetStatus, Adapter!CreateSession
    <3> QED
      BY <2>0, <3>1 DEF LeftInv
  <2>7. CASE Restart
    BY <2>0, <2>7 DEF Restart, Adapter!Restart, LeftInv
  <2>8. CASE UNCHANGED vars
    BY <2>0, <2>8 DEF vars, LeftInv
  <2> QED
    BY <2>1, <2>2, <2>3, <2>4, <2>5, <2>6, <2>7, <2>8 DEF Next, Request
<1>3. LeftInv => NothingLeft
  BY DEF LeftInv, NothingLeft
<1> QED
  BY <1>1, <1>2, <1>3, TypeCorrect, PTL DEF Spec
-----------------------------------------------------------------------------
\* Every step of the composition is a step of the adapter or leaves it alone: the
\* handlers change the adapter's tables in no way of their own, so that whatever is
\* true of PicoHistory by itself is true here.
LEMMA AdapterStep == TypeOK /\ [Next]_vars => [Adapter!Next]_(Adapter!historyVars)
<1> SUFFICES ASSUME TypeOK, [Next]_vars
             PROVE  Adapter!Next \/ UNCHANGED adapterVars
  OBVIOUS
<1>1. ASSUME NEW p \in Callers, NEW o \in {"get", "put", "clear", "delete"},
             NEW m \in Metas \cup {NoMeta}, Arrive(p, o, m)
      PROVE  Adapter!Next \/ UNCHANGED adapterVars
  <2>1. UNCHANGED <<file, alive, deleted, imported, status, length, known, shown, given, reused>>
    BY <1>1 DEF Arrive
  <2>2. snap' = snap \/ snap' = [snap EXCEPT ![p] = file]
    BY <1>1 DEF Arrive
  <2> QED
    BY <2>1, <2>2 DEF Adapter!Next, Adapter!ReadHistory
<1>2. ASSUME NEW p \in Callers, Sync(p)
      PROVE  Adapter!Next
  BY <1>2 DEF Sync, Adapter!Next
<1>3. ASSUME NEW p \in Callers, NEW ok \in BOOLEAN,
             Find(p) \/ Get(p) \/ Answer(p) \/ Save(p, ok) \/ Drop(p, ok)
      PROVE  UNCHANGED adapterVars
  BY <1>3 DEF Find, Get, Answer, Save, Drop
<1>4. ASSUME NEW p \in Callers, Delete(p)
      PROVE  Adapter!Next \/ UNCHANGED adapterVars
  BY <1>4 DEF Delete, Adapter!Next
<1>5. CASE Background \/ Restart
  BY <1>5 DEF Background, Restart, Adapter!Next
<1>6. CASE UNCHANGED vars
  BY <1>6 DEF vars
<1> QED
  BY <1>1, <1>2, <1>3, <1>4, <1>5, <1>6 DEF Next, Request

\* The composition implements its adapter.
THEOREM ImplementsAdapter == Spec => Adapter!Spec
<1>1. Init => Adapter!Init
  BY DEF Init
<1> QED
  BY <1>1, AdapterStep, TypeCorrect, PTL DEF Spec, Adapter!Spec

\* And of the store: a request writes an entry of the store as a whole, or not.
LEMMA StoreStep == TypeOK /\ [Next]_vars => [Store!Next]_(Store!metaVars)
<1> SUFFICES ASSUME TypeOK, [Next]_vars
             PROVE  Store!Next \/ UNCHANGED storeVars
  OBVIOUS
<1>1. ASSUME NEW p \in Callers, NEW ok \in BOOLEAN, Save(p, ok)
      PROVE  Store!Next
  <2>1. Store!Write(body[p], ok) /\ body[p] \in Metas \cup {NoMeta}
    BY <1>1 DEF Save, TypeOK
  <2> QED
    BY <2>1 DEF Store!Next
<1>2. ASSUME NEW p \in Callers, NEW ok \in BOOLEAN, Drop(p, ok)
      PROVE  Store!Next
  BY <1>2 DEF Drop, Store!Next
<1>3. ASSUME NEW p \in Callers,
             \/ Sync(p) \/ Find(p) \/ Get(p) \/ Delete(p) \/ Answer(p)
             \/ \E o \in {"get", "put", "clear", "delete"}, m \in Metas \cup {NoMeta} : Arrive(p, o, m)
      PROVE  UNCHANGED storeVars
  BY <1>3 DEF Sync, Find, Get, Delete, Answer, Arrive
<1>4. CASE Background \/ Restart
  BY <1>4 DEF Background, Restart, Store!Next
<1>5. CASE UNCHANGED vars
  BY <1>5 DEF vars
<1> QED
  BY <1>1, <1>2, <1>3, <1>4, <1>5 DEF Next, Request

\* The composition implements its store.
THEOREM ImplementsStore == Spec => Store!Spec
<1>1. Init => Store!Init
  BY DEF Init
<1> QED
  BY <1>1, StoreStep, TypeCorrect, PTL DEF Spec, Store!Spec
-----------------------------------------------------------------------------
\* A log is rebuilt only if it was imported, and what clients have been sent of
\* any other is still in it; before there is a session they have been sent nothing.
KeptInv ==
  /\ alive /\ ~imported => ~reused /\ given <= length
  /\ ~alive /\ ~deleted => ~reused /\ given = 0

\* A client is sent one seq twice only in a session that was imported from the
\* agent's files: in one that was created by the gateway, appendEvent alone writes
\* the log, whatever the agent saves and the calls of the server read.
OwnSeqsKept == alive /\ ~imported => Adapter!SeqNeverReused

LEMMA KeptInvStep ==
  ASSUME Adapter!TypeOK, KeptInv, [Adapter!Next]_(Adapter!historyVars)
  PROVE  KeptInv'
<1> USE DEF Adapter!TypeOK, KeptInv
<1>1. CASE Adapter!AgentSaves \/ Adapter!DeleteSession \/ \E p \in Callers : Adapter!ReadHistory(p)
  BY <1>1 DEF Adapter!AgentSaves, Adapter!DeleteSession, Adapter!ReadHistory
<1>2. CASE Adapter!SendLog
  BY <1>2 DEF Adapter!SendLog
<1>3. CASE Adapter!AppendEvent
  <2>1. CASE imported
    BY <1>3, <2>1 DEF Adapter!AppendEvent
  <2>2. CASE ~imported
    <3>1. /\ alive /\ alive' = alive /\ imported' = imported /\ length' = length + 1
          /\ given <= length /\ ~reused /\ given \in Nat /\ length \in Nat
          /\ reused' = (reused \/ length' <= given)
          /\ given' = IF length' > given THEN length' ELSE given
      BY <1>3, <2>2 DEF Adapter!AppendEvent
    <3>2. length' > given /\ ~(length' <= given)
      BY <3>1
    <3>3. ~reused' /\ given' = length'
      BY <3>1, <3>2
    <3> QED
      BY <3>1, <3>3
  <2> QED
    BY <2>1, <2>2
<1>4. CASE \E s \in {"idle", "running"} : Adapter!SetStatus(s)
  BY <1>4 DEF Adapter!SetStatus
<1>5. CASE Adapter!CreateSession
  BY <1>5 DEF Adapter!CreateSession
<1>6. ASSUME NEW p \in Callers, Adapter!SyncHistory(p)
      PROVE  KeptInv'
  BY <1>6 DEF Adapter!SyncHistory, Adapter!Rebuild
<1>7. CASE Adapter!Restart
  BY <1>7 DEF Adapter!Restart
<1>8. CASE UNCHANGED Adapter!historyVars
  BY <1>8
<1> QED
  BY <1>1, <1>2, <1>3, <1>4, <1>5, <1>6, <1>7, <1>8 DEF Adapter!Next, Adapter!Background

\* Seq numbers are only taken back from imported sessions, for any number of
\* requests and a file and log of any length.  The composition is a behaviour of
\* its adapter, so the steps of the adapter are enough.
THEOREM OwnSeqsKeptAlways == Spec => []OwnSeqsKept
<1>1. Init => KeptInv
  BY DEF Init, Adapter!Init, KeptInv
<1>2. TypeOK /\ KeptInv /\ [Next]_vars => KeptInv'
  BY AdapterStep, KeptInvStep DEF TypeOK
<1>3. KeptInv => OwnSeqsKept
  BY DEF KeptInv, OwnSeqsKept, Adapter!SeqNeverReused
<1> QED
  BY <1>1, <1>2, <1>3, TypeCorrect, PTL DEF Spec
=============================================================================
