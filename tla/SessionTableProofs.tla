------------------------- MODULE SessionTableProofs -------------------------
(***************************************************************************)
(* Proofs about SessionTable, for any set of callers.                      *)
(***************************************************************************)
EXTENDS SessionTable, TLAPS

\* Type correctness: every step of every call keeps each variable in its range.
THEOREM TypeCorrect == Spec => []TypeOK
<1>1. Init => TypeOK
  <2> SUFFICES ASSUME Init
               PROVE  TypeOK
    OBVIOUS
  <2>1. onDisk \in BOOLEAN /\ table \in {0, 1}
    BY DEF Init
  <2>2. table \in Nat /\ loads \in Nat
    BY <2>1 DEF Init
  <2> QED
    BY <2>1, <2>2 DEF Init, TypeOK, Ops, Steps, Returns, Results
<1>2. TypeOK /\ [Next]_vars => TypeOK'
  <2> SUFFICES ASSUME TypeOK, [Next]_vars
               PROVE  TypeOK'
    OBVIOUS
  <2> USE DEF TypeOK, Ops, Steps, Returns, Results, Local, shared, Goto, Answer, LoadIndex, Loaded, Resume
  <2>1. ASSUME NEW p \in Callers, NEW o \in Ops, Start(p, o)
        PROVE  TypeOK'
    BY <2>1 DEF Start
  <2>2. ASSUME NEW p \in Callers, CheckTomb(p)
        PROVE  TypeOK'
    BY <2>2 DEF CheckTomb
  <2>3. ASSUME NEW p \in Callers, LookUp(p)
        PROVE  TypeOK'
    BY <2>3 DEF LookUp
  <2>4. ASSUME NEW p \in Callers, ReadIndex(p)
        PROVE  TypeOK'
    BY <2>4 DEF ReadIndex
  <2>5. ASSUME NEW p \in Callers, Walk(p)
        PROVE  TypeOK'
    <3>1. \/ /\ pc' = [pc EXCEPT ![p] = "filter_walk"]
             /\ UNCHANGED result
          \/ /\ pc' = [pc EXCEPT ![p] = "detail"]
             /\ UNCHANGED result
          \/ /\ pc' = [pc EXCEPT ![p] = "done"]
             /\ result' = [result EXCEPT ![p] = "error"]
      BY <2>5 DEF Walk
    <3>2. /\ pc[p] = "walk" /\ found' \in [Callers -> BOOLEAN]
          /\ UNCHANGED <<shared, op, ret, late>>
      BY <2>5 DEF Walk
    <3>3. pc' \in [Callers -> Steps] /\ result' \in [Callers -> Results]
      BY <3>1
    <3>4. \A q \in Callers : pc'[q] = "done" <=> result'[q] # "none"
      BY <3>1, <3>2
    <3> QED
      BY <3>2, <3>3, <3>4
  <2>6. ASSUME NEW p \in Callers, FilterCached(p)
        PROVE  TypeOK'
    BY <2>6 DEF FilterCached
  <2>7. ASSUME NEW p \in Callers, FilterWalk(p)
        PROVE  TypeOK'
    BY <2>7 DEF FilterWalk
  <2>8. ASSUME NEW p \in Callers, StoreIndex(p)
        PROVE  TypeOK'
    BY <2>8 DEF StoreIndex
  <2>9. ASSUME NEW p \in Callers, CloneIndex(p)
        PROVE  TypeOK'
    BY <2>9 DEF CloneIndex
  <2>10. ASSUME NEW p \in Callers, Recheck(p)
         PROVE  TypeOK'
    BY <2>10 DEF Recheck
  <2>11. ASSUME NEW p \in Callers, Insert(p)
         PROVE  TypeOK'
    BY <2>11 DEF Insert
  <2>12. ASSUME NEW p \in Callers, ApplyDetail(p)
         PROVE  TypeOK'
    BY <2>12 DEF ApplyDetail
  <2>13. ASSUME NEW p \in Callers, Act(p)
         PROVE  TypeOK'
    BY <2>13 DEF Act
  <2>14. ASSUME NEW p \in Callers, Scan(p) \/ ScanIndex(p)
         PROVE  TypeOK'
    BY <2>14 DEF Scan, ScanIndex
  <2>15. ASSUME NEW p \in Callers, Remove(p)
         PROVE  TypeOK'
    <3>1. /\ table' \in {table, 0}
          /\ loads' = loads
      BY <2>15 DEF Remove
    <3>2. table' \in Nat /\ loads' \in Nat
      BY <3>1
    <3>3. tomb' \in BOOLEAN /\ index' \in BOOLEAN /\ down' \in BOOLEAN
      BY <2>15, Zenon DEF Remove
    <3>4. pc' \in [Callers -> Steps] /\ result' \in [Callers -> Results]
      BY <2>15 DEF Remove
    <3> QED
      BY <2>15, <3>2, <3>3, <3>4 DEF Remove
  <2>16. CASE ExpireIndex
    BY <2>16 DEF ExpireIndex, callVars
  <2>17. CASE UNCHANGED vars
    BY <2>17 DEF vars, callVars
  <2> QED
    BY <2>1, <2>2, <2>3, <2>4, <2>5, <2>6, <2>7, <2>8, <2>9, <2>10, <2>11, <2>12, <2>13,
       <2>14, <2>15, <2>16, <2>17 DEF Next, Step
<1> QED
  BY <1>1, <1>2, PTL DEF Spec

-----------------------------------------------------------------------------
\* Only Insert and Remove write the table, and only Remove the tombstone.
LEMMA TableWriters ==
  ASSUME [Next]_vars, \A p \in Callers : ~Insert(p) /\ ~Remove(p)
  PROVE  UNCHANGED <<table, tomb>>
<1>1. ASSUME NEW p \in Callers, Step(p)
      PROVE  UNCHANGED <<table, tomb>>
  BY <1>1 DEF Step, CheckTomb, LookUp, ReadIndex, Walk, FilterCached, FilterWalk,
     StoreIndex, CloneIndex, Recheck, ApplyDetail, Act, Scan, ScanIndex, Local, shared
<1>2. ASSUME NEW p \in Callers, NEW o \in Ops, Start(p, o)
      PROVE  UNCHANGED <<table, tomb>>
  BY <1>2 DEF Start, shared
<1>3. CASE ExpireIndex \/ UNCHANGED vars
  BY <1>3 DEF ExpireIndex, vars, shared
<1> QED
  BY <1>1, <1>2, <1>3 DEF Next

\* A tombstone is never taken away.
LEMMA TombStays == [Next]_vars /\ tomb => tomb'
<1> SUFFICES ASSUME [Next]_vars, tomb
             PROVE  tomb'
  OBVIOUS
<1>1. ASSUME NEW p \in Callers, Insert(p) \/ Remove(p)
      PROVE  tomb'
  BY <1>1 DEF Insert, Remove
<1>2. CASE \A p \in Callers : ~Insert(p) /\ ~Remove(p)
  BY <1>2, TableWriters
<1> QED
  BY <1>1, <1>2

\* A deleted session never returns to the table: of the two writers of table,
\* Insert tests the tombstone in the section that writes, and Remove clears.
THEOREM NoResurrectionAlways == Spec => []NoResurrection
<1>1. Init => NoResurrection
  BY DEF Init, NoResurrection
<1>2. NoResurrection /\ [Next]_vars => NoResurrection'
  <2> SUFFICES ASSUME NoResurrection, [Next]_vars
               PROVE  NoResurrection'
    OBVIOUS
  <2>1. ASSUME NEW p \in Callers, Insert(p)
        PROVE  NoResurrection'
    BY <2>1 DEF Insert, NoResurrection
  <2>2. ASSUME NEW p \in Callers, Remove(p)
        PROVE  NoResurrection'
    BY <2>2 DEF Remove, NoResurrection
  <2>3. CASE \A p \in Callers : ~Insert(p) /\ ~Remove(p)
    BY <2>3, TableWriters DEF NoResurrection
  <2> QED
    BY <2>1, <2>2, <2>3
<1> QED
  BY <1>1, <1>2, PTL DEF Spec

\* A state that runs and subscribers may point to is never swapped for another:
\* Insert writes an empty entry only, and Remove empties it.
THEOREM NeverReplacedAlways == Spec => NeverReplaced
<1>1. [Next]_vars => [table' # table => table = 0 \/ table' = 0]_table
  <2> SUFFICES ASSUME [Next]_vars, table' # table
               PROVE  table = 0 \/ table' = 0
    OBVIOUS
  <2>1. PICK p \in Callers : Insert(p) \/ Remove(p)
    BY TableWriters
  <2> QED
    BY <2>1 DEF Insert, Remove
<1> QED
  BY <1>1, PTL DEF Spec, NeverReplaced
-----------------------------------------------------------------------------
\* A caller's local state.
Frame(p) == <<op[p], pc[p], ret[p], late[p], result[p]>>

\* A step of one call leaves the local state of the others alone.
LEMMA StepIsLocal ==
  ASSUME TypeOK, NEW p \in Callers, NEW q \in Callers, p # q,
         Step(p) \/ \E o \in Ops : Start(p, o)
  PROVE  Frame(q)' = Frame(q)
<1> USE DEF TypeOK, Local, Goto, Answer, LoadIndex, Frame
<1>1. CASE \E o \in Ops : Start(p, o)
  BY <1>1 DEF Start
<1>2. CASE CheckTomb(p) \/ ReadIndex(p) \/ Walk(p) \/ FilterWalk(p) \/ StoreIndex(p)
  BY <1>2 DEF CheckTomb, ReadIndex, Walk, FilterWalk, StoreIndex
<1>3. CASE LookUp(p)
  BY <1>3 DEF LookUp, Loaded
<1>4. CASE FilterCached(p) \/ CloneIndex(p)
  BY <1>4 DEF FilterCached, CloneIndex, Resume
<1>5. CASE Recheck(p) \/ ApplyDetail(p) \/ Scan(p) \/ ScanIndex(p)
  BY <1>5 DEF Recheck, ApplyDetail, Scan, ScanIndex
<1>6. CASE Insert(p)
  BY <1>6 DEF Insert, Loaded
<1>7. CASE Act(p)
  BY <1>7 DEF Act
<1>8. CASE Remove(p)
  BY <1>8 DEF Remove
<1> QED
  BY <1>1, <1>2, <1>3, <1>4, <1>5, <1>6, <1>7, <1>8 DEF Step

\* A deletion that succeeded has left its tombstone.
DeleteInv == \A p \in Callers : Deleted(p) => tomb

\* Only Remove, before there is a tombstone, makes a deletion succeed.
LEMMA DeleteStep ==
  ASSUME TypeOK, NEW p \in Callers, Step(p) \/ \E o \in Ops : Start(p, o)
  PROVE  Deleted(p)' => ~tomb /\ tomb'
<1> USE DEF TypeOK, Deleted, Local, Goto, Answer, LoadIndex
<1>1. CASE \E o \in Ops : Start(p, o)
  BY <1>1 DEF Start
<1>2. CASE CheckTomb(p) \/ ReadIndex(p) \/ Walk(p) \/ FilterWalk(p) \/ StoreIndex(p)
  BY <1>2 DEF CheckTomb, ReadIndex, Walk, FilterWalk, StoreIndex
<1>3. CASE LookUp(p)
  BY <1>3 DEF LookUp, Loaded
<1>4. CASE FilterCached(p) \/ CloneIndex(p)
  BY <1>4 DEF FilterCached, CloneIndex, Resume
<1>5. CASE Recheck(p) \/ ApplyDetail(p) \/ Scan(p) \/ ScanIndex(p)
  BY <1>5 DEF Recheck, ApplyDetail, Scan, ScanIndex
<1>6. CASE Insert(p)
  BY <1>6 DEF Insert, Loaded
<1>7. CASE Act(p)
  BY <1>7 DEF Act
<1>8. CASE Remove(p)
  BY <1>8 DEF Remove
<1> QED
  BY <1>1, <1>2, <1>3, <1>4, <1>5, <1>6, <1>7, <1>8 DEF Step

\* Of any number of concurrent deletions at most one succeeds: the second finds
\* the tombstone of the first in the section that would have set its own.
THEOREM DeletionsCorrect == Spec => [](DeleteInv /\ DeletedOnce)
<1>1. Init => DeleteInv /\ DeletedOnce
  BY DEF Init, DeleteInv, Deleted, DeletedOnce
<1>2. TypeOK /\ DeleteInv /\ DeletedOnce /\ [Next]_vars => (DeleteInv /\ DeletedOnce)'
  <2> SUFFICES ASSUME TypeOK, DeleteInv, DeletedOnce, [Next]_vars
               PROVE  (DeleteInv /\ DeletedOnce)'
    OBVIOUS
  <2>1. ASSUME NEW p \in Callers, Step(p) \/ \E o \in Ops : Start(p, o)
        PROVE  (DeleteInv /\ DeletedOnce)'
    <3>1. \A q \in Callers \ {p} : Frame(q)' = Frame(q)
      BY <2>1, StepIsLocal
    <3>2. DeleteInv'
      BY <2>1, <3>1, DeleteStep, TombStays DEF DeleteInv, Deleted, Frame
    <3>3. DeletedOnce'
      BY <2>1, <3>1, DeleteStep DEF DeletedOnce, DeleteInv, Deleted, Frame
    <3> QED
      BY <3>2, <3>3
  <2>2. CASE ExpireIndex \/ UNCHANGED vars
    BY <2>2 DEF ExpireIndex, vars, shared, callVars, DeleteInv, Deleted, DeletedOnce
  <2> QED
    BY <2>1, <2>2 DEF Next
<1> QED
  BY <1>1, <1>2, TypeCorrect, PTL DEF Spec

\* In particular, deletions succeed at most once.
THEOREM DeletedOnceAlways == Spec => []DeletedOnce
  BY DeletionsCorrect, PTL
-----------------------------------------------------------------------------
\* What can be said of a call that started after the deletion: it has not got
\* past the first tombstone check, or it is listing, or it has been refused.
IndexSteps == {"read_index", "walk", "filter_cached", "filter_walk", "store", "clone"}

LatePath(p) ==
  \/ pc[p] = "tomb"
  \/ pc[p] \in IndexSteps /\ ret[p] = "scan"
  \/ pc[p] \in {"scan", "scan_index"}
  \/ pc[p] = "done" /\ result[p] \in {"not_found", "not_listed", "error"}

LateInv == \A p \in Callers : late[p] => tomb /\ LatePath(p)

\* A late call stays on its path: every exit from it meets the tombstone.
LEMMA LateStep ==
  ASSUME TypeOK, NoResurrection, NEW p \in Callers, tomb, late[p], LatePath(p), Step(p)
  PROVE  LatePath(p)'
<1> USE DEF TypeOK, LatePath, IndexSteps, Local, Goto, Answer, LoadIndex, Resume
<1>1. CASE CheckTomb(p)
  BY <1>1 DEF CheckTomb
<1>2. CASE ReadIndex(p) \/ FilterWalk(p) \/ StoreIndex(p)
  BY <1>2 DEF ReadIndex, FilterWalk, StoreIndex
<1>3. CASE Walk(p)
  BY <1>3 DEF Walk
<1>4. CASE FilterCached(p) \/ CloneIndex(p)
  BY <1>4 DEF FilterCached, CloneIndex
<1>5. CASE Scan(p) \/ ScanIndex(p)
  BY <1>5 DEF Scan, ScanIndex
<1>6. CASE LookUp(p) \/ Recheck(p) \/ Insert(p) \/ ApplyDetail(p) \/ Act(p) \/ Remove(p)
  BY <1>6 DEF LookUp, Recheck, Insert, ApplyDetail, Act, Remove
<1> QED
  BY <1>1, <1>2, <1>3, <1>4, <1>5, <1>6 DEF Step

\* A call that starts after the deletion is refused, whatever the index cache
\* and the loads under way say.
THEOREM LateCallsRefusedAlways == Spec => []LateCallsRefused
<1>1. Init => LateInv
  BY DEF Init, LateInv
<1>2. TypeOK /\ NoResurrection /\ DeleteInv /\ LateInv /\ [Next]_vars => LateInv'
  <2> SUFFICES ASSUME TypeOK, NoResurrection, DeleteInv, LateInv, [Next]_vars, NEW q \in Callers, late'[q]
               PROVE  tomb' /\ LatePath(q)'
    BY DEF LateInv
  <2>1. ASSUME NEW p \in Callers, Step(p) \/ \E o \in Ops : Start(p, o), p # q
        PROVE  tomb' /\ LatePath(q)'
    <3>1. Frame(q)' = Frame(q)
      BY <2>1, StepIsLocal
    <3>2. late[q] /\ tomb /\ LatePath(q)
      BY <3>1 DEF Frame, LateInv
    <3> QED
      BY <3>1, <3>2, TombStays DEF Frame, LatePath
  <2>2. CASE Step(q)
    <3>1. late[q]
      BY <2>2 DEF Step, CheckTomb, LookUp, ReadIndex, Walk, FilterCached, FilterWalk,
         StoreIndex, CloneIndex, Recheck, Insert, ApplyDetail, Act, Scan, ScanIndex,
         Remove, Local
    <3> QED
      BY <2>2, <3>1, LateStep, TombStays DEF LateInv
  <2>3. ASSUME NEW o \in Ops, Start(q, o)
        PROVE  tomb' /\ LatePath(q)'
    <3>1. \E p \in Callers : Deleted(p)
      BY <2>3 DEF Start, TypeOK
    <3>2. tomb /\ tomb'
      BY <2>3, <3>1 DEF DeleteInv, Start, shared
    <3> QED
      BY <2>3, <3>2 DEF Start, TypeOK, LatePath, IndexSteps, Goto, LoadIndex
  <2>4. CASE ExpireIndex \/ UNCHANGED vars
    BY <2>4 DEF ExpireIndex, vars, shared, callVars, LateInv, LatePath
  <2> QED
    BY <2>1, <2>2, <2>3, <2>4 DEF Next
<1>3. LateInv => LateCallsRefused
  BY DEF LateInv, LatePath, IndexSteps, LateCallsRefused
<1> QED
  BY <1>1, <1>2, <1>3, TypeCorrect, NoResurrectionAlways, DeletionsCorrect, PTL DEF Spec
-----------------------------------------------------------------------------
\* A call that has been told the session is loaded, and has not used it yet.
PastLoad(p) ==
  \/ pc[p] \in {"detail", "act"}
  \/ pc[p] \in IndexSteps /\ ret[p] = "detail"

\* What it was told is true, unless the session has been deleted since.
LoadedInv == \A p \in Callers : PastLoad(p) => table # 0 \/ tomb

\* Only a deletion undoes a load.
LEMMA LoadStays == TypeOK /\ [Next]_vars /\ (table # 0 \/ tomb) => (table # 0 \/ tomb)'
<1> SUFFICES ASSUME TypeOK, [Next]_vars, table # 0 \/ tomb
             PROVE  (table # 0 \/ tomb)'
  OBVIOUS
<1>1. ASSUME NEW p \in Callers, Insert(p)
      PROVE  (table # 0 \/ tomb)'
  BY <1>1 DEF Insert, TypeOK
<1>2. ASSUME NEW p \in Callers, Remove(p)
      PROVE  (table # 0 \/ tomb)'
  BY <1>2 DEF Remove
<1>3. CASE \A p \in Callers : ~Insert(p) /\ ~Remove(p)
  BY <1>3, TableWriters
<1> QED
  BY <1>1, <1>2, <1>3

\* The ways to be told so: the lookup under the mutex and the section that inserts.
LEMMA LoadStep ==
  ASSUME TypeOK, NEW p \in Callers, ~PastLoad(p), PastLoad(p)',
         Step(p) \/ \E o \in Ops : Start(p, o)
  PROVE  (table # 0 \/ tomb)'
<1> USE DEF TypeOK, PastLoad, IndexSteps, Local, Goto, Answer, LoadIndex, Loaded
<1>1. CASE \E o \in Ops : Start(p, o)
  BY <1>1 DEF Start
<1>2. CASE CheckTomb(p) \/ ReadIndex(p) \/ Walk(p) \/ FilterWalk(p) \/ StoreIndex(p)
  BY <1>2 DEF CheckTomb, ReadIndex, Walk, FilterWalk, StoreIndex
<1>3. CASE LookUp(p)
  BY <1>3 DEF LookUp, shared
<1>4. CASE FilterCached(p) \/ CloneIndex(p)
  <2>1. /\ pc[p] \in IndexSteps /\ ret' = ret /\ ret[p] \in {"recheck", "scan", "remove"}
        /\ pc' = [pc EXCEPT ![p] = ret[p]] \/ pc' = [pc EXCEPT ![p] = "done"]
    BY <1>4 DEF FilterCached, CloneIndex, Resume, Returns
  <2> QED
    BY <2>1
<1>5. CASE Recheck(p) \/ ApplyDetail(p) \/ Scan(p) \/ ScanIndex(p)
  BY <1>5 DEF Recheck, ApplyDetail, Scan, ScanIndex
<1>6. CASE Insert(p)
  BY <1>6 DEF Insert
<1>7. CASE Act(p) \/ Remove(p)
  BY <1>7 DEF Act, Remove
<1> QED
  BY <1>1, <1>2, <1>3, <1>4, <1>5, <1>6, <1>7 DEF Step

\* A handler that panics, with the mutex or without, a run without a session and
\* the death of the process each take a deletion that came in between: as long as
\* the id has not been deleted, every call is sound and the mutex is not leaked.
SoundUnlessDeleted == tomb \/ (CallsSound /\ mu = "free")

LEMMA SoundStep ==
  ASSUME TypeOK, SoundUnlessDeleted, LoadedInv, [Next]_vars, NEW p \in Callers,
         Step(p) \/ \E o \in Ops : Start(p, o)
  PROVE  SoundUnlessDeleted'
<1> SUFFICES ASSUME ~tomb, ~tomb'
             PROVE  CallsSound' /\ mu' = "free"
  BY TombStays DEF SoundUnlessDeleted
<1>1. CallsSound /\ mu = "free"
  BY DEF SoundUnlessDeleted
<1>2. Act(p) => table # 0
  BY DEF Act, LoadedInv, PastLoad
<1>3. /\ UNCHANGED <<mu, down>>
      /\ result' = result \/ \E r \in {"ok", "not_found", "error", "listed", "not_listed"} :
                               result' = [result EXCEPT ![p] = r]
  <2> USE DEF Local, shared, Goto, Answer, LoadIndex
  <2>1. CASE \E o \in Ops : Start(p, o)
    BY <2>1 DEF Start
  <2>2. CASE CheckTomb(p) \/ ReadIndex(p) \/ Walk(p) \/ FilterWalk(p) \/ StoreIndex(p)
    BY <2>2 DEF CheckTomb, ReadIndex, Walk, FilterWalk, StoreIndex
  <2>3. CASE LookUp(p)
    BY <2>3 DEF LookUp
  <2>4. CASE FilterCached(p) \/ CloneIndex(p)
    BY <2>4 DEF FilterCached, CloneIndex, Resume
  <2>5. CASE Recheck(p) \/ ApplyDetail(p) \/ Scan(p) \/ ScanIndex(p)
    BY <2>5 DEF Recheck, ApplyDetail, Scan, ScanIndex
  <2>6. CASE Insert(p)
    BY <2>6 DEF Insert
  <2>7. CASE Act(p)
    BY <1>2, <2>7 DEF Act
  <2>8. CASE Remove(p)
    BY <2>8 DEF Remove
  <2> QED
    BY <2>1, <2>2, <2>3, <2>4, <2>5, <2>6, <2>7, <2>8 DEF Step
<1> QED
  BY <1>1, <1>3 DEF CallsSound, NoHandlerPanics, RunsHaveSession, ProcessSurvives, TypeOK

THEOREM UnsoundOnlyWhenDeleted == Spec => []SoundUnlessDeleted
<1>1. Init => LoadedInv /\ SoundUnlessDeleted
  BY DEF Init, LoadedInv, PastLoad, IndexSteps, SoundUnlessDeleted, CallsSound, NoHandlerPanics,
         RunsHaveSession, ProcessSurvives
<1>2. TypeOK /\ LoadedInv /\ SoundUnlessDeleted /\ [Next]_vars => (LoadedInv /\ SoundUnlessDeleted)'
  <2> SUFFICES ASSUME TypeOK, LoadedInv, SoundUnlessDeleted, [Next]_vars
               PROVE  (LoadedInv /\ SoundUnlessDeleted)'
    OBVIOUS
  <2>1. ASSUME NEW p \in Callers, Step(p) \/ \E o \in Ops : Start(p, o)
        PROVE  (LoadedInv /\ SoundUnlessDeleted)'
    <3>1. ASSUME NEW q \in Callers, PastLoad(q)'
          PROVE  (table # 0 \/ tomb)'
      <4>1. CASE PastLoad(q)
        BY <4>1, LoadStays DEF LoadedInv
      <4>2. CASE ~PastLoad(q)
        <5>1. p = q
          BY <2>1, <3>1, <4>2, StepIsLocal DEF Frame, PastLoad
        <5> QED
          BY <2>1, <3>1, <4>2, <5>1, LoadStep
      <4> QED
        BY <4>1, <4>2
    <3> QED
      BY <2>1, <3>1, SoundStep DEF LoadedInv
  <2>2. CASE ExpireIndex \/ UNCHANGED vars
    BY <2>2 DEF ExpireIndex, vars, shared, callVars, LoadedInv, PastLoad, SoundUnlessDeleted, CallsSound,
                NoHandlerPanics, RunsHaveSession, ProcessSurvives
  <2> QED
    BY <2>1, <2>2 DEF Next
<1> QED
  BY <1>1, <1>2, TypeCorrect, PTL DEF Spec
=============================================================================
