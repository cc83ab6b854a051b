------------------------- MODULE RunLifecycleProofs -------------------------
(***************************************************************************)
(* Proofs about RunLifecycle, for any finite set of runs and any keys.     *)
(***************************************************************************)
EXTENDS RunLifecycle, FiniteSetTheorems, TLAPS

\* Whatever its kind, an event logged (or dropped) leaves well-formed logs.
LEMMA EmitType ==
  ASSUME TypeOK, NEW r \in Runs, NEW kind \in Kinds, Emit(r, kind)
  PROVE  out' \in [Runs -> Seq(Kinds)] /\ sending' \in [Runs -> BOOLEAN]
BY DEF Emit, TypeOK

\* Type correctness.
THEOREM TypeCorrect == Spec => []TypeOK
<1>1. Init => TypeOK
  BY DEF Init, TypeOK, Phases, Kinds
<1>2. TypeOK /\ [Next]_vars => TypeOK'
  <2> SUFFICES ASSUME TypeOK, [Next]_vars
               PROVE  TypeOK'
    OBVIOUS
  <2> USE DEF TypeOK, Phases, Kinds, Goto, Emit, ReadLine, config, session, keyVars, cliVars, log
  <2>1. ASSUME NEW r \in Runs, NEW key \in Keys \cup {NoKey}, Continue(r, key)
        PROVE  TypeOK'
    BY <2>1 DEF Continue
  <2>2. ASSUME NEW k \in Keys, Expire(k)
        PROVE  TypeOK'
    BY <2>2 DEF Expire
  <2>3. ASSUME NEW r \in Runs, Prompt(r)
        PROVE  TypeOK'
    BY <2>3 DEF Prompt
  <2>4. ASSUME NEW r \in Runs, StartCLI(r)
        PROVE  TypeOK'
    BY <2>4 DEF StartCLI
  <2>5. ASSUME NEW r \in Runs, DeltaLine(r)
        PROVE  TypeOK'
    BY <2>5 DEF DeltaLine
  <2>6. ASSUME NEW r \in Runs, ActionLine(r)
        PROVE  TypeOK'
    BY <2>6 DEF ActionLine
  <2>7. ASSUME NEW r \in Runs, CompletionLine(r)
        PROVE  TypeOK'
    BY <2>7 DEF CompletionLine
  <2>8. ASSUME NEW r \in Runs, ApprovalLine(r)
        PROVE  TypeOK'
    <3>1. lines' \in [Runs -> Nat] /\ blocked' \in [Runs -> BOOLEAN]
      BY <2>8 DEF ApprovalLine
    <3>2. out' \in [Runs -> Seq(Kinds)] /\ sending' \in [Runs -> BOOLEAN]
      <4>1. Emit(r, "action") \/ UNCHANGED log
        BY <2>8 DEF ApprovalLine
      <4> HIDE DEF Emit
      <4> QED
        BY <4>1, EmitType
    <3> QED
      BY <2>8, <3>1, <3>2 DEF ApprovalLine
  <2>9. ASSUME NEW r \in Runs, NEW timedOut \in BOOLEAN, NEW exitError \in BOOLEAN,
               Reap(r, timedOut, exitError)
        PROVE  TypeOK'
    BY <2>9 DEF Reap
  <2>10. ASSUME NEW r \in Runs, Close(r)
         PROVE  TypeOK'
    BY <2>10 DEF Close
  <2>11. ASSUME NEW r \in Runs, Fail(r)
         PROVE  TypeOK'
    <3>1. phase' \in [Runs -> Phases]
      BY <2>11 DEF Fail
    <3>2. out' \in [Runs -> Seq(Kinds)] /\ sending' \in [Runs -> BOOLEAN]
      <4>1. Emit(r, "error") \/ UNCHANGED log
        BY <2>11 DEF Fail
      <4> HIDE DEF Emit
      <4> QED
        BY <4>1, EmitType
    <3>3. UNCHANGED <<config, session, keyVars, counted, cliVars, mocked>>
      BY <2>11 DEF Fail
    <3> QED
      BY <3>1, <3>2, <3>3
  <2>12. ASSUME NEW r \in Runs, Mock(r)
         PROVE  TypeOK'
    <3>1. mocked[r] \in 0..3 /\ mocked' = [mocked EXCEPT ![r] = @ + 1]
      BY <2>12 DEF Mock, MockReply
    <3>2. mocked' \in [Runs -> 0..4] /\ mocked'[r] \in {1, 2, 3, 4}
      BY <3>1
    <3>3. MockReply[mocked'[r]] \in Kinds
      BY <3>2 DEF MockReply
    <3>4. out' \in [Runs -> Seq(Kinds)] /\ sending' \in [Runs -> BOOLEAN]
      BY <2>12, <3>3 DEF Mock
    <3>5. phase' \in [Runs -> Phases]
      BY <2>12 DEF Mock
    <3> QED
      BY <2>12, <3>2, <3>4, <3>5 DEF Mock
  <2>13. ASSUME NEW r \in Runs, Finish(r)
         PROVE  TypeOK'
    BY <2>13 DEF Finish
  <2>14. ASSUME NEW s \in {"idle", "running"}, SetSessionStatus(s) \/ ApplyHistoryDetail(s)
         PROVE  TypeOK'
    BY <2>14 DEF SetSessionStatus, ApplyHistoryDetail
  <2>15. CASE DeleteSession
    BY <2>15 DEF DeleteSession
  <2>16. CASE UNCHANGED vars
    BY <2>16 DEF vars
  <2>17. ASSUME NEW r \in Runs, Deliver(r)
         PROVE  TypeOK'
    BY <2>17 DEF Deliver
  <2> QED
    BY <2>1, <2>2, <2>3, <2>4, <2>5, <2>6, <2>7, <2>8, <2>9, <2>10, <2>11, <2>12, <2>13,
       <2>14, <2>15, <2>16, <2>17 DEF Next, RunStep
<1> QED
  BY <1>1, <1>2, PTL DEF Spec
-----------------------------------------------------------------------------
(***************************************************************************)
(* The count of active runs and the status.  ActiveRunsExact alone is not  *)
(* inductive: Finish subtracts one for its run, so the run must have been  *)
(* added, which holds because a live session has lived through the whole   *)
(* of each of its runs.                                                    *)
(***************************************************************************)

\* The steps of a run's goroutine but the last.
Work(r) ==
  \/ Prompt(r) \/ StartCLI(r)
  \/ DeltaLine(r) \/ ActionLine(r) \/ CompletionLine(r) \/ ApprovalLine(r)
  \/ \E timedOut, exitError \in BOOLEAN : Reap(r, timedOut, exitError)
  \/ Close(r) \/ Fail(r) \/ Mock(r)

CountedOnce == \A r \in Runs : counted[r] => phase[r] # "none"
AllCounted == live => \A r \in Runs : phase[r] # "none" => counted[r]
StatusFollows == live /\ activeRuns > 0 => status = "running"

CountInv == CountedOnce /\ AllCounted /\ StatusFollows /\ ActiveRunsExact

\* Until its last step a goroutine moves nothing but itself.
LEMMA WorkStep ==
  ASSUME TypeOK, NEW r \in Runs, Work(r)
  PROVE  /\ UNCHANGED <<live, status, activeRuns, counted>>
         /\ \A q \in Runs : q # r => phase'[q] = phase[q]
         /\ phase[r] \notin {"none", "emitted", "finished"}
         /\ phase'[r] \notin {"none", "finished"}
<1> USE DEF TypeOK, Goto, session, ReadLine
<1>1. CASE Prompt(r) \/ StartCLI(r) \/ Close(r) \/ Fail(r)
  BY <1>1 DEF Prompt, StartCLI, Close, Fail
<1>2. CASE DeltaLine(r) \/ ActionLine(r) \/ CompletionLine(r) \/ ApprovalLine(r)
  BY <1>2 DEF DeltaLine, ActionLine, CompletionLine, ApprovalLine
<1>3. ASSUME NEW timedOut \in BOOLEAN, NEW exitError \in BOOLEAN, Reap(r, timedOut, exitError)
      PROVE  /\ UNCHANGED <<live, status, activeRuns, counted>>
             /\ \A q \in Runs : q # r => phase'[q] = phase[q]
             /\ phase[r] \notin {"none", "emitted", "finished"}
             /\ phase'[r] \notin {"none", "finished"}
  BY <1>3 DEF Reap
<1>4. CASE Mock(r)
  BY <1>4 DEF Mock
<1> QED
  BY <1>1, <1>2, <1>3, <1>4 DEF Work

\* Only finitely many goroutines are at work, so they can be counted.
LEMMA WorkersFinite == IsFiniteSet(AtWork) /\ Cardinality(AtWork) \in Nat
<1>1. AtWork \subseteq Runs
  BY DEF AtWork
<1> QED
  BY <1>1, RunAssumption, FS_Subset, FS_CardinalityType

\* Every step keeps the count of the session and the goroutines in agreement.
LEMMA CountStep == TypeOK /\ CountInv /\ [Next]_vars => CountInv'
<1> SUFFICES ASSUME TypeOK, CountInv, [Next]_vars
             PROVE  CountInv'
  OBVIOUS
<1> USE DEF CountInv
<1>1. ASSUME NEW r \in Runs, Work(r)
      PROVE  CountInv'
  <2>1. AtWork' = AtWork
    BY <1>1, WorkStep DEF AtWork, TypeOK
  <2>2. ActiveRunsExact'
    BY <2>1, <1>1, WorkStep DEF ActiveRunsExact
  <2>3. CountedOnce' /\ AllCounted'
    BY <1>1, WorkStep DEF CountedOnce, AllCounted, TypeOK
  <2> QED
    BY <2>2, <2>3, <1>1, WorkStep DEF StatusFollows
<1>2. ASSUME NEW r \in Runs, NEW key \in Keys \cup {NoKey}, Continue(r, key)
      PROVE  CountInv'
  <2> USE <1>2 DEF Continue, Goto, TypeOK
  <2>1. ~counted[r] /\ r \notin AtWork
    BY DEF CountedOnce, AtWork
  <2>2. CountedOnce' /\ AllCounted'
    BY DEF CountedOnce, AllCounted, Phases
  <2>3. CASE live
    <3>1. AtWork' = AtWork \cup {r}
      BY <2>3 DEF AtWork, Phases
    <3>2. Cardinality(AtWork') = Cardinality(AtWork) + 1
      BY <3>1, <2>1, WorkersFinite, FS_AddElement
    <3>3. activeRuns' = activeRuns + 1 /\ status' = "running" /\ live'
      BY <2>3
    <3> QED
      BY <2>2, <2>3, <3>2, <3>3 DEF ActiveRunsExact, StatusFollows
  <2>4. CASE ~live
    BY <2>2, <2>4 DEF ActiveRunsExact, StatusFollows
  <2> QED
    BY <2>3, <2>4
<1>3. ASSUME NEW r \in Runs, Finish(r)
      PROVE  CountInv'
  <2> USE <1>3 DEF Finish, Goto, TypeOK
  <2>1. CountedOnce' /\ AllCounted'
    BY DEF CountedOnce, AllCounted, Phases
  <2>2. CASE live
    <3>1. r \in AtWork /\ AtWork' = AtWork \ {r}
      BY <2>2 DEF AtWork, AllCounted, Phases
    <3>2. Cardinality(AtWork') = Cardinality(AtWork) - 1
      BY <3>1, WorkersFinite, FS_RemoveElement
    <3>3. AtWork # {} /\ Cardinality(AtWork) # 0
      BY <3>1, WorkersFinite, FS_EmptySet
    <3>4. activeRuns' = activeRuns - 1
      BY <2>2, <3>3, WorkersFinite DEF ActiveRunsExact
    <3>5. StatusFollows'
      BY <2>2 DEF StatusFollows
    <3> QED
      BY <2>1, <2>2, <3>2, <3>4, <3>5 DEF ActiveRunsExact
  <2>3. CASE ~live
    BY <2>1, <2>3 DEF ActiveRunsExact, StatusFollows
  <2> QED
    BY <2>2, <2>3
<1>4. ASSUME NEW s \in {"idle", "running"}, SetSessionStatus(s) \/ ApplyHistoryDetail(s)
      PROVE  CountInv'
  <2>1. UNCHANGED <<live, activeRuns, phase, counted>>
    BY <1>4 DEF SetSessionStatus, ApplyHistoryDetail
  <2>2. StatusFollows'
    BY <1>4, <2>1 DEF StatusFollows, SetSessionStatus, ApplyHistoryDetail
  <2> QED
    BY <2>1, <2>2 DEF CountedOnce, AllCounted, ActiveRunsExact, AtWork
<1>5. CASE UNCHANGED <<live, status, activeRuns, phase, counted>>
  BY <1>5 DEF CountedOnce, AllCounted, ActiveRunsExact, AtWork, StatusFollows
<1>6. ASSUME NEW k \in Keys, Expire(k)
      PROVE  CountInv'
  BY <1>5, <1>6 DEF Expire, session
<1>7. CASE DeleteSession
  BY <1>7 DEF DeleteSession, CountedOnce, AllCounted, ActiveRunsExact, StatusFollows
<1>8. CASE UNCHANGED vars \/ \E r \in Runs : Deliver(r)
  BY <1>5, <1>8 DEF vars, session, Deliver
<1> QED
  BY <1>1, <1>2, <1>3, <1>4, <1>6, <1>7, <1>8 DEF Next, RunStep, Work

\* The inductive invariant of the count.
THEOREM CountCorrect == Spec => []CountInv
<1>1. Init => CountInv
  <2> SUFFICES ASSUME Init
               PROVE  CountInv
    OBVIOUS
  <2>1. AtWork = {}
    BY DEF Init, AtWork
  <2> QED
    BY <2>1, FS_EmptySet
       DEF Init, CountInv, CountedOnce, AllCounted, StatusFollows, ActiveRunsExact
<1> QED
  BY <1>1, CountStep, TypeCorrect, PTL DEF Spec

\* The number of active runs is exact, for any number of runs.
THEOREM ActiveRunsExactAlways == Spec => []ActiveRunsExact
<1>1. CountInv => ActiveRunsExact
  BY DEF CountInv
<1> QED
  BY <1>1, CountCorrect, PTL

\* A session with a run at work shows "running".
THEOREM RunningWhileActiveAlways == Spec => []RunningWhileActive
<1>1. CountInv /\ TypeOK => RunningWhileActive
  <2> SUFFICES ASSUME CountInv, TypeOK, live, AtWork # {}
               PROVE  status = "running"
    BY DEF RunningWhileActive
  <2>1. Cardinality(AtWork) # 0
    BY WorkersFinite, FS_EmptySet
  <2> QED
    BY <2>1, WorkersFinite DEF CountInv, ActiveRunsExact, StatusFollows, TypeOK
<1> QED
  BY <1>1, CountCorrect, TypeCorrect, PTL
-----------------------------------------------------------------------------
(***************************************************************************)
(* The answer of a run.  OneAnswerPerRun needs to know, besides, when the  *)
(* log of a run is still empty; and the run's phase tells what the log     *)
(* holds only while the session lives and so nothing is dropped.           *)
(***************************************************************************)

UserFirst(r) == \A i \in DOMAIN out[r] : out[r][i] = "user" <=> i = 1
EndsLast(r) == Ends(r) \subseteq {Len(out[r])}
EndedWhenAnswered(r) == live /\ counted[r] => (Ends(r) # {} <=> Answered(r))
EmptyAtFirst(r) == live => (out[r] = <<>> <=> phase[r] \in {"none", "accepted"})

LogOf(r) == UserFirst(r) /\ EndsLast(r) /\ EndedWhenAnswered(r) /\ EmptyAtFirst(r)
LogInv == \A r \in Runs : LogOf(r)

\* A step that logs nothing for r, and leaves r as answered and as begun as it was.
LEMMA QuietStep ==
  ASSUME NEW r \in Runs,
         LogOf(r),
         out'[r] = out[r],
         live' => live /\ (counted'[r] => counted[r] \/ (phase[r] = "none" /\ Ends(r) = {})),
         live' => (Answered(r)' <=> Answered(r)),
         live' => (phase'[r] \in {"none", "accepted"} <=> phase[r] \in {"none", "accepted"})
  PROVE  LogOf(r)'
<1> USE DEF LogOf
<1>1. UserFirst(r)' /\ EndsLast(r)' /\ Ends(r)' = Ends(r)
  BY DEF UserFirst, EndsLast, Ends
<1>2. EmptyAtFirst(r)'
  BY DEF EmptyAtFirst
<1>3. EndedWhenAnswered(r)'
  BY <1>1 DEF EndedWhenAnswered, Answered
<1> QED
  BY <1>1, <1>2, <1>3

\* Logging one event in a live session.
LEMMA EmitEffect ==
  ASSUME TypeOK, live, NEW r \in Runs, NEW kind \in Kinds, Emit(r, kind)
  PROVE  /\ out'[r] = Append(out[r], kind)
         /\ \A q \in Runs : q # r => out'[q] = out[q]
         /\ Len(out'[r]) = Len(out[r]) + 1 /\ Len(out[r]) \in Nat
         /\ Ends(r)' = Ends(r) \cup (IF kind \in Terminal THEN {Len(out[r]) + 1} ELSE {})
         /\ \A i \in DOMAIN out'[r] :
              out'[r][i] = IF i = Len(out[r]) + 1 THEN kind ELSE out[r][i]
<1>1. out'[r] = Append(out[r], kind) /\ out[r] \in Seq(Kinds)
  BY DEF Emit, TypeOK
<1>2. \A q \in Runs : q # r => out'[q] = out[q]
  BY DEF Emit, TypeOK
<1>3. /\ Len(out'[r]) = Len(out[r]) + 1
      /\ DOMAIN out'[r] = DOMAIN out[r] \cup {Len(out[r]) + 1}
      /\ DOMAIN out[r] = 1..Len(out[r])
      /\ Len(out[r]) \in Nat
  BY <1>1
<1>4. \A i \in DOMAIN out'[r] :
        out'[r][i] = IF i = Len(out[r]) + 1 THEN kind ELSE out[r][i]
  BY <1>1, <1>3
<1>5. Ends(r)' = Ends(r) \cup (IF kind \in Terminal THEN {Len(out[r]) + 1} ELSE {})
  BY <1>3, <1>4 DEF Ends
<1> QED
  BY <1>1, <1>2, <1>3, <1>4, <1>5

\* A step of r that logs an event which is the user's exactly when it is the
\* first, and a terminal one exactly when the run is answered by it.
LEMMA LoggingStep ==
  ASSUME TypeOK, live, live', NEW r \in Runs, NEW kind \in Kinds, Emit(r, kind),
         UserFirst(r), EndsLast(r), Ends(r) = {},
         kind = "user" <=> out[r] = <<>>,
         kind \in Terminal <=> Answered(r)',
         phase'[r] \notin {"none", "accepted"}
  PROVE  LogOf(r)'
<1>1. out[r] \in Seq(Kinds)
  BY DEF TypeOK
<1>2. out[r] = <<>> <=> Len(out[r]) = 0
  BY <1>1
<1>3. UserFirst(r)'
  <2> SUFFICES ASSUME NEW i \in DOMAIN out'[r]
               PROVE  out'[r][i] = "user" <=> i = 1
    BY DEF UserFirst
  <2>1. out'[r] = Append(out[r], kind)
    BY EmitEffect
  <2>2. i \in 1..(Len(out[r]) + 1) /\ Len(out[r]) \in Nat
    BY <1>1, <2>1
  <2>3. CASE i = Len(out[r]) + 1
    BY <2>2, <2>3, <1>2, EmitEffect
  <2>4. CASE i # Len(out[r]) + 1
    <3>1. i \in DOMAIN out[r] /\ out'[r][i] = out[r][i]
      BY <2>2, <2>4, <1>1, EmitEffect
    <3> QED
      BY <3>1 DEF UserFirst
  <2> QED
    BY <2>3, <2>4
<1>4. Ends(r)' = IF kind \in Terminal THEN {Len(out'[r])} ELSE {}
  BY EmitEffect
<1>5. EndsLast(r)' /\ EndedWhenAnswered(r)'
  BY <1>4 DEF EndsLast, EndedWhenAnswered
<1>6. out'[r] # <<>>
  <2>1. Len(out'[r]) # 0
    BY EmitEffect
  <2> QED
    BY <2>1
<1> QED
  BY <1>3, <1>5, <1>6 DEF LogOf, EmptyAtFirst

\* Nothing is logged for a session that is gone.
LEMMA EmitDropped ==
  ASSUME TypeOK, ~live, NEW r, NEW kind, Emit(r, kind)
  PROVE  UNCHANGED out
BY DEF Emit

\* What a run that is at work has in its log.
LEMMA LogAtWork ==
  ASSUME CountInv, NEW r \in Runs, LogOf(r), live, phase[r] # "none", ~Answered(r)
  PROVE  Ends(r) = {}
BY DEF CountInv, AllCounted, LogOf, EndedWhenAnswered

\* A step of the goroutine of r that logs one event.
LEMMA WorkLogs ==
  ASSUME TypeOK, CountInv, NEW r \in Runs, LogOf(r), NEW kind \in Kinds, Emit(r, kind),
         live' = live,
         phase[r] # "none", ~Answered(r),
         kind = "user" <=> phase[r] = "accepted",
         kind \in Terminal <=> Answered(r)',
         phase'[r] \notin {"none", "accepted"}
  PROVE  LogOf(r)'
<1>1. CASE live
  <2>1. Ends(r) = {}
    BY <1>1, LogAtWork
  <2>2. kind = "user" <=> out[r] = <<>>
    BY <1>1 DEF LogOf, EmptyAtFirst
  <2> QED
    BY <1>1, <2>1, <2>2, LoggingStep DEF LogOf
<1>2. CASE ~live
  BY <1>2, EmitDropped DEF LogOf, UserFirst, EndsLast, EndedWhenAnswered, EmptyAtFirst, Ends
<1> QED
  BY <1>1, <1>2

\* A step of the goroutine of r that logs nothing.
LEMMA WorkIsQuiet ==
  ASSUME NEW r \in Runs, LogOf(r), out'[r] = out[r], live' => live, counted' = counted,
         Answered(r)' <=> Answered(r),
         phase[r] \notin {"none", "accepted"}, phase'[r] \notin {"none", "accepted"}
  PROVE  LogOf(r)'
BY QuietStep

\* The log of a run is its own: the goroutines of others leave it alone.
LEMMA OthersLog ==
  ASSUME TypeOK, NEW r \in Runs, NEW q \in Runs, q # r, LogOf(q), RunStep(r)
  PROVE  LogOf(q)'
<1>1. UNCHANGED <<live, counted>> /\ phase'[q] = phase[q]
  <2>1. CASE Work(r)
    BY <2>1, WorkStep
  <2>2. CASE Finish(r)
    BY <2>2 DEF Finish, Goto, TypeOK
  <2> QED
    BY <2>1, <2>2 DEF RunStep, Work
<1>2. out'[q] = out[q]
  <2>1. ASSUME NEW kind, Emit(r, kind)
        PROVE  out'[q] = out[q]
    BY <2>1 DEF Emit, TypeOK
  <2>2. CASE UNCHANGED out \/ UNCHANGED log
    BY <2>2 DEF log
  <2>3. CASE Prompt(r) \/ DeltaLine(r) \/ ActionLine(r) \/ Close(r) \/ Mock(r)
    BY <2>1, <2>3 DEF Prompt, DeltaLine, ActionLine, Close, Mock
  <2>4. CASE ApprovalLine(r)
    BY <2>1, <2>2, <2>4 DEF ApprovalLine
  <2>5. CASE Fail(r)
    BY <2>1, <2>2, <2>5 DEF Fail
  <2>6. CASE StartCLI(r) \/ CompletionLine(r) \/ Finish(r)
    BY <2>2, <2>6 DEF StartCLI, CompletionLine, Finish
  <2>7. ASSUME NEW timedOut, NEW exitError, Reap(r, timedOut, exitError)
        PROVE  out'[q] = out[q]
    BY <2>2, <2>7 DEF Reap
  <2> QED
    BY <2>3, <2>4, <2>5, <2>6, <2>7 DEF RunStep
<1> QED
  BY <1>1, <1>2, QuietStep DEF Answered

\* The steps of r's own goroutine.
LEMMA OwnLog ==
  ASSUME TypeOK, CountInv, NEW r \in Runs, LogOf(r), RunStep(r)
  PROVE  LogOf(r)'
<1> USE DEF Goto, TypeOK, session, Kinds, Terminal, Phases, log
<1>1. CASE Prompt(r)
  <2>1. Emit(r, "user") /\ live' = live /\ phase[r] = "accepted" /\ phase'[r] \in {"prompted", "mock"}
    BY <1>1 DEF Prompt
  <2> QED
    BY <2>1, WorkLogs DEF Answered
<1>2. CASE StartCLI(r)
  <2>1. UNCHANGED <<live, counted, out>> /\ phase[r] = "prompted" /\ phase'[r] \in {"cli", "failed"}
    BY <1>2 DEF StartCLI
  <2> QED
    BY <2>1, WorkIsQuiet DEF Answered
<1>3. CASE DeltaLine(r)
  <2>1. Emit(r, "delta") /\ live' = live /\ phase[r] = "cli" /\ phase' = phase
    BY <1>3 DEF DeltaLine, ReadLine
  <2> QED
    BY <2>1, WorkLogs DEF Answered
<1>4. CASE ActionLine(r) \/ ApprovalLine(r) \/ CompletionLine(r)
  <2>1. UNCHANGED <<live, counted, phase>> /\ phase[r] = "cli"
    BY <1>4 DEF ActionLine, ApprovalLine, CompletionLine, ReadLine
  <2>2. Emit(r, "action") \/ UNCHANGED out
    BY <1>4 DEF ActionLine, ApprovalLine, CompletionLine
  <2>3. CASE Emit(r, "action")
    BY <2>1, <2>3, WorkLogs DEF Answered
  <2>4. CASE UNCHANGED out
    BY <2>1, <2>4, WorkIsQuiet DEF Answered
  <2> QED
    BY <2>2, <2>3, <2>4
<1>5. ASSUME NEW timedOut, NEW exitError, Reap(r, timedOut, exitError)
      PROVE  LogOf(r)'
  <2>1. UNCHANGED <<live, counted, out>> /\ phase[r] = "cli" /\ phase'[r] \in {"closing", "failed"}
    BY <1>5 DEF Reap
  <2> QED
    BY <2>1, WorkIsQuiet DEF Answered
<1>6. CASE Close(r)
  <2>1. Emit(r, "done") /\ live' = live /\ phase[r] = "closing" /\ phase'[r] = "emitted"
    BY <1>6 DEF Close
  <2> QED
    BY <2>1, WorkLogs DEF Answered
<1>7. CASE Fail(r)
  <2>1. UNCHANGED <<live, counted>> /\ phase[r] = "failed"
    BY <1>7 DEF Fail
  <2>2. \/ UNCHANGED out /\ phase'[r] = "mock"
        \/ Emit(r, "error") /\ phase'[r] = "emitted"
    BY <1>7 DEF Fail
  <2>3. CASE UNCHANGED out /\ phase'[r] = "mock"
    BY <2>1, <2>3, WorkIsQuiet DEF Answered
  <2>4. CASE Emit(r, "error") /\ phase'[r] = "emitted"
    BY <2>1, <2>4, WorkLogs DEF Answered
  <2> QED
    BY <2>2, <2>3, <2>4
<1>8. CASE Mock(r)
  <2>0. mocked[r] \in 0..3 /\ mocked' = [mocked EXCEPT ![r] = @ + 1]
    BY <1>8 DEF Mock, MockReply
  <2>1. live' = live /\ phase[r] = "mock" /\ mocked'[r] \in {1, 2, 3, 4}
    BY <1>8, <2>0 DEF Mock
  <2>2. Emit(r, MockReply[mocked'[r]])
    BY <1>8 DEF Mock
  <2>3. phase'[r] = IF mocked'[r] = 4 THEN "emitted" ELSE "mock"
    BY <1>8, <2>1 DEF Mock, MockReply
  <2>4. /\ MockReply[mocked'[r]] \in Kinds /\ MockReply[mocked'[r]] # "user"
        /\ MockReply[mocked'[r]] \in Terminal <=> mocked'[r] = 4
    BY <2>1 DEF MockReply
  <2>5. MockReply[mocked'[r]] \in Terminal <=> Answered(r)'
    BY <2>3, <2>4 DEF Answered
  <2> HIDE DEF TypeOK, Kinds, Terminal, Phases
  <2> QED
    BY <2>1, <2>2, <2>3, <2>4, <2>5, WorkLogs DEF Answered
<1>9. CASE Finish(r)
  <2>1. UNCHANGED <<live, counted, out>> /\ phase[r] = "emitted" /\ phase'[r] = "finished"
    BY <1>9 DEF Finish
  <2> QED
    BY <2>1, WorkIsQuiet DEF Answered
<1> QED
  BY <1>1, <1>2, <1>3, <1>4, <1>5, <1>6, <1>7, <1>8, <1>9 DEF RunStep

\* Every step keeps every run's log in agreement with its phase.
LEMMA LogStep == TypeOK /\ CountInv /\ LogInv /\ [Next]_vars => LogInv'
<1> SUFFICES ASSUME TypeOK, CountInv, LogInv, [Next]_vars, NEW q \in Runs
             PROVE  LogOf(q)'
  BY DEF LogInv
<1>0. LogOf(q)
  BY DEF LogInv
<1>1. ASSUME NEW r \in Runs, RunStep(r)
      PROVE  LogOf(q)'
  <2>1. CASE q = r
    BY <1>0, <1>1, <2>1, OwnLog
  <2>2. CASE q # r
    BY <1>0, <1>1, <2>2, OthersLog
  <2> QED
    BY <2>1, <2>2
<1>2. ASSUME NEW r \in Runs, NEW key \in Keys \cup {NoKey}, Continue(r, key)
      PROVE  LogOf(q)'
  <2> USE DEF Continue, Goto, TypeOK, Phases, log
  <2>1. UNCHANGED <<live, out>>
    BY <1>2
  <2>2. CASE q = r
    <3>1. phase[q] = "none" /\ phase'[q] = "accepted"
      BY <1>2, <2>2
    <3>2. live => Ends(q) = {}
      BY <1>0, <3>1 DEF LogOf, EmptyAtFirst, Ends
    <3> QED
      BY <1>0, <2>1, <3>1, <3>2, QuietStep DEF Answered
  <2>3. CASE q # r
    <3>1. phase'[q] = phase[q] /\ counted'[q] = counted[q]
      BY <1>2, <2>3
    <3> QED
      BY <1>0, <2>1, <3>1, QuietStep DEF Answered
  <2> QED
    BY <2>2, <2>3
<1>3. CASE UNCHANGED <<phase, counted, out>> /\ (live' => live)
  BY <1>0, <1>3, QuietStep DEF Answered
<1>4. ASSUME NEW k \in Keys, Expire(k)
      PROVE  LogOf(q)'
  BY <1>3, <1>4 DEF Expire, session, log
<1>5. ASSUME NEW s \in {"idle", "running"}, SetSessionStatus(s) \/ ApplyHistoryDetail(s)
      PROVE  LogOf(q)'
  BY <1>3, <1>5 DEF SetSessionStatus, ApplyHistoryDetail, log
<1>6. CASE DeleteSession
  BY <1>3, <1>6 DEF DeleteSession, log
<1>7. CASE UNCHANGED vars
  BY <1>3, <1>7 DEF vars, session, log
<1>8. ASSUME NEW r \in Runs, Deliver(r)
      PROVE  LogOf(q)'
  BY <1>3, <1>8 DEF Deliver, session
<1> QED
  BY <1>1, <1>2, <1>4, <1>5, <1>6, <1>7, <1>8 DEF Next

\* The inductive invariant of the logs.
THEOREM LogCorrect == Spec => []LogInv
<1>1. Init => LogInv
  BY DEF Init, LogInv, LogOf, UserFirst, EndsLast, EndedWhenAnswered, EmptyAtFirst, Ends
<1> QED
  BY <1>1, LogStep, CountCorrect, TypeCorrect, PTL DEF Spec

\* Every run logs its prompt first and exactly one answer, last.
THEOREM OneAnswerPerRunAlways == Spec => []OneAnswerPerRun
<1>1. LogInv => OneAnswerPerRun
  BY DEF LogInv, LogOf, UserFirst, EndsLast, EndedWhenAnswered, OneAnswerPerRun
<1> QED
  BY <1>1, LogCorrect, PTL

\* A session that shows "idle" holds the answers of all its runs.
THEOREM IdleMeansAnsweredAlways == Spec => []IdleMeansAnswered
<1>1. TypeOK /\ CountInv /\ LogInv => IdleMeansAnswered
  <2> SUFFICES ASSUME TypeOK, CountInv, LogInv, live, status = "idle",
                      NEW r \in Runs, counted[r]
               PROVE  Ends(r) # {}
    BY DEF IdleMeansAnswered
  <2>1. activeRuns = 0
    BY DEF TypeOK, CountInv, StatusFollows
  <2>2. AtWork = {}
    BY <2>1, WorkersFinite, FS_EmptySet DEF CountInv, ActiveRunsExact
  <2>3. phase[r] = "finished"
    BY <2>2 DEF AtWork
  <2> QED
    BY <2>3 DEF LogInv, LogOf, EndedWhenAnswered, Answered
<1> QED
  BY <1>1, LogCorrect, CountCorrect, TypeCorrect, PTL
-----------------------------------------------------------------------------
(***************************************************************************)
(* Idempotency keys.                                                       *)
(***************************************************************************)

KeyInv == \A k \in Keys : started[k] = IF idempotency[k] = NoRun THEN 0 ELSE 1

\* While the record of a key lives, it stands for the one run it started.
THEOREM OneRunPerKeyAlways == Spec => []OneRunPerKey
<1>1. Init => KeyInv
  BY DEF Init, KeyInv
<1>2. TypeOK /\ KeyInv /\ [Next]_vars => KeyInv'
  <2> SUFFICES ASSUME TypeOK, KeyInv, [Next]_vars
               PROVE  KeyInv'
    OBVIOUS
  <2>1. CASE UNCHANGED keyVars
    BY <2>1 DEF KeyInv, keyVars
  <2>2. ASSUME NEW r \in Runs, NEW key \in Keys \cup {NoKey}, Continue(r, key)
        PROVE  KeyInv'
    BY <2>2, RunAssumption DEF Continue, KeyInv
  <2>3. ASSUME NEW k \in Keys, Expire(k)
        PROVE  KeyInv'
    BY <2>3 DEF Expire, KeyInv, TypeOK
  <2>4. CASE DeleteSession
    BY <2>4 DEF DeleteSession, KeyInv
  <2>5. ASSUME NEW s \in {"idle", "running"}, SetSessionStatus(s) \/ ApplyHistoryDetail(s)
        PROVE  KeyInv'
    BY <2>1, <2>5 DEF SetSessionStatus, ApplyHistoryDetail
  <2>6. ASSUME NEW r \in Runs, RunStep(r)
        PROVE  KeyInv'
    <3>1. UNCHANGED keyVars
      BY <2>6 DEF RunStep, Prompt, StartCLI, ReadLine, DeltaLine, ActionLine, CompletionLine,
                  ApprovalLine, Reap, Close, Fail, Mock, Finish
    <3> QED
      BY <2>1, <3>1
  <2>7. CASE UNCHANGED vars \/ \E r \in Runs : Deliver(r)
    BY <2>1, <2>7 DEF vars, Deliver
  <2> QED
    BY <2>2, <2>3, <2>4, <2>5, <2>6, <2>7 DEF Next
<1>3. KeyInv => OneRunPerKey
  BY DEF KeyInv, OneRunPerKey
<1> QED
  BY <1>1, <1>2, <1>3, TypeCorrect, PTL DEF Spec
-----------------------------------------------------------------------------
(***************************************************************************)
(* Termination.  That every run finishes is a liveness property, and stays *)
(* with TLC; what its proof would rest on is here: a bound on the steps a  *)
(* run has left, sends that return included, that each of its steps lowers *)
(* and nothing else raises.                                                *)
(***************************************************************************)

\* The phases still ahead of a run, at most.
Ahead(p) ==
  CASE p = "none"     -> 7
    [] p = "accepted" -> 6
    [] p = "prompted" -> 5
    [] p = "cli"      -> 4
    [] p = "failed"   -> 3
    [] p \in {"closing", "mock"} -> 2
    [] p = "emitted"  -> 1
    [] p = "finished" -> 0

WorkLeft(r) == Ahead(phase[r]) + (MaxLines[r] - lines[r]) + (Len(MockReply) - mocked[r])

\* Each step may leave an event to send.
StepsLeft(r) == 2 * WorkLeft(r) + (IF sending[r] THEN 1 ELSE 0)

\* A step of the goroutine of r: of its own, or the return of its sends.
Moved(r) == RunStep(r) \/ Deliver(r)

\* The output a run has read is output its process has printed, and a run that is
\* answered by the mock has a part of the reply still to send, so that a step of
\* its goroutine is always possible until it has finished.
BoundInv ==
  \A r \in Runs :
    /\ lines[r] <= MaxLines[r]
    /\ phase[r] = "mock" => mocked[r] < Len(MockReply)
    /\ phase[r] \notin {"mock", "emitted", "finished"} => mocked[r] = 0

\* What a step of the goroutine of r may do to how far r has got.
OneStepOn(r) ==
  \/ /\ Ahead(phase'[r]) < Ahead(phase[r])
     /\ UNCHANGED <<lines, mocked>>
  \/ /\ phase' = phase /\ phase[r] = "cli" /\ UNCHANGED mocked
     /\ lines[r] < MaxLines[r] /\ lines' = [lines EXCEPT ![r] = @ + 1]
  \/ /\ phase[r] = "mock" /\ phase'[r] \in {"mock", "emitted"} /\ UNCHANGED lines
     /\ mocked[r] < 4 /\ mocked' = [mocked EXCEPT ![r] = @ + 1]
     /\ phase'[r] = "mock" <=> mocked'[r] < 4

LEMMA MockLength == Len(MockReply) = 4
BY DEF MockReply

LEMMA RunMoves ==
  ASSUME TypeOK, BoundInv, NEW r \in Runs, RunStep(r)
  PROVE  /\ OneStepOn(r)
         /\ phase[r] \notin {"none", "finished"}
         /\ \A q \in Runs : q # r => UNCHANGED <<phase[q], lines[q], mocked[q]>>
         /\ phase'[r] = "mock" => mocked'[r] < 4
<1> USE MockLength DEF TypeOK, BoundInv, OneStepOn, Goto, ReadLine, Ahead, Phases, cliVars, log
<1>1. CASE Prompt(r) \/ StartCLI(r) \/ Close(r) \/ Fail(r)
  BY <1>1 DEF Prompt, StartCLI, Close, Fail
<1>2. CASE DeltaLine(r) \/ ActionLine(r) \/ CompletionLine(r) \/ ApprovalLine(r)
  BY <1>2 DEF DeltaLine, ActionLine, CompletionLine, ApprovalLine
<1>3. ASSUME NEW timedOut \in BOOLEAN, NEW exitError \in BOOLEAN, Reap(r, timedOut, exitError)
      PROVE  /\ Ahead(phase'[r]) < Ahead(phase[r]) /\ UNCHANGED <<lines, mocked>>
             /\ phase[r] = "cli" /\ phase'[r] \in {"closing", "failed"}
             /\ \A q \in Runs : q # r => UNCHANGED <<phase[q], lines[q], mocked[q]>>
  <2>1. /\ phase[r] = "cli" /\ UNCHANGED <<lines, mocked>>
        /\ \E p \in {"closing", "failed"} : phase' = [phase EXCEPT ![r] = p]
    BY <1>3 DEF Reap
  <2> QED
    BY <2>1
<1>4. CASE Mock(r)
  <2>1. /\ phase[r] = "mock" /\ mocked[r] < 4 /\ UNCHANGED lines
        /\ mocked' = [mocked EXCEPT ![r] = @ + 1]
        /\ phase' = IF mocked'[r] = 4 THEN [phase EXCEPT ![r] = "emitted"] ELSE phase
    BY <1>4 DEF Mock
  <2>2. mocked'[r] = mocked[r] + 1 /\ mocked[r] \in 0..4
    BY <2>1
  <2>3. phase'[r] = IF mocked'[r] = 4 THEN "emitted" ELSE "mock"
    BY <2>1
  <2>4. /\ phase'[r] \in {"mock", "emitted"}
        /\ phase'[r] = "mock" <=> mocked'[r] < 4
    BY <2>1, <2>2, <2>3
  <2>5. \A q \in Runs : q # r => UNCHANGED <<phase[q], lines[q], mocked[q]>>
    BY <2>1
  <2> QED
    BY <2>1, <2>4, <2>5
<1>5. CASE Finish(r)
  BY <1>5 DEF Finish
<1> QED
  BY <1>1, <1>2, <1>3, <1>4, <1>5 DEF RunStep

\* The sends of a goroutine: it has none of an earlier event left when it takes a
\* step, and leaves those of others alone.
LEMMA SendMoves ==
  ASSUME TypeOK, NEW r \in Runs, RunStep(r)
  PROVE  ~sending[r] /\ \A q \in Runs : q # r => sending'[q] = sending[q]
<1>1. ASSUME NEW kind, Emit(r, kind)
      PROVE  \A q \in Runs : q # r => sending'[q] = sending[q]
  BY <1>1 DEF Emit, TypeOK
<1>2. CASE Prompt(r) \/ DeltaLine(r) \/ ActionLine(r) \/ Close(r) \/ Mock(r)
  BY <1>1, <1>2 DEF RunStep, Prompt, DeltaLine, ActionLine, Close, Mock
<1>3. CASE ApprovalLine(r) \/ Fail(r)
  BY <1>1, <1>3 DEF RunStep, ApprovalLine, Fail, log
<1>4. CASE StartCLI(r) \/ CompletionLine(r) \/ Finish(r)
  BY <1>4 DEF RunStep, StartCLI, CompletionLine, Finish, log
<1>5. ASSUME NEW timedOut, NEW exitError, Reap(r, timedOut, exitError)
      PROVE  UNCHANGED sending
  BY <1>5 DEF Reap, log
<1> QED
  BY <1>2, <1>3, <1>4, <1>5 DEF RunStep

LEMMA DeliverMoves ==
  ASSUME TypeOK, NEW r \in Runs, Deliver(r)
  PROVE  /\ UNCHANGED <<phase, lines, mocked>>
         /\ sending[r] /\ sending' = [sending EXCEPT ![r] = FALSE]
BY DEF Deliver, cliVars

LEMMA AheadNat == \A p \in Phases : Ahead(p) \in 0..7
BY DEF Ahead, Phases

\* Every other actor leaves runs where they are; only ContinueSession moves one, by
\* accepting it.
LEMMA OthersMove ==
  ASSUME TypeOK, [Next]_vars, ~\E r \in Runs : Moved(r)
  PROVE  /\ UNCHANGED <<lines, mocked, sending>>
         /\ \/ phase' = phase
            \/ \E q \in Runs : phase[q] = "none" /\ phase' = [phase EXCEPT ![q] = "accepted"]
<1>1. ASSUME NEW r \in Runs, NEW key \in Keys \cup {NoKey}, Continue(r, key)
      PROVE  /\ UNCHANGED <<lines, mocked, sending>>
             /\ phase[r] = "none" /\ phase' = [phase EXCEPT ![r] = "accepted"]
  BY <1>1 DEF Continue, cliVars, log, Goto
<1>2. ASSUME NEW k, Expire(k)
      PROVE  UNCHANGED <<phase, lines, mocked, sending>>
  BY <1>2 DEF Expire, cliVars, log
<1>3. ASSUME NEW s, SetSessionStatus(s) \/ ApplyHistoryDetail(s)
      PROVE  UNCHANGED <<phase, lines, mocked, sending>>
  BY <1>3 DEF SetSessionStatus, ApplyHistoryDetail, cliVars, log
<1>4. CASE DeleteSession \/ UNCHANGED vars
  BY <1>4 DEF DeleteSession, cliVars, log, vars
<1> QED
  BY <1>1, <1>2, <1>3, <1>4 DEF Next, Moved

LEMMA BoundStep == TypeOK /\ TypeOK' /\ BoundInv /\ [Next]_vars => BoundInv'
<1> SUFFICES ASSUME TypeOK, TypeOK', BoundInv, [Next]_vars
             PROVE  BoundInv'
  OBVIOUS
<1>1. ASSUME NEW r \in Runs, RunStep(r)
      PROVE  BoundInv'
  <2>1. /\ OneStepOn(r) /\ phase[r] \notin {"none", "finished"}
        /\ \A q \in Runs : q # r => UNCHANGED <<phase[q], lines[q], mocked[q]>>
        /\ phase'[r] = "mock" => mocked'[r] < 4
    BY <1>1, RunMoves
  <2>2. lines'[r] <= MaxLines[r]
    <3>1. lines[r] \in Nat /\ MaxLines[r] \in Nat /\ lines[r] <= MaxLines[r]
      BY RunAssumption DEF TypeOK, BoundInv
    <3>2. lines'[r] = lines[r] \/ (lines[r] < MaxLines[r] /\ lines'[r] = lines[r] + 1)
      BY <2>1 DEF OneStepOn, TypeOK
    <3> QED
      BY <3>1, <3>2
  <2>3. phase'[r] \notin {"mock", "emitted", "finished"} => mocked'[r] = 0
    <3>1. CASE Ahead(phase'[r]) < Ahead(phase[r]) /\ UNCHANGED mocked
      <4>1. phase[r] \in Phases
        BY DEF TypeOK
      <4>2. phase'[r] \notin {"mock", "emitted", "finished"} /\ phase'[r] \in Phases
              => phase[r] \notin {"mock", "emitted", "finished"}
        BY <3>1, <4>1 DEF Ahead, Phases
      <4> QED
        BY <3>1, <4>2 DEF BoundInv, TypeOK
    <3>2. CASE phase' = phase /\ UNCHANGED mocked
      BY <3>2 DEF BoundInv
    <3>3. CASE phase[r] = "mock" /\ phase'[r] \in {"mock", "emitted"}
      BY <3>3
    <3> QED
      BY <2>1, <3>1, <3>2, <3>3 DEF OneStepOn
  <2> QED
    BY <2>1, <2>2, <2>3, MockLength DEF BoundInv
<1>2. ASSUME NEW r \in Runs, Deliver(r)
      PROVE  BoundInv'
  BY <1>2, DeliverMoves DEF BoundInv
<1>3. CASE ~\E r \in Runs : Moved(r)
  BY <1>3, OthersMove DEF BoundInv, TypeOK
<1> QED
  BY <1>1, <1>2, <1>3 DEF Moved

THEOREM BoundAlways == Spec => []BoundInv
<1>1. Init => BoundInv
  BY RunAssumption DEF Init, BoundInv
<1> QED
  BY <1>1, BoundStep, TypeCorrect, PTL DEF Spec

\* The bound is a number, for each run and at any time.
LEMMA StepsLeftNat ==
  ASSUME TypeOK, BoundInv, NEW r \in Runs
  PROVE  WorkLeft(r) \in Nat /\ StepsLeft(r) \in Nat
<1>1. Ahead(phase[r]) \in 0..7
  BY AheadNat DEF TypeOK
<1>2. lines[r] \in Nat /\ MaxLines[r] \in Nat /\ lines[r] <= MaxLines[r] /\ mocked[r] \in 0..4
  BY RunAssumption DEF TypeOK, BoundInv
<1>3. WorkLeft(r) \in Nat
  BY <1>1, <1>2, MockLength DEF WorkLeft
<1> HIDE DEF WorkLeft
<1> QED
  BY <1>3 DEF StepsLeft

\* A step of a run's own goroutine lowers its bound.
LEMMA OwnStepLowers ==
  ASSUME TypeOK, TypeOK', BoundInv, BoundInv', NEW r \in Runs, RunStep(r)
  PROVE  StepsLeft(r)' < StepsLeft(r) /\ StepsLeft(r)' <= StepsLeft(r)
<1> DEFINE a == Ahead(phase[r])
           b == Ahead(phase'[r])
           w == WorkLeft(r)
           v == WorkLeft(r)'
<1>1. a \in 0..7 /\ b \in 0..7
  BY AheadNat DEF TypeOK
<1>2. /\ lines[r] \in Nat /\ MaxLines[r] \in Nat /\ lines[r] <= MaxLines[r] /\ mocked[r] \in 0..4
      /\ lines'[r] \in Nat /\ lines'[r] <= MaxLines[r] /\ mocked'[r] \in 0..4
  BY RunAssumption DEF TypeOK, BoundInv
<1>3. /\ w = a + (MaxLines[r] - lines[r]) + (4 - mocked[r])
      /\ v = b + (MaxLines[r] - lines'[r]) + (4 - mocked'[r])
  BY MockLength DEF WorkLeft
<1>4. OneStepOn(r)
  BY RunMoves
<1>5. \/ b < a /\ lines'[r] = lines[r] /\ mocked'[r] = mocked[r]
      \/ b = a /\ lines'[r] = lines[r] + 1 /\ mocked'[r] = mocked[r]
      \/ b <= a /\ lines'[r] = lines[r] /\ mocked'[r] = mocked[r] + 1
  <2>1. CASE b < a /\ UNCHANGED <<lines, mocked>>
    BY <2>1
  <2>2. CASE phase' = phase /\ UNCHANGED mocked /\ lines' = [lines EXCEPT ![r] = @ + 1]
    BY <2>2 DEF TypeOK
  <2>3. CASE /\ phase[r] = "mock" /\ phase'[r] \in {"mock", "emitted"} /\ UNCHANGED lines
             /\ mocked' = [mocked EXCEPT ![r] = @ + 1]
    <3>1. b <= a
      BY <2>3 DEF Ahead
    <3> QED
      BY <2>3, <3>1 DEF TypeOK
  <2> QED
    BY <1>4, <2>1, <2>2, <2>3 DEF OneStepOn
<1>6. StepsLeft(r) = 2 * w
  <2>1. ~sending[r] /\ w \in Nat
    BY SendMoves, StepsLeftNat
  <2>2. StepsLeft(r) = 2 * w + 0
    BY <2>1 DEF StepsLeft
  <2> HIDE DEF w
  <2> QED
    BY <2>1, <2>2
<1>7. StepsLeft(r)' = 2 * v + 0 \/ StepsLeft(r)' = 2 * v + 1
  BY DEF StepsLeft
<1> HIDE DEF a, b, w, v
<1>8. w \in Nat /\ v \in Nat /\ v < w
  BY <1>1, <1>2, <1>3, <1>5
<1> QED
  BY <1>6, <1>7, <1>8

\* And so does the return of its sends.
LEMMA DeliverLowers ==
  ASSUME TypeOK, BoundInv, NEW r \in Runs, Deliver(r)
  PROVE  StepsLeft(r)' < StepsLeft(r) /\ StepsLeft(r)' <= StepsLeft(r)
<1> DEFINE w == WorkLeft(r)
<1>1. WorkLeft(r)' = w
  BY DeliverMoves DEF WorkLeft
<1>2. sending[r] /\ ~sending'[r]
  BY DeliverMoves DEF TypeOK
<1>3. w \in Nat
  BY StepsLeftNat
<1>4. StepsLeft(r) = 2 * w + 1
  BY <1>2 DEF StepsLeft
<1>5. StepsLeft(r)' = 2 * w + 0
  BY <1>1, <1>2 DEF StepsLeft
<1> HIDE DEF w
<1> QED
  BY <1>3, <1>4, <1>5

\* No step of anybody raises the bound of a run, and each step of its goroutine
\* lowers it: so a run takes at most seven steps, one for each line of output and
\* each event of the mock, and after each of them its sends may have to return
\* once.  Nothing that happens to the session prolongs it.
Winding ==
  [][\A r \in Runs : /\ StepsLeft(r)' <= StepsLeft(r)
                     /\ Moved(r) => StepsLeft(r)' < StepsLeft(r)]_vars

THEOREM RunsWindDown == Spec => Winding
<1> DEFINE Lowers == \A r \in Runs : /\ StepsLeft(r)' <= StepsLeft(r)
                                     /\ Moved(r) => StepsLeft(r)' < StepsLeft(r)
<1>1. TypeOK /\ TypeOK' /\ BoundInv /\ BoundInv' /\ [Next]_vars => [Lowers]_vars
  <2> SUFFICES ASSUME TypeOK, TypeOK', BoundInv, BoundInv', [Next]_vars, NEW q \in Runs
               PROVE  /\ StepsLeft(q)' <= StepsLeft(q)
                      /\ Moved(q) => StepsLeft(q)' < StepsLeft(q)
    OBVIOUS
  <2>1. StepsLeft(q) \in Nat
    BY StepsLeftNat
  <2>2. CASE Moved(q)
    BY <2>2, OwnStepLowers, DeliverLowers DEF Moved
  <2>3. ASSUME NEW r \in Runs, Moved(r), r # q
        PROVE  StepsLeft(q)' = StepsLeft(q)
    <3>1. UNCHANGED <<phase[q], lines[q], mocked[q], sending[q]>>
      <4>1. CASE RunStep(r)
        <5>1. sending'[q] = sending[q]
          BY <2>3, <4>1, SendMoves
        <5>2. UNCHANGED <<phase[q], lines[q], mocked[q]>>
          BY <2>3, <4>1, RunMoves
        <5> QED
          BY <5>1, <5>2
      <4>2. CASE Deliver(r)
        <5>1. UNCHANGED <<phase, lines, mocked>> /\ sending' = [sending EXCEPT ![r] = FALSE]
          BY <4>2, DeliverMoves
        <5>2. sending'[q] = sending[q]
          BY <2>3, <5>1 DEF TypeOK
        <5> QED
          BY <5>1, <5>2
      <4> QED
        BY <2>3, <4>1, <4>2 DEF Moved
    <3> QED
      BY <3>1 DEF StepsLeft, WorkLeft
  <2>4. CASE ~\E r \in Runs : Moved(r)
    <3>1. UNCHANGED <<lines, mocked, sending>>
          /\ \/ phase'[q] = phase[q]
             \/ phase[q] = "none" /\ phase'[q] = "accepted"
      BY <2>4, OthersMove DEF TypeOK
    <3>2. CASE phase'[q] = phase[q]
      <4>1. StepsLeft(q)' = StepsLeft(q)
        BY <3>1, <3>2 DEF StepsLeft, WorkLeft
      <4> QED
        BY <2>1, <2>4, <4>1
    <3>3. CASE phase[q] = "none" /\ phase'[q] = "accepted"
      <4> DEFINE rest == (MaxLines[q] - lines[q]) + (4 - mocked[q])
                 flag == IF sending[q] THEN 1 ELSE 0
      <4>1. rest \in Nat /\ flag \in Nat
        <5>1. /\ lines[q] \in Nat /\ MaxLines[q] \in Nat /\ lines[q] <= MaxLines[q]
              /\ mocked[q] \in 0..4
          BY RunAssumption DEF TypeOK, BoundInv
        <5> QED
          BY <5>1
      <4>2. WorkLeft(q) = 7 + rest /\ WorkLeft(q)' = 6 + rest
        <5>1. Ahead(phase[q]) = 7 /\ Ahead(phase'[q]) = 6
          BY <3>3 DEF Ahead
        <5>2. /\ lines[q] \in Nat /\ MaxLines[q] \in Nat /\ mocked[q] \in 0..4
              /\ lines'[q] = lines[q] /\ mocked'[q] = mocked[q]
          BY <3>1, RunAssumption DEF TypeOK
        <5> QED
          BY <5>1, <5>2, MockLength DEF WorkLeft
      <4>3. StepsLeft(q) = 2 * WorkLeft(q) + flag /\ StepsLeft(q)' = 2 * WorkLeft(q)' + flag
        BY <3>1 DEF StepsLeft
      <4> HIDE DEF rest, flag
      <4>4. StepsLeft(q)' <= StepsLeft(q)
        BY <4>1, <4>2, <4>3
      <4> QED
        BY <2>4, <4>4
    <3> QED
      BY <3>1, <3>2, <3>3
  <2> QED
    BY <2>1, <2>2, <2>3, <2>4
<1> QED
  BY <1>1, TypeCorrect, BoundAlways, PTL DEF Spec, Winding
=============================================================================
