--------------------------- MODULE PicoLiveProofs ---------------------------
(***************************************************************************)
(* Proofs about PicoLive, for any finite set of runs and any watchers,     *)
(* texts and deletions.                                                    *)
(***************************************************************************)
EXTENDS PicoLive, FiniteSetTheorems, TLAPS

\* A watcher in the middle of a text has one; then TypeOK is inductive.
Handling == {"streaming", "appending", "checking", "done"}
TypeInv == TypeOK /\ \A w \in Watchers : pc[w] \in Handling => held[w] \in Messages

\* Every step of a run moves its phase and nothing of the other runs.
LEMMA RunType ==
  ASSUME TypeOK, NEW r \in Runs, RunStep(r)
  PROVE  /\ phase' \in [Runs -> RunPhases] /\ runInbox' \in [Runs -> SUBSET Messages]
         /\ answers' \in [Runs -> Nat] /\ silent' \subseteq Runs /\ byRun' \subseteq Messages
         /\ window' \in BOOLEAN /\ status' \in {"idle", "running"} /\ activeRuns' \in Nat
         /\ UNCHANGED <<alive, liveDoneSeen, liveVars, delVars, sent, byLive, liveDones, lapses>>
<1> USE DEF TypeOK, GoOn, RunPhases, Streaming, session
<1>1. CASE Dial(r) \/ StreamStop(r) \/ StreamEnds(r) \/ StreamBreaks(r) \/ Deadline(r)
  BY <1>1 DEF Dial, StreamStop, StreamEnds, StreamBreaks, Deadline
<1>2. CASE Answer(r)
  BY <1>2 DEF Answer
<1>3. CASE Finish(r)
  <2>1. /\ phase' \in [Runs -> RunPhases]
        /\ UNCHANGED <<alive, liveDoneSeen, runInbox, answers, silent, liveVars, delVars, sent,
                        logVars>>
    BY <1>3 DEF Finish
  <2>2. activeRuns' \in Nat
    BY <1>3 DEF Finish
  <2>3. (window' = TRUE \/ window' = window) /\ (status' = "idle" \/ status' = status)
    BY <1>3 DEF Finish
  <2> QED
    BY <2>1, <2>2, <2>3 DEF logVars
<1>4. ASSUME NEW m \in Messages, StreamText(r, m)
      PROVE  /\ phase' \in [Runs -> RunPhases] /\ runInbox' \in [Runs -> SUBSET Messages]
             /\ byRun' \subseteq Messages
             /\ UNCHANGED <<session, answers, silent, liveVars, delVars, sent, byLive, liveDones,
                            lapses>>
  BY <1>4 DEF StreamText
<1> QED
  BY <1>1, <1>2, <1>3, <1>4 DEF RunStep

\* Every step of a watcher moves it on, from and to where a goroutine stands.
LEMMA LiveMoves ==
  ASSUME TypeInv, NEW w \in Watchers, LiveStep(w)
  PROVE  /\ \E p \in LivePcs : /\ pc' = [pc EXCEPT ![w] = p] /\ p # "none"
                               /\ p = "ended" => w \in cancelled
                               /\ p \in Handling => held'[w] \in Messages
         /\ pc[w] \notin {"none", "ended"}
         /\ pc' \in [Watchers -> LivePcs]
         /\ held' \in [Watchers -> Messages \cup {NoMessage}]
         /\ \A v \in Watchers : v # w => held'[v] = held[v]
         /\ liveInbox' \in [Watchers -> SUBSET Messages] /\ cached' \in [Watchers -> SUBSET Messages]
         /\ typing' \in [Watchers -> BOOLEAN] /\ unsettled' \in BOOLEAN
         /\ status' \in {"idle", "running"} /\ liveDoneSeen' \subseteq Messages
         /\ byLive' \subseteq Messages /\ liveDones' \in [Messages -> Nat]
         /\ UNCHANGED <<alive, activeRuns, window, runVars, registered, cancelled, delVars, sent,
                        byRun, lapses>>
<1> DEFINE Moved == /\ \E p \in LivePcs : /\ pc' = [pc EXCEPT ![w] = p] /\ p # "none"
                                          /\ p = "ended" => w \in cancelled
                                          /\ p \in Handling => held'[w] \in Messages
                    /\ pc[w] \notin {"none", "ended"}
           Typed == /\ held' \in [Watchers -> Messages \cup {NoMessage}]
                    /\ \A v \in Watchers : v # w => held'[v] = held[v]
                    /\ liveInbox' \in [Watchers -> SUBSET Messages]
                    /\ cached' \in [Watchers -> SUBSET Messages]
                    /\ typing' \in [Watchers -> BOOLEAN] /\ unsettled' \in BOOLEAN
                    /\ status' \in {"idle", "running"} /\ liveDoneSeen' \subseteq Messages
                    /\ byLive' \subseteq Messages /\ liveDones' \in [Messages -> Nat]
<1> USE DEF TypeInv, TypeOK, LivePcs, Handling, LiveGoto, Holds, SetSessionStatus, Redial, Reread
<1>1. ASSUME LiveDial(w) \/ LiveDrop(w) \/ LiveIdle(w) \/ LiveRunning(w)
      PROVE  Moved /\ Typed
  <2>1. Moved
    BY <1>1 DEF LiveDial, LiveDrop, LiveIdle, LiveRunning
  <2>2. Typed
    BY <1>1 DEF LiveDial, LiveDrop, LiveIdle, LiveRunning
  <2> QED
    BY <2>1, <2>2
<1>2. ASSUME LiveLeave(w) \/ LiveStart(w) \/ LiveStop(w)
      PROVE  Moved /\ Typed
  <2>1. Moved
    BY <1>2 DEF LiveLeave, LiveStart, LiveStop
  <2>2. unsettled' \in BOOLEAN
    BY <1>2 DEF LiveLeave, LiveStart, LiveStop, Suppressed
  <2>3. Typed
    BY <1>2, <2>2 DEF LiveLeave, LiveStart, LiveStop
  <2> QED
    BY <2>1, <2>3
<1>3. ASSUME LiveDelta(w)
      PROVE  Moved /\ Typed
  <2>1. Moved
    BY <1>3 DEF LiveDelta
  <2>2. Typed
    BY <1>3 DEF LiveDelta
  <2> QED
    BY <2>1, <2>2
<1>4. ASSUME CheckDuplicate(w)
      PROVE  Moved /\ Typed
  <2>1. Moved
    BY <1>4 DEF CheckDuplicate
  <2>2. Typed
    BY <1>4 DEF CheckDuplicate
  <2> QED
    BY <2>1, <2>2
<1>5. ASSUME LiveDone(w)
      PROVE  Moved /\ Typed
  <2>1. Moved
    BY <1>5 DEF LiveDone
  <2>2. Typed
    BY <1>5 DEF LiveDone
  <2> QED
    BY <2>1, <2>2
<1>6. ASSUME NEW m \in Messages, LiveText(w, m)
      PROVE  Moved /\ Typed
  <2>1. Moved
    BY <1>6 DEF LiveText
  <2>2. Typed
    BY <1>6 DEF LiveText
  <2> QED
    BY <2>1, <2>2
<1>7. Moved /\ Typed
  BY <1>1, <1>2, <1>3, <1>4, <1>5, <1>6 DEF LiveStep
<1>8. pc' \in [Watchers -> LivePcs]
  BY <1>7
<1> HIDE DEF Typed
<1>9. UNCHANGED <<alive, activeRuns, window, runVars, registered, cancelled, delVars, sent,
                        byRun, lapses>>
  BY DEF LiveStep
<1> QED
  BY <1>7, <1>8, <1>9 DEF Typed

LEMMA TypeInvInit == Init => TypeInv
<1> SUFFICES ASSUME Init
             PROVE  TypeInv
  OBVIOUS
<1>1. /\ phase \in [Runs -> RunPhases] /\ runInbox \in [Runs -> SUBSET Messages]
      /\ answers \in [Runs -> Nat] /\ liveDones \in [Messages -> Nat]
      /\ pc \in [Watchers -> LivePcs] /\ \A w \in Watchers : pc[w] = "none"
  BY DEF Init, RunPhases, LivePcs
<1>2. /\ held \in [Watchers -> Messages \cup {NoMessage}] /\ typing \in [Watchers -> BOOLEAN]
      /\ liveInbox \in [Watchers -> SUBSET Messages] /\ cached \in [Watchers -> SUBSET Messages]
      /\ del \in [Deleters -> {"none", "unregistered", "stopped", "done"}]
      /\ stopping \in [Deleters -> Watchers \cup {NoWatcher}] /\ lapses \in [Messages -> Nat]
  BY DEF Init
<1> QED
  BY <1>1, <1>2 DEF Init, TypeInv, TypeOK, Handling

LEMMA TypeInvStep == TypeInv /\ [Next]_vars => TypeInv'
<1> SUFFICES ASSUME TypeInv, [Next]_vars
             PROVE  TypeInv'
  OBVIOUS
<1>0. TypeOK
  BY DEF TypeInv
<1> USE DEF session, runVars, liveVars, delVars, logVars
<1>1. ASSUME NEW m \in Messages, Broadcast(m)
      PROVE  TypeInv'
  BY <1>1 DEF Broadcast, TypeInv, TypeOK
<1>2. ASSUME NEW m \in Messages, NEW w \in Watchers, Replay(w, m)
      PROVE  TypeInv'
  BY <1>2 DEF Replay, TypeInv, TypeOK
<1>3. CASE WindowCloses
  BY <1>3 DEF WindowCloses, TypeInv, TypeOK
<1>4. ASSUME NEW r \in Runs, Continue(r)
      PROVE  TypeInv'
  BY <1>4 DEF Continue, TypeInv, TypeOK, RunPhases
<1>5. ASSUME NEW r \in Runs, RunStep(r)
      PROVE  TypeInv'
  BY <1>0, <1>5, RunType DEF TypeInv, TypeOK
<1>6. CASE Ensure
  <2>1. CASE UNCHANGED <<registered, pc>>
    BY <1>6, <2>1 DEF Ensure, TypeInv, TypeOK
  <2>2. ASSUME NEW w \in Watchers, registered' = w, pc' = [pc EXCEPT ![w] = "dialing"]
        PROVE  TypeInv'
    BY <1>6, <2>2 DEF Ensure, TypeInv, TypeOK, LivePcs, Handling
  <2> QED
    BY <1>6, <2>1, <2>2 DEF Ensure, EnsureLiveWatcher
<1>7. ASSUME NEW w \in Watchers, LiveStep(w)
      PROVE  TypeInv'
  <2>1. \A v \in Watchers : pc'[v] \in Handling => held'[v] \in Messages
    BY <1>7, LiveMoves DEF TypeInv, TypeOK
  <2>2. TypeOK'
    BY <1>0, <1>7, LiveMoves DEF TypeOK
  <2> QED
    BY <2>1, <2>2 DEF TypeInv
<1>8. ASSUME NEW d \in Deleters, DeleteUnregisters(d) \/ DeleteCancels(d) \/ DeleteRemoves(d)
      PROVE  TypeInv'
  <2>1. CASE DeleteUnregisters(d)
    BY <2>1 DEF DeleteUnregisters, TypeInv, TypeOK
  <2>2. CASE DeleteCancels(d)
    BY <2>2 DEF DeleteCancels, TypeInv, TypeOK
  <2>3. CASE DeleteRemoves(d)
    BY <2>3 DEF DeleteRemoves, TypeInv, TypeOK
  <2> QED
    BY <1>8, <2>1, <2>2, <2>3
<1>9. ASSUME NEW m \in Messages, ForgetDone(m)
      PROVE  TypeInv'
  BY <1>9 DEF ForgetDone, TypeInv, TypeOK
<1>10. CASE UNCHANGED vars
  BY <1>10 DEF vars, TypeInv, TypeOK
<1> QED
  BY <1>1, <1>2, <1>3, <1>4, <1>5, <1>6, <1>7, <1>8, <1>9, <1>10 DEF Next

LEMMA TypeInvAlways == Spec => []TypeInv
<1>1. Init => TypeInv
  BY TypeInvInit
<1>2. TypeInv /\ [Next]_vars => TypeInv'
  BY TypeInvStep
<1> QED
  BY <1>1, <1>2, PTL DEF Spec

\* Type correctness.
THEOREM TypeCorrect == Spec => []TypeOK
<1>1. TypeInv => TypeOK
  BY DEF TypeInv
<1> QED
  BY <1>1, TypeInvAlways, PTL
-----------------------------------------------------------------------------
Stopping == {stopping[d] : d \in Deleters}

\* A watcher that was cancelled has been started; the registered watcher is not
\* one that a deletion has unregistered, nor are two deletions about to cancel
\* the same one.
WatcherInv ==
  /\ OneWatcher
  /\ \A w \in cancelled : pc[w] # "none"
  /\ registered # NoWatcher => registered \notin Stopping
  /\ \A d, e \in Deleters : stopping[d] = stopping[e] /\ stopping[d] # NoWatcher => d = e
  /\ \A d \in Deleters : del[d] # "unregistered" => stopping[d] = NoWatcher

\* At any time the goroutines that will go on watching are the registered one
\* and those that a deletion is about to cancel.
THEOREM OneWatcherAlways == Spec => []OneWatcher
<1>1. Init => WatcherInv
  BY DEF Init, WatcherInv, OneWatcher, Watching, Stopping
<1>2. WatcherInv /\ TypeInv /\ [Next]_vars => WatcherInv'
  <2> SUFFICES ASSUME WatcherInv, TypeInv, [Next]_vars
               PROVE  WatcherInv'
    OBVIOUS
  <2>0. TypeOK /\ OneWatcher
    BY DEF TypeInv, WatcherInv
  <2>1. ASSUME UNCHANGED <<registered, cancelled, pc, stopping>>,
               \A d \in Deleters : del'[d] = del[d] \/ del[d] = "stopped"
        PROVE  WatcherInv'
    BY <2>1 DEF WatcherInv, OneWatcher, Watching, Stopping
  <2>2. ASSUME NEW m \in Messages, Broadcast(m) \/ (\E w \in Watchers : Replay(w, m)) \/ ForgetDone(m)
        PROVE  WatcherInv'
    BY <2>1, <2>2 DEF Broadcast, Replay, ForgetDone, delVars, liveVars
  <2>3. CASE WindowCloses
    BY <2>1, <2>3 DEF WindowCloses, liveVars, delVars
  <2>4. ASSUME NEW r \in Runs, Continue(r) \/ RunStep(r)
        PROVE  WatcherInv'
    BY <2>0, <2>1, <2>4, RunType DEF Continue, liveVars, delVars
  <2>5. CASE Ensure
    <3>1. CASE UNCHANGED <<registered, pc>>
      BY <2>1, <2>5, <3>1 DEF Ensure, delVars
    <3>2. ASSUME NEW w \in Watchers, registered = NoWatcher, pc[w] = "none",
                 registered' = w, pc' = [pc EXCEPT ![w] = "dialing"]
          PROVE  WatcherInv'
      <4>1. /\ UNCHANGED <<cancelled, stopping, del>> /\ w \notin cancelled /\ w \notin Watching
            /\ Watching \ cancelled = Stopping \ {NoWatcher}
        BY <2>0, <2>5, <3>2 DEF Ensure, WatcherInv, OneWatcher, Stopping, delVars, Watching
      <4>2. Watching' = Watching \cup {w}
        BY <2>0, <3>2 DEF TypeOK, Watching
      <4>3. \A v \in cancelled : pc'[v] # "none"
        BY <2>0, <3>2 DEF TypeOK, WatcherInv
      <4>4. w # NoWatcher /\ w \notin Stopping /\ Stopping' = Stopping
        BY <4>1, PicoAssumption DEF Stopping
      <4>5. Watching' \ cancelled' = ({registered'} \cup Stopping') \ {NoWatcher}
        BY <3>2, <4>1, <4>2, <4>4
      <4>6. /\ \A d, e \in Deleters : stopping'[d] = stopping'[e] /\ stopping'[d] # NoWatcher => d = e
            /\ \A d \in Deleters : del'[d] # "unregistered" => stopping'[d] = NoWatcher
        BY <4>1 DEF WatcherInv
      <4> QED
        BY <3>2, <4>1, <4>3, <4>4, <4>5, <4>6 DEF WatcherInv, OneWatcher, Stopping
    <3> QED
      BY <2>5, <3>1, <3>2 DEF Ensure, EnsureLiveWatcher
  <2>6. ASSUME NEW w \in Watchers, LiveStep(w)
        PROVE  WatcherInv'
    <3>1. /\ \E p \in LivePcs : /\ pc' = [pc EXCEPT ![w] = p] /\ p # "none"
                                /\ p = "ended" => w \in cancelled
          /\ pc[w] \notin {"none", "ended"}
          /\ UNCHANGED <<registered, cancelled, delVars>>
      BY <2>6, LiveMoves
    <3>2. Watching' \ cancelled = Watching \ cancelled
      BY <2>0, <3>1 DEF TypeOK, Watching
    <3>3. \A v \in cancelled : pc'[v] # "none"
      BY <2>0, <3>1 DEF TypeOK, WatcherInv
    <3>4. UNCHANGED <<registered, cancelled, del, stopping>>
      BY <3>1 DEF delVars
    <3> QED
      BY <3>2, <3>3, <3>4 DEF WatcherInv, OneWatcher, Stopping
  <2>7. ASSUME NEW d \in Deleters, DeleteUnregisters(d)
        PROVE  WatcherInv'
    <3>1. /\ UNCHANGED <<pc, cancelled>> /\ registered' = NoWatcher
          /\ stopping[d] = NoWatcher /\ stopping' = [stopping EXCEPT ![d] = registered]
          /\ del' = [del EXCEPT ![d] = "unregistered"]
      BY <2>7 DEF DeleteUnregisters, WatcherInv
    <3>2. \A e \in Deleters : stopping'[e] = IF e = d THEN registered ELSE stopping[e]
      BY <2>0, <3>1 DEF TypeOK
    <3>3. {registered'} \cup Stopping' = {NoWatcher, registered} \cup Stopping
                                         \/ Stopping' \ {NoWatcher} = ({registered} \cup Stopping) \ {NoWatcher}
      BY <3>1, <3>2 DEF Stopping
    <3>4. OneWatcher'
      BY <2>0, <3>1, <3>3 DEF OneWatcher, Watching, Stopping
    <3>5. \A c, e \in Deleters : stopping'[c] = stopping'[e] /\ stopping'[c] # NoWatcher => c = e
      BY <3>2 DEF WatcherInv, Stopping
    <3>6. \A e \in Deleters : del'[e] # "unregistered" => stopping'[e] = NoWatcher
      BY <2>0, <3>1, <3>2 DEF WatcherInv, TypeOK
    <3> QED
      BY <3>1, <3>4, <3>5, <3>6 DEF WatcherInv
  <2>8. ASSUME NEW d \in Deleters, DeleteCancels(d)
        PROVE  WatcherInv'
    <3>1. /\ UNCHANGED <<pc, registered>> /\ cancelled' = cancelled \cup ({stopping[d]} \ {NoWatcher})
          /\ stopping' = [stopping EXCEPT ![d] = NoWatcher]
          /\ del' = [del EXCEPT ![d] = "stopped"]
      BY <2>8 DEF DeleteCancels
    <3>2. \A e \in Deleters : stopping'[e] = IF e = d THEN NoWatcher ELSE stopping[e]
      BY <2>0, <3>1 DEF TypeOK
    <3>3. Stopping' \ {NoWatcher} = (Stopping \ {NoWatcher}) \ {stopping[d]}
      BY <3>2 DEF WatcherInv, Stopping
    <3>4. stopping[d] = NoWatcher \/ registered # stopping[d]
      BY DEF WatcherInv, Stopping
    <3>5. Watching' \ cancelled' = (Watching \ cancelled) \ ({stopping[d]} \ {NoWatcher})
      BY <3>1 DEF Watching
    <3>6. Watching \ cancelled = ({registered} \cup Stopping) \ {NoWatcher}
      BY <2>0 DEF OneWatcher, Stopping
    <3>7. Watching' \ cancelled' = ({registered'} \cup Stopping') \ {NoWatcher}
      BY <3>1, <3>3, <3>4, <3>5, <3>6
    <3>8. \A v \in cancelled' : pc'[v] # "none"
      <4>1. stopping[d] # NoWatcher => stopping[d] \in Watching
        BY <3>6 DEF Stopping
      <4> QED
        BY <3>1, <4>1 DEF WatcherInv, Watching
    <3>9. Stopping' \subseteq Stopping \cup {NoWatcher}
      BY <3>3
    <3>10. \A e \in Deleters : del'[e] # "unregistered" => stopping'[e] = NoWatcher
      BY <2>0, <3>1, <3>2 DEF WatcherInv, TypeOK
    <3>11. \A c, e \in Deleters : stopping'[c] = stopping'[e] /\ stopping'[c] # NoWatcher => c = e
      BY <3>2 DEF WatcherInv
    <3> QED
      BY <3>1, <3>7, <3>8, <3>9, <3>10, <3>11 DEF WatcherInv, OneWatcher, Stopping
  <2>9. ASSUME NEW d \in Deleters, DeleteRemoves(d)
        PROVE  WatcherInv'
    <3>1. \A e \in Deleters : del'[e] = del[e] \/ del[e] = "stopped"
      BY <2>0, <2>9 DEF DeleteRemoves, TypeOK
    <3> QED
      BY <2>1, <2>9, <3>1 DEF DeleteRemoves, liveVars
  <2>10. CASE UNCHANGED vars
    BY <2>1, <2>10 DEF vars, liveVars, delVars
  <2> QED
    BY <2>2, <2>3, <2>4, <2>5, <2>6, <2>7, <2>8, <2>9, <2>10 DEF Next
<1>3. WatcherInv => OneWatcher
  BY DEF WatcherInv
<1> QED
  BY <1>1, <1>2, <1>3, TypeInvAlways, PTL DEF Spec
-----------------------------------------------------------------------------
\* What the steps that are not a run's do to the runs: one may begin.
LEMMA OtherSteps ==
  ASSUME TypeInv, [Next]_vars,
         ~ \E r \in Runs : Continue(r) \/ RunStep(r)
  PROVE  /\ UNCHANGED <<phase, answers, silent, byRun>>
         /\ alive' => alive /\ activeRuns' = activeRuns
<1> USE DEF runVars, session, logVars
<1>1. CASE (\E m \in Messages : Broadcast(m) \/ (\E w \in Watchers : Replay(w, m)) \/ ForgetDone(m))
           \/ WindowCloses
  BY <1>1 DEF Broadcast, Replay, ForgetDone, WindowCloses
<1>2. CASE Ensure
  BY <1>2 DEF Ensure
<1>3. ASSUME NEW w \in Watchers, LiveStep(w)
      PROVE  UNCHANGED <<phase, answers, silent, activeRuns, byRun, alive>>
  BY <1>3, LiveMoves
<1>4. CASE \E d \in Deleters : DeleteUnregisters(d) \/ DeleteCancels(d) \/ DeleteRemoves(d)
  BY <1>4 DEF DeleteUnregisters, DeleteCancels, DeleteRemoves
<1>5. CASE UNCHANGED vars
  BY <1>5 DEF vars
<1> QED
  BY <1>1, <1>2, <1>3, <1>4, <1>5 DEF Next

\* What the steps of a run do to its phase, and to what it has answered.
LEMMA RunMoves ==
  ASSUME TypeOK, NEW r \in Runs, Continue(r) \/ RunStep(r)
  PROVE  /\ \E p \in RunPhases : /\ phase' = [phase EXCEPT ![r] = p] /\ p # "none"
                                 /\ p = "finished" <=> phase[r] = "returned"
         /\ phase[r] # "finished" /\ (phase[r] = "none" <=> Continue(r))
         /\ alive' = alive
         /\ ~Continue(r) /\ ~Finish(r) => activeRuns' = activeRuns
<1> USE DEF TypeOK, GoOn, RunPhases, Streaming, session
<1>1. CASE Continue(r)
  BY <1>1 DEF Continue
<1>2. CASE Dial(r) \/ StreamStop(r) \/ StreamEnds(r) \/ StreamBreaks(r) \/ Deadline(r)
  <2>1. \E p \in RunPhases \ {"none", "finished"} : GoOn(r, p)
    BY <1>2 DEF Dial, StreamStop, StreamEnds, StreamBreaks, Deadline
  <2>2. phase[r] \in {"accepted"} \cup Streaming
    BY <1>2 DEF Dial, StreamStop, StreamEnds, StreamBreaks, Deadline
  <2> QED
    BY <2>1, <2>2 DEF Continue
<1>3. CASE Answer(r)
  BY <1>3 DEF Answer, Continue
<1>4. CASE Finish(r)
  <2>1. phase[r] = "returned" /\ phase' = [phase EXCEPT ![r] = "finished"] /\ alive' = alive
    BY <1>4 DEF Finish
  <2> QED
    BY <1>4, <2>1 DEF Continue
<1>5. ASSUME NEW m \in Messages, StreamText(r, m)
      PROVE  /\ \E p \in {"closing", "replying"} : phase' = [phase EXCEPT ![r] = p]
             /\ phase[r] \in Streaming /\ UNCHANGED <<alive, activeRuns>>
  BY <1>5 DEF StreamText
<1>6. CASE \E m \in Messages : StreamText(r, m)
  BY <1>5, <1>6 DEF Continue
<1> QED
  BY <1>1, <1>2, <1>3, <1>4, <1>6 DEF RunStep

AnswerInv == AnsweredUnlessDeadline /\ \A r \in silent : phase[r] \in {"returned", "finished"}

\* A run that no deadline cut short has answered once when it returns.
THEOREM AnsweredUnlessDeadlineAlways == Spec => []AnsweredUnlessDeadline
<1>1. Init => AnswerInv
  BY DEF Init, AnswerInv, AnsweredUnlessDeadline
<1>2. AnswerInv /\ TypeInv /\ [Next]_vars => AnswerInv'
  <2> SUFFICES ASSUME AnswerInv, TypeInv, [Next]_vars
               PROVE  AnswerInv'
    OBVIOUS
  <2>0. TypeOK
    BY DEF TypeInv
  <2> USE DEF AnswerInv, AnsweredUnlessDeadline
  <2>1. ASSUME NEW r \in Runs, Continue(r)
        PROVE  AnswerInv'
    BY <2>0, <2>1 DEF Continue, TypeOK
  <2>2. ASSUME NEW r \in Runs, Dial(r) \/ StreamStop(r) \/ StreamEnds(r) \/ StreamBreaks(r)
        PROVE  AnswerInv'
    BY <2>0, <2>2 DEF Dial, StreamStop, StreamEnds, StreamBreaks, GoOn, TypeOK, Streaming, session
  <2>3. ASSUME NEW r \in Runs, Deadline(r)
        PROVE  AnswerInv'
    BY <2>0, <2>3 DEF Deadline, GoOn, TypeOK, Streaming, session
  <2>4. ASSUME NEW r \in Runs, Answer(r)
        PROVE  AnswerInv'
    <3>1. alive => answers[r] = 0 /\ answers'[r] = 1
      BY <2>0, <2>4 DEF Answer, TypeOK
    <3>2. r \notin silent
      BY <2>4 DEF Answer
    <3>3. /\ UNCHANGED <<silent, alive>> /\ phase' = [phase EXCEPT ![r] = "returned"]
          /\ \A o \in Runs : o # r => answers'[o] = answers[o]
      BY <2>0, <2>4 DEF Answer, GoOn, session, TypeOK
    <3> QED
      BY <2>0, <3>1, <3>2, <3>3 DEF TypeOK
  <2>5. ASSUME NEW r \in Runs, Finish(r)
        PROVE  AnswerInv'
    <3>1. /\ phase[r] = "returned" /\ phase' = [phase EXCEPT ![r] = "finished"]
          /\ UNCHANGED <<silent, answers, alive>>
      BY <2>5 DEF Finish
    <3> QED
      BY <2>0, <3>1 DEF TypeOK
  <2>6. ASSUME NEW r \in Runs, NEW m \in Messages, StreamText(r, m)
        PROVE  AnswerInv'
    BY <2>0, <2>6 DEF StreamText, TypeOK, Streaming, session
  <2>7. CASE ~ \E r \in Runs : Continue(r) \/ RunStep(r)
    BY <2>7, OtherSteps
  <2> QED
    BY <2>1, <2>2, <2>3, <2>4, <2>5, <2>6, <2>7 DEF RunStep
<1>3. AnswerInv => AnsweredUnlessDeadline
  BY DEF AnswerInv
<1> QED
  BY <1>1, <1>2, <1>3, TypeInvAlways, PTL DEF Spec
-----------------------------------------------------------------------------
LEMMA AtWorkFinite == IsFiniteSet(AtWork) /\ Cardinality(AtWork) \in Nat
<1>1. AtWork \subseteq Runs
  BY DEF AtWork
<1> QED
  BY <1>1, PicoAssumption, FS_Subset, FS_CardinalityType

\* While a run is at work, the session counts it.
LEMMA Counted ==
  ASSUME TypeOK, ActiveRunsExact, alive, NEW r \in AtWork
  PROVE  activeRuns > 0
<1>1. Cardinality(AtWork) # 0
  BY AtWorkFinite, FS_EmptySet
<1> QED
  BY <1>1, AtWorkFinite DEF ActiveRunsExact

\* activeRuns is the number of runs at work.
THEOREM ActiveRunsExactAlways == Spec => []ActiveRunsExact
<1>1. Init => ActiveRunsExact
  <2>1. Init => AtWork = {}
    BY DEF Init, AtWork
  <2> QED
    BY <2>1, FS_EmptySet DEF Init, ActiveRunsExact
<1>2. ActiveRunsExact /\ TypeInv /\ [Next]_vars => ActiveRunsExact'
  <2> SUFFICES ASSUME ActiveRunsExact, TypeInv, [Next]_vars, alive'
               PROVE  activeRuns' = Cardinality(AtWork')
    BY DEF ActiveRunsExact
  <2>0. TypeOK
    BY DEF TypeInv
  <2>1. ASSUME NEW r \in Runs, Continue(r)
        PROVE  activeRuns' = Cardinality(AtWork')
    <3>1. r \notin AtWork /\ AtWork' = AtWork \cup {r}
      BY <2>0, <2>1 DEF Continue, AtWork, TypeOK
    <3>2. Cardinality(AtWork') = Cardinality(AtWork) + 1
      BY <3>1, AtWorkFinite, FS_AddElement
    <3> QED
      BY <2>1, <3>2 DEF Continue, ActiveRunsExact
  <2>2. ASSUME NEW r \in Runs, Finish(r)
        PROVE  activeRuns' = Cardinality(AtWork')
    <3>1. r \in AtWork /\ AtWork' = AtWork \ {r}
      BY <2>0, <2>2 DEF Finish, AtWork, TypeOK
    <3>2. Cardinality(AtWork') = Cardinality(AtWork) - 1
      BY <3>1, AtWorkFinite, FS_RemoveElement
    <3>3. alive
      BY <2>2 DEF Finish
    <3>4. activeRuns > 0
      BY <2>0, <3>1, <3>3, Counted
    <3> QED
      BY <2>2, <3>2, <3>3, <3>4 DEF Finish, ActiveRunsExact
  <2>3. ASSUME NEW r \in Runs, RunStep(r), ~Finish(r)
        PROVE  activeRuns' = Cardinality(AtWork')
    <3>1. ~Continue(r) /\ phase[r] # "returned"
      BY <2>3 DEF RunStep, Continue, Dial, StreamStop, StreamEnds, StreamBreaks, Deadline,
                  Answer, StreamText, Streaming
    <3>2. /\ \E p \in RunPhases : /\ phase' = [phase EXCEPT ![r] = p]
                                  /\ p \notin {"none", "finished"}
          /\ phase[r] \notin {"none", "finished"}
          /\ alive' = alive /\ activeRuns' = activeRuns
      BY <2>0, <2>3, <3>1, RunMoves
    <3>3. AtWork' = AtWork
      BY <2>0, <3>2 DEF AtWork, TypeOK
    <3> QED
      BY <3>2, <3>3 DEF ActiveRunsExact
  <2>4. CASE ~ \E r \in Runs : Continue(r) \/ RunStep(r)
    <3>1. UNCHANGED <<phase, activeRuns>> /\ alive
      BY <2>4, OtherSteps
    <3>2. AtWork' = AtWork
      BY <3>1 DEF AtWork
    <3> QED
      BY <3>1, <3>2 DEF ActiveRunsExact
  <2> QED
    BY <2>1, <2>2, <2>3, <2>4
<1> QED
  BY <1>1, <1>2, TypeInvAlways, PTL DEF Spec
-----------------------------------------------------------------------------
(***************************************************************************)
(* What is logged: by a run or by a watcher, and each text once.           *)
(***************************************************************************)

TakenByRun(m) == m \in byRun \/ \E r \in Runs : m \in runInbox[r]
TakenByLive(m) == m \in byLive \/ \E w \in Watchers : held[w] = m

\* A watcher takes a text only when it is not suppressed, and logs what it took.
LEMMA LiveTakes ==
  ASSUME TypeInv, NEW w \in Watchers, LiveStep(w)
  PROVE  /\ \A v \in Watchers : liveInbox'[v] \subseteq liveInbox[v]
         /\ \A m \in byLive' : m \in byLive \/ (alive /\ held[w] = m)
         /\ \/ held'[w] \in {held[w], NoMessage}
            \/ held'[w] \in liveInbox[w] /\ ~Suppressed
         /\ \A v \in Watchers : v # w => held'[v] = held[v]
<1> USE DEF TypeInv, TypeOK, Holds
<1>1. CASE LiveDial(w) \/ LiveDrop(w) \/ LiveIdle(w) \/ LiveRunning(w)
  BY <1>1 DEF LiveDial, LiveDrop, LiveIdle, LiveRunning
<1>2. CASE LiveLeave(w) \/ LiveStart(w) \/ LiveStop(w)
  BY <1>2 DEF LiveLeave, LiveStart, LiveStop
<1>3. CASE LiveDelta(w) \/ CheckDuplicate(w) \/ LiveDone(w)
  BY <1>3 DEF LiveDelta, CheckDuplicate, LiveDone
<1>4. ASSUME NEW m \in Messages, LiveText(w, m)
      PROVE  /\ \A v \in Watchers : liveInbox'[v] \subseteq liveInbox[v]
             /\ byLive' = byLive
             /\ \/ held' = held
                \/ held' = [held EXCEPT ![w] = m] /\ m \in liveInbox[w] /\ ~Suppressed
  BY <1>4 DEF LiveText
<1>5. CASE \E m \in Messages : LiveText(w, m)
  BY <1>4, <1>5
<1> QED
  BY <1>1, <1>2, <1>3, <1>5 DEF LiveStep

\* A run logs what it has received while it streams, and keeps watchers
\* suppressed through its last step.
LEMMA RunTakes ==
  ASSUME TypeInv, NEW r \in Runs, RunStep(r),
         runInbox[r] # {} => phase[r] \in Streaming
  PROVE  /\ runInbox'[r] \subseteq runInbox[r]
         /\ runInbox'[r] # {} => phase'[r] \in Streaming
         /\ \A o \in Runs : o # r => runInbox'[o] = runInbox[o] /\ phase'[o] = phase[o]
         /\ \A m \in byRun' : m \in byRun \/ (alive /\ m \in runInbox[r])
         /\ byRun \subseteq byRun'
         /\ Suppressed => Suppressed'
<1> USE DEF TypeInv, TypeOK, Streaming, session, Suppressed
<1>1. CASE Dial(r) \/ StreamStop(r) \/ StreamEnds(r) \/ StreamBreaks(r) \/ Deadline(r) \/ Answer(r)
  <2>1. (\E p \in RunPhases : GoOn(r, p)) /\ byRun' = byRun
    BY <1>1 DEF Dial, StreamStop, StreamEnds, StreamBreaks, Deadline, Answer, RunPhases
  <2>2. runInbox'[r] \in {{}, runInbox[r]}
        /\ \A o \in Runs : o # r => runInbox'[o] = runInbox[o] /\ phase'[o] = phase[o]
    BY <2>1 DEF GoOn
  <2>3. runInbox'[r] # {} => phase'[r] \in Streaming
    BY <2>1 DEF GoOn
  <2>4. UNCHANGED <<alive, activeRuns, window>>
    BY <2>1 DEF GoOn
  <2> QED
    BY <2>1, <2>2, <2>3, <2>4
<1>2. CASE Finish(r)
  <2>1. runInbox[r] = {} /\ UNCHANGED <<runInbox, byRun, alive>>
        /\ \A o \in Runs : o # r => phase'[o] = phase[o]
    BY <1>2 DEF Finish, logVars
  <2>2. Suppressed => Suppressed'
    <3>1. alive => activeRuns' \in Nat /\ (activeRuns' = 0 => window' = TRUE)
                   /\ (activeRuns' # 0 => window' = window)
      BY <1>2 DEF Finish
    <3> QED
      BY <2>1, <3>1
  <2> QED
    BY <2>1, <2>2
<1>3. ASSUME NEW m \in Messages, StreamText(r, m)
      PROVE  /\ runInbox'[r] \subseteq runInbox[r]
             /\ runInbox'[r] # {} => phase'[r] \in Streaming
             /\ \A o \in Runs : o # r => runInbox'[o] = runInbox[o] /\ phase'[o] = phase[o]
             /\ byRun' = (IF alive THEN byRun \cup {m} ELSE byRun) /\ m \in runInbox[r]
             /\ UNCHANGED <<alive, activeRuns, window>>
  BY <1>3 DEF StreamText
<1>4. CASE \E m \in Messages : StreamText(r, m)
  BY <1>3, <1>4
<1> QED
  BY <1>1, <1>2, <1>4 DEF RunStep

\* While the session lives, a text is a run's or a watcher's; only a connection
\* that is read has texts; and a watcher that still has to read a text that a
\* run has logged is suppressed.
LogInv ==
  /\ NotTwice
  /\ \A m \in Messages :
       TakenByRun(m) \/ TakenByLive(m) \/ (\E w \in Watchers : m \in liveInbox[w]) => m \in sent
  /\ alive =>
       /\ \A m \in Messages : ~(TakenByRun(m) /\ TakenByLive(m))
       /\ \A r \in Runs : runInbox[r] # {} => phase[r] \in Streaming
       /\ \A w \in Watchers : liveInbox[w] \cap byRun # {} => Suppressed

\* A run's texts are on their way while it is at work, and suppress watchers.
LEMMA Unsuppressed ==
  ASSUME TypeInv, LogInv, ActiveRunsExact, alive, ~Suppressed
  PROVE  \A r \in Runs : runInbox[r] = {}
<1> SUFFICES ASSUME NEW r \in Runs, runInbox[r] # {}
             PROVE  FALSE
  OBVIOUS
<1>1. r \in AtWork
  BY DEF LogInv, AtWork, Streaming
<1> QED
  BY <1>1, Counted DEF TypeInv, Suppressed

\* A reply is logged by the run it answers, or by a watcher, and never by both.
THEOREM NotTwiceAlways == Spec => []NotTwice
<1>1. Init => LogInv
  <2> SUFFICES ASSUME Init
               PROVE  LogInv
    OBVIOUS
  <2>1. \A m \in Messages : ~TakenByRun(m) /\ ~TakenByLive(m)
    BY PicoAssumption DEF Init, TakenByRun, TakenByLive
  <2> QED
    BY <2>1 DEF Init, LogInv, NotTwice
<1>2. LogInv /\ ActiveRunsExact /\ TypeInv /\ [Next]_vars => LogInv'
  <2> SUFFICES ASSUME LogInv, ActiveRunsExact, TypeInv, [Next]_vars
               PROVE  LogInv'
    OBVIOUS
  <2>0. TypeOK
    BY DEF TypeInv
  <2> USE DEF TakenByRun, TakenByLive, session, runVars, liveVars, logVars
  <2>1. ASSUME UNCHANGED <<runInbox, phase, liveInbox, held, sent, byRun, byLive>>,
               alive' => alive /\ (Suppressed => Suppressed')
        PROVE  LogInv'
    BY <2>1 DEF LogInv, NotTwice
  <2>2. ASSUME NEW m \in Messages, Broadcast(m)
        PROVE  LogInv'
    <3>1. m \notin sent /\ sent' = sent \cup {m} /\ Suppressed' = Suppressed
          /\ UNCHANGED <<alive, phase, held, byRun, byLive>>
      BY <2>2 DEF Broadcast, Suppressed
    <3>2. ~TakenByRun(m) /\ ~TakenByLive(m)
      BY <3>1 DEF LogInv
    <3>3. \A r \in Runs : /\ runInbox'[r] \subseteq runInbox[r] \cup {m}
                          /\ runInbox'[r] # {} => runInbox[r] # {} \/ phase[r] \in Streaming
      BY <2>0, <2>2 DEF Broadcast, TypeOK
    <3>4. \A w \in Watchers : liveInbox'[w] \subseteq liveInbox[w] \cup {m}
      BY <2>0, <2>2 DEF Broadcast, TypeOK
    <3>5. \A n \in Messages : n # m => (TakenByRun(n)' => TakenByRun(n))
                                       /\ (TakenByLive(n)' => TakenByLive(n))
      BY <3>1, <3>3
    <3>6. ~TakenByLive(m)'
      BY <3>1, <3>2
    <3>7. \A w \in Watchers : liveInbox'[w] \cap byRun' # {} => liveInbox[w] \cap byRun # {}
      BY <3>1, <3>2, <3>4
    <3>8. \A n \in Messages :
            TakenByRun(n)' \/ TakenByLive(n)' \/ (\E w \in Watchers : n \in liveInbox'[w]) => n \in sent'
      BY <3>1, <3>4, <3>5 DEF LogInv
    <3> QED
      BY <3>1, <3>3, <3>5, <3>6, <3>7, <3>8 DEF LogInv, NotTwice
  <2>3. ASSUME NEW m \in Messages, NEW w \in Watchers, Replay(w, m)
        PROVE  LogInv'
    <3>1. /\ UNCHANGED <<runInbox, phase, held, sent, byRun, byLive, alive>>
          /\ m \in sent /\ (m \in byRun => Suppressed) /\ Suppressed' = Suppressed
      BY <2>3 DEF Replay, KeepsUp, Suppressed
    <3>2. \A v \in Watchers : liveInbox'[v] = liveInbox[v] \/ liveInbox'[v] = liveInbox[v] \cup {m}
      BY <2>0, <2>3 DEF Replay, TypeOK
    <3>3. \A v \in Watchers : alive /\ liveInbox'[v] \cap byRun' # {} => Suppressed'
      BY <3>1, <3>2 DEF LogInv
    <3> QED
      BY <3>1, <3>2, <3>3 DEF LogInv, NotTwice
  <2>4. CASE WindowCloses
    <3>1. /\ UNCHANGED <<runInbox, phase, liveInbox, held, sent, byRun, byLive, alive>>
          /\ \A w \in Watchers : liveInbox[w] \cap byRun = {}
      BY <2>4 DEF WindowCloses
    <3> QED
      BY <3>1 DEF LogInv, NotTwice
  <2>5. ASSUME NEW r \in Runs, Continue(r)
        PROVE  LogInv'
    <3>1. /\ UNCHANGED <<runInbox, liveInbox, held, sent, byRun, byLive, alive>> /\ alive
          /\ phase[r] = "none" /\ phase' = [phase EXCEPT ![r] = "accepted"]
          /\ activeRuns' = activeRuns + 1
      BY <2>5 DEF Continue
    <3>2. Suppressed'
      BY <2>0, <3>1 DEF Suppressed, TypeOK
    <3>3. \A o \in Runs : runInbox[o] # {} => phase'[o] \in Streaming
      BY <2>0, <3>1 DEF LogInv, TypeOK, Streaming
    <3> QED
      BY <3>1, <3>2, <3>3 DEF LogInv, NotTwice
  <2>6. ASSUME NEW r \in Runs, RunStep(r), ~alive
        PROVE  LogInv'
    <3>1. /\ UNCHANGED <<alive, liveInbox, held, sent, byLive>>
      BY <2>0, <2>6, RunType
    <3>2. byRun' = byRun /\ \A o \in Runs : runInbox'[o] \subseteq runInbox[o]
      BY <2>0, <2>6 DEF RunStep, Dial, StreamStop, StreamEnds, StreamBreaks, Deadline, Answer,
                        Finish, StreamText, GoOn, TypeOK
    <3> QED
      BY <2>6, <3>1, <3>2 DEF LogInv, NotTwice
  <2>7. ASSUME NEW r \in Runs, RunStep(r), alive
        PROVE  LogInv'
    <3>1. UNCHANGED <<alive, liveInbox, held, sent, byLive>>
      BY <2>0, <2>7, RunType
    <3>2. /\ runInbox'[r] \subseteq runInbox[r]
          /\ runInbox'[r] # {} => phase'[r] \in Streaming
          /\ \A o \in Runs : o # r => runInbox'[o] = runInbox[o] /\ phase'[o] = phase[o]
          /\ \A m \in byRun' : m \in byRun \/ m \in runInbox[r]
          /\ byRun \subseteq byRun'
          /\ Suppressed => Suppressed'
      BY <2>7, RunTakes DEF LogInv
    <3>3. \A m \in Messages : (TakenByRun(m)' => TakenByRun(m)) /\ TakenByLive(m)' = TakenByLive(m)
      BY <3>1, <3>2
    <3>4. \A o \in Runs : runInbox'[o] # {} => phase'[o] \in Streaming
      BY <2>7, <3>2 DEF LogInv
    <3>5. ASSUME NEW w \in Watchers, liveInbox'[w] \cap byRun' # {}
          PROVE  Suppressed
      <4>1. CASE liveInbox[w] \cap byRun # {}
        BY <2>7, <4>1 DEF LogInv
      <4>2. CASE runInbox[r] # {}
        BY <2>7, <4>2, Unsuppressed
      <4> QED
        BY <3>1, <3>2, <3>5, <4>1, <4>2
    <3>6. byRun' \subseteq Messages
      BY <2>0, <2>7, RunType
    <3>7. \A m \in byRun' : TakenByRun(m)
      BY <3>2
    <3>8. NotTwice'
      BY <2>7, <3>1, <3>6, <3>7 DEF LogInv, NotTwice
    <3> QED
      BY <2>7, <3>1, <3>2, <3>3, <3>4, <3>5, <3>8 DEF LogInv
  <2>8. CASE Ensure
    BY <2>1, <2>8 DEF Ensure, Suppressed
  <2>9. ASSUME NEW w \in Watchers, LiveStep(w)
        PROVE  LogInv'
    <3>1. /\ UNCHANGED <<alive, phase, runInbox, sent, byRun>> /\ Suppressed' = Suppressed
          /\ byLive' \subseteq Messages
      BY <2>9, LiveMoves DEF Suppressed
    <3>2. /\ \A v \in Watchers : liveInbox'[v] \subseteq liveInbox[v]
          /\ \A m \in byLive' : m \in byLive \/ (alive /\ held[w] = m)
          /\ \/ held'[w] \in {held[w], NoMessage}
             \/ held'[w] \in liveInbox[w] /\ ~Suppressed
          /\ \A v \in Watchers : v # w => held'[v] = held[v]
      BY <2>9, LiveTakes
    <3>3. \A m \in Messages : TakenByLive(m)' =>
            TakenByLive(m) \/ (m \in liveInbox[w] /\ ~Suppressed)
      BY <3>2, PicoAssumption
    <3>4. \A m \in Messages : TakenByRun(m)' = TakenByRun(m)
      BY <3>1
    <3>5. \A m \in Messages : alive /\ TakenByLive(m)' => ~TakenByRun(m)
      <4> SUFFICES ASSUME NEW m \in Messages, alive, TakenByLive(m)', TakenByRun(m)
                   PROVE  FALSE
        OBVIOUS
      <4>1. m \in liveInbox[w] /\ ~Suppressed
        BY <3>3 DEF LogInv
      <4>2. m \in byRun
        BY <4>1, Unsuppressed
      <4> QED
        BY <4>1, <4>2 DEF LogInv
    <3>6. NotTwice'
      <4>1. CASE alive
        <5>1. \A m \in byLive' : TakenByLive(m)'
          OBVIOUS
        <5> QED
          BY <3>1, <3>5, <4>1, <5>1 DEF NotTwice
      <4>2. CASE ~alive
        BY <3>1, <3>2, <4>2 DEF LogInv, NotTwice
      <4> QED
        BY <4>1, <4>2
    <3>7. \A m \in Messages :
            TakenByRun(m)' \/ TakenByLive(m)' \/ (\E v \in Watchers : m \in liveInbox'[v]) => m \in sent'
      BY <3>1, <3>2, <3>3, <3>4 DEF LogInv
    <3>8. \A v \in Watchers : alive /\ liveInbox'[v] \cap byRun' # {} => Suppressed'
      BY <3>1, <3>2 DEF LogInv
    <3> QED
      BY <3>1, <3>4, <3>5, <3>6, <3>7, <3>8 DEF LogInv
  <2>10. ASSUME NEW d \in Deleters, DeleteUnregisters(d) \/ DeleteCancels(d)
         PROVE  LogInv'
    BY <2>1, <2>10 DEF DeleteUnregisters, DeleteCancels, Suppressed
  <2>11. ASSUME NEW d \in Deleters, DeleteRemoves(d)
         PROVE  LogInv'
    BY <2>1, <2>11 DEF DeleteRemoves
  <2>12. ASSUME NEW m \in Messages, ForgetDone(m)
         PROVE  LogInv'
    BY <2>1, <2>12 DEF ForgetDone, Suppressed
  <2>13. CASE UNCHANGED vars
    BY <2>1, <2>13 DEF vars, Suppressed
  <2> QED
    BY <2>2, <2>3, <2>4, <2>5, <2>6, <2>7, <2>8, <2>9, <2>10, <2>11, <2>12, <2>13 DEF Next
<1>3. LogInv => NotTwice
  BY DEF LogInv
<1> QED
  BY <1>1, <1>2, <1>3, TypeInvAlways, ActiveRunsExactAlways, PTL DEF Spec
-----------------------------------------------------------------------------
\* What steps of others than the watchers do to what the watchers do: one may
\* be started.
LEMMA LiveUntouched ==
  ASSUME TypeInv, [Next]_vars, ~ \E w \in Watchers : LiveStep(w)
  PROVE  /\ UNCHANGED <<held, typing, liveDones, unsettled>>
         /\ \A w \in Watchers : pc'[w] = pc[w] \/ (pc[w] = "none" /\ pc'[w] = "dialing")
         /\ alive' => alive
         /\ \/ (alive' => liveDoneSeen' = liveDoneSeen) /\ lapses' = lapses
            \/ \E m \in Messages : ForgetDone(m)
<1> USE DEF TypeInv, TypeOK, runVars, liveVars, session, logVars
<1>1. CASE (\E m \in Messages : Broadcast(m) \/ \E w \in Watchers : Replay(w, m)) \/ WindowCloses
  BY <1>1 DEF Broadcast, Replay, WindowCloses
<1>2. ASSUME NEW r \in Runs, Continue(r)
      PROVE  UNCHANGED <<held, typing, liveDoneSeen, liveDones, lapses, unsettled, pc, alive>>
  BY <1>2 DEF Continue
<1>3. ASSUME NEW r \in Runs, RunStep(r)
      PROVE  UNCHANGED <<held, typing, liveDoneSeen, liveDones, lapses, unsettled, pc, alive>>
  BY <1>3, RunType
<1>4. CASE Ensure
  BY <1>4 DEF Ensure, EnsureLiveWatcher
<1>5. CASE \E d \in Deleters : DeleteUnregisters(d) \/ DeleteCancels(d) \/ DeleteRemoves(d)
  BY <1>5 DEF DeleteUnregisters, DeleteCancels, DeleteRemoves
<1>6. ASSUME NEW m \in Messages, ForgetDone(m)
      PROVE  UNCHANGED <<held, typing, liveDones, unsettled, pc, alive>>
  BY <1>6 DEF ForgetDone
<1>7. CASE UNCHANGED vars
  BY <1>7 DEF vars
<1> QED
  BY <1>1, <1>2, <1>3, <1>4, <1>5, <1>6, <1>7 DEF Next

AtDone(w, m) == pc[w] = "done" /\ held[w] = m

Pending(m) == {w \in Watchers : AtDone(w, m)}
Remembered(m) == IF m \in liveDoneSeen THEN 1 ELSE 0

\* Each message.done logged, or about to be logged by a watcher, took the text
\* past isDuplicateLiveDone when it was not remembered, and it was from then on.
DoneInv ==
  /\ OneDonePerTTL
  /\ alive => \A m \in Messages :
       liveDones[m] + Cardinality(Pending(m)) <= lapses[m] + Remembered(m)

LEMMA PendingFinite ==
  \A m \in Messages : IsFiniteSet(Pending(m)) /\ Cardinality(Pending(m)) \in Nat
<1>1. \A m \in Messages : Pending(m) \subseteq Watchers
  BY DEF Pending
<1> QED
  BY <1>1, PicoAssumption, FS_Subset, FS_CardinalityType

\* A text is one message.done for each time that it is remembered.
THEOREM OneDonePerTTLAlways == Spec => []OneDonePerTTL
<1>1. Init => DoneInv
  <2> SUFFICES ASSUME Init
               PROVE  DoneInv
    OBVIOUS
  <2>1. \A m \in Messages : Pending(m) = {}
    BY DEF Init, Pending, AtDone
  <2>2. \A m \in Messages : Cardinality(Pending(m)) = 0
    BY <2>1, FS_EmptySet
  <2> QED
    BY <2>2 DEF Init, DoneInv, OneDonePerTTL, Remembered
<1>2. DoneInv /\ TypeInv /\ [Next]_vars => DoneInv'
  <2> SUFFICES ASSUME DoneInv, TypeInv, [Next]_vars
               PROVE  DoneInv'
    OBVIOUS
  <2>0. /\ TypeOK
        /\ \A m \in Messages : liveDones[m] \in Nat /\ lapses[m] \in Nat
    BY DEF TypeInv, TypeOK
  \* It is enough to account for the watchers about to log, while the session lives.
  <2>1. ASSUME \A m \in Messages : liveDones'[m] \in Nat /\ lapses'[m] \in Nat,
               alive' \/ UNCHANGED <<liveDones, lapses>>,
               alive' => \A m \in Messages :
                 liveDones'[m] + Cardinality(Pending(m)') <= lapses'[m] + Remembered(m)'
        PROVE  DoneInv'
    <3>1. CASE alive'
      <4>1. \A m \in Messages : Remembered(m)' \in {0, 1}
        BY DEF Remembered
      <4>2. \A m \in Messages : Cardinality(Pending(m)') \in Nat
        <5>1. \A m \in Messages : Pending(m)' \subseteq Watchers
          BY DEF Pending
        <5> QED
          BY <5>1, PicoAssumption, FS_Subset, FS_CardinalityType
      <4>3. \A m \in Messages : liveDones'[m] <= 1 + lapses'[m]
        BY <2>1, <3>1, <4>1, <4>2
      <4> QED
        BY <2>1, <3>1, <4>3 DEF DoneInv, OneDonePerTTL
    <3>2. CASE ~alive'
      BY <2>1, <3>2 DEF DoneInv, OneDonePerTTL
    <3> QED
      BY <3>1, <3>2
  \* Steps that bring no watcher to "done", and none from it.
  <2>2. ASSUME alive' => alive, alive' => liveDoneSeen' = liveDoneSeen,
               UNCHANGED <<liveDones, lapses>>,
               \A w \in Watchers : \A m \in Messages : AtDone(w, m)' <=> AtDone(w, m)
        PROVE  DoneInv'
    <3>1. \A m \in Messages : Pending(m)' = Pending(m)
      BY <2>2 DEF Pending
    <3> QED
      BY <2>0, <2>1, <2>2, <3>1 DEF DoneInv, Remembered
  <2>3. ASSUME ~ \E w \in Watchers : LiveStep(w), ~ \E m \in Messages : ForgetDone(m)
        PROVE  DoneInv'
    <3>1. /\ UNCHANGED <<held, liveDones, lapses>> /\ (alive' => alive)
          /\ alive' => liveDoneSeen' = liveDoneSeen
          /\ \A w \in Watchers : pc'[w] = pc[w] \/ (pc[w] = "none" /\ pc'[w] = "dialing")
      BY <2>3, LiveUntouched
    <3>2. \A w \in Watchers : \A m \in Messages : AtDone(w, m)' <=> AtDone(w, m)
      BY <3>1 DEF AtDone
    <3> QED
      BY <2>2, <3>1, <3>2
  <2>4. ASSUME NEW n \in Messages, ForgetDone(n)
        PROVE  DoneInv'
    <3>1. /\ n \in liveDoneSeen /\ liveDoneSeen' = liveDoneSeen \ {n}
          /\ UNCHANGED <<alive, liveDones, pc, held>> /\ alive
          /\ lapses' = [lapses EXCEPT ![n] = @ + 1]
      BY <2>4 DEF ForgetDone, liveVars
    <3>2. \A m \in Messages : lapses'[m] = IF m = n THEN lapses[m] + 1 ELSE lapses[m]
      BY <2>0, <3>1 DEF TypeOK
    <3>3. \A m \in Messages : lapses'[m] + Remembered(m)' = lapses[m] + Remembered(m)
      BY <2>0, <3>1, <3>2 DEF Remembered
    <3>4. \A m \in Messages : Pending(m)' = Pending(m)
      BY <3>1 DEF Pending, AtDone
    <3>5. \A m \in Messages : liveDones'[m] \in Nat /\ lapses'[m] \in Nat
      BY <2>0, <3>1, <3>2
    <3>6. \A m \in Messages :
            liveDones'[m] + Cardinality(Pending(m)') <= lapses'[m] + Remembered(m)'
      BY <3>1, <3>3, <3>4 DEF DoneInv
    <3> QED
      BY <2>1, <3>1, <3>5, <3>6
  <2>5. ASSUME NEW w \in Watchers, LiveStep(w), ~CheckDuplicate(w), ~LiveDone(w)
        PROVE  DoneInv'
    <3>1. UNCHANGED <<alive, liveDoneSeen, liveDones, lapses>>
      BY <2>5 DEF LiveStep, LiveDial, LiveLeave, LiveDrop, LiveStart, LiveStop, LiveRunning,
                  LiveDelta, LiveIdle, LiveText
    <3>2. pc[w] # "done" /\ \E p \in LivePcs \ {"done"} : pc' = [pc EXCEPT ![w] = p]
      BY <2>5 DEF LiveStep, LiveDial, LiveLeave, LiveDrop, LiveStart, LiveStop, LiveRunning,
                  LiveDelta, LiveIdle, LiveText, LiveGoto, Redial, Reread, LivePcs
    <3>3. \A v \in Watchers : v # w => held'[v] = held[v]
      BY <2>5, LiveMoves
    <3>4. \A v \in Watchers : \A m \in Messages : AtDone(v, m)' <=> AtDone(v, m)
      BY <2>0, <3>2, <3>3 DEF AtDone, TypeOK
    <3> QED
      BY <2>2, <3>1, <3>4
  <2>6. ASSUME NEW w \in Watchers, LiveStep(w), CheckDuplicate(w)
        PROVE  DoneInv'
    <3>1. UNCHANGED <<alive, liveDones, lapses>> /\ pc[w] = "checking" /\ held[w] \in Messages
      BY <2>6 DEF LiveStep, CheckDuplicate, TypeInv, Handling
    <3>2. CASE ~alive
      BY <2>0, <2>1, <3>1, <3>2
    <3>3. CASE alive /\ held[w] \in liveDoneSeen
      <4>1. liveDoneSeen' = liveDoneSeen
        BY <2>6, <3>3 DEF CheckDuplicate
      <4>2. \E p \in {"leaving", "reading"} : pc' = [pc EXCEPT ![w] = p]
        BY <2>6, <3>3 DEF CheckDuplicate, LiveGoto, Reread
      <4>3. \A v \in Watchers : v # w => held'[v] = held[v]
        BY <2>6, LiveMoves
      <4>4. \A v \in Watchers : \A m \in Messages : AtDone(v, m)' <=> AtDone(v, m)
        BY <2>0, <3>1, <4>2, <4>3 DEF AtDone, TypeOK
      <4> QED
        BY <2>2, <3>1, <4>1, <4>4
    <3>4. CASE alive /\ held[w] \notin liveDoneSeen
      <4>0. PICK n \in Messages : n = held[w]
        BY <3>1
      <4>1. /\ liveDoneSeen' = liveDoneSeen \cup {n} /\ held' = held
            /\ pc' = [pc EXCEPT ![w] = "done"] /\ n \notin liveDoneSeen
        BY <2>6, <3>4, <4>0 DEF CheckDuplicate, LiveGoto
      <4>2. \A m \in Messages : m # n => Pending(m)' = Pending(m) /\ Remembered(m)' = Remembered(m)
        BY <2>0, <3>1, <4>0, <4>1 DEF Pending, AtDone, TypeOK, Remembered
      <4>3. Pending(n)' = Pending(n) \cup {w} /\ w \notin Pending(n)
        BY <2>0, <3>1, <4>0, <4>1 DEF Pending, AtDone, TypeOK
      <4>4. Cardinality(Pending(n)') = Cardinality(Pending(n)) + 1
        BY <4>3, PendingFinite, FS_AddElement
      <4>5. Remembered(n) = 0 /\ Remembered(n)' = 1
        BY <4>1 DEF Remembered
      <4>6. \A m \in Messages : liveDones[m] + Cardinality(Pending(m)) <= lapses[m] + Remembered(m)
        BY <3>4 DEF DoneInv
      <4>7. liveDones[n] + Cardinality(Pending(n)') <= lapses[n] + Remembered(n)'
        BY <2>0, <4>4, <4>5, <4>6, PendingFinite
      <4>8. \A m \in Messages :
              liveDones'[m] + Cardinality(Pending(m)') <= lapses'[m] + Remembered(m)'
        BY <3>1, <4>2, <4>6, <4>7
      <4> QED
        BY <2>0, <2>1, <3>1, <3>4, <4>8
    <3> QED
      BY <2>0, <3>2, <3>3, <3>4 DEF TypeOK
  <2>7. ASSUME NEW w \in Watchers, LiveStep(w), LiveDone(w)
        PROVE  DoneInv'
    <3>1. UNCHANGED <<alive, liveDoneSeen, lapses>> /\ pc[w] = "done" /\ held[w] \in Messages
      BY <2>7 DEF LiveStep, LiveDone, TypeInv, Handling
    <3>2. /\ pc' = [pc EXCEPT ![w] = "idling"]
          /\ \A v \in Watchers : v # w => held'[v] = held[v]
      BY <2>0, <2>7 DEF LiveDone, LiveGoto, Holds, TypeOK
    <3>3. CASE ~alive
      <4>1. liveDones' = liveDones
        BY <2>7, <3>3 DEF LiveDone
      <4> QED
        BY <2>0, <2>1, <3>1, <3>3, <4>1
    <3>4. CASE alive
      <4>0. PICK n \in Messages : n = held[w]
        BY <3>1
      <4>1. liveDones' = [liveDones EXCEPT ![n] = @ + 1]
        BY <2>7, <3>4, <4>0 DEF LiveDone
      <4>2. \A m \in Messages : liveDones'[m] = IF m = n THEN liveDones[m] + 1 ELSE liveDones[m]
        BY <2>0, <4>1 DEF TypeOK
      <4>3. \A m \in Messages : m # n => Pending(m)' = Pending(m)
        BY <2>0, <3>1, <3>2, <4>0 DEF Pending, AtDone, TypeOK
      <4>4. Pending(n)' = Pending(n) \ {w} /\ w \in Pending(n)
        BY <2>0, <3>1, <3>2, <4>0 DEF Pending, AtDone, TypeOK
      <4>5. Cardinality(Pending(n)') = Cardinality(Pending(n)) - 1
        BY <4>4, PendingFinite, FS_RemoveElement
      <4>6. \A m \in Messages : liveDones[m] + Cardinality(Pending(m)) <= lapses[m] + Remembered(m)
        BY <3>4 DEF DoneInv
      <4>7. \A m \in Messages : Remembered(m)' = Remembered(m)
        BY <3>1 DEF Remembered
      <4>8. liveDones'[n] + Cardinality(Pending(n)') = liveDones[n] + Cardinality(Pending(n))
        BY <2>0, <4>2, <4>5, PendingFinite
      <4>9. \A m \in Messages :
              liveDones'[m] + Cardinality(Pending(m)') <= lapses'[m] + Remembered(m)'
        BY <3>1, <4>2, <4>3, <4>6, <4>7, <4>8
      <4>10. \A m \in Messages : liveDones'[m] \in Nat /\ lapses'[m] \in Nat
        BY <2>0, <3>1, <4>2
      <4> QED
        BY <2>1, <3>1, <3>4, <4>9, <4>10
    <3> QED
      BY <2>0, <3>3, <3>4 DEF TypeOK
  <2> QED
    BY <2>3, <2>4, <2>5, <2>6, <2>7
<1>3. DoneInv => OneDonePerTTL
  BY DEF DoneInv
<1> QED
  BY <1>1, <1>2, <1>3, TypeInvAlways, PTL DEF Spec
-----------------------------------------------------------------------------
InTurn(w) == typing[w] \/ pc[w] \in {"idling", "dropping"}

\* A session that is running has a run, or a watcher in a turn that it will end;
\* and a watcher that says so is in a turn.
SettleInv ==
  /\ \A w \in Watchers : pc[w] \in {"starting", "streaming", "appending"} => typing[w]
  /\ alive /\ status = "running" /\ ~unsettled =>
       activeRuns > 0 \/ \E w \in Watchers : InTurn(w)

\* A session without a run or a passive turn is idle, unless a watcher lost its
\* connection in the middle of a turn while it was suppressed.
THEOREM SettlesIdleAlways == Spec => []SettlesIdle
<1>1. Init => SettleInv
  BY DEF Init, SettleInv
<1>2. SettleInv /\ TypeInv /\ [Next]_vars => SettleInv'
  <2> SUFFICES ASSUME SettleInv, TypeInv, [Next]_vars
               PROVE  SettleInv'
    OBVIOUS
  <2>0. TypeOK
    BY DEF TypeInv
  <2>1. ASSUME ~ \E w \in Watchers : LiveStep(w)
        PROVE  SettleInv'
    <3>1. /\ UNCHANGED <<typing, unsettled>> /\ (alive' => alive)
          /\ \A w \in Watchers : pc'[w] = pc[w] \/ (pc[w] = "none" /\ pc'[w] = "dialing")
      BY <2>1, LiveUntouched
    <3>2. \A w \in Watchers : InTurn(w)' <=> InTurn(w)
      BY <3>1 DEF InTurn
    <3>3. \A w \in Watchers : pc'[w] \in {"starting", "streaming", "appending"} => typing'[w]
      BY <3>1 DEF SettleInv
    <3>4. CASE UNCHANGED <<activeRuns, status>>
      BY <3>1, <3>2, <3>3, <3>4 DEF SettleInv
    <3>5. ASSUME NEW r \in Runs, Continue(r)
          PROVE  SettleInv'
      <4>1. activeRuns' > 0
        BY <2>0, <3>5 DEF Continue, TypeOK
      <4> QED
        BY <3>3, <4>1 DEF SettleInv
    <3>6. ASSUME NEW r \in Runs, Finish(r)
          PROVE  SettleInv'
      <4>1. activeRuns' \in Nat /\ (alive /\ activeRuns' = 0 => status' = "idle")
        BY <2>0, <3>6, RunType DEF Finish, RunStep
      <4> QED
        BY <3>1, <3>3, <4>1 DEF SettleInv
    <3>7. ASSUME NEW r \in Runs, RunStep(r), ~Finish(r)
          PROVE  UNCHANGED <<activeRuns, status>>
      BY <3>7 DEF RunStep, Dial, StreamStop, StreamEnds, StreamBreaks, Deadline, Answer,
                  StreamText, GoOn, session
    <3>8. CASE ~alive'
      BY <3>3, <3>8 DEF SettleInv
    <3> QED
      BY <2>1, <3>4, <3>5, <3>6, <3>7, <3>8
         DEF Next, Broadcast, Replay, WindowCloses, ForgetDone, Ensure, DeleteUnregisters,
             DeleteCancels, DeleteRemoves, vars, session
  <2>2. ASSUME NEW w \in Watchers, LiveStep(w)
        PROVE  SettleInv'
    <3> USE DEF LiveGoto, SetSessionStatus, Redial, Reread
    <3>1. UNCHANGED <<alive, activeRuns>> /\ pc' \in [Watchers -> LivePcs]
          /\ \E p \in LivePcs : pc' = [pc EXCEPT ![w] = p]
      BY <2>2, LiveMoves
    <3>2. \A v \in Watchers : v # w => pc'[v] = pc[v]
      BY <2>0, <3>1 DEF TypeOK
    \* A step that keeps typing and does not leave "idling" or "dropping".
    <3>3. ASSUME UNCHANGED <<typing, status, unsettled>>, pc[w] \notin {"idling", "dropping"},
                 pc'[w] \in {"starting", "streaming", "appending"} => typing[w]
          PROVE  SettleInv'
      <4>1. \A v \in Watchers : InTurn(v) => InTurn(v)'
        BY <3>2, <3>3 DEF InTurn
      <4>2. \A v \in Watchers : pc'[v] \in {"starting", "streaming", "appending"} => typing'[v]
        BY <3>2, <3>3 DEF SettleInv
      <4> QED
        BY <3>1, <3>3, <4>1, <4>2 DEF SettleInv
    <3>4. CASE LiveDial(w) \/ LiveDelta(w) \/ CheckDuplicate(w) \/ LiveDone(w)
      <4>1. /\ UNCHANGED <<typing, status, unsettled>> /\ pc[w] \notin {"idling", "dropping"}
            /\ pc'[w] \notin {"starting", "streaming", "appending"}
        BY <2>0, <3>4 DEF LiveDial, LiveDelta, CheckDuplicate, LiveDone, TypeOK
      <4> QED
        BY <3>3, <4>1
    <3>5. ASSUME NEW m \in Messages, LiveText(w, m)
          PROVE  SettleInv'
      <4>1. /\ UNCHANGED <<typing, status, unsettled>> /\ pc[w] \notin {"idling", "dropping"}
            /\ pc'[w] \in {"starting", "streaming", "appending"} => typing[w]
        BY <2>0, <3>5 DEF LiveText, TypeOK
      <4> QED
        BY <3>3, <4>1
    <3>6. CASE LiveRunning(w)
      <4>1. typing[w] /\ UNCHANGED <<typing, unsettled>>
        BY <3>6 DEF LiveRunning, SettleInv
      <4> QED
        BY <3>1, <3>2, <4>1 DEF SettleInv, InTurn
    <3>7. CASE LiveDrop(w) \/ LiveIdle(w)
      <4>1. UNCHANGED typing /\ (alive => status' = "idle")
            /\ pc'[w] \notin {"starting", "streaming", "appending"}
        BY <2>0, <3>7 DEF LiveDrop, LiveIdle, TypeOK
      <4> QED
        BY <3>1, <3>2, <4>1 DEF SettleInv
    <3>8. CASE LiveLeave(w)
      <4>1. /\ typing' = [typing EXCEPT ![w] = FALSE] /\ status' = status
            /\ pc[w] \notin {"idling", "dropping"}
            /\ pc'[w] \notin {"starting", "streaming", "appending"}
            /\ typing[w] => pc'[w] = "dropping" \/ unsettled'
            /\ unsettled => unsettled'
        BY <2>0, <3>8 DEF LiveLeave, TypeOK
      <4>2. \A v \in Watchers : InTurn(v) => InTurn(v)' \/ unsettled'
        BY <2>0, <3>2, <4>1 DEF InTurn, TypeOK
      <4>3. \A v \in Watchers : pc'[v] \in {"starting", "streaming", "appending"} => typing'[v]
        BY <2>0, <3>2, <4>1 DEF SettleInv, TypeOK
      <4> QED
        BY <3>1, <4>1, <4>2, <4>3 DEF SettleInv
    <3>9. CASE LiveStart(w) \/ LiveStop(w)
      <4>1. /\ \/ typing' = [typing EXCEPT ![w] = TRUE] /\ pc'[w] = "starting"
               \/ typing' = [typing EXCEPT ![w] = FALSE] /\ pc'[w] = "idling"
            /\ UNCHANGED <<status, unsettled>>
        BY <2>0, <3>9 DEF LiveStart, LiveStop, TypeOK
      <4>2. InTurn(w)' /\ \A v \in Watchers : v # w => typing'[v] = typing[v]
        BY <2>0, <4>1 DEF InTurn, TypeOK
      <4>3. \A v \in Watchers : pc'[v] \in {"starting", "streaming", "appending"} => typing'[v]
        BY <2>0, <3>2, <4>1, <4>2 DEF SettleInv, TypeOK
      <4> QED
        BY <4>2, <4>3 DEF SettleInv
    <3> QED
      BY <2>2, <3>4, <3>5, <3>6, <3>7, <3>8, <3>9 DEF LiveStep
  <2> QED
    BY <2>1, <2>2
<1>3. SettleInv /\ TypeInv => SettlesIdle
  BY DEF SettleInv, SettlesIdle, Quiet, InTurn, TypeInv, TypeOK
<1> QED
  BY <1>1, <1>2, <1>3, TypeInvAlways, PTL DEF Spec
=============================================================================
