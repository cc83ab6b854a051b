------------------------------ MODULE PicoLive ------------------------------
(***************************************************************************)
(* One picoclaw session: its runs, the live watchers that carry what the   *)
(* agent says when no run asked for it, and the deletion of the session.   *)
(* Runs and watchers each have their own connection to the agent, and the  *)
(* agent sends a session's messages to all of them; activeRuns and a       *)
(* window of three seconds after the last run keep a reply from being      *)
(* logged twice.                                                           *)
(*                                                                         *)
(* An action is one section under Adapter.mu with the local steps that     *)
(* lead to it.  A message stands for its text together with its            *)
(* message_id, if it has one; an id is not used for two texts.  Events     *)
(* whose kind no property mentions (the user's prompt, "正在生成回复", the empty *)
(* message.done of a passive turn) change nothing here.  Idempotency keys  *)
(* are those of RunLifecycle, event order and channels those of            *)
(* SessionStream: the code is the same.                                    *)
(***************************************************************************)
EXTENDS Naturals, FiniteSets

CONSTANTS
  Runs,       \* jobs that ContinueSession may create
  Watchers,   \* goroutines that ensureLiveWatcher may start
  Messages,   \* texts of the agent
  Identified, \* those that come with a message_id
  Deleters,   \* DELETE requests
  MaxLapses,  \* how often a text is forgotten: a bound of the model
  NoWatcher, NoMessage

ASSUME PicoAssumption ==
  /\ IsFiniteSet(Runs) /\ IsFiniteSet(Watchers)
  /\ NoWatcher \notin Watchers
  /\ NoMessage \notin Messages

VARIABLES
  alive,        \* the session is in Adapter.sessions
  status,       \* sessionState.detail.Status
  activeRuns,   \* sessionState.activeRuns
  window,       \* now is before sessionState.suppressLiveUntil
  liveDoneSeen, \* sessionState.liveDoneSeen, the entries of the last liveDoneDedupeTTL
  phase,        \* where the goroutine of each run stands; while it streams, whether
                \* it has seen a text ("replying") or typing.stop ("stopping")
  runInbox,     \* texts sent to the run's connection, not read yet
  registered,   \* Adapter.liveWatchers[id], or NoWatcher
  cancelled,    \* watchers whose context is cancelled
  pc,           \* where each watcher stands
  held,         \* the text the watcher is handling
  typing,       \* the watcher's flag of that name
  liveInbox,    \* texts sent to the watcher's connection, not read yet
  cached,       \* texts in the messageCache of the watcher's connection
  del,          \* the DELETE requests
  stopping,     \* the watcher each of them has unregistered and not cancelled, or NoWatcher
  sent, byRun, byLive,  \* texts: sent by the agent, logged by a run, by a watcher
  answers,      \* message.done events of each run (history variable)
  silent,       \* runs that met a context deadline (history variable)
  liveDones,    \* message.done events of each text, by watchers (history variable)
  lapses,       \* how often liveDoneSeen has forgotten each text (history variable)
  unsettled     \* a typing watcher lost its connection while suppressed (history variable)

session == <<alive, status, activeRuns, window, liveDoneSeen>>
runVars == <<phase, runInbox, answers, silent>>
liveVars == <<registered, cancelled, pc, held, typing, liveInbox, cached, unsettled>>
delVars == <<del, stopping>>
logVars == <<byRun, byLive, liveDones, lapses>>
vars == <<session, runVars, liveVars, delVars, sent, logVars>>

Streaming == {"waiting", "replying", "stopping"}
RunPhases == {"none", "accepted", "closing", "failed", "returned", "finished"} \cup Streaming
LivePcs == {"none", "dialing", "reading", "starting", "streaming", "appending",
            "checking", "done", "idling", "leaving", "dropping", "ended"}

\* The values the variables take.
TypeOK ==
  /\ alive \in BOOLEAN /\ window \in BOOLEAN /\ unsettled \in BOOLEAN
  /\ status \in {"idle", "running"}
  /\ activeRuns \in Nat
  /\ liveDoneSeen \subseteq Messages
  /\ phase \in [Runs -> RunPhases]
  /\ runInbox \in [Runs -> SUBSET Messages]
  /\ answers \in [Runs -> Nat]
  /\ silent \subseteq Runs
  /\ registered \in Watchers \cup {NoWatcher}
  /\ cancelled \subseteq Watchers
  /\ pc \in [Watchers -> LivePcs]
  /\ held \in [Watchers -> Messages \cup {NoMessage}]
  /\ typing \in [Watchers -> BOOLEAN]
  /\ liveInbox \in [Watchers -> SUBSET Messages]
  /\ cached \in [Watchers -> SUBSET Messages]
  /\ del \in [Deleters -> {"none", "unregistered", "stopped", "done"}]
  /\ stopping \in [Deleters -> Watchers \cup {NoWatcher}]
  /\ sent \subseteq Messages /\ byRun \subseteq Messages /\ byLive \subseteq Messages
  /\ liveDones \in [Messages -> Nat] /\ lapses \in [Messages -> Nat]

\* A session just created, or imported from the agent's history.
Init ==
  /\ alive = TRUE /\ status = "idle" /\ activeRuns = 0
  /\ window = FALSE /\ liveDoneSeen = {}
  /\ phase = [r \in Runs |-> "none"]
  /\ runInbox = [r \in Runs |-> {}]
  /\ answers = [r \in Runs |-> 0] /\ silent = {}
  /\ registered = NoWatcher /\ cancelled = {}
  /\ pc = [w \in Watchers |-> "none"]
  /\ held = [w \in Watchers |-> NoMessage]
  /\ typing = [w \in Watchers |-> FALSE]
  /\ liveInbox = [w \in Watchers |-> {}]
  /\ cached = [w \in Watchers |-> {}]
  /\ unsettled = FALSE
  /\ del = [d \in Deleters |-> "none"]
  /\ stopping = [d \in Deleters |-> NoWatcher]
  /\ sent = {} /\ byRun = {} /\ byLive = {}
  /\ liveDones = [m \in Messages |-> 0]
  /\ lapses = [m \in Messages |-> 0]

\* Mutant: the runs at work are forgotten, only the window counts.
SuppressInWindow == alive /\ window

\* sessionShouldSuppressLive.
Suppressed == alive /\ (activeRuns > 0 \/ window)

\* Watchers with an open connection, and watchers whose goroutine has not ended.
Connected == {w \in Watchers : pc[w] \notin {"none", "dialing", "dropping", "ended"}}
Watching == {w \in Watchers : pc[w] \notin {"none", "ended"}}
-----------------------------------------------------------------------------
(***************************************************************************)
(* The agent.  It sends each text to every connection of the session, and  *)
(* may replay a text to a watcher.  KeepsUp is an assumption about time:   *)
(* a watcher reads its copy of a text before the window after the run that *)
(* logged it is over.                                                      *)
(***************************************************************************)

Broadcast(m) ==
  /\ m \notin sent
  /\ sent' = sent \cup {m}
  /\ runInbox' = [r \in Runs |-> IF phase[r] \in Streaming
                                 THEN runInbox[r] \cup {m} ELSE runInbox[r]]
  /\ liveInbox' = [w \in Watchers |-> IF w \in Connected
                                      THEN liveInbox[w] \cup {m} ELSE liveInbox[w]]
  /\ UNCHANGED <<session, phase, answers, silent, registered, cancelled,
                 pc, held, typing, cached, unsettled, delVars, logVars>>

KeepsUp(m) == m \in byRun => Suppressed

Replay(w, m) ==
  /\ m \in sent /\ w \in Connected
  /\ KeepsUp(m)
  /\ liveInbox' = [liveInbox EXCEPT ![w] = @ \cup {m}]
  /\ UNCHANGED <<session, runVars, registered, cancelled, pc, held, typing, cached,
                 unsettled, delVars, sent, logVars>>

WindowCloses ==
  /\ alive /\ window
  /\ \A w \in Watchers : liveInbox[w] \cap byRun = {}
  /\ window' = FALSE
  /\ UNCHANGED <<alive, status, activeRuns, liveDoneSeen, runVars, liveVars, delVars,
                 sent, logVars>>

\* liveDoneDedupeTTL has passed since the text was remembered: the next call of
\* isDuplicateLiveDone sweeps the entry, and does not count it before.
ForgetDone(m) ==
  /\ alive /\ m \in liveDoneSeen /\ lapses[m] < MaxLapses
  /\ liveDoneSeen' = liveDoneSeen \ {m}
  /\ lapses' = [lapses EXCEPT ![m] = @ + 1]
  /\ UNCHANGED <<alive, status, activeRuns, window, runVars, liveVars, delVars, sent,
                 byRun, byLive, liveDones>>
-----------------------------------------------------------------------------
(***************************************************************************)
(* Runs.  A request for a session that is gone is refused in the section   *)
(* that would accept it.                                                   *)
(***************************************************************************)

Continue(r) ==
  /\ phase[r] = "none"
  /\ alive
  /\ phase' = [phase EXCEPT ![r] = "accepted"]
  /\ status' = "running"
  /\ activeRuns' = activeRuns + 1
  /\ UNCHANGED <<alive, window, liveDoneSeen, runInbox, answers, silent,
                 liveVars, delVars, sent, logVars>>

\* The run's goroutine goes on to phase p, and leaves its connection if it had one.
GoOn(r, p) ==
  /\ phase' = [phase EXCEPT ![r] = p]
  /\ runInbox' = [runInbox EXCEPT ![r] = IF p \in Streaming THEN @ ELSE {}]
  /\ UNCHANGED <<session, liveVars, delVars, sent, byLive, liveDones, lapses>>

\* appendUserEvent, dialSessionWS and message.send; the agent of the hidden
\* recorder, asked first in one session, only delays this.
Dial(r) ==
  /\ phase[r] = "accepted"
  /\ GoOn(r, "waiting") \/ GoOn(r, "failed")
  /\ UNCHANGED <<answers, silent, byRun>>

\* message.create or message.update; after typing.stop it is the last one.
StreamText(r, m) ==
  /\ phase[r] \in Streaming /\ m \in runInbox[r]
  /\ phase' = [phase EXCEPT ![r] = IF @ = "stopping" THEN "closing" ELSE "replying"]
  /\ runInbox' = [runInbox EXCEPT ![r] = IF phase[r] = "stopping" THEN {} ELSE @ \ {m}]
  /\ byRun' = IF alive THEN byRun \cup {m} ELSE byRun
  /\ UNCHANGED <<session, answers, silent, liveVars, delVars, sent, byLive, liveDones,
                 lapses>>

\* typing.stop: the reply is over, or its text is still to come.
StreamStop(r) ==
  /\ phase[r] \in Streaming
  /\ GoOn(r, IF phase[r] = "replying" THEN "closing" ELSE "stopping")
  /\ UNCHANGED <<answers, silent, byRun>>

\* Two seconds after typing.stop, or the agent closes the connection.
StreamEnds(r) ==
  /\ phase[r] \in Streaming
  /\ GoOn(r, "closing")
  /\ UNCHANGED <<answers, silent, byRun>>

\* Mutant: the goroutine returns from a broken stream as from a deadline.
BreakUnreported(r) ==
  /\ phase[r] \in Streaming
  /\ GoOn(r, "returned")
  /\ UNCHANGED <<answers, silent, byRun>>

\* An error message, a broken connection, or the read timeout.
StreamBreaks(r) ==
  /\ phase[r] \in Streaming
  /\ GoOn(r, "failed")
  /\ UNCHANGED <<answers, silent, byRun>>

\* runTimeout passes while dialling or between two messages:
\* emitContinueEvents returns without a word.
Deadline(r) ==
  /\ phase[r] \in {"accepted"} \cup Streaming
  /\ GoOn(r, "returned")
  /\ silent' = silent \cup {r}
  /\ UNCHANGED <<answers, byRun>>

\* appendAssistantDone or appendAssistantFailure.
Answer(r) ==
  /\ phase[r] \in {"closing", "failed"}
  /\ answers' = [answers EXCEPT ![r] = IF alive THEN @ + 1 ELSE @]
  /\ GoOn(r, "returned")
  /\ UNCHANGED <<silent, byRun>>

\* Mutant: a run that met its deadline is not taken off.
FinishAnswered(r) ==
  /\ phase[r] = "returned"
  /\ phase' = [phase EXCEPT ![r] = "finished"]
  /\ IF alive /\ r \notin silent THEN activeRuns' = activeRuns - 1 ELSE UNCHANGED activeRuns
  /\ IF alive /\ activeRuns' = 0 THEN window' = TRUE /\ status' = "idle"
                                 ELSE UNCHANGED <<window, status>>
  /\ UNCHANGED <<alive, liveDoneSeen, runInbox, answers, silent,
                 liveVars, delVars, sent, logVars>>

\* finishSessionRun.
Finish(r) ==
  /\ phase[r] = "returned"
  /\ phase' = [phase EXCEPT ![r] = "finished"]
  /\ IF alive /\ activeRuns > 0 THEN activeRuns' = activeRuns - 1 ELSE UNCHANGED activeRuns
  /\ IF alive /\ activeRuns' = 0 THEN window' = TRUE /\ status' = "idle"
                                 ELSE UNCHANGED <<window, status>>
  /\ UNCHANGED <<alive, liveDoneSeen, runInbox, answers, silent,
                 liveVars, delVars, sent, logVars>>

RunStep(r) ==
  \/ Dial(r) \/ StreamStop(r) \/ StreamEnds(r) \/ StreamBreaks(r) \/ Deadline(r)
  \/ Answer(r) \/ Finish(r)
  \/ \E m \in Messages : StreamText(r, m)
-----------------------------------------------------------------------------
(***************************************************************************)
(* Live watchers.                                                          *)
(***************************************************************************)

\* ensureLiveWatcher, which every call on the session makes in a section of its own.
EnsureLiveWatcher ==
  IF alive /\ registered = NoWatcher
    THEN \E w \in Watchers :
           /\ pc[w] = "none"
           /\ registered' = w
           /\ pc' = [pc EXCEPT ![w] = "dialing"]
    ELSE UNCHANGED <<registered, pc>>

\* GetSession, GetSessionEvents and ContinueSession, and DiscoverSessions for
\* the sessions of a page if maxLiveWatchers allows.
Ensure ==
  /\ EnsureLiveWatcher
  /\ UNCHANGED <<session, runVars, cancelled, held, typing, liveInbox, cached, unsettled,
                 delVars, sent, logVars>>

\* Where the watcher goes from the top of liveWatchLoop and of the read loop.
Redial(w) == IF w \in cancelled THEN "ended" ELSE "dialing"
Reread(w) == IF w \in cancelled THEN "leaving" ELSE "reading"
LiveGoto(w, p) == pc' = [pc EXCEPT ![w] = p]
Holds(w, m) == held' = [held EXCEPT ![w] = m]
SetSessionStatus(s) == status' = IF alive THEN s ELSE status

\* dialSessionWS, repeated with a back-off while it fails.
LiveDial(w) ==
  /\ pc[w] = "dialing"
  /\ LiveGoto(w, IF w \in cancelled THEN "ended" ELSE "reading")
  /\ UNCHANGED <<status, liveDoneSeen, held, typing, liveInbox, cached, unsettled, byLive,
                 liveDones>>

\* Mutant: the turn that was under way is forgotten with the connection.
LiveLeaveRunning(w) ==
  /\ pc[w] \in {"reading", "leaving"}
  /\ typing' = [typing EXCEPT ![w] = FALSE]
  /\ liveInbox' = [liveInbox EXCEPT ![w] = {}]
  /\ cached' = [cached EXCEPT ![w] = {}]
  /\ LiveGoto(w, Redial(w))
  /\ unsettled' = (unsettled \/ (typing[w] /\ Suppressed))
  /\ UNCHANGED <<status, liveDoneSeen, held, byLive, liveDones>>

\* The connection drops, or is silent for readIdleTimeout, or the context is
\* cancelled: liveWatchReadLoop returns, with the first section of its defer.
LiveLeave(w) ==
  /\ pc[w] \in {"reading", "leaving"}
  /\ typing' = [typing EXCEPT ![w] = FALSE]
  /\ liveInbox' = [liveInbox EXCEPT ![w] = {}]
  /\ cached' = [cached EXCEPT ![w] = {}]
  /\ LiveGoto(w, IF typing[w] /\ ~Suppressed THEN "dropping" ELSE Redial(w))
  /\ unsettled' = (unsettled \/ (typing[w] /\ Suppressed))
  /\ UNCHANGED <<status, liveDoneSeen, held, byLive, liveDones>>

\* The second section of the defer.
LiveDrop(w) ==
  /\ pc[w] = "dropping"
  /\ SetSessionStatus("idle")
  /\ LiveGoto(w, Redial(w))
  /\ UNCHANGED <<liveDoneSeen, held, typing, liveInbox, cached, unsettled, byLive, liveDones>>

\* handleLiveMessage: the first section asks whether to suppress the message,
\* each later one appends an event or sets the status.
LiveStart(w) ==
  /\ pc[w] = "reading" /\ ~Suppressed
  /\ typing' = [typing EXCEPT ![w] = TRUE]
  /\ LiveGoto(w, "starting")
  /\ UNCHANGED <<status, liveDoneSeen, held, liveInbox, cached, unsettled, byLive, liveDones>>

\* Mutant: typing.stop logs the text at hand as the turn's message.
LiveStopLogs(w) ==
  /\ pc[w] = "reading" /\ ~Suppressed
  /\ typing' = [typing EXCEPT ![w] = FALSE]
  /\ LiveGoto(w, IF typing[w] THEN "done" ELSE "idling")
  /\ UNCHANGED <<status, liveDoneSeen, held, liveInbox, cached, unsettled, byLive, liveDones>>

LiveStop(w) ==
  /\ pc[w] = "reading" /\ ~Suppressed
  /\ typing' = [typing EXCEPT ![w] = FALSE]
  /\ LiveGoto(w, "idling")
  /\ UNCHANGED <<status, liveDoneSeen, held, liveInbox, cached, unsettled, byLive, liveDones>>

\* A text is a delta of a passive turn, or a message of its own.  One that the
\* connection has brought under the same message_id is neither: of a turn, it
\* only says that the session is running.
LiveText(w, m) ==
  /\ pc[w] = "reading" /\ m \in liveInbox[w]
  /\ liveInbox' = [liveInbox EXCEPT ![w] = @ \ {m}]
  /\ \/ /\ Suppressed
        /\ LiveGoto(w, Reread(w)) /\ UNCHANGED <<held, cached>>
     \/ /\ ~Suppressed /\ m \in cached[w]
        /\ LiveGoto(w, IF typing[w] THEN "starting" ELSE Reread(w))
        /\ UNCHANGED <<held, cached>>
     \/ /\ ~Suppressed /\ m \notin cached[w]
        /\ cached' = [cached EXCEPT ![w] = @ \cup ({m} \cap Identified)]
        /\ LiveGoto(w, IF typing[w] THEN "streaming" ELSE "checking") /\ Holds(w, m)
  /\ UNCHANGED <<status, liveDoneSeen, typing, unsettled, byLive, liveDones>>

\* typing.start, or the first section of a delta: the session is running.
LiveRunning(w) ==
  /\ pc[w] \in {"starting", "streaming"}
  /\ SetSessionStatus("running")
  /\ LiveGoto(w, IF pc[w] = "starting" THEN Reread(w) ELSE "appending")
  /\ UNCHANGED <<liveDoneSeen, held, typing, liveInbox, cached, unsettled, byLive, liveDones>>

LiveDelta(w) ==
  /\ pc[w] = "appending"
  /\ byLive' = IF alive THEN byLive \cup {held[w]} ELSE byLive
  /\ LiveGoto(w, Reread(w)) /\ Holds(w, NoMessage)
  /\ UNCHANGED <<status, liveDoneSeen, typing, liveInbox, cached, unsettled, liveDones>>

\* Mutant: the text is not remembered when it is tested.
CheckDuplicateOnly(w) ==
  /\ pc[w] = "checking"
  /\ IF alive /\ held[w] \in liveDoneSeen
       THEN LiveGoto(w, Reread(w)) /\ Holds(w, NoMessage)
       ELSE LiveGoto(w, "done") /\ UNCHANGED held
  /\ UNCHANGED <<status, liveDoneSeen, typing, liveInbox, cached, unsettled, byLive,
                 liveDones>>

\* isDuplicateLiveDone: tested and remembered in one section, under the id or,
\* without one, under the text.
CheckDuplicate(w) ==
  /\ pc[w] = "checking"
  /\ IF alive /\ held[w] \in liveDoneSeen
       THEN LiveGoto(w, Reread(w)) /\ Holds(w, NoMessage)
       ELSE LiveGoto(w, "done") /\ UNCHANGED held
  /\ liveDoneSeen' = IF alive THEN liveDoneSeen \cup {held[w]} ELSE liveDoneSeen
  /\ UNCHANGED <<status, typing, liveInbox, cached, unsettled, byLive, liveDones>>

LiveDone(w) ==
  /\ pc[w] = "done"
  /\ IF alive THEN /\ byLive' = byLive \cup {held[w]}
                   /\ liveDones' = [liveDones EXCEPT ![held[w]] = @ + 1]
              ELSE UNCHANGED <<byLive, liveDones>>
  /\ LiveGoto(w, "idling") /\ Holds(w, NoMessage)
  /\ UNCHANGED <<status, liveDoneSeen, typing, liveInbox, cached, unsettled>>

LiveIdle(w) ==
  /\ pc[w] = "idling"
  /\ SetSessionStatus("idle")
  /\ LiveGoto(w, Reread(w))
  /\ UNCHANGED <<liveDoneSeen, held, typing, liveInbox, cached, unsettled, byLive, liveDones>>

LiveStep(w) ==
  /\ \/ LiveDial(w) \/ LiveLeave(w) \/ LiveDrop(w) \/ LiveStart(w) \/ LiveStop(w)
     \/ LiveRunning(w) \/ LiveDelta(w) \/ CheckDuplicate(w) \/ LiveDone(w) \/ LiveIdle(w)
     \/ \E m \in Messages : LiveText(w, m)
  /\ UNCHANGED <<alive, activeRuns, window, runVars, registered, cancelled, delVars, sent,
                 byRun, lapses>>
-----------------------------------------------------------------------------
(***************************************************************************)
(* Deletion.                                                               *)
(***************************************************************************)

\* DeleteSession, before anything is known of the session: stopLiveWatcher takes
\* the watcher off the registry under the mutex ...
DeleteUnregisters(d) ==
  /\ del[d] = "none"
  /\ del' = [del EXCEPT ![d] = "unregistered"]
  /\ stopping' = [stopping EXCEPT ![d] = registered]
  /\ registered' = NoWatcher
  /\ UNCHANGED <<session, runVars, cancelled, pc, held, typing, liveInbox, cached,
                 unsettled, sent, logVars>>

\* Mutant: cancel() is not called.
StopForgotten(d) ==
  /\ del[d] = "unregistered"
  /\ del' = [del EXCEPT ![d] = "stopped"]
  /\ stopping' = [stopping EXCEPT ![d] = NoWatcher]
  /\ UNCHANGED <<session, runVars, liveVars, sent, logVars>>

\* ... and cancels it once the mutex is released.
DeleteCancels(d) ==
  /\ del[d] = "unregistered"
  /\ del' = [del EXCEPT ![d] = "stopped"]
  /\ cancelled' = cancelled \cup ({stopping[d]} \ {NoWatcher})
  /\ stopping' = [stopping EXCEPT ![d] = NoWatcher]
  /\ UNCHANGED <<session, runVars, registered, pc, held, typing, liveInbox, cached,
                 unsettled, sent, logVars>>

\* DeleteSession, the section that closes the subscribers and removes the session,
\* its state with it.
DeleteRemoves(d) ==
  /\ del[d] = "stopped"
  /\ del' = [del EXCEPT ![d] = "done"]
  /\ alive' = FALSE /\ status' = "idle" /\ activeRuns' = 0
  /\ window' = FALSE /\ liveDoneSeen' = {}
  /\ UNCHANGED <<runVars, liveVars, stopping, sent, logVars>>

Next ==
  \/ \E m \in Messages : Broadcast(m) \/ \E w \in Watchers : Replay(w, m)
  \/ WindowCloses \/ \E m \in Messages : ForgetDone(m)
  \/ \E r \in Runs : Continue(r) \/ RunStep(r)
  \/ Ensure
  \/ \E w \in Watchers : LiveStep(w)
  \/ \E d \in Deleters : DeleteUnregisters(d) \/ DeleteCancels(d) \/ DeleteRemoves(d)

Spec == Init /\ [][Next]_vars
-----------------------------------------------------------------------------
(***************************************************************************)
(* Properties.                                                             *)
(***************************************************************************)

\* The runs whose goroutine still owes the session a finishSessionRun.
AtWork == {r \in Runs : phase[r] \notin {"none", "finished"}}

\* activeRuns, which decides what watchers may log, is the number of runs at work.
ActiveRunsExact == alive => activeRuns = Cardinality(AtWork)

\* A run that no context deadline cut short has logged one message.done or one
\* failure when it returns, and none before: whatever ends the stream, and
\* wherever the run fails.
AnsweredUnlessDeadline ==
  \A r \in Runs \ silent :
    alive => answers[r] = IF phase[r] \in {"returned", "finished"} THEN 1 ELSE 0

\* What the agent says in answer to a run reaches the run and the watcher: it
\* is logged once, by the run.
NotTwice == byRun \cap byLive = {}

\* A text replayed by the agent, or read by a watcher and by the one before it,
\* is one message.done for each time that liveDoneSeen remembers it: a second
\* one takes an expiry, whatever connections and watchers have brought the text.
OneDonePerTTL == \A m \in Messages : liveDones[m] <= 1 + lapses[m]

\* The goroutines that will go on watching are the registered one and those a
\* deletion has unregistered and is about to cancel: no interleaving of calls
\* starts a second for the registry, leaves it naming none, or loses one that
\* nobody will cancel.  (Two may go on until cancel() is called.)
OneWatcher ==
  Watching \ cancelled = ({registered} \cup {stopping[d] : d \in Deleters}) \ {NoWatcher}

\* Once no run is at work and no watcher is in a passive turn, the session is
\* idle, unless a watcher lost its connection in the middle of a turn while it
\* was suppressed.
Quiet == /\ activeRuns = 0
         /\ \A w \in Watchers : ~typing[w] /\ pc[w] \in {"none", "dialing", "reading",
                                                         "leaving", "ended"}
SettlesIdle == alive /\ Quiet /\ ~unsettled => status = "idle"
=============================================================================
