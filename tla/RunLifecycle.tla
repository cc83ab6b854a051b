---------------------------- MODULE RunLifecycle ----------------------------
(***************************************************************************)
(* The runs of one loaded codex session: ContinueSession accepts a prompt  *)
(* and starts a goroutine that feeds the CLI's output (or a mock reply)    *)
(* into the session's events, and the session's status follows the number  *)
(* of goroutines still at work.  The status is also written by the history *)
(* follower and by the calls that merge what a history file says.          *)
(*                                                                         *)
(* The context of a run is context.Background() (handleContinue), so a run *)
(* is never cancelled; its CLI process is killed by its own timeout.  The  *)
(* text of prompts and replies, the CLI thread id and the follower's file  *)
(* offset are left out.                                                    *)
(***************************************************************************)
EXTENDS Naturals, Sequences, FiniteSets

CONSTANTS
  Runs,      \* jobs that ContinueSession may create
  Keys,      \* values of the Idempotency-Key header
  NoKey,     \* the request has no such header
  NoRun,     \* no record under a key
  MaxLines   \* bound of the model: lines the CLI process of each run prints

ASSUME RunAssumption ==
  /\ IsFiniteSet(Runs)
  /\ NoKey \notin Keys
  /\ NoRun \notin Runs
  /\ MaxLines \in [Runs -> Nat]

VARIABLES
  mode,         \* Adapter.streamMode
  fallback,     \* Adapter.mockFallback
  live,         \* the session is in Adapter.sessions
  status,       \* sessionState.detail.Status
  activeRuns,   \* sessionState.activeRuns
  idempotency,  \* the job recorded under each key of this session, or NoRun
  started,      \* jobs started under the current record of a key (history variable)
  phase,        \* where the goroutine of each run stands
  counted,      \* the run was added to activeRuns when it was accepted
  lines,        \* lines of CLI output the run has handled
  deltas,       \* deltaCount
  completion,   \* sawCompletionEvent
  blocked,      \* approvalBlocked
  mocked,       \* events of the mock reply already sent
  out,          \* the kinds of the run's events in the session's log, in order
  sending       \* the goroutine is in the sends at the end of appendEvent

config  == <<mode, fallback>>
session == <<live, status, activeRuns>>
keyVars == <<idempotency, started>>
cliVars == <<lines, deltas, completion, blocked>>
log == <<out, sending>>
vars == <<config, session, keyVars, phase, counted, cliVars, mocked, log>>

Phases == {"none", "accepted", "prompted", "cli", "closing", "failed", "mock",
           "emitted", "finished"}
Kinds == {"user", "action", "delta", "done", "error"}
Terminal == {"done", "error"}    \* message.done, the second with assistant_error

\* The values the variables take; the number of active runs is never negative.
TypeOK ==
  /\ mode \in {"real", "mock"}
  /\ fallback \in BOOLEAN
  /\ live \in BOOLEAN
  /\ status \in {"idle", "running"}
  /\ activeRuns \in Nat
  /\ idempotency \in [Keys -> Runs \cup {NoRun}]
  /\ started \in [Keys -> Nat]
  /\ phase \in [Runs -> Phases]
  /\ counted \in [Runs -> BOOLEAN]
  /\ lines \in [Runs -> Nat]
  /\ deltas \in [Runs -> Nat]
  /\ completion \in [Runs -> BOOLEAN]
  /\ blocked \in [Runs -> BOOLEAN]
  /\ mocked \in [Runs -> 0..4]
  /\ out \in [Runs -> Seq(Kinds)]
  /\ sending \in [Runs -> BOOLEAN]

\* A session just created or loaded; a history file may say "running" of a
\* session another program is working on.
Init ==
  /\ mode \in {"real", "mock"}
  /\ fallback \in BOOLEAN
  /\ live = TRUE
  /\ status \in {"idle", "running"}
  /\ activeRuns = 0
  /\ idempotency = [k \in Keys |-> NoRun]
  /\ started = [k \in Keys |-> 0]
  /\ phase = [r \in Runs |-> "none"]
  /\ counted = [r \in Runs |-> FALSE]
  /\ lines = [r \in Runs |-> 0]
  /\ deltas = [r \in Runs |-> 0]
  /\ completion = [r \in Runs |-> FALSE]
  /\ blocked = [r \in Runs |-> FALSE]
  /\ mocked = [r \in Runs |-> 0]
  /\ out = [r \in Runs |-> <<>>]
  /\ sending = [r \in Runs |-> FALSE]

Goto(r, p) == phase' = [phase EXCEPT ![r] = p]

\* appendEvent: an event for a session that is gone is dropped; any other is sent
\* to the subscribers, outside the section, before the goroutine goes on.
Emit(r, kind) ==
  /\ out' = IF live THEN [out EXCEPT ![r] = Append(@, kind)] ELSE out
  /\ sending' = [sending EXCEPT ![r] = live]

\* sendEvent has returned for every subscriber.  It has no context: it waits as
\* long as a subscriber's channel is full and its connection neither reads nor
\* leaves (SessionStream has the channels).
Deliver(r) ==
  /\ sending[r]
  /\ sending' = [sending EXCEPT ![r] = FALSE]
  /\ UNCHANGED <<config, session, keyVars, phase, counted, cliVars, mocked, out>>
-----------------------------------------------------------------------------
(***************************************************************************)
(* ContinueSession, after ensureSessionLoaded: one section under Lock.  It *)
(* also accepts a request whose session was deleted since that check.      *)
(***************************************************************************)

\* Mutant: the record of a key is written, never read.
ContinueUnchecked(r, key) ==
  /\ phase[r] = "none"
  /\ Goto(r, "accepted")
  /\ counted' = [counted EXCEPT ![r] = live]
  /\ activeRuns' = IF live THEN activeRuns + 1 ELSE activeRuns
  /\ status' = IF live THEN "running" ELSE status
  /\ idempotency' = [k \in Keys |-> IF k = key THEN r ELSE idempotency[k]]
  /\ started' = [k \in Keys |-> IF k = key THEN started[k] + 1 ELSE started[k]]
  /\ UNCHANGED <<config, live, cliVars, mocked, log>>

\* A request whose key has a record gets the recorded job: nothing changes.
\* Any other request starts run r, and is recorded under its key if it has one.
Continue(r, key) ==
  /\ phase[r] = "none"
  /\ key \in Keys => idempotency[key] = NoRun
  /\ Goto(r, "accepted")
  /\ counted' = [counted EXCEPT ![r] = live]
  /\ activeRuns' = IF live THEN activeRuns + 1 ELSE activeRuns
  /\ status' = IF live THEN "running" ELSE status
  /\ idempotency' = [k \in Keys |-> IF k = key THEN r ELSE idempotency[k]]
  /\ started' = [k \in Keys |-> IF k = key THEN started[k] + 1 ELSE started[k]]
  /\ UNCHANGED <<config, live, cliVars, mocked, log>>

\* idempotencyTTL passes; the next ContinueSession drops the record first.
Expire(k) ==
  /\ idempotency[k] # NoRun
  /\ idempotency' = [idempotency EXCEPT ![k] = NoRun]
  /\ started' = [started EXCEPT ![k] = 0]
  /\ UNCHANGED <<config, session, phase, counted, cliVars, mocked, log>>
-----------------------------------------------------------------------------
(***************************************************************************)
(* The goroutine: emitContinueEvents, then finishSessionRun.               *)
(***************************************************************************)

\* appendUserEvent, then the choice of the reply's source.
Prompt(r) ==
  /\ phase[r] = "accepted"
  /\ Emit(r, "user")
  /\ Goto(r, IF mode = "real" THEN "prompted" ELSE "mock")
  /\ UNCHANGED <<config, session, keyVars, counted, cliVars, mocked>>

\* Pipes and cmd.Start.
StartCLI(r) ==
  /\ phase[r] = "prompted"
  /\ Goto(r, "cli") \/ Goto(r, "failed")
  /\ UNCHANGED <<config, session, keyVars, counted, cliVars, mocked, log>>

ReadLine(r) ==
  /\ phase[r] = "cli"
  /\ lines[r] < MaxLines[r]
  /\ lines' = [lines EXCEPT ![r] = @ + 1]
  /\ UNCHANGED <<config, session, keyVars, phase, counted, mocked>>

\* An assistant chunk; none is taken once an approval has been asked for.
DeltaLine(r) ==
  /\ ReadLine(r)
  /\ ~blocked[r]
  /\ Emit(r, "delta")
  /\ deltas' = [deltas EXCEPT ![r] = @ + 1]
  /\ UNCHANGED <<completion, blocked>>

ActionLine(r) ==
  /\ ReadLine(r)
  /\ Emit(r, "action")
  /\ UNCHANGED <<deltas, completion, blocked>>

CompletionLine(r) ==
  /\ ReadLine(r)
  /\ completion' = [completion EXCEPT ![r] = TRUE]
  /\ UNCHANGED <<deltas, blocked, log>>

\* The CLI asks for an approval: hint once, and kill the process.
ApprovalLine(r) ==
  /\ ReadLine(r)
  /\ blocked' = [blocked EXCEPT ![r] = TRUE]
  /\ IF blocked[r] THEN UNCHANGED log ELSE Emit(r, "action")
  /\ UNCHANGED <<deltas, completion>>

\* Mutant: the reader waits for the CLI to announce the end of its turn.
ReapCompleted(r, timedOut, exitError) ==
  /\ phase[r] = "cli"
  /\ completion[r]
  /\ Goto(r, IF ~blocked[r] /\ deltas[r] > 0 THEN "closing" ELSE "failed")
  /\ UNCHANGED <<config, session, keyVars, counted, cliVars, mocked, log>>

\* The output has ended and the process is reaped.  The deadline may have
\* passed at any moment up to here, also after a reply that was complete.
Reap(r, timedOut, exitError) ==
  /\ phase[r] = "cli"
  /\ LET synthesized == timedOut /\ completion[r] /\ deltas[r] > 0
         clean == ~timedOut /\ ~blocked[r] /\ ~exitError /\ deltas[r] > 0
     IN  Goto(r, IF synthesized \/ clean THEN "closing" ELSE "failed")
  /\ UNCHANGED <<config, session, keyVars, counted, cliVars, mocked, log>>

\* appendAssistantDone.
Close(r) ==
  /\ phase[r] = "closing"
  /\ Emit(r, "done")
  /\ Goto(r, "emitted")
  /\ UNCHANGED <<config, session, keyVars, counted, cliVars, mocked>>

\* Mutant: the failure is logged, then the mock answers as well.
FailThenMock(r) ==
  /\ phase[r] = "failed"
  /\ Emit(r, "error")
  /\ Goto(r, IF fallback /\ deltas[r] = 0 THEN "mock" ELSE "emitted")
  /\ UNCHANGED <<config, session, keyVars, counted, cliVars, mocked>>

\* A run that failed before its first delta may be answered by the mock.
Fail(r) ==
  /\ phase[r] = "failed"
  /\ IF fallback /\ deltas[r] = 0
       THEN Goto(r, "mock") /\ UNCHANGED log
       ELSE Goto(r, "emitted") /\ Emit(r, "error")
  /\ UNCHANGED <<config, session, keyVars, counted, cliVars, mocked>>

MockReply == <<"action", "delta", "delta", "done">>

\* emitMockContinueEvents, one event at a time: it sleeps between the deltas.
Mock(r) ==
  /\ phase[r] = "mock"
  /\ mocked[r] < Len(MockReply)
  /\ mocked' = [mocked EXCEPT ![r] = @ + 1]
  /\ Emit(r, MockReply[mocked'[r]])
  /\ IF mocked'[r] = Len(MockReply) THEN Goto(r, "emitted") ELSE UNCHANGED phase
  /\ UNCHANGED <<config, session, keyVars, counted, cliVars>>

\* Mutant: the count is lowered whatever it is.
FinishUnguarded(r) ==
  /\ phase[r] = "emitted"
  /\ Goto(r, "finished")
  /\ activeRuns' = activeRuns - 1
  /\ status' = IF activeRuns' > 0 THEN "running" ELSE "idle"
  /\ UNCHANGED <<config, live, keyVars, counted, cliVars, mocked, log>>

\* Mutant: the first run to finish clears the count of all.
FinishAll(r) ==
  /\ phase[r] = "emitted"
  /\ Goto(r, "finished")
  /\ IF live THEN activeRuns' = 0 /\ status' = "idle"
             ELSE UNCHANGED <<activeRuns, status>>
  /\ UNCHANGED <<config, live, keyVars, counted, cliVars, mocked, log>>

\* finishSessionRun (after resumeHistoryFollow, which changes no state of this
\* module): runs on whatever state the id has now, if it has one.
Finish(r) ==
  /\ phase[r] = "emitted"
  /\ Goto(r, "finished")
  /\ IF live
       THEN /\ activeRuns' = IF activeRuns > 0 THEN activeRuns - 1 ELSE activeRuns
            /\ status' = IF activeRuns' > 0 THEN "running" ELSE "idle"
       ELSE UNCHANGED <<activeRuns, status>>
  /\ UNCHANGED <<config, live, keyVars, counted, cliVars, mocked, log>>
-----------------------------------------------------------------------------
(***************************************************************************)
(* The other writers of the status.                                        *)
(***************************************************************************)

\* Mutant: the follower's "idle" is taken at its word.
SetSessionStatusAsTold(s) ==
  /\ live
  /\ status' = s
  /\ UNCHANGED <<config, live, activeRuns, keyVars, phase, counted, cliVars, mocked, log>>

\* Mutant: so is the history file's.
ApplyHistoryDetailAsRead(s) ==
  /\ live
  /\ status' = s
  /\ UNCHANGED <<config, live, activeRuns, keyVars, phase, counted, cliVars, mocked, log>>

\* setSessionStatus, called by the history follower for each message it finds.
SetSessionStatus(s) ==
  /\ live
  /\ status' = IF s = "idle" /\ activeRuns > 0 THEN "running" ELSE s
  /\ UNCHANGED <<config, live, activeRuns, keyVars, phase, counted, cliVars, mocked, log>>

\* applyHistoryDetail, called by GetSession and DiscoverSessions, when the file
\* is not older than the session in memory.
ApplyHistoryDetail(s) ==
  /\ live
  /\ LET keepRunning == activeRuns > 0
     IN  status' = IF keepRunning /\ status = "running" /\ s = "idle" THEN status ELSE s
  /\ UNCHANGED <<config, live, activeRuns, keyVars, phase, counted, cliVars, mocked, log>>

\* DeleteSession: the session goes with its keys, its runs carry on unseen.
DeleteSession ==
  /\ live
  /\ live' = FALSE
  /\ idempotency' = [k \in Keys |-> NoRun]
  /\ started' = [k \in Keys |-> 0]
  /\ UNCHANGED <<config, status, activeRuns, phase, counted, cliVars, mocked, log>>

RunStep(r) ==
  /\ ~sending[r]
  /\ \/ Prompt(r) \/ StartCLI(r)
     \/ DeltaLine(r) \/ ActionLine(r) \/ CompletionLine(r) \/ ApprovalLine(r)
     \/ \E timedOut, exitError \in BOOLEAN : Reap(r, timedOut, exitError)
     \/ Close(r) \/ Fail(r) \/ Mock(r) \/ Finish(r)

Next ==
  \/ \E r \in Runs : RunStep(r) \/ Deliver(r) \/ \E key \in Keys \cup {NoKey} : Continue(r, key)
  \/ \E k \in Keys : Expire(k)
  \/ \E s \in {"idle", "running"} : SetSessionStatus(s) \/ ApplyHistoryDetail(s)
  \/ DeleteSession

Spec == Init /\ [][Next]_vars

\* Goroutines are scheduled, a CLI process ends (cliTimeout is always positive
\* and kills it) and its output is finite.  That sends return is assumed of the
\* clients, the code does not see to it: each subscribed connection reads on, or
\* leaves, which closes its channel and ends a send that waits there.
ReadersGoOn == \A r \in Runs : WF_vars(Deliver(r))
FairSpec == Spec /\ ReadersGoOn /\ \A r \in Runs : WF_vars(RunStep(r))
-----------------------------------------------------------------------------
(***************************************************************************)
(* Properties.                                                             *)
(***************************************************************************)

\* The runs whose goroutine still owes the session a finishSessionRun.
AtWork == {r \in Runs : counted[r] /\ phase[r] # "finished"}

\* activeRuns is exactly the number of goroutines at work: none is counted
\* twice, forgotten, or taken off for a run that was never added.
ActiveRunsExact == live => activeRuns = Cardinality(AtWork)

\* While a run is at work the session shows "running", whatever the history
\* follower and the history index say meanwhile.
RunningWhileActive == live /\ AtWork # {} => status = "running"

\* The kinds of a run's events in the log, as far as it has got.
Ends(r) == {i \in DOMAIN out[r] : out[r][i] \in Terminal}
Answered(r) == phase[r] \in {"emitted", "finished"}

\* A run logs the user's message first, and exactly one message.done, last, on
\* every path: reply, timeout, approval request, exit code, mock fallback.
OneAnswerPerRun ==
  \A r \in Runs :
    /\ \A i \in DOMAIN out[r] : out[r][i] = "user" <=> i = 1
    /\ Ends(r) \subseteq {Len(out[r])}
    /\ live /\ counted[r] => (Ends(r) # {} <=> Answered(r))

\* A client that sees "idle" finds the answers of all runs in the events: the
\* session never turns idle before the message.done of its last run is logged.
IdleMeansAnswered ==
  live /\ status = "idle" =>
    \A r \in Runs : counted[r] => Ends(r) # {}

\* Requests with one Idempotency-Key start one run while the record lives.
OneRunPerKey == \A k \in Keys : started[k] <= 1

\* Every accepted run ends, and leaves the session to its remaining runs, as long
\* as no client that has stopped reading stays subscribed (ReadersGoOn).
EveryRunFinishes == \A r \in Runs : phase[r] = "accepted" ~> phase[r] = "finished"
=============================================================================
