---------------------------- MODULE PicoHistory -----------------------------
(***************************************************************************)
(* The event log of one picoclaw session and the agent's history file of   *)
(* it.  Every call on the adapter first runs syncHistorySessions: it reads *)
(* the files without the mutex and applies what it read in one section,    *)
(* where the session may have been deleted, changed or synchronised by     *)
(* another call.  Runs and live watchers append events meanwhile.          *)
(*                                                                         *)
(* The file is the number of user and assistant messages in it: the agent  *)
(* only adds them, with a later "updated".  A file time and UpdatedAt are  *)
(* compared by known, the last version written no later than UpdatedAt.    *)
(* Events are numbered without a gap, so nextSeq is length + 1.  Titles    *)
(* are left out.  Callers belong to the module that composes this one.     *)
(***************************************************************************)
EXTENDS Naturals

CONSTANTS
  Callers,    \* calls on the adapter
  MaxFile,    \* bound of the model: messages in the file
  MaxLength   \* bound of the model: events in the log

VARIABLES
  file,      \* messages in the agent's file; 0: there is none
  snap,      \* the messages each call has read
  alive,     \* the session is in Adapter.sessions
  deleted,   \* the session is in Adapter.deletedSessions
  imported,  \* detail.Metadata["history_imported"]
  status,    \* detail.Status
  length,    \* len(state.events)
  known,     \* the last version of the file that is not newer than detail.UpdatedAt
  shown,     \* the version the log was last made from (history variable)
  given,     \* the highest seq a client has been sent (history variable)
  reused     \* an event was sent with a seq sent before (history variable)

state == <<alive, imported, status, length, known, shown>>
historyVars == <<file, snap, deleted, state, given, reused>>

\* The values the variables take; a session's log holds at least the messages it
\* was made from, and no call has read more than the file has.
TypeOK ==
  /\ file \in Nat
  /\ snap \in [Callers -> Nat]
  /\ alive \in BOOLEAN /\ deleted \in BOOLEAN /\ imported \in BOOLEAN /\ reused \in BOOLEAN
  /\ status \in {"idle", "running"}
  /\ length \in Nat /\ known \in Nat /\ shown \in Nat /\ given \in Nat
  /\ \A p \in Callers : snap[p] <= file
  /\ alive => shown <= length /\ shown <= known /\ known <= file

\* The process has started: no session is known, the agent may have some.
Init ==
  /\ file \in 0..MaxFile
  /\ snap = [p \in Callers |-> 0]
  /\ alive = FALSE /\ deleted = FALSE /\ imported = FALSE
  /\ status = "idle"
  /\ length = 0 /\ known = 0 /\ shown = 0 /\ given = 0
  /\ reused = FALSE

\* External: the agent saves a message of this session.
AgentSaves ==
  /\ file < MaxFile
  /\ file' = file + 1
  /\ UNCHANGED <<snap, deleted, state, given, reused>>

\* CreateSession, of this id: not imported, and empty.
CreateSession ==
  /\ ~alive /\ ~deleted /\ file = 0
  /\ alive' = TRUE /\ imported' = FALSE /\ status' = "idle"
  /\ length' = 0 /\ known' = 0 /\ shown' = 0
  /\ UNCHANGED <<file, snap, deleted, given, reused>>

\* ReadDir and parseHistorySnapshot, without the mutex.
ReadHistory(p) ==
  /\ snap' = [snap EXCEPT ![p] = file]
  /\ UNCHANGED <<file, deleted, state, given, reused>>

\* Mutant: the events are left as they were.
RebuildMarks(n) ==
  /\ known' = n /\ shown' = n
  /\ status' = "idle"
  /\ UNCHANGED length

\* The log becomes the n messages that were read: seq 1 to n.
Rebuild(n) ==
  /\ length' = n /\ known' = n /\ shown' = n
  /\ status' = "idle"

\* Mutant: only the number of messages is compared, with that of the last import.
SyncAnyNewer(p) ==
  /\ IF snap[p] = 0 \/ deleted
       THEN UNCHANGED state
       ELSE IF ~alive
         THEN Rebuild(snap[p]) /\ alive' = TRUE /\ imported' = TRUE
         ELSE /\ IF imported /\ status # "running" /\ snap[p] # shown
                   THEN Rebuild(snap[p])
                   ELSE UNCHANGED <<length, known, shown, status>>
              /\ UNCHANGED <<alive, imported>>
  /\ UNCHANGED <<file, snap, deleted, given, reused>>

\* Mutant: whether the session was deleted is asked before the files are read.
SyncUnchecked(p) ==
  /\ IF snap[p] = 0
       THEN UNCHANGED state
       ELSE IF ~alive
         THEN Rebuild(snap[p]) /\ alive' = TRUE /\ imported' = TRUE
         ELSE UNCHANGED state
  /\ UNCHANGED <<file, snap, deleted, given, reused>>

\* The section of syncHistorySessions.  It imports a session it does not know,
\* and rebuilds the log of an idle imported one from a newer or longer file;
\* otherwise it only moves UpdatedAt forward.
SyncHistory(p) ==
  /\ IF snap[p] = 0 \/ deleted
       THEN UNCHANGED state
       ELSE IF ~alive
         THEN Rebuild(snap[p]) /\ alive' = TRUE /\ imported' = TRUE
         ELSE /\ IF /\ imported /\ status # "running"
                    /\ snap[p] > known \/ snap[p] > length
                   THEN Rebuild(snap[p])
                   ELSE /\ known' = IF known < snap[p] THEN snap[p] ELSE known
                        /\ UNCHANGED <<length, shown, status>>
              /\ UNCHANGED <<alive, imported>>
  /\ UNCHANGED <<file, snap, deleted, given, reused>>

\* Subscribe or GetSessionEvents: a client gets the whole log.
SendLog ==
  /\ alive /\ length > given
  /\ given' = length
  /\ UNCHANGED <<file, snap, deleted, state, reused>>

\* appendEvent, by a run or a live watcher, to the log and to the subscribers.
AppendEvent ==
  /\ alive
  /\ length < MaxLength
  /\ length' = length + 1
  /\ known' = file
  /\ reused' = (reused \/ length' <= given)
  /\ given' = IF length' > given THEN length' ELSE given
  /\ UNCHANGED <<file, snap, deleted, alive, imported, status, shown>>

\* ContinueSession, finishSessionRun and the live watchers' setSessionStatus.
SetStatus(s) ==
  /\ alive
  /\ status' = s
  /\ known' = file
  /\ UNCHANGED <<file, snap, deleted, alive, imported, length, shown, given, reused>>

\* The section of DeleteSession.
DeleteSession ==
  /\ alive
  /\ alive' = FALSE
  /\ deleted' = TRUE
  /\ UNCHANGED <<file, snap, imported, status, length, known, shown, given, reused>>

\* The process dies and starts again: nothing of the adapter is kept.
Restart ==
  /\ snap' = [p \in Callers |-> 0]
  /\ alive' = FALSE /\ deleted' = FALSE /\ imported' = FALSE
  /\ status' = "idle"
  /\ length' = 0 /\ known' = 0 /\ shown' = 0 /\ given' = 0
  /\ reused' = FALSE
  /\ UNCHANGED file

\* What runs, watchers, subscriptions and the agent do.
Background ==
  \/ AgentSaves \/ SendLog \/ AppendEvent
  \/ \E s \in {"idle", "running"} : SetStatus(s)

Next ==
  \/ Background \/ CreateSession \/ DeleteSession \/ Restart
  \/ \E p \in Callers : ReadHistory(p) \/ SyncHistory(p)

Spec == Init /\ [][Next]_historyVars
-----------------------------------------------------------------------------
(***************************************************************************)
(* Properties (SessionGateway states more of them).                        *)
(***************************************************************************)

\* A client is never sent two events with one seq.
SeqNeverReused == ~reused
=============================================================================
