---------------------------- MODULE HistoryFollow ----------------------------
(***************************************************************************)
(* The follower of one loaded history-backed session: a goroutine that     *)
(* reads, on each tick, what the codex CLI has appended to the session's   *)
(* JSONL file and logs it as events, as long as somebody subscribes.  Runs *)
(* of the gateway write the same file through their own CLI process and    *)
(* log their events themselves, so they pause the follower.                *)
(*                                                                         *)
(* A line of the file is the process that wrote it.  Positions count half  *)
(* lines: 2 * i is the end of line i, an odd position is inside a line.    *)
(***************************************************************************)
EXTENDS Naturals, Sequences

CONSTANTS
  Conns,    \* subscriptions to the session
  Runs,     \* runs of the gateway
  Other,    \* a CLI in some terminal that works on the same session
  Nobody,   \* no line is being written
  MaxLines  \* bound of the model: lines written to the file

ASSUME FollowAssumption ==
  /\ Other \notin Runs /\ Nobody \notin Runs /\ Nobody # Other
  /\ MaxLines \in Nat

VARIABLES
  file,       \* the complete lines of the file
  partial,    \* who is in the middle of writing the next one
  live,       \* the session is in Adapter.sessions
  offset,     \* sessionState.historyOffset
  active,     \* sessionState.historyFollowActive
  paused,     \* sessionState.historyFollowPaused
  conn,       \* where each subscription stands
  fpc,        \* where the follower stands that a subscription has started, or "none"
  from,       \* its local offset
  next,       \* its local nextOffset
  events,     \* its local events: the lines still to be logged
  run,        \* where each run stands
  size,       \* resumeHistoryFollow's local size, one per run
  first,      \* the first line written to its end after the load (history variable)
  followed    \* the lines the follower has logged (history variable)

fileVars == <<file, partial>>
sessionVars == <<live, offset, active, paused>>
followerVars == <<fpc, from, next, events>>
runVars == <<run, size>>
vars == <<fileVars, sessionVars, conn, followerVars, runVars, first, followed>>

Size == 2 * Len(file) + (IF partial = Nobody THEN 0 ELSE 1)

\* The values the variables take; no position lies beyond the end of the file.
TypeOK ==
  /\ file \in Seq(Runs \cup {Other}) /\ partial \in Runs \cup {Other, Nobody}
  /\ live \in BOOLEAN /\ active \in BOOLEAN /\ paused \in BOOLEAN
  /\ offset \in 0..Size
  /\ conn \in [Conns -> {"new", "registered", "subscribed", "left"}]
  /\ fpc \in [Conns -> {"none", "tick", "leaving", "reading", "storing", "logging"}]
  /\ from \in [Conns -> 0..Size] /\ next \in [Conns -> 0..Size]
  /\ events \in [Conns -> Seq(1..Len(file))]
  /\ run \in [Runs -> {"new", "running", "resuming", "storing", "ended"}]
  /\ size \in [Runs -> 0..Size]
  /\ first \in {1, 2}
  /\ followed \in Seq(1..Len(file))

\* A session just loaded.  Lines before the load play no part.  The load reads
\* the file to its end; the half of a line it finds there is no JSON, is skipped
\* and lies before the offset.
Init ==
  /\ file = <<>> /\ partial \in {Other, Nobody}
  /\ live = TRUE /\ offset = Size /\ active = FALSE /\ paused = FALSE
  /\ conn = [c \in Conns |-> "new"]
  /\ fpc = [c \in Conns |-> "none"]
  /\ from = [c \in Conns |-> 0] /\ next = from /\ events = [c \in Conns |-> <<>>]
  /\ run = [r \in Runs |-> "new"] /\ size = [r \in Runs |-> 0]
  /\ first = IF partial = Nobody THEN 1 ELSE 2
  /\ followed = <<>>
-----------------------------------------------------------------------------
(***************************************************************************)
(* The processes that write the file.  A process ends the line it is       *)
(* writing before another begins one and before it exits.                  *)
(***************************************************************************)
BeginLine(w) ==
  /\ partial = Nobody /\ Len(file) < MaxLines
  /\ w \in Runs => run[w] = "running"
  /\ partial' = w
  /\ UNCHANGED <<file, sessionVars, conn, followerVars, runVars, first, followed>>

EndLine ==
  /\ partial # Nobody
  /\ file' = Append(file, partial)
  /\ partial' = Nobody
  /\ UNCHANGED <<sessionVars, conn, followerVars, runVars, first, followed>>
-----------------------------------------------------------------------------
(***************************************************************************)
(* Subscribe, ensureHistoryFollower, unsubscribe.                          *)
(***************************************************************************)
Register(c) ==
  /\ conn[c] = "new" /\ live
  /\ conn' = [conn EXCEPT ![c] = "registered"]
  /\ UNCHANGED <<fileVars, sessionVars, followerVars, runVars, first, followed>>

Goto(c, step) == fpc' = [fpc EXCEPT ![c] = step]

\* Mutant: whether a follower is active is not looked at.
EnsureHistoryFollowerAlways(c) ==
  /\ conn[c] = "registered"
  /\ conn' = [conn EXCEPT ![c] = "subscribed"]
  /\ IF live THEN active' = TRUE /\ Goto(c, "tick") ELSE UNCHANGED <<active, fpc>>
  /\ UNCHANGED <<fileVars, live, offset, paused, from, next, events, runVars, first, followed>>

EnsureHistoryFollower(c) ==
  /\ conn[c] = "registered"
  /\ conn' = [conn EXCEPT ![c] = "subscribed"]
  /\ IF live /\ ~active THEN active' = TRUE /\ Goto(c, "tick") ELSE UNCHANGED <<active, fpc>>
  /\ UNCHANGED <<fileVars, live, offset, paused, from, next, events, runVars, first, followed>>

Unsubscribe(c) ==
  /\ conn[c] = "subscribed"
  /\ conn' = [conn EXCEPT ![c] = "left"]
  /\ UNCHANGED <<fileVars, sessionVars, followerVars, runVars, first, followed>>

Subscribers == {c \in Conns : conn[c] \in {"registered", "subscribed"}}
-----------------------------------------------------------------------------
(***************************************************************************)
(* followHistory: the sections of one turn of its loop.                    *)
(***************************************************************************)

\* Under RLock.  A follower whose session is gone returns and leaves the flag.
Tick(c) ==
  /\ fpc[c] = "tick"
  /\ \/ ~live /\ Goto(c, "none") /\ UNCHANGED from
     \/ live /\ ~paused /\ Subscribers = {} /\ Goto(c, "leaving") /\ UNCHANGED from
     \/ /\ live /\ ~paused /\ Subscribers # {}
        /\ Goto(c, "reading")
        /\ from' = [from EXCEPT ![c] = offset]
  /\ UNCHANGED <<fileVars, sessionVars, conn, next, events, runVars, first, followed>>

\* Under Lock, after the RUnlock of Tick.
Leave(c) ==
  /\ fpc[c] = "leaving"
  /\ active' = IF live THEN FALSE ELSE active
  /\ Goto(c, "none")
  /\ UNCHANGED <<fileVars, live, offset, paused, conn, from, next, events, runVars, first, followed>>

\* The result of a read: lines to log, and where the next read begins.
ReadResult(c, lines, end) ==
  /\ events' = [events EXCEPT ![c] = lines]
  /\ next' = [next EXCEPT ![c] = end]
  /\ Goto(c, IF end # from[c] THEN "storing" ELSE IF lines # <<>> THEN "logging" ELSE "tick")
  /\ UNCHANGED <<fileVars, sessionVars, conn, from, runVars, first, followed>>

\* How many lines begin before a position; the lines that begin at or after it
\* and are complete, and where they end.
Begun(pos) == (pos + 1) \div 2
LinesFrom(pos) == [k \in 1..(Len(file) - Begun(pos)) |-> Begun(pos) + k]
EndOfLines(pos) == IF 2 * Len(file) > pos THEN 2 * Len(file) ELSE pos

\* Mutant: the half of a line at the end counts as read.
ReadAppendedToEnd(c) ==
  fpc[c] = "reading" /\ ReadResult(c, LinesFrom(from[c]), Size)

\* Mutant: it even counts as a whole line.
ReadAppendedPastEnd(c) ==
  /\ fpc[c] = "reading"
  /\ ReadResult(c, LinesFrom(from[c]), 2 * Len(file) + (IF partial = Nobody THEN 0 ELSE 2))

\* Mutant: nothing is read while a line is half written.
ReadAppendedWhole(c) ==
  /\ fpc[c] = "reading"
  /\ IF partial = Nobody THEN ReadResult(c, LinesFrom(from[c]), EndOfLines(from[c]))
                         ELSE ReadResult(c, <<>>, from[c])

\* readHistoryAppendedEvents, without the mutex.  A half of a line at the end is
\* left for later; one at the beginning is the rest of a line: it is no JSON,
\* and skipped.
ReadAppended(c) ==
  fpc[c] = "reading" /\ ReadResult(c, LinesFrom(from[c]), EndOfLines(from[c]))

StoreOffset(c) ==
  /\ fpc[c] = "storing"
  /\ offset' = IF live THEN next[c] ELSE offset
  /\ Goto(c, IF events[c] # <<>> THEN "logging" ELSE "tick")
  /\ UNCHANGED <<fileVars, live, active, paused, conn, from, next, events, runVars, first, followed>>

\* appendHistoryMessage, one event at a time; dropped if the session is gone.
LogNext(c) ==
  /\ fpc[c] = "logging"
  /\ followed' = IF live THEN Append(followed, Head(events[c])) ELSE followed
  /\ events' = [events EXCEPT ![c] = Tail(@)]
  /\ Goto(c, IF Len(events[c]) = 1 THEN "tick" ELSE "logging")
  /\ UNCHANGED <<fileVars, sessionVars, conn, from, next, runVars, first>>

Follower(c) == Tick(c) \/ Leave(c) \/ ReadAppended(c) \/ StoreOffset(c) \/ LogNext(c)
-----------------------------------------------------------------------------
(***************************************************************************)
(* ContinueSession, resumeHistoryFollow, DeleteSession.                    *)
(***************************************************************************)
Continue(r) ==
  /\ run[r] = "new" /\ live
  /\ run' = [run EXCEPT ![r] = "running"]
  /\ paused' = TRUE
  /\ UNCHANGED <<fileVars, live, offset, active, conn, followerVars, size, first, followed>>

\* The first section clears the flag, and remembers whether it was set.
Resume(r) ==
  /\ run[r] = "running" /\ partial # r
  /\ run' = [run EXCEPT ![r] = IF live /\ paused THEN "resuming" ELSE "ended"]
  /\ paused' = IF live THEN FALSE ELSE paused
  /\ UNCHANGED <<fileVars, live, offset, active, conn, followerVars, size, first, followed>>

\* historyFileSize, then the second section.
StatFile(r) ==
  /\ run[r] = "resuming"
  /\ run' = [run EXCEPT ![r] = "storing"]
  /\ size' = [size EXCEPT ![r] = Size]
  /\ UNCHANGED <<fileVars, sessionVars, conn, followerVars, first, followed>>

SkipToEnd(r) ==
  /\ run[r] = "storing"
  /\ run' = [run EXCEPT ![r] = "ended"]
  /\ offset' = IF live THEN size[r] ELSE offset
  /\ UNCHANGED <<fileVars, live, active, paused, conn, followerVars, size, first, followed>>

DeleteSession ==
  /\ live
  /\ live' = FALSE
  /\ conn' = [c \in Conns |-> IF c \in Subscribers THEN "left" ELSE conn[c]]
  /\ UNCHANGED <<fileVars, offset, active, paused, followerVars, runVars, first, followed>>

RunStep(r) == Resume(r) \/ StatFile(r) \/ SkipToEnd(r)

Next ==
  \/ \E w \in Runs \cup {Other} : BeginLine(w)
  \/ EndLine
  \/ \E c \in Conns :
       Register(c) \/ EnsureHistoryFollower(c) \/ Unsubscribe(c) \/ Follower(c)
  \/ \E r \in Runs : Continue(r) \/ RunStep(r)
  \/ DeleteSession

Spec == Init /\ [][Next]_vars

\* The ticker ticks, and a subscription that has begun calls
\* ensureHistoryFollower.  Nobody has to write, subscribe, leave or run.  That
\* LogNext and EnsureHistoryFollower happen assumes besides that appendEvent and
\* Subscribe do not wait for a client for ever: that clients read on or leave, and
\* that what each asks for fits its channel (SessionStream, SubscribeReturns).
FairSpec ==
  /\ Spec
  /\ \A c \in Conns : WF_vars(Follower(c)) /\ WF_vars(EnsureHistoryFollower(c))
  /\ \A r \in Runs : WF_vars(RunStep(r))
-----------------------------------------------------------------------------
(***************************************************************************)
(* Properties.                                                             *)
(***************************************************************************)
Followers == {c \in Conns : fpc[c] # "none"}

\* There is never a second follower: subscriptions come and go, followers stop
\* and are started again, and the flag tells which is the case.
OneFollower ==
  /\ \A c, d \in Followers : c = d
  /\ live => (active <=> Followers # {})

\* No run of the gateway has touched the offset yet.
NoRuns == \A r \in Runs : run[r] = "new"

\* The work of a session without runs of its own: the lines logged, and those a
\* follower is about to log, are the lines of the file from the first one that
\* began after the load up to the offset, each once and in order, although the
\* reads race with a writer in the middle of a line and followers take turns.
FollowedInOrder ==
  live /\ NoRuns =>
    LET f == CHOOSE c \in Followers : TRUE
        storing == Followers # {} /\ fpc[f] = "storing"
        all == IF Followers = {} THEN followed ELSE followed \o events[f]
        upTo == IF storing THEN next[f] ELSE offset
    IN  all = [i \in 1..(Begun(upTo) + 1 - first) |-> first + i - 1]

Logged(i) == \E k \in DOMAIN followed : followed[k] = i

\* While a follower is there, each complete line gets logged, given clients that
\* keep neither appendEvent nor Subscribe waiting (FairSpec).
FollowerDelivers ==
  \A i \in 1..MaxLines :
    (Followers # {} /\ first <= i /\ i <= Len(file))
      ~> (Logged(i) \/ Followers = {} \/ ~live \/ ~NoRuns)

\* While somebody is subscribed, each complete line gets logged: the gateway
\* watches for new events and pushes them (project-preparation-report.md FR-4).
SubscribersFollowed ==
  \A i \in 1..MaxLines, c \in Conns :
    (conn[c] = "subscribed" /\ first <= i /\ i <= Len(file))
      ~> (Logged(i) \/ conn[c] # "subscribed" \/ ~live \/ ~NoRuns)
=============================================================================
