---------------------------- MODULE SessionTable ----------------------------
(***************************************************************************)
(* One session id in the codex adapter's tables: Adapter.sessions, the     *)
(* tombstones in deletedSessions, the cached index of history files, and   *)
(* the calls that look the id up, load it from its history file, list it   *)
(* and delete it.  Each call is a goroutine of its own; the mutex is       *)
(* released between the sections of one call, and those gaps are what the  *)
(* module is about.                                                        *)
(*                                                                         *)
(* A table entry is the identity of its sessionState: 0 when absent, else  *)
(* the number of the load that made it.                                    *)
(***************************************************************************)
EXTENDS Naturals, FiniteSets

CONSTANTS
  Callers,   \* goroutines serving requests, one call each
  Nobody     \* the cached index was made by none of them

ASSUME TableAssumption == Nobody \notin Callers

VARIABLES
  onDisk,    \* a history file for the id exists (DeleteSession never removes it)
  table,     \* Adapter.sessions[id]: 0, or which load created the state
  loads,     \* how many states have been created for the id
  tomb,      \* id is in Adapter.deletedSessions
  index,     \* id is in the cached Adapter.externalSessionIndex
  maker,     \* whose walk of the directory made that map
  fresh,     \* the cache is younger than its TTL
  mu,        \* "free", or held for ever by a handler that panicked: "read", "write"
  down,      \* the Go runtime has killed the process
  op,        \* what each caller was asked to do
  pc,        \* where it stands
  ret,       \* where loadExternalSessionIndex returns to
  found,     \* its local result: the index it returns contains the id
  late,      \* a deletion had succeeded before the call started (history variable)
  result     \* its answer

shared == <<onDisk, table, loads, tomb, index, maker, fresh, mu, down>>
callVars == <<op, pc, ret, found, late, result>>
vars == <<shared, callVars>>

Ops == {"get", "events", "subscribe", "continue", "list", "delete"}
Steps == {"idle", "tomb", "look", "read_index", "walk", "filter_cached",
          "filter_walk", "store", "clone", "recheck", "insert", "detail",
          "act", "scan", "scan_index", "remove", "done"}
Returns == {"recheck", "detail", "scan", "remove"}
Results == {"none", "ok", "not_found", "error", "panic", "listed", "not_listed",
            "orphan_run"}

\* The values the variables take; a call is done when, and only when, it has
\* answered.
TypeOK ==
  /\ onDisk \in BOOLEAN /\ tomb \in BOOLEAN /\ index \in BOOLEAN
  /\ fresh \in BOOLEAN /\ down \in BOOLEAN
  /\ table \in Nat /\ loads \in Nat
  /\ maker \in Callers \cup {Nobody}
  /\ mu \in {"free", "read", "write"}
  /\ op \in [Callers -> Ops]
  /\ pc \in [Callers -> Steps]
  /\ ret \in [Callers -> Returns]
  /\ found \in [Callers -> BOOLEAN]
  /\ late \in [Callers -> BOOLEAN]
  /\ result \in [Callers -> Results]
  /\ \A p \in Callers : pc[p] = "done" <=> result[p] # "none"   \* every call answers, once

\* Either a session created over the API, which is in memory only, or a session
\* known from its history file, which the adapter has not loaded or listed yet.
Init ==
  /\ onDisk \in BOOLEAN
  /\ table = IF onDisk THEN 0 ELSE 1
  /\ loads = table
  /\ tomb = FALSE /\ index = FALSE /\ maker = Nobody /\ fresh = FALSE
  /\ mu = "free" /\ down = FALSE
  /\ op = [p \in Callers |-> "get"]
  /\ pc = [p \in Callers |-> "idle"]
  /\ ret = [p \in Callers |-> "scan"]
  /\ found = [p \in Callers |-> FALSE]
  /\ late = [p \in Callers |-> FALSE]
  /\ result = [p \in Callers |-> "none"]

CanLock  == mu = "free"
CanRLock == mu # "write"

Goto(p, step) == pc' = [pc EXCEPT ![p] = step]
Answer(p, r) == Goto(p, "done") /\ result' = [result EXCEPT ![p] = r]

\* Begin loadExternalSessionIndex and come back to step.
LoadIndex(p, step) == Goto(p, "read_index") /\ ret' = [ret EXCEPT ![p] = step]

\* A call that only moves on in its own code.
Local == UNCHANGED <<shared, op, late>>
-----------------------------------------------------------------------------
Deleted(p) == op[p] = "delete" /\ result[p] = "ok"

Start(p, o) ==
  /\ pc[p] = "idle"
  /\ op' = [op EXCEPT ![p] = o]
  /\ late' = [late EXCEPT ![p] = \E q \in Callers : Deleted(q)]
  /\ IF o = "list" THEN LoadIndex(p, "scan")
                   ELSE Goto(p, "tomb") /\ UNCHANGED ret
  /\ UNCHANGED <<shared, found, result>>

\* isSessionDeleted, the first check of ensureSessionLoaded and DeleteSession.
CheckTomb(p) ==
  /\ pc[p] = "tomb" /\ CanRLock
  /\ \/ tomb /\ Answer(p, "not_found")
     \/ ~tomb /\ Goto(p, "look") /\ UNCHANGED result
  /\ UNCHANGED <<ret, found>> /\ Local

\* Where a call goes on once the session is known to be loaded: GetSession
\* consults the index once more.
Loaded(p) ==
  IF op[p] = "get" THEN LoadIndex(p, "detail")
                   ELSE Goto(p, "act") /\ UNCHANGED ret

LookUp(p) ==
  /\ pc[p] = "look" /\ CanRLock
  /\ \/ op[p] = "delete" /\ table # 0 /\ Goto(p, "remove") /\ UNCHANGED ret
     \/ op[p] = "delete" /\ table = 0 /\ LoadIndex(p, "remove")
     \/ op[p] # "delete" /\ table # 0 /\ Loaded(p)
     \/ op[p] # "delete" /\ table = 0 /\ LoadIndex(p, "recheck")
  /\ UNCHANGED <<found, result>> /\ Local
-----------------------------------------------------------------------------
(***************************************************************************)
(* loadExternalSessionIndex.                                               *)
(***************************************************************************)

ReadIndex(p) ==
  /\ pc[p] = "read_index" /\ CanRLock
  /\ \/ /\ fresh
        /\ found' = [found EXCEPT ![p] = index]
        /\ Goto(p, "filter_cached")
     \/ ~fresh /\ Goto(p, "walk") /\ UNCHANGED found
  /\ UNCHANGED <<ret, result>> /\ Local

\* Mutant: a walk that fails ends the call without an answer.
WalkSilently(p) ==
  /\ pc[p] = "walk"
  /\ \/ /\ found' = [found EXCEPT ![p] = onDisk]
        /\ Goto(p, "filter_walk")
     \/ /\ found' = [found EXCEPT ![p] = FALSE]
        /\ Goto(p, IF ret[p] = "detail" THEN "detail" ELSE "done")
  /\ UNCHANGED <<ret, result>> /\ Local

\* filepath.WalkDir over the history directory, without the mutex.  It fails when
\* the request is given up; only GetSession's second lookup ignores that.
Walk(p) ==
  /\ pc[p] = "walk"
  /\ \/ /\ found' = [found EXCEPT ![p] = onDisk]
        /\ Goto(p, "filter_walk")
        /\ UNCHANGED result
     \/ /\ found' = [found EXCEPT ![p] = FALSE]
        /\ IF ret[p] = "detail" THEN Goto(p, "detail") /\ UNCHANGED result
                                ELSE Answer(p, "error")
  /\ UNCHANGED ret /\ Local

\* What the caller does with the index it got.
Resume(p, has) ==
  IF has \/ ret[p] \in {"scan", "detail"}
    THEN Goto(p, ret[p]) /\ UNCHANGED result
    ELSE Answer(p, "not_found")

\* filterDeletedExternal, over the cached map.
FilterCached(p) ==
  /\ pc[p] = "filter_cached" /\ CanRLock
  /\ found' = [found EXCEPT ![p] = @ /\ ~tomb]
  /\ Resume(p, found'[p])
  /\ UNCHANGED ret /\ Local

\* filterDeletedExternal, over the map the walk has made.
FilterWalk(p) ==
  /\ pc[p] = "filter_walk" /\ CanRLock
  /\ found' = [found EXCEPT ![p] = @ /\ ~tomb]
  /\ Goto(p, "store")
  /\ UNCHANGED <<ret, result>> /\ Local

StoreIndex(p) ==
  /\ pc[p] = "store" /\ CanLock
  /\ index' = found[p]
  /\ maker' = p
  /\ fresh' = TRUE
  /\ Goto(p, "clone")
  /\ UNCHANGED <<onDisk, table, loads, tomb, mu, down, op, ret, found, late, result>>

\* cloneExternalSessionIndex(fresh): iterates, without the mutex, the very map
\* the previous section has published.
CloneIndex(p) ==
  /\ pc[p] = "clone"
  /\ Resume(p, found[p])
  /\ UNCHANGED <<ret, found>> /\ Local

ExpireIndex ==
  /\ fresh
  /\ fresh' = FALSE
  /\ UNCHANGED <<onDisk, table, loads, tomb, index, maker, mu, down, callVars>>
-----------------------------------------------------------------------------
(***************************************************************************)
(* The rest of ensureSessionLoaded, and what its callers do after it.      *)
(***************************************************************************)

\* isSessionDeleted again, then loadHistorySessionEvents parses the file.
Recheck(p) ==
  /\ pc[p] = "recheck" /\ CanRLock
  /\ \/ tomb /\ Answer(p, "not_found")
     \/ ~tomb /\ Goto(p, "insert") /\ UNCHANGED result
     \/ ~tomb /\ Answer(p, "error")
  /\ UNCHANGED <<ret, found>> /\ Local

\* Mutant: the section that inserts does not look at the tombstone again.
InsertUnchecked(p) ==
  /\ pc[p] = "insert" /\ CanLock
  /\ IF table = 0 THEN loads' = loads + 1 /\ table' = loads'
                  ELSE UNCHANGED <<table, loads>>
  /\ Loaded(p)
  /\ UNCHANGED <<onDisk, tomb, index, maker, fresh, mu, down, op, found, late, result>>

\* Mutant: the last load wins.
InsertOverwriting(p) ==
  /\ pc[p] = "insert" /\ CanLock
  /\ \/ /\ tomb
        /\ Answer(p, "not_found")
        /\ UNCHANGED <<table, loads, ret>>
     \/ /\ ~tomb
        /\ loads' = loads + 1 /\ table' = loads'
        /\ Loaded(p)
        /\ UNCHANGED result
  /\ UNCHANGED <<onDisk, tomb, index, maker, fresh, mu, down, op, found, late>>

\* Put the parsed state into the table unless the id has been deleted, or
\* loaded by another call, since.
Insert(p) ==
  /\ pc[p] = "insert" /\ CanLock
  /\ \/ /\ tomb
        /\ Answer(p, "not_found")
        /\ UNCHANGED <<table, loads, ret>>
     \/ /\ ~tomb
        /\ IF table = 0 THEN loads' = loads + 1 /\ table' = loads'
                        ELSE UNCHANGED <<table, loads>>
        /\ Loaded(p)
        /\ UNCHANGED result
  /\ UNCHANGED <<onDisk, tomb, index, maker, fresh, mu, down, op, found, late>>

\* GetSession applies what the index says, if the session is still there.
ApplyDetail(p) ==
  /\ pc[p] = "detail" /\ (found[p] => CanLock)
  /\ Goto(p, "act")
  /\ UNCHANGED <<ret, found, result>> /\ Local

\* The section that uses a.sessions[id].  GetSession reads it after RUnlock;
\* GetSessionEvents and Subscribe dereference it with the mutex taken;
\* ContinueSession tests it, and starts its run either way.
Act(p) ==
  /\ pc[p] = "act"
  /\ \/ /\ op[p] = "get" /\ CanRLock
        /\ Answer(p, IF table # 0 THEN "ok" ELSE "panic")
        /\ UNCHANGED mu
     \/ /\ op[p] = "events" /\ CanRLock
        /\ Answer(p, IF table # 0 THEN "ok" ELSE "panic")
        /\ mu' = IF table # 0 THEN mu ELSE "read"
     \/ /\ op[p] = "subscribe" /\ CanLock
        /\ Answer(p, IF table # 0 THEN "ok" ELSE "panic")
        /\ mu' = IF table # 0 THEN mu ELSE "write"
     \/ /\ op[p] = "continue" /\ CanLock
        /\ Answer(p, IF table # 0 THEN "ok" ELSE "orphan_run")
        /\ UNCHANGED mu
  /\ UNCHANGED <<onDisk, table, loads, tomb, index, maker, fresh, down, op, ret, found, late>>

\* DiscoverSessions: the loaded sessions, then those of the index it got.
Scan(p) ==
  /\ pc[p] = "scan" /\ CanRLock
  /\ \/ table # 0 /\ ~tomb /\ Answer(p, "listed")
     \/ (table = 0 \/ tomb) /\ Goto(p, "scan_index") /\ UNCHANGED result
  /\ UNCHANGED <<ret, found>> /\ Local

ScanIndex(p) ==
  /\ pc[p] = "scan_index" /\ CanRLock
  /\ Answer(p, IF found[p] /\ ~tomb THEN "listed" ELSE "not_listed")
  /\ UNCHANGED <<ret, found>> /\ Local
-----------------------------------------------------------------------------
(***************************************************************************)
(* The section of DeleteSession under the mutex.  It deletes from the      *)
(* cached index; when the caller that made this map is still iterating it, *)
(* the runtime may detect the concurrent access and kill the process.      *)
(***************************************************************************)
\* Mutant: the second deletion does not notice the first.
RemoveUnchecked(p) ==
  /\ pc[p] = "remove" /\ CanLock
  /\ tomb' = TRUE
  /\ table' = 0
  /\ index' = FALSE
  /\ Answer(p, "ok")
  /\ UNCHANGED <<onDisk, loads, maker, fresh, mu, down, op, ret, found, late>>

\* Mutant: the session and its index entry go, but no tombstone is left.
RemoveUnmarked(p) ==
  /\ pc[p] = "remove" /\ CanLock
  /\ table' = 0
  /\ index' = FALSE
  /\ Answer(p, "ok")
  /\ UNCHANGED <<onDisk, tomb, loads, maker, fresh, mu, down, op, ret, found, late>>

Remove(p) ==
  /\ pc[p] = "remove" /\ CanLock
  /\ \/ /\ tomb
        /\ Answer(p, "not_found")
        /\ UNCHANGED <<tomb, table, index, down>>
     \/ /\ ~tomb
        /\ tomb' = TRUE
        /\ table' = 0
        /\ index' = FALSE
        /\ Answer(p, "ok")
        /\ down' \in BOOLEAN
        /\ down' => maker # Nobody /\ pc[maker] = "clone"
  /\ UNCHANGED <<onDisk, loads, maker, fresh, mu, op, ret, found, late>>

Step(p) ==
  \/ CheckTomb(p) \/ LookUp(p)
  \/ ReadIndex(p) \/ Walk(p) \/ FilterCached(p) \/ FilterWalk(p)
  \/ StoreIndex(p) \/ CloneIndex(p)
  \/ Recheck(p) \/ Insert(p) \/ ApplyDetail(p) \/ Act(p)
  \/ Scan(p) \/ ScanIndex(p) \/ Remove(p)

Next ==
  /\ ~down
  /\ \/ \E p \in Callers : Step(p) \/ \E o \in Ops : Start(p, o)
     \/ ExpireIndex

Spec == Init /\ [][Next]_vars
-----------------------------------------------------------------------------
(***************************************************************************)
(* Properties.                                                             *)
(***************************************************************************)

\* A deleted session never comes back into the table, whatever loads of its
\* history file were under way (the check of ensureSessionLoaded under Lock).
NoResurrection == tomb => table = 0

\* A call that starts once a deletion has been answered finds nothing: it is
\* refused, does not list the id, and neither panics nor starts a run, although
\* the file is still on disk and a stale index may still name it.
LateCallsRefused ==
  \A p \in Callers :
    late[p] /\ pc[p] = "done" => result[p] \in {"not_found", "not_listed", "error"}

\* Of several concurrent deletions one succeeds, and the others are told 4003.
DeletedOnce == \A p, q \in Callers : Deleted(p) /\ Deleted(q) => p = q

\* The first of several concurrent loads wins: a state that subscribers and
\* runs may already point to is never replaced by another one.
NeverReplaced == [][table' # table => table = 0 \/ table' = 0]_table

\* A call for a session that does not exist is answered "not found" (4003);
\* no handler panics for it.
NoHandlerPanics == \A p \in Callers : result[p] # "panic"

\* ContinueSession accepts a run only for a session that exists
\* (api-contract-v1.md 4.7: 4003 otherwise).
RunsHaveSession == \A p \in Callers : result[p] # "orphan_run"

\* The gateway survives concurrent listing, loading and deleting.
ProcessSurvives == ~down

\* Every call is answered, and one for a session that does not exist with 4003.
CallsSound == NoHandlerPanics /\ RunsHaveSession /\ ProcessSurvives
=============================================================================
