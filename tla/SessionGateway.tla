--------------------------- MODULE SessionGateway ---------------------------
(***************************************************************************)
(* The REST requests on one picoclaw session and on its meta data: the     *)
(* adapter (PicoHistory) and the meta store (SessionMeta), and the server's *)
(* handlers, which call one after the other with nothing held in between.  *)
(* handleSessionMeta asks for the session, then uses the store;            *)
(* handleDeleteSession deletes the session, then its meta data, and does   *)
(* not look at the store's error.  The process may die at any step.        *)
(***************************************************************************)
EXTENDS Naturals

CONSTANTS Callers, MaxFile, MaxLength, Metas, NoMeta,
  Unknown   \* no single answered write decides what the entry is

ASSUME GatewayAssumption ==
  /\ MaxFile \in Nat /\ MaxLength \in Nat
  /\ NoMeta \notin Metas
  /\ Unknown \notin Metas \cup {NoMeta}

VARIABLES file, snap, alive, deleted, imported, status, length, known, shown, given, reused
VARIABLES items, disk, attached
VARIABLES
  pc,       \* where each request stands
  op,       \* its method: "get", "put", "clear" (meta), "delete" (the session)
  body,     \* the meta data it brings
  alone,    \* no other write has been under way since it began (history variable)
  expect,   \* what the last write that was answered and alone has left (history variable)
  overtaken \* a PUT had found the session before it was deleted (history variable)

adapterVars == <<file, snap, alive, deleted, imported, status, length, known, shown,
                 given, reused>>
storeVars == <<items, disk, attached>>
requestVars == <<pc, op, body, alone, expect, overtaken>>
vars == <<adapterVars, storeVars, requestVars>>

Adapter == INSTANCE PicoHistory
Store == INSTANCE SessionMeta

Writes == {"put", "clear", "delete"}

\* The values the variables take, in both components and in the requests.
TypeOK ==
  /\ Adapter!TypeOK
  /\ Store!TypeOK
  /\ pc \in [Callers -> {"free", "read", "synced", "found", "deleting", "removed",
                         "written", "failed"}]
  /\ op \in [Callers -> {"get", "put", "clear", "delete"}]
  /\ body \in [Callers -> Metas \cup {NoMeta}]
  /\ alone \in [Callers -> BOOLEAN]
  /\ expect \in Metas \cup {NoMeta, Unknown}
  /\ overtaken \in BOOLEAN

Init ==
  /\ Adapter!Init
  /\ Store!Init
  /\ pc = [p \in Callers |-> "free"]
  /\ op = [p \in Callers |-> "get"]
  /\ body = [p \in Callers |-> NoMeta]
  /\ alone = [p \in Callers |-> FALSE]
  /\ expect = Unknown
  /\ overtaken = FALSE

Writing == {p \in Callers : pc[p] # "free" /\ op[p] \in Writes}
Goto(p, l) == pc' = [pc EXCEPT ![p] = l]
-----------------------------------------------------------------------------
(***************************************************************************)
(* Requests.                                                               *)
(***************************************************************************)

\* A request arrives.  A write makes what the entry is uncertain.
Arrive(p, o, m) ==
  /\ pc[p] = "free"
  /\ o = "put" <=> m # NoMeta
  /\ Goto(p, IF o = "delete" THEN "deleting" ELSE "read")
  /\ op' = [op EXCEPT ![p] = o]
  /\ body' = [body EXCEPT ![p] = m]
  /\ IF o \in Writes
       THEN /\ expect' = Unknown
            /\ alone' = [q \in Callers |-> q = p /\ Writing = {}]
       ELSE UNCHANGED <<expect, alone>>
  /\ IF o = "delete" THEN UNCHANGED snap ELSE snap' = [snap EXCEPT ![p] = file]
  /\ UNCHANGED <<file, alive, deleted, imported, status, length, known, shown, given, reused,
                 storeVars, overtaken>>

\* GetSession, the section of syncHistorySessions.
Sync(p) ==
  /\ pc[p] = "read"
  /\ Adapter!SyncHistory(p)
  /\ Goto(p, "synced")
  /\ UNCHANGED <<storeVars, op, body, alone, expect, overtaken>>

\* GetSession, the section that looks the session up: 404, or on to the store.
Find(p) ==
  /\ pc[p] = "synced"
  /\ Goto(p, IF alive THEN "found" ELSE "free")
  /\ UNCHANGED <<adapterVars, storeVars, op, body, alone, expect, overtaken>>

\* handleSessionDetail, or handleSessionMeta GET: the entry is read and sent.
Get(p) ==
  /\ pc[p] = "found" /\ op[p] = "get"
  /\ Goto(p, "free")
  /\ UNCHANGED <<adapterVars, storeVars, op, body, alone, expect, overtaken>>

\* handleSessionMeta PUT, PATCH and DELETE, the section of the store.
Save(p, ok) ==
  /\ pc[p] = "found" /\ op[p] \in {"put", "clear"}
  /\ Store!Write(body[p], ok)
  /\ Goto(p, IF ok THEN "written" ELSE "failed")
  /\ UNCHANGED <<adapterVars, op, body, alone, expect, overtaken>>

\* handleDeleteSession, the section of the adapter.
Delete(p) ==
  /\ pc[p] = "deleting"
  /\ IF alive
       THEN /\ Adapter!DeleteSession
            /\ Goto(p, "removed")
            /\ overtaken' = (overtaken \/ \E q \in Callers : pc[q] = "found" /\ op[q] = "put")
       ELSE Goto(p, "free") /\ UNCHANGED <<adapterVars, overtaken>>
  /\ UNCHANGED <<storeVars, op, body, alone, expect>>

\* Mutant: a deletion leaves the store alone.
DropNothing(p, ok) ==
  /\ pc[p] = "removed"
  /\ Goto(p, "failed")
  /\ UNCHANGED <<adapterVars, storeVars, op, body, alone, expect, overtaken>>

\* handleDeleteSession, the section of the store; the error is ignored, so
\* nothing is promised of the file.
Drop(p, ok) ==
  /\ pc[p] = "removed"
  /\ Store!Write(NoMeta, ok)
  /\ Goto(p, "failed")
  /\ UNCHANGED <<adapterVars, op, body, alone, expect, overtaken>>

\* The client has its answer.  A write that succeeded, with no other one under
\* way since it began, has decided what the entry is.
Answer(p) ==
  /\ pc[p] \in {"written", "failed"}
  /\ Goto(p, "free")
  /\ expect' = IF pc[p] = "written" /\ alone[p] THEN body[p] ELSE expect
  /\ UNCHANGED <<adapterVars, storeVars, op, body, alone, overtaken>>

\* The process dies with its requests, and starts again.  What a store without
\* a path held is gone.
Restart ==
  /\ Adapter!Restart
  /\ Store!Load
  /\ pc' = [p \in Callers |-> "free"]
  /\ expect' = IF attached /\ attached' THEN expect ELSE Unknown
  /\ overtaken' = FALSE
  /\ UNCHANGED <<op, body, alone>>

\* Runs, watchers, subscriptions, the agent; other sessions' meta data.
Background ==
  \/ Adapter!Background /\ UNCHANGED <<storeVars, requestVars>>
  \/ Adapter!CreateSession /\ UNCHANGED <<storeVars, requestVars>>
  \/ \E ok \in BOOLEAN : Store!WriteOther(ok) /\ UNCHANGED <<adapterVars, requestVars>>

Request(p) ==
  \/ \E o \in {"get", "put", "clear", "delete"}, m \in Metas \cup {NoMeta} : Arrive(p, o, m)
  \/ Sync(p) \/ Find(p) \/ Get(p) \/ Delete(p) \/ Answer(p)
  \/ \E ok \in BOOLEAN : Save(p, ok) \/ Drop(p, ok)

Next ==
  \/ \E p \in Callers : Request(p)
  \/ Background
  \/ Restart

Spec == Init /\ [][Next]_vars
-----------------------------------------------------------------------------
(***************************************************************************)
(* Properties.                                                             *)
(***************************************************************************)

\* While the process lives a deleted session stays deleted, although its file
\* is still there and calls hold what they read from it before.
NoResurrection == deleted => ~alive

\* Two calls may apply what they read in either order: the log is never made
\* from a version of the file older than the one it was made from before.
SyncForward == [][alive /\ alive' => shown' >= shown]_vars

\* What a client was told is saved is what the store has, and still has after
\* any crash and restart, and after failed writes for other sessions.
SavedIsKept == expect # Unknown => items = expect /\ (attached => disk = expect)

\* Once its deletion has been answered nothing is left of a session in the
\* store, unless a PUT had found the session before it was deleted.
NothingLeft ==
  deleted /\ ~overtaken /\ (\A p \in Callers : pc[p] # "removed") => items = NoMeta
=============================================================================
