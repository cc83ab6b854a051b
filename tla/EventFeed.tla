------------------------------ MODULE EventFeed ------------------------------
(***************************************************************************)
(* What a session's event stream promises its subscribers, with the        *)
(* channels, backlogs, locks and goroutines left out: the session          *)
(* publishes events numbered 1, 2, 3, ...; a connection attaches at some   *)
(* point of that sequence and is then handed every later event, one at a   *)
(* time, in order, without a gap, until it leaves or is cut off.           *)
(***************************************************************************)
EXTENDS Naturals, Sequences

CONSTANTS Conns   \* the connections that may subscribe to the session

VARIABLES
  published,   \* how many events the session has produced
  phase,       \* each connection: "idle", "attached" or "ended"
  origin,      \* the last event before the ones a connection asked for
  seen         \* the events handed to each connection, in order of arrival

vars == <<published, phase, origin, seen>>

Init ==
  /\ published \in Nat
  /\ phase = [c \in Conns |-> "idle"]
  /\ origin = [c \in Conns |-> 0]
  /\ seen = [c \in Conns |-> <<>>]

Publish ==
  /\ published' = published + 1
  /\ UNCHANGED <<phase, origin, seen>>

Attach(c) ==
  /\ phase[c] = "idle"
  /\ phase' = [phase EXCEPT ![c] = "attached"]
  /\ \E p \in 0..published : origin' = [origin EXCEPT ![c] = p]
  /\ UNCHANGED <<published, seen>>

\* The event after the last one seen: never an older one, never a later one.
Deliver(c) ==
  /\ phase[c] = "attached"
  /\ origin[c] + Len(seen[c]) < published
  /\ seen' = [seen EXCEPT ![c] = Append(@, origin[c] + Len(@) + 1)]
  /\ UNCHANGED <<published, phase, origin>>

\* Connections end one by one when their clients leave, and all together when
\* the session is deleted.
Cut(S) ==
  /\ phase' = [c \in Conns |-> IF c \in S THEN "ended" ELSE phase[c]]
  /\ UNCHANGED <<published, origin, seen>>

Next ==
  \/ Publish
  \/ \E c \in Conns : Attach(c) \/ Deliver(c)
  \/ \E S \in SUBSET Conns : Cut(S)

Spec == Init /\ [][Next]_vars
=============================================================================
