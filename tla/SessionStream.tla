---------------------------- MODULE SessionStream ----------------------------
(***************************************************************************)
(* The event log of one loaded session and the way its events reach the    *)
(* WebSocket connections subscribed to it (codex adapter: appendEvent,     *)
(* Subscribe, unsubscribe, the part of DeleteSession that closes           *)
(* subscribers; server: the loop of handleWSRoutes).                       *)
(*                                                                         *)
(* Every section the code runs under Adapter.mu is one action, guarded by  *)
(* the mutex being free; every send on a subscriber channel happens        *)
(* outside the mutex and is an action of its own.  An event is identified  *)
(* by its seq: type, payload and normalized form play no part here.        *)
(*                                                                         *)
(* A member of Conns is one WebSocket connection: a client that reconnects *)
(* is another member, with the last_seq it has kept.                       *)
(***************************************************************************)
EXTENDS Naturals, Sequences, FiniteSets

CONSTANTS
  Appenders,  \* goroutines that append events: the runs, the history follower
  Conns,      \* WebSocket connections
  Capacity,   \* buffer of a subscriber channel (64 in the code)
  MaxSeq,     \* bound of the model: appendEvent stops once nextSeq exceeds it
  NoConn      \* "no subscriber": an appender that is not sending

ASSUME StreamAssumption ==
  /\ IsFiniteSet(Appenders)
  /\ Capacity \in Nat \ {0}
  /\ MaxSeq \in Nat
  /\ NoConn \notin Conns

VARIABLES
  live,        \* the session is in Adapter.sessions
  mu,          \* "free", or "leaked" by a handler that panicked inside it
  nextSeq,     \* sessionState.nextSeq
  log,         \* sessionState.events, as the sequence of their seq numbers
  carried,     \* appendEvent's local ev (its seq), one per appender
  cur,         \* the subscriber an appender is sending ev to, or NoConn
  todo,        \* the rest of that appender's readySubs
  pc,          \* where the handler of each connection stands
  registered,  \* the connection is in sessionState.subscribers
  ready,       \* subscriber.ready
  backlog,     \* subscriber.backlog
  buf,         \* contents of subscriber.ch
  closed,      \* subscriber.ch has been closed
  sending,     \* history, then copies of the backlog, Subscribe still has to send
  start,       \* the last event before the ones the connection asked for
  received     \* events written to the WebSocket, in order (history variable)

logVars  == <<nextSeq, log>>
appVars  == <<carried, cur, todo>>
chanVars == <<buf, closed>>
subVars  == <<registered, ready, backlog>>
connVars == <<pc, sending, start, received>>
vars == <<live, mu, logVars, appVars, chanVars, subVars, connVars>>

Phases == {"new", "checked", "sending", "streaming", "ended", "not_found", "panicked"}

\* The values the variables take; sequence numbers start at 1.
TypeOK ==
  /\ live \in BOOLEAN
  /\ mu \in {"free", "leaked"}
  /\ nextSeq \in Nat \ {0}
  /\ log \in Seq(Nat)
  /\ carried \in [Appenders -> Nat]
  /\ cur \in [Appenders -> Conns \cup {NoConn}]
  /\ todo \in [Appenders -> SUBSET Conns]
  /\ pc \in [Conns -> Phases]
  /\ registered \in [Conns -> BOOLEAN]
  /\ ready \in [Conns -> BOOLEAN]
  /\ backlog \in [Conns -> Seq(Nat)]
  /\ buf \in [Conns -> Seq(Nat)]
  /\ closed \in [Conns -> BOOLEAN]
  /\ sending \in [Conns -> Seq(Nat)]
  /\ start \in [Conns -> Nat]
  /\ received \in [Conns -> Seq(Nat)]

\* Mutant: the load numbers its next event as the last one it has read.
InitOffByOne ==
  /\ live = TRUE
  /\ mu = "free"
  /\ \E n \in 0..MaxSeq :
       /\ log = [i \in 1..n |-> i]
       /\ nextSeq = n
  /\ carried = [a \in Appenders |-> 0]
  /\ cur = [a \in Appenders |-> NoConn]
  /\ todo = [a \in Appenders |-> {}]
  /\ pc = [c \in Conns |-> "new"]
  /\ registered = [c \in Conns |-> FALSE]
  /\ ready = [c \in Conns |-> FALSE]
  /\ backlog = [c \in Conns |-> <<>>]
  /\ buf = [c \in Conns |-> <<>>]
  /\ closed = [c \in Conns |-> FALSE]
  /\ sending = [c \in Conns |-> <<>>]
  /\ start = [c \in Conns |-> 0]
  /\ received = [c \in Conns |-> <<>>]

\* A session that has just been created, or loaded with the events of its
\* history file (ensureSessionLoaded numbers them from 1).
Init ==
  /\ live = TRUE
  /\ mu = "free"
  /\ \E n \in 0..MaxSeq :
       /\ log = [i \in 1..n |-> i]
       /\ nextSeq = n + 1
  /\ carried = [a \in Appenders |-> 0]
  /\ cur = [a \in Appenders |-> NoConn]
  /\ todo = [a \in Appenders |-> {}]
  /\ pc = [c \in Conns |-> "new"]
  /\ registered = [c \in Conns |-> FALSE]
  /\ ready = [c \in Conns |-> FALSE]
  /\ backlog = [c \in Conns |-> <<>>]
  /\ buf = [c \in Conns |-> <<>>]
  /\ closed = [c \in Conns |-> FALSE]
  /\ sending = [c \in Conns |-> <<>>]
  /\ start = [c \in Conns |-> 0]
  /\ received = [c \in Conns |-> <<>>]
-----------------------------------------------------------------------------
(***************************************************************************)
(* appendEvent.                                                            *)
(***************************************************************************)

\* readySubs is filled in map order, which Go leaves open: the next subscriber
\* an appender turns to is any of the remaining ones.
NextTarget(a, rest) ==
  \/ /\ rest = {}
     /\ cur' = [cur EXCEPT ![a] = NoConn]
     /\ todo' = [todo EXCEPT ![a] = {}]
  \/ \E c \in rest :
       /\ cur' = [cur EXCEPT ![a] = c]
       /\ todo' = [todo EXCEPT ![a] = rest \ {c}]

\* Mutant: an event that finds a subscriber not ready skips it.
AppendEventNoBacklog(a) ==
  /\ mu = "free" /\ live
  /\ cur[a] = NoConn
  /\ nextSeq <= MaxSeq
  /\ log' = Append(log, nextSeq)
  /\ nextSeq' = nextSeq + 1
  /\ carried' = [carried EXCEPT ![a] = nextSeq]
  /\ NextTarget(a, {c \in Conns : registered[c] /\ ready[c]})
  /\ UNCHANGED <<live, mu, chanVars, subVars, connVars>>

\* Mutant: an event is sent at once to every subscriber, ready or not.
AppendEventToAll(a) ==
  /\ mu = "free" /\ live
  /\ cur[a] = NoConn
  /\ nextSeq <= MaxSeq
  /\ log' = Append(log, nextSeq)
  /\ nextSeq' = nextSeq + 1
  /\ carried' = [carried EXCEPT ![a] = nextSeq]
  /\ NextTarget(a, {c \in Conns : registered[c]})
  /\ UNCHANGED <<live, mu, chanVars, subVars, connVars>>

\* The section under the mutex: number the event, log it, park it in the
\* backlog of the subscribers that are not ready, remember the ready ones.
\* (On a deleted session appendEvent returns at once and changes nothing.)
AppendEvent(a) ==
  /\ mu = "free" /\ live
  /\ cur[a] = NoConn
  /\ nextSeq <= MaxSeq
  /\ log' = Append(log, nextSeq)
  /\ nextSeq' = nextSeq + 1
  /\ carried' = [carried EXCEPT ![a] = nextSeq]
  /\ backlog' = [c \in Conns |-> IF registered[c] /\ ~ready[c]
                                   THEN Append(backlog[c], nextSeq)
                                   ELSE backlog[c]]
  /\ NextTarget(a, {c \in Conns : registered[c] /\ ready[c]})
  /\ UNCHANGED <<live, mu, chanVars, registered, ready, connVars>>

\* Mutant: a full channel makes the sender skip the event instead of wait.
SendOrDrop(a) ==
  LET c == cur[a] IN
  /\ c # NoConn
  /\ \/ /\ closed[c] \/ Len(buf[c]) >= Capacity
        /\ UNCHANGED buf
     \/ /\ ~closed[c]
        /\ Len(buf[c]) < Capacity
        /\ buf' = [buf EXCEPT ![c] = Append(@, carried[a])]
  /\ NextTarget(a, todo[a])
  /\ UNCHANGED <<live, mu, logVars, carried, closed, subVars, connVars>>

\* Mutant: the send is not recovered, so a closed channel ends the appender.
SendNotRecovered(a) ==
  LET c == cur[a] IN
  /\ c # NoConn
  /\ ~closed[c]
  /\ Len(buf[c]) < Capacity
  /\ buf' = [buf EXCEPT ![c] = Append(@, carried[a])]
  /\ NextTarget(a, todo[a])
  /\ UNCHANGED <<live, mu, logVars, carried, closed, subVars, connVars>>

\* sendEvent, outside the mutex: blocks while the channel is full; a send on a
\* closed channel panics, the panic is recovered and the event is dropped.
Send(a) ==
  LET c == cur[a] IN
  /\ c # NoConn
  /\ \/ /\ closed[c]
        /\ UNCHANGED buf
     \/ /\ ~closed[c]
        /\ Len(buf[c]) < Capacity
        /\ buf' = [buf EXCEPT ![c] = Append(@, carried[a])]
  /\ NextTarget(a, todo[a])
  /\ UNCHANGED <<live, mu, logVars, carried, closed, subVars, connVars>>
-----------------------------------------------------------------------------
(***************************************************************************)
(* Subscribe and the WebSocket handler that calls it.                      *)
(***************************************************************************)

\* ensureSessionLoaded, the first statement of Subscribe.
CheckLoaded(c) ==
  /\ mu = "free"
  /\ pc[c] = "new"
  /\ pc' = [pc EXCEPT ![c] = IF live THEN "checked" ELSE "not_found"]
  /\ UNCHANGED <<live, mu, logVars, appVars, chanVars, subVars, sending, start, received>>

\* How many events of the log have a seq of fromSeq or less.  The log is ordered
\* by seq, so the events with a greater one are those after them.
UpTo(fromSeq) ==
  CHOOSE k \in 0..Len(log) : \A i \in 1..Len(log) : log[i] > fromSeq <=> i > k

\* The section that registers the subscriber and copies the events after
\* fromSeq.  The session may have been deleted since CheckLoaded: then
\* a.sessions[sessionID] is nil and s.nextSubID panics between Lock and Unlock.
\* fromSeq is what the client says, which after a restart of the server may be
\* beyond the last event.
Register(c, fromSeq) ==
  /\ mu = "free"
  /\ pc[c] = "checked"
  /\ \/ /\ ~live
        /\ mu' = "leaked"
        /\ pc' = [pc EXCEPT ![c] = "panicked"]
        /\ UNCHANGED <<registered, sending, start>>
     \/ /\ live
        /\ pc' = [pc EXCEPT ![c] = "sending"]
        /\ registered' = [registered EXCEPT ![c] = TRUE]
        /\ sending' = [sending EXCEPT ![c] = SubSeq(log, UpTo(fromSeq) + 1, Len(log))]
        /\ start' = [start EXCEPT ![c] = UpTo(fromSeq)]
        /\ UNCHANGED mu
  /\ UNCHANGED <<live, logVars, appVars, chanVars, ready, backlog, received>>

\* sendEventWithContext: one event of the history or of a copied backlog.
SendPending(c) ==
  /\ pc[c] = "sending"
  /\ sending[c] # <<>>
  /\ ~closed[c]
  /\ Len(buf[c]) < Capacity
  /\ buf' = [buf EXCEPT ![c] = Append(@, Head(sending[c]))]
  /\ sending' = [sending EXCEPT ![c] = Tail(@)]
  /\ UNCHANGED <<live, mu, logVars, appVars, closed, subVars, pc, start, received>>

\* The same send after DeleteSession closed the channel: it panics, is
\* recovered, and Subscribe gives up (its unsubscribe finds nothing to do).
SendOnClosed(c) ==
  /\ mu = "free"
  /\ pc[c] = "sending"
  /\ sending[c] # <<>>
  /\ closed[c]
  /\ pc' = [pc EXCEPT ![c] = "ended"]
  /\ UNCHANGED <<live, mu, logVars, appVars, chanVars, subVars, sending, start, received>>

\* Mutant: the backlog is copied but not emptied.
FlushKeepsBacklog(c) ==
  /\ mu = "free"
  /\ pc[c] = "sending"
  /\ sending[c] = <<>>
  /\ \/ /\ ~registered[c]
        /\ pc' = [pc EXCEPT ![c] = "not_found"]
        /\ UNCHANGED <<ready, sending, backlog>>
     \/ /\ registered[c]
        /\ \/ /\ backlog[c] = <<>>
              /\ ready' = [ready EXCEPT ![c] = TRUE]
              /\ pc' = [pc EXCEPT ![c] = "streaming"]
              /\ UNCHANGED sending
           \/ /\ backlog[c] # <<>>
              /\ sending' = [sending EXCEPT ![c] = backlog[c]]
              /\ UNCHANGED <<ready, pc>>
        /\ UNCHANGED backlog
  /\ UNCHANGED <<live, mu, logVars, appVars, chanVars, registered, start, received>>

\* One turn of the flush loop, once everything copied so far has been sent:
\* an empty backlog makes the subscriber ready, any other is copied and sent.
Flush(c) ==
  /\ mu = "free"
  /\ pc[c] = "sending"
  /\ sending[c] = <<>>
  /\ \/ /\ ~registered[c]        \* deleted: ErrSessionNotFound
        /\ pc' = [pc EXCEPT ![c] = "not_found"]
        /\ UNCHANGED <<ready, sending, backlog>>
     \/ /\ registered[c]
        /\ backlog[c] = <<>>
        /\ ready' = [ready EXCEPT ![c] = TRUE]
        /\ pc' = [pc EXCEPT ![c] = "streaming"]
        /\ UNCHANGED <<sending, backlog>>
     \/ /\ registered[c]
        /\ backlog[c] # <<>>
        /\ sending' = [sending EXCEPT ![c] = backlog[c]]
        /\ backlog' = [backlog EXCEPT ![c] = <<>>]
        /\ UNCHANGED <<ready, pc>>
  /\ UNCHANGED <<live, mu, logVars, appVars, chanVars, registered, start, received>>

\* The loop of handleWSRoutes: Subscribe has returned, so the channel has a
\* reader.  A closed channel is drained before the loop ends.
Read(c) ==
  /\ pc[c] = "streaming"
  /\ buf[c] # <<>>
  /\ received' = [received EXCEPT ![c] = Append(@, Head(buf[c]))]
  /\ buf' = [buf EXCEPT ![c] = Tail(@)]
  /\ UNCHANGED <<live, mu, logVars, appVars, closed, subVars, pc, sending, start>>

ReadClosed(c) ==
  /\ mu = "free"                 \* the deferred unsubscribe takes the mutex
  /\ pc[c] = "streaming"
  /\ buf[c] = <<>>
  /\ closed[c]
  /\ pc' = [pc EXCEPT ![c] = "ended"]
  /\ UNCHANGED <<live, mu, logVars, appVars, chanVars, subVars, sending, start, received>>

\* The client leaves: the goroutine that reads the socket cancels ctx, seen in
\* the select of the loop or of sendEventWithContext; unsubscribe removes the
\* subscriber and closes its channel, unless DeleteSession already did.
Disconnect(c) ==
  /\ mu = "free"
  /\ \/ pc[c] = "streaming"
     \/ pc[c] = "sending" /\ sending[c] # <<>>
  /\ pc' = [pc EXCEPT ![c] = "ended"]
  /\ registered' = [registered EXCEPT ![c] = FALSE]
  /\ closed' = [closed EXCEPT ![c] = TRUE]
  /\ UNCHANGED <<live, mu, logVars, appVars, buf, ready, backlog, sending, start, received>>
-----------------------------------------------------------------------------
(***************************************************************************)
(* DeleteSession, its section under the mutex: every subscriber is dropped *)
(* and its channel closed, then the session leaves the table for good.     *)
(***************************************************************************)
DeleteSession ==
  /\ mu = "free" /\ live
  /\ live' = FALSE
  /\ registered' = [c \in Conns |-> FALSE]
  /\ closed' = [c \in Conns |-> closed[c] \/ registered[c]]
  /\ UNCHANGED <<mu, logVars, appVars, buf, ready, backlog, connVars>>

Handler(c) ==
  \/ CheckLoaded(c)
  \/ \E fromSeq \in 0..MaxSeq : Register(c, fromSeq)
  \/ SendPending(c) \/ SendOnClosed(c) \/ Flush(c)
  \/ Read(c) \/ ReadClosed(c)

Next ==
  \/ \E a \in Appenders : AppendEvent(a) \/ Send(a)
  \/ \E c \in Conns : Handler(c) \/ Disconnect(c)
  \/ DeleteSession

Spec == Init /\ [][Next]_vars

(***************************************************************************)
(* Goroutines are scheduled, a send that can proceed does, and the network *)
(* takes what the handler writes.  Nothing makes a run produce events, a   *)
(* client leave, or a session be deleted.                                  *)
(***************************************************************************)
Fairness ==
  /\ \A a \in Appenders : WF_vars(Send(a))
  /\ \A c \in Conns : WF_vars(Handler(c))

FairSpec == Spec /\ Fairness
-----------------------------------------------------------------------------
(***************************************************************************)
(* Properties.                                                             *)
(***************************************************************************)

\* What the server still holds for a connection, in the order it will be read,
\* and the events appenders are carrying to it.
Pending(c) == buf[c] \o sending[c] \o backlog[c]
Carrying(c) == {a \in Appenders : cur[a] = c \/ c \in todo[a]}

\* No event is lost and none is handed over twice: for a registered subscriber
\* each event after its start is, exactly once, either delivered, or in the
\* channel, the pending history or the backlog, or carried by an appender.
ExactlyOnce ==
  \A c \in Conns : registered[c] =>
    LET here == received[c] \o Pending(c)
        wanted == (start[c] + 1)..(nextSeq - 1)
        inFlight == {carried[a] : a \in Carrying(c)}
    IN  /\ {here[i] : i \in DOMAIN here} \cup inFlight = wanted
        /\ Len(here) + Cardinality(Carrying(c)) = Cardinality(wanted)

\* The comment above the flush loop of Subscribe: while the subscriber is not
\* ready no appender sends to it, so what it holds is the whole suffix of the
\* log it asked for, in order, whatever number of runs append meanwhile.
BacklogInOrder ==
  \A c \in Conns : registered[c] /\ ~ready[c] =>
    /\ Carrying(c) = {}
    /\ received[c] = <<>>
    /\ Pending(c) = [i \in 1..(nextSeq - 1 - start[c]) |-> start[c] + i]

\* With one appender the stream implements the abstract feed: the connection
\* attaches when it is registered and each frame written is the next event.  So
\* seq only grows on a connection (api-contract-v1.md 5.3), and a client that
\* reconnects with the last seq it has received misses nothing (5.4).
Feed == INSTANCE EventFeed WITH
  published <- nextSeq - 1,
  phase <- [c \in Conns |->
              IF pc[c] \in {"sending", "streaming"} THEN "attached"
              ELSE IF pc[c] \in {"new", "checked"} THEN "idle" ELSE "ended"],
  origin <- start,
  seen <- received

ImplementsEventFeed == Feed!Spec

\* Once Subscribe has returned, every event of the session reaches the client
\* unless the connection ends, also when the channel of another subscriber, or
\* its own, is full meanwhile.
EventuallyDelivered ==
  \A c \in Conns, q \in 1..MaxSeq :
    (registered[c] /\ ready[c] /\ start[c] < q /\ q < nextSeq)
      ~> (~registered[c] \/ \E i \in DOMAIN received[c] : received[c][i] = q)

\* Subscribe returns: a connection that asked for history gets to stream it,
\* unless another handler has taken the mutex with it.
SubscribeReturns ==
  \A c \in Conns : pc[c] = "sending" ~> (pc[c] # "sending" \/ mu = "leaked")

\* It does when the events after start fit the channel, those appended
\* meanwhile included: the backlog is flushed to the end and the loop stops.
ShortHistoryReturns ==
  \A c \in Conns :
    (pc[c] = "sending" /\ MaxSeq - start[c] <= Capacity)
      ~> (pc[c] # "sending" \/ mu = "leaked")
=============================================================================
