---------------------------- MODULE PushDispatch ----------------------------
(***************************************************************************)
(* Push notifications: the goroutines that append session events publish   *)
(* them through the observer the server attaches to the adapters, one loop *)
(* takes them from a bounded queue and hands each to the webhook and then  *)
(* to every subscribed browser (PushStore), and browsers subscribe and     *)
(* leave meanwhile.  The process may die at any step.                      *)
(*                                                                         *)
(* Time is what may have passed: an entry of seen is older than the dedupe *)
(* TTL, the gap between two deltas of a session is over, the context of a  *)
(* send is done.                                                           *)
(***************************************************************************)
EXTENDS Naturals, Sequences, FiniteSets

CONSTANTS
  Events,     \* the session events the adapters append
  Event,      \* what each is: adapter, session, seq, type, role, done, text, message
  NoMessage,  \* the payload has no message_id
  NoEvent,
  Capacity,   \* PushQueueSize
  Endpoints, Filters, NoSub,
  Anything,   \* the filter of a subscription that is not limited
  Unknown     \* no request says whether the endpoint is subscribed

ASSUME PushAssumption ==
  /\ Capacity \in Nat \ {0}
  /\ NoEvent \notin Events
  /\ NoSub \notin Filters
  /\ Unknown \notin Filters \cup {NoSub}

VARIABLES
  pc,        \* how far Publish, and then the loop, is with each event
  queue,     \* pushDispatcher.queue
  seen,      \* ids in pushDispatcher.seen, none older than the TTL
  paced,     \* sessions in pushDispatcher.deltaAt, within the gap
  stage,     \* where the loop stands: "idle", "list", "send"
  payload,   \* the event it has taken
  batch      \* webPushSink.Send: the records still to be served
VARIABLES items, disk, attached
VARIABLES
  gone,      \* endpoints their push service has given up (external)
  want,      \* what the last request for each endpoint wrote, and answers with (history variable)
  lapsed,    \* ids whose entry was forgotten once (history variable)
  relaxed    \* sessions whose gap was over once (history variable)

dispatchVars == <<pc, queue, seen, paced, stage, payload, batch>>
storeVars == <<items, disk, attached>>
history == <<want, lapsed, relaxed>>
vars == <<dispatchVars, storeVars, gone, history>>

Store == INSTANCE PushStore
-----------------------------------------------------------------------------
(***************************************************************************)
(* buildPushEnvelope: which events are announced, and under which id.  A   *)
(* delta with a message id shares it with the later deltas of the message. *)
(***************************************************************************)
Final(e) == Event[e].done \/ Event[e].type = "message.done"

Announced(e) ==
  /\ Event[e].role = "assistant"
  /\ Event[e].text
  /\ Final(e) \/ Event[e].type = "message.delta"

Session(e) == <<Event[e].adapter, Event[e].session>>

Id(e) ==
  IF ~Final(e) /\ Event[e].message # NoMessage
    THEN <<Event[e].adapter, Event[e].session, "msg", Event[e].message>>
    ELSE <<Event[e].adapter, Event[e].session, Event[e].seq>>

Ids == {Id(e) : e \in Events}
Sessions == {Session(e) : e \in Events}
Steps == {"new", "throttle", "enqueue", "queued", "taken", "handled",
          "ignored", "duplicate", "throttled", "dropped", "lost"}

\* The values the variables take; queue and loop hold what pc says they hold.
TypeOK ==
  /\ Store!TypeOK
  /\ pc \in [Events -> Steps]
  /\ queue \in Seq(Events) /\ Len(queue) <= Capacity
  /\ seen \subseteq Ids /\ lapsed \subseteq Ids
  /\ paced \subseteq Sessions /\ relaxed \subseteq Sessions
  /\ stage \in {"idle", "list", "send"}
  /\ payload \in Events \cup {NoEvent}
  /\ batch \subseteq Endpoints /\ gone \subseteq Endpoints
  /\ want \in [Endpoints -> Filters \cup {NoSub, Unknown}]
  /\ \A e \in Events :
       /\ pc[e] = "queued" <=> \E i \in DOMAIN queue : queue[i] = e
       /\ pc[e] = "taken" <=> payload = e
  /\ stage = "idle" <=> payload = NoEvent

Init ==
  /\ Store!Init
  /\ pc = [e \in Events |-> "new"]
  /\ queue = <<>> /\ seen = {} /\ paced = {}
  /\ stage = "idle" /\ payload = NoEvent /\ batch = {}
  /\ gone = {}
  /\ want = [ep \in Endpoints |-> Unknown]
  /\ lapsed = {} /\ relaxed = {}

Goto(e, step) == pc' = [pc EXCEPT ![e] = step]
LoopIdle == UNCHANGED <<queue, stage, payload, batch, storeVars, gone, history>>
-----------------------------------------------------------------------------
(***************************************************************************)
(* Publish, in the goroutine that appended the event: a section for the    *)
(* ids, a section for the deltas, and a send that does not wait.           *)
(***************************************************************************)

\* Mutant: final messages wait for the gap as well.
AfterAlways(e) == "throttle"

\* The next section after isDuplicate: final messages skip shouldThrottleDelta.
After(e) == IF Final(e) THEN "enqueue" ELSE "throttle"

Ignore(e) ==
  /\ pc[e] = "new" /\ ~Announced(e)
  /\ Goto(e, "ignored")
  /\ UNCHANGED <<seen, paced>> /\ LoopIdle

\* Mutant: the id is looked up and never entered.
LookUpOnly(e) ==
  /\ pc[e] = "new" /\ Announced(e)
  /\ Goto(e, IF Id(e) \in seen THEN "duplicate" ELSE After(e))
  /\ UNCHANGED <<seen, paced>> /\ LoopIdle

\* isDuplicate
CheckDuplicate(e) ==
  /\ pc[e] = "new" /\ Announced(e)
  /\ \/ Id(e) \in seen /\ Goto(e, "duplicate") /\ UNCHANGED seen
     \/ Id(e) \notin seen /\ Goto(e, After(e)) /\ seen' = seen \cup {Id(e)}
  /\ UNCHANGED paced /\ LoopIdle

\* Mutant: a delta that passes leaves no trace.
ThrottleForgets(e) ==
  /\ pc[e] = "throttle"
  /\ Goto(e, IF Session(e) \in paced THEN "throttled" ELSE "enqueue")
  /\ UNCHANGED <<seen, paced>> /\ LoopIdle

\* shouldThrottleDelta
Throttle(e) ==
  /\ pc[e] = "throttle"
  /\ \/ Session(e) \in paced /\ Goto(e, "throttled") /\ UNCHANGED paced
     \/ Session(e) \notin paced /\ Goto(e, "enqueue") /\ paced' = paced \cup {Session(e)}
  /\ UNCHANGED seen /\ LoopIdle

\* Mutant: the send waits for room.
EnqueueWaiting(e) ==
  /\ pc[e] = "enqueue"
  /\ Len(queue) < Capacity
  /\ queue' = Append(queue, e) /\ Goto(e, "queued")
  /\ UNCHANGED <<seen, paced, stage, payload, batch, storeVars, gone, history>>

Enqueue(e) ==
  /\ pc[e] = "enqueue"
  /\ \/ Len(queue) < Capacity /\ queue' = Append(queue, e) /\ Goto(e, "queued")
     \/ Len(queue) = Capacity /\ Goto(e, "dropped") /\ UNCHANGED queue
  /\ UNCHANGED <<seen, paced, stage, payload, batch, storeVars, gone, history>>

\* now.Sub(at) > dedupeTTL: the next isDuplicate forgets the id first.
Forget(id) ==
  /\ id \in seen
  /\ seen' = seen \ {id} /\ lapsed' = lapsed \cup {id}
  /\ UNCHANGED <<pc, queue, paced, stage, payload, batch, storeVars, gone, want, relaxed>>

\* now.Sub(last) >= deltaGap; deltaTTL is longer and forgets nothing sooner.
GapOver(s) ==
  /\ s \in paced
  /\ paced' = paced \ {s} /\ relaxed' = relaxed \cup {s}
  /\ UNCHANGED <<pc, queue, seen, stage, payload, batch, storeVars, gone, want, lapsed>>
-----------------------------------------------------------------------------
(***************************************************************************)
(* loop: one event at a time, to every sink whatever the one before said.  *)
(***************************************************************************)

\* Mutant: the event is read and stays in the queue.
TakeKeeps ==
  /\ stage = "idle" /\ queue # <<>>
  /\ payload' = Head(queue)
  /\ Goto(Head(queue), "taken")
  /\ stage' = "list"
  /\ UNCHANGED <<queue, seen, paced, batch, storeVars, gone, history>>

\* The webhook comes first; it ends in an answer or with its client's timeout,
\* and changes nothing here.
Take ==
  /\ stage = "idle" /\ queue # <<>>
  /\ payload' = Head(queue) /\ queue' = Tail(queue)
  /\ Goto(Head(queue), "taken")
  /\ stage' = "list"
  /\ UNCHANGED <<seen, paced, batch, storeVars, gone, history>>

\* subscriptionMatchesNotification: the session of a subscription is not looked at.
Matches(filter, e) == filter # NoSub /\ filter \in {Anything, Event[e].adapter}

\* webPushSink.Send: the records are listed once.
List ==
  /\ stage = "list"
  /\ batch' = {ep \in Endpoints : Matches(items[ep], payload)}
  /\ stage' = "send"
  /\ UNCHANGED <<pc, queue, seen, paced, payload, storeVars, gone, history>>

Served(ep) ==
  /\ batch' = batch \ {ep}
  /\ UNCHANGED <<pc, queue, seen, paced, stage, payload, gone, lapsed, relaxed>>

\* Mutant: a subscription is removed after any failure.
SendFailureRemoves(ep) ==
  /\ stage = "send" /\ ep \in batch
  /\ \/ ep \notin gone /\ UNCHANGED storeVars
     \/ Store!RemoveNothing(ep)
     \/ \E ok \in BOOLEAN : Store!RemoveByEndpoint(ep, ok)
  /\ Served(ep) /\ UNCHANGED want

\* The push service answers, or the connection fails; 410 and 404 remove the
\* subscription of that endpoint, as it is now, and an error of the store is
\* ignored.  No record is sent to once the context is done.
Send(ep) ==
  /\ stage = "send" /\ ep \in batch
  /\ \/ UNCHANGED storeVars
     \/ ep \in gone /\ Store!RemoveNothing(ep)
     \/ ep \in gone /\ \E ok \in BOOLEAN : Store!RemoveByEndpoint(ep, ok)
  /\ Served(ep) /\ UNCHANGED want

\* The records are served, or the context is done before the next one is tried.
Finish ==
  /\ stage = "send"
  /\ stage' = "idle" /\ payload' = NoEvent /\ batch' = {}
  /\ Goto(payload, "handled")
  /\ UNCHANGED <<queue, seen, paced, storeVars, gone, history>>
-----------------------------------------------------------------------------
(***************************************************************************)
(* Browsers: handlePushSubscriptions, handlePushSubscriptionRemove.  A     *)
(* request is the store's section; the answer, which follows it outside,   *)
(* changes nothing here, and is lost with the process like a crash before  *)
(* it.  Of two requests for one endpoint the one whose section came last   *)
(* counts, in whatever order they are answered.                            *)
(***************************************************************************)

Tell(ep, says) == want' = [want EXCEPT ![ep] = says]
DispatcherIdle == UNCHANGED <<dispatchVars, gone, lapsed, relaxed>>

Subscribe(ep, filter, ok) ==
  /\ Store!Upsert(ep, filter, ok)
  /\ Tell(ep, IF ok THEN filter ELSE Unknown)
  /\ DispatcherIdle

\* "removed": false is an answer too, but of the map alone.
Unsubscribe(ep, ok) ==
  /\ \/ Store!RemoveByEndpoint(ep, ok) /\ Tell(ep, IF ok THEN NoSub ELSE Unknown)
     \/ ok /\ Store!RemoveNothing(ep) /\ UNCHANGED want
  /\ DispatcherIdle

\* The browser or its push service gives an endpoint up, for good.
GiveUp(ep) ==
  /\ ep \notin gone
  /\ gone' = gone \cup {ep}
  /\ UNCHANGED <<dispatchVars, storeVars, history>>

\* The process dies and starts again: all that the dispatcher holds is gone.
Restart ==
  /\ Store!Load
  /\ pc' = [e \in Events |-> IF pc[e] \in {"throttle", "enqueue", "queued", "taken"}
                               THEN "lost" ELSE pc[e]]
  /\ queue' = <<>> /\ seen' = {} /\ paced' = {}
  /\ stage' = "idle" /\ payload' = NoEvent /\ batch' = {}
  /\ want' = IF attached /\ attached' THEN want ELSE [ep \in Endpoints |-> Unknown]
  /\ lapsed' = lapsed \cup seen /\ relaxed' = relaxed \cup paced
  /\ UNCHANGED gone

Next ==
  \/ \E e \in Events : Ignore(e) \/ CheckDuplicate(e) \/ Throttle(e) \/ Enqueue(e)
  \/ \E id \in Ids : Forget(id)
  \/ \E s \in Sessions : GapOver(s)
  \/ Take \/ List \/ Finish
  \/ \E ep \in Endpoints, ok \in BOOLEAN :
       Unsubscribe(ep, ok) \/ \E filter \in Filters : Subscribe(ep, filter, ok)
  \/ \E ep \in Endpoints : Send(ep) \/ GiveUp(ep)
  \/ Restart

Spec == Init /\ [][Next]_vars

\* Goroutines that are in Publish are scheduled, some one of them.  Of the loop,
\* which waits for push services and the webhook, nothing is assumed.
FairSpec == Spec /\ WF_vars(\E e \in Events : Throttle(e) \/ Enqueue(e))
-----------------------------------------------------------------------------
(***************************************************************************)
(* Properties.                                                             *)
(***************************************************************************)

LetThrough == {"enqueue", "queued", "taken", "handled", "dropped"}
Passed == {e \in Events : pc[e] \in LetThrough}

\* Whatever goroutines publish at once, two notifications go out under one id
\* only when the TTL has passed, or the process died, in between.
OncePerId ==
  \A e1, e2 \in Passed : e1 # e2 /\ Id(e1) = Id(e2) => Id(e1) \in lapsed

\* And two deltas of a session only when the gap has passed.
DeltasPaced ==
  \A e1, e2 \in Passed :
    e1 # e2 /\ Session(e1) = Session(e2) /\ ~Final(e1) /\ ~Final(e2)
      => Session(e1) \in relaxed

\* A delta enters its id before its pace is looked at, and keeps it there when it
\* is held back.
HeldBack(id) == \E d \in Events : Id(d) = id /\ pc[d] = "throttled"

\* A final message with text is never held back for the pace.  It is taken for a
\* duplicate only when an event with its id was let through, or is on its way, or
\* died with the process.  This is not so of a message whose id a delta had that
\* was held back, when a seq is used again (PicoHistory): of these nothing is
\* said, and nothing may be announced.
FinalsAnnounced ==
  \A e \in Events : Final(e) /\ Announced(e) =>
    /\ pc[e] # "throttled"
    /\ pc[e] = "duplicate" /\ ~HeldBack(Id(e)) =>
         \E o \in Events : o # e /\ Id(o) = Id(e)
                             /\ pc[o] \in LetThrough \cup {"throttle", "lost"}

\* What the last request for an endpoint wrote, and its client is told, is true of
\* the map and of the file, and stays true through failed writes, restarts and
\* whatever the push services answer, until they give the endpoint up.
SubscriptionKept ==
  \A ep \in Endpoints : want[ep] # Unknown /\ ep \notin gone =>
    items[ep] = want[ep] /\ (attached => disk[ep] = want[ep])

\* Every Publish returns to the run that appended the event: also when the queue is
\* full and the loop waits for ever for a push service that does not answer.
Publishing == {e \in Events : pc[e] \in {"throttle", "enqueue"}}
PublishReturns == Publishing # {} ~> Publishing = {}
=============================================================================
