------------------------- MODULE PushDispatchProofs -------------------------
(***************************************************************************)
(* Proofs about PushDispatch, for any events, endpoints and queue size.    *)
(***************************************************************************)
EXTENDS PushDispatch, TLAPS

\* The queue holds each event once; then TypeOK is inductive.
QueueOnce == \A i, j \in DOMAIN queue : queue[i] = queue[j] => i = j
TypeInv == TypeOK /\ QueueOnce

USE DEF Store!TypeOK, Store!Records, Store!Empty, Store!storeVars, storeVars

\* The operations of the store keep its variables in their ranges.
LEMMA StoreType ==
  ASSUME Store!TypeOK, NEW ep \in Endpoints, NEW ok \in BOOLEAN,
         \/ Store!Load \/ Store!RemoveNothing(ep) \/ Store!RemoveByEndpoint(ep, ok)
         \/ \E filter \in Filters : Store!Upsert(ep, filter, ok)
  PROVE  Store!TypeOK'
BY DEF Store!Load, Store!RemoveNothing, Store!RemoveByEndpoint, Store!Upsert, Store!Persist

\* What Publish does before the queue leaves queue and loop alone.
LEMMA LocalStepType ==
  ASSUME TypeInv, NEW e \in Events, NEW step \in Steps \ {"queued", "taken"},
         pc[e] \in {"new", "throttle", "enqueue"}, Goto(e, step),
         seen' \subseteq Ids, paced' \subseteq Sessions, LoopIdle
  PROVE  TypeInv'
<1> USE DEF TypeInv, QueueOnce, LoopIdle, history
<1>1. pc' \in [Events -> Steps]
  BY DEF TypeOK, Goto
<1>2. \A o \in Events : (pc'[o] = "queued" <=> pc[o] = "queued")
                        /\ (pc'[o] = "taken" <=> pc[o] = "taken")
  BY DEF TypeOK, Goto, Steps
<1> QED
  BY <1>1, <1>2 DEF TypeOK

\* Type correctness: the queue holds the events that are queued, each once, and
\* never more than its capacity; the loop holds the one that is taken.
THEOREM TypeCorrect == Spec => []TypeOK
<1>1. Init => TypeInv
  <2> SUFFICES ASSUME Init
               PROVE  TypeInv
    OBVIOUS
  <2>1. queue = <<>> /\ queue \in Seq(Events) /\ Len(queue) = 0 /\ DOMAIN queue = {}
    BY DEF Init
  <2>2. pc \in [Events -> Steps] /\ \A e \in Events : pc[e] = "new"
    BY DEF Init, Steps
  <2>3. Store!TypeOK
    BY DEF Init, Store!Init
  <2> QED
    BY <2>1, <2>2, <2>3, PushAssumption DEF Init, TypeInv, TypeOK, QueueOnce
<1>2. TypeInv /\ [Next]_vars => TypeInv'
  <2> SUFFICES ASSUME TypeInv, [Next]_vars
               PROVE  TypeInv'
    OBVIOUS
  <2>0. TypeOK /\ QueueOnce
    BY DEF TypeInv
  <2>1. ASSUME NEW e \in Events, Ignore(e) \/ CheckDuplicate(e) \/ Throttle(e)
        PROVE  TypeInv'
    <3>1. seen' \subseteq Ids /\ paced' \subseteq Sessions /\ LoopIdle
      BY <2>0, <2>1 DEF TypeOK, Ignore, CheckDuplicate, Throttle, Ids, Sessions
    <3>2. PICK step \in Steps \ {"queued", "taken"} : Goto(e, step)
      BY <2>1 DEF Ignore, CheckDuplicate, Throttle, After, Steps
    <3>3. pc[e] \in {"new", "throttle", "enqueue"}
      BY <2>1 DEF Ignore, CheckDuplicate, Throttle
    <3> QED
      BY <3>1, <3>2, <3>3, LocalStepType
  <2>2. ASSUME NEW e \in Events, Enqueue(e)
        PROVE  TypeInv'
    <3>1. CASE Len(queue) < Capacity /\ queue' = Append(queue, e) /\ Goto(e, "queued")
      <4>1. /\ queue' \in Seq(Events) /\ Len(queue') = Len(queue) + 1
            /\ \A i \in DOMAIN queue : queue'[i] = queue[i]
            /\ queue'[Len(queue) + 1] = e
            /\ DOMAIN queue' = 1..(Len(queue) + 1) /\ DOMAIN queue = 1..Len(queue)
        BY <2>0, <3>1 DEF TypeOK
      <4>2. \A i \in DOMAIN queue : queue[i] # e
        BY <2>0, <2>2 DEF TypeOK, Enqueue
      <4>3. pc' \in [Events -> Steps] /\ pc' = [pc EXCEPT ![e] = "queued"]
        BY <2>0, <3>1 DEF TypeOK, Goto, Steps
      <4>4. \A o \in Events : /\ pc'[o] = "queued" <=> \E i \in DOMAIN queue' : queue'[i] = o
                              /\ pc'[o] = "taken" <=> payload = o
        <5> SUFFICES ASSUME NEW o \in Events
                     PROVE  /\ pc'[o] = "queued" <=> \E i \in DOMAIN queue' : queue'[i] = o
                            /\ pc'[o] = "taken" <=> payload = o
          OBVIOUS
        <5>1. CASE o = e
          <6>1. pc'[o] = "queued"
            BY <5>1, <4>3, <2>0 DEF TypeOK
          <6>2. Len(queue) + 1 \in DOMAIN queue' /\ queue'[Len(queue) + 1] = o
            <7>1. Len(queue) \in Nat
              BY <2>0 DEF TypeOK
            <7> QED
              BY <7>1, <5>1, <4>1
          <6>3. payload # o
            BY <5>1, <2>0, <2>2 DEF TypeOK, Enqueue
          <6> QED
            BY <6>1, <6>2, <6>3
        <5>2. CASE o # e
          <6>1. pc'[o] = pc[o]
            BY <5>2, <4>3, <2>0 DEF TypeOK
          <6>2. (\E i \in DOMAIN queue' : queue'[i] = o) <=> (\E i \in DOMAIN queue : queue[i] = o)
            <7>0. Len(queue) \in Nat
              BY <2>0 DEF TypeOK
            <7>1. ASSUME NEW i \in DOMAIN queue', queue'[i] = o
                  PROVE  \E j \in DOMAIN queue : queue[j] = o
              <8>1. i # Len(queue) + 1
                BY <7>1, <5>2, <4>1
              <8>2. i \in DOMAIN queue
                BY <8>1, <7>0, <4>1
              <8> QED
                BY <8>2, <7>1, <4>1
            <7>2. ASSUME NEW j \in DOMAIN queue, queue[j] = o
                  PROVE  \E i \in DOMAIN queue' : queue'[i] = o
              <8>1. j \in DOMAIN queue' /\ queue'[j] = o
                BY <7>0, <7>2, <4>1
              <8> QED
                BY <8>1
            <7> QED
              BY <7>1, <7>2
          <6> QED
            BY <6>1, <6>2, <2>0 DEF TypeOK
        <5> QED
          BY <5>1, <5>2
      <4>5. QueueOnce'
        BY <2>0, <4>1, <4>2 DEF QueueOnce, TypeOK
      <4>6. Len(queue') <= Capacity
        BY <2>0, <3>1, <4>1, PushAssumption DEF TypeOK
      <4>7. UNCHANGED <<seen, paced, stage, payload, batch, storeVars, gone, want, lapsed, relaxed>>
        BY <2>2 DEF Enqueue, history
      <4>8. queue' \in Seq(Events)
        BY <4>1
      <4> QED
        BY <2>0, <4>3, <4>4, <4>5, <4>6, <4>7, <4>8 DEF TypeInv, TypeOK
    <3>2. CASE Len(queue) = Capacity /\ Goto(e, "dropped") /\ UNCHANGED queue
      <4>1. LoopIdle /\ pc[e] = "enqueue" /\ UNCHANGED <<seen, paced>>
        BY <2>2, <3>2 DEF Enqueue, LoopIdle
      <4>2. "dropped" \in Steps \ {"queued", "taken"}
        BY DEF Steps
      <4>3. seen' \subseteq Ids /\ paced' \subseteq Sessions
        BY <2>0, <4>1 DEF TypeOK
      <4> QED
        BY <3>2, <4>1, <4>2, <4>3, LocalStepType
    <3> QED
      BY <2>2, <3>1, <3>2 DEF Enqueue
  <2>3. ASSUME NEW id \in Ids, Forget(id)
        PROVE  TypeInv'
    BY <2>0, <2>3 DEF TypeInv, TypeOK, QueueOnce, Forget
  <2>4. ASSUME NEW s \in Sessions, GapOver(s)
        PROVE  TypeInv'
    BY <2>0, <2>4 DEF TypeInv, TypeOK, QueueOnce, GapOver
  <2>5. CASE Take
    <3> DEFINE e == Head(queue)
    <3>1. /\ queue' \in Seq(Events) /\ Len(queue') = Len(queue) - 1 /\ Len(queue) > 0
          /\ \A i \in 1..(Len(queue) - 1) : queue'[i] = queue[i + 1]
          /\ e = queue[1] /\ e \in Events
          /\ DOMAIN queue' = 1..(Len(queue) - 1) /\ DOMAIN queue = 1..Len(queue)
      BY <2>0, <2>5 DEF TypeOK, Take
    <3>2. pc' \in [Events -> Steps] /\ pc' = [pc EXCEPT ![e] = "taken"]
      BY <2>0, <2>5, <3>1 DEF TypeOK, Take, Goto, Steps
    <3>3. \A i \in 1..(Len(queue) - 1) : queue'[i] # e
      <4> SUFFICES ASSUME NEW i \in 1..(Len(queue) - 1)
                   PROVE  queue'[i] # e
        OBVIOUS
      <4>1. i + 1 \in DOMAIN queue /\ 1 \in DOMAIN queue /\ i + 1 # 1
        BY <3>1, <2>0 DEF TypeOK
      <4> QED
        BY <4>1, <3>1, <2>0 DEF QueueOnce
    <3>4. \A o \in Events : o # e =>
            ((\E i \in DOMAIN queue' : queue'[i] = o) <=> (\E i \in DOMAIN queue : queue[i] = o))
      <4> SUFFICES ASSUME NEW o \in Events, o # e
                   PROVE  (\E i \in DOMAIN queue' : queue'[i] = o)
                            <=> (\E i \in DOMAIN queue : queue[i] = o)
        OBVIOUS
      <4>1. ASSUME NEW i \in DOMAIN queue', queue'[i] = o
            PROVE  \E j \in DOMAIN queue : queue[j] = o
        <5>1. i + 1 \in DOMAIN queue /\ queue[i + 1] = o
          BY <4>1, <3>1, <2>0 DEF TypeOK
        <5> QED
          BY <5>1
      <4>2. ASSUME NEW j \in DOMAIN queue, queue[j] = o
            PROVE  \E i \in DOMAIN queue' : queue'[i] = o
        <5>1. j # 1
          BY <4>2, <3>1
        <5>2. j - 1 \in 1..(Len(queue) - 1) /\ (j - 1) + 1 = j
          BY <5>1, <3>1, <2>0 DEF TypeOK
        <5>3. queue'[j - 1] = o
          BY <5>2, <4>2, <3>1
        <5> QED
          BY <5>2, <5>3, <3>1
      <4> QED
        BY <4>1, <4>2
    <3>5. payload = NoEvent /\ payload' = e /\ stage' = "list" /\ e # NoEvent
      BY <2>0, <2>5, <3>1, PushAssumption DEF TypeOK, Take
    <3>6. \A o \in Events : /\ pc'[o] = "queued" <=> \E i \in DOMAIN queue' : queue'[i] = o
                            /\ pc'[o] = "taken" <=> payload' = o
      <4> SUFFICES ASSUME NEW o \in Events
                   PROVE  /\ pc'[o] = "queued" <=> \E i \in DOMAIN queue' : queue'[i] = o
                          /\ pc'[o] = "taken" <=> payload' = o
        OBVIOUS
      <4>1. CASE o = e
        <5>1. pc'[o] = "taken"
          BY <4>1, <3>2, <2>0, <3>1 DEF TypeOK
        <5> QED
          BY <5>1, <4>1, <3>1, <3>3, <3>5
      <4>2. CASE o # e
        <5>1. pc'[o] = pc[o]
          BY <4>2, <3>2, <2>0 DEF TypeOK
        <5>2. pc[o] # "taken"
          BY <3>5, <2>0, PushAssumption DEF TypeOK
        <5> QED
          BY <5>1, <5>2, <4>2, <3>4, <3>5, <2>0 DEF TypeOK
      <4> QED
        BY <4>1, <4>2
    <3>7. QueueOnce'
      <4> SUFFICES ASSUME NEW i \in DOMAIN queue', NEW j \in DOMAIN queue', queue'[i] = queue'[j]
                   PROVE  i = j
        BY DEF QueueOnce
      <4>1. i + 1 \in DOMAIN queue /\ j + 1 \in DOMAIN queue /\ queue[i + 1] = queue[j + 1]
        BY <3>1, <2>0 DEF TypeOK
      <4>2. i + 1 = j + 1
        BY <4>1, <2>0 DEF QueueOnce
      <4> QED
        BY <4>2, <3>1
    <3>8. Len(queue') <= Capacity
      BY <3>1, <2>0, PushAssumption DEF TypeOK
    <3> QED
      BY <2>0, <2>5, <3>1, <3>2, <3>5, <3>6, <3>7, <3>8 DEF TypeInv, TypeOK, Take, history
  <2>6. CASE List
    BY <2>0, <2>6 DEF TypeInv, TypeOK, QueueOnce, List, history
  <2>7. CASE Finish
    <3>1. payload \in Events /\ pc[payload] = "taken"
      BY <2>0, <2>7 DEF TypeOK, Finish
    <3>2. pc' \in [Events -> Steps] /\ pc' = [pc EXCEPT ![payload] = "handled"]
      BY <2>0, <2>7, <3>1 DEF TypeOK, Finish, Goto, Steps
    <3>3. \A o \in Events : (pc'[o] = "queued" <=> pc[o] = "queued") /\ pc'[o] # "taken"
      BY <2>0, <3>1, <3>2 DEF TypeOK
    <3> QED
      BY <2>0, <2>7, <3>2, <3>3, PushAssumption DEF TypeInv, TypeOK, QueueOnce, Finish, history
  <2>8. ASSUME NEW ep \in Endpoints, NEW ok \in BOOLEAN, Unsubscribe(ep, ok)
        PROVE  TypeInv'
    <3>1. Store!TypeOK'
      BY <2>0, <2>8, StoreType DEF TypeOK, Unsubscribe
    <3>2. want' \in [Endpoints -> Filters \cup {NoSub, Unknown}]
      BY <2>0, <2>8 DEF TypeOK, Unsubscribe, Tell
    <3> QED
      BY <2>0, <2>8, <3>1, <3>2 DEF TypeInv, TypeOK, QueueOnce, Unsubscribe, DispatcherIdle, dispatchVars
  <2>9. ASSUME NEW ep \in Endpoints, NEW filter \in Filters, NEW ok \in BOOLEAN,
               Subscribe(ep, filter, ok)
        PROVE  TypeInv'
    <3>1. Store!TypeOK'
      BY <2>0, <2>9, StoreType DEF TypeOK, Subscribe
    <3>2. want' \in [Endpoints -> Filters \cup {NoSub, Unknown}]
      BY <2>0, <2>9 DEF TypeOK, Subscribe, Tell
    <3> QED
      BY <2>0, <2>9, <3>1, <3>2 DEF TypeInv, TypeOK, QueueOnce, Subscribe, DispatcherIdle, dispatchVars
  <2>10. ASSUME NEW ep \in Endpoints, Send(ep)
         PROVE  TypeInv'
    <3>1. Store!TypeOK'
      <4>1. CASE UNCHANGED storeVars
        BY <4>1, <2>0 DEF TypeOK
      <4>2. CASE Store!RemoveNothing(ep) \/ \E ok \in BOOLEAN : Store!RemoveByEndpoint(ep, ok)
        BY <4>2, <2>0, StoreType DEF TypeOK
      <4> QED
        BY <2>10, <4>1, <4>2 DEF Send
    <3> QED
      BY <2>0, <2>10, <3>1 DEF TypeInv, TypeOK, QueueOnce, Send, Served
  <2>11. ASSUME NEW ep \in Endpoints, GiveUp(ep)
         PROVE  TypeInv'
    BY <2>0, <2>11 DEF TypeInv, TypeOK, QueueOnce, GiveUp, dispatchVars, history
  <2>12. CASE Restart
    <3>1. Store!TypeOK'
      BY <2>0, <2>12 DEF TypeOK, Restart, Store!Load
    <3>2. /\ queue' = <<>> /\ queue' \in Seq(Events) /\ Len(queue') = 0 /\ DOMAIN queue' = {}
      BY <2>12 DEF Restart
    <3>3. pc' \in [Events -> Steps] /\ \A e \in Events : pc'[e] \notin {"queued", "taken"}
      BY <2>0, <2>12 DEF TypeOK, Restart, Steps
    <3>4. want' \in [Endpoints -> Filters \cup {NoSub, Unknown}]
      BY <2>0, <2>12 DEF TypeOK, Restart
    <3> QED
      BY <2>0, <2>12, <3>1, <3>2, <3>3, <3>4, PushAssumption
         DEF TypeInv, TypeOK, QueueOnce, Restart
  <2>13. CASE UNCHANGED vars
    BY <2>0, <2>13 DEF TypeInv, TypeOK, QueueOnce, vars, dispatchVars, history
  <2> QED
    BY <2>1, <2>2, <2>3, <2>4, <2>5, <2>6, <2>7, <2>8, <2>9, <2>10, <2>11, <2>12, <2>13 DEF Next
<1>3. TypeInv => TypeOK
  BY DEF TypeInv
<1> QED
  BY <1>1, <1>2, <1>3, PTL DEF Spec
-----------------------------------------------------------------------------
\* Events that have entered their id, and an event's way through Publish.
Entered == {e \in Events : pc[e] \in LetThrough \cup {"throttle", "throttled", "lost"}}

\* What each step does to the ids and to the sessions that are paced.
LEMMA Moves ==
  ASSUME TypeOK, [Next]_vars
  PROVE  /\ pc' \in [Events -> Steps]
         /\ Entered \subseteq Entered'
         /\ seen \cup lapsed \subseteq seen' \cup lapsed' /\ lapsed \subseteq lapsed'
         /\ paced \cup relaxed \subseteq paced' \cup relaxed' /\ relaxed \subseteq relaxed'
<1> USE DEF TypeOK, Steps, Entered, LetThrough, Goto, history, dispatchVars
<1>1. ASSUME NEW e \in Events, Ignore(e) \/ CheckDuplicate(e) \/ Throttle(e) \/ Enqueue(e)
      PROVE  /\ pc' \in [Events -> Steps]
             /\ Entered \subseteq Entered'
             /\ seen \subseteq seen' /\ paced \subseteq paced' /\ UNCHANGED <<lapsed, relaxed>>
  <2>1. \E step \in Steps : pc' = [pc EXCEPT ![e] = step]
                            /\ (e \in Entered => step \in LetThrough \cup {"throttled"})
    BY <1>1 DEF Ignore, CheckDuplicate, Throttle, Enqueue, After
  <2>2. pc' \in [Events -> Steps] /\ Entered \subseteq Entered'
    BY <2>1
  <2>3. seen \subseteq seen' /\ paced \subseteq paced' /\ UNCHANGED <<lapsed, relaxed>>
    BY <1>1 DEF Ignore, CheckDuplicate, Throttle, Enqueue, LoopIdle
  <2> QED
    BY <2>2, <2>3
<1>2. CASE (\E id \in Ids : Forget(id)) \/ (\E s \in Sessions : GapOver(s)) \/ List
  BY <1>2 DEF Forget, GapOver, List
<1>3. CASE Take
  <2>1. Head(queue) \in Events /\ pc[Head(queue)] = "queued"
    <3>1. Head(queue) = queue[1] /\ 1 \in DOMAIN queue
      BY <1>3 DEF Take
    <3> QED
      BY <3>1
  <2> QED
    BY <1>3, <2>1 DEF Take
<1>4. CASE Finish
  BY <1>4 DEF Finish
<1>5. CASE \E ep \in Endpoints : Send(ep) \/ GiveUp(ep)
  BY <1>5 DEF Send, Served, GiveUp
<1>6. CASE \E ep \in Endpoints, ok \in BOOLEAN :
             Unsubscribe(ep, ok) \/ \E filter \in Filters : Subscribe(ep, filter, ok)
  BY <1>6 DEF Unsubscribe, Subscribe, DispatcherIdle
<1>7. CASE Restart
  BY <1>7 DEF Restart
<1>8. CASE UNCHANGED vars
  BY <1>8 DEF vars
<1> QED
  BY <1>1, <1>2, <1>3, <1>4, <1>5, <1>6, <1>7, <1>8 DEF Next

\* Only isDuplicate lets an event in, and it enters the id as it does; an id
\* that is entered belongs to such an event.
LEMMA Entry ==
  ASSUME TypeOK, [Next]_vars, NEW e \in Events, e \in Entered', e \notin Entered
  PROVE  Id(e) \notin seen /\ seen' = seen \cup {Id(e)} /\ lapsed' = lapsed
         /\ Entered' = Entered \cup {e}
<1> USE DEF TypeOK, Steps, Entered, LetThrough, Goto, history, dispatchVars
<1>1. ASSUME NEW o \in Events, CheckDuplicate(o)
      PROVE  Id(e) \notin seen /\ seen' = seen \cup {Id(e)} /\ lapsed' = lapsed
             /\ Entered' = Entered \cup {e}
  BY <1>1 DEF CheckDuplicate, After, LoopIdle
<1>2. ASSUME NEW o \in Events, Ignore(o) \/ Throttle(o) \/ Enqueue(o)
      PROVE  FALSE
  BY <1>2 DEF Ignore, Throttle, Enqueue
<1>3. CASE (\E id \in Ids : Forget(id)) \/ (\E s \in Sessions : GapOver(s)) \/ List
  BY <1>3 DEF Forget, GapOver, List
<1>4. CASE Take \/ Finish
  <2>1. CASE Take
    <3>1. Head(queue) = queue[1] /\ 1 \in DOMAIN queue
      BY <2>1 DEF Take
    <3>2. Head(queue) \in Events /\ pc[Head(queue)] = "queued"
      BY <3>1
    <3> QED
      BY <2>1, <3>2 DEF Take
  <2>2. CASE Finish
    BY <2>2 DEF Finish
  <2> QED
    BY <1>4, <2>1, <2>2
<1>5. CASE \E ep \in Endpoints : Send(ep) \/ GiveUp(ep)
  BY <1>5 DEF Send, Served, GiveUp
<1>6. CASE \E ep \in Endpoints, ok \in BOOLEAN :
             Unsubscribe(ep, ok) \/ \E filter \in Filters : Subscribe(ep, filter, ok)
  BY <1>6 DEF Unsubscribe, Subscribe, DispatcherIdle
<1>7. CASE Restart
  BY <1>7 DEF Restart
<1>8. CASE UNCHANGED vars
  BY <1>8 DEF vars
<1> QED
  BY <1>1, <1>2, <1>3, <1>4, <1>5, <1>6, <1>7, <1>8 DEF Next

\* Two notifications under one id: every event that has entered its id has left
\* it in seen or in lapsed, and the second to enter did not find it in seen.
IdInv ==
  /\ \A e \in Entered : Id(e) \in seen \cup lapsed
  /\ \A e, o \in Entered : e # o /\ Id(e) = Id(o) => Id(e) \in lapsed

THEOREM OncePerIdAlways == Spec => []OncePerId
<1>1. Init => IdInv
  BY DEF Init, IdInv, Entered, LetThrough
<1>2. IdInv /\ TypeOK /\ [Next]_vars => IdInv'
  <2> SUFFICES ASSUME IdInv, TypeOK, [Next]_vars
               PROVE  IdInv'
    OBVIOUS
  <2>1. Entered \subseteq Events /\ Entered' \subseteq Events
    BY DEF Entered
  <2>2. ASSUME NEW e \in Entered'
        PROVE  Id(e) \in seen' \cup lapsed'
    <3>1. CASE e \in Entered
      BY <3>1, Moves DEF IdInv
    <3>2. CASE e \notin Entered
      BY <2>1, <3>2, Entry
    <3> QED
      BY <3>1, <3>2
  <2>3. ASSUME NEW e \in Entered', NEW o \in Entered', e # o, Id(e) = Id(o)
        PROVE  Id(e) \in lapsed'
    <3>1. CASE e \in Entered /\ o \in Entered
      BY <3>1, <2>3, Moves DEF IdInv
    <3>2. CASE e \notin Entered
      <4>1. Id(e) \notin seen /\ lapsed' = lapsed /\ Entered' = Entered \cup {e}
        BY <2>1, <3>2, Entry
      <4>2. o \in Entered
        BY <2>3, <4>1
      <4> QED
        BY <4>1, <4>2, <2>3 DEF IdInv
    <3>3. CASE o \notin Entered
      <4>1. Id(o) \notin seen /\ lapsed' = lapsed /\ Entered' = Entered \cup {o}
        BY <2>1, <3>3, Entry
      <4>2. e \in Entered
        BY <2>3, <4>1
      <4> QED
        BY <4>1, <4>2, <2>3 DEF IdInv
    <3> QED
      BY <3>1, <3>2, <3>3
  <2> QED
    BY <2>2, <2>3 DEF IdInv
<1>3. IdInv => OncePerId
  BY DEF IdInv, OncePerId, Passed, Entered
<1> QED
  BY <1>1, <1>2, <1>3, TypeCorrect, PTL DEF Spec
-----------------------------------------------------------------------------
\* A delta leaves shouldThrottleDelta only when its session was not paced, and
\* paces it; nothing else moves meanwhile.
LEMMA Passes ==
  ASSUME TypeOK, [Next]_vars, NEW e \in Events, ~Final(e),
         pc[e] \notin LetThrough, pc'[e] \in LetThrough
  PROVE  /\ Session(e) \notin paced /\ paced' = paced \cup {Session(e)}
         /\ relaxed' = relaxed
         /\ \A o \in Events : o # e => pc'[o] = pc[o]
<1> USE DEF TypeOK, Steps, LetThrough, Goto, history, dispatchVars
<1>1. ASSUME NEW o \in Events, Throttle(o)
      PROVE  /\ Session(e) \notin paced /\ paced' = paced \cup {Session(e)}
             /\ relaxed' = relaxed
             /\ \A i \in Events : i # e => pc'[i] = pc[i]
  BY <1>1 DEF Throttle, LoopIdle
<1>2. ASSUME NEW o \in Events, Ignore(o) \/ CheckDuplicate(o) \/ Enqueue(o)
      PROVE  FALSE
  BY <1>2 DEF Ignore, CheckDuplicate, Enqueue, After
<1>3. CASE (\E id \in Ids : Forget(id)) \/ (\E s \in Sessions : GapOver(s)) \/ List
  BY <1>3 DEF Forget, GapOver, List
<1>4. CASE Take
  <2>1. Head(queue) = queue[1] /\ 1 \in DOMAIN queue
    BY <1>4 DEF Take
  <2>2. Head(queue) \in Events /\ pc[Head(queue)] = "queued"
    BY <2>1
  <2> QED
    BY <1>4, <2>2 DEF Take
<1>5. CASE Finish
  BY <1>5 DEF Finish
<1>6. CASE \E ep \in Endpoints : Send(ep) \/ GiveUp(ep)
  BY <1>6 DEF Send, Served, GiveUp
<1>7. CASE \E ep \in Endpoints, ok \in BOOLEAN :
             Unsubscribe(ep, ok) \/ \E filter \in Filters : Subscribe(ep, filter, ok)
  BY <1>7 DEF Unsubscribe, Subscribe, DispatcherIdle
<1>8. CASE Restart
  BY <1>8 DEF Restart
<1>9. CASE UNCHANGED vars
  BY <1>9 DEF vars
<1> QED
  BY <1>1, <1>2, <1>3, <1>4, <1>5, <1>6, <1>7, <1>8, <1>9 DEF Next

Deltas == {e \in Events : ~Final(e) /\ pc[e] \in LetThrough}

\* Every delta that was let through has paced its session, and the second of a
\* session did not find it paced.
PaceInv ==
  /\ \A e \in Deltas : Session(e) \in paced \cup relaxed
  /\ \A e, o \in Deltas : e # o /\ Session(e) = Session(o) => Session(e) \in relaxed

\* Two deltas of a session are let through only when the gap has passed in
\* between, whatever goroutines publish at once.
THEOREM DeltasPacedAlways == Spec => []DeltasPaced
<1>1. Init => PaceInv
  BY DEF Init, PaceInv, Deltas, LetThrough
<1>2. PaceInv /\ TypeOK /\ [Next]_vars => PaceInv'
  <2> SUFFICES ASSUME PaceInv, TypeOK, [Next]_vars
               PROVE  PaceInv'
    OBVIOUS
  <2>1. /\ Deltas \subseteq Events
        /\ \A e \in Deltas' : e \in Events /\ ~Final(e) /\ pc'[e] \in LetThrough
        /\ \A e \in Events : ~Final(e) /\ pc[e] \in LetThrough => e \in Deltas
    BY DEF Deltas
  <2>2. /\ paced \cup relaxed \subseteq paced' \cup relaxed'
        /\ relaxed \subseteq relaxed'
    BY Moves
  <2>3. ASSUME NEW e \in Deltas', e \notin Deltas
        PROVE  /\ Session(e) \notin paced /\ Session(e) \in paced' /\ relaxed' = relaxed
               /\ \A o \in Deltas' : o # e => o \in Deltas
    <3>1. e \in Events /\ ~Final(e) /\ pc[e] \notin LetThrough /\ pc'[e] \in LetThrough
      BY <2>1, <2>3
    <3>2. /\ Session(e) \notin paced /\ paced' = paced \cup {Session(e)}
          /\ relaxed' = relaxed
          /\ \A o \in Events : o # e => pc'[o] = pc[o]
      BY <3>1, Passes
    <3> QED
      BY <2>1, <3>2
  <2>4. ASSUME NEW e \in Deltas'
        PROVE  Session(e) \in paced' \cup relaxed'
    BY <2>2, <2>3 DEF PaceInv
  <2>5. ASSUME NEW e \in Deltas', NEW o \in Deltas', e # o, Session(e) = Session(o)
        PROVE  Session(e) \in relaxed'
    <3>1. CASE e \in Deltas /\ o \in Deltas
      BY <3>1, <2>5, <2>2 DEF PaceInv
    <3>2. CASE e \notin Deltas
      <4>1. o \in Deltas /\ Session(o) \in paced \cup relaxed
        BY <3>2, <2>3, <2>5 DEF PaceInv
      <4> QED
        BY <3>2, <4>1, <2>3, <2>5
    <3>3. CASE o \notin Deltas
      <4>1. e \in Deltas /\ Session(e) \in paced \cup relaxed
        BY <3>3, <2>3, <2>5 DEF PaceInv
      <4> QED
        BY <3>3, <4>1, <2>3, <2>5
    <3> QED
      BY <3>1, <3>2, <3>3
  <2> QED
    BY <2>4, <2>5 DEF PaceInv
<1>3. PaceInv => DeltasPaced
  BY DEF PaceInv, DeltasPaced, Passed, Deltas
<1> QED
  BY <1>1, <1>2, <1>3, TypeCorrect, PTL DEF Spec
-----------------------------------------------------------------------------
\* Only isDuplicate makes an event a duplicate, of an id it finds in seen; and
\* an id comes into seen with an event that enters.
LEMMA Refusal ==
  ASSUME TypeOK, [Next]_vars
  PROVE  /\ \A e \in Events : pc'[e] = "duplicate" =>
              pc[e] = "duplicate" \/ (e \notin Entered /\ Id(e) \in seen)
         /\ \A id \in seen' : id \in seen \/ \E e \in Entered' : Id(e) = id
         /\ \A e \in Events : Final(e) /\ pc[e] \notin {"throttle", "throttled"}
              => pc'[e] \notin {"throttle", "throttled"}
<1> USE DEF TypeOK, Steps, Entered, LetThrough, Goto, history, dispatchVars
<1> DEFINE Goal == /\ \A e \in Events : pc'[e] = "duplicate" =>
                        pc[e] = "duplicate" \/ (e \notin Entered /\ Id(e) \in seen)
                   /\ \A id \in seen' : id \in seen \/ \E e \in Entered' : Id(e) = id
                   /\ \A e \in Events : Final(e) /\ pc[e] \notin {"throttle", "throttled"}
                        => pc'[e] \notin {"throttle", "throttled"}
<1>1. ASSUME NEW o \in Events, CheckDuplicate(o)
      PROVE  Goal
  <2>1. CASE Id(o) \in seen
    BY <1>1, <2>1 DEF CheckDuplicate
  <2>2. CASE Id(o) \notin seen
    BY <1>1, <2>2 DEF CheckDuplicate, After
  <2> QED
    BY <2>1, <2>2
<1>2. ASSUME NEW o \in Events, Ignore(o) \/ Throttle(o) \/ Enqueue(o)
      PROVE  Goal
  BY <1>2 DEF Ignore, Throttle, Enqueue
<1>3. CASE (\E id \in Ids : Forget(id)) \/ (\E s \in Sessions : GapOver(s)) \/ List
  BY <1>3 DEF Forget, GapOver, List
<1>4. CASE Take
  BY <1>4 DEF Take
<1>5. CASE Finish
  BY <1>5 DEF Finish
<1>6. CASE \E ep \in Endpoints : Send(ep) \/ GiveUp(ep)
  BY <1>6 DEF Send, Served, GiveUp
<1>7. CASE \E ep \in Endpoints, ok \in BOOLEAN :
             Unsubscribe(ep, ok) \/ \E filter \in Filters : Subscribe(ep, filter, ok)
  BY <1>7 DEF Unsubscribe, Subscribe, DispatcherIdle
<1>8. CASE Restart
  BY <1>8 DEF Restart
<1>9. CASE UNCHANGED vars
  BY <1>9 DEF vars
<1> QED
  BY <1>1, <1>2, <1>3, <1>4, <1>5, <1>6, <1>7, <1>8, <1>9 DEF Next

\* Every id in seen was entered by an event, and so was that of a duplicate, by
\* another one.
FinalInv ==
  /\ \A e \in Events : Final(e) => pc[e] \notin {"throttle", "throttled"}
  /\ \A id \in seen : \E e \in Entered : Id(e) = id
  /\ \A e \in Events : pc[e] = "duplicate" => \E o \in Entered : o # e /\ Id(o) = Id(e)

\* A final message with text is announced, or shares its id with an event that was,
\* or that the process lost; a final message that may share its id with a delta
\* that was held back for the pace is left out.
THEOREM FinalsAnnouncedAlways == Spec => []FinalsAnnounced
<1>1. Init => FinalInv
  BY DEF Init, FinalInv
<1>2. FinalInv /\ TypeOK /\ [Next]_vars => FinalInv'
  <2> SUFFICES ASSUME FinalInv, TypeOK, [Next]_vars
               PROVE  FinalInv'
    OBVIOUS
  <2>1. Entered \subseteq Entered'
    BY Moves
  <2>2. ASSUME NEW e \in Events, pc'[e] = "duplicate"
        PROVE  \E o \in Entered' : o # e /\ Id(o) = Id(e)
    <3>1. CASE pc[e] = "duplicate"
      BY <3>1, <2>1 DEF FinalInv
    <3>2. CASE e \notin Entered /\ Id(e) \in seen
      BY <3>2, <2>1 DEF FinalInv
    <3> QED
      BY <2>2, <3>1, <3>2, Refusal
  <2>3. \A id \in seen' : \E e \in Entered' : Id(e) = id
    BY <2>1, Refusal DEF FinalInv
  <2>4. \A e \in Events : Final(e) => pc'[e] \notin {"throttle", "throttled"}
    BY Refusal DEF FinalInv
  <2>5. \A e \in Events : Final(e)' <=> Final(e)
    BY DEF Final
  <2>6. \A e \in Events : Id(e)' = Id(e)
    BY DEF Id, Final
  <2> QED
    BY <2>2, <2>3, <2>4, <2>5, <2>6 DEF FinalInv
<1>3. FinalInv => FinalsAnnounced
  BY DEF FinalInv, FinalsAnnounced, HeldBack, Entered
<1> QED
  BY <1>1, <1>2, <1>3, TypeCorrect, PTL DEF Spec
-----------------------------------------------------------------------------
\* What the last request for an endpoint wrote stays true, through failed writes
\* and restarts, until its push service gives it up.
THEOREM SubscriptionKeptAlways == Spec => []SubscriptionKept
<1>1. Init => SubscriptionKept
  BY DEF Init, SubscriptionKept
<1>2. SubscriptionKept /\ TypeOK /\ [Next]_vars => SubscriptionKept'
  <2> SUFFICES ASSUME SubscriptionKept, TypeOK, [Next]_vars
               PROVE  SubscriptionKept'
    OBVIOUS
  <2> USE DEF SubscriptionKept, TypeOK, history, dispatchVars
  <2>1. ASSUME NEW e \in Events, Ignore(e) \/ CheckDuplicate(e) \/ Throttle(e) \/ Enqueue(e)
        PROVE  SubscriptionKept'
    BY <2>1 DEF Ignore, CheckDuplicate, Throttle, Enqueue, LoopIdle
  <2>2. CASE (\E id \in Ids : Forget(id)) \/ (\E s \in Sessions : GapOver(s))
    BY <2>2 DEF Forget, GapOver
  <2>3. CASE Take \/ List \/ Finish
    BY <2>3 DEF Take, List, Finish
  <2>4. ASSUME NEW ep \in Endpoints, NEW ok \in BOOLEAN, Unsubscribe(ep, ok)
        PROVE  SubscriptionKept'
    <3>1. CASE Store!RemoveByEndpoint(ep, ok) /\ Tell(ep, IF ok THEN NoSub ELSE Unknown)
      BY <2>4, <3>1 DEF Unsubscribe, DispatcherIdle, Tell, Store!RemoveByEndpoint, Store!Persist
    <3>2. CASE Store!RemoveNothing(ep) /\ UNCHANGED want
      BY <2>4, <3>2 DEF Unsubscribe, DispatcherIdle, Store!RemoveNothing
    <3> QED
      BY <2>4, <3>1, <3>2 DEF Unsubscribe
  <2>5. ASSUME NEW ep \in Endpoints, NEW filter \in Filters, NEW ok \in BOOLEAN,
               Subscribe(ep, filter, ok)
        PROVE  SubscriptionKept'
    BY <2>5 DEF Subscribe, DispatcherIdle, Tell, Store!Upsert, Store!Persist
  <2>6. ASSUME NEW ep \in Endpoints, Send(ep)
        PROVE  SubscriptionKept'
    <3>1. CASE ep \in gone /\ \E ok \in BOOLEAN : Store!RemoveByEndpoint(ep, ok)
      BY <2>6, <3>1 DEF Send, Served, Store!RemoveByEndpoint, Store!Persist
    <3>2. CASE UNCHANGED storeVars
      BY <2>6, <3>2 DEF Send, Served
    <3> QED
      BY <2>6, <3>1, <3>2 DEF Send, Store!RemoveNothing
  <2>7. ASSUME NEW ep \in Endpoints, GiveUp(ep)
        PROVE  SubscriptionKept'
    BY <2>7 DEF GiveUp
  <2>8. CASE Restart
    BY <2>8 DEF Restart, Store!Load
  <2>9. CASE UNCHANGED vars
    BY <2>9 DEF vars
  <2> QED
    BY <2>1, <2>2, <2>3, <2>4, <2>5, <2>6, <2>7, <2>8, <2>9 DEF Next
<1> QED
  BY <1>1, <1>2, TypeCorrect, PTL DEF Spec
-----------------------------------------------------------------------------
\* Every step of the composition is a step of the subscription store or leaves it
\* alone: the loop removes a subscription, and the handlers save one, through the
\* store's operations only.
LEMMA StoreStep == [Next]_vars => [Store!Next]_(Store!storeVars)
<1> SUFFICES ASSUME [Next]_vars
             PROVE  Store!Next \/ UNCHANGED storeVars
  OBVIOUS
<1>1. ASSUME NEW e \in Events, Ignore(e) \/ CheckDuplicate(e) \/ Throttle(e) \/ Enqueue(e)
      PROVE  UNCHANGED storeVars
  BY <1>1 DEF Ignore, CheckDuplicate, Throttle, Enqueue, LoopIdle
<1>2. CASE \/ \E id \in Ids : Forget(id)
           \/ \E s \in Sessions : GapOver(s)
           \/ Take \/ List \/ Finish
           \/ \E ep \in Endpoints : GiveUp(ep)
  BY <1>2 DEF Forget, GapOver, Take, List, Finish, GiveUp
<1>3. ASSUME NEW ep \in Endpoints, NEW ok \in BOOLEAN, NEW filter \in Filters, Subscribe(ep, filter, ok)
      PROVE  Store!Next
  BY <1>3 DEF Subscribe, Store!Next
<1>4. ASSUME NEW ep \in Endpoints, NEW ok \in BOOLEAN, Unsubscribe(ep, ok)
      PROVE  Store!Next \/ UNCHANGED storeVars
  BY <1>4 DEF Unsubscribe, Store!RemoveNothing, Store!Next
<1>5. ASSUME NEW ep \in Endpoints, Send(ep)
      PROVE  Store!Next \/ UNCHANGED storeVars
  BY <1>5 DEF Send, Store!RemoveNothing, Store!Next
<1>6. CASE Restart
  BY <1>6 DEF Restart, Store!Next
<1>7. CASE UNCHANGED vars
  BY <1>7 DEF vars
<1> QED
  BY <1>1, <1>2, <1>3, <1>4, <1>5, <1>6, <1>7 DEF Next

\* The composition implements its store.
THEOREM ImplementsStore == Spec => Store!Spec
<1>1. Init => Store!Init
  BY DEF Init
<1> QED
  BY <1>1, StoreStep, PTL DEF Spec, Store!Spec
=============================================================================
