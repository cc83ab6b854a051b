------------------------- MODULE SessionStreamProofs -------------------------
(***************************************************************************)
(* Theorems about SessionStream: what holds for any number of appenders,   *)
(* and that with one appender the stream implements EventFeed.             *)
(***************************************************************************)
EXTENDS SessionStream, Consecutive, FiniteSetTheorems, TLAPS

-----------------------------------------------------------------------------
(***************************************************************************)
(* Types.  The log holds the events 1 to nextSeq - 1, in order.            *)
(***************************************************************************)

TypeInv == TypeOK /\ Follows(log, 0, nextSeq - 1)

LEMMA UpToType ==
  ASSUME TypeInv, NEW fromSeq \in 0..MaxSeq
  PROVE  UpTo(fromSeq) \in 0..(nextSeq - 1)
<1>1. /\ Len(log) = nextSeq - 1 /\ nextSeq - 1 \in Nat
      /\ \A i \in 1..Len(log) : log[i] = i
  BY DEF TypeInv, TypeOK, Follows
<1>2. \E k \in 0..Len(log) : \A i \in 1..Len(log) : log[i] > fromSeq <=> i > k
  <2>1. CASE fromSeq <= Len(log)
    <3>1. fromSeq \in 0..Len(log) /\ \A i \in 1..Len(log) : log[i] > fromSeq <=> i > fromSeq
      BY <1>1, <2>1
    <3> QED
      BY <3>1
  <2>2. CASE fromSeq > Len(log)
    <3>1. Len(log) \in 0..Len(log) /\ \A i \in 1..Len(log) : log[i] > fromSeq <=> i > Len(log)
      BY <1>1, <2>2
    <3> QED
      BY <3>1
  <2> QED
    BY <1>1, <2>1, <2>2, StreamAssumption
<1> QED
  BY <1>1, <1>2 DEF UpTo

\* The appender's next target and the rest are those it was given.
LEMMA NextTargetType ==
  ASSUME TypeOK, NEW a \in Appenders, NEW rest \in SUBSET Conns, NextTarget(a, rest)
  PROVE  /\ cur' \in [Appenders -> Conns \cup {NoConn}] /\ todo' \in [Appenders -> SUBSET Conns]
         /\ cur'[a] = NoConn => rest = {} /\ todo'[a] = {}
         /\ cur'[a] # NoConn => cur'[a] \in rest /\ todo'[a] = rest \ {cur'[a]}
         /\ \A b \in Appenders : b # a => cur'[b] = cur[b] /\ todo'[b] = todo[b]
<1>1. CASE rest = {} /\ cur' = [cur EXCEPT ![a] = NoConn] /\ todo' = [todo EXCEPT ![a] = {}]
  BY <1>1 DEF TypeOK
<1>2. ASSUME NEW c \in rest, cur' = [cur EXCEPT ![a] = c], todo' = [todo EXCEPT ![a] = rest \ {c}]
      PROVE  /\ cur' \in [Appenders -> Conns \cup {NoConn}] /\ todo' \in [Appenders -> SUBSET Conns]
             /\ cur'[a] = c /\ c # NoConn /\ todo'[a] = rest \ {c}
             /\ \A b \in Appenders : b # a => cur'[b] = cur[b] /\ todo'[b] = todo[b]
  BY <1>2, StreamAssumption DEF TypeOK
<1> QED
  BY <1>1, <1>2 DEF NextTarget

\* Who carries to a connection after an appender has chosen its next target.
LEMMA NextTargetCarries ==
  ASSUME TypeOK, NEW a \in Appenders, NEW rest \in SUBSET Conns, NextTarget(a, rest)
  PROVE  /\ cur'[a] = NoConn => todo'[a] = {}
         /\ cur'[a] \notin todo'[a]
         /\ \A c \in Conns : cur'[a] = c \/ c \in todo'[a] <=> c \in rest
         /\ \A b \in Appenders : b # a => cur'[b] = cur[b] /\ todo'[b] = todo[b]
<1>1. CASE rest = {} /\ cur' = [cur EXCEPT ![a] = NoConn] /\ todo' = [todo EXCEPT ![a] = {}]
  BY <1>1, StreamAssumption DEF TypeOK
<1>2. ASSUME NEW c \in rest, cur' = [cur EXCEPT ![a] = c], todo' = [todo EXCEPT ![a] = rest \ {c}]
      PROVE  /\ cur'[a] = c /\ c # NoConn /\ todo'[a] = rest \ {c}
             /\ \A b \in Appenders : b # a => cur'[b] = cur[b] /\ todo'[b] = todo[b]
  BY <1>2, StreamAssumption DEF TypeOK
<1> QED
  BY <1>1, <1>2 DEF NextTarget

\* A subscriber is given the events after some k, and all of them.
LEMMA RegisterSends ==
  ASSUME TypeInv, NEW c \in Conns, NEW fromSeq \in 0..MaxSeq, Register(c, fromSeq), live
  PROVE  \E k \in 0..(nextSeq - 1), s \in Seq(Nat) :
           /\ Follows(s, k, nextSeq - 1 - k)
           /\ sending' = [sending EXCEPT ![c] = s]
           /\ start' = [start EXCEPT ![c] = k]
<1>1. UpTo(fromSeq) \in 0..(nextSeq - 1) /\ nextSeq - 1 \in Nat
  BY UpToType DEF TypeInv, TypeOK
<1>2. Follows(SubSeq(log, UpTo(fromSeq) + 1, Len(log)), UpTo(fromSeq), nextSeq - 1 - UpTo(fromSeq))
  BY <1>1, FollowsSubSeq DEF TypeInv
<1>3. SubSeq(log, UpTo(fromSeq) + 1, Len(log)) \in Seq(Nat)
  BY <1>2 DEF Follows
<1>4. /\ sending' = [sending EXCEPT ![c] = SubSeq(log, UpTo(fromSeq) + 1, Len(log))]
      /\ start' = [start EXCEPT ![c] = UpTo(fromSeq)]
  BY DEF Register
<1> QED
  BY <1>1, <1>2, <1>3, <1>4, Zenon

LEMMA TypeInvAlways == Spec => []TypeInv
<1>1. Init => TypeInv
  <2> SUFFICES ASSUME Init
               PROVE  TypeInv
    OBVIOUS
  <2>1. PICK n \in 0..MaxSeq : log = [i \in 1..n |-> i] /\ nextSeq = n + 1
    BY DEF Init
  <2>2. n \in Nat /\ log \in [1..n -> Nat]
    BY <2>1, StreamAssumption
  <2>3. log \in Seq(Nat) /\ Len(log) = n
    BY <2>1, <2>2
  <2> QED
    <3>1. Follows(log, 0, nextSeq - 1) /\ nextSeq \in Nat \ {0}
      BY <2>1, <2>2, <2>3 DEF Follows
    <3>2. <<>> \in Seq(Nat)
      BY EmptySeq
    <3> QED
      BY <2>3, <3>1, <3>2 DEF Init, TypeInv, TypeOK, Phases
<1>2. TypeInv /\ [Next]_vars => TypeInv'
  <2> SUFFICES ASSUME TypeInv, [Next]_vars
               PROVE  TypeInv'
    OBVIOUS
  <2>0. TypeOK
    BY DEF TypeInv
  <2>1. ASSUME NEW a \in Appenders, AppendEvent(a)
        PROVE  TypeInv'
    <3>1. log' = Append(log, nextSeq) /\ nextSeq' = nextSeq + 1 /\ nextSeq - 1 \in Nat
      BY <2>0, <2>1 DEF AppendEvent, TypeOK
    <3>2. Follows(log', 0, nextSeq' - 1)
      BY <2>0, <3>1, FollowsAppend DEF TypeInv, TypeOK
    <3>3. cur' \in [Appenders -> Conns \cup {NoConn}] /\ todo' \in [Appenders -> SUBSET Conns]
      <4>1. {c \in Conns : registered[c] /\ ready[c]} \in SUBSET Conns
        OBVIOUS
      <4> QED
        BY <2>0, <2>1, <4>1, NextTargetType DEF AppendEvent
    <3>4. \A c \in Conns : Append(backlog[c], nextSeq) \in Seq(Nat)
      BY <2>0, AppendProperties DEF TypeOK
    <3>5. backlog' \in [Conns -> Seq(Nat)]
      BY <2>0, <2>1, <3>4 DEF AppendEvent, TypeOK
    <3>6. log' \in Seq(Nat) /\ carried' \in [Appenders -> Nat]
      BY <2>0, <2>1, <3>2 DEF AppendEvent, TypeOK, Follows
    <3> QED
      BY <2>0, <2>1, <3>1, <3>2, <3>3, <3>5, <3>6
      DEF AppendEvent, TypeInv, TypeOK, chanVars, connVars
  <2>2. ASSUME NEW a \in Appenders, Send(a)
        PROVE  TypeInv'
    <3>1. cur' \in [Appenders -> Conns \cup {NoConn}] /\ todo' \in [Appenders -> SUBSET Conns]
      <4>1. todo[a] \in SUBSET Conns
        BY <2>0 DEF TypeOK
      <4> QED
        BY <2>0, <2>2, <4>1, NextTargetType DEF Send
    <3>2. buf' \in [Conns -> Seq(Nat)]
      <4>1. cur[a] \in Conns /\ buf[cur[a]] \in Seq(Nat) /\ carried[a] \in Nat
        BY <2>0, <2>2 DEF Send, TypeOK
      <4>2. Append(buf[cur[a]], carried[a]) \in Seq(Nat)
        BY <4>1, AppendProperties
      <4> QED
        BY <2>0, <2>2, <4>1, <4>2 DEF Send, TypeOK
    <3> QED
      BY <2>0, <2>2, <3>1, <3>2 DEF Send, TypeInv, TypeOK, logVars, subVars, connVars
  <2>3. ASSUME NEW c \in Conns, CheckLoaded(c) \/ SendOnClosed(c) \/ ReadClosed(c) \/ Disconnect(c)
        PROVE  TypeInv'
    BY <2>0, <2>3 DEF CheckLoaded, SendOnClosed, ReadClosed, Disconnect, TypeInv, TypeOK, Phases,
                      logVars, appVars, chanVars, subVars
  <2>4. ASSUME NEW c \in Conns, NEW fromSeq \in 0..MaxSeq, Register(c, fromSeq)
        PROVE  TypeInv'
    <3>1. ASSUME live
          PROVE  sending' \in [Conns -> Seq(Nat)] /\ start' \in [Conns -> Nat]
      <4>1. PICK k \in 0..(nextSeq - 1), s \in Seq(Nat) :
              sending' = [sending EXCEPT ![c] = s] /\ start' = [start EXCEPT ![c] = k]
        BY <2>4, <3>1, RegisterSends
      <4> QED
        BY <2>0, <4>1 DEF TypeOK
    <3>2. sending' \in [Conns -> Seq(Nat)] /\ start' \in [Conns -> Nat]
      BY <2>0, <2>4, <3>1 DEF Register, TypeOK
    <3>3. mu' \in {"free", "leaked"} /\ pc' \in [Conns -> Phases] /\ registered' \in [Conns -> BOOLEAN]
      BY <2>0, <2>4 DEF Register, TypeOK, Phases
    <3> QED
      BY <2>0, <2>4, <3>2, <3>3 DEF Register, TypeInv, TypeOK, logVars, appVars, chanVars
  <2>5. ASSUME NEW c \in Conns, SendPending(c)
        PROVE  TypeInv'
    <3>0. sending[c] \in Seq(Nat) /\ sending[c] # <<>> /\ buf[c] \in Seq(Nat)
      BY <2>0, <2>5 DEF SendPending, TypeOK
    <3>1. Head(sending[c]) \in Nat /\ Tail(sending[c]) \in Seq(Nat)
      BY <3>0, HeadTailProperties
    <3>2. Append(buf[c], Head(sending[c])) \in Seq(Nat)
      BY <3>0, <3>1, AppendProperties
    <3> QED
      BY <2>0, <2>5, <3>1, <3>2
      DEF SendPending, TypeInv, TypeOK, logVars, appVars, subVars
  <2>6. ASSUME NEW c \in Conns, Flush(c)
        PROVE  TypeInv'
    BY <2>0, <2>6, EmptySeq DEF Flush, TypeInv, TypeOK, Phases, logVars, appVars, chanVars
  <2>7. ASSUME NEW c \in Conns, Read(c)
        PROVE  TypeInv'
    <3>0. buf[c] \in Seq(Nat) /\ buf[c] # <<>> /\ received[c] \in Seq(Nat)
      BY <2>0, <2>7 DEF Read, TypeOK
    <3>1. Head(buf[c]) \in Nat /\ Tail(buf[c]) \in Seq(Nat)
      BY <3>0, HeadTailProperties
    <3>2. Append(received[c], Head(buf[c])) \in Seq(Nat)
      BY <3>0, <3>1, AppendProperties
    <3> QED
      BY <2>0, <2>7, <3>1, <3>2
      DEF Read, TypeInv, TypeOK, logVars, appVars, subVars
  <2>8. ASSUME DeleteSession
        PROVE  TypeInv'
    BY <2>0, <2>8 DEF DeleteSession, TypeInv, TypeOK, logVars, appVars, connVars
  <2>9. CASE UNCHANGED vars
    BY <2>0, <2>9 DEF vars, TypeInv, TypeOK, logVars, appVars, chanVars, subVars, connVars
  <2> QED
    BY <2>1, <2>2, <2>3, <2>4, <2>5, <2>6, <2>7, <2>8, <2>9 DEF Next, Handler
<1> QED
  BY <1>1, <1>2, PTL DEF Spec

\* Type correctness of the event log, the channels and the connections.
THEOREM TypeCorrect == Spec => []TypeOK
<1>1. TypeInv => TypeOK
  BY DEF TypeInv
<1> QED
  BY <1>1, TypeInvAlways, PTL
-----------------------------------------------------------------------------
(***************************************************************************)
(* Where connections and appenders stand: a connection holds nothing until *)
(* it is registered, its channel is open while it is, it is ready once     *)
(* Subscribe has sent everything, and appenders turn to ready ones only.   *)
(***************************************************************************)

Unused(c) ==
  /\ ~registered[c] /\ ~ready[c] /\ ~closed[c]
  /\ buf[c] = <<>> /\ sending[c] = <<>> /\ backlog[c] = <<>> /\ received[c] = <<>>

ConnInv ==
  \A c \in Conns :
    /\ pc[c] \in {"new", "checked"} => Unused(c)
    /\ registered[c] => ~closed[c] /\ pc[c] \in {"sending", "streaming"}
    /\ ready[c] => pc[c] \in {"streaming", "ended"} /\ sending[c] = <<>> /\ backlog[c] = <<>>
    /\ pc[c] = "streaming" => ready[c]
    /\ start[c] <= nextSeq - 1

CarryInv ==
  \A a \in Appenders :
    /\ cur[a] = NoConn => todo[a] = {}
    /\ cur[a] \notin todo[a]
    /\ \A c \in Conns : cur[a] = c \/ c \in todo[a] => ready[c]

StandInv == ConnInv /\ CarryInv

LEMMA CarryStep ==
  ASSUME TypeOK, CarryInv, NEW a \in Appenders, NEW rest \in SUBSET Conns,
         NextTarget(a, rest), ready' = ready, \A c \in rest : ready'[c]
  PROVE  CarryInv'
<1>1. /\ cur'[a] = NoConn => todo'[a] = {}
      /\ cur'[a] \notin todo'[a]
      /\ \A c \in Conns : cur'[a] = c \/ c \in todo'[a] <=> c \in rest
      /\ \A b \in Appenders : b # a => cur'[b] = cur[b] /\ todo'[b] = todo[b]
  BY NextTargetCarries
<1> SUFFICES ASSUME NEW b \in Appenders
             PROVE  /\ cur'[b] = NoConn => todo'[b] = {}
                    /\ cur'[b] \notin todo'[b]
                    /\ \A c \in Conns : cur'[b] = c \/ c \in todo'[b] => ready'[c]
  BY DEF CarryInv
<1>2. CASE b = a
  BY <1>1, <1>2
<1>3. CASE b # a
  BY <1>1, <1>3 DEF CarryInv
<1> QED
  BY <1>2, <1>3

LEMMA StandInvAlways == Spec => []StandInv
<1>1. Init => StandInv
  <2> SUFFICES ASSUME Init
               PROVE  StandInv
    OBVIOUS
  <2>1. nextSeq \in Nat \ {0}
    BY StreamAssumption DEF Init
  <2> QED
    BY <2>1, StreamAssumption DEF Init, StandInv, ConnInv, CarryInv, Unused
<1>2. StandInv /\ TypeInv /\ [Next]_vars => StandInv'
  <2> SUFFICES ASSUME StandInv, TypeInv, [Next]_vars
               PROVE  StandInv'
    OBVIOUS
  <2>0. TypeOK /\ ConnInv /\ CarryInv
    BY DEF StandInv, TypeInv
  <2>1. ASSUME NEW a \in Appenders, AppendEvent(a)
        PROVE  StandInv'
    <3> DEFINE targets == {c \in Conns : registered[c] /\ ready[c]}
    <3>1. NextTarget(a, targets) /\ targets \in SUBSET Conns
      BY <2>1 DEF AppendEvent
    <3>2. ConnInv'
      BY <2>0, <2>1 DEF AppendEvent, ConnInv, Unused, TypeOK, chanVars, connVars
    <3>3. CarryInv'
      <4> HIDE DEF targets
      <4>1. \A c \in targets : ready'[c]
        BY <2>1 DEF AppendEvent, targets
      <4>2. ready' = ready
        BY <2>1 DEF AppendEvent
      <4> QED
        BY <2>0, <3>1, <4>1, <4>2, CarryStep
    <3> QED
      BY <3>2, <3>3 DEF StandInv
  <2>2. ASSUME NEW a \in Appenders, Send(a)
        PROVE  StandInv'
    <3>1. NextTarget(a, todo[a]) /\ todo[a] \in SUBSET Conns
      BY <2>0, <2>2 DEF Send, TypeOK
    <3>2. cur[a] \in Conns /\ ready[cur[a]]
      BY <2>0, <2>2 DEF Send, TypeOK, CarryInv
    <3>3. ConnInv'
      BY <2>0, <2>2, <3>2 DEF Send, ConnInv, Unused, TypeOK, logVars, subVars, connVars
    <3>4. CarryInv'
      <4>1. ready' = ready
        BY <2>2 DEF Send, subVars
      <4>2. \A c \in todo[a] : ready'[c]
        BY <2>0, <3>1, <4>1 DEF CarryInv
      <4> QED
        BY <2>0, <3>1, <4>1, <4>2, CarryStep
    <3> QED
      BY <3>3, <3>4 DEF StandInv
  <2>3. ASSUME NEW c \in Conns, CheckLoaded(c) \/ SendOnClosed(c) \/ ReadClosed(c)
        PROVE  StandInv'
    BY <2>0, <2>3 DEF CheckLoaded, SendOnClosed, ReadClosed, StandInv, ConnInv, CarryInv,
                      Unused, TypeOK, logVars, appVars, chanVars, subVars
  <2>4. ASSUME NEW c \in Conns, Disconnect(c)
        PROVE  StandInv'
    BY <2>0, <2>4 DEF Disconnect, StandInv, ConnInv, CarryInv,
                      Unused, TypeOK, logVars, appVars
  <2>5. ASSUME NEW c \in Conns, NEW fromSeq \in 0..MaxSeq, Register(c, fromSeq)
        PROVE  StandInv'
    <3>1. CASE live
      <4>1. PICK k \in 0..(nextSeq - 1), s \in Seq(Nat) :
              sending' = [sending EXCEPT ![c] = s] /\ start' = [start EXCEPT ![c] = k]
        BY <2>5, <3>1, RegisterSends
      <4>2. /\ pc' = [pc EXCEPT ![c] = "sending"] /\ registered' = [registered EXCEPT ![c] = TRUE]
            /\ pc[c] = "checked"
            /\ UNCHANGED <<nextSeq, cur, todo, buf, closed, ready, backlog, received>>
        BY <2>5, <3>1 DEF Register, logVars, appVars, chanVars
      <4>3. ConnInv'
        BY <2>0, <4>1, <4>2 DEF ConnInv, Unused, TypeOK
      <4> QED
        BY <2>0, <4>2, <4>3 DEF StandInv, CarryInv
    <3>2. CASE ~live
      <4>1. /\ pc' = [pc EXCEPT ![c] = "panicked"] /\ pc[c] = "checked"
            /\ UNCHANGED <<nextSeq, cur, todo, buf, closed, ready, registered, backlog,
                           sending, start, received>>
        BY <2>5, <3>2 DEF Register, logVars, appVars, chanVars
      <4>2. ConnInv'
        BY <2>0, <4>1 DEF ConnInv, Unused, TypeOK
      <4> QED
        BY <2>0, <4>1, <4>2 DEF StandInv, CarryInv
    <3> QED
      BY <3>1, <3>2
  <2>6. ASSUME NEW c \in Conns, SendPending(c) \/ Read(c)
        PROVE  StandInv'
    <3>1. /\ UNCHANGED <<nextSeq, cur, todo, closed, ready, registered, backlog, pc, start>>
          /\ pc[c] \in {"sending", "streaming"}
          /\ \A d \in Conns : d # c => /\ buf'[d] = buf[d] /\ sending'[d] = sending[d]
                                       /\ received'[d] = received[d]
          /\ pc[c] = "streaming" => sending'[c] = sending[c]
      BY <2>0, <2>6 DEF SendPending, Read, TypeOK, logVars, appVars, subVars
    <3>2. ready[c] => sending'[c] = <<>>
      BY <2>0, <2>6, <3>1 DEF ConnInv, SendPending
    <3>3. ConnInv'
      BY <2>0, <3>1, <3>2 DEF ConnInv, Unused
    <3> QED
      BY <2>0, <3>1, <3>3 DEF StandInv, CarryInv
  <2>7. ASSUME NEW c \in Conns, Flush(c)
        PROVE  StandInv'
    <3>0. /\ UNCHANGED <<nextSeq, cur, todo, buf, closed, registered, received, start>>
          /\ pc[c] = "sending" /\ sending[c] = <<>>
      BY <2>7 DEF Flush, logVars, appVars, chanVars
    <3>1. ~ready[c]
      BY <2>0, <3>0 DEF ConnInv
    <3>2. \A d \in Conns : ready[d] => ready'[d]
      BY <2>0, <2>7 DEF Flush, TypeOK
    <3>3. CarryInv'
      BY <2>0, <3>0, <3>2 DEF CarryInv
    <3>4. CASE ~registered[c] /\ pc' = [pc EXCEPT ![c] = "not_found"]
               /\ UNCHANGED <<ready, sending, backlog>>
      BY <2>0, <3>0, <3>1, <3>3, <3>4 DEF StandInv, ConnInv, Unused, TypeOK
    <3>5. CASE registered[c] /\ backlog[c] = <<>> /\ ready' = [ready EXCEPT ![c] = TRUE]
               /\ pc' = [pc EXCEPT ![c] = "streaming"] /\ UNCHANGED <<sending, backlog>>
      BY <2>0, <3>0, <3>1, <3>3, <3>5 DEF StandInv, ConnInv, Unused, TypeOK
    <3>6. CASE registered[c] /\ sending' = [sending EXCEPT ![c] = backlog[c]]
               /\ backlog' = [backlog EXCEPT ![c] = <<>>] /\ UNCHANGED <<ready, pc>>
      BY <2>0, <3>0, <3>1, <3>3, <3>6 DEF StandInv, ConnInv, Unused, TypeOK
    <3> QED
      BY <2>7, <3>4, <3>5, <3>6 DEF Flush
  <2>8. ASSUME DeleteSession
        PROVE  StandInv'
    BY <2>0, <2>8 DEF DeleteSession, StandInv, ConnInv, CarryInv,
                      Unused, TypeOK, logVars, appVars, connVars
  <2>9. CASE UNCHANGED vars
    BY <2>0, <2>9 DEF vars, StandInv, ConnInv, CarryInv,
                      Unused, logVars, appVars, chanVars, subVars, connVars
  <2> QED
    BY <2>1, <2>2, <2>3, <2>4, <2>5, <2>6, <2>7, <2>8, <2>9 DEF Next, Handler
<1> QED
  BY <1>1, <1>2, TypeInvAlways, PTL DEF Spec
-----------------------------------------------------------------------------
(***************************************************************************)
(* Before a subscriber is ready, its channel, the history still to send    *)
(* and its backlog are, one after the other, the events it asked for.      *)
(***************************************************************************)

InLine(c) ==
  /\ received[c] = <<>>
  /\ Follows(buf[c], start[c], Len(buf[c]))
  /\ Follows(sending[c], start[c] + Len(buf[c]), Len(sending[c]))
  /\ Follows(backlog[c], start[c] + Len(buf[c]) + Len(sending[c]), Len(backlog[c]))
  /\ start[c] + Len(buf[c]) + Len(sending[c]) + Len(backlog[c]) = nextSeq - 1

BacklogInv == \A c \in Conns : registered[c] /\ ~ready[c] => InLine(c)

LEMMA InLinePending ==
  ASSUME TypeInv, NEW c \in Conns, InLine(c)
  PROVE  Follows(Pending(c), start[c], nextSeq - 1 - start[c])
<1> DEFINE b == Len(buf[c])
           n == Len(sending[c])
           m == Len(backlog[c])
<1>1. /\ b \in Nat /\ n \in Nat /\ m \in Nat /\ start[c] \in Nat
      /\ b + n \in Nat /\ start[c] + (b + n) = start[c] + b + n
      /\ nextSeq \in Nat
  BY DEF TypeInv, TypeOK
<1>2. Follows(buf[c] \o sending[c], start[c], b + n)
  BY <1>1, FollowsConcat DEF InLine
<1>3. Follows(backlog[c], start[c] + (b + n), m)
  BY <1>1 DEF InLine
<1>4. Follows(Pending(c), start[c], (b + n) + m)
  <2>1. Pending(c) = (buf[c] \o sending[c]) \o backlog[c]
    BY DEF Pending
  <2>2. PICK q \in Nat : q = b + n
    BY <1>1
  <2>3. /\ start[c] \in Nat /\ m \in Nat
        /\ Follows(buf[c] \o sending[c], start[c], q) /\ Follows(backlog[c], start[c] + q, m)
    BY <1>1, <1>2, <1>3, <2>2
  <2>4. Follows((buf[c] \o sending[c]) \o backlog[c], start[c], q + m)
    BY <2>3, FollowsConcat
  <2> QED
    BY <2>1, <2>2, <2>4
<1>5. (b + n) + m = nextSeq - 1 - start[c]
  <2>1. start[c] + b + n + m = nextSeq - 1
    BY DEF InLine
  <2> HIDE DEF b, n, m
  <2> QED
    BY <1>1, <2>1
<1> QED
  BY <1>4, <1>5

LEMMA BacklogInvAlways == Spec => []BacklogInv
<1>1. Init => BacklogInv
  BY DEF Init, BacklogInv
<1>2. BacklogInv /\ StandInv /\ TypeInv /\ [Next]_vars => BacklogInv'
  <2> SUFFICES ASSUME BacklogInv, StandInv, TypeInv, [Next]_vars,
                      NEW d \in Conns, registered'[d], ~ready'[d]
               PROVE  InLine(d)'
    BY DEF BacklogInv
  <2>0. TypeOK /\ ConnInv /\ CarryInv
    BY DEF StandInv, TypeInv
  <2> DEFINE b == Len(buf[d])
             n == Len(sending[d])
             m == Len(backlog[d])
  <2>t. /\ b \in Nat /\ n \in Nat /\ m \in Nat /\ start[d] \in Nat /\ nextSeq \in Nat \ {0}
        /\ buf[d] \in Seq(Nat) /\ sending[d] \in Seq(Nat) /\ backlog[d] \in Seq(Nat)
    BY <2>0 DEF TypeOK
  <2>k. ASSUME registered'[d] = registered[d], ready'[d] = ready[d], nextSeq' = nextSeq,
               start'[d] = start[d], buf'[d] = buf[d], sending'[d] = sending[d],
               backlog'[d] = backlog[d], received'[d] = received[d]
        PROVE  InLine(d)'
    BY <2>k DEF BacklogInv, InLine
  <2>1. ASSUME NEW a \in Appenders, AppendEvent(a)
        PROVE  InLine(d)'
    <3>1. /\ nextSeq' = nextSeq + 1 /\ backlog'[d] = Append(backlog[d], nextSeq)
          /\ UNCHANGED <<registered, ready, buf, sending, start, received>>
      BY <2>1 DEF AppendEvent, chanVars, connVars
    <3>2. InLine(d)
      BY <3>1 DEF BacklogInv
    <3>3. nextSeq = start[d] + b + n + m + 1 /\ start[d] + b + n \in Nat
      BY <2>t, <3>2 DEF InLine
    <3>4. Follows(backlog'[d], start[d] + b + n, m + 1)
      BY <2>t, <3>1, <3>2, <3>3, FollowsAppend DEF InLine
    <3>5. Len(backlog'[d]) = m + 1
      BY <3>4 DEF Follows
    <3> QED
      BY <2>t, <3>1, <3>2, <3>3, <3>4, <3>5 DEF InLine
  <2>2. ASSUME NEW a \in Appenders, Send(a)
        PROVE  InLine(d)'
    <3>1. UNCHANGED <<nextSeq, registered, ready, backlog, sending, start, received>>
      BY <2>2 DEF Send, logVars, subVars, connVars
    <3>2. cur[a] # d
      BY <2>0, <3>1 DEF CarryInv
    <3>3. buf'[d] = buf[d]
      BY <2>0, <2>2, <3>2 DEF Send, TypeOK
    <3> QED
      BY <2>k, <3>1, <3>3
  <2>3. ASSUME NEW c \in Conns, CheckLoaded(c) \/ SendOnClosed(c) \/ ReadClosed(c)
        PROVE  InLine(d)'
    <3>1. UNCHANGED <<nextSeq, registered, ready, buf, backlog, sending, start, received>>
      BY <2>3 DEF CheckLoaded, SendOnClosed, ReadClosed, logVars, chanVars, subVars
    <3> QED
      BY <2>k, <3>1
  <2>4. ASSUME NEW c \in Conns, Disconnect(c)
        PROVE  InLine(d)'
    <3>1. UNCHANGED <<nextSeq, ready, buf, backlog, sending, start, received>>
      BY <2>4 DEF Disconnect, logVars
    <3>2. registered'[d] = registered[d]
      BY <2>0, <2>4 DEF Disconnect, TypeOK
    <3> QED
      BY <2>k, <3>1, <3>2
  <2>5. ASSUME NEW c \in Conns, NEW fromSeq \in 0..MaxSeq, Register(c, fromSeq)
        PROVE  InLine(d)'
    <3>0. UNCHANGED <<nextSeq, ready, buf, backlog, received>> /\ pc[c] = "checked"
      BY <2>5 DEF Register, logVars, chanVars
    <3>1. CASE live
      <4>1. PICK k \in 0..(nextSeq - 1), s \in Seq(Nat) :
              /\ Follows(s, k, nextSeq - 1 - k)
              /\ sending' = [sending EXCEPT ![c] = s]
              /\ start' = [start EXCEPT ![c] = k]
        BY <2>5, <3>1, RegisterSends
      <4>2. registered' = [registered EXCEPT ![c] = TRUE]
        BY <2>5, <3>1 DEF Register
      <4>3. CASE d # c
        BY <2>0, <2>k, <3>0, <4>1, <4>2, <4>3 DEF TypeOK
      <4>4. CASE d = c
        <5>1. buf'[d] = <<>> /\ backlog'[d] = <<>> /\ received'[d] = <<>>
          BY <2>0, <3>0, <4>4 DEF ConnInv, Unused
        <5>2. sending'[d] = s /\ start'[d] = k /\ Len(s) = nextSeq - 1 - k
          BY <2>0, <4>1, <4>4 DEF TypeOK, Follows
        <5>3. Len(<<>>) = 0 /\ k \in Nat /\ k + (nextSeq - 1 - k) = nextSeq - 1
          BY <2>t, EmptySeq
        <5>4. Follows(<<>>, k, 0) /\ Follows(<<>>, nextSeq - 1, 0)
          BY <2>t, <5>3, FollowsEmpty
        <5>5. Follows(buf'[d], start'[d], Len(buf'[d]))
          BY <5>1, <5>2, <5>3, <5>4
        <5>6. Follows(sending'[d], start'[d] + Len(buf'[d]), Len(sending'[d]))
          <6>1. start'[d] + Len(buf'[d]) = k
            BY <5>1, <5>2, <5>3
          <6> QED
            BY <4>1, <5>2, <6>1
        <5>7. start'[d] + Len(buf'[d]) + Len(sending'[d]) = nextSeq' - 1 /\ Len(backlog'[d]) = 0
          BY <2>t, <3>0, <5>1, <5>2, <5>3
        <5>8. Follows(backlog'[d], start'[d] + Len(buf'[d]) + Len(sending'[d]), Len(backlog'[d]))
          BY <3>0, <5>1, <5>4, <5>7
        <5>9. start'[d] + Len(buf'[d]) + Len(sending'[d]) + Len(backlog'[d]) = nextSeq' - 1
          BY <2>t, <3>0, <5>7
        <5> QED
          BY <5>1, <5>5, <5>6, <5>8, <5>9 DEF InLine
      <4> QED
        BY <4>3, <4>4
    <3>2. CASE ~live
      BY <2>5, <2>k, <3>0, <3>2 DEF Register
    <3> QED
      BY <3>1, <3>2
  <2>6. ASSUME NEW c \in Conns, SendPending(c)
        PROVE  InLine(d)'
    <3>0. /\ UNCHANGED <<nextSeq, ready, registered, backlog, start, received>>
          /\ sending[c] # <<>>
          /\ buf' = [buf EXCEPT ![c] = Append(@, Head(sending[c]))]
          /\ sending' = [sending EXCEPT ![c] = Tail(@)]
      BY <2>6 DEF SendPending, logVars, subVars
    <3>1. CASE d # c
      BY <2>0, <2>k, <3>0, <3>1 DEF TypeOK
    <3>2. CASE d = c
      <4>1. InLine(d)
        BY <3>0 DEF BacklogInv
      <4>2. buf'[d] = Append(buf[d], Head(sending[d])) /\ sending'[d] = Tail(sending[d])
        BY <2>0, <3>0, <3>2 DEF TypeOK
      <4>3. /\ Head(sending[d]) = start[d] + b + 1 /\ n \in Nat \ {0}
            /\ Follows(Tail(sending[d]), start[d] + b + 1, n - 1)
        <5>1. Follows(sending[d], start[d] + b, n) /\ sending[d] # <<>> /\ start[d] + b \in Nat
          BY <2>t, <3>0, <3>2, <4>1 DEF InLine
        <5> HIDE DEF b, n
        <5> QED
          BY <2>t, <5>1, FollowsTail
      <4>4. Follows(buf'[d], start[d], b + 1)
        BY <2>t, <4>1, <4>2, <4>3, FollowsAppend DEF InLine
      <4>5. Len(buf'[d]) = b + 1 /\ Len(sending'[d]) = n - 1
        BY <4>2, <4>3, <4>4 DEF Follows
      <4>6. start[d] + (b + 1) = start[d] + b + 1 /\ start[d] + b + 1 + (n - 1) = start[d] + b + n
        <5> HIDE DEF b, n
        <5> QED
          BY <2>t
      <4>7. Follows(sending'[d], start'[d] + Len(buf'[d]), Len(sending'[d]))
        BY <3>0, <4>2, <4>3, <4>5, <4>6
      <4>8. start'[d] + Len(buf'[d]) + Len(sending'[d]) = start[d] + b + n
        BY <3>0, <4>5, <4>6
      <4>9. Follows(backlog'[d], start'[d] + Len(buf'[d]) + Len(sending'[d]), Len(backlog'[d]))
        BY <3>0, <4>1, <4>8 DEF InLine
      <4> QED
        BY <3>0, <4>1, <4>4, <4>5, <4>7, <4>8, <4>9 DEF InLine
    <3> QED
      BY <3>1, <3>2
  <2>7. ASSUME NEW c \in Conns, Flush(c)
        PROVE  InLine(d)'
    <3>0. /\ UNCHANGED <<nextSeq, registered, buf, start, received>>
          /\ sending[c] = <<>>
      BY <2>7 DEF Flush, logVars, chanVars
    <3>1. CASE d # c
      BY <2>0, <2>7, <2>k, <3>0, <3>1 DEF Flush, TypeOK
    <3>2. CASE d = c
      <4>1. sending' = [sending EXCEPT ![c] = backlog[c]] /\ backlog' = [backlog EXCEPT ![c] = <<>>]
            /\ ready' = ready
        BY <2>0, <2>7, <3>0, <3>2 DEF Flush, TypeOK
      <4>2. sending'[d] = backlog[d] /\ backlog'[d] = <<>> /\ n = 0
        BY <2>0, <3>0, <3>2, <4>1, EmptySeq DEF TypeOK
      <4>3. InLine(d)
        BY <3>0, <4>1 DEF BacklogInv
      <4>4. Follows(<<>>, start[d] + b + m, 0) /\ Len(<<>>) = 0
        BY <2>t, FollowsEmpty, EmptySeq
      <4> QED
        BY <2>t, <3>0, <4>2, <4>3, <4>4 DEF InLine
    <3> QED
      BY <3>1, <3>2
  <2>8. ASSUME NEW c \in Conns, Read(c)
        PROVE  InLine(d)'
    <3>0. UNCHANGED <<nextSeq, registered, ready, backlog, sending, start>>
      BY <2>8 DEF Read, logVars, subVars
    <3>1. d # c
      BY <2>0, <2>8, <3>0 DEF Read, ConnInv
    <3> QED
      BY <2>0, <2>8, <2>k, <3>0, <3>1 DEF Read, TypeOK
  <2>9. CASE DeleteSession
    BY <2>9 DEF DeleteSession
  <2>10. CASE UNCHANGED vars
    BY <2>10, <2>k DEF vars, logVars, appVars, chanVars, subVars, connVars
  <2> QED
    BY <2>1, <2>2, <2>3, <2>4, <2>5, <2>6, <2>7, <2>8, <2>9, <2>10 DEF Next, Handler
<1> QED
  BY <1>1, <1>2, TypeInvAlways, StandInvAlways, PTL DEF Spec

\* While a subscriber is not ready, what it holds is the suffix of the log it
\* asked for, in order, whatever number of appenders there are.
THEOREM BacklogInOrderAlways == Spec => []BacklogInOrder
<1>1. BacklogInv /\ StandInv /\ TypeInv => BacklogInOrder
  <2> SUFFICES ASSUME BacklogInv, StandInv, TypeInv,
                      NEW c \in Conns, registered[c], ~ready[c]
               PROVE  /\ Carrying(c) = {}
                      /\ received[c] = <<>>
                      /\ Pending(c) = [i \in 1..(nextSeq - 1 - start[c]) |-> start[c] + i]
    BY DEF BacklogInOrder
  <2>1. InLine(c)
    BY DEF BacklogInv
  <2>2. Carrying(c) = {}
    BY DEF StandInv, CarryInv, Carrying
  <2>3. Pending(c) = [i \in 1..(nextSeq - 1 - start[c]) |-> start[c] + i]
    <3>1. Follows(Pending(c), start[c], nextSeq - 1 - start[c])
      BY <2>1, InLinePending
    <3>2. start[c] \in Nat /\ nextSeq - 1 - start[c] \in Nat
      BY DEF TypeInv, TypeOK, StandInv, ConnInv
    <3> QED
      BY <3>1, <3>2, FollowsValue
  <2> QED
    BY <2>1, <2>2, <2>3 DEF InLine
<1> QED
  BY <1>1, TypeInvAlways, StandInvAlways, BacklogInvAlways, PTL
-----------------------------------------------------------------------------
(***************************************************************************)
(* A ready subscriber: every event it asked for has been received, is in   *)
(* its channel, or is carried to it, and as many places hold one as there  *)
(* are events, so none is held twice.                                      *)
(***************************************************************************)

Carried(c) == {carried[a] : a \in Carrying(c)}

Counted(c) ==
  /\ Elems(received[c]) \cup Elems(buf[c]) \cup Carried(c) = (start[c] + 1)..(nextSeq - 1)
  /\ Len(received[c]) + Len(buf[c]) + Cardinality(Carrying(c)) = nextSeq - 1 - start[c]

CountInv == \A c \in Conns : registered[c] /\ ready[c] => Counted(c)

LEMMA CarryingFinite ==
  ASSUME NEW c \in Conns
  PROVE  IsFiniteSet(Carrying(c)) /\ Cardinality(Carrying(c)) \in Nat
<1>1. Carrying(c) \subseteq Appenders
  BY DEF Carrying
<1> QED
  BY <1>1, StreamAssumption, FS_Subset, FS_CardinalityType

\* An event published, sent, and read moves a count by one.
LEMMA CountSteps ==
  ASSUME NEW r \in Nat, NEW b \in Nat, NEW k \in Nat, NEW n \in Nat, NEW s \in Nat,
         r + b + k = n - 1 - s
  PROVE  /\ r + b + (k + 1) = (n + 1) - 1 - s
         /\ r + (b + 1) + (k - 1) = n - 1 - s
         /\ (r + 1) + (b - 1) + k = n - 1 - s
OBVIOUS

LEMMA CountInvAlways == Spec => []CountInv
<1>1. Init => CountInv
  BY DEF Init, CountInv
<1>2. CountInv /\ BacklogInv /\ StandInv /\ TypeInv /\ [Next]_vars => CountInv'
  <2> SUFFICES ASSUME CountInv, BacklogInv, StandInv, TypeInv, [Next]_vars,
                      NEW d \in Conns, registered'[d], ready'[d]
               PROVE  Counted(d)'
    BY DEF CountInv
  <2>0. TypeOK /\ ConnInv /\ CarryInv
    BY DEF StandInv, TypeInv
  <2> DEFINE r == Len(received[d])
             b == Len(buf[d])
             k == Cardinality(Carrying(d))
  <2>t. /\ start[d] \in Nat /\ nextSeq \in Nat \ {0} /\ start[d] <= nextSeq - 1
        /\ buf[d] \in Seq(Nat) /\ received[d] \in Seq(Nat)
        /\ Len(buf[d]) \in Nat /\ Len(received[d]) \in Nat
    BY <2>0 DEF TypeOK, ConnInv
  <2>f. IsFiniteSet(Carrying(d)) /\ Cardinality(Carrying(d)) \in Nat
    BY CarryingFinite
  <2>c. ASSUME UNCHANGED <<carried, cur, todo>>
        PROVE  Carrying(d)' = Carrying(d) /\ Carried(d)' = Carried(d)
    BY <2>c DEF Carrying, Carried
  <2>k. ASSUME registered'[d] = registered[d], ready'[d] = ready[d], nextSeq' = nextSeq,
               UNCHANGED <<carried, cur, todo>>,
               start'[d] = start[d], buf'[d] = buf[d], received'[d] = received[d]
        PROVE  Counted(d)'
    BY <2>k, <2>c DEF CountInv, Counted
  <2>1. ASSUME NEW a \in Appenders, AppendEvent(a)
        PROVE  Counted(d)'
    <3> DEFINE targets == {c \in Conns : registered[c] /\ ready[c]}
    <3>1. /\ nextSeq' = nextSeq + 1 /\ cur[a] = NoConn
          /\ carried' = [carried EXCEPT ![a] = nextSeq]
          /\ NextTarget(a, targets)
          /\ UNCHANGED <<registered, ready, buf, sending, start, received>>
      BY <2>1 DEF AppendEvent, chanVars, connVars
    <3>2. Counted(d)
      BY <3>1 DEF CountInv
    <3>3. a \notin Carrying(d)
      BY <2>0, <3>1, StreamAssumption DEF CarryInv, Carrying
    <3>4. d \in targets /\ targets \in SUBSET Conns
      BY <3>1
    <3>5. Carrying(d)' = Carrying(d) \cup {a}
      <4>1. /\ \A c \in Conns : cur'[a] = c \/ c \in todo'[a] <=> c \in targets
            /\ \A o \in Appenders : o # a => cur'[o] = cur[o] /\ todo'[o] = todo[o]
        <5> HIDE DEF targets
        <5> QED
          BY <2>0, <3>1, <3>4, NextTargetCarries
      <4>2. \A o \in Appenders : (cur'[o] = d \/ d \in todo'[o]) <=> (o = a \/ o \in Carrying(d))
        BY <3>4, <4>1 DEF Carrying
      <4> QED
        BY <4>2, <3>4 DEF Carrying
    <3>6. carried'[a] = nextSeq /\ \A o \in Carrying(d) : carried'[o] = carried[o]
      BY <2>0, <3>1, <3>3 DEF TypeOK, Carrying
    <3>7. Carried(d)' = Carried(d) \cup {nextSeq}
      <4>1. Carried(d)' = {carried'[o] : o \in Carrying(d) \cup {a}}
        BY <3>5 DEF Carried
      <4> QED
        BY <3>6, <4>1 DEF Carried
    <3>8. Cardinality(Carrying(d)') = Cardinality(Carrying(d)) + 1
      BY <2>f, <3>3, <3>5, FS_AddElement
    <3>9. (start[d] + 1)..(nextSeq' - 1) = (start[d] + 1)..(nextSeq - 1) \cup {nextSeq}
      BY <2>t, <3>1
    <3> QED
      <4>1. Elems(received[d]) \cup Elems(buf[d]) \cup Carried(d)' = (start[d] + 1)..(nextSeq' - 1)
        BY <3>2, <3>7, <3>9 DEF Counted
      <4>2. Len(received[d]) + Len(buf[d]) + Cardinality(Carrying(d)') = nextSeq' - 1 - start[d]
        <5>1. r + b + k = nextSeq - 1 - start[d]
          BY <3>2 DEF Counted
        <5>2. r \in Nat /\ b \in Nat /\ k \in Nat /\ nextSeq \in Nat /\ start[d] \in Nat
          BY <2>t, <2>f
        <5>3. nextSeq' = nextSeq + 1
          BY <3>1
        <5>4. r + b + (k + 1) = (nextSeq + 1) - 1 - start[d]
          <6> HIDE DEF r, b, k
          <6> QED
            BY <5>1, <5>2, CountSteps
        <5> QED
          BY <3>8, <5>3, <5>4
      <4> QED
        BY <3>1, <4>1, <4>2 DEF Counted
  <2>2. ASSUME NEW a \in Appenders, Send(a)
        PROVE  Counted(d)'
    <3>0. /\ UNCHANGED <<nextSeq, carried, registered, ready, start, received, closed>>
          /\ NextTarget(a, todo[a]) /\ todo[a] \in SUBSET Conns
          /\ cur[a] \in Conns /\ cur[a] \notin todo[a]
      BY <2>0, <2>2 DEF Send, logVars, subVars, connVars, CarryInv, TypeOK
    <3>1. Counted(d) /\ ~closed[d]
      BY <2>0, <3>0 DEF CountInv, ConnInv
    <3>2. /\ \A c \in Conns : cur'[a] = c \/ c \in todo'[a] <=> c \in todo[a]
          /\ \A o \in Appenders : o # a => cur'[o] = cur[o] /\ todo'[o] = todo[o]
      BY <2>0, <3>0, NextTargetCarries
    <3>3. CASE cur[a] # d
      <4>1. Carrying(d)' = Carrying(d)
        BY <3>2, <3>3 DEF Carrying
      <4>2. Carried(d)' = Carried(d)
        BY <3>0, <4>1 DEF Carried
      <4>3. buf'[d] = buf[d]
        BY <2>0, <2>2, <3>3 DEF Send, TypeOK
      <4> QED
        BY <3>0, <3>1, <4>1, <4>2, <4>3 DEF Counted
    <3>4. CASE cur[a] = d
      <4>1. a \in Carrying(d)
        BY <3>4 DEF Carrying
      <4>2. Carrying(d)' = Carrying(d) \ {a}
        BY <3>0, <3>2, <3>4 DEF Carrying
      <4>3. buf'[d] = Append(buf[d], carried[a]) /\ carried[a] \in Nat
        BY <2>0, <2>2, <3>1, <3>4 DEF Send, TypeOK
      <4>4. Elems(buf'[d]) = Elems(buf[d]) \cup {carried[a]} /\ Len(buf'[d]) = Len(buf[d]) + 1
        BY <2>t, <4>3, ElemsAppend, AppendProperties
      <4>5. Carried(d) = Carried(d)' \cup {carried[a]}
        BY <3>0, <4>1, <4>2 DEF Carried
      <4>6. Cardinality(Carrying(d)') = Cardinality(Carrying(d)) - 1
        BY <2>f, <4>1, <4>2, FS_RemoveElement
      <4>7. Elems(received[d]) \cup Elems(buf'[d]) \cup Carried(d)' = (start[d] + 1)..(nextSeq - 1)
        BY <3>1, <4>4, <4>5 DEF Counted
      <4>8. Len(received[d]) + Len(buf'[d]) + Cardinality(Carrying(d)') = nextSeq - 1 - start[d]
        <5>1. r + b + k = nextSeq - 1 - start[d]
          BY <3>1 DEF Counted
        <5>2. r \in Nat /\ b \in Nat /\ k \in Nat /\ nextSeq \in Nat /\ start[d] \in Nat
          BY <2>t, <2>f
        <5>3. Len(buf'[d]) = Len(buf[d]) + 1
          BY <4>4
        <5>4. r + (b + 1) + (k - 1) = nextSeq - 1 - start[d]
          <6> HIDE DEF r, b, k
          <6> QED
            BY <5>1, <5>2, CountSteps
        <5> QED
          BY <4>6, <5>3, <5>4
      <4> QED
        BY <3>0, <4>7, <4>8 DEF Counted
    <3> QED
      BY <3>3, <3>4
  <2>3. ASSUME NEW c \in Conns, CheckLoaded(c) \/ SendOnClosed(c) \/ ReadClosed(c)
        PROVE  Counted(d)'
    <3>1. UNCHANGED <<nextSeq, registered, ready, buf, start, received, carried, cur, todo>>
      BY <2>3 DEF CheckLoaded, SendOnClosed, ReadClosed, logVars, chanVars, subVars, appVars
    <3> QED
      BY <2>k, <3>1
  <2>4. ASSUME NEW c \in Conns, Disconnect(c)
        PROVE  Counted(d)'
    <3>1. UNCHANGED <<nextSeq, ready, buf, start, received, carried, cur, todo>>
      BY <2>4 DEF Disconnect, logVars, appVars
    <3>2. registered'[d] = registered[d]
      BY <2>0, <2>4 DEF Disconnect, TypeOK
    <3> QED
      BY <2>k, <3>1, <3>2
  <2>5. ASSUME NEW c \in Conns, NEW fromSeq \in 0..MaxSeq, Register(c, fromSeq)
        PROVE  Counted(d)'
    <3>0. UNCHANGED <<nextSeq, ready, buf, received, carried, cur, todo>> /\ pc[c] = "checked"
      BY <2>5 DEF Register, logVars, chanVars, appVars
    <3>1. d # c
      BY <2>0, <3>0 DEF ConnInv, Unused
    <3>2. registered'[d] = registered[d] /\ start'[d] = start[d]
      BY <2>0, <2>5, <3>1 DEF Register, TypeOK
    <3> QED
      BY <2>k, <3>0, <3>2
  <2>6. ASSUME NEW c \in Conns, SendPending(c)
        PROVE  Counted(d)'
    <3>0. UNCHANGED <<nextSeq, ready, registered, start, received, carried, cur, todo>>
      BY <2>6 DEF SendPending, logVars, subVars, appVars
    <3>1. d # c
      BY <2>0, <2>6, <3>0 DEF SendPending, ConnInv
    <3>2. buf'[d] = buf[d]
      BY <2>0, <2>6, <3>1 DEF SendPending, TypeOK
    <3> QED
      BY <2>k, <3>0, <3>2
  <2>7. ASSUME NEW c \in Conns, Flush(c)
        PROVE  Counted(d)'
    <3>0. /\ UNCHANGED <<nextSeq, registered, buf, start, received, carried, cur, todo>>
          /\ sending[c] = <<>>
      BY <2>7 DEF Flush, logVars, chanVars, appVars
    <3>1. CASE ready[d]
      BY <2>k, <3>0, <3>1
    <3>2. CASE ~ready[d]
      <4>1. d = c /\ backlog[d] = <<>>
        BY <2>0, <2>7, <3>2 DEF Flush, TypeOK
      <4>2. InLine(d)
        BY <3>0, <3>2 DEF BacklogInv
      <4>3. Len(<<>>) = 0
        BY EmptySeq
      <4>4. received[d] = <<>> /\ Len(buf[d]) = nextSeq - 1 - start[d]
            /\ Follows(buf[d], start[d], Len(buf[d]))
        BY <2>t, <3>0, <4>1, <4>2, <4>3 DEF InLine
      <4>5. Elems(buf[d]) = (start[d] + 1)..(nextSeq - 1)
        <5>1. Elems(buf[d]) = (start[d] + 1)..(start[d] + Len(buf[d]))
          BY <2>t, <4>4, FollowsElems
        <5> QED
          BY <2>t, <4>4, <5>1
      <4>6. Carrying(d) = {}
        BY <2>0, <3>2 DEF CarryInv, Carrying
      <4>7. Cardinality(Carrying(d)) = 0 /\ Carried(d) = {}
        BY <4>6, FS_EmptySet DEF Carried
      <4>8. Counted(d)
        <5>1. Elems(received[d]) \cup Elems(buf[d]) \cup Carried(d) = (start[d] + 1)..(nextSeq - 1)
          BY <4>4, <4>5, <4>7, ElemsEmpty
        <5>2. Len(received[d]) + Len(buf[d]) + Cardinality(Carrying(d)) = nextSeq - 1 - start[d]
          BY <2>t, <4>3, <4>4, <4>7
        <5> QED
          BY <5>1, <5>2 DEF Counted
      <4> QED
        BY <2>c, <3>0, <4>8 DEF Counted
    <3> QED
      BY <3>1, <3>2
  <2>8. ASSUME NEW c \in Conns, Read(c)
        PROVE  Counted(d)'
    <3>0. /\ UNCHANGED <<nextSeq, registered, ready, start, carried, cur, todo>>
          /\ buf[c] # <<>>
      BY <2>8 DEF Read, logVars, subVars, appVars
    <3>1. CASE d # c
      <4>1. buf'[d] = buf[d] /\ received'[d] = received[d]
        BY <2>0, <2>8, <3>1 DEF Read, TypeOK
      <4> QED
        BY <2>k, <3>0, <4>1
    <3>2. CASE d = c
      <4>1. buf'[d] = Tail(buf[d]) /\ received'[d] = Append(received[d], Head(buf[d]))
        BY <2>0, <2>8, <3>2 DEF Read, TypeOK
      <4>2. Head(buf[d]) \in Nat /\ Len(Tail(buf[d])) = Len(buf[d]) - 1
        BY <2>t, <3>0, <3>2, HeadTailProperties
      <4>3. /\ Elems(received'[d]) = Elems(received[d]) \cup {Head(buf[d])}
            /\ Len(received'[d]) = Len(received[d]) + 1
        BY <2>t, <4>1, <4>2, ElemsAppend, AppendProperties
      <4>4. Elems(buf[d]) = {Head(buf[d])} \cup Elems(buf'[d])
        BY <2>t, <3>0, <3>2, <4>1, ElemsHead
      <4>5. Counted(d)
        BY <3>0 DEF CountInv
      <4>6. Elems(received'[d]) \cup Elems(buf'[d]) \cup Carried(d) = (start[d] + 1)..(nextSeq - 1)
        BY <4>3, <4>4, <4>5 DEF Counted
      <4>7. Len(received'[d]) + Len(buf'[d]) + Cardinality(Carrying(d)) = nextSeq - 1 - start[d]
        <5>1. r + b + k = nextSeq - 1 - start[d]
          BY <4>5 DEF Counted
        <5>2. r \in Nat /\ b \in Nat /\ k \in Nat /\ nextSeq \in Nat /\ start[d] \in Nat
          BY <2>t, <2>f
        <5>3. Len(buf'[d]) = Len(buf[d]) - 1 /\ Len(received'[d]) = Len(received[d]) + 1
          BY <4>1, <4>2, <4>3
        <5>4. (r + 1) + (b - 1) + k = nextSeq - 1 - start[d]
          <6> HIDE DEF r, b, k
          <6> QED
            BY <5>1, <5>2, CountSteps
        <5> QED
          BY <5>3, <5>4
      <4> QED
        BY <2>c, <3>0, <4>6, <4>7 DEF Counted
    <3> QED
      BY <3>1, <3>2
  <2>9. CASE DeleteSession
    BY <2>9 DEF DeleteSession
  <2>10. CASE UNCHANGED vars
    BY <2>10, <2>k DEF vars, logVars, appVars, chanVars, subVars, connVars
  <2> QED
    BY <2>1, <2>2, <2>3, <2>4, <2>5, <2>6, <2>7, <2>8, <2>9, <2>10 DEF Next, Handler
<1> QED
  BY <1>1, <1>2, TypeInvAlways, StandInvAlways, BacklogInvAlways, PTL DEF Spec

\* Each event a registered subscriber asked for is in exactly one place, for
\* any number of appenders and connections and any capacity of the channels.
THEOREM ExactlyOnceAlways == Spec => []ExactlyOnce
<1>1. CountInv /\ BacklogInv /\ StandInv /\ TypeInv => ExactlyOnce
  <2> SUFFICES ASSUME CountInv, BacklogInv, StandInv, TypeInv,
                      NEW c \in Conns, registered[c]
               PROVE  /\ Elems(received[c] \o Pending(c)) \cup Carried(c)
                           = (start[c] + 1)..(nextSeq - 1)
                      /\ Len(received[c] \o Pending(c)) + Cardinality(Carrying(c))
                           = Cardinality((start[c] + 1)..(nextSeq - 1))
    BY DEF ExactlyOnce, Elems, Carried
  <2>1. /\ start[c] \in Nat /\ nextSeq \in Nat \ {0} /\ start[c] <= nextSeq - 1
        /\ buf[c] \in Seq(Nat) /\ sending[c] \in Seq(Nat) /\ backlog[c] \in Seq(Nat)
        /\ received[c] \in Seq(Nat)
    BY DEF TypeInv, TypeOK, StandInv, ConnInv
  <2>2. Cardinality((start[c] + 1)..(nextSeq - 1)) = nextSeq - 1 - start[c]
    <3>1. CASE start[c] < nextSeq - 1
      BY <2>1, <3>1, FS_Interval
    <3>2. CASE start[c] = nextSeq - 1
      <4>1. (start[c] + 1)..(nextSeq - 1) = {}
        BY <2>1, <3>2
      <4> QED
        BY <2>1, <3>2, <4>1, FS_EmptySet
    <3> QED
      BY <2>1, <3>1, <3>2
  <2>3. /\ Elems(received[c] \o Pending(c)) = Elems(received[c]) \cup Elems(Pending(c))
        /\ Len(received[c] \o Pending(c)) = Len(received[c]) + Len(Pending(c))
    <3>1. Pending(c) \in Seq(Nat)
      BY <2>1, ConcatProperties DEF Pending
    <3> QED
      BY <2>1, <3>1, ElemsConcat, ConcatProperties
  <2>4. CASE ready[c]
    <3>1. sending[c] = <<>> /\ backlog[c] = <<>>
      BY <2>4 DEF StandInv, ConnInv
    <3>2. Pending(c) = buf[c]
      <4>1. buf[c] \o <<>> = buf[c]
        BY <2>1, ConcatEmptySeq
      <4> QED
        BY <3>1, <4>1 DEF Pending
    <3>3. Counted(c)
      BY <2>4 DEF CountInv
    <3> QED
      BY <2>2, <2>3, <3>2, <3>3 DEF Counted
  <2>5. CASE ~ready[c]
    <3>1. InLine(c)
      BY <2>5 DEF BacklogInv
    <3>2. Follows(Pending(c), start[c], nextSeq - 1 - start[c])
      BY <3>1, InLinePending
    <3>3. Elems(Pending(c)) = (start[c] + 1)..(nextSeq - 1)
      <4>1. nextSeq - 1 - start[c] \in Nat /\ start[c] + (nextSeq - 1 - start[c]) = nextSeq - 1
        BY <2>1
      <4> QED
        BY <2>1, <3>2, <4>1, FollowsElems
    <3>4. received[c] = <<>> /\ Len(Pending(c)) = nextSeq - 1 - start[c]
      BY <3>1, <3>2 DEF InLine, Follows
    <3>5. Carrying(c) = {}
      BY <2>5 DEF StandInv, CarryInv, Carrying
    <3>6. Cardinality(Carrying(c)) = 0 /\ Carried(c) = {}
      BY <3>5, FS_EmptySet DEF Carried
    <3>7. Len(received[c]) = 0 /\ Elems(received[c]) = {}
      BY <3>4, EmptySeq, ElemsEmpty
    <3> QED
      BY <2>1, <2>2, <2>3, <3>3, <3>4, <3>6, <3>7
  <2> QED
    BY <2>4, <2>5
<1> QED
  BY <1>1, TypeInvAlways, StandInvAlways, BacklogInvAlways, CountInvAlways, PTL
-----------------------------------------------------------------------------
(***************************************************************************)
(* With one appender the events reach a channel in the order of the log,   *)
(* and the stream implements EventFeed.                                    *)
(***************************************************************************)

OneAppender == \A a, b \in Appenders : a = b

\* A connection that streams has received the events after its start and has
\* the next ones in its channel; the appender carries the last event; an open
\* channel of such a connection belongs to a registered subscriber.
Streaming(c) ==
  /\ Follows(received[c], start[c], Len(received[c]))
  /\ Follows(buf[c], start[c] + Len(received[c]), Len(buf[c]))
  /\ start[c] + Len(received[c]) + Len(buf[c]) <= nextSeq - 1

OpenInv == \A c \in Conns : pc[c] \in {"sending", "streaming"} /\ ~closed[c] => registered[c]
LastInv == \A a \in Appenders : cur[a] # NoConn => carried[a] = nextSeq - 1
StreamingInv == \A c \in Conns : pc[c] = "streaming" => Streaming(c)

LEMMA OpenInvAlways == Spec => []OpenInv
<1>1. Init => OpenInv
  BY DEF Init, OpenInv
<1>2. OpenInv /\ TypeInv /\ [Next]_vars => OpenInv'
  <2> SUFFICES ASSUME OpenInv, TypeInv, [Next]_vars
               PROVE  OpenInv'
    OBVIOUS
  <2>0. TypeOK
    BY DEF TypeInv
  <2>1. ASSUME NEW a \in Appenders, AppendEvent(a) \/ Send(a)
        PROVE  OpenInv'
    BY <2>1 DEF AppendEvent, Send, OpenInv, chanVars, subVars, connVars
  <2>2. ASSUME NEW c \in Conns, CheckLoaded(c) \/ SendOnClosed(c) \/ ReadClosed(c)
        PROVE  OpenInv'
    BY <2>0, <2>2 DEF CheckLoaded, SendOnClosed, ReadClosed, OpenInv, TypeOK, chanVars, subVars
  <2>3. ASSUME NEW c \in Conns, Disconnect(c)
        PROVE  OpenInv'
    BY <2>0, <2>3 DEF Disconnect, OpenInv, TypeOK
  <2>4. ASSUME NEW c \in Conns, NEW fromSeq \in 0..MaxSeq, Register(c, fromSeq)
        PROVE  OpenInv'
    BY <2>0, <2>4 DEF Register, OpenInv, TypeOK, chanVars
  <2>5. ASSUME NEW c \in Conns, SendPending(c) \/ Read(c)
        PROVE  OpenInv'
    BY <2>5 DEF SendPending, Read, OpenInv, subVars
  <2>6. ASSUME NEW c \in Conns, Flush(c)
        PROVE  OpenInv'
    BY <2>0, <2>6 DEF Flush, OpenInv, TypeOK, chanVars
  <2>7. CASE DeleteSession
    BY <2>0, <2>7 DEF DeleteSession, OpenInv, TypeOK, connVars
  <2>8. CASE UNCHANGED vars
    BY <2>8 DEF vars, OpenInv, chanVars, subVars, connVars
  <2> QED
    BY <2>1, <2>2, <2>3, <2>4, <2>5, <2>6, <2>7, <2>8 DEF Next, Handler
<1> QED
  BY <1>1, <1>2, TypeInvAlways, PTL DEF Spec

LEMMA LastInvAlways ==
  ASSUME OneAppender
  PROVE  Spec => []LastInv
<1>1. Init => LastInv
  BY DEF Init, LastInv
<1>2. LastInv /\ StandInv /\ TypeInv /\ [Next]_vars => LastInv'
  <2> SUFFICES ASSUME LastInv, StandInv, TypeInv, [Next]_vars
               PROVE  LastInv'
    OBVIOUS
  <2>0. TypeOK /\ CarryInv
    BY DEF TypeInv, StandInv
  <2>1. ASSUME NEW a \in Appenders, AppendEvent(a)
        PROVE  LastInv'
    <3>1. carried'[a] = nextSeq /\ nextSeq' - 1 = nextSeq
      BY <2>0, <2>1 DEF AppendEvent, TypeOK
    <3> QED
      BY <3>1 DEF LastInv, OneAppender
  <2>2. ASSUME NEW a \in Appenders, Send(a)
        PROVE  LastInv'
    <3>1. carried' = carried /\ nextSeq' = nextSeq /\ cur[a] # NoConn
      BY <2>0, <2>2, StreamAssumption DEF Send, logVars, TypeOK
    <3> QED
      BY <3>1 DEF LastInv, OneAppender
  <2>3. ASSUME UNCHANGED <<nextSeq, carried, cur>>
        PROVE  LastInv'
    BY <2>3 DEF LastInv
  <2>4. ASSUME NEW c \in Conns, NEW fromSeq \in 0..MaxSeq, Register(c, fromSeq)
        PROVE  LastInv'
    BY <2>4, <2>3 DEF Register, logVars, appVars
  <2>5. ASSUME NEW c \in Conns, \/ CheckLoaded(c) \/ SendPending(c) \/ SendOnClosed(c) \/ Flush(c)
                                \/ Read(c) \/ ReadClosed(c) \/ Disconnect(c)
        PROVE  LastInv'
    BY <2>5, <2>3 DEF CheckLoaded, SendPending, SendOnClosed, Flush, Read, ReadClosed, Disconnect,
                      logVars, appVars
  <2>6. CASE DeleteSession \/ UNCHANGED vars
    BY <2>6, <2>3 DEF DeleteSession, vars, logVars, appVars
  <2> QED
    BY <2>1, <2>2, <2>4, <2>5, <2>6 DEF Next, Handler
<1> QED
  BY <1>1, <1>2, TypeInvAlways, StandInvAlways, PTL DEF Spec

LEMMA StreamingInvAlways ==
  ASSUME OneAppender
  PROVE  Spec => []StreamingInv
<1>1. Init => StreamingInv
  BY DEF Init, StreamingInv
<1>2. /\ StreamingInv /\ OpenInv /\ LastInv /\ CountInv /\ BacklogInv /\ StandInv /\ TypeInv
      /\ [Next]_vars
      => StreamingInv'
  <2> SUFFICES ASSUME StreamingInv, OpenInv, LastInv, CountInv, BacklogInv, StandInv, TypeInv,
                      [Next]_vars, NEW d \in Conns, pc'[d] = "streaming"
               PROVE  Streaming(d)'
    BY DEF StreamingInv
  <2>0. TypeOK /\ ConnInv /\ CarryInv
    BY DEF StandInv, TypeInv
  <2> DEFINE r == Len(received[d])
             b == Len(buf[d])
             n == nextSeq - 1
             f == start[d]
  <2>t. /\ f \in Nat /\ n \in Nat /\ r \in Nat /\ b \in Nat
        /\ buf[d] \in Seq(Nat) /\ received[d] \in Seq(Nat)
    BY <2>0 DEF TypeOK
  <2>k. ASSUME pc'[d] = pc[d], nextSeq' = nextSeq,
               start'[d] = start[d], buf'[d] = buf[d], received'[d] = received[d]
        PROVE  Streaming(d)'
    BY <2>k DEF StreamingInv, Streaming
  <2>1. ASSUME NEW a \in Appenders, AppendEvent(a)
        PROVE  Streaming(d)'
    <3>1. nextSeq' = nextSeq + 1 /\ UNCHANGED <<buf, pc, start, received>>
      BY <2>1 DEF AppendEvent, chanVars, connVars
    <3>2. Streaming(d)
      BY <3>1 DEF StreamingInv
    <3>3. f + r + b <= nextSeq' - 1
      <4>1. f + r + b <= n
        BY <3>2 DEF Streaming
      <4>2. nextSeq' - 1 = n + 1
        BY <2>0, <3>1 DEF TypeOK
      <4> HIDE DEF f, r, b, n
      <4> QED
        BY <2>t, <4>1, <4>2
    <3> QED
      BY <3>1, <3>2, <3>3 DEF Streaming
  <2>2. ASSUME NEW a \in Appenders, Send(a)
        PROVE  Streaming(d)'
    <3>0. UNCHANGED <<nextSeq, pc, start, received, registered, ready, closed>>
      BY <2>2 DEF Send, logVars, subVars, connVars
    <3>1. CASE cur[a] # d \/ closed[d]
      <4>1. buf'[d] = buf[d]
        BY <2>0, <2>2, <3>1 DEF Send, TypeOK
      <4> QED
        BY <2>k, <3>0, <4>1
    <3>2. CASE cur[a] = d /\ ~closed[d]
      <4>1. registered[d] /\ ready[d] /\ Streaming(d)
        BY <2>0, <3>0, <3>2 DEF OpenInv, ConnInv, StreamingInv
      <4>2. Carrying(d) = {a}
        BY <3>2 DEF Carrying, OneAppender
      <4>3. f + r + b + 1 = n
        <5>1. Cardinality(Carrying(d)) = 1
          BY <4>2, FS_Singleton
        <5>2. r + b + 1 = n - f
          BY <4>1, <5>1 DEF CountInv, Counted
        <5> HIDE DEF f, r, b, n
        <5> QED
          BY <2>t, <5>2
      <4>4. buf'[d] = Append(buf[d], carried[a])
        BY <2>0, <2>2, <3>2 DEF Send, TypeOK
      <4>5. carried[a] = n
        BY <3>2, StreamAssumption DEF LastInv
      <4>6. Follows(buf'[d], f + r, b + 1)
        <5>1. Follows(buf[d], f + r, b)
          BY <4>1 DEF Streaming
        <5>2. f + r \in Nat
          BY <2>t
        <5> HIDE DEF f, r, b, n
        <5> QED
          BY <2>t, <4>3, <4>4, <4>5, <5>1, <5>2, FollowsAppend
      <4>7. Len(buf'[d]) = b + 1
        BY <4>6 DEF Follows
      <4>8. f + r + (b + 1) <= n
        <5> HIDE DEF f, r, b, n
        <5> QED
          BY <2>t, <4>3
      <4> QED
        BY <3>0, <4>1, <4>6, <4>7, <4>8 DEF Streaming
    <3> QED
      BY <3>1, <3>2
  <2>3. ASSUME NEW c \in Conns, CheckLoaded(c) \/ SendOnClosed(c) \/ ReadClosed(c) \/ Disconnect(c)
        PROVE  Streaming(d)'
    <3>1. UNCHANGED <<nextSeq, buf, start, received>>
      BY <2>3 DEF CheckLoaded, SendOnClosed, ReadClosed, Disconnect, logVars, chanVars
    <3>2. pc'[d] = pc[d]
      BY <2>0, <2>3 DEF CheckLoaded, SendOnClosed, ReadClosed, Disconnect, TypeOK
    <3> QED
      BY <2>k, <3>1, <3>2
  <2>4. ASSUME NEW c \in Conns, NEW fromSeq \in 0..MaxSeq, Register(c, fromSeq)
        PROVE  Streaming(d)'
    <3>0. UNCHANGED <<nextSeq, buf, received>>
      BY <2>4 DEF Register, logVars, chanVars
    <3>1. d # c
      BY <2>0, <2>4 DEF Register, TypeOK
    <3>2. pc'[d] = pc[d] /\ start'[d] = start[d]
      BY <2>0, <2>4, <3>1 DEF Register, TypeOK
    <3> QED
      BY <2>k, <3>0, <3>2
  <2>5. ASSUME NEW c \in Conns, SendPending(c)
        PROVE  Streaming(d)'
    <3>0. UNCHANGED <<nextSeq, pc, start, received>>
      BY <2>5 DEF SendPending, logVars
    <3>1. d # c
      BY <2>5, <3>0 DEF SendPending
    <3>2. buf'[d] = buf[d]
      BY <2>0, <2>5, <3>1 DEF SendPending, TypeOK
    <3> QED
      BY <2>k, <3>0, <3>2
  <2>6. ASSUME NEW c \in Conns, Flush(c)
        PROVE  Streaming(d)'
    <3>0. UNCHANGED <<nextSeq, buf, start, received>> /\ sending[c] = <<>>
      BY <2>6 DEF Flush, logVars, chanVars
    <3>1. CASE pc[d] = "streaming"
      BY <2>k, <3>0, <3>1
    <3>2. CASE pc[d] # "streaming"
      <4>1. d = c /\ registered[d] /\ backlog[d] = <<>> /\ pc[d] = "sending"
        BY <2>0, <2>6, <3>2 DEF Flush, TypeOK
      <4>2. InLine(d)
        BY <2>0, <4>1 DEF ConnInv, BacklogInv
      <4>3. received[d] = <<>> /\ r = 0 /\ Len(sending[d]) = 0 /\ Len(backlog[d]) = 0
        BY <3>0, <4>1, <4>2, EmptySeq DEF InLine
      <4>4. Follows(received[d], f, r) /\ f + r = f
        BY <2>t, <4>3, FollowsEmpty
      <4>5. Follows(buf[d], f + r, b)
        BY <4>2, <4>4 DEF InLine
      <4>6. f + r + b <= n
        <5>1. f + b + 0 + 0 = n
          BY <4>2, <4>3 DEF InLine
        <5>2. r = 0
          BY <4>3
        <5> HIDE DEF f, r, b, n
        <5> QED
          BY <2>t, <5>1, <5>2
      <4> QED
        BY <3>0, <4>4, <4>5, <4>6 DEF Streaming
    <3> QED
      BY <3>1, <3>2
  <2>7. ASSUME NEW c \in Conns, Read(c)
        PROVE  Streaming(d)'
    <3>0. UNCHANGED <<nextSeq, pc, start>> /\ buf[c] # <<>> /\ pc[c] = "streaming"
      BY <2>7 DEF Read, logVars
    <3>1. CASE d # c
      <4>1. buf'[d] = buf[d] /\ received'[d] = received[d]
        BY <2>0, <2>7, <3>1 DEF Read, TypeOK
      <4> QED
        BY <2>k, <3>0, <4>1
    <3>2. CASE d = c
      <4>1. buf'[d] = Tail(buf[d]) /\ received'[d] = Append(received[d], Head(buf[d]))
        BY <2>0, <2>7, <3>2 DEF Read, TypeOK
      <4>2. Streaming(d) /\ buf[d] # <<>>
        BY <3>0, <3>2 DEF StreamingInv
      <4>3. Head(buf[d]) = f + r + 1 /\ b \in Nat \ {0} /\ Follows(buf'[d], f + r + 1, b - 1)
        <5>1. Follows(buf[d], f + r, b) /\ f + r \in Nat
          BY <2>t, <4>2 DEF Streaming
        <5> HIDE DEF f, r, b
        <5> QED
          BY <2>t, <4>1, <4>2, <5>1, FollowsTail
      <4>4. Follows(received'[d], f, r + 1)
        <5>1. Follows(received[d], f, r)
          BY <4>2 DEF Streaming
        <5> HIDE DEF f, r, b
        <5> QED
          BY <2>t, <4>1, <4>3, <5>1, FollowsAppend
      <4>5. Len(received'[d]) = r + 1 /\ Len(buf'[d]) = b - 1
        BY <4>3, <4>4 DEF Follows
      <4>6. f + (r + 1) = f + r + 1 /\ f + (r + 1) + (b - 1) <= n
        <5>1. f + r + b <= n
          BY <4>2 DEF Streaming
        <5> HIDE DEF f, r, b, n
        <5> QED
          BY <2>t, <4>3, <5>1
      <4> QED
        BY <3>0, <4>3, <4>4, <4>5, <4>6 DEF Streaming
    <3> QED
      BY <3>1, <3>2
  <2>8. CASE DeleteSession
    BY <2>8, <2>k DEF DeleteSession, logVars, connVars
  <2>9. CASE UNCHANGED vars
    BY <2>9, <2>k DEF vars, logVars, chanVars, connVars
  <2> QED
    BY <2>1, <2>2, <2>3, <2>4, <2>5, <2>6, <2>7, <2>8, <2>9 DEF Next, Handler
<1> QED
  BY <1>1, <1>2, TypeInvAlways, StandInvAlways, BacklogInvAlways, CountInvAlways,
     OpenInvAlways, LastInvAlways, PTL DEF Spec

Phase(c) == IF pc[c] \in {"sending", "streaming"} THEN "attached"
            ELSE IF pc[c] \in {"new", "checked"} THEN "idle" ELSE "ended"

LEMMA FeedStarts == Init => Feed!Init
<1> SUFFICES ASSUME Init
             PROVE  Feed!Init
  OBVIOUS
<1>1. nextSeq - 1 \in Nat
  BY StreamAssumption DEF Init
<1> QED
  BY <1>1 DEF Init, Feed!Init

\* A connection that leaves "new" or "checked" for no subscription, or a
\* subscription that ends, is one connection cut.
LEMMA FeedCut ==
  ASSUME TypeOK, NEW c \in Conns, NEW p \in {"ended", "not_found", "panicked"},
         pc' = [pc EXCEPT ![c] = p], UNCHANGED <<nextSeq, start, received>>
  PROVE  Feed!Next
<1>1. [e \in Conns |-> Phase(e)]' = [e \in Conns |-> IF e \in {c} THEN "ended" ELSE Phase(e)]
  <2>1. ASSUME NEW e \in Conns
        PROVE  Phase(e)' = IF e \in {c} THEN "ended" ELSE Phase(e)
    BY DEF TypeOK, Phase
  <2> QED
    BY <2>1
<1>2. Feed!Cut({c})
  BY <1>1 DEF Feed!Cut, Phase
<1>3. {c} \in SUBSET Conns
  OBVIOUS
<1> QED
  BY <1>2, <1>3 DEF Feed!Next

LEMMA FeedStutter ==
  ASSUME nextSeq' = nextSeq, start' = start, received' = received,
         \A e \in Conns : Phase(e)' = Phase(e)
  PROVE  UNCHANGED Feed!vars
<1>1. [e \in Conns |-> Phase(e)]' = [e \in Conns |-> Phase(e)]
  OBVIOUS
<1> QED
  BY <1>1 DEF Feed!vars, Phase

LEMMA FeedSteps ==
  ASSUME StreamingInv, TypeInv, [Next]_vars
  PROVE  [Feed!Next]_(Feed!vars)
<1>0. TypeOK
  BY DEF TypeInv
<1>1. ASSUME NEW a \in Appenders, AppendEvent(a)
      PROVE  Feed!Next
  <2>1. UNCHANGED <<pc, start, received>> /\ nextSeq' - 1 = (nextSeq - 1) + 1
    BY <1>0, <1>1 DEF AppendEvent, connVars, TypeOK
  <2> QED
    BY <2>1 DEF Feed!Next, Feed!Publish
<1>2. ASSUME NEW a \in Appenders, Send(a)
      PROVE  UNCHANGED Feed!vars
  BY <1>2, FeedStutter DEF Send, logVars, connVars, Phase
<1>3. ASSUME NEW c \in Conns, CheckLoaded(c)
      PROVE  [Feed!Next]_(Feed!vars)
  <2>1. UNCHANGED <<nextSeq, start, received>> /\ pc[c] = "new"
    BY <1>3 DEF CheckLoaded, logVars
  <2>2. CASE live
    <3>1. \A e \in Conns : Phase(e)' = Phase(e)
      BY <1>0, <1>3, <2>1, <2>2 DEF CheckLoaded, Phase, TypeOK
    <3> QED
      BY <2>1, <3>1, FeedStutter
  <2>3. CASE ~live
    BY <1>0, <1>3, <2>1, <2>3, FeedCut DEF CheckLoaded
  <2> QED
    BY <2>2, <2>3
<1>4. ASSUME NEW c \in Conns, NEW fromSeq \in 0..MaxSeq, Register(c, fromSeq)
      PROVE  Feed!Next
  <2>1. UNCHANGED <<nextSeq, received>> /\ pc[c] = "checked"
    BY <1>4 DEF Register, logVars
  <2>2. CASE live
    <3>1. PICK k \in 0..(nextSeq - 1) : start' = [start EXCEPT ![c] = k]
      BY <1>4, <2>2, RegisterSends
    <3>2. pc' = [pc EXCEPT ![c] = "sending"]
      BY <1>4, <2>2 DEF Register
    <3>3. [e \in Conns |-> Phase(e)]' = [[e \in Conns |-> Phase(e)] EXCEPT ![c] = "attached"]
      <4>1. ASSUME NEW e \in Conns
            PROVE  Phase(e)' = IF e = c THEN "attached" ELSE Phase(e)
        BY <1>0, <3>2 DEF Phase, TypeOK
      <4> QED
        BY <4>1
    <3>4. Phase(c) = "idle"
      BY <2>1 DEF Phase
    <3>5. Feed!Attach(c)
      BY <2>1, <3>1, <3>3, <3>4 DEF Feed!Attach, Phase
    <3> QED
      BY <3>5 DEF Feed!Next
  <2>3. CASE ~live
    BY <1>0, <1>4, <2>1, <2>3, FeedCut DEF Register
  <2> QED
    BY <2>2, <2>3
<1>5. ASSUME NEW c \in Conns, SendPending(c)
      PROVE  UNCHANGED Feed!vars
  BY <1>5, FeedStutter DEF SendPending, logVars, Phase
<1>6. ASSUME NEW c \in Conns, SendOnClosed(c) \/ ReadClosed(c) \/ Disconnect(c)
      PROVE  Feed!Next
  BY <1>0, <1>6, FeedCut DEF SendOnClosed, ReadClosed, Disconnect, logVars
<1>7. ASSUME NEW c \in Conns, Flush(c)
      PROVE  [Feed!Next]_(Feed!vars)
  <2>1. UNCHANGED <<nextSeq, start, received>> /\ pc[c] = "sending"
    BY <1>7 DEF Flush, logVars
  <2>2. CASE pc' = [pc EXCEPT ![c] = "not_found"]
    BY <1>0, <2>1, <2>2, FeedCut
  <2>3. CASE pc' = pc \/ pc' = [pc EXCEPT ![c] = "streaming"]
    <3>1. \A e \in Conns : Phase(e)' = Phase(e)
      BY <1>0, <2>1, <2>3 DEF Phase, TypeOK
    <3> QED
      BY <2>1, <3>1, FeedStutter
  <2> QED
    BY <1>7, <2>2, <2>3 DEF Flush
<1>8. ASSUME NEW c \in Conns, Read(c)
      PROVE  Feed!Next
  <2>0. /\ UNCHANGED <<nextSeq, pc, start>> /\ pc[c] = "streaming" /\ buf[c] # <<>>
        /\ received' = [received EXCEPT ![c] = Append(@, Head(buf[c]))]
    BY <1>8 DEF Read, logVars
  <2>1. /\ Follows(buf[c], start[c] + Len(received[c]), Len(buf[c]))
        /\ start[c] + Len(received[c]) + Len(buf[c]) <= nextSeq - 1
    BY <2>0 DEF StreamingInv, Streaming
  <2> DEFINE p == start[c] + Len(received[c])
             b == Len(buf[c])
  <2>2. p \in Nat /\ b \in Nat /\ nextSeq - 1 \in Nat
    BY <1>0 DEF TypeOK
  <2>3. Head(buf[c]) = p + 1 /\ b \in Nat \ {0}
    <3>1. Follows(buf[c], p, b) /\ buf[c] # <<>>
      BY <2>0, <2>1
    <3> HIDE DEF p, b
    <3> QED
      BY <2>2, <3>1, FollowsTail
  <2>4. p < nextSeq - 1
    <3>1. p + b <= nextSeq - 1
      BY <2>1
    <3> HIDE DEF p, b
    <3> QED
      BY <2>2, <2>3, <3>1
  <2>5. received' = [received EXCEPT ![c] = Append(@, start[c] + Len(@) + 1)]
    BY <1>0, <2>0, <2>3 DEF TypeOK
  <2>6. Feed!Deliver(c)
    BY <2>0, <2>4, <2>5 DEF Feed!Deliver
  <2> QED
    BY <2>6 DEF Feed!Next
<1>9. CASE DeleteSession
  BY <1>9, FeedStutter DEF DeleteSession, logVars, connVars, Phase
<1>10. CASE UNCHANGED vars
  BY <1>10, FeedStutter DEF vars, logVars, connVars, Phase
<1> QED
  BY <1>1, <1>2, <1>3, <1>4, <1>5, <1>6, <1>7, <1>8, <1>9, <1>10 DEF Next, Handler

\* With one appender every frame a connection receives is the next event after
\* the last one, from the one it asked for on, whatever the number of
\* connections, the capacity of the channels and the length of the history.
THEOREM FeedImplemented ==
  ASSUME OneAppender
  PROVE  Spec => ImplementsEventFeed
<1>1. Spec => []StreamingInv
  BY StreamingInvAlways
<1> QED
  BY <1>1, FeedStarts, FeedSteps, TypeInvAlways, PTL DEF Spec, ImplementsEventFeed, Feed!Spec
-----------------------------------------------------------------------------
(***************************************************************************)
(* When Subscribe can return.  The channel has no reader before it does,   *)
(* so what it is to send has to fit the channel.                           *)
(***************************************************************************)

ChannelInv == \A c \in Conns : Len(buf[c]) <= Capacity

LEMMA ChannelInvAlways == Spec => []ChannelInv
<1>1. Init => ChannelInv
  BY EmptySeq, StreamAssumption DEF Init, ChannelInv
<1>2. ChannelInv /\ TypeInv /\ [Next]_vars => ChannelInv'
  <2> SUFFICES ASSUME ChannelInv, TypeInv, [Next]_vars, NEW d \in Conns
               PROVE  Len(buf'[d]) <= Capacity
    BY DEF ChannelInv
  <2>0. TypeOK /\ buf[d] \in Seq(Nat) /\ Len(buf[d]) \in Nat /\ Len(buf[d]) <= Capacity /\ Capacity \in Nat
    BY StreamAssumption DEF TypeInv, TypeOK, ChannelInv
  <2>k. ASSUME buf'[d] = buf[d]
        PROVE  Len(buf'[d]) <= Capacity
    BY <2>0, <2>k
  <2>p. ASSUME NEW x \in Nat, Len(buf[d]) < Capacity, buf'[d] = Append(buf[d], x)
        PROVE  Len(buf'[d]) <= Capacity
    <3>1. Len(buf'[d]) = Len(buf[d]) + 1
      BY <2>0, <2>p, AppendProperties
    <3> QED
      BY <2>0, <2>p, <3>1
  <2>1. ASSUME NEW a \in Appenders, Send(a)
        PROVE  Len(buf'[d]) <= Capacity
    <3>1. carried[a] \in Nat
      BY <2>0 DEF TypeOK
    <3>2. CASE buf' = [buf EXCEPT ![cur[a]] = Append(@, carried[a])] /\ cur[a] = d
               /\ Len(buf[d]) < Capacity
      BY <2>0, <2>p, <3>1, <3>2 DEF TypeOK
    <3>3. CASE buf'[d] = buf[d]
      BY <2>k, <3>3
    <3> QED
      BY <2>0, <2>1, <3>2, <3>3 DEF Send, TypeOK
  <2>2. ASSUME NEW c \in Conns, SendPending(c)
        PROVE  Len(buf'[d]) <= Capacity
    <3>1. CASE c = d
      <4>1. Head(sending[d]) \in Nat
        <5>1. sending[d] \in Seq(Nat) /\ sending[d] # <<>>
          BY <2>0, <2>2, <3>1 DEF SendPending, TypeOK
        <5> QED
          BY <5>1, HeadTailProperties
      <4>2. buf'[d] = Append(buf[d], Head(sending[d])) /\ Len(buf[d]) < Capacity
        BY <2>0, <2>2, <3>1 DEF SendPending, TypeOK
      <4> QED
        BY <2>p, <4>1, <4>2
    <3>2. CASE c # d
      BY <2>0, <2>2, <2>k, <3>2 DEF SendPending, TypeOK
    <3> QED
      BY <3>1, <3>2
  <2>3. ASSUME NEW c \in Conns, Read(c)
        PROVE  Len(buf'[d]) <= Capacity
    <3>1. CASE c = d
      <4>1. buf'[d] = Tail(buf[d]) /\ buf[d] # <<>>
        BY <2>0, <2>3, <3>1 DEF Read, TypeOK
      <4>2. Len(buf'[d]) = Len(buf[d]) - 1
        BY <2>0, <4>1, HeadTailProperties
      <4> QED
        BY <2>0, <4>2
    <3>2. CASE c # d
      BY <2>0, <2>3, <2>k, <3>2 DEF Read, TypeOK
    <3> QED
      BY <3>1, <3>2
  <2>4. ASSUME UNCHANGED buf
        PROVE  Len(buf'[d]) <= Capacity
    BY <2>k, <2>4
  <2> QED
    BY <2>1, <2>2, <2>3, <2>4
    DEF Next, Handler, AppendEvent, CheckLoaded, Register, SendOnClosed, Flush, ReadClosed,
        Disconnect, DeleteSession, vars, chanVars
<1> QED
  BY <1>1, <1>2, TypeInvAlways, PTL DEF Spec

\* A subscriber that Subscribe still sends to, and the events it asked for, those
\* appended meanwhile included.
Serving(c) == registered[c] /\ pc[c] = "sending"
Asked(c) == nextSeq - 1 - start[c]

\* As long as the events asked for fit the channel, no sendEventWithContext of
\* Subscribe finds it full or closed, whoever else appends or subscribes.
RoomForShortHistory ==
  \A c \in Conns : Serving(c) /\ Asked(c) <= Capacity =>
    /\ ~closed[c]
    /\ sending[c] # <<>> => Len(buf[c]) < Capacity

\* Once the events asked for outnumber the channel, Subscribe never gets to its
\* return: whatever happens next, the connection stays in the call until its
\* client leaves or the session is deleted (the comment above the flush loop
\* speaks of a backlog that drains).
LongHistoryStays ==
  \A c \in Conns : Serving(c) /\ Asked(c) > Capacity =>
    \/ Serving(c)' /\ Asked(c)' > Capacity
    \/ Disconnect(c) \/ DeleteSession

LEMMA ServingInLine ==
  ASSUME StandInv, BacklogInv, NEW c \in Conns, Serving(c)
  PROVE  InLine(c) /\ ~closed[c]
BY DEF StandInv, ConnInv, BacklogInv, Serving

\* The channel always has room for what is left of a history that fits it.
THEOREM ShortHistoryHasRoom == Spec => []RoomForShortHistory
<1>1. StandInv /\ BacklogInv /\ TypeInv => RoomForShortHistory
  <2> SUFFICES ASSUME StandInv, BacklogInv, TypeInv, NEW c \in Conns,
                      Serving(c), Asked(c) <= Capacity
               PROVE  ~closed[c] /\ (sending[c] # <<>> => Len(buf[c]) < Capacity)
    BY DEF RoomForShortHistory
  <2>1. InLine(c) /\ ~closed[c]
    BY ServingInLine
  <2> DEFINE b == Len(buf[c])
             n == Len(sending[c])
             m == Len(backlog[c])
  <2>2. /\ b \in Nat /\ n \in Nat /\ m \in Nat /\ start[c] \in Nat /\ nextSeq \in Nat
        /\ sending[c] \in Seq(Nat) /\ Capacity \in Nat
    BY StreamAssumption DEF TypeInv, TypeOK
  <2>3. start[c] + b + n + m = nextSeq - 1
    BY <2>1 DEF InLine
  <2>4. nextSeq - 1 - start[c] <= Capacity
    BY DEF Asked
  <2>5. sending[c] # <<>> => n > 0
    BY <2>2, EmptySeq
  <2> HIDE DEF b, n, m
  <2>6. n > 0 => b < Capacity
    BY <2>2, <2>3, <2>4
  <2> QED
    BY <2>1, <2>5, <2>6 DEF b
<1> QED
  BY <1>1, TypeInvAlways, StandInvAlways, BacklogInvAlways, PTL

\* For every capacity, not only the one of the runs: with more events to send
\* than the channel holds, no step but a departure or a deletion ends Subscribe.
THEOREM LongHistoryNeverReturns == Spec => [][LongHistoryStays]_vars
<1>1. ChannelInv /\ StandInv /\ BacklogInv /\ TypeInv /\ [Next]_vars => [LongHistoryStays]_vars
  <2> SUFFICES ASSUME ChannelInv, StandInv, BacklogInv, TypeInv, Next, NEW d \in Conns,
                      Serving(d), Asked(d) > Capacity, ~Disconnect(d), ~DeleteSession
               PROVE  Serving(d)' /\ Asked(d)' > Capacity
    BY DEF LongHistoryStays
  <2>0. TypeOK /\ ConnInv /\ registered[d] /\ pc[d] = "sending" /\ ~closed[d]
    BY ServingInLine DEF TypeInv, StandInv, Serving
  <2>t. nextSeq \in Nat /\ start[d] \in Nat /\ Capacity \in Nat
        /\ nextSeq - 1 - start[d] > Capacity
    BY <2>0, StreamAssumption DEF TypeOK, Asked
  <2>k. ASSUME registered'[d] = registered[d], pc'[d] = pc[d], start'[d] = start[d],
               nextSeq' = nextSeq
        PROVE  Serving(d)' /\ Asked(d)' > Capacity
    BY <2>0, <2>t, <2>k DEF Serving, Asked
  <2>1. ASSUME NEW a \in Appenders, AppendEvent(a)
        PROVE  Serving(d)' /\ Asked(d)' > Capacity
    <3>1. UNCHANGED <<registered, pc, start>> /\ nextSeq' = nextSeq + 1
      BY <2>1 DEF AppendEvent, connVars
    <3>2. nextSeq' - 1 - start'[d] > Capacity
      BY <2>t, <3>1
    <3> QED
      BY <2>0, <3>1, <3>2 DEF Serving, Asked
  <2>2. ASSUME NEW a \in Appenders, Send(a)
        PROVE  Serving(d)' /\ Asked(d)' > Capacity
    BY <2>2, <2>k DEF Send, logVars, subVars, connVars
  <2>3. ASSUME NEW c \in Conns, CheckLoaded(c) \/ SendOnClosed(c) \/ ReadClosed(c)
        PROVE  Serving(d)' /\ Asked(d)' > Capacity
    <3>1. c # d
      BY <2>0, <2>3 DEF CheckLoaded, SendOnClosed, ReadClosed
    <3> QED
      BY <2>0, <2>3, <2>k, <3>1 DEF CheckLoaded, SendOnClosed, ReadClosed, TypeOK, logVars, subVars
  <2>4. ASSUME NEW c \in Conns, NEW fromSeq \in 0..MaxSeq, Register(c, fromSeq)
        PROVE  Serving(d)' /\ Asked(d)' > Capacity
    <3>1. c # d
      BY <2>0, <2>4 DEF Register
    <3> QED
      BY <2>0, <2>4, <2>k, <3>1 DEF Register, TypeOK, logVars
  <2>5. ASSUME NEW c \in Conns, SendPending(c) \/ Read(c)
        PROVE  Serving(d)' /\ Asked(d)' > Capacity
    BY <2>5, <2>k DEF SendPending, Read, logVars, subVars
  <2>6. ASSUME NEW c \in Conns, Flush(c)
        PROVE  Serving(d)' /\ Asked(d)' > Capacity
    <3>0. UNCHANGED <<nextSeq, registered, start>> /\ sending[c] = <<>>
      BY <2>6 DEF Flush, logVars
    <3>1. CASE c # d
      BY <2>0, <2>6, <2>k, <3>0, <3>1 DEF Flush, TypeOK
    <3>2. CASE c = d
      <4>1. backlog[d] # <<>>
        <5> SUFFICES ASSUME backlog[d] = <<>>
                     PROVE  FALSE
          OBVIOUS
        <5> DEFINE b == Len(buf[d])
        <5>1. start[d] + b + Len(sending[d]) + Len(backlog[d]) = nextSeq - 1
          BY ServingInLine DEF InLine
        <5>2. Len(sending[d]) = 0 /\ Len(backlog[d]) = 0
          BY <3>0, <3>2, EmptySeq
        <5>3. b \in Nat /\ b <= Capacity
          BY <2>0 DEF ChannelInv, TypeOK
        <5> HIDE DEF b
        <5> QED
          BY <2>t, <5>1, <5>2, <5>3
      <4>2. pc' = pc
        BY <2>0, <2>6, <3>2, <4>1 DEF Flush
      <4> QED
        BY <2>k, <3>0, <4>2
    <3> QED
      BY <3>1, <3>2
  <2>7. ASSUME NEW c \in Conns, Disconnect(c)
        PROVE  Serving(d)' /\ Asked(d)' > Capacity
    <3>1. c # d
      BY <2>7
    <3> QED
      BY <2>0, <2>7, <2>k, <3>1 DEF Disconnect, TypeOK, logVars
  <2> QED
    BY <2>1, <2>2, <2>3, <2>4, <2>5, <2>6, <2>7 DEF Next, Handler
<1> QED
  BY <1>1, TypeInvAlways, StandInvAlways, BacklogInvAlways, ChannelInvAlways, PTL DEF Spec

\* What a subscriber in Subscribe has still before it: the sends its channel has
\* room for, each with a turn of the flush loop, and the turn it is at.
StepsToGo(c) == 2 * (Capacity - Len(buf[c])) + (IF sending[c] = <<>> THEN 1 ELSE 0)

\* The flush loop cannot chase the appenders for ever: every send and every turn
\* of it uses up some of the channel, which nobody empties meanwhile, and what
\* appenders put into the backlog gives nothing back.
SubscribeWinds ==
  \A c \in Conns : Serving(c) =>
    /\ StepsToGo(c) \in Nat
    /\ Serving(c)' => StepsToGo(c)' <= StepsToGo(c)
    /\ Serving(c)' /\ (SendPending(c) \/ Flush(c)) => StepsToGo(c)' < StepsToGo(c)

LEMMA StepsToGoDown ==
  ASSUME NEW k \in Nat, NEW b \in Nat, b < k
  PROVE  /\ 2 * (k - (b + 1)) + 1 < 2 * (k - b) + 0
         /\ 2 * (k - (b + 1)) + 0 < 2 * (k - b) + 0
OBVIOUS

\* A step of another connection or of an appender leaves a connection that is
\* being served what it holds, but for its backlog.
LEMMA ServedAlone ==
  ASSUME TypeOK, ConnInv, CarryInv, Next, NEW d \in Conns, Serving(d)
  PROVE  \/ UNCHANGED <<buf[d], sending[d]>>
         \/ SendPending(d) \/ Flush(d)
<1>0. pc[d] = "sending" /\ ~ready[d]
  BY DEF Serving, ConnInv
<1>1. ASSUME NEW a \in Appenders, AppendEvent(a)
      PROVE  UNCHANGED <<buf[d], sending[d]>>
  BY <1>1 DEF AppendEvent, chanVars, connVars
<1>2. ASSUME NEW a \in Appenders, Send(a)
      PROVE  UNCHANGED <<buf[d], sending[d]>>
  <2>1. cur[a] # d
    BY <1>0 DEF CarryInv
  <2> QED
    BY <1>2, <2>1 DEF Send, TypeOK, connVars
<1>3. ASSUME NEW c \in Conns,
             CheckLoaded(c) \/ SendOnClosed(c) \/ ReadClosed(c) \/ Disconnect(c) \/ DeleteSession
      PROVE  UNCHANGED <<buf[d], sending[d]>>
  BY <1>3 DEF CheckLoaded, SendOnClosed, ReadClosed, Disconnect, DeleteSession, chanVars, connVars
<1>4. ASSUME NEW c \in Conns, NEW fromSeq \in 0..MaxSeq, Register(c, fromSeq)
      PROVE  UNCHANGED <<buf[d], sending[d]>>
  BY <1>0, <1>4 DEF Register, TypeOK, chanVars
<1>5. ASSUME NEW c \in Conns, Read(c)
      PROVE  UNCHANGED <<buf[d], sending[d]>>
  BY <1>0, <1>5 DEF Read, TypeOK
<1>6. ASSUME NEW c \in Conns, SendPending(c) \/ Flush(c), c # d
      PROVE  UNCHANGED <<buf[d], sending[d]>>
  BY <1>6 DEF SendPending, Flush, TypeOK, chanVars
<1> QED
  BY <1>1, <1>2, <1>3, <1>4, <1>5, <1>6 DEF Next, Handler

\* Subscribe takes at most 2 * Capacity + 1 steps of its own, whatever is appended
\* meanwhile; with ShortHistoryHasRoom this is what ShortHistoryReturns rests on
\* besides the scheduling.
THEOREM SubscribeWindsDown == Spec => [][SubscribeWinds]_vars
<1>1. ChannelInv /\ StandInv /\ TypeInv /\ [Next]_vars => [SubscribeWinds]_vars
  <2> SUFFICES ASSUME ChannelInv, StandInv, TypeInv, Next, NEW d \in Conns, Serving(d)
               PROVE  /\ StepsToGo(d) \in Nat
                      /\ Serving(d)' => StepsToGo(d)' <= StepsToGo(d)
                      /\ Serving(d)' /\ (SendPending(d) \/ Flush(d)) => StepsToGo(d)' < StepsToGo(d)
    BY DEF SubscribeWinds
  <2> DEFINE b == Len(buf[d])
             k == Capacity
  <2>0. TypeOK /\ ConnInv /\ CarryInv /\ b \in Nat /\ k \in Nat /\ b <= k /\ buf[d] \in Seq(Nat)
    BY StreamAssumption DEF TypeInv, TypeOK, StandInv, ChannelInv
  <2>1. StepsToGo(d) = 2 * (k - b) + (IF sending[d] = <<>> THEN 1 ELSE 0)
    BY DEF StepsToGo
  <2>2. StepsToGo(d) \in Nat
    <3> HIDE DEF b, k
    <3> QED
      BY <2>0, <2>1
  <2>3. CASE UNCHANGED <<buf[d], sending[d]>> /\ ~SendPending(d) /\ ~Flush(d)
    <3>1. StepsToGo(d)' = StepsToGo(d)
      BY <2>3 DEF StepsToGo
    <3> QED
      BY <2>2, <2>3, <3>1
  <2>4. CASE SendPending(d)
    <3>1. /\ sending[d] # <<>> /\ b < k /\ buf'[d] = Append(buf[d], Head(sending[d]))
          /\ sending[d] \in Seq(Nat)
      BY <2>0, <2>4 DEF SendPending, TypeOK
    <3>2. Len(buf'[d]) = b + 1
      <4>1. Head(sending[d]) \in Nat
        BY <3>1, HeadTailProperties
      <4> QED
        BY <2>0, <3>1, <4>1, AppendProperties
    <3>3. StepsToGo(d)' \in {2 * (k - (b + 1)) + 1, 2 * (k - (b + 1)) + 0}
      BY <3>2 DEF StepsToGo
    <3>4. StepsToGo(d) = 2 * (k - b) + 0
      BY <2>1, <3>1
    <3> HIDE DEF b, k
    <3>5. /\ 2 * (k - (b + 1)) + 1 < 2 * (k - b) + 0
          /\ 2 * (k - (b + 1)) + 0 < 2 * (k - b) + 0
      BY <2>0, <3>1, StepsToGoDown
    <3>6. StepsToGo(d)' < StepsToGo(d)
      BY <3>3, <3>4, <3>5
    <3>7. StepsToGo(d)' \in Int
      BY <2>0, <3>3
    <3> QED
      BY <2>2, <3>6, <3>7
  <2>5. CASE Flush(d)
    <3>1. buf' = buf /\ sending[d] = <<>>
      BY <2>5 DEF Flush, chanVars
    <3>2. Serving(d)' => sending'[d] # <<>>
      BY <2>0, <2>5 DEF Flush, Serving, TypeOK
    <3>3. Serving(d)' => StepsToGo(d)' = 2 * (k - b) + 0
      BY <3>1, <3>2 DEF StepsToGo
    <3>4. StepsToGo(d) = 2 * (k - b) + 1
      BY <2>1, <3>1
    <3> HIDE DEF b, k
    <3> QED
      BY <2>0, <2>2, <3>3, <3>4
  <2> QED
    BY <2>0, <2>3, <2>4, <2>5, ServedAlone
<1> QED
  BY <1>1, TypeInvAlways, StandInvAlways, ChannelInvAlways, PTL DEF Spec
-----------------------------------------------------------------------------
(***************************************************************************)
(* Order with several appenders.  Events are numbered under the mutex and  *)
(* sent after it, so a frame may overtake others: those that appenders     *)
(* still carry, and each carries one.                                      *)
(***************************************************************************)

\* The appenders other than the one whose event is looked at.
Others == IF Appenders = {} THEN 0 ELSE Cardinality(Appenders) - 1

\* Frame i of a connection is the i-th event it asked for or one of the next few:
\* it is early by no more than there are other appenders.  With one appender none
\* is early, and seq grows on a connection (api-contract-v1.md 5.3).
NearlyInOrder ==
  \A c \in Conns : \A i \in DOMAIN received[c] : received[c][i] <= start[c] + i + Others

\* The same of the frames the channel holds.
EarlyInv ==
  \A c \in Conns :
    /\ \A i \in 1..Len(received[c]) : received[c][i] <= start[c] + i + Others
    /\ \A i \in 1..Len(buf[c]) : buf[c][i] <= start[c] + Len(received[c]) + i + Others

EndedInv == \A c \in Conns : pc[c] = "ended" => closed[c]

LEMMA EndedInvAlways == Spec => []EndedInv
<1>1. Init => EndedInv
  BY DEF Init, EndedInv
<1>2. EndedInv /\ TypeInv /\ [Next]_vars => EndedInv'
  <2> SUFFICES ASSUME EndedInv, TypeInv, [Next]_vars
               PROVE  EndedInv'
    OBVIOUS
  <2> USE DEF EndedInv, TypeInv, TypeOK
  <2>1. ASSUME NEW a \in Appenders, AppendEvent(a) \/ Send(a)
        PROVE  EndedInv'
    BY <2>1 DEF AppendEvent, Send, chanVars, connVars
  <2>2. ASSUME NEW c \in Conns, CheckLoaded(c) \/ SendOnClosed(c) \/ ReadClosed(c) \/ Disconnect(c)
        PROVE  EndedInv'
    BY <2>2 DEF CheckLoaded, SendOnClosed, ReadClosed, Disconnect, chanVars
  <2>3. ASSUME NEW c \in Conns, NEW fromSeq \in 0..MaxSeq, Register(c, fromSeq)
        PROVE  EndedInv'
    BY <2>3 DEF Register, chanVars
  <2>4. ASSUME NEW c \in Conns, SendPending(c) \/ Read(c) \/ Flush(c)
        PROVE  EndedInv'
    BY <2>4 DEF SendPending, Read, Flush, chanVars
  <2>5. CASE DeleteSession \/ UNCHANGED vars
    BY <2>5 DEF DeleteSession, vars, chanVars, connVars
  <2> QED
    BY <2>1, <2>2, <2>3, <2>4, <2>5 DEF Next, Handler
<1> QED
  BY <1>1, <1>2, TypeInvAlways, PTL DEF Spec

\* No more appenders carry to one connection than there are.
LEMMA CarryingBounded ==
  ASSUME NEW c \in Conns, Carrying(c) # {}
  PROVE  Others \in Nat /\ Cardinality(Carrying(c)) - 1 <= Others
<1>1. Carrying(c) \subseteq Appenders /\ Appenders # {}
  BY DEF Carrying
<1>2. /\ Cardinality(Carrying(c)) <= Cardinality(Appenders)
      /\ Cardinality(Appenders) \in Nat /\ Cardinality(Carrying(c)) \in Nat
  BY <1>1, StreamAssumption, CarryingFinite, FS_Subset, FS_CardinalityType
<1>3. Cardinality(Appenders) # 0
  BY <1>1, StreamAssumption, FS_EmptySet
<1> QED
  BY <1>1, <1>2, <1>3 DEF Others

LEMMA OthersNat == Others \in Nat
<1>1. CASE Appenders = {}
  BY <1>1 DEF Others
<1>2. CASE Appenders # {}
  <2>1. Cardinality(Appenders) \in Nat /\ Cardinality(Appenders) # 0
    BY <1>2, StreamAssumption, FS_CardinalityType, FS_EmptySet
  <2> QED
    BY <1>2, <2>1 DEF Others
<1> QED
  BY <1>1, <1>2

LEMMA EarlySend ==
  ASSUME NEW s \in Nat, NEW n \in Nat, NEW r \in Nat, NEW b \in Nat, NEW k \in Nat, NEW m \in Nat,
         NEW q \in Nat, r + b + k = n - 1 - s, k - 1 <= m, q <= n - 1
  PROVE  q <= s + r + (b + 1) + m
OBVIOUS

LEMMA EarlyRead ==
  ASSUME NEW s \in Nat, NEW r \in Nat, NEW i \in Nat, NEW m \in Nat
  PROVE  s + r + (i + 1) + m = s + (r + 1) + i + m
OBVIOUS

LEMMA EarlyInvAlways == Spec => []EarlyInv
<1>1. Init => EarlyInv
  <2> SUFFICES ASSUME Init, NEW c \in Conns
               PROVE  Len(received[c]) = 0 /\ Len(buf[c]) = 0
    BY DEF EarlyInv
  <2> QED
    BY EmptySeq DEF Init
<1>2. /\ EarlyInv /\ CountInv /\ BacklogInv /\ StandInv /\ TypeInv /\ OpenInv /\ EndedInv
      /\ [Next]_vars
      => EarlyInv'
  <2> SUFFICES ASSUME EarlyInv, CountInv, BacklogInv, StandInv, TypeInv, OpenInv, EndedInv,
                      [Next]_vars, NEW d \in Conns
               PROVE  /\ \A i \in 1..Len(received'[d]) : received'[d][i] <= start'[d] + i + Others
                      /\ \A i \in 1..Len(buf'[d]) :
                           buf'[d][i] <= start'[d] + Len(received'[d]) + i + Others
    BY DEF EarlyInv
  <2> DEFINE Early == /\ \A i \in 1..Len(received'[d]) : received'[d][i] <= start'[d] + i + Others
                      /\ \A i \in 1..Len(buf'[d]) :
                           buf'[d][i] <= start'[d] + Len(received'[d]) + i + Others
             r == Len(received[d])
             b == Len(buf[d])
  <2>0. TypeOK /\ ConnInv /\ CarryInv
    BY DEF StandInv, TypeInv
  <2>t. /\ start[d] \in Nat /\ nextSeq \in Nat \ {0} /\ Others \in Nat /\ r \in Nat /\ b \in Nat
        /\ buf[d] \in Seq(Nat) /\ received[d] \in Seq(Nat)
    BY <2>0, OthersNat DEF TypeOK
  <2>e. /\ \A i \in 1..r : received[d][i] <= start[d] + i + Others
        /\ \A i \in 1..b : buf[d][i] <= start[d] + r + i + Others
    BY DEF EarlyInv
  <2>k. ASSUME UNCHANGED <<start[d], buf[d], received[d]>>
        PROVE  Early
    BY <2>e, <2>k
  \* An event that comes into the channel.
  <2>p. ASSUME NEW q \in Nat, UNCHANGED <<start[d], received[d]>>, buf'[d] = Append(buf[d], q),
               q <= start[d] + r + (b + 1) + Others
        PROVE  Early
    <3>1. /\ Len(buf'[d]) = b + 1 /\ \A i \in 1..b : buf'[d][i] = buf[d][i]
          /\ buf'[d][b + 1] = q
      BY <2>t, <2>p, AppendProperties
    <3>2. ASSUME NEW i \in 1..(b + 1)
          PROVE  buf'[d][i] <= start[d] + r + i + Others
      <4>1. i \in 1..b \/ i = b + 1
        <5> HIDE DEF b
        <5> QED
          BY <2>t
      <4> QED
        BY <2>e, <2>p, <3>1, <4>1
    <3> QED
      BY <2>e, <2>p, <3>1, <3>2
  <2>1. ASSUME NEW a \in Appenders, AppendEvent(a)
        PROVE  Early
    BY <2>1, <2>k DEF AppendEvent, chanVars, connVars
  <2>2. ASSUME NEW a \in Appenders, Send(a)
        PROVE  Early
    <3>0. UNCHANGED <<start, received>>
      BY <2>2 DEF Send, connVars
    <3>1. CASE buf'[d] = buf[d]
      BY <2>k, <3>0, <3>1
    <3>2. CASE cur[a] = d /\ ~closed[d] /\ buf' = [buf EXCEPT ![d] = Append(@, carried[a])]
      <4>1. ready[d] /\ a \in Carrying(d)
        BY <2>0, <3>2 DEF CarryInv, Carrying
      <4>2. registered[d]
        BY <2>0, <3>2, <4>1 DEF ConnInv, OpenInv, EndedInv
      <4>3. Counted(d)
        BY <4>1, <4>2 DEF CountInv
      <4>4. carried[a] \in Nat /\ carried[a] <= nextSeq - 1
        <5>1. carried[a] \in Carried(d)
          BY <4>1 DEF Carried
        <5>2. carried[a] \in (start[d] + 1)..(nextSeq - 1)
          BY <4>3, <5>1 DEF Counted
        <5> QED
          BY <2>t, <5>2
      <4>5. Cardinality(Carrying(d)) \in Nat /\ Cardinality(Carrying(d)) - 1 <= Others
        BY <4>1, CarryingFinite, CarryingBounded
      <4>6. r + b + Cardinality(Carrying(d)) = nextSeq - 1 - start[d]
        BY <4>3 DEF Counted
      <4>7. carried[a] <= start[d] + r + (b + 1) + Others
        <5> HIDE DEF r, b
        <5> QED
          BY <2>t, <4>4, <4>5, <4>6, EarlySend
      <4>8. buf'[d] = Append(buf[d], carried[a])
        BY <2>0, <3>2 DEF TypeOK
      <4> QED
        BY <2>p, <3>0, <4>4, <4>7, <4>8
    <3> QED
      BY <2>0, <2>2, <3>1, <3>2 DEF Send, TypeOK
  <2>3. ASSUME NEW c \in Conns,
               \/ CheckLoaded(c) \/ SendOnClosed(c) \/ ReadClosed(c) \/ Flush(c)
               \/ Disconnect(c) \/ DeleteSession
        PROVE  Early
    BY <2>3, <2>k DEF CheckLoaded, SendOnClosed, ReadClosed, Flush, Disconnect, DeleteSession,
                      chanVars, connVars
  <2>4. ASSUME NEW c \in Conns, NEW fromSeq \in 0..MaxSeq, Register(c, fromSeq)
        PROVE  Early
    <3>0. UNCHANGED <<buf, received>> /\ pc[c] = "checked"
      BY <2>4 DEF Register, chanVars
    <3>1. CASE d = c
      <4>1. Len(buf'[d]) = 0 /\ Len(received'[d]) = 0
        BY <2>0, <3>0, <3>1, EmptySeq DEF ConnInv, Unused
      <4> QED
        BY <4>1
    <3>2. CASE d # c
      BY <2>0, <2>4, <2>k, <3>0, <3>2 DEF Register, TypeOK
    <3> QED
      BY <3>1, <3>2
  <2>5. ASSUME NEW c \in Conns, SendPending(c)
        PROVE  Early
    <3>1. CASE d = c
      <4>1. /\ pc[d] = "sending" /\ ~closed[d] /\ sending[d] # <<>> /\ UNCHANGED <<start, received>>
            /\ buf'[d] = Append(buf[d], Head(sending[d])) /\ sending[d] \in Seq(Nat)
        BY <2>0, <2>5, <3>1 DEF SendPending, TypeOK
      <4>2. registered[d] /\ ~ready[d]
        BY <2>0, <4>1 DEF OpenInv, ConnInv
      <4>3. InLine(d)
        BY <4>2 DEF BacklogInv
      <4>4. Head(sending[d]) = start[d] + b + 1
        <5>1. Follows(sending[d], start[d] + b, Len(sending[d])) /\ start[d] + b \in Nat
              /\ Len(sending[d]) \in Nat
          BY <2>t, <4>1, <4>3 DEF InLine
        <5> HIDE DEF b
        <5> QED
          BY <4>1, <5>1, FollowsTail
      <4>5. Head(sending[d]) \in Nat /\ Head(sending[d]) <= start[d] + r + (b + 1) + Others
        <5> HIDE DEF r, b
        <5> QED
          BY <2>t, <4>4
      <4> QED
        BY <2>p, <4>1, <4>5
    <3>2. CASE d # c
      BY <2>0, <2>5, <2>k, <3>2 DEF SendPending, TypeOK
    <3> QED
      BY <3>1, <3>2
  <2>6. ASSUME NEW c \in Conns, Read(c)
        PROVE  Early
    <3>1. CASE d = c
      <4>1. /\ buf[d] # <<>> /\ start' = start /\ buf'[d] = Tail(buf[d])
            /\ received'[d] = Append(received[d], Head(buf[d]))
        BY <2>0, <2>6, <3>1 DEF Read, TypeOK
      <4>2. /\ Head(buf[d]) \in Nat /\ Head(buf[d]) = buf[d][1] /\ Len(Tail(buf[d])) = b - 1 /\ b >= 1
            /\ \A i \in 1..(b - 1) : Tail(buf[d])[i] = buf[d][i + 1]
        BY <2>t, <4>1, HeadTailProperties, EmptySeq
      <4>3. /\ Len(received'[d]) = r + 1 /\ \A i \in 1..r : received'[d][i] = received[d][i]
            /\ received'[d][r + 1] = Head(buf[d])
        BY <2>t, <4>1, <4>2, AppendProperties
      <4>4. buf[d][1] <= start[d] + (r + 1) + Others
        <5>1. buf[d][1] <= start[d] + r + 1 + Others
          BY <2>t, <2>e, <4>2
        <5> HIDE DEF r
        <5> QED
          BY <2>t, <5>1
      <4>5. ASSUME NEW i \in 1..(r + 1)
            PROVE  received'[d][i] <= start[d] + i + Others
        <5>1. i \in 1..r \/ i = r + 1
          <6> HIDE DEF r
          <6> QED
            BY <2>t
        <5> QED
          BY <2>e, <4>2, <4>3, <4>4, <5>1
      <4>6. ASSUME NEW i \in 1..(b - 1)
            PROVE  buf'[d][i] <= start[d] + (r + 1) + i + Others
        <5>0. i \in Nat /\ i + 1 \in 1..b /\ start[d] \in Nat /\ r \in Nat /\ Others \in Nat
          BY <2>t
        <5>1. start[d] + r + (i + 1) + Others = start[d] + (r + 1) + i + Others
          <6> HIDE DEF r, b
          <6> QED
            BY ONLY <5>0, EarlyRead
        <5> QED
          BY <2>e, <4>1, <4>2, <5>0, <5>1
      <4> QED
        BY <4>1, <4>2, <4>3, <4>5, <4>6
    <3>2. CASE d # c
      BY <2>0, <2>6, <2>k, <3>2 DEF Read, TypeOK
    <3> QED
      BY <3>1, <3>2
  <2>7. CASE UNCHANGED vars
    BY <2>7, <2>k DEF vars, chanVars, connVars
  <2> QED
    BY <2>1, <2>2, <2>3, <2>4, <2>5, <2>6, <2>7 DEF Next, Handler
<1> QED
  BY <1>1, <1>2, TypeInvAlways, StandInvAlways, BacklogInvAlways, CountInvAlways, OpenInvAlways,
     EndedInvAlways, PTL DEF Spec

\* How far the frames of a connection may be out of order, for any finite set of
\* appenders; the count of ExactlyOnce bounds what a frame can have overtaken.
THEOREM NearlyInOrderAlways == Spec => []NearlyInOrder
<1>1. EarlyInv /\ TypeInv => NearlyInOrder
  <2> SUFFICES ASSUME EarlyInv, TypeInv, NEW c \in Conns, NEW i \in DOMAIN received[c]
               PROVE  received[c][i] <= start[c] + i + Others
    BY DEF NearlyInOrder
  <2>1. i \in 1..Len(received[c])
    BY DEF TypeInv, TypeOK
  <2> QED
    BY <2>1 DEF EarlyInv
<1> QED
  BY <1>1, EarlyInvAlways, TypeInvAlways, PTL
=============================================================================
