------------------------- MODULE HistoryFollowProofs -------------------------
(***************************************************************************)
(* Proofs about HistoryFollow, for any set of subscriptions and runs.      *)
(***************************************************************************)
EXTENDS HistoryFollow, Consecutive

FollowerSteps == {"none", "tick", "leaving", "reading", "storing", "logging"}
FollowersOK == fpc \in [Conns -> FollowerSteps]

\* A follower's own steps start no other follower; the one that stops for want of
\* subscribers clears the flag in the same section.
LEMMA FollowerStep ==
  ASSUME FollowersOK, NEW c \in Conns, Follower(c)
  PROVE  /\ FollowersOK' /\ c \in Followers /\ live' = live
         /\ \/ Followers' = Followers /\ active' = active
            \/ /\ Followers' = Followers \ {c}
               /\ live => ~active'
<1> USE DEF FollowersOK, FollowerSteps, Followers, Goto, sessionVars
<1>1. CASE Tick(c)
  BY <1>1 DEF Tick
<1>2. CASE Leave(c)
  BY <1>2 DEF Leave
<1>3. CASE ReadAppended(c)
  BY <1>3 DEF ReadAppended, ReadResult
<1>4. CASE StoreOffset(c) \/ LogNext(c)
  BY <1>4 DEF StoreOffset, LogNext
<1> QED
  BY <1>1, <1>2, <1>3, <1>4 DEF Follower

\* There is at most one follower, and the flag says whether there is one.
THEOREM OneFollowerAlways == Spec => []OneFollower
<1>1. Init => FollowersOK /\ OneFollower
  BY DEF Init, FollowersOK, FollowerSteps, OneFollower, Followers
<1>2. FollowersOK /\ OneFollower /\ [Next]_vars => (FollowersOK /\ OneFollower)'
  <2> SUFFICES ASSUME FollowersOK, OneFollower, [Next]_vars
               PROVE  (FollowersOK /\ OneFollower)'
    OBVIOUS
  <2>1. CASE UNCHANGED <<live, active, fpc>>
    BY <2>1 DEF FollowersOK, OneFollower, Followers
  <2>2. ASSUME NEW c \in Conns, EnsureHistoryFollower(c)
        PROVE  (FollowersOK /\ OneFollower)'
    <3>1. CASE live /\ ~active
      <4>1. Followers = {}
        BY <3>1 DEF OneFollower
      <4>2. active' /\ fpc' = [fpc EXCEPT ![c] = "tick"]
        BY <2>2, <3>1 DEF EnsureHistoryFollower, Goto
      <4>3. FollowersOK' /\ Followers' = {c}
        BY <4>1, <4>2 DEF FollowersOK, FollowerSteps, Followers
      <4> QED
        BY <4>2, <4>3 DEF OneFollower
    <3>2. CASE ~(live /\ ~active)
      BY <2>1, <2>2, <3>2 DEF EnsureHistoryFollower
    <3> QED
      BY <3>1, <3>2
  <2>3. ASSUME NEW c \in Conns, Follower(c)
        PROVE  (FollowersOK /\ OneFollower)'
    BY <2>3, FollowerStep DEF OneFollower
  <2>4. CASE DeleteSession
    <3>1. UNCHANGED fpc /\ ~live'
      BY <2>4 DEF DeleteSession, followerVars
    <3> QED
      BY <3>1 DEF FollowersOK, OneFollower, Followers
  <2>5. ASSUME NEW c \in Conns, Register(c) \/ Unsubscribe(c)
        PROVE  (FollowersOK /\ OneFollower)'
    BY <2>1, <2>5 DEF Register, Unsubscribe, sessionVars, followerVars
  <2>6. ASSUME NEW r \in Runs, Continue(r) \/ RunStep(r)
        PROVE  (FollowersOK /\ OneFollower)'
    BY <2>1, <2>6 DEF Continue, RunStep, Resume, StatFile, SkipToEnd, sessionVars, followerVars
  <2>7. ASSUME NEW w, BeginLine(w)
        PROVE  (FollowersOK /\ OneFollower)'
    BY <2>1, <2>7 DEF BeginLine, sessionVars, followerVars
  <2>8. CASE EndLine \/ UNCHANGED vars
    BY <2>1, <2>8 DEF EndLine, vars, sessionVars, followerVars
  <2> QED
    BY <2>2, <2>3, <2>4, <2>5, <2>6, <2>7, <2>8 DEF Next
<1> QED
  BY <1>1, <1>2, PTL DEF Spec

-----------------------------------------------------------------------------
(***************************************************************************)
(* Types.  The ranges of the positions and of the lines grow with the file.*)
(***************************************************************************)
Writers == Runs \cup {Other}

\* What is left to log, and at which steps of a follower there may be any.
StepsOK ==
  /\ \A c \in Conns : fpc[c] = "logging" => events[c] # <<>>
  /\ \A c \in Conns : fpc[c] \notin {"storing", "logging"} => events[c] = <<>>

LEMMA SizeNat ==
  ASSUME file \in Seq(Writers)
  PROVE  Len(file) \in Nat /\ Size \in Nat /\ 2 * Len(file) <= Size
<1>1. Len(file) \in Nat
  OBVIOUS
<1> QED
  BY <1>1 DEF Size

\* A position that is read from or up to is one of the file, and the lines a read
\* returns are those between the two.
LEMMA BegunUpTo ==
  ASSUME NEW pos \in Nat, NEW n \in Nat
  PROVE  /\ Begun(pos) \in Nat
         /\ 2 * n > pos => Begun(2 * n) = n /\ Begun(pos) <= n
         /\ 2 * n <= pos => Begun(pos) >= n
BY DEF Begun

LEMMA LinesRead ==
  ASSUME file \in Seq(Writers), NEW pos \in 0..Size
  PROVE  /\ LinesFrom(pos) \in Seq(1..Len(file))
         /\ EndOfLines(pos) \in 0..Size
         /\ Follows(LinesFrom(pos), Begun(pos), Begun(EndOfLines(pos)) - Begun(pos))
         /\ Begun(EndOfLines(pos)) - Begun(pos) \in Nat
<1> DEFINE L == Len(file)
           b == Begun(pos)
           n == IF L > b THEN L - b ELSE 0
<1>1. L \in Nat /\ Size \in Nat /\ 2 * L <= Size /\ pos \in Nat
  BY SizeNat
<1>2. b \in Nat /\ (2 * L > pos => Begun(2 * L) = L /\ b <= L) /\ (2 * L <= pos => b >= L)
  BY <1>1, BegunUpTo
<1>3. EndOfLines(pos) = IF 2 * L > pos THEN 2 * L ELSE pos
  BY DEF EndOfLines
<1>4. LinesFrom(pos) = [k \in 1..(L - b) |-> b + k]
  BY DEF LinesFrom
<1> HIDE DEF L, b
<1>5. n \in Nat /\ 1..(L - b) = 1..n
  BY <1>1, <1>2
<1>6. Begun(EndOfLines(pos)) - b = n
  <2>1. CASE 2 * L > pos
    BY <1>1, <1>2, <1>3, <2>1
  <2>2. CASE 2 * L <= pos
    <3>1. EndOfLines(pos) = pos /\ b >= L
      BY <1>1, <1>2, <1>3, <2>2
    <3>2. Begun(EndOfLines(pos)) = b
      BY <3>1 DEF b
    <3> QED
      BY <1>1, <1>2, <3>1, <3>2
  <2> QED
    BY <1>1, <2>1, <2>2
<1>7. EndOfLines(pos) \in 0..Size
  BY <1>1, <1>3
<1>8. \A k \in 1..n : b + k \in Nat /\ b + k \in 1..L
  BY <1>1, <1>2
<1> HIDE DEF n
<1>9. LinesFrom(pos) = [k \in 1..n |-> b + k]
  BY <1>4, <1>5
<1>10. /\ [k \in 1..n |-> b + k] \in Seq(1..L) /\ [k \in 1..n |-> b + k] \in Seq(Nat)
       /\ Len([k \in 1..n |-> b + k]) = n
  BY <1>5, <1>8
<1>11. LinesFrom(pos) \in Seq(1..L) /\ Follows(LinesFrom(pos), b, n)
  BY <1>9, <1>10 DEF Follows
<1> QED
  BY <1>5, <1>6, <1>7, <1>11 DEF L, b

LEMMA SeqOfMore ==
  ASSUME NEW m \in Nat, NEW n \in Nat, m <= n, NEW s \in Seq(1..m)
  PROVE  s \in Seq(1..n)
<1>1. 1..m \subseteq 1..n
  OBVIOUS
<1> QED
  BY <1>1, SeqMonotonic

\* What a longer file leaves valid.
LEMMA FileGrows ==
  ASSUME TypeOK, StepsOK,
         file' \in Seq(Writers), partial' \in Writers \cup {Nobody},
         Len(file') >= Len(file), Size' >= Size,
         UNCHANGED <<sessionVars, conn, followerVars, runVars, first, followed>>
  PROVE  (TypeOK /\ StepsOK)'
<1> DEFINE L == Len(file)
           M == Len(file')
<1>1. L \in Nat /\ Size \in Nat
  BY SizeNat DEF TypeOK, Writers
<1>2. M \in Nat /\ Size' \in Nat
  <2>1. M \in Nat
    OBVIOUS
  <2> QED
    BY <2>1 DEF Size
<1>3. UNCHANGED <<live, offset, active, paused, conn, fpc, from, next, events, run, size, first, followed>>
  BY DEF sessionVars, followerVars, runVars
<1>4. \A x \in 0..Size : x \in 0..Size'
  BY <1>1, <1>2
<1>5. offset' \in 0..Size'
  BY <1>3, <1>4 DEF TypeOK
<1>6. from' \in [Conns -> 0..Size'] /\ next' \in [Conns -> 0..Size'] /\ size' \in [Runs -> 0..Size']
  BY <1>3, <1>4 DEF TypeOK
<1>7. \A s \in Seq(1..L) : s \in Seq(1..M)
  BY <1>1, <1>2, SeqOfMore
<1>8. events' \in [Conns -> Seq(1..M)] /\ followed' \in Seq(1..M)
  BY <1>3, <1>7 DEF TypeOK
<1>9. TypeOK'
  BY <1>3, <1>5, <1>6, <1>8 DEF TypeOK, Writers
<1>10. StepsOK'
  BY <1>3 DEF StepsOK
<1> QED
  BY <1>9, <1>10

LEMMA TypeInit == Init => TypeOK /\ StepsOK
<1> SUFFICES ASSUME Init PROVE TypeOK /\ StepsOK
  OBVIOUS
<1>1. file = <<>> /\ Len(file) = 0 /\ Size \in {0, 1}
  BY FollowAssumption DEF Init, Size
<1>2. /\ offset \in 0..Size /\ from \in [Conns -> 0..Size] /\ next \in [Conns -> 0..Size]
      /\ size \in [Runs -> 0..Size]
  BY <1>1 DEF Init
<1>3. events \in [Conns -> Seq(1..Len(file))] /\ followed \in Seq(1..Len(file)) /\ file \in Seq(Runs \cup {Other})
  BY <1>1 DEF Init
<1>4. TypeOK
  BY <1>2, <1>3 DEF Init, TypeOK
<1>5. StepsOK
  BY DEF Init, StepsOK
<1> QED
  BY <1>4, <1>5

\* The steps of a follower.
LEMMA TypeFollower ==
  ASSUME TypeOK, StepsOK, NEW c \in Conns, Follower(c)
  PROVE  (TypeOK /\ StepsOK)'
<1> DEFINE L == Len(file)
<1>1. UNCHANGED <<file, partial, live, paused, conn, run, size, first>>
  BY DEF Follower, Tick, Leave, ReadAppended, ReadResult, StoreOffset, LogNext, fileVars, sessionVars, runVars
<1>2. Size' = Size /\ Len(file') = L
  BY <1>1 DEF Size
<1>3. L \in Nat /\ Size \in Nat
  BY SizeNat DEF TypeOK, Writers
<1>4. SUFFICES /\ offset' \in 0..Size /\ active' \in BOOLEAN
               /\ fpc' \in [Conns -> FollowerSteps]
               /\ from' \in [Conns -> 0..Size] /\ next' \in [Conns -> 0..Size]
               /\ events' \in [Conns -> Seq(1..L)] /\ followed' \in Seq(1..L)
               /\ StepsOK'
  BY <1>1, <1>2, Zenon DEF TypeOK, FollowerSteps
<1>5. /\ offset \in 0..Size /\ active \in BOOLEAN /\ fpc \in [Conns -> FollowerSteps]
      /\ from \in [Conns -> 0..Size] /\ next \in [Conns -> 0..Size]
      /\ events \in [Conns -> Seq(1..L)] /\ followed \in Seq(1..L)
  BY DEF TypeOK, FollowerSteps
<1>6. CASE Tick(c)
  <2>1. /\ UNCHANGED <<offset, active, next, events, followed>> /\ fpc[c] = "tick"
        /\ from' = from \/ from' = [from EXCEPT ![c] = offset]
        /\ \E step \in {"none", "leaving", "reading"} : fpc' = [fpc EXCEPT ![c] = step]
    BY <1>6 DEF Tick, Goto, sessionVars
  <2>2. StepsOK'
    BY <1>5, <2>1 DEF StepsOK, FollowerSteps
  <2> QED
    BY <1>5, <2>1, <2>2 DEF FollowerSteps
<1>7. CASE Leave(c)
  <2>1. /\ UNCHANGED <<offset, from, next, events, followed>> /\ fpc[c] = "leaving"
        /\ active' \in BOOLEAN /\ fpc' = [fpc EXCEPT ![c] = "none"]
    BY <1>5, <1>7 DEF Leave, Goto
  <2>2. StepsOK'
    BY <1>5, <2>1 DEF StepsOK, FollowerSteps
  <2> QED
    BY <1>5, <2>1, <2>2 DEF FollowerSteps
<1>8. CASE ReadAppended(c)
  <2> DEFINE lines == LinesFrom(from[c])
             end == EndOfLines(from[c])
             step == IF end # from[c] THEN "storing" ELSE IF lines # <<>> THEN "logging" ELSE "tick"
  <2>1. /\ UNCHANGED <<offset, active, from, followed>>
        /\ events' = [events EXCEPT ![c] = lines]
        /\ next' = [next EXCEPT ![c] = end]
        /\ fpc' = [fpc EXCEPT ![c] = step]
    BY <1>8 DEF ReadAppended, ReadResult, Goto, sessionVars
  <2>2. from[c] \in 0..Size
    BY <1>5
  <2>3. lines \in Seq(1..L) /\ end \in 0..Size
    BY <2>2, LinesRead DEF TypeOK, Writers
  <2>4. end = from[c] => lines = <<>>
    <3> SUFFICES ASSUME end = from[c]
                 PROVE  lines = <<>>
      OBVIOUS
    <3>0. from[c] \in Nat
      BY <1>3, <2>2
    <3>1. Begun(from[c]) \in Nat
      BY <3>0 DEF Begun
    <3>2. Len(lines) = Begun(end) - Begun(from[c])
      BY <2>2, LinesRead DEF TypeOK, Writers, Follows
    <3>3. Len(lines) = 0
      BY <3>1, <3>2
    <3> QED
      BY <2>3, <3>3, EmptySeq
  <2> HIDE DEF lines, end
  <2>5. step \in {"storing", "tick"} /\ (step = "tick" => lines = <<>>)
    BY <2>4
  <2> HIDE DEF step
  <2>6. StepsOK'
    BY <1>5, <2>1, <2>5 DEF StepsOK
  <2> QED
    BY <1>5, <2>1, <2>3, <2>5, <2>6 DEF FollowerSteps
<1>9. CASE StoreOffset(c)
  <2> DEFINE step == IF events[c] # <<>> THEN "logging" ELSE "tick"
  <2>1. /\ UNCHANGED <<active, from, next, events, followed>>
        /\ offset' = (IF live THEN next[c] ELSE offset)
        /\ fpc' = [fpc EXCEPT ![c] = step]
    BY <1>9 DEF StoreOffset, Goto
  <2>2. step \in {"logging", "tick"} /\ (step = "logging" => events[c] # <<>>)
        /\ (step = "tick" => events[c] = <<>>)
    OBVIOUS
  <2> HIDE DEF step
  <2>3. StepsOK'
    BY <1>5, <2>1, <2>2 DEF StepsOK
  <2> QED
    BY <1>5, <2>1, <2>2, <2>3 DEF FollowerSteps
<1>10. CASE LogNext(c)
  <2> DEFINE step == IF Len(events[c]) = 1 THEN "tick" ELSE "logging"
             rest == Tail(events[c])
  <2>1. /\ UNCHANGED <<offset, active, from, next>> /\ fpc[c] = "logging"
        /\ followed' = (IF live THEN Append(followed, Head(events[c])) ELSE followed)
        /\ events' = [events EXCEPT ![c] = rest]
        /\ fpc' = [fpc EXCEPT ![c] = step]
    BY <1>10 DEF LogNext, Goto, sessionVars
  <2>2. events[c] \in Seq(1..L) /\ events[c] # <<>>
    BY <1>5, <2>1 DEF StepsOK
  <2>3. Head(events[c]) \in 1..L /\ rest \in Seq(1..L) /\ Len(rest) = Len(events[c]) - 1
    BY <2>2, HeadTailProperties
  <2>4. rest = <<>> <=> Len(events[c]) = 1
    <3>1. Len(events[c]) \in Nat /\ Len(rest) \in Nat
      BY <2>2, <2>3
    <3>2. rest = <<>> <=> Len(rest) = 0
      BY <2>3, EmptySeq
    <3> QED
      BY <2>3, <3>1, <3>2
  <2>5. followed' \in Seq(1..L)
    BY <1>5, <2>1, <2>3, AppendProperties
  <2>6. step \in {"logging", "tick"} /\ (step = "logging" <=> rest # <<>>)
    BY <2>4
  <2> HIDE DEF step, rest
  <2>7. StepsOK'
    BY <1>5, <2>1, <2>6 DEF StepsOK
  <2> QED
    BY <1>5, <2>1, <2>3, <2>5, <2>6, <2>7 DEF FollowerSteps
<1> QED
  BY <1>6, <1>7, <1>8, <1>9, <1>10 DEF Follower

\* The other steps.
LEMMA TypeNext == TypeOK /\ StepsOK /\ OneFollower /\ [Next]_vars => (TypeOK /\ StepsOK)'
<1> SUFFICES ASSUME TypeOK, StepsOK, OneFollower, [Next]_vars
             PROVE  (TypeOK /\ StepsOK)'
  OBVIOUS
<1> DEFINE L == Len(file)
           ConnStates == [Conns -> {"new", "registered", "subscribed", "left"}]
           RunStates == [Runs -> {"new", "running", "resuming", "storing", "ended"}]
<1>1. L \in Nat /\ Size \in Nat
  BY SizeNat DEF TypeOK, Writers
<1>2. /\ live \in BOOLEAN /\ offset \in 0..Size /\ active \in BOOLEAN /\ paused \in BOOLEAN
      /\ conn \in ConnStates /\ fpc \in [Conns -> FollowerSteps]
      /\ run \in RunStates /\ size \in [Runs -> 0..Size]
  BY DEF TypeOK, FollowerSteps
<1>3. ASSUME UNCHANGED <<file, partial, first, followed, from, next, events>>,
             live' \in BOOLEAN, offset' \in 0..Size, active' \in BOOLEAN, paused' \in BOOLEAN,
             conn' \in ConnStates, fpc' \in [Conns -> FollowerSteps],
             run' \in RunStates, size' \in [Runs -> 0..Size], StepsOK'
      PROVE  (TypeOK /\ StepsOK)'
  <2>1. Size' = Size /\ Len(file') = L
    BY <1>3 DEF Size
  <2> QED
    BY <1>3, <2>1, Zenon DEF TypeOK, FollowerSteps
<1>4. UNCHANGED <<fpc, events>> => StepsOK'
  BY DEF StepsOK
<1>5. ASSUME NEW w \in Writers, BeginLine(w)
      PROVE  (TypeOK /\ StepsOK)'
  <2>1. /\ file' = file /\ partial = Nobody /\ partial' = w
        /\ UNCHANGED <<sessionVars, conn, followerVars, runVars, first, followed>>
    BY <1>5 DEF BeginLine
  <2>2. Len(file') = L /\ Size' >= Size /\ file' \in Seq(Writers)
    BY <1>1, <2>1 DEF Size, TypeOK, Writers
  <2> QED
    BY <1>1, <2>1, <2>2, FileGrows
<1>6. CASE EndLine
  <2>1. /\ file' = Append(file, partial) /\ partial # Nobody /\ partial' = Nobody
        /\ UNCHANGED <<sessionVars, conn, followerVars, runVars, first, followed>>
    BY <1>6 DEF EndLine
  <2>2. file' \in Seq(Writers) /\ Len(file') = L + 1
    BY <2>1, AppendProperties DEF TypeOK, Writers
  <2>3. Size' >= Size
    BY <1>1, <2>1, <2>2 DEF Size
  <2> QED
    BY <1>1, <2>1, <2>2, <2>3, FileGrows
<1>7. ASSUME NEW c \in Conns, Register(c) \/ Unsubscribe(c)
      PROVE  (TypeOK /\ StepsOK)'
  <2>1. /\ UNCHANGED <<fileVars, sessionVars, followerVars, runVars, first, followed>>
        /\ conn' \in ConnStates
    BY <1>2, <1>7 DEF Register, Unsubscribe
  <2> QED
    BY <1>2, <1>3, <1>4, <2>1 DEF fileVars, sessionVars, followerVars, runVars
<1>8. ASSUME NEW c \in Conns, EnsureHistoryFollower(c)
      PROVE  (TypeOK /\ StepsOK)'
  <2>1. /\ UNCHANGED <<fileVars, live, offset, paused, from, next, events, runVars, first, followed>>
        /\ conn' = [conn EXCEPT ![c] = "subscribed"]
        /\ active' = active \/ active' = TRUE
        /\ fpc' = fpc \/ (live /\ ~active /\ fpc' = [fpc EXCEPT ![c] = "tick"])
    BY <1>8 DEF EnsureHistoryFollower, Goto
  <2>2. live /\ ~active => fpc[c] = "none"
    BY DEF OneFollower, Followers
  <2>3. StepsOK' /\ conn' \in ConnStates /\ fpc' \in [Conns -> FollowerSteps]
    BY <1>2, <1>4, <2>1, <2>2 DEF StepsOK, FollowerSteps
  <2> QED
    BY <1>2, <1>3, <2>1, <2>3 DEF fileVars, runVars
<1>9. ASSUME NEW c \in Conns, Follower(c)
      PROVE  (TypeOK /\ StepsOK)'
  BY <1>9, TypeFollower
<1>10. ASSUME NEW r \in Runs, Continue(r) \/ RunStep(r)
       PROVE  (TypeOK /\ StepsOK)'
  <2>1. /\ UNCHANGED <<fileVars, live, active, conn, followerVars, first, followed>>
        /\ paused' \in BOOLEAN /\ offset' \in 0..Size
        /\ run' \in RunStates /\ size' \in [Runs -> 0..Size]
    <3>1. Size \in 0..Size /\ size[r] \in 0..Size
      BY <1>1, <1>2
    <3>2. CASE Continue(r)
      BY <1>2, <3>2 DEF Continue
    <3>3. CASE Resume(r)
      BY <1>2, <3>3 DEF Resume
    <3>4. CASE StatFile(r)
      BY <1>2, <3>1, <3>4 DEF StatFile, sessionVars
    <3>5. CASE SkipToEnd(r)
      BY <1>2, <3>1, <3>5 DEF SkipToEnd
    <3> QED
      BY <1>10, <3>2, <3>3, <3>4, <3>5 DEF RunStep
  <2> QED
    BY <1>2, <1>3, <1>4, <2>1 DEF fileVars, followerVars
<1>11. CASE DeleteSession
  <2>1. /\ UNCHANGED <<fileVars, offset, active, paused, followerVars, runVars, first, followed>>
        /\ live' = FALSE /\ conn' \in ConnStates
    BY <1>2, <1>11 DEF DeleteSession
  <2> QED
    BY <1>2, <1>3, <1>4, <2>1 DEF fileVars, followerVars, runVars
<1>12. CASE UNCHANGED vars
  <2>1. UNCHANGED <<fileVars, sessionVars, conn, followerVars, runVars, first, followed>>
    BY <1>12 DEF vars
  <2> QED
    BY <1>2, <1>3, <1>4, <2>1 DEF fileVars, sessionVars, followerVars, runVars
<1> QED
  BY <1>5, <1>6, <1>7, <1>8, <1>9, <1>10, <1>11, <1>12 DEF Next, Writers

\* The variables stay in their types; no position lies beyond the end of the file.
THEOREM TypeCorrect == Spec => []TypeOK
<1>1. Init => TypeOK /\ StepsOK
  BY TypeInit
<1>2. TypeOK /\ StepsOK /\ OneFollower /\ [Next]_vars => (TypeOK /\ StepsOK)'
  BY TypeNext
<1>3. Spec => []OneFollower
  BY OneFollowerAlways
<1> QED
  BY <1>1, <1>2, <1>3, PTL DEF Spec
-----------------------------------------------------------------------------
(***************************************************************************)
(* Order.  What has been logged and what is left to log are two stretches  *)
(* of the file, one after the other, and together they reach from the      *)
(* first line to the offset.  Only a follower that has read and not yet    *)
(* stored where it stopped is ahead of it.                                 *)
(***************************************************************************)
ReadUpTo(c) == IF fpc[c] = "storing" THEN next[c] ELSE offset

FollowerInOrder(c) ==
  /\ Follows(events[c], first - 1 + Len(followed), Len(events[c]))
  /\ first + Len(followed) + Len(events[c]) = Begun(ReadUpTo(c)) + 1
  /\ fpc[c] = "reading" => from[c] = offset

InOrder ==
  live /\ NoRuns =>
    /\ Follows(followed, first - 1, Len(followed))
    /\ Followers = {} => first + Len(followed) = Begun(offset) + 1
    /\ \A c \in Followers : FollowerInOrder(c)

\* The session begins with nothing logged, before the first line that is not in
\* its history yet.
LEMMA OrderInit == Init => InOrder
<1> SUFFICES ASSUME Init PROVE InOrder
  OBVIOUS
<1>1. first - 1 \in Nat /\ Begun(offset) = first - 1
  <2>1. CASE partial = Nobody
    BY <2>1 DEF Init, Size, Begun
  <2>2. CASE partial # Nobody
    BY <2>2 DEF Init, Size, Begun
  <2> QED
    BY <2>1, <2>2
<1>2. first \in {1, 2} /\ Len(followed) = 0 /\ followed = <<>>
  BY DEF Init
<1>3. Follows(followed, first - 1, Len(followed))
  BY <1>1, <1>2, FollowsEmpty
<1>4. first + Len(followed) = Begun(offset) + 1
  BY <1>1, <1>2
<1>5. Followers = {}
  BY DEF Init, Followers
<1> QED
  BY <1>3, <1>4, <1>5 DEF InOrder

\* The only follower takes a step.
LEMMA OrderFollower ==
  ASSUME TypeOK, StepsOK, OneFollower, InOrder, NEW c \in Conns, Follower(c), live', NoRuns'
  PROVE  InOrder'
<1> DEFINE b == first - 1
           l == Len(followed)
           e == Len(events[c])
<1>1. UNCHANGED <<file, live, run, first>> /\ c \in Followers
  BY DEF Follower, Tick, Leave, ReadAppended, ReadResult, StoreOffset, LogNext, fileVars, sessionVars, runVars,
         Followers
<1>2. live /\ NoRuns
  BY <1>1 DEF NoRuns
<1>3. /\ Follows(followed, b, l)
      /\ Follows(events[c], b + l, e)
      /\ first + l + e = Begun(ReadUpTo(c)) + 1
      /\ fpc[c] = "reading" => from[c] = offset
  BY <1>1, <1>2 DEF InOrder, FollowerInOrder
<1>4. /\ first \in {1, 2} /\ b \in Nat /\ l \in Nat /\ e \in Nat /\ b + 1 = first
      /\ events[c] \in Seq(Nat) /\ followed \in Seq(Nat)
  BY <1>3 DEF TypeOK, Follows
<1>5. \A d \in Conns : d # c => fpc[d] = "none"
  BY <1>1 DEF OneFollower, Followers
<1>6. fpc \in [Conns -> FollowerSteps] /\ events \in [Conns -> Seq(1..Len(file))]
      /\ from \in [Conns -> 0..Size] /\ next \in [Conns -> 0..Size] /\ offset \in 0..Size
  BY DEF TypeOK, FollowerSteps
<1>7. ASSUME NEW step, fpc' = [fpc EXCEPT ![c] = step],
             Follows(followed', b, Len(followed')),
             step = "none" => first + Len(followed') = Begun(offset') + 1,
             step # "none" => FollowerInOrder(c)'
      PROVE  InOrder'
  <2>1. Followers' = IF step = "none" THEN {} ELSE {c}
    BY <1>5, <1>6, <1>7 DEF Followers
  <2> QED
    BY <1>1, <1>7, <2>1 DEF InOrder
<1>8. CASE Tick(c)
  <2>1. PICK step \in {"leaving", "reading"} :
             /\ fpc[c] = "tick" /\ fpc' = [fpc EXCEPT ![c] = step]
             /\ UNCHANGED <<offset, next, events, followed>>
             /\ IF step = "reading" THEN from' = [from EXCEPT ![c] = offset] ELSE from' = from
    BY <1>2, <1>8 DEF Tick, Goto, sessionVars
  <2>2. ReadUpTo(c)' = ReadUpTo(c) /\ (fpc'[c] = "reading" => from'[c] = offset')
    BY <1>6, <2>1 DEF ReadUpTo
  <2>3. FollowerInOrder(c)'
    BY <1>1, <1>3, <2>1, <2>2 DEF FollowerInOrder
  <2> QED
    BY <1>3, <1>7, <2>1, <2>3
<1>9. CASE Leave(c)
  <2>1. /\ fpc[c] = "leaving" /\ fpc' = [fpc EXCEPT ![c] = "none"]
        /\ UNCHANGED <<offset, followed>>
    BY <1>9 DEF Leave, Goto
  <2>2. e = 0
    BY <2>1 DEF StepsOK
  <2>3. first + l = Begun(offset) + 1
    <3>1. first + l + e = Begun(offset) + 1
      BY <1>3, <2>1 DEF ReadUpTo
    <3> QED
      BY <1>4, <2>2, <3>1
  <2> QED
    BY <1>3, <1>7, <2>1, <2>3
<1>10. CASE ReadAppended(c)
  <2> DEFINE lines == LinesFrom(from[c])
             end == EndOfLines(from[c])
             n == Len(lines)
             step == IF end # from[c] THEN "storing" ELSE IF lines # <<>> THEN "logging" ELSE "tick"
  <2>1. /\ fpc[c] = "reading" /\ UNCHANGED <<offset, from, followed>>
        /\ events' = [events EXCEPT ![c] = lines]
        /\ next' = [next EXCEPT ![c] = end]
        /\ fpc' = [fpc EXCEPT ![c] = step]
    BY <1>10 DEF ReadAppended, ReadResult, Goto, sessionVars
  <2>2. from[c] = offset /\ offset \in Nat
    BY <1>3, <1>6, <2>1, SizeNat DEF TypeOK, Writers
  <2>3. Follows(lines, Begun(offset), n) /\ n = Begun(end) - Begun(offset) /\ Begun(offset) \in Nat /\ n \in Nat
    BY <1>6, <2>2, LinesRead, BegunUpTo DEF TypeOK, Writers, Follows
  <2>4. e = 0 /\ ReadUpTo(c) = offset
    BY <2>1 DEF StepsOK, ReadUpTo
  <2>5. Begun(offset) = b + l
    <3>1. first + l + e = Begun(offset) + 1
      BY <1>3, <2>4
    <3> QED
      BY <1>4, <2>3, <2>4, <3>1
  <2>6. ReadUpTo(c)' = end
    BY <1>6, <2>1, <2>2 DEF ReadUpTo
  <2>7. EndOfLines(from[c]) \in 0..Size
    BY <1>6, <2>2, LinesRead DEF TypeOK, Writers
  <2>8. Begun(end) \in Nat
    BY <2>7, SizeNat, BegunUpTo DEF TypeOK, Writers
  <2>9. events'[c] = lines /\ step # "none" /\ step # "reading" /\ fpc'[c] = step
    BY <1>6, <2>1
  <2> HIDE DEF lines, end, step
  <2>10. Follows(events'[c], b + l, Len(events'[c]))
    BY <2>3, <2>5, <2>9
  <2>11. first + l + n = Begun(end) + 1
    BY <1>4, <2>3, <2>5, <2>8
  <2>12. FollowerInOrder(c)'
    BY <1>1, <2>1, <2>6, <2>9, <2>10, <2>11 DEF FollowerInOrder
  <2> QED
    BY <1>3, <1>7, <2>1, <2>9, <2>12
<1>11. CASE StoreOffset(c)
  <2> DEFINE step == IF events[c] # <<>> THEN "logging" ELSE "tick"
  <2>1. /\ fpc[c] = "storing" /\ UNCHANGED <<from, next, events, followed>>
        /\ offset' = next[c]
        /\ fpc' = [fpc EXCEPT ![c] = step]
    BY <1>2, <1>11 DEF StoreOffset, Goto
  <2>2. fpc'[c] = step /\ step # "none" /\ step # "reading" /\ step # "storing"
    BY <1>6, <2>1
  <2>3. ReadUpTo(c)' = ReadUpTo(c)
    BY <2>1, <2>2 DEF ReadUpTo
  <2>4. FollowerInOrder(c)'
    BY <1>1, <1>3, <2>1, <2>2, <2>3 DEF FollowerInOrder
  <2> QED
    BY <1>3, <1>7, <2>1, <2>2, <2>4
<1>12. CASE LogNext(c)
  <2> DEFINE step == IF Len(events[c]) = 1 THEN "tick" ELSE "logging"
  <2>1. /\ fpc[c] = "logging" /\ UNCHANGED <<offset, from>>
        /\ followed' = Append(followed, Head(events[c]))
        /\ events' = [events EXCEPT ![c] = Tail(events[c])]
        /\ fpc' = [fpc EXCEPT ![c] = step]
    BY <1>2, <1>12 DEF LogNext, Goto, sessionVars
  <2>2. events[c] # <<>>
    BY <2>1 DEF StepsOK
  <2>3. /\ Head(events[c]) = b + l + 1 /\ e \in Nat \ {0}
        /\ Follows(Tail(events[c]), b + l + 1, e - 1)
    <3>1. b + l \in Nat
      BY <1>4
    <3> HIDE DEF b, l, e
    <3> QED
      BY <1>3, <1>4, <2>2, <3>1, FollowsTail
  <2>4. Follows(followed', b, l + 1)
    <3> HIDE DEF b, l, e
    <3> QED
      BY <1>3, <1>4, <2>1, <2>3, FollowsAppend
  <2>5. Len(followed') = l + 1 /\ events'[c] = Tail(events[c]) /\ Len(events'[c]) = e - 1
    BY <1>6, <2>1, <2>3, <2>4 DEF Follows
  <2>6. fpc'[c] = step /\ step # "none" /\ step # "reading" /\ step # "storing"
    BY <1>6, <2>1
  <2>7. ReadUpTo(c)' = ReadUpTo(c)
    BY <2>1, <2>6 DEF ReadUpTo
  <2>8. first + (l + 1) + (e - 1) = first + l + e /\ b + (l + 1) = b + l + 1
    <3>1. first \in Nat
      BY <1>4
    <3> HIDE DEF b, l, e
    <3> QED
      BY <1>4, <2>3, <3>1
  <2>9. FollowerInOrder(c)'
    <3>1. Follows(events'[c], first' - 1 + Len(followed'), Len(events'[c]))
      BY <1>1, <2>3, <2>5, <2>8
    <3>2. first' + Len(followed') + Len(events'[c]) = Begun(ReadUpTo(c)') + 1
      BY <1>1, <1>3, <2>5, <2>7, <2>8
    <3> QED
      BY <2>6, <3>1, <3>2 DEF FollowerInOrder
  <2> QED
    BY <1>7, <2>1, <2>4, <2>5, <2>6, <2>9
<1> QED
  BY <1>8, <1>9, <1>10, <1>11, <1>12 DEF Follower

LEMMA OrderNext == TypeOK /\ StepsOK /\ OneFollower /\ InOrder /\ [Next]_vars => InOrder'
<1> SUFFICES ASSUME TypeOK, StepsOK, OneFollower, InOrder, [Next]_vars, live', NoRuns'
             PROVE  InOrder'
  BY DEF InOrder
<1>1. CASE UNCHANGED <<live, run, offset, fpc, from, next, events, first, followed>>
  BY <1>1 DEF InOrder, NoRuns, Followers, FollowerInOrder, ReadUpTo
<1>2. ASSUME NEW w, BeginLine(w)
      PROVE  InOrder'
  BY <1>1, <1>2 DEF BeginLine, sessionVars, followerVars, runVars
<1>3. CASE EndLine
  BY <1>1, <1>3 DEF EndLine, sessionVars, followerVars, runVars
<1>4. ASSUME NEW c \in Conns, Register(c) \/ Unsubscribe(c)
      PROVE  InOrder'
  BY <1>1, <1>4 DEF Register, Unsubscribe, sessionVars, followerVars, runVars
<1>5. ASSUME NEW c \in Conns, EnsureHistoryFollower(c)
      PROVE  InOrder'
  <2>1. UNCHANGED <<live, run, offset, from, next, events, first, followed>>
    BY <1>5 DEF EnsureHistoryFollower, runVars
  <2>2. CASE live /\ ~active
    <3>1. Followers = {} /\ fpc' = [fpc EXCEPT ![c] = "tick"]
      BY <1>5, <2>2 DEF OneFollower, EnsureHistoryFollower, Goto
    <3>2. Followers' = {c} /\ fpc'[c] = "tick" /\ events[c] = <<>>
      <4>1. fpc \in [Conns -> FollowerSteps] /\ \A d \in Conns : fpc[d] = "none"
        BY <3>1 DEF Followers, TypeOK, FollowerSteps
      <4>2. events[c] = <<>>
        BY <4>1 DEF StepsOK
      <4> QED
        BY <3>1, <4>1, <4>2 DEF Followers
    <3>3. NoRuns /\ live
      BY <2>1 DEF NoRuns
    <3>4. Follows(followed, first - 1, Len(followed)) /\ first + Len(followed) = Begun(offset) + 1
      BY <3>1, <3>3 DEF InOrder
    <3>5. first \in {1, 2} /\ Len(followed) \in Nat
      BY DEF TypeOK
    <3>6. first - 1 + Len(followed) \in Nat /\ first + Len(followed) + 0 = first + Len(followed)
      BY <3>5
    <3>7. Follows(events[c], first - 1 + Len(followed), 0) /\ Len(events[c]) = 0
      BY <3>2, <3>6, FollowsEmpty
    <3>8. ReadUpTo(c)' = offset
      BY <2>1, <3>2 DEF ReadUpTo
    <3>9. first + Len(followed) + Len(events[c]) = Begun(offset) + 1
      BY <3>4, <3>6, <3>7
    <3>10. FollowerInOrder(c)'
      BY <2>1, <3>2, <3>7, <3>8, <3>9 DEF FollowerInOrder
    <3> QED
      BY <2>1, <3>2, <3>4, <3>10 DEF InOrder
  <2>3. CASE ~(live /\ ~active)
    BY <1>1, <1>5, <2>1, <2>3 DEF EnsureHistoryFollower
  <2> QED
    BY <2>2, <2>3
<1>6. ASSUME NEW c \in Conns, Follower(c)
      PROVE  InOrder'
  BY <1>6, OrderFollower
<1>7. ASSUME NEW r \in Runs, Continue(r) \/ RunStep(r)
      PROVE  FALSE
  <2>1. run'[r] # "new"
    BY <1>7 DEF Continue, RunStep, Resume, StatFile, SkipToEnd, TypeOK
  <2> QED
    BY <2>1 DEF NoRuns
<1>8. ~DeleteSession
  BY DEF DeleteSession
<1>9. CASE UNCHANGED vars
  BY <1>1, <1>9 DEF vars, sessionVars, followerVars, runVars
<1> QED
  BY <1>2, <1>3, <1>4, <1>5, <1>6, <1>7, <1>8, <1>9 DEF Next

\* Two stretches, one after the other, are the property's sequence of lines.
LEMMA InOrderProperty == TypeOK /\ InOrder => FollowedInOrder
<1> SUFFICES ASSUME TypeOK, InOrder, live, NoRuns
             PROVE  LET f == CHOOSE c \in Followers : TRUE
                        storing == Followers # {} /\ fpc[f] = "storing"
                        all == IF Followers = {} THEN followed ELSE followed \o events[f]
                        upTo == IF storing THEN next[f] ELSE offset
                    IN  all = [i \in 1..(Begun(upTo) + 1 - first) |-> first + i - 1]
  BY DEF FollowedInOrder
<1> DEFINE b == first - 1
           l == Len(followed)
<1>1. first \in {1, 2} /\ b \in Nat /\ l \in Nat /\ Follows(followed, b, l)
  BY DEF TypeOK, InOrder
<1>2. \A n : [i \in 1..n |-> b + i] = [i \in 1..n |-> first + i - 1]
  <2> SUFFICES ASSUME NEW n, NEW i \in 1..n
               PROVE  b + i = first + i - 1
    OBVIOUS
  <2> QED
    BY <1>1
<1>3. CASE Followers = {}
  <2>1. first + l = Begun(offset) + 1
    BY <1>3 DEF InOrder
  <2>2. offset \in Nat /\ Begun(offset) \in Nat
    BY SizeNat, BegunUpTo DEF TypeOK, Writers
  <2>3. l = Begun(offset) + 1 - first
    BY <1>1, <2>1, <2>2
  <2>4. followed = [i \in 1..l |-> b + i]
    BY <1>1, FollowsValue
  <2> QED
    BY <1>2, <1>3, <2>3, <2>4
<1>4. CASE Followers # {}
  <2> DEFINE f == CHOOSE c \in Followers : TRUE
             e == Len(events[f])
  <2>1. f \in Followers /\ f \in Conns
    BY <1>4 DEF Followers
  <2> HIDE DEF f
  <2>2. Follows(events[f], b + l, e) /\ first + l + e = Begun(ReadUpTo(f)) + 1 /\ e \in Nat
    <3>1. FollowerInOrder(f)
      BY <2>1 DEF InOrder
    <3>2. events[f] \in Seq(1..Len(file))
      BY <2>1 DEF TypeOK
    <3> QED
      BY <3>1, <3>2 DEF FollowerInOrder
  <2>3. ReadUpTo(f) \in Nat /\ Begun(ReadUpTo(f)) \in Nat
    <3>1. Size \in Nat /\ next[f] \in 0..Size /\ offset \in 0..Size
      BY <2>1, SizeNat DEF TypeOK, Writers
    <3>2. ReadUpTo(f) \in Nat
      BY <3>1 DEF ReadUpTo
    <3> QED
      BY <3>2, BegunUpTo
  <2> HIDE DEF b, l, e
  <2>4. Follows(followed \o events[f], b, l + e)
    BY <1>1, <2>2, FollowsConcat
  <2>5. followed \o events[f] = [i \in 1..(l + e) |-> b + i]
    <3>1. l + e \in Nat /\ b \in Nat
      BY <1>1, <2>2
    <3> QED
      BY <2>4, <3>1, FollowsValue
  <2>6. l + e = Begun(ReadUpTo(f)) + 1 - first
    <3>1. first \in Nat
      BY <1>1
    <3> QED
      BY <1>1, <2>2, <2>3, <3>1
  <2> QED
    BY <1>2, <1>4, <2>5, <2>6 DEF b, f, ReadUpTo
<1> QED
  BY <1>3, <1>4

\* While no run of the gateway has touched the offset, the lines logged and about to
\* be logged are the lines of the file since the load, each once and in order.
THEOREM FollowedInOrderAlways == Spec => []FollowedInOrder
<1>1. Init => TypeOK /\ StepsOK /\ InOrder
  BY TypeInit, OrderInit
<1>2. TypeOK /\ StepsOK /\ OneFollower /\ InOrder /\ [Next]_vars => (TypeOK /\ StepsOK /\ InOrder)'
  BY TypeNext, OrderNext
<1>3. TypeOK /\ InOrder => FollowedInOrder
  BY InOrderProperty
<1>4. Spec => []OneFollower
  BY OneFollowerAlways
<1> QED
  BY <1>1, <1>2, <1>3, <1>4, PTL DEF Spec
-----------------------------------------------------------------------------
(***************************************************************************)
(* Steps.  What a read returns, where the offset goes, and the one way in  *)
(* which a session loses its follower.                                     *)
(***************************************************************************)
LEMMA OrderAlways == Spec => [](TypeOK /\ StepsOK /\ OneFollower /\ InOrder)
<1>1. Init => TypeOK /\ StepsOK /\ InOrder
  BY TypeInit, OrderInit
<1>2. TypeOK /\ StepsOK /\ OneFollower /\ InOrder /\ [Next]_vars => (TypeOK /\ StepsOK /\ InOrder)'
  BY TypeNext, OrderNext
<1> QED
  BY <1>1, <1>2, OneFollowerAlways, PTL DEF Spec

\* The lines a follower has read and not logged yet.
ToLog(c) == {events[c][k] : k \in DOMAIN events[c]}

\* readHistoryAppendedEvents returns, of all the complete lines since the load,
\* those that are not logged yet, and no other: it reads without the mutex, in
\* the middle of somebody's line, from where another follower may have stopped.
ReadsWhatIsLeft ==
  \A c \in Conns : ReadAppended(c) /\ live /\ NoRuns =>
    \A i \in first..Len(file) : i \in ToLog(c)' <=> ~Logged(i)

LEMMA ReadComplete == TypeOK /\ StepsOK /\ InOrder => ReadsWhatIsLeft
<1> SUFFICES ASSUME TypeOK, StepsOK, InOrder, live, NoRuns,
                    NEW c \in Conns, ReadAppended(c), NEW i \in first..Len(file)
             PROVE  i \in ToLog(c)' <=> ~Logged(i)
  BY DEF ReadsWhatIsLeft
<1> DEFINE lines == LinesFrom(from[c])
           B == Begun(offset)
           L == Len(file)
           l == Len(followed)
<1>1. fpc[c] = "reading" /\ events'[c] = lines /\ c \in Followers
  BY DEF ReadAppended, ReadResult, TypeOK, Followers
<1>2. /\ from[c] = offset /\ events[c] = <<>> /\ Follows(followed, first - 1, l)
      /\ first + l + Len(events[c]) = B + 1
  BY <1>1 DEF InOrder, FollowerInOrder, ReadUpTo, StepsOK
<1>3. first \in {1, 2} /\ L \in Nat /\ l \in Nat /\ followed \in Seq(1..L) /\ i \in Nat /\ i >= first /\ i <= L
  BY DEF TypeOK
<1>4. B \in Nat /\ first + l = B + 1
  <2>1. offset \in Nat
    BY SizeNat DEF TypeOK, Writers
  <2>2. B \in Nat /\ Len(events[c]) = 0
    BY <1>2, <2>1, BegunUpTo, EmptySeq
  <2> HIDE DEF B, l
  <2> QED
    BY <1>2, <1>3, <2>2
<1>5. DOMAIN followed = 1..l /\ \A k \in 1..l : followed[k] = first - 1 + k
  BY <1>2, <1>3 DEF Follows
<1>6. lines = [k \in 1..(L - B) |-> B + k]
  BY <1>2 DEF LinesFrom
<1> HIDE DEF lines, B, L, l
<1>7. Logged(i) <=> i <= B
  <2>1. ASSUME i <= B
        PROVE  Logged(i)
    <3>1. i - (first - 1) \in 1..l /\ first - 1 + (i - (first - 1)) = i
      BY <1>3, <1>4, <2>1
    <3> QED
      BY <1>5, <3>1 DEF Logged
  <2>2. ASSUME Logged(i)
        PROVE  i <= B
    <3>1. PICK k \in 1..l : i = first - 1 + k
      BY <1>5, <2>2 DEF Logged
    <3> QED
      BY <1>3, <1>4, <3>1
  <2> QED
    BY <2>1, <2>2
<1>8. i \in ToLog(c)' <=> i > B
  <2>1. DOMAIN lines = 1..(L - B) /\ \A k \in 1..(L - B) : lines[k] = B + k
    BY <1>6
  <2>2. ASSUME i > B
        PROVE  \E k \in 1..(L - B) : B + k = i
    <3>1. i - B \in 1..(L - B) /\ B + (i - B) = i
      BY <1>3, <1>4, <2>2
    <3> QED
      BY <3>1
  <2>3. ASSUME NEW k \in 1..(L - B), B + k = i
        PROVE  i > B
    BY <1>3, <1>4, <2>3
  <2>4. ToLog(c)' = {lines[k] : k \in DOMAIN lines}
    BY <1>1 DEF ToLog
  <2> QED
    BY <2>1, <2>2, <2>3, <2>4
<1> QED
  BY <1>3, <1>4, <1>7, <1>8

\* A read is complete while no run of the gateway has touched the offset.
THEOREM ReadsWhatIsLeftAlways == Spec => [][ReadsWhatIsLeft]_vars
BY ReadComplete, OrderAlways, PTL

\* A follower that has read stands at the offset it read from or ahead of it.
Ahead ==
  live /\ NoRuns => \A c \in Conns : fpc[c] = "storing" => next[c] >= offset

LEMMA AheadNext ==
  TypeOK /\ OneFollower /\ InOrder /\ Ahead /\ [Next]_vars => Ahead'
<1> SUFFICES ASSUME TypeOK, OneFollower, InOrder, Ahead, [Next]_vars, live', NoRuns'
             PROVE  \A d \in Conns : fpc'[d] = "storing" => next'[d] >= offset'
  BY DEF Ahead
<1>1. CASE UNCHANGED <<live, run, offset, fpc, next>>
  BY <1>1 DEF Ahead, NoRuns
<1>2. ASSUME NEW w, BeginLine(w)
      PROVE  UNCHANGED <<live, run, offset, fpc, next>>
  BY <1>2 DEF BeginLine, sessionVars, followerVars, runVars
<1>3. CASE EndLine \/ UNCHANGED vars
  BY <1>1, <1>3 DEF EndLine, vars, sessionVars, followerVars, runVars
<1>4. ASSUME NEW c \in Conns, Register(c) \/ Unsubscribe(c)
      PROVE  UNCHANGED <<live, run, offset, fpc, next>>
  BY <1>4 DEF Register, Unsubscribe, sessionVars, followerVars, runVars
<1>5. ASSUME NEW c \in Conns, EnsureHistoryFollower(c)
      PROVE  \A d \in Conns : fpc'[d] = "storing" => next'[d] >= offset'
  BY <1>5 DEF EnsureHistoryFollower, Goto, runVars, TypeOK, Ahead, NoRuns
<1>6. ASSUME NEW c \in Conns, Follower(c), NEW d \in Conns, fpc'[d] = "storing"
      PROVE  next'[d] >= offset'
  <2>1. UNCHANGED <<file, partial, run>> /\ live /\ NoRuns
    BY <1>6 DEF Follower, Tick, Leave, ReadAppended, ReadResult, StoreOffset, LogNext, fileVars, sessionVars,
                runVars, NoRuns
  <2>2. CASE Tick(c) \/ Leave(c) \/ LogNext(c)
    <3>1. fpc[d] = "storing" /\ UNCHANGED <<offset, next>>
      BY <1>6, <2>2 DEF Tick, Leave, LogNext, Goto, sessionVars, TypeOK
    <3> QED
      BY <2>1, <3>1 DEF Ahead
  <2>3. CASE StoreOffset(c)
    <3>1. fpc[c] = "storing" /\ fpc'[c] # "storing"
      BY <2>3 DEF StoreOffset, Goto, TypeOK
    <3>2. fpc[d] = "storing" /\ d # c
      BY <1>6, <2>3, <3>1 DEF StoreOffset, Goto, TypeOK
    <3> QED
      BY <3>1, <3>2 DEF OneFollower, Followers
  <2>4. CASE ReadAppended(c)
    <3>1. fpc[c] = "reading" /\ offset' = offset /\ next' = [next EXCEPT ![c] = EndOfLines(from[c])]
      BY <2>4 DEF ReadAppended, ReadResult, sessionVars
    <3>2. c \in Followers /\ from[c] = offset
      BY <2>1, <3>1 DEF Followers, InOrder, FollowerInOrder
    <3>3. d = c
      <4>1. fpc[d] # "none"
        BY <1>6, <2>4, <3>1 DEF ReadAppended, ReadResult, Goto, TypeOK
      <4> QED
        BY <3>2, <4>1 DEF OneFollower, Followers
    <3>4. Len(file) \in Nat /\ offset \in Nat
      BY SizeNat DEF TypeOK, Writers
    <3>5. EndOfLines(offset) >= offset
      BY <3>4 DEF EndOfLines
    <3> QED
      BY <3>1, <3>2, <3>3, <3>5 DEF TypeOK
  <2> QED
    BY <1>6, <2>2, <2>3, <2>4 DEF Follower
<1>7. ASSUME NEW r \in Runs, Continue(r) \/ RunStep(r)
      PROVE  FALSE
  <2>1. run'[r] # "new"
    BY <1>7 DEF Continue, RunStep, Resume, StatFile, SkipToEnd, TypeOK
  <2> QED
    BY <2>1 DEF NoRuns
<1>8. ~DeleteSession
  BY DEF DeleteSession
<1> QED
  BY <1>1, <1>2, <1>3, <1>4, <1>5, <1>6, <1>7, <1>8 DEF Next

\* historyOffset never goes back, so that no line is read a second time, however
\* followers take turns and whatever is stored outside the section that read it:
\* without runs, as resumeHistoryFollow may store a size that is older.
OffsetForward == live /\ NoRuns' => offset' >= offset

\* The offset only moves forward while no run has touched it.
THEOREM OffsetForwardAlways == Spec => [][OffsetForward]_vars
<1>1. Init => Ahead
  BY DEF Init, Ahead
<1>2. TypeOK /\ OneFollower /\ InOrder /\ Ahead /\ [Next]_vars => Ahead'
  BY AheadNext
<1>3. TypeOK /\ Ahead /\ [Next]_vars => OffsetForward
  <2> SUFFICES ASSUME TypeOK, Ahead, [Next]_vars, live, NoRuns'
               PROVE  offset' >= offset
    BY DEF OffsetForward
  <2>1. offset \in Nat
    BY SizeNat DEF TypeOK, Writers
  <2>2. CASE offset' = offset
    BY <2>1, <2>2
  <2>3. ASSUME NEW c \in Conns, StoreOffset(c)
        PROVE  offset' >= offset
    <3>1. fpc[c] = "storing" /\ offset' = next[c] /\ run' = run
      BY <2>3 DEF StoreOffset, runVars
    <3> QED
      BY <3>1 DEF Ahead, NoRuns
  <2>4. ASSUME NEW r \in Runs, SkipToEnd(r)
        PROVE  FALSE
    <3>1. run'[r] = "ended"
      BY <2>4 DEF SkipToEnd, TypeOK
    <3> QED
      BY <3>1 DEF NoRuns
  <2>5. ASSUME NEW c \in Conns, \/ Register(c) \/ EnsureHistoryFollower(c) \/ Unsubscribe(c)
                                \/ Tick(c) \/ Leave(c) \/ ReadAppended(c) \/ LogNext(c)
        PROVE  offset' = offset
    BY <2>5 DEF Register, EnsureHistoryFollower, Unsubscribe, Tick, Leave, ReadAppended, ReadResult, LogNext,
                sessionVars
  <2>6. ASSUME NEW r \in Runs, Continue(r) \/ Resume(r) \/ StatFile(r)
        PROVE  offset' = offset
    BY <2>6 DEF Continue, Resume, StatFile, sessionVars
  <2>7. ASSUME NEW w, BeginLine(w)
        PROVE  offset' = offset
    BY <2>7 DEF BeginLine, sessionVars
  <2>8. CASE EndLine \/ DeleteSession \/ UNCHANGED vars
    BY <2>2, <2>8 DEF EndLine, DeleteSession, vars, sessionVars
  <2> QED
    BY <2>2, <2>3, <2>4, <2>5, <2>6, <2>7, <2>8 DEF Next, Follower, RunStep
<1> QED
  BY <1>1, <1>2, <1>3, OrderAlways, PTL DEF Spec

\* Somebody is subscribed, and no follower is there to read for them.
Unfollowed == live /\ Followers = {} /\ \E c \in Conns : conn[c] = "subscribed"

\* A session with a subscription comes to be without a follower in one way only:
\* the follower had seen no subscription under RLock, one came and found the flag
\* set, and then the flag is cleared under Lock.  It stays so until another
\* subscription calls ensureHistoryFollower, the last one leaves or the session
\* is deleted: no tick, no run and no line repairs it.
LostOnlyByLeaving ==
  /\ ~Unfollowed /\ Unfollowed' =>
       \E c \in Conns : Leave(c) /\ \E d \in Conns : conn[d] = "subscribed"
  /\ Unfollowed /\ ~Unfollowed' =>
       DeleteSession \/ \E c \in Conns : EnsureHistoryFollower(c) \/ Unsubscribe(c)

\* The exact way to the state that the code comments do not foresee, and out of it.
THEOREM LostOnlyByLeavingAlways == Spec => [][LostOnlyByLeaving]_vars
<1>1. TypeOK /\ OneFollower /\ [Next]_vars => LostOnlyByLeaving
  <2> SUFFICES ASSUME TypeOK, OneFollower, [Next]_vars
               PROVE  LostOnlyByLeaving
    OBVIOUS
  <2>1. CASE UNCHANGED <<live, fpc, conn>>
    BY <2>1 DEF LostOnlyByLeaving, Unfollowed, Followers
  <2>2. ASSUME NEW c \in Conns, Register(c)
        PROVE  Unfollowed' <=> Unfollowed
    <3>1. /\ UNCHANGED <<live, fpc>> /\ conn[c] = "new"
          /\ conn' = [conn EXCEPT ![c] = "registered"]
      BY <2>2 DEF Register, sessionVars, followerVars
    <3>2. \A d \in Conns : conn'[d] = "subscribed" <=> conn[d] = "subscribed"
      BY <3>1 DEF TypeOK
    <3> QED
      BY <3>1, <3>2 DEF Unfollowed, Followers
  <2>3. ASSUME NEW c \in Conns, EnsureHistoryFollower(c)
        PROVE  ~Unfollowed'
    <3>1. live' = live
      BY <2>3 DEF EnsureHistoryFollower
    <3>2. CASE live /\ ~active
      <4>1. fpc'[c] = "tick"
        BY <2>3, <3>2 DEF EnsureHistoryFollower, Goto, TypeOK
      <4> QED
        BY <4>1 DEF Unfollowed, Followers
    <3>3. CASE live /\ active
      <4>1. fpc' = fpc /\ Followers # {}
        BY <2>3, <3>3 DEF EnsureHistoryFollower, OneFollower
      <4> QED
        BY <4>1 DEF Unfollowed, Followers
    <3>4. CASE ~live
      BY <3>1, <3>4 DEF Unfollowed
    <3> QED
      BY <3>2, <3>3, <3>4 DEF TypeOK
  <2>4. ASSUME NEW c \in Conns, Unsubscribe(c)
        PROVE  Unfollowed' => Unfollowed
    <3>1. UNCHANGED <<live, fpc>> /\ conn' = [conn EXCEPT ![c] = "left"]
      BY <2>4 DEF Unsubscribe, sessionVars, followerVars
    <3>2. \A d \in Conns : conn'[d] = "subscribed" => conn[d] = "subscribed"
      BY <3>1 DEF TypeOK
    <3> QED
      BY <3>1, <3>2 DEF Unfollowed, Followers
  <2>5. ASSUME NEW c \in Conns, Follower(c)
        PROVE  /\ UNCHANGED <<live, conn>> /\ ~Unfollowed
               /\ Unfollowed' => Leave(c)
    <3>1. UNCHANGED <<live, conn>> /\ fpc[c] # "none"
      BY <2>5 DEF Follower, Tick, Leave, ReadAppended, ReadResult, StoreOffset, LogNext, sessionVars
    <3>2. ASSUME live', ~Leave(c)
          PROVE  Followers' # {}
      <4>1. fpc'[c] # "none"
        BY <2>5, <3>1, <3>2 DEF Follower, Tick, ReadAppended, ReadResult, StoreOffset, LogNext, Goto, TypeOK
      <4> QED
        BY <4>1 DEF Followers
    <3> QED
      BY <3>1, <3>2 DEF Unfollowed, Followers
  <2>6. ASSUME NEW r \in Runs, Continue(r) \/ RunStep(r)
        PROVE  UNCHANGED <<live, fpc, conn>>
    BY <2>6 DEF Continue, RunStep, Resume, StatFile, SkipToEnd, sessionVars, followerVars
  <2>7. ASSUME NEW w, BeginLine(w)
        PROVE  UNCHANGED <<live, fpc, conn>>
    BY <2>7 DEF BeginLine, sessionVars, followerVars
  <2>8. CASE EndLine \/ UNCHANGED vars
    BY <2>1, <2>8 DEF EndLine, vars, sessionVars, followerVars
  <2>9. CASE DeleteSession
    BY <2>9 DEF DeleteSession, LostOnlyByLeaving, Unfollowed
  <2>10. ASSUME NEW c \in Conns, Follower(c)
         PROVE  LostOnlyByLeaving
    <3>1. ~Unfollowed /\ (Unfollowed' => Leave(c) /\ \E d \in Conns : conn[d] = "subscribed")
      BY <2>5, <2>10 DEF Unfollowed
    <3> QED
      BY <3>1 DEF LostOnlyByLeaving
  <2> QED
    BY <2>1, <2>2, <2>3, <2>4, <2>6, <2>7, <2>8, <2>9, <2>10 DEF Next, LostOnlyByLeaving
<1> QED
  BY <1>1, OrderAlways, PTL DEF Spec
-----------------------------------------------------------------------------
(***************************************************************************)
(* What holds with runs of the gateway too, although they move the offset  *)
(* back and forth: nobody goes back before the load.                       *)
(***************************************************************************)

\* The history a client was given when the session was loaded is not logged once
\* more: the line that was half written then, and those before it.
OnlyNewLines == \A k \in DOMAIN followed : followed[k] >= first

\* Every position anybody may still read from or store lies after the load.
NewInv ==
  /\ Size >= first - 1 /\ offset >= first - 1
  /\ \A c \in Conns :
       /\ fpc[c] = "reading" => from[c] >= first - 1
       /\ fpc[c] = "storing" => next[c] >= first - 1
       /\ \A k \in DOMAIN events[c] : events[c][k] >= first
  /\ \A r \in Runs : run[r] = "storing" => size[r] >= first - 1

\* A position after the load is at or after the line the load found half written.
LEMMA LinesAreNew ==
  ASSUME file \in Seq(Writers), first \in {1, 2}, NEW pos \in 0..Size, pos >= first - 1
  PROVE  /\ EndOfLines(pos) >= first - 1
         /\ \A k \in DOMAIN LinesFrom(pos) : LinesFrom(pos)[k] >= first
<1> DEFINE L == Len(file)
<1>1. L \in Nat /\ pos \in Nat
  BY SizeNat
<1>2. Begun(pos) \in Nat /\ Begun(pos) >= first - 1
  BY <1>1 DEF Begun
<1>3. EndOfLines(pos) = IF 2 * L > pos THEN 2 * L ELSE pos
  BY DEF EndOfLines
<1>4. LinesFrom(pos) = [k \in 1..(L - Begun(pos)) |-> Begun(pos) + k]
  BY DEF LinesFrom
<1> HIDE DEF L
<1>5. EndOfLines(pos) >= first - 1
  BY <1>1, <1>3
<1>6. \A k \in 1..(L - Begun(pos)) : Begun(pos) + k >= first
  BY <1>1, <1>2
<1> QED
  BY <1>4, <1>5, <1>6

\* The file only grows.
LEMMA SizeGrows ==
  ASSUME TypeOK, NewInv, [Next]_vars
  PROVE  Size' >= first - 1 /\ first' = first
<1>1. Len(file) \in Nat /\ Size \in Nat /\ first \in {1, 2} /\ Size >= first - 1
  BY SizeNat DEF TypeOK, NewInv, Writers
<1>2. CASE UNCHANGED <<fileVars, first>>
  BY <1>1, <1>2 DEF fileVars, Size
<1>3. ASSUME NEW w \in Writers, BeginLine(w)
      PROVE  Size' >= first - 1 /\ first' = first
  <2>1. file' = file /\ partial' = w /\ partial = Nobody /\ first' = first /\ w # Nobody
    BY <1>3, FollowAssumption DEF BeginLine, Writers
  <2> QED
    BY <1>1, <2>1 DEF Size
<1>4. CASE EndLine
  <2>1. Len(file') = Len(file) + 1 /\ partial' = Nobody /\ first' = first
    BY <1>4, AppendProperties DEF EndLine, TypeOK
  <2> QED
    BY <1>1, <2>1 DEF Size
<1>5. ASSUME NEW c \in Conns, Register(c) \/ EnsureHistoryFollower(c) \/ Unsubscribe(c) \/ Follower(c)
      PROVE  UNCHANGED <<fileVars, first>>
  BY <1>5 DEF Register, EnsureHistoryFollower, Unsubscribe, Follower, Tick, Leave, ReadAppended, ReadResult,
              StoreOffset, LogNext
<1>6. ASSUME NEW r \in Runs, Continue(r) \/ RunStep(r)
      PROVE  UNCHANGED <<fileVars, first>>
  BY <1>6 DEF Continue, RunStep, Resume, StatFile, SkipToEnd
<1>7. CASE DeleteSession \/ UNCHANGED vars
  BY <1>2, <1>7 DEF DeleteSession, vars
<1> QED
  BY <1>2, <1>3, <1>4, <1>5, <1>6, <1>7 DEF Next, Writers

LEMMA NewNext ==
  TypeOK /\ StepsOK /\ OnlyNewLines /\ NewInv /\ [Next]_vars => (OnlyNewLines /\ NewInv)'
<1> SUFFICES ASSUME TypeOK, StepsOK, OnlyNewLines, NewInv, [Next]_vars
             PROVE  (OnlyNewLines /\ NewInv)'
  OBVIOUS
<1> DEFINE FollowerNew(c) ==
             /\ fpc[c] = "reading" => from[c] >= first - 1
             /\ fpc[c] = "storing" => next[c] >= first - 1
             /\ \A k \in DOMAIN events[c] : events[c][k] >= first
<1>1. Size' >= first - 1 /\ first' = first
  BY SizeGrows
<1>2. ASSUME offset' >= first - 1, UNCHANGED <<followerVars, followed>>,
             \A r \in Runs : run'[r] = "storing" => size'[r] >= first - 1
      PROVE  (OnlyNewLines /\ NewInv)'
  BY <1>1, <1>2 DEF OnlyNewLines, NewInv, followerVars
<1>3. ASSUME UNCHANGED <<offset, runVars, followerVars, followed>>
      PROVE  (OnlyNewLines /\ NewInv)'
  BY <1>2, <1>3 DEF NewInv, runVars
<1>4. ASSUME offset' >= first - 1, UNCHANGED runVars, NEW c \in Conns, FollowerNew(c)', OnlyNewLines',
             \A d \in Conns : d # c => UNCHANGED <<fpc[d], from[d], next[d], events[d]>>
      PROVE  (OnlyNewLines /\ NewInv)'
  <2>1. \A d \in Conns : FollowerNew(d)'
    BY <1>1, <1>4 DEF NewInv
  <2> QED
    BY <1>1, <1>4, <2>1 DEF NewInv, runVars
<1>5. ASSUME NEW w, BeginLine(w)
      PROVE  (OnlyNewLines /\ NewInv)'
  BY <1>3, <1>5 DEF BeginLine, sessionVars
<1>6. ASSUME NEW c \in Conns, Register(c) \/ Unsubscribe(c)
      PROVE  (OnlyNewLines /\ NewInv)'
  BY <1>3, <1>6 DEF Register, Unsubscribe, sessionVars
<1>7. CASE EndLine \/ DeleteSession
  BY <1>3, <1>7 DEF EndLine, DeleteSession, sessionVars
<1>8. ASSUME NEW c \in Conns, EnsureHistoryFollower(c)
      PROVE  (OnlyNewLines /\ NewInv)'
  <2>1. UNCHANGED <<offset, runVars, from, next, events, followed>>
    BY <1>8 DEF EnsureHistoryFollower
  <2>2. fpc' = fpc \/ fpc' = [fpc EXCEPT ![c] = "tick"]
    BY <1>8 DEF EnsureHistoryFollower, Goto
  <2>3. FollowerNew(c)' /\ OnlyNewLines' /\ \A d \in Conns : d # c => fpc'[d] = fpc[d]
    BY <1>1, <2>1, <2>2 DEF NewInv, OnlyNewLines, TypeOK
  <2> QED
    BY <1>4, <2>1, <2>3 DEF NewInv
<1>9. ASSUME NEW c \in Conns, Tick(c)
      PROVE  (OnlyNewLines /\ NewInv)'
  <2>1. UNCHANGED <<offset, runVars, next, events, followed>>
    BY <1>9 DEF Tick, sessionVars
  <2>2. PICK step \in {"none", "leaving", "reading"} :
             /\ fpc' = [fpc EXCEPT ![c] = step]
             /\ IF step = "reading" THEN from' = [from EXCEPT ![c] = offset] ELSE from' = from
    BY <1>9 DEF Tick, Goto
  <2>3. FollowerNew(c)' /\ OnlyNewLines'
    BY <1>1, <2>1, <2>2 DEF NewInv, OnlyNewLines, TypeOK
  <2>4. \A d \in Conns : d # c => fpc'[d] = fpc[d] /\ from'[d] = from[d]
    BY <2>2 DEF TypeOK
  <2> QED
    BY <1>4, <2>1, <2>3, <2>4 DEF NewInv
<1>10. ASSUME NEW c \in Conns, Leave(c)
       PROVE  (OnlyNewLines /\ NewInv)'
  <2>1. UNCHANGED <<offset, runVars, from, next, events, followed>> /\ fpc' = [fpc EXCEPT ![c] = "none"]
    BY <1>10 DEF Leave, Goto
  <2>2. FollowerNew(c)' /\ OnlyNewLines' /\ \A d \in Conns : d # c => fpc'[d] = fpc[d]
    BY <1>1, <2>1 DEF NewInv, OnlyNewLines, TypeOK
  <2> QED
    BY <1>4, <2>1, <2>2 DEF NewInv
<1>11. ASSUME NEW c \in Conns, ReadAppended(c)
       PROVE  (OnlyNewLines /\ NewInv)'
  <2>1. /\ UNCHANGED <<offset, runVars, from, followed>> /\ fpc[c] = "reading"
        /\ next' = [next EXCEPT ![c] = EndOfLines(from[c])]
        /\ events' = [events EXCEPT ![c] = LinesFrom(from[c])]
    BY <1>11 DEF ReadAppended, ReadResult, sessionVars
  <2>2. PICK step \in {"storing", "logging", "tick"} : fpc' = [fpc EXCEPT ![c] = step]
    BY <1>11 DEF ReadAppended, ReadResult, Goto
  <2>3. /\ EndOfLines(from[c]) >= first - 1
        /\ \A k \in DOMAIN LinesFrom(from[c]) : LinesFrom(from[c])[k] >= first
    <3>1. from[c] \in 0..Size /\ from[c] >= first - 1 /\ first \in {1, 2} /\ file \in Seq(Writers)
      BY <2>1 DEF NewInv, TypeOK, Writers
    <3> QED
      BY <3>1, LinesAreNew
  <2>4. events'[c] = LinesFrom(from[c]) /\ next'[c] = EndOfLines(from[c]) /\ fpc'[c] # "reading"
    BY <2>1, <2>2 DEF TypeOK
  <2>5. FollowerNew(c)' /\ OnlyNewLines'
    BY <1>1, <2>1, <2>3, <2>4 DEF OnlyNewLines
  <2>6. \A d \in Conns : d # c => UNCHANGED <<fpc[d], next[d], events[d]>>
    BY <2>1, <2>2 DEF TypeOK
  <2> QED
    BY <1>4, <2>1, <2>5, <2>6 DEF NewInv
<1>12. ASSUME NEW c \in Conns, StoreOffset(c)
       PROVE  (OnlyNewLines /\ NewInv)'
  <2>1. /\ UNCHANGED <<runVars, from, next, events, followed>> /\ fpc[c] = "storing"
        /\ offset' \in {next[c], offset}
    BY <1>12 DEF StoreOffset
  <2>2. PICK step \in {"logging", "tick"} : fpc' = [fpc EXCEPT ![c] = step]
    BY <1>12 DEF StoreOffset, Goto
  <2>3. offset' >= first - 1
    BY <2>1 DEF NewInv
  <2>4. FollowerNew(c)' /\ OnlyNewLines' /\ \A d \in Conns : d # c => fpc'[d] = fpc[d]
    BY <1>1, <2>1, <2>2 DEF NewInv, OnlyNewLines, TypeOK
  <2> QED
    BY <1>4, <2>1, <2>3, <2>4
<1>13. ASSUME NEW c \in Conns, LogNext(c)
       PROVE  (OnlyNewLines /\ NewInv)'
  <2>1. /\ UNCHANGED <<offset, runVars, from, next>> /\ fpc[c] = "logging"
        /\ followed' \in {Append(followed, Head(events[c])), followed}
        /\ events' = [events EXCEPT ![c] = Tail(events[c])]
    BY <1>13 DEF LogNext, sessionVars
  <2>2. PICK step \in {"logging", "tick"} : fpc' = [fpc EXCEPT ![c] = step]
    BY <1>13 DEF LogNext, Goto
  <2>3. /\ events[c] # <<>> /\ events[c] \in Seq(Nat) /\ followed \in Seq(Nat)
    <3>1. 1..Len(file) \subseteq Nat
      OBVIOUS
    <3> QED
      BY <2>1, <3>1, SeqMonotonic DEF StepsOK, TypeOK
  <2>4. /\ Head(events[c]) >= first /\ Head(events[c]) \in Nat
        /\ \A k \in DOMAIN Tail(events[c]) : Tail(events[c])[k] >= first
    <3>1. /\ Head(events[c]) = events[c][1] /\ 1 \in DOMAIN events[c]
          /\ \A k \in DOMAIN Tail(events[c]) :
               k + 1 \in DOMAIN events[c] /\ Tail(events[c])[k] = events[c][k + 1]
      BY <2>3, HeadTailProperties, EmptySeq
    <3> QED
      BY <2>3, <3>1 DEF NewInv
  <2>5. OnlyNewLines'
    <3>1. \A k \in DOMAIN Append(followed, Head(events[c])) :
            k \in DOMAIN followed \/ Append(followed, Head(events[c]))[k] = Head(events[c])
      BY <2>3, <2>4, AppendProperties
    <3>2. \A k \in DOMAIN followed : Append(followed, Head(events[c]))[k] = followed[k]
      BY <2>3, <2>4, AppendProperties
    <3> QED
      BY <1>1, <2>1, <2>4, <3>1, <3>2 DEF OnlyNewLines
  <2>6. FollowerNew(c)'
    BY <1>1, <2>1, <2>2, <2>4 DEF TypeOK
  <2>7. \A d \in Conns : d # c => UNCHANGED <<fpc[d], events[d]>>
    BY <2>1, <2>2 DEF TypeOK
  <2> QED
    BY <1>4, <2>1, <2>5, <2>6, <2>7 DEF NewInv
<1>14. ASSUME NEW r \in Runs, Continue(r) \/ RunStep(r)
       PROVE  (OnlyNewLines /\ NewInv)'
  <2>1. CASE Continue(r) \/ Resume(r)
    BY <1>2, <1>14, <2>1 DEF Continue, Resume, NewInv, TypeOK
  <2>2. CASE StatFile(r)
    BY <1>2, <2>2 DEF StatFile, sessionVars, NewInv, TypeOK
  <2>3. CASE SkipToEnd(r)
    BY <1>2, <2>3 DEF SkipToEnd, NewInv, TypeOK
  <2> QED
    BY <1>14, <2>1, <2>2, <2>3 DEF RunStep
<1>15. CASE UNCHANGED vars
  BY <1>3, <1>15 DEF vars, sessionVars
<1> QED
  BY <1>5, <1>6, <1>7, <1>8, <1>9, <1>10, <1>11, <1>12, <1>13, <1>14, <1>15 DEF Next, Follower

\* No run, pause or stale offset makes the follower repeat what the load has read.
THEOREM OnlyNewLinesAlways == Spec => []OnlyNewLines
<1>1. Init => OnlyNewLines /\ NewInv
  BY FollowAssumption, EmptySeq DEF Init, OnlyNewLines, NewInv, Size
<1>2. TypeOK /\ StepsOK /\ OnlyNewLines /\ NewInv /\ [Next]_vars => (OnlyNewLines /\ NewInv)'
  BY NewNext
<1> QED
  BY <1>1, <1>2, OrderAlways, PTL DEF Spec
-----------------------------------------------------------------------------
(***************************************************************************)
(* How long a line waits for a follower.                                   *)
(***************************************************************************)

\* A complete line, not logged yet, in a session that has a follower.
Owed(c, i) == live /\ NoRuns /\ c \in Followers /\ i \in first..Len(file) /\ ~Logged(i)

\* The lines to log up to this one, and the turns the loop takes besides.
LinesUpTo(i) == i + 1 - (first + Len(followed))

Turns(c, i) ==
  CASE fpc[c] = "leaving" -> 0
    [] fpc[c] # "leaving" /\ i \in ToLog(c) -> IF fpc[c] = "storing" THEN 1 ELSE 0
    [] fpc[c] = "reading" /\ i \notin ToLog(c) -> 2
    [] fpc[c] \in {"tick", "logging"} /\ i \notin ToLog(c) -> 3
    [] fpc[c] = "storing" /\ i \notin ToLog(c) -> 4

StepsToLog(c, i) == LinesUpTo(i) + Turns(c, i)

\* Each step of the follower brings a line that is owed nearer to the log, and no
\* step of a writer, a subscription or another goroutine puts it off; the
\* follower is not paused meanwhile.
FollowerWinds ==
  \A c \in Conns, i \in Nat : Owed(c, i) =>
    /\ StepsToLog(c, i) \in Nat \ {0} /\ ~paused
    /\ Owed(c, i)' => StepsToLog(c, i)' <= StepsToLog(c, i)
    /\ Owed(c, i)' /\ Follower(c) => StepsToLog(c, i)' < StepsToLog(c, i)

\* What is owed, in numbers.
LEMMA OwedLines ==
  ASSUME TypeOK, InOrder, NEW c \in Conns, NEW i \in Nat, Owed(c, i)
  PROVE  /\ LinesUpTo(i) \in Nat \ {0}
         /\ i \in ToLog(c) <=> i < first + Len(followed) + Len(events[c])
<1> DEFINE l == Len(followed)
           e == Len(events[c])
           b == first - 1
<1>1. /\ Follows(followed, b, l) /\ Follows(events[c], b + l, e)
      /\ i >= first /\ ~Logged(i)
  BY DEF Owed, InOrder, FollowerInOrder
<1>2. first \in {1, 2} /\ b \in Nat /\ l \in Nat /\ e \in Nat
  BY DEF TypeOK
<1>3. /\ DOMAIN followed = 1..l /\ \A k \in 1..l : followed[k] = b + k
      /\ DOMAIN events[c] = 1..e /\ \A k \in 1..e : events[c][k] = b + l + k
  BY <1>1, <1>2 DEF Follows
<1> HIDE DEF l, e
<1>4. i >= first + l
  <2> SUFFICES ASSUME i < first + l
               PROVE  FALSE
    BY <1>2
  <2>1. i - b \in 1..l /\ b + (i - b) = i
    BY <1>1, <1>2
  <2> QED
    BY <1>1, <1>3, <2>1 DEF Logged
<1>5. ASSUME i \in ToLog(c)
      PROVE  i < first + l + e
  <2>1. PICK k \in 1..e : i = b + l + k
    BY <1>3, <1>5 DEF ToLog
  <2> QED
    BY <1>2, <2>1
<1>6. ASSUME i < first + l + e
      PROVE  i \in ToLog(c)
  <2>1. i - (b + l) \in 1..e /\ b + l + (i - (b + l)) = i
    BY <1>2, <1>4, <1>6
  <2> QED
    BY <1>3, <2>1 DEF ToLog
<1>7. i + 1 - (first + l) \in Nat \ {0}
  BY <1>2, <1>4
<1> QED
  BY <1>5, <1>6, <1>7 DEF LinesUpTo, l, e

OwedInv ==
  \A c \in Conns, i \in Nat : Owed(c, i) =>
    /\ LinesUpTo(i) \in Nat \ {0} /\ Turns(c, i) \in Nat
    /\ i \in ToLog(c) <=> i < first + Len(followed) + Len(events[c])

LEMMA OwedNumbers == TypeOK /\ InOrder => OwedInv
<1>1. ASSUME TypeOK, NEW c \in Conns, NEW i, Owed(c, i)
      PROVE  Turns(c, i) \in Nat
  BY <1>1 DEF Turns, TypeOK, Followers, Owed
<1> QED
  BY <1>1, OwedLines DEF OwedInv

\* The follower's own steps.
LEMMA OwnStep ==
  ASSUME TypeOK, StepsOK, InOrder, OwedInv, OwedInv',
         NEW c \in Conns, NEW i \in Nat, Owed(c, i), Owed(c, i)', Follower(c)
  PROVE  StepsToLog(c, i)' < StepsToLog(c, i)
<1> DEFINE l == Len(followed)
           e == Len(events[c])
           D == LinesUpTo(i)
<1>1. /\ D \in Nat \ {0} /\ (i \in ToLog(c) <=> i < first + l + e) /\ live /\ live' /\ fpc'[c] # "none"
      /\ D' \in Nat \ {0} /\ (i \in ToLog(c)' <=> i < first' + Len(followed') + Len(events'[c]))
  BY DEF OwedInv, Owed, Followers
<1>2. first' = first /\ first \in {1, 2} /\ l \in Nat /\ e \in Nat /\ events[c] \in Seq(1..Len(file))
  <2>1. first' = first
    BY DEF Follower, Tick, Leave, ReadAppended, ReadResult, StoreOffset, LogNext
  <2> QED
    BY <2>1 DEF TypeOK
<1>3. Turns(c, i) \in Nat /\ Turns(c, i)' \in Nat
  BY DEF OwedInv
<1>4. ASSUME Len(followed') = l, Turns(c, i)' < Turns(c, i)
      PROVE  StepsToLog(c, i)' < StepsToLog(c, i)
  <2>1. D' = D
    BY <1>2, <1>4 DEF LinesUpTo
  <2> HIDE DEF D
  <2>2. D + Turns(c, i)' < D + Turns(c, i)
    BY <1>1, <1>3, <1>4
  <2> QED
    BY <2>1, <2>2 DEF StepsToLog, D
<1>5. CASE Tick(c)
  <2>1. fpc[c] = "tick" /\ fpc'[c] \in {"leaving", "reading"} /\ UNCHANGED <<events, followed>>
    BY <1>1, <1>5 DEF Tick, Goto, TypeOK
  <2>2. i \notin ToLog(c) /\ i \notin ToLog(c)'
    <3>1. events[c] = <<>>
      BY <2>1 DEF StepsOK
    <3> QED
      BY <2>1, <3>1, EmptySeq DEF ToLog
  <2>3. Turns(c, i) = 3 /\ Turns(c, i)' \in {0, 2}
    BY <2>1, <2>2 DEF Turns
  <2> QED
    BY <1>4, <2>1, <2>3
<1>6. ~Leave(c)
  BY <1>1 DEF Leave, Goto, TypeOK
<1>7. CASE ReadAppended(c)
  <2>1. fpc[c] = "reading" /\ fpc'[c] \in {"storing", "logging", "tick"} /\ UNCHANGED followed
    BY <1>7 DEF ReadAppended, ReadResult, Goto, TypeOK
  <2>2. i \notin ToLog(c)
    <3>1. events[c] = <<>>
      BY <2>1 DEF StepsOK
    <3> QED
      BY <3>1, EmptySeq DEF ToLog
  <2>3. i \in ToLog(c)'
    BY <1>7, ReadComplete DEF ReadsWhatIsLeft, Owed
  <2>4. Turns(c, i) = 2 /\ Turns(c, i)' \in {0, 1}
    BY <2>1, <2>2, <2>3 DEF Turns
  <2> QED
    BY <1>4, <2>1, <2>4
<1>8. CASE StoreOffset(c)
  <2>1. fpc[c] = "storing" /\ fpc'[c] \in {"logging", "tick"} /\ UNCHANGED <<events, followed>>
    BY <1>8 DEF StoreOffset, Goto, TypeOK
  <2>2. ToLog(c)' = ToLog(c)
    BY <2>1 DEF ToLog
  <2>3. \/ Turns(c, i) = 1 /\ Turns(c, i)' = 0
        \/ Turns(c, i) = 4 /\ Turns(c, i)' = 3
    BY <2>1, <2>2 DEF Turns
  <2> QED
    BY <1>4, <2>1, <2>3
<1>9. CASE LogNext(c)
  <2>1. /\ fpc[c] = "logging" /\ fpc'[c] \in {"logging", "tick"}
        /\ followed' = Append(followed, Head(events[c])) /\ events'[c] = Tail(events[c])
    BY <1>1, <1>9 DEF LogNext, Goto, TypeOK
  <2>2. events[c] # <<>>
    BY <2>1 DEF StepsOK
  <2>3. Len(followed') = l + 1 /\ Len(events'[c]) = e - 1
    <3>1. Head(events[c]) \in 1..Len(file) /\ Len(Tail(events[c])) = e - 1
      BY <1>2, <2>2, HeadTailProperties
    <3>2. followed \in Seq(1..Len(file))
      BY DEF TypeOK
    <3> QED
      BY <2>1, <3>1, <3>2, AppendProperties
  <2>4. first + (l + 1) + (e - 1) = first + l + e
    <3> HIDE DEF l, e
    <3> QED
      BY <1>2
  <2>5. i \in ToLog(c)' <=> i \in ToLog(c)
    BY <1>1, <1>2, <2>3, <2>4
  <2>6. Turns(c, i)' = Turns(c, i)
    BY <2>1, <2>5 DEF Turns
  <2>7. D' = D - 1
    <3>1. i + 1 - (first + (l + 1)) = i + 1 - (first + l) - 1
      <4> HIDE DEF l
      <4> QED
        BY <1>2
    <3> QED
      BY <1>2, <2>3, <3>1 DEF LinesUpTo
  <2>8. D - 1 + Turns(c, i) < D + Turns(c, i)
    <3> HIDE DEF D
    <3> QED
      BY <1>1, <1>3
  <2> QED
    BY <2>6, <2>7, <2>8 DEF StepsToLog
<1> QED
  BY <1>5, <1>6, <1>7, <1>8, <1>9 DEF Follower

\* Everybody else's steps.
LEMMA OthersStep ==
  ASSUME TypeOK, OneFollower, [Next]_vars,
         NEW c \in Conns, NEW i \in Nat, Owed(c, i), Owed(c, i)', ~Follower(c)
  PROVE  StepsToLog(c, i)' = StepsToLog(c, i)
<1>1. CASE UNCHANGED <<first, followed, fpc, events>>
  BY <1>1 DEF StepsToLog, LinesUpTo, Turns, ToLog
<1>2. ASSUME NEW d \in Conns, EnsureHistoryFollower(d)
      PROVE  UNCHANGED <<first, followed, fpc, events>>
  BY <1>2 DEF EnsureHistoryFollower, OneFollower, Owed
<1>3. ASSUME NEW d \in Conns, Register(d) \/ Unsubscribe(d)
      PROVE  UNCHANGED <<first, followed, fpc, events>>
  BY <1>3 DEF Register, Unsubscribe, followerVars
<1>4. ASSUME NEW d \in Conns, Follower(d)
      PROVE  FALSE
  <2>1. d \in Followers
    BY <1>4 DEF Follower, Tick, Leave, ReadAppended, StoreOffset, LogNext, Followers
  <2> QED
    BY <1>4, <2>1 DEF OneFollower, Owed
<1>5. ASSUME NEW r \in Runs, Continue(r) \/ RunStep(r)
      PROVE  UNCHANGED <<first, followed, fpc, events>>
  BY <1>5 DEF Continue, RunStep, Resume, StatFile, SkipToEnd, followerVars
<1>6. ASSUME NEW w, BeginLine(w)
      PROVE  UNCHANGED <<first, followed, fpc, events>>
  BY <1>6 DEF BeginLine, followerVars
<1>7. CASE EndLine \/ DeleteSession \/ UNCHANGED vars
  BY <1>1, <1>7 DEF EndLine, DeleteSession, vars, followerVars
<1> QED
  BY <1>1, <1>2, <1>3, <1>4, <1>5, <1>6, <1>7 DEF Next

\* Only a run pauses the follower.
NotPaused == NoRuns => ~paused

LEMMA NotPausedAlways == Spec => []NotPaused
<1>1. Init => NotPaused
  BY DEF Init, NotPaused
<1>2. TypeOK /\ NotPaused /\ [Next]_vars => NotPaused'
  <2> SUFFICES ASSUME TypeOK, NotPaused, [Next]_vars, NoRuns'
               PROVE  ~paused'
    BY DEF NotPaused
  <2>1. CASE UNCHANGED <<run, paused>>
    BY <2>1 DEF NotPaused, NoRuns
  <2>2. ASSUME NEW r \in Runs, Continue(r) \/ RunStep(r)
        PROVE  FALSE
    <3>1. run'[r] # "new"
      BY <2>2 DEF Continue, RunStep, Resume, StatFile, SkipToEnd, TypeOK
    <3> QED
      BY <3>1 DEF NoRuns
  <2>3. ASSUME NEW c \in Conns, Register(c) \/ EnsureHistoryFollower(c) \/ Unsubscribe(c) \/ Follower(c)
        PROVE  UNCHANGED <<run, paused>>
    BY <2>3 DEF Register, EnsureHistoryFollower, Unsubscribe, Follower, Tick, Leave, ReadAppended, ReadResult,
                StoreOffset, LogNext, sessionVars, runVars
  <2>4. ASSUME NEW w, BeginLine(w)
        PROVE  UNCHANGED <<run, paused>>
    BY <2>4 DEF BeginLine, sessionVars, runVars
  <2>5. CASE EndLine \/ DeleteSession \/ UNCHANGED vars
    BY <2>1, <2>5 DEF EndLine, DeleteSession, vars, sessionVars, runVars
  <2> QED
    BY <2>1, <2>2, <2>3, <2>4, <2>5 DEF Next
<1> QED
  BY <1>1, <1>2, OrderAlways, PTL DEF Spec

\* A line that is owed is logged within a number of steps of the follower that is
\* fixed when the line is complete: what FollowerDelivers rests on besides the
\* scheduling, for a file that never stops growing.
THEOREM FollowerWindsDown == Spec => [][FollowerWinds]_vars
<1>1. /\ TypeOK /\ StepsOK /\ OneFollower /\ InOrder /\ OwedInv /\ OwedInv' /\ NotPaused
      /\ [Next]_vars
      => FollowerWinds
  <2> SUFFICES ASSUME TypeOK, StepsOK, OneFollower, InOrder, OwedInv, OwedInv', NotPaused, [Next]_vars,
                      NEW c \in Conns, NEW i \in Nat, Owed(c, i)
               PROVE  /\ StepsToLog(c, i) \in Nat \ {0} /\ ~paused
                      /\ Owed(c, i)' => StepsToLog(c, i)' <= StepsToLog(c, i)
                      /\ Owed(c, i)' /\ Follower(c) => StepsToLog(c, i)' < StepsToLog(c, i)
    BY DEF FollowerWinds
  <2>1. StepsToLog(c, i) \in Nat \ {0}
    <3>1. LinesUpTo(i) \in Nat \ {0} /\ Turns(c, i) \in Nat
      BY DEF OwedInv
    <3> QED
      BY <3>1 DEF StepsToLog
  <2>2. ~paused
    BY DEF NotPaused, Owed
  <2>3. ASSUME Owed(c, i)'
        PROVE  StepsToLog(c, i)' \in Nat
    <3>1. LinesUpTo(i)' \in Nat /\ Turns(c, i)' \in Nat
      BY <2>3 DEF OwedInv
    <3> QED
      BY <3>1 DEF StepsToLog
  <2>4. ASSUME Owed(c, i)', Follower(c)
        PROVE  StepsToLog(c, i)' < StepsToLog(c, i)
    BY <2>4, OwnStep
  <2>5. ASSUME Owed(c, i)', ~Follower(c)
        PROVE  StepsToLog(c, i)' = StepsToLog(c, i)
    BY <2>5, OthersStep
  <2> QED
    BY <2>1, <2>2, <2>3, <2>4, <2>5
<1> QED
  BY <1>1, OwedNumbers, OrderAlways, NotPausedAlways, PTL DEF Spec
=============================================================================
