----------------------------- MODULE SchedProofs -----------------------------
(***************************************************************************)
(* Proofs about the scheduler model Sched, for every value of the          *)
(* constants that satisfies SchedAssumption.                               *)
(***************************************************************************)
EXTENDS Sched, SequenceTheorems, TLAPS

\* Removing the element at a valid position keeps a sequence over S.
LEMMA RemoveAtType ==
    ASSUME NEW S, NEW s \in Seq(S), NEW i \in 1..Len(s)
    PROVE  /\ RemoveAt(s, i) \in Seq(S)
           /\ Len(RemoveAt(s, i)) = Len(s) - 1
<1>1. SubSeq(s, 1, i - 1) \in Seq(S) /\ Len(SubSeq(s, 1, i - 1)) = i - 1
  BY SubSeqProperties
<1>2. SubSeq(s, i + 1, Len(s)) \in Seq(S) /\ Len(SubSeq(s, i + 1, Len(s))) = Len(s) - i
  BY SubSeqProperties
<1> DEFINE a == SubSeq(s, 1, i - 1)
           b == SubSeq(s, i + 1, Len(s))
<1>3. a \o b \in Seq(S) /\ Len(a \o b) = Len(a) + Len(b)
  BY <1>1, <1>2, ConcatProperties, Zenon
<1>4. Len(s) \in Nat
  BY LenProperties
<1>5. (i - 1) + (Len(s) - i) = Len(s) - 1
  BY <1>4
<1>6. Len(a) + Len(b) = Len(s) - 1
  BY <1>1, <1>2, <1>5, Zenon
<1>7. QED
  BY <1>3, <1>6, Zenon DEF RemoveAt

\* Moving the element at position i to the tail keeps a sequence over S.
LEMMA RotateType ==
    ASSUME NEW S, NEW s \in Seq(S), NEW i \in 1..Len(s)
    PROVE  Append(RemoveAt(s, i), s[i]) \in Seq(S)
BY RemoveAtType, AppendProperties

-----------------------------------------------------------------------------
(* Type correctness.                                                       *)

USE SchedAssumption

LEMMA InitTypeOK == Init => TypeOK
BY DEF Init, TypeOK, PC, Flag, RUNNABLE

\* The block()/wake() helpers keep the types of flags and wakeup.
LEMMA HelperTypes ==
    ASSUME TypeOK, NEW t \in Threads
    PROVE  /\ BlockFlags(t) \in [Threads -> SUBSET Flag]
           /\ WakeFlags(t) \in [Threads -> SUBSET Flag]
           /\ NoDeadline(t) \in [Threads -> 0..MaxTime]
BY DEF TypeOK, BlockFlags, WakeFlags, NoDeadline, Flag

LEMMA ReapTypes ==
    ASSUME TypeOK, NEW c \in Threads
    PROVE  /\ ReapedPC(c) \in [Threads -> PC]
           /\ ReapedExited(c) \subseteq Threads
BY DEF TypeOK, ReapedPC, ReapedExited, PC

\* The switch at the end of the selection loop keeps the types.
LEMMA SwitchToTypes ==
    ASSUME TypeOK, NEW n \in Threads, SwitchTo(n)
    PROVE  /\ flags' \in [Threads -> SUBSET Flag]
           /\ wakeup' \in [Threads -> 0..MaxTime]
           /\ cur' \in Threads
           /\ phase' \in {"run", "sched", "ret"}
           /\ pc' \in [Threads -> PC]
           /\ passed' \in [Threads -> SUBSET Threads]
<1>1. flags' \in [Threads -> SUBSET Flag]
  BY DEF SwitchTo, TypeOK, Flag
<1>2. wakeup' \in [Threads -> 0..MaxTime]
  <2>1. NoDeadline(n) \in [Threads -> 0..MaxTime]
    BY HelperTypes
  <2>2. QED
    BY <2>1 DEF SwitchTo, TypeOK
<1>3. pc' \in [Threads -> PC]
  BY DEF SwitchTo, TypeOK, PC
<1>4. passed' \in [Threads -> SUBSET Threads]
  BY DEF SwitchTo, TypeOK
<1>5. QED
  BY <1>1, <1>2, <1>3, <1>4 DEF SwitchTo

LEMMA SelectTypeOK == TypeOK /\ Select => TypeOK'
<1> SUFFICES ASSUME TypeOK, Select PROVE TypeOK'
  OBVIOUS
<1>1. PICK i \in 1..Len(runq) :
         runq' = Append(RemoveAt(runq, i), runq[i]) /\ SwitchTo(runq[i])
  BY DEF Select
<1>2. runq[i] \in Threads
  BY DEF TypeOK
<1>3. runq' \in Seq(Threads)
  BY <1>1, RotateType DEF TypeOK
<1>4. /\ flags' \in [Threads -> SUBSET Flag]
      /\ wakeup' \in [Threads -> 0..MaxTime]
      /\ cur' \in Threads
      /\ phase' \in {"run", "sched", "ret"}
      /\ pc' \in [Threads -> PC]
      /\ passed' \in [Threads -> SUBSET Threads]
  BY <1>1, <1>2, SwitchToTypes, Zenon
<1>5. exited' = exited /\ joinwq' = joinwq /\ now' = now /\ asked' = asked
      /\ joinee' = joinee
  BY DEF Select
<1>6. QED
  BY <1>3, <1>4, <1>5 DEF TypeOK

\* Both steps of exit_thread keep the types of what they change.
LEMMA ExitGateTypes ==
    ASSUME TypeOK, NEW c \in Threads, NEW p \in [Threads -> PC],
           NEW ex \in SUBSET Threads, ExitGate(c, p, ex)
    PROVE  /\ flags' \in [Threads -> SUBSET Flag]
           /\ wakeup' \in [Threads -> 0..MaxTime]
           /\ pc' \in [Threads -> PC]
           /\ exited' \subseteq Threads
           /\ runq' \in Seq(Threads)
<1> DEFINE waiters == {e \in joinwq : e[2] = c}
           woken == IF waiters = {} THEN {} ELSE {(CHOOSE e \in waiters : TRUE)[1]}
<1>1. flags' \in [Threads -> SUBSET Flag]
  BY DEF ExitGate, TypeOK, Flag
<1>2. wakeup' \in [Threads -> 0..MaxTime]
  BY DEF ExitGate, TypeOK
<1>3. QED
  BY <1>1, <1>2 DEF ExitGate, TypeOK, PC

LEMMA DepartTypes ==
    ASSUME TypeOK, NEW c \in Threads, NEW p \in [Threads -> PC],
           NEW ex \in SUBSET Threads, Depart(c, p, ex)
    PROVE  /\ flags' \in [Threads -> SUBSET Flag]
           /\ wakeup' \in [Threads -> 0..MaxTime]
           /\ pc' \in [Threads -> PC]
           /\ exited' \subseteq Threads
           /\ runq' \in Seq(Threads)
<1>1. PICK i \in 1..Len(runq) : runq' = RemoveAt(runq, i)
  BY DEF Depart
<1>2. runq' \in Seq(Threads)
  BY <1>1, RemoveAtType DEF TypeOK
<1>3. QED
  BY <1>2 DEF Depart, BlockFlags, TypeOK, PC

\* Both outcomes of one pass of join_thread keep the types.
LEMMA JoinWaitTypes ==
    ASSUME TypeOK, NEW c \in Threads, NEW t \in Threads,
           NEW p \in [Threads -> PC], NEW ex \in SUBSET Threads,
           NEW jq \in SUBSET (Threads \X Threads), JoinWait(c, t, p, ex, jq)
    PROVE  /\ joinwq' \subseteq Threads \X Threads
           /\ flags' \in [Threads -> SUBSET Flag]
           /\ wakeup' \in [Threads -> 0..MaxTime]
           /\ pc' \in [Threads -> PC]
           /\ exited' \subseteq Threads
           /\ phase' \in {"run", "sched", "ret"}
<1>1. joinwq' \subseteq Threads \X Threads
  BY DEF JoinWait
<1>2. flags' \in [Threads -> SUBSET Flag]
  BY DEF JoinWait, BlockFlags, TypeOK
<1>3. wakeup' \in [Threads -> 0..MaxTime]
  BY SchedAssumption DEF JoinWait, NoDeadline, TypeOK
<1>4. pc' \in [Threads -> PC]
  BY DEF JoinWait, PC
<1> QED
  BY <1>1, <1>2, <1>3, <1>4 DEF JoinWait

LEMMA JoinDoneTypes ==
    ASSUME TypeOK, NEW c \in Threads, NEW t \in Threads,
           NEW p \in [Threads -> PC], NEW ex \in SUBSET Threads,
           NEW jq \in SUBSET (Threads \X Threads), JoinDone(c, t, p, ex, jq)
    PROVE  /\ joinwq' \subseteq Threads \X Threads
           /\ flags' \in [Threads -> SUBSET Flag]
           /\ wakeup' \in [Threads -> 0..MaxTime]
           /\ pc' \in [Threads -> PC]
           /\ exited' \subseteq Threads
           /\ phase' \in {"run", "sched", "ret"}
<1>1. flags' \in [Threads -> SUBSET Flag]
  <2>1. (flags[t] \ {MUSTJOIN}) \cup {RUNNABLE} \in SUBSET Flag
    BY DEF TypeOK, Flag
  <2> QED
    BY <2>1 DEF JoinDone, TypeOK
<1>2. wakeup' \in [Threads -> 0..MaxTime]
  BY SchedAssumption DEF JoinDone, NoDeadline, TypeOK
<1>3. pc' \in [Threads -> PC]
  BY DEF JoinDone, PC
<1> QED
  BY <1>1, <1>2, <1>3 DEF JoinDone

\* dosleep with a deadline in range keeps the types.
LEMMA DoSleepTypes ==
    ASSUME TypeOK, NEW c \in Threads, NEW w \in 0..MaxTime, DoSleep(c, w)
    PROVE  TypeOK'
BY DEF DoSleep, TypeOK, PC

LEMMA NextTypeOK == TypeOK /\ [Next]_vars => TypeOK'
<1> SUFFICES ASSUME TypeOK, [Next]_vars PROVE TypeOK'
  OBVIOUS
<1>1. CASE Select
  BY <1>1, SelectTypeOK
<1>2. CASE BlockDomain
  BY <1>2 DEF BlockDomain, TypeOK
<1>3. CASE Tick
  BY <1>3 DEF Tick, TypeOK
<1>4. CASE IdleStep
  BY <1>4 DEF IdleStep, BlockFlags, NoDeadline, TypeOK
<1>5. CASE ResumeIdle
  BY <1>5 DEF ResumeIdle, ReapedPC, ReapedExited, TypeOK, PC
<1>6. ASSUME NEW c \in Threads,
             \/ Yield(c) \/ BlockSelf(c) \/ ExitThread(c)
             \/ ResumeReturn(c) \/ ResumeSleep(c) \/ ResumeJoin(c)
             \/ ResumeExitGate(c)
      PROVE  TypeOK'
  <2>1. CASE Yield(c)
    BY <2>1 DEF Yield, TypeOK, PC
  <2>2. CASE BlockSelf(c)
    BY <2>2 DEF BlockSelf, BlockFlags, NoDeadline, TypeOK, PC
  <2>3. CASE ExitThread(c)
    <3>1. CASE ExitGate(c, pc, exited)
      <4>1. /\ flags' \in [Threads -> SUBSET Flag]
            /\ wakeup' \in [Threads -> 0..MaxTime]
            /\ pc' \in [Threads -> PC]
            /\ exited' \subseteq Threads
            /\ runq' \in Seq(Threads)
        BY <3>1, ExitGateTypes DEF TypeOK
      <4>2. QED
        BY <2>3, <4>1 DEF ExitThread, TypeOK
    <3>2. CASE Depart(c, pc, exited)
      <4>1. /\ flags' \in [Threads -> SUBSET Flag]
            /\ wakeup' \in [Threads -> 0..MaxTime]
            /\ pc' \in [Threads -> PC]
            /\ exited' \subseteq Threads
            /\ runq' \in Seq(Threads)
        BY <3>2, DepartTypes DEF TypeOK
      <4>2. QED
        BY <2>3, <4>1 DEF ExitThread, TypeOK
    <3>3. QED
      BY <2>3, <3>1, <3>2 DEF ExitThread
  <2>4. CASE ResumeReturn(c)
    BY <2>4 DEF ResumeReturn, ReapedPC, ReapedExited, TypeOK, PC
  <2>5. CASE ResumeSleep(c)
    BY <2>5 DEF ResumeSleep, ReapedPC, ReapedExited, TypeOK, PC, Flag
  <2>6. CASE ResumeJoin(c)
    <3> DEFINE t == joinee[c]
               jq == joinwq \ {<<c, t>>}
               p == ReapedPC(c)
               ex == ReapedExited(c)
    <3>1. t \in Threads /\ jq \in SUBSET (Threads \X Threads)
      BY DEF TypeOK
    <3>2. p \in [Threads -> PC] /\ ex \in SUBSET Threads
      BY DEF ReapedPC, ReapedExited, TypeOK, PC
    <3>3. /\ joinwq' \subseteq Threads \X Threads
          /\ flags' \in [Threads -> SUBSET Flag]
          /\ wakeup' \in [Threads -> 0..MaxTime]
          /\ pc' \in [Threads -> PC]
          /\ exited' \subseteq Threads
          /\ phase' \in {"run", "sched", "ret"}
      <4>1. CASE JoinDone(c, t, p, ex, jq)
        BY <3>1, <3>2, <4>1, JoinDoneTypes, Zenon
      <4>2. CASE JoinWait(c, t, p, ex, jq)
        BY <3>1, <3>2, <4>2, JoinWaitTypes, Zenon
      <4>3. QED
        BY <2>6, <4>1, <4>2 DEF ResumeJoin
    <3>4. QED
      BY <2>6, <3>3 DEF ResumeJoin, TypeOK
  <2>7. CASE ResumeExitGate(c)
    <3> DEFINE p == ReapedPC(c)
               ex == ReapedExited(c)
    <3>1. p \in [Threads -> PC] /\ ex \in SUBSET Threads
      BY DEF ReapedPC, ReapedExited, TypeOK, PC
    <3>2. /\ flags' \in [Threads -> SUBSET Flag]
          /\ wakeup' \in [Threads -> 0..MaxTime]
          /\ pc' \in [Threads -> PC]
          /\ exited' \subseteq Threads
          /\ runq' \in Seq(Threads)
      <4>1. CASE ExitGate(c, p, ex)
        BY <3>1, <4>1, ExitGateTypes, Zenon
      <4>2. CASE Depart(c, p, ex)
        BY <3>1, <4>2, DepartTypes, Zenon
      <4>3. QED
        BY <2>7, <4>1, <4>2 DEF ResumeExitGate
    <3>3. QED
      BY <2>7, <3>2 DEF ResumeExitGate, TypeOK
  <2>8. QED
    BY <1>6, <2>1, <2>2, <2>3, <2>4, <2>5, <2>6, <2>7
<1>7. ASSUME NEW c \in Threads, NEW d \in Delays, Msleep(c, d)
      PROVE  TypeOK'
  <2>1. now + d \in 0..MaxTime /\ DoSleep(c, now + d)
    BY <1>7 DEF Msleep, TypeOK
  <2>2. QED
    BY <2>1, DoSleepTypes, Zenon
<1>8. ASSUME NEW c \in Threads, NEW d \in 0..MaxTime,
             Absmsleep(c, d) \/ ClockSleepAbsMono(c, d)
      PROVE  TypeOK'
  <2>1. CASE Absmsleep(c, d)
    BY <2>1, DoSleepTypes, Zenon DEF Absmsleep
  <2>2. CASE ClockSleepAbsMono(c, d)
    BY <2>2 DEF ClockSleepAbsMono, BlockFlags, TypeOK, PC
  <2>3. QED
    BY <1>8, <2>1, <2>2
<1>9. ASSUME NEW c \in Threads, NEW t \in Threads,
             \/ Wake(c, t) \/ JoinThread(c, t)
             \/ \E mj \in BOOLEAN : CreateThread(c, t, mj)
      PROVE  TypeOK'
  <2>1. CASE Wake(c, t)
    <3>1. flags' \in [Threads -> SUBSET Flag]
      BY <2>1 DEF Wake, WakeFlags, TypeOK, Flag
    <3>2. wakeup' \in [Threads -> 0..MaxTime]
      BY <2>1, SchedAssumption DEF Wake, NoDeadline, TypeOK
    <3> QED
      BY <2>1, <3>1, <3>2 DEF Wake, TypeOK
  <2>2. CASE JoinThread(c, t)
    <3>1. /\ joinwq' \subseteq Threads \X Threads
          /\ flags' \in [Threads -> SUBSET Flag]
          /\ wakeup' \in [Threads -> 0..MaxTime]
          /\ pc' \in [Threads -> PC]
          /\ exited' \subseteq Threads
          /\ phase' \in {"run", "sched", "ret"}
      <4>1. CASE JoinDone(c, t, pc, exited, joinwq)
        BY <4>1, JoinDoneTypes DEF TypeOK
      <4>2. CASE JoinWait(c, t, pc, exited, joinwq)
        BY <4>2, JoinWaitTypes DEF TypeOK
      <4>3. QED
        BY <2>2, <4>1, <4>2 DEF JoinThread
    <3>2. QED
      BY <2>2, <3>1 DEF JoinThread, TypeOK
  <2>3. CASE \E mj \in BOOLEAN : CreateThread(c, t, mj)
    BY <2>3, AppendProperties DEF CreateThread, NoDeadline, TypeOK, PC, Flag
  <2>4. QED
    BY <1>9, <2>1, <2>2, <2>3
<1>10. CASE UNCHANGED vars
  BY <1>10 DEF vars, TypeOK
<1>11. QED
  BY <1>1, <1>2, <1>3, <1>4, <1>5, <1>6, <1>7, <1>8, <1>9, <1>10 DEF Next

\* Every reachable state of the scheduler is well typed.
THEOREM TypeCorrect == Spec => []TypeOK
BY InitTypeOK, NextTypeOK, PTL DEF Spec
-----------------------------------------------------------------------------
(* Deadlines.  SleepConsistent is not inductive by itself.  Between the    *)
(* selection loop, which clears the deadline of the thread it wakes, and   *)
(* the return from schedule() in that thread, nothing may give the thread  *)
(* a deadline again (RetClear); and the reaping at the end of schedule()   *)
(* frees only threads on exited_threads, which must not be sleepers        *)
(* (ExitedSet).                                                            *)

RetClear == phase = "ret" => wakeup[cur] = 0

ExitedSet == exited = {t \in Threads : pc[t] = "exited"}

SleepIInv == TypeOK /\ SleepConsistent /\ RetClear /\ ExitedSet

LEMMA InitSleepIInv == Init => SleepIInv
BY InitTypeOK DEF Init, SleepIInv, SleepConsistent, RetClear, ExitedSet

\* A thread that is not exited has no deadline-relevant change in the reap.
LEMMA ReapFacts ==
    ASSUME TypeOK, ExitedSet, NEW c \in Threads, pc[c] # "exited"
    PROVE  /\ ReapedExited(c) = {}
           /\ ReapedPC(c) \in [Threads -> PC]
           /\ \A t \in Threads :
                 ReapedPC(c)[t] = IF pc[t] = "exited" THEN "dead" ELSE pc[t]
BY DEF ExitedSet, ReapedExited, ReapedPC, TypeOK, PC

\* A thread that is not sleeping has no deadline.
LEMMA AwakeNoDeadline ==
    ASSUME SleepConsistent, TypeOK, NEW t \in Threads,
           pc[t] \notin {"sleep", "clocksleep"}
    PROVE  wakeup[t] = 0
BY DEF SleepConsistent, TypeOK

LEMMA SelectSleep ==
    ASSUME SleepIInv, Select
    PROVE  SleepConsistent' /\ RetClear' /\ ExitedSet'
<1> USE DEF SleepIInv
<1>1. PICK i \in 1..Len(runq) : SwitchTo(runq[i])
  BY DEF Select
<1> DEFINE n == runq[i]
<1>2. n \in Threads
  BY DEF TypeOK
<1>3. wakeup'[n] = 0
  <2>1. CASE RUNNABLE \in flags[n]
    BY <1>1, <1>2, <2>1 DEF SwitchTo, SleepConsistent
  <2>2. CASE RUNNABLE \notin flags[n]
    BY <1>1, <1>2, <2>2 DEF SwitchTo, NoDeadline, TypeOK
  <2>3. QED
    BY <2>1, <2>2
<1>4. \A t \in Threads \ {n} :
         /\ wakeup'[t] = wakeup[t]
         /\ wakeup[t] # 0 => /\ flags'[t] = flags[t]
                             /\ pc'[t] = pc[t]
                             /\ asked'[t] = asked[t]
  BY <1>1 DEF SwitchTo, Select, NoDeadline, TypeOK
<1>5. SleepConsistent'
  BY <1>2, <1>3, <1>4 DEF SleepConsistent
<1>6. RetClear'
  BY <1>1, <1>3 DEF SwitchTo, RetClear
<1>7. ExitedSet'
  BY <1>1, <1>2 DEF SwitchTo, Select, ExitedSet, TypeOK
<1>8. QED
  BY <1>5, <1>6, <1>7

LEMMA ResumeReturnSleep ==
    ASSUME SleepIInv, NEW c \in Threads, ResumeReturn(c)
    PROVE  SleepConsistent' /\ RetClear' /\ ExitedSet'
<1> USE DEF SleepIInv
<1>1. cur = c /\ phase = "ret" /\ pc[c] \in {"yield", "blocked", "clocksleep"}
  BY DEF ResumeReturn, Returning
<1>2. wakeup[c] = 0
  BY <1>1 DEF RetClear
<1>3. /\ ReapedExited(c) = {}
      /\ ReapedPC(c) \in [Threads -> PC]
      /\ \A t \in Threads :
            ReapedPC(c)[t] = IF pc[t] = "exited" THEN "dead" ELSE pc[t]
  BY <1>1, ReapFacts
<1>4. \A t \in Threads \ {c} :
         /\ wakeup'[t] = wakeup[t]
         /\ wakeup[t] # 0 => /\ flags'[t] = flags[t]
                             /\ pc'[t] = pc[t]
                             /\ asked'[t] = asked[t]
  BY <1>3 DEF ResumeReturn, SleepConsistent, TypeOK
<1>5. SleepConsistent'
  BY <1>2, <1>4 DEF ResumeReturn, SleepConsistent
<1>6. ExitedSet'
  BY <1>3 DEF ResumeReturn, ExitedSet, TypeOK
<1>7. QED
  BY <1>5, <1>6 DEF ResumeReturn, RetClear

\* The exit and join steps are applied to the state before or after the
\* reap; p and ex stand for that state's pc and exited_threads.
LEMMA ExitGateSleep ==
    ASSUME SleepIInv, NEW c \in Threads, NEW p \in [Threads -> PC],
           NEW ex \in SUBSET Threads,
           ex = {t \in Threads : p[t] = "exited"}, p[c] # "exited",
           wakeup[c] = 0,
           \A t \in Threads : wakeup[t] # 0 => p[t] = pc[t],
           ExitGate(c, p, ex), UNCHANGED asked
    PROVE  SleepConsistent' /\ ExitedSet'
<1> USE DEF SleepIInv
<1> DEFINE waiters == {e \in joinwq : e[2] = c}
           woken == IF waiters = {} THEN {} ELSE {(CHOOSE e \in waiters : TRUE)[1]}
<1>1. \A t \in Threads : t = c \/ t \in woken => wakeup'[t] = 0
  BY DEF ExitGate
<1>2. \A t \in Threads : ~(t = c \/ t \in woken) =>
         /\ wakeup'[t] = wakeup[t]
         /\ wakeup[t] # 0 => /\ flags'[t] = flags[t]
                             /\ pc'[t] = pc[t]
                             /\ asked'[t] = asked[t]
  BY DEF ExitGate
<1>3. SleepConsistent'
  BY <1>1, <1>2 DEF SleepConsistent
<1>4. ExitedSet'
  BY DEF ExitGate, ExitedSet
<1>5. QED
  BY <1>3, <1>4

LEMMA DepartSleep ==
    ASSUME SleepIInv, NEW c \in Threads, NEW p \in [Threads -> PC],
           NEW ex \in SUBSET Threads,
           ex = {t \in Threads : p[t] = "exited"},
           wakeup[c] = 0,
           \A t \in Threads : wakeup[t] # 0 => p[t] = pc[t],
           Depart(c, p, ex), UNCHANGED asked
    PROVE  SleepConsistent' /\ ExitedSet'
<1> USE DEF SleepIInv
<1>1. SleepConsistent'
  BY DEF Depart, BlockFlags, SleepConsistent, TypeOK
<1>2. ExitedSet'
  BY DEF Depart, ExitedSet
<1>3. QED
  BY <1>1, <1>2

LEMMA JoinWaitSleep ==
    ASSUME SleepIInv, NEW c \in Threads, NEW t \in Threads,
           NEW p \in [Threads -> PC], NEW ex \in SUBSET Threads,
           NEW jq,
           ex = {x \in Threads : p[x] = "exited"}, p[c] # "exited",
           \A x \in Threads : wakeup[x] # 0 => p[x] = pc[x],
           JoinWait(c, t, p, ex, jq), UNCHANGED asked
    PROVE  SleepConsistent' /\ ExitedSet'
<1> USE DEF SleepIInv
<1>1. SleepConsistent'
  BY DEF JoinWait, BlockFlags, NoDeadline, SleepConsistent, TypeOK
<1>2. ExitedSet'
  BY DEF JoinWait, ExitedSet
<1>3. QED
  BY <1>1, <1>2

LEMMA JoinDoneSleep ==
    ASSUME SleepIInv, NEW c \in Threads, NEW t \in Threads,
           NEW p \in [Threads -> PC], NEW ex \in SUBSET Threads,
           NEW jq,
           ex = {x \in Threads : p[x] = "exited"}, p[c] # "exited",
           wakeup[c] = 0,
           \A x \in Threads : wakeup[x] # 0 => p[x] = pc[x],
           JoinDone(c, t, p, ex, jq), UNCHANGED asked
    PROVE  SleepConsistent' /\ ExitedSet'
<1> USE DEF SleepIInv
<1>1. SleepConsistent'
  BY DEF JoinDone, NoDeadline, SleepConsistent, TypeOK
<1>2. ExitedSet'
  BY DEF JoinDone, ExitedSet
<1>3. QED
  BY <1>1, <1>2

\* The reap at the end of schedule() in a thread c that is not exited
\* leaves every thread with a deadline where it is, and exits nobody.
LEMMA ReapSleepers ==
    ASSUME SleepIInv, NEW c \in Threads, pc[c] # "exited"
    PROVE  /\ ReapedPC(c) \in [Threads -> PC]
           /\ ReapedExited(c) = {x \in Threads : ReapedPC(c)[x] = "exited"}
           /\ ReapedPC(c)[c] # "exited"
           /\ \A x \in Threads : wakeup[x] # 0 => ReapedPC(c)[x] = pc[x]
<1> USE DEF SleepIInv
<1>1. /\ ReapedExited(c) = {}
      /\ ReapedPC(c) \in [Threads -> PC]
      /\ \A t \in Threads :
            ReapedPC(c)[t] = IF pc[t] = "exited" THEN "dead" ELSE pc[t]
  BY ReapFacts
<1>2. QED
  BY <1>1 DEF SleepConsistent

LEMMA NextSleepIInv == SleepIInv /\ [Next]_vars => SleepIInv'
<1> SUFFICES ASSUME SleepIInv, [Next]_vars
             PROVE  SleepConsistent' /\ RetClear' /\ ExitedSet'
  BY NextTypeOK DEF SleepIInv
<1> USE DEF SleepIInv
<1>1. CASE Select
  BY <1>1, SelectSleep
<1>2. CASE BlockDomain \/ Tick \/ UNCHANGED vars
  BY <1>2 DEF BlockDomain, Tick, vars, SleepConsistent, RetClear, ExitedSet
<1>3. CASE IdleStep
  BY <1>3 DEF IdleStep, BlockFlags, NoDeadline, SleepConsistent, RetClear,
              ExitedSet, TypeOK
<1>4. CASE ResumeIdle
  <2>1. pc[Idle] = "idle"
    BY <1>4 DEF ResumeIdle, Returning
  <2>2. /\ ReapedPC(Idle) \in [Threads -> PC]
        /\ ReapedExited(Idle) = {x \in Threads : ReapedPC(Idle)[x] = "exited"}
        /\ \A x \in Threads : wakeup[x] # 0 => ReapedPC(Idle)[x] = pc[x]
    BY <2>1, ReapSleepers, SchedAssumption
  <2>3. QED
    BY <1>4, <2>2 DEF ResumeIdle, SleepConsistent, RetClear, ExitedSet
<1>5. ASSUME NEW c \in Threads, Running(c)
      PROVE  wakeup[c] = 0
  BY <1>5, AwakeNoDeadline DEF Running
<1>6. ASSUME NEW c \in Threads, Yield(c) \/ BlockSelf(c)
      PROVE  SleepConsistent' /\ RetClear' /\ ExitedSet'
  BY <1>5, <1>6 DEF Yield, BlockSelf, Running, BlockFlags, NoDeadline,
                    SleepConsistent, RetClear, ExitedSet, TypeOK
<1>7. ASSUME NEW c \in Threads, ExitThread(c)
      PROVE  SleepConsistent' /\ RetClear' /\ ExitedSet'
  <2>1. wakeup[c] = 0 /\ pc[c] = "user"
    BY <1>5, <1>7 DEF ExitThread, Running
  <2>2. pc \in [Threads -> PC] /\ exited = {x \in Threads : pc[x] = "exited"}
    BY DEF TypeOK, ExitedSet
  <2>3. SleepConsistent' /\ ExitedSet'
    <3>1. CASE ExitGate(c, pc, exited)
      BY <1>7, <2>1, <2>2, <3>1, ExitGateSleep, Zenon DEF ExitThread, TypeOK
    <3>2. CASE Depart(c, pc, exited)
      BY <1>7, <2>1, <2>2, <3>2, DepartSleep, Zenon DEF ExitThread, TypeOK
    <3>3. QED
      BY <1>7, <3>1, <3>2 DEF ExitThread
  <2>4. QED
    BY <1>7, <2>3 DEF ExitThread, RetClear
<1>8. ASSUME NEW c \in Threads, ResumeReturn(c)
      PROVE  SleepConsistent' /\ RetClear' /\ ExitedSet'
  BY <1>8, ResumeReturnSleep
<1>9. ASSUME NEW c \in Threads, ResumeSleep(c)
      PROVE  SleepConsistent' /\ RetClear' /\ ExitedSet'
  <2>1. cur = c /\ phase = "ret" /\ pc[c] = "sleep"
    BY <1>9 DEF ResumeSleep, Returning
  <2>2. wakeup[c] = 0
    BY <2>1 DEF RetClear
  <2>3. /\ ReapedPC(c) \in [Threads -> PC]
        /\ ReapedExited(c) = {x \in Threads : ReapedPC(c)[x] = "exited"}
        /\ ReapedPC(c)[c] # "exited"
        /\ \A x \in Threads : wakeup[x] # 0 => ReapedPC(c)[x] = pc[x]
    BY <2>1, ReapSleepers
  <2>4. QED
    BY <1>9, <2>2, <2>3 DEF ResumeSleep, SleepConsistent, RetClear, ExitedSet,
                            TypeOK
<1>10. ASSUME NEW c \in Threads, ResumeJoin(c)
       PROVE  SleepConsistent' /\ RetClear' /\ ExitedSet'
  <2> DEFINE t == joinee[c]
             jq == joinwq \ {<<c, t>>}
             p == ReapedPC(c)
             ex == ReapedExited(c)
  <2>1. cur = c /\ phase = "ret" /\ pc[c] = "joinwait"
    BY <1>10 DEF ResumeJoin, Returning
  <2>2. wakeup[c] = 0
    BY <2>1 DEF RetClear
  <2>3. /\ p \in [Threads -> PC]
        /\ ex = {x \in Threads : p[x] = "exited"}
        /\ p[c] # "exited"
        /\ \A x \in Threads : wakeup[x] # 0 => p[x] = pc[x]
    BY <2>1, ReapSleepers
  <2>4. t \in Threads /\ ex \in SUBSET Threads
    BY <2>3 DEF TypeOK
  <2>5. UNCHANGED asked
    BY <1>10 DEF ResumeJoin
  <2>6. SleepConsistent' /\ ExitedSet'
    <3>1. CASE JoinDone(c, t, p, ex, jq)
      BY <2>2, <2>3, <2>4, <2>5, <3>1, JoinDoneSleep, Zenon
    <3>2. CASE JoinWait(c, t, p, ex, jq)
      BY <2>3, <2>4, <2>5, <3>2, JoinWaitSleep, Zenon
    <3>3. QED
      BY <1>10, <3>1, <3>2 DEF ResumeJoin
  <2>7. phase' \in {"run", "sched"}
    BY <1>10 DEF ResumeJoin, JoinDone, JoinWait
  <2>8. QED
    BY <2>6, <2>7 DEF RetClear
<1>11. ASSUME NEW c \in Threads, ResumeExitGate(c)
       PROVE  SleepConsistent' /\ RetClear' /\ ExitedSet'
  <2> DEFINE p == ReapedPC(c)
             ex == ReapedExited(c)
  <2>1. cur = c /\ phase = "ret" /\ pc[c] = "exitgate"
    BY <1>11 DEF ResumeExitGate, Returning
  <2>2. wakeup[c] = 0
    BY <2>1 DEF RetClear
  <2>3. /\ p \in [Threads -> PC]
        /\ ex = {x \in Threads : p[x] = "exited"}
        /\ p[c] # "exited"
        /\ \A x \in Threads : wakeup[x] # 0 => p[x] = pc[x]
    BY <2>1, ReapSleepers
  <2>4. ex \in SUBSET Threads /\ UNCHANGED asked
    BY <1>11, <2>3 DEF ResumeExitGate
  <2>5. SleepConsistent' /\ ExitedSet'
    <3>1. CASE ExitGate(c, p, ex)
      BY <2>2, <2>3, <2>4, <3>1, ExitGateSleep, Zenon
    <3>2. CASE Depart(c, p, ex)
      BY <2>2, <2>3, <2>4, <3>2, DepartSleep, Zenon
    <3>3. QED
      BY <1>11, <3>1, <3>2 DEF ResumeExitGate
  <2>6. QED
    BY <1>11, <2>5 DEF ResumeExitGate, RetClear
<1>12. ASSUME NEW c \in Threads, NEW w, DoSleep(c, w)
       PROVE  SleepConsistent' /\ RetClear' /\ ExitedSet'
  BY <1>12 DEF DoSleep, Running, SleepConsistent, RetClear, ExitedSet, TypeOK
<1>13. ASSUME NEW c \in Threads, NEW d, ClockSleepAbsMono(c, d)
       PROVE  SleepConsistent' /\ RetClear' /\ ExitedSet'
  BY <1>13 DEF ClockSleepAbsMono, Running, BlockFlags, SleepConsistent,
               RetClear, ExitedSet, TypeOK
<1>14. ASSUME NEW c \in Threads, NEW t \in Threads, Wake(c, t)
       PROVE  SleepConsistent' /\ RetClear' /\ ExitedSet'
  BY <1>14 DEF Wake, WakeFlags, NoDeadline, SleepConsistent, RetClear,
               ExitedSet, TypeOK
<1>15. ASSUME NEW c \in Threads, NEW t \in Threads, NEW mj \in BOOLEAN,
              CreateThread(c, t, mj)
       PROVE  SleepConsistent' /\ RetClear' /\ ExitedSet'
  BY <1>15 DEF CreateThread, Running, NoDeadline, SleepConsistent, RetClear,
               ExitedSet, TypeOK
<1>16. ASSUME NEW c \in Threads, NEW t \in Threads, JoinThread(c, t)
       PROVE  SleepConsistent' /\ RetClear' /\ ExitedSet'
  <2>1. wakeup[c] = 0 /\ pc[c] = "user"
    BY <1>5, <1>16 DEF JoinThread, Running
  <2>2. /\ pc \in [Threads -> PC] /\ exited \in SUBSET Threads
        /\ exited = {x \in Threads : pc[x] = "exited"}
        /\ UNCHANGED asked
    BY <1>16 DEF TypeOK, ExitedSet, JoinThread
  <2>3. SleepConsistent' /\ ExitedSet'
    <3>1. CASE JoinDone(c, t, pc, exited, joinwq)
      BY <2>1, <2>2, <3>1, JoinDoneSleep, Zenon
    <3>2. CASE JoinWait(c, t, pc, exited, joinwq)
      BY <2>1, <2>2, <3>2, JoinWaitSleep, Zenon
    <3>3. QED
      BY <1>16, <3>1, <3>2 DEF JoinThread
  <2>4. phase' \in {"run", "sched"}
    BY <1>16 DEF JoinThread, JoinDone, JoinWait
  <2>5. QED
    BY <2>3, <2>4 DEF RetClear
<1>17. QED
  BY <1>1, <1>2, <1>3, <1>4, <1>6, <1>7, <1>8, <1>9, <1>10, <1>11, <1>12,
     <1>13, <1>14, <1>15, <1>16 DEF Next, Msleep, Absmsleep

\* Only a thread sleeping in dosleep or rumpuser_clock_sleep has a deadline,
\* it is then not runnable, and a dosleep deadline is the one asked for:
\* wake(), the timeout path of schedule() and every block, join and exit
\* path keep wakeup_time and the flags in step.
THEOREM SleepConsistentHolds == Spec => []SleepConsistent
<1>1. SleepIInv => SleepConsistent
  BY DEF SleepIInv
<1>2. QED
  BY InitSleepIInv, NextSleepIInv, <1>1, PTL DEF Spec

-----------------------------------------------------------------------------
(* The result of msleep/absmsleep.                                         *)
(*                                                                         *)
(* THREAD_TIMEDOUT is set only by schedule() when it resumes a sleeper     *)
(* whose deadline has passed, dosleep clears it before it blocks, and      *)
(* NOW() never goes back: so a sleeper carrying it has reached its own     *)
(* deadline (TimedOutSound), and the result dosleep reads is sound.        *)

TimedOutSound ==
    \A t \in Threads : pc[t] = "sleep" /\ TIMEDOUT \in flags[t] => asked[t] <= now

TimeoutIInv == SleepIInv /\ TimedOutSound

\* A step that keeps the deadlines asked for, does not move time back, and
\* creates no timed-out sleeper keeps TimedOutSound.
LEMMA KeepTimeout ==
    ASSUME TypeOK, TimedOutSound, TypeOK', asked' = asked, now <= now',
           \A t \in Threads : pc'[t] = "sleep" /\ TIMEDOUT \in flags'[t]
                                => pc[t] = "sleep" /\ TIMEDOUT \in flags[t]
    PROVE  TimedOutSound'
<1> SUFFICES ASSUME NEW t \in Threads, pc'[t] = "sleep", TIMEDOUT \in flags'[t]
             PROVE  asked'[t] <= now'
  BY DEF TimedOutSound
<1>1. asked[t] <= now
  BY DEF TimedOutSound
<1>2. asked[t] \in Int /\ now \in Int /\ now' \in Int
  BY DEF TypeOK
<1> QED
  BY <1>1, <1>2

\* schedule() sets THREAD_TIMEDOUT only on a thread whose deadline passed.
LEMMA SelectTimeout ==
    ASSUME SleepIInv, TimedOutSound, Select
    PROVE  TimedOutSound'
<1>1. PICK i \in 1..Len(runq) : FirstCandidate(i) /\ SwitchTo(runq[i])
  BY DEF Select
<1> DEFINE n == runq[i]
<1>2. n \in Threads /\ UNCHANGED <<asked, now>>
  BY DEF SleepIInv, TypeOK, Select
<1>3. \A t \in Threads \ {n} : pc'[t] = pc[t] /\ flags'[t] = flags[t]
  BY <1>1, <1>2 DEF SwitchTo, SleepIInv, TypeOK
<1>4. ASSUME pc'[n] = "sleep", TIMEDOUT \in flags'[n]
      PROVE  asked[n] <= now
  <2>1. pc[n] = "sleep"
    <3>1. CASE pc[n] = "new"
      <4>1. pc'[n] = "user"
        BY <1>1, <1>2, <3>1 DEF SwitchTo, SleepIInv, TypeOK
      <4> QED
        BY <1>4, <4>1
    <3>2. CASE pc[n] # "new"
      BY <1>1, <1>4, <3>2 DEF SwitchTo
    <3> QED
      BY <3>1, <3>2
  <2>2. CASE RUNNABLE \in flags[n]
    BY <1>1, <1>2, <1>4, <2>1, <2>2 DEF SwitchTo, TimedOutSound
  <2>3. CASE RUNNABLE \notin flags[n]
    <3>1. wakeup[n] # 0 /\ wakeup[n] <= now
      BY <1>1, <2>3 DEF FirstCandidate, Candidate
    <3>2. wakeup[n] = asked[n]
      BY <1>2, <2>1, <3>1 DEF SleepIInv, SleepConsistent
    <3> QED
      BY <3>1, <3>2
  <2> QED
    BY <2>2, <2>3
<1> QED
  BY <1>2, <1>3, <1>4 DEF TimedOutSound

\* The reaping at the end of schedule() makes no thread a sleeper.
LEMMA ReapNoSleeper ==
    ASSUME NEW c, NEW t \in Threads
    PROVE  ReapedPC(c)[t] = "sleep" => pc[t] = "sleep"
BY DEF ReapedPC

LEMMA NextTimeout == TimeoutIInv /\ [Next]_vars => TimeoutIInv'
<1> SUFFICES ASSUME SleepIInv, TimedOutSound, [Next]_vars
             PROVE  TimedOutSound'
  BY NextSleepIInv DEF TimeoutIInv
<1>0. TypeOK /\ TypeOK'
  BY NextTypeOK DEF SleepIInv
\* No step but schedule()'s switch sets THREAD_TIMEDOUT (F), and no step
\* but dosleep makes a thread a sleeper (P).
<1>1. ASSUME asked' = asked, now' = now,
             \A t \in Threads : TIMEDOUT \in flags'[t] => TIMEDOUT \in flags[t],
             \A t \in Threads : pc'[t] = "sleep" => pc[t] = "sleep"
      PROVE  TimedOutSound'
  <2>1. now <= now'
    BY <1>0, <1>1 DEF TypeOK
  <2>2. \A t \in Threads : pc'[t] = "sleep" /\ TIMEDOUT \in flags'[t]
                             => pc[t] = "sleep" /\ TIMEDOUT \in flags[t]
    BY <1>1
  <2> QED
    BY <1>0, <1>1, <2>1, <2>2, KeepTimeout
<1>2. CASE Select
  BY <1>2, SelectTimeout
<1>3. CASE BlockDomain \/ Tick \/ UNCHANGED vars
  <2>1. UNCHANGED <<pc, flags, asked>>
    BY <1>3 DEF BlockDomain, Tick, vars
  <2>2. now \in Int /\ now' \in Int
    BY <1>0 DEF TypeOK
  <2>3. now <= now'
    <3>1. CASE BlockDomain
      BY <2>2, <3>1 DEF BlockDomain
    <3>2. CASE Tick
      BY <2>2, <3>2 DEF Tick
    <3>3. CASE UNCHANGED vars
      BY <2>2, <3>3 DEF vars
    <3> QED
      BY <1>3, <3>1, <3>2, <3>3
  <2> QED
    BY <1>0, <2>1, <2>3, KeepTimeout
<1>4. CASE IdleStep
  BY <1>1, <1>4 DEF IdleStep, BlockFlags, TypeOK
<1>5. CASE ResumeIdle
  BY <1>1, <1>5, ReapNoSleeper DEF ResumeIdle
<1>6. ASSUME NEW c \in Threads, Yield(c) \/ BlockSelf(c)
      PROVE  TimedOutSound'
  <2>1. CASE Yield(c)
    BY <1>1, <2>1 DEF Yield, TypeOK
  <2>2. CASE BlockSelf(c)
    BY <1>1, <2>2 DEF BlockSelf, BlockFlags, TypeOK
  <2> QED
    BY <1>6, <2>1, <2>2
<1>7. ASSUME NEW c \in Threads, NEW w, DoSleep(c, w)
      PROVE  TimedOutSound'
  <2> SUFFICES ASSUME NEW t \in Threads, pc'[t] = "sleep", TIMEDOUT \in flags'[t]
               PROVE  asked'[t] <= now'
    BY DEF TimedOutSound
  <2>1. TIMEDOUT \notin flags'[c]
    BY <1>0, <1>7 DEF DoSleep, TypeOK
  <2>2. t # c /\ pc[t] = "sleep" /\ TIMEDOUT \in flags[t] /\ asked'[t] = asked[t]
    BY <1>0, <1>7, <2>1 DEF DoSleep, TypeOK
  <2> QED
    BY <1>7, <2>2 DEF DoSleep, TimedOutSound
<1>8. ASSUME NEW c \in Threads, NEW d, ClockSleepAbsMono(c, d)
      PROVE  TimedOutSound'
  BY <1>1, <1>8 DEF ClockSleepAbsMono, BlockFlags, TypeOK
<1>9. ASSUME NEW c \in Threads, NEW t \in Threads, Wake(c, t)
      PROVE  TimedOutSound'
  BY <1>1, <1>9 DEF Wake, WakeFlags, TypeOK, TIMEDOUT, RUNNABLE
<1>10. ASSUME NEW c \in Threads, NEW mj \in BOOLEAN, NEW t \in Threads,
              CreateThread(c, t, mj)
       PROVE  TimedOutSound'
  BY <1>1, <1>10 DEF CreateThread, TypeOK, TIMEDOUT, RUNNABLE, MUSTJOIN
\* The join and exit steps, over a pc function p that makes no sleeper.
<1>11. ASSUME NEW c \in Threads, NEW t \in Threads, NEW p, NEW ex, NEW jq,
              JoinDone(c, t, p, ex, jq) \/ JoinWait(c, t, p, ex, jq),
              \A x \in Threads : p[x] = "sleep" => pc[x] = "sleep",
              UNCHANGED <<asked, now>>
       PROVE  TimedOutSound'
  <2>1. CASE JoinDone(c, t, p, ex, jq)
    BY <1>1, <1>11, <2>1 DEF JoinDone, TypeOK, TIMEDOUT, RUNNABLE, MUSTJOIN
  <2>2. CASE JoinWait(c, t, p, ex, jq)
    BY <1>1, <1>11, <2>2 DEF JoinWait, BlockFlags, TypeOK
  <2> QED
    BY <1>11, <2>1, <2>2
<1>12. ASSUME NEW c \in Threads, NEW p, NEW ex,
              ExitGate(c, p, ex) \/ Depart(c, p, ex),
              \A x \in Threads : p[x] = "sleep" => pc[x] = "sleep",
              UNCHANGED <<asked, now>>
       PROVE  TimedOutSound'
  <2>1. CASE ExitGate(c, p, ex)
    BY <1>1, <1>12, <2>1 DEF ExitGate, TypeOK, TIMEDOUT, RUNNABLE, JOINED
  <2>2. CASE Depart(c, p, ex)
    BY <1>1, <1>12, <2>2 DEF Depart, BlockFlags, TypeOK
  <2> QED
    BY <1>12, <2>1, <2>2
<1>13. ASSUME NEW c \in Threads, NEW t \in Threads, JoinThread(c, t)
       PROVE  TimedOutSound'
  BY <1>11, <1>13 DEF JoinThread
<1>14. ASSUME NEW c \in Threads, ExitThread(c)
       PROVE  TimedOutSound'
  BY <1>12, <1>14 DEF ExitThread
<1>15. ASSUME NEW c \in Threads, ResumeReturn(c) \/ ResumeSleep(c)
       PROVE  TimedOutSound'
  <2>1. CASE ResumeReturn(c)
    BY <1>1, <2>1, ReapNoSleeper DEF ResumeReturn, TypeOK
  <2>2. CASE ResumeSleep(c)
    BY <1>1, <2>2, ReapNoSleeper DEF ResumeSleep, TypeOK
  <2> QED
    BY <1>15, <2>1, <2>2
<1>16. ASSUME NEW c \in Threads, ResumeJoin(c)
       PROVE  TimedOutSound'
  <2> DEFINE t == joinee[c]
             jq == joinwq \ {<<c, t>>}
  <2>1. t \in Threads /\ UNCHANGED <<asked, now>>
    BY <1>0, <1>16 DEF ResumeJoin, TypeOK
  <2>2. \A x \in Threads : ReapedPC(c)[x] = "sleep" => pc[x] = "sleep"
    BY ReapNoSleeper
  <2>3. JoinDone(c, t, ReapedPC(c), ReapedExited(c), jq)
        \/ JoinWait(c, t, ReapedPC(c), ReapedExited(c), jq)
    BY <1>16 DEF ResumeJoin
  <2> QED
    BY <1>11, <2>1, <2>2, <2>3
<1>17. ASSUME NEW c \in Threads, ResumeExitGate(c)
       PROVE  TimedOutSound'
  BY <1>12, <1>17, ReapNoSleeper DEF ResumeExitGate
<1> QED
  BY <1>2, <1>3, <1>4, <1>5, <1>6, <1>7, <1>8, <1>9, <1>10, <1>13, <1>14,
     <1>15, <1>16, <1>17 DEF Next, Msleep, Absmsleep

LEMMA InitTimeout == Init => TimeoutIInv
BY InitSleepIInv DEF Init, TimeoutIInv, TimedOutSound

\* msleep and absmsleep report "timed out" only when their own deadline
\* has passed: schedule()'s timeout path is the only setter of
\* THREAD_TIMEDOUT, and dosleep clears a leftover one before it blocks.
THEOREM SleepResultSoundHolds == Spec => SleepResultSound
<1>1. TimeoutIInv /\ [Next]_vars =>
        [\A t \in Threads :
           (pc[t] = "sleep" /\ pc'[t] = "user" /\ TIMEDOUT \in flags[t])
              => asked[t] <= now]_vars
  BY DEF TimeoutIInv, TimedOutSound
<1> QED
  BY InitTimeout, NextTimeout, <1>1, PTL DEF Spec, SleepResultSound

=============================================================================
