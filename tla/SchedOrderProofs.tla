---------------------------- MODULE SchedOrderProofs ----------------------------
(***************************************************************************)
(* Proof of the round-robin property of schedule() (NoOvertake), for every *)
(* set of threads.                                                         *)
(*                                                                         *)
(* schedule() runs the first candidate on thread_list and moves it to the  *)
(* tail.  So a thread selected while t stayed runnable (passed[t]) sits     *)
(* behind t on thread_list (PassedBehind), and cannot be the first         *)
(* candidate again while t is one.  This needs that only live threads are  *)
(* runnable (RunnableLive), so that a runnable thread is on thread_list,   *)
(* and that a thread not yet created has been passed by nobody            *)
(* (UnbornUnpassed), so that create_thread appends it behind everyone.     *)
(***************************************************************************)
EXTENDS SchedJoinProofs

\* x is before y on the sequence s.
Before(s, x, y) == \E a, b \in 1..Len(s) : a < b /\ s[a] = x /\ s[b] = y

-----------------------------------------------------------------------------
(* Order on sequences.                                                     *)

\* Removing a third element keeps the order of two others.
LEMMA BeforeRemove ==
    ASSUME NEW S, NEW s \in Seq(S), NEW i \in 1..Len(s), NEW x, NEW y,
           Before(s, x, y), x # s[i], y # s[i]
    PROVE  Before(RemoveAt(s, i), x, y)
<1>1. PICK a, b \in 1..Len(s) : a < b /\ s[a] = x /\ s[b] = y
  BY DEF Before
<1>2. a # i /\ b # i
  BY <1>1
<1> DEFINE f(k) == IF k < i THEN k ELSE k - 1
<1>3. /\ f(a) \in 1..(Len(s) - 1) /\ f(b) \in 1..(Len(s) - 1) /\ f(a) < f(b)
      /\ (IF f(a) < i THEN s[f(a)] ELSE s[f(a) + 1]) = x
      /\ (IF f(b) < i THEN s[f(b)] ELSE s[f(b) + 1]) = y
  BY <1>1, <1>2
<1>4. /\ RemoveAt(s, i)[f(a)] = x /\ RemoveAt(s, i)[f(b)] = y
      /\ Len(RemoveAt(s, i)) = Len(s) - 1
  BY <1>3, RemoveAtElems, RemoveAtType
<1> QED
  BY <1>3, <1>4 DEF Before

\* Appending keeps the order, and puts the new element behind everyone.
LEMMA BeforeAppend ==
    ASSUME NEW S, NEW s \in Seq(S), NEW z \in S
    PROVE  /\ \A x, y : Before(s, x, y) => Before(Append(s, z), x, y)
           /\ \A x \in Range(s) : Before(Append(s, z), x, z)
<1>1. /\ Len(Append(s, z)) = Len(s) + 1
      /\ \A k \in 1..Len(s) : Append(s, z)[k] = s[k]
      /\ Append(s, z)[Len(s) + 1] = z
  BY AppendProperties
<1>2. \A x, y : Before(s, x, y) => Before(Append(s, z), x, y)
  <2> SUFFICES ASSUME NEW x, NEW y, Before(s, x, y)
               PROVE  Before(Append(s, z), x, y)
    OBVIOUS
  <2>1. PICK a, b \in 1..Len(s) : a < b /\ s[a] = x /\ s[b] = y
    BY DEF Before
  <2> QED
    BY <1>1, <2>1 DEF Before
<1>3. \A x \in Range(s) : Before(Append(s, z), x, z)
  <2> SUFFICES ASSUME NEW a \in 1..Len(s)
               PROVE  Before(Append(s, z), s[a], z)
    BY DEF Range
  <2>1. a < Len(s) + 1 /\ Len(s) + 1 \in 1..Len(Append(s, z))
    BY <1>1
  <2> QED
    BY <1>1, <2>1 DEF Before
<1> QED
  BY <1>2, <1>3

\* schedule()'s move to the tail keeps the order of the others and puts
\* the selected thread behind all of them.
LEMMA BeforeRotate ==
    ASSUME NEW S, NEW s \in Seq(S), NEW i \in 1..Len(s), IsInjective(s)
    PROVE  /\ \A x, y : Before(s, x, y) /\ x # s[i] /\ y # s[i]
                          => Before(Append(RemoveAt(s, i), s[i]), x, y)
           /\ \A x \in Range(s) \ {s[i]} :
                 Before(Append(RemoveAt(s, i), s[i]), x, s[i])
<1>1. RemoveAt(s, i) \in Seq(S) /\ s[i] \in S
  BY RemoveAtType
<1>2. Range(RemoveAt(s, i)) = Range(s) \ {s[i]}
  BY RemoveAtRange
<1>3. \A x, y : Before(s, x, y) /\ x # s[i] /\ y # s[i]
                  => Before(RemoveAt(s, i), x, y)
  BY BeforeRemove
<1> QED
  BY <1>1, <1>2, <1>3, BeforeAppend

\* The thread at position k of a sequence without repetitions is before
\* only threads at later positions.
LEMMA BeforePosition ==
    ASSUME NEW S, NEW s \in Seq(S), IsInjective(s),
           NEW k \in 1..Len(s), NEW j \in 1..Len(s), Before(s, s[k], s[j])
    PROVE  k < j
BY DEF Before, IsInjective

-----------------------------------------------------------------------------
(* The inductive invariant.                                                *)

\* A thread selected while t stayed runnable is behind t on thread_list.
PassedBehind ==
    \A t, x \in Threads :
        x \in passed[t] /\ t \in Range(runq) /\ x \in Range(runq)
            => Before(runq, t, x)

\* Only a live thread is runnable.
RunnableLive == \A t \in Threads : RUNNABLE \in flags[t] => t \in Live

\* Nobody has passed a thread that is not created yet.
UnbornUnpassed == \A t \in Threads : pc[t] = "unborn" => passed[t] = {}

OrderParts == PassedBehind /\ RunnableLive /\ UnbornUnpassed

OrderIInv == JoinIInv /\ OrderParts

LEMMA InitOrder == Init => OrderIInv
<1> SUFFICES ASSUME Init PROVE OrderIInv
  OBVIOUS
<1>1. JoinIInv
  BY InitJoin
<1>2. \A t \in Threads : RUNNABLE \in flags[t] => t \in {Idle, Main}
  BY DEF Init
<1>3. pc[Idle] = "idle" /\ pc[Main] = "new"
  BY SchedAssumption DEF Init
<1> QED
  BY <1>1, <1>2, <1>3 DEF Init, OrderIInv, OrderParts, PassedBehind,
                          RunnableLive, UnbornUnpassed, Live

\* The reaping revives no thread that was never created.
LEMMA ReapUnborn ==
    ASSUME NEW c, NEW t \in Threads
    PROVE  ReapedPC(c)[t] = "unborn" => pc[t] = "unborn"
BY DEF ReapedPC

\* schedule()'s selection: the chosen thread goes behind every thread that
\* stays runnable, and joins their passed sets.
LEMMA SelectOrder ==
    ASSUME TypeOK, ThreadListsConsistent, OrderParts, Select
    PROVE  OrderParts'
<1> USE DEF OrderParts
<1>1. PICK i \in 1..Len(runq) : runq' = Append(RemoveAt(runq, i), runq[i])
                                /\ SwitchTo(runq[i])
  BY DEF Select
<1> DEFINE n == runq[i]
<1>2. /\ runq \in Seq(Threads) /\ IsInjective(runq) /\ Range(runq) = Live
      /\ n \in Threads /\ n \in Range(runq)
  BY DEF TypeOK, ThreadListsConsistent, Range
<1>3. Range(runq') = Range(runq)
  BY <1>1, <1>2, RotateRange
<1>4. \A t \in Threads : pc'[t] \in Gone <=> pc[t] \in Gone
  BY <1>1, <1>2, SwitchToFlags
<1>5. Live' = Live
  BY <1>4 DEF Live, Gone
<1>6. passed' = [t \in Threads |-> IF t = n \/ RUNNABLE \notin flags[t] THEN {}
                                   ELSE passed[t] \cup {n}]
  BY <1>1 DEF SwitchTo
<1>7. PassedBehind'
  <2> SUFFICES ASSUME NEW t \in Threads, NEW x \in Threads, x \in passed'[t],
                      t \in Range(runq), x \in Range(runq)
               PROVE  Before(runq', t, x)
    BY <1>3 DEF PassedBehind
  <2>1. t # n /\ x \in passed[t] \cup {n}
    BY <1>6
  <2>2. CASE x = n
    BY <1>1, <1>2, <2>1, <2>2, BeforeRotate
  <2>3. CASE x # n
    <3>1. Before(runq, t, x)
      BY <2>1, <2>3 DEF PassedBehind
    <3> QED
      BY <1>1, <1>2, <2>1, <2>3, <3>1, BeforeRotate
  <2> QED
    BY <2>2, <2>3
<1>8. RunnableLive'
  <2>1. \A t \in Threads : RUNNABLE \in flags'[t] => RUNNABLE \in flags[t] \/ t = n
    BY <1>1, <1>2 DEF SwitchTo, TypeOK
  <2> QED
    BY <1>2, <1>5, <2>1 DEF RunnableLive
<1>9. UnbornUnpassed'
  <2> SUFFICES ASSUME NEW t \in Threads, pc'[t] = "unborn" PROVE passed'[t] = {}
    BY DEF UnbornUnpassed
  <2>1. pc[t] = "unborn"
    BY <1>1, <1>2 DEF SwitchTo, TypeOK
  <2>2. RUNNABLE \notin flags[t]
    BY <2>1 DEF RunnableLive, Live
  <2> QED
    BY <1>6, <2>2
<1> QED
  BY <1>7, <1>8, <1>9 DEF OrderParts

\* create_thread appends a thread nobody has passed.
LEMMA CreateOrder ==
    ASSUME TypeOK, ThreadListsConsistent, OrderParts, NEW c \in Threads,
           NEW t \in Threads, NEW mj \in BOOLEAN, CreateThread(c, t, mj)
    PROVE  OrderParts'
<1> USE DEF OrderParts
<1>1. /\ runq \in Seq(Threads) /\ Range(runq) = Live
      /\ pc[t] = "unborn" /\ t \notin Live /\ passed[t] = {}
  BY DEF TypeOK, ThreadListsConsistent, CreateThread, Live, UnbornUnpassed
<1>2. runq' = Append(runq, t) /\ UNCHANGED passed
  BY DEF CreateThread
<1>3. Range(runq') = Range(runq) \cup {t}
  BY <1>1, <1>2, AppendRange
<1>4. /\ \A u \in Threads \ {t} : pc'[u] = pc[u] /\ flags'[u] = flags[u]
      /\ pc'[t] = "new"
  BY DEF CreateThread, TypeOK
<1>5. PassedBehind'
  <2> SUFFICES ASSUME NEW u \in Threads, NEW x \in Threads, x \in passed[u],
                      u \in Range(runq'), x \in Range(runq')
               PROVE  Before(runq', u, x)
    BY <1>2 DEF PassedBehind
  <2>1. u # t /\ u \in Range(runq)
    BY <1>1, <1>3
  <2>2. CASE x = t
    BY <1>1, <1>2, <2>1, <2>2, BeforeAppend
  <2>3. CASE x # t
    BY <1>1, <1>2, <1>3, <2>1, <2>3, BeforeAppend DEF PassedBehind
  <2> QED
    BY <2>2, <2>3
<1>6. RunnableLive'
  BY <1>4 DEF RunnableLive, Live
<1>7. UnbornUnpassed'
  BY <1>2, <1>4 DEF UnbornUnpassed
<1> QED
  BY <1>5, <1>6, <1>7 DEF OrderParts

\* exit_thread's removal keeps the order of the others and leaves the
\* departing thread not runnable.
LEMMA DepartOrder ==
    ASSUME TypeOK, ThreadListsConsistent, OrderParts, NEW c \in Threads,
           NEW p \in [Threads -> PC],
           \A t \in Threads : p[t] \in Gone <=> pc[t] \in Gone,
           \A t \in Threads : p[t] = "unborn" => pc[t] = "unborn",
           NEW ex, Depart(c, p, ex), UNCHANGED passed
    PROVE  OrderParts'
<1> USE DEF OrderParts
<1>1. PICK i \in 1..Len(runq) : runq[i] = c /\ runq' = RemoveAt(runq, i)
  BY DEF Depart
<1>2. runq \in Seq(Threads) /\ IsInjective(runq)
  BY DEF TypeOK, ThreadListsConsistent
<1>3. Range(runq') = Range(runq) \ {c}
  BY <1>1, <1>2, RemoveAtRange
<1>4. /\ pc' = [p EXCEPT ![c] = "exited"] /\ flags' = BlockFlags(c)
      /\ \A u \in Threads \ {c} : pc'[u] = p[u] /\ flags'[u] = flags[u]
      /\ RUNNABLE \notin flags'[c] /\ pc'[c] = "exited"
  BY DEF Depart, BlockFlags, TypeOK
<1>5. PassedBehind'
  BY <1>1, <1>2, <1>3, BeforeRemove DEF PassedBehind
<1>6. RunnableLive'
  BY <1>4 DEF RunnableLive, Live, Gone
<1>7. UnbornUnpassed'
  BY <1>4 DEF UnbornUnpassed
<1> QED
  BY <1>5, <1>6, <1>7 DEF OrderParts

\* The exit gate wakes only a parked joiner.
LEMMA ExitGateRunnable ==
    ASSUME TypeOK, JoinProtocolSafe, NEW c \in Threads, NEW p, NEW ex,
           ExitGate(c, p, ex)
    PROVE  \A x \in Threads : RUNNABLE \in flags'[x]
                                => RUNNABLE \in flags[x] \/ pc[x] = "joinwait"
<1> DEFINE waiters == {e \in joinwq : e[2] = c}
           woken == IF waiters = {} THEN {} ELSE {(CHOOSE e \in waiters : TRUE)[1]}
<1>1. \A x \in woken : pc[x] = "joinwait"
  BY DEF JoinProtocolSafe
<1>2. \A x \in Threads : RUNNABLE \in flags'[x] => RUNNABLE \in flags[x] \/ x \in woken
  BY DEF ExitGate, TypeOK, RUNNABLE, JOINED
<1> QED
  BY <1>1, <1>2

LEMMA NextOrder == OrderIInv /\ [Next]_vars => OrderIInv'
<1> SUFFICES ASSUME TypeOK, ThreadListsConsistent, JoinParts, OrderParts,
                    [Next]_vars
             PROVE  OrderParts'
  BY NextJoin DEF OrderIInv, JoinIInv, ListsIInv
<1>0. TypeOK'
  BY NextTypeOK
\* A step that keeps thread_list and passed, moves no thread onto or off
\* it, creates none, and makes runnable only live threads.
<1>1. ASSUME runq' = runq, passed' = passed,
             \A t \in Threads : pc'[t] \in Gone <=> pc[t] \in Gone,
             \A t \in Threads : pc'[t] = "unborn" => pc[t] = "unborn",
             \A t \in Threads : RUNNABLE \in flags'[t]
                                  => RUNNABLE \in flags[t] \/ pc[t] \notin Gone
      PROVE  OrderParts'
  <2>1. Live' = Live
    BY <1>1 DEF Live, Gone
  <2> QED
    BY <1>1, <2>1 DEF OrderParts, PassedBehind, RunnableLive, UnbornUnpassed,
                      Live, Gone
\* Setting the pc of a live thread to a live state over a reaped pc.
<1>2. ASSUME NEW c \in Threads, NEW p \in [Threads -> PC],
             \A t \in Threads : p[t] \in Gone <=> pc[t] \in Gone,
             \A t \in Threads : p[t] = "unborn" => pc[t] = "unborn",
             pc[c] \notin Gone, NEW s \in PC \ Gone
      PROVE  /\ \A t \in Threads : [p EXCEPT ![c] = s][t] \in Gone <=> pc[t] \in Gone
             /\ \A t \in Threads : [p EXCEPT ![c] = s][t] = "unborn"
                                     => pc[t] = "unborn"
  BY <1>2 DEF Gone
<1>3. ASSUME NEW c \in Threads, pc[c] \notin Gone
      PROVE  /\ ReapedPC(c) \in [Threads -> PC]
             /\ \A t \in Threads : ReapedPC(c)[t] \in Gone <=> pc[t] \in Gone
             /\ \A t \in Threads : ReapedPC(c)[t] = "unborn" => pc[t] = "unborn"
  BY <1>3, ReapGone, ReapUnborn
<1>4. ASSUME NEW c \in Threads, Running(c)
      PROVE  pc[c] \notin Gone /\ pc \in [Threads -> PC]
  BY <1>4 DEF Running, Gone, TypeOK
<1>5. CASE Select
  BY <1>5, SelectOrder
<1>6. CASE BlockDomain \/ Tick \/ UNCHANGED vars
  BY <1>6 DEF BlockDomain, Tick, vars, OrderParts, PassedBehind, RunnableLive,
              UnbornUnpassed, Live
<1>7. CASE IdleStep
  BY <1>1, <1>7 DEF IdleStep, BlockFlags, TypeOK
<1>8. CASE ResumeIdle
  <2>1. pc[Idle] \notin Gone
    BY <1>8 DEF ResumeIdle, Returning, Gone
  <2> QED
    BY <1>1, <1>3, <1>8, <2>1, SchedAssumption DEF ResumeIdle
<1>9. ASSUME NEW c \in Threads, Yield(c) \/ BlockSelf(c)
      PROVE  OrderParts'
  <2>1. pc[c] \notin Gone /\ pc \in [Threads -> PC]
    BY <1>4, <1>9 DEF Yield, BlockSelf
  <2>2. CASE Yield(c)
    BY <1>1, <1>2, <2>1, <2>2 DEF Yield, PC, Gone
  <2>3. CASE BlockSelf(c)
    BY <1>1, <1>2, <2>1, <2>3 DEF BlockSelf, BlockFlags, TypeOK, PC, Gone
  <2> QED
    BY <1>9, <2>2, <2>3
<1>10. ASSUME NEW c \in Threads, NEW w, DoSleep(c, w)
       PROVE  OrderParts'
  <2>1. pc[c] \notin Gone /\ pc \in [Threads -> PC]
    BY <1>4, <1>10 DEF DoSleep
  <2> QED
    BY <1>1, <1>2, <1>10, <2>1 DEF DoSleep, TypeOK, PC, Gone
<1>11. ASSUME NEW c \in Threads, NEW d, ClockSleepAbsMono(c, d)
       PROVE  OrderParts'
  <2>1. pc[c] \notin Gone /\ pc \in [Threads -> PC]
    BY <1>4, <1>11 DEF ClockSleepAbsMono
  <2> QED
    BY <1>1, <1>2, <1>11, <2>1 DEF ClockSleepAbsMono, BlockFlags, TypeOK, PC, Gone
<1>12. ASSUME NEW c \in Threads, NEW t \in Threads, Wake(c, t)
       PROVE  OrderParts'
  <2>1. pc[t] \notin Gone
    BY <1>12 DEF Wake, ThreadListsConsistent, Live, Gone
  <2> QED
    BY <1>1, <1>12, <2>1 DEF Wake, WakeFlags, TypeOK
<1>13. ASSUME NEW c \in Threads, NEW mj \in BOOLEAN, NEW t \in Threads,
              CreateThread(c, t, mj)
       PROVE  OrderParts'
  BY <1>13, CreateOrder
\* join_thread and its return from schedule(), over a reaped pc p: the
\* joinee made runnable is live (it carries THREAD_MUSTJOIN).
<1>14. ASSUME NEW c \in Threads, NEW t \in Threads, NEW p \in [Threads -> PC],
              NEW ex, NEW jq,
              JoinDone(c, t, p, ex, jq) \/ JoinWait(c, t, p, ex, jq),
              \A x \in Threads : p[x] \in Gone <=> pc[x] \in Gone,
              \A x \in Threads : p[x] = "unborn" => pc[x] = "unborn",
              pc[c] \notin Gone, MUSTJOIN \in flags[t],
              UNCHANGED <<runq, passed>>
       PROVE  OrderParts'
  <2>1. pc[t] \notin Gone
    BY <1>14 DEF JoinParts, MustJoinLive, Live, Gone
  <2>2. CASE JoinDone(c, t, p, ex, jq)
    <3>1. \A x \in Threads : RUNNABLE \in flags'[x] => RUNNABLE \in flags[x] \/ x = t
      BY <2>2 DEF JoinDone, TypeOK
    <3> QED
      BY <1>1, <1>2, <1>14, <2>1, <2>2, <3>1 DEF JoinDone, PC, Gone
  <2>3. CASE JoinWait(c, t, p, ex, jq)
    BY <1>1, <1>2, <1>14, <2>3 DEF JoinWait, BlockFlags, TypeOK, PC, Gone
  <2> QED
    BY <1>14, <2>2, <2>3
<1>15. ASSUME NEW c \in Threads, NEW t \in Threads, JoinThread(c, t)
       PROVE  OrderParts'
  <2>1. pc[c] \notin Gone /\ pc \in [Threads -> PC] /\ MUSTJOIN \in flags[t]
    BY <1>4, <1>15 DEF JoinThread
  <2> QED
    BY <1>14, <1>15, <2>1 DEF JoinThread
<1>16. ASSUME NEW c \in Threads, ResumeJoin(c)
       PROVE  OrderParts'
  <2> DEFINE t == joinee[c]
             jq == joinwq \ {<<c, t>>}
  <2>1. pc[c] = "joinwait" /\ pc[c] \notin Gone /\ UNCHANGED <<runq, passed>>
    BY <1>16 DEF ResumeJoin, Returning, Gone
  <2>2. t \in Threads /\ MUSTJOIN \in flags[t]
    BY <2>1 DEF JoinParts, JoinProtocolSafe, TypeOK
  <2>3. JoinDone(c, t, ReapedPC(c), ReapedExited(c), jq)
        \/ JoinWait(c, t, ReapedPC(c), ReapedExited(c), jq)
    BY <1>16 DEF ResumeJoin
  <2> QED
    BY <1>3, <1>14, <2>1, <2>2, <2>3
\* exit_thread and its return from the gate, over a reaped pc p.
<1>17. ASSUME NEW c \in Threads, NEW p \in [Threads -> PC], NEW ex,
              ExitGate(c, p, ex) \/ (MUSTJOIN \notin flags[c] /\ Depart(c, p, ex)),
              \A x \in Threads : p[x] \in Gone <=> pc[x] \in Gone,
              \A x \in Threads : p[x] = "unborn" => pc[x] = "unborn",
              pc[c] \notin Gone, UNCHANGED passed
       PROVE  OrderParts'
  <2>1. CASE ExitGate(c, p, ex)
    <3>1. \A x \in Threads : RUNNABLE \in flags'[x]
                               => RUNNABLE \in flags[x] \/ pc[x] = "joinwait"
      BY <2>1, ExitGateRunnable DEF JoinParts
    <3>2. pc' = [p EXCEPT ![c] = "exitgate"] /\ runq' = runq
      BY <2>1 DEF ExitGate
    <3> QED
      BY <1>1, <1>2, <1>17, <3>1, <3>2 DEF PC, Gone
  <2>2. CASE MUSTJOIN \notin flags[c] /\ Depart(c, p, ex)
    BY <1>17, <2>2, DepartOrder
  <2> QED
    BY <1>17, <2>1, <2>2
<1>18. ASSUME NEW c \in Threads, ExitThread(c)
       PROVE  OrderParts'
  <2>1. pc[c] \notin Gone /\ pc \in [Threads -> PC]
    BY <1>4, <1>18 DEF ExitThread
  <2> QED
    BY <1>17, <1>18, <2>1 DEF ExitThread
<1>19. ASSUME NEW c \in Threads, ResumeExitGate(c)
       PROVE  OrderParts'
  <2>1. pc[c] \notin Gone
    BY <1>19 DEF ResumeExitGate, Returning, Gone
  <2> QED
    BY <1>3, <1>17, <1>19, <2>1 DEF ResumeExitGate
<1>20. ASSUME NEW c \in Threads, ResumeReturn(c) \/ ResumeSleep(c)
       PROVE  OrderParts'
  <2>1. pc[c] \notin Gone
    BY <1>20 DEF ResumeReturn, ResumeSleep, Returning, Gone
  <2>2. CASE ResumeReturn(c)
    BY <1>1, <1>2, <1>3, <2>1, <2>2 DEF ResumeReturn, PC, Gone
  <2>3. CASE ResumeSleep(c)
    BY <1>1, <1>2, <1>3, <2>1, <2>3 DEF ResumeSleep, TypeOK, PC, Gone
  <2> QED
    BY <1>20, <2>2, <2>3
<1> QED
  BY <1>5, <1>6, <1>7, <1>8, <1>9, <1>10, <1>11, <1>12, <1>13, <1>15, <1>16,
     <1>18, <1>19, <1>20 DEF Next, Msleep, Absmsleep

\* The selection loop's first candidate is never a thread that overtook a
\* runnable t: such a thread is behind t, and t is a candidate itself.
LEMMA SelectNoOvertake ==
    ASSUME TypeOK, ThreadListsConsistent, OrderParts, Select
    PROVE  \A t \in Threads :
              (t # cur' /\ RUNNABLE \in flags[t]) => cur' \notin passed[t]
<1>1. PICK i \in 1..Len(runq) : FirstCandidate(i) /\ SwitchTo(runq[i])
  BY DEF Select
<1>2. cur' = runq[i]
  BY <1>1 DEF SwitchTo
<1>3. runq \in Seq(Threads) /\ IsInjective(runq) /\ Range(runq) = Live
      /\ runq[i] \in Threads
  BY DEF TypeOK, ThreadListsConsistent
<1> SUFFICES ASSUME NEW t \in Threads, t # runq[i], RUNNABLE \in flags[t],
                    runq[i] \in passed[t]
             PROVE  FALSE
  BY <1>2
<1>4. PICK k \in 1..Len(runq) : runq[k] = t
  BY <1>3 DEF OrderParts, RunnableLive, Range
<1>5. Before(runq, runq[k], runq[i])
  BY <1>3, <1>4 DEF OrderParts, PassedBehind, Range
<1>6. k < i
  BY <1>3, <1>5, BeforePosition
<1>7. Candidate(runq[k])
  BY <1>4 DEF Candidate
<1> QED
  BY <1>1, <1>6, <1>7 DEF FirstCandidate

\* Only the selection loop leaves phase "sched" for "run" or "ret".
LEMMA LeaveSchedIsSelect ==
    ASSUME [Next]_vars, phase = "sched", phase' # "sched"
    PROVE  Select
<1>1. ~(BlockDomain \/ Tick \/ IdleStep \/ ResumeIdle \/ UNCHANGED vars)
  BY DEF BlockDomain, Tick, IdleStep, ResumeIdle, Returning, vars
<1>2. \A c \in Threads :
        ~(\/ Yield(c) \/ BlockSelf(c) \/ ExitThread(c)
          \/ ResumeReturn(c) \/ ResumeSleep(c) \/ ResumeJoin(c)
          \/ ResumeExitGate(c)
          \/ \E d \in Delays : Msleep(c, d)
          \/ \E d \in 0..MaxTime : Absmsleep(c, d) \/ ClockSleepAbsMono(c, d)
          \/ \E t \in Threads :
               \/ Wake(c, t) \/ JoinThread(c, t)
               \/ \E mj \in BOOLEAN : CreateThread(c, t, mj))
  BY DEF Yield, BlockSelf, ExitThread, ResumeReturn, ResumeSleep, ResumeJoin,
         ResumeExitGate, Msleep, Absmsleep, DoSleep, ClockSleepAbsMono, Wake,
         JoinThread, CreateThread, Running, Returning
<1> QED
  BY <1>1, <1>2 DEF Next

\* Tail-rotation round robin (schedule(), lines 113-119): while a thread
\* stays runnable, no other thread is selected twice before it is, for any
\* number of threads.
THEOREM NoOvertakeHolds == Spec => NoOvertake
<1>1. OrderIInv /\ [Next]_vars =>
        [phase = "sched" /\ phase' # "sched" =>
           \A t \in Threads :
              (t # cur' /\ RUNNABLE \in flags[t]) => cur' \notin passed[t]]_vars
  BY LeaveSchedIsSelect, SelectNoOvertake
     DEF OrderIInv, JoinIInv, ListsIInv
<1> QED
  BY InitOrder, NextOrder, <1>1, PTL DEF Spec, NoOvertake

=============================================================================
