--------------------------- MODULE SchedListsProofs ---------------------------
(***************************************************************************)
(* Proofs that the scheduler keeps thread_list and exited_threads          *)
(* consistent (ThreadListsConsistent), for every set of threads.           *)
(*                                                                         *)
(* thread_list changes in three places: create_thread appends a thread    *)
(* that was never on it, schedule() moves the chosen thread to the tail,   *)
(* and exit_thread removes the running thread.  The proof rests on what    *)
(* RemoveAt and Append do to the set of elements of a sequence without    *)
(* repetitions; the other steps only move a thread between live states,    *)
(* or free exited threads, and keep thread_list as it is.                  *)
(***************************************************************************)
EXTENDS SchedProofs

-----------------------------------------------------------------------------
(* Sequences without repetitions.                                          *)

\* The elements of s with the one at position i removed, in order.
LEMMA RemoveAtElems ==
    ASSUME NEW S, NEW s \in Seq(S), NEW i \in 1..Len(s)
    PROVE  \A k \in 1..(Len(s) - 1) :
              RemoveAt(s, i)[k] = IF k < i THEN s[k] ELSE s[k + 1]
<1> DEFINE a == SubSeq(s, 1, i - 1)
           b == SubSeq(s, i + 1, Len(s))
<1>1. /\ a \in Seq(S) /\ Len(a) = i - 1
      /\ \A k \in 1..(i - 1) : a[k] = s[k]
  BY SubSeqProperties
<1>2. /\ b \in Seq(S) /\ Len(b) = Len(s) - i
      /\ \A k \in 1..(Len(s) - i) : b[k] = s[i + k]
  <2>1. \A k \in (i + 1)..Len(s) : s[k] \in S
    OBVIOUS
  <2> QED
    BY <2>1, SubSeqProperties
<1>3. \A k \in 1..(Len(a) + Len(b)) :
         (a \o b)[k] = IF k <= Len(a) THEN a[k] ELSE b[k - Len(a)]
  BY <1>1, <1>2, ConcatProperties
<1> HIDE DEF a, b
<1>0. Len(a) + Len(b) = Len(s) - 1 /\ Len(a) = i - 1
  BY <1>1, <1>2
<1> SUFFICES ASSUME NEW k \in 1..(Len(s) - 1)
             PROVE  (a \o b)[k] = IF k < i THEN s[k] ELSE s[k + 1]
  BY DEF RemoveAt, a, b
<1>4. CASE k < i
  <2>1. k \in 1..(Len(a) + Len(b)) /\ k <= Len(a) /\ k \in 1..(i - 1)
    BY <1>0, <1>4
  <2>2. (a \o b)[k] = a[k]
    BY <2>1, <1>3
  <2> QED
    BY <2>1, <2>2, <1>1, <1>4
<1>5. CASE ~(k < i)
  <2>1. k \in 1..(Len(a) + Len(b)) /\ ~(k <= Len(a))
    BY <1>0, <1>5
  <2>2. (a \o b)[k] = b[k - (i - 1)]
    BY <1>1, <2>1, <1>3
  <2>3. k - (i - 1) \in 1..(Len(s) - i) /\ i + (k - (i - 1)) = k + 1
    BY <1>5
  <2> QED
    BY <1>2, <1>5, <2>2, <2>3
<1> QED
  BY <1>4, <1>5

\* Removing position i of a sequence without repetitions removes s[i]
\* from its elements and keeps it without repetitions.
LEMMA RemoveAtRange ==
    ASSUME NEW S, NEW s \in Seq(S), NEW i \in 1..Len(s), IsInjective(s)
    PROVE  /\ Range(RemoveAt(s, i)) = Range(s) \ {s[i]}
           /\ IsInjective(RemoveAt(s, i))
<1> DEFINE r == RemoveAt(s, i)
           f(k) == IF k < i THEN k ELSE k + 1
<1>1. r \in Seq(S) /\ Len(r) = Len(s) - 1
  BY RemoveAtType
<1>2. \A k \in 1..(Len(s) - 1) : r[k] = s[f(k)] /\ f(k) \in 1..Len(s) /\ f(k) # i
  BY RemoveAtElems
<1>3. DOMAIN r = 1..(Len(s) - 1) /\ DOMAIN s = 1..Len(s)
  BY <1>1
<1>4. Range(r) \subseteq Range(s) \ {s[i]}
  BY <1>2, <1>3 DEF Range, IsInjective
<1>5. Range(s) \ {s[i]} \subseteq Range(r)
  <2> SUFFICES ASSUME NEW j \in 1..Len(s), j # i PROVE s[j] \in Range(r)
    BY <1>3 DEF Range
  <2>1. CASE j < i
    BY <1>2, <1>3, <2>1 DEF Range
  <2>2. CASE j > i
    <3>1. j - 1 \in 1..(Len(s) - 1) /\ f(j - 1) = j
      BY <2>2
    <3> QED
      BY <1>2, <1>3, <3>1 DEF Range
  <2> QED
    BY <2>1, <2>2
<1>6. IsInjective(r)
  <2> SUFFICES ASSUME NEW a \in 1..(Len(s) - 1), NEW b \in 1..(Len(s) - 1),
                      r[a] = r[b]
               PROVE  a = b
    BY <1>3 DEF IsInjective
  <2>1. f(a) = f(b)
    BY <1>2, <1>3 DEF IsInjective
  <2> QED
    BY <2>1
<1> QED
  BY <1>4, <1>5, <1>6

\* Appending x adds x to the elements; a new element keeps the sequence
\* without repetitions.
LEMMA AppendRange ==
    ASSUME NEW S, NEW s \in Seq(S), NEW x \in S
    PROVE  /\ Range(Append(s, x)) = Range(s) \cup {x}
           /\ IsInjective(s) /\ x \notin Range(s) => IsInjective(Append(s, x))
<1>1. /\ Len(Append(s, x)) = Len(s) + 1
      /\ \A k \in 1..Len(s) : Append(s, x)[k] = s[k]
      /\ Append(s, x)[Len(s) + 1] = x
  BY AppendProperties
<1>2. DOMAIN Append(s, x) = 1..(Len(s) + 1) /\ DOMAIN s = 1..Len(s)
  BY AppendProperties
<1>3. Range(Append(s, x)) = Range(s) \cup {x}
  BY <1>1, <1>2 DEF Range
<1>4. IsInjective(s) /\ x \notin Range(s) => IsInjective(Append(s, x))
  <2> SUFFICES ASSUME IsInjective(s), x \notin Range(s),
                      NEW a \in 1..(Len(s) + 1), NEW b \in 1..(Len(s) + 1),
                      Append(s, x)[a] = Append(s, x)[b]
               PROVE  a = b
    BY <1>2 DEF IsInjective
  <2>1. \A k \in 1..Len(s) : Append(s, x)[k] \in Range(s)
    BY <1>1, <1>2 DEF Range
  <2>2. CASE a \in 1..Len(s) /\ b \in 1..Len(s)
    BY <1>1, <1>2, <2>2 DEF IsInjective
  <2>3. CASE a = Len(s) + 1 \/ b = Len(s) + 1
    BY <1>1, <2>1, <2>3
  <2> QED
    BY <2>2, <2>3
<1> QED
  BY <1>3, <1>4

\* Moving position i to the tail keeps the elements and no repetitions.
LEMMA RotateRange ==
    ASSUME NEW S, NEW s \in Seq(S), NEW i \in 1..Len(s), IsInjective(s)
    PROVE  /\ Range(Append(RemoveAt(s, i), s[i])) = Range(s)
           /\ IsInjective(Append(RemoveAt(s, i), s[i]))
<1>1. RemoveAt(s, i) \in Seq(S) /\ s[i] \in S
  BY RemoveAtType
<1>2. Range(RemoveAt(s, i)) = Range(s) \ {s[i]} /\ IsInjective(RemoveAt(s, i))
  BY RemoveAtRange
<1>3. s[i] \in Range(s)
  BY DEF Range
<1>4. s[i] \notin Range(RemoveAt(s, i))
  BY <1>2
<1>5. /\ Range(Append(RemoveAt(s, i), s[i])) = Range(RemoveAt(s, i)) \cup {s[i]}
      /\ IsInjective(Append(RemoveAt(s, i), s[i]))
  BY <1>1, <1>2, <1>4, AppendRange
<1> QED
  BY <1>2, <1>3, <1>5

-----------------------------------------------------------------------------
(* The inductive invariant.                                                *)

\* The program counters of threads that are not on thread_list.
Gone == {"unborn", "exited", "dead"}

ListsIInv == TypeOK /\ ThreadListsConsistent

LEMMA InitLists == Init => ListsIInv
<1> SUFFICES ASSUME Init PROVE ListsIInv
  OBVIOUS
<1>1. TypeOK
  BY InitTypeOK
<1>2. runq = <<Idle, Main>> /\ DOMAIN runq = {1, 2}
  BY DEF Init
<1>3. Range(runq) = {Idle, Main}
  BY <1>2 DEF Range
<1>4. Live = {Idle, Main}
  BY SchedAssumption DEF Init, Live
<1>5. IsInjective(runq)
  BY <1>2, SchedAssumption DEF IsInjective
<1> QED
  BY <1>1, <1>3, <1>4, <1>5 DEF Init, ListsIInv, ThreadListsConsistent

\* A step that keeps thread_list and the running thread, and moves no
\* thread onto or off it, keeps the lists consistent if the exited
\* threads are still those with pc "exited".
LEMMA KeepLists ==
    ASSUME TypeOK, ThreadListsConsistent, TypeOK',
           runq' = runq, cur' = cur, cur \in Range(runq),
           \A t \in Threads : pc'[t] \in Gone <=> pc[t] \in Gone,
           exited' = {t \in Threads : pc'[t] = "exited"}
    PROVE  ThreadListsConsistent'
<1>1. Live' = Live
  BY DEF Live, Gone
<1> QED
  BY <1>1 DEF ThreadListsConsistent

\* Setting the pc of a live thread c to another live state, over a pc
\* function p that agrees with pc on who is gone.
LEMMA SetLive ==
    ASSUME TypeOK, NEW p \in [Threads -> PC], NEW c \in Threads,
           pc[c] \notin Gone,
           \A t \in Threads : p[t] \in Gone <=> pc[t] \in Gone,
           NEW s \in PC \ Gone
    PROVE  /\ [p EXCEPT ![c] = s] \in [Threads -> PC]
           /\ \A t \in Threads : [p EXCEPT ![c] = s][t] \in Gone <=> pc[t] \in Gone
           /\ {t \in Threads : [p EXCEPT ![c] = s][t] = "exited"}
                 = {t \in Threads : p[t] = "exited"}
BY DEF Gone, TypeOK

\* The reaping at the end of schedule() only turns exited threads into
\* freed ones, and leaves no exited thread.
LEMMA ReapGone ==
    ASSUME TypeOK, ThreadListsConsistent, NEW c \in Threads, pc[c] \notin Gone
    PROVE  /\ ReapedPC(c) \in [Threads -> PC]
           /\ \A t \in Threads : ReapedPC(c)[t] \in Gone <=> pc[t] \in Gone
           /\ {t \in Threads : ReapedPC(c)[t] = "exited"} = {}
           /\ ReapedExited(c) = {}
<1>1. ExitedSet /\ pc[c] # "exited"
  BY DEF ThreadListsConsistent, ExitedSet, Gone
<1> QED
  BY <1>1, ReapFacts DEF Gone

\* exit_thread's removal of the running thread c from thread_list.
LEMMA DepartLists ==
    ASSUME TypeOK, ThreadListsConsistent, TypeOK',
           NEW c \in Threads, c = cur, pc[c] \notin Gone,
           NEW p \in [Threads -> PC],
           \A t \in Threads : p[t] \in Gone <=> pc[t] \in Gone,
           NEW ex, ex = {t \in Threads : p[t] = "exited"},
           Depart(c, p, ex), cur' = cur, phase' = "sched"
    PROVE  ThreadListsConsistent'
<1>1. PICK i \in 1..Len(runq) : runq[i] = c /\ runq' = RemoveAt(runq, i)
  BY DEF Depart
<1>2. IsInjective(runq) /\ Range(runq) = Live /\ runq \in Seq(Threads)
  BY DEF ThreadListsConsistent, TypeOK
<1>3. Range(runq') = Live \ {c} /\ IsInjective(runq')
  BY <1>1, <1>2, RemoveAtRange
<1>4. pc' = [p EXCEPT ![c] = "exited"]
  BY DEF Depart
<1>5. Live' = Live \ {c}
  BY <1>4 DEF Live, Gone
<1>6. exited' = {t \in Threads : pc'[t] = "exited"}
  <2>1. exited' = ex \cup {c}
    BY DEF Depart
  <2>2. p[c] # "exited"
    BY DEF Gone
  <2> QED
    BY <1>4, <2>1, <2>2
<1>7. pc'[cur'] = "exited"
  BY <1>4
<1> QED
  BY <1>3, <1>5, <1>6, <1>7 DEF ThreadListsConsistent

\* schedule()'s selection moves the chosen thread to the tail and runs it.
LEMMA SelectLists ==
    ASSUME TypeOK, ThreadListsConsistent, TypeOK', Select
    PROVE  ThreadListsConsistent'
<1>1. PICK i \in 1..Len(runq) : runq' = Append(RemoveAt(runq, i), runq[i])
                                /\ SwitchTo(runq[i])
  BY DEF Select
<1>2. IsInjective(runq) /\ Range(runq) = Live /\ runq \in Seq(Threads)
  BY DEF ThreadListsConsistent, TypeOK
<1>3. Range(runq') = Range(runq) /\ IsInjective(runq')
  BY <1>1, <1>2, RotateRange
<1>4. runq[i] \in Range(runq)
  BY DEF Range
<1>5. \A t \in Threads : pc'[t] \in Gone <=> pc[t] \in Gone
  BY <1>1 DEF SwitchTo, Gone
<1>6. Live' = Live
  BY <1>5 DEF Live, Gone
<1>7. exited' = {t \in Threads : pc'[t] = "exited"}
  BY <1>1 DEF Select, SwitchTo, ThreadListsConsistent
<1> QED
  BY <1>1, <1>3, <1>4, <1>6, <1>7, <1>2 DEF SwitchTo, ThreadListsConsistent

\* create_thread appends a thread that was never on thread_list.
LEMMA CreateLists ==
    ASSUME TypeOK, ThreadListsConsistent, TypeOK',
           NEW c \in Threads, NEW t \in Threads, NEW mj \in BOOLEAN,
           CreateThread(c, t, mj)
    PROVE  ThreadListsConsistent'
<1>1. IsInjective(runq) /\ Range(runq) = Live /\ runq \in Seq(Threads)
  BY DEF ThreadListsConsistent, TypeOK
<1>2. pc[t] = "unborn" /\ t \notin Range(runq)
  BY <1>1 DEF CreateThread, Live
<1>3. Range(runq') = Range(runq) \cup {t} /\ IsInjective(runq')
  BY <1>1, <1>2, AppendRange DEF CreateThread
<1>4. Live' = Live \cup {t}
  BY DEF CreateThread, Live, TypeOK
<1>5. exited' = {x \in Threads : pc'[x] = "exited"}
  BY <1>2 DEF CreateThread, ThreadListsConsistent, TypeOK
<1>6. cur' \in Range(runq')
  BY <1>1, <1>3 DEF CreateThread, Running, Live
<1> QED
  BY <1>1, <1>3, <1>4, <1>5, <1>6 DEF ThreadListsConsistent

LEMMA NextLists == ListsIInv /\ [Next]_vars => ListsIInv'
<1> SUFFICES ASSUME TypeOK, ThreadListsConsistent, [Next]_vars
             PROVE  ThreadListsConsistent'
  BY NextTypeOK DEF ListsIInv
<1>0. TypeOK'
  BY NextTypeOK
<1>1. CASE Select
  BY <1>0, <1>1, SelectLists
<1>2. CASE BlockDomain \/ Tick \/ UNCHANGED vars
  BY <1>2 DEF BlockDomain, Tick, vars, ThreadListsConsistent, Live
\* The running thread is live, hence on thread_list.
<1>3. ASSUME NEW c \in Threads, cur = c, pc[c] \notin Gone
      PROVE  cur \in Range(runq)
  BY <1>3 DEF ThreadListsConsistent, Live, Gone
<1>4. CASE IdleStep
  <2>1. cur \in Range(runq)
    BY <1>3, <1>4, SchedAssumption DEF IdleStep, Gone
  <2> QED
    BY <1>0, <1>4, <2>1, KeepLists DEF IdleStep, ThreadListsConsistent
<1>5. CASE ResumeIdle
  <2>1. pc[Idle] = "idle" /\ cur = Idle
    BY <1>5 DEF ResumeIdle, Returning
  <2>2. cur \in Range(runq) /\ pc[Idle] \notin Gone
    BY <1>3, <2>1, SchedAssumption DEF Gone
  <2>3. /\ \A t \in Threads : ReapedPC(Idle)[t] \in Gone <=> pc[t] \in Gone
        /\ {t \in Threads : ReapedPC(Idle)[t] = "exited"} = {}
        /\ ReapedExited(Idle) = {}
    BY <2>2, ReapGone, SchedAssumption
  <2> QED
    BY <1>0, <1>5, <2>2, <2>3, KeepLists DEF ResumeIdle
\* The calls of a running thread that only change its own pc.
<1>6. ASSUME NEW c \in Threads, NEW s \in PC \ Gone, Running(c),
             pc' = [pc EXCEPT ![c] = s],
             runq' = runq, cur' = cur, exited' = exited
      PROVE  ThreadListsConsistent'
  <2>1. pc[c] \notin Gone /\ cur \in Range(runq)
    BY <1>3, <1>6 DEF Running, Gone
  <2>2. /\ \A t \in Threads : pc'[t] \in Gone <=> pc[t] \in Gone
        /\ {t \in Threads : pc'[t] = "exited"} = {t \in Threads : pc[t] = "exited"}
    BY <1>6, <2>1 DEF TypeOK, Gone
  <2> QED
    BY <1>0, <1>6, <2>1, <2>2, KeepLists DEF ThreadListsConsistent
<1>7. ASSUME NEW c \in Threads, Yield(c) \/ BlockSelf(c)
      PROVE  ThreadListsConsistent'
  BY <1>6, <1>7 DEF Yield, BlockSelf, PC, Gone
<1>8. ASSUME NEW c \in Threads, NEW w, DoSleep(c, w)
      PROVE  ThreadListsConsistent'
  BY <1>6, <1>8 DEF DoSleep, PC, Gone
<1>9. ASSUME NEW c \in Threads, NEW d, ClockSleepAbsMono(c, d)
      PROVE  ThreadListsConsistent'
  BY <1>6, <1>9 DEF ClockSleepAbsMono, PC, Gone
<1>10. ASSUME NEW c \in Threads, NEW t \in Threads, Wake(c, t)
       PROVE  ThreadListsConsistent'
  <2>1. cur \in Range(runq)
    BY <1>3, <1>10 DEF Wake, Running, Gone
  <2> QED
    BY <1>0, <1>10, <2>1, KeepLists DEF Wake, ThreadListsConsistent
<1>11. ASSUME NEW c \in Threads, NEW t \in Threads, JoinThread(c, t)
       PROVE  ThreadListsConsistent'
  <2>1. CASE JoinDone(c, t, pc, exited, joinwq)
    BY <1>6, <1>11, <2>1 DEF JoinThread, JoinDone, PC, Gone
  <2>2. CASE JoinWait(c, t, pc, exited, joinwq)
    BY <1>6, <1>11, <2>2 DEF JoinThread, JoinWait, PC, Gone
  <2> QED
    BY <1>11, <2>1, <2>2 DEF JoinThread
<1>12. ASSUME NEW c \in Threads, NEW mj \in BOOLEAN, NEW t \in Threads,
              CreateThread(c, t, mj)
       PROVE  ThreadListsConsistent'
  BY <1>0, <1>12, CreateLists
<1>13. ASSUME NEW c \in Threads, ExitThread(c)
       PROVE  ThreadListsConsistent'
  <2>1. pc[c] = "user" /\ pc[c] \notin Gone /\ cur = c /\ cur \in Range(runq)
    BY <1>3, <1>13 DEF ExitThread, Running, Gone
  <2>3. exited = {t \in Threads : pc[t] = "exited"} /\ pc \in [Threads -> PC]
    BY DEF ThreadListsConsistent, TypeOK
  <2>4. CASE ExitGate(c, pc, exited)
    <3>1. pc' = [pc EXCEPT ![c] = "exitgate"] /\ runq' = runq /\ exited' = exited
      BY <2>4 DEF ExitGate
    <3>2. /\ \A t \in Threads : pc'[t] \in Gone <=> pc[t] \in Gone
          /\ {t \in Threads : pc'[t] = "exited"} = exited
      BY <2>1, <2>3, <3>1, SetLive DEF PC, Gone
    <3> QED
      BY <1>0, <1>13, <2>1, <3>1, <3>2, KeepLists DEF ExitThread
  <2>5. CASE Depart(c, pc, exited)
    BY <1>0, <1>13, <2>1, <2>3, <2>5, DepartLists, Zenon DEF ExitThread
  <2> QED
    BY <1>13, <2>4, <2>5 DEF ExitThread

\* The returns from schedule() in a thread c: reap, then set c's pc.
<1>14. ASSUME NEW c \in Threads, NEW s \in PC \ Gone,
              cur = c, phase = "ret", pc[c] \notin Gone,
              pc' = [ReapedPC(c) EXCEPT ![c] = s], exited' = ReapedExited(c),
              runq' = runq, cur' = cur
       PROVE  ThreadListsConsistent'
  <2>1. cur \in Range(runq)
    BY <1>3, <1>14
  <2>2. /\ ReapedPC(c) \in [Threads -> PC]
        /\ \A t \in Threads : ReapedPC(c)[t] \in Gone <=> pc[t] \in Gone
        /\ {t \in Threads : ReapedPC(c)[t] = "exited"} = {}
        /\ ReapedExited(c) = {}
    BY <1>14, ReapGone
  <2>3. /\ \A t \in Threads : pc'[t] \in Gone <=> pc[t] \in Gone
        /\ {t \in Threads : pc'[t] = "exited"} = {}
    BY <1>14, <2>2, SetLive
  <2> QED
    BY <1>0, <1>14, <2>1, <2>2, <2>3, KeepLists
<1>15. ASSUME NEW c \in Threads, ResumeReturn(c) \/ ResumeSleep(c)
       PROVE  ThreadListsConsistent'
  BY <1>14, <1>15 DEF ResumeReturn, ResumeSleep, Returning, PC, Gone
<1>16. ASSUME NEW c \in Threads, ResumeJoin(c)
       PROVE  ThreadListsConsistent'
  <2> DEFINE t == joinee[c]
             jq == joinwq \ {<<c, t>>}
  <2>1. cur = c /\ phase = "ret" /\ pc[c] \notin Gone /\ UNCHANGED <<runq, cur>>
    BY <1>16 DEF ResumeJoin, Returning, Gone
  <2>2. CASE JoinDone(c, t, ReapedPC(c), ReapedExited(c), jq)
    BY <1>14, <2>1, <2>2 DEF JoinDone, PC, Gone
  <2>3. CASE JoinWait(c, t, ReapedPC(c), ReapedExited(c), jq)
    BY <1>14, <2>1, <2>3 DEF JoinWait, PC, Gone
  <2> QED
    BY <1>16, <2>2, <2>3 DEF ResumeJoin
<1>17. ASSUME NEW c \in Threads, ResumeExitGate(c)
       PROVE  ThreadListsConsistent'
  <2>1. cur = c /\ phase = "ret" /\ pc[c] \notin Gone /\ cur' = cur
        /\ phase' = "sched"
    BY <1>17 DEF ResumeExitGate, Returning, Gone
  <2>2. /\ ReapedPC(c) \in [Threads -> PC]
        /\ \A x \in Threads : ReapedPC(c)[x] \in Gone <=> pc[x] \in Gone
        /\ {x \in Threads : ReapedPC(c)[x] = "exited"} = {}
        /\ ReapedExited(c) = {}
    BY <2>1, ReapGone
  <2>3. CASE ExitGate(c, ReapedPC(c), ReapedExited(c))
    BY <1>14, <2>1, <2>3 DEF ExitGate, PC, Gone
  <2>4. CASE Depart(c, ReapedPC(c), ReapedExited(c))
    <3>1. ReapedExited(c) = {x \in Threads : ReapedPC(c)[x] = "exited"}
      BY <2>2
    <3> QED
      BY <1>0, <2>1, <2>2, <2>4, <3>1, DepartLists, Zenon
  <2> QED
    BY <1>17, <2>3, <2>4 DEF ResumeExitGate
<1> QED
  BY <1>1, <1>2, <1>4, <1>5, <1>7, <1>8, <1>9, <1>10, <1>11, <1>12, <1>13,
     <1>15, <1>16, <1>17 DEF Next, Msleep, Absmsleep

\* thread_list holds every live thread exactly once, exited_threads holds
\* exactly the threads exit_thread has taken off thread_list and schedule()
\* has not freed yet, and the running thread is on thread_list unless it is
\* exit_thread switching away: create_thread's TAILQ_INSERT_TAIL,
\* schedule()'s move to the tail, exit_thread's TAILQ_REMOVE and the reap of
\* exited_threads keep the two lists in step, for any number of threads.
THEOREM ThreadListsConsistentHolds == Spec => []ThreadListsConsistent
<1>1. ListsIInv => ThreadListsConsistent
  BY DEF ListsIInv
<1> QED
  BY InitLists, NextLists, <1>1, PTL DEF Spec

=============================================================================
