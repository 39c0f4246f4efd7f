---------------------------- MODULE SchedJoinProofs ----------------------------
(***************************************************************************)
(* Proof that the join handshake of join_thread and exit_thread never     *)
(* leaves a dangling joinwq entry (JoinProtocolSafe), for every set of     *)
(* threads.                                                                *)
(*                                                                         *)
(* JoinProtocolSafe is not inductive by itself: join_thread may park on a  *)
(* thread only if that thread is alive, which holds because only live      *)
(* threads carry THREAD_MUSTJOIN (MustJoinLive); and the joiner resumed by *)
(* exit_thread drops THREAD_MUSTJOIN of its joinee, which leaves no other  *)
(* entry dangling because join_thread refuses a second joiner (OneJoiner). *)
(***************************************************************************)
EXTENDS SchedListsProofs

\* Only a thread that is created and has not exited carries THREAD_MUSTJOIN.
MustJoinLive == \A t \in Threads : MUSTJOIN \in flags[t] => t \in Live

\* At most one joiner waits on each thread.
OneJoiner == \A e, f \in joinwq : e[2] = f[2] => e = f

JoinParts == JoinProtocolSafe /\ MustJoinLive /\ OneJoiner

JoinIInv == ListsIInv /\ JoinParts

LEMMA InitJoin == Init => JoinIInv
<1> SUFFICES ASSUME Init PROVE JoinIInv
  OBVIOUS
<1>1. ListsIInv
  BY InitLists
<1>2. \A t \in Threads : MUSTJOIN \notin flags[t] /\ pc[t] # "joinwait"
  BY DEF Init, MUSTJOIN, RUNNABLE
<1> QED
  BY <1>1, <1>2 DEF Init, JoinIInv, JoinParts, JoinProtocolSafe, MustJoinLive,
                    OneJoiner

\* A step that keeps joinwq, the joinees, THREAD_MUSTJOIN, who is parked
\* in join_thread and who is alive keeps the join handshake consistent.
LEMMA JoinKeep ==
    ASSUME TypeOK, JoinParts, joinwq' = joinwq, joinee' = joinee,
           \A t \in Threads : MUSTJOIN \in flags'[t] <=> MUSTJOIN \in flags[t],
           \A t \in Threads : pc'[t] = "joinwait" <=> pc[t] = "joinwait",
           \A t \in Threads : pc'[t] \in Gone <=> pc[t] \in Gone
    PROVE  JoinParts'
<1>1. Live' = Live
  BY DEF Live, Gone
<1>2. \A t \in Threads : pc[t] \in {"exited", "dead"} => pc[t] \in Gone
  BY DEF Gone
<1> QED
  BY <1>1, <1>2 DEF JoinParts, JoinProtocolSafe, MustJoinLive, OneJoiner, Live,
                    Gone, TypeOK

\* create_thread gives the new thread its flags; nobody can wait on it yet.
LEMMA CreateJoin ==
    ASSUME TypeOK, ThreadListsConsistent, JoinParts, NEW c \in Threads,
           NEW t \in Threads, NEW mj \in BOOLEAN, CreateThread(c, t, mj)
    PROVE  JoinParts'
<1>1. pc[t] = "unborn" /\ t \notin Live
  BY DEF CreateThread, Live
<1>2. \A e \in joinwq : e[1] # t /\ e[2] # t
  BY <1>1 DEF JoinParts, JoinProtocolSafe
<1>3. \A x \in Threads \ {t} : pc'[x] = pc[x] /\ flags'[x] = flags[x]
  BY DEF CreateThread, TypeOK
<1>4. pc'[t] = "new" /\ t \in Live'
  BY DEF CreateThread, TypeOK, Live
<1>5. \A x \in Threads \ {t} : x \in Live' <=> x \in Live
  BY <1>3 DEF Live
<1>6. UNCHANGED <<joinwq, joinee>>
  BY DEF CreateThread
<1>7. JoinProtocolSafe'
  BY <1>2, <1>3, <1>4, <1>5, <1>6 DEF JoinParts, JoinProtocolSafe, TypeOK
<1>8. MustJoinLive'
  BY <1>3, <1>4, <1>5 DEF JoinParts, MustJoinLive
<1> QED
  BY <1>6, <1>7, <1>8 DEF JoinParts, OneJoiner

\* exit_thread's removal of a thread without THREAD_MUSTJOIN: no entry can
\* name it.
LEMMA DepartJoin ==
    ASSUME TypeOK, JoinParts, NEW c \in Threads,
           pc[c] \notin Gone, pc[c] # "joinwait", MUSTJOIN \notin flags[c],
           NEW p \in [Threads -> PC],
           \A t \in Threads : p[t] \in Gone <=> pc[t] \in Gone,
           \A t \in Threads : p[t] = "joinwait" <=> pc[t] = "joinwait",
           NEW ex, Depart(c, p, ex), joinwq' = joinwq, joinee' = joinee
    PROVE  JoinParts'
<1>1. pc' = [p EXCEPT ![c] = "exited"] /\ flags' = BlockFlags(c)
  BY DEF Depart
<1>2. \A x \in Threads \ {c} : pc'[x] = p[x] /\ flags'[x] = flags[x]
  BY <1>1 DEF BlockFlags, TypeOK
<1>3. MUSTJOIN \notin flags'[c] /\ pc'[c] = "exited"
  BY <1>1 DEF BlockFlags, TypeOK
<1>4. \A x \in Threads \ {c} : x \in Live' <=> x \in Live
  BY <1>2 DEF Live, Gone
<1>5. \A e \in joinwq : e[1] # c /\ e[2] # c
  BY DEF JoinParts, JoinProtocolSafe
<1>6. \A e \in joinwq' :
         /\ pc'[e[1]] = "joinwait" /\ joinee'[e[1]] = e[2]
         /\ e[2] \in Live' /\ MUSTJOIN \in flags'[e[2]]
  BY <1>2, <1>4, <1>5 DEF JoinParts, JoinProtocolSafe, TypeOK
<1>7. \A j \in Threads : pc'[j] = "joinwait" => <<j, joinee'[j]>> \in joinwq'
  BY <1>2, <1>3 DEF JoinParts, JoinProtocolSafe
<1>8. MustJoinLive'
  BY <1>2, <1>3, <1>4 DEF JoinParts, MustJoinLive
<1>9. \A t \in Threads : pc'[t] \in {"exited", "dead"} => MUSTJOIN \notin flags'[t]
  BY <1>2, <1>3, <1>8 DEF MustJoinLive, Live
<1> QED
  BY <1>6, <1>7, <1>8, <1>9 DEF JoinParts, JoinProtocolSafe, OneJoiner

\* The reaping at the end of schedule() frees only exited threads: it
\* parks nobody and revives nobody.
LEMMA ReapJoin ==
    ASSUME TypeOK, ThreadListsConsistent, NEW c \in Threads, pc[c] \notin Gone
    PROVE  /\ ReapedPC(c) \in [Threads -> PC]
           /\ \A x \in Threads : ReapedPC(c)[x] \in Gone <=> pc[x] \in Gone
           /\ \A x \in Threads : ReapedPC(c)[x] = "joinwait" <=> pc[x] = "joinwait"
<1>1. ExitedSet /\ pc[c] # "exited"
  BY DEF ThreadListsConsistent, ExitedSet, Gone
<1> QED
  BY <1>1, ReapFacts DEF Gone

\* exit_thread's gate and schedule()'s switch leave THREAD_MUSTJOIN alone.
LEMMA ExitGateFlags ==
    ASSUME TypeOK, NEW c \in Threads, NEW p, NEW ex, ExitGate(c, p, ex)
    PROVE  /\ \A x \in Threads : MUSTJOIN \in flags'[x] <=> MUSTJOIN \in flags[x]
           /\ pc' = [p EXCEPT ![c] = "exitgate"]
BY DEF ExitGate, MUSTJOIN, RUNNABLE, JOINED

LEMMA SwitchToFlags ==
    ASSUME TypeOK, NEW n \in Threads, SwitchTo(n)
    PROVE  /\ \A x \in Threads : MUSTJOIN \in flags'[x] <=> MUSTJOIN \in flags[x]
           /\ \A x \in Threads : pc'[x] = "joinwait" <=> pc[x] = "joinwait"
           /\ \A x \in Threads : pc'[x] \in Gone <=> pc[x] \in Gone
BY DEF SwitchTo, TypeOK, MUSTJOIN, RUNNABLE, TIMEDOUT, Gone

\* join_thread on t: either t has already exited (JOINED) and c takes its
\* THREAD_MUSTJOIN away, or c parks with the only joinwq entry for t.
LEMMA JoinThreadJoin ==
    ASSUME TypeOK, JoinParts, NEW c \in Threads, NEW t \in Threads,
           JoinThread(c, t)
    PROVE  JoinParts'
<1>1. /\ pc[c] = "user" /\ t # c /\ MUSTJOIN \in flags[t]
      /\ \A e \in joinwq : e[2] # t
      /\ joinee' = [joinee EXCEPT ![c] = t]
  BY DEF JoinThread, Running
<1>2. t \in Live
  BY <1>1 DEF JoinParts, MustJoinLive
<1>3. \A e \in joinwq : e[1] # c /\ e[1] \in Threads /\ e[2] \in Threads
  BY <1>1 DEF JoinParts, JoinProtocolSafe, TypeOK
<1>4. CASE JoinDone(c, t, pc, exited, joinwq)
  <2>1. /\ joinwq' = joinwq /\ pc' = pc
        /\ flags' = [flags EXCEPT ![t] = (@ \ {MUSTJOIN}) \cup {RUNNABLE}]
    BY <1>1, <1>4 DEF JoinDone, TypeOK
  <2>2. \A x \in Threads \ {t} : flags'[x] = flags[x]
    BY <2>1 DEF TypeOK
  <2>3. MUSTJOIN \notin flags'[t] /\ Live' = Live
    BY <2>1 DEF TypeOK, MUSTJOIN, RUNNABLE, Live
  <2>4. \A x \in Threads \ {c} : joinee'[x] = joinee[x]
    BY <1>1 DEF TypeOK
  <2> QED
    BY <1>1, <1>3, <2>1, <2>2, <2>3, <2>4
       DEF JoinParts, JoinProtocolSafe, MustJoinLive, OneJoiner, Live
<1>5. CASE JoinWait(c, t, pc, exited, joinwq)
  <2>1. /\ joinwq' = joinwq \cup {<<c, t>>}
        /\ pc' = [pc EXCEPT ![c] = "joinwait"]
        /\ flags' = BlockFlags(c)
    BY <1>5 DEF JoinWait
  <2>2. \A x \in Threads : MUSTJOIN \in flags'[x] <=> MUSTJOIN \in flags[x]
    BY <2>1 DEF BlockFlags, TypeOK, MUSTJOIN, RUNNABLE
  <2>3. /\ \A x \in Threads \ {c} : pc'[x] = pc[x] /\ joinee'[x] = joinee[x]
        /\ pc'[c] = "joinwait" /\ joinee'[c] = t
    BY <1>1, <2>1 DEF TypeOK
  <2>4. Live' = Live
    BY <1>1, <2>1 DEF TypeOK, Live
  <2>5. \A e \in joinwq' :
          /\ pc'[e[1]] = "joinwait" /\ joinee'[e[1]] = e[2]
          /\ e[2] \in Live' /\ MUSTJOIN \in flags'[e[2]]
    BY <1>1, <1>2, <1>3, <2>1, <2>2, <2>3, <2>4 DEF JoinParts, JoinProtocolSafe
  <2>6. \A j \in Threads : pc'[j] = "joinwait" => <<j, joinee'[j]>> \in joinwq'
    BY <2>1, <2>3 DEF JoinParts, JoinProtocolSafe
  <2>7. MustJoinLive'
    BY <2>2, <2>4 DEF JoinParts, MustJoinLive
  <2>8. \A x \in Threads : pc'[x] \in {"exited", "dead"} => MUSTJOIN \notin flags'[x]
    BY <2>7 DEF MustJoinLive, Live
  <2>9. OneJoiner'
    BY <1>1, <2>1 DEF JoinParts, OneJoiner
  <2> QED
    BY <2>5, <2>6, <2>7, <2>8, <2>9 DEF JoinParts, JoinProtocolSafe
<1> QED
  BY <1>4, <1>5 DEF JoinThread

\* The return of a parked joiner c from schedule(): either its joinee has
\* exited (JOINED) and c removes its entry and the joinee's
\* THREAD_MUSTJOIN, or it parks again with the same entry.
LEMMA ResumeJoinJoin ==
    ASSUME TypeOK, ThreadListsConsistent, JoinParts, NEW c \in Threads,
           ResumeJoin(c)
    PROVE  JoinParts'
<1> DEFINE t == joinee[c]
           jq == joinwq \ {<<c, t>>}
           p == ReapedPC(c)
           ex == ReapedExited(c)
<1>1. pc[c] = "joinwait" /\ UNCHANGED joinee
  BY DEF ResumeJoin, Returning
<1>2. /\ <<c, t>> \in joinwq /\ t \in Threads
      /\ t \in Live /\ MUSTJOIN \in flags[t]
  BY <1>1 DEF JoinParts, JoinProtocolSafe, TypeOK
<1>3. /\ p \in [Threads -> PC]
      /\ \A x \in Threads : p[x] \in Gone <=> pc[x] \in Gone
      /\ \A x \in Threads : p[x] = "joinwait" <=> pc[x] = "joinwait"
  BY <1>1, ReapJoin DEF Gone
<1>4. CASE JoinWait(c, t, p, ex, jq)
  <2>1. joinwq' = joinwq
    BY <1>2, <1>4 DEF JoinWait
  <2>2. \A x \in Threads : MUSTJOIN \in flags'[x] <=> MUSTJOIN \in flags[x]
    BY <1>4 DEF JoinWait, BlockFlags, TypeOK, MUSTJOIN, RUNNABLE
  <2>3. /\ \A x \in Threads : pc'[x] = "joinwait" <=> pc[x] = "joinwait"
        /\ \A x \in Threads : pc'[x] \in Gone <=> pc[x] \in Gone
    BY <1>1, <1>3, <1>4 DEF JoinWait, Gone
  <2> QED
    BY <1>1, <2>1, <2>2, <2>3, JoinKeep
<1>5. CASE JoinDone(c, t, p, ex, jq)
  <2>1. /\ joinwq' = jq /\ pc' = [p EXCEPT ![c] = "user"]
        /\ flags' = [flags EXCEPT ![t] = (@ \ {MUSTJOIN}) \cup {RUNNABLE}]
    BY <1>5 DEF JoinDone
  <2>2. /\ \A x \in Threads \ {t} : flags'[x] = flags[x]
        /\ MUSTJOIN \notin flags'[t]
    BY <2>1 DEF TypeOK, MUSTJOIN, RUNNABLE
  <2>3. /\ \A x \in Threads \ {c} : pc'[x] = p[x]
        /\ pc'[c] = "user"
    BY <1>3, <2>1
  <2>4. Live' = Live
    BY <1>1, <1>3, <2>3 DEF Live, Gone
  <2>5. \A e \in jq : e[1] # c /\ e[2] # t
    BY <1>2 DEF JoinParts, JoinProtocolSafe, OneJoiner
  <2>6. \A e \in joinwq' :
          /\ pc'[e[1]] = "joinwait" /\ joinee'[e[1]] = e[2]
          /\ e[2] \in Live' /\ MUSTJOIN \in flags'[e[2]]
    <3> SUFFICES ASSUME NEW e \in jq
                 PROVE  /\ pc'[e[1]] = "joinwait" /\ joinee'[e[1]] = e[2]
                        /\ e[2] \in Live' /\ MUSTJOIN \in flags'[e[2]]
      BY <2>1
    <3>1. e \in joinwq /\ e[1] # c /\ e[2] # t /\ e[1] \in Threads /\ e[2] \in Threads
      BY <2>5 DEF TypeOK
    <3>2. pc[e[1]] = "joinwait" /\ joinee[e[1]] = e[2]
          /\ e[2] \in Live /\ MUSTJOIN \in flags[e[2]]
      BY <3>1 DEF JoinParts, JoinProtocolSafe
    <3> QED
      BY <1>1, <1>3, <2>2, <2>3, <2>4, <3>1, <3>2
  <2>7. \A j \in Threads : pc'[j] = "joinwait" => <<j, joinee'[j]>> \in joinwq'
    BY <1>1, <1>3, <2>1, <2>3 DEF JoinParts, JoinProtocolSafe
  <2>8. MustJoinLive'
    BY <2>2, <2>4 DEF JoinParts, MustJoinLive
  <2>9. \A x \in Threads : pc'[x] \in {"exited", "dead"} => MUSTJOIN \notin flags'[x]
    BY <2>8 DEF MustJoinLive, Live
  <2>10. OneJoiner'
    BY <2>1 DEF JoinParts, OneJoiner
  <2> QED
    BY <2>6, <2>7, <2>8, <2>9, <2>10 DEF JoinParts, JoinProtocolSafe
<1> QED
  BY <1>4, <1>5 DEF ResumeJoin

LEMMA NextJoin == JoinIInv /\ [Next]_vars => JoinIInv'
<1> SUFFICES ASSUME TypeOK, ThreadListsConsistent, JoinParts, [Next]_vars
             PROVE  JoinParts'
  BY NextLists DEF JoinIInv, ListsIInv
<1>1. CASE Select
  <2>1. PICK i \in 1..Len(runq) : SwitchTo(runq[i])
    BY <1>1 DEF Select
  <2>2. runq[i] \in Threads
    BY DEF TypeOK
  <2> QED
    BY <1>1, <2>1, <2>2, SwitchToFlags, JoinKeep DEF Select
<1>2. CASE BlockDomain \/ Tick \/ UNCHANGED vars
  BY <1>2 DEF BlockDomain, Tick, vars, JoinParts, JoinProtocolSafe,
              MustJoinLive, OneJoiner, Live
<1>3. CASE IdleStep
  BY <1>3, JoinKeep DEF IdleStep, BlockFlags, TypeOK, MUSTJOIN, RUNNABLE
<1>4. CASE ResumeIdle
  <2>1. pc[Idle] \notin Gone
    BY <1>4 DEF ResumeIdle, Returning, Gone
  <2> QED
    BY <1>4, <2>1, ReapJoin, JoinKeep, SchedAssumption DEF ResumeIdle
\* A thread c, live and not parked in join_thread, moves to another such
\* state over a pc function p that frees only exited threads, keeping
\* THREAD_MUSTJOIN.
<1>5. ASSUME NEW c \in Threads, NEW p \in [Threads -> PC],
             \A x \in Threads : p[x] \in Gone <=> pc[x] \in Gone,
             \A x \in Threads : p[x] = "joinwait" <=> pc[x] = "joinwait",
             pc[c] \notin Gone \cup {"joinwait"},
             NEW s \in PC \ (Gone \cup {"joinwait"}),
             pc' = [p EXCEPT ![c] = s],
             \A x \in Threads : MUSTJOIN \in flags'[x] <=> MUSTJOIN \in flags[x],
             UNCHANGED <<joinwq, joinee>>
      PROVE  JoinParts'
  <2>1. /\ \A x \in Threads : pc'[x] = "joinwait" <=> pc[x] = "joinwait"
        /\ \A x \in Threads : pc'[x] \in Gone <=> pc[x] \in Gone
    BY <1>5
  <2> QED
    BY <1>5, <2>1, JoinKeep
<1>6. ASSUME NEW c \in Threads, Running(c)
      PROVE  pc[c] \notin Gone \cup {"joinwait"} /\ pc \in [Threads -> PC]
  BY <1>6 DEF Running, Gone, TypeOK
<1>7. ASSUME NEW c \in Threads, Yield(c) \/ BlockSelf(c)
      PROVE  JoinParts'
  <2>1. pc[c] \notin Gone \cup {"joinwait"} /\ pc \in [Threads -> PC]
    BY <1>6, <1>7 DEF Yield, BlockSelf
  <2>2. CASE Yield(c)
    BY <1>5, <2>1, <2>2 DEF Yield, PC, Gone
  <2>3. CASE BlockSelf(c)
    <3>1. \A x \in Threads : MUSTJOIN \in flags'[x] <=> MUSTJOIN \in flags[x]
      BY <2>3 DEF BlockSelf, BlockFlags, TypeOK, MUSTJOIN, RUNNABLE
    <3> QED
      BY <1>5, <2>1, <2>3, <3>1 DEF BlockSelf, PC, Gone
  <2> QED
    BY <1>7, <2>2, <2>3
<1>8. ASSUME NEW c \in Threads, NEW w, DoSleep(c, w)
      PROVE  JoinParts'
  BY <1>5, <1>6, <1>8 DEF DoSleep, TypeOK, PC, Gone, MUSTJOIN, RUNNABLE, TIMEDOUT
<1>9. ASSUME NEW c \in Threads, NEW d, ClockSleepAbsMono(c, d)
      PROVE  JoinParts'
  BY <1>5, <1>6, <1>9 DEF ClockSleepAbsMono, BlockFlags, TypeOK, PC, Gone,
                          MUSTJOIN, RUNNABLE
<1>10. ASSUME NEW c \in Threads, NEW t \in Threads, Wake(c, t)
       PROVE  JoinParts'
  BY <1>10, JoinKeep DEF Wake, WakeFlags, TypeOK, MUSTJOIN, RUNNABLE
<1>11. ASSUME NEW c \in Threads, NEW t \in Threads, JoinThread(c, t)
       PROVE  JoinParts'
  BY <1>11, JoinThreadJoin
<1>12. ASSUME NEW c \in Threads, NEW mj \in BOOLEAN, NEW t \in Threads,
              CreateThread(c, t, mj)
       PROVE  JoinParts'
  BY <1>12, CreateJoin
<1>13. ASSUME NEW c \in Threads, ExitThread(c)
       PROVE  JoinParts'
  <2>1. pc[c] \notin Gone \cup {"joinwait"} /\ pc \in [Threads -> PC]
        /\ UNCHANGED <<joinwq, joinee>>
    BY <1>6, <1>13 DEF ExitThread
  <2>2. CASE ExitGate(c, pc, exited)
    BY <2>1, <2>2, <1>5, ExitGateFlags DEF PC, Gone
  <2>3. CASE MUSTJOIN \notin flags[c] /\ Depart(c, pc, exited)
    BY <2>1, <2>3, DepartJoin
  <2> QED
    BY <1>13, <2>2, <2>3 DEF ExitThread
<1>14. ASSUME NEW c \in Threads, ResumeReturn(c) \/ ResumeSleep(c)
       PROVE  JoinParts'
  <2>1. pc[c] \in {"yield", "blocked", "clocksleep", "sleep"}
    BY <1>14 DEF ResumeReturn, ResumeSleep, Returning
  <2>2. /\ ReapedPC(c) \in [Threads -> PC]
        /\ \A x \in Threads : ReapedPC(c)[x] \in Gone <=> pc[x] \in Gone
        /\ \A x \in Threads : ReapedPC(c)[x] = "joinwait" <=> pc[x] = "joinwait"
    BY <2>1, ReapJoin DEF Gone
  <2>3. \A x \in Threads : MUSTJOIN \in flags'[x] <=> MUSTJOIN \in flags[x]
    <3>1. CASE ResumeReturn(c)
      BY <3>1 DEF ResumeReturn
    <3>2. CASE ResumeSleep(c)
      BY <3>2 DEF ResumeSleep, TypeOK, MUSTJOIN, TIMEDOUT
    <3> QED
      BY <1>14, <3>1, <3>2
  <2> QED
    BY <1>5, <1>14, <2>1, <2>2, <2>3 DEF ResumeReturn, ResumeSleep, PC, Gone
<1>15. ASSUME NEW c \in Threads, ResumeJoin(c)
       PROVE  JoinParts'
  BY <1>15, ResumeJoinJoin
<1>16. ASSUME NEW c \in Threads, ResumeExitGate(c)
       PROVE  JoinParts'
  <2>1. pc[c] = "exitgate" /\ UNCHANGED <<joinwq, joinee>>
    BY <1>16 DEF ResumeExitGate, Returning
  <2>2. /\ ReapedPC(c) \in [Threads -> PC]
        /\ \A x \in Threads : ReapedPC(c)[x] \in Gone <=> pc[x] \in Gone
        /\ \A x \in Threads : ReapedPC(c)[x] = "joinwait" <=> pc[x] = "joinwait"
    BY <2>1, ReapJoin DEF Gone
  <2>3. CASE ExitGate(c, ReapedPC(c), ReapedExited(c))
    BY <1>5, <2>1, <2>2, <2>3, ExitGateFlags DEF PC, Gone
  <2>4. CASE MUSTJOIN \notin flags[c] /\ Depart(c, ReapedPC(c), ReapedExited(c))
    <3>1. pc[c] \notin Gone /\ pc[c] # "joinwait"
      BY <2>1 DEF Gone
    <3> QED
      BY <2>1, <2>2, <2>4, <3>1, DepartJoin
  <2> QED
    BY <1>16, <2>3, <2>4 DEF ResumeExitGate
<1> QED
  BY <1>1, <1>2, <1>3, <1>4, <1>7, <1>8, <1>9, <1>10, <1>11, <1>12, <1>13,
     <1>14, <1>15, <1>16 DEF Next, Msleep, Absmsleep

\* The join handshake of join_thread and exit_thread never leaves a
\* dangling joinwq entry, a parked joiner without its entry, or an exited
\* thread still owing a join, for any number of threads.
THEOREM JoinProtocolSafeHolds == Spec => []JoinProtocolSafe
<1>1. JoinIInv => JoinProtocolSafe
  BY DEF JoinIInv, JoinParts
<1> QED
  BY InitJoin, NextJoin, <1>1, PTL DEF Spec

=============================================================================
