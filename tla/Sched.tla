-------------------------------- MODULE Sched --------------------------------
(***************************************************************************)
(* The cooperative round-robin scheduler of Mini-OS (src/xen/sched.c) and  *)
(* the ABSMONO branch of rumpuser_clock_sleep (src/rumphyper_base.c).      *)
(*                                                                         *)
(* One CPU, no preemption: the thread `cur` runs until it calls            *)
(* schedule().  A call of schedule() is split in two steps: the selection  *)
(* loop (Select, or BlockDomain when nothing can run), and the return from *)
(* schedule() in the thread switched to (the Resume actions), which reaps  *)
(* exited threads and runs the caller's code up to its next schedule().    *)
(* `phase` says which of the three is next: "run" (cur runs its own code), *)
(* "sched" (cur is inside the selection loop), "ret" (cur returns from     *)
(* schedule()).  Locals kept on a thread's stack across schedule() are     *)
(* per-thread functions: `asked` (dosleep's wakeuptime) and `joinee`       *)
(* (join_thread's joinable).  Time is in milliseconds, the unit of msleep; *)
(* the ns scaling of NOW() is a constant factor and is left out.           *)
(***************************************************************************)
EXTENDS Integers, Sequences, FiniteSets, SequencesExt

CONSTANTS
    Threads,     \* thread descriptors (struct thread *)
    Idle,        \* idle_thread
    Main,        \* the bootstrap thread, created before scheduling starts
    MaxTime,     \* bound on NOW()
    Delays,      \* msleep arguments tried
    TenSeconds   \* SECONDS(10), the idle loop's default block_domain timeout

ASSUME SchedAssumption ==
    /\ Idle \in Threads /\ Main \in Threads /\ Idle # Main
    /\ MaxTime \in Nat \ {0}
    /\ Delays \subseteq Nat
    /\ TenSeconds \in Nat \ {0}

\* The flag bits of struct thread (sched.h:25-29).  THREAD_EXTSTACK only
\* chooses how a reaped stack is freed and is left out.
RUNNABLE == "RUNNABLE"
MUSTJOIN == "MUSTJOIN"
JOINED   == "JOINED"
TIMEDOUT == "TIMEDOUT"
Flag == {RUNNABLE, MUSTJOIN, JOINED, TIMEDOUT}

\* Where a thread is: not yet created, created but never run, running its
\* own code, suspended inside schedule() at one of the calls of sched.c,
\* on exited_threads, or freed.
PC == {"unborn", "new", "user", "idle", "yield", "blocked", "sleep",
       "clocksleep", "joinwait", "exitgate", "exited", "dead"}

VARIABLES
    runq,     \* thread_list, in order
    exited,   \* exited_threads (reaped all at once, so a set)
    joinwq,   \* joinwq: the <<jw_thread, jw_wanted>> pairs
    flags,    \* thread->flags
    wakeup,   \* thread->wakeup_time, 0 = not sleeping
    now,      \* NOW()
    cur,      \* current
    phase,
    pc,
    asked,    \* dosleep's argument, on the sleeper's stack
    joinee,   \* join_thread's argument, on the joiner's stack
    passed    \* history: threads selected while t stayed runnable

vars == <<runq, exited, joinwq, flags, wakeup, now, cur, phase, pc,
          asked, joinee, passed>>

Live == {t \in Threads : pc[t] \notin {"unborn", "exited", "dead"}}

TypeOK ==
    /\ runq \in Seq(Threads)
    /\ exited \subseteq Threads
    /\ joinwq \subseteq Threads \X Threads
    /\ flags \in [Threads -> SUBSET Flag]
    /\ wakeup \in [Threads -> 0..MaxTime]
    /\ now \in 0..MaxTime
    /\ cur \in Threads
    /\ phase \in {"run", "sched", "ret"}
    /\ pc \in [Threads -> PC]
    /\ asked \in [Threads -> 0..MaxTime]
    /\ joinee \in [Threads -> Threads]
    /\ passed \in [Threads -> SUBSET Threads]

\* init_sched() created the idle thread, then the main thread was created;
\* the idle thread runs first.  NOW() is past 0 once threads run.
Init ==
    /\ runq = <<Idle, Main>>
    /\ exited = {}
    /\ joinwq = {}
    /\ flags = [t \in Threads |-> IF t \in {Idle, Main} THEN {RUNNABLE} ELSE {}]
    /\ wakeup = [t \in Threads |-> 0]
    /\ now = 1
    /\ cur = Idle
    /\ phase = "run"
    /\ pc = [t \in Threads |-> CASE t = Idle -> "idle"
                                 [] t = Main -> "new"
                                 [] OTHER    -> "unborn"]
    /\ asked = [t \in Threads |-> 0]
    /\ joinee = [t \in Threads |-> t]
    /\ passed = [t \in Threads |-> {}]

-----------------------------------------------------------------------------
(* block() and wake() as updates of flags and wakeup_time of thread t.     *)

BlockFlags(t) == [flags EXCEPT ![t] = @ \ {RUNNABLE}]
WakeFlags(t)  == [flags EXCEPT ![t] = @ \cup {RUNNABLE}]
NoDeadline(t) == [wakeup EXCEPT ![t] = 0]

\* The selection loop of schedule() considers thread t: runnable, or
\* sleeping with an expired deadline (woken on the spot, with TIMEDOUT).
Candidate(t) == RUNNABLE \in flags[t] \/ (wakeup[t] # 0 /\ wakeup[t] <= now)

\* The selection loop stops at thread next: if it was not runnable its
\* deadline has expired and wake() runs with THREAD_TIMEDOUT set; then the
\* CPU switches to next, which starts in thread_starter if it never ran.
SwitchTo(next) ==
    /\ flags' = IF RUNNABLE \in flags[next] THEN flags
                ELSE [flags EXCEPT ![next] = @ \cup {TIMEDOUT, RUNNABLE}]
    /\ wakeup' = IF RUNNABLE \in flags[next] THEN wakeup ELSE NoDeadline(next)
    /\ cur' = next
    /\ phase' = IF pc[next] = "new" THEN "run" ELSE "ret"
    /\ pc' = IF pc[next] = "new" THEN [pc EXCEPT ![next] = "user"] ELSE pc
    /\ passed' = [t \in Threads |->
                    IF t = next \/ RUNNABLE \notin flags[t] THEN {}
                    ELSE passed[t] \cup {next}]

\* The candidate at position i is the first one of thread_list.
FirstCandidate(i) ==
    /\ Candidate(runq[i])
    /\ \A j \in 1..(i - 1) : ~Candidate(runq[j])

\* Mutant: the chosen thread is left where it is (no TAILQ_REMOVE /
\* TAILQ_INSERT_TAIL), so selection is first-fit instead of round robin.
SelectNoRotate ==
    /\ phase = "sched"
    /\ \E i \in 1..Len(runq) :
         /\ FirstCandidate(i)
         /\ runq' = runq
         /\ SwitchTo(runq[i])
    /\ UNCHANGED <<exited, joinwq, now, asked, joinee>>

\* A pass of the selection loop that finds the candidate at position i
\* moves it to the tail of thread_list and switches to it.
Select ==
    /\ phase = "sched"
    /\ \E i \in 1..Len(runq) :
         /\ FirstCandidate(i)
         /\ runq' = Append(RemoveAt(runq, i), runq[i])
         /\ SwitchTo(runq[i])
    /\ UNCHANGED <<exited, joinwq, now, asked, joinee>>

\* min_wakeup_time of a pass that found nothing to run.
MinWakeup ==
    Min({now + TenSeconds} \cup
        {wakeup[runq[i]] : i \in {j \in 1..Len(runq) : wakeup[runq[j]] # 0}})

\* Nothing can run: block_domain(min_wakeup_time) returns at the deadline
\* or earlier on an event, then the loop scans again.
BlockDomain ==
    /\ phase = "sched"
    /\ \A i \in 1..Len(runq) : ~Candidate(runq[i])
    /\ \E t \in now..MaxTime : t <= MinWakeup /\ now' = t
    /\ UNCHANGED <<runq, exited, joinwq, flags, wakeup, cur, phase, pc,
                   asked, joinee, passed>>

\* Time passes while threads run.
Tick ==
    /\ now < MaxTime
    /\ now' = now + 1
    /\ UNCHANGED <<runq, exited, joinwq, flags, wakeup, cur, phase, pc,
                   asked, joinee, passed>>

\* The end of schedule() in the thread c switched to: every exited thread
\* other than c is unlinked and freed.
ReapedPC(c) == [t \in Threads |-> IF t \in exited /\ t # c THEN "dead" ELSE pc[t]]
ReapedExited(c) == exited \cap {c}
-----------------------------------------------------------------------------
(* Operations called by the running thread c.                              *)

Running(c) == cur = c /\ phase = "run" /\ pc[c] = "user"

\* schedule() called directly.
Yield(c) ==
    /\ Running(c)
    /\ pc' = [pc EXCEPT ![c] = "yield"]
    /\ phase' = "sched"
    /\ UNCHANGED <<runq, exited, joinwq, flags, wakeup, now, cur, asked,
                   joinee, passed>>

\* block(current); schedule(): a wait that only wake() ends.
BlockSelf(c) ==
    /\ Running(c)
    /\ flags' = BlockFlags(c)
    /\ wakeup' = NoDeadline(c)
    /\ pc' = [pc EXCEPT ![c] = "blocked"]
    /\ phase' = "sched"
    /\ UNCHANGED <<runq, exited, joinwq, now, cur, asked, joinee, passed>>

\* Mutant: wake() forgets to clear wakeup_time.
WakeKeepDeadline(c, t) ==
    /\ Running(c)
    /\ t \in Range(runq)
    /\ flags' = WakeFlags(t)
    /\ wakeup' = wakeup
    /\ UNCHANGED <<runq, exited, joinwq, now, cur, phase, pc, asked, joinee,
                   passed>>

\* wake(t) of a live thread; does not yield.
Wake(c, t) ==
    /\ Running(c)
    /\ t \in Range(runq)
    /\ flags' = WakeFlags(t)
    /\ wakeup' = NoDeadline(t)
    /\ UNCHANGED <<runq, exited, joinwq, now, cur, phase, pc, asked, joinee,
                   passed>>

\* Mutant: dosleep does not clear THREAD_TIMEDOUT on entry (line 258).
DoSleepKeepTimedOut(c, w) ==
    /\ Running(c)
    /\ wakeup' = [wakeup EXCEPT ![c] = w]
    /\ flags' = [flags EXCEPT ![c] = @ \ {RUNNABLE}]
    /\ asked' = [asked EXCEPT ![c] = w]
    /\ pc' = [pc EXCEPT ![c] = "sleep"]
    /\ phase' = "sched"
    /\ UNCHANGED <<runq, exited, joinwq, now, cur, joinee, passed>>

\* dosleep(w): the common body of msleep and absmsleep.
DoSleep(c, w) ==
    /\ Running(c)
    /\ wakeup' = [wakeup EXCEPT ![c] = w]
    /\ flags' = [flags EXCEPT ![c] = @ \ {TIMEDOUT, RUNNABLE}]
    /\ asked' = [asked EXCEPT ![c] = w]
    /\ pc' = [pc EXCEPT ![c] = "sleep"]
    /\ phase' = "sched"
    /\ UNCHANGED <<runq, exited, joinwq, now, cur, joinee, passed>>

Msleep(c, d) == now + d <= MaxTime /\ DoSleep(c, now + d)

\* Mutant: absmsleep adds NOW() like msleep, reading its absolute
\* argument as a delay.
AbsmsleepRelative(c, d) == DoSleep(c, now + d)

Absmsleep(c, d) == DoSleep(c, d)

\* rumpuser_clock_sleep(RUMPUSER_CLOCK_ABSMONO, ...): sets the deadline and
\* clears runnable by hand, without touching THREAD_TIMEDOUT.
ClockSleepAbsMono(c, d) ==
    /\ Running(c)
    /\ wakeup' = [wakeup EXCEPT ![c] = d]
    /\ flags' = BlockFlags(c)
    /\ pc' = [pc EXCEPT ![c] = "clocksleep"]
    /\ phase' = "sched"
    /\ UNCHANGED <<runq, exited, joinwq, now, cur, asked, joinee, passed>>

\* create_thread(), with THREAD_MUSTJOIN set by the caller (mj) before the
\* new thread can run.
CreateThread(c, t, mj) ==
    /\ Running(c)
    /\ pc[t] = "unborn"
    /\ runq' = Append(runq, t)
    /\ flags' = [flags EXCEPT ![t] = {RUNNABLE} \cup (IF mj THEN {MUSTJOIN} ELSE {})]
    /\ wakeup' = NoDeadline(t)
    /\ pc' = [pc EXCEPT ![t] = "new"]
    /\ UNCHANGED <<exited, joinwq, now, cur, phase, asked, joinee, passed>>

\* One pass of join_thread's wait loop: queue <<c, t>> on joinwq, block.
JoinWait(c, t, p, ex, jq) ==
    /\ joinwq' = jq \cup {<<c, t>>}
    /\ flags' = BlockFlags(c)
    /\ wakeup' = NoDeadline(c)
    /\ pc' = [p EXCEPT ![c] = "joinwait"]
    /\ exited' = ex
    /\ phase' = "sched"

\* t has hit exit_thread: clear its THREAD_MUSTJOIN and wake it.
JoinDone(c, t, p, ex, jq) ==
    /\ joinwq' = jq
    /\ flags' = [flags EXCEPT ![t] = (@ \ {MUSTJOIN}) \cup {RUNNABLE}]
    /\ wakeup' = NoDeadline(t)
    /\ pc' = [p EXCEPT ![c] = "user"]
    /\ exited' = ex
    /\ phase' = "run"

\* join_thread(t).  The ASSERT on THREAD_MUSTJOIN and the single-joiner
\* rule are the caller's contract.
JoinThread(c, t) ==
    /\ Running(c)
    /\ t # c
    /\ MUSTJOIN \in flags[t]
    /\ \A e \in joinwq : e[2] # t
    /\ joinee' = [joinee EXCEPT ![c] = t]
    /\ \/ JOINED \in flags[t] /\ JoinDone(c, t, pc, exited, joinwq)
       \/ JOINED \notin flags[t] /\ JoinWait(c, t, pc, exited, joinwq)
    /\ UNCHANGED <<runq, now, cur, asked, passed>>

\* Mutant: the gate does not wake a joiner already parked on joinwq
\* (line 188 dropped).
ExitGateNoWake(c, p, ex) ==
    /\ flags' = [flags EXCEPT ![c] = (@ \cup {JOINED}) \ {RUNNABLE}]
    /\ wakeup' = NoDeadline(c)
    /\ pc' = [p EXCEPT ![c] = "exitgate"]
    /\ exited' = ex
    /\ runq' = runq

\* One pass of exit_thread's gate: mark JOINED, wake a joiner already
\* queued for c, block.
ExitGate(c, p, ex) ==
    LET waiters == {e \in joinwq : e[2] = c}
        woken == IF waiters = {} THEN {} ELSE {(CHOOSE e \in waiters : TRUE)[1]}
    IN /\ flags' = [t \in Threads |->
                      CASE t = c     -> (flags[c] \cup {JOINED}) \ {RUNNABLE}
                        [] t \in woken -> flags[t] \cup {RUNNABLE}
                        [] OTHER       -> flags[t]]
       /\ wakeup' = [t \in Threads |-> IF t = c \/ t \in woken THEN 0 ELSE wakeup[t]]
       /\ pc' = [p EXCEPT ![c] = "exitgate"]
       /\ exited' = ex
       /\ runq' = runq

\* Mutant: the exiting thread is put on exited_threads without being
\* removed from thread_list (line 200 dropped).
DepartKeepListed(c, p, ex) ==
    /\ runq' = runq
    /\ flags' = BlockFlags(c)
    /\ wakeup' = wakeup
    /\ pc' = [p EXCEPT ![c] = "exited"]
    /\ exited' = ex \cup {c}

\* Leave thread_list for exited_threads and schedule away for good.
Depart(c, p, ex) ==
    /\ \E i \in 1..Len(runq) : runq[i] = c /\ runq' = RemoveAt(runq, i)
    /\ flags' = BlockFlags(c)
    /\ wakeup' = wakeup
    /\ pc' = [p EXCEPT ![c] = "exited"]
    /\ exited' = ex \cup {c}

ExitThread(c) ==
    /\ Running(c)
    /\ \/ MUSTJOIN \in flags[c] /\ ExitGate(c, pc, exited)
       \/ MUSTJOIN \notin flags[c] /\ Depart(c, pc, exited)
    /\ phase' = "sched"
    /\ UNCHANGED <<joinwq, now, cur, asked, joinee, passed>>

\* idle_thread_fn's loop body: block(current); schedule().
IdleStep ==
    /\ cur = Idle /\ phase = "run" /\ pc[Idle] = "idle"
    /\ flags' = BlockFlags(Idle)
    /\ wakeup' = NoDeadline(Idle)
    /\ phase' = "sched"
    /\ UNCHANGED <<runq, exited, joinwq, now, cur, pc, asked, joinee, passed>>

-----------------------------------------------------------------------------
(* Returns from schedule() in the thread c switched to.                    *)

Returning(c, where) == cur = c /\ phase = "ret" /\ pc[c] \in where

ResumeIdle ==
    /\ Returning(Idle, {"idle"})
    /\ pc' = ReapedPC(Idle)
    /\ exited' = ReapedExited(Idle)
    /\ phase' = "run"
    /\ UNCHANGED <<runq, joinwq, flags, wakeup, now, cur, asked, joinee, passed>>

\* Back from schedule() in user code, in rumpuser_clock_sleep, or after
\* block(current).
ResumeReturn(c) ==
    /\ Returning(c, {"yield", "blocked", "clocksleep"})
    /\ pc' = [ReapedPC(c) EXCEPT ![c] = "user"]
    /\ exited' = ReapedExited(c)
    /\ phase' = "run"
    /\ UNCHANGED <<runq, joinwq, flags, wakeup, now, cur, asked, joinee, passed>>

\* The tail of dosleep: rv = TIMEDOUT, then TIMEDOUT is cleared.
ResumeSleep(c) ==
    /\ Returning(c, {"sleep"})
    /\ flags' = [flags EXCEPT ![c] = @ \ {TIMEDOUT}]
    /\ pc' = [ReapedPC(c) EXCEPT ![c] = "user"]
    /\ exited' = ReapedExited(c)
    /\ phase' = "run"
    /\ UNCHANGED <<runq, joinwq, wakeup, now, cur, asked, joinee, passed>>

\* join_thread after schedule(): unqueue, then recheck THREAD_JOINED.
ResumeJoin(c) ==
    /\ Returning(c, {"joinwait"})
    /\ LET t == joinee[c]
           jq == joinwq \ {<<c, t>>}
       IN \/ JOINED \in flags[t] /\ JoinDone(c, t, ReapedPC(c), ReapedExited(c), jq)
          \/ JOINED \notin flags[t] /\ JoinWait(c, t, ReapedPC(c), ReapedExited(c), jq)
    /\ UNCHANGED <<runq, now, cur, asked, joinee, passed>>

\* Mutant: the gate is an "if" instead of a "while": after one wakeup the
\* thread exits whatever THREAD_MUSTJOIN says.
ResumeExitGateOnce(c) ==
    /\ Returning(c, {"exitgate"})
    /\ Depart(c, ReapedPC(c), ReapedExited(c))
    /\ phase' = "sched"
    /\ UNCHANGED <<joinwq, now, cur, asked, joinee, passed>>

\* exit_thread after schedule(): recheck THREAD_MUSTJOIN.
ResumeExitGate(c) ==
    /\ Returning(c, {"exitgate"})
    /\ \/ MUSTJOIN \in flags[c] /\ ExitGate(c, ReapedPC(c), ReapedExited(c))
       \/ MUSTJOIN \notin flags[c] /\ Depart(c, ReapedPC(c), ReapedExited(c))
    /\ phase' = "sched"
    /\ UNCHANGED <<joinwq, now, cur, asked, joinee, passed>>

-----------------------------------------------------------------------------

Next ==
    \/ Select \/ BlockDomain \/ Tick \/ IdleStep \/ ResumeIdle
    \/ \E c \in Threads :
         \/ Yield(c) \/ BlockSelf(c) \/ ExitThread(c)
         \/ ResumeReturn(c) \/ ResumeSleep(c) \/ ResumeJoin(c) \/ ResumeExitGate(c)
         \/ \E d \in Delays : Msleep(c, d)
         \/ \E d \in 0..MaxTime : Absmsleep(c, d) \/ ClockSleepAbsMono(c, d)
         \/ \E t \in Threads :
              \/ Wake(c, t) \/ JoinThread(c, t)
              \/ \E mj \in BOOLEAN : CreateThread(c, t, mj)

Spec == Init /\ [][Next]_vars

\* The CPU always runs the selection loop and the return from schedule()
\* to completion, and time advances.  Threads are not preempted, so the
\* only client assumption is that the running thread eventually calls
\* schedule() (sec. 5 of the spec: a thread that never yields starves the
\* others).
Fairness ==
    /\ WF_vars(Select)
    /\ WF_vars(Tick)
    /\ WF_vars(IdleStep \/ ResumeIdle)
    /\ WF_vars(\E c \in Threads : ResumeReturn(c) \/ ResumeSleep(c)
                                  \/ ResumeJoin(c) \/ ResumeExitGate(c))
    /\ WF_vars(\E c \in Threads : Yield(c))

FairSpec == Spec /\ Fairness
-----------------------------------------------------------------------------
(* Properties.                                                             *)

\* thread_list holds every live thread exactly once, exited_threads holds
\* exactly the threads that ran exit_thread to the end and are not freed
\* yet, and the running thread is on thread_list unless it is an exited
\* thread scheduling itself away (exit_thread, TAILQ_REMOVE at line 200).
ThreadListsConsistent ==
    /\ IsInjective(runq)
    /\ Range(runq) = Live
    /\ exited = {t \in Threads : pc[t] = "exited"}
    /\ \/ cur \in Range(runq)
       \/ pc[cur] = "exited" /\ phase = "sched"

\* Only a thread sleeping in dosleep or rumpuser_clock_sleep carries a
\* deadline, it is then not runnable (wake() and the timeout path of
\* schedule() both clear wakeup_time), and a dosleep deadline is the one
\* the sleeper asked for.
SleepConsistent ==
    \A t \in Threads :
        /\ wakeup[t] # 0 => /\ RUNNABLE \notin flags[t]
                             /\ pc[t] \in {"sleep", "clocksleep"}
        /\ pc[t] = "sleep" /\ wakeup[t] # 0 => wakeup[t] = asked[t]

\* The join handshake of exit_thread/join_thread never leaves a dangling
\* joinwq entry: every entry belongs to a joiner parked in join_thread and
\* names a live thread that still has THREAD_MUSTJOIN; every parked joiner
\* has its entry; and no thread exits or is freed while a join is owed.
JoinProtocolSafe ==
    /\ \A e \in joinwq :
         /\ pc[e[1]] = "joinwait" /\ joinee[e[1]] = e[2]
         /\ e[2] \in Live /\ MUSTJOIN \in flags[e[2]]
    /\ \A j \in Threads : pc[j] = "joinwait" => <<j, joinee[j]>> \in joinwq
    /\ \A t \in Threads : pc[t] \in {"exited", "dead"} => MUSTJOIN \notin flags[t]

\* Tail-rotation round robin (schedule(), lines 113-119): while a thread
\* stays runnable, no other thread is selected twice before it is.
NoOvertake ==
    [][phase = "sched" /\ phase' # "sched" =>
         \A t \in Threads :
            (t # cur' /\ RUNNABLE \in flags[t]) => cur' \notin passed[t]]_vars

\* msleep/absmsleep return "timed out" only if their own deadline has
\* passed (a THREAD_TIMEDOUT left over from an earlier sleep must not leak
\* into the result).
SleepResultSound ==
    [][\A t \in Threads :
         (pc[t] = "sleep" /\ pc'[t] = "user" /\ TIMEDOUT \in flags[t])
            => asked[t] <= now]_vars

\* A thread sleeping until a deadline is eventually resumed.
SleepEnds ==
    \A t \in Threads :
        (pc[t] \in {"sleep", "clocksleep"} /\ wakeup[t] # 0)
            ~> pc[t] \notin {"sleep", "clocksleep"}

\* Once a joiner is parked on t and t is parked in exit_thread's gate, t
\* eventually leaves thread_list: neither side waits for the other forever.
JoinHandshake ==
    \A j, t \in Threads :
        (pc[j] = "joinwait" /\ joinee[j] = t /\ pc[t] = "exitgate")
            ~> pc[t] \in {"exited", "dead"}

\* Spec sec. 8: absmsleep with a deadline already in the past returns at
\* once (timed out).  Stated for every dosleep whose deadline has passed.
PastDeadlineSleepReturns ==
    \A t \in Threads : (pc[t] = "sleep" /\ asked[t] <= now) ~> pc[t] # "sleep"

=============================================================================
