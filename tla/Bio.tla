--------------------------------- MODULE Bio ---------------------------------
(***************************************************************************)
(* The block I/O pump of the rump hypercall layer                          *)
(* (src/rumphyper_base.c:334-448): rumpuser_bio submits requests, the pump *)
(* thread biothread polls the device rings, and biocomp runs each request's *)
(* biodone and drops the counters bio_outstanding_total and                *)
(* blkdev_outstanding[] under bio_mtx.                                     *)
(*                                                                         *)
(* All threads share one CPU and switch only in schedule(); bio_mtx is     *)
(* never held across a call that reaches schedule(), so every section the *)
(* mutex guards is one step.  The steps end where a thread can block:      *)
(* rumpuser_bio in blkfront_aio_read/write when the ring of the device is  *)
(* full, the pump in rumpuser_cv_wait_nowrap on bio_cv and in schedule()   *)
(* on blkfront_queue.  The backend, in another domain, answers ring        *)
(* entries at any time and raises the event that wakes blkfront_queue.    *)
(*                                                                         *)
(* A request is its struct biocb, drawn from a finite set of records Req:  *)
(* a record is "free", "alloc" (its submitter waits for a ring slot),      *)
(* "ring" (submitted, unanswered) or "resp" (answered, not yet polled).    *)
(***************************************************************************)
EXTENDS Integers, FiniteSets

CONSTANTS
    Clients,     \* rump threads calling rumpuser_bio
    Devs,        \* block slots with open descriptors
    Req,         \* struct biocb records memalloc can hand out
    RingSize     \* entries of a blkfront ring

ASSUME BioAssumption ==
    /\ Req # {} /\ IsFiniteSet(Req)
    /\ Devs # {}
    /\ RingSize \in Nat \ {0}

VARIABLES
    inited,      \* static bio_inited of rumpuser_bio
    pump,        \* biothread: "none" (not created), "top" (loop head),
                 \* "cvwait" (on bio_cv), "sleep" (on blkfront_queue),
                 \* "ready" (woken on blkfront_queue)
    total,       \* bio_outstanding_total
    outst,       \* blkdev_outstanding[]
    rst,         \* per record: "free", "alloc", "ring" or "resp"
    rdev,        \* per record: bio_num
    spc,         \* per submitter: "idle", or "slot" (blocked in blkfront_aio)
    sreq,        \* per submitter: the record it is submitting
    gen          \* history: per record, the parity of its allocations

vars == <<inited, pump, total, outst, rst, rdev, spc, sreq, gen>>

PumpStates == {"none", "top", "cvwait", "sleep", "ready"}

TypeOK ==
    /\ inited \in BOOLEAN
    /\ pump \in PumpStates
    /\ total \in 0..Cardinality(Req)
    /\ outst \in [Devs -> 0..RingSize]
    /\ rst \in [Req -> {"free", "alloc", "ring", "resp"}]
    /\ rdev \in [Req -> Devs]
    /\ spc \in [Clients -> {"idle", "slot"}]
    /\ sreq \in [Clients -> Req]
    /\ gen \in [Req -> {0, 1}]

Init ==
    /\ inited = FALSE
    /\ pump = "none"
    /\ total = 0
    /\ outst = [n \in Devs |-> 0]
    /\ rst = [r \in Req |-> "free"]
    /\ rdev = [r \in Req |-> CHOOSE n \in Devs : TRUE]
    /\ spc = [c \in Clients |-> "idle"]
    /\ sreq = [c \in Clients |-> CHOOSE r \in Req : TRUE]
    /\ gen = [r \in Req |-> 0]

\* The ring entries of device n in use: submitted and not yet consumed by
\* a poll.
InRing(n) == {r \in Req : rdev[r] = n /\ rst[r] \in {"ring", "resp"}}

-----------------------------------------------------------------------------
(* rumpuser_bio.                                                           *)

\* The lazy start: if bio_inited is clear, set it and create_thread the
\* pump, which starts at the head of its loop.  Both checks of the flag
\* and the store happen with no schedule() in between.
StartPump ==
    /\ inited' = TRUE
    /\ pump' = IF inited THEN pump ELSE "top"

\* Mutant: rumpuser_bio counts the request but does not cv_signal bio_cv.
PushNoSignal(r, n, p) ==
    /\ rst' = [rst EXCEPT ![r] = "ring"]
    /\ total' = total + 1
    /\ outst' = [outst EXCEPT ![n] = @ + 1]
    /\ pump' = p

\* blkfront_aio_read/write puts record r into the ring of device n, then, under
\* bio_mtx, both counters are incremented and bio_cv is signalled, which
\* wakes the pump if it waits there (p is the pump's state before).
Push(r, n, p) ==
    /\ rst' = [rst EXCEPT ![r] = "ring"]
    /\ total' = total + 1
    /\ outst' = [outst EXCEPT ![n] = @ + 1]
    /\ pump' = IF p = "cvwait" THEN "top" ELSE p

\* Mutant: the submission never waits for a free ring entry.
BioNoSlotWait(c, n, r) ==
    LET p == IF inited THEN pump ELSE "top" IN
    /\ spc[c] = "idle"
    /\ rst[r] = "free"
    /\ inited' = TRUE
    /\ rdev' = [rdev EXCEPT ![r] = n]
    /\ gen' = [gen EXCEPT ![r] = 1 - @]
    /\ Push(r, n, p)
    /\ UNCHANGED <<spc, sreq>>

\* Mutant: the request record is static instead of memalloc'ed, so a
\* second call reuses a record still in flight.
BioStaticRecord(c, n, r) ==
    LET p == IF inited THEN pump ELSE "top" IN
    /\ spc[c] = "idle"
    /\ rst[r] \in {"free", "resp"}
    /\ Cardinality(InRing(n)) < RingSize
    /\ inited' = TRUE
    /\ rdev' = [rdev EXCEPT ![r] = n]
    /\ gen' = [gen EXCEPT ![r] = 1 - @]
    /\ Push(r, n, p)
    /\ UNCHANGED <<spc, sreq>>

\* rumpuser_bio(BLKFDOFF + n) by c, with record r from memalloc, when the
\* ring has a free entry: the whole call is one step.
Bio(c, n, r) ==
    LET p == IF inited THEN pump ELSE "top" IN
    /\ spc[c] = "idle"
    /\ rst[r] = "free"
    /\ Cardinality(InRing(n)) < RingSize
    /\ inited' = TRUE
    /\ rdev' = [rdev EXCEPT ![r] = n]
    /\ gen' = [gen EXCEPT ![r] = 1 - @]
    /\ Push(r, n, p)
    /\ UNCHANGED <<spc, sreq>>

\* The same call when the ring is full: blkfront_aio blocks for a slot
\* after the lazy start and the filling of the record.
BioBlock(c, n, r) ==
    /\ spc[c] = "idle"
    /\ rst[r] = "free"
    /\ Cardinality(InRing(n)) >= RingSize
    /\ StartPump
    /\ rst' = [rst EXCEPT ![r] = "alloc"]
    /\ rdev' = [rdev EXCEPT ![r] = n]
    /\ gen' = [gen EXCEPT ![r] = 1 - @]
    /\ spc' = [spc EXCEPT ![c] = "slot"]
    /\ sreq' = [sreq EXCEPT ![c] = r]
    /\ UNCHANGED <<total, outst>>

\* A slot of the ring is free again: the blocked call submits and counts.
BioResume(c) ==
    LET r == sreq[c] IN
    /\ spc[c] = "slot"
    /\ Cardinality(InRing(rdev[r])) < RingSize
    /\ spc' = [spc EXCEPT ![c] = "idle"]
    /\ Push(r, rdev[r], pump)
    /\ UNCHANGED <<inited, rdev, gen, sreq>>

-----------------------------------------------------------------------------
(* The backend and the pump.                                               *)

\* The backend answers ring entry r and raises the event, which wakes the
\* waiters on blkfront_queue.
Respond(r) ==
    /\ rst[r] = "ring"
    /\ rst' = [rst EXCEPT ![r] = "resp"]
    /\ pump' = IF pump = "sleep" THEN "ready" ELSE pump
    /\ UNCHANGED <<inited, total, outst, rdev, gen, spc, sreq>>

\* Mutant: biocomp decrements bio_outstanding_total but not
\* blkdev_outstanding[num].
PollTotalOnly ==
    LET D == {r \in Req : rst[r] = "resp" /\ outst[rdev[r]] # 0} IN
    /\ rst' = [r \in Req |-> IF r \in D THEN "free" ELSE rst[r]]
    /\ outst' = outst
    /\ total' = total - Cardinality(D)
    /\ pump' = IF D # {} THEN "top" ELSE "sleep"
    /\ UNCHANGED <<inited, rdev, gen, spc, sreq>>

\* One pass of the poll loop, with events masked: for every device with
\* blkdev_outstanding[i] # 0, blkfront_aio_poll consumes its answered
\* entries and calls biocomp on each, which runs biodone, frees the record
\* and decrements both counters.  If any completed (did # 0) the pump goes
\* back to the head of its loop, else it waits on blkfront_queue.
Poll ==
    LET D == {r \in Req : rst[r] = "resp" /\ outst[rdev[r]] # 0} IN
    /\ rst' = [r \in Req |-> IF r \in D THEN "free" ELSE rst[r]]
    /\ outst' = [n \in Devs |->
                    outst[n] - Cardinality({r \in D : rdev[r] = n})]
    /\ total' = total - Cardinality(D)
    /\ pump' = IF D # {} THEN "top" ELSE "sleep"
    /\ UNCHANGED <<inited, rdev, gen, spc, sreq>>

\* The head of biothread's loop: under bio_mtx, wait on bio_cv while
\* bio_outstanding_total is 0; otherwise drop the mutex and poll.
PumpCheck ==
    /\ pump = "top"
    /\ \/ /\ total = 0
          /\ pump' = "cvwait"
          /\ UNCHANGED <<inited, total, outst, rst, rdev, gen, spc, sreq>>
       \/ /\ total # 0
          /\ Poll

\* Woken on blkfront_queue, schedule() returns and the poll loop retries.
PumpResume ==
    /\ pump = "ready"
    /\ Poll

Next ==
    \/ \E c \in Clients, n \in Devs, r \in Req :
          \/ Bio(c, n, r)
          \/ BioBlock(c, n, r)
    \/ \E c \in Clients : BioResume(c)
    \/ \E r \in Req : Respond(r)
    \/ PumpCheck
    \/ PumpResume

Spec == Init /\ [][Next]_vars

\* The pump, once runnable, is run by the round-robin scheduler; the
\* backend answers every request.  A submitter blocked on a full ring is
\* woken by every event on blkfront_queue, together with the other
\* blocked submitters, and the first of them to run takes the free entry.
\* Tail rotation (Sched's NoOvertake) selects a woken thread eventually,
\* so a resumption that stays enabled is taken: weak fairness.  It does
\* not make the same submitter win the entry every time it is freed: the
\* loser of one race sits behind the winner in thread_list and is scanned
\* after it at the next wakeup, so no strong fairness is assumed.
Fairness ==
    /\ WF_vars(PumpCheck)
    /\ WF_vars(PumpResume)
    /\ \A r \in Req : WF_vars(Respond(r))
    /\ \A c \in Clients : WF_vars(BioResume(c))

FairSpec == Spec /\ Fairness

-----------------------------------------------------------------------------
(* Properties.                                                             *)

\* Spec sec. 8 item 8, made exact: blkdev_outstanding[n] is the number of
\* requests of device n submitted and not yet completed by biocomp, and
\* bio_outstanding_total is their sum; rumpuser_bio counts a request after
\* submitting it and biocomp uncounts it after biodone.
CountersMatchRequests ==
    /\ \A n \in Devs : outst[n] = Cardinality(InRing(n))
    /\ total = Cardinality({r \in Req : rst[r] \in {"ring", "resp"}})

\* No lost wakeup: the pump never sleeps on bio_cv while a request is
\* outstanding; the submission that made the total nonzero signalled it.
NoLostWakeup ==
    pump = "cvwait" => total = 0

Pending == {<<r, gen[r]>> : r \in {q \in Req : rst[q] \in {"ring", "resp"}}}

Service == INSTANCE BioService WITH Req <- Req \X {0, 1}, pending <- Pending

\* The safety part of the refinement: every step of the pump either
\* leaves the pending requests alone, or is rumpuser_bio accepting one
\* new request on a record not in flight, or biocomp completing some
\* pending requests; a record is never submitted twice before its biodone.
ServiceSafety == Service!Init /\ [][Service!Next]_Pending

\* Refinement (spec sec. 8 item 7): the pump implements the request
\* service.  rumpuser_bio accepts only a record not in flight, biocomp
\* completes only pending requests, and, under the scheduler's and the
\* backend's fairness, every submitted request's biodone eventually runs.
BioImplementsService == Service!Spec

=============================================================================
