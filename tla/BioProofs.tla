------------------------------ MODULE BioProofs ------------------------------
(***************************************************************************)
(* Proofs about the block I/O pump (Bio), for every set of submitters,    *)
(* devices and request records and every ring size.                       *)
(*                                                                         *)
(* The counters are proved to count the requests in flight.  That is not  *)
(* inductive on its own: a blocked submission must still hold its record *)
(* ("alloc", and no other blocked submission holds the same one), or its  *)
(* resumption could count a record already in the ring, and a ring may    *)
(* never hold more than RingSize entries, or TypeOK's bound on the        *)
(* counters would fail.                                                   *)
(***************************************************************************)
EXTENDS Bio, FiniteSetTheorems, TLAPS

\* The requests submitted and not yet completed.
InFlight == {r \in Req : rst[r] \in {"ring", "resp"}}

\* A submission blocked in blkfront_aio holds its record, unsubmitted.
SlotsHeld == \A c \in Clients : spc[c] = "slot" => rst[sreq[c]] = "alloc"

\* Two blocked submissions hold two records.
SlotsDistinct ==
    \A c, d \in Clients :
        c # d /\ spc[c] = "slot" /\ spc[d] = "slot" => sreq[c] # sreq[d]

\* No ring holds more entries than it has.
RingBound == \A n \in Devs : Cardinality(InRing(n)) <= RingSize

\* TypeOK with the counters only known to be integers.
Shape ==
    /\ inited \in BOOLEAN
    /\ pump \in PumpStates
    /\ total \in Int
    /\ outst \in [Devs -> Int]
    /\ rst \in [Req -> {"free", "alloc", "ring", "resp"}]
    /\ rdev \in [Req -> Devs]
    /\ spc \in [Clients -> {"idle", "slot"}]
    /\ sreq \in [Clients -> Req]
    /\ gen \in [Req -> {0, 1}]

BioIInv ==
    /\ Shape
    /\ CountersMatchRequests
    /\ NoLostWakeup
    /\ SlotsHeld
    /\ SlotsDistinct
    /\ RingBound

-----------------------------------------------------------------------------
(* Cardinalities of sets of records.                                       *)

LEMMA ReqSubsetFinite ==
    ASSUME NEW S \in SUBSET Req
    PROVE  IsFiniteSet(S) /\ Cardinality(S) \in Nat
BY BioAssumption, FS_Subset, FS_CardinalityType

LEMMA CardPlusOne ==
    ASSUME NEW S \in SUBSET Req, NEW x, x \notin S
    PROVE  Cardinality(S \cup {x}) = Cardinality(S) + 1
BY ReqSubsetFinite, FS_AddElement

LEMMA CardMinus ==
    ASSUME NEW S \in SUBSET Req, NEW X \in SUBSET S
    PROVE  /\ Cardinality(X) \in Nat
           /\ Cardinality(S \ X) = Cardinality(S) - Cardinality(X)
<1>1. IsFiniteSet(S)
  BY ReqSubsetFinite
<1>2. S \cap X = X
  OBVIOUS
<1>3. X \in SUBSET Req
  OBVIOUS
<1> QED
  BY <1>1, <1>2, <1>3, ReqSubsetFinite, FS_Difference

-----------------------------------------------------------------------------
(* The invariant gives TypeOK.                                             *)

LEMMA IInvTypeOK == BioIInv => TypeOK
<1> SUFFICES ASSUME BioIInv PROVE TypeOK
  OBVIOUS
<1>1. total \in 0..Cardinality(Req)
  <2>1. InFlight \in SUBSET Req /\ Req \in SUBSET Req
    BY DEF InFlight
  <2>2. Cardinality(InFlight) <= Cardinality(Req)
    BY <2>1, BioAssumption, FS_Subset
  <2>3. total = Cardinality(InFlight)
    BY DEF BioIInv, CountersMatchRequests, InFlight
  <2> QED
    BY <2>1, <2>2, <2>3, ReqSubsetFinite
<1>2. outst \in [Devs -> 0..RingSize]
  <2>1. ASSUME NEW n \in Devs PROVE outst[n] \in 0..RingSize
    <3>1. InRing(n) \in SUBSET Req
      BY DEF InRing
    <3>2. outst[n] = Cardinality(InRing(n))
      BY DEF BioIInv, CountersMatchRequests
    <3>3. Cardinality(InRing(n)) <= RingSize
      BY DEF BioIInv, RingBound
    <3> QED
      BY <3>1, <3>2, <3>3, ReqSubsetFinite, BioAssumption
  <2> QED
    BY <2>1 DEF BioIInv, Shape
<1> QED
  BY <1>1, <1>2 DEF BioIInv, Shape, TypeOK

LEMMA InitIInv == Init => BioIInv
<1> SUFFICES ASSUME Init PROVE BioIInv
  OBVIOUS
<1>1. \A n \in Devs : InRing(n) = {}
  BY DEF Init, InRing
<1>2. {r \in Req : rst[r] \in {"ring", "resp"}} = {}
  BY DEF Init
<1>3. Shape
  <2>1. (CHOOSE n \in Devs : TRUE) \in Devs
    BY BioAssumption
  <2>2. (CHOOSE r \in Req : TRUE) \in Req
    BY BioAssumption
  <2>3. rdev \in [Req -> Devs] /\ sreq \in [Clients -> Req]
    BY <2>1, <2>2 DEF Init
  <2>4. inited \in BOOLEAN /\ pump \in PumpStates
    BY Zenon DEF Init, PumpStates
  <2>5. total \in Int
    BY DEF Init
  <2>6. outst \in [Devs -> Int] /\ gen \in [Req -> {0, 1}]
    BY DEF Init
  <2>7. rst \in [Req -> {"free", "alloc", "ring", "resp"}]
        /\ spc \in [Clients -> {"idle", "slot"}]
    BY DEF Init
  <2> QED
    BY <2>3, <2>4, <2>5, <2>6, <2>7 DEF Shape
<1>4. CountersMatchRequests
  BY <1>1, <1>2, FS_EmptySet DEF Init, CountersMatchRequests
<1>5. RingBound
  BY <1>1, FS_EmptySet, BioAssumption DEF RingBound
<1> QED
  BY <1>3, <1>4, <1>5 DEF Init, BioIInv, NoLostWakeup, SlotsHeld, SlotsDistinct

-----------------------------------------------------------------------------
(* One lemma per action: each keeps BioIInv.                               *)

\* rumpuser_bio with a free ring entry: record r joins the ring of n.
LEMMA BioStep ==
    ASSUME BioIInv, NEW c \in Clients, NEW n \in Devs, NEW r \in Req,
           Bio(c, n, r)
    PROVE  BioIInv'
<1>1. /\ rst[r] = "free"
      /\ Cardinality(InRing(n)) < RingSize
      /\ rst' = [rst EXCEPT ![r] = "ring"]
      /\ rdev' = [rdev EXCEPT ![r] = n]
      /\ gen' = [gen EXCEPT ![r] = 1 - @]
      /\ total' = total + 1
      /\ outst' = [outst EXCEPT ![n] = @ + 1]
      /\ pump' # "cvwait"
      /\ pump' \in PumpStates
      /\ inited' = TRUE
      /\ spc' = spc /\ sreq' = sreq
  BY DEF Bio, Push, BioIInv, Shape, PumpStates
<1>2. Shape'
  BY <1>1 DEF BioIInv, Shape
<1>3. \A m \in Devs : InRing(m)' = IF m = n THEN InRing(n) \cup {r}
                                             ELSE InRing(m)
  BY <1>1 DEF InRing, BioIInv, Shape
<1>4. InFlight' = InFlight \cup {r}
  BY <1>1 DEF InFlight, BioIInv, Shape
<1>5. r \notin InRing(n) /\ r \notin InFlight
  BY <1>1 DEF InRing, InFlight
<1>6. InRing(n) \in SUBSET Req /\ InFlight \in SUBSET Req
  BY DEF InRing, InFlight
<1>7. Cardinality(InRing(n) \cup {r}) = Cardinality(InRing(n)) + 1
      /\ Cardinality(InFlight \cup {r}) = Cardinality(InFlight) + 1
  BY <1>5, <1>6, CardPlusOne
<1>8. CountersMatchRequests'
  <2>1. ASSUME NEW m \in Devs PROVE outst'[m] = Cardinality(InRing(m)')
    BY <1>1, <1>3, <1>7 DEF BioIInv, CountersMatchRequests, Shape
  <2>2. total' = Cardinality(InFlight')
    BY <1>1, <1>4, <1>7 DEF BioIInv, CountersMatchRequests, InFlight
  <2> QED
    BY <2>1, <2>2 DEF CountersMatchRequests, InFlight
<1>9. RingBound'
  <2>1. ASSUME NEW m \in Devs PROVE Cardinality(InRing(m)') <= RingSize
    <3>1. CASE m = n
      <4>1. Cardinality(InRing(n)) \in Nat /\ RingSize \in Nat
        BY <1>6, ReqSubsetFinite, BioAssumption
      <4>2. InRing(m)' = InRing(n) \cup {r}
        BY <3>1, <1>3
      <4>3. Cardinality(InRing(m)') = Cardinality(InRing(n)) + 1
        BY <4>2, <1>7
      <4> QED
        BY <4>1, <4>3, <1>1
    <3>2. CASE m # n
      BY <3>2, <1>3 DEF BioIInv, RingBound
    <3> QED
      BY <3>1, <3>2
  <2> QED
    BY <2>1 DEF RingBound
<1>10. SlotsHeld' /\ SlotsDistinct'
  BY <1>1 DEF BioIInv, SlotsHeld, SlotsDistinct
<1> QED
  BY <1>1, <1>2, <1>8, <1>9, <1>10 DEF BioIInv, NoLostWakeup

\* A blocked submission resumes: its record joins the ring of its device.
LEMMA BioResumeStep ==
    ASSUME BioIInv, NEW c \in Clients, BioResume(c)
    PROVE  BioIInv'
<1> DEFINE r == sreq[c]
           n == rdev[r]
<1>1. r \in Req /\ n \in Devs /\ rst[r] = "alloc"
  BY DEF BioResume, BioIInv, Shape, SlotsHeld
<1>2. /\ Cardinality(InRing(n)) < RingSize
      /\ rst' = [rst EXCEPT ![r] = "ring"]
      /\ rdev' = rdev /\ gen' = gen /\ inited' = inited /\ sreq' = sreq
      /\ total' = total + 1
      /\ outst' = [outst EXCEPT ![n] = @ + 1]
      /\ pump' # "cvwait"
      /\ pump' \in PumpStates
      /\ spc' = [spc EXCEPT ![c] = "idle"]
  BY DEF BioResume, Push, BioIInv, Shape, PumpStates
<1>3. Shape'
  BY <1>1, <1>2 DEF BioIInv, Shape
<1>4. \A m \in Devs : InRing(m)' = IF m = n THEN InRing(n) \cup {r}
                                             ELSE InRing(m)
  BY <1>1, <1>2 DEF InRing, BioIInv, Shape
<1>5. InFlight' = InFlight \cup {r}
  BY <1>1, <1>2 DEF InFlight, BioIInv, Shape
<1>6. r \notin InRing(n) /\ r \notin InFlight
  BY <1>1 DEF InRing, InFlight
<1>7. InRing(n) \in SUBSET Req /\ InFlight \in SUBSET Req
  BY DEF InRing, InFlight
<1>8. Cardinality(InRing(n) \cup {r}) = Cardinality(InRing(n)) + 1
      /\ Cardinality(InFlight \cup {r}) = Cardinality(InFlight) + 1
  BY <1>1, <1>6, <1>7, CardPlusOne
<1>9. CountersMatchRequests'
  <2>1. ASSUME NEW m \in Devs PROVE outst'[m] = Cardinality(InRing(m)')
    BY <1>1, <1>2, <1>4, <1>8 DEF BioIInv, CountersMatchRequests, Shape
  <2>2. total' = Cardinality(InFlight')
    BY <1>2, <1>5, <1>8 DEF BioIInv, CountersMatchRequests, InFlight
  <2> QED
    BY <2>1, <2>2 DEF CountersMatchRequests, InFlight
<1>10. RingBound'
  <2>1. ASSUME NEW m \in Devs PROVE Cardinality(InRing(m)') <= RingSize
    <3>1. CASE m = n
      <4>1. Cardinality(InRing(n)) \in Nat /\ RingSize \in Nat
        BY <1>7, ReqSubsetFinite, BioAssumption
      <4>2. InRing(m)' = InRing(n) \cup {r}
        BY <3>1, <1>4
      <4>3. Cardinality(InRing(m)') = Cardinality(InRing(n)) + 1
        BY <4>2, <1>8
      <4> QED
        BY <4>1, <4>3, <1>2
    <3>2. CASE m # n
      BY <3>2, <1>4 DEF BioIInv, RingBound
    <3> QED
      BY <3>1, <3>2
  <2> QED
    BY <2>1 DEF RingBound
<1>11. SlotsHeld'
  <2>1. ASSUME NEW d \in Clients, spc'[d] = "slot" PROVE rst'[sreq'[d]] = "alloc"
    <3>1. d # c /\ spc[d] = "slot"
      BY <2>1, <1>2 DEF BioResume, BioIInv, Shape
    <3>2. sreq[d] # r
      BY <3>1 DEF BioResume, BioIInv, SlotsDistinct
    <3> QED
      BY <3>1, <3>2, <1>1, <1>2 DEF BioIInv, SlotsHeld, Shape
  <2> QED
    BY <2>1 DEF SlotsHeld
<1>12. SlotsDistinct'
  BY <1>2 DEF BioIInv, SlotsDistinct, Shape
<1> QED
  BY <1>2, <1>3, <1>9, <1>10, <1>11, <1>12 DEF BioIInv, NoLostWakeup

\* A submission blocks on a full ring, holding record r.
LEMMA BioBlockStep ==
    ASSUME BioIInv, NEW c \in Clients, NEW n \in Devs, NEW r \in Req,
           BioBlock(c, n, r)
    PROVE  BioIInv'
<1>1. /\ rst[r] = "free" /\ spc[c] = "idle"
      /\ rst' = [rst EXCEPT ![r] = "alloc"]
      /\ rdev' = [rdev EXCEPT ![r] = n]
      /\ gen' = [gen EXCEPT ![r] = 1 - @]
      /\ spc' = [spc EXCEPT ![c] = "slot"]
      /\ sreq' = [sreq EXCEPT ![c] = r]
      /\ total' = total /\ outst' = outst
      /\ inited' = TRUE
      /\ pump' = IF inited THEN pump ELSE "top"
  BY DEF BioBlock, StartPump
<1>2. Shape'
  BY <1>1 DEF BioIInv, Shape, PumpStates
<1>3. \A m \in Devs : InRing(m)' = InRing(m)
  BY <1>1 DEF InRing, BioIInv, Shape
<1>4. InFlight' = InFlight
  BY <1>1 DEF InFlight, BioIInv, Shape
<1>5. CountersMatchRequests' /\ RingBound'
  BY <1>1, <1>3, <1>4 DEF BioIInv, CountersMatchRequests, RingBound, InFlight
<1>6. NoLostWakeup'
  BY <1>1 DEF BioIInv, NoLostWakeup
<1>7. \A d \in Clients : spc[d] = "slot" => sreq[d] # r
  BY <1>1 DEF BioIInv, SlotsHeld
<1>8. SlotsHeld'
  BY <1>1, <1>7 DEF BioIInv, SlotsHeld, Shape
<1>9. SlotsDistinct'
  BY <1>1, <1>7 DEF BioIInv, SlotsDistinct, Shape
<1> QED
  BY <1>2, <1>5, <1>6, <1>8, <1>9 DEF BioIInv

\* The backend answers ring entry r.
LEMMA RespondStep ==
    ASSUME BioIInv, NEW r \in Req, Respond(r)
    PROVE  BioIInv'
<1>1. /\ rst[r] = "ring"
      /\ rst' = [rst EXCEPT ![r] = "resp"]
      /\ pump' = IF pump = "sleep" THEN "ready" ELSE pump
      /\ UNCHANGED <<inited, total, outst, rdev, gen, spc, sreq>>
  BY DEF Respond
<1>2. Shape'
  BY <1>1 DEF BioIInv, Shape, PumpStates
<1>3. (\A m \in Devs : InRing(m)' = InRing(m)) /\ InFlight' = InFlight
  BY <1>1 DEF InRing, InFlight, BioIInv, Shape
<1>4. CountersMatchRequests' /\ RingBound'
  BY <1>1, <1>3 DEF BioIInv, CountersMatchRequests, RingBound, InFlight
<1>5. SlotsHeld' /\ SlotsDistinct'
  BY <1>1 DEF BioIInv, SlotsHeld, SlotsDistinct, Shape
<1> QED
  BY <1>1, <1>2, <1>4, <1>5 DEF BioIInv, NoLostWakeup

\* A pass of the poll loop completes the answered requests D of the
\* devices it polls; each ring and the set in flight lose exactly D.
LEMMA PollStep ==
    ASSUME BioIInv, Poll
    PROVE  BioIInv'
<1> DEFINE D == {r \in Req : rst[r] = "resp" /\ outst[rdev[r]] # 0}
           X(m) == {r \in D : rdev[r] = m}
<1>1. /\ rst' = [r \in Req |-> IF r \in D THEN "free" ELSE rst[r]]
      /\ outst' = [m \in Devs |-> outst[m] - Cardinality(X(m))]
      /\ total' = total - Cardinality(D)
      /\ pump' \in {"top", "sleep"}
      /\ UNCHANGED <<inited, rdev, gen, spc, sreq>>
  BY DEF Poll
<1>2. D \subseteq InFlight /\ InFlight \in SUBSET Req
  BY DEF InFlight
<1>3. \A m \in Devs : X(m) \subseteq InRing(m) /\ InRing(m) \in SUBSET Req
  BY DEF InRing
<1>4. \A m \in Devs : InRing(m)' = InRing(m) \ X(m)
  BY <1>1 DEF InRing, BioIInv, Shape
<1>5. InFlight' = InFlight \ D
  BY <1>1 DEF InFlight, BioIInv, Shape
<1>6. \A m \in Devs :
         /\ Cardinality(X(m)) \in Nat
         /\ Cardinality(InRing(m) \ X(m)) = Cardinality(InRing(m)) - Cardinality(X(m))
  BY <1>3, CardMinus
<1>7. Cardinality(D) \in Nat
      /\ Cardinality(InFlight \ D) = Cardinality(InFlight) - Cardinality(D)
  BY <1>2, CardMinus
<1>8. Shape'
  <2>1. outst' \in [Devs -> Int]
    <3>1. ASSUME NEW m \in Devs PROVE outst[m] - Cardinality(X(m)) \in Int
      <4>1. Cardinality(X(m)) \in Nat
        BY <1>6
      <4>2. outst[m] \in Int
        BY DEF BioIInv, Shape
      <4> QED
        BY <4>1, <4>2
    <3> QED
      BY <3>1, <1>1
  <2>2. total' \in Int
    BY <1>1, <1>7 DEF BioIInv, Shape
  <2>3. rst' \in [Req -> {"free", "alloc", "ring", "resp"}]
    BY <1>1 DEF BioIInv, Shape
  <2> QED
    BY <1>1, <2>1, <2>2, <2>3 DEF BioIInv, Shape, PumpStates
<1>9. CountersMatchRequests'
  <2>1. ASSUME NEW m \in Devs PROVE outst'[m] = Cardinality(InRing(m)')
    <3>1. outst'[m] = outst[m] - Cardinality(X(m))
      BY <1>1
    <3>2. outst[m] = Cardinality(InRing(m))
      BY DEF BioIInv, CountersMatchRequests
    <3> QED
      BY <3>1, <3>2, <1>4, <1>6
  <2>2. total' = Cardinality(InFlight')
    BY <1>1, <1>5, <1>7 DEF BioIInv, CountersMatchRequests, InFlight
  <2> QED
    BY <2>1, <2>2 DEF CountersMatchRequests, InFlight
<1>10. RingBound'
  <2>1. ASSUME NEW m \in Devs PROVE Cardinality(InRing(m)') <= RingSize
    <3>1. Cardinality(InRing(m)) \in Nat /\ Cardinality(InRing(m)) <= RingSize
      BY <1>3, ReqSubsetFinite DEF BioIInv, RingBound
    <3>2. Cardinality(InRing(m)') = Cardinality(InRing(m)) - Cardinality(X(m))
      BY <1>4, <1>6
    <3>3. Cardinality(X(m)) \in Nat
      BY <1>6
    <3> QED
      BY <3>1, <3>2, <3>3, BioAssumption
  <2> QED
    BY <2>1 DEF RingBound
<1>11. SlotsHeld' /\ SlotsDistinct'
  BY <1>1 DEF BioIInv, SlotsHeld, SlotsDistinct, Shape
<1>12. NoLostWakeup'
  BY <1>1 DEF NoLostWakeup
<1> QED
  BY <1>8, <1>9, <1>10, <1>11, <1>12 DEF BioIInv

\* The pump finds bio_outstanding_total = 0 and waits on bio_cv.
LEMMA CvWaitStep ==
    ASSUME BioIInv, pump = "top", total = 0, pump' = "cvwait",
           UNCHANGED <<inited, total, outst, rst, rdev, gen, spc, sreq>>
    PROVE  BioIInv'
<1>1. Shape'
  BY DEF BioIInv, Shape, PumpStates
<1>2. (\A m \in Devs : InRing(m)' = InRing(m)) /\ InFlight' = InFlight
  BY DEF InRing, InFlight
<1> QED
  BY <1>1, <1>2 DEF BioIInv, CountersMatchRequests, NoLostWakeup, SlotsHeld,
                    SlotsDistinct, RingBound, InFlight

LEMMA NextIInv == BioIInv /\ [Next]_vars => BioIInv'
<1> SUFFICES ASSUME BioIInv, [Next]_vars PROVE BioIInv'
  OBVIOUS
<1>1. ASSUME NEW c \in Clients, NEW n \in Devs, NEW r \in Req, Bio(c, n, r)
      PROVE  BioIInv'
  BY <1>1, BioStep
<1>2. ASSUME NEW c \in Clients, NEW n \in Devs, NEW r \in Req,
             BioBlock(c, n, r)
      PROVE  BioIInv'
  BY <1>2, BioBlockStep
<1>3. ASSUME NEW c \in Clients, BioResume(c) PROVE BioIInv'
  BY <1>3, BioResumeStep
<1>4. ASSUME NEW r \in Req, Respond(r) PROVE BioIInv'
  BY <1>4, RespondStep
<1>5. CASE PumpCheck
  <2>1. CASE total = 0
    BY <1>5, <2>1, CvWaitStep DEF PumpCheck
  <2>2. CASE total # 0
    BY <1>5, <2>2, PollStep DEF PumpCheck
  <2> QED
    BY <2>1, <2>2
<1>6. CASE PumpResume
  BY <1>6, PollStep DEF PumpResume
<1>7. CASE UNCHANGED vars
  <2>1. Shape'
    BY <1>7 DEF vars, BioIInv, Shape
  <2>2. (\A m \in Devs : InRing(m)' = InRing(m)) /\ InFlight' = InFlight
    BY <1>7 DEF vars, InRing, InFlight
  <2> QED
    BY <1>7, <2>1, <2>2 DEF vars, BioIInv, CountersMatchRequests, NoLostWakeup,
                          SlotsHeld, SlotsDistinct, RingBound, InFlight
<1> QED
  BY <1>1, <1>2, <1>3, <1>4, <1>5, <1>6, <1>7 DEF Next

-----------------------------------------------------------------------------
(* The refinement of BioService, safety part.  Pending names each record  *)
(* in flight with the parity of its allocation; a submission issues the   *)
(* new pair, a poll completes the pairs of the records it frees, and every *)
(* other step leaves Pending alone.                                       *)

\* A record that is not in flight joins the ring, keeping the allocation
\* parities of the other records: the step issues <<r, gen'[r]>>.
LEMMA IssueStep ==
    ASSUME Shape, NEW r \in Req, rst[r] \in {"free", "alloc"},
           rst' = [rst EXCEPT ![r] = "ring"],
           gen' \in [Req -> {0, 1}],
           \A q \in Req \ {r} : gen'[q] = gen[q]
    PROVE  Service!Next
<1> DEFINE x == <<r, gen'[r]>>
<1>1. x \in Req \X {0, 1}
  OBVIOUS
<1>2. x \notin Pending
  BY DEF Pending, Shape
<1>3. Pending' = Pending \cup {x}
  <2>1. ASSUME NEW y \in Pending' PROVE y \in Pending \cup {x}
    <3>1. PICK q \in Req : rst'[q] \in {"ring", "resp"} /\ y = <<q, gen'[q]>>
      BY <2>1 DEF Pending
    <3>2. CASE q = r
      BY <3>1, <3>2
    <3>3. CASE q # r
      BY <3>1, <3>3 DEF Pending, Shape
    <3> QED
      BY <3>2, <3>3
  <2>2. ASSUME NEW y \in Pending \cup {x} PROVE y \in Pending'
    <3>1. CASE y = x
      BY <3>1 DEF Pending, Shape
    <3>2. CASE y \in Pending
      <4>1. PICK q \in Req : rst[q] \in {"ring", "resp"} /\ y = <<q, gen[q]>>
        BY <3>2 DEF Pending
      <4>2. q # r
        BY <4>1
      <4> QED
        BY <4>1, <4>2 DEF Pending, Shape
    <3> QED
      BY <3>1, <3>2
  <2> QED
    BY <2>1, <2>2
<1> QED
  BY <1>1, <1>2, <1>3 DEF Service!Next, Service!Issue

\* A step that moves no record into or out of the ring, and changes the
\* allocation parity only of records not in flight, leaves Pending alone.
LEMMA PendingUnchanged ==
    ASSUME Shape, rst' \in [Req -> {"free", "alloc", "ring", "resp"}],
           gen' \in [Req -> {0, 1}],
           \A q \in Req : (rst'[q] \in {"ring", "resp"})
                            = (rst[q] \in {"ring", "resp"}),
           \A q \in Req : rst[q] \in {"ring", "resp"} => gen'[q] = gen[q]
    PROVE  Pending' = Pending
<1>1. ASSUME NEW y \in Pending' PROVE y \in Pending
  <2>1. PICK q \in Req : rst'[q] \in {"ring", "resp"} /\ y = <<q, gen'[q]>>
    BY <1>1 DEF Pending
  <2> QED
    BY <2>1 DEF Pending
<1>2. ASSUME NEW y \in Pending PROVE y \in Pending'
  <2>1. PICK q \in Req : rst[q] \in {"ring", "resp"} /\ y = <<q, gen[q]>>
    BY <1>2 DEF Pending
  <2> QED
    BY <2>1 DEF Pending
<1> QED
  BY <1>1, <1>2

\* One pass of the poll loop completes the requests of the records it
\* frees, or, when it frees none, leaves Pending alone.
LEMMA PollRefines ==
    ASSUME Shape, Poll
    PROVE  [Service!Next]_Pending
<1> DEFINE D == {r \in Req : rst[r] = "resp" /\ outst[rdev[r]] # 0}
           S == {<<r, gen[r]>> : r \in D}
<1>1. /\ rst' = [r \in Req |-> IF r \in D THEN "free" ELSE rst[r]]
      /\ gen' = gen
  BY DEF Poll
<1>2. Pending' = Pending \ S
  <2>1. ASSUME NEW y \in Pending' PROVE y \in Pending \ S
    <3>1. PICK q \in Req : rst'[q] \in {"ring", "resp"} /\ y = <<q, gen'[q]>>
      BY <2>1 DEF Pending
    <3>2. q \notin D /\ rst[q] \in {"ring", "resp"}
      BY <1>1, <3>1
    <3>3. y \notin S
      BY <1>1, <3>1, <3>2
    <3> QED
      BY <1>1, <3>1, <3>2, <3>3 DEF Pending
  <2>2. ASSUME NEW y \in Pending \ S PROVE y \in Pending'
    <3>1. PICK q \in Req : rst[q] \in {"ring", "resp"} /\ y = <<q, gen[q]>>
      BY <2>2 DEF Pending
    <3>2. q \notin D
      BY <2>2, <3>1
    <3> QED
      BY <1>1, <3>1, <3>2 DEF Pending, Shape
  <2> QED
    BY <2>1, <2>2
<1>3. S \subseteq Pending
  BY DEF Pending
<1>4. CASE D = {}
  BY <1>2, <1>4
<1>5. CASE D # {}
  <2>1. S # {}
    BY <1>5
  <2> QED
    BY <1>2, <1>3, <2>1 DEF Service!Next, Service!Complete
<1> QED
  BY <1>4, <1>5

\* Every step of the pump is a step of the service or leaves Pending alone.
LEMMA NextRefines == BioIInv /\ [Next]_vars => [Service!Next]_Pending
<1> SUFFICES ASSUME BioIInv, [Next]_vars PROVE [Service!Next]_Pending
  OBVIOUS
<1>0. Shape
  BY DEF BioIInv
<1>1. ASSUME NEW c \in Clients, NEW n \in Devs, NEW r \in Req, Bio(c, n, r)
      PROVE  [Service!Next]_Pending
  <2>1. /\ rst[r] = "free"
        /\ rst' = [rst EXCEPT ![r] = "ring"]
        /\ gen' = [gen EXCEPT ![r] = 1 - @]
    BY <1>1 DEF Bio, Push
  <2>2. gen' \in [Req -> {0, 1}] /\ \A q \in Req \ {r} : gen'[q] = gen[q]
    BY <1>0, <2>1 DEF Shape
  <2> QED
    BY <1>0, <2>1, <2>2, IssueStep
<1>2. ASSUME NEW c \in Clients, NEW n \in Devs, NEW r \in Req,
             BioBlock(c, n, r)
      PROVE  [Service!Next]_Pending
  <2>1. /\ rst[r] = "free"
        /\ rst' = [rst EXCEPT ![r] = "alloc"]
        /\ gen' = [gen EXCEPT ![r] = 1 - @]
    BY <1>2 DEF BioBlock
  <2>2. /\ rst' \in [Req -> {"free", "alloc", "ring", "resp"}]
        /\ gen' \in [Req -> {0, 1}]
    BY <1>0, <2>1 DEF Shape
  <2>3. Pending' = Pending
    BY <1>0, <2>1, <2>2, PendingUnchanged DEF Shape
  <2> QED
    BY <2>3
<1>3. ASSUME NEW c \in Clients, BioResume(c) PROVE [Service!Next]_Pending
  <2> DEFINE r == sreq[c]
  <2>1. r \in Req /\ spc[c] = "slot"
    BY <1>0, <1>3 DEF Shape, BioResume
  <2>2. rst[r] = "alloc"
    BY <2>1 DEF BioIInv, SlotsHeld
  <2>3. rst' = [rst EXCEPT ![r] = "ring"] /\ gen' = gen
    BY <1>3 DEF BioResume, Push
  <2> QED
    BY <1>0, <2>1, <2>2, <2>3, IssueStep DEF Shape
<1>4. ASSUME NEW r \in Req, Respond(r) PROVE [Service!Next]_Pending
  <2>1. rst[r] = "ring" /\ rst' = [rst EXCEPT ![r] = "resp"] /\ gen' = gen
    BY <1>4 DEF Respond
  <2>2. rst' \in [Req -> {"free", "alloc", "ring", "resp"}]
    BY <1>0, <2>1 DEF Shape
  <2>3. Pending' = Pending
    BY <1>0, <2>1, <2>2, PendingUnchanged DEF Shape
  <2> QED
    BY <2>3
<1>5. CASE PumpCheck
  <2>1. CASE total = 0
    BY <1>5, <2>1 DEF PumpCheck, Pending
  <2>2. CASE total # 0
    BY <1>0, <1>5, <2>2, PollRefines DEF PumpCheck
  <2> QED
    BY <2>1, <2>2
<1>6. CASE PumpResume
  BY <1>0, <1>6, PollRefines DEF PumpResume
<1>7. CASE UNCHANGED vars
  BY <1>7 DEF vars, Pending
<1> QED
  BY <1>1, <1>2, <1>3, <1>4, <1>5, <1>6, <1>7 DEF Next

-----------------------------------------------------------------------------
(* Theorems.                                                               *)

\* Every reachable state of the pump is well typed: in particular the
\* counters of rumpuser_bio and biocomp never go negative, and
\* blkdev_outstanding[n] never exceeds the ring size.
THEOREM BioTypeCorrect == Spec => []TypeOK
BY InitIInv, NextIInv, IInvTypeOK, PTL DEF Spec

\* bio_outstanding_total and blkdev_outstanding[] count exactly the
\* requests submitted by rumpuser_bio and not yet completed by biocomp,
\* for any number of submitters, devices, records and any ring size.
THEOREM CountersMatchHold == Spec => []CountersMatchRequests
<1>1. BioIInv => CountersMatchRequests
  BY DEF BioIInv
<1> QED
  BY InitIInv, NextIInv, <1>1, PTL DEF Spec

\* The pump never waits on bio_cv while a request is outstanding.
THEOREM NoLostWakeupHolds == Spec => []NoLostWakeup
<1>1. BioIInv => NoLostWakeup
  BY DEF BioIInv
<1> QED
  BY InitIInv, NextIInv, <1>1, PTL DEF Spec

\* The pump refines the block I/O service, safety part (spec sec. 8 item
\* 7): rumpuser_bio only accepts a request on a record not in flight, and
\* biocomp only completes requests that are pending, each once.  The
\* fairness part, that every request is completed, is checked by TLC in
\* the run of BioImplementsService.
THEOREM BioRefinesServiceSafety == Spec => ServiceSafety
<1>1. Init => Service!Init
  BY DEF Init, Pending, Service!Init
<1> QED
  BY <1>1, InitIInv, NextIInv, NextRefines, PTL DEF Spec, ServiceSafety

=============================================================================
