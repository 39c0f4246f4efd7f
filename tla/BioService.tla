------------------------------ MODULE BioService ------------------------------
(***************************************************************************)
(* What the block I/O hypercall promises its caller (spec sec. 4.2 and    *)
(* sec. 8 item 7): rumpuser_bio accepts a request into the set of pending *)
(* ones, and every pending request is eventually completed, exactly once, *)
(* by a call of its biodone.  Completions may come in batches and in any  *)
(* order.  A request is named by its record, which is reused once done.   *)
(***************************************************************************)
CONSTANT Req

VARIABLE pending

\* rumpuser_bio accepts request r.
Issue(r) ==
    /\ r \notin pending
    /\ pending' = pending \cup {r}

\* The biodone of every request of S is called, once.
Complete(S) ==
    /\ S # {}
    /\ S \subseteq pending
    /\ pending' = pending \ S

\* A completion that includes request r.
Served(r) == \E S \in SUBSET pending : r \in S /\ Complete(S)

Init == pending = {}

Next ==
    \/ \E r \in Req : Issue(r)
    \/ \E S \in SUBSET pending : Complete(S)

\* The service: only pending requests complete, none twice, and every
\* request accepted by rumpuser_bio is eventually completed.
Spec == Init /\ [][Next]_pending /\ \A r \in Req : WF_pending(Served(r))

=============================================================================
