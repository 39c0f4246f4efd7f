------------------------------- MODULE BlkDev -------------------------------
(***************************************************************************)
(* The block-device table of the rump hypercall layer                      *)
(* (src/rumphyper_base.c:223-332): devopen, rumpuser_open, rumpuser_close  *)
(* and rumpuser_getfileinfo, with the per-slot reference count blkopen[]   *)
(* and the frontend handles blkdevs[].                                     *)
(*                                                                         *)
(* devopen releases the rump CPU around init_blkfront, which talks to the  *)
(* backend over xenbus and blocks in schedule(): the call is split at that *)
(* point into an entry step and a return step, and other callers run in    *)
(* between.  A frontend handle is the number of the init_blkfront call     *)
(* that created it; `live` holds the handles not yet shut down.  `held` is *)
(* history: the descriptors each caller got from a successful open and has *)
(* not closed.                                                             *)
(***************************************************************************)
EXTENDS Integers, FiniteSets

CONSTANTS
    Clients,     \* rump threads calling the hypercalls
    Devs,        \* slot numbers n of blk<n> tried (a subset of 0..NBLKDEV-1)
    ReadOnly,    \* slots whose backend is not O_RDWR
    MaxInits,    \* bound on init_blkfront calls
    MaxRef       \* bound on blkopen[n]

ASSUME BlkDevAssumption ==
    /\ Devs \subseteq 0..9 /\ Devs # {}
    /\ ReadOnly \subseteq Devs
    /\ MaxInits \in Nat \ {0}
    /\ MaxRef \in Nat \ {0}

NULL == 0
Handle == 1..MaxInits

VARIABLES
    blkopen,     \* blkopen[NBLKDEV]
    blkdevs,     \* blkdevs[NBLKDEV], NULL or a handle
    live,        \* frontends created and not shut down, per slot
    ninit,       \* init_blkfront calls so far
    cpc,         \* "idle", or inside init_blkfront for "open" / "info"
    cdev,        \* the slot a caller's devopen is opening
    cwr,         \* rumpuser_open asked for write access
    held         \* descriptors held, per caller and slot

vars == <<blkopen, blkdevs, live, ninit, cpc, cdev, cwr, held>>

TypeOK ==
    /\ blkopen \in [Devs -> 0..MaxRef]
    /\ blkdevs \in [Devs -> {NULL} \cup Handle]
    /\ live \in [Devs -> SUBSET Handle]
    /\ ninit \in 0..MaxInits
    /\ cpc \in [Clients -> {"idle", "open", "info"}]
    /\ cdev \in [Clients -> Devs]
    /\ cwr \in [Clients -> BOOLEAN]
    /\ held \in [Clients -> [Devs -> Nat]]

Init ==
    /\ blkopen = [n \in Devs |-> 0]
    /\ blkdevs = [n \in Devs |-> NULL]
    /\ live = [n \in Devs |-> {}]
    /\ ninit = 0
    /\ cpc = [c \in Clients |-> "idle"]
    /\ cdev = [c \in Clients |-> CHOOSE n \in Devs : TRUE]
    /\ cwr = [c \in Clients |-> FALSE]
    /\ held = [c \in Clients |-> [n \in Devs |-> 0]]

-----------------------------------------------------------------------------
(* devopen(n).                                                             *)

\* The slot is already open: take one more reference and return 1, which
\* both callers pass on as their (nonzero) result.
DevopenBump(c, n) ==
    /\ cpc[c] = "idle"
    /\ blkopen[n] # 0
    /\ blkopen[n] < MaxRef
    /\ blkopen' = [blkopen EXCEPT ![n] = @ + 1]
    /\ UNCHANGED <<blkdevs, live, ninit, cpc, cdev, cwr, held>>

\* Mutant: devopen does not test blkopen[num] before calling init_blkfront,
\* so a caller can start init_blkfront on a slot that is in use.
DevopenStartAnySlot(c, n, kind, wr) ==
    /\ cpc[c] = "idle"
    /\ ninit + Cardinality({x \in Clients : cpc[x] # "idle"}) < MaxInits
    /\ cpc' = [cpc EXCEPT ![c] = kind]
    /\ cdev' = [cdev EXCEPT ![c] = n]
    /\ cwr' = [cwr EXCEPT ![c] = wr]
    /\ UNCHANGED <<blkopen, blkdevs, live, ninit, held>>

\* The slot is closed: release the rump CPU and call init_blkfront for
\* caller c, on behalf of rumpuser_open or rumpuser_getfileinfo (kind).
DevopenStart(c, n, kind, wr) ==
    /\ cpc[c] = "idle"
    /\ blkopen[n] = 0
    /\ ninit + Cardinality({x \in Clients : cpc[x] # "idle"}) < MaxInits
    /\ cpc' = [cpc EXCEPT ![c] = kind]
    /\ cdev' = [cdev EXCEPT ![c] = n]
    /\ cwr' = [cwr EXCEPT ![c] = wr]
    /\ UNCHANGED <<blkopen, blkdevs, live, ninit, held>>

\* Mutant: shutdown_blkfront is not called on the last close.
ShutdownSkipped(lv, bd, n) == lv

\* shutdown_blkfront(blkdevs[n]).
Shutdown(lv, bd, n) == [lv EXCEPT ![n] = @ \ {bd[n]}]

\* rumpuser_close(BLKFDOFF + n) applied to the values bo, bd, lv of
\* blkopen, blkdevs and live: drop a reference; the last one nulls the
\* slot and shuts its frontend down.
CloseEffect(bo, bd, lv, n) ==
    LET left == bo[n] - 1 IN
    /\ blkopen' = [bo EXCEPT ![n] = left]
    /\ blkdevs' = IF left = 0 THEN [bd EXCEPT ![n] = NULL] ELSE bd
    /\ live' = IF left = 0 THEN Shutdown(lv, bd, n) ELSE lv

\* Mutant: devopen stores the new frontend but not blkopen[num] = 1.
OpenedNoCount(bo, n) == bo

\* A successful init_blkfront makes the count 1 (line 249).
Opened(bo, n) == [bo EXCEPT ![n] = 1]

\* init_blkfront returns (a new frontend, or NULL), the rump CPU is taken
\* back, and devopen and its caller run to their end.  A failed init
\* still stores NULL into blkdevs[n].
InitReturn(c, ok) ==
    LET n == cdev[c]
        h == ninit + 1
        bd == [blkdevs EXCEPT ![n] = IF ok THEN h ELSE NULL]
        lv == IF ok THEN [live EXCEPT ![n] = @ \cup {h}] ELSE live
        bo == Opened(blkopen, n)
    IN
    /\ cpc[c] # "idle"
    /\ ninit' = h
    /\ cpc' = [cpc EXCEPT ![c] = "idle"]
    /\ \/ ~ok /\ blkdevs' = bd /\ UNCHANGED <<blkopen, live, held>>
       \/ /\ ok /\ cpc[c] = "open"
          /\ blkopen' = bo /\ blkdevs' = bd /\ live' = lv
          /\ held' = IF cwr[c] /\ n \in ReadOnly THEN held
                     ELSE [held EXCEPT ![c][n] = @ + 1]
       \/ /\ ok /\ cpc[c] = "info"
          /\ CloseEffect(bo, bd, lv, n)
          /\ UNCHANGED held
    /\ UNCHANGED <<cdev, cwr>>

-----------------------------------------------------------------------------
(* The hypercalls.                                                         *)

\* rumpuser_open("blk<n>", RUMPUSER_OPEN_BIO | acc): its devopen either
\* bumps the count (and the open fails) or starts init_blkfront.
Open(c, n, wr) ==
    \/ DevopenBump(c, n)
    \/ DevopenStart(c, n, "open", wr)

\* rumpuser_getfileinfo("blk<n>"): devopen, then rumpuser_close.
GetFileInfo(c, n) ==
    \/ DevopenBump(c, n)
    \/ DevopenStart(c, n, "info", FALSE)

\* A call rejected before it touches the table: rumpuser_open of a name
\* that is not blk0..blk9 or without RUMPUSER_OPEN_BIO (ENXIO), or
\* rumpuser_close of a descriptor out of range (EBADF).
Rejected(c) ==
    /\ cpc[c] = "idle"
    /\ UNCHANGED vars

\* Mutant: a caller closes a descriptor it does not hold, which
\* rumpuser_close does not detect (it checks only the range of fd).
CloseUnheld(c, n) ==
    /\ cpc[c] = "idle"
    /\ held' = [held EXCEPT ![c][n] = @ - 1]
    /\ CloseEffect(blkopen, blkdevs, live, n)
    /\ UNCHANGED <<ninit, cpc, cdev, cwr>>

\* rumpuser_close(BLKFDOFF + n) of a descriptor the caller holds.
Close(c, n) ==
    /\ cpc[c] = "idle"
    /\ held[c][n] > 0
    /\ held' = [held EXCEPT ![c][n] = @ - 1]
    /\ CloseEffect(blkopen, blkdevs, live, n)
    /\ UNCHANGED <<ninit, cpc, cdev, cwr>>

Next ==
    \E c \in Clients :
        \/ \E n \in Devs :
              \/ \E wr \in BOOLEAN : Open(c, n, wr)
              \/ GetFileInfo(c, n)
              \/ Close(c, n)
        \/ \E ok \in BOOLEAN : InitReturn(c, ok)
        \/ Rejected(c)

Spec == Init /\ [][Next]_vars

-----------------------------------------------------------------------------
(* Properties.                                                             *)

\* A descriptor returned by rumpuser_open and not closed yet always refers
\* to a live frontend: blkdevs[n] is set, and is not a shut-down one.
\* rumpuser_bio uses blkdevs[n] without checking it.
HeldHasFrontend ==
    \A c \in Clients, n \in Devs :
        held[c][n] > 0 => blkdevs[n] \in live[n]

\* No frontend is leaked or lost: a slot has at most its current frontend
\* alive, and it has one exactly while the reference count is positive.
FrontendsAccounted ==
    \A n \in Devs :
        /\ live[n] \subseteq {blkdevs[n]}
        /\ (blkdevs[n] # NULL) <=> (blkopen[n] > 0)

\* The descriptors held on slot n, summed over the callers.
HeldOn(n) ==
    LET sum[S \in SUBSET Clients] ==
            IF S = {} THEN 0
            ELSE LET c == CHOOSE x \in S : TRUE IN held[c][n] + sum[S \ {c}]
    IN  sum[Clients]

\* Spec sec. 7 and sec. 8 scenario 6: a failed open (devopen's bump path,
\* rumpuser_open's EROFS) leaves the reference count unchanged, so the
\* count of a slot is the number of descriptors held on it.
RefcountMatchesHolders ==
    \A n \in Devs :
        blkopen[n] = HeldOn(n)

=============================================================================
