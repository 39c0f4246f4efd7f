----------------------------- MODULE BlkDevProofs -----------------------------
(***************************************************************************)
(* Proofs about the block-device table (BlkDev) when one rump thread makes *)
(* the calls, for every set of slots, every bound on init_blkfront calls   *)
(* and on the reference count.  With two threads the table breaks (runs   *)
(* blkdev_open_race and blkdev_refcount): devopen tests blkopen[num] and  *)
(* then gives up the rump CPU, and nothing serialises the two callers.    *)
(*                                                                         *)
(* HeldHasFrontend and FrontendsAccounted are not inductive as they stand: *)
(* a close must find a count at least the descriptors held, and an         *)
(* init_blkfront in progress must be on a slot that is still closed.       *)
(***************************************************************************)
EXTENDS BlkDev, FiniteSetTheorems, TLAPS

\* The live frontend of a slot is exactly blkdevs[n], if set.
LiveIsCurrent ==
    \A n \in Devs : live[n] = IF blkdevs[n] = NULL THEN {} ELSE {blkdevs[n]}

\* A slot has a frontend exactly while its count is positive.
SetWhileOpen == \A n \in Devs : (blkdevs[n] # NULL) <=> (blkopen[n] > 0)

\* Every descriptor held on a slot is counted.
HeldCounted == \A c \in Clients, n \in Devs : held[c][n] <= blkopen[n]

\* A caller inside init_blkfront is opening a closed slot, and has an
\* init_blkfront call left within the bound.
InitPending ==
    \A c \in Clients :
        cpc[c] # "idle" => blkopen[cdev[c]] = 0 /\ ninit < MaxInits

SerialIInv ==
    /\ TypeOK
    /\ LiveIsCurrent
    /\ SetWhileOpen
    /\ HeldCounted
    /\ InitPending

-----------------------------------------------------------------------------
(* The initial state, and the steps that do not depend on a single caller. *)

LEMMA InitSerial == Init => SerialIInv
<1> SUFFICES ASSUME Init PROVE SerialIInv
  OBVIOUS
<1>1. (CHOOSE n \in Devs : TRUE) \in Devs
  BY BlkDevAssumption
<1>2. TypeOK
  <2>1. cwr \in [Clients -> BOOLEAN] /\ cpc \in [Clients -> {"idle", "open", "info"}]
    BY Zenon DEF Init
  <2>2. blkopen \in [Devs -> 0..MaxRef] /\ ninit \in 0..MaxInits
    BY BlkDevAssumption DEF Init
  <2>3. blkdevs \in [Devs -> {NULL} \cup Handle] /\ live \in [Devs -> SUBSET Handle]
    BY DEF Init, NULL
  <2>4. cdev \in [Clients -> Devs] /\ held \in [Clients -> [Devs -> Nat]]
    BY <1>1 DEF Init
  <2> QED
    BY <2>1, <2>2, <2>3, <2>4 DEF TypeOK
<1>3. LiveIsCurrent /\ SetWhileOpen
  BY DEF Init, LiveIsCurrent, SetWhileOpen, NULL
<1>4. HeldCounted /\ InitPending
  BY DEF Init, HeldCounted, InitPending
<1> QED
  BY <1>2, <1>3, <1>4 DEF SerialIInv

\* devopen on an open slot: one more reference.
LEMMA BumpStep ==
    ASSUME SerialIInv, NEW c \in Clients, NEW n \in Devs, DevopenBump(c, n)
    PROVE  SerialIInv'
<1>1. blkopen' = [blkopen EXCEPT ![n] = @ + 1] /\ blkopen[n] # 0
      /\ blkopen[n] < MaxRef
      /\ UNCHANGED <<blkdevs, live, ninit, cpc, cdev, cwr, held>>
  BY DEF DevopenBump
<1>2. TypeOK'
  <2>1. blkopen' \in [Devs -> 0..MaxRef]
    BY <1>1, BlkDevAssumption DEF SerialIInv, TypeOK
  <2> QED
    BY <1>1, <2>1, Zenon DEF SerialIInv, TypeOK
<1>3. InitPending'
  BY <1>1 DEF SerialIInv, InitPending, TypeOK
<1> QED
  BY <1>1, <1>2, <1>3 DEF SerialIInv, LiveIsCurrent, SetWhileOpen, HeldCounted,
                          TypeOK

\* devopen on a closed slot enters init_blkfront.
LEMMA StartStep ==
    ASSUME SerialIInv, NEW c \in Clients, NEW n \in Devs,
           NEW kind \in {"open", "info"}, NEW wr \in BOOLEAN,
           IsFiniteSet(Clients), DevopenStart(c, n, kind, wr)
    PROVE  SerialIInv'
<1>1. /\ blkopen[n] = 0
      /\ cpc' = [cpc EXCEPT ![c] = kind]
      /\ cdev' = [cdev EXCEPT ![c] = n]
      /\ cwr' = [cwr EXCEPT ![c] = wr]
      /\ UNCHANGED <<blkopen, blkdevs, live, ninit, held>>
  BY DEF DevopenStart
<1>2. ninit < MaxInits
  <2>1. Cardinality({x \in Clients : cpc[x] # "idle"}) \in Nat
    BY FS_Subset, FS_CardinalityType
  <2> QED
    BY <2>1, BlkDevAssumption DEF DevopenStart, SerialIInv, TypeOK
<1>3. TypeOK'
  <2>1. cpc' \in [Clients -> {"idle", "open", "info"}]
    BY <1>1 DEF SerialIInv, TypeOK
  <2>2. cwr' \in [Clients -> BOOLEAN]
    BY <1>1 DEF SerialIInv, TypeOK
  <2> QED
    BY <1>1, <2>1, <2>2 DEF SerialIInv, TypeOK
<1>4. InitPending'
  BY <1>1, <1>2 DEF SerialIInv, InitPending, TypeOK
<1> QED
  BY <1>1, <1>3, <1>4 DEF SerialIInv, LiveIsCurrent, SetWhileOpen, HeldCounted

-----------------------------------------------------------------------------
(* A step that sets slot n's count, frontend and live set consistently,    *)
(* and keeps every held descriptor counted, keeps the slot invariants.     *)

SlotParts ==
    /\ blkopen \in [Devs -> 0..MaxRef]
    /\ blkdevs \in [Devs -> {NULL} \cup Handle]
    /\ live \in [Devs -> SUBSET Handle]
    /\ held \in [Clients -> [Devs -> Nat]]
    /\ LiveIsCurrent
    /\ SetWhileOpen
    /\ HeldCounted

LEMMA SlotUpdate ==
    ASSUME SerialIInv, NEW n \in Devs, NEW b \in 0..MaxRef,
           NEW d \in {NULL} \cup Handle, (d # NULL) <=> (b > 0),
           blkopen' = [blkopen EXCEPT ![n] = b],
           blkdevs' = [blkdevs EXCEPT ![n] = d],
           live' = [live EXCEPT ![n] = IF d = NULL THEN {} ELSE {d}],
           held' \in [Clients -> [Devs -> Nat]],
           \A c \in Clients, m \in Devs : held'[c][m] <= blkopen'[m]
    PROVE  SlotParts'
<1>1. blkopen' \in [Devs -> 0..MaxRef]
  BY DEF SerialIInv, TypeOK
<1>2. blkdevs' \in [Devs -> {NULL} \cup Handle]
  BY DEF SerialIInv, TypeOK
<1>3. live' \in [Devs -> SUBSET Handle]
  BY DEF SerialIInv, TypeOK, NULL, Handle
<1>4. LiveIsCurrent'
  BY DEF SerialIInv, TypeOK, LiveIsCurrent
<1>5. SetWhileOpen'
  BY DEF SerialIInv, TypeOK, SetWhileOpen
<1>6. HeldCounted'
  BY DEF HeldCounted
<1> QED
  BY <1>1, <1>2, <1>3, <1>4, <1>5, <1>6 DEF SlotParts

-----------------------------------------------------------------------------
(* The steps that rely on a single caller.                                 *)

\* init_blkfront returns to the only caller.
LEMMA InitReturnStep ==
    ASSUME SerialIInv, NEW c0, Clients = {c0}, NEW ok \in BOOLEAN,
           InitReturn(c0, ok)
    PROVE  SerialIInv'
<1> DEFINE n == cdev[c0]
           h == ninit + 1
<1>1. cpc[c0] # "idle" /\ n \in Devs
  BY DEF InitReturn, SerialIInv, TypeOK
<1>2. blkopen[n] = 0 /\ ninit < MaxInits
  BY <1>1 DEF SerialIInv, InitPending
<1>3. blkdevs[n] = NULL /\ live[n] = {}
  <2>1. blkdevs[n] = NULL
    <3>1. (blkdevs[n] # NULL) <=> (blkopen[n] > 0)
      BY <1>1 DEF SerialIInv, SetWhileOpen
    <3> QED
      BY <1>2, <3>1
  <2> QED
    BY <1>1, <2>1 DEF SerialIInv, LiveIsCurrent
<1>4. held[c0][n] = 0
  BY <1>1, <1>2 DEF SerialIInv, HeldCounted, TypeOK
<1>5. h \in Handle /\ ninit' = h
  BY <1>2, BlkDevAssumption DEF SerialIInv, TypeOK, Handle, InitReturn
<1>6. /\ cpc' = [cpc EXCEPT ![c0] = "idle"]
      /\ UNCHANGED <<cdev, cwr>>
  BY DEF InitReturn
<1>7. /\ ninit' \in 0..MaxInits
      /\ cpc' \in [Clients -> {"idle", "open", "info"}]
      /\ cdev' \in [Clients -> Devs]
      /\ cwr' \in [Clients -> BOOLEAN]
  <2>1. ninit' \in 0..MaxInits
    BY <1>5, BlkDevAssumption DEF Handle
  <2>2. cpc' \in [Clients -> {"idle", "open", "info"}]
    BY <1>6 DEF SerialIInv, TypeOK
  <2> QED
    BY <1>6, <2>1, <2>2, Zenon DEF SerialIInv, TypeOK
<1>8. InitPending'
  BY <1>6 DEF InitPending, SerialIInv, TypeOK
<1>9. SlotParts' => SerialIInv'
  BY <1>7, <1>8 DEF SerialIInv, TypeOK, SlotParts
<1>10. CASE ~ok
  <2>1. blkdevs' = [blkdevs EXCEPT ![n] = NULL]
        /\ UNCHANGED <<blkopen, live, held>>
    BY <1>10 DEF InitReturn
  <2>2. blkopen' = [blkopen EXCEPT ![n] = 0]
        /\ live' = [live EXCEPT ![n] = {}]
    BY <1>1, <1>2, <1>3, <2>1 DEF SerialIInv, TypeOK
  <2>3. \A c \in Clients, m \in Devs : held'[c][m] <= blkopen'[m]
    BY <2>1 DEF SerialIInv, HeldCounted
  <2>4. /\ 0 \in 0..MaxRef /\ NULL \in {NULL} \cup Handle
        /\ (NULL # NULL) <=> (0 > 0)
        /\ live' = [live EXCEPT ![n] = IF NULL = NULL THEN {} ELSE {NULL}]
        /\ held' \in [Clients -> [Devs -> Nat]]
    <3>1. /\ 0 \in 0..MaxRef /\ NULL \in {NULL} \cup Handle
          /\ (NULL # NULL) <=> (0 > 0)
      BY BlkDevAssumption
    <3>2. live' = [live EXCEPT ![n] = IF NULL = NULL THEN {} ELSE {NULL}]
      BY <2>2
    <3>3. held' \in [Clients -> [Devs -> Nat]]
      BY <2>1 DEF SerialIInv, TypeOK
    <3> QED
      BY <3>1, <3>2, <3>3
  <2>5. SlotParts'
    BY <1>1, <2>1, <2>2, <2>3, <2>4, SlotUpdate, Zenon
  <2> QED
    BY <1>9, <2>5
<1>11. CASE ok /\ cpc[c0] = "open"
  <2>1. /\ blkopen' = [blkopen EXCEPT ![n] = 1]
        /\ blkdevs' = [blkdevs EXCEPT ![n] = h]
        /\ live' = [live EXCEPT ![n] = @ \cup {h}]
        /\ held' \in {held, [held EXCEPT ![c0][n] = @ + 1]}
    BY <1>11 DEF InitReturn, Opened
  <2>2. h # NULL
    BY <1>5 DEF Handle, NULL
  <2>3. live' = [live EXCEPT ![n] = IF h = NULL THEN {} ELSE {h}]
    BY <1>1, <1>3, <2>1, <2>2
  <2>4. held' \in [Clients -> [Devs -> Nat]]
    BY <1>1, <2>1 DEF SerialIInv, TypeOK
  <2>5. \A c \in Clients, m \in Devs : held'[c][m] <= blkopen'[m]
    BY <1>1, <1>4, <2>1 DEF SerialIInv, TypeOK, HeldCounted
  <2>6. 1 \in 0..MaxRef
    BY BlkDevAssumption
  <2>7. /\ h \in {NULL} \cup Handle
        /\ (h # NULL) <=> (1 > 0)
    BY <1>5, <2>2
  <2>8. SlotParts'
    BY <1>1, <2>1, <2>3, <2>4, <2>5, <2>6, <2>7, SlotUpdate, Zenon
  <2> QED
    BY <1>9, <2>8
<1>12. CASE ok /\ cpc[c0] = "info"
  <2>1. /\ blkopen' = [blkopen EXCEPT ![n] = 0]
        /\ blkdevs' = [blkdevs EXCEPT ![n] = NULL]
        /\ live' = [live EXCEPT ![n] = {}]
        /\ held' = held
    <3>1. CloseEffect(Opened(blkopen, n), [blkdevs EXCEPT ![n] = h],
                      [live EXCEPT ![n] = @ \cup {h}], n)
      BY <1>12 DEF InitReturn
    <3> QED
      BY <1>1, <1>3, <1>12, <3>1 DEF InitReturn, Opened, CloseEffect,
         Shutdown, SerialIInv, TypeOK
  <2>2. \A c \in Clients, m \in Devs : held'[c][m] <= blkopen'[m]
    BY <1>1, <1>4, <2>1 DEF SerialIInv, TypeOK, HeldCounted
  <2>3. /\ 0 \in 0..MaxRef /\ NULL \in {NULL} \cup Handle
        /\ (NULL # NULL) <=> (0 > 0)
        /\ live' = [live EXCEPT ![n] = IF NULL = NULL THEN {} ELSE {NULL}]
        /\ held' \in [Clients -> [Devs -> Nat]]
    BY <2>1, BlkDevAssumption DEF SerialIInv, TypeOK
  <2>4. SlotParts'
    BY <1>1, <2>1, <2>2, <2>3, SlotUpdate, Zenon
  <2> QED
    BY <1>9, <2>4
<1>13. cpc[c0] \in {"open", "info"}
  BY <1>1 DEF SerialIInv, TypeOK
<1> QED
  BY <1>10, <1>11, <1>12, <1>13

\* rumpuser_close of a descriptor the only caller holds.
LEMMA CloseStep ==
    ASSUME SerialIInv, NEW c0, Clients = {c0}, NEW n \in Devs, Close(c0, n)
    PROVE  SerialIInv'
<1>1. /\ cpc[c0] = "idle"
      /\ held[c0][n] > 0
      /\ held' = [held EXCEPT ![c0][n] = @ - 1]
      /\ blkopen' = [blkopen EXCEPT ![n] = blkopen[n] - 1]
      /\ UNCHANGED <<ninit, cpc, cdev, cwr>>
  BY DEF Close, CloseEffect
<1>2. blkopen[n] \in 1..MaxRef /\ blkdevs[n] # NULL
      /\ live[n] = {blkdevs[n]} /\ blkdevs[n] \in Handle
  BY <1>1 DEF SerialIInv, HeldCounted, SetWhileOpen, LiveIsCurrent, TypeOK
<1>3. held' \in [Clients -> [Devs -> Nat]]
  BY <1>1 DEF SerialIInv, TypeOK
<1>4. \A c \in Clients, m \in Devs : held'[c][m] <= blkopen'[m]
  BY <1>1, <1>2 DEF SerialIInv, TypeOK, HeldCounted
<1>5. SlotParts' => SerialIInv'
  <2>1. InitPending'
    BY <1>1 DEF InitPending, SerialIInv, TypeOK
  <2> QED
    BY <1>1, <2>1, Zenon DEF SerialIInv, TypeOK, SlotParts
<1>6. CASE blkopen[n] = 1
  <2>1. blkdevs' = [blkdevs EXCEPT ![n] = NULL]
        /\ live' = [live EXCEPT ![n] = @ \ {blkdevs[n]}]
    BY <1>6 DEF Close, CloseEffect, Shutdown
  <2>2. /\ blkopen' = [blkopen EXCEPT ![n] = 0]
        /\ live' = [live EXCEPT ![n] = IF NULL = NULL THEN {} ELSE {NULL}]
    <3>1. live[n] \ {blkdevs[n]} = {}
      BY <1>2
    <3>2. blkopen[n] - 1 = 0
      BY <1>6
    <3> QED
      BY <1>1, <2>1, <3>1, <3>2
  <2>3. /\ 0 \in 0..MaxRef /\ NULL \in {NULL} \cup Handle
        /\ (NULL # NULL) <=> (0 > 0)
    BY BlkDevAssumption
  <2>4. SlotParts'
    BY <1>3, <1>4, <2>1, <2>2, <2>3, SlotUpdate, Zenon
  <2> QED
    BY <1>5, <2>4
<1>7. CASE blkopen[n] # 1
  <2> DEFINE d == blkdevs[n]
  <2>1. UNCHANGED <<blkdevs, live>>
    BY <1>2, <1>7 DEF Close, CloseEffect
  <2>2. /\ blkdevs' = [blkdevs EXCEPT ![n] = d]
        /\ live' = [live EXCEPT ![n] = IF d = NULL THEN {} ELSE {d}]
    BY <1>2, <2>1 DEF SerialIInv, TypeOK
  <2>3. /\ blkopen[n] - 1 \in 0..MaxRef /\ d \in {NULL} \cup Handle
        /\ (d # NULL) <=> (blkopen[n] - 1 > 0)
    BY <1>2, <1>7, BlkDevAssumption
  <2>4. SlotParts'
    BY <1>1, <1>3, <1>4, <2>2, <2>3, SlotUpdate, Zenon
  <2> QED
    BY <1>5, <2>4
<1> QED
  BY <1>6, <1>7

-----------------------------------------------------------------------------
(* Every step keeps SerialIInv when one rump thread makes the calls.       *)

LEMMA NextSerial ==
    ASSUME NEW c0, Clients = {c0}
    PROVE  SerialIInv /\ [Next]_vars => SerialIInv'
<1> SUFFICES ASSUME SerialIInv, [Next]_vars PROVE SerialIInv'
  OBVIOUS
<1>1. IsFiniteSet(Clients)
  BY FS_Singleton
<1>2. ASSUME NEW c \in Clients, NEW n \in Devs, DevopenBump(c, n)
      PROVE  SerialIInv'
  BY <1>2, BumpStep
<1>3. ASSUME NEW c \in Clients, NEW n \in Devs,
             NEW kind \in {"open", "info"}, NEW wr \in BOOLEAN,
             DevopenStart(c, n, kind, wr)
      PROVE  SerialIInv'
  BY <1>1, <1>3, StartStep
<1>4. ASSUME NEW c \in Clients, NEW n \in Devs, NEW wr \in BOOLEAN,
             Open(c, n, wr)
      PROVE  SerialIInv'
  BY <1>2, <1>3, <1>4 DEF Open
<1>5. ASSUME NEW c \in Clients, NEW n \in Devs, GetFileInfo(c, n)
      PROVE  SerialIInv'
  <2>1. FALSE \in BOOLEAN
    OBVIOUS
  <2> QED
    BY <1>2, <1>3, <1>5, <2>1 DEF GetFileInfo
<1>6. ASSUME NEW n \in Devs, Close(c0, n) PROVE SerialIInv'
  BY <1>6, CloseStep
<1>7. ASSUME NEW ok \in BOOLEAN, InitReturn(c0, ok) PROVE SerialIInv'
  BY <1>7, InitReturnStep
<1>8. CASE UNCHANGED vars
  BY <1>8 DEF vars, SerialIInv, TypeOK, LiveIsCurrent, SetWhileOpen,
     HeldCounted, InitPending
<1>9. ASSUME NEW c \in Clients, Rejected(c) PROVE SerialIInv'
  BY <1>8, <1>9 DEF Rejected
<1> QED
  BY <1>4, <1>5, <1>6, <1>7, <1>8, <1>9 DEF Next

\* The invariant gives the two table properties.
LEMMA SerialProperties ==
    SerialIInv => TypeOK /\ HeldHasFrontend /\ FrontendsAccounted
<1> SUFFICES ASSUME SerialIInv PROVE TypeOK /\ HeldHasFrontend /\ FrontendsAccounted
  OBVIOUS
<1>1. HeldHasFrontend
  <2> SUFFICES ASSUME NEW c \in Clients, NEW n \in Devs, held[c][n] > 0
               PROVE  blkdevs[n] \in live[n]
    BY DEF HeldHasFrontend
  <2>1. blkopen[n] > 0
    BY DEF SerialIInv, HeldCounted, TypeOK
  <2>2. blkdevs[n] # NULL
    BY <2>1 DEF SerialIInv, SetWhileOpen
  <2> QED
    BY <2>2 DEF SerialIInv, LiveIsCurrent
<1>2. FrontendsAccounted
  BY DEF SerialIInv, LiveIsCurrent, SetWhileOpen, FrontendsAccounted
<1> QED
  BY <1>1, <1>2 DEF SerialIInv

-----------------------------------------------------------------------------
(* Theorems, for one rump thread calling the hypercalls.                   *)

\* SerialIInv holds in every state reached when one thread makes the calls.
LEMMA SerialInvariant ==
    ASSUME NEW c0, Clients = {c0}
    PROVE  Spec => []SerialIInv
BY InitSerial, NextSerial, PTL DEF Spec

\* With one caller, the table is well typed: in particular rumpuser_close
\* never drives blkopen[n] below zero and the count stays within MaxRef.
THEOREM BlkDevTypeCorrect ==
    ASSUME NEW c0, Clients = {c0}
    PROVE  Spec => []TypeOK
BY SerialInvariant, SerialProperties, PTL

\* With one caller, every descriptor rumpuser_open returned and that is
\* not closed refers to a live frontend, the one rumpuser_bio will use.
THEOREM HeldHasFrontendSerial ==
    ASSUME NEW c0, Clients = {c0}
    PROVE  Spec => []HeldHasFrontend
BY SerialInvariant, SerialProperties, PTL

\* With one caller, devopen, rumpuser_getfileinfo and rumpuser_close never
\* leak a frontend, and blkdevs[n] is set exactly while blkopen[n] > 0.
THEOREM FrontendsAccountedSerial ==
    ASSUME NEW c0, Clients = {c0}
    PROVE  Spec => []FrontendsAccounted
BY SerialInvariant, SerialProperties, PTL

=============================================================================
