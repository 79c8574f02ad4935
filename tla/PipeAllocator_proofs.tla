------------------------ MODULE PipeAllocator_proofs -------------------------
(***************************************************************************)
(* Proofs about the allocator, for every number of open files, rings and   *)
(* pipes.                                                                  *)
(*                                                                         *)
(* Rings: RingInv is types, mutual exclusion by the device semaphore, what *)
(* the pending calls on rings refer to, and the partition of the marked    *)
(* rings among their owners.                                               *)
(*                                                                         *)
(* Pipes, with one caller at a time: PipeInv says the same of pipes, whose *)
(* bits are loaded and stored in separate steps.  FbInv adds that the      *)
(* fallback pipes are those below the device's count of them, and SteerInv *)
(* that the flow director was told the present count, unless a call is on  *)
(* its way to tell it.                                                     *)
(***************************************************************************)
EXTENDS PipeAllocator, Arithmetic, FiniteSetTheorems, TLAPS

-----------------------------------------------------------------------------
(* Smallest and largest members.                                            *)

LEMMA MinNat ==
  ASSUME NEW S, S \subseteq Nat, S # {}
  PROVE  Min(S) \in S /\ \A y \in S : Min(S) <= y
BY LeastNatural DEF Min

LEMMA MaxPipe ==
  ASSUME NEW S, S \subseteq Pipes, S # {}
  PROVE  Max(S) \in S /\ \A y \in S : y <= Max(S)
<1> DEFINE T == {NbPipes - x : x \in S}
<1>1. T \subseteq Nat /\ T # {}
  BY AllocatorSizes DEF Pipes
<1>2. Min(T) \in T /\ \A y \in T : Min(T) <= y
  BY <1>1, MinNat
<1>3. PICK x \in S : Min(T) = NbPipes - x
  BY <1>2
<1>4. \A y \in S : x >= y
  <2> TAKE y \in S
  <2>1. NbPipes - x <= NbPipes - y
    BY <1>2, <1>3
  <2> QED BY <2>1, AllocatorSizes DEF Pipes
<1> HIDE DEF T
<1> QED BY <1>4 DEF Max

LEMMA ModWord ==
  ASSUME NEW x \in Int
  PROVE  x % Word \in 0 .. Word - 1
BY AllocatorSizes, Z3

-----------------------------------------------------------------------------
(* Type correctness.                                                        *)

\* What a call that has chosen a ring or a pipe works on.
ArgOK ==
  \A f \in Handles :
    /\ pc[f] = "take" => arg[f] \in Rings
    /\ pc[f] \in {"mark", "store"} => arg[f] \in Pipes

TypeInv == TypeOK /\ ArgOK

LEMMA InitType == Init => TypeInv
<1> SUFFICES ASSUME Init PROVE TypeInv
  OBVIOUS
<1>0. 0 \in 0 .. Word - 1 /\ NoConfig \in Configs
  BY AllocatorSizes DEF NoConfig, Configs
<1>1. TypeOK
  BY <1>0 DEF Init, SemUnits, TypeOK, PCs, Ops
<1>2. ArgOK
  BY DEF Init, ArgOK
<1> QED BY <1>1, <1>2 DEF TypeInv

LEMMA EnterType ==
  ASSUME TypeInv, NEW f \in Handles, NEW from, NEW o \in Ops, NEW x \in Nat,
         Enter(f, from, o, x), cfg' \in [Handles -> Configs]
  PROVE  TypeInv'
<1>1. TypeOK'
  BY DEF TypeInv, TypeOK, Enter, devVars, ownVars, histVars, PCs
<1>2. ArgOK'
  BY DEF TypeInv, TypeOK, ArgOK, Enter
<1> QED BY <1>1, <1>2 DEF TypeInv

LEMMA ReturnsType ==
  ASSUME TypeInv, NEW f \in Handles, Up(f, "idle"),
         UNCHANGED <<devVars, ownVars, seen, cfg, nic, histVars>>
  PROVE  TypeInv'
<1>1. TypeOK'
  BY DEF TypeInv, TypeOK, Up, Return, devVars, ownVars, histVars, PCs, Ops
<1>2. ArgOK'
  BY DEF TypeInv, TypeOK, ArgOK, Up, Return
<1> QED BY <1>1, <1>2 DEF TypeInv

LEMMA NextType == TypeInv /\ [Next]_vars => TypeInv'
<1> SUFFICES ASSUME TypeInv, [Next]_vars PROVE TypeInv'
  OBVIOUS
<1> USE DEF devVars, ownVars, callVars, histVars
<1>0. TypeOK /\ ArgOK /\ Rings \subseteq Nat /\ Pipes \subseteq Nat
  BY AllocatorSizes DEF Rings, Pipes, TypeInv
<1>1. ASSUME NEW f \in Handles, Open(f) PROVE TypeInv'
  BY <1>0, <1>1, EnterType DEF Open, TypeOK, Ops
<1>2. ASSUME NEW f \in Handles, AllocateNotifBuf(f) PROVE TypeInv'
  BY <1>0, <1>2, EnterType DEF AllocateNotifBuf, TypeOK, Ops
<1>3. ASSUME NEW f \in Handles, FreeNotifBuf(f) PROVE TypeInv'
  <2>1. PICK r \in own_rings[f] : Enter(f, "idle", "free_notif_buffer", r)
    BY <1>3 DEF FreeNotifBuf
  <2>2. r \in Nat
    BY <1>0, <1>3 DEF TypeOK
  <2> QED BY <1>0, <1>3, <2>1, <2>2, EnterType DEF FreeNotifBuf, TypeOK, Ops
<1>4. ASSUME NEW f \in Handles, Close(f) PROVE TypeInv'
  BY <1>0, <1>4, EnterType DEF Close, TypeOK, Ops
<1>5. ASSUME NEW f \in Handles, NEW o \in {"alloc_fb", "alloc_pipe"},
             AllocatePipe(f, o)
      PROVE  TypeInv'
  <2>1. o \in Ops /\ cfg' \in [Handles -> Configs]
    BY <1>0, <1>5 DEF AllocatePipe, TypeOK, Ops
  <2> QED BY <1>5, <2>1, EnterType DEF AllocatePipe
<1>6. ASSUME NEW f \in Handles, NEW p \in Pipes, FreePipe(f, p) PROVE TypeInv'
  BY <1>0, <1>6, EnterType DEF FreePipe, TypeOK, Ops
<1>7. ASSUME NEW f \in Handles, NEW o \in {"set_rr", "clear_rr"},
             SetRoundRobin(f, o)
      PROVE  TypeInv'
  <2>1. [nb |-> nb_fb_queues, rr |-> o = "set_rr"] \in Configs
    BY <1>0 DEF TypeOK, Configs
  <2>2. cfg' \in [Handles -> Configs]
    BY <1>0, <1>7, <2>1 DEF SetRoundRobin, TypeOK
  <2> QED BY <1>0, <1>7, <2>2, EnterType DEF SetRoundRobin, Ops
<1>8. ASSUME NEW f \in Handles, Down(f) PROVE TypeInv'
  BY <1>0, <1>8 DEF Down, TypeInv, TypeOK, ArgOK, PCs
<1>9. ASSUME NEW f \in Handles, Interrupted(f) PROVE TypeInv'
  <2>1. (lost.fb + own_fb[f]) % Word \in 0 .. Word - 1
    BY <1>0, ModWord DEF TypeOK
  <2>2. lost' \in [rings : SUBSET Rings, pipes : SUBSET Pipes, fb : 0 .. Word - 1]
    BY <1>0, <1>9, <2>1 DEF Interrupted, TypeOK
  <2>3. TypeOK'
    BY <1>0, <1>9, <2>2, AllocatorSizes DEF Interrupted, Return, TypeOK, PCs, Ops
  <2>4. ArgOK'
    BY <1>0, <1>9 DEF Interrupted, Return, TypeOK, ArgOK
  <2> QED BY <2>3, <2>4 DEF TypeInv
<1>10. ASSUME NEW f \in Handles, CallStep(f) PROVE TypeInv'
  <2>0. sem + 1 \in Nat
    BY <1>0 DEF TypeOK
  <2>1. CASE chr_open(f)
    BY <2>1, ReturnsType DEF chr_open
  <2>2. CASE alloc_notif_buffer(f)
    <3>1. CASE FreeRings # {}
      <4>1. Min(FreeRings) \in Rings
        BY <1>0, <3>1, MinNat DEF FreeRings
      <4> QED BY <1>0, <2>2, <3>1, <4>1
              DEF alloc_notif_buffer, TypeInv, TypeOK, ArgOK, PCs
    <3>2. CASE FreeRings = {}
      BY <2>2, <3>2, ReturnsType DEF alloc_notif_buffer
    <3> QED BY <3>1, <3>2
  <2>3. CASE TakeRing(f)
    BY <1>0, <2>0, <2>3 DEF TakeRing, Up, Return, TypeInv, TypeOK, ArgOK, PCs, Ops
  <2>4. CASE free_notif_buffer(f)
    BY <1>0, <2>0, <2>4 DEF free_notif_buffer, TypeInv, TypeOK, ArgOK, PCs, Ops
  <2>5. CASE alloc_fb(f)
    <3>1. CASE Unmarked # {} /\ Min(Unmarked) = nb_fb_queues
      <4>1. Min(Unmarked) \in Pipes
        BY <1>0, <3>1, MinNat DEF Unmarked
      <4>2. /\ (nb_fb_queues + 1) % Word \in 0 .. Word - 1
            /\ (own_fb[f] + 1) % Word \in 0 .. Word - 1
        BY <1>0, ModWord DEF TypeOK
      <4>3. TypeOK'
        <5>1. /\ nb_fb_queues' \in 0 .. Word - 1
              /\ own_fb' \in [Handles -> 0 .. Word - 1]
          BY <1>0, <2>5, <3>1, <4>2 DEF alloc_fb, TypeOK
        <5>2. arg' \in [Handles -> Nat] /\ pc' \in [Handles -> PCs]
          BY <1>0, <2>5, <3>1, <4>1 DEF alloc_fb, TypeOK, PCs
        <5> QED BY <1>0, <2>5, <3>1, <5>1, <5>2 DEF alloc_fb, TypeOK
      <4>4. ArgOK'
        BY <1>0, <2>5, <3>1, <4>1 DEF alloc_fb, TypeOK, ArgOK
      <4> QED BY <4>3, <4>4 DEF TypeInv
    <3>2. CASE ~(Unmarked # {} /\ Min(Unmarked) = nb_fb_queues)
      BY <2>5, <3>2, ReturnsType DEF alloc_fb
    <3> QED BY <3>1, <3>2
  <2>6. CASE alloc_pipe(f)
    <3>1. CASE Unmarked # {}
      <4>1. Max(Unmarked) \in Pipes
        BY <1>0, <3>1, MaxPipe DEF Unmarked
      <4> QED BY <1>0, <2>0, <2>6, <3>1, <4>1
              DEF alloc_pipe, TypeInv, TypeOK, ArgOK, PCs
    <3>2. CASE Unmarked = {}
      BY <2>6, <3>2, ReturnsType DEF alloc_pipe
    <3> QED BY <3>1, <3>2
  <2>7. CASE MarkLoad(f)
    BY <1>0, <2>7 DEF MarkLoad, TypeInv, TypeOK, ArgOK, PCs
  <2>8. CASE MarkStore(f)
    BY <1>0, <2>8 DEF MarkStore, StoreByte, TypeInv, TypeOK, ArgOK, PCs
  <2>9. CASE free_pipe(f)
    BY <1>0, <2>9 DEF free_pipe, TypeInv, TypeOK, ArgOK, PCs
  <2>10. CASE FreeStore(f)
    <3> DEFINE n == IF arg[f] < nb_fb_queues THEN 1 ELSE 0
    <3>1. /\ (nb_fb_queues - n) % Word \in 0 .. Word - 1
          /\ (own_fb[f] - n) % Word \in 0 .. Word - 1
      BY <1>0, ModWord DEF TypeOK
    <3>2. /\ nb_fb_queues' = (nb_fb_queues - n) % Word
          /\ own_fb' = [own_fb EXCEPT ![f] = (@ - n) % Word]
      BY <2>10 DEF FreeStore
    <3> HIDE DEF n
    <3> QED BY <1>0, <2>0, <2>10, <3>1, <3>2, ZenonT(40)
            DEF FreeStore, StoreByte, TypeInv, TypeOK, ArgOK, PCs
  <2>11. CASE chr_release(f)
    BY <1>0, <2>11 DEF chr_release, TypeInv, TypeOK, ArgOK, PCs
  <2>12. CASE ReleaseLoad(f)
    BY <1>0, <2>12 DEF ReleaseLoad, TypeInv, TypeOK, ArgOK, PCs
  <2>13. CASE ReleaseStore(f)
    <3>1. TypeOK'
      <4>1. pipe_status' \subseteq Pipes /\ seen' \in [Handles -> SUBSET Pipes]
        BY <1>0, <2>13 DEF ReleaseStore, StoreByte, TypeOK
      <4>2. arg' \in [Handles -> Nat] /\ pc' \in [Handles -> PCs]
        BY <1>0, <2>13 DEF ReleaseStore, TypeOK, PCs
      <4> QED BY <1>0, <2>13, <4>1, <4>2 DEF ReleaseStore, TypeOK
    <3>2. ArgOK'
      BY <1>0, <2>13
      DEF ReleaseStore, TypeOK, ArgOK
    <3> QED BY <3>1, <3>2 DEF TypeInv
  <2>14. CASE ReleaseDone(f)
    <3>1. (nb_fb_queues - own_fb[f]) % Word \in 0 .. Word - 1
      BY <1>0, ModWord DEF TypeOK
    <3>2. TypeOK'
      <4>1. /\ nb_fb_queues' \in 0 .. Word - 1
            /\ own_fb' \in [Handles -> 0 .. Word - 1]
        BY <1>0, <2>14, <3>1, AllocatorSizes DEF ReleaseDone, TypeOK
      <4>2. /\ pc' \in [Handles -> PCs] /\ op' \in [Handles -> Ops]
            /\ arg' \in [Handles -> Nat] /\ own_pipes' \in [Handles -> SUBSET Pipes]
        BY <1>0, <2>14 DEF ReleaseDone, Up, Return, TypeOK, PCs, Ops
      <4> QED BY <1>0, <2>0, <2>14, <4>1, <4>2 DEF ReleaseDone, Up, TypeOK
    <3>3. ArgOK'
      BY <1>0, <2>14 DEF ReleaseDone, Up, Return, TypeOK, ArgOK
    <3> QED BY <3>2, <3>3 DEF TypeInv
  <2>15. CASE set_rr_status(f)
    BY <1>0, <2>15 DEF set_rr_status, TypeInv, TypeOK, ArgOK, PCs
  <2>16. CASE get_rr_status(f)
    BY <1>0, <2>16 DEF get_rr_status, TypeInv, TypeOK, ArgOK, PCs, Configs
  <2>17. CASE get_nb_fallback_queues(f)
    BY <1>0, <2>17
    DEF get_nb_fallback_queues, TypeInv, TypeOK, ArgOK, PCs, Configs
  <2>18. CASE SendConfig(f)
    <3>1. NoConfig \in Configs
      BY AllocatorSizes DEF NoConfig, Configs
    <3>2. TypeOK'
      BY <1>0, <2>18, <3>1 DEF SendConfig, Return, TypeOK, PCs, Ops
    <3>3. ArgOK'
      BY <1>0, <2>18 DEF SendConfig, Return, TypeOK, ArgOK
    <3> QED BY <3>2, <3>3 DEF TypeInv
  <2> QED BY <1>10, <2>1, <2>2, <2>3, <2>4, <2>5, <2>6, <2>7, <2>8, <2>9,
             <2>10, <2>11, <2>12, <2>13, <2>14, <2>15, <2>16, <2>17, <2>18
          DEF CallStep
<1>11. CASE UNCHANGED vars
  BY <1>0, <1>11 DEF vars, TypeInv, TypeOK, ArgOK
<1> QED BY <1>1, <1>2, <1>3, <1>4, <1>5, <1>6, <1>7, <1>8, <1>9, <1>10, <1>11
        DEF Next

\* Every variable of the allocator keeps its type, however calls, closes and
\* interrupted waits of any number of processes interleave.
THEOREM TypeCorrect == Spec => []TypeOK
<1>1. TypeInv => TypeOK
  BY DEF TypeInv
<1> QED BY <1>1, InitType, NextType, PTL DEF Spec
-----------------------------------------------------------------------------
(* The device semaphore and the notification rings.                         *)

\* Where a thread holds the semaphore.
Critical == {"locked", "take", "unmark", "release", "released"}

Mutex ==
  /\ sem <= 1
  /\ \A f \in Handles :
       pc[f] \in Critical => sem = 0 /\ \A g \in Handles \ {f} : pc[g] \notin Critical

\* The ring a scan found is still free, and the one being freed is the caller's.
CallOK ==
  \A f \in Handles :
    /\ pc[f] = "take" => arg[f] \notin notif_q_status
    /\ op[f] = "free_notif_buffer" =>
         pc[f] \in {"down", "locked"} /\ arg[f] \in own_rings[f]

\* The marked rings, each with one owner or lost.
Partition ==
  /\ RingExclusive
  /\ \A r \in notif_q_status :
       r \in lost.rings \/ \E f \in Handles : r \in own_rings[f]
  /\ lost.rings \subseteq notif_q_status
  /\ \A f \in Handles : own_rings[f] \cap lost.rings = {}

RingInv == TypeInv /\ Mutex /\ CallOK /\ Partition

LEMMA InitRing ==
  ASSUME ~DMA_SUPPORTED
  PROVE  Init => RingInv
<1> SUFFICES ASSUME Init PROVE RingInv
  OBVIOUS
<1>1. Mutex
  BY DEF Init, Mutex, Critical, SemUnits
<1>2. CallOK
  BY DEF Init, CallOK
<1>3. Partition
  BY DEF Init, Partition, RingExclusive
<1> QED BY <1>1, <1>2, <1>3, InitType DEF RingInv

LEMMA NextMutex == TypeInv /\ Mutex /\ [Next]_vars => Mutex'
<1> SUFFICES ASSUME TypeInv, Mutex, [Next]_vars PROVE Mutex'
  OBVIOUS
<1> USE DEF TypeInv, TypeOK, Mutex, Critical
<1>1. ASSUME NEW f \in Handles, NEW from \in {"closed", "idle"}, NEW o, NEW x,
             Enter(f, from, o, x)
      PROVE  Mutex'
  BY <1>1 DEF Enter
<1>2. ASSUME NEW f \in Handles, Down(f) PROVE Mutex'
  BY <1>2 DEF Down
<1>3. ASSUME NEW f \in Handles, Interrupted(f) PROVE Mutex'
  BY <1>3 DEF Interrupted, Return
<1>4. ASSUME NEW f \in Handles, CallStep(f) PROVE Mutex'
  <2>1. CASE chr_open(f)
    BY <2>1 DEF chr_open, Up, Return, Locked
  <2>2. CASE alloc_notif_buffer(f)
    BY <2>2 DEF alloc_notif_buffer, Up, Return, Locked
  <2>3. CASE TakeRing(f)
    BY <2>3 DEF TakeRing, Up, Return
  <2>4. CASE free_notif_buffer(f)
    BY <2>4 DEF free_notif_buffer, Locked
  <2>5. CASE alloc_fb(f)
    BY <2>5 DEF alloc_fb, Up, Return, Locked
  <2>6. CASE alloc_pipe(f)
    BY <2>6 DEF alloc_pipe, Up, Return, Locked
  <2>7. CASE MarkLoad(f)
    BY <2>7 DEF MarkLoad
  <2>8. CASE MarkStore(f)
    BY <2>8 DEF MarkStore
  <2>9. CASE free_pipe(f)
    BY <2>9 DEF free_pipe, Locked
  <2>10. CASE FreeStore(f)
    BY <2>10 DEF FreeStore
  <2>11. CASE chr_release(f)
    BY <2>11 DEF chr_release, Locked
  <2>12. CASE ReleaseLoad(f)
    BY <2>12 DEF ReleaseLoad
  <2>13. CASE ReleaseStore(f)
    BY <2>13 DEF ReleaseStore
  <2>14. CASE ReleaseDone(f)
    BY <2>14 DEF ReleaseDone, Up, Return
  <2>15. CASE set_rr_status(f)
    BY <2>15 DEF set_rr_status
  <2>16. CASE get_rr_status(f)
    BY <2>16 DEF get_rr_status
  <2>17. CASE get_nb_fallback_queues(f)
    BY <2>17 DEF get_nb_fallback_queues
  <2>18. CASE SendConfig(f)
    BY <2>18 DEF SendConfig, Return
  <2> QED BY <1>4, <2>1, <2>2, <2>3, <2>4, <2>5, <2>6, <2>7, <2>8, <2>9,
             <2>10, <2>11, <2>12, <2>13, <2>14, <2>15, <2>16, <2>17, <2>18
          DEF CallStep
<1>5. CASE UNCHANGED vars
  BY <1>5 DEF vars
<1> QED BY <1>1, <1>2, <1>3, <1>4, <1>5
        DEF Next, Open, AllocateNotifBuf, FreeNotifBuf, Close, AllocatePipe,
            FreePipe, SetRoundRobin

\* A step that leaves the rings alone keeps their partition.
LEMMA Untouched ==
  ASSUME Partition, UNCHANGED <<notif_q_status, own_rings, lost>>
  PROVE  Partition'
BY DEF Partition, RingExclusive

LEMMA NextRings == RingInv /\ [Next]_vars => CallOK' /\ Partition'
<1> SUFFICES ASSUME RingInv, [Next]_vars PROVE CallOK' /\ Partition'
  OBVIOUS
<1> USE DEF devVars, ownVars, callVars, histVars
<1>0. TypeOK /\ Mutex /\ CallOK /\ Partition
  BY DEF RingInv, TypeInv
<1>1. ASSUME NEW f \in Handles, NEW from \in {"closed", "idle"}, NEW o, NEW x,
             Enter(f, from, o, x),
             o = "free_notif_buffer" => x \in own_rings[f]
      PROVE  CallOK' /\ Partition'
  BY <1>0, <1>1, Untouched DEF Enter, CallOK, TypeOK
<1>2. ASSUME NEW f \in Handles, Down(f) PROVE CallOK' /\ Partition'
  BY <1>0, <1>2, Untouched DEF Down, CallOK, TypeOK
<1>3. ASSUME NEW f \in Handles, Interrupted(f) PROVE CallOK' /\ Partition'
  <2>1. /\ lost'.rings = lost.rings \cup own_rings[f]
        /\ own_rings' = [own_rings EXCEPT ![f] = {}]
        /\ notif_q_status' = notif_q_status
    BY <1>3 DEF Interrupted
  <2>2. CallOK'
    BY <1>0, <1>3 DEF Interrupted, Return, CallOK, TypeOK
  <2>3. Partition'
    BY <1>0, <2>1 DEF Partition, RingExclusive, TypeOK
  <2> QED BY <2>2, <2>3
<1>4. ASSUME NEW f \in Handles, CallStep(f) PROVE CallOK' /\ Partition'
  <2>1. CASE chr_open(f)
    BY <1>0, <2>1, Untouched DEF chr_open, Up, Return, Locked, CallOK, TypeOK
  <2>2. CASE alloc_notif_buffer(f)
    <3>1. FreeRings # {} => Min(FreeRings) \notin notif_q_status
      <4>1. FreeRings \subseteq Nat
        BY AllocatorSizes DEF FreeRings, Rings
      <4> QED BY <4>1, MinNat DEF FreeRings
    <3>2. CallOK'
      BY <1>0, <2>2, <3>1
      DEF alloc_notif_buffer, Locked, Up, Return, CallOK, TypeOK
    <3> QED BY <1>0, <2>2, <3>2, Untouched DEF alloc_notif_buffer
  <2>3. CASE TakeRing(f)
    <3>1. /\ notif_q_status' = notif_q_status \cup {arg[f]}
          /\ own_rings' = [own_rings EXCEPT ![f] = @ \cup {arg[f]}]
          /\ lost' = lost /\ pc[f] = "take" /\ arg[f] \notin notif_q_status
      BY <1>0, <2>3 DEF TakeRing, CallOK
    <3>2. \A g \in Handles \ {f} : pc[g] # "take"
      BY <1>0, <3>1 DEF Mutex, Critical
    <3>3. CallOK'
      BY <1>0, <2>3, <3>1, <3>2 DEF TakeRing, Up, Return, CallOK, TypeOK
    <3>4. Partition'
      BY <1>0, <3>1 DEF Partition, RingExclusive, TypeOK
    <3> QED BY <3>3, <3>4
  <2>4. CASE free_notif_buffer(f)
    <3>1. /\ notif_q_status' = notif_q_status \ {arg[f]}
          /\ own_rings' = [own_rings EXCEPT ![f] = @ \ {arg[f]}]
          /\ lost' = lost /\ pc[f] = "locked" /\ arg[f] \in own_rings[f]
      BY <1>0, <2>4 DEF free_notif_buffer, Locked, CallOK
    <3>2. CallOK'
      BY <1>0, <2>4, <3>1 DEF free_notif_buffer, CallOK, TypeOK
    <3>3. Partition'
      BY <1>0, <3>1 DEF Partition, RingExclusive, TypeOK
    <3> QED BY <3>2, <3>3
  <2>5. CASE alloc_fb(f)
    BY <1>0, <2>5, Untouched DEF alloc_fb, Up, Return, Locked, CallOK, TypeOK
  <2>6. CASE alloc_pipe(f)
    BY <1>0, <2>6, Untouched
    DEF alloc_pipe, Up, Return, Locked, CallOK, TypeOK
  <2>7. CASE MarkLoad(f)
    BY <1>0, <2>7, Untouched DEF MarkLoad, CallOK, TypeOK
  <2>8. CASE MarkStore(f)
    BY <1>0, <2>8, Untouched DEF MarkStore, CallOK, TypeOK
  <2>9. CASE free_pipe(f)
    BY <1>0, <2>9, Untouched DEF free_pipe, Locked, CallOK, TypeOK
  <2>10. CASE FreeStore(f)
    BY <1>0, <2>10, Untouched DEF FreeStore, CallOK, TypeOK
  <2>11. CASE chr_release(f)
    <3>1. /\ notif_q_status' = notif_q_status \ own_rings[f]
          /\ own_rings' = [own_rings EXCEPT ![f] = {}]
          /\ lost' = lost
      BY <2>11 DEF chr_release
    <3>2. CallOK'
      BY <1>0, <2>11 DEF chr_release, Locked, CallOK, TypeOK
    <3>3. Partition'
      BY <1>0, <3>1 DEF Partition, RingExclusive, TypeOK
    <3> QED BY <3>2, <3>3
  <2>12. CASE ReleaseLoad(f)
    BY <1>0, <2>12, Untouched DEF ReleaseLoad, CallOK, TypeOK
  <2>13. CASE ReleaseStore(f)
    BY <1>0, <2>13, Untouched DEF ReleaseStore, CallOK, TypeOK
  <2>14. CASE ReleaseDone(f)
    BY <1>0, <2>14, Untouched DEF ReleaseDone, Up, Return, CallOK, TypeOK
  <2>15. CASE set_rr_status(f)
    BY <1>0, <2>15, Untouched DEF set_rr_status, CallOK, TypeOK
  <2>16. CASE get_rr_status(f)
    BY <1>0, <2>16, Untouched DEF get_rr_status, CallOK, TypeOK
  <2>17. CASE get_nb_fallback_queues(f)
    BY <1>0, <2>17, Untouched DEF get_nb_fallback_queues, CallOK, TypeOK
  <2>18. CASE SendConfig(f)
    BY <1>0, <2>18, Untouched DEF SendConfig, Return, CallOK, TypeOK
  <2> QED BY <1>4, <2>1, <2>2, <2>3, <2>4, <2>5, <2>6, <2>7, <2>8, <2>9,
             <2>10, <2>11, <2>12, <2>13, <2>14, <2>15, <2>16, <2>17, <2>18
          DEF CallStep
<1>5. CASE UNCHANGED vars
  BY <1>0, <1>5, Untouched DEF vars, CallOK
<1> QED BY <1>1, <1>2, <1>3, <1>4, <1>5
        DEF Next, Open, AllocateNotifBuf, FreeNotifBuf, Close, AllocatePipe,
            FreePipe, SetRoundRobin

\* The semaphore excludes, pending calls refer to what they may change, and every
\* marked ring has exactly one owner or was lost, after any steps of any number
\* of processes, in a driver whose semaphore has one unit.
THEOREM RingInvariant ==
  ASSUME ~DMA_SUPPORTED
  PROVE  Spec => []RingInv
<1>1. RingInv /\ [Next]_vars => RingInv'
  BY NextType, NextMutex, NextRings DEF RingInv
<1> QED BY <1>1, InitRing, PTL DEF Spec

\* No two open files ever have the same notification ring, and a ring is marked
\* for as long as it has an owner, for any number of processes that open, close
\* and die at any time: alloc_notif_buffer, free_notif_buffer and chr_release
\* change the vector under the semaphore only, and it has one unit.
THEOREM RingsExclusive ==
  ASSUME ~DMA_SUPPORTED
  PROVE  Spec => []RingExclusive
<1>1. RingInv => RingExclusive
  BY DEF RingInv, Partition
<1> QED BY <1>1, RingInvariant, PTL

\* No ring leaks: every marked ring has an owner, but for the rings of a file
\* whose chr_release was interrupted while it waited for the semaphore.
THEOREM NoRingLeaks ==
  ASSUME ~DMA_SUPPORTED
  PROVE  Spec => []RingsAccounted
<1>1. RingInv => RingsAccounted
  <2> SUFFICES ASSUME RingInv PROVE RingsAccounted
    OBVIOUS
  <2>1. Partition
    BY DEF RingInv
  <2> DEFINE Owned == UNION {own_rings[f] : f \in Handles}
  <2>2. ASSUME NEW f \in Handles PROVE own_rings[f] \subseteq Owned
    OBVIOUS
  <2>3. Owned \subseteq notif_q_status
    BY <2>1 DEF Partition, RingExclusive
  <2>4. notif_q_status \subseteq Owned \cup lost.rings
    BY <2>1, <2>2 DEF Partition
  <2>5. lost.rings \subseteq notif_q_status
    BY <2>1 DEF Partition
  <2>6. notif_q_status = Owned \cup lost.rings
    BY <2>3, <2>4, <2>5
  <2> QED BY <2>6 DEF RingsAccounted
<1> QED BY <1>1, RingInvariant, PTL

-----------------------------------------------------------------------------
(* The pipes.  The semaphore does not protect them (alloc_pipe marks a pipe *)
(* after its up), so what follows is about processes that change pipes one  *)
(* at a time: PipeCallers = 1.                                              *)

Releasing == {"release", "released"}

OneCaller == \A f, g \in Handles : op[f] \in PipeOps /\ op[g] \in PipeOps => f = g

\* The calls in which a thread can be at each step.
OpAt ==
  \A f \in Handles :
    /\ pc[f] \in {"mark", "store"} => op[f] \in {"alloc_fb", "alloc_pipe"}
    /\ pc[f] = "unmark" => op[f] = "free_pipe"
    /\ pc[f] \in Releasing => op[f] = "release"
    /\ pc[f] \in {"get_rr", "get_nb", "send"} => op[f] \in PipeOps

\* The pipe an allocation has chosen is unmarked and the one being freed is the
\* caller's; a byte that was loaded has not changed since.
PipeCallOK ==
  \A f \in Handles :
    /\ pc[f] \in {"mark", "store"} => arg[f] \notin pipe_status
    /\ pc[f] \in {"store", "unmark"} => seen[f] = pipe_status \cap Byte(arg[f])
    /\ op[f] = "free_pipe" /\ pc[f] \in {"down", "locked", "unmark"} =>
         arg[f] \in own_pipes[f]
    /\ op[f] = "release" /\ pc[f] \in {"down", "locked"} => arg[f] = 0
    /\ pc[f] = "released" =>
         arg[f] < NbBytes /\ seen[f] = pipe_status \cap Byte(arg[f] * ByteBits)

\* The marked pipes, each with one owner or lost.  The pipes of a file that is
\* being released are marked from the byte on that is released next.
PipeParts ==
  /\ \A f \in Handles : \A p \in own_pipes[f] :
       p \in pipe_status <=> (pc[f] \in Releasing => p \div ByteBits >= arg[f])
  /\ \A f, g \in Handles : f # g => own_pipes[f] \cap own_pipes[g] = {}
  /\ lost.pipes \subseteq pipe_status
  /\ \A f \in Handles : own_pipes[f] \cap lost.pipes = {}
  /\ \A p \in pipe_status :
       p \in lost.pipes \/ \E f \in Handles : p \in own_pipes[f]

PipeInv == TypeInv /\ OneCaller /\ OpAt /\ PipeCallOK /\ PipeParts

-----------------------------------------------------------------------------
(* The fallback pipes.                                                      *)

\* Between alloc_fb and the store that marks its pipe.
InAlloc(f) == op[f] = "alloc_fb" /\ pc[f] \in {"mark", "store"}

\* The fallback pipes are the first nb_fb_queues pipes, each owned or lost.
Contiguous ==
  /\ nb_fb_queues <= NbPipes
  /\ fb = {p \in 0 .. nb_fb_queues - 1 : \A f \in Handles : InAlloc(f) => p # arg[f]}
  /\ \A f \in Handles : InAlloc(f) => arg[f] = nb_fb_queues - 1
  /\ \A p \in fb : p \in lost.pipes \/ \E f \in Handles : p \in own_pipes[f]

\* Each file counts its own.
FbCounted ==
  \A f \in Handles :
    own_fb[f] = IF InAlloc(f) THEN Cardinality(fb \cap own_pipes[f]) + 1
                ELSE Cardinality(fb \cap own_pipes[f])

\* What is given up leaves no later fallback pipe behind.
GivesUpLast ==
  \A f \in Handles :
    /\ op[f] = "free_pipe" /\ pc[f] \in {"down", "locked", "unmark"} /\ arg[f] \in fb
         => \A q \in fb \ {arg[f]} : q < arg[f]
    /\ op[f] = "release" =>
         \A p \in own_pipes[f] \cap fb, q \in fb \ own_pipes[f] : q < p
    /\ op[f] = "free_notif_buffer" => own_pipes[f] = {}

FbInv == PipeInv /\ Contiguous /\ FbCounted /\ GivesUpLast

\* What a call is about to send, and has read so far.
CfgOK ==
  \A f \in Handles :
    /\ pc[f] = "send" => cfg[f] = [nb |-> nb_fb_queues, rr |-> enable_rr]
    /\ pc[f] = "get_nb" => cfg[f].rr = enable_rr
    /\ op[f] \in {"set_rr", "clear_rr"} /\ pc[f] \in {"down", "locked"} =>
         cfg[f] = [nb |-> nb_fb_queues, rr |-> op[f] = "set_rr"]

\* The NIC is configured with the present state, unless a call is about to do it
\* or a process died with pipes.
NicOK ==
  ~stale /\ (\A f \in Handles : pc[f] \notin {"mark", "store", "get_rr", "get_nb", "send"})
    => nic = [nb |-> nb_fb_queues, rr |-> enable_rr]

SteerInv == FbInv /\ CfgOK /\ NicOK

-----------------------------------------------------------------------------
(* PipeInv is an invariant.                                                 *)

LEMMA ByteOf ==
  /\ \A a \in Nat : (a * ByteBits) \div ByteBits = a
  /\ \A p \in Pipes : p \div ByteBits \in Nat /\ p \div ByteBits < NbBytes
BY AllocatorSizes DEF Pipes, NbBytes

LEMMA OnlyCaller ==
  ASSUME PipeCallers = 1, TypeOK, NEW o \in PipeOps, MayCall(o)
  PROVE  \A g \in Handles : op[g] \notin PipeOps
<1> DEFINE S == {f \in Handles : op[f] \in PipeOps}
<1>1. IsFiniteSet(S)
  BY AllocatorSizes, FS_Subset
<1>2. Cardinality(S) < 1
  BY DEF MayCall
<1>3. Cardinality(S) \in Nat /\ (Cardinality(S) = 0 <=> S = {})
  BY <1>1, FS_CardinalityType, FS_EmptySet
<1>4. S = {}
  BY <1>2, <1>3
<1> QED BY <1>4

LEMMA InitPipes == Init => PipeInv
<1> SUFFICES ASSUME Init PROVE PipeInv
  OBVIOUS
<1>1. OneCaller /\ OpAt /\ PipeCallOK
  BY DEF Init, OneCaller, OpAt, PipeCallOK, PipeOps, Releasing
<1>2. PipeParts
  BY DEF Init, PipeParts
<1> QED BY <1>1, <1>2, InitType DEF PipeInv

LEMMA NextOneCaller ==
  ASSUME PipeCallers = 1, TypeInv, OneCaller, OpAt, [Next]_vars
  PROVE  OneCaller' /\ OpAt'
<1> USE DEF TypeInv, TypeOK, Releasing
<1>0. "none" \notin PipeOps /\ "release" \in PipeOps /\ "free_notif_buffer" \in PipeOps
      /\ "alloc_fb" \in PipeOps /\ "alloc_pipe" \in PipeOps /\ "free_pipe" \in PipeOps
      /\ "set_rr" \in PipeOps /\ "clear_rr" \in PipeOps
  BY DEF PipeOps
<1>1. ASSUME NEW f \in Handles, NEW from \in {"closed", "idle"}, NEW o, NEW x,
             Enter(f, from, o, x)
      PROVE  OneCaller' /\ OpAt'
  <2>1. OpAt'
    BY <1>1 DEF Enter, OpAt
  <2>2. o \in PipeOps => \A g \in Handles : op[g] \notin PipeOps
    BY <1>1, OnlyCaller DEF Enter
  <2>3. op' = [op EXCEPT ![f] = o]
    BY <1>1 DEF Enter
  <2> QED BY <2>1, <2>2, <2>3 DEF OneCaller
<1>2. ASSUME NEW f \in Handles, Down(f) \/ Interrupted(f) PROVE OneCaller' /\ OpAt'
  BY <1>0, <1>2 DEF Down, Interrupted, Return, callVars, OneCaller, OpAt
<1>3. ASSUME NEW f \in Handles, CallStep(f) PROVE OneCaller' /\ OpAt'
  <2>1. CASE chr_open(f) \/ alloc_notif_buffer(f) \/ TakeRing(f)
    BY <1>0, <2>1 DEF chr_open, alloc_notif_buffer, TakeRing, Up, Return, Locked,
                      OneCaller, OpAt
  <2>2. CASE free_notif_buffer(f)
    BY <1>0, <2>2 DEF free_notif_buffer, Locked, OneCaller, OpAt
  <2>3. CASE alloc_fb(f) \/ alloc_pipe(f)
    BY <1>0, <2>3 DEF alloc_fb, alloc_pipe, Up, Return, Locked, OneCaller, OpAt
  <2>4. CASE MarkLoad(f) \/ MarkStore(f)
    BY <1>0, <2>4 DEF MarkLoad, MarkStore, OneCaller, OpAt
  <2>5. CASE free_pipe(f) \/ FreeStore(f)
    BY <1>0, <2>5 DEF free_pipe, FreeStore, Locked, OneCaller, OpAt
  <2>6. CASE chr_release(f) \/ ReleaseLoad(f) \/ ReleaseStore(f)
    BY <1>0, <2>6 DEF chr_release, ReleaseLoad, ReleaseStore, Locked, callVars,
                      OneCaller, OpAt
  <2>7. CASE ReleaseDone(f)
    BY <1>0, <2>7 DEF ReleaseDone, Up, Return, OneCaller, OpAt
  <2>8. CASE set_rr_status(f) \/ get_rr_status(f) \/ get_nb_fallback_queues(f)
    BY <1>0, <2>8 DEF set_rr_status, get_rr_status, get_nb_fallback_queues, callVars,
                      OneCaller, OpAt
  <2>9. CASE SendConfig(f)
    BY <1>0, <2>9 DEF SendConfig, Return, OneCaller, OpAt
  <2> QED BY <1>3, <2>1, <2>2, <2>3, <2>4, <2>5, <2>6, <2>7, <2>8, <2>9 DEF CallStep
<1>4. CASE UNCHANGED vars
  BY <1>4 DEF vars, callVars, OneCaller, OpAt
<1> QED BY <1>1, <1>2, <1>3, <1>4
        DEF Next, Open, AllocateNotifBuf, FreeNotifBuf, Close, AllocatePipe,
            FreePipe, SetRoundRobin

\* A step that leaves the pipes alone and neither begins nor continues a release.
LEMMA PipesUntouched ==
  ASSUME PipeParts, UNCHANGED <<pipe_status, own_pipes, lost>>,
         \A f \in Handles :
           /\ pc'[f] \in Releasing <=> pc[f] \in Releasing
           /\ pc[f] \in Releasing => arg'[f] = arg[f]
  PROVE  PipeParts'
BY DEF PipeParts

LEMMA NextPipes ==
  ASSUME PipeInv, [Next]_vars, OneCaller'
  PROVE  PipeCallOK' /\ PipeParts'
<1> USE DEF devVars, ownVars, callVars, histVars
<1>0. TypeOK /\ ArgOK /\ OneCaller /\ OpAt /\ PipeCallOK /\ PipeParts
  BY DEF PipeInv, TypeInv
<1>1. ASSUME NEW f \in Handles, NEW from \in {"closed", "idle"}, NEW o, NEW x,
             Enter(f, from, o, x),
             o = "free_pipe" => x \in own_pipes[f], o = "release" => x = 0
      PROVE  PipeCallOK' /\ PipeParts'
  <2>1. PipeCallOK'
    BY <1>0, <1>1 DEF Enter, PipeCallOK, TypeOK
  <2>2. PipeParts'
    BY <1>0, <1>1, PipesUntouched DEF Enter, TypeOK, Releasing
  <2> QED BY <2>1, <2>2
<1>2. ASSUME NEW f \in Handles, Down(f) PROVE PipeCallOK' /\ PipeParts'
  <2>1. PipeCallOK'
    BY <1>0, <1>2 DEF Down, PipeCallOK, TypeOK
  <2>2. PipeParts'
    BY <1>0, <1>2, PipesUntouched DEF Down, TypeOK, Releasing
  <2> QED BY <2>1, <2>2
<1>3. ASSUME NEW f \in Handles, Interrupted(f) PROVE PipeCallOK' /\ PipeParts'
  <2>1. /\ lost'.pipes = lost.pipes \cup own_pipes[f] /\ pc[f] = "down"
        /\ own_pipes' = [own_pipes EXCEPT ![f] = {}] /\ pipe_status' = pipe_status
        /\ pc' = [pc EXCEPT ![f] = "closed"] /\ op' = [op EXCEPT ![f] = "none"]
        /\ arg' = [arg EXCEPT ![f] = 0] /\ seen' = seen
    BY <1>3 DEF Interrupted, Return
  <2>2. PipeCallOK'
    BY <1>0, <2>1 DEF PipeCallOK, TypeOK
  <2>3. own_pipes[f] \subseteq pipe_status
    BY <1>0, <2>1 DEF PipeParts, Releasing
  <2>4. PipeParts'
    BY <1>0, <2>1, <2>3 DEF PipeParts, TypeOK, Releasing
  <2> QED BY <2>2, <2>4
<1>4. ASSUME NEW f \in Handles, CallStep(f) PROVE PipeCallOK' /\ PipeParts'
  <2>a. op[f] \in PipeOps => \A g \in Handles \ {f} : op[g] \notin PipeOps
    BY <1>0 DEF OneCaller
  <2>b. op[f] \in PipeOps =>
          \A g \in Handles \ {f} : pc[g] \notin {"mark", "store", "unmark"} \cup Releasing
    BY <1>0, <2>a DEF OpAt, PipeOps
  <2>1. CASE chr_open(f) \/ alloc_notif_buffer(f) \/ TakeRing(f) \/ free_notif_buffer(f)
    <3>1. PipeCallOK'
      BY <1>0, <2>1 DEF chr_open, alloc_notif_buffer, TakeRing, free_notif_buffer, Up,
                        Return, Locked, PipeCallOK, TypeOK
    <3>2. PipeParts'
      BY <1>0, <2>1, PipesUntouched
      DEF chr_open, alloc_notif_buffer, TakeRing, free_notif_buffer, Up, Return, Locked,
          TypeOK, Releasing
    <3> QED BY <3>1, <3>2
  <2>2. CASE alloc_fb(f) \/ alloc_pipe(f)
    <3>1. Unmarked # {} => Min(Unmarked) \notin pipe_status /\ Max(Unmarked) \notin pipe_status
      <4>1. Unmarked \subseteq Pipes /\ Unmarked \subseteq Nat
        BY AllocatorSizes DEF Unmarked, Pipes
      <4> QED BY <4>1, MinNat, MaxPipe DEF Unmarked
    <3>2. PipeCallOK'
      BY <1>0, <2>2, <3>1
      DEF alloc_fb, alloc_pipe, Up, Return, Locked, PipeCallOK, TypeOK
    <3>3. PipeParts'
      BY <1>0, <2>2, PipesUntouched
      DEF alloc_fb, alloc_pipe, Up, Return, Locked, TypeOK, Releasing
    <3> QED BY <3>2, <3>3
  <2>3. CASE MarkLoad(f)
    <3>1. PipeCallOK'
      BY <1>0, <2>3 DEF MarkLoad, PipeCallOK, TypeOK
    <3> QED BY <1>0, <2>3, <3>1, PipesUntouched DEF MarkLoad, TypeOK, Releasing
  <2>4. CASE MarkStore(f)
    <3>1. /\ pc[f] = "store" /\ op[f] \in PipeOps /\ arg[f] \notin pipe_status
          /\ arg[f] \in Pipes /\ seen[f] = pipe_status \cap Byte(arg[f])
      BY <1>0, <2>4 DEF MarkStore, PipeOps, PipeCallOK, ArgOK
    <3>2. /\ pipe_status' = pipe_status \cup {arg[f]}
          /\ own_pipes' = [own_pipes EXCEPT ![f] = @ \cup {arg[f]}]
          /\ pc' = [pc EXCEPT ![f] = "get_rr"] /\ op' = op /\ arg' = arg /\ lost' = lost
          /\ seen' = [seen EXCEPT ![f] = {}]
      BY <2>4, <3>1 DEF MarkStore, StoreByte
    <3>3. PipeCallOK'
      BY <1>0, <2>a, <2>b, <3>1, <3>2 DEF PipeCallOK, TypeOK, Releasing, PipeOps
    <3>4. \A g \in Handles : own_pipes[g] \subseteq pipe_status
      BY <1>0, <2>b, <3>1 DEF PipeParts, Releasing
    <3>5. PipeParts'
      BY <1>0, <2>b, <3>1, <3>2, <3>4 DEF PipeParts, TypeOK, Releasing
    <3> QED BY <3>3, <3>5
  <2>5. CASE free_pipe(f)
    <3>1. PipeCallOK'
      BY <1>0, <2>5 DEF free_pipe, Locked, PipeCallOK, TypeOK
    <3> QED BY <1>0, <2>5, <3>1, PipesUntouched DEF free_pipe, Locked, TypeOK, Releasing
  <2>6. CASE FreeStore(f)
    <3>1. /\ pc[f] = "unmark" /\ op[f] = "free_pipe" /\ op[f] \in PipeOps
          /\ arg[f] \in own_pipes[f] /\ arg[f] \in Pipes
          /\ seen[f] = pipe_status \cap Byte(arg[f])
      BY <1>0, <2>6 DEF FreeStore, OpAt, PipeOps, PipeCallOK, TypeOK
    <3>2. /\ pipe_status' = pipe_status \ {arg[f]}
          /\ own_pipes' = [own_pipes EXCEPT ![f] = @ \ {arg[f]}]
          /\ pc' = [pc EXCEPT ![f] = "get_rr"] /\ op' = op /\ arg' = arg /\ lost' = lost
          /\ seen' = [seen EXCEPT ![f] = {}]
      BY <2>6, <3>1 DEF FreeStore, StoreByte, Byte
    <3>3. PipeCallOK'
      BY <1>0, <2>a, <2>b, <3>1, <3>2 DEF PipeCallOK, TypeOK, Releasing, PipeOps
    <3>4. \A g \in Handles : own_pipes[g] \subseteq pipe_status
      BY <1>0, <2>b, <3>1 DEF PipeParts, Releasing
    <3>5. PipeParts'
      BY <1>0, <2>b, <3>1, <3>2, <3>4 DEF PipeParts, TypeOK, Releasing
    <3> QED BY <3>3, <3>5
  <2>7. CASE chr_release(f)
    <3>1. /\ pc[f] = "locked" /\ op[f] = "release" /\ arg[f] = 0
          /\ pc' = [pc EXCEPT ![f] = "release"] /\ arg' = arg
          /\ UNCHANGED <<pipe_status, own_pipes, lost>>
      BY <1>0, <2>7 DEF chr_release, Locked, PipeCallOK
    <3>2. PipeCallOK'
      BY <1>0, <2>7 DEF chr_release, PipeCallOK, TypeOK
    <3>3. \A p \in own_pipes[f] : p \div ByteBits >= 0
      BY <1>0, ByteOf DEF TypeOK
    <3>4. PipeParts'
      BY <1>0, <3>1, <3>3 DEF PipeParts, TypeOK, Releasing
    <3> QED BY <3>2, <3>4
  <2>8. CASE ReleaseLoad(f)
    <3>1. PipeCallOK'
      BY <1>0, <2>8 DEF ReleaseLoad, PipeCallOK, OpAt, TypeOK, Releasing
    <3> QED BY <1>0, <2>8, <3>1, PipesUntouched DEF ReleaseLoad, TypeOK, Releasing
  <2>9. CASE ReleaseStore(f)
    <3>1. /\ pc[f] = "released" /\ op[f] = "release" /\ op[f] \in PipeOps
          /\ arg[f] < NbBytes /\ arg[f] \in Nat
          /\ seen[f] = pipe_status \cap Byte(arg[f] * ByteBits)
      BY <1>0, <2>9 DEF ReleaseStore, OpAt, PipeOps, PipeCallOK, Releasing, TypeOK
    <3>2. Byte(arg[f] * ByteBits) = {q \in Pipes : q \div ByteBits = arg[f]}
      BY <3>1, ByteOf DEF Byte
    <3>3. /\ pipe_status' = pipe_status \ {q \in own_pipes[f] : q \div ByteBits = arg[f]}
          /\ own_pipes' = own_pipes /\ lost' = lost /\ op' = op
          /\ pc' = [pc EXCEPT ![f] = "release"]
          /\ arg' = [arg EXCEPT ![f] = @ + 1] /\ seen' = [seen EXCEPT ![f] = {}]
      BY <1>0, <2>9, <3>1, <3>2 DEF ReleaseStore, StoreByte, TypeOK
    <3>4. PipeCallOK'
      BY <1>0, <2>a, <2>b, <3>1, <3>3 DEF PipeCallOK, TypeOK, Releasing, PipeOps
    <3>5. \A g \in Handles \ {f} : own_pipes[g] \subseteq pipe_status
      BY <1>0, <2>b, <3>1 DEF PipeParts, Releasing
    <3>6. PipeParts'
      <4>1. ASSUME NEW p \in own_pipes[f]
            PROVE  p \in pipe_status' <=> p \div ByteBits >= arg'[f]
        <5>1. p \in pipe_status <=> p \div ByteBits >= arg[f]
          BY <1>0, <3>1 DEF PipeParts, Releasing
        <5>2. p \div ByteBits \in Nat /\ arg'[f] = arg[f] + 1
          BY <1>0, <3>3, ByteOf DEF TypeOK
        <5> QED BY <3>1, <3>3, <5>1, <5>2
      <4> QED BY <1>0, <2>b, <3>1, <3>3, <3>5, <4>1 DEF PipeParts, TypeOK, Releasing
    <3> QED BY <3>4, <3>6
  <2>10. CASE ReleaseDone(f)
    <3>1. /\ pc[f] = "release" /\ op[f] = "release" /\ arg[f] = NbBytes
          /\ own_pipes' = [own_pipes EXCEPT ![f] = {}] /\ pipe_status' = pipe_status
          /\ pc' = [pc EXCEPT ![f] = "closed"] /\ op' = [op EXCEPT ![f] = "none"]
          /\ arg' = [arg EXCEPT ![f] = 0] /\ seen' = seen /\ lost' = lost
      BY <1>0, <2>10 DEF ReleaseDone, Up, Return, OpAt, Releasing
    <3>2. PipeCallOK'
      BY <1>0, <3>1 DEF PipeCallOK, TypeOK
    <3>3. own_pipes[f] \cap pipe_status = {}
      <4> SUFFICES ASSUME NEW p \in own_pipes[f] PROVE p \notin pipe_status
        OBVIOUS
      <4>1. p \in Pipes
        BY <1>0 DEF TypeOK
      <4>2. p \div ByteBits \in Nat /\ p \div ByteBits < NbBytes
        BY <4>1, ByteOf
      <4>3. NbBytes \in Nat
        BY <1>0, <3>1 DEF TypeOK
      <4> QED BY <1>0, <3>1, <4>2, <4>3 DEF PipeParts, Releasing
    <3>4. PipeParts'
      BY <1>0, <3>1, <3>3 DEF PipeParts, TypeOK, Releasing
    <3> QED BY <3>2, <3>4
  <2>11. CASE set_rr_status(f) \/ get_rr_status(f) \/ get_nb_fallback_queues(f)
    <3>1. PipeCallOK'
      BY <1>0, <2>11 DEF set_rr_status, get_rr_status, get_nb_fallback_queues,
                         PipeCallOK, TypeOK
    <3> QED BY <1>0, <2>11, <3>1, PipesUntouched
            DEF set_rr_status, get_rr_status, get_nb_fallback_queues, TypeOK, Releasing
  <2>12. CASE SendConfig(f)
    <3>1. PipeCallOK'
      BY <1>0, <2>12 DEF SendConfig, Return, PipeCallOK, TypeOK
    <3> QED BY <1>0, <2>12, <3>1, PipesUntouched DEF SendConfig, Return, TypeOK, Releasing
  <2> QED BY <1>4, <2>1, <2>2, <2>3, <2>4, <2>5, <2>6, <2>7, <2>8, <2>9, <2>10,
             <2>11, <2>12
          DEF CallStep
<1>5. CASE UNCHANGED vars
  <2>1. PipeCallOK'
    BY <1>0, <1>5 DEF vars, PipeCallOK
  <2> QED BY <1>0, <1>5, <2>1, PipesUntouched DEF vars
<1> QED BY <1>1, <1>2, <1>3, <1>4, <1>5
        DEF Next, Open, AllocateNotifBuf, FreeNotifBuf, Close, AllocatePipe,
            FreePipe, SetRoundRobin

\* Every marked pipe has exactly one owner or was lost, and a loaded byte of the
\* vector is not changed before it is stored, when processes change pipes one at
\* a time; the semaphore plays no part in it.
THEOREM PipeInvariant ==
  ASSUME PipeCallers = 1
  PROVE  Spec => []PipeInv
<1>1. PipeInv /\ [Next]_vars => PipeInv'
  BY NextType, NextOneCaller, NextPipes DEF PipeInv
<1> QED BY <1>1, InitPipes, PTL DEF Spec

\* No two open files ever own the same pipe, and a pipe stays marked for as long
\* as it has an owner, but for the byte being released, for any number of
\* processes that open, close and die, if they change pipes one at a time.
THEOREM PipesExclusive ==
  ASSUME PipeCallers = 1
  PROVE  Spec => []PipeExclusive
<1>1. PipeInv => PipeExclusive
  BY DEF PipeInv, PipeParts, OpAt, PipeExclusive, Releasing
<1> QED BY <1>1, PipeInvariant, PTL

-----------------------------------------------------------------------------
(* FbInv is an invariant when the last fallback pipe is given up first.     *)

LEMMA InitFb == Init => FbInv
<1> SUFFICES ASSUME Init PROVE FbInv
  OBVIOUS
<1>1. Contiguous /\ GivesUpLast
  BY AllocatorSizes DEF Init, Contiguous, InAlloc, GivesUpLast
<1>2. FbCounted
  BY FS_EmptySet DEF Init, FbCounted, InAlloc
<1> QED BY <1>1, <1>2, InitPipes DEF FbInv

\* A step that leaves the fallback pipes and their counts alone.
LEMMA FbUntouched ==
  ASSUME Contiguous, FbCounted, UNCHANGED <<nb_fb_queues, fb, own_fb, own_pipes, lost>>,
         \A f \in Handles : /\ InAlloc(f)' <=> InAlloc(f)
                            /\ InAlloc(f) => arg'[f] = arg[f]
  PROVE  Contiguous' /\ FbCounted'
<1>1. Contiguous'
  BY DEF Contiguous
<1>2. FbCounted'
  BY DEF FbCounted
<1> QED BY <1>1, <1>2

LEMMA FbFinite ==
  ASSUME TypeOK, NEW S
  PROVE  IsFiniteSet(fb \cap S) /\ Cardinality(fb \cap S) \in Nat
<1>1. IsFiniteSet(Pipes)
  BY FS_Interval, AllocatorSizes DEF Pipes
<1>2. IsFiniteSet(fb \cap S)
  BY <1>1, FS_Subset DEF TypeOK
<1> QED BY <1>2, FS_CardinalityType

LEMMA NextFb ==
  ASSUME LastFirst, FbInv, PipeInv', [Next]_vars
  PROVE  Contiguous' /\ FbCounted' /\ GivesUpLast'
<1> USE DEF devVars, ownVars, callVars, histVars
<1>0. /\ TypeOK /\ ArgOK /\ OneCaller /\ OpAt /\ PipeCallOK /\ PipeParts
      /\ Contiguous /\ FbCounted /\ GivesUpLast
  BY DEF FbInv, PipeInv, TypeInv
<1>1. ASSUME NEW f \in Handles, NEW from \in {"closed", "idle"}, NEW o, NEW x,
             Enter(f, from, o, x),
             o = "free_pipe" => MayGiveUp({x}),
             o = "release" => MayGiveUp(own_pipes[f]),
             o = "free_notif_buffer" => own_pipes[f] = {}
      PROVE  Contiguous' /\ FbCounted' /\ GivesUpLast'
  <2>1. \A g \in Handles : /\ InAlloc(g)' <=> InAlloc(g)
                           /\ InAlloc(g) => arg'[g] = arg[g]
    BY <1>0, <1>1 DEF Enter, InAlloc, TypeOK
  <2>2. GivesUpLast'
    BY <1>0, <1>1 DEF Enter, GivesUpLast, MayGiveUp, TypeOK
  <2> QED BY <1>0, <1>1, <2>1, <2>2, FbUntouched DEF Enter
<1>2. ASSUME NEW f \in Handles, Down(f) PROVE Contiguous' /\ FbCounted' /\ GivesUpLast'
  <2>1. \A g \in Handles : /\ InAlloc(g)' <=> InAlloc(g)
                           /\ InAlloc(g) => arg'[g] = arg[g]
    BY <1>0, <1>2 DEF Down, InAlloc, TypeOK
  <2>2. GivesUpLast'
    BY <1>0, <1>2 DEF Down, GivesUpLast, TypeOK
  <2> QED BY <1>0, <1>2, <2>1, <2>2, FbUntouched DEF Down
<1>3. ASSUME NEW f \in Handles, Interrupted(f)
      PROVE  Contiguous' /\ FbCounted' /\ GivesUpLast'
  <2>1. /\ lost'.pipes = lost.pipes \cup own_pipes[f] /\ pc[f] = "down"
        /\ own_pipes' = [own_pipes EXCEPT ![f] = {}]
        /\ own_fb' = [own_fb EXCEPT ![f] = 0]
        /\ UNCHANGED <<fb, nb_fb_queues>>
        /\ pc' = [pc EXCEPT ![f] = "closed"] /\ op' = [op EXCEPT ![f] = "none"]
        /\ arg' = [arg EXCEPT ![f] = 0]
    BY <1>3 DEF Interrupted, Return
  <2>2. \A g \in Handles : /\ InAlloc(g)' <=> InAlloc(g)
                           /\ InAlloc(g) => g # f /\ arg'[g] = arg[g]
    BY <1>0, <2>1 DEF InAlloc, TypeOK
  <2>3. Contiguous'
    BY <1>0, <2>1, <2>2 DEF Contiguous, TypeOK
  <2>4. FbCounted'
    <3>1. ASSUME NEW g \in Handles, g # f
          PROVE  own_fb'[g] = own_fb[g] /\ own_pipes'[g] = own_pipes[g]
      BY <1>0, <2>1, <3>1 DEF TypeOK
    <3>2. /\ own_fb'[f] = 0 /\ own_pipes'[f] = {} /\ ~InAlloc(f)'
          /\ fb \cap {} = {}
      BY <1>0, <2>1, <2>2 DEF TypeOK
    <3>3. Cardinality(fb \cap {}) = 0
      BY <3>2, FS_EmptySet
    <3> QED BY <1>0, <2>1, <2>2, <3>1, <3>2, <3>3 DEF FbCounted
  <2>5. GivesUpLast'
    BY <1>0, <2>1 DEF GivesUpLast, TypeOK
  <2> QED BY <2>3, <2>4, <2>5
<1>4. ASSUME NEW f \in Handles, CallStep(f)
      PROVE  Contiguous' /\ FbCounted' /\ GivesUpLast'
  <2>a. op[f] \in PipeOps => \A g \in Handles \ {f} : op[g] \notin PipeOps /\ ~InAlloc(g)
    BY <1>0 DEF OneCaller, InAlloc, PipeOps
  <2>b. ASSUME op[f] \in PipeOps, pc[f] \notin {"mark", "store"}
        PROVE  fb = 0 .. nb_fb_queues - 1
    BY <1>0, <2>a, <2>b DEF Contiguous, InAlloc
  <2>1. CASE chr_open(f) \/ alloc_notif_buffer(f) \/ TakeRing(f) \/ free_notif_buffer(f)
             \/ alloc_pipe(f)
    <3>1. \A g \in Handles : /\ InAlloc(g)' <=> InAlloc(g)
                             /\ InAlloc(g) => arg'[g] = arg[g]
      BY <1>0, <2>1
      DEF chr_open, alloc_notif_buffer, TakeRing, free_notif_buffer, alloc_pipe, Up,
          Return, Locked, TypeOK, InAlloc
    <3>2. GivesUpLast'
      BY <1>0, <2>1
      DEF chr_open, alloc_notif_buffer, TakeRing, free_notif_buffer, alloc_pipe, Up,
          Return, Locked, TypeOK, GivesUpLast
    <3> QED BY <1>0, <2>1, <3>1, <3>2, FbUntouched
            DEF chr_open, alloc_notif_buffer, TakeRing, free_notif_buffer, alloc_pipe
  <2>2. CASE alloc_fb(f)
    <3>1. CASE ~(Unmarked # {} /\ Min(Unmarked) = nb_fb_queues)
      <4>1. \A g \in Handles : /\ InAlloc(g)' <=> InAlloc(g)
                               /\ InAlloc(g) => arg'[g] = arg[g]
        BY <1>0, <2>2, <3>1 DEF alloc_fb, Up, Return, Locked, TypeOK, InAlloc
      <4>2. GivesUpLast'
        BY <1>0, <2>2, <3>1 DEF alloc_fb, Up, Return, Locked, TypeOK, GivesUpLast
      <4> QED BY <1>0, <2>2, <3>1, <4>1, <4>2, FbUntouched DEF alloc_fb
    <3>2. CASE Unmarked # {} /\ Min(Unmarked) = nb_fb_queues
      <4>1. /\ pc[f] = "locked" /\ op[f] = "alloc_fb" /\ op' = op
            /\ nb_fb_queues' = (nb_fb_queues + 1) % Word
            /\ own_fb' = [own_fb EXCEPT ![f] = (@ + 1) % Word]
            /\ pc' = [pc EXCEPT ![f] = "mark"]
            /\ arg' = [arg EXCEPT ![f] = nb_fb_queues]
            /\ UNCHANGED <<fb, own_pipes, lost>>
        BY <2>2, <3>2 DEF alloc_fb, Locked
      <4>2. nb_fb_queues \in Pipes
        <5>1. Unmarked \subseteq Nat
          BY AllocatorSizes DEF Unmarked, Pipes
        <5> QED BY <3>2, <5>1, MinNat DEF Unmarked
      <4>3. nb_fb_queues' = nb_fb_queues + 1 /\ nb_fb_queues' <= NbPipes
        BY <4>1, <4>2, AllocatorSizes DEF Pipes
      <4>4. fb = 0 .. nb_fb_queues - 1
        BY <2>b, <4>1 DEF PipeOps
      <4>5. /\ own_fb[f] = Cardinality(fb \cap own_pipes[f])
            /\ own_fb[f] \in Nat /\ own_fb[f] <= nb_fb_queues
        <5>1. IsFiniteSet(fb) /\ Cardinality(fb) = nb_fb_queues
          BY <4>2, <4>4, FS_Interval, AllocatorSizes DEF Pipes
        <5>2. Cardinality(fb \cap own_pipes[f]) <= Cardinality(fb)
          BY <5>1, FS_Subset
        <5>3. own_fb[f] = Cardinality(fb \cap own_pipes[f])
          BY <1>0, <4>1, FbFinite DEF FbCounted, InAlloc
        <5> QED BY <1>0, <5>1, <5>2, <5>3, FbFinite
      <4>6. own_fb' = [own_fb EXCEPT ![f] = @ + 1]
        <5>1. (own_fb[f] + 1) % Word = own_fb[f] + 1
          BY <4>2, <4>5, AllocatorSizes DEF Pipes
        <5> QED BY <4>1, <5>1
      <4>7. \A g \in Handles : InAlloc(g)' <=> g = f
        BY <1>0, <2>a, <4>1 DEF InAlloc, PipeOps, TypeOK
      <4>8. Contiguous'
        <5>1. arg'[f] = nb_fb_queues
          BY <1>0, <4>1 DEF TypeOK
        <5>2. fb = {p \in 0 .. nb_fb_queues' - 1 : p # nb_fb_queues}
          BY <4>2, <4>3, <4>4, AllocatorSizes DEF Pipes
        <5>3. \A p \in fb : p \in lost.pipes \/ \E g \in Handles : p \in own_pipes[g]
          BY <1>0 DEF Contiguous
        <5>4. arg'[f] = nb_fb_queues' - 1
          BY <4>2, <4>3, <5>1, AllocatorSizes DEF Pipes
        <5> QED BY <4>1, <4>3, <4>7, <5>1, <5>2, <5>3, <5>4 DEF Contiguous
      <4>9. FbCounted'
        <5>1. ASSUME NEW g \in Handles, g # f
              PROVE  own_fb'[g] = Cardinality(fb \cap own_pipes[g])
          BY <1>0, <2>a, <4>1, <4>6, <5>1 DEF FbCounted, TypeOK, PipeOps
        <5>2. own_fb'[f] = Cardinality(fb \cap own_pipes[f]) + 1
          BY <1>0, <4>5, <4>6 DEF TypeOK
        <5> QED BY <4>1, <4>7, <5>1, <5>2 DEF FbCounted
      <4>10. GivesUpLast'
        BY <1>0, <4>1 DEF GivesUpLast, TypeOK
      <4> QED BY <4>8, <4>9, <4>10
    <3> QED BY <3>1, <3>2
  <2>3. CASE MarkLoad(f)
    <3>1. \A g \in Handles : /\ InAlloc(g)' <=> InAlloc(g)
                             /\ InAlloc(g) => arg'[g] = arg[g]
      BY <1>0, <2>3 DEF MarkLoad, TypeOK, InAlloc
    <3>2. GivesUpLast'
      BY <1>0, <2>3 DEF MarkLoad, TypeOK, GivesUpLast, OpAt
    <3> QED BY <1>0, <2>3, <3>1, <3>2, FbUntouched DEF MarkLoad
  <2>4. CASE MarkStore(f)
    <3> DEFINE a == arg[f]
    <3>1. /\ pc[f] = "store" /\ op[f] \in {"alloc_fb", "alloc_pipe"}
          /\ op[f] \in PipeOps /\ a \notin pipe_status /\ a \in Pipes
          /\ op' = op /\ pc' = [pc EXCEPT ![f] = "get_rr"]
          /\ own_pipes' = [own_pipes EXCEPT ![f] = @ \cup {a}]
          /\ fb' = IF op[f] = "alloc_fb" THEN fb \cup {a} ELSE fb
          /\ UNCHANGED <<nb_fb_queues, own_fb, arg, lost>>
      BY <1>0, <2>4 DEF MarkStore, PipeOps, PipeCallOK, ArgOK
    <3> HIDE DEF a
    <3>2. \A g \in Handles : own_pipes[g] \subseteq pipe_status
      <4>1. \A g \in Handles : pc[g] \notin Releasing
        BY <1>0, <2>a, <3>1 DEF OpAt, PipeOps, Releasing
      <4> QED BY <1>0, <4>1 DEF PipeParts
    <3>3. a \notin fb /\ \A g \in Handles : a \notin own_pipes[g]
      BY <1>0, <3>1, <3>2 DEF Contiguous, PipeParts
    <3>4. \A g \in Handles : ~InAlloc(g)' /\ (InAlloc(g) => g = f)
      BY <1>0, <2>a, <3>1 DEF InAlloc, TypeOK
    <3>5. GivesUpLast'
      BY <1>0, <2>a, <3>1 DEF GivesUpLast, TypeOK, PipeOps
    <3>6. Contiguous'
      <4>1. \A p \in fb' : p \in lost.pipes \/ \E g \in Handles : p \in own_pipes'[g]
        BY <1>0, <3>1 DEF Contiguous, TypeOK
      <4>2. fb' = 0 .. nb_fb_queues - 1
        <5>1. CASE op[f] = "alloc_fb"
          <6>1. InAlloc(f) /\ a = nb_fb_queues - 1
            BY <1>0, <3>1, <5>1 DEF InAlloc, Contiguous, a
          <6>2. fb = {p \in 0 .. nb_fb_queues - 1 : p # a}
            BY <1>0, <3>4, <6>1 DEF Contiguous, a
          <6>3. a \in 0 .. nb_fb_queues - 1
            BY <1>0, <3>1, <6>1, AllocatorSizes DEF TypeOK, Pipes
          <6> QED BY <3>1, <5>1, <6>2, <6>3
        <5>2. CASE op[f] = "alloc_pipe"
          BY <1>0, <3>1, <3>4, <5>2 DEF Contiguous, InAlloc
        <5> QED BY <3>1, <5>1, <5>2
      <4> QED BY <1>0, <3>1, <3>4, <4>1, <4>2 DEF Contiguous
    <3>7. FbCounted'
      <4>1. ASSUME NEW g \in Handles, g # f
            PROVE  fb' \cap own_pipes'[g] = fb \cap own_pipes[g]
        BY <1>0, <3>1, <3>3, <4>1 DEF TypeOK
      <4>2. own_pipes'[f] = own_pipes[f] \cup {a}
        BY <1>0, <3>1 DEF TypeOK
      <4>3. IsFiniteSet(fb \cap own_pipes[f])
        BY <1>0, FbFinite
      <4>4. own_fb[f] = Cardinality(fb' \cap own_pipes'[f])
        <5>1. CASE op[f] = "alloc_fb"
          <6>1. /\ fb' \cap own_pipes'[f] = (fb \cap own_pipes[f]) \cup {a}
                /\ a \notin fb \cap own_pipes[f]
            BY <3>1, <3>3, <4>2, <5>1
          <6>2. Cardinality(fb' \cap own_pipes'[f]) = Cardinality(fb \cap own_pipes[f]) + 1
            BY <4>3, <6>1, FS_AddElement
          <6>3. own_fb[f] = Cardinality(fb \cap own_pipes[f]) + 1
            BY <1>0, <3>1, <5>1 DEF FbCounted, InAlloc
          <6> QED BY <1>0, <6>2, <6>3, FbFinite
        <5>2. CASE op[f] = "alloc_pipe"
          <6>1. fb' \cap own_pipes'[f] = fb \cap own_pipes[f]
            BY <3>1, <3>3, <4>2, <5>2
          <6>2. own_fb[f] = Cardinality(fb \cap own_pipes[f])
            BY <1>0, <3>1, <5>2 DEF FbCounted, InAlloc
          <6> QED BY <6>1, <6>2
        <5> QED BY <3>1, <5>1, <5>2
      <4> QED BY <1>0, <3>1, <3>4, <4>1, <4>4 DEF FbCounted
    <3> QED BY <3>5, <3>6, <3>7
  <2>5. CASE free_pipe(f)
    <3>1. \A g \in Handles : /\ InAlloc(g)' <=> InAlloc(g)
                             /\ InAlloc(g) => arg'[g] = arg[g]
      BY <1>0, <2>5 DEF free_pipe, Locked, TypeOK, InAlloc
    <3>2. GivesUpLast'
      BY <1>0, <2>5 DEF free_pipe, Locked, TypeOK, GivesUpLast
    <3> QED BY <1>0, <2>5, <3>1, <3>2, FbUntouched DEF free_pipe
  <2>6. CASE FreeStore(f)
    <3> DEFINE a == arg[f]
               n == IF a < nb_fb_queues THEN 1 ELSE 0
    <3>1. /\ pc[f] = "unmark" /\ op[f] = "free_pipe" /\ op[f] \in PipeOps
          /\ a \in own_pipes[f] /\ a \in Pipes
          /\ op' = op /\ pc' = [pc EXCEPT ![f] = "get_rr"]
          /\ own_pipes' = [own_pipes EXCEPT ![f] = @ \ {a}]
          /\ fb' = fb \ {a} /\ nb_fb_queues' = (nb_fb_queues - n) % Word
          /\ own_fb' = [own_fb EXCEPT ![f] = (@ - n) % Word]
          /\ UNCHANGED <<arg, lost>>
      BY <1>0, <2>6 DEF FreeStore, OpAt, PipeOps, PipeCallOK, TypeOK
    <3>2. fb = 0 .. nb_fb_queues - 1 /\ (a \in fb => a = nb_fb_queues - 1)
      <4>1. fb = 0 .. nb_fb_queues - 1
        BY <2>b, <3>1
      <4>2. a \in fb => \A q \in fb \ {a} : q < a
        BY <1>0, <3>1 DEF GivesUpLast
      <4>3. nb_fb_queues \in Nat
        BY <1>0 DEF TypeOK
      <4>4. a \in Nat
        BY <3>1, AllocatorSizes DEF Pipes
      <4> HIDE DEF a
      <4>5. a \in fb /\ a # nb_fb_queues - 1 =>
              nb_fb_queues - 1 \in fb \ {a} /\ ~(nb_fb_queues - 1 < a)
        BY <4>1, <4>3, <4>4
      <4> QED BY <4>1, <4>2, <4>5
    <3>3. n = (IF a \in fb THEN 1 ELSE 0) /\ nb_fb_queues - n \in Nat
          /\ nb_fb_queues - n < Word
      BY <1>0, <3>1, <3>2, AllocatorSizes DEF TypeOK, Pipes
    <3>4. \A g \in Handles : ~InAlloc(g) /\ ~InAlloc(g)'
      BY <1>0, <2>a, <3>1 DEF InAlloc, TypeOK
    <3>5. nb_fb_queues' = nb_fb_queues - n
      BY <3>1, <3>3, AllocatorSizes
    <3>6. own_fb[f] \in 0 .. Word - 1 /\ own_fb[f] = Cardinality(fb \cap own_pipes[f])
      BY <1>0, <3>4, FbFinite DEF FbCounted, TypeOK
    <3>7. /\ own_fb[f] - n = Cardinality((fb \cap own_pipes[f]) \ {a})
          /\ own_fb[f] - n \in Nat
      <4>1. IsFiniteSet(fb \cap own_pipes[f])
        BY <1>0, FbFinite
      <4>2. Cardinality((fb \cap own_pipes[f]) \ {a})
              = IF a \in fb \cap own_pipes[f] THEN Cardinality(fb \cap own_pipes[f]) - 1
                ELSE Cardinality(fb \cap own_pipes[f])
        BY <4>1, FS_RemoveElement
      <4>3. Cardinality((fb \cap own_pipes[f]) \ {a}) \in Nat
        BY <4>1, FS_RemoveElement, FS_CardinalityType
      <4> HIDE DEF n, a
      <4> QED BY <3>1, <3>3, <3>6, <4>2, <4>3
    <3>8. (own_fb[f] - n) % Word = own_fb[f] - n
      BY <3>3, <3>6, <3>7, AllocatorSizes
    <3> HIDE DEF n, a
    <3>9. Contiguous'
      <4>1. fb' = 0 .. nb_fb_queues' - 1
        BY <1>0, <3>1, <3>2, <3>3, <3>5 DEF TypeOK
      <4>2. \A p \in fb' : p \in lost.pipes \/ \E g \in Handles : p \in own_pipes'[g]
        BY <1>0, <3>1 DEF Contiguous, TypeOK
      <4>3. nb_fb_queues' <= NbPipes
        BY <1>0, <3>3, <3>5, AllocatorSizes DEF Contiguous, TypeOK
      <4> QED BY <3>1, <3>4, <4>1, <4>2, <4>3 DEF Contiguous
    <3>10. FbCounted'
      <4>1. ASSUME NEW g \in Handles, g # f
            PROVE  /\ fb' \cap own_pipes'[g] = fb \cap own_pipes[g]
                   /\ own_fb'[g] = own_fb[g]
        BY <1>0, <3>1, <4>1 DEF TypeOK, PipeParts
      <4>2. fb' \cap own_pipes'[f] = (fb \cap own_pipes[f]) \ {a}
        BY <1>0, <3>1 DEF TypeOK
      <4>3. own_fb'[f] = own_fb[f] - n
        BY <1>0, <3>1, <3>8 DEF TypeOK
      <4>4. own_fb'[f] = Cardinality(fb' \cap own_pipes'[f])
        BY <3>7, <4>2, <4>3
      <4> QED BY <1>0, <3>4, <4>1, <4>4 DEF FbCounted
    <3>11. GivesUpLast'
      BY <1>0, <2>a, <3>1 DEF GivesUpLast, TypeOK, PipeOps
    <3> QED BY <3>9, <3>10, <3>11
  <2>7. CASE chr_release(f) \/ ReleaseLoad(f) \/ ReleaseStore(f)
    <3>1. \A g \in Handles : /\ InAlloc(g)' <=> InAlloc(g)
                             /\ InAlloc(g) => arg'[g] = arg[g]
      BY <1>0, <2>7 DEF chr_release, ReleaseLoad, ReleaseStore, Locked, TypeOK, InAlloc
    <3>2. GivesUpLast'
      BY <1>0, <2>7
      DEF chr_release, ReleaseLoad, ReleaseStore, Locked, TypeOK, GivesUpLast
    <3> QED BY <1>0, <2>7, <3>1, <3>2, FbUntouched
            DEF chr_release, ReleaseLoad, ReleaseStore
  <2>8. CASE ReleaseDone(f)
    <3>1. /\ pc[f] = "release" /\ op[f] = "release" /\ op[f] \in PipeOps
          /\ own_pipes' = [own_pipes EXCEPT ![f] = {}] /\ lost' = lost
          /\ own_fb' = [own_fb EXCEPT ![f] = 0]
          /\ nb_fb_queues' = (nb_fb_queues - own_fb[f]) % Word
          /\ fb' = fb \ own_pipes[f]
          /\ pc' = [pc EXCEPT ![f] = "closed"] /\ op' = [op EXCEPT ![f] = "none"]
          /\ arg' = [arg EXCEPT ![f] = 0]
      BY <1>0, <2>8 DEF ReleaseDone, Up, Return, OpAt, Releasing, PipeOps
    <3>2. fb = 0 .. nb_fb_queues - 1 /\ nb_fb_queues \in 0 .. Word - 1
      BY <1>0, <2>b, <3>1 DEF TypeOK
    <3>3. \A g \in Handles : ~InAlloc(g) /\ ~InAlloc(g)'
      BY <1>0, <2>a, <3>1 DEF InAlloc, TypeOK
    <3>4. own_fb[f] = Cardinality(fb \cap own_pipes[f])
      BY <1>0, <3>3, FbFinite DEF FbCounted
    <3> DEFINE S == fb \cap own_pipes[f]
    <3>5. \E j \in 0 .. nb_fb_queues : S = j .. nb_fb_queues - 1
      <4>1. CASE S = {}
        BY <3>2, <4>1
      <4>2. CASE S # {}
        <5>1. S \subseteq Nat
          BY <3>2
        <5>2. Min(S) \in S /\ \A y \in S : Min(S) <= y
          BY <4>2, <5>1, MinNat
        <5>3. PICK j \in S : \A y \in S : j <= y
          BY <5>2
        <5>4. j \in 0 .. nb_fb_queues - 1
          BY <3>2
        <5>5. ASSUME NEW y \in j .. nb_fb_queues - 1 PROVE y \in S
          <6>1. y \in fb
            BY <3>2, <5>4
          <6>2. y \notin own_pipes[f] => y < j
            BY <1>0, <3>1, <6>1 DEF GivesUpLast
          <6> QED BY <3>2, <5>4, <6>1, <6>2
        <5>6. S \subseteq j .. nb_fb_queues - 1
          BY <3>2, <5>3, <5>4
        <5> HIDE DEF S
        <5>7. S = j .. nb_fb_queues - 1
          BY <5>5, <5>6
        <5> QED BY <3>2, <5>4, <5>7
      <4> QED BY <4>1, <4>2
    <3>6. PICK j \in 0 .. nb_fb_queues : S = j .. nb_fb_queues - 1
      BY <3>5
    <3>7. own_fb[f] = nb_fb_queues - j
      <4>1. Cardinality(j .. nb_fb_queues - 1)
              = IF j > nb_fb_queues - 1 THEN 0 ELSE (nb_fb_queues - 1) - j + 1
        BY <3>2, FS_Interval
      <4>2. own_fb[f] = Cardinality(j .. nb_fb_queues - 1)
        <5> HIDE DEF S
        <5>1. own_fb[f] = Cardinality(S)
          BY <3>4 DEF S
        <5> QED BY <3>6, <5>1
      <4>3. (j > nb_fb_queues - 1) => nb_fb_queues - j = 0
        BY <3>2
      <4>4. (nb_fb_queues - 1) - j + 1 = nb_fb_queues - j
        BY <3>2
      <4> QED BY <4>1, <4>2, <4>3, <4>4
    <3>8. nb_fb_queues' = j
      <4>1. nb_fb_queues - own_fb[f] = j
        BY <3>2, <3>7
      <4> QED BY <3>1, <3>2, <4>1, AllocatorSizes
    <3>9. fb' = 0 .. j - 1
      BY <3>1, <3>2, <3>6
    <3>10. Contiguous'
      <4>1. \A p \in fb' : p \in lost.pipes \/ \E g \in Handles : p \in own_pipes'[g]
        BY <1>0, <3>1 DEF Contiguous, TypeOK
      <4>2. nb_fb_queues' <= NbPipes
        BY <1>0, <3>2, <3>8, AllocatorSizes DEF Contiguous
      <4> QED BY <3>1, <3>3, <3>8, <3>9, <4>1, <4>2 DEF Contiguous
    <3>11. FbCounted'
      <4>1. ASSUME NEW g \in Handles, g # f
            PROVE  /\ fb' \cap own_pipes'[g] = fb \cap own_pipes[g]
                   /\ own_fb'[g] = own_fb[g]
        BY <1>0, <3>1, <4>1 DEF TypeOK, PipeParts
      <4>2. own_fb'[f] = 0 /\ fb' \cap own_pipes'[f] = {}
        BY <1>0, <3>1 DEF TypeOK
      <4>3. own_fb'[f] = Cardinality(fb' \cap own_pipes'[f])
        BY <4>2, FS_EmptySet
      <4> QED BY <1>0, <3>3, <4>1, <4>3 DEF FbCounted
    <3>12. GivesUpLast'
      BY <1>0, <2>a, <3>1 DEF GivesUpLast, TypeOK, PipeOps
    <3> QED BY <3>10, <3>11, <3>12
  <2>9. CASE set_rr_status(f) \/ get_rr_status(f) \/ get_nb_fallback_queues(f)
    <3>1. \A g \in Handles : /\ InAlloc(g)' <=> InAlloc(g)
                             /\ InAlloc(g) => arg'[g] = arg[g]
      BY <1>0, <2>9
      DEF set_rr_status, get_rr_status, get_nb_fallback_queues, TypeOK, InAlloc
    <3>2. GivesUpLast'
      BY <1>0, <2>9
      DEF set_rr_status, get_rr_status, get_nb_fallback_queues, TypeOK, GivesUpLast
    <3> QED BY <1>0, <2>9, <3>1, <3>2, FbUntouched
            DEF set_rr_status, get_rr_status, get_nb_fallback_queues
  <2>10. CASE SendConfig(f)
    <3>1. \A g \in Handles : /\ InAlloc(g)' <=> InAlloc(g)
                             /\ InAlloc(g) => arg'[g] = arg[g]
      BY <1>0, <2>10 DEF SendConfig, Return, TypeOK, InAlloc
    <3>2. GivesUpLast'
      BY <1>0, <2>10 DEF SendConfig, Return, TypeOK, GivesUpLast
    <3> QED BY <1>0, <2>10, <3>1, <3>2, FbUntouched DEF SendConfig
  <2> QED BY <1>4, <2>1, <2>2, <2>3, <2>4, <2>5, <2>6, <2>7, <2>8, <2>9, <2>10
          DEF CallStep
<1>5. CASE UNCHANGED vars
  <2>1. GivesUpLast'
    BY <1>0, <1>5 DEF vars, GivesUpLast
  <2> QED BY <1>0, <1>5, <2>1, FbUntouched DEF vars, InAlloc
<1> QED BY <1>1, <1>2, <1>3, <1>4, <1>5
        DEF Next, Open, AllocateNotifBuf, FreeNotifBuf, Close, AllocatePipe,
            FreePipe, SetRoundRobin

\* For any number of processes, the fallback pipes are the first nb_fb_queues
\* pipes and each file counts its own, if pipes are changed one process at a time
\* and the last fallback pipe is given up first.
THEOREM FbInvariant ==
  ASSUME PipeCallers = 1, LastFirst
  PROVE  Spec => []FbInv
<1>1. FbInv /\ [Next]_vars => FbInv'
  <2> SUFFICES ASSUME FbInv, [Next]_vars PROVE FbInv'
    OBVIOUS
  <2>1. PipeInv'
    BY NextType, NextOneCaller, NextPipes DEF FbInv, PipeInv
  <2> QED BY <2>1, NextFb DEF FbInv
<1> QED BY <1>1, InitFb, PTL DEF Spec

-----------------------------------------------------------------------------
(* The configuration of the NIC.                                            *)

\* A step that leaves what the NIC should know alone.
LEMMA NicUntouched ==
  ASSUME NicOK, UNCHANGED <<nb_fb_queues, enable_rr, nic>>, stale => stale',
         \A f \in Handles : pc[f] \in {"mark", "store", "get_rr", "get_nb", "send"}
                            => pc'[f] \in {"mark", "store", "get_rr", "get_nb", "send"}
  PROVE  NicOK'
BY DEF NicOK

LEMMA NextSteer ==
  ASSUME FbInv, CfgOK, NicOK, [Next]_vars
  PROVE  CfgOK' /\ NicOK'
<1> USE DEF devVars, ownVars, callVars, histVars
<1>0. TypeOK /\ OneCaller /\ OpAt /\ FbCounted
  BY DEF FbInv, PipeInv, TypeInv
<1>a. \A f \in Handles : pc[f] \in {"get_nb", "send"} => op[f] \in PipeOps
  BY <1>0 DEF OpAt, PipeOps
<1>b. {"set_rr", "clear_rr"} \subseteq PipeOps
  BY DEF PipeOps
<1>1. ASSUME NEW f \in Handles, NEW from \in {"closed", "idle"}, NEW o, NEW x,
             Enter(f, from, o, x),
             cfg' = cfg \/ cfg' = [cfg EXCEPT ![f] = [nb |-> nb_fb_queues,
                                                      rr |-> o = "set_rr"]],
             o \in {"set_rr", "clear_rr"} =>
               cfg' = [cfg EXCEPT ![f] = [nb |-> nb_fb_queues, rr |-> o = "set_rr"]]
      PROVE  CfgOK' /\ NicOK'
  <2>1. CfgOK'
    BY <1>0, <1>1 DEF Enter, CfgOK, TypeOK
  <2>2. NicOK'
    BY <1>0, <1>1, NicUntouched DEF Enter, TypeOK
  <2> QED BY <2>1, <2>2
<1>2. ASSUME NEW f \in Handles, Down(f) PROVE CfgOK' /\ NicOK'
  <2>1. CfgOK'
    BY <1>0, <1>2 DEF Down, CfgOK, TypeOK
  <2>2. NicOK'
    BY <1>0, <1>2, NicUntouched DEF Down, TypeOK
  <2> QED BY <2>1, <2>2
<1>3. ASSUME NEW f \in Handles, Interrupted(f) PROVE CfgOK' /\ NicOK'
  <2>1. CfgOK'
    BY <1>0, <1>3 DEF Interrupted, Return, CfgOK, TypeOK
  <2>2. NicOK'
    BY <1>0, <1>3, NicUntouched DEF Interrupted, Return, TypeOK
  <2> QED BY <2>1, <2>2
<1>4. ASSUME NEW f \in Handles, CallStep(f) PROVE CfgOK' /\ NicOK'
  <2>a. op[f] \in PipeOps => \A g \in Handles \ {f} : op[g] \notin PipeOps
    BY <1>0 DEF OneCaller
  <2>1. CASE chr_open(f) \/ alloc_notif_buffer(f) \/ TakeRing(f) \/ free_notif_buffer(f)
             \/ alloc_pipe(f) \/ MarkLoad(f) \/ MarkStore(f) \/ free_pipe(f)
             \/ chr_release(f) \/ ReleaseLoad(f) \/ ReleaseStore(f)
    <3>1. CfgOK'
      BY <1>0, <2>1
      DEF chr_open, alloc_notif_buffer, TakeRing, free_notif_buffer, alloc_pipe,
          MarkLoad, MarkStore, free_pipe, chr_release, ReleaseLoad, ReleaseStore, Up,
          Return, Locked, TypeOK, CfgOK
    <3>2. NicOK'
      BY <1>0, <2>1, NicUntouched
      DEF chr_open, alloc_notif_buffer, TakeRing, free_notif_buffer, alloc_pipe,
          MarkLoad, MarkStore, free_pipe, chr_release, ReleaseLoad, ReleaseStore, Up,
          Return, Locked, TypeOK
    <3> QED BY <3>1, <3>2
  <2>2. CASE alloc_fb(f)
    <3>1. op[f] \in PipeOps /\ pc[f] = "locked" /\ op[f] = "alloc_fb"
      BY <2>2 DEF alloc_fb, Locked, PipeOps
    <3>2. CASE Unmarked # {} /\ Min(Unmarked) = nb_fb_queues
      <4>1. /\ pc' = [pc EXCEPT ![f] = "mark"] /\ op' = op /\ cfg' = cfg
            /\ enable_rr' = enable_rr
        BY <2>2, <3>2 DEF alloc_fb
      <4>2. CfgOK'
        BY <1>0, <1>a, <1>b, <2>a, <3>1, <4>1 DEF TypeOK, CfgOK
      <4>3. NicOK'
        BY <1>0, <4>1 DEF NicOK, TypeOK
      <4> QED BY <4>2, <4>3
    <3>3. CASE ~(Unmarked # {} /\ Min(Unmarked) = nb_fb_queues)
      <4>1. CfgOK'
        BY <1>0, <2>2, <3>1, <3>3 DEF alloc_fb, Up, Return, TypeOK, CfgOK
      <4>2. NicOK'
        BY <1>0, <2>2, <3>1, <3>3, NicUntouched DEF alloc_fb, Up, Return, TypeOK
      <4> QED BY <4>1, <4>2
    <3> QED BY <3>2, <3>3
  <2>3. CASE FreeStore(f)
    <3>1. /\ pc[f] = "unmark" /\ op[f] = "free_pipe" /\ op[f] \in PipeOps
          /\ pc' = [pc EXCEPT ![f] = "get_rr"] /\ op' = op /\ cfg' = cfg
          /\ enable_rr' = enable_rr
      BY <1>0, <2>3 DEF FreeStore, OpAt, PipeOps
    <3>2. CfgOK'
      BY <1>0, <1>a, <1>b, <2>a, <3>1 DEF TypeOK, CfgOK
    <3>3. NicOK'
      BY <1>0, <3>1 DEF NicOK, TypeOK
    <3> QED BY <3>2, <3>3
  <2>4. CASE ReleaseDone(f)
    <3>1. /\ pc[f] = "release" /\ op[f] = "release" /\ op[f] \in PipeOps
          /\ pc' = [pc EXCEPT ![f] = "closed"] /\ op' = [op EXCEPT ![f] = "none"]
          /\ cfg' = cfg /\ enable_rr' = enable_rr /\ nic' = nic
          /\ stale' = (stale \/ own_pipes[f] # {})
          /\ nb_fb_queues' = (nb_fb_queues - own_fb[f]) % Word
      BY <1>0, <2>4 DEF ReleaseDone, Up, Return, OpAt, Releasing, PipeOps
    <3>2. CfgOK'
      BY <1>0, <1>a, <1>b, <2>a, <3>1 DEF TypeOK, CfgOK
    <3>3. CASE own_pipes[f] = {}
      <4>1. fb \cap own_pipes[f] = {} /\ ~InAlloc(f)
        BY <3>1, <3>3 DEF InAlloc
      <4>2. own_fb[f] = 0
        BY <1>0, <4>1, FS_EmptySet DEF FbCounted
      <4>3. nb_fb_queues' = nb_fb_queues
        BY <1>0, <3>1, <4>2, AllocatorSizes DEF TypeOK
      <4> QED BY <1>0, <3>1, <3>2, <4>3, NicUntouched DEF TypeOK
    <3>4. CASE own_pipes[f] # {}
      BY <3>1, <3>2, <3>4 DEF NicOK
    <3> QED BY <3>3, <3>4
  <2>5. CASE set_rr_status(f)
    <3>1. /\ pc[f] = "locked" /\ op[f] \in {"set_rr", "clear_rr"}
          /\ pc' = [pc EXCEPT ![f] = "send"] /\ op' = op /\ cfg' = cfg
          /\ enable_rr' = (op[f] = "set_rr") /\ nb_fb_queues' = nb_fb_queues
      BY <2>5 DEF set_rr_status
    <3>2. CfgOK'
      BY <1>0, <1>a, <1>b, <2>a, <3>1 DEF TypeOK, CfgOK
    <3>3. NicOK'
      BY <1>0, <3>1 DEF NicOK, TypeOK
    <3> QED BY <3>2, <3>3
  <2>6. CASE get_rr_status(f)
    <3>1. /\ pc[f] = "get_rr"
          /\ pc' = [pc EXCEPT ![f] = "get_nb"] /\ op' = op
          /\ cfg' = [cfg EXCEPT ![f].rr = enable_rr]
          /\ enable_rr' = enable_rr /\ nb_fb_queues' = nb_fb_queues
      BY <2>6 DEF get_rr_status
    <3>2. CfgOK'
      BY <1>0, <3>1 DEF TypeOK, CfgOK, Configs
    <3>3. NicOK'
      BY <1>0, <3>1 DEF NicOK, TypeOK
    <3> QED BY <3>2, <3>3
  <2>7. CASE get_nb_fallback_queues(f)
    <3>1. /\ pc[f] = "get_nb"
          /\ pc' = [pc EXCEPT ![f] = "send"] /\ op' = op
          /\ cfg' = [cfg EXCEPT ![f].nb = nb_fb_queues]
          /\ enable_rr' = enable_rr /\ nb_fb_queues' = nb_fb_queues
      BY <2>7 DEF get_nb_fallback_queues
    <3>2. cfg'[f] = [nb |-> nb_fb_queues, rr |-> enable_rr]
      BY <1>0, <3>1 DEF TypeOK, CfgOK, Configs
    <3>3. CfgOK'
      BY <1>0, <3>1, <3>2 DEF TypeOK, CfgOK
    <3>4. NicOK'
      BY <1>0, <3>1 DEF NicOK, TypeOK
    <3> QED BY <3>3, <3>4
  <2>8. CASE SendConfig(f)
    <3>1. /\ pc[f] = "send" /\ nic' = cfg[f]
          /\ pc' = [pc EXCEPT ![f] = "idle"] /\ op' = [op EXCEPT ![f] = "none"]
          /\ cfg' = [cfg EXCEPT ![f] = NoConfig]
          /\ enable_rr' = enable_rr /\ nb_fb_queues' = nb_fb_queues
      BY <2>8 DEF SendConfig, Return
    <3>2. CfgOK'
      BY <1>0, <3>1 DEF TypeOK, CfgOK
    <3>3. nic' = [nb |-> nb_fb_queues, rr |-> enable_rr]
      BY <3>1 DEF CfgOK
    <3>4. NicOK'
      BY <3>1, <3>3 DEF NicOK
    <3> QED BY <3>2, <3>4
  <2> QED BY <1>4, <2>1, <2>2, <2>3, <2>4, <2>5, <2>6, <2>7, <2>8 DEF CallStep
<1>5. CASE UNCHANGED vars
  <2>1. CfgOK'
    BY <1>5 DEF vars, CfgOK
  <2> QED BY <1>0, <1>5, <2>1, NicUntouched DEF vars
<1> QED BY <1>1, <1>2, <1>3, <1>4, <1>5
        DEF Next, Open, AllocateNotifBuf, FreeNotifBuf, Close, AllocatePipe,
            FreePipe, SetRoundRobin

\* configure_fallback_queues never steers past the last of nb fallback pipes.
LEMMA MaskBelow ==
  ASSUME NEW nb \in Nat \ {0}
  PROVE  fallback_queue_mask(nb) \in 0 .. nb - 1
<1> DEFINE S == {2 ^ k : k \in 0 .. nb} \cap 1 .. nb
<1>1. 1 \in S
  <2>1. 2 ^ 0 = 1
    OBVIOUS
  <2>2. 0 \in 0 .. nb /\ 1 \in 1 .. nb
    OBVIOUS
  <2>3. 2 ^ 0 \in {2 ^ k : k \in 0 .. nb}
    BY <2>2, Zenon
  <2> QED BY <2>1, <2>2, <2>3, Zenon
<1> DEFINE T == {nb - x : x \in S}
<1>2. T \subseteq Nat /\ T # {}
  BY <1>1
<1>3. Min(T) \in T /\ \A y \in T : Min(T) <= y
  BY <1>2, MinNat
<1>4. PICK x \in S : Min(T) = nb - x
  BY <1>3
<1>5. \A y \in S : x >= y
  <2> TAKE y \in S
  <2>1. nb - y \in T
    OBVIOUS
  <2>2. nb - x <= nb - y
    BY <1>3, <1>4, <2>1
  <2>3. x \in 1 .. nb /\ y \in 1 .. nb
    OBVIOUS
  <2> HIDE DEF S, T
  <2> QED BY <2>2, <2>3
<1>6. S \subseteq 1 .. nb
  OBVIOUS
<1> HIDE DEF T, S
<1>7. Max(S) \in S
  BY <1>5 DEF Max
<1>8. fallback_queue_mask(nb) = Max(S) - 1
  BY DEF fallback_queue_mask, S
<1>9. PICK m \in 1 .. nb : m = Max(S)
  BY <1>6, <1>7
<1>10. fallback_queue_mask(nb) = m - 1
  BY <1>8, <1>9
<1> QED BY <1>10

\* While no call is pending and no process has died with pipes since the last
\* configuration, the flow director sends packets that match no flow to fallback
\* pipes only, drops them only if there is none, and uses the round-robin status
\* the device has: for any number of processes and pipes, if pipes are changed
\* one process at a time and the last fallback pipe is given up first.
THEOREM FallbackSteered ==
  ASSUME PipeCallers = 1, LastFirst
  PROVE  Spec => []FallbackSteering
<1>1. Init => SteerInv
  BY InitFb DEF Init, NoConfig, SteerInv, CfgOK, NicOK
<1>2. SteerInv /\ [Next]_vars => SteerInv'
  <2> SUFFICES ASSUME SteerInv, [Next]_vars PROVE SteerInv'
    OBVIOUS
  <2>1. PipeInv'
    BY NextType, NextOneCaller, NextPipes DEF SteerInv, FbInv, PipeInv
  <2> QED BY <2>1, NextFb, NextSteer DEF SteerInv, FbInv
<1>3. SteerInv => FallbackSteering
  <2> SUFFICES ASSUME SteerInv, Quiet, ~stale
               PROVE  /\ FallbackTargets \subseteq fb
                      /\ FallbackTargets = {} => fb = {}
                      /\ nic.rr = enable_rr
    BY DEF FallbackSteering
  <2>1. nic = [nb |-> nb_fb_queues, rr |-> enable_rr]
    BY DEF SteerInv, NicOK, Quiet
  <2>2. fb = 0 .. nb_fb_queues - 1 /\ nb_fb_queues \in Nat
    BY DEF SteerInv, FbInv, PipeInv, TypeInv, TypeOK, Contiguous, InAlloc, Quiet
  <2>3. CASE nb_fb_queues = 0
    BY <2>1, <2>2, <2>3 DEF FallbackTargets
  <2>4. CASE nb_fb_queues # 0
    <3>1. fallback_queue_mask(nb_fb_queues) \in 0 .. nb_fb_queues - 1
      BY <2>2, <2>4, MaskBelow
    <3>2. FallbackTargets = 0 .. fallback_queue_mask(nb_fb_queues)
      BY <2>1, <2>4 DEF FallbackTargets
    <3> QED BY <2>1, <2>2, <3>1, <3>2
  <2> QED BY <2>3, <2>4
<1> QED BY <1>1, <1>2, <1>3, PTL DEF Spec

\* Between calls, the device's vector marks exactly the pipes that an open file
\* owns or that were lost when the close of their owner was interrupted.
THEOREM NoPipeLeaks ==
  ASSUME PipeCallers = 1
  PROVE  Spec => [](Quiet => pipe_status = (UNION {own_pipes[f] : f \in Handles})
                                             \cup lost.pipes)
<1>1. PipeInv => (Quiet => pipe_status = (UNION {own_pipes[f] : f \in Handles})
                                           \cup lost.pipes)
  <2> SUFFICES ASSUME PipeInv, Quiet
               PROVE  pipe_status = (UNION {own_pipes[f] : f \in Handles}) \cup lost.pipes
    OBVIOUS
  <2>1. \A f \in Handles : own_pipes[f] \subseteq pipe_status
    BY DEF PipeInv, PipeParts, Quiet, Releasing
  <2> QED BY <2>1 DEF PipeInv, PipeParts
<1> QED BY <1>1, PipeInvariant, PTL

-----------------------------------------------------------------------------
(* The count of fallback pipes.                                             *)

\* The device's count is what the open files count and what was lost, modulo the
\* width of the counter.
CountInv ==
  nb_fb_queues = (SumFunctionOnSet(own_fb, Handles) + lost.fb) % Word

\* The device and one file change their counts by as much.
LEMMA CountMoves ==
  ASSUME TypeOK, CountInv, NEW f \in Handles, NEW d \in Int,
         nb_fb_queues' = (nb_fb_queues + d) % Word,
         own_fb' = [own_fb EXCEPT ![f] = (own_fb[f] + d) % Word],
         UNCHANGED lost
  PROVE  CountInv'
<1> DEFINE S == SumFunctionOnSet(own_fb, Handles)
           a == own_fb[f]
           b == (a + d) % Word
           L == lost.fb
<1>1. IsFiniteSet(Handles) /\ Word \in Nat /\ Word >= 1
  BY AllocatorSizes
<1>2. own_fb \in [Handles -> Int] /\ a \in Int /\ L \in Int
  BY DEF TypeOK
<1>3. S \in Int
  BY <1>1, <1>2, SumType
<1>4. b \in Int
  BY <1>2, ModWord
<1>5. SumFunctionOnSet(own_fb', Handles) = (S - a) + b
  <2> DEFINE h == own_fb'
  <2>1. h \in [Handles -> Int] /\ h[f] = b /\ \A g \in Handles \ {f} : h[g] = own_fb[g]
    <3> HIDE DEF b
    <3> QED BY <1>2, <1>4 DEF b
  <2> HIDE DEF b, h
  <2>2. SumFunctionOnSet(h, Handles) = SumFunctionOnSet(own_fb, Handles) - own_fb[f] + h[f]
    BY <1>1, <1>2, <2>1, SumChange
  <2> QED BY <2>1, <2>2 DEF h
<1>6. ((S - a) + b + L) % Word = (S + L + d) % Word
  <2> HIDE DEF S, a, L
  <2> DEFINE x == a + d
             y == (S - a) + L
  <2>1. x \in Int /\ y \in Int /\ x + y = S + L + d
    BY <1>2, <1>3
  <2>2. b + y = (S - a) + b + L
    BY <1>2, <1>3, <1>4
  <2> HIDE DEF y
  <2>3. (b + y) % Word = (x + y) % Word
    <3> HIDE DEF x
    <3> QED BY <1>1, <2>1, ModAdd DEF b, x
  <2> QED BY <2>1, <2>2, <2>3
<1> HIDE DEF S, a, b, L
<1>7. (((S + L) % Word) + d) % Word = (S + L + d) % Word
  <2>1. S + L \in Int
    BY <1>2, <1>3
  <2> QED BY <1>1, <2>1, ModAdd
<1>8. nb_fb_queues = (S + L) % Word /\ lost'.fb = L
  BY DEF CountInv, S, L
<1> QED BY <1>5, <1>6, <1>7, <1>8 DEF CountInv

\* What a file counts is lost.
LEMMA CountLost ==
  ASSUME TypeOK, CountInv, NEW f \in Handles,
         lost'.fb = (lost.fb + own_fb[f]) % Word,
         own_fb' = [own_fb EXCEPT ![f] = 0], UNCHANGED nb_fb_queues
  PROVE  CountInv'
<1> DEFINE S == SumFunctionOnSet(own_fb, Handles)
           a == own_fb[f]
           L == lost.fb
<1>1. IsFiniteSet(Handles) /\ Word \in Nat /\ Word >= 1
  BY AllocatorSizes
<1>2. own_fb \in [Handles -> Int] /\ a \in Int /\ L \in Int
  BY DEF TypeOK
<1>3. S \in Int
  BY <1>1, <1>2, SumType
<1>4. SumFunctionOnSet(own_fb', Handles) = (S - a) + 0
  <2> DEFINE h == own_fb'
  <2>1. h \in [Handles -> Int] /\ h[f] = 0 /\ \A g \in Handles \ {f} : h[g] = own_fb[g]
    BY <1>2
  <2> HIDE DEF h
  <2>2. SumFunctionOnSet(h, Handles) = SumFunctionOnSet(own_fb, Handles) - own_fb[f] + h[f]
    BY <1>1, <1>2, <2>1, SumChange
  <2> QED BY <2>1, <2>2 DEF h
<1> HIDE DEF S, a, L
<1>5. (((L + a) % Word) + (S - a)) % Word = (S + L) % Word
  <2> DEFINE x == L + a
             y == S - a
  <2>1. x \in Int /\ y \in Int /\ x + y = S + L
    BY <1>2, <1>3
  <2> HIDE DEF x, y
  <2>2. ((x % Word) + y) % Word = (x + y) % Word
    BY <1>1, <2>1, ModAdd
  <2> QED BY <2>1, <2>2 DEF x, y
<1>6. nb_fb_queues = (S + L) % Word /\ lost'.fb = (L + a) % Word
  BY DEF CountInv, S, L, a
<1>7. (L + a) % Word \in Int
  BY <1>2, ModWord
<1>8. (S - a) + 0 + ((L + a) % Word) = ((L + a) % Word) + (S - a)
  BY <1>2, <1>3, <1>7
<1> QED BY <1>4, <1>5, <1>6, <1>8 DEF CountInv

LEMMA InitCount == Init => CountInv
<1> SUFFICES ASSUME Init PROVE CountInv
  OBVIOUS
<1>1. SumFunctionOnSet(own_fb, Handles) = 0
  BY AllocatorSizes, SumOfZeros DEF Init
<1>2. nb_fb_queues = 0 /\ lost.fb = 0 /\ 0 % Word = 0
  BY AllocatorSizes DEF Init
<1> QED BY <1>1, <1>2 DEF CountInv

LEMMA NextCount == TypeOK /\ CountInv /\ [Next]_vars => CountInv'
<1> SUFFICES ASSUME TypeOK, CountInv, [Next]_vars PROVE CountInv'
  OBVIOUS
<1> USE DEF devVars, ownVars, callVars, histVars
<1>0. ASSUME UNCHANGED <<nb_fb_queues, own_fb, lost>> PROVE CountInv'
  BY <1>0 DEF CountInv
<1>1. ASSUME NEW f \in Handles, alloc_fb(f) PROVE CountInv'
  <2>1. CASE UNCHANGED <<nb_fb_queues, own_fb>>
    BY <1>0, <1>1, <2>1 DEF alloc_fb
  <2>2. CASE /\ nb_fb_queues' = (nb_fb_queues + 1) % Word
             /\ own_fb' = [own_fb EXCEPT ![f] = (@ + 1) % Word]
    <3>1. own_fb' = [own_fb EXCEPT ![f] = (own_fb[f] + 1) % Word] /\ UNCHANGED lost
      BY <1>1, <2>2 DEF alloc_fb
    <3>2. 1 \in Int
      OBVIOUS
    <3> QED BY <2>2, <3>1, <3>2, CountMoves
  <2> QED BY <1>1, <2>1, <2>2 DEF alloc_fb
<1>2. ASSUME NEW f \in Handles, FreeStore(f) PROVE CountInv'
  <2> DEFINE n == IF arg[f] < nb_fb_queues THEN 1 ELSE 0
  <2>1. /\ nb_fb_queues' = (nb_fb_queues - n) % Word
        /\ own_fb' = [own_fb EXCEPT ![f] = (own_fb[f] - n) % Word]
        /\ UNCHANGED lost
    BY <1>2 DEF FreeStore
  <2>2. n \in Int /\ nb_fb_queues \in Int /\ own_fb[f] \in Int
    BY DEF TypeOK
  <2> HIDE DEF n
  <2>3. -n \in Int /\ nb_fb_queues - n = nb_fb_queues + (-n)
        /\ own_fb[f] - n = own_fb[f] + (-n)
    BY <2>2
  <2> QED BY <2>1, <2>3, CountMoves
<1>3. ASSUME NEW f \in Handles, ReleaseDone(f) PROVE CountInv'
  <2> DEFINE n == own_fb[f]
  <2>1. n \in Int /\ nb_fb_queues \in Int
    BY DEF TypeOK
  <2>2. -n \in Int /\ nb_fb_queues - n = nb_fb_queues + (-n) /\ (n + (-n)) % Word = 0
    BY <2>1, AllocatorSizes
  <2>3. /\ nb_fb_queues' = (nb_fb_queues - n) % Word
        /\ own_fb' = [own_fb EXCEPT ![f] = 0] /\ UNCHANGED lost
    BY <1>3 DEF ReleaseDone
  <2>4. own_fb' = [own_fb EXCEPT ![f] = (own_fb[f] + (-n)) % Word]
    BY <2>2, <2>3
  <2> HIDE DEF n
  <2> QED BY <2>2, <2>3, <2>4, CountMoves
<1>4. ASSUME NEW f \in Handles, Interrupted(f) PROVE CountInv'
  BY <1>4, CountLost DEF Interrupted
<1>5. ASSUME NEW f \in Handles,
             \/ chr_open(f) \/ alloc_notif_buffer(f) \/ TakeRing(f)
             \/ free_notif_buffer(f) \/ alloc_pipe(f) \/ MarkLoad(f) \/ MarkStore(f)
             \/ free_pipe(f) \/ chr_release(f) \/ ReleaseLoad(f) \/ ReleaseStore(f)
             \/ set_rr_status(f) \/ get_rr_status(f) \/ get_nb_fallback_queues(f)
             \/ SendConfig(f) \/ Down(f)
      PROVE  CountInv'
  BY <1>0, <1>5
     DEF chr_open, alloc_notif_buffer, TakeRing, free_notif_buffer, alloc_pipe,
         MarkLoad, MarkStore, free_pipe, chr_release, ReleaseLoad, ReleaseStore,
         set_rr_status, get_rr_status, get_nb_fallback_queues, SendConfig, Down
<1>6. ASSUME NEW f \in Handles, NEW from, NEW o, NEW x, Enter(f, from, o, x)
      PROVE  CountInv'
  BY <1>0, <1>6 DEF Enter
<1>7. CASE UNCHANGED vars
  BY <1>0, <1>7 DEF vars
<1> QED BY <1>1, <1>2, <1>3, <1>4, <1>5, <1>6, <1>7
        DEF Next, CallStep, Open, AllocateNotifBuf, FreeNotifBuf, Close,
            AllocatePipe, FreePipe, SetRoundRobin

\* The device's count of fallback pipes never drifts from the counts of the open
\* files and what interrupted closes left behind, for any number of processes,
\* whatever they do at the same time and however the counters wrap.
THEOREM CountNeverDrifts == Spec => []CountInv
<1>1. TypeInv /\ CountInv /\ [Next]_vars => TypeInv' /\ CountInv'
  BY NextType, NextCount DEF TypeInv
<1> QED BY <1>1, InitType, InitCount, PTL DEF Spec

\* No pipe leaks and no fallback pipe is counted twice or forgotten: between
\* calls, the marked pipes and the count are those of the open files, but for what
\* the interrupted close of a file left behind.
THEOREM PipesConserved ==
  ASSUME PipeCallers = 1
  PROVE  Spec => []PipesAccounted
<1>1. CountInv /\ (Quiet => pipe_status = (UNION {own_pipes[f] : f \in Handles})
                                           \cup lost.pipes)
        => PipesAccounted
  BY DEF CountInv, PipesAccounted
<1> QED BY <1>1, CountNeverDrifts, NoPipeLeaks, PTL
=============================================================================
