----------------------------- MODULE DeviceFile ------------------------------
(***************************************************************************)
(* The calls on open files of the character device that change the         *)
(* bookkeeping of a device: chr_open, chr_release, sel_dev, set_kmem_size, *)
(* chr_mmap and the SR-IOV ioctl, on top of the life of the module.  The   *)
(* allocator ioctls are in PipeAllocator, read and write in BarAccess, DMA *)
(* in KernelDma.                                                           *)
(*                                                                         *)
(* A handle is an open file used by one thread at a time.  The global lock *)
(* is held for one look-up only: such a section is one step.  What is done *)
(* under the semaphore of a device is a load and a store, because the      *)
(* semaphore has two units when the driver is built with DMA_SUPPORTED.    *)
(***************************************************************************)
EXTENDS DriverLife

CONSTANTS
  Handles,      \* files that can be open
  KmemUsers,    \* the handles that use kernel memory
  Sizes,        \* sizes passed to set_kmem_size
  MaxRegions,   \* bound: kernel memory regions that can exist per device
  MaxGhosts     \* bound: close(2) calls that a signal interrupts, per device

ASSUME FileAssumption ==
  /\ IsFiniteSet(Handles) /\ KmemUsers \subseteq Handles /\ Sizes \subseteq Nat
  /\ MaxRegions \in Nat /\ MaxGhosts \in Nat

VARIABLES
  pc,          \* per handle: where its call is
  dev,         \* per handle: chr_dev_bk->dev_bk, 0 when closed
  want,        \* per handle: new_bdf of sel_dev, or 0
  seen,        \* per handle: the counters as loaded under the semaphore
  kmem,        \* per device: kmem_info, its address a region or 0 (NULL)
  regions,     \* per device: regions that are allocated
  regs,        \* per device: the registers written by set_kmem_size
  arg,         \* per handle: the size asked for and old_info
  mapped,      \* per handle: the region its user has mapped, Unmapped if none
  ghosts       \* per device: handles closed without being counted down

kmemVars == <<kmem, regions, regs, arg, mapped>>
fileVars == <<pc, dev, want, seen, kmemVars, ghosts>>
vars == <<lifeVars, fileVars>>

Unmapped == [dev |-> 0, virt |-> 0]
NoKmem == [virt |-> 0, size |-> 0]
NoCounts == [d \in Devices |-> 0]
NoArg == [size |-> 0, old |-> NoKmem, addr |-> 0]
Registers == <<"rx_l", "rx_h", "tx_l", "tx_h">>
NoRegs == [r \in ToSet(Registers) |-> 0]
Kmems == [virt : 0 .. MaxRegions, size : Sizes \cup {0}]

Waits == {"open_down", "release_down", "kmem_down", "sel_first", "sel_second"}
Inside == {"open_in", "release_in", "kmem_in", "kmem_fix", "sel_in"}

FileTypeOK ==
  /\ LifeTypeOK
  /\ pc \in [Handles -> {"closed", "open", "sriov", "kmem_read"} \cup Waits
                        \cup Inside \cup ToSet(Registers)]
  /\ dev \in [Handles -> Devices \cup {0}] /\ want \in [Handles -> Devices \cup {0}]
  /\ seen \in [Handles -> [Devices -> Int]]
  /\ kmem \in [Devices -> Kmems] /\ regions \in [Devices -> SUBSET (1 .. MaxRegions)]
  /\ regs \in [Devices -> [ToSet(Registers) -> 0 .. MaxRegions]]
  /\ arg \in [Handles -> [size : Sizes \cup {0}, old : Kmems, addr : 0 .. MaxRegions]]
  /\ mapped \in [Handles -> [dev : Devices \cup {0}, virt : 0 .. MaxRegions]]
  /\ ghosts \in [Devices -> 0 .. MaxGhosts]

Init ==
  /\ LifeInit
  /\ pc = [h \in Handles |-> "closed"]
  /\ dev = [h \in Handles |-> 0] /\ want = [h \in Handles |-> 0]
  /\ seen = [h \in Handles |-> NoCounts]
  /\ kmem = [d \in Devices |-> NoKmem] /\ regions = [d \in Devices |-> {}]
  /\ regs = [d \in Devices |-> NoRegs]
  /\ arg = [h \in Handles |-> NoArg]
  /\ mapped = [h \in Handles |-> Unmapped]
  /\ ghosts = [d \in Devices |-> 0]

Goto(h, l) == pc' = [pc EXCEPT ![h] = l]
Lowest(S) == CHOOSE x \in S : \A y \in S : x <= y

-----------------------------------------------------------------------------
(* Entry of the calls, up to the semaphore.                                 *)

\* The device with the lowest BDF.  Without one, or without memory, the call
\* fails and leaves nothing.
chr_open(h) ==
  /\ pc[h] = "closed" /\ mod \in {"loading", "live"} /\ "node" \in glob
  /\ Tree # {}
  /\ dev' = [dev EXCEPT ![h] = Lowest(Tree)]
  /\ Goto(h, "open_down")
  /\ UNCHANGED <<lifeVars, want, seen, kmemVars, ghosts>>

\* The last reference to the file is gone: it is closed and not mapped.
chr_release(h) ==
  /\ pc[h] = "open" /\ mapped[h] = Unmapped
  /\ Goto(h, "release_down")
  /\ UNCHANGED <<lifeVars, dev, want, seen, kmemVars, ghosts>>

\* An unknown BDF and the selected one change nothing.
sel_dev(h, d) ==
  /\ pc[h] = "open" /\ d \in Tree /\ d # dev[h]
  /\ want' = [want EXCEPT ![h] = d]
  /\ Goto(h, "sel_first")
  /\ UNCHANGED <<lifeVars, dev, seen, kmemVars, ghosts>>

\* The user unmaps its memory before it asks for it to be freed.
set_kmem_size(h, size) ==
  /\ pc[h] = "open" /\ h \in KmemUsers
  /\ IF size = 0 THEN \A g \in Handles : mapped[g].dev # dev[h]
                 ELSE Cardinality(regions[dev[h]]) < MaxRegions
  /\ arg' = [arg EXCEPT ![h].size = size]
  /\ Goto(h, "kmem_down")
  /\ UNCHANGED <<lifeVars, dev, want, seen, kmem, regions, regs, mapped, ghosts>>

\* Only the size is checked.
chr_mmap(h) ==
  /\ pc[h] = "open" /\ h \in KmemUsers /\ mapped[h] = Unmapped
  /\ kmem[dev[h]].size # 0
  /\ mapped' = [mapped EXCEPT ![h] = [dev |-> dev[h], virt |-> kmem[dev[h]].virt]]
  /\ UNCHANGED <<lifeVars, pc, dev, want, seen, kmem, regions, regs, arg, ghosts>>

munmap(h) ==
  /\ pc[h] = "open" /\ mapped[h] # Unmapped
  /\ mapped' = [mapped EXCEPT ![h] = Unmapped]
  /\ UNCHANGED <<lifeVars, pc, dev, want, seen, kmem, regions, regs, arg, ghosts>>

-----------------------------------------------------------------------------
(* down_interruptible.                                                      *)

\* Mutant: the old device first, as if its BDF were always the lower one.
SelOrderOldFirst(h) == <<dev[h], want[h]>>

\* sel_dev takes the lower BDF first.
SelOrder(h) ==
  IF dev[h] < want[h] THEN <<dev[h], want[h]>> ELSE <<want[h], dev[h]>>

WaitsFor(h) ==
  CASE pc[h] = "sel_first" -> SelOrder(h)[1]
    [] pc[h] = "sel_second" -> SelOrder(h)[2]
    [] OTHER -> dev[h]

AfterDown == [open_down |-> "open_in", release_down |-> "release_in",
              kmem_down |-> "kmem_in", sel_first |-> "sel_second",
              sel_second |-> "sel_in"]

Available(d) == sem[d] > 0

\* The semaphore is had; the counters or kmem_info are loaded.
Down(h) ==
  /\ pc[h] \in Waits /\ Available(WaitsFor(h))
  /\ sem' = [sem EXCEPT ![WaitsFor(h)] = @ - 1]
  /\ IF pc[h] = "kmem_down"
     THEN arg' = [arg EXCEPT ![h].old = kmem[dev[h]]] /\ UNCHANGED seen
     ELSE seen' = [seen EXCEPT ![h] = cnt] /\ UNCHANGED arg
  /\ Goto(h, AfterDown[pc[h]])
  /\ UNCHANGED <<mod, stage, glob, held, present, probing, toProbe, cnt, dev, want,
                 kmem, regions, regs, mapped, ghosts>>

\* What a call interrupted at its second semaphore gives back.
GivenBack(h) == IF pc[h] = "sel_second" THEN {SelOrder(h)[1]} ELSE {}

\* A signal while it waits.  close(2) goes through all the same.
Interrupted(h) ==
  /\ pc[h] \in Waits /\ sem[WaitsFor(h)] = 0
  /\ pc[h] = "release_down" => ghosts[dev[h]] < MaxGhosts
  /\ sem' = [d \in Devices |-> IF d \in GivenBack(h) THEN sem[d] + 1 ELSE sem[d]]
  /\ ghosts' = IF pc[h] = "release_down" THEN [ghosts EXCEPT ![dev[h]] = @ + 1]
                                         ELSE ghosts
  /\ LET gone == pc[h] \in {"open_down", "release_down"}
     IN  /\ dev' = [dev EXCEPT ![h] = IF gone THEN 0 ELSE @]
         /\ Goto(h, IF gone THEN "closed" ELSE "open")
  /\ want' = [want EXCEPT ![h] = 0]
  /\ arg' = [arg EXCEPT ![h] = NoArg] /\ seen' = [seen EXCEPT ![h] = NoCounts]
  /\ UNCHANGED <<mod, stage, glob, held, present, probing, toProbe, cnt, kmem,
                 regions, regs, mapped>>

-----------------------------------------------------------------------------
(* What is done under the semaphore, up to and with its up.                 *)

\* Mutant: sel_dev counts the new device and forgets the old one.
CountedNewOnly(h) ==
  CASE pc[h] = "open_in" -> [d \in {dev[h]} |-> 1]
    [] pc[h] = "release_in" -> [d \in {dev[h]} |-> -1]
    [] pc[h] = "sel_in" -> [d \in {dev[h], want[h]} |-> IF d = want[h] THEN 1 ELSE 0]

\* How the counters change, per device whose semaphore is held.
Counted(h) ==
  CASE pc[h] = "open_in" -> [d \in {dev[h]} |-> 1]
    [] pc[h] = "release_in" -> [d \in {dev[h]} |-> -1]
    [] pc[h] = "sel_in" -> [d \in {dev[h], want[h]} |-> IF d = want[h] THEN 1 ELSE -1]

Count(h) ==
  /\ pc[h] \in {"open_in", "release_in", "sel_in"}
  /\ LET change == Counted(h)
     IN  /\ cnt' = [d \in Devices |-> IF d \in DOMAIN change
                                      THEN seen[h][d] + change[d] ELSE cnt[d]]
         /\ sem' = [d \in Devices |-> IF d \in DOMAIN change
                                      THEN sem[d] + 1 ELSE sem[d]]
  /\ dev' = [dev EXCEPT ![h] = CASE pc[h] = "open_in" -> @
                                 [] pc[h] = "release_in" -> 0
                                 [] OTHER -> want[h]]
  /\ want' = [want EXCEPT ![h] = 0] /\ seen' = [seen EXCEPT ![h] = NoCounts]
  /\ Goto(h, IF pc[h] = "release_in" THEN "closed" ELSE "open")
  /\ UNCHANGED <<mod, stage, glob, held, present, probing, toProbe, kmemVars, ghosts>>

\* Mutant: the region that is replaced is freed.
ReplacedFreed(old) == {old} \ {0}

\* Regions freed when a new one is there: none, the old one is forgotten.
Replaced(old) == {}

\* dma_alloc_coherent writes the address or NULL; size 0 frees the old region;
\* when dma_set_mask_and_coherent fails the call returns with the semaphore.
Outcomes(size) == IF size = 0 THEN {"free"} ELSE {"new"} \cup ({"kmem", "mask"} \cap Faults)

KmemAlloc(h) ==
  /\ pc[h] = "kmem_in"
  /\ \E outcome \in Outcomes(arg[h].size) :
       LET d == dev[h]
           old == arg[h].old.virt
           fresh == Lowest(1 .. MaxRegions \ regions[d])
       IN  /\ kmem' = [kmem EXCEPT ![d] =
                CASE outcome = "new" -> [@ EXCEPT !.virt = fresh]
                  [] outcome = "kmem" -> [@ EXCEPT !.virt = 0]
                  [] outcome = "free" -> NoKmem
                  [] outcome = "mask" -> @]
           /\ regions' = [regions EXCEPT ![d] =
                CASE outcome = "new" -> (@ \cup {fresh}) \ Replaced(old)
                  [] outcome = "free" -> @ \ {old}
                  [] OTHER -> @]
           /\ Goto(h, IF outcome = "mask" THEN "open" ELSE "kmem_fix")
  /\ UNCHANGED <<lifeVars, dev, want, seen, regs, arg, mapped, ghosts>>

\* Mutant: the old address is not restored.
RestoredNot(k, old) == k

\* kmem_info after a failed allocation.
Restored(k, old) == [k EXCEPT !.virt = old.virt]

\* The size, or the old address restored; then up.
KmemFix(h) ==
  /\ pc[h] = "kmem_fix"
  /\ LET d == dev[h]
     IN  /\ kmem' = [kmem EXCEPT ![d] =
              IF arg[h].size > 0 /\ @.virt = 0 THEN Restored(@, arg[h].old)
              ELSE [@ EXCEPT !.size = arg[h].size]]
         /\ sem' = [sem EXCEPT ![d] = @ + 1]
  /\ Goto(h, "kmem_read")
  /\ UNCHANGED <<mod, stage, glob, held, present, probing, toProbe, cnt, dev, want,
                 seen, regions, regs, arg, mapped, ghosts>>

-----------------------------------------------------------------------------
(* set_kmem_size after its up: the address is read again and written, for   *)
(* core 0, to four registers.                                               *)

KmemRead(h) ==
  /\ pc[h] = "kmem_read"
  /\ arg' = [arg EXCEPT ![h].addr = kmem[dev[h]].virt]
  /\ Goto(h, Registers[1])
  /\ UNCHANGED <<lifeVars, dev, want, seen, kmem, regions, regs, mapped, ghosts>>

KmemWrite(h) ==
  /\ pc[h] \in ToSet(Registers)
  /\ regs' = [regs EXCEPT ![dev[h]][pc[h]] = arg[h].addr]
  /\ LET i == CHOOSE j \in DOMAIN Registers : Registers[j] = pc[h]
     IN  IF i < Len(Registers)
         THEN Goto(h, Registers[i + 1]) /\ UNCHANGED arg
         ELSE Goto(h, "open") /\ arg' = [arg EXCEPT ![h] = NoArg]
  /\ UNCHANGED <<lifeVars, dev, want, seen, kmem, regions, mapped, ghosts>>

-----------------------------------------------------------------------------
(* SR-IOV, and the life of the module beside open files.                    *)

\* Devices in use: selected, found by a call that has not selected them yet, or
\* with memory that is mapped.
InUse == UNION {{dev[h], want[h], mapped[h].dev} : h \in Handles}

\* The bookkeeper is gone, and with it what is known of the device.  remove
\* frees the current region; the ones it replaced are lost, and the registers
\* keep their values until the next set_kmem_size.
Forgotten(ds) ==
  LET Cleared(f, v) == [d \in Devices |-> IF d \in ds THEN v ELSE f[d]]
  IN  /\ regions' = Cleared(regions, {}) /\ kmem' = Cleared(kmem, NoKmem)
      /\ regs' = Cleared(regs, NoRegs) /\ ghosts' = Cleared(ghosts, 0)
      /\ sem' = Cleared(sem, 0) /\ cnt' = Cleared(cnt, 0)

\* The PCI core does one thing at a time.
PciIdle ==
  /\ mod = "live" /\ probing = 0 /\ toProbe = {}
  /\ \A h \in Handles : pc[h] # "sriov"

\* The PCI core adds the virtual functions and probes them in this call.
sriov_enable(h) ==
  /\ pc[h] = "open" /\ dev[h] \notin Virtual /\ Virtual \cap present = {}
  /\ Virtual # {} /\ PciIdle
  /\ present' = present \cup Virtual /\ toProbe' = Virtual
  /\ Goto(h, "sriov")
  /\ UNCHANGED <<mod, stage, glob, held, probing, sem, cnt, dev, want, seen,
                 kmemVars, ghosts>>

sriov_enabled(h) ==
  /\ pc[h] = "sriov" /\ probing = 0 /\ toProbe = {}
  /\ Goto(h, "open")
  /\ UNCHANGED <<lifeVars, dev, want, seen, kmemVars, ghosts>>

\* They are removed; nobody uses one.
sriov_disable(h) ==
  /\ pc[h] = "open" /\ dev[h] \notin Virtual /\ Virtual \subseteq present
  /\ Virtual # {} /\ PciIdle
  /\ Virtual \cap InUse = {}
  /\ present' = present \ Virtual
  /\ Removed(Virtual) /\ Forgotten(Virtual)
  /\ UNCHANGED <<mod, stage, glob, probing, toProbe, pc, dev, want, seen, arg, mapped>>

\* rmmod: an open file keeps the module.
Unload ==
  /\ \A h \in Handles : pc[h] = "closed"
  /\ UnloadStart /\ UNCHANGED fileVars

UnloadDevices ==
  /\ UnloadDriver /\ Forgotten(Tree)
  /\ UNCHANGED <<pc, dev, want, seen, arg, mapped>>

KernelStep ==
  \/ /\ \/ \E d \in Devices : ProbeStart(d)
        \/ ProbeStep \/ ProbeFails
        \/ LoadStep \/ LoadFails \/ UnloadDone
     /\ UNCHANGED fileVars
  \/ UnloadDevices

-----------------------------------------------------------------------------
\* Steps of a call that are not held up.
HandleStep(h) ==
  \/ Count(h) \/ KmemAlloc(h) \/ KmemFix(h) \/ KmemRead(h)
  \/ KmemWrite(h) \/ sriov_enabled(h)

Next ==
  \/ Load /\ UNCHANGED fileVars
  \/ Unload
  \/ KernelStep
  \/ \E h \in Handles :
       \/ chr_open(h) \/ chr_release(h) \/ chr_mmap(h) \/ munmap(h)
       \/ \E d \in Devices : sel_dev(h, d)
       \/ \E size \in Sizes : set_kmem_size(h, size)
       \/ sriov_enable(h) \/ sriov_disable(h)
       \/ Down(h) \/ Interrupted(h) \/ HandleStep(h)

Spec == Init /\ [][Next]_vars

\* Nothing stops the kernel in a call; a semaphore serves its waiters in order.
FairSpec ==
  /\ Spec
  /\ WF_vars(KernelStep)
  /\ \A h \in Handles : WF_vars(HandleStep(h)) /\ SF_vars(Down(h))

-----------------------------------------------------------------------------
(* Properties.                                                              *)

\* chr_open_cnt is the "number of character device handles opened with this
\* device selected" (setup.h:170), plus those whose close was interrupted, also
\* while handles open, close and change devices at the same time.
CountsHandles ==
  \A d \in Tree :
    (\A h \in Handles : pc[h] \notin Inside) =>
    cnt[d] = Cardinality({h \in Handles : dev[h] = d /\ pc[h] # "open_down"})
             + ghosts[d]

\* "If the new memory region cannot be obtained, the old memory region will be
\* retained" (ioctl.c:850): outside of a call kmem_info names an allocated
\* region or none, and once memory was obtained the four registers name the
\* current region.
KmemConsistent ==
  \A d \in Devices :
    (\A h \in Handles : dev[h] = d => pc[h] \in {"open", "open_down", "release_down"}) =>
    /\ kmem[d].virt \in regions[d] \cup {0} /\ (kmem[d].virt = 0 <=> kmem[d].size = 0)
    /\ kmem[d].virt # 0 =>
         \A r \in ToSet(Registers) : regs[d][r] = kmem[d].virt

\* What a user has mapped stays allocated, also when the device's region is
\* replaced or a new one cannot be had, and when the user selects another device
\* in between.
MappedAllocated ==
  \A h \in Handles :
    mapped[h] # Unmapped => mapped[h].virt \in regions[mapped[h].dev]

\* Every call on a file returns: calls that take two semaphores never wait for
\* each other.
CallReturns ==
  \A h \in Handles : (pc[h] \notin {"closed", "open"}) ~> (pc[h] \in {"closed", "open"})
=============================================================================
