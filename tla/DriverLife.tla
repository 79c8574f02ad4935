----------------------------- MODULE DriverLife ------------------------------
(***************************************************************************)
(* The kernel module from insmod to rmmod: intel_fpga_pcie_init and _exit, *)
(* the character device (intel_fpga_pcie_chr_init and _exit), the event    *)
(* thread, and for every device intel_fpga_pcie_probe and _remove with the *)
(* DMA tables of intel_fpga_pcie_dma_probe.                                *)
(*                                                                         *)
(* Each acquires its resources one by one and, when one cannot be had,     *)
(* jumps to a label that gives back what came before.  The kernel itself   *)
(* (loading, matching devices) is external.                                *)
(***************************************************************************)
EXTENDS Integers, Sequences, FiniteSets, SequencesExt

CONSTANTS
  Devices,         \* BDFs, positive numbers
  Virtual,         \* the devices that are virtual functions of another one
  DMA_SUPPORTED,   \* the macro of intel_fpga_pcie_ip_params.h
  Faults           \* what may fail

ASSUME LifeAssumption ==
  /\ Devices \subseteq Nat \ {0} /\ Virtual \subseteq Devices
  /\ Devices \ Virtual # {} /\ DMA_SUPPORTED \in BOOLEAN

\* map_bars_default maps the BARs a device has; the first that cannot be mapped
\* ends it, and unmap_bars takes back those that were.
MapBars == <<"bar0", "bar2">>
UnmapBars == ToSet(MapBars)

\* intel_fpga_pcie_dma_probe creates two descriptor tables, and
\* intel_fpga_pcie_dma_remove frees them.
DmaProbe == IF DMA_SUPPORTED THEN <<"rd_dt", "wr_dt">> ELSE <<>>
DmaRemove == ToSet(DmaProbe)

\* The resources of a device in the order in which probe gets them: bookkeeper,
\* two status vectors, device, regions, BARs, UIO device, DMA tables, tree.
ProbeOrder ==
  <<"devbk", "notif_q_status", "pipe_status", "enabled", "regions">>
  \o MapBars \o <<"uio">> \o DmaProbe \o <<"tree">>

\* What intel_fpga_pcie_init gets: the first four in intel_fpga_pcie_chr_init.
InitOrder == <<"class", "chrdev", "cdev", "node", "driver", "kthread">>

VARIABLES
  mod,         \* "out", "loading", "live" or "unloading"
  stage,       \* how far intel_fpga_pcie_init has come in InitOrder
  glob,        \* resources of the module that are held
  held,        \* per device: resources that are held
  present,     \* devices on the bus
  probing,     \* the device being probed, or 0
  toProbe,     \* devices the kernel has matched and not yet probed
  sem,         \* per device: units of dev_bk->sem
  cnt          \* per device: chr_open_cnt

lifeVars == <<mod, stage, glob, held, present, probing, toProbe, sem, cnt>>

LifeTypeOK ==
  /\ mod \in {"out", "loading", "live", "unloading"}
  /\ stage \in DOMAIN InitOrder /\ glob \subseteq ToSet(InitOrder)
  /\ held \in [Devices -> SUBSET ToSet(ProbeOrder)]
  /\ present \subseteq Devices
  /\ probing \in Devices \cup {0} /\ toProbe \subseteq Devices
  /\ sem \in [Devices -> Nat] /\ cnt \in [Devices -> Int]

LifeInit ==
  /\ mod = "out" /\ stage = 1 /\ glob = {}
  /\ held = [d \in Devices |-> {}]
  /\ present = Devices \ Virtual /\ probing = 0 /\ toProbe = {}
  /\ sem = [d \in Devices |-> 0] /\ cnt = [d \in Devices |-> 0]

\* Devices that radix_tree_lookup finds.
Tree == {d \in Devices : "tree" \in held[d]}

\* The first resource of the order that is not held yet, and those before r.
Missing(order, have) ==
  order[CHOOSE i \in DOMAIN order :
          /\ order[i] \notin have
          /\ \A j \in 1 .. i - 1 : order[j] \in have]
Before(order, r) ==
  LET n == CHOOSE i \in DOMAIN order : order[i] = r
  IN  {order[i] : i \in 1 .. n - 1}

-----------------------------------------------------------------------------
(* intel_fpga_pcie_probe and intel_fpga_pcie_remove.                        *)

ProbeStart(d) ==
  /\ probing = 0 /\ d \in toProbe
  /\ probing' = d /\ toProbe' = toProbe \ {d}
  /\ UNCHANGED <<mod, stage, glob, held, present, sem, cnt>>

\* Units of the semaphore after a resource is there: sema_init with the
\* bookkeeper, and an up at the end of dma_probe.
SemAfter(r, units) ==
  CASE r = "devbk" -> 1
    [] r = "wr_dt" -> units + 1
    [] OTHER -> units

\* The next resource is there; with the last one the device can be found.
ProbeStep ==
  /\ probing # 0
  /\ LET r == Missing(ProbeOrder, held[probing])
     IN  /\ held' = [held EXCEPT ![probing] = @ \cup {r}]
         /\ sem' = [sem EXCEPT ![probing] = SemAfter(r, @)]
         /\ cnt' = [cnt EXCEPT ![probing] = IF r = "devbk" THEN 0 ELSE @]
         /\ probing' = IF r = "tree" THEN 0 ELSE probing
  /\ UNCHANGED <<mod, stage, glob, present, toProbe>>

\* Mutant: the jump goes to the label of the resource that failed before.
UndoneShort(r) ==
  LET b == Before(ProbeOrder, r)
  IN  {x \in b : Before(ProbeOrder, x) # b \ {x}}

\* What the labels give back when resource r cannot be had.  The label of
\* pci_enable_device stands after the ones that free the status vectors.
Undone(r) ==
  LET label == Before(ProbeOrder, r) \ (UnmapBars \cup DmaRemove)
  IN  IF r = "enabled" THEN {"devbk"}
      ELSE label \cup (IF "regions" \in label THEN UnmapBars \cup DmaRemove ELSE {})

ProbeFails ==
  /\ probing # 0
  /\ LET r == Missing(ProbeOrder, held[probing])
     IN  /\ r \in Faults
         /\ held' = [held EXCEPT ![probing] = @ \ Undone(r)]
  /\ probing' = 0 /\ sem' = [sem EXCEPT ![probing] = 0]
  /\ UNCHANGED <<mod, stage, glob, present, toProbe, cnt>>

\* The tree, then everything probe got; the kernel memory is in DeviceFile.
Removed(ds) == held' = [d \in Devices |-> IF d \in ds THEN {} ELSE held[d]]

-----------------------------------------------------------------------------
(* intel_fpga_pcie_init and intel_fpga_pcie_exit.                           *)

Load ==
  /\ mod = "out" /\ mod' = "loading" /\ stage' = 1
  /\ UNCHANGED <<glob, held, present, probing, toProbe, sem, cnt>>

\* pci_register_driver probes what is there before it returns.
LoadStep ==
  /\ mod = "loading" /\ probing = 0 /\ toProbe = {}
  /\ LET r == InitOrder[stage]
     IN  /\ glob' = glob \cup {r}
         /\ toProbe' = IF r = "driver" THEN present ELSE {}
         /\ IF r = "kthread" THEN mod' = "live" /\ UNCHANGED stage
                             ELSE stage' = stage + 1 /\ UNCHANGED mod
  /\ UNCHANGED <<held, present, probing, sem, cnt>>

\* The labels undo chr_init, never pci_register_driver.  When the node cannot
\* be created chr_init undoes itself and returns the 0 of cdev_add.
LoadFails ==
  /\ mod = "loading" /\ probing = 0 /\ toProbe = {}
  /\ LET r == InitOrder[stage]
     IN  /\ r \in Faults
         /\ glob' = glob \ (Before(InitOrder, r) \ {"driver"})
         /\ IF r = "node" THEN stage' = stage + 1 /\ UNCHANGED mod
                          ELSE mod' = "out" /\ UNCHANGED stage
  /\ UNCHANGED <<held, present, probing, toProbe, sem, cnt>>

\* stop_event_kthread; from here on the module cannot be entered.
UnloadStart ==
  /\ mod = "live" /\ probing = 0 /\ toProbe = {}
  /\ mod' = "unloading" /\ glob' = glob \ {"kthread"}
  /\ UNCHANGED <<stage, held, present, probing, toProbe, sem, cnt>>

\* pci_unregister_driver removes the devices, and their semaphores with them.
UnloadDriver ==
  /\ mod = "unloading" /\ "driver" \in glob
  /\ Removed(Tree) /\ glob' = glob \ {"driver"}
  /\ UNCHANGED <<mod, stage, present, probing, toProbe>>

\* intel_fpga_pcie_chr_exit.
UnloadDone ==
  /\ mod = "unloading" /\ "driver" \notin glob
  /\ mod' = "out" /\ glob' = {}
  /\ UNCHANGED <<stage, held, present, probing, toProbe, sem, cnt>>

-----------------------------------------------------------------------------
(* Properties.                                                              *)

\* A module that is not loaded, or whose load failed, holds nothing, and a
\* device whose probe failed or that was removed holds nothing: every label of
\* probe and init gives back exactly what came before it ("If the
\* initialization failed, undo everything that was done", setup.c:391).
NothingLeft ==
  /\ mod = "out" => glob = {}
  /\ \A d \in Devices :
       (mod = "out" \/ (d # probing /\ d \notin Tree)) => held[d] = {}
=============================================================================
