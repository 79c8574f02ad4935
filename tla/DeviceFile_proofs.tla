-------------------------- MODULE DeviceFile_proofs --------------------------
(***************************************************************************)
(* Proofs about the life of the driver and the calls on open files, for    *)
(* every number of devices, files and kernel memory regions.               *)
(*                                                                         *)
(* LifeInv says what the module and each device hold at every step of a    *)
(* load, a probe and an unload.  UseInv adds which devices the files use;  *)
(* CountInv that the semaphore of a device has one holder, whose loaded    *)
(* counter is the present one, and what the counter counts; KmemInv how    *)
(* far set_kmem_size has come.                                             *)
(***************************************************************************)
EXTENDS DeviceFile, Arithmetic, FiniteSetTheorems, SequenceTheorems, TLAPS

\* No failure but those that the labels of init and probe handle.
Handled == Faults \cap {"enabled", "node", "kthread"} = {}

\* One file uses kernel memory.
SingleUser == \A g, h \in KmemUsers : g = h

-----------------------------------------------------------------------------
(* What is held.                                                            *)

\* The first n resources of an order.
First(order, n) == {order[i] : i \in 1 .. n}

LifeTypes ==
  /\ mod \in {"out", "loading", "live", "unloading"}
  /\ stage \in DOMAIN InitOrder /\ glob \subseteq ToSet(InitOrder)
  /\ held \in [Devices -> SUBSET ToSet(ProbeOrder)]
  /\ present \subseteq Devices
  /\ probing \in Devices \cup {0} /\ toProbe \subseteq Devices

\* The module holds what comes before its stage.
Staged ==
  /\ mod = "out" => glob = {}
  /\ mod = "loading" => glob = First(InitOrder, stage - 1)
  /\ mod = "live" => "driver" \in glob
  /\ "driver" \notin glob => Tree = {} /\ probing = 0 /\ toProbe = {}
  /\ mod = "unloading" => probing = 0 /\ toProbe = {}

\* A device holds nothing, or what its probe has got, or can be found.
Probed ==
  /\ \A d \in Devices \ Tree : d # probing => held[d] = {}
  /\ Tree \cup toProbe \subseteq present /\ Tree \cap toProbe = {}
  /\ probing # 0 =>
       /\ probing \in present /\ probing \notin Tree \cup toProbe
       /\ \E n \in 0 .. Len(ProbeOrder) - 1 : held[probing] = First(ProbeOrder, n)

LifeInv == LifeTypes /\ Staged /\ Probed

-----------------------------------------------------------------------------
(* What the files use.                                                      *)

Selecting == {"sel_first", "sel_second", "sel_in"}
KmemPCs == {"kmem_down", "kmem_in", "kmem_fix", "kmem_read"} \cup ToSet(Registers)
PCs == {"closed", "open", "sriov", "kmem_read"} \cup Waits \cup Inside \cup ToSet(Registers)

UseTypes ==
  /\ pc \in [Handles -> PCs]
  /\ dev \in [Handles -> Devices \cup {0}] /\ want \in [Handles -> Devices \cup {0}]
  /\ DOMAIN mapped = Handles /\ mapped = [h \in Handles |-> mapped[h]]

\* An open file, and a call on it, keep their devices in the tree.
UseOf(h) ==
  /\ pc[h] = "closed" => dev[h] = 0
  /\ pc[h] # "closed" => dev[h] \in Tree /\ mod \in {"loading", "live"}
  /\ pc[h] \notin Selecting => want[h] = 0
  /\ pc[h] \in Selecting => want[h] \in Tree /\ want[h] # dev[h]
  /\ mapped[h] # Unmapped =>
       mapped[h].dev \in Tree
       /\ pc[h] \notin {"closed", "open_down", "open_in", "release_down", "release_in"}
  /\ pc[h] \in KmemPCs \/ mapped[h] # Unmapped => h \in KmemUsers

Uses == \A h \in Handles : UseOf(h)

UseInv == UseTypes /\ Uses

-----------------------------------------------------------------------------
(* The semaphores and the counters.                                         *)

\* Devices whose semaphore the call of h has.
Holds(h) ==
  CASE pc[h] \in {"open_in", "release_in", "kmem_in", "kmem_fix"} -> {dev[h]}
    [] pc[h] = "sel_second" -> {SelOrder(h)[1]}
    [] pc[h] = "sel_in" -> {dev[h], want[h]}
    [] OTHER -> {}

CountTypes ==
  /\ sem \in [Devices -> Nat] /\ cnt \in [Devices -> Int]
  /\ seen \in [Handles -> [Devices -> Int]]
  /\ ghosts \in [Devices -> 0 .. MaxGhosts]

\* One unit, and one holder if it is gone.
Mutex ==
  /\ \A d \in Devices : sem[d] <= 1
  /\ \A h \in Handles : \A d \in Holds(h) : sem[d] = 0
  /\ \A g, h \in Handles : g # h => Holds(g) \cap Holds(h) = {}

\* What was loaded under the semaphore is what is there.
Loaded ==
  \A h \in Handles :
    pc[h] \in {"open_in", "release_in", "sel_in"} =>
      \A d \in Holds(h) : seen[h][d] = cnt[d]

\* Files that are counted for device d.
Counts(d) == {h \in Handles : dev[h] = d /\ pc[h] \notin {"open_down", "open_in"}}

Tally ==
  /\ \A d \in Tree : cnt[d] = Cardinality(Counts(d)) + ghosts[d]
  /\ \A d \in Devices \ Tree : ghosts[d] = 0 /\ (held[d] # {} => cnt[d] = 0)

CountInv == CountTypes /\ Mutex /\ Loaded /\ Tally

-----------------------------------------------------------------------------
(* The kernel memory.                                                       *)

KmemTypes ==
  /\ kmem \in [Devices -> Kmems] /\ regions \in [Devices -> SUBSET (1 .. MaxRegions)]
  /\ regs \in [Devices -> [ToSet(Registers) -> 0 .. MaxRegions]]
  /\ arg \in [Handles -> [size : Sizes \cup {0}, old : Kmems, addr : 0 .. MaxRegions]]
  /\ mapped \in [Handles -> [dev : Devices \cup {0}, virt : 0 .. MaxRegions]]

\* k names an allocated region of d or none.
Named(k, d) ==
  k.virt \in regions[d] \cup {0} /\ (k.virt = 0 <=> k.size = 0)

RegsName(k, d) == k.virt # 0 => \A r \in ToSet(Registers) : regs[d][r] = k.virt

\* There is a region left for the call of h.
RegionLeft(h) == arg[h].size # 0 => 1 .. MaxRegions \ regions[dev[h]] # {}

\* Nobody uses what is about to be freed.
NotMapped(h) == arg[h].size = 0 => \A g \in Handles : mapped[g].dev # dev[h]

\* Registers written before the one at l.
Written(l) ==
  {Registers[i] : i \in 1 .. (CHOOSE j \in DOMAIN Registers : Registers[j] = l) - 1}

\* Device d, whose memory the call of h changes.
Changing(h, d) ==
  CASE pc[h] \in {"kmem_down", "kmem_in"} ->
         /\ Named(kmem[d], d) /\ RegsName(kmem[d], d) /\ RegionLeft(h) /\ NotMapped(h)
         /\ pc[h] = "kmem_in" => arg[h].old = kmem[d]
    [] pc[h] = "kmem_fix" ->
         IF arg[h].size = 0 THEN kmem[d] = NoKmem
         ELSE /\ kmem[d].virt \in regions[d] \cup {0}
              /\ kmem[d].size = arg[h].old.size
              /\ kmem[d].virt = 0 =>
                   Named(arg[h].old, d) /\ RegsName(arg[h].old, d)
    [] pc[h] = "kmem_read" -> Named(kmem[d], d)
    [] OTHER -> /\ Named(kmem[d], d) /\ arg[h].addr = kmem[d].virt
                /\ \A r \in Written(pc[h]) : regs[d][r] = kmem[d].virt

Settled(d) == Named(kmem[d], d) /\ RegsName(kmem[d], d)

KmemInv ==
  /\ KmemTypes
  /\ \A d \in Devices :
       (\A h \in KmemUsers : pc[h] \in KmemPCs => dev[h] # d) => Settled(d)
  /\ \A h \in KmemUsers : pc[h] \in KmemPCs => Changing(h, dev[h])
  /\ \A h \in Handles :
       mapped[h] # Unmapped => mapped[h].virt \in regions[mapped[h].dev]

-----------------------------------------------------------------------------
(* The orders of acquisition.                                               *)

DeviceNames == {"devbk", "notif_q_status", "pipe_status", "enabled", "regions", "bar0",
                "bar2", "uio", "rd_dt", "wr_dt", "tree"}
ModuleNames == {"class", "chrdev", "cdev", "node", "driver", "kthread"}

LEMMA Cat ==
  ASSUME NEW S, NEW s \in Seq(S), NEW t \in Seq(S)
  PROVE  /\ s \o t \in Seq(S) /\ Len(s \o t) = Len(s) + Len(t)
         /\ \A i \in 1 .. Len(s) + Len(t) :
              (s \o t)[i] = IF i <= Len(s) THEN s[i] ELSE t[i - Len(s)]
BY ConcatProperties, Zenon

\* The order of probe: without repetition, regions fifth, the tree last, and
\* what the labels of regions free after it.
LEMMA ProbeOrderFacts ==
  /\ ProbeOrder \in Seq(DeviceNames) /\ Len(ProbeOrder) \in Nat /\ Len(ProbeOrder) > 8
  /\ \A i, j \in 1 .. Len(ProbeOrder) : ProbeOrder[i] = ProbeOrder[j] => i = j
  /\ ProbeOrder[Len(ProbeOrder)] = "tree" /\ ProbeOrder[5] = "regions"
  /\ ProbeOrder[1] = "devbk"
  /\ \A i \in 1 .. 5 : ProbeOrder[i] \notin UnmapBars \cup DmaRemove
  /\ ~DMA_SUPPORTED => \A i \in 1 .. Len(ProbeOrder) : ProbeOrder[i] # "wr_dt"
<1> DEFINE a == <<"devbk", "notif_q_status", "pipe_status", "enabled", "regions">>
           b == <<"bar0", "bar2">>
           c == <<"uio">>
           e == <<"tree">>
<1>0. /\ a \in Seq(DeviceNames) /\ b \in Seq(DeviceNames)
      /\ c \in Seq(DeviceNames) /\ e \in Seq(DeviceNames)
  <2>1. a \in Seq(DeviceNames)
    BY DEF DeviceNames
  <2>2. b \in Seq(DeviceNames)
    BY DEF DeviceNames
  <2>3. c \in Seq(DeviceNames)
    BY DEF DeviceNames
  <2>4. e \in Seq(DeviceNames)
    BY DEF DeviceNames
  <2> QED BY <2>1, <2>2, <2>3, <2>4
<1>1. Len(a) = 5 /\ Len(b) = 2 /\ Len(c) = 1 /\ Len(e) = 1
  OBVIOUS
<1>2. /\ a[1] = "devbk" /\ a[2] = "notif_q_status" /\ a[3] = "pipe_status"
      /\ a[4] = "enabled" /\ a[5] = "regions" /\ b[1] = "bar0" /\ b[2] = "bar2"
      /\ c[1] = "uio" /\ e[1] = "tree"
  OBVIOUS
<1>3. UnmapBars = {"bar0", "bar2"}
  BY DEF UnmapBars, MapBars, ToSet
<1>4. PICK m \in Seq(DeviceNames) :
        /\ m = DmaProbe /\ DmaRemove = ToSet(m)
        /\ \/ Len(m) = 0
           \/ Len(m) = 2 /\ m[1] = "rd_dt" /\ m[2] = "wr_dt"
        /\ ~DMA_SUPPORTED => Len(m) = 0
  <2>1. CASE DMA_SUPPORTED
    <3>1. DmaProbe = <<"rd_dt", "wr_dt">>
      BY <2>1 DEF DmaProbe
    <3>2. DmaProbe \in Seq(DeviceNames)
      BY <3>1 DEF DeviceNames
    <3>3. Len(DmaProbe) = 2 /\ DmaProbe[1] = "rd_dt" /\ DmaProbe[2] = "wr_dt"
      BY <3>1
    <3> QED BY <2>1, <3>2, <3>3 DEF DmaRemove
  <2>2. CASE ~DMA_SUPPORTED
    <3>1. DmaProbe = <<>>
      BY <2>2 DEF DmaProbe
    <3>2. <<>> \in Seq(DeviceNames) /\ Len(<<>>) = 0
      BY EmptySeq
    <3> QED BY <3>1, <3>2 DEF DmaRemove
  <2> QED BY <2>1, <2>2
<1>5. ProbeOrder = a \o b \o c \o m \o e
  BY <1>4 DEF ProbeOrder, MapBars
<1>6. DmaRemove \subseteq {"rd_dt", "wr_dt"}
  <2>1. DmaRemove = {m[i] : i \in 1 .. Len(m)}
    BY <1>4 DEF ToSet
  <2> QED BY <1>4, <2>1
<1> HIDE DEF a, b, c, e
<1> DEFINE ab == a \o b
           abc == ab \o c
           abcm == abc \o m
<1>7. /\ ab \in Seq(DeviceNames) /\ Len(ab) = 7
      /\ \A i \in 1 .. 7 : ab[i] = IF i <= 5 THEN a[i] ELSE b[i - 5]
  <2>1. Len(a) + Len(b) = 7
    BY <1>1
  <2>2. /\ a \o b \in Seq(DeviceNames) /\ Len(a \o b) = Len(a) + Len(b)
        /\ \A i \in 1 .. Len(a) + Len(b) :
             (a \o b)[i] = IF i <= Len(a) THEN a[i] ELSE b[i - Len(a)]
    BY <1>0, Cat
  <2> QED BY <1>1, <2>1, <2>2
<1> HIDE DEF ab
<1>8. /\ abc \in Seq(DeviceNames) /\ Len(abc) = 8
      /\ \A i \in 1 .. 8 : abc[i] = IF i <= 7 THEN ab[i] ELSE c[i - 7]
  <2>1. Len(ab) + Len(c) = 8
    BY <1>1, <1>7
  <2>2. /\ ab \o c \in Seq(DeviceNames) /\ Len(ab \o c) = Len(ab) + Len(c)
        /\ \A i \in 1 .. Len(ab) + Len(c) :
             (ab \o c)[i] = IF i <= Len(ab) THEN ab[i] ELSE c[i - Len(ab)]
    BY <1>0, <1>7, Cat
  <2> QED BY <1>7, <2>1, <2>2
<1> HIDE DEF abc
<1>9. /\ abcm \in Seq(DeviceNames) /\ Len(abcm) = 8 + Len(m)
      /\ \A i \in 1 .. 8 + Len(m) : abcm[i] = IF i <= 8 THEN abc[i] ELSE m[i - 8]
  <2>1. /\ abc \o m \in Seq(DeviceNames) /\ Len(abc \o m) = Len(abc) + Len(m)
        /\ \A i \in 1 .. Len(abc) + Len(m) :
             (abc \o m)[i] = IF i <= Len(abc) THEN abc[i] ELSE m[i - Len(abc)]
    BY <1>8, Cat
  <2> QED BY <1>8, <2>1
<1> HIDE DEF abcm
<1>10. ProbeOrder = abcm \o e
  BY <1>5 DEF abcm, abc, ab
<1>11. /\ ProbeOrder \in Seq(DeviceNames) /\ Len(ProbeOrder) = 9 + Len(m)
       /\ \A i \in 1 .. 9 + Len(m) :
            ProbeOrder[i] = IF i <= 8 + Len(m) THEN abcm[i] ELSE e[i - (8 + Len(m))]
  <2>1. Len(abcm) + Len(e) = 9 + Len(m)
    BY <1>1, <1>4, <1>9
  <2> QED BY <1>0, <1>9, <1>10, <2>1, Cat
<1>12. /\ ProbeOrder[1] = "devbk" /\ ProbeOrder[2] = "notif_q_status"
       /\ ProbeOrder[3] = "pipe_status" /\ ProbeOrder[4] = "enabled"
       /\ ProbeOrder[5] = "regions" /\ ProbeOrder[6] = "bar0"
       /\ ProbeOrder[7] = "bar2" /\ ProbeOrder[8] = "uio"
       /\ Len(m) = 0 => ProbeOrder[9] = "tree"
       /\ Len(m) = 2 => ProbeOrder[9] = "rd_dt" /\ ProbeOrder[10] = "wr_dt"
                        /\ ProbeOrder[11] = "tree"
  <2> DEFINE k == Len(m)
  <2>0. k = 0 \/ k = 2
    BY <1>4
  <2>1. ASSUME NEW i \in 1 .. 8
        PROVE  ProbeOrder[i] = abc[i]
    <3>1. i \in 1 .. 9 + Len(m) /\ i \in 1 .. 8 + Len(m) /\ i <= 8 + Len(m)
      BY <2>0
    <3> QED BY <1>9, <1>11, <3>1
  <2>2. ASSUME NEW i \in 1 .. 5
        PROVE  abc[i] = a[i]
    BY <1>7, <1>8
  <2>3. abc[6] = b[1] /\ abc[7] = b[2] /\ abc[8] = c[1]
    <3>1. ab[6] = b[6 - 5] /\ ab[7] = b[7 - 5]
      BY <1>7
    <3>2. abc[6] = ab[6] /\ abc[7] = ab[7] /\ abc[8] = c[8 - 7]
      BY <1>8
    <3>3. 6 - 5 = 1 /\ 7 - 5 = 2 /\ 8 - 7 = 1
      OBVIOUS
    <3> QED BY <3>1, <3>2, <3>3
  <2>4. ASSUME Len(m) = 0
        PROVE  ProbeOrder[9] = "tree"
    <3>1. 9 \in 1 .. 9 + Len(m) /\ ~(9 <= 8 + Len(m)) /\ 9 - (8 + Len(m)) = 1
      BY <2>4
    <3> QED BY <1>2, <1>11, <3>1
  <2>5. ASSUME Len(m) = 2
        PROVE  ProbeOrder[9] = "rd_dt" /\ ProbeOrder[10] = "wr_dt"
               /\ ProbeOrder[11] = "tree"
    <3>1. 11 \in 1 .. 9 + Len(m) /\ ~(11 <= 8 + Len(m)) /\ 11 - (8 + Len(m)) = 1
      BY <2>5
    <3>2. ProbeOrder[11] = "tree"
      BY <1>2, <1>11, <3>1
    <3>3. ProbeOrder[9] = abcm[9] /\ ProbeOrder[10] = abcm[10]
      BY <1>11, <2>5
    <3>4. abcm[9] = m[9 - 8] /\ abcm[10] = m[10 - 8]
      BY <1>9, <2>5
    <3>5. 9 - 8 = 1 /\ 10 - 8 = 2
      OBVIOUS
    <3> QED BY <1>4, <2>5, <3>2, <3>3, <3>4, <3>5
  <2> QED BY <1>2, <2>1, <2>2, <2>3, <2>4, <2>5
<1>13. Len(ProbeOrder) = 9 \/ Len(ProbeOrder) = 11
  <2>1. CASE Len(m) = 0
    BY <1>11, <2>1
  <2>2. CASE Len(m) = 2
    BY <1>11, <2>2
  <2> QED BY <1>4, <2>1, <2>2
<1>14. ASSUME NEW i \in 1 .. Len(ProbeOrder), NEW j \in 1 .. Len(ProbeOrder),
              ProbeOrder[i] = ProbeOrder[j]
       PROVE  i = j
  <2>1. CASE Len(m) = 0
    <3>1. i \in 1 .. 9 /\ j \in 1 .. 9
      BY <2>1, <1>11
    <3> QED BY <1>12, <1>14, <2>1, <3>1, SMTT(30)
  <2>2. CASE Len(m) = 2
    <3>1. i \in 1 .. 11 /\ j \in 1 .. 11
      BY <2>2, <1>11
    <3> DEFINE A == {"devbk", "notif_q_status", "pipe_status", "enabled"}
               B == {"regions", "bar0", "bar2", "uio"}
               C == {"rd_dt", "wr_dt", "tree"}
    <3>2. \A k \in 1 .. 4 : ProbeOrder[k] \in A
      BY <1>12
    <3>3. \A k \in 5 .. 8 : ProbeOrder[k] \in B
      BY <1>12
    <3>4. \A k \in 9 .. 11 : ProbeOrder[k] \in C
      BY <1>12, <2>2
    <3>5. A \cap B = {} /\ A \cap C = {} /\ B \cap C = {}
      OBVIOUS
    <3>6. \A k, l \in 1 .. 4 : ProbeOrder[k] = ProbeOrder[l] => k = l
      BY <1>12, SMTT(30)
    <3>7. \A k, l \in 5 .. 8 : ProbeOrder[k] = ProbeOrder[l] => k = l
      <4>1. /\ ProbeOrder[5] = "regions" /\ ProbeOrder[6] = "bar0"
            /\ ProbeOrder[7] = "bar2" /\ ProbeOrder[8] = "uio"
        BY <1>12
      <4>2. \A k \in 5 .. 8 : k = 5 \/ k = 6 \/ k = 7 \/ k = 8
        OBVIOUS
      <4> QED BY <4>1, <4>2
    <3>8. \A k, l \in 9 .. 11 : ProbeOrder[k] = ProbeOrder[l] => k = l
      BY <1>12, <2>2
    <3> HIDE DEF A, B, C
    <3>9. \A k \in 1 .. 11 : k \in 1 .. 4 \/ k \in 5 .. 8 \/ k \in 9 .. 11
      OBVIOUS
    <3> QED BY <1>14, <3>1, <3>2, <3>3, <3>4, <3>5, <3>6, <3>7, <3>8, <3>9
  <2> QED BY <2>1, <2>2, <1>4
<1>15. \A i \in 1 .. 5 : ProbeOrder[i] \notin UnmapBars \cup DmaRemove
  BY <1>12, <1>3, <1>6
<1>16. ASSUME ~DMA_SUPPORTED
       PROVE  \A i \in 1 .. Len(ProbeOrder) : ProbeOrder[i] # "wr_dt"
  <2>1. Len(m) = 0 /\ Len(ProbeOrder) = 9
    BY <1>4, <1>11, <1>16
  <2>2. \A i \in 1 .. 8 : ProbeOrder[i] # "wr_dt"
    BY <1>12
  <2>3. ProbeOrder[9] = "tree"
    BY <1>12, <2>1
  <2> QED BY <2>1, <2>2, <2>3
<1>17. /\ Len(ProbeOrder) \in Nat /\ Len(ProbeOrder) > 8
       /\ ProbeOrder[Len(ProbeOrder)] = "tree"
  <2>1. CASE Len(m) = 0
    <3>1. Len(ProbeOrder) = 9
      BY <1>11, <2>1
    <3> QED BY <1>12, <2>1, <3>1
  <2>2. CASE Len(m) = 2
    <3>1. Len(ProbeOrder) = 11
      BY <1>11, <2>2
    <3> QED BY <1>12, <2>2, <3>1
  <2> QED BY <1>4, <2>1, <2>2
<1> QED BY <1>11, <1>12, <1>14, <1>15, <1>16, <1>17

\* The order of init.
LEMMA InitOrderFacts ==
  /\ InitOrder \in Seq(ModuleNames) /\ Len(InitOrder) = 6
  /\ InitOrder[1] = "class" /\ InitOrder[2] = "chrdev" /\ InitOrder[3] = "cdev"
  /\ InitOrder[4] = "node" /\ InitOrder[5] = "driver" /\ InitOrder[6] = "kthread"
  /\ \A i, j \in 1 .. Len(InitOrder) : InitOrder[i] = InitOrder[j] => i = j
<1>1. InitOrder \in Seq(ModuleNames)
  BY DEF InitOrder, ModuleNames
<1>2. /\ Len(InitOrder) = 6
      /\ InitOrder[1] = "class" /\ InitOrder[2] = "chrdev" /\ InitOrder[3] = "cdev"
      /\ InitOrder[4] = "node" /\ InitOrder[5] = "driver" /\ InitOrder[6] = "kthread"
  BY DEF InitOrder
<1>3. \A i, j \in 1 .. Len(InitOrder) : InitOrder[i] = InitOrder[j] => i = j
  <2>1. Len(InitOrder) = 6
    BY <1>2
  <2> QED BY <1>2, <2>1
<1> QED BY <1>1, <1>2, <1>3

LEMMA SmallestNat ==
  ASSUME NEW S, S \subseteq Nat, S # {}
  PROVE  Lowest(S) \in S /\ \A y \in S : Lowest(S) <= y
BY LeastNatural DEF Lowest

\* What comes next in an order of which the first n are held, and before it.
LEMMA NextInOrder ==
  ASSUME NEW S, NEW order \in Seq(S), NEW n \in Nat, n < Len(order),
         \A i, j \in 1 .. Len(order) : order[i] = order[j] => i = j
  PROVE  /\ Missing(order, First(order, n)) = order[n + 1]
         /\ Before(order, order[n + 1]) = First(order, n)
         /\ First(order, n + 1) = First(order, n) \cup {order[n + 1]}
<1>0. DOMAIN order = 1 .. Len(order) /\ Len(order) \in Nat
  BY LenProperties
<1> DEFINE P(i) == /\ order[i] \notin First(order, n)
                   /\ \A j \in 1 .. i - 1 : order[j] \in First(order, n)
<1>1. ASSUME NEW i \in 1 .. Len(order)
      PROVE  order[i] \in First(order, n) <=> i <= n
  BY <1>0 DEF First
<1>2. n + 1 \in DOMAIN order /\ P(n + 1)
  BY <1>0, <1>1
<1>3. ASSUME NEW i \in DOMAIN order, P(i)
      PROVE  i = n + 1
  <2>1. ~(i <= n)
    BY <1>0, <1>1, <1>3
  <2>2. ~(n + 1 < i)
    BY <1>0, <1>1, <1>3
  <2> QED BY <2>1, <2>2, <1>0
<1>4. (CHOOSE i \in DOMAIN order : P(i)) = n + 1
  BY <1>2, <1>3
<1>5. Missing(order, First(order, n)) = order[n + 1]
  BY <1>4 DEF Missing
<1>6. (CHOOSE i \in DOMAIN order : order[i] = order[n + 1]) = n + 1
  BY <1>0, <1>2
<1>7. Before(order, order[n + 1]) = First(order, n)
  <2>1. (n + 1) - 1 = n
    OBVIOUS
  <2> QED BY <1>6, <2>1 DEF Before, First
<1>8. First(order, n + 1) = First(order, n) \cup {order[n + 1]}
  <2>1. 1 .. n + 1 = (1 .. n) \cup {n + 1}
    OBVIOUS
  <2> QED BY <2>1 DEF First
<1> QED BY <1>5, <1>7, <1>8

\* The labels of probe give back everything that was held when resource n + 1
\* could not be had, other than the enabled device.
LEMMA AllUndone ==
  ASSUME NEW n \in 0 .. Len(ProbeOrder) - 1, ProbeOrder[n + 1] # "enabled"
  PROVE  First(ProbeOrder, n) \subseteq Undone(ProbeOrder[n + 1])
<1> DEFINE U == UnmapBars \cup DmaRemove
           r == ProbeOrder[n + 1]
           label == Before(ProbeOrder, r) \ U
<1>0. n \in Nat /\ n < Len(ProbeOrder)
  BY ProbeOrderFacts
<1>1. Before(ProbeOrder, r) = First(ProbeOrder, n)
  BY <1>0, NextInOrder, ProbeOrderFacts
<1>2. Undone(r) = label \cup (IF "regions" \in label THEN U ELSE {})
  BY DEF Undone
<1>3. CASE n >= 5
  <2>1. 5 \in 1 .. n
    BY <1>3, <1>0
  <2>2. "regions" \in First(ProbeOrder, n)
    BY <2>1, ProbeOrderFacts DEF First
  <2>3. "regions" \notin U
    BY ProbeOrderFacts
  <2> QED BY <1>1, <1>2, <2>2, <2>3
<1>4. CASE n < 5
  <2>1. 1 .. n \subseteq 1 .. 5
    BY <1>4, <1>0
  <2>2. First(ProbeOrder, n) \cap U = {}
    BY <2>1, ProbeOrderFacts DEF First
  <2> QED BY <1>1, <1>2, <2>2
<1> QED BY <1>3, <1>4, <1>0

-----------------------------------------------------------------------------
(* What is held, at every step.                                             *)

\* All but the semaphores and the counters.
coreVars == <<mod, stage, glob, held, present, probing, toProbe>>

LEMMA LifeInitially ==
  ASSUME LifeInit
  PROVE  LifeInv
<1>1. Tree = {}
  BY DEF LifeInit, Tree
<1>2. 1 \in DOMAIN InitOrder
  BY InitOrderFacts
<1> QED
  BY <1>1, <1>2, LifeAssumption
     DEF LifeInit, LifeInv, LifeTypes, Staged, Probed

LEMMA ProbeStartLife ==
  ASSUME LifeInv, NEW d \in Devices, ProbeStart(d)
  PROVE  LifeInv'
<1>1. UNCHANGED <<mod, stage, glob, held, present>> /\ Tree' = Tree /\ d # 0
  BY LifeAssumption DEF ProbeStart, Tree
<1>2. d \in present /\ d \notin Tree /\ held[d] = {}
  BY <1>1 DEF LifeInv, Probed, ProbeStart
<1>3. LifeTypes'
  BY <1>1 DEF LifeInv, LifeTypes, ProbeStart
<1>4. Staged'
  BY <1>1 DEF LifeInv, Staged, ProbeStart
<1>5. held[d] = First(ProbeOrder, 0) /\ 0 \in 0 .. Len(ProbeOrder) - 1
  BY <1>2, ProbeOrderFacts DEF First
<1>6. probing = 0 /\ probing' = d /\ toProbe' = toProbe \ {d}
  BY DEF ProbeStart
<1>7. \A e \in Devices \ Tree' : e # probing' => held'[e] = {}
  BY <1>1, <1>6, LifeAssumption DEF LifeInv, Probed
<1>8. \E n \in 0 .. Len(ProbeOrder) - 1 : held'[d] = First(ProbeOrder, n)
  BY <1>1, <1>5
<1>9. Probed'
  BY <1>1, <1>2, <1>6, <1>7, <1>8 DEF LifeInv, Probed
<1> QED BY <1>3, <1>4, <1>9 DEF LifeInv

LEMMA ProbeStepLife ==
  ASSUME LifeInv, ProbeStep
  PROVE  /\ LifeInv'
         /\ probing \notin Tree
         /\ Tree' = IF Missing(ProbeOrder, held[probing]) = "tree"
                    THEN Tree \cup {probing} ELSE Tree
         /\ Missing(ProbeOrder, held[probing]) = "devbk" <=> held[probing] = {}
         /\ ~DMA_SUPPORTED => Missing(ProbeOrder, held[probing]) # "wr_dt"
<1> DEFINE p == probing
           r == Missing(ProbeOrder, held[probing])
<1>0. /\ p # 0 /\ p \in Devices
      /\ held' = [held EXCEPT ![p] = @ \cup {r}]
      /\ probing' = IF r = "tree" THEN 0 ELSE probing
      /\ UNCHANGED <<mod, stage, glob, present, toProbe>>
  BY DEF ProbeStep, LifeInv, LifeTypes
<1>1. PICK n \in 0 .. Len(ProbeOrder) - 1 : held[p] = First(ProbeOrder, n)
  BY <1>0 DEF LifeInv, Probed
<1>2. /\ p \in present /\ p \notin Tree \cup toProbe
      /\ held \in [Devices -> SUBSET ToSet(ProbeOrder)]
  BY <1>0 DEF LifeInv, Probed, LifeTypes
<1>3. n \in Nat /\ n < Len(ProbeOrder) /\ n + 1 \in 1 .. Len(ProbeOrder)
  BY ProbeOrderFacts
<1>4. r = ProbeOrder[n + 1] /\ First(ProbeOrder, n + 1) = held[p] \cup {r}
  BY <1>1, <1>3, NextInOrder, ProbeOrderFacts
<1>5. r \in ToSet(ProbeOrder)
  BY <1>3, <1>4, ProbeOrderFacts, LenProperties DEF ToSet
<1>6. r = "tree" <=> n + 1 = Len(ProbeOrder)
  BY <1>3, <1>4, ProbeOrderFacts
<1>7. "tree" \notin held[p]
  BY <1>0, <1>2 DEF Tree
<1>8. Tree' = IF r = "tree" THEN Tree \cup {p} ELSE Tree
  BY <1>0, <1>2, <1>7 DEF Tree
<1>9. r = "devbk" <=> held[p] = {}
  <2>1. r = "devbk" <=> n = 0
    BY <1>3, <1>4, ProbeOrderFacts
  <2>2. n = 0 => held[p] = {}
    BY <1>1 DEF First
  <2>3. n # 0 => ProbeOrder[1] \in held[p]
    BY <1>1, <1>3 DEF First
  <2> QED BY <2>1, <2>2, <2>3
<1>14. ~DMA_SUPPORTED => r # "wr_dt"
  BY <1>3, <1>4, ProbeOrderFacts
<1> HIDE DEF r, p
<1>10. LifeTypes'
  BY <1>0, <1>2, <1>5 DEF LifeInv, LifeTypes, p
<1>11. Staged'
  BY <1>0, <1>8 DEF LifeInv, Staged, p
<1>12. CASE r = "tree"
  <2>1. Tree' = Tree \cup {p} /\ probing' = 0
    BY <1>0, <1>8, <1>12
  <2>2. \A d \in Devices \ Tree' : d # probing' => held'[d] = {}
    BY <1>0, <2>1 DEF LifeInv, Probed, p
  <2> QED BY <1>0, <1>2, <1>8, <1>9, <1>10, <1>11, <1>14, <2>1, <2>2
          DEF LifeInv, Probed, p, r
<1>13. CASE r # "tree"
  <2>1. Tree' = Tree /\ probing' = p
    BY <1>0, <1>8, <1>13 DEF p
  <2>2. \A d \in Devices \ Tree' : d # probing' => held'[d] = {}
    BY <1>0, <2>1 DEF LifeInv, Probed, p
  <2>3. n + 1 \in 0 .. Len(ProbeOrder) - 1
    BY <1>3, <1>6, <1>13, ProbeOrderFacts
  <2>4. held'[p] = First(ProbeOrder, n + 1)
    BY <1>0, <1>2, <1>4
  <2> QED BY <1>0, <1>2, <1>8, <1>9, <1>10, <1>11, <1>14, <2>1, <2>2, <2>3, <2>4
          DEF LifeInv, Probed, p, r
<1> QED BY <1>12, <1>13

LEMMA ProbeFailsLife ==
  ASSUME LifeInv, Handled, ProbeFails
  PROVE  LifeInv' /\ Tree' = Tree /\ held'[probing] = {} /\ probing \notin Tree
<1> DEFINE p == probing
           r == Missing(ProbeOrder, held[probing])
<1>0. /\ p # 0 /\ p \in Devices /\ r \in Faults
      /\ held' = [held EXCEPT ![p] = @ \ Undone(r)]
      /\ probing' = 0
      /\ UNCHANGED <<mod, stage, glob, present, toProbe>>
  BY DEF ProbeFails, LifeInv, LifeTypes
<1>1. PICK n \in 0 .. Len(ProbeOrder) - 1 : held[p] = First(ProbeOrder, n)
  BY <1>0 DEF LifeInv, Probed
<1>2. /\ p \in present /\ p \notin Tree \cup toProbe
      /\ held \in [Devices -> SUBSET ToSet(ProbeOrder)]
  BY <1>0 DEF LifeInv, Probed, LifeTypes
<1>3. n \in Nat /\ n < Len(ProbeOrder)
  BY ProbeOrderFacts
<1>4. r = ProbeOrder[n + 1]
  BY <1>1, <1>3, NextInOrder, ProbeOrderFacts
<1>5. held[p] \subseteq Undone(r)
  BY <1>0, <1>1, <1>4, AllUndone DEF Handled
<1>6. held' = [held EXCEPT ![p] = {}]
  BY <1>0, <1>5
<1> HIDE DEF p
<1>7. Tree' = Tree
  BY <1>0, <1>2, <1>6 DEF Tree
<1>8. LifeTypes'
  BY <1>0, <1>2, <1>6 DEF LifeInv, LifeTypes
<1>9. Staged'
  BY <1>0, <1>7 DEF LifeInv, Staged, p
<1>10. \A d \in Devices \ Tree' : d # probing' => held'[d] = {}
  BY <1>0, <1>2, <1>6, <1>7 DEF LifeInv, Probed, p
<1>11. Probed'
  BY <1>0, <1>7, <1>10 DEF LifeInv, Probed
<1>12. held'[p] = {}
  BY <1>0, <1>2, <1>6
<1> QED BY <1>2, <1>7, <1>8, <1>9, <1>11, <1>12 DEF LifeInv, p

LEMMA LoadLife ==
  ASSUME LifeInv, Load
  PROVE  LifeInv'
<1>1. UNCHANGED <<glob, held, present, probing, toProbe>> /\ Tree' = Tree
  BY DEF Load, Tree
<1>2. LifeTypes'
  BY <1>1, InitOrderFacts DEF LifeInv, LifeTypes, Load
<1>3. First(InitOrder, 0) = {}
  BY DEF First
<1>4. Staged'
  BY <1>1, <1>3 DEF LifeInv, Staged, Load
<1> QED BY <1>1, <1>2, <1>4 DEF LifeInv, Probed

\* What is held when init comes to a stage.
LEMMA Stages ==
  ASSUME LifeInv, mod = "loading"
  PROVE  /\ stage \in 1 .. 6 /\ stage - 1 \in Nat /\ (stage - 1) + 1 = stage
         /\ glob = First(InitOrder, stage - 1)
         /\ Before(InitOrder, InitOrder[stage]) = glob
         /\ First(InitOrder, stage) = glob \cup {InitOrder[stage]}
         /\ "driver" \in glob <=> stage = 6
         /\ InitOrder[stage] = "driver" <=> stage = 5
         /\ InitOrder[stage] = "node" <=> stage = 4
         /\ InitOrder[stage] = "kthread" <=> stage = 6
<1>1. stage \in 1 .. 6
  BY InitOrderFacts, LenProperties DEF LifeInv, LifeTypes
<1>2. stage - 1 \in Nat /\ (stage - 1) + 1 = stage /\ stage - 1 < Len(InitOrder)
  BY <1>1, InitOrderFacts
<1>3. glob = First(InitOrder, stage - 1)
  BY DEF LifeInv, Staged
<1>4. /\ Before(InitOrder, InitOrder[stage]) = glob
      /\ First(InitOrder, stage) = glob \cup {InitOrder[stage]}
  <2> DEFINE n == stage - 1
  <2>1. n \in Nat /\ n < Len(InitOrder) /\ n + 1 = stage /\ glob = First(InitOrder, n)
    BY <1>2, <1>3
  <2> HIDE DEF n
  <2>2. /\ Before(InitOrder, InitOrder[n + 1]) = First(InitOrder, n)
        /\ First(InitOrder, n + 1) = First(InitOrder, n) \cup {InitOrder[n + 1]}
    BY <2>1, NextInOrder, InitOrderFacts
  <2> QED BY <2>1, <2>2
<1>5. \A i \in 1 .. 6 : InitOrder[i] = "driver" <=> i = 5
  BY InitOrderFacts
<1>6. "driver" \in glob <=> stage = 6
  BY <1>1, <1>3, <1>5 DEF First
<1>7. /\ InitOrder[stage] = "driver" <=> stage = 5
      /\ InitOrder[stage] = "node" <=> stage = 4
      /\ InitOrder[stage] = "kthread" <=> stage = 6
  BY <1>1, InitOrderFacts
<1> QED BY <1>1, <1>2, <1>3, <1>4, <1>6, <1>7

LEMMA LoadStepLife ==
  ASSUME LifeInv, LoadStep
  PROVE  LifeInv' /\ Tree' = Tree
<1> DEFINE r == InitOrder[stage]
<1>1. /\ mod = "loading" /\ probing = 0 /\ toProbe = {}
      /\ UNCHANGED <<held, present, probing>> /\ Tree' = Tree
      /\ glob' = glob \cup {r}
      /\ toProbe' = IF r = "driver" THEN present ELSE {}
      /\ r = "kthread" => mod' = "live" /\ stage' = stage
      /\ r # "kthread" => stage' = stage + 1 /\ mod' = mod
  BY DEF LoadStep, Tree
<1>2. /\ stage \in 1 .. 6 /\ stage - 1 \in Nat
      /\ glob' = First(InitOrder, stage)
      /\ "driver" \in glob <=> stage = 6
      /\ r = "driver" <=> stage = 5
      /\ r = "kthread" <=> stage = 6
  BY <1>1, Stages
<1>3. DOMAIN InitOrder = 1 .. 6 /\ r \in ToSet(InitOrder)
  BY <1>2, InitOrderFacts, LenProperties DEF ToSet
<1> HIDE DEF r
<1>4. r = "driver" <=> stage = 5
  BY <1>2
<1>5. r = "kthread" <=> stage = 6
  BY <1>2
<1>6. "driver" \notin glob' => Tree = {} /\ toProbe' = {}
  BY <1>1 DEF LifeInv, Staged
<1>7. LifeTypes'
  <2>1. stage' \in 1 .. 6
    BY <1>1, <1>2, <1>5
  <2>2. mod' \in {"loading", "live"}
    BY <1>1
  <2> QED BY <1>1, <1>3, <2>1, <2>2 DEF LifeInv, LifeTypes
<1>8. Staged'
  <2>1. r = "kthread" => "driver" \in glob'
    BY <1>1, <1>2, <1>5
  <2>2. r # "kthread" => stage' - 1 = stage
    BY <1>1, <1>2
  <2> QED BY <1>1, <1>2, <1>6, <2>1, <2>2 DEF Staged
<1>9. Probed'
  <2>1. toProbe' # {} => Tree = {}
    BY <1>1, <1>2, <1>4 DEF LifeInv, Staged
  <2> QED BY <1>1, <2>1 DEF LifeInv, Probed
<1> QED BY <1>1, <1>7, <1>8, <1>9 DEF LifeInv

LEMMA LoadFailsLife ==
  ASSUME LifeInv, Handled, LoadFails
  PROVE  LifeInv' /\ Tree' = Tree /\ Tree = {}
<1> DEFINE r == InitOrder[stage]
<1>1. /\ mod = "loading" /\ probing = 0 /\ toProbe = {}
      /\ UNCHANGED <<held, present, probing, toProbe>> /\ Tree' = Tree
      /\ r # "node" /\ r # "kthread"
      /\ glob' = glob \ (Before(InitOrder, r) \ {"driver"})
      /\ mod' = "out" /\ stage' = stage
  BY DEF LoadFails, Tree, Handled
<1>2. "driver" \notin glob /\ Before(InitOrder, r) = glob
  BY <1>1, Stages
<1>3. glob' = {} /\ Tree = {}
  BY <1>1, <1>2 DEF LifeInv, Staged
<1> HIDE DEF r
<1> QED BY <1>1, <1>3 DEF LifeInv, LifeTypes, Staged, Probed

LEMMA UnloadStartLife ==
  ASSUME LifeInv, UnloadStart
  PROVE  LifeInv' /\ Tree' = Tree
<1>1. /\ mod = "live" /\ probing = 0 /\ toProbe = {} /\ mod' = "unloading"
      /\ glob' = glob \ {"kthread"} /\ Tree' = Tree
      /\ UNCHANGED <<stage, held, present, probing, toProbe>>
  BY DEF UnloadStart, Tree
<1> QED BY <1>1 DEF LifeInv, LifeTypes, Staged, Probed

\* Devices that are removed while nothing is probed hold nothing and leave the
\* tree.
LEMMA RemovedLife ==
  ASSUME LifeInv, NEW ds \in SUBSET Devices, Removed(ds)
  PROVE  /\ held' \in [Devices -> SUBSET ToSet(ProbeOrder)]
         /\ Tree' = Tree \ ds
         /\ \A d \in Devices : held'[d] = IF d \in ds THEN {} ELSE held[d]
BY DEF LifeInv, LifeTypes, Removed, Tree

LEMMA UnloadDriverLife ==
  ASSUME LifeInv, UnloadDriver
  PROVE  LifeInv' /\ Tree' = {}
<1>1. /\ mod = "unloading" /\ glob' = glob \ {"driver"} /\ Removed(Tree)
      /\ UNCHANGED <<mod, stage, present, probing, toProbe>>
      /\ Tree \in SUBSET Devices
  BY DEF UnloadDriver, Tree
<1>2. Tree' = {}
  BY <1>1, RemovedLife
<1>3. probing = 0 /\ toProbe = {}
  BY <1>1 DEF LifeInv, Staged
<1>4. \A d \in Devices : held'[d] = {}
  BY <1>1, <1>3, RemovedLife, LifeAssumption DEF LifeInv, Probed
<1>5. held' \in [Devices -> SUBSET ToSet(ProbeOrder)]
  BY <1>1, RemovedLife
<1> QED BY <1>1, <1>2, <1>3, <1>4, <1>5 DEF LifeInv, LifeTypes, Staged, Probed

LEMMA UnloadDoneLife ==
  ASSUME LifeInv, UnloadDone
  PROVE  LifeInv' /\ Tree' = Tree
<1>1. /\ mod = "unloading" /\ "driver" \notin glob /\ mod' = "out" /\ glob' = {}
      /\ UNCHANGED <<stage, held, present, probing, toProbe>> /\ Tree' = Tree
  BY DEF UnloadDone, Tree
<1> QED BY <1>1 DEF LifeInv, LifeTypes, Staged, Probed

LEMMA EnableLife ==
  ASSUME LifeInv, NEW h \in Handles, sriov_enable(h)
  PROVE  LifeInv' /\ Tree' = Tree
<1>1. /\ mod = "live" /\ probing = 0 /\ toProbe = {} /\ Virtual \cap present = {}
      /\ present' = present \cup Virtual /\ toProbe' = Virtual /\ Tree' = Tree
      /\ UNCHANGED <<mod, stage, glob, held, probing>>
  BY DEF sriov_enable, PciIdle, Tree
<1>2. LifeTypes'
  BY <1>1, LifeAssumption DEF LifeInv, LifeTypes
<1>3. Staged'
  BY <1>1 DEF LifeInv, Staged
<1>4. Probed'
  BY <1>1 DEF LifeInv, Probed
<1> QED BY <1>1, <1>2, <1>3, <1>4 DEF LifeInv

LEMMA DisableLife ==
  ASSUME LifeInv, NEW h \in Handles, sriov_disable(h)
  PROVE  LifeInv' /\ Tree' = Tree \ Virtual
<1>1. /\ mod = "live" /\ probing = 0 /\ toProbe = {}
      /\ present' = present \ Virtual /\ Removed(Virtual)
      /\ UNCHANGED <<mod, stage, glob, probing, toProbe>>
      /\ Virtual \in SUBSET Devices
  BY LifeAssumption DEF sriov_disable, PciIdle
<1>2. /\ held' \in [Devices -> SUBSET ToSet(ProbeOrder)]
      /\ Tree' = Tree \ Virtual
      /\ \A d \in Devices : held'[d] = IF d \in Virtual THEN {} ELSE held[d]
  BY <1>1, RemovedLife
<1>3. LifeTypes'
  BY <1>1, <1>2 DEF LifeInv, LifeTypes
<1>4. Staged'
  BY <1>1, <1>2 DEF LifeInv, Staged
<1>5. Probed'
  BY <1>1, <1>2 DEF LifeInv, Probed
<1> QED BY <1>2, <1>3, <1>4, <1>5 DEF LifeInv

LEMMA CoreUnchanged ==
  ASSUME LifeInv, UNCHANGED coreVars
  PROVE  LifeInv' /\ Tree' = Tree
BY DEF LifeInv, LifeTypes, Staged, Probed, Tree, coreVars

-----------------------------------------------------------------------------
\* A step of the kernel, of the module's life, or of a file.
LEMMA LifeStep ==
  ASSUME LifeInv, Handled, [Next]_vars
  PROVE  LifeInv'
<1>1. CASE UNCHANGED vars
  BY <1>1, CoreUnchanged DEF vars, lifeVars, coreVars
<1>2. CASE Load
  BY <1>2, LoadLife
<1>3. CASE Unload
  BY <1>3, UnloadStartLife DEF Unload
<1>4. CASE KernelStep
  BY <1>4, ProbeStartLife, ProbeStepLife, ProbeFailsLife, LoadStepLife,
     LoadFailsLife, UnloadDoneLife, UnloadDriverLife
     DEF KernelStep, UnloadDevices
<1>5. ASSUME NEW h \in Handles,
             chr_open(h) \/ chr_release(h) \/ chr_mmap(h) \/ munmap(h)
             \/ (\E d \in Devices : sel_dev(h, d))
             \/ (\E size \in Sizes : set_kmem_size(h, size))
             \/ Down(h) \/ Interrupted(h) \/ HandleStep(h)
      PROVE  LifeInv'
  <2>1. UNCHANGED coreVars
    BY <1>5 DEF chr_open, chr_release, chr_mmap, munmap, sel_dev, set_kmem_size, Down,
                Interrupted, HandleStep, Count, KmemAlloc, KmemFix, KmemRead,
                KmemWrite, sriov_enabled, lifeVars, coreVars
  <2> QED BY <2>1, CoreUnchanged
<1>6. ASSUME NEW h \in Handles, sriov_enable(h) \/ sriov_disable(h)
      PROVE  LifeInv'
  BY <1>6, EnableLife, DisableLife
<1> QED BY <1>1, <1>2, <1>3, <1>4, <1>5, <1>6 DEF Next

\* What the module and each device hold at every step of a load, a probe and an
\* unload is what came before that step.
THEOREM HeldByStage == Handled /\ Spec => []LifeInv
<1> SUFFICES ASSUME Handled
             PROVE  Spec => []LifeInv
  OBVIOUS
<1>1. Init => LifeInv
  BY LifeInitially DEF Init
<1>2. LifeInv /\ [Next]_vars => LifeInv'
  BY LifeStep
<1> QED BY <1>1, <1>2, PTL DEF Spec

\* When only failures occur that the labels of init and probe handle, a module
\* whose load failed or that was removed, and a device whose probe failed or that
\* was removed, hold nothing.
THEOREM FailureUndone == Handled /\ Spec => []NothingLeft
<1>1. ASSUME LifeInv
      PROVE  NothingLeft
  <2>1. CASE mod = "out"
    <3>1. glob = {} /\ "driver" \notin glob
      BY <1>1, <2>1 DEF LifeInv, Staged
    <3>2. Tree = {} /\ probing = 0
      BY <1>1, <3>1 DEF LifeInv, Staged
    <3>3. \A d \in Devices : d # probing
      BY <3>2, LifeAssumption
    <3> QED BY <1>1, <3>1, <3>2, <3>3 DEF NothingLeft, LifeInv, Probed
  <2>2. CASE mod # "out"
    BY <1>1, <2>2 DEF NothingLeft, LifeInv, Probed
  <2> QED BY <2>1, <2>2
<1> QED BY <1>1, HeldByStage, PTL

-----------------------------------------------------------------------------
(* The devices that files use, at every step.                               *)

LEMMA RegistersAre ==
  /\ ToSet(Registers) = {"rx_l", "rx_h", "tx_l", "tx_h"}
  /\ Len(Registers) = 4 /\ DOMAIN Registers = 1 .. 4
  /\ Registers[1] = "rx_l" /\ Registers[2] = "rx_h"
  /\ Registers[3] = "tx_l" /\ Registers[4] = "tx_h"
BY DEF Registers, ToSet

LEMMA PCsAre ==
  PCs = {"closed", "open", "sriov", "kmem_read", "open_down", "release_down",
         "kmem_down", "sel_first", "sel_second", "open_in", "release_in", "kmem_in",
         "kmem_fix", "sel_in", "rx_l", "rx_h", "tx_l", "tx_h"}
BY RegistersAre DEF PCs, Waits, Inside

LEMMA UseInitially ==
  ASSUME Init
  PROVE  UseInv
BY PCsAre, RegistersAre
   DEF Init, UseInv, UseTypes, Uses, UseOf, Selecting, KmemPCs, Unmapped

\* The files are left alone, and the devices they use.
LEMMA FilesUnchanged ==
  ASSUME UseInv, UNCHANGED <<pc, dev, want, mapped>>,
         \A h \in Handles : pc[h] # "closed" =>
           /\ mod' \in {"loading", "live"}
           /\ {dev[h], want[h], mapped[h].dev} \cap Tree \subseteq Tree'
  PROVE  UseInv'
<1>1. ASSUME NEW h \in Handles
      PROVE  UseOf(h)'
  <2>1. UseOf(h)
    BY DEF UseInv, Uses
  <2>2. CASE pc[h] = "closed"
    BY <2>1, <2>2 DEF UseOf, Selecting, KmemPCs
  <2>3. CASE pc[h] # "closed"
    BY <2>1, <2>3 DEF UseOf
  <2> QED BY <2>2, <2>3
<1> QED BY <1>1 DEF UseInv, UseTypes, Uses

\* Only the file h changes, and nothing in the tree.
LEMMA OneFile ==
  ASSUME UseInv, NEW h \in Handles, UseTypes', UseOf(h)',
         UNCHANGED <<mod, Tree>>,
         \A g \in Handles : g # h =>
           /\ pc'[g] = pc[g] /\ dev'[g] = dev[g] /\ want'[g] = want[g]
           /\ mapped'[g] = mapped[g]
  PROVE  UseInv'
BY DEF UseInv, Uses, UseOf

LEMMA KernelUse ==
  ASSUME LifeInv, UseInv, Handled, KernelStep
  PROVE  UseInv'
<1>1. UNCHANGED <<pc, dev, want, mapped>>
  BY DEF KernelStep, UnloadDevices, fileVars, kmemVars
<1>2. ASSUME \A h \in Handles : pc[h] = "closed"
      PROVE  UseInv'
  BY <1>1, <1>2, FilesUnchanged
<1>3. ASSUME Tree \subseteq Tree', mod' = mod \/ mod' \in {"loading", "live"}
      PROVE  UseInv'
  <2>1. ASSUME NEW h \in Handles, pc[h] # "closed"
        PROVE  mod' \in {"loading", "live"}
    BY <1>3, <2>1 DEF UseInv, Uses, UseOf
  <2> QED BY <1>1, <1>3, <2>1, FilesUnchanged
<1>4. ASSUME Tree = {} \/ mod = "unloading"
      PROVE  \A h \in Handles : pc[h] = "closed"
  BY <1>4 DEF UseInv, Uses, UseOf
<1>5. CASE \E d \in Devices : ProbeStart(d)
  BY <1>3, <1>5 DEF ProbeStart, Tree
<1>6. CASE ProbeStep
  BY <1>3, <1>6, ProbeStepLife DEF ProbeStep
<1>7. CASE ProbeFails
  BY <1>3, <1>7, ProbeFailsLife DEF ProbeFails
<1>8. CASE LoadStep
  BY <1>3, <1>8, LoadStepLife DEF LoadStep
<1>9. CASE LoadFails
  BY <1>2, <1>4, <1>9, LoadFailsLife
<1>10. CASE UnloadDone
  BY <1>2, <1>4, <1>10 DEF UnloadDone
<1>11. CASE UnloadDevices
  BY <1>2, <1>4, <1>11 DEF UnloadDevices, UnloadDriver
<1> QED BY <1>5, <1>6, <1>7, <1>8, <1>9, <1>10, <1>11 DEF KernelStep

\* The calls up to the semaphore, and mapping.
LEMMA EntryUse ==
  ASSUME LifeInv, UseInv, NEW h \in Handles,
         \/ chr_open(h) \/ chr_release(h) \/ chr_mmap(h) \/ munmap(h)
         \/ \E d \in Devices : sel_dev(h, d)
         \/ \E size \in Sizes : set_kmem_size(h, size)
  PROVE  UseInv'
<1>0. UNCHANGED <<mod, Tree>>
  BY DEF chr_open, chr_release, chr_mmap, munmap, sel_dev, set_kmem_size,
         lifeVars, Tree
<1>1. UseOf(h) /\ UseTypes
  BY DEF UseInv, Uses
<1>2. CASE chr_open(h)
  <2>1. dev' = [dev EXCEPT ![h] = Lowest(Tree)] /\ pc' = [pc EXCEPT ![h] = "open_down"]
        /\ UNCHANGED <<want, mapped>> /\ pc[h] = "closed"
    BY <1>2 DEF chr_open, kmemVars, Goto
  <2>2. Lowest(Tree) \in Tree
    BY <1>2, SmallestNat, LifeAssumption DEF chr_open, Tree
  <2>3. UseTypes'
    BY <1>1, <2>1, <2>2, PCsAre DEF UseTypes, Tree
  <2>4. UseOf(h)'
    BY <1>0, <1>1, <1>2, <2>1, <2>2, RegistersAre
       DEF UseOf, UseTypes, chr_open, Selecting, KmemPCs
  <2> QED BY <1>0, <1>1, <2>1, <2>3, <2>4, OneFile DEF UseTypes
<1>3. CASE chr_release(h)
  <2>1. pc' = [pc EXCEPT ![h] = "release_down"] /\ UNCHANGED <<dev, want, mapped>>
        /\ pc[h] = "open" /\ mapped[h] = Unmapped
    BY <1>3 DEF chr_release, kmemVars, Goto
  <2>3. UseTypes'
    BY <1>1, <2>1, PCsAre DEF UseTypes
  <2>4. UseOf(h)'
    BY <1>0, <1>1, <2>1, RegistersAre DEF UseOf, UseTypes, Selecting, KmemPCs
  <2> QED BY <1>0, <1>1, <2>1, <2>3, <2>4, OneFile DEF UseTypes
<1>4. CASE chr_mmap(h)
  <2>1. UNCHANGED <<pc, dev, want>> /\ pc[h] = "open" /\ h \in KmemUsers
        /\ mapped' = [mapped EXCEPT ![h] = [dev |-> dev[h], virt |-> kmem[dev[h]].virt]]
    BY <1>4 DEF chr_mmap
  <2>2. UseTypes'
    <3>1. DOMAIN mapped' = Handles /\ mapped' = [g \in Handles |-> mapped'[g]]
      BY <1>1, <2>1 DEF UseTypes
    <3> QED BY <1>1, <2>1, <3>1 DEF UseTypes
  <2>3. mapped'[h].dev = dev[h]
    BY <1>1, <2>1 DEF UseTypes
  <2>4. UseOf(h)'
    BY <1>0, <1>1, <2>1, <2>3 DEF UseOf
  <2> QED BY <1>0, <1>1, <2>1, <2>2, <2>4, OneFile DEF UseTypes
<1>5. CASE munmap(h)
  <2>1. UNCHANGED <<pc, dev, want>> /\ mapped' = [mapped EXCEPT ![h] = Unmapped]
    BY <1>5 DEF munmap
  <2>2. UseTypes'
    <3>1. DOMAIN mapped' = Handles /\ mapped' = [g \in Handles |-> mapped'[g]]
      BY <1>1, <2>1 DEF UseTypes
    <3> QED BY <1>1, <2>1, <3>1 DEF UseTypes
  <2>3. mapped'[h] = Unmapped
    BY <1>1, <2>1 DEF UseTypes
  <2>4. UseOf(h)'
    BY <1>0, <1>1, <2>1, <2>3 DEF UseOf
  <2> QED BY <1>0, <1>1, <2>1, <2>2, <2>4, OneFile DEF UseTypes
<1>6. ASSUME NEW d \in Devices, sel_dev(h, d)
      PROVE  UseInv'
  <2>1. pc' = [pc EXCEPT ![h] = "sel_first"] /\ want' = [want EXCEPT ![h] = d]
        /\ UNCHANGED <<dev, mapped>> /\ pc[h] = "open" /\ d \in Tree /\ d # dev[h]
    BY <1>6 DEF sel_dev, kmemVars, Goto
  <2>3. UseTypes'
    BY <1>1, <2>1, PCsAre DEF UseTypes
  <2>4. UseOf(h)'
    BY <1>0, <1>1, <2>1, RegistersAre DEF UseOf, UseTypes, Selecting, KmemPCs
  <2> QED BY <1>0, <1>1, <2>1, <2>3, <2>4, OneFile DEF UseTypes
<1>7. ASSUME NEW size \in Sizes, set_kmem_size(h, size)
      PROVE  UseInv'
  <2>1. pc' = [pc EXCEPT ![h] = "kmem_down"]
        /\ UNCHANGED <<dev, want, mapped>> /\ pc[h] = "open" /\ h \in KmemUsers
    BY <1>7 DEF set_kmem_size, Goto
  <2>3. UseTypes'
    BY <1>1, <2>1, PCsAre DEF UseTypes
  <2>4. UseOf(h)'
    BY <1>0, <1>1, <2>1, RegistersAre DEF UseOf, UseTypes, Selecting, KmemPCs
  <2> QED BY <1>0, <1>1, <2>1, <2>3, <2>4, OneFile DEF UseTypes
<1> QED BY <1>2, <1>3, <1>4, <1>5, <1>6, <1>7

\* A call that waits for the semaphore of a device waits for one of its devices.
LEMMA WaitsForAny ==
  ASSUME UseInv, NEW h \in Handles, pc[h] \in Waits
  PROVE  WaitsFor(h) \in {dev[h], want[h]} /\ WaitsFor(h) \in Tree
<1>1. UseOf(h) /\ UseTypes
  BY DEF UseInv, Uses
<1>2. CASE pc[h] \in {"sel_first", "sel_second"}
  <2>1. SelOrder(h) = <<dev[h], want[h]>> \/ SelOrder(h) = <<want[h], dev[h]>>
    BY DEF SelOrder
  <2> QED BY <1>1, <1>2, <2>1 DEF WaitsFor, UseOf, Selecting
<1>3. CASE pc[h] \notin {"sel_first", "sel_second"}
  BY <1>1, <1>3 DEF WaitsFor, UseOf, Waits
<1> QED BY <1>2, <1>3

LEMMA DownUse ==
  ASSUME UseInv, NEW h \in Handles, Down(h)
  PROVE  UseInv'
<1>0. UNCHANGED <<mod, Tree, dev, want, mapped>>
  BY DEF Down, Tree
<1>1. UseOf(h) /\ UseTypes
  BY DEF UseInv, Uses
<1>2. /\ pc[h] = "open_down" => AfterDown[pc[h]] = "open_in"
      /\ pc[h] = "release_down" => AfterDown[pc[h]] = "release_in"
      /\ pc[h] = "kmem_down" => AfterDown[pc[h]] = "kmem_in"
      /\ pc[h] = "sel_first" => AfterDown[pc[h]] = "sel_second"
      /\ pc[h] = "sel_second" => AfterDown[pc[h]] = "sel_in"
  BY DEF AfterDown
<1>3. pc' = [pc EXCEPT ![h] = AfterDown[pc[h]]] /\ pc[h] \in Waits
  BY DEF Down, Goto
<1>4. UseTypes'
  BY <1>0, <1>1, <1>2, <1>3, PCsAre DEF UseTypes, Waits
<1>5. pc'[h] = AfterDown[pc[h]]
  BY <1>1, <1>3 DEF UseTypes
<1>6. UseOf(h)'
  BY <1>0, <1>1, <1>2, <1>3, <1>5, RegistersAre
     DEF UseOf, Waits, Selecting, KmemPCs
<1> QED BY <1>0, <1>1, <1>3, <1>4, <1>6, OneFile DEF UseTypes

LEMMA InterruptedUse ==
  ASSUME UseInv, NEW h \in Handles, Interrupted(h)
  PROVE  UseInv'
<1>0. UNCHANGED <<mod, Tree, mapped>>
  BY DEF Interrupted, Tree
<1>1. UseOf(h) /\ UseTypes
  BY DEF UseInv, Uses
<1> DEFINE gone == pc[h] \in {"open_down", "release_down"}
<1>2. /\ pc[h] \in Waits
      /\ pc' = [pc EXCEPT ![h] = IF gone THEN "closed" ELSE "open"]
      /\ dev' = [dev EXCEPT ![h] = IF gone THEN 0 ELSE @]
      /\ want' = [want EXCEPT ![h] = 0]
  BY DEF Interrupted, Goto
<1>3. UseTypes'
  BY <1>0, <1>1, <1>2, PCsAre DEF UseTypes
<1>4. UseOf(h)'
  BY <1>0, <1>1, <1>2, RegistersAre DEF UseOf, UseTypes, Waits, Selecting, KmemPCs
<1> QED BY <1>0, <1>1, <1>2, <1>3, <1>4, OneFile DEF UseTypes

LEMMA CountUse ==
  ASSUME UseInv, NEW h \in Handles, Count(h)
  PROVE  UseInv'
<1>0. UNCHANGED <<mod, Tree, mapped>>
  BY DEF Count, Tree, kmemVars
<1>1. UseOf(h) /\ UseTypes
  BY DEF UseInv, Uses
<1>2. /\ pc[h] \in {"open_in", "release_in", "sel_in"}
      /\ pc' = [pc EXCEPT ![h] = IF pc[h] = "release_in" THEN "closed" ELSE "open"]
      /\ dev' = [dev EXCEPT ![h] = CASE pc[h] = "open_in" -> dev[h]
                                     [] pc[h] = "release_in" -> 0
                                     [] OTHER -> want[h]]
      /\ want' = [want EXCEPT ![h] = 0]
  BY <1>1 DEF Count, Goto, UseTypes
<1>3. UseTypes'
  BY <1>0, <1>1, <1>2, PCsAre DEF UseTypes
<1>4. UseOf(h)'
  BY <1>0, <1>1, <1>2, RegistersAre DEF UseOf, UseTypes, Selecting, KmemPCs
<1> QED BY <1>0, <1>1, <1>2, <1>3, <1>4, OneFile DEF UseTypes

\* The register that set_kmem_size writes after the one at its place.
LEMMA NextRegister ==
  ASSUME NEW h \in Handles, pc \in [Handles -> PCs], KmemWrite(h)
  PROVE  /\ pc[h] \in ToSet(Registers)
         /\ pc[h] = "rx_l" => pc' = [pc EXCEPT ![h] = "rx_h"] /\ arg' = arg
         /\ pc[h] = "rx_h" => pc' = [pc EXCEPT ![h] = "tx_l"] /\ arg' = arg
         /\ pc[h] = "tx_l" => pc' = [pc EXCEPT ![h] = "tx_h"] /\ arg' = arg
         /\ pc[h] = "tx_h" =>
              pc' = [pc EXCEPT ![h] = "open"] /\ arg' = [arg EXCEPT ![h] = NoArg]
<1> DEFINE i == CHOOSE j \in DOMAIN Registers : Registers[j] = pc[h]
<1>1. /\ pc[h] = "rx_l" => i = 1
      /\ pc[h] = "rx_h" => i = 2
      /\ pc[h] = "tx_l" => i = 3
      /\ pc[h] = "tx_h" => i = 4
  BY RegistersAre
<1>2. /\ pc[h] \in ToSet(Registers)
      /\ IF i < Len(Registers)
         THEN Goto(h, Registers[i + 1]) /\ UNCHANGED arg
         ELSE Goto(h, "open") /\ arg' = [arg EXCEPT ![h] = NoArg]
  BY DEF KmemWrite
<1> HIDE DEF i
<1> QED BY <1>1, <1>2, RegistersAre DEF Goto

LEMMA HandleUse ==
  ASSUME UseInv, NEW h \in Handles, HandleStep(h)
  PROVE  UseInv'
<1>1. UseOf(h) /\ UseTypes
  BY DEF UseInv, Uses
<1>2. CASE Count(h)
  BY <1>2, CountUse
<1>3. CASE KmemAlloc(h) \/ KmemFix(h) \/ KmemRead(h) \/ sriov_enabled(h)
  <2>1. UNCHANGED <<mod, Tree, dev, want, mapped>>
    BY <1>3 DEF KmemAlloc, KmemFix, KmemRead, sriov_enabled, lifeVars, Tree, kmemVars
  <2>2. \/ /\ pc[h] = "kmem_in"
           /\ pc' \in {[pc EXCEPT ![h] = "open"], [pc EXCEPT ![h] = "kmem_fix"]}
        \/ pc[h] = "kmem_fix" /\ pc' = [pc EXCEPT ![h] = "kmem_read"]
        \/ pc[h] = "kmem_read" /\ pc' = [pc EXCEPT ![h] = "rx_l"]
        \/ pc[h] = "sriov" /\ pc' = [pc EXCEPT ![h] = "open"]
    BY <1>3, RegistersAre DEF KmemAlloc, KmemFix, KmemRead, sriov_enabled, Goto
  <2>3. UseTypes'
    BY <1>1, <2>1, <2>2, PCsAre DEF UseTypes
  <2>4. UseOf(h)'
    BY <1>1, <2>1, <2>2, RegistersAre DEF UseOf, UseTypes, Selecting, KmemPCs
  <2> QED BY <1>1, <2>1, <2>2, <2>3, <2>4, OneFile DEF UseTypes
<1>4. CASE KmemWrite(h)
  <2>1. UNCHANGED <<mod, Tree, dev, want, mapped>>
    BY <1>4 DEF KmemWrite, lifeVars, Tree
  <2>2. /\ pc[h] \in ToSet(Registers)
        /\ \E l \in {"rx_h", "tx_l", "tx_h", "open"} : pc' = [pc EXCEPT ![h] = l]
    BY <1>1, <1>4, NextRegister, RegistersAre DEF UseTypes
  <2>3. UseTypes'
    BY <1>1, <2>1, <2>2, PCsAre DEF UseTypes
  <2>4. UseOf(h)'
    BY <1>1, <2>1, <2>2, RegistersAre DEF UseOf, UseTypes, Selecting, KmemPCs
  <2> QED BY <1>1, <2>1, <2>2, <2>3, <2>4, OneFile DEF UseTypes
<1> QED BY <1>2, <1>3, <1>4 DEF HandleStep

LEMMA SriovUse ==
  ASSUME LifeInv, UseInv, NEW h \in Handles, sriov_enable(h) \/ sriov_disable(h)
  PROVE  UseInv'
<1>1. UseOf(h) /\ UseTypes
  BY DEF UseInv, Uses
<1>2. CASE sriov_enable(h)
  <2>1. UNCHANGED <<mod, Tree, dev, want, mapped>>
    BY <1>2, EnableLife DEF sriov_enable, kmemVars
  <2>2. pc[h] = "open" /\ pc' = [pc EXCEPT ![h] = "sriov"]
    BY <1>2 DEF sriov_enable, Goto
  <2>3. UseTypes'
    BY <1>1, <2>1, <2>2, PCsAre DEF UseTypes
  <2>4. UseOf(h)'
    BY <1>1, <2>1, <2>2, RegistersAre DEF UseOf, UseTypes, Selecting, KmemPCs
  <2> QED BY <1>1, <2>1, <2>2, <2>3, <2>4, OneFile DEF UseTypes
<1>3. CASE sriov_disable(h)
  <2>1. /\ UNCHANGED <<pc, dev, want, mapped, mod>>
        /\ Virtual \cap InUse = {} /\ Tree' = Tree \ Virtual
    BY <1>3, DisableLife DEF sriov_disable
  <2>2. ASSUME NEW g \in Handles, pc[g] # "closed"
        PROVE  /\ mod' \in {"loading", "live"}
               /\ {dev[g], want[g], mapped[g].dev} \cap Tree \subseteq Tree'
    BY <2>1, <2>2 DEF InUse, UseInv, Uses, UseOf
  <2> QED BY <2>1, <2>2, FilesUnchanged
<1> QED BY <1>2, <1>3

LEMMA UseStep ==
  ASSUME LifeInv, UseInv, Handled, [Next]_vars
  PROVE  UseInv'
<1>1. CASE UNCHANGED vars
  <2>1. UNCHANGED <<mod, pc, dev, want, mapped, Tree>>
    BY <1>1 DEF vars, lifeVars, fileVars, kmemVars, Tree
  <2> QED BY <2>1 DEF UseInv, UseTypes, Uses, UseOf
<1>2. CASE Load /\ UNCHANGED fileVars
  <2>1. \A h \in Handles : pc[h] = "closed"
    BY <1>2 DEF Load, UseInv, Uses, UseOf
  <2> QED BY <1>2, <2>1, FilesUnchanged DEF fileVars, kmemVars
<1>3. CASE Unload
  <2>1. \A h \in Handles : pc[h] = "closed"
    BY <1>3 DEF Unload
  <2> QED BY <1>3, <2>1, FilesUnchanged DEF Unload, fileVars, kmemVars
<1>4. CASE KernelStep
  BY <1>4, KernelUse
<1>5. ASSUME NEW h \in Handles,
             \/ chr_open(h) \/ chr_release(h) \/ chr_mmap(h) \/ munmap(h)
             \/ \E d \in Devices : sel_dev(h, d)
             \/ \E size \in Sizes : set_kmem_size(h, size)
             \/ sriov_enable(h) \/ sriov_disable(h)
             \/ Down(h) \/ Interrupted(h) \/ HandleStep(h)
      PROVE  UseInv'
  BY <1>5, EntryUse, SriovUse, DownUse, InterruptedUse, HandleUse
<1> QED BY <1>1, <1>2, <1>3, <1>4, <1>5 DEF Next

\* An open file, and a call on it, keep the devices it has selected, is about to
\* select or has memory of in the tree, and the module loaded: neither SR-IOV nor
\* rmmod takes a device that is in use.
THEOREM DevicesInUseStay == Handled /\ Spec => [](LifeInv /\ UseInv)
<1> SUFFICES ASSUME Handled
             PROVE  Spec => [](LifeInv /\ UseInv)
  OBVIOUS
<1>1. Init => LifeInv /\ UseInv
  BY LifeInitially, UseInitially DEF Init
<1>2. LifeInv /\ UseInv /\ [Next]_vars => (LifeInv /\ UseInv)'
  BY LifeStep, UseStep
<1> QED BY <1>1, <1>2, PTL DEF Spec

-----------------------------------------------------------------------------
(* The semaphores and the counters, at every step.                          *)

LEMMA HoldsInTree ==
  ASSUME UseInv, NEW h \in Handles
  PROVE  Holds(h) \subseteq Tree
<1>1. UseOf(h)
  BY DEF UseInv, Uses
<1>2. CASE pc[h] = "sel_second"
  <2>1. SelOrder(h) = <<dev[h], want[h]>> \/ SelOrder(h) = <<want[h], dev[h]>>
    BY DEF SelOrder
  <2> QED BY <1>1, <1>2, <2>1 DEF Holds, UseOf, Selecting
<1>3. CASE pc[h] # "sel_second"
  BY <1>1, <1>3 DEF Holds, UseOf, Selecting
<1> QED BY <1>2, <1>3

\* A file that is left alone holds what it held.
LEMMA HoldsSame ==
  ASSUME NEW g, pc'[g] = pc[g], dev'[g] = dev[g], want'[g] = want[g]
  PROVE  Holds(g)' = Holds(g)
<1>1. SelOrder(g)' = SelOrder(g)
  BY DEF SelOrder
<1> QED BY <1>1 DEF Holds

LEMMA CountsFinite ==
  ASSUME NEW d
  PROVE  IsFiniteSet(Counts(d)) /\ Cardinality(Counts(d)) \in Nat
<1>1. Counts(d) \subseteq Handles
  BY DEF Counts
<1> QED BY <1>1, FileAssumption, FS_Subset, FS_CardinalityType

\* Files that are not open are not counted for any device.
LEMMA CountsInTree ==
  ASSUME UseInv, LifeInv, NEW d \in Devices, d \notin Tree
  PROVE  Counts(d) = {}
BY LifeAssumption DEF Counts, UseInv, Uses, UseOf

LEMMA CountInitially ==
  ASSUME Init
  PROVE  CountInv
<1>1. Tree = {}
  BY DEF Init, LifeInit, Tree
<1>2. CountTypes
  BY FileAssumption DEF Init, LifeInit, CountTypes, NoCounts
<1>3. \A h \in Handles : Holds(h) = {}
  BY DEF Init, Holds
<1>4. Mutex
  BY <1>3 DEF Mutex, Init, LifeInit
<1>5. Loaded
  BY DEF Loaded, Init
<1>6. Tally
  BY <1>1 DEF Tally, Init, LifeInit
<1> QED BY <1>2, <1>4, <1>5, <1>6 DEF CountInv

\* No semaphore, no counter and no device is touched, and no file that is
\* counted.
LEMMA CountFrame ==
  ASSUME CountInv, UNCHANGED <<sem, cnt, ghosts, held>>, CountTypes',
         \A g \in Handles : Holds(g)' \subseteq Holds(g),
         \A g \in Handles : pc'[g] \in {"open_in", "release_in", "sel_in"} =>
                              pc'[g] = pc[g] /\ seen'[g] = seen[g],
         \A d \in Devices : Counts(d)' = Counts(d)
  PROVE  CountInv'
<1>1. Tree' = Tree
  BY DEF Tree
<1>2. Mutex'
  BY DEF CountInv, Mutex
<1>3. Loaded'
  BY DEF CountInv, Loaded
<1>4. Tally'
  <2>1. \A d \in Tree : cnt'[d] = Cardinality(Counts(d)') + ghosts'[d]
    BY DEF CountInv, Tally, Tree
  <2> QED BY <1>1, <2>1 DEF CountInv, Tally, Tree
<1> QED BY <1>2, <1>3, <1>4 DEF CountInv

\* What only the file h does, outside of a semaphore.
LEMMA CountOneFile ==
  ASSUME CountInv, NEW h \in Handles, UNCHANGED <<sem, cnt, ghosts, held, seen>>,
         \A g \in Handles : g # h =>
           pc'[g] = pc[g] /\ dev'[g] = dev[g] /\ want'[g] = want[g],
         Holds(h)' = {}, pc'[h] \notin {"open_in", "release_in", "sel_in"},
         \A d \in Devices : h \in Counts(d)' <=> h \in Counts(d)
  PROVE  CountInv'
<1>1. CountTypes'
  BY DEF CountInv, CountTypes
<1>2. \A g \in Handles : Holds(g)' \subseteq Holds(g)
  BY HoldsSame
<1>3. ASSUME NEW d \in Devices
      PROVE  Counts(d)' = Counts(d)
  <2>1. \A g \in Handles : g # h => (g \in Counts(d)' <=> g \in Counts(d))
    BY DEF Counts
  <2>2. Counts(d) \subseteq Handles /\ Counts(d)' \subseteq Handles
    BY DEF Counts
  <2> QED BY <2>1, <2>2
<1> QED BY <1>1, <1>2, <1>3, CountFrame

LEMMA EntryCount ==
  ASSUME LifeInv, UseInv, CountInv, NEW h \in Handles,
         \/ chr_open(h) \/ chr_release(h) \/ chr_mmap(h) \/ munmap(h)
         \/ \E d \in Devices : sel_dev(h, d)
         \/ \E size \in Sizes : set_kmem_size(h, size)
         \/ KmemRead(h) \/ KmemWrite(h) \/ sriov_enabled(h) \/ sriov_enable(h)
  PROVE  CountInv'
<1>0. UNCHANGED <<sem, cnt, ghosts, held, seen>>
  BY DEF chr_open, chr_release, chr_mmap, munmap, sel_dev, set_kmem_size,
         KmemRead, KmemWrite, sriov_enabled, sriov_enable, lifeVars
<1>1. UseOf(h) /\ UseTypes
  BY DEF UseInv, Uses
<1>2. CASE chr_mmap(h) \/ munmap(h)
  <2>1. UNCHANGED <<pc, dev, want>>
    BY <1>2 DEF chr_mmap, munmap
  <2>2. \A g \in Handles : Holds(g)' = Holds(g)
    BY <2>1, HoldsSame
  <2>3. \A d \in Devices : Counts(d)' = Counts(d)
    BY <2>1 DEF Counts
  <2>4. CountTypes'
    BY <1>0 DEF CountInv, CountTypes
  <2> QED BY <1>0, <2>1, <2>2, <2>3, <2>4, CountFrame
<1>3. CASE chr_open(h)
  <2>1. dev' = [dev EXCEPT ![h] = Lowest(Tree)] /\ pc' = [pc EXCEPT ![h] = "open_down"]
        /\ UNCHANGED want /\ pc[h] = "closed"
    BY <1>3 DEF chr_open, Goto
  <2>2. dev[h] = 0 /\ pc'[h] = "open_down"
    BY <1>1, <2>1 DEF UseOf, UseTypes
  <2>3. Holds(h)' = {}
    BY <2>2 DEF Holds
  <2>4. \A d \in Devices : h \notin Counts(d)' /\ h \notin Counts(d)
    BY <2>2, LifeAssumption DEF Counts
  <2> QED BY <1>0, <1>1, <2>1, <2>2, <2>3, <2>4, CountOneFile DEF UseTypes
<1>4. CASE \/ chr_release(h) \/ \E d \in Devices : sel_dev(h, d)
           \/ \E size \in Sizes : set_kmem_size(h, size)
           \/ KmemRead(h) \/ KmemWrite(h) \/ sriov_enabled(h) \/ sriov_enable(h)
  <2>1. dev' = dev /\ \A g \in Handles : g # h => want'[g] = want[g]
    BY <1>1, <1>4
       DEF chr_release, sel_dev, set_kmem_size, KmemRead, KmemWrite, sriov_enabled,
           sriov_enable, UseTypes
  <2>2. \E l \in {"release_down", "sel_first", "kmem_down", "rx_l", "rx_h", "tx_l",
                  "tx_h", "open", "sriov"} : pc' = [pc EXCEPT ![h] = l]
    BY <1>1, <1>4, NextRegister, RegistersAre
       DEF chr_release, sel_dev, set_kmem_size, KmemRead, sriov_enabled,
           sriov_enable, Goto, UseTypes
  <2>3. pc[h] \in {"open", "kmem_read", "sriov"} \cup ToSet(Registers)
    BY <1>4 DEF chr_release, sel_dev, set_kmem_size, KmemRead, KmemWrite,
                sriov_enabled, sriov_enable
  <2>4. pc'[h] \in {"release_down", "sel_first", "kmem_down", "rx_l", "rx_h", "tx_l",
                    "tx_h", "open", "sriov"}
    BY <1>1, <2>2 DEF UseTypes
  <2>5. Holds(h)' = {}
    BY <2>4 DEF Holds
  <2>6. \A d \in Devices : h \in Counts(d)' <=> h \in Counts(d)
    BY <2>1, <2>3, <2>4, RegistersAre DEF Counts
  <2>7. \A g \in Handles : g # h => pc'[g] = pc[g]
    BY <1>1, <2>2 DEF UseTypes
  <2> QED BY <1>0, <2>1, <2>4, <2>5, <2>6, <2>7, CountOneFile
<1> QED BY <1>2, <1>3, <1>4

\* The semaphore of a device is had, or what a file has of them is given back.
LEMMA MutexTaken ==
  ASSUME CountTypes, Mutex, NEW h \in Handles, NEW d \in Devices, sem[d] > 0,
         sem' = [sem EXCEPT ![d] = @ - 1],
         Holds(h)' = Holds(h) \cup {d}, Holds(h) \subseteq Devices,
         \A g \in Handles : g # h => Holds(g)' = Holds(g) /\ Holds(g) \subseteq Devices
  PROVE  Mutex'
<1>1. sem[d] = 1 /\ \A e \in Devices : sem'[e] = IF e = d THEN 0 ELSE sem[e]
  BY DEF CountTypes, Mutex
<1>2. \A e \in Devices : sem'[e] <= 1
  BY <1>1 DEF Mutex, CountTypes
<1>3. \A g \in Handles : d \notin Holds(g)
  BY <1>1 DEF Mutex
<1>4. ASSUME NEW g \in Handles, NEW e \in Holds(g)'
      PROVE  sem'[e] = 0
  <2>1. e \in Devices
    BY <1>4
  <2>2. CASE e = d
    BY <1>1, <2>2
  <2>3. CASE e # d
    <3>1. e \in Holds(g)
      BY <1>4, <2>3
    <3>2. sem[e] = 0
      BY <3>1 DEF Mutex
    <3> QED BY <1>1, <2>1, <2>3, <3>2
  <2> QED BY <2>2, <2>3
<1>5. ASSUME NEW f \in Handles, NEW g \in Handles, f # g
      PROVE  Holds(f)' \cap Holds(g)' = {}
  <2>1. Holds(f) \cap Holds(g) = {}
    BY <1>5 DEF Mutex
  <2> QED BY <1>3, <1>5, <2>1
<1> QED BY <1>2, <1>4, <1>5 DEF Mutex

LEMMA MutexGivenBack ==
  ASSUME CountTypes, Mutex, NEW h \in Handles,
         sem' = [e \in Devices |-> IF e \in Holds(h) THEN sem[e] + 1 ELSE sem[e]],
         Holds(h)' = {},
         \A g \in Handles : g # h => Holds(g)' = Holds(g) /\ Holds(g) \subseteq Devices
  PROVE  Mutex'
<1>1. \A e \in Devices : sem'[e] <= 1
  BY DEF CountTypes, Mutex
<1>2. ASSUME NEW g \in Handles, NEW e \in Holds(g)'
      PROVE  sem'[e] = 0
  <2>1. g # h /\ e \in Holds(g) /\ e \in Devices
    BY <1>2
  <2>2. sem[e] = 0 /\ e \notin Holds(h)
    BY <2>1 DEF Mutex
  <2> QED BY <2>1, <2>2
<1>3. ASSUME NEW f \in Handles, NEW g \in Handles, f # g
      PROVE  Holds(f)' \cap Holds(g)' = {}
  BY <1>3 DEF Mutex
<1> QED BY <1>1, <1>2, <1>3 DEF Mutex

LEMMA DownCount ==
  ASSUME LifeInv, UseInv, CountInv, NEW h \in Handles, Down(h)
  PROVE  CountInv'
<1> DEFINE d == WaitsFor(h)
<1>0. UNCHANGED <<held, cnt, ghosts, dev, want>> /\ Tree' = Tree
  BY DEF Down, Tree
<1>1. UseOf(h) /\ UseTypes /\ CountTypes /\ Mutex
  BY DEF UseInv, Uses, CountInv
<1>2. /\ pc[h] \in Waits /\ sem[d] > 0 /\ sem' = [sem EXCEPT ![d] = @ - 1]
      /\ pc' = [pc EXCEPT ![h] = AfterDown[pc[h]]]
      /\ pc[h] = "kmem_down" => seen' = seen
      /\ pc[h] # "kmem_down" => seen' = [seen EXCEPT ![h] = cnt]
  BY DEF Down, Available, Goto
<1>3. /\ pc[h] = "open_down" => AfterDown[pc[h]] = "open_in"
      /\ pc[h] = "release_down" => AfterDown[pc[h]] = "release_in"
      /\ pc[h] = "kmem_down" => AfterDown[pc[h]] = "kmem_in"
      /\ pc[h] = "sel_first" => AfterDown[pc[h]] = "sel_second"
      /\ pc[h] = "sel_second" => AfterDown[pc[h]] = "sel_in"
  BY DEF AfterDown
<1>4. d \in Tree /\ d \in Devices
  BY <1>2, WaitsForAny DEF Tree
<1>5. pc'[h] = AfterDown[pc[h]] /\ \A g \in Handles : g # h => pc'[g] = pc[g]
  BY <1>1, <1>2 DEF UseTypes
<1>6. \A g \in Handles : g # h => Holds(g)' = Holds(g)
  BY <1>0, <1>5, HoldsSame
<1>7. Holds(h)' = Holds(h) \cup {d}
  <2>1. CASE pc[h] \in {"open_down", "release_down", "kmem_down"}
    BY <1>0, <1>3, <1>5, <2>1 DEF Holds, WaitsFor
  <2>2. CASE pc[h] = "sel_first"
    <3>1. SelOrder(h)' = SelOrder(h)
      BY <1>0 DEF SelOrder
    <3>2. Holds(h) = {} /\ Holds(h)' = {SelOrder(h)'[1]} /\ d = SelOrder(h)[1]
      BY <1>3, <1>5, <2>2 DEF Holds, WaitsFor
    <3> QED BY <3>1, <3>2
  <2>3. CASE pc[h] = "sel_second"
    <3>1. Holds(h) = {SelOrder(h)[1]} /\ Holds(h)' = {dev[h], want[h]}
          /\ d = SelOrder(h)[2]
      BY <1>0, <1>3, <1>5, <2>3 DEF Holds, WaitsFor
    <3>2. \/ SelOrder(h)[1] = dev[h] /\ SelOrder(h)[2] = want[h]
          \/ SelOrder(h)[1] = want[h] /\ SelOrder(h)[2] = dev[h]
      BY DEF SelOrder
    <3> QED BY <3>1, <3>2
  <2> QED BY <1>2, <2>1, <2>2, <2>3 DEF Waits
<1> HIDE DEF d
<1>8. \A g \in Handles : Holds(g) \subseteq Devices
  BY HoldsInTree DEF Tree
<1>9. Mutex'
  BY <1>1, <1>2, <1>4, <1>6, <1>7, <1>8, MutexTaken
<1>10. CountTypes'
  <2>1. sem' \in [Devices -> Nat]
    BY <1>1, <1>2, <1>4 DEF CountTypes
  <2> QED BY <1>0, <1>1, <1>2, <2>1 DEF CountTypes
<1>11. Loaded'
  <2>1. ASSUME NEW g \in Handles, pc'[g] \in {"open_in", "release_in", "sel_in"},
               NEW e \in Holds(g)'
        PROVE  seen'[g][e] = cnt'[e]
    <3>1. CASE g = h
      <4>1. pc[h] # "kmem_down"
        BY <1>3, <1>5, <2>1, <3>1
      <4> QED BY <1>0, <1>1, <1>2, <3>1, <4>1 DEF CountTypes
    <3>2. CASE g # h
      <4>1. seen'[g] = seen[g] /\ pc'[g] = pc[g] /\ Holds(g)' = Holds(g)
        BY <1>1, <1>2, <1>5, <1>6, <3>2 DEF CountTypes
      <4> QED BY <1>0, <2>1, <4>1 DEF CountInv, Loaded
    <3> QED BY <3>1, <3>2
  <2> QED BY <2>1 DEF Loaded
<1>12. \A e \in Devices : Counts(e)' = Counts(e)
  BY <1>0, <1>2, <1>3, <1>5 DEF Counts, Waits
<1>13. Tally'
  <2>1. Tree \subseteq Devices
    BY DEF Tree
  <2> QED BY <1>0, <1>12, <2>1 DEF CountInv, Tally
<1> QED BY <1>9, <1>10, <1>11, <1>13 DEF CountInv

LEMMA InterruptedCount ==
  ASSUME LifeInv, UseInv, CountInv, NEW h \in Handles, Interrupted(h)
  PROVE  CountInv'
<1>0. UNCHANGED <<held, cnt>> /\ Tree' = Tree
  BY DEF Interrupted, Tree
<1>1. UseOf(h) /\ UseTypes /\ CountTypes /\ Mutex
  BY DEF UseInv, Uses, CountInv
<1> DEFINE gone == pc[h] \in {"open_down", "release_down"}
<1>2. /\ pc[h] \in Waits
      /\ pc[h] = "release_down" => ghosts[dev[h]] < MaxGhosts
      /\ sem' = [d \in Devices |-> IF d \in GivenBack(h) THEN sem[d] + 1 ELSE sem[d]]
      /\ ghosts' = IF pc[h] = "release_down" THEN [ghosts EXCEPT ![dev[h]] = @ + 1]
                                             ELSE ghosts
      /\ pc' = [pc EXCEPT ![h] = IF gone THEN "closed" ELSE "open"]
      /\ dev' = [dev EXCEPT ![h] = IF gone THEN 0 ELSE @]
      /\ want' = [want EXCEPT ![h] = 0]
      /\ seen' = [seen EXCEPT ![h] = NoCounts]
  BY DEF Interrupted, Goto
<1>3. GivenBack(h) = Holds(h)
  BY <1>2 DEF GivenBack, Holds, Waits
<1>4. /\ pc'[h] \in {"closed", "open"}
      /\ \A g \in Handles : g # h =>
           pc'[g] = pc[g] /\ dev'[g] = dev[g] /\ want'[g] = want[g]
  BY <1>1, <1>2 DEF UseTypes
<1>5. Holds(h)' = {}
  BY <1>4 DEF Holds
<1>6. \A g \in Handles : g # h => Holds(g)' = Holds(g)
  BY <1>4, HoldsSame
<1>7. \A g \in Handles : Holds(g) \subseteq Devices
  BY HoldsInTree DEF Tree
<1>8. Mutex'
  BY <1>1, <1>2, <1>3, <1>5, <1>6, <1>7, MutexGivenBack
<1>9. pc[h] = "release_down" => dev[h] \in Tree /\ dev[h] \in Devices
  BY <1>1 DEF UseOf, Tree
<1>10. CountTypes'
  <2>1. sem' \in [Devices -> Nat]
    BY <1>1, <1>2 DEF CountTypes
  <2>2. seen' \in [Handles -> [Devices -> Int]]
    BY <1>1, <1>2 DEF CountTypes, NoCounts
  <2>3. ghosts' \in [Devices -> 0 .. MaxGhosts]
    BY <1>1, <1>2, <1>9, FileAssumption DEF CountTypes
  <2> QED BY <1>0, <1>1, <2>1, <2>2, <2>3 DEF CountTypes
<1>11. Loaded'
  <2>1. ASSUME NEW g \in Handles, pc'[g] \in {"open_in", "release_in", "sel_in"},
               NEW e \in Holds(g)'
        PROVE  seen'[g][e] = cnt'[e]
    <3>1. g # h
      BY <1>4, <2>1
    <3>2. seen'[g] = seen[g] /\ pc'[g] = pc[g] /\ Holds(g)' = Holds(g)
      BY <1>1, <1>2, <1>4, <1>6, <3>1 DEF CountTypes
    <3> QED BY <1>0, <2>1, <3>2 DEF CountInv, Loaded
  <2> QED BY <2>1 DEF Loaded
<1>12. ASSUME NEW d \in Devices
       PROVE  Counts(d)' = IF pc[h] = "release_down" /\ d = dev[h]
                           THEN Counts(d) \ {h} ELSE Counts(d)
  <2>1. \A g \in Handles : g # h => (g \in Counts(d)' <=> g \in Counts(d))
    BY <1>4 DEF Counts
  <2>2. Counts(d) \subseteq Handles /\ Counts(d)' \subseteq Handles
    BY DEF Counts
  <2>3. CASE gone
    <3>1. dev'[h] = 0 /\ d # 0
      BY <1>1, <1>2, <2>3, LifeAssumption DEF UseTypes
    <3>2. h \notin Counts(d)'
      BY <3>1 DEF Counts
    <3>3. h \in Counts(d) => pc[h] = "release_down" /\ d = dev[h]
      BY <2>3 DEF Counts
    <3> QED BY <2>1, <2>2, <3>2, <3>3
  <2>4. CASE ~gone
    <3>1. dev'[h] = dev[h] /\ pc'[h] = "open"
      BY <1>1, <1>2, <2>4 DEF UseTypes
    <3>2. h \in Counts(d)' <=> h \in Counts(d)
      BY <1>2, <2>4, <3>1 DEF Counts, Waits
    <3> QED BY <2>1, <2>2, <2>4, <3>2
  <2> QED BY <2>3, <2>4
<1>13. Tally'
  <2>1. ASSUME NEW d \in Tree
        PROVE  cnt'[d] = Cardinality(Counts(d)') + ghosts'[d]
    <3>0. d \in Devices /\ cnt[d] = Cardinality(Counts(d)) + ghosts[d]
          /\ ghosts[d] \in Nat
      BY <1>1 DEF CountInv, Tally, Tree, CountTypes
    <3>1. CASE pc[h] = "release_down" /\ d = dev[h]
      <4>1. h \in Counts(d) /\ Counts(d)' = Counts(d) \ {h}
        BY <1>12, <3>0, <3>1 DEF Counts
      <4>2. Cardinality(Counts(d)') = Cardinality(Counts(d)) - 1
        BY <4>1, CountsFinite, FS_RemoveElement
      <4>3. ghosts'[d] = ghosts[d] + 1
        BY <1>1, <1>2, <3>0, <3>1 DEF CountTypes
      <4> QED BY <1>0, <3>0, <4>2, <4>3, CountsFinite
    <3>2. CASE ~(pc[h] = "release_down" /\ d = dev[h])
      <4>1. Counts(d)' = Counts(d)
        BY <1>12, <3>0, <3>2
      <4>2. ghosts'[d] = ghosts[d]
        BY <1>1, <1>2, <3>0, <3>2 DEF CountTypes
      <4> QED BY <1>0, <3>0, <4>1, <4>2
    <3> QED BY <3>1, <3>2
  <2>2. \A d \in Devices \ Tree : ghosts'[d] = ghosts[d]
    BY <1>1, <1>2, <1>9 DEF CountTypes
  <2> QED BY <1>0, <2>1, <2>2 DEF CountInv, Tally
<1> QED BY <1>8, <1>10, <1>11, <1>13 DEF CountInv

LEMMA CountCount ==
  ASSUME LifeInv, UseInv, CountInv, NEW h \in Handles, Count(h)
  PROVE  CountInv'
<1> DEFINE change == Counted(h)
<1>0. UNCHANGED <<held, ghosts>> /\ Tree' = Tree /\ Tree \subseteq Devices
  BY DEF Count, Tree
<1>1. UseOf(h) /\ UseTypes /\ CountTypes /\ Mutex
  BY DEF UseInv, Uses, CountInv
<1>2. /\ pc[h] \in {"open_in", "release_in", "sel_in"}
      /\ cnt' = [d \in Devices |-> IF d \in DOMAIN change
                                   THEN seen[h][d] + change[d] ELSE cnt[d]]
      /\ sem' = [d \in Devices |-> IF d \in DOMAIN change THEN sem[d] + 1 ELSE sem[d]]
      /\ pc' = [pc EXCEPT ![h] = IF pc[h] = "release_in" THEN "closed" ELSE "open"]
      /\ dev' = [dev EXCEPT ![h] = CASE pc[h] = "open_in" -> dev[h]
                                     [] pc[h] = "release_in" -> 0
                                     [] OTHER -> want[h]]
      /\ want' = [want EXCEPT ![h] = 0] /\ seen' = [seen EXCEPT ![h] = NoCounts]
  BY <1>1 DEF Count, Goto, UseTypes
<1>3. dev[h] \in Tree /\ (pc[h] = "sel_in" => want[h] \in Tree /\ want[h] # dev[h])
  BY <1>1, <1>2 DEF UseOf, Selecting
<1>4. /\ DOMAIN change = Holds(h)
      /\ pc[h] = "open_in" => change[dev[h]] = 1 /\ Holds(h) = {dev[h]}
      /\ pc[h] = "release_in" => change[dev[h]] = -1 /\ Holds(h) = {dev[h]}
      /\ pc[h] = "sel_in" => change[dev[h]] = -1 /\ change[want[h]] = 1
                             /\ Holds(h) = {dev[h], want[h]}
  BY <1>2, <1>3 DEF Counted, Holds
<1>5. \A d \in Holds(h) : seen[h][d] = cnt[d] /\ change[d] \in Int
  BY <1>2, <1>4 DEF CountInv, Loaded
<1> HIDE DEF change
<1>6. Holds(h) \subseteq Devices
  BY HoldsInTree, <1>0
<1>7. cnt' = [d \in Devices |-> IF d \in Holds(h) THEN cnt[d] + change[d] ELSE cnt[d]]
  BY <1>2, <1>4, <1>5
<1>8. /\ pc'[h] = (IF pc[h] = "release_in" THEN "closed" ELSE "open")
      /\ \A g \in Handles : g # h =>
           pc'[g] = pc[g] /\ dev'[g] = dev[g] /\ want'[g] = want[g]
  BY <1>1, <1>2 DEF UseTypes
<1>9. Holds(h)' = {}
  BY <1>8 DEF Holds
<1>10. \A g \in Handles : g # h => Holds(g)' = Holds(g) /\ Holds(g) \subseteq Devices
  BY <1>0, <1>8, HoldsSame, HoldsInTree
<1>11. Mutex'
  <2>1. sem' = [d \in Devices |-> IF d \in Holds(h) THEN sem[d] + 1 ELSE sem[d]]
    BY <1>2, <1>4
  <2> QED BY <1>1, <1>9, <1>10, <2>1, MutexGivenBack
<1>12. CountTypes'
  <2>1. sem' \in [Devices -> Nat]
    BY <1>1, <1>2 DEF CountTypes
  <2>2. cnt' \in [Devices -> Int]
    BY <1>1, <1>5, <1>7 DEF CountTypes
  <2>3. seen' \in [Handles -> [Devices -> Int]]
    BY <1>1, <1>2 DEF CountTypes, NoCounts
  <2> QED BY <1>0, <1>1, <2>1, <2>2, <2>3 DEF CountTypes
<1>13. Loaded'
  <2>1. ASSUME NEW g \in Handles, pc'[g] \in {"open_in", "release_in", "sel_in"},
               NEW e \in Holds(g)'
        PROVE  seen'[g][e] = cnt'[e]
    <3>1. g # h
      BY <1>8, <2>1
    <3>2. seen'[g] = seen[g] /\ pc'[g] = pc[g] /\ e \in Holds(g) /\ e \in Devices
      BY <1>1, <1>2, <1>8, <1>10, <2>1, <3>1 DEF CountTypes
    <3>3. e \notin Holds(h)
      BY <1>1, <3>1, <3>2 DEF Mutex
    <3> QED BY <1>7, <2>1, <3>2, <3>3 DEF CountInv, Loaded
  <2> QED BY <2>1 DEF Loaded
<1>14. ASSUME NEW d \in Devices
       PROVE  /\ \A g \in Handles : g # h => (g \in Counts(d)' <=> g \in Counts(d))
              /\ Counts(d) \subseteq Handles /\ Counts(d)' \subseteq Handles
  BY <1>8 DEF Counts
<1>15. ASSUME NEW d \in Tree
       PROVE  cnt'[d] = Cardinality(Counts(d)') + ghosts'[d]
  <2>0. /\ d \in Devices /\ cnt[d] = Cardinality(Counts(d)) + ghosts[d]
        /\ ghosts[d] \in Nat /\ ghosts'[d] = ghosts[d] /\ d # 0
        /\ IsFiniteSet(Counts(d)) /\ Cardinality(Counts(d)) \in Nat
    BY <1>0, <1>1, CountsFinite, LifeAssumption DEF CountInv, Tally, CountTypes
  <2>1. CASE pc[h] = "open_in"
    <3>1. dev'[h] = dev[h] /\ pc'[h] = "open"
      BY <1>1, <1>2, <2>1 DEF UseTypes
    <3>2. CASE d = dev[h]
      <4>1. Counts(d)' = Counts(d) \cup {h} /\ h \notin Counts(d)
        BY <1>14, <2>0, <2>1, <3>1, <3>2 DEF Counts
      <4>2. Cardinality(Counts(d)') = Cardinality(Counts(d)) + 1
        BY <2>0, <4>1, FS_AddElement
      <4>3. cnt'[d] = cnt[d] + 1
        BY <1>4, <1>7, <2>0, <2>1, <3>2
      <4> QED BY <2>0, <4>2, <4>3
    <3>3. CASE d # dev[h]
      <4>1. Counts(d)' = Counts(d)
        BY <1>14, <2>0, <3>1, <3>3 DEF Counts
      <4>2. cnt'[d] = cnt[d]
        BY <1>4, <1>7, <2>0, <2>1, <3>3
      <4> QED BY <2>0, <4>1, <4>2
    <3> QED BY <3>2, <3>3
  <2>2. CASE pc[h] = "release_in"
    <3>1. dev'[h] = 0
      BY <1>1, <1>2, <2>2 DEF UseTypes
    <3>2. CASE d = dev[h]
      <4>1. Counts(d)' = Counts(d) \ {h} /\ h \in Counts(d)
        BY <1>14, <2>0, <2>2, <3>1, <3>2 DEF Counts
      <4>2. Cardinality(Counts(d)') = Cardinality(Counts(d)) - 1
        BY <2>0, <4>1, FS_RemoveElement, ZenonT(40)
      <4>3. cnt'[d] = cnt[d] - 1
        BY <1>1, <1>4, <1>7, <2>0, <2>2, <3>2 DEF CountTypes
      <4> QED BY <2>0, <4>2, <4>3
    <3>3. CASE d # dev[h]
      <4>1. Counts(d)' = Counts(d)
        BY <1>14, <2>0, <3>1, <3>3 DEF Counts
      <4>2. cnt'[d] = cnt[d]
        BY <1>4, <1>7, <2>0, <2>2, <3>3
      <4> QED BY <2>0, <4>1, <4>2
    <3> QED BY <3>2, <3>3
  <2>3. CASE pc[h] = "sel_in"
    <3>1. dev'[h] = want[h] /\ pc'[h] = "open"
      BY <1>1, <1>2, <2>3 DEF UseTypes
    <3>2. CASE d = dev[h]
      <4>1. Counts(d)' = Counts(d) \ {h} /\ h \in Counts(d)
        BY <1>3, <1>14, <2>0, <2>3, <3>1, <3>2 DEF Counts
      <4>2. Cardinality(Counts(d)') = Cardinality(Counts(d)) - 1
        BY <2>0, <4>1, FS_RemoveElement, ZenonT(40)
      <4>3. cnt'[d] = cnt[d] - 1
        BY <1>1, <1>4, <1>7, <2>0, <2>3, <3>2 DEF CountTypes
      <4> QED BY <2>0, <4>2, <4>3
    <3>3. CASE d = want[h]
      <4>1. Counts(d)' = Counts(d) \cup {h} /\ h \notin Counts(d)
        BY <1>3, <1>14, <2>0, <2>3, <3>1, <3>3 DEF Counts
      <4>2. Cardinality(Counts(d)') = Cardinality(Counts(d)) + 1
        BY <2>0, <4>1, FS_AddElement
      <4>3. cnt'[d] = cnt[d] + 1
        BY <1>4, <1>7, <2>0, <2>3, <3>3
      <4> QED BY <2>0, <4>2, <4>3
    <3>4. CASE d # dev[h] /\ d # want[h]
      <4>1. Counts(d)' = Counts(d)
        BY <1>14, <2>0, <3>1, <3>4 DEF Counts
      <4>2. cnt'[d] = cnt[d]
        BY <1>4, <1>7, <2>0, <2>3, <3>4
      <4> QED BY <2>0, <4>1, <4>2
    <3> QED BY <3>2, <3>3, <3>4
  <2> QED BY <1>2, <2>1, <2>2, <2>3
<1>16. Tally'
  <2>1. \A d \in Devices \ Tree : cnt'[d] = cnt[d]
    BY <1>7, HoldsInTree
  <2> QED BY <1>0, <1>15, <2>1 DEF CountInv, Tally
<1> QED BY <1>11, <1>12, <1>13, <1>16 DEF CountInv

\* set_kmem_size under the semaphore; when the DMA mask cannot be set it returns
\* with the semaphore.
LEMMA KmemCount ==
  ASSUME LifeInv, UseInv, CountInv, NEW h \in Handles, KmemAlloc(h) \/ KmemFix(h)
  PROVE  CountInv'
<1>0. UNCHANGED <<held, cnt, ghosts, dev, want, seen>> /\ Tree' = Tree
      /\ Tree \subseteq Devices
  BY DEF KmemAlloc, KmemFix, lifeVars, Tree
<1>1. UseOf(h) /\ UseTypes /\ CountTypes /\ Mutex
  BY DEF UseInv, Uses, CountInv
<1>2. \/ pc[h] = "kmem_in" /\ pc' = [pc EXCEPT ![h] = "open"] /\ sem' = sem
      \/ pc[h] = "kmem_in" /\ pc' = [pc EXCEPT ![h] = "kmem_fix"] /\ sem' = sem
      \/ /\ pc[h] = "kmem_fix" /\ pc' = [pc EXCEPT ![h] = "kmem_read"]
         /\ sem' = [sem EXCEPT ![dev[h]] = @ + 1]
  BY DEF KmemAlloc, KmemFix, Goto, lifeVars
<1>3. pc'[h] \in {"open", "kmem_fix", "kmem_read"}
      /\ \A g \in Handles : g # h => pc'[g] = pc[g]
  BY <1>1, <1>2 DEF UseTypes
<1>4. \A g \in Handles : g # h => Holds(g)' = Holds(g) /\ Holds(g) \subseteq Devices
  BY <1>0, <1>3, HoldsSame, HoldsInTree
<1>5. \A d \in Devices : Counts(d)' = Counts(d)
  BY <1>0, <1>2, <1>3 DEF Counts
<1>6. CASE pc[h] = "kmem_in"
  <2>1. sem' = sem /\ pc'[h] \in {"open", "kmem_fix"}
    BY <1>1, <1>2, <1>6 DEF UseTypes
  <2>2. Holds(h)' \subseteq Holds(h)
    BY <1>0, <1>6, <2>1 DEF Holds
  <2>3. CountTypes'
    BY <1>0, <1>1, <2>1 DEF CountTypes
  <2> QED BY <1>0, <1>3, <1>4, <1>5, <2>1, <2>2, <2>3, CountFrame
<1>7. CASE pc[h] = "kmem_fix"
  <2>1. pc'[h] = "kmem_read" /\ sem' = [sem EXCEPT ![dev[h]] = @ + 1]
        /\ dev[h] \in Devices
    BY <1>0, <1>1, <1>2, <1>7 DEF UseTypes, UseOf
  <2>2. Holds(h) = {dev[h]} /\ Holds(h)' = {}
    BY <1>7, <2>1 DEF Holds
  <2>3. sem' = [d \in Devices |-> IF d \in Holds(h) THEN sem[d] + 1 ELSE sem[d]]
    BY <1>1, <2>1, <2>2 DEF CountTypes
  <2>4. Mutex'
    BY <1>1, <1>4, <2>2, <2>3, MutexGivenBack
  <2>5. CountTypes'
    BY <1>0, <1>1, <2>3 DEF CountTypes
  <2>6. Loaded'
    BY <1>0, <1>3, <1>4 DEF CountInv, Loaded
  <2>7. Tally'
    BY <1>0, <1>5 DEF CountInv, Tally
  <2> QED BY <2>4, <2>5, <2>6, <2>7 DEF CountInv
<1> QED BY <1>2, <1>6, <1>7

\* Devices that no file uses are forgotten.
LEMMA ForgottenCount ==
  ASSUME LifeInv, UseInv, CountInv, NEW ds \in SUBSET Devices,
         Removed(ds), Forgotten(ds), UNCHANGED <<pc, dev, want, seen>>,
         \A h \in Handles : dev[h] \notin ds /\ want[h] \notin ds
  PROVE  CountInv'
<1>1. /\ Tree' = Tree \ ds
      /\ \A d \in Devices : held'[d] = IF d \in ds THEN {} ELSE held[d]
  BY RemovedLife
<1>2. /\ ghosts' = [d \in Devices |-> IF d \in ds THEN 0 ELSE ghosts[d]]
      /\ sem' = [d \in Devices |-> IF d \in ds THEN 0 ELSE sem[d]]
      /\ cnt' = [d \in Devices |-> IF d \in ds THEN 0 ELSE cnt[d]]
  BY DEF Forgotten
<1>3. CountTypes /\ Mutex /\ Tree \subseteq Devices
  BY DEF CountInv, Tree
<1>4. ASSUME NEW h \in Handles
      PROVE  Holds(h)' = Holds(h) /\ Holds(h) \subseteq Devices \ ds
  <2>1. Holds(h) \cap ds = {}
    <3>1. SelOrder(h) = <<dev[h], want[h]>> \/ SelOrder(h) = <<want[h], dev[h]>>
      BY DEF SelOrder
    <3>2. SelOrder(h)[1] \in {dev[h], want[h]}
      BY <3>1
    <3> QED BY <3>2 DEF Holds
  <2> QED BY <1>3, <2>1, HoldsInTree, HoldsSame
<1>5. CountTypes'
  BY <1>2, <1>3, FileAssumption DEF CountTypes
<1>6. Mutex'
  <2>1. \A d \in Devices : sem'[d] <= 1
    BY <1>2, <1>3 DEF Mutex
  <2>2. \A h \in Handles : \A d \in Holds(h)' : sem'[d] = 0
    BY <1>2, <1>3, <1>4 DEF Mutex
  <2>3. \A g, h \in Handles : g # h => Holds(g)' \cap Holds(h)' = {}
    BY <1>3, <1>4 DEF Mutex
  <2> QED BY <2>1, <2>2, <2>3 DEF Mutex
<1>7. Loaded'
  BY <1>2, <1>4 DEF CountInv, Loaded
<1>8. Tally'
  <2>1. \A d \in Devices : Counts(d)' = Counts(d)
    BY DEF Counts
  <2>2. \A d \in Tree' : cnt'[d] = Cardinality(Counts(d)') + ghosts'[d]
    BY <1>1, <1>2, <1>3, <2>1 DEF CountInv, Tally
  <2>3. \A d \in Devices \ Tree' : ghosts'[d] = 0 /\ (held'[d] # {} => cnt'[d] = 0)
    BY <1>1, <1>2 DEF CountInv, Tally
  <2> QED BY <2>2, <2>3 DEF Tally
<1> QED BY <1>5, <1>6, <1>7, <1>8 DEF CountInv

LEMMA UnloadCount ==
  ASSUME LifeInv, UseInv, CountInv, UnloadDevices
  PROVE  CountInv'
<1>1. /\ mod = "unloading" /\ Removed(Tree) /\ Forgotten(Tree)
      /\ UNCHANGED <<pc, dev, want, seen>> /\ Tree \in SUBSET Devices
  BY DEF UnloadDevices, UnloadDriver, Tree
<1>2. \A h \in Handles : dev[h] = 0 /\ want[h] = 0
  BY <1>1 DEF UseInv, Uses, UseOf, Selecting
<1>3. 0 \notin Tree
  BY LifeAssumption DEF Tree
<1> QED BY <1>1, <1>2, <1>3, ForgottenCount

LEMMA ProbeStepCount ==
  ASSUME LifeInv, UseInv, CountInv, ~DMA_SUPPORTED, ProbeStep, UNCHANGED fileVars
  PROVE  CountInv'
<1> DEFINE p == probing
           r == Missing(ProbeOrder, held[probing])
<1>1. /\ p \notin Tree /\ Tree' = (IF r = "tree" THEN Tree \cup {p} ELSE Tree)
      /\ r = "devbk" <=> held[p] = {}
      /\ r # "wr_dt"
  BY ProbeStepLife
<1>2. /\ p \in Devices /\ UNCHANGED <<pc, dev, want, seen, ghosts>>
      /\ held' = [held EXCEPT ![p] = @ \cup {r}]
      /\ sem' = [sem EXCEPT ![p] = SemAfter(r, @)]
      /\ cnt' = [cnt EXCEPT ![p] = IF r = "devbk" THEN 0 ELSE @]
  BY DEF ProbeStep, LifeInv, LifeTypes, fileVars
<1> HIDE DEF r, p
<1>3. CountTypes /\ Mutex /\ Tree \subseteq Devices
      /\ held \in [Devices -> SUBSET ToSet(ProbeOrder)]
  BY DEF CountInv, Tree, LifeInv, LifeTypes
<1>4. \A h \in Handles : Holds(h)' = Holds(h) /\ Holds(h) \subseteq Tree
  BY <1>2, HoldsSame, HoldsInTree
<1>5. SemAfter(r, sem[p]) \in {1, sem[p]}
  BY <1>1 DEF SemAfter
<1>6. CountTypes'
  BY <1>2, <1>3, <1>5 DEF CountTypes
<1>7. Mutex'
  <2>1. \A d \in Devices : sem'[d] <= 1
    BY <1>2, <1>3, <1>5 DEF Mutex, CountTypes
  <2>2. \A d \in Tree : sem'[d] = sem[d]
    BY <1>1, <1>2, <1>3 DEF CountTypes
  <2> QED BY <1>3, <1>4, <2>1, <2>2 DEF Mutex
<1>8. \A d \in Devices : d # p => cnt'[d] = cnt[d] /\ held'[d] = held[d]
  BY <1>2, <1>3 DEF CountTypes
<1>9. Loaded'
  <2>1. \A d \in Tree : cnt'[d] = cnt[d]
    BY <1>1, <1>3, <1>8
  <2> QED BY <1>2, <1>4, <2>1 DEF CountInv, Loaded
<1>10. cnt'[p] = 0 /\ ghosts[p] = 0
  BY <1>1, <1>2, <1>3 DEF CountInv, Tally, CountTypes
<1>11. Tally'
  <2>1. \A d \in Devices : Counts(d)' = Counts(d)
    BY <1>2 DEF Counts
  <2>2. Counts(p) = {} /\ Cardinality(Counts(p)) = 0
    BY <1>1, <1>2, CountsInTree, FS_EmptySet
  <2>3. ASSUME NEW d \in Tree'
        PROVE  cnt'[d] = Cardinality(Counts(d)') + ghosts'[d]
    <3>1. CASE d = p
      BY <1>2, <1>10, <2>1, <2>2, <3>1
    <3>2. CASE d # p
      BY <1>1, <1>2, <1>3, <1>8, <2>1, <2>3, <3>2 DEF CountInv, Tally
    <3> QED BY <3>1, <3>2
  <2>4. ASSUME NEW d \in Devices \ Tree'
        PROVE  ghosts'[d] = 0 /\ (held'[d] # {} => cnt'[d] = 0)
    <3>1. d \notin Tree
      BY <1>1, <2>4
    <3> QED BY <1>2, <1>8, <1>10, <2>4, <3>1 DEF CountInv, Tally
  <2> QED BY <2>3, <2>4 DEF Tally
<1> QED BY <1>6, <1>7, <1>9, <1>11 DEF CountInv

LEMMA ProbeFailsCount ==
  ASSUME LifeInv, UseInv, CountInv, Handled, ProbeFails, UNCHANGED fileVars
  PROVE  CountInv'
<1>1. probing \notin Tree /\ Tree' = Tree /\ held'[probing] = {}
  BY ProbeFailsLife
<1>2. /\ probing \in Devices /\ UNCHANGED <<pc, dev, want, seen, ghosts, cnt>>
      /\ sem' = [sem EXCEPT ![probing] = 0]
      /\ \A d \in Devices : d # probing => held'[d] = held[d]
  BY DEF ProbeFails, LifeInv, LifeTypes, fileVars
<1>3. CountTypes /\ Mutex /\ Tree \subseteq Devices
  BY DEF CountInv, Tree
<1>4. \A h \in Handles : Holds(h)' = Holds(h) /\ Holds(h) \subseteq Tree
  BY <1>2, HoldsSame, HoldsInTree
<1>5. CountTypes'
  BY <1>2, <1>3 DEF CountTypes
<1>6. Mutex'
  BY <1>1, <1>2, <1>3, <1>4 DEF Mutex, CountTypes
<1>7. Loaded'
  BY <1>2, <1>4 DEF CountInv, Loaded
<1>8. Tally'
  <2>1. \A d \in Devices : Counts(d)' = Counts(d)
    BY <1>2 DEF Counts
  <2> QED BY <1>1, <1>2, <1>3, <2>1 DEF CountInv, Tally
<1> QED BY <1>5, <1>6, <1>7, <1>8 DEF CountInv

LEMMA CountStep ==
  ASSUME LifeInv, UseInv, CountInv, Handled, ~DMA_SUPPORTED, [Next]_vars
  PROVE  CountInv'
<1>1. CASE UNCHANGED <<pc, dev, want, seen, sem, cnt, ghosts, held>>
  <2>1. CountTypes'
    BY <1>1 DEF CountInv, CountTypes
  <2>2. \A g \in Handles : Holds(g)' = Holds(g)
    BY <1>1, HoldsSame
  <2>3. \A d \in Devices : Counts(d)' = Counts(d)
    BY <1>1 DEF Counts
  <2> QED BY <1>1, <2>1, <2>2, <2>3, CountFrame
<1>2. CASE UNCHANGED vars
  BY <1>1, <1>2 DEF vars, lifeVars, fileVars
<1>3. CASE (Load /\ UNCHANGED fileVars) \/ Unload
  BY <1>1, <1>3 DEF Load, Unload, UnloadStart, fileVars
<1>4. CASE KernelStep
  <2>1. CASE \/ \E d \in Devices : ProbeStart(d)
             \/ LoadStep \/ LoadFails \/ UnloadDone
    <3>1. UNCHANGED <<sem, cnt, held>>
      BY <2>1 DEF ProbeStart, LoadStep, LoadFails, UnloadDone
    <3>2. UNCHANGED fileVars => CountInv'
      BY <1>1, <3>1 DEF fileVars
    <3> QED BY <1>4, <2>1, <3>2, UnloadCount DEF KernelStep
  <2>2. CASE UnloadDevices
    BY <2>2, UnloadCount
  <2>3. CASE ProbeStep /\ UNCHANGED fileVars
    BY <2>3, ProbeStepCount
  <2>4. CASE ProbeFails /\ UNCHANGED fileVars
    BY <2>4, ProbeFailsCount
  <2> QED BY <1>4, <2>1, <2>2, <2>3, <2>4 DEF KernelStep
<1>5. ASSUME NEW h \in Handles,
             \/ chr_open(h) \/ chr_release(h) \/ chr_mmap(h) \/ munmap(h)
             \/ \E d \in Devices : sel_dev(h, d)
             \/ \E size \in Sizes : set_kmem_size(h, size)
             \/ sriov_enable(h) \/ Down(h) \/ Interrupted(h) \/ HandleStep(h)
      PROVE  CountInv'
  BY <1>5, EntryCount, DownCount, InterruptedCount, CountCount, KmemCount
     DEF HandleStep
<1>6. ASSUME NEW h \in Handles, sriov_disable(h)
      PROVE  CountInv'
  <2>1. /\ Removed(Virtual) /\ Forgotten(Virtual) /\ Virtual \cap InUse = {}
        /\ UNCHANGED <<pc, dev, want, seen>> /\ Virtual \in SUBSET Devices
    BY <1>6, LifeAssumption DEF sriov_disable
  <2>2. \A g \in Handles : dev[g] \notin Virtual /\ want[g] \notin Virtual
    BY <2>1 DEF InUse
  <2> QED BY <2>1, <2>2, ForgottenCount
<1> QED BY <1>2, <1>3, <1>4, <1>5, <1>6 DEF Next

\* When each failure is one the labels handle and the semaphores count one, the
\* counter of a device is the number of files that have it selected, plus those
\* whose close was interrupted, however opens, closes and selections interleave:
\* a semaphore has one holder, who finds the counter as it loaded it.
THEOREM CountsOpenFiles == Handled /\ ~DMA_SUPPORTED /\ Spec => [](Mutex /\ CountsHandles)
<1> SUFFICES ASSUME Handled, ~DMA_SUPPORTED
             PROVE  Spec => [](Mutex /\ CountsHandles)
  OBVIOUS
<1>1. Init => LifeInv /\ UseInv /\ CountInv
  BY LifeInitially, UseInitially, CountInitially DEF Init
<1>2. LifeInv /\ UseInv /\ CountInv /\ [Next]_vars => (LifeInv /\ UseInv /\ CountInv)'
  BY LifeStep, UseStep, CountStep
<1>3. CountInv => Mutex /\ CountsHandles
  <2> SUFFICES ASSUME CountInv, NEW d \in Tree,
                      \A h \in Handles : pc[h] \notin Inside
               PROVE  cnt[d] = Cardinality({h \in Handles : dev[h] = d
                                                           /\ pc[h] # "open_down"})
                               + ghosts[d]
    BY DEF CountInv, CountsHandles
  <2>1. Counts(d) = {h \in Handles : dev[h] = d /\ pc[h] # "open_down"}
    BY DEF Counts, Inside
  <2> QED BY <2>1 DEF CountInv, Tally
<1> QED BY <1>1, <1>2, <1>3, PTL DEF Spec

-----------------------------------------------------------------------------
(* The kernel memory, at every step.                                        *)

LEMMA KmemInitially ==
  ASSUME Init
  PROVE  KmemInv
<1>1. NoKmem \in Kmems /\ NoRegs \in [ToSet(Registers) -> 0 .. MaxRegions]
  BY FileAssumption DEF NoKmem, Kmems, NoRegs
<1>2. KmemTypes
  BY <1>1, FileAssumption DEF Init, KmemTypes, NoArg, Unmapped
<1>3. \A d \in Devices : Settled(d)
  BY DEF Init, Settled, Named, RegsName, NoKmem
<1>4. \A h \in Handles : pc[h] \notin KmemPCs
  BY RegistersAre DEF Init, KmemPCs
<1> QED BY <1>2, <1>3, <1>4, FileAssumption DEF KmemInv, Init

\* A step that leaves the kernel memory, and the calls that change it, alone.
LEMMA KmemFrame ==
  ASSUME KmemInv, KmemTypes', UNCHANGED <<kmem, regions, regs, mapped>>,
         \A h \in KmemUsers :
           \/ pc[h] \notin KmemPCs /\ pc'[h] \notin KmemPCs
           \/ pc'[h] = pc[h] /\ dev'[h] = dev[h] /\ arg'[h] = arg[h]
  PROVE  KmemInv'
<1>1. \A d \in Devices : Settled(d) => Settled(d)'
  BY DEF Settled, Named, RegsName
<1>2. ASSUME NEW h \in KmemUsers, pc'[h] \in KmemPCs
      PROVE  Changing(h, dev[h])' /\ dev'[h] = dev[h] /\ pc[h] \in KmemPCs
  <2>1. pc'[h] = pc[h] /\ dev'[h] = dev[h] /\ arg'[h] = arg[h]
    BY <1>2
  <2>2. Changing(h, dev[h])
    BY <1>2, <2>1 DEF KmemInv
  <2>3. Changing(h, dev[h])'
    BY <2>1, <2>2 DEF Changing, Named, RegsName, RegionLeft, NotMapped, Written
  <2> QED BY <1>2, <2>1, <2>3
<1>3. ASSUME NEW d \in Devices,
             \A h \in KmemUsers : pc'[h] \in KmemPCs => dev'[h] # d
      PROVE  Settled(d)'
  <2>1. \A h \in KmemUsers : pc[h] \in KmemPCs => dev[h] # d
    BY <1>3
  <2> QED BY <1>1, <2>1 DEF KmemInv
<1> QED BY <1>2, <1>3 DEF KmemInv

\* A step of the one file that uses kernel memory, on its device.
LEMMA KmemOne ==
  ASSUME KmemInv, SingleUser, NEW h \in KmemUsers, NEW d, d = dev[h],
         KmemTypes', UNCHANGED dev,
         \A e \in Devices : e # d =>
           kmem'[e] = kmem[e] /\ regions'[e] = regions[e] /\ regs'[e] = regs[e],
         pc'[h] \in KmemPCs => Changing(h, d)',
         pc'[h] \notin KmemPCs => (d \in Devices => Settled(d)'),
         \A g \in Handles :
           mapped'[g] # Unmapped => mapped'[g].virt \in regions'[mapped'[g].dev]
  PROVE  KmemInv'
<1>1. \A g \in KmemUsers : g = h
  BY DEF SingleUser
<1>2. ASSUME NEW e \in Devices, pc'[h] \in KmemPCs => dev'[h] # e
      PROVE  Settled(e)'
  <2>1. CASE e = d
    BY <1>2, <2>1
  <2>2. CASE e # d
    <3>1. Settled(e)
      BY <1>1, <2>2 DEF KmemInv
    <3> QED BY <2>2, <3>1 DEF Settled, Named, RegsName
  <2> QED BY <2>1, <2>2
<1> QED BY <1>1, <1>2 DEF KmemInv

LEMMA UserSettled ==
  ASSUME KmemInv, SingleUser, NEW h \in KmemUsers, pc[h] \notin KmemPCs
  PROVE  \A d \in Devices : Settled(d)
BY DEF KmemInv, SingleUser

LEMMA EntryKmem ==
  ASSUME LifeInv, UseInv, KmemInv, SingleUser, NEW h \in Handles,
         \/ chr_open(h) \/ chr_release(h) \/ chr_mmap(h) \/ munmap(h)
         \/ \E d \in Devices : sel_dev(h, d)
         \/ \E size \in Sizes : set_kmem_size(h, size)
  PROVE  KmemInv'
<1>1. UseOf(h) /\ UseTypes /\ KmemTypes
  BY DEF UseInv, Uses, KmemInv
<1>2. CASE chr_open(h) \/ chr_release(h) \/ \E d \in Devices : sel_dev(h, d)
  <2>1. UNCHANGED <<kmem, regions, regs, mapped, arg>>
    BY <1>2 DEF chr_open, chr_release, sel_dev, kmemVars
  <2>2. KmemTypes'
    BY <1>1, <2>1 DEF KmemTypes
  <2>3. pc[h] \in {"closed", "open"}
        /\ \E l \in {"open_down", "release_down", "sel_first"} : pc' = [pc EXCEPT ![h] = l]
    BY <1>2 DEF chr_open, chr_release, sel_dev, Goto
  <2>4. pc[h] \notin KmemPCs /\ pc'[h] \notin KmemPCs
    BY <1>1, <2>3, RegistersAre DEF KmemPCs, UseTypes
  <2>5. \A g \in Handles : g # h => pc'[g] = pc[g] /\ dev'[g] = dev[g]
    BY <1>1, <1>2, <2>3 DEF chr_open, chr_release, sel_dev, UseTypes
  <2> QED BY <2>1, <2>2, <2>4, <2>5, KmemFrame, FileAssumption
<1>3. CASE chr_mmap(h)
  <2>1. /\ pc[h] = "open" /\ h \in KmemUsers /\ kmem[dev[h]].size # 0
        /\ mapped' = [mapped EXCEPT ![h] = [dev |-> dev[h], virt |-> kmem[dev[h]].virt]]
        /\ UNCHANGED <<pc, dev, kmem, regions, regs, arg>>
    BY <1>3 DEF chr_mmap
  <2>2. pc[h] \notin KmemPCs /\ dev[h] \in Devices
    BY <1>1, <2>1, RegistersAre DEF KmemPCs, UseOf, Tree
  <2>3. Settled(dev[h])
    BY <2>1, <2>2, UserSettled
  <2>4. kmem[dev[h]].virt \in regions[dev[h]] /\ kmem[dev[h]].virt \in 0 .. MaxRegions
    BY <1>1, <2>1, <2>2, <2>3 DEF Settled, Named, KmemTypes, Kmems
  <2>5. KmemTypes'
    BY <1>1, <2>1, <2>2, <2>4 DEF KmemTypes
  <2>6. Settled(dev[h])'
    BY <2>1, <2>3 DEF Settled, Named, RegsName
  <2>7. \A g \in Handles :
          mapped'[g] # Unmapped => mapped'[g].virt \in regions'[mapped'[g].dev]
    BY <1>1, <2>1, <2>4 DEF KmemInv, KmemTypes
  <2> QED BY <2>1, <2>2, <2>5, <2>6, <2>7, KmemOne
<1>4. CASE munmap(h)
  <2>1. /\ pc[h] = "open" /\ mapped[h] # Unmapped
        /\ mapped' = [mapped EXCEPT ![h] = Unmapped]
        /\ UNCHANGED <<pc, dev, kmem, regions, regs, arg>>
    BY <1>4 DEF munmap
  <2>2. pc[h] \notin KmemPCs /\ dev[h] \in Devices /\ h \in KmemUsers
    BY <1>1, <2>1, RegistersAre DEF KmemPCs, UseOf, Tree
  <2>3. Settled(dev[h])'
    BY <2>1, <2>2, UserSettled DEF Settled, Named, RegsName
  <2>4. KmemTypes'
    BY <1>1, <2>1, FileAssumption DEF KmemTypes, Unmapped
  <2>5. \A g \in Handles :
          mapped'[g] # Unmapped => mapped'[g].virt \in regions'[mapped'[g].dev]
    BY <1>1, <2>1 DEF KmemInv, KmemTypes
  <2> QED BY <2>1, <2>2, <2>3, <2>4, <2>5, KmemOne
<1>5. ASSUME NEW size \in Sizes, set_kmem_size(h, size)
      PROVE  KmemInv'
  <2> DEFINE d == dev[h]
  <2>1. /\ pc[h] = "open" /\ h \in KmemUsers
        /\ size = 0 => \A g \in Handles : mapped[g].dev # d
        /\ size # 0 => Cardinality(regions[d]) < MaxRegions
        /\ arg' = [arg EXCEPT ![h].size = size]
        /\ pc' = [pc EXCEPT ![h] = "kmem_down"]
        /\ UNCHANGED <<dev, kmem, regions, regs, mapped>>
    BY <1>5 DEF set_kmem_size, Goto
  <2>2. pc[h] \notin KmemPCs /\ d \in Devices /\ pc'[h] = "kmem_down"
        /\ arg'[h].size = size
    BY <1>1, <2>1, RegistersAre DEF KmemPCs, UseOf, UseTypes, Tree, KmemTypes
  <2>3. Settled(d)
    BY <2>1, <2>2, UserSettled
  <2>4. KmemTypes'
    BY <1>1, <2>1 DEF KmemTypes
  <2>5. size # 0 => 1 .. MaxRegions \ regions[d] # {}
    <3>1. regions[d] \subseteq 1 .. MaxRegions
      BY <1>1, <2>2 DEF KmemTypes
    <3>2. Cardinality(1 .. MaxRegions) = MaxRegions /\ MaxRegions \in Nat
      BY FS_Interval, FileAssumption
    <3>3. ASSUME 1 .. MaxRegions \ regions[d] = {}
          PROVE  regions[d] = 1 .. MaxRegions
      BY <3>1, <3>3
    <3> QED BY <2>1, <3>2, <3>3
  <2>6. Changing(h, d)'
    BY <2>1, <2>2, <2>3, <2>5
       DEF Changing, Settled, Named, RegsName, RegionLeft, NotMapped
  <2>7. pc'[h] \in KmemPCs
    BY <2>2 DEF KmemPCs
  <2> QED BY <2>1, <2>4, <2>6, <2>7, KmemOne DEF KmemInv
<1> QED BY <1>2, <1>3, <1>4, <1>5

LEMMA WaitKmem ==
  ASSUME LifeInv, UseInv, KmemInv, SingleUser, NEW h \in Handles,
         Down(h) \/ Interrupted(h)
  PROVE  KmemInv'
<1>1. UseOf(h) /\ UseTypes /\ KmemTypes
  BY DEF UseInv, Uses, KmemInv
<1>2. UNCHANGED <<kmem, regions, regs, mapped>> /\ pc[h] \in Waits
  BY DEF Down, Interrupted
<1>3. CASE pc[h] = "kmem_down"
  <2>1. h \in KmemUsers /\ dev[h] \in Devices /\ Changing(h, dev[h]) /\ pc[h] \in KmemPCs
    BY <1>1, <1>3 DEF UseOf, KmemPCs, KmemInv, Tree
  <2>2. Settled(dev[h]) /\ RegionLeft(h) /\ NotMapped(h)
    BY <1>3, <2>1 DEF Changing, Settled
  <2>3. CASE Down(h)
    <3>1. /\ arg' = [arg EXCEPT ![h].old = kmem[dev[h]]] /\ dev' = dev
          /\ pc' = [pc EXCEPT ![h] = "kmem_in"]
      BY <1>3, <2>3 DEF Down, Goto, AfterDown
    <3>2. pc'[h] = "kmem_in" /\ pc'[h] \in KmemPCs
      BY <1>1, <3>1 DEF UseTypes, KmemPCs
    <3>3. arg'[h].old = kmem[dev[h]] /\ arg'[h].size = arg[h].size
      BY <1>1, <3>1 DEF KmemTypes
    <3>4. KmemTypes'
      BY <1>1, <1>2, <2>1, <3>1 DEF KmemTypes
    <3>5. Changing(h, dev[h])'
      BY <1>2, <2>2, <3>1, <3>2, <3>3
         DEF Changing, Settled, Named, RegsName, RegionLeft, NotMapped
    <3> QED BY <1>2, <2>1, <3>1, <3>2, <3>4, <3>5, KmemOne DEF KmemInv
  <2>4. CASE Interrupted(h)
    <3>1. /\ arg' = [arg EXCEPT ![h] = NoArg]
          /\ dev' = [dev EXCEPT ![h] = dev[h]]
          /\ pc' = [pc EXCEPT ![h] = "open"]
      BY <1>1, <1>3, <2>4 DEF Interrupted, Goto, UseTypes
    <3>2. dev' = dev /\ pc'[h] = "open" /\ pc'[h] \notin KmemPCs
      BY <1>1, <3>1, RegistersAre DEF UseTypes, KmemPCs
    <3>3. NoArg \in [size : Sizes \cup {0}, old : Kmems, addr : 0 .. MaxRegions]
      BY FileAssumption DEF NoArg, NoKmem, Kmems
    <3>4. KmemTypes'
      BY <1>1, <1>2, <3>1, <3>3 DEF KmemTypes
    <3>5. Settled(dev[h])'
      BY <1>2, <2>2, <3>2 DEF Settled, Named, RegsName
    <3> QED BY <1>2, <2>1, <3>2, <3>4, <3>5, KmemOne DEF KmemInv
  <2> QED BY <2>3, <2>4
<1>4. CASE pc[h] # "kmem_down"
  <2>1. arg' = arg \/ arg' = [arg EXCEPT ![h] = NoArg]
    BY <1>4 DEF Down, Interrupted
  <2>2. KmemTypes'
    <3>1. NoArg \in [size : Sizes \cup {0}, old : Kmems, addr : 0 .. MaxRegions]
      BY FileAssumption DEF NoArg, NoKmem, Kmems
    <3> QED BY <1>1, <1>2, <2>1, <3>1 DEF KmemTypes
  <2>3. \E l \in {"open_in", "release_in", "sel_second", "sel_in", "closed", "open"} :
          pc' = [pc EXCEPT ![h] = l]
    <3>1. /\ pc[h] = "open_down" => AfterDown[pc[h]] = "open_in"
          /\ pc[h] = "release_down" => AfterDown[pc[h]] = "release_in"
          /\ pc[h] = "sel_first" => AfterDown[pc[h]] = "sel_second"
          /\ pc[h] = "sel_second" => AfterDown[pc[h]] = "sel_in"
      BY DEF AfterDown
    <3> QED BY <1>2, <1>4, <3>1 DEF Waits, Down, Interrupted, Goto
  <2>4. pc[h] \notin KmemPCs /\ pc'[h] \notin KmemPCs
    BY <1>1, <1>2, <1>4, <2>3, RegistersAre DEF Waits, KmemPCs, UseTypes
  <2>5. \A g \in Handles : g # h => pc'[g] = pc[g] /\ dev'[g] = dev[g] /\ arg'[g] = arg[g]
    BY <1>1, <2>1, <2>3 DEF UseTypes, KmemTypes, Down, Interrupted
  <2> QED BY <1>2, <2>2, <2>4, <2>5, KmemFrame, FileAssumption
<1> QED BY <1>3, <1>4

LEMMA AllocKmem ==
  ASSUME LifeInv, UseInv, KmemInv, SingleUser, NEW h \in Handles, KmemAlloc(h)
  PROVE  KmemInv'
<1> DEFINE d == dev[h]
           old == arg[h].old.virt
           fresh == Lowest(1 .. MaxRegions \ regions[d])
<1>1. UseOf(h) /\ UseTypes /\ KmemTypes /\ pc[h] = "kmem_in"
  BY DEF UseInv, Uses, KmemInv, KmemAlloc
<1>2. h \in KmemUsers /\ d \in Devices /\ Changing(h, d)
  BY <1>1 DEF UseOf, KmemPCs, KmemInv, Tree
<1>3. Settled(d) /\ RegionLeft(h) /\ NotMapped(h) /\ arg[h].old = kmem[d]
  BY <1>1, <1>2 DEF Changing, Settled
<1>4. UNCHANGED <<dev, arg, regs, mapped>>
  BY DEF KmemAlloc
<1>5. PICK outcome \in Outcomes(arg[h].size) :
        /\ kmem' = [kmem EXCEPT ![d] =
             CASE outcome = "new" -> [@ EXCEPT !.virt = fresh]
               [] outcome = "kmem" -> [@ EXCEPT !.virt = 0]
               [] outcome = "free" -> NoKmem
               [] outcome = "mask" -> @]
        /\ regions' = [regions EXCEPT ![d] =
             CASE outcome = "new" -> (@ \cup {fresh}) \ Replaced(old)
               [] outcome = "free" -> @ \ {old}
               [] OTHER -> @]
        /\ pc' = [pc EXCEPT ![h] = IF outcome = "mask" THEN "open" ELSE "kmem_fix"]
  BY DEF KmemAlloc, Goto
<1>6. /\ kmem[d] \in [virt : 0 .. MaxRegions, size : Sizes \cup {0}]
      /\ regions[d] \in SUBSET (1 .. MaxRegions) /\ MaxRegions \in Nat
  BY <1>1, <1>2, FileAssumption DEF KmemTypes, Kmems
<1>7. \A e \in Devices : e # d =>
        kmem'[e] = kmem[e] /\ regions'[e] = regions[e] /\ regs'[e] = regs[e]
  BY <1>1, <1>4, <1>5 DEF KmemTypes
<1>8. \A g \in Handles : mapped[g] # Unmapped =>
        mapped[g].dev \in Devices /\ mapped[g].virt \in regions[mapped[g].dev]
  <2>1. \A g \in Handles : UseOf(g)
    BY DEF UseInv, Uses
  <2> QED BY <2>1 DEF UseOf, Tree, KmemInv
<1>9. CASE outcome = "new"
  <2>1. arg[h].size # 0
    BY <1>5, <1>9 DEF Outcomes
  <2>2. fresh \in 1 .. MaxRegions
    <3>1. 1 .. MaxRegions \ regions[d] # {}
      BY <1>3, <2>1 DEF RegionLeft
    <3>2. 1 .. MaxRegions \ regions[d] \subseteq Nat
      OBVIOUS
    <3> QED BY <3>1, <3>2, SmallestNat
  <2> HIDE DEF fresh
  <2>3. /\ kmem' = [kmem EXCEPT ![d] = [kmem[d] EXCEPT !.virt = fresh]]
        /\ regions' = [regions EXCEPT ![d] = regions[d] \cup {fresh}]
        /\ pc' = [pc EXCEPT ![h] = "kmem_fix"]
    BY <1>1, <1>5, <1>9 DEF Replaced, KmemTypes
  <2>4. /\ kmem'[d].virt = fresh /\ kmem'[d].size = kmem[d].size
        /\ kmem'[d] \in Kmems
        /\ regions'[d] = regions[d] \cup {fresh}
    BY <1>1, <1>2, <1>6, <2>2, <2>3 DEF KmemTypes, Kmems
  <2>5. pc'[h] = "kmem_fix" /\ pc'[h] \in KmemPCs
    BY <1>1, <2>3 DEF UseTypes, KmemPCs
  <2>6. KmemTypes'
    <3>1. kmem' \in [Devices -> Kmems]
      BY <1>1, <1>2, <2>3, <2>4 DEF KmemTypes
    <3>2. regions' \in [Devices -> SUBSET (1 .. MaxRegions)]
      BY <1>1, <1>2, <2>2, <2>3 DEF KmemTypes
    <3> QED BY <1>1, <1>4, <3>1, <3>2 DEF KmemTypes
  <2>7. fresh # 0
    BY <2>2
  <2>8. Changing(h, d)'
    BY <1>3, <1>4, <2>1, <2>4, <2>5, <2>7 DEF Changing
  <2>9. \A g \in Handles :
          mapped'[g] # Unmapped => mapped'[g].virt \in regions'[mapped'[g].dev]
    BY <1>4, <1>7, <1>8, <2>4
  <2> QED BY <1>2, <1>4, <1>7, <2>5, <2>6, <2>8, <2>9, KmemOne
<1>10. CASE outcome = "kmem"
  <2>1. arg[h].size # 0
    BY <1>5, <1>10 DEF Outcomes
  <2>2. /\ kmem' = [kmem EXCEPT ![d] = [kmem[d] EXCEPT !.virt = 0]]
        /\ regions' = regions
        /\ pc' = [pc EXCEPT ![h] = "kmem_fix"]
    BY <1>1, <1>2, <1>5, <1>10 DEF KmemTypes
  <2>3. kmem'[d].virt = 0 /\ kmem'[d].size = kmem[d].size /\ kmem'[d] \in Kmems
    <3>1. kmem'[d] = [kmem[d] EXCEPT !.virt = 0]
      BY <1>1, <1>2, <2>2 DEF KmemTypes
    <3>2. 0 \in 0 .. MaxRegions
      BY <1>6
    <3> QED BY <1>6, <3>1, <3>2 DEF Kmems
  <2>4. pc'[h] = "kmem_fix" /\ pc'[h] \in KmemPCs
    BY <1>1, <2>2 DEF UseTypes, KmemPCs
  <2>5. KmemTypes'
    BY <1>1, <1>4, <2>2, <2>3 DEF KmemTypes
  <2>6. Changing(h, d)'
    BY <1>3, <1>4, <2>1, <2>2, <2>3, <2>4 DEF Changing, Settled, Named, RegsName
  <2> QED BY <1>2, <1>4, <1>7, <1>8, <2>2, <2>4, <2>5, <2>6, KmemOne
<1>11. CASE outcome = "free"
  <2>1. arg[h].size = 0
    BY <1>5, <1>11 DEF Outcomes
  <2>2. /\ kmem' = [kmem EXCEPT ![d] = NoKmem]
        /\ regions' = [regions EXCEPT ![d] = regions[d] \ {old}]
        /\ pc' = [pc EXCEPT ![h] = "kmem_fix"]
    BY <1>1, <1>5, <1>11 DEF KmemTypes
  <2>3. kmem'[d] = NoKmem /\ NoKmem \in Kmems
    BY <1>1, <1>2, <2>2, FileAssumption DEF KmemTypes, Kmems, NoKmem
  <2>4. pc'[h] = "kmem_fix" /\ pc'[h] \in KmemPCs
    BY <1>1, <2>2 DEF UseTypes, KmemPCs
  <2>5. KmemTypes'
    <3>1. kmem' \in [Devices -> Kmems]
      BY <1>1, <1>2, <2>2, <2>3 DEF KmemTypes
    <3>2. regions' \in [Devices -> SUBSET (1 .. MaxRegions)]
      BY <1>1, <1>2, <1>6, <2>2 DEF KmemTypes
    <3> QED BY <1>1, <1>4, <3>1, <3>2 DEF KmemTypes
  <2>6. Changing(h, d)'
    BY <1>4, <2>1, <2>3, <2>4 DEF Changing, NoKmem
  <2>7. \A g \in Handles :
          mapped'[g] # Unmapped => mapped'[g].virt \in regions'[mapped'[g].dev]
    BY <1>3, <1>4, <1>7, <1>8, <2>1 DEF NotMapped
  <2> QED BY <1>2, <1>4, <1>7, <2>4, <2>5, <2>6, <2>7, KmemOne
<1>12. CASE outcome = "mask"
  <2>1. kmem' = kmem /\ regions' = regions /\ pc' = [pc EXCEPT ![h] = "open"]
    BY <1>1, <1>2, <1>5, <1>12 DEF KmemTypes
  <2>2. pc'[h] = "open" /\ pc'[h] \notin KmemPCs
    BY <1>1, <2>1, RegistersAre DEF UseTypes, KmemPCs
  <2>3. KmemTypes'
    BY <1>1, <1>4, <2>1 DEF KmemTypes
  <2>4. Settled(d)'
    BY <1>3, <1>4, <2>1 DEF Settled, Named, RegsName
  <2> QED BY <1>2, <1>4, <1>7, <1>8, <2>1, <2>2, <2>3, <2>4, KmemOne
<1> QED BY <1>5, <1>9, <1>10, <1>11, <1>12 DEF Outcomes

LEMMA FixKmem ==
  ASSUME LifeInv, UseInv, KmemInv, SingleUser, NEW h \in Handles, KmemFix(h)
  PROVE  KmemInv'
<1> DEFINE d == dev[h]
<1>1. UseOf(h) /\ UseTypes /\ KmemTypes /\ pc[h] = "kmem_fix"
  BY DEF UseInv, Uses, KmemInv, KmemFix
<1>2. h \in KmemUsers /\ d \in Devices /\ Changing(h, d)
  BY <1>1 DEF UseOf, KmemPCs, KmemInv, Tree
<1>3. /\ UNCHANGED <<dev, arg, regs, mapped, regions>>
      /\ pc' = [pc EXCEPT ![h] = "kmem_read"]
      /\ kmem' = [kmem EXCEPT ![d] =
           IF arg[h].size > 0 /\ kmem[d].virt = 0 THEN Restored(kmem[d], arg[h].old)
           ELSE [kmem[d] EXCEPT !.size = arg[h].size]]
  BY <1>1, <1>2 DEF KmemFix, Goto, KmemTypes
<1>4. /\ kmem[d] \in [virt : 0 .. MaxRegions, size : Sizes \cup {0}]
      /\ arg[h].old \in [virt : 0 .. MaxRegions, size : Sizes \cup {0}]
      /\ arg[h].size \in Sizes \cup {0} /\ arg[h].size \in Nat
  <2>1. arg[h] \in [size : Sizes \cup {0}, old : Kmems, addr : 0 .. MaxRegions]
    BY <1>1 DEF KmemTypes
  <2>2. kmem[d] \in Kmems
    BY <1>1, <1>2 DEF KmemTypes
  <2>3. arg[h].old \in Kmems /\ arg[h].size \in Sizes \cup {0}
    BY <2>1
  <2>4. \A x \in Sizes \cup {0} : x \in Nat
    BY FileAssumption
  <2>5. arg[h].size \in Nat
    BY <2>3, <2>4
  <2> QED BY <2>2, <2>3, <2>5 DEF Kmems
<1>5. pc'[h] = "kmem_read" /\ pc'[h] \in KmemPCs
  BY <1>1, <1>3 DEF UseTypes, KmemPCs
<1>6. Named(kmem'[d], d) /\ kmem'[d] \in Kmems
  <2>1. CASE arg[h].size = 0
    <3>1. kmem[d] = NoKmem
      BY <1>1, <1>2, <2>1 DEF Changing
    <3>2. kmem'[d] = [kmem[d] EXCEPT !.size = 0]
      BY <1>1, <1>2, <1>3, <2>1 DEF KmemTypes
    <3> QED BY <1>4, <3>1, <3>2 DEF Named, NoKmem, Kmems
  <2>2. CASE arg[h].size # 0 /\ kmem[d].virt = 0
    <3>1. Named(arg[h].old, d) /\ kmem[d].size = arg[h].old.size
      BY <1>1, <1>2, <2>2 DEF Changing
    <3>2. kmem'[d] = [kmem[d] EXCEPT !.virt = arg[h].old.virt]
      <4>1. arg[h].size > 0
        BY <1>4, <2>2
      <4>2. kmem'[d] = Restored(kmem[d], arg[h].old)
        BY <1>1, <1>2, <1>3, <2>2, <4>1 DEF KmemTypes
      <4> QED BY <4>2 DEF Restored
    <3> QED BY <1>4, <3>1, <3>2 DEF Named, Kmems
  <2>3. CASE arg[h].size # 0 /\ kmem[d].virt # 0
    <3>1. kmem[d].virt \in regions[d] \cup {0}
      BY <1>1, <1>2, <2>3 DEF Changing
    <3>2. kmem'[d] = [kmem[d] EXCEPT !.size = arg[h].size]
      BY <1>1, <1>2, <1>3, <2>3 DEF KmemTypes
    <3> QED BY <1>4, <2>3, <3>1, <3>2 DEF Named, Kmems
  <2> QED BY <2>1, <2>2, <2>3
<1>7. KmemTypes'
  <2>1. kmem' \in [Devices -> Kmems]
    <3>1. \A e \in Devices : kmem'[e] \in Kmems
      BY <1>1, <1>3, <1>6 DEF KmemTypes
    <3>2. kmem' = [e \in Devices |-> kmem'[e]]
      BY <1>1, <1>3 DEF KmemTypes
    <3> QED BY <3>1, <3>2
  <2> QED BY <1>1, <1>3, <2>1 DEF KmemTypes
<1>8. Changing(h, d)'
  BY <1>3, <1>5, <1>6 DEF Changing, Named
<1>9. \A e \in Devices : e # d =>
        kmem'[e] = kmem[e] /\ regions'[e] = regions[e] /\ regs'[e] = regs[e]
  BY <1>1, <1>3 DEF KmemTypes
<1>10. \A g \in Handles :
         mapped'[g] # Unmapped => mapped'[g].virt \in regions'[mapped'[g].dev]
  BY <1>3 DEF KmemInv
<1> QED BY <1>2, <1>3, <1>5, <1>7, <1>8, <1>9, <1>10, KmemOne

LEMMA WrittenAre ==
  /\ Written("rx_l") = {} /\ Written("rx_h") = {"rx_l"}
  /\ Written("tx_l") = {"rx_l", "rx_h"} /\ Written("tx_h") = {"rx_l", "rx_h", "tx_l"}
<1> DEFINE at(l) == CHOOSE j \in DOMAIN Registers : Registers[j] = l
<1>1. at("rx_l") = 1 /\ at("rx_h") = 2 /\ at("tx_l") = 3 /\ at("tx_h") = 4
  BY RegistersAre
<1>2. \A l : Written(l) = {Registers[i] : i \in 1 .. at(l) - 1}
  BY DEF Written
<1> HIDE DEF at
<1>3. 1 .. 1 - 1 = {} /\ 1 .. 2 - 1 = {1} /\ 1 .. 3 - 1 = {1, 2} /\ 1 .. 4 - 1 = {1, 2, 3}
  OBVIOUS
<1> QED BY <1>1, <1>2, <1>3, RegistersAre

\* The address read again after the up, and written to the four registers.
LEMMA RegsKmem ==
  ASSUME LifeInv, UseInv, KmemInv, SingleUser, NEW h \in Handles,
         KmemRead(h) \/ KmemWrite(h)
  PROVE  KmemInv'
<1> DEFINE d == dev[h]
           v == kmem[d].virt
<1>1. UseOf(h) /\ UseTypes /\ KmemTypes /\ pc[h] \in KmemPCs
  BY DEF UseInv, Uses, KmemInv, KmemRead, KmemWrite, KmemPCs
<1>2. h \in KmemUsers /\ d \in Devices /\ Changing(h, d)
  BY <1>1, RegistersAre DEF UseOf, KmemPCs, KmemInv, Tree
<1>3. UNCHANGED <<dev, kmem, mapped, regions>>
  BY DEF KmemRead, KmemWrite
<1>4. \A g \in Handles :
        mapped'[g] # Unmapped => mapped'[g].virt \in regions'[mapped'[g].dev]
  BY <1>3 DEF KmemInv
<1>5. v \in 0 .. MaxRegions
  BY <1>1, <1>2 DEF KmemTypes, Kmems
<1>6. CASE KmemRead(h)
  <2>1. /\ pc[h] = "kmem_read" /\ pc' = [pc EXCEPT ![h] = "rx_l"] /\ regs' = regs
        /\ arg' = [arg EXCEPT ![h].addr = v]
    BY <1>6, RegistersAre DEF KmemRead, Goto
  <2>2. pc'[h] = "rx_l" /\ pc'[h] \in KmemPCs
    BY <1>1, <2>1, RegistersAre DEF UseTypes, KmemPCs
  <2>3. KmemTypes'
    BY <1>1, <1>3, <1>5, <2>1 DEF KmemTypes
  <2>4. Named(kmem[d], d) /\ arg'[h].addr = v
    BY <1>1, <1>2, <2>1 DEF Changing, KmemTypes
  <2>5. Changing(h, d)'
    BY <1>3, <2>2, <2>4, WrittenAre DEF Changing, Named
  <2> QED BY <1>2, <1>3, <1>4, <2>1, <2>2, <2>3, <2>5, KmemOne
<1>7. CASE KmemWrite(h)
  <2>1. /\ pc[h] \in ToSet(Registers) /\ regs' = [regs EXCEPT ![d][pc[h]] = arg[h].addr]
        /\ pc[h] \in {"rx_l", "rx_h", "tx_l", "tx_h"}
    BY <1>7, RegistersAre DEF KmemWrite
  <2>2. /\ Named(kmem[d], d) /\ arg[h].addr = v
        /\ \A r \in Written(pc[h]) : regs[d][r] = v
    BY <1>2, <2>1 DEF Changing
  <2>3. regs'[d] = [regs[d] EXCEPT ![pc[h]] = v]
    BY <1>1, <1>2, <2>1, <2>2 DEF KmemTypes
  <2>4. \A r \in ToSet(Registers) : regs'[d][r] = IF r = pc[h] THEN v ELSE regs[d][r]
    BY <1>1, <1>2, <2>3 DEF KmemTypes
  <2>5. regs' \in [Devices -> [ToSet(Registers) -> 0 .. MaxRegions]]
    <3>1. regs'[d] \in [ToSet(Registers) -> 0 .. MaxRegions]
      <4>1. regs[d] \in [ToSet(Registers) -> 0 .. MaxRegions]
        BY <1>1, <1>2 DEF KmemTypes
      <4> QED BY <1>5, <2>3, <4>1
    <3>2. regs' = [regs EXCEPT ![d] = regs'[d]]
      BY <1>1, <1>2, <2>1 DEF KmemTypes
    <3> QED BY <1>1, <3>1, <3>2 DEF KmemTypes
  <2>6. \A e \in Devices : e # d =>
          kmem'[e] = kmem[e] /\ regions'[e] = regions[e] /\ regs'[e] = regs[e]
    BY <1>1, <1>3, <2>1 DEF KmemTypes
  <2>7. CASE pc[h] # "tx_h"
    <3>1. /\ arg' = arg
          /\ pc[h] = "rx_l" => pc'[h] = "rx_h"
          /\ pc[h] = "rx_h" => pc'[h] = "tx_l"
          /\ pc[h] = "tx_l" => pc'[h] = "tx_h"
      BY <1>1, <1>7, <2>1, <2>7, NextRegister DEF UseTypes
    <3>2. pc'[h] \in {"rx_h", "tx_l", "tx_h"} /\ pc'[h] \in KmemPCs
      BY <2>1, <2>7, <3>1, RegistersAre DEF KmemPCs
    <3>3. Written(pc'[h]) = Written(pc[h]) \cup {pc[h]}
          /\ Written(pc[h]) \subseteq ToSet(Registers)
      BY <2>1, <2>7, <3>1, WrittenAre, RegistersAre
    <3>4. \A r \in Written(pc'[h]) : regs'[d][r] = v
      BY <2>1, <2>2, <2>4, <3>3
    <3>5. Written(pc[h])' = Written(pc'[h])
      BY DEF Written
    <3>6. Changing(h, d)'
      BY <1>3, <2>2, <3>1, <3>2, <3>4, <3>5 DEF Changing, Named
    <3>7. KmemTypes'
      BY <1>1, <1>3, <2>5, <3>1 DEF KmemTypes
    <3> QED BY <1>2, <1>3, <1>4, <2>6, <3>2, <3>6, <3>7, KmemOne
  <2>8. CASE pc[h] = "tx_h"
    <3>1. arg' = [arg EXCEPT ![h] = NoArg] /\ pc'[h] = "open"
      BY <1>1, <1>7, <2>8, NextRegister DEF UseTypes
    <3>2. pc'[h] \notin KmemPCs
      BY <3>1, RegistersAre DEF KmemPCs
    <3>3. \A r \in ToSet(Registers) : regs'[d][r] = v
      BY <2>2, <2>4, <2>8, WrittenAre, RegistersAre
    <3>4. Settled(d)'
      BY <1>3, <2>2, <3>3 DEF Settled, Named, RegsName
    <3>5. NoArg \in [size : Sizes \cup {0}, old : Kmems, addr : 0 .. MaxRegions]
      BY FileAssumption DEF NoArg, NoKmem, Kmems
    <3>6. KmemTypes'
      BY <1>1, <1>3, <2>5, <3>1, <3>5 DEF KmemTypes
    <3> QED BY <1>2, <1>3, <1>4, <2>6, <3>2, <3>4, <3>6, KmemOne
  <2> QED BY <2>7, <2>8
<1> QED BY <1>6, <1>7

\* Devices that no file uses are forgotten.
LEMMA ForgottenKmem ==
  ASSUME LifeInv, UseInv, KmemInv, NEW ds \in SUBSET Devices, Forgotten(ds),
         UNCHANGED <<pc, dev, arg, mapped>>,
         \A h \in Handles : dev[h] \notin ds /\ mapped[h].dev \notin ds
  PROVE  KmemInv'
<1>1. /\ regions' = [d \in Devices |-> IF d \in ds THEN {} ELSE regions[d]]
      /\ kmem' = [d \in Devices |-> IF d \in ds THEN NoKmem ELSE kmem[d]]
      /\ regs' = [d \in Devices |-> IF d \in ds THEN NoRegs ELSE regs[d]]
  BY DEF Forgotten
<1>2. KmemTypes
  BY DEF KmemInv
<1>3. NoKmem \in Kmems /\ NoRegs \in [ToSet(Registers) -> 0 .. MaxRegions]
  BY FileAssumption DEF NoKmem, Kmems, NoRegs
<1>4. KmemTypes'
  BY <1>1, <1>2, <1>3 DEF KmemTypes
<1>5. ASSUME NEW d \in Devices,
             \A h \in KmemUsers : pc'[h] \in KmemPCs => dev'[h] # d
      PROVE  Settled(d)'
  <2>1. CASE d \in ds
    BY <1>1, <2>1 DEF Settled, Named, RegsName, NoKmem
  <2>2. CASE d \notin ds
    <3>1. Settled(d)
      BY <1>5 DEF KmemInv
    <3> QED BY <1>1, <2>2, <3>1 DEF Settled, Named, RegsName
  <2> QED BY <2>1, <2>2
<1>6. ASSUME NEW h \in KmemUsers, pc'[h] \in KmemPCs
      PROVE  Changing(h, dev[h])'
  <2>1. Changing(h, dev[h]) /\ h \in Handles
    BY <1>6, FileAssumption DEF KmemInv
  <2>2. dev[h] \in Devices /\ dev[h] \notin ds
    <3>1. UseOf(h)
      BY <2>1 DEF UseInv, Uses
    <3>2. pc[h] # "closed"
      BY <1>6, RegistersAre DEF KmemPCs
    <3> QED BY <2>1, <3>1, <3>2 DEF UseOf, Tree
  <2>3. /\ kmem'[dev[h]] = kmem[dev[h]] /\ regions'[dev[h]] = regions[dev[h]]
        /\ regs'[dev[h]] = regs[dev[h]]
    BY <1>1, <2>2
  <2> QED BY <2>1, <2>3 DEF Changing, Named, RegsName, RegionLeft, NotMapped, Written
<1>7. ASSUME NEW h \in Handles, mapped'[h] # Unmapped
      PROVE  mapped'[h].virt \in regions'[mapped'[h].dev]
  <2>1. mapped[h].dev \in Devices
    BY <1>7 DEF UseInv, Uses, UseOf, Tree
  <2> QED BY <1>1, <1>7, <2>1 DEF KmemInv
<1> QED BY <1>4, <1>5, <1>6, <1>7 DEF KmemInv

LEMMA KmemStep ==
  ASSUME LifeInv, UseInv, KmemInv, SingleUser, [Next]_vars
  PROVE  KmemInv'
<1>0. KmemTypes
  BY DEF KmemInv
<1>1. CASE UNCHANGED <<pc, dev, kmemVars>>
  <2>1. UNCHANGED <<kmem, regions, regs, arg, mapped>> /\ pc' = pc /\ dev' = dev
    BY <1>1 DEF kmemVars
  <2>2. KmemTypes'
    BY <1>0, <2>1 DEF KmemTypes
  <2> QED BY <2>1, <2>2, KmemFrame
<1>2. CASE UNCHANGED vars
  BY <1>1, <1>2 DEF vars, fileVars
<1>3. CASE (Load /\ UNCHANGED fileVars) \/ Unload
  BY <1>1, <1>3 DEF Unload, fileVars
<1>4. CASE KernelStep
  <2>1. CASE UNCHANGED fileVars
    BY <1>1, <2>1 DEF fileVars
  <2>2. CASE UnloadDevices
    <3>1. /\ mod = "unloading" /\ Forgotten(Tree) /\ Tree \in SUBSET Devices
          /\ UNCHANGED <<pc, dev, arg, mapped>>
      BY <2>2 DEF UnloadDevices, UnloadDriver, Tree
    <3>2. \A h \in Handles : dev[h] = 0 /\ mapped[h] = Unmapped
      BY <3>1 DEF UseInv, Uses, UseOf
    <3>3. \A h \in Handles : dev[h] \notin Tree /\ mapped[h].dev \notin Tree
      BY <3>2, LifeAssumption DEF Unmapped, Tree
    <3> QED BY <3>1, <3>3, ForgottenKmem
  <2> QED BY <1>4, <2>1, <2>2 DEF KernelStep
<1>5. ASSUME NEW h \in Handles,
             \/ chr_open(h) \/ chr_release(h) \/ chr_mmap(h) \/ munmap(h)
             \/ \E d \in Devices : sel_dev(h, d)
             \/ \E size \in Sizes : set_kmem_size(h, size)
             \/ Down(h) \/ Interrupted(h)
      PROVE  KmemInv'
  BY <1>5, EntryKmem, WaitKmem
<1>6. ASSUME NEW h \in Handles, Count(h) \/ sriov_enable(h) \/ sriov_enabled(h)
      PROVE  KmemInv'
  <2>1. UseTypes
    BY DEF UseInv
  <2>2. UNCHANGED <<kmem, regions, regs, arg, mapped>>
    BY <1>6 DEF Count, sriov_enable, sriov_enabled, kmemVars
  <2>3. /\ pc[h] \in {"open_in", "release_in", "sel_in", "open", "sriov"}
        /\ \E l \in {"closed", "open", "sriov"} : pc' = [pc EXCEPT ![h] = l]
        /\ \A g \in Handles : g # h => dev'[g] = dev[g]
    BY <1>6, <2>1 DEF Count, sriov_enable, sriov_enabled, Goto, UseTypes
  <2>4. pc[h] \notin KmemPCs /\ pc'[h] \notin KmemPCs
    BY <2>1, <2>3, RegistersAre DEF KmemPCs, UseTypes
  <2>5. \A g \in Handles : g # h => pc'[g] = pc[g]
    BY <2>1, <2>3 DEF UseTypes
  <2>6. KmemTypes'
    BY <1>0, <2>2 DEF KmemTypes
  <2> QED BY <2>2, <2>3, <2>4, <2>5, <2>6, KmemFrame, FileAssumption
<1>7. ASSUME NEW h \in Handles, sriov_disable(h)
      PROVE  KmemInv'
  <2>1. /\ Forgotten(Virtual) /\ Virtual \cap InUse = {} /\ Virtual \in SUBSET Devices
        /\ UNCHANGED <<pc, dev, arg, mapped>>
    BY <1>7, LifeAssumption DEF sriov_disable
  <2>2. \A g \in Handles : dev[g] \notin Virtual /\ mapped[g].dev \notin Virtual
    BY <2>1 DEF InUse
  <2> QED BY <2>1, <2>2, ForgottenKmem
<1>8. ASSUME NEW h \in Handles,
             KmemAlloc(h) \/ KmemFix(h) \/ KmemRead(h) \/ KmemWrite(h)
      PROVE  KmemInv'
  BY <1>8, AllocKmem, FixKmem, RegsKmem
<1> QED BY <1>2, <1>3, <1>4, <1>5, <1>6, <1>7, <1>8 DEF Next, HandleStep

\* With one user of kernel memory, kmem_info names an allocated region or none
\* outside of set_kmem_size, the four registers name the current region, and what
\* the user has mapped stays allocated, whatever fails in the allocation and
\* whichever device is selected in between.
THEOREM KernelMemoryConsistent ==
  Handled /\ SingleUser /\ Spec => [](KmemConsistent /\ MappedAllocated)
<1> SUFFICES ASSUME Handled, SingleUser
             PROVE  Spec => [](KmemConsistent /\ MappedAllocated)
  OBVIOUS
<1>1. Init => LifeInv /\ UseInv /\ KmemInv
  BY LifeInitially, UseInitially, KmemInitially DEF Init
<1>2. LifeInv /\ UseInv /\ KmemInv /\ [Next]_vars => (LifeInv /\ UseInv /\ KmemInv)'
  BY LifeStep, UseStep, KmemStep
<1>3. KmemInv => KmemConsistent /\ MappedAllocated
  <2> SUFFICES ASSUME KmemInv
               PROVE  KmemConsistent /\ MappedAllocated
    OBVIOUS
  <2>1. MappedAllocated
    BY DEF KmemInv, MappedAllocated
  <2>2. ASSUME NEW d \in Devices,
               \A h \in Handles : dev[h] = d =>
                 pc[h] \in {"open", "open_down", "release_down"}
        PROVE  Settled(d)
    <3>1. \A h \in KmemUsers : pc[h] \in KmemPCs => dev[h] # d
      BY <2>2, FileAssumption, RegistersAre DEF KmemPCs
    <3> QED BY <3>1 DEF KmemInv
  <2> QED BY <2>1, <2>2 DEF KmemConsistent, Settled, Named, RegsName
<1> QED BY <1>1, <1>2, <1>3, PTL DEF Spec

\* chr_mmap takes no lock: whenever it runs, however often set_kmem_size replaces the
\* region of the device and whichever device the user selects in between, what it has
\* mapped stays allocated.
THEOREM MappedStaysAllocated == Handled /\ SingleUser /\ Spec => []MappedAllocated
<1>1. KmemConsistent /\ MappedAllocated => MappedAllocated
  OBVIOUS
<1> QED BY KernelMemoryConsistent, <1>1, PTL

-----------------------------------------------------------------------------
\* Every variable has its type: in particular no semaphore goes below zero, no
\* region is taken beyond MaxRegions, and a file's device exists.
THEOREM TypeCorrect == Handled /\ ~DMA_SUPPORTED /\ SingleUser /\ Spec => []FileTypeOK
<1> SUFFICES ASSUME Handled, ~DMA_SUPPORTED, SingleUser
             PROVE  Spec => []FileTypeOK
  OBVIOUS
<1>1. Init => LifeInv /\ UseInv /\ CountInv /\ KmemInv
  BY LifeInitially, UseInitially, CountInitially, KmemInitially DEF Init
<1>2. LifeInv /\ UseInv /\ CountInv /\ KmemInv /\ [Next]_vars
        => (LifeInv /\ UseInv /\ CountInv /\ KmemInv)'
  BY LifeStep, UseStep, CountStep, KmemStep
<1>3. LifeInv /\ UseInv /\ CountInv /\ KmemInv => FileTypeOK
  BY DEF LifeInv, LifeTypes, UseInv, UseTypes, PCs, CountInv, CountTypes, KmemInv,
         KmemTypes, FileTypeOK, LifeTypeOK
<1> QED BY <1>1, <1>2, <1>3, PTL DEF Spec

=============================================================================
