-------------------------- MODULE KernelDma_proofs ---------------------------
(***************************************************************************)
(* Proofs about DMA through descriptor tables, for tables of every length, *)
(* under the discipline of the callers (Discipline): DmaInv says, for each *)
(* direction, where the transfers that were accepted are: in the table     *)
(* from its first descriptor on, taken over by dma_send, on their way to   *)
(* the engine, or in the engine ahead of what sets the status word.        *)
(***************************************************************************)
EXTENDS KernelDma, FiniteSetTheorems, SequenceTheorems, TLAPS

-----------------------------------------------------------------------------
(* The inductive invariant.                                                 *)

StatusItem(p) == [kind |-> "status", at |-> p]

\* The first n descriptors of the table hold transfers not yet fetched.
Loaded(d, n) == \A i \in 0 .. n - 1 : table[d][i] = Transfer("new")

EngineHasNone(d) == jobs[d] = <<>> /\ fifo[d] = <<>>

\* Everything accepted is pending, or was performed.
Waiting(d) == EngineHasNone(d) /\ todo[d] = num_pending[d] /\ Loaded(d, todo[d])
Finished(d) == EngineHasNone(d) /\ todo[d] = 0

\* dma_send has taken over what was pending and has not started it.
Taken(d) == EngineHasNone(d) /\ todo[d] = snap[d].lptr + 1 /\ Loaded(d, todo[d])

\* The engine was told, and has not fetched the table.
Fetching(d, p) ==
  /\ jobs[d] = <<p>> /\ fifo[d] = <<>> /\ todo[d] = p + 1
  /\ Loaded(d, p + 1) /\ table[d][p + 1] = StatusItem(p)

\* The engine has fetched it, and performs it.
Performing(d, p) ==
  /\ jobs[d] = <<>> /\ Len(fifo[d]) = todo[d] + 1
  /\ \A i \in 1 .. todo[d] : fifo[d][i] = Transfer("new")
  /\ fifo[d][todo[d] + 1] = StatusItem(p)

\* Transfers that were started: the status word tells when they are done.
Sent(d, p) ==
  \/ status[d][p] = 0 /\ (Fetching(d, p) \/ Performing(d, p))
  \/ Finished(d)

\* Outside of a call: the table is filled from its first descriptor on, or the
\* engine still works on a send that timed out.
IdleOK ==
  /\ \A d \in Dirs :
       last_ptr[d] = IF num_pending[d] = 0 THEN Last ELSE num_pending[d] - 1
  /\ \/ \A d \in Dirs : Waiting(d)
     \/ \A d \in Dirs : num_pending[d] = 0 /\ \E p \in Descs : Sent(d, p)

\* The directions before and after dma_start.
Before(d) == IF d \in send THEN Taken(d) ELSE Finished(d)
After(d) == IF d \in send THEN Sent(d, snap[d].lptr) ELSE Finished(d)
Restarted == \A d \in Dirs : last_ptr[d] = Last

\* Inside dma_send.
SendOK ==
  /\ send # {} /\ \A d \in Dirs : num_pending[d] = 0
  /\ pc = "start_rd" => Before("rd") /\ Before("wr")
  /\ pc = "start_wr" => After("rd") /\ Before("wr") /\ ("rd" \in send => Restarted)
  /\ pc \in {"poll", "ok", "timeout"} => After("rd") /\ After("wr") /\ Restarted
  /\ pc = "ok" => \A d \in send : Finished(d)

\* A table never wraps: what is pending starts at its first descriptor.
NeverWraps == \A d \in Dirs : ~last_ptr_wrap[d] /\ ~snap[d].wrap

DmaInv ==
  /\ TypeOK /\ ~redone /\ NeverWraps
  /\ pc = "idle" => IdleOK
  /\ pc # "idle" => SendOK

USE DmaAssumption

-----------------------------------------------------------------------------
(* What the engine does with the transfers of a direction.                  *)

\* A step that leaves everything of direction d alone.
Same(d) ==
  /\ jobs'[d] = jobs[d] /\ fifo'[d] = fifo[d] /\ todo'[d] = todo[d]
  /\ table'[d] = table[d] /\ status'[d] = status[d]

LEMMA SameKeeps ==
  ASSUME NEW d \in Dirs, Same(d)
  PROVE  /\ Finished(d) => Finished(d)'
         /\ Waiting(d) /\ num_pending'[d] = num_pending[d] => Waiting(d)'
         /\ Taken(d) /\ snap'[d] = snap[d] => Taken(d)'
         /\ \A p \in Descs : Sent(d, p) => Sent(d, p)'
<1> USE DEF Same, EngineHasNone, Loaded
<1>1. Finished(d) => Finished(d)'
  BY DEF Finished
<1>2. Waiting(d) /\ num_pending'[d] = num_pending[d] => Waiting(d)'
  BY DEF Waiting
<1>3. Taken(d) /\ snap'[d] = snap[d] => Taken(d)'
  BY DEF Taken
<1>4. \A p \in Descs : Sent(d, p) => Sent(d, p)'
  BY <1>1 DEF Sent, Fetching, Performing
<1> QED BY <1>1, <1>2, <1>3, <1>4

\* With nothing in the engine, transfers that were sent are performed.
LEMMA IdleFinished ==
  ASSUME TypeOK, NEW d \in Dirs, NEW p \in Descs, Sent(d, p), EngineHasNone(d)
  PROVE  Finished(d)
<1>1. ~Fetching(d, p)
  BY DEF Fetching, EngineHasNone
<1>2. ~Performing(d, p)
  BY DEF Performing, EngineHasNone, TypeOK
<1> QED BY <1>1, <1>2 DEF Sent

LEMMA FetchSent ==
  ASSUME TypeOK, NEW d \in Dirs, NEW p \in Descs, Fetch(d), Sent(d, p)
  PROVE  Sent(d, p)' /\ fifo' \in [Dirs -> Seq(Items)]
<1>1. Fetching(d, p) /\ status[d][p] = 0
  <2>1. jobs[d] # <<>>
    BY DEF Fetch
  <2> QED BY <2>1 DEF Sent, Performing, Finished, EngineHasNone
<1>2. jobs[d] = <<p>> /\ Head(jobs[d]) = p /\ Tail(jobs[d]) = <<>> /\ p \in Nat
  BY <1>1 DEF Fetching, Descs
<1>3. Cardinality(0 .. p + 1) = p + 2
  BY <1>2, FS_Interval
<1> DEFINE got == [i \in 1 .. p + 2 |-> table[d][i - 1]]
<1>4. got \in Seq(Items) /\ Len(got) = p + 2
  <2>1. \A i \in 1 .. p + 2 : i - 1 \in Slots
    BY <1>2 DEF Slots, Descs
  <2>2. \A i \in 1 .. p + 2 : table[d][i - 1] \in Items
    BY <2>1 DEF TypeOK
  <2> QED BY <1>2, <2>2
<1>5. fifo'[d] = got /\ fifo' \in [Dirs -> Seq(Items)]
  <2>1. fifo' = [fifo EXCEPT ![d] = @ \o got]
    BY <1>2, <1>3 DEF Fetch
  <2>2. fifo[d] = <<>>
    BY <1>1 DEF Fetching
  <2>3. <<>> \o got = got
    BY <1>4
  <2> HIDE DEF got
  <2> QED BY <1>4, <2>1, <2>2, <2>3 DEF TypeOK
<1>6. jobs'[d] = <<>> /\ todo'[d] = p + 1 /\ status'[d] = status[d]
  BY <1>1, <1>2 DEF Fetch, Fetching, TypeOK
<1>7. Performing(d, p)'
  <2>1. \A i \in 1 .. p + 1 : got[i] = Transfer("new")
    <3> TAKE i \in 1 .. p + 1
    <3>1. i - 1 \in 0 .. (p + 1) - 1 /\ i \in 1 .. p + 2
      BY <1>2
    <3> QED BY <1>1, <3>1 DEF Fetching, Loaded
  <2>2. got[p + 2] = StatusItem(p)
    BY <1>1, <1>2 DEF Fetching
  <2>3. Len(got) = (p + 1) + 1 /\ (p + 1) + 1 = p + 2
    BY <1>2, <1>4
  <2> HIDE DEF got
  <2> QED BY <1>5, <1>6, <2>1, <2>2, <2>3 DEF Performing
<1> QED BY <1>1, <1>5, <1>6, <1>7 DEF Sent

LEMMA PerformSent ==
  ASSUME TypeOK, NEW d \in Dirs, NEW p \in Descs, Perform(d), Sent(d, p)
  PROVE  Sent(d, p)' /\ redone' = redone /\ todo' \in [Dirs -> Nat]
<1>1. Performing(d, p) /\ status[d][p] = 0
  BY DEF Perform, Sent, Fetching, Finished, EngineHasNone
<1>2. fifo[d] \in Seq(Items) /\ todo[d] \in Nat /\ Len(fifo[d]) = todo[d] + 1
  BY <1>1 DEF Performing, TypeOK
<1>3. Head(fifo[d]) = fifo[d][1] /\ Tail(fifo[d]) \in Seq(Items)
      /\ Len(Tail(fifo[d])) = todo[d]
      /\ \A i \in 1 .. todo[d] : Tail(fifo[d])[i] = fifo[d][i + 1]
  BY <1>2
<1>4. /\ fifo'[d] = Tail(fifo[d]) /\ jobs'[d] = <<>>
      /\ todo' = [todo EXCEPT ![d] =
                    IF Head(fifo[d]).kind = "new" THEN @ - 1 ELSE @]
      /\ redone' = (redone \/ Head(fifo[d]).kind = "old")
      /\ status' = IF Head(fifo[d]).kind = "status"
                   THEN [status EXCEPT ![d][Head(fifo[d]).at] = 1] ELSE status
  BY <1>1 DEF Perform, Performing, TypeOK
<1>5. CASE todo[d] = 0
  <2>1. Head(fifo[d]) = StatusItem(p)
    BY <1>1, <1>3, <1>5 DEF Performing
  <2>2. redone' = redone /\ todo' = todo
    BY <1>4, <2>1 DEF StatusItem, TypeOK
  <2>3. fifo'[d] = <<>>
    BY <1>3, <1>4, <1>5, EmptySeq
  <2> QED BY <1>4, <1>5, <2>2, <2>3 DEF Sent, Finished, EngineHasNone, TypeOK
<1>6. CASE todo[d] # 0
  <2>1. Head(fifo[d]) = Transfer("new")
    BY <1>1, <1>2, <1>3, <1>6 DEF Performing
  <2>2. redone' = redone /\ status' = status /\ todo'[d] = todo[d] - 1
        /\ todo' \in [Dirs -> Nat]
    BY <1>2, <1>4, <1>6, <2>1 DEF Transfer, TypeOK
  <2>3. Performing(d, p)'
    <3>1. Len(fifo'[d]) = todo'[d] + 1
      BY <1>2, <1>3, <1>4, <2>2
    <3> DEFINE n == todo[d]
    <3>a. n \in Nat /\ n # 0 /\ todo'[d] = n - 1
      BY <1>2, <1>6, <2>2
    <3>b. \A i \in 1 .. n : fifo'[d][i] = fifo[d][i + 1]
      BY <1>3, <1>4
    <3>c. /\ \A i \in 1 .. n : fifo[d][i] = Transfer("new")
          /\ fifo[d][n + 1] = StatusItem(p)
      BY <1>1 DEF Performing
    <3> HIDE DEF n
    <3>2. \A i \in 1 .. todo'[d] : fifo'[d][i] = Transfer("new")
      <4> SUFFICES ASSUME NEW i \in 1 .. n - 1 PROVE fifo'[d][i] = Transfer("new")
        BY <3>a
      <4>1. i \in 1 .. n /\ i + 1 \in 1 .. n
        BY <3>a
      <4> QED BY <3>b, <3>c, <4>1
    <3>3. fifo'[d][todo'[d] + 1] = StatusItem(p)
      <4>1. todo'[d] + 1 = n /\ n \in 1 .. n
        BY <3>a
      <4> QED BY <3>b, <3>c, <4>1
    <3> QED BY <1>4, <3>1, <3>2, <3>3 DEF Performing
  <2> QED BY <1>1, <2>2, <2>3 DEF Sent
<1> QED BY <1>5, <1>6

-----------------------------------------------------------------------------
(* Type correctness, given what DmaInv says of the engine.                  *)

LEMMA DmaInit ==
  ASSUME Discipline
  PROVE  Init => DmaInv
<1> SUFFICES ASSUME Init PROVE DmaInv
  OBVIOUS
<1>1. TypeOK
  <2>1. Last \in Descs /\ NoSnap \in Snaps /\ Transfer("old") \in Items
    BY DEF Last, Descs, NoSnap, Snaps, Transfer, Items
  <2>2. /\ num_pending \in [Dirs -> 0 .. MaxDescs] /\ last_ptr \in [Dirs -> Descs]
        /\ last_ptr_wrap \in [Dirs -> BOOLEAN] /\ snap \in [Dirs -> Snaps]
        /\ todo \in [Dirs -> Nat] /\ status \in [Dirs -> [Descs -> 0 .. 1]]
    BY <2>1 DEF Init
  <2>3. /\ table \in [Dirs -> [Slots -> Items]]
        /\ jobs \in [Dirs -> Seq(Descs)] /\ fifo \in [Dirs -> Seq(Items)]
    BY <2>1 DEF Init
  <2> QED BY <2>2, <2>3 DEF Init, TypeOK, PCs
<1>2. NeverWraps
  BY DEF Init, NeverWraps, NoSnap
<1>3. IdleOK
  BY DEF Init, IdleOK, Waiting, EngineHasNone, Loaded
<1> QED BY <1>1, <1>2, <1>3 DEF DmaInv, Init

\* When a caller may queue or send, all that was accepted is pending.
LEMMA CallerWaiting ==
  ASSUME Discipline, DmaInv, MayCall, NEW d \in Dirs
  PROVE  Waiting(d)
<1>1. pc = "idle" /\ TypeOK /\ IdleOK /\ EngineHasNone(d)
  BY DEF MayCall, DmaInv, EngineIdle, EngineHasNone
<1>2. ASSUME num_pending[d] = 0, NEW p \in Descs, Sent(d, p) PROVE Waiting(d)
  <2>1. Finished(d)
    BY <1>1, <1>2, IdleFinished
  <2> QED BY <1>2, <2>1 DEF Finished, Waiting, Loaded
<1> QED BY <1>1, <1>2 DEF IdleOK

LEMMA QueueStep ==
  ASSUME Discipline, DmaInv, NEW d \in Dirs, dma_queue(d)
  PROVE  DmaInv'
<1> USE DEF sendVars, engineVars
<1>0. /\ TypeOK /\ pc = "idle" /\ IdleOK /\ NeverWraps /\ pc' = "idle"
      /\ MayCall /\ ~redone /\ snap' = snap
  BY DEF DmaInv, dma_queue, MayCall
<1>1. \A e \in Dirs : Waiting(e)
  BY <1>0, CallerWaiting
<1> DEFINE n == num_pending[d]
<1>2. n \in 0 .. MaxDescs - 1 /\ n \in Nat /\ n + 1 \in 0 .. MaxDescs
  BY <1>0 DEF dma_queue, Room, TypeOK
<1>3. (IF last_ptr[d] >= Last THEN 0 ELSE last_ptr[d] + 1) = n
      /\ ~(last_ptr[d] >= Last /\ n > 0)
  BY <1>0, <1>2 DEF IdleOK, Last
<1>4. /\ table' = [table EXCEPT ![d][n] = Transfer("new")]
      /\ last_ptr' = [last_ptr EXCEPT ![d] = n]
      /\ last_ptr_wrap' = [last_ptr_wrap EXCEPT ![d] = @ \/ FALSE]
      /\ num_pending' = [num_pending EXCEPT ![d] = n + 1]
      /\ todo' = [todo EXCEPT ![d] = todo[d] + 1]
  BY <1>3 DEF dma_queue
<1> HIDE DEF n
<1>5. TypeOK'
  <2>1. n \in Descs /\ n \in Slots /\ Transfer("new") \in Items
    BY <1>2 DEF Descs, Slots, Transfer, Items
  <2>2. table' \in [Dirs -> [Slots -> Items]]
    BY <1>0, <1>4, <2>1 DEF TypeOK
  <2>3. last_ptr' \in [Dirs -> Descs] /\ num_pending' \in [Dirs -> 0 .. MaxDescs]
    BY <1>0, <1>2, <1>4, <2>1 DEF TypeOK
  <2>4. last_ptr_wrap' \in [Dirs -> BOOLEAN] /\ todo' \in [Dirs -> Nat]
    BY <1>0, <1>4 DEF TypeOK
  <2> QED BY <1>0, <2>2, <2>3, <2>4 DEF TypeOK, dma_queue
<1>6. NeverWraps'
  BY <1>0, <1>4 DEF NeverWraps, TypeOK
<1>7. \A e \in Dirs : Waiting(e)'
  <2>1. Waiting(d)'
    <3>1. todo[d] = n /\ todo'[d] = n + 1 /\ num_pending'[d] = n + 1
      BY <1>0, <1>1, <1>4 DEF Waiting, n, TypeOK
    <3>2. EngineHasNone(d)'
      BY <1>1 DEF Waiting, EngineHasNone, dma_queue
    <3>3. \A i \in 0 .. (n + 1) - 1 : table'[d][i] = Transfer("new")
      <4> TAKE i \in 0 .. (n + 1) - 1
      <4>1. i \in Slots /\ (i = n \/ i \in 0 .. n - 1)
        BY <1>2 DEF Slots
      <4>2. i # n => table[d][i] = Transfer("new")
        BY <1>1, <3>1, <4>1 DEF Waiting, Loaded
      <4> QED BY <1>0, <1>4, <4>1, <4>2 DEF TypeOK
    <3> QED BY <3>1, <3>2, <3>3 DEF Waiting, Loaded
  <2>2. ASSUME NEW e \in Dirs \ {d} PROVE Waiting(e)'
    <3>1. Same(e) /\ num_pending'[e] = num_pending[e]
      BY <1>0, <1>4 DEF Same, dma_queue, TypeOK
    <3> QED BY <1>1, <3>1, SameKeeps
  <2> QED BY <2>1, <2>2
<1>8. \A e \in Dirs :
        last_ptr'[e] = IF num_pending'[e] = 0 THEN Last ELSE num_pending'[e] - 1
  BY <1>0, <1>2, <1>4 DEF IdleOK, TypeOK
<1> QED BY <1>0, <1>5, <1>6, <1>7, <1>8 DEF DmaInv, IdleOK, dma_queue

LEMMA SendStarts ==
  ASSUME Discipline, DmaInv, NEW dirs \in SUBSET Dirs, dma_send(dirs)
  PROVE  DmaInv'
<1> USE DEF engineVars
<1>0. /\ TypeOK /\ pc = "idle" /\ IdleOK /\ NeverWraps /\ MayCall /\ ~redone
      /\ dirs = {d \in Dirs : num_pending[d] > 0}
  BY DEF DmaInv, dma_send, MayCall, MaySend
<1>1. \A d \in Dirs : Waiting(d) /\ Same(d)
  BY <1>0, CallerWaiting DEF dma_send, Same
<1>2. \A d \in Dirs : num_pending'[d] = 0 /\ ~last_ptr_wrap'[d]
  BY <1>0 DEF dma_send, NeverWraps, TypeOK
<1>3. \A d \in Dirs : snap'[d].lptr = last_ptr[d] /\ snap'[d].wrap = last_ptr_wrap[d]
  BY DEF dma_send
<1>4. TypeOK'
  <2>1. /\ snap' \in [Dirs -> Snaps] /\ last_ptr_wrap' \in [Dirs -> BOOLEAN]
        /\ num_pending' \in [Dirs -> 0 .. MaxDescs]
    BY <1>0 DEF dma_send, Snaps, TypeOK
  <2>2. pc' \in PCs /\ send' \subseteq Dirs
    BY <1>0 DEF dma_send, TypeOK, PCs
  <2> QED BY <1>0, <2>1, <2>2 DEF TypeOK, dma_send
<1>5. NeverWraps'
  BY <1>0, <1>2, <1>3 DEF NeverWraps
<1>6. CASE dirs = {}
  <2>1. pc' = "idle" /\ \A d \in Dirs : num_pending[d] = 0
    BY <1>0, <1>6 DEF dma_send, TypeOK
  <2>2. \A d \in Dirs : Waiting(d)'
    BY <1>1, <1>2, <2>1, SameKeeps
  <2>3. \A d \in Dirs : last_ptr'[d] = Last
    BY <1>0, <2>1 DEF dma_send, IdleOK
  <2>4. IdleOK'
    BY <1>2, <2>2, <2>3 DEF IdleOK
  <2> QED BY <1>0, <1>4, <1>5, <2>1, <2>4 DEF DmaInv, dma_send
<1>7. CASE dirs # {}
  <2>1. pc' = "start_rd" /\ send' = dirs
    BY <1>0, <1>7 DEF dma_send
  <2>2. ASSUME NEW d \in Dirs PROVE Before(d)'
    <3>1. CASE d \in dirs
      <4>1. num_pending[d] \in Nat /\ num_pending[d] > 0
        BY <1>0, <3>1 DEF TypeOK
      <4>2. snap'[d].lptr + 1 = num_pending[d]
        BY <1>0, <1>3, <4>1 DEF IdleOK
      <4>3. Taken(d)'
        BY <1>1, <4>2 DEF Waiting, Taken, Same, EngineHasNone, Loaded
      <4> QED BY <2>1, <3>1, <4>3 DEF Before
    <3>2. CASE d \notin dirs
      <4>1. num_pending[d] = 0
        BY <1>0, <3>2 DEF TypeOK
      <4>2. Finished(d)'
        BY <1>1, <4>1 DEF Waiting, Finished, Same, EngineHasNone
      <4> QED BY <2>1, <3>2, <4>2 DEF Before
    <3> QED BY <3>1, <3>2
  <2>3. SendOK'
    BY <1>2, <1>7, <2>1, <2>2 DEF SendOK, Dirs
  <2> QED BY <1>0, <1>4, <1>5, <2>1, <2>3 DEF DmaInv, dma_send
<1> QED BY <1>6, <1>7

\* A direction that dma_start tells the engine of.
LEMMA StartSent ==
  ASSUME DmaInv, NEW d \in Dirs, dma_start(d), d \in send, Taken(d)
  PROVE  Sent(d, snap[d].lptr)' /\ TypeOK' /\ Restarted'
<1>0. TypeOK /\ ~snap[d].wrap
  BY DEF DmaInv, NeverWraps
<1> DEFINE p == snap[d].lptr
<1>1. p \in Descs /\ p \in Nat /\ p + 1 \in Slots /\ snap'[d].lptr = p
  BY <1>0 DEF TypeOK, Snaps, Descs, Slots, dma_start
<1>2. /\ status' = [status EXCEPT ![d] = [status[d] EXCEPT ![p] = 0]]
      /\ table' = [table EXCEPT ![d][p + 1] = StatusItem(p)]
      /\ jobs' = [jobs EXCEPT ![d] = Append(jobs[d], p)]
      /\ last_ptr' = [x \in Dirs |-> Last]
      /\ fifo' = fifo /\ todo' = todo
  BY <1>0 DEF dma_start, Cleared, Restart, StatusItem
<1> HIDE DEF p
<1>3. TypeOK'
  <2>1. StatusItem(p) \in Items /\ Last \in Descs
    BY <1>1 DEF StatusItem, Items, Last, Descs
  <2>2. status' \in [Dirs -> [Descs -> 0 .. 1]] /\ last_ptr' \in [Dirs -> Descs]
    BY <1>0, <1>1, <1>2, <2>1 DEF TypeOK
  <2>3. table' \in [Dirs -> [Slots -> Items]]
    BY <1>0, <1>1, <1>2, <2>1 DEF TypeOK
  <2>4. jobs' \in [Dirs -> Seq(Descs)]
    <3>1. Append(jobs[d], p) \in Seq(Descs)
      BY <1>0, <1>1 DEF TypeOK
    <3> QED BY <1>0, <1>2, <3>1 DEF TypeOK
  <2>5. pc' \in PCs
    BY DEF dma_start, PCs
  <2> QED BY <1>0, <1>2, <2>2, <2>3, <2>4, <2>5 DEF TypeOK, dma_start
<1>4. Restarted'
  BY <1>2 DEF Restarted
<1>5. status'[d][p] = 0
  BY <1>0, <1>1, <1>2 DEF TypeOK
<1>6. /\ jobs'[d] = <<p>> /\ fifo'[d] = <<>> /\ todo'[d] = p + 1
      /\ table'[d][p + 1] = StatusItem(p)
  BY <1>0, <1>1, <1>2 DEF Taken, EngineHasNone, TypeOK, p
<1>7. \A i \in 0 .. (p + 1) - 1 : table'[d][i] = Transfer("new")
  <2> TAKE i \in 0 .. (p + 1) - 1
  <2>1. i \in Slots /\ i # p + 1
    BY <1>1 DEF Slots, Descs
  <2>2. table[d][i] = Transfer("new")
    BY DEF Taken, Loaded, p
  <2> QED BY <1>0, <1>2, <2>1, <2>2 DEF TypeOK
<1>8. Fetching(d, snap[d].lptr)'
  BY <1>1, <1>6, <1>7 DEF Fetching, Loaded
<1>9. status'[d][snap'[d].lptr] = 0
  BY <1>1, <1>5
<1> QED BY <1>3, <1>4, <1>8, <1>9 DEF Sent

LEMMA StartStep ==
  ASSUME DmaInv, NEW d \in Dirs, dma_start(d)
  PROVE  DmaInv'
<1> DEFINE o == IF d = "rd" THEN "wr" ELSE "rd"
<1>0. /\ TypeOK /\ SendOK /\ NeverWraps /\ ~redone /\ o \in Dirs
      /\ send' = send /\ snap' = snap /\ num_pending' = num_pending
      /\ redone' = redone /\ last_ptr_wrap' = last_ptr_wrap
      /\ pc # "idle" /\ pc' # "idle"
  BY DEF DmaInv, dma_start, Dirs
<1>1. Before(d)
  BY <1>0 DEF dma_start, SendOK, Dirs
<1>2. Same(o)
  BY <1>0 DEF Same, dma_start, TypeOK, Dirs
<1>3. /\ Before(o) => Before(o)'
      /\ After(o) => After(o)'
  <2>1. snap[o].lptr \in Descs /\ snap'[o].lptr = snap[o].lptr
    BY <1>0 DEF TypeOK, Snaps
  <2>2. Sent(o, snap[o].lptr) => Sent(o, snap[o].lptr)'
    BY <1>2, <2>1, SameKeeps DEF Sent, Fetching, Performing, Finished, EngineHasNone,
       Loaded, Same
  <2> QED BY <1>0, <1>2, <2>2, SameKeeps DEF Before, After
<1>4. After(d)' /\ TypeOK' /\ (d \in send => Restarted')
      /\ (d \notin send => last_ptr' = last_ptr)
  <2>1. CASE d \in send
    BY <1>0, <1>1, <2>1, StartSent DEF Before, After
  <2>2. CASE d \notin send
    <3>1. Same(d) /\ last_ptr' = last_ptr
      BY <2>2 DEF dma_start, Same
    <3>2. TypeOK'
      BY <1>0, <2>2 DEF TypeOK, dma_start, PCs
    <3> QED BY <1>0, <1>1, <2>2, <3>1, <3>2, SameKeeps DEF Before, After
  <2> QED BY <2>1, <2>2
<1>5. NeverWraps'
  BY <1>0 DEF NeverWraps
<1>6. CASE d = "rd"
  <2>1. pc = "start_rd" /\ pc' = "start_wr" /\ Before("wr")
    BY <1>0, <1>6 DEF dma_start, SendOK
  <2>2. SendOK'
    BY <1>0, <1>3, <1>4, <1>6, <2>1 DEF SendOK
  <2> QED BY <1>0, <1>4, <1>5, <2>2 DEF DmaInv
<1>7. CASE d = "wr"
  <2>1. pc = "start_wr" /\ pc' = "poll" /\ After("rd") /\ ("rd" \in send => Restarted)
    BY <1>0, <1>7 DEF dma_start, SendOK
  <2>2. Restarted'
    <3>1. CASE "wr" \in send
      BY <1>4, <1>7, <3>1
    <3>2. CASE "wr" \notin send
      <4>1. "rd" \in send
        BY <1>0, <3>2 DEF SendOK, TypeOK, Dirs
      <4> QED BY <1>4, <1>7, <2>1, <3>2, <4>1 DEF Restarted
    <3> QED BY <3>1, <3>2
  <2>3. SendOK'
    BY <1>0, <1>3, <1>4, <1>7, <2>1, <2>2 DEF SendOK
  <2> QED BY <1>0, <1>4, <1>5, <2>3 DEF DmaInv
<1> QED BY <1>6, <1>7 DEF Dirs

\* Polling, and the return: the engine is left alone.
LEMMA PollStep ==
  ASSUME DmaInv, PollDone \/ PollTimeout
  PROVE  DmaInv'
<1> USE DEF infoVars, engineVars
<1>0. /\ TypeOK /\ SendOK /\ NeverWraps /\ ~redone /\ pc = "poll"
      /\ pc' \in {"ok", "timeout"} /\ (pc' = "ok" => Complete)
      /\ UNCHANGED <<num_pending, last_ptr, last_ptr_wrap, table, status, send, snap,
                     jobs, fifo, todo, redone>>
  BY DEF DmaInv, PollDone, PollTimeout
<1>1. TypeOK' /\ NeverWraps'
  BY <1>0 DEF TypeOK, PCs, NeverWraps
<1>2. \A d \in Dirs : snap[d].lptr \in Descs /\ Same(d)
  BY <1>0 DEF TypeOK, Snaps, Same
<1>3. \A d \in Dirs : After(d) => After(d)'
  <2> SUFFICES ASSUME NEW d \in Dirs, After(d) PROVE After(d)'
    OBVIOUS
  <2>1. Sent(d, snap[d].lptr) => Sent(d, snap[d].lptr)'
    BY <1>0 DEF Sent, Fetching, Performing, Finished, EngineHasNone, Loaded
  <2> QED BY <1>0, <1>2, <2>1, SameKeeps DEF After
<1>4. pc' = "ok" => \A d \in send : Finished(d)'
  <2> SUFFICES ASSUME Complete, NEW d \in send PROVE Finished(d)'
    BY <1>0
  <2>1. d \in Dirs /\ After(d)
    BY <1>0 DEF SendOK, TypeOK, Dirs
  <2>2. status[d][snap[d].lptr] = 1
    BY DEF Complete
  <2>3. Finished(d)
    BY <2>1, <2>2 DEF After, Sent
  <2> QED BY <1>2, <2>1, <2>3, SameKeeps
<1>5. SendOK'
  BY <1>0, <1>3, <1>4 DEF SendOK, Restarted, Dirs
<1> QED BY <1>0, <1>1, <1>5 DEF DmaInv

LEMMA ReturnStep ==
  ASSUME DmaInv, Return
  PROVE  DmaInv'
<1> USE DEF infoVars, engineVars
<1>0. /\ TypeOK /\ SendOK /\ NeverWraps /\ ~redone /\ pc \in {"ok", "timeout"}
      /\ pc' = "idle" /\ send' = {} /\ snap' = [d \in Dirs |-> NoSnap]
      /\ UNCHANGED <<num_pending, last_ptr, last_ptr_wrap, table, status, jobs, fifo,
                     todo, redone>>
  BY DEF DmaInv, Return
<1>1. NoSnap \in Snaps /\ ~NoSnap.wrap
  BY DEF NoSnap, Snaps, Last, Descs
<1>2. TypeOK' /\ NeverWraps'
  BY <1>0, <1>1 DEF TypeOK, PCs, NeverWraps
<1>3. ASSUME NEW d \in Dirs PROVE \E p \in Descs : Sent(d, p)'
  <2>1. snap[d].lptr \in Descs /\ Same(d) /\ After(d)
    BY <1>0 DEF TypeOK, Snaps, Same, SendOK, Dirs
  <2>2. Sent(d, snap[d].lptr)
    BY <2>1 DEF After, Sent
  <2> QED BY <2>1, <2>2, SameKeeps
<1>4. IdleOK'
  BY <1>0, <1>3 DEF IdleOK, SendOK, Restarted
<1> QED BY <1>0, <1>2, <1>4 DEF DmaInv

\* A step of the engine in direction d: it can only find transfers that were sent.
LEMMA EngineStep ==
  ASSUME DmaInv, NEW d \in Dirs, Fetch(d) \/ Perform(d)
  PROVE  DmaInv'
<1> USE DEF infoVars, sendVars
<1>0. /\ TypeOK /\ NeverWraps /\ ~redone /\ ~EngineHasNone(d)
      /\ UNCHANGED <<num_pending, last_ptr, last_ptr_wrap, pc, send, snap>>
  BY DEF DmaInv, Fetch, Perform, EngineHasNone
<1>1. /\ ~Waiting(d) /\ ~Finished(d) /\ ~Taken(d)
  BY <1>0 DEF Waiting, Finished, Taken
<1>2. ASSUME NEW p \in Descs, Sent(d, p) PROVE Sent(d, p)' /\ redone' = redone /\ TypeOK'
  <2>1. CASE Fetch(d)
    <3>1. Sent(d, p)' /\ fifo' \in [Dirs -> Seq(Items)]
      BY <1>0, <1>2, <2>1, FetchSent
    <3>2. table' \in [Dirs -> [Slots -> Items]]
      <4>1. Transfer("old") \in Items
        BY DEF Transfer, Items, Descs
      <4> QED BY <1>0, <2>1, <4>1 DEF Fetch, TypeOK
    <3>3. jobs' \in [Dirs -> Seq(Descs)]
      <4>1. Tail(jobs[d]) \in Seq(Descs)
        BY <1>0, <2>1 DEF Fetch, TypeOK
      <4> QED BY <1>0, <2>1, <4>1 DEF Fetch, TypeOK
    <3> QED BY <1>0, <2>1, <3>1, <3>2, <3>3 DEF Fetch, TypeOK
  <2>2. CASE Perform(d)
    <3>1. Sent(d, p)' /\ redone' = redone /\ todo' \in [Dirs -> Nat]
      BY <1>0, <1>2, <2>2, PerformSent
    <3>2. fifo[d] \in Seq(Items) /\ fifo[d] # <<>>
      BY <1>0, <2>2 DEF Perform, TypeOK
    <3>3. Head(fifo[d]) \in Items /\ Tail(fifo[d]) \in Seq(Items)
      BY <3>2
    <3>4. fifo' \in [Dirs -> Seq(Items)]
      BY <1>0, <2>2, <3>3 DEF Perform, TypeOK
    <3>5. status' \in [Dirs -> [Descs -> 0 .. 1]]
      BY <1>0, <2>2, <3>3 DEF Perform, TypeOK, Items
    <3> QED BY <1>0, <2>2, <3>1, <3>4, <3>5 DEF Perform, TypeOK
  <2> QED BY <2>1, <2>2
<1>3. \A e \in Dirs \ {d} : Same(e)
  BY <1>0 DEF Same, Fetch, Perform, TypeOK
<1>4. NeverWraps'
  BY <1>0 DEF NeverWraps
<1>5. CASE pc = "idle"
  <2>1. IdleOK /\ \A e \in Dirs : num_pending[e] = 0 /\ \E p \in Descs : Sent(e, p)
    BY <1>1, <1>5 DEF DmaInv, IdleOK
  <2>2. TypeOK' /\ redone' = redone
    BY <1>2, <2>1
  <2>3. ASSUME NEW e \in Dirs PROVE \E p \in Descs : Sent(e, p)'
    BY <1>2, <1>3, <2>1, SameKeeps
  <2>4. IdleOK'
    BY <1>0, <2>1, <2>3 DEF IdleOK
  <2> QED BY <1>0, <1>4, <1>5, <2>2, <2>4 DEF DmaInv
<1>6. CASE pc # "idle"
  <2>0. SendOK
    BY <1>6 DEF DmaInv
  <2>1. \A e \in Dirs : snap[e].lptr \in Descs /\ snap'[e].lptr = snap[e].lptr
    BY <1>0 DEF TypeOK, Snaps
  <2>2. d \in send /\ After(d)
    BY <1>0, <1>1, <1>6, <2>0 DEF SendOK, Before, After, Dirs, TypeOK, PCs
  <2>3. Sent(d, snap[d].lptr)
    BY <2>2 DEF After
  <2>4. TypeOK' /\ redone' = redone
    BY <1>2, <2>1, <2>3
  <2>5. ASSUME NEW e \in Dirs, NEW p \in Descs, Sent(e, p) PROVE Sent(e, p)'
    BY <1>2, <1>3, <2>5, SameKeeps
  <2>6. ASSUME NEW e \in Dirs, After(e) PROVE After(e)'
    <3>1. CASE e \in send
      <4>1. PICK p \in Descs : p = snap[e].lptr
        BY <2>1
      <4>2. Sent(e, p)'
        BY <2>5, <2>6, <3>1, <4>1 DEF After
      <4>3. Sent(e, snap[e].lptr)'
        BY <2>1, <4>1, <4>2 DEF Sent, Fetching, Performing, Loaded
      <4> QED BY <1>0, <3>1, <4>3 DEF After
    <3>2. CASE e \notin send
      BY <1>0, <1>3, <2>2, <2>6, <3>2, SameKeeps DEF After
    <3> QED BY <3>1, <3>2
  <2>7. ASSUME NEW e \in Dirs, Before(e) PROVE Before(e)' /\ e # d
    BY <1>0, <1>1, <1>3, <2>7, SameKeeps DEF Before
  <2>8. ASSUME NEW e \in Dirs, Finished(e) PROVE Finished(e)'
    BY <1>1, <1>3, <2>8, SameKeeps
  <2>9. SendOK'
    BY <1>0, <2>0, <2>6, <2>7, <2>8 DEF SendOK, Dirs, Restarted, TypeOK
  <2> QED BY <1>0, <1>4, <1>6, <2>4, <2>9 DEF DmaInv
<1> QED BY <1>5, <1>6

\* Every descriptor of the driver and the engine is accounted for at every moment,
\* for tables of every length, when callers keep to the discipline.
THEOREM DmaInvariant ==
  ASSUME Discipline
  PROVE  Spec => []DmaInv
<1>1. DmaInv /\ [Next]_vars => DmaInv'
  <2> SUFFICES ASSUME DmaInv, [Next]_vars PROVE DmaInv'
    OBVIOUS
  <2>1. CASE UNCHANGED vars
    <3> USE <2>1 DEF vars, infoVars, sendVars, engineVars
    <3>1. TypeOK => TypeOK'
      BY DEF TypeOK
    <3>2. NeverWraps => NeverWraps'
      BY DEF NeverWraps
    <3>3. /\ \A d \in Dirs : Waiting(d)' = Waiting(d) /\ Finished(d)' = Finished(d)
                             /\ Taken(d)' = Taken(d)
          /\ \A d \in Dirs : \A p : Sent(d, p)' = Sent(d, p)
      BY DEF Waiting, Finished, Taken, EngineHasNone, Loaded, Sent, Fetching, Performing
    <3>4. IdleOK => IdleOK'
      BY <3>3 DEF IdleOK
    <3>5. \A d \in Dirs : Before(d)' = Before(d) /\ After(d)' = After(d)
      BY <3>3 DEF Before, After, Sent, Fetching, Performing, Finished, EngineHasNone,
                  Taken, Loaded
    <3>6. TypeOK /\ SendOK => SendOK'
      BY <3>3, <3>5 DEF SendOK, Restarted, TypeOK, Dirs
    <3> QED BY <3>1, <3>2, <3>4, <3>6 DEF DmaInv
  <2>2. CASE Next
    BY <2>2, QueueStep, SendStarts, StartStep, PollStep, ReturnStep, EngineStep
    DEF Next, SendStep
  <2> QED BY <2>1, <2>2
<1> QED BY <1>1, DmaInit, PTL DEF Spec

\* The types of the driver's bookkeeping, of the tables and of the engine.
THEOREM TypeCorrect ==
  ASSUME Discipline
  PROVE  Spec => []TypeOK
<1>1. DmaInv => TypeOK
  BY DEF DmaInv
<1> QED BY <1>1, DmaInvariant, PTL

\* "Send all queued DMA transfers and wait for their completions"
\* (intel_fpga_pcie_api.hpp:311): when dma_send returns success, every transfer
\* accepted in its directions has been performed, whatever status words earlier
\* sends and late completions left behind.
THEOREM SendSucceedsComplete ==
  ASSUME Discipline
  PROVE  Spec => []SendCompletes
<1>1. DmaInv => SendCompletes
  BY DEF DmaInv, SendCompletes, SendOK, Finished
<1> QED BY <1>1, DmaInvariant, PTL

\* The engine performs no descriptor that holds nothing new, also after a send
\* that timed out and completes late.
THEOREM NothingRepeated ==
  ASSUME Discipline
  PROVE  Spec => []PerformedOnce
<1>1. DmaInv => PerformedOnce
  BY DEF DmaInv, PerformedOnce
<1> QED BY <1>1, DmaInvariant, PTL
=============================================================================
