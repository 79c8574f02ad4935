------------------------------ MODULE KernelDma ------------------------------
(***************************************************************************)
(* DMA through descriptor tables, version 4 of the DMA engine              *)
(* (kernel/linux/intel_fpga_pcie_dma.c): per direction transfers are       *)
(* queued in a table, then sent together and waited for, with a timeout.   *)
(* Neither call takes a lock: one thread makes them.  The engine of the    *)
(* FPGA is external: it fetches a table, performs its descriptors in order *)
(* and ends with the one that sets a status word.                          *)
(***************************************************************************)
EXTENDS Integers, Sequences, FiniteSets

CONSTANTS
  MaxDescs,     \* descriptors that can be queued, 128
  Discipline    \* TRUE: the caller sends exactly the directions in which it has
                \* queued something, and after a timeout waits for the engine

ASSUME DmaAssumption == MaxDescs \in Nat \ {0} /\ Discipline \in BOOLEAN

\* DMA_RD_IDX and DMA_WR_IDX.
Dirs == {"rd", "wr"}
Descs == 0 .. MaxDescs - 1
Last == MaxDescs - 1

VARIABLES
  num_pending, last_ptr, last_ptr_wrap,   \* dma_info, per direction
  table,      \* per direction: the descriptors; "new" until the engine fetches it
  status,     \* per direction: the status words
  pc,         \* where dma_send is
  send,       \* send_transfer: the directions being sent
  snap,       \* per direction: the last_ptr and last_ptr_wrap it has read
  jobs,       \* engine, per direction: tables it was told to fetch
  fifo,       \* engine, per direction: descriptors fetched
  todo,       \* history, per direction: transfers accepted and not performed
  redone      \* history: a descriptor was performed that held nothing new

infoVars == <<num_pending, last_ptr, last_ptr_wrap>>
sendVars == <<pc, send, snap>>
engineVars == <<jobs, fifo>>
vars == <<infoVars, table, status, sendVars, engineVars, todo, redone>>

\* A transfer, or what sets status word "at" (for writes two descriptors, the
\* first of which fetches the second).  One more than can be queued, of 130.
Items == [kind : {"new", "old", "status"}, at : Descs]
Slots == 0 .. MaxDescs
Transfer(kind) == [kind |-> kind, at |-> 0]
Snaps == [lptr : Descs, wrap : BOOLEAN]
NoSnap == [lptr |-> Last, wrap |-> FALSE]
PCs == {"idle", "start_rd", "start_wr", "poll", "ok", "timeout"}

TypeOK ==
  /\ num_pending \in [Dirs -> 0 .. MaxDescs] /\ last_ptr \in [Dirs -> Descs]
  /\ last_ptr_wrap \in [Dirs -> BOOLEAN]
  /\ table \in [Dirs -> [Slots -> Items]]
  /\ status \in [Dirs -> [Descs -> 0 .. 1]]
  /\ pc \in PCs /\ send \subseteq Dirs /\ snap \in [Dirs -> Snaps]
  /\ jobs \in [Dirs -> Seq(Descs)] /\ fifo \in [Dirs -> Seq(Items)]
  /\ todo \in [Dirs -> Nat] /\ redone \in BOOLEAN

\* intel_fpga_pcie_dma_probe, dma_init.
Init ==
  /\ num_pending = [d \in Dirs |-> 0] /\ last_ptr = [d \in Dirs |-> Last]
  /\ last_ptr_wrap = [d \in Dirs |-> FALSE]
  /\ table = [d \in Dirs |-> [i \in Slots |-> Transfer("old")]]
  /\ status = [d \in Dirs |-> [i \in Descs |-> 0]]
  /\ pc = "idle" /\ send = {} /\ snap = [d \in Dirs |-> NoSnap]
  /\ jobs = [d \in Dirs |-> <<>>] /\ fifo = [d \in Dirs |-> <<>>]
  /\ todo = [d \in Dirs |-> 0] /\ redone = FALSE

EngineIdle == \A d \in Dirs : jobs[d] = <<>> /\ fifo[d] = <<>>

\* The caller's discipline, outside of a call.
MayCall == pc = "idle" /\ (Discipline => EngineIdle)
MaySend(dirs) == Discipline => dirs = {d \in Dirs : num_pending[d] > 0}

-----------------------------------------------------------------------------
(* intel_fpga_pcie_dma_queue.                                               *)

\* Else EBUSY; a length or an address that is not valid changes nothing either.
Room(d) == num_pending[d] # MaxDescs

dma_queue(d) ==
  /\ MayCall /\ Room(d)
  /\ LET lptr == IF last_ptr[d] >= Last THEN 0 ELSE last_ptr[d] + 1
     IN  /\ table' = [table EXCEPT ![d][lptr] = Transfer("new")]
         /\ last_ptr' = [last_ptr EXCEPT ![d] = lptr]
  /\ last_ptr_wrap' = [last_ptr_wrap EXCEPT ![d] =
                         @ \/ (last_ptr[d] >= Last /\ num_pending[d] > 0)]
  /\ num_pending' = [num_pending EXCEPT ![d] = @ + 1]
  /\ todo' = [todo EXCEPT ![d] = @ + 1]
  /\ UNCHANGED <<status, sendVars, engineVars, redone>>

-----------------------------------------------------------------------------
(* intel_fpga_pcie_dma_send.                                                *)

\* Everything pending is taken over, also when the call then fails: nothing to
\* send is EINVAL, nothing pending ENODATA.
dma_send(dirs) ==
  /\ MayCall /\ MaySend(dirs)
  /\ snap' = [d \in Dirs |-> [lptr |-> last_ptr[d], wrap |-> last_ptr_wrap[d]]]
  /\ last_ptr_wrap' = [d \in Dirs |-> last_ptr_wrap[d] /\ d \notin dirs]
  /\ num_pending' = [d \in Dirs |-> IF d \in dirs THEN 0 ELSE num_pending[d]]
  /\ IF \E d \in dirs : num_pending[d] > 0
     THEN pc' = "start_rd" /\ send' = dirs
     ELSE UNCHANGED <<pc, send>>
  /\ UNCHANGED <<last_ptr, table, status, engineVars, todo, redone>>

\* Mutant: the status word of an earlier transfer is left set.
ClearedNot(words, lptr) == words

\* The done flag is cleared before the engine is told.
Cleared(words, lptr) == [words EXCEPT ![lptr] = 0]

\* Mutant: the next transfers are queued behind the ones sent.
RestartNot(lptr) == lptr

\* The next transfers are queued from the first descriptor on.
Restart(lptr) == Last

\* dma_start.  A table that has wrapped is an error, and is not started.  Both
\* directions start over at the first descriptor.
dma_start(d) ==
  /\ \/ d = "rd" /\ pc = "start_rd" /\ pc' = "start_wr"
     \/ d = "wr" /\ pc = "start_wr" /\ pc' = "poll"
  /\ IF d \in send /\ ~snap[d].wrap
     THEN /\ status' = [status EXCEPT ![d] = Cleared(@, snap[d].lptr)]
          /\ table' = [table EXCEPT ![d][snap[d].lptr + 1] =
                                     [kind |-> "status", at |-> snap[d].lptr]]
          /\ jobs' = [jobs EXCEPT ![d] = Append(@, snap[d].lptr)]
          /\ last_ptr' = [x \in Dirs |-> Restart(last_ptr[x])]
     ELSE UNCHANGED <<status, table, jobs, last_ptr>>
  /\ UNCHANGED <<num_pending, last_ptr_wrap, send, snap, fifo, todo, redone>>

Complete == \A d \in send : status[d][snap[d].lptr] = 1

\* Mutant: the countdown is not looked at.
TimeoutNever == FALSE

\* The countdown can end at any time, also at the poll that sees completion.
Timeout == TRUE

PollDone ==
  /\ pc = "poll" /\ Complete
  /\ pc' = "ok"
  /\ UNCHANGED <<infoVars, table, status, send, snap, engineVars, todo, redone>>

PollTimeout ==
  /\ pc = "poll" /\ Timeout
  /\ pc' = "timeout"
  /\ UNCHANGED <<infoVars, table, status, send, snap, engineVars, todo, redone>>

Return ==
  /\ pc \in {"ok", "timeout"}
  /\ pc' = "idle" /\ send' = {} /\ snap' = [d \in Dirs |-> NoSnap]
  /\ UNCHANGED <<infoVars, table, status, engineVars, todo, redone>>

-----------------------------------------------------------------------------
(* The engine.                                                              *)

\* The descriptors up to the one that sets the status word, as they are now.
Fetch(d) ==
  /\ jobs[d] # <<>>
  /\ LET got == 0 .. Head(jobs[d]) + 1
     IN  /\ fifo' = [fifo EXCEPT ![d] =
                       @ \o [i \in 1 .. Cardinality(got) |-> table[d][i - 1]]]
         /\ table' = [table EXCEPT ![d] =
                        [i \in Slots |-> IF i \in got /\ @[i].kind = "new"
                                        THEN Transfer("old") ELSE @[i]]]
  /\ jobs' = [jobs EXCEPT ![d] = Tail(@)]
  /\ UNCHANGED <<infoVars, status, sendVars, todo, redone>>

Perform(d) ==
  /\ fifo[d] # <<>>
  /\ LET item == Head(fifo[d])
     IN  /\ todo' = [todo EXCEPT ![d] = IF item.kind = "new" THEN @ - 1 ELSE @]
         /\ redone' = (redone \/ item.kind = "old")
         /\ status' = IF item.kind = "status"
                      THEN [status EXCEPT ![d][item.at] = 1] ELSE status
  /\ fifo' = [fifo EXCEPT ![d] = Tail(@)]
  /\ UNCHANGED <<infoVars, table, sendVars, jobs>>

-----------------------------------------------------------------------------
SendStep == \/ \E d \in Dirs : dma_start(d)
            \/ PollDone \/ PollTimeout \/ Return

Next ==
  \/ \E d \in Dirs : dma_queue(d)
  \/ \E dirs \in SUBSET Dirs : dma_send(dirs)
  \/ SendStep
  \/ \E d \in Dirs : Fetch(d) \/ Perform(d)

Spec == Init /\ [][Next]_vars

\* The call runs on and its countdown ends; the engine may stop for ever.
FairSpec == Spec /\ WF_vars(SendStep)

-----------------------------------------------------------------------------
(* Properties.                                                              *)

\* "Send all queued DMA transfers and wait for their completions"
\* (intel_fpga_pcie_api.hpp:311): when a send succeeds, every transfer accepted
\* in its directions has been performed.
SendCompletes == pc = "ok" => \A d \in send : todo[d] = 0

\* No transfer is performed twice, also after a send that timed out and whose
\* transfers complete late.
PerformedOnce == ~redone

\* A send returns although the engine may never answer.
SendReturns == pc # "idle" ~> pc = "idle"
=============================================================================
