------------------------------- MODULE TxRing -------------------------------
(***************************************************************************)
(* The TX notification ring: one software thread that sends through it    *)
(* (send_to_queue, get_unreported_completions, send_config and the        *)
(* update_tx_head they call, software/src/pcie.cpp) and the NIC that      *)
(* consumes it (hardware/src/pcie/cpu_to_fpga.sv, completions written by  *)
(* fpga_to_cpu.sv).                                                       *)
(*                                                                         *)
(* Software fills slots from a local copy of tx_tail, publishes the tail   *)
(* with one MMIO write and learns of a completion from the slot's signal   *)
(* field, which the NIC clears in host memory.  The NIC never sees         *)
(* tx_head: only the free-slot computation of software keeps the ring from *)
(* being overrun.                                                          *)
(*                                                                         *)
(* The FIFOs of the NIC (dsc_reads_queue, meta_queue, tx_compl_buf) hold   *)
(* consecutive slots in ring order, so each is a pair of ring indices:     *)
(*                                                                         *)
(*   tx_head <= compl <= fetch <= rd_head <= tail_reg = tx_tail <= s_tail  *)
(***************************************************************************)
EXTENDS Integers

CONSTANTS
  N,            \* kNotificationBufSize, slots of the ring
  BatchSize,    \* kBatchSize, slots one update_tx_head call may reap
  NbPages,      \* hugepages that hold data to send
  PageSize,     \* kBufPageSize
  MaxTransfer,  \* kMaxTransferLen
  Lengths,      \* request lengths callers of send_to_queue use
  Configs,      \* TRUE when the program also calls send_config
  Starts,       \* tails a previous owner may have left in the register
  MaxUnreported \* bound: no new send once this many completions are unreported

ASSUME NAssumption == N \in Nat /\ N >= 2
ASSUME BatchAssumption == BatchSize \in Nat /\ BatchSize >= 1
ASSUME PageAssumption ==
  /\ NbPages \in Nat /\ NbPages >= 1
  /\ PageSize \in Nat /\ PageSize >= 1
  /\ MaxTransfer \in Nat /\ MaxTransfer >= 1
  /\ Lengths \subseteq 1 .. PageSize
ASSUME ConfigsAssumption == Configs \in BOOLEAN
ASSUME StartsAssumption == Starts \subseteq 0 .. N - 1
ASSUME BoundAssumption == MaxUnreported \in Nat

Slots == 0 .. N - 1
Pages == 0 .. NbPages - 1

\* The values of TxNotification::signal: 0 free or consumed, 1 data, 2 config.
Signals == 0 .. 2

\* One TxNotification: phys_addr is a page and an offset in it.
Notifications ==
  [signal : Signals, page : Pages, off : 0 .. PageSize - 1, len : 0 .. PageSize]

\* A slot that holds no request.  A completed slot is one: nobody reads the
\* address and the length that the completion writes back.
Free == [signal |-> 0, page |-> 0, off |-> 0, len |-> 0]

VARIABLES
  tx_buf,         \* the ring, in host memory
  wrap_tracker,   \* slots whose request continues in the next slot
  tx_head,        \* next slot to reap
  tx_tail,        \* published tail, software's copy
  nb_unreported,  \* nb_unreported_completions
  pc,             \* the call the thread is in
  ret,            \* where update_tx_head returns to
  left,           \* iterations update_tx_head still may take
  s_tail,         \* local tx_tail of __send_to_queue and send_config
  s_page, s_off,  \* transf_addr
  s_missing,      \* missing_bytes
  saved,          \* send_config's copy of nb_unreported_completions
  tail_reg,       \* tail register of the NIC
  rd_head,        \* head register of the NIC: descriptors requested so far
  fetch,          \* next descriptor to arrive from host memory
  compl,          \* next descriptor to complete
  meta            \* descriptors the NIC holds, by slot

swVars == <<tx_head, tx_tail, nb_unreported, wrap_tracker>>
sendVars == <<s_tail, s_page, s_off, s_missing>>
callVars == <<pc, ret, left, saved>>
nicVars == <<rd_head, fetch, compl, meta>>
vars == <<tx_buf, wrap_tracker, tx_head, tx_tail, nb_unreported, pc, ret, left,
          s_tail, s_page, s_off, s_missing, saved, tail_reg, rd_head, fetch,
          compl, meta>>

-----------------------------------------------------------------------------
(* Ring arithmetic.                                                        *)

Next1(i) == (i + 1) % N

\* Mutant: no slot is kept empty, so a full ring looks empty.
FreeSlotsNoGap(tail) == IF tx_head = tail THEN N ELSE (tx_head - tail) % N

FreeSlots(tail) == (tx_head - tail - 1) % N

\* Slots from a up to but not including b, going round the ring.
Between(a, b) == IF a <= b THEN a .. b - 1 ELSE (a .. N - 1) \cup (0 .. b - 1)

\* Slots on the way from a to b.
Dist(a, b) == IF a <= b THEN b - a ELSE b - a + N

Smaller(a, b) == IF a < b THEN a ELSE b

-----------------------------------------------------------------------------
TypeOK ==
  /\ tx_buf \in [Slots -> Notifications]
  /\ wrap_tracker \in [Slots -> BOOLEAN]
  /\ tx_head \in Slots /\ tx_tail \in Slots
  /\ nb_unreported \in Nat /\ saved \in Nat
  /\ pc \in {"idle", "send", "update", "report", "cfg_put", "cfg_wait"}
  /\ ret \in {"send", "report", "cfg_put", "cfg_wait"}
  /\ left \in 0 .. BatchSize
  /\ s_tail \in Slots /\ s_page \in Pages /\ s_off \in 0 .. PageSize - 1
  /\ s_missing \in 0 .. PageSize
  /\ tail_reg \in Slots /\ rd_head \in Slots /\ fetch \in Slots
  /\ compl \in Slots
  /\ meta \in [Slots -> Notifications]

\* notification_buf_init zeroes the ring and the wrap tracker and starts at the
\* tail the previous owner of the ring left in the register.
Init ==
  \E start \in Starts :
    /\ tx_buf = [s \in Slots |-> Free]
    /\ meta = [s \in Slots |-> Free]
    /\ wrap_tracker = [s \in Slots |-> FALSE]
    /\ tail_reg = start
    /\ tx_tail = start /\ tx_head = start /\ s_tail = start
    /\ rd_head = start /\ fetch = start /\ compl = start
    /\ nb_unreported = 0 /\ saved = 0
    /\ pc = "idle" /\ ret = "report" /\ left = 0
    /\ s_page = 0 /\ s_off = 0 /\ s_missing = 0

-----------------------------------------------------------------------------
(* update_tx_head.  The thread is the only reader of tx_head, so writing    *)
(* it in every iteration instead of once at the end is not observable.      *)

CallUpdate(r) ==
  /\ pc' = "update" /\ ret' = r /\ left' = BatchSize

\* Mutant: every notification counts, not only the last one of a request.
CompletionsOfAll(s) == 1

\* What reaping slot s adds to the completions: a request of several
\* notifications is complete with its last one.
CompletionsOf(s) == IF wrap_tracker[s] THEN 0 ELSE 1

\* Mutant: the bit of a reaped slot is not reset.
WrapKept(s) == wrap_tracker

WrapCleared(s) == [wrap_tracker EXCEPT ![s] = FALSE]

\* A consumed notification is reaped.
Reap ==
  /\ pc = "update" /\ left > 0 /\ tx_head # tx_tail
  /\ tx_buf[tx_head].signal = 0
  /\ nb_unreported' = nb_unreported + CompletionsOf(tx_head)
  /\ wrap_tracker' = WrapCleared(tx_head)
  /\ tx_head' = Next1(tx_head)
  /\ left' = left - 1
  /\ UNCHANGED <<tx_buf, tx_tail, pc, ret, saved, sendVars, tail_reg, nicVars>>

\* Nothing (more) to reap, or the batch is over: return to the caller.
UpdateReturn ==
  /\ pc = "update"
  /\ left = 0 \/ tx_head = tx_tail \/ tx_buf[tx_head].signal # 0
  /\ pc' = ret
  /\ ret' = "report" /\ left' = 0
  /\ UNCHANGED <<tx_buf, swVars, saved, sendVars, tail_reg, nicVars>>

-----------------------------------------------------------------------------
(* __send_to_queue(phys_addr, len).                                         *)

SendCall(p, off, len) ==
  /\ pc = "idle" /\ nb_unreported <= MaxUnreported
  /\ pc' = "send"
  /\ s_tail' = tx_tail /\ s_page' = p /\ s_off' = off /\ s_missing' = len
  /\ UNCHANGED <<tx_buf, swVars, ret, left, saved, tail_reg, nicVars>>

\* Mutant: it spins without calling update_tx_head.
SendBlockedSpins ==
  /\ pc = "send" /\ s_missing > 0 /\ FreeSlots(s_tail) = 0
  /\ UNCHANGED vars

\* "Block until we can send."
SendBlocked ==
  /\ pc = "send" /\ s_missing > 0 /\ FreeSlots(s_tail) = 0
  /\ CallUpdate("send")
  /\ UNCHANGED <<tx_buf, swVars, saved, sendVars, tail_reg, nicVars>>

\* Mutant: the end of the hugepage is not taken into account.
ReqLengthAcrossPages == Smaller(s_missing, MaxTransfer)

\* One notification covers at most MaxTransfer bytes and never leaves the page.
ReqLength ==
  Smaller(Smaller(s_missing, MaxTransfer), PageSize - s_off)

SendChunk ==
  /\ pc = "send" /\ s_missing > 0 /\ FreeSlots(s_tail) # 0
  /\ wrap_tracker' = [wrap_tracker EXCEPT
                        ![s_tail] = @ \/ s_missing > ReqLength]
  /\ tx_buf' = [tx_buf EXCEPT ![s_tail] =
                  [signal |-> 1, page |-> s_page, off |-> s_off,
                   len |-> ReqLength]]
  /\ s_off' = (s_off + ReqLength) % PageSize
  /\ s_tail' = Next1(s_tail)
  /\ s_missing' = s_missing - ReqLength
  /\ UNCHANGED <<tx_head, tx_tail, nb_unreported, callVars, s_page, tail_reg,
                 nicVars>>

\* The tail is published once for the whole request.
SendPublish ==
  /\ pc = "send" /\ s_missing = 0
  /\ tx_tail' = s_tail /\ tail_reg' = s_tail
  /\ pc' = "idle"
  /\ s_page' = 0 /\ s_off' = 0
  /\ UNCHANGED <<tx_buf, wrap_tracker, tx_head, nb_unreported, ret, left, saved,
                 s_tail, s_missing, nicVars>>

-----------------------------------------------------------------------------
(* get_unreported_completions.                                              *)

ReportCall ==
  /\ pc = "idle"
  /\ CallUpdate("report")
  /\ UNCHANGED <<tx_buf, swVars, saved, sendVars, tail_reg, nicVars>>

ReportReturn ==
  /\ pc = "report"
  /\ nb_unreported' = 0
  /\ pc' = "idle"
  /\ UNCHANGED <<tx_buf, wrap_tracker, tx_head, tx_tail, ret, left, saved,
                 sendVars, tail_reg, nicVars>>

-----------------------------------------------------------------------------
(* send_config.                                                             *)

ConfigCall ==
  /\ Configs
  /\ pc = "idle"
  /\ pc' = "cfg_put"
  /\ UNCHANGED <<tx_buf, swVars, ret, left, saved, sendVars, tail_reg, nicVars>>

ConfigBlocked ==
  /\ pc = "cfg_put" /\ FreeSlots(tx_tail) = 0
  /\ CallUpdate("cfg_put")
  /\ UNCHANGED <<tx_buf, swVars, saved, sendVars, tail_reg, nicVars>>

ConfigPut ==
  /\ pc = "cfg_put" /\ FreeSlots(tx_tail) # 0
  /\ tx_buf' = [tx_buf EXCEPT ![tx_tail] = [Free EXCEPT !.signal = 2]]
  /\ tx_tail' = Next1(tx_tail) /\ tail_reg' = Next1(tx_tail)
  /\ s_tail' = Next1(tx_tail)
  /\ saved' = nb_unreported
  /\ pc' = "cfg_wait"
  /\ UNCHANGED <<wrap_tracker, tx_head, nb_unreported, ret, left, s_page, s_off,
                 s_missing, nicVars>>

ConfigWait ==
  /\ pc = "cfg_wait" /\ nb_unreported = saved
  /\ CallUpdate("cfg_wait")
  /\ UNCHANGED <<tx_buf, swVars, saved, sendVars, tail_reg, nicVars>>

ConfigReturn ==
  /\ pc = "cfg_wait" /\ nb_unreported # saved
  /\ nb_unreported' = saved /\ saved' = 0
  /\ pc' = "idle"
  /\ UNCHANGED <<tx_buf, wrap_tracker, tx_head, tx_tail, ret, left, sendVars,
                 tail_reg, nicVars>>

-----------------------------------------------------------------------------
(* The NIC.                                                                 *)

\* The request FSM reads both registers and writes the tail to the head; tail
\* writes that arrived meanwhile are served together.
NicRequest ==
  /\ rd_head # tail_reg
  /\ rd_head' = tail_reg
  /\ UNCHANGED <<tx_buf, swVars, callVars, sendVars, tail_reg, fetch, compl,
                 meta>>

\* Mutant: the descriptor of the slot after the next one is taken.
NicFetchSkips ==
  /\ fetch # rd_head
  /\ meta' = [meta EXCEPT ![fetch] = tx_buf[Next1(fetch)]]
  /\ fetch' = Next1(fetch)
  /\ UNCHANGED <<tx_buf, swVars, callVars, sendVars, tail_reg, rd_head, compl>>

\* A descriptor arrives: its slot is the one after the previous descriptor's.
NicFetch ==
  /\ fetch # rd_head
  /\ meta' = [meta EXCEPT ![fetch] = tx_buf[fetch]]
  /\ fetch' = Next1(fetch)
  /\ UNCHANGED <<tx_buf, swVars, callVars, sendVars, tail_reg, rd_head, compl>>

\* Mutant: the completion is written without clearing the signal.
NicCompleteKeepsSignal ==
  /\ compl # fetch
  /\ meta' = [meta EXCEPT ![compl] = Free]
  /\ compl' = Next1(compl)
  /\ UNCHANGED <<tx_buf, swVars, callVars, sendVars, tail_reg, rd_head, fetch>>

\* The batch was sent (or the configuration applied): the completion, with the
\* signal cleared, overwrites the descriptor in host memory.
NicComplete ==
  /\ compl # fetch
  /\ tx_buf' = [tx_buf EXCEPT ![compl] = Free]
  /\ meta' = [meta EXCEPT ![compl] = Free]
  /\ compl' = Next1(compl)
  /\ UNCHANGED <<swVars, callVars, sendVars, tail_reg, rd_head, fetch>>

-----------------------------------------------------------------------------
Update == Reap \/ UpdateReturn

SendSteps == SendBlocked \/ SendChunk \/ SendPublish

ConfigSteps == ConfigBlocked \/ ConfigPut \/ ConfigWait \/ ConfigReturn

Nic == NicRequest \/ NicFetch \/ NicComplete

Next ==
  \/ \E p \in Pages, off \in 0 .. PageSize - 1, len \in Lengths :
       SendCall(p, off, len)
  \/ ReportCall
  \/ ConfigCall
  \/ SendSteps \/ ConfigSteps \/ ReportReturn \/ Update
  \/ Nic

Spec == Init /\ [][Next]_vars

\* A thread that is inside a call keeps running and the NIC keeps working.
Fairness ==
  /\ WF_vars(SendSteps \/ ConfigSteps \/ ReportReturn \/ Update)
  /\ WF_vars(NicRequest) /\ WF_vars(NicFetch) /\ WF_vars(NicComplete)

FairSpec == Spec /\ Fairness

-----------------------------------------------------------------------------
(* Properties.                                                              *)

\* The indices of software and NIC never overtake one another: software reaps
\* only completed slots, the NIC fetches only published ones, and the slots
\* __send_to_queue fills never reach tx_head (free_slots, pcie.cpp:478-488).
RingOrder ==
  LET d(x) == Dist(tx_head, x)
  IN  /\ d(compl) <= d(fetch)
      /\ d(fetch) <= d(rd_head)
      /\ d(rd_head) <= d(tail_reg)
      /\ tail_reg = tx_tail
      /\ d(tx_tail) <= d(s_tail)

\* The signal field alone tells software which slots are done: it is clear in
\* every completed slot not yet reaped and set in every slot that the NIC has
\* yet to complete, published or not.
SignalTellsCompletion ==
  /\ \A s \in Between(tx_head, compl) : tx_buf[s].signal = 0
  /\ \A s \in Between(compl, s_tail) : tx_buf[s].signal # 0

\* A descriptor the NIC works on is still in the ring, unchanged: no slot is
\* refilled between the DMA read of its descriptor and the write of its
\* completion, so the completion cannot erase a newer request.
NicHoldsPublished ==
  \A s \in Between(compl, fetch) : meta[s] = tx_buf[s]

\* Every data notification is one the NIC can serve with one DMA read: not
\* empty (asserted in cpu_to_fpga.sv:610), no longer than kMaxTransferLen and
\* inside its hugepage.
ChunkWithinPage ==
  \A s \in Between(compl, s_tail) :
    tx_buf[s].signal = 1 =>
      /\ tx_buf[s].len \in 1 .. MaxTransfer
      /\ tx_buf[s].off + tx_buf[s].len <= PageSize

\* The notifications of one request follow one another in the ring and in the
\* buffer, and the wrap tracker ends every published request: its last slot,
\* and no slot outside the ones in use, counts as a completion.
RequestContiguous ==
  /\ \A s \in Slots :
       wrap_tracker[s] =>
         /\ s \in Between(tx_head, s_tail)
         /\ {s, Next1(s)} \subseteq Between(compl, s_tail) =>
              /\ tx_buf[Next1(s)].page = tx_buf[s].page
              /\ tx_buf[Next1(s)].off = (tx_buf[s].off + tx_buf[s].len) % PageSize
         /\ Next1(s) # tx_tail

\* Every call returns once the NIC catches up: a send blocked on a full ring
\* ("Block until we can send", pcie.cpp:482), a configuration that waits for room
\* and then for a completion (pcie.cpp:581-602), a count of completions.
CallsReturn == pc # "idle" ~> pc = "idle"
=============================================================================
