------------------------------- MODULE RxNic --------------------------------
(***************************************************************************)
(* The receive side of the NIC (hardware/src/pcie): head updates and       *)
(* packets are merged into one stream (pcie_top.sv), the packet queue      *)
(* manager gives each packet its place in the pipe and decides reactively  *)
(* whether a descriptor goes with it (pkt_queue_manager.sv on top of       *)
(* queue_manager.sv), the descriptor queue manager reserves a slot of the  *)
(* notification ring (rx_dsc_queue_manager.sv), and fpga_to_cpu.sv writes  *)
(* packet and descriptor to host memory, in that order.                    *)
(*                                                                         *)
(* One notification ring; every pipe is enabled.  A pipe is a ring of      *)
(* flits, a packet is its number of flits.                                 *)
(***************************************************************************)
EXTENDS Integers, Sequences

CONSTANTS
  NbPipes,      \* RX pipes that share the notification ring
  PipeSize,     \* ENSO_PIPE_SIZE, flits of a pipe
  N,            \* kNotificationBufSize
  MaxPkt,       \* flits of the longest packet
  HeadUpdLimit, \* head updates queued before further ones are ignored
  StageLen      \* entries of each FIFO between two stages

ASSUME RxSizes ==
  /\ NbPipes \in Nat \ {0} /\ PipeSize \in Nat /\ PipeSize >= 2
  /\ N \in Nat /\ N >= 2
  /\ MaxPkt \in 1 .. PipeSize - 1
  /\ HeadUpdLimit \in Nat /\ HeadUpdLimit >= NbPipes /\ StageLen \in Nat \ {0}

Pipes == 0 .. NbPipes - 1
Flits == 0 .. PipeSize - 1
Slots == 0 .. N - 1

VARIABLES
  pkt_head,    \* per pipe: head register, written by software
  pkt_tail,    \* per pipe: tail, advanced for every packet that fits
  status,      \* per pipe: TRUE when no descriptor is needed for a packet
  dsc_head,    \* head register of the notification ring, written by software
  dsc_tail,    \* its tail, advanced for every slot reserved
  head_upd,    \* head_upd_queue: pipes whose head software wrote
  in_queue,    \* merged stream; size 0 is a descriptor-only entry
  pkt_out,     \* packet queue manager to descriptor queue manager
  dma_in,      \* descriptor queue manager to fpga_to_cpu
  dma_state,   \* its state machine
  rx_buf,      \* the notification ring, in host memory
  dma_tail     \* per pipe: end of the data written to host memory

nicVars == <<pkt_head, pkt_tail, status, dsc_head, dsc_tail, head_upd,
             in_queue, pkt_out, dma_in, dma_state, rx_buf, dma_tail>>

NoNotif == [signal |-> 0, queue_id |-> 0, tail |-> 0]
Notifs == [signal : {0, 1}, queue_id : Pipes, tail : Flits]

\* pkt_meta_with_queues_t; slot is dsc_q_state.tail.
Metas == [q : Pipes, size : 0 .. MaxPkt, tail : Flits, needs_dsc : BOOLEAN,
          drop_data : BOOLEAN, drop_meta : BOOLEAN, slot : Slots]

descriptor_only(m) == m.size = 0

\* Mutant: no entry is kept empty, so a full ring looks empty.
RingFreeNoGap(head, tail, size) == ((head - tail - 1) % size) + 1

RingFree(head, tail, size) == (head - tail - 1) % size

\* The index of a pipe, n flits further.
Advance(flit, n) == (flit + n) % PipeSize

NicTypeOK ==
  /\ pkt_head \in [Pipes -> Flits] /\ pkt_tail \in [Pipes -> Flits]
  /\ dma_tail \in [Pipes -> Flits]
  /\ status \in [Pipes -> BOOLEAN]
  /\ dsc_head \in Slots /\ dsc_tail \in Slots
  /\ head_upd \in Seq(Pipes) /\ Len(head_upd) <= HeadUpdLimit
  /\ in_queue \in Seq([q : Pipes, size : 0 .. MaxPkt])
  /\ pkt_out \in Seq(Metas) /\ dma_in \in Seq(Metas)
  /\ \A f \in {in_queue, pkt_out, dma_in} : Len(f) <= StageLen
  /\ dma_state \in {"START_TRANSFER", "SEND_DESCRIPTOR"}
  /\ rx_buf \in [Slots -> Notifs]

\* Every pipe was just opened: enso_pipe_init zeroed tail and head, and its
\* write of the head is still queued.  A previous owner left the status bit.
NicInit ==
  /\ pkt_head = [q \in Pipes |-> 0] /\ pkt_tail = [q \in Pipes |-> 0]
  /\ dma_tail = [q \in Pipes |-> 0]
  /\ status \in [Pipes -> BOOLEAN]
  /\ dsc_head = 0 /\ dsc_tail = 0
  /\ head_upd = [i \in 1 .. NbPipes |-> i - 1]
  /\ in_queue = <<>> /\ pkt_out = <<>> /\ dma_in = <<>>
  /\ dma_state = "START_TRANSFER"
  /\ rx_buf = [s \in Slots |-> NoNotif]

-----------------------------------------------------------------------------
(* pcie_top.sv.                                                             *)

\* An MMIO write to a pipe's head: the register changes, and the write itself
\* asks for a descriptor unless too many such requests are waiting.
WriteHead(q, h) ==
  /\ pkt_head' = [pkt_head EXCEPT ![q] = h]
  /\ head_upd' = IF Len(head_upd) < HeadUpdLimit THEN Append(head_upd, q)
                                                 ELSE head_upd

\* Head updates go first.
TakeHeadUpd ==
  /\ head_upd # <<>> /\ Len(in_queue) < StageLen
  /\ in_queue' = Append(in_queue, [q |-> Head(head_upd), size |-> 0])
  /\ head_upd' = Tail(head_upd)
  /\ UNCHANGED <<pkt_head, pkt_tail, status, dsc_head, dsc_tail, pkt_out,
                 dma_in, dma_state, rx_buf, dma_tail>>

\* A packet from the network, already steered to a pipe.
TakePacket(q, size) ==
  /\ head_upd = <<>> /\ Len(in_queue) < StageLen
  /\ in_queue' = Append(in_queue, [q |-> q, size |-> size])
  /\ UNCHANGED <<pkt_head, pkt_tail, status, dsc_head, dsc_tail, head_upd,
                 pkt_out, dma_in, dma_state, rx_buf, dma_tail>>

-----------------------------------------------------------------------------
(* pkt_queue_manager.sv.                                                    *)

\* Mutant: every packet carries a descriptor, whatever the status.
NeedsDscAlways(q) == TRUE

NeedsDsc(q) == ~status[q]

\* A packet that does not fit is dropped; one that fits advances the tail and
\* carries a descriptor when the status bit asks for one.
ManagePacket ==
  /\ in_queue # <<>> /\ Head(in_queue).size > 0 /\ Len(pkt_out) < StageLen
  /\ LET q == Head(in_queue).q
         size == Head(in_queue).size
         full == RingFree(pkt_head[q], pkt_tail[q], PipeSize) < size
     IN  /\ pkt_out' = Append(pkt_out,
              [q |-> q, size |-> size, tail |-> pkt_tail[q],
               needs_dsc |-> NeedsDsc(q) /\ ~full,
               drop_data |-> full, drop_meta |-> full, slot |-> 0])
         /\ pkt_tail' = IF full THEN pkt_tail
                        ELSE [pkt_tail EXCEPT ![q] = Advance(@, size)]
         /\ status' = [status EXCEPT ![q] = TRUE]
  /\ in_queue' = Tail(in_queue)
  /\ UNCHANGED <<pkt_head, dsc_head, dsc_tail, head_upd, dma_in, dma_state,
                 rx_buf, dma_tail>>

\* Mutant: the status bit is set although the pipe is empty.
StatusOnHeadUpdSet(q) == TRUE

\* The status bit after a head update: set when a descriptor goes out at once.
StatusOnHeadUpd(q) == pkt_head[q] # pkt_tail[q]

\* A head update gets a descriptor of its own when the pipe holds data;
\* otherwise the next packet will carry one.
ManageHeadUpd ==
  /\ in_queue # <<>> /\ Head(in_queue).size = 0 /\ Len(pkt_out) < StageLen
  /\ LET q == Head(in_queue).q
         queue_empty == pkt_head[q] = pkt_tail[q]
     IN  /\ pkt_out' = Append(pkt_out,
              [q |-> q, size |-> 0, tail |-> pkt_tail[q],
               needs_dsc |-> ~queue_empty,
               drop_data |-> FALSE, drop_meta |-> queue_empty, slot |-> 0])
         /\ status' = [status EXCEPT ![q] = StatusOnHeadUpd(q)]
  /\ in_queue' = Tail(in_queue)
  /\ UNCHANGED <<pkt_head, pkt_tail, dsc_head, dsc_tail, head_upd, dma_in,
                 dma_state, rx_buf, dma_tail>>

-----------------------------------------------------------------------------
(* rx_dsc_queue_manager.sv.                                                 *)

\* Mutant: the descriptor goes to the slot after the reserved one.
ReservedSlotAhead == (dsc_tail + 1) % N

ReservedSlot == dsc_tail

\* A descriptor takes the next slot of the ring; when the ring is full only its
\* needs_dsc mark is cleared.
ReserveSlot ==
  /\ pkt_out # <<>> /\ Len(dma_in) < StageLen
  /\ LET m == Head(pkt_out)
         full == m.needs_dsc /\ RingFree(dsc_head, dsc_tail, N) = 0
     IN  /\ dma_in' = Append(dma_in,
              [m EXCEPT !.slot = ReservedSlot, !.needs_dsc = @ /\ ~full])
         /\ dsc_tail' = IF m.needs_dsc /\ ~full THEN (dsc_tail + 1) % N
                                                ELSE dsc_tail
  /\ pkt_out' = Tail(pkt_out)
  /\ UNCHANGED <<pkt_head, pkt_tail, status, dsc_head, head_upd, in_queue,
                 dma_state, rx_buf, dma_tail>>

-----------------------------------------------------------------------------
(* fpga_to_cpu.sv.  The entry being transferred stays at the front of dma_in. *)

\* A descriptor-only entry goes straight to SEND_DESCRIPTOR.
StartDescriptor ==
  /\ dma_state = "START_TRANSFER"
  /\ dma_in # <<>> /\ descriptor_only(Head(dma_in))
  /\ dma_state' = "SEND_DESCRIPTOR"
  /\ UNCHANGED <<pkt_head, pkt_tail, status, dsc_head, dsc_tail, head_upd,
                 in_queue, pkt_out, dma_in, rx_buf, dma_tail>>

\* All flits of a packet are written, unless it is dropped; the tail a
\* descriptor will report is the one after them.
DmaPacket ==
  /\ dma_state = "START_TRANSFER"
  /\ dma_in # <<>> /\ ~descriptor_only(Head(dma_in))
  /\ LET m == Head(dma_in)
         end == Advance(m.tail, m.size)
     IN  /\ dma_tail' = IF m.drop_data THEN dma_tail
                        ELSE [dma_tail EXCEPT ![m.q] = end]
         /\ IF m.needs_dsc
            THEN /\ dma_in' = [dma_in EXCEPT ![1].tail = end]
                 /\ dma_state' = "SEND_DESCRIPTOR"
            ELSE /\ dma_in' = Tail(dma_in)
                 /\ dma_state' = "START_TRANSFER"
  /\ UNCHANGED <<pkt_head, pkt_tail, status, dsc_head, dsc_tail, head_upd,
                 in_queue, pkt_out, rx_buf>>

\* The write of the descriptor depends on drop_meta alone.
SendDescriptor ==
  /\ dma_state = "SEND_DESCRIPTOR"
  /\ LET m == Head(dma_in)
     IN  rx_buf' = IF m.drop_meta THEN rx_buf
                   ELSE [rx_buf EXCEPT ![m.slot] =
                           [signal |-> 1, queue_id |-> m.q, tail |-> m.tail]]
  /\ dma_in' = Tail(dma_in)
  /\ dma_state' = "START_TRANSFER"
  /\ UNCHANGED <<pkt_head, pkt_tail, status, dsc_head, dsc_tail, head_upd,
                 in_queue, pkt_out, dma_tail>>

-----------------------------------------------------------------------------
NicStep ==
  \/ TakeHeadUpd \/ ManagePacket \/ ManageHeadUpd \/ ReserveSlot
  \/ StartDescriptor \/ DmaPacket \/ SendDescriptor
=============================================================================
