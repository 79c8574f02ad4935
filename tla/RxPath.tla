------------------------------- MODULE RxPath -------------------------------
(***************************************************************************)
(* The receive path of one Device: the NIC of module RxNic and one thread  *)
(* that receives (get_new_tails, get_next_enso_pipe_id, advance_pipe,      *)
(* fully_advance_pipe, prefetch_pipe of src/pcie.cpp; RxPipe::Recv, Free,  *)
(* Clear, Prefetch and Device::NextRxPipeToRecv of src/enso/pipe.cpp).     *)
(*                                                                         *)
(* Notifications are reactive: software learns of data only from a         *)
(* notification, and gets the next one only because it wrote a head.       *)
(***************************************************************************)
EXTENDS RxNic, FiniteSets

CONSTANTS
  BatchSize,   \* kBatchSize
  Apis,        \* values of NextApi the run starts from
  Partial,     \* TRUE: it may receive and free part of what is there
  MaxAsked     \* bound: descriptors of a pipe under way beyond which the
               \* program frees no part of a batch and does not prefetch

ASSUME RxUse ==
  /\ BatchSize \in Nat \ {0} /\ Apis \subseteq BOOLEAN /\ Partial \in BOOLEAN
  /\ MaxAsked \in Nat

VARIABLES
  nb_head,     \* rx_head of the notification ring
  pending,     \* pending_rx_pipe_tails
  rx_head,     \* per pipe: first flit the program has not freed
  rx_tail,     \* per pipe: first flit the program has not received
  ids,         \* next_rx_pipe_ids
  ids_head,    \* next_rx_ids_head
  ids_tail,    \* next_rx_ids_tail
  pc,          \* the call the thread is in
  ret,         \* where __get_new_tails returns to
  left,        \* iterations __get_new_tails still may take
  consumed,    \* whether it has consumed a notification
  cur,         \* the pipe Recv works on
  NextApi      \* TRUE: the program uses NextRxPipeToRecv; FALSE: RxPipe::Recv;
               \* it never changes

ringVars == <<nb_head, pending, ids, ids_head, ids_tail>>
pipeVars == <<rx_head, rx_tail>>
threadVars == <<pc, ret, left, consumed, cur>>
vars == <<nicVars, ringVars, pipeVars, threadVars, NextApi>>

TypeOK ==
  /\ NicTypeOK
  /\ nb_head \in Slots /\ pending \in [Pipes -> Flits]
  /\ rx_head \in [Pipes -> Flits] /\ rx_tail \in [Pipes -> Flits]
  /\ ids \in [Slots -> Pipes] /\ ids_head \in Slots /\ ids_tail \in Slots
  /\ pc \in {"app", "tails", "next", "got", "recv"}
  /\ ret \in {"got", "recv"}
  /\ left \in 0 .. BatchSize /\ consumed \in BOOLEAN /\ cur \in Pipes
  /\ NextApi \in Apis

Init ==
  /\ NicInit
  /\ nb_head = 0 /\ pending = [q \in Pipes |-> 0]
  /\ rx_head = [q \in Pipes |-> 0] /\ rx_tail = [q \in Pipes |-> 0]
  /\ ids = [s \in Slots |-> 0] /\ ids_head = 0 /\ ids_tail = 0
  /\ pc = "app" /\ ret = "recv" /\ left = 0 /\ consumed = FALSE /\ cur = 0
  /\ NextApi \in Apis

\* Requests for a descriptor of pipe q that the NIC has yet to serve.
HeadUpds(q) ==
  Cardinality({i \in DOMAIN head_upd : head_upd[i] = q})
    + Cardinality({i \in DOMAIN in_queue : in_queue[i].q = q /\ in_queue[i].size = 0})

\* Descriptors of pipe q on their way to host memory or unread there.
Descriptors(q) ==
  Cardinality({i \in DOMAIN pkt_out : pkt_out[i].q = q /\ pkt_out[i].needs_dsc})
    + Cardinality({i \in DOMAIN dma_in : dma_in[i].q = q /\ dma_in[i].needs_dsc})
    + Cardinality({s \in Slots : rx_buf[s].signal = 1 /\ rx_buf[s].queue_id = q})

-----------------------------------------------------------------------------
(* __get_new_tails.  The thread is the only reader of what it writes, but   *)
(* for the head register, which it writes once at the end.                  *)

CallGetNewTails(r) ==
  /\ pc' = "tails" /\ ret' = r /\ left' = BatchSize /\ consumed' = FALSE

\* Nobody reads next_rx_pipe_ids when the program does not use
\* NextRxPipeToRecv; it is not kept then.
ConsumeNotification ==
  /\ pc = "tails" /\ left > 0 /\ rx_buf[nb_head].signal # 0
  /\ LET n == rx_buf[nb_head]
     IN  /\ pending' = [pending EXCEPT ![n.queue_id] = n.tail]
         /\ IF NextApi
            THEN /\ ids' = [ids EXCEPT ![ids_tail] = n.queue_id]
                 /\ ids_tail' = (ids_tail + 1) % N
            ELSE UNCHANGED <<ids, ids_tail>>
  /\ rx_buf' = [rx_buf EXCEPT ![nb_head] = NoNotif]
  /\ nb_head' = (nb_head + 1) % N
  /\ left' = left - 1 /\ consumed' = TRUE
  /\ UNCHANGED <<pkt_head, pkt_tail, status, dsc_head, dsc_tail, head_upd,
                 in_queue, pkt_out, dma_in, dma_state, dma_tail, ids_head,
                 pipeVars, pc, ret, cur, NextApi>>

GetNewTailsReturn ==
  /\ pc = "tails" /\ (left = 0 \/ rx_buf[nb_head].signal = 0)
  /\ dsc_head' = IF consumed THEN nb_head ELSE dsc_head
  /\ pc' = ret /\ ret' = "recv" /\ left' = 0 /\ consumed' = FALSE
  /\ UNCHANGED <<pkt_head, pkt_tail, status, dsc_tail, head_upd, in_queue,
                 pkt_out, dma_in, dma_state, rx_buf, dma_tail, ringVars,
                 pipeVars, cur, NextApi>>

\* MMIO write of a pipe's head by software.
AdvanceHead(q, h) ==
  /\ WriteHead(q, h)
  /\ UNCHANGED <<pkt_tail, status, dsc_head, dsc_tail, in_queue, pkt_out,
                 dma_in, dma_state, rx_buf, dma_tail>>

-----------------------------------------------------------------------------
(* Device::NextRxPipeToRecv, with LATENCY_OPT (the default).                *)

NextRxPipeToRecv ==
  /\ NextApi
  /\ pc = "app"
  /\ pc' = "next"
  /\ UNCHANGED <<nicVars, ringVars, pipeVars, ret, left, consumed, cur,
                 NextApi>>

\* The last batch is used up: fetch the next one.
NextFetch ==
  /\ pc = "next" /\ ids_head = ids_tail
  /\ CallGetNewTails("got")
  /\ UNCHANGED <<nicVars, ringVars, pipeVars, cur, NextApi>>

\* No notification: return nullptr.
NextNone ==
  /\ pc = "got" /\ ids_head = ids_tail
  /\ pc' = "app"
  /\ UNCHANGED <<nicVars, ringVars, pipeVars, ret, left, consumed, cur,
                 NextApi>>

\* A notification with no news is skipped, whatever its pipe.
NextSkip ==
  /\ pc \in {"next", "got"} /\ ids_head # ids_tail
  /\ LET q == ids[ids_head] IN rx_tail[q] = pending[q]
  /\ ids' = [ids EXCEPT ![ids_head] = 0]
  /\ ids_head' = (ids_head + 1) % N
  /\ pc' = "next"
  /\ UNCHANGED <<nicVars, nb_head, pending, ids_tail, pipeVars, ret, left,
                 consumed, cur, NextApi>>

\* A pipe with news: prefetch it and receive from it.
NextTake ==
  /\ pc \in {"next", "got"} /\ ids_head # ids_tail
  /\ LET q == ids[ids_head]
     IN  /\ rx_tail[q] # pending[q]
         /\ AdvanceHead(q, rx_head[q])
         /\ cur' = q
  /\ ids' = [ids EXCEPT ![ids_head] = 0]
  /\ ids_head' = (ids_head + 1) % N
  /\ pc' = "recv"
  /\ UNCHANGED <<nb_head, pending, ids_tail, pipeVars, ret, left, consumed,
                 NextApi>>

-----------------------------------------------------------------------------
(* RxPipe.                                                                  *)

\* Recv on a pipe NextRxPipeToRecv never returned looks for new tails first.
Recv(q) ==
  /\ ~NextApi
  /\ pc = "app"
  /\ CallGetNewTails("recv")
  /\ cur' = q
  /\ UNCHANGED <<nicVars, ringVars, pipeVars, NextApi>>

\* Mutant: nothing is available when the tail has wrapped around.
AvailableNoWrap(q) ==
  IF pending[q] > rx_tail[q] THEN pending[q] - rx_tail[q] ELSE 0

Available(q) == (pending[q] - rx_tail[q]) % PipeSize
Held(q) == (rx_tail[q] - rx_head[q]) % PipeSize

\* Peek returns what the last notification announced, up to max_nb_bytes, and
\* ConfirmBytes takes it.
RecvReturn(n) ==
  /\ pc = "recv"
  /\ n = Available(cur) \/ (Partial /\ n \in 1 .. Available(cur))
  /\ rx_tail' = [rx_tail EXCEPT ![cur] = Advance(@, n)]
  /\ pc' = "app" /\ cur' = 0
  /\ UNCHANGED <<nicVars, ringVars, rx_head, ret, left, consumed, NextApi>>

\* A head write that is not needed to make progress.  Each can make the NIC
\* write a descriptor, so a program that never stops would overflow the ring.
MayAsk(q) == Partial /\ HeadUpds(q) + Descriptors(q) < MaxAsked

\* The program frees bytes it received and still holds.
Free(q, n) ==
  /\ MayAsk(q)
  /\ pc = "app" /\ n <= Held(q)
  /\ LET h == Advance(rx_head[q], n)
     IN  /\ AdvanceHead(q, h)
         /\ rx_head' = [rx_head EXCEPT ![q] = h]
  /\ UNCHANGED <<ringVars, rx_tail, threadVars, NextApi>>

Clear(q) ==
  /\ pc = "app" /\ Held(q) > 0
  /\ AdvanceHead(q, rx_tail[q])
  /\ rx_head' = [rx_head EXCEPT ![q] = rx_tail[q]]
  /\ UNCHANGED <<ringVars, rx_tail, threadVars, NextApi>>

\* Explicit prefetching is for programs that do not use NextRxPipeToRecv.
Prefetch(q) ==
  /\ MayAsk(q) /\ ~NextApi
  /\ pc = "app"
  /\ AdvanceHead(q, rx_head[q])
  /\ UNCHANGED <<ringVars, pipeVars, threadVars, NextApi>>

-----------------------------------------------------------------------------
swVars == <<ringVars, pipeVars, threadVars, NextApi>>

Packet(q, size) == TakePacket(q, size) /\ UNCHANGED swVars

Nic == NicStep /\ UNCHANGED swVars

\* Steps of a call already made.
InCall ==
  \/ ConsumeNotification \/ GetNewTailsReturn
  \/ NextFetch \/ NextNone \/ NextSkip \/ NextTake
  \/ \E n \in Flits : RecvReturn(n)

Next ==
  \/ \E q \in Pipes, size \in 1 .. MaxPkt : Packet(q, size)
  \/ Nic
  \/ InCall
  \/ NextRxPipeToRecv
  \/ \E q \in Pipes : Recv(q) \/ Clear(q) \/ Prefetch(q)
  \/ \E q \in Pipes, n \in 1 .. PipeSize - 1 : Free(q, n)

Spec == Init /\ [][Next]_vars

\* The stages of the NIC keep moving, calls run to their end, and the program
\* polls every pipe and clears what it holds.
Fairness ==
  /\ WF_vars(TakeHeadUpd /\ UNCHANGED swVars)
  /\ WF_vars((ManagePacket \/ ManageHeadUpd) /\ UNCHANGED swVars)
  /\ WF_vars(ReserveSlot /\ UNCHANGED swVars)
  /\ WF_vars((StartDescriptor \/ DmaPacket \/ SendDescriptor)
               /\ UNCHANGED swVars)
  /\ WF_vars(InCall)
  /\ SF_vars(NextRxPipeToRecv)
  /\ \A q \in Pipes : SF_vars(Recv(q)) /\ SF_vars(Clear(q))

FairSpec == Spec /\ Fairness

-----------------------------------------------------------------------------
(* Properties.                                                              *)

PipeDist(a, b) == (b - a) % PipeSize
RingDist(a, b) == (b - a) % N

\* The five indices into a pipe stay in order, so the NIC never overwrites a
\* flit the program has not freed, and software never receives a flit that was
\* announced before it was written.  The head register is the program's head.
PipeOrder ==
  \A q \in Pipes :
    LET d(x) == PipeDist(rx_head[q], x)
    IN  /\ pkt_head[q] = rx_head[q]
        /\ d(rx_tail[q]) <= d(pending[q])
        /\ d(pending[q]) <= d(dma_tail[q])
        /\ d(dma_tail[q]) <= d(pkt_tail[q])

\* Slots reserved for descriptors that are still on their way to host memory.
Reserved == {dma_in[i].slot : i \in {j \in DOMAIN dma_in : dma_in[j].needs_dsc}}

\* The notification ring: from the head register to the tail of the NIC lie the
\* slots software has read and not yet given back, the unread notifications,
\* and the slots reserved; a slot holds a notification exactly when unread.
NotifRingOrder ==
  LET d(x) == RingDist(dsc_head, x)
  IN  /\ d(nb_head) <= d(dsc_tail)
      /\ \A s \in Slots :
           rx_buf[s].signal = 1 <=>
             d(nb_head) <= d(s) /\ d(s) < d(dsc_tail) /\ s \notin Reserved

\* Notifications of pipe q that NextRxPipeToRecv has fetched and not used.
Fetched(q) ==
  {i \in Slots : RingDist(ids_head, i) < RingDist(ids_head, ids_tail)
                 /\ ids[i] = q}

\* Software holds flits or knows of flits it has not received.
Aware(q) == rx_head[q] # pending[q]

\* No wake-up is lost: software is aware of the pipe, or a notification or a
\* request for one is under way, or the next packet will carry a descriptor.
\* A pipe where all of these fail stays silent for ever.
NoLostWakeup ==
  \A q \in Pipes :
    \/ Aware(q) \/ ~status[q]
    \/ HeadUpds(q) + Descriptors(q) > 0 \/ Fetched(q) # {}

\* A program that clears what it receives has at most one of: a descriptor, a
\* request for a descriptor, data it is aware of; and the next packet carries a
\* descriptor only if none of them is there.  One ring slot per pipe suffices.
SingleToken ==
  \A q \in Pipes :
    /\ HeadUpds(q) + Descriptors(q) + (IF Aware(q) THEN 1 ELSE 0) <= 1
    /\ ~status[q] => Descriptors(q) = 0 /\ ~Aware(q)

\* Data keep reaching the program: it either catches up with the NIC again and
\* again or goes on receiving for ever.
DataIsReceived ==
  \A q \in Pipes :
    \/ []<>(rx_tail[q] = pkt_tail[q])
    \/ []<><<rx_tail'[q] # rx_tail[q]>>_vars
=============================================================================
