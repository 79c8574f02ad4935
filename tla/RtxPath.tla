------------------------------- MODULE RtxPath -------------------------------
(***************************************************************************)
(* RxTx pipes: what was received is sent from the buffer it was received   *)
(* into (RxTxPipe of include/enso/pipe.h, the end of                       *)
(* Device::ProcessCompletions in src/enso/pipe.cpp).  The pipes of module  *)
(* TxPath in RxTxPipes are the TX halves; the others are plain TxPipes of  *)
(* the same Device.  The program chooses once.                             *)
(*                                                                         *)
(* A completion of the TX half lets the RX half free as many bytes, by     *)
(* comparing the TX capacity with the one last seen: the NIC may then      *)
(* write new packets over them.  Notifications of the RX half are those of *)
(* module RxPath and are abstracted here: a call receives what may be in   *)
(* the buffer by then.                                                     *)
(***************************************************************************)
EXTENDS TxPath

CONSTANTS
  Choices,   \* the sets of pipes that the program may allocate as RxTxPipes
  Width      \* bits of last_tx_pipe_capacity_, 32

ASSUME RtxAssumption ==
  /\ Choices \subseteq SUBSET Pages
  /\ Width \in Nat /\ 2 ^ Width \in Nat /\ PageSize < 2 ^ Width

VARIABLES
  RxTxPipes,  \* the pipes that are RxTxPipes
  rx_head,    \* per pipe: first byte not freed, the register of the NIC
  rx_tail,    \* per pipe: first byte not received
  last_cap    \* per pipe: last_tx_pipe_capacity_

rtxVars == <<RxTxPipes, rx_head, rx_tail, last_cap>>
allVars == <<pathVars, rtxVars>>

Positions == 0 .. PageSize - 1

RtxTypeOK ==
  /\ PathTypeOK
  /\ RxTxPipes \in Choices
  /\ rx_head \in [RxTxPipes -> Positions] /\ rx_tail \in [RxTxPipes -> Positions]
  /\ last_cap \in [RxTxPipes -> 0 .. PageSize - 1]

\* RxTxPipe::Init.
RtxInit ==
  /\ PathInit
  /\ RxTxPipes \in Choices
  /\ rx_head = [p \in RxTxPipes |-> 0] /\ rx_tail = [p \in RxTxPipes |-> 0]
  /\ last_cap = [p \in RxTxPipes |-> capacity(p)]

-----------------------------------------------------------------------------
(* Receiving.                                                               *)

\* RxTxPipe::Recv and its variants, NextRxTxPipeToRecv: ProcessCompletions first.
Recv ==
  /\ dev = "app" /\ RxTxPipes # {}
  /\ ReportCall
  /\ dev' = "completing" /\ dret' = "recv"
  /\ UNCHANGED <<pipeVars, prVars, todo, cur, target, rtxVars>>

\* The bytes from rx_tail on in which there may be packets by now; the NIC
\* keeps one quantum empty.
Room(p) == kBufMask(rx_head[p] - rx_tail[p] - Quantum)

\* RxPipe::Recv: some of what is there, or nothing.
RecvReturn(p, nb) ==
  /\ dev = "recv" /\ nb <= Room(p)
  /\ rx_tail' = [rx_tail EXCEPT ![p] = kBufMask(@ + nb)]
  /\ dev' = "app"
  /\ UNCHANGED <<vars, pipeVars, prVars, dret, todo, cur, target,
                 RxTxPipes, rx_head, last_cap>>

-----------------------------------------------------------------------------
(* RxTxPipe::SendAndFree.                                                   *)

\* "You can only send bytes that have been received and confirmed"
\* (pipe.h:1154).
Confirmed(p) == kBufMask(rx_tail[p] - app_begin[p])

RtxSendAndFree(p, nb) ==
  /\ p \in RxTxPipes => nb <= Confirmed(p)
  /\ SendAndFree(p, nb)
  /\ UNCHANGED rtxVars

\* Mutant: Send is taken to have kept the capacity.
SpentNot(cap, nb) == cap

\* Unsigned arithmetic.
Spent(cap, nb) == (cap - nb) % 2 ^ Width

\* TxPipe::SendAndFree has returned: only now is the last capacity lowered.
RtxRecord ==
  /\ Record
  /\ last_cap' = [p \in RxTxPipes |->
                    IF p = cur.pipe THEN Spent(last_cap[p], cur.nb)
                                    ELSE last_cap[p]]
  /\ UNCHANGED <<RxTxPipes, rx_head, rx_tail>>

-----------------------------------------------------------------------------
(* RxTxPipe::ProcessCompletions, at the end of Device::ProcessCompletions.  *)

\* Mutant: all the capacity there is, not the one gained, is freed.
GainedAll(new, old) == new

Gained(new, old) == IF new > old THEN new - old ELSE 0

RtxPopDone ==
  /\ PopDone
  /\ rx_head' = [p \in RxTxPipes |->
                   kBufMask(rx_head[p] + Gained(capacity(p), last_cap[p]))]
  /\ last_cap' = [p \in RxTxPipes |->
                    IF capacity(p) > last_cap[p] THEN capacity(p)
                                                 ELSE last_cap[p]]
  /\ UNCHANGED <<RxTxPipes, rx_tail>>

-----------------------------------------------------------------------------
OtherThreadStep ==
  /\ \/ InSendToQueue \/ SendToQueueReturn \/ RecordBlocked
     \/ InGetUnreported \/ GetUnreportedReturn \/ PopCompletion
     \/ ExtendAgain \/ ExtendDone
     \/ InSendConfig \/ SendConfigReturn
  /\ UNCHANGED rtxVars

RtxThreadStep ==
  \/ OtherThreadStep
  \/ RtxRecord \/ RtxPopDone
  \/ \E p \in RxTxPipes, nb \in {0, Quantum, 2 * Quantum} : RecvReturn(p, nb)

RtxNext ==
  \/ Recv
  \/ \E p \in Pages : \E nb \in Sendable(p) : RtxSendAndFree(p, nb)
  \/ \E p \in Pages \ RxTxPipes, nb \in Lengths :
       AllocateBuf(p, nb) /\ UNCHANGED rtxVars
  \/ TryExtendBuf /\ UNCHANGED rtxVars
  \/ ApplyConfig /\ UNCHANGED rtxVars
  \/ RtxThreadStep
  \/ NicStep /\ UNCHANGED rtxVars

RtxSpec == RtxInit /\ [][RtxNext]_allVars

\* As in TxPath.
RtxFairSpec ==
  /\ RtxSpec
  /\ WF_allVars(RtxThreadStep)
  /\ WF_allVars(NicStep /\ UNCHANGED rtxVars)

-----------------------------------------------------------------------------
(* Properties.                                                              *)

Bytes(first, nb) == {kBufMask(first + i) : i \in 0 .. nb - 1}

\* The NIC never writes a packet over one that the program holds, or has sent
\* and the NIC has yet to read for transmission.
RxNeverOverwrites ==
  \A p \in RxTxPipes :
    Bytes(rx_tail[p], Room(p))
      \cap (InFlight(p) \cup Bytes(app_begin[p], Confirmed(p))) = {}

\* The bytes of a send whose subtraction is still to come.
Unspent(p) == IF cur.pipe = p THEN cur.nb ELSE 0

\* No completed byte is forgotten and none freed twice, although Device::Send
\* may process completions between the two halves of SendAndFree: what has
\* completed and is not yet free for packets is what the capacities differ by.
CreditConserved ==
  \A p \in RxTxPipes :
    kBufMask(app_end[p] - rx_head[p]) = capacity(p) + Unspent(p) - last_cap[p]

\* Every call on a pipe returns: SendAndFree although it waits for room in both
\* rings, AllocateBuf although it polls for completions of what was sent before.
PipeCallsReturn == dev # "app" ~> dev = "app"
=============================================================================
