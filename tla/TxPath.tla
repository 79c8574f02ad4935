------------------------------- MODULE TxPath -------------------------------
(***************************************************************************)
(* The transmit path of one Device: its TxPipes (AllocateBuf, SendAndFree, *)
(* TryExtendBuf of include/enso/pipe.h), the ring of pending requests and  *)
(* Device::Send / Device::ProcessCompletions (src/enso/pipe.cpp), on top   *)
(* of the TX notification ring of module TxRing.  One thread runs all of   *)
(* it; the NIC runs beside it.                                             *)
(*                                                                         *)
(* A pipe's buffer is one hugepage, so pipe ids are the pages of TxRing.   *)
(* Bytes are counted one by one because capacity() leaves one byte, not    *)
(* one quantum, unused.                                                    *)
(***************************************************************************)
EXTENDS TxRing, FiniteSets, Functions

CONSTANT Quantum   \* TxPipe::kQuantumSize

ASSUME QuantumAssumption ==
  /\ Quantum \in Nat /\ Quantum >= 1
  /\ PageSize % Quantum = 0 /\ PageSize >= 2 * Quantum

\* The pending-request ring has as many entries as the notification ring.
kMaxPendingTxRequests == N - 1

\* A single update_tx_head call must not be able to reap every notification
\* behind which Device::Send can wait (64 of 16384 in the code).
ASSUME BatchBound == 2 * BatchSize <= N - 2

kMaxCapacity == PageSize - Quantum
kBufMask(x) == x % PageSize

Requests == [pipe : Pages, nb : 0 .. PageSize]
NoRequest == [pipe |-> 0, nb |-> 0]

VARIABLES
  app_begin,   \* per pipe: the next byte to be sent
  app_end,     \* per pipe: the next byte to be allocated
  pr,          \* tx_pending_requests_
  pr_head,     \* tx_pr_head_
  pr_tail,     \* tx_pr_tail_
  dev,         \* the Device or TxPipe call the thread is in
  dret,        \* where ProcessCompletions returns to
  todo,        \* completions ProcessCompletions still has to apply
  cur,         \* the request Device::Send is sending
  target       \* the pipe and the capacity ExtendBufToTarget waits for

pipeVars == <<app_begin, app_end>>
prVars == <<pr, pr_head, pr_tail>>
devVars == <<dev, dret, todo, cur, target>>
pathVars == <<vars, pipeVars, prVars, devVars>>

capacity(p) == kBufMask(app_end[p] - app_begin[p] - 1)

nb_pending_requests == (pr_tail - pr_head) % N

Devs == {"app", "sending", "record", "completing", "popping", "extend", "recv",
         "config"}

PathTypeOK ==
  /\ TypeOK
  /\ app_begin \in [Pages -> 0 .. PageSize - 1]
  /\ app_end \in [Pages -> 0 .. PageSize - 1]
  /\ pr \in [Slots -> Requests]
  /\ pr_head \in Slots /\ pr_tail \in Slots
  /\ dev \in Devs
  /\ dret \in {"app", "record", "extend", "recv"}
  /\ todo \in Nat
  /\ cur \in Requests /\ target \in Requests

PathInit ==
  /\ Init
  /\ app_begin = [p \in Pages |-> 0] /\ app_end = [p \in Pages |-> 0]
  /\ pr = [s \in Slots |-> NoRequest] /\ pr_head = 0 /\ pr_tail = 0
  /\ dev = "app" /\ dret = "app" /\ todo = 0
  /\ cur = NoRequest /\ target = NoRequest

-----------------------------------------------------------------------------
(* TxPipe::SendAndFree and Device::Send.                                    *)

\* The caller may send what it owns, in whole quanta.
Sendable(p) ==
  {nb \in Lengths : nb <= capacity(p) /\ nb <= kMaxCapacity /\ nb % Quantum = 0}

\* Mutant: the buffer is advanced by a quantum too many.
SendAndFreePads(p, nb) ==
  /\ dev = "app"
  /\ SendCall(p, app_begin[p], nb)
  /\ app_begin' = [app_begin EXCEPT ![p] = kBufMask(@ + nb + Quantum)]
  /\ dev' = "sending" /\ cur' = [pipe |-> p, nb |-> nb]
  /\ UNCHANGED <<app_end, prVars, dret, todo, target>>

SendAndFree(p, nb) ==
  /\ dev = "app"
  /\ SendCall(p, app_begin[p], nb)
  /\ app_begin' = [app_begin EXCEPT ![p] = kBufMask(@ + nb)]
  /\ dev' = "sending" /\ cur' = [pipe |-> p, nb |-> nb]
  /\ UNCHANGED <<app_end, prVars, dret, todo, target>>

InSendToQueue ==
  /\ dev = "sending"
  /\ SendBlocked \/ SendChunk \/ Update
  /\ UNCHANGED <<pipeVars, prVars, devVars>>

SendToQueueReturn ==
  /\ dev = "sending"
  /\ SendPublish
  /\ dev' = "record"
  /\ UNCHANGED <<pipeVars, prVars, dret, todo, cur, target>>

\* Mutant: it waits for room without processing completions.
RecordBlockedSpins ==
  /\ dev = "record" /\ nb_pending_requests >= kMaxPendingTxRequests - 2
  /\ UNCHANGED pathVars

\* Keep room for two requests in the pending ring.
RecordBlocked ==
  /\ dev = "record" /\ nb_pending_requests >= kMaxPendingTxRequests - 2
  /\ ReportCall
  /\ dev' = "completing" /\ dret' = "record"
  /\ UNCHANGED <<pipeVars, prVars, todo, cur, target>>

Record ==
  /\ dev = "record" /\ nb_pending_requests < kMaxPendingTxRequests - 2
  /\ pr' = [pr EXCEPT ![pr_tail] = cur]
  /\ pr_tail' = Next1(pr_tail)
  /\ dev' = "app" /\ cur' = NoRequest
  /\ UNCHANGED <<vars, pipeVars, pr_head, dret, todo, target>>

-----------------------------------------------------------------------------
(* Device::ProcessCompletions.                                              *)

InGetUnreported ==
  /\ dev = "completing"
  /\ Update
  /\ UNCHANGED <<pipeVars, prVars, devVars>>

GetUnreportedReturn ==
  /\ dev = "completing"
  /\ ReportReturn
  /\ todo' = nb_unreported
  /\ dev' = "popping"
  /\ UNCHANGED <<pipeVars, prVars, dret, cur, target>>

\* Mutant: the newest pending request is taken for the completed one.
PopCompletionNewest ==
  /\ dev = "popping" /\ todo > 0
  /\ LET last == (pr_tail - 1) % N
         req == pr[last]
     IN  /\ app_end' = [app_end EXCEPT ![req.pipe] = kBufMask(@ + req.nb)]
         /\ pr' = [pr EXCEPT ![last] = NoRequest]
         /\ pr_tail' = last
  /\ todo' = todo - 1
  /\ UNCHANGED <<vars, app_begin, pr_head, dev, dret, cur, target>>

\* The oldest pending request is complete: its pipe gets its bytes back.
PopCompletion ==
  /\ dev = "popping" /\ todo > 0
  /\ LET req == pr[pr_head]
     IN  app_end' = [app_end EXCEPT ![req.pipe] = kBufMask(@ + req.nb)]
  /\ pr' = [pr EXCEPT ![pr_head] = NoRequest]
  /\ pr_head' = Next1(pr_head)
  /\ todo' = todo - 1
  /\ UNCHANGED <<vars, app_begin, pr_tail, dev, dret, cur, target>>

PopDone ==
  /\ dev = "popping" /\ todo = 0
  /\ dev' = dret /\ dret' = "app"
  /\ UNCHANGED <<vars, pipeVars, prVars, todo, cur, target>>

-----------------------------------------------------------------------------
(* TxPipe::TryExtendBuf, AllocateBuf / ExtendBufToTarget, configuration.    *)

TryExtendBuf ==
  /\ dev = "app"
  /\ ReportCall
  /\ dev' = "completing"
  /\ UNCHANGED <<pipeVars, prVars, dret, todo, cur, target>>

AllocateBuf(p, nb) ==
  /\ dev = "app" /\ nb <= kMaxCapacity
  /\ dev' = "extend" /\ target' = [pipe |-> p, nb |-> nb]
  /\ UNCHANGED <<vars, pipeVars, prVars, dret, todo, cur>>

ExtendAgain ==
  /\ dev = "extend" /\ capacity(target.pipe) < target.nb
  /\ ReportCall
  /\ dev' = "completing" /\ dret' = "extend"
  /\ UNCHANGED <<pipeVars, prVars, todo, cur, target>>

ExtendDone ==
  /\ dev = "extend" /\ capacity(target.pipe) >= target.nb
  /\ dev' = "app" /\ target' = NoRequest
  /\ UNCHANGED <<vars, pipeVars, prVars, dret, todo, cur>>

\* Device::ApplyConfig and every other caller of send_config.
ApplyConfig ==
  /\ dev = "app"
  /\ ConfigCall
  /\ dev' = "config"
  /\ UNCHANGED <<pipeVars, prVars, dret, todo, cur, target>>

InSendConfig ==
  /\ dev = "config"
  /\ ConfigBlocked \/ ConfigPut \/ ConfigWait \/ Update
  /\ UNCHANGED <<pipeVars, prVars, devVars>>

SendConfigReturn ==
  /\ dev = "config"
  /\ ConfigReturn
  /\ dev' = "app"
  /\ UNCHANGED <<pipeVars, prVars, dret, todo, cur, target>>

NicStep == Nic /\ UNCHANGED <<pipeVars, prVars, devVars>>

-----------------------------------------------------------------------------
\* Steps of a call already made.
ThreadStep ==
  \/ InSendToQueue \/ SendToQueueReturn \/ RecordBlocked \/ Record
  \/ InGetUnreported \/ GetUnreportedReturn \/ PopCompletion \/ PopDone
  \/ ExtendAgain \/ ExtendDone
  \/ InSendConfig \/ SendConfigReturn

PathNext ==
  \/ \E p \in Pages : \E nb \in Sendable(p) : SendAndFree(p, nb)
  \/ \E p \in Pages, nb \in Lengths : AllocateBuf(p, nb)
  \/ TryExtendBuf
  \/ ApplyConfig
  \/ ThreadStep
  \/ NicStep

PathSpec == PathInit /\ [][PathNext]_pathVars

\* A thread inside a call keeps running (the library spins, it never sleeps),
\* and the NIC serves its queues.
PathFairness ==
  /\ WF_pathVars(ThreadStep)
  /\ WF_pathVars(NicRequest /\ UNCHANGED <<pipeVars, prVars, devVars>>)
  /\ WF_pathVars(NicFetch /\ UNCHANGED <<pipeVars, prVars, devVars>>)
  /\ WF_pathVars(NicComplete /\ UNCHANGED <<pipeVars, prVars, devVars>>)

PathFairSpec == PathSpec /\ PathFairness

-----------------------------------------------------------------------------
(* Properties.                                                              *)

\* Bytes of pipe p that a notification not yet completed still names.
InFlight(p) ==
  UNION {{(tx_buf[s].off + i) % PageSize : i \in 0 .. tx_buf[s].len - 1} :
           s \in {t \in Between(compl, s_tail) :
                    tx_buf[t].signal = 1 /\ tx_buf[t].page = p}}

\* Bytes the application may write: capacity(p) bytes from app_begin on.
Owned(p) == {(app_begin[p] + i) % PageSize : i \in 0 .. capacity(p) - 1}

\* The application never owns a byte that the NIC may still read: a buffer
\* returned by AllocateBuf is free of transmissions in progress.
AppNeverOwnsInFlight == \A p \in Pages : Owned(p) \cap InFlight(p) = {}

Pending == {s \in Slots : s \in Between(pr_head, pr_tail)}

\* The last notification of every request that is in the ring.
RequestEnds == {s \in Between(tx_head, s_tail) : ~wrap_tracker[s]}

\* 1 while Device::Send has put a request in the ring and not yet recorded it.
Unrecorded ==
  IF dev = "record" \/ dret = "record" \/ (dev = "sending" /\ s_missing = 0)
  THEN 1 ELSE 0

\* Completions pop exactly the requests they belong to: the requests recorded
\* are the ones in the ring, completed or not, plus the completions counted and
\* not yet applied.  In particular tx_pr_head_ never passes tx_pr_tail_
\* although Device::Send records a request after sending it.
CompletionsMatchRequests ==
  Cardinality(RequestEnds) + nb_unreported + todo
    = nb_pending_requests + Unrecorded

\* Every data request that the NIC has yet to complete is still pending, also
\* when send_config loses completions or its own is counted as one: a pipe gets
\* its bytes back late, never early.
InFlightIsPending ==
  Cardinality({s \in Between(compl, s_tail) :
                 ~wrap_tracker[s] /\ tx_buf[s].signal = 1})
    <= nb_pending_requests + Unrecorded

\* Bytes of pipe p in requests that are pending or being sent.
PendingBytes(p) ==
  LET len == [s \in Slots |-> IF pr[s].pipe = p THEN pr[s].nb ELSE 0]
  IN  SumFunctionOnSet(len, Pending) + (IF cur.pipe = p THEN cur.nb ELSE 0)

\* A byte of a pipe is the application's, the reserved one, or in a pending
\* request: the end of one pending request of a pipe is the start of the next,
\* from app_end to app_begin.
NoByteLost ==
  \A p \in Pages : capacity(p) + PendingBytes(p) = PageSize - 1

\* A blocked AllocateBuf returns once the NIC caught up, whatever was sent
\* before (it "will block until the buffer is at least this big", pipe.h:813).
AllocateBufReturns == dev = "extend" ~> dev = "app"
=============================================================================
