--------------------------- MODULE RtxPath_proofs ----------------------------
(***************************************************************************)
(* Proofs about transmission: the TX notification ring, for every ring,    *)
(* batch and page size, and the path of a Device above it, with TxPipes    *)
(* and RxTxPipes, for every number of pipes.                               *)
(*                                                                         *)
(* The ring comes first.  The invariant is RingInv: the type invariant,    *)
(* the cyclic order of the indices, the meaning of the signal field, and   *)
(* that outside __send_to_queue its local tail is the published one.       *)
(* ChunkInv adds what __send_to_queue still has to send, and WrapInv where *)
(* the next part of a request that goes on lies.                           *)
(*                                                                         *)
(* For the path above, the requests that are pending or being sent are     *)
(* numbered from the oldest.  The invariant says where each of them lies   *)
(* in its pipe, in which request and at which byte every notification in   *)
(* flight lies, and that requests are at least as far from being popped as *)
(* their notifications are from being counted.  Positions and numbers are  *)
(* not variables of the specification: the invariant says that they exist. *)
(***************************************************************************)
EXTENDS RtxPath, FiniteSetTheorems, Arithmetic, TLAPS

-----------------------------------------------------------------------------
(* The notification ring.                                                   *)

\* Outside __send_to_queue no slot beyond the published tail is in use.
LocalTail ==
  pc # "send" /\ ~(pc = "update" /\ ret = "send") => s_tail = tx_tail

RingInv ==
  TypeOK /\ RingOrder /\ SignalTellsCompletion /\ NicHoldsPublished /\ LocalTail

-----------------------------------------------------------------------------
(* Ring arithmetic.                                                         *)

LEMMA NextSlot ==
  ASSUME NEW i \in Slots
  PROVE  /\ Next1(i) \in Slots
         /\ Next1(i) = IF i = N - 1 THEN 0 ELSE i + 1
<1>1. CASE i = N - 1
  BY <1>1, NAssumption, Z3 DEF Next1, Slots
<1>2. CASE i # N - 1
  BY <1>2, NAssumption, Z3 DEF Next1, Slots
<1> QED BY <1>1, <1>2

\* software may fill a slot exactly when the one after it is not tx_head.
LEMMA FreeSlotsZero ==
  ASSUME NEW i \in Slots, tx_head \in Slots
  PROVE  FreeSlots(i) = 0 <=> Next1(i) = tx_head
<1>1. CASE tx_head > i
  BY <1>1, NAssumption, NextSlot, Z3 DEF FreeSlots, Slots
<1>2. CASE tx_head <= i
  BY <1>2, NAssumption, NextSlot, Z3 DEF FreeSlots, Slots
<1> QED BY <1>1, <1>2, NAssumption DEF Slots

LEMMA DistType ==
  ASSUME NEW a \in Slots, NEW b \in Slots
  PROVE  Dist(a, b) \in Slots
BY NAssumption DEF Dist, Slots

LEMMA ReqLengthType ==
  ASSUME TypeOK, s_missing > 0
  PROVE  /\ ReqLength \in 1 .. PageSize
         /\ s_missing - ReqLength \in 0 .. PageSize
         /\ (s_off + ReqLength) % PageSize \in 0 .. PageSize - 1
<1>1. /\ ReqLength \in 1 .. PageSize
      /\ s_missing - ReqLength \in 0 .. PageSize
  BY PageAssumption DEF TypeOK, ReqLength, Smaller
<1>2. s_off + ReqLength \in Int
  BY <1>1, PageAssumption DEF TypeOK
<1>3. (s_off + ReqLength) % PageSize \in 0 .. PageSize - 1
  BY <1>2, PageAssumption, Z3
<1> QED BY <1>1, <1>3

LEMMA FreeType == Free \in Notifications
BY PageAssumption DEF Free, Notifications, Signals, Pages

-----------------------------------------------------------------------------
(* Type correctness.                                                        *)

LEMMA InitType == Init => TypeOK
BY NAssumption, BatchAssumption, PageAssumption, StartsAssumption, FreeType
   DEF Init, TypeOK, Slots, Pages

LEMMA NextType == TypeOK /\ [Next]_vars => TypeOK'
<1> SUFFICES ASSUME TypeOK, [Next]_vars PROVE TypeOK'
  OBVIOUS
<1> USE NAssumption, BatchAssumption, PageAssumption DEF TypeOK
<1>1. ASSUME NEW p \in Pages, NEW off \in 0 .. PageSize - 1,
             NEW len \in Lengths, SendCall(p, off, len)
      PROVE  TypeOK'
  BY <1>1 DEF SendCall, swVars, nicVars
<1>2. CASE ReportCall
  BY <1>2 DEF ReportCall, CallUpdate, swVars, sendVars, nicVars
<1>3. CASE ConfigCall
  BY <1>3 DEF ConfigCall, swVars, sendVars, nicVars
<1>4. CASE SendBlocked
  BY <1>4 DEF SendBlocked, CallUpdate, swVars, sendVars, nicVars
<1>5. CASE SendChunk
  <2>1. /\ ReqLength \in 1 .. PageSize
        /\ s_missing - ReqLength \in 0 .. PageSize
        /\ (s_off + ReqLength) % PageSize \in 0 .. PageSize - 1
    BY <1>5, ReqLengthType DEF SendChunk
  <2>2. [signal |-> 1, page |-> s_page, off |-> s_off, len |-> ReqLength]
          \in Notifications
    BY <2>1 DEF Notifications, Signals
  <2>3. tx_buf' \in [Slots -> Notifications]
    BY <1>5, <2>2 DEF SendChunk
  <2>4. wrap_tracker' \in [Slots -> BOOLEAN]
    BY <1>5, <2>1 DEF SendChunk
  <2>5. s_tail' \in Slots /\ s_missing' \in 0 .. PageSize
        /\ s_off' \in 0 .. PageSize - 1
    BY <1>5, <2>1, NextSlot DEF SendChunk
  <2> QED BY <1>5, <2>3, <2>4, <2>5 DEF SendChunk, callVars, nicVars
<1>6. CASE SendPublish
  BY <1>6 DEF SendPublish, nicVars, Pages
<1>7. CASE ConfigBlocked
  BY <1>7 DEF ConfigBlocked, CallUpdate, swVars, sendVars, nicVars
<1>8. CASE ConfigPut
  <2>1. [Free EXCEPT !.signal = 2] \in Notifications
    BY DEF Free, Notifications, Signals, Pages
  <2>2. tx_buf' \in [Slots -> Notifications]
    BY <1>8, <2>1 DEF ConfigPut
  <2>3. Next1(tx_tail) \in Slots
    BY NextSlot
  <2> QED BY <1>8, <2>2, <2>3 DEF ConfigPut, nicVars
<1>9. CASE ConfigWait
  BY <1>9 DEF ConfigWait, CallUpdate, swVars, sendVars, nicVars
<1>10. CASE ConfigReturn
  BY <1>10 DEF ConfigReturn, sendVars, nicVars
<1>11. CASE ReportReturn
  BY <1>11 DEF ReportReturn, sendVars, nicVars
<1>12. CASE Reap
  <2>1. nb_unreported' \in Nat /\ left' \in 0 .. BatchSize
    BY <1>12 DEF Reap, CompletionsOf
  <2>2. wrap_tracker' \in [Slots -> BOOLEAN]
    BY <1>12 DEF Reap, WrapCleared
  <2>3. tx_head' \in Slots
    BY <1>12, NextSlot DEF Reap
  <2> QED BY <1>12, <2>1, <2>2, <2>3 DEF Reap, sendVars, nicVars
<1>13. CASE UpdateReturn
  BY <1>13 DEF UpdateReturn, swVars, sendVars, nicVars
<1>14. CASE NicRequest
  BY <1>14 DEF NicRequest, swVars, callVars, sendVars
<1>15. CASE NicFetch
  <2>1. fetch' \in Slots
    BY <1>15, NextSlot DEF NicFetch
  <2>2. meta' \in [Slots -> Notifications]
    BY <1>15 DEF NicFetch
  <2> QED BY <1>15, <2>1, <2>2 DEF NicFetch, swVars, callVars, sendVars
<1>16. CASE NicComplete
  <2>1. compl' \in Slots
    BY <1>16, NextSlot DEF NicComplete
  <2>2. tx_buf' \in [Slots -> Notifications] /\ meta' \in [Slots -> Notifications]
    BY <1>16, FreeType DEF NicComplete
  <2> QED BY <1>16, <2>1, <2>2 DEF NicComplete, swVars, callVars, sendVars
<1>17. CASE UNCHANGED vars
  BY <1>17 DEF vars
<1> QED
  BY <1>1, <1>2, <1>3, <1>4, <1>5, <1>6, <1>7, <1>8, <1>9, <1>10, <1>11, <1>12,
     <1>13, <1>14, <1>15, <1>16, <1>17
     DEF Next, SendSteps, ConfigSteps, Update, Nic

\* Every variable keeps its type: indices stay in the ring, every slot and every
\* descriptor of the NIC is a well-formed notification.
THEOREM TypeCorrect == Spec => []TypeOK
<1>1. Init => TypeOK
  BY InitType
<1>2. TypeOK /\ [Next]_vars => TypeOK'
  BY NextType
<1> QED BY <1>1, <1>2, PTL DEF Spec

-----------------------------------------------------------------------------
(* The order of the indices and the meaning of the signal field.            *)

LEMMA InitRing == Init => RingInv
<1> SUFFICES ASSUME Init PROVE RingInv
  OBVIOUS
<1>1. TypeOK
  BY InitType
<1>2. /\ tx_head \in 0 .. N - 1 /\ compl = tx_head /\ fetch = tx_head
      /\ rd_head = tx_head /\ tail_reg = tx_head /\ tx_tail = tx_head
      /\ s_tail = tx_head
  BY StartsAssumption DEF Init
<1>3. Dist(tx_head, tx_head) = 0
  BY <1>2, NAssumption DEF Dist
<1>4. RingOrder /\ LocalTail
  BY <1>2, <1>3 DEF RingOrder, LocalTail
<1>5. Between(tx_head, tx_head) = {}
  BY <1>2, NAssumption DEF Between
<1> QED BY <1>1, <1>2, <1>4, <1>5
        DEF RingInv, SignalTellsCompletion, NicHoldsPublished

LEMMA BetweenSlots ==
  ASSUME NEW a \in Slots, NEW b \in Slots
  PROVE  Between(a, b) \subseteq Slots
BY NAssumption DEF Between, Slots

\* Seen from h, a slot lies between a and b exactly when its distance does.
LEMMA BetweenDist ==
  ASSUME NEW h \in Slots, NEW a \in Slots, NEW b \in Slots, NEW s \in Slots,
         Dist(h, a) <= Dist(h, b)
  PROVE  s \in Between(a, b) <=> Dist(h, a) <= Dist(h, s) /\ Dist(h, s) < Dist(h, b)
<1>1. CASE h <= a /\ h <= b
  BY <1>1, NAssumption DEF Between, Dist, Slots
<1>2. CASE h > a /\ h <= b
  BY <1>2, NAssumption DEF Between, Dist, Slots
<1>3. CASE h <= a /\ h > b
  BY <1>3, NAssumption DEF Between, Dist, Slots
<1>4. CASE h > a /\ h > b
  BY <1>4, NAssumption DEF Between, Dist, Slots
<1> QED BY <1>1, <1>2, <1>3, <1>4, NAssumption DEF Slots

\* Moving one index by one slot.
LEMMA DistNext ==
  ASSUME NEW h \in Slots, NEW x \in Slots
  PROVE  /\ Dist(h, Next1(x)) = IF Next1(x) = h THEN 0 ELSE Dist(h, x) + 1
         /\ Dist(Next1(h), x) = IF x = h THEN N - 1 ELSE Dist(h, x) - 1
         /\ Dist(h, x) \in 0 .. N - 1
         /\ Dist(h, x) = 0 <=> x = h
         /\ Dist(h, x) = N - 1 <=> Next1(x) = h
<1>1. /\ Next1(x) = IF x = N - 1 THEN 0 ELSE x + 1
      /\ Next1(h) = IF h = N - 1 THEN 0 ELSE h + 1
  BY NextSlot
<1> QED BY <1>1, NAssumption DEF Dist, Slots

LEMMA DistInjective ==
  ASSUME NEW h \in Slots, NEW x \in Slots, NEW y \in Slots
  PROVE  Dist(h, x) = Dist(h, y) <=> x = y
BY NAssumption DEF Dist, Slots

\* SignalTellsCompletion and NicHoldsPublished, slot by slot, in distances from
\* tx_head.
BySlot(s) ==
  LET d(x) == Dist(tx_head, x)
  IN  /\ d(s) < d(compl) => tx_buf[s].signal = 0
      /\ d(compl) <= d(s) /\ d(s) < d(s_tail) => tx_buf[s].signal # 0
      /\ d(compl) <= d(s) /\ d(s) < d(fetch) => meta[s] = tx_buf[s]

LEMMA ToBySlot ==
  TypeOK /\ RingOrder =>
    (SignalTellsCompletion /\ NicHoldsPublished <=> \A s \in Slots : BySlot(s))
<1> SUFFICES ASSUME TypeOK, RingOrder
             PROVE  SignalTellsCompletion /\ NicHoldsPublished
                      <=> \A s \in Slots : BySlot(s)
  OBVIOUS
<1>1. tx_head \in Slots /\ compl \in Slots /\ fetch \in Slots /\ s_tail \in Slots
      /\ rd_head \in Slots /\ tx_tail \in Slots
  BY DEF TypeOK
<1>2. \A x \in Slots : Dist(tx_head, x) \in 0 .. N - 1
  BY <1>1, DistType DEF Slots
<1>3. Dist(tx_head, tx_head) = 0
  BY <1>1, NAssumption DEF Dist, Slots
<1>4. /\ Dist(tx_head, tx_head) <= Dist(tx_head, compl)
      /\ Dist(tx_head, compl) <= Dist(tx_head, fetch)
      /\ Dist(tx_head, compl) <= Dist(tx_head, s_tail)
  BY <1>1, <1>2, <1>3, NAssumption DEF RingOrder
<1>5. /\ Between(tx_head, compl) \subseteq Slots
      /\ Between(compl, s_tail) \subseteq Slots
      /\ Between(compl, fetch) \subseteq Slots
  BY <1>1, BetweenSlots
<1>6. \A s \in Slots :
        /\ s \in Between(tx_head, compl) <=> Dist(tx_head, s) < Dist(tx_head, compl)
        /\ s \in Between(compl, s_tail) <=>
             /\ Dist(tx_head, compl) <= Dist(tx_head, s)
             /\ Dist(tx_head, s) < Dist(tx_head, s_tail)
        /\ s \in Between(compl, fetch) <=>
             /\ Dist(tx_head, compl) <= Dist(tx_head, s)
             /\ Dist(tx_head, s) < Dist(tx_head, fetch)
  <2> TAKE s \in Slots
  <2>1. s \in Between(tx_head, compl) <=>
          /\ Dist(tx_head, tx_head) <= Dist(tx_head, s)
          /\ Dist(tx_head, s) < Dist(tx_head, compl)
    BY <1>1, <1>4, BetweenDist
  <2>2. Dist(tx_head, tx_head) <= Dist(tx_head, s)
    BY <1>2, <1>3, NAssumption
  <2>3. s \in Between(compl, s_tail) <=>
          /\ Dist(tx_head, compl) <= Dist(tx_head, s)
          /\ Dist(tx_head, s) < Dist(tx_head, s_tail)
    BY <1>1, <1>4, BetweenDist
  <2>4. s \in Between(compl, fetch) <=>
          /\ Dist(tx_head, compl) <= Dist(tx_head, s)
          /\ Dist(tx_head, s) < Dist(tx_head, fetch)
    BY <1>1, <1>4, BetweenDist
  <2> QED BY <2>1, <2>2, <2>3, <2>4
<1> QED BY <1>5, <1>6 DEF SignalTellsCompletion, NicHoldsPublished, BySlot

\* What the ring variables alone say.
Indices == <<tx_head, compl, fetch, rd_head, tail_reg, tx_tail, s_tail>>

LEMMA NextRing == RingInv /\ [Next]_vars => RingInv'
<1> SUFFICES ASSUME RingInv, [Next]_vars PROVE RingInv'
  OBVIOUS
<1> USE DEF RingInv
<1>0. TypeOK /\ TypeOK'
  BY NextType
<1>1. \A s \in Slots : BySlot(s)
  BY ToBySlot
<1>2. (TypeOK /\ RingOrder =>
        (SignalTellsCompletion /\ NicHoldsPublished <=> \A s \in Slots : BySlot(s)))'
  BY ToBySlot, PTL
<1>3. SUFFICES RingOrder' /\ LocalTail' /\ \A s \in Slots : BySlot(s)'
  BY <1>0, <1>2
<1>4. ASSUME UNCHANGED <<tx_buf, meta, Indices>>, LocalTail'
      PROVE  RingOrder' /\ LocalTail' /\ \A s \in Slots : BySlot(s)'
  BY <1>1, <1>4 DEF Indices, RingOrder, BySlot
<1>5. /\ tx_head \in Slots /\ compl \in Slots /\ fetch \in Slots
      /\ rd_head \in Slots /\ tail_reg \in Slots /\ tx_tail \in Slots
      /\ s_tail \in Slots
      /\ tx_buf \in [Slots -> Notifications] /\ meta \in [Slots -> Notifications]
  BY <1>0 DEF TypeOK
<1>6. \A x \in Slots : Dist(tx_head, x) \in 0 .. N - 1
  BY <1>5, DistNext
<1>7. \A x \in Slots, y \in Slots :
        Dist(tx_head, x) = Dist(tx_head, y) <=> x = y
  BY <1>5, DistInjective
<1>8. \A x \in Slots : /\ Next1(x) \in Slots
                       /\ Dist(tx_head, x) = N - 1 <=> Next1(x) = tx_head
                       /\ Dist(tx_head, x) # N - 1 =>
                            Dist(tx_head, Next1(x)) = Dist(tx_head, x) + 1
  BY <1>5, NextSlot, DistNext
<1>10. ASSUME NEW p \in Pages, NEW off \in 0 .. PageSize - 1,
              NEW len \in Lengths, SendCall(p, off, len)
       PROVE  RingOrder' /\ LocalTail' /\ \A s \in Slots : BySlot(s)'
  BY <1>4, <1>10 DEF SendCall, LocalTail, Indices, swVars, nicVars
<1>11. CASE ReportCall
  BY <1>4, <1>11 DEF ReportCall, CallUpdate, LocalTail, Indices, swVars, sendVars,
                     nicVars
<1>12. CASE ConfigCall
  BY <1>4, <1>12 DEF ConfigCall, LocalTail, Indices, swVars, sendVars, nicVars
<1>13. CASE SendBlocked
  BY <1>4, <1>13 DEF SendBlocked, CallUpdate, LocalTail, Indices, swVars, sendVars,
                     nicVars
<1>14. CASE SendChunk
  <2>1. Dist(tx_head, Next1(s_tail)) = Dist(tx_head, s_tail) + 1
    BY <1>5, <1>8, <1>14, FreeSlotsZero DEF SendChunk
  <2>2. UNCHANGED <<tx_head, compl, fetch, rd_head, tail_reg, tx_tail, meta, pc>>
        /\ s_tail' = Next1(s_tail) /\ pc = "send"
    BY <1>14 DEF SendChunk, callVars, nicVars
  <2>3. RingOrder' /\ LocalTail'
    BY <1>5, <1>6, <2>1, <2>2 DEF RingOrder, LocalTail
  <2>4. /\ tx_buf'[s_tail].signal = 1
        /\ \A s \in Slots \ {s_tail} : tx_buf'[s] = tx_buf[s]
    BY <1>5, <1>14 DEF SendChunk
  <2>5. Dist(tx_head, fetch) <= Dist(tx_head, s_tail)
        /\ Dist(tx_head, compl) <= Dist(tx_head, s_tail)
    BY <1>5, <1>6 DEF RingOrder
  <2>6. ASSUME NEW s \in Slots PROVE BySlot(s)'
    BY <1>1, <1>5, <1>6, <1>7, <2>1, <2>2, <2>4, <2>5 DEF BySlot
  <2> QED BY <2>3, <2>6
<1>15. CASE SendPublish
  <2>1. UNCHANGED <<tx_head, compl, fetch, rd_head, s_tail, tx_buf, meta>>
        /\ tx_tail' = s_tail /\ tail_reg' = s_tail
    BY <1>15 DEF SendPublish, nicVars
  <2>2. RingOrder' /\ LocalTail'
    BY <1>5, <1>6, <2>1 DEF RingOrder, LocalTail
  <2> QED BY <1>1, <2>1, <2>2 DEF BySlot
<1>16. CASE ConfigBlocked
  BY <1>4, <1>16 DEF ConfigBlocked, CallUpdate, LocalTail, Indices, swVars,
                     sendVars, nicVars
<1>17. CASE ConfigPut
  <2>1. s_tail = tx_tail
    BY <1>17 DEF ConfigPut, LocalTail
  <2>2. Dist(tx_head, Next1(s_tail)) = Dist(tx_head, s_tail) + 1
    BY <1>5, <1>8, <1>17, <2>1, FreeSlotsZero DEF ConfigPut
  <2>3. UNCHANGED <<tx_head, compl, fetch, rd_head, meta>>
        /\ s_tail' = Next1(s_tail) /\ tx_tail' = s_tail' /\ tail_reg' = s_tail'
    BY <1>17, <2>1 DEF ConfigPut, nicVars
  <2>4. RingOrder' /\ LocalTail'
    BY <1>5, <1>6, <2>2, <2>3 DEF RingOrder, LocalTail
  <2>5. /\ tx_buf'[s_tail].signal = 2
        /\ \A s \in Slots \ {s_tail} : tx_buf'[s] = tx_buf[s]
    BY <1>5, <1>17, <2>1 DEF ConfigPut, Free
  <2>6. Dist(tx_head, fetch) <= Dist(tx_head, s_tail)
        /\ Dist(tx_head, compl) <= Dist(tx_head, s_tail)
    BY <1>5, <1>6 DEF RingOrder
  <2>7. ASSUME NEW s \in Slots PROVE BySlot(s)'
    BY <1>1, <1>5, <1>6, <1>7, <2>2, <2>3, <2>5, <2>6 DEF BySlot
  <2> QED BY <2>4, <2>7
<1>18. CASE ConfigWait
  BY <1>4, <1>18 DEF ConfigWait, CallUpdate, LocalTail, Indices, swVars, sendVars,
                     nicVars
<1>19. CASE ConfigReturn
  BY <1>4, <1>19 DEF ConfigReturn, LocalTail, Indices, sendVars, nicVars
<1>20. CASE ReportReturn
  BY <1>4, <1>20 DEF ReportReturn, LocalTail, Indices, sendVars, nicVars
<1>21. CASE Reap
  <2>1. UNCHANGED <<compl, fetch, rd_head, tail_reg, tx_tail, s_tail, tx_buf,
                    meta, pc, ret>> /\ tx_head' = Next1(tx_head)
    BY <1>21 DEF Reap, sendVars, nicVars
  <2>2. Dist(tx_head, tx_head) = 0 /\ Dist(tx_head, tx_tail) > 0
    BY <1>5, <1>6, <1>21, DistNext, NAssumption DEF Reap
  <2>3. Dist(tx_head, compl) > 0
    BY <1>1, <1>5, <1>6, <1>21, <2>2 DEF Reap, BySlot, RingOrder
  <2>4. \A x \in Slots : Dist(tx_head', x) = IF x = tx_head THEN N - 1
                                              ELSE Dist(tx_head, x) - 1
    BY <1>5, <2>1, DistNext
  <2>5. /\ Dist(tx_head', compl) = Dist(tx_head, compl) - 1
        /\ Dist(tx_head', fetch) = Dist(tx_head, fetch) - 1
        /\ Dist(tx_head', rd_head) = Dist(tx_head, rd_head) - 1
        /\ Dist(tx_head', tail_reg) = Dist(tx_head, tail_reg) - 1
        /\ Dist(tx_head', s_tail) = Dist(tx_head, s_tail) - 1
    BY <1>5, <1>6, <2>2, <2>3, <2>4 DEF RingOrder
  <2>6. RingOrder' /\ LocalTail'
    BY <1>5, <1>6, <2>1, <2>5 DEF RingOrder, LocalTail
  <2>7. ASSUME NEW s \in Slots PROVE BySlot(s)'
    BY <1>1, <1>5, <1>6, <2>1, <2>4, <2>5, NAssumption DEF BySlot
  <2> QED BY <2>6, <2>7
<1>22. CASE UpdateReturn
  BY <1>4, <1>22 DEF UpdateReturn, LocalTail, Indices, swVars, sendVars, nicVars
<1>23. CASE NicRequest
  <2>1. UNCHANGED <<tx_head, compl, fetch, tail_reg, tx_tail, s_tail, tx_buf, meta,
                    pc, ret>> /\ rd_head' = tail_reg
    BY <1>23 DEF NicRequest, swVars, callVars, sendVars
  <2>2. RingOrder' /\ LocalTail'
    BY <1>5, <1>6, <2>1 DEF RingOrder, LocalTail
  <2> QED BY <1>1, <2>1, <2>2 DEF BySlot
<1>24. CASE NicFetch
  <2>1. UNCHANGED <<tx_head, compl, rd_head, tail_reg, tx_tail, s_tail, tx_buf, pc,
                    ret>> /\ fetch' = Next1(fetch)
    BY <1>24 DEF NicFetch, swVars, callVars, sendVars
  <2>2. Dist(tx_head, fetch) < Dist(tx_head, rd_head)
    BY <1>5, <1>6, <1>7, <1>24 DEF NicFetch, RingOrder
  <2>3. Dist(tx_head, Next1(fetch)) = Dist(tx_head, fetch) + 1
    BY <1>5, <1>6, <1>8, <2>2, NAssumption
  <2>4. RingOrder' /\ LocalTail'
    BY <1>5, <1>6, <2>1, <2>2, <2>3 DEF RingOrder, LocalTail
  <2>5. /\ meta'[fetch] = tx_buf[fetch]
        /\ \A s \in Slots \ {fetch} : meta'[s] = meta[s]
    BY <1>5, <1>24 DEF NicFetch
  <2>6. ASSUME NEW s \in Slots PROVE BySlot(s)'
    BY <1>1, <1>5, <1>6, <1>7, <2>1, <2>3, <2>5 DEF BySlot
  <2> QED BY <2>4, <2>6
<1>25. CASE NicComplete
  <2>1. UNCHANGED <<tx_head, fetch, rd_head, tail_reg, tx_tail, s_tail, pc, ret>>
        /\ compl' = Next1(compl)
    BY <1>25 DEF NicComplete, swVars, callVars, sendVars
  <2>2. Dist(tx_head, compl) < Dist(tx_head, fetch)
    BY <1>5, <1>6, <1>7, <1>25 DEF NicComplete, RingOrder
  <2>3. Dist(tx_head, Next1(compl)) = Dist(tx_head, compl) + 1
    BY <1>5, <1>6, <1>8, <2>2, NAssumption
  <2>4. RingOrder' /\ LocalTail'
    BY <1>5, <1>6, <2>1, <2>2, <2>3 DEF RingOrder, LocalTail
  <2>5. /\ tx_buf'[compl].signal = 0
        /\ \A s \in Slots \ {compl} : tx_buf'[s] = tx_buf[s] /\ meta'[s] = meta[s]
    BY <1>5, <1>25 DEF NicComplete, Free
  <2>6. ASSUME NEW s \in Slots PROVE BySlot(s)'
    BY <1>1, <1>5, <1>6, <1>7, <2>1, <2>3, <2>5 DEF BySlot
  <2> QED BY <2>4, <2>6
<1>26. CASE UNCHANGED vars
  BY <1>4, <1>26 DEF vars, LocalTail, Indices
<1> QED
  BY <1>10, <1>11, <1>12, <1>13, <1>14, <1>15, <1>16, <1>17, <1>18, <1>19, <1>20,
     <1>21, <1>22, <1>23, <1>24, <1>25, <1>26
     DEF Next, SendSteps, ConfigSteps, Update, Nic

\* RingInv holds in every reachable state.
THEOREM RingInvariant == Spec => []RingInv
<1>1. Init => RingInv
  BY InitRing
<1>2. RingInv /\ [Next]_vars => RingInv'
  BY NextRing
<1> QED BY <1>1, <1>2, PTL DEF Spec

\* For every ring and batch size the indices of software and NIC keep their
\* order, although the NIC never sees tx_head: the free-slot computation of
\* __send_to_queue and send_config alone prevents an overrun.
THEOREM RingNeverOverrun == Spec => []RingOrder
<1>1. RingInv => RingOrder
  BY DEF RingInv
<1> QED BY <1>1, RingInvariant, PTL

\* update_tx_head may trust the signal field of every slot from tx_head to
\* tx_tail: it is clear exactly in the completed ones.
THEOREM SignalIsExact == Spec => []SignalTellsCompletion
<1>1. RingInv => SignalTellsCompletion
  BY DEF RingInv
<1> QED BY <1>1, RingInvariant, PTL

\* The slot of a descriptor the NIC works on is not refilled before the
\* completion overwrites it.
THEOREM NoRefillInFlight == Spec => []NicHoldsPublished
<1>1. RingInv => NicHoldsPublished
  BY DEF RingInv
<1> QED BY <1>1, RingInvariant, PTL

-----------------------------------------------------------------------------
(* The shape of the notifications.                                          *)

\* Every data notification, wherever it is in the ring, has the shape that
\* ChunkWithinPage asks of the ones in use.
ChunkInv ==
  \A s \in Slots :
    tx_buf[s].signal = 1 =>
      /\ tx_buf[s].len \in 1 .. MaxTransfer
      /\ tx_buf[s].off + tx_buf[s].len <= PageSize

LEMMA InitChunk == Init => ChunkInv
BY DEF Init, ChunkInv, Free

LEMMA NextChunk == TypeOK /\ ChunkInv /\ [Next]_vars => ChunkInv'
<1> SUFFICES ASSUME TypeOK, ChunkInv, [Next]_vars PROVE ChunkInv'
  OBVIOUS
<1>1. tx_buf \in [Slots -> Notifications]
  BY DEF TypeOK
<1>2. ASSUME UNCHANGED tx_buf PROVE ChunkInv'
  BY <1>2 DEF ChunkInv
<1>3. CASE SendChunk
  <2>1. /\ ReqLength \in 1 .. MaxTransfer
        /\ s_off + ReqLength <= PageSize
    BY <1>3, PageAssumption DEF SendChunk, TypeOK, ReqLength, Smaller
  <2>2. tx_buf' = [tx_buf EXCEPT ![s_tail] =
                     [signal |-> 1, page |-> s_page, off |-> s_off,
                      len |-> ReqLength]]
    BY <1>3 DEF SendChunk
  <2> QED BY <1>1, <2>1, <2>2 DEF ChunkInv
<1>4. CASE ConfigPut
  <2>1. tx_buf' = [tx_buf EXCEPT ![tx_tail] = [Free EXCEPT !.signal = 2]]
    BY <1>4 DEF ConfigPut
  <2> QED BY <1>1, <2>1 DEF ChunkInv, Free
<1>5. CASE NicComplete
  <2>1. tx_buf' = [tx_buf EXCEPT ![compl] = Free]
    BY <1>5 DEF NicComplete
  <2> QED BY <1>1, <2>1 DEF ChunkInv, Free
<1>6. CASE SendSteps
  BY <1>2, <1>3, <1>6 DEF SendSteps, SendBlocked, SendPublish
<1>7. CASE ConfigSteps
  BY <1>2, <1>4, <1>7
     DEF ConfigSteps, ConfigBlocked, ConfigWait, ConfigReturn
<1>8. CASE Nic
  BY <1>2, <1>5, <1>8 DEF Nic, NicRequest, NicFetch
<1>9. CASE ReportReturn \/ Update
  BY <1>2, <1>9 DEF ReportReturn, Update, Reap, UpdateReturn
<1>10. CASE ReportCall \/ ConfigCall
  BY <1>2, <1>10 DEF ReportCall, ConfigCall
<1>11. ASSUME NEW p \in Pages, NEW off \in 0 .. PageSize - 1,
              NEW len \in Lengths, SendCall(p, off, len)
       PROVE  ChunkInv'
  BY <1>2, <1>11 DEF SendCall
<1>12. CASE UNCHANGED vars
  BY <1>2, <1>12 DEF vars
<1> QED BY <1>6, <1>7, <1>8, <1>9, <1>10, <1>11, <1>12 DEF Next

\* For every page size, transfer limit and request length, each notification in
\* use is a non-empty transfer inside its hugepage.
THEOREM ChunksWellFormed == Spec => []ChunkWithinPage
<1>1. TypeOK /\ ChunkInv => ChunkWithinPage
  <2> SUFFICES ASSUME TypeOK, ChunkInv PROVE ChunkWithinPage
    OBVIOUS
  <2>1. Between(compl, s_tail) \subseteq Slots
    BY BetweenSlots DEF TypeOK
  <2> QED BY <2>1 DEF ChunkInv, ChunkWithinPage
<1> QED BY <1>1, InitChunk, NextChunk, TypeCorrect, PTL DEF Spec

-----------------------------------------------------------------------------
(* The wrap tracker.                                                        *)

\* Slot s, when its request continues, in distances from tx_head: the slot is in
\* use, it is not the last one published, and what follows it in the ring, or is
\* about to be put there, follows it in the buffer.
WrapSlot(s) ==
  LET d(x) == Dist(tx_head, x)
  IN  wrap_tracker[s] =>
        /\ d(s) < d(s_tail) /\ Next1(s) # tx_tail
        /\ d(compl) <= d(s) /\ Next1(s) # s_tail =>
             /\ tx_buf[Next1(s)].page = tx_buf[s].page
             /\ tx_buf[Next1(s)].off = (tx_buf[s].off + tx_buf[s].len) % PageSize
        /\ Next1(s) = s_tail =>
             /\ s_missing > 0 /\ s_page = tx_buf[s].page
             /\ s_off = (tx_buf[s].off + tx_buf[s].len) % PageSize

\* Bytes are missing only inside __send_to_queue.
MissingInSend == s_missing > 0 => pc = "send" \/ (pc = "update" /\ ret = "send")

WrapInv == MissingInSend /\ \A s \in Slots : WrapSlot(s)

LEMMA InitWrap == Init => WrapInv
BY PageAssumption DEF Init, WrapInv, MissingInSend, WrapSlot

LEMMA NextWrap == RingInv /\ RingInv' /\ WrapInv /\ [Next]_vars => WrapInv'
<1> SUFFICES ASSUME RingInv, RingInv', WrapInv, [Next]_vars PROVE WrapInv'
  OBVIOUS
<1>0. TypeOK /\ RingOrder /\ LocalTail /\ MissingInSend /\ (\A s \in Slots : WrapSlot(s))
  BY DEF RingInv, WrapInv
<1>1. ASSUME UNCHANGED <<tx_buf, Indices, wrap_tracker, s_page, s_off, s_missing>>,
             MissingInSend'
      PROVE  WrapInv'
  BY <1>0, <1>1 DEF Indices, WrapSlot, WrapInv
<1>5. /\ tx_head \in Slots /\ compl \in Slots /\ tx_tail \in Slots /\ s_tail \in Slots
      /\ tx_buf \in [Slots -> Notifications] /\ wrap_tracker \in [Slots -> BOOLEAN]
      /\ s_missing \in 0 .. PageSize
  BY <1>0 DEF TypeOK
<1>6. \A x \in Slots : Dist(tx_head, x) \in 0 .. N - 1
  BY <1>5, DistNext
<1>7. \A x \in Slots, y \in Slots :
        Dist(tx_head, x) = Dist(tx_head, y) <=> x = y
  BY <1>5, DistInjective
<1>8. \A x \in Slots : /\ Next1(x) \in Slots
                       /\ Dist(tx_head, x) = N - 1 <=> Next1(x) = tx_head
                       /\ Dist(tx_head, x) # N - 1 =>
                            Dist(tx_head, Next1(x)) = Dist(tx_head, x) + 1
  BY <1>5, NextSlot, DistNext
<1>9. /\ Dist(tx_head, compl) <= Dist(tx_head, tx_tail)
      /\ Dist(tx_head, tx_tail) <= Dist(tx_head, s_tail)
  <2>1. Dist(tx_head, fetch) \in 0 .. N - 1 /\ Dist(tx_head, rd_head) \in 0 .. N - 1
    BY <1>0, <1>6 DEF TypeOK
  <2> QED BY <1>0, <1>5, <1>6, <2>1 DEF RingOrder
<1>10. N \in Nat /\ N >= 2
  BY NAssumption
<1>a. \A x \in Slots : Dist(tx_head, x) \in Nat /\ Dist(tx_head, x) < N
  BY <1>6, <1>10
<1>b. ASSUME NEW x \in Slots, NEW y \in Slots, Dist(tx_head, x) < Dist(tx_head, y)
      PROVE  Dist(tx_head, Next1(x)) = Dist(tx_head, x) + 1
  <2>1. /\ Dist(tx_head, x) \in Nat /\ Dist(tx_head, y) \in Nat /\ Dist(tx_head, y) < N
    BY <1>a
  <2>2. Dist(tx_head, x) # N - 1
    BY <1>b, <1>10, <2>1
  <2> QED BY <1>8, <2>2
<1>11. ASSUME NEW p \in Pages, NEW off \in 0 .. PageSize - 1,
              NEW len \in Lengths, SendCall(p, off, len)
       PROVE  WrapInv'
  <2>1. pc = "idle" /\ pc' = "send" /\ s_tail' = tx_tail
        /\ UNCHANGED <<tx_buf, tx_head, tx_tail, compl, wrap_tracker>>
    BY <1>11 DEF SendCall, swVars, nicVars
  <2>2. s_tail = tx_tail
    BY <1>0, <2>1 DEF LocalTail
  <2> QED BY <1>0, <2>1, <2>2 DEF WrapInv, WrapSlot, MissingInSend
<1>12. CASE ReportCall \/ ConfigCall \/ ConfigBlocked \/ ConfigWait \/ SendBlocked
            \/ ReportReturn \/ ConfigReturn \/ UpdateReturn
  <2>1. UNCHANGED <<tx_buf, Indices, wrap_tracker, s_page, s_off, s_missing>>
    BY <1>12 DEF ReportCall, ConfigCall, ConfigBlocked, ConfigWait, SendBlocked,
        ReportReturn, ConfigReturn, UpdateReturn, Indices, swVars, sendVars, nicVars
  <2>2. MissingInSend'
    BY <1>0, <1>12 DEF ReportCall, ConfigCall, ConfigBlocked, ConfigWait, SendBlocked,
        ReportReturn, ConfigReturn, UpdateReturn, CallUpdate, sendVars, MissingInSend
  <2> QED BY <1>1, <2>1, <2>2
<1>13. CASE SendChunk
  <2>1. /\ UNCHANGED <<tx_head, compl, tx_tail, s_page, pc>>
        /\ s_tail' = Next1(s_tail) /\ pc = "send"
        /\ wrap_tracker' = [wrap_tracker EXCEPT ![s_tail] = @ \/ s_missing > ReqLength]
        /\ tx_buf' = [tx_buf EXCEPT ![s_tail] =
                        [signal |-> 1, page |-> s_page, off |-> s_off, len |-> ReqLength]]
        /\ s_off' = (s_off + ReqLength) % PageSize
        /\ s_missing' = s_missing - ReqLength /\ s_missing > 0
    BY <1>13 DEF SendChunk, callVars, nicVars
  <2>2. Dist(tx_head, s_tail) # N - 1
        /\ Dist(tx_head, Next1(s_tail)) = Dist(tx_head, s_tail) + 1
    BY <1>5, <1>8, <1>13, FreeSlotsZero DEF SendChunk
  <2>3. ~wrap_tracker[s_tail]
    BY <1>0, <1>5, <1>a DEF WrapSlot
  <2>4. ReqLength \in 1 .. PageSize /\ s_missing - ReqLength \in 0 .. PageSize
    BY <1>0, <2>1, ReqLengthType
  <2>5. wrap_tracker'[s_tail] <=> s_missing > ReqLength
    BY <1>5, <2>1, <2>3
  <2>6. tx_buf'[s_tail] = [signal |-> 1, page |-> s_page, off |-> s_off, len |-> ReqLength]
    BY <1>5, <2>1
  <2>7. ASSUME NEW s \in Slots, s = s_tail PROVE WrapSlot(s)'
    <3>1. Next1(s_tail) # tx_tail
      BY <1>5, <1>8, <1>9, <1>a, <2>2
    <3>2. s_missing > ReqLength => s_missing' > 0
      BY <1>5, <2>1, <2>4
    <3>3. Dist(tx_head, s_tail) < Dist(tx_head, Next1(s_tail))
      BY <1>5, <1>a, <2>2
    <3> QED BY <2>1, <2>5, <2>6, <2>7, <3>1, <3>2, <3>3 DEF WrapSlot
  <2>8. ASSUME NEW s \in Slots, s # s_tail PROVE WrapSlot(s)'
    <3>1. wrap_tracker'[s] = wrap_tracker[s] /\ tx_buf'[s] = tx_buf[s]
      BY <1>5, <2>1, <2>8
    <3> SUFFICES ASSUME wrap_tracker[s]
                 PROVE  /\ Dist(tx_head, s) < Dist(tx_head, Next1(s_tail))
                        /\ Next1(s) # tx_tail
                        /\ Dist(tx_head, compl) <= Dist(tx_head, s)
                             /\ Next1(s) # Next1(s_tail) =>
                             /\ tx_buf'[Next1(s)].page = tx_buf[s].page
                             /\ tx_buf'[Next1(s)].off
                                  = (tx_buf[s].off + tx_buf[s].len) % PageSize
                        /\ Next1(s) # Next1(s_tail)
      BY <2>1, <3>1 DEF WrapSlot
    <3>2. Dist(tx_head, s) < Dist(tx_head, s_tail) /\ Next1(s) # tx_tail
      BY <1>0 DEF WrapSlot
    <3>3. Dist(tx_head, Next1(s)) = Dist(tx_head, s) + 1
      BY <1>5, <1>b, <3>2
    <3>4. Next1(s) # Next1(s_tail) /\ Dist(tx_head, s) < Dist(tx_head, Next1(s_tail))
      BY <1>5, <1>a, <2>2, <3>2, <3>3
    <3>5. CASE Next1(s) = s_tail
      BY <1>0, <2>6, <3>2, <3>4, <3>5 DEF WrapSlot
    <3>6. CASE Next1(s) # s_tail
      <4>1. tx_buf'[Next1(s)] = tx_buf[Next1(s)]
        BY <1>5, <1>8, <2>1, <3>6
      <4> QED BY <1>0, <3>2, <3>4, <3>6, <4>1 DEF WrapSlot
    <3> QED BY <3>5, <3>6
  <2>9. MissingInSend'
    BY <2>1 DEF MissingInSend
  <2> QED BY <2>7, <2>8, <2>9 DEF WrapInv
<1>14. CASE SendPublish
  <2>1. /\ UNCHANGED <<tx_head, compl, s_tail, tx_buf, wrap_tracker, s_missing>>
        /\ tx_tail' = s_tail /\ s_missing = 0
    BY <1>14 DEF SendPublish, nicVars
  <2>2. ASSUME NEW s \in Slots PROVE WrapSlot(s)'
    <3>1. WrapSlot(s)
      BY <1>0
    <3>2. wrap_tracker[s] => Next1(s) # s_tail
      BY <2>1, <3>1 DEF WrapSlot
    <3> QED BY <2>1, <3>1, <3>2 DEF WrapSlot
  <2> QED BY <2>1, <2>2 DEF WrapInv, MissingInSend
<1>15. CASE ConfigPut
  <2>1. /\ UNCHANGED <<tx_head, compl, wrap_tracker, s_missing>>
        /\ tx_tail' = Next1(tx_tail) /\ s_tail' = Next1(tx_tail) /\ pc = "cfg_put"
        /\ tx_buf' = [tx_buf EXCEPT ![tx_tail] = [Free EXCEPT !.signal = 2]]
    BY <1>15 DEF ConfigPut, nicVars
  <2>2. s_tail = tx_tail /\ ~(s_missing > 0)
    BY <1>0, <2>1 DEF LocalTail, MissingInSend
  <2>3. Dist(tx_head, Next1(tx_tail)) = Dist(tx_head, tx_tail) + 1
    BY <1>5, <1>8, <1>15, FreeSlotsZero DEF ConfigPut
  <2>4. ASSUME NEW s \in Slots, wrap_tracker[s]
        PROVE  /\ Dist(tx_head, s) < Dist(tx_head, tx_tail) /\ Next1(s) # tx_tail
               /\ s # tx_tail /\ Next1(s) # Next1(tx_tail)
               /\ Dist(tx_head, s) < Dist(tx_head, Next1(tx_tail))
               /\ tx_buf'[s] = tx_buf[s] /\ tx_buf'[Next1(s)] = tx_buf[Next1(s)]
    <3>1. Dist(tx_head, s) < Dist(tx_head, tx_tail) /\ Next1(s) # tx_tail
      BY <1>0, <2>2, <2>4 DEF WrapSlot
    <3>2. Dist(tx_head, Next1(s)) = Dist(tx_head, s) + 1
      BY <1>5, <1>b, <3>1
    <3>3. s # tx_tail /\ Next1(s) # Next1(tx_tail)
          /\ Dist(tx_head, s) < Dist(tx_head, Next1(tx_tail))
      BY <1>5, <1>a, <2>3, <3>1, <3>2
    <3> QED BY <1>5, <1>8, <2>1, <3>1, <3>3
  <2>5. ASSUME NEW s \in Slots PROVE WrapSlot(s)'
    <3>1. WrapSlot(s)
      BY <1>0
    <3> QED BY <2>1, <2>2, <2>4, <3>1 DEF WrapSlot
  <2> QED BY <2>1, <2>2, <2>5 DEF WrapInv, MissingInSend
<1>16. CASE Reap
  <2>1. /\ UNCHANGED <<tx_buf, compl, s_tail, tx_tail, s_page, s_off, s_missing, pc, ret>>
        /\ tx_head' = Next1(tx_head) /\ tx_head # tx_tail
        /\ wrap_tracker' = [wrap_tracker EXCEPT ![tx_head] = FALSE]
    BY <1>16 DEF Reap, WrapCleared, sendVars, nicVars
  <2>2. \A x \in Slots : Dist(Next1(tx_head), x) =
                           IF x = tx_head THEN N - 1 ELSE Dist(tx_head, x) - 1
    BY <1>5, DistNext
  <2>3. \A x \in Slots : x # tx_head => Dist(tx_head, x) > 0
    BY <1>5, <1>6, DistNext
  <2>4. s_tail # tx_head /\ compl # tx_head
    <3>1. s_tail # tx_head
      BY <1>5, <1>9, <1>a, <2>1, <2>3, DistNext
    <3>2. compl = tx_head => tx_buf[tx_head].signal # 0
      <4>1. BySlot(tx_head)
        BY <1>0, <1>5, ToBySlot DEF RingInv
      <4>2. Dist(tx_head, tx_head) = 0 /\ Dist(tx_head, s_tail) > 0
        BY <1>5, <2>3, <3>1, DistNext
      <4>3. SUFFICES ASSUME compl = tx_head PROVE tx_buf[tx_head].signal # 0
        OBVIOUS
      <4>4. Dist(tx_head, compl) <= Dist(tx_head, tx_head)
            /\ Dist(tx_head, tx_head) < Dist(tx_head, s_tail)
        BY <4>2, <4>3
      <4> QED BY <4>1, <4>4 DEF BySlot
    <3> QED BY <1>16, <3>1, <3>2 DEF Reap
  <2>5. ASSUME NEW s \in Slots PROVE WrapSlot(s)'
    <3>1. CASE s = tx_head
      BY <1>5, <2>1, <3>1 DEF WrapSlot
    <3>2. CASE s # tx_head
      <4>1. wrap_tracker'[s] = wrap_tracker[s]
        BY <1>5, <2>1, <3>2
      <4>2. /\ Dist(Next1(tx_head), s) = Dist(tx_head, s) - 1
            /\ Dist(Next1(tx_head), s_tail) = Dist(tx_head, s_tail) - 1
            /\ Dist(Next1(tx_head), compl) = Dist(tx_head, compl) - 1
        BY <1>5, <2>2, <2>4, <3>2
      <4>3. WrapSlot(s)
        BY <1>0
      <4>4. /\ Dist(Next1(tx_head), s) < Dist(Next1(tx_head), s_tail)
                 <=> Dist(tx_head, s) < Dist(tx_head, s_tail)
            /\ Dist(Next1(tx_head), compl) <= Dist(Next1(tx_head), s)
                 <=> Dist(tx_head, compl) <= Dist(tx_head, s)
        BY <1>5, <1>a, <4>2
      <4> QED BY <2>1, <4>1, <4>3, <4>4 DEF WrapSlot
    <3> QED BY <3>1, <3>2
  <2> QED BY <1>0, <2>1, <2>5 DEF WrapInv, MissingInSend
<1>17. CASE NicRequest \/ NicFetch
  BY <1>0, <1>17 DEF NicRequest, NicFetch, swVars, callVars, sendVars, WrapInv, WrapSlot,
                     MissingInSend
<1>18. CASE NicComplete
  <2>1. /\ UNCHANGED <<tx_head, tx_tail, wrap_tracker, s_tail, s_page, s_off, s_missing,
                       pc, ret>>
        /\ tx_buf' = [tx_buf EXCEPT ![compl] = Free] /\ compl' = Next1(compl)
        /\ compl # fetch
    BY <1>18 DEF NicComplete, swVars, callVars, sendVars
  <2>2. Dist(tx_head, compl) < Dist(tx_head, tx_tail)
    <3>1. fetch \in Slots /\ rd_head \in Slots
      BY <1>0 DEF TypeOK
    <3> QED BY <1>0, <1>5, <1>7, <1>a, <2>1, <3>1 DEF RingOrder
  <2>3. Dist(tx_head, Next1(compl)) = Dist(tx_head, compl) + 1
    BY <1>5, <1>b, <2>2
  <2>4. ASSUME NEW s \in Slots PROVE WrapSlot(s)'
    <3>1. WrapSlot(s)
      BY <1>0
    <3> SUFFICES ASSUME wrap_tracker[s]
                 PROVE  /\ Dist(tx_head, Next1(compl)) <= Dist(tx_head, s)
                             /\ Next1(s) # s_tail =>
                             /\ tx_buf'[Next1(s)].page = tx_buf'[s].page
                             /\ tx_buf'[Next1(s)].off
                                  = (tx_buf'[s].off + tx_buf'[s].len) % PageSize
                        /\ Next1(s) = s_tail =>
                             /\ s_missing > 0 /\ s_page = tx_buf'[s].page
                             /\ s_off = (tx_buf'[s].off + tx_buf'[s].len) % PageSize
      BY <2>1, <3>1 DEF WrapSlot
    <3>2. Dist(tx_head, s) < Dist(tx_head, s_tail) /\ Next1(s) # tx_tail
      BY <3>1 DEF WrapSlot
    <3>3. Dist(tx_head, Next1(s)) = Dist(tx_head, s) + 1
      BY <1>5, <1>b, <3>2
    <3>4. ASSUME Dist(tx_head, Next1(compl)) <= Dist(tx_head, s), Next1(s) # s_tail
          PROVE  s # compl /\ Next1(s) # compl /\ Dist(tx_head, compl) <= Dist(tx_head, s)
      BY <1>5, <1>8, <1>a, <2>3, <3>3, <3>4
    <3>5. ASSUME Next1(s) = s_tail PROVE s # compl
      <4>1. s = compl => Next1(s) = tx_tail
        <5>1. ASSUME s = compl
              PROVE  Dist(tx_head, Next1(s)) = Dist(tx_head, tx_tail)
          <6>1. Dist(tx_head, s_tail) = Dist(tx_head, s) + 1
            BY <3>3, <3>5
          <6>2. Dist(tx_head, s) < Dist(tx_head, tx_tail)
            BY <2>2, <5>1
          <6> QED BY <1>5, <1>9, <1>a, <3>3, <6>1, <6>2
        <5> QED BY <1>5, <1>7, <1>8, <5>1
      <4> QED BY <3>2, <4>1
    <3>6. \A x \in Slots : x # compl => tx_buf'[x] = tx_buf[x]
      BY <1>5, <2>1
    <3> QED BY <1>8, <3>1, <3>4, <3>5, <3>6 DEF WrapSlot
  <2> QED BY <1>0, <2>1, <2>4 DEF WrapInv, MissingInSend
<1>19. CASE UNCHANGED vars
  <2>1. MissingInSend'
    BY <1>0, <1>19 DEF vars, MissingInSend
  <2> QED BY <1>1, <1>19, <2>1 DEF vars, Indices
<1> QED BY <1>11, <1>12, <1>13, <1>14, <1>15, <1>16, <1>17, <1>18, <1>19
        DEF Next, SendSteps, ConfigSteps, Update, Nic

\* For every ring size, batch size and page size, the notifications of a request
\* follow one another in the ring and in the buffer, and the wrap tracker marks
\* all of them but the last and no slot outside the ones in use.
THEOREM RequestsContiguous == Spec => []RequestContiguous
<1>1. RingInv /\ WrapInv => RequestContiguous
  <2> SUFFICES ASSUME RingInv, WrapInv, NEW s \in Slots, wrap_tracker[s]
               PROVE  /\ s \in Between(tx_head, s_tail)
                      /\ {s, Next1(s)} \subseteq Between(compl, s_tail) =>
                           /\ tx_buf[Next1(s)].page = tx_buf[s].page
                           /\ tx_buf[Next1(s)].off
                                = (tx_buf[s].off + tx_buf[s].len) % PageSize
                      /\ Next1(s) # tx_tail
    BY DEF RequestContiguous
  <2>1. WrapSlot(s)
    BY DEF WrapInv
  <2>2. tx_head \in Slots /\ s_tail \in Slots /\ compl \in Slots /\ fetch \in Slots
        /\ rd_head \in Slots /\ tx_tail \in Slots /\ tail_reg \in Slots
    BY DEF RingInv, TypeOK
  <2>3. \A x \in Slots : Dist(tx_head, x) \in 0 .. N - 1
    BY <2>2, DistNext
  <2>4. Dist(tx_head, tx_head) = 0
    BY <2>2, DistNext
  <2>5. Dist(tx_head, compl) <= Dist(tx_head, s_tail)
        /\ Dist(tx_head, tx_head) <= Dist(tx_head, s_tail)
        /\ Dist(tx_head, tx_head) <= Dist(tx_head, s)
    BY <2>2, <2>3, <2>4, NAssumption DEF RingInv, RingOrder
  <2>6. s \in Between(tx_head, s_tail)
    BY <2>1, <2>2, <2>5, BetweenDist DEF WrapSlot
  <2>7. s \in Between(compl, s_tail) => Dist(tx_head, compl) <= Dist(tx_head, s)
    BY <2>2, <2>5, BetweenDist
  <2>8. Next1(s) \in Slots
    BY NextSlot
  <2>9. Next1(s) \in Between(compl, s_tail) => Next1(s) # s_tail
    <3>1. s_tail \notin Between(compl, s_tail)
      BY <2>2, <2>3, <2>5, BetweenDist, NAssumption
    <3> QED BY <3>1
  <2> QED BY <2>1, <2>6, <2>7, <2>9 DEF WrapSlot
<1> QED BY <1>1, InitWrap, NextWrap, RingInvariant, PTL DEF Spec

-----------------------------------------------------------------------------
(* The requests.                                                            *)

\* Device::Send has taken a request that is not yet in the pending ring.
Active == dev \in {"sending", "record"} \/ dret = "record"

\* The requests, pending and being sent, from the oldest.
NbRequests == IF Active THEN nb_pending_requests + 1 ELSE nb_pending_requests
Request(i) == IF i < nb_pending_requests THEN pr[(pr_head + i) % N] ELSE cur

\* send_config has put its notification and waits for a completion.
InWait == pc = "cfg_wait" \/ (pc = "update" /\ ret = "cfg_wait")

\* The call of TxRing that each call of the Device is in, and what only some of
\* them use.
Thread ==
  /\ dev \in {"app", "record", "popping", "extend", "recv"} => pc = "idle"
  /\ dev = "sending" => pc = "send" \/ (pc = "update" /\ ret = "send")
  /\ dev = "completing" => pc = "report" \/ (pc = "update" /\ ret = "report")
  /\ dev = "config" => \/ pc \in {"cfg_put", "cfg_wait"}
                       \/ pc = "update" /\ ret \in {"cfg_put", "cfg_wait"}
  /\ dev \notin {"completing", "popping"} => dret = "app"
  /\ dev # "popping" => todo = 0
  /\ ~Active => cur = NoRequest
  /\ InWait => nb_unreported >= saved

-----------------------------------------------------------------------------
(* The layout of the pipes.                                                 *)

\* pos[p][i] bytes of pipe p lie in the i oldest requests: they start at app_end
\* and end at app_begin.
Layout(pos) ==
  \A p \in Pages :
    /\ pos[p][0] = 0
    /\ \A i \in 0 .. NbRequests - 1 :
         pos[p][i + 1] = pos[p][i] + (IF Request(i).pipe = p THEN Request(i).nb ELSE 0)
    /\ \A i, j \in 0 .. NbRequests : i <= j => pos[p][i] <= pos[p][j]
    /\ pos[p][NbRequests] <= PageSize - 1
    /\ app_begin[p] = (app_end[p] + pos[p][NbRequests]) % PageSize

\* Slots past the end of the pending ring are clear.
PendingClear ==
  \A i \in nb_pending_requests .. N - 1 : pr[(pr_head + i) % N] = NoRequest

\* What is left of the request being sent comes after what is in the ring.
Sending(pos) ==
  dev = "sending" /\ s_missing > 0 =>
    /\ s_page = cur.pipe /\ s_missing <= cur.nb
    /\ s_off = (app_end[cur.pipe] + (pos[cur.pipe][nb_pending_requests]
                                       + (cur.nb - s_missing))) % PageSize

Data(s) == tx_buf[s].signal = 1

\* A data notification in slot s is a part of request req[s], from byte[s] on.
Placed(pos, req, byte) ==
  \A s \in Slots : Data(s) =>
    /\ Dist(tx_head, s) < Dist(tx_head, s_tail)
    /\ req[s] < NbRequests
    /\ ~wrap_tracker[s] => req[s] < nb_pending_requests + Unrecorded
    /\ Request(req[s]).pipe = tx_buf[s].page
    /\ pos[tx_buf[s].page][req[s]] <= byte[s]
    /\ byte[s] + tx_buf[s].len <= pos[tx_buf[s].page][req[s] + 1]
    /\ tx_buf[s].off = (app_end[tx_buf[s].page] + byte[s]) % PageSize

\* Later slots belong to later requests.
Ordered(req) ==
  \A s, t \in Slots :
    Data(s) /\ Data(t) /\ Dist(tx_head, s) < Dist(tx_head, t) =>
      (IF wrap_tracker[s] THEN req[s] ELSE req[s] + 1) <= req[t]

\* ends[s] requests end in the slots before s.
EndsBefore(ends) ==
  /\ ends[tx_head] = 0
  /\ \A s \in Slots :
       Dist(tx_head, s) < Dist(tx_head, s_tail) =>
         ends[Next1(s)] = IF wrap_tracker[s] THEN ends[s] ELSE ends[s] + 1
  /\ \A s, t \in Slots :
       /\ Dist(tx_head, s) <= Dist(tx_head, t)
       /\ Dist(tx_head, t) <= Dist(tx_head, s_tail)
       => ends[s] <= ends[t]

\* A request is popped after the completions before it; send_config counts its
\* own notification as well, until it forgets at least one completion.
Late(req, ends) ==
  /\ \A s \in Slots : Data(s) => nb_unreported + todo + ends[s] <= req[s]
  /\ nb_unreported + todo + ends[s_tail]
       <= nb_pending_requests + Unrecorded + (IF InWait THEN 1 ELSE 0)

Accounted(pos, req, byte, ends) ==
  /\ Layout(pos) /\ Sending(pos) /\ Placed(pos, req, byte)
  /\ Ordered(req) /\ EndsBefore(ends) /\ Late(req, ends)

\* Device::Send waits for ever for room in a pending ring whose head has passed
\* its tail; nothing is in flight or pending.
Stuck ==
  /\ dev \in {"record", "completing", "popping"} /\ (dev # "record" => dret = "record")
  /\ \A s \in Slots : ~Data(s)
  /\ tx_head = s_tail /\ todo = 0 /\ nb_unreported = 0 /\ nb_pending_requests = N - 1
  /\ \A s \in Slots : pr[s] = NoRequest
  /\ \A p \in Pages : /\ Unspent(p) \in 0 .. PageSize - 1
                      /\ app_begin[p] = (app_end[p] + Unspent(p)) % PageSize

Positions0 == [Pages -> [0 .. N -> Nat]]

PathInv ==
  /\ RingInv /\ WrapInv /\ PathTypeOK /\ Thread
  /\ \/ Stuck
     \/ /\ PendingClear
        /\ \E pos \in Positions0, req \in [Slots -> Nat], byte \in [Slots -> Nat],
              ends \in [Slots -> Int] : Accounted(pos, req, byte, ends)

-----------------------------------------------------------------------------
(* The receive half of an RxTxPipe.                                         *)

\* From rx_head on: c bytes that were completed and are not free for packets, n
\* in requests, f received and not sent; the NIC may write to the rest but for
\* one quantum.
RxLayout(p, c, n, f) ==
  /\ app_end[p] = (rx_head[p] + c) % PageSize
  /\ app_begin[p] = (app_end[p] + n) % PageSize
  /\ rx_tail[p] = (app_begin[p] + f) % PageSize
  /\ c + n + f + Quantum <= PageSize /\ Unspent(p) <= c + n
  /\ last_cap[p] = PageSize - 1 - n + Unspent(p) - c

RxInv ==
  /\ RtxTypeOK
  /\ \A p \in RxTxPipes : \E c, n, f \in Nat : RxLayout(p, c, n, f)

-----------------------------------------------------------------------------
(* Every step of the Device is a step of the ring.                          *)

LEMMA SendableType ==
  ASSUME NEW p \in Pages, NEW nb \in Sendable(p)
  PROVE  nb \in Lengths /\ nb \in 1 .. PageSize /\ nb <= capacity(p)
BY PageAssumption DEF Sendable

LEMMA RtxIsRing == PathTypeOK /\ [RtxNext]_allVars => [Next]_vars
<1> SUFFICES ASSUME PathTypeOK, [RtxNext]_allVars PROVE [Next]_vars
  OBVIOUS
<1>1. CASE Recv
  BY <1>1 DEF Recv, Next
<1>2. ASSUME NEW p \in Pages, NEW nb \in Sendable(p), RtxSendAndFree(p, nb)
      PROVE  [Next]_vars
  <2>1. SendCall(p, app_begin[p], nb)
    BY <1>2 DEF RtxSendAndFree, SendAndFree
  <2>2. app_begin[p] \in 0 .. PageSize - 1 /\ nb \in Lengths
    BY SendableType DEF PathTypeOK
  <2> QED BY <2>1, <2>2 DEF Next
<1>3. ASSUME NEW p \in Pages, NEW nb \in Lengths, AllocateBuf(p, nb)
      PROVE  [Next]_vars
  BY <1>3 DEF AllocateBuf
<1>4. CASE TryExtendBuf
  BY <1>4 DEF TryExtendBuf, Next
<1>5. CASE ApplyConfig
  BY <1>5 DEF ApplyConfig, Next
<1>6. CASE OtherThreadStep
  BY <1>6 DEF OtherThreadStep, InSendToQueue, SendToQueueReturn, RecordBlocked,
       InGetUnreported, GetUnreportedReturn, PopCompletion, ExtendAgain, ExtendDone,
       InSendConfig, SendConfigReturn, Next, SendSteps, ConfigSteps
<1>7. CASE RtxRecord \/ RtxPopDone
  BY <1>7 DEF RtxRecord, RtxPopDone, Record, PopDone
<1>8. ASSUME NEW p \in RxTxPipes, NEW nb \in {0, Quantum, 2 * Quantum},
             RecvReturn(p, nb)
      PROVE  [Next]_vars
  BY <1>8 DEF RecvReturn
<1>9. CASE NicStep
  BY <1>9 DEF NicStep, Next
<1>10. CASE UNCHANGED allVars
  BY <1>10 DEF allVars, pathVars
<1> QED BY <1>1, <1>2, <1>3, <1>4, <1>5, <1>6, <1>7, <1>8, <1>9, <1>10
        DEF RtxNext, RtxThreadStep

-----------------------------------------------------------------------------
(* Types, and the call that the thread is in.                               *)

LEMMA MaskType ==
  ASSUME NEW x \in Int
  PROVE  kBufMask(x) \in 0 .. PageSize - 1
BY PageAssumption, ModDiv DEF kBufMask

LEMMA NoRequestType == NoRequest \in Requests
BY PageAssumption DEF NoRequest, Requests, Pages

LEMMA InitPath == PathInit => PathTypeOK /\ Thread
<1> SUFFICES ASSUME PathInit PROVE PathTypeOK /\ Thread
  OBVIOUS
<1>1. TypeOK
  BY InitType DEF PathInit
<1>2. pc = "idle"
  BY DEF PathInit, Init
<1>3. PathTypeOK
  BY <1>1, NoRequestType, NAssumption, PageAssumption
     DEF PathInit, PathTypeOK, Devs, Slots
<1>4. Thread
  BY <1>2 DEF PathInit, Thread, Active, InWait
<1> QED BY <1>3, <1>4

LEMMA NextPathType == PathTypeOK /\ [RtxNext]_allVars => PathTypeOK'
<1> SUFFICES ASSUME PathTypeOK, [RtxNext]_allVars PROVE PathTypeOK'
  OBVIOUS
<1>0. TypeOK'
  BY RtxIsRing, NextType DEF PathTypeOK
<1> USE DEF PathTypeOK, Devs
<1>1. CASE Recv
  BY <1>0, <1>1 DEF Recv, pipeVars, prVars
<1>2. ASSUME NEW p \in Pages, NEW nb \in Sendable(p), RtxSendAndFree(p, nb)
      PROVE  PathTypeOK'
  <2>1. nb \in 0 .. PageSize
    BY SendableType
  <2>2. [pipe |-> p, nb |-> nb] \in Requests
    BY <2>1 DEF Requests
  <2>3. kBufMask(app_begin[p] + nb) \in 0 .. PageSize - 1
    BY <2>1, MaskType
  <2> QED BY <1>0, <1>2, <2>2, <2>3 DEF RtxSendAndFree, SendAndFree, prVars
<1>3. ASSUME NEW p \in Pages, NEW nb \in Lengths, AllocateBuf(p, nb)
      PROVE  PathTypeOK'
  <2>1. [pipe |-> p, nb |-> nb] \in Requests
    BY PageAssumption DEF Requests
  <2> QED BY <1>0, <1>3, <2>1 DEF AllocateBuf, pipeVars, prVars
<1>4. CASE TryExtendBuf \/ ApplyConfig
  BY <1>0, <1>4 DEF TryExtendBuf, ApplyConfig, pipeVars, prVars
<1>5. CASE InSendToQueue \/ InGetUnreported \/ InSendConfig \/ NicStep
  BY <1>0, <1>5 DEF InSendToQueue, InGetUnreported, InSendConfig, NicStep, pipeVars,
                    prVars, devVars
<1>6. CASE SendToQueueReturn \/ RecordBlocked \/ SendConfigReturn
  BY <1>0, <1>6 DEF SendToQueueReturn, RecordBlocked, SendConfigReturn, pipeVars, prVars
<1>7. CASE GetUnreportedReturn
  <2>1. nb_unreported \in Nat
    BY DEF TypeOK
  <2> QED BY <1>0, <1>7, <2>1 DEF GetUnreportedReturn, pipeVars, prVars
<1>8. CASE PopCompletion
  <2>1. pr[pr_head].pipe \in Pages /\ pr[pr_head].nb \in 0 .. PageSize
    BY DEF Requests
  <2>2. kBufMask(app_end[pr[pr_head].pipe] + pr[pr_head].nb) \in 0 .. PageSize - 1
    BY <2>1, MaskType
  <2>3. app_end' \in [Pages -> 0 .. PageSize - 1]
    BY <1>8, <2>1, <2>2 DEF PopCompletion
  <2>4. pr' \in [Slots -> Requests] /\ pr_head' \in Slots /\ todo' \in Nat
    BY <1>8, NoRequestType, NextSlot DEF PopCompletion
  <2> QED BY <1>0, <1>8, <2>3, <2>4 DEF PopCompletion
<1>9. CASE ExtendAgain \/ ExtendDone
  BY <1>0, <1>9, NoRequestType DEF ExtendAgain, ExtendDone, pipeVars, prVars
<1>10. CASE RtxRecord
  <2>1. pr' \in [Slots -> Requests] /\ pr_tail' \in Slots
    BY <1>10, NextSlot DEF RtxRecord, Record
  <2> QED BY <1>0, <1>10, <2>1, NoRequestType DEF RtxRecord, Record, pipeVars
<1>11. CASE RtxPopDone
  BY <1>0, <1>11 DEF RtxPopDone, PopDone, pipeVars, prVars
<1>12. ASSUME NEW p \in RxTxPipes, NEW nb \in {0, Quantum, 2 * Quantum},
              RecvReturn(p, nb)
       PROVE  PathTypeOK'
  BY <1>0, <1>12 DEF RecvReturn, pipeVars, prVars
<1>13. CASE UNCHANGED allVars
  BY <1>0, <1>13 DEF allVars, pathVars, pipeVars, prVars, devVars
<1> QED BY <1>1, <1>2, <1>3, <1>4, <1>5, <1>6, <1>7, <1>8, <1>9, <1>10, <1>11, <1>12,
           <1>13 DEF RtxNext, RtxThreadStep, OtherThreadStep

LEMMA NextThread == PathTypeOK /\ Thread /\ [RtxNext]_allVars => Thread'
<1> SUFFICES ASSUME PathTypeOK, Thread, [RtxNext]_allVars PROVE Thread'
  OBVIOUS
<1>0. /\ nb_unreported \in Nat /\ saved \in Nat
      /\ dret \in {"app", "record", "extend", "recv"}
  BY DEF PathTypeOK, TypeOK
<1> USE DEF Thread, Active, InWait
<1>1. CASE Recv
  BY <1>0, <1>1 DEF Recv, ReportCall, CallUpdate
<1>2. ASSUME NEW p \in Pages, NEW nb \in Sendable(p), RtxSendAndFree(p, nb)
      PROVE  Thread'
  BY <1>0, <1>2 DEF RtxSendAndFree, SendAndFree, SendCall
<1>3. ASSUME NEW p \in Pages, NEW nb \in Lengths, AllocateBuf(p, nb)
      PROVE  Thread'
  BY <1>0, <1>3 DEF AllocateBuf, vars
<1>4. CASE TryExtendBuf \/ ApplyConfig
  BY <1>0, <1>4 DEF TryExtendBuf, ApplyConfig, ReportCall, CallUpdate, ConfigCall
<1>5. CASE InSendToQueue
  BY <1>0, <1>5 DEF InSendToQueue, SendBlocked, SendChunk, Update, Reap, UpdateReturn,
                    CallUpdate, devVars, callVars
<1>6. CASE InGetUnreported
  BY <1>0, <1>6 DEF InGetUnreported, Update, Reap, UpdateReturn, devVars
<1>7. CASE InSendConfig
  <2>1. CASE ConfigBlocked \/ ConfigPut \/ ConfigWait
    BY <1>0, <1>7, <2>1 DEF InSendConfig, ConfigBlocked, ConfigPut, ConfigWait, devVars,
                            CallUpdate, swVars
  <2>2. CASE Reap
    <3>1. nb_unreported' >= nb_unreported /\ nb_unreported' \in Nat
      BY <1>0, <2>2 DEF Reap, CompletionsOf
    <3> QED BY <1>0, <1>7, <2>2, <3>1 DEF InSendConfig, Reap, devVars
  <2>3. CASE UpdateReturn
    BY <1>0, <1>7, <2>3 DEF InSendConfig, UpdateReturn, devVars, swVars
  <2> QED BY <1>7, <2>1, <2>2, <2>3 DEF InSendConfig, Update
<1>8. CASE NicStep
  BY <1>0, <1>8 DEF NicStep, Nic, NicRequest, NicFetch, NicComplete, devVars, callVars,
                    swVars
<1>9. CASE SendToQueueReturn \/ RecordBlocked \/ SendConfigReturn
  BY <1>0, <1>9 DEF SendToQueueReturn, RecordBlocked, SendConfigReturn, SendPublish,
                    ReportCall, CallUpdate, ConfigReturn
<1>10. CASE GetUnreportedReturn
  BY <1>0, <1>10 DEF GetUnreportedReturn, ReportReturn
<1>11. CASE PopCompletion
  BY <1>0, <1>11 DEF PopCompletion, vars
<1>12. CASE ExtendAgain \/ ExtendDone
  BY <1>0, <1>12 DEF ExtendAgain, ExtendDone, ReportCall, CallUpdate, vars
<1>13. CASE RtxRecord
  BY <1>0, <1>13 DEF RtxRecord, Record, vars
<1>14. CASE RtxPopDone
  BY <1>0, <1>14 DEF RtxPopDone, PopDone, vars
<1>15. ASSUME NEW p \in RxTxPipes, NEW nb \in {0, Quantum, 2 * Quantum},
              RecvReturn(p, nb)
       PROVE  Thread'
  BY <1>0, <1>15 DEF RecvReturn, vars
<1>16. CASE UNCHANGED allVars
  BY <1>0, <1>16 DEF allVars, pathVars, vars, devVars
<1> QED BY <1>1, <1>2, <1>3, <1>4, <1>5, <1>6, <1>7, <1>8, <1>9, <1>10, <1>11, <1>12,
           <1>13, <1>14, <1>15, <1>16 DEF RtxNext, RtxThreadStep, OtherThreadStep

-----------------------------------------------------------------------------
(* The ring of pending requests.                                            *)

LEMMA RingIndex ==
  ASSUME NEW h \in Slots, NEW i \in 0 .. N
  PROVE  /\ (h + i) % N \in Slots
         /\ \A j \in 0 .. N - 1 : i < N /\ (h + i) % N = (h + j) % N => i = j
         /\ (Next1(h) + i) % N = (h + (i + 1)) % N
         /\ (h + 0) % N = h /\ (h + N) % N = h
<1>0. N \in Nat /\ N >= 1 /\ h \in Int /\ i \in Int /\ h \in 0 .. N - 1
  BY NAssumption DEF Slots
<1>1. (h + i) % N \in Slots
  BY <1>0, ModDiv DEF Slots
<1>2. ASSUME NEW j \in 0 .. N - 1, i < N, (h + i) % N = (h + j) % N PROVE i = j
  <2>1. i \in 0 .. N - 1
    BY <1>0, <1>2
  <2> QED BY <1>0, <1>2, <2>1, ModInjective
<1>3. (Next1(h) + i) % N = (h + (i + 1)) % N
  <2>0. h + 1 \in Int
    BY <1>0
  <2>1. (((h + 1) % N) + i) % N = (h + 1 + i) % N
    BY <1>0, <2>0, ModAdd
  <2>2. h + 1 + i = h + (i + 1)
    BY <1>0
  <2> QED BY <2>1, <2>2 DEF Next1
<1>4. (h + 0) % N = h
  BY <1>0, Z3
<1>5. (h + N) % N = h
  <2>1. h + N = 1 * N + h
    BY <1>0, Z3
  <2> QED BY <1>0, <2>1, ModUnique
<1> QED BY <1>1, <1>2, <1>3, <1>4, <1>5

\* Counting from h, every slot is reached, b after Dist(h, b) slots.
LEMMA SlotAt ==
  ASSUME NEW h \in Slots
  PROVE  /\ \A s \in Slots : Dist(h, s) \in 0 .. N - 1 /\ s = (h + Dist(h, s)) % N
         /\ \A s \in Slots : \E i \in 0 .. N - 1 : s = (h + i) % N
<1>0. N \in Nat /\ N >= 1 /\ h \in 0 .. N - 1
  BY NAssumption DEF Slots
<1>1. ASSUME NEW s \in Slots
      PROVE  Dist(h, s) \in 0 .. N - 1 /\ s = (h + Dist(h, s)) % N
  <2>0. s \in 0 .. N - 1
    BY DEF Slots
  <2>1. CASE h <= s
    <3>1. Dist(h, s) = s - h /\ h + (s - h) = 0 * N + s
      BY <1>0, <2>0, <2>1 DEF Dist
    <3>2. (0 * N + s) % N = s
      BY <1>0, <2>0, ModUnique
    <3> QED BY <1>0, <2>0, <2>1, <3>1, <3>2
  <2>2. CASE ~(h <= s)
    <3>1. Dist(h, s) = s - h + N /\ h + (s - h + N) = 1 * N + s
      BY <1>0, <2>0, <2>2 DEF Dist
    <3>2. (1 * N + s) % N = s
      BY <1>0, <2>0, ModUnique
    <3> QED BY <1>0, <2>0, <2>2, <3>1, <3>2
  <2> QED BY <2>1, <2>2
<1> QED BY <1>1

LEMMA PendingType ==
  ASSUME PathTypeOK
  PROVE  /\ nb_pending_requests \in 0 .. N - 1
         /\ pr_tail = (pr_head + nb_pending_requests) % N
         /\ NbRequests \in 0 .. N
         /\ \A i \in 0 .. N : Request(i) \in Requests
<1>0. /\ N \in Nat /\ N >= 1 /\ pr_tail \in 0 .. N - 1 /\ pr_head \in 0 .. N - 1
      /\ pr \in [Slots -> Requests] /\ cur \in Requests
  BY NAssumption DEF PathTypeOK, Slots
<1>1. nb_pending_requests \in 0 .. N - 1
  <2>1. pr_tail - pr_head \in Int
    BY <1>0
  <2> QED BY <1>0, <2>1, ModDiv DEF nb_pending_requests
<1>2. pr_tail = (pr_head + nb_pending_requests) % N
  <2>1. pr_tail - pr_head \in Int /\ pr_head \in Int
    BY <1>0
  <2>2. (((pr_tail - pr_head) % N) + pr_head) % N = (pr_tail - pr_head + pr_head) % N
    BY <1>0, <2>1, ModAdd
  <2>3. pr_tail - pr_head + pr_head = pr_tail /\ pr_tail % N = pr_tail
    BY <1>0, Z3
  <2>4. nb_pending_requests + pr_head = pr_head + nb_pending_requests
    BY <1>0, <1>1
  <2> QED BY <2>2, <2>3, <2>4 DEF nb_pending_requests
<1>3. NbRequests \in 0 .. N
  BY <1>0, <1>1 DEF NbRequests
<1>4. \A i \in 0 .. N : Request(i) \in Requests
  BY <1>0, RingIndex DEF Request, Slots
<1> QED BY <1>1, <1>2, <1>3, <1>4

-----------------------------------------------------------------------------
(* Steps that move no request and no notification.                          *)

AccountedVars ==
  <<pr, pr_head, pr_tail, cur, app_begin, app_end, tx_buf, tx_head, s_tail, wrap_tracker>>

\* Completions may be handed on, or forgotten, but not gained.
Quiet ==
  /\ UNCHANGED AccountedVars
  /\ Active' <=> Active
  /\ Unrecorded' = Unrecorded
  /\ nb_unreported' + todo' <= nb_unreported + todo
  /\ InWait /\ ~InWait' => nb_unreported' + todo' < nb_unreported + todo
  /\ dev' = "sending" /\ s_missing' > 0 =>
       dev = "sending" /\ UNCHANGED <<s_missing, s_page, s_off>>

LEMMA SumShrinks ==
  ASSUME NEW a \in Int, NEW b \in Int, NEW c \in Int, NEW d \in Int, NEW e \in Int,
         NEW r \in Int, c + d <= a + b, a + b + e <= r
  PROVE  c + d + e <= r
OBVIOUS

LEMMA SumShrinksMore ==
  ASSUME NEW a \in Int, NEW b \in Int, NEW c \in Int, NEW d \in Int, NEW e \in Int,
         NEW r \in Int, c + d < a + b, a + b + e <= r + 1
  PROVE  c + d + e <= r
OBVIOUS

LEMMA QuietKeeps ==
  ASSUME PathTypeOK, PathTypeOK', NEW pos \in Positions0, NEW req \in [Slots -> Nat],
         NEW byte \in [Slots -> Nat], NEW ends \in [Slots -> Int],
         PendingClear, Accounted(pos, req, byte, ends), Quiet
  PROVE  PendingClear' /\ Accounted(pos, req, byte, ends)'
<1>1. UNCHANGED <<pr, pr_head, pr_tail, cur, app_begin, app_end, tx_buf, tx_head, s_tail,
                  wrap_tracker>>
      /\ (Active' <=> Active) /\ Unrecorded' = Unrecorded
  BY DEF Quiet, AccountedVars
<1>2. /\ nb_pending_requests' = nb_pending_requests /\ NbRequests' = NbRequests
      /\ \A i : Request(i)' = Request(i)
      /\ \A s : Data(s)' = Data(s)
  BY <1>1 DEF nb_pending_requests, NbRequests, Request, Data
<1>3. PendingClear'
  BY <1>1, <1>2 DEF PendingClear
<1>4. Layout(pos)'
  BY <1>1, <1>2 DEF Accounted, Layout
<1>5. Sending(pos)'
  BY <1>1, <1>2 DEF Accounted, Sending, Quiet
<1>6. Placed(pos, req, byte)'
  BY <1>1, <1>2 DEF Accounted, Placed
<1>7. Ordered(req)' /\ EndsBefore(ends)'
  BY <1>1, <1>2 DEF Accounted, Ordered, EndsBefore
<1>8. Late(req, ends)'
  <2>0. /\ nb_unreported \in Int /\ todo \in Int /\ nb_unreported' \in Int /\ todo' \in Int
        /\ nb_pending_requests + Unrecorded \in Int /\ ends[s_tail] \in Int
    <3>1. nb_pending_requests \in Int /\ Unrecorded \in Int
      BY PendingType DEF Unrecorded
    <3> QED BY <3>1 DEF PathTypeOK, TypeOK
  <2>1. ASSUME NEW s \in Slots, Data(s)
        PROVE  nb_unreported' + todo' + ends[s] <= req[s]
    <3>1. nb_unreported + todo + ends[s] <= req[s]
      BY <2>1 DEF Accounted, Late
    <3>2. ends[s] \in Int /\ req[s] \in Int
      OBVIOUS
    <3>3. nb_unreported' + todo' <= nb_unreported + todo
      BY DEF Quiet
    <3> QED BY <2>0, <3>1, <3>2, <3>3, SumShrinks
  <2>2. nb_unreported' + todo' + ends[s_tail]
          <= nb_pending_requests + Unrecorded + (IF InWait' THEN 1 ELSE 0)
    <3>1. nb_unreported + todo + ends[s_tail]
            <= nb_pending_requests + Unrecorded + (IF InWait THEN 1 ELSE 0)
      BY DEF Accounted, Late
    <3>2. /\ nb_unreported' + todo' <= nb_unreported + todo
          /\ InWait /\ ~InWait' => nb_unreported' + todo' < nb_unreported + todo
      BY DEF Quiet
    <3>3. CASE InWait /\ ~InWait'
      <4>1. nb_unreported + todo + ends[s_tail] <= nb_pending_requests + Unrecorded + 1
        BY <3>1, <3>3
      <4>2. nb_unreported' + todo' + ends[s_tail] <= nb_pending_requests + Unrecorded
        BY <2>0, <3>2, <3>3, <4>1, SumShrinksMore
      <4>3. nb_pending_requests + Unrecorded + 0 = nb_pending_requests + Unrecorded
        BY <2>0
      <4> QED BY <3>3, <4>2, <4>3
    <3>4. CASE InWait'
      <4> DEFINE r == nb_pending_requests + Unrecorded + 1
      <4>1. r \in Int
        BY <2>0
      <4>2. nb_unreported + todo + ends[s_tail] <= r
        <5>1. CASE InWait
          BY <3>1, <5>1
        <5>2. CASE ~InWait
          BY <2>0, <3>1, <5>2
        <5> QED BY <5>1, <5>2
      <4> HIDE DEF r
      <4>3. nb_unreported' + todo' + ends[s_tail] <= r
        BY <2>0, <3>2, <4>1, <4>2, SumShrinks
      <4> QED BY <3>4, <4>3 DEF r
    <3>6. CASE ~InWait /\ ~InWait'
      <4>1. nb_pending_requests + Unrecorded + 0 \in Int
        BY <2>0
      <4> QED BY <2>0, <3>1, <3>2, <3>6, <4>1, SumShrinks
    <3> QED BY <3>3, <3>4, <3>6
  <2> QED BY <1>1, <1>2, <2>1, <2>2 DEF Late
<1> QED BY <1>3, <1>4, <1>5, <1>6, <1>7, <1>8 DEF Accounted

LEMMA QuietSteps ==
  ASSUME PathTypeOK, Thread
  PROVE  /\ Recv => Quiet
         /\ \A p, nb : AllocateBuf(p, nb) => Quiet
         /\ TryExtendBuf \/ ApplyConfig => Quiet
         /\ SendBlocked \/ UpdateReturn \/ ConfigBlocked \/ ConfigWait =>
              (UNCHANGED <<pipeVars, prVars, devVars>> => Quiet)
         /\ SendToQueueReturn \/ RecordBlocked => Quiet
         /\ GetUnreportedReturn => Quiet
         /\ ExtendAgain \/ ExtendDone => Quiet
         /\ SendConfigReturn => Quiet
         /\ PopDone => Quiet
         /\ \A p, nb : RecvReturn(p, nb) => Quiet
         /\ NicRequest \/ NicFetch => (UNCHANGED <<pipeVars, prVars, devVars>> => Quiet)
         /\ UNCHANGED allVars => Quiet
<1>0. /\ nb_unreported \in Nat /\ saved \in Nat /\ todo \in Nat
      /\ dret \in {"app", "record", "extend", "recv"}
      /\ nb_unreported + todo <= nb_unreported + todo
  BY DEF PathTypeOK, TypeOK
<1> USE DEF Thread, Active, InWait, Quiet, AccountedVars, Unrecorded
<1>1. Recv => Quiet
  BY <1>0 DEF Recv, ReportCall, CallUpdate, pipeVars, prVars, swVars, sendVars
<1>2. \A p, nb : AllocateBuf(p, nb) => Quiet
  BY <1>0 DEF AllocateBuf, vars, pipeVars, prVars
<1>3. TryExtendBuf \/ ApplyConfig => Quiet
  BY <1>0 DEF TryExtendBuf, ApplyConfig, ReportCall, ConfigCall, CallUpdate, pipeVars,
              prVars, swVars, sendVars
<1>4. SendBlocked \/ UpdateReturn \/ ConfigBlocked \/ ConfigWait =>
        (UNCHANGED <<pipeVars, prVars, devVars>> => Quiet)
  BY <1>0 DEF SendBlocked, UpdateReturn, ConfigBlocked, ConfigWait, CallUpdate, pipeVars,
              prVars, devVars, swVars, sendVars
<1>5. SendToQueueReturn \/ RecordBlocked => Quiet
  BY <1>0 DEF SendToQueueReturn, RecordBlocked, SendPublish, ReportCall, CallUpdate,
              pipeVars, prVars, swVars, sendVars
<1>6. GetUnreportedReturn => Quiet
  <2> SUFFICES ASSUME GetUnreportedReturn PROVE Quiet
    OBVIOUS
  <2>1. todo = 0 /\ todo' = nb_unreported /\ nb_unreported' = 0
    BY DEF GetUnreportedReturn, ReportReturn
  <2>2. nb_unreported' + todo' <= nb_unreported + todo
    BY <1>0, <2>1
  <2> QED BY <2>2 DEF GetUnreportedReturn, ReportReturn, pipeVars, prVars, sendVars
<1>7. ExtendAgain \/ ExtendDone => Quiet
  BY <1>0 DEF ExtendAgain, ExtendDone, ReportCall, CallUpdate, pipeVars, prVars, swVars,
              sendVars, vars
<1>8. SendConfigReturn => Quiet
  <2> SUFFICES ASSUME SendConfigReturn PROVE Quiet
    OBVIOUS
  <2>1. nb_unreported' = saved /\ nb_unreported # saved /\ nb_unreported >= saved
        /\ todo' = todo
    BY DEF SendConfigReturn, ConfigReturn
  <2>2. nb_unreported' + todo' <= nb_unreported + todo
        /\ nb_unreported' + todo' < nb_unreported + todo
    BY <1>0, <2>1
  <2> QED BY <2>2 DEF SendConfigReturn, ConfigReturn, pipeVars, prVars, sendVars
<1>9. PopDone => Quiet
  BY <1>0 DEF PopDone, pipeVars, prVars, vars
<1>10. \A p, nb : RecvReturn(p, nb) => Quiet
  BY <1>0 DEF RecvReturn, pipeVars, prVars, vars
<1>11. NicRequest \/ NicFetch => (UNCHANGED <<pipeVars, prVars, devVars>> => Quiet)
  BY <1>0 DEF NicRequest, NicFetch, pipeVars, prVars, devVars, swVars, callVars, sendVars
<1>12. UNCHANGED allVars => Quiet
  BY <1>0 DEF allVars, pathVars, pipeVars, prVars, devVars, vars
<1> QED BY <1>1, <1>2, <1>3, <1>4, <1>5, <1>6, <1>7, <1>8, <1>9, <1>10, <1>11, <1>12

-----------------------------------------------------------------------------
(* The other steps, one by one.                                             *)

Base == RingInv /\ WrapInv /\ PathTypeOK /\ Thread

Found ==
  /\ PendingClear
  /\ \E pos \in Positions0, req \in [Slots -> Nat], byte \in [Slots -> Nat],
        ends \in [Slots -> Int] : Accounted(pos, req, byte, ends)

LEMMA RingFacts ==
  ASSUME TypeOK
  PROVE  /\ tx_head \in Slots /\ s_tail \in Slots /\ compl \in Slots /\ tx_tail \in Slots
         /\ tx_buf \in [Slots -> Notifications] /\ wrap_tracker \in [Slots -> BOOLEAN]
         /\ \A x \in Slots :
              /\ Dist(tx_head, x) \in Nat /\ Dist(tx_head, x) < N
              /\ Dist(tx_head, x) = 0 <=> x = tx_head
              /\ Next1(x) \in Slots
              /\ Next1(x) # tx_head => Dist(tx_head, Next1(x)) = Dist(tx_head, x) + 1
         /\ \A x, y \in Slots : Dist(tx_head, x) < Dist(tx_head, y) => Next1(x) # tx_head
         /\ \A x, y \in Slots : Dist(tx_head, x) = Dist(tx_head, y) <=> x = y
         /\ \A x, y \in Slots : Next1(x) = Next1(y) => x = y
<1>1. /\ tx_head \in Slots /\ s_tail \in Slots /\ compl \in Slots /\ tx_tail \in Slots
      /\ tx_buf \in [Slots -> Notifications] /\ wrap_tracker \in [Slots -> BOOLEAN]
  BY DEF TypeOK
<1>2. \A x \in Slots :
        /\ Dist(tx_head, x) \in 0 .. N - 1
        /\ Dist(tx_head, x) = 0 <=> x = tx_head
        /\ Dist(tx_head, x) = N - 1 <=> Next1(x) = tx_head
        /\ Next1(x) \in Slots
        /\ Next1(x) # tx_head => Dist(tx_head, Next1(x)) = Dist(tx_head, x) + 1
  BY <1>1, DistNext, NextSlot
<1>3. \A x \in Slots : Dist(tx_head, x) \in Nat /\ Dist(tx_head, x) < N
  BY <1>2, NAssumption
<1>4. ASSUME NEW x \in Slots, NEW y \in Slots, Dist(tx_head, x) < Dist(tx_head, y)
      PROVE  Next1(x) # tx_head
  <2>1. Dist(tx_head, x) # N - 1
    BY <1>2, <1>4, NAssumption
  <2> QED BY <1>2, <2>1
<1>5. \A x, y \in Slots : Dist(tx_head, x) = Dist(tx_head, y) <=> x = y
  BY <1>1, DistInjective
<1>6. ASSUME NEW x \in Slots, NEW y \in Slots, Next1(x) = Next1(y) PROVE x = y
  BY <1>6, NextSlot, NAssumption DEF Slots
<1> QED BY <1>1, <1>2, <1>3, <1>4, <1>5, <1>6

LEMMA NicCompleteKeeps ==
  ASSUME Base, Found, NicComplete, UNCHANGED <<pipeVars, prVars, devVars>>
  PROVE  Found'
<1>1. PICK pos \in Positions0, req \in [Slots -> Nat], byte \in [Slots -> Nat],
           ends \in [Slots -> Int] : Accounted(pos, req, byte, ends)
  BY DEF Found
<1>2. /\ UNCHANGED <<pr, pr_head, pr_tail, cur, app_begin, app_end, tx_head, s_tail,
                     wrap_tracker, nb_unreported, todo, pc, ret, dev, dret, s_missing,
                     s_page, s_off>>
      /\ tx_buf' = [tx_buf EXCEPT ![compl] = Free]
  BY DEF NicComplete, swVars, callVars, sendVars, pipeVars, prVars, devVars
<1>3. /\ nb_pending_requests' = nb_pending_requests /\ NbRequests' = NbRequests
      /\ \A i : Request(i)' = Request(i)
      /\ Unrecorded' = Unrecorded /\ InWait' = InWait
  BY <1>2 DEF nb_pending_requests, NbRequests, Active, Request, Unrecorded, InWait
<1>4. \A s \in Slots : Data(s)' => Data(s) /\ tx_buf'[s] = tx_buf[s]
  <2>1. tx_buf \in [Slots -> Notifications] /\ compl \in Slots
    BY RingFacts DEF Base, RingInv
  <2> QED BY <1>2, <2>1 DEF Data, Free
<1>5. PendingClear'
  BY <1>2, <1>3 DEF Found, PendingClear
<1>6. Layout(pos)' /\ Sending(pos)'
  BY <1>1, <1>2, <1>3 DEF Accounted, Layout, Sending
<1>7. Placed(pos, req, byte)'
  BY <1>1, <1>2, <1>3, <1>4 DEF Accounted, Placed
<1>8. Ordered(req)' /\ EndsBefore(ends)'
  BY <1>1, <1>2, <1>4 DEF Accounted, Ordered, EndsBefore
<1>9. Late(req, ends)'
  BY <1>1, <1>2, <1>3, <1>4 DEF Accounted, Late
<1>10. Accounted(pos, req, byte, ends)'
  BY <1>6, <1>7, <1>8, <1>9 DEF Accounted
<1> QED BY <1>5, <1>10 DEF Found

LEMMA RecordKeeps ==
  ASSUME Base, Found, Record
  PROVE  Found'
<1>1. PICK pos \in Positions0, req \in [Slots -> Nat], byte \in [Slots -> Nat],
           ends \in [Slots -> Int] : Accounted(pos, req, byte, ends)
  BY DEF Found
<1>2. /\ UNCHANGED <<pr_head, app_begin, app_end, tx_buf, tx_head, s_tail, wrap_tracker,
                     nb_unreported, todo, pc, ret, dret, s_missing, s_page, s_off>>
      /\ dev = "record" /\ dev' = "app" /\ dret = "app" /\ pc = "idle"
      /\ pr' = [pr EXCEPT ![pr_tail] = cur] /\ pr_tail' = Next1(pr_tail)
      /\ nb_pending_requests < kMaxPendingTxRequests - 2
  BY DEF Record, vars, pipeVars, Base, Thread
<1> DEFINE L == nb_pending_requests
<1>3. /\ N \in Nat /\ N >= 1 /\ L \in 0 .. N - 1 /\ pr_tail = (pr_head + L) % N
      /\ pr_head \in Slots /\ pr_tail \in Slots /\ pr \in [Slots -> Requests]
      /\ L < N - 3
  BY <1>2, NAssumption, PendingType DEF Base, PathTypeOK, kMaxPendingTxRequests
<1>4. nb_pending_requests' = L + 1
  <2>1. pr_tail' = (pr_head + (L + 1)) % N
    <3>0. pr_head + L \in Int /\ 1 \in Int
      BY <1>3 DEF Slots
    <3>1. (((pr_head + L) % N) + 1) % N = (pr_head + L + 1) % N
      BY <1>3, <3>0, ModAdd
    <3>2. pr_head + L + 1 = pr_head + (L + 1)
      BY <1>3 DEF Slots
    <3> QED BY <1>2, <1>3, <3>1, <3>2 DEF Next1
  <2>2. (((pr_head + (L + 1)) % N) - pr_head) % N = L + 1
    <3>1. L + 1 \in 0 .. N - 1 /\ pr_head \in Int
      BY <1>2, <1>3 DEF Slots
    <3> QED BY <1>3, <3>1, ModForth
  <2> QED BY <1>2, <2>1, <2>2 DEF nb_pending_requests
<1>5. \A i \in 0 .. N - 1 : pr'[(pr_head + i) % N] =
                              IF i = L THEN cur ELSE pr[(pr_head + i) % N]
  <2> TAKE i \in 0 .. N - 1
  <2>1. i \in 0 .. N /\ i < N
    BY <1>3
  <2>2. (pr_head + i) % N \in Slots /\ ((pr_head + i) % N = pr_tail <=> i = L)
    BY <1>3, <2>1, RingIndex
  <2> QED BY <1>2, <1>3, <2>2
<1>6. PendingClear'
  <2> SUFFICES ASSUME NEW i \in L + 1 .. N - 1 PROVE pr'[(pr_head + i) % N] = NoRequest
    BY <1>2, <1>4 DEF PendingClear
  <2>1. i \in L .. N - 1 /\ i # L /\ i \in 0 .. N - 1
    BY <1>3
  <2> QED BY <1>5, <2>1 DEF Found, PendingClear
<1>7. /\ NbRequests' = NbRequests /\ NbRequests = L + 1
      /\ Unrecorded' = 0 /\ Unrecorded = 1 /\ ~InWait /\ ~InWait'
  BY <1>2, <1>4 DEF NbRequests, Active, Unrecorded, InWait
<1>8. \A i \in 0 .. NbRequests - 1 : Request(i)' = Request(i)
  <2> SUFFICES ASSUME NEW i \in 0 .. NbRequests - 1 PROVE Request(i)' = Request(i)
    OBVIOUS
  <2>1. i \in 0 .. N - 1 /\ i < L + 1 /\ (i < L \/ i = L)
    BY <1>2, <1>3, <1>7
  <2>2. Request(i)' = pr'[(pr_head + i) % N]
    BY <1>2, <1>4, <2>1 DEF Request
  <2> QED BY <1>3, <1>5, <2>1, <2>2 DEF Request
<1>9. Layout(pos)' /\ Sending(pos)'
  <2>1. Layout(pos)'
    BY <1>1, <1>2, <1>7, <1>8 DEF Accounted, Layout
  <2> QED BY <1>2, <2>1 DEF Sending
<1>10. Placed(pos, req, byte)'
  <2>1. L + Unrecorded = nb_pending_requests' + Unrecorded'
    BY <1>3, <1>4, <1>7
  <2>2. \A s \in Slots : req[s] < NbRequests => Request(req[s])' = Request(req[s])
    BY <1>3, <1>7, <1>8
  <2> QED BY <1>1, <1>2, <1>7, <2>1, <2>2 DEF Accounted, Placed, Data
<1>11. Ordered(req)' /\ EndsBefore(ends)'
  BY <1>1, <1>2 DEF Accounted, Ordered, EndsBefore, Data
<1>12. Late(req, ends)'
  <2>1. L + Unrecorded = nb_pending_requests' + Unrecorded'
    BY <1>3, <1>4, <1>7
  <2> QED BY <1>1, <1>2, <1>7, <2>1 DEF Accounted, Late, Data
<1>13. Accounted(pos, req, byte, ends)'
  BY <1>9, <1>10, <1>11, <1>12 DEF Accounted
<1> QED BY <1>6, <1>13 DEF Found

LEMMA SendChunkKeeps ==
  ASSUME Base, Found, dev = "sending", SendChunk, UNCHANGED <<pipeVars, prVars, devVars>>
  PROVE  Found'
<1>1. PICK pos \in Positions0, req \in [Slots -> Nat], byte \in [Slots -> Nat],
           ends \in [Slots -> Int] : Accounted(pos, req, byte, ends)
  BY DEF Found
<1> DEFINE L == nb_pending_requests
           w == s_missing > ReqLength
           start == pos[cur.pipe][L] + (cur.nb - s_missing)
<1>2. /\ UNCHANGED <<pr, pr_head, pr_tail, cur, app_begin, app_end, tx_head,
                     nb_unreported, todo, pc, ret, dev, dret, s_page>>
      /\ pc = "send" /\ dret = "app" /\ s_missing > 0 /\ FreeSlots(s_tail) # 0
      /\ s_tail' = Next1(s_tail) /\ s_missing' = s_missing - ReqLength
      /\ s_off' = (s_off + ReqLength) % PageSize
      /\ wrap_tracker' = [wrap_tracker EXCEPT ![s_tail] = @ \/ w]
      /\ tx_buf' = [tx_buf EXCEPT ![s_tail] =
                      [signal |-> 1, page |-> s_page, off |-> s_off, len |-> ReqLength]]
  BY DEF SendChunk, callVars, pipeVars, prVars, devVars, Base, Thread
<1>3. TypeOK /\ PathTypeOK
  BY DEF Base, RingInv
<1>4. /\ tx_head \in Slots /\ s_tail \in Slots
      /\ tx_buf \in [Slots -> Notifications] /\ wrap_tracker \in [Slots -> BOOLEAN]
      /\ Next1(s_tail) \in Slots
      /\ \A x \in Slots : Dist(tx_head, x) \in Nat /\ Dist(tx_head, x) < N
      /\ \A x, y \in Slots : Dist(tx_head, x) = Dist(tx_head, y) <=> x = y
      /\ \A x, y \in Slots : Next1(x) = Next1(y) => x = y
  BY <1>3, RingFacts
<1>5. Next1(s_tail) # tx_head
      /\ Dist(tx_head, Next1(s_tail)) = Dist(tx_head, s_tail) + 1
  BY <1>2, <1>3, RingFacts, FreeSlotsZero
<1>6. ~wrap_tracker[s_tail]
  BY <1>4 DEF Base, WrapInv, WrapSlot
<1>7. /\ wrap_tracker'[s_tail] <=> w
      /\ tx_buf'[s_tail] = [signal |-> 1, page |-> s_page, off |-> s_off, len |-> ReqLength]
      /\ \A s \in Slots : s # s_tail => /\ wrap_tracker'[s] = wrap_tracker[s]
                                        /\ tx_buf'[s] = tx_buf[s]
  BY <1>2, <1>4, <1>6, ZenonT(40)
<1>8. /\ ReqLength \in Nat /\ ReqLength >= 1 /\ s_missing - ReqLength \in Nat
      /\ s_missing \in Nat /\ s_off \in Nat /\ PageSize \in Nat /\ PageSize >= 1
  BY <1>2, <1>3, ReqLengthType, PageAssumption DEF TypeOK
<1>9. /\ L \in Nat /\ L < N /\ N \in Nat /\ cur.pipe \in Pages /\ cur.nb \in Nat
      /\ pos[cur.pipe][L] \in Nat /\ pos[cur.pipe][L + 1] \in Nat
      /\ app_end[cur.pipe] \in Nat
  <2>1. L \in 0 .. N - 1 /\ cur \in Requests /\ N \in Nat
    BY <1>3, PendingType, NAssumption DEF PathTypeOK
  <2>2. L \in 0 .. N /\ L + 1 \in 0 .. N /\ L < N
    BY <2>1
  <2>3. cur.pipe \in Pages /\ cur.nb \in 0 .. PageSize
    BY <2>1 DEF Requests
  <2>4. app_end[cur.pipe] \in 0 .. PageSize - 1
    BY <1>3, <2>3 DEF PathTypeOK
  <2>5. pos[cur.pipe] \in [0 .. N -> Nat]
    BY <2>3 DEF Positions0
  <2> QED BY <1>8, <2>1, <2>2, <2>3, <2>4, <2>5
<1>10. /\ NbRequests' = L + 1 /\ NbRequests = L + 1
       /\ nb_pending_requests' = L
       /\ \A i : Request(i)' = Request(i)
       /\ Request(L) = cur
       /\ Unrecorded = 0 /\ Unrecorded' \in {0, 1} /\ (~w => Unrecorded' = 1)
       /\ ~InWait /\ ~InWait'
  <2>1. ~w => s_missing' = 0
    BY <1>2, <1>8
  <2>2. NbRequests' = L + 1 /\ NbRequests = L + 1 /\ nb_pending_requests' = L
    BY <1>2 DEF NbRequests, Active, nb_pending_requests
  <2>3. \A i : Request(i)' = Request(i)
    BY <1>2, <2>2 DEF Request
  <2>4. Request(L) = cur
    BY <1>9 DEF Request
  <2>5. Unrecorded = 0 /\ Unrecorded' \in {0, 1} /\ (~w => Unrecorded' = 1)
    BY <1>2, <1>8, <2>1 DEF Unrecorded
  <2>6. ~InWait /\ ~InWait'
    BY <1>2 DEF InWait
  <2> QED BY <2>2, <2>3, <2>4, <2>5, <2>6
<1>11. /\ s_page = cur.pipe /\ s_missing <= cur.nb
       /\ s_off = (app_end[cur.pipe] + start) % PageSize
  BY <1>1, <1>2 DEF Accounted, Sending
<1>12. start \in Nat /\ start + ReqLength <= pos[cur.pipe][L + 1]
       /\ pos[cur.pipe][L] <= start
  <2>1. pos[cur.pipe][L + 1] = pos[cur.pipe][L] + cur.nb
    <3>1. L \in 0 .. NbRequests - 1
      BY <1>9, <1>10
    <3> QED BY <1>1, <1>9, <1>10, <3>1 DEF Accounted, Layout
  <2> QED BY <1>8, <1>9, <1>11, <2>1
<1>13. PICK req2 \in [Slots -> Nat], byte2 \in [Slots -> Nat], ends2 \in [Slots -> Int] :
       /\ req2[s_tail] = L /\ byte2[s_tail] = start /\ ends2[s_tail] = ends[s_tail]
       /\ ends2[Next1(s_tail)] = IF w THEN ends[s_tail] ELSE ends[s_tail] + 1
       /\ \A s \in Slots : s # s_tail => req2[s] = req[s] /\ byte2[s] = byte[s]
       /\ \A s \in Slots : s # Next1(s_tail) => ends2[s] = ends[s]
  <2>1. Next1(s_tail) # s_tail
    BY <1>4, <1>5
  <2>2. ends[s_tail] \in Int
    BY <1>4
  <2> DEFINE r2 == [req EXCEPT ![s_tail] = L]
             b2 == [byte EXCEPT ![s_tail] = start]
             e2 == [ends EXCEPT ![Next1(s_tail)] =
                      IF w THEN ends[s_tail] ELSE ends[s_tail] + 1]
  <2>3. r2 \in [Slots -> Nat] /\ r2[s_tail] = L
        /\ \A s \in Slots : s # s_tail => r2[s] = req[s]
    BY <1>4, <1>9
  <2>4. b2 \in [Slots -> Nat] /\ b2[s_tail] = start
        /\ \A s \in Slots : s # s_tail => b2[s] = byte[s]
    BY <1>4, <1>12
  <2>5. e2 \in [Slots -> Int] /\ e2[s_tail] = ends[s_tail]
        /\ e2[Next1(s_tail)] = (IF w THEN ends[s_tail] ELSE ends[s_tail] + 1)
        /\ \A s \in Slots : s # Next1(s_tail) => e2[s] = ends[s]
    BY <1>4, <2>1, <2>2
  <2> HIDE DEF r2, b2, e2
  <2> QED BY <2>3, <2>4, <2>5
<1>14. \A s \in Slots : Data(s) => Dist(tx_head, s) < Dist(tx_head, s_tail) /\ s # s_tail
  BY <1>1, <1>4 DEF Accounted, Placed
<1>15. \A s \in Slots : s # s_tail => Data(s)' = Data(s)
  BY <1>7 DEF Data
<1> HIDE DEF w, start, L
<1>16. PendingClear'
  BY <1>2, <1>10 DEF Found, PendingClear, L
<1>17. Layout(pos)'
  BY <1>1, <1>2, <1>10 DEF Accounted, Layout
<1>18. Sending(pos)'
  <2>1. (s_off + ReqLength) % PageSize
          = (app_end[cur.pipe] + (pos[cur.pipe][L] + (cur.nb - (s_missing - ReqLength))))
              % PageSize
    <3>1. (((app_end[cur.pipe] + start) % PageSize) + ReqLength) % PageSize
            = (app_end[cur.pipe] + start + ReqLength) % PageSize
      <4>1. app_end[cur.pipe] + start \in Int /\ ReqLength \in Int
        BY <1>8, <1>9, <1>12
      <4> QED BY <1>8, <4>1, ModAdd
    <3>2. app_end[cur.pipe] + start + ReqLength
            = app_end[cur.pipe] + (pos[cur.pipe][L] + (cur.nb - (s_missing - ReqLength)))
      BY <1>8, <1>9, <1>11 DEF start
    <3> QED BY <1>11, <3>1, <3>2
  <2>2. s_missing - ReqLength <= cur.nb
    BY <1>8, <1>9, <1>11
  <2> QED BY <1>2, <1>10, <1>11, <2>1, <2>2 DEF Sending
<1>19. Placed(pos, req2, byte2)'
  <2> SUFFICES ASSUME NEW s \in Slots, Data(s)'
               PROVE  /\ Dist(tx_head, s) < Dist(tx_head, Next1(s_tail))
                      /\ req2[s] < L + 1
                      /\ ~wrap_tracker'[s] => req2[s] < L + Unrecorded'
                      /\ Request(req2[s]).pipe = tx_buf'[s].page
                      /\ pos[tx_buf'[s].page][req2[s]] <= byte2[s]
                      /\ byte2[s] + tx_buf'[s].len <= pos[tx_buf'[s].page][req2[s] + 1]
                      /\ tx_buf'[s].off = (app_end[tx_buf'[s].page] + byte2[s]) % PageSize
    BY <1>2, <1>10 DEF Placed
  <2>1. CASE s = s_tail
    <3>1. Dist(tx_head, s) < Dist(tx_head, Next1(s_tail))
      BY <1>4, <1>5, <2>1
    <3>2. L < L + 1
      BY <1>9
    <3>3. ~wrap_tracker'[s_tail] => L < L + Unrecorded'
      BY <1>7, <1>9, <1>10
    <3> QED BY <1>7, <1>10, <1>11, <1>12, <1>13, <2>1, <3>1, <3>2, <3>3
  <2>2. CASE s # s_tail
    <3>1. Data(s)
      BY <1>15, <2>2
    <3>2. /\ Dist(tx_head, s) < Dist(tx_head, s_tail)
          /\ req[s] < L + 1
          /\ ~wrap_tracker[s] => req[s] < L + Unrecorded
          /\ Request(req[s]).pipe = tx_buf[s].page
          /\ pos[tx_buf[s].page][req[s]] <= byte[s]
          /\ byte[s] + tx_buf[s].len <= pos[tx_buf[s].page][req[s] + 1]
          /\ tx_buf[s].off = (app_end[tx_buf[s].page] + byte[s]) % PageSize
      BY <1>1, <1>10, <3>1 DEF Accounted, Placed, L
    <3>3. Dist(tx_head, s) < Dist(tx_head, Next1(s_tail))
      BY <1>4, <1>5, <3>2
    <3>4. ~wrap_tracker[s] => req[s] < L + Unrecorded'
      BY <1>9, <1>10, <3>2
    <3> QED BY <1>7, <1>13, <2>2, <3>2, <3>3, <3>4
  <2> QED BY <2>1, <2>2
<1>20. Ordered(req2)'
  <2> SUFFICES ASSUME NEW s \in Slots, NEW t \in Slots, Data(s)', Data(t)',
                      Dist(tx_head, s) < Dist(tx_head, t)
               PROVE  (IF wrap_tracker'[s] THEN req2[s] ELSE req2[s] + 1) <= req2[t]
    BY <1>2 DEF Ordered
  <2>1. s # s_tail
    <3>1. CASE t = s_tail
      BY <1>4, <3>1
    <3>2. CASE t # s_tail
      BY <1>4, <1>14, <1>15, <3>2
    <3> QED BY <3>1, <3>2
  <2>2. Data(s) /\ wrap_tracker'[s] = wrap_tracker[s] /\ req2[s] = req[s]
    BY <1>7, <1>13, <1>15, <2>1
  <2>3. CASE t = s_tail
    <3>1. /\ req[s] < L + 1
          /\ ~wrap_tracker[s] => req[s] < L + Unrecorded
      BY <1>1, <1>10, <2>2 DEF Accounted, Placed, L
    <3>2. req[s] \in Nat
      OBVIOUS
    <3> QED BY <1>9, <1>10, <1>13, <2>2, <2>3, <3>1, <3>2
  <2>4. CASE t # s_tail
    BY <1>1, <1>13, <1>15, <2>2, <2>4 DEF Accounted, Ordered
  <2> QED BY <2>3, <2>4
<1>21. EndsBefore(ends2)'
  <2>1. ends2[tx_head] = 0
    BY <1>1, <1>4, <1>5, <1>13 DEF Accounted, EndsBefore
  <2>2. ASSUME NEW s \in Slots, Dist(tx_head, s) < Dist(tx_head, Next1(s_tail))
        PROVE  ends2[Next1(s)] = IF wrap_tracker'[s] THEN ends2[s] ELSE ends2[s] + 1
    <3>1. CASE s = s_tail
      BY <1>7, <1>13, <3>1
    <3>2. CASE s # s_tail
      <4>1. Dist(tx_head, s) < Dist(tx_head, s_tail)
        BY <1>4, <1>5, <2>2, <3>2
      <4>2. Next1(s) # Next1(s_tail) /\ Next1(s) \in Slots /\ s # Next1(s_tail)
        BY <1>4, <1>5, <2>2, <3>2, NextSlot
      <4>3. ends[Next1(s)] = IF wrap_tracker[s] THEN ends[s] ELSE ends[s] + 1
        BY <1>1, <4>1 DEF Accounted, EndsBefore
      <4> QED BY <1>7, <1>13, <3>2, <4>2, <4>3
    <3> QED BY <3>1, <3>2
  <2>3. ASSUME NEW s \in Slots, NEW t \in Slots, Dist(tx_head, s) <= Dist(tx_head, t),
               Dist(tx_head, t) <= Dist(tx_head, Next1(s_tail))
        PROVE  ends2[s] <= ends2[t]
    <3>1. ends[s_tail] \in Int /\ ends[s] \in Int /\ ends[t] \in Int
      BY <1>4
    <3>2. CASE t = Next1(s_tail) /\ s = Next1(s_tail)
      BY <1>13, <3>1, <3>2
    <3>3. CASE t = Next1(s_tail) /\ s # Next1(s_tail)
      <4>1. Dist(tx_head, s) <= Dist(tx_head, s_tail)
            /\ Dist(tx_head, s_tail) <= Dist(tx_head, s_tail)
        BY <1>4, <1>5, <2>3, <3>3
      <4>2. ends[s] <= ends[s_tail]
        BY <1>1, <1>4, <4>1 DEF Accounted, EndsBefore
      <4> QED BY <1>13, <3>1, <3>3, <4>2
    <3>4. CASE t # Next1(s_tail)
      <4>1. Dist(tx_head, t) <= Dist(tx_head, s_tail) /\ s # Next1(s_tail)
        BY <1>4, <1>5, <2>3, <3>4
      <4> QED BY <1>1, <1>13, <2>3, <3>4, <4>1 DEF Accounted, EndsBefore
    <3> QED BY <3>2, <3>3, <3>4
  <2> QED BY <1>2, <2>1, <2>2, <2>3 DEF EndsBefore
<1>22. Late(req2, ends2)'
  <2>0. nb_unreported \in Nat /\ todo \in Nat /\ ends[s_tail] \in Int
    BY <1>3, <1>4 DEF PathTypeOK, TypeOK
  <2>1. nb_unreported + todo + ends[s_tail] <= L
    <3>1. nb_unreported + todo + ends[s_tail] <= L + 0 + 0
      BY <1>1, <1>10 DEF Accounted, Late, L
    <3> QED BY <1>9, <3>1
  <2>2. ASSUME NEW s \in Slots, Data(s)'
        PROVE  nb_unreported + todo + ends2[s] <= req2[s]
    <3>1. CASE s = s_tail
      BY <1>13, <2>1, <3>1
    <3>2. CASE s # s_tail
      <4>1. Data(s) /\ s # Next1(s_tail)
        BY <1>4, <1>5, <1>14, <1>15, <2>2, <3>2
      <4> QED BY <1>1, <1>13, <3>2, <4>1 DEF Accounted, Late
    <3> QED BY <3>1, <3>2
  <2>3. nb_unreported + todo + ends2[Next1(s_tail)] <= L + Unrecorded' + 0
    <3>1. CASE w
      BY <1>9, <1>10, <1>13, <2>0, <2>1, <3>1
    <3>2. CASE ~w
      BY <1>9, <1>10, <1>13, <2>0, <2>1, <3>2
    <3> QED BY <3>1, <3>2
  <2> QED BY <1>2, <1>10, <2>2, <2>3 DEF Late
<1>23. Accounted(pos, req2, byte2, ends2)'
  BY <1>17, <1>18, <1>19, <1>20, <1>21, <1>22 DEF Accounted
<1> QED BY <1>13, <1>16, <1>23 DEF Found

\* A pipe with n bytes in requests has capacity for all but one of the others.
LEMMA CapacityLeft ==
  ASSUME NEW p \in Pages, app_end[p] \in 0 .. PageSize - 1, NEW n \in 0 .. PageSize - 1,
         app_begin[p] = (app_end[p] + n) % PageSize
  PROVE  capacity(p) = PageSize - 1 - n
<1>1. n + 1 <= PageSize /\ PageSize \in Nat /\ PageSize >= 1 /\ n \in Nat /\ 1 \in Nat
      /\ 1 >= 1
  BY PageAssumption
<1>2. (app_end[p] - ((app_end[p] + n) % PageSize) - 1) % PageSize = PageSize - 1 - n
  BY <1>1, ModBack, ZenonT(40)
<1> QED BY <1>2 DEF capacity, kBufMask

LEMMA SendAndFreeKeeps ==
  ASSUME Base, Found, NEW p \in Pages, NEW nb \in Sendable(p), SendAndFree(p, nb)
  PROVE  Found'
<1>1. PICK pos \in Positions0, req \in [Slots -> Nat], byte \in [Slots -> Nat],
           ends \in [Slots -> Int] : Accounted(pos, req, byte, ends)
  BY DEF Found
<1> DEFINE L == nb_pending_requests
<1>2. /\ UNCHANGED <<pr, pr_head, pr_tail, app_end, tx_buf, tx_head, wrap_tracker,
                     nb_unreported, todo, dret>>
      /\ dev = "app" /\ dev' = "sending" /\ pc = "idle" /\ pc' = "send" /\ dret = "app"
      /\ s_tail' = tx_tail /\ s_page' = p /\ s_off' = app_begin[p] /\ s_missing' = nb
      /\ app_begin' = [app_begin EXCEPT ![p] = kBufMask(@ + nb)]
      /\ cur' = [pipe |-> p, nb |-> nb]
  BY DEF SendAndFree, SendCall, swVars, prVars, Base, Thread
<1>3. TypeOK /\ PathTypeOK /\ s_tail' = s_tail
  BY <1>2 DEF Base, RingInv, LocalTail
<1>4. /\ L \in Nat /\ L < N /\ N \in Nat /\ nb \in Nat /\ nb >= 1 /\ nb <= capacity(p)
      /\ PageSize \in Nat /\ PageSize >= 1
      /\ \A q \in Pages : pos[q] \in [0 .. N -> Nat]
      /\ \A q \in Pages : app_end[q] \in 0 .. PageSize - 1
      /\ \A q \in Pages : app_begin[q] \in 0 .. PageSize - 1
      /\ app_begin \in [Pages -> 0 .. PageSize - 1]
  <2>1. L \in 0 .. N - 1 /\ N \in Nat /\ nb \in 1 .. PageSize /\ nb <= capacity(p)
    BY <1>3, PendingType, NAssumption, SendableType
  <2> QED BY <1>3, <2>1, PageAssumption DEF Positions0, PathTypeOK
<1>5. /\ NbRequests = L /\ NbRequests' = L + 1 /\ nb_pending_requests' = L
      /\ \A i \in 0 .. L - 1 : Request(i)' = Request(i)
      /\ \A i \in 0 .. L : i = L => Request(i)' = [pipe |-> p, nb |-> nb]
      /\ Unrecorded = 0 /\ Unrecorded' = 0 /\ ~InWait /\ ~InWait'
  <2>1. NbRequests = L /\ NbRequests' = L + 1 /\ nb_pending_requests' = L
    BY <1>2 DEF NbRequests, Active, nb_pending_requests
  <2>2. \A i \in 0 .. L - 1 : Request(i)' = Request(i)
    BY <1>2, <1>4, <2>1 DEF Request
  <2>3. \A i \in 0 .. L : i = L => Request(i)' = [pipe |-> p, nb |-> nb]
    BY <1>2, <1>4, <2>1 DEF Request
  <2>4. nb # 0
    BY <1>4
  <2>5. Unrecorded = 0 /\ Unrecorded' = 0 /\ ~InWait /\ ~InWait'
    BY <1>2, <2>4 DEF Unrecorded, InWait
  <2> QED BY <2>1, <2>2, <2>3, <2>5
<1>6. \A q \in Pages :
        /\ pos[q][0] = 0 /\ pos[q][L] \in Nat /\ pos[q][L] <= PageSize - 1
        /\ app_begin[q] = (app_end[q] + pos[q][L]) % PageSize
        /\ \A i \in 0 .. L - 1 :
             pos[q][i + 1] = pos[q][i] + (IF Request(i).pipe = q THEN Request(i).nb ELSE 0)
        /\ \A i, j \in 0 .. L : i <= j => pos[q][i] <= pos[q][j]
  <2>1. L \in 0 .. N
    BY <1>4
  <2> QED BY <1>1, <1>4, <1>5, <2>1 DEF Accounted, Layout
<1>7. pos[p][L] + nb <= PageSize - 1
  <2>1. pos[p][L] \in 0 .. PageSize - 1
    BY <1>4, <1>6
  <2>2. capacity(p) = PageSize - 1 - pos[p][L]
    BY <1>4, <1>6, <2>1, CapacityLeft
  <2> QED BY <1>4, <2>1, <2>2
<1> HIDE DEF L
<1>8. PICK pos2 \in Positions0 :
        \A q \in Pages : \A i \in 0 .. N :
          pos2[q][i] = IF i = L + 1 THEN pos[q][L] + (IF q = p THEN nb ELSE 0)
                                    ELSE pos[q][i]
  <2> DEFINE P2 == [q \in Pages |-> [i \in 0 .. N |->
                      IF i = L + 1 THEN pos[q][L] + (IF q = p THEN nb ELSE 0)
                                   ELSE pos[q][i]]]
  <2>1. P2 \in [Pages -> [0 .. N -> Nat]]
    BY <1>4, <1>6
  <2> QED BY <2>1 DEF Positions0
<1>9. \A q \in Pages :
        /\ pos2[q][L + 1] = pos[q][L] + (IF q = p THEN nb ELSE 0)
        /\ \A i \in 0 .. L : pos2[q][i] = pos[q][i]
  <2>1. L + 1 \in 0 .. N /\ \A i \in 0 .. L : i \in 0 .. N /\ i # L + 1
    BY <1>4
  <2> QED BY <1>8, <2>1
<1>10. PendingClear'
  BY <1>2, <1>5 DEF Found, PendingClear, L
<1>11. Layout(pos2)'
  <2> SUFFICES ASSUME NEW q \in Pages
               PROVE  /\ pos2[q][0] = 0
                      /\ \A i \in 0 .. L : pos2[q][i + 1] =
                           pos2[q][i] + (IF Request(i)'.pipe = q THEN Request(i)'.nb ELSE 0)
                      /\ \A i, j \in 0 .. L + 1 : i <= j => pos2[q][i] <= pos2[q][j]
                      /\ pos2[q][L + 1] <= PageSize - 1
                      /\ app_begin'[q] = (app_end[q] + pos2[q][L + 1]) % PageSize
    <3>1. NbRequests' = L + 1 /\ 0 .. NbRequests' - 1 = 0 .. L /\ app_end' = app_end
      BY <1>2, <1>4, <1>5
    <3> QED BY <3>1 DEF Layout
  <2>1. pos2[q][0] = 0
    <3>1. 0 \in 0 .. L
      BY <1>4
    <3> QED BY <1>6, <1>9, <3>1
  <2>2. ASSUME NEW i \in 0 .. L
        PROVE  pos2[q][i + 1] =
                 pos2[q][i] + (IF Request(i)'.pipe = q THEN Request(i)'.nb ELSE 0)
    <3>1. CASE i = L
      <4>1. pos2[q][L] = pos[q][L]
        BY <1>9, <3>1
      <4>2. (IF Request(i)'.pipe = q THEN Request(i)'.nb ELSE 0) = IF q = p THEN nb ELSE 0
        BY <1>5, <3>1
      <4> QED BY <1>9, <3>1, <4>1, <4>2
    <3>2. CASE i # L
      <4>1. i \in 0 .. L - 1 /\ i + 1 \in 0 .. L
        BY <1>4, <3>2
      <4> QED BY <1>5, <1>6, <1>9, <4>1
    <3> QED BY <3>1, <3>2
  <2>3. ASSUME NEW i \in 0 .. L + 1, NEW j \in 0 .. L + 1, i <= j
        PROVE  pos2[q][i] <= pos2[q][j]
    <3>1. CASE j # L + 1
      <4>1. i \in 0 .. L /\ j \in 0 .. L
        BY <1>4, <2>3, <3>1
      <4> QED BY <1>6, <1>9, <2>3, <4>1
    <3>2. CASE j = L + 1 /\ i # L + 1
      <4>1. i \in 0 .. L /\ L \in 0 .. L /\ i <= L
        BY <1>4, <2>3, <3>2
      <4>2. pos[q][i] <= pos[q][L] /\ pos[q][i] \in Nat
        <5>1. i \in 0 .. N
          BY <1>4, <4>1
        <5> QED BY <1>4, <1>6, <4>1, <5>1
      <4>3. pos2[q][i] = pos[q][i]
        BY <1>9, <4>1
      <4>4. pos2[q][j] = pos[q][L] + (IF q = p THEN nb ELSE 0)
        BY <1>9, <3>2
      <4>5. pos[q][L] \in Nat
        BY <1>6
      <4> QED BY <1>4, <4>2, <4>3, <4>4, <4>5, SMTT(30)
    <3>3. CASE j = L + 1 /\ i = L + 1
      <4>1. pos2[q][L + 1] \in Nat
        <5>1. L + 1 \in 0 .. N
          BY <1>4
        <5> QED BY <5>1 DEF Positions0
      <4> QED BY <3>3, <4>1
    <3> QED BY <3>1, <3>2, <3>3
  <2>4. pos2[q][L + 1] <= PageSize - 1
    <3>1. CASE q = p
      BY <1>7, <1>9, <3>1
    <3>2. CASE q # p
      <4>1. pos2[q][L + 1] = pos[q][L] + 0 /\ pos[q][L] \in Nat
        BY <1>6, <1>9, <3>2
      <4> QED BY <1>4, <1>6, <4>1
    <3> QED BY <3>1, <3>2
  <2>5. app_begin'[q] = (app_end[q] + pos2[q][L + 1]) % PageSize
    <3>1. CASE q = p
      <4>1. (((app_end[p] + pos[p][L]) % PageSize) + nb) % PageSize
              = (app_end[p] + pos[p][L] + nb) % PageSize
        <5>1. app_end[p] + pos[p][L] \in Int /\ nb \in Int
          BY <1>4, <1>6
        <5> QED BY <1>4, <5>1, ModAdd
      <4>2. app_end[p] + pos[p][L] + nb = app_end[p] + (pos[p][L] + nb)
        BY <1>4, <1>6
      <4>3. app_begin'[p] = (app_begin[p] + nb) % PageSize
        BY <1>2, <1>4 DEF kBufMask
      <4> QED BY <1>6, <1>9, <3>1, <4>1, <4>2, <4>3
    <3>2. CASE q # p
      <4>1. app_begin'[q] = app_begin[q] /\ pos2[q][L + 1] = pos[q][L]
        BY <1>2, <1>4, <1>6, <1>9, <3>2
      <4> QED BY <1>6, <4>1
    <3> QED BY <3>1, <3>2
  <2> QED BY <2>1, <2>2, <2>3, <2>4, <2>5
<1>12. Sending(pos2)'
  <2>0. cur' = [pipe |-> p, nb |-> nb]
    BY <1>2
  <2>1. cur'.pipe = p /\ cur'.nb = nb /\ pos2[p][L] = pos[p][L]
    <3>1. L \in 0 .. L /\ p \in Pages
      BY <1>4
    <3>2. pos2[p][L] = pos[p][L]
      BY <1>9, <3>1
    <3> QED BY <2>0, <3>2
  <2>2. pos[p][L] + (nb - nb) = pos[p][L] /\ nb <= nb
    BY <1>4, <1>6
  <2> QED BY <1>2, <1>5, <1>6, <2>1, <2>2 DEF Sending
<1>13. Placed(pos2, req, byte)'
  <2> SUFFICES ASSUME NEW s \in Slots, Data(s)
               PROVE  /\ Dist(tx_head, s) < Dist(tx_head, s_tail)
                      /\ req[s] < L + 1
                      /\ ~wrap_tracker[s] => req[s] < L + 0
                      /\ Request(req[s])'.pipe = tx_buf[s].page
                      /\ pos2[tx_buf[s].page][req[s]] <= byte[s]
                      /\ byte[s] + tx_buf[s].len <= pos2[tx_buf[s].page][req[s] + 1]
                      /\ tx_buf[s].off = (app_end[tx_buf[s].page] + byte[s]) % PageSize
    BY <1>2, <1>3, <1>5 DEF Placed, Data
  <2>1. /\ Dist(tx_head, s) < Dist(tx_head, s_tail)
        /\ req[s] < L
        /\ ~wrap_tracker[s] => req[s] < L + 0
        /\ Request(req[s]).pipe = tx_buf[s].page
        /\ pos[tx_buf[s].page][req[s]] <= byte[s]
        /\ byte[s] + tx_buf[s].len <= pos[tx_buf[s].page][req[s] + 1]
        /\ tx_buf[s].off = (app_end[tx_buf[s].page] + byte[s]) % PageSize
    BY <1>1, <1>5 DEF Accounted, Placed, L
  <2>2. tx_buf[s].page \in Pages
    BY <1>3, RingFacts DEF Notifications
  <2>3. req[s] \in 0 .. L - 1 /\ req[s] \in 0 .. L /\ req[s] + 1 \in 0 .. L
    BY <1>4, <2>1
  <2>4. /\ pos2[tx_buf[s].page][req[s]] = pos[tx_buf[s].page][req[s]]
        /\ pos2[tx_buf[s].page][req[s] + 1] = pos[tx_buf[s].page][req[s] + 1]
    BY <1>9, <2>2, <2>3
  <2>5. Request(req[s])' = Request(req[s])
    BY <1>5, <2>3
  <2>6. req[s] < L + 1
    BY <1>4, <2>3
  <2> QED BY <2>1, <2>4, <2>5, <2>6
<1>14. Ordered(req)' /\ EndsBefore(ends)'
  BY <1>1, <1>2, <1>3 DEF Accounted, Ordered, EndsBefore, Data
<1>15. Late(req, ends)'
  BY <1>1, <1>2, <1>3, <1>5 DEF Accounted, Late, Data, L
<1>16. Accounted(pos2, req, byte, ends)'
  BY <1>11, <1>12, <1>13, <1>14, <1>15 DEF Accounted
<1> QED BY <1>10, <1>16 DEF Found

LEMMA ConfigPutKeeps ==
  ASSUME Base, Found, dev = "config", ConfigPut, UNCHANGED <<pipeVars, prVars, devVars>>
  PROVE  Found'
<1>1. PICK pos \in Positions0, req \in [Slots -> Nat], byte \in [Slots -> Nat],
           ends \in [Slots -> Int] : Accounted(pos, req, byte, ends)
  BY DEF Found
<1>2. /\ UNCHANGED <<pr, pr_head, pr_tail, cur, app_begin, app_end, tx_head, wrap_tracker,
                     nb_unreported, todo, dev, dret>>
      /\ pc = "cfg_put" /\ pc' = "cfg_wait" /\ dret = "app" /\ FreeSlots(tx_tail) # 0
      /\ s_tail' = Next1(tx_tail)
      /\ tx_buf' = [tx_buf EXCEPT ![tx_tail] = [Free EXCEPT !.signal = 2]]
  BY DEF ConfigPut, pipeVars, prVars, devVars, Base, Thread
<1>3. TypeOK /\ PathTypeOK /\ tx_tail = s_tail
  BY <1>2 DEF Base, RingInv, LocalTail
<1>4. /\ tx_head \in Slots /\ s_tail \in Slots
      /\ tx_buf \in [Slots -> Notifications] /\ wrap_tracker \in [Slots -> BOOLEAN]
      /\ Next1(s_tail) \in Slots
      /\ \A x \in Slots : Dist(tx_head, x) \in Nat /\ Dist(tx_head, x) < N
      /\ \A x, y \in Slots : Dist(tx_head, x) = Dist(tx_head, y) <=> x = y
      /\ \A x, y \in Slots : Next1(x) = Next1(y) => x = y
  BY <1>3, RingFacts
<1>5. Next1(s_tail) # tx_head
      /\ Dist(tx_head, Next1(s_tail)) = Dist(tx_head, s_tail) + 1
  BY <1>2, <1>3, RingFacts, FreeSlotsZero
<1>6. ~wrap_tracker[s_tail]
  BY <1>4 DEF Base, WrapInv, WrapSlot
<1>7. \A s \in Slots : Data(s)' => Data(s) /\ tx_buf'[s] = tx_buf[s]
  BY <1>2, <1>3, <1>4 DEF Data, Free
<1>8. /\ nb_pending_requests' = nb_pending_requests /\ NbRequests' = NbRequests
      /\ \A i : Request(i)' = Request(i)
      /\ Unrecorded' = 0 /\ Unrecorded = 0 /\ InWait' /\ ~InWait
  BY <1>2 DEF nb_pending_requests, NbRequests, Active, Request, Unrecorded, InWait
<1>9. PICK ends2 \in [Slots -> Int] :
        /\ ends2[s_tail] = ends[s_tail] /\ ends2[Next1(s_tail)] = ends[s_tail] + 1
        /\ \A s \in Slots : s # Next1(s_tail) => ends2[s] = ends[s]
  <2> DEFINE e2 == [ends EXCEPT ![Next1(s_tail)] = ends[s_tail] + 1]
  <2>1. e2 \in [Slots -> Int] /\ Next1(s_tail) # s_tail
    BY <1>4, <1>5
  <2> QED BY <1>4, <2>1
<1>10. PendingClear' /\ Layout(pos)' /\ Sending(pos)'
  BY <1>1, <1>2, <1>8 DEF Found, PendingClear, Accounted, Layout, Sending
<1>11. \A s \in Slots : Data(s) => Dist(tx_head, s) < Dist(tx_head, s_tail)
  BY <1>1 DEF Accounted, Placed
<1>12. Placed(pos, req, byte)'
  <2>1. \A s \in Slots : Data(s) => Dist(tx_head, s) < Dist(tx_head, Next1(s_tail))
    BY <1>4, <1>5, <1>11
  <2> QED BY <1>1, <1>2, <1>3, <1>7, <1>8, <2>1 DEF Accounted, Placed
<1>13. Ordered(req)'
  BY <1>1, <1>2, <1>7 DEF Accounted, Ordered
<1>14. EndsBefore(ends2)'
  <2>1. ends2[tx_head] = 0
    BY <1>1, <1>4, <1>5, <1>9 DEF Accounted, EndsBefore
  <2>2. ASSUME NEW s \in Slots, Dist(tx_head, s) < Dist(tx_head, Next1(s_tail))
        PROVE  ends2[Next1(s)] = IF wrap_tracker[s] THEN ends2[s] ELSE ends2[s] + 1
    <3>1. CASE s = s_tail
      BY <1>6, <1>9, <3>1
    <3>2. CASE s # s_tail
      <4>1. Dist(tx_head, s) < Dist(tx_head, s_tail)
        BY <1>4, <1>5, <2>2, <3>2
      <4>2. Next1(s) # Next1(s_tail) /\ Next1(s) \in Slots /\ s # Next1(s_tail)
        BY <1>4, <1>5, <2>2, <3>2, NextSlot
      <4>3. ends[Next1(s)] = IF wrap_tracker[s] THEN ends[s] ELSE ends[s] + 1
        BY <1>1, <4>1 DEF Accounted, EndsBefore
      <4> QED BY <1>9, <4>2, <4>3
    <3> QED BY <3>1, <3>2
  <2>3. ASSUME NEW s \in Slots, NEW t \in Slots, Dist(tx_head, s) <= Dist(tx_head, t),
               Dist(tx_head, t) <= Dist(tx_head, Next1(s_tail))
        PROVE  ends2[s] <= ends2[t]
    <3>1. ends[s_tail] \in Int /\ ends[s] \in Int /\ ends[t] \in Int
      BY <1>4
    <3>2. CASE t = Next1(s_tail) /\ s = Next1(s_tail)
      BY <1>9, <3>1, <3>2
    <3>3. CASE t = Next1(s_tail) /\ s # Next1(s_tail)
      <4>1. Dist(tx_head, s) <= Dist(tx_head, s_tail)
            /\ Dist(tx_head, s_tail) <= Dist(tx_head, s_tail)
        BY <1>4, <1>5, <2>3, <3>3
      <4>2. ends[s] <= ends[s_tail]
        BY <1>1, <1>4, <4>1 DEF Accounted, EndsBefore
      <4> QED BY <1>9, <3>1, <3>3, <4>2
    <3>4. CASE t # Next1(s_tail)
      <4>1. Dist(tx_head, t) <= Dist(tx_head, s_tail) /\ s # Next1(s_tail)
        BY <1>4, <1>5, <2>3, <3>4
      <4> QED BY <1>1, <1>9, <2>3, <3>4, <4>1 DEF Accounted, EndsBefore
    <3> QED BY <3>2, <3>3, <3>4
  <2> QED BY <1>2, <1>3, <2>1, <2>2, <2>3 DEF EndsBefore
<1>15. Late(req, ends2)'
  <2>1. ASSUME NEW s \in Slots, Data(s)'
        PROVE  nb_unreported + todo + ends2[s] <= req[s]
    <3>1. Data(s) /\ s # Next1(s_tail)
      BY <1>4, <1>5, <1>7, <1>11, <2>1
    <3> QED BY <1>1, <1>9, <3>1 DEF Accounted, Late
  <2>2. nb_unreported + todo + ends2[Next1(s_tail)] <= nb_pending_requests + 0 + 1
    <3>1. nb_unreported + todo + ends[s_tail] <= nb_pending_requests + 0 + 0
      BY <1>1, <1>8 DEF Accounted, Late
    <3>2. /\ nb_unreported \in Nat /\ todo \in Nat /\ ends[s_tail] \in Int
          /\ nb_pending_requests \in Int
      BY <1>3, <1>4, PendingType DEF PathTypeOK, TypeOK
    <3> QED BY <1>9, <3>1, <3>2
  <2> QED BY <1>2, <1>3, <1>8, <2>1, <2>2 DEF Late
<1>16. Accounted(pos, req, byte, ends2)'
  BY <1>10, <1>12, <1>13, <1>14, <1>15 DEF Accounted
<1> QED BY <1>10, <1>16 DEF Found

LEMMA ReapKeeps ==
  ASSUME Base, Found, Reap, UNCHANGED <<pipeVars, prVars, devVars>>
  PROVE  Found'
<1>1. PICK pos \in Positions0, req \in [Slots -> Nat], byte \in [Slots -> Nat],
           ends \in [Slots -> Int] : Accounted(pos, req, byte, ends)
  BY DEF Found
<1> DEFINE c == IF wrap_tracker[tx_head] THEN 0 ELSE 1
<1>2. /\ UNCHANGED <<pr, pr_head, pr_tail, cur, app_begin, app_end, tx_buf, s_tail, todo,
                     pc, ret, dev, dret, s_missing, s_page, s_off>>
      /\ tx_head # tx_tail /\ tx_buf[tx_head].signal = 0
      /\ tx_head' = Next1(tx_head) /\ nb_unreported' = nb_unreported + c
      /\ wrap_tracker' = [wrap_tracker EXCEPT ![tx_head] = FALSE]
  BY DEF Reap, CompletionsOf, WrapCleared, sendVars, pipeVars, prVars, devVars
<1>3. TypeOK /\ PathTypeOK /\ RingOrder
  BY DEF Base, RingInv
<1>4. /\ tx_head \in Slots /\ s_tail \in Slots /\ tx_tail \in Slots
      /\ wrap_tracker \in [Slots -> BOOLEAN] /\ N \in Nat
      /\ \A x \in Slots : Dist(tx_head, x) \in Nat /\ Dist(tx_head, x) < N
      /\ \A x \in Slots : Dist(tx_head, x) = 0 <=> x = tx_head
      /\ \A x \in Slots : Next1(x) \in Slots
  BY <1>3, RingFacts, NAssumption
<1>5. Dist(tx_head, s_tail) > 0 /\ s_tail # tx_head /\ Dist(tx_head, tx_head) = 0
  <2>1. Dist(tx_head, tx_tail) <= Dist(tx_head, s_tail)
    BY <1>3 DEF RingOrder
  <2> QED BY <1>2, <1>4, <2>1
<1>6. /\ \A x \in Slots : x # tx_head => Dist(Next1(tx_head), x) = Dist(tx_head, x) - 1
      /\ Dist(Next1(tx_head), tx_head) = N - 1
  BY <1>4, DistNext
<1>7. \A s \in Slots : /\ Data(s) => s # tx_head
                       /\ s # tx_head => wrap_tracker'[s] = wrap_tracker[s]
  <2>1. \A s \in Slots : Data(s) => s # tx_head
    BY <1>2 DEF Data
  <2>2. wrap_tracker' = [wrap_tracker EXCEPT ![tx_head] = FALSE]
    BY <1>2
  <2>3. \A s \in Slots : s # tx_head => wrap_tracker'[s] = wrap_tracker[s]
    BY <1>4, <2>2
  <2> QED BY <2>1, <2>3
<1>8. /\ nb_pending_requests' = nb_pending_requests /\ NbRequests' = NbRequests
      /\ \A i : Request(i)' = Request(i)
      /\ Unrecorded' = Unrecorded /\ InWait' = InWait
      /\ \A s : Data(s)' = Data(s)
  BY <1>2 DEF nb_pending_requests, NbRequests, Active, Request, Unrecorded, InWait, Data
<1>9. ends[tx_head] = 0 /\ ends[Next1(tx_head)] = c /\ c \in Int
  <2>1. Dist(tx_head, tx_head) < Dist(tx_head, s_tail)
    BY <1>4, <1>5
  <2> QED BY <1>1, <1>4, <2>1 DEF Accounted, EndsBefore
<1> HIDE DEF c
<1>10. PICK ends2 \in [Slots -> Int] : \A s \in Slots : ends2[s] = ends[s] - c
  <2> DEFINE e2 == [s \in Slots |-> ends[s] - c]
  <2>1. e2 \in [Slots -> Int]
    BY <1>9
  <2> QED BY <2>1
<1>11. PendingClear' /\ Layout(pos)' /\ Sending(pos)'
  BY <1>1, <1>2, <1>8 DEF Found, PendingClear, Accounted, Layout, Sending
<1>12. Placed(pos, req, byte)'
  <2>1. \A s \in Slots : Data(s) =>
          Dist(Next1(tx_head), s) < Dist(Next1(tx_head), s_tail)
    <3> SUFFICES ASSUME NEW s \in Slots, Data(s)
                 PROVE  Dist(Next1(tx_head), s) < Dist(Next1(tx_head), s_tail)
      OBVIOUS
    <3>1. Dist(tx_head, s) < Dist(tx_head, s_tail) /\ s # tx_head
      BY <1>1, <1>7 DEF Accounted, Placed
    <3> QED BY <1>4, <1>5, <1>6, <3>1
  <2> QED BY <1>1, <1>2, <1>7, <1>8, <2>1 DEF Accounted, Placed
<1>13. Ordered(req)'
  <2> SUFFICES ASSUME NEW s \in Slots, NEW t \in Slots, Data(s), Data(t),
                      Dist(Next1(tx_head), s) < Dist(Next1(tx_head), t)
               PROVE  (IF wrap_tracker'[s] THEN req[s] ELSE req[s] + 1) <= req[t]
    BY <1>2, <1>8 DEF Ordered
  <2>1. s # tx_head /\ t # tx_head
    BY <1>7
  <2>2. Dist(tx_head, s) < Dist(tx_head, t)
    BY <1>4, <1>6, <2>1
  <2> QED BY <1>1, <1>7, <2>1, <2>2 DEF Accounted, Ordered
<1>14. EndsBefore(ends2)'
  <2>1. ends2[Next1(tx_head)] = 0
    BY <1>4, <1>9, <1>10
  <2>2. ASSUME NEW s \in Slots, Dist(Next1(tx_head), s) < Dist(Next1(tx_head), s_tail)
        PROVE  ends2[Next1(s)] = IF wrap_tracker'[s] THEN ends2[s] ELSE ends2[s] + 1
    <3>1. s # tx_head /\ Dist(tx_head, s) < Dist(tx_head, s_tail)
      BY <1>4, <1>5, <1>6, <2>2
    <3>2. ends[Next1(s)] = IF wrap_tracker[s] THEN ends[s] ELSE ends[s] + 1
      BY <1>1, <3>1 DEF Accounted, EndsBefore
    <3>3. ends[s] \in Int /\ ends[Next1(s)] \in Int /\ Next1(s) \in Slots
      BY <1>4
    <3> QED BY <1>7, <1>9, <1>10, <3>1, <3>2, <3>3
  <2>3. ASSUME NEW s \in Slots, NEW t \in Slots,
               Dist(Next1(tx_head), s) <= Dist(Next1(tx_head), t),
               Dist(Next1(tx_head), t) <= Dist(Next1(tx_head), s_tail)
        PROVE  ends2[s] <= ends2[t]
    <3>1. t # tx_head /\ s # tx_head
      BY <1>4, <1>5, <1>6, <2>3
    <3>2. /\ Dist(tx_head, s) <= Dist(tx_head, t)
          /\ Dist(tx_head, t) <= Dist(tx_head, s_tail)
      BY <1>4, <1>5, <1>6, <2>3, <3>1
    <3>3. ends[s] <= ends[t] /\ ends[s] \in Int /\ ends[t] \in Int
      BY <1>1, <3>2 DEF Accounted, EndsBefore
    <3> QED BY <1>9, <1>10, <3>3
  <2> QED BY <1>2, <2>1, <2>2, <2>3 DEF EndsBefore
<1>15. Late(req, ends2)'
  <2>0. nb_unreported \in Nat /\ todo \in Nat
    BY <1>3 DEF PathTypeOK, TypeOK
  <2>1. \A s \in Slots : nb_unreported' + todo + ends2[s] = nb_unreported + todo + ends[s]
    <3> TAKE s \in Slots
    <3>1. ends[s] \in Int /\ ends2[s] = ends[s] - c
      BY <1>10
    <3> QED BY <1>2, <1>9, <2>0, <3>1
  <2> QED BY <1>1, <1>2, <1>4, <1>8, <2>1 DEF Accounted, Late
<1>16. Accounted(pos, req, byte, ends2)'
  BY <1>11, <1>12, <1>13, <1>14, <1>15 DEF Accounted
<1> QED BY <1>11, <1>16 DEF Found

\* The pending ring after a pop: the requests move down by one.
LEMMA PopRequests ==
  ASSUME PathTypeOK, PendingClear, PopCompletion, nb_pending_requests > 0
  PROVE  /\ nb_pending_requests' = nb_pending_requests - 1
         /\ NbRequests' = NbRequests - 1 /\ NbRequests > 0
         /\ \A i \in 0 .. NbRequests - 2 : Request(i)' = Request(i + 1)
         /\ Request(0) = pr[pr_head]
         /\ PendingClear'
<1> DEFINE L == nb_pending_requests
<1>1. /\ UNCHANGED <<pr_tail, cur, dev, dret>>
      /\ pr' = [pr EXCEPT ![pr_head] = NoRequest] /\ pr_head' = Next1(pr_head)
  BY DEF PopCompletion
<1>2. /\ N \in Nat /\ N >= 1 /\ L \in 0 .. N - 1 /\ pr_tail = (pr_head + L) % N
      /\ pr_head \in Slots /\ pr \in [Slots -> Requests] /\ pr_head \in Int
      /\ NbRequests \in 0 .. N
  BY NAssumption, PendingType DEF PathTypeOK, Slots
<1>3. nb_pending_requests' = L - 1
  <2>1. L - 1 \in 0 .. N /\ L - 1 \in 0 .. N - 1 /\ (L - 1) + 1 = L
    BY <1>2
  <2>2. (Next1(pr_head) + (L - 1)) % N = pr_tail
    BY <1>2, <2>1, RingIndex
  <2>3. Next1(pr_head) \in Int
    BY <1>2, NextSlot DEF Slots
  <2>4. (((Next1(pr_head) + (L - 1)) % N) - Next1(pr_head)) % N = L - 1
    BY <1>2, <2>1, <2>3, ModForth
  <2> QED BY <1>1, <2>2, <2>4 DEF nb_pending_requests
<1>4. NbRequests' = NbRequests - 1 /\ NbRequests > 0 /\ NbRequests \in {L, L + 1}
  BY <1>1, <1>2, <1>3 DEF NbRequests, Active
<1>5. \A i \in 0 .. N - 1 :
        pr'[(Next1(pr_head) + i) % N] =
          IF i = N - 1 THEN NoRequest ELSE pr[(pr_head + (i + 1)) % N]
  <2> TAKE i \in 0 .. N - 1
  <2>1. i \in 0 .. N /\ i + 1 \in 0 .. N /\ 0 \in 0 .. N - 1
    BY <1>2
  <2>2. (Next1(pr_head) + i) % N = (pr_head + (i + 1)) % N
    BY <1>2, <2>1, RingIndex
  <2>3. CASE i = N - 1
    <3>1. i + 1 = N
      BY <1>2, <2>3
    <3>2. (pr_head + N) % N = pr_head
      BY <1>2, <2>1, RingIndex
    <3> QED BY <1>1, <1>2, <2>2, <2>3, <3>1, <3>2
  <2>4. CASE i # N - 1
    <3>1. i + 1 < N /\ i + 1 # 0
      BY <1>2, <2>4
    <3>2. (pr_head + (i + 1)) % N \in Slots /\ (pr_head + 0) % N = pr_head
      BY <1>2, <2>1, RingIndex
    <3>3. (pr_head + (i + 1)) % N # pr_head
      BY <1>2, <2>1, <3>1, <3>2, RingIndex
    <3> QED BY <1>1, <1>2, <2>2, <2>4, <3>2, <3>3
  <2> QED BY <2>3, <2>4
<1>6. ASSUME NEW i \in 0 .. NbRequests - 2 PROVE Request(i)' = Request(i + 1)
  <2>1. i \in 0 .. N - 1 /\ (i < L - 1 <=> i + 1 < L) /\ (i < L - 1 => i # N - 1)
    BY <1>2, <1>4
  <2>2. CASE i < L - 1
    <3>1. Request(i)' = pr'[(Next1(pr_head) + i) % N]
      BY <1>1, <1>3, <2>2 DEF Request
    <3> QED BY <1>5, <2>1, <2>2, <3>1 DEF Request
  <2>3. CASE ~(i < L - 1)
    <3>1. Request(i)' = cur
      BY <1>1, <1>3, <2>3 DEF Request
    <3> QED BY <2>1, <2>3, <3>1 DEF Request
  <2> QED BY <2>2, <2>3
<1>7. Request(0) = pr[pr_head]
  <2>1. 0 \in 0 .. N /\ 0 < L
    BY <1>2
  <2>2. (pr_head + 0) % N = pr_head
    BY <1>2, <2>1, RingIndex
  <2> QED BY <2>1, <2>2 DEF Request
<1>8. PendingClear'
  <2> SUFFICES ASSUME NEW i \in L - 1 .. N - 1
               PROVE  pr'[(Next1(pr_head) + i) % N] = NoRequest
    BY <1>1, <1>3 DEF PendingClear
  <2>1. i \in 0 .. N - 1 /\ (i = N - 1 \/ i + 1 \in L .. N - 1)
    BY <1>2
  <2> QED BY <1>5, <2>1 DEF PendingClear
<1> QED BY <1>3, <1>4, <1>6, <1>7, <1>8

LEMMA PopKeeps ==
  ASSUME Base, Found, PopCompletion, nb_pending_requests > 0
  PROVE  Found'
<1>1. PICK pos \in Positions0, req \in [Slots -> Nat], byte \in [Slots -> Nat],
           ends \in [Slots -> Int] : Accounted(pos, req, byte, ends)
  BY DEF Found
<1> DEFINE M == NbRequests
           L == nb_pending_requests
           r == pr[pr_head]
<1>2. /\ UNCHANGED <<app_begin, tx_buf, tx_head, s_tail, wrap_tracker, nb_unreported, pc,
                     ret, dev, dret, s_missing, s_page, s_off>>
      /\ dev = "popping" /\ pc = "idle" /\ todo > 0 /\ todo' = todo - 1
      /\ app_end' = [app_end EXCEPT ![r.pipe] = kBufMask(@ + r.nb)]
  BY DEF PopCompletion, vars, Base, Thread
<1>3. TypeOK /\ PathTypeOK
  BY DEF Base, RingInv
<1>4. /\ nb_pending_requests' = L - 1 /\ NbRequests' = M - 1 /\ M > 0
      /\ \A i \in 0 .. M - 2 : Request(i)' = Request(i + 1)
      /\ Request(0) = r /\ PendingClear'
  BY <1>3, PopRequests DEF Found
<1>5. /\ M \in Nat /\ M <= N /\ N \in Nat /\ L \in Nat /\ L >= 1
      /\ PageSize \in Nat /\ PageSize >= 1
      /\ \A q \in Pages : pos[q] \in [0 .. N -> Nat]
      /\ \A q \in Pages : app_end[q] \in 0 .. PageSize - 1
      /\ app_end \in [Pages -> 0 .. PageSize - 1]
      /\ r.pipe \in Pages /\ r.nb \in Nat
  <2>1. M \in 0 .. N /\ L \in 0 .. N - 1 /\ N \in Nat
    BY <1>3, PendingType, NAssumption
  <2>2. r \in Requests
    BY <1>3 DEF PathTypeOK
  <2>3. r.pipe \in Pages /\ r.nb \in 0 .. PageSize
    BY <2>2 DEF Requests
  <2> QED BY <1>3, <2>1, <2>3, PageAssumption, SMTT(30) DEF Positions0, PathTypeOK
<1>6. /\ Unrecorded' = Unrecorded /\ Unrecorded \in {0, 1} /\ ~InWait /\ ~InWait'
      /\ \A s : Data(s)' = Data(s)
  BY <1>2 DEF Unrecorded, InWait, Data
<1>7. \A q \in Pages :
        /\ pos[q][0] = 0 /\ pos[q][M] <= PageSize - 1
        /\ app_begin[q] = (app_end[q] + pos[q][M]) % PageSize
        /\ \A i \in 0 .. M - 1 :
             pos[q][i + 1] = pos[q][i] + (IF Request(i).pipe = q THEN Request(i).nb ELSE 0)
        /\ \A i, j \in 0 .. M : i <= j => pos[q][i] <= pos[q][j]
  BY <1>1 DEF Accounted, Layout
<1> HIDE DEF M, L, r
<1>8. \A q \in Pages :
        /\ pos[q][1] = IF r.pipe = q THEN r.nb ELSE 0
        /\ \A i \in 0 .. M : pos[q][i] \in Nat
        /\ pos[q][1] \in Nat
        /\ \A i \in 1 .. M : pos[q][1] <= pos[q][i]
  <2> TAKE q \in Pages
  <2>1. 0 \in 0 .. M - 1 /\ 1 \in 0 .. M /\ 1 \in 0 .. N /\ 0 + 1 = 1
    BY <1>4, <1>5
  <2>2. \A i \in 0 .. M : i \in 0 .. N
    BY <1>5
  <2>3. pos[q][1] = pos[q][0] + (IF Request(0).pipe = q THEN Request(0).nb ELSE 0)
    BY <1>7, <2>1
  <2>4. pos[q][1] = IF r.pipe = q THEN r.nb ELSE 0
    <3>1. pos[q][0] = 0 /\ Request(0) = r /\ r.nb \in Nat
      BY <1>4, <1>5, <1>7
    <3> QED BY <2>3, <3>1
  <2>5. \A i \in 0 .. M : pos[q][i] \in Nat
    BY <1>5, <2>2
  <2>6. ASSUME NEW i \in 1 .. M PROVE pos[q][1] <= pos[q][i]
    <3>1. i \in 0 .. M /\ 1 <= i
      BY <1>5
    <3> QED BY <1>7, <2>1, <3>1
  <2> QED BY <2>1, <2>4, <2>5, <2>6
<1>9. PICK pos2 \in Positions0 :
        \A q \in Pages : \A i \in 0 .. M - 1 : pos2[q][i] = pos[q][i + 1] - pos[q][1]
  <2> DEFINE P2 == [q \in Pages |-> [i \in 0 .. N |->
                      IF i < M THEN pos[q][i + 1] - pos[q][1] ELSE 0]]
  <2>1. ASSUME NEW q \in Pages, NEW i \in 0 .. N, i < M
        PROVE  pos[q][i + 1] - pos[q][1] \in Nat
    <3>1. i + 1 \in 1 .. M /\ i + 1 \in 0 .. M
      BY <1>5, <2>1
    <3>2. pos[q][i + 1] \in Nat /\ pos[q][1] \in Nat /\ pos[q][1] <= pos[q][i + 1]
      BY <1>8, <3>1
    <3> QED BY <3>2
  <2>2. P2 \in [Pages -> [0 .. N -> Nat]]
    BY <2>1
  <2>3. \A i \in 0 .. M - 1 : i \in 0 .. N /\ i < M
    BY <1>5
  <2>4. \A q \in Pages : \A i \in 0 .. M - 1 : P2[q][i] = pos[q][i + 1] - pos[q][1]
    BY <2>3
  <2> HIDE DEF P2
  <2> QED BY <2>2, <2>4 DEF Positions0
<1>10. \A q \in Pages : app_end'[q] = (app_end[q] + pos[q][1]) % PageSize
  <2> TAKE q \in Pages
  <2>1. CASE q = r.pipe
    BY <1>2, <1>5, <1>8, <2>1 DEF kBufMask
  <2>2. CASE q # r.pipe
    <3>1. app_end'[q] = app_end[q] /\ pos[q][1] = 0
      BY <1>2, <1>5, <1>8, <2>2
    <3>2. app_end[q] + 0 = app_end[q] /\ app_end[q] % PageSize = app_end[q]
      <4>1. app_end[q] \in 0 .. PageSize - 1 /\ PageSize \in Nat
        BY <1>5
      <4> QED BY <4>1, Z3
    <3> QED BY <3>1, <3>2
  <2> QED BY <2>1, <2>2
<1>11. ASSUME NEW q \in Pages, NEW b \in Nat
       PROVE  (app_end'[q] + (b - pos[q][1])) % PageSize = (app_end[q] + b) % PageSize
  <2>1. app_end[q] + pos[q][1] \in Int /\ b - pos[q][1] \in Int /\ pos[q][1] \in Nat
        /\ app_end[q] \in Nat
    BY <1>5, <1>8, <1>11
  <2>2. (((app_end[q] + pos[q][1]) % PageSize) + (b - pos[q][1])) % PageSize
          = (app_end[q] + pos[q][1] + (b - pos[q][1])) % PageSize
    BY <1>5, <2>1, ModAdd
  <2>3. app_end[q] + pos[q][1] + (b - pos[q][1]) = app_end[q] + b
    BY <2>1
  <2> QED BY <1>10, <2>2, <2>3
<1>12. \A s \in Slots : Data(s) =>
         /\ Dist(tx_head, s) < Dist(tx_head, s_tail)
         /\ req[s] < M
         /\ ~wrap_tracker[s] => req[s] < L + Unrecorded
         /\ Request(req[s]).pipe = tx_buf[s].page
         /\ pos[tx_buf[s].page][req[s]] <= byte[s]
         /\ byte[s] + tx_buf[s].len <= pos[tx_buf[s].page][req[s] + 1]
         /\ tx_buf[s].off = (app_end[tx_buf[s].page] + byte[s]) % PageSize
         /\ nb_unreported + todo + ends[s] <= req[s]
  BY <1>1 DEF Accounted, Placed, Late, L, M
<1>13. \A s \in Slots : Data(s) =>
         /\ tx_buf[s].page \in Pages /\ tx_buf[s].len \in Nat
         /\ req[s] \in 1 .. M - 1 /\ pos[tx_buf[s].page][1] <= byte[s]
  <2> SUFFICES ASSUME NEW s \in Slots, Data(s)
               PROVE  /\ tx_buf[s].page \in Pages /\ tx_buf[s].len \in Nat
                      /\ req[s] \in 1 .. M - 1 /\ pos[tx_buf[s].page][1] <= byte[s]
    OBVIOUS
  <2>1. tx_buf[s].page \in Pages /\ tx_buf[s].len \in 0 .. PageSize
    BY <1>3, RingFacts DEF Notifications
  <2>2. ends[s] >= 0 /\ ends[s] \in Int
    <3>1. tx_head \in Slots /\ Dist(tx_head, tx_head) = 0
          /\ Dist(tx_head, s) \in Nat /\ Dist(tx_head, s_tail) \in Nat
      BY <1>3, RingFacts
    <3>2. Dist(tx_head, tx_head) <= Dist(tx_head, s)
          /\ Dist(tx_head, s) <= Dist(tx_head, s_tail)
      BY <1>12, <3>1
    <3>3. ends[tx_head] <= ends[s] /\ ends[tx_head] = 0
      BY <1>1, <3>1, <3>2 DEF Accounted, EndsBefore
    <3> QED BY <3>3
  <2>3. req[s] \in 1 .. M - 1
    <3>1. nb_unreported \in Nat /\ todo \in Nat /\ req[s] \in Nat
      BY <1>3 DEF PathTypeOK, TypeOK
    <3>2. nb_unreported + todo + ends[s] <= req[s] /\ req[s] < M
      BY <1>12
    <3> QED BY <1>2, <1>5, <2>2, <3>1, <3>2
  <2>4. pos[tx_buf[s].page][1] <= byte[s]
    <3>1. req[s] \in 1 .. M /\ req[s] \in 0 .. M
      BY <1>5, <2>3
    <3>2. /\ pos[tx_buf[s].page][1] <= pos[tx_buf[s].page][req[s]]
          /\ pos[tx_buf[s].page][req[s]] \in Nat /\ pos[tx_buf[s].page][1] \in Nat
      BY <1>8, <2>1, <3>1
    <3>3. pos[tx_buf[s].page][req[s]] <= byte[s] /\ byte[s] \in Nat
      BY <1>12
    <3> QED BY <3>2, <3>3
  <2> QED BY <1>5, <2>1, <2>3, <2>4, SMTT(30)
<1>14. PICK req2 \in [Slots -> Nat], byte2 \in [Slots -> Nat] :
         \A s \in Slots : Data(s) => /\ req2[s] = req[s] - 1
                                     /\ byte2[s] = byte[s] - pos[tx_buf[s].page][1]
  <2> DEFINE r2 == [s \in Slots |-> IF Data(s) THEN req[s] - 1 ELSE 0]
             b2 == [s \in Slots |-> IF Data(s) THEN byte[s] - pos[tx_buf[s].page][1] ELSE 0]
  <2>1. \A s \in Slots : Data(s) => req[s] - 1 \in Nat
    BY <1>5, <1>13
  <2>2. \A s \in Slots : Data(s) => byte[s] - pos[tx_buf[s].page][1] \in Nat
    <3> SUFFICES ASSUME NEW s \in Slots, Data(s)
                 PROVE  byte[s] - pos[tx_buf[s].page][1] \in Nat
      OBVIOUS
    <3>1. pos[tx_buf[s].page][1] \in Nat /\ pos[tx_buf[s].page][1] <= byte[s]
          /\ byte[s] \in Nat
      BY <1>8, <1>13
    <3> QED BY <3>1
  <2>3. r2 \in [Slots -> Nat]
    BY <2>1
  <2>4. b2 \in [Slots -> Nat]
    BY <2>2
  <2>5. \A s \in Slots : Data(s) => /\ r2[s] = req[s] - 1
                                    /\ b2[s] = byte[s] - pos[tx_buf[s].page][1]
    OBVIOUS
  <2> HIDE DEF r2, b2
  <2> QED BY <2>3, <2>4, <2>5
<1>15. Layout(pos2)'
  <2> SUFFICES ASSUME NEW q \in Pages
               PROVE  /\ pos2[q][0] = 0
                      /\ \A i \in 0 .. M - 2 : pos2[q][i + 1] =
                           pos2[q][i] + (IF Request(i)'.pipe = q THEN Request(i)'.nb ELSE 0)
                      /\ \A i, j \in 0 .. M - 1 : i <= j => pos2[q][i] <= pos2[q][j]
                      /\ pos2[q][M - 1] <= PageSize - 1
                      /\ app_begin[q] = (app_end'[q] + pos2[q][M - 1]) % PageSize
    <3>1. NbRequests' = M - 1 /\ 0 .. NbRequests' - 1 = 0 .. M - 2 /\ app_begin' = app_begin
      BY <1>2, <1>4, <1>5
    <3> QED BY <3>1 DEF Layout
  <2>0. 0 \in 0 .. M - 1 /\ M - 1 \in 0 .. M - 1 /\ (M - 1) + 1 = M /\ 0 + 1 = 1
        /\ M \in 0 .. M
    BY <1>4, <1>5
  <2>1. pos2[q][0] = 0
    BY <1>8, <1>9, <2>0
  <2>2. ASSUME NEW i \in 0 .. M - 2
        PROVE  pos2[q][i + 1] =
                 pos2[q][i] + (IF Request(i)'.pipe = q THEN Request(i)'.nb ELSE 0)
    <3>1. i \in 0 .. M - 1 /\ i + 1 \in 0 .. M - 1 /\ i + 1 \in 0 .. M /\ i + 1 + 1 \in 0 .. M
          /\ i + 1 \in 0 .. N
      BY <1>5
    <3>2. /\ pos2[q][i] = pos[q][i + 1] - pos[q][1]
          /\ pos2[q][i + 1] = pos[q][i + 1 + 1] - pos[q][1]
      BY <1>9, <3>1
    <3>3. pos[q][i + 1 + 1] = pos[q][i + 1]
            + (IF Request(i + 1).pipe = q THEN Request(i + 1).nb ELSE 0)
      BY <1>7, <3>1
    <3>4. Request(i + 1) \in Requests /\ Request(i)' = Request(i + 1)
      BY <1>3, <1>4, <3>1, PendingType
    <3>5. Request(i + 1).nb \in Nat
      <4>1. Request(i + 1).nb \in 0 .. PageSize
        BY <3>4 DEF Requests
      <4> QED BY <1>5, <4>1
    <3>6. pos[q][i + 1 + 1] \in Nat /\ pos[q][i + 1] \in Nat /\ pos[q][1] \in Nat
      BY <1>8, <3>1
    <3> QED BY <3>2, <3>3, <3>4, <3>5, <3>6
  <2>3. ASSUME NEW i \in 0 .. M - 1, NEW j \in 0 .. M - 1, i <= j
        PROVE  pos2[q][i] <= pos2[q][j]
    <3>1. i + 1 \in 0 .. M /\ j + 1 \in 0 .. M /\ i + 1 <= j + 1
      BY <1>5, <2>3
    <3>2. /\ pos[q][i + 1] <= pos[q][j + 1] /\ pos[q][i + 1] \in Nat
          /\ pos[q][j + 1] \in Nat /\ pos[q][1] \in Nat
      BY <1>7, <1>8, <3>1
    <3>3. /\ pos2[q][i] = pos[q][i + 1] - pos[q][1]
          /\ pos2[q][j] = pos[q][j + 1] - pos[q][1]
      BY <1>9
    <3> QED BY <3>2, <3>3
  <2>4. /\ pos2[q][M - 1] = pos[q][M] - pos[q][1] /\ pos[q][M] \in Nat
        /\ pos[q][1] \in Nat
    BY <1>8, <1>9, <2>0
  <2>5. pos2[q][M - 1] <= PageSize - 1
    BY <1>5, <1>7, <2>4, SMTT(30)
  <2>6. app_begin[q] = (app_end'[q] + pos2[q][M - 1]) % PageSize
    BY <1>7, <1>11, <2>4
  <2> QED BY <2>1, <2>2, <2>3, <2>5, <2>6
<1>16. Sending(pos2)'
  BY <1>2 DEF Sending
<1>17. Placed(pos2, req2, byte2)'
  <2> SUFFICES ASSUME NEW s \in Slots, Data(s)
               PROVE  /\ Dist(tx_head, s) < Dist(tx_head, s_tail)
                      /\ req2[s] < M - 1
                      /\ ~wrap_tracker[s] => req2[s] < L - 1 + Unrecorded
                      /\ Request(req2[s])'.pipe = tx_buf[s].page
                      /\ pos2[tx_buf[s].page][req2[s]] <= byte2[s]
                      /\ byte2[s] + tx_buf[s].len <= pos2[tx_buf[s].page][req2[s] + 1]
                      /\ tx_buf[s].off = (app_end'[tx_buf[s].page] + byte2[s]) % PageSize
    BY <1>2, <1>4, <1>6 DEF Placed
  <2> DEFINE q == tx_buf[s].page
  <2>1. /\ q \in Pages /\ tx_buf[s].len \in Nat /\ req[s] \in 1 .. M - 1 /\ req[s] \in Nat
        /\ byte[s] \in Nat /\ req2[s] = req[s] - 1 /\ byte2[s] = byte[s] - pos[q][1]
    BY <1>13, <1>14
  <2>2. req2[s] \in 0 .. M - 2 /\ req2[s] \in 0 .. M - 1 /\ req2[s] + 1 = req[s]
        /\ req[s] \in 0 .. M - 1 /\ req[s] \in 0 .. M /\ req[s] + 1 \in 0 .. M
        /\ req2[s] < M - 1 /\ req2[s] + 1 \in 0 .. M - 1 /\ req2[s] + 1 + 1 = req[s] + 1
    <3>1. \A k \in 1 .. M - 1 :
            /\ k - 1 \in 0 .. M - 2 /\ k - 1 \in 0 .. M - 1 /\ (k - 1) + 1 = k
            /\ k \in 0 .. M - 1 /\ k \in 0 .. M /\ k + 1 \in 0 .. M
            /\ k - 1 < M - 1 /\ (k - 1) + 1 \in 0 .. M - 1 /\ (k - 1) + 1 + 1 = k + 1
      BY <1>5
    <3> QED BY <2>1, <3>1
  <2>3. ~wrap_tracker[s] => req2[s] < L - 1 + Unrecorded
    BY <1>5, <1>6, <1>12, <2>1
  <2>4. Request(req2[s])'.pipe = q
    BY <1>4, <1>12, <2>2
  <2>5. /\ pos2[q][req2[s]] = pos[q][req[s]] - pos[q][1]
        /\ pos2[q][req2[s] + 1] = pos[q][req[s] + 1] - pos[q][1]
    BY <1>9, <2>1, <2>2
  <2>6. pos[q][req[s]] \in Nat /\ pos[q][1] \in Nat /\ pos[q][req[s] + 1] \in Nat
    BY <1>8, <2>1, <2>2
  <2>7. pos[q][req[s]] <= byte[s] /\ byte[s] + tx_buf[s].len <= pos[q][req[s] + 1]
    BY <1>12
  <2>8. pos2[q][req2[s]] <= byte2[s]
    BY <2>1, <2>5, <2>6, <2>7
  <2>9. byte2[s] + tx_buf[s].len <= pos2[q][req2[s] + 1]
    BY <2>1, <2>5, <2>6, <2>7
  <2>10. tx_buf[s].off = (app_end'[q] + byte2[s]) % PageSize
    BY <1>11, <1>12, <2>1
  <2> QED BY <1>12, <2>2, <2>3, <2>4, <2>8, <2>9, <2>10
<1>18. Ordered(req2)'
  <2> SUFFICES ASSUME NEW s \in Slots, NEW t \in Slots, Data(s), Data(t),
                      Dist(tx_head, s) < Dist(tx_head, t)
               PROVE  (IF wrap_tracker[s] THEN req2[s] ELSE req2[s] + 1) <= req2[t]
    BY <1>2, <1>6 DEF Ordered
  <2>1. (IF wrap_tracker[s] THEN req[s] ELSE req[s] + 1) <= req[t]
    BY <1>1 DEF Accounted, Ordered
  <2>2. req2[s] = req[s] - 1 /\ req2[t] = req[t] - 1 /\ req[s] \in Nat /\ req[t] \in Nat
    BY <1>14
  <2> QED BY <2>1, <2>2
<1>19. EndsBefore(ends)'
  BY <1>1, <1>2 DEF Accounted, EndsBefore
<1>20. Late(req2, ends)'
  <2>0. /\ nb_unreported \in Nat /\ todo \in Nat /\ ends[s_tail] \in Int
    BY <1>3, RingFacts DEF PathTypeOK, TypeOK
  <2>1. ASSUME NEW s \in Slots, Data(s)
        PROVE  nb_unreported + (todo - 1) + ends[s] <= req2[s]
    <3>1. nb_unreported + todo + ends[s] <= req[s] /\ req2[s] = req[s] - 1
          /\ req[s] \in Nat /\ ends[s] \in Int
      BY <1>12, <1>14, <2>1
    <3> QED BY <2>0, <3>1
  <2>2. nb_unreported + (todo - 1) + ends[s_tail] <= L - 1 + Unrecorded + 0
    <3>1. nb_unreported + todo + ends[s_tail] <= L + Unrecorded + 0
      BY <1>1, <1>6 DEF Accounted, Late, L
    <3> QED BY <1>5, <1>6, <2>0, <3>1
  <2> QED BY <1>2, <1>4, <1>6, <2>1, <2>2 DEF Late
<1>21. Accounted(pos2, req2, byte2, ends)'
  BY <1>15, <1>16, <1>17, <1>18, <1>19, <1>20 DEF Accounted
<1> QED BY <1>4, <1>21 DEF Found

\* With no pending request the only completion that can be left is the one of the
\* request that Device::Send has yet to record: nothing is in flight any more.
LEMMA PopStuck ==
  ASSUME Base, Found, PopCompletion, nb_pending_requests = 0
  PROVE  Stuck'
<1>1. PICK pos \in Positions0, req \in [Slots -> Nat], byte \in [Slots -> Nat],
           ends \in [Slots -> Int] : Accounted(pos, req, byte, ends)
  BY DEF Found
<1>2. /\ UNCHANGED <<tx_buf, tx_head, s_tail, nb_unreported, dev, dret, pr_tail>>
      /\ dev = "popping" /\ pc = "idle" /\ todo > 0 /\ todo' = todo - 1
      /\ pr_head' = Next1(pr_head)
  BY DEF PopCompletion, vars, Base, Thread
<1>3. TypeOK /\ PathTypeOK /\ LocalTail /\ WrapInv
  BY DEF Base, RingInv
<1>4. /\ tx_head \in Slots /\ s_tail \in Slots
      /\ \A x \in Slots : Dist(tx_head, x) \in Nat /\ Dist(tx_head, x) < N
      /\ \A x \in Slots : Dist(tx_head, x) = 0 <=> x = tx_head
      /\ nb_unreported \in Nat /\ todo \in Nat /\ ends[s_tail] \in Int
  BY <1>3, RingFacts DEF PathTypeOK, TypeOK
<1>5. \A s \in Slots : Dist(tx_head, s) <= Dist(tx_head, s_tail) => ends[s] >= 0
  <2> SUFFICES ASSUME NEW s \in Slots, Dist(tx_head, s) <= Dist(tx_head, s_tail)
               PROVE  ends[s] >= 0
    OBVIOUS
  <2>1. Dist(tx_head, tx_head) <= Dist(tx_head, s)
    BY <1>4
  <2> QED BY <1>1, <1>4, <2>1 DEF Accounted, EndsBefore
<1>6. /\ Unrecorded = 1 /\ todo = 1 /\ nb_unreported = 0 /\ ends[s_tail] = 0
  <2>1. ~InWait /\ Unrecorded \in {0, 1}
    BY <1>2 DEF InWait, Unrecorded
  <2>2. nb_unreported + todo + ends[s_tail] <= 0 + Unrecorded + 0
    BY <1>1, <2>1 DEF Accounted, Late
  <2>3. ends[s_tail] >= 0
    BY <1>4, <1>5
  <2> QED BY <1>2, <1>4, <2>1, <2>2, <2>3
<1>7. dret = "record"
  BY <1>2, <1>6 DEF Unrecorded
<1>8. ASSUME NEW s \in Slots, Data(s) PROVE FALSE
  <2>1. req[s] < 1
    BY <1>1, <1>7, <1>8 DEF Accounted, Placed, NbRequests, Active
  <2>2. nb_unreported + todo + ends[s] <= req[s]
    BY <1>1, <1>8 DEF Accounted, Late
  <2>3. ends[s] >= 0
    <3>1. Dist(tx_head, s) < Dist(tx_head, s_tail)
      BY <1>1, <1>8 DEF Accounted, Placed
    <3> QED BY <1>4, <1>5, <3>1
  <2> QED BY <1>6, <2>1, <2>2, <2>3
<1>9. tx_head = s_tail
  <2> SUFFICES ASSUME s_tail # tx_head PROVE FALSE
    OBVIOUS
  <2>1. PICK x \in Slots : Next1(x) = s_tail
    <3>0. s_tail \in 0 .. N - 1 /\ N \in Nat /\ N >= 2
      BY <1>4, NAssumption DEF Slots
    <3>1. CASE s_tail = 0
      <4>1. N - 1 \in Slots
        BY <3>0 DEF Slots
      <4> QED BY <3>1, <4>1, NextSlot
    <3>2. CASE s_tail # 0
      <4>1. s_tail - 1 \in Slots /\ s_tail - 1 # N - 1 /\ (s_tail - 1) + 1 = s_tail
        BY <3>0, <3>2 DEF Slots
      <4> QED BY <4>1, NextSlot
    <3> QED BY <3>1, <3>2
  <2>2. Dist(tx_head, s_tail) = Dist(tx_head, x) + 1
    BY <1>3, <2>1, RingFacts
  <2>3. s_tail = tx_tail
    BY <1>2, <1>3 DEF LocalTail
  <2>4. ~wrap_tracker[x]
    BY <1>3, <2>1, <2>3 DEF WrapInv, WrapSlot
  <2>5. Dist(tx_head, x) < Dist(tx_head, s_tail) /\ Dist(tx_head, x) <= Dist(tx_head, s_tail)
    BY <1>4, <2>2
  <2>6. ends[s_tail] = ends[x] + 1
    BY <1>1, <2>1, <2>4, <2>5 DEF Accounted, EndsBefore
  <2>7. ends[x] >= 0 /\ ends[x] \in Int
    BY <1>5, <2>5
  <2> QED BY <1>6, <2>6, <2>7
<1>10. nb_pending_requests' = N - 1
  <2>1. pr_head \in Slots /\ pr_tail = (pr_head + 0) % N /\ N \in Nat /\ N >= 2
    BY <1>3, PendingType, NAssumption DEF PathTypeOK
  <2>2. 0 \in 0 .. N
    BY <2>1
  <2>3. pr_tail = pr_head
    BY <2>1, <2>2, RingIndex
  <2>4. Next1(pr_head) = IF pr_head = N - 1 THEN 0 ELSE pr_head + 1
    BY <2>1, NextSlot
  <2>5. CASE pr_head = N - 1
    <3>1. (N - 1) % N = N - 1
      BY <2>1, Z3
    <3>2. pr_tail - Next1(pr_head) = N - 1
      BY <2>1, <2>3, <2>4, <2>5
    <3> QED BY <1>2, <3>1, <3>2 DEF nb_pending_requests
  <2>6. CASE pr_head # N - 1
    <3>1. pr_tail - Next1(pr_head) = -1 * N + (N - 1) /\ N - 1 \in 0 .. N - 1
      BY <2>1, <2>3, <2>4, <2>6, SMTT(30) DEF Slots
    <3>2. (-1 * N + (N - 1)) % N = N - 1
      BY <2>1, <3>1, ModUnique
    <3> QED BY <1>2, <3>1, <3>2 DEF nb_pending_requests
  <2> QED BY <2>5, <2>6
<1>11. todo' = 0 /\ nb_unreported' = 0 /\ \A s \in Slots : ~Data(s)'
  BY <1>2, <1>6, <1>8 DEF Data
<1>12. \A s \in Slots : pr[s] = NoRequest /\ pr'[s] = NoRequest
  <2>1. \A s \in Slots : pr[s] = NoRequest
    <3> SUFFICES ASSUME NEW s \in Slots PROVE pr[s] = NoRequest
      OBVIOUS
    <3>1. PICK i \in 0 .. N - 1 : s = (pr_head + i) % N
      BY <1>3, SlotAt DEF PathTypeOK
    <3> QED BY <3>1 DEF Found, PendingClear
  <2> QED BY <1>3, <2>1 DEF PopCompletion, PathTypeOK
<1>13. UNCHANGED <<app_begin, app_end, cur>>
  <2>1. UNCHANGED <<app_begin, cur>> /\ pr_head \in Slots
    BY <1>3 DEF PopCompletion, PathTypeOK
  <2>2. app_end' = [app_end EXCEPT ![0] = kBufMask(app_end[0] + 0)]
    <3>1. pr[pr_head].pipe = 0 /\ pr[pr_head].nb = 0
      BY <1>12, <2>1 DEF NoRequest
    <3> QED BY <3>1, Zenon DEF PopCompletion
  <2>3. app_end \in [Pages -> 0 .. PageSize - 1] /\ 0 \in Pages
    BY <1>3, PageAssumption DEF PathTypeOK, Pages
  <2>4. kBufMask(app_end[0] + 0) = app_end[0]
    <3>1. PageSize \in Nat /\ PageSize >= 1 /\ app_end[0] \in 0 .. PageSize - 1
      BY <2>3, PageAssumption
    <3> QED BY <3>1, Z3 DEF kBufMask
  <2> QED BY <2>1, <2>2, <2>3, <2>4
<1>14. ASSUME NEW p \in Pages
       PROVE  /\ Unspent(p) \in 0 .. PageSize - 1
              /\ app_begin[p] = (app_end[p] + Unspent(p)) % PageSize
  <2>1. NbRequests = 1 /\ Request(0) = cur
    BY <1>7 DEF NbRequests, Active, Request
  <2>2. /\ pos[p][0] = 0
        /\ pos[p][0 + 1] = pos[p][0] + (IF Request(0).pipe = p THEN Request(0).nb ELSE 0)
        /\ pos[p][1] <= PageSize - 1
        /\ app_begin[p] = (app_end[p] + pos[p][1]) % PageSize
    BY <1>1, <2>1 DEF Accounted, Layout
  <2>3. Unspent(p) \in Nat
    BY <1>3, PageAssumption DEF PathTypeOK, Requests, Unspent
  <2>4. pos[p][1] = Unspent(p)
    BY <2>1, <2>2, <2>3 DEF Unspent
  <2> QED BY <2>2, <2>3, <2>4, PageAssumption
<1> QED BY <1>2, <1>7, <1>9, <1>10, <1>11, <1>12, <1>13, <1>14 DEF Stuck, Unspent

LEMMA StuckStays ==
  ASSUME Base, Stuck, [RtxNext]_allVars
  PROVE  Stuck'
<1>1. /\ dev \in {"record", "completing", "popping"} /\ (dev # "record" => dret = "record")
      /\ tx_head = s_tail /\ todo = 0 /\ nb_unreported = 0 /\ nb_pending_requests = N - 1
      /\ \A s \in Slots : ~Data(s) /\ pr[s] = NoRequest
      /\ \A p \in Pages : /\ Unspent(p) \in 0 .. PageSize - 1
                          /\ app_begin[p] = (app_end[p] + Unspent(p)) % PageSize
  BY DEF Stuck
<1>2. TypeOK /\ LocalTail /\ Thread /\ N \in Nat /\ N >= 2
  BY NAssumption DEF Base, RingInv
<1>3. tx_head = tx_tail
  BY <1>1, <1>2 DEF LocalTail, Thread
<1>4. ~Record /\ ~Reap /\ ~PopCompletion
  <2>1. ~Record
    BY <1>1, <1>2 DEF Record, kMaxPendingTxRequests
  <2>2. ~PopCompletion
    BY <1>1 DEF PopCompletion
  <2> QED BY <1>3, <2>1, <2>2 DEF Reap
<1>5. ASSUME UNCHANGED <<tx_buf, tx_head, s_tail, prVars, pipeVars, cur>>, todo' = 0,
             nb_unreported' = 0, dev' \in {"record", "completing", "popping"},
             dev' # "record" => dret' = "record"
      PROVE  Stuck'
  BY <1>1, <1>5 DEF Stuck, Data, nb_pending_requests, Unspent, prVars, pipeVars
<1>6. CASE RecordBlocked
  BY <1>1, <1>5, <1>6 DEF RecordBlocked, ReportCall, swVars, sendVars, pipeVars, prVars
<1>7. CASE InGetUnreported
  BY <1>1, <1>4, <1>5, <1>7 DEF InGetUnreported, Update, UpdateReturn, swVars, sendVars,
                                pipeVars, prVars, devVars
<1>8. CASE GetUnreportedReturn
  BY <1>1, <1>5, <1>8 DEF GetUnreportedReturn, ReportReturn, sendVars, prVars
<1>9. CASE RtxPopDone
  BY <1>1, <1>5, <1>9 DEF RtxPopDone, PopDone, vars, prVars
<1>10. CASE NicStep
  <2>1. UNCHANGED <<tx_head, s_tail, pr, pr_head, pr_tail, app_begin, app_end, dev,
                    dret, todo, cur, nb_unreported>>
    BY <1>10 DEF NicStep, Nic, NicRequest, NicFetch, NicComplete, swVars, sendVars, prVars,
                 pipeVars, devVars
  <2>2. \A s \in Slots : ~Data(s)'
    <3>1. tx_buf \in [Slots -> Notifications]
      BY <1>2, RingFacts
    <3>2. tx_buf' = tx_buf \/ tx_buf' = [tx_buf EXCEPT ![compl] = Free]
      BY <1>10 DEF NicStep, Nic, NicRequest, NicFetch, NicComplete
    <3> QED BY <1>1, <3>1, <3>2 DEF Data, Free
  <2> QED BY <1>1, <2>1, <2>2 DEF Stuck, nb_pending_requests, Unspent
<1>11. CASE UNCHANGED allVars
  BY <1>1, <1>5, <1>11 DEF allVars, pathVars, vars, prVars, devVars
<1>12. ~Recv /\ ~TryExtendBuf /\ ~ApplyConfig /\ ~InSendToQueue /\ ~SendToQueueReturn
       /\ ~ExtendAgain /\ ~ExtendDone /\ ~InSendConfig /\ ~SendConfigReturn
       /\ (\A p, nb : ~RtxSendAndFree(p, nb) /\ ~AllocateBuf(p, nb) /\ ~RecvReturn(p, nb))
  BY <1>1 DEF Recv, TryExtendBuf, ApplyConfig, InSendToQueue, SendToQueueReturn,
              ExtendAgain, ExtendDone, InSendConfig, SendConfigReturn, RtxSendAndFree,
              SendAndFree, AllocateBuf, RecvReturn
<1>13. ~RtxRecord
  BY <1>4 DEF RtxRecord
<1> QED BY <1>4, <1>6, <1>7, <1>8, <1>9, <1>10, <1>11, <1>12, <1>13
        DEF RtxNext, RtxThreadStep, OtherThreadStep

-----------------------------------------------------------------------------
(* The invariant.                                                           *)

LEMMA InitPathInv == RtxInit => PathInv
<1> SUFFICES ASSUME RtxInit PROVE PathInv
  OBVIOUS
<1>0. PathInit /\ Init
  BY DEF RtxInit, PathInit
<1>1. RingInv /\ WrapInv /\ PathTypeOK /\ Thread
  BY <1>0, InitRing, InitWrap, InitPath
<1>2. /\ pr_head = 0 /\ pr_tail = 0 /\ pr = [s \in Slots |-> NoRequest]
      /\ dev = "app" /\ dret = "app" /\ todo = 0 /\ nb_unreported = 0 /\ pc = "idle"
      /\ app_begin = [p \in Pages |-> 0] /\ app_end = [p \in Pages |-> 0]
      /\ tx_buf = [s \in Slots |-> Free] /\ s_tail = tx_head /\ tx_head \in Slots
  BY <1>0, <1>1 DEF PathInit, Init, RingInv, TypeOK
<1>3. N \in Nat /\ N >= 2 /\ PageSize \in Nat /\ PageSize >= 1
  BY NAssumption, PageAssumption
<1>4. nb_pending_requests = 0 /\ NbRequests = 0 /\ Unrecorded = 0 /\ ~InWait
      /\ \A s \in Slots : ~Data(s)
  <2>1. (0 - 0) % N = 0
    BY <1>3, Z3
  <2> QED BY <1>2, <2>1 DEF nb_pending_requests, NbRequests, Active, Unrecorded, InWait,
                            Data, Free
<1>5. PendingClear
  <2>1. \A i \in 0 .. N - 1 : (0 + i) % N \in Slots
    <3>1. 0 \in Slots /\ \A i \in 0 .. N - 1 : i \in 0 .. N
      BY <1>3 DEF Slots
    <3> QED BY <3>1, RingIndex
  <2> QED BY <1>2, <1>4, <2>1 DEF PendingClear
<1>6. PICK pos \in Positions0, req \in [Slots -> Nat], ends \in [Slots -> Int] :
        /\ \A p \in Pages : \A i \in 0 .. N : pos[p][i] = 0
        /\ \A s \in Slots : req[s] = 0 /\ ends[s] = 0
  <2> DEFINE P == [p \in Pages |-> [i \in 0 .. N |-> 0]]
             R == [s \in Slots |-> 0]
  <2>1. P \in Positions0 /\ R \in [Slots -> Nat] /\ R \in [Slots -> Int]
    BY DEF Positions0
  <2> QED BY <2>1
<1>7. Layout(pos)
  <2>1. 0 \in 0 .. N /\ 0 .. 0 - 1 = {} /\ 0 % PageSize = 0 /\ 0 <= PageSize - 1
    BY <1>3, Z3
  <2>2. \A p \in Pages : pos[p][0] = 0
    BY <1>6, <2>1
  <2>3. \A i, j \in 0 .. 0 : i = 0 /\ j = 0
    OBVIOUS
  <2> QED BY <1>2, <1>4, <2>1, <2>2, <2>3 DEF Layout
<1>8. Sending(pos) /\ Placed(pos, req, req) /\ Ordered(req) /\ EndsBefore(ends)
      /\ Late(req, ends)
  <2>1. Dist(tx_head, tx_head) = 0 /\ \A x \in Slots : Dist(tx_head, x) \in Nat
    BY <1>1, <1>2, RingFacts DEF RingInv
  <2>2. EndsBefore(ends)
    BY <1>2, <1>6, <2>1 DEF EndsBefore
  <2>3. Late(req, ends)
    BY <1>2, <1>4, <1>6 DEF Late
  <2> QED BY <1>2, <1>4, <2>2, <2>3 DEF Sending, Placed, Ordered
<1>9. Accounted(pos, req, req, ends)
  BY <1>7, <1>8 DEF Accounted
<1> QED BY <1>1, <1>5, <1>9 DEF PathInv

LEMMA NextPathInv == PathInv /\ [RtxNext]_allVars => PathInv'
<1> SUFFICES ASSUME PathInv, [RtxNext]_allVars PROVE PathInv'
  OBVIOUS
<1>1. Base
  BY DEF PathInv, Base
<1>2. [Next]_vars
  BY <1>1, RtxIsRing DEF Base
<1>3. RingInv' /\ WrapInv'
  BY <1>1, <1>2, NextRing, NextWrap DEF Base
<1>4. PathTypeOK' /\ Thread'
  BY <1>1, NextPathType, NextThread DEF Base
<1>5. SUFFICES Stuck' \/ Found'
  BY <1>3, <1>4 DEF PathInv, Found
<1>6. CASE Stuck
  BY <1>1, <1>6, StuckStays
<1>7. CASE Found
  <2> USE <1>7
  <2>1. ASSUME Quiet PROVE Found'
    <3>1. PICK pos \in Positions0, req \in [Slots -> Nat], byte \in [Slots -> Nat],
               ends \in [Slots -> Int] : Accounted(pos, req, byte, ends)
      BY DEF Found
    <3>2. PendingClear' /\ Accounted(pos, req, byte, ends)'
      BY <1>1, <1>4, <2>1, <3>1, QuietKeeps DEF Base, Found
    <3> QED BY <3>2 DEF Found
  <2>2. CASE Recv \/ TryExtendBuf \/ ApplyConfig \/ SendToQueueReturn \/ RecordBlocked
             \/ GetUnreportedReturn \/ ExtendAgain \/ ExtendDone \/ SendConfigReturn
             \/ RtxPopDone \/ UNCHANGED allVars
    BY <1>1, <2>1, <2>2, QuietSteps DEF Base, RtxPopDone
  <2>3. ASSUME NEW p \in Pages, NEW nb \in Sendable(p), RtxSendAndFree(p, nb)
        PROVE  Found'
    BY <1>1, <2>3, SendAndFreeKeeps DEF RtxSendAndFree
  <2>4. ASSUME NEW p \in Pages, NEW nb \in Lengths, AllocateBuf(p, nb) PROVE Found'
    BY <1>1, <2>1, <2>4, QuietSteps DEF Base
  <2>5. ASSUME NEW p \in RxTxPipes, NEW nb \in {0, Quantum, 2 * Quantum},
               RecvReturn(p, nb)
        PROVE  Found'
    BY <1>1, <2>1, <2>5, QuietSteps DEF Base
  <2>6. CASE InSendToQueue
    BY <1>1, <2>1, <2>6, QuietSteps, SendChunkKeeps, ReapKeeps
       DEF InSendToQueue, Update, Base
  <2>7. CASE InGetUnreported
    BY <1>1, <2>1, <2>7, QuietSteps, ReapKeeps DEF InGetUnreported, Update, Base
  <2>8. CASE InSendConfig
    BY <1>1, <2>1, <2>8, QuietSteps, ConfigPutKeeps, ReapKeeps
       DEF InSendConfig, Update, Base
  <2>9. CASE NicStep
    BY <1>1, <2>1, <2>9, QuietSteps, NicCompleteKeeps DEF NicStep, Nic, Base
  <2>10. CASE RtxRecord
    BY <1>1, <2>10, RecordKeeps DEF RtxRecord
  <2>11. CASE PopCompletion
    <3>1. nb_pending_requests = 0 \/ nb_pending_requests > 0
      BY <1>1, PendingType, NAssumption DEF Base
    <3> QED BY <1>1, <2>11, <3>1, PopKeeps, PopStuck
  <2> QED BY <2>2, <2>3, <2>4, <2>5, <2>6, <2>7, <2>8, <2>9, <2>10, <2>11
          DEF RtxNext, RtxThreadStep, OtherThreadStep
<1> QED BY <1>6, <1>7 DEF PathInv, Found

\* PathInv holds in every reachable state.
THEOREM PathInvariant == RtxSpec => []PathInv
<1> QED BY InitPathInv, NextPathInv, PTL DEF RtxSpec

-----------------------------------------------------------------------------
(* What the application owns and what is in flight.                         *)

\* The bytes in requests of pipe p: n of them from app_end on; every byte in
\* flight is one.
LEMMA InFlightBytes ==
  ASSUME PathInv, NEW p \in Pages
  PROVE  \E n \in 0 .. PageSize - 1 :
           /\ Stuck \/ app_begin[p] = (app_end[p] + n) % PageSize
           /\ \A x \in InFlight(p) : \E b \in 0 .. n - 1 : x = (app_end[p] + b) % PageSize
<1>0. /\ PageSize \in Nat /\ PageSize >= 1 /\ TypeOK /\ PathTypeOK
      /\ app_end[p] \in Nat
  BY PageAssumption DEF PathInv, RingInv, PathTypeOK
<1>1. \A s \in Between(compl, s_tail) : s \in Slots
  BY <1>0, BetweenSlots, RingFacts
<1>2. CASE Stuck
  <2>1. InFlight(p) = {}
    BY <1>1, <1>2 DEF InFlight, Stuck, Data
  <2>2. 0 \in 0 .. PageSize - 1
    BY <1>0
  <2> QED BY <1>2, <2>1, <2>2
<1>3. CASE ~Stuck
  <2>1. PICK pos \in Positions0, req \in [Slots -> Nat], byte \in [Slots -> Nat],
             ends \in [Slots -> Int] : Accounted(pos, req, byte, ends)
    BY <1>3 DEF PathInv
  <2> DEFINE M == NbRequests
             n == pos[p][M]
  <2>2. M \in 0 .. N /\ M \in Nat /\ N \in Nat
    BY <1>0, PendingType, NAssumption
  <2>3. n \in Nat /\ n <= PageSize - 1 /\ app_begin[p] = (app_end[p] + n) % PageSize
    BY <2>1, <2>2 DEF Accounted, Layout, Positions0
  <2>4. ASSUME NEW x \in InFlight(p)
        PROVE  \E b \in 0 .. n - 1 : x = (app_end[p] + b) % PageSize
    <3>0. PICK s \in Between(compl, s_tail) :
            /\ tx_buf[s].signal = 1 /\ tx_buf[s].page = p
            /\ x \in {(tx_buf[s].off + k) % PageSize : k \in 0 .. tx_buf[s].len - 1}
      BY <2>4 DEF InFlight
    <3>1. PICK i \in 0 .. tx_buf[s].len - 1 : x = (tx_buf[s].off + i) % PageSize
      BY <3>0
    <3>2. s \in Slots /\ Data(s)
      BY <1>1, <3>0 DEF Data
    <3>3. /\ req[s] < M /\ byte[s] + tx_buf[s].len <= pos[p][req[s] + 1]
          /\ tx_buf[s].off = (app_end[p] + byte[s]) % PageSize
      BY <2>1, <3>0, <3>2 DEF Accounted, Placed
    <3>4. tx_buf[s].len \in Nat /\ byte[s] \in Nat /\ req[s] \in Nat /\ i \in Nat
          /\ i < tx_buf[s].len
      <4>1. tx_buf[s].len \in 0 .. PageSize
        BY <1>0, <3>2, RingFacts DEF Notifications
      <4> QED BY <1>0, <3>2, <4>1
    <3>5. pos[p][req[s] + 1] <= n /\ pos[p][req[s] + 1] \in Nat
      <4>1. req[s] + 1 \in 0 .. M /\ req[s] + 1 \in 0 .. N /\ M \in 0 .. M /\ req[s] + 1 <= M
        BY <2>2, <3>3, <3>4
      <4> QED BY <2>1, <4>1 DEF Accounted, Layout, Positions0
    <3>6. byte[s] + i \in 0 .. n - 1
      BY <2>3, <3>3, <3>4, <3>5
    <3>7. x = (app_end[p] + (byte[s] + i)) % PageSize
      <4>1. (((app_end[p] + byte[s]) % PageSize) + i) % PageSize
              = (app_end[p] + byte[s] + i) % PageSize
        <5>1. app_end[p] + byte[s] \in Int /\ i \in Int
          BY <1>0, <3>4
        <5> QED BY <1>0, <5>1, ModAdd
      <4>2. app_end[p] + byte[s] + i = app_end[p] + (byte[s] + i)
        BY <1>0, <3>4
      <4> QED BY <3>1, <3>3, <4>1, <4>2
    <3> QED BY <3>6, <3>7
  <2>5. n \in 0 .. PageSize - 1
    BY <1>0, <2>3
  <2> HIDE DEF n
  <2> QED BY <2>3, <2>4, <2>5
<1> QED BY <1>2, <1>3

\* For every ring, batch and page size and any number of pipes, RxTxPipes or not,
\* with configurations or without: the application never owns a byte that the NIC
\* may still read.
THEOREM BuffersSafe == RtxSpec => []AppNeverOwnsInFlight
<1>1. PathInv => AppNeverOwnsInFlight
  <2> SUFFICES ASSUME PathInv, NEW p \in Pages, NEW x \in Owned(p), x \in InFlight(p)
               PROVE  FALSE
    BY DEF AppNeverOwnsInFlight
  <2>0. PageSize \in Nat /\ PageSize >= 1 /\ app_end[p] \in 0 .. PageSize - 1
        /\ app_end[p] \in Int
    BY PageAssumption DEF PathInv, PathTypeOK
  <2>1. PICK n \in 0 .. PageSize - 1 :
          /\ Stuck \/ app_begin[p] = (app_end[p] + n) % PageSize
          /\ \A y \in InFlight(p) : \E b \in 0 .. n - 1 : y = (app_end[p] + b) % PageSize
    BY InFlightBytes
  <2>2. PICK b \in 0 .. n - 1 : x = (app_end[p] + b) % PageSize
    BY <2>1
  <2>3. ~Stuck
    <3>1. \A s \in Between(compl, s_tail) : s \in Slots
      BY BetweenSlots, RingFacts DEF PathInv, RingInv
    <3> QED BY <3>1 DEF InFlight, Stuck, Data
  <2>4. capacity(p) = PageSize - 1 - n
    BY <2>0, <2>1, <2>3, CapacityLeft
  <2>5. PICK j \in 0 .. capacity(p) - 1 : x = (app_begin[p] + j) % PageSize
    BY DEF Owned
  <2>6. x = (app_end[p] + (n + j)) % PageSize
    <3>1. (((app_end[p] + n) % PageSize) + j) % PageSize = (app_end[p] + n + j) % PageSize
      <4>1. app_end[p] + n \in Int /\ j \in Int
        BY <2>0
      <4> QED BY <2>0, <4>1, ModAdd
    <3>2. app_end[p] + n + j = app_end[p] + (n + j)
      BY <2>0
    <3> QED BY <2>1, <2>3, <2>5, <3>1, <3>2
  <2>7. b \in 0 .. PageSize - 1 /\ n + j \in 0 .. PageSize - 1 /\ b # n + j
    BY <2>0, <2>4
  <2> QED BY <2>0, <2>2, <2>6, <2>7, ModInjective
<1> QED BY <1>1, PathInvariant, PTL

\* A request is popped from the pending ring only after the NIC has completed its
\* last notification, also when send_config forgets completions.
THEOREM RequestsOutliveFlight == RtxSpec => []InFlightIsPending
<1>1. PathInv => InFlightIsPending
  <2> SUFFICES ASSUME PathInv PROVE InFlightIsPending
    OBVIOUS
  <2> DEFINE S == {s \in Between(compl, s_tail) : ~wrap_tracker[s] /\ tx_buf[s].signal = 1}
             K == nb_pending_requests + Unrecorded
  <2>0. TypeOK /\ PathTypeOK
    BY DEF PathInv, RingInv
  <2>1. \A s \in S : s \in Slots /\ Data(s) /\ ~wrap_tracker[s]
    BY <2>0, BetweenSlots, RingFacts DEF Data
  <2>2. K \in Nat
    <3>1. nb_pending_requests \in 0 .. N - 1 /\ Unrecorded \in {0, 1}
      BY <2>0, PendingType DEF Unrecorded
    <3> QED BY <3>1, NAssumption
  <2>3. CASE Stuck
    <3>1. S = {}
      BY <2>1, <2>3 DEF Stuck
    <3>2. Cardinality({}) = 0
      BY FS_EmptySet
    <3> HIDE DEF S, K
    <3>3. Cardinality(S) <= K
      BY <2>2, <3>1, <3>2
    <3> QED BY <3>3 DEF InFlightIsPending, S, K
  <2>4. CASE ~Stuck
    <3>1. PICK pos \in Positions0, req \in [Slots -> Nat], byte \in [Slots -> Nat],
               ends \in [Slots -> Int] : Accounted(pos, req, byte, ends)
      BY <2>4 DEF PathInv
    <3> DEFINE f == [s \in S |-> req[s]]
    <3>2. \A s \in S : req[s] \in 0 .. K - 1
      <4> TAKE s \in S
      <4>1. req[s] < K /\ req[s] \in Nat
        BY <2>1, <3>1 DEF Accounted, Placed
      <4> QED BY <2>2, <4>1
    <3>3. ASSUME NEW s \in S, NEW t \in S, req[s] = req[t] PROVE s = t
      <4>1. s \in Slots /\ t \in Slots /\ Data(s) /\ Data(t)
            /\ ~wrap_tracker[s] /\ ~wrap_tracker[t]
        BY <2>1
      <4>2. \A u, v \in Slots : /\ Data(u) /\ Data(v) /\ ~wrap_tracker[u]
                                /\ Dist(tx_head, u) < Dist(tx_head, v)
                                => req[u] + 1 <= req[v]
        BY <3>1 DEF Accounted, Ordered
      <4>3. ~(Dist(tx_head, s) < Dist(tx_head, t)) /\ ~(Dist(tx_head, t) < Dist(tx_head, s))
        <5>1. req[s] \in Nat
          BY <4>1
        <5> QED BY <3>3, <4>1, <4>2, <5>1
      <4>4. Dist(tx_head, s) \in Nat /\ Dist(tx_head, t) \in Nat
        BY <2>0, <4>1, RingFacts
      <4>5. Dist(tx_head, s) = Dist(tx_head, t)
        BY <4>3, <4>4
      <4> QED BY <2>0, <4>1, <4>5, RingFacts
    <3>4. f \in Injection(S, 0 .. K - 1)
      <4> HIDE DEF S, K
      <4> QED BY <3>2, <3>3 DEF Injection, IsInjective
    <3>5. IsFiniteSet(0 .. K - 1) /\ Cardinality(0 .. K - 1) = K
      <4> HIDE DEF K
      <4>1. 0 \in Int /\ K - 1 \in Int
        BY <2>2
      <4>2. IsFiniteSet(0 .. K - 1) /\ Cardinality(0 .. K - 1) = IF 0 > K - 1 THEN 0 ELSE K - 1 - 0 + 1
        BY <4>1, FS_Interval
      <4> QED BY <2>2, <4>2
    <3>6. Cardinality(S) <= K
      <4> HIDE DEF S, K, f
      <4> QED BY <3>4, <3>5, FS_Injection DEF ExistsInjection
    <3> QED BY <3>6 DEF InFlightIsPending
  <2> QED BY <2>3, <2>4
<1> QED BY <1>1, PathInvariant, PTL

-----------------------------------------------------------------------------
(* The receive half.                                                        *)

\* Two moves round the page.
LEMMA Shift ==
  ASSUME NEW e \in Int, NEW a \in Int, NEW b \in Int
  PROVE  (((e + a) % PageSize) + b) % PageSize = (e + (a + b)) % PageSize
<1>1. PageSize \in Nat /\ PageSize >= 1 /\ e + a \in Int /\ e + a + b = e + (a + b)
  BY PageAssumption
<1> QED BY <1>1, ModAdd, ZenonT(40)

LEMMA RxTypes ==
  ASSUME RtxTypeOK, NEW p \in RxTxPipes
  PROVE  /\ p \in Pages /\ PageSize \in Nat /\ PageSize >= 1
         /\ Quantum \in Nat /\ Quantum >= 1
         /\ rx_head[p] \in 0 .. PageSize - 1 /\ rx_head[p] \in Int
         /\ app_end[p] \in 0 .. PageSize - 1 /\ app_end[p] \in Int
         /\ app_begin[p] \in 0 .. PageSize - 1 /\ app_begin[p] \in Int
         /\ Unspent(p) \in Nat
<1>1. p \in Pages
  BY RtxAssumption DEF RtxTypeOK
<1>2. cur.nb \in 0 .. PageSize
  BY DEF RtxTypeOK, PathTypeOK, Requests
<1> QED BY <1>1, <1>2, PageAssumption, QuantumAssumption
        DEF RtxTypeOK, PathTypeOK, Positions, Unspent

\* What the layout says in terms of the operations of the code.
LEMMA RxReads ==
  ASSUME RtxTypeOK, NEW p \in RxTxPipes, NEW c \in Nat, NEW n \in Nat, NEW f \in Nat,
         RxLayout(p, c, n, f)
  PROVE  /\ capacity(p) = PageSize - 1 - n
         /\ Room(p) = PageSize - Quantum - (c + n + f)
         /\ Confirmed(p) = f
         /\ kBufMask(app_end[p] - rx_head[p]) = c
         /\ app_begin[p] = (rx_head[p] + (c + n)) % PageSize
         /\ rx_tail[p] = (rx_head[p] + (c + n + f)) % PageSize
<1>0. /\ p \in Pages /\ PageSize \in Nat /\ PageSize >= 1
      /\ Quantum \in Nat /\ Quantum >= 1
      /\ rx_head[p] \in 0 .. PageSize - 1 /\ rx_head[p] \in Int
      /\ app_end[p] \in 0 .. PageSize - 1 /\ app_end[p] \in Int
      /\ app_begin[p] \in 0 .. PageSize - 1 /\ app_begin[p] \in Int
  BY RxTypes
<1>1. /\ app_end[p] = (rx_head[p] + c) % PageSize
      /\ app_begin[p] = (app_end[p] + n) % PageSize
      /\ rx_tail[p] = (app_begin[p] + f) % PageSize
      /\ c + n + f + Quantum <= PageSize
  BY DEF RxLayout
<1>2. /\ c \in 0 .. PageSize - 1 /\ n \in 0 .. PageSize - 1 /\ f \in 0 .. PageSize - 1
      /\ c \in Int /\ n \in Int /\ f \in Int /\ c + n \in Int
      /\ c + n + f \in Nat /\ (c + n + f) + Quantum <= PageSize
  BY <1>0, <1>1
<1>3. app_begin[p] = (rx_head[p] + (c + n)) % PageSize
  BY <1>0, <1>1, <1>2, Shift
<1>4. rx_tail[p] = (rx_head[p] + (c + n + f)) % PageSize
  <2> DEFINE a == c + n
  <2>0. a \in Int /\ f \in Int
    BY <1>2
  <2> HIDE DEF a
  <2>1. (((rx_head[p] + a) % PageSize) + f) % PageSize = (rx_head[p] + (a + f)) % PageSize
    BY <1>0, <2>0, Shift
  <2> QED BY <1>1, <1>3, <2>1 DEF a
<1>5. capacity(p) = PageSize - 1 - n
  BY <1>0, <1>1, <1>2, CapacityLeft
<1>6. Room(p) = PageSize - Quantum - (c + n + f)
  <2> DEFINE t == c + n + f
             h == rx_head[p]
  <2>0. /\ t \in Nat /\ t + Quantum <= PageSize /\ h \in 0 .. PageSize - 1
        /\ PageSize \in Nat /\ PageSize >= 1 /\ Quantum \in Nat /\ Quantum >= 1
    BY <1>0, <1>2
  <2> HIDE DEF t, h
  <2>1. (h - ((h + t) % PageSize) - Quantum) % PageSize = PageSize - Quantum - t
    BY ONLY <2>0, ModBack
  <2> QED BY <1>4, <2>1 DEF Room, kBufMask, t, h
<1>7. Confirmed(p) = f
  BY <1>0, <1>1, <1>2, ModForth DEF Confirmed, kBufMask
<1>8. kBufMask(app_end[p] - rx_head[p]) = c
  BY <1>0, <1>1, <1>2, ModForth DEF kBufMask
<1> QED BY <1>3, <1>4, <1>5, <1>6, <1>7, <1>8

\* The request that a completion pops lies inside what the pipe has in requests.
LEMMA PopBytes ==
  ASSUME PathInv, PopCompletion, NEW n \in 0 .. PageSize - 1,
         app_begin[pr[pr_head].pipe] = (app_end[pr[pr_head].pipe] + n) % PageSize
  PROVE  pr[pr_head].nb \in Nat /\ pr[pr_head].nb <= n
<1> DEFINE r == pr[pr_head]
<1>0. /\ PathTypeOK /\ PageSize \in Nat /\ PageSize >= 1 /\ r \in Requests
      /\ N \in Nat /\ N >= 2 /\ pr_head \in Slots
      /\ nb_pending_requests \in 0 .. N - 1 /\ NbRequests \in 0 .. N
  BY PageAssumption, NAssumption, PendingType DEF PathInv, PathTypeOK
<1>1. r.pipe \in Pages /\ r.nb \in Nat /\ app_end[r.pipe] \in Int
  <2>1. r.pipe \in Pages /\ r.nb \in 0 .. PageSize
    BY <1>0 DEF Requests
  <2> QED BY <1>0, <2>1 DEF PathTypeOK
<1>2. ~Stuck
  BY DEF Stuck, PopCompletion
<1>3. PICK pos \in Positions0, req \in [Slots -> Nat], byte \in [Slots -> Nat],
           ends \in [Slots -> Int] : Accounted(pos, req, byte, ends)
  BY <1>2 DEF PathInv
<1>4. CASE nb_pending_requests = 0
  <2>1. 0 \in 0 .. N /\ 0 \in 0 .. N - 1
    BY <1>0
  <2>2. (pr_head + 0) % N = pr_head
    BY <1>0, <2>1, RingIndex
  <2>3. r = NoRequest
    BY <1>2, <1>4, <2>1, <2>2 DEF PathInv, PendingClear
  <2>4. r.nb = 0
    BY <2>3 DEF NoRequest
  <2> QED BY <1>0, <2>4
<1>5. CASE nb_pending_requests > 0
  <2> DEFINE M == NbRequests
             q == r.pipe
  <2>1. M \in 1 .. N /\ 0 \in 0 .. M - 1 /\ 1 \in 0 .. M /\ M \in 0 .. M /\ 1 <= M
        /\ 0 + 1 = 1 /\ 1 \in 0 .. N /\ M \in 0 .. N
    BY <1>0, <1>5 DEF NbRequests
  <2>2. Request(0) = r
    BY <1>0, <1>5, PopRequests, <1>2 DEF PathInv
  <2>3. /\ pos[q][1] = pos[q][0] + (IF Request(0).pipe = q THEN Request(0).nb ELSE 0)
        /\ pos[q][0] = 0 /\ pos[q][1] <= pos[q][M] /\ pos[q][M] <= PageSize - 1
        /\ app_begin[q] = (app_end[q] + pos[q][M]) % PageSize
    BY <1>1, <1>3, <2>1 DEF Accounted, Layout
  <2>4. pos[q][1] \in Nat /\ pos[q][M] \in Nat
    BY <1>1, <2>1 DEF Positions0
  <2>5. pos[q][1] = r.nb
    BY <1>1, <2>2, <2>3
  <2>6. pos[q][M] \in 0 .. PageSize - 1
    BY <1>0, <2>3, <2>4
  <2>7. pos[q][M] = n
    BY <1>0, <1>1, <2>3, <2>6, ModInjective
  <2> QED BY <1>1, <2>3, <2>5, <2>7
<1> QED BY <1>0, <1>1, <1>4, <1>5

\* The layout after a step, as facts about the new values.
LEMMA RxAfter ==
  ASSUME NEW p, NEW c \in Nat, NEW n \in Nat, NEW f \in Nat,
         app_end'[p] = (rx_head'[p] + c) % PageSize,
         app_begin'[p] = (app_end'[p] + n) % PageSize,
         rx_tail'[p] = (app_begin'[p] + f) % PageSize,
         c + n + f + Quantum <= PageSize, Unspent(p)' <= c + n,
         last_cap'[p] = PageSize - 1 - n + Unspent(p)' - c
  PROVE  \E c2, n2, f2 \in Nat : RxLayout(p, c2, n2, f2)'
<1>1. RxLayout(p, c, n, f)'
  BY DEF RxLayout
<1> QED BY <1>1

\* The last capacity is in its range whenever the layout holds.
LEMMA LastCapType ==
  /\ PathTypeOK /\ RxTxPipes \in Choices
  /\ rx_head \in [RxTxPipes -> Positions] /\ rx_tail \in [RxTxPipes -> Positions]
  /\ last_cap = [p \in RxTxPipes |-> last_cap[p]]
  /\ \A p \in RxTxPipes : \E c, n, f \in Nat : RxLayout(p, c, n, f)
  => RxInv
<1> SUFFICES ASSUME PathTypeOK, RxTxPipes \in Choices,
                    rx_head \in [RxTxPipes -> Positions],
                    rx_tail \in [RxTxPipes -> Positions],
                    last_cap = [p \in RxTxPipes |-> last_cap[p]],
                    \A p \in RxTxPipes : \E c, n, f \in Nat : RxLayout(p, c, n, f)
             PROVE  RxInv
  OBVIOUS
<1>1. ASSUME NEW p \in RxTxPipes PROVE last_cap[p] \in 0 .. PageSize - 1
  <2>1. PICK c \in Nat, n \in Nat, f \in Nat : RxLayout(p, c, n, f)
    OBVIOUS
  <2>2. Unspent(p) \in Nat /\ PageSize \in Nat /\ Quantum \in Nat /\ Quantum >= 1
    <3>1. cur.nb \in 0 .. PageSize
      BY DEF PathTypeOK, Requests
    <3> QED BY <3>1, PageAssumption, QuantumAssumption DEF Unspent
  <2>3. c + n + f + Quantum <= PageSize /\ Unspent(p) <= c + n
        /\ last_cap[p] = PageSize - 1 - n + Unspent(p) - c
    BY <2>1 DEF RxLayout
  <2> HIDE DEF RxLayout
  <2> QED BY <2>2, <2>3
<1>2. last_cap \in [RxTxPipes -> 0 .. PageSize - 1]
  BY <1>1
<1> QED BY <1>2 DEF RxInv, RtxTypeOK

LEMMA LastCapPrimed ==
  ASSUME PathTypeOK',
         (/\ RxTxPipes \in Choices
          /\ rx_head \in [RxTxPipes -> Positions] /\ rx_tail \in [RxTxPipes -> Positions]
          /\ last_cap = [p \in RxTxPipes |-> last_cap[p]])',
         (\A p \in RxTxPipes : \E c, n, f \in Nat : RxLayout(p, c, n, f))'
  PROVE  RxInv'
BY LastCapType, PTL

LEMMA InitRx == RtxInit => RxInv
<1> SUFFICES ASSUME RtxInit PROVE RxInv
  OBVIOUS
<1>1. /\ PathTypeOK /\ RxTxPipes \in Choices /\ cur.nb = 0
      /\ app_begin = [p \in Pages |-> 0] /\ app_end = [p \in Pages |-> 0]
      /\ rx_head = [p \in RxTxPipes |-> 0] /\ rx_tail = [p \in RxTxPipes |-> 0]
      /\ last_cap = [p \in RxTxPipes |-> capacity(p)]
  BY InitPath DEF RtxInit, PathInit, NoRequest
<1>2. PageSize \in Nat /\ PageSize >= 1 /\ Quantum \in Nat /\ Quantum <= PageSize
      /\ 0 \in Nat /\ 0 \in Positions /\ 0 \in 0 .. PageSize - 1 /\ 0 % PageSize = 0
  <2>1. PageSize \in Nat /\ PageSize >= 1 /\ Quantum \in Nat /\ PageSize >= 2 * Quantum
    BY PageAssumption, QuantumAssumption
  <2>2. 0 % PageSize = 0
    BY <2>1, Z3
  <2> QED BY <2>1, <2>2 DEF Positions
<1>3. ASSUME NEW p \in RxTxPipes PROVE RxLayout(p, 0, 0, 0)
  <2>1. p \in Pages
    BY <1>1, RtxAssumption
  <2>2. capacity(p) = PageSize - 1 - 0
    <3>1. app_end[p] \in 0 .. PageSize - 1 /\ app_begin[p] = (app_end[p] + 0) % PageSize
      BY <1>1, <1>2, <2>1
    <3> QED BY <1>2, <2>1, <3>1, CapacityLeft
  <2>3. Unspent(p) = 0
    BY <1>1 DEF Unspent
  <2> QED BY <1>1, <1>2, <2>1, <2>2, <2>3 DEF RxLayout
<1>4. \A p \in RxTxPipes : \E c, n, f \in Nat : RxLayout(p, c, n, f)
  BY <1>2, <1>3
<1>5. rx_head \in [RxTxPipes -> Positions] /\ rx_tail \in [RxTxPipes -> Positions]
  BY <1>1, <1>2
<1> QED BY <1>1, <1>4, <1>5, LastCapType

\* SendAndFree takes bytes that were received: they pass from f to n.
LEMMA RxSend ==
  ASSUME RxInv, PathTypeOK', ~Active, Thread, NEW q \in Pages, NEW nb \in Sendable(q),
         RtxSendAndFree(q, nb)
  PROVE  RxInv'
<1>1. /\ app_begin' = [app_begin EXCEPT ![q] = kBufMask(@ + nb)]
      /\ UNCHANGED <<app_end, RxTxPipes, rx_head, rx_tail, last_cap>>
      /\ cur' = [pipe |-> q, nb |-> nb] /\ cur = NoRequest
      /\ q \in RxTxPipes => nb <= Confirmed(q)
  BY DEF RtxSendAndFree, SendAndFree, rtxVars, Thread
<1>2. RtxTypeOK /\ nb \in Nat /\ nb \in Int /\ app_begin \in [Pages -> 0 .. PageSize - 1]
  BY SendableType DEF RxInv, RtxTypeOK, PathTypeOK
<1>3. ASSUME NEW p \in RxTxPipes
      PROVE  \E c, n, f \in Nat : RxLayout(p, c, n, f)'
  <2>1. PICK c \in Nat, n \in Nat, f \in Nat : RxLayout(p, c, n, f)
    BY DEF RxInv
  <2>2. /\ p \in Pages /\ PageSize \in Nat /\ PageSize >= 1 /\ Quantum \in Nat
        /\ app_end[p] \in Int /\ app_begin[p] \in Int
    BY <1>2, RxTypes
  <2>3. Unspent(p) = 0
    BY <1>1 DEF Unspent, NoRequest
  <2>4. /\ app_end[p] = (rx_head[p] + c) % PageSize
        /\ app_begin[p] = (app_end[p] + n) % PageSize
        /\ rx_tail[p] = (app_begin[p] + f) % PageSize
        /\ c + n + f + Quantum <= PageSize
        /\ last_cap[p] = PageSize - 1 - n + 0 - c
    BY <2>1, <2>3 DEF RxLayout
  <2>5. CASE p # q
    <3>1. Unspent(p)' = 0 /\ app_begin'[p] = app_begin[p]
      BY <1>1, <1>2, <2>2, <2>5 DEF Unspent
    <3>2. 0 <= c + n
      OBVIOUS
    <3> QED BY <1>1, <2>4, <3>1, <3>2, RxAfter
  <2>6. CASE p = q
    <3>1. nb <= f
      BY <1>1, <1>2, <2>1, <2>6, RxReads
    <3>2. PICK n2 \in Nat, f2 \in Nat : n2 = n + nb /\ f2 = f - nb
      BY <1>2, <3>1
    <3>3. Unspent(p)' = nb /\ app_begin'[p] = (app_begin[p] + nb) % PageSize
      BY <1>1, <1>2, <2>2, <2>6 DEF Unspent, kBufMask
    <3>4. (((app_end[p] + n) % PageSize) + nb) % PageSize = (app_end[p] + (n + nb)) % PageSize
      <4>1. n \in Int
        OBVIOUS
      <4> QED BY <1>2, <2>2, <4>1, Shift
    <3>5. (((app_begin[p] + nb) % PageSize) + f2) % PageSize
            = (app_begin[p] + (nb + f2)) % PageSize /\ nb + f2 = f
      <4>1. f2 \in Int /\ nb + f2 = f
        BY <1>2, <3>2
      <4> QED BY <1>2, <2>2, <4>1, Shift
    <3>6. c + n2 + f2 + Quantum <= PageSize /\ nb <= c + n2
          /\ PageSize - 1 - n + 0 - c = PageSize - 1 - n2 + nb - c
      BY <1>2, <2>2, <2>4, <3>1, <3>2
    <3> QED BY <1>1, <2>4, <3>2, <3>3, <3>4, <3>5, <3>6, RxAfter, SMTT(30)
  <2> QED BY <2>5, <2>6
<1>4. (\A p \in RxTxPipes : \E c, n, f \in Nat : RxLayout(p, c, n, f))'
  BY <1>1, <1>3
<1>5. (/\ RxTxPipes \in Choices
       /\ rx_head \in [RxTxPipes -> Positions] /\ rx_tail \in [RxTxPipes -> Positions]
       /\ last_cap \in [RxTxPipes -> 0 .. PageSize - 1])'
  BY <1>1, <1>2 DEF RtxTypeOK
<1> QED BY <1>4, <1>5 DEF RxInv, RtxTypeOK

\* The subtraction from last_tx_pipe_capacity_ never wraps.
LEMMA RxRecord ==
  ASSUME RxInv, PathTypeOK', RtxRecord
  PROVE  RxInv'
<1>1. /\ UNCHANGED <<app_begin, app_end, RxTxPipes, rx_head, rx_tail>> /\ cur' = NoRequest
      /\ last_cap' = [p \in RxTxPipes |-> IF p = cur.pipe THEN Spent(last_cap[p], cur.nb)
                                                          ELSE last_cap[p]]
  BY DEF RtxRecord, Record, pipeVars
<1>2. RtxTypeOK
  BY DEF RxInv
<1>3. ASSUME NEW p \in RxTxPipes
      PROVE  \E c, n, f \in Nat : RxLayout(p, c, n, f)'
  <2>1. PICK c \in Nat, n \in Nat, f \in Nat : RxLayout(p, c, n, f)
    BY DEF RxInv
  <2>2. /\ PageSize \in Nat /\ Quantum \in Nat /\ Quantum >= 1 /\ Unspent(p) \in Nat
        /\ last_cap[p] \in Nat
    BY <1>2, RxTypes DEF RtxTypeOK
  <2>3. /\ app_end[p] = (rx_head[p] + c) % PageSize
        /\ app_begin[p] = (app_end[p] + n) % PageSize
        /\ rx_tail[p] = (app_begin[p] + f) % PageSize
        /\ c + n + f + Quantum <= PageSize /\ 0 <= c + n
        /\ last_cap[p] = PageSize - 1 - n + Unspent(p) - c
    BY <2>1 DEF RxLayout
  <2>4. Unspent(p)' = 0
    BY <1>1 DEF Unspent, NoRequest
  <2>5. last_cap'[p] = PageSize - 1 - n + 0 - c
    <3>1. CASE p # cur.pipe
      <4>1. Unspent(p) = 0 /\ last_cap'[p] = last_cap[p]
        BY <1>1, <3>1 DEF Unspent
      <4> QED BY <2>3, <4>1
    <3>2. CASE p = cur.pipe
      <4> DEFINE w == 2 ^ Width
                 y == PageSize - 1 - n - c
      <4>1. Unspent(p) = cur.nb /\ last_cap'[p] = (last_cap[p] - cur.nb) % w
        BY <1>1, <3>2 DEF Unspent, Spent
      <4>2. PageSize < w
        BY RtxAssumption
      <4>3. w \in Nat
        BY RtxAssumption
      <4> HIDE DEF w
      <4>4. last_cap[p] - cur.nb = y /\ y \in Nat /\ y < w /\ y = PageSize - 1 - n + 0 - c
        BY <2>2, <2>3, <4>1, <4>2, <4>3
      <4> HIDE DEF y
      <4>5. y % w = y
        BY <4>3, <4>4, Z3
      <4> QED BY <4>1, <4>4, <4>5
    <3> QED BY <3>1, <3>2
  <2> QED BY <1>1, <2>3, <2>4, <2>5, RxAfter
<1>4. (\A p \in RxTxPipes : \E c, n, f \in Nat : RxLayout(p, c, n, f))'
  BY <1>1, <1>3
<1>5. (/\ RxTxPipes \in Choices
       /\ rx_head \in [RxTxPipes -> Positions] /\ rx_tail \in [RxTxPipes -> Positions]
       /\ last_cap = [p \in RxTxPipes |-> last_cap[p]])'
  BY <1>1, <1>2 DEF RtxTypeOK
<1> QED BY <1>4, <1>5, LastCapPrimed

\* A completion passes the bytes of a request from n to c.
LEMMA RxPop ==
  ASSUME PathInv, RxInv, PathTypeOK', PopCompletion, UNCHANGED rtxVars
  PROVE  RxInv'
<1> DEFINE r == pr[pr_head]
<1>1. /\ UNCHANGED <<app_begin, cur, RxTxPipes, rx_head, rx_tail, last_cap>>
      /\ app_end' = [app_end EXCEPT ![r.pipe] = kBufMask(@ + r.nb)]
  BY DEF PopCompletion, rtxVars
<1>2. /\ RtxTypeOK /\ app_end \in [Pages -> 0 .. PageSize - 1]
  BY DEF RxInv, RtxTypeOK, PathTypeOK
<1>3. ASSUME NEW p \in RxTxPipes
      PROVE  \E c, n, f \in Nat : RxLayout(p, c, n, f)'
  <2>1. PICK c \in Nat, n \in Nat, f \in Nat : RxLayout(p, c, n, f)
    BY DEF RxInv
  <2>2. /\ p \in Pages /\ PageSize \in Nat /\ PageSize >= 1 /\ Quantum \in Nat /\ Quantum >= 1
        /\ app_end[p] \in Int /\ rx_head[p] \in Int /\ Unspent(p) \in Nat
    BY <1>2, RxTypes
  <2>3. /\ app_end[p] = (rx_head[p] + c) % PageSize
        /\ app_begin[p] = (app_end[p] + n) % PageSize
        /\ rx_tail[p] = (app_begin[p] + f) % PageSize
        /\ c + n + f + Quantum <= PageSize /\ Unspent(p) <= c + n
        /\ last_cap[p] = PageSize - 1 - n + Unspent(p) - c
    BY <2>1 DEF RxLayout
  <2>4. Unspent(p)' = Unspent(p)
    BY <1>1 DEF Unspent
  <2>5. CASE p # r.pipe
    <3>1. app_end'[p] = app_end[p]
      BY <1>1, <1>2, <2>2, <2>5
    <3> QED BY <1>1, <2>3, <2>4, <3>1, RxAfter
  <2>6. CASE p = r.pipe
    <3>1. n \in 0 .. PageSize - 1
      BY <2>2, <2>3
    <3>2. r.nb \in Nat /\ r.nb <= n
      BY <2>3, <2>6, <3>1, PopBytes
    <3>3. app_end'[p] = (app_end[p] + r.nb) % PageSize
      BY <1>1, <1>2, <2>2, <2>6 DEF kBufMask
    <3>4. PICK b \in Nat : b = r.nb
      BY <3>2
    <3>5. PICK c2 \in Nat, n2 \in Nat : c2 = c + b /\ n2 = n - b
      BY <3>2, <3>4
    <3>6. (((rx_head[p] + c) % PageSize) + b) % PageSize = (rx_head[p] + (c + b)) % PageSize
      <4>1. c \in Int /\ b \in Int
        OBVIOUS
      <4> QED BY <2>2, <4>1, Shift
    <3>7. (((app_end[p] + b) % PageSize) + n2) % PageSize
            = (app_end[p] + (b + n2)) % PageSize /\ b + n2 = n
      <4>1. n2 \in Int /\ b \in Int /\ b + n2 = n
        BY <3>5
      <4> QED BY <2>2, <4>1, Shift
    <3>8. c2 + n2 + f + Quantum <= PageSize /\ Unspent(p) <= c2 + n2
          /\ PageSize - 1 - n + Unspent(p) - c = PageSize - 1 - n2 + Unspent(p) - c2
      <4>1. PICK u \in Nat : u = Unspent(p)
        BY <2>2
      <4>2. c2 + n2 + f + Quantum <= PageSize /\ u <= c2 + n2
            /\ PageSize - 1 - n + u - c = PageSize - 1 - n2 + u - c2
        <5>1. c + n + f + Quantum <= PageSize /\ u <= c + n
          BY <2>3, <4>1
        <5> QED BY <2>2, <3>5, <5>1
      <4> QED BY <4>1, <4>2
    <3> HIDE DEF r
    <3>9. /\ app_end'[p] = (rx_head'[p] + c2) % PageSize
          /\ app_begin'[p] = (app_end'[p] + n2) % PageSize
          /\ rx_tail'[p] = (app_begin'[p] + f) % PageSize
      BY <1>1, <2>3, <3>3, <3>4, <3>5, <3>6, <3>7
    <3>10. Unspent(p)' <= c2 + n2 /\ last_cap'[p] = PageSize - 1 - n2 + Unspent(p)' - c2
      BY <1>1, <2>3, <2>4, <3>8
    <3> QED BY <3>8, <3>9, <3>10, RxAfter
  <2> QED BY <2>5, <2>6
<1>4. (\A p \in RxTxPipes : \E c, n, f \in Nat : RxLayout(p, c, n, f))'
  BY <1>1, <1>3
<1>5. (/\ RxTxPipes \in Choices
       /\ rx_head \in [RxTxPipes -> Positions] /\ rx_tail \in [RxTxPipes -> Positions]
       /\ last_cap \in [RxTxPipes -> 0 .. PageSize - 1])'
  BY <1>1, <1>2 DEF RtxTypeOK
<1> QED BY <1>4, <1>5 DEF RxInv, RtxTypeOK

\* What the capacities differ by is freed: it passes from c to the room for packets,
\* but for the bytes of a request that SendAndFree has yet to subtract.
LEMMA RxPopDone ==
  ASSUME RxInv, PathTypeOK', RtxPopDone
  PROVE  RxInv'
<1>1. /\ UNCHANGED <<app_begin, app_end, cur, RxTxPipes, rx_tail>>
      /\ rx_head' = [p \in RxTxPipes |->
                       kBufMask(rx_head[p] + Gained(capacity(p), last_cap[p]))]
      /\ last_cap' = [p \in RxTxPipes |-> IF capacity(p) > last_cap[p] THEN capacity(p)
                                                                       ELSE last_cap[p]]
  BY DEF RtxPopDone, PopDone, pipeVars
<1>2. RtxTypeOK
  BY DEF RxInv
<1>3. ASSUME NEW p \in RxTxPipes
      PROVE  /\ \E c, n, f \in Nat : RxLayout(p, c, n, f)'
             /\ rx_head'[p] \in Positions
  <2>1. PICK c \in Nat, n \in Nat, f \in Nat : RxLayout(p, c, n, f)
    BY DEF RxInv
  <2>2. /\ PageSize \in Nat /\ PageSize >= 1 /\ Quantum \in Nat /\ Quantum >= 1
        /\ rx_head[p] \in Int /\ rx_head[p] \in Positions /\ Unspent(p) \in Nat
    BY <1>2, RxTypes DEF Positions
  <2>3. /\ app_end[p] = (rx_head[p] + c) % PageSize
        /\ app_begin[p] = (app_end[p] + n) % PageSize
        /\ rx_tail[p] = (app_begin[p] + f) % PageSize
        /\ c + n + f + Quantum <= PageSize /\ Unspent(p) <= c + n
        /\ last_cap[p] = PageSize - 1 - n + Unspent(p) - c
    BY <2>1 DEF RxLayout
  <2>4. Unspent(p)' = Unspent(p)
    BY <1>1 DEF Unspent
  <2>5. capacity(p) = PageSize - 1 - n
    BY <1>2, <2>1, RxReads
  <2>6. PICK u \in Nat : u = Unspent(p)
    BY <2>2
  <2>7. CASE c <= u
    <3>1. ~(capacity(p) > last_cap[p])
      BY <2>2, <2>3, <2>5, <2>6, <2>7
    <3>2. last_cap'[p] = last_cap[p] /\ rx_head'[p] = kBufMask(rx_head[p] + 0)
      BY <1>1, <3>1 DEF Gained
    <3>3. rx_head'[p] = rx_head[p]
      <4>1. rx_head[p] \in 0 .. PageSize - 1 /\ rx_head[p] + 0 = rx_head[p]
        BY <2>2 DEF Positions
      <4> DEFINE h == rx_head[p]
      <4> HIDE DEF h
      <4>2. h \in 0 .. PageSize - 1 => h % PageSize = h
        BY <2>2, Z3
      <4> QED BY <3>2, <4>1, <4>2 DEF kBufMask, h
    <3>4. \E c2, n2, f2 \in Nat : RxLayout(p, c2, n2, f2)'
      BY <1>1, <2>3, <2>4, <3>2, <3>3, RxAfter
    <3> QED BY <2>2, <3>3, <3>4
  <2>8. CASE c > u
    <3>1. PICK g \in Nat : g = c - u /\ g + u = c
      BY <2>8
    <3>2. capacity(p) > last_cap[p] /\ capacity(p) - last_cap[p] = g
      BY <2>2, <2>3, <2>5, <2>6, <2>8, <3>1
    <3>3. last_cap'[p] = PageSize - 1 - n /\ rx_head'[p] = (rx_head[p] + g) % PageSize
      BY <1>1, <2>5, <3>2 DEF Gained, kBufMask
    <3>4. (((rx_head[p] + g) % PageSize) + u) % PageSize = (rx_head[p] + (g + u)) % PageSize
      <4>1. g \in Int /\ u \in Int
        OBVIOUS
      <4> QED BY <2>2, <4>1, Shift
    <3>5. u + n + f + Quantum <= PageSize /\ u <= u + n
          /\ PageSize - 1 - n = PageSize - 1 - n + u - u
      BY <2>2, <2>3, <2>8
    <3>6. \E c2, n2, f2 \in Nat : RxLayout(p, c2, n2, f2)'
      <4>1. /\ app_end'[p] = (rx_head'[p] + u) % PageSize
            /\ app_begin'[p] = (app_end'[p] + n) % PageSize
            /\ rx_tail'[p] = (app_begin'[p] + f) % PageSize
        BY <1>1, <2>3, <3>1, <3>3, <3>4
      <4>2. Unspent(p)' <= u + n /\ last_cap'[p] = PageSize - 1 - n + Unspent(p)' - u
        BY <2>4, <2>6, <3>3, <3>5
      <4> QED BY <3>5, <4>1, <4>2, RxAfter
    <3>7. rx_head'[p] \in Positions
      <4>1. rx_head[p] + g \in Int
        BY <2>2
      <4> QED BY <2>2, <3>3, <4>1, ModDiv DEF Positions
    <3> QED BY <3>6, <3>7
  <2> QED BY <2>7, <2>8
<1>4. (\A p \in RxTxPipes : \E c, n, f \in Nat : RxLayout(p, c, n, f))'
  BY <1>1, <1>3
<1>5. (/\ RxTxPipes \in Choices
       /\ rx_head \in [RxTxPipes -> Positions] /\ rx_tail \in [RxTxPipes -> Positions]
       /\ last_cap = [p \in RxTxPipes |-> last_cap[p]])'
  BY <1>1, <1>2, <1>3 DEF RtxTypeOK
<1> QED BY <1>4, <1>5, LastCapPrimed

\* A packet is received into the room for packets: its bytes pass to f.
LEMMA RxRecv ==
  ASSUME RxInv, PathTypeOK', NEW q \in RxTxPipes, NEW nb \in Nat, RecvReturn(q, nb)
  PROVE  RxInv'
<1>1. /\ UNCHANGED <<app_begin, app_end, cur, RxTxPipes, rx_head, last_cap>>
      /\ rx_tail' = [rx_tail EXCEPT ![q] = kBufMask(@ + nb)] /\ nb <= Room(q)
  BY DEF RecvReturn, pipeVars
<1>2. RtxTypeOK /\ rx_tail \in [RxTxPipes -> Positions]
  BY DEF RxInv, RtxTypeOK
<1>3. ASSUME NEW p \in RxTxPipes
      PROVE  /\ \E c, n, f \in Nat : RxLayout(p, c, n, f)'
             /\ rx_tail'[p] \in Positions
  <2>1. PICK c \in Nat, n \in Nat, f \in Nat : RxLayout(p, c, n, f)
    BY DEF RxInv
  <2>2. /\ PageSize \in Nat /\ PageSize >= 1 /\ Quantum \in Nat /\ Quantum >= 1
        /\ app_begin[p] \in Int /\ rx_tail[p] \in Positions /\ rx_tail[p] \in Int
    BY <1>2, RxTypes DEF Positions
  <2>3. /\ app_end[p] = (rx_head[p] + c) % PageSize
        /\ app_begin[p] = (app_end[p] + n) % PageSize
        /\ rx_tail[p] = (app_begin[p] + f) % PageSize
        /\ c + n + f + Quantum <= PageSize /\ Unspent(p) <= c + n
        /\ last_cap[p] = PageSize - 1 - n + Unspent(p) - c
    BY <2>1 DEF RxLayout
  <2>4. Unspent(p)' = Unspent(p)
    BY <1>1 DEF Unspent
  <2>5. CASE p # q
    <3>1. rx_tail'[p] = rx_tail[p]
      BY <1>1, <1>2, <2>5
    <3>2. \E c2, n2, f2 \in Nat : RxLayout(p, c2, n2, f2)'
      BY <1>1, <2>3, <2>4, <3>1, RxAfter
    <3> QED BY <2>2, <3>1, <3>2
  <2>6. CASE p = q
    <3>1. nb <= PageSize - Quantum - (c + n + f)
      BY <1>1, <1>2, <2>1, <2>6, RxReads
    <3>2. PICK f2 \in Nat : f2 = f + nb
      OBVIOUS
    <3>3. rx_tail'[p] = (rx_tail[p] + nb) % PageSize
      BY <1>1, <1>2, <2>6 DEF kBufMask
    <3>4. (((app_begin[p] + f) % PageSize) + nb) % PageSize
            = (app_begin[p] + (f + nb)) % PageSize
      <4>1. f \in Int /\ nb \in Int
        OBVIOUS
      <4> QED BY <2>2, <4>1, Shift
    <3>5. c + n + f2 + Quantum <= PageSize
      BY <2>2, <3>1, <3>2
    <3>6. \E c2, n2, f3 \in Nat : RxLayout(p, c2, n2, f3)'
      BY <1>1, <2>3, <2>4, <3>2, <3>3, <3>4, <3>5, RxAfter
    <3>7. rx_tail'[p] \in Positions
      <4>1. rx_tail[p] + nb \in Int
        BY <2>2
      <4> QED BY <2>2, <3>3, <4>1, ModDiv DEF Positions
    <3> QED BY <3>6, <3>7
  <2> QED BY <2>5, <2>6
<1>4. (\A p \in RxTxPipes : \E c, n, f \in Nat : RxLayout(p, c, n, f))'
  BY <1>1, <1>3
<1>5. (/\ RxTxPipes \in Choices
       /\ rx_head \in [RxTxPipes -> Positions] /\ rx_tail \in [RxTxPipes -> Positions]
       /\ last_cap \in [RxTxPipes -> 0 .. PageSize - 1])'
  BY <1>1, <1>2, <1>3 DEF RtxTypeOK
<1> QED BY <1>4, <1>5 DEF RxInv, RtxTypeOK

LEMMA NextRx == PathInv /\ RxInv /\ [RtxNext]_allVars => RxInv'
<1> SUFFICES ASSUME PathInv, RxInv, [RtxNext]_allVars PROVE RxInv'
  OBVIOUS
<1>0. PathTypeOK /\ Thread /\ PathTypeOK'
  BY NextPathType DEF PathInv
<1>1. ASSUME UNCHANGED <<rtxVars, pipeVars, cur>> PROVE RxInv'
  <2>1. UNCHANGED <<app_begin, app_end, cur, RxTxPipes, rx_head, rx_tail, last_cap>>
    BY <1>1 DEF rtxVars, pipeVars
  <2>2. \A p, c, n, f : RxLayout(p, c, n, f)' <=> RxLayout(p, c, n, f)
    BY <2>1 DEF RxLayout, Unspent
  <2>3. RtxTypeOK'
    BY <1>0, <2>1 DEF RxInv, RtxTypeOK
  <2> QED BY <2>1, <2>2, <2>3 DEF RxInv
<1>2. CASE Recv \/ UNCHANGED allVars
  BY <1>1, <1>2 DEF Recv, allVars, pathVars, devVars
<1>3. ASSUME NEW p \in Pages, NEW nb \in Sendable(p), RtxSendAndFree(p, nb)
      PROVE  RxInv'
  <2>1. ~Active
    BY <1>0, <1>3 DEF RtxSendAndFree, SendAndFree, Active, Thread
  <2> QED BY <1>0, <1>3, <2>1, RxSend
<1>4. ASSUME NEW p \in Pages, NEW nb \in Lengths, AllocateBuf(p, nb), UNCHANGED rtxVars
      PROVE  RxInv'
  BY <1>1, <1>4 DEF AllocateBuf
<1>5. CASE (TryExtendBuf \/ ApplyConfig) /\ UNCHANGED rtxVars
  BY <1>1, <1>5 DEF TryExtendBuf, ApplyConfig
<1>6. CASE OtherThreadStep
  <2>1. CASE PopCompletion
    BY <1>0, <1>6, <2>1, RxPop DEF OtherThreadStep
  <2>2. CASE ~PopCompletion
    BY <1>1, <1>6, <2>2
       DEF OtherThreadStep, InSendToQueue, SendToQueueReturn, RecordBlocked,
           InGetUnreported, GetUnreportedReturn, ExtendAgain, ExtendDone, InSendConfig,
           SendConfigReturn, devVars
  <2> QED BY <2>1, <2>2
<1>7. CASE RtxRecord
  BY <1>0, <1>7, RxRecord
<1>8. CASE RtxPopDone
  BY <1>0, <1>8, RxPopDone
<1>9. ASSUME NEW p \in RxTxPipes, NEW nb \in {0, Quantum, 2 * Quantum}, RecvReturn(p, nb)
      PROVE  RxInv'
  <2>1. nb \in Nat
    BY QuantumAssumption
  <2> QED BY <1>0, <1>9, <2>1, RxRecv
<1>10. CASE NicStep /\ UNCHANGED rtxVars
  BY <1>1, <1>10 DEF NicStep, devVars
<1> QED BY <1>2, <1>3, <1>4, <1>5, <1>6, <1>7, <1>8, <1>9, <1>10
        DEF RtxNext, RtxThreadStep

\* RxInv holds in every reachable state, with the type of the RxTxPipes.
THEOREM RxInvariant == RtxSpec => [](PathInv /\ RxInv)
<1>1. RtxInit => RxInv
  BY InitRx
<1> QED BY <1>1, InitPathInv, NextPathInv, NextRx, PTL DEF RtxSpec

\* The state of the pipes, the Device and the ring has its type; in particular
\* last_tx_pipe_capacity_ never wraps.
THEOREM RtxTypeCorrect == RtxSpec => []RtxTypeOK
<1>1. RxInv => RtxTypeOK
  BY DEF RxInv
<1> QED BY <1>1, RxInvariant, PTL

\* No completed byte is forgotten and none is freed twice by
\* RxTxPipe::ProcessCompletions, although Device::Send may run it between the two
\* halves of SendAndFree.
THEOREM CreditsConserved == RtxSpec => []CreditConserved
<1>1. RxInv => CreditConserved
  <2> SUFFICES ASSUME RxInv, NEW p \in RxTxPipes
               PROVE  kBufMask(app_end[p] - rx_head[p])
                        = capacity(p) + Unspent(p) - last_cap[p]
    BY DEF CreditConserved
  <2>1. PICK c \in Nat, n \in Nat, f \in Nat : RxLayout(p, c, n, f)
    BY DEF RxInv
  <2>2. RtxTypeOK
    BY DEF RxInv
  <2>3. kBufMask(app_end[p] - rx_head[p]) = c /\ capacity(p) = PageSize - 1 - n
    BY <2>1, <2>2, RxReads
  <2>4. last_cap[p] = PageSize - 1 - n + Unspent(p) - c
    BY <2>1 DEF RxLayout
  <2>5. PageSize \in Nat /\ Unspent(p) \in Nat
    BY <2>2, RxTypes
  <2> QED BY <2>3, <2>4, <2>5
<1> QED BY <1>1, RxInvariant, PTL

\* The NIC never writes a packet over one that the program holds, or that it has
\* sent and the NIC has yet to read, for every size of the page and of the quantum.
THEOREM PacketsSafe == RtxSpec => []RxNeverOverwrites
<1>1. PathInv /\ RxInv => RxNeverOverwrites
  <2> SUFFICES ASSUME PathInv, RxInv, NEW p \in RxTxPipes,
                      NEW x \in Bytes(rx_tail[p], Room(p)),
                      x \in InFlight(p) \/ x \in Bytes(app_begin[p], Confirmed(p))
               PROVE  FALSE
    BY DEF RxNeverOverwrites
  <2>0. RtxTypeOK
    BY DEF RxInv
  <2>1. PICK c \in Nat, n \in Nat, f \in Nat : RxLayout(p, c, n, f)
    BY DEF RxInv
  <2>2. /\ p \in Pages /\ PageSize \in Nat /\ PageSize >= 1 /\ Quantum \in Nat /\ Quantum >= 1
        /\ app_end[p] \in Int /\ rx_head[p] \in Int
    BY <2>0, RxTypes
  <2>3. /\ Room(p) = PageSize - Quantum - (c + n + f) /\ Confirmed(p) = f
        /\ app_begin[p] = (rx_head[p] + (c + n)) % PageSize
        /\ rx_tail[p] = (rx_head[p] + (c + n + f)) % PageSize
    <3>1. Room(p) = PageSize - Quantum - (c + n + f)
      BY <2>0, <2>1, RxReads
    <3>2. Confirmed(p) = f
      BY <2>0, <2>1, RxReads
    <3>3. app_begin[p] = (rx_head[p] + (c + n)) % PageSize
      BY <2>0, <2>1, RxReads
    <3>4. rx_tail[p] = (rx_head[p] + (c + n + f)) % PageSize
      BY <2>0, <2>1, RxReads
    <3> QED BY <3>1, <3>2, <3>3, <3>4
  <2>4. /\ app_end[p] = (rx_head[p] + c) % PageSize
        /\ app_begin[p] = (app_end[p] + n) % PageSize
        /\ c + n + f + Quantum <= PageSize
    BY <2>1 DEF RxLayout
  <2>5. \E k \in Nat : /\ c + n + f <= k /\ k <= PageSize - 1
                       /\ x = (rx_head[p] + k) % PageSize
    <3>1. PICK i \in 0 .. Room(p) - 1 : x = kBufMask(rx_tail[p] + i)
      BY DEF Bytes
    <3>2. PICK t \in Nat : t = c + n + f
      OBVIOUS
    <3>3. i \in Nat /\ i < PageSize - Quantum - t
      BY <2>2, <2>3, <3>1, <3>2
    <3>4. (((rx_head[p] + t) % PageSize) + i) % PageSize = (rx_head[p] + (t + i)) % PageSize
      <4>1. t \in Int /\ i \in Int
        BY <3>3
      <4> QED BY <2>2, <4>1, Shift
    <3>5. PICK k \in Nat : k = t + i
      BY <3>3
    <3>6. t <= k /\ k <= PageSize - 1
      BY <2>2, <3>3, <3>5
    <3>7. x = (rx_head[p] + k) % PageSize
      BY <2>3, <3>1, <3>2, <3>4, <3>5 DEF kBufMask
    <3> QED BY <3>2, <3>6, <3>7
  <2>6. \E m \in Nat : /\ m < c + n + f
                       /\ x = (rx_head[p] + m) % PageSize
    <3>1. CASE x \in InFlight(p)
      <4>1. PICK n2 \in 0 .. PageSize - 1 :
              /\ Stuck \/ app_begin[p] = (app_end[p] + n2) % PageSize
              /\ \A y \in InFlight(p) : \E b \in 0 .. n2 - 1 : y = (app_end[p] + b) % PageSize
        BY <2>2, InFlightBytes
      <4>2. ~Stuck
        <5>1. \A s \in Between(compl, s_tail) : s \in Slots
          BY BetweenSlots, RingFacts DEF PathInv, RingInv
        <5> QED BY <3>1, <5>1 DEF InFlight, Stuck, Data
      <4>3. n2 = n
        <5>1. n \in 0 .. PageSize - 1
          BY <2>2, <2>4
        <5>2. (app_end[p] + n2) % PageSize = (app_end[p] + n) % PageSize
          BY <2>4, <4>1, <4>2
        <5> QED BY <2>2, <5>1, <5>2, ModInjective
      <4>4. PICK b \in 0 .. n - 1 : x = (app_end[p] + b) % PageSize
        BY <3>1, <4>1, <4>3
      <4>5. (((rx_head[p] + c) % PageSize) + b) % PageSize = (rx_head[p] + (c + b)) % PageSize
        <5>1. c \in Int /\ b \in Int
          OBVIOUS
        <5> QED BY <2>2, <5>1, Shift
      <4>6. PICK m \in Nat : m = c + b
        OBVIOUS
      <4>7. m < c + n + f /\ x = (rx_head[p] + m) % PageSize
        BY <2>4, <4>4, <4>5, <4>6
      <4> QED BY <4>7
    <3>2. CASE x \in Bytes(app_begin[p], Confirmed(p))
      <4>1. PICK i \in 0 .. f - 1 : x = kBufMask(app_begin[p] + i)
        BY <2>3, <3>2 DEF Bytes
      <4>2. PICK t \in Nat : t = c + n
        OBVIOUS
      <4>3. (((rx_head[p] + t) % PageSize) + i) % PageSize = (rx_head[p] + (t + i)) % PageSize
        <5>1. t \in Int /\ i \in Int
          OBVIOUS
        <5> QED BY <2>2, <5>1, Shift
      <4>4. PICK m \in Nat : m = t + i
        OBVIOUS
      <4>5. m < c + n + f /\ x = (rx_head[p] + m) % PageSize
        BY <2>3, <4>1, <4>2, <4>3, <4>4 DEF kBufMask
      <4> QED BY <4>5
    <3> QED BY <3>1, <3>2
  <2>7. PICK k \in Nat : /\ c + n + f <= k /\ k <= PageSize - 1
                         /\ x = (rx_head[p] + k) % PageSize
    BY <2>5
  <2>8. PICK m \in Nat : /\ m < c + n + f
                         /\ x = (rx_head[p] + m) % PageSize
    BY <2>6
  <2>9. k \in 0 .. PageSize - 1 /\ m \in 0 .. PageSize - 1 /\ k # m
    BY <2>2, <2>7, <2>8
  <2> QED BY <2>2, <2>7, <2>8, <2>9, ModInjective
<1> QED BY <1>1, RxInvariant, PTL

-----------------------------------------------------------------------------
(* Without configurations no completion is lost: they match the requests.   *)

\* Slots in use.
InUse == Dist(tx_head, s_tail)

\* What reaping leaves in the ring.  A blocked send reaps one batch of a full
\* ring; what it counts stays uncounted by anyone else until the ring holds at
\* least as much again.  So the last notification of a request is still in the
\* ring when Device::Send makes room to record the request.
Backlog ==
  /\ dev = "sending" /\ pc = "update" => InUse >= N - 1 - (BatchSize - left)
  /\ /\ dev \in {"app", "sending", "record", "extend", "recv"}
     /\ pc # "update" /\ nb_unreported > 0
     => InUse >= N - 1 - BatchSize
  /\ dret = "record" => IF pc = "update" THEN InUse > left ELSE InUse > 0
  /\ dev = "popping" => nb_unreported = 0
  /\ dev # "config"

MatchInv == CompletionsMatchRequests /\ Backlog

LEMMA InUseType ==
  ASSUME TypeOK
  PROVE  InUse \in 0 .. N - 1 /\ (InUse = 0 <=> tx_head = s_tail)
BY DistNext DEF TypeOK, InUse

\* The ends of the requests in the ring, in distances from tx_head.
LEMMA EndsAt ==
  TypeOK => /\ \A s \in Slots : s \in RequestEnds <=>
                 Dist(tx_head, s) < InUse /\ ~wrap_tracker[s]
            /\ RequestEnds \subseteq Slots
            /\ IsFiniteSet(RequestEnds) /\ Cardinality(RequestEnds) \in Nat
<1> SUFFICES ASSUME TypeOK
             PROVE  /\ \A s \in Slots : s \in RequestEnds <=>
                         Dist(tx_head, s) < InUse /\ ~wrap_tracker[s]
                    /\ RequestEnds \subseteq Slots
                    /\ IsFiniteSet(RequestEnds) /\ Cardinality(RequestEnds) \in Nat
  OBVIOUS
<1>1. tx_head \in Slots /\ s_tail \in Slots
  BY DEF TypeOK
<1>2. Dist(tx_head, tx_head) = 0 /\ Dist(tx_head, s_tail) \in Nat
      /\ \A s \in Slots : Dist(tx_head, s) \in Nat
  BY RingFacts
<1>3. \A s \in Slots : s \in Between(tx_head, s_tail) <=> Dist(tx_head, s) < InUse
  <2> TAKE s \in Slots
  <2>1. Dist(tx_head, tx_head) <= Dist(tx_head, s_tail)
        /\ Dist(tx_head, tx_head) <= Dist(tx_head, s)
    BY <1>2
  <2> QED BY <1>1, <2>1, BetweenDist DEF InUse
<1>4. Between(tx_head, s_tail) \subseteq Slots
  BY <1>1, BetweenSlots
<1>5. RequestEnds \subseteq Slots
  BY <1>4 DEF RequestEnds
<1>6. IsFiniteSet(Slots)
  BY NAssumption, FS_Interval DEF Slots
<1>7. IsFiniteSet(RequestEnds) /\ Cardinality(RequestEnds) \in Nat
  BY <1>5, <1>6, FS_Subset, FS_CardinalityType
<1> QED BY <1>3, <1>4, <1>5, <1>7 DEF RequestEnds

LEMMA EndsAfter ==
  ASSUME TypeOK'
  PROVE  /\ \A s \in Slots : s \in RequestEnds' <=>
              Dist(tx_head', s) < InUse' /\ ~wrap_tracker'[s]
         /\ RequestEnds' \subseteq Slots
<1>1. (TypeOK => /\ \A s \in Slots : s \in RequestEnds <=>
                      Dist(tx_head, s) < InUse /\ ~wrap_tracker[s]
                 /\ RequestEnds \subseteq Slots
                 /\ IsFiniteSet(RequestEnds) /\ Cardinality(RequestEnds) \in Nat)'
  BY EndsAt, PTL
<1> QED BY <1>1

\* There are at most as many requests as slots in use.
LEMMA EndsBound ==
  ASSUME TypeOK
  PROVE  Cardinality(RequestEnds) <= InUse
<1> DEFINE S == RequestEnds
           K == InUse
           f == [s \in S |-> Dist(tx_head, s)]
<1>1. K \in Nat /\ \A s \in S : Dist(tx_head, s) \in 0 .. K - 1
  <2>1. InUse \in Nat
    BY InUseType, NAssumption
  <2>2. \A s \in RequestEnds : Dist(tx_head, s) \in Nat /\ Dist(tx_head, s) < InUse
    BY EndsAt, RingFacts
  <2> QED BY <2>1, <2>2
<1>2. \A s, t \in S : Dist(tx_head, s) = Dist(tx_head, t) => s = t
  BY EndsAt, RingFacts
<1> HIDE DEF S, K
<1>3. f \in Injection(S, 0 .. K - 1)
  BY <1>1, <1>2 DEF Injection, IsInjective
<1>4. IsFiniteSet(0 .. K - 1) /\ Cardinality(0 .. K - 1) = K
  <2>1. 0 \in Int /\ K - 1 \in Int
    BY <1>1
  <2>2. IsFiniteSet(0 .. K - 1)
        /\ Cardinality(0 .. K - 1) = IF 0 > K - 1 THEN 0 ELSE K - 1 - 0 + 1
    BY <2>1, FS_Interval
  <2> QED BY <1>1, <2>2
<1> HIDE DEF f
<1>5. Cardinality(S) <= K
  BY <1>3, <1>4, FS_Injection DEF ExistsInjection
<1> QED BY <1>5 DEF S, K

\* A step that moves no slot.
LEMMA SameEnds ==
  ASSUME UNCHANGED <<tx_head, s_tail, wrap_tracker>>
  PROVE  RequestEnds' = RequestEnds /\ InUse' = InUse
BY DEF RequestEnds, InUse

\* Reaping counts the request that ends in the slot.
LEMMA ReapMatches ==
  ASSUME RingInv, PathTypeOK, Reap
  PROVE  /\ InUse' = InUse - 1
         /\ Cardinality(RequestEnds') + nb_unreported'
              = Cardinality(RequestEnds) + nb_unreported
<1>0. TypeOK /\ TypeOK'
  <2>1. TypeOK
    BY DEF RingInv
  <2>2. [Next]_vars
    BY DEF Next, Update
  <2> QED BY <2>1, <2>2, NextType
<1>1. /\ tx_head' = Next1(tx_head) /\ s_tail' = s_tail
      /\ wrap_tracker' = [wrap_tracker EXCEPT ![tx_head] = FALSE]
      /\ nb_unreported' = nb_unreported + CompletionsOf(tx_head)
      /\ tx_head # tx_tail
  BY DEF Reap, WrapCleared, sendVars
<1>2. /\ tx_head \in Slots /\ s_tail \in Slots /\ tx_tail \in Slots
      /\ wrap_tracker \in [Slots -> BOOLEAN] /\ nb_unreported \in Nat
  BY <1>0 DEF TypeOK
<1>3. tx_head # s_tail
  <2>1. Dist(tx_head, tx_tail) <= Dist(tx_head, s_tail)
    BY DEF RingInv, RingOrder
  <2>2. Dist(tx_head, tx_tail) \in Nat /\ Dist(tx_head, tx_tail) # 0
        /\ Dist(tx_head, s_tail) \in Nat
    BY <1>0, <1>1, <1>2, RingFacts
  <2>3. Dist(tx_head, s_tail) # 0
    BY <2>1, <2>2
  <2> QED BY <1>0, <1>2, <2>3, RingFacts
<1>4. \A s \in Slots : Dist(tx_head', s) = IF s = tx_head THEN N - 1
                                            ELSE Dist(tx_head, s) - 1
  BY <1>1, <1>2, DistNext
<1>5. InUse' = InUse - 1 /\ InUse \in 0 .. N - 1 /\ InUse > 0
  <2>1. InUse' = InUse - 1
    BY <1>1, <1>2, <1>3, <1>4 DEF InUse
  <2> QED BY <1>0, <1>3, <2>1, InUseType
<1>6. \A s \in Slots : Dist(tx_head, s) \in Nat
                       /\ (Dist(tx_head, s) = 0 <=> s = tx_head)
  BY <1>0, RingFacts
<1>7. \A s \in Slots : s \in RequestEnds' <=> s \in RequestEnds /\ s # tx_head
  <2> TAKE s \in Slots
  <2>1. s \in RequestEnds' <=> Dist(tx_head', s) < InUse' /\ ~wrap_tracker'[s]
    BY <1>0, EndsAfter
  <2>2. s \in RequestEnds <=> Dist(tx_head, s) < InUse /\ ~wrap_tracker[s]
    BY <1>0, EndsAt
  <2>3. s # tx_head => wrap_tracker'[s] = wrap_tracker[s]
    BY <1>1, <1>2
  <2>4. CASE s = tx_head
    <3>1. ~(Dist(tx_head', s) < InUse')
      BY <1>4, <1>5, <2>4, NAssumption
    <3> QED BY <2>1, <2>4, <3>1
  <2>5. CASE s # tx_head
    <3>1. Dist(tx_head', s) < InUse' <=> Dist(tx_head, s) < InUse
      BY <1>4, <1>5, <1>6, <2>5, NAssumption
    <3> QED BY <2>1, <2>2, <2>3, <2>5, <3>1
  <2> QED BY <2>4, <2>5
<1>8. RequestEnds' \subseteq Slots /\ RequestEnds \subseteq Slots
      /\ IsFiniteSet(RequestEnds) /\ Cardinality(RequestEnds) \in Nat
  BY <1>0, EndsAt, EndsAfter
<1>9. RequestEnds' = RequestEnds \ {tx_head}
  BY <1>7, <1>8
<1>10. tx_head \in RequestEnds <=> ~wrap_tracker[tx_head]
  BY <1>0, <1>2, <1>5, <1>6, EndsAt
<1>11. Cardinality(RequestEnds') = Cardinality(RequestEnds) - CompletionsOf(tx_head)
  <2>1. CASE wrap_tracker[tx_head]
    <3>1. RequestEnds' = RequestEnds /\ CompletionsOf(tx_head) = 0
      BY <1>9, <1>10, <2>1 DEF CompletionsOf
    <3> QED BY <1>8, <3>1
  <2>2. CASE ~wrap_tracker[tx_head]
    <3>1. tx_head \in RequestEnds /\ CompletionsOf(tx_head) = 1
      BY <1>10, <2>2 DEF CompletionsOf
    <3>2. Cardinality(RequestEnds \ {tx_head}) = Cardinality(RequestEnds) - 1
      BY <1>8, <3>1, FS_RemoveElement
    <3> QED BY <1>9, <3>1, <3>2
  <2> QED BY <2>1, <2>2
<1>12. CompletionsOf(tx_head) \in Nat
  BY DEF CompletionsOf
<1> QED BY <1>1, <1>2, <1>5, <1>8, <1>11, <1>12

\* A request ends in the slot that takes the last of its bytes.
LEMMA ChunkMatches ==
  ASSUME RingInv, WrapInv, PathTypeOK, SendChunk
  PROVE  /\ InUse' = InUse + 1
         /\ Cardinality(RequestEnds')
              = Cardinality(RequestEnds) + (IF s_missing' = 0 THEN 1 ELSE 0)
<1>0. TypeOK /\ TypeOK'
  <2>1. TypeOK
    BY DEF RingInv
  <2>2. [Next]_vars
    BY DEF Next, SendSteps
  <2> QED BY <2>1, <2>2, NextType
<1>1. /\ tx_head' = tx_head /\ s_tail' = Next1(s_tail)
      /\ wrap_tracker' = [wrap_tracker EXCEPT
                            ![s_tail] = wrap_tracker[s_tail] \/ s_missing > ReqLength]
      /\ s_missing' = s_missing - ReqLength /\ s_missing > 0 /\ FreeSlots(s_tail) # 0
  BY DEF SendChunk
<1>2. /\ tx_head \in Slots /\ s_tail \in Slots /\ wrap_tracker \in [Slots -> BOOLEAN]
      /\ s_missing \in Nat /\ ReqLength \in Nat /\ s_missing - ReqLength \in Nat
  BY <1>0, <1>1, ReqLengthType DEF TypeOK
<1>3. Next1(s_tail) # tx_head
  BY <1>1, <1>2, FreeSlotsZero
<1>4. InUse' = InUse + 1 /\ InUse \in Nat
  <2>1. Dist(tx_head, Next1(s_tail)) = Dist(tx_head, s_tail) + 1
        /\ Dist(tx_head, s_tail) \in Nat
    BY <1>0, <1>2, <1>3, RingFacts
  <2> QED BY <1>1, <2>1 DEF InUse
<1>5. \A s \in Slots : /\ Dist(tx_head, s) \in Nat
                       /\ Dist(tx_head, s) = InUse <=> s = s_tail
  BY <1>0, <1>2, RingFacts DEF InUse
<1>6. ~wrap_tracker[s_tail]
  <2>1. WrapSlot(s_tail)
    BY <1>2 DEF WrapInv
  <2>2. ~(Dist(tx_head, s_tail) < Dist(tx_head, s_tail))
    BY <1>2, <1>5
  <2> QED BY <2>1, <2>2 DEF WrapSlot
<1>7. wrap_tracker'[s_tail] <=> s_missing' # 0
  <2>1. s_missing > ReqLength <=> s_missing' # 0
    BY <1>1, <1>2
  <2>2. wrap_tracker'[s_tail] = (wrap_tracker[s_tail] \/ s_missing > ReqLength)
    BY <1>1, <1>2, Zenon
  <2> QED BY <1>6, <2>1, <2>2, Zenon
<1>8. \A s \in Slots : s \in RequestEnds' <=>
                         s \in RequestEnds \/ (s = s_tail /\ s_missing' = 0)
  <2> TAKE s \in Slots
  <2>1. s \in RequestEnds' <=> Dist(tx_head', s) < InUse' /\ ~wrap_tracker'[s]
    BY <1>0, EndsAfter
  <2>2. s \in RequestEnds <=> Dist(tx_head, s) < InUse /\ ~wrap_tracker[s]
    BY <1>0, EndsAt
  <2>3. Dist(tx_head', s) < InUse' <=> Dist(tx_head, s) < InUse \/ s = s_tail
    BY <1>1, <1>4, <1>5
  <2>4. s # s_tail => wrap_tracker'[s] = wrap_tracker[s]
    BY <1>1, <1>2
  <2>5. CASE s = s_tail
    <3>1. ~(Dist(tx_head, s) < InUse)
      BY <1>4, <1>5, <2>5
    <3> QED BY <1>7, <2>1, <2>2, <2>3, <2>5, <3>1
  <2>6. CASE s # s_tail
    BY <2>1, <2>2, <2>3, <2>4, <2>6
  <2> QED BY <2>5, <2>6
<1>9. RequestEnds' \subseteq Slots /\ RequestEnds \subseteq Slots
      /\ IsFiniteSet(RequestEnds) /\ Cardinality(RequestEnds) \in Nat
  BY <1>0, EndsAt, EndsAfter
<1>10. CASE s_missing' # 0
  <2>1. RequestEnds' = RequestEnds
    BY <1>8, <1>9, <1>10
  <2> QED BY <1>4, <1>9, <1>10, <2>1
<1>11. CASE s_missing' = 0
  <2>1. RequestEnds' = RequestEnds \cup {s_tail}
    BY <1>2, <1>8, <1>9, <1>11
  <2>2. s_tail \notin RequestEnds
    <3>1. ~(Dist(tx_head, s_tail) < InUse)
      BY <1>2, <1>4, <1>5
    <3> QED BY <1>0, <1>2, <3>1, EndsAt
  <2>3. Cardinality(RequestEnds \cup {s_tail}) = Cardinality(RequestEnds) + 1
    BY <1>9, <2>2, FS_AddElement
  <2> QED BY <1>4, <1>11, <2>1, <2>3
<1> QED BY <1>10, <1>11

\* The request before s_tail ends there once it has been published.
LEMMA LastEnds ==
  ASSUME TypeOK, WrapInv, s_tail = tx_tail, InUse > 0
  PROVE  Cardinality(RequestEnds) >= 1
<1>1. /\ tx_head \in Slots /\ s_tail \in Slots
      /\ \A x \in Slots : Dist(tx_head, x) \in Nat
  BY RingFacts
<1>2. PICK x \in Slots : Next1(x) = s_tail
  <2> DEFINE x == IF s_tail = 0 THEN N - 1 ELSE s_tail - 1
  <2>1. x \in Slots
    BY <1>1, NAssumption DEF Slots
  <2>2. Next1(x) = s_tail
    BY <1>1, <2>1, NextSlot, NAssumption DEF Slots
  <2> QED BY <2>1, <2>2
<1>3. Next1(x) # tx_head
  BY <1>1, <1>2, RingFacts DEF InUse
<1>4. Dist(tx_head, x) < InUse
  <2>1. Dist(tx_head, Next1(x)) = Dist(tx_head, x) + 1
    BY <1>3, RingFacts
  <2> QED BY <1>1, <1>2, <2>1 DEF InUse
<1>5. ~wrap_tracker[x]
  <2>1. WrapSlot(x)
    BY DEF WrapInv
  <2> QED BY <1>2, <2>1 DEF WrapSlot
<1>6. x \in RequestEnds
  BY <1>4, <1>5, EndsAt
<1>7. Cardinality(RequestEnds) \in Nat /\ Cardinality(RequestEnds) # 0
  BY <1>6, EndsAt, FS_EmptySet
<1> QED BY <1>7

\* The pending ring grows and shrinks by one.
LEMMA PendingMoves ==
  ASSUME PathTypeOK
  PROVE  /\ nb_pending_requests < N - 1 /\ pr_head' = pr_head
            /\ pr_tail' = Next1(pr_tail)
            => nb_pending_requests' = nb_pending_requests + 1
         /\ nb_pending_requests > 0 /\ pr_tail' = pr_tail
            /\ pr_head' = Next1(pr_head)
            => nb_pending_requests' = nb_pending_requests - 1
<1> DEFINE L == nb_pending_requests
<1>1. /\ N \in Nat /\ N >= 1 /\ L \in 0 .. N - 1 /\ pr_tail = (pr_head + L) % N
      /\ pr_head \in Slots /\ pr_head \in Int
  BY NAssumption, PendingType DEF PathTypeOK, Slots
<1>2. ASSUME L < N - 1, pr_head' = pr_head, pr_tail' = Next1(pr_tail)
      PROVE  nb_pending_requests' = L + 1
  <2>1. pr_head + L \in Int /\ 1 \in Int /\ L + 1 \in 0 .. N - 1
        /\ pr_head + L + 1 = pr_head + (L + 1)
    BY <1>1, <1>2
  <2>2. (((pr_head + L) % N) + 1) % N = (pr_head + L + 1) % N
    BY <1>1, <2>1, ModAdd
  <2>3. pr_tail' = (pr_head + (L + 1)) % N
    BY <1>1, <1>2, <2>1, <2>2 DEF Next1
  <2>4. (((pr_head + (L + 1)) % N) - pr_head) % N = L + 1
    BY <1>1, <2>1, ModForth
  <2> QED BY <1>2, <2>3, <2>4 DEF nb_pending_requests
<1>3. ASSUME L > 0, pr_tail' = pr_tail, pr_head' = Next1(pr_head)
      PROVE  nb_pending_requests' = L - 1
  <2>1. L - 1 \in 0 .. N /\ L - 1 \in 0 .. N - 1 /\ (L - 1) + 1 = L
    BY <1>1, <1>3
  <2>2. (Next1(pr_head) + (L - 1)) % N = pr_tail
    BY <1>1, <2>1, RingIndex
  <2>3. Next1(pr_head) \in Int
    BY <1>1, NextSlot DEF Slots
  <2>4. (((Next1(pr_head) + (L - 1)) % N) - Next1(pr_head)) % N = L - 1
    BY <1>1, <2>1, <2>3, ModForth
  <2> QED BY <1>3, <2>2, <2>4 DEF nb_pending_requests
<1> QED BY <1>2, <1>3

\* What the two sides of CompletionsMatchRequests are.
Counted == Cardinality(RequestEnds) + nb_unreported + todo

LEMMA CountTypes ==
  ASSUME PathTypeOK
  PROVE  /\ Cardinality(RequestEnds) \in Nat /\ nb_unreported \in Nat /\ todo \in Nat
         /\ Counted \in Nat /\ nb_pending_requests \in 0 .. N - 1
         /\ Unrecorded \in 0 .. 1 /\ InUse \in 0 .. N - 1
<1>1. Cardinality(RequestEnds) \in Nat /\ nb_unreported \in Nat /\ todo \in Nat
  BY EndsAt DEF PathTypeOK, TypeOK
<1>2. InUse \in 0 .. N - 1 /\ nb_pending_requests \in 0 .. N - 1
  BY InUseType, PendingType DEF PathTypeOK
<1> QED BY <1>1, <1>2 DEF Counted, Unrecorded

-----------------------------------------------------------------------------
(* The steps, one by one.                                                   *)

\* The Device takes up another call; no notification and no request moves.
LEMMA CallMatches ==
  ASSUME Base, MatchInv,
         UNCHANGED <<tx_head, s_tail, wrap_tracker, nb_unreported, todo, pr_head,
                     pr_tail>>,
         dev \in {"app", "extend", "recv"},
         \/ dev' = "completing" /\ dret' \in {"app", "extend", "recv"}
         \/ dev' \in {"app", "extend", "recv"} /\ UNCHANGED <<dret, pc>>
  PROVE  MatchInv'
<1>1. RequestEnds' = RequestEnds /\ InUse' = InUse
      /\ nb_pending_requests' = nb_pending_requests
  BY SameEnds DEF nb_pending_requests
<1>2. dret = "app" /\ pc = "idle"
  BY DEF Base, Thread
<1>3. Unrecorded = 0 /\ Unrecorded' = 0
  BY <1>2 DEF Unrecorded
<1>4. CompletionsMatchRequests'
  BY <1>1, <1>3 DEF MatchInv, CompletionsMatchRequests
<1>5. Backlog'
  BY <1>1, <1>2 DEF MatchInv, Backlog
<1> QED BY <1>4, <1>5 DEF MatchInv

\* Device::Send waits for room in the pending ring: the last notification of the
\* request it could not record is one of more than a batch that are in use.
LEMMA RecordBlockedMatches ==
  ASSUME Base, MatchInv, RecordBlocked
  PROVE  MatchInv'
<1>1. /\ dev = "record" /\ nb_pending_requests >= kMaxPendingTxRequests - 2
      /\ dev' = "completing" /\ dret' = "record" /\ pc' = "update"
      /\ left' = BatchSize
      /\ UNCHANGED <<tx_head, s_tail, wrap_tracker, nb_unreported, todo, pr_head,
                     pr_tail>>
  BY DEF RecordBlocked, ReportCall, CallUpdate, prVars, swVars, sendVars
<1>2. RequestEnds' = RequestEnds /\ InUse' = InUse
      /\ nb_pending_requests' = nb_pending_requests
  BY <1>1, SameEnds DEF nb_pending_requests
<1>3. Unrecorded = 1 /\ Unrecorded' = 1
  BY <1>1 DEF Unrecorded
<1>4. CompletionsMatchRequests'
  BY <1>1, <1>2, <1>3 DEF MatchInv, CompletionsMatchRequests
<1>5. InUse > BatchSize
  <2>1. /\ N \in Nat /\ BatchSize \in Nat /\ 2 * BatchSize <= N - 2 /\ BatchSize >= 1
    BY NAssumption, BatchAssumption, BatchBound
  <2>2. CASE nb_unreported > 0
    <3>1. InUse >= N - 1 - BatchSize
      BY <1>1, <2>2 DEF MatchInv, Backlog, Base, Thread
    <3> QED BY <2>1, <3>1, CountTypes DEF Base
  <2>3. CASE ~(nb_unreported > 0)
    <3>1. nb_unreported = 0 /\ todo = 0
      BY <1>1, <2>3, CountTypes DEF Base, Thread
    <3>2. Cardinality(RequestEnds) + nb_unreported + todo = nb_pending_requests + 1
      BY <1>3 DEF MatchInv, CompletionsMatchRequests
    <3>3. Cardinality(RequestEnds) <= InUse
      BY EndsBound DEF Base, PathTypeOK
    <3>4. nb_pending_requests >= N - 3
      BY <1>1, <2>1 DEF kMaxPendingTxRequests
    <3> QED BY <2>1, <3>1, <3>2, <3>3, <3>4, CountTypes DEF Base
  <2> QED BY <2>2, <2>3
<1>6. Backlog'
  BY <1>1, <1>2, <1>5 DEF Backlog
<1> QED BY <1>4, <1>6 DEF MatchInv

\* A new request: nothing of it is in the ring, and what is left of a batch is
\* still unreported.
LEMMA SendMatches ==
  ASSUME Base, MatchInv, NEW p \in Pages, NEW nb \in Sendable(p), SendAndFree(p, nb)
  PROVE  MatchInv'
<1>1. /\ dev = "app" /\ dev' = "sending" /\ pc = "idle" /\ pc' = "send"
      /\ s_tail' = tx_tail /\ s_missing' = nb
      /\ UNCHANGED <<tx_head, wrap_tracker, nb_unreported, todo, pr_head, pr_tail,
                     dret>>
  BY DEF SendAndFree, SendCall, prVars, swVars
<1>2. dret = "app" /\ s_tail' = s_tail
  BY <1>1 DEF Base, Thread, RingInv, LocalTail
<1>3. RequestEnds' = RequestEnds /\ InUse' = InUse
      /\ nb_pending_requests' = nb_pending_requests
  BY <1>1, <1>2, SameEnds DEF nb_pending_requests
<1>4. nb # 0
  BY SendableType, PageAssumption
<1>5. Unrecorded = 0 /\ Unrecorded' = 0
  BY <1>1, <1>2, <1>4 DEF Unrecorded
<1>6. CompletionsMatchRequests'
  BY <1>1, <1>3, <1>5 DEF MatchInv, CompletionsMatchRequests
<1>7. Backlog'
  BY <1>1, <1>2, <1>3 DEF MatchInv, Backlog
<1> QED BY <1>6, <1>7 DEF MatchInv

\* Inside __send_to_queue.
LEMMA InSendMatches ==
  ASSUME Base, MatchInv, InSendToQueue
  PROVE  MatchInv'
<1>1. /\ dev = "sending" /\ dev' = dev /\ dret' = dret /\ todo' = todo
      /\ pr_head' = pr_head /\ pr_tail' = pr_tail /\ dret = "app"
  BY DEF InSendToQueue, devVars, prVars, Base, Thread
<1>2. nb_pending_requests' = nb_pending_requests
  BY <1>1 DEF nb_pending_requests
<1>3. /\ N \in Nat /\ BatchSize \in Nat /\ left \in 0 .. BatchSize
      /\ InUse \in 0 .. N - 1
  BY NAssumption, BatchAssumption, CountTypes DEF Base, PathTypeOK, TypeOK
<1>4. CASE SendBlocked
  <2>1. /\ s_missing > 0 /\ FreeSlots(s_tail) = 0 /\ pc' = "update"
        /\ left' = BatchSize
        /\ UNCHANGED <<tx_head, s_tail, wrap_tracker, nb_unreported, s_missing>>
    BY <1>4 DEF SendBlocked, CallUpdate, swVars, sendVars
  <2>2. RequestEnds' = RequestEnds /\ InUse' = InUse
    BY <2>1, SameEnds
  <2>3. Unrecorded' = Unrecorded
    BY <1>1, <2>1 DEF Unrecorded
  <2>4. CompletionsMatchRequests'
    BY <1>1, <1>2, <2>1, <2>2, <2>3 DEF MatchInv, CompletionsMatchRequests
  <2>5. InUse = N - 1
    <3>1. tx_head \in Slots /\ s_tail \in Slots
      BY DEF Base, PathTypeOK, TypeOK
    <3> QED BY <2>1, <3>1, FreeSlotsZero, DistNext DEF InUse
  <2>6. InUse' >= N - 1 - (BatchSize - left')
    BY <1>3, <2>1, <2>2, <2>5
  <2>7. Backlog'
    BY <1>1, <2>1, <2>6 DEF Backlog
  <2> QED BY <2>4, <2>7 DEF MatchInv
<1>5. CASE SendChunk
  <2>1. /\ pc = "send" /\ pc' = "send" /\ nb_unreported' = nb_unreported
        /\ s_missing > 0 /\ s_missing' \in Nat
    BY <1>5, ReqLengthType DEF SendChunk, callVars, Base, PathTypeOK
  <2>2. /\ InUse' = InUse + 1
        /\ Cardinality(RequestEnds')
             = Cardinality(RequestEnds) + (IF s_missing' = 0 THEN 1 ELSE 0)
    BY <1>5, ChunkMatches DEF Base
  <2>3. Unrecorded = 0 /\ Unrecorded' = IF s_missing' = 0 THEN 1 ELSE 0
    BY <1>1, <2>1 DEF Unrecorded
  <2>4. CompletionsMatchRequests'
    <3>1. Cardinality(RequestEnds) + nb_unreported + todo = nb_pending_requests + 0
      BY <2>3 DEF MatchInv, CompletionsMatchRequests
    <3>2. Cardinality(RequestEnds') + nb_unreported + todo
            = nb_pending_requests + Unrecorded'
      BY <2>2, <2>3, <3>1, CountTypes DEF Base
    <3> QED BY <1>1, <1>2, <2>1, <3>2 DEF CompletionsMatchRequests
  <2>5. Backlog'
    <3>1. nb_unreported > 0 => InUse >= N - 1 - BatchSize
      BY <1>1, <2>1 DEF MatchInv, Backlog
    <3>2. nb_unreported > 0 => InUse' >= N - 1 - BatchSize
      BY <1>3, <2>2, <3>1
    <3> QED BY <1>1, <2>1, <3>2 DEF Backlog
  <2> QED BY <2>4, <2>5 DEF MatchInv
<1>6. CASE Reap
  <2>1. /\ pc = "update" /\ pc' = pc /\ left' = left - 1 /\ s_missing' = s_missing
        /\ todo' = todo
    BY <1>1, <1>6 DEF Reap, sendVars
  <2>2. /\ InUse' = InUse - 1
        /\ Cardinality(RequestEnds') + nb_unreported'
             = Cardinality(RequestEnds) + nb_unreported
    BY <1>6, ReapMatches DEF Base
  <2>3. Unrecorded' = Unrecorded
    BY <1>1, <2>1 DEF Unrecorded
  <2>4. CompletionsMatchRequests'
    BY <1>2, <2>1, <2>2, <2>3 DEF MatchInv, CompletionsMatchRequests
  <2>5. InUse >= N - 1 - (BatchSize - left)
    BY <1>1, <2>1 DEF MatchInv, Backlog
  <2>6. InUse' >= N - 1 - (BatchSize - left')
    BY <1>3, <2>1, <2>2, <2>5
  <2>7. Backlog'
    BY <1>1, <2>1, <2>6 DEF Backlog
  <2> QED BY <2>4, <2>7 DEF MatchInv
<1>7. CASE UpdateReturn
  <2>1. /\ pc = "update" /\ pc' = ret
        /\ UNCHANGED <<tx_head, s_tail, wrap_tracker, nb_unreported, s_missing>>
    BY <1>7 DEF UpdateReturn, swVars, sendVars
  <2>2. RequestEnds' = RequestEnds /\ InUse' = InUse
    BY <2>1, SameEnds
  <2>3. Unrecorded' = Unrecorded
    BY <1>1, <2>1 DEF Unrecorded
  <2>4. CompletionsMatchRequests'
    BY <1>1, <1>2, <2>1, <2>2, <2>3 DEF MatchInv, CompletionsMatchRequests
  <2>5. pc' = "send"
    BY <1>1, <2>1 DEF Base, Thread
  <2>6. InUse >= N - 1 - (BatchSize - left)
    BY <1>1, <2>1 DEF MatchInv, Backlog
  <2>7. InUse' >= N - 1 - BatchSize
    BY <1>3, <2>2, <2>6
  <2>8. Backlog'
    BY <1>1, <2>5, <2>7 DEF Backlog
  <2> QED BY <2>4, <2>8 DEF MatchInv
<1> QED BY <1>4, <1>5, <1>6, <1>7 DEF InSendToQueue, Update

\* The request is published and recorded.
LEMMA RecordMatches ==
  ASSUME Base, MatchInv, SendToQueueReturn \/ Record
  PROVE  MatchInv'
<1>1. CASE SendToQueueReturn
  <2>1. /\ dev = "sending" /\ dev' = "record" /\ pc = "send" /\ pc' = "idle"
        /\ s_missing = 0
        /\ UNCHANGED <<tx_head, s_tail, wrap_tracker, nb_unreported, todo, dret,
                       pr_head, pr_tail>>
    BY <1>1 DEF SendToQueueReturn, SendPublish, prVars
  <2>2. /\ RequestEnds' = RequestEnds /\ InUse' = InUse /\ dret = "app"
        /\ nb_pending_requests' = nb_pending_requests
    BY <2>1, SameEnds DEF nb_pending_requests, Base, Thread
  <2>3. Unrecorded = 1 /\ Unrecorded' = 1
    BY <2>1 DEF Unrecorded
  <2>4. CompletionsMatchRequests'
    BY <2>1, <2>2, <2>3 DEF MatchInv, CompletionsMatchRequests
  <2>5. Backlog'
    BY <2>1, <2>2 DEF MatchInv, Backlog
  <2> QED BY <2>4, <2>5 DEF MatchInv
<1>2. CASE Record
  <2>1. /\ dev = "record" /\ dev' = "app" /\ pr_tail' = Next1(pr_tail)
        /\ nb_pending_requests < kMaxPendingTxRequests - 2
        /\ UNCHANGED <<tx_head, s_tail, wrap_tracker, nb_unreported, todo, dret,
                       pr_head, pc>>
    BY <1>2 DEF Record, vars
  <2>2. RequestEnds' = RequestEnds /\ InUse' = InUse /\ dret = "app"
    BY <2>1, SameEnds DEF Base, Thread
  <2>3. nb_pending_requests' = nb_pending_requests + 1
    <3>1. nb_pending_requests < N - 1
      BY <2>1, NAssumption, CountTypes DEF kMaxPendingTxRequests, Base
    <3> QED BY <2>1, <3>1, PendingMoves DEF Base
  <2>4. Unrecorded = 1 /\ Unrecorded' = 0
    BY <2>1, <2>2 DEF Unrecorded
  <2>5. CompletionsMatchRequests'
    <3>1. nb_pending_requests' + Unrecorded' = nb_pending_requests + 1
      BY <2>3, <2>4, CountTypes DEF Base
    <3> QED BY <2>1, <2>2, <2>4, <3>1 DEF MatchInv, CompletionsMatchRequests
  <2>6. Backlog'
    BY <2>1, <2>2 DEF MatchInv, Backlog, Base, Thread
  <2> QED BY <2>5, <2>6 DEF MatchInv
<1> QED BY <1>1, <1>2

\* Counting completions.
LEMMA GetUnreportedMatches ==
  ASSUME Base, MatchInv, InGetUnreported \/ GetUnreportedReturn
  PROVE  MatchInv'
<1>1. /\ dev = "completing" /\ dret' = dret /\ todo = 0
      /\ pr_head' = pr_head /\ pr_tail' = pr_tail
  BY DEF InGetUnreported, GetUnreportedReturn, devVars, prVars, Base, Thread
<1>2. nb_pending_requests' = nb_pending_requests
  BY <1>1 DEF nb_pending_requests
<1>3. left \in 0 .. BatchSize /\ InUse \in 0 .. N - 1 /\ BatchSize \in Nat /\ N \in Nat
  BY NAssumption, BatchAssumption, CountTypes DEF Base, PathTypeOK, TypeOK
<1>4. CASE InGetUnreported /\ Reap
  <2>1. /\ pc = "update" /\ pc' = pc /\ left' = left - 1 /\ todo' = todo
        /\ dev' = dev
    BY <1>4 DEF InGetUnreported, Reap, devVars
  <2>2. /\ InUse' = InUse - 1
        /\ Cardinality(RequestEnds') + nb_unreported'
             = Cardinality(RequestEnds) + nb_unreported
    BY <1>4, ReapMatches DEF Base
  <2>3. Unrecorded' = Unrecorded
    BY <1>1, <2>1 DEF Unrecorded
  <2>4. CompletionsMatchRequests'
    BY <1>2, <2>1, <2>2, <2>3 DEF MatchInv, CompletionsMatchRequests
  <2>5. dret = "record" => InUse > left
    BY <2>1 DEF MatchInv, Backlog
  <2>6. dret = "record" => InUse' > left'
    BY <1>3, <2>1, <2>2, <2>5
  <2>7. Backlog'
    BY <1>1, <2>1, <2>6 DEF Backlog
  <2> QED BY <2>4, <2>7 DEF MatchInv
<1>5. CASE InGetUnreported /\ UpdateReturn
  <2>1. /\ pc = "update" /\ pc' = ret /\ todo' = todo /\ dev' = dev
        /\ UNCHANGED <<tx_head, s_tail, wrap_tracker, nb_unreported>>
    BY <1>5 DEF InGetUnreported, UpdateReturn, swVars, sendVars, devVars
  <2>2. RequestEnds' = RequestEnds /\ InUse' = InUse
    BY <2>1, SameEnds
  <2>3. Unrecorded' = Unrecorded
    BY <1>1, <2>1 DEF Unrecorded
  <2>4. CompletionsMatchRequests'
    BY <1>2, <2>1, <2>2, <2>3 DEF MatchInv, CompletionsMatchRequests
  <2>5. pc' = "report"
    BY <1>1, <2>1 DEF Base, Thread
  <2>6. dret = "record" => InUse' > 0
    BY <1>3, <2>1, <2>2 DEF MatchInv, Backlog
  <2>7. Backlog'
    BY <1>1, <2>1, <2>5, <2>6 DEF Backlog
  <2> QED BY <2>4, <2>7 DEF MatchInv
<1>6. CASE GetUnreportedReturn
  <2>1. /\ pc = "report" /\ pc' = "idle" /\ todo' = nb_unreported
        /\ dev' = "popping" /\ nb_unreported' = 0
        /\ UNCHANGED <<tx_head, s_tail, wrap_tracker>>
    BY <1>6 DEF GetUnreportedReturn, ReportReturn, sendVars
  <2>2. RequestEnds' = RequestEnds /\ InUse' = InUse
    BY <2>1, SameEnds
  <2>3. Unrecorded' = Unrecorded
    BY <1>1, <2>1 DEF Unrecorded
  <2>4. CompletionsMatchRequests'
    <3>1. Cardinality(RequestEnds) + 0 + nb_unreported
            = Cardinality(RequestEnds) + nb_unreported + 0
      BY CountTypes DEF Base
    <3> QED BY <1>1, <1>2, <2>1, <2>2, <2>3, <3>1
            DEF MatchInv, CompletionsMatchRequests
  <2>5. Backlog'
    BY <1>1, <2>1, <2>2 DEF MatchInv, Backlog
  <2> QED BY <2>4, <2>5 DEF MatchInv
<1> QED BY <1>4, <1>5, <1>6 DEF InGetUnreported, Update

\* Applying completions: each of them has a request in the pending ring.
LEMMA PopMatches ==
  ASSUME Base, MatchInv, PopCompletion \/ PopDone
  PROVE  MatchInv'
<1>1. /\ dev = "popping" /\ pc = "idle" /\ nb_unreported = 0
      /\ UNCHANGED <<tx_head, s_tail, wrap_tracker, nb_unreported, pr_tail, pc>>
  BY DEF PopCompletion, PopDone, prVars, vars, Base, Thread, MatchInv, Backlog
<1>2. RequestEnds' = RequestEnds /\ InUse' = InUse
  BY <1>1, SameEnds
<1>3. CASE PopCompletion
  <2>1. /\ todo > 0 /\ todo' = todo - 1 /\ dev' = dev /\ dret' = dret
        /\ pr_head' = Next1(pr_head)
    BY <1>3 DEF PopCompletion
  <2>2. Unrecorded' = Unrecorded
    BY <1>1, <2>1 DEF Unrecorded
  <2>3. Cardinality(RequestEnds) >= Unrecorded
    <3>1. CASE dret = "record"
      <4>1. InUse > 0
        BY <1>1, <3>1 DEF MatchInv, Backlog
      <4>2. s_tail = tx_tail
        BY <1>1 DEF Base, RingInv, LocalTail
      <4>3. Cardinality(RequestEnds) >= 1
        BY <4>1, <4>2, LastEnds DEF Base, PathTypeOK
      <4> QED BY <4>3, CountTypes DEF Base
    <3>2. CASE dret # "record"
      <4>1. Unrecorded = 0
        BY <1>1, <3>2 DEF Unrecorded
      <4> QED BY <4>1, CountTypes DEF Base
    <3> QED BY <3>1, <3>2
  <2>4. Cardinality(RequestEnds) + nb_unreported + todo
          = nb_pending_requests + Unrecorded
    BY DEF MatchInv, CompletionsMatchRequests
  <2>5. nb_pending_requests > 0
    BY <1>1, <2>1, <2>3, <2>4, CountTypes DEF Base
  <2>6. nb_pending_requests' = nb_pending_requests - 1
    BY <1>1, <2>1, <2>5, PendingMoves DEF Base
  <2>7. CompletionsMatchRequests'
    <3>1. Cardinality(RequestEnds) + nb_unreported + (todo - 1)
            = nb_pending_requests - 1 + Unrecorded
      BY <2>4, CountTypes DEF Base
    <3> QED BY <1>1, <1>2, <2>1, <2>2, <2>6, <3>1 DEF CompletionsMatchRequests
  <2>8. Backlog'
    BY <1>1, <1>2, <2>1 DEF MatchInv, Backlog
  <2> QED BY <2>7, <2>8 DEF MatchInv
<1>4. CASE PopDone
  <2>1. /\ dev' = dret /\ dret' = "app" /\ todo' = todo /\ pr_head' = pr_head
        /\ dret \in {"app", "record", "extend", "recv"}
    BY <1>4 DEF PopDone, prVars, Base, PathTypeOK
  <2>2. Unrecorded' = Unrecorded
    BY <1>1, <2>1 DEF Unrecorded
  <2>3. CompletionsMatchRequests'
    BY <1>1, <1>2, <2>1, <2>2
       DEF MatchInv, CompletionsMatchRequests, nb_pending_requests
  <2>4. Backlog'
    BY <1>1, <1>2, <2>1 DEF MatchInv, Backlog
  <2> QED BY <2>3, <2>4 DEF MatchInv
<1> QED BY <1>3, <1>4

\* Steps that the Device does not see.
LEMMA UnseenMatches ==
  ASSUME MatchInv,
         UNCHANGED <<tx_head, s_tail, wrap_tracker, nb_unreported, todo, pr_head,
                     pr_tail, dev, dret, pc, left, s_missing>>
  PROVE  MatchInv'
<1>1. RequestEnds' = RequestEnds /\ InUse' = InUse
      /\ nb_pending_requests' = nb_pending_requests
  BY SameEnds DEF nb_pending_requests
<1>2. Unrecorded' = Unrecorded
  BY DEF Unrecorded
<1> QED BY <1>1, <1>2 DEF MatchInv, CompletionsMatchRequests, Backlog

LEMMA InitMatch == RtxInit => MatchInv
<1> SUFFICES ASSUME RtxInit PROVE MatchInv
  OBVIOUS
<1>1. PathTypeOK /\ Thread
  BY InitPath DEF RtxInit
<1>2. /\ tx_head = s_tail /\ nb_unreported = 0 /\ todo = 0 /\ pr_head = 0
      /\ pr_tail = 0 /\ dev = "app" /\ dret = "app" /\ pc = "idle"
  BY DEF RtxInit, PathInit, Init
<1>3. InUse = 0
  BY <1>1, <1>2, InUseType DEF PathTypeOK
<1>4. Cardinality(RequestEnds) = 0
  BY <1>1, <1>3, EndsBound, CountTypes DEF PathTypeOK
<1>5. nb_pending_requests = 0 /\ Unrecorded = 0
  <2>1. (0 - 0) % N = 0
    BY NAssumption, Z3
  <2> QED BY <1>2, <2>1 DEF nb_pending_requests, Unrecorded
<1> QED BY <1>2, <1>4, <1>5 DEF MatchInv, CompletionsMatchRequests, Backlog

LEMMA NextMatch == ~Configs /\ Base /\ MatchInv /\ [RtxNext]_allVars => MatchInv'
<1> SUFFICES ASSUME ~Configs, Base, MatchInv, [RtxNext]_allVars PROVE MatchInv'
  OBVIOUS
<1>1. CASE Recv \/ TryExtendBuf \/ ExtendAgain
  <2>1. /\ dev \in {"app", "extend"} /\ dev' = "completing"
        /\ dret' \in {"recv", "extend", dret}
        /\ UNCHANGED <<tx_head, s_tail, wrap_tracker, nb_unreported, todo, pr_head,
                       pr_tail>>
    BY <1>1 DEF Recv, TryExtendBuf, ExtendAgain, ReportCall, swVars, sendVars, prVars
  <2>2. dret = "app"
    BY <2>1 DEF Base, Thread
  <2> QED BY <2>1, <2>2, CallMatches
<1>2. ASSUME NEW p \in Pages, NEW nb \in Sendable(p), RtxSendAndFree(p, nb)
      PROVE  MatchInv'
  BY <1>2, SendMatches DEF RtxSendAndFree
<1>3. ASSUME NEW p, NEW nb, AllocateBuf(p, nb) \/ ExtendDone \/ RecvReturn(p, nb)
      PROVE  MatchInv'
  <2>1. /\ dev \in {"app", "extend", "recv"} /\ dev' \in {"app", "extend"}
        /\ UNCHANGED <<tx_head, s_tail, wrap_tracker, nb_unreported, todo, pr_head,
                       pr_tail, dret, pc>>
    BY <1>3 DEF AllocateBuf, ExtendDone, RecvReturn, vars, prVars
  <2> QED BY <2>1, CallMatches
<1>4. CASE RecordBlocked
  BY <1>4, RecordBlockedMatches
<1>5. CASE InSendToQueue
  BY <1>5, InSendMatches
<1>6. CASE SendToQueueReturn \/ RtxRecord
  BY <1>6, RecordMatches DEF RtxRecord
<1>7. CASE InGetUnreported \/ GetUnreportedReturn
  BY <1>7, GetUnreportedMatches
<1>8. CASE PopCompletion \/ RtxPopDone
  BY <1>8, PopMatches DEF RtxPopDone
<1>9. ~(ApplyConfig \/ InSendConfig \/ SendConfigReturn)
  BY DEF ApplyConfig, ConfigCall, InSendConfig, SendConfigReturn, MatchInv, Backlog
<1>10. CASE NicStep
  BY <1>10, UnseenMatches DEF NicStep, Nic, NicRequest, NicFetch, NicComplete, swVars,
                              callVars, sendVars, prVars, devVars
<1>11. CASE UNCHANGED allVars
  BY <1>11, UnseenMatches DEF allVars, pathVars, vars, prVars, devVars
<1> QED BY <1>1, <1>2, <1>3, <1>4, <1>5, <1>6, <1>7, <1>8, <1>9, <1>10, <1>11
        DEF RtxNext, RtxThreadStep, OtherThreadStep

\* Without configurations every completion is one of a pending request, and every
\* pending request has one to come: the loop over the completions in
\* ProcessCompletions never runs past tx_pr_tail_, although Device::Send records a
\* request only after sending it and may process completions in between.
THEOREM CompletionsMatched ==
  ASSUME ~Configs
  PROVE  RtxSpec => []CompletionsMatchRequests
<1>1. PathInv => Base
  BY DEF PathInv, Base
<1>2. RtxInit => MatchInv
  BY InitMatch
<1>3. PathInv /\ MatchInv /\ [RtxNext]_allVars => MatchInv'
  BY <1>1, NextMatch
<1>4. MatchInv => CompletionsMatchRequests
  BY DEF MatchInv
<1> QED BY <1>2, <1>3, <1>4, PathInvariant, PTL DEF RtxSpec

\* Without configurations Device::Send never waits for room in a pending ring
\* whose head has passed its tail.
THEOREM NeverStuck ==
  ASSUME ~Configs
  PROVE  RtxSpec => []~Stuck
<1>1. PathInv /\ CompletionsMatchRequests => ~Stuck
  <2> SUFFICES ASSUME PathInv, CompletionsMatchRequests, Stuck PROVE FALSE
    OBVIOUS
  <2>1. PathTypeOK /\ tx_head = s_tail /\ nb_unreported = 0 /\ todo = 0
        /\ nb_pending_requests = N - 1 /\ N \in Nat /\ N >= 2
    BY NAssumption DEF PathInv, Stuck
  <2>2. Cardinality(RequestEnds) <= 0
    BY <2>1, InUseType, EndsBound DEF PathTypeOK
  <2>3. Cardinality(RequestEnds) + 0 + 0 = N - 1 + Unrecorded
    BY <2>1 DEF CompletionsMatchRequests
  <2> QED BY <2>1, <2>2, <2>3, CountTypes
<1> QED BY <1>1, CompletionsMatched, PathInvariant, PTL

-----------------------------------------------------------------------------
(* Every byte of a pipe is accounted for.                                   *)

\* The bytes of pipe p in each slot of the pending ring, and the slots of its i
\* oldest requests.
Lens(p) == [s \in Slots |-> IF pr[s].pipe = p THEN pr[s].nb ELSE 0]
Oldest(i) == {(pr_head + k) % N : k \in 0 .. i - 1}

LEMMA OldestSlots ==
  ASSUME PathTypeOK
  PROVE  /\ Oldest(0) = {} /\ Oldest(nb_pending_requests) = Pending
         /\ \A i \in 0 .. N : Oldest(i) \subseteq Slots /\ IsFiniteSet(Oldest(i))
         /\ \A i \in 0 .. N - 1 : /\ (pr_head + i) % N \in Oldest(i + 1)
                                  /\ Oldest(i) = Oldest(i + 1) \ {(pr_head + i) % N}
<1> DEFINE L == nb_pending_requests
           at(i) == (pr_head + i) % N
<1>0. /\ N \in Nat /\ N >= 1 /\ pr_head \in Slots /\ pr_tail \in Slots
      /\ L \in 0 .. N - 1 /\ pr_tail = at(L) /\ pr_head \in Int
  BY NAssumption, PendingType DEF PathTypeOK, Slots
<1>1. \A i \in 0 .. N - 1 : at(i) \in Slots
  <2>1. \A i \in 0 .. N - 1 : i \in 0 .. N
    BY <1>0
  <2> QED BY <1>0, <2>1, RingIndex
<1>2. ASSUME NEW i \in 0 .. N - 1, NEW j \in 0 .. N - 1, at(i) = at(j) PROVE i = j
  BY <1>0, <1>2, ModInjective
<1>3. \A i \in 0 .. N : Oldest(i) = {at(k) : k \in 0 .. i - 1}
  BY DEF Oldest
<1>4. \A s \in Slots : Dist(pr_head, s) \in 0 .. N - 1 /\ s = at(Dist(pr_head, s))
  BY <1>0, SlotAt
<1> HIDE DEF at
<1>5. \A i \in 0 .. N : Oldest(i) \subseteq Slots /\ IsFiniteSet(Oldest(i))
  <2> SUFFICES ASSUME NEW i \in 0 .. N
               PROVE  Oldest(i) \subseteq Slots /\ IsFiniteSet(Oldest(i))
    OBVIOUS
  <2>1. Oldest(i) \subseteq Slots
    BY <1>0, <1>1, <1>3
  <2>2. IsFiniteSet(Slots)
    BY <1>0, FS_Interval DEF Slots
  <2> QED BY <2>1, <2>2, FS_Subset
<1>6. ASSUME NEW i \in 0 .. N - 1
      PROVE  at(i) \in Oldest(i + 1) /\ Oldest(i) = Oldest(i + 1) \ {at(i)}
  <2>1. /\ i + 1 \in 0 .. N /\ i \in 0 .. N /\ i \in 0 .. (i + 1) - 1
        /\ \A k \in 0 .. (i + 1) - 1 : k \in 0 .. N - 1 /\ (k # i => k \in 0 .. i - 1)
        /\ \A k \in 0 .. i - 1 : k \in 0 .. (i + 1) - 1 /\ k # i
    BY <1>0
  <2>2. Oldest(i + 1) = {at(k) : k \in 0 .. (i + 1) - 1}
        /\ Oldest(i) = {at(k) : k \in 0 .. i - 1}
    BY <1>3, <2>1
  <2>3. at(i) \in Oldest(i + 1)
    BY <2>1, <2>2
  <2>4. ASSUME NEW x \in Oldest(i) PROVE x \in Oldest(i + 1) /\ x # at(i)
    BY <1>2, <2>1, <2>2
  <2>5. ASSUME NEW x \in Oldest(i + 1), x # at(i) PROVE x \in Oldest(i)
    BY <2>1, <2>2, <2>5
  <2> QED BY <2>3, <2>4, <2>5
<1>7. Oldest(0) = {}
  BY <1>0, <1>3
<1>8. Oldest(L) = Pending
  <2>1. Dist(pr_head, pr_head) = 0 /\ Dist(pr_head, pr_tail) = L
    <3>1. pr_head = at(Dist(pr_head, pr_head)) /\ pr_tail = at(Dist(pr_head, pr_tail))
          /\ Dist(pr_head, pr_head) \in 0 .. N - 1 /\ Dist(pr_head, pr_tail) \in 0 .. N - 1
      BY <1>0, <1>4
    <3>2. Dist(pr_head, pr_head) = 0
      BY <1>0 DEF Dist
    <3> QED BY <1>0, <1>2, <3>1, <3>2
  <2>2. ASSUME NEW s \in Slots
        PROVE  s \in Between(pr_head, pr_tail) <=> Dist(pr_head, s) < L
    <3>1. s \in Between(pr_head, pr_tail)
            <=> /\ Dist(pr_head, pr_head) <= Dist(pr_head, s)
                /\ Dist(pr_head, s) < Dist(pr_head, pr_tail)
      <4>1. Dist(pr_head, pr_head) <= Dist(pr_head, pr_tail)
        BY <1>0, <2>1
      <4> QED BY <1>0, <4>1, BetweenDist
    <3> QED BY <1>4, <2>1, <3>1
  <2>3. ASSUME NEW s \in Slots
        PROVE  s \in Oldest(L) <=> Dist(pr_head, s) < L
    <3>1. L \in 0 .. N /\ \A k \in 0 .. L - 1 : k \in 0 .. N - 1 /\ k < L
      BY <1>0
    <3>2. Oldest(L) = {at(k) : k \in 0 .. L - 1}
      BY <1>3, <3>1
    <3>3. s \in Oldest(L) => Dist(pr_head, s) < L
      <4> SUFFICES ASSUME s \in Oldest(L) PROVE Dist(pr_head, s) < L
        OBVIOUS
      <4>1. PICK k \in 0 .. L - 1 : s = at(k)
        BY <3>2
      <4>2. Dist(pr_head, s) = k
        BY <1>2, <1>4, <3>1, <4>1
      <4> QED BY <3>1, <4>2
    <3>4. Dist(pr_head, s) < L => s \in Oldest(L)
      <4> SUFFICES ASSUME Dist(pr_head, s) < L PROVE s \in Oldest(L)
        OBVIOUS
      <4>1. Dist(pr_head, s) \in 0 .. L - 1
        BY <1>0, <1>4
      <4> QED BY <1>4, <3>2, <4>1
    <3> QED BY <3>3, <3>4
  <2>4. Oldest(L) \subseteq Slots /\ L \in 0 .. N
    BY <1>0, <1>5
  <2> QED BY <2>2, <2>3, <2>4 DEF Pending
<1> QED BY <1>5, <1>6, <1>7, <1>8 DEF at

\* The i oldest requests hold pos[p][i] bytes of pipe p.
LEMMA OldestSum ==
  ASSUME PathTypeOK, NEW pos \in Positions0, Layout(pos), NEW p \in Pages,
         NEW i \in 0 .. nb_pending_requests
  PROVE  SumFunctionOnSet(Lens(p), Oldest(i)) = pos[p][i]
<1> DEFINE L == nb_pending_requests
           V(k) == SumFunctionOnSet(Lens(p), Oldest(k))
           B == {k \in 0 .. L : V(k) # pos[p][k]}
<1> SUFFICES ASSUME B # {} PROVE FALSE
  OBVIOUS
<1>0. /\ N \in Nat /\ N >= 1 /\ L \in 0 .. N - 1 /\ NbRequests \in {L, L + 1}
      /\ pr_head \in Slots /\ pr \in [Slots -> Requests]
  BY NAssumption, PendingType DEF PathTypeOK, NbRequests
<1>1. PICK k \in B : \A j \in B : k <= j
  <2>1. B \subseteq Nat
    BY <1>0
  <2> HIDE DEF B
  <2> QED BY <2>1, LeastNatural
<1>2. k \in 0 .. L /\ V(k) # pos[p][k]
  BY <1>1
<1>3. k # 0
  BY <1>2, OldestSlots, SumOfNone DEF Layout
<1> DEFINE j == k - 1
           s == (pr_head + j) % N
<1>4. j \in 0 .. L /\ j \in 0 .. N - 1 /\ j \in 0 .. N /\ j < L /\ j + 1 = k /\ j < k
      /\ j \in 0 .. NbRequests - 1 /\ k \in 0 .. N
  BY <1>0, <1>2, <1>3
<1>5. V(j) = pos[p][j]
  <2>1. j \notin B
    BY <1>1, <1>2, <1>4
  <2> HIDE DEF j, V
  <2> QED BY <1>4, <2>1
<1>6. s \in Oldest(k) /\ Oldest(j) = Oldest(k) \ {s} /\ s \in Slots
      /\ Oldest(k) \subseteq Slots /\ IsFiniteSet(Oldest(k))
  <2>1. s \in Oldest(j + 1) /\ Oldest(j) = Oldest(j + 1) \ {s}
    BY <1>4, OldestSlots
  <2>2. Oldest(k) \subseteq Slots /\ IsFiniteSet(Oldest(k))
    BY <1>4, OldestSlots
  <2> QED BY <1>4, <2>1, <2>2
<1>7. \A x \in Slots : Lens(p)[x] \in Int
  BY <1>0, PageAssumption DEF Lens, Requests
<1>8. Lens(p)[s] = IF Request(j).pipe = p THEN Request(j).nb ELSE 0
  <2>1. Request(j) = pr[s]
    BY <1>4 DEF Request
  <2> QED BY <1>6, <2>1 DEF Lens
<1>9. pos[p][j + 1] = pos[p][j] + (IF Request(j).pipe = p THEN Request(j).nb ELSE 0)
  BY <1>4 DEF Layout
<1> HIDE DEF s, j
<1>10. V(k) = Lens(p)[s] + V(j)
  <2>1. \A x \in Oldest(k) : Lens(p)[x] \in Int
    BY <1>6, <1>7
  <2>2. SumFunctionOnSet(Lens(p), Oldest(k))
          = Lens(p)[s] + SumFunctionOnSet(Lens(p), Oldest(k) \ {s})
    BY <1>6, <2>1, SumWithout
  <2> QED BY <1>6, <2>2
<1>11. Lens(p)[s] \in Int /\ pos[p][j] \in Int
  <2>1. pos[p] \in [0 .. N -> Nat]
    BY DEF Positions0
  <2>2. pos[p][j] \in Nat
    BY <1>4, <2>1
  <2> QED BY <1>6, <1>7, <2>2
<1> HIDE DEF V
<1> QED BY <1>2, <1>4, <1>5, <1>8, <1>9, <1>10, <1>11

\* The bytes of a pipe are in its capacity, in requests, or the reserved one.
LEMMA PathNoByteLost == PathInv => NoByteLost
<1> SUFFICES ASSUME PathInv, NEW p \in Pages
             PROVE  capacity(p) + PendingBytes(p) = PageSize - 1
  BY DEF NoByteLost
<1>0. /\ PageSize \in Nat /\ PageSize >= 1 /\ N \in Nat /\ PathTypeOK /\ Thread
      /\ app_end[p] \in 0 .. PageSize - 1
      /\ nb_pending_requests \in 0 .. N - 1
  BY PageAssumption, NAssumption, PendingType DEF PathInv, PathTypeOK
<1>1. PendingBytes(p) = SumFunctionOnSet(Lens(p), Pending) + Unspent(p)
  BY DEF PendingBytes, Lens, Unspent
<1>2. Unspent(p) \in Nat
  BY <1>0 DEF PathTypeOK, Requests, Unspent
<1>3. CASE Stuck
  <2>1. \A s \in Slots : pr[s] = NoRequest
    BY <1>3 DEF Stuck
  <2>2. \A s \in Slots : Lens(p)[s] = 0
    BY <2>1 DEF Lens, NoRequest
  <2>3. Pending \subseteq Slots /\ IsFiniteSet(Pending)
    <3>1. IsFiniteSet(Slots)
      BY <1>0, FS_Interval DEF Slots
    <3> QED BY <3>1, FS_Subset DEF Pending
  <2>4. SumFunctionOnSet(Lens(p), Pending) = 0
    BY <2>2, <2>3, SumOfZeros
  <2>5. capacity(p) = PageSize - 1 - Unspent(p)
    BY <1>0, <1>3, CapacityLeft DEF Stuck
  <2> QED BY <1>0, <1>1, <1>2, <2>4, <2>5
<1>4. CASE ~Stuck
  <2>1. PICK pos \in Positions0, req \in [Slots -> Nat], byte \in [Slots -> Nat],
             ends \in [Slots -> Int] : Accounted(pos, req, byte, ends)
    BY <1>4 DEF PathInv
  <2> DEFINE L == nb_pending_requests
             n == pos[p][NbRequests]
  <2>2. Layout(pos) /\ L \in 0 .. L /\ L \in 0 .. N /\ pos[p][L] \in Nat
    BY <1>0, <2>1 DEF Accounted, Positions0
  <2>3. SumFunctionOnSet(Lens(p), Pending) = pos[p][L]
    <3>1. SumFunctionOnSet(Lens(p), Oldest(L)) = pos[p][L]
      BY <1>0, <2>2, OldestSum
    <3> QED BY <1>0, <3>1, OldestSlots
  <2>4. n = pos[p][L] + Unspent(p)
    <3>1. CASE Active
      <4>1. NbRequests = L + 1 /\ Request(L) = cur /\ L \in 0 .. NbRequests - 1
        BY <1>0, <3>1 DEF NbRequests, Request
      <4> QED BY <2>2, <4>1 DEF Layout, Unspent
    <3>2. CASE ~Active
      <4>1. NbRequests = L /\ Unspent(p) = 0
        BY <1>0, <3>2 DEF NbRequests, Thread, Unspent, NoRequest
      <4> QED BY <2>2, <4>1
    <3> QED BY <3>1, <3>2
  <2>5. n <= PageSize - 1 /\ app_begin[p] = (app_end[p] + n) % PageSize
    BY <2>2 DEF Layout
  <2>6. n \in 0 .. PageSize - 1
    BY <1>0, <1>2, <2>2, <2>4, <2>5
  <2> HIDE DEF n
  <2>7. capacity(p) = PageSize - 1 - n
    BY <1>0, <2>5, <2>6, CapacityLeft
  <2> QED BY <1>0, <1>1, <1>2, <2>2, <2>3, <2>4, <2>7
<1> QED BY <1>3, <1>4

\* For every ring, batch and page size, any number of pipes and with
\* configurations or without: a pipe's bytes are the application's, the reserved
\* one, or in requests, so the bytes of every completed request come back.
THEOREM BytesConserved == RtxSpec => []NoByteLost
<1> QED BY PathNoByteLost, PathInvariant, PTL

=============================================================================
