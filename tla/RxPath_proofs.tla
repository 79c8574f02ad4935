---------------------------- MODULE RxPath_proofs ----------------------------
(***************************************************************************)
(* Proofs about the receive path, for every number and size of pipes and   *)
(* every size of the ring, the batch and the stages of the NIC.            *)
(*                                                                         *)
(* What is between the packet queue manager and host memory is one stream: *)
(* the entries of dma_in and, behind them, those of pkt_out.  The          *)
(* invariant says how the data in the stream continues what is in the pipe *)
(* and which slots of the ring it has reserved.  It needs one thing of the *)
(* environment: a descriptor finds room in the ring.  A program that       *)
(* clears what it receives provides it, as the second half shows.          *)
(***************************************************************************)
EXTENDS RxPath, FiniteSetTheorems, Arithmetic

\* The descriptor queue manager has a slot for the next descriptor.
Room ==
  pkt_out # <<>> /\ Head(pkt_out).needs_dsc => RingFree(dsc_head, dsc_tail, N) # 0

-----------------------------------------------------------------------------
(* The stream.                                                              *)

FlowLen == Len(dma_in) + Len(pkt_out)
Flow(i) == IF i <= Len(dma_in) THEN dma_in[i] ELSE pkt_out[i - Len(dma_in)]

\* Its first entry has been written, but for its descriptor.
Written(i) == i = 1 /\ dma_state = "SEND_DESCRIPTOR"

\* A packet that is still to be written, and a request that still needs its
\* descriptor.
IsData(i) == Flow(i).size > 0 /\ ~Flow(i).drop_data /\ ~Written(i)
Live(i) == IsData(i) \/ (Flow(i).size = 0 /\ Flow(i).needs_dsc)

\* What matters of an entry: where its data begin and how long they are.
Views == [q : Pipes, tail : Flits, len : 0 .. MaxPkt, live : BOOLEAN]
ViewOf(i) == [q |-> Flow(i).q, tail |-> Flow(i).tail,
              len |-> IF IsData(i) THEN Flow(i).size ELSE 0, live |-> Live(i)]
View == [i \in 1 .. FlowLen |-> ViewOf(i)]

\* What a stream V of n entries holds of a pipe lies between what is in host
\* memory and the tail, in order.  h, d and t are rx_head, dma_tail, pkt_tail.
Ordered(V, n, h, d, t) ==
  /\ \A i \in 1 .. n : V[i].live =>
       LET q == V[i].q
       IN  /\ PipeDist(h[q], d[q]) <= PipeDist(h[q], V[i].tail)
           /\ PipeDist(h[q], V[i].tail) + V[i].len <= PipeDist(h[q], t[q])
  /\ \A i, j \in 1 .. n :
       i < j /\ V[i].live /\ V[j].live /\ V[i].q = V[j].q =>
         PipeDist(h[V[j].q], V[i].tail) + V[i].len <= PipeDist(h[V[j].q], V[j].tail)

\* Flit x of pipe q is where host memory ends, or where one of the first k
\* entries of the stream does.
Reached(V, d, q, x, k) ==
  \/ x = d[q]
  \/ \E i \in 1 .. k : V[i].len > 0 /\ V[i].q = q /\ Advance(V[i].tail, V[i].len) = x

\* Nothing is missing.
Gapless(V, n, d, t) ==
  /\ \A j \in 1 .. n : V[j].live => Reached(V, d, V[j].q, V[j].tail, j - 1)
  /\ \A q \in Pipes : Reached(V, d, q, t[q], n)

Stream(V, n, h, d, t) ==
  /\ \A i \in 1 .. n : V[i].len > 0 => V[i].live
  /\ Ordered(V, n, h, d, t) /\ Gapless(V, n, d, t)

StreamOrder == Stream(View, FlowLen, rx_head, dma_tail, pkt_tail)

\* How the marks of an entry depend on each other.
Marked(m) ==
  /\ m.size > 0 /\ m.needs_dsc => ~m.drop_data
  /\ m.size > 0 => (m.drop_meta <=> m.drop_data)
  /\ m.size = 0 => (m.drop_meta <=> ~m.needs_dsc)

Marks ==
  /\ \A i \in 1 .. Len(dma_in) : Marked(dma_in[i])
  /\ \A i \in 1 .. Len(pkt_out) : Marked(pkt_out[i])

\* The entry whose descriptor comes next.
AtDescriptor ==
  dma_state = "SEND_DESCRIPTOR" =>
    /\ dma_in # <<>>
    /\ dma_in[1].size > 0 =>
         dma_in[1].needs_dsc /\ dma_in[1].tail = dma_tail[dma_in[1].q]

-----------------------------------------------------------------------------
(* The ring.                                                                *)

Unread(s) == rx_buf[s].signal = 1

\* From the head h of the ring to its tail t: what software has read, up to b;
\* the unread notifications U, up to w; and the slots that the first n entries
\* of D have reserved, in order.
Ring(D, n, h, b, w, t, U) ==
  /\ RingDist(h, b) <= RingDist(h, w) /\ RingDist(h, w) <= RingDist(h, t)
  /\ \A s \in Slots :
       s \in U <=> RingDist(h, b) <= RingDist(h, s) /\ RingDist(h, s) < RingDist(h, w)
  /\ \A s \in Slots :
       (\E i \in 1 .. n : D[i].needs_dsc /\ D[i].slot = s)
         <=> RingDist(h, w) <= RingDist(h, s) /\ RingDist(h, s) < RingDist(h, t)
  /\ \A i, j \in 1 .. n :
       i < j /\ D[i].needs_dsc /\ D[j].needs_dsc =>
         RingDist(h, D[i].slot) < RingDist(h, D[j].slot)

RingShape ==
  \E w \in Slots : Ring(dma_in, Len(dma_in), dsc_head, nb_head, w, dsc_tail,
                        {s \in Slots : Unread(s)})

\* Unread notifications, in a ring B with head h, announce data that are in
\* host memory, in order.  g, p and d are rx_head, pending and dma_tail.
Notified(B, h, g, p, d) ==
  /\ \A s \in Slots : B[s].signal = 1 =>
       LET q == B[s].queue_id
       IN  /\ PipeDist(g[q], p[q]) <= PipeDist(g[q], B[s].tail)
           /\ PipeDist(g[q], B[s].tail) <= PipeDist(g[q], d[q])
  /\ \A s, t \in Slots :
       /\ B[s].signal = 1 /\ B[t].signal = 1 /\ RingDist(h, s) < RingDist(h, t)
       /\ B[s].queue_id = B[t].queue_id
       => LET q == B[s].queue_id
          IN  PipeDist(g[q], B[s].tail) <= PipeDist(g[q], B[t].tail)

NotifOrder == Notified(rx_buf, dsc_head, rx_head, pending, dma_tail)

\* PipeOrder, of one pipe with head h.
Order(h, r, p, d, t) ==
  /\ PipeDist(h, r) <= PipeDist(h, p) /\ PipeDist(h, p) <= PipeDist(h, d)
  /\ PipeDist(h, d) <= PipeDist(h, t)

PipesOrder ==
  \A q \in Pipes :
    /\ pkt_head[q] = rx_head[q]
    /\ Order(rx_head[q], rx_tail[q], pending[q], dma_tail[q], pkt_tail[q])

StreamInv ==
  /\ TypeOK /\ Marks /\ StreamOrder /\ AtDescriptor
  /\ RingShape /\ NotifOrder /\ PipesOrder

-----------------------------------------------------------------------------
(* Programs that clear what they receive.                                   *)

\* A pipe's token: the one request, descriptor, notification or piece of news
\* that stands for it.  p says where it is.
Places == {"none", "head_upd", "in_queue", "pkt_out", "dma_in", "ring", "aware"}

\* The entries I of a queue, entry i for pipe Q[i], are the tokens in place c.
Tokens(I, Q, p, c) ==
  /\ \A i \in I : p[Q[i]] = c
  /\ \A i, j \in I : Q[i] = Q[j] => i = j
  /\ \A q \in Pipes : p[q] = c => \E i \in I : Q[i] = q

Requests(f) == {i \in 1 .. Len(f) : f[i].size = 0}
Descs(f) == {i \in 1 .. Len(f) : f[i].needs_dsc}
InRing == {s \in Slots : Unread(s)}

Owner(f) == [i \in 1 .. Len(f) |-> f[i].q]
RingOwner == [s \in Slots |-> rx_buf[s].queue_id]

TokenPlaces(p) ==
  /\ Tokens(1 .. Len(head_upd), head_upd, p, "head_upd")
  /\ Tokens(Requests(in_queue), Owner(in_queue), p, "in_queue")
  /\ Tokens(Descs(pkt_out), Owner(pkt_out), p, "pkt_out")
  /\ Tokens(Descs(dma_in), Owner(dma_in), p, "dma_in")
  /\ Tokens(InRing, RingOwner, p, "ring")
  /\ \A q \in Pipes : Aware(q) <=> p[q] = "aware"

\* No request of pipe q in the stream f comes after a packet of it.
Behind(p, f, q) ==
  \A i \in 1 .. Len(f) :
    f[i].q = q /\ f[i].size > 0 =>
      /\ p[q] # "head_upd"
      /\ \A j \in Requests(f) : f[j].q = q => j < i

\* The status bit is clear only if a packet may have to bring a token: the pipe
\* is empty, and no request will be served after a packet that is waiting.
TokenStatus(p) ==
  \A q \in Pipes :
    /\ status[q] => p[q] # "none"
    /\ ~status[q] => /\ p[q] \in {"none", "head_upd", "in_queue"}
                     /\ pkt_head[q] = pkt_tail[q] /\ Behind(p, in_queue, q)

\* A request in the queue f that needs a descriptor announces something; h is
\* rx_head.
Fresh(f, h) == \A i \in Descs(f) : f[i].size = 0 => f[i].tail # h[f[i].q]

\* So does every notification.
TokenNews ==
  /\ Fresh(pkt_out, rx_head) /\ Fresh(dma_in, rx_head)
  /\ dma_state = "SEND_DESCRIPTOR" /\ dma_in[1].needs_dsc =>
       dma_in[1].tail # rx_head[dma_in[1].q]
  /\ \A s \in InRing : rx_buf[s].tail # rx_head[rx_buf[s].queue_id]

\* Slots read and not given back belong to pipes the program is aware of; r
\* says which.
TokenRead(p, r) ==
  LET read == {s \in Slots : RingDist(dsc_head, s) < RingDist(dsc_head, nb_head)}
  IN  /\ \A s \in read : p[r[s]] = "aware"
      /\ \A s, t \in read : r[s] = r[t] => s = t

\* The program clears what it receives.
Clears ==
  /\ ~NextApi /\ pc \in {"app", "tails", "recv"} /\ ret = "recv"
  /\ consumed => pc = "tails"
  /\ ~consumed => dsc_head = nb_head
  /\ \A q \in Pipes : rx_tail[q] # rx_head[q] => rx_tail[q] = pending[q]

TokenInv ==
  /\ Clears /\ TokenNews
  /\ \E p \in [Pipes -> Places], r \in [Slots -> Pipes] :
       TokenPlaces(p) /\ TokenStatus(p) /\ TokenRead(p, r)

\* Programs that poll with RxPipe::Recv and clear all they receive, on a ring
\* with a slot for each of their pipes.
Clearing == ~Partial /\ Apis = {FALSE} /\ NbPipes <= N - 1

-----------------------------------------------------------------------------
(* Indices into a pipe and into the ring.                                   *)

LEMMA Sizes ==
  /\ PipeSize \in Nat /\ PipeSize >= 1 /\ PipeSize >= 2 /\ N \in Nat /\ N >= 1 /\ N >= 2
  /\ NbPipes \in Nat /\ NbPipes >= 1 /\ MaxPkt \in Nat /\ MaxPkt >= 1 /\ MaxPkt <= PipeSize - 1
  /\ StageLen \in Nat /\ StageLen >= 1 /\ HeadUpdLimit \in Nat /\ HeadUpdLimit >= NbPipes
  /\ BatchSize \in Nat /\ BatchSize >= 1
  /\ \A x \in Flits : x \in Int /\ x \in 0 .. PipeSize - 1
  /\ \A x \in Slots : x \in Int /\ x \in 0 .. N - 1
  /\ 0 \in Flits /\ 0 \in Slots /\ 0 \in Pipes
BY RxSizes, RxUse DEF Flits, Slots, Pipes

LEMMA PipeDistType ==
  ASSUME NEW h \in Flits, NEW x \in Flits
  PROVE  /\ PipeDist(h, x) \in 0 .. PipeSize - 1 /\ PipeDist(h, x) \in Nat
         /\ PipeDist(h, h) = 0
         /\ \A y \in Flits : PipeDist(h, x) = PipeDist(h, y) => x = y
<1>1. PipeDist(h, x) \in 0 .. PipeSize - 1 /\ PipeDist(h, h) = 0
  BY Sizes, ModDistType DEF PipeDist
<1>2. \A y \in Flits : PipeDist(h, x) = PipeDist(h, y) => x = y
  BY Sizes, DistEqual DEF PipeDist
<1> QED BY <1>1, <1>2, Sizes

LEMMA PipeMove ==
  ASSUME NEW h \in Flits, NEW x \in Flits, NEW k \in Nat
  PROVE  /\ Advance(x, k) \in Flits
         /\ PipeDist(h, x) + k <= PipeSize - 1 =>
              PipeDist(h, Advance(x, k)) = PipeDist(h, x) + k
<1>1. x + k \in Int /\ x \in Int /\ h \in Int
  BY Sizes
<1>2. Advance(x, k) \in Flits
  BY <1>1, Sizes, ModDiv DEF Advance, Flits
<1>3. PipeSize \in Nat /\ PipeSize >= 1
  BY Sizes
<1> QED BY <1>1, <1>2, <1>3, DistAdvance DEF Advance, PipeDist

LEMMA PipeHeadMove ==
  ASSUME NEW h \in Flits, NEW x \in Flits, NEW n \in 0 .. PipeSize - 1,
         PipeDist(h, x) >= n
  PROVE  PipeDist(Advance(h, n), x) = PipeDist(h, x) - n
<1>1. x \in Int /\ h \in Int
  BY Sizes
<1> QED BY <1>1, Sizes, DistShift DEF Advance, PipeDist

LEMMA PipeTo ==
  ASSUME NEW h \in Flits, NEW x \in Flits
  PROVE  Advance(h, PipeDist(h, x)) = x
BY Sizes, DistBack DEF Advance, PipeDist

LEMMA RingDistType ==
  ASSUME NEW h \in Slots, NEW x \in Slots
  PROVE  /\ RingDist(h, x) \in 0 .. N - 1 /\ RingDist(h, x) \in Nat
         /\ RingDist(h, h) = 0
         /\ \A y \in Slots : RingDist(h, x) = RingDist(h, y) => x = y
<1>1. RingDist(h, x) \in 0 .. N - 1 /\ RingDist(h, h) = 0
  BY Sizes, ModDistType DEF RingDist
<1>2. \A y \in Slots : RingDist(h, x) = RingDist(h, y) => x = y
  BY Sizes, DistEqual DEF RingDist
<1> QED BY <1>1, <1>2, Sizes

LEMMA RingMove ==
  ASSUME NEW h \in Slots, NEW x \in Slots
  PROVE  /\ (x + 1) % N \in Slots
         /\ RingDist(h, x) + 1 <= N - 1 => RingDist(h, (x + 1) % N) = RingDist(h, x) + 1
<1>1. x + 1 \in Int /\ x \in Int /\ h \in Int /\ 1 \in Nat
  BY Sizes
<1>2. (x + 1) % N \in Slots
  BY <1>1, Sizes, ModDiv DEF Slots
<1> QED BY <1>1, <1>2, Sizes, DistAdvance DEF RingDist

LEMMA RingHeadMove ==
  ASSUME NEW h \in Slots, NEW g \in Slots, NEW x \in Slots
  PROVE  RingDist(g, x) = IF RingDist(h, x) >= RingDist(h, g)
                          THEN RingDist(h, x) - RingDist(h, g)
                          ELSE RingDist(h, x) - RingDist(h, g) + N
<1>1. x \in Int /\ h \in Int /\ g \in Int /\ g \in 0 .. N - 1
  BY Sizes
<1>2. RingDist(h, g) \in 0 .. N - 1
  BY RingDistType
<1>3. (h + ((g - h) % N)) % N = g
  BY <1>1, Sizes, DistBack
<1> DEFINE n == (g - h) % N
<1>4. n \in 0 .. N - 1
  BY <1>2 DEF RingDist
<1>5. (x - ((h + n) % N)) % N = IF (x - h) % N >= n THEN ((x - h) % N) - n
                                                    ELSE ((x - h) % N) - n + N
  <2> HIDE DEF n
  <2> QED BY <1>1, <1>4, Sizes, DistShift
<1> QED BY <1>3, <1>5 DEF RingDist

-----------------------------------------------------------------------------
(* Queues.                                                                  *)

LEMMA Dequeue ==
  ASSUME NEW S, NEW s \in Seq(S), s # <<>>
  PROVE  /\ Len(s) \in Nat /\ Len(s) >= 1 /\ 1 \in 1 .. Len(s) /\ DOMAIN s = 1 .. Len(s)
         /\ Head(s) = s[1] /\ Head(s) \in S
         /\ Tail(s) \in Seq(S) /\ Len(Tail(s)) = Len(s) - 1
         /\ \A i \in 1 .. Len(s) - 1 : Tail(s)[i] = s[i + 1]
OBVIOUS

LEMMA Enqueue ==
  ASSUME NEW S, NEW s \in Seq(S), NEW x \in S
  PROVE  /\ Len(s) \in Nat /\ DOMAIN s = 1 .. Len(s)
         /\ Append(s, x) \in Seq(S) /\ Len(Append(s, x)) = Len(s) + 1
         /\ Append(s, x)[Len(s) + 1] = x
         /\ \A i \in 1 .. Len(s) : Append(s, x)[i] = s[i]
OBVIOUS

-----------------------------------------------------------------------------
(* Types.                                                                   *)

LEMMA InitType == Init => TypeOK
<1> SUFFICES ASSUME Init PROVE TypeOK
  OBVIOUS
<1>1. head_upd \in Seq(Pipes) /\ Len(head_upd) <= HeadUpdLimit
  <2>1. head_upd = [i \in 1 .. NbPipes |-> i - 1]
    BY DEF Init, NicInit
  <2>2. \A i \in 1 .. NbPipes : i - 1 \in Pipes
    BY Sizes DEF Pipes
  <2> QED BY <2>1, <2>2, Sizes
<1>2. NoNotif \in Notifs
  BY Sizes DEF NoNotif, Notifs
<1>3. NicTypeOK
  BY <1>1, <1>2, Sizes DEF Init, NicInit, NicTypeOK
<1>4. /\ nb_head = 0 /\ pending = [q \in Pipes |-> 0]
      /\ rx_head = [q \in Pipes |-> 0] /\ rx_tail = [q \in Pipes |-> 0]
      /\ ids = [s \in Slots |-> 0] /\ ids_head = 0 /\ ids_tail = 0
      /\ pc = "app" /\ ret = "recv" /\ left = 0 /\ consumed = FALSE /\ cur = 0
      /\ NextApi \in Apis
  BY DEF Init
<1>5. 0 \in Flits /\ 0 \in Slots /\ 0 \in Pipes /\ 0 \in 0 .. BatchSize
  BY Sizes
<1> QED BY <1>3, <1>4, <1>5 DEF TypeOK

LEMMA NicType == TypeOK /\ AtDescriptor /\ NicStep => NicTypeOK'
<1> SUFFICES ASSUME TypeOK, AtDescriptor, NicStep PROVE NicTypeOK'
  OBVIOUS
<1> USE DEF TypeOK, NicTypeOK
<1>1. CASE TakeHeadUpd
  <2>1. Head(head_upd) \in Pipes /\ Tail(head_upd) \in Seq(Pipes)
        /\ Len(Tail(head_upd)) <= HeadUpdLimit
    <3>1. head_upd \in Seq(Pipes) /\ head_upd # <<>> /\ Len(head_upd) <= HeadUpdLimit
          /\ HeadUpdLimit \in Nat
      BY <1>1, Sizes DEF TakeHeadUpd
    <3> QED BY <3>1, Dequeue
  <2>2. [q |-> Head(head_upd), size |-> 0] \in [q : Pipes, size : 0 .. MaxPkt]
    BY <2>1, Sizes
  <2>3. in_queue' \in Seq([q : Pipes, size : 0 .. MaxPkt]) /\ Len(in_queue') <= StageLen
    BY <1>1, <2>2, Sizes DEF TakeHeadUpd
  <2> QED BY <1>1, <2>1, <2>3 DEF TakeHeadUpd
<1>2. CASE ManagePacket
  <2> DEFINE q == Head(in_queue).q
             size == Head(in_queue).size
             full == RingFree(pkt_head[q], pkt_tail[q], PipeSize) < size
             m == [q |-> q, size |-> size, tail |-> pkt_tail[q],
                   needs_dsc |-> NeedsDsc(q) /\ ~full,
                   drop_data |-> full, drop_meta |-> full, slot |-> 0]
  <2>1. Head(in_queue) \in [q : Pipes, size : 0 .. MaxPkt]
    BY <1>2, Dequeue DEF ManagePacket
  <2>2. q \in Pipes /\ size \in 0 .. MaxPkt
    BY <2>1
  <2>3. m \in Metas
    <3>1. pkt_tail[q] \in Flits /\ 0 \in Slots
      BY <2>2, Sizes
    <3>2. full \in BOOLEAN /\ (NeedsDsc(q) /\ ~full) \in BOOLEAN
      BY DEF NeedsDsc
    <3> HIDE DEF q, size, full
    <3> QED BY <2>2, <3>1, <3>2 DEF Metas
  <2>4. pkt_out' = Append(pkt_out, m) /\ Len(pkt_out) < StageLen
    BY <1>2 DEF ManagePacket
  <2>5. pkt_out' \in Seq(Metas) /\ Len(pkt_out') <= StageLen
    <3> HIDE DEF m
    <3> QED BY <2>3, <2>4, Sizes
  <2>6. Advance(pkt_tail[q], size) \in Flits
    <3>1. MaxPkt \in Nat
      BY Sizes
    <3>2. pkt_tail[q] \in Flits /\ size \in Nat
      <4> HIDE DEF q, size
      <4> QED BY <2>2, <3>1
    <3> HIDE DEF q, size
    <3> QED BY <3>2, PipeMove
  <2>7. pkt_tail' \in [Pipes -> Flits] /\ status' \in [Pipes -> BOOLEAN]
    BY <1>2, <2>2, <2>6 DEF ManagePacket
  <2>8. in_queue' \in Seq([q : Pipes, size : 0 .. MaxPkt]) /\ Len(in_queue') <= StageLen
    BY <1>2, Sizes DEF ManagePacket
  <2> QED BY <1>2, <2>5, <2>7, <2>8 DEF ManagePacket
<1>3. CASE ManageHeadUpd
  <2> DEFINE q == Head(in_queue).q
             e == pkt_head[q] = pkt_tail[q]
             m == [q |-> q, size |-> 0, tail |-> pkt_tail[q], needs_dsc |-> ~e,
                   drop_data |-> FALSE, drop_meta |-> e, slot |-> 0]
  <2>1. Head(in_queue) \in [q : Pipes, size : 0 .. MaxPkt]
    BY <1>3, Dequeue DEF ManageHeadUpd
  <2>2. q \in Pipes
    BY <2>1
  <2>3. m \in Metas
    <3>1. 0 \in Slots /\ 0 \in 0 .. MaxPkt
      BY Sizes
    <3>2. pkt_tail[q] \in Flits /\ e \in BOOLEAN
      BY <2>2
    <3> HIDE DEF q, e
    <3> QED BY <2>2, <3>1, <3>2 DEF Metas
  <2>4. pkt_out' = Append(pkt_out, m) /\ Len(pkt_out) < StageLen
    BY <1>3 DEF ManageHeadUpd
  <2>5. pkt_out' \in Seq(Metas) /\ Len(pkt_out') <= StageLen
    <3> HIDE DEF m
    <3> QED BY <2>3, <2>4, Sizes
  <2>6. status' \in [Pipes -> BOOLEAN]
    BY <1>3, <2>2 DEF ManageHeadUpd, StatusOnHeadUpd
  <2>7. in_queue' \in Seq([q : Pipes, size : 0 .. MaxPkt]) /\ Len(in_queue') <= StageLen
    BY <1>3, Sizes DEF ManageHeadUpd
  <2> QED BY <1>3, <2>5, <2>6, <2>7 DEF ManageHeadUpd
<1>4. CASE ReserveSlot
  <2> DEFINE full == Head(pkt_out).needs_dsc /\ RingFree(dsc_head, dsc_tail, N) = 0
             m == [Head(pkt_out) EXCEPT !.slot = ReservedSlot, !.needs_dsc = @ /\ ~full]
  <2>1. Head(pkt_out) \in Metas
    BY <1>4 DEF ReserveSlot
  <2>2. m \in Metas
    BY <2>1 DEF Metas, ReservedSlot
  <2>3. dma_in' = Append(dma_in, m) /\ Len(dma_in) < StageLen
    BY <1>4 DEF ReserveSlot
  <2>4. dma_in' \in Seq(Metas) /\ Len(dma_in') <= StageLen
    <3> HIDE DEF m
    <3> QED BY <2>2, <2>3, Sizes
  <2>5. dsc_tail' \in Slots
    BY <1>4, RingMove DEF ReserveSlot
  <2>6. pkt_out' \in Seq(Metas) /\ Len(pkt_out') <= StageLen
    BY <1>4, Sizes DEF ReserveSlot
  <2> QED BY <1>4, <2>4, <2>5, <2>6 DEF ReserveSlot
<1>5. CASE StartDescriptor
  BY <1>5 DEF StartDescriptor
<1>6. CASE DmaPacket
  <2> DEFINE m == Head(dma_in)
             end == Advance(m.tail, m.size)
  <2>1. m \in Metas
    BY <1>6 DEF DmaPacket
  <2>2. m.q \in Pipes /\ end \in Flits
    <3>0. MaxPkt \in Nat
      BY Sizes
    <3>1. m.q \in Pipes /\ m.tail \in Flits /\ m.size \in Nat
      <4> HIDE DEF m
      <4> QED BY <2>1, <3>0 DEF Metas
    <3> HIDE DEF m
    <3> QED BY <3>1, PipeMove
  <2>3. dma_tail' \in [Pipes -> Flits]
    BY <1>6, <2>2 DEF DmaPacket
  <2>4. dma_in' \in Seq(Metas) /\ Len(dma_in') <= StageLen
    <3>1. CASE m.needs_dsc
      <4>1. dma_in' = [dma_in EXCEPT ![1].tail = end]
        BY <1>6, <3>1 DEF DmaPacket
      <4>2. 1 \in DOMAIN dma_in /\ dma_in[1] = m
        BY <1>6 DEF DmaPacket
      <4>3. [dma_in[1] EXCEPT !.tail = end] \in Metas
        BY <2>1, <2>2, <4>2 DEF Metas
      <4> HIDE DEF end, m
      <4> QED BY <4>1, <4>2, <4>3
    <3>2. CASE ~m.needs_dsc
      <4>1. dma_in' = Tail(dma_in) /\ dma_in # <<>> /\ StageLen \in Nat
        BY <1>6, <3>2, Sizes DEF DmaPacket
      <4> QED BY <4>1, Dequeue
    <3> QED BY <3>1, <3>2
  <2>5. dma_state' \in {"START_TRANSFER", "SEND_DESCRIPTOR"}
    BY <1>6 DEF DmaPacket
  <2> QED BY <1>6, <2>3, <2>4, <2>5 DEF DmaPacket
<1>7. CASE SendDescriptor
  <2>1. dma_in # <<>>
    BY <1>7 DEF SendDescriptor, AtDescriptor
  <2>2. Head(dma_in) \in Metas /\ Tail(dma_in) \in Seq(Metas) /\ Len(Tail(dma_in)) <= StageLen
    <3>1. StageLen \in Nat
      BY Sizes
    <3> QED BY <2>1, <3>1, Dequeue
  <2> DEFINE m == Head(dma_in)
  <2>3. [signal |-> 1, queue_id |-> m.q, tail |-> m.tail] \in Notifs /\ m.slot \in Slots
    BY <2>2 DEF Metas, Notifs
  <2>4. rx_buf' \in [Slots -> Notifs]
    BY <1>7, <2>3 DEF SendDescriptor
  <2> QED BY <1>7, <2>2, <2>4 DEF SendDescriptor
<1> QED BY <1>1, <1>2, <1>3, <1>4, <1>5, <1>6, <1>7 DEF NicStep

-----------------------------------------------------------------------------
(* Steps of a stream.                                                       *)

LEMMA AdvanceZero ==
  ASSUME NEW x \in Flits
  PROVE  Advance(x, 0) = x
<1>1. PipeSize \in Nat /\ PipeSize >= 1 /\ x \in 0 .. PipeSize - 1
  BY Sizes
<1>2. x = 0 * PipeSize + x /\ 0 \in Int
  BY <1>1
<1>3. (0 * PipeSize + x) % PipeSize = x
  BY <1>1, <1>2, ModUnique
<1> QED BY <1>1, <1>2, <1>3 DEF Advance

StreamTyped(V, n, h, d, t) ==
  /\ n \in Nat /\ V \in [1 .. n -> Views]
  /\ h \in [Pipes -> Flits] /\ d \in [Pipes -> Flits] /\ t \in [Pipes -> Flits]

\* An entry e that may join the stream, and the tails u that come of it.
Joins(e, h, d, t, u) ==
  /\ PipeDist(h[e.q], d[e.q]) <= PipeDist(h[e.q], t[e.q])
  /\ e.len > 0 => e.live
  /\ e.live => e.tail = t[e.q]
  /\ PipeDist(h[e.q], t[e.q]) + e.len <= PipeSize - 1
  /\ u[e.q] = Advance(t[e.q], e.len)
  /\ \A r \in Pipes : r # e.q => u[r] = t[r]

\* The packet queue manager adds an entry: a packet that fits, a request, or
\* something that was dropped.
LEMMA StreamAppend ==
  ASSUME NEW n, NEW V, NEW W, NEW h, NEW d, NEW t, NEW u, NEW e,
         StreamTyped(V, n, h, d, t), StreamTyped(W, n + 1, h, d, u),
         Stream(V, n, h, d, t), Joins(e, h, d, t, u),
         \A i \in 1 .. n : W[i] = V[i], W[n + 1] = e
  PROVE  Stream(W, n + 1, h, d, u)
<1> USE DEF Joins
<1>a. /\ n \in Nat /\ V \in [1 .. n -> Views] /\ W \in [1 .. n + 1 -> Views]
      /\ h \in [Pipes -> Flits] /\ d \in [Pipes -> Flits]
      /\ t \in [Pipes -> Flits] /\ u \in [Pipes -> Flits]
  BY DEF StreamTyped
<1>b. e \in Views
  BY <1>a
<1> USE <1>a, <1>b
<1>0. MaxPkt \in Nat /\ e.q \in Pipes /\ e.tail \in Flits /\ e.len \in Nat
  BY Sizes DEF Views
<1>1. \A i \in 1 .. n : V[i].q \in Pipes /\ V[i].tail \in Flits /\ V[i].len \in Nat
  BY <1>0 DEF Views
<1>2. \A q \in Pipes, x \in Flits : PipeDist(h[q], x) \in Nat
  BY PipeDistType
<1>3. PipeDist(h[e.q], u[e.q]) = PipeDist(h[e.q], t[e.q]) + e.len
  <2>1. h[e.q] \in Flits /\ t[e.q] \in Flits /\ e.len \in Nat
    BY <1>0
  <2>2. PipeDist(h[e.q], Advance(t[e.q], e.len)) = PipeDist(h[e.q], t[e.q]) + e.len
    BY <2>1, PipeMove
  <2> QED BY <2>2
<1>4. \A q \in Pipes : PipeDist(h[q], t[q]) <= PipeDist(h[q], u[q])
  <2> TAKE q \in Pipes
  <2>1. PipeDist(h[q], t[q]) \in Nat
    BY <1>2
  <2>2. CASE q = e.q
    BY <1>0, <1>3, <2>1, <2>2
  <2>3. CASE q # e.q
    BY <2>1, <2>3
  <2> QED BY <2>2, <2>3
<1>5. \A i \in 1 .. n + 1 : i \in 1 .. n \/ i = n + 1
  OBVIOUS
<1>6. Ordered(W, n + 1, h, d, u)
  <2>1. ASSUME NEW i \in 1 .. n + 1, W[i].live
        PROVE  /\ PipeDist(h[W[i].q], d[W[i].q]) <= PipeDist(h[W[i].q], W[i].tail)
               /\ PipeDist(h[W[i].q], W[i].tail) + W[i].len <= PipeDist(h[W[i].q], u[W[i].q])
    <3>1. CASE i \in 1 .. n
      <4>1. /\ PipeDist(h[V[i].q], d[V[i].q]) <= PipeDist(h[V[i].q], V[i].tail)
            /\ PipeDist(h[V[i].q], V[i].tail) + V[i].len <= PipeDist(h[V[i].q], t[V[i].q])
        BY <2>1, <3>1 DEF Stream, Ordered
      <4>2. /\ V[i].q \in Pipes /\ V[i].tail \in Flits /\ V[i].len \in Nat
            /\ t[V[i].q] \in Flits /\ u[V[i].q] \in Flits
        BY <1>1, <3>1
      <4>3. /\ PipeDist(h[V[i].q], V[i].tail) \in Nat
            /\ PipeDist(h[V[i].q], t[V[i].q]) \in Nat
            /\ PipeDist(h[V[i].q], u[V[i].q]) \in Nat
            /\ PipeDist(h[V[i].q], t[V[i].q]) <= PipeDist(h[V[i].q], u[V[i].q])
        BY <1>2, <1>4, <4>2
      <4>4. PipeDist(h[V[i].q], V[i].tail) + V[i].len <= PipeDist(h[V[i].q], u[V[i].q])
        BY <4>1, <4>2, <4>3
      <4> QED BY <3>1, <4>1, <4>4
    <3>2. CASE i = n + 1
      BY <1>0, <1>2, <1>3, <2>1, <3>2
    <3> QED BY <1>5, <3>1, <3>2
  <2>2. ASSUME NEW i \in 1 .. n + 1, NEW j \in 1 .. n + 1,
               i < j, W[i].live, W[j].live, W[i].q = W[j].q
        PROVE  PipeDist(h[W[j].q], W[i].tail) + W[i].len <= PipeDist(h[W[j].q], W[j].tail)
    <3>0. i \in 1 .. n
      BY <2>2
    <3>1. CASE j \in 1 .. n
      BY <2>2, <3>0, <3>1 DEF Stream, Ordered
    <3>2. CASE j = n + 1
      <4>1. PipeDist(h[V[i].q], V[i].tail) + V[i].len <= PipeDist(h[V[i].q], t[V[i].q])
        BY <2>2, <3>0 DEF Stream, Ordered
      <4> QED BY <2>2, <3>0, <3>2, <4>1
    <3> QED BY <1>5, <3>1, <3>2
  <2> QED BY <2>1, <2>2 DEF Ordered
<1>7. Gapless(W, n + 1, d, u)
  <2>1. ASSUME NEW q \in Pipes, NEW x \in Flits, NEW k \in 0 .. n, Reached(V, d, q, x, k)
        PROVE  Reached(W, d, q, x, k)
    <3>1. \A i \in 1 .. k : i \in 1 .. n /\ W[i] = V[i]
      OBVIOUS
    <3> QED BY <2>1, <3>1 DEF Reached
  <2>2. ASSUME NEW q \in Pipes, NEW x \in Flits, Reached(W, d, q, x, n)
        PROVE  Reached(W, d, q, x, n + 1)
    <3>1. \A i \in 1 .. n : i \in 1 .. n + 1
      OBVIOUS
    <3> QED BY <2>2, <3>1 DEF Reached
  <2>3. \A q \in Pipes : Reached(V, d, q, t[q], n)
    BY DEF Stream, Gapless
  <2>4. n \in 0 .. n
    OBVIOUS
  <2>5. ASSUME NEW j \in 1 .. n + 1, W[j].live
        PROVE  Reached(W, d, W[j].q, W[j].tail, j - 1)
    <3>1. CASE j \in 1 .. n
      <4>1. Reached(V, d, V[j].q, V[j].tail, j - 1)
        BY <2>5, <3>1 DEF Stream, Gapless
      <4>2. j - 1 \in 0 .. n
        OBVIOUS
      <4> QED BY <1>1, <2>1, <3>1, <4>1, <4>2
    <3>2. CASE j = n + 1
      <4>1. Reached(W, d, e.q, t[e.q], n)
        BY <1>0, <2>1, <2>3, <2>4
      <4>2. j - 1 = n
        BY <3>2
      <4> QED BY <2>5, <3>2, <4>1, <4>2
    <3> QED BY <1>5, <3>1, <3>2
  <2>6. ASSUME NEW q \in Pipes
        PROVE  Reached(W, d, q, u[q], n + 1)
    <3>1. CASE e.len > 0 /\ q = e.q
      <4>1. n + 1 \in 1 .. n + 1
        OBVIOUS
      <4> QED BY <3>1, <4>1 DEF Reached
    <3>2. CASE ~(e.len > 0 /\ q = e.q)
      <4>1. u[q] = t[q]
        <5>1. CASE q = e.q
          <6>1. e.len = 0
            BY <1>0, <3>2, <5>1
          <6> QED BY <1>0, <5>1, <6>1, AdvanceZero
        <5>2. CASE q # e.q
          BY <5>2
        <5> QED BY <5>1, <5>2
      <4> QED BY <2>1, <2>2, <2>3, <2>4, <4>1
    <3> QED BY <3>1, <3>2
  <2> QED BY <2>5, <2>6 DEF Gapless
<1>8. \A i \in 1 .. n + 1 : W[i].len > 0 => W[i].live
  BY <1>5 DEF Stream
<1> QED BY <1>6, <1>7, <1>8 DEF Stream

\* The data of the first entry are written to host memory.
LEMMA StreamWritten ==
  ASSUME NEW n, NEW V, NEW W, NEW h, NEW d, NEW t, NEW e,
         StreamTyped(V, n, h, d, t), StreamTyped(W, n, h, e, t),
         Stream(V, n, h, d, t), n >= 1, V[1].len > 0,
         ~W[1].live, W[1].len = 0, \A i \in 1 .. n : i # 1 => W[i] = V[i],
         e[V[1].q] = Advance(V[1].tail, V[1].len),
         \A r \in Pipes : r # V[1].q => e[r] = d[r]
  PROVE  /\ Stream(W, n, h, e, t)
         /\ V[1].tail = d[V[1].q]
         /\ \A q \in Pipes :
              /\ PipeDist(h[q], d[q]) <= PipeDist(h[q], e[q])
              /\ PipeDist(h[q], d[q]) <= PipeDist(h[q], t[q]) =>
                   PipeDist(h[q], e[q]) <= PipeDist(h[q], t[q])
<1>a. /\ n \in Nat /\ V \in [1 .. n -> Views] /\ W \in [1 .. n -> Views]
      /\ h \in [Pipes -> Flits] /\ d \in [Pipes -> Flits]
      /\ t \in [Pipes -> Flits] /\ e \in [Pipes -> Flits]
  BY DEF StreamTyped
<1> USE <1>a
<1>0. MaxPkt \in Nat /\ 1 \in 1 .. n
  BY Sizes
<1>1. \A i \in 1 .. n : V[i].q \in Pipes /\ V[i].tail \in Flits /\ V[i].len \in Nat
  BY <1>0 DEF Views
<1>2. \A q \in Pipes, x \in Flits : PipeDist(h[q], x) \in Nat
  BY PipeDistType
<1>3. V[1].live /\ V[1].tail = d[V[1].q]
  <2>1. V[1].live
    BY <1>0 DEF Stream
  <2>2. Reached(V, d, V[1].q, V[1].tail, 1 - 1)
    BY <1>0, <2>1 DEF Stream, Gapless
  <2>3. \A i \in 1 .. 1 - 1 : FALSE
    OBVIOUS
  <2> QED BY <2>1, <2>2, <2>3 DEF Reached
<1> DEFINE p == V[1].q
<1>4. p \in Pipes /\ V[1].tail \in Flits /\ V[1].len \in Nat /\ h[p] \in Flits
      /\ d[p] \in Flits /\ e[p] \in Flits /\ t[p] \in Flits
  BY <1>0, <1>1
<1>5. PipeDist(h[p], V[1].tail) + V[1].len <= PipeDist(h[p], t[p])
  BY <1>0, <1>3 DEF Stream, Ordered
<1>6. /\ PipeDist(h[p], t[p]) \in 0 .. PipeSize - 1 /\ PipeSize \in Nat
      /\ PipeDist(h[p], V[1].tail) \in Nat
  <2>1. PipeSize \in Nat
    BY Sizes
  <2> HIDE DEF p
  <2> QED BY <1>4, <2>1, PipeDistType
<1>7. PipeDist(h[p], e[p]) = PipeDist(h[p], V[1].tail) + V[1].len
  <2>1. PipeDist(h[p], V[1].tail) + V[1].len <= PipeSize - 1
    BY <1>4, <1>5, <1>6
  <2>2. PipeDist(h[p], Advance(V[1].tail, V[1].len)) = PipeDist(h[p], V[1].tail) + V[1].len
    BY <1>4, <2>1, PipeMove
  <2> QED BY <2>2
<1>8. \A q \in Pipes :
              /\ PipeDist(h[q], d[q]) <= PipeDist(h[q], e[q])
              /\ PipeDist(h[q], d[q]) <= PipeDist(h[q], t[q]) =>
                   PipeDist(h[q], e[q]) <= PipeDist(h[q], t[q])
  <2> TAKE q \in Pipes
  <2>1. CASE q = p
    BY <1>3, <1>4, <1>5, <1>6, <1>7, <2>1
  <2>2. CASE q # p
    <3>1. e[q] = d[q] /\ PipeDist(h[q], d[q]) \in Nat
      BY <1>2, <2>2
    <3> QED BY <3>1
  <2> QED BY <2>1, <2>2
<1>9. ASSUME NEW i \in 1 .. n, W[i].live
      PROVE  /\ i # 1 /\ W[i] = V[i] /\ V[i].live
             /\ V[i].q = p => PipeDist(h[p], e[p]) <= PipeDist(h[p], V[i].tail)
  <2>1. i # 1 /\ W[i] = V[i] /\ V[i].live
    BY <1>9
  <2>2. ASSUME V[i].q = p
        PROVE  PipeDist(h[V[i].q], V[1].tail) + V[1].len <= PipeDist(h[V[i].q], V[i].tail)
    <3>1. 1 \in 1 .. n /\ 1 < i /\ V[1].q = V[i].q
      BY <1>0, <2>1, <2>2
    <3> QED BY <1>3, <2>1, <3>1 DEF Stream, Ordered
  <2> QED BY <1>7, <2>1, <2>2
<1>10. Ordered(W, n, h, e, t)
  <2>1. ASSUME NEW i \in 1 .. n, W[i].live
        PROVE  /\ PipeDist(h[W[i].q], e[W[i].q]) <= PipeDist(h[W[i].q], W[i].tail)
               /\ PipeDist(h[W[i].q], W[i].tail) + W[i].len <= PipeDist(h[W[i].q], t[W[i].q])
    <3>1. W[i] = V[i] /\ V[i].live /\ V[i].q \in Pipes
      BY <1>1, <1>9, <2>1
    <3>2. /\ PipeDist(h[V[i].q], d[V[i].q]) <= PipeDist(h[V[i].q], V[i].tail)
          /\ PipeDist(h[V[i].q], V[i].tail) + V[i].len <= PipeDist(h[V[i].q], t[V[i].q])
      BY <3>1 DEF Stream, Ordered
    <3>3. CASE V[i].q = p
      BY <1>9, <2>1, <3>1, <3>2, <3>3
    <3>4. CASE V[i].q # p
      BY <3>1, <3>2, <3>4
    <3> QED BY <3>3, <3>4
  <2>2. ASSUME NEW i \in 1 .. n, NEW j \in 1 .. n,
               i < j, W[i].live, W[j].live, W[i].q = W[j].q
        PROVE  PipeDist(h[W[j].q], W[i].tail) + W[i].len <= PipeDist(h[W[j].q], W[j].tail)
    <3>1. W[i] = V[i] /\ W[j] = V[j] /\ V[i].live /\ V[j].live
      BY <1>9, <2>2
    <3> QED BY <2>2, <3>1 DEF Stream, Ordered
  <2> QED BY <2>1, <2>2 DEF Ordered
<1>11. ASSUME NEW q \in Pipes, NEW x \in Flits, NEW k \in 0 .. n, Reached(V, d, q, x, k),
              q = p => PipeDist(h[p], e[p]) <= PipeDist(h[p], x)
       PROVE  Reached(W, e, q, x, k)
  <2>1. CASE x = d[q]
    <3>1. q # p
      <4>1. PipeDist(h[p], d[p]) < PipeDist(h[p], e[p])
        BY <1>3, <1>4, <1>6, <1>7
      <4>2. PipeDist(h[p], d[p]) \in Nat /\ PipeDist(h[p], e[p]) \in Nat
        BY <1>2, <1>4
      <4> HIDE DEF p
      <4> QED BY <1>11, <2>1, <4>1, <4>2
    <3>2. e[q] = d[q]
      BY <3>1
    <3> QED BY <2>1, <3>2 DEF Reached
  <2>2. CASE x # d[q]
    <3>1. PICK i \in 1 .. k : V[i].len > 0 /\ V[i].q = q /\ Advance(V[i].tail, V[i].len) = x
      BY <1>11, <2>2 DEF Reached
    <3>2. CASE i = 1
      BY <3>1, <3>2 DEF Reached
    <3>3. CASE i # 1
      <4>1. W[i] = V[i]
        BY <3>3
      <4> QED BY <3>1, <4>1 DEF Reached
    <3> QED BY <3>2, <3>3
  <2> QED BY <2>1, <2>2
<1>12. Gapless(W, n, e, t)
  <2>1. ASSUME NEW j \in 1 .. n, W[j].live
        PROVE  Reached(W, e, W[j].q, W[j].tail, j - 1)
    <3>1. W[j] = V[j] /\ V[j].live /\ V[j].q \in Pipes /\ V[j].tail \in Flits
          /\ (V[j].q = p => PipeDist(h[p], e[p]) <= PipeDist(h[p], V[j].tail))
      BY <1>1, <1>9, <2>1
    <3>2. Reached(V, d, V[j].q, V[j].tail, j - 1)
      BY <3>1 DEF Stream, Gapless
    <3>3. j - 1 \in 0 .. n
      OBVIOUS
    <3> HIDE DEF p
    <3> QED BY <1>11, <3>1, <3>2, <3>3
  <2>2. ASSUME NEW q \in Pipes
        PROVE  Reached(W, e, q, t[q], n)
    <3>1. Reached(V, d, q, t[q], n) /\ t[q] \in Flits
      BY DEF Stream, Gapless
    <3>2. n \in 0 .. n
      OBVIOUS
    <3>3. PipeDist(h[p], e[p]) <= PipeDist(h[p], t[p])
      BY <1>5, <1>7
    <3> HIDE DEF p
    <3> QED BY <1>11, <3>1, <3>2, <3>3
  <2> QED BY <2>1, <2>2 DEF Gapless
<1>13. \A i \in 1 .. n : W[i].len > 0 => W[i].live
  BY DEF Stream
<1> QED BY <1>3, <1>8, <1>10, <1>12, <1>13 DEF Stream

\* The first entry, which holds no data any more, leaves.
LEMMA StreamPop ==
  ASSUME NEW n \in Nat, n >= 1, NEW V \in [1 .. n -> Views], NEW W \in [1 .. n - 1 -> Views],
         NEW h \in [Pipes -> Flits], NEW d \in [Pipes -> Flits], NEW t \in [Pipes -> Flits],
         Stream(V, n, h, d, t), V[1].len = 0, \A i \in 1 .. n - 1 : W[i] = V[i + 1]
  PROVE  Stream(W, n - 1, h, d, t)
<1>0. \A i \in 1 .. n - 1 : i + 1 \in 1 .. n
  OBVIOUS
<1>1. Ordered(W, n - 1, h, d, t)
  <2>1. ASSUME NEW i \in 1 .. n - 1, W[i].live
        PROVE  /\ PipeDist(h[W[i].q], d[W[i].q]) <= PipeDist(h[W[i].q], W[i].tail)
               /\ PipeDist(h[W[i].q], W[i].tail) + W[i].len <= PipeDist(h[W[i].q], t[W[i].q])
    <3>1. PICK k \in 1 .. n : k = i + 1
      BY <1>0
    <3> QED BY <2>1, <3>1 DEF Stream, Ordered
  <2>2. ASSUME NEW i \in 1 .. n - 1, NEW j \in 1 .. n - 1,
               i < j, W[i].live, W[j].live, W[i].q = W[j].q
        PROVE  PipeDist(h[W[j].q], W[i].tail) + W[i].len <= PipeDist(h[W[j].q], W[j].tail)
    <3>1. PICK k \in 1 .. n : k = i + 1
      BY <1>0
    <3>2. PICK l \in 1 .. n : l = j + 1
      BY <1>0
    <3>3. W[i] = V[k] /\ W[j] = V[l] /\ k < l
      BY <2>2, <3>1, <3>2
    <3> QED BY <2>2, <3>3 DEF Stream, Ordered
  <2> QED BY <2>1, <2>2 DEF Ordered
<1>2. ASSUME NEW q \in Pipes, NEW x \in Flits, NEW k \in 1 .. n, Reached(V, d, q, x, k)
      PROVE  Reached(W, d, q, x, k - 1)
  <2>1. CASE x = d[q]
    BY <2>1 DEF Reached
  <2>2. CASE x # d[q]
    <3>1. PICK i \in 1 .. k : V[i].len > 0 /\ V[i].q = q /\ Advance(V[i].tail, V[i].len) = x
      BY <1>2, <2>2 DEF Reached
    <3>2. i # 1
      BY <3>1
    <3>3. PICK j \in 1 .. k - 1 : i = j + 1
      BY <3>2
    <3>4. W[j] = V[i]
      BY <3>3
    <3> QED BY <3>1, <3>4 DEF Reached
  <2> QED BY <2>1, <2>2
<1>3. \A i \in 1 .. n : V[i].q \in Pipes /\ V[i].tail \in Flits
  BY DEF Views
<1>4. ASSUME NEW j \in 1 .. n - 1, W[j].live
      PROVE  Reached(W, d, W[j].q, W[j].tail, j - 1)
  <2>1. PICK k \in 1 .. n : k = j + 1
    BY <1>0
  <2>2. W[j] = V[k] /\ V[k].q \in Pipes /\ V[k].tail \in Flits
    BY <1>3, <2>1
  <2>3. Reached(V, d, V[k].q, V[k].tail, k - 1)
    BY <1>4, <2>2 DEF Stream, Gapless
  <2>4. k - 1 = j /\ j \in 1 .. n
    BY <2>1
  <2>5. Reached(W, d, V[k].q, V[k].tail, j - 1)
    BY <1>2, <2>2, <2>3, <2>4
  <2> QED BY <2>2, <2>5
<1>5. ASSUME NEW q \in Pipes
      PROVE  Reached(W, d, q, t[q], n - 1)
  <2>1. Reached(V, d, q, t[q], n) /\ n \in 1 .. n /\ t[q] \in Flits
    BY DEF Stream, Gapless
  <2> QED BY <1>2, <2>1
<1>6. \A i \in 1 .. n - 1 : W[i].len > 0 => W[i].live
  BY <1>0 DEF Stream
<1> QED BY <1>1, <1>4, <1>5, <1>6 DEF Stream, Gapless

\* The program frees flits of its pipes: k of each.
LEMMA StreamHeads ==
  ASSUME NEW n \in Nat, NEW V \in [1 .. n -> Views],
         NEW h \in [Pipes -> Flits], NEW g \in [Pipes -> Flits],
         NEW d \in [Pipes -> Flits], NEW t \in [Pipes -> Flits],
         NEW k \in [Pipes -> 0 .. PipeSize - 1],
         \A q \in Pipes : g[q] = Advance(h[q], k[q]),
         \A q \in Pipes : k[q] <= PipeDist(h[q], d[q]),
         \A q \in Pipes : PipeDist(h[q], d[q]) <= PipeDist(h[q], t[q]),
         Stream(V, n, h, d, t)
  PROVE  Stream(V, n, g, d, t)
<1>0. MaxPkt \in Nat
  BY Sizes
<1>1. \A i \in 1 .. n : V[i].q \in Pipes /\ V[i].tail \in Flits /\ V[i].len \in Nat
  BY <1>0 DEF Views
<1>2. \A q \in Pipes, x \in Flits : PipeDist(h[q], x) \in Nat
  BY PipeDistType
<1>3. \A q \in Pipes, x \in Flits :
        k[q] <= PipeDist(h[q], x) => PipeDist(g[q], x) = PipeDist(h[q], x) - k[q]
  BY <1>2, PipeHeadMove
<1>4. \A q \in Pipes : k[q] \in Nat
  BY Sizes
<1>5. ASSUME NEW i \in 1 .. n, V[i].live
      PROVE  LET q == V[i].q
             IN  /\ k[q] <= PipeDist(h[q], V[i].tail) /\ k[q] <= PipeDist(h[q], t[q])
                 /\ q \in Pipes
                 /\ PipeDist(h[q], d[q]) <= PipeDist(h[q], V[i].tail)
                 /\ PipeDist(h[q], V[i].tail) + V[i].len <= PipeDist(h[q], t[q])
  <2>1. PICK q \in Pipes : q = V[i].q
    BY <1>1
  <2>2. /\ PipeDist(h[q], d[q]) <= PipeDist(h[q], V[i].tail)
        /\ PipeDist(h[q], V[i].tail) + V[i].len <= PipeDist(h[q], t[q])
    BY <1>5, <2>1 DEF Stream, Ordered
  <2>3. /\ PipeDist(h[q], d[q]) \in Nat /\ PipeDist(h[q], V[i].tail) \in Nat
        /\ PipeDist(h[q], t[q]) \in Nat /\ k[q] \in Nat
        /\ k[q] <= PipeDist(h[q], d[q]) /\ PipeDist(h[q], d[q]) <= PipeDist(h[q], t[q])
    BY <1>1, <1>2, <1>4
  <2>4. k[q] <= PipeDist(h[q], V[i].tail) /\ k[q] <= PipeDist(h[q], t[q])
    BY <2>2, <2>3
  <2> QED BY <2>1, <2>2, <2>4
<1>6. Ordered(V, n, g, d, t)
  <2>1. ASSUME NEW i \in 1 .. n, V[i].live
        PROVE  /\ PipeDist(g[V[i].q], d[V[i].q]) <= PipeDist(g[V[i].q], V[i].tail)
               /\ PipeDist(g[V[i].q], V[i].tail) + V[i].len <= PipeDist(g[V[i].q], t[V[i].q])
    <3>1. PICK q \in Pipes : q = V[i].q
      BY <1>1
    <3>2. /\ PipeDist(g[q], d[q]) = PipeDist(h[q], d[q]) - k[q]
          /\ PipeDist(g[q], V[i].tail) = PipeDist(h[q], V[i].tail) - k[q]
          /\ PipeDist(g[q], t[q]) = PipeDist(h[q], t[q]) - k[q]
      BY <1>1, <1>3, <1>5, <2>1, <3>1
    <3>3. /\ PipeDist(h[q], d[q]) \in Nat /\ PipeDist(h[q], V[i].tail) \in Nat
          /\ PipeDist(h[q], t[q]) \in Nat /\ k[q] \in Nat /\ V[i].len \in Nat
      BY <1>1, <1>2, <1>4
    <3>4. /\ PipeDist(h[q], d[q]) <= PipeDist(h[q], V[i].tail)
          /\ PipeDist(h[q], V[i].tail) + V[i].len <= PipeDist(h[q], t[q])
      BY <1>5, <2>1, <3>1
    <3>5. /\ PipeDist(g[q], d[q]) <= PipeDist(g[q], V[i].tail)
          /\ PipeDist(g[q], V[i].tail) + V[i].len <= PipeDist(g[q], t[q])
      BY <3>2, <3>3, <3>4
    <3> QED BY <3>1, <3>5
  <2>2. ASSUME NEW i \in 1 .. n, NEW j \in 1 .. n,
               i < j, V[i].live, V[j].live, V[i].q = V[j].q
        PROVE  PipeDist(g[V[j].q], V[i].tail) + V[i].len <= PipeDist(g[V[j].q], V[j].tail)
    <3>1. PICK q \in Pipes : q = V[j].q
      BY <1>1
    <3>2. /\ PipeDist(g[q], V[i].tail) = PipeDist(h[q], V[i].tail) - k[q]
          /\ PipeDist(g[q], V[j].tail) = PipeDist(h[q], V[j].tail) - k[q]
      BY <1>1, <1>3, <1>5, <2>2, <3>1
    <3>3. /\ PipeDist(h[q], V[i].tail) \in Nat /\ PipeDist(h[q], V[j].tail) \in Nat
          /\ k[q] \in Nat /\ V[i].len \in Nat
      BY <1>1, <1>2, <1>4
    <3>4. PipeDist(h[q], V[i].tail) + V[i].len <= PipeDist(h[q], V[j].tail)
      BY <2>2, <3>1 DEF Stream, Ordered
    <3>5. PipeDist(g[q], V[i].tail) + V[i].len <= PipeDist(g[q], V[j].tail)
      BY <3>2, <3>3, <3>4
    <3> QED BY <3>1, <3>5
  <2> QED BY <2>1, <2>2 DEF Ordered
<1> QED BY <1>6 DEF Stream

-----------------------------------------------------------------------------
(* Steps of the ring.                                                       *)

LEMMA MetaType ==
  ASSUME NEW m \in Metas
  PROVE  /\ m.q \in Pipes /\ m.tail \in Flits /\ m.size \in Nat /\ m.size <= MaxPkt
         /\ m.slot \in Slots /\ m.needs_dsc \in BOOLEAN /\ m.drop_data \in BOOLEAN
         /\ m.drop_meta \in BOOLEAN
<1>1. MaxPkt \in Nat
  BY Sizes
<1> QED BY <1>1 DEF Metas

RingTyped(D, n, h, b, w, t, U) ==
  /\ n \in Nat /\ D \in [1 .. n -> Metas]
  /\ h \in Slots /\ b \in Slots /\ w \in Slots /\ t \in Slots /\ U \in SUBSET Slots

\* A descriptor reserves the slot at the tail.
LEMMA RingReserve ==
  ASSUME NEW n \in Nat, NEW D \in [1 .. n -> Metas], NEW E \in [1 .. n + 1 -> Metas],
         NEW h \in Slots, NEW b \in Slots, NEW w \in Slots, NEW t \in Slots,
         NEW U \in SUBSET Slots, Ring(D, n, h, b, w, t, U),
         \A i \in 1 .. n : E[i] = D[i],
         E[n + 1].needs_dsc, E[n + 1].slot = t, RingFree(h, t, N) # 0
  PROVE  Ring(E, n + 1, h, b, w, (t + 1) % N, U)
<1> DEFINE u == (t + 1) % N
<1>1. N \in Nat /\ N >= 1 /\ h \in Int /\ t \in Int
  BY Sizes
<1>2. (h - t - 1) % N = N - 1 - ((t - h) % N)
  BY <1>1, DistFree
<1>3. RingDist(h, t) + 1 <= N - 1
  <2>1. RingDist(h, t) \in 0 .. N - 1
    BY RingDistType
  <2> QED BY <1>1, <1>2, <2>1 DEF RingFree, RingDist
<1>4. u \in Slots /\ RingDist(h, u) = RingDist(h, t) + 1
  BY <1>3, RingMove
<1>5. \A s \in Slots : /\ RingDist(h, s) \in Nat
                       /\ \A x \in Slots : RingDist(h, s) = RingDist(h, x) => s = x
  BY RingDistType
<1> HIDE DEF u
<1>6. \A i \in 1 .. n + 1 : i \in 1 .. n \/ i = n + 1
  OBVIOUS
<1>7. \A i \in 1 .. n : D[i].slot \in Slots
  BY MetaType
<1>8. RingDist(h, b) <= RingDist(h, w) /\ RingDist(h, w) <= RingDist(h, u)
  BY <1>4, <1>5 DEF Ring
<1>9. ASSUME NEW s \in Slots
      PROVE  (\E i \in 1 .. n + 1 : E[i].needs_dsc /\ E[i].slot = s)
               <=> RingDist(h, w) <= RingDist(h, s) /\ RingDist(h, s) < RingDist(h, u)
  <2>1. RingDist(h, s) < RingDist(h, u) <=> RingDist(h, s) < RingDist(h, t) \/ s = t
    BY <1>4, <1>5
  <2>2. (\E i \in 1 .. n : D[i].needs_dsc /\ D[i].slot = s)
               <=> RingDist(h, w) <= RingDist(h, s) /\ RingDist(h, s) < RingDist(h, t)
    BY DEF Ring
  <2>3. (\E i \in 1 .. n + 1 : E[i].needs_dsc /\ E[i].slot = s)
               <=> s = t \/ (\E i \in 1 .. n : D[i].needs_dsc /\ D[i].slot = s)
    <3>1. n + 1 \in 1 .. n + 1 /\ \A i \in 1 .. n : i \in 1 .. n + 1
      OBVIOUS
    <3> QED BY <1>6, <3>1
  <2>4. s = t => RingDist(h, w) <= RingDist(h, s)
    BY DEF Ring
  <2> QED BY <2>1, <2>2, <2>3, <2>4
<1>10. ASSUME NEW i \in 1 .. n + 1, NEW j \in 1 .. n + 1,
              i < j, E[i].needs_dsc, E[j].needs_dsc
       PROVE  RingDist(h, E[i].slot) < RingDist(h, E[j].slot)
  <2>1. i \in 1 .. n
    BY <1>10
  <2>2. CASE j \in 1 .. n
    BY <1>10, <2>1, <2>2 DEF Ring
  <2>3. CASE j = n + 1
    <3>1. D[i].slot \in Slots /\ (\E k \in 1 .. n : D[k].needs_dsc /\ D[k].slot = D[i].slot)
      BY <1>7, <1>10, <2>1
    <3>2. RingDist(h, D[i].slot) < RingDist(h, t)
      BY <3>1 DEF Ring
    <3> QED BY <2>1, <2>3, <3>2
  <2> QED BY <1>6, <2>2, <2>3
<1> QED BY <1>8, <1>9, <1>10 DEF Ring, u

\* An entry that reserves nothing joins the others.
LEMMA RingPass ==
  ASSUME NEW n \in Nat, NEW D \in [1 .. n -> Metas], NEW E \in [1 .. n + 1 -> Metas],
         NEW h \in Slots, NEW b \in Slots, NEW w \in Slots, NEW t \in Slots,
         NEW U \in SUBSET Slots, Ring(D, n, h, b, w, t, U),
         \A i \in 1 .. n : E[i] = D[i], ~E[n + 1].needs_dsc
  PROVE  Ring(E, n + 1, h, b, w, t, U)
<1>1. \A i \in 1 .. n + 1 : i \in 1 .. n \/ i = n + 1
  OBVIOUS
<1>2. \A i \in 1 .. n : i \in 1 .. n + 1
  OBVIOUS
<1>3. ASSUME NEW s \in Slots
      PROVE  (\E i \in 1 .. n + 1 : E[i].needs_dsc /\ E[i].slot = s)
               <=> (\E i \in 1 .. n : D[i].needs_dsc /\ D[i].slot = s)
  BY <1>1, <1>2
<1>4. ASSUME NEW i \in 1 .. n + 1, NEW j \in 1 .. n + 1,
             i < j, E[i].needs_dsc, E[j].needs_dsc
      PROVE  RingDist(h, E[i].slot) < RingDist(h, E[j].slot)
  <2>1. i \in 1 .. n /\ j \in 1 .. n
    BY <1>1, <1>4
  <2> QED BY <1>4, <2>1 DEF Ring
<1> QED BY <1>3, <1>4 DEF Ring

\* An entry without a slot leaves.
LEMMA RingDrop ==
  ASSUME NEW n \in Nat, n >= 1, NEW D \in [1 .. n -> Metas], NEW E \in [1 .. n - 1 -> Metas],
         NEW h \in Slots, NEW b \in Slots, NEW w \in Slots, NEW t \in Slots,
         NEW U \in SUBSET Slots, Ring(D, n, h, b, w, t, U),
         \A i \in 1 .. n - 1 : E[i] = D[i + 1], ~D[1].needs_dsc
  PROVE  Ring(E, n - 1, h, b, w, t, U)
<1>1. \A i \in 1 .. n - 1 : i + 1 \in 1 .. n
  OBVIOUS
<1>2. \A i \in 1 .. n : i = 1 \/ \E j \in 1 .. n - 1 : i = j + 1
  <2> TAKE i \in 1 .. n
  <2>1. i # 1 => i - 1 \in 1 .. n - 1 /\ i = (i - 1) + 1
    OBVIOUS
  <2> QED BY <2>1
<1>3. ASSUME NEW s \in Slots
      PROVE  (\E i \in 1 .. n - 1 : E[i].needs_dsc /\ E[i].slot = s)
               <=> (\E i \in 1 .. n : D[i].needs_dsc /\ D[i].slot = s)
  <2>1. ASSUME NEW i \in 1 .. n - 1, E[i].needs_dsc, E[i].slot = s
        PROVE  \E k \in 1 .. n : D[k].needs_dsc /\ D[k].slot = s
    <3>1. PICK k \in 1 .. n : k = i + 1
      BY <1>1
    <3> QED BY <2>1, <3>1
  <2>2. ASSUME NEW k \in 1 .. n, D[k].needs_dsc, D[k].slot = s
        PROVE  \E i \in 1 .. n - 1 : E[i].needs_dsc /\ E[i].slot = s
    BY <1>2, <2>2
  <2> QED BY <2>1, <2>2
<1>4. ASSUME NEW i \in 1 .. n - 1, NEW j \in 1 .. n - 1,
             i < j, E[i].needs_dsc, E[j].needs_dsc
      PROVE  RingDist(h, E[i].slot) < RingDist(h, E[j].slot)
  <2>1. PICK k \in 1 .. n : k = i + 1
    BY <1>1
  <2>2. PICK l \in 1 .. n : l = j + 1
    BY <1>1
  <2>3. E[i] = D[k] /\ E[j] = D[l] /\ k < l
    BY <1>4, <2>1, <2>2
  <2> QED BY <1>4, <2>3 DEF Ring
<1> QED BY <1>3, <1>4 DEF Ring

\* The first entry's descriptor is written to the slot it reserved, the first
\* one of the reserved ones.
LEMMA RingWrite ==
  ASSUME NEW n, NEW D, NEW E \in [1 .. n - 1 -> Metas],
         NEW h, NEW b, NEW w, NEW t, NEW U,
         RingTyped(D, n, h, b, w, t, U), Ring(D, n, h, b, w, t, U), n >= 1,
         \A i \in 1 .. n - 1 : E[i] = D[i + 1], D[1].needs_dsc
  PROVE  /\ D[1].slot = w /\ w \notin U
         /\ (w + 1) % N \in Slots
         /\ Ring(E, n - 1, h, b, (w + 1) % N, t, U \cup {w})
         /\ \A s \in U : RingDist(h, s) < RingDist(h, w)
<1>a. /\ n \in Nat /\ D \in [1 .. n -> Metas] /\ h \in Slots /\ b \in Slots
      /\ w \in Slots /\ t \in Slots /\ U \in SUBSET Slots
  BY DEF RingTyped
<1> USE <1>a
<1> DEFINE u == (w + 1) % N
<1>1. \A i \in 1 .. n - 1 : i + 1 \in 1 .. n
  OBVIOUS
<1>2. \A i \in 1 .. n : i = 1 \/ \E j \in 1 .. n - 1 : i = j + 1
  <2> TAKE i \in 1 .. n
  <2>1. i # 1 => i - 1 \in 1 .. n - 1 /\ i = (i - 1) + 1
    OBVIOUS
  <2> QED BY <2>1
<1>3. \A s \in Slots : /\ RingDist(h, s) \in Nat /\ RingDist(h, s) <= N - 1
                       /\ \A x \in Slots : RingDist(h, s) = RingDist(h, x) => s = x
  BY RingDistType, Sizes
<1>4. 1 \in 1 .. n /\ \A i \in 1 .. n : D[i].slot \in Slots
  BY MetaType
<1>5. \A i \in 1 .. n : D[i].needs_dsc =>
        /\ RingDist(h, w) <= RingDist(h, D[i].slot)
        /\ RingDist(h, D[i].slot) < RingDist(h, t)
        /\ i # 1 => RingDist(h, D[1].slot) < RingDist(h, D[i].slot)
  <2> TAKE i \in 1 .. n
  <2> HAVE D[i].needs_dsc
  <2>1. D[i].slot \in Slots /\ (\E k \in 1 .. n : D[k].needs_dsc /\ D[k].slot = D[i].slot)
    BY <1>4
  <2>2. RingDist(h, w) <= RingDist(h, D[i].slot) /\ RingDist(h, D[i].slot) < RingDist(h, t)
    BY <2>1 DEF Ring
  <2>3. i # 1 => 1 < i
    OBVIOUS
  <2>4. i # 1 => RingDist(h, D[1].slot) < RingDist(h, D[i].slot)
    BY <1>4, <2>3 DEF Ring
  <2> QED BY <2>2, <2>4
<1>6. RingDist(h, w) < RingDist(h, t)
  BY <1>3, <1>4, <1>5
<1>7. D[1].slot = w
  <2>1. PICK i \in 1 .. n : D[i].needs_dsc /\ D[i].slot = w
    BY <1>3, <1>6 DEF Ring
  <2>2. CASE i = 1
    BY <2>1, <2>2
  <2>3. CASE i # 1
    BY <1>3, <1>4, <1>5, <2>1, <2>3
  <2> QED BY <2>2, <2>3
<1>8. u \in Slots /\ RingDist(h, u) = RingDist(h, w) + 1
  <2>1. RingDist(h, w) + 1 <= N - 1
    <3>1. N \in Nat
      BY Sizes
    <3> QED BY <1>3, <1>6, <3>1
  <2> QED BY <2>1, RingMove
<1> HIDE DEF u
<1>9. RingDist(h, b) <= RingDist(h, u) /\ RingDist(h, u) <= RingDist(h, t)
  BY <1>3, <1>6, <1>8 DEF Ring
<1>10. ASSUME NEW s \in Slots
       PROVE  s \in U \cup {w} <=> RingDist(h, b) <= RingDist(h, s) /\ RingDist(h, s) < RingDist(h, u)
  <2>1. RingDist(h, s) < RingDist(h, u) <=> RingDist(h, s) < RingDist(h, w) \/ s = w
    BY <1>3, <1>8
  <2>2. s = w => RingDist(h, b) <= RingDist(h, s)
    BY DEF Ring
  <2>3. s \in U <=> RingDist(h, b) <= RingDist(h, s) /\ RingDist(h, s) < RingDist(h, w)
    BY DEF Ring
  <2> QED BY <2>1, <2>2, <2>3
<1>11. ASSUME NEW s \in Slots
       PROVE  (\E i \in 1 .. n - 1 : E[i].needs_dsc /\ E[i].slot = s)
                <=> RingDist(h, u) <= RingDist(h, s) /\ RingDist(h, s) < RingDist(h, t)
  <2>1. RingDist(h, u) <= RingDist(h, s) <=> RingDist(h, w) <= RingDist(h, s) /\ s # w
    BY <1>3, <1>8
  <2>2. (\E i \in 1 .. n : D[i].needs_dsc /\ D[i].slot = s)
               <=> RingDist(h, w) <= RingDist(h, s) /\ RingDist(h, s) < RingDist(h, t)
    BY DEF Ring
  <2>3. ASSUME NEW i \in 1 .. n - 1, E[i].needs_dsc, E[i].slot = s
        PROVE  s # w /\ \E k \in 1 .. n : D[k].needs_dsc /\ D[k].slot = s
    <3>1. PICK k \in 1 .. n : k = i + 1
      BY <1>1
    <3>2. D[k].needs_dsc /\ D[k].slot = s /\ k # 1
      BY <2>3, <3>1
    <3> QED BY <1>3, <1>4, <1>5, <1>7, <3>2
  <2>4. ASSUME NEW k \in 1 .. n, D[k].needs_dsc, D[k].slot = s, s # w
        PROVE  \E i \in 1 .. n - 1 : E[i].needs_dsc /\ E[i].slot = s
    BY <1>2, <1>7, <2>4
  <2> QED BY <2>1, <2>2, <2>3, <2>4
<1>12. ASSUME NEW i \in 1 .. n - 1, NEW j \in 1 .. n - 1,
             i < j, E[i].needs_dsc, E[j].needs_dsc
       PROVE  RingDist(h, E[i].slot) < RingDist(h, E[j].slot)
  <2>1. PICK k \in 1 .. n : k = i + 1
    BY <1>1
  <2>2. PICK l \in 1 .. n : l = j + 1
    BY <1>1
  <2>3. E[i] = D[k] /\ E[j] = D[l] /\ k < l
    BY <1>12, <2>1, <2>2
  <2> QED BY <1>12, <2>3 DEF Ring
<1>13. Ring(E, n - 1, h, b, u, t, U \cup {w})
  BY <1>9, <1>10, <1>11, <1>12 DEF Ring
<1>14. w \notin U /\ \A s \in U : RingDist(h, s) < RingDist(h, w)
  BY <1>3 DEF Ring
<1> QED BY <1>7, <1>8, <1>13, <1>14 DEF u

\* Software reads the next notification.
LEMMA RingRead ==
  ASSUME NEW n \in Nat, NEW D \in [1 .. n -> Metas],
         NEW h \in Slots, NEW b \in Slots, NEW w \in Slots, NEW t \in Slots,
         NEW U \in SUBSET Slots, Ring(D, n, h, b, w, t, U), b \in U
  PROVE  /\ (b + 1) % N \in Slots
         /\ Ring(D, n, h, (b + 1) % N, w, t, U \ {b})
         /\ \A s \in U : s # b => RingDist(h, b) < RingDist(h, s)
<1> DEFINE u == (b + 1) % N
<1>1. \A s \in Slots : /\ RingDist(h, s) \in Nat /\ RingDist(h, s) <= N - 1
                       /\ \A x \in Slots : RingDist(h, s) = RingDist(h, x) => s = x
  BY RingDistType, Sizes
<1>2. RingDist(h, b) < RingDist(h, w)
  BY DEF Ring
<1>3. u \in Slots /\ RingDist(h, u) = RingDist(h, b) + 1
  <2>1. RingDist(h, b) + 1 <= N - 1
    <3>1. N \in Nat
      BY Sizes
    <3> QED BY <1>1, <1>2, <3>1
  <2> QED BY <2>1, RingMove
<1> HIDE DEF u
<1>4. RingDist(h, u) <= RingDist(h, w)
  BY <1>1, <1>2, <1>3
<1>5. ASSUME NEW s \in Slots
      PROVE  s \in U \ {b} <=> RingDist(h, u) <= RingDist(h, s) /\ RingDist(h, s) < RingDist(h, w)
  <2>1. RingDist(h, u) <= RingDist(h, s) <=> RingDist(h, b) <= RingDist(h, s) /\ s # b
    BY <1>1, <1>3
  <2>2. s \in U <=> RingDist(h, b) <= RingDist(h, s) /\ RingDist(h, s) < RingDist(h, w)
    BY DEF Ring
  <2> QED BY <2>1, <2>2
<1>6. Ring(D, n, h, u, w, t, U \ {b})
  BY <1>4, <1>5 DEF Ring
<1>7. \A s \in U : s # b => RingDist(h, b) < RingDist(h, s)
  <2> TAKE s \in U
  <2>1. s \in Slots /\ RingDist(h, b) <= RingDist(h, s)
    BY DEF Ring
  <2> QED BY <1>1, <2>1
<1> QED BY <1>3, <1>6, <1>7 DEF u

\* Software gives the slots it read back.
LEMMA RingReturn ==
  ASSUME NEW n \in Nat, NEW D \in [1 .. n -> Metas],
         NEW h \in Slots, NEW b \in Slots, NEW w \in Slots, NEW t \in Slots,
         NEW U \in SUBSET Slots, Ring(D, n, h, b, w, t, U)
  PROVE  /\ Ring(D, n, b, b, w, t, U)
         /\ \A s \in U : RingDist(b, s) = RingDist(h, s) - RingDist(h, b)
<1>0. N \in Nat
  BY Sizes
<1>1. \A s \in Slots : RingDist(h, s) \in 0 .. N - 1 /\ RingDist(h, s) \in Nat
  BY RingDistType
<1>2. \A s \in Slots : RingDist(b, s) = IF RingDist(h, s) >= RingDist(h, b)
                                        THEN RingDist(h, s) - RingDist(h, b)
                                        ELSE RingDist(h, s) - RingDist(h, b) + N
  BY RingHeadMove
<1>3. \A s \in Slots : RingDist(h, s) >= RingDist(h, b) =>
        RingDist(b, s) = RingDist(h, s) - RingDist(h, b)
  BY <1>2
<1>4. /\ RingDist(h, b) <= RingDist(h, w) /\ RingDist(h, w) <= RingDist(h, t)
  BY DEF Ring
<1>5. /\ RingDist(b, b) = 0 /\ RingDist(b, w) = RingDist(h, w) - RingDist(h, b)
      /\ RingDist(b, t) = RingDist(h, t) - RingDist(h, b)
      /\ RingDist(h, b) \in Nat /\ RingDist(h, w) \in Nat /\ RingDist(h, t) \in Nat
  BY <1>1, <1>3, <1>4
<1>6. RingDist(b, b) <= RingDist(b, w) /\ RingDist(b, w) <= RingDist(b, t)
  BY <1>4, <1>5
<1>7. ASSUME NEW s \in Slots
      PROVE  /\ RingDist(h, b) <= RingDist(h, s) /\ RingDist(h, s) < RingDist(h, w) <=>
                RingDist(b, b) <= RingDist(b, s) /\ RingDist(b, s) < RingDist(b, w)
             /\ RingDist(h, w) <= RingDist(h, s) /\ RingDist(h, s) < RingDist(h, t) <=>
                RingDist(b, w) <= RingDist(b, s) /\ RingDist(b, s) < RingDist(b, t)
  <2>1. RingDist(h, s) \in Nat /\ RingDist(h, s) <= N - 1
        /\ RingDist(h, b) <= N - 1 /\ RingDist(h, w) <= N - 1 /\ RingDist(h, t) <= N - 1
    BY <1>0, <1>1
  <2>2. CASE RingDist(h, s) >= RingDist(h, b)
    <3>1. RingDist(b, s) = RingDist(h, s) - RingDist(h, b)
      BY <1>3, <2>2
    <3> QED BY <1>4, <1>5, <2>1, <2>2, <3>1
  <2>3. CASE ~(RingDist(h, s) >= RingDist(h, b))
    <3>1. RingDist(b, s) = RingDist(h, s) - RingDist(h, b) + N
      BY <1>2, <2>3
    <3> QED BY <1>0, <1>4, <1>5, <2>1, <2>3, <3>1
  <2> QED BY <2>2, <2>3
<1>8. ASSUME NEW i \in 1 .. n, D[i].needs_dsc
      PROVE  /\ D[i].slot \in Slots
             /\ RingDist(b, D[i].slot) = RingDist(h, D[i].slot) - RingDist(h, b)
             /\ RingDist(h, D[i].slot) \in Nat
  <2>1. D[i].slot \in Slots
    BY MetaType
  <2>2. RingDist(h, w) <= RingDist(h, D[i].slot)
    BY <1>8, <2>1 DEF Ring
  <2>3. RingDist(h, D[i].slot) \in Nat
    BY <1>1, <2>1
  <2>4. RingDist(h, D[i].slot) >= RingDist(h, b)
    BY <1>4, <1>5, <2>2, <2>3
  <2> QED BY <1>3, <2>1, <2>3, <2>4
<1>9. ASSUME NEW i \in 1 .. n, NEW j \in 1 .. n,
             i < j, D[i].needs_dsc, D[j].needs_dsc
      PROVE  RingDist(b, D[i].slot) < RingDist(b, D[j].slot)
  <2>1. RingDist(h, D[i].slot) < RingDist(h, D[j].slot)
    BY <1>9 DEF Ring
  <2> QED BY <1>5, <1>8, <1>9, <2>1
<1>10. Ring(D, n, b, b, w, t, U)
  BY <1>6, <1>7, <1>9 DEF Ring
<1>11. ASSUME NEW s \in U
       PROVE  RingDist(b, s) = RingDist(h, s) - RingDist(h, b)
  <2>1. s \in Slots /\ RingDist(h, b) <= RingDist(h, s)
    BY DEF Ring
  <2> QED BY <1>1, <1>3, <2>1
<1> QED BY <1>10, <1>11

-----------------------------------------------------------------------------
(* Steps of the notifications.                                              *)

LEMMA NotifType ==
  ASSUME NEW B \in [Slots -> Notifs], NEW s \in Slots
  PROVE  B[s].queue_id \in Pipes /\ B[s].tail \in Flits /\ B[s].signal \in {0, 1}
BY DEF Notifs

\* A notification is written behind the unread ones; it announces all that is
\* in host memory.
LEMMA NotifiedWrite ==
  ASSUME NEW B \in [Slots -> Notifs], NEW C \in [Slots -> Notifs], NEW h \in Slots,
         NEW g \in [Pipes -> Flits], NEW p \in [Pipes -> Flits], NEW d \in [Pipes -> Flits],
         Notified(B, h, g, p, d),
         NEW w \in Slots, B[w].signal # 1,
         \A s \in Slots : B[s].signal = 1 => RingDist(h, s) < RingDist(h, w),
         \A s \in Slots : s # w => C[s] = B[s],
         C[w].tail = d[C[w].queue_id],
         PipeDist(g[C[w].queue_id], p[C[w].queue_id])
           <= PipeDist(g[C[w].queue_id], d[C[w].queue_id])
  PROVE  Notified(C, h, g, p, d)
<1>0. \A s \in Slots : RingDist(h, s) \in Nat
  BY RingDistType
<1>1. \A q \in Pipes, x \in Flits : PipeDist(g[q], x) \in Nat
  BY PipeDistType
<1>2. ASSUME NEW s \in Slots, C[s].signal = 1
      PROVE  /\ PipeDist(g[C[s].queue_id], p[C[s].queue_id]) <= PipeDist(g[C[s].queue_id], C[s].tail)
             /\ PipeDist(g[C[s].queue_id], C[s].tail) <= PipeDist(g[C[s].queue_id], d[C[s].queue_id])
  <2>1. CASE s = w
    <3>1. PipeDist(g[C[w].queue_id], d[C[w].queue_id]) \in Nat
      BY <1>1, NotifType
    <3> QED BY <2>1, <3>1
  <2>2. CASE s # w
    <3>1. C[s] = B[s]
      BY <2>2
    <3> QED BY <1>2, <3>1 DEF Notified
  <2> QED BY <2>1, <2>2
<1>3. ASSUME NEW s \in Slots, NEW t \in Slots, C[s].signal = 1, C[t].signal = 1,
             RingDist(h, s) < RingDist(h, t), C[s].queue_id = C[t].queue_id
      PROVE  PipeDist(g[C[s].queue_id], C[s].tail) <= PipeDist(g[C[s].queue_id], C[t].tail)
  <2>1. s # w
    <3>1. CASE t = w
      BY <1>0, <1>3, <3>1
    <3>2. CASE t # w
      <4>1. C[t] = B[t]
        BY <3>2
      <4>2. RingDist(h, t) < RingDist(h, w)
        BY <1>3, <4>1
      <4> QED BY <1>0, <1>3, <4>2
    <3> QED BY <3>1, <3>2
  <2>2. CASE t = w
    BY <1>2, <1>3, <2>2
  <2>3. CASE t # w
    <3>1. C[s] = B[s] /\ C[t] = B[t]
      BY <2>1, <2>3
    <3> QED BY <1>3, <3>1 DEF Notified
  <2> QED BY <2>2, <2>3
<1> QED BY <1>2, <1>3 DEF Notified

\* The first unread notification is read.
LEMMA NotifiedRead ==
  ASSUME NEW B \in [Slots -> Notifs], NEW C, NEW h, NEW g, NEW p, NEW d, NEW o,
         Notified(B, h, g, p, d),
         NEW b \in Slots, B[b].signal = 1, C[b].signal # 1,
         \A s \in Slots : B[s].signal = 1 /\ s # b => RingDist(h, b) < RingDist(h, s),
         \A s \in Slots : s # b => C[s] = B[s],
         o[B[b].queue_id] = B[b].tail,
         \A q \in Pipes : q # B[b].queue_id => o[q] = p[q]
  PROVE  Notified(C, h, g, o, d)
<1>1. ASSUME NEW s \in Slots, C[s].signal = 1
      PROVE  /\ PipeDist(g[C[s].queue_id], o[C[s].queue_id]) <= PipeDist(g[C[s].queue_id], C[s].tail)
             /\ PipeDist(g[C[s].queue_id], C[s].tail) <= PipeDist(g[C[s].queue_id], d[C[s].queue_id])
  <2>1. C[s] = B[s] /\ s # b /\ B[s].queue_id \in Pipes /\ RingDist(h, b) < RingDist(h, s)
    BY <1>1, NotifType
  <2>2. /\ PipeDist(g[B[s].queue_id], p[B[s].queue_id]) <= PipeDist(g[B[s].queue_id], B[s].tail)
        /\ PipeDist(g[B[s].queue_id], B[s].tail) <= PipeDist(g[B[s].queue_id], d[B[s].queue_id])
    BY <1>1, <2>1 DEF Notified
  <2>3. CASE B[s].queue_id = B[b].queue_id
    <3>1. PipeDist(g[B[b].queue_id], B[b].tail) <= PipeDist(g[B[b].queue_id], B[s].tail)
      BY <1>1, <2>1, <2>3 DEF Notified
    <3> QED BY <2>1, <2>2, <2>3, <3>1
  <2>4. CASE B[s].queue_id # B[b].queue_id
    BY <2>1, <2>2, <2>4
  <2> QED BY <2>3, <2>4
<1>2. ASSUME NEW s \in Slots, NEW t \in Slots, C[s].signal = 1, C[t].signal = 1,
             RingDist(h, s) < RingDist(h, t), C[s].queue_id = C[t].queue_id
      PROVE  PipeDist(g[C[s].queue_id], C[s].tail) <= PipeDist(g[C[s].queue_id], C[t].tail)
  <2>1. C[s] = B[s] /\ C[t] = B[t]
    BY <1>2
  <2> QED BY <1>2, <2>1 DEF Notified
<1> QED BY <1>1, <1>2 DEF Notified

\* The order of the unread notifications is the same from another head.
LEMMA NotifiedReturn ==
  ASSUME NEW B \in [Slots -> Notifs], NEW h \in Slots, NEW b \in Slots,
         NEW g \in [Pipes -> Flits], NEW p \in [Pipes -> Flits], NEW d \in [Pipes -> Flits],
         Notified(B, h, g, p, d),
         \A s \in Slots : B[s].signal = 1 => RingDist(b, s) = RingDist(h, s) - RingDist(h, b)
  PROVE  Notified(B, b, g, p, d)
<1>1. \A s \in Slots : RingDist(h, s) \in Nat
  BY RingDistType
<1>2. ASSUME NEW s \in Slots, NEW t \in Slots, B[s].signal = 1, B[t].signal = 1,
             RingDist(b, s) < RingDist(b, t)
      PROVE  RingDist(h, s) < RingDist(h, t)
  <2>1. /\ RingDist(b, s) = RingDist(h, s) - RingDist(h, b)
        /\ RingDist(b, t) = RingDist(h, t) - RingDist(h, b)
        /\ RingDist(h, b) \in Nat /\ RingDist(h, s) \in Nat /\ RingDist(h, t) \in Nat
    BY <1>1, <1>2
  <2> QED BY <1>2, <2>1
<1> QED BY <1>2 DEF Notified

\* More data are written.
LEMMA NotifiedData ==
  ASSUME NEW B \in [Slots -> Notifs], NEW h \in Slots,
         NEW g \in [Pipes -> Flits], NEW p \in [Pipes -> Flits],
         NEW d \in [Pipes -> Flits], NEW e \in [Pipes -> Flits],
         Notified(B, h, g, p, d),
         \A q \in Pipes : PipeDist(g[q], d[q]) <= PipeDist(g[q], e[q])
  PROVE  Notified(B, h, g, p, e)
<1>1. \A q \in Pipes, x \in Flits : PipeDist(g[q], x) \in Nat
  BY PipeDistType
<1>2. ASSUME NEW s \in Slots, B[s].signal = 1
      PROVE  /\ PipeDist(g[B[s].queue_id], p[B[s].queue_id]) <= PipeDist(g[B[s].queue_id], B[s].tail)
             /\ PipeDist(g[B[s].queue_id], B[s].tail) <= PipeDist(g[B[s].queue_id], e[B[s].queue_id])
  <2>1. PICK q \in Pipes : q = B[s].queue_id
    BY NotifType
  <2>2. B[s].tail \in Flits
    BY NotifType
  <2>3. /\ PipeDist(g[q], p[q]) <= PipeDist(g[q], B[s].tail)
        /\ PipeDist(g[q], B[s].tail) <= PipeDist(g[q], d[q])
    BY <1>2, <2>1 DEF Notified
  <2>4. PipeDist(g[q], B[s].tail) <= PipeDist(g[q], e[q])
    BY <1>1, <2>2, <2>3
  <2> QED BY <2>1, <2>3, <2>4
<1> QED BY <1>2 DEF Notified

\* The program frees flits of its pipes.
LEMMA NotifiedHeads ==
  ASSUME NEW B \in [Slots -> Notifs], NEW x \in Slots,
         NEW h \in [Pipes -> Flits], NEW g \in [Pipes -> Flits],
         NEW p \in [Pipes -> Flits], NEW d \in [Pipes -> Flits],
         NEW k \in [Pipes -> 0 .. PipeSize - 1],
         \A q \in Pipes : g[q] = Advance(h[q], k[q]),
         \A q \in Pipes : k[q] <= PipeDist(h[q], p[q]),
         Notified(B, x, h, p, d)
  PROVE  Notified(B, x, g, p, d)
<1>1. \A q \in Pipes, y \in Flits : PipeDist(h[q], y) \in Nat
  BY PipeDistType
<1>2. \A q \in Pipes, y \in Flits :
        k[q] <= PipeDist(h[q], y) => PipeDist(g[q], y) = PipeDist(h[q], y) - k[q]
  BY <1>1, PipeHeadMove
<1>3. \A q \in Pipes : k[q] \in Nat
  BY Sizes
<1>4. ASSUME NEW s \in Slots, B[s].signal = 1, NEW q \in Pipes, q = B[s].queue_id
      PROVE  /\ PipeDist(h[q], p[q]) <= PipeDist(h[q], B[s].tail)
             /\ PipeDist(h[q], B[s].tail) <= PipeDist(h[q], d[q])
             /\ PipeDist(g[q], p[q]) = PipeDist(h[q], p[q]) - k[q]
             /\ PipeDist(g[q], B[s].tail) = PipeDist(h[q], B[s].tail) - k[q]
             /\ PipeDist(g[q], d[q]) = PipeDist(h[q], d[q]) - k[q]
             /\ PipeDist(h[q], p[q]) \in Nat /\ PipeDist(h[q], B[s].tail) \in Nat
             /\ PipeDist(h[q], d[q]) \in Nat
  <2>1. B[s].tail \in Flits /\ p[q] \in Flits /\ d[q] \in Flits
    BY NotifType
  <2>2. /\ PipeDist(h[q], p[q]) <= PipeDist(h[q], B[s].tail)
        /\ PipeDist(h[q], B[s].tail) <= PipeDist(h[q], d[q])
    BY <1>4 DEF Notified
  <2>3. /\ PipeDist(h[q], p[q]) \in Nat /\ PipeDist(h[q], B[s].tail) \in Nat
        /\ PipeDist(h[q], d[q]) \in Nat /\ k[q] \in Nat /\ k[q] <= PipeDist(h[q], p[q])
    BY <1>1, <1>3, <2>1
  <2>4. k[q] <= PipeDist(h[q], B[s].tail) /\ k[q] <= PipeDist(h[q], d[q])
    BY <2>2, <2>3
  <2> QED BY <1>2, <2>1, <2>2, <2>3, <2>4
<1>5. ASSUME NEW s \in Slots, B[s].signal = 1
      PROVE  /\ PipeDist(g[B[s].queue_id], p[B[s].queue_id]) <= PipeDist(g[B[s].queue_id], B[s].tail)
             /\ PipeDist(g[B[s].queue_id], B[s].tail) <= PipeDist(g[B[s].queue_id], d[B[s].queue_id])
  <2>1. PICK q \in Pipes : q = B[s].queue_id
    BY NotifType
  <2>2. PipeDist(g[q], p[q]) <= PipeDist(g[q], B[s].tail) /\ PipeDist(g[q], B[s].tail) <= PipeDist(g[q], d[q])
    BY <1>3, <1>4, <1>5, <2>1
  <2> QED BY <2>1, <2>2
<1>6. ASSUME NEW s \in Slots, NEW t \in Slots, B[s].signal = 1, B[t].signal = 1,
             RingDist(x, s) < RingDist(x, t), B[s].queue_id = B[t].queue_id
      PROVE  PipeDist(g[B[s].queue_id], B[s].tail) <= PipeDist(g[B[s].queue_id], B[t].tail)
  <2>1. PICK q \in Pipes : q = B[s].queue_id
    BY NotifType
  <2>2. PipeDist(h[q], B[s].tail) <= PipeDist(h[q], B[t].tail)
    BY <1>6, <2>1 DEF Notified
  <2>3. PipeDist(g[q], B[s].tail) <= PipeDist(g[q], B[t].tail)
    BY <1>3, <1>4, <1>6, <2>1, <2>2
  <2> QED BY <2>1, <2>3
<1> QED BY <1>5, <1>6 DEF Notified

-----------------------------------------------------------------------------
(* Steps of a pipe.                                                         *)

\* The program frees n flits it has received.
LEMMA OrderHead ==
  ASSUME NEW h \in Flits, NEW r \in Flits, NEW p \in Flits, NEW d \in Flits, NEW t \in Flits,
         NEW n \in 0 .. PipeSize - 1, n <= PipeDist(h, r), Order(h, r, p, d, t)
  PROVE  Order(Advance(h, n), r, p, d, t)
<1>1. \A x \in Flits : PipeDist(h, x) \in Nat
  BY PipeDistType
<1>2. \A x \in Flits : n <= PipeDist(h, x) => PipeDist(Advance(h, n), x) = PipeDist(h, x) - n
  BY <1>1, PipeHeadMove
<1>3. n \in Nat /\ PipeDist(h, r) \in Nat /\ PipeDist(h, p) \in Nat /\ PipeDist(h, d) \in Nat
      /\ PipeDist(h, t) \in Nat
  BY <1>1, Sizes
<1>4. PipeDist(h, r) <= PipeDist(h, p) /\ PipeDist(h, p) <= PipeDist(h, d)
      /\ PipeDist(h, d) <= PipeDist(h, t)
  BY DEF Order
<1>5. n <= PipeDist(h, p) /\ n <= PipeDist(h, d) /\ n <= PipeDist(h, t)
  BY <1>3, <1>4
<1>6. /\ PipeDist(Advance(h, n), r) = PipeDist(h, r) - n
      /\ PipeDist(Advance(h, n), p) = PipeDist(h, p) - n
      /\ PipeDist(Advance(h, n), d) = PipeDist(h, d) - n
      /\ PipeDist(Advance(h, n), t) = PipeDist(h, t) - n
  BY <1>2, <1>5
<1> QED BY <1>3, <1>4, <1>6 DEF Order

\* It receives n flits of those it knows of.
LEMMA OrderRecv ==
  ASSUME NEW h \in Flits, NEW r \in Flits, NEW p \in Flits, NEW d \in Flits, NEW t \in Flits,
         NEW n \in Nat, n <= PipeDist(r, p), Order(h, r, p, d, t)
  PROVE  Order(h, Advance(r, n), p, d, t)
<1>1. PipeDist(h, r) \in 0 .. PipeSize - 1 /\ PipeDist(h, p) \in 0 .. PipeSize - 1
  BY PipeDistType
<1>2. Advance(h, PipeDist(h, r)) = r
  BY PipeTo
<1>3. PipeDist(h, p) >= PipeDist(h, r)
  <2>1. PipeSize \in Nat
    BY Sizes
  <2> QED BY <1>1, <2>1 DEF Order
<1>4. PipeDist(r, p) = PipeDist(h, p) - PipeDist(h, r)
  BY <1>1, <1>2, <1>3, PipeHeadMove
<1>5. PipeSize \in Nat
  BY Sizes
<1>6. PipeDist(h, r) + n <= PipeDist(h, p) /\ PipeDist(h, r) + n <= PipeSize - 1
  BY <1>1, <1>4, <1>5
<1>7. PipeDist(h, Advance(r, n)) = PipeDist(h, r) + n
  BY <1>6, PipeMove
<1> QED BY <1>6, <1>7 DEF Order

-----------------------------------------------------------------------------
(* Types, continued.                                                        *)

\* The head a program writes to its register: n flits further.
HeadStep(q, n) ==
  /\ WriteHead(q, Advance(rx_head[q], n))
  /\ rx_head' = [rx_head EXCEPT ![q] = Advance(rx_head[q], n)]
  /\ UNCHANGED <<pkt_tail, status, dsc_head, dsc_tail, in_queue, pkt_out,
                 dma_in, dma_state, rx_buf, dma_tail, nb_head, pending, rx_tail>>

LEMMA HeadTypes ==
  ASSUME TypeOK, NEW q \in Pipes, NEW h \in Flits, AdvanceHead(q, h)
  PROVE  NicTypeOK'
<1>1. HeadUpdLimit \in Nat
  BY Sizes
<1>2. head_upd' \in Seq(Pipes) /\ Len(head_upd') <= HeadUpdLimit
  <2>1. CASE Len(head_upd) < HeadUpdLimit
    <3>1. head_upd' = Append(head_upd, q) /\ head_upd \in Seq(Pipes)
      BY <2>1 DEF AdvanceHead, WriteHead, TypeOK, NicTypeOK
    <3> QED BY <1>1, <2>1, <3>1
  <2>2. CASE ~(Len(head_upd) < HeadUpdLimit)
    BY <2>2 DEF AdvanceHead, WriteHead, TypeOK, NicTypeOK
  <2> QED BY <2>1, <2>2
<1>3. pkt_head' \in [Pipes -> Flits]
  BY DEF AdvanceHead, WriteHead, TypeOK, NicTypeOK
<1> QED BY <1>2, <1>3 DEF AdvanceHead, TypeOK, NicTypeOK

LEMMA NextType == TypeOK /\ AtDescriptor /\ [Next]_vars => TypeOK'
<1> SUFFICES ASSUME TypeOK, AtDescriptor, [Next]_vars PROVE TypeOK'
  OBVIOUS
<1>1. ASSUME NEW q \in Pipes, NEW size \in 1 .. MaxPkt, Packet(q, size) PROVE TypeOK'
  <2>1. [q |-> q, size |-> size] \in [q : Pipes, size : 0 .. MaxPkt] /\ StageLen \in Nat
    BY Sizes
  <2>2. in_queue' \in Seq([q : Pipes, size : 0 .. MaxPkt]) /\ Len(in_queue') <= StageLen
    BY <1>1, <2>1 DEF Packet, TakePacket, TypeOK, NicTypeOK
  <2>3. NicTypeOK'
    BY <1>1, <2>2 DEF Packet, TakePacket, TypeOK, NicTypeOK
  <2> QED BY <1>1, <2>3 DEF Packet, swVars, ringVars, pipeVars, threadVars, TypeOK
<1>2. CASE Nic
  <2>1. NicTypeOK'
    BY <1>2, NicType DEF Nic
  <2> QED BY <1>2, <2>1 DEF Nic, swVars, ringVars, pipeVars, threadVars, TypeOK
<1>3. CASE ConsumeNotification
  <2>1. NoNotif \in Notifs /\ BatchSize \in Nat
    BY Sizes DEF NoNotif, Notifs
  <2>2. nb_head \in Slots /\ rx_buf[nb_head] \in Notifs
    BY DEF TypeOK, NicTypeOK
  <2>3. rx_buf[nb_head].queue_id \in Pipes /\ rx_buf[nb_head].tail \in Flits
    BY <2>2 DEF Notifs
  <2>4. NicTypeOK'
    BY <1>3, <2>1 DEF ConsumeNotification, TypeOK, NicTypeOK
  <2>5. nb_head' \in Slots /\ ids_tail' \in Slots
    BY <1>3, RingMove DEF ConsumeNotification, TypeOK
  <2>6. pending' \in [Pipes -> Flits] /\ ids' \in [Slots -> Pipes]
    BY <1>3, <2>3 DEF ConsumeNotification, TypeOK
  <2>7. left' \in 0 .. BatchSize
    BY <1>3, <2>1 DEF ConsumeNotification, TypeOK
  <2> QED BY <1>3, <2>4, <2>5, <2>6, <2>7 DEF ConsumeNotification, TypeOK, pipeVars
<1>4. CASE GetNewTailsReturn
  <2>1. 0 \in 0 .. BatchSize
    BY Sizes
  <2>2. NicTypeOK'
    BY <1>4 DEF GetNewTailsReturn, TypeOK, NicTypeOK
  <2> QED BY <1>4, <2>1, <2>2 DEF GetNewTailsReturn, TypeOK, ringVars, pipeVars
<1>5. ASSUME NextFetch \/ NextNone \/ NextRxPipeToRecv \/ \E q \in Pipes : Recv(q)
      PROVE TypeOK'
  <2>1. BatchSize \in 0 .. BatchSize
    BY Sizes
  <2>2. NicTypeOK'
    BY <1>5 DEF NextFetch, NextNone, NextRxPipeToRecv, Recv, nicVars, TypeOK, NicTypeOK
  <2> QED BY <1>5, <2>1, <2>2
        DEF NextFetch, NextNone, NextRxPipeToRecv, Recv, CallGetNewTails, TypeOK, ringVars,
            pipeVars
<1>6. CASE NextSkip
  <2>1. NicTypeOK'
    BY <1>6 DEF NextSkip, nicVars, TypeOK, NicTypeOK
  <2>2. ids_head' \in Slots /\ ids' \in [Slots -> Pipes]
    BY <1>6, RingMove, Sizes DEF NextSkip, TypeOK
  <2> QED BY <1>6, <2>1, <2>2 DEF NextSkip, TypeOK, pipeVars
<1>7. CASE NextTake
  <2>1. ids[ids_head] \in Pipes /\ rx_head[ids[ids_head]] \in Flits
    BY DEF TypeOK
  <2>2. NicTypeOK'
    BY <1>7, <2>1, HeadTypes DEF NextTake
  <2>3. ids_head' \in Slots /\ ids' \in [Slots -> Pipes]
    BY <1>7, RingMove, Sizes DEF NextTake, TypeOK
  <2> QED BY <1>7, <2>1, <2>2, <2>3 DEF NextTake, TypeOK, pipeVars
<1>8. ASSUME NEW n \in Flits, RecvReturn(n) PROVE TypeOK'
  <2>1. n \in Nat /\ cur \in Pipes /\ rx_tail[cur] \in Flits /\ 0 \in Pipes
    BY Sizes DEF TypeOK
  <2>2. Advance(rx_tail[cur], n) \in Flits
    BY <2>1, PipeMove
  <2>3. NicTypeOK'
    BY <1>8 DEF RecvReturn, nicVars, TypeOK, NicTypeOK
  <2> QED BY <1>8, <2>1, <2>2, <2>3 DEF RecvReturn, TypeOK, ringVars
<1>9. ASSUME NEW q \in Pipes, Clear(q) PROVE TypeOK'
  <2>1. NicTypeOK'
    BY <1>9, HeadTypes DEF Clear, TypeOK
  <2> QED BY <1>9, <2>1 DEF Clear, TypeOK, ringVars, threadVars
<1>10. ASSUME NEW q \in Pipes, Prefetch(q) PROVE TypeOK'
  <2>1. NicTypeOK'
    BY <1>10, HeadTypes DEF Prefetch, TypeOK
  <2> QED BY <1>10, <2>1 DEF Prefetch, TypeOK, ringVars, pipeVars, threadVars
<1>11. ASSUME NEW q \in Pipes, NEW n \in 1 .. PipeSize - 1, Free(q, n) PROVE TypeOK'
  <2>1. n \in Nat /\ rx_head[q] \in Flits
    BY Sizes DEF TypeOK
  <2>2. Advance(rx_head[q], n) \in Flits
    BY <2>1, PipeMove
  <2>3. NicTypeOK'
    BY <1>11, <2>2, HeadTypes DEF Free
  <2> QED BY <1>11, <2>2, <2>3 DEF Free, TypeOK, ringVars, threadVars
<1>12. CASE UNCHANGED vars
  BY <1>12 DEF vars, nicVars, ringVars, pipeVars, threadVars, TypeOK, NicTypeOK
<1> QED BY <1>1, <1>2, <1>3, <1>4, <1>5, <1>6, <1>7, <1>8, <1>9, <1>10, <1>11, <1>12
        DEF Next, InCall

-----------------------------------------------------------------------------
(* The stream in the state of the NIC.                                      *)

FlowTyped ==
  /\ Len(dma_in) \in Nat /\ Len(pkt_out) \in Nat /\ FlowLen \in Nat
  /\ dma_in \in [1 .. Len(dma_in) -> Metas] /\ pkt_out \in [1 .. Len(pkt_out) -> Metas]
  /\ \A i \in 1 .. FlowLen : Flow(i) \in Metas
  /\ View \in [1 .. FlowLen -> Views]

LEMMA FlowType == TypeOK => FlowTyped
<1> SUFFICES ASSUME TypeOK PROVE FlowTyped
  OBVIOUS
<1>1. dma_in \in Seq(Metas) /\ pkt_out \in Seq(Metas)
  BY DEF TypeOK, NicTypeOK
<1>2. Len(dma_in) \in Nat /\ Len(pkt_out) \in Nat /\ FlowLen \in Nat
      /\ dma_in \in [1 .. Len(dma_in) -> Metas] /\ pkt_out \in [1 .. Len(pkt_out) -> Metas]
  BY <1>1 DEF FlowLen
<1>3. ASSUME NEW i \in 1 .. FlowLen PROVE Flow(i) \in Metas
  <2>1. CASE i <= Len(dma_in)
    BY <1>2, <2>1 DEF Flow
  <2>2. CASE ~(i <= Len(dma_in))
    <3>1. i - Len(dma_in) \in 1 .. Len(pkt_out)
      BY <1>2, <2>2 DEF FlowLen
    <3> QED BY <1>2, <2>2, <3>1 DEF Flow
  <2> QED BY <2>1, <2>2
<1>4. ASSUME NEW i \in 1 .. FlowLen PROVE ViewOf(i) \in Views
  <2>1. /\ Flow(i).q \in Pipes /\ Flow(i).tail \in Flits /\ Flow(i).size \in Nat
        /\ Flow(i).size <= MaxPkt
    BY <1>3, MetaType
  <2>2. IsData(i) \in BOOLEAN /\ Live(i) \in BOOLEAN
    BY DEF IsData, Live
  <2>3. (IF IsData(i) THEN Flow(i).size ELSE 0) \in 0 .. MaxPkt
    BY <2>1, Sizes
  <2> QED BY <2>1, <2>2, <2>3 DEF ViewOf, Views
<1>5. View \in [1 .. FlowLen -> Views]
  BY <1>4 DEF View
<1> QED BY <1>2, <1>3, <1>5 DEF FlowTyped

LEMMA FlowTypeNext == TypeOK' => FlowTyped'
BY FlowType, PTL

LEMMA ViewSame ==
  UNCHANGED <<dma_in, pkt_out, dma_state>> => View' = View /\ FlowLen' = FlowLen
BY DEF View, FlowLen, ViewOf, Flow, IsData, Live, Written

LEMMA MarksSame ==
  UNCHANGED <<dma_in, pkt_out, dma_state, dma_tail>> =>
    (Marks => Marks') /\ (AtDescriptor => AtDescriptor')
BY DEF Marks, AtDescriptor

LEMMA RingSame ==
  UNCHANGED <<dma_in, dsc_head, dsc_tail, nb_head, rx_buf>> => (RingShape => RingShape')
BY DEF RingShape, Unread

-----------------------------------------------------------------------------
(* The invariant, action by action.                                         *)

\* Steps that touch neither the stream nor the ring nor a pipe.
LEMMA QuietStep ==
  ASSUME StreamInv, TypeOK',
         UNCHANGED <<pkt_head, pkt_tail, dsc_head, dsc_tail, pkt_out, dma_in, dma_state,
                     rx_buf, dma_tail, nb_head, pending, rx_head, rx_tail>>
  PROVE  StreamInv'
<1>1. StreamOrder'
  BY ViewSame DEF StreamInv, StreamOrder
<1>2. Marks' /\ AtDescriptor' /\ RingShape'
  BY MarksSame, RingSame DEF StreamInv
<1>3. NotifOrder' /\ PipesOrder'
  BY DEF StreamInv, NotifOrder, PipesOrder
<1> QED BY <1>1, <1>2, <1>3 DEF StreamInv

\* The program writes a head.
LEMMA HeadsStep ==
  ASSUME StreamInv, TypeOK', NEW q \in Pipes, NEW n \in 0 .. PipeSize - 1,
         n <= PipeDist(rx_head[q], rx_tail[q]), HeadStep(q, n)
  PROVE  StreamInv'
<1>0. PipeSize \in Nat /\ PipeSize >= 1
  BY Sizes
<1> DEFINE k == [r \in Pipes |-> IF r = q THEN n ELSE 0]
<1>1. k \in [Pipes -> 0 .. PipeSize - 1]
  BY <1>0
<1>2. /\ rx_head \in [Pipes -> Flits] /\ rx_tail \in [Pipes -> Flits]
      /\ pending \in [Pipes -> Flits] /\ dma_tail \in [Pipes -> Flits]
      /\ pkt_tail \in [Pipes -> Flits] /\ rx_head' \in [Pipes -> Flits]
      /\ pkt_head \in [Pipes -> Flits]
      /\ dma_tail' = dma_tail /\ pending' = pending /\ rx_tail' = rx_tail
      /\ pkt_tail' = pkt_tail /\ rx_buf \in [Slots -> Notifs] /\ dsc_head \in Slots
      /\ rx_buf' = rx_buf /\ dsc_head' = dsc_head
  BY DEF StreamInv, TypeOK, NicTypeOK, HeadStep
<1>3. \A r \in Pipes : rx_head'[r] = Advance(rx_head[r], k[r])
  BY <1>2, AdvanceZero DEF HeadStep
<1>4. \A r \in Pipes : PipeDist(rx_head[r], rx_tail[r]) \in Nat
                       /\ PipeDist(rx_head[r], pending[r]) \in Nat
                       /\ PipeDist(rx_head[r], dma_tail[r]) \in Nat
  BY <1>2, PipeDistType
<1>5. \A r \in Pipes : k[r] <= PipeDist(rx_head[r], rx_tail[r])
  BY <1>4
<1> HIDE DEF k
<1>6. \A r \in Pipes : Order(rx_head[r], rx_tail[r], pending[r], dma_tail[r], pkt_tail[r])
  BY DEF StreamInv, PipesOrder
<1>7. \A r \in Pipes : /\ k[r] <= PipeDist(rx_head[r], pending[r])
                       /\ k[r] <= PipeDist(rx_head[r], dma_tail[r])
                       /\ PipeDist(rx_head[r], dma_tail[r]) <= PipeDist(rx_head[r], pkt_tail[r])
  <2> TAKE r \in Pipes
  <2>1. k[r] \in Int
    BY <1>0, <1>1
  <2> QED BY <1>4, <1>5, <1>6, <2>1 DEF Order
<1>8. StreamOrder'
  <2>1. View' = View /\ FlowLen' = FlowLen
    BY ViewSame DEF HeadStep
  <2>2. FlowLen \in Nat /\ View \in [1 .. FlowLen -> Views]
    BY FlowType DEF StreamInv, FlowTyped
  <2>3. Stream(View, FlowLen, rx_head, dma_tail, pkt_tail)
    BY DEF StreamInv, StreamOrder
  <2>4. Stream(View, FlowLen, rx_head', dma_tail, pkt_tail)
    BY <1>1, <1>2, <1>3, <1>7, <2>2, <2>3, StreamHeads
  <2> QED BY <1>2, <2>1, <2>4 DEF StreamOrder
<1>9. NotifOrder'
  <2>1. Notified(rx_buf, dsc_head, rx_head, pending, dma_tail)
    BY DEF StreamInv, NotifOrder
  <2>2. Notified(rx_buf, dsc_head, rx_head', pending, dma_tail)
    BY <1>1, <1>2, <1>3, <1>7, <2>1, NotifiedHeads
  <2> QED BY <1>2, <2>2 DEF NotifOrder
<1>10. PipesOrder'
  <2>1. ASSUME NEW r \in Pipes
        PROVE  /\ pkt_head'[r] = rx_head'[r]
               /\ Order(rx_head'[r], rx_tail[r], pending[r], dma_tail[r], pkt_tail[r])
    <3>1. pkt_head'[r] = rx_head'[r]
      <4>1. pkt_head[r] = rx_head[r]
        BY DEF StreamInv, PipesOrder
      <4> QED BY <1>2, <4>1 DEF HeadStep, WriteHead
    <3>2. /\ rx_head[r] \in Flits /\ rx_tail[r] \in Flits /\ pending[r] \in Flits
          /\ dma_tail[r] \in Flits /\ pkt_tail[r] \in Flits /\ k[r] \in 0 .. PipeSize - 1
      BY <1>1, <1>2
    <3>3. Order(Advance(rx_head[r], k[r]), rx_tail[r], pending[r], dma_tail[r], pkt_tail[r])
      BY <1>5, <1>6, <3>2, OrderHead
    <3> QED BY <1>3, <3>1, <3>3
  <2> QED BY <1>2, <2>1 DEF PipesOrder
<1>11. Marks' /\ AtDescriptor' /\ RingShape'
  BY MarksSame, RingSame DEF StreamInv, HeadStep
<1> QED BY <1>8, <1>9, <1>10, <1>11 DEF StreamInv

\* The program receives flits.
LEMMA RecvStep ==
  ASSUME StreamInv, TypeOK', NEW n \in Flits, RecvReturn(n)
  PROVE  StreamInv'
<1>1. UNCHANGED <<pkt_head, pkt_tail, dsc_head, dsc_tail, pkt_out, dma_in, dma_state,
                  rx_buf, dma_tail, nb_head, pending, rx_head>>
  BY DEF RecvReturn, nicVars, ringVars
<1>2. StreamOrder'
  BY <1>1, ViewSame DEF StreamInv, StreamOrder
<1>3. Marks' /\ AtDescriptor' /\ RingShape'
  BY <1>1, MarksSame, RingSame DEF StreamInv
<1>4. NotifOrder'
  BY <1>1 DEF StreamInv, NotifOrder
<1>5. /\ rx_head \in [Pipes -> Flits] /\ rx_tail \in [Pipes -> Flits]
      /\ pending \in [Pipes -> Flits] /\ dma_tail \in [Pipes -> Flits]
      /\ pkt_tail \in [Pipes -> Flits] /\ cur \in Pipes /\ n \in Nat
  <2>1. n \in Nat
    BY Sizes
  <2> QED BY <2>1 DEF StreamInv, TypeOK, NicTypeOK
<1>6. n <= PipeDist(rx_tail[cur], pending[cur])
  <2>1. PipeDist(rx_tail[cur], pending[cur]) \in Nat
    BY <1>5, PipeDistType
  <2>2. Available(cur) = PipeDist(rx_tail[cur], pending[cur])
    BY DEF Available, PipeDist
  <2> QED BY <1>5, <2>1, <2>2 DEF RecvReturn
<1>7. ASSUME NEW q \in Pipes
      PROVE  Order(rx_head[q], rx_tail'[q], pending[q], dma_tail[q], pkt_tail[q])
  <2>1. Order(rx_head[q], rx_tail[q], pending[q], dma_tail[q], pkt_tail[q])
    BY DEF StreamInv, PipesOrder
  <2>2. /\ rx_head[q] \in Flits /\ rx_tail[q] \in Flits /\ pending[q] \in Flits
        /\ dma_tail[q] \in Flits /\ pkt_tail[q] \in Flits
    BY <1>5
  <2>3. CASE q = cur
    <3>1. Order(rx_head[q], Advance(rx_tail[q], n), pending[q], dma_tail[q], pkt_tail[q])
      BY <1>5, <1>6, <2>1, <2>2, <2>3, OrderRecv
    <3> QED BY <1>5, <2>3, <3>1 DEF RecvReturn
  <2>4. CASE q # cur
    BY <1>5, <2>1, <2>4 DEF RecvReturn
  <2> QED BY <2>3, <2>4
<1>8. PipesOrder'
  BY <1>1, <1>7 DEF StreamInv, PipesOrder
<1> QED BY <1>2, <1>3, <1>4, <1>8 DEF StreamInv

\* Software reads a notification.
LEMMA ConsumeStep ==
  ASSUME StreamInv, TypeOK', ConsumeNotification
  PROVE  StreamInv'
<1> DEFINE b == nb_head
           n == rx_buf[b]
<1>1. UNCHANGED <<pkt_head, pkt_tail, dsc_head, dsc_tail, pkt_out, dma_in, dma_state,
                  dma_tail, rx_head, rx_tail>>
  BY DEF ConsumeNotification, pipeVars
<1>2. /\ rx_head \in [Pipes -> Flits] /\ rx_tail \in [Pipes -> Flits]
      /\ pending \in [Pipes -> Flits] /\ dma_tail \in [Pipes -> Flits]
      /\ pkt_tail \in [Pipes -> Flits] /\ pending' \in [Pipes -> Flits]
      /\ rx_buf \in [Slots -> Notifs] /\ rx_buf' \in [Slots -> Notifs]
      /\ b \in Slots /\ dsc_head \in Slots /\ dsc_tail \in Slots
  BY DEF StreamInv, TypeOK, NicTypeOK
<1>3. n.queue_id \in Pipes /\ n.tail \in Flits /\ n.signal = 1
  BY <1>2, NotifType DEF ConsumeNotification
<1>4. /\ pending'[n.queue_id] = n.tail
      /\ \A q \in Pipes : q # n.queue_id => pending'[q] = pending[q]
  BY <1>2, <1>3 DEF ConsumeNotification
<1>5. rx_buf'[b].signal # 1 /\ \A s \in Slots : s # b => rx_buf'[s] = rx_buf[s]
  BY <1>2 DEF ConsumeNotification, NoNotif
<1> DEFINE U == {s \in Slots : Unread(s)}
<1>6. U \in SUBSET Slots /\ b \in U /\ {s \in Slots : rx_buf'[s].signal = 1} = U \ {b}
  BY <1>2, <1>3, <1>5 DEF Unread
<1>7. Len(dma_in) \in Nat /\ dma_in \in [1 .. Len(dma_in) -> Metas]
  BY FlowType DEF StreamInv, FlowTyped
<1>8. nb_head' = (b + 1) % N
  BY DEF ConsumeNotification
<1>9. PICK w \in Slots : Ring(dma_in, Len(dma_in), dsc_head, b, w, dsc_tail, U)
  BY DEF StreamInv, RingShape
<1>10. (\A s \in Slots : Unread(s) <=> s \in U) /\ \A s \in Slots : Unread(s) <=> rx_buf[s].signal = 1
  BY DEF Unread
<1> HIDE DEF b, n, U
<1>11. /\ Ring(dma_in, Len(dma_in), dsc_head, (b + 1) % N, w, dsc_tail, U \ {b})
       /\ \A s \in U : s # b => RingDist(dsc_head, b) < RingDist(dsc_head, s)
  BY <1>2, <1>6, <1>7, <1>9, RingRead
<1>12. RingShape'
  BY <1>1, <1>6, <1>8, <1>11 DEF RingShape, Unread
<1>13. Notified(rx_buf, dsc_head, rx_head, pending, dma_tail)
  BY DEF StreamInv, NotifOrder
<1>14. Notified(rx_buf', dsc_head, rx_head, pending', dma_tail)
  <2>1. \A s \in Slots : rx_buf[s].signal = 1 /\ s # b =>
          RingDist(dsc_head, b) < RingDist(dsc_head, s)
    BY <1>10, <1>11
  <2>2. /\ rx_buf[b].signal = 1 /\ pending'[rx_buf[b].queue_id] = rx_buf[b].tail
        /\ \A q \in Pipes : q # rx_buf[b].queue_id => pending'[q] = pending[q]
    BY <1>3, <1>4 DEF n
  <2>3. PICK C \in [Slots -> Notifs] : C = rx_buf'
    BY <1>2
  <2>4. PICK o \in [Pipes -> Flits] : o = pending'
    BY <1>2
  <2>5. C[b].signal # 1 /\ \A s \in Slots : s # b => C[s] = rx_buf[s]
    BY <1>5, <2>3
  <2>6. /\ o[rx_buf[b].queue_id] = rx_buf[b].tail
        /\ \A q \in Pipes : q # rx_buf[b].queue_id => o[q] = pending[q]
    BY <2>2, <2>4
  <2>7. Notified(C, dsc_head, rx_head, o, dma_tail)
    BY <1>2, <1>13, <2>1, <2>2, <2>5, <2>6, NotifiedRead
  <2> QED BY <2>3, <2>4, <2>7
<1>15. NotifOrder'
  BY <1>1, <1>14 DEF NotifOrder
<1>16. ASSUME NEW q \in Pipes
       PROVE  Order(rx_head[q], rx_tail[q], pending'[q], dma_tail[q], pkt_tail[q])
  <2>1. Order(rx_head[q], rx_tail[q], pending[q], dma_tail[q], pkt_tail[q])
    BY DEF StreamInv, PipesOrder
  <2>2. CASE q = n.queue_id
    <3>1. PipeDist(rx_head[q], pending[q]) <= PipeDist(rx_head[q], n.tail)
          /\ PipeDist(rx_head[q], n.tail) <= PipeDist(rx_head[q], dma_tail[q])
      BY <1>2, <1>3, <1>13, <2>2 DEF Notified, n, b
    <3>2. /\ PipeDist(rx_head[q], pending[q]) \in Nat /\ PipeDist(rx_head[q], n.tail) \in Nat
          /\ PipeDist(rx_head[q], rx_tail[q]) \in Nat
      BY <1>2, <1>3, PipeDistType
    <3>3. PipeDist(rx_head[q], rx_tail[q]) <= PipeDist(rx_head[q], n.tail)
      BY <2>1, <3>1, <3>2 DEF Order
    <3> QED BY <1>4, <2>1, <2>2, <3>1, <3>3 DEF Order
  <2>3. CASE q # n.queue_id
    BY <1>4, <2>1, <2>3
  <2> QED BY <2>2, <2>3
<1>17. PipesOrder'
  BY <1>1, <1>16 DEF StreamInv, PipesOrder
<1>18. Marks' /\ AtDescriptor' /\ StreamOrder'
  BY <1>1, MarksSame, ViewSame DEF StreamInv, StreamOrder
<1> QED BY <1>12, <1>15, <1>17, <1>18 DEF StreamInv

\* Software gives slots back.
LEMMA ReturnStep ==
  ASSUME StreamInv, TypeOK', GetNewTailsReturn
  PROVE  StreamInv'
<1>1. UNCHANGED <<pkt_head, pkt_tail, dsc_tail, pkt_out, dma_in, dma_state, rx_buf,
                  dma_tail, nb_head, pending, rx_head, rx_tail>>
  BY DEF GetNewTailsReturn, ringVars, pipeVars
<1>2. CASE ~consumed
  <2>1. dsc_head' = dsc_head
    BY <1>2 DEF GetNewTailsReturn
  <2> QED BY <1>1, <2>1, QuietStep
<1>3. CASE consumed
  <2>1. dsc_head' = nb_head
    BY <1>3 DEF GetNewTailsReturn
  <2> DEFINE U == {s \in Slots : Unread(s)}
  <2>2. PICK w \in Slots : Ring(dma_in, Len(dma_in), dsc_head, nb_head, w, dsc_tail, U)
    BY DEF StreamInv, RingShape
  <2>3. /\ Len(dma_in) \in Nat /\ dma_in \in [1 .. Len(dma_in) -> Metas]
        /\ dsc_head \in Slots /\ nb_head \in Slots /\ dsc_tail \in Slots
        /\ rx_buf \in [Slots -> Notifs] /\ rx_head \in [Pipes -> Flits]
        /\ pending \in [Pipes -> Flits] /\ dma_tail \in [Pipes -> Flits] /\ U \in SUBSET Slots
    BY FlowType DEF StreamInv, FlowTyped, TypeOK, NicTypeOK
  <2>4. (\A s \in Slots : s \in U <=> rx_buf[s].signal = 1) /\ U' = U
    BY <1>1 DEF Unread
  <2> HIDE DEF U
  <2>5. /\ Ring(dma_in, Len(dma_in), nb_head, nb_head, w, dsc_tail, U)
        /\ \A s \in U : RingDist(nb_head, s) = RingDist(dsc_head, s) - RingDist(dsc_head, nb_head)
    BY <2>2, <2>3, RingReturn
  <2>6. RingShape'
    BY <1>1, <2>1, <2>4, <2>5 DEF RingShape, U
  <2>7. Notified(rx_buf, dsc_head, rx_head, pending, dma_tail)
    BY DEF StreamInv, NotifOrder
  <2>8. Notified(rx_buf, nb_head, rx_head, pending, dma_tail)
    BY <2>3, <2>4, <2>5, <2>7, NotifiedReturn
  <2>9. NotifOrder'
    BY <1>1, <2>1, <2>8 DEF NotifOrder
  <2>10. Marks' /\ AtDescriptor' /\ StreamOrder'
    BY <1>1, MarksSame, ViewSame DEF StreamInv, StreamOrder
  <2>11. PipesOrder'
    BY <1>1 DEF StreamInv, PipesOrder
  <2> QED BY <2>6, <2>9, <2>10, <2>11 DEF StreamInv
<1>4. consumed \in BOOLEAN
  BY DEF StreamInv, TypeOK
<1> QED BY <1>2, <1>3, <1>4

\* An entry m joins the stream.
EntryView(m) ==
  [q |-> m.q, tail |-> m.tail,
   len |-> IF m.size > 0 /\ ~m.drop_data THEN m.size ELSE 0,
   live |-> (m.size > 0 /\ ~m.drop_data) \/ (m.size = 0 /\ m.needs_dsc)]

LEMMA FlowAppend ==
  ASSUME TypeOK, TypeOK', AtDescriptor, NEW m \in Metas, pkt_out' = Append(pkt_out, m),
         UNCHANGED <<dma_in, dma_state>>
  PROVE  /\ FlowLen' = FlowLen + 1 /\ EntryView(m) \in Views
         /\ \A i \in 1 .. FlowLen : View'[i] = View[i]
         /\ View'[FlowLen + 1] = EntryView(m)
<1>0. /\ pkt_out \in Seq(Metas) /\ Len(dma_in) \in Nat /\ Len(pkt_out) \in Nat
      /\ FlowLen \in Nat /\ FlowLen = Len(dma_in) + Len(pkt_out)
  BY FlowType DEF FlowTyped, FlowLen, TypeOK, NicTypeOK
<1>1. /\ Len(pkt_out') = Len(pkt_out) + 1 /\ pkt_out'[Len(pkt_out) + 1] = m
      /\ \A i \in 1 .. Len(pkt_out) : pkt_out'[i] = pkt_out[i]
  BY <1>0, Enqueue
<1>2. FlowLen' = FlowLen + 1
  BY <1>0, <1>1 DEF FlowLen
<1>3. ASSUME NEW i \in 1 .. FlowLen PROVE Flow(i)' = Flow(i)
  <2>1. CASE i <= Len(dma_in)
    BY <2>1 DEF Flow
  <2>2. CASE ~(i <= Len(dma_in))
    <3>1. i - Len(dma_in) \in 1 .. Len(pkt_out)
      BY <1>0, <2>2
    <3> QED BY <1>1, <2>2, <3>1 DEF Flow
  <2> QED BY <2>1, <2>2
<1>4. ASSUME NEW i \in 1 .. FlowLen PROVE View'[i] = View[i]
  <2>1. ViewOf(i)' = ViewOf(i)
    BY <1>3 DEF ViewOf, IsData, Live, Written
  <2>2. i \in 1 .. FlowLen + 1
    BY <1>0
  <2> QED BY <1>2, <2>1, <2>2 DEF View
<1>5. PICK k \in 1 .. FlowLen + 1 : k = FlowLen + 1
  BY <1>0
<1>6. Flow(k)' = m
  <2>1. ~(k <= Len(dma_in)) /\ k - Len(dma_in) = Len(pkt_out) + 1
    BY <1>0, <1>5
  <2> QED BY <1>1, <2>1 DEF Flow
<1>7. ~Written(k)'
  <2>1. dma_state = "SEND_DESCRIPTOR" => Len(dma_in) # 0
    BY DEF AtDescriptor, TypeOK, NicTypeOK
  <2>2. dma_state = "SEND_DESCRIPTOR" => k # 1
    BY <1>0, <1>5, <2>1
  <2> QED BY <2>2 DEF Written
<1>8. ViewOf(k)' = EntryView(m)
  BY <1>6, <1>7 DEF ViewOf, EntryView, IsData, Live
<1>9. View'[k] = EntryView(m)
  BY <1>2, <1>8 DEF View
<1>10. EntryView(m) \in Views
  <2>1. View'[k] \in Views
    BY <1>2, FlowTypeNext DEF FlowTyped
  <2> QED BY <1>9, <2>1
<1> QED BY <1>2, <1>4, <1>5, <1>9, <1>10

\* The packet queue manager: entry m, and n more flits of its pipe.
LEMMA ManageStep ==
  ASSUME StreamInv, TypeOK', NEW m \in Metas, NEW n \in Nat, pkt_out' = Append(pkt_out, m),
         Marked(m), n = EntryView(m).len, EntryView(m).live => m.tail = pkt_tail[m.q],
         PipeDist(rx_head[m.q], pkt_tail[m.q]) + n <= PipeSize - 1,
         pkt_tail'[m.q] = Advance(pkt_tail[m.q], n),
         \A r \in Pipes : r # m.q => pkt_tail'[r] = pkt_tail[r],
         UNCHANGED <<pkt_head, dsc_head, dsc_tail, dma_in, dma_state, rx_buf, dma_tail,
                     nb_head, pending, rx_head, rx_tail>>
  PROVE  StreamInv'
<1>1. /\ rx_head \in [Pipes -> Flits] /\ rx_tail \in [Pipes -> Flits]
      /\ pending \in [Pipes -> Flits] /\ dma_tail \in [Pipes -> Flits]
      /\ pkt_tail \in [Pipes -> Flits] /\ pkt_tail' \in [Pipes -> Flits]
  BY DEF StreamInv, TypeOK, NicTypeOK
<1>2. m.q \in Pipes
  BY MetaType
<1>3. /\ FlowLen' = FlowLen + 1 /\ EntryView(m) \in Views
      /\ \A i \in 1 .. FlowLen : View'[i] = View[i]
      /\ View'[FlowLen + 1] = EntryView(m)
  BY FlowAppend DEF StreamInv
<1>4. /\ FlowLen \in Nat /\ View \in [1 .. FlowLen -> Views]
      /\ View' \in [1 .. FlowLen + 1 -> Views]
  BY <1>3, FlowType, FlowTypeNext DEF StreamInv, FlowTyped
<1>5. PICK e \in Views : e = EntryView(m)
  BY <1>3
<1>6. e.q = m.q /\ e.tail = m.tail /\ e.len = n /\ (e.len > 0 => e.live)
      /\ (e.live => e.tail = pkt_tail[e.q])
  <2>1. e.q = m.q /\ e.tail = m.tail
    BY <1>5 DEF EntryView
  <2>2. e.len = n /\ (e.live => m.tail = pkt_tail[m.q])
    BY <1>5
  <2>3. e.len > 0 => e.live
    <3>1. CASE m.size > 0 /\ ~m.drop_data
      BY <1>5, <3>1 DEF EntryView
    <3>2. CASE ~(m.size > 0 /\ ~m.drop_data)
      <4>1. e.len = 0
        BY <1>5, <3>2 DEF EntryView
      <4> QED BY <4>1
    <3> QED BY <3>1, <3>2
  <2> QED BY <2>1, <2>2, <2>3
<1>7. Order(rx_head[m.q], rx_tail[m.q], pending[m.q], dma_tail[m.q], pkt_tail[m.q])
  BY <1>2 DEF StreamInv, PipesOrder
<1>8. Stream(View, FlowLen, rx_head, dma_tail, pkt_tail)
  BY DEF StreamInv, StreamOrder
<1>9. Stream(View', FlowLen + 1, rx_head, dma_tail, pkt_tail')
  <2>1. PipeDist(rx_head[e.q], dma_tail[e.q]) <= PipeDist(rx_head[e.q], pkt_tail[e.q])
    BY <1>6, <1>7 DEF Order
  <2>2. /\ PipeDist(rx_head[e.q], pkt_tail[e.q]) + e.len <= PipeSize - 1
        /\ pkt_tail'[e.q] = Advance(pkt_tail[e.q], e.len)
        /\ \A r \in Pipes : r # e.q => pkt_tail'[r] = pkt_tail[r]
    BY <1>6
  <2>3. Joins(e, rx_head, dma_tail, pkt_tail, pkt_tail')
    BY <1>6, <2>1, <2>2 DEF Joins
  <2>4. /\ StreamTyped(View, FlowLen, rx_head, dma_tail, pkt_tail)
        /\ StreamTyped(View', FlowLen + 1, rx_head, dma_tail, pkt_tail')
    BY <1>1, <1>4 DEF StreamTyped
  <2> QED BY <1>3, <1>5, <1>8, <2>3, <2>4, StreamAppend
<1>10. StreamOrder'
  BY <1>3, <1>9 DEF StreamOrder
<1>11. ASSUME NEW q \in Pipes
       PROVE  Order(rx_head[q], rx_tail[q], pending[q], dma_tail[q], pkt_tail'[q])
  <2>1. Order(rx_head[q], rx_tail[q], pending[q], dma_tail[q], pkt_tail[q])
    BY DEF StreamInv, PipesOrder
  <2>2. CASE q = m.q
    <3>0. rx_head[q] \in Flits /\ pkt_tail[q] \in Flits /\ dma_tail[q] \in Flits
      BY <1>1
    <3>1. PipeDist(rx_head[q], Advance(pkt_tail[q], n)) = PipeDist(rx_head[q], pkt_tail[q]) + n
      <4>1. PipeDist(rx_head[q], pkt_tail[q]) + n <= PipeSize - 1 /\ n \in Nat
        BY <2>2
      <4> QED BY <3>0, <4>1, PipeMove
    <3>2. /\ PipeDist(rx_head[q], pkt_tail[q]) \in Nat /\ PipeDist(rx_head[q], dma_tail[q]) \in Nat
      BY <3>0, PipeDistType
    <3>3. PipeDist(rx_head[q], dma_tail[q]) <= PipeDist(rx_head[q], Advance(pkt_tail[q], n))
      BY <2>1, <3>1, <3>2 DEF Order
    <3> QED BY <2>1, <2>2, <3>3 DEF Order
  <2>3. CASE q # m.q
    BY <2>1, <2>3
  <2> QED BY <2>2, <2>3
<1>12. PipesOrder'
  BY <1>11 DEF StreamInv, PipesOrder
<1>13. Marks'
  <2>1. pkt_out \in Seq(Metas)
    BY DEF StreamInv, TypeOK, NicTypeOK
  <2>2. /\ Len(pkt_out') = Len(pkt_out) + 1 /\ pkt_out'[Len(pkt_out) + 1] = m
        /\ Len(pkt_out) \in Nat
        /\ \A i \in 1 .. Len(pkt_out) : pkt_out'[i] = pkt_out[i]
    BY <2>1, Enqueue
  <2>3. ASSUME NEW i \in 1 .. Len(pkt_out') PROVE Marked(pkt_out'[i])
    <3>1. i \in 1 .. Len(pkt_out) \/ i = Len(pkt_out) + 1
      BY <2>2
    <3>2. \A j \in 1 .. Len(pkt_out) : Marked(pkt_out[j])
      BY DEF StreamInv, Marks
    <3>3. CASE i \in 1 .. Len(pkt_out)
      <4>1. pkt_out'[i] = pkt_out[i] /\ Marked(pkt_out[i])
        BY <2>2, <3>2, <3>3
      <4> QED BY <4>1
    <3>4. CASE i = Len(pkt_out) + 1
      BY <2>2, <3>4
    <3> QED BY <3>1, <3>3, <3>4
  <2>4. \A i \in 1 .. Len(dma_in) : Marked(dma_in[i])
    BY DEF StreamInv, Marks
  <2> QED BY <2>3, <2>4 DEF Marks
<1>14. AtDescriptor' /\ RingShape'
  BY RingSame DEF StreamInv, AtDescriptor
<1>15. NotifOrder'
  BY DEF StreamInv, NotifOrder
<1> QED BY <1>10, <1>12, <1>13, <1>14, <1>15 DEF StreamInv

\* A packet that fits, or is dropped.
LEMMA ManagePacketStep ==
  ASSUME StreamInv, TypeOK', ManagePacket, UNCHANGED swVars
  PROVE  StreamInv'
<1> DEFINE q == Head(in_queue).q
           size == Head(in_queue).size
           full == RingFree(pkt_head[q], pkt_tail[q], PipeSize) < size
           m == [q |-> q, size |-> size, tail |-> pkt_tail[q],
                 needs_dsc |-> NeedsDsc(q) /\ ~full,
                 drop_data |-> full, drop_meta |-> full, slot |-> 0]
<1>1. /\ pkt_out' = Append(pkt_out, m) /\ size > 0
      /\ pkt_tail' = IF full THEN pkt_tail ELSE [pkt_tail EXCEPT ![q] = Advance(@, size)]
      /\ UNCHANGED <<pkt_head, dsc_head, dsc_tail, dma_in, dma_state, rx_buf, dma_tail,
                     nb_head, pending, rx_head, rx_tail>>
  BY DEF ManagePacket, swVars, ringVars, pipeVars
<1>2. /\ pkt_head \in [Pipes -> Flits] /\ pkt_tail \in [Pipes -> Flits]
      /\ status \in [Pipes -> BOOLEAN]
      /\ in_queue \in Seq([q : Pipes, size : 0 .. MaxPkt]) /\ in_queue # <<>>
  BY DEF StreamInv, TypeOK, NicTypeOK, ManagePacket
<1>3. q \in Pipes /\ size \in 0 .. MaxPkt
  <2>1. Head(in_queue) \in [q : Pipes, size : 0 .. MaxPkt]
    BY <1>2, Dequeue
  <2> QED BY <2>1
<1>4. full \in BOOLEAN /\ (NeedsDsc(q) /\ ~full) \in BOOLEAN
  OBVIOUS
<1>5. ~full => RingFree(pkt_head[q], pkt_tail[q], PipeSize) >= size
  <2>1. RingFree(pkt_head[q], pkt_tail[q], PipeSize) \in Int /\ size \in Int
    <3>1. pkt_head[q] \in Int /\ pkt_tail[q] \in Int /\ PipeSize \in Nat /\ PipeSize >= 1
          /\ MaxPkt \in Nat
      <4>1. pkt_head[q] \in Flits /\ pkt_tail[q] \in Flits
        BY <1>2, <1>3
      <4> HIDE DEF q
      <4> QED BY <4>1, Sizes
    <3>2. pkt_head[q] - pkt_tail[q] - 1 \in Int
      BY <3>1
    <3> HIDE DEF q, size
    <3> QED BY <1>3, <3>1, <3>2, ModDiv DEF RingFree
  <2> QED BY <2>1
<1> HIDE DEF q, size, full
<1>6. m \in Metas
  <2>1. pkt_tail[q] \in Flits /\ 0 \in Slots
    BY <1>2, <1>3, Sizes
  <2> QED BY <1>3, <1>4, <2>1 DEF Metas
<1>7. m.q = q /\ m.size = size /\ m.tail = pkt_tail[q] /\ m.drop_data = full
      /\ m.drop_meta = full /\ m.needs_dsc = (NeedsDsc(q) /\ ~full)
  OBVIOUS
<1>8. Marked(m)
  <2>1. size # 0
    BY <1>1
  <2>2. CASE full
    <3>1. m.drop_data = TRUE /\ m.drop_meta = TRUE /\ m.needs_dsc = FALSE /\ m.size = size
      BY <2>2
    <3> HIDE DEF m
    <3> QED BY <2>1, <3>1 DEF Marked
  <2>3. CASE ~full
    <3>1. m.drop_data = FALSE /\ m.drop_meta = FALSE /\ m.size = size
      BY <1>4, <2>3
    <3> HIDE DEF m
    <3> QED BY <2>1, <3>1 DEF Marked
  <2> QED BY <1>4, <2>2, <2>3
<1>9. PICK n \in Nat : n = IF full THEN 0 ELSE size
  BY <1>3, Sizes
<1>10. n = EntryView(m).len
  BY <1>1, <1>7, <1>9 DEF EntryView
<1>11. pkt_head[q] = rx_head[q] /\ rx_head \in [Pipes -> Flits]
  BY <1>3 DEF StreamInv, PipesOrder, TypeOK
<1>12. PipeDist(rx_head[q], pkt_tail[q]) + n <= PipeSize - 1
  <2>1. /\ rx_head[q] \in Flits /\ pkt_tail[q] \in Flits /\ rx_head[q] \in Int
        /\ pkt_tail[q] \in Int /\ PipeSize \in Nat /\ PipeSize >= 1
    <3>1. rx_head[q] \in Flits /\ pkt_tail[q] \in Flits
      BY <1>2, <1>3, <1>11
    <3> QED BY <3>1, Sizes
  <2>2. PipeDist(rx_head[q], pkt_tail[q]) \in 0 .. PipeSize - 1
    BY <2>1, PipeDistType
  <2>3. RingFree(rx_head[q], pkt_tail[q], PipeSize) = PipeSize - 1 - PipeDist(rx_head[q], pkt_tail[q])
    BY <2>1, DistFree DEF RingFree, PipeDist
  <2>4. CASE full
    BY <1>9, <2>1, <2>2, <2>4
  <2>5. CASE ~full
    <3>1. RingFree(rx_head[q], pkt_tail[q], PipeSize) >= size
      BY <1>5, <1>11, <2>5
    <3>2. size \in Nat /\ n = size
      BY <1>3, <1>9, <2>5, Sizes
    <3> QED BY <2>1, <2>2, <2>3, <3>1, <3>2
  <2> QED BY <2>4, <2>5
<1>13. pkt_tail'[q] = Advance(pkt_tail[q], n) /\ \A r \in Pipes : r # q => pkt_tail'[r] = pkt_tail[r]
  <2>1. Advance(pkt_tail[q], 0) = pkt_tail[q]
    BY <1>2, <1>3, AdvanceZero
  <2> QED BY <1>1, <1>2, <1>3, <1>9, <2>1
<1>14. m.tail = pkt_tail[m.q]
  BY <1>7
<1>15. PipeDist(rx_head[m.q], pkt_tail[m.q]) + n <= PipeSize - 1
       /\ pkt_tail'[m.q] = Advance(pkt_tail[m.q], n)
       /\ \A r \in Pipes : r # m.q => pkt_tail'[r] = pkt_tail[r]
  BY <1>7, <1>12, <1>13
<1> HIDE DEF m
<1> QED BY <1>1, <1>6, <1>8, <1>10, <1>14, <1>15, ManageStep

\* A request for a descriptor.
LEMMA ManageHeadUpdStep ==
  ASSUME StreamInv, TypeOK', ManageHeadUpd, UNCHANGED swVars
  PROVE  StreamInv'
<1> DEFINE q == Head(in_queue).q
           e == pkt_head[q] = pkt_tail[q]
           m == [q |-> q, size |-> 0, tail |-> pkt_tail[q], needs_dsc |-> ~e,
                 drop_data |-> FALSE, drop_meta |-> e, slot |-> 0]
<1>1. /\ pkt_out' = Append(pkt_out, m) /\ pkt_tail' = pkt_tail
      /\ UNCHANGED <<pkt_head, dsc_head, dsc_tail, dma_in, dma_state, rx_buf, dma_tail,
                     nb_head, pending, rx_head, rx_tail>>
  BY DEF ManageHeadUpd, swVars, ringVars, pipeVars
<1>2. /\ pkt_tail \in [Pipes -> Flits] /\ rx_head \in [Pipes -> Flits]
      /\ in_queue \in Seq([q : Pipes, size : 0 .. MaxPkt]) /\ in_queue # <<>>
  BY DEF StreamInv, TypeOK, NicTypeOK, ManageHeadUpd
<1>3. q \in Pipes
  <2>1. Head(in_queue) \in [q : Pipes, size : 0 .. MaxPkt]
    BY <1>2, Dequeue
  <2> QED BY <2>1
<1>4. e \in BOOLEAN
  OBVIOUS
<1> HIDE DEF q, e
<1>5. rx_head[q] \in Flits /\ pkt_tail[q] \in Flits
  BY <1>2, <1>3
<1>6. m \in Metas
  <2>1. 0 \in Slots /\ 0 \in 0 .. MaxPkt
    BY Sizes
  <2> QED BY <1>3, <1>4, <1>5, <2>1 DEF Metas
<1>7. m.q = q /\ m.size = 0 /\ m.tail = pkt_tail[q] /\ m.drop_data = FALSE
      /\ m.drop_meta = e /\ m.needs_dsc = ~e
  OBVIOUS
<1>8. Marked(m)
  <2>1. CASE e
    <3>1. m.drop_meta = TRUE /\ m.needs_dsc = FALSE /\ m.size = 0
      BY <2>1
    <3> HIDE DEF m
    <3> QED BY <3>1 DEF Marked
  <2>2. CASE ~e
    <3>1. m.drop_meta = FALSE /\ m.needs_dsc = TRUE /\ m.size = 0
      BY <1>4, <2>2
    <3> HIDE DEF m
    <3> QED BY <3>1 DEF Marked
  <2> QED BY <1>4, <2>1, <2>2
<1>9. 0 = EntryView(m).len
  BY <1>7 DEF EntryView
<1>10. PipeDist(rx_head[m.q], pkt_tail[m.q]) + 0 <= PipeSize - 1
  <2>1. PipeDist(rx_head[q], pkt_tail[q]) \in 0 .. PipeSize - 1 /\ PipeSize \in Nat
    BY <1>5, PipeDistType, Sizes
  <2>2. m.q = q
    BY <1>7
  <2> HIDE DEF m
  <2> QED BY <2>1, <2>2
<1>11. m.tail = pkt_tail[m.q] /\ pkt_tail'[m.q] = Advance(pkt_tail[m.q], 0)
       /\ \A r \in Pipes : r # m.q => pkt_tail'[r] = pkt_tail[r]
  BY <1>1, <1>5, <1>7, AdvanceZero
<1> HIDE DEF m
<1>12. 0 \in Nat
  OBVIOUS
<1> QED BY <1>1, <1>6, <1>8, <1>9, <1>10, <1>11, <1>12, ManageStep

\* The descriptor queue manager moves an entry from pkt_out to dma_in.
LEMMA ReserveStep ==
  ASSUME StreamInv, Room, TypeOK', ReserveSlot, UNCHANGED swVars
  PROVE  StreamInv'
<1> DEFINE m == Head(pkt_out)
           e == [m EXCEPT !.slot = dsc_tail]
           n == Len(dma_in)
<1>1. /\ pkt_out # <<>> /\ pkt_out' = Tail(pkt_out)
      /\ UNCHANGED <<pkt_head, pkt_tail, dsc_head, dma_state, rx_buf, dma_tail,
                     nb_head, pending, rx_head, rx_tail>>
  BY DEF ReserveSlot, swVars, ringVars, pipeVars
<1>2. /\ pkt_out \in Seq(Metas) /\ dma_in \in Seq(Metas) /\ dsc_head \in Slots
      /\ dsc_tail \in Slots /\ dsc_tail' \in Slots /\ nb_head \in Slots
  BY DEF StreamInv, TypeOK, NicTypeOK
<1>3. /\ Len(pkt_out) \in Nat /\ Len(pkt_out) >= 1 /\ m = pkt_out[1] /\ m \in Metas
      /\ Len(pkt_out') = Len(pkt_out) - 1
      /\ \A i \in 1 .. Len(pkt_out) - 1 : pkt_out'[i] = pkt_out[i + 1]
  BY <1>1, <1>2, Dequeue
<1>4. m.needs_dsc \in BOOLEAN /\ (m.needs_dsc => RingFree(dsc_head, dsc_tail, N) # 0)
  BY <1>1, <1>3, MetaType DEF Room
<1>5. /\ e \in Metas /\ e.q = m.q /\ e.size = m.size /\ e.tail = m.tail
      /\ e.needs_dsc = m.needs_dsc /\ e.drop_data = m.drop_data /\ e.drop_meta = m.drop_meta
      /\ e.slot = dsc_tail
  BY <1>2, <1>3 DEF Metas
<1>6. [m EXCEPT !.slot = dsc_tail, !.needs_dsc = @ /\ ~(m.needs_dsc /\ RingFree(dsc_head, dsc_tail, N) = 0)] = e
  <2>1. (m.needs_dsc /\ ~(m.needs_dsc /\ RingFree(dsc_head, dsc_tail, N) = 0)) = m.needs_dsc
    BY <1>4
  <2>2. m \in Metas
    BY <1>3
  <2> HIDE DEF m
  <2> QED BY <2>1, <2>2 DEF Metas
<1>7. dma_in' = Append(dma_in, e)
  BY <1>6 DEF ReserveSlot, ReservedSlot
<1>8. dsc_tail' = IF m.needs_dsc THEN (dsc_tail + 1) % N ELSE dsc_tail
  BY <1>4 DEF ReserveSlot
<1> HIDE DEF m, e
<1>9. /\ n \in Nat /\ Len(dma_in') = n + 1 /\ dma_in'[n + 1] = e
      /\ \A i \in 1 .. n : dma_in'[i] = dma_in[i]
  BY <1>2, <1>5, <1>7, Enqueue
<1>10. FlowLen' = FlowLen /\ FlowLen \in Nat /\ FlowLen = n + Len(pkt_out)
  BY <1>3, <1>9 DEF FlowLen
<1>11. ASSUME NEW i \in 1 .. FlowLen PROVE ViewOf(i)' = ViewOf(i)
  <2>1. CASE i \in 1 .. n
    <3>1. Flow(i)' = Flow(i)
      BY <1>9, <2>1 DEF Flow
    <3> QED BY <1>1, <3>1 DEF ViewOf, IsData, Live, Written
  <2>2. CASE i = n + 1
    <3>1. Flow(i)' = e
      BY <1>9, <2>2 DEF Flow
    <3>2. Flow(i) = m
      BY <1>3, <1>9, <2>2 DEF Flow
    <3> QED BY <1>1, <1>5, <3>1, <3>2 DEF ViewOf, IsData, Live, Written
  <2>3. CASE i > n + 1
    <3>1. i - (n + 1) \in 1 .. Len(pkt_out) - 1 /\ (i - (n + 1)) + 1 = i - n
          /\ ~(i <= n + 1) /\ ~(i <= n)
      BY <1>3, <1>9, <1>10, <2>3
    <3>2. pkt_out'[i - (n + 1)] = pkt_out[i - n]
      BY <1>3, <3>1
    <3>3. Flow(i)' = Flow(i)
      BY <1>9, <3>1, <3>2 DEF Flow
    <3> QED BY <1>1, <3>3 DEF ViewOf, IsData, Live, Written
  <2> QED BY <1>9, <2>1, <2>2, <2>3
<1>12. StreamOrder'
  <2>1. View' = View
    BY <1>10, <1>11 DEF View
  <2> QED BY <1>1, <1>10, <2>1 DEF StreamInv, StreamOrder
<1>13. Marks'
  <2>1. Marked(m)
    <3>1. 1 \in 1 .. Len(pkt_out)
      BY <1>3
    <3> QED BY <1>3, <3>1 DEF StreamInv, Marks
  <2>2. Marked(e)
    BY <1>5, <2>1 DEF Marked
  <2>3. ASSUME NEW i \in 1 .. Len(dma_in') PROVE Marked(dma_in'[i])
    <3>1. i \in 1 .. n \/ i = n + 1
      BY <1>9
    <3>2. CASE i \in 1 .. n
      <4>1. Marked(dma_in[i])
        BY <3>2 DEF StreamInv, Marks
      <4> QED BY <1>9, <3>2, <4>1
    <3>3. CASE i = n + 1
      BY <1>9, <2>2, <3>3
    <3> QED BY <3>1, <3>2, <3>3
  <2>4. ASSUME NEW i \in 1 .. Len(pkt_out') PROVE Marked(pkt_out'[i])
    <3>1. PICK k \in 1 .. Len(pkt_out) : k = i + 1
      BY <1>3
    <3>2. pkt_out'[i] = pkt_out[k]
      BY <1>3, <3>1
    <3>3. Marked(pkt_out[k])
      BY DEF StreamInv, Marks
    <3> QED BY <3>2, <3>3
  <2> QED BY <2>3, <2>4 DEF Marks
<1>14. AtDescriptor'
  <2>1. ASSUME dma_state = "SEND_DESCRIPTOR"
        PROVE  /\ dma_in' # <<>>
               /\ dma_in'[1].size > 0 =>
                    dma_in'[1].needs_dsc /\ dma_in'[1].tail = dma_tail[dma_in'[1].q]
    <3>1. dma_in # <<>> /\ (dma_in[1].size > 0 =>
            dma_in[1].needs_dsc /\ dma_in[1].tail = dma_tail[dma_in[1].q])
      BY <2>1 DEF StreamInv, AtDescriptor
    <3>2. 1 \in 1 .. n
      BY <1>2, <3>1, Dequeue
    <3>3. dma_in'[1] = dma_in[1] /\ dma_in' # <<>>
      BY <1>2, <1>7, <1>9, <3>2
    <3> QED BY <3>1, <3>3
  <2> QED BY <1>1, <2>1 DEF AtDescriptor
<1>15. RingShape'
  <2> DEFINE U == {s \in Slots : Unread(s)}
  <2>1. PICK w \in Slots : Ring(dma_in, n, dsc_head, nb_head, w, dsc_tail, U)
    BY DEF StreamInv, RingShape
  <2>2. U' = U /\ U \in SUBSET Slots
    BY <1>1 DEF Unread
  <2>3. dma_in \in [1 .. n -> Metas] /\ dma_in' \in [1 .. n + 1 -> Metas]
    <3>1. dma_in' \in [1 .. Len(dma_in') -> Metas]
      BY FlowTypeNext DEF FlowTyped
    <3> QED BY <1>2, <1>9, <3>1
  <2> HIDE DEF U
  <2>4. CASE m.needs_dsc
    <3>1. Ring(dma_in', n + 1, dsc_head, nb_head, w, (dsc_tail + 1) % N, U)
      <4>1. dma_in'[n + 1].needs_dsc /\ dma_in'[n + 1].slot = dsc_tail
        BY <1>5, <1>9, <2>4
      <4>2. RingFree(dsc_head, dsc_tail, N) # 0
        BY <1>4, <2>4
      <4> HIDE DEF n
      <4> QED BY <1>2, <1>9, <2>1, <2>2, <2>3, <4>1, <4>2, RingReserve
    <3> QED BY <1>1, <1>8, <1>9, <2>2, <2>4, <3>1 DEF RingShape, U
  <2>5. CASE ~m.needs_dsc
    <3>1. Ring(dma_in', n + 1, dsc_head, nb_head, w, dsc_tail, U)
      <4>1. ~dma_in'[n + 1].needs_dsc
        BY <1>5, <1>9, <2>5
      <4> HIDE DEF n
      <4> QED BY <1>2, <1>9, <2>1, <2>2, <2>3, <4>1, RingPass
    <3> QED BY <1>1, <1>8, <1>9, <2>2, <2>5, <3>1 DEF RingShape, U
  <2> QED BY <2>4, <2>5
<1>16. NotifOrder' /\ PipesOrder'
  BY <1>1 DEF StreamInv, NotifOrder, PipesOrder
<1> QED BY <1>12, <1>13, <1>14, <1>15, <1>16 DEF StreamInv

\* A descriptor-only entry holds no data.
LEMMA StartStep ==
  ASSUME StreamInv, TypeOK', StartDescriptor, UNCHANGED swVars
  PROVE  StreamInv'
<1>1. /\ dma_state = "START_TRANSFER" /\ dma_state' = "SEND_DESCRIPTOR"
      /\ dma_in # <<>> /\ Head(dma_in).size = 0
      /\ UNCHANGED <<pkt_head, pkt_tail, dsc_head, dsc_tail, pkt_out, dma_in, rx_buf,
                     dma_tail, nb_head, pending, rx_head, rx_tail>>
  BY DEF StartDescriptor, descriptor_only, swVars, ringVars, pipeVars
<1>2. dma_in \in Seq(Metas)
  BY DEF StreamInv, TypeOK, NicTypeOK
<1>3. Len(dma_in) \in Nat /\ Len(dma_in) >= 1 /\ dma_in[1].size = 0
  BY <1>1, <1>2, Dequeue
<1>4. ASSUME NEW i \in 1 .. FlowLen PROVE ViewOf(i)' = ViewOf(i)
  <2>1. Flow(i)' = Flow(i)
    BY <1>1 DEF Flow
  <2>2. CASE i = 1
    <3>1. Flow(i).size = 0
      BY <1>3, <2>2 DEF Flow
    <3> QED BY <2>1, <3>1 DEF ViewOf, IsData, Live
  <2>3. CASE i # 1
    BY <2>1, <2>3 DEF ViewOf, IsData, Live, Written
  <2> QED BY <2>2, <2>3
<1>5. View' = View /\ FlowLen' = FlowLen
  BY <1>1, <1>4 DEF View, FlowLen
<1>6. StreamOrder'
  BY <1>1, <1>5 DEF StreamInv, StreamOrder
<1>7. Marks' /\ RingShape'
  BY <1>1, RingSame DEF StreamInv, Marks
<1>8. AtDescriptor'
  BY <1>1, <1>3 DEF AtDescriptor
<1>9. NotifOrder' /\ PipesOrder'
  BY <1>1 DEF StreamInv, NotifOrder, PipesOrder
<1> QED BY <1>6, <1>7, <1>8, <1>9 DEF StreamInv

\* The first entry leaves the stream.
LEMMA FlowPop ==
  ASSUME TypeOK, TypeOK', Marks, dma_in # <<>>, dma_in' = Tail(dma_in), pkt_out' = pkt_out,
         dma_state' = "START_TRANSFER"
  PROVE  /\ FlowLen \in Nat /\ FlowLen >= 1 /\ FlowLen' = FlowLen - 1
         /\ View \in [1 .. FlowLen -> Views] /\ View' \in [1 .. FlowLen - 1 -> Views]
         /\ \A i \in 1 .. FlowLen - 1 : View'[i] = View[i + 1]
         /\ Len(dma_in) \in Nat /\ Len(dma_in) >= 1 /\ Len(dma_in') = Len(dma_in) - 1
         /\ dma_in \in [1 .. Len(dma_in) -> Metas]
         /\ dma_in' \in [1 .. Len(dma_in) - 1 -> Metas]
         /\ \A i \in 1 .. Len(dma_in) - 1 : dma_in'[i] = dma_in[i + 1]
         /\ Flow(1) = dma_in[1] /\ Head(dma_in) = dma_in[1] /\ dma_in[1] \in Metas
         /\ View[1] = ViewOf(1)
         /\ Marks' /\ AtDescriptor'
<1> DEFINE n == Len(dma_in)
<1>1. dma_in \in Seq(Metas) /\ Len(pkt_out) \in Nat
  BY DEF TypeOK, NicTypeOK
<1>2. /\ n \in Nat /\ n >= 1 /\ Len(dma_in') = n - 1
      /\ Head(dma_in) = dma_in[1] /\ dma_in[1] \in Metas
      /\ \A i \in 1 .. n - 1 : dma_in'[i] = dma_in[i + 1]
  BY <1>1, Dequeue
<1>3. FlowLen = n + Len(pkt_out) /\ FlowLen' = (n - 1) + Len(pkt_out)
  BY <1>2 DEF FlowLen
<1>4. FlowLen \in Nat /\ FlowLen >= 1 /\ FlowLen' = FlowLen - 1
  BY <1>1, <1>2, <1>3
<1>5. /\ View \in [1 .. FlowLen -> Views] /\ dma_in \in [1 .. n -> Metas]
      /\ View' \in [1 .. FlowLen - 1 -> Views] /\ dma_in' \in [1 .. n - 1 -> Metas]
  BY <1>2, <1>4, FlowType, FlowTypeNext DEF FlowTyped
<1>6. ASSUME NEW i \in 1 .. FlowLen - 1 PROVE View'[i] = View[i + 1]
  <2>1. PICK k \in 1 .. FlowLen : k = i + 1
    BY <1>4
  <2>2. Flow(i)' = Flow(k)
    <3>1. CASE i <= n - 1
      <4>1. i \in 1 .. n - 1 /\ k <= n
        BY <1>2, <2>1, <3>1
      <4> QED BY <1>2, <2>1, <3>1, <4>1 DEF Flow
    <3>2. CASE ~(i <= n - 1)
      <4>1. i - (n - 1) = k - n /\ ~(k <= n)
        BY <1>2, <2>1, <3>2
      <4> QED BY <1>2, <3>2, <4>1 DEF Flow
    <3> QED BY <3>1, <3>2
  <2>3. ~Written(k) /\ ~Written(i)'
    BY <2>1 DEF Written
  <2>4. ViewOf(i)' = ViewOf(k)
    BY <2>2, <2>3 DEF ViewOf, IsData, Live
  <2>5. View'[i] = ViewOf(i)'
    BY <1>4 DEF View
  <2>6. View[k] = ViewOf(k)
    BY DEF View
  <2> QED BY <2>1, <2>4, <2>5, <2>6
<1>7. 1 \in 1 .. FlowLen
  BY <1>4
<1>8. Flow(1) = dma_in[1] /\ View[1] = ViewOf(1)
  BY <1>2, <1>7 DEF Flow, View
<1>9. ASSUME NEW i \in 1 .. Len(dma_in') PROVE Marked(dma_in'[i])
  <2>1. PICK k \in 1 .. n : k = i + 1
    BY <1>2
  <2>2. dma_in'[i] = dma_in[k]
    BY <1>2, <2>1
  <2>3. Marked(dma_in[k])
    BY DEF Marks
  <2> QED BY <2>2, <2>3
<1>10. Marks' /\ AtDescriptor'
  BY <1>9 DEF Marks, AtDescriptor
<1> QED BY <1>2, <1>4, <1>5, <1>6, <1>8, <1>10

\* fpga_to_cpu writes a packet.
LEMMA DmaStep ==
  ASSUME StreamInv, TypeOK', DmaPacket, UNCHANGED swVars
  PROVE  StreamInv'
<1> DEFINE m == Head(dma_in)
           end == Advance(m.tail, m.size)
           n == FlowLen
<1>1. /\ dma_state = "START_TRANSFER" /\ dma_in # <<>> /\ m.size # 0
      /\ dma_tail' = IF m.drop_data THEN dma_tail ELSE [dma_tail EXCEPT ![m.q] = end]
      /\ UNCHANGED <<pkt_head, pkt_tail, dsc_head, dsc_tail, pkt_out, rx_buf,
                     nb_head, pending, rx_head, rx_tail>>
  BY DEF DmaPacket, descriptor_only, swVars, ringVars, pipeVars
<1>2. IF m.needs_dsc THEN dma_in' = [dma_in EXCEPT ![1].tail = end] /\ dma_state' = "SEND_DESCRIPTOR"
                     ELSE dma_in' = Tail(dma_in) /\ dma_state' = "START_TRANSFER"
  BY DEF DmaPacket
<1>3. /\ dma_in \in Seq(Metas) /\ rx_buf \in [Slots -> Notifs]
      /\ rx_head \in [Pipes -> Flits] /\ rx_tail \in [Pipes -> Flits]
      /\ pending \in [Pipes -> Flits] /\ pkt_tail \in [Pipes -> Flits]
      /\ dma_tail \in [Pipes -> Flits] /\ dma_tail' \in [Pipes -> Flits]
      /\ dsc_head \in Slots /\ dsc_tail \in Slots /\ nb_head \in Slots
  BY DEF StreamInv, TypeOK, NicTypeOK
<1>4. /\ Len(dma_in) \in Nat /\ Len(dma_in) >= 1 /\ m = dma_in[1] /\ m \in Metas
      /\ 1 \in 1 .. Len(dma_in)
  BY <1>1, <1>3, Dequeue
<1>5. /\ m.q \in Pipes /\ m.tail \in Flits /\ m.size \in Nat /\ m.needs_dsc \in BOOLEAN
      /\ m.drop_data \in BOOLEAN /\ m.drop_meta \in BOOLEAN
  BY <1>4, MetaType
<1>6. Marked(m) /\ m.size > 0
  BY <1>1, <1>4, <1>5 DEF StreamInv, Marks
<1>7. n \in Nat /\ n >= 1 /\ 1 \in 1 .. n /\ View \in [1 .. n -> Views] /\ Flow(1) = m
  <2>1. n \in Nat /\ View \in [1 .. n -> Views] /\ Len(pkt_out) \in Nat
    BY FlowType DEF StreamInv, FlowTyped
  <2> QED BY <1>4, <2>1 DEF FlowLen, Flow
<1>8. View[1] = ViewOf(1) /\ ~Written(1)
  BY <1>1, <1>7 DEF View, Written
<1>9. Stream(View, n, rx_head, dma_tail, pkt_tail)
  BY DEF StreamInv, StreamOrder
<1>10. \A q \in Pipes : Order(rx_head[q], rx_tail[q], pending[q], dma_tail[q], pkt_tail[q])
  BY DEF StreamInv, PipesOrder
<1>11. Notified(rx_buf, dsc_head, rx_head, pending, dma_tail)
  BY DEF StreamInv, NotifOrder
<1> DEFINE U == {s \in Slots : Unread(s)}
<1>12. PICK w \in Slots : Ring(dma_in, Len(dma_in), dsc_head, nb_head, w, dsc_tail, U)
  BY DEF StreamInv, RingShape
<1>13. U' = U /\ U \in SUBSET Slots
  BY <1>1 DEF Unread
<1> HIDE DEF m, end, n, U
\* The entry leaves when it has no descriptor.
<1>14. ASSUME ~m.needs_dsc
       PROVE  /\ Marks' /\ AtDescriptor' /\ RingShape'
              /\ FlowLen' = n - 1 /\ View' \in [1 .. n - 1 -> Views]
              /\ \A i \in 1 .. n - 1 : View'[i] = View[i + 1]
  <2>1. dma_in' = Tail(dma_in) /\ dma_state' = "START_TRANSFER"
    BY <1>2, <1>14
  <2>2. /\ Marks' /\ AtDescriptor'
        /\ FlowLen' = n - 1 /\ View' \in [1 .. n - 1 -> Views]
        /\ \A i \in 1 .. n - 1 : View'[i] = View[i + 1]
        /\ Len(dma_in') = Len(dma_in) - 1
        /\ dma_in \in [1 .. Len(dma_in) -> Metas]
        /\ dma_in' \in [1 .. Len(dma_in) - 1 -> Metas]
        /\ \A i \in 1 .. Len(dma_in) - 1 : dma_in'[i] = dma_in[i + 1]
    BY <1>1, <2>1, FlowPop DEF StreamInv, n
  <2>3. Ring(dma_in', Len(dma_in) - 1, dsc_head, nb_head, w, dsc_tail, U)
    <3>1. ~dma_in[1].needs_dsc
      BY <1>4, <1>14
    <3> QED BY <1>3, <1>4, <1>12, <1>13, <2>2, <3>1, RingDrop
  <2>4. RingShape'
    BY <1>1, <1>13, <2>2, <2>3 DEF RingShape, U
  <2> QED BY <2>2, <2>4
<1>15. CASE m.drop_data
  <2>1. ~m.needs_dsc /\ dma_tail' = dma_tail
    BY <1>1, <1>5, <1>6, <1>15 DEF Marked
  <2>2. View[1].len = 0
    BY <1>7, <1>8, <1>15 DEF ViewOf, IsData
  <2>3. Stream(View', n - 1, rx_head, dma_tail, pkt_tail)
    BY <1>3, <1>7, <1>9, <1>14, <2>1, <2>2, StreamPop
  <2>4. StreamOrder'
    BY <1>1, <1>14, <2>1, <2>3 DEF StreamOrder
  <2>5. NotifOrder' /\ PipesOrder'
    BY <1>1, <2>1 DEF StreamInv, NotifOrder, PipesOrder
  <2> QED BY <1>14, <2>1, <2>4, <2>5 DEF StreamInv
<1>16. CASE ~m.drop_data
  <2>1. /\ dma_tail'[m.q] = end /\ \A r \in Pipes : r # m.q => dma_tail'[r] = dma_tail[r]
    BY <1>1, <1>3, <1>5, <1>16
  <2>2. /\ View[1].len > 0 /\ View[1].q = m.q /\ View[1].tail = m.tail
        /\ View[1].len = m.size
    BY <1>6, <1>7, <1>8, <1>16 DEF ViewOf, IsData
  <2> DEFINE W == [i \in 1 .. n |-> IF i = 1 THEN [View[1] EXCEPT !.len = 0, !.live = FALSE]
                                             ELSE View[i]]
  <2>3. /\ W \in [1 .. n -> Views] /\ ~W[1].live /\ W[1].len = 0
        /\ \A i \in 1 .. n : i # 1 => W[i] = View[i]
    <3>1. 0 \in 0 .. MaxPkt
      BY Sizes
    <3>2. [View[1] EXCEPT !.len = 0, !.live = FALSE] \in Views
      BY <1>7, <3>1 DEF Views
    <3>3. View[1] \in Views
      BY <1>7
    <3>4. ~[View[1] EXCEPT !.len = 0, !.live = FALSE].live
          /\ [View[1] EXCEPT !.len = 0, !.live = FALSE].len = 0
      BY <3>3 DEF Views
    <3> QED BY <1>7, <3>2, <3>4
  <2>4. PICK e \in [Pipes -> Flits] : e = dma_tail'
    BY <1>3
  <2> HIDE DEF W
  <2>5. /\ e[View[1].q] = Advance(View[1].tail, View[1].len)
        /\ \A r \in Pipes : r # View[1].q => e[r] = dma_tail[r]
    BY <2>1, <2>2, <2>4 DEF end
  <2>6. /\ Stream(W, n, rx_head, e, pkt_tail)
        /\ \A q \in Pipes :
              /\ PipeDist(rx_head[q], dma_tail[q]) <= PipeDist(rx_head[q], e[q])
              /\ PipeDist(rx_head[q], dma_tail[q]) <= PipeDist(rx_head[q], pkt_tail[q]) =>
                   PipeDist(rx_head[q], e[q]) <= PipeDist(rx_head[q], pkt_tail[q])
    <3>1. /\ StreamTyped(View, n, rx_head, dma_tail, pkt_tail)
          /\ StreamTyped(W, n, rx_head, e, pkt_tail)
      BY <1>3, <1>7, <2>3 DEF StreamTyped
    <3> QED BY <1>7, <1>9, <2>2, <2>3, <2>5, <3>1, StreamWritten
  <2>7. NotifOrder'
    <3>1. Notified(rx_buf, dsc_head, rx_head, pending, e)
      BY <1>3, <1>11, <2>6, NotifiedData
    <3> QED BY <1>1, <2>4, <3>1 DEF NotifOrder
  <2>8. PipesOrder'
    <3>1. ASSUME NEW q \in Pipes
          PROVE  Order(rx_head[q], rx_tail[q], pending[q], e[q], pkt_tail[q])
      <4>1. /\ PipeDist(rx_head[q], pending[q]) \in Nat /\ PipeDist(rx_head[q], dma_tail[q]) \in Nat
            /\ PipeDist(rx_head[q], e[q]) \in Nat
        BY <1>3, PipeDistType
      <4>2. Order(rx_head[q], rx_tail[q], pending[q], dma_tail[q], pkt_tail[q])
        BY <1>10
      <4>3. PipeDist(rx_head[q], pending[q]) <= PipeDist(rx_head[q], e[q])
        BY <2>6, <4>1, <4>2 DEF Order
      <4> QED BY <2>6, <4>2, <4>3 DEF Order
    <3> QED BY <1>1, <2>4, <3>1 DEF StreamInv, PipesOrder
  <2>9. CASE ~m.needs_dsc
    <3>1. \A i \in 1 .. n - 1 : View'[i] = W[i + 1]
      <4> TAKE i \in 1 .. n - 1
      <4>1. PICK k \in 1 .. n : k = i + 1 /\ k # 1
        BY <1>7
      <4>2. View'[i] = View[k]
        BY <1>14, <2>9, <4>1
      <4>3. W[k] = View[k]
        BY <2>3, <4>1
      <4> QED BY <4>1, <4>2, <4>3
    <3>2. Stream(View', n - 1, rx_head, e, pkt_tail)
      BY <1>3, <1>7, <1>14, <2>3, <2>6, <2>9, <3>1, StreamPop
    <3>3. StreamOrder'
      BY <1>1, <1>14, <2>4, <2>9, <3>2 DEF StreamOrder
    <3> QED BY <1>14, <2>7, <2>8, <2>9, <3>3 DEF StreamInv
  <2>10. CASE m.needs_dsc
    <3>1. dma_in' = [dma_in EXCEPT ![1].tail = end] /\ dma_state' = "SEND_DESCRIPTOR"
      BY <1>2, <2>10
    <3>2. /\ Len(dma_in') = Len(dma_in) /\ dma_in' \in [1 .. Len(dma_in) -> Metas]
          /\ \A i \in 1 .. Len(dma_in) : i # 1 => dma_in'[i] = dma_in[i]
      <4>1. Len(dma_in') = Len(dma_in)
        BY <1>3, <3>1
      <4>2. dma_in' \in [1 .. Len(dma_in) -> Metas]
        BY <4>1, FlowTypeNext DEF FlowTyped
      <4> QED BY <1>3, <3>1, <4>1, <4>2
    <3>3. /\ dma_in'[1] = [m EXCEPT !.tail = end]
      BY <1>3, <1>4, <3>1
    <3>4. LET f == [m EXCEPT !.tail = end]
          IN  /\ f.q = m.q /\ f.size = m.size /\ f.tail = end /\ f.needs_dsc = m.needs_dsc
              /\ f.drop_data = m.drop_data /\ f.drop_meta = m.drop_meta /\ f.slot = m.slot
      BY <1>4 DEF Metas
    <3>5. PICK f : f = dma_in'[1] /\ f.q = m.q /\ f.size = m.size /\ f.tail = end
                   /\ f.needs_dsc = m.needs_dsc /\ f.drop_data = m.drop_data
                   /\ f.drop_meta = m.drop_meta /\ f.slot = m.slot
      BY <3>3, <3>4
    <3>6. FlowLen' = n /\ Flow(1)' = f
      <4>1. FlowLen' = n
        BY <1>1, <3>2 DEF FlowLen, n
      <4> QED BY <1>4, <3>2, <3>5, <4>1 DEF Flow
    <3>7. ASSUME NEW i \in 1 .. n, i # 1 PROVE ViewOf(i)' = View[i]
      <4>1. Flow(i)' = Flow(i)
        BY <1>1, <1>4, <3>2, <3>7 DEF Flow
      <4>2. View[i] = ViewOf(i)
        BY DEF View, n
      <4> QED BY <3>7, <4>1, <4>2 DEF ViewOf, IsData, Live, Written
    <3>8. ViewOf(1)'.len = 0 /\ ~ViewOf(1)'.live
      <4>1. Written(1)'
        BY <3>1 DEF Written
      <4>2. Flow(1)'.size # 0
        BY <1>1, <3>5, <3>6
      <4> QED BY <4>1, <4>2 DEF ViewOf, IsData, Live
    <3>9. /\ View' \in [1 .. n -> Views] /\ View'[1].len = 0 /\ ~View'[1].live
          /\ \A i \in 1 .. n : i # 1 => View'[i] = View[i]
      <4>1. View' \in [1 .. n -> Views]
        BY <3>6, FlowTypeNext DEF FlowTyped
      <4>2. \A i \in 1 .. n : View'[i] = ViewOf(i)'
        BY <3>6 DEF View
      <4> QED BY <1>7, <3>7, <3>8, <4>1, <4>2
    <3>10. Stream(View', n, rx_head, e, pkt_tail)
      <4>1. /\ StreamTyped(View, n, rx_head, dma_tail, pkt_tail)
            /\ StreamTyped(View', n, rx_head, e, pkt_tail)
        BY <1>3, <1>7, <3>9 DEF StreamTyped
      <4> QED BY <1>7, <1>9, <2>2, <2>5, <3>9, <4>1, StreamWritten
    <3>11. StreamOrder'
      BY <1>1, <2>4, <3>6, <3>10 DEF StreamOrder
    <3>12. Marks'
      <4>1. ASSUME NEW i \in 1 .. Len(dma_in') PROVE Marked(dma_in'[i])
        <5>1. CASE i = 1
          BY <1>6, <3>5, <5>1 DEF Marked
        <5>2. CASE i # 1
          <6>1. i \in 1 .. Len(dma_in) /\ dma_in'[i] = dma_in[i]
            BY <3>2, <5>2
          <6>2. Marked(dma_in[i])
            BY <6>1 DEF StreamInv, Marks
          <6> QED BY <6>1, <6>2
        <5> QED BY <5>1, <5>2
      <4>2. \A i \in 1 .. Len(pkt_out) : Marked(pkt_out[i])
        BY DEF StreamInv, Marks
      <4> QED BY <1>1, <4>1, <4>2 DEF Marks
    <3>13. AtDescriptor'
      <4>1. dma_in' # <<>>
        BY <1>4, <3>2
      <4>2. dma_in'[1].needs_dsc /\ dma_in'[1].tail = dma_tail'[dma_in'[1].q]
        BY <2>1, <2>10, <3>5
      <4> QED BY <4>1, <4>2 DEF AtDescriptor
    <3>14. RingShape'
      <4>1. \A i \in 1 .. Len(dma_in) : /\ dma_in'[i].needs_dsc <=> dma_in[i].needs_dsc
                                        /\ dma_in'[i].slot = dma_in[i].slot
        BY <1>4, <3>2, <3>5
      <4>2. Ring(dma_in', Len(dma_in), dsc_head, nb_head, w, dsc_tail, U)
        BY <1>12, <4>1 DEF Ring
      <4> QED BY <1>1, <1>13, <3>2, <4>2 DEF RingShape, U
    <3> QED BY <2>7, <2>8, <3>11, <3>12, <3>13, <3>14 DEF StreamInv
  <2> QED BY <1>5, <2>9, <2>10
<1> QED BY <1>5, <1>15, <1>16

\* fpga_to_cpu writes a descriptor.
LEMMA SendStep ==
  ASSUME StreamInv, TypeOK', SendDescriptor, UNCHANGED swVars
  PROVE  StreamInv'
<1> DEFINE m == Head(dma_in)
           n == FlowLen
           l == Len(dma_in)
           U == {s \in Slots : Unread(s)}
<1>1. /\ dma_state = "SEND_DESCRIPTOR" /\ dma_state' = "START_TRANSFER"
      /\ dma_in' = Tail(dma_in)
      /\ rx_buf' = IF m.drop_meta THEN rx_buf
                   ELSE [rx_buf EXCEPT ![m.slot] =
                           [signal |-> 1, queue_id |-> m.q, tail |-> m.tail]]
      /\ UNCHANGED <<pkt_head, pkt_tail, dsc_head, dsc_tail, pkt_out, dma_tail,
                     nb_head, pending, rx_head, rx_tail>>
  BY DEF SendDescriptor, swVars, ringVars, pipeVars
<1>2. dma_in # <<>> /\ (dma_in[1].size > 0 =>
         dma_in[1].needs_dsc /\ dma_in[1].tail = dma_tail[dma_in[1].q])
  BY <1>1 DEF StreamInv, AtDescriptor
<1>3. /\ n \in Nat /\ n >= 1 /\ FlowLen' = n - 1
      /\ View \in [1 .. n -> Views] /\ View' \in [1 .. n - 1 -> Views]
      /\ \A i \in 1 .. n - 1 : View'[i] = View[i + 1]
      /\ l \in Nat /\ l >= 1 /\ Len(dma_in') = l - 1
      /\ dma_in \in [1 .. l -> Metas] /\ dma_in' \in [1 .. l - 1 -> Metas]
      /\ \A i \in 1 .. l - 1 : dma_in'[i] = dma_in[i + 1]
      /\ Flow(1) = dma_in[1] /\ m = dma_in[1] /\ dma_in[1] \in Metas
      /\ View[1] = ViewOf(1) /\ Marks' /\ AtDescriptor'
  BY <1>1, <1>2, FlowPop DEF StreamInv
<1>4. /\ rx_buf \in [Slots -> Notifs] /\ rx_buf' \in [Slots -> Notifs]
      /\ rx_head \in [Pipes -> Flits] /\ rx_tail \in [Pipes -> Flits]
      /\ pending \in [Pipes -> Flits] /\ pkt_tail \in [Pipes -> Flits]
      /\ dma_tail \in [Pipes -> Flits]
      /\ dsc_head \in Slots /\ dsc_tail \in Slots /\ nb_head \in Slots
  BY DEF StreamInv, TypeOK, NicTypeOK
<1>5. PICK w \in Slots : Ring(dma_in, l, dsc_head, nb_head, w, dsc_tail, U)
  BY DEF StreamInv, RingShape
<1>6. /\ U \in SUBSET Slots /\ \A s \in Slots : s \in U <=> rx_buf[s].signal = 1
  BY DEF Unread
<1> HIDE DEF m, n, l, U
<1>7. /\ m.q \in Pipes /\ m.tail \in Flits /\ m.size \in Nat /\ m.needs_dsc \in BOOLEAN
      /\ m.drop_data \in BOOLEAN /\ m.drop_meta \in BOOLEAN /\ m.slot \in Slots
  BY <1>3, MetaType
<1>8. Marked(m)
  <2>1. 1 \in 1 .. l
    BY <1>3
  <2> QED BY <1>3, <2>1 DEF StreamInv, Marks, l
<1>9. m.drop_meta <=> ~m.needs_dsc
  <2>1. CASE m.size = 0
    BY <1>8, <2>1 DEF Marked
  <2>2. CASE m.size > 0
    <3>1. m.needs_dsc /\ ~m.drop_data
      BY <1>2, <1>3, <1>8, <2>2 DEF Marked
    <3> QED BY <1>8, <2>2, <3>1 DEF Marked
  <2> QED BY <1>7, <2>1, <2>2
<1>10. Stream(View, n, rx_head, dma_tail, pkt_tail)
  BY DEF StreamInv, StreamOrder, n
<1>11. View[1].len = 0
  <2>1. Written(1)
    BY <1>1 DEF Written
  <2> QED BY <1>3, <2>1 DEF ViewOf, IsData
<1>12. StreamOrder'
  <2>1. Stream(View', n - 1, rx_head, dma_tail, pkt_tail)
    BY <1>3, <1>4, <1>10, <1>11, StreamPop
  <2> QED BY <1>1, <1>3, <2>1 DEF StreamOrder
<1>13. PipesOrder'
  BY <1>1 DEF StreamInv, PipesOrder
<1>14. Notified(rx_buf, dsc_head, rx_head, pending, dma_tail)
  BY DEF StreamInv, NotifOrder
<1>15. CASE m.drop_meta
  <2>1. ~dma_in[1].needs_dsc /\ rx_buf' = rx_buf
    BY <1>1, <1>3, <1>9, <1>15
  <2>2. Ring(dma_in', l - 1, dsc_head, nb_head, w, dsc_tail, U)
    BY <1>3, <1>4, <1>5, <1>6, <2>1, RingDrop
  <2>3. RingShape'
    BY <1>1, <1>3, <2>1, <2>2 DEF RingShape, U, Unread
  <2>4. NotifOrder'
    BY <1>1, <1>14, <2>1 DEF NotifOrder
  <2> QED BY <1>3, <1>12, <1>13, <2>3, <2>4 DEF StreamInv
<1>16. CASE ~m.drop_meta
  <2>1. m.needs_dsc /\ dma_in[1].needs_dsc
    BY <1>3, <1>7, <1>9, <1>16
  <2>2. /\ dma_in[1].slot = w /\ w \notin U /\ (w + 1) % N \in Slots
        /\ Ring(dma_in', l - 1, dsc_head, nb_head, (w + 1) % N, dsc_tail, U \cup {w})
        /\ \A s \in U : RingDist(dsc_head, s) < RingDist(dsc_head, w)
    <3>1. /\ l \in Nat /\ l >= 1 /\ dma_in \in [1 .. l -> Metas]
          /\ dma_in' \in [1 .. l - 1 -> Metas]
          /\ \A i \in 1 .. l - 1 : dma_in'[i] = dma_in[i + 1]
          /\ dsc_head \in Slots /\ dsc_tail \in Slots /\ nb_head \in Slots
          /\ U \in SUBSET Slots
      BY <1>3, <1>4, <1>6
    <3>2. RingTyped(dma_in, l, dsc_head, nb_head, w, dsc_tail, U)
      BY <3>1 DEF RingTyped
    <3> QED BY <1>5, <2>1, <3>1, <3>2, RingWrite
  <2>3. m.slot = w
    BY <1>3, <2>2
  <2>4. /\ rx_buf'[w] = [signal |-> 1, queue_id |-> m.q, tail |-> m.tail]
        /\ \A s \in Slots : s # w => rx_buf'[s] = rx_buf[s]
    BY <1>1, <1>4, <1>16, <2>3
  <2>5. rx_buf'[w].signal = 1 /\ rx_buf'[w].queue_id = m.q /\ rx_buf'[w].tail = m.tail
    BY <2>4
  <2>6. {s \in Slots : rx_buf'[s].signal = 1} = U \cup {w}
    BY <1>6, <2>4, <2>5
  <2>7. RingShape'
    BY <1>1, <1>3, <2>2, <2>6 DEF RingShape, Unread
  <2>8. m.tail = dma_tail[m.q]
    <3>1. CASE m.size > 0
      BY <1>2, <1>3, <3>1
    <3>2. CASE m.size = 0
      <4>1. View[1].live /\ View[1].q = m.q /\ View[1].tail = m.tail /\ 1 \in 1 .. n
        <5>1. Live(1)
          BY <1>3, <2>1, <3>2 DEF Live
        <5>2. 1 \in 1 .. n
          BY <1>3
        <5> QED BY <1>3, <5>1, <5>2 DEF ViewOf
      <4>2. Reached(View, dma_tail, View[1].q, View[1].tail, 1 - 1)
        BY <1>10, <4>1 DEF Stream, Gapless
      <4>3. \A i \in 1 .. 1 - 1 : FALSE
        OBVIOUS
      <4> QED BY <4>1, <4>2, <4>3 DEF Reached
    <3> QED BY <1>7, <3>1, <3>2
  <2>9. PipeDist(rx_head[m.q], pending[m.q]) <= PipeDist(rx_head[m.q], dma_tail[m.q])
    BY <1>7 DEF StreamInv, PipesOrder, Order
  <2>10. Notified(rx_buf', dsc_head, rx_head, pending, dma_tail)
    <3>1. /\ rx_buf'[w].tail = dma_tail[rx_buf'[w].queue_id]
          /\ PipeDist(rx_head[rx_buf'[w].queue_id], pending[rx_buf'[w].queue_id])
               <= PipeDist(rx_head[rx_buf'[w].queue_id], dma_tail[rx_buf'[w].queue_id])
      BY <2>5, <2>8, <2>9
    <3>2. rx_buf[w].signal # 1
      BY <1>6, <2>2
    <3>3. \A s \in Slots : rx_buf[s].signal = 1 => RingDist(dsc_head, s) < RingDist(dsc_head, w)
      BY <1>6, <2>2
    <3>4. PICK C \in [Slots -> Notifs] : C = rx_buf'
      BY <1>4
    <3>5. /\ C[w].tail = dma_tail[C[w].queue_id]
          /\ PipeDist(rx_head[C[w].queue_id], pending[C[w].queue_id])
               <= PipeDist(rx_head[C[w].queue_id], dma_tail[C[w].queue_id])
          /\ \A s \in Slots : s # w => C[s] = rx_buf[s]
      BY <2>4, <3>1, <3>4
    <3>6. Notified(C, dsc_head, rx_head, pending, dma_tail)
      BY <1>4, <1>14, <3>2, <3>3, <3>5, NotifiedWrite
    <3> QED BY <3>4, <3>6
  <2>11. NotifOrder'
    BY <1>1, <2>10 DEF NotifOrder
  <2> QED BY <1>3, <1>12, <1>13, <2>7, <2>11 DEF StreamInv
<1> QED BY <1>7, <1>15, <1>16

-----------------------------------------------------------------------------
(* The invariant.                                                           *)

LEMMA InitStream == Init => StreamInv
<1> SUFFICES ASSUME Init PROVE StreamInv
  OBVIOUS
<1>1. TypeOK
  BY InitType
<1>2. /\ dma_in = <<>> /\ pkt_out = <<>> /\ dma_state = "START_TRANSFER"
      /\ dsc_head = 0 /\ dsc_tail = 0 /\ nb_head = 0
      /\ rx_buf = [s \in Slots |-> NoNotif]
      /\ pkt_head = [q \in Pipes |-> 0] /\ pkt_tail = [q \in Pipes |-> 0]
      /\ dma_tail = [q \in Pipes |-> 0] /\ rx_head = [q \in Pipes |-> 0]
      /\ rx_tail = [q \in Pipes |-> 0] /\ pending = [q \in Pipes |-> 0]
  BY DEF Init, NicInit
<1>3. FlowLen = 0 /\ Len(dma_in) = 0 /\ Len(pkt_out) = 0
  BY <1>2 DEF FlowLen
<1>4. \A i \in 1 .. 0 : FALSE
  OBVIOUS
<1>5. Marks /\ AtDescriptor
  BY <1>2, <1>3, <1>4 DEF Marks, AtDescriptor
<1>6. StreamOrder
  BY <1>2, <1>3, <1>4 DEF StreamOrder, Stream, Ordered, Gapless, Reached
<1>7. 0 \in Slots /\ 0 \in Flits
  BY Sizes
<1>8. RingShape
  <2>1. \A s \in Slots : ~Unread(s)
    BY <1>2 DEF Unread, NoNotif
  <2>2. RingDist(0, 0) = 0 /\ \A s \in Slots : RingDist(0, s) \in Nat
    BY <1>7, RingDistType
  <2>3. Ring(dma_in, Len(dma_in), dsc_head, nb_head, 0, dsc_tail, {s \in Slots : Unread(s)})
    BY <1>2, <1>3, <1>4, <2>1, <2>2 DEF Ring
  <2> QED BY <1>7, <2>3 DEF RingShape
<1>9. NotifOrder
  <2>1. \A s \in Slots : rx_buf[s].signal # 1
    BY <1>2 DEF NoNotif
  <2> QED BY <2>1 DEF NotifOrder, Notified
<1>10. PipesOrder
  <2>1. PipeDist(0, 0) = 0
    BY <1>7, PipeDistType
  <2> QED BY <1>2, <2>1 DEF PipesOrder, Order
<1> QED BY <1>1, <1>5, <1>6, <1>8, <1>9, <1>10 DEF StreamInv

LEMMA NextStream == StreamInv /\ Room /\ [Next]_vars => StreamInv'
<1> SUFFICES ASSUME StreamInv, Room, [Next]_vars PROVE StreamInv'
  OBVIOUS
<1>0. TypeOK'
  BY NextType DEF StreamInv
<1>a. PipeSize \in Nat /\ PipeSize >= 1 /\ 0 \in 0 .. PipeSize - 1
  BY Sizes
<1>b. /\ rx_head \in [Pipes -> Flits] /\ rx_tail \in [Pipes -> Flits]
      /\ ids \in [Slots -> Pipes] /\ ids_head \in Slots
  BY DEF StreamInv, TypeOK
<1>c. \A q \in Pipes : /\ PipeDist(rx_head[q], rx_tail[q]) \in 0 .. PipeSize - 1
                       /\ 0 <= PipeDist(rx_head[q], rx_tail[q])
                       /\ Advance(rx_head[q], 0) = rx_head[q]
                       /\ Advance(rx_head[q], PipeDist(rx_head[q], rx_tail[q])) = rx_tail[q]
  <2> TAKE q \in Pipes
  <2>1. rx_head[q] \in Flits /\ rx_tail[q] \in Flits
    BY <1>b
  <2>2. PipeDist(rx_head[q], rx_tail[q]) \in 0 .. PipeSize - 1
    BY <2>1, PipeDistType
  <2>3. 0 <= PipeDist(rx_head[q], rx_tail[q])
    BY <1>a, <2>2
  <2> QED BY <2>1, <2>2, <2>3, AdvanceZero, PipeTo
<1>1. ASSUME NEW q \in Pipes, NEW size \in 1 .. MaxPkt, Packet(q, size) PROVE StreamInv'
  BY <1>0, <1>1, QuietStep DEF Packet, TakePacket, swVars, ringVars, pipeVars
<1>2. CASE Nic
  <2>1. UNCHANGED swVars
    BY <1>2 DEF Nic
  <2>2. CASE TakeHeadUpd
    BY <1>0, <2>1, <2>2, QuietStep DEF TakeHeadUpd, swVars, ringVars, pipeVars
  <2> QED BY <1>0, <1>2, <2>1, <2>2, ManagePacketStep, ManageHeadUpdStep, ReserveStep,
             StartStep, DmaStep, SendStep DEF Nic, NicStep
<1>3. CASE ConsumeNotification
  BY <1>0, <1>3, ConsumeStep
<1>4. CASE GetNewTailsReturn
  BY <1>0, <1>4, ReturnStep
<1>5. ASSUME NextFetch \/ NextNone \/ NextSkip \/ NextRxPipeToRecv \/ \E q \in Pipes : Recv(q)
      PROVE StreamInv'
  BY <1>0, <1>5, QuietStep
     DEF NextFetch, NextNone, NextSkip, NextRxPipeToRecv, Recv, nicVars, ringVars, pipeVars
<1>6. CASE NextTake
  <2>1. PICK q \in Pipes : q = ids[ids_head]
    BY <1>b
  <2>2. /\ AdvanceHead(q, rx_head[q])
        /\ UNCHANGED <<nb_head, pending, rx_head, rx_tail>>
    BY <1>6, <2>1 DEF NextTake, pipeVars
  <2>3. HeadStep(q, 0)
    BY <1>b, <1>c, <2>2 DEF AdvanceHead, HeadStep
  <2> QED BY <1>0, <1>a, <1>c, <2>3, HeadsStep
<1>7. ASSUME NEW n \in Flits, RecvReturn(n) PROVE StreamInv'
  BY <1>0, <1>7, RecvStep
<1>8. ASSUME NEW q \in Pipes, Clear(q) PROVE StreamInv'
  <2>1. PICK n \in 0 .. PipeSize - 1 : n = PipeDist(rx_head[q], rx_tail[q])
    BY <1>c
  <2>2. Advance(rx_head[q], n) = rx_tail[q]
    BY <1>c, <2>1
  <2>3. HeadStep(q, n)
    BY <1>8, <2>2 DEF Clear, AdvanceHead, HeadStep, ringVars
  <2>4. n <= PipeDist(rx_head[q], rx_tail[q])
    BY <1>a, <2>1
  <2> QED BY <1>0, <2>3, <2>4, HeadsStep
<1>9. ASSUME NEW q \in Pipes, Prefetch(q) PROVE StreamInv'
  <2>1. HeadStep(q, 0)
    BY <1>9, <1>b, <1>c DEF Prefetch, AdvanceHead, HeadStep, ringVars, pipeVars
  <2> QED BY <1>0, <1>a, <1>c, <2>1, HeadsStep
<1>10. ASSUME NEW q \in Pipes, NEW n \in 1 .. PipeSize - 1, Free(q, n) PROVE StreamInv'
  <2>1. n \in 0 .. PipeSize - 1
    BY <1>a
  <2>2. n <= PipeDist(rx_head[q], rx_tail[q])
    BY <1>10 DEF Free, Held, PipeDist
  <2>3. HeadStep(q, n)
    BY <1>10 DEF Free, AdvanceHead, HeadStep, ringVars
  <2> QED BY <1>0, <2>1, <2>2, <2>3, HeadsStep
<1>11. CASE UNCHANGED vars
  BY <1>0, <1>11, QuietStep DEF vars, nicVars, ringVars, pipeVars
<1> QED BY <1>1, <1>2, <1>3, <1>4, <1>5, <1>6, <1>7, <1>8, <1>9, <1>10, <1>11
        DEF Next, InCall

LEMMA StreamImplies == StreamInv => PipeOrder /\ NotifRingOrder
<1> SUFFICES ASSUME StreamInv PROVE PipeOrder /\ NotifRingOrder
  OBVIOUS
<1>1. PipeOrder
  BY DEF StreamInv, PipesOrder, Order, PipeOrder
<1>2. PICK w \in Slots : Ring(dma_in, Len(dma_in), dsc_head, nb_head, w, dsc_tail,
                              {s \in Slots : Unread(s)})
  BY DEF StreamInv, RingShape
<1>3. /\ nb_head \in Slots /\ dsc_tail \in Slots /\ dsc_head \in Slots
      /\ dma_in \in Seq(Metas)
  BY DEF StreamInv, TypeOK, NicTypeOK
<1>4. \A s \in Slots : RingDist(dsc_head, s) \in Nat
  BY <1>3, RingDistType
<1>5. RingDist(dsc_head, nb_head) <= RingDist(dsc_head, dsc_tail)
  BY <1>2, <1>3, <1>4 DEF Ring
<1>6. \A s \in Slots : s \in Reserved <=> \E i \in 1 .. Len(dma_in) : dma_in[i].needs_dsc /\ dma_in[i].slot = s
  <2>1. DOMAIN dma_in = 1 .. Len(dma_in)
    BY <1>3
  <2> QED BY <2>1 DEF Reserved
<1>7. ASSUME NEW s \in Slots
      PROVE  rx_buf[s].signal = 1 <=>
               /\ RingDist(dsc_head, nb_head) <= RingDist(dsc_head, s)
               /\ RingDist(dsc_head, s) < RingDist(dsc_head, dsc_tail) /\ s \notin Reserved
  <2>1. rx_buf[s].signal = 1 <=> /\ RingDist(dsc_head, nb_head) <= RingDist(dsc_head, s)
                                 /\ RingDist(dsc_head, s) < RingDist(dsc_head, w)
    BY <1>2 DEF Ring, Unread
  <2>2. s \in Reserved <=> /\ RingDist(dsc_head, w) <= RingDist(dsc_head, s)
                           /\ RingDist(dsc_head, s) < RingDist(dsc_head, dsc_tail)
    BY <1>2, <1>6 DEF Ring
  <2>3. RingDist(dsc_head, w) <= RingDist(dsc_head, dsc_tail)
    BY <1>2 DEF Ring
  <2>4. /\ RingDist(dsc_head, w) \in Nat /\ RingDist(dsc_head, s) \in Nat
        /\ RingDist(dsc_head, dsc_tail) \in Nat /\ RingDist(dsc_head, nb_head) \in Nat
    BY <1>3, <1>4
  <2> QED BY <2>1, <2>2, <2>3, <2>4
<1>8. NotifRingOrder
  BY <1>5, <1>7 DEF NotifRingOrder
<1> QED BY <1>1, <1>8

\* With room in the ring for every descriptor, the stream, the ring and the
\* pipes stay in order, whatever the program does (RxPipe::Recv or
\* Device::NextRxPipeToRecv; Free, Clear, Prefetch): the NIC overwrites no flit
\* that is not freed, and announces none that is not in host memory.
THEOREM StreamInvariant == Spec /\ []Room => []StreamInv
<1>1. StreamInv /\ Room /\ [Next]_vars => StreamInv'
  BY NextStream
<1> QED BY <1>1, InitStream, PTL DEF Spec

\* The indices of every pipe stay in order (rx head register, Recv, the last
\* notification, fpga_to_cpu, pkt_queue_manager), given room in the ring.
THEOREM PipesInOrder == Spec /\ []Room => []PipeOrder
BY StreamInvariant, StreamImplies, PTL

\* The notification ring holds an unread notification exactly where software
\* will look for one, given room in the ring.
THEOREM RingInOrder == Spec /\ []Room => []NotifRingOrder
BY StreamInvariant, StreamImplies, PTL

-----------------------------------------------------------------------------
(* Tokens.                                                                  *)

\* Pipe q's token may have moved.
Moved(p, o, q) ==
  /\ p \in [Pipes -> Places] /\ o \in [Pipes -> Places]
  /\ \A y \in Pipes : y # q => o[y] = p[y]

LEMMA Move ==
  ASSUME NEW p \in [Pipes -> Places], NEW q \in Pipes, NEW x \in Places
  PROVE  \E o \in [Pipes -> Places] : Moved(p, o, q) /\ o[q] = x
<1> WITNESS [p EXCEPT ![q] = x] \in [Pipes -> Places]
<1> QED BY DEF Moved

\* Entries that keep their pipes keep their tokens.
LEMMA TokensSame ==
  ASSUME NEW I, NEW Q, NEW R, NEW p, NEW c, Tokens(I, Q, p, c), \A i \in I : R[i] = Q[i]
  PROVE  Tokens(I, R, p, c)
BY DEF Tokens

\* A token elsewhere moves elsewhere.
LEMMA TokensOther ==
  ASSUME NEW I, NEW Q, NEW p, NEW o, NEW c, NEW q \in Pipes, Moved(p, o, q),
         Tokens(I, Q, p, c), \A i \in I : Q[i] \in Pipes, p[q] # c, o[q] # c
  PROVE  Tokens(I, Q, o, c)
BY DEF Tokens, Moved

\* The token of pipe q comes, at k.
LEMMA TokensJoin ==
  ASSUME NEW I, NEW Q, NEW R, NEW p, NEW o, NEW c, NEW q \in Pipes, NEW k, Moved(p, o, q),
         Tokens(I, Q, p, c), \A i \in I : Q[i] \in Pipes, p[q] # c, o[q] = c,
         \A i \in I : R[i] = Q[i], R[k] = q
  PROVE  Tokens(I \cup {k}, R, o, c)
<1> DEFINE J == I \cup {k}
<1>1. \A i \in I : Q[i] # q /\ p[Q[i]] = c
  BY DEF Tokens
<1>2. \A i \in J : o[R[i]] = c
  BY <1>1 DEF Moved
<1>3. \A i, j \in J : R[i] = R[j] => i = j
  BY <1>1 DEF Tokens
<1>4. \A x \in Pipes : o[x] = c => \E i \in J : R[i] = x
  <2> TAKE x \in Pipes
  <2>1. CASE x = q
    BY <2>1
  <2>2. CASE x # q
    BY <2>2 DEF Tokens, Moved
  <2> QED BY <2>1, <2>2
<1> QED BY <1>2, <1>3, <1>4 DEF Tokens

\* The token at k leaves.
LEMMA TokensLeave ==
  ASSUME NEW I, NEW Q, NEW R, NEW p, NEW o, NEW c, NEW q \in Pipes, NEW k \in I, Moved(p, o, q),
         Tokens(I, Q, p, c), \A i \in I : Q[i] \in Pipes, Q[k] = q, o[q] # c,
         \A i \in I \ {k} : R[i] = Q[i]
  PROVE  Tokens(I \ {k}, R, o, c)
<1> DEFINE J == I \ {k}
<1>1. \A i \in J : Q[i] \in Pipes /\ Q[i] # q /\ p[Q[i]] = c
  BY DEF Tokens
<1>2. \A i \in J : o[R[i]] = c
  BY <1>1 DEF Moved
<1>3. \A i, j \in J : R[i] = R[j] => i = j
  BY DEF Tokens
<1>4. \A y \in Pipes : o[y] = c => \E i \in J : R[i] = y
  <2> TAKE y \in Pipes
  <2> HAVE o[y] = c
  <2>1. y # q /\ p[y] = c
    BY DEF Moved
  <2>2. PICK i \in I : Q[i] = y
    BY <2>1 DEF Tokens
  <2>3. i \in J
    BY <2>1, <2>2
  <2> QED BY <2>2, <2>3
<1> QED BY <1>2, <1>3, <1>4 DEF Tokens

\* The first entry of a queue, which is no token, leaves.
LEMMA TokensShift ==
  ASSUME NEW n \in Nat, n >= 1, NEW I \in SUBSET (1 .. n), NEW Q, NEW J \in SUBSET (1 .. n - 1),
         NEW R, NEW p, NEW c, Tokens(I, Q, p, c), 1 \notin I,
         \A i \in 1 .. n - 1 : (i \in J <=> i + 1 \in I) /\ R[i] = Q[i + 1]
  PROVE  Tokens(J, R, p, c)
<1>1. \A i \in J : i \in 1 .. n - 1 /\ i + 1 \in I /\ R[i] = Q[i + 1]
  OBVIOUS
<1>2. \A i \in I : \E j \in J : i = j + 1
  <2> TAKE i \in I
  <2>1. i \in 1 .. n /\ i # 1
    OBVIOUS
  <2>2. i - 1 \in 1 .. n - 1 /\ (i - 1) + 1 = i
    BY <2>1
  <2>3. i - 1 \in J
    BY <2>2
  <2> QED BY <2>2, <2>3
<1>3. ASSUME NEW i \in J PROVE p[R[i]] = c
  <2>1. PICK k \in I : k = i + 1
    BY <1>1
  <2> QED BY <1>1, <2>1 DEF Tokens
<1>4. ASSUME NEW i \in J, NEW j \in J, R[i] = R[j] PROVE i = j
  <2>1. PICK k \in I : k = i + 1
    BY <1>1
  <2>2. PICK l \in I : l = j + 1
    BY <1>1
  <2>3. k = l
    BY <1>1, <1>4, <2>1, <2>2 DEF Tokens
  <2> QED BY <1>1, <2>1, <2>2, <2>3
<1>5. ASSUME NEW q \in Pipes, p[q] = c PROVE \E j \in J : R[j] = q
  <2>1. PICK i \in I : Q[i] = q
    BY <1>5 DEF Tokens
  <2>2. PICK j \in J : i = j + 1
    BY <1>2
  <2> QED BY <1>1, <2>1, <2>2
<1> QED BY <1>3, <1>4, <1>5 DEF Tokens

\* The first entry, a token, leaves.
LEMMA TokensPop ==
  ASSUME NEW n \in Nat, n >= 1, NEW I \in SUBSET (1 .. n), NEW Q, NEW J \in SUBSET (1 .. n - 1),
         NEW R, NEW p, NEW o, NEW c, NEW q \in Pipes, Moved(p, o, q),
         Tokens(I, Q, p, c), 1 \in I, Q[1] = q, o[q] # c, \A i \in I : Q[i] \in Pipes,
         \A i \in 1 .. n - 1 : (i \in J <=> i + 1 \in I) /\ R[i] = Q[i + 1]
  PROVE  Tokens(J, R, o, c)
<1> DEFINE K == I \ {1}
<1>1. Tokens(K, Q, o, c)
  BY TokensLeave
<1>2. \A i \in 1 .. n - 1 : i + 1 # 1
  OBVIOUS
<1>3. \A i \in 1 .. n - 1 : (i \in J <=> i + 1 \in K) /\ R[i] = Q[i + 1]
  BY <1>2
<1>4. K \in SUBSET (1 .. n) /\ 1 \notin K
  OBVIOUS
<1> HIDE DEF K
<1> QED BY <1>1, <1>3, <1>4, TokensShift

\* An entry is added to a queue, as a token of pipe q or not.
LEMMA QueuePush ==
  ASSUME NEW S, NEW f \in Seq(S), NEW e \in S, NEW I \in SUBSET (1 .. Len(f)), NEW J,
         NEW p, NEW o, NEW q \in Pipes, NEW c, Moved(p, o, q),
         Tokens(I, Owner(f), p, c), \A i \in 1 .. Len(f) : f[i].q \in Pipes,
         \/ J = I /\ (o = p \/ (p[q] # c /\ o[q] # c))
         \/ J = I \cup {Len(f) + 1} /\ e.q = q /\ p[q] # c /\ o[q] = c
  PROVE  Tokens(J, Owner(Append(f, e)), o, c)
<1> DEFINE k == Len(f) + 1
           R == Owner(Append(f, e))
<1>1. /\ Len(f) \in Nat /\ Len(Append(f, e)) = k /\ Append(f, e)[k] = e
      /\ \A i \in 1 .. Len(f) : Append(f, e)[i] = f[i]
  BY Enqueue
<1>2. R[k] = e.q /\ \A i \in 1 .. Len(f) : R[i] = f[i].q
  BY <1>1 DEF Owner
<1>3. \A i \in I : Owner(f)[i] = f[i].q /\ Owner(f)[i] \in Pipes /\ R[i] = Owner(f)[i]
  BY <1>2 DEF Owner
<1> HIDE DEF R, k
<1>4. CASE J = I /\ o = p
  BY <1>3, <1>4, TokensSame DEF R
<1>5. CASE J = I /\ p[q] # c /\ o[q] # c
  <2>1. Tokens(I, Owner(f), o, c)
    BY <1>3, <1>5, TokensOther
  <2> QED BY <1>3, <1>5, <2>1, TokensSame DEF R
<1>6. CASE J = I \cup {k} /\ e.q = q /\ p[q] # c /\ o[q] = c
  <2> DEFINE Q == Owner(f)
  <2> HIDE DEF Q
  <2>1. /\ R[k] = q /\ \A i \in I : Q[i] \in Pipes
        /\ \A i \in I : R[i] = Q[i]
        /\ p[q] # c /\ o[q] = c /\ Tokens(I, Q, p, c)
    BY <1>2, <1>3, <1>6 DEF Q
  <2>2. Tokens(I \cup {k}, R, o, c)
    BY <2>1, TokensJoin
  <2> QED BY <1>6, <2>2 DEF R
<1> QED BY <1>4, <1>5, <1>6 DEF k

\* The first entry leaves a queue; it is pipe q's token or none.
LEMMA QueuePop ==
  ASSUME NEW S, NEW f \in Seq(S), f # <<>>, NEW I \in SUBSET (1 .. Len(f)),
         NEW J \in SUBSET (1 .. Len(f) - 1),
         \A i \in 1 .. Len(f) - 1 : i \in J <=> i + 1 \in I,
         NEW p, NEW o, NEW q \in Pipes, NEW c, Moved(p, o, q),
         Tokens(I, Owner(f), p, c), \A i \in 1 .. Len(f) : f[i].q \in Pipes,
         \/ 1 \notin I /\ (o = p \/ (p[q] # c /\ o[q] # c))
         \/ 1 \in I /\ f[1].q = q /\ o[q] # c
  PROVE  Tokens(J, Owner(Tail(f)), o, c)
<1> DEFINE n == Len(f)
           R == Owner(Tail(f))
           Q == Owner(f)
<1>1. /\ n \in Nat /\ n >= 1 /\ 1 \in 1 .. n /\ Len(Tail(f)) = n - 1
      /\ \A i \in 1 .. n - 1 : Tail(f)[i] = f[i + 1]
  BY Dequeue
<1>2. \A i \in 1 .. n - 1 : R[i] = f[i + 1].q
  BY <1>1 DEF Owner
<1>3. \A i \in 1 .. n : Q[i] = f[i].q /\ Q[i] \in Pipes
  BY DEF Owner
<1>4. \A i \in 1 .. n - 1 : (i \in J <=> i + 1 \in I) /\ R[i] = Q[i + 1]
  <2>1. \A i \in 1 .. n - 1 : i + 1 \in 1 .. n
    BY <1>1
  <2> QED BY <1>2, <1>3, <2>1
<1>5. \A i \in I : Q[i] \in Pipes
  BY <1>3
<1>6. Q[1] = f[1].q
  BY <1>1, <1>3
<1> HIDE DEF n, Q, R
<1>7. I \in SUBSET (1 .. n) /\ J \in SUBSET (1 .. n - 1) /\ Tokens(I, Q, p, c)
  BY DEF n, Q
<1>8. CASE 1 \notin I /\ o = p
  BY <1>1, <1>4, <1>7, <1>8, TokensShift DEF R
<1>9. CASE 1 \notin I /\ p[q] # c /\ o[q] # c
  <2>1. Tokens(I, Q, o, c)
    BY <1>5, <1>7, <1>9, TokensOther
  <2> QED BY <1>1, <1>4, <1>7, <1>9, <2>1, TokensShift DEF R
<1>10. CASE 1 \in I /\ f[1].q = q /\ o[q] # c
  <2>1. Q[1] = q
    BY <1>6, <1>10
  <2>2. Tokens(J, R, o, c)
    BY <1>1, <1>4, <1>5, <1>7, <1>10, <2>1, TokensPop
  <2> QED BY <2>2 DEF R
<1> QED BY <1>8, <1>9, <1>10

\* Which entries are tokens after a queue has changed.
LEMMA RequestsPush ==
  ASSUME NEW S, NEW f \in Seq(S), NEW e \in S
  PROVE  /\ e.size = 0 => Requests(Append(f, e)) = Requests(f) \cup {Len(f) + 1}
         /\ e.size # 0 => Requests(Append(f, e)) = Requests(f)
         /\ Requests(f) \in SUBSET (1 .. Len(f))
<1>1. /\ Len(f) \in Nat /\ Len(Append(f, e)) = Len(f) + 1 /\ Append(f, e)[Len(f) + 1] = e
      /\ \A i \in 1 .. Len(f) : Append(f, e)[i] = f[i]
  BY Enqueue
<1>2. \A i : i \in 1 .. Len(f) + 1 <=> i \in 1 .. Len(f) \/ i = Len(f) + 1
  BY <1>1
<1>3. Len(f) + 1 \notin 1 .. Len(f)
  BY <1>1
<1> DEFINE g == Append(f, e)
           k == Len(f) + 1
<1> HIDE DEF g, k
<1>4. \A i : i \in Requests(g) <=> i \in Requests(f) \/ (i = k /\ e.size = 0)
  BY <1>1, <1>2, <1>3 DEF Requests, g, k
<1> QED BY <1>4 DEF Requests, g, k

LEMMA DescsPush ==
  ASSUME NEW S, NEW f \in Seq(S), NEW e \in S
  PROVE  /\ e.needs_dsc => Descs(Append(f, e)) = Descs(f) \cup {Len(f) + 1}
         /\ ~e.needs_dsc => Descs(Append(f, e)) = Descs(f)
         /\ Descs(f) \in SUBSET (1 .. Len(f))
<1>1. /\ Len(f) \in Nat /\ Len(Append(f, e)) = Len(f) + 1 /\ Append(f, e)[Len(f) + 1] = e
      /\ \A i \in 1 .. Len(f) : Append(f, e)[i] = f[i]
  BY Enqueue
<1>2. \A i : i \in 1 .. Len(f) + 1 <=> i \in 1 .. Len(f) \/ i = Len(f) + 1
  BY <1>1
<1>3. Len(f) + 1 \notin 1 .. Len(f)
  BY <1>1
<1> DEFINE g == Append(f, e)
           k == Len(f) + 1
<1> HIDE DEF g, k
<1>4. \A i : i \in Descs(g) <=> i \in Descs(f) \/ (i = k /\ e.needs_dsc)
  BY <1>1, <1>2, <1>3 DEF Descs, g, k
<1> QED BY <1>4 DEF Descs, g, k

LEMMA RequestsPop ==
  ASSUME NEW S, NEW f \in Seq(S), f # <<>>
  PROVE  /\ Requests(f) \in SUBSET (1 .. Len(f)) /\ Requests(Tail(f)) \in SUBSET (1 .. Len(f) - 1)
         /\ 1 \in Requests(f) <=> f[1].size = 0
         /\ \A i \in 1 .. Len(f) - 1 : i \in Requests(Tail(f)) <=> i + 1 \in Requests(f)
<1>1. /\ Len(f) \in Nat /\ 1 \in 1 .. Len(f) /\ Len(Tail(f)) = Len(f) - 1
      /\ \A i \in 1 .. Len(f) - 1 : Tail(f)[i] = f[i + 1] /\ i + 1 \in 1 .. Len(f)
  BY Dequeue
<1> QED BY <1>1 DEF Requests

LEMMA DescsPop ==
  ASSUME NEW S, NEW f \in Seq(S), f # <<>>
  PROVE  /\ Descs(f) \in SUBSET (1 .. Len(f)) /\ Descs(Tail(f)) \in SUBSET (1 .. Len(f) - 1)
         /\ 1 \in Descs(f) <=> f[1].needs_dsc
         /\ \A i \in 1 .. Len(f) - 1 : i \in Descs(Tail(f)) <=> i + 1 \in Descs(f)
<1>1. /\ Len(f) \in Nat /\ 1 \in 1 .. Len(f) /\ Len(Tail(f)) = Len(f) - 1
      /\ \A i \in 1 .. Len(f) - 1 : Tail(f)[i] = f[i + 1] /\ i + 1 \in 1 .. Len(f)
  BY Dequeue
<1> QED BY <1>1 DEF Descs

LEMMA BehindPop ==
  ASSUME NEW S, NEW f \in Seq(S), f # <<>>, NEW p, NEW o, NEW q, Behind(p, f, q),
         o[q] = "head_upd" => p[q] = "head_upd"
  PROVE  Behind(o, Tail(f), q)
<1>1. /\ Len(f) \in Nat /\ Len(Tail(f)) = Len(f) - 1
      /\ \A i \in 1 .. Len(f) - 1 : Tail(f)[i] = f[i + 1] /\ i + 1 \in 1 .. Len(f)
  BY Dequeue
<1> SUFFICES ASSUME NEW i \in 1 .. Len(f) - 1, Tail(f)[i].q = q, Tail(f)[i].size > 0
             PROVE  /\ o[q] # "head_upd"
                    /\ \A j \in Requests(Tail(f)) : Tail(f)[j].q = q => j < i
  BY <1>1 DEF Behind
<1>2. i + 1 \in 1 .. Len(f) /\ f[i + 1].q = q /\ f[i + 1].size > 0
  BY <1>1
<1>3. p[q] # "head_upd" /\ \A j \in Requests(f) : f[j].q = q => j < i + 1
  BY <1>2 DEF Behind
<1>4. ASSUME NEW j \in Requests(Tail(f)), Tail(f)[j].q = q PROVE j < i
  <2>1. j \in 1 .. Len(f) - 1 /\ Tail(f)[j].size = 0
    BY <1>1 DEF Requests
  <2>2. j + 1 \in Requests(f) /\ f[j + 1].q = q
    BY <1>1, <1>4, <2>1 DEF Requests
  <2>3. j + 1 < i + 1
    BY <1>3, <2>2
  <2> QED BY <2>1, <2>3, <1>1
<1> QED BY <1>3, <1>4

\* A packet or another pipe's request is added.
LEMMA BehindPush ==
  ASSUME NEW S, NEW f \in Seq(S), NEW e \in S, NEW p, NEW o, NEW q, Behind(p, f, q),
         o[q] = p[q], e.q = q => e.size # 0 /\ p[q] # "head_upd"
  PROVE  Behind(o, Append(f, e), q)
<1> DEFINE k == Len(f) + 1
           g == Append(f, e)
<1>1. /\ Len(f) \in Nat /\ k \in Nat /\ Len(g) = k /\ g[k] = e
      /\ \A i \in 1 .. Len(f) : g[i] = f[i] /\ i < k
  BY Enqueue
<1>2. \A i \in 1 .. k : i \in 1 .. Len(f) \/ i = k
  BY <1>1
<1>3. \A j \in Requests(g) : g[j].q = q => j \in Requests(f) /\ f[j].q = q
  BY <1>1, <1>2 DEF Requests
<1> HIDE DEF g, k
<1> SUFFICES ASSUME NEW i \in 1 .. k, g[i].q = q, g[i].size > 0
             PROVE  o[q] # "head_upd" /\ \A j \in Requests(g) : g[j].q = q => j < i
  BY <1>1 DEF Behind, g
<1>4. CASE i = k
  <2>1. \A j \in Requests(f) : j \in 1 .. Len(f)
    BY DEF Requests
  <2>2. e.q = q
    BY <1>1, <1>4
  <2> QED BY <1>1, <1>3, <1>4, <2>1, <2>2
<1>5. CASE i \in 1 .. Len(f)
  <2>1. f[i].q = q /\ f[i].size > 0
    BY <1>1, <1>5
  <2>2. p[q] # "head_upd" /\ \A j \in Requests(f) : f[j].q = q => j < i
    BY <1>5, <2>1 DEF Behind
  <2> QED BY <1>3, <2>2
<1> QED BY <1>2, <1>4, <1>5

-----------------------------------------------------------------------------
(* Tokens in the state of the system.                                       *)

LEMMA SeqElement ==
  ASSUME NEW S, NEW s \in Seq(S)
  PROVE  Len(s) \in Nat /\ \A i \in 1 .. Len(s) : s[i] \in S
OBVIOUS

TokTyped ==
  /\ \A i \in 1 .. Len(head_upd) : head_upd[i] \in Pipes
  /\ \A i \in 1 .. Len(in_queue) :
       in_queue[i].q \in Pipes /\ in_queue[i].size \in Nat /\ Owner(in_queue)[i] = in_queue[i].q
  /\ \A i \in 1 .. Len(pkt_out) :
       pkt_out[i] \in Metas /\ pkt_out[i].q \in Pipes /\ Owner(pkt_out)[i] = pkt_out[i].q
  /\ \A i \in 1 .. Len(dma_in) :
       dma_in[i] \in Metas /\ dma_in[i].q \in Pipes /\ Owner(dma_in)[i] = dma_in[i].q
  /\ \A s \in Slots : rx_buf[s].queue_id \in Pipes /\ RingOwner[s] = rx_buf[s].queue_id

LEMMA TokType == TypeOK => TokTyped
<1> SUFFICES ASSUME TypeOK PROVE TokTyped
  OBVIOUS
<1>1. /\ head_upd \in Seq(Pipes) /\ in_queue \in Seq([q : Pipes, size : 0 .. MaxPkt])
      /\ pkt_out \in Seq(Metas) /\ dma_in \in Seq(Metas) /\ rx_buf \in [Slots -> Notifs]
  BY DEF TypeOK, NicTypeOK
<1>2. MaxPkt \in Nat
  BY Sizes
<1>3. \A i \in 1 .. Len(head_upd) : head_upd[i] \in Pipes
  BY <1>1
<1>4. \A i \in 1 .. Len(in_queue) : in_queue[i] \in [q : Pipes, size : 0 .. MaxPkt]
  BY <1>1, SeqElement
<1>5. \A i \in 1 .. Len(in_queue) :
        in_queue[i].q \in Pipes /\ in_queue[i].size \in Nat /\ Owner(in_queue)[i] = in_queue[i].q
  BY <1>2, <1>4 DEF Owner
<1>6. /\ \A i \in 1 .. Len(pkt_out) : pkt_out[i] \in Metas
      /\ \A i \in 1 .. Len(dma_in) : dma_in[i] \in Metas
  BY <1>1
<1>7. /\ \A i \in 1 .. Len(pkt_out) : pkt_out[i].q \in Pipes /\ Owner(pkt_out)[i] = pkt_out[i].q
      /\ \A i \in 1 .. Len(dma_in) : dma_in[i].q \in Pipes /\ Owner(dma_in)[i] = dma_in[i].q
  BY <1>6, MetaType DEF Owner
<1>8. \A s \in Slots : rx_buf[s].queue_id \in Pipes /\ RingOwner[s] = rx_buf[s].queue_id
  BY <1>1, NotifType DEF RingOwner
<1> QED BY <1>3, <1>5, <1>6, <1>7, <1>8 DEF TokTyped

\* Places whose queues do not change, when no token moves.
LEMMA PlacesSame ==
  ASSUME NEW p, TokenPlaces(p)
  PROVE  /\ UNCHANGED head_upd => Tokens(1 .. Len(head_upd'), head_upd', p, "head_upd")
         /\ UNCHANGED in_queue => Tokens(Requests(in_queue'), Owner(in_queue'), p, "in_queue")
         /\ UNCHANGED pkt_out => Tokens(Descs(pkt_out'), Owner(pkt_out'), p, "pkt_out")
         /\ UNCHANGED dma_in => Tokens(Descs(dma_in'), Owner(dma_in'), p, "dma_in")
         /\ UNCHANGED rx_buf => Tokens(InRing', RingOwner', p, "ring")
         /\ UNCHANGED <<rx_head, pending>> => \A y \in Pipes : Aware(y)' <=> p[y] = "aware"
BY DEF TokenPlaces, InRing, RingOwner, Unread, Aware

\* The same when pipe q's token moves, from and to other places.
LEMMA PlacesStay ==
  ASSUME TokTyped, NEW p, NEW o, NEW q \in Pipes, Moved(p, o, q), TokenPlaces(p)
  PROVE  /\ UNCHANGED head_upd /\ p[q] # "head_upd" /\ o[q] # "head_upd" =>
              Tokens(1 .. Len(head_upd'), head_upd', o, "head_upd")
         /\ UNCHANGED in_queue /\ p[q] # "in_queue" /\ o[q] # "in_queue" =>
              Tokens(Requests(in_queue'), Owner(in_queue'), o, "in_queue")
         /\ UNCHANGED pkt_out /\ p[q] # "pkt_out" /\ o[q] # "pkt_out" =>
              Tokens(Descs(pkt_out'), Owner(pkt_out'), o, "pkt_out")
         /\ UNCHANGED dma_in /\ p[q] # "dma_in" /\ o[q] # "dma_in" =>
              Tokens(Descs(dma_in'), Owner(dma_in'), o, "dma_in")
         /\ UNCHANGED rx_buf /\ p[q] # "ring" /\ o[q] # "ring" =>
              Tokens(InRing', RingOwner', o, "ring")
         /\ UNCHANGED <<rx_head, pending>> /\ p[q] # "aware" /\ o[q] # "aware" =>
              \A y \in Pipes : Aware(y)' <=> o[y] = "aware"
<1>1. /\ \A i \in Requests(in_queue) : Owner(in_queue)[i] \in Pipes
      /\ \A i \in Descs(pkt_out) : Owner(pkt_out)[i] \in Pipes
      /\ \A i \in Descs(dma_in) : Owner(dma_in)[i] \in Pipes
      /\ \A i \in InRing : RingOwner[i] \in Pipes
      /\ \A i \in 1 .. Len(head_upd) : head_upd[i] \in Pipes
  BY DEF TokTyped, Requests, Descs, InRing
<1>2. UNCHANGED head_upd /\ p[q] # "head_upd" /\ o[q] # "head_upd" =>
        Tokens(1 .. Len(head_upd'), head_upd', o, "head_upd")
  BY <1>1, TokensOther DEF TokenPlaces
<1>3. UNCHANGED in_queue /\ p[q] # "in_queue" /\ o[q] # "in_queue" =>
        Tokens(Requests(in_queue'), Owner(in_queue'), o, "in_queue")
  BY <1>1, TokensOther DEF TokenPlaces
<1>4. UNCHANGED pkt_out /\ p[q] # "pkt_out" /\ o[q] # "pkt_out" =>
        Tokens(Descs(pkt_out'), Owner(pkt_out'), o, "pkt_out")
  BY <1>1, TokensOther DEF TokenPlaces
<1>5. UNCHANGED dma_in /\ p[q] # "dma_in" /\ o[q] # "dma_in" =>
        Tokens(Descs(dma_in'), Owner(dma_in'), o, "dma_in")
  BY <1>1, TokensOther DEF TokenPlaces
<1>6. UNCHANGED rx_buf /\ p[q] # "ring" /\ o[q] # "ring" => Tokens(InRing', RingOwner', o, "ring")
  <2>1. p[q] # "ring" /\ o[q] # "ring" => Tokens(InRing, RingOwner, o, "ring")
    BY <1>1, TokensOther DEF TokenPlaces
  <2> QED BY <2>1 DEF InRing, RingOwner, Unread
<1>7. UNCHANGED <<rx_head, pending>> /\ p[q] # "aware" /\ o[q] # "aware" =>
        \A y \in Pipes : Aware(y)' <=> o[y] = "aware"
  BY DEF TokenPlaces, Aware, Moved
<1> QED BY <1>2, <1>3, <1>4, <1>5, <1>6, <1>7

\* Slots that are read keep their owners.
LEMMA ReadStay ==
  ASSUME NEW p, NEW o, NEW r \in [Slots -> Pipes], NEW q \in Pipes, Moved(p, o, q),
         TokenRead(p, r), UNCHANGED <<dsc_head, nb_head>>, p[q] # "aware"
  PROVE  TokenRead(o, r)'
BY DEF TokenRead, Moved

LEMMA NewsStay ==
  UNCHANGED <<pkt_out, dma_in, dma_state, rx_buf, rx_head>> => (TokenNews => TokenNews')
BY DEF TokenNews, InRing, Unread

LEMMA ClearsStay ==
  UNCHANGED <<NextApi, pc, ret, consumed, dsc_head, nb_head, rx_tail, rx_head, pending>> =>
    (Clears => Clears')
BY DEF Clears

Entries == [q : Pipes, size : 0 .. MaxPkt]

\* What is known of the queues, in terms that the lemmas about queues use.
LEMMA Queues ==
  ASSUME TypeOK
  PROVE  /\ TokTyped /\ head_upd \in Seq(Pipes) /\ in_queue \in Seq(Entries)
         /\ pkt_out \in Seq(Metas) /\ dma_in \in Seq(Metas)
         /\ \A i \in 1 .. Len(in_queue) : in_queue[i].q \in Pipes /\ in_queue[i].size \in Nat
         /\ \A i \in 1 .. Len(pkt_out) : pkt_out[i].q \in Pipes
         /\ \A i \in 1 .. Len(dma_in) : dma_in[i].q \in Pipes
BY TokType DEF TypeOK, NicTypeOK, TokTyped, Entries

LEMMA Entry ==
  ASSUME NEW y \in Pipes, NEW n \in 0 .. MaxPkt
  PROVE  \E e \in Entries : e = [q |-> y, size |-> n] /\ e.q = y /\ e.size = n
<1>1. [q |-> y, size |-> n] \in Entries
  BY DEF Entries
<1>2. [q |-> y, size |-> n].q = y /\ [q |-> y, size |-> n].size = n
  OBVIOUS
<1> QED BY <1>1, <1>2

\* A packet joins the stream.
LEMMA TokenPacket ==
  ASSUME StreamInv, TokenInv, NEW y \in Pipes, NEW size \in 1 .. MaxPkt, Packet(y, size)
  PROVE  TokenInv'
<1>1. PICK p \in [Pipes -> Places], r \in [Slots -> Pipes] :
        TokenPlaces(p) /\ TokenStatus(p) /\ TokenRead(p, r)
  BY DEF TokenInv
<1>2. /\ head_upd = <<>> /\ in_queue' = Append(in_queue, [q |-> y, size |-> size])
      /\ UNCHANGED <<pkt_head, pkt_tail, status, dsc_head, head_upd, pkt_out, dma_in, dma_state,
                     rx_buf, nb_head, pending, rx_head, rx_tail, NextApi, pc, ret, consumed>>
  BY DEF Packet, TakePacket, swVars, ringVars, pipeVars, threadVars
<1>3. TypeOK
  BY DEF StreamInv
<1>4. PICK e \in Entries : e = [q |-> y, size |-> size] /\ e.q = y /\ e.size # 0
  <2>1. size \in 0 .. MaxPkt /\ size # 0
    BY Sizes
  <2> QED BY <2>1, Entry
<1>5. in_queue' = Append(in_queue, e) /\ in_queue \in Seq(Entries)
  BY <1>2, <1>3, <1>4, Queues
<1>6. Moved(p, p, y)
  BY DEF Moved
<1>7. p[y] # "head_upd"
  <2>1. 1 .. Len(head_upd) = {}
    BY <1>2
  <2> QED BY <1>1, <2>1 DEF TokenPlaces, Tokens
<1>8. Tokens(Requests(in_queue'), Owner(in_queue'), p, "in_queue")
  <2>1. Requests(in_queue') = Requests(in_queue) /\ Requests(in_queue) \in SUBSET (1 .. Len(in_queue))
    BY <1>4, <1>5, RequestsPush
  <2>2. Tokens(Requests(in_queue), Owner(in_queue), p, "in_queue")
    BY <1>1 DEF TokenPlaces
  <2>3. \A i \in 1 .. Len(in_queue) : in_queue[i].q \in Pipes
    BY <1>3, Queues
  <2>4. Tokens(Requests(in_queue), Owner(Append(in_queue, e)), p, "in_queue")
    BY <1>5, <1>6, <2>1, <2>2, <2>3, QueuePush
  <2> QED BY <1>5, <2>1, <2>4
<1>9. TokenPlaces(p)'
  BY <1>1, <1>2, <1>8, PlacesSame DEF TokenPlaces
<1>10. TokenStatus(p)'
  <2>1. ASSUME NEW x \in Pipes, Behind(p, in_queue, x) PROVE Behind(p, in_queue', x)
    <3>1. e.q = x => e.size # 0 /\ p[x] # "head_upd"
      BY <1>4, <1>7
    <3> QED BY <1>5, <2>1, <3>1, BehindPush
  <2> QED BY <1>1, <1>2, <2>1 DEF TokenStatus
<1>11. TokenRead(p, r)'
  BY <1>1, <1>2 DEF TokenRead
<1>12. Clears' /\ TokenNews'
  BY <1>2, ClearsStay, NewsStay DEF TokenInv
<1> QED BY <1>9, <1>10, <1>11, <1>12 DEF TokenInv

\* A head update joins the stream of packets.
LEMMA TokenTakeHeadUpd ==
  ASSUME StreamInv, TokenInv, TakeHeadUpd, UNCHANGED swVars
  PROVE  TokenInv'
<1>1. PICK p \in [Pipes -> Places], r \in [Slots -> Pipes] :
        TokenPlaces(p) /\ TokenStatus(p) /\ TokenRead(p, r)
  BY DEF TokenInv
<1>2. /\ head_upd # <<>> /\ head_upd' = Tail(head_upd)
      /\ in_queue' = Append(in_queue, [q |-> Head(head_upd), size |-> 0])
      /\ UNCHANGED <<pkt_head, pkt_tail, status, dsc_head, pkt_out, dma_in, dma_state, rx_buf,
                     nb_head, pending, rx_head, rx_tail, NextApi, pc, ret, consumed>>
  BY DEF TakeHeadUpd, swVars, ringVars, pipeVars, threadVars
<1>3. TypeOK
  BY DEF StreamInv
<1>4. PICK q \in Pipes : q = Head(head_upd) /\ q = head_upd[1] /\ 1 \in 1 .. Len(head_upd)
  BY <1>2, <1>3, Queues, Dequeue
<1>5. PICK e \in Entries : e = [q |-> q, size |-> 0] /\ e.q = q /\ e.size = 0
  <2>1. 0 \in 0 .. MaxPkt
    BY Sizes
  <2> QED BY <2>1, Entry
<1>6. in_queue' = Append(in_queue, e) /\ in_queue \in Seq(Entries)
  BY <1>2, <1>3, <1>4, <1>5, Queues
<1>7. p[q] = "head_upd"
  BY <1>1, <1>4 DEF TokenPlaces, Tokens
<1>8. PICK o \in [Pipes -> Places] : Moved(p, o, q) /\ o[q] = "in_queue"
  <2>1. "in_queue" \in Places
    BY DEF Places
  <2> QED BY <2>1, Move
<1>9. Tokens(1 .. Len(head_upd'), head_upd', o, "head_upd")
  <2> DEFINE n == Len(head_upd)
  <2>1. /\ n \in Nat /\ n >= 1 /\ Len(head_upd') = n - 1
        /\ \A i \in 1 .. n - 1 : head_upd'[i] = head_upd[i + 1]
    BY <1>2, <1>3, Queues, Dequeue
  <2>2. /\ \A i \in 1 .. n - 1 : (i \in 1 .. n - 1 <=> i + 1 \in 1 .. n) /\ head_upd'[i] = head_upd[i + 1]
        /\ (1 .. n) \in SUBSET (1 .. n) /\ (1 .. n - 1) \in SUBSET (1 .. n - 1) /\ 1 \in 1 .. n
    BY <2>1
  <2>3. Tokens(1 .. n, head_upd, p, "head_upd") /\ \A i \in 1 .. n : head_upd[i] \in Pipes
    BY <1>1, <1>3, TokType DEF TokenPlaces, TokTyped
  <2>4. head_upd[1] = q /\ o[q] # "head_upd"
    BY <1>4, <1>8
  <2> HIDE DEF n
  <2>5. Tokens(1 .. n - 1, head_upd', o, "head_upd")
    BY <1>8, <2>1, <2>2, <2>3, <2>4, TokensPop
  <2> QED BY <2>1, <2>5
<1>10. Tokens(Requests(in_queue'), Owner(in_queue'), o, "in_queue")
  <2>1. /\ Requests(in_queue') = Requests(in_queue) \cup {Len(in_queue) + 1}
        /\ Requests(in_queue) \in SUBSET (1 .. Len(in_queue))
    BY <1>5, <1>6, RequestsPush
  <2>2. Tokens(Requests(in_queue), Owner(in_queue), p, "in_queue")
    BY <1>1 DEF TokenPlaces
  <2>3. \A i \in 1 .. Len(in_queue) : in_queue[i].q \in Pipes
    BY <1>3, Queues
  <2>4. e.q = q /\ p[q] # "in_queue" /\ o[q] = "in_queue"
    BY <1>5, <1>7, <1>8
  <2>5. Tokens(Requests(in_queue'), Owner(Append(in_queue, e)), o, "in_queue")
    BY <1>6, <1>8, <2>1, <2>2, <2>3, <2>4, QueuePush
  <2> QED BY <1>6, <2>5
<1>11. TokenPlaces(o)'
  <2>1. /\ p[q] \notin {"pkt_out", "dma_in", "ring", "aware"}
        /\ o[q] \notin {"pkt_out", "dma_in", "ring", "aware"}
    BY <1>7, <1>8
  <2>2. TokTyped
    BY <1>3, TokType
  <2>3. /\ Tokens(Descs(pkt_out'), Owner(pkt_out'), o, "pkt_out")
        /\ Tokens(Descs(dma_in'), Owner(dma_in'), o, "dma_in")
        /\ Tokens(InRing', RingOwner', o, "ring")
        /\ \A y \in Pipes : Aware(y)' <=> o[y] = "aware"
    BY <1>1, <1>2, <1>8, <2>1, <2>2, PlacesStay
  <2> QED BY <1>9, <1>10, <2>3 DEF TokenPlaces
<1>12. TokenStatus(o)'
  <2>1. ASSUME NEW y \in Pipes, Behind(p, in_queue, y), y # q PROVE Behind(o, in_queue', y)
    <3>1. e.q # y /\ o[y] = p[y]
      BY <1>5, <1>8, <2>1 DEF Moved
    <3> QED BY <1>6, <2>1, <3>1, BehindPush
  <2>2. ASSUME Behind(p, in_queue, q) PROVE Behind(o, in_queue', q)
    <3>1. \A i \in 1 .. Len(in_queue) : ~(in_queue[i].q = q /\ in_queue[i].size > 0)
      BY <1>7, <2>2 DEF Behind
    <3>2. /\ Len(in_queue) \in Nat /\ Len(in_queue') = Len(in_queue) + 1
          /\ in_queue'[Len(in_queue) + 1] = e
          /\ \A i \in 1 .. Len(in_queue) : in_queue'[i] = in_queue[i]
      BY <1>6, Enqueue
    <3>3. \A i \in 1 .. Len(in_queue') : i \in 1 .. Len(in_queue) \/ i = Len(in_queue) + 1
      BY <3>2
    <3>4. \A i \in 1 .. Len(in_queue') : ~(in_queue'[i].q = q /\ in_queue'[i].size > 0)
      BY <1>5, <3>1, <3>2, <3>3
    <3> QED BY <3>4 DEF Behind
  <2>3. ASSUME NEW y \in Pipes PROVE /\ status[y] => o[y] # "none"
                                     /\ ~status[y] => /\ o[y] \in {"none", "head_upd", "in_queue"}
                                                      /\ pkt_head[y] = pkt_tail[y]
                                                      /\ Behind(o, in_queue', y)
    <3>1. CASE y = q
      BY <1>1, <1>8, <2>2, <3>1 DEF TokenStatus
    <3>2. CASE y # q
      <4>1. o[y] = p[y]
        BY <1>8, <3>2 DEF Moved
      <4> QED BY <1>1, <2>1, <3>2, <4>1 DEF TokenStatus
    <3> QED BY <3>1, <3>2
  <2> QED BY <1>2, <2>3 DEF TokenStatus
<1>13. TokenRead(o, r)'
  BY <1>1, <1>2, <1>7, <1>8, ReadStay
<1>14. Clears' /\ TokenNews'
  BY <1>2, ClearsStay, NewsStay DEF TokenInv
<1> QED BY <1>11, <1>12, <1>13, <1>14 DEF TokenInv

LEMMA FreshPush ==
  ASSUME NEW S, NEW f \in Seq(S), NEW e \in S, NEW h, Fresh(f, h),
         e.needs_dsc /\ e.size = 0 => e.tail # h[e.q]
  PROVE  Fresh(Append(f, e), h)
<1>1. /\ Len(f) \in Nat /\ Len(Append(f, e)) = Len(f) + 1 /\ Append(f, e)[Len(f) + 1] = e
      /\ \A i \in 1 .. Len(f) : Append(f, e)[i] = f[i]
  BY Enqueue
<1>2. \A i \in 1 .. Len(f) + 1 : i \in 1 .. Len(f) \/ i = Len(f) + 1
  BY <1>1
<1> QED BY <1>1, <1>2 DEF Fresh, Descs

LEMMA FreshPop ==
  ASSUME NEW S, NEW f \in Seq(S), f # <<>>, NEW h, Fresh(f, h)
  PROVE  Fresh(Tail(f), h)
<1>1. /\ Len(f) \in Nat /\ Len(Tail(f)) = Len(f) - 1
      /\ \A i \in 1 .. Len(f) - 1 : Tail(f)[i] = f[i + 1] /\ i + 1 \in 1 .. Len(f)
  BY Dequeue
<1> QED BY <1>1 DEF Fresh, Descs

\* The packet queue manager handles an entry of pipe q and passes on m.
LEMMA TokenManage ==
  ASSUME StreamInv, NEW p, NEW o, NEW r \in [Slots -> Pipes], NEW q \in Pipes, NEW m \in Metas,
         Moved(p, o, q), TokenPlaces(p), TokenRead(p, r),
         in_queue # <<>>, in_queue[1].q = q, in_queue' = Tail(in_queue),
         pkt_out' = Append(pkt_out, m), m.q = q,
         UNCHANGED <<head_upd, dma_in, rx_buf, rx_head, pending, dsc_head, nb_head>>,
         \/ o = p /\ in_queue[1].size # 0 /\ ~m.needs_dsc
         \/ /\ p[q] \in {"none", "in_queue"} /\ o[q] \in {"none", "pkt_out"}
            /\ in_queue[1].size = 0 <=> p[q] = "in_queue"
            /\ m.needs_dsc <=> o[q] = "pkt_out"
  PROVE  TokenPlaces(o)' /\ TokenRead(o, r)'
<1>1. TypeOK /\ TokTyped
  BY TokType DEF StreamInv
<1>2. Tokens(Requests(in_queue'), Owner(in_queue'), o, "in_queue")
  <2> DEFINE I == Requests(in_queue)
             J == Requests(Tail(in_queue))
  <2>1. in_queue \in Seq(Entries) /\ \A i \in 1 .. Len(in_queue) : in_queue[i].q \in Pipes
    BY <1>1, Queues
  <2>2. /\ I \in SUBSET (1 .. Len(in_queue)) /\ J \in SUBSET (1 .. Len(in_queue) - 1)
        /\ \A i \in 1 .. Len(in_queue) - 1 : i \in J <=> i + 1 \in I
        /\ 1 \in I <=> in_queue[1].size = 0
    BY <2>1, RequestsPop
  <2>3. Tokens(I, Owner(in_queue), p, "in_queue")
    BY DEF TokenPlaces
  <2>4. \/ 1 \notin I /\ (o = p \/ (p[q] # "in_queue" /\ o[q] # "in_queue"))
        \/ 1 \in I /\ in_queue[1].q = q /\ o[q] # "in_queue"
    BY <2>2
  <2> HIDE DEF I, J
  <2>5. Tokens(J, Owner(Tail(in_queue)), o, "in_queue")
    BY <2>1, <2>2, <2>3, <2>4, QueuePop
  <2> QED BY <2>5 DEF J
<1>3. Tokens(Descs(pkt_out'), Owner(pkt_out'), o, "pkt_out")
  <2> DEFINE I == Descs(pkt_out)
             J == Descs(pkt_out')
  <2>1. pkt_out \in Seq(Metas) /\ \A i \in 1 .. Len(pkt_out) : pkt_out[i].q \in Pipes
    BY <1>1, Queues
  <2>2. /\ I \in SUBSET (1 .. Len(pkt_out))
        /\ m.needs_dsc => J = I \cup {Len(pkt_out) + 1}
        /\ ~m.needs_dsc => J = I
    BY <2>1, DescsPush
  <2>3. Tokens(I, Owner(pkt_out), p, "pkt_out")
    BY DEF TokenPlaces
  <2>4. \/ J = I /\ (o = p \/ (p[q] # "pkt_out" /\ o[q] # "pkt_out"))
        \/ J = I \cup {Len(pkt_out) + 1} /\ m.q = q /\ p[q] # "pkt_out" /\ o[q] = "pkt_out"
    BY <2>2
  <2> HIDE DEF I, J
  <2>5. Tokens(J, Owner(Append(pkt_out, m)), o, "pkt_out")
    BY <2>1, <2>2, <2>3, <2>4, QueuePush
  <2> QED BY <2>5 DEF J
<1>4. CASE o = p
  <2>1. /\ Tokens(1 .. Len(head_upd'), head_upd', p, "head_upd")
        /\ Tokens(Descs(dma_in'), Owner(dma_in'), p, "dma_in")
        /\ Tokens(InRing', RingOwner', p, "ring")
        /\ \A y \in Pipes : Aware(y)' <=> p[y] = "aware"
    BY PlacesSame
  <2>2. TokenRead(p, r)'
    BY DEF TokenRead
  <2> QED BY <1>2, <1>3, <1>4, <2>1, <2>2 DEF TokenPlaces
<1>5. CASE p[q] \in {"none", "in_queue"} /\ o[q] \in {"none", "pkt_out"}
  <2>1. /\ p[q] \notin {"head_upd", "dma_in", "ring", "aware"}
        /\ o[q] \notin {"head_upd", "dma_in", "ring", "aware"}
    BY <1>5
  <2>2. /\ Tokens(1 .. Len(head_upd'), head_upd', o, "head_upd")
        /\ Tokens(Descs(dma_in'), Owner(dma_in'), o, "dma_in")
        /\ Tokens(InRing', RingOwner', o, "ring")
        /\ \A y \in Pipes : Aware(y)' <=> o[y] = "aware"
    BY <1>1, <2>1, PlacesStay
  <2>3. TokenRead(o, r)'
    BY <2>1, ReadStay
  <2> QED BY <1>2, <1>3, <2>2, <2>3 DEF TokenPlaces
<1> QED BY <1>4, <1>5

\* A packet gets a descriptor exactly when its pipe has no token.
LEMMA TokenManagePacket ==
  ASSUME StreamInv, TokenInv, ManagePacket, UNCHANGED swVars
  PROVE  TokenInv'
<1>1. PICK p \in [Pipes -> Places], r \in [Slots -> Pipes] :
        TokenPlaces(p) /\ TokenStatus(p) /\ TokenRead(p, r)
  BY DEF TokenInv
<1>2. TypeOK /\ in_queue \in Seq(Entries) /\ in_queue # <<>>
  BY Queues DEF StreamInv, ManagePacket
<1>3. /\ 1 \in 1 .. Len(in_queue) /\ Head(in_queue) = in_queue[1]
      /\ in_queue[1].q \in Pipes /\ in_queue[1].size \in 0 .. MaxPkt
  <2>1. 1 \in 1 .. Len(in_queue) /\ Head(in_queue) = in_queue[1] /\ Head(in_queue) \in Entries
    BY <1>2, Dequeue
  <2> QED BY <2>1 DEF Entries
<1>4. PICK q \in Pipes : q = in_queue[1].q
  BY <1>3
<1>5. PICK size \in 0 .. MaxPkt : size = in_queue[1].size
  BY <1>3
<1>6. PICK full \in BOOLEAN : full <=> RingFree(pkt_head[q], pkt_tail[q], PipeSize) < size
  OBVIOUS
<1>7. PICK d \in BOOLEAN : d <=> ~status[q] /\ ~full
  OBVIOUS
<1>8. /\ pkt_out' = Append(pkt_out, [q |-> q, size |-> size, tail |-> pkt_tail[q], needs_dsc |-> d,
                                     drop_data |-> full, drop_meta |-> full, slot |-> 0])
      /\ size > 0 /\ in_queue' = Tail(in_queue)
      /\ pkt_tail' = IF full THEN pkt_tail ELSE [pkt_tail EXCEPT ![q] = Advance(@, size)]
      /\ status' = [status EXCEPT ![q] = TRUE]
  <2>1. (RingFree(pkt_head[q], pkt_tail[q], PipeSize) < size) = full
    BY <1>6
  <2>2. (~status[q] /\ ~full) = d
    BY <1>7
  <2> QED BY <1>3, <1>4, <1>5, <2>1, <2>2 DEF ManagePacket, NeedsDsc
<1>9. UNCHANGED <<pkt_head, dsc_head, head_upd, dma_in, dma_state, rx_buf, nb_head, pending,
                  rx_head, rx_tail, NextApi, pc, ret, consumed>>
  BY DEF ManagePacket, swVars, ringVars, pipeVars, threadVars
<1>10. /\ pkt_head \in [Pipes -> Flits] /\ pkt_tail \in [Pipes -> Flits]
       /\ status \in [Pipes -> BOOLEAN] /\ pkt_out \in Seq(Metas)
  BY <1>2 DEF TypeOK, NicTypeOK
<1>11. PICK m \in Metas : /\ pkt_out' = Append(pkt_out, m) /\ m.q = q /\ m.size = size
                          /\ m.needs_dsc = d
  <2> DEFINE m == [q |-> q, size |-> size, tail |-> pkt_tail[q], needs_dsc |-> d,
                   drop_data |-> full, drop_meta |-> full, slot |-> 0]
  <2>1. pkt_tail[q] \in Flits /\ 0 \in Slots
    BY <1>10, Sizes
  <2>2. m \in Metas
    BY <2>1 DEF Metas
  <2>3. m.q = q /\ m.size = size /\ m.needs_dsc = d /\ pkt_out' = Append(pkt_out, m)
    BY <1>8
  <2> QED BY <2>2, <2>3
<1>12. ASSUME ~status[q] PROVE d = TRUE /\ p[q] = "none"
  <2>1. pkt_head[q] = pkt_tail[q] /\ Behind(p, in_queue, q) /\ p[q] \in {"none", "head_upd", "in_queue"}
    BY <1>1, <1>12 DEF TokenStatus
  <2>2. ~full
    <3>1. /\ pkt_head[q] \in Int /\ PipeSize \in Nat /\ PipeSize >= 1
          /\ MaxPkt \in Nat /\ MaxPkt <= PipeSize - 1
      <4>1. pkt_head[q] \in Flits
        BY <1>10
      <4> QED BY <4>1, Sizes
    <3>2. RingFree(pkt_head[q], pkt_head[q], PipeSize) = PipeSize - 1 - PipeDist(pkt_head[q], pkt_head[q])
      BY <3>1, DistFree DEF RingFree, PipeDist
    <3>3. PipeDist(pkt_head[q], pkt_head[q]) = 0
      BY <1>10, PipeDistType
    <3> QED BY <1>6, <2>1, <3>1, <3>2, <3>3
  <2>3. in_queue[1].q = q /\ in_queue[1].size > 0
    BY <1>4, <1>5, <1>8
  <2>4. p[q] # "head_upd" /\ \A j \in Requests(in_queue) : in_queue[j].q = q => j < 1
    BY <1>3, <2>1, <2>3 DEF Behind
  <2>5. p[q] # "in_queue"
    <3>1. \A j \in Requests(in_queue) : Owner(in_queue)[j] = in_queue[j].q /\ j >= 1
      BY DEF Requests, Owner
    <3>2. p[q] = "in_queue" => \E j \in Requests(in_queue) : Owner(in_queue)[j] = q
      BY <1>1 DEF TokenPlaces, Tokens
    <3>3. \A j \in Requests(in_queue) : j \in Int
      BY DEF Requests
    <3> QED BY <2>4, <3>1, <3>2, <3>3
  <2> QED BY <1>7, <1>12, <2>1, <2>2, <2>4, <2>5
<1>13. PICK o \in [Pipes -> Places] : /\ Moved(p, o, q)
                                      /\ status[q] => o = p
                                      /\ ~status[q] => o[q] = "pkt_out"
  <2>1. Moved(p, p, q) /\ "pkt_out" \in Places
    BY DEF Moved, Places
  <2> QED BY <2>1, Move
<1>14. TokenPlaces(o)' /\ TokenRead(o, r)'
  <2>1. in_queue[1].q = q /\ in_queue[1].size # 0
    BY <1>4, <1>5, <1>8
  <2>2. \/ o = p /\ in_queue[1].size # 0 /\ ~m.needs_dsc
        \/ /\ p[q] \in {"none", "in_queue"} /\ o[q] \in {"none", "pkt_out"}
           /\ in_queue[1].size = 0 <=> p[q] = "in_queue"
           /\ m.needs_dsc <=> o[q] = "pkt_out"
    <3>1. CASE status[q]
      BY <1>7, <1>11, <1>13, <2>1, <3>1
    <3>2. CASE ~status[q]
      BY <1>11, <1>12, <1>13, <2>1, <3>2
    <3> QED BY <3>1, <3>2
  <2> QED BY <1>1, <1>2, <1>8, <1>9, <1>11, <1>13, <2>1, <2>2, TokenManage
<1>15. TokenStatus(o)'
  <2>1. ASSUME NEW y \in Pipes, y # q
        PROVE  /\ status'[y] = status[y] /\ pkt_tail'[y] = pkt_tail[y] /\ o[y] = p[y]
               /\ Behind(p, in_queue, y) => Behind(o, in_queue', y)
    <3>1. status'[y] = status[y] /\ pkt_tail'[y] = pkt_tail[y] /\ o[y] = p[y]
      BY <1>8, <1>10, <1>13, <2>1 DEF Moved
    <3> QED BY <1>2, <1>8, <3>1, BehindPop
  <2>2. status'[q] = TRUE /\ o[q] # "none"
    BY <1>1, <1>8, <1>10, <1>13 DEF TokenStatus
  <2> QED BY <1>1, <1>9, <2>1, <2>2 DEF TokenStatus
<1>16. Clears'
  BY <1>9, ClearsStay DEF TokenInv
<1>17. TokenNews'
  <2>1. m.size # 0
    BY <1>8, <1>11
  <2>2. Fresh(pkt_out, rx_head)
    BY DEF TokenInv, TokenNews
  <2>3. Fresh(pkt_out', rx_head)
    BY <1>10, <1>11, <2>1, <2>2, FreshPush
  <2> QED BY <1>9, <2>3 DEF TokenInv, TokenNews, InRing, Unread
<1> QED BY <1>14, <1>15, <1>16, <1>17 DEF TokenInv

\* A request is served at once, or the next packet will bring the token.
LEMMA TokenManageHeadUpd ==
  ASSUME StreamInv, TokenInv, ManageHeadUpd, UNCHANGED swVars
  PROVE  TokenInv'
<1>1. PICK p \in [Pipes -> Places], r \in [Slots -> Pipes] :
        TokenPlaces(p) /\ TokenStatus(p) /\ TokenRead(p, r)
  BY DEF TokenInv
<1>2. TypeOK /\ in_queue \in Seq(Entries) /\ in_queue # <<>>
  BY Queues DEF StreamInv, ManageHeadUpd
<1>3. 1 \in 1 .. Len(in_queue) /\ Head(in_queue) = in_queue[1] /\ in_queue[1].q \in Pipes
  <2>1. 1 \in 1 .. Len(in_queue) /\ Head(in_queue) = in_queue[1] /\ Head(in_queue) \in Entries
    BY <1>2, Dequeue
  <2> QED BY <2>1 DEF Entries
<1>4. PICK q \in Pipes : q = in_queue[1].q
  BY <1>3
<1>5. PICK e \in BOOLEAN : e <=> pkt_head[q] = pkt_tail[q]
  OBVIOUS
<1>6. PICK d \in BOOLEAN : d <=> ~e
  OBVIOUS
<1>7. /\ pkt_out' = Append(pkt_out, [q |-> q, size |-> 0, tail |-> pkt_tail[q], needs_dsc |-> d,
                                     drop_data |-> FALSE, drop_meta |-> e, slot |-> 0])
      /\ in_queue[1].size = 0 /\ in_queue' = Tail(in_queue)
      /\ status' = [status EXCEPT ![q] = d]
  <2>1. (pkt_head[q] = pkt_tail[q]) = e /\ (~e) = d /\ (pkt_head[q] # pkt_tail[q]) = d
    BY <1>5, <1>6
  <2> QED BY <1>3, <1>4, <2>1 DEF ManageHeadUpd, StatusOnHeadUpd
<1>8. UNCHANGED <<pkt_head, pkt_tail, dsc_head, head_upd, dma_in, dma_state, rx_buf, nb_head,
                  pending, rx_head, rx_tail, NextApi, pc, ret, consumed>>
  BY DEF ManageHeadUpd, swVars, ringVars, pipeVars, threadVars
<1>9. /\ pkt_head \in [Pipes -> Flits] /\ pkt_tail \in [Pipes -> Flits]
      /\ status \in [Pipes -> BOOLEAN] /\ pkt_out \in Seq(Metas)
  BY <1>2 DEF TypeOK, NicTypeOK
<1>10. PICK m \in Metas : /\ pkt_out' = Append(pkt_out, m) /\ m.q = q /\ m.tail = pkt_tail[q]
                          /\ m.needs_dsc = d
  <2> DEFINE m == [q |-> q, size |-> 0, tail |-> pkt_tail[q], needs_dsc |-> d,
                   drop_data |-> FALSE, drop_meta |-> e, slot |-> 0]
  <2>1. pkt_tail[q] \in Flits /\ 0 \in Slots
    BY <1>9, Sizes
  <2>2. 0 \in 0 .. MaxPkt
    BY Sizes
  <2>3. m \in Metas
    BY <2>1, <2>2 DEF Metas
  <2>4. m.q = q /\ m.tail = pkt_tail[q] /\ m.needs_dsc = d /\ pkt_out' = Append(pkt_out, m)
    BY <1>7
  <2> QED BY <2>3, <2>4
<1>11. p[q] = "in_queue"
  <2>1. 1 \in Requests(in_queue) /\ Owner(in_queue)[1] = q
    BY <1>3, <1>4, <1>7 DEF Requests, Owner
  <2> QED BY <1>1, <2>1 DEF TokenPlaces, Tokens
<1>12. PICK o \in [Pipes -> Places] : /\ Moved(p, o, q)
                                      /\ d => o[q] = "pkt_out"
                                      /\ ~d => o[q] = "none"
  <2>1. "none" \in Places /\ "pkt_out" \in Places
    BY DEF Places
  <2> QED BY <2>1, Move
<1>13. TokenPlaces(o)' /\ TokenRead(o, r)'
  <2>1. in_queue[1].q = q
    BY <1>4
  <2>2. /\ p[q] \in {"none", "in_queue"} /\ o[q] \in {"none", "pkt_out"}
        /\ in_queue[1].size = 0 <=> p[q] = "in_queue"
        /\ m.needs_dsc <=> o[q] = "pkt_out"
    BY <1>7, <1>10, <1>11, <1>12
  <2> QED BY <1>1, <1>2, <1>7, <1>8, <1>10, <1>12, <2>1, <2>2, TokenManage
<1>14. TokenStatus(o)'
  <2>1. ASSUME NEW y \in Pipes, y # q
        PROVE  /\ status'[y] = status[y] /\ o[y] = p[y]
               /\ Behind(p, in_queue, y) => Behind(o, in_queue', y)
    <3>1. status'[y] = status[y] /\ o[y] = p[y]
      BY <1>7, <1>9, <1>12, <2>1 DEF Moved
    <3> QED BY <1>2, <1>7, <3>1, BehindPop
  <2>2. CASE d
    <3>1. status'[q] = TRUE /\ o[q] # "none"
      BY <1>7, <1>9, <1>12, <2>2
    <3> QED BY <1>1, <1>8, <2>1, <3>1 DEF TokenStatus
  <2>3. CASE ~d
    <3>1. status'[q] = FALSE /\ o[q] = "none" /\ pkt_head[q] = pkt_tail[q]
      BY <1>5, <1>6, <1>7, <1>9, <1>12, <2>3
    <3>2. \A j \in Requests(in_queue') : in_queue'[j].q # q
      <4>1. \A j \in Requests(in_queue') : Owner(in_queue')[j] = in_queue'[j].q
        BY DEF Requests, Owner
      <4>2. \A j \in Requests(in_queue') : o[Owner(in_queue')[j]] = "in_queue"
        BY <1>13 DEF TokenPlaces, Tokens
      <4> QED BY <3>1, <4>1, <4>2
    <3>3. Behind(o, in_queue', q)
      BY <3>1, <3>2 DEF Behind
    <3> QED BY <1>1, <1>8, <2>1, <3>1, <3>3 DEF TokenStatus
  <2> QED BY <2>2, <2>3
<1>15. Clears'
  BY <1>8, ClearsStay DEF TokenInv
<1>16. TokenNews'
  <2>1. pkt_head[q] = rx_head[q]
    BY DEF StreamInv, PipesOrder
  <2>2. m.needs_dsc => m.tail # rx_head[m.q]
    BY <1>5, <1>6, <1>10, <2>1
  <2>3. Fresh(pkt_out, rx_head)
    BY DEF TokenInv, TokenNews
  <2>4. Fresh(pkt_out', rx_head)
    BY <1>9, <1>10, <2>2, <2>3, FreshPush
  <2> QED BY <1>8, <2>4 DEF TokenInv, TokenNews, InRing, Unread
<1> QED BY <1>13, <1>14, <1>15, <1>16 DEF TokenInv

\* A descriptor gets its slot.
LEMMA TokenReserveSlot ==
  ASSUME StreamInv, Room, TokenInv, ReserveSlot, UNCHANGED swVars
  PROVE  TokenInv'
<1>1. PICK p \in [Pipes -> Places], r \in [Slots -> Pipes] :
        TokenPlaces(p) /\ TokenStatus(p) /\ TokenRead(p, r)
  BY DEF TokenInv
<1>2. TypeOK /\ pkt_out \in Seq(Metas) /\ dma_in \in Seq(Metas) /\ pkt_out # <<>> /\ TokTyped
  BY Queues DEF StreamInv, ReserveSlot
<1>3. PICK m \in Metas : m = Head(pkt_out) /\ m = pkt_out[1] /\ 1 \in 1 .. Len(pkt_out)
  BY <1>2, Dequeue
<1>4. PICK q \in Pipes : q = m.q
  BY MetaType
<1>5. PICK e \in Metas : /\ dma_in' = Append(dma_in, e) /\ e.q = q /\ e.size = m.size
                         /\ e.tail = m.tail /\ e.needs_dsc = m.needs_dsc
  <2> DEFINE e == [m EXCEPT !.slot = dsc_tail]
  <2>1. m.needs_dsc \in BOOLEAN /\ (m.needs_dsc => RingFree(dsc_head, dsc_tail, N) # 0)
    BY <1>2, <1>3, MetaType DEF Room
  <2>2. dsc_tail \in Slots
    BY <1>2 DEF TypeOK, NicTypeOK
  <2>3. /\ e \in Metas /\ e.q = q /\ e.size = m.size /\ e.tail = m.tail
        /\ e.needs_dsc = m.needs_dsc
    BY <1>4, <2>2 DEF Metas
  <2>4. [m EXCEPT !.slot = dsc_tail,
                  !.needs_dsc = @ /\ ~(m.needs_dsc /\ RingFree(dsc_head, dsc_tail, N) = 0)] = e
    <3>1. (m.needs_dsc /\ ~(m.needs_dsc /\ RingFree(dsc_head, dsc_tail, N) = 0)) = m.needs_dsc
      BY <2>1
    <3> QED BY <3>1 DEF Metas
  <2>5. dma_in' = Append(dma_in, e)
    BY <1>3, <2>4 DEF ReserveSlot, ReservedSlot
  <2> QED BY <2>3, <2>5
<1>6. /\ pkt_out' = Tail(pkt_out)
      /\ UNCHANGED <<pkt_head, pkt_tail, status, dsc_head, head_upd, in_queue, dma_state, rx_buf,
                     nb_head, pending, rx_head, rx_tail, NextApi, pc, ret, consumed>>
  BY DEF ReserveSlot, swVars, ringVars, pipeVars, threadVars
<1>7. m.needs_dsc => p[q] = "pkt_out"
  <2>1. m.needs_dsc => 1 \in Descs(pkt_out) /\ Owner(pkt_out)[1] = q
    BY <1>3, <1>4 DEF Descs, Owner
  <2> QED BY <1>1, <2>1 DEF TokenPlaces, Tokens
<1>8. PICK o \in [Pipes -> Places] : /\ Moved(p, o, q)
                                     /\ m.needs_dsc => o[q] = "dma_in"
                                     /\ ~m.needs_dsc => o = p
  <2>1. Moved(p, p, q) /\ "dma_in" \in Places
    BY DEF Moved, Places
  <2> QED BY <2>1, Move
<1>9. Tokens(Descs(pkt_out'), Owner(pkt_out'), o, "pkt_out")
  <2> DEFINE I == Descs(pkt_out)
             J == Descs(Tail(pkt_out))
  <2>1. \A i \in 1 .. Len(pkt_out) : pkt_out[i].q \in Pipes
    BY <1>2, Queues
  <2>2. /\ I \in SUBSET (1 .. Len(pkt_out)) /\ J \in SUBSET (1 .. Len(pkt_out) - 1)
        /\ \A i \in 1 .. Len(pkt_out) - 1 : i \in J <=> i + 1 \in I
        /\ 1 \in I <=> pkt_out[1].needs_dsc
    BY <1>2, DescsPop
  <2>3. Tokens(I, Owner(pkt_out), p, "pkt_out")
    BY <1>1 DEF TokenPlaces
  <2>4. \/ 1 \notin I /\ (o = p \/ (p[q] # "pkt_out" /\ o[q] # "pkt_out"))
        \/ 1 \in I /\ pkt_out[1].q = q /\ o[q] # "pkt_out"
    BY <1>3, <1>4, <1>8, <2>2
  <2> HIDE DEF I, J
  <2>5. Tokens(J, Owner(Tail(pkt_out)), o, "pkt_out")
    BY <1>2, <1>8, <2>1, <2>2, <2>3, <2>4, QueuePop
  <2> QED BY <1>6, <2>5 DEF J
<1>10. Tokens(Descs(dma_in'), Owner(dma_in'), o, "dma_in")
  <2> DEFINE I == Descs(dma_in)
             J == Descs(dma_in')
  <2>1. \A i \in 1 .. Len(dma_in) : dma_in[i].q \in Pipes
    BY <1>2, Queues
  <2>2. /\ I \in SUBSET (1 .. Len(dma_in))
        /\ e.needs_dsc => J = I \cup {Len(dma_in) + 1}
        /\ ~e.needs_dsc => J = I
    BY <1>2, <1>5, DescsPush
  <2>3. Tokens(I, Owner(dma_in), p, "dma_in")
    BY <1>1 DEF TokenPlaces
  <2>4. \/ J = I /\ (o = p \/ (p[q] # "dma_in" /\ o[q] # "dma_in"))
        \/ J = I \cup {Len(dma_in) + 1} /\ e.q = q /\ p[q] # "dma_in" /\ o[q] = "dma_in"
    BY <1>5, <1>7, <1>8, <2>2
  <2> HIDE DEF I, J
  <2>5. Tokens(J, Owner(Append(dma_in, e)), o, "dma_in")
    BY <1>2, <1>8, <2>1, <2>2, <2>3, <2>4, QueuePush
  <2> QED BY <1>5, <2>5 DEF J
<1>11. TokenPlaces(o)' /\ TokenRead(o, r)'
  <2>1. CASE ~m.needs_dsc
    <3>1. o = p
      BY <1>8, <2>1
    <3>2. /\ Tokens(1 .. Len(head_upd'), head_upd', p, "head_upd")
          /\ Tokens(Requests(in_queue'), Owner(in_queue'), p, "in_queue")
          /\ Tokens(InRing', RingOwner', p, "ring")
          /\ \A y \in Pipes : Aware(y)' <=> p[y] = "aware"
      BY <1>1, <1>6, PlacesSame
    <3>3. TokenRead(p, r)'
      BY <1>1, <1>6 DEF TokenRead
    <3> QED BY <1>9, <1>10, <3>1, <3>2, <3>3 DEF TokenPlaces
  <2>2. CASE m.needs_dsc
    <3>1. /\ p[q] \notin {"head_upd", "in_queue", "ring", "aware"}
          /\ o[q] \notin {"head_upd", "in_queue", "ring", "aware"}
      BY <1>7, <1>8, <2>2
    <3>2. /\ Tokens(1 .. Len(head_upd'), head_upd', o, "head_upd")
          /\ Tokens(Requests(in_queue'), Owner(in_queue'), o, "in_queue")
          /\ Tokens(InRing', RingOwner', o, "ring")
          /\ \A y \in Pipes : Aware(y)' <=> o[y] = "aware"
      BY <1>1, <1>2, <1>6, <1>8, <3>1, PlacesStay
    <3>3. TokenRead(o, r)'
      BY <1>1, <1>6, <1>8, <3>1, ReadStay
    <3> QED BY <1>9, <1>10, <3>2, <3>3 DEF TokenPlaces
  <2> QED BY <2>1, <2>2
<1>12. TokenStatus(o)'
  <2>1. \A y \in Pipes : o[y] = p[y] \/ (p[y] = "pkt_out" /\ o[y] = "dma_in")
    BY <1>7, <1>8 DEF Moved
  <2>2. ASSUME NEW y \in Pipes, o[y] = p[y], Behind(p, in_queue, y) PROVE Behind(o, in_queue, y)
    BY <2>2 DEF Behind
  <2> QED BY <1>1, <1>6, <2>1, <2>2 DEF TokenStatus
<1>13. Clears'
  BY <1>6, ClearsStay DEF TokenInv
<1>14. TokenNews'
  <2>1. TokenNews
    BY DEF TokenInv
  <2>2. Fresh(pkt_out', rx_head)
    BY <1>2, <1>6, <2>1, FreshPop DEF TokenNews
  <2>3. e.needs_dsc /\ e.size = 0 => e.tail # rx_head[e.q]
    <3>1. m.needs_dsc => 1 \in Descs(pkt_out)
      BY <1>3 DEF Descs
    <3> QED BY <1>3, <1>4, <1>5, <2>1, <3>1 DEF TokenNews, Fresh
  <2>4. Fresh(dma_in', rx_head)
    BY <1>2, <1>5, <2>1, <2>3, FreshPush DEF TokenNews
  <2>5. dma_state = "SEND_DESCRIPTOR" => dma_in'[1] = dma_in[1]
    <3>1. dma_state = "SEND_DESCRIPTOR" => dma_in # <<>>
      BY DEF StreamInv, AtDescriptor
    <3>2. dma_in # <<>> => 1 \in 1 .. Len(dma_in)
      BY <1>2, Dequeue
    <3> QED BY <1>2, <1>5, <3>1, <3>2, Enqueue
  <2> QED BY <1>6, <2>1, <2>2, <2>4, <2>5 DEF TokenNews, InRing, Unread
<1> QED BY <1>11, <1>12, <1>13, <1>14 DEF TokenInv

\* A token that moves beyond the packet queue manager.
LEMMA StatusStay ==
  ASSUME NEW p, NEW o, NEW q \in Pipes, Moved(p, o, q), TokenStatus(p),
         UNCHANGED <<status, pkt_head, pkt_tail, in_queue>>,
         o = p \/ (p[q] \notin {"none", "head_upd", "in_queue"} /\ o[q] # "none")
  PROVE  TokenStatus(o)'
<1>1. \A y \in Pipes : o[y] = p[y] \/ (p[y] \notin {"none", "head_upd", "in_queue"} /\ o[y] # "none")
  BY DEF Moved
<1>2. ASSUME NEW y \in Pipes, o[y] = p[y], Behind(p, in_queue, y) PROVE Behind(o, in_queue, y)
  BY <1>2 DEF Behind
<1> QED BY <1>1, <1>2 DEF TokenStatus

\* fpga_to_cpu is done with an entry.
LEMMA TokenDmaPop ==
  ASSUME StreamInv, NEW p, NEW o, NEW q \in Pipes, Moved(p, o, q), TokenPlaces(p),
         dma_in # <<>>, dma_in' = Tail(dma_in),
         \/ ~dma_in[1].needs_dsc /\ o = p
         \/ dma_in[1].needs_dsc /\ dma_in[1].q = q /\ o[q] # "dma_in"
  PROVE  Tokens(Descs(dma_in'), Owner(dma_in'), o, "dma_in")
<1> DEFINE I == Descs(dma_in)
           J == Descs(Tail(dma_in))
<1>1. dma_in \in Seq(Metas) /\ \A i \in 1 .. Len(dma_in) : dma_in[i].q \in Pipes
  BY Queues DEF StreamInv
<1>2. /\ I \in SUBSET (1 .. Len(dma_in)) /\ J \in SUBSET (1 .. Len(dma_in) - 1)
      /\ \A i \in 1 .. Len(dma_in) - 1 : i \in J <=> i + 1 \in I
      /\ 1 \in I <=> dma_in[1].needs_dsc
  BY <1>1, DescsPop
<1>3. Tokens(I, Owner(dma_in), p, "dma_in")
  BY DEF TokenPlaces
<1>4. \/ 1 \notin I /\ (o = p \/ (p[q] # "dma_in" /\ o[q] # "dma_in"))
      \/ 1 \in I /\ dma_in[1].q = q /\ o[q] # "dma_in"
  BY <1>2
<1> HIDE DEF I, J
<1>5. Tokens(J, Owner(Tail(dma_in)), o, "dma_in")
  BY <1>1, <1>2, <1>3, <1>4, QueuePop
<1> QED BY <1>5 DEF J

LEMMA TokenStartDescriptor ==
  ASSUME StreamInv, TokenInv, StartDescriptor, UNCHANGED swVars
  PROVE  TokenInv'
<1>1. PICK p \in [Pipes -> Places], r \in [Slots -> Pipes] :
        TokenPlaces(p) /\ TokenStatus(p) /\ TokenRead(p, r)
  BY DEF TokenInv
<1>2. UNCHANGED <<pkt_head, pkt_tail, status, dsc_head, head_upd, in_queue, pkt_out, dma_in, rx_buf,
                  nb_head, pending, rx_head, rx_tail, NextApi, pc, ret, consumed>>
  BY DEF StartDescriptor, swVars, ringVars, pipeVars, threadVars
<1>3. TokenPlaces(p)'
  BY <1>1, <1>2, PlacesSame DEF TokenPlaces
<1>4. TokenStatus(p)' /\ TokenRead(p, r)' /\ Clears'
  BY <1>1, <1>2, ClearsStay DEF TokenStatus, TokenRead, TokenInv
<1>5. TokenNews'
  <2>1. TokenNews
    BY DEF TokenInv
  <2>2. dma_in[1].needs_dsc => dma_in[1].tail # rx_head[dma_in[1].q]
    <3>1. dma_in[1].size = 0 /\ 1 \in 1 .. Len(dma_in)
      <4>1. dma_in \in Seq(Metas)
        BY Queues DEF StreamInv
      <4> QED BY <4>1, Dequeue DEF StartDescriptor, descriptor_only
    <3> QED BY <2>1, <3>1 DEF TokenNews, Fresh, Descs
  <2> QED BY <1>2, <2>1, <2>2 DEF TokenNews, InRing, Unread
<1> QED BY <1>3, <1>4, <1>5 DEF TokenInv

\* A packet is in host memory; its descriptor announces its end.
LEMMA TokenDmaPacket ==
  ASSUME StreamInv, TokenInv, DmaPacket, UNCHANGED swVars
  PROVE  TokenInv'
<1>1. PICK p \in [Pipes -> Places], r \in [Slots -> Pipes] :
        TokenPlaces(p) /\ TokenStatus(p) /\ TokenRead(p, r)
  BY DEF TokenInv
<1>2. /\ dma_state = "START_TRANSFER" /\ dma_in # <<>>
      /\ UNCHANGED <<pkt_head, pkt_tail, status, dsc_head, head_upd, in_queue, pkt_out, rx_buf,
                     nb_head, pending, rx_head, rx_tail, NextApi, pc, ret, consumed>>
  BY DEF DmaPacket, swVars, ringVars, pipeVars, threadVars
<1>3. dma_in \in Seq(Metas)
  BY Queues DEF StreamInv
<1>4. PICK m \in Metas : m = Head(dma_in) /\ m = dma_in[1] /\ 1 \in 1 .. Len(dma_in)
  BY <1>2, <1>3, Dequeue
<1>5. PICK end : end = Advance(m.tail, m.size)
  OBVIOUS
<1>6. /\ m.size # 0
      /\ m.needs_dsc => dma_in' = [dma_in EXCEPT ![1].tail = end] /\ dma_state' = "SEND_DESCRIPTOR"
      /\ ~m.needs_dsc => dma_in' = Tail(dma_in) /\ dma_state' = "START_TRANSFER"
  BY <1>4, <1>5 DEF DmaPacket, descriptor_only
<1>7. /\ Tokens(1 .. Len(head_upd'), head_upd', p, "head_upd")
      /\ Tokens(Requests(in_queue'), Owner(in_queue'), p, "in_queue")
      /\ Tokens(Descs(pkt_out'), Owner(pkt_out'), p, "pkt_out")
      /\ Tokens(InRing', RingOwner', p, "ring")
      /\ \A y \in Pipes : Aware(y)' <=> p[y] = "aware"
  BY <1>1, <1>2, PlacesSame
<1>8. TokenStatus(p)' /\ TokenRead(p, r)' /\ Clears'
  BY <1>1, <1>2, ClearsStay DEF TokenStatus, TokenRead, TokenInv
<1>9. TokenNews
  BY DEF TokenInv
<1>10. CASE ~m.needs_dsc
  <2>1. PICK q \in Pipes : q = m.q
    BY MetaType
  <2>2. Moved(p, p, q) /\ ~dma_in[1].needs_dsc
    BY <1>4, <1>10 DEF Moved
  <2>3. dma_in' = Tail(dma_in) /\ dma_state' = "START_TRANSFER"
    BY <1>6, <1>10
  <2>4. Tokens(Descs(dma_in'), Owner(dma_in'), p, "dma_in")
    BY <1>1, <1>2, <2>2, <2>3, TokenDmaPop
  <2>5. Fresh(dma_in', rx_head)
    BY <1>2, <1>3, <1>9, <2>3, FreshPop DEF TokenNews
  <2>6. TokenNews'
    BY <1>2, <1>9, <2>3, <2>5 DEF TokenNews, InRing, Unread
  <2>7. TokenPlaces(p)'
    BY <1>7, <2>4 DEF TokenPlaces
  <2> QED BY <1>8, <2>6, <2>7 DEF TokenInv
<1>11. CASE m.needs_dsc
  <2>1. dma_in' = [dma_in EXCEPT ![1].tail = end] /\ dma_state' = "SEND_DESCRIPTOR"
    BY <1>6, <1>11
  <2>2. PICK e : e = [m EXCEPT !.tail = end]
    OBVIOUS
  <2>3. e.q = m.q /\ e.size = m.size /\ e.needs_dsc = m.needs_dsc /\ e.tail = end
    BY <2>2 DEF Metas
  <2>4. /\ Len(dma_in') = Len(dma_in) /\ dma_in'[1] = e
        /\ \A i \in 1 .. Len(dma_in) : i # 1 => dma_in'[i] = dma_in[i]
    <3>1. dma_in' = [dma_in EXCEPT ![1] = e]
      BY <1>4, <2>1, <2>2
    <3> QED BY <1>3, <1>4, <3>1
  <2>5. Descs(dma_in') = Descs(dma_in) /\ Owner(dma_in') = Owner(dma_in)
    <3>1. \A i \in 1 .. Len(dma_in) : /\ dma_in'[i].q = dma_in[i].q
                                      /\ dma_in'[i].needs_dsc = dma_in[i].needs_dsc
      BY <1>4, <2>3, <2>4
    <3> QED BY <2>4, <3>1 DEF Descs, Owner
  <2>6. Tokens(Descs(dma_in'), Owner(dma_in'), p, "dma_in")
    BY <1>1, <2>5 DEF TokenPlaces
  <2>7. Fresh(dma_in', rx_head)
    <3>1. ASSUME NEW i \in Descs(dma_in'), dma_in'[i].size = 0
          PROVE  dma_in'[i].tail # rx_head[dma_in'[i].q]
      <4>1. i # 1
        BY <1>6, <2>3, <2>4, <3>1
      <4>2. i \in Descs(dma_in) /\ i \in 1 .. Len(dma_in)
        BY <2>5 DEF Descs
      <4>3. dma_in'[i] = dma_in[i]
        BY <2>4, <4>1, <4>2
      <4> QED BY <1>9, <3>1, <4>2, <4>3 DEF TokenNews, Fresh
    <3> QED BY <3>1 DEF Fresh
  <2>8. end # rx_head[m.q]
    <3>1. Marked(m) /\ m.q \in Pipes /\ m.tail \in Flits /\ m.size \in Nat
          /\ m.drop_data \in BOOLEAN /\ m.size > 0
      <4>1. Marked(m)
        BY <1>4 DEF StreamInv, Marks
      <4>2. m.q \in Pipes /\ m.tail \in Flits /\ m.size \in Nat /\ m.drop_data \in BOOLEAN
        BY MetaType
      <4> QED BY <1>6, <4>1, <4>2
    <3>2. ~m.drop_data
      BY <1>11, <3>1 DEF Marked
    <3>3. 1 \in 1 .. FlowLen /\ Flow(1) = m /\ ~Written(1)
      <4>1. Len(dma_in) \in Nat /\ Len(pkt_out) \in Nat
        BY FlowType DEF StreamInv, FlowTyped
      <4> QED BY <1>2, <1>4, <4>1 DEF FlowLen, Flow, Written
    <3>4. IsData(1)
      BY <3>1, <3>2, <3>3 DEF IsData
    <3>5. ViewOf(1) = [q |-> m.q, tail |-> m.tail, len |-> m.size, live |-> TRUE]
      <4>1. Live(1) = TRUE
        BY <3>4 DEF Live
      <4> QED BY <3>3, <3>4, <4>1 DEF ViewOf
    <3>6. View[1].q = m.q /\ View[1].tail = m.tail /\ View[1].len = m.size /\ View[1].live
      BY <3>3, <3>5 DEF View
    <3>7. Ordered(View, FlowLen, rx_head, dma_tail, pkt_tail)
      BY DEF StreamInv, StreamOrder, Stream
    <3>8. PipeDist(rx_head[m.q], m.tail) + m.size <= PipeDist(rx_head[m.q], pkt_tail[m.q])
      BY <3>3, <3>6, <3>7 DEF Ordered
    <3>9. rx_head[m.q] \in Flits /\ pkt_tail[m.q] \in Flits
      BY <3>1 DEF StreamInv, TypeOK, NicTypeOK
    <3>10. /\ PipeDist(rx_head[m.q], m.tail) \in Nat /\ PipeDist(rx_head[m.q], rx_head[m.q]) = 0
           /\ PipeDist(rx_head[m.q], pkt_tail[m.q]) \in 0 .. PipeSize - 1
      BY <3>1, <3>9, PipeDistType
    <3>11. PipeDist(rx_head[m.q], m.tail) + m.size <= PipeSize - 1
      BY <3>1, <3>8, <3>10, Sizes
    <3>12. PipeDist(rx_head[m.q], end) = PipeDist(rx_head[m.q], m.tail) + m.size
      BY <1>5, <3>1, <3>9, <3>11, PipeMove
    <3> QED BY <3>1, <3>10, <3>12
  <2>9. TokenNews'
    BY <1>2, <1>9, <2>3, <2>4, <2>7, <2>8 DEF TokenNews, InRing, Unread
  <2>10. TokenPlaces(p)'
    BY <1>7, <2>6 DEF TokenPlaces
  <2> QED BY <1>8, <2>9, <2>10 DEF TokenInv
<1> QED BY <1>10, <1>11

\* The descriptor is in host memory, in the slot reserved for it.
LEMMA TokenSendDescriptor ==
  ASSUME StreamInv, TokenInv, SendDescriptor, UNCHANGED swVars
  PROVE  TokenInv'
<1>1. PICK p \in [Pipes -> Places], r \in [Slots -> Pipes] :
        TokenPlaces(p) /\ TokenStatus(p) /\ TokenRead(p, r)
  BY DEF TokenInv
<1>2. /\ dma_state = "SEND_DESCRIPTOR" /\ dma_in' = Tail(dma_in) /\ dma_state' = "START_TRANSFER"
      /\ UNCHANGED <<pkt_head, pkt_tail, status, dsc_head, head_upd, in_queue, pkt_out,
                     nb_head, pending, rx_head, rx_tail, NextApi, pc, ret, consumed>>
  BY DEF SendDescriptor, swVars, ringVars, pipeVars, threadVars
<1>3. /\ dma_in # <<>> /\ (dma_in[1].size > 0 => dma_in[1].needs_dsc)
      /\ dma_in \in Seq(Metas) /\ rx_buf \in [Slots -> Notifs] /\ TokTyped
  BY <1>2, Queues DEF StreamInv, AtDescriptor, TypeOK, NicTypeOK
<1>4. PICK m \in Metas : m = Head(dma_in) /\ m = dma_in[1] /\ 1 \in 1 .. Len(dma_in)
  BY <1>3, Dequeue
<1>5. /\ m.q \in Pipes /\ m.tail \in Flits /\ m.size \in Nat /\ m.needs_dsc \in BOOLEAN
      /\ m.drop_data \in BOOLEAN /\ m.drop_meta \in BOOLEAN /\ m.slot \in Slots
  BY MetaType
<1>6. m.drop_meta <=> ~m.needs_dsc
  <2>1. Marked(m)
    BY <1>4 DEF StreamInv, Marks
  <2>2. CASE m.size = 0
    BY <2>1, <2>2 DEF Marked
  <2>3. CASE m.size > 0
    <3>1. m.needs_dsc /\ ~m.drop_data
      BY <1>3, <1>4, <2>1, <2>3 DEF Marked
    <3> QED BY <2>1, <2>3, <3>1 DEF Marked
  <2> QED BY <1>5, <2>2, <2>3
<1>7. TokenNews
  BY DEF TokenInv
<1>8. Fresh(dma_in', rx_head)
  BY <1>2, <1>3, <1>7, FreshPop DEF TokenNews
<1>9. Clears'
  BY <1>2, ClearsStay DEF TokenInv
<1>10. CASE ~m.needs_dsc
  <2>1. rx_buf' = rx_buf
    BY <1>4, <1>6, <1>10 DEF SendDescriptor
  <2>2. Moved(p, p, m.q) /\ ~dma_in[1].needs_dsc
    BY <1>4, <1>10 DEF Moved
  <2>3. Tokens(Descs(dma_in'), Owner(dma_in'), p, "dma_in")
    BY <1>1, <1>2, <1>3, <1>5, <2>2, TokenDmaPop
  <2>4. TokenPlaces(p)'
    BY <1>1, <1>2, <2>1, <2>3, PlacesSame DEF TokenPlaces
  <2>5. TokenStatus(p)' /\ TokenRead(p, r)'
    BY <1>1, <1>2 DEF TokenStatus, TokenRead
  <2>6. TokenNews'
    BY <1>2, <1>7, <1>8, <2>1 DEF TokenNews, InRing, Unread
  <2> QED BY <1>9, <2>4, <2>5, <2>6 DEF TokenInv
<1>11. CASE m.needs_dsc
  <2>1. PICK q \in Pipes : q = m.q
    BY <1>5
  <2>2. p[q] = "dma_in"
    <3>1. 1 \in Descs(dma_in) /\ Owner(dma_in)[1] = q
      BY <1>4, <1>11, <2>1 DEF Descs, Owner
    <3> QED BY <1>1, <3>1 DEF TokenPlaces, Tokens
  <2>3. PICK o \in [Pipes -> Places] : Moved(p, o, q) /\ o[q] = "ring"
    <3>1. "ring" \in Places
      BY DEF Places
    <3> QED BY <3>1, Move
  <2>4. Tokens(Descs(dma_in'), Owner(dma_in'), o, "dma_in")
    <3>1. dma_in[1].needs_dsc /\ dma_in[1].q = q /\ o[q] # "dma_in"
      BY <1>4, <1>11, <2>1, <2>3
    <3> QED BY <1>1, <1>2, <1>3, <2>3, <3>1, TokenDmaPop
  <2>5. PICK k \in Slots : k = m.slot
    BY <1>5
  <2>6. k \notin InRing
    <3> DEFINE U == {s \in Slots : Unread(s)}
    <3>1. PICK w \in Slots : Ring(dma_in, Len(dma_in), dsc_head, nb_head, w, dsc_tail, U)
      BY DEF StreamInv, RingShape
    <3> HIDE DEF U
    <3>2. RingDist(dsc_head, w) <= RingDist(dsc_head, k)
      BY <1>4, <1>11, <2>5, <3>1 DEF Ring
    <3>3. dsc_head \in Slots
      BY DEF StreamInv, TypeOK, NicTypeOK
    <3>4. RingDist(dsc_head, w) \in Nat /\ RingDist(dsc_head, k) \in Nat
      BY <3>3, RingDistType
    <3>5. k \notin U
      BY <3>1, <3>2, <3>4 DEF Ring
    <3> QED BY <3>5 DEF U, InRing
  <2>7. PICK n \in Notifs : n = [signal |-> 1, queue_id |-> q, tail |-> m.tail]
    BY <1>5 DEF Notifs
  <2>8. n.signal = 1 /\ n.queue_id = q /\ n.tail = m.tail
    BY <2>7
  <2>9. rx_buf' = [rx_buf EXCEPT ![k] = n]
    BY <1>4, <1>5, <1>6, <1>11, <2>1, <2>5, <2>7 DEF SendDescriptor
  <2>10. rx_buf'[k] = n /\ \A s \in Slots : s # k => rx_buf'[s] = rx_buf[s]
    BY <1>3, <2>9
  <2>11. InRing' = InRing \cup {k}
    BY <2>8, <2>10 DEF InRing, Unread
  <2>12. Tokens(InRing', RingOwner', o, "ring")
    <3>1. Tokens(InRing, RingOwner, p, "ring")
      BY <1>1 DEF TokenPlaces
    <3>2. /\ \A i \in InRing : RingOwner[i] \in Pipes
          /\ \A i \in InRing : RingOwner'[i] = RingOwner[i]
      BY <1>3, <2>6, <2>10 DEF TokTyped, InRing, RingOwner
    <3>3. RingOwner'[k] = q /\ p[q] # "ring" /\ o[q] = "ring"
      BY <2>2, <2>3, <2>8, <2>10 DEF RingOwner
    <3>4. Tokens(InRing \cup {k}, RingOwner', o, "ring")
      BY <2>3, <3>1, <3>2, <3>3, TokensJoin
    <3> QED BY <2>11, <3>4
  <2>13. TokenPlaces(o)'
    <3>1. /\ p[q] \notin {"head_upd", "in_queue", "pkt_out", "aware"}
          /\ o[q] \notin {"head_upd", "in_queue", "pkt_out", "aware"}
      BY <2>2, <2>3
    <3>2. /\ Tokens(1 .. Len(head_upd'), head_upd', o, "head_upd")
          /\ Tokens(Requests(in_queue'), Owner(in_queue'), o, "in_queue")
          /\ Tokens(Descs(pkt_out'), Owner(pkt_out'), o, "pkt_out")
          /\ \A y \in Pipes : Aware(y)' <=> o[y] = "aware"
      BY <1>1, <1>2, <1>3, <2>3, <3>1, PlacesStay
    <3> QED BY <2>4, <2>12, <3>2 DEF TokenPlaces
  <2>14. TokenStatus(o)'
    BY <1>1, <1>2, <2>2, <2>3, StatusStay
  <2>15. TokenRead(o, r)'
    BY <1>1, <1>2, <2>2, <2>3, ReadStay
  <2>16. TokenNews'
    <3>1. m.tail # rx_head[q]
      BY <1>2, <1>4, <1>7, <1>11, <2>1 DEF TokenNews
    <3>2. \A s \in InRing \cup {k} : rx_buf'[s].tail # rx_head[rx_buf'[s].queue_id]
      BY <1>7, <2>6, <2>8, <2>10, <3>1 DEF TokenNews, InRing
    <3> QED BY <1>2, <1>7, <1>8, <2>11, <3>2 DEF TokenNews
  <2> QED BY <1>9, <2>13, <2>14, <2>15, <2>16 DEF TokenInv
<1> QED BY <1>5, <1>10, <1>11

\* Software reads a notification: the program is aware of the pipe.
LEMMA TokenConsume ==
  ASSUME StreamInv, TokenInv, ConsumeNotification
  PROVE  TokenInv'
<1>1. PICK p \in [Pipes -> Places], r \in [Slots -> Pipes] :
        TokenPlaces(p) /\ TokenStatus(p) /\ TokenRead(p, r)
  BY DEF TokenInv
<1>2. PICK b \in Slots : b = nb_head
  BY DEF StreamInv, TypeOK
<1>3. /\ rx_buf \in [Slots -> Notifs] /\ pending \in [Pipes -> Flits] /\ dsc_head \in Slots
      /\ rx_head \in [Pipes -> Flits] /\ rx_tail \in [Pipes -> Flits] /\ TokTyped
  BY TokType DEF StreamInv, TypeOK, NicTypeOK
<1>4. /\ rx_buf[b].queue_id \in Pipes /\ rx_buf[b].tail \in Flits /\ rx_buf[b].signal = 1
  BY <1>2, <1>3, NotifType DEF ConsumeNotification
<1>5. PICK q \in Pipes : q = rx_buf[b].queue_id
  BY <1>4
<1>6. /\ pending' = [pending EXCEPT ![q] = rx_buf[b].tail]
      /\ rx_buf' = [rx_buf EXCEPT ![b] = NoNotif] /\ nb_head' = (b + 1) % N
      /\ consumed' = TRUE /\ pc = "tails"
      /\ UNCHANGED <<pkt_head, pkt_tail, status, dsc_head, head_upd, in_queue, pkt_out, dma_in,
                     dma_state, rx_head, rx_tail, pc, ret, NextApi>>
  BY <1>2, <1>5 DEF ConsumeNotification, pipeVars
<1>7. b \in InRing /\ RingOwner[b] = q
  BY <1>4, <1>5 DEF InRing, Unread, RingOwner
<1>8. p[q] = "ring"
  BY <1>1, <1>7 DEF TokenPlaces, Tokens
<1>9. PICK o \in [Pipes -> Places] : Moved(p, o, q) /\ o[q] = "aware"
  <2>1. "aware" \in Places
    BY DEF Places
  <2> QED BY <2>1, Move
<1>10. /\ InRing' = InRing \ {b}
       /\ \A s \in Slots : s # b => rx_buf'[s] = rx_buf[s]
  <2>1. rx_buf'[b].signal # 1 /\ \A s \in Slots : s # b => rx_buf'[s] = rx_buf[s]
    BY <1>3, <1>6 DEF NoNotif
  <2> QED BY <2>1 DEF InRing, Unread
<1>11. Tokens(InRing', RingOwner', o, "ring")
  <2>1. Tokens(InRing, RingOwner, p, "ring")
    BY <1>1 DEF TokenPlaces
  <2>2. /\ \A i \in InRing : RingOwner[i] \in Pipes
        /\ \A i \in InRing \ {b} : RingOwner'[i] = RingOwner[i]
    BY <1>3, <1>10 DEF TokTyped, InRing, RingOwner
  <2>3. Tokens(InRing \ {b}, RingOwner', o, "ring")
    BY <1>7, <1>9, <2>1, <2>2, TokensLeave
  <2> QED BY <1>10, <2>3
<1>12. TokenNews
  BY DEF TokenInv
<1>13. rx_buf[b].tail # rx_head[q] /\ rx_head[q] = pending[q]
  <2>1. rx_buf[b].tail # rx_head[q]
    BY <1>5, <1>7, <1>12 DEF TokenNews
  <2> QED BY <1>1, <1>8, <2>1 DEF TokenPlaces, Aware
<1>14. pending'[q] = rx_buf[b].tail /\ \A y \in Pipes : y # q => pending'[y] = pending[y]
  BY <1>3, <1>6
<1>15. TokenPlaces(o)'
  <2>1. /\ p[q] \notin {"head_upd", "in_queue", "pkt_out", "dma_in"}
        /\ o[q] \notin {"head_upd", "in_queue", "pkt_out", "dma_in"}
    BY <1>8, <1>9
  <2>2. /\ Tokens(1 .. Len(head_upd'), head_upd', o, "head_upd")
        /\ Tokens(Requests(in_queue'), Owner(in_queue'), o, "in_queue")
        /\ Tokens(Descs(pkt_out'), Owner(pkt_out'), o, "pkt_out")
        /\ Tokens(Descs(dma_in'), Owner(dma_in'), o, "dma_in")
    BY <1>1, <1>3, <1>6, <1>9, <2>1, PlacesStay
  <2>3. ASSUME NEW y \in Pipes PROVE Aware(y)' <=> o[y] = "aware"
    <3>1. CASE y = q
      BY <1>6, <1>9, <1>13, <1>14, <3>1 DEF Aware
    <3>2. CASE y # q
      <4>1. Aware(y)' <=> Aware(y)
        BY <1>6, <1>14, <3>2 DEF Aware
      <4> QED BY <1>1, <1>9, <3>2, <4>1 DEF TokenPlaces, Moved
    <3> QED BY <3>1, <3>2
  <2> QED BY <1>11, <2>2, <2>3 DEF TokenPlaces
<1>16. TokenStatus(o)'
  BY <1>1, <1>6, <1>8, <1>9, StatusStay
<1>17. PICK r2 \in [Slots -> Pipes] : r2[b] = q /\ \A s \in Slots : s # b => r2[s] = r[s]
  <2>1. [r EXCEPT ![b] = q] \in [Slots -> Pipes]
    OBVIOUS
  <2> QED BY <2>1
<1>18. TokenRead(o, r2)'
  <2>1. RingDist(dsc_head, nb_head') = RingDist(dsc_head, b) + 1
    <3> DEFINE U == {s \in Slots : Unread(s)}
    <3>1. PICK w \in Slots : Ring(dma_in, Len(dma_in), dsc_head, nb_head, w, dsc_tail, U)
      BY DEF StreamInv, RingShape
    <3>2. b \in U
      BY <1>7 DEF InRing
    <3> HIDE DEF U
    <3>3. RingDist(dsc_head, b) < RingDist(dsc_head, w)
      BY <3>1, <3>2 DEF Ring
    <3>4. RingDist(dsc_head, b) \in Nat /\ RingDist(dsc_head, w) \in 0 .. N - 1 /\ N \in Nat
      BY <1>3, RingDistType, Sizes
    <3>5. RingDist(dsc_head, b) + 1 <= N - 1
      BY <3>3, <3>4
    <3> QED BY <1>3, <1>6, <3>5, RingMove
  <2>2. \A s \in Slots : RingDist(dsc_head, s) < RingDist(dsc_head, nb_head') =>
          s = b \/ RingDist(dsc_head, s) < RingDist(dsc_head, b)
    <3>1. \A s \in Slots : /\ RingDist(dsc_head, s) \in Nat
                           /\ RingDist(dsc_head, s) = RingDist(dsc_head, b) => s = b
      BY <1>3, RingDistType
    <3> QED BY <2>1, <3>1
  <2>3. \A s \in Slots : RingDist(dsc_head, s) < RingDist(dsc_head, b) =>
          p[r[s]] = "aware" /\ r[s] # q /\ s # b /\ r2[s] = r[s] /\ o[r[s]] = "aware"
    <3>1. \A s \in Slots : RingDist(dsc_head, s) < RingDist(dsc_head, b) => p[r[s]] = "aware"
      BY <1>1, <1>2 DEF TokenRead
    <3>2. RingDist(dsc_head, b) \in Nat
      BY <1>3, RingDistType
    <3>3. \A s \in Slots : RingDist(dsc_head, s) < RingDist(dsc_head, b) => s # b
      BY <3>2
    <3> QED BY <1>8, <1>9, <1>17, <3>1, <3>3 DEF Moved
  <2>4. \A s, t \in Slots : /\ RingDist(dsc_head, s) < RingDist(dsc_head, b)
                            /\ RingDist(dsc_head, t) < RingDist(dsc_head, b)
                            /\ r[s] = r[t]
                            => s = t
    BY <1>1, <1>2 DEF TokenRead
  <2>5. \A s \in Slots : RingDist(dsc_head, s) < RingDist(dsc_head, nb_head') => o[r2[s]] = "aware"
    BY <1>9, <1>17, <2>2, <2>3
  <2>6. \A s, t \in Slots : /\ RingDist(dsc_head, s) < RingDist(dsc_head, nb_head')
                            /\ RingDist(dsc_head, t) < RingDist(dsc_head, nb_head')
                            /\ r2[s] = r2[t]
                            => s = t
    BY <1>17, <2>2, <2>3, <2>4
  <2> QED BY <1>6, <2>5, <2>6 DEF TokenRead
<1>19. Clears'
  <2>1. Clears
    BY DEF TokenInv
  <2>2. rx_tail[q] = rx_head[q]
    <3>1. PipeDist(rx_head[q], rx_tail[q]) <= PipeDist(rx_head[q], pending[q])
      BY DEF StreamInv, PipesOrder, Order
    <3>2. /\ PipeDist(rx_head[q], pending[q]) = 0 /\ PipeDist(rx_head[q], rx_tail[q]) \in Nat
          /\ PipeDist(rx_head[q], rx_head[q]) = 0
      BY <1>3, <1>13, PipeDistType
    <3>3. PipeDist(rx_head[q], rx_tail[q]) = PipeDist(rx_head[q], rx_head[q])
      BY <3>1, <3>2
    <3> QED BY <1>3, <3>3, PipeDistType
  <2>3. \A y \in Pipes : rx_tail[y] # rx_head[y] => rx_tail[y] = pending'[y]
    BY <1>14, <2>1, <2>2 DEF Clears
  <2> QED BY <1>6, <2>1, <2>3 DEF Clears
<1>20. TokenNews'
  <2>1. \A s \in InRing \ {b} : rx_buf'[s].tail # rx_head[rx_buf'[s].queue_id]
    BY <1>10, <1>12 DEF TokenNews, InRing
  <2> QED BY <1>6, <1>10, <1>12, <2>1 DEF TokenNews
<1> QED BY <1>15, <1>16, <1>18, <1>19, <1>20 DEF TokenInv

\* No slot is read and not given back.
LEMMA NoneRead ==
  ASSUME NEW p, NEW r, dsc_head \in Slots, dsc_head = nb_head
  PROVE  TokenRead(p, r)
<1>1. \A s \in Slots : RingDist(dsc_head, s) \in Nat /\ RingDist(dsc_head, dsc_head) = 0
  BY RingDistType
<1>2. \A s \in Slots : ~(RingDist(dsc_head, s) < RingDist(dsc_head, nb_head))
  BY <1>1
<1> QED BY <1>2 DEF TokenRead

LEMMA NoneReadNext ==
  ASSUME NEW p, NEW r, dsc_head' \in Slots, dsc_head' = nb_head'
  PROVE  TokenRead(p, r)'
<1>1. \A s \in Slots : RingDist(dsc_head', s) \in Nat /\ RingDist(dsc_head', dsc_head') = 0
  BY RingDistType
<1>2. \A s \in Slots : ~(RingDist(dsc_head', s) < RingDist(dsc_head', nb_head'))
  BY <1>1
<1> QED BY <1>2 DEF TokenRead

\* Steps that leave the NIC and what the program is aware of as they are.
LEMMA TokenCall ==
  ASSUME TokenInv, UNCHANGED <<pkt_head, pkt_tail, status, head_upd, in_queue, pkt_out, dma_in,
                               dma_state, rx_buf, rx_head, pending>>,
         Clears', UNCHANGED <<dsc_head, nb_head>> \/ (dsc_head' \in Slots /\ dsc_head' = nb_head')
  PROVE  TokenInv'
<1>1. PICK p \in [Pipes -> Places], r \in [Slots -> Pipes] :
        TokenPlaces(p) /\ TokenStatus(p) /\ TokenRead(p, r)
  BY DEF TokenInv
<1>2. TokenPlaces(p)'
  BY <1>1, PlacesSame DEF TokenPlaces
<1>3. TokenStatus(p)'
  BY <1>1 DEF TokenStatus
<1>4. TokenRead(p, r)'
  <2>1. CASE UNCHANGED <<dsc_head, nb_head>>
    BY <1>1, <2>1 DEF TokenRead
  <2>2. CASE dsc_head' \in Slots /\ dsc_head' = nb_head'
    BY <2>2, NoneReadNext
  <2> QED BY <2>1, <2>2
<1>5. TokenNews'
  BY NewsStay DEF TokenInv
<1> QED BY <1>2, <1>3, <1>4, <1>5 DEF TokenInv

LEMMA TokenReturn ==
  ASSUME StreamInv, TokenInv, GetNewTailsReturn
  PROVE  TokenInv'
<1>1. Clears /\ nb_head \in Slots
  BY DEF TokenInv, StreamInv, TypeOK
<1>2. /\ UNCHANGED <<pkt_head, pkt_tail, status, head_upd, in_queue, pkt_out, dma_in, dma_state,
                     rx_buf, rx_head, rx_tail, pending, nb_head, NextApi>>
      /\ pc' = "recv" /\ ret' = "recv" /\ consumed' = FALSE /\ dsc_head' = nb_head
  BY <1>1 DEF GetNewTailsReturn, Clears, ringVars, pipeVars
<1>3. Clears'
  BY <1>1, <1>2 DEF Clears
<1> QED BY <1>1, <1>2, <1>3, TokenCall

LEMMA TokenRecv ==
  ASSUME StreamInv, TokenInv, NEW q \in Pipes, Recv(q)
  PROVE  TokenInv'
<1>1. /\ UNCHANGED <<pkt_head, pkt_tail, status, head_upd, in_queue, pkt_out, dma_in, dma_state,
                     rx_buf, rx_head, rx_tail, pending, dsc_head, nb_head, NextApi>>
      /\ pc = "app" /\ pc' = "tails" /\ ret' = "recv" /\ consumed' = FALSE
  BY DEF Recv, CallGetNewTails, nicVars, ringVars, pipeVars
<1>2. Clears'
  BY <1>1 DEF TokenInv, Clears
<1> QED BY <1>1, <1>2, TokenCall

\* Recv takes all there is.
LEMMA TokenRecvReturn ==
  ASSUME Clearing, StreamInv, TokenInv, NEW n \in Flits, RecvReturn(n)
  PROVE  TokenInv'
<1>1. /\ UNCHANGED <<pkt_head, pkt_tail, status, head_upd, in_queue, pkt_out, dma_in, dma_state,
                     rx_buf, rx_head, pending, dsc_head, nb_head, NextApi, ret, consumed>>
      /\ pc = "recv" /\ pc' = "app" /\ n = Available(cur)
      /\ rx_tail' = [rx_tail EXCEPT ![cur] = Advance(rx_tail[cur], n)]
  BY DEF RecvReturn, Clearing, nicVars, ringVars
<1>2. /\ rx_tail \in [Pipes -> Flits] /\ pending \in [Pipes -> Flits] /\ cur \in Pipes
  BY DEF StreamInv, TypeOK
<1>3. Advance(rx_tail[cur], n) = pending[cur]
  <2>1. Available(cur) = PipeDist(rx_tail[cur], pending[cur])
    BY DEF Available, PipeDist
  <2> QED BY <1>1, <1>2, <2>1, PipeTo
<1>4. rx_tail'[cur] = pending[cur] /\ \A q \in Pipes : q # cur => rx_tail'[q] = rx_tail[q]
  BY <1>1, <1>2, <1>3
<1>5. Clears'
  BY <1>1, <1>4 DEF TokenInv, Clears
<1> QED BY <1>1, <1>5, TokenCall

\* Pipes other than q are too few to be everywhere.
LEMMA Pigeonhole ==
  ASSUME NEW S, IsFiniteSet(S), NEW q \in Pipes, NEW f \in [S -> Pipes], \A s \in S : f[s] # q,
         \A s, t \in S : f[s] = f[t] => s = t
  PROVE  Cardinality(S) <= NbPipes - 1
<1> DEFINE T == Pipes \ {q}
<1>1. NbPipes \in Nat /\ NbPipes >= 1 /\ 0 \in Int /\ NbPipes - 1 \in Int
  BY Sizes
<1>2. IsFiniteSet(Pipes) /\ Cardinality(Pipes) = NbPipes
  BY <1>1, FS_Interval DEF Pipes
<1>3. IsFiniteSet(T) /\ Cardinality(T) = NbPipes - 1
  BY <1>2, FS_RemoveElement
<1>4. f \in [S -> T]
  OBVIOUS
<1>5. f \in Injection(S, T)
  BY <1>4 DEF Injection, IsInjective
<1> HIDE DEF T
<1>6. Cardinality(S) <= Cardinality(T)
  BY <1>3, <1>5, FS_Injection
<1> QED BY <1>3, <1>6

\* The program frees all it has received: a request.
LEMMA TokenClear ==
  ASSUME StreamInv, TokenInv, NEW q \in Pipes, Clear(q)
  PROVE  TokenInv'
<1>1. PICK p \in [Pipes -> Places], r \in [Slots -> Pipes] :
        TokenPlaces(p) /\ TokenStatus(p) /\ TokenRead(p, r)
  BY DEF TokenInv
<1>2. /\ head_upd' = IF Len(head_upd) < HeadUpdLimit THEN Append(head_upd, q) ELSE head_upd
      /\ pkt_head' = [pkt_head EXCEPT ![q] = rx_tail[q]]
      /\ rx_head' = [rx_head EXCEPT ![q] = rx_tail[q]]
      /\ pc = "app" /\ Held(q) > 0
      /\ UNCHANGED <<pkt_tail, status, dsc_head, in_queue, pkt_out, dma_in, dma_state, rx_buf,
                     nb_head, pending, rx_tail, NextApi, pc, ret, consumed>>
  BY DEF Clear, AdvanceHead, WriteHead, ringVars, threadVars
<1>3. /\ rx_head \in [Pipes -> Flits] /\ rx_tail \in [Pipes -> Flits]
      /\ pkt_head \in [Pipes -> Flits] /\ head_upd \in Seq(Pipes) /\ dsc_head \in Slots /\ TokTyped
  BY TokType DEF StreamInv, TypeOK, NicTypeOK
<1>4. Clears /\ dsc_head = nb_head /\ TokenNews
  BY <1>2 DEF TokenInv, Clears
<1>5. rx_tail[q] # rx_head[q] /\ rx_tail[q] = pending[q]
  <2>1. Held(q) = PipeDist(rx_head[q], rx_tail[q])
    BY DEF Held, PipeDist
  <2>2. PipeDist(rx_head[q], rx_head[q]) = 0
    BY <1>3, PipeDistType
  <2>3. rx_tail[q] # rx_head[q]
    BY <1>2, <2>1, <2>2
  <2> QED BY <1>4, <2>3 DEF Clears
<1>6. p[q] = "aware"
  BY <1>1, <1>5 DEF TokenPlaces, Aware
<1>7. PICK o \in [Pipes -> Places] : Moved(p, o, q) /\ o[q] = "head_upd"
  <2>1. "head_upd" \in Places
    BY DEF Places
  <2> QED BY <2>1, Move
<1>8. Tokens(1 .. Len(head_upd), head_upd, p, "head_upd")
  BY <1>1 DEF TokenPlaces
<1>9. Len(head_upd) \in Nat /\ \A i \in 1 .. Len(head_upd) : head_upd[i] \in Pipes
  BY <1>3
<1>10. Len(head_upd) < HeadUpdLimit
  <2>1. /\ \A i \in 1 .. Len(head_upd) : head_upd[i] # q
        /\ \A i, j \in 1 .. Len(head_upd) : head_upd[i] = head_upd[j] => i = j
    BY <1>6, <1>8 DEF Tokens
  <2>2. IsFiniteSet(1 .. Len(head_upd)) /\ Cardinality(1 .. Len(head_upd)) = Len(head_upd)
    <3>1. 1 \in Int /\ Len(head_upd) \in Int
      BY <1>9
    <3>2. /\ IsFiniteSet(1 .. Len(head_upd))
          /\ Cardinality(1 .. Len(head_upd)) = IF 1 > Len(head_upd) THEN 0 ELSE Len(head_upd) - 1 + 1
      BY <3>1, FS_Interval
    <3> QED BY <1>9, <3>2
  <2>3. head_upd \in [1 .. Len(head_upd) -> Pipes]
    BY <1>3
  <2>4. Len(head_upd) <= NbPipes - 1
    BY <2>1, <2>2, <2>3, Pigeonhole
  <2>5. NbPipes \in Nat /\ HeadUpdLimit \in Nat /\ HeadUpdLimit >= NbPipes
    BY Sizes
  <2> QED BY <1>9, <2>4, <2>5
<1>11. Tokens(1 .. Len(head_upd'), head_upd', o, "head_upd")
  <2> DEFINE k == Len(head_upd) + 1
  <2>1. head_upd' = Append(head_upd, q)
    BY <1>2, <1>10
  <2>2. /\ Len(head_upd') = k /\ head_upd'[k] = q
        /\ \A i \in 1 .. Len(head_upd) : head_upd'[i] = head_upd[i]
    BY <1>3, <2>1, Enqueue
  <2>3. 1 .. k = (1 .. Len(head_upd)) \cup {k}
    BY <1>9
  <2>4. p[q] # "head_upd" /\ o[q] = "head_upd"
    BY <1>6, <1>7
  <2> HIDE DEF k
  <2>5. Tokens((1 .. Len(head_upd)) \cup {k}, head_upd', o, "head_upd")
    BY <1>7, <1>8, <1>9, <2>2, <2>4, TokensJoin
  <2> QED BY <2>2, <2>3, <2>5
<1>12. /\ rx_head'[q] = rx_tail[q] /\ pkt_head'[q] = rx_tail[q]
       /\ \A y \in Pipes : y # q => rx_head'[y] = rx_head[y] /\ pkt_head'[y] = pkt_head[y]
  BY <1>2, <1>3
<1>13. TokenPlaces(o)'
  <2>1. /\ p[q] \notin {"in_queue", "pkt_out", "dma_in", "ring"}
        /\ o[q] \notin {"in_queue", "pkt_out", "dma_in", "ring"}
    BY <1>6, <1>7
  <2>2. /\ Tokens(Requests(in_queue'), Owner(in_queue'), o, "in_queue")
        /\ Tokens(Descs(pkt_out'), Owner(pkt_out'), o, "pkt_out")
        /\ Tokens(Descs(dma_in'), Owner(dma_in'), o, "dma_in")
        /\ Tokens(InRing', RingOwner', o, "ring")
    BY <1>1, <1>2, <1>3, <1>7, <2>1, PlacesStay
  <2>3. ASSUME NEW y \in Pipes PROVE Aware(y)' <=> o[y] = "aware"
    <3>1. CASE y = q
      BY <1>2, <1>5, <1>7, <1>12, <3>1 DEF Aware
    <3>2. CASE y # q
      <4>1. Aware(y)' <=> Aware(y)
        BY <1>2, <1>12, <3>2 DEF Aware
      <4> QED BY <1>1, <1>7, <3>2, <4>1 DEF TokenPlaces, Moved
    <3> QED BY <3>1, <3>2
  <2> QED BY <1>11, <2>2, <2>3 DEF TokenPlaces
<1>14. TokenStatus(o)'
  <2>1. ASSUME NEW y \in Pipes, y # q
        PROVE  /\ status[y] => o[y] # "none"
               /\ ~status[y] => /\ o[y] \in {"none", "head_upd", "in_queue"}
                                /\ pkt_head'[y] = pkt_tail[y] /\ Behind(o, in_queue, y)
    <3>1. o[y] = p[y] /\ pkt_head'[y] = pkt_head[y]
      BY <1>7, <1>12, <2>1 DEF Moved
    <3>2. Behind(p, in_queue, y) => Behind(o, in_queue, y)
      BY <3>1 DEF Behind
    <3> QED BY <1>1, <3>1, <3>2 DEF TokenStatus
  <2>2. status[q] /\ o[q] # "none"
    BY <1>1, <1>6, <1>7 DEF TokenStatus
  <2> QED BY <1>2, <2>1, <2>2 DEF TokenStatus
<1>15. TokenRead(o, r)'
  BY <1>2, <1>3, <1>4, NoneReadNext
<1>16. Clears'
  BY <1>2, <1>4, <1>12 DEF Clears
<1>17. TokenNews'
  <2>1. \A i \in Descs(pkt_out) : pkt_out[i].q \in Pipes /\ pkt_out[i].q # q
    <3>1. \A i \in Descs(pkt_out) : Owner(pkt_out)[i] = pkt_out[i].q /\ pkt_out[i].q \in Pipes
      BY <1>3 DEF TokTyped, Descs
    <3> QED BY <1>1, <1>6, <3>1 DEF TokenPlaces, Tokens
  <2>2. \A i \in Descs(dma_in) : dma_in[i].q \in Pipes /\ dma_in[i].q # q
    <3>1. \A i \in Descs(dma_in) : Owner(dma_in)[i] = dma_in[i].q /\ dma_in[i].q \in Pipes
      BY <1>3 DEF TokTyped, Descs
    <3> QED BY <1>1, <1>6, <3>1 DEF TokenPlaces, Tokens
  <2>3. \A s \in InRing : rx_buf[s].queue_id \in Pipes /\ rx_buf[s].queue_id # q
    <3>1. \A s \in InRing : RingOwner[s] = rx_buf[s].queue_id /\ rx_buf[s].queue_id \in Pipes
      BY <1>3 DEF TokTyped, InRing
    <3> QED BY <1>1, <1>6, <3>1 DEF TokenPlaces, Tokens
  <2>4. dma_state = "SEND_DESCRIPTOR" /\ dma_in[1].needs_dsc => 1 \in Descs(dma_in)
    <3>1. dma_state = "SEND_DESCRIPTOR" => dma_in # <<>>
      BY DEF StreamInv, AtDescriptor
    <3>2. dma_in \in Seq(Metas)
      BY Queues DEF StreamInv
    <3>3. dma_in # <<>> => 1 \in 1 .. Len(dma_in)
      BY <3>2, Dequeue
    <3> QED BY <3>1, <3>3 DEF Descs
  <2>5. Fresh(pkt_out, rx_head') /\ Fresh(dma_in, rx_head')
    BY <1>4, <1>12, <2>1, <2>2 DEF TokenNews, Fresh
  <2>6. dma_state = "SEND_DESCRIPTOR" /\ dma_in[1].needs_dsc =>
          dma_in[1].tail # rx_head'[dma_in[1].q]
    BY <1>4, <1>12, <2>2, <2>4 DEF TokenNews
  <2>7. \A s \in InRing : rx_buf[s].tail # rx_head'[rx_buf[s].queue_id]
    BY <1>4, <1>12, <2>3 DEF TokenNews
  <2>8. InRing' = InRing
    BY <1>2 DEF InRing, Unread
  <2> QED BY <1>2, <2>5, <2>6, <2>7, <2>8 DEF TokenNews
<1> QED BY <1>13, <1>14, <1>15, <1>16, <1>17 DEF TokenInv

LEMMA InitToken == Init /\ Clearing => TokenInv
<1> SUFFICES ASSUME Init, Clearing PROVE TokenInv
  OBVIOUS
<1>1. PICK p \in [Pipes -> Places] : \A q \in Pipes : p[q] = "head_upd"
  <2>1. [q \in Pipes |-> "head_upd"] \in [Pipes -> Places]
    BY DEF Places
  <2> QED BY <2>1
<1>2. PICK r \in [Slots -> Pipes] : TRUE
  <2>1. [s \in Slots |-> 0] \in [Slots -> Pipes]
    BY Sizes
  <2> QED BY <2>1
<1>3. /\ in_queue = <<>> /\ pkt_out = <<>> /\ dma_in = <<>> /\ dma_state = "START_TRANSFER"
      /\ rx_buf = [s \in Slots |-> NoNotif] /\ head_upd = [i \in 1 .. NbPipes |-> i - 1]
      /\ pkt_head = [q \in Pipes |-> 0] /\ pkt_tail = [q \in Pipes |-> 0]
      /\ rx_head = [q \in Pipes |-> 0] /\ rx_tail = [q \in Pipes |-> 0]
      /\ pending = [q \in Pipes |-> 0] /\ dsc_head = 0 /\ nb_head = 0
      /\ pc = "app" /\ ret = "recv" /\ consumed = FALSE /\ NextApi \in Apis
  BY DEF Init, NicInit
<1>4. NbPipes \in Nat /\ NbPipes >= 1 /\ 0 \in Slots
  BY Sizes
<1>5. Tokens(1 .. Len(head_upd), head_upd, p, "head_upd")
  <2>1. Len(head_upd) = NbPipes
    BY <1>3, <1>4
  <2>2. \A i \in 1 .. NbPipes : head_upd[i] = i - 1 /\ head_upd[i] \in Pipes
    BY <1>3, <1>4 DEF Pipes
  <2>3. \A i, j \in 1 .. NbPipes : head_upd[i] = head_upd[j] => i = j
    BY <1>4, <2>2
  <2>4. ASSUME NEW q \in Pipes PROVE \E i \in 1 .. NbPipes : head_upd[i] = q
    <3>1. q + 1 \in 1 .. NbPipes /\ (q + 1) - 1 = q
      BY <1>4 DEF Pipes
    <3> QED BY <2>2, <3>1
  <2> QED BY <1>1, <2>1, <2>2, <2>3, <2>4 DEF Tokens
<1>6. Requests(in_queue) = {} /\ Descs(pkt_out) = {} /\ Descs(dma_in) = {} /\ InRing = {}
  <2>1. 1 .. Len(in_queue) = {} /\ 1 .. Len(pkt_out) = {} /\ 1 .. Len(dma_in) = {}
    BY <1>3
  <2> QED BY <1>3, <2>1 DEF Requests, Descs, InRing, Unread, NoNotif
<1>7. TokenPlaces(p)
  <2>1. \A q \in Pipes : ~Aware(q)
    BY <1>3 DEF Aware
  <2>2. \A I, Q : I = {} => /\ Tokens(I, Q, p, "in_queue") /\ Tokens(I, Q, p, "pkt_out")
                            /\ Tokens(I, Q, p, "dma_in") /\ Tokens(I, Q, p, "ring")
    BY <1>1 DEF Tokens
  <2> QED BY <1>1, <1>5, <1>6, <2>1, <2>2 DEF TokenPlaces
<1>8. TokenStatus(p)
  <2>1. \A q \in Pipes : Behind(p, in_queue, q)
    BY <1>3 DEF Behind
  <2>2. \A q \in Pipes : pkt_head[q] = pkt_tail[q]
    BY <1>3
  <2> QED BY <1>1, <2>1, <2>2 DEF TokenStatus
<1>9. TokenRead(p, r)
  BY <1>3, <1>4, NoneRead
<1>10. Clears
  BY <1>3 DEF Clears, Clearing
<1>11. TokenNews
  BY <1>3, <1>6 DEF TokenNews, Fresh
<1> QED BY <1>7, <1>8, <1>9, <1>10, <1>11 DEF TokenInv

LEMMA NextToken ==
  ASSUME Clearing, StreamInv, Room, TokenInv, [Next]_vars
  PROVE  TokenInv'
<1>1. Clears
  BY DEF TokenInv
<1>2. ASSUME NEW q \in Pipes, NEW size \in 1 .. MaxPkt, Packet(q, size) PROVE TokenInv'
  BY <1>2, TokenPacket
<1>3. CASE Nic
  BY <1>3, TokenTakeHeadUpd, TokenManagePacket, TokenManageHeadUpd, TokenReserveSlot,
     TokenStartDescriptor, TokenDmaPacket, TokenSendDescriptor DEF Nic, NicStep
<1>4. CASE ConsumeNotification
  BY <1>4, TokenConsume
<1>5. CASE GetNewTailsReturn
  BY <1>5, TokenReturn
<1>6. ASSUME NextFetch \/ NextNone \/ NextSkip \/ NextTake \/ NextRxPipeToRecv PROVE FALSE
  <2>1. NextFetch => pc = "next"
    BY DEF NextFetch
  <2>2. NextNone => pc = "got"
    BY DEF NextNone
  <2>3. NextSkip \/ NextTake => pc \in {"next", "got"}
    BY DEF NextSkip, NextTake
  <2>4. NextRxPipeToRecv => NextApi
    BY DEF NextRxPipeToRecv
  <2> QED BY <1>1, <1>6, <2>1, <2>2, <2>3, <2>4 DEF Clears
<1>7. ASSUME NEW n \in Flits, RecvReturn(n) PROVE TokenInv'
  BY <1>7, TokenRecvReturn
<1>8. ASSUME NEW q \in Pipes, Recv(q) PROVE TokenInv'
  BY <1>8, TokenRecv
<1>9. ASSUME NEW q \in Pipes, Clear(q) PROVE TokenInv'
  BY <1>9, TokenClear
<1>10. ASSUME NEW q \in Pipes, NEW n, Prefetch(q) \/ Free(q, n) PROVE FALSE
  BY <1>10 DEF Prefetch, Free, MayAsk, Clearing
<1>11. CASE UNCHANGED vars
  <2>1. UNCHANGED <<pkt_head, pkt_tail, status, head_upd, in_queue, pkt_out, dma_in, dma_state,
                    rx_buf, rx_head, rx_tail, pending, dsc_head, nb_head, NextApi, pc, ret,
                    consumed>>
    BY <1>11 DEF vars, nicVars, ringVars, pipeVars, threadVars
  <2> QED BY <1>1, <2>1, ClearsStay, TokenCall
<1> QED BY <1>2, <1>3, <1>4, <1>5, <1>6, <1>7, <1>8, <1>9, <1>10, <1>11 DEF Next, InCall

\* A token that waits for a slot finds one: every other slot in use is some
\* other pipe's.
LEMMA TokenRoom ==
  ASSUME Clearing, StreamInv, TokenInv
  PROVE  Room
<1> SUFFICES ASSUME pkt_out # <<>>, Head(pkt_out).needs_dsc, RingFree(dsc_head, dsc_tail, N) = 0
             PROVE  FALSE
  BY DEF Room
<1>1. PICK p \in [Pipes -> Places], r \in [Slots -> Pipes] :
        TokenPlaces(p) /\ TokenStatus(p) /\ TokenRead(p, r)
  BY DEF TokenInv
<1>2. /\ dsc_head \in Slots /\ dsc_tail \in Slots /\ nb_head \in Slots /\ TokTyped
      /\ pkt_out \in Seq(Metas)
  BY Queues DEF StreamInv, TypeOK, NicTypeOK
<1>3. PICK q \in Pipes : p[q] = "pkt_out"
  <2>1. Head(pkt_out) = pkt_out[1] /\ 1 \in 1 .. Len(pkt_out)
    BY <1>2, Dequeue
  <2>2. 1 \in Descs(pkt_out) /\ Owner(pkt_out)[1] \in Pipes
    BY <1>2, <2>1 DEF Descs, TokTyped
  <2> QED BY <1>1, <2>2 DEF TokenPlaces, Tokens
<1> DEFINE S == Slots \ {dsc_tail}
           U == {s \in Slots : Unread(s)}
           Own(s, y) == \/ /\ RingDist(dsc_head, s) < RingDist(dsc_head, nb_head)
                           /\ r[s] = y /\ p[y] = "aware"
                        \/ s \in U /\ RingOwner[s] = y /\ p[y] = "ring"
                        \/ /\ p[y] = "dma_in"
                           /\ \E i \in Descs(dma_in) : dma_in[i].slot = s /\ Owner(dma_in)[i] = y
<1>4. PICK w \in Slots : Ring(dma_in, Len(dma_in), dsc_head, nb_head, w, dsc_tail, U)
  BY DEF StreamInv, RingShape
<1>5. \A s \in S : RingDist(dsc_head, s) < RingDist(dsc_head, dsc_tail)
  <2>1. RingDist(dsc_head, dsc_tail) = N - 1
    <3>1. dsc_head \in Int /\ dsc_tail \in Int /\ N \in Nat /\ N >= 1
      BY <1>2, Sizes
    <3>2. RingFree(dsc_head, dsc_tail, N) = N - 1 - RingDist(dsc_head, dsc_tail)
      BY <3>1, DistFree DEF RingFree, RingDist
    <3>3. RingDist(dsc_head, dsc_tail) \in Nat
      BY <1>2, RingDistType
    <3> QED BY <3>1, <3>2, <3>3
  <2>2. \A s \in S : /\ RingDist(dsc_head, s) \in 0 .. N - 1
                     /\ RingDist(dsc_head, s) = RingDist(dsc_head, dsc_tail) => s = dsc_tail
    BY <1>2, RingDistType
  <2> QED BY <2>1, <2>2, Sizes
<1>6. ASSUME NEW s \in S PROVE \E y \in Pipes : Own(s, y)
  <2>1. RingDist(dsc_head, s) \in Nat /\ RingDist(dsc_head, nb_head) \in Nat
        /\ RingDist(dsc_head, w) \in Nat
    BY <1>2, RingDistType
  <2>2. CASE RingDist(dsc_head, s) < RingDist(dsc_head, nb_head)
    BY <1>1, <2>2 DEF TokenRead
  <2>3. CASE RingDist(dsc_head, nb_head) <= RingDist(dsc_head, s)
             /\ RingDist(dsc_head, s) < RingDist(dsc_head, w)
    <3>1. s \in U
      BY <1>4, <2>3 DEF Ring
    <3>2. s \in InRing /\ RingOwner[s] \in Pipes
      BY <1>2, <3>1 DEF InRing, TokTyped
    <3> QED BY <1>1, <3>1, <3>2 DEF TokenPlaces, Tokens
  <2>4. CASE RingDist(dsc_head, w) <= RingDist(dsc_head, s)
    <3> HIDE DEF U
    <3>1. PICK i \in 1 .. Len(dma_in) : dma_in[i].needs_dsc /\ dma_in[i].slot = s
      BY <1>4, <1>5, <2>4 DEF Ring
    <3>2. i \in Descs(dma_in) /\ Owner(dma_in)[i] \in Pipes
      BY <1>2, <3>1 DEF Descs, TokTyped
    <3> QED BY <1>1, <3>1, <3>2 DEF TokenPlaces, Tokens
  <2> QED BY <2>1, <2>2, <2>3, <2>4
<1>7. ASSUME NEW s \in S, NEW t \in S, NEW y \in Pipes, Own(s, y), Own(t, y) PROVE s = t
  <2>1. CASE p[y] = "aware"
    <3>1. /\ RingDist(dsc_head, s) < RingDist(dsc_head, nb_head) /\ r[s] = y
          /\ RingDist(dsc_head, t) < RingDist(dsc_head, nb_head) /\ r[t] = y
      BY <1>7, <2>1
    <3> QED BY <1>1, <3>1 DEF TokenRead
  <2>2. CASE p[y] = "ring"
    <3>1. s \in InRing /\ RingOwner[s] = y /\ t \in InRing /\ RingOwner[t] = y
      BY <1>7, <2>2 DEF InRing
    <3> QED BY <1>1, <3>1 DEF TokenPlaces, Tokens
  <2>3. CASE p[y] = "dma_in"
    <3>1. PICK i \in Descs(dma_in) : dma_in[i].slot = s /\ Owner(dma_in)[i] = y
      BY <1>7, <2>3
    <3>2. PICK j \in Descs(dma_in) : dma_in[j].slot = t /\ Owner(dma_in)[j] = y
      BY <1>7, <2>3
    <3>3. i = j
      BY <1>1, <3>1, <3>2 DEF TokenPlaces, Tokens
    <3> QED BY <3>1, <3>2, <3>3
  <2> QED BY <1>7, <2>1, <2>2, <2>3
<1>8. \A s \in S, y \in Pipes : Own(s, y) => y # q
  BY <1>3
<1> HIDE DEF Own, S
<1> DEFINE f == [s \in S |-> CHOOSE y \in Pipes : Own(s, y)]
<1>9. \A s \in S : f[s] \in Pipes /\ Own(s, f[s])
  BY <1>6
<1>10. f \in [S -> Pipes]
  BY <1>9
<1>11. (\A s \in S : f[s] # q) /\ \A s, t \in S : f[s] = f[t] => s = t
  <2> HIDE DEF f
  <2> QED BY <1>7, <1>8, <1>9
<1>12. IsFiniteSet(S) /\ Cardinality(S) = N - 1
  <2>1. N \in Nat /\ N >= 1 /\ 0 \in Int /\ N - 1 \in Int
    BY Sizes
  <2>2. IsFiniteSet(Slots) /\ Cardinality(Slots) = N
    BY <2>1, FS_Interval DEF Slots
  <2> QED BY <1>2, <2>2, FS_RemoveElement DEF S
<1> HIDE DEF f
<1>13. Cardinality(S) <= NbPipes - 1
  BY <1>10, <1>11, <1>12, Pigeonhole
<1>14. NbPipes \in Nat /\ N \in Nat /\ NbPipes <= N - 1
  BY Sizes DEF Clearing
<1> QED BY <1>12, <1>13, <1>14

\* A place holds at most one token of a pipe.
LEMMA TokensCount ==
  ASSUME NEW I, NEW Q, NEW p, NEW c, NEW q \in Pipes, NEW C, Tokens(I, Q, p, c),
         C = {i \in I : Q[i] = q}
  PROVE  Cardinality(C) = IF p[q] = c THEN 1 ELSE 0
<1>1. CASE p[q] = c
  <2>1. PICK k \in I : Q[k] = q
    BY <1>1 DEF Tokens
  <2>2. C = {k}
    BY <2>1 DEF Tokens
  <2> QED BY <1>1, <2>2, FS_Singleton
<1>2. CASE p[q] # c
  <2>1. C = {}
    BY <1>2 DEF Tokens
  <2> QED BY <1>2, <2>1, FS_EmptySet
<1> QED BY <1>1, <1>2

LEMMA TokenImplies ==
  ASSUME StreamInv, TokenInv
  PROVE  SingleToken /\ NoLostWakeup
<1>1. PICK p \in [Pipes -> Places], r \in [Slots -> Pipes] :
        TokenPlaces(p) /\ TokenStatus(p) /\ TokenRead(p, r)
  BY DEF TokenInv
<1>2. /\ TokTyped /\ DOMAIN head_upd = 1 .. Len(head_upd) /\ DOMAIN in_queue = 1 .. Len(in_queue)
      /\ DOMAIN pkt_out = 1 .. Len(pkt_out) /\ DOMAIN dma_in = 1 .. Len(dma_in)
  <2>1. /\ head_upd \in Seq(Pipes) /\ in_queue \in Seq(Entries) /\ pkt_out \in Seq(Metas)
        /\ dma_in \in Seq(Metas) /\ TokTyped
    BY Queues DEF StreamInv
  <2>2. \A S : \A s \in Seq(S) : DOMAIN s = 1 .. Len(s)
    OBVIOUS
  <2> QED BY <2>1, <2>2
<1>3. ASSUME NEW q \in Pipes
      PROVE  /\ HeadUpds(q) = (IF p[q] = "head_upd" THEN 1 ELSE 0)
                                + (IF p[q] = "in_queue" THEN 1 ELSE 0)
             /\ Descriptors(q) = (IF p[q] = "pkt_out" THEN 1 ELSE 0)
                                   + (IF p[q] = "dma_in" THEN 1 ELSE 0)
                                   + (IF p[q] = "ring" THEN 1 ELSE 0)
  <2>1. Cardinality({i \in DOMAIN head_upd : head_upd[i] = q})
          = IF p[q] = "head_upd" THEN 1 ELSE 0
    BY <1>1, <1>2, TokensCount DEF TokenPlaces
  <2>2. Cardinality({i \in DOMAIN in_queue : in_queue[i].q = q /\ in_queue[i].size = 0})
          = IF p[q] = "in_queue" THEN 1 ELSE 0
    <3>1. {i \in DOMAIN in_queue : in_queue[i].q = q /\ in_queue[i].size = 0}
            = {i \in Requests(in_queue) : Owner(in_queue)[i] = q}
      BY <1>2 DEF Requests, TokTyped
    <3> QED BY <1>1, <3>1, TokensCount DEF TokenPlaces
  <2>3. Cardinality({i \in DOMAIN pkt_out : pkt_out[i].q = q /\ pkt_out[i].needs_dsc})
          = IF p[q] = "pkt_out" THEN 1 ELSE 0
    <3>1. {i \in DOMAIN pkt_out : pkt_out[i].q = q /\ pkt_out[i].needs_dsc}
            = {i \in Descs(pkt_out) : Owner(pkt_out)[i] = q}
      BY <1>2 DEF Descs, TokTyped
    <3> QED BY <1>1, <3>1, TokensCount DEF TokenPlaces
  <2>4. Cardinality({i \in DOMAIN dma_in : dma_in[i].q = q /\ dma_in[i].needs_dsc})
          = IF p[q] = "dma_in" THEN 1 ELSE 0
    <3>1. {i \in DOMAIN dma_in : dma_in[i].q = q /\ dma_in[i].needs_dsc}
            = {i \in Descs(dma_in) : Owner(dma_in)[i] = q}
      BY <1>2 DEF Descs, TokTyped
    <3> QED BY <1>1, <3>1, TokensCount DEF TokenPlaces
  <2>5. Cardinality({s \in Slots : rx_buf[s].signal = 1 /\ rx_buf[s].queue_id = q})
          = IF p[q] = "ring" THEN 1 ELSE 0
    <3>1. {s \in Slots : rx_buf[s].signal = 1 /\ rx_buf[s].queue_id = q}
            = {s \in InRing : RingOwner[s] = q}
      BY DEF InRing, Unread, RingOwner
    <3> QED BY <1>1, <3>1, TokensCount DEF TokenPlaces
  <2> QED BY <2>1, <2>2, <2>3, <2>4, <2>5 DEF HeadUpds, Descriptors
<1>4. ASSUME NEW q \in Pipes
      PROVE  /\ HeadUpds(q) + Descriptors(q) + (IF Aware(q) THEN 1 ELSE 0) <= 1
             /\ p[q] \in {"none", "head_upd", "in_queue"} => Descriptors(q) = 0 /\ ~Aware(q)
             /\ p[q] # "none" => Aware(q) \/ HeadUpds(q) + Descriptors(q) > 0
  <2>1. p[q] \in Places /\ (Aware(q) <=> p[q] = "aware")
    BY <1>1 DEF TokenPlaces
  <2>2. CASE p[q] = "none"
    BY <1>3, <2>1, <2>2
  <2>3. CASE p[q] \in {"head_upd", "in_queue"}
    BY <1>3, <2>1, <2>3
  <2>4. CASE p[q] \in {"pkt_out", "dma_in", "ring"}
    BY <1>3, <2>1, <2>4
  <2>5. CASE p[q] = "aware"
    BY <1>3, <2>1, <2>5
  <2> QED BY <2>1, <2>2, <2>3, <2>4, <2>5 DEF Places
<1>5. SingleToken
  BY <1>1, <1>4 DEF SingleToken, TokenStatus
<1>6. NoLostWakeup
  BY <1>1, <1>4 DEF NoLostWakeup, TokenStatus
<1> QED BY <1>5, <1>6

\* A program that polls with Recv and clears all it receives, on a ring with a
\* slot more than it has pipes: the descriptor queue manager never finds the
\* ring full, so what was proved with room for granted holds, and so does the
\* invariant about tokens.
THEOREM TokenInvariant ==
  ASSUME Clearing
  PROVE  Spec => [](StreamInv /\ TokenInv)
<1> DEFINE Inv == StreamInv /\ TokenInv
<1>1. Init => Inv
  BY InitStream, InitToken
<1>2. Inv /\ [Next]_vars => Inv'
  BY TokenRoom, NextStream, NextToken
<1> QED BY <1>1, <1>2, PTL DEF Spec

\* Such a program has at most one descriptor, request or piece of news per pipe
\* (the status bit of pkt_queue_manager, head updates, notifications).
THEOREM OneTokenPerPipe ==
  ASSUME Clearing
  PROVE  Spec => []SingleToken
BY TokenInvariant, TokenImplies, PTL

\* And no pipe of it goes silent: a notification, a request for one or a packet
\* that will bring one is always left.
THEOREM WakeupsKept ==
  ASSUME Clearing
  PROVE  Spec => []NoLostWakeup
BY TokenInvariant, TokenImplies, PTL

\* Its descriptors always find a slot in the notification ring, so the indices
\* of its pipes and of the ring stay in order, with nothing assumed of the ring.
THEOREM RingNeverFull ==
  ASSUME Clearing
  PROVE  Spec => [](Room /\ PipeOrder /\ NotifRingOrder)
BY TokenInvariant, TokenRoom, StreamImplies, PTL

=============================================================================
