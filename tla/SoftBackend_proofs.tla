------------------------- MODULE SoftBackend_proofs --------------------------
(***************************************************************************)
(* Proofs about the shared-memory queues and the backend that uses them:   *)
(* each queue is a bounded FIFO, for every capacity and every number of    *)
(* files, and each answer belongs to the request it is returned for, when  *)
(* no end comes or goes while the other is being created and none is       *)
(* created anew while the other stays (~Overlap, ~Restart: without them    *)
(* the index that an end guesses can be wrong).                            *)
(***************************************************************************)
EXTENDS SoftBackend, Arithmetic, FiniteSetTheorems, FunctionTheorems,
        SequenceTheorems, TLAPS

\* How the ends and the file of a queue stand to each other.
EndInv(k, e) ==
  /\ map[k][e] = NoFile <=> pc[k][e] \in {"closed", "map"}
  /\ pc[k][e] \in {"map", "memset", "sync"}
       => /\ pc[k][Other(e)] \in {"closed", "open", "pop"}
          /\ e \notin left[k]
  /\ pc[k][e] \in {"map", "memset"} => idx[k][e] = 0
  /\ pc[k][e] = "map" => created[k][e] = (file[k] = NoFile)
  /\ pc[k][e] = "memset" => created[k][e] /\ pc[k][Other(e)] = "closed"
  /\ pc[k][e] = "sync" => ~created[k][e] /\ Attached(k, Other(e))
  /\ pc[k][e] = "closed" => ~created[k][e]
  /\ pc[k][e] # "sync" => at[k][e] = 0
  /\ pc[k][e] = "sync" /\ (e = "prod" \/ at[k][e] = 0) => idx[k][e] = 0
  /\ e \in left[k] => pc[k][e] = "closed" /\ Attached(k, Other(e))
  /\ pc[k][e] \notin {"closed", "map"} /\ Other(e) \notin left[k]
       => map[k][e] = file[k]

FilesInv(k) ==
  /\ EndInv(k, "prod") /\ EndInv(k, "cons")
  /\ pc[k]["prod"] # "pop"
  /\ file[k] # NoFile
       => \E e \in Ends : created[k][e] /\ pc[k][e] \in {"memset", "open", "pop"}

\* The file the attached ends share, and the index of its oldest element.
Live(k) == Attached(k, "prod") \/ Attached(k, "cons")
Shared(k) ==
  mem[k][IF Attached(k, "prod") THEN map[k]["prod"] ELSE map[k]["cons"]]
Base(k) ==
  IF Attached(k, "cons") \/ "cons" \in left[k] THEN idx[k]["cons"] ELSE 0

\* The elements that are set are the n that follow index h.
Holds(buf, h, n) == \A s \in Elems : buf[s].signal # 0 <=> (s - h) % Capacity < n

Ring(k, n) ==
  /\ Holds(Shared(k), Base(k), n)
  /\ \A s \in Elems : Shared(k)[s].signal # 0 => Shared(k)[s].data \in Data
  /\ Attached(k, "prod") => idx[k]["prod"] = (Base(k) + n) % Capacity
  /\ ~Attached(k, "prod") /\ "prod" \notin left[k] => n = 0 /\ Base(k) = 0
  /\ pc[k]["cons"] = "sync" /\ at[k]["cons"] > 0
       => n = Capacity /\ idx[k]["cons"] = Capacity - at[k]["cons"]
  /\ pc[k]["cons"] = "pop"
       => n > 0 /\ held[k] = Shared(k)[idx[k]["cons"]].data

RingInv(k) == Live(k) => \E n \in 0 .. Capacity : Ring(k, n)

QInv(k) == FilesInv(k) /\ RingInv(k)

QueueInv == \A k \in Queues : FilesInv(k) /\ RingInv(k)

\* What is in flight between the application and the other process.
Sets1(m, r) == m.type \in DOMAIN Sets /\ Sets[m.type] = r
Writes(s) == \A i \in 1 .. Len(s) : s[i].type = "kWrite"

\* v is what the application last set r to: the last message under way that sets
\* it or, if there is none, what the other process has stored, g.
Seen(s, r, v, g) ==
  \/ \E i \in 1 .. Len(s) :
       /\ Sets1(s[i], r) /\ v = s[i].value
       /\ \A j \in i + 1 .. Len(s) : ~Sets1(s[j], r)
  \/ v = g /\ \A j \in 1 .. Len(s) : ~Sets1(s[j], r)

\* The answer to req.
Answers(m) ==
  /\ m.type = req.type
  /\ req.type \in DOMAIN Gets => m.value = view[Gets[req.type]]

Serving == app \in {"idle", "push", "wait", "return"}

Requested ==
  /\ srv # "reply" /\ Contents("from") = <<>>
  /\ Contents("to") # <<>>
  /\ \A i \in 1 .. Len(Contents("to")) :
       IF i = Len(Contents("to")) THEN Contents("to")[i] = req
       ELSE Contents("to")[i].type = "kWrite"
Served ==
  /\ srv = "reply" /\ out["to"] = req
  /\ Contents("from") = <<>> /\ Contents("to") = <<>>
Replied ==
  /\ srv # "reply" /\ Contents("to") = <<>>
  /\ Len(Contents("from")) = 1 /\ Answers(Contents("from")[1])

AnswerInv ==
  /\ app = "down" => pc["to"]["prod"] = "closed" /\ pc["from"]["cons"] = "closed"
  /\ app = "to" => pc["from"]["cons"] = "closed"
  /\ app = "from" => pc["to"]["prod"] = "open"
  /\ Serving => pc["to"]["prod"] = "open" /\ Attached("from", "cons")
  /\ app \in {"to", "from"} => Contents("to") = <<>>
  /\ app # "wait"
       => Writes(Contents("to")) /\ Contents("from") = <<>> /\ srv # "reply"
  /\ Serving
       => \A r \in {"reg", "rr"} : Seen(Contents("to"), r, view[r], regs[r])
  /\ app = "wait" => req.type # "kWrite" /\ (Requested \/ Served \/ Replied)
  /\ app = "return"
       => Contents("to") = <<>> /\ Answers(out["from"])

IInv == BackendTypeOK /\ QueueInv /\ AnswerInv

\* The messages in n elements of buf from index h on.
SeqOf(buf, h, n) == [i \in 1 .. n |-> buf[(h + i - 1) % Capacity].data]

Element == [signal : {0, 1}, data : Data \cup {NoData}]

-----------------------------------------------------------------------------
(* Rings.                                                                   *)

LEMMA CapacityType == Capacity \in Nat /\ Capacity >= 1 /\ NoData \notin Data
                      /\ Capacity \in Int /\ 0 \in Elems
BY QueueAssumption DEF Elems

\* The elements from index h on, one after the other.
LEMMA SlotOf ==
  ASSUME NEW h \in Int, NEW i \in 0 .. Capacity - 1
  PROVE  (h + i) % Capacity \in Elems /\ (((h + i) % Capacity) - h) % Capacity = i
<1> USE CapacityType DEF Elems
<1>1. h + i \in Int
  OBVIOUS
<1> QED BY <1>1, ModDiv, ModForth

\* There are n elements less than n ahead of h.
LEMMA CountRing ==
  ASSUME NEW h \in Int, NEW n \in 0 .. Capacity
  PROVE  Cardinality({s \in Elems : (s - h) % Capacity < n}) = n
<1> USE CapacityType
<1> DEFINE S == {s \in Elems : (s - h) % Capacity < n}
           f == [i \in 1 .. n |-> (h + (i - 1)) % Capacity]
<1>1. \A i \in 1 .. n : f[i] \in S /\ (f[i] - h) % Capacity = i - 1
  <2> TAKE i \in 1 .. n
  <2>1. i - 1 \in 0 .. Capacity - 1 /\ i - 1 < n
    OBVIOUS
  <2> QED BY <2>1, SlotOf
<1>2. ASSUME NEW s \in S PROVE \E i \in 1 .. n : f[i] = s
  <2> DEFINE d == (s - h) % Capacity
  <2>1. s \in 0 .. Capacity - 1 /\ s \in Int
    BY DEF Elems
  <2>2. d \in 0 .. Capacity - 1 /\ d < n
    BY <2>1, ModDistType
  <2>3. (h + d) % Capacity = s
    BY <2>1, DistBack
  <2> HIDE DEF d
  <2>4. d + 1 \in 1 .. n /\ (d + 1) - 1 = d
    BY <2>2
  <2>5. f[d + 1] = (h + ((d + 1) - 1)) % Capacity
    BY <2>4
  <2>6. f[d + 1] = s
    BY <2>3, <2>4, <2>5
  <2> QED BY <2>4, <2>6
<1> HIDE DEF S
<1>3. f \in [1 .. n -> S]
  BY <1>1
<1>4. \A a, b \in 1 .. n : f[a] = f[b] => a = b
  <2> HIDE DEF f
  <2> QED BY <1>1
<1> HIDE DEF f
<1>5. f \in Bijection(1 .. n, S)
  BY <1>2, <1>3, <1>4, Fun_IsBij
<1>6. ExistsBijection(1 .. n, S)
  BY <1>5 DEF ExistsBijection
<1>7. n \in Nat
  OBVIOUS
<1>8. Cardinality(S) = n
  BY <1>6, <1>7, FS_CountingElements
<1> QED BY <1>8 DEF S

\* buf with d stored in element t.
Filled(buf, t, d) == [buf EXCEPT ![t] = [signal |-> 1, data |-> d]]

\* Storing d behind the last of n elements appends it.
LEMMA BufPush ==
  ASSUME NEW buf \in [Elems -> Element], NEW h \in Int, NEW n \in 0 .. Capacity - 1,
         Holds(buf, h, n), NEW d, NEW two, two = Filled(buf, (h + n) % Capacity, d)
  PROVE  /\ Holds(two, h, n + 1)
         /\ SeqOf(two, h, n + 1) = Append(SeqOf(buf, h, n), d)
<1> USE CapacityType
<1> DEFINE t == (h + n) % Capacity
<1>1. t \in Elems /\ (t - h) % Capacity = n
  BY SlotOf
<1> HIDE DEF t
<1>2. two = [buf EXCEPT ![t] = [signal |-> 1, data |-> d]]
  BY DEF t, Filled
<1>3. \A s \in Elems : two[s] = IF s = t THEN [signal |-> 1, data |-> d] ELSE buf[s]
  BY <1>1, <1>2
<1>4. Holds(two, h, n + 1)
  <2> SUFFICES ASSUME NEW s \in Elems
               PROVE  two[s].signal # 0 <=> (s - h) % Capacity < n + 1
    BY DEF Holds
  <2>1. (s - h) % Capacity \in 0 .. Capacity - 1
    BY ModDistType DEF Elems
  <2>2. s # t => (s - h) % Capacity # n
    BY <1>1, DistEqual DEF Elems
  <2>3. buf[s].signal # 0 <=> (s - h) % Capacity < n
    BY DEF Holds
  <2>4. s = t => two[s].signal = 1 /\ (s - h) % Capacity = n
    BY <1>1, <1>3
  <2>5. s # t => two[s].signal = buf[s].signal
    BY <1>3
  <2> QED BY <2>1, <2>2, <2>3, <2>4, <2>5
<1>5. SeqOf(two, h, n + 1) = Append(SeqOf(buf, h, n), d)
  <2> DEFINE q == SeqOf(buf, h, n)
             r == SeqOf(two, h, n + 1)
  <2>1. q = [i \in 1 .. n |-> buf[(h + i - 1) % Capacity].data] /\ n \in Nat
    BY DEF SeqOf
  <2>2. Len(q) = n /\ DOMAIN q = 1 .. n
    BY <2>1
  <2>3. \A i \in 1 .. n : (h + i - 1) % Capacity \in Elems /\ (h + i - 1) % Capacity # t
    <3> TAKE i \in 1 .. n
    <3>1. i - 1 \in 0 .. Capacity - 1 /\ i - 1 # n /\ h + (i - 1) = h + i - 1
      OBVIOUS
    <3>2. (h + (i - 1)) % Capacity \in Elems
          /\ (((h + (i - 1)) % Capacity) - h) % Capacity = i - 1
      BY <3>1, SlotOf
    <3> QED BY <1>1, <3>1, <3>2
  <2>4. \A i \in 1 .. n : two[(h + i - 1) % Capacity] = buf[(h + i - 1) % Capacity]
    BY <1>3, <2>3
  <2>5. two[(h + (n + 1) - 1) % Capacity].data = d
    <3>1. h + (n + 1) - 1 = h + n
      OBVIOUS
    <3>2. (h + (n + 1) - 1) % Capacity = t
      BY <3>1 DEF t
    <3> QED BY <1>1, <1>3, <3>2
  <2>6. r = [i \in 1 .. n + 1 |-> two[(h + i - 1) % Capacity].data]
    BY DEF SeqOf
  <2> HIDE DEF q, r
  <2>7. \A i \in 1 .. n + 1 : r[i] = IF i <= n THEN q[i] ELSE d
    <3> TAKE i \in 1 .. n + 1
    <3>1. CASE i <= n
      <4>1. i \in 1 .. n
        BY <3>1
      <4>2. r[i] = two[(h + i - 1) % Capacity].data
        BY <2>6
      <4>3. q[i] = buf[(h + i - 1) % Capacity].data
        BY <2>1, <4>1
      <4> QED BY <2>4, <3>1, <4>1, <4>2, <4>3
    <3>2. CASE i = n + 1
      BY <2>5, <2>6, <3>2
    <3> QED BY <3>1, <3>2
  <2>8. Append(q, d) = [i \in 1 .. n + 1 |-> IF i <= n THEN q[i] ELSE d]
    BY <2>1, <2>2 DEF Append
  <2>9. r = Append(q, d)
    BY <2>6, <2>7, <2>8
  <2> QED BY <2>9 DEF q, r
<1> QED BY <1>4, <1>5

\* Clearing the first of n elements and going past it drops it.
LEMMA BufPop ==
  ASSUME NEW buf \in [Elems -> Element], NEW h \in Elems, NEW n \in 1 .. Capacity,
         Holds(buf, h, n), NEW two, two = [buf EXCEPT ![h] = Clear]
  PROVE  /\ Holds(two, Next1(h), n - 1)
         /\ SeqOf(two, Next1(h), n - 1) = Tail(SeqOf(buf, h, n))
         /\ SeqOf(buf, h, n) # <<>> /\ buf[h].data = Head(SeqOf(buf, h, n))
<1> USE CapacityType
<1>0. h \in 0 .. Capacity - 1 /\ h \in Int
  BY DEF Elems
<1> DEFINE g == Next1(h)
<1>1. \A s \in Elems : two[s] = IF s = h THEN Clear ELSE buf[s]
  OBVIOUS
<1>2. Holds(two, g, n - 1)
  <2> SUFFICES ASSUME NEW s \in Elems
               PROVE  two[s].signal # 0 <=> (s - g) % Capacity < n - 1
    BY DEF Holds
  <2>1. s \in 0 .. Capacity - 1
    BY DEF Elems
  <2>2. (s - h) % Capacity \in 0 .. Capacity - 1 /\ (h - h) % Capacity = 0
    BY <1>0, <2>1, ModDistType
  <2>3. s # h => (s - h) % Capacity # 0
    BY <1>0, <2>1, <2>2, DistEqual
  <2>4. buf[s].signal # 0 <=> (s - h) % Capacity < n
    BY DEF Holds
  <2>5. two[s].signal = IF s = h THEN 0 ELSE buf[s].signal
    BY <1>1 DEF Clear
  <2>6. CASE Capacity = 1
    <3>1. s = h /\ n = 1
      BY <1>0, <2>1, <2>6
    <3>2. g \in Int
      <4>1. h + 1 \in Int
        BY <1>0
      <4> QED BY <4>1, ModDiv DEF Next1
    <3>3. (s - g) % Capacity \in 0 .. Capacity - 1
      BY <2>1, <3>2, ModDistType
    <3> QED BY <2>5, <3>1, <3>3
  <2>7. CASE Capacity > 1
    <3>1. 1 \in 0 .. Capacity - 1
      BY <2>7
    <3>2. (s - ((h + 1) % Capacity)) % Capacity
            = IF (s - h) % Capacity >= 1 THEN ((s - h) % Capacity) - 1
                                         ELSE ((s - h) % Capacity) - 1 + Capacity
      <4>1. h \in Int /\ s \in Int
        BY <1>0, <2>1
      <4> QED BY <3>1, <4>1, DistShift
    <3> DEFINE x == (s - h) % Capacity
               y == (s - g) % Capacity
    <3>3. y = IF x >= 1 THEN x - 1 ELSE x - 1 + Capacity
      BY <3>2 DEF Next1
    <3>4. s = h => x = 0
      BY <2>2
    <3>5. x \in 0 .. Capacity - 1 /\ (s # h => x # 0)
          /\ (buf[s].signal # 0 <=> x < n)
      BY <2>2, <2>3, <2>4
    <3> HIDE DEF x, y
    <3>6. two[s].signal # 0 <=> y < n - 1
      BY <2>5, <3>3, <3>4, <3>5
    <3> QED BY <3>6 DEF y
  <2> QED BY <2>6, <2>7
<1>3. \A i \in 1 .. n - 1 : two[(g + i - 1) % Capacity] = buf[(h + (i + 1) - 1) % Capacity]
  <2> TAKE i \in 1 .. n - 1
  <2>1. i \in 0 .. Capacity - 1 /\ h + (i + 1) - 1 = h + i
    OBVIOUS
  <2>2. (h + i) % Capacity \in Elems /\ (((h + i) % Capacity) - h) % Capacity = i
    BY <1>0, <2>1, SlotOf
  <2>3. (g + i - 1) % Capacity = (h + i) % Capacity
    <3>1. h + 1 \in Int /\ i - 1 \in Int
      BY <1>0
    <3>2. (((h + 1) % Capacity) + (i - 1)) % Capacity = ((h + 1) + (i - 1)) % Capacity
      BY <3>1, ModAdd
    <3>3. (h + 1) + (i - 1) = h + i
      BY <1>0
    <3>4. g \in Int
      BY <3>1, ModDiv DEF Next1
    <3>5. g + i - 1 = ((h + 1) % Capacity) + (i - 1)
      BY <3>4 DEF Next1
    <3> QED BY <3>2, <3>3, <3>5
  <2>4. (h - h) % Capacity = 0
    BY <1>0, ModDistType
  <2>5. (h + i) % Capacity # h
    BY <2>2, <2>4
  <2>6. two[(h + i) % Capacity] = buf[(h + i) % Capacity]
    BY <1>1, <2>2, <2>5
  <2> QED BY <2>1, <2>3, <2>6
<1> DEFINE q == SeqOf(buf, h, n)
           r == SeqOf(two, g, n - 1)
<1>4. q = [i \in 1 .. n |-> buf[(h + i - 1) % Capacity].data] /\ n \in Nat
  BY DEF SeqOf
<1>5. r = [i \in 1 .. n - 1 |-> two[(g + i - 1) % Capacity].data]
  BY DEF SeqOf
<1> HIDE DEF q, r
<1>6. Len(q) = n /\ q # <<>>
  <2>1. DOMAIN q = 1 .. n /\ 1 \in 1 .. n
    BY <1>4
  <2>2. Len(q) = n
    BY <1>4, <2>1
  <2> QED BY <2>1, <2>2
<1>7. Tail(q) = [i \in 1 .. n - 1 |-> q[i + 1]]
  BY <1>6 DEF Tail
<1>8. \A i \in 1 .. n - 1 : r[i] = q[i + 1]
  <2> TAKE i \in 1 .. n - 1
  <2>1. i + 1 \in 1 .. n
    OBVIOUS
  <2>2. q[i + 1] = buf[(h + (i + 1) - 1) % Capacity].data
    BY <1>4, <2>1
  <2> QED BY <1>3, <1>5, <2>2
<1>9. r = Tail(q)
  BY <1>5, <1>7, <1>8
<1>10. Head(q) = buf[h].data
  <2>1. h + 1 - 1 = h /\ h % Capacity = h
    <3>1. h = 0 * Capacity + h
      BY <1>0
    <3>2. h % Capacity = h
      BY <1>0, <3>1, ModUnique
    <3> QED BY <1>0, <3>2
  <2>2. q[1] = buf[(h + 1 - 1) % Capacity].data
    BY <1>4
  <2> QED BY <2>1, <2>2
<1> QED BY <1>2, <1>6, <1>9, <1>10 DEF q, r

-----------------------------------------------------------------------------
(* What a queue holds.                                                      *)

LEMMA EndsAre == Ends = {"prod", "cons"} /\ Other("prod") = "cons" /\ Other("cons") = "prod"
                 /\ \A e \in Ends : Other(e) \in Ends /\ Other(e) # e /\ Other(Other(e)) = e
BY DEF Ends, Other

\* What the type invariant says of one queue.
LEMMA TypesAt ==
  ASSUME QueueTypeOK, NEW k \in Queues
  PROVE  /\ file[k] \in Files \cup {NoFile}
         /\ mem[k] \in [Files -> [Elems -> Element]]
         /\ \A e \in Ends :
              /\ pc[k][e] \in {"closed", "map", "memset", "sync", "open", "pop"}
              /\ map[k][e] \in Files \cup {NoFile} /\ created[k][e] \in BOOLEAN
              /\ idx[k][e] \in Elems /\ at[k][e] \in Elems
         /\ held[k] \in Data \cup {NoData} /\ out[k] \in Data \cup {NoData}
         /\ left[k] \subseteq Ends
BY DEF QueueTypeOK, Element

\* The ends attached to a queue have the same file mapped.
LEMMA OneFile ==
  ASSUME QueueTypeOK, NEW k \in Queues, FilesInv(k), Live(k)
  PROVE  /\ \A e \in Ends : Attached(k, e) => Buf(k, e) = Shared(k) /\ map[k][e] \in Files
         /\ Shared(k) \in [Elems -> Element] /\ Base(k) \in Elems /\ Base(k) \in Int
<1>1. \A e \in Ends : Attached(k, e) => map[k][e] \in Files
  BY TypesAt, EndsAre DEF FilesInv, EndInv, Attached
<1>2. Attached(k, "prod") /\ Attached(k, "cons") => map[k]["prod"] = map[k]["cons"]
  BY EndsAre DEF FilesInv, EndInv, Attached
<1>3. \A e \in Ends : Attached(k, e) => Buf(k, e) = Shared(k)
  BY <1>2, EndsAre DEF Buf, Shared
<1>4. Shared(k) \in [Elems -> Element]
  BY <1>1, TypesAt, EndsAre DEF Shared, Live
<1>5. Base(k) \in Elems
  BY TypesAt, EndsAre, CapacityType DEF Base
<1>6. Base(k) \in Int
  BY <1>5, CapacityType DEF Elems
<1> QED BY <1>1, <1>3, <1>4, <1>5, <1>6

\* A queue nobody is attached to holds nothing.
LEMMA NotLive ==
  ASSUME NEW k \in Queues, ~Live(k)
  PROVE  Contents(k) = <<>>
BY EndsAre DEF Contents, Live

\* What is popped is what the ring says.
LEMMA ContentsRing ==
  ASSUME QueueTypeOK, NEW k \in Queues, FilesInv(k), Live(k), NEW n \in 0 .. Capacity,
         Ring(k, n)
  PROVE  Contents(k) = SeqOf(Shared(k), Base(k), n)
<1> DEFINE e == CHOOSE x \in Ends : Attached(k, x)
           h == Base(k)
<1>1. \E x \in Ends : Attached(k, x)
  BY EndsAre DEF Live
<1>2. e \in Ends /\ Attached(k, e)
  BY <1>1
<1>3. Buf(k, e) = Shared(k) /\ h \in Int
  BY <1>2, OneFile
<1>4. Contents(k) = [i \in 1 .. Cardinality(Set(k, e)) |->
                       Buf(k, e)[(h + i - 1) % Capacity].data]
  BY <1>1 DEF Contents, Base
<1> HIDE DEF e, h
<1>5. Set(k, e) = {s \in Elems : Shared(k)[s].signal # 0}
  BY <1>3 DEF Set
<1>6. \A s \in Elems : Shared(k)[s].signal # 0 <=> (s - h) % Capacity < n
  BY DEF Ring, Holds, h
<1>7. Set(k, e) = {s \in Elems : (s - h) % Capacity < n}
  BY <1>5, <1>6
<1>8. Cardinality(Set(k, e)) = n
  BY <1>3, <1>7, CountRing
<1> QED BY <1>3, <1>4, <1>8 DEF SeqOf, h

\* The same at the end of a step.
LEMMA ContentsRingNext ==
  (\A k \in Queues : \A n \in 0 .. Capacity :
     QueueTypeOK /\ FilesInv(k) /\ Live(k) /\ Ring(k, n)
       => Contents(k) = SeqOf(Shared(k), Base(k), n))'
<1>1. \A k \in Queues : \A n \in 0 .. Capacity :
        QueueTypeOK /\ FilesInv(k) /\ Live(k) /\ Ring(k, n)
          => Contents(k) = SeqOf(Shared(k), Base(k), n)
  BY ContentsRing
<1> QED BY <1>1, PTL

LEMMA NotLiveNext == (\A k \in Queues : ~Live(k) => Contents(k) = <<>>)'
<1>1. \A k \in Queues : ~Live(k) => Contents(k) = <<>>
  BY NotLive
<1> QED BY <1>1, PTL

\* Its messages are data.
LEMMA ContentsType ==
  ASSUME QueueTypeOK, NEW k \in Queues, QInv(k)
  PROVE  Contents(k) \in Seq(Data \cup {NoData})
<1>1. CASE ~Live(k)
  BY <1>1, NotLive, EmptySeq
<1>2. CASE Live(k)
  <2>1. PICK n \in 0 .. Capacity : Ring(k, n)
    BY <1>2 DEF QInv, RingInv
  <2>2. Shared(k) \in [Elems -> Element] /\ Base(k) \in Int
    BY <1>2, OneFile DEF QInv
  <2>3. \A i \in 1 .. n :
          Shared(k)[(Base(k) + i - 1) % Capacity].data \in Data \cup {NoData}
    <3> TAKE i \in 1 .. n
    <3>1. Base(k) + i - 1 \in Int
      BY <2>2
    <3>2. (Base(k) + i - 1) % Capacity \in Elems
      BY <3>1, CapacityType, ModDiv DEF Elems
    <3> QED BY <2>2, <3>2 DEF Element
  <2>4. n \in Nat
    BY CapacityType
  <2>5. Contents(k) = [i \in 1 .. n |-> Shared(k)[(Base(k) + i - 1) % Capacity].data]
    BY <1>2, <2>1, ContentsRing DEF QInv, SeqOf
  <2>6. Contents(k) \in [1 .. n -> Data \cup {NoData}]
    BY <2>3, <2>5
  <2> QED BY <2>4, <2>6
<1> QED BY <1>1, <1>2

-----------------------------------------------------------------------------
(* Steps.                                                                   *)

\* Nothing of queue k changes.
Same(k) ==
  /\ file'[k] = file[k] /\ mem'[k] = mem[k] /\ pc'[k] = pc[k] /\ map'[k] = map[k]
  /\ created'[k] = created[k] /\ idx'[k] = idx[k] /\ at'[k] = at[k]
  /\ held'[k] = held[k] /\ out'[k] = out[k] /\ left'[k] = left[k]

\* End x of queue k stays where it is.
EndSame(k, x) ==
  /\ pc'[k][x] = pc[k][x] /\ map'[k][x] = map[k][x] /\ created'[k][x] = created[k][x]
  /\ idx'[k][x] = idx[k][x] /\ at'[k][x] = at[k][x]

\* What a step on queue k leaves alone and what it keeps.
OnQueue(k) == QueueTypeOK' /\ \A j \in Queues \ {k} : Same(j)

\* The queue holds what it held.
Holding(k) == Contents(k)' = Contents(k) /\ out'[k] = out[k]

LEMMA KeepsRing ==
  ASSUME QueueTypeOK, QueueTypeOK', NEW k \in Queues, FilesInv(k), FilesInv(k)',
         Live(k), Live(k)', NEW n \in 0 .. Capacity, Ring(k, n), Ring(k, n)',
         Shared(k)' = Shared(k), Base(k)' = Base(k)
  PROVE  Contents(k)' = Contents(k)
BY ContentsRing, ContentsRingNext

LEMMA SameKeeps ==
  ASSUME QueueTypeOK, QueueTypeOK', NEW k \in Queues, QInv(k), Same(k)
  PROVE  QInv(k)' /\ Holding(k) /\ \A e \in Ends : EndSame(k, e)
<1>1. \A e \in Ends : EndInv(k, e)' = EndInv(k, e) /\ EndSame(k, e)
                      /\ Attached(k, e)' = Attached(k, e)
  BY EndsAre DEF EndInv, Same, EndSame, Attached
<1>2. FilesInv(k)'
  BY <1>1, EndsAre DEF FilesInv, QInv, Same
<1>3. Live(k)' = Live(k) /\ Shared(k)' = Shared(k) /\ Base(k)' = Base(k)
  BY <1>1, EndsAre DEF Live, Shared, Base, Same
<1>4. CASE ~Live(k)
  <2>1. ~Live(k)' /\ RingInv(k)'
    BY <1>3, <1>4 DEF RingInv
  <2>2. Contents(k)' = Contents(k)
    BY <1>4, <2>1, NotLive, NotLiveNext
  <2> QED BY <1>1, <1>2, <2>1, <2>2 DEF Holding, QInv, Same
<1>5. CASE Live(k)
  <2>1. PICK n \in 0 .. Capacity : Ring(k, n)
    BY <1>5 DEF QInv, RingInv
  <2>2. Ring(k, n)'
    BY <1>1, <1>3, <2>1, EndsAre DEF Ring, Holds, Same
  <2>3. Contents(k)' = Contents(k)
    BY <1>2, <1>3, <1>5, <2>1, <2>2, KeepsRing DEF QInv
  <2> QED BY <1>1, <1>2, <2>2, <2>3 DEF QInv, RingInv, Holding, Same
<1> QED BY <1>1, <1>4, <1>5

\* An end that starts to be created.
LEMMA ScanFacts ==
  ASSUME QueueTypeOK, ~Overlap, ~Restart, NEW k \in Queues, NEW e \in Ends, Scan(k, e)
  PROVE  /\ OnQueue(k) /\ EndSame(k, Other(e))
         /\ file'[k] = file[k] /\ mem'[k] = mem[k] /\ held'[k] = held[k]
         /\ out'[k] = out[k] /\ left'[k] = left[k]
         /\ pc[k][e] = "closed" /\ pc[k][Other(e)] \in {"closed", "open", "pop"}
         /\ e \notin left[k]
         /\ pc'[k][e] = "map" /\ map'[k][e] = map[k][e]
         /\ created'[k][e] = (file[k] = NoFile) /\ idx'[k][e] = 0
         /\ at'[k][e] = at[k][e]
<1>1. QueueTypeOK'
  BY CapacityType DEF QueueTypeOK, Scan, Goto
<1> QED BY <1>1, EndsAre DEF QueueTypeOK, Scan, Goto, MayCreate, Quiet, OnQueue, EndSame,
                         Same

LEMMA ScanKeeps ==
  ASSUME QueueTypeOK, ~Overlap, ~Restart, NEW k \in Queues, NEW e \in Ends, Scan(k, e),
         QInv(k)
  PROVE  /\ OnQueue(k) /\ QInv(k)' /\ Holding(k) /\ EndSame(k, Other(e))
         /\ ~Attached(k, e) /\ ~Attached(k, e)'
<1> USE ScanFacts
<1>1. ~Attached(k, e) /\ ~Attached(k, e)' /\ Attached(k, Other(e))' = Attached(k, Other(e))
  BY DEF Attached, EndSame
<1>2. FilesInv(k)'
  BY <1>1, EndsAre DEF FilesInv, EndInv, QInv, EndSame, Attached
<1>3. Live(k)' = Live(k)
  BY <1>1, EndsAre DEF Live
<1>4. CASE ~Live(k)
  BY <1>1, <1>2, <1>3, <1>4, NotLive, NotLiveNext DEF RingInv, Holding, QInv
<1>5. CASE Live(k)
  <2>1. PICK n \in 0 .. Capacity : Ring(k, n)
    BY <1>5 DEF QInv, RingInv
  <2>2. Shared(k)' = Shared(k) /\ Base(k)' = Base(k)
    BY <1>1, EndsAre DEF Shared, Base, EndSame
  <2>3. Ring(k, n)'
    BY <1>1, <2>1, <2>2, EndsAre DEF Ring, Holds, EndSame, Attached
  <2>4. Contents(k)' = Contents(k)
    BY <1>2, <1>3, <1>5, <2>1, <2>2, <2>3, KeepsRing DEF QInv, OnQueue
  <2> QED BY <1>1, <1>2, <2>3, <2>4 DEF QInv, RingInv, Holding
<1> QED BY <1>1, <1>4, <1>5

\* The file it then maps: the one of that name or a new one.
LEMMA MapFileFacts ==
  ASSUME QueueTypeOK, NEW k \in Queues, NEW e \in Ends, MapFile(k, e), QInv(k)
  PROVE  /\ OnQueue(k) /\ EndSame(k, Other(e))
         /\ held'[k] = held[k] /\ out'[k] = out[k] /\ left'[k] = left[k]
         /\ pc[k][e] = "map" /\ pc'[k][e] = IF created[k][e] THEN "memset" ELSE "sync"
         /\ file'[k] # NoFile /\ map'[k][e] = file'[k]
         /\ file[k] # NoFile => file'[k] = file[k] /\ mem'[k] = mem[k]
         /\ created'[k][e] = created[k][e] /\ idx'[k][e] = idx[k][e]
         /\ at'[k][e] = at[k][e]
<1> DEFINE f == IF file[k] = NoFile THEN FreshFile(k) ELSE file[k]
<1>1. f \in Files /\ f # NoFile
  <2>1. CASE file[k] # NoFile
    BY <2>1, TypesAt, QueueAssumption DEF NoFile
  <2>2. CASE file[k] = NoFile
    <3>1. PICK g \in Files : TRUE
      BY QueueAssumption
    <3>2. g # NoFile
      BY QueueAssumption DEF NoFile
    <3>3. pc[k][e] = "map" /\ map[k][e] = NoFile /\ e \notin left[k]
      BY EndsAre DEF MapFile, QInv, FilesInv, EndInv
    <3>4. map[k][Other(e)] = NoFile
      <4>1. EndInv(k, Other(e))
        BY EndsAre DEF QInv, FilesInv
      <4> QED BY <2>2, <3>3, <4>1, EndsAre DEF EndInv
    <3>5. \E h \in Files : h # file[k] /\ \A x \in Ends : map[k][x] # h
      BY <2>2, <3>1, <3>2, <3>3, <3>4, EndsAre
    <3>6. FreshFile(k) \in Files
      BY <3>5 DEF FreshFile
    <3> QED BY <2>2, <3>6, QueueAssumption DEF NoFile
  <2> QED BY <2>1, <2>2
<1>2. /\ file' = [file EXCEPT ![k] = f]
      /\ map' = [map EXCEPT ![k][e] = f]
      /\ mem' = IF file[k] = NoFile THEN [mem EXCEPT ![k][f] = [s \in Elems |-> Clear]]
                ELSE mem
      /\ pc[k][e] = "map"
      /\ pc' = [pc EXCEPT ![k][e] = IF created[k][e] THEN "memset" ELSE "sync"]
      /\ UNCHANGED <<created, idx, at, held, out, left>>
  BY DEF MapFile, Goto
<1>5. file[k] # NoFile => f = file[k]
  OBVIOUS
<1> HIDE DEF f
<1>3. Clear \in Element
  BY DEF Clear, Element
<1>4. QueueTypeOK'
  <2>1. mem' \in [Queues -> [Files -> [Elems -> Element]]]
    <3>1. [s \in Elems |-> Clear] \in [Elems -> Element]
      BY <1>3
    <3>2. mem \in [Queues -> [Files -> [Elems -> Element]]]
      BY DEF QueueTypeOK, Element
    <3> QED BY <1>1, <1>2, <3>1, <3>2
  <2>2. file' \in [Queues -> Files \cup {NoFile}]
    BY <1>1, <1>2 DEF QueueTypeOK
  <2>3. map' \in [Queues -> [Ends -> Files \cup {NoFile}]]
    BY <1>1, <1>2 DEF QueueTypeOK
  <2> QED BY <1>2, <2>1, <2>2, <2>3 DEF QueueTypeOK, Element
<1>6. /\ file'[k] = f /\ map'[k][e] = f
      /\ pc'[k][e] = IF created[k][e] THEN "memset" ELSE "sync"
  BY <1>2 DEF QueueTypeOK
<1> QED BY <1>1, <1>2, <1>4, <1>5, <1>6, EndsAre DEF QueueTypeOK, OnQueue, EndSame, Same

LEMMA MapFileKeeps ==
  ASSUME QueueTypeOK, NEW k \in Queues, NEW e \in Ends, MapFile(k, e), QInv(k)
  PROVE  /\ OnQueue(k) /\ QInv(k)' /\ Holding(k) /\ EndSame(k, Other(e))
         /\ ~Attached(k, e) /\ ~Attached(k, e)'
<1> USE MapFileFacts
<1>1. ~Attached(k, e) /\ ~Attached(k, e)' /\ Attached(k, Other(e))' = Attached(k, Other(e))
  BY DEF Attached, EndSame
<1>0. EndInv(k, e) /\ EndInv(k, Other(e))
  BY EndsAre DEF QInv, FilesInv
<1>2. created[k][e] => pc[k][Other(e)] = "closed"
  BY <1>0, EndsAre, ZenonT(40) DEF EndInv, QInv, FilesInv
<1>3. ~created[k][e] => Attached(k, Other(e)) /\ file[k] # NoFile
  <2> SUFFICES ASSUME ~created[k][e] PROVE Attached(k, Other(e)) /\ file[k] # NoFile
    OBVIOUS
  <2>1. file[k] # NoFile
    BY <1>0 DEF EndInv
  <2>2. \E x \in Ends : created[k][x] /\ pc[k][x] \in {"memset", "open", "pop"}
    BY <2>1 DEF QInv, FilesInv
  <2>3. pc[k][Other(e)] \in {"memset", "open", "pop"}
    BY <2>2, EndsAre
  <2> QED BY <1>0, <2>1, <2>3, EndsAre DEF EndInv, Attached
<1>4. EndInv(k, e)' /\ EndInv(k, Other(e))'
  <2>1. EndInv(k, e)'
    BY <1>0, <1>1, <1>2, <1>3, EndsAre DEF EndInv, EndSame
  <2>2. EndInv(k, Other(e))'
    BY <1>0, <1>1, <1>2, <1>3, EndsAre DEF EndInv, EndSame
  <2> QED BY <2>1, <2>2
<1>5. FilesInv(k)'
  <2>1. pc'[k]["prod"] # "pop"
    BY EndsAre DEF EndSame, QInv, FilesInv
  <2>2. \E x \in Ends : created'[k][x] /\ pc'[k][x] \in {"memset", "open", "pop"}
    <3>1. CASE created[k][e]
      BY <3>1
    <3>2. CASE ~created[k][e]
      <4>1. PICK x \in Ends : created[k][x] /\ pc[k][x] \in {"memset", "open", "pop"}
        BY <1>3, <3>2 DEF QInv, FilesInv
      <4>2. x = Other(e)
        BY <4>1, EndsAre
      <4> QED BY <4>1, <4>2, EndsAre DEF EndSame
    <3> QED BY <3>1, <3>2
  <2> QED BY <1>4, <2>1, <2>2, EndsAre DEF FilesInv
<1>6. Live(k)' = Live(k)
  BY <1>1, EndsAre DEF Live
<1>7. CASE ~Live(k)
  <2>1. ~Live(k)' /\ RingInv(k)'
    BY <1>6, <1>7 DEF RingInv
  <2>2. Contents(k)' = Contents(k)
    BY <1>7, <2>1, NotLive, NotLiveNext
  <2> QED BY <1>1, <1>5, <2>1, <2>2 DEF Holding, QInv
<1>8. CASE Live(k)
  <2>1. PICK n \in 0 .. Capacity : Ring(k, n)
    BY <1>8 DEF QInv, RingInv
  <2>0. ~created[k][e] /\ mem'[k] = mem[k]
    BY <1>1, <1>2, <1>3, <1>8, EndsAre DEF Live, Attached
  <2>2. Shared(k)' = Shared(k) /\ Base(k)' = Base(k)
    BY <1>1, <1>8, <2>0, EndsAre DEF Live, Shared, Base, EndSame
  <2>5. at[k][e] = 0
    BY <1>0 DEF EndInv
  <2>3. Ring(k, n)'
    BY <1>1, <2>1, <2>2, <2>5, EndsAre DEF Ring, Holds, EndSame, Attached
  <2>4. Contents(k)' = Contents(k)
    BY <1>5, <1>6, <1>8, <2>1, <2>2, <2>3, KeepsRing DEF QInv, OnQueue
  <2> QED BY <1>1, <1>5, <2>3, <2>4 DEF QInv, RingInv, Holding
<1> QED BY <1>1, <1>7, <1>8

\* An end that is gone, having failed or closed.
LEMMA GoneFacts ==
  ASSUME QueueTypeOK, NEW k \in Queues, NEW e \in Ends, Gone(k, e),
         file' \in [Queues -> Files \cup {NoFile}],
         \A j \in Queues \ {k} : file'[j] = file[j],
         UNCHANGED <<mem, idx, at, held, out>>
  PROVE  /\ OnQueue(k) /\ EndSame(k, Other(e))
         /\ mem'[k] = mem[k] /\ held'[k] = held[k] /\ out'[k] = out[k]
         /\ pc'[k][e] = "closed" /\ map'[k][e] = NoFile /\ ~created'[k][e]
         /\ idx'[k][e] = idx[k][e] /\ at'[k][e] = at[k][e]
         /\ left'[k] = IF pc[k][Other(e)] # "closed" THEN left[k] \cup {e} ELSE {}
<1>1. QueueTypeOK'
  <2>1. pc' = [pc EXCEPT ![k][e] = "closed"] /\ map' = [map EXCEPT ![k][e] = NoFile]
        /\ created' = [created EXCEPT ![k][e] = FALSE]
    BY DEF Gone, Goto
  <2>2. left' \in [Queues -> SUBSET Ends]
    <3>1. (IF pc[k][Other(e)] # "closed" THEN left[k] \cup {e} ELSE {}) \in SUBSET Ends
      BY TypesAt
    <3> QED BY <3>1 DEF Gone, QueueTypeOK
  <2> QED BY <2>1, <2>2 DEF QueueTypeOK
<1>2. /\ pc' = [pc EXCEPT ![k][e] = "closed"] /\ map' = [map EXCEPT ![k][e] = NoFile]
      /\ created' = [created EXCEPT ![k][e] = FALSE]
      /\ left' = [left EXCEPT ![k] =
                    IF pc[k][Other(e)] # "closed" THEN left[k] \cup {e} ELSE {}]
  BY DEF Gone, Goto, QueueTypeOK
<1>3. OnQueue(k)
  BY <1>1, <1>2 DEF QueueTypeOK, OnQueue, Same
<1>4. EndSame(k, Other(e))
  BY <1>2, EndsAre DEF QueueTypeOK, EndSame
<1>5. /\ pc'[k][e] = "closed" /\ map'[k][e] = NoFile /\ ~created'[k][e]
      /\ left'[k] = IF pc[k][Other(e)] # "closed" THEN left[k] \cup {e} ELSE {}
  BY <1>2 DEF QueueTypeOK
<1> QED BY <1>3, <1>4, <1>5

LEMMA MapFailsKeeps ==
  ASSUME QueueTypeOK, NEW k \in Queues, NEW e \in Ends, MapFails(k, e), QInv(k)
  PROVE  /\ OnQueue(k) /\ QInv(k)' /\ Holding(k) /\ EndSame(k, Other(e))
         /\ ~Attached(k, e) /\ ~Attached(k, e)'
<1>0. /\ OnQueue(k) /\ EndSame(k, Other(e))
      /\ mem'[k] = mem[k] /\ held'[k] = held[k] /\ out'[k] = out[k]
      /\ pc'[k][e] = "closed" /\ map'[k][e] = NoFile /\ ~created'[k][e]
      /\ idx'[k][e] = idx[k][e] /\ at'[k][e] = at[k][e]
      /\ left'[k] = IF pc[k][Other(e)] # "closed" THEN left[k] \cup {e} ELSE {}
      /\ pc[k][e] = "map" /\ file'[k] = NoFile
  <2>1. Gone(k, e) /\ UNCHANGED <<mem, idx, at, held, out>> /\ pc[k][e] = "map"
        /\ file' = [file EXCEPT ![k] = NoFile]
    BY DEF MapFails
  <2>2. file' \in [Queues -> Files \cup {NoFile}] /\ file'[k] = NoFile
        /\ \A j \in Queues \ {k} : file'[j] = file[j]
    BY <2>1 DEF QueueTypeOK
  <2> QED BY <2>1, <2>2, GoneFacts
<1>1. ~Attached(k, e) /\ ~Attached(k, e)' /\ Attached(k, Other(e))' = Attached(k, Other(e))
  BY <1>0 DEF Attached, EndSame
<1>2. EndInv(k, e) /\ EndInv(k, Other(e))
  BY EndsAre DEF QInv, FilesInv
<1>3. FilesInv(k)'
  <2>1. EndInv(k, e)'
    BY <1>0, <1>1, <1>2, EndsAre DEF EndInv, EndSame, Attached
  <2>2. EndInv(k, Other(e))'
    BY <1>0, <1>1, <1>2, EndsAre DEF EndInv, EndSame, Attached
  <2>3. pc'[k]["prod"] # "pop"
    BY <1>0, EndsAre DEF EndSame, QInv, FilesInv
  <2> QED BY <1>0, <2>1, <2>2, <2>3, EndsAre DEF FilesInv
<1>6. Live(k)' = Live(k)
  BY <1>1, EndsAre DEF Live
<1>7. CASE ~Live(k)
  <2>1. ~Live(k)' /\ RingInv(k)'
    BY <1>6, <1>7 DEF RingInv
  <2>2. Contents(k)' = Contents(k)
    BY <1>7, <2>1, NotLive, NotLiveNext
  <2> QED BY <1>0, <1>1, <1>3, <2>1, <2>2 DEF Holding, QInv
<1>8. CASE Live(k)
  <2>1. PICK n \in 0 .. Capacity : Ring(k, n)
    BY <1>8 DEF QInv, RingInv
  <2>5. left'[k] = left[k] \cup {e} /\ Attached(k, Other(e)) /\ e \notin left[k]
        /\ idx[k][e] = 0 /\ idx'[k][e] = 0
    BY <1>0, <1>1, <1>2, <1>8, EndsAre DEF EndInv, Live, Attached
  <2>2. Shared(k)' = Shared(k) /\ Base(k)' = Base(k)
    <3>1. Shared(k)' = Shared(k)
      BY <1>0, <1>1, <1>8, EndsAre DEF Live, Shared, EndSame
    <3>2. CASE e = "cons"
      <4>1. Base(k) = 0
        BY <1>1, <2>5, <3>2 DEF Base
      <4>2. Base(k)' = 0
        BY <1>1, <2>5, <3>2 DEF Base
      <4> QED BY <3>1, <4>1, <4>2
    <3>3. CASE e = "prod"
      <4>1. idx'[k]["cons"] = idx[k]["cons"]
        BY <1>0, <3>3, EndsAre DEF EndSame
      <4>2. ("cons" \in left'[k]) = ("cons" \in left[k])
        BY <2>5, <3>3
      <4>3. Attached(k, "cons")' = Attached(k, "cons")
        BY <1>1, <3>3, EndsAre
      <4> QED BY <3>1, <4>1, <4>2, <4>3 DEF Base
    <3> QED BY <3>1, <3>2, <3>3, EndsAre
  <2>3. Ring(k, n)'
    BY <1>0, <1>1, <2>1, <2>2, <2>5, EndsAre DEF Ring, Holds, EndSame, Attached
  <2>4. Contents(k)' = Contents(k)
    BY <1>0, <1>3, <1>6, <1>8, <2>1, <2>2, <2>3, KeepsRing DEF QInv, OnQueue
  <2> QED BY <1>0, <1>1, <1>3, <2>3, <2>4 DEF QInv, RingInv, Holding
<1> QED BY <1>0, <1>1, <1>7, <1>8

\* The end is gone.  What the queue holds goes with the last end.
LEMMA CloseKeeps ==
  ASSUME QueueTypeOK, ~Overlap, NEW k \in Queues, NEW e \in Ends, Close(k, e), QInv(k)
  PROVE  /\ OnQueue(k) /\ QInv(k)' /\ EndSame(k, Other(e)) /\ out'[k] = out[k]
         /\ pc[k][e] = "open" /\ pc'[k][e] = "closed"
         /\ Contents(k)' = IF Attached(k, Other(e)) THEN Contents(k) ELSE <<>>
<1>0. /\ OnQueue(k) /\ EndSame(k, Other(e))
      /\ mem'[k] = mem[k] /\ held'[k] = held[k] /\ out'[k] = out[k]
      /\ pc'[k][e] = "closed" /\ map'[k][e] = NoFile /\ ~created'[k][e]
      /\ idx'[k][e] = idx[k][e] /\ at'[k][e] = at[k][e]
      /\ left'[k] = IF pc[k][Other(e)] # "closed" THEN left[k] \cup {e} ELSE {}
      /\ pc[k][e] = "open" /\ pc[k][Other(e)] \in {"closed", "open", "pop"}
      /\ file'[k] = IF created[k][e] THEN NoFile ELSE file[k]
  <2>1. Gone(k, e) /\ UNCHANGED <<mem, idx, at, held, out>> /\ pc[k][e] = "open"
        /\ pc[k][Other(e)] \in {"closed", "open", "pop"}
        /\ file' = [file EXCEPT ![k] = IF created[k][e] THEN NoFile ELSE @]
    BY DEF Close, Quiet
  <2>2. file' \in [Queues -> Files \cup {NoFile}]
        /\ file'[k] = (IF created[k][e] THEN NoFile ELSE file[k])
        /\ \A j \in Queues \ {k} : file'[j] = file[j]
    BY <2>1 DEF QueueTypeOK
  <2> QED BY <2>1, <2>2, GoneFacts
<1>1. Attached(k, e) /\ ~Attached(k, e)' /\ Attached(k, Other(e))' = Attached(k, Other(e))
  BY <1>0 DEF Attached, EndSame
<1>2. EndInv(k, e) /\ EndInv(k, Other(e))
  BY EndsAre DEF QInv, FilesInv
<1>4. Attached(k, Other(e)) <=> pc[k][Other(e)] # "closed"
  BY <1>0 DEF Attached
<1>3. FilesInv(k)'
  <2>1. EndInv(k, e)'
    BY <1>0, <1>1, <1>2, <1>4, EndsAre DEF EndInv, EndSame
  <2>2. EndInv(k, Other(e))'
    BY <1>0, <1>1, <1>2, <1>4, EndsAre DEF EndInv, EndSame
  <2>3. pc'[k]["prod"] # "pop"
    BY <1>0, EndsAre DEF EndSame, QInv, FilesInv
  <2>4. file'[k] # NoFile
          => \E x \in Ends : created'[k][x] /\ pc'[k][x] \in {"memset", "open", "pop"}
    <3> SUFFICES ASSUME file'[k] # NoFile
                 PROVE  \E x \in Ends : created'[k][x]
                                        /\ pc'[k][x] \in {"memset", "open", "pop"}
      OBVIOUS
    <3>1. ~created[k][e] /\ file[k] # NoFile
      BY <1>0
    <3>2. PICK x \in Ends : created[k][x] /\ pc[k][x] \in {"memset", "open", "pop"}
      BY <3>1 DEF QInv, FilesInv
    <3>3. x = Other(e)
      BY <3>1, <3>2, EndsAre
    <3> QED BY <1>0, <3>2, <3>3, EndsAre DEF EndSame
  <2> QED BY <2>1, <2>2, <2>3, <2>4, EndsAre DEF FilesInv
<1>6. Live(k) /\ (Live(k)' <=> Attached(k, Other(e)))
  BY <1>1, EndsAre DEF Live
<1>7. CASE ~Attached(k, Other(e))
  <2>1. ~Live(k)' /\ RingInv(k)'
    BY <1>6, <1>7 DEF RingInv
  <2>2. Contents(k)' = <<>>
    BY <2>1, NotLiveNext
  <2> QED BY <1>0, <1>3, <1>7, <2>1, <2>2 DEF QInv
<1>8. CASE Attached(k, Other(e))
  <2>1. PICK n \in 0 .. Capacity : Ring(k, n)
    BY <1>6 DEF QInv, RingInv
  <2>5. left'[k] = left[k] \cup {e}
    BY <1>0, <1>4, <1>8
  <2>2. Shared(k)' = Shared(k)
    <3>1. map[k][e] = map[k][Other(e)]
      BY <1>1, <1>2, <1>8, EndsAre DEF EndInv, Attached
    <3>2. Shared(k) = mem[k][map[k][Other(e)]]
      BY <1>8, <3>1, EndsAre DEF Shared
    <3>3. Shared(k)' = mem'[k][map'[k][Other(e)]]
      BY <1>1, <1>8, EndsAre DEF Shared
    <3>4. mem'[k] = mem[k] /\ map'[k][Other(e)] = map[k][Other(e)]
      BY <1>0 DEF EndSame
    <3> QED BY <3>2, <3>3, <3>4
  <2>6. Base(k)' = Base(k)
    <3>1. idx'[k]["cons"] = idx[k]["cons"]
      BY <1>0, EndsAre DEF EndSame
    <3>2. CASE e = "cons"
      BY <1>1, <2>5, <3>1, <3>2 DEF Base
    <3>3. CASE e = "prod"
      <4>1. Attached(k, "cons") /\ Attached(k, "cons")'
        BY <1>1, <1>8, <3>3, EndsAre
      <4> QED BY <3>1, <4>1 DEF Base
    <3> QED BY <3>2, <3>3, EndsAre
  <2>3. Ring(k, n)'
    <3>1. Holds(Shared(k)', Base(k)', n)
      BY <2>1, <2>2, <2>6 DEF Ring
    <3>2. \A s \in Elems : Shared(k)'[s].signal # 0 => Shared(k)'[s].data \in Data
      BY <2>1, <2>2 DEF Ring
    <3>3. Attached(k, "prod")' => idx'[k]["prod"] = (Base(k)' + n) % Capacity
      <4>1. idx'[k]["prod"] = idx[k]["prod"]
        BY <1>0, EndsAre DEF EndSame
      <4>2. Attached(k, "prod")' => Attached(k, "prod")
        BY <1>1, EndsAre
      <4> QED BY <2>1, <2>6, <4>1, <4>2 DEF Ring
    <3>4. ~Attached(k, "prod")' /\ "prod" \notin left'[k] => n = 0 /\ Base(k)' = 0
      <4>1. ~Attached(k, "prod")' /\ "prod" \notin left'[k]
              => ~Attached(k, "prod") /\ "prod" \notin left[k]
        BY <1>1, <2>5, EndsAre
      <4> QED BY <2>1, <2>6, <4>1 DEF Ring
    <3>5. pc'[k]["cons"] \in {"sync", "pop"}
            => /\ pc[k]["cons"] = pc'[k]["cons"] /\ idx'[k]["cons"] = idx[k]["cons"]
               /\ at'[k]["cons"] = at[k]["cons"] /\ held'[k] = held[k]
      BY <1>0, EndsAre DEF EndSame
    <3>6. pc'[k]["cons"] = "sync" /\ at'[k]["cons"] > 0
            => n = Capacity /\ idx'[k]["cons"] = Capacity - at'[k]["cons"]
      BY <2>1, <3>5 DEF Ring
    <3>7. pc'[k]["cons"] = "pop"
            => n > 0 /\ held'[k] = Shared(k)'[idx'[k]["cons"]].data
      BY <2>1, <2>2, <3>5 DEF Ring
    <3> QED BY <3>1, <3>2, <3>3, <3>4, <3>6, <3>7 DEF Ring
  <2>4. Contents(k)' = Contents(k)
    BY <1>0, <1>3, <1>6, <1>8, <2>1, <2>2, <2>3, <2>6, KeepsRing DEF QInv, OnQueue
  <2> QED BY <1>0, <1>3, <1>8, <2>3, <2>4 DEF QInv, RingInv
<1> QED BY <1>7, <1>8

\* The end that created the file clears it and is attached.
LEMMA MemsetKeeps ==
  ASSUME QueueTypeOK, NEW k \in Queues, NEW e \in Ends, Memset(k, e), QInv(k)
  PROVE  /\ OnQueue(k) /\ QInv(k)' /\ Holding(k) /\ EndSame(k, Other(e))
         /\ ~Attached(k, e) /\ pc'[k][e] = "open"
<1> DEFINE f == map[k][e]
<1>1. /\ pc[k][e] = "memset" /\ created[k][e] /\ pc[k][Other(e)] = "closed"
      /\ f \in Files /\ e \notin left[k] /\ Other(e) \notin left[k] /\ idx[k][e] = 0
  <2>1. pc[k][e] = "memset"
    BY DEF Memset
  <2>2. EndInv(k, e) /\ EndInv(k, Other(e))
    BY EndsAre DEF QInv, FilesInv
  <2>3. Other(e) \notin left[k]
    BY <2>1, <2>2, EndsAre DEF EndInv, Attached
  <2> QED BY <2>1, <2>2, <2>3, TypesAt DEF EndInv
<1>2. mem' = [mem EXCEPT ![k][f] = [s \in Elems |-> Clear]]
      /\ pc' = [pc EXCEPT ![k][e] = "open"]
      /\ UNCHANGED <<file, map, created, idx, at, held, out, left>>
  BY DEF Memset, Goto
<1> HIDE DEF f
<1>3. QueueTypeOK'
  <2>1. Clear \in Element
    BY DEF Clear, Element
  <2>2. [s \in Elems |-> Clear] \in [Elems -> Element]
    BY <2>1
  <2>3. mem \in [Queues -> [Files -> [Elems -> Element]]]
    BY DEF QueueTypeOK, Element
  <2>4. mem' \in [Queues -> [Files -> [Elems -> Element]]]
    BY <1>1, <1>2, <2>2, <2>3
  <2>5. pc' \in [Queues ->
                   [Ends -> {"closed", "map", "memset", "sync", "open", "pop"}]]
    BY <1>2 DEF QueueTypeOK
  <2> QED BY <1>2, <2>4, <2>5 DEF QueueTypeOK, Element
<1>4. /\ OnQueue(k) /\ EndSame(k, Other(e))
      /\ pc'[k][e] = "open" /\ pc'[k][Other(e)] = "closed"
      /\ mem'[k][f] = [s \in Elems |-> Clear]
  BY <1>1, <1>2, <1>3, EndsAre DEF QueueTypeOK, OnQueue, EndSame, Same
<1>5. /\ ~Attached(k, e) /\ Attached(k, e)'
      /\ ~Attached(k, Other(e)) /\ ~Attached(k, Other(e))'
  BY <1>1, <1>4 DEF Attached
<1>6. FilesInv(k)'
  <2>1. EndInv(k, e) /\ EndInv(k, Other(e))
    BY EndsAre DEF QInv, FilesInv
  <2>2. EndInv(k, e)'
    BY <1>1, <1>2, <1>4, <2>1, EndsAre DEF EndInv
  <2>3. EndInv(k, Other(e))'
    BY <1>1, <1>2, <1>4, <2>1, EndsAre DEF EndInv, EndSame
  <2>4. pc'[k]["prod"] # "pop"
    BY <1>1, <1>4, EndsAre
  <2>5. created'[k][e] /\ pc'[k][e] \in {"memset", "open", "pop"}
    BY <1>1, <1>2, <1>4
  <2> QED BY <2>2, <2>3, <2>4, <2>5, EndsAre DEF FilesInv
<1>7. ~Live(k) /\ Live(k)'
  BY <1>5, EndsAre DEF Live
<1>8. Shared(k)' = [s \in Elems |-> Clear]
  <2>1. Shared(k)' = mem'[k][map'[k][e]]
    BY <1>5, EndsAre DEF Shared
  <2> QED BY <1>2, <1>4, <2>1 DEF f
<1>9. Base(k)' = 0
  BY <1>1, <1>2, <1>5, EndsAre DEF Base
<1>10. Ring(k, 0)'
  <2>1. \A s \in Elems : (s - 0) % Capacity \in 0 .. Capacity - 1
    BY CapacityType, ModDistType DEF Elems
  <2>2. \A s \in Elems : Shared(k)'[s].signal = 0
    BY <1>8 DEF Clear
  <2>3. (Holds(Shared(k), Base(k), 0))'
    BY <1>9, <2>1, <2>2, CapacityType DEF Holds
  <2>4. (0 + 0) % Capacity = 0
    BY CapacityType, ModDistType
  <2>5. idx'[k][e] = 0 /\ pc'[k]["cons"] \notin {"sync", "pop"}
    BY <1>1, <1>2, <1>4, EndsAre
  <2>6. (Attached(k, "prod") => idx[k]["prod"] = (Base(k) + 0) % Capacity)'
    BY <1>5, <1>9, <2>4, <2>5, EndsAre
  <2> QED BY <1>9, <2>2, <2>3, <2>5, <2>6 DEF Ring
<1>11. Contents(k)' = <<>>
  <2>1. 0 \in 0 .. Capacity
    BY CapacityType
  <2>2. Contents(k)' = SeqOf(Shared(k)', Base(k)', 0)
    BY <1>4, <1>6, <1>7, <1>10, <2>1, ContentsRingNext DEF OnQueue
  <2> QED BY <2>2 DEF SeqOf
<1>12. Contents(k) = <<>>
  BY <1>7, NotLive
<1>13. RingInv(k)'
  BY <1>10, CapacityType DEF RingInv
<1> QED BY <1>2, <1>4, <1>5, <1>6, <1>11, <1>12, <1>13 DEF QInv, Holding

\* The slot an iteration looks at, and the index after it.
SyncSlot(k, e) == IF e = "prod" THEN at[k][e] ELSE Capacity - 1 - at[k][e]
SyncIdx(k, e) ==
  IF Buf(k, e)[SyncSlot(k, e)].signal # 0 THEN Found(e, SyncSlot(k, e)) ELSE idx[k][e]
SyncLast(k, e) ==
  at[k][e] = Capacity - 1 \/ Buf(k, e)[Probe(e, SyncIdx(k, e))].signal = 0
SyncFull(k, e) == SyncIdx(k, e) = 0 /\ Buf(k, e)[0].signal # 0

\* An iteration of the loop that synchronises.
LEMMA SyncFacts ==
  ASSUME QueueTypeOK, NEW k \in Queues, NEW e \in Ends, Sync(k, e), QInv(k)
  PROVE  /\ OnQueue(k) /\ EndSame(k, Other(e))
         /\ file'[k] = file[k] /\ mem'[k] = mem[k] /\ held'[k] = held[k]
         /\ out'[k] = out[k] /\ left'[k] = left[k] /\ created'[k][e] = created[k][e]
         /\ pc[k][e] = "sync" /\ idx'[k][e] = SyncIdx(k, e)
         /\ SyncSlot(k, e) \in Elems
         /\ at'[k][e] = IF SyncLast(k, e) THEN 0 ELSE at[k][e] + 1
         /\ pc'[k][e] = IF ~SyncLast(k, e) THEN "sync"
                        ELSE IF SyncFull(k, e) THEN "closed" ELSE "open"
         /\ map'[k][e] = IF SyncLast(k, e) /\ SyncFull(k, e) THEN NoFile ELSE map[k][e]
<1> DEFINE s == SyncSlot(k, e)
           x == SyncIdx(k, e)
           last == SyncLast(k, e)
           full == SyncFull(k, e)
<1>1. /\ pc[k][e] = "sync" /\ UNCHANGED <<file, mem, held, out, left>>
      /\ idx' = [idx EXCEPT ![k][e] = x]
      /\ at' = [at EXCEPT ![k][e] = IF last THEN 0 ELSE @ + 1]
      /\ IF ~last THEN UNCHANGED <<pc, map, created>>
         ELSE IF full
         THEN /\ pc' = [pc EXCEPT ![k][e] = "closed"]
              /\ map' = [map EXCEPT ![k][e] = NoFile] /\ UNCHANGED created
         ELSE pc' = [pc EXCEPT ![k][e] = "open"] /\ UNCHANGED <<map, created>>
  BY DEF Sync, SyncSlot, SyncIdx, SyncLast, SyncFull, Goto
<1>2. at[k][e] \in Elems /\ idx[k][e] \in Elems
  BY TypesAt
<1>3. s \in Elems
  BY <1>2, CapacityType DEF SyncSlot, Elems
<1>4. x \in Elems
  <2>1. Next1(s) \in Elems
    <3>1. s + 1 \in Int
      BY <1>3, CapacityType DEF Elems
    <3> QED BY <3>1, CapacityType, ModDiv DEF Next1, Elems
  <2> QED BY <1>2, <1>3, <2>1 DEF SyncIdx, Found
<1>5. ~last => at[k][e] + 1 \in Elems
  BY <1>2, CapacityType DEF SyncLast, Elems
<1> HIDE DEF s, x, last, full
<1>6. QueueTypeOK'
  <2>1. idx' \in [Queues -> [Ends -> Elems]]
    BY <1>1, <1>4 DEF QueueTypeOK
  <2>2. at' \in [Queues -> [Ends -> Elems]]
    <3>1. (IF last THEN 0 ELSE at[k][e] + 1) \in Elems
      BY <1>5, CapacityType
    <3> QED BY <1>1, <3>1 DEF QueueTypeOK
  <2>3. /\ pc' \in [Queues ->
                      [Ends -> {"closed", "map", "memset", "sync", "open", "pop"}]]
        /\ map' \in [Queues -> [Ends -> Files \cup {NoFile}]]
        /\ created' \in [Queues -> [Ends -> BOOLEAN]]
    <3>1. CASE ~last
      BY <1>1, <3>1 DEF QueueTypeOK
    <3>2. CASE last /\ full
      <4>1. /\ pc' = [pc EXCEPT ![k][e] = "closed"]
            /\ map' = [map EXCEPT ![k][e] = NoFile] /\ created' = created
        BY <1>1, <3>2
      <4> QED BY <4>1 DEF QueueTypeOK
    <3>3. CASE last /\ ~full
      <4>1. pc' = [pc EXCEPT ![k][e] = "open"] /\ map' = map /\ created' = created
        BY <1>1, <3>3
      <4> QED BY <4>1 DEF QueueTypeOK
    <3> QED BY <3>1, <3>2, <3>3
  <2> QED BY <1>1, <2>1, <2>2, <2>3 DEF QueueTypeOK
<1>7. \A j \in Queues \ {k} : Same(j)
  BY <1>1 DEF QueueTypeOK, Same
<1>8. EndSame(k, Other(e))
  BY <1>1, EndsAre DEF QueueTypeOK, EndSame
<1>9. /\ idx'[k][e] = x /\ at'[k][e] = IF last THEN 0 ELSE at[k][e] + 1
      /\ created'[k][e] = created[k][e]
      /\ pc'[k][e] = IF ~last THEN "sync" ELSE IF full THEN "closed" ELSE "open"
      /\ map'[k][e] = IF last /\ full THEN NoFile ELSE map[k][e]
  BY <1>1 DEF QueueTypeOK
<1> QED BY <1>1, <1>3, <1>6, <1>7, <1>8, <1>9 DEF OnQueue, s, x, last, full

\* The end that joins sees what the other end is attached to.
LEMMA SyncBuf ==
  ASSUME QueueTypeOK, NEW k \in Queues, NEW e \in Ends, QInv(k), pc[k][e] = "sync"
  PROVE  /\ Attached(k, Other(e)) /\ ~Attached(k, e) /\ Live(k) /\ Buf(k, e) = Shared(k)
         /\ e \notin left[k] /\ Other(e) \notin left[k] /\ map[k][e] = file[k]
         /\ map[k][Other(e)] = map[k][e] /\ ~created[k][e] /\ map[k][e] # NoFile
<1>1. EndInv(k, e) /\ EndInv(k, Other(e))
  BY EndsAre DEF QInv, FilesInv
<1>2. /\ Attached(k, Other(e)) /\ e \notin left[k] /\ Other(e) \notin left[k]
      /\ ~created[k][e] /\ ~Attached(k, e)
  BY <1>1, EndsAre DEF EndInv, Attached
<1>3. map[k][e] = file[k] /\ map[k][Other(e)] = file[k] /\ map[k][e] # NoFile
  BY <1>1, <1>2, EndsAre DEF EndInv, Attached
<1> QED BY <1>2, <1>3, EndsAre DEF Buf, Shared, Live

\* A producer that joins finds the queue as the consumer found it: empty.
LEMMA SyncProd ==
  ASSUME QueueTypeOK, NEW k \in Queues, QInv(k), pc[k]["prod"] = "sync", Ring(k, 0)
  PROVE  SyncIdx(k, "prod") = 0 /\ SyncLast(k, "prod") /\ ~SyncFull(k, "prod")
<1>1. Buf(k, "prod") = Shared(k) /\ idx[k]["prod"] = 0
  BY EndsAre, SyncBuf DEF QInv, FilesInv, EndInv
<1>2. Base(k) = 0
  BY EndsAre, SyncBuf DEF Ring
<1>3. \A s \in Elems : Buf(k, "prod")[s].signal = 0
  <2> TAKE s \in Elems
  <2>1. (s - 0) % Capacity \in 0 .. Capacity - 1
    BY CapacityType, ModDistType DEF Elems
  <2> QED BY <1>1, <1>2, <2>1 DEF Ring, Holds
<1>4. SyncSlot(k, "prod") \in Elems
  BY EndsAre, TypesAt DEF SyncSlot
<1>5. SyncIdx(k, "prod") = 0
  BY <1>1, <1>3, <1>4 DEF SyncIdx
<1> QED BY <1>3, <1>5, CapacityType DEF SyncLast, SyncFull, Probe

\* A consumer that joins opens a queue of which the first element is clear; a full
\* one it scans to the end.
LEMMA SyncCons ==
  ASSUME QueueTypeOK, NEW k \in Queues, QInv(k), pc[k]["cons"] = "sync",
         NEW n \in 0 .. Capacity, Ring(k, n)
  PROVE  /\ Base(k) = 0
         /\ SyncLast(k, "cons") => SyncIdx(k, "cons") = 0
         /\ ~SyncLast(k, "cons")
              => n = Capacity /\ SyncIdx(k, "cons") = Capacity - (at[k]["cons"] + 1)
<1>1. Buf(k, "cons") = Shared(k) /\ (at[k]["cons"] = 0 => idx[k]["cons"] = 0)
  BY EndsAre, SyncBuf DEF QInv, FilesInv, EndInv
<1>2. Base(k) = 0
  BY EndsAre, SyncBuf DEF Base
<1>3. \A s \in Elems : Buf(k, "cons")[s].signal # 0 <=> s < n
  <2> TAKE s \in Elems
  <2>1. s = 0 * Capacity + s /\ s \in 0 .. Capacity - 1 /\ s - 0 = s
    BY CapacityType DEF Elems
  <2>2. s % Capacity = s
    BY <2>1, CapacityType, ModUnique
  <2> QED BY <1>1, <1>2, <2>1, <2>2 DEF Ring, Holds
<1>4. at[k]["cons"] \in Elems
  BY EndsAre, TypesAt
<1> DEFINE a == at[k]["cons"]
<1>5. SyncSlot(k, "cons") = Capacity - 1 - a /\ Capacity - 1 - a \in Elems
  BY <1>4, CapacityType DEF SyncSlot, Elems
<1>6. CASE n = Capacity
  <2>1. \A s \in Elems : Buf(k, "cons")[s].signal # 0
    BY <1>3, <1>6, CapacityType DEF Elems
  <2>2. SyncIdx(k, "cons") = Capacity - 1 - a
    BY <1>5, <2>1 DEF SyncIdx, Found
  <2>3. Probe("cons", SyncIdx(k, "cons")) \in Elems
    <3>1. Capacity - 1 - a - 1 \in Int
      BY <1>4, CapacityType DEF Elems
    <3>2. (Capacity - 1 - a - 1) % Capacity \in Elems
      BY <3>1, CapacityType, ModDiv DEF Elems
    <3> QED BY <2>2, <3>2 DEF Probe
  <2>4. SyncLast(k, "cons") <=> a = Capacity - 1
    BY <2>1, <2>3 DEF SyncLast
  <2> QED BY <1>2, <1>4, <1>6, <2>2, <2>4, CapacityType DEF Elems
<1>7. CASE n < Capacity
  <2>1. a = 0
    BY <1>4, <1>7, CapacityType DEF Ring, Elems
  <2>2. Buf(k, "cons")[Capacity - 1].signal = 0 /\ Capacity - 1 \in Elems
    BY <1>3, <1>5, <1>7, <2>1, CapacityType
  <2>3. SyncIdx(k, "cons") = 0
    BY <1>1, <1>5, <2>1, <2>2, CapacityType DEF SyncIdx
  <2>4. Probe("cons", 0) = Capacity - 1
    <3>1. 0 - 1 = (-1) * Capacity + (Capacity - 1) /\ Capacity - 1 \in 0 .. Capacity - 1
          /\ -1 \in Int
      BY CapacityType
    <3>2. ((-1) * Capacity + (Capacity - 1)) % Capacity = Capacity - 1
      BY <3>1, CapacityType, ModUnique
    <3> QED BY <3>1, <3>2 DEF Probe
  <2>5. SyncLast(k, "cons")
    BY <2>2, <2>3, <2>4 DEF SyncLast
  <2> QED BY <1>2, <2>3, <2>5
<1> QED BY <1>6, <1>7, CapacityType

LEMMA SyncKeeps ==
  ASSUME QueueTypeOK, NEW k \in Queues, NEW e \in Ends, Sync(k, e), QInv(k)
  PROVE  /\ OnQueue(k) /\ QInv(k)' /\ Holding(k) /\ EndSame(k, Other(e))
         /\ ~Attached(k, e) /\ pc'[k][e] \in {"sync", "open", "closed"}
<1> USE SyncFacts, SyncBuf
<1>1. /\ ~Attached(k, e) /\ Attached(k, Other(e)) /\ Attached(k, Other(e))'
      /\ Live(k) /\ Live(k)'
      /\ e \notin left[k] /\ Other(e) \notin left[k]
      /\ Attached(k, e)' <=> pc'[k][e] = "open"
  BY EndsAre DEF Attached, EndSame, Live
<1>2. PICK n \in 0 .. Capacity : Ring(k, n)
  BY <1>1 DEF QInv, RingInv
<1>3. Shared(k)' = Shared(k)
  <2>1. Shared(k) = mem[k][map[k][Other(e)]]
    BY <1>1 DEF Buf
  <2>2. Shared(k)' = mem'[k][map'[k][Other(e)]]
    <3>1. Attached(k, e)' => map'[k][e] = map'[k][Other(e)]
      BY <1>1 DEF EndSame
    <3> QED BY <1>1, <3>1, EndsAre DEF Shared
  <2> QED BY <2>1, <2>2 DEF EndSame
<1>4. /\ SyncLast(k, e) => SyncIdx(k, e) = 0
      /\ e = "prod" => n = 0 /\ Base(k) = 0 /\ SyncLast(k, e)
      /\ e = "cons" => /\ Base(k) = 0
                       /\ ~SyncLast(k, e)
                            => n = Capacity
                               /\ SyncIdx(k, e) = Capacity - (at[k][e] + 1)
  <2>1. CASE e = "prod"
    <3>1. n = 0 /\ Base(k) = 0
      BY <1>1, <1>2, <2>1 DEF Ring
    <3> QED BY <1>2, <2>1, <3>1, SyncProd
  <2>2. CASE e = "cons"
    BY <1>2, <2>2, SyncCons
  <2> QED BY <2>1, <2>2, EndsAre
<1>5. FilesInv(k)'
  <2>1. EndInv(k, e) /\ EndInv(k, Other(e))
    BY EndsAre DEF QInv, FilesInv
  <2>6. at[k][e] + 1 > 0
    BY TypesAt, CapacityType DEF Elems
  <2>2. EndInv(k, e)'
    BY <1>1, <1>4, <2>1, <2>6, EndsAre DEF EndInv, EndSame
  <2>3. EndInv(k, Other(e))'
    BY <1>1, <2>1, EndsAre DEF EndInv, EndSame
  <2>4. pc'[k]["prod"] # "pop"
    BY EndsAre DEF EndSame, QInv, FilesInv
  <2>5. \E x \in Ends : created'[k][x] /\ pc'[k][x] \in {"memset", "open", "pop"}
    <3>1. PICK x \in Ends : created[k][x] /\ pc[k][x] \in {"memset", "open", "pop"}
      BY <1>1 DEF QInv, FilesInv
    <3>2. x = Other(e)
      BY <3>1, EndsAre
    <3> QED BY <3>1, <3>2, EndsAre DEF EndSame
  <2> QED BY <2>2, <2>3, <2>4, <2>5, EndsAre DEF FilesInv
<1>6. Base(k)' = Base(k)
  <2>1. CASE e = "prod"
    <3>1. Attached(k, "cons") /\ Attached(k, "cons")' /\ idx'[k]["cons"] = idx[k]["cons"]
      BY <1>1, <2>1, EndsAre DEF EndSame
    <3> QED BY <3>1 DEF Base
  <2>2. CASE e = "cons"
    <3>1. Base(k) = 0
      BY <1>4, <2>2
    <3>2. CASE pc'[k][e] = "open"
      <4>1. idx'[k]["cons"] = 0
        BY <1>4, <2>2, <3>2
      <4> QED BY <1>1, <2>2, <3>1, <3>2, <4>1 DEF Base
    <3>3. CASE pc'[k][e] # "open"
      BY <1>1, <2>2, <3>1, <3>3 DEF Base
    <3> QED BY <3>2, <3>3
  <2> QED BY <2>1, <2>2, EndsAre
<1>7. Ring(k, n)'
  <2>1. (Holds(Shared(k), Base(k), n))'
        /\ \A s \in Elems : Shared(k)'[s].signal # 0 => Shared(k)'[s].data \in Data
    BY <1>2, <1>3, <1>6 DEF Ring, Holds
  <2>2. CASE e = "prod"
    <3>1. pc'[k]["cons"] = pc[k]["cons"] /\ pc[k]["cons"] # "sync" /\ held'[k] = held[k]
          /\ idx'[k]["cons"] = idx[k]["cons"]
      BY <1>1, <2>2, EndsAre DEF Attached, EndSame
    <3>2. n = 0 /\ Base(k)' = 0 /\ idx'[k]["prod"] = 0
      BY <1>4, <1>6, <2>2
    <3>3. (0 + 0) % Capacity = 0
      BY CapacityType, ModDistType
    <3> QED BY <1>2, <1>3, <2>1, <3>1, <3>2, <3>3 DEF Ring
  <2>3. CASE e = "cons"
    <3>1. /\ pc'[k]["prod"] = pc[k]["prod"] /\ idx'[k]["prod"] = idx[k]["prod"]
          /\ Attached(k, "prod") /\ Attached(k, "prod")'
          /\ pc'[k]["cons"] # "pop"
      BY <1>1, <2>3, EndsAre DEF EndSame
    <3>2. idx'[k]["prod"] = (Base(k)' + n) % Capacity
      BY <1>2, <1>6, <3>1 DEF Ring
    <3>3. pc'[k]["cons"] = "sync"
            => n = Capacity /\ idx'[k]["cons"] = Capacity - at'[k]["cons"]
      BY <1>4, <2>3
    <3> QED BY <2>1, <3>1, <3>2, <3>3 DEF Ring
  <2> QED BY <2>2, <2>3, EndsAre
<1>8. Contents(k)' = Contents(k)
  BY <1>1, <1>2, <1>3, <1>5, <1>6, <1>7, KeepsRing DEF QInv, OnQueue
<1> QED BY <1>1, <1>5, <1>7, <1>8 DEF QInv, RingInv, Holding

\* The element the producer stores is the one behind the last.
LEMMA PushKeeps ==
  ASSUME QueueTypeOK, NEW k \in Queues, NEW d \in Data, Push(k, d), QInv(k)
  PROVE  /\ OnQueue(k) /\ QInv(k)' /\ out'[k] = out[k]
         /\ pc'[k] = pc[k] /\ pc[k]["prod"] = "open"
         /\ Contents(k) \in Seq(Data \cup {NoData}) /\ Len(Contents(k)) < Capacity
         /\ Contents(k)' = Append(Contents(k), d)
<1> DEFINE f == map[k]["prod"]
           t == idx[k]["prod"]
           el == [signal |-> 1, data |-> d]
<1>1. /\ pc[k]["prod"] = "open" /\ Buf(k, "prod")[t].signal = 0
      /\ mem' = [mem EXCEPT ![k][f][t] = el]
      /\ idx' = [idx EXCEPT ![k]["prod"] = Next1(@)]
      /\ UNCHANGED <<file, pc, map, created, at, held, out, left>>
  BY DEF Push, Full
<1>2. Attached(k, "prod") /\ Live(k)
  BY <1>1 DEF Attached, Live
<1>3. f \in Files /\ Buf(k, "prod") = Shared(k) /\ Shared(k) = mem[k][f]
      /\ Shared(k) \in [Elems -> Element] /\ Base(k) \in Elems /\ Base(k) \in Int
  BY <1>2, OneFile, EndsAre DEF QInv, Buf
<1>4. t \in Elems /\ Next1(t) \in Elems
  <2>1. t \in Elems
    BY TypesAt, EndsAre
  <2>2. t + 1 \in Int
    BY <2>1, CapacityType DEF Elems
  <2> QED BY <2>1, <2>2, CapacityType, ModDiv DEF Next1, Elems
<1>5. el \in Element
  BY DEF Element
<1> HIDE DEF f, t, el
<1>6. QueueTypeOK'
  <2>1. mem \in [Queues -> [Files -> [Elems -> Element]]]
    BY DEF QueueTypeOK, Element
  <2>2. mem' \in [Queues -> [Files -> [Elems -> Element]]]
    <3>1. [mem[k][f] EXCEPT ![t] = el] \in [Elems -> Element]
      BY <1>3, <1>5
    <3>2. mem' = [mem EXCEPT ![k] = [mem[k] EXCEPT ![f] = [mem[k][f] EXCEPT ![t] = el]]]
      BY <1>1, <1>3, <2>1
    <3>3. [mem[k] EXCEPT ![f] = [mem[k][f] EXCEPT ![t] = el]]
            \in [Files -> [Elems -> Element]]
      BY <1>3, <2>1, <3>1
    <3> QED BY <2>1, <3>2, <3>3
  <2>3. idx' \in [Queues -> [Ends -> Elems]]
    BY <1>1, <1>4 DEF QueueTypeOK, t
  <2> QED BY <1>1, <2>2, <2>3 DEF QueueTypeOK, Element
<1>7. /\ mem'[k][f] = [mem[k][f] EXCEPT ![t] = el]
      /\ idx'[k]["prod"] = Next1(t) /\ idx'[k]["cons"] = idx[k]["cons"]
      /\ pc'[k] = pc[k] /\ map'[k] = map[k] /\ created'[k] = created[k] /\ file'[k] = file[k]
      /\ at'[k] = at[k] /\ held'[k] = held[k] /\ out'[k] = out[k] /\ left'[k] = left[k]
  <2>1. mem \in [Queues -> [Files -> [Elems -> Element]]]
    BY DEF QueueTypeOK, Element
  <2> QED BY <1>1, <1>3, <2>1, EndsAre DEF QueueTypeOK, t
<1>8. OnQueue(k)
  BY <1>1, <1>6 DEF QueueTypeOK, OnQueue, Same
<1>9. FilesInv(k)'
  <2>1. EndInv(k, "prod")'
    BY <1>1, <1>7, EndsAre DEF QInv, FilesInv, EndInv, Attached
  <2>2. EndInv(k, "cons")'
    BY <1>7, EndsAre DEF QInv, FilesInv, EndInv, Attached
  <2> QED BY <1>7, <2>1, <2>2 DEF QInv, FilesInv
<1>10. PICK n \in 0 .. Capacity : Ring(k, n)
  BY <1>2 DEF QInv, RingInv
<1>11. t = (Base(k) + n) % Capacity /\ Holds(Shared(k), Base(k), n)
  BY <1>2, <1>10 DEF Ring, t
<1>12. n < Capacity
  <2> SUFFICES ASSUME n = Capacity PROVE FALSE
    BY CapacityType
  <2>1. (t - Base(k)) % Capacity \in 0 .. Capacity - 1
    <3>1. t \in Int
      BY <1>4, CapacityType DEF Elems
    <3> QED BY <1>3, <3>1, CapacityType, ModDistType
  <2> QED BY <1>1, <1>3, <1>4, <1>11, <2>1 DEF Holds
<1>13. n \in 0 .. Capacity - 1 /\ n + 1 \in 0 .. Capacity
  BY <1>12, CapacityType
<1>14. Shared(k)' = [Shared(k) EXCEPT ![(Base(k) + n) % Capacity] =
                      [signal |-> 1, data |-> d]]
  <2>1. Shared(k)' = mem'[k][f]
    BY <1>2, <1>7 DEF Shared, Attached, f
  <2> QED BY <1>3, <1>7, <1>11, <2>1 DEF el
<1>15. Base(k)' = Base(k)
  BY <1>7 DEF Base, Attached
<1>16. Holds(Shared(k)', Base(k), n + 1)
       /\ SeqOf(Shared(k)', Base(k), n + 1) = Append(SeqOf(Shared(k), Base(k), n), d)
  <2> DEFINE h == Base(k)
  <2>1. Shared(k) = mem[k][f] /\ Shared(k)' = mem'[k][f]
    BY <1>2, <1>3, <1>7 DEF Shared, Attached, f
  <2>2. /\ mem[k][f] \in [Elems -> Element] /\ h \in Int /\ Holds(mem[k][f], h, n)
        /\ mem'[k][f] = [mem[k][f] EXCEPT ![(h + n) % Capacity] =
                           [signal |-> 1, data |-> d]]
    BY <1>3, <1>11, <1>14, <2>1
  <2> HIDE DEF h
  <2>3. Holds(mem'[k][f], h, n + 1)
        /\ SeqOf(mem'[k][f], h, n + 1) = Append(SeqOf(mem[k][f], h, n), d)
    <3> DEFINE b == mem[k][f]
               two == mem'[k][f]
    <3>1. /\ b \in [Elems -> Element] /\ h \in Int /\ n \in 0 .. Capacity - 1
          /\ Holds(b, h, n)
          /\ two = Filled(b, (h + n) % Capacity, d)
      BY <1>13, <2>2 DEF Filled
    <3> HIDE DEF b, two
    <3>2. Holds(two, h, n + 1) /\ SeqOf(two, h, n + 1) = Append(SeqOf(b, h, n), d)
      BY <3>1, BufPush
    <3> QED BY <3>2 DEF b, two
  <2> QED BY <2>1, <2>3 DEF h
<1>17. Ring(k, n + 1)'
  <2>1. \A s \in Elems : Shared(k)'[s].signal # 0 => Shared(k)'[s].data \in Data
    <3> TAKE s \in Elems
    <3>1. Shared(k)'[s] = IF s = t THEN el ELSE Shared(k)[s]
      BY <1>3, <1>4, <1>11, <1>14 DEF el
    <3> QED BY <1>10, <3>1 DEF Ring, el
  <2>2. idx'[k]["prod"] = (Base(k)' + (n + 1)) % Capacity
    <3>1. Base(k) + n \in Int /\ 1 \in Int /\ (Base(k) + n) + 1 = Base(k) + (n + 1)
      BY <1>3
    <3>2. (((Base(k) + n) % Capacity) + 1) % Capacity = ((Base(k) + n) + 1) % Capacity
      BY <3>1, CapacityType, ModAdd
    <3> QED BY <1>7, <1>11, <1>15, <3>1, <3>2 DEF Next1
  <2>3. ~(pc'[k]["cons"] = "sync" /\ at'[k]["cons"] > 0)
    BY <1>7, <1>10, <1>12 DEF Ring
  <2>4. ASSUME pc'[k]["cons"] = "pop"
        PROVE  held'[k] = Shared(k)'[idx'[k]["cons"]].data
    <3>1. idx[k]["cons"] = Base(k) /\ n > 0 /\ held[k] = Shared(k)[idx[k]["cons"]].data
      BY <1>7, <1>10, <2>4 DEF Ring, Base, Attached
    <3>2. (Base(k) - Base(k)) % Capacity = 0 /\ (t - Base(k)) % Capacity = n
      BY <1>3, <1>11, <1>13, CapacityType, ModDistType, SlotOf
    <3>3. Base(k) # t
      BY <3>1, <3>2
    <3> QED BY <1>3, <1>7, <1>11, <1>14, <3>1, <3>3
  <2>5. Holds(Shared(k)', Base(k)', n + 1)
    BY <1>15, <1>16
  <2>6. (Holds(Shared(k), Base(k), n + 1))'
    BY <2>5 DEF Holds
  <2> QED BY <1>2, <1>7, <1>13, <2>1, <2>2, <2>3, <2>4, <2>6 DEF Ring, Attached
<1>18. Live(k)'
  BY <1>2, <1>7 DEF Live, Attached
<1>19. Contents(k)' = SeqOf(Shared(k)', Base(k)', n + 1)
  BY <1>6, <1>9, <1>13, <1>17, <1>18, ContentsRingNext
<1>20. Contents(k) = SeqOf(Shared(k), Base(k), n)
  BY <1>2, <1>10, ContentsRing DEF QInv
<1>21. Contents(k) \in Seq(Data \cup {NoData}) /\ Len(Contents(k)) = n
  <2>1. n \in Nat
    BY <1>13
  <2>2. Len(SeqOf(Shared(k), Base(k), n)) = n
    BY <2>1 DEF SeqOf
  <2> QED BY <1>20, <2>2, ContentsType
<1> QED BY <1>1, <1>7, <1>8, <1>9, <1>12, <1>13, <1>15, <1>16, <1>17, <1>19, <1>20, <1>21
        DEF QInv, RingInv

\* The oldest element is read while the producer may push behind it.
LEMMA PopReadKeeps ==
  ASSUME QueueTypeOK, NEW k \in Queues, PopRead(k), QInv(k)
  PROVE  /\ OnQueue(k) /\ QInv(k)' /\ Holding(k) /\ EndSame(k, "prod")
         /\ Attached(k, "cons") /\ pc'[k]["cons"] = "pop"
<1> DEFINE elem == Buf(k, "cons")[idx[k]["cons"]]
<1>1. /\ pc[k]["cons"] = "open" /\ elem.signal # 0
      /\ held' = [held EXCEPT ![k] = elem.data] /\ pc' = [pc EXCEPT ![k]["cons"] = "pop"]
      /\ UNCHANGED <<file, mem, map, created, idx, at, out, left>>
  BY DEF PopRead, Goto
<1>2. Attached(k, "cons") /\ Live(k) /\ Base(k) = idx[k]["cons"]
  BY <1>1 DEF Attached, Live, Base
<1>3. elem = Shared(k)[Base(k)] /\ elem \in Element /\ Base(k) \in Elems /\ Base(k) \in Int
  BY <1>2, OneFile, EndsAre DEF QInv
<1> HIDE DEF elem
<1>4. OnQueue(k)
  <2>1. held' \in [Queues -> Data \cup {NoData}]
    BY <1>1, <1>3 DEF QueueTypeOK, Element
  <2>2. pc' \in [Queues ->
                   [Ends -> {"closed", "map", "memset", "sync", "open", "pop"}]]
    BY <1>1 DEF QueueTypeOK
  <2>3. QueueTypeOK'
    BY <1>1, <2>1, <2>2 DEF QueueTypeOK
  <2> QED BY <1>1, <2>3 DEF QueueTypeOK, OnQueue, Same
<1>5. /\ EndSame(k, "prod") /\ pc'[k]["cons"] = "pop" /\ held'[k] = elem.data
      /\ out'[k] = out[k] /\ file'[k] = file[k] /\ left'[k] = left[k] /\ mem'[k] = mem[k]
      /\ map'[k] = map[k] /\ created'[k] = created[k] /\ idx'[k] = idx[k] /\ at'[k] = at[k]
  BY <1>1, EndsAre DEF QueueTypeOK, EndSame
<1>6. Attached(k, "cons")' /\ Attached(k, "prod")' = Attached(k, "prod") /\ Live(k)'
  BY <1>5 DEF Attached, EndSame, Live
<1>7. FilesInv(k)'
  <2>1. EndInv(k, "prod")'
    BY <1>1, <1>5, EndsAre DEF QInv, FilesInv, EndInv, Attached, EndSame
  <2>2. EndInv(k, "cons")'
    BY <1>1, <1>5, EndsAre DEF QInv, FilesInv, EndInv, Attached, EndSame
  <2>3. pc'[k]["prod"] # "pop"
    BY <1>5 DEF QInv, FilesInv, EndSame
  <2>4. file'[k] # NoFile
          => \E x \in Ends : created'[k][x] /\ pc'[k][x] \in {"memset", "open", "pop"}
    <3> SUFFICES ASSUME file'[k] # NoFile
                 PROVE  \E x \in Ends : created'[k][x]
                                        /\ pc'[k][x] \in {"memset", "open", "pop"}
      OBVIOUS
    <3>1. PICK x \in Ends : created[k][x] /\ pc[k][x] \in {"memset", "open", "pop"}
      BY <1>5 DEF QInv, FilesInv
    <3> QED BY <1>5, <3>1, EndsAre DEF EndSame
  <2> QED BY <2>1, <2>2, <2>3, <2>4 DEF FilesInv
<1>8. PICK n \in 0 .. Capacity : Ring(k, n)
  BY <1>2 DEF QInv, RingInv
<1>9. Shared(k)' = Shared(k) /\ Base(k)' = Base(k)
  BY <1>2, <1>5, <1>6 DEF Shared, Base
<1>10. n > 0
  <2>1. (Base(k) - Base(k)) % Capacity = 0
    BY <1>3, CapacityType, ModDistType
  <2>2. (Base(k) - Base(k)) % Capacity < n
    BY <1>1, <1>3, <1>8 DEF Ring, Holds
  <2> QED BY <2>1, <2>2
<1>11. Ring(k, n)'
  <2>1. held'[k] = Shared(k)'[idx'[k]["cons"]].data
    BY <1>2, <1>3, <1>5, <1>9
  <2> QED BY <1>1, <1>5, <1>6, <1>8, <1>9, <1>10, <2>1 DEF Ring, Holds, EndSame
<1>12. Contents(k)' = Contents(k)
  BY <1>2, <1>4, <1>6, <1>7, <1>8, <1>9, <1>11, KeepsRing DEF QInv, OnQueue
<1> QED BY <1>2, <1>4, <1>5, <1>7, <1>11, <1>12 DEF QInv, RingInv, Holding

\* While the consumer is between reading and clearing it holds the oldest element.
LEMMA HeldIsHead ==
  ASSUME QueueTypeOK, NEW k \in Queues, QInv(k), pc[k]["cons"] = "pop"
  PROVE  Contents(k) # <<>> /\ held[k] = Head(Contents(k)) /\ held[k] \in Data
<1>1. Attached(k, "cons") /\ Live(k) /\ Base(k) = idx[k]["cons"]
  BY DEF Attached, Live, Base
<1>2. PICK n \in 0 .. Capacity : Ring(k, n)
  BY <1>1 DEF QInv, RingInv
<1>3. n > 0 /\ held[k] = Shared(k)[Base(k)].data /\ Holds(Shared(k), Base(k), n)
  BY <1>1, <1>2 DEF Ring
<1>4. Shared(k) \in [Elems -> Element] /\ Base(k) \in Elems /\ Base(k) \in Int
  BY <1>1, OneFile DEF QInv
<1>5. n \in 1 .. Capacity
  BY <1>3, CapacityType
<1>6. SeqOf(Shared(k), Base(k), n) # <<>>
      /\ Shared(k)[Base(k)].data = Head(SeqOf(Shared(k), Base(k), n))
  BY <1>3, <1>4, <1>5, BufPop
<1>7. Contents(k) = SeqOf(Shared(k), Base(k), n)
  BY <1>1, <1>2, ContentsRing DEF QInv
<1>8. held[k] \in Data
  <2>1. (Base(k) - Base(k)) % Capacity = 0
    BY <1>4, CapacityType, ModDistType
  <2>2. Shared(k)[Base(k)].signal # 0
    BY <1>3, <1>4, <2>1 DEF Holds
  <2> QED BY <1>2, <1>3, <1>4, <2>2 DEF Ring
<1> QED BY <1>3, <1>6, <1>7, <1>8

\* The oldest element is cleared and returned.
LEMMA PopClearKeeps ==
  ASSUME QueueTypeOK, NEW k \in Queues, PopClear(k), QInv(k)
  PROVE  /\ OnQueue(k) /\ QInv(k)' /\ EndSame(k, "prod")
         /\ pc[k]["cons"] = "pop" /\ pc'[k]["cons"] = "open"
         /\ Contents(k) # <<>> /\ held[k] = Head(Contents(k)) /\ out'[k] = held[k]
         /\ held[k] \in Data /\ Contents(k)' = Tail(Contents(k))
<1> DEFINE f == map[k]["cons"]
           h == idx[k]["cons"]
<1>1. /\ pc[k]["cons"] = "pop"
      /\ mem' = [mem EXCEPT ![k][f][h] = Clear]
      /\ idx' = [idx EXCEPT ![k]["cons"] = Next1(@)]
      /\ out' = [out EXCEPT ![k] = held[k]] /\ held' = [held EXCEPT ![k] = NoData]
      /\ pc' = [pc EXCEPT ![k]["cons"] = "open"]
      /\ UNCHANGED <<file, map, created, at, left>>
  BY DEF PopClear, Goto
<1>2. Attached(k, "cons") /\ Live(k) /\ Base(k) = h
  BY <1>1 DEF Attached, Live, Base
<1>3. f \in Files /\ Buf(k, "cons") = Shared(k) /\ Shared(k) = mem[k][f]
      /\ Shared(k) \in [Elems -> Element] /\ Base(k) \in Elems /\ Base(k) \in Int
  BY <1>2, OneFile, EndsAre DEF QInv, Buf
<1>4. h \in Elems /\ h \in Int /\ Next1(h) \in Elems
  <2>1. h \in Elems
    BY TypesAt, EndsAre
  <2>2. h + 1 \in Int /\ h \in Int
    BY <2>1, CapacityType DEF Elems
  <2> QED BY <2>1, <2>2, CapacityType, ModDiv DEF Next1, Elems
<1>0. (Attached(k, "prod") => map[k]["prod"] = f)
  BY <1>2, EndsAre DEF QInv, FilesInv, EndInv, Attached
<1> HIDE DEF f, h
<1>5. QueueTypeOK'
  <2>1. mem \in [Queues -> [Files -> [Elems -> Element]]] /\ Clear \in Element
    BY DEF QueueTypeOK, Element, Clear
  <2>2. mem' \in [Queues -> [Files -> [Elems -> Element]]]
    <3>1. [mem[k][f] EXCEPT ![h] = Clear] \in [Elems -> Element]
      BY <1>3, <2>1
    <3>2. mem' = [mem EXCEPT ![k] = [mem[k] EXCEPT ![f] = [mem[k][f] EXCEPT ![h] = Clear]]]
      BY <1>1, <1>3, <2>1
    <3>3. [mem[k] EXCEPT ![f] = [mem[k][f] EXCEPT ![h] = Clear]]
            \in [Files -> [Elems -> Element]]
      BY <1>3, <2>1, <3>1
    <3> QED BY <2>1, <3>2, <3>3
  <2>3. idx' \in [Queues -> [Ends -> Elems]]
    BY <1>1, <1>4 DEF QueueTypeOK, h
  <2>4. out' \in [Queues -> Data \cup {NoData}] /\ held' \in [Queues -> Data \cup {NoData}]
    BY <1>1 DEF QueueTypeOK
  <2>5. pc' \in [Queues ->
                   [Ends -> {"closed", "map", "memset", "sync", "open", "pop"}]]
    BY <1>1 DEF QueueTypeOK
  <2> QED BY <1>1, <2>2, <2>3, <2>4, <2>5 DEF QueueTypeOK, Element
<1>6. /\ mem'[k][f] = [mem[k][f] EXCEPT ![h] = Clear]
      /\ idx'[k]["cons"] = Next1(h) /\ out'[k] = held[k]
      /\ EndSame(k, "prod") /\ pc'[k]["cons"] = "open"
      /\ map'[k] = map[k] /\ created'[k] = created[k] /\ file'[k] = file[k]
      /\ at'[k] = at[k] /\ left'[k] = left[k]
  <2>1. mem \in [Queues -> [Files -> [Elems -> Element]]]
    BY DEF QueueTypeOK, Element
  <2>2. mem'[k][f] = [mem[k][f] EXCEPT ![h] = Clear]
    BY <1>1, <1>3, <2>1
  <2> QED BY <1>1, <2>2, EndsAre DEF QueueTypeOK, EndSame, h
<1>7. OnQueue(k)
  BY <1>1, <1>5 DEF QueueTypeOK, OnQueue, Same
<1>8. Attached(k, "cons")' /\ Attached(k, "prod")' = Attached(k, "prod") /\ Live(k)'
      /\ Base(k)' = Next1(h)
  BY <1>6 DEF Attached, EndSame, Live, Base
<1>9. FilesInv(k)'
  <2>1. EndInv(k, "prod")'
    BY <1>1, <1>6, EndsAre DEF QInv, FilesInv, EndInv, Attached, EndSame
  <2>2. EndInv(k, "cons")'
    BY <1>1, <1>6, EndsAre DEF QInv, FilesInv, EndInv, Attached, EndSame
  <2>3. pc'[k]["prod"] # "pop"
    BY <1>6 DEF QInv, FilesInv, EndSame
  <2>4. file'[k] # NoFile
          => \E x \in Ends : created'[k][x] /\ pc'[k][x] \in {"memset", "open", "pop"}
    <3> SUFFICES ASSUME file'[k] # NoFile
                 PROVE  \E x \in Ends : created'[k][x]
                                        /\ pc'[k][x] \in {"memset", "open", "pop"}
      OBVIOUS
    <3>1. PICK x \in Ends : created[k][x] /\ pc[k][x] \in {"memset", "open", "pop"}
      BY <1>6 DEF QInv, FilesInv
    <3> QED BY <1>6, <3>1, EndsAre DEF EndSame
  <2> QED BY <2>1, <2>2, <2>3, <2>4 DEF FilesInv
<1>10. PICK n \in 0 .. Capacity : Ring(k, n)
  BY <1>2 DEF QInv, RingInv
<1>11. n > 0 /\ Holds(Shared(k), Base(k), n)
  BY <1>1, <1>10 DEF Ring
<1>12. n \in 1 .. Capacity /\ n - 1 \in 0 .. Capacity
  BY <1>11, CapacityType
<1>13. Shared(k)' = mem'[k][f]
  BY <1>0, <1>6, <1>8 DEF Shared, EndSame, f
<1>14. Holds(mem'[k][f], Next1(h), n - 1)
       /\ SeqOf(mem'[k][f], Next1(h), n - 1) = Tail(SeqOf(mem[k][f], h, n))
  <2>1. mem[k][f] \in [Elems -> Element] /\ Holds(mem[k][f], h, n)
    BY <1>2, <1>3, <1>11
  <2>2. h \in Elems /\ n \in 1 .. Capacity /\ mem'[k][f] = [mem[k][f] EXCEPT ![h] = Clear]
    BY <1>4, <1>6, <1>12
  <2>3. \A buf \in [Elems -> Element] : \A x \in Elems : \A i \in 1 .. Capacity : \A two :
          Holds(buf, x, i) /\ two = [buf EXCEPT ![x] = Clear]
            => /\ Holds(two, Next1(x), i - 1)
               /\ SeqOf(two, Next1(x), i - 1) = Tail(SeqOf(buf, x, i))
    BY BufPop
  <2> QED BY <2>1, <2>2, <2>3
<1>15. Ring(k, n - 1)'
  <2>1. \A s \in Elems : Shared(k)'[s].signal # 0 => Shared(k)'[s].data \in Data
    <3> TAKE s \in Elems
    <3>1. Shared(k)'[s] = IF s = h THEN Clear ELSE Shared(k)[s]
      BY <1>3, <1>4, <1>6, <1>13
    <3> QED BY <1>10, <3>1 DEF Ring, Clear
  <2>2. ASSUME Attached(k, "prod")
        PROVE  idx'[k]["prod"] = (Base(k)' + (n - 1)) % Capacity
    <3>1. idx'[k]["prod"] = (h + n) % Capacity
      BY <1>2, <1>6, <1>10, <2>2 DEF Ring, EndSame
    <3>2. h + 1 \in Int /\ n - 1 \in Int /\ (h + 1) + (n - 1) = h + n
      BY <1>4
    <3>3. (((h + 1) % Capacity) + (n - 1)) % Capacity = ((h + 1) + (n - 1)) % Capacity
      BY <3>2, CapacityType, ModAdd
    <3> QED BY <1>8, <3>1, <3>2, <3>3 DEF Next1
  <2>3. Attached(k, "prod") \/ "prod" \in left[k]
    BY <1>10, <1>11 DEF Ring
  <2>4. (Holds(Shared(k), Base(k), n - 1))'
    BY <1>8, <1>13, <1>14 DEF Holds
  <2> QED BY <1>6, <1>8, <2>1, <2>2, <2>3, <2>4 DEF Ring
<1>16. Contents(k)' = SeqOf(Shared(k)', Base(k)', n - 1)
  BY <1>5, <1>8, <1>9, <1>12, <1>15, ContentsRingNext
<1>17. Contents(k) = SeqOf(mem[k][f], h, n)
  BY <1>2, <1>3, <1>10, ContentsRing DEF QInv
<1>18. Contents(k)' = Tail(Contents(k))
  BY <1>8, <1>13, <1>14, <1>16, <1>17
<1> QED BY <1>1, <1>6, <1>7, <1>9, <1>12, <1>15, <1>18, HeldIsHead DEF QInv, RingInv

LEMMA ForgetKeeps ==
  ASSUME QueueTypeOK, NEW k \in Queues, Forget(k), QInv(k)
  PROVE  /\ OnQueue(k) /\ QInv(k)' /\ pc'[k] = pc[k] /\ Contents(k)' = Contents(k)
         /\ out[k] # NoData /\ out'[k] = NoData
<1>1. /\ out[k] # NoData /\ out' = [out EXCEPT ![k] = NoData]
      /\ UNCHANGED <<file, mem, pc, map, created, idx, at, held, left>>
  BY DEF Forget
<1>2. QueueTypeOK' /\ OnQueue(k) /\ out'[k] = NoData
  BY <1>1 DEF QueueTypeOK, OnQueue, Same
<1>3. FilesInv(k)' /\ Live(k)' = Live(k) /\ Shared(k)' = Shared(k) /\ Base(k)' = Base(k)
  BY <1>1 DEF QInv, FilesInv, EndInv, Attached, Live, Shared, Base
<1>4. \A n \in 0 .. Capacity : Ring(k, n)' = Ring(k, n)
  BY <1>1 DEF Ring, Holds, Shared, Base, Attached
<1>5. RingInv(k)'
  BY <1>3, <1>4 DEF QInv, RingInv
<1>6. Contents(k)' = Contents(k)
  BY <1>1 DEF Contents, Attached, Set, Buf
<1> QED BY <1>1, <1>2, <1>3, <1>5, <1>6 DEF QInv

-----------------------------------------------------------------------------
(* A queue is a FIFO.                                                       *)

AttachedEnds(k) == {e \in Ends : Attached(k, e)}

\* What a step of the abstract specification does, or leaves, seen at queue k.
FifoStep(k) ==
  \/ \E e \in Ends : /\ e \notin AttachedEnds(k)
                     /\ AttachedEnds(k)' = AttachedEnds(k) \cup {e} /\ Holding(k)
  \/ \E e \in Ends : /\ e \in AttachedEnds(k) /\ AttachedEnds(k)' = AttachedEnds(k) \ {e}
                     /\ Contents(k)' = IF AttachedEnds(k)' = {} THEN <<>> ELSE Contents(k)
                     /\ out'[k] = out[k]
  \/ \E d \in Data : /\ "prod" \in AttachedEnds(k) /\ Len(Contents(k)) < Capacity
                     /\ Contents(k)' = Append(Contents(k), d)
                     /\ out'[k] = out[k] /\ AttachedEnds(k)' = AttachedEnds(k)
  \/ /\ "cons" \in AttachedEnds(k) /\ Contents(k) # <<>>
     /\ out'[k] = Head(Contents(k)) /\ Contents(k)' = Tail(Contents(k))
     /\ AttachedEnds(k)' = AttachedEnds(k)
  \/ /\ out'[k] \notin Data /\ Contents(k)' = Contents(k)
     /\ AttachedEnds(k)' = AttachedEnds(k)
  \/ Holding(k) /\ AttachedEnds(k)' = AttachedEnds(k)

\* The steps of queue k.
QueueStep(k) ==
  \/ \E e \in Ends : Scan(k, e) \/ InitStep(k, e) \/ Close(k, e)
  \/ \E d \in Data : Push(k, d)
  \/ PopRead(k) \/ PopClear(k) \/ Forget(k)

LEMMA InitStepKeeps ==
  ASSUME QueueTypeOK, NEW k \in Queues, NEW e \in Ends, InitStep(k, e), QInv(k)
  PROVE  /\ OnQueue(k) /\ QInv(k)' /\ Holding(k) /\ EndSame(k, Other(e)) /\ ~Attached(k, e)
         /\ pc'[k][e] # "pop"
<1>1. CASE MapFile(k, e)
  BY <1>1, MapFileKeeps DEF Attached
<1>2. CASE MapFails(k, e)
  BY <1>2, MapFailsKeeps DEF Attached
<1>3. CASE Memset(k, e)
  BY <1>3, MemsetKeeps
<1>4. CASE Sync(k, e)
  BY <1>4, SyncKeeps
<1> QED BY <1>1, <1>2, <1>3, <1>4 DEF InitStep

LEMMA QueueStepIsFifo ==
  ASSUME QueueTypeOK, ~Overlap, ~Restart, NEW k \in Queues, QueueStep(k), QInv(k)
  PROVE  OnQueue(k) /\ QInv(k)' /\ FifoStep(k)
<1>1. ASSUME NEW e \in Ends, Scan(k, e) \/ InitStep(k, e)
      PROVE  OnQueue(k) /\ QInv(k)' /\ FifoStep(k)
  <2>1. /\ OnQueue(k) /\ QInv(k)' /\ Holding(k) /\ EndSame(k, Other(e)) /\ ~Attached(k, e)
    BY <1>1, ScanKeeps, InitStepKeeps
  <2>2. Attached(k, Other(e))' = Attached(k, Other(e))
    BY <2>1 DEF EndSame, Attached
  <2>3. CASE Attached(k, e)'
    <3>1. e \notin AttachedEnds(k) /\ AttachedEnds(k)' = AttachedEnds(k) \cup {e}
      BY <2>1, <2>2, <2>3, EndsAre DEF AttachedEnds
    <3> QED BY <2>1, <3>1 DEF FifoStep
  <2>4. CASE ~Attached(k, e)'
    <3>1. AttachedEnds(k)' = AttachedEnds(k)
      BY <2>1, <2>2, <2>4, EndsAre DEF AttachedEnds
    <3> QED BY <2>1, <3>1 DEF FifoStep
  <2> QED BY <2>3, <2>4
<1>2. ASSUME NEW e \in Ends, Close(k, e)
      PROVE  OnQueue(k) /\ QInv(k)' /\ FifoStep(k)
  <2>1. /\ OnQueue(k) /\ QInv(k)' /\ EndSame(k, Other(e)) /\ out'[k] = out[k]
        /\ pc[k][e] = "open" /\ pc'[k][e] = "closed"
        /\ Contents(k)' = IF Attached(k, Other(e)) THEN Contents(k) ELSE <<>>
    BY <1>2, CloseKeeps
  <2>2. /\ Attached(k, Other(e))' = Attached(k, Other(e))
        /\ Attached(k, e) /\ ~Attached(k, e)'
    BY <2>1 DEF EndSame, Attached
  <2>3. e \in AttachedEnds(k) /\ AttachedEnds(k)' = AttachedEnds(k) \ {e}
    BY <2>2, EndsAre DEF AttachedEnds
  <2>4. AttachedEnds(k)' = {} <=> ~Attached(k, Other(e))
    BY <2>2, EndsAre DEF AttachedEnds
  <2> QED BY <2>1, <2>3, <2>4 DEF FifoStep
<1>3. ASSUME NEW d \in Data, Push(k, d)
      PROVE  OnQueue(k) /\ QInv(k)' /\ FifoStep(k)
  <2>1. /\ OnQueue(k) /\ QInv(k)' /\ out'[k] = out[k] /\ pc'[k] = pc[k]
        /\ pc[k]["prod"] = "open" /\ Len(Contents(k)) < Capacity
        /\ Contents(k)' = Append(Contents(k), d)
    BY <1>3, PushKeeps
  <2>2. "prod" \in AttachedEnds(k) /\ AttachedEnds(k)' = AttachedEnds(k)
    BY <2>1, EndsAre DEF AttachedEnds, Attached
  <2> QED BY <2>1, <2>2 DEF FifoStep
<1>4. CASE PopRead(k)
  <2>1. /\ OnQueue(k) /\ QInv(k)' /\ Holding(k) /\ EndSame(k, "prod")
        /\ Attached(k, "cons") /\ pc'[k]["cons"] = "pop"
    BY <1>4, PopReadKeeps
  <2>2. AttachedEnds(k)' = AttachedEnds(k)
    BY <2>1, EndsAre DEF AttachedEnds, Attached, EndSame
  <2> QED BY <2>1, <2>2 DEF FifoStep
<1>5. CASE PopClear(k)
  <2>1. /\ OnQueue(k) /\ QInv(k)' /\ EndSame(k, "prod")
        /\ pc[k]["cons"] = "pop" /\ pc'[k]["cons"] = "open"
        /\ Contents(k) # <<>> /\ held[k] = Head(Contents(k)) /\ out'[k] = held[k]
        /\ Contents(k)' = Tail(Contents(k))
    BY <1>5, PopClearKeeps
  <2>2. "cons" \in AttachedEnds(k) /\ AttachedEnds(k)' = AttachedEnds(k)
    BY <2>1, EndsAre DEF AttachedEnds, Attached, EndSame
  <2> QED BY <2>1, <2>2 DEF FifoStep
<1>6. CASE Forget(k)
  <2>1. /\ OnQueue(k) /\ QInv(k)' /\ pc'[k] = pc[k] /\ Contents(k)' = Contents(k)
        /\ out'[k] = NoData
    BY <1>6, ForgetKeeps
  <2>2. AttachedEnds(k)' = AttachedEnds(k)
    BY <2>1 DEF AttachedEnds, Attached
  <2> QED BY <2>1, <2>2, CapacityType DEF FifoStep
<1> QED BY <1>1, <1>2, <1>3, <1>4, <1>5, <1>6 DEF QueueStep

LEMMA SameIsFifo ==
  ASSUME QueueTypeOK, QueueTypeOK', NEW k \in Queues, QInv(k), Same(k)
  PROVE  QInv(k)' /\ FifoStep(k)
<1>1. QInv(k)' /\ Holding(k)
  BY SameKeeps
<1>2. AttachedEnds(k)' = AttachedEnds(k)
  BY DEF AttachedEnds, Attached, Same
<1> QED BY <1>1, <1>2 DEF FifoStep

\* A step of one queue, or of none, is a step of each FIFO, or of none.
LEMMA QueueSteps ==
  ASSUME QueueTypeOK, QueueInv, ~Overlap, ~Restart,
         (\E k \in Queues : QueueStep(k)) \/ UNCHANGED queueVars
  PROVE  QueueTypeOK' /\ QueueInv' /\ \A j \in Queues : FifoStep(j)
<1>1. ASSUME NEW k \in Queues, QueueStep(k)
      PROVE  QueueTypeOK' /\ \A j \in Queues : QInv(j)' /\ FifoStep(j)
  <2>1. OnQueue(k) /\ QInv(k)' /\ FifoStep(k)
    BY <1>1, QueueStepIsFifo DEF QueueInv, QInv
  <2>2. ASSUME NEW j \in Queues, j # k PROVE QInv(j)' /\ FifoStep(j)
    BY <2>1, <2>2, SameIsFifo DEF QueueInv, QInv, OnQueue
  <2> QED BY <2>1, <2>2 DEF OnQueue
<1>2. ASSUME UNCHANGED queueVars
      PROVE  QueueTypeOK' /\ \A j \in Queues : QInv(j)' /\ FifoStep(j)
  <2>1. QueueTypeOK'
    BY <1>2 DEF QueueTypeOK, queueVars
  <2>2. ASSUME NEW j \in Queues PROVE Same(j)
    BY <1>2 DEF Same, queueVars
  <2> QED BY <2>1, <2>2, SameIsFifo DEF QueueInv, QInv
<1> QED BY <1>1, <1>2 DEF QueueInv, QInv

-----------------------------------------------------------------------------
(* Messages under way.                                                      *)

\* A producer that is not attached and has not left finds nothing.
LEMMA NothingPushed ==
  ASSUME QueueTypeOK, NEW k \in Queues, QInv(k), ~Attached(k, "prod"),
         "prod" \notin left[k]
  PROVE  Contents(k) = <<>>
<1>1. CASE ~Live(k)
  BY <1>1, NotLive
<1>2. CASE Live(k)
  <2>1. PICK n \in 0 .. Capacity : Ring(k, n)
    BY <1>2 DEF QInv, RingInv
  <2>2. n = 0
    BY <2>1 DEF Ring
  <2>3. Contents(k) = SeqOf(Shared(k), Base(k), 0)
    BY <1>2, <2>1, <2>2, ContentsRing DEF QInv
  <2> QED BY <2>3 DEF SeqOf
<1> QED BY <1>1, <1>2

\* A queue that is not stepped.
LEMMA OtherQueue ==
  ASSUME QueueTypeOK, QueueInv, NEW k \in Queues, OnQueue(k), NEW j \in Queues, j # k
  PROVE  Holding(j) /\ EndSame(j, "prod") /\ EndSame(j, "cons")
BY SameKeeps, EndsAre DEF OnQueue, QueueInv, QInv

LEMMA NoQueue ==
  ASSUME QueueTypeOK, QueueInv, UNCHANGED queueVars, NEW j \in Queues
  PROVE  Holding(j) /\ EndSame(j, "prod") /\ EndSame(j, "cons")
<1>1. Same(j) /\ QueueTypeOK'
  BY DEF Same, queueVars, QueueTypeOK
<1> QED BY <1>1, SameKeeps, EndsAre DEF QueueInv, QInv

LEMMA SeenAppend ==
  ASSUME NEW M, NEW s \in Seq(M), NEW m, NEW r, NEW v, NEW g, Seen(s, r, v, g)
  PROVE  Seen(Append(s, m), r, IF Sets1(m, r) THEN m.value ELSE v, g)
<1> DEFINE n == Len(s)
           q == Append(s, m)
<1>1. n \in Nat /\ Len(q) = n + 1 /\ q[n + 1] = m /\ \A i \in 1 .. n : q[i] = s[i]
  OBVIOUS
<1> HIDE DEF q, n
<1>2. CASE Sets1(m, r)
  <2>1. n + 1 \in 1 .. Len(q) /\ \A j \in (n + 1) + 1 .. Len(q) : ~Sets1(q[j], r)
    BY <1>1
  <2> QED BY <1>1, <1>2, <2>1 DEF Seen, q
<1>3. CASE ~Sets1(m, r)
  <2>1. ASSUME NEW i \in 1 .. n, Sets1(s[i], r), v = s[i].value,
               \A j \in i + 1 .. n : ~Sets1(s[j], r)
        PROVE  Seen(q, r, v, g)
    <3>1. i \in 1 .. Len(q) /\ Sets1(q[i], r) /\ v = q[i].value
      BY <1>1, <2>1
    <3>2. ASSUME NEW j \in i + 1 .. Len(q) PROVE ~Sets1(q[j], r)
      <4>1. CASE j = n + 1
        BY <1>1, <1>3, <4>1
      <4>2. CASE j # n + 1
        <5>1. j \in i + 1 .. n /\ j \in 1 .. n
          BY <1>1, <4>2
        <5> QED BY <1>1, <2>1, <5>1
      <4> QED BY <4>1, <4>2
    <3> QED BY <3>1, <3>2 DEF Seen
  <2>2. ASSUME v = g, \A j \in 1 .. n : ~Sets1(s[j], r)
        PROVE  Seen(q, r, v, g)
    <3>1. ASSUME NEW j \in 1 .. Len(q) PROVE ~Sets1(q[j], r)
      <4>1. CASE j = n + 1
        BY <1>1, <1>3, <4>1
      <4>2. CASE j # n + 1
        <5>1. j \in 1 .. n
          BY <1>1, <4>2
        <5> QED BY <1>1, <2>2, <5>1
      <4> QED BY <4>1, <4>2
    <3> QED BY <2>2, <3>1 DEF Seen
  <2>3. Seen(q, r, v, g)
    BY <2>1, <2>2 DEF Seen, n
  <2> QED BY <1>3, <2>3 DEF q
<1> QED BY <1>2, <1>3

LEMMA TailFacts ==
  ASSUME NEW M, NEW s \in Seq(M), s # <<>>
  PROVE  /\ Len(s) \in Nat /\ Len(s) >= 1 /\ Len(Tail(s)) = Len(s) - 1 /\ Head(s) = s[1]
         /\ \A i \in 1 .. Len(s) - 1 : Tail(s)[i] = s[i + 1]
         /\ Len(s) = 1 => Tail(s) = <<>>
<1>1. Len(s) \in Nat /\ Len(s) >= 1 /\ Head(s) = s[1]
  BY LenProperties, EmptySeq
<1>2. Tail(s) \in Seq(M) /\ Len(Tail(s)) = Len(s) - 1
      /\ \A i \in 1 .. Len(Tail(s)) : Tail(s)[i] = s[i + 1]
  BY HeadTailProperties
<1>3. Len(s) = 1 => Tail(s) = <<>>
  <2>1. \A t \in Seq(M) : Len(t) = 0 => t = <<>>
    BY EmptySeq
  <2>2. Len(s) = 1 => Len(Tail(s)) = 0
    BY <1>1, <1>2
  <2> QED BY <1>2, <2>1, <2>2
<1> QED BY <1>1, <1>2, <1>3

LEMMA SeenTail ==
  ASSUME NEW M, NEW s \in Seq(M), s # <<>>, NEW r, NEW v, NEW g, Seen(s, r, v, g)
  PROVE  Seen(Tail(s), r, v, IF Sets1(Head(s), r) THEN Head(s).value ELSE g)
<1> DEFINE n == Len(s)
           q == Tail(s)
           x == IF Sets1(Head(s), r) THEN Head(s).value ELSE g
<1>1. n \in Nat /\ n >= 1 /\ Len(q) = n - 1 /\ Head(s) = s[1]
      /\ \A i \in 1 .. n - 1 : q[i] = s[i + 1]
  BY TailFacts
<1> HIDE DEF q, n
<1>2. ASSUME NEW i \in 1 .. n, Sets1(s[i], r), v = s[i].value,
             \A j \in i + 1 .. n : ~Sets1(s[j], r)
      PROVE  Seen(q, r, v, x)
  <2>1. ASSUME NEW j \in 1 .. n - 1, j >= i PROVE ~Sets1(q[j], r)
    <3>1. j + 1 \in i + 1 .. n
      BY <1>1, <2>1
    <3> QED BY <1>1, <1>2, <3>1
  <2>2. CASE i = 1
    <3>1. v = x
      BY <1>1, <1>2, <2>2
    <3>2. \A j \in 1 .. Len(q) : ~Sets1(q[j], r)
      BY <1>1, <2>1, <2>2
    <3> HIDE DEF x
    <3> QED BY <3>1, <3>2 DEF Seen
  <2>3. CASE i # 1
    <3>1. i - 1 \in 1 .. n - 1 /\ (i - 1) + 1 = i
      BY <1>1, <2>3
    <3>2. q[i - 1] = s[i]
      BY <1>1, <3>1
    <3>3. i - 1 \in 1 .. Len(q) /\ Sets1(q[i - 1], r) /\ v = q[i - 1].value
      BY <1>1, <1>2, <3>1, <3>2
    <3>4. \A j \in (i - 1) + 1 .. Len(q) : ~Sets1(q[j], r)
      BY <1>1, <2>1, <3>1
    <3> HIDE DEF x
    <3> QED BY <3>3, <3>4 DEF Seen
  <2> QED BY <2>2, <2>3
<1>3. ASSUME v = g, \A j \in 1 .. n : ~Sets1(s[j], r)
      PROVE  Seen(q, r, v, x)
  <2>1. v = x
    BY <1>1, <1>3
  <2>2. ASSUME NEW j \in 1 .. Len(q) PROVE ~Sets1(q[j], r)
    <3>1. j \in 1 .. n - 1 /\ j + 1 \in 1 .. n
      BY <1>1
    <3> QED BY <1>1, <1>3, <3>1
  <2> HIDE DEF x
  <2> QED BY <2>1, <2>2 DEF Seen
<1>4. Seen(q, r, v, x)
  <2> HIDE DEF x
  <2> QED BY <1>2, <1>3 DEF Seen, n
<1> QED BY <1>4 DEF q

-----------------------------------------------------------------------------
(* The application and the other process.                                   *)

\* The two queues and what they carry.
LEMMA TwoQueues ==
  /\ Queues = {"to", "from"} /\ "to" \in Queues /\ "from" \in Queues /\ "to" # "from"
  /\ Data = Messages /\ 0 \in Vals
BY BackendAssumption

\* The registers an operation sets or gets.
LEMMA SetsGets ==
  /\ DOMAIN Sets = {"kWrite", "kSetRrStatus"} /\ Sets["kWrite"] = "reg"
  /\ Sets["kSetRrStatus"] = "rr"
  /\ DOMAIN Gets = {"kRead", "kGetRrStatus"} /\ Gets["kRead"] = "reg"
  /\ Gets["kGetRrStatus"] = "rr"
BY DEF Sets, Gets

\* What the operation m leaves in a pair of registers.
LEMMA SetOne ==
  ASSUME NEW f \in [{"reg", "rr"} -> Vals], NEW m \in Messages
  PROVE  LET g == IF m.type \in DOMAIN Sets THEN [f EXCEPT ![Sets[m.type]] = m.value]
                  ELSE f
         IN  /\ g \in [{"reg", "rr"} -> Vals]
             /\ \A r \in {"reg", "rr"} : g[r] = IF Sets1(m, r) THEN m.value ELSE f[r]
<1>1. m.value \in Vals /\ m.type \in Types
  BY DEF Messages
<1>2. CASE m.type \in DOMAIN Sets
  <2>1. Sets[m.type] \in {"reg", "rr"}
    BY <1>2, SetsGets
  <2> QED BY <1>1, <1>2, <2>1 DEF Sets1
<1>3. CASE m.type \notin DOMAIN Sets
  BY <1>3 DEF Sets1
<1> QED BY <1>2, <1>3

\* The calls the application makes.
AppCall ==
  \/ mmio_read32 \/ ConvertVirtAddrToDevAddr \/ GetNbFallbackQueues \/ GetRrStatus
  \/ AllocateNotifBuf \/ FreeNotifBuf \/ AllocatePipe \/ FreePipe
  \/ \E v \in Vals : mmio_write32(v) \/ SetRrStatus(v)

LEMMA CallFacts ==
  ASSUME AppCall
  PROVE  /\ app = "idle" /\ app' = "push" /\ req' \in Messages
         /\ UNCHANGED <<queueVars, view, srvVars>>
<1>1. \E t \in Types : \E v \in Vals : Call(t, v)
  <2>1. ASSUME NEW v \in Vals, mmio_write32(v) \/ SetRrStatus(v)
        PROVE  \E t \in Types : Call(t, v)
    BY <2>1 DEF mmio_write32, SetRrStatus, Types
  <2>2. ASSUME ~\E v \in Vals : mmio_write32(v) \/ SetRrStatus(v)
        PROVE  \E t \in Types : Call(t, 0)
    BY <2>2 DEF AppCall, mmio_read32, ConvertVirtAddrToDevAddr, GetNbFallbackQueues,
                GetRrStatus, AllocateNotifBuf, FreeNotifBuf, AllocatePipe, FreePipe, Types
  <2> QED BY <2>1, <2>2, TwoQueues
<1>2. PICK t \in Types, v \in Vals : Call(t, v)
  BY <1>1
<1> QED BY <1>2 DEF Call, Messages

\* The steps that leave the queues alone.
Silent ==
  AppReady \/ AppFails \/ AppExit \/ AppDown \/ AppCall \/ SrvReady \/ SrvFails \/ SrvExit
  \/ SrvDown

LEMMA NextSplit ==
  ASSUME Next
  PROVE  \/ Silent \/ AppStart \/ AppCreates \/ AppJoinsFrom \/ AppCloses \/ AppPush
         \/ AppPopRead \/ AppPop \/ AppReturn \/ SrvStart \/ SrvCreates \/ SrvJoinsFrom
         \/ SrvPopRead \/ SrvPop \/ SrvReply \/ SrvServed \/ SrvCloses
BY DEF Next, AppInCall, SrvStep, Silent, AppCall

LEMMA SilentQueues == ASSUME Silent PROVE UNCHANGED queueVars
BY CallFacts DEF Silent, AppReady, AppFails, AppExit, AppDown, SrvReady, SrvFails, SrvExit,
                 SrvDown

\* The answer is of the types answers have.
LEMMA ReplyFacts ==
  ASSUME IInv, SrvReply
  PROVE  LET t == out["to"].type
             m == [type |-> t, value |-> IF t \in DOMAIN Gets THEN regs[Gets[t]] ELSE 0]
         IN  /\ app = "wait" /\ Served /\ out["to"] = req /\ req \in Messages
             /\ m \in Data /\ Push("from", m) /\ srv' = "done"
             /\ UNCHANGED <<appVars, regs>>
<1>1. srv = "reply" /\ srv' = "done" /\ UNCHANGED <<appVars, regs>>
  BY DEF SrvReply
<1>2. app = "wait" /\ Served
  BY <1>1 DEF IInv, AnswerInv, Requested, Replied
<1>3. out["to"] = req /\ req \in Messages
  BY <1>2 DEF Served, IInv, BackendTypeOK
<1> DEFINE t == out["to"].type
           m == [type |-> t, value |-> IF t \in DOMAIN Gets THEN regs[Gets[t]] ELSE 0]
<1>4. t \in Types
  BY <1>3 DEF Messages
<1>5. m.value \in Vals
  BY SetsGets, TwoQueues DEF IInv, BackendTypeOK
<1>6. m \in Data
  BY <1>4, <1>5, TwoQueues DEF Messages
<1> QED BY <1>1, <1>2, <1>3, <1>6 DEF SrvReply

\* Every step is one of a queue, or leaves the queues alone.
LEMMA NextQueue ==
  ASSUME IInv, Next
  PROVE  (\E k \in Queues : QueueStep(k)) \/ UNCHANGED queueVars
<1> USE TwoQueues, EndsAre
<1>1. CASE Silent
  BY <1>1, SilentQueues
<1>2. CASE AppStart \/ AppCreates \/ AppJoinsFrom \/ AppCloses
  BY <1>2 DEF AppStart, AppCreates, AppJoinsFrom, AppCloses, QueueStep
<1>3. CASE AppPush
  <2>1. req \in Data /\ Push("to", req)
    BY <1>3 DEF AppPush, IInv, BackendTypeOK
  <2> QED BY <2>1 DEF QueueStep
<1>4. CASE AppPopRead \/ AppPop \/ AppReturn
  BY <1>4 DEF AppPopRead, AppPop, AppReturn, QueueStep
<1>5. CASE SrvStart \/ SrvCreates \/ SrvJoinsFrom \/ SrvCloses
  BY <1>5 DEF SrvStart, SrvCreates, SrvJoinsFrom, SrvCloses, QueueStep
<1>6. CASE SrvReply
  <2>1. \E m \in Data : Push("from", m)
    BY <1>6, ReplyFacts
  <2> QED BY <2>1 DEF QueueStep
<1>7. CASE SrvPopRead \/ SrvPop \/ SrvServed
  BY <1>7 DEF SrvPopRead, SrvPop, SrvServed, QueueStep
<1> QED BY <1>1, <1>2, <1>3, <1>4, <1>5, <1>6, <1>7, NextSplit

\* What the other process does with a message.
LEMMA SrvPopFacts ==
  ASSUME IInv, SrvPop
  PROVE  /\ srv = "serve" /\ PopClear("to") /\ UNCHANGED appVars
         /\ held["to"] \in Messages /\ held["to"] = Head(Contents("to"))
         /\ Contents("to") # <<>>
         /\ srv' = IF held["to"].type # "kWrite" THEN "reply" ELSE "done"
         /\ regs' \in [{"reg", "rr"} -> Vals]
         /\ \A r \in {"reg", "rr"} :
              regs'[r] = IF Sets1(held["to"], r) THEN held["to"].value ELSE regs[r]
<1> DEFINE m == held["to"]
<1>1. /\ srv = "serve" /\ PopClear("to") /\ UNCHANGED appVars
      /\ regs' = IF m.type \in DOMAIN Sets THEN [regs EXCEPT ![Sets[m.type]] = m.value]
                 ELSE regs
      /\ srv' = IF m.type # "kWrite" THEN "reply" ELSE "done"
  BY DEF SrvPop, Answered
<1>2. pc["to"]["cons"] = "pop"
  BY <1>1 DEF PopClear
<1>3. m \in Messages /\ m = Head(Contents("to")) /\ Contents("to") # <<>>
  BY <1>2, HeldIsHead, TwoQueues DEF IInv, BackendTypeOK, QueueInv, QInv
<1>4. regs \in [{"reg", "rr"} -> Vals]
  BY DEF IInv, BackendTypeOK
<1> HIDE DEF m
<1>5. regs' \in [{"reg", "rr"} -> Vals]
      /\ \A r \in {"reg", "rr"} : regs'[r] = IF Sets1(m, r) THEN m.value ELSE regs[r]
  BY <1>1, <1>3, <1>4, SetOne
<1> QED BY <1>1, <1>3, <1>5 DEF m

\* What the application does with its request.
LEMMA AppPushFacts ==
  ASSUME IInv, AppPush
  PROVE  /\ app = "push" /\ Push("to", req) /\ req \in Data /\ UNCHANGED srvVars
         /\ app' = IF req.type # "kWrite" THEN "wait" ELSE "idle"
         /\ req' = IF req.type # "kWrite" THEN req ELSE NoMsg
         /\ view' \in [{"reg", "rr"} -> Vals]
         /\ \A r \in {"reg", "rr"} :
              view'[r] = IF Sets1(req, r) THEN req.value ELSE view[r]
<1>1. req \in Messages /\ view \in [{"reg", "rr"} -> Vals]
  BY DEF IInv, BackendTypeOK
<1>2. view' = IF req.type \in DOMAIN Sets THEN [view EXCEPT ![Sets[req.type]] = req.value]
              ELSE view
  BY DEF AppPush
<1>3. view' \in [{"reg", "rr"} -> Vals]
      /\ \A r \in {"reg", "rr"} : view'[r] = IF Sets1(req, r) THEN req.value ELSE view[r]
  BY <1>1, <1>2, SetOne
<1> QED BY <1>1, <1>3, TwoQueues DEF AppPush, Waits

\* The types of the application and of the other process.
BackendTypes ==
  /\ app \in {"down", "to", "from", "failed", "idle", "push", "wait", "return",
              "exit"}
  /\ srv \in {"down", "to", "from", "failed", "serve", "reply", "done", "exit"}
  /\ req \in Messages
  /\ regs \in [{"reg", "rr"} -> Vals] /\ view \in [{"reg", "rr"} -> Vals]

LEMMA NextTypes ==
  ASSUME IInv, Next
  PROVE  BackendTypes'
<1> USE TwoQueues DEF appVars, srvVars
<1>0. BackendTypes
  BY DEF IInv, BackendTypeOK, BackendTypes
<1>9. NoMsg \in Messages
  BY DEF NoMsg, Messages, Types
<1>1. CASE AppCall
  BY <1>0, <1>1, CallFacts DEF BackendTypes
<1>2. CASE AppReady \/ AppFails \/ AppExit \/ AppDown
  BY <1>0, <1>2 DEF AppReady, AppFails, AppExit, AppDown, BackendTypes
<1>3. CASE SrvReady \/ SrvFails \/ SrvExit \/ SrvDown
  BY <1>0, <1>3 DEF SrvReady, SrvFails, SrvExit, SrvDown, BackendTypes
<1>4. CASE AppStart \/ AppCreates \/ AppJoinsFrom \/ AppCloses \/ AppPopRead \/ AppPop
  BY <1>0, <1>4 DEF AppStart, AppCreates, AppJoinsFrom, AppCloses, AppPopRead, AppPop,
                    BackendTypes
<1>5. CASE AppReturn
  BY <1>0, <1>5, <1>9 DEF AppReturn, BackendTypes
<1>6. CASE AppPush
  BY <1>0, <1>6, <1>9, AppPushFacts DEF BackendTypes
<1>7. CASE SrvPop
  BY <1>0, <1>7, SrvPopFacts DEF BackendTypes
<1>8. CASE SrvStart \/ SrvCreates \/ SrvJoinsFrom \/ SrvPopRead \/ SrvReply \/ SrvServed
           \/ SrvCloses
  BY <1>0, <1>8 DEF SrvStart, SrvCreates, SrvJoinsFrom, SrvPopRead, SrvReply, SrvServed,
                    SrvCloses, BackendTypes
<1> QED BY <1>1, <1>2, <1>3, <1>4, <1>5, <1>6, <1>7, <1>8, NextSplit DEF Silent

-----------------------------------------------------------------------------
(* The answer belongs to the request.                                       *)

\* The application stays where it is in its operation and the queues hold what
\* they held.
LEMMA AnswerKept ==
  ASSUME AnswerInv, Holding("to"), Holding("from"), UNCHANGED <<app, req, view, regs>>,
         srv' = srv \/ (srv # "reply" /\ srv' # "reply"),
         app = "down" => pc'["to"]["prod"] = "closed" /\ pc'["from"]["cons"] = "closed",
         app = "to" => pc'["from"]["cons"] = "closed",
         app = "from" => pc'["to"]["prod"] = "open",
         Serving => pc'["to"]["prod"] = "open" /\ Attached("from", "cons")'
  PROVE  AnswerInv'
<1>1. /\ Contents("to")' = Contents("to") /\ Contents("from")' = Contents("from")
      /\ out'["to"] = out["to"] /\ out'["from"] = out["from"] /\ Serving' = Serving
  BY DEF Holding, Serving
<1>2. app = "wait" => (Requested \/ Served \/ Replied)'
  BY <1>1 DEF AnswerInv, Requested, Served, Replied, Answers
<1>3. app = "return" => Answers(out["from"])'
  BY <1>1 DEF AnswerInv, Answers
<1>4. app # "wait" => Writes(Contents("to"))' /\ srv' # "reply"
  BY <1>1 DEF AnswerInv, Writes
<1>5. Serving => \A r \in {"reg", "rr"} : Seen(Contents("to"), r, view[r], regs[r])'
  BY <1>1 DEF AnswerInv, Seen
<1> QED BY <1>1, <1>2, <1>3, <1>4, <1>5 DEF AnswerInv

\* Creating an end, reading an element and the other process's own steps.
LEMMA QuietSteps ==
  ASSUME IInv, ~Overlap, ~Restart,
         \/ AppCreates \/ AppPopRead \/ SrvStart \/ SrvCreates \/ SrvJoinsFrom \/ SrvPopRead
         \/ SrvReady \/ SrvFails \/ SrvDown
  PROVE  AnswerInv'
<1> USE TwoQueues, EndsAre DEF appVars, srvVars
<1>0. QueueTypeOK /\ AnswerInv /\ QueueInv /\ QInv("to") /\ QInv("from")
  BY DEF IInv, BackendTypeOK, QueueInv, QInv
<1>1. ASSUME NEW k \in Queues, OnQueue(k), Holding(k)
      PROVE  Holding("to") /\ Holding("from")
             /\ \A j \in Queues \ {k} : EndSame(j, "prod") /\ EndSame(j, "cons")
  BY <1>0, <1>1, OtherQueue
<1>2. CASE AppCreates
  <2>1. CASE app = "to" /\ InitStep("to", "prod")
    <3>1. OnQueue("to") /\ Holding("to") /\ UNCHANGED <<app, req, view, srv, regs>>
      BY <1>0, <1>2, <2>1, InitStepKeeps DEF AppCreates
    <3>2. Holding("from") /\ EndSame("from", "cons")
      BY <1>1, <3>1
    <3> QED BY <1>0, <2>1, <3>1, <3>2, AnswerKept DEF AnswerInv, EndSame, Serving
  <2>2. CASE app = "from" /\ InitStep("from", "cons")
    <3>1. OnQueue("from") /\ Holding("from") /\ UNCHANGED <<app, req, view, srv, regs>>
      BY <1>0, <1>2, <2>2, InitStepKeeps DEF AppCreates
    <3>2. Holding("to") /\ EndSame("to", "prod")
      BY <1>1, <3>1
    <3> QED BY <1>0, <2>2, <3>1, <3>2, AnswerKept DEF AnswerInv, EndSame, Serving
  <2> QED BY <1>2, <2>1, <2>2 DEF AppCreates
<1>3. CASE AppPopRead
  <2>1. /\ OnQueue("from") /\ Holding("from") /\ Attached("from", "cons")
        /\ pc'["from"]["cons"] = "pop" /\ app = "wait"
        /\ UNCHANGED <<app, req, view, srv, regs>>
    BY <1>0, <1>3, PopReadKeeps DEF AppPopRead
  <2>2. Holding("to") /\ EndSame("to", "prod")
    BY <1>1, <2>1
  <2>3. Attached("from", "cons")'
    BY <2>1 DEF Attached
  <2> QED BY <1>0, <2>1, <2>2, <2>3, AnswerKept DEF AnswerInv, EndSame, Serving
<1>4. CASE SrvStart \/ SrvPopRead \/ (SrvCreates /\ srv = "to")
  <2>1. /\ OnQueue("to") /\ Holding("to") /\ EndSame("to", "prod")
        /\ UNCHANGED <<app, req, view, regs>>
        /\ srv # "reply" /\ srv' # "reply"
    <3>1. CASE SrvStart
      BY <1>0, <3>1, ScanKeeps DEF SrvStart
    <3>2. CASE SrvPopRead
      BY <1>0, <3>2, PopReadKeeps DEF SrvPopRead
    <3>3. CASE SrvCreates /\ srv = "to"
      BY <1>0, <3>3, InitStepKeeps DEF SrvCreates
    <3> QED BY <1>4, <3>1, <3>2, <3>3
  <2>2. Holding("from") /\ EndSame("from", "cons")
    BY <1>1, <2>1
  <2> QED BY <1>0, <2>1, <2>2, AnswerKept DEF AnswerInv, EndSame, Attached
<1>5. CASE SrvJoinsFrom \/ (SrvCreates /\ srv = "from")
  <2>1. /\ OnQueue("from") /\ Holding("from") /\ EndSame("from", "cons")
        /\ UNCHANGED <<app, req, view, regs>>
        /\ srv # "reply" /\ srv' # "reply"
    <3>1. CASE SrvJoinsFrom
      BY <1>0, <3>1, ScanKeeps DEF SrvJoinsFrom
    <3>2. CASE SrvCreates /\ srv = "from"
      BY <1>0, <3>2, InitStepKeeps DEF SrvCreates
    <3> QED BY <1>5, <3>1, <3>2
  <2>2. Holding("to") /\ EndSame("to", "prod")
    BY <1>1, <2>1
  <2> QED BY <1>0, <2>1, <2>2, AnswerKept DEF AnswerInv, EndSame, Attached
<1>6. CASE SrvReady \/ SrvFails \/ SrvDown
  <2>1. /\ UNCHANGED queueVars /\ UNCHANGED <<app, req, view, regs>>
        /\ srv # "reply" /\ srv' # "reply"
    BY <1>6 DEF SrvReady, SrvFails, SrvDown
  <2>2. Holding("to") /\ Holding("from") /\ EndSame("to", "prod") /\ EndSame("from", "cons")
    BY <1>0, <2>1, NoQueue
  <2> QED BY <1>0, <2>1, <2>2, AnswerKept DEF AnswerInv, EndSame, Attached
<1> QED BY <1>2, <1>3, <1>4, <1>5, <1>6 DEF SrvCreates

\* The application outside an operation.
LEMMA OutsideSteps ==
  ASSUME IInv, ~Overlap, ~Restart,
         AppStart \/ AppJoinsFrom \/ AppReady \/ AppFails \/ AppExit \/ AppDown \/ AppCall
         \/ SrvExit
  PROVE  AnswerInv'
<1> USE TwoQueues, EndsAre DEF appVars, srvVars
<1>0. QueueTypeOK /\ AnswerInv /\ QueueInv /\ QInv("to") /\ QInv("from")
  BY DEF IInv, BackendTypeOK, QueueInv, QInv
<1>1. CASE AppStart
  <2>1. /\ OnQueue("to") /\ Holding("to") /\ app = "down" /\ app' = "to"
        /\ ~Attached("to", "prod") /\ "prod" \notin left["to"]
        /\ UNCHANGED <<req, view, srv, regs>>
    BY <1>0, <1>1, ScanKeeps, ScanFacts DEF AppStart
  <2>2. Holding("from") /\ EndSame("from", "cons")
    BY <1>0, <2>1, OtherQueue
  <2>3. Contents("to") = <<>>
    BY <1>0, <2>1, NothingPushed
  <2> QED BY <1>0, <2>1, <2>2, <2>3 DEF AnswerInv, EndSame, Holding, Serving, Writes
<1>2. CASE AppJoinsFrom
  <2>1. /\ OnQueue("from") /\ Holding("from") /\ app = "to" /\ app' = "from"
        /\ pc["to"]["prod"] = "open" /\ UNCHANGED <<req, view, srv, regs>>
    BY <1>0, <1>2, ScanKeeps DEF AppJoinsFrom
  <2>2. Holding("to") /\ EndSame("to", "prod")
    BY <1>0, <2>1, OtherQueue
  <2> QED BY <1>0, <2>1, <2>2 DEF AnswerInv, EndSame, Holding, Serving, Writes
<1>3. CASE AppReady \/ AppFails \/ AppExit \/ AppDown \/ AppCall \/ SrvExit
  <2>1. UNCHANGED queueVars
    BY <1>3, SilentQueues DEF Silent
  <2>2. /\ Contents("to")' = Contents("to") /\ Contents("from")' = Contents("from")
        /\ pc'["to"]["prod"] = pc["to"]["prod"] /\ pc'["from"]["cons"] = pc["from"]["cons"]
        /\ Attached("from", "cons")' = Attached("from", "cons")
    BY <1>0, <2>1, NoQueue DEF Holding, EndSame, Attached
  <2>3. CASE AppReady
    <3>1. app = "from" /\ app' = "idle" /\ view' = regs /\ UNCHANGED <<req, srv, regs>>
          /\ pc["from"]["cons"] = "open" /\ pc["to"]["prod"] = "open"
          /\ Contents("to") = <<>>
      BY <1>0, <2>3 DEF AppReady, AnswerInv
    <3>2. \A r \in {"reg", "rr"} : Seen(Contents("to"), r, view[r], regs[r])'
      BY <2>2, <3>1 DEF Seen
    <3>3. Attached("from", "cons")'
      BY <2>2, <3>1 DEF Attached
    <3> QED BY <1>0, <2>2, <3>1, <3>2, <3>3 DEF AnswerInv, Writes
  <2>4. CASE AppFails \/ AppExit \/ AppDown
    <3>1. /\ app # "wait" /\ app' \in {"failed", "exit", "down"}
          /\ UNCHANGED <<req, view, srv, regs>>
          /\ app' = "down" => pc["to"]["prod"] = "closed" /\ pc["from"]["cons"] = "closed"
      BY <2>4 DEF AppFails, AppExit, AppDown
    <3> QED BY <1>0, <2>2, <3>1 DEF AnswerInv, Serving, Writes
  <2>5. CASE AppCall
    <3>1. app = "idle" /\ app' = "push" /\ UNCHANGED <<view, srv, regs>>
      BY <2>5, CallFacts
    <3>2. \A r \in {"reg", "rr"} : Seen(Contents("to"), r, view[r], regs[r])'
      BY <1>0, <2>2, <3>1 DEF AnswerInv, Serving, Seen
    <3> QED BY <1>0, <2>2, <3>1, <3>2 DEF AnswerInv, Serving, Writes
  <2>6. CASE SrvExit
    <3>1. app = "down" /\ UNCHANGED <<app, req, view>> /\ srv' = "exit"
      BY <2>6 DEF SrvExit
    <3> QED BY <1>0, <2>2, <3>1 DEF AnswerInv, Serving, Writes
  <2> QED BY <1>3, <2>3, <2>4, <2>5, <2>6
<1> QED BY <1>1, <1>2, <1>3

\* Leaving: what is under way stays as long as the other end does.
LEMMA ClosingSteps ==
  ASSUME IInv, ~Overlap, ~Restart, AppCloses \/ SrvCloses
  PROVE  AnswerInv'
<1> USE TwoQueues, EndsAre DEF appVars, srvVars
<1>0. QueueTypeOK /\ AnswerInv /\ QueueInv /\ QInv("to") /\ QInv("from")
  BY DEF IInv, BackendTypeOK, QueueInv, QInv
<1>9. Writes(<<>>)
  BY DEF Writes
<1>1. CASE AppCloses
  <2>1. app = "exit" /\ UNCHANGED <<app, req, view, srv, regs>>
        /\ (Close("from", "cons") \/ Close("to", "prod"))
    BY <1>1 DEF AppCloses
  <2>2. /\ Contents("to")' \in {Contents("to"), <<>>}
        /\ Contents("from")' \in {Contents("from"), <<>>}
    <3>1. CASE Close("from", "cons")
      <4>1. OnQueue("from") /\ Contents("from")' \in {Contents("from"), <<>>}
        BY <1>0, <3>1, CloseKeeps
      <4> QED BY <1>0, <4>1, OtherQueue DEF Holding
    <3>2. CASE Close("to", "prod")
      <4>1. OnQueue("to") /\ Contents("to")' \in {Contents("to"), <<>>}
        BY <1>0, <3>2, CloseKeeps
      <4> QED BY <1>0, <4>1, OtherQueue DEF Holding
    <3> QED BY <2>1, <3>1, <3>2
  <2>3. Writes(Contents("to"))' /\ Contents("from")' = <<>> /\ srv # "reply"
    BY <1>0, <1>9, <2>1, <2>2 DEF AnswerInv, Writes
  <2> QED BY <2>1, <2>3 DEF AnswerInv, Serving
<1>2. CASE SrvCloses
  <2>1. srv = "exit" /\ UNCHANGED <<app, req, view, srv, regs>>
        /\ (Close("to", "cons") \/ Close("from", "prod"))
    BY <1>2 DEF SrvCloses
  <2>2. /\ Contents("to")' = IF Attached("to", "prod") THEN Contents("to") ELSE Contents("to")'
        /\ Contents("to")' \in {Contents("to"), <<>>}
        /\ Contents("from")' = IF Attached("from", "cons") THEN Contents("from")
                               ELSE Contents("from")'
        /\ Contents("from")' \in {Contents("from"), <<>>}
        /\ out'["to"] = out["to"] /\ out'["from"] = out["from"]
        /\ EndSame("to", "prod") /\ EndSame("from", "cons")
    <3>1. CASE Close("to", "cons")
      <4>1. /\ OnQueue("to") /\ EndSame("to", "prod") /\ out'["to"] = out["to"]
            /\ Contents("to")' = IF Attached("to", "prod") THEN Contents("to") ELSE <<>>
        BY <1>0, <3>1, CloseKeeps
      <4>2. Holding("from") /\ EndSame("from", "cons")
        BY <1>0, <4>1, OtherQueue
      <4> QED BY <4>1, <4>2 DEF Holding
    <3>2. CASE Close("from", "prod")
      <4>1. /\ OnQueue("from") /\ EndSame("from", "cons") /\ out'["from"] = out["from"]
            /\ Contents("from")' = IF Attached("from", "cons") THEN Contents("from") ELSE <<>>
        BY <1>0, <3>2, CloseKeeps
      <4>2. Holding("to") /\ EndSame("to", "prod")
        BY <1>0, <4>1, OtherQueue
      <4> QED BY <4>1, <4>2 DEF Holding
    <3> QED BY <2>1, <3>1, <3>2
  <2>3. CASE Serving
    <3>1. Attached("to", "prod") /\ Attached("from", "cons")
      BY <1>0, <2>3 DEF AnswerInv, Attached
    <3>2. Holding("to") /\ Holding("from") /\ Attached("from", "cons")'
      BY <2>2, <3>1 DEF Holding, EndSame, Attached
    <3> QED BY <1>0, <2>1, <2>2, <2>3, <3>2, AnswerKept DEF AnswerInv, EndSame, Serving
  <2>4. CASE ~Serving
    <3>1. app \notin {"idle", "push", "wait", "return"} /\ app' = app
      BY <2>1, <2>4 DEF Serving
    <3>2. Writes(Contents("to"))' /\ Contents("from")' = <<>> /\ srv' # "reply"
      BY <1>0, <1>9, <2>1, <2>2, <3>1 DEF AnswerInv, Writes
    <3>3. app \in {"to", "from"} => Contents("to")' = <<>>
      BY <1>0, <2>2 DEF AnswerInv
    <3> QED BY <1>0, <2>1, <2>2, <3>1, <3>2, <3>3 DEF AnswerInv, Serving, EndSame
  <2> QED BY <2>3, <2>4
<1> QED BY <1>1, <1>2

\* The application posts its request behind the writes under way.
LEMMA PushAnswers ==
  ASSUME IInv, AppPush
  PROVE  AnswerInv'
<1> USE TwoQueues, EndsAre DEF appVars, srvVars
<1>0. QueueTypeOK /\ AnswerInv /\ QueueInv /\ QInv("to") /\ QInv("from")
  BY DEF IInv, BackendTypeOK, QueueInv, QInv
<1> DEFINE T == Contents("to")
           M == Data \cup {NoData}
<1>1. /\ app = "push" /\ Push("to", req) /\ req \in Data /\ UNCHANGED <<srv, regs>>
      /\ app' = IF req.type # "kWrite" THEN "wait" ELSE "idle"
      /\ req' = IF req.type # "kWrite" THEN req ELSE NoMsg
      /\ \A r \in {"reg", "rr"} : view'[r] = IF Sets1(req, r) THEN req.value ELSE view[r]
  BY AppPushFacts
<1>2. /\ OnQueue("to") /\ pc'["to"] = pc["to"] /\ T \in Seq(M) /\ T' = Append(T, req)
      /\ out'["to"] = out["to"]
  BY <1>0, <1>1, PushKeeps
<1>3. Holding("from") /\ EndSame("from", "cons")
  BY <1>0, <1>2, OtherQueue
<1>4. /\ pc'["to"]["prod"] = "open" /\ Attached("from", "cons")' /\ Writes(T)
      /\ Contents("from")' = <<>> /\ srv # "reply"
      /\ \A r \in {"reg", "rr"} : Seen(T, r, view[r], regs[r])
  BY <1>0, <1>1, <1>2, <1>3 DEF AnswerInv, Serving, Holding, EndSame, Attached
<1>5. /\ Len(T) \in Nat /\ Len(T') = Len(T) + 1 /\ T'[Len(T) + 1] = req
      /\ \A i \in 1 .. Len(T) : T'[i] = T[i]
  <2>1. \A s \in Seq(M) : Len(s) \in Nat
    BY LenProperties
  <2>2. req \in M
    BY <1>1
  <2>3. \A s \in Seq(M) : /\ Len(Append(s, req)) = Len(s) + 1
                          /\ Append(s, req)[Len(s) + 1] = req
                          /\ \A i \in 1 .. Len(s) : Append(s, req)[i] = s[i]
    BY <2>2, AppendProperties
  <2> QED BY <1>2, <2>1, <2>3
<1>6. \A r \in {"reg", "rr"} : Seen(T, r, view[r], regs[r])'
  <2> TAKE r \in {"reg", "rr"}
  <2>1. Seen(T, r, view[r], regs[r])
    BY <1>4
  <2>2. Seen(Append(T, req), r, IF Sets1(req, r) THEN req.value ELSE view[r], regs[r])
    BY <1>2, <2>1, SeenAppend
  <2>3. view'[r] = (IF Sets1(req, r) THEN req.value ELSE view[r]) /\ regs'[r] = regs[r]
    BY <1>1
  <2>4. Seen(T', r, view'[r], regs'[r])
    BY <1>2, <2>2, <2>3
  <2> QED BY <2>4 DEF Seen
<1> HIDE DEF T, M
<1>7. CASE req.type = "kWrite"
  <2>1. app' = "idle"
    BY <1>1, <1>7
  <2>2. \A i \in 1 .. Len(T') : T'[i].type = "kWrite"
    <3> TAKE i \in 1 .. Len(T')
    <3>1. CASE i = Len(T) + 1
      BY <1>5, <1>7, <3>1
    <3>2. CASE i # Len(T) + 1
      <4>1. i \in 1 .. Len(T)
        BY <1>5, <3>2
      <4> QED BY <1>4, <1>5, <4>1 DEF Writes
    <3> QED BY <3>1, <3>2
  <2>3. Writes(T)'
    BY <2>2 DEF Writes
  <2> QED BY <1>1, <1>4, <1>6, <2>1, <2>3 DEF AnswerInv, Serving, T
<1>8. CASE req.type # "kWrite"
  <2>1. app' = "wait" /\ req' = req
    BY <1>1, <1>8
  <2>2. Requested'
    <3>1. T' # <<>>
      <4>1. Len(T') # 0
        BY <1>5
      <4>2. Len(<<>>) = 0
        BY EmptySeq
      <4> QED BY <4>1, <4>2
    <3>2. \A i \in 1 .. Len(T') : IF i = Len(T') THEN T'[i] = req'
                                  ELSE T'[i].type = "kWrite"
      <4> TAKE i \in 1 .. Len(T')
      <4>1. CASE i = Len(T) + 1
        BY <1>5, <2>1, <4>1
      <4>2. CASE i # Len(T) + 1
        <5>1. i \in 1 .. Len(T) /\ i # Len(T')
          BY <1>5, <4>2
        <5> QED BY <1>4, <1>5, <5>1 DEF Writes
      <4> QED BY <4>1, <4>2
    <3> QED BY <1>1, <1>4, <3>1, <3>2 DEF Requested, T
  <2> QED BY <1>1, <1>4, <1>6, <1>8, <2>1, <2>2 DEF AnswerInv, Serving, T
<1> QED BY <1>7, <1>8

\* It takes the answer and returns.
LEMMA TakeAnswers ==
  ASSUME IInv, AppPop \/ AppReturn
  PROVE  AnswerInv'
<1> USE TwoQueues, EndsAre DEF appVars, srvVars
<1>0. QueueTypeOK /\ AnswerInv /\ QueueInv /\ QInv("to") /\ QInv("from")
  BY DEF IInv, BackendTypeOK, QueueInv, QInv
<1>1. CASE AppPop
  <2>1. /\ app = "wait" /\ app' = "return" /\ PopClear("from")
        /\ UNCHANGED <<req, view, srv, regs>>
    BY <1>1 DEF AppPop
  <2>2. /\ OnQueue("from") /\ pc'["from"]["cons"] = "open" /\ Contents("from") # <<>>
        /\ out'["from"] = Head(Contents("from"))
        /\ Contents("from")' = Tail(Contents("from"))
    BY <1>0, <2>1, PopClearKeeps
  <2>3. Holding("to") /\ EndSame("to", "prod")
    BY <1>0, <2>2, OtherQueue
  <2>4. Replied
    BY <1>0, <2>1, <2>2 DEF AnswerInv, Requested, Served
  <2>5. Contents("from") \in Seq(Data \cup {NoData})
    BY <1>0, ContentsType
  <2>6. Contents("from")' = <<>> /\ out'["from"] = Contents("from")[1]
    BY <2>2, <2>4, <2>5, TailFacts DEF Replied
  <2>7. Contents("to")' = <<>> /\ srv' # "reply"
    BY <2>1, <2>3, <2>4 DEF Replied, Holding
  <2>8. Answers(out["from"])'
    BY <2>1, <2>4, <2>6 DEF Replied, Answers
  <2>9. \A r \in {"reg", "rr"} : Seen(Contents("to"), r, view[r], regs[r])'
    BY <1>0, <2>1, <2>3 DEF AnswerInv, Serving, Seen, Holding
  <2>10. Writes(Contents("to"))'
    BY <2>7 DEF Writes
  <2>11. pc'["to"]["prod"] = "open" /\ Attached("from", "cons")'
    BY <1>0, <2>1, <2>2, <2>3 DEF AnswerInv, Serving, EndSame, Attached
  <2> QED BY <2>1, <2>6, <2>7, <2>8, <2>9, <2>10, <2>11 DEF AnswerInv, Serving
<1>2. CASE AppReturn
  <2>1. app = "return" /\ app' = "idle" /\ Forget("from") /\ UNCHANGED <<view, srv, regs>>
    BY <1>2 DEF AppReturn
  <2>2. OnQueue("from") /\ pc'["from"] = pc["from"] /\ Contents("from")' = Contents("from")
    BY <1>0, <2>1, ForgetKeeps
  <2>3. Holding("to") /\ EndSame("to", "prod")
    BY <1>0, <2>2, OtherQueue
  <2>4. \A r \in {"reg", "rr"} : Seen(Contents("to"), r, view[r], regs[r])'
    BY <1>0, <2>1, <2>3 DEF AnswerInv, Serving, Seen, Holding
  <2>5. Writes(Contents("to"))' /\ Contents("from")' = <<>> /\ srv' # "reply"
    BY <1>0, <2>1, <2>2, <2>3 DEF AnswerInv, Writes, Holding
  <2>6. pc'["to"]["prod"] = "open" /\ Attached("from", "cons")'
    BY <1>0, <2>1, <2>2, <2>3 DEF AnswerInv, Serving, EndSame, Attached
  <2> QED BY <2>1, <2>4, <2>5, <2>6 DEF AnswerInv, Serving
<1> QED BY <1>1, <1>2

\* The other process takes a message, answers it and is done with it.
LEMMA ServeAnswers ==
  ASSUME IInv, SrvPop \/ SrvReply \/ SrvServed
  PROVE  AnswerInv'
<1> USE TwoQueues, EndsAre DEF appVars, srvVars
<1>0. QueueTypeOK /\ AnswerInv /\ QueueInv /\ QInv("to") /\ QInv("from")
  BY DEF IInv, BackendTypeOK, QueueInv, QInv
<1> DEFINE T == Contents("to")
           M == Data \cup {NoData}
           m == held["to"]
<1>1. CASE SrvPop
  <2>1. /\ srv = "serve" /\ PopClear("to") /\ UNCHANGED <<app, req, view>>
        /\ m \in Messages /\ m = Head(T) /\ T # <<>>
        /\ srv' = IF m.type # "kWrite" THEN "reply" ELSE "done"
        /\ \A r \in {"reg", "rr"} : regs'[r] = IF Sets1(m, r) THEN m.value ELSE regs[r]
    BY <1>1, SrvPopFacts
  <2>2. OnQueue("to") /\ EndSame("to", "prod") /\ T' = Tail(T) /\ out'["to"] = m
    BY <1>0, <2>1, PopClearKeeps
  <2>3. Holding("from") /\ EndSame("from", "cons")
    BY <1>0, <2>2, OtherQueue
  <2>4. T \in Seq(M)
    BY <1>0, ContentsType
  <2>5. /\ Len(T) \in Nat /\ Len(T) >= 1 /\ Len(T') = Len(T) - 1 /\ m = T[1]
        /\ \A i \in 1 .. Len(T) - 1 : T'[i] = T[i + 1]
        /\ Len(T) = 1 => T' = <<>>
    BY <2>1, <2>2, <2>4, TailFacts
  <2>6. app \notin {"to", "from", "return"}
    BY <1>0, <2>1 DEF AnswerInv
  <2>7. ASSUME Serving
        PROVE  \A r \in {"reg", "rr"} : Seen(T, r, view[r], regs[r])'
    <3> TAKE r \in {"reg", "rr"}
    <3>1. Seen(T, r, view[r], regs[r])
      BY <1>0, <2>7 DEF AnswerInv
    <3>2. Seen(Tail(T), r, view[r], IF Sets1(Head(T), r) THEN Head(T).value ELSE regs[r])
      BY <2>1, <2>4, <3>1, SeenTail
    <3>3. view'[r] = view[r]
          /\ regs'[r] = IF Sets1(Head(T), r) THEN Head(T).value ELSE regs[r]
      BY <2>1
    <3>4. Seen(T', r, view'[r], regs'[r])
      BY <2>2, <3>2, <3>3
    <3> QED BY <3>4 DEF Seen
  <2>8. Serving => pc'["to"]["prod"] = "open" /\ Attached("from", "cons")'
    BY <1>0, <2>2, <2>3 DEF AnswerInv, EndSame, Attached
  <2>9. CASE app # "wait"
    <3>1. Writes(T) /\ Contents("from")' = <<>>
      BY <1>0, <2>3, <2>9 DEF AnswerInv, Holding
    <3>2. m.type = "kWrite"
      BY <2>5, <3>1 DEF Writes
    <3>3. \A i \in 1 .. Len(T') : T'[i].type = "kWrite"
      <4> TAKE i \in 1 .. Len(T')
      <4>1. i \in 1 .. Len(T) - 1 /\ i + 1 \in 1 .. Len(T)
        BY <2>5
      <4> QED BY <2>5, <3>1, <4>1 DEF Writes
    <3>4. Writes(T)' /\ srv' = "done"
      BY <2>1, <3>2, <3>3 DEF Writes
    <3>5. app = "down" => pc'["to"]["prod"] = "closed" /\ pc'["from"]["cons"] = "closed"
      BY <1>0, <2>2, <2>3 DEF AnswerInv, EndSame
    <3> HIDE DEF T, M, m
    <3> QED BY <2>1, <2>6, <2>7, <2>8, <2>9, <3>1, <3>4, <3>5 DEF AnswerInv, Serving, T
  <2>10. CASE app = "wait"
    <3>1. Requested /\ req.type # "kWrite"
      BY <1>0, <2>1, <2>10 DEF AnswerInv, Served, Replied
    <3>2. Contents("from")' = <<>> /\ req' = req
      BY <2>1, <2>3, <3>1 DEF Requested, Holding
    <3>3. CASE Len(T) = 1
      <4>1. m = req
        BY <2>5, <3>1, <3>3 DEF Requested
      <4>2. T' = <<>> /\ srv' = "reply" /\ out'["to"] = req'
        BY <2>1, <2>2, <2>5, <3>1, <3>2, <3>3, <4>1
      <4>3. Served'
        BY <3>2, <4>2 DEF Served
      <4> HIDE DEF T, M, m
      <4> QED BY <2>1, <2>7, <2>8, <2>10, <3>1, <3>2, <4>3 DEF AnswerInv, Serving, T
    <3>4. CASE Len(T) # 1
      <4>1. m.type = "kWrite"
        <5>1. \A i \in 1 .. Len(T) : i # Len(T) => T[i].type = "kWrite"
          BY <3>1 DEF Requested
        <5> HIDE DEF T, m
        <5>2. 1 \in 1 .. Len(T) /\ 1 # Len(T)
          BY <2>5, <3>4
        <5> QED BY <2>5, <5>1, <5>2
      <4>2. srv' = "done"
        BY <2>1, <4>1
      <4>3. T' # <<>>
        <5> HIDE DEF T
        <5>1. Len(T') # 0
          BY <2>5, <3>4
        <5>2. Len(<<>>) = 0
          BY EmptySeq
        <5> QED BY <5>1, <5>2
      <4>4. \A i \in 1 .. Len(T') : IF i = Len(T') THEN T'[i] = req'
                                    ELSE T'[i].type = "kWrite"
        <5> TAKE i \in 1 .. Len(T')
        <5>1. /\ i \in 1 .. Len(T) - 1 /\ i + 1 \in 1 .. Len(T)
              /\ (i = Len(T') <=> i + 1 = Len(T))
          BY <2>5
        <5>2. T'[i] = T[i + 1]
          BY <2>5, <5>1
        <5>3. IF i + 1 = Len(T) THEN T[i + 1] = req ELSE T[i + 1].type = "kWrite"
          BY <3>1, <5>1 DEF Requested
        <5> QED BY <3>2, <5>1, <5>2, <5>3
      <4>5. Requested'
        BY <3>2, <4>2, <4>3, <4>4 DEF Requested
      <4> HIDE DEF T, M, m
      <4> QED BY <2>1, <2>7, <2>8, <2>10, <3>1, <3>2, <4>5 DEF AnswerInv, Serving, T
    <3> QED BY <3>3, <3>4
  <2> QED BY <2>9, <2>10
<1>2. CASE SrvReply
  <2> DEFINE t == out["to"].type
             a == [type |-> t, value |-> IF t \in DOMAIN Gets THEN regs[Gets[t]] ELSE 0]
  <2>1. /\ app = "wait" /\ Served /\ out["to"] = req /\ req \in Messages
        /\ a \in Data /\ Push("from", a) /\ srv' = "done"
        /\ UNCHANGED <<app, req, view, regs>>
    BY <1>2, ReplyFacts
  <2>2. /\ OnQueue("from") /\ pc'["from"] = pc["from"]
        /\ Contents("from")' = Append(Contents("from"), a)
    BY <1>0, <2>1, PushKeeps
  <2>3. Holding("to") /\ EndSame("to", "prod")
    BY <1>0, <2>2, OtherQueue
  <2>4. T = <<>> /\ Contents("from") = <<>>
    BY <2>1 DEF Served
  <2>5. a.type = req.type
        /\ (req.type \in DOMAIN Gets => a.value = regs[Gets[req.type]])
    BY <2>1
  <2>6. \A r \in {"reg", "rr"} : view[r] = regs[r]
    <3> TAKE r \in {"reg", "rr"}
    <3>1. Seen(<<>>, r, view[r], regs[r])
      BY <1>0, <2>1, <2>4 DEF AnswerInv, Serving
    <3>2. Len(<<>>) = 0
      BY EmptySeq
    <3> QED BY <3>1, <3>2 DEF Seen
  <2> HIDE DEF a
  <2>7. Len(Contents("from")') = 1 /\ Contents("from")'[1] = a
    <3>1. <<>> \in Seq(Data) /\ Len(<<>>) = 0
      BY EmptySeq
    <3>2. Len(Append(<<>>, a)) = 0 + 1 /\ Append(<<>>, a)[0 + 1] = a
      BY <2>1, <3>1, AppendProperties
    <3>3. Len(Append(<<>>, a)) = 1 /\ Append(<<>>, a)[1] = a
      BY <3>2
    <3>4. Contents("from")' = Append(<<>>, a)
      BY <2>2, <2>4
    <3> QED BY <3>3, <3>4, Zenon
  <2>8. Answers(Contents("from")[1])'
    <3>1. req.type \in DOMAIN Gets => a.value = view[Gets[req.type]]
      BY <2>5, <2>6, SetsGets
    <3>2. Contents("from")'[1] = a
      BY <2>7
    <3> QED BY <2>1, <2>5, <3>1, <3>2 DEF Answers
  <2>9. Len(Contents("from")') = 1 /\ Contents("to")' = <<>>
    BY <2>3, <2>4, <2>7 DEF Holding
  <2>10. Replied'
    BY <2>1, <2>8, <2>9 DEF Replied
  <2>11. \A r \in {"reg", "rr"} : Seen(Contents("to"), r, view[r], regs[r])'
    BY <1>0, <2>1, <2>3 DEF AnswerInv, Serving, Seen, Holding
  <2>12. pc'["to"]["prod"] = "open" /\ Attached("from", "cons")'
    BY <1>0, <2>1, <2>2, <2>3 DEF AnswerInv, Serving, EndSame, Attached
  <2>13. req'.type # "kWrite"
    BY <1>0, <2>1 DEF AnswerInv
  <2> QED BY <2>1, <2>10, <2>11, <2>12, <2>13 DEF AnswerInv, Serving
<1>3. CASE SrvServed
  <2>1. srv = "done" /\ srv' = "serve" /\ Forget("to") /\ UNCHANGED <<app, req, view, regs>>
    BY <1>3 DEF SrvServed
  <2>2. OnQueue("to") /\ pc'["to"] = pc["to"] /\ Contents("to")' = Contents("to")
    BY <1>0, <2>1, ForgetKeeps
  <2>3. Holding("from") /\ EndSame("from", "cons")
    BY <1>0, <2>2, OtherQueue
  <2>4. Contents("from")' = Contents("from") /\ out'["from"] = out["from"]
        /\ Serving' = Serving
    BY <2>1, <2>3 DEF Holding, Serving
  <2>5. app = "wait" => (Requested \/ Served \/ Replied)'
    BY <1>0, <2>1, <2>2, <2>4 DEF AnswerInv, Requested, Served, Replied, Answers
  <2>6. app = "return" => Answers(out["from"])'
    BY <1>0, <2>1, <2>4 DEF AnswerInv, Answers
  <2>7. app # "wait" => Writes(Contents("to"))' /\ srv' # "reply"
    BY <1>0, <2>1, <2>2 DEF AnswerInv, Writes
  <2>8. Serving => \A r \in {"reg", "rr"} : Seen(Contents("to"), r, view[r], regs[r])'
    BY <1>0, <2>1, <2>2 DEF AnswerInv, Seen
  <2>9. Serving => pc'["to"]["prod"] = "open" /\ Attached("from", "cons")'
    BY <1>0, <2>2, <2>3 DEF AnswerInv, EndSame, Attached
  <2>10. pc'["to"] = pc["to"] /\ pc'["from"]["cons"] = pc["from"]["cons"]
    BY <2>2, <2>3 DEF EndSame
  <2> QED BY <1>0, <2>1, <2>2, <2>4, <2>5, <2>6, <2>7, <2>8, <2>9, <2>10 DEF AnswerInv
<1> QED BY <1>1, <1>2, <1>3

-----------------------------------------------------------------------------
(* Theorems.                                                                *)

LEMMA InitInv ==
  ASSUME Init
  PROVE  IInv /\ \A k \in Queues : Contents(k) = <<>> /\ AttachedEnds(k) = {}
                                   /\ out[k] = NoData
<1> USE TwoQueues, EndsAre, CapacityType
<1>1. BackendTypeOK
  <2>1. QueueTypeOK
    BY DEF Init, QueueInit, QueueTypeOK, NoFile, Clear
  <2>2. NoMsg \in Messages
    BY DEF NoMsg, Messages, Types
  <2> QED BY <2>1, <2>2 DEF Init, BackendTypeOK
<1>2. ASSUME NEW k \in Queues
      PROVE  /\ FilesInv(k) /\ ~Live(k) /\ AttachedEnds(k) = {} /\ out[k] = NoData
             /\ \A e \in Ends : pc[k][e] = "closed"
  BY DEF Init, QueueInit, FilesInv, EndInv, Live, Attached, AttachedEnds, NoFile
<1>3. \A k \in Queues : Contents(k) = <<>>
  BY <1>2, NotLive
<1>4. QueueInv
  BY <1>2 DEF QueueInv, RingInv
<1>5. AnswerInv
  <2>1. app = "down" /\ srv = "down"
    BY DEF Init
  <2>2. Writes(<<>>)
    BY DEF Writes
  <2> QED BY <1>2, <1>3, <2>1, <2>2 DEF AnswerInv, Serving
<1> QED BY <1>1, <1>2, <1>3, <1>4, <1>5 DEF IInv

LEMMA NextInv ==
  ASSUME IInv, [Next]_vars, ~Overlap, ~Restart
  PROVE  IInv' /\ \A k \in Queues : FifoStep(k)
<1>0. QueueTypeOK /\ QueueInv /\ AnswerInv
  BY DEF IInv, BackendTypeOK
<1>1. CASE Next
  <2>1. QueueTypeOK' /\ QueueInv' /\ \A k \in Queues : FifoStep(k)
    BY <1>0, <1>1, NextQueue, QueueSteps
  <2>2. BackendTypes'
    BY <1>1, NextTypes
  <2>3. AnswerInv'
    BY <1>1, NextSplit, QuietSteps, OutsideSteps, ClosingSteps, PushAnswers, TakeAnswers,
       ServeAnswers DEF Silent
  <2> QED BY <2>1, <2>2, <2>3 DEF IInv, BackendTypeOK, BackendTypes
<1>2. CASE UNCHANGED vars
  <2>1. UNCHANGED queueVars /\ UNCHANGED <<app, req, srv, regs, view>>
    BY <1>2 DEF vars, appVars, srvVars
  <2>2. QueueTypeOK' /\ QueueInv' /\ \A k \in Queues : FifoStep(k)
    BY <1>0, <2>1, QueueSteps
  <2>3. Holding("to") /\ Holding("from") /\ EndSame("to", "prod") /\ EndSame("from", "cons")
    BY <1>0, <2>1, NoQueue, TwoQueues
  <2>4. AnswerInv'
    BY <1>0, <2>1, <2>3, AnswerKept DEF AnswerInv, EndSame, Attached
  <2>5. BackendTypes'
    BY <2>1 DEF IInv, BackendTypeOK, BackendTypes
  <2> QED BY <2>2, <2>4, <2>5 DEF IInv, BackendTypeOK, BackendTypes
<1> QED BY <1>1, <1>2

\* The type invariant of the backend: every index is one of the ring and a file
\* that is created is one that is neither named nor mapped.
THEOREM TypeCorrect == ~Overlap /\ ~Restart /\ Spec => []BackendTypeOK
<1> SUFFICES ASSUME ~Overlap, ~Restart PROVE Spec => []BackendTypeOK
  OBVIOUS
<1>1. Init => IInv
  BY InitInv
<1>2. IInv /\ [Next]_vars => IInv'
  BY NextInv
<1>3. IInv => BackendTypeOK
  BY DEF IInv
<1> QED BY <1>1, <1>2, <1>3, PTL DEF Spec

\* Each of the two shared-memory queues of queue.h is a bounded FIFO between the
\* ends attached to it, for every capacity: what Push stored is popped once and in
\* order, and creating, joining or leaving loses and invents nothing while an end
\* is attached.
THEOREM QueuesRefineFifo == ~Overlap /\ ~Restart /\ Spec => QueuesAreFifo
<1> SUFFICES ASSUME ~Overlap, ~Restart PROVE Spec => QueuesAreFifo
  OBVIOUS
<1>1. Init => IInv
  BY InitInv
<1>2. IInv /\ [Next]_vars => IInv'
  BY NextInv
<1>3. Init => ToFifo!Init /\ FromFifo!Init
  BY InitInv, TwoQueues, CapacityType DEF ToFifo!Init, FromFifo!Init, AttachedEnds
<1>4. IInv /\ [Next]_vars => [ToFifo!Next]_(ToFifo!fifoVars)
  <2> SUFFICES ASSUME IInv, [Next]_vars PROVE [ToFifo!Next]_(ToFifo!fifoVars)
    OBVIOUS
  <2>1. FifoStep("to")
    BY NextInv, TwoQueues
  <2> QED BY <2>1, EndsAre DEF FifoStep, Holding, AttachedEnds, ToFifo!Next, ToFifo!fifoVars,
             ToFifo!Attach, ToFifo!Detach, ToFifo!Push, ToFifo!Pop, ToFifo!Forget
<1>5. IInv /\ [Next]_vars => [FromFifo!Next]_(FromFifo!fifoVars)
  <2> SUFFICES ASSUME IInv, [Next]_vars PROVE [FromFifo!Next]_(FromFifo!fifoVars)
    OBVIOUS
  <2>1. FifoStep("from")
    BY NextInv, TwoQueues
  <2> QED BY <2>1, EndsAre DEF FifoStep, Holding, AttachedEnds, FromFifo!Next,
             FromFifo!fifoVars, FromFifo!Attach, FromFifo!Detach, FromFifo!Push,
             FromFifo!Pop, FromFifo!Forget
<1> QED BY <1>1, <1>2, <1>3, <1>4, <1>5, PTL
        DEF Spec, QueuesAreFifo, ToFifo!Spec, FromFifo!Spec

\* The asserts on every answer of dev_backend.h: it is of the type asked for, and
\* a register reads as the last value written although writes are not answered.
THEOREM AnswersBelong == ~Overlap /\ ~Restart /\ Spec => []AnswersMatch
<1> SUFFICES ASSUME ~Overlap, ~Restart PROVE Spec => []AnswersMatch
  OBVIOUS
<1>1. Init => IInv
  BY InitInv
<1>2. IInv /\ [Next]_vars => IInv'
  BY NextInv
<1>3. IInv => AnswersMatch
  BY DEF IInv, AnswerInv, Answers, AnswersMatch
<1> QED BY <1>1, <1>2, <1>3, PTL DEF Spec

=============================================================================
