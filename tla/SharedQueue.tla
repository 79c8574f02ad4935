----------------------------- MODULE SharedQueue -----------------------------
(***************************************************************************)
(* The shared-memory queues of include/enso/queue.h: QueueProducer and     *)
(* QueueConsumer, each created on its own by name.  A queue is a file of   *)
(* cache-line elements; the signal of an element tells whether it holds    *)
(* data.  Each end keeps its index to itself, so an end that joins an      *)
(* existing queue guesses it from the signals.                             *)
(*                                                                         *)
(* Creating an end is four steps: look for the file, open or create and    *)
(* map it (get_huge_page of src/enso/ixy_helpers.cpp), then clear it or    *)
(* synchronise.  With join_if_exists = false the second step is not        *)
(* reached when the file exists; that call changes nothing.                *)
(***************************************************************************)
EXTENDS Integers, Sequences, FiniteSets

CONSTANTS
  Queues,      \* names of queues
  Capacity,    \* capacity_, a power of two
  Data,        \* what can be pushed
  NoData,      \* what an element holds when its signal is clear
  Files,       \* files that can exist at a time, a set of positive numbers
  Overlap,     \* TRUE: an end may come or go while the other is being created
  Restart      \* TRUE: an end may be created anew while the other stays

ASSUME QueueAssumption ==
  /\ Capacity \in Nat \ {0} /\ NoData \notin Data
  /\ Files \subseteq Nat \ {0} /\ Files # {}
  /\ Overlap \in BOOLEAN /\ Restart \in BOOLEAN

Ends == {"prod", "cons"}
Other(e) == IF e = "prod" THEN "cons" ELSE "prod"
Elems == 0 .. Capacity - 1

Next1(i) == (i + 1) % Capacity
Clear == [signal |-> 0, data |-> NoData]
NoFile == 0

VARIABLES
  file,        \* per queue: the file its path names, or NoFile
  mem,         \* per queue and file: the elements
  pc,          \* per queue and end: the call it is in
  map,         \* the file the end has mapped
  created,     \* created_queue_
  idx,         \* tail_ of the producer, head_ of the consumer
  at,          \* iterations done of the loop that synchronises
  held,        \* per queue: data Pop has read and not yet returned
  out,         \* per queue: what Pop returned and its caller still holds
  left         \* per queue: ends that are gone while the other stayed

queueVars == <<file, mem, pc, map, created, idx, at, held, out, left>>

QueueTypeOK ==
  /\ file \in [Queues -> Files \cup {NoFile}]
  /\ mem \in [Queues -> [Files -> [Elems ->
                [signal : {0, 1}, data : Data \cup {NoData}]]]]
  /\ pc \in [Queues -> [Ends ->
               {"closed", "map", "memset", "sync", "open", "pop"}]]
  /\ map \in [Queues -> [Ends -> Files \cup {NoFile}]]
  /\ created \in [Queues -> [Ends -> BOOLEAN]]
  /\ idx \in [Queues -> [Ends -> Elems]]
  /\ at \in [Queues -> [Ends -> Elems]]
  /\ held \in [Queues -> Data \cup {NoData}]
  /\ out \in [Queues -> Data \cup {NoData}]
  /\ left \in [Queues -> SUBSET Ends]

QueueInit ==
  /\ file = [k \in Queues |-> NoFile]
  /\ mem = [k \in Queues |-> [f \in Files |-> [s \in Elems |-> Clear]]]
  /\ pc = [k \in Queues |-> [e \in Ends |-> "closed"]]
  /\ map = [k \in Queues |-> [e \in Ends |-> NoFile]]
  /\ created = [k \in Queues |-> [e \in Ends |-> FALSE]]
  /\ idx = [k \in Queues |-> [e \in Ends |-> 0]]
  /\ at = [k \in Queues |-> [e \in Ends |-> 0]]
  /\ held = [k \in Queues |-> NoData] /\ out = [k \in Queues |-> NoData]
  /\ left = [k \in Queues |-> {}]

Attached(k, e) == pc[k][e] \in {"open", "pop"}
Buf(k, e) == mem[k][map[k][e]]
Goto(k, e, l) == pc' = [pc EXCEPT ![k][e] = l]

-----------------------------------------------------------------------------
(* Create.                                                                  *)

\* How the program uses the queue: nothing in the code orders the two ends.
Quiet(k, e) == Overlap \/ pc[k][Other(e)] \in {"closed", "open", "pop"}
MayCreate(k, e) == Quiet(k, e) /\ (Restart \/ e \notin left[k])

\* Is there a file of that name?  The answer is used only later.
Scan(k, e) ==
  /\ pc[k][e] = "closed" /\ MayCreate(k, e)
  /\ created' = [created EXCEPT ![k][e] = file[k] = NoFile]
  /\ idx' = [idx EXCEPT ![k][e] = 0]
  /\ Goto(k, e, "map")
  /\ UNCHANGED <<file, mem, map, at, held, out, left>>

\* A file that is neither named nor mapped.
FreshFile(k) ==
  CHOOSE f \in Files : f # file[k] /\ \A e \in Ends : map[k][e] # f

\* open creates the file, with zeros, if it is not there.
MapFile(k, e) ==
  /\ pc[k][e] = "map"
  /\ LET f == IF file[k] = NoFile THEN FreshFile(k) ELSE file[k]
     IN  /\ file' = [file EXCEPT ![k] = f]
         /\ map' = [map EXCEPT ![k][e] = f]
         /\ mem' = IF file[k] = NoFile
                   THEN [mem EXCEPT ![k][f] = [s \in Elems |-> Clear]]
                   ELSE mem
  /\ Goto(k, e, IF created[k][e] THEN "memset" ELSE "sync")
  /\ UNCHANGED <<created, idx, at, held, out, left>>

\* The object is gone: an end that leaves while the other stays is remembered,
\* to tell a restart from a first start.
Gone(k, e) ==
  /\ Goto(k, e, "closed")
  /\ map' = [map EXCEPT ![k][e] = NoFile]
  /\ created' = [created EXCEPT ![k][e] = FALSE]
  /\ left' = [left EXCEPT ![k] =
                IF pc[k][Other(e)] # "closed" THEN @ \cup {e} ELSE {}]

\* Mapping or locking fails: the file is unlinked, whoever created it.
MapFails(k, e) ==
  /\ pc[k][e] = "map"
  /\ file' = [file EXCEPT ![k] = NoFile]
  /\ Gone(k, e)
  /\ UNCHANGED <<mem, idx, at, held, out>>

Memset(k, e) ==
  /\ pc[k][e] = "memset"
  /\ mem' = [mem EXCEPT ![k][map[k][e]] = [s \in Elems |-> Clear]]
  /\ Goto(k, e, "open")
  /\ UNCHANGED <<file, map, created, idx, at, held, out, left>>

\* Mutant: the consumer, too, goes past the element.
FoundPast(e, s) == Next1(s)

\* The index after the loop finds element s set; the element it then looks at.
Found(e, s) == IF e = "prod" THEN Next1(s) ELSE s
Probe(e, x) == IF e = "prod" THEN x ELSE (x - 1) % Capacity

\* One iteration, upwards for the producer and downwards for the consumer.
\* After the last one the end opens, unless it takes the queue to be full.
Sync(k, e) ==
  /\ pc[k][e] = "sync"
  /\ LET buf == Buf(k, e)
         s == IF e = "prod" THEN at[k][e] ELSE Capacity - 1 - at[k][e]
         x == IF buf[s].signal # 0 THEN Found(e, s) ELSE idx[k][e]
         last == at[k][e] = Capacity - 1 \/ buf[Probe(e, x)].signal = 0
     IN  /\ idx' = [idx EXCEPT ![k][e] = x]
         /\ at' = [at EXCEPT ![k][e] = IF last THEN 0 ELSE @ + 1]
         /\ IF ~last THEN UNCHANGED <<pc, map, created>>
            ELSE IF x = 0 /\ buf[0].signal # 0
            THEN /\ Goto(k, e, "closed")
                 /\ map' = [map EXCEPT ![k][e] = NoFile]
                 /\ UNCHANGED created
            ELSE Goto(k, e, "open") /\ UNCHANGED <<map, created>>
  /\ UNCHANGED <<file, mem, held, out, left>>

InitStep(k, e) ==
  MapFile(k, e) \/ MapFails(k, e) \/ Memset(k, e) \/ Sync(k, e)

-----------------------------------------------------------------------------
(* QueueProducer::Push, QueueConsumer::Pop, ~Queue.                         *)

Full(k) == Buf(k, "prod")[idx[k]["prod"]].signal # 0

\* Data and signal are one 64-byte store.
Push(k, d) ==
  /\ pc[k]["prod"] = "open" /\ ~Full(k)
  /\ mem' = [mem EXCEPT ![k][map[k]["prod"]][idx[k]["prod"]] =
               [signal |-> 1, data |-> d]]
  /\ idx' = [idx EXCEPT ![k]["prod"] = Next1(@)]
  /\ UNCHANGED <<file, pc, map, created, at, held, out, left>>

PopRead(k) ==
  /\ pc[k]["cons"] = "open"
  /\ LET elem == Buf(k, "cons")[idx[k]["cons"]]
     IN  elem.signal # 0 /\ held' = [held EXCEPT ![k] = elem.data]
  /\ Goto(k, "cons", "pop")
  /\ UNCHANGED <<file, mem, map, created, idx, at, out, left>>

\* Mutant: the head stays where it is.
PopClearStays(k) ==
  /\ pc[k]["cons"] = "pop"
  /\ mem' = [mem EXCEPT ![k][map[k]["cons"]][idx[k]["cons"]] = Clear]
  /\ out' = [out EXCEPT ![k] = held[k]] /\ held' = [held EXCEPT ![k] = NoData]
  /\ Goto(k, "cons", "open")
  /\ UNCHANGED <<file, map, created, idx, at, left>>

\* Nobody reads the data of an element whose signal is clear.
PopClear(k) ==
  /\ pc[k]["cons"] = "pop"
  /\ mem' = [mem EXCEPT ![k][map[k]["cons"]][idx[k]["cons"]] = Clear]
  /\ idx' = [idx EXCEPT ![k]["cons"] = Next1(@)]
  /\ out' = [out EXCEPT ![k] = held[k]] /\ held' = [held EXCEPT ![k] = NoData]
  /\ Goto(k, "cons", "open")
  /\ UNCHANGED <<file, map, created, at, left>>

\* The caller is done with what Pop returned.
Forget(k) ==
  /\ out[k] # NoData /\ out' = [out EXCEPT ![k] = NoData]
  /\ UNCHANGED <<file, mem, pc, map, created, idx, at, held, left>>

\* The creator unlinks whatever file has the name now.
Close(k, e) ==
  /\ pc[k][e] = "open" /\ Quiet(k, e)
  /\ file' = [file EXCEPT ![k] = IF created[k][e] THEN NoFile ELSE @]
  /\ Gone(k, e)
  /\ UNCHANGED <<mem, idx, at, held, out>>

QueueNext ==
  \E k \in Queues :
    \/ \E e \in Ends : Scan(k, e) \/ InitStep(k, e) \/ Close(k, e)
    \/ \E d \in Data : Push(k, d)
    \/ PopRead(k) \/ PopClear(k) \/ Forget(k)

QueueSpec == QueueInit /\ [][QueueNext]_queueVars

-----------------------------------------------------------------------------
(* Properties.                                                              *)

Set(k, e) == {s \in Elems : Buf(k, e)[s].signal # 0}

\* What a queue holds, seen from an attached end.  The consumer's index is 0
\* until it has attached and stays what it was when it left.
Contents(k) ==
  IF \A e \in Ends : ~Attached(k, e) THEN <<>>
  ELSE LET e == CHOOSE x \in Ends : Attached(k, x)
           h == IF Attached(k, "cons") \/ "cons" \in left[k]
                THEN idx[k]["cons"] ELSE 0
       IN  [i \in 1 .. Cardinality(Set(k, e)) |->
              Buf(k, e)[(h + i - 1) % Capacity].data]
=============================================================================
