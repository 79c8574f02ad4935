# Verification of the Ensō data paths

Ensō replaces the per-packet descriptor rings of a NIC by *pipes*: byte
streams in host memory that NIC and program share. What keeps such a pipe
correct is small, concurrent and spread over C++ (`software/`), a Linux kernel
module (`software/kernel/linux/`) and SystemVerilog (`hardware/src/`). The
modules in this directory model those parts, TLC checks them on small
instances, and TLAPS proves for every size every safety property they check.

Paths below are relative to `src/`; `ioctl.c`, `chr.c`, `setup.c` and `dma.c`
are short for `software/kernel/linux/intel_fpga_pcie_*.c`. `PROJECT.json`
lists, for every definition, the lines it models.

## 1. The system

### Components, their state and their operations

| Component | Code | State | Operations |
|---|---|---|---|
| TX notification ring | `software/src/pcie.cpp` | ring `tx_buf`, `tx_head`, `tx_tail`, `wrap_tracker`, `nb_unreported_completions` | `send_to_queue`, `update_tx_head`, `get_unreported_completions`, `send_config` |
| TX side of the NIC | `hardware/src/pcie/cpu_to_fpga.sv`, completions in `fpga_to_cpu.sv` | tail/head registers, descriptor and completion FIFOs | request, fetch and complete descriptors |
| TX pipes, `Device` | `software/include/enso/pipe.h`, `software/src/enso/pipe.cpp` | `app_begin_`, `app_end_` per pipe, ring of pending requests | `AllocateBuf`, `TryExtendBuf`, `SendAndFree`, `Send`, `ProcessCompletions`, `ApplyConfig` |
| RxTx pipes | same files | one buffer, head and tail of the RX half, `last_tx_pipe_capacity_` | `Recv`, `SendAndFree`, `ProcessCompletions` |
| RX side of the NIC | `pcie_top.sv`, `pkt_queue_manager.sv`, `queue_manager.sv`, `rx_dsc_queue_manager.sv`, `fpga_to_cpu.sv` | head/tail and status bit per pipe, head/tail of the notification ring, FIFOs between the stages | head update, packet, slot reservation, DMA of packet and descriptor |
| RX pipes | `pcie.cpp`, `pipe.h`, `pipe.cpp` | `rx_head`, `rx_tail` per pipe, `pending_rx_pipe_tails`, `next_rx_pipe_ids`, ring head | `get_new_tails`, `Recv`, `Free`, `Clear`, `Prefetch`, `NextRxPipeToRecv` |
| Kernel allocator | `ioctl.c`, `chr.c` | bit vectors of rings and pipes, count of fallback pipes, per device and per open file; a semaphore | ioctls to allocate and free, open, release |
| Fallback configuration | `software/src/enso/config.cpp`, `hardware/src/flow_director.sv` | registers of the flow director | read the kernel's count, then send it |
| Kernel module, set-up | `setup.c`, `chr.c`, `event_queue.c` | resources of the module and of each device, tree of devices | load, unload, probe, remove, SR-IOV |
| Open files | `chr.c`, `ioctl.c` | selected device, `chr_open_cnt`, `kmem_info`, address registers | open, release, `sel_dev`, `set_kmem_size`, `mmap` |
| BAR access | `chr.c` | file offset, selected BAR | read, write, lseek, `sel_bar` |
| Kernel DMA | `dma.c` | descriptor tables, status words, counters per direction | queue, send with timeout |
| Shared-memory queue | `software/include/enso/queue.h` | file of signalled elements, an index per end | create or join, push, pop, leave |
| Software backend | `software/src/backends/software/dev_backend.h` | two such queues | eleven operations, each a request and mostly an answer |
| Life cycle of pipes and rings | `pcie.cpp` | registers of a pipe or ring | `notification_buf_init/free`, `enso_pipe_init/free` |
| Flow table | `hardware/src/flow_table_wrapper.sv` | four hash tables | insertion with relocation, lookup |

The remaining parts (socket API, helpers, register arbiter, rate limiter,
packet data path, user library of the kernel module, examples, vendored IP) are
in `PROJECT.json` with the reason why they are left out.

### How they interact

* *Program and library* run in one thread per `Device`; every call is
  synchronous and the library spins instead of sleeping.
* *Library and NIC* share host memory (the two notification rings and the
  pipes) and registers written by MMIO. The only synchronisation is the
  `signal` field of a notification and the order of the NIC's DMA writes.
  The NIC never sees `tx_head`; it sees the RX heads only when software writes
  them.
* *Notifications are reactive*: a pipe gets a notification for a packet only if
  its status bit asks for one, or because software wrote its head.
* *The two halves of an RxTx pipe* meet in one number: the RX half frees what
  the capacity of the TX half has grown by since it last looked.
* *Processes* share the kernel module and, through its allocator, the flow
  director. Any of them may die at any time. A semaphore per device and a
  global lock protect the bookkeeping; waits on the semaphore can be
  interrupted by signals.
* *Library and software backend* are two processes that meet in two files;
  each end finds out for itself whether it creates or joins.

### What is hard

Software and NIC run interleaved over rings that wrap. Completions carry no
identity. A wake-up is an edge that can be lost. Head updates are ignored when
their queue is full. A call that blocks polls the very state it is about to
extend. Processes die between two steps of an allocation, and signals end waits
half way. Each of a dozen acquisitions in a probe can fail. A DMA engine
answers after its caller gave up. `PROJECT.json` lists these hazards at the
lines where they bite, with the properties that cover them.

### What makes each component correct

* TX ring: no slot is reused before it is reaped; `signal` tells exactly what
  is complete; requests are cut into transfers the NIC can serve and counted
  once; blocked calls return.
* TX and RxTx pipes: a byte given to the program, or to the NIC to receive
  into, is not being transmitted; completions go to the right request; no byte
  disappears and none is credited twice.
* RX path: the NIC overwrites nothing the program has not freed, announces
  nothing that is not in memory, never overruns the notification ring, and
  never leaves a pipe with data and no wake-up.
* Allocator: an id has one owner; nothing leaks; packets that match no flow
  go to fallback pipes; every call returns.
* Driver: a failure gives back exactly what was taken; handles are counted;
  memory a user has mapped stays allocated; calls that take two semaphores do
  not wait for each other.
* BAR access: legal transactions that together touch exactly the bytes asked
  for, inside the BAR and the bounce buffer.
* DMA: a send that reports success has performed what was queued, once; a send
  returns whatever the engine does.
* Shared-memory queue: a bounded FIFO, whoever comes first.

## 2. The modules

| Module | Models | Used by |
|---|---|---|
| `TxRing` | TX notification ring: software and NIC | run by `MCTxRing`, proved in `RtxPath_proofs` |
| `TxPath` | TX pipes and `Device::Send` on top of `TxRing` (EXTENDS it and runs its actions inside the calls) | `RtxPath`, `MCTxPath`, proved in `RtxPath_proofs` |
| `RtxPath` | RxTx pipes on top of `TxPath` | `MCRtxPath`, proved in `RtxPath_proofs` |
| `RxNic` | RX side of the NIC | `RxPath` |
| `RxPath` | receiving thread composed with `RxNic` | `MCRxPath`, proved in `RxPath_proofs` |
| `PipeAllocator` | kernel allocator, fallback configuration, flow director | `MCPipeAllocator`, proved in `PipeAllocator_proofs` |
| `DriverLife` | kernel module and devices, from load to unload | `DeviceFile`, proved in `DeviceFile_proofs` |
| `DeviceFile` | calls on open files, on top of `DriverLife` | `MCDeviceFile`, proved in `DeviceFile_proofs` |
| `BarAccess` | read, write and seek on a BAR | `MCBarAccess`, proved in `BarAccess_proofs` |
| `KernelDma` | DMA through descriptor tables | `MCKernelDma`, proved in `KernelDma_proofs` |
| `Fifo` | abstract: a bounded FIFO between ends that come and go | refined by `SoftBackend` |
| `SharedQueue` | the shared-memory queue | `SoftBackend` |
| `SoftBackend` | software backend and its peer over two queues; refines `Fifo` twice | `MCSoftBackend`, proved in `SoftBackend_proofs` |

The `MC*` modules and the `.cfg` files only give constants their values.
Definitions whose comment starts with *Mutant:* are wrong variants of the
definition after them; replacing the right one by them must break a property.
`Arithmetic` holds the facts that the proofs share: ring indices, least members,
sums over finite sets. Every component states a type invariant, and all but that
of the receive path, whose typing is part of `StreamInv`, are theorems.

### TxRing

Variables carry the names of the code (`tx_buf`, `wrap_tracker`, `tx_head`,
`tx_tail`, `nb_unreported`); `s_*` are the locals of `__send_to_queue`, `pc`,
`ret` and `left` place the thread in a call. `SendCall`, `SendBlocked`,
`SendChunk` and `SendPublish` are `__send_to_queue`; `CallUpdate`, `Reap` and
`UpdateReturn` are `update_tx_head`, one iteration per step, so that the NIC
interleaves with the polling of `signal`; `ReportCall`/`ReportReturn` are
`get_unreported_completions`; `Config*` are `send_config`.

The NIC is three actions. `NicRequest` is the FSM that compares tail and head
and requests what lies between; `NicFetch` is the arrival of one descriptor;
`NicComplete` writes one completion. Their FIFOs hold consecutive slots in ring
order, so each is a pair of indices (`rd_head`, `fetch`, `compl`), and `meta`
keeps the copy of a descriptor that the NIC holds. A completion clears the
slot: the address and length it writes back are never read again.

Bytes are abstract offsets in a page; an address is a page and an offset.
`Starts` lets the ring begin at the tail a previous owner left.

### TxPath and RtxPath

`SendAndFree` moves `app_begin` and starts `__send_to_queue`; `InSendToQueue`
runs its steps; `SendToQueueReturn`, `RecordBlocked` and `Record` are the rest
of `Device::Send`, which records a request *after* sending it.
`InGetUnreported`, `GetUnreportedReturn`, `PopCompletion` and `PopDone` are
`ProcessCompletions`; `AllocateBuf`, `ExtendAgain`, `ExtendDone` and
`TryExtendBuf` are the waits for space. A buffer is one page; bytes are counted
singly because `capacity()` keeps one byte and not one quantum. The program is
assumed to send only bytes it owns, in whole quanta.

`RtxPath` lets the program choose which pipes are RxTx pipes. `Recv` runs
`ProcessCompletions` first, as every receiving call of an `RxTxPipe` does, and
`RecvReturn` then moves `rx_tail` over some of what the NIC may have written by
then. `RtxRecord` is the end of `TxPipe::SendAndFree` together with the
subtraction from `last_tx_pipe_capacity_`, `RtxPopDone` the loop over the RxTx
pipes at the end of `Device::ProcessCompletions`. `RecordBlocked` processes
completions between the two halves of a `SendAndFree`: `CreditConserved` shows
that nothing is lost by it.

### RxNic and RxPath

A pipe is a ring of flits and a packet its number of flits. `WriteHead` is the
MMIO write with the head-update queue that ignores writes beyond its limit;
`TakeHeadUpd`/`TakePacket` the merge (head updates first);
`ManagePacket`/`ManageHeadUpd` the packet queue manager with its status bit;
`ReserveSlot` the descriptor queue manager; `StartDescriptor`, `DmaPacket` and
`SendDescriptor` the state machine of `fpga_to_cpu`. FIFOs of `StageLen`
entries sit between the stages, so the stages interleave freely.

`CallGetNewTails`, `ConsumeNotification` and `GetNewTailsReturn` are
`__get_new_tails`, one notification per step, with the head register written
once at the end. `NextRxPipeToRecv`, `NextFetch`, `NextNone`, `NextSkip` and
`NextTake` are `Device::NextRxPipeToRecv` with `LATENCY_OPT`, which prefetches
a pipe before it returns it. `Recv`, `RecvReturn`, `Free`, `Clear` and
`Prefetch` are the operations of `RxPipe`. `Apis` says which interfaces a
program may choose; it keeps to its choice.

### PipeAllocator

A handle is an open file, used by one thread. A call is `Enter` (the thread
reaches `down_interruptible`), `Down`, the steps of the call and `Up`.
`Interrupted` is a signal during the wait: an ioctl is restarted, but an
interrupted open or close leaves no file behind, and what it owned stays marked
(history variable `lost`). The scan and the mark of `alloc_notif_buffer` are
two steps under the semaphore. `alloc_pipe` marks its pipe after it has
released the semaphore, so each change of a byte of `pipe_status` is a load and
a store (`MarkLoad`, `MarkStore`, `free_pipe`, `FreeStore`, `ReleaseLoad`,
`ReleaseStore`). `get_rr_status`, `get_nb_fallback_queues` and `SendConfig` are
`update_fallback_queues_config`, which reads without the semaphore and sends
later. Counters wrap at `Word`.

`SemUnits` is what the semaphore has after probe: one, and one more in a driver
built with `DMA_SUPPORTED`.

Environment: ids are owned and user addresses valid. The error paths that
return with the semaphore held (`ioctl.c:512-514`, `554-557`, `646-656`) are
therefore not taken. `PipeCallers` bounds the handles that change pipes at the
same time, and `LastFirst` says whether fallback pipes are given up newest
first; both are assumptions the code needs and does not enforce (section 5).

### DriverLife and DeviceFile

`InitOrder` and `ProbeOrder` are the resources of the module and of a device in
the order in which `intel_fpga_pcie_init`, `chr_init`, `probe`,
`map_bars_default` and `dma_probe` get them. `LoadStep` and `ProbeStep` get the
next one, `LoadFails` and `ProbeFails` fail at it, if it is in `Faults`, and
give back what the label they jump to gives back (`Undone`). A device can be
found once it is in the tree. `Removed`, `Unload*` are the way back.

`DeviceFile` adds the calls on open files. Each enters, waits (`Down`, or
`Interrupted` by a signal), and does its work under the semaphore as a load, at
`Down`, and a store (`Count`, `KmemAlloc`, `KmemFix`). `sel_dev` takes two
semaphores, in the order `SelOrder`. `set_kmem_size` goes on after its `up`:
`KmemRead` and four `KmemWrite`. `chr_mmap` is one step at any time, since it
takes no lock. A region is a number and the address registers hold the number
of the region they point to; regions that were replaced stay allocated, as in
the code. `sriov_enable` adds virtual functions, which are probed while other
files are in use. `ghosts` counts the handles whose close was interrupted.

### BarAccess

`chr_access` checks and truncates a call (`get_address`, `Granular`, `Route`);
then every loop iteration of `hprxm_access`, its left- and right-justified
parts, `rxm_access` and the reading ahead of prefetchable BARs is a step that
appends a transaction to `trans`; `Finish` copies back and moves the file
offset. Addresses, sizes and powers of two are numbers as in the code; BARs are
aligned to their size, so offsets stand for addresses. `Width` is the widest
transaction of the build.

### KernelDma

`dma_queue` and `dma_send` are the two calls, `dma_start` the start of one
direction, `PollDone` and `PollTimeout` the ways out of the polling loop; the
countdown may end at any time. The engine is external: `Fetch` reads the table
as it is at that moment, `Perform` does one descriptor and the last one sets
the status word. A descriptor is "new" until it is fetched, so that performing
one twice is visible. `Discipline` describes the caller: it sends exactly the
directions in which it queued something, and after a timeout waits for the
engine.

### SharedQueue, SoftBackend and Fifo

An end is created in steps: `Scan` looks for the file, `MapFile` opens or
creates it, then the creator clears it (`Memset`) and a joiner looks for its
index (`Sync`, one iteration per step, while the other end works). `MapFails`
is a failed mapping. `Push` stores data and signal at once; `PopRead` and
`PopClear` are the two halves of `Pop`; `Close` is the destructor, which
unlinks the file if this end created it. `Overlap` and `Restart` allow an end
to come or go while the other is being created, and to come back while the
other stays.

`SoftBackend` is the application with one action per operation and its peer,
which is not in the repository and is modelled from what the operations expect.
`AppPush` and `AppPopRead`/`AppPop` are their two spinning loops. `ToFifo` and
`FromFifo` map a queue to `Fifo`: its contents are the elements that are set,
from the consumer's index on.

## 3. The runs

| Run | Instance | Distinct states | Checks |
|---|---|---|---|
| `tx_ring` | ring of 4, batch 2, page of 4, transfers of at most 2, requests of 1 and 4 bytes, configurations | 430,772 | `RingOrder`, `SignalTellsCompletion`, `NicHoldsPublished`, `ChunkWithinPage`, `RequestContiguous`, `CallsReturn` |
| `tx_path` | ring of 5, one pipe of 10 bytes, plain or RxTx, requests of one and two notifications | 154,825 | `CompletionsMatchRequests`, `NoByteLost`, `CreditConserved`, `PipeCallsReturn` |
| `tx_path_shared` | ring of 6, an RxTx and a plain pipe of 8 bytes, configurations, batch 2 | 721,440 | `AppNeverOwnsInFlight`, `InFlightIsPending`, `RxNeverOverwrites` |
| `rx_two_pipes` | two pipes of 3 flits, packets of 1 and 2, ring of 3, program clears what it receives | 4,543,900 | `NotifRingOrder`, `SingleToken` |
| `rx_apis` | one pipe, both interfaces, partial receives, head updates ignored beyond one | 419,796 | `PipeOrder`, `NotifRingOrder`, `NoLostWakeup`, `DataIsReceived` |
| `allocator` | two processes, 2 rings, 4 pipes in 2 bytes, semaphore of one unit | 566,016 | `RingExclusive`, `PipeExclusive`, `RingsAccounted`, `PipesAccounted`, `FallbackSteering`, `CallsReturn` |
| `soft_backend` | two queues of 2 elements, one application and its peer, which come and go | 132,567 | `AnswersMatch`, `QueuesAreFifo`, `OperationReturns` |
| `kernel_driver` | two devices, one a virtual function, two files, thirteen faults | 236,769 | `NothingLeft`, `CountsHandles`, `KmemConsistent`, `MappedAllocated`, `CallReturns` |
| `kernel_dma` | tables of 3 transfers, both directions | 23,766 | `SendCompletes`, `PerformedOnce`, `SendReturns` |
| `bar_access` | four kinds of BAR and a missing one, 64 or 128 bytes, sizes 0 to 65 | 121,952 | `TransactionsLegal`, `BytesMoved`, `TouchedOnce`, `BufferBounded` |
| `tx_path_config`, `allocator_sem` | see section 5 | | one property each, violated |

What they show: see "What makes each component correct"; the comment before
each property says which behaviour of the code it is about.

### Bounds, and why they are enough

* Rings of 3 to 6 slots wrap after a few operations and reach the full and the
  empty ring; the RX and TX orders are about the positions of a handful of
  indices, each pair of which can meet in these rings. All rings start at a
  non-zero index or come back to zero, so wrap-around happens in every order.
* `MaxTransfer` is half a page and requests span one to three notifications, so
  requests end at, before and after the end of the page.
* `MaxUnreported` bounds the completions counted and not reported before the
  next raw `send_to_queue`; `TxPath` does not need it (the pending-request ring
  bounds them).
* In `tx_path` both the notification ring and the pending-request ring fill up:
  `SendBlocked` and `RecordBlocked` are taken. `BatchBound` excludes batch
  sizes of the order of the ring (64 of 16384 in the code).
* `MaxAsked` bounds *unnecessary* head writes (partial frees, prefetches) of a
  program: each may produce a notification, and a program that never stops
  would fill the ring, which section 5 describes.
* `rx_two_pipes` has exactly one usable ring slot per pipe: it shows that a
  program that clears what it receives can never overrun the ring, however many
  packets arrive. Pipes only interact through the ring and the FIFOs.
* Two processes suffice for races on one byte and for a ring or pipe given up
  by one and taken by the other; two bytes of two pipes distinguish bits that
  share a byte from bits that do not. Section 4 has the proofs for any number.
* Two devices and two files are what opposite `sel_dev` calls need.
  `MaxRegions` is 2 (a region and its replacement), `MaxGhosts` 1, and one
  handle uses kernel memory. `Faults` leaves out the four failures whose
  handling is wrong (section 5).
* In `bar_access` every size up to one more than `MAX_TRANSFER_SIZE` is tried
  at every offset that seeking and earlier accesses reach, and at five offsets
  by command; BARs have the real 32- and 64-byte frames, so nothing is scaled
  down. `MaxPos` lets a program seek just past the end.
* Tables of three transfers fill up, and three is more than the two directions
  and the status descriptor need to interfere.
* Queues of two elements are full and wrap at once; the code's capacity is a
  power of two.

### Fairness

* A thread inside a call keeps running (weak fairness of its steps): the
  library and the ioctls spin or run straight through, none sleeps but on the
  semaphore.
* Each stage of the NIC keeps moving (weak fairness, one condition per stage):
  the stages are clocked pipelines with back pressure only. No assumption is
  made on the arrival of packets.
* The program of the RX runs polls every pipe and clears what it holds (strong
  fairness, since the calls compete for one thread): the program "is
  responsible for freeing" what it received (`docs/primitives/rx_enso_pipe.md:20`).
* `Down` is strongly fair: `up()` of a Linux semaphore hands it to the first
  waiter. Nothing is assumed of `Interrupted` or of programs making calls.
* The kernel goes on probing and unloading once it has begun; the DMA engine is
  *not* fair, its caller is saved by the timeout.
* The application and its peer poll while they are in an operation or serve;
  nobody is assumed to start or to exit.

`soft_backend` does not check deadlock: an application whose peer failed to map
its queues waits for ever, which the code accepts.

## 4. The proofs

Each module of proofs extends the module it is about and states its inductive
invariant first. The theorems hold for every value of the constants that the
named assumptions of the modules allow; where a theorem assumes more, the table
says so and the text says why the code needs it.

Sums over sets (`SumFunctionOnSet`) and the split point of a BAR access are
defined by recursion. Their laws are proved from the least counterexample: the
well-foundedness of the naturals gives a least member of a set of naturals
(`LeastNatural`), which needs no induction principle with an operator parameter.
`Arithmetic` has the laws of sums that this gives: the empty sum, one member
taken out (`SumWithout`) or changed (`SumChange`).

### RtxPath_proofs: the ring

The first part of the module is about `Spec` of `TxRing`, the ring alone.
For every ring size `N >= 2`, batch size, page size, transfer limit, set of
lengths and bound (`NAssumption`, `BatchAssumption`, `PageAssumption`,
`StartsAssumption`):

| Theorem | States |
|---|---|
| `TypeCorrect` | `Spec => []TypeOK` |
| `RingNeverOverrun` | `Spec => []RingOrder` |
| `SignalIsExact` | `Spec => []SignalTellsCompletion` |
| `NoRefillInFlight` | `Spec => []NicHoldsPublished` |
| `ChunksWellFormed` | `Spec => []ChunkWithinPage` |
| `RequestsContiguous` | `Spec => []RequestContiguous` |

None but the first is inductive alone. The order of the indices needs the
signal field (software moves `tx_head` because `signal` is clear, which must
imply that the NIC has completed the slot); the signal field needs the order (a
slot is only filled outside the slots in use); and outside `__send_to_queue`
its local tail must be the published one. `RingInv` is the conjunction
`TypeOK /\ RingOrder /\ SignalTellsCompletion /\ NicHoldsPublished /\
LocalTail`. The argument measures every index by its distance from `tx_head`
(`Dist`): a step adds one to one distance, or, when `tx_head` itself moves,
subtracts one from all. `DistNext`, `DistInjective`, `BetweenDist` and
`ToBySlot` turn statements on ring intervals into arithmetic on distances.
`ChunkInv` adds what `__send_to_queue` still has to send. `WrapInv` says what
`wrap_tracker` means: the slot is in use and not the last one published, and
the next slot, or what `__send_to_queue` is about to put there, continues it in
the buffer.

### RtxPath_proofs: the pipes

About `RtxSpec`: plain and RxTx pipes on one `Device`, with configurations or
without, for every number of pipes and every ring, batch and page size
(`QuantumAssumption` and `RtxAssumption` besides those of the ring). Only
`CompletionsMatched` and `NeverStuck` use `BatchBound`.

| Theorem | States |
|---|---|
| `PathInvariant`, `RxInvariant` | `RtxSpec => []PathInv`, `RtxSpec => [](PathInv /\ RxInv)` |
| `RtxTypeCorrect` | `RtxSpec => []RtxTypeOK` |
| `BuffersSafe` | `RtxSpec => []AppNeverOwnsInFlight` |
| `RequestsOutliveFlight` | `RtxSpec => []InFlightIsPending` |
| `CreditsConserved` | `RtxSpec => []CreditConserved` |
| `PacketsSafe` | `RtxSpec => []RxNeverOverwrites` |
| `BytesConserved` | `RtxSpec => []NoByteLost` |
| `CompletionsMatched` | `~Configs` implies `RtxSpec => []CompletionsMatchRequests` |
| `NeverStuck` | `~Configs` implies `RtxSpec => []~Stuck` |

Completions carry no identity: the n-th completion counted pops the n-th
request, whatever it was. The bytes a program owns are safe because popping is
never ahead of completion. `PathInv` says this with four functions that are no
variables of the code and are only said to exist: `pos` (where each request
begins in its pipe), `req` and `byte` (to which request, and from which byte of
the pipe on, each data notification belongs) and `ends` (how many requests end
before a slot). `Late` is the heart: completions counted and to be applied,
plus requests that end before slot `s`, are at most the number of the request
of `s`. It is an inequality because `send_config` counts its own completion for
a moment and then forgets at least as many (section 5): requests are popped
late, never early.

`PathInv` has a second case, `Stuck`. `Device::Send` records a request after
sending it. When the pending ring is full and all its completions, and that of
the request still to be recorded, are counted by one call, `tx_pr_head_` passes
`tx_pr_tail_`; the pending ring then looks full with nothing in flight, and
`Send` waits for ever. TLC reaches this state with configurations and a request
that fills the whole ring (ring of 6, batch 2, a request of 5 notifications),
which the bounds of the runs leave out. The safety theorems hold in any case,
since nothing is given back in that state, and `NeverStuck` excludes it for a
program that sends no configurations. With configurations the constants of the
code leave no room for it (a ring of 16384, requests of at most 17
notifications, 64 completions reaped by one call), but that is an argument on
numbers and not a theorem.

`NeverStuck` rests on `CompletionsMatched`, the equality of which `Late` is the
inequality, and that on `Backlog`: what reaping leaves in the ring. A blocked
send reaps at most one batch of a full ring, and what it counts stays uncounted
by anyone else until the ring holds as much again; so while completions are
unreported, at least `N - 1 - BatchSize` notifications are in use. With
`BatchBound` (two batches fit into the ring, as 64 into 16384) the last
notification of a request is then still in the ring when `Device::Send` makes
room to record the request, and is not counted before it is recorded. With
configurations the equality is false (section 5).

`BytesConserved` needs neither: `pos` places the requests of a pipe one after
the other from `app_end` to `app_begin`, and `OldestSum` shows by the least
counterexample that the bytes of the first `i` of them add up to `pos[p][i]`.

`RxInv` splits the buffer of an RxTx pipe, from `rx_head` on, into what was
completed and is not free for packets, what is in requests, what was received
and not sent, and the rest. `CreditConserved` says that the first part is what
`capacity()` and `last_tx_pipe_capacity_` differ by, also in the middle of a
`SendAndFree`; `RxNeverOverwrites` that the NIC only writes to the last.

### RxPath_proofs

For every number and size of pipes, every size of the ring, the batch and the
stages:

| Theorem | States |
|---|---|
| `StreamInvariant` | `Spec /\ []Room => []StreamInv` |
| `PipesInOrder` | `Spec /\ []Room => []PipeOrder` |
| `RingInOrder` | `Spec /\ []Room => []NotifRingOrder` |
| `TokenInvariant` | `Clearing` implies `Spec => [](StreamInv /\ TokenInv)` |
| `RingNeverFull` | `Clearing` implies `Spec => [](Room /\ PipeOrder /\ NotifRingOrder)` |
| `OneTokenPerPipe` | `Clearing` implies `Spec => []SingleToken` |
| `WakeupsKept` | `Clearing` implies `Spec => []NoLostWakeup` |

The first three are about every program and every interface. `Room` says that a
descriptor that needs a slot of the notification ring finds one; without it
they are false (section 5, the full ring). `StreamInv` treats the two queues
between the packet queue manager and host memory as one stream (`Flow`): its
entries for a pipe continue `dma_tail` without a gap and in order up to
`pkt_tail` (`Ordered`, `Gapless`); the ring consists, from its head on, of the
slots that software has read, the unread ones and those that entries of the
stream have reserved, in this order (`RingShape`); unread notifications
announce what is in memory, in order (`NotifOrder`).

The last four discharge `Room` for a kind of program: `Clearing` is one that
polls with `RxPipe::Recv` and clears what it receives, on a ring with more slots
than it has pipes (the instance `rx_two_pipes`). Each of its pipes has one
*token*: a head update, a request, a descriptor, a notification or an unread
piece of news, or none and a clear status bit. `TokenInv` says where the token
of every pipe is, that the status bit agrees with it, that a request which asks
for a descriptor and every notification have something to announce, and that
slots read and not given back belong to different pipes whose token is with the
program. Then there are never more slots in use than pipes, so there is room,
and never more head updates waiting than pipes, so none is ignored. For other
programs the theorems stop at `Room`: with partial frees or prefetches a pipe
may have several tokens, and what bounds them is `MaxAsked`.

### PipeAllocator_proofs

For every finite set of handles and every number of rings and pipes
(`AllocatorSizes`):

| Theorem | States |
|---|---|
| `TypeCorrect` | `Spec => []TypeOK` |
| `RingsExclusive` | `~DMA_SUPPORTED` implies `Spec => []RingExclusive` |
| `NoRingLeaks` | `~DMA_SUPPORTED` implies `Spec => []RingsAccounted` |
| `PipesExclusive` | `PipeCallers = 1` implies `Spec => []PipeExclusive` |
| `NoPipeLeaks` | `PipeCallers = 1` implies that, between calls, the marked pipes are the owned and the lost ones |
| `FallbackSteered` | `PipeCallers = 1` and `LastFirst` imply `Spec => []FallbackSteering` |
| `CountNeverDrifts` | `Spec => []CountInv` |
| `PipesConserved` | `PipeCallers = 1` implies `Spec => []PipesAccounted` |

`TypeOK` needs `ArgOK`: the ring or pipe that a call has chosen is one of the
device's, which rests on the smallest and largest member of the free set
(`MinNat`, `MaxPipe`, from the well-foundedness of the naturals). Exclusive
rings need `Mutex` (one thread at most is between `down` and `up`, and the
semaphore is taken then), `CallOK` (the ring found by a scan is still unmarked,
the ring being freed is the caller's: the kernel does not check it) and
`Partition` (owned and lost rings are disjoint and are exactly the marked
ones). `RingInv` is their conjunction. `Mutex` is where `~DMA_SUPPORTED` is
used: with two units both theorems are false (`allocator_sem`).

The theorems on pipes use no semaphore, since `alloc_pipe` marks after its
`up`: they hold in either build, but only if one process at a time changes
pipes, and are false with two (section 5). `PipeInv` says what a byte that was
loaded and not yet stored implies (`PipeCallOK`), and how far the release of a
file has come (`PipeParts`). For steering, `FbInv` shows that the fallback pipes
are the first `nb_fb_queues` pipes at every step of every call (`Contiguous`),
which is where `LastFirst` is needed, and `SteerInv` that the NIC knows the
present number whenever no call is on its way to send it. The flow director
masks with the number rounded down to a power of two (`MaskBelow`).

`CountInv` says that the device's count of fallback pipes is the sum of those of
the files and of what interrupted closes left behind, modulo the width of the
counter. It holds at every step and with nothing assumed: each step changes the
two sides together, which makes it the one property here that does not depend on
who holds the semaphore. Between calls it completes `NoPipeLeaks` to
`PipesAccounted`.

### KernelDma_proofs

For tables of every length, for callers that keep to `Discipline`:

| Theorem | States |
|---|---|
| `TypeCorrect` | `Spec => []TypeOK` |
| `SendSucceedsComplete` | `Spec => []SendCompletes` |
| `NothingRepeated` | `Spec => []PerformedOnce` |

`DmaInv` says for each direction where the accepted transfers are: in the table
from its first descriptor on (`Waiting`), taken over by `dma_send` (`Taken`),
announced to the engine (`Fetching`) or inside it, ahead of the descriptor that
sets the status word (`Performing`); and that the status word is clear as long
as they are (`Sent`). `NeverWraps` shows that with this discipline the table is
always filled from the start, so that no send meets the error of a table that
has wrapped. Without it the theorems are false (section 5).

### DeviceFile_proofs

For every number of devices, files and regions:

| Theorem | States |
|---|---|
| `HeldByStage` | `Handled` implies `Spec => []LifeInv` |
| `FailureUndone` | `Handled` implies `Spec => []NothingLeft` |
| `DevicesInUseStay` | `Handled` implies `Spec => [](LifeInv /\ UseInv)` |
| `CountsOpenFiles` | `Handled` and `~DMA_SUPPORTED` imply `Spec => [](Mutex /\ CountsHandles)` |
| `KernelMemoryConsistent`, `MappedStaysAllocated` | `Handled` and `SingleUser` imply `Spec => [](KmemConsistent /\ MappedAllocated)` |
| `TypeCorrect` | all three imply `Spec => []FileTypeOK` |

The invariant has four layers. `LifeInv`: while it is loaded the module holds
the resources before its stage of `InitOrder`, the device being probed holds a
prefix of `ProbeOrder`, and any other device that is not in the tree holds
nothing. `UseInv`: what a file has selected, mapped or is about to select is a
device in the tree; removal and unloading wait for the files. `CountInv`: of the
places between `down` and `up` of a device at most one is taken and the
semaphore is zero then (`Mutex`), so the counter a call has loaded is still the
present one when it stores it (`Loaded`), and the counter is the number of files
counted for the device plus the interrupted closes (`Tally`). `sel_dev` may hold
two semaphores, which `Holds` counts for both. `KmemInv`: outside of
`set_kmem_size` a device is `Settled`; inside, `Changing` says at each step
whether `kmem_info` and the registers name the old region or the new one.

The hypotheses are the ones the code needs (section 5): `Handled` leaves out the
three failures whose label gives back the wrong things, two units of the
semaphore let two calls store over each other, and with two users of kernel
memory the registers may end with halves of two addresses.

### SoftBackend_proofs

For queues of every capacity and every set of messages, if each end is created
once and not while the other is (`~Overlap`, `~Restart`):

| Theorem | States |
|---|---|
| `TypeCorrect` | `Spec => []BackendTypeOK` |
| `QueuesRefineFifo` | `Spec => QueuesAreFifo`, that is `ToFifo!Spec /\ FromFifo!Spec` |
| `AnswersBelong` | `Spec => []AnswersMatch` |

`QueueInv` is about one queue at a time. `FilesInv`: a file has a creator that is
still there, and ends that are attached share it. `RingInv`: the elements that
are set are the `n` that follow the consumer's index, cyclically; the producer's
index is that index plus `n`, a consumer between the two halves of its pop holds
the first of them, and one that is still looking for its index has passed only
elements that are set. With it every step of the queues is a step of `Fifo` or
leaves the mapped variables alone; one lemma per action says which, and that the
other queue is untouched (`OnQueue`).

The answers need more than the FIFOs. `AnswerInv` says where the one request that
is waited for is: last in the queue to the peer, after writes only
(`Requested`), served (`Served`), or answered (`Replied`), with nothing else in
either queue that could be taken for an answer. `Seen` says what a register will
read as when the peer gets there: the last write under way that sets it or, if
there is none, what the peer has stored.

### BarAccess_proofs

For BARs of every size that is a multiple of 64, every offset and size of a call
and every `Width`, with nothing assumed but `BarAssumption`:

| Theorem | States |
|---|---|
| `BarInvariant` | `Spec => []BarInv` |
| `TypeCorrect` | `Spec => []TypeOK` |
| `AlwaysLegal` | `Spec => []TransactionsLegal` |
| `BufferSuffices` | `Spec => []BufferBounded` |
| `NoByteMissed` | `Spec => []BytesMoved` |
| `NeverTwice` | `Spec => []TouchedOnce` |

`BarInv` says how far the call has come: the transactions issued so far are legal
(`AllFit`), cover the bytes from the first one to the current address at their
own places in the buffer (`Covers`) and, where nothing may be read in advance,
follow each other without a gap (`Chain`); `Stage` says what each place in the
call leaves to be done. That the parts before and after the split point of
`hprxm_access` are aligned rests on where it lands. It is computed by a recursive
function, which is shown to be defined (`ShiftExists`) and to land on a multiple
of a power of two that is not smaller than either part (`SplitLands`); so every
piece of either part is aligned to its length (`RightPartAligned`). That
the frames read in advance stay inside the BAR is where the size of a BAR must
be a multiple of 64 (`FramesInBar`).

### Only model-checked

Liveness (`CallsReturn` of the ring and of the allocator, `PipeCallsReturn`,
`DataIsReceived`, `CallReturns`, `SendReturns`, `OperationReturns`) rests on
fairness, and so on ENABLED, which is out of the prover's reach. Every other
property of the runs in section 3 is a theorem, under the hypotheses in the
tables above. Two runs go beyond these: `rx_apis` checks `NoLostWakeup` for
programs that prefetch and free partially, and that they leave room in the ring
for a bounded number of unnecessary head writes. The two properties that TLC finds violated are about the
configurations and the semaphore that two of these hypotheses exclude.

## 5. Where the code and its documentation disagree

Two have a run in which TLC finds the violation.

1. `tx_path_config`: after its wait, `send_config` restores the number of
   unreported completions (`pcie.cpp:603`). Data completions reaped meanwhile
   are forgotten, their pipe never gets the bytes back, and `AllocateBuf`,
   which blocks "until the buffer is at least this big" (`pipe.h:813`), blocks
   for ever. `tx_path_shared` shows that the error is on the safe side: bytes
   come back late, never early.
2. `allocator_sem`: `intel_fpga_pcie_dma_probe` ends with an `up` (`dma.c:256`)
   of a semaphore that `probe` has initialised to one and that nobody has taken.
   In the default build (`software/kernel/intel_fpga_pcie_ip_params.h:60`) two
   threads fit into every critical section of the device, and two processes get
   the same notification ring. The runs `allocator` and `kernel_driver` and the
   theorems are about a driver built without DMA support; with it, the number
   of handles drifts as well.

The following show when an assumption of a module is dropped.

* `send_config` promises to "Wait for request to be consumed" (`pcie.cpp:596`)
  but waits for *any* completion: a data request sent before ends the wait.
* With a full notification ring (`MaxAsked` large) the descriptor queue manager
  "only prevent[s] the descriptor from being sent"
  (`rx_dsc_queue_manager.sv:75`) by clearing `needs_dsc`, but a descriptor-only
  entry is sent by `drop_meta` alone (`fpga_to_cpu.sv:338`): a notification
  appears in a slot that was never reserved (`NotifRingOrder`).
* `PipeCallers = 2`: `alloc_pipe` marks its pipe after `up()`
  (`ioctl.c:600-611`), so two processes can get the same pipe or erase each
  other's bits (`PipeExclusive`).
* `LastFirst = FALSE`: freeing a fallback pipe that is not the last lowers a
  count from which the NIC derives *which* pipes are fallback pipes
  (`ioctl.c:665`, `config.cpp:188`; `FallbackSteering`).
* `Restart = TRUE`: an end that is created anew next to a running one guesses a
  wrong index when the set elements wrap or are none; a consumer that joins a
  queue whose first element is set is refused as if the queue were full
  (`queue.h:349-362`, `436-450`). `Overlap = TRUE`: the creator's `memset` wipes
  a message that the other end has already pushed (`queue.h:272`). Both violate
  `QueuesAreFifo`.
* `Discipline = FALSE`: after a send that timed out, its late completion
  satisfies the next send; sending one direction resets the other's `last_ptr`
  (`dma.c:458`). A send then "succeeds" with transfers not performed, against
  "Send all queued DMA transfers and wait for their completions"
  (`intel_fpga_pcie_api.hpp:311`). A completion seen at the very poll at which
  the countdown ends is reported as a timeout.
* `Faults` with `"enabled"`: the label of a failed `pci_enable_device` stands
  after those that free the two status vectors (`setup.c:232`). With `"node"`: a
  failed `device_create` undoes `chr_init`, which then returns 0. With
  `"kthread"`: its failure label does not unregister the driver, and the test
  for failure compares an error pointer with `<= 0` (`event_queue.c:65`). With
  `"mask"`: `set_kmem_size` returns with the semaphore held (`ioctl.c:891-893`).
* `KmemUsers` with two handles: the address registers are written after the
  `up`, and may end up with halves of two addresses (`ioctl.c:918-933`). After a
  failed allocation the TX register holds the old base plus the *new* RX size,
  which the model does not tell apart.

Observations without a model:

* "previously allocated memory will be freed and replaced" (`ioctl.c:848`): it
  is replaced and never freed. `MappedAllocated` shows why freeing it there
  would be wrong while a user has it mapped.
* `NextRxPipeToRecv` prefetches before the program has freed anything, so two
  descriptors of one pipe can be under way, although the header of
  `pkt_queue_manager.sv:9-10` says there is at most one per queue.
* `next_pipe_` stays set once `NextRxPipeToRecv` returned a pipe; a later
  `Recv` on it no longer looks for notifications (`pipe.cpp:77`).
* `TxPipe::pending_transmission()` returns `kMaxCapacity` when nothing is
  pending (`pipe.h:909-915`), `RxPipe::capacity()` returns the free space
  (`pipe.h:590-599`), and the initial capacity of a `TxPipe` exceeds
  `kMaxCapacity`.
* `notification_buf_free` returns the id of a ring before it disables the
  ring's registers (`pcie.cpp:639`), and that of the software backend does not
  send the id at all (`dev_backend.h:287`).
* `setup.h:172-174` says that only `chr_open_cnt` needs synchronisation.

## 6. Not modelled

* Hardware timing: a pipeline stage is atomic. In particular the bypass of
  `queue_manager.sv` (a table that lags two packets behind), the status bits of
  `cpu_to_fpga.sv:258-404` and the split of a descriptor fetch at the end of
  the ring are inside single actions.
* Payloads, parsing, hashing, the rate limiter and timestamps: no state shared
  with the rings.
* Traffic to a pipe that is being opened or closed; disabled pipes; the
  descriptor-per-packet mode.
* In the driver: access to configuration space, the calls that only read, the
  body of the event thread, removal of a device that is in use, version 1 of
  the DMA engine. The user library wraps one system call per function.
* Memory ordering of the CPU: the code relies on compiler barriers
  (`helpers.h:73`) and the ordering of x86; loads and stores of the thread are
  sequential here.
* The socket API, which offers the same functions of `pcie.cpp` in an older
  form, message and packet iterators (a batch is a series of `ConfirmBytes`,
  covered by partial receives), printing, address translation, examples,
  vendored drivers and IP.

## 7. Plan

Done: `TxRing`, `TxPath`, `RtxPath`, `RxNic`, `RxPath`, `PipeAllocator`,
`DriverLife`, `DeviceFile`, `BarAccess`, `KernelDma`, `SharedQueue` and
`SoftBackend` with its refinement of `Fifo`, all model-checked, and their safety
proved as section 4 says. Left, in this order:

1. `RxLifecycle`: `enso_pipe_init`/`enso_pipe_free` and `notification_buf_init`/
   `_free` register by register against traffic, extending `RxPath`.
2. `QueueManager`: the pipeline of `queue_manager.sv` with its bypass, shown to
   implement the atomic step that `RxNic` takes.
3. `FlowTable`: insertion with relocation against lookups.
4. Theorems: `Room` for programs that free partially or prefetch, from `MaxAsked`;
   `~Stuck` with configurations, from a bound on the length of requests.

New questions about a component extend its present runs where they can.
