---------------------------- MODULE PipeAllocator ----------------------------
(***************************************************************************)
(* Allocation of notification rings and pipes among processes, and the     *)
(* steering of packets that match no flow.                                 *)
(*                                                                         *)
(* The kernel module keeps, per device, a bit vector of rings, one of      *)
(* pipes and the number of fallback pipes, and the same three per open     *)
(* file (software/kernel/linux/intel_fpga_pcie_ioctl.c and _chr.c).  The   *)
(* library (src/pcie.cpp, src/enso/config.cpp) allocates one ring per      *)
(* Device and then pipes; after each change it reads the number of         *)
(* fallback pipes back and configures the NIC's flow director with it      *)
(* (hardware/src/flow_director.sv).                                        *)
(*                                                                         *)
(* One device; a handle is one open file, used by one thread that passes   *)
(* ids it owns and valid addresses, so that no copy to or from user space  *)
(* fails.                                                                  *)
(***************************************************************************)
EXTENDS Integers, FiniteSets, FiniteSetsExt

CONSTANTS
  Handles,      \* open files
  NbRings,      \* MAX_NB_APPS
  NbPipes,      \* MAX_NB_FLOWS
  ByteBits,     \* pipes that share a byte of the bit vector
  Word,         \* values of a uint32_t counter
  PipeCallers,  \* handles that change pipes at the same time
  LastFirst,    \* TRUE: the last fallback pipe allocated is given up first
  DMA_SUPPORTED \* the macro of intel_fpga_pcie_ip_params.h

ASSUME AllocatorSizes ==
  /\ IsFiniteSet(Handles)
  /\ NbRings \in Nat \ {0} /\ NbPipes \in Nat \ {0}
  /\ ByteBits \in Nat \ {0} /\ NbPipes % ByteBits = 0
  /\ Word \in Nat /\ Word > NbPipes
  /\ PipeCallers \in Nat \ {0} /\ LastFirst \in BOOLEAN
  /\ DMA_SUPPORTED \in BOOLEAN

Rings == 0 .. NbRings - 1
Pipes == 0 .. NbPipes - 1
NbBytes == NbPipes \div ByteBits

\* probe initialises the semaphore with one unit; intel_fpga_pcie_dma_probe,
\* which never took it, ends with an up.
SemUnits == IF DMA_SUPPORTED THEN 2 ELSE 1

VARIABLES
  sem,             \* units left of the device semaphore
  notif_q_status,  \* rings marked in the device's bit vector
  pipe_status,     \* pipes marked in the device's bit vector
  nb_fb_queues,    \* the device's count of fallback pipes
  enable_rr,       \* the device's round-robin status
  own_rings,       \* per handle: notif_q_status
  own_pipes,       \* per handle: pipe_status
  own_fb,          \* per handle: nb_fb_queues
  pc,              \* per handle: where its thread is
  op,              \* per handle: the system call it is in
  arg,             \* per handle: ring, pipe or byte the call works on
  seen,            \* per handle: the byte of pipe_status it has loaded
  cfg,             \* per handle: the configuration it is about to send
  nic,             \* registers of the flow director
  fb,              \* history: pipes allocated as fallback and not released
  lost,            \* history: rings and pipes whose owner's close was cut short
  stale            \* history: no configuration was sent since a crash

devVars == <<notif_q_status, pipe_status, nb_fb_queues, enable_rr>>
ownVars == <<own_rings, own_pipes, own_fb>>
callVars == <<op, arg, seen, cfg>>
histVars == <<fb, lost, stale>>
vars == <<sem, devVars, ownVars, pc, callVars, nic, histVars>>

Ops == {"none", "open", "alloc_notif_buffer", "free_notif_buffer", "alloc_fb",
        "alloc_pipe", "free_pipe", "set_rr", "clear_rr", "release"}
PCs == {"closed", "idle", "down", "locked", "take", "mark", "store",
        "unmark", "release", "released", "get_rr", "get_nb", "send"}
Configs == [nb : 0 .. Word - 1, rr : BOOLEAN]

TypeOK ==
  /\ sem \in Nat /\ enable_rr \in BOOLEAN
  /\ notif_q_status \subseteq Rings /\ pipe_status \subseteq Pipes
  /\ nb_fb_queues \in 0 .. Word - 1
  /\ own_rings \in [Handles -> SUBSET Rings]
  /\ own_pipes \in [Handles -> SUBSET Pipes]
  /\ own_fb \in [Handles -> 0 .. Word - 1]
  /\ pc \in [Handles -> PCs] /\ op \in [Handles -> Ops]
  /\ arg \in [Handles -> Nat] /\ seen \in [Handles -> SUBSET Pipes]
  /\ cfg \in [Handles -> Configs] /\ nic \in Configs
  /\ fb \subseteq Pipes
  /\ lost \in [rings : SUBSET Rings, pipes : SUBSET Pipes, fb : 0 .. Word - 1]
  /\ stale \in BOOLEAN

NoConfig == [nb |-> 0, rr |-> FALSE]

Init ==
  /\ sem = SemUnits /\ enable_rr = FALSE
  /\ notif_q_status = {} /\ pipe_status = {} /\ nb_fb_queues = 0
  /\ own_rings = [f \in Handles |-> {}] /\ own_pipes = [f \in Handles |-> {}]
  /\ own_fb = [f \in Handles |-> 0]
  /\ pc = [f \in Handles |-> "closed"] /\ op = [f \in Handles |-> "none"]
  /\ arg = [f \in Handles |-> 0] /\ seen = [f \in Handles |-> {}]
  /\ cfg = [f \in Handles |-> NoConfig] /\ nic = NoConfig
  /\ fb = {} /\ lost = [rings |-> {}, pipes |-> {}, fb |-> 0]
  /\ stale = FALSE

-----------------------------------------------------------------------------
(* System calls.                                                            *)

\* Pipes whose status bits share the byte of pipe p.
Byte(p) == {q \in Pipes : q \div ByteBits = p \div ByteBits}

\* Calls that change pipes or read their count; free_notif_buffer goes on to
\* close the file.
PipeOps == {"alloc_fb", "alloc_pipe", "free_pipe", "set_rr", "clear_rr",
            "free_notif_buffer", "release"}

MayCall(o) ==
  o \in PipeOps => Cardinality({f \in Handles : op[f] \in PipeOps}) < PipeCallers

\* With LastFirst, giving up the pipes S leaves no later fallback pipe behind.
MayGiveUp(S) == LastFirst => \A p \in S \cap fb, q \in fb \ S : q < p

\* The thread enters down_interruptible.
Enter(f, from, o, x) ==
  /\ pc[f] = from /\ MayCall(o)
  /\ pc' = [pc EXCEPT ![f] = "down"] /\ op' = [op EXCEPT ![f] = o]
  /\ arg' = [arg EXCEPT ![f] = x]
  /\ UNCHANGED <<sem, devVars, ownVars, seen, nic, histVars>>

Return(f, to) ==
  /\ pc' = [pc EXCEPT ![f] = to] /\ op' = [op EXCEPT ![f] = "none"]
  /\ arg' = [arg EXCEPT ![f] = 0]

Open(f) == Enter(f, "closed", "open", 0) /\ UNCHANGED cfg

\* notification_buf_init: a Device has one ring.
AllocateNotifBuf(f) ==
  /\ own_rings[f] = {}
  /\ Enter(f, "idle", "alloc_notif_buffer", 0) /\ UNCHANGED cfg

\* enso_pipe_init and enso_pipe_free of a pipe of a Device.
AllocatePipe(f, o) ==
  /\ own_rings[f] # {} /\ o \in {"alloc_fb", "alloc_pipe"}
  /\ Enter(f, "idle", o, 0) /\ UNCHANGED cfg

FreePipe(f, p) ==
  /\ p \in own_pipes[f] /\ MayGiveUp({p})
  /\ Enter(f, "idle", "free_pipe", p) /\ UNCHANGED cfg

\* set_round_robin reads the count before it sets the status.
SetRoundRobin(f, o) ==
  /\ own_rings[f] # {} /\ o \in {"set_rr", "clear_rr"}
  /\ Enter(f, "idle", o, 0)
  /\ cfg' = [cfg EXCEPT ![f] = [nb |-> nb_fb_queues, rr |-> o = "set_rr"]]

\* ~Device: notification_buf_free, once the pipes are freed.
FreeNotifBuf(f) ==
  /\ own_rings[f] # {} /\ own_pipes[f] = {}
  /\ \E r \in own_rings[f] : Enter(f, "idle", "free_notif_buffer", r)
  /\ UNCHANGED cfg

\* The file is closed by the library, or by the kernel when the process dies.
Close(f) ==
  /\ MayGiveUp(own_pipes[f])
  /\ Enter(f, "idle", "release", 0) /\ UNCHANGED cfg

Down(f) ==
  /\ pc[f] = "down" /\ sem > 0
  /\ sem' = sem - 1
  /\ pc' = [pc EXCEPT ![f] = "locked"]
  /\ UNCHANGED <<devVars, ownVars, callVars, nic, histVars>>

\* A signal ends the wait.  An ioctl is restarted; a file whose open or close
\* was cut short is gone, and what it owned stays marked.
Interrupted(f) ==
  /\ pc[f] = "down" /\ sem = 0 /\ op[f] \in {"open", "release"}
  /\ Return(f, "closed")
  /\ lost' = [rings |-> lost.rings \cup own_rings[f],
              pipes |-> lost.pipes \cup own_pipes[f],
              fb |-> (lost.fb + own_fb[f]) % Word]
  /\ own_rings' = [own_rings EXCEPT ![f] = {}]
  /\ own_pipes' = [own_pipes EXCEPT ![f] = {}]
  /\ own_fb' = [own_fb EXCEPT ![f] = 0]
  /\ stale' = (stale \/ own_pipes[f] # {})
  /\ UNCHANGED <<sem, devVars, seen, cfg, nic, fb>>

Locked(f, o) == pc[f] = "locked" /\ op[f] = o

Up(f, to) == sem' = sem + 1 /\ Return(f, to)

chr_open(f) ==
  /\ Locked(f, "open")
  /\ Up(f, "idle")
  /\ UNCHANGED <<devVars, ownVars, seen, cfg, nic, histVars>>

-----------------------------------------------------------------------------
(* Notification rings: changed under the semaphore only.                    *)

\* Rings that no bit of the device's vector marks.
FreeRings == Rings \ notif_q_status

\* Mutant: the semaphore is released before the bit is set, as in alloc_pipe.
AllocNotifEarlyUp(f) ==
  /\ Locked(f, "alloc_notif_buffer")
  /\ IF FreeRings # {}
     THEN /\ pc' = [pc EXCEPT ![f] = "take"]
          /\ arg' = [arg EXCEPT ![f] = Min(FreeRings)]
          /\ sem' = sem + 1
          /\ UNCHANGED op
     ELSE Up(f, "idle")
  /\ UNCHANGED <<devVars, ownVars, seen, cfg, nic, histVars>>

\* Mutant: it tries again when no ring is free.
AllocNotifRetries(f) ==
  /\ Locked(f, "alloc_notif_buffer")
  /\ IF FreeRings # {}
     THEN /\ pc' = [pc EXCEPT ![f] = "take"]
          /\ arg' = [arg EXCEPT ![f] = Min(FreeRings)]
          /\ UNCHANGED sem
     ELSE /\ pc' = [pc EXCEPT ![f] = "down"]
          /\ sem' = sem + 1
          /\ UNCHANGED arg
  /\ UNCHANGED <<op, devVars, ownVars, seen, cfg, nic, histVars>>

\* The scan for the first free ring; -ENOMEM if there is none.
alloc_notif_buffer(f) ==
  /\ Locked(f, "alloc_notif_buffer")
  /\ IF FreeRings # {}
     THEN /\ pc' = [pc EXCEPT ![f] = "take"]
          /\ arg' = [arg EXCEPT ![f] = Min(FreeRings)]
          /\ UNCHANGED <<sem, op>>
     ELSE Up(f, "idle")
  /\ UNCHANGED <<devVars, ownVars, seen, cfg, nic, histVars>>

\* The ring found is marked in both vectors.
TakeRing(f) ==
  /\ pc[f] = "take"
  /\ notif_q_status' = notif_q_status \cup {arg[f]}
  /\ own_rings' = [own_rings EXCEPT ![f] = @ \cup {arg[f]}]
  /\ Up(f, "idle")
  /\ UNCHANGED <<pipe_status, nb_fb_queues, enable_rr, own_pipes, own_fb, seen,
                 cfg, nic, histVars>>

\* The bit is cleared without a check of the owner; notification_buf_free then
\* deletes the DevBackend, which closes the file.
free_notif_buffer(f) ==
  /\ Locked(f, "free_notif_buffer")
  /\ notif_q_status' = notif_q_status \ {arg[f]}
  /\ own_rings' = [own_rings EXCEPT ![f] = @ \ {arg[f]}]
  /\ sem' = sem + 1
  /\ pc' = [pc EXCEPT ![f] = "down"] /\ op' = [op EXCEPT ![f] = "release"]
  /\ arg' = [arg EXCEPT ![f] = 0]
  /\ UNCHANGED <<pipe_status, nb_fb_queues, enable_rr, own_pipes, own_fb, seen,
                 cfg, nic, histVars>>

-----------------------------------------------------------------------------
(* Pipes.  alloc_pipe marks the pipe it chose after it has released the     *)
(* semaphore, so every change of a byte of pipe_status is a load and a      *)
(* store that can race with another.                                        *)

Unmarked == Pipes \ pipe_status

\* Fallback pipes come from the front and must be contiguous; the count is
\* increased at once.
alloc_fb(f) ==
  /\ Locked(f, "alloc_fb")
  /\ IF Unmarked # {} /\ Min(Unmarked) = nb_fb_queues
     THEN /\ nb_fb_queues' = (nb_fb_queues + 1) % Word
          /\ own_fb' = [own_fb EXCEPT ![f] = (@ + 1) % Word]
          /\ pc' = [pc EXCEPT ![f] = "mark"]
          /\ arg' = [arg EXCEPT ![f] = Min(Unmarked)]
          /\ sem' = sem + 1
          /\ UNCHANGED op
     ELSE Up(f, "idle") /\ UNCHANGED <<nb_fb_queues, own_fb>>
  /\ UNCHANGED <<notif_q_status, pipe_status, enable_rr, own_rings, own_pipes,
                 seen, cfg, nic, histVars>>

\* Other pipes come from the back.
alloc_pipe(f) ==
  /\ Locked(f, "alloc_pipe")
  /\ IF Unmarked # {}
     THEN /\ pc' = [pc EXCEPT ![f] = "mark"]
          /\ arg' = [arg EXCEPT ![f] = Max(Unmarked)]
          /\ sem' = sem + 1
          /\ UNCHANGED op
     ELSE Up(f, "idle")
  /\ UNCHANGED <<devVars, ownVars, seen, cfg, nic, histVars>>

MarkLoad(f) ==
  /\ pc[f] = "mark"
  /\ seen' = [seen EXCEPT ![f] = pipe_status \cap Byte(arg[f])]
  /\ pc' = [pc EXCEPT ![f] = "store"]
  /\ UNCHANGED <<sem, devVars, ownVars, op, arg, cfg, nic, histVars>>

\* A load of pipe_status by f, then what f does with it, is stored.
StoreByte(f, p, value) ==
  /\ pipe_status' = (pipe_status \ Byte(p)) \cup value
  /\ seen' = [seen EXCEPT ![f] = {}]

\* Mutant: the byte is overwritten instead of extended by one bit.
MarkStoreOverwrites(f) ==
  /\ pc[f] = "store" /\ op[f] \in {"alloc_fb", "alloc_pipe"}
  /\ StoreByte(f, arg[f], {arg[f]})
  /\ own_pipes' = [own_pipes EXCEPT ![f] = @ \cup {arg[f]}]
  /\ fb' = IF op[f] = "alloc_fb" THEN fb \cup {arg[f]} ELSE fb
  /\ pc' = [pc EXCEPT ![f] = "get_rr"]
  /\ UNCHANGED <<sem, notif_q_status, nb_fb_queues, enable_rr, own_rings, own_fb,
                 op, arg, cfg, nic, lost, stale>>

\* enso_pipe_init goes on to write the registers of the pipe and then updates
\* the fallback configuration, for every kind of pipe.
MarkStore(f) ==
  /\ pc[f] = "store" /\ op[f] \in {"alloc_fb", "alloc_pipe"}
  /\ StoreByte(f, arg[f], seen[f] \cup {arg[f]})
  /\ own_pipes' = [own_pipes EXCEPT ![f] = @ \cup {arg[f]}]
  /\ fb' = IF op[f] = "alloc_fb" THEN fb \cup {arg[f]} ELSE fb
  /\ pc' = [pc EXCEPT ![f] = "get_rr"]
  /\ UNCHANGED <<sem, notif_q_status, nb_fb_queues, enable_rr, own_rings, own_fb,
                 op, arg, cfg, nic, lost, stale>>

free_pipe(f) ==
  /\ Locked(f, "free_pipe")
  /\ seen' = [seen EXCEPT ![f] = pipe_status \cap Byte(arg[f])]
  /\ pc' = [pc EXCEPT ![f] = "unmark"]
  /\ UNCHANGED <<sem, devVars, ownVars, op, arg, cfg, nic, histVars>>

\* The counts drop when the pipe is one of the first nb_fb_queues.
FreeStore(f) ==
  /\ pc[f] = "unmark"
  /\ StoreByte(f, arg[f], seen[f] \ {arg[f]})
  /\ own_pipes' = [own_pipes EXCEPT ![f] = @ \ {arg[f]}]
  /\ fb' = fb \ {arg[f]}
  /\ LET n == IF arg[f] < nb_fb_queues THEN 1 ELSE 0
     IN  /\ nb_fb_queues' = (nb_fb_queues - n) % Word
         /\ own_fb' = [own_fb EXCEPT ![f] = (@ - n) % Word]
  /\ sem' = sem + 1
  /\ pc' = [pc EXCEPT ![f] = "get_rr"]
  /\ UNCHANGED <<notif_q_status, enable_rr, own_rings, op, arg, cfg, nic, lost,
                 stale>>

-----------------------------------------------------------------------------
(* chr_release: rings, then pipes byte by byte, then the count.             *)

\* Mutant: the rings of the file stay marked.
ReleaseKeepsRings(f) ==
  /\ Locked(f, "release")
  /\ own_rings' = [own_rings EXCEPT ![f] = {}]
  /\ pc' = [pc EXCEPT ![f] = "release"]
  /\ UNCHANGED <<sem, devVars, own_pipes, own_fb, callVars, nic, histVars>>

chr_release(f) ==
  /\ Locked(f, "release")
  /\ notif_q_status' = notif_q_status \ own_rings[f]
  /\ own_rings' = [own_rings EXCEPT ![f] = {}]
  /\ pc' = [pc EXCEPT ![f] = "release"]
  /\ UNCHANGED <<sem, pipe_status, nb_fb_queues, enable_rr, own_pipes, own_fb,
                 callVars, nic, histVars>>

ReleaseLoad(f) ==
  /\ pc[f] = "release" /\ arg[f] < NbBytes
  /\ seen' = [seen EXCEPT ![f] = pipe_status \cap Byte(arg[f] * ByteBits)]
  /\ pc' = [pc EXCEPT ![f] = "released"]
  /\ UNCHANGED <<sem, devVars, ownVars, op, arg, cfg, nic, histVars>>

ReleaseStore(f) ==
  /\ pc[f] = "released"
  /\ StoreByte(f, arg[f] * ByteBits, seen[f] \ own_pipes[f])
  /\ arg' = [arg EXCEPT ![f] = @ + 1]
  /\ pc' = [pc EXCEPT ![f] = "release"]
  /\ UNCHANGED <<sem, notif_q_status, nb_fb_queues, enable_rr, ownVars, op, cfg,
                 nic, histVars>>

\* Mutant: the count of fallback pipes is not reduced.
ReleaseDoneKeepsCount(f) ==
  /\ pc[f] = "release" /\ arg[f] = NbBytes
  /\ own_pipes' = [own_pipes EXCEPT ![f] = {}]
  /\ own_fb' = [own_fb EXCEPT ![f] = 0]
  /\ fb' = fb \ own_pipes[f]
  /\ stale' = (stale \/ own_pipes[f] # {})
  /\ Up(f, "closed")
  /\ UNCHANGED <<devVars, own_rings, seen, cfg, nic, lost>>

\* A process that died with pipes sends no configuration.
ReleaseDone(f) ==
  /\ pc[f] = "release" /\ arg[f] = NbBytes
  /\ nb_fb_queues' = (nb_fb_queues - own_fb[f]) % Word
  /\ own_pipes' = [own_pipes EXCEPT ![f] = {}]
  /\ own_fb' = [own_fb EXCEPT ![f] = 0]
  /\ fb' = fb \ own_pipes[f]
  /\ stale' = (stale \/ own_pipes[f] # {})
  /\ Up(f, "closed")
  /\ UNCHANGED <<notif_q_status, pipe_status, enable_rr, own_rings, seen, cfg,
                 nic, lost>>

-----------------------------------------------------------------------------
(* update_fallback_queues_config, and set_round_robin after its ioctl.      *)

set_rr_status(f) ==
  /\ pc[f] = "locked" /\ op[f] \in {"set_rr", "clear_rr"}
  /\ enable_rr' = (op[f] = "set_rr")
  /\ sem' = sem + 1
  /\ pc' = [pc EXCEPT ![f] = "send"]
  /\ UNCHANGED <<notif_q_status, pipe_status, nb_fb_queues, ownVars, callVars,
                 nic, histVars>>

\* Both ioctls that read take no semaphore.
get_rr_status(f) ==
  /\ pc[f] = "get_rr"
  /\ cfg' = [cfg EXCEPT ![f].rr = enable_rr]
  /\ pc' = [pc EXCEPT ![f] = "get_nb"]
  /\ UNCHANGED <<sem, devVars, ownVars, op, arg, seen, nic, histVars>>

get_nb_fallback_queues(f) ==
  /\ pc[f] = "get_nb"
  /\ cfg' = [cfg EXCEPT ![f].nb = nb_fb_queues]
  /\ pc' = [pc EXCEPT ![f] = "send"]
  /\ UNCHANGED <<sem, devVars, ownVars, op, arg, seen, nic, histVars>>

\* send_config returns when the NIC has applied the configuration: there is no
\* data in the ring of the handle.
SendConfig(f) ==
  /\ pc[f] = "send"
  /\ nic' = cfg[f]
  /\ cfg' = [cfg EXCEPT ![f] = NoConfig]
  /\ stale' = FALSE
  /\ Return(f, "idle")
  /\ UNCHANGED <<sem, devVars, ownVars, seen, fb, lost>>

\* Mutant: the mask rounds up to a power of two.
MaskRoundsUp(nb) ==
  IF nb = 0 THEN 0 ELSE Min({2 ^ k : k \in 0 .. nb} \cap nb .. 2 * nb) - 1

\* configure_fallback_queues rounds down to a power of two.
fallback_queue_mask(nb) ==
  IF nb = 0 THEN 0 ELSE Max({2 ^ k : k \in 0 .. nb} \cap 1 .. nb) - 1

\* Pipes to which the flow director sends packets that match no flow, by hash
\* or round robin; none: it drops them.
FallbackTargets == IF nic.nb = 0 THEN {} ELSE 0 .. fallback_queue_mask(nic.nb)

-----------------------------------------------------------------------------
CallStep(f) ==
  \/ chr_open(f) \/ alloc_notif_buffer(f) \/ TakeRing(f)
  \/ free_notif_buffer(f)
  \/ alloc_fb(f) \/ alloc_pipe(f) \/ MarkLoad(f) \/ MarkStore(f)
  \/ free_pipe(f) \/ FreeStore(f)
  \/ chr_release(f) \/ ReleaseLoad(f) \/ ReleaseStore(f) \/ ReleaseDone(f)
  \/ set_rr_status(f) \/ get_rr_status(f) \/ get_nb_fallback_queues(f)
  \/ SendConfig(f)

Next ==
  \E f \in Handles :
    \/ Open(f) \/ AllocateNotifBuf(f) \/ FreeNotifBuf(f) \/ Close(f)
    \/ \E o \in {"alloc_fb", "alloc_pipe"} : AllocatePipe(f, o)
    \/ \E p \in Pipes : FreePipe(f, p)
    \/ \E o \in {"set_rr", "clear_rr"} : SetRoundRobin(f, o)
    \/ Down(f) \/ Interrupted(f) \/ CallStep(f)

Spec == Init /\ [][Next]_vars

\* A thread inside the kernel or the library runs on, and the semaphore serves
\* its waiters in order.
Fairness == \A f \in Handles : WF_vars(CallStep(f)) /\ SF_vars(Down(f))

FairSpec == Spec /\ Fairness

-----------------------------------------------------------------------------
(* Properties.                                                              *)

\* A ring belongs to one handle at most and is marked for as long as it does,
\* although processes open, close and die at any time.
RingExclusive ==
  \A f \in Handles :
    /\ own_rings[f] \subseteq notif_q_status
    /\ \A g \in Handles \ {f} : own_rings[f] \cap own_rings[g] = {}

\* pipe_status keeps "track of which pipe has been allocated"
\* (intel_fpga_pcie_setup.h:180): a pipe belongs to one handle at most and is
\* marked for as long as it does, but for the byte being released.
PipeExclusive ==
  \A f \in Handles :
    /\ op[f] # "release" => own_pipes[f] \subseteq pipe_status
    /\ \A g \in Handles \ {f} : own_pipes[f] \cap own_pipes[g] = {}

Quiet == \A f \in Handles : pc[f] \in {"closed", "idle"}

\* No ring leaks: the device's vector marks exactly the rings that a handle
\* owns or that were lost when the close of their owner was interrupted.
RingsAccounted ==
  notif_q_status = (UNION {own_rings[f] : f \in Handles}) \cup lost.rings

\* Nor does a pipe: between calls, the same holds of pipe_status, and the count
\* of fallback pipes is the sum of the handles' counts and the lost ones.
PipesAccounted ==
  Quiet =>
    /\ pipe_status = (UNION {own_pipes[f] : f \in Handles}) \cup lost.pipes
    /\ nb_fb_queues = (SumFunctionOnSet(own_fb, Handles) + lost.fb) % Word

\* Packets that match no flow reach fallback pipes, and are dropped only if
\* there is none: "If no fallback pipe is currently allocated, packets that do
\* not match any flow are dropped" (docs/primitives/rx_enso_pipe.md:160).
FallbackSteering ==
  Quiet /\ ~stale =>
    /\ FallbackTargets \subseteq fb
    /\ FallbackTargets = {} => fb = {}
    /\ nic.rr = enable_rr

\* No call blocks for ever: every path releases the semaphore.
CallsReturn ==
  \A f \in Handles : pc[f] = "down" ~> pc[f] \in {"idle", "closed"}
=============================================================================
