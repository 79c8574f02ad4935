---------------------------- MODULE SoftBackend -----------------------------
(***************************************************************************)
(* The device backend that talks to a data plane in another process        *)
(* (src/backends/software/dev_backend.h): every operation of DevBackend is *)
(* a message on one shared-memory queue and, but for mmio_write32, a       *)
(* blocking wait for the answer on another.  The application is one        *)
(* thread; the other process is external, modelled from the messages it    *)
(* must understand: it serves them one by one, in order.                   *)
(***************************************************************************)
EXTENDS SharedQueue

CONSTANT Vals        \* register values and ids carried by messages

\* The message kinds of NotifType.  "reg" and "rr" are the two pieces of state
\* of the device that are written and read back.
Types == {"kWrite", "kRead", "kTranslAddr", "kGetNbFallbackQueues",
          "kSetRrStatus", "kGetRrStatus", "kAllocateNotifBuf",
          "kFreeNotifBuf", "kAllocatePipe", "kFreePipe"}
Messages == [type : Types, value : Vals]

ASSUME BackendAssumption ==
  /\ Queues = {"to", "from"} /\ Data = Messages /\ 0 \in Vals /\ 1 \in Vals

VARIABLES
  app,         \* what the application's thread does
  req,         \* the message of the operation it is in
  srv,         \* what the other process does
  regs,        \* device state, at the other process
  view         \* what the application last set it to

appVars == <<app, req, view>>
srvVars == <<srv, regs>>
vars == <<queueVars, appVars, srvVars>>

NoMsg == [type |-> "kWrite", value |-> 0]

BackendTypeOK ==
  /\ QueueTypeOK
  /\ app \in {"down", "to", "from", "failed", "idle", "push", "wait", "return",
              "exit"}
  /\ srv \in {"down", "to", "from", "failed", "serve", "reply", "done", "exit"}
  /\ req \in Messages
  /\ regs \in [{"reg", "rr"} -> Vals] /\ view \in [{"reg", "rr"} -> Vals]

Init ==
  /\ QueueInit
  /\ app = "down" /\ req = NoMsg /\ view = [r \in {"reg", "rr"} |-> 0]
  /\ srv = "down" /\ regs = [r \in {"reg", "rr"} |-> 0]

-----------------------------------------------------------------------------
(* DevBackend::Init: the producer first, then the consumer.  The queues are *)
(* thread_local: after a failure they last until the thread ends.           *)

AppStart == app = "down" /\ Scan("to", "prod") /\ app' = "to"
                         /\ UNCHANGED <<req, view, srvVars>>

AppCreates ==
  /\ \/ app = "to" /\ InitStep("to", "prod")
     \/ app = "from" /\ InitStep("from", "cons")
  /\ UNCHANGED <<appVars, srvVars>>

AppJoinsFrom == app = "to" /\ pc["to"]["prod"] = "open"
                           /\ Scan("from", "cons") /\ app' = "from"
                           /\ UNCHANGED <<req, view, srvVars>>

\* The application knows what the device was last set to.
AppReady ==
  /\ app = "from" /\ pc["from"]["cons"] = "open"
  /\ app' = "idle" /\ view' = regs
  /\ UNCHANGED <<queueVars, req, srvVars>>

AppFails ==
  /\ \/ app = "to" /\ pc["to"]["prod"] = "closed"
     \/ app = "from" /\ pc["from"]["cons"] = "closed"
  /\ app' = "failed"
  /\ UNCHANGED <<queueVars, req, view, srvVars>>

\* The thread ends, between operations or after a failure.
AppExit ==
  /\ app \in {"idle", "failed"}
  /\ app' = "exit"
  /\ UNCHANGED <<queueVars, req, view, srvVars>>

AppCloses ==
  /\ app = "exit"
  /\ \/ Close("from", "cons") \/ (pc["from"]["cons"] = "closed" /\ Close("to", "prod"))
  /\ UNCHANGED <<appVars, srvVars>>

AppDown ==
  /\ app = "exit" /\ pc["to"]["prod"] = "closed" /\ pc["from"]["cons"] = "closed"
  /\ app' = "down"
  /\ UNCHANGED <<queueVars, req, view, srvVars>>

-----------------------------------------------------------------------------
(* The operations.                                                          *)

Call(type, value) ==
  /\ app = "idle"
  /\ app' = "push" /\ req' = [type |-> type, value |-> value]
  /\ UNCHANGED <<queueVars, view, srvVars>>

mmio_write32(v) == Call("kWrite", v)
mmio_read32 == Call("kRead", 0)
ConvertVirtAddrToDevAddr == Call("kTranslAddr", 0)
GetNbFallbackQueues == Call("kGetNbFallbackQueues", 0)
SetRrStatus(v) == Call("kSetRrStatus", v)
GetRrStatus == Call("kGetRrStatus", 0)
AllocateNotifBuf == Call("kAllocateNotifBuf", 0)
FreeNotifBuf == Call("kFreeNotifBuf", 0)     \* the id is not sent
AllocatePipe == Call("kAllocatePipe", 0)
FreePipe == Call("kFreePipe", 0)

\* Messages the other process answers.
Answered(type) == type # "kWrite"

\* Mutant: mmio_read32 posts its message and does not wait.
WaitsNotRead(type) == type \notin {"kWrite", "kRead"}

\* Operations that wait for an answer: all but mmio_write32.
Waits(type) == type # "kWrite"

\* The part of the device an operation sets or gets.
Sets == [kWrite |-> "reg", kSetRrStatus |-> "rr"]
Gets == [kRead |-> "reg", kGetRrStatus |-> "rr"]

\* Push until the queue takes the message.
AppPush ==
  /\ app = "push"
  /\ Push("to", req)
  /\ app' = IF Waits(req.type) THEN "wait" ELSE "idle"
  /\ view' = IF req.type \in DOMAIN Sets
             THEN [view EXCEPT ![Sets[req.type]] = req.value] ELSE view
  /\ req' = IF Waits(req.type) THEN req ELSE NoMsg
  /\ UNCHANGED srvVars

AppPopRead == app = "wait" /\ PopRead("from") /\ UNCHANGED <<appVars, srvVars>>

AppPop ==
  /\ app = "wait"
  /\ PopClear("from")
  /\ app' = "return"
  /\ UNCHANGED <<req, view, srvVars>>

\* The asserts on the answer, and the return.
AppReturn ==
  /\ app = "return"
  /\ app' = "idle" /\ req' = NoMsg
  /\ Forget("from")
  /\ UNCHANGED <<view, srvVars>>

-----------------------------------------------------------------------------
(* The other process, external.  It outlives the application.               *)

SrvStart == srv = "down" /\ Scan("to", "cons") /\ srv' = "to"
                         /\ UNCHANGED <<appVars, regs>>

SrvCreates ==
  /\ \/ srv = "to" /\ InitStep("to", "cons")
     \/ srv = "from" /\ InitStep("from", "prod")
  /\ UNCHANGED <<appVars, srvVars>>

SrvJoinsFrom == srv = "to" /\ pc["to"]["cons"] = "open"
                           /\ Scan("from", "prod") /\ srv' = "from"
                           /\ UNCHANGED <<appVars, regs>>

SrvReady ==
  /\ srv = "from" /\ pc["from"]["prod"] = "open"
  /\ srv' = "serve"
  /\ UNCHANGED <<queueVars, appVars, regs>>

SrvFails ==
  /\ \/ srv = "to" /\ pc["to"]["cons"] = "closed"
     \/ srv = "from" /\ pc["from"]["prod"] = "closed"
  /\ srv' = "exit"
  /\ UNCHANGED <<queueVars, appVars, regs>>

SrvPopRead == srv = "serve" /\ PopRead("to") /\ UNCHANGED <<appVars, srvVars>>

SrvPop ==
  /\ srv = "serve"
  /\ PopClear("to")
  /\ LET r == held["to"]
     IN  /\ regs' = IF r.type \in DOMAIN Sets
                    THEN [regs EXCEPT ![Sets[r.type]] = r.value] ELSE regs
         /\ srv' = IF Answered(r.type) THEN "reply" ELSE "done"
  /\ UNCHANGED appVars

\* The answer has the type of the request, which is what Pop returned last.
SrvReply ==
  /\ srv = "reply"
  /\ LET t == out["to"].type
     IN  Push("from", [type |-> t, value |-> IF t \in DOMAIN Gets
                                             THEN regs[Gets[t]] ELSE 0])
  /\ srv' = "done"
  /\ UNCHANGED <<appVars, regs>>

SrvServed ==
  srv = "done" /\ Forget("to") /\ srv' = "serve" /\ UNCHANGED <<appVars, regs>>

SrvExit ==
  /\ srv = "serve" /\ pc["to"]["cons"] = "open" /\ app = "down"
  /\ srv' = "exit" /\ regs' = [r \in {"reg", "rr"} |-> 0]
  /\ UNCHANGED <<queueVars, appVars>>

SrvCloses ==
  /\ srv = "exit"
  /\ Close("to", "cons") \/ Close("from", "prod")
  /\ UNCHANGED <<appVars, srvVars>>

SrvDown ==
  /\ srv = "exit" /\ pc["to"]["cons"] = "closed" /\ pc["from"]["prod"] = "closed"
  /\ srv' = "down"
  /\ UNCHANGED <<queueVars, appVars, regs>>

-----------------------------------------------------------------------------
AppInCall == AppPush \/ AppPopRead \/ AppPop \/ AppReturn

SrvStep == SrvPopRead \/ SrvPop \/ SrvReply \/ SrvServed

Next ==
  \/ AppStart \/ AppCreates \/ AppJoinsFrom \/ AppReady \/ AppFails
  \/ AppExit \/ AppCloses \/ AppDown
  \/ mmio_read32 \/ ConvertVirtAddrToDevAddr \/ GetNbFallbackQueues
  \/ GetRrStatus \/ AllocateNotifBuf \/ FreeNotifBuf
  \/ AllocatePipe \/ FreePipe
  \/ \E v \in Vals : mmio_write32(v) \/ SetRrStatus(v)
  \/ AppInCall
  \/ SrvStart \/ SrvCreates \/ SrvJoinsFrom \/ SrvReady \/ SrvFails
  \/ SrvStep \/ SrvExit \/ SrvCloses \/ SrvDown

\* Both sides poll without sleeping while they are in an operation or serving.
Spec == Init /\ [][Next]_vars
FairSpec == Spec /\ WF_vars(AppInCall) /\ WF_vars(SrvStep)

-----------------------------------------------------------------------------
(* Properties.                                                              *)

ToFifo ==
  INSTANCE Fifo WITH Bound <- Capacity, q <- Contents("to"), out <- out["to"],
                     ends <- {e \in Ends : Attached("to", e)}
FromFifo ==
  INSTANCE Fifo WITH Bound <- Capacity, q <- Contents("from"),
                     out <- out["from"],
                     ends <- {e \in Ends : Attached("from", e)}

\* Each queue is a bounded FIFO between the ends attached to it: what Push stored
\* is popped once and in order, and no step of creating, joining ("Synchronize
\* the pointer in case the queue is not empty", queue.h:347 and 434) or leaving
\* loses or invents a message while an end is attached.
QueuesAreFifo == ToFifo!Spec /\ FromFifo!Spec

\* The asserts of every operation: an answer is of the type asked for.  A
\* register reads as the last value written although writes are not answered,
\* and so does the round-robin status.
AnswersMatch ==
  app = "return" =>
    /\ out["from"].type = req.type
    /\ req.type \in DOMAIN Gets => out["from"].value = view[Gets[req.type]]

\* An operation returns once the other process is there.
OperationReturns == (app \in {"push", "wait"} /\ srv = "serve") ~> app = "idle"
=============================================================================
