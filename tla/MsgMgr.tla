------------------------------ MODULE MsgMgr ------------------------------
(***************************************************************************)
(* The message manager of EBBlib on the Unix PIC (l1/MsgMgrPrim.c over     *)
(* l0/EventMgrPrimImp.c, l0/lrt/ulnx/pic.c and pic-unix.c).                *)
(*                                                                         *)
(* One thread per core runs lrt_pic_loop: it blocks in pselect, and on the *)
(* way round runs the reset handler, the IPI handler and the handlers of   *)
(* device vectors.  msgN pushes a message store on the stack of the target *)
(* core under its lock and sends an IPI only when the stack was empty; the *)
(* IPI handler acknowledges, drains the stack, returns every store to the  *)
(* free list of the core that allocated it, and enables the IPI again.     *)
(*                                                                         *)
(* A critical section is two steps: the CAS of spinLock together with the  *)
(* read of the list head (into view), and the write of the head together   *)
(* with spinUnlock.  Between them every other core may take steps, so a    *)
(* list is only safe because of its lock.                                  *)
(***************************************************************************)
EXTENDS Naturals, Sequences, FiniteSets

CONSTANTS Core,       \* event locations
          FirstCore,  \* event location 0, the one that starts the application
          StartAll,   \* app_start_model # APP_START_ONE: all cores start it
          AppMsg,     \* messages application code sends; bounds their number
          Store,      \* the memory EBBPrimMalloc can turn into MsgStores
          None        \* a null pointer, a free lock

ASSUME CoreAssumption  == FirstCore \in Core /\ StartAll \in BOOLEAN
ASSUME NoneAssumption  == None \notin Core \cup AppMsg \cup Store
ASSUME HandlerAssumption == None \notin {"L0", "MsgMgr"}

\* The message L1Prim_start sends from core c to itself is called c.
Msg == AppMsg \cup Core

VARIABLES
  \* CObject(MsgMgrPrim), one representative per core
  queue, qlock,       \* msgqueue (a stack, head first) and msgqueuelock
  freelist, flock,    \* freelist and freelistlock
  reps,               \* reps[c]: the targets findTarget has cached
  root,               \* the cores whose representative is in theRootMM
  \* MsgStore
  home, content,      \* home[s], and the message s carries (id, numargs, args)
  \* the PICs, as sets of cores: the IPI or reset is pending, the IPI vector is
  \* enabled, a SIGINT is pending, a device vector is ready; and the IPI handler
  ipiStatus, resetStatus, enabled, sig, numintr, ipiHandler,
  \* the control state of a core: its handler, and the msgN call it is in
  pc, cur, spc, smsg, sstore, view,
  \* the argument of each msgN call, and the invocations of message handlers
  dest, delivered

repVars   == <<queue, qlock, freelist, flock, reps, root>>
storeVars == <<home, content>>
picVars   == <<ipiStatus, resetStatus, enabled, sig, ipiHandler, numintr>>
callVars  == <<cur, spc, smsg, sstore, view>>
histVars  == <<dest, delivered>>
otherVars == <<repVars, storeVars, callVars, histVars>>
vars      == <<pc, picVars, otherVars>>

-----------------------------------------------------------------------------
(* Control points of lrt_pic_loop and of the handlers it runs.             *)

LoopPC  == {"off", "wait", "reset", "ipi", "vecs", "event"}
StartPC == {"startEvent", "createRep", "addRepOn", "start", "started"}
DrainPC == {"handleEvent", "dequeue", "pop", "call", "msg", "freeMsg", "push"}
PC      == LoopPC \cup StartPC \cup DrainPC \cup {"enableIPI"}

SendPC  == {"none", "findTarget", "allocMsg", "take", "enqueueMsg", "link",
            "dispatchIPI", "wakeup"}

TypeOK ==
  /\ queue \in [Core -> Seq(Store)]    /\ qlock \in [Core -> Core \cup {None}]
  /\ freelist \in [Core -> Seq(Store)] /\ flock \in [Core -> Core \cup {None}]
  /\ reps \in [Core -> SUBSET Core]    /\ root \subseteq Core
  /\ home \in [Store -> Core \cup {None}]
  /\ content \in [Store -> Msg \cup {None}]
  /\ ipiStatus \subseteq Core /\ resetStatus \subseteq Core
  /\ enabled \subseteq Core /\ sig \subseteq Core /\ numintr \subseteq Core
  /\ ipiHandler \in [Core -> {"L0", "MsgMgr", None}]
  /\ pc \in [Core -> PC]               /\ spc \in [Core -> SendPC]
  /\ cur \in [Core -> Store \cup {None}]
  /\ smsg \in [Core -> Msg \cup {None}]
  /\ sstore \in [Core -> Store \cup {None}]
  /\ view \in [Core -> Seq(Store)]
  /\ dest \in [Msg -> Core \cup {None}]
  /\ delivered \in [Msg -> Core \cup {None}]

Init ==
  /\ queue = [c \in Core |-> <<>>]    /\ qlock = [c \in Core |-> None]
  /\ freelist = [c \in Core |-> <<>>] /\ flock = [c \in Core |-> None]
  /\ reps = [c \in Core |-> {}]       /\ root = {}
  /\ home = [s \in Store |-> None]    /\ content = [s \in Store |-> None]
  /\ ipiStatus = {} /\ resetStatus = {} /\ enabled = {} /\ sig = {}
  /\ numintr = {}   /\ ipiHandler = [c \in Core |-> None]
  /\ pc = [c \in Core |-> "off"]      /\ spc = [c \in Core |-> "none"]
  /\ cur = [c \in Core |-> None]      /\ smsg = [c \in Core |-> None]
  /\ sstore = [c \in Core |-> None]   /\ view = [c \in Core |-> <<>>]
  /\ dest = [m \in Msg |-> None]      /\ delivered = [m \in Msg |-> None]

\* Core c is at control point p of its handler and in no msgN call.
At(c, p)   == pc[c] = p /\ spc[c] = "none"
Goto(c, p) == pc' = [pc EXCEPT ![c] = p]

\* spinLock waits until the CAS from 0 to 1 succeeds; lock[c] then names the
\* holder.  Mutant: a spinLock that does not wait.
SpinLockNoWait(lock, c) == TRUE
SpinLock(lock, c) == lock[c] = None

-----------------------------------------------------------------------------
(* The event loop of a core.                                               *)

\* lrt_pic_enable(IPI_VEC).  Mutant: it has no effect.
NoEnable(c) == enabled
Enable(c)   == enabled \cup {c}

\* The thread is created and enters lrt_pic_loop: it has an id, the IPI is
\* enabled, and it sends itself a reset (resetStatus, then pthread_kill).
StartLoop(c) ==
  /\ At(c, "off")
  /\ enabled' = Enable(c)
  /\ resetStatus' = resetStatus \cup {c}
  /\ sig' = sig \cup {c}
  /\ Goto(c, "wait")
  /\ UNCHANGED <<ipiStatus, ipiHandler, numintr, otherVars>>

\* pselect is interrupted by the pending SIGINT, which is blocked everywhere
\* else: blockforinterrupt returns 0 interrupts.
WakeBySignal(c) ==
  /\ At(c, "wait")
  /\ c \in sig
  /\ sig' = sig \ {c}
  /\ numintr' = numintr \ {c}
  /\ Goto(c, "reset")
  /\ UNCHANGED <<ipiStatus, resetStatus, enabled, ipiHandler, otherVars>>

\* pselect returns with a ready descriptor of a device vector; a SIGINT that
\* is pending as well is taken by the same call or stays pending.
WakeByDevice(c) ==
  /\ At(c, "wait")
  /\ \E taken \in SUBSET {c} : sig' = sig \ taken
  /\ numintr' = numintr \cup {c}
  /\ Goto(c, "reset")
  /\ UNCHANGED <<ipiStatus, resetStatus, enabled, ipiHandler, otherVars>>

\* The reset part of the loop.  The handler is l0_start: of EBB_init only its
\* end matters here, L0Prim_start, which registers L0's startEvent for the IPI
\* and sends an IPI to this core.
RunReset(c) ==
  /\ At(c, "reset")
  /\ c \in resetStatus
  /\ resetStatus' = resetStatus \ {c}
  /\ ipiHandler' = [ipiHandler EXCEPT ![c] = "L0"]
  /\ ipiStatus' = ipiStatus \cup {c}
  /\ sig' = sig \cup {c}
  /\ Goto(c, "ipi")
  /\ UNCHANGED <<enabled, numintr, otherVars>>

NoReset(c) ==
  /\ At(c, "reset")
  /\ c \notin resetStatus
  /\ Goto(c, "ipi")
  /\ UNCHANGED <<otherVars, picVars>>

\* The IPI part of the loop: a pending IPI is disabled and dispatched, through
\* the vector function and dispatchEventLocal, to the handler registered for it.
RunIPI(c) ==
  /\ At(c, "ipi")
  /\ c \in ipiStatus \cap enabled
  /\ ipiHandler[c] # None
  /\ enabled' = enabled \ {c}
  /\ Goto(c, IF ipiHandler[c] = "L0" THEN "startEvent" ELSE "handleEvent")
  /\ UNCHANGED <<ipiStatus, resetStatus, sig, ipiHandler, numintr, otherVars>>

\* There is none, or it is disabled, which the loop only reports.
NoIPI(c) ==
  /\ At(c, "ipi")
  /\ c \notin ipiStatus \cap enabled
  /\ Goto(c, "vecs")
  /\ UNCHANGED <<otherVars, picVars>>

\* The device part of the loop: run the handler of a ready vector, or go round.
CheckVecs(c) ==
  /\ At(c, "vecs")
  /\ Goto(c, IF c \in numintr THEN "event" ELSE "wait")
  /\ UNCHANGED <<otherVars, picVars>>

\* A device handler returns.
EventReturn(c) ==
  /\ At(c, "event")
  /\ Goto(c, "wait")
  /\ UNCHANGED <<otherVars, picVars>>

\* lrt_pic_enableipi at the end of L0's startEvent and of handleEvent (and once
\* more in dispatchEventLocal).
EnableIPI(c) ==
  /\ At(c, "started") \/ At(c, "enableIPI")
  /\ enabled' = Enable(c)
  /\ Goto(c, "vecs")
  /\ UNCHANGED <<ipiStatus, resetStatus, sig, ipiHandler, numintr, otherVars>>

\* lrt_pic_ackipi at the start of L0's startEvent and of handleEvent.
AckIPI(c) ==
  /\ At(c, "startEvent") \/ At(c, "handleEvent")
  /\ Goto(c, IF pc[c] = "startEvent" THEN "createRep" ELSE "dequeue")
  /\ ipiStatus' = ipiStatus \ {c}
  /\ UNCHANGED <<resetStatus, enabled, sig, ipiHandler, numintr, otherVars>>

-----------------------------------------------------------------------------
(* L1 start-up on a core, inside L0's startEvent.                          *)

\* MsgMgrPrim_createRep takes over the IPI of this core ...
RegisterIPIHandler(c) ==
  /\ At(c, "createRep")
  /\ ipiHandler' = [ipiHandler EXCEPT ![c] = "MsgMgr"]
  /\ Goto(c, "addRepOn")
  /\ UNCHANGED <<ipiStatus, resetStatus, enabled, sig, numintr, otherVars>>

\* addRepOn.
AddRep(c) == root \cup {c}

\* ... and only then tells the root, so that senders can find it.  L1Prim_start
\* returns here on the secondary cores when only one core starts the App.
AddRepOn(c) ==
  /\ At(c, "addRepOn")
  /\ root' = AddRep(c)
  /\ Goto(c, IF StartAll \/ c = FirstCore THEN "start" ELSE "started")
  /\ UNCHANGED <<queue, qlock, freelist, flock, reps, storeVars, picVars,
                 callVars, histVars>>

-----------------------------------------------------------------------------
(* MsgMgrPrim_msg0 .. msg3, called by core c.                              *)

\* Core c enters msgN(d, ...) with the arguments that make up message m.
EnterMsg(c, d, m) ==
  /\ dest[m] = None
  /\ dest' = [dest EXCEPT ![m] = d]
  /\ smsg' = [smsg EXCEPT ![c] = m]
  /\ spc' = [spc EXCEPT ![c] = "findTarget"]
  /\ UNCHANGED <<cur, sstore, view, delivered, pc, repVars, storeVars,
                 picVars>>

\* A message handler or a device handler sends a message.
CallMsg(c, d, m) ==
  /\ At(c, "event") \/ At(c, "msg")
  /\ EnterMsg(c, d, m)

\* L1Prim_start sends the start-up message to its own core.
CallStartMH(c) ==
  /\ At(c, "start")
  /\ EnterMsg(c, c, c)

\* The call in progress of core c ends; L1Prim_start then returns as well.
ReturnMsg(c) ==
  /\ spc' = [spc EXCEPT ![c] = "none"]
  /\ smsg' = [smsg EXCEPT ![c] = None]
  /\ pc' = [pc EXCEPT ![c] = IF @ = "start" THEN "started" ELSE @]

\* findTarget: the cached representative, else the one in the root's list, which
\* is then cached ...
FindTarget(c) ==
  /\ spc[c] = "findTarget"
  /\ dest[smsg[c]] \in reps[c] \cup root
  /\ reps' = [reps EXCEPT ![c] = @ \cup {dest[smsg[c]]}]
  /\ spc' = [spc EXCEPT ![c] = "allocMsg"]
  /\ UNCHANGED <<queue, qlock, freelist, flock, root, cur, smsg, sstore, view,
                 pc, storeVars, picVars, histVars>>

\* ... else msgN returns EBBRC_NOTFOUND.
NotFound(c) ==
  /\ spc[c] = "findTarget"
  /\ dest[smsg[c]] \notin reps[c] \cup root
  /\ dest' = [dest EXCEPT ![smsg[c]] = None]
  /\ ReturnMsg(c)
  /\ UNCHANGED <<cur, sstore, view, delivered, repVars, storeVars, picVars>>

\* allocMsg: lock the core's own free list and read its head ...
AllocMsg(c) ==
  /\ spc[c] = "allocMsg"
  /\ SpinLock(flock, c)
  /\ flock' = [flock EXCEPT ![c] = c]
  /\ view' = [view EXCEPT ![c] = freelist[c]]
  /\ spc' = [spc EXCEPT ![c] = "take"]
  /\ UNCHANGED <<queue, qlock, freelist, reps, root, cur, smsg, sstore, pc,
                 storeVars, picVars, histVars>>

\* The MsgStore msgN fills in: the head of the list, or fresh memory.
StoreFor(c, s) == IF view[c] # <<>> THEN s = Head(view[c]) ELSE home[s] = None

\* ... unlink it, or malloc; then msgN fills the store in.
TakeStore(c) ==
  /\ spc[c] = "take"
  /\ freelist' = IF view[c] # <<>> THEN [freelist EXCEPT ![c] = Tail(view[c])]
                                   ELSE freelist
  /\ flock' = [flock EXCEPT ![c] = None]
  /\ \E s \in Store :
       /\ StoreFor(c, s)
       /\ home' = [home EXCEPT ![s] = c]
       /\ content' = [content EXCEPT ![s] = smsg[c]]
       /\ sstore' = [sstore EXCEPT ![c] = s]
  /\ view' = [view EXCEPT ![c] = <<>>]
  /\ spc' = [spc EXCEPT ![c] = "enqueueMsg"]
  /\ UNCHANGED <<queue, qlock, reps, root, cur, smsg, pc, picVars, histVars>>

\* enqueueMsg: lock the target's queue and read its head ...
EnqueueMsg(c) ==
  /\ spc[c] = "enqueueMsg"
  /\ SpinLock(qlock, dest[smsg[c]])
  /\ qlock' = [qlock EXCEPT ![dest[smsg[c]]] = c]
  /\ view' = [view EXCEPT ![c] = queue[dest[smsg[c]]]]
  /\ spc' = [spc EXCEPT ![c] = "link"]
  /\ UNCHANGED <<queue, freelist, flock, reps, root, cur, smsg, sstore, pc,
                 storeVars, picVars, histVars>>

\* queueempty: the sender that found the queue empty sends the IPI.
\* Mutant: the test inverted.
NotQueueEmpty(c) == view[c] # <<>>
QueueEmpty(c)    == view[c] = <<>>

\* What enqueueMsg leaves in the queue.  Mutant: the store pointer is lost.
LinkedNull(c) == <<None>> \o view[c]
Linked(c)     == <<sstore[c]>> \o view[c]

\* ... and put the store in front of it.  msgN returns, or sends an IPI first.
LinkStore(c) ==
  /\ spc[c] = "link"
  /\ queue' = [queue EXCEPT ![dest[smsg[c]]] = Linked(c)]
  /\ qlock' = [qlock EXCEPT ![dest[smsg[c]]] = None]
  /\ sstore' = [sstore EXCEPT ![c] = None]
  /\ view' = [view EXCEPT ![c] = <<>>]
  /\ UNCHANGED <<freelist, flock, reps, root, cur, storeVars, picVars,
                 histVars>>
LinkFirst(c) ==
  /\ LinkStore(c)
  /\ QueueEmpty(c)
  /\ spc' = [spc EXCEPT ![c] = "dispatchIPI"]
  /\ UNCHANGED <<smsg, pc>>
LinkMore(c) ==
  /\ LinkStore(c)
  /\ ~QueueEmpty(c)
  /\ ReturnMsg(c)

\* lrt_pic_ipi: set the target's ipiStatus ...
DispatchIPI(c) ==
  /\ spc[c] = "dispatchIPI"
  /\ ipiStatus' = ipiStatus \cup {dest[smsg[c]]}
  /\ spc' = [spc EXCEPT ![c] = "wakeup"]
  /\ UNCHANGED <<resetStatus, enabled, sig, ipiHandler, numintr, cur, smsg,
                 sstore, view, pc, repVars, storeVars, histVars>>

\* ... then pthread_kill its thread.
Wakeup(c) ==
  /\ spc[c] = "wakeup"
  /\ sig' = sig \cup {dest[smsg[c]]}
  /\ ReturnMsg(c)
  /\ UNCHANGED <<ipiStatus, resetStatus, enabled, ipiHandler, numintr, cur,
                 sstore, view, repVars, storeVars, histVars>>

-----------------------------------------------------------------------------
(* MsgMgrPrim_handleEvent, after ackIPI.                                   *)

\* dequeueMsgHead: lock the core's own queue and read its head ...
DequeueMsgHead(c) ==
  /\ At(c, "dequeue")
  /\ SpinLock(qlock, c)
  /\ qlock' = [qlock EXCEPT ![c] = c]
  /\ view' = [view EXCEPT ![c] = queue[c]]
  /\ Goto(c, "pop")
  /\ UNCHANGED <<queue, freelist, flock, reps, root, cur, spc, smsg, sstore,
                 storeVars, picVars, histVars>>

\* ... and unlink it ...
PopHead(c) ==
  /\ At(c, "pop")
  /\ view[c] # <<>>
  /\ queue' = [queue EXCEPT ![c] = Tail(view[c])]
  /\ cur' = [cur EXCEPT ![c] = Head(view[c])]
  /\ qlock' = [qlock EXCEPT ![c] = None]
  /\ view' = [view EXCEPT ![c] = <<>>]
  /\ Goto(c, "call")
  /\ UNCHANGED <<freelist, flock, reps, root, spc, smsg, sstore, storeVars,
                 picVars, histVars>>

\* ... or find none, which ends the drain loop.
EndDrain(c) ==
  /\ At(c, "pop")
  /\ view[c] = <<>>
  /\ qlock' = [qlock EXCEPT ![c] = None]
  /\ Goto(c, "enableIPI")
  /\ UNCHANGED <<queue, freelist, flock, reps, root, storeVars, picVars,
                 callVars, histVars>>

\* The handler named in the store is invoked with the store's arguments.
InvokeHandler(c) ==
  /\ At(c, "call")
  /\ delivered' = [delivered EXCEPT ![content[cur[c]]] = c]
  /\ Goto(c, "msg")
  /\ UNCHANGED <<dest, repVars, storeVars, picVars, callVars>>

\* What follows a handler, and what follows freeMsg.  Mutants: the store is not
\* freed; one IPI handles one message.
AfterHandlerNext == "dequeue"
AfterHandler     == "freeMsg"
AfterFreeEnd     == "enableIPI"
AfterFree        == "dequeue"

\* It returns.
HandlerReturn(c) ==
  /\ At(c, "msg")
  /\ Goto(c, AfterHandler)
  /\ UNCHANGED <<otherVars, picVars>>

\* freeMsg: find the representative of the store's home (LRT_RCAssert it is
\* there), lock its free list and read the head ...
FreeMsg(c) ==
  /\ At(c, "freeMsg")
  /\ home[cur[c]] \in reps[c] \cup root
  /\ reps' = [reps EXCEPT ![c] = @ \cup {home[cur[c]]}]
  /\ SpinLock(flock, home[cur[c]])
  /\ flock' = [flock EXCEPT ![home[cur[c]]] = c]
  /\ view' = [view EXCEPT ![c] = freelist[home[cur[c]]]]
  /\ Goto(c, "push")
  /\ UNCHANGED <<queue, qlock, freelist, root, cur, spc, smsg, sstore,
                 storeVars, picVars, histVars>>

\* ... and put the store in front of it.
PushFree(c) ==
  /\ At(c, "push")
  /\ freelist' = [freelist EXCEPT ![home[cur[c]]] = <<cur[c]>> \o view[c]]
  /\ flock' = [flock EXCEPT ![home[cur[c]]] = None]
  /\ cur' = [cur EXCEPT ![c] = None]
  /\ view' = [view EXCEPT ![c] = <<>>]
  /\ Goto(c, AfterFree)
  /\ UNCHANGED <<queue, qlock, reps, root, spc, smsg, sstore, storeVars,
                 picVars, histVars>>

-----------------------------------------------------------------------------
LoopStep(c)  == \/ WakeBySignal(c) \/ RunReset(c) \/ NoReset(c) \/ RunIPI(c)
                \/ NoIPI(c) \/ CheckVecs(c) \/ EventReturn(c) \/ AckIPI(c)
                \/ EnableIPI(c)
StartStep(c) == StartLoop(c) \/ RegisterIPIHandler(c) \/ AddRepOn(c)
SendStep(c)  == \/ CallStartMH(c) \/ FindTarget(c) \/ NotFound(c) \/ AllocMsg(c)
                \/ TakeStore(c) \/ EnqueueMsg(c) \/ LinkFirst(c)
                \/ LinkMore(c) \/ DispatchIPI(c) \/ Wakeup(c)
DrainStep(c) == \/ DequeueMsgHead(c) \/ PopHead(c) \/ EndDrain(c)
                \/ InvokeHandler(c) \/ HandlerReturn(c) \/ FreeMsg(c)
                \/ PushFree(c)

\* What a core does by itself; devices and new messages are the environment's.
CoreStep(c) == LoopStep(c) \/ StartStep(c) \/ SendStep(c) \/ DrainStep(c)

AppCall(c)  == \E d \in Core, m \in AppMsg : CallMsg(c, d, m)

Next == \E c \in Core : CoreStep(c) \/ AppCall(c) \/ WakeByDevice(c)

Safety == Init /\ [][Next]_vars

\* A core's thread keeps running, and the handlers it runs return.
Spec == Safety /\ \A c \in Core : WF_vars(CoreStep(c))

-----------------------------------------------------------------------------
(* Safety                                                                  *)

\* Some core is in msgN at control point p, sending to core c.
Sending(c, p) == \E k \in Core : spc[k] = p /\ dest[smsg[k]] = c

\* Core c will look at its queue: it is draining it; or its IPI is pending and
\* either a signal will make it go round the loop, or it is between the wake-up
\* and the test, or the sender has yet to send the signal; or the sender that
\* found the queue empty has yet to send the IPI.
WillLook(c) ==
  \/ pc[c] \in DrainPC
  \/ /\ c \in ipiStatus
     /\ c \in sig \/ pc[c] \in {"reset", "ipi"} \/ Sending(c, "wakeup")
  \/ Sending(c, "dispatchIPI")

\* No message is stranded, although enqueueMsg sends an IPI only to a core whose
\* queue was empty and the IPI handler acknowledges before it drains: a core
\* with a message in its queue will look at it.
NoLostWakeup == \A c \in Core : queue[c] # <<>> => WillLook(c)

\* The places where store s is: positions of queues and of free lists, the store
\* a core has dequeued, the store of a msgN call in progress.
Places(s) ==
  UNION { {<<"queue", c, i>> : i \in {j \in DOMAIN queue[c] : queue[c][j] = s}}
          \cup
          {<<"free", c, i>> : i \in {j \in DOMAIN freelist[c] :
                                        freelist[c][j] = s}}
          \cup
          {<<"cur", c, i>> : i \in {0} \cap {IF cur[c] = s THEN 0 ELSE 1}}
          \cup
          {<<"send", c, i>> : i \in {0} \cap {IF sstore[c] = s THEN 0 ELSE 1}}
        : c \in Core }

\* Message stores are conserved (allocMsg, enqueueMsg, dequeueMsgHead, freeMsg):
\* memory that was malloc'ed as a MsgStore is in exactly one place, so no store
\* is reused while it is queued or handled and none leaks; a free list holds
\* only stores that its own core allocated.
StoreConserved ==
  /\ \A s \in Store : IF home[s] = None THEN Places(s) = {}
                       ELSE Cardinality(Places(s)) = 1
  /\ \A c \in Core : \A i \in DOMAIN freelist[c] : home[freelist[c][i]] = c

\* The assertions of the code hold: an IPI is never found disabled in the loop
\* ("interrupt when disabled", pic.c) and always finds a handler; L1Prim_start's
\* send to itself and freeMsg's look-up of the home core succeed; an IPI only
\* goes to a core that runs.
AssertionsHold ==
  \A c \in Core :
    /\ pc[c] = "ipi" /\ c \in ipiStatus => c \in enabled /\ ipiHandler[c] # None
    /\ pc[c] = "start" /\ spc[c] = "findTarget" => c \in root
    /\ pc[c] = "freeMsg" => home[cur[c]] \in root
    /\ spc[c] \in {"dispatchIPI", "wakeup"} => pc[dest[smsg[c]]] # "off"

-----------------------------------------------------------------------------
(* Refinement and liveness                                                 *)

\* The messages the message manager has accepted and not yet handed over.
Pending ==
  UNION { {content[queue[c][i]] : i \in DOMAIN queue[c]}
          \cup (IF pc[c] = "call" THEN {content[cur[c]]} ELSE {}) : c \in Core }

Channel == INSTANCE MsgChannel WITH pending <- Pending

\* The message manager implements the channel its callers see: every message
\* enqueueMsg accepts is handed to its handler exactly once, on the core it was
\* sent to, with the arguments it was sent with (safety part).
ImplementsChannel == Channel!Safety

\* Every message that enqueueMsg put on a queue has its handler invoked.
AcceptedIsDelivered ==
  \A m \in Msg : m \in Pending ~> delivered[m] # None

\* Store s is on the free list of the core that allocated it.
IsHome(s) == \E c \in Core : \E i \in DOMAIN freelist[c] :
                home[s] = c /\ freelist[c][i] = s

\* Every store that allocMsg obtained comes back to the free list of its home
\* core, however often it is sent: no sender or handler loop keeps it for ever.
StoresComeHome == \A s \in Store : home[s] # None ~> IsHome(s)
=============================================================================
