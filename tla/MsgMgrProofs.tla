--------------------------- MODULE MsgMgrProofs ---------------------------
(***************************************************************************)
(* TLAPS proofs about MsgMgr, for any set of cores, messages and stores.   *)
(***************************************************************************)
EXTENDS MsgMgr, TLAPS

\* Pushing a store (enqueueMsg, freeMsg) gives a list that is not empty.
LEMMA PushList ==
  ASSUME NEW S, NEW s \in S, NEW q \in Seq(S)
  PROVE  <<s>> \o q \in Seq(S) /\ <<s>> \o q # <<>>
  OBVIOUS

\* Popping the head (dequeueMsgHead, allocMsg) leaves a list of stores.
LEMMA PopList ==
  ASSUME NEW S, NEW q \in Seq(S), q # <<>>
  PROVE  Tail(q) \in Seq(S) /\ Head(q) \in S
  OBVIOUS

-----------------------------------------------------------------------------
(* The inductive invariant.                                                *)

\* Where a core can be inside msgN, and what its local variables then hold.
\* Two calls in progress never carry the same message.
SendInv ==
  \A c \in Core :
    /\ spc[c] # "none" => /\ pc[c] \in {"event", "msg", "start"}
                          /\ smsg[c] \in Msg
                          /\ dest[smsg[c]] \in Core
    /\ spc[c] \in {"enqueueMsg", "link"} => sstore[c] \in Store
    /\ \A k \in Core : k # c /\ spc[c] # "none" /\ spc[k] # "none"
                         => smsg[k] # smsg[c]

\* A core that has dequeued a store holds it until it has been freed.
CurInv ==
  \A c \in Core : pc[c] \in {"call", "msg", "freeMsg", "push"}
                     => cur[c] \in Store

\* The critical sections of a queue exclude each other: a core inside one holds
\* the lock, and the queue is still what it read when it took the lock.
LockAt(c) ==
  /\ spc[c] = "link" => /\ qlock[dest[smsg[c]]] = c
                        /\ view[c] = queue[dest[smsg[c]]]
  /\ pc[c] = "pop"   => qlock[c] = c /\ view[c] = queue[c]
LockInv == \A c \in Core : LockAt(c)

\* A core's way through start-up: it is in the root's list only once its IPI
\* belongs to the message manager, and it reaches the rest of the loop only then.
RootInv ==
  \A c \in Core :
    /\ c \in root => /\ ipiHandler[c] = "MsgMgr"
                     /\ c \notin resetStatus
                     /\ pc[c] \notin {"off", "startEvent", "createRep",
                                      "addRepOn"}
    /\ pc[c] \notin {"off", "wait", "reset"} => c \notin resetStatus
    /\ pc[c] = "addRepOn" => ipiHandler[c] = "MsgMgr"
    /\ pc[c] \in {"wait", "reset"} => c \in resetStatus \/ c \in root
    /\ pc[c] = "ipi" => \/ c \in root
                        \/ c \in ipiStatus /\ ipiHandler[c] = "L0"
    /\ pc[c] \in {"vecs", "event", "start", "started", "enableIPI"} \cup DrainPC
         => c \in root

\* Only a core in the root's list is sent anything.
TargetInv ==
  \A c \in Core :
    /\ c \notin root => queue[c] = <<>>
    /\ reps[c] \subseteq root
    /\ spc[c] \notin {"none", "findTarget"} => dest[smsg[c]] \in root

\* In the event loop itself the IPI is enabled.
EnabledInv ==
  \A c \in Core : pc[c] \in {"wait", "reset", "ipi", "vecs", "event"}
                     => c \in enabled

IInv == /\ TypeOK /\ SendInv /\ CurInv /\ LockInv /\ RootInv /\ TargetInv
        /\ EnabledInv /\ NoLostWakeup

-----------------------------------------------------------------------------
USE CoreAssumption, NoneAssumption

\* Before any core has entered lrt_pic_loop, nothing is queued, locked or sent.
THEOREM InitInv == Init => IInv
  BY DEF Init, IInv, TypeOK, SendInv, CurInv, LockInv, LockAt, RootInv, TargetInv,
         EnabledInv, NoLostWakeup, PC, LoopPC, SendPC, DrainPC, Msg

\* Every step keeps the types: what a core pushes is a store it took (SendInv),
\* what it frees is a store it popped (CurInv).
LEMMA TypeStep ==
  ASSUME IInv, [Next]_vars
  PROVE  TypeOK'
<1> USE DEF IInv, TypeOK, SendInv, CurInv,
           At, Goto, SpinLock, Enable, AddRep, EnterMsg, ReturnMsg,
           StoreFor, QueueEmpty, Linked, AfterHandler, AfterFree, PC, LoopPC,
           StartPC, DrainPC, SendPC, Msg, vars, picVars, otherVars, repVars,
           storeVars, callVars, histVars
<1>1. CASE UNCHANGED vars
  BY <1>1
<1>2. SUFFICES ASSUME NEW c \in Core,
                      CoreStep(c) \/ AppCall(c) \/ WakeByDevice(c)
               PROVE  TypeOK'
  BY <1>1 DEF Next
<1>3. CASE WakeBySignal(c)
  BY <1>3 DEF WakeBySignal
<1>4. CASE RunReset(c)
  BY <1>4 DEF RunReset
<1>5. CASE NoReset(c)
  BY <1>5 DEF NoReset
<1>6. CASE RunIPI(c)
  BY <1>6 DEF RunIPI
<1>7. CASE NoIPI(c)
  BY <1>7 DEF NoIPI
<1>8. CASE CheckVecs(c)
  BY <1>8 DEF CheckVecs
<1>9. CASE EventReturn(c)
  BY <1>9 DEF EventReturn
<1>10. CASE AckIPI(c)
  BY <1>10 DEF AckIPI
<1>11. CASE EnableIPI(c)
  BY <1>11 DEF EnableIPI
<1>12. CASE StartLoop(c)
  BY <1>12 DEF StartLoop
<1>13. CASE RegisterIPIHandler(c)
  BY <1>13 DEF RegisterIPIHandler
<1>14. CASE AddRepOn(c)
  BY <1>14 DEF AddRepOn
<1>15. CASE CallStartMH(c)
  BY <1>15 DEF CallStartMH
<1>16. CASE FindTarget(c)
  BY <1>16 DEF FindTarget
<1>17. CASE NotFound(c)
  BY <1>17 DEF NotFound
<1>18. CASE AllocMsg(c)
  BY <1>18 DEF AllocMsg
<1>19. CASE TakeStore(c)
  BY <1>19, PopList DEF TakeStore
<1>20. CASE EnqueueMsg(c)
  BY <1>20 DEF EnqueueMsg
<1>21. CASE LinkFirst(c)
  BY <1>21, PushList DEF LinkFirst, LinkStore
<1>22. CASE LinkMore(c)
  BY <1>22, PushList DEF LinkMore, LinkStore
<1>23. CASE DispatchIPI(c)
  BY <1>23 DEF DispatchIPI
<1>24. CASE Wakeup(c)
  BY <1>24 DEF Wakeup
<1>25. CASE DequeueMsgHead(c)
  BY <1>25 DEF DequeueMsgHead
<1>26. CASE PopHead(c)
  BY <1>26, PopList DEF PopHead
<1>27. CASE EndDrain(c)
  BY <1>27 DEF EndDrain
<1>28. CASE InvokeHandler(c)
  BY <1>28 DEF InvokeHandler
<1>29. CASE HandlerReturn(c)
  BY <1>29 DEF HandlerReturn
<1>30. CASE FreeMsg(c)
  BY <1>30 DEF FreeMsg
<1>31. CASE PushFree(c)
  <2>1. <<cur[c]>> \o view[c] \in Seq(Store)
    BY <1>31, PushList DEF PushFree
  <2>2. freelist' \in [Core -> Seq(Store)]
    BY <1>31, <2>1 DEF PushFree
  <2>3. flock' \in [Core -> Core \cup {None}]
    BY <1>31 DEF PushFree
  <2> QED
    BY <1>31, <2>2, <2>3 DEF PushFree
<1>32. CASE WakeByDevice(c)
  BY <1>32 DEF WakeByDevice
<1>33. CASE AppCall(c)
  BY <1>33 DEF AppCall, CallMsg
<1>34. QED
  BY <1>2, <1>3, <1>4, <1>5, <1>6, <1>7, <1>8, <1>9, <1>10, <1>11, <1>12,
     <1>13, <1>14, <1>15, <1>16, <1>17, <1>18, <1>19, <1>20, <1>21, <1>22,
     <1>23, <1>24, <1>25, <1>26, <1>27, <1>28, <1>29, <1>30, <1>31, <1>32,
     <1>33
     DEF CoreStep, LoopStep, StartStep, SendStep, DrainStep

\* Between allocMsg and enqueueMsg the sender holds a store that carries its
\* message and its target is known: no other step takes them away.
LEMMA SendStepInv ==
  ASSUME IInv, [Next]_vars
  PROVE  SendInv'
<1> USE DEF IInv, TypeOK, SendInv,
           At, Goto, SpinLock, Enable, AddRep, EnterMsg, ReturnMsg,
           StoreFor, QueueEmpty, Linked, AfterHandler, AfterFree, PC, LoopPC,
           StartPC, DrainPC, SendPC, Msg, vars, picVars, otherVars, repVars,
           storeVars, callVars, histVars
<1>1. CASE UNCHANGED vars
  BY <1>1
<1>2. SUFFICES ASSUME NEW c \in Core,
                      CoreStep(c) \/ AppCall(c) \/ WakeByDevice(c)
               PROVE  SendInv'
  BY <1>1 DEF Next
<1>3. CASE WakeBySignal(c)
  BY <1>3 DEF WakeBySignal
<1>4. CASE RunReset(c)
  BY <1>4 DEF RunReset
<1>5. CASE NoReset(c)
  BY <1>5 DEF NoReset
<1>6. CASE RunIPI(c)
  BY <1>6 DEF RunIPI
<1>7. CASE NoIPI(c)
  BY <1>7 DEF NoIPI
<1>8. CASE CheckVecs(c)
  BY <1>8 DEF CheckVecs
<1>9. CASE EventReturn(c)
  BY <1>9 DEF EventReturn
<1>10. CASE AckIPI(c)
  BY <1>10 DEF AckIPI
<1>11. CASE EnableIPI(c)
  BY <1>11 DEF EnableIPI
<1>12. CASE StartLoop(c)
  BY <1>12 DEF StartLoop
<1>13. CASE RegisterIPIHandler(c)
  BY <1>13 DEF RegisterIPIHandler
<1>14. CASE AddRepOn(c)
  BY <1>14 DEF AddRepOn
<1>15. CASE CallStartMH(c)
  BY <1>15 DEF CallStartMH
<1>16. CASE FindTarget(c)
  BY <1>16 DEF FindTarget
<1>17. CASE NotFound(c)
  BY <1>17 DEF NotFound
<1>18. CASE AllocMsg(c)
  BY <1>18 DEF AllocMsg
<1>19. CASE TakeStore(c)
  BY <1>19 DEF TakeStore
<1>20. CASE EnqueueMsg(c)
  BY <1>20 DEF EnqueueMsg
<1>21. CASE LinkFirst(c)
  BY <1>21 DEF LinkFirst, LinkStore
<1>22. CASE LinkMore(c)
  BY <1>22 DEF LinkMore, LinkStore
<1>23. CASE DispatchIPI(c)
  BY <1>23 DEF DispatchIPI
<1>24. CASE Wakeup(c)
  BY <1>24 DEF Wakeup
<1>25. CASE DequeueMsgHead(c)
  BY <1>25 DEF DequeueMsgHead
<1>26. CASE PopHead(c)
  BY <1>26 DEF PopHead
<1>27. CASE EndDrain(c)
  BY <1>27 DEF EndDrain
<1>28. CASE InvokeHandler(c)
  BY <1>28 DEF InvokeHandler
<1>29. CASE HandlerReturn(c)
  BY <1>29 DEF HandlerReturn
<1>30. CASE FreeMsg(c)
  BY <1>30 DEF FreeMsg
<1>31. CASE PushFree(c)
  BY <1>31 DEF PushFree
<1>32. CASE WakeByDevice(c)
  BY <1>32 DEF WakeByDevice
<1>33. CASE AppCall(c)
  BY <1>33 DEF AppCall, CallMsg
<1>34. QED
  BY <1>2, <1>3, <1>4, <1>5, <1>6, <1>7, <1>8, <1>9, <1>10, <1>11, <1>12,
     <1>13, <1>14, <1>15, <1>16, <1>17, <1>18, <1>19, <1>20, <1>21, <1>22,
     <1>23, <1>24, <1>25, <1>26, <1>27, <1>28, <1>29, <1>30, <1>31, <1>32,
     <1>33
     DEF CoreStep, LoopStep, StartStep, SendStep, DrainStep

\* From dequeueMsgHead to freeMsg the core holds the store it took from its own
\* queue.
LEMMA CurStep ==
  ASSUME IInv, [Next]_vars
  PROVE  CurInv'
<1> USE DEF IInv, TypeOK, SendInv, CurInv,
           At, Goto, SpinLock, Enable, AddRep, EnterMsg, ReturnMsg,
           StoreFor, QueueEmpty, Linked, AfterHandler, AfterFree, PC, LoopPC,
           StartPC, DrainPC, SendPC, Msg, vars, picVars, otherVars, repVars,
           storeVars, callVars, histVars
<1>1. CASE UNCHANGED vars
  BY <1>1
<1>2. SUFFICES ASSUME NEW c \in Core,
                      CoreStep(c) \/ AppCall(c) \/ WakeByDevice(c)
               PROVE  CurInv'
  BY <1>1 DEF Next
<1>3. CASE WakeBySignal(c)
  BY <1>3 DEF WakeBySignal
<1>4. CASE RunReset(c)
  BY <1>4 DEF RunReset
<1>5. CASE NoReset(c)
  BY <1>5 DEF NoReset
<1>6. CASE RunIPI(c)
  BY <1>6 DEF RunIPI
<1>7. CASE NoIPI(c)
  BY <1>7 DEF NoIPI
<1>8. CASE CheckVecs(c)
  BY <1>8 DEF CheckVecs
<1>9. CASE EventReturn(c)
  BY <1>9 DEF EventReturn
<1>10. CASE AckIPI(c)
  BY <1>10 DEF AckIPI
<1>11. CASE EnableIPI(c)
  BY <1>11 DEF EnableIPI
<1>12. CASE StartLoop(c)
  BY <1>12 DEF StartLoop
<1>13. CASE RegisterIPIHandler(c)
  BY <1>13 DEF RegisterIPIHandler
<1>14. CASE AddRepOn(c)
  BY <1>14 DEF AddRepOn
<1>15. CASE CallStartMH(c)
  BY <1>15 DEF CallStartMH
<1>16. CASE FindTarget(c)
  BY <1>16 DEF FindTarget
<1>17. CASE NotFound(c)
  BY <1>17 DEF NotFound
<1>18. CASE AllocMsg(c)
  BY <1>18 DEF AllocMsg
<1>19. CASE TakeStore(c)
  BY <1>19, PopList DEF TakeStore
<1>20. CASE EnqueueMsg(c)
  BY <1>20 DEF EnqueueMsg
<1>21. CASE LinkFirst(c)
  BY <1>21, PushList DEF LinkFirst, LinkStore
<1>22. CASE LinkMore(c)
  BY <1>22, PushList DEF LinkMore, LinkStore
<1>23. CASE DispatchIPI(c)
  BY <1>23 DEF DispatchIPI
<1>24. CASE Wakeup(c)
  BY <1>24 DEF Wakeup
<1>25. CASE DequeueMsgHead(c)
  BY <1>25 DEF DequeueMsgHead
<1>26. CASE PopHead(c)
  BY <1>26, PopList DEF PopHead
<1>27. CASE EndDrain(c)
  BY <1>27 DEF EndDrain
<1>28. CASE InvokeHandler(c)
  BY <1>28 DEF InvokeHandler
<1>29. CASE HandlerReturn(c)
  BY <1>29 DEF HandlerReturn
<1>30. CASE FreeMsg(c)
  BY <1>30 DEF FreeMsg
<1>31. CASE PushFree(c)
  BY <1>31, PushList DEF PushFree
<1>32. CASE WakeByDevice(c)
  BY <1>32 DEF WakeByDevice
<1>33. CASE AppCall(c)
  BY <1>33 DEF AppCall, CallMsg
<1>34. QED
  BY <1>2, <1>3, <1>4, <1>5, <1>6, <1>7, <1>8, <1>9, <1>10, <1>11, <1>12,
     <1>13, <1>14, <1>15, <1>16, <1>17, <1>18, <1>19, <1>20, <1>21, <1>22,
     <1>23, <1>24, <1>25, <1>26, <1>27, <1>28, <1>29, <1>30, <1>31, <1>32,
     <1>33
     DEF CoreStep, LoopStep, StartStep, SendStep, DrainStep

\* Who is inside the critical section of enqueueMsg or dequeueMsgHead holds the
\* queue's lock, and the queue is still the one it read.
LEMMA LockStep ==
  ASSUME IInv, [Next]_vars
  PROVE  LockInv'
<1> USE DEF IInv, TypeOK, SendInv, LockInv, LockAt,
           At, Goto, SpinLock, Enable, AddRep, EnterMsg, ReturnMsg,
           StoreFor, QueueEmpty, Linked, AfterHandler, AfterFree, PC, LoopPC,
           StartPC, DrainPC, SendPC, Msg, vars, picVars, otherVars, repVars,
           storeVars, callVars, histVars
<1>1. CASE UNCHANGED vars
  BY <1>1
<1>2. SUFFICES ASSUME NEW c \in Core,
                      CoreStep(c) \/ AppCall(c) \/ WakeByDevice(c)
               PROVE  LockInv'
  BY <1>1 DEF Next
<1> SUFFICES ASSUME NEW k \in Core
             PROVE  LockAt(k)'
  OBVIOUS
<1>a. spc[c] # "none" => /\ pc[c] # "pop"
                         /\ smsg[c] \in Msg
                         /\ dest[smsg[c]] \in Core
  OBVIOUS
<1>3. CASE WakeBySignal(c)
  BY <1>3 DEF WakeBySignal
<1>4. CASE RunReset(c)
  BY <1>4 DEF RunReset
<1>5. CASE NoReset(c)
  BY <1>5 DEF NoReset
<1>6. CASE RunIPI(c)
  BY <1>6 DEF RunIPI
<1>7. CASE NoIPI(c)
  BY <1>7 DEF NoIPI
<1>8. CASE CheckVecs(c)
  BY <1>8 DEF CheckVecs
<1>9. CASE EventReturn(c)
  BY <1>9 DEF EventReturn
<1>10. CASE AckIPI(c)
  BY <1>10 DEF AckIPI
<1>11. CASE EnableIPI(c)
  BY <1>11 DEF EnableIPI
<1>12. CASE StartLoop(c)
  BY <1>12 DEF StartLoop
<1>13. CASE RegisterIPIHandler(c)
  BY <1>13 DEF RegisterIPIHandler
<1>14. CASE AddRepOn(c)
  BY <1>14 DEF AddRepOn
<1>15. CASE CallStartMH(c)
  BY <1>15 DEF CallStartMH
<1>16. CASE FindTarget(c)
  BY <1>16 DEF FindTarget
<1>17. CASE NotFound(c)
  BY <1>17 DEF NotFound
<1>18. CASE AllocMsg(c)
  <2>1. CASE k = c
    BY <1>18, <1>a, <2>1 DEF AllocMsg
  <2>2. CASE k # c
    BY <1>18, <2>2 DEF AllocMsg
  <2> QED
    BY <2>1, <2>2
<1>19. CASE TakeStore(c)
  <2>1. CASE k = c
    BY <1>19, <1>a, <2>1 DEF TakeStore
  <2>2. CASE k # c
    BY <1>19, <2>2 DEF TakeStore
  <2> QED
    BY <2>1, <2>2
<1>20. CASE EnqueueMsg(c)
  <2>1. CASE k = c
    BY <1>20, <1>a, <2>1 DEF EnqueueMsg
  <2>2. CASE k # c
    BY <1>20, <2>2 DEF EnqueueMsg
  <2> QED
    BY <2>1, <2>2
<1>21. CASE LinkFirst(c)
  <2>1. CASE k = c
    BY <1>21, <1>a, <2>1 DEF LinkFirst, LinkStore
  <2>2. CASE k # c
    BY <1>21, <2>2 DEF LinkFirst, LinkStore
  <2> QED
    BY <2>1, <2>2
<1>22. CASE LinkMore(c)
  <2>1. CASE k = c
    BY <1>22, <1>a, <2>1 DEF LinkMore, LinkStore
  <2>2. CASE k # c
    BY <1>22, <2>2 DEF LinkMore, LinkStore
  <2> QED
    BY <2>1, <2>2
<1>23. CASE DispatchIPI(c)
  BY <1>23 DEF DispatchIPI
<1>24. CASE Wakeup(c)
  BY <1>24 DEF Wakeup
<1>25. CASE DequeueMsgHead(c)
  BY <1>25 DEF DequeueMsgHead
<1>26. CASE PopHead(c)
  BY <1>26 DEF PopHead
<1>27. CASE EndDrain(c)
  BY <1>27 DEF EndDrain
<1>28. CASE InvokeHandler(c)
  BY <1>28 DEF InvokeHandler
<1>29. CASE HandlerReturn(c)
  BY <1>29 DEF HandlerReturn
<1>30. CASE FreeMsg(c)
  BY <1>30 DEF FreeMsg
<1>31. CASE PushFree(c)
  BY <1>31 DEF PushFree
<1>32. CASE WakeByDevice(c)
  BY <1>32 DEF WakeByDevice
<1>33. CASE AppCall(c)
  BY <1>33 DEF AppCall, CallMsg
<1>34. QED
  BY <1>2, <1>3, <1>4, <1>5, <1>6, <1>7, <1>8, <1>9, <1>10, <1>11, <1>12,
     <1>13, <1>14, <1>15, <1>16, <1>17, <1>18, <1>19, <1>20, <1>21, <1>22,
     <1>23, <1>24, <1>25, <1>26, <1>27, <1>28, <1>29, <1>30, <1>31, <1>32,
     <1>33
     DEF CoreStep, LoopStep, StartStep, SendStep, DrainStep

\* A core is known to the root only after it has registered its IPI handler
\* (the order of createRep).
LEMMA RootStep ==
  ASSUME IInv, [Next]_vars
  PROVE  RootInv'
<1> USE DEF IInv, TypeOK, SendInv, RootInv, EnabledInv,
           At, Goto, SpinLock, Enable, AddRep, EnterMsg, ReturnMsg,
           StoreFor, QueueEmpty, Linked, AfterHandler, AfterFree, PC, LoopPC,
           StartPC, DrainPC, SendPC, Msg, vars, picVars, otherVars, repVars,
           storeVars, callVars, histVars
<1>1. CASE UNCHANGED vars
  BY <1>1
<1>2. SUFFICES ASSUME NEW c \in Core,
                      CoreStep(c) \/ AppCall(c) \/ WakeByDevice(c)
               PROVE  RootInv'
  BY <1>1 DEF Next
<1>3. CASE WakeBySignal(c)
  BY <1>3 DEF WakeBySignal
<1>4. CASE RunReset(c)
  BY <1>4 DEF RunReset
<1>5. CASE NoReset(c)
  BY <1>5 DEF NoReset
<1>6. CASE RunIPI(c)
  BY <1>6 DEF RunIPI
<1>7. CASE NoIPI(c)
  BY <1>7 DEF NoIPI
<1>8. CASE CheckVecs(c)
  BY <1>8 DEF CheckVecs
<1>9. CASE EventReturn(c)
  BY <1>9 DEF EventReturn
<1>10. CASE AckIPI(c)
  BY <1>10 DEF AckIPI
<1>11. CASE EnableIPI(c)
  BY <1>11 DEF EnableIPI
<1>12. CASE StartLoop(c)
  BY <1>12 DEF StartLoop
<1>13. CASE RegisterIPIHandler(c)
  BY <1>13 DEF RegisterIPIHandler
<1>14. CASE AddRepOn(c)
  BY <1>14 DEF AddRepOn
<1>15. CASE CallStartMH(c)
  BY <1>15 DEF CallStartMH
<1>16. CASE FindTarget(c)
  BY <1>16 DEF FindTarget
<1>17. CASE NotFound(c)
  BY <1>17 DEF NotFound
<1>18. CASE AllocMsg(c)
  BY <1>18 DEF AllocMsg
<1>19. CASE TakeStore(c)
  BY <1>19 DEF TakeStore
<1>20. CASE EnqueueMsg(c)
  BY <1>20 DEF EnqueueMsg
<1>21. CASE LinkFirst(c)
  BY <1>21 DEF LinkFirst, LinkStore
<1>22. CASE LinkMore(c)
  BY <1>22 DEF LinkMore, LinkStore
<1>23. CASE DispatchIPI(c)
  BY <1>23 DEF DispatchIPI
<1>24. CASE Wakeup(c)
  BY <1>24 DEF Wakeup
<1>25. CASE DequeueMsgHead(c)
  BY <1>25 DEF DequeueMsgHead
<1>26. CASE PopHead(c)
  BY <1>26 DEF PopHead
<1>27. CASE EndDrain(c)
  BY <1>27 DEF EndDrain
<1>28. CASE InvokeHandler(c)
  BY <1>28 DEF InvokeHandler
<1>29. CASE HandlerReturn(c)
  BY <1>29 DEF HandlerReturn
<1>30. CASE FreeMsg(c)
  BY <1>30 DEF FreeMsg
<1>31. CASE PushFree(c)
  BY <1>31 DEF PushFree
<1>32. CASE WakeByDevice(c)
  BY <1>32 DEF WakeByDevice
<1>33. CASE AppCall(c)
  BY <1>33 DEF AppCall, CallMsg
<1>34. QED
  BY <1>2, <1>3, <1>4, <1>5, <1>6, <1>7, <1>8, <1>9, <1>10, <1>11, <1>12,
     <1>13, <1>14, <1>15, <1>16, <1>17, <1>18, <1>19, <1>20, <1>21, <1>22,
     <1>23, <1>24, <1>25, <1>26, <1>27, <1>28, <1>29, <1>30, <1>31, <1>32,
     <1>33
     DEF CoreStep, LoopStep, StartStep, SendStep, DrainStep

\* The core that a message is on its way to has an entry in the root: findTarget
\* came first.
LEMMA TargetStep ==
  ASSUME IInv, [Next]_vars
  PROVE  TargetInv'
<1> USE DEF IInv, TypeOK, SendInv, LockInv, LockAt, RootInv, TargetInv,
           At, Goto, SpinLock, Enable, AddRep, EnterMsg, ReturnMsg,
           StoreFor, QueueEmpty, Linked, AfterHandler, AfterFree, PC, LoopPC,
           StartPC, DrainPC, SendPC, Msg, vars, picVars, otherVars, repVars,
           storeVars, callVars, histVars
<1>1. CASE UNCHANGED vars
  BY <1>1
<1>2. SUFFICES ASSUME NEW c \in Core,
                      CoreStep(c) \/ AppCall(c) \/ WakeByDevice(c)
               PROVE  TargetInv'
  BY <1>1 DEF Next
<1>3. CASE WakeBySignal(c)
  BY <1>3 DEF WakeBySignal
<1>4. CASE RunReset(c)
  BY <1>4 DEF RunReset
<1>5. CASE NoReset(c)
  BY <1>5 DEF NoReset
<1>6. CASE RunIPI(c)
  BY <1>6 DEF RunIPI
<1>7. CASE NoIPI(c)
  BY <1>7 DEF NoIPI
<1>8. CASE CheckVecs(c)
  BY <1>8 DEF CheckVecs
<1>9. CASE EventReturn(c)
  BY <1>9 DEF EventReturn
<1>10. CASE AckIPI(c)
  BY <1>10 DEF AckIPI
<1>11. CASE EnableIPI(c)
  BY <1>11 DEF EnableIPI
<1>12. CASE StartLoop(c)
  BY <1>12 DEF StartLoop
<1>13. CASE RegisterIPIHandler(c)
  BY <1>13 DEF RegisterIPIHandler
<1>14. CASE AddRepOn(c)
  BY <1>14 DEF AddRepOn
<1>15. CASE CallStartMH(c)
  BY <1>15 DEF CallStartMH
<1>16. CASE FindTarget(c)
  BY <1>16 DEF FindTarget
<1>17. CASE NotFound(c)
  BY <1>17 DEF NotFound
<1>18. CASE AllocMsg(c)
  BY <1>18 DEF AllocMsg
<1>19. CASE TakeStore(c)
  BY <1>19, PopList DEF TakeStore
<1>20. CASE EnqueueMsg(c)
  BY <1>20 DEF EnqueueMsg
<1>21. CASE LinkFirst(c)
  BY <1>21, PushList DEF LinkFirst, LinkStore
<1>22. CASE LinkMore(c)
  BY <1>22, PushList DEF LinkMore, LinkStore
<1>23. CASE DispatchIPI(c)
  BY <1>23 DEF DispatchIPI
<1>24. CASE Wakeup(c)
  BY <1>24 DEF Wakeup
<1>25. CASE DequeueMsgHead(c)
  BY <1>25 DEF DequeueMsgHead
<1>26. CASE PopHead(c)
  BY <1>26, PopList DEF PopHead
<1>27. CASE EndDrain(c)
  BY <1>27 DEF EndDrain
<1>28. CASE InvokeHandler(c)
  BY <1>28 DEF InvokeHandler
<1>29. CASE HandlerReturn(c)
  BY <1>29 DEF HandlerReturn
<1>30. CASE FreeMsg(c)
  BY <1>30 DEF FreeMsg
<1>31. CASE PushFree(c)
  BY <1>31, PushList DEF PushFree
<1>32. CASE WakeByDevice(c)
  BY <1>32 DEF WakeByDevice
<1>33. CASE AppCall(c)
  BY <1>33 DEF AppCall, CallMsg
<1>34. QED
  BY <1>2, <1>3, <1>4, <1>5, <1>6, <1>7, <1>8, <1>9, <1>10, <1>11, <1>12,
     <1>13, <1>14, <1>15, <1>16, <1>17, <1>18, <1>19, <1>20, <1>21, <1>22,
     <1>23, <1>24, <1>25, <1>26, <1>27, <1>28, <1>29, <1>30, <1>31, <1>32,
     <1>33
     DEF CoreStep, LoopStep, StartStep, SendStep, DrainStep

\* The IPI vector of a core that is back in its loop and has been started is
\* enabled: handleEvent and startEvent end with lrt_pic_enableipi.
LEMMA EnabledStep ==
  ASSUME IInv, [Next]_vars
  PROVE  EnabledInv'
<1> USE DEF IInv, TypeOK, SendInv, EnabledInv,
           At, Goto, SpinLock, Enable, AddRep, EnterMsg, ReturnMsg,
           StoreFor, QueueEmpty, Linked, AfterHandler, AfterFree, PC, LoopPC,
           StartPC, DrainPC, SendPC, Msg, vars, picVars, otherVars, repVars,
           storeVars, callVars, histVars
<1>1. CASE UNCHANGED vars
  BY <1>1
<1>2. SUFFICES ASSUME NEW c \in Core,
                      CoreStep(c) \/ AppCall(c) \/ WakeByDevice(c)
               PROVE  EnabledInv'
  BY <1>1 DEF Next
<1>3. CASE WakeBySignal(c)
  BY <1>3 DEF WakeBySignal
<1>4. CASE RunReset(c)
  BY <1>4 DEF RunReset
<1>5. CASE NoReset(c)
  BY <1>5 DEF NoReset
<1>6. CASE RunIPI(c)
  BY <1>6 DEF RunIPI
<1>7. CASE NoIPI(c)
  BY <1>7 DEF NoIPI
<1>8. CASE CheckVecs(c)
  BY <1>8 DEF CheckVecs
<1>9. CASE EventReturn(c)
  BY <1>9 DEF EventReturn
<1>10. CASE AckIPI(c)
  BY <1>10 DEF AckIPI
<1>11. CASE EnableIPI(c)
  BY <1>11 DEF EnableIPI
<1>12. CASE StartLoop(c)
  BY <1>12 DEF StartLoop
<1>13. CASE RegisterIPIHandler(c)
  BY <1>13 DEF RegisterIPIHandler
<1>14. CASE AddRepOn(c)
  BY <1>14 DEF AddRepOn
<1>15. CASE CallStartMH(c)
  BY <1>15 DEF CallStartMH
<1>16. CASE FindTarget(c)
  BY <1>16 DEF FindTarget
<1>17. CASE NotFound(c)
  BY <1>17 DEF NotFound
<1>18. CASE AllocMsg(c)
  BY <1>18 DEF AllocMsg
<1>19. CASE TakeStore(c)
  BY <1>19 DEF TakeStore
<1>20. CASE EnqueueMsg(c)
  BY <1>20 DEF EnqueueMsg
<1>21. CASE LinkFirst(c)
  BY <1>21 DEF LinkFirst, LinkStore
<1>22. CASE LinkMore(c)
  BY <1>22 DEF LinkMore, LinkStore
<1>23. CASE DispatchIPI(c)
  BY <1>23 DEF DispatchIPI
<1>24. CASE Wakeup(c)
  BY <1>24 DEF Wakeup
<1>25. CASE DequeueMsgHead(c)
  BY <1>25 DEF DequeueMsgHead
<1>26. CASE PopHead(c)
  BY <1>26 DEF PopHead
<1>27. CASE EndDrain(c)
  BY <1>27 DEF EndDrain
<1>28. CASE InvokeHandler(c)
  BY <1>28 DEF InvokeHandler
<1>29. CASE HandlerReturn(c)
  BY <1>29 DEF HandlerReturn
<1>30. CASE FreeMsg(c)
  BY <1>30 DEF FreeMsg
<1>31. CASE PushFree(c)
  BY <1>31 DEF PushFree
<1>32. CASE WakeByDevice(c)
  BY <1>32 DEF WakeByDevice
<1>33. CASE AppCall(c)
  BY <1>33 DEF AppCall, CallMsg
<1>34. QED
  BY <1>2, <1>3, <1>4, <1>5, <1>6, <1>7, <1>8, <1>9, <1>10, <1>11, <1>12,
     <1>13, <1>14, <1>15, <1>16, <1>17, <1>18, <1>19, <1>20, <1>21, <1>22,
     <1>23, <1>24, <1>25, <1>26, <1>27, <1>28, <1>29, <1>30, <1>31, <1>32,
     <1>33
     DEF CoreStep, LoopStep, StartStep, SendStep, DrainStep

\* A sender that owes core d the IPI or the wakeup still owes it after a step of
\* any other core, and pays with the steps DispatchIPI and Wakeup only.
LEMMA SendingKept ==
  ASSUME IInv, NEW c \in Core, CoreStep(c) \/ AppCall(c) \/ WakeByDevice(c),
         spc[c] \notin {"dispatchIPI", "wakeup"},
         NEW t \in Core, NEW p \in {"dispatchIPI", "wakeup"}, Sending(t, p)
  PROVE  Sending(t, p)'
<1> USE DEF IInv, TypeOK, SendInv,
           At, Goto, SpinLock, Enable, AddRep, EnterMsg, ReturnMsg,
           StoreFor, QueueEmpty, Linked, AfterHandler, AfterFree, PC, LoopPC,
           StartPC, DrainPC, SendPC, Msg, vars, picVars, otherVars, repVars,
           storeVars, callVars, histVars
<1>1. PICK k \in Core : spc[k] = p /\ dest[smsg[k]] = t
  BY DEF Sending
<1>2. k # c
  BY <1>1
<1>3. SUFFICES spc'[k] = p /\ dest'[smsg'[k]] = t
  BY DEF Sending
<1>4. CASE WakeBySignal(c)
  BY <1>4, <1>1, <1>2 DEF WakeBySignal
<1>5. CASE RunReset(c)
  BY <1>5, <1>1, <1>2 DEF RunReset
<1>6. CASE NoReset(c)
  BY <1>6, <1>1, <1>2 DEF NoReset
<1>7. CASE RunIPI(c)
  BY <1>7, <1>1, <1>2 DEF RunIPI
<1>8. CASE NoIPI(c)
  BY <1>8, <1>1, <1>2 DEF NoIPI
<1>9. CASE CheckVecs(c)
  BY <1>9, <1>1, <1>2 DEF CheckVecs
<1>10. CASE EventReturn(c)
  BY <1>10, <1>1, <1>2 DEF EventReturn
<1>11. CASE AckIPI(c)
  BY <1>11, <1>1, <1>2 DEF AckIPI
<1>12. CASE EnableIPI(c)
  BY <1>12, <1>1, <1>2 DEF EnableIPI
<1>13. CASE StartLoop(c)
  BY <1>13, <1>1, <1>2 DEF StartLoop
<1>14. CASE RegisterIPIHandler(c)
  BY <1>14, <1>1, <1>2 DEF RegisterIPIHandler
<1>15. CASE AddRepOn(c)
  BY <1>15, <1>1, <1>2 DEF AddRepOn
<1>16. CASE CallStartMH(c)
  BY <1>16, <1>1, <1>2 DEF CallStartMH
<1>17. CASE FindTarget(c)
  BY <1>17, <1>1, <1>2 DEF FindTarget
<1>18. CASE NotFound(c)
  BY <1>18, <1>1, <1>2 DEF NotFound
<1>19. CASE AllocMsg(c)
  BY <1>19, <1>1, <1>2 DEF AllocMsg
<1>20. CASE TakeStore(c)
  BY <1>20, <1>1, <1>2 DEF TakeStore
<1>21. CASE EnqueueMsg(c)
  BY <1>21, <1>1, <1>2 DEF EnqueueMsg
<1>22. CASE LinkFirst(c)
  BY <1>22, <1>1, <1>2 DEF LinkFirst, LinkStore
<1>23. CASE LinkMore(c)
  BY <1>23, <1>1, <1>2 DEF LinkMore, LinkStore
<1>24. CASE DequeueMsgHead(c)
  BY <1>24, <1>1, <1>2 DEF DequeueMsgHead
<1>25. CASE PopHead(c)
  BY <1>25, <1>1, <1>2 DEF PopHead
<1>26. CASE EndDrain(c)
  BY <1>26, <1>1, <1>2 DEF EndDrain
<1>27. CASE InvokeHandler(c)
  BY <1>27, <1>1, <1>2 DEF InvokeHandler
<1>28. CASE HandlerReturn(c)
  BY <1>28, <1>1, <1>2 DEF HandlerReturn
<1>29. CASE FreeMsg(c)
  BY <1>29, <1>1, <1>2 DEF FreeMsg
<1>30. CASE PushFree(c)
  BY <1>30, <1>1, <1>2 DEF PushFree
<1>31. CASE WakeByDevice(c)
  BY <1>31, <1>1, <1>2 DEF WakeByDevice
<1>32. CASE AppCall(c)
  BY <1>32, <1>1, <1>2 DEF AppCall, CallMsg
<1>33. QED
  BY <1>4, <1>5, <1>6, <1>7, <1>8, <1>9, <1>10, <1>11, <1>12, <1>13,
     <1>14, <1>15, <1>16, <1>17, <1>18, <1>19, <1>20, <1>21, <1>22, <1>23,
     <1>24, <1>25, <1>26, <1>27, <1>28, <1>29, <1>30, <1>31, <1>32
     DEF CoreStep, LoopStep, StartStep, SendStep, DrainStep, DispatchIPI, Wakeup

\* Every step keeps a non-empty queue watched: by the drain, by a pending IPI and
\* signal, or by the sender that found the queue empty.
LEMMA WakeStep ==
  ASSUME IInv, [Next]_vars
  PROVE  NoLostWakeup'
<1>1. CASE UNCHANGED vars
  BY <1>1 DEF IInv, NoLostWakeup, WillLook, Sending, vars, picVars, otherVars,
              repVars, storeVars, callVars, histVars
<1>2. SUFFICES ASSUME NEW c \in Core,
                      CoreStep(c) \/ AppCall(c) \/ WakeByDevice(c)
               PROVE  NoLostWakeup'
  BY <1>1 DEF Next
<1> SUFFICES ASSUME NEW t \in Core, (queue[t])' # <<>>
             PROVE  WillLook(t)'
  BY DEF NoLostWakeup
<1>a. spc[c] \notin {"dispatchIPI", "wakeup"} =>
        \A p \in {"dispatchIPI", "wakeup"} : Sending(t, p) => Sending(t, p)'
  BY <1>2, SendingKept
<1> USE DEF IInv, TypeOK, SendInv, LockInv, LockAt, RootInv, TargetInv, EnabledInv, NoLostWakeup, WillLook,
           At, Goto, SpinLock, Enable, AddRep, EnterMsg, ReturnMsg,
           StoreFor, QueueEmpty, Linked, AfterHandler, AfterFree, PC, LoopPC,
           StartPC, DrainPC, SendPC, Msg, vars, picVars, otherVars, repVars,
           storeVars, callVars, histVars
<1>3. CASE WakeBySignal(c)
  BY <1>3, <1>a DEF WakeBySignal
<1>4. CASE RunReset(c)
  BY <1>4, <1>a DEF RunReset
<1>5. CASE NoReset(c)
  BY <1>5, <1>a DEF NoReset
<1>6. CASE RunIPI(c)
  BY <1>6, <1>a DEF RunIPI
<1>7. CASE NoIPI(c)
  BY <1>7, <1>a DEF NoIPI
<1>8. CASE CheckVecs(c)
  BY <1>8, <1>a DEF CheckVecs
<1>9. CASE EventReturn(c)
  BY <1>9, <1>a DEF EventReturn
<1>10. CASE AckIPI(c)
  BY <1>10, <1>a DEF AckIPI
<1>11. CASE EnableIPI(c)
  BY <1>11, <1>a DEF EnableIPI
<1>12. CASE StartLoop(c)
  BY <1>12, <1>a DEF StartLoop
<1>13. CASE RegisterIPIHandler(c)
  BY <1>13, <1>a DEF RegisterIPIHandler
<1>14. CASE AddRepOn(c)
  BY <1>14, <1>a DEF AddRepOn
<1>15. CASE CallStartMH(c)
  BY <1>15, <1>a DEF CallStartMH
<1>16. CASE FindTarget(c)
  BY <1>16, <1>a DEF FindTarget
<1>17. CASE NotFound(c)
  BY <1>17, <1>a DEF NotFound
<1>18. CASE AllocMsg(c)
  BY <1>18, <1>a DEF AllocMsg
<1>19. CASE TakeStore(c)
  BY <1>19, <1>a DEF TakeStore
<1>20. CASE EnqueueMsg(c)
  BY <1>20, <1>a DEF EnqueueMsg
<1>21. CASE LinkFirst(c)
  <2>1. CASE t = dest[smsg[c]]
    <3>1. Sending(t, "dispatchIPI")'
      BY <1>21, <2>1 DEF LinkFirst, LinkStore, Sending
    <3> QED
      BY <3>1
  <2>2. CASE t # dest[smsg[c]]
    BY <1>21, <1>a, <2>2 DEF LinkFirst, LinkStore
  <2> QED
    BY <2>1, <2>2
<1>22. CASE LinkMore(c)
  BY <1>22, <1>a DEF LinkMore, LinkStore
<1>23. CASE DispatchIPI(c)
  <2>1. Sending(t, "wakeup") => Sending(t, "wakeup")'
    BY <1>23 DEF DispatchIPI, Sending
  <2>2. CASE t = dest[smsg[c]]
    <3>1. Sending(t, "wakeup")' /\ t \in ipiStatus'
      BY <1>23, <2>2 DEF DispatchIPI, Sending
    <3> QED
      BY <3>1
  <2>3. CASE t # dest[smsg[c]]
    <3>1. Sending(t, "dispatchIPI") => Sending(t, "dispatchIPI")'
      BY <1>23, <2>3 DEF DispatchIPI, Sending
    <3> QED
      BY <1>23, <2>1, <2>3, <3>1 DEF DispatchIPI
  <2> QED
    BY <2>2, <2>3
<1>24. CASE Wakeup(c)
  <2>1. ASSUME NEW p, NEW k \in Core, k # c, spc[k] = p, dest[smsg[k]] = t
        PROVE  Sending(t, p)'
    <3>1. spc'[k] = p /\ dest'[smsg'[k]] = t
      BY <1>24, <2>1 DEF Wakeup
    <3> QED
      BY <3>1 DEF Sending
  <2>2. Sending(t, "dispatchIPI") => Sending(t, "dispatchIPI")'
    <3>1. HAVE Sending(t, "dispatchIPI")
    <3>2. PICK k \in Core : spc[k] = "dispatchIPI" /\ dest[smsg[k]] = t
      BY <3>1 DEF Sending
    <3>3. k # c
      BY <1>24, <3>2 DEF Wakeup
    <3> QED
      BY <2>1, <3>2, <3>3
  <2>3. CASE t = dest[smsg[c]]
    BY <1>24, <2>2, <2>3 DEF Wakeup
  <2>4. CASE t # dest[smsg[c]]
    <3>1. Sending(t, "wakeup") => Sending(t, "wakeup")'
      <4>1. HAVE Sending(t, "wakeup")
      <4>2. PICK k \in Core : spc[k] = "wakeup" /\ dest[smsg[k]] = t
        BY <4>1 DEF Sending
      <4> QED
        BY <2>1, <2>4, <4>2
    <3> QED
      BY <1>24, <2>2, <2>4, <3>1 DEF Wakeup
  <2> QED
    BY <2>3, <2>4
<1>25. CASE DequeueMsgHead(c)
  BY <1>25, <1>a DEF DequeueMsgHead
<1>26. CASE PopHead(c)
  BY <1>26, <1>a DEF PopHead
<1>27. CASE EndDrain(c)
  BY <1>27, <1>a DEF EndDrain
<1>28. CASE InvokeHandler(c)
  BY <1>28, <1>a DEF InvokeHandler
<1>29. CASE HandlerReturn(c)
  BY <1>29, <1>a DEF HandlerReturn
<1>30. CASE FreeMsg(c)
  BY <1>30, <1>a DEF FreeMsg
<1>31. CASE PushFree(c)
  BY <1>31, <1>a DEF PushFree
<1>32. CASE WakeByDevice(c)
  BY <1>32, <1>a DEF WakeByDevice
<1>33. CASE AppCall(c)
  BY <1>33, <1>a DEF AppCall, CallMsg
<1>34. QED
  BY <1>2, <1>3, <1>4, <1>5, <1>6, <1>7, <1>8, <1>9, <1>10, <1>11, <1>12,
     <1>13, <1>14, <1>15, <1>16, <1>17, <1>18, <1>19, <1>20, <1>21, <1>22,
     <1>23, <1>24, <1>25, <1>26, <1>27, <1>28, <1>29, <1>30, <1>31, <1>32,
     <1>33
     DEF CoreStep, LoopStep, StartStep, SendStep, DrainStep

\* The invariant is inductive, and so holds in every behaviour.
THEOREM Inductive == Safety => []IInv
<1>1. IInv /\ [Next]_vars => IInv'
  BY TypeStep, SendStepInv, CurStep, LockStep, RootStep, TargetStep, EnabledStep,
     WakeStep DEF IInv
<1>2. QED
  BY InitInv, <1>1, PTL DEF Safety

\* The variables of the message manager keep their types: in particular no null
\* store is ever linked into a queue or a free list (enqueueMsg, freeMsg).
THEOREM TypeCorrect == Safety => []TypeOK
<1>1. IInv => TypeOK
  BY DEF IInv
<1>2. QED
  BY Inductive, <1>1, PTL

\* enqueueMsg's rule (an IPI only when the queue was empty) and handleEvent's
\* order (acknowledge, drain, enable) never strand a message, for any number of
\* cores, messages and stores.
THEOREM NoMessageStranded == Safety => []NoLostWakeup
<1>1. IInv => NoLostWakeup
  BY DEF IInv
<1>2. QED
  BY Inductive, <1>1, PTL

-----------------------------------------------------------------------------
(* The assertions of the code.                                             *)

\* A store that is in use has a home, and the home of a store is a core that the
\* root's list knows: where freeMsg looks for it.
HomeInv ==
  /\ \A s \in Store : home[s] # None => home[s] \in root
  /\ \A c \in Core :
       /\ \A i \in DOMAIN queue[c] : home[queue[c][i]] # None
       /\ spc[c] \in {"enqueueMsg", "link"} => home[sstore[c]] # None
       /\ pc[c] \in {"call", "msg", "freeMsg", "push"} => home[cur[c]] # None

\* What a push and a pop leave in a list was there before, or is what was pushed.
LEMMA PushMembers ==
  ASSUME NEW S, NEW s \in S, NEW q \in Seq(S), NEW i \in DOMAIN (<<s>> \o q)
  PROVE  (<<s>> \o q)[i] = s \/ \E j \in DOMAIN q : (<<s>> \o q)[i] = q[j]
<1>1. i \in 1..(Len(q) + 1) /\ Len(q) \in Nat /\ DOMAIN q = 1..Len(q)
  OBVIOUS
<1>2. CASE i = 1
  BY <1>2
<1>3. CASE i # 1
  <2>1. i - 1 \in DOMAIN q /\ (<<s>> \o q)[i] = q[i - 1]
    BY <1>1, <1>3
  <2> QED
    BY <2>1
<1> QED
  BY <1>2, <1>3

\* What is left of a queue after its head is taken.
LEMMA PopMembers ==
  ASSUME NEW S, NEW q \in Seq(S), q # <<>>
  PROVE  /\ 1 \in DOMAIN q /\ Head(q) = q[1]
         /\ \A i \in DOMAIN Tail(q) : i + 1 \in DOMAIN q /\ Tail(q)[i] = q[i + 1]
  OBVIOUS

\* A store gets its home when allocMsg returns it and keeps one from then on; a
\* core that sends is in the root's list.
LEMMA HomeStep ==
  ASSUME IInv, HomeInv, [Next]_vars
  PROVE  HomeInv'
<1> USE DEF IInv, TypeOK, SendInv, CurInv, HomeInv,
           At, Goto, SpinLock, Enable, AddRep, EnterMsg, ReturnMsg,
           StoreFor, QueueEmpty, Linked, AfterHandler, AfterFree, PC, LoopPC,
           StartPC, DrainPC, SendPC, Msg, vars, picVars, otherVars, repVars,
           storeVars, callVars, histVars
<1>1. CASE UNCHANGED vars
  BY <1>1
<1>2. SUFFICES ASSUME NEW c \in Core,
                      CoreStep(c) \/ AppCall(c) \/ WakeByDevice(c)
               PROVE  HomeInv'
  BY <1>1 DEF Next
<1>3. CASE WakeBySignal(c)
  BY <1>3 DEF WakeBySignal
<1>4. CASE RunReset(c)
  BY <1>4 DEF RunReset
<1>5. CASE NoReset(c)
  BY <1>5 DEF NoReset
<1>6. CASE RunIPI(c)
  BY <1>6 DEF RunIPI
<1>7. CASE NoIPI(c)
  BY <1>7 DEF NoIPI
<1>8. CASE CheckVecs(c)
  BY <1>8 DEF CheckVecs
<1>9. CASE EventReturn(c)
  BY <1>9 DEF EventReturn
<1>10. CASE AckIPI(c)
  BY <1>10 DEF AckIPI
<1>11. CASE EnableIPI(c)
  BY <1>11 DEF EnableIPI
<1>12. CASE StartLoop(c)
  BY <1>12 DEF StartLoop
<1>13. CASE RegisterIPIHandler(c)
  BY <1>13 DEF RegisterIPIHandler
<1>14. CASE AddRepOn(c)
  BY <1>14 DEF AddRepOn
<1>15. CASE CallStartMH(c)
  BY <1>15 DEF CallStartMH
<1>16. CASE FindTarget(c)
  BY <1>16 DEF FindTarget
<1>17. CASE NotFound(c)
  BY <1>17 DEF NotFound
<1>18. CASE AllocMsg(c)
  BY <1>18 DEF AllocMsg
<1>19. CASE TakeStore(c)
  <2>1. c \in root /\ c # None /\ c \in Core
    BY <1>19 DEF TakeStore, RootInv
  <2>2. PICK s \in Store : /\ home' = [home EXCEPT ![s] = c]
                           /\ sstore' = [sstore EXCEPT ![c] = s]
    BY <1>19 DEF TakeStore
  <2>3. \A x \in Store : home'[x] = home[x] \/ (x = s /\ home'[x] = c)
    BY <2>2
  <2>4. \A x \in Store : home[x] # None => home'[x] # None
    BY <2>1, <2>3
  <2>5. UNCHANGED <<queue, root, cur, pc>> /\ spc' = [spc EXCEPT ![c] = "enqueueMsg"]
    BY <1>19 DEF TakeStore
  <2>6. \A x \in Store : home'[x] # None => home'[x] \in root'
    <3> SUFFICES ASSUME NEW x \in Store, home'[x] # None PROVE home'[x] \in root
      BY <2>5
    <3>1. CASE home'[x] = home[x]
      BY <3>1
    <3>2. CASE home'[x] = c
      BY <2>1, <3>2
    <3> QED
      BY <2>3, <3>1, <3>2
  <2>7. ASSUME NEW k \in Core, NEW i \in DOMAIN queue'[k]
        PROVE  home'[queue'[k][i]] # None
    <3>1. queue[k] \in Seq(Store) /\ i \in DOMAIN queue[k]
      BY <2>5
    <3>2. queue[k][i] \in Store
      BY <3>1
    <3> QED
      BY <2>4, <2>5, <3>1, <3>2
  <2>8. ASSUME NEW k \in Core
        PROVE  /\ spc'[k] \in {"enqueueMsg", "link"} => home'[sstore'[k]] # None
               /\ pc'[k] \in {"call", "msg", "freeMsg", "push"}
                    => home'[cur'[k]] # None
    BY <2>1, <2>2, <2>3, <2>4, <2>5
  <2> QED
    BY <2>6, <2>7, <2>8
<1>20. CASE EnqueueMsg(c)
  BY <1>20 DEF EnqueueMsg
<1>21. ASSUME LinkFirst(c) \/ LinkMore(c)
       PROVE  HomeInv'
  <2>1. /\ LinkStore(c) /\ sstore[c] \in Store /\ view[c] \in Seq(Store)
        /\ dest[smsg[c]] \in Core /\ view[c] = queue[dest[smsg[c]]]
    BY <1>21 DEF LinkFirst, LinkMore, LinkStore, LockInv, LockAt
  <2>2. /\ UNCHANGED <<root, home, cur>>
        /\ queue' = [queue EXCEPT ![dest[smsg[c]]] = <<sstore[c]>> \o view[c]]
        /\ sstore' = [sstore EXCEPT ![c] = None]
        /\ home[sstore[c]] # None
    BY <2>1 DEF LinkStore
  <2>p. /\ \A k \in Core : pc'[k] \in {pc[k], "started"}
        /\ \A k \in Core : k # c => spc'[k] = spc[k]
        /\ spc'[c] \in {"dispatchIPI", "none"}
    BY <1>21 DEF LinkFirst, LinkMore, LinkStore
  <2>3. ASSUME NEW k \in Core, NEW i \in DOMAIN queue'[k]
        PROVE  home'[queue'[k][i]] # None
    <3>1. CASE k # dest[smsg[c]]
      BY <2>1, <2>2, <2>3, <3>1 DEF LinkStore
    <3>2. CASE k = dest[smsg[c]]
      <4>t. DOMAIN queue = Core
        BY DEF IInv, TypeOK
      <4>k. PICK q : q = <<sstore[c]>> \o view[c]
        OBVIOUS
      <4>q. queue' = [queue EXCEPT ![k] = q]
        BY <2>2, <3>2, <4>k, Zenon
      <4>1. queue'[k] = <<sstore[c]>> \o view[c]
        BY <4>t, <4>k, <4>q, Zenon
      <4>2. \A j \in DOMAIN view[c] : home[view[c][j]] # None
        BY <2>1
      <4>3. \/ queue'[k][i] = sstore[c]
            \/ \E j \in DOMAIN view[c] : queue'[k][i] = view[c][j]
        BY <2>1, <2>3, <4>1, PushMembers
      <4> QED
        BY <2>2, <4>2, <4>3
    <3> QED
      BY <3>1, <3>2
  <2>4. ASSUME NEW k \in Core
        PROVE  /\ spc'[k] \in {"enqueueMsg", "link"} => home'[sstore'[k]] # None
               /\ pc'[k] \in {"call", "msg", "freeMsg", "push"}
                    => home'[cur'[k]] # None
    BY <2>2, <2>p
  <2> QED
    BY <2>2, <2>3, <2>4
<1>23. CASE DispatchIPI(c)
  BY <1>23 DEF DispatchIPI
<1>24. CASE Wakeup(c)
  BY <1>24 DEF Wakeup
<1>25. CASE DequeueMsgHead(c)
  BY <1>25 DEF DequeueMsgHead
<1>26. CASE PopHead(c)
  <2>1. view[c] \in Seq(Store) /\ view[c] # <<>> /\ view[c] = queue[c]
    BY <1>26 DEF PopHead, LockInv, LockAt
  <2>2. UNCHANGED <<root, home, spc, sstore>>
    BY <1>26 DEF PopHead
  <2>3. ASSUME NEW k \in Core, NEW i \in DOMAIN queue'[k]
        PROVE  home'[queue'[k][i]] # None
    <3>1. CASE k # c
      BY <1>26, <2>2, <2>3, <3>1 DEF PopHead
    <3>2. CASE k = c
      <4>1. queue'[k] = Tail(view[c])
        BY <1>26, <3>2 DEF PopHead
      <4> QED
        BY <2>1, <2>2, <2>3, <4>1, PopMembers
    <3> QED
      BY <3>1, <3>2
  <2>4. home[Head(view[c])] # None
    BY <2>1, PopMembers
  <2>5. \A k \in Core : pc'[k] \in {"call", "msg", "freeMsg", "push"}
                          => home'[cur'[k]] # None
    BY <1>26, <2>2, <2>4 DEF PopHead
  <2> QED
    BY <2>2, <2>3, <2>5
<1>27. CASE EndDrain(c)
  BY <1>27 DEF EndDrain
<1>28. CASE InvokeHandler(c)
  BY <1>28 DEF InvokeHandler
<1>29. CASE HandlerReturn(c)
  BY <1>29 DEF HandlerReturn
<1>30. CASE FreeMsg(c)
  BY <1>30 DEF FreeMsg
<1>31. CASE PushFree(c)
  BY <1>31 DEF PushFree
<1>32. CASE WakeByDevice(c)
  BY <1>32 DEF WakeByDevice
<1>33. CASE AppCall(c)
  BY <1>33 DEF AppCall, CallMsg
<1>34. QED
  BY <1>2, <1>3, <1>4, <1>5, <1>6, <1>7, <1>8, <1>9, <1>10, <1>11, <1>12,
     <1>13, <1>14, <1>15, <1>16, <1>17, <1>18, <1>19, <1>20, <1>21,
     <1>23, <1>24, <1>25, <1>26, <1>27, <1>28, <1>29, <1>30, <1>31, <1>32,
     <1>33
     DEF CoreStep, LoopStep, StartStep, SendStep, DrainStep

\* No assertion of the message path fails, for any number of cores, messages and
\* stores: an IPI is never found disabled or without a handler in lrt_pic_loop,
\* L1Prim_start's message to its own core finds its target, freeMsg finds the
\* home of every store, and an IPI goes only to a core that runs.
THEOREM AssertionsNeverFail == Safety => []AssertionsHold
<1>1. Init => HomeInv
  BY DEF Init, HomeInv
<1>2. IInv /\ HomeInv => AssertionsHold
  <2> SUFFICES ASSUME IInv, HomeInv, NEW c \in Core
               PROVE  AssertionsHold!(c)
    BY DEF AssertionsHold
  <2>1. pc[c] = "ipi" /\ c \in ipiStatus => c \in enabled /\ ipiHandler[c] # None
    BY HandlerAssumption DEF IInv, EnabledInv, RootInv
  <2>2. pc[c] = "start" => c \in root
    BY DEF IInv, RootInv
  <2>3. pc[c] = "freeMsg" => home[cur[c]] \in root
    BY DEF IInv, CurInv, HomeInv
  <2>4. spc[c] \in {"dispatchIPI", "wakeup"} => pc[dest[smsg[c]]] # "off"
    BY DEF IInv, SendInv, TargetInv, RootInv
  <2> QED
    BY <2>1, <2>2, <2>3, <2>4
<1>3. QED
  BY Inductive, HomeStep, <1>1, <1>2, PTL DEF Safety
=============================================================================
