------------------------ MODULE MsgMgrChannelProofs ------------------------
(***************************************************************************)
(* TLAPS proofs that MsgMgr conserves its message stores and implements    *)
(* MsgChannel, for any set of cores, messages and stores.                  *)
(***************************************************************************)
EXTENDS MsgMgrProofs, FiniteSetTheorems

USE CoreAssumption, NoneAssumption

-----------------------------------------------------------------------------
(* Lists without repetitions.                                              *)

\* Pushing a store that is not in the list (enqueueMsg, freeMsg).
LEMMA PushRange ==
  ASSUME NEW S, NEW s \in S, NEW q \in Seq(S), IsInjective(q), s \notin Range(q)
  PROVE  /\ IsInjective(<<s>> \o q)
         /\ \A u : u \in Range(<<s>> \o q) <=> u = s \/ u \in Range(q)
<1> DEFINE r == <<s>> \o q
<1>1. /\ Len(q) \in Nat /\ DOMAIN q = 1..Len(q) /\ DOMAIN r = 1..(Len(q) + 1)
      /\ r[1] = s /\ \A i \in DOMAIN q : r[i + 1] = q[i]
  OBVIOUS
<1>2. \A i \in DOMAIN r : i # 1 => i - 1 \in DOMAIN q /\ r[i] = q[i - 1]
  BY <1>1
<1>3. \A i \in DOMAIN q : i + 1 \in DOMAIN r
  BY <1>1
<1> HIDE DEF r
<1>4. ASSUME NEW i \in DOMAIN r, NEW j \in DOMAIN r, r[i] = r[j]
      PROVE  i = j
  <2>1. CASE i = 1 /\ j # 1
    BY <1>1, <1>2, <1>4, <2>1 DEF Range
  <2>2. CASE i # 1 /\ j = 1
    BY <1>1, <1>2, <1>4, <2>2 DEF Range
  <2>3. CASE i # 1 /\ j # 1
    <3>1. i - 1 = j - 1
      BY <1>2, <1>4, <2>3 DEF IsInjective
    <3> QED
      BY <1>1, <3>1
  <2> QED
    BY <2>1, <2>2, <2>3
<1>5. ASSUME NEW u
      PROVE  u \in Range(r) <=> u = s \/ u \in Range(q)
  <2>1. ASSUME u \in Range(r) PROVE u = s \/ u \in Range(q)
    BY <1>1, <1>2, <2>1 DEF Range
  <2>2. s \in Range(r)
    BY <1>1 DEF Range
  <2>3. ASSUME u \in Range(q) PROVE u \in Range(r)
    BY <1>1, <1>3, <2>3 DEF Range
  <2> QED
    BY <2>1, <2>2, <2>3
<1> QED
  BY <1>4, <1>5 DEF r, IsInjective

\* Popping the head of a list (dequeueMsgHead, allocMsg).
LEMMA PopRange ==
  ASSUME NEW S, NEW q \in Seq(S), q # <<>>, IsInjective(q)
  PROVE  /\ IsInjective(Tail(q)) /\ Head(q) \in Range(q)
         /\ \A u : u \in Range(Tail(q)) <=> u # Head(q) /\ u \in Range(q)
<1> DEFINE r == Tail(q)
<1>1. /\ Len(q) \in Nat \ {0} /\ DOMAIN q = 1..Len(q) /\ DOMAIN r = 1..(Len(q) - 1)
      /\ Head(q) = q[1] /\ \A i \in DOMAIN r : r[i] = q[i + 1]
  OBVIOUS
<1>2. \A i \in DOMAIN r : i + 1 \in DOMAIN q /\ i + 1 # 1
  BY <1>1
<1>3. \A i \in DOMAIN q : i # 1 => i - 1 \in DOMAIN r /\ r[i - 1] = q[i]
  BY <1>1
<1> HIDE DEF r
<1>4. ASSUME NEW i \in DOMAIN r, NEW j \in DOMAIN r, r[i] = r[j]
      PROVE  i = j
  <2>1. i + 1 = j + 1
    BY <1>1, <1>2, <1>4 DEF IsInjective
  <2> QED
    BY <1>1, <2>1
<1>5. Head(q) \in Range(q)
  BY <1>1 DEF Range
<1>6. ASSUME NEW u
      PROVE  u \in Range(r) <=> u # Head(q) /\ u \in Range(q)
  <2>1. ASSUME u \in Range(r) PROVE u # Head(q) /\ u \in Range(q)
    <3>1. PICK i \in DOMAIN r : u = r[i]
      BY <2>1 DEF Range
    <3>2. u = q[i + 1] /\ i + 1 \in DOMAIN q /\ i + 1 # 1 /\ 1 \in DOMAIN q
      BY <1>1, <1>2, <3>1
    <3> QED
      BY <1>1, <3>2 DEF Range, IsInjective
  <2>2. ASSUME u # Head(q), u \in Range(q) PROVE u \in Range(r)
    <3>1. PICK i \in DOMAIN q : u = q[i]
      BY <2>2 DEF Range
    <3>2. i - 1 \in DOMAIN r /\ r[i - 1] = u
      BY <1>1, <1>3, <2>2, <3>1
    <3> QED
      BY <3>2 DEF Range
  <2> QED
    BY <2>1, <2>2
<1> QED
  BY <1>4, <1>5, <1>6 DEF r, IsInjective

-----------------------------------------------------------------------------
(* Where the stores are.                                                   *)

\* The four kinds of place a store can be in on core c: linked into the queue,
\* linked into the free list, dequeued, or taken by a msgN call in progress.
Kind == {"queue", "free", "cur", "send"}
In(s, k, c) ==
  \/ k = "queue" /\ s \in Range(queue[c])
  \/ k = "free"  /\ s \in Range(freelist[c])
  \/ k = "cur"   /\ s = cur[c]
  \/ k = "send"  /\ s = sstore[c]

\* A store has a home exactly when it is somewhere, and it is in one place only.
OneBin ==
  \A s \in Store :
    /\ \A k, j \in Kind, c, d \in Core : In(s, k, c) /\ In(s, j, d)
                                            => k = j /\ c = d
    /\ home[s] # None <=> \E k \in Kind, c \in Core : In(s, k, c)

\* No list holds a store twice.
NoDup == \A c \in Core : IsInjective(queue[c]) /\ IsInjective(freelist[c])

\* A core holds a store only between dequeueMsgHead and freeMsg, and between
\* allocMsg and enqueueMsg.
SlotInv ==
  \A c \in Core :
    /\ cur[c] # None => pc[c] \in {"call", "msg", "freeMsg", "push"}
    /\ sstore[c] # None => spc[c] \in {"enqueueMsg", "link"}

\* The critical sections of a free list exclude each other.
FLockAt(c) ==
  /\ spc[c] = "take" => flock[c] = c /\ view[c] = freelist[c]
  /\ pc[c] = "push"  => /\ flock[home[cur[c]]] = c
                        /\ view[c] = freelist[home[cur[c]]]
FLockInv == \A c \in Core : FLockAt(c)

\* freeMsg returns a store to the core that allocated it.
FreeHome == \A c \in Core : \A s \in Range(freelist[c]) : home[s] = c

StoreInv == HomeInv /\ OneBin /\ NoDup /\ SlotInv /\ FLockInv /\ FreeHome

-----------------------------------------------------------------------------
(* StoreInv is inductive.                                                  *)

\* A step takes store s from where it was, if anywhere, to kind of place j on
\* core d, and leaves the other stores where they are.
MovesTo(s, j, d) ==
  /\ \A u \in Store, x \in Kind, y \in Core :
       In(u, x, y)' <=> IF u = s THEN x = j /\ y = d ELSE In(u, x, y)
  /\ home'[s] # None
  /\ \A u \in Store : u # s => home'[u] = home[u]

\* Such a step leaves every store in one place.
LEMMA Move ==
  ASSUME OneBin, NEW s \in Store, NEW j \in Kind, NEW d \in Core, MovesTo(s, j, d)
  PROVE  OneBin'
<1> USE DEF MovesTo
<1> SUFFICES ASSUME NEW u \in Store
             PROVE  /\ \A k, l \in Kind, c, e \in Core :
                         In(u, k, c)' /\ In(u, l, e)' => k = l /\ c = e
                    /\ home'[u] # None <=> \E k \in Kind, c \in Core : In(u, k, c)'
  BY DEF OneBin
<1>1. CASE u = s
  BY <1>1
<1>2. CASE u # s
  BY <1>2 DEF OneBin
<1> QED
  BY <1>1, <1>2

\* A core's cur and sstore are empty outside handleEvent's loop and msgN: the
\* steps that leave those parts of the code clear them.
LEMMA SlotStep ==
  ASSUME IInv, SlotInv, [Next]_vars
  PROVE  SlotInv'
<1> USE DEF IInv, TypeOK, SendInv, SlotInv,
           At, Goto, SpinLock, Enable, AddRep, EnterMsg, ReturnMsg,
           StoreFor, QueueEmpty, Linked, AfterHandler, AfterFree, PC, LoopPC,
           StartPC, DrainPC, SendPC, Msg, vars, picVars, otherVars, repVars,
           storeVars, callVars, histVars
<1>1. CASE UNCHANGED vars
  BY <1>1
<1>2. SUFFICES ASSUME NEW c \in Core,
                      CoreStep(c) \/ AppCall(c) \/ WakeByDevice(c)
               PROVE  SlotInv'
  BY <1>1 DEF Next
<1>3. CASE WakeBySignal(c)
  BY <1>3 DEF WakeBySignal
<1>4. CASE RunReset(c)
  BY <1>4 DEF RunReset
<1>5. CASE NoReset(c)
  BY <1>5 DEF NoReset
<1>6. CASE RunIPI(c)
  BY <1>6 DEF RunIPI
<1>7. CASE NoIPI(c)
  BY <1>7 DEF NoIPI
<1>8. CASE CheckVecs(c)
  BY <1>8 DEF CheckVecs
<1>9. CASE EventReturn(c)
  BY <1>9 DEF EventReturn
<1>10. CASE AckIPI(c)
  BY <1>10 DEF AckIPI
<1>11. CASE EnableIPI(c)
  BY <1>11 DEF EnableIPI
<1>12. CASE StartLoop(c)
  BY <1>12 DEF StartLoop
<1>13. CASE RegisterIPIHandler(c)
  BY <1>13 DEF RegisterIPIHandler
<1>14. CASE AddRepOn(c)
  BY <1>14 DEF AddRepOn
<1>15. CASE CallStartMH(c)
  BY <1>15 DEF CallStartMH
<1>16. CASE FindTarget(c)
  BY <1>16 DEF FindTarget
<1>17. CASE NotFound(c)
  BY <1>17 DEF NotFound
<1>18. CASE AllocMsg(c)
  BY <1>18 DEF AllocMsg
<1>19. CASE TakeStore(c)
  BY <1>19 DEF TakeStore
<1>20. CASE EnqueueMsg(c)
  BY <1>20 DEF EnqueueMsg
<1>21. CASE LinkFirst(c)
  BY <1>21 DEF LinkFirst, LinkStore
<1>22. CASE LinkMore(c)
  BY <1>22 DEF LinkMore, LinkStore
<1>23. CASE DispatchIPI(c)
  BY <1>23 DEF DispatchIPI
<1>24. CASE Wakeup(c)
  BY <1>24 DEF Wakeup
<1>25. CASE DequeueMsgHead(c)
  BY <1>25 DEF DequeueMsgHead
<1>26. CASE PopHead(c)
  BY <1>26 DEF PopHead
<1>27. CASE EndDrain(c)
  BY <1>27 DEF EndDrain
<1>28. CASE InvokeHandler(c)
  BY <1>28 DEF InvokeHandler
<1>29. CASE HandlerReturn(c)
  BY <1>29 DEF HandlerReturn
<1>30. CASE FreeMsg(c)
  BY <1>30 DEF FreeMsg
<1>31. CASE PushFree(c)
  BY <1>31 DEF PushFree
<1>32. CASE WakeByDevice(c)
  BY <1>32 DEF WakeByDevice
<1>33. CASE AppCall(c)
  BY <1>33 DEF AppCall, CallMsg
<1>34. QED
  BY <1>2, <1>3, <1>4, <1>5, <1>6, <1>7, <1>8, <1>9, <1>10, <1>11, <1>12,
     <1>13, <1>14, <1>15, <1>16, <1>17, <1>18, <1>19, <1>20, <1>21, <1>22,
     <1>23, <1>24, <1>25, <1>26, <1>27, <1>28, <1>29, <1>30, <1>31, <1>32,
     <1>33
     DEF CoreStep, LoopStep, StartStep, SendStep, DrainStep

\* Who is inside the critical section of allocMsg or freeMsg holds the lock of
\* that free list, and the list is still the one it read.
LEMMA FLockStep ==
  ASSUME IInv, StoreInv, [Next]_vars
  PROVE  FLockInv'
<1> USE DEF IInv, TypeOK, SendInv, CurInv, StoreInv, HomeInv, FLockInv, FLockAt,
           At, Goto, SpinLock, Enable, AddRep, EnterMsg, ReturnMsg,
           StoreFor, QueueEmpty, Linked, AfterHandler, AfterFree, PC, LoopPC,
           StartPC, DrainPC, SendPC, Msg, vars, picVars, otherVars, repVars,
           storeVars, callVars, histVars
<1>1. CASE UNCHANGED vars
  BY <1>1
<1>2. SUFFICES ASSUME NEW c \in Core,
                      CoreStep(c) \/ AppCall(c) \/ WakeByDevice(c)
               PROVE  FLockInv'
  BY <1>1 DEF Next
<1> SUFFICES ASSUME NEW k \in Core
             PROVE  FLockAt(k)'
  OBVIOUS
<1>a. spc[c] # "none" => pc[c] # "push" /\ smsg[c] \in Msg
  OBVIOUS
<1>b. pc[k] = "push" => cur[k] \in Store /\ home[cur[k]] \in Core
  OBVIOUS
<1>3. CASE WakeBySignal(c)
  BY <1>3 DEF WakeBySignal
<1>4. CASE RunReset(c)
  BY <1>4 DEF RunReset
<1>5. CASE NoReset(c)
  BY <1>5 DEF NoReset
<1>6. CASE RunIPI(c)
  BY <1>6 DEF RunIPI
<1>7. CASE NoIPI(c)
  BY <1>7 DEF NoIPI
<1>8. CASE CheckVecs(c)
  BY <1>8 DEF CheckVecs
<1>9. CASE EventReturn(c)
  BY <1>9 DEF EventReturn
<1>10. CASE AckIPI(c)
  BY <1>10 DEF AckIPI
<1>11. CASE EnableIPI(c)
  BY <1>11 DEF EnableIPI
<1>12. CASE StartLoop(c)
  BY <1>12 DEF StartLoop
<1>13. CASE RegisterIPIHandler(c)
  BY <1>13 DEF RegisterIPIHandler
<1>14. CASE AddRepOn(c)
  BY <1>14 DEF AddRepOn
<1>15. CASE CallStartMH(c)
  BY <1>15 DEF CallStartMH
<1>16. CASE FindTarget(c)
  BY <1>16 DEF FindTarget
<1>17. CASE NotFound(c)
  BY <1>17 DEF NotFound
<1>18. CASE AllocMsg(c)
  <2>1. CASE k = c
    BY <1>18, <1>a, <1>b, <2>1 DEF AllocMsg
  <2>2. CASE k # c
    BY <1>18, <1>b, <2>2 DEF AllocMsg
  <2> QED
    BY <2>1, <2>2
<1>19. CASE TakeStore(c)
  <2>1. PICK s \in Store : StoreFor(c, s) /\ home' = [home EXCEPT ![s] = c]
    BY <1>19 DEF TakeStore
  <2>2. home[s] = None \/ home[s] = c
    <3>1. CASE view[c] = <<>>
      BY <2>1, <3>1
    <3>2. CASE view[c] # <<>>
      <4>1. s \in Range(freelist[c])
        BY <1>19, <2>1, <3>2, PopRange DEF TakeStore, NoDup
      <4> QED
        BY <4>1 DEF FreeHome
    <3> QED
      BY <3>1, <3>2
  <2>3. pc[k] = "push" => home'[cur[k]] = home[cur[k]]
    BY <1>b, <2>1, <2>2
  <2>4. CASE k = c
    BY <1>19, <1>a, <2>4 DEF TakeStore
  <2>5. CASE k # c
    BY <1>19, <1>b, <2>3, <2>5 DEF TakeStore
  <2> QED
    BY <2>4, <2>5
<1>20. CASE EnqueueMsg(c)
  <2>1. CASE k = c
    BY <1>20, <1>a, <1>b, <2>1 DEF EnqueueMsg
  <2>2. CASE k # c
    BY <1>20, <1>b, <2>2 DEF EnqueueMsg
  <2> QED
    BY <2>1, <2>2
<1>21. CASE LinkFirst(c)
  <2>1. CASE k = c
    BY <1>21, <1>a, <1>b, <2>1 DEF LinkFirst, LinkStore
  <2>2. CASE k # c
    BY <1>21, <1>b, <2>2 DEF LinkFirst, LinkStore
  <2> QED
    BY <2>1, <2>2
<1>22. CASE LinkMore(c)
  <2>1. CASE k = c
    BY <1>22, <1>a, <1>b, <2>1 DEF LinkMore, LinkStore
  <2>2. CASE k # c
    BY <1>22, <1>b, <2>2 DEF LinkMore, LinkStore
  <2> QED
    BY <2>1, <2>2
<1>23. CASE DispatchIPI(c)
  BY <1>23 DEF DispatchIPI
<1>24. CASE Wakeup(c)
  BY <1>24 DEF Wakeup
<1>25. CASE DequeueMsgHead(c)
  BY <1>25 DEF DequeueMsgHead
<1>26. CASE PopHead(c)
  BY <1>26 DEF PopHead
<1>27. CASE EndDrain(c)
  BY <1>27 DEF EndDrain
<1>28. CASE InvokeHandler(c)
  BY <1>28 DEF InvokeHandler
<1>29. CASE HandlerReturn(c)
  BY <1>29 DEF HandlerReturn
<1>30. CASE FreeMsg(c)
  BY <1>30 DEF FreeMsg
<1>31. CASE PushFree(c)
  BY <1>31 DEF PushFree
<1>32. CASE WakeByDevice(c)
  BY <1>32 DEF WakeByDevice
<1>33. CASE AppCall(c)
  BY <1>33 DEF AppCall, CallMsg
<1>34. QED
  BY <1>2, <1>3, <1>4, <1>5, <1>6, <1>7, <1>8, <1>9, <1>10, <1>11, <1>12,
     <1>13, <1>14, <1>15, <1>16, <1>17, <1>18, <1>19, <1>20, <1>21, <1>22,
     <1>23, <1>24, <1>25, <1>26, <1>27, <1>28, <1>29, <1>30, <1>31, <1>32,
     <1>33
     DEF CoreStep, LoopStep, StartStep, SendStep, DrainStep

\* Where the stores are, what they hold apart, and who owns them.
BinInv == OneBin /\ NoDup /\ FreeHome

\* A step that touches no list, no home and no core's store moves nothing.
LEMMA QuietMove ==
  ASSUME BinInv, UNCHANGED <<queue, freelist, home, cur, sstore>>
  PROVE  BinInv'
  BY DEF BinInv, OneBin, NoDup, FreeHome, In

\* allocMsg takes the head of the core's own free list, or fresh memory, and the
\* store is then the sender's alone.
LEMMA TakeMove ==
  ASSUME IInv, StoreInv, NEW c \in Core, TakeStore(c)
  PROVE  BinInv'
<1> USE DEF IInv, TypeOK, StoreInv
<1>1. PICK s \in Store : /\ StoreFor(c, s)
                         /\ home' = [home EXCEPT ![s] = c]
                         /\ sstore' = [sstore EXCEPT ![c] = s]
  BY DEF TakeStore
<1>2. /\ UNCHANGED <<queue, cur>> /\ sstore[c] = None
      /\ view[c] = freelist[c] /\ spc[c] = "take"
  BY DEF TakeStore, SlotInv, FLockInv, FLockAt
<1>3. \A d \in Core : d # c => freelist'[d] = freelist[d]
  BY DEF TakeStore
<1>4. /\ IsInjective(freelist'[c])
      /\ \A u \in Store : u \in Range(freelist'[c]) <=>
                            u # s /\ u \in Range(freelist[c])
      /\ \A u \in Range(freelist'[c]) : u \in Range(freelist[c])
  <2>1. CASE view[c] # <<>>
    <3>1. freelist'[c] = Tail(freelist[c]) /\ s = Head(freelist[c])
      BY <1>1, <1>2, <2>1 DEF TakeStore, StoreFor
    <3> QED
      BY <1>2, <2>1, <3>1, PopRange DEF NoDup
  <2>2. CASE view[c] = <<>>
    <3>1. freelist'[c] = freelist[c] /\ freelist[c] = <<>>
      BY <1>2, <2>2 DEF TakeStore
    <3> QED
      BY <3>1 DEF NoDup, Range
  <2> QED
    BY <2>1, <2>2
<1>5. \A x \in Kind, y \in Core : In(s, x, y) => x = "free" /\ y = c
  <2>1. CASE view[c] # <<>>
    <3>1. In(s, "free", c)
      BY <1>1, <1>2, <2>1, PopRange DEF StoreFor, NoDup, In
    <3> QED
      BY <3>1 DEF OneBin, Kind
  <2>2. CASE view[c] = <<>>
    BY <1>1, <2>2 DEF StoreFor, OneBin
  <2> QED
    BY <2>1, <2>2
<1>6. ASSUME NEW u \in Store, NEW x \in Kind, NEW y \in Core
      PROVE  In(u, x, y)' <=> IF u = s THEN x = "send" /\ y = c ELSE In(u, x, y)
  <2>1. CASE x = "queue"
    BY <1>2, <1>5, <2>1 DEF In, Kind
  <2>2. CASE x = "free"
    BY <1>3, <1>4, <1>5, <2>2 DEF In, Kind
  <2>3. CASE x = "cur"
    BY <1>2, <1>5, <2>3 DEF In, Kind
  <2>4. CASE x = "send"
    BY <1>1, <1>2, <1>5, <2>4 DEF In, Kind
  <2> QED
    BY <2>1, <2>2, <2>3, <2>4 DEF Kind
<1>7. OneBin'
  <2>1. home'[s] # None /\ \A u \in Store : u # s => home'[u] = home[u]
    BY <1>1
  <2>2. OneBin /\ "send" \in Kind
    BY DEF Kind
  <2>3. MovesTo(s, "send", c)
    BY <1>6, <2>1 DEF MovesTo
  <2> QED
    BY <2>2, <2>3, Move
<1>8. NoDup'
  BY <1>2, <1>3, <1>4 DEF NoDup
<1>9. ASSUME NEW d \in Core, NEW u \in Range(freelist'[d])
      PROVE  home'[u] = d
  <2>1. u \in Range(freelist[d]) /\ u \in Store
    <3>1. u \in Range(freelist[d])
      BY <1>3, <1>4
    <3>2. freelist[d] \in Seq(Store)
      OBVIOUS
    <3> QED
      BY <3>1, <3>2 DEF Range
  <2>2. home[u] = d
    BY <2>1 DEF FreeHome
  <2>3. u = s => d = c
    BY <1>5, <2>1 DEF In, Kind
  <2> QED
    BY <1>1, <2>1, <2>2, <2>3
<1> QED
  BY <1>7, <1>8, <1>9 DEF BinInv, FreeHome

\* enqueueMsg moves the sender's store to the target's queue.
LEMMA LinkMove ==
  ASSUME IInv, StoreInv, NEW c \in Core, LinkStore(c)
  PROVE  BinInv'
<1> USE DEF IInv, TypeOK, SendInv, StoreInv
<1> DEFINE s == sstore[c]  d == dest[smsg[c]]
<1>1. /\ s \in Store /\ d \in Core /\ view[c] = queue[d]
      /\ UNCHANGED <<freelist, home, cur>>
      /\ queue' = [queue EXCEPT ![d] = <<s>> \o queue[d]]
      /\ sstore' = [sstore EXCEPT ![c] = None]
  BY DEF LinkStore, Linked, LockInv, LockAt, storeVars
<1> HIDE DEF s, d
<1>2. \A x \in Kind, y \in Core : In(s, x, y) <=> x = "send" /\ y = c
  <2>1. In(s, "send", c)
    BY DEF In, s
  <2> QED
    BY <1>1, <2>1 DEF OneBin, Kind
<1>3. /\ IsInjective(queue'[d])
      /\ \A u : u \in Range(queue'[d]) <=> u = s \/ u \in Range(queue[d])
  <2>1. s \notin Range(queue[d])
    BY <1>1, <1>2 DEF In, Kind
  <2> QED
    BY <1>1, <2>1, PushRange DEF NoDup
<1>4. \A e \in Core : e # d => queue'[e] = queue[e]
  BY <1>1
<1>5. ASSUME NEW u \in Store, NEW x \in Kind, NEW y \in Core
      PROVE  In(u, x, y)' <=> IF u = s THEN x = "queue" /\ y = d ELSE In(u, x, y)
  <2>1. CASE x = "queue"
    <3>1. In(u, x, y)' <=> u \in Range(queue'[y])
      BY <2>1 DEF In
    <3>2. In(u, x, y) <=> u \in Range(queue[y])
      BY <2>1 DEF In
    <3>3. u = s => u \notin Range(queue[y])
      BY <1>2, <2>1, <3>2
    <3> QED
      BY <1>3, <1>4, <2>1, <3>1, <3>2, <3>3
  <2>2. CASE x = "free"
    BY <1>1, <1>2, <2>2 DEF In, Kind
  <2>3. CASE x = "cur"
    BY <1>1, <1>2, <2>3 DEF In, Kind
  <2>4. CASE x = "send"
    <3>1. \A e \in Core : sstore'[e] = IF e = c THEN None ELSE sstore[e]
      BY <1>1
    <3>2. \A e \in Core : s = sstore[e] => e = c
      BY <1>2 DEF In, Kind
    <3>3. u # None /\ s = sstore[c]
      BY DEF s
    <3> QED
      BY <2>4, <3>1, <3>2, <3>3 DEF In
  <2> QED
    BY <2>1, <2>2, <2>3, <2>4 DEF Kind
<1>6. OneBin'
  <2>1. home'[s] # None /\ \A u \in Store : u # s => home'[u] = home[u]
    BY <1>1, <1>2 DEF OneBin, Kind
  <2>2. OneBin /\ "queue" \in Kind
    BY DEF Kind
  <2>3. MovesTo(s, "queue", d)
    BY <1>5, <2>1 DEF MovesTo
  <2> QED
    BY <1>1, <2>2, <2>3, Move
<1>7. NoDup'
  BY <1>1, <1>3, <1>4 DEF NoDup
<1>8. FreeHome'
  BY <1>1 DEF FreeHome
<1> QED
  BY <1>6, <1>7, <1>8 DEF BinInv

\* dequeueMsgHead moves the head of the core's queue to the core.
LEMMA PopMove ==
  ASSUME IInv, StoreInv, NEW c \in Core, PopHead(c)
  PROVE  BinInv'
<1> USE DEF IInv, TypeOK, StoreInv
<1> DEFINE s == Head(queue[c])
<1>1. /\ view[c] = queue[c] /\ queue[c] # <<>> /\ cur[c] = None
      /\ UNCHANGED <<freelist, home, sstore>>
      /\ queue' = [queue EXCEPT ![c] = Tail(queue[c])]
      /\ cur' = [cur EXCEPT ![c] = s]
  BY DEF PopHead, At, LockInv, LockAt, SlotInv, storeVars
<1>2. /\ s \in Store /\ s \in Range(queue[c])
      /\ IsInjective(queue'[c])
      /\ \A u : u \in Range(queue'[c]) <=> u # s /\ u \in Range(queue[c])
  BY <1>1, PopRange, PopList DEF NoDup
<1> HIDE DEF s
<1>3. \A x \in Kind, y \in Core : In(s, x, y) <=> x = "queue" /\ y = c
  <2>1. In(s, "queue", c)
    BY <1>2 DEF In
  <2> QED
    BY <1>2, <2>1 DEF OneBin, Kind
<1>4. \A e \in Core : e # c => queue'[e] = queue[e]
  BY <1>1
<1>5. ASSUME NEW u \in Store, NEW x \in Kind, NEW y \in Core
      PROVE  In(u, x, y)' <=> IF u = s THEN x = "cur" /\ y = c ELSE In(u, x, y)
  <2>1. CASE x = "queue"
    BY <1>2, <1>3, <1>4, <2>1 DEF In, Kind
  <2>2. CASE x = "free"
    BY <1>1, <1>3, <2>2 DEF In, Kind
  <2>3. CASE x = "cur"
    BY <1>1, <1>3, <2>3 DEF In, Kind
  <2>4. CASE x = "send"
    BY <1>1, <1>3, <2>4 DEF In, Kind
  <2> QED
    BY <2>1, <2>2, <2>3, <2>4 DEF Kind
<1>6. OneBin'
  <2>1. home'[s] # None /\ \A u \in Store : u # s => home'[u] = home[u]
    BY <1>1, <1>2, <1>3 DEF OneBin, Kind
  <2>2. OneBin /\ "cur" \in Kind
    BY DEF Kind
  <2>3. MovesTo(s, "cur", c)
    BY <1>5, <2>1 DEF MovesTo
  <2> QED
    BY <1>2, <2>2, <2>3, Move
<1>7. NoDup'
  BY <1>1, <1>2, <1>4 DEF NoDup
<1>8. FreeHome'
  BY <1>1 DEF FreeHome
<1> QED
  BY <1>6, <1>7, <1>8 DEF BinInv

\* freeMsg moves the core's store to the free list of its home.
LEMMA FreeMove ==
  ASSUME IInv, StoreInv, NEW c \in Core, PushFree(c)
  PROVE  BinInv'
<1> USE DEF IInv, TypeOK, CurInv, HomeInv, StoreInv
<1> DEFINE s == cur[c]  d == home[cur[c]]
<1>1. /\ s \in Store /\ d \in Core /\ d = home[s] /\ view[c] = freelist[d]
      /\ UNCHANGED <<queue, home, sstore>>
      /\ freelist' = [freelist EXCEPT ![d] = <<s>> \o freelist[d]]
      /\ cur' = [cur EXCEPT ![c] = None]
  BY DEF PushFree, At, FLockInv, FLockAt, storeVars
<1> HIDE DEF s, d
<1>2. \A x \in Kind, y \in Core : In(s, x, y) <=> x = "cur" /\ y = c
  <2>1. In(s, "cur", c)
    BY DEF In, s
  <2> QED
    BY <1>1, <2>1 DEF OneBin, Kind
<1>3. /\ IsInjective(freelist'[d])
      /\ \A u : u \in Range(freelist'[d]) <=> u = s \/ u \in Range(freelist[d])
  <2>1. s \notin Range(freelist[d])
    BY <1>1, <1>2 DEF In, Kind
  <2> QED
    BY <1>1, <2>1, PushRange DEF NoDup
<1>4. \A e \in Core : e # d => freelist'[e] = freelist[e]
  BY <1>1
<1>5. ASSUME NEW u \in Store, NEW x \in Kind, NEW y \in Core
      PROVE  In(u, x, y)' <=> IF u = s THEN x = "free" /\ y = d ELSE In(u, x, y)
  <2>1. CASE x = "queue"
    BY <1>1, <1>2, <2>1 DEF In, Kind
  <2>2. CASE x = "free"
    <3>1. In(u, x, y)' <=> u \in Range(freelist'[y])
      BY <2>2 DEF In
    <3>2. In(u, x, y) <=> u \in Range(freelist[y])
      BY <2>2 DEF In
    <3>3. u = s => u \notin Range(freelist[y])
      BY <1>2, <2>2, <3>2
    <3> QED
      BY <1>3, <1>4, <2>2, <3>1, <3>2, <3>3
  <2>3. CASE x = "cur"
    <3>1. \A e \in Core : cur'[e] = IF e = c THEN None ELSE cur[e]
      BY <1>1
    <3>2. \A e \in Core : s = cur[e] => e = c
      BY <1>2 DEF In, Kind
    <3>3. u # None /\ s = cur[c]
      BY DEF s
    <3> QED
      BY <2>3, <3>1, <3>2, <3>3 DEF In
  <2>4. CASE x = "send"
    BY <1>1, <1>2, <2>4 DEF In, Kind
  <2> QED
    BY <2>1, <2>2, <2>3, <2>4 DEF Kind
<1>6. OneBin'
  <2>1. home'[s] # None /\ \A u \in Store : u # s => home'[u] = home[u]
    BY <1>1, <1>2 DEF OneBin, Kind
  <2>2. OneBin /\ "free" \in Kind
    BY DEF Kind
  <2>3. MovesTo(s, "free", d)
    BY <1>5, <2>1 DEF MovesTo
  <2> QED
    BY <1>1, <2>2, <2>3, Move
<1>7. NoDup'
  BY <1>1, <1>3, <1>4 DEF NoDup
<1>8. FreeHome'
  BY <1>1, <1>3, <1>4 DEF FreeHome
<1> QED
  BY <1>6, <1>7, <1>8 DEF BinInv

\* Only allocMsg, enqueueMsg, dequeueMsgHead and freeMsg move a store.
LEMMA BinStep ==
  ASSUME IInv, StoreInv, [Next]_vars
  PROVE  BinInv'
<1> USE DEF EnterMsg, ReturnMsg, Goto, vars, picVars, otherVars, repVars,
           storeVars, callVars, histVars
<1>1. CASE UNCHANGED vars
  BY <1>1, QuietMove DEF StoreInv, BinInv
<1>2. SUFFICES ASSUME NEW c \in Core,
                      CoreStep(c) \/ AppCall(c) \/ WakeByDevice(c)
               PROVE  BinInv'
  BY <1>1 DEF Next
<1> BinInv
  BY DEF StoreInv, BinInv
<1>3. CASE WakeBySignal(c)
  BY <1>3, QuietMove DEF WakeBySignal
<1>4. CASE RunReset(c)
  BY <1>4, QuietMove DEF RunReset
<1>5. CASE NoReset(c)
  BY <1>5, QuietMove DEF NoReset
<1>6. CASE RunIPI(c)
  BY <1>6, QuietMove DEF RunIPI
<1>7. CASE NoIPI(c)
  BY <1>7, QuietMove DEF NoIPI
<1>8. CASE CheckVecs(c)
  BY <1>8, QuietMove DEF CheckVecs
<1>9. CASE EventReturn(c)
  BY <1>9, QuietMove DEF EventReturn
<1>10. CASE AckIPI(c)
  BY <1>10, QuietMove DEF AckIPI
<1>11. CASE EnableIPI(c)
  BY <1>11, QuietMove DEF EnableIPI
<1>12. CASE StartLoop(c)
  BY <1>12, QuietMove DEF StartLoop
<1>13. CASE RegisterIPIHandler(c)
  BY <1>13, QuietMove DEF RegisterIPIHandler
<1>14. CASE AddRepOn(c)
  BY <1>14, QuietMove DEF AddRepOn
<1>15. CASE CallStartMH(c)
  BY <1>15, QuietMove DEF CallStartMH
<1>16. CASE FindTarget(c)
  BY <1>16, QuietMove DEF FindTarget
<1>17. CASE NotFound(c)
  BY <1>17, QuietMove DEF NotFound
<1>18. CASE AllocMsg(c)
  BY <1>18, QuietMove DEF AllocMsg
<1>19. CASE TakeStore(c)
  BY <1>19, TakeMove
<1>20. CASE EnqueueMsg(c)
  BY <1>20, QuietMove DEF EnqueueMsg
<1>21. CASE LinkFirst(c)
  BY <1>21, LinkMove DEF LinkFirst
<1>22. CASE LinkMore(c)
  BY <1>22, LinkMove DEF LinkMore
<1>23. CASE DispatchIPI(c)
  BY <1>23, QuietMove DEF DispatchIPI
<1>24. CASE Wakeup(c)
  BY <1>24, QuietMove DEF Wakeup
<1>25. CASE DequeueMsgHead(c)
  BY <1>25, QuietMove DEF DequeueMsgHead
<1>26. CASE PopHead(c)
  BY <1>26, PopMove
<1>27. CASE EndDrain(c)
  BY <1>27, QuietMove DEF EndDrain
<1>28. CASE InvokeHandler(c)
  BY <1>28, QuietMove DEF InvokeHandler
<1>29. CASE HandlerReturn(c)
  BY <1>29, QuietMove DEF HandlerReturn
<1>30. CASE FreeMsg(c)
  BY <1>30, QuietMove DEF FreeMsg
<1>31. CASE PushFree(c)
  BY <1>31, FreeMove
<1>32. CASE WakeByDevice(c)
  BY <1>32, QuietMove DEF WakeByDevice
<1>33. CASE AppCall(c)
  BY <1>33, QuietMove DEF AppCall, CallMsg
<1>34. QED
  BY <1>2, <1>3, <1>4, <1>5, <1>6, <1>7, <1>8, <1>9, <1>10, <1>11, <1>12,
     <1>13, <1>14, <1>15, <1>16, <1>17, <1>18, <1>19, <1>20, <1>21, <1>22,
     <1>23, <1>24, <1>25, <1>26, <1>27, <1>28, <1>29, <1>30, <1>31, <1>32,
     <1>33
     DEF CoreStep, LoopStep, StartStep, SendStep, DrainStep

\* No store has been allocated when the cores start.
LEMMA StoreInit == Init => StoreInv
<1> SUFFICES ASSUME Init PROVE StoreInv
  OBVIOUS
<1>1. HomeInv /\ SlotInv /\ FLockInv
  BY DEF Init, HomeInv, SlotInv, FLockInv, FLockAt
<1>2. \A c \in Core : Range(queue[c]) = {} /\ Range(freelist[c]) = {}
  BY DEF Init, Range
<1>3. OneBin /\ FreeHome
  BY <1>2 DEF Init, OneBin, FreeHome, In, Kind
<1>4. NoDup
  BY DEF Init, NoDup, IsInjective
<1> QED
  BY <1>1, <1>3, <1>4 DEF StoreInv

\* StoreInv holds in every behaviour.
THEOREM StoreInductive == Safety => []StoreInv
<1>1. IInv /\ StoreInv /\ [Next]_vars => StoreInv'
  BY HomeStep, BinStep, SlotStep, FLockStep DEF StoreInv, BinInv
<1>2. QED
  BY Inductive, StoreInit, <1>1, PTL DEF Safety

\* Which triples are places of store s.
LEMMA PlaceOf ==
  ASSUME NEW s \in Store, NEW p
  PROVE  p \in Places(s) <=>
           \E c \in Core :
             \/ \E i \in DOMAIN queue[c] : queue[c][i] = s /\ p = <<"queue", c, i>>
             \/ \E i \in DOMAIN freelist[c] :
                  freelist[c][i] = s /\ p = <<"free", c, i>>
             \/ cur[c] = s /\ p = <<"cur", c, 0>>
             \/ sstore[c] = s /\ p = <<"send", c, 0>>
<1> DEFINE Q(c) == {<<"queue", c, i>> : i \in {j \in DOMAIN queue[c] :
                                                 queue[c][j] = s}}
           F(c) == {<<"free", c, i>> : i \in {j \in DOMAIN freelist[c] :
                                                 freelist[c][j] = s}}
           C(c) == {<<"cur", c, i>> : i \in {0} \cap {IF cur[c] = s THEN 0 ELSE 1}}
           S(c) == {<<"send", c, i>> : i \in {0} \cap
                                             {IF sstore[c] = s THEN 0 ELSE 1}}
<1>1. p \in Places(s) <=> \E c \in Core : p \in Q(c) \cup F(c) \cup C(c) \cup S(c)
  BY DEF Places
<1>2. ASSUME NEW c \in Core
      PROVE  /\ p \in Q(c) <=> \E i \in DOMAIN queue[c] :
                                 queue[c][i] = s /\ p = <<"queue", c, i>>
             /\ p \in F(c) <=> \E i \in DOMAIN freelist[c] :
                                 freelist[c][i] = s /\ p = <<"free", c, i>>
  OBVIOUS
<1>3. ASSUME NEW c \in Core
      PROVE  p \in C(c) <=> cur[c] = s /\ p = <<"cur", c, 0>>
  <2>1. CASE cur[c] = s
    <3>1. {0} \cap {IF cur[c] = s THEN 0 ELSE 1} = {0}
      BY <2>1
    <3> QED
      BY <2>1, <3>1
  <2>2. CASE cur[c] # s
    <3>1. {0} \cap {IF cur[c] = s THEN 0 ELSE 1} = {}
      BY <2>2
    <3> QED
      BY <2>2, <3>1
  <2> QED
    BY <2>1, <2>2
<1>4. ASSUME NEW c \in Core
      PROVE  p \in S(c) <=> sstore[c] = s /\ p = <<"send", c, 0>>
  <2>1. CASE sstore[c] = s
    <3>1. {0} \cap {IF sstore[c] = s THEN 0 ELSE 1} = {0}
      BY <2>1
    <3> QED
      BY <2>1, <3>1
  <2>2. CASE sstore[c] # s
    <3>1. {0} \cap {IF sstore[c] = s THEN 0 ELSE 1} = {}
      BY <2>2
    <3> QED
      BY <2>2, <3>1
  <2> QED
    BY <2>1, <2>2
<1> HIDE DEF Q, F, C, S
<1> QED
  BY <1>1, <1>2, <1>3, <1>4

\* A place of s is of a kind in which s is; and of each kind there is one place.
LEMMA PlaceIn ==
  ASSUME TypeOK, NoDup, NEW s \in Store, NEW k \in Kind, NEW c \in Core, In(s, k, c),
         OneBin
  PROVE  \E p : Places(s) = {p}
<1> USE DEF TypeOK
<1>1. \A j \in Kind, d \in Core : In(s, j, d) => j = k /\ d = c
  BY DEF OneBin
<1>q. \A d \in Core : \A i \in DOMAIN queue[d] :
         queue[d][i] = s => k = "queue" /\ d = c
  BY <1>1 DEF In, Kind, Range
<1>f. \A d \in Core : \A i \in DOMAIN freelist[d] :
         freelist[d][i] = s => k = "free" /\ d = c
  BY <1>1 DEF In, Kind, Range
<1>c. \A d \in Core : /\ cur[d] = s => k = "cur" /\ d = c
                      /\ sstore[d] = s => k = "send" /\ d = c
  BY <1>1 DEF In, Kind
<1>2. CASE k = "queue"
  <2>1. PICK i \in DOMAIN queue[c] : queue[c][i] = s
    BY <1>2 DEF In, Range
  <2>2. \A j \in DOMAIN queue[c] : queue[c][j] = s => j = i
    BY <2>1 DEF NoDup, IsInjective
  <2>3. \A p : p \in Places(s) <=> p = <<"queue", c, i>>
    BY <1>2, <1>q, <1>f, <1>c, <2>1, <2>2, PlaceOf
  <2>4. Places(s) = {<<"queue", c, i>>}
    BY <2>3
  <2> QED
    BY <2>4
<1>3. CASE k = "free"
  <2>1. PICK i \in DOMAIN freelist[c] : freelist[c][i] = s
    BY <1>3 DEF In, Range
  <2>2. \A j \in DOMAIN freelist[c] : freelist[c][j] = s => j = i
    BY <2>1 DEF NoDup, IsInjective
  <2>3. \A p : p \in Places(s) <=> p = <<"free", c, i>>
    BY <1>3, <1>q, <1>f, <1>c, <2>1, <2>2, PlaceOf
  <2>4. Places(s) = {<<"free", c, i>>}
    BY <2>3
  <2> QED
    BY <2>4
<1>4. CASE k = "cur"
  <2>1. \A p : p \in Places(s) <=> p = <<"cur", c, 0>>
    BY <1>4, <1>q, <1>f, <1>c, PlaceOf DEF In
  <2>2. Places(s) = {<<"cur", c, 0>>}
    BY <2>1
  <2> QED
    BY <2>2
<1>5. CASE k = "send"
  <2>1. \A p : p \in Places(s) <=> p = <<"send", c, 0>>
    BY <1>5, <1>q, <1>f, <1>c, PlaceOf DEF In
  <2>2. Places(s) = {<<"send", c, 0>>}
    BY <2>1
  <2> QED
    BY <2>2
<1> QED
  BY <1>2, <1>3, <1>4, <1>5 DEF Kind

\* Memory that allocMsg ever obtained for a message is in exactly one queue, free
\* list, handler or sender, and a free list holds only its own core's stores, for
\* any number of cores, messages and stores.
THEOREM StoresConserved == Safety => []StoreConserved
<1>1. IInv /\ StoreInv => StoreConserved
  <2> SUFFICES ASSUME IInv, StoreInv PROVE StoreConserved
    OBVIOUS
  <2> USE DEF IInv, StoreInv
  <2>1. ASSUME NEW s \in Store, home[s] = None
        PROVE  Places(s) = {}
    <3>1. \A k \in Kind, c \in Core : ~In(s, k, c)
      BY <2>1 DEF OneBin
    <3>2. \A c \in Core : /\ s \notin Range(queue[c])
                          /\ s \notin Range(freelist[c])
                          /\ cur[c] # s /\ sstore[c] # s
      BY <3>1 DEF In, Kind
    <3>3. \A p : p \notin Places(s)
      BY <3>2, PlaceOf DEF Range
    <3> QED
      BY <3>3
  <2>2. ASSUME NEW s \in Store, home[s] # None
        PROVE  Cardinality(Places(s)) = 1
    <3>1. PICK k \in Kind, c \in Core : In(s, k, c)
      BY <2>2 DEF OneBin
    <3>2. \E p : Places(s) = {p}
      BY <3>1, PlaceIn
    <3> QED
      BY <3>2, FS_Singleton
  <2>3. ASSUME NEW c \in Core, NEW i \in DOMAIN freelist[c]
        PROVE  home[freelist[c][i]] = c
    BY DEF FreeHome, Range
  <2> QED
    BY <2>1, <2>2, <2>3 DEF StoreConserved
<1>2. QED
  BY Inductive, StoreInductive, <1>1, PTL

-----------------------------------------------------------------------------
(* Which message a store carries.                                          *)

\* Store s waits on core c: queued there, or dequeued with its handler not yet
\* invoked.
Waits(s, c) == s \in Range(queue[c]) \/ (pc[c] = "call" /\ cur[c] = s)

\* A waiting store carries a message for the core it waits on, which has not been
\* delivered.
WaitInv ==
  \A s \in Store, c \in Core :
    Waits(s, c) => /\ content[s] \in Msg
                   /\ dest[content[s]] = c
                   /\ delivered[content[s]] = None

\* No two waiting stores carry the same message.
DistinctInv ==
  \A s, t \in Store, c, d \in Core :
    Waits(s, c) /\ Waits(t, d) /\ content[s] = content[t] => s = t

\* The message of a call that has not linked its store yet is carried by no
\* waiting store and not delivered; the store the call has taken carries it.
CallInv ==
  \A c \in Core :
    /\ spc[c] \in {"findTarget", "allocMsg", "take", "enqueueMsg", "link"}
         => /\ delivered[smsg[c]] = None
            /\ \A s \in Store, d \in Core : Waits(s, d) => content[s] # smsg[c]
    /\ spc[c] \in {"enqueueMsg", "link"} => content[sstore[c]] = smsg[c]

\* A message that is with its caller has not been delivered.
FreshInv == \A m \in Msg : dest[m] = None => delivered[m] = None

MsgInv == WaitInv /\ DistinctInv /\ CallInv /\ FreshInv

\* The same stores wait on the same cores after a step.
SameWaits == \A s \in Store, d \in Core : Waits(s, d)' <=> Waits(s, d)

\* Only enqueueMsg and the invocation of a handler change what waits.
LEMMA WaitsStep ==
  ASSUME IInv, StoreInv, NEW c \in Core, CoreStep(c) \/ AppCall(c) \/ WakeByDevice(c)
  PROVE  LinkFirst(c) \/ LinkMore(c) \/ InvokeHandler(c) \/ SameWaits
<1> USE DEF IInv, TypeOK, SendInv, Waits,
           At, Goto, SpinLock, Enable, AddRep, EnterMsg, ReturnMsg,
           StoreFor, QueueEmpty, Linked, AfterHandler, AfterFree, PC, LoopPC,
           StartPC, DrainPC, SendPC, Msg, vars, picVars, otherVars, repVars,
           storeVars, callVars, histVars
<1>3. CASE WakeBySignal(c)
  BY <1>3 DEF SameWaits, WakeBySignal
<1>4. CASE RunReset(c)
  BY <1>4 DEF SameWaits, RunReset
<1>5. CASE NoReset(c)
  BY <1>5 DEF SameWaits, NoReset
<1>6. CASE RunIPI(c)
  BY <1>6 DEF SameWaits, RunIPI
<1>7. CASE NoIPI(c)
  BY <1>7 DEF SameWaits, NoIPI
<1>8. CASE CheckVecs(c)
  BY <1>8 DEF SameWaits, CheckVecs
<1>9. CASE EventReturn(c)
  BY <1>9 DEF SameWaits, EventReturn
<1>10. CASE AckIPI(c)
  BY <1>10 DEF SameWaits, AckIPI
<1>11. CASE EnableIPI(c)
  BY <1>11 DEF SameWaits, EnableIPI
<1>12. CASE StartLoop(c)
  BY <1>12 DEF SameWaits, StartLoop
<1>13. CASE RegisterIPIHandler(c)
  BY <1>13 DEF SameWaits, RegisterIPIHandler
<1>14. CASE AddRepOn(c)
  BY <1>14 DEF SameWaits, AddRepOn
<1>15. CASE CallStartMH(c)
  BY <1>15 DEF SameWaits, CallStartMH
<1>16. CASE FindTarget(c)
  BY <1>16 DEF SameWaits, FindTarget
<1>17. CASE NotFound(c)
  BY <1>17 DEF SameWaits, NotFound
<1>18. CASE AllocMsg(c)
  BY <1>18 DEF SameWaits, AllocMsg
<1>19. CASE TakeStore(c)
  BY <1>19 DEF SameWaits, TakeStore
<1>20. CASE EnqueueMsg(c)
  BY <1>20 DEF SameWaits, EnqueueMsg
<1>21. CASE LinkFirst(c)
  BY <1>21
<1>22. CASE LinkMore(c)
  BY <1>22
<1>23. CASE DispatchIPI(c)
  BY <1>23 DEF SameWaits, DispatchIPI
<1>24. CASE Wakeup(c)
  BY <1>24 DEF SameWaits, Wakeup
<1>25. CASE DequeueMsgHead(c)
  BY <1>25 DEF SameWaits, DequeueMsgHead
<1>26. CASE PopHead(c)
  <2>1. /\ view[c] = queue[c] /\ queue[c] # <<>> /\ pc[c] = "pop"
        /\ queue' = [queue EXCEPT ![c] = Tail(queue[c])]
        /\ cur' = [cur EXCEPT ![c] = Head(queue[c])]
        /\ pc' = [pc EXCEPT ![c] = "call"]
    BY <1>26 DEF PopHead, LockInv, LockAt
  <2>2. /\ Head(queue[c]) \in Range(queue[c])
        /\ \A u : u \in Range(queue'[c]) <=> u # Head(queue[c])
                                             /\ u \in Range(queue[c])
    BY <2>1, PopRange DEF StoreInv, NoDup
  <2>3. ASSUME NEW s \in Store, NEW d \in Core
        PROVE  Waits(s, d)' <=> Waits(s, d)
    <3>1. CASE d = c
      BY <2>1, <2>2, <3>1
    <3>2. CASE d # c
      BY <2>1, <3>2
    <3> QED
      BY <3>1, <3>2
  <2> QED
    BY <2>3 DEF SameWaits
<1>27. CASE EndDrain(c)
  BY <1>27 DEF SameWaits, EndDrain
<1>28. CASE InvokeHandler(c)
  BY <1>28
<1>29. CASE HandlerReturn(c)
  BY <1>29 DEF SameWaits, HandlerReturn
<1>30. CASE FreeMsg(c)
  BY <1>30 DEF SameWaits, FreeMsg
<1>31. CASE PushFree(c)
  BY <1>31 DEF SameWaits, PushFree
<1>32. CASE WakeByDevice(c)
  BY <1>32 DEF SameWaits, WakeByDevice
<1>33. CASE AppCall(c)
  BY <1>33 DEF SameWaits, AppCall, CallMsg
<1>34. QED
  BY <1>3, <1>4, <1>5, <1>6, <1>7, <1>8, <1>9, <1>10, <1>11, <1>12,
     <1>13, <1>14, <1>15, <1>16, <1>17, <1>18, <1>19, <1>20, <1>21, <1>22,
     <1>23, <1>24, <1>25, <1>26, <1>27, <1>28, <1>29, <1>30, <1>31, <1>32,
     <1>33
     DEF CoreStep, LoopStep, StartStep, SendStep, DrainStep

\* enqueueMsg adds the store it links.
LEMMA LinkWaits ==
  ASSUME IInv, StoreInv, NEW c \in Core, LinkFirst(c) \/ LinkMore(c),
         NEW s \in Store, NEW d \in Core
  PROVE  Waits(s, d)' <=> Waits(s, d) \/ (s = sstore[c] /\ d = dest[smsg[c]])
<1> USE DEF IInv, TypeOK, SendInv, StoreInv
<1> DEFINE e == dest[smsg[c]]
<1>1. /\ sstore[c] \in Store /\ e \in Core /\ view[c] = queue[e]
      /\ queue' = [queue EXCEPT ![e] = <<sstore[c]>> \o queue[e]]
      /\ cur' = cur /\ pc[c] \in {"event", "msg", "start"}
  BY DEF LinkFirst, LinkMore, LinkStore, Linked, LockInv, LockAt
<1>2. pc' = [pc EXCEPT ![c] = pc'[c]] /\ pc'[c] \in {"event", "msg", "started", "start"}
  BY <1>1 DEF LinkFirst, LinkMore, ReturnMsg
<1>3. sstore[c] \notin Range(queue[e])
  BY <1>1 DEF OneBin, In, Kind
<1>4. \A u : u \in Range(queue'[e]) <=> u = sstore[c] \/ u \in Range(queue[e])
  BY <1>1, <1>3, PushRange DEF NoDup
<1>5. (pc'[d] = "call" /\ cur'[d] = s) <=> (pc[d] = "call" /\ cur[d] = s)
  BY <1>1, <1>2
<1> HIDE DEF e
<1>6. CASE d = e
  BY <1>4, <1>5, <1>6 DEF Waits, e
<1>7. CASE d # e
  <2>1. queue'[d] = queue[d]
    BY <1>1, <1>7
  <2> QED
    BY <1>5, <1>7, <2>1 DEF Waits, e
<1> QED
  BY <1>6, <1>7

\* The invocation of the handler takes away the store that has been dequeued.
LEMMA InvokeWaits ==
  ASSUME IInv, StoreInv, NEW c \in Core, InvokeHandler(c),
         NEW s \in Store, NEW d \in Core
  PROVE  Waits(s, d)' <=> Waits(s, d) /\ s # cur[c]
<1> USE DEF IInv, TypeOK, StoreInv, CurInv
<1>1. /\ cur[c] \in Store /\ pc[c] = "call" /\ UNCHANGED <<queue, cur>>
      /\ pc' = [pc EXCEPT ![c] = "msg"]
  BY DEF InvokeHandler, At, Goto, repVars, callVars
<1>2. \A x \in Kind, y \in Core : In(cur[c], x, y) => x = "cur" /\ y = c
  <2>1. In(cur[c], "cur", c)
    BY DEF In
  <2> QED
    BY <1>1, <2>1 DEF OneBin, Kind
<1>3. cur[c] \notin Range(queue[d]) /\ (cur[d] = cur[c] => d = c)
  BY <1>2 DEF In, Kind
<1> QED
  BY <1>1, <1>3 DEF Waits

\* allocMsg gives out a store that does not wait and that no other call has
\* taken: filling it in changes no message in transit.
LEMMA TakeContent ==
  ASSUME IInv, StoreInv, NEW c \in Core, TakeStore(c)
  PROVE  /\ \A s \in Store, d \in Core : Waits(s, d) => content'[s] = content[s]
         /\ \A d \in Core : d # c /\ spc[d] \in {"enqueueMsg", "link"}
                              => content'[sstore[d]] = content[sstore[d]]
         /\ content'[sstore'[c]] = smsg[c]
<1> USE DEF IInv, TypeOK, StoreInv
<1>1. PICK s \in Store : /\ StoreFor(c, s)
                         /\ content' = [content EXCEPT ![s] = smsg[c]]
                         /\ sstore' = [sstore EXCEPT ![c] = s]
  BY DEF TakeStore
<1>2. \A x \in Kind, y \in Core : In(s, x, y) => x = "free"
  <2>1. CASE view[c] # <<>>
    <3>1. view[c] = freelist[c]
      BY DEF TakeStore, FLockInv, FLockAt
    <3>2. In(s, "free", c)
      BY <1>1, <2>1, <3>1, PopRange DEF StoreFor, NoDup, In
    <3> QED
      BY <3>2 DEF OneBin, Kind
  <2>2. CASE view[c] = <<>>
    BY <1>1, <2>2 DEF StoreFor, OneBin
  <2> QED
    BY <2>1, <2>2
<1>3. \A d \in Core : ~Waits(s, d) /\ sstore[d] # s
  BY <1>2 DEF Waits, In, Kind
<1>4. \A d \in Core : spc[d] \in {"enqueueMsg", "link"} => sstore[d] \in Store
  BY DEF SendInv
<1> QED
  BY <1>1, <1>3, <1>4

\* A message is carried by the store its call filled in, from the link to the
\* invocation of its handler, and by no other.
LEMMA MsgStep ==
  ASSUME IInv, StoreInv, MsgInv, [Next]_vars
  PROVE  MsgInv'
<1> USE DEF IInv, TypeOK, SendInv, MsgInv, WaitInv, DistinctInv, CallInv, FreshInv,
           At, Goto, SpinLock, Enable, AddRep, EnterMsg, ReturnMsg,
           StoreFor, QueueEmpty, Linked, AfterHandler, AfterFree, PC, LoopPC,
           StartPC, DrainPC, SendPC, Msg, vars, picVars, otherVars, repVars,
           storeVars, callVars, histVars
<1>1. CASE UNCHANGED vars
  BY <1>1 DEF Waits
<1>2. SUFFICES ASSUME NEW c \in Core,
                      CoreStep(c) \/ AppCall(c) \/ WakeByDevice(c)
               PROVE  MsgInv'
  BY <1>1 DEF Next
<1> USE <1>2
<1>3. CASE WakeBySignal(c)
  <2>1. SameWaits
    BY <1>3, WaitsStep DEF WakeBySignal, LinkFirst, LinkMore, LinkStore, InvokeHandler
  <2> QED
    BY <1>3, <2>1 DEF WakeBySignal, SameWaits
<1>4. CASE RunReset(c)
  <2>1. SameWaits
    BY <1>4, WaitsStep DEF RunReset, LinkFirst, LinkMore, LinkStore, InvokeHandler
  <2> QED
    BY <1>4, <2>1 DEF RunReset, SameWaits
<1>5. CASE NoReset(c)
  <2>1. SameWaits
    BY <1>5, WaitsStep DEF NoReset, LinkFirst, LinkMore, LinkStore, InvokeHandler
  <2> QED
    BY <1>5, <2>1 DEF NoReset, SameWaits
<1>6. CASE RunIPI(c)
  <2>1. SameWaits
    BY <1>6, WaitsStep DEF RunIPI, LinkFirst, LinkMore, LinkStore, InvokeHandler
  <2> QED
    BY <1>6, <2>1 DEF RunIPI, SameWaits
<1>7. CASE NoIPI(c)
  <2>1. SameWaits
    BY <1>7, WaitsStep DEF NoIPI, LinkFirst, LinkMore, LinkStore, InvokeHandler
  <2> QED
    BY <1>7, <2>1 DEF NoIPI, SameWaits
<1>8. CASE CheckVecs(c)
  <2>1. SameWaits
    BY <1>8, WaitsStep DEF CheckVecs, LinkFirst, LinkMore, LinkStore, InvokeHandler
  <2> QED
    BY <1>8, <2>1 DEF CheckVecs, SameWaits
<1>9. CASE EventReturn(c)
  <2>1. SameWaits
    BY <1>9, WaitsStep DEF EventReturn, LinkFirst, LinkMore, LinkStore, InvokeHandler
  <2> QED
    BY <1>9, <2>1 DEF EventReturn, SameWaits
<1>10. CASE AckIPI(c)
  <2>1. SameWaits
    BY <1>10, WaitsStep DEF AckIPI, LinkFirst, LinkMore, LinkStore, InvokeHandler
  <2> QED
    BY <1>10, <2>1 DEF AckIPI, SameWaits
<1>11. CASE EnableIPI(c)
  <2>1. SameWaits
    BY <1>11, WaitsStep DEF EnableIPI, LinkFirst, LinkMore, LinkStore, InvokeHandler
  <2> QED
    BY <1>11, <2>1 DEF EnableIPI, SameWaits
<1>12. CASE StartLoop(c)
  <2>1. SameWaits
    BY <1>12, WaitsStep DEF StartLoop, LinkFirst, LinkMore, LinkStore, InvokeHandler
  <2> QED
    BY <1>12, <2>1 DEF StartLoop, SameWaits
<1>13. CASE RegisterIPIHandler(c)
  <2>1. SameWaits
    BY <1>13, WaitsStep DEF RegisterIPIHandler, LinkFirst, LinkMore, LinkStore, InvokeHandler
  <2> QED
    BY <1>13, <2>1 DEF RegisterIPIHandler, SameWaits
<1>14. CASE AddRepOn(c)
  <2>1. SameWaits
    BY <1>14, WaitsStep DEF AddRepOn, LinkFirst, LinkMore, LinkStore, InvokeHandler
  <2> QED
    BY <1>14, <2>1 DEF AddRepOn, SameWaits
<1>15. CASE CallStartMH(c)
  <2>1. SameWaits
    BY <1>15, WaitsStep DEF CallStartMH, LinkFirst, LinkMore, LinkStore, InvokeHandler
  <2> QED
    BY <1>15, <2>1 DEF CallStartMH, SameWaits
<1>16. CASE FindTarget(c)
  <2>1. SameWaits
    BY <1>16, WaitsStep DEF FindTarget, LinkFirst, LinkMore, LinkStore, InvokeHandler
  <2> QED
    BY <1>16, <2>1 DEF FindTarget, SameWaits
<1>17. CASE NotFound(c)
  <2>1. SameWaits
    BY <1>17, WaitsStep DEF NotFound, LinkFirst, LinkMore, LinkStore, InvokeHandler
  <2> QED
    BY <1>17, <2>1 DEF NotFound, SameWaits
<1>18. CASE AllocMsg(c)
  <2>1. SameWaits
    BY <1>18, WaitsStep DEF AllocMsg, LinkFirst, LinkMore, LinkStore, InvokeHandler
  <2> QED
    BY <1>18, <2>1 DEF AllocMsg, SameWaits
<1>19. CASE TakeStore(c)
  <2>1. /\ UNCHANGED <<dest, delivered, smsg>> /\ spc[c] = "take"
        /\ spc' = [spc EXCEPT ![c] = "enqueueMsg"]
        /\ \A d \in Core : d # c => sstore'[d] = sstore[d]
    BY <1>19 DEF TakeStore
  <2>2. SameWaits
    BY <1>19, WaitsStep DEF TakeStore, LinkFirst, LinkMore, LinkStore, InvokeHandler
  <2>3. WaitInv' /\ DistinctInv' /\ FreshInv'
    BY <1>19, <2>1, <2>2, TakeContent, SMTT(60) DEF SameWaits
  <2>4. ASSUME NEW k \in Core
        PROVE  CallInv!(k)'
    <3>1. CASE k = c
      BY <1>19, <2>1, <2>2, <3>1, TakeContent DEF SameWaits
    <3>2. CASE k # c
      BY <1>19, <2>1, <2>2, <3>2, TakeContent DEF SameWaits
    <3> QED
      BY <3>1, <3>2
  <2> QED
    BY <2>3, <2>4
<1>20. CASE EnqueueMsg(c)
  <2>1. SameWaits
    BY <1>20, WaitsStep DEF EnqueueMsg, LinkFirst, LinkMore, LinkStore, InvokeHandler
  <2> QED
    BY <1>20, <2>1 DEF EnqueueMsg, SameWaits
<1>21. CASE LinkFirst(c)
  <2>1. /\ UNCHANGED <<dest, delivered, content>> /\ spc[c] = "link"
        /\ smsg[c] \in Msg /\ dest[smsg[c]] \in Core /\ sstore[c] \in Store
        /\ content[sstore[c]] = smsg[c] /\ delivered[smsg[c]] = None
        /\ spc'[c] \in {"dispatchIPI", "none"}
        /\ \A k \in Core : k # c => /\ spc'[k] = spc[k] /\ smsg'[k] = smsg[k]
                                    /\ sstore'[k] = sstore[k]
    BY <1>21 DEF LinkFirst, LinkStore
  <2>2. \A s \in Store, d \in Core :
          Waits(s, d)' <=> Waits(s, d) \/ (s = sstore[c] /\ d = dest[smsg[c]])
    BY <1>21, LinkWaits
  <2>3. \A s \in Store, d \in Core : Waits(s, d) => content[s] # smsg[c]
    BY <2>1
  <2>4. WaitInv' /\ FreshInv'
    BY <2>1, <2>2
  <2>7. ASSUME NEW s \in Store, NEW t \in Store, NEW d \in Core, NEW e \in Core,
               Waits(s, d)', Waits(t, e)', content[s] = content[t]
        PROVE  s = t
    <3>1. CASE s = sstore[c] \/ t = sstore[c]
      BY <2>1, <2>2, <2>3, <2>7, <3>1
    <3>2. CASE s # sstore[c] /\ t # sstore[c]
      BY <2>2, <2>7, <3>2
    <3> QED
      BY <3>1, <3>2
  <2>5. \A k \in Core : k # c /\ spc[k] # "none" => smsg[k] # smsg[c]
    BY <2>1
  <2>6. ASSUME NEW k \in Core
        PROVE  CallInv!(k)'
    <3>1. CASE k = c
      BY <2>1, <3>1
    <3>2. CASE k # c
      BY <2>1, <2>2, <2>5, <3>2, SMTT(60)
    <3> QED
      BY <3>1, <3>2
  <2> QED
    BY <2>1, <2>4, <2>6, <2>7
<1>22. CASE LinkMore(c)
  <2>1. /\ UNCHANGED <<dest, delivered, content>> /\ spc[c] = "link"
        /\ smsg[c] \in Msg /\ dest[smsg[c]] \in Core /\ sstore[c] \in Store
        /\ content[sstore[c]] = smsg[c] /\ delivered[smsg[c]] = None
        /\ spc'[c] \in {"dispatchIPI", "none"}
        /\ \A k \in Core : k # c => /\ spc'[k] = spc[k] /\ smsg'[k] = smsg[k]
                                    /\ sstore'[k] = sstore[k]
    BY <1>22 DEF LinkMore, LinkStore
  <2>2. \A s \in Store, d \in Core :
          Waits(s, d)' <=> Waits(s, d) \/ (s = sstore[c] /\ d = dest[smsg[c]])
    BY <1>22, LinkWaits
  <2>3. \A s \in Store, d \in Core : Waits(s, d) => content[s] # smsg[c]
    BY <2>1
  <2>4. WaitInv' /\ FreshInv'
    BY <2>1, <2>2
  <2>7. ASSUME NEW s \in Store, NEW t \in Store, NEW d \in Core, NEW e \in Core,
               Waits(s, d)', Waits(t, e)', content[s] = content[t]
        PROVE  s = t
    <3>1. CASE s = sstore[c] \/ t = sstore[c]
      BY <2>1, <2>2, <2>3, <2>7, <3>1
    <3>2. CASE s # sstore[c] /\ t # sstore[c]
      BY <2>2, <2>7, <3>2
    <3> QED
      BY <3>1, <3>2
  <2>5. \A k \in Core : k # c /\ spc[k] # "none" => smsg[k] # smsg[c]
    BY <2>1
  <2>6. ASSUME NEW k \in Core
        PROVE  CallInv!(k)'
    <3>1. CASE k = c
      BY <2>1, <3>1
    <3>2. CASE k # c
      BY <2>1, <2>2, <2>5, <3>2, SMTT(60)
    <3> QED
      BY <3>1, <3>2
  <2> QED
    BY <2>1, <2>4, <2>6, <2>7
<1>23. CASE DispatchIPI(c)
  <2>1. SameWaits
    BY <1>23, WaitsStep DEF DispatchIPI, LinkFirst, LinkMore, LinkStore, InvokeHandler
  <2> QED
    BY <1>23, <2>1 DEF DispatchIPI, SameWaits
<1>24. CASE Wakeup(c)
  <2>1. SameWaits
    BY <1>24, WaitsStep DEF Wakeup, LinkFirst, LinkMore, LinkStore, InvokeHandler
  <2> QED
    BY <1>24, <2>1 DEF Wakeup, SameWaits
<1>25. CASE DequeueMsgHead(c)
  <2>1. SameWaits
    BY <1>25, WaitsStep DEF DequeueMsgHead, LinkFirst, LinkMore, LinkStore, InvokeHandler
  <2> QED
    BY <1>25, <2>1 DEF DequeueMsgHead, SameWaits
<1>26. CASE PopHead(c)
  <2>1. SameWaits
    BY <1>26, WaitsStep DEF PopHead, LinkFirst, LinkMore, LinkStore, InvokeHandler
  <2> QED
    BY <1>26, <2>1 DEF PopHead, SameWaits
<1>27. CASE EndDrain(c)
  <2>1. SameWaits
    BY <1>27, WaitsStep DEF EndDrain, LinkFirst, LinkMore, LinkStore, InvokeHandler
  <2> QED
    BY <1>27, <2>1 DEF EndDrain, SameWaits
<1>28. CASE InvokeHandler(c)
  <2> DEFINE m == content[cur[c]]
  <2>1. /\ UNCHANGED <<dest, content, spc, smsg, sstore>>
        /\ delivered' = [delivered EXCEPT ![m] = c]
        /\ cur[c] \in Store /\ Waits(cur[c], c)
    BY <1>28 DEF InvokeHandler, Waits, CurInv
  <2>2. \A s \in Store, d \in Core : Waits(s, d)' <=> Waits(s, d) /\ s # cur[c]
    BY <1>28, InvokeWaits
  <2>3. m \in Msg /\ dest[m] = c
    BY <2>1
  <2>4. \A s \in Store, d \in Core : Waits(s, d)' => content[s] # m
    BY <2>1, <2>2
  <2>5. \A k \in Core : spc[k] \in {"findTarget", "allocMsg", "take", "enqueueMsg",
                                     "link"} => smsg[k] # m
    BY <2>1
  <2> HIDE DEF m
  <2>6. \A x \in Msg : x # m => delivered'[x] = delivered[x]
    BY <2>1
  <2>7. WaitInv' /\ DistinctInv' /\ FreshInv'
    BY <2>1, <2>2, <2>3, <2>4, <2>6
  <2>8. CallInv'
    BY <2>1, <2>2, <2>5, <2>6
  <2> QED
    BY <2>7, <2>8
<1>29. CASE HandlerReturn(c)
  <2>1. SameWaits
    BY <1>29, WaitsStep DEF HandlerReturn, LinkFirst, LinkMore, LinkStore, InvokeHandler
  <2> QED
    BY <1>29, <2>1 DEF HandlerReturn, SameWaits
<1>30. CASE FreeMsg(c)
  <2>1. SameWaits
    BY <1>30, WaitsStep DEF FreeMsg, LinkFirst, LinkMore, LinkStore, InvokeHandler
  <2> QED
    BY <1>30, <2>1 DEF FreeMsg, SameWaits
<1>31. CASE PushFree(c)
  <2>1. SameWaits
    BY <1>31, WaitsStep DEF PushFree, LinkFirst, LinkMore, LinkStore, InvokeHandler
  <2> QED
    BY <1>31, <2>1 DEF PushFree, SameWaits
<1>32. CASE WakeByDevice(c)
  <2>1. SameWaits
    BY <1>32, WaitsStep DEF WakeByDevice, LinkFirst, LinkMore, LinkStore, InvokeHandler
  <2> QED
    BY <1>32, <2>1 DEF WakeByDevice, SameWaits
<1>33. CASE AppCall(c)
  <2>1. SameWaits
    BY <1>33, WaitsStep DEF AppCall, CallMsg, LinkFirst, LinkMore, LinkStore, InvokeHandler
  <2> QED
    BY <1>33, <2>1 DEF AppCall, CallMsg, SameWaits
<1>34. QED
  BY <1>2, <1>3, <1>4, <1>5, <1>6, <1>7, <1>8, <1>9, <1>10, <1>11, <1>12,
     <1>13, <1>14, <1>15, <1>16, <1>17, <1>18, <1>19, <1>20, <1>21, <1>22,
     <1>23, <1>24, <1>25, <1>26, <1>27, <1>28, <1>29, <1>30, <1>31, <1>32,
     <1>33
     DEF CoreStep, LoopStep, StartStep, SendStep, DrainStep

\* No message has been sent when the cores start.
LEMMA MsgInit == Init => MsgInv
<1> SUFFICES ASSUME Init PROVE MsgInv
  OBVIOUS
<1>1. \A s \in Store, c \in Core : ~Waits(s, c)
  BY DEF Init, Waits, Range
<1> QED
  BY <1>1 DEF Init, MsgInv, WaitInv, DistinctInv, CallInv, FreshInv

\* MsgInv holds in every behaviour.
THEOREM MsgInductive == Safety => []MsgInv
  BY Inductive, StoreInductive, MsgInit, MsgStep, PTL DEF Safety

-----------------------------------------------------------------------------
(* MsgMgr implements MsgChannel.                                           *)

\* The pending messages of the channel are the contents of the waiting stores.
LEMMA PendingIs ==
  ASSUME TypeOK, CurInv, NEW m
  PROVE  m \in Pending <=> \E s \in Store, c \in Core : Waits(s, c) /\ m = content[s]
<1>1. ASSUME m \in Pending
      PROVE  \E s \in Store, c \in Core : Waits(s, c) /\ m = content[s]
  <2>1. PICK c \in Core : \/ \E i \in DOMAIN queue[c] : m = content[queue[c][i]]
                          \/ pc[c] = "call" /\ m = content[cur[c]]
    BY <1>1 DEF Pending
  <2>2. CASE pc[c] = "call" /\ m = content[cur[c]]
    BY <2>2 DEF CurInv, Waits
  <2>3. ASSUME NEW i \in DOMAIN queue[c], m = content[queue[c][i]]
        PROVE  \E s \in Store, d \in Core : Waits(s, d) /\ m = content[s]
    <3>1. queue[c][i] \in Store /\ Waits(queue[c][i], c)
      BY DEF TypeOK, Waits, Range
    <3> QED
      BY <2>3, <3>1
  <2> QED
    BY <2>1, <2>2, <2>3
<1>2. ASSUME NEW s \in Store, NEW c \in Core, Waits(s, c), m = content[s]
      PROVE  m \in Pending
  BY <1>2 DEF Pending, Waits, Range
<1> QED
  BY <1>1, <1>2

PendingIsContents ==
  \A m : m \in Pending <=> \E s \in Store, c \in Core : Waits(s, c) /\ m = content[s]

\* The same as a predicate of the state.
LEMMA PendingSet == TypeOK /\ CurInv => PendingIsContents
  BY PendingIs DEF PendingIsContents

\* The same after a step.
LEMMA PendingSetNext == TypeOK' /\ CurInv' => PendingIsContents'
  BY PendingSet, PTL

\* When the same stores wait, with the same contents, nothing is accepted and
\* nothing delivered.
LEMMA SamePending ==
  ASSUME TypeOK, CurInv, TypeOK', CurInv', SameWaits,
         \A s \in Store, d \in Core : Waits(s, d) => content'[s] = content[s]
  PROVE  Pending' = Pending
<1>1. \A m : m \in Pending' <=>
               \E s \in Store, c \in Core : Waits(s, c)' /\ m = content'[s]
  BY PendingSetNext DEF PendingIsContents
<1>2. \A m : m \in Pending <=>
               \E s \in Store, c \in Core : Waits(s, c) /\ m = content[s]
  BY PendingIs
<1>3. \A m : m \in Pending' <=> m \in Pending
  BY <1>1, <1>2 DEF SameWaits
<1> QED
  BY <1>3

\* enqueueMsg accepts the message of the call.
LEMMA LinkAccepts ==
  ASSUME IInv, StoreInv, MsgInv, IInv', NEW c \in Core, LinkFirst(c) \/ LinkMore(c)
  PROVE  smsg[c] \in Msg /\ Channel!Accept(smsg[c])
<1>1. /\ smsg[c] \in Msg /\ dest[smsg[c]] \in Core /\ sstore[c] \in Store
      /\ content[sstore[c]] = smsg[c] /\ delivered[smsg[c]] = None
      /\ \A s \in Store, d \in Core : Waits(s, d) => content[s] # smsg[c]
      /\ UNCHANGED <<dest, delivered, content>>
  BY DEF LinkFirst, LinkMore, LinkStore, IInv, SendInv, MsgInv, CallInv, storeVars,
         histVars
<1>2. PendingIsContents /\ PendingIsContents'
  BY PendingSet, PendingSetNext DEF IInv
<1>3. \A s \in Store, d \in Core :
        Waits(s, d)' <=> Waits(s, d) \/ (s = sstore[c] /\ d = dest[smsg[c]])
  BY LinkWaits
<1>4. \A m : m \in Pending' <=>
               \E s \in Store, d \in Core : Waits(s, d)' /\ m = content[s]
  BY <1>1, <1>2 DEF PendingIsContents
<1>5. \A m : m \in Pending <=>
               \E s \in Store, d \in Core : Waits(s, d) /\ m = content[s]
  BY <1>2 DEF PendingIsContents
<1>6. \A m : m \in Pending' <=> m \in Pending \/ m = smsg[c]
  <2> TAKE m
  <2>1. ASSUME m \in Pending' PROVE m \in Pending \/ m = smsg[c]
    BY <1>1, <1>3, <1>4, <1>5, <2>1
  <2>2. ASSUME m \in Pending PROVE m \in Pending'
    BY <1>3, <1>4, <1>5, <2>2
  <2>3. smsg[c] \in Pending'
    <3>1. \E s \in Store, d \in Core : Waits(s, d)' /\ s = sstore[c]
      BY <1>1, <1>3
    <3> QED
      BY <1>1, <1>4, <3>1
  <2> QED
    BY <2>1, <2>2, <2>3
<1>7. Pending' = Pending \cup {smsg[c]}
  BY <1>6
<1>8. smsg[c] \notin Pending
  BY <1>1, <1>5
<1> QED
  BY <1>1, <1>7, <1>8 DEF Channel!Accept

\* handleEvent delivers the message of the store it has dequeued, on the core the
\* message was sent to.
LEMMA InvokeDelivers ==
  ASSUME IInv, StoreInv, MsgInv, IInv', NEW c \in Core, InvokeHandler(c)
  PROVE  content[cur[c]] \in Msg /\ Channel!Deliver(content[cur[c]])
<1> DEFINE n == content[cur[c]]
<1>1. /\ UNCHANGED <<dest, content>> /\ delivered' = [delivered EXCEPT ![n] = c]
      /\ cur[c] \in Store /\ Waits(cur[c], c)
  BY DEF InvokeHandler, At, IInv, CurInv, Waits, storeVars
<1>2. n \in Msg /\ dest[n] = c
  BY <1>1 DEF MsgInv, WaitInv
<1>3. \A s \in Store, d \in Core : Waits(s, d)' <=> Waits(s, d) /\ s # cur[c]
  BY InvokeWaits
<1>4. \A s \in Store, d \in Core : Waits(s, d)' => content[s] # n
  BY <1>1, <1>3 DEF MsgInv, DistinctInv
<1>5. PendingIsContents /\ PendingIsContents'
  BY PendingSet, PendingSetNext DEF IInv
<1>6. \A m : m \in Pending' <=>
               \E s \in Store, d \in Core : Waits(s, d)' /\ m = content[s]
  BY <1>1, <1>5 DEF PendingIsContents
<1>7. \A m : m \in Pending <=>
               \E s \in Store, d \in Core : Waits(s, d) /\ m = content[s]
  BY <1>5 DEF PendingIsContents
<1>8. n \in Pending
  BY <1>1, <1>7
<1> HIDE DEF n
<1>9. \A m : m \in Pending' <=> m \in Pending /\ m # n
  <2> TAKE m
  <2>1. ASSUME m \in Pending' PROVE m \in Pending /\ m # n
    BY <1>3, <1>4, <1>6, <1>7, <2>1
  <2>2. ASSUME m \in Pending, m # n PROVE m \in Pending'
    <3>1. PICK s \in Store, d \in Core : Waits(s, d) /\ m = content[s]
      BY <1>7, <2>2
    <3>2. s # cur[c]
      BY <2>2, <3>1 DEF n
    <3> QED
      BY <1>3, <1>6, <3>1, <3>2
  <2> QED
    BY <2>1, <2>2
<1>10. Pending' = Pending \ {n}
  BY <1>9
<1> QED
  BY <1>1, <1>2, <1>8, <1>10 DEF Channel!Deliver, n

\* Which steps the channel can see, besides the two that change what waits.
LEMMA VisibleSteps ==
  ASSUME NEW c \in Core, CoreStep(c) \/ AppCall(c) \/ WakeByDevice(c)
  PROVE  \/ LinkFirst(c) \/ LinkMore(c) \/ InvokeHandler(c)
         \/ TakeStore(c) \/ NotFound(c)
         \/ \E d \in Core, m \in Msg : EnterMsg(c, d, m)
         \/ UNCHANGED <<dest, delivered, content>>
<1> USE DEF ReturnMsg, Goto, picVars, otherVars,
           repVars, storeVars, callVars, histVars
<1>3. CASE WakeBySignal(c)
  BY <1>3 DEF WakeBySignal
<1>4. CASE RunReset(c)
  BY <1>4 DEF RunReset
<1>5. CASE NoReset(c)
  BY <1>5 DEF NoReset
<1>6. CASE RunIPI(c)
  BY <1>6 DEF RunIPI
<1>7. CASE NoIPI(c)
  BY <1>7 DEF NoIPI
<1>8. CASE CheckVecs(c)
  BY <1>8 DEF CheckVecs
<1>9. CASE EventReturn(c)
  BY <1>9 DEF EventReturn
<1>10. CASE AckIPI(c)
  BY <1>10 DEF AckIPI
<1>11. CASE EnableIPI(c)
  BY <1>11 DEF EnableIPI
<1>12. CASE StartLoop(c)
  BY <1>12 DEF StartLoop
<1>13. CASE RegisterIPIHandler(c)
  BY <1>13 DEF RegisterIPIHandler
<1>14. CASE AddRepOn(c)
  BY <1>14 DEF AddRepOn
<1>15. CASE CallStartMH(c)
  BY <1>15 DEF CallStartMH, Msg
<1>16. CASE FindTarget(c)
  BY <1>16 DEF FindTarget
<1>17. CASE NotFound(c)
  BY <1>17
<1>18. CASE AllocMsg(c)
  BY <1>18 DEF AllocMsg
<1>19. CASE TakeStore(c)
  BY <1>19
<1>20. CASE EnqueueMsg(c)
  BY <1>20 DEF EnqueueMsg
<1>21. CASE LinkFirst(c)
  BY <1>21
<1>22. CASE LinkMore(c)
  BY <1>22
<1>23. CASE DispatchIPI(c)
  BY <1>23 DEF DispatchIPI
<1>24. CASE Wakeup(c)
  BY <1>24 DEF Wakeup
<1>25. CASE DequeueMsgHead(c)
  BY <1>25 DEF DequeueMsgHead
<1>26. CASE PopHead(c)
  BY <1>26 DEF PopHead
<1>27. CASE EndDrain(c)
  BY <1>27 DEF EndDrain
<1>28. CASE InvokeHandler(c)
  BY <1>28
<1>29. CASE HandlerReturn(c)
  BY <1>29 DEF HandlerReturn
<1>30. CASE FreeMsg(c)
  BY <1>30 DEF FreeMsg
<1>31. CASE PushFree(c)
  BY <1>31 DEF PushFree
<1>32. CASE WakeByDevice(c)
  BY <1>32 DEF WakeByDevice
<1>33. CASE AppCall(c)
  BY <1>33 DEF AppCall, CallMsg, Msg
<1>34. QED
  BY <1>3, <1>4, <1>5, <1>6, <1>7, <1>8, <1>9, <1>10, <1>11, <1>12,
     <1>13, <1>14, <1>15, <1>16, <1>17, <1>18, <1>19, <1>20, <1>21, <1>22,
     <1>23, <1>24, <1>25, <1>26, <1>27, <1>28, <1>29, <1>30, <1>31, <1>32,
     <1>33
     DEF CoreStep, LoopStep, StartStep, SendStep, DrainStep

\* Every step of the message manager is a step of the channel or leaves the
\* channel alone: entering msgN calls, EBBRC_NOTFOUND refuses, enqueueMsg accepts,
\* the invocation of a handler delivers.
LEMMA ChannelStep ==
  ASSUME IInv, StoreInv, MsgInv, IInv', [Next]_vars
  PROVE  [Channel!Next]_(Channel!vars)
<1>1. CASE UNCHANGED vars
  BY <1>1 DEF Pending, Channel!vars, vars, otherVars, repVars, storeVars,
              callVars, histVars
<1>2. SUFFICES ASSUME NEW c \in Core,
                      CoreStep(c) \/ AppCall(c) \/ WakeByDevice(c)
               PROVE  [Channel!Next]_(Channel!vars)
  BY <1>1 DEF Next
<1>3. CASE LinkFirst(c) \/ LinkMore(c)
  BY <1>3, LinkAccepts DEF Channel!Next
<1>4. CASE InvokeHandler(c)
  BY <1>4, InvokeDelivers DEF Channel!Next
<1>5. ASSUME SameWaits, TakeStore(c)
      PROVE  UNCHANGED Channel!vars
  <2>1. Pending' = Pending
    BY <1>5, TakeContent, SamePending DEF IInv
  <2> QED
    BY <1>5, <2>1 DEF TakeStore, histVars, Channel!vars
<1>6. ASSUME SameWaits, NotFound(c)
      PROVE  Channel!Next
  <2>1. UNCHANGED <<content, delivered>>
    BY <1>6 DEF NotFound, storeVars
  <2>2. Pending' = Pending
    BY <1>6, <2>1, SamePending DEF IInv
  <2>3. /\ smsg[c] \in Msg /\ dest[smsg[c]] # None /\ delivered[smsg[c]] = None
        /\ \A s \in Store, d \in Core : Waits(s, d) => content[s] # smsg[c]
    BY <1>6 DEF NotFound, IInv, SendInv, MsgInv, CallInv
  <2>4. smsg[c] \notin Pending
    BY <2>3, PendingSet DEF IInv, PendingIsContents
  <2>5. Channel!Refuse(smsg[c])
    BY <1>6, <2>1, <2>2, <2>3, <2>4 DEF NotFound, Channel!Refuse
  <2> QED
    BY <2>3, <2>5 DEF Channel!Next
<1>7. ASSUME SameWaits, NEW d \in Core, NEW m \in Msg, EnterMsg(c, d, m)
      PROVE  Channel!Next
  <2>1. UNCHANGED <<content, delivered>>
    BY <1>7 DEF EnterMsg, storeVars
  <2>2. Pending' = Pending
    BY <1>7, <2>1, SamePending DEF IInv
  <2>3. Channel!Call(m, d)
    BY <1>7, <2>1, <2>2 DEF EnterMsg, Channel!Call
  <2> QED
    BY <2>3 DEF Channel!Next
<1>8. ASSUME SameWaits, UNCHANGED <<dest, delivered, content>>
      PROVE  UNCHANGED Channel!vars
  <2>1. Pending' = Pending
    BY <1>8, SamePending DEF IInv
  <2> QED
    BY <1>8, <2>1 DEF Channel!vars
<1>9. SameWaits \/ LinkFirst(c) \/ LinkMore(c) \/ InvokeHandler(c)
  BY <1>2, WaitsStep
<1> QED
  BY <1>2, <1>3, <1>4, <1>5, <1>6, <1>7, <1>8, <1>9, VisibleSteps

\* The message manager implements the channel its callers see: every message
\* enqueueMsg accepts is handed to its handler exactly once, on the core it was
\* sent to, for any number of cores, messages and stores.
THEOREM RefinesChannel == Safety => ImplementsChannel
<1>1. Init => Channel!Init
  BY DEF Init, Channel!Init, Pending
<1>2. IInv /\ StoreInv /\ MsgInv /\ IInv' /\ [Next]_vars
        => [Channel!Next]_(Channel!vars)
  BY ChannelStep
<1>3. QED
  BY Inductive, StoreInductive, MsgInductive, <1>1, <1>2, PTL
     DEF Safety, ImplementsChannel, Channel!Safety
=============================================================================
