------------------------- MODULE EBBClientsProofs -------------------------
(* EBB ids are given out once, and an event location has one representative *)
(* of an instance, for any number of cores, ids, instances and binds.       *)
EXTENDS EBBClients, TLAPS

\* locked_AddRepOn puts a new node in front of the list of a root.
LEMMA Prepend ==
  ASSUME NEW S, NEW s \in S, NEW q \in Seq(S)
  PROVE  /\ <<s>> \o q \in Seq(S)
         /\ DOMAIN (<<s>> \o q) = 1..(Len(q) + 1)
         /\ (<<s>> \o q)[1] = s
         /\ \A n \in 1..Len(q) : (<<s>> \o q)[n + 1] = q[n]
         /\ \A n \in 1..(Len(q) + 1) : n # 1 => (<<s>> \o q)[n] = q[n - 1]
  OBVIOUS

\* The new node, and every node that was there, is in the list.
LEMMA PrependKeeps ==
  ASSUME NEW S, NEW s \in S, NEW q \in Seq(S)
  PROVE  /\ \E n \in DOMAIN (<<s>> \o q) : (<<s>> \o q)[n] = s
         /\ \A n \in DOMAIN q : /\ n + 1 \in DOMAIN (<<s>> \o q)
                               /\ (<<s>> \o q)[n + 1] = q[n]
<1>1. Len(q) \in Nat /\ DOMAIN q = 1..Len(q)
  OBVIOUS
<1>2. 1 \in DOMAIN (<<s>> \o q) /\ (<<s>> \o q)[1] = s
  BY <1>1, Prepend
<1>3. ASSUME NEW n \in DOMAIN q
      PROVE  n + 1 \in DOMAIN (<<s>> \o q) /\ (<<s>> \o q)[n + 1] = q[n]
  BY <1>1, Prepend
<1>4. QED
  BY <1>2, <1>3

\* lrt_pic_getnextlpic stays within the cores.
LEMMA NextPicInRange ==
  ASSUME NEW k \in Nat, NEW n \in Nat \ {0}
  PROVE  (k + 1) % n \in 0..(n - 1)
  OBVIOUS

\* Counting what one core holds of one id leaves the other counts alone.
LEMMA Counted ==
  ASSUME NEW h \in [Id -> [Core -> Nat]], NEW d \in Id, NEW c \in Core, NEW v \in Nat
  PROVE  LET g == [h EXCEPT ![d][c] = v]
         IN  /\ g \in [Id -> [Core -> Nat]] /\ g[d][c] = v
             /\ \A e \in Id, k \in Core : e # d \/ k # c => g[e][k] = h[e][k]
<1> DEFINE r == [h[d] EXCEPT ![c] = v]
           g == [h EXCEPT ![d] = r]
<1>1. r \in [Core -> Nat] /\ r[c] = v /\ \A k \in Core : k # c => r[k] = h[d][k]
  OBVIOUS
<1> HIDE DEF r
<1>2. g \in [Id -> [Core -> Nat]] /\ g[d] = r /\ \A e \in Id : e # d => g[e] = h[e]
  BY <1>1
<1>3. g[d][c] = v /\ \A e \in Id, k \in Core : e # d \/ k # c => g[e][k] = h[e][k]
  BY <1>1, <1>2
<1> QED
  BY <1>2, <1>3 DEF r

\* What the fields of the system hold, for the whole composition.
GlobalType ==
  /\ numlpics \in 1..NumCores
  /\ allocated \subseteq Id /\ published \subseteq Id
  /\ held \in [Id -> [Core -> Nat]]
  /\ mf \in [Id -> {"nullmissmf", "CObjEBBMissFunc", None}]
  /\ arg \in [Id -> Inst \cup {None}]
  /\ corebv \in [Id -> SUBSET Core]
RootType ==
  /\ lt \in [Core -> [Id -> Reps \cup {None}]]
  /\ replist \in [Inst -> Seq(Core)]
  /\ rootlock \in [Inst -> Core \cup {None}]
  /\ view \in [Core -> Seq(Core)]
ControlType ==
  /\ pc \in [Core -> PC] /\ cid \in [Core -> Id \cup {None}]
  /\ inst \in [Core -> Inst \cup {None}]
  /\ rarg \in [Core -> Inst \cup {"unread", None}]
CallType ==
  /\ fn \in [Core -> Reps \cup {None}] /\ obj \in [Core -> Reps \cup {None}]
  /\ rmf \in [Core -> {"unread", "nullmissmf", "CObjEBBMissFunc", None}]
  /\ bv \in [Core -> SUBSET Core]
  /\ picId \in [Core -> Core] /\ result \in [Core -> Result]

ClientTypeOK == GlobalType /\ RootType /\ ControlType /\ CallType

\* An id that a core holds is in its partition, marked, and was given out once more
\* than it was freed; what TransEBBIdAlloc has found is still unmarked when it marks it,
\* since no other core works on the partition.
HeldAt(d, c) == held[d][c] > 0 => Owner[d] = c /\ d \in allocated /\ held[d][c] = 1
FoundAt(c) == pc[c] = "alloc" => Owner[cid[c]] = c /\ cid[c] \notin allocated

IdInv == (\A d \in Id : \A c \in Core : HeldAt(d, c)) /\ \A c \in Core : FoundAt(c)

\* The list of root i has a node for event location c.
Listed(i, c) == \E n \in DOMAIN replist[i] : replist[i][n] = c

\* What a core holds on its way through an alloc, a bind and a miss.
LocalInv ==
  \A c \in Core :
    /\ pc[c] # "idle" => cid[c] \in Id
    /\ pc[c] \in {"bind", "invalidate"} => inst[c] \in Inst
    /\ pc[c] = "invoke" => rarg[c] \in Inst \cup {None}
    /\ pc[c] \in {"lockReps", "addRep", "cache", "mark"} => rarg[c] \in Inst
    /\ pc[c] \in {"lockReps", "addRep"} => Kind[rarg[c]] = "multi"
    /\ pc[c] \in {"cache", "mark"} => obj[c] = RepOf(rarg[c], c)

\* Between lockReps and unlockReps the list is the one that was read, and whoever
\* leaves handleMiss finds its event location in the list.
MissInv ==
  \A c \in Core :
    /\ pc[c] = "addRep" => rootlock[rarg[c]] = c /\ view[c] = replist[rarg[c]]
    /\ pc[c] \in {"cache", "mark"} /\ Kind[rarg[c]] = "multi"
         => Listed(rarg[c], c)

IInv == ClientTypeOK /\ IdInv /\ LocalInv /\ MissInv /\ OneRepPerEL

-----------------------------------------------------------------------------
USE EBBTransAssumption, ClientsAssumption

\* A representative belongs to one instance; a shared root has one for all event
\* locations.
LEMMA RepFacts ==
  ASSUME NEW i \in Inst, NEW c \in Core
  PROVE  /\ RepOf(i, c) \in Reps /\ RepOf(i, None) \in Reps
         /\ Kind[i] # "multi" => RepOf(i, None) = RepOf(i, c)
         /\ \A j \in Inst : RepOf(j, c) = RepOf(i, c) => j = i
  BY DEF RepOf, Reps

\* How a call can end and where a miss goes on (COBJ_EBBCALL, CObjEBBMissFunc).
LEMMA CallFacts ==
  ASSUME NEW c \in Core
  PROVE  /\ SelfResult(c) \in Result /\ MissResult(c) \in Result
         /\ "none" \in Result /\ "ran" \in Result
         /\ \A i \in Inst : \/ AfterMissFunc(i) = "lockReps" /\ Kind[i] = "multi"
                            \/ AfterMissFunc(i) = "cache" /\ Kind[i] # "multi"
  BY DEF SelfResult, MissResult, AfterMissFunc, Result

\* trans_init leaves no id given out and no representative cached.
THEOREM InitInv == ClientInit => IInv
<1> SUFFICES ASSUME ClientInit PROVE IInv
  OBVIOUS
<1>1. ClientTypeOK
  BY DEF ClientInit, Init, ClientTypeOK, GlobalType, RootType, ControlType, CallType,
         PC, Result, Core
<1>2. IdInv /\ LocalInv /\ MissInv
  BY DEF ClientInit, Init, IdInv, HeldAt, FoundAt, LocalInv, MissInv
<1>3. OneRepPerEL
  BY RepFacts DEF ClientInit, Init, OneRepPerEL
<1>4. QED
  BY <1>1, <1>2, <1>3 DEF IInv

\* Every step keeps the types of the global table.
LEMMA GlobalStep ==
  ASSUME ClientTypeOK, LocalInv, [ClientNext]_allVars
  PROVE  GlobalType'
<1>t. GlobalType /\ ControlType /\ CallType /\ LocalInv
  BY DEF ClientTypeOK
<1>1. ASSUME NEW c \in Core,
             \/ ClientAlloc(c) \/ ClientCall(c)
             \/ /\ \/ DerefSelf(c) \/ ReadMf(c) \/ ReadArg(c) \/ InvokeMiss(c)
                   \/ HandleMiss(c) \/ AddRep(c) \/ CacheObj(c)
                /\ UNCHANGED clientVars
      PROVE  GlobalType'
  <2>1. UNCHANGED <<allocated, mf, arg, corebv, numlpics, published, held>>
    BY <1>1 DEF ClientAlloc, AllocId, ClientCall, CallId, DerefSelf, ReadMf, ReadArg,
         InvokeMiss, HandleMiss, AddRep, CacheObj, gVars, rootVars, clientVars
  <2>2. QED
    BY <1>t, <2>1 DEF GlobalType
<1>2. ASSUME NEW c \in Core, ClientTake(c) PROVE GlobalType'
  <2> PICK d \in Id : d = cid[c]
    BY <1>2, <1>t DEF ClientTake, TakeId, LocalInv
  <2>1. /\ allocated' = allocated \cup {d}
        /\ held' = [held EXCEPT ![d][c] = held[d][c] + 1]
        /\ UNCHANGED <<mf, arg, corebv, numlpics, published>>
    BY <1>2 DEF ClientTake, TakeId, rootVars
  <2>2. held' \in [Id -> [Core -> Nat]]
    <3>1. held \in [Id -> [Core -> Nat]]
      BY <1>t DEF GlobalType
    <3>2. held[d][c] + 1 \in Nat
      BY <3>1
    <3> QED
      BY <2>1, <3>1, <3>2, Counted
  <2> QED
    BY <1>t, <2>1, <2>2 DEF GlobalType
<1>3. ASSUME NEW c \in Core, ClientFree(c) PROVE GlobalType'
  <2>1. PICK d \in Id : /\ held[d][c] > 0 /\ allocated' = allocated \cup {d}
                        /\ held' = [held EXCEPT ![d][c] = @ - 1]
                        /\ UNCHANGED <<mf, arg, corebv, numlpics, published>>
    BY <1>3 DEF ClientFree, FreeId, rootVars
  <2>2. held' \in [Id -> [Core -> Nat]]
    <3>1. held[d][c] - 1 \in Nat /\ held \in [Id -> [Core -> Nat]]
      BY <1>t, <2>1 DEF GlobalType
    <3> QED
      BY <2>1, <3>1, Counted
  <2> QED
    BY <1>t, <2>1, <2>2 DEF GlobalType
<1>4. ASSUME NEW c \in Core, ClientBind(c) PROVE GlobalType'
  BY <1>4, <1>t DEF ClientBind, BindId, Goto, gVars, rootVars, callVars,
       clientVars, GlobalType, ControlType, LocalInv, MissFunc
<1>5. ASSUME NEW c \in Core, BindArg(c), ClientBindStep(c) PROVE GlobalType'
  BY <1>5, <1>t DEF BindArg, ClientBindStep, Goto, gVars, rootVars, callVars,
       clientVars, GlobalType, ControlType, LocalInv, MissArg
<1>6. ASSUME NEW c \in Core, Invalidate(c), ClientBindStep(c) PROVE GlobalType'
  BY <1>6, <1>t DEF Invalidate, ClientBindStep, Goto, gVars, rootVars,
       callVars, clientVars, GlobalType, ControlType, LocalInv
<1>7. ASSUME NEW c \in Core, MarkCoreUsed(c), UNCHANGED clientVars PROVE
     GlobalType'
  BY <1>7, <1>t DEF MarkCoreUsed, Return, Goto, gVars, rootVars, callVars,
       clientVars, GlobalType, ControlType, CallType, LocalInv
<1>8. CASE UNCHANGED allVars
  BY <1>8, <1>t DEF allVars, vars, gVars, rootVars, clientVars, GlobalType
<1>9. QED
  BY <1>1, <1>2, <1>3, <1>4, <1>5, <1>6, <1>7, <1>8
     DEF ClientNext, ClientBindStep, ClientCallStep, BindStep, CallStep

\* Every step keeps the types of the local tables and of the roots' lists.
LEMMA RootStep ==
  ASSUME ClientTypeOK, LocalInv, [ClientNext]_allVars
  PROVE  RootType'
<1>t. RootType /\ ControlType /\ CallType /\ LocalInv
  BY DEF ClientTypeOK
<1>1. ASSUME NEW c \in Core,
             \/ ClientAlloc(c) \/ ClientTake(c) \/ ClientFree(c) \/ ClientBind(c)
             \/ ClientCall(c) \/ BindArg(c) \/ DerefSelf(c) \/ ReadMf(c)
             \/ ReadArg(c) \/ InvokeMiss(c) \/ MarkCoreUsed(c)
      PROVE  RootType'
  <2>1. UNCHANGED <<lt, replist, rootlock, view>>
    BY <1>1 DEF ClientAlloc, AllocId, ClientTake, TakeId, ClientFree, FreeId, ClientBind,
         BindId, ClientCall, CallId, BindArg, DerefSelf, ReadMf, ReadArg, InvokeMiss,
         MarkCoreUsed, rootVars, callVars
  <2>2. QED
    BY <1>t, <2>1 DEF RootType
<1>2. ASSUME NEW c \in Core, Invalidate(c), ClientBindStep(c) PROVE RootType'
  BY <1>2, <1>t DEF Invalidate, ClientBindStep, Goto, gVars, rootVars,
       callVars, clientVars, RootType, LocalInv, CallType
<1>3. ASSUME NEW c \in Core, HandleMiss(c), UNCHANGED clientVars PROVE
     RootType'
  BY <1>3, <1>t DEF HandleMiss, LockReps, Goto, gVars, rootVars, callVars,
       clientVars, RootType, LocalInv
<1>4. ASSUME NEW c \in Core, AddRep(c), UNCHANGED clientVars PROVE RootType'
  <2>1. CASE FindRepOn(c) # {}
    BY <1>4, <2>1, <1>t, Prepend DEF AddRep, Goto, gVars, rootVars, callVars,
         clientVars, RootType, LocalInv
  <2>2. CASE FindRepOn(c) = {}
    <3>1. rarg[c] \in Inst /\ view[c] \in Seq(Core)
      BY <1>4, <1>t DEF AddRep, LocalInv, RootType
    <3>2. <<c>> \o view[c] \in Seq(Core)
      BY <3>1, Prepend
    <3>3. /\ replist' = [replist EXCEPT ![rarg[c]] = <<c>> \o view[c]]
          /\ rootlock' = [rootlock EXCEPT ![rarg[c]] = None]
          /\ view' = [view EXCEPT ![c] = <<>>] /\ lt' = lt
      BY <1>4, <2>2 DEF AddRep
    <3>4. replist' \in [Inst -> Seq(Core)]
      <4> DEFINE new == <<c>> \o view[c]
      <4>1. new \in Seq(Core) /\ replist' = [replist EXCEPT ![rarg[c]] = new]
        BY <3>2, <3>3
      <4> HIDE DEF new
      <4>2. QED
        BY <1>t, <3>1, <4>1 DEF RootType
    <3>5. QED
      BY <1>t, <3>3, <3>4 DEF RootType
  <2>q. QED
    BY <2>1, <2>2
<1>5. ASSUME NEW c \in Core, CacheObj(c), UNCHANGED clientVars PROVE RootType'
  BY <1>5, <1>t, RepFacts DEF CacheObj, Goto, gVars, rootVars, callVars,
       clientVars, RootType, LocalInv, CallType
<1>6. CASE UNCHANGED allVars
  BY <1>6, <1>t DEF allVars, vars, rootVars, callVars, RootType
<1>7. QED
  BY <1>1, <1>2, <1>3, <1>4, <1>5, <1>6
     DEF ClientNext, ClientBindStep, ClientCallStep, BindStep, CallStep

\* Every step keeps the types of the control variables.
LEMMA ControlStep ==
  ASSUME ClientTypeOK, LocalInv, [ClientNext]_allVars
  PROVE  ControlType'
<1>t. GlobalType /\ ControlType /\ LocalInv
  BY DEF ClientTypeOK
<1>u. CASE UNCHANGED allVars
  BY <1>u, <1>t DEF allVars, vars, gVars, rootVars, callVars, clientVars, ControlType
<1>1. ASSUME NEW c \in Core, ClientAlloc(c) PROVE ControlType'
  <2>1. CASE FreeIds(c) = {}
    BY <1>1, <2>1, <1>t DEF ClientAlloc, AllocId, Goto, gVars, rootVars,
         callVars, clientVars, ControlType, GlobalType, LocalInv, PC,
         FreeIds
  <2>2. CASE FreeIds(c) # {}
    BY <1>1, <2>2, <1>t DEF ClientAlloc, AllocId, Goto, gVars, rootVars,
         callVars, clientVars, ControlType, GlobalType, LocalInv, PC,
         FreeIds
  <2>q. QED
    BY <2>1, <2>2
<1>2. ASSUME NEW c \in Core, ClientTake(c) PROVE ControlType'
  BY <1>2, <1>t DEF ClientTake, TakeId, Goto, gVars, rootVars, callVars,
       clientVars, ControlType, GlobalType, LocalInv, PC
<1>3. ASSUME NEW c \in Core, ClientFree(c) PROVE ControlType'
  BY <1>3, <1>t DEF ClientFree, FreeId, Goto, gVars, rootVars, callVars,
       clientVars, ControlType, GlobalType, LocalInv, PC
<1>4. ASSUME NEW c \in Core, ClientBind(c) PROVE ControlType'
  BY <1>4, <1>t DEF ClientBind, BindId, Goto, gVars, rootVars, callVars,
       clientVars, ControlType, GlobalType, LocalInv, PC
<1>5. ASSUME NEW c \in Core, ClientCall(c) PROVE ControlType'
  BY <1>5, <1>t DEF ClientCall, CallId, Goto, gVars, rootVars, callVars,
       clientVars, ControlType, GlobalType, LocalInv, PC
<1>6. ASSUME NEW c \in Core, BindArg(c), ClientBindStep(c) PROVE ControlType'
  BY <1>6, <1>t DEF BindArg, ClientBindStep, Goto, gVars, rootVars, callVars,
       clientVars, ControlType, GlobalType, LocalInv, PC
<1>7. ASSUME NEW c \in Core, Invalidate(c), ClientBindStep(c) PROVE
     ControlType'
  BY <1>7, <1>t DEF Invalidate, ClientBindStep, Goto, gVars, rootVars,
       callVars, clientVars, ControlType, GlobalType, LocalInv, PC
<1>8. ASSUME NEW c \in Core, DerefSelf(c), UNCHANGED clientVars PROVE
     ControlType'
  <2>1. CASE fn[c] # None
    BY <1>8, <2>1, <1>t DEF DerefSelf, Return, Goto, gVars, rootVars, callVars,
         clientVars, ControlType, GlobalType, LocalInv, PC
  <2>2. CASE fn[c] = None
    BY <1>8, <2>2, <1>t DEF DerefSelf, Return, Goto, gVars, rootVars, callVars,
         clientVars, ControlType, GlobalType, LocalInv, PC
  <2>q. QED
    BY <2>1, <2>2
<1>9. ASSUME NEW c \in Core, ReadMf(c), UNCHANGED clientVars PROVE ControlType'
  BY <1>9, <1>t DEF ReadMf, Goto, gVars, rootVars, callVars, clientVars,
       ControlType, GlobalType, LocalInv, PC
<1>10. ASSUME NEW c \in Core, ReadArg(c), UNCHANGED clientVars PROVE
     ControlType'
  BY <1>10, <1>t DEF ReadArg, Goto, gVars, rootVars, callVars, clientVars,
       ControlType, GlobalType, LocalInv, PC
<1>11. ASSUME NEW c \in Core, InvokeMiss(c), UNCHANGED clientVars PROVE
     ControlType'
  <2>1. CASE rmf[c] = "nullmissmf" \/ rarg[c] = None
    BY <1>11, <2>1, <1>t, CallFacts DEF InvokeMiss, Return, Goto, gVars,
         rootVars, callVars, clientVars, ControlType, GlobalType, LocalInv,
         PC
  <2>2. CASE ~(rmf[c] = "nullmissmf" \/ rarg[c] = None)
    BY <1>11, <2>2, <1>t, CallFacts DEF InvokeMiss, Return, Goto, gVars,
         rootVars, callVars, clientVars, ControlType, GlobalType, LocalInv,
         PC
  <2>q. QED
    BY <2>1, <2>2
<1>12. ASSUME NEW c \in Core, HandleMiss(c), UNCHANGED clientVars PROVE
     ControlType'
  BY <1>12, <1>t DEF HandleMiss, LockReps, Goto, gVars, rootVars, callVars,
       clientVars, ControlType, GlobalType, LocalInv, PC
<1>13. ASSUME NEW c \in Core, AddRep(c), UNCHANGED clientVars PROVE
     ControlType'
  <2>1. CASE FindRepOn(c) # {}
    BY <1>13, <2>1, <1>t DEF AddRep, Goto, gVars, rootVars, callVars,
         clientVars, ControlType, GlobalType, LocalInv, PC
  <2>2. CASE FindRepOn(c) = {}
    BY <1>13, <2>2, <1>t DEF AddRep, Goto, gVars, rootVars, callVars,
         clientVars, ControlType, GlobalType, LocalInv, PC
  <2>q. QED
    BY <2>1, <2>2
<1>14. ASSUME NEW c \in Core, CacheObj(c), UNCHANGED clientVars PROVE
     ControlType'
  BY <1>14, <1>t DEF CacheObj, Goto, gVars, rootVars, callVars, clientVars,
       ControlType, GlobalType, LocalInv, PC
<1>15. ASSUME NEW c \in Core, MarkCoreUsed(c), UNCHANGED clientVars PROVE
     ControlType'
  BY <1>15, <1>t DEF MarkCoreUsed, Return, Goto, gVars, rootVars, callVars,
       clientVars, ControlType, GlobalType, LocalInv, PC
<1>q. QED
  BY <1>u, <1>1, <1>2, <1>3, <1>4, <1>5, <1>6, <1>7, <1>8, <1>9, <1>10, <1>11,
       <1>12, <1>13, <1>14, <1>15 DEF ClientNext, ClientBindStep,
       ClientCallStep, BindStep, CallStep

\* Every step keeps the types of what calls and binds have read; in particular
\* the invalidation loop stays on existing cores.
LEMMA CallStep1 ==
  ASSUME ClientTypeOK, LocalInv, [ClientNext]_allVars
  PROVE  CallType'
<1>t. GlobalType /\ RootType /\ ControlType /\ CallType /\ LocalInv
  BY DEF ClientTypeOK
<1>u. CASE UNCHANGED allVars
  BY <1>u, <1>t DEF allVars, vars, gVars, rootVars, callVars, clientVars, CallType
<1>1. ASSUME NEW c \in Core, ClientAlloc(c) PROVE CallType'
  <2>1. CASE FreeIds(c) = {}
    BY <1>1, <2>1, <1>t, CallFacts DEF ClientAlloc, AllocId, Goto, gVars, rootVars,
         callVars, clientVars, CallType, LocalInv
  <2>2. CASE FreeIds(c) # {}
    BY <1>1, <2>2, <1>t, CallFacts DEF ClientAlloc, AllocId, Goto, gVars, rootVars,
         callVars, clientVars, CallType, LocalInv
  <2>q. QED
    BY <2>1, <2>2
<1>2. ASSUME NEW c \in Core, ClientTake(c) PROVE CallType'
  BY <1>2, <1>t DEF ClientTake, TakeId, Goto, gVars, rootVars, callVars,
       clientVars, CallType, LocalInv
<1>3. ASSUME NEW c \in Core, ClientFree(c) PROVE CallType'
  BY <1>3, <1>t DEF ClientFree, FreeId, Goto, gVars, rootVars, callVars,
       clientVars, CallType, LocalInv
<1>4. ASSUME NEW c \in Core, ClientBind(c) PROVE CallType'
  BY <1>4, <1>t, CallFacts DEF ClientBind, BindId, Goto, gVars, rootVars, callVars,
       clientVars, CallType, LocalInv
<1>5. ASSUME NEW c \in Core, ClientCall(c) PROVE CallType'
  BY <1>5, <1>t, CallFacts DEF ClientCall, CallId, Goto, gVars, rootVars, callVars,
       clientVars, CallType, LocalInv, RootType, GlobalType
<1>6. ASSUME NEW c \in Core, BindArg(c), ClientBindStep(c) PROVE CallType'
  BY <1>6, <1>t DEF BindArg, ClientBindStep, Goto, gVars, rootVars, callVars,
       clientVars, CallType, LocalInv
<1>7. ASSUME NEW c \in Core, Invalidate(c), ClientBindStep(c) PROVE CallType'
  <2>1. picId[c] \in Nat /\ numlpics \in Nat \ {0} /\ numlpics <= NumCores
    BY <1>t DEF GlobalType, CallType, Core
  <2>2. NextPic(picId[c]) \in Core
    BY <2>1, NextPicInRange DEF NextPic, Core
  <2>3. QED
    BY <1>7, <1>t, <2>2 DEF Invalidate, callVars, CallType
<1>8. ASSUME NEW c \in Core, DerefSelf(c), UNCHANGED clientVars PROVE CallType'
  <2>1. CASE fn[c] # None
    BY <1>8, <2>1, <1>t, CallFacts DEF DerefSelf, Return, CallType
  <2>2. CASE fn[c] = None
    BY <1>8, <2>2, <1>t DEF DerefSelf, CallType
  <2>q. QED
    BY <2>1, <2>2
<1>9. ASSUME NEW c \in Core, ReadMf(c), UNCHANGED clientVars PROVE CallType'
  <2>1. mf[cid[c]] \in {"nullmissmf", "CObjEBBMissFunc", None}
    BY <1>9, <1>t DEF ReadMf, LocalInv, GlobalType
  <2> QED
    BY <1>9, <2>1, <1>t DEF ReadMf, CallType
<1>10. ASSUME NEW c \in Core, ReadArg(c), UNCHANGED clientVars PROVE CallType'
  BY <1>10, <1>t DEF ReadArg, Goto, gVars, rootVars, callVars, clientVars,
       CallType, LocalInv
<1>11. ASSUME NEW c \in Core, InvokeMiss(c), UNCHANGED clientVars PROVE
     CallType'
  <2>1. CASE rmf[c] = "nullmissmf" \/ rarg[c] = None
    <3>1. UNCHANGED obj /\ result' = [result EXCEPT ![c] = MissResult(c)]
      BY <1>11, <2>1 DEF InvokeMiss, Return
    <3>2. QED
      BY <1>11, <1>t, <3>1, CallFacts DEF InvokeMiss, CallType
  <2>2. CASE ~(rmf[c] = "nullmissmf" \/ rarg[c] = None)
    BY <1>11, <2>2, <1>t, RepFacts, CallFacts DEF InvokeMiss, Return, Goto,
         gVars, rootVars, callVars, clientVars, CallType, LocalInv
  <2>q. QED
    BY <2>1, <2>2
<1>12. ASSUME NEW c \in Core, HandleMiss(c), UNCHANGED clientVars PROVE
     CallType'
  BY <1>12, <1>t DEF HandleMiss, LockReps, Goto, gVars, rootVars, callVars,
       clientVars, CallType, LocalInv
<1>13. ASSUME NEW c \in Core, AddRep(c), UNCHANGED clientVars PROVE CallType'
  <2>1. CASE FindRepOn(c) # {}
    <3>1. obj' = [obj EXCEPT ![c] = RepOf(rarg[c], c)] /\ rarg[c] \in Inst
      BY <1>13, <2>1, <1>t DEF AddRep, FindRepOn, LocalInv
    <3>2. RepOf(rarg[c], c) \in Reps
      BY <3>1, RepFacts
    <3>3. QED
      BY <1>13, <1>t, <3>1, <3>2 DEF AddRep, CallType
  <2>2. CASE FindRepOn(c) = {}
    BY <1>13, <2>2, <1>t, RepFacts DEF AddRep, Goto, gVars, rootVars, callVars,
         clientVars, CallType, LocalInv, FindRepOn
  <2>q. QED
    BY <2>1, <2>2
<1>14. ASSUME NEW c \in Core, CacheObj(c), UNCHANGED clientVars PROVE CallType'
  BY <1>14, <1>t DEF CacheObj, Goto, gVars, rootVars, callVars, clientVars,
       CallType, LocalInv, GlobalType
<1>15. ASSUME NEW c \in Core, MarkCoreUsed(c), UNCHANGED clientVars PROVE
     CallType'
  BY <1>15, <1>t, CallFacts DEF MarkCoreUsed, Return, Goto, gVars, rootVars, callVars,
       clientVars, CallType, LocalInv
<1>q. QED
  BY <1>u, <1>1, <1>2, <1>3, <1>4, <1>5, <1>6, <1>7, <1>8, <1>9, <1>10, <1>11,
       <1>12, <1>13, <1>14, <1>15 DEF ClientNext, ClientBindStep,
       ClientCallStep, BindStep, CallStep

\* Every step keeps the partitions apart (TransEBBIdAlloc).
LEMMA IdStep ==
  ASSUME ClientTypeOK, LocalInv, IdInv, [ClientNext]_allVars
  PROVE  IdInv'
<1>t. ControlType /\ GlobalType /\ CallType /\ RootType
  BY DEF ClientTypeOK
\* A step that allocates nothing leaves it as it is ...
<1>k. ASSUME UNCHANGED <<allocated, held>>,
             \A k \in Core : pc'[k] = "alloc" => pc[k] = "alloc" /\ cid'[k] = cid[k]
      PROVE  IdInv'
  BY <1>k DEF IdInv, HeldAt, FoundAt
<1>1. CASE \E c \in Core : ClientCall(c) \/ ClientCallStep(c) \/ (BindArg(c) /\ ClientBindStep(c))
  <2> PICK c \in Core : ClientCall(c) \/ ClientCallStep(c) \/ (BindArg(c) /\ ClientBindStep(c))
    BY <1>1
  <2>1. UNCHANGED <<allocated, held>>
    BY DEF ClientCall, CallId, ClientCallStep, CallStep, ClientBindStep, BindArg, DerefSelf,
         ReadMf, ReadArg, InvokeMiss, HandleMiss, AddRep, CacheObj, MarkCoreUsed, gVars,
         clientVars
  <2>2. \A k \in Core : k # c => pc'[k] = pc[k] /\ cid'[k] = cid[k]
    BY <1>t DEF ClientCall, CallId, ClientCallStep, CallStep, BindArg, DerefSelf, ReadMf,
         ReadArg, InvokeMiss, HandleMiss, AddRep, CacheObj, MarkCoreUsed, Goto, Return,
         ControlType
  <2>3. pc'[c] # "alloc"
    BY <1>t, CallFacts DEF ClientCall, CallId, ClientCallStep, CallStep, BindArg, DerefSelf,
         ReadMf, ReadArg, InvokeMiss, HandleMiss, AddRep, CacheObj, MarkCoreUsed, Goto,
         Return, ControlType, AfterMissFunc
  <2> QED
    BY <2>1, <2>2, <2>3, <1>k
<1>2. CASE \E c \in Core : ClientBind(c) \/ (Invalidate(c) /\ ClientBindStep(c))
  <2> PICK c \in Core : ClientBind(c) \/ (Invalidate(c) /\ ClientBindStep(c))
    BY <1>2
  <2>1. UNCHANGED <<allocated, held>>
    BY DEF ClientBind, BindId, ClientBindStep, Invalidate, gVars
  <2>2. \A k \in Core : k # c => pc'[k] = pc[k] /\ cid'[k] = cid[k]
    BY <1>t DEF ClientBind, BindId, Invalidate, Goto, ControlType
  <2>3. pc'[c] # "alloc"
    BY <1>t DEF ClientBind, BindId, Invalidate, Goto, ControlType
  <2> QED
    BY <2>1, <2>2, <2>3, <1>k
\* ... a search finds an unmarked id of the core's own partition ...
<1>3. ASSUME NEW c \in Core, ClientAlloc(c) PROVE IdInv'
  <2>1. UNCHANGED <<allocated, held>>
    BY <1>3 DEF ClientAlloc, AllocId, gVars, clientVars
  <2>2. \A k \in Core : k # c => pc'[k] = pc[k] /\ cid'[k] = cid[k]
    BY <1>3, <1>t DEF ClientAlloc, AllocId, Goto, ControlType
  <2>3. pc'[c] = "alloc" => cid'[c] \in FreeIds(c)
    BY <1>3, <1>t DEF ClientAlloc, AllocId, Goto, ControlType
  <2>4. \A d \in Id, k \in Core : HeldAt(d, k)'
    BY <2>1 DEF IdInv, HeldAt
  <2>5. \A k \in Core : FoundAt(k)'
    BY <2>1, <2>2, <2>3 DEF IdInv, FoundAt, FreeIds
  <2> QED
    BY <2>4, <2>5 DEF IdInv
\* ... which no other search has found, so that marking it disturbs none ...
<1>4. ASSUME NEW c \in Core, ClientTake(c) PROVE IdInv'
  <2> PICK d \in Id : d = cid[c]
    BY <1>4 DEF ClientTake, TakeId, LocalInv
  <2>1. /\ Owner[d] = c /\ d \notin allocated
        /\ allocated' = allocated \cup {d} /\ cid' = cid
        /\ held' = [held EXCEPT ![d][c] = held[d][c] + 1]
        /\ pc' = [pc EXCEPT ![c] = "idle"]
    BY <1>4 DEF ClientTake, TakeId, Goto, IdInv, FoundAt, LocalInv
  <2>2. HeldAt(d, c) /\ held \in [Id -> [Core -> Nat]]
    BY <1>t DEF GlobalType, IdInv
  <2>3. held[d][c] = 0
    <3>1. held[d][c] \in Nat
      BY <2>2
    <3> QED
      BY <2>1, <2>2, <3>1 DEF HeldAt
  <2>4. /\ held'[d][c] = 1
        /\ \A e \in Id, k \in Core : e # d \/ k # c => held'[e][k] = held[e][k]
    BY <2>1, <2>2, <2>3, Counted
  <2>5. \A e \in Id, k \in Core : HeldAt(e, k)'
    BY <2>1, <2>4 DEF IdInv, HeldAt
  <2>6. \A k \in Core : FoundAt(k)'
    BY <1>t, <2>1 DEF IdInv, FoundAt, ControlType
  <2> QED
    BY <2>5, <2>6 DEF IdInv
\* ... and free leaves the mark.
<1>5. ASSUME NEW c \in Core, ClientFree(c) PROVE IdInv'
  <2>1. PICK d \in Id : /\ d \in allocated /\ held[d][c] > 0
                        /\ allocated' = allocated \cup {d} /\ UNCHANGED <<pc, cid>>
                        /\ held' = [held EXCEPT ![d][c] = @ - 1]
    BY <1>5 DEF ClientFree, FreeId
  <2>2. held[d][c] = 1 /\ allocated' = allocated
    BY <2>1 DEF IdInv, HeldAt
  <2>3. /\ held'[d][c] = 0
        /\ \A e \in Id, k \in Core : e # d \/ k # c => held'[e][k] = held[e][k]
    BY <1>t, <2>1, <2>2, Counted DEF GlobalType
  <2>4. \A e \in Id, k \in Core : e # d \/ k # c => HeldAt(e, k)'
    BY <2>2, <2>3 DEF IdInv, HeldAt
  <2>5. \A e \in Id, k \in Core : HeldAt(e, k)'
    BY <2>3, <2>4 DEF HeldAt
  <2>6. \A k \in Core : FoundAt(k)'
    BY <2>1, <2>2 DEF IdInv, FoundAt
  <2> QED
    BY <2>5, <2>6 DEF IdInv
<1>6. CASE UNCHANGED allVars
  BY <1>6, <1>k DEF allVars, vars, gVars, clientVars
<1> QED
  BY <1>1, <1>2, <1>3, <1>4, <1>5, <1>6
     DEF ClientNext, ClientBindStep, ClientCallStep, BindStep

\* What a core has found out on its way it still holds after any step: no other
\* core writes its local variables.
LEMMA LocalStep ==
  ASSUME ClientTypeOK, LocalInv, [ClientNext]_allVars
  PROVE  LocalInv'
<1>t. ControlType /\ GlobalType /\ CallType /\ RootType
  BY DEF ClientTypeOK
<1>u. CASE UNCHANGED allVars
  BY <1>u, <1>t DEF allVars, vars, gVars, rootVars, callVars, clientVars, LocalInv
<1>1. ASSUME NEW c \in Core, ClientAlloc(c) PROVE LocalInv'
  <2>1. CASE FreeIds(c) = {}
    BY <1>1, <2>1, <1>t DEF ClientAlloc, AllocId, Goto, gVars, rootVars,
         callVars, clientVars, ControlType, LocalInv, PC, FreeIds
  <2>2. CASE FreeIds(c) # {}
    BY <1>1, <2>2, <1>t DEF ClientAlloc, AllocId, Goto, gVars, rootVars,
         callVars, clientVars, ControlType, LocalInv, PC, FreeIds
  <2>q. QED
    BY <2>1, <2>2
<1>2. ASSUME NEW c \in Core, ClientTake(c) PROVE LocalInv'
  BY <1>2, <1>t DEF ClientTake, TakeId, Goto, gVars, rootVars, callVars,
       clientVars, ControlType, LocalInv, PC
<1>3. ASSUME NEW c \in Core, ClientFree(c) PROVE LocalInv'
  BY <1>3, <1>t DEF ClientFree, FreeId, Goto, gVars, rootVars, callVars,
       clientVars, ControlType, LocalInv, PC
<1>4. ASSUME NEW c \in Core, ClientBind(c) PROVE LocalInv'
  BY <1>4, <1>t DEF ClientBind, BindId, Goto, gVars, rootVars, callVars,
       clientVars, ControlType, LocalInv, PC
<1>5. ASSUME NEW c \in Core, ClientCall(c) PROVE LocalInv'
  BY <1>5, <1>t DEF ClientCall, CallId, Goto, gVars, rootVars, callVars,
       clientVars, ControlType, LocalInv, PC, GlobalType
<1>6. ASSUME NEW c \in Core, BindArg(c), ClientBindStep(c) PROVE LocalInv'
  BY <1>6, <1>t DEF BindArg, ClientBindStep, Goto, gVars, rootVars, callVars,
       clientVars, ControlType, LocalInv, PC
<1>7. ASSUME NEW c \in Core, Invalidate(c), ClientBindStep(c) PROVE LocalInv'
  BY <1>7, <1>t DEF Invalidate, ClientBindStep, Goto, gVars, rootVars,
       callVars, clientVars, ControlType, LocalInv, PC
<1>8. ASSUME NEW c \in Core, DerefSelf(c), UNCHANGED clientVars PROVE LocalInv'
  <2>1. CASE fn[c] # None
    BY <1>8, <2>1, <1>t DEF DerefSelf, Return, Goto, ControlType, CallType,
         LocalInv, PC
  <2>2. CASE fn[c] = None
    BY <1>8, <2>2, <1>t DEF DerefSelf, Return, Goto, gVars, rootVars, callVars,
         clientVars, ControlType, LocalInv, PC
  <2>q. QED
    BY <2>1, <2>2
<1>9. ASSUME NEW c \in Core, ReadMf(c), UNCHANGED clientVars PROVE LocalInv'
  BY <1>9, <1>t DEF ReadMf, Goto, gVars, rootVars, callVars, clientVars,
       ControlType, LocalInv, PC
<1>10. ASSUME NEW c \in Core, ReadArg(c), UNCHANGED clientVars PROVE LocalInv'
  BY <1>10, <1>t DEF ReadArg, Goto, gVars, rootVars, callVars, clientVars,
       ControlType, LocalInv, PC, GlobalType
<1>11. ASSUME NEW c \in Core, InvokeMiss(c), UNCHANGED clientVars PROVE
     LocalInv'
  <2>1. CASE rmf[c] = "nullmissmf" \/ rarg[c] = None
    BY <1>11, <2>1, <1>t, RepFacts, CallFacts DEF InvokeMiss, Return, Goto,
         gVars, rootVars, callVars, clientVars, ControlType, LocalInv, PC,
         CallType
  <2>2. CASE ~(rmf[c] = "nullmissmf" \/ rarg[c] = None)
    BY <1>11, <2>2, <1>t, RepFacts, CallFacts DEF InvokeMiss, Return, Goto,
         gVars, rootVars, callVars, clientVars, ControlType, LocalInv, PC,
         CallType
  <2>q. QED
    BY <2>1, <2>2
<1>12. ASSUME NEW c \in Core, HandleMiss(c), UNCHANGED clientVars PROVE
     LocalInv'
  BY <1>12, <1>t DEF HandleMiss, LockReps, Goto, gVars, rootVars, callVars,
       clientVars, ControlType, LocalInv, PC
<1>13. ASSUME NEW c \in Core, AddRep(c), UNCHANGED clientVars PROVE LocalInv'
  <2>1. CASE FindRepOn(c) # {}
    BY <1>13, <2>1, <1>t, RepFacts DEF AddRep, Goto, gVars, rootVars, callVars,
         clientVars, ControlType, LocalInv, PC, FindRepOn, CallType
  <2>2. CASE FindRepOn(c) = {}
    BY <1>13, <2>2, <1>t, RepFacts DEF AddRep, Goto, gVars, rootVars, callVars,
         clientVars, ControlType, LocalInv, PC, FindRepOn, CallType
  <2>q. QED
    BY <2>1, <2>2
<1>14. ASSUME NEW c \in Core, CacheObj(c), UNCHANGED clientVars PROVE LocalInv'
  BY <1>14, <1>t DEF CacheObj, Goto, gVars, rootVars, callVars, clientVars,
       ControlType, LocalInv, PC
<1>15. ASSUME NEW c \in Core, MarkCoreUsed(c), UNCHANGED clientVars PROVE
     LocalInv'
  BY <1>15, <1>t DEF MarkCoreUsed, Return, Goto, gVars, rootVars, callVars,
       clientVars, ControlType, LocalInv, PC
<1>q. QED
  BY <1>u, <1>1, <1>2, <1>3, <1>4, <1>5, <1>6, <1>7, <1>8, <1>9, <1>10, <1>11,
       <1>12, <1>13, <1>14, <1>15 DEF ClientNext, ClientBindStep,
       ClientCallStep, BindStep, CallStep

\* The critical sections of handleMiss on one root exclude each other.
LEMMA MissStep ==
  ASSUME ClientTypeOK, LocalInv, MissInv, [ClientNext]_allVars
  PROVE  MissInv'
<1>t. ControlType /\ GlobalType /\ CallType /\ RootType
  BY DEF ClientTypeOK
<1>u. CASE UNCHANGED allVars
  BY <1>u, <1>t DEF allVars, vars, gVars, rootVars, callVars, clientVars, MissInv,
       Listed
<1>1. ASSUME NEW c \in Core, ClientAlloc(c) PROVE MissInv'
  <2>1. CASE FreeIds(c) = {}
    BY <1>1, <2>1, <1>t DEF ClientAlloc, AllocId, Goto, gVars, rootVars,
         callVars, clientVars, ControlType, RootType, LocalInv, MissInv,
         Listed, PC
  <2>2. CASE FreeIds(c) # {}
    BY <1>1, <2>2, <1>t DEF ClientAlloc, AllocId, Goto, gVars, rootVars,
         callVars, clientVars, ControlType, RootType, LocalInv, MissInv,
         Listed, PC
  <2>q. QED
    BY <2>1, <2>2
<1>2. ASSUME NEW c \in Core, ClientTake(c) PROVE MissInv'
  BY <1>2, <1>t DEF ClientTake, TakeId, Goto, gVars, rootVars, callVars,
       clientVars, ControlType, RootType, LocalInv, MissInv, Listed, PC
<1>3. ASSUME NEW c \in Core, ClientFree(c) PROVE MissInv'
  BY <1>3, <1>t DEF ClientFree, FreeId, Goto, gVars, rootVars, callVars,
       clientVars, ControlType, RootType, LocalInv, MissInv, Listed, PC
<1>4. ASSUME NEW c \in Core, ClientBind(c) PROVE MissInv'
  BY <1>4, <1>t DEF ClientBind, BindId, Goto, gVars, rootVars, callVars,
       clientVars, ControlType, RootType, LocalInv, MissInv, Listed, PC
<1>5. ASSUME NEW c \in Core, ClientCall(c) PROVE MissInv'
  BY <1>5, <1>t DEF ClientCall, CallId, Goto, gVars, rootVars, callVars,
       clientVars, ControlType, RootType, LocalInv, MissInv, Listed, PC
<1>6. ASSUME NEW c \in Core, BindArg(c), ClientBindStep(c) PROVE MissInv'
  BY <1>6, <1>t DEF BindArg, ClientBindStep, Goto, gVars, rootVars, callVars,
       clientVars, ControlType, RootType, LocalInv, MissInv, Listed, PC
<1>7. ASSUME NEW c \in Core, Invalidate(c), ClientBindStep(c) PROVE MissInv'
  BY <1>7, <1>t DEF Invalidate, ClientBindStep, Goto, gVars, rootVars,
       callVars, clientVars, ControlType, RootType, LocalInv, MissInv,
       Listed, PC
<1>8. ASSUME NEW c \in Core, DerefSelf(c), UNCHANGED clientVars PROVE MissInv'
  <2>1. CASE fn[c] # None
    BY <1>8, <2>1, <1>t DEF DerefSelf, Return, Goto, gVars, rootVars, callVars,
         clientVars, ControlType, RootType, LocalInv, MissInv, Listed, PC
  <2>2. CASE fn[c] = None
    BY <1>8, <2>2, <1>t DEF DerefSelf, Goto, rootVars, ControlType, MissInv, Listed
  <2>q. QED
    BY <2>1, <2>2
<1>9. ASSUME NEW c \in Core, ReadMf(c), UNCHANGED clientVars PROVE MissInv'
  BY <1>9, <1>t DEF ReadMf, Goto, gVars, rootVars, callVars, clientVars,
       ControlType, RootType, LocalInv, MissInv, Listed, PC
<1>10. ASSUME NEW c \in Core, ReadArg(c), UNCHANGED clientVars PROVE MissInv'
  BY <1>10, <1>t DEF ReadArg, Goto, gVars, rootVars, callVars, clientVars,
       ControlType, RootType, LocalInv, MissInv, Listed, PC
<1>11. ASSUME NEW c \in Core, InvokeMiss(c), UNCHANGED clientVars PROVE
     MissInv'
  <2>1. CASE rmf[c] = "nullmissmf" \/ rarg[c] = None
    BY <1>11, <2>1, <1>t, CallFacts DEF InvokeMiss, Return, Goto, gVars,
         rootVars, callVars, clientVars, ControlType, RootType, LocalInv,
         MissInv, Listed, PC
  <2>2. CASE ~(rmf[c] = "nullmissmf" \/ rarg[c] = None)
    BY <1>11, <2>2, <1>t, CallFacts DEF InvokeMiss, Return, Goto, gVars,
         rootVars, callVars, clientVars, ControlType, RootType, LocalInv,
         MissInv, Listed, PC
  <2>q. QED
    BY <2>1, <2>2
<1>12. ASSUME NEW c \in Core, HandleMiss(c), UNCHANGED clientVars PROVE
     MissInv'
  BY <1>12, <1>t DEF HandleMiss, LockReps, Goto, gVars, rootVars, callVars,
       clientVars, ControlType, RootType, LocalInv, MissInv, Listed, PC
<1>13. ASSUME NEW c \in Core, AddRep(c), UNCHANGED clientVars PROVE MissInv'
  <2>1. CASE FindRepOn(c) # {}
    BY <1>13, <2>1, <1>t, Prepend DEF AddRep, Goto, gVars, rootVars, callVars,
         clientVars, ControlType, RootType, LocalInv, MissInv, Listed, PC,
         FindRepOn
  <2>2. CASE FindRepOn(c) = {}
    <3>1. rarg[c] \in Inst /\ view[c] \in Seq(Core) /\ view[c] = replist[rarg[c]]
      BY <1>13, <1>t DEF AddRep, LocalInv, MissInv, RootType
    <3>2. /\ replist' = [replist EXCEPT ![rarg[c]] = <<c>> \o view[c]]
          /\ rootlock' = [rootlock EXCEPT ![rarg[c]] = None]
          /\ pc' = [pc EXCEPT ![c] = "cache"] /\ rarg' = rarg
          /\ view' = [view EXCEPT ![c] = <<>>]
      BY <1>13, <2>2 DEF AddRep, Goto
    <3>n. /\ \A i \in Inst : i # rarg[c] => replist'[i] = replist[i]
          /\ replist'[rarg[c]] = <<c>> \o replist[rarg[c]]
          /\ replist[rarg[c]] \in Seq(Core)
      BY <1>t, <3>1, <3>2 DEF RootType
    <3>3. ASSUME NEW i \in Inst, NEW k \in Core, Listed(i, k)
          PROVE  \E n \in DOMAIN replist'[i] : replist'[i][n] = k
      <4>1. CASE i # rarg[c]
        BY <3>n, <3>3, <4>1 DEF Listed
      <4>2. CASE i = rarg[c]
        <5>1. PICK n \in DOMAIN replist[i] : replist[i][n] = k
          BY <3>3 DEF Listed
        <5>2. n + 1 \in DOMAIN replist'[i] /\ replist'[i][n + 1] = k
          BY <3>n, <4>2, <5>1, PrependKeeps
        <5>3. QED
          BY <5>2
      <4>3. QED
        BY <4>1, <4>2
    <3>4. \E n \in DOMAIN replist'[rarg[c]] : replist'[rarg[c]][n] = c
      BY <3>n, PrependKeeps
    <3>5. ASSUME NEW k \in Core, pc'[k] = "addRep"
          PROVE  rootlock'[rarg'[k]] = k /\ view'[k] = replist'[rarg'[k]]
      <4>1. k # c /\ pc[k] = "addRep" /\ rarg[k] # rarg[c]
        BY <1>13, <1>t, <3>2, <3>5 DEF AddRep, ControlType, MissInv
      <4>2. rarg[k] \in Inst
        BY <4>1 DEF LocalInv
      <4>3. QED
        BY <1>t, <3>2, <4>1, <4>2 DEF RootType, MissInv
    <3>6. ASSUME NEW k \in Core, pc'[k] \in {"cache", "mark"},
                 Kind[rarg'[k]] = "multi"
          PROVE  \E n \in DOMAIN replist'[rarg[k]] : replist'[rarg[k]][n] = k
      <4>1. CASE k = c
        BY <3>4, <4>1
      <4>2. CASE k # c
        <5>1. pc[k] \in {"cache", "mark"} /\ rarg[k] \in Inst /\ Listed(rarg[k], k)
          BY <1>t, <3>2, <3>6, <4>2 DEF ControlType, LocalInv, MissInv
        <5>2. QED
          BY <3>3, <5>1
      <4>3. QED
        BY <4>1, <4>2
    <3>7. QED
      BY <3>2, <3>5, <3>6 DEF MissInv, Listed
  <2>q. QED
    BY <2>1, <2>2
<1>14. ASSUME NEW c \in Core, CacheObj(c), UNCHANGED clientVars PROVE MissInv'
  BY <1>14, <1>t DEF CacheObj, Goto, gVars, rootVars, callVars, clientVars,
       ControlType, RootType, LocalInv, MissInv, Listed, PC
<1>15. ASSUME NEW c \in Core, MarkCoreUsed(c), UNCHANGED clientVars PROVE
     MissInv'
  BY <1>15, <1>t DEF MarkCoreUsed, Return, Goto, gVars, rootVars, callVars,
       clientVars, ControlType, RootType, LocalInv, MissInv, Listed, PC
<1>q. QED
  BY <1>u, <1>1, <1>2, <1>3, <1>4, <1>5, <1>6, <1>7, <1>8, <1>9, <1>10, <1>11,
       <1>12, <1>13, <1>14, <1>15 DEF ClientNext, ClientBindStep,
       ClientCallStep, BindStep, CallStep

\* A node is added only for an event location that has none, and
\* lists only grow.
LEMMA RepStep ==
  ASSUME ClientTypeOK, LocalInv, MissInv, OneRepPerEL, [ClientNext]_allVars
  PROVE  OneRepPerEL'
<1>t. ControlType /\ GlobalType /\ CallType /\ RootType
  BY DEF ClientTypeOK
<1>s. ASSUME lt' = lt, replist' = replist PROVE OneRepPerEL'
  BY <1>s DEF OneRepPerEL
<1>1. ASSUME NEW c \in Core,
             \/ ClientAlloc(c) \/ ClientTake(c) \/ ClientFree(c) \/ ClientBind(c)
             \/ ClientCall(c) \/ BindArg(c) \/ DerefSelf(c) \/ ReadMf(c)
             \/ ReadArg(c) \/ InvokeMiss(c) \/ HandleMiss(c) \/ MarkCoreUsed(c)
      PROVE  OneRepPerEL'
  <2>1. lt' = lt /\ replist' = replist
    BY <1>1 DEF ClientAlloc, AllocId, ClientTake, TakeId, ClientFree, FreeId, ClientBind,
         BindId, ClientCall, CallId, BindArg, DerefSelf, ReadMf, ReadArg, InvokeMiss,
         HandleMiss, MarkCoreUsed, rootVars
  <2>2. QED
    BY <1>s, <2>1
<1>2. ASSUME NEW c \in Core, Invalidate(c), ClientBindStep(c) PROVE
     OneRepPerEL'
  <2>1. replist' = replist /\ cid[c] \in Id /\ picId[c] \in Core
    BY <1>2, <1>t DEF Invalidate, rootVars, LocalInv, CallType
  <2>2. lt' = [lt EXCEPT ![picId[c]][cid[c]] = None]
    BY <1>2 DEF Invalidate, TestCoreUsed
  <2>3. \A k \in Core, d \in Id : lt'[k][d] = lt[k][d] \/ lt'[k][d] = None
    BY <1>t, <2>1, <2>2 DEF RootType
  <2>4. \A i \in Inst, k \in Core, d \in Id :
          lt'[k][d] = RepOf(i, k) => lt[k][d] = RepOf(i, k)
    BY <2>3, RepFacts
  <2>5. QED
    BY <2>1, <2>4 DEF OneRepPerEL
<1>3. ASSUME NEW c \in Core, AddRep(c), UNCHANGED clientVars PROVE
     OneRepPerEL'
  <2>1. CASE FindRepOn(c) # {}
    BY <1>3, <2>1, <1>t, <1>s DEF AddRep, Goto, gVars, rootVars, callVars,
         clientVars, LocalInv
  <2>2. CASE FindRepOn(c) = {}
    <3>1. rarg[c] \in Inst /\ view[c] \in Seq(Core) /\ view[c] = replist[rarg[c]]
      BY <1>3, <1>t DEF AddRep, LocalInv, MissInv, RootType
    <3>2. /\ replist' = [replist EXCEPT ![rarg[c]] = <<c>> \o view[c]]
          /\ lt' = lt
      BY <1>3, <2>2 DEF AddRep
    <3>3. \A n \in DOMAIN view[c] : view[c][n] # c
      BY <2>2 DEF FindRepOn
    <3>4. ASSUME NEW i \in Inst, NEW m \in DOMAIN replist'[i],
                 NEW n \in DOMAIN replist'[i], replist'[i][m] = replist'[i][n]
          PROVE  m = n
      <4>1. CASE i # rarg[c]
        BY <1>t, <3>2, <3>4, <4>1 DEF OneRepPerEL, RootType
      <4>2. CASE i = rarg[c]
        <5> DEFINE q == view[c]
        <5>1. replist'[i] = <<c>> \o q /\ q \in Seq(Core) /\ q = replist[i]
          BY <1>t, <3>1, <3>2, <4>2 DEF RootType
        <5>2. \A x, y \in DOMAIN q : q[x] = q[y] => x = y
          BY <5>1 DEF OneRepPerEL
        <5>3. Len(q) \in Nat /\ DOMAIN q = 1..Len(q)
          BY <5>1
        <5> HIDE DEF q
        <5>4. /\ DOMAIN (<<c>> \o q) = 1..(Len(q) + 1)
              /\ (<<c>> \o q)[1] = c
              /\ \A x \in 1..(Len(q) + 1) : x # 1 => (<<c>> \o q)[x] = q[x - 1]
          BY <5>1, Prepend
        <5>5. m \in 1..(Len(q) + 1) /\ n \in 1..(Len(q) + 1)
          BY <3>4, <5>1, <5>4
        <5>6. \A x \in 1..(Len(q) + 1) : x # 1 => (<<c>> \o q)[x] # c
          BY <3>3, <5>3, <5>4 DEF q
        <5>7. CASE m = 1 \/ n = 1
          BY <3>4, <5>1, <5>4, <5>5, <5>6, <5>7
        <5>8. CASE m # 1 /\ n # 1
          <6>1. q[m - 1] = q[n - 1] /\ m - 1 \in 1..Len(q) /\ n - 1 \in 1..Len(q)
            BY <3>4, <5>1, <5>3, <5>4, <5>5, <5>8
          <6>2. QED
            BY <5>2, <5>3, <5>5, <6>1
        <5>9. QED
          BY <5>7, <5>8
      <4>3. QED
        BY <4>1, <4>2
    <3>5. ASSUME NEW i \in Inst, NEW k \in Core,
                 \E n \in DOMAIN replist[i] : replist[i][n] = k
          PROVE  \E n \in DOMAIN replist'[i] : replist'[i][n] = k
      <4>1. CASE i # rarg[c]
        BY <1>t, <3>2, <3>5, <4>1 DEF RootType
      <4>2. CASE i = rarg[c]
        <5>1. replist'[i] = <<c>> \o replist[i] /\ replist[i] \in Seq(Core)
          BY <1>t, <3>1, <3>2, <4>2 DEF RootType
        <5>2. PICK n \in DOMAIN replist[i] : replist[i][n] = k
          BY <3>5
        <5>3. n + 1 \in DOMAIN replist'[i] /\ replist'[i][n + 1] = k
          BY <5>1, <5>2, PrependKeeps
        <5>4. QED
          BY <5>3
      <4>3. QED
        BY <4>1, <4>2
    <3>6. QED
      BY <3>2, <3>4, <3>5 DEF OneRepPerEL
  <2>q. QED
    BY <2>1, <2>2
<1>4. ASSUME NEW c \in Core, CacheObj(c), UNCHANGED clientVars PROVE
     OneRepPerEL'
  <2>1. /\ replist' = replist /\ cid[c] \in Id /\ rarg[c] \in Inst
        /\ obj[c] = RepOf(rarg[c], c)
        /\ Kind[rarg[c]] = "multi" => Listed(rarg[c], c)
    BY <1>4 DEF CacheObj, rootVars, LocalInv, MissInv
  <2>2. lt' = [lt EXCEPT ![c][cid[c]] = RepOf(rarg[c], c)]
    BY <1>4, <2>1 DEF CacheObj
  <2>3. \A k \in Core, d \in Id :
          lt'[k][d] = lt[k][d] \/ (k = c /\ lt'[k][d] = RepOf(rarg[c], c))
    BY <1>t, <2>1, <2>2 DEF RootType
  <2>4. \A i \in Inst, k \in Core, d \in Id :
          lt'[k][d] = RepOf(i, k) =>
            lt[k][d] = RepOf(i, k) \/ (k = c /\ i = rarg[c])
    BY <2>1, <2>3, RepFacts
  <2>5. QED
    BY <2>1, <2>4 DEF OneRepPerEL, Listed
<1>5. CASE UNCHANGED allVars
  BY <1>s, <1>5 DEF allVars, vars, rootVars
<1>6. QED
  BY <1>1, <1>2, <1>3, <1>4, <1>5 DEF ClientNext, ClientBindStep, ClientCallStep,
     BindStep, CallStep

\* The invariant is inductive, and so holds in every behaviour.
THEOREM Inductive == ClientSpec => []IInv
<1>1. IInv /\ [ClientNext]_allVars => IInv'
  BY GlobalStep, RootStep, ControlStep, CallStep1, IdStep, LocalStep, MissStep, RepStep DEF IInv, ClientTypeOK
<1>2. QED
  BY InitInv, <1>1, PTL DEF ClientSpec

\* The translation tables keep their types, and the invalidation loop of
\* TransEBBIdBind never leaves the existing cores.
THEOREM TypeCorrect == ClientSpec => []TypeOK
<1>1. IInv => TypeOK
  BY DEF IInv, ClientTypeOK, GlobalType, RootType, ControlType, CallType, TypeOK
<1>2. QED
  BY Inductive, <1>1, PTL

\* TransEBBIdAlloc, whose search and mark are two steps without a lock, gives no id that
\* is held out again, to no core and not to its holder, for any number of
\* cores and ids.
THEOREM UniqueIds == ClientSpec => []IdsAreUnique
<1>1. IInv => IdsAreUnique
  BY DEF IInv, IdInv, HeldAt, IdsAreUnique
<1>2. QED
  BY Inductive, <1>1, PTL

\* handleMiss under lockReps makes at most one representative of an instance for
\* an event location and loses none, for any number of cores that miss at once and
\* any number of binds that invalidate the caches meanwhile.
THEOREM OneRep == ClientSpec => []OneRepPerEL
<1>1. IInv => OneRepPerEL
  BY DEF IInv
<1>2. QED
  BY Inductive, <1>1, PTL

-----------------------------------------------------------------------------
(* What a method runs on.  An id is called only when its first bind has     *)
(* returned; from then on, until it is bound a second time, its translation *)
(* and what the calls have read of it agree with that bind.                 *)

Calling(c)    == pc[c] \in {"self", "miss", "invoke", "lockReps", "addRep", "cache", "mark"}
Binding(c, d) == cid[c] = d /\ pc[c] \in {"bind", "invalidate"}

HistoryType ==
  /\ binds \in [Id -> Nat] /\ current \in [Id -> Inst \cup {None}]
  /\ \A c \in Core : result[c] = "ran" => cid[c] \in Id

\* Before its first bind has returned nobody calls an id.
PrivateAt(d) ==
  d \notin published => \A k \in Core :
    lt[k][d] = None /\ (cid[k] = d => ~Calling(k) /\ result[k] # "ran")

\* The first bind of an id is one that is under way or has returned.
UnboundAt(d) == binds[d] = 0 => d \notin published /\ \A k \in Core : ~Binding(k, d)
AloneAt(d) == \A k, l \in Core : Binding(k, d) /\ Binding(l, d) => k = l

\* The first bind writes the miss function, then its argument.
FirstAt(d) ==
  binds[d] = 1 /\ d \notin published => \A k \in Core : Binding(k, d) =>
    /\ mf[d] = MissFunc(inst[k])
    /\ pc[k] = "invalidate" => arg[d] = MissArg(inst[k])

\* What a call of an id that is bound to i has read.
ReadAt(c, i) ==
  /\ pc[c] = "self" => fn[c] \in {None, RepOf(i, c)}
  /\ pc[c] = "miss" => rmf[c] \in {"unread", MissFunc(i)} /\ rarg[c] \in {"unread", MissArg(i)}
  /\ pc[c] = "invoke" => rmf[c] = MissFunc(i) /\ rarg[c] = MissArg(i)
  /\ pc[c] \in {"lockReps", "addRep", "cache", "mark"} => rarg[c] = i
  /\ Calling(c) => result[c] = "none"
  /\ result[c] = "ran" => obj[c] = RepOf(i, c)

OnceAt(d) ==
  binds[d] = 1 /\ d \in published =>
    /\ current[d] \in Inst
    /\ mf[d] = MissFunc(current[d]) /\ arg[d] = MissArg(current[d])
    /\ \A k \in Core : /\ ~Binding(k, d)
                       /\ lt[k][d] \in {None, RepOf(current[d], k)}
                       /\ cid[k] = d => ReadAt(k, current[d])

PrivateInv == \A d \in Id : PrivateAt(d)
BindInv == \A d \in Id : UnboundAt(d) /\ AloneAt(d) /\ FirstAt(d)
OnceInv == \A d \in Id : OnceAt(d)

CallInv == IInv /\ HistoryType /\ PrivateInv /\ BindInv /\ OnceInv

\* What the history of binds holds.
LEMMA HistoryStep ==
  ASSUME CallInv, [ClientNext]_allVars
  PROVE  HistoryType'
<1>t. ClientTypeOK /\ LocalInv /\ HistoryType
  BY DEF CallInv, IInv
<1>u. CASE UNCHANGED allVars
  BY <1>u, <1>t DEF allVars, vars, gVars, rootVars, callVars, clientVars, HistoryType,
     ClientTypeOK, ControlType, CallType, LocalInv
<1>1. ASSUME NEW c \in Core, ClientAlloc(c)
      PROVE  HistoryType'
  <2>1. CASE FreeIds(c) = {}
    BY <1>1, <2>1, <1>t DEF ClientAlloc, AllocId, Goto, gVars, rootVars, callVars,
       clientVars, HistoryType, ClientTypeOK, ControlType, CallType, LocalInv, FreeIds
  <2>2. CASE ~(FreeIds(c) = {})
    BY <1>1, <2>2, <1>t DEF ClientAlloc, AllocId, Goto, gVars, rootVars, callVars,
       clientVars, HistoryType, ClientTypeOK, ControlType, CallType, LocalInv, FreeIds
  <2> QED
    BY <2>1, <2>2
<1>2. ASSUME NEW c \in Core, ClientTake(c)
      PROVE  HistoryType'
  BY <1>2, <1>t DEF ClientTake, TakeId, Goto, gVars, rootVars, callVars, clientVars,
     HistoryType, ClientTypeOK, ControlType, CallType, LocalInv
<1>3. ASSUME NEW c \in Core, ClientFree(c)
      PROVE  HistoryType'
  BY <1>3, <1>t DEF ClientFree, FreeId, Goto, gVars, rootVars, callVars, clientVars,
     HistoryType, ClientTypeOK, ControlType, CallType, LocalInv
<1>4. ASSUME NEW c \in Core, ClientBind(c)
      PROVE  HistoryType'
  BY <1>4, <1>t DEF ClientBind, BindId, BeingBound, Goto, gVars, rootVars, callVars,
     clientVars, HistoryType, ClientTypeOK, ControlType, CallType, LocalInv
<1>5. ASSUME NEW c \in Core, ClientCall(c)
      PROVE  HistoryType'
  BY <1>5, <1>t DEF ClientCall, CallId, Goto, gVars, rootVars, callVars, clientVars,
     HistoryType, ClientTypeOK, ControlType, CallType, LocalInv
<1>6. ASSUME NEW c \in Core, BindArg(c), ClientBindStep(c)
      PROVE  HistoryType'
  BY <1>6, <1>t DEF BindArg, ClientBindStep, Goto, gVars, rootVars, callVars,
     clientVars, HistoryType, ClientTypeOK, ControlType, CallType, LocalInv
<1>7. ASSUME NEW c \in Core, Invalidate(c), ClientBindStep(c)
      PROVE  HistoryType'
  BY <1>7, <1>t DEF Invalidate, ClientBindStep, Goto, gVars, rootVars, callVars,
     clientVars, HistoryType, ClientTypeOK, ControlType, CallType, LocalInv
<1>8. ASSUME NEW c \in Core, DerefSelf(c), UNCHANGED clientVars
      PROVE  HistoryType'
  <2>1. CASE fn[c] # None
    BY <1>8, <2>1, <1>t DEF DerefSelf, Return, Goto, gVars, rootVars, callVars,
       clientVars, HistoryType, ClientTypeOK, ControlType, CallType, LocalInv
  <2>2. CASE ~(fn[c] # None)
    BY <1>8, <2>2, <1>t DEF DerefSelf, Return, Goto, gVars, rootVars, callVars,
       clientVars, HistoryType, ClientTypeOK, ControlType, CallType, LocalInv
  <2> QED
    BY <2>1, <2>2
<1>9. ASSUME NEW c \in Core, ReadMf(c), UNCHANGED clientVars
      PROVE  HistoryType'
  BY <1>9, <1>t DEF ReadMf, Goto, gVars, rootVars, callVars, clientVars, HistoryType,
     ClientTypeOK, ControlType, CallType, LocalInv
<1>10. ASSUME NEW c \in Core, ReadArg(c), UNCHANGED clientVars
      PROVE  HistoryType'
  BY <1>10, <1>t DEF ReadArg, Goto, gVars, rootVars, callVars, clientVars, HistoryType,
     ClientTypeOK, ControlType, CallType, LocalInv
<1>11. ASSUME NEW c \in Core, InvokeMiss(c), UNCHANGED clientVars
      PROVE  HistoryType'
  <2>1. CASE rmf[c] = "nullmissmf" \/ rarg[c] = None
    BY <1>11, <2>1, <1>t DEF InvokeMiss, Return, Goto, gVars, rootVars, callVars,
       clientVars, HistoryType, ClientTypeOK, ControlType, CallType, LocalInv
  <2>2. CASE ~(rmf[c] = "nullmissmf" \/ rarg[c] = None)
    BY <1>11, <2>2, <1>t DEF InvokeMiss, Return, Goto, gVars, rootVars, callVars,
       clientVars, HistoryType, ClientTypeOK, ControlType, CallType, LocalInv
  <2> QED
    BY <2>1, <2>2
<1>12. ASSUME NEW c \in Core, HandleMiss(c), UNCHANGED clientVars
      PROVE  HistoryType'
  BY <1>12, <1>t DEF HandleMiss, Goto, gVars, rootVars, callVars, clientVars,
     HistoryType, ClientTypeOK, ControlType, CallType, LocalInv
<1>13. ASSUME NEW c \in Core, AddRep(c), UNCHANGED clientVars
      PROVE  HistoryType'
  <2>1. CASE FindRepOn(c) # {}
    BY <1>13, <2>1, <1>t DEF AddRep, Goto, gVars, rootVars, callVars, clientVars,
       HistoryType, ClientTypeOK, ControlType, CallType, LocalInv
  <2>2. CASE ~(FindRepOn(c) # {})
    BY <1>13, <2>2, <1>t DEF AddRep, Goto, gVars, rootVars, callVars, clientVars,
       HistoryType, ClientTypeOK, ControlType, CallType, LocalInv
  <2> QED
    BY <2>1, <2>2
<1>14. ASSUME NEW c \in Core, CacheObj(c), UNCHANGED clientVars
      PROVE  HistoryType'
  BY <1>14, <1>t DEF CacheObj, Goto, gVars, rootVars, callVars, clientVars, HistoryType,
     ClientTypeOK, ControlType, CallType, LocalInv
<1>15. ASSUME NEW c \in Core, MarkCoreUsed(c), UNCHANGED clientVars
      PROVE  HistoryType'
  BY <1>15, <1>t DEF MarkCoreUsed, Return, Goto, gVars, rootVars, callVars, clientVars,
     HistoryType, ClientTypeOK, ControlType, CallType, LocalInv
<1> QED
  BY <1>u, <1>1, <1>2, <1>3, <1>4, <1>5, <1>6, <1>7, <1>8, <1>9, <1>10, <1>11, <1>12,
     <1>13, <1>14, <1>15 DEF ClientNext, ClientBindStep, ClientCallStep, BindStep,
     CallStep

\* Nobody calls an id before its first bind has returned.
LEMMA PrivateStep ==
  ASSUME CallInv, [ClientNext]_allVars
  PROVE  PrivateInv'
<1>t. ClientTypeOK /\ LocalInv /\ PrivateInv /\ BindInv
  BY DEF CallInv, IInv
<1>s. /\ lt \in [Core -> [Id -> Reps \cup {None}]] /\ pc \in [Core -> PC]
      /\ cid \in [Core -> Id \cup {None}] /\ result \in [Core -> Result]
      /\ published \subseteq Id
  BY <1>t DEF ClientTypeOK, GlobalType, RootType, ControlType, CallType
<1>p. \A d \in Id : PrivateAt(d)
  BY <1>t DEF PrivateInv
<1>l. \A c \in Core : pc[c] # "idle" => cid[c] \in Id
  BY <1>t DEF LocalInv
<1>u. CASE UNCHANGED allVars
  BY <1>u, <1>s, <1>p, <1>l DEF allVars, vars, gVars, rootVars, callVars, clientVars,
     PrivateInv, PrivateAt, Calling
<1>1. ASSUME NEW c \in Core, ClientAlloc(c)
      PROVE  PrivateInv'
  <2>1. CASE FreeIds(c) = {}
    BY <1>1, <2>1, <1>s, <1>p, <1>l DEF ClientAlloc, AllocId, Goto, gVars, rootVars,
       callVars, clientVars, PrivateInv, PrivateAt, Calling, FreeIds
  <2>2. CASE ~(FreeIds(c) = {})
    BY <1>1, <2>2, <1>s, <1>p, <1>l DEF ClientAlloc, AllocId, Goto, gVars, rootVars,
       callVars, clientVars, PrivateInv, PrivateAt, Calling, FreeIds
  <2> QED
    BY <2>1, <2>2
<1>2. ASSUME NEW c \in Core, ClientTake(c)
      PROVE  PrivateInv'
  BY <1>2, <1>s, <1>p, <1>l DEF ClientTake, TakeId, Goto, gVars, rootVars, callVars,
     clientVars, PrivateInv, PrivateAt, Calling
<1>3. ASSUME NEW c \in Core, ClientFree(c)
      PROVE  PrivateInv'
  <2>1. UNCHANGED <<mf, arg, lt, pc, cid, inst, callVars, result, published, binds, current>>
    BY <1>3 DEF ClientFree, FreeId, rootVars
  <2> QED
    BY <2>1, <1>p DEF PrivateInv, PrivateAt, Calling, callVars
<1>4. ASSUME NEW c \in Core, ClientBind(c)
      PROVE  PrivateInv'
  <2>1. PICK d \in Id, i \in Inst :
          /\ pc[c] = "idle" /\ pc' = [pc EXCEPT ![c] = "bind"]
          /\ mf' = [mf EXCEPT ![d] = MissFunc(i)]
          /\ cid' = [cid EXCEPT ![c] = d] /\ inst' = [inst EXCEPT ![c] = i]
          /\ result' = [result EXCEPT ![c] = "none"]
          /\ binds' = [binds EXCEPT ![d] = binds[d] + 1] /\ ~BeingBound(d)
          /\ UNCHANGED <<arg, lt, callVars, published, current>>
    BY <1>4 DEF ClientBind, BindId, Goto
  <2>2. \A k \in Core : ~Binding(k, d)
    BY <2>1 DEF BeingBound, Binding
  <2>3. ASSUME NEW e \in Id PROVE PrivateAt(e)'
    <3>1. CASE e = d
      BY <1>s, <1>p, <2>1, <2>2, <3>1 DEF callVars, PrivateAt, Calling, Binding
    <3>2. CASE e # d
      BY <1>s, <1>p, <2>1, <2>2, <3>2 DEF callVars, PrivateAt, Calling, Binding
    <3> QED
      BY <3>1, <3>2
  <2> QED
    BY <2>3 DEF PrivateInv
<1>5. ASSUME NEW c \in Core, ClientCall(c)
      PROVE  PrivateInv'
  <2>1. PICK d \in published :
          /\ pc[c] = "idle" /\ pc' = [pc EXCEPT ![c] = "self"]
          /\ cid' = [cid EXCEPT ![c] = d] /\ fn' = [fn EXCEPT ![c] = lt[c][d]]
          /\ obj' = [obj EXCEPT ![c] = None] /\ result' = [result EXCEPT ![c] = "none"]
          /\ UNCHANGED <<mf, arg, lt, inst, rmf, rarg, published, binds, current>>
    BY <1>5 DEF ClientCall, CallId, Goto, gVars, clientVars
  <2>2. d \in Id
    BY <1>s
  <2>3. ASSUME NEW e \in Id PROVE PrivateAt(e)'
    <3>1. CASE e = d
      BY <1>s, <1>p, <2>1, <2>2, <3>1 DEF PrivateAt, Calling
    <3>2. CASE e # d
      BY <1>s, <1>p, <2>1, <2>2, <3>2 DEF PrivateAt, Calling
    <3> QED
      BY <3>1, <3>2
  <2> QED
    BY <2>3 DEF PrivateInv
<1>6. ASSUME NEW c \in Core, BindArg(c), ClientBindStep(c)
      PROVE  PrivateInv'
  BY <1>6, <1>s, <1>p, <1>l DEF BindArg, ClientBindStep, Goto, gVars, rootVars,
     callVars, clientVars, PrivateInv, PrivateAt, Calling
<1>7. ASSUME NEW c \in Core, Invalidate(c), ClientBindStep(c)
      PROVE  PrivateInv'
  BY <1>7, <1>s, <1>p, <1>l DEF Invalidate, ClientBindStep, Goto, gVars, rootVars,
     callVars, clientVars, PrivateInv, PrivateAt, Calling
<1>8. ASSUME NEW c \in Core, DerefSelf(c), UNCHANGED clientVars
      PROVE  PrivateInv'
  <2>1. CASE fn[c] # None
    BY <1>8, <2>1, <1>s, <1>p, <1>l DEF DerefSelf, Return, Goto, gVars, rootVars,
       callVars, clientVars, PrivateInv, PrivateAt, Calling
  <2>2. CASE ~(fn[c] # None)
    BY <1>8, <2>2, <1>s, <1>p, <1>l DEF DerefSelf, Return, Goto, gVars, rootVars,
       callVars, clientVars, PrivateInv, PrivateAt, Calling
  <2> QED
    BY <2>1, <2>2
<1>9. ASSUME NEW c \in Core, ReadMf(c), UNCHANGED clientVars
      PROVE  PrivateInv'
  BY <1>9, <1>s, <1>p, <1>l DEF ReadMf, Goto, gVars, rootVars, callVars, clientVars,
     PrivateInv, PrivateAt, Calling
<1>10. ASSUME NEW c \in Core, ReadArg(c), UNCHANGED clientVars
      PROVE  PrivateInv'
  BY <1>10, <1>s, <1>p, <1>l DEF ReadArg, Goto, gVars, rootVars, callVars, clientVars,
     PrivateInv, PrivateAt, Calling
<1>11. ASSUME NEW c \in Core, InvokeMiss(c), UNCHANGED clientVars
      PROVE  PrivateInv'
  <2>1. CASE rmf[c] = "nullmissmf" \/ rarg[c] = None
    BY <1>11, <2>1, <1>s, <1>p, <1>l DEF InvokeMiss, Return, Goto, gVars, rootVars,
       callVars, clientVars, PrivateInv, PrivateAt, Calling
  <2>2. CASE ~(rmf[c] = "nullmissmf" \/ rarg[c] = None)
    BY <1>11, <2>2, <1>s, <1>p, <1>l DEF InvokeMiss, Return, Goto, gVars, rootVars,
       callVars, clientVars, PrivateInv, PrivateAt, Calling
  <2> QED
    BY <2>1, <2>2
<1>12. ASSUME NEW c \in Core, HandleMiss(c), UNCHANGED clientVars
      PROVE  PrivateInv'
  BY <1>12, <1>s, <1>p, <1>l DEF HandleMiss, Goto, gVars, rootVars, callVars,
     clientVars, PrivateInv, PrivateAt, Calling
<1>13. ASSUME NEW c \in Core, AddRep(c), UNCHANGED clientVars
      PROVE  PrivateInv'
  <2>1. CASE FindRepOn(c) # {}
    BY <1>13, <2>1, <1>s, <1>p, <1>l DEF AddRep, Goto, gVars, rootVars, callVars,
       clientVars, PrivateInv, PrivateAt, Calling
  <2>2. CASE ~(FindRepOn(c) # {})
    BY <1>13, <2>2, <1>s, <1>p, <1>l DEF AddRep, Goto, gVars, rootVars, callVars,
       clientVars, PrivateInv, PrivateAt, Calling
  <2> QED
    BY <2>1, <2>2
<1>14. ASSUME NEW c \in Core, CacheObj(c), UNCHANGED clientVars
      PROVE  PrivateInv'
  BY <1>14, <1>s, <1>p, <1>l DEF CacheObj, Goto, gVars, rootVars, callVars, clientVars,
     PrivateInv, PrivateAt, Calling
<1>15. ASSUME NEW c \in Core, MarkCoreUsed(c), UNCHANGED clientVars
      PROVE  PrivateInv'
  BY <1>15, <1>s, <1>p, <1>l DEF MarkCoreUsed, Return, Goto, gVars, rootVars, callVars,
     clientVars, PrivateInv, PrivateAt, Calling
<1> QED
  BY <1>u, <1>1, <1>2, <1>3, <1>4, <1>5, <1>6, <1>7, <1>8, <1>9, <1>10, <1>11, <1>12,
     <1>13, <1>14, <1>15 DEF ClientNext, ClientBindStep, ClientCallStep, BindStep,
     CallStep

\* Binds of an id do not overlap, and the first is in step with its global translation.
LEMMA BindStepInv ==
  ASSUME CallInv, [ClientNext]_allVars
  PROVE  BindInv'
<1>t. ClientTypeOK /\ LocalInv /\ BindInv
  BY DEF CallInv, IInv
<1>s. /\ pc \in [Core -> PC] /\ inst \in [Core -> Inst \cup {None}]
      /\ cid \in [Core -> Id \cup {None}] /\ binds \in [Id -> Nat]
      /\ published \subseteq Id /\ mf \in [Id -> {"nullmissmf", "CObjEBBMissFunc", None}]
      /\ arg \in [Id -> Inst \cup {None}]
  BY <1>t DEF ClientTypeOK, GlobalType, RootType, ControlType, CallType, CallInv, HistoryType
<1>p. \A d \in Id : UnboundAt(d) /\ AloneAt(d) /\ FirstAt(d)
  BY <1>t DEF BindInv
<1>l. \A c \in Core : pc[c] # "idle" => cid[c] \in Id
  BY <1>t DEF LocalInv
<1>z. None \notin Id /\ {"idle", "alloc"} \cap {"bind", "invalidate"} = {}
  OBVIOUS
<1>u. CASE UNCHANGED allVars
  BY <1>u, <1>s, <1>p, <1>l DEF allVars, vars, gVars, rootVars, callVars, clientVars,
     BindInv, UnboundAt, AloneAt, FirstAt, Binding
<1>1. ASSUME NEW c \in Core, ClientAlloc(c)
      PROVE  BindInv'
  <2>1. CASE FreeIds(c) = {}
    BY <1>1, <2>1, <1>s, <1>p, <1>l DEF ClientAlloc, AllocId, Goto, gVars, rootVars,
       callVars, clientVars, BindInv, UnboundAt, AloneAt, FirstAt, Binding, FreeIds
  <2>2. CASE ~(FreeIds(c) = {})
    BY <1>1, <2>2, <1>s, <1>p, <1>l DEF ClientAlloc, AllocId, Goto, gVars, rootVars,
       callVars, clientVars, BindInv, UnboundAt, AloneAt, FirstAt, Binding, FreeIds
  <2> QED
    BY <2>1, <2>2
<1>2. ASSUME NEW c \in Core, ClientTake(c)
      PROVE  BindInv'
  BY <1>2, <1>s, <1>p, <1>l DEF ClientTake, TakeId, Goto, gVars, rootVars, callVars,
     clientVars, BindInv, UnboundAt, AloneAt, FirstAt, Binding
<1>3. ASSUME NEW c \in Core, ClientFree(c)
      PROVE  BindInv'
  <2>1. UNCHANGED <<mf, arg, lt, pc, cid, inst, callVars, result, published, binds, current>>
    BY <1>3 DEF ClientFree, FreeId, rootVars
  <2> QED
    BY <2>1, <1>p DEF BindInv, UnboundAt, AloneAt, FirstAt, Binding, callVars
<1>4. ASSUME NEW c \in Core, ClientBind(c)
      PROVE  BindInv'
  <2>1. PICK d \in Id, i \in Inst :
          /\ pc[c] = "idle" /\ pc' = [pc EXCEPT ![c] = "bind"]
          /\ mf' = [mf EXCEPT ![d] = MissFunc(i)]
          /\ cid' = [cid EXCEPT ![c] = d] /\ inst' = [inst EXCEPT ![c] = i]
          /\ result' = [result EXCEPT ![c] = "none"]
          /\ binds' = [binds EXCEPT ![d] = binds[d] + 1] /\ ~BeingBound(d)
          /\ UNCHANGED <<arg, lt, callVars, published, current>>
    BY <1>4 DEF ClientBind, BindId, Goto
  <2>2. \A k \in Core : ~Binding(k, d)
    BY <2>1 DEF BeingBound, Binding
  <2>3. ASSUME NEW e \in Id PROVE (UnboundAt(e) /\ AloneAt(e) /\ FirstAt(e))'
    <3>1. CASE e = d
      BY <1>s, <1>p, <2>1, <2>2, <3>1 DEF callVars, UnboundAt, AloneAt, FirstAt, Binding
    <3>2. CASE e # d
      BY <1>s, <1>p, <2>1, <2>2, <3>2 DEF callVars, UnboundAt, AloneAt, FirstAt, Binding
    <3> QED
      BY <3>1, <3>2
  <2> QED
    BY <2>3 DEF BindInv
<1>5. ASSUME NEW c \in Core, ClientCall(c)
      PROVE  BindInv'
  <2>1. PICK d \in published :
          /\ pc[c] = "idle" /\ pc' = [pc EXCEPT ![c] = "self"]
          /\ cid' = [cid EXCEPT ![c] = d] /\ fn' = [fn EXCEPT ![c] = lt[c][d]]
          /\ obj' = [obj EXCEPT ![c] = None] /\ result' = [result EXCEPT ![c] = "none"]
          /\ UNCHANGED <<mf, arg, lt, inst, rmf, rarg, published, binds, current>>
    BY <1>5 DEF ClientCall, CallId, Goto, gVars, clientVars
  <2>2. d \in Id
    BY <1>s
  <2>3. ASSUME NEW e \in Id PROVE (UnboundAt(e) /\ AloneAt(e) /\ FirstAt(e))'
    <3>1. CASE e = d
      BY <1>s, <1>p, <2>1, <2>2, <3>1 DEF UnboundAt, AloneAt, FirstAt, Binding
    <3>2. CASE e # d
      BY <1>s, <1>p, <2>1, <2>2, <3>2 DEF UnboundAt, AloneAt, FirstAt, Binding
    <3> QED
      BY <3>1, <3>2
  <2> QED
    BY <2>3 DEF BindInv
<1>6. ASSUME NEW c \in Core, BindArg(c), ClientBindStep(c)
      PROVE  BindInv'
  BY <1>6, <1>s, <1>p, <1>l DEF BindArg, ClientBindStep, Goto, gVars, rootVars,
     callVars, clientVars, BindInv, UnboundAt, AloneAt, FirstAt, Binding
<1>7. ASSUME NEW c \in Core, Invalidate(c), ClientBindStep(c)
      PROVE  BindInv'
  BY <1>7, <1>s, <1>p, <1>l DEF Invalidate, ClientBindStep, Goto, gVars, rootVars,
     callVars, clientVars, BindInv, UnboundAt, AloneAt, FirstAt, Binding
<1>8. ASSUME NEW c \in Core, DerefSelf(c), UNCHANGED clientVars
      PROVE  BindInv'
  <2>1. CASE fn[c] # None
    BY <1>8, <2>1, <1>s, <1>p, <1>l DEF DerefSelf, Return, Goto, gVars, rootVars,
       callVars, clientVars, BindInv, UnboundAt, AloneAt, FirstAt, Binding
  <2>2. CASE ~(fn[c] # None)
    BY <1>8, <2>2, <1>s, <1>p, <1>l DEF DerefSelf, Return, Goto, gVars, rootVars,
       callVars, clientVars, BindInv, UnboundAt, AloneAt, FirstAt, Binding
  <2> QED
    BY <2>1, <2>2
<1>9. ASSUME NEW c \in Core, ReadMf(c), UNCHANGED clientVars
      PROVE  BindInv'
  BY <1>9, <1>s, <1>p, <1>l DEF ReadMf, Goto, gVars, rootVars, callVars, clientVars,
     BindInv, UnboundAt, AloneAt, FirstAt, Binding
<1>10. ASSUME NEW c \in Core, ReadArg(c), UNCHANGED clientVars
      PROVE  BindInv'
  BY <1>10, <1>s, <1>p, <1>l DEF ReadArg, Goto, gVars, rootVars, callVars, clientVars,
     BindInv, UnboundAt, AloneAt, FirstAt, Binding
<1>11. ASSUME NEW c \in Core, InvokeMiss(c), UNCHANGED clientVars
      PROVE  BindInv'
  <2>1. /\ UNCHANGED <<mf, arg, cid, inst, published, binds>> /\ pc[c] = "invoke"
        /\ \E q \in {"idle", "lockReps", "cache"} : pc' = [pc EXCEPT ![c] = q]
    <3>1. CASE rmf[c] = "nullmissmf" \/ rarg[c] = None
      BY <1>11, <3>1 DEF InvokeMiss, Return, Goto, gVars, clientVars
    <3>2. CASE ~(rmf[c] = "nullmissmf" \/ rarg[c] = None)
      BY <1>11, <3>2 DEF InvokeMiss, AfterMissFunc, Goto, gVars, clientVars
    <3> QED
      BY <3>1, <3>2
  <2> QED
    BY <1>s, <1>p, <2>1 DEF BindInv, UnboundAt, AloneAt, FirstAt, Binding
<1>12. ASSUME NEW c \in Core, HandleMiss(c), UNCHANGED clientVars
      PROVE  BindInv'
  BY <1>12, <1>s, <1>p, <1>l DEF HandleMiss, Goto, gVars, rootVars, callVars,
     clientVars, BindInv, UnboundAt, AloneAt, FirstAt, Binding
<1>13. ASSUME NEW c \in Core, AddRep(c), UNCHANGED clientVars
      PROVE  BindInv'
  <2>1. CASE FindRepOn(c) # {}
    BY <1>13, <2>1, <1>s, <1>p, <1>l DEF AddRep, Goto, gVars, rootVars, callVars,
       clientVars, BindInv, UnboundAt, AloneAt, FirstAt, Binding
  <2>2. CASE ~(FindRepOn(c) # {})
    BY <1>13, <2>2, <1>s, <1>p, <1>l DEF AddRep, Goto, gVars, rootVars, callVars,
       clientVars, BindInv, UnboundAt, AloneAt, FirstAt, Binding
  <2> QED
    BY <2>1, <2>2
<1>14. ASSUME NEW c \in Core, CacheObj(c), UNCHANGED clientVars
      PROVE  BindInv'
  BY <1>14, <1>s, <1>p, <1>l DEF CacheObj, Goto, gVars, rootVars, callVars, clientVars,
     BindInv, UnboundAt, AloneAt, FirstAt, Binding
<1>15. ASSUME NEW c \in Core, MarkCoreUsed(c), UNCHANGED clientVars
      PROVE  BindInv'
  BY <1>15, <1>s, <1>p, <1>l DEF MarkCoreUsed, Return, Goto, gVars, rootVars, callVars,
     clientVars, BindInv, UnboundAt, AloneAt, FirstAt, Binding
<1> QED
  BY <1>u, <1>1, <1>2, <1>3, <1>4, <1>5, <1>6, <1>7, <1>8, <1>9, <1>10, <1>11, <1>12,
     <1>13, <1>14, <1>15 DEF ClientNext, ClientBindStep, ClientCallStep, BindStep,
     CallStep

\* A step of a call changes what this call has read and the core's own translation.
CallFrame(c) ==
  /\ UNCHANGED <<mf, arg, cid, binds, published, current>>
  /\ pc'[c] \notin {"bind", "invalidate"}
  /\ \A k \in Core : k # c =>
       /\ pc'[k] = pc[k] /\ lt'[k] = lt[k] /\ fn'[k] = fn[k] /\ rmf'[k] = rmf[k]
       /\ rarg'[k] = rarg[k] /\ obj'[k] = obj[k] /\ result'[k] = result[k]
  /\ \A e \in Id : e # cid[c] => lt'[c][e] = lt[c][e]

\* The translation of the id that core c works on, and what c has read, are those of i.
Sound(c, i) ==
  /\ mf[cid[c]] = MissFunc(i) /\ arg[cid[c]] = MissArg(i)
  /\ lt[c][cid[c]] \in {None, RepOf(i, c)}
  /\ ReadAt(c, i)

\* So a call keeps OnceInv if it keeps its own core sound.
LEMMA CallKeepsOnce ==
  ASSUME OnceInv, NEW c \in Core, cid[c] \in Id, CallFrame(c),
         \A i \in Inst : Sound(c, i) => Sound(c, i)'
  PROVE  OnceInv'
<1> SUFFICES ASSUME NEW e \in Id, (binds[e] = 1 /\ e \in published)' PROVE OnceAt(e)'
  BY DEF OnceInv, OnceAt
<1>1. binds[e] = 1 /\ e \in published
  BY DEF CallFrame
<1>2. /\ current[e] \in Inst /\ current'[e] = current[e]
      /\ mf[e] = MissFunc(current[e]) /\ arg[e] = MissArg(current[e])
      /\ mf'[e] = mf[e] /\ arg'[e] = arg[e]
      /\ \A k \in Core : /\ ~Binding(k, e)
                         /\ lt[k][e] \in {None, RepOf(current[e], k)}
                         /\ cid[k] = e => ReadAt(k, current[e])
  BY <1>1 DEF OnceInv, OnceAt, CallFrame
<1>3. ASSUME NEW k \in Core, k # c
      PROVE  /\ ~Binding(k, e)' /\ lt'[k][e] \in {None, RepOf(current[e], k)}
             /\ cid'[k] = e => ReadAt(k, current[e])'
  BY <1>2, <1>3 DEF CallFrame, Binding, ReadAt, Calling
<1>4. /\ ~Binding(c, e)' /\ lt'[c][e] \in {None, RepOf(current[e], c)}
      /\ cid'[c] = e => ReadAt(c, current[e])'
  <2>1. CASE cid[c] = e
    <3>1. Sound(c, current[e])'
      BY <1>2, <2>1 DEF Sound
    <3> QED
      BY <1>2, <2>1, <3>1 DEF Sound, CallFrame, Binding
  <2>2. CASE cid[c] # e
    BY <1>2, <2>2 DEF CallFrame, Binding
  <2> QED
    BY <2>1, <2>2
<1> QED
  BY <1>2, <1>3, <1>4 DEF OnceAt

\* Until the second bind, translation and calls agree with the first.
LEMMA OnceStep ==
  ASSUME CallInv, [ClientNext]_allVars
  PROVE  OnceInv'
<1>t. ClientTypeOK /\ LocalInv /\ PrivateInv /\ BindInv /\ OnceInv /\ HistoryType
  BY DEF CallInv, IInv
<1>s. /\ pc \in [Core -> PC] /\ inst \in [Core -> Inst \cup {None}]
      /\ cid \in [Core -> Id \cup {None}] /\ binds \in [Id -> Nat]
      /\ published \subseteq Id /\ mf \in [Id -> {"nullmissmf", "CObjEBBMissFunc", None}]
      /\ arg \in [Id -> Inst \cup {None}] /\ lt \in [Core -> [Id -> Reps \cup {None}]]
      /\ rarg \in [Core -> Inst \cup {"unread", None}]
      /\ fn \in [Core -> Reps \cup {None}] /\ obj \in [Core -> Reps \cup {None}]
      /\ rmf \in [Core -> {"unread", "nullmissmf", "CObjEBBMissFunc", None}]
      /\ result \in [Core -> Result] /\ current \in [Id -> Inst \cup {None}]
  BY <1>t DEF ClientTypeOK, GlobalType, RootType, ControlType, CallType, HistoryType
<1>p. \A d \in Id : OnceAt(d)
  BY <1>t DEF OnceInv
<1>l. \A c \in Core : pc[c] # "idle" => cid[c] \in Id
  BY <1>t DEF LocalInv
<1>o. \A c \in Core : pc[c] \in {"cache", "mark"} => obj[c] = RepOf(rarg[c], c)
  BY <1>t DEF LocalInv
<1>b. \A d \in Id : UnboundAt(d) /\ FirstAt(d) /\ PrivateAt(d) /\ AloneAt(d)
  BY <1>t DEF PrivateInv, BindInv
<1>u. CASE UNCHANGED allVars
  BY <1>u, <1>s, <1>p, <1>l DEF allVars, vars, gVars, rootVars, callVars, clientVars,
     OnceInv, OnceAt, ReadAt, Binding, Calling
<1>1. ASSUME NEW c \in Core, ClientAlloc(c)
      PROVE  OnceInv'
  <2>1. CASE FreeIds(c) = {}
    BY <1>1, <2>1, <1>s, <1>p, <1>l DEF ClientAlloc, AllocId, Goto, gVars, rootVars,
       callVars, clientVars, OnceInv, OnceAt, ReadAt, Binding, Calling, FreeIds
  <2>2. CASE ~(FreeIds(c) = {})
    BY <1>1, <2>2, <1>s, <1>p, <1>l DEF ClientAlloc, AllocId, Goto, gVars, rootVars,
       callVars, clientVars, OnceInv, OnceAt, ReadAt, Binding, Calling, FreeIds
  <2> QED
    BY <2>1, <2>2
<1>2. ASSUME NEW c \in Core, ClientTake(c)
      PROVE  OnceInv'
  BY <1>2, <1>s, <1>p, <1>l DEF ClientTake, TakeId, Goto, gVars, rootVars, callVars,
     clientVars, OnceInv, OnceAt, ReadAt, Binding, Calling
<1>3. ASSUME NEW c \in Core, ClientFree(c)
      PROVE  OnceInv'
  <2>1. UNCHANGED <<mf, arg, lt, pc, cid, inst, callVars, result, published, binds, current>>
    BY <1>3 DEF ClientFree, FreeId, rootVars
  <2> QED
    BY <2>1, <1>p DEF OnceInv, OnceAt, ReadAt, Binding, Calling, callVars
<1>4. ASSUME NEW c \in Core, ClientBind(c)
      PROVE  OnceInv'
  <2>1. PICK d \in Id, i \in Inst :
          /\ pc[c] = "idle" /\ pc' = [pc EXCEPT ![c] = "bind"]
          /\ mf' = [mf EXCEPT ![d] = MissFunc(i)]
          /\ cid' = [cid EXCEPT ![c] = d] /\ inst' = [inst EXCEPT ![c] = i]
          /\ result' = [result EXCEPT ![c] = "none"]
          /\ binds' = [binds EXCEPT ![d] = binds[d] + 1] /\ ~BeingBound(d)
          /\ UNCHANGED <<arg, lt, callVars, published, current>>
    BY <1>4 DEF ClientBind, BindId, Goto
  <2>2. \A k \in Core : ~Binding(k, d)
    BY <2>1 DEF BeingBound, Binding
  <2>3. ASSUME NEW e \in Id PROVE OnceAt(e)'
    <3>1. CASE e = d
      <4>1. binds'[e] = 1 => e \notin published'
        <5>1. binds[d] \in Nat /\ UnboundAt(d) /\ binds'[d] = binds[d] + 1
          BY <1>s, <1>b, <2>1
        <5>2. binds'[d] = 1 => binds[d] = 0
          BY <5>1
        <5>3. binds[d] = 0 => d \notin published
          BY <5>1 DEF UnboundAt
        <5> QED
          BY <2>1, <3>1, <5>2, <5>3
      <4> QED
        BY <4>1 DEF OnceAt
    <3>2. CASE e # d
      BY <1>s, <1>p, <2>1, <2>2, <3>2 DEF callVars, OnceAt, ReadAt, Binding, Calling
    <3> QED
      BY <3>1, <3>2
  <2> QED
    BY <2>3 DEF OnceInv
<1>5. ASSUME NEW c \in Core, ClientCall(c)
      PROVE  OnceInv'
  <2>1. PICK d \in published :
          /\ pc[c] = "idle" /\ pc' = [pc EXCEPT ![c] = "self"]
          /\ cid' = [cid EXCEPT ![c] = d] /\ fn' = [fn EXCEPT ![c] = lt[c][d]]
          /\ obj' = [obj EXCEPT ![c] = None] /\ result' = [result EXCEPT ![c] = "none"]
          /\ UNCHANGED <<mf, arg, lt, inst, rmf, rarg, published, binds, current>>
    BY <1>5 DEF ClientCall, CallId, Goto, gVars, clientVars
  <2>2. d \in Id
    BY <1>s
  <2>3. ASSUME NEW e \in Id PROVE OnceAt(e)'
    <3>1. CASE e = d
      BY <1>s, <1>p, <2>1, <2>2, <3>1 DEF OnceAt, ReadAt, Binding, Calling
    <3>2. CASE e # d
      BY <1>s, <1>p, <2>1, <2>2, <3>2 DEF OnceAt, ReadAt, Binding, Calling
    <3> QED
      BY <3>1, <3>2
  <2> QED
    BY <2>3 DEF OnceInv
<1>6. ASSUME NEW c \in Core, BindArg(c), ClientBindStep(c)
      PROVE  OnceInv'
  BY <1>6, <1>s, <1>p, <1>l DEF BindArg, ClientBindStep, Goto, gVars, rootVars,
     callVars, clientVars, OnceInv, OnceAt, ReadAt, Binding, Calling
<1>7. ASSUME NEW c \in Core, Invalidate(c), ClientBindStep(c)
      PROVE  OnceInv'
  <2>0. PICK d \in Id, k \in {picId[c]} : d = cid[c]
    BY <1>7, <1>l DEF Invalidate
  <2>1. /\ pc[c] = "invalidate" /\ d \in Id /\ inst[c] \in Inst
        /\ UNCHANGED <<mf, arg, cid, inst, fn, rmf, rarg, obj, result, binds>>
        /\ \E q \in {"idle", "invalidate"} : pc' = [pc EXCEPT ![c] = q]
        /\ lt' = [lt EXCEPT ![k][d] = None] \/ lt' = lt
        /\ IF pc'[c] = "idle" THEN /\ published' = published \cup {d}
                                   /\ current' = [current EXCEPT ![d] = inst[c]]
                              ELSE UNCHANGED <<published, current>>
    BY <1>7, <1>l, <1>t, <2>0 DEF Invalidate, ClientBindStep, Goto, gVars, rootVars, callVars, LocalInv
  <2>b. Binding(c, d)
    BY <2>0, <2>1 DEF Binding
  <2>2. ASSUME NEW e \in Id, e # d, (binds[e] = 1 /\ e \in published)'
        PROVE  OnceAt(e)'
    <3>1. binds[e] = 1 /\ e \in published /\ OnceAt(e) /\ current'[e] = current[e]
      BY <1>p, <1>s, <2>1, <2>2
    <3>2. \A x \in Core : lt'[x][e] = lt[x][e]
      BY <1>s, <2>1, <2>2
    <3>3. \A x \in Core : Binding(x, e)' => Binding(x, e)
      BY <1>s, <2>1 DEF Binding
    <3>4. \A x \in Core : cid[x] = e => x # c /\ pc'[x] = pc[x]
      BY <1>s, <2>0, <2>1, <2>2
    <3> QED
      BY <2>1, <3>1, <3>2, <3>3, <3>4 DEF OnceAt, ReadAt, Calling
  <2>3. ASSUME (binds[d] = 1 /\ d \in published)' PROVE OnceAt(d)'
    <3>1. binds[d] = 1 /\ d \notin published /\ pc'[c] = "idle" /\ current'[d] = inst[c]
      BY <1>p, <1>s, <2>1, <2>3, <2>b DEF OnceAt
    <3>2. mf[d] = MissFunc(inst[c]) /\ arg[d] = MissArg(inst[c])
      BY <1>b, <2>1, <2>b, <3>1 DEF FirstAt
    <3>3. \A x \in Core : lt[x][d] = None /\ (cid[x] = d => ~Calling(x) /\ result[x] # "ran")
      BY <1>b, <2>1, <3>1 DEF PrivateAt
    <3>4. \A x \in Core : Binding(x, d) => x = c
      BY <1>b, <2>1, <2>b DEF AloneAt
    <3>5. ASSUME NEW x \in Core
          PROVE  /\ ~Binding(x, d)' /\ lt'[x][d] = None /\ (cid'[x] = d => ReadAt(x, current[d])')
      <4>1. lt'[x][d] = None
        BY <1>s, <2>1, <3>3
      <4>2. ~Binding(x, d)'
        BY <1>s, <2>1, <3>1, <3>4 DEF Binding
      <4>3. cid[x] = d => ~Calling(x)' /\ result'[x] # "ran"
        BY <1>s, <2>1, <3>3, <3>1 DEF Calling
      <4> QED
        BY <2>1, <4>1, <4>2, <4>3 DEF ReadAt, Calling
    <3> QED
      BY <2>1, <3>1, <3>2, <3>5 DEF OnceAt
  <2>4. \A e \in Id : OnceAt(e)'
    BY <2>2, <2>3 DEF OnceAt
  <2> QED
    BY <2>4 DEF OnceInv
<1>8. ASSUME NEW c \in Core, DerefSelf(c), UNCHANGED clientVars
      PROVE  OnceInv'
  <2>1. CallFrame(c)
    BY <1>8, <1>s DEF DerefSelf, Return, CallFrame, gVars, rootVars, callVars, clientVars, Goto
  <2>2. ASSUME NEW i \in Inst, Sound(c, i) PROVE Sound(c, i)'
    BY <1>8, <1>s, <2>2 DEF DerefSelf, Return, gVars, rootVars, callVars, clientVars, Goto, Sound, ReadAt, Calling
  <2> QED
    BY <1>t, <1>l, <1>8, <2>1, <2>2, CallKeepsOnce DEF DerefSelf
<1>9. ASSUME NEW c \in Core, ReadMf(c), UNCHANGED clientVars
      PROVE  OnceInv'
  <2>1. CallFrame(c)
    BY <1>9, <1>s DEF ReadMf, CallFrame, gVars, rootVars, callVars, clientVars, Goto
  <2>2. ASSUME NEW i \in Inst, Sound(c, i) PROVE Sound(c, i)'
    BY <1>9, <1>s, <2>2 DEF ReadMf, gVars, rootVars, callVars, clientVars, Goto, Sound, ReadAt, Calling
  <2> QED
    BY <1>t, <1>l, <1>9, <2>1, <2>2, CallKeepsOnce DEF ReadMf
<1>10. ASSUME NEW c \in Core, ReadArg(c), UNCHANGED clientVars
      PROVE  OnceInv'
  <2>1. CallFrame(c)
    BY <1>10, <1>s DEF ReadArg, CallFrame, gVars, rootVars, callVars, clientVars, Goto
  <2>2. ASSUME NEW i \in Inst, Sound(c, i) PROVE Sound(c, i)'
    BY <1>10, <1>s, <2>2 DEF ReadArg, gVars, rootVars, callVars, clientVars, Goto, Sound, ReadAt, Calling
  <2> QED
    BY <1>t, <1>l, <1>10, <2>1, <2>2, CallKeepsOnce DEF ReadArg
<1>11. ASSUME NEW c \in Core, InvokeMiss(c), UNCHANGED clientVars
      PROVE  OnceInv'
  <2>1. CallFrame(c)
    BY <1>11, <1>s DEF InvokeMiss, Return, AfterMissFunc, CallFrame, gVars, rootVars, clientVars, Goto
  <2>2. ASSUME NEW i \in Inst, Sound(c, i) PROVE Sound(c, i)'
    <3>1. /\ rmf[c] = MissFunc(i) /\ rarg[c] = MissArg(i) /\ result[c] = "none"
          /\ UNCHANGED <<mf, arg, lt, cid, fn, rmf, rarg>>
      BY <1>11, <2>2 DEF InvokeMiss, Sound, ReadAt, Calling, gVars, rootVars, clientVars
    <3>2. CASE rmf[c] = "nullmissmf" \/ rarg[c] = None
      <4>1. /\ result' = [result EXCEPT ![c] = MissResult(c)] /\ obj' = obj
            /\ pc' = [pc EXCEPT ![c] = "idle"]
        BY <1>11, <3>2 DEF InvokeMiss, Return, Goto
      <4>2. MissResult(c) # "ran"
        BY DEF MissResult
      <4> QED
        BY <1>s, <2>2, <3>1, <4>1, <4>2 DEF Sound, ReadAt, Calling
    <3>3. CASE ~(rmf[c] = "nullmissmf" \/ rarg[c] = None)
      <4>1. rarg[c] = i
        BY <3>1, <3>3 DEF MissArg
      <4>2. /\ result' = result /\ \E q \in {"lockReps", "cache"} : pc' = [pc EXCEPT ![c] = q]
        BY <1>11, <3>3 DEF InvokeMiss, Goto, AfterMissFunc
      <4> QED
        BY <1>s, <2>2, <3>1, <4>1, <4>2 DEF Sound, ReadAt, Calling
    <3> QED
      BY <3>2, <3>3
  <2> QED
    BY <1>t, <1>l, <1>11, <2>1, <2>2, CallKeepsOnce DEF InvokeMiss
<1>12. ASSUME NEW c \in Core, HandleMiss(c), UNCHANGED clientVars
      PROVE  OnceInv'
  <2>1. CallFrame(c)
    BY <1>12, <1>s DEF HandleMiss, CallFrame, gVars, rootVars, callVars, clientVars, Goto
  <2>2. ASSUME NEW i \in Inst, Sound(c, i) PROVE Sound(c, i)'
    BY <1>12, <1>s, <2>2 DEF HandleMiss, gVars, rootVars, callVars, clientVars, Goto, Sound, ReadAt, Calling
  <2> QED
    BY <1>t, <1>l, <1>12, <2>1, <2>2, CallKeepsOnce DEF HandleMiss
<1>13. ASSUME NEW c \in Core, AddRep(c), UNCHANGED clientVars
      PROVE  OnceInv'
  <2>1. CallFrame(c)
    BY <1>13, <1>s DEF AddRep, CallFrame, gVars, rootVars, callVars, clientVars, Goto
  <2>2. ASSUME NEW i \in Inst, Sound(c, i) PROVE Sound(c, i)'
    BY <1>13, <1>s, <2>2 DEF AddRep, gVars, rootVars, callVars, clientVars, Goto, Sound, ReadAt, Calling
  <2> QED
    BY <1>t, <1>l, <1>13, <2>1, <2>2, CallKeepsOnce DEF AddRep
<1>14. ASSUME NEW c \in Core, CacheObj(c), UNCHANGED clientVars
      PROVE  OnceInv'
  <2>1. CallFrame(c)
    BY <1>14, <1>s, <1>o DEF CacheObj, CallFrame, gVars, rootVars, callVars, clientVars, Goto
  <2>2. ASSUME NEW i \in Inst, Sound(c, i) PROVE Sound(c, i)'
    BY <1>14, <1>s, <2>2, <1>o DEF CacheObj, gVars, rootVars, callVars, clientVars, Goto, Sound, ReadAt, Calling
  <2> QED
    BY <1>t, <1>l, <1>14, <2>1, <2>2, CallKeepsOnce DEF CacheObj
<1>15. ASSUME NEW c \in Core, MarkCoreUsed(c), UNCHANGED clientVars
      PROVE  OnceInv'
  <2>1. CallFrame(c)
    BY <1>15, <1>s, <1>o DEF MarkCoreUsed, Return, CallFrame, gVars, rootVars, callVars, clientVars, Goto
  <2>2. ASSUME NEW i \in Inst, Sound(c, i) PROVE Sound(c, i)'
    BY <1>15, <1>s, <2>2, <1>o DEF MarkCoreUsed, Return, gVars, rootVars, callVars, clientVars, Goto, Sound, ReadAt, Calling
  <2> QED
    BY <1>t, <1>l, <1>15, <2>1, <2>2, CallKeepsOnce DEF MarkCoreUsed
<1> QED
  BY <1>u, <1>1, <1>2, <1>3, <1>4, <1>5, <1>6, <1>7, <1>8, <1>9, <1>10, <1>11, <1>12,
     <1>13, <1>14, <1>15 DEF ClientNext, ClientBindStep, ClientCallStep, BindStep,
     CallStep

\* No id is bound, and no call is made, at first.
LEMMA CallInit == ClientInit => CallInv
<1> SUFFICES ASSUME ClientInit PROVE CallInv
  OBVIOUS
<1>1. HistoryType /\ PrivateInv /\ BindInv /\ OnceInv
  BY DEF ClientInit, Init, HistoryType, PrivateInv, PrivateAt, Calling, BindInv, UnboundAt,
     AloneAt, FirstAt, Binding, OnceInv, OnceAt
<1> QED
  BY <1>1, InitInv DEF CallInv

\* A method runs on the instance its id is bound to, and on the event location's own
\* representative of it, for any number of cores that miss and binds that reset the
\* local translations at the same time, as long as this id is bound once.
THEOREM ReachInstance == ClientSpec => []CallsReachInstance
<1>1. ClientInit => CallInv
  BY CallInit
<1>2. CallInv /\ [ClientNext]_allVars => CallInv'
  <2> SUFFICES ASSUME CallInv, [ClientNext]_allVars PROVE CallInv'
    OBVIOUS
  <2>1. IInv'
    BY GlobalStep, RootStep, ControlStep, CallStep1, IdStep, LocalStep, MissStep, RepStep
       DEF CallInv, IInv, ClientTypeOK
  <2> QED
    BY <2>1, HistoryStep, PrivateStep, BindStepInv, OnceStep DEF CallInv
<1>3. CallInv => CallsReachInstance
  <2> SUFFICES ASSUME CallInv, NEW c \in Core, result[c] = "ran", binds[cid[c]] = 1
               PROVE  obj[c] = RepOf(current[cid[c]], c)
    BY DEF CallsReachInstance
  <2>1. CASE cid[c] \in Id
    BY <2>1 DEF CallInv, PrivateInv, PrivateAt, OnceInv, OnceAt, ReadAt
  <2>2. cid[c] \in Id
    BY DEF CallInv, HistoryType
  <2> QED
    BY <2>1, <2>2
<1> QED
  BY <1>1, <1>2, <1>3, PTL DEF ClientSpec

=============================================================================
