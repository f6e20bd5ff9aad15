----------------------------- MODULE EBBTrans -----------------------------
(***************************************************************************)
(* EBB identifiers, their translation and their representatives            *)
(* (l0/sys/trans.c, l0/sys/defFT.c, l0/cobj/CObjEBB*.c, l0/EBBMgrPrim.c).  *)
(*                                                                         *)
(* An id has one global translation, the miss function and its argument,   *)
(* and on every core a local one, which is either the default object whose *)
(* functions take the miss path, or the representative that a miss cached. *)
(* Binding an id writes the global translation and then resets the local   *)
(* translations of all cores, one by one, with no lock: every core may be  *)
(* anywhere in a call meanwhile.                                           *)
(*                                                                         *)
(* This module gives the operations; which core calls what, and when, is   *)
(* said by EBBClients (any core, any time) and BindTst (apps/bindtst).     *)
(***************************************************************************)
EXTENDS Naturals, Sequences, FiniteSets

CONSTANTS NumCores,  \* the cores that will ever start
          Id,        \* the ids of all partitions, in the order of the table
          Owner,     \* Owner[id]: the core whose partition id lies in
          Inst,      \* instances an id can be bound to
          Kind,      \* Kind[i]: "null" (nullmissmf), or the kind of i's root
          None

Core == 0..(NumCores - 1)

\* The representatives: one for the whole root, or one per event location.
Reps == [inst : Inst, el : Core \cup {None}]

ASSUME EBBTransAssumption ==
  /\ NumCores \in Nat \ {0}
  /\ Id \subseteq Nat /\ Owner \in [Id -> Core]
  /\ Kind \in [Inst -> {"null", "shared", "multi"}]
  /\ None \notin Id /\ None \notin Inst /\ None \notin Core /\ None \notin Reps

VARIABLES
  numlpics,      \* pic.numlpics, the cores that have an id
  allocated,     \* the ids whose free field is ALLOCATED
  mf, arg,       \* the global translation of an id
  corebv,        \* corebv[id]: the cores that marked themselves as users
  lt,            \* lt[c][id]: None is the default object, else a representative
  replist,       \* replist[i]: event locations of the root's list, in order
  rootlock,      \* rootlock[i]: the holder of the root's lock
  pc, cid, inst, \* control state of a core, the id and the instance it works on
  fn, rmf, rarg, \* what a call has read: the object of the function table, the
                 \* miss function and its argument
  obj,           \* the representative that handleMiss returns
  view, bv,      \* the list handleMiss saw, the corebv EBBCacheObj saw
  picId,         \* the core the invalidation loop has reached
  result         \* how the last operation, if a call, ended: a method ran on obj

gVars    == <<allocated, mf, arg, corebv>>
rootVars == <<numlpics, replist, rootlock>>   \* nothing here changes numlpics
callVars == <<fn, rmf, rarg, obj, view, bv>>
vars     == <<gVars, lt, rootVars, pc, cid, inst, callVars, picId, result>>

MissFunc(i) == IF Kind[i] = "null" THEN "nullmissmf" ELSE "CObjEBBMissFunc"
MissArg(i)  == IF Kind[i] = "null" THEN None ELSE i

RepOf(i, c) == [inst |-> i, el |-> IF Kind[i] = "multi" THEN c ELSE None]

\* How a call can end: the method ran, or the miss returned EBBRC_NULL; or, which
\* no call should, a null root (or miss function) was dereferenced or a
\* representative's function was applied to the default object.
Result == {"none", "ran", "EBBRC_NULL", "null root", "torn call"}

PC == {"idle", "alloc", "self", "miss", "invoke", "lockReps", "addRep", "cache", "mark",
       "bind", "invalidate"}

TypeOK ==
  /\ numlpics \in 1..NumCores
  /\ allocated \subseteq Id
  /\ mf \in [Id -> {"nullmissmf", "CObjEBBMissFunc", None}]
  /\ arg \in [Id -> Inst \cup {None}]
  /\ corebv \in [Id -> SUBSET Core]
  /\ lt \in [Core -> [Id -> Reps \cup {None}]]
  /\ replist \in [Inst -> Seq(Core)]
  /\ rootlock \in [Inst -> Core \cup {None}]
  /\ pc \in [Core -> PC] /\ cid \in [Core -> Id \cup {None}]
  /\ inst \in [Core -> Inst \cup {None}] /\ fn \in [Core -> Reps \cup {None}]
  /\ rmf \in [Core -> {"unread", "nullmissmf", "CObjEBBMissFunc", None}]
  /\ rarg \in [Core -> Inst \cup {"unread", None}]
  /\ obj \in [Core -> Reps \cup {None}]
  /\ view \in [Core -> Seq(Core)] /\ bv \in [Core -> SUBSET Core]
  /\ picId \in [Core -> Core] /\ result \in [Core -> Result]

\* trans_init has zeroed the partitions and set up the local tables.  Whether
\* all cores have their ids, and whether numlpics changes, the user says.
Init ==
  /\ allocated = {}
  /\ mf = [d \in Id |-> None] /\ arg = [d \in Id |-> None]
  /\ corebv = [d \in Id |-> {}]
  /\ lt = [c \in Core |-> [d \in Id |-> None]]
  /\ replist = [i \in Inst |-> <<>>] /\ rootlock = [i \in Inst |-> None]
  /\ pc = [c \in Core |-> "idle"]    /\ cid = [c \in Core |-> None]
  /\ inst = [c \in Core |-> None]    /\ fn = [c \in Core |-> None]
  /\ rmf = [c \in Core |-> "unread"] /\ rarg = [c \in Core |-> "unread"]
  /\ obj = [c \in Core |-> None]     /\ picId = [c \in Core |-> c]
  /\ view = [c \in Core |-> <<>>]    /\ bv = [c \in Core |-> {}]
  /\ result = [c \in Core |-> "none"]

Goto(c, p) == pc' = [pc EXCEPT ![c] = p]

-----------------------------------------------------------------------------
(* Allocating and binding an id.                                           *)

\* TransEBBIdAlloc searches the caller's own partition, without a lock, for the
\* first id that is not in use, and gives out NULL when there is none ...
\* Mutant: the search runs over the whole table.
FreeAnywhere(c) == {d \in Id : d \notin allocated}
FreeIds(c) == {d \in Id : Owner[d] = c /\ d \notin allocated}

AllocId(c) ==
  /\ pc[c] = "idle"
  /\ \/ /\ FreeIds(c) = {}
        /\ cid' = [cid EXCEPT ![c] = None]
        /\ UNCHANGED pc
     \/ \E d \in FreeIds(c) :
          /\ \A e \in FreeIds(c) : d <= e
          /\ cid' = [cid EXCEPT ![c] = d]
          /\ Goto(c, "alloc")
  /\ result' = [result EXCEPT ![c] = "none"]
  /\ UNCHANGED <<gVars, lt, rootVars, inst, callVars, picId>>

\* ... and writes ALLOCATED into its free field.
TakeId(c) ==
  /\ pc[c] = "alloc"
  /\ allocated' = allocated \cup {cid[c]}
  /\ Goto(c, "idle")
  /\ UNCHANGED <<mf, arg, corebv, lt, rootVars, cid, inst, callVars, picId,
                 result>>

\* TransEBBIdFree writes ALLOCATED into the free field.
FreeId(c, d) ==
  /\ pc[c] = "idle"
  /\ d \in allocated
  /\ allocated' = allocated \cup {d}
  /\ UNCHANGED <<mf, arg, corebv, lt, rootVars, pc, cid, inst, callVars, picId,
                 result>>

\* TransEBBIdBind: the miss function, then its argument ...
BindId(c, d, i) ==
  /\ pc[c] = "idle"
  /\ d \in allocated
  /\ mf' = [mf EXCEPT ![d] = MissFunc(i)]
  /\ cid' = [cid EXCEPT ![c] = d]
  /\ inst' = [inst EXCEPT ![c] = i]
  /\ result' = [result EXCEPT ![c] = "none"]
  /\ Goto(c, "bind")
  /\ UNCHANGED <<allocated, arg, corebv, lt, rootVars, callVars, picId>>

BindArg(c) ==
  /\ pc[c] = "bind"
  /\ arg' = [arg EXCEPT ![cid[c]] = MissArg(inst[c])]
  /\ picId' = [picId EXCEPT ![c] = c]
  /\ Goto(c, "invalidate")
  /\ UNCHANGED <<allocated, mf, corebv, lt, rootVars, cid, inst, callVars,
                 result>>

\* trans_test_core_used computes corebv | mask, which is never 0.
\* Mutant: corebv & mask.
CoreIsMarked(d, k) == k \in corebv[d]
TestCoreUsed(d, k) == TRUE

\* lrt_pic_getnextlpic.  Mutant: it does not wrap around.
NextPicNoWrap(k) == k + 1
NextPic(k) == (k + 1) % numlpics

\* ... then the local translations, beginning with the binder's own.
Invalidate(c) ==
  LET k == picId[c] IN
  /\ pc[c] = "invalidate"
  /\ lt' = IF TestCoreUsed(cid[c], k) THEN [lt EXCEPT ![k][cid[c]] = None]
                                      ELSE lt
  /\ picId' = [picId EXCEPT ![c] = NextPic(k)]
  /\ Goto(c, IF NextPic(k) = c THEN "idle" ELSE "invalidate")
  /\ UNCHANGED <<gVars, rootVars, cid, inst, callVars, result>>

-----------------------------------------------------------------------------
(* COBJ_EBBCALL(id, method): the macro dereferences the id twice.           *)

\* EBBId_DREF(id)->ft: the object whose function table is used.
CallId(c, d) ==
  /\ pc[c] = "idle"
  /\ cid' = [cid EXCEPT ![c] = d]
  /\ fn' = [fn EXCEPT ![c] = lt[c][d]]
  /\ obj' = [obj EXCEPT ![c] = None]
  /\ result' = [result EXCEPT ![c] = "none"]
  /\ Goto(c, "self")
  /\ UNCHANGED <<gVars, lt, rootVars, inst, rmf, rarg, view, bv, picId>>

\* The call ends with result r.
Return(c, r) == result' = [result EXCEPT ![c] = r] /\ Goto(c, "idle")

SelfResult(c) == IF lt[c][cid[c]] = None THEN "torn call" ELSE "ran"

\* The second EBBId_DREF(id) is the method's self.  A representative's function
\* runs; the default object's takes the miss path, GenericDefaultFunc.
DerefSelf(c) ==
  /\ pc[c] = "self"
  /\ \/ /\ fn[c] # None
        /\ Return(c, SelfResult(c))
        /\ obj' = [obj EXCEPT ![c] = fn[c]]
        /\ UNCHANGED <<rmf, rarg>>
     \/ /\ fn[c] = None
        /\ rmf' = [rmf EXCEPT ![c] = "unread"]
        /\ rarg' = [rarg EXCEPT ![c] = "unread"]
        /\ Goto(c, "miss")
        /\ UNCHANGED <<obj, result>>
  /\ UNCHANGED <<gVars, lt, rootVars, cid, inst, fn, view, bv, picId>>

\* gt->mf(_self, self, fnum, gt->arg): C leaves open which is read first.
ReadMf(c) ==
  /\ pc[c] = "miss" /\ rmf[c] = "unread"
  /\ rmf' = [rmf EXCEPT ![c] = mf[cid[c]]]
  /\ Goto(c, IF rarg[c] = "unread" THEN "miss" ELSE "invoke")
  /\ UNCHANGED <<gVars, lt, rootVars, cid, inst, fn, rarg, obj, view, bv,
                 picId, result>>

ReadArg(c) ==
  /\ pc[c] = "miss" /\ rarg[c] = "unread"
  /\ rarg' = [rarg EXCEPT ![c] = arg[cid[c]]]
  /\ Goto(c, IF rmf[c] = "unread" THEN "miss" ELSE "invoke")
  /\ UNCHANGED <<gVars, lt, rootVars, cid, inst, fn, rmf, obj, view, bv,
                 picId, result>>

MissResult(c) == IF rmf[c] = "nullmissmf" THEN "EBBRC_NULL" ELSE "null root"
AfterMissFunc(i) == IF Kind[i] = "multi" THEN "lockReps" ELSE "cache"

\* The miss function runs: nullmissmf fails the call; CObjEBBMissFunc calls the
\* root's handleMiss, which for a shared root goes straight to EBBCacheObj.
InvokeMiss(c) ==
  /\ pc[c] = "invoke"
  /\ \/ /\ rmf[c] = "nullmissmf" \/ rarg[c] = None
        /\ Return(c, MissResult(c))
        /\ UNCHANGED obj
     \/ /\ rmf[c] = "CObjEBBMissFunc" /\ rarg[c] # None
        /\ obj' = [obj EXCEPT ![c] = RepOf(rarg[c], None)]
        /\ Goto(c, AfterMissFunc(rarg[c]))
        /\ UNCHANGED result
  /\ UNCHANGED <<gVars, lt, rootVars, cid, inst, fn, rmf, rarg, view, bv, picId>>

\* CObjEBBRootMulti's handleMiss: lockReps and read the list ...
\* Mutant: the list is read without the lock.
NoLockReps(i) == TRUE
LockReps(i) == rootlock[i] = None

HandleMiss(c) ==
  /\ pc[c] = "lockReps"
  /\ LockReps(rarg[c])
  /\ rootlock' = [rootlock EXCEPT ![rarg[c]] = c]
  /\ view' = [view EXCEPT ![c] = replist[rarg[c]]]
  /\ Goto(c, "addRep")
  /\ UNCHANGED <<gVars, lt, numlpics, replist, cid, inst, fn, rmf, rarg, obj,
                 bv, picId, result>>

\* ... find the representative of this event location, or create it and put it
\* in front of the list; unlockReps.
\* Mutant: whatever heads the list is taken.
FindAnyRep(c) == {view[c][n] : n \in DOMAIN view[c] \cap {1}}
FindRepOn(c) == {view[c][n] : n \in DOMAIN view[c]} \cap {c}

AddRep(c) ==
  LET i == rarg[c] IN
  /\ pc[c] = "addRep"
  /\ \/ \E el \in FindRepOn(c) :
          /\ obj' = [obj EXCEPT ![c] = RepOf(i, el)]
          /\ UNCHANGED replist
     \/ /\ FindRepOn(c) = {}
        /\ obj' = [obj EXCEPT ![c] = RepOf(i, c)]
        /\ replist' = [replist EXCEPT ![i] = <<c>> \o view[c]]
  /\ rootlock' = [rootlock EXCEPT ![i] = None]
  /\ view' = [view EXCEPT ![c] = <<>>]
  /\ Goto(c, "cache")
  /\ UNCHANGED <<gVars, lt, numlpics, cid, inst, fn, rmf, rarg, bv, picId,
                 result>>

\* EBBCacheObj: install the representative in the local translation ...
CacheObj(c) ==
  /\ pc[c] = "cache"
  /\ lt' = [lt EXCEPT ![c][cid[c]] = obj[c]]
  /\ bv' = [bv EXCEPT ![c] = corebv[cid[c]]]
  /\ Goto(c, "mark")
  /\ UNCHANGED <<gVars, rootVars, cid, inst, fn, rmf, rarg, obj, view, picId,
                 result>>

\* ... and mark the core in corebv, a read (above) and a write; the stub then
\* calls the method on the representative.
MarkCoreUsed(c) ==
  /\ pc[c] = "mark"
  /\ corebv' = [corebv EXCEPT ![cid[c]] = bv[c] \cup {c}]
  /\ bv' = [bv EXCEPT ![c] = {}]
  /\ Return(c, "ran")
  /\ UNCHANGED <<allocated, mf, arg, lt, rootVars, cid, inst, fn, rmf, rarg,
                 obj, view, picId>>

-----------------------------------------------------------------------------
BindStep(c) == BindArg(c) \/ Invalidate(c)
CallStep(c) == \/ DerefSelf(c) \/ ReadMf(c) \/ ReadArg(c) \/ InvokeMiss(c)
               \/ HandleMiss(c) \/ AddRep(c) \/ CacheObj(c) \/ MarkCoreUsed(c)

-----------------------------------------------------------------------------
\* An event location has at most one representative of an instance, although
\* several cores miss on it at the same time (handleMiss under lockReps), and the
\* list of a root loses none: a cached representative is in the list.
OneRepPerEL ==
  \A i \in Inst :
    /\ \A m, n \in DOMAIN replist[i] : replist[i][m] = replist[i][n] => m = n
    /\ \A c \in Core, d \in Id : lt[c][d] = RepOf(i, c) /\ Kind[i] = "multi" =>
         \E n \in DOMAIN replist[i] : replist[i][n] = c

\* No call goes wrong: a miss never finds CObjEBBMissFunc with a null root, and
\* a representative's function is never applied to the default object.
CallsAreWhole == \A c \in Core : result[c] \notin {"null root", "torn call"}
=============================================================================
