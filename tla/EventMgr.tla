----------------------------- MODULE EventMgr -----------------------------
(***************************************************************************)
(* Device vectors: the vector tables of the PIC (l0/lrt/ulnx/pic.c), the   *)
(* descriptors behind them (pic-unix.c) and the event tables above them    *)
(* (l0/EventMgrPrimImp.c).  A vector is allocated and mapped globally,     *)
(* under pic.lock; it is turned on and off globally (eventEnable and       *)
(* eventDisable), enabled and dispatched by each core for itself.  A core  *)
(* builds its fd sets without any lock, and is signalled after each change.*)
(*                                                                         *)
(* IPIs and resets are the subject of MsgMgr.  This module gives the       *)
(* operations and the event loop; ConsTst says who calls what.             *)
(***************************************************************************)
EXTENDS Integers, FiniteSets, FiniteSetsExt

CONSTANTS NumCores,   \* the cores that will ever start
          NumVec,     \* NUM_MAPPABLE_VEC
          Handlers,   \* EBB ids that handle events
          Funcs,      \* function numbers
          None        \* a null id, a free lock

Core == 0..(NumCores - 1)
Vec  == 0..(NumVec - 1)

ASSUME EventMgrAssumption ==
  /\ NumCores \in Nat \ {0} /\ NumVec \in Nat \ {0}
  /\ None \notin Core /\ None \notin Vec /\ None \notin Handlers
  /\ {"NOFUNCNUM", "uninitialized"} \cap Funcs = {}

VARIABLES
  numlpics, lastid,   \* pic.numlpics, lrt_pic_lastid
  lcore,              \* the cores that have set their lcore
  piclock,            \* pic.lock
  gvecs, free,        \* pic.gvecs ("null", "allocated" for -1, "mapped"), pic.free
  lvecs, enabled,     \* of each core's LPic: its vectors, the enabled ones
  fds,                \* the vectors with a device in upic's rfds, wfds or efds
  on, maxfd,          \* upic.enabled, upic.maxfd (NoFd: 0)
  sig,                \* the cores with a SIGINT pending
  master, mlock,      \* theEventMgrPrimMaster and its lock
  reps,               \* the event locations in the root's list
  handlerInfo,        \* handlerInfo[c][v] of core c's representative
  pc, ev,             \* control state of a core, the vector it works on
  cur,                \* the vector whose handler the core runs
  fdset, intrSet,     \* the descriptors it waits for, those it found ready
  aborted             \* an assertion failed, or pthread_kill had no thread

picVars  == <<numlpics, lastid, lcore, piclock, gvecs, free, lvecs>>
unixVars == <<fds, on, maxfd>>
mgrVars  == <<master, mlock, reps, handlerInfo>>
loopVars == <<cur, fdset, intrSet>>
evVars   == <<picVars, enabled, unixVars, sig, mgrVars, pc, ev, loopVars, aborted>>

NoFd == -1
Info == [id : Handlers \cup {None}, fn : Funcs \cup {"NOFUNCNUM", "uninitialized"}]
NoInfo == [id |-> None, fn |-> "NOFUNCNUM"]

\* "idle" is inside client code: its start, or the handler of vector cur.
\* "vecs" without ready vectors is blockforinterrupt, at vector ev.
PC == {"off", "lcore", "lvecs", "createRep", "addRepOn", "idle", "mapvec", "newmax",
       "nfds", "pselect", "vecs"}

EvTypeOK ==
  /\ numlpics \in 0..NumCores /\ lastid \in Core /\ lcore \subseteq Core
  /\ piclock \in Core \cup {None} /\ mlock \in Core \cup {None}
  /\ gvecs \in [Vec -> {"null", "allocated", "mapped"}] /\ free \in Vec
  /\ lvecs \in [Core -> [Vec -> {"null", "allocated", "mapped"}]]
  /\ enabled \in [Core -> SUBSET Vec] /\ fds \subseteq Vec /\ on \subseteq Vec
  /\ maxfd \in Vec \cup {NoFd} /\ sig \subseteq Core
  /\ master \in Core \cup {None} /\ reps \subseteq Core
  /\ handlerInfo \in [Core -> [Vec -> Info]]
  /\ pc \in [Core -> PC] /\ ev \in [Core -> Vec \cup {None}]
  /\ cur \in [Core -> Vec \cup {None}]
  /\ fdset \in [Core -> SUBSET Vec] /\ intrSet \in [Core -> SUBSET Vec]
  /\ aborted \in BOOLEAN

EvInit ==
  /\ numlpics = 0 /\ lastid = 0 /\ lcore = {} /\ piclock = None
  /\ gvecs = [v \in Vec |-> "null"] /\ free = 0
  /\ lvecs = [c \in Core |-> gvecs] /\ enabled = [c \in Core |-> {}]
  /\ fds = {} /\ on = {} /\ maxfd = NoFd /\ sig = {}
  /\ master = None /\ mlock = None /\ reps = {}
  /\ handlerInfo = [c \in Core |-> [v \in Vec |-> NoInfo]]
  /\ pc = [c \in Core |-> "off"] /\ ev = [c \in Core |-> None]
  /\ cur = [c \in Core |-> None]
  /\ fdset = [c \in Core |-> {}] /\ intrSet = [c \in Core |-> {}]
  /\ aborted = FALSE

At(c, p)   == pc[c] = p /\ ~aborted
Goto(c, p) == pc' = [pc EXCEPT ![c] = p]
Unlocked(l) == l = None      \* a spin lock is waited for

-----------------------------------------------------------------------------
(* A core starts.  Threads are created by core 0, before it starts L0.     *)

\* The id is the old value of numlpics, and lrt_pic_lastid is raised to it (the
\* CAS loop); the first core runs alone.
AllocateCoreId(c) ==
  /\ At(c, "off")
  /\ numlpics = c /\ (c > 0 => pc[0] \notin {"lcore", "lvecs"})
  /\ numlpics' = c + 1
  /\ lastid' = Max({lastid, c})
  /\ Goto(c, "lcore")
  /\ UNCHANGED <<lcore, piclock, gvecs, free, lvecs, enabled, unixVars, sig, mgrVars,
                 ev, loopVars, aborted>>

SetLcore(c) ==
  /\ At(c, "lcore")
  /\ lcore' = lcore \cup {c}
  /\ Goto(c, "lvecs")
  /\ UNCHANGED <<numlpics, lastid, piclock, gvecs, free, lvecs, enabled, unixVars, sig,
                 mgrVars, ev, loopVars, aborted>>

\* The vectors a new core starts with.  Mutant: none, mapvec will bring them.
NoVecs(c) == lvecs[c]
StartVecs(c) == gvecs

CopyVecs(c) ==
  /\ At(c, "lvecs") /\ Unlocked(piclock)
  /\ lvecs' = [lvecs EXCEPT ![c] = StartVecs(c)]
  /\ Goto(c, "createRep")
  /\ UNCHANGED <<numlpics, lastid, lcore, piclock, gvecs, free, enabled, unixVars, sig,
                 mgrVars, ev, loopVars, aborted>>

\* EventMgrPrimImp_createRep.  The first one is the master; the others copy the
\* ids, and not the function numbers, of its table under its lock.
CreateRep(c) ==
  /\ At(c, "createRep")
  /\ \/ /\ master = None
        /\ master' = c
        /\ UNCHANGED handlerInfo
     \/ /\ master # None /\ Unlocked(mlock)
        /\ handlerInfo' = [handlerInfo EXCEPT ![c] = [v \in Vec |->
                             [id |-> handlerInfo[master][v].id, fn |-> "uninitialized"]]]
        /\ UNCHANGED master
  /\ Goto(c, "addRepOn")
  /\ UNCHANGED <<picVars, enabled, unixVars, sig, mlock, reps, ev, loopVars,
                 aborted>>

AddRepOn(c) ==
  /\ At(c, "addRepOn")
  /\ reps' = reps \cup {c}
  /\ Goto(c, "idle")
  /\ UNCHANGED <<picVars, enabled, unixVars, sig, master, mlock, handlerInfo, ev,
                 loopVars, aborted>>

-----------------------------------------------------------------------------
(* The operations, each called from client code.  Every caller asserts that *)
(* they succeed, so a failure ends the process.                            *)

\* lrt_pic_allocvec searches once round from pic.free, which moves on by one
\* whatever it found.
NullVecs == {v \in Vec : gvecs[v] = "null"}
Distance(v) == (v - free) % NumVec
Nearest == CHOOSE v \in NullVecs : \A w \in NullVecs : Distance(v) <= Distance(w)

\* Mutant: it runs over the end.
OverEnd == free + 1
NextFree == (free + 1) % NumVec

AllocEventNo(c) ==
  /\ At(c, "idle") /\ Unlocked(piclock)
  /\ NullVecs # {}
  /\ gvecs' = [gvecs EXCEPT ![Nearest] = "allocated"]
  /\ free' = NextFree
  /\ UNCHANGED <<numlpics, lastid, lcore, piclock, lvecs, enabled, unixVars, sig, mgrVars,
                 pc, ev, loopVars, aborted>>

\* lockedReplicateHandler, on the representatives of the root's list.  Mutant: the
\* master's table is all there is.
MasterOnly(hi, v, i) == hi
Replicated(hi, v, i) == [c \in Core |-> IF c \in reps THEN [hi[c] EXCEPT ![v] = i] ELSE hi[c]]

\* registerHandler, until it calls the PIC with the master's lock held.
RegisterHandler(c, v, i) ==
  /\ At(c, "idle") /\ Unlocked(mlock)
  /\ aborted' = (handlerInfo[master][v].id # None)
  /\ handlerInfo' = Replicated([handlerInfo EXCEPT ![master][v] = i], v, i)
  /\ mlock' = c
  /\ ev' = [ev EXCEPT ![c] = v]
  /\ Goto(c, "mapvec")
  /\ UNCHANGED <<picVars, enabled, unixVars, sig, master, reps, loopVars>>

\* The cores mapvec and the wake-ups go through; each must have its thread, for
\* mapvec's assertion and for pthread_kill.
KnownCores == 0..lastid
AllHaveThreads == KnownCores \subseteq lcore

\* lrt_pic_mapvec of an allocated vector, and the rest of registerHandler; dup2
\* may fail.
MapVec(c) ==
  LET v == ev[c] IN
  /\ At(c, "mapvec") /\ Unlocked(piclock)
  /\ gvecs' = [gvecs EXCEPT ![v] = "mapped"]
  /\ lvecs' = [d \in Core |-> IF d \in KnownCores THEN [lvecs[d] EXCEPT ![v] = "mapped"]
                              ELSE lvecs[d]]
  /\ \E opened \in SUBSET {v} :      \* by dup2
       fds' = fds \cup opened /\ aborted' = ~(opened # {} /\ AllHaveThreads)
  /\ mlock' = None
  /\ enabled' = [enabled EXCEPT ![c] = @ \cup {v}]
  /\ ev' = [ev EXCEPT ![c] = None]
  /\ Goto(c, "idle")
  /\ UNCHANGED <<numlpics, lastid, lcore, piclock, free, on, maxfd, sig, master, reps,
                 handlerInfo, loopVars>>

\* The cores that are signalled after a change.  Mutant: only the caller's.
WakeSelf(c) == {c}
Woken(c) == KnownCores
WakeUp(c) == sig' = sig \cup Woken(c) /\ aborted' = ~AllHaveThreads

\* Mutant: maxfd is left as it was.
OldMax(v) == maxfd
RaisedMax(v) == Max({maxfd, v})

\* eventEnable and eventDisable of an allocated vector, under pic.lock.  Turning
\* off the highest one leaves maxfd 0 until the new highest is found.
EventEnable(c, v) ==
  /\ At(c, "idle") /\ Unlocked(piclock)
  /\ gvecs[v] # "null"
  /\ on' = on \cup {v}
  /\ maxfd' = RaisedMax(v)
  /\ WakeUp(c)
  /\ UNCHANGED <<picVars, enabled, fds, mgrVars, pc, ev, loopVars>>

EventDisable(c, v) ==
  /\ At(c, "idle") /\ Unlocked(piclock)
  /\ gvecs[v] # "null"
  /\ on' = on \ {v}
  /\ IF v = maxfd
     THEN /\ maxfd' = NoFd /\ piclock' = c /\ Goto(c, "newmax")
          /\ UNCHANGED <<sig, aborted>>
     ELSE WakeUp(c) /\ UNCHANGED <<maxfd, piclock, pc>>
  /\ UNCHANGED <<numlpics, lastid, lcore, gvecs, free, lvecs, enabled, fds, mgrVars, ev,
                 loopVars>>

NewMax(c) ==
  /\ At(c, "newmax")
  /\ maxfd' = Max(on \cup {NoFd})
  /\ WakeUp(c)
  /\ piclock' = None
  /\ Goto(c, "idle")
  /\ UNCHANGED <<numlpics, lastid, lcore, gvecs, free, lvecs, enabled, fds, on, mgrVars, ev,
                 loopVars>>

-----------------------------------------------------------------------------
(* lrt_pic_loop.                                                           *)

\* Client code returns to the loop: dispatchEventLocal enables the vector again.
Enabled(c) == IF cur[c] = None THEN enabled[c] ELSE enabled[c] \cup {cur[c]}

HandlerReturns(c) ==
  /\ At(c, "idle")
  /\ enabled' = [enabled EXCEPT ![c] = Enabled(c)]
  /\ cur' = [cur EXCEPT ![c] = None]
  /\ Goto(c, "vecs")
  /\ UNCHANGED <<picVars, unixVars, sig, mgrVars, ev, fdset, intrSet, aborted>>

\* blockforinterrupt builds its sets from what is on, one vector after the other and
\* without a lock, up to what maxfd is when it looks ...
BlockForInterrupt(c) ==
  LET v == IF ev[c] = None THEN 0 ELSE ev[c] IN
  /\ At(c, "vecs") /\ intrSet[c] = {}
  /\ fdset' = [fdset EXCEPT ![c] = @ \cup {w \in {v} \cap on \cap fds : w <= maxfd}]
  /\ IF v <= maxfd /\ v + 1 \in Vec
     THEN ev' = [ev EXCEPT ![c] = v + 1] /\ UNCHANGED pc
     ELSE ev' = [ev EXCEPT ![c] = None] /\ Goto(c, "nfds")
  /\ UNCHANGED <<picVars, enabled, unixVars, sig, mgrVars, cur, intrSet, aborted>>

\* ... and has pselect look at so many of them as maxfd is then.
Select(c) ==
  /\ At(c, "nfds")
  /\ fdset' = [fdset EXCEPT ![c] = {v \in @ : v <= maxfd}]
  /\ Goto(c, "pselect")
  /\ UNCHANGED <<picVars, enabled, unixVars, sig, mgrVars, ev, cur, intrSet, aborted>>

\* pselect ends with EINTR.
Interrupted(c) ==
  /\ At(c, "pselect")
  /\ c \in sig
  /\ sig' = sig \ {c}
  /\ fdset' = [fdset EXCEPT ![c] = {}]
  /\ Goto(c, "vecs")
  /\ UNCHANGED <<picVars, enabled, unixVars, mgrVars, ev, cur, intrSet, aborted>>

\* pselect finds descriptors of ready, and leaves a signal pending (SIGINT is blocked
\* but in pselect); maxfd is read again for the scan.
DeviceReady(c, ready) ==
  /\ At(c, "pselect")
  /\ fdset[c] \cap ready # {}
  /\ intrSet' = [intrSet EXCEPT ![c] = {v \in fdset[c] \cap ready : v <= maxfd}]
  /\ fdset' = [fdset EXCEPT ![c] = {}]
  /\ Goto(c, "vecs")
  /\ UNCHANGED <<picVars, enabled, unixVars, sig, mgrVars, ev, cur, aborted>>

\* The next ready vector, if this core has it enabled, is disabled and dispatched
\* (a null one is only reported); the event manager asserts that it has a handler.
DispatchEventLocal(c) ==
  LET v == Min(intrSet[c])
      called == v \in enabled[c] /\ lvecs[c][v] # "null"
  IN /\ At(c, "vecs") /\ intrSet[c] # {}
     /\ intrSet' = [intrSet EXCEPT ![c] = @ \ {v}]
     /\ enabled' = [enabled EXCEPT ![c] = @ \ {v}]
     /\ cur' = [cur EXCEPT ![c] = IF called THEN v ELSE None]
     /\ Goto(c, IF called THEN "idle" ELSE "vecs")
     /\ aborted' = (called /\ (lvecs[c][v] # "mapped" \/ handlerInfo[c][v].id = None))
     /\ UNCHANGED <<picVars, unixVars, sig, mgrVars, ev, fdset>>

\* What a core does outside client code, until a device is ready.
CoreStep(c) ==
  \/ AllocateCoreId(c) \/ SetLcore(c) \/ CopyVecs(c) \/ CreateRep(c) \/ AddRepOn(c)
  \/ MapVec(c) \/ NewMax(c) \/ BlockForInterrupt(c)
  \/ Select(c) \/ Interrupted(c)

-----------------------------------------------------------------------------
\* "all other interrupts are globally allocated and are the same on all ELs": the
\* PIC of every core that has its vectors calls what was mapped, although cores
\* start while vectors are mapped.
VectorsAgree ==
  ~aborted => \A c \in Core, v \in Vec :
    pc[c] \notin {"off", "lcore", "lvecs"} /\ gvecs[v] = "mapped"
      => lvecs[c][v] = "mapped"

\* A core that waits in pselect waits for all vectors that are on, or is going to
\* be signalled: it built its fd sets without a lock, perhaps from a maxfd of 0.
NoDeafCore ==
  \A c \in Core : pc[c] = "pselect" /\ fdset[c] # on \cap fds /\ ~aborted
    => c \in sig \/ \E d \in Core : pc[d] = "newmax"
=============================================================================
