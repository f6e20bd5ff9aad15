------------------------------ MODULE BindTst ------------------------------
(***************************************************************************)
(* apps/bindtst/bindtst.c: all cores run BindTst_start, separated into     *)
(* phases by a sense-reversing barrier.  Core 0, the master, binds a       *)
(* service id to the null instance, then to s0, then to s1; after each     *)
(* bind every core calls the id and checks which instance answered.  The   *)
(* allocs, binds and calls are those of EBBTrans, step by step.            *)
(***************************************************************************)
EXTENDS EBBTrans

CONSTANTS JoinFirst   \* TRUE: every core has its id before core 0 gets here

ASSUME BindTstAssumption ==
  /\ JoinFirst \in BOOLEAN
  /\ Inst = {"null", "s0", "s1"}

VARIABLES ip,        \* ip[c]: the statement core c is at
          phase,     \* where core c is in that statement
          cores,     \* what the cores other than 0 wait for
          parties, count, sense,   \* the barrier
          mysense,   \* mysense[c]: the sense of core c's thread
          ids,       \* L0Info.NULLId and ServiceInfo.theId
          passed,    \* the cores whose every call gave what was expected
          exited     \* lrt_exit(0)

barVars == <<parties, count, sense, mysense>>
tstVars == <<ip, phase, cores, barVars, ids, passed, exited>>
allVars == <<vars, tstVars>>

Barrier      == [op |-> "barrier"]
Alloc(d)     == [op |-> "alloc", id |-> d]
Bind(d, i)   == [op |-> "bind", id |-> d, inst |-> i]
Call(d, res) == [op |-> "call", id |-> d, expect |-> res]

\* BindTst_start from its first barrier on.  Alloc and Bind are the master's.
Program == <<
  Barrier, Alloc("NULLId"), Bind("NULLId", "null"),
  Barrier, Call("NULLId", "EBBRC_NULL"), Alloc("theId"), Bind("theId", "null"),
  Barrier, Call("theId", "EBBRC_NULL"),
  Barrier, Bind("theId", "s0"),
  Barrier, Call("theId", "s0"),
  Barrier, Bind("theId", "s1"),
  Barrier, Call("theId", "s1"),
  Barrier >>

TstInit ==
  /\ Init /\ numlpics = 1
  /\ ip = [c \in Core |-> 0] /\ phase = [c \in Core |-> "ready"]
  /\ cores = 0 /\ parties = 0 /\ count = 0 /\ sense = FALSE
  /\ mysense = [c \in Core |-> FALSE]
  /\ ids = [d \in {"NULLId", "theId"} |-> None]
  /\ passed = Core /\ exited = FALSE

Running(c) == c < numlpics /\ ~exited

\* Core c is at phase p of a statement op.
At(c, op, p) ==
  /\ Running(c) /\ ip[c] \in DOMAIN Program
  /\ Program[ip[c]].op = op /\ phase[c] = p

Phase(c, p) == phase' = [phase EXCEPT ![c] = p] /\ UNCHANGED ip
NextStatement(c) ==
  /\ ip' = [ip EXCEPT ![c] = @ + 1]
  /\ phase' = [phase EXCEPT ![c] = "ready"]

-----------------------------------------------------------------------------
\* lrt_pic_allocate_core_id on another core's thread.
Join ==
  /\ numlpics < NumCores /\ ~exited
  /\ numlpics' = numlpics + 1
  /\ UNCHANGED <<gVars, lt, replist, rootlock, pc, cid, inst, callVars, picId, result,
                 tstVars>>

\* Core 0: init_barrier(&bar, EventMgr_NumEL()) ...
InitBarrier ==
  /\ ip[0] = 0 /\ phase[0] = "ready"
  /\ JoinFirst => numlpics = NumCores
  /\ parties' = numlpics /\ count' = numlpics /\ sense' = FALSE
  /\ Phase(0, "cores")
  /\ UNCHANGED <<vars, cores, mysense, ids, passed, exited>>

\* ... and cores = EventMgr_NumEL(), which unblocks the others.
SetCores ==
  /\ ip[0] = 0 /\ phase[0] = "cores"
  /\ cores' = numlpics
  /\ NextStatement(0)
  /\ UNCHANGED <<vars, barVars, ids, passed, exited>>

WaitForCores(c) ==
  /\ c # 0 /\ Running(c) /\ ip[c] = 0
  /\ cores # 0
  /\ NextStatement(c)
  /\ UNCHANGED <<vars, cores, barVars, ids, passed, exited>>

-----------------------------------------------------------------------------
(* barrier(): the last to arrive resets the count and flips the sense.     *)

\* Mutant: the thread's sense is not reversed.
SenseKept(c) == TRUE
Reversed(c) == ~mysense[c]

\* __sync_fetch_and_sub(&b->count, 1) == 1.  Mutant: compared with 0.
LastIsZero == count = 0
LastToArrive == count = 1

Arrive(c) ==
  /\ At(c, "barrier", "ready")
  /\ mysense' = [mysense EXCEPT ![c] = Reversed(c)]
  /\ count' = count - 1
  /\ Phase(c, IF LastToArrive THEN "reset" ELSE "spin")
  /\ UNCHANGED <<vars, cores, parties, sense, ids, passed, exited>>

ResetCount(c) ==
  /\ At(c, "barrier", "reset")
  /\ count' = parties
  /\ Phase(c, "flip")
  /\ UNCHANGED <<vars, cores, parties, sense, mysense, ids, passed, exited>>

FlipSense(c) ==
  /\ At(c, "barrier", "flip")
  /\ sense' = mysense[c]
  /\ NextStatement(c)
  /\ UNCHANGED <<vars, cores, parties, count, mysense, ids, passed, exited>>

SpinOnSense(c) ==
  /\ At(c, "barrier", "spin")
  /\ sense = mysense[c]
  /\ NextStatement(c)
  /\ UNCHANGED <<vars, cores, barVars, ids, passed, exited>>

-----------------------------------------------------------------------------
(* The other statements start an operation of EBBTrans and wait for its end. *)

NotMaster(c) ==
  /\ c # 0
  /\ At(c, "alloc", "ready") \/ At(c, "bind", "ready")
  /\ NextStatement(c)
  /\ UNCHANGED <<vars, cores, barVars, ids, passed, exited>>

\* A call of an id nobody has allocated yet dereferences a null pointer; c then
\* stays in phase "crash".
StartOp(c) ==
  /\ \/ c = 0 /\ At(c, "alloc", "ready") /\ AllocId(c) /\ Phase(c, "run")
     \/ /\ c = 0 /\ At(c, "bind", "ready")
        /\ BindId(c, ids[Program[ip[c]].id], Program[ip[c]].inst)
        /\ Phase(c, "run")
     \/ /\ At(c, "call", "ready")
        /\ LET d == ids[Program[ip[c]].id] IN
           IF d = None THEN Phase(c, "crash")
                            /\ UNCHANGED vars
                       ELSE CallId(c, d) /\ Phase(c, "run")
  /\ UNCHANGED <<cores, barVars, ids, passed, exited>>

RunOp(c) ==
  /\ Running(c)
  /\ TakeId(c) \/ BindStep(c) \/ CallStep(c)
  /\ UNCHANGED tstVars

\* What the call returned: the instance's number, or EBBRC_NULL.
Answer(c) == IF result[c] = "ran" THEN obj[c].inst ELSE result[c]

EndOp(c) ==
  /\ Running(c) /\ phase[c] = "run" /\ pc[c] = "idle"
  /\ LET s == Program[ip[c]] IN
     /\ ids' = IF s.op = "alloc" THEN [ids EXCEPT ![s.id] = cid[c]] ELSE ids
     /\ passed' = {k \in passed : s.op = "call" /\ k = c => Answer(c) = s.expect}
  /\ NextStatement(c)
  /\ UNCHANGED <<vars, cores, barVars, exited>>

\* if (master) lrt_exit(0): the process ends, whatever the others do.
Exit ==
  /\ Running(0) /\ ip[0] = Len(Program) + 1
  /\ exited' = TRUE
  /\ UNCHANGED <<vars, ip, phase, cores, barVars, ids, passed>>

-----------------------------------------------------------------------------
CoreStep(c) ==
  \/ WaitForCores(c) \/ NotMaster(c)
  \/ Arrive(c) \/ ResetCount(c) \/ FlipSense(c) \/ SpinOnSense(c)
  \/ StartOp(c) \/ RunOp(c) \/ EndOp(c)
  \/ c = 0 /\ (InitBarrier \/ SetCores \/ Exit)

TstNext == Join \/ \E c \in Core : CoreStep(c)

TstSpec == /\ TstInit /\ [][TstNext]_allVars
           /\ WF_allVars(Join)
           /\ \A c \in Core : WF_allVars(CoreStep(c))

-----------------------------------------------------------------------------
BarriersBefore(n) == Cardinality({k \in 1..(n - 1) : Program[k].op = "barrier"})
Left(c)    == BarriersBefore(ip[c])
Entered(c) == Left(c) + IF phase[c] \in {"spin", "reset", "flip"} THEN 1 ELSE 0

\* Every call on every core was answered by the instance bound last: the
\* invalidation reached all cores although they marked themselves in corebv with
\* an unlocked |=, and the barriers kept the calls away from the binds.
AllCallsPass == passed = Core /\ \A c \in Core : phase[c] # "crash"

\* No core leaves a barrier that another has not reached, although the barrier is
\* used again while cores still spin in it.
BarrierHolds == \A c, k \in Core : Left(c) <= Entered(k)

\* The test ends: nobody is left spinning in a barrier, on the lock of a root, or
\* waiting for the number of cores.
TestEnds == <>exited
=============================================================================
