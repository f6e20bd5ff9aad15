--------------------------- MODULE ConsTstProofs ---------------------------
(***************************************************************************)
(* TLAPS proofs about the event manager under the consoles (EventMgr and   *)
(* ConsTst), for any number of cores and vectors and any buffer size.      *)
(***************************************************************************)
EXTENDS ConsTst, TLAPS, WellFoundedInduction, SequenceTheorems

USE EventMgrAssumption, ConsTstAssumption

-----------------------------------------------------------------------------
(* The operators the model is built from.                                  *)

\* A set of natural numbers has a smallest one.
LEMMA SmallestNat ==
  ASSUME NEW T, T \subseteq Nat, T # {}
  PROVE  \E x \in T : \A y \in T : x <= y
<1>1. \E R : /\ IsWellFoundedOn(R, Nat)
             /\ \A x, y \in Nat : <<y, x>> \in R <=> y < x
  <2>1. \A x, y \in Nat : <<y, x>> \in OpToRel(<, Nat) <=> y < x
    BY DEF OpToRel
  <2> QED
    BY <2>1, NatLessThanWellFounded
<1>2. PICK R : /\ IsWellFoundedOn(R, Nat)
               /\ \A x, y \in Nat : <<y, x>> \in R <=> y < x
  BY <1>1
<1>3. PICK x \in T : \A y \in T : ~(<<y, x>> \in R)
  BY <1>2, WFMin
<1>4. \A y \in T : x <= y
  <2> TAKE y \in T
  <2>1. ~(y < x)
    BY <1>2, <1>3
  <2> QED
    BY <2>1
<1> QED
  BY <1>4

\* The next ready vector in blockforinterrupt's scan.
LEMMA MinIn ==
  ASSUME NEW T, T \subseteq Nat, T # {}
  PROVE  Min(T) \in T
  BY SmallestNat DEF Min

\* The highest descriptor that is on, or NoFd.
LEMMA MaxOn ==
  ASSUME NEW T, T \subseteq Vec
  PROVE  /\ Max(T \cup {NoFd}) \in T \cup {NoFd}
         /\ \A y \in T : y <= Max(T \cup {NoFd})
<1> DEFINE S == T \cup {NoFd}  D == {NumVec - x : x \in S}
<1>1. S \subseteq Int /\ \A x \in S : x < NumVec
  BY DEF Vec, NoFd
<1>2. D \subseteq Nat /\ D # {}
  BY <1>1
<1>3. PICK d \in D : \A e \in D : d <= e
  BY <1>2, SmallestNat
<1>4. PICK x \in S : d = NumVec - x
  BY <1>3
<1>5. \A y \in S : x >= y
  <2> TAKE y \in S
  <2>1. NumVec - x <= NumVec - y
    BY <1>3, <1>4
  <2> QED
    BY <1>1, <2>1
<1>6. Max(S) \in S /\ \A y \in S : Max(S) >= y
  BY <1>5 DEF Max
<1> QED
  BY <1>1, <1>6

\* The larger of two.
LEMMA MaxOfTwo ==
  ASSUME NEW a \in Int, NEW b \in Int
  PROVE  Max({a, b}) = IF a >= b THEN a ELSE b
<1> DEFINE m == IF a >= b THEN a ELSE b
<1>1. m \in {a, b} /\ \A y \in {a, b} : m >= y
  OBVIOUS
<1>2. Max({a, b}) \in {a, b} /\ \A y \in {a, b} : Max({a, b}) >= y
  BY <1>1 DEF Max
<1> QED
  BY <1>2

\* lrt_pic_allocvec finds a vector that is not in use.
LEMMA NearestIsNull ==
  ASSUME EvTypeOK, NullVecs # {}
  PROVE  Nearest \in Vec /\ gvecs[Nearest] = "null"
<1> DEFINE D == {Distance(v) : v \in NullVecs}
<1>1. \A v \in Vec : Distance(v) \in Nat
  BY DEF Distance, EvTypeOK, Vec
<1>2. D \subseteq Nat /\ D # {}
  BY <1>1 DEF NullVecs
<1>3. PICK d \in D : \A e \in D : d <= e
  BY <1>2, SmallestNat
<1>4. \E v \in NullVecs : \A w \in NullVecs : Distance(v) <= Distance(w)
  BY <1>3
<1>5. Nearest \in NullVecs
  BY <1>4 DEF Nearest
<1> QED
  BY <1>5 DEF NullVecs

\* pic.free stays inside the table.
LEMMA NextFreeIn ==
  ASSUME EvTypeOK
  PROVE  NextFree \in Vec
  BY DEF EvTypeOK, NextFree, Vec

-----------------------------------------------------------------------------
(* The inductive invariant.                                                *)

\* Client code before the two events are registered, and ConsTst_start as a whole.
Early == {"allocIn", "registerIn", "allocOut", "registerOut", "enableIn"}
Starting == {"off", "lcore", "lvecs", "createRep", "addRepOn"}

\* A core has no events before it has a representative; it has a representative
\* in the root's list, and there is a master, before it runs client code; and it
\* is known to mapvec and to the wake-ups from the moment it has its id.
StartAt(c) ==
  /\ pc[c] \in Starting => /\ enabled[c] = {} /\ cur[c] = None
                           /\ stage[c] = "allocIn"
  /\ pc[c] \notin Starting => c \in reps
  /\ pc[c] \notin Starting \ {"addRepOn"} => master # None
  /\ pc[c] # "off" => c <= lastid
StartInv == \A c \in Core : StartAt(c)

\* How far ConsoleCreate has come, and the state of the vectors it has by then.
StageAt(c) ==
  /\ stage[c] = "allocIn" <=> inEV[c] = None
  /\ stage[c] \in {"allocIn", "registerIn", "allocOut"} <=> outEV[c] = None
  /\ pc[c] = "mapvec" => \/ stage[c] = "allocOut" /\ ev[c] = inEV[c]
                         \/ stage[c] = "enableIn" /\ ev[c] = outEV[c]
  /\ pc[c] \in {"vecs", "nfds", "pselect", "newmax"} => stage[c] \in {"print", "echo", "return"}
  /\ inEV[c] # None => gvecs[inEV[c]] =
       IF stage[c] = "registerIn" \/ (stage[c] = "allocOut" /\ pc[c] = "mapvec")
       THEN "allocated" ELSE "mapped"
  /\ outEV[c] # None => gvecs[outEV[c]] =
       IF stage[c] = "registerOut" \/ (stage[c] = "enableIn" /\ pc[c] = "mapvec")
       THEN "allocated" ELSE "mapped"
StageInv == \A c \in Core : StageAt(c)

\* No vector belongs to two events.
DistinctAt(c, d) ==
  /\ inEV[c] # None => inEV[c] # outEV[d]
  /\ inEV[c] # None /\ inEV[c] = inEV[d] => c = d
  /\ outEV[c] # None /\ outEV[c] = outEV[d] => c = d
DistinctInv == \A c, d \in Core : DistinctAt(c, d)

\* The entry of vector v in core c's table is that of c's own event.
RightAt(c, v) ==
  \/ v = inEV[c]  /\ handlerInfo[c][v] = [id |-> c, fn |-> "inEvent"]
  \/ v = outEV[c] /\ handlerInfo[c][v] = [id |-> c, fn |-> "outEvent"]

\* What a core is registering, may be dispatched, or is handling is its own event.
TableAt(c) ==
  /\ \A v \in enabled[c] : RightAt(c, v)
  /\ cur[c] # None => RightAt(c, cur[c])
  /\ pc[c] = "mapvec" => RightAt(c, ev[c])
TableInv == \A c \in Core : TableAt(c)

\* Only mapped vectors are on, and none above maxfd, unless the highest one has
\* just been turned off.
OnInv ==
  /\ \A v \in on : gvecs[v] = "mapped"
  /\ (\E d \in Core : pc[d] = "newmax") \/ \A v \in on : v <= maxfd

\* The characters of the buffer, and what the greeting takes of it.
BufAt(c) ==
  /\ outstart[c] + outlen[c] <= BufSize
  /\ outlen[c] > 0 => outEV[c] \in on
  /\ stage[c] = "disableOut" => outlen[c] = 0
  /\ stage[c] \in Early \cup {"print"} => outstart[c] = 0 /\ outlen[c] + left[c] = Greeting
BufInv == \A c \in Core : BufAt(c)

\* Console_inEvent does not overrun its buffer.
InInv == \A c \in Core : Len(in_c[c]) <= BufSize

\* blockforinterrupt begins at the first vector, with empty fd sets.
LoopAt(c) ==
  /\ pc[c] \notin {"vecs", "mapvec"} => ev[c] = None
  /\ pc[c] = "vecs" /\ intrSet[c] # {} => ev[c] = None
  /\ pc[c] \notin {"vecs", "nfds", "pselect"} \/ (pc[c] = "vecs" /\ ev[c] = None)
       => fdset[c] = {}
LoopInv == \A c \in Core : LoopAt(c)

\* A core that builds its fd sets, or waits with them, has all vectors that are on among
\* those it has looked at, or is going to be signalled when it waits.
Building(c) == pc[c] = "vecs" /\ ev[c] # None
Waiting(c)  == pc[c] \in {"nfds", "pselect"}
Covered(c)  == /\ Building(c) => fdset[c] = {v \in on \cap fds : v < ev[c]}
               /\ Waiting(c) => fdset[c] = on \cap fds
Alarmed(c)  == c \in sig \/ \E d \in Core : pc[d] = "newmax"
ScanInv == ~aborted => \A c \in Core : Covered(c) \/ Alarmed(c)

IInv == /\ TypeOK /\ StartInv /\ StageInv /\ DistinctInv /\ TableInv /\ OnInv /\ BufInv
        /\ InInv /\ VectorsAgree /\ LoopInv /\ ScanInv /\ OutputInOrder

-----------------------------------------------------------------------------
(* Every step keeps the invariant.                                         *)

\* Cores and vectors are numbers.
LEMMA Numbers == Core \subseteq Int /\ Vec \subseteq Int /\ NoFd \in Int
  BY DEF Core, Vec, NoFd

\* lrt_pic_loop dispatches only an event of this core, to the function it was
\* registered with.
LEMMA Dispatched ==
  ASSUME IInv, NEW c \in Core, Dispatch(c)
  PROVE  /\ cur'[c] \in Vec \cup {None}
         /\ cur' = [cur EXCEPT ![c] = cur'[c]]
         /\ cur'[c] # None => RightAt(c, cur'[c])
         /\ stage' = [stage EXCEPT ![c] = stage'[c]]
         /\ stage'[c] \in {"return", "inEvent", "outEvent"}
         /\ enabled' = [enabled EXCEPT ![c] = enabled'[c]] /\ enabled'[c] \subseteq enabled[c]
         /\ intrSet' = [intrSet EXCEPT ![c] = intrSet'[c]] /\ intrSet'[c] \subseteq intrSet[c]
         /\ pc' = [pc EXCEPT ![c] = pc'[c]] /\ pc'[c] \in {"idle", "vecs"}
         /\ pc[c] = "vecs" /\ (pc'[c] = "vecs" => stage'[c] = "return")
         /\ aborted' \in BOOLEAN
<1> DEFINE v == Min(intrSet[c])
<1>1. /\ cur \in [Core -> Vec \cup {None}] /\ stage \in [Core -> Stage]
      /\ enabled \in [Core -> SUBSET Vec] /\ intrSet \in [Core -> SUBSET Vec]
      /\ pc \in [Core -> PC]
  BY DEF IInv, TypeOK, EvTypeOK
<1>2. v \in Vec /\ v # None
  <2>1. intrSet[c] \subseteq Nat /\ intrSet[c] # {} /\ intrSet[c] \subseteq Vec
    BY <1>1 DEF Dispatch, DispatchEventLocal, Vec
  <2>2. v \in intrSet[c]
    BY <2>1, MinIn
  <2> QED
    BY <2>1, <2>2
<1>3. v \in enabled[c] => RightAt(c, v)
  BY DEF IInv, TableInv, TableAt
<1> HIDE DEF v
<1>4. /\ cur'[c] \in {v, None} /\ (cur'[c] = v => v \in enabled[c])
      /\ cur' = [cur EXCEPT ![c] = cur'[c]]
      /\ intrSet' = [intrSet EXCEPT ![c] = @ \ {v}]
      /\ enabled' = [enabled EXCEPT ![c] = @ \ {v}]
      /\ pc' = [pc EXCEPT ![c] = pc'[c]] /\ pc'[c] \in {"idle", "vecs"}
      /\ pc'[c] = "vecs" => cur'[c] = None
      /\ pc[c] = "vecs" /\ aborted' \in BOOLEAN
  BY <1>1, <1>2 DEF Dispatch, DispatchEventLocal, At, Goto, v
<1>5. /\ stage' = [stage EXCEPT ![c] = stage'[c]]
      /\ stage'[c] = IF cur'[c] = None THEN "return" ELSE handlerInfo[c][cur'[c]].fn
  BY <1>1 DEF Dispatch, Then
<1>6. cur'[c] # None => RightAt(c, cur'[c])
  BY <1>3, <1>4
<1>7. stage'[c] \in {"return", "inEvent", "outEvent"}
  BY <1>5, <1>6 DEF RightAt
<1> QED
  BY <1>1, <1>2, <1>4, <1>5, <1>6, <1>7

\* A core's way through start-up.
LEMMA StartStep ==
  ASSUME IInv, [Next]_vars
  PROVE  StartInv'
<1> USE DEF PC, StartInv, StartAt, Starting,
           WakeUp, At, Goto, Unlocked, Doing, Then, vars, evVars, picVars, unixVars, mgrVars,
           loopVars, conVars, bufVars, ttyVars
<1>1. CASE UNCHANGED vars
  BY <1>1 DEF IInv
<1>t. /\ pc \in [Core -> PC] /\ enabled \in [Core -> SUBSET Vec] /\ lastid \in Core
      /\ cur \in [Core -> Vec \cup {None}] /\ stage \in [Core -> Stage] /\ StartInv
  BY DEF IInv, TypeOK, EvTypeOK
<1>s. \A c \in Core : pc[c] \in {"mapvec", "newmax"} => stage[c] # "allocIn"
  BY DEF IInv, StageInv, StageAt
<1>2. ASSUME NEW c \in Core, AllocIn(c)
      PROVE  StartInv'
  BY <1>2, <1>t, <1>s DEF AllocIn, AllocEventNo
<1>3. ASSUME NEW c \in Core, RegisterIn(c)
      PROVE  StartInv'
  BY <1>3, <1>t, <1>s DEF RegisterIn, RegisterHandler, Replicated
<1>4. ASSUME NEW c \in Core, AllocOut(c)
      PROVE  StartInv'
  BY <1>4, <1>t, <1>s DEF AllocOut, AllocEventNo
<1>5. ASSUME NEW c \in Core, RegisterOut(c)
      PROVE  StartInv'
  BY <1>5, <1>t, <1>s DEF RegisterOut, RegisterHandler, Replicated
<1>6. ASSUME NEW c \in Core, EnableIn(c)
      PROVE  StartInv'
  BY <1>6, <1>t, <1>s DEF EnableIn, EventEnable
<1>7. ASSUME NEW c \in Core, PrintHello(c)
      PROVE  StartInv'
  BY <1>7, <1>t, <1>s DEF PrintHello, PutChar, EventEnable
<1>8. ASSUME NEW c \in Core, Dispatch(c)
      PROVE  StartInv'
  BY <1>8, <1>t, <1>s DEF Dispatch, DispatchEventLocal
<1>9. ASSUME NEW c \in Core, InEvent(c)
      PROVE  StartInv'
  BY <1>9, <1>t, <1>s DEF InEvent
<1>10. ASSUME NEW c \in Core, Echo(c)
       PROVE  StartInv'
  BY <1>10, <1>t, <1>s DEF Echo, PutChar, EventEnable, HasRoom
<1>11. ASSUME NEW c \in Core, OutEvent(c)
       PROVE  StartInv'
  BY <1>11, <1>t, <1>s DEF OutEvent
<1>12. ASSUME NEW c \in Core, DisableOut(c)
       PROVE  StartInv'
  BY <1>12, <1>t, <1>s DEF DisableOut, EventDisable
<1>13. ASSUME NEW c \in Core, ToLoop(c)
       PROVE  StartInv'
  BY <1>13, <1>t, <1>s DEF ToLoop, HandlerReturns, Enabled
<1>14. ASSUME NEW c \in Core, PSelect(c)
       PROVE  StartInv'
  BY <1>14, <1>t, <1>s DEF PSelect, DeviceReady
<1>15. ASSUME NEW c \in Core, AllocateCoreId(c), UNCHANGED <<conVars, ttyVars>>
       PROVE  StartInv'
  BY <1>15, <1>t, <1>s, MaxOfTwo, Numbers DEF AllocateCoreId
<1>16. ASSUME NEW c \in Core, SetLcore(c), UNCHANGED <<conVars, ttyVars>>
       PROVE  StartInv'
  BY <1>16, <1>t, <1>s DEF SetLcore
<1>17. ASSUME NEW c \in Core, CopyVecs(c), UNCHANGED <<conVars, ttyVars>>
       PROVE  StartInv'
  BY <1>17, <1>t, <1>s DEF CopyVecs
<1>18. ASSUME NEW c \in Core, CreateRep(c), UNCHANGED <<conVars, ttyVars>>
       PROVE  StartInv'
  BY <1>18, <1>t, <1>s DEF CreateRep
<1>19. ASSUME NEW c \in Core, AddRepOn(c), UNCHANGED <<conVars, ttyVars>>
       PROVE  StartInv'
  BY <1>19, <1>t, <1>s DEF AddRepOn
<1>20. ASSUME NEW c \in Core, MapVec(c), UNCHANGED <<conVars, ttyVars>>
       PROVE  StartInv'
  BY <1>20, <1>t, <1>s DEF MapVec
<1>21. ASSUME NEW c \in Core, NewMax(c), UNCHANGED <<conVars, ttyVars>>
       PROVE  StartInv'
  BY <1>21, <1>t, <1>s DEF NewMax
<1>22. ASSUME NEW c \in Core, BlockForInterrupt(c), UNCHANGED <<conVars, ttyVars>>
       PROVE  StartInv'
  BY <1>22, <1>t, <1>s DEF BlockForInterrupt
<1>27. ASSUME NEW c \in Core, Select(c), UNCHANGED <<conVars, ttyVars>>
       PROVE  StartInv'
  BY <1>27, <1>t, <1>s DEF Select
<1>23. ASSUME NEW c \in Core, Interrupted(c), UNCHANGED <<conVars, ttyVars>>
       PROVE  StartInv'
  BY <1>23, <1>t, <1>s DEF Interrupted
<1>24. CASE Type
  BY <1>24, <1>t, <1>s DEF Type
<1>25. CASE Display
  BY <1>25, <1>t, <1>s DEF Display
<1>26. QED
  BY <1>1, <1>2, <1>3, <1>4, <1>5, <1>6, <1>7, <1>8, <1>9, <1>10, <1>11, <1>12,
     <1>13, <1>14, <1>15, <1>16, <1>17, <1>18, <1>19, <1>20, <1>21, <1>22,
     <1>23, <1>24, <1>25, <1>27
     DEF Next, Step, ClientStep, CoreStep

\* A vector belongs to one event: lrt_pic_allocvec gives out one that is not in
\* use.
LEMMA DistinctStep ==
  ASSUME IInv, [Next]_vars
  PROVE  DistinctInv'
<1> USE DEF DistinctInv, DistinctAt,
           At, Goto, Unlocked, Doing, Then, vars, evVars, picVars, unixVars, mgrVars,
           loopVars, conVars, bufVars, ttyVars
<1>1. CASE UNCHANGED vars
  BY <1>1 DEF IInv
<1>t. /\ inEV \in [Core -> Vec \cup {None}] /\ outEV \in [Core -> Vec \cup {None}]
      /\ DistinctInv
  BY DEF IInv, TypeOK
<1>s. \A d \in Core : /\ inEV[d] # None => gvecs[inEV[d]] # "null"
                      /\ outEV[d] # None => gvecs[outEV[d]] # "null"
  BY DEF IInv, StageInv, StageAt
<1>2. ASSUME NEW c \in Core, AllocIn(c)
      PROVE  DistinctInv'
  <2>1. Nearest \in Vec /\ gvecs[Nearest] = "null"
    BY <1>2, NearestIsNull DEF AllocIn, AllocEventNo, IInv, TypeOK
  <2>2. \A d \in Core : inEV[d] # Nearest /\ outEV[d] # Nearest
    BY <2>1, <1>s
  <2> QED
    BY <1>2, <2>1, <2>2, <1>t DEF AllocIn
<1>3. ASSUME NEW c \in Core, RegisterIn(c)
      PROVE  DistinctInv'
  BY <1>3, <1>t DEF RegisterIn, RegisterHandler, Replicated
<1>4. ASSUME NEW c \in Core, AllocOut(c)
      PROVE  DistinctInv'
  <2>1. Nearest \in Vec /\ gvecs[Nearest] = "null"
    BY <1>4, NearestIsNull DEF AllocOut, AllocEventNo, IInv, TypeOK
  <2>2. \A d \in Core : inEV[d] # Nearest /\ outEV[d] # Nearest
    BY <2>1, <1>s
  <2> QED
    BY <1>4, <2>1, <2>2, <1>t DEF AllocOut
<1>5. ASSUME NEW c \in Core, RegisterOut(c)
      PROVE  DistinctInv'
  BY <1>5, <1>t DEF RegisterOut, RegisterHandler, Replicated
<1>6. ASSUME NEW c \in Core, EnableIn(c)
      PROVE  DistinctInv'
  BY <1>6, <1>t DEF EnableIn, EventEnable
<1>7. ASSUME NEW c \in Core, PrintHello(c)
      PROVE  DistinctInv'
  BY <1>7, <1>t DEF PrintHello, PutChar, EventEnable
<1>8. ASSUME NEW c \in Core, Dispatch(c)
      PROVE  DistinctInv'
  BY <1>8, <1>t DEF Dispatch, DispatchEventLocal
<1>9. ASSUME NEW c \in Core, InEvent(c)
      PROVE  DistinctInv'
  BY <1>9, <1>t DEF InEvent
<1>10. ASSUME NEW c \in Core, Echo(c)
       PROVE  DistinctInv'
  BY <1>10, <1>t DEF Echo, PutChar, EventEnable, HasRoom
<1>11. ASSUME NEW c \in Core, OutEvent(c)
       PROVE  DistinctInv'
  BY <1>11, <1>t DEF OutEvent
<1>12. ASSUME NEW c \in Core, DisableOut(c)
       PROVE  DistinctInv'
  BY <1>12, <1>t DEF DisableOut, EventDisable
<1>13. ASSUME NEW c \in Core, ToLoop(c)
       PROVE  DistinctInv'
  BY <1>13, <1>t DEF ToLoop, HandlerReturns, Enabled
<1>14. ASSUME NEW c \in Core, PSelect(c)
       PROVE  DistinctInv'
  BY <1>14, <1>t DEF PSelect, DeviceReady
<1>15. ASSUME NEW c \in Core, AllocateCoreId(c), UNCHANGED <<conVars, ttyVars>>
       PROVE  DistinctInv'
  BY <1>15, <1>t DEF AllocateCoreId
<1>16. ASSUME NEW c \in Core, SetLcore(c), UNCHANGED <<conVars, ttyVars>>
       PROVE  DistinctInv'
  BY <1>16, <1>t DEF SetLcore
<1>17. ASSUME NEW c \in Core, CopyVecs(c), UNCHANGED <<conVars, ttyVars>>
       PROVE  DistinctInv'
  BY <1>17, <1>t DEF CopyVecs
<1>18. ASSUME NEW c \in Core, CreateRep(c), UNCHANGED <<conVars, ttyVars>>
       PROVE  DistinctInv'
  BY <1>18, <1>t DEF CreateRep
<1>19. ASSUME NEW c \in Core, AddRepOn(c), UNCHANGED <<conVars, ttyVars>>
       PROVE  DistinctInv'
  BY <1>19, <1>t DEF AddRepOn
<1>20. ASSUME NEW c \in Core, MapVec(c), UNCHANGED <<conVars, ttyVars>>
       PROVE  DistinctInv'
  BY <1>20, <1>t DEF MapVec
<1>21. ASSUME NEW c \in Core, NewMax(c), UNCHANGED <<conVars, ttyVars>>
       PROVE  DistinctInv'
  BY <1>21, <1>t DEF NewMax
<1>22. ASSUME NEW c \in Core, BlockForInterrupt(c), UNCHANGED <<conVars, ttyVars>>
       PROVE  DistinctInv'
  BY <1>22, <1>t DEF BlockForInterrupt
<1>27. ASSUME NEW c \in Core, Select(c), UNCHANGED <<conVars, ttyVars>>
       PROVE  DistinctInv'
  BY <1>27, <1>t DEF Select
<1>23. ASSUME NEW c \in Core, Interrupted(c), UNCHANGED <<conVars, ttyVars>>
       PROVE  DistinctInv'
  BY <1>23, <1>t DEF Interrupted
<1>24. CASE Type
  BY <1>24, <1>t DEF Type
<1>25. CASE Display
  BY <1>25, <1>t DEF Display
<1>26. QED
  BY <1>1, <1>2, <1>3, <1>4, <1>5, <1>6, <1>7, <1>8, <1>9, <1>10, <1>11, <1>12,
     <1>13, <1>14, <1>15, <1>16, <1>17, <1>18, <1>19, <1>20, <1>21, <1>22,
     <1>23, <1>24, <1>25, <1>27
     DEF Next, Step, ClientStep, CoreStep

\* ConsoleCreate allocates, registers and maps one event after the other.
LEMMA StageStep ==
  ASSUME IInv, [Next]_vars
  PROVE  StageInv'
<1> USE DEF PC, Starting, DistinctInv, DistinctAt, StageInv, StageAt,
           WakeUp, At, Goto, Unlocked, Doing, Then, vars, evVars, picVars, unixVars, mgrVars,
           loopVars, conVars, bufVars, ttyVars
<1>1. CASE UNCHANGED vars
  BY <1>1 DEF IInv
<1>t. /\ inEV \in [Core -> Vec \cup {None}] /\ outEV \in [Core -> Vec \cup {None}]
      /\ pc \in [Core -> PC] /\ stage \in [Core -> Stage]
      /\ gvecs \in [Vec -> {"null", "allocated", "mapped"}]
      /\ ev \in [Core -> Vec \cup {None}] /\ cur \in [Core -> Vec \cup {None}]
      /\ StageInv /\ DistinctInv
  BY DEF IInv, TypeOK, EvTypeOK
<1>s. \A c \in Core : pc[c] \in Starting => stage[c] = "allocIn"
  BY DEF IInv, StartInv, StartAt
<1>2. ASSUME NEW c \in Core, AllocIn(c)
      PROVE  StageInv'
  <2>1. Nearest \in Vec /\ gvecs[Nearest] = "null"
    BY <1>2, NearestIsNull DEF AllocIn, AllocEventNo, IInv, TypeOK
  <2>2. \A d \in Core : inEV[d] # Nearest /\ outEV[d] # Nearest
    BY <2>1, <1>t
  <2> QED
    BY <1>2, <2>1, <2>2, <1>t DEF AllocIn, AllocEventNo
<1>3. ASSUME NEW c \in Core, RegisterIn(c)
      PROVE  StageInv'
  BY <1>3, <1>t, <1>s DEF RegisterIn, RegisterHandler, Replicated
<1>4. ASSUME NEW c \in Core, AllocOut(c)
      PROVE  StageInv'
  <2>1. Nearest \in Vec /\ gvecs[Nearest] = "null"
    BY <1>4, NearestIsNull DEF AllocOut, AllocEventNo, IInv, TypeOK
  <2>2. \A d \in Core : inEV[d] # Nearest /\ outEV[d] # Nearest
    BY <2>1, <1>t
  <2> QED
    BY <1>4, <2>1, <2>2, <1>t DEF AllocOut, AllocEventNo
<1>5. ASSUME NEW c \in Core, RegisterOut(c)
      PROVE  StageInv'
  BY <1>5, <1>t, <1>s DEF RegisterOut, RegisterHandler, Replicated
<1>6. ASSUME NEW c \in Core, EnableIn(c)
      PROVE  StageInv'
  BY <1>6, <1>t, <1>s DEF EnableIn, EventEnable
<1>7. ASSUME NEW c \in Core, PrintHello(c)
      PROVE  StageInv'
  BY <1>7, <1>t, <1>s DEF PrintHello, PutChar, EventEnable
<1>8. ASSUME NEW c \in Core, Dispatch(c)
      PROVE  StageInv'
  <2>1. UNCHANGED <<inEV, outEV, gvecs, ev>>
    BY <1>8 DEF Dispatch, DispatchEventLocal
  <2> QED
    BY <1>8, <1>t, <2>1, Dispatched
<1>9. ASSUME NEW c \in Core, InEvent(c)
      PROVE  StageInv'
  BY <1>9, <1>t, <1>s DEF InEvent
<1>10. ASSUME NEW c \in Core, Echo(c)
       PROVE  StageInv'
  BY <1>10, <1>t, <1>s DEF Echo, PutChar, EventEnable, HasRoom
<1>11. ASSUME NEW c \in Core, OutEvent(c)
       PROVE  StageInv'
  BY <1>11, <1>t, <1>s DEF OutEvent
<1>12. ASSUME NEW c \in Core, DisableOut(c)
       PROVE  StageInv'
  BY <1>12, <1>t, <1>s DEF DisableOut, EventDisable
<1>13. ASSUME NEW c \in Core, ToLoop(c)
       PROVE  StageInv'
  BY <1>13, <1>t, <1>s DEF ToLoop, HandlerReturns, Enabled
<1>14. ASSUME NEW c \in Core, PSelect(c)
       PROVE  StageInv'
  BY <1>14, <1>t, <1>s DEF PSelect, DeviceReady
<1>15. ASSUME NEW c \in Core, AllocateCoreId(c), UNCHANGED <<conVars, ttyVars>>
       PROVE  StageInv'
  BY <1>15, <1>t, <1>s DEF AllocateCoreId
<1>16. ASSUME NEW c \in Core, SetLcore(c), UNCHANGED <<conVars, ttyVars>>
       PROVE  StageInv'
  BY <1>16, <1>t, <1>s DEF SetLcore
<1>17. ASSUME NEW c \in Core, CopyVecs(c), UNCHANGED <<conVars, ttyVars>>
       PROVE  StageInv'
  BY <1>17, <1>t, <1>s DEF CopyVecs
<1>18. ASSUME NEW c \in Core, CreateRep(c), UNCHANGED <<conVars, ttyVars>>
       PROVE  StageInv'
  BY <1>18, <1>t, <1>s DEF CreateRep
<1>19. ASSUME NEW c \in Core, AddRepOn(c), UNCHANGED <<conVars, ttyVars>>
       PROVE  StageInv'
  BY <1>19, <1>t, <1>s DEF AddRepOn
<1>20. ASSUME NEW c \in Core, MapVec(c), UNCHANGED <<conVars, ttyVars>>
       PROVE  StageInv'
  BY <1>20, <1>t, <1>s DEF MapVec
<1>21. ASSUME NEW c \in Core, NewMax(c), UNCHANGED <<conVars, ttyVars>>
       PROVE  StageInv'
  BY <1>21, <1>t, <1>s DEF NewMax
<1>22. ASSUME NEW c \in Core, BlockForInterrupt(c), UNCHANGED <<conVars, ttyVars>>
       PROVE  StageInv'
  BY <1>22, <1>t, <1>s DEF BlockForInterrupt
<1>27. ASSUME NEW c \in Core, Select(c), UNCHANGED <<conVars, ttyVars>>
       PROVE  StageInv'
  BY <1>27, <1>t, <1>s DEF Select
<1>23. ASSUME NEW c \in Core, Interrupted(c), UNCHANGED <<conVars, ttyVars>>
       PROVE  StageInv'
  BY <1>23, <1>t, <1>s DEF Interrupted
<1>24. CASE Type
  BY <1>24, <1>t, <1>s DEF Type
<1>25. CASE Display
  BY <1>25, <1>t, <1>s DEF Display
<1>26. QED
  BY <1>1, <1>2, <1>3, <1>4, <1>5, <1>6, <1>7, <1>8, <1>9, <1>10, <1>11, <1>12,
     <1>13, <1>14, <1>15, <1>16, <1>17, <1>18, <1>19, <1>20, <1>21, <1>22,
     <1>23, <1>24, <1>25, <1>27
     DEF Next, Step, ClientStep, CoreStep

\* lockedReplicateHandler writes one entry, in the table of every core of the
\* root's list (and of the master).
LEMMA Registered ==
  ASSUME IInv, NEW c \in Core, NEW v \in Vec, NEW i \in Info, RegisterHandler(c, v, i)
  PROVE  /\ handlerInfo' \in [Core -> [Vec -> Info]]
         /\ \A k \in Core, w \in Vec : w # v => handlerInfo'[k][w] = handlerInfo[k][w]
         /\ \A k \in reps : handlerInfo'[k][v] = i
<1>1. handlerInfo \in [Core -> [Vec -> Info]] /\ reps \subseteq Core /\ pc[c] = "idle"
  BY DEF IInv, TypeOK, EvTypeOK, RegisterHandler, At
<1>2. master \in Core
  BY <1>1 DEF IInv, TypeOK, EvTypeOK, StartInv, StartAt, Starting
<1> DEFINE hi == [handlerInfo EXCEPT ![master][v] = i]
<1>3. /\ hi \in [Core -> [Vec -> Info]]
      /\ \A k \in Core, w \in Vec : w # v => hi[k][w] = handlerInfo[k][w]
  BY <1>1, <1>2
<1>4. handlerInfo' = [k \in Core |-> IF k \in reps THEN [hi[k] EXCEPT ![v] = i] ELSE hi[k]]
  BY DEF RegisterHandler, Replicated
<1> HIDE DEF hi
<1> QED
  BY <1>1, <1>3, <1>4

\* A step that touches no event number and no table, dispatches nothing and
\* registers nothing.
TableFrame ==
  /\ UNCHANGED <<inEV, outEV, handlerInfo>>
  /\ \A k \in Core : /\ enabled'[k] \subseteq enabled[k] /\ cur'[k] = cur[k]
                     /\ pc'[k] = "mapvec" => pc[k] = "mapvec" /\ ev'[k] = ev[k]

\* Such a step keeps the table in step with the events.
LEMMA QuietTable ==
  ASSUME TableInv, TableFrame
  PROVE  TableInv'
<1>1. \A k, v : RightAt(k, v) => RightAt(k, v)'
  BY DEF TableFrame, RightAt
<1> QED
  BY <1>1 DEF TableInv, TableAt, TableFrame

\* A core's table, its enabled vectors and what it handles stay in step, although
\* other cores write into the table and it copies the master's.
LEMMA TableStep ==
  ASSUME IInv, [Next]_vars
  PROVE  TableInv'
<1> USE DEF PC, Starting, WakeUp, At, Goto, Unlocked, Doing, Then, vars, evVars, picVars,
           unixVars, mgrVars, loopVars, conVars, bufVars, ttyVars
<1>1. CASE UNCHANGED vars
  BY <1>1 DEF IInv, TableInv, TableAt, RightAt
<1>t. /\ inEV \in [Core -> Vec \cup {None}] /\ outEV \in [Core -> Vec \cup {None}]
      /\ pc \in [Core -> PC] /\ stage \in [Core -> Stage] /\ enabled \in [Core -> SUBSET Vec]
      /\ ev \in [Core -> Vec \cup {None}] /\ cur \in [Core -> Vec \cup {None}]
      /\ handlerInfo \in [Core -> [Vec -> Info]]
      /\ TableInv /\ DistinctInv
  BY DEF IInv, TypeOK, EvTypeOK
<1>s. \A c \in Core :
        /\ pc[c] \in Starting => enabled[c] = {} /\ cur[c] = None
        /\ pc[c] = "idle" => c \in reps
        /\ stage[c] = "allocIn" => inEV[c] = None
        /\ stage[c] \in {"allocIn", "allocOut"} => outEV[c] = None
        /\ stage[c] = "registerIn" => inEV[c] \in Vec
        /\ stage[c] = "registerOut" => outEV[c] \in Vec
        /\ pc[c] = "mapvec" => ev[c] \in Vec
  BY DEF IInv, StartInv, StartAt, StageInv, StageAt, TypeOK, Starting
<1>2. ASSUME NEW c \in Core, AllocIn(c)
      PROVE  TableInv'
  <2>1. /\ UNCHANGED <<outEV, handlerInfo, enabled, cur, ev, pc>> /\ inEV[c] = None
        /\ inEV' = [inEV EXCEPT ![c] = Nearest]
    BY <1>2, <1>s DEF AllocIn, AllocEventNo
  <2>2. ASSUME NEW k \in Core, NEW v \in Vec, RightAt(k, v) PROVE RightAt(k, v)'
    BY <1>t, <2>1, <2>2 DEF RightAt
  <2> QED
    BY <1>t, <1>s, <2>1, <2>2 DEF TableInv, TableAt
<1>3. ASSUME NEW c \in Core, RegisterIn(c)
      PROVE  TableInv'
  <2>1. inEV[c] \in Vec /\ [id |-> c, fn |-> "inEvent"] \in Info /\ c \in reps
    BY <1>3, <1>t, <1>s DEF RegisterIn, RegisterHandler, Info
  <2>2. /\ \A k \in Core, w \in Vec : w # inEV[c] => handlerInfo'[k][w] = handlerInfo[k][w]
        /\ handlerInfo'[c][inEV[c]] = [id |-> c, fn |-> "inEvent"]
    BY <1>3, <2>1, Registered DEF RegisterIn
  <2>3. /\ UNCHANGED <<inEV, outEV, enabled, cur>>
        /\ ev' = [ev EXCEPT ![c] = inEV[c]] /\ pc' = [pc EXCEPT ![c] = "mapvec"]
    BY <1>3 DEF RegisterIn, RegisterHandler
  <2>4. ASSUME NEW k \in Core, NEW w \in Vec, RightAt(k, w)
        PROVE  RightAt(k, w)'
    <3>1. CASE w = inEV[c]
      BY <1>t, <2>1, <2>2, <2>3, <2>4, <3>1 DEF DistinctInv, DistinctAt, RightAt
    <3>2. CASE w # inEV[c]
      BY <2>2, <2>3, <2>4, <3>2 DEF RightAt
    <3> QED
      BY <3>1, <3>2
  <2>5. RightAt(c, inEV[c])'
    BY <1>t, <2>2, <2>3 DEF RightAt
  <2>6. ASSUME NEW k \in Core PROVE TableAt(k)'
    <3>1. \A w \in enabled'[k] : RightAt(k, w)'
      BY <1>t, <2>3, <2>4 DEF TableInv, TableAt
    <3>2. cur'[k] # None => RightAt(k, cur[k])'
      BY <1>t, <2>3, <2>4 DEF TableInv, TableAt
    <3>3. pc'[k] = "mapvec" => RightAt(k, ev[k])'
      <4>1. CASE k = c
        BY <1>t, <2>3, <2>5, <4>1
      <4>2. CASE k # c
        <5>1. pc'[k] = "mapvec" => RightAt(k, ev[k]) /\ ev[k] \in Vec
          BY <1>t, <1>s, <2>3, <4>2 DEF TableInv, TableAt
        <5>2. ev'[k] = ev[k]
          BY <1>t, <2>3, <4>2
        <5> QED
          BY <2>4, <5>1, <5>2
      <4> QED
        BY <4>1, <4>2
    <3> QED
      BY <2>3, <3>1, <3>2, <3>3 DEF TableAt
  <2> QED
    BY <2>6 DEF TableInv
<1>4. ASSUME NEW c \in Core, AllocOut(c)
      PROVE  TableInv'
  <2>1. /\ UNCHANGED <<inEV, handlerInfo, enabled, cur, ev, pc>> /\ outEV[c] = None
        /\ outEV' = [outEV EXCEPT ![c] = Nearest]
    BY <1>4, <1>s DEF AllocOut, AllocEventNo
  <2>2. ASSUME NEW k \in Core, NEW v \in Vec, RightAt(k, v) PROVE RightAt(k, v)'
    BY <1>t, <2>1, <2>2 DEF RightAt
  <2> QED
    BY <1>t, <1>s, <2>1, <2>2 DEF TableInv, TableAt
<1>5. ASSUME NEW c \in Core, RegisterOut(c)
      PROVE  TableInv'
  <2>1. outEV[c] \in Vec /\ [id |-> c, fn |-> "outEvent"] \in Info /\ c \in reps
    BY <1>5, <1>t, <1>s DEF RegisterOut, RegisterHandler, Info
  <2>2. /\ \A k \in Core, w \in Vec : w # outEV[c] => handlerInfo'[k][w] = handlerInfo[k][w]
        /\ handlerInfo'[c][outEV[c]] = [id |-> c, fn |-> "outEvent"]
    BY <1>5, <2>1, Registered DEF RegisterOut
  <2>3. /\ UNCHANGED <<inEV, outEV, enabled, cur>>
        /\ ev' = [ev EXCEPT ![c] = outEV[c]] /\ pc' = [pc EXCEPT ![c] = "mapvec"]
    BY <1>5 DEF RegisterOut, RegisterHandler
  <2>4. ASSUME NEW k \in Core, NEW w \in Vec, RightAt(k, w)
        PROVE  RightAt(k, w)'
    <3>1. CASE w = outEV[c]
      BY <1>t, <2>1, <2>2, <2>3, <2>4, <3>1 DEF DistinctInv, DistinctAt, RightAt
    <3>2. CASE w # outEV[c]
      BY <2>2, <2>3, <2>4, <3>2 DEF RightAt
    <3> QED
      BY <3>1, <3>2
  <2>5. RightAt(c, outEV[c])'
    BY <1>t, <2>2, <2>3 DEF RightAt
  <2>6. ASSUME NEW k \in Core PROVE TableAt(k)'
    <3>1. \A w \in enabled'[k] : RightAt(k, w)'
      BY <1>t, <2>3, <2>4 DEF TableInv, TableAt
    <3>2. cur'[k] # None => RightAt(k, cur[k])'
      BY <1>t, <2>3, <2>4 DEF TableInv, TableAt
    <3>3. pc'[k] = "mapvec" => RightAt(k, ev[k])'
      <4>1. CASE k = c
        BY <1>t, <2>3, <2>5, <4>1
      <4>2. CASE k # c
        <5>1. pc'[k] = "mapvec" => RightAt(k, ev[k]) /\ ev[k] \in Vec
          BY <1>t, <1>s, <2>3, <4>2 DEF TableInv, TableAt
        <5>2. ev'[k] = ev[k]
          BY <1>t, <2>3, <4>2
        <5> QED
          BY <2>4, <5>1, <5>2
      <4> QED
        BY <4>1, <4>2
    <3> QED
      BY <2>3, <3>1, <3>2, <3>3 DEF TableAt
  <2> QED
    BY <2>6 DEF TableInv
<1>6. ASSUME NEW c \in Core, EnableIn(c)
      PROVE  TableInv'
  <2>1. TableFrame
    BY <1>6, <1>t DEF TableFrame, EnableIn, EventEnable
  <2> QED
    BY <1>t, <2>1, QuietTable
<1>7. ASSUME NEW c \in Core, PrintHello(c)
      PROVE  TableInv'
  <2>1. TableFrame
    BY <1>7, <1>t DEF TableFrame, PrintHello, PutChar, EventEnable
  <2> QED
    BY <1>t, <2>1, QuietTable
<1>8. ASSUME NEW c \in Core, Dispatch(c)
      PROVE  TableInv'
  <2>1. UNCHANGED <<inEV, outEV, handlerInfo, ev>> /\ enabled'[c] \subseteq enabled[c]
    BY <1>8, Dispatched DEF Dispatch, DispatchEventLocal
  <2>2. \A k, v : RightAt(k, v) => RightAt(k, v)'
    BY <2>1 DEF RightAt
  <2>3. ASSUME NEW k \in Core, k # c PROVE TableAt(k)'
    BY <1>8, <1>t, <2>1, <2>2, <2>3, Dispatched DEF TableInv, TableAt
  <2>4. \A w \in enabled'[c] : RightAt(c, w)'
    BY <1>t, <2>1, <2>2 DEF TableInv, TableAt
  <2>5. pc'[c] # "mapvec" /\ (cur'[c] # None => RightAt(c, cur'[c]))
    BY <1>8, <1>t, Dispatched
  <2>6. TableAt(c)'
    BY <2>2, <2>4, <2>5 DEF TableAt
  <2> QED
    BY <2>3, <2>6 DEF TableInv
<1>9. ASSUME NEW c \in Core, InEvent(c)
      PROVE  TableInv'
  <2>1. TableFrame
    BY <1>9, <1>t DEF TableFrame, InEvent
  <2> QED
    BY <1>t, <2>1, QuietTable
<1>10. ASSUME NEW c \in Core, Echo(c)
       PROVE  TableInv'
  <2>1. TableFrame
    BY <1>10, <1>t DEF TableFrame, Echo, PutChar, EventEnable, HasRoom
  <2> QED
    BY <1>t, <2>1, QuietTable
<1>11. ASSUME NEW c \in Core, OutEvent(c)
       PROVE  TableInv'
  <2>1. TableFrame
    BY <1>11, <1>t DEF TableFrame, OutEvent
  <2> QED
    BY <1>t, <2>1, QuietTable
<1>12. ASSUME NEW c \in Core, DisableOut(c)
       PROVE  TableInv'
  <2>1. TableFrame
    BY <1>12, <1>t DEF TableFrame, DisableOut, EventDisable
  <2> QED
    BY <1>t, <2>1, QuietTable
<1>13. ASSUME NEW c \in Core, ToLoop(c)
       PROVE  TableInv'
  <2>1. /\ UNCHANGED <<inEV, outEV, handlerInfo, ev>>
        /\ pc' = [pc EXCEPT ![c] = "vecs"] /\ cur' = [cur EXCEPT ![c] = None]
        /\ enabled' = [enabled EXCEPT ![c] = Enabled(c)]
    BY <1>13 DEF ToLoop, HandlerReturns
  <2>2. \A k, v : RightAt(k, v) => RightAt(k, v)'
    BY <2>1 DEF RightAt
  <2>3. \A v \in Enabled(c) : RightAt(c, v)
    BY <1>t DEF TableInv, TableAt, Enabled
  <2> QED
    BY <1>t, <2>1, <2>2, <2>3 DEF TableInv, TableAt
<1>14. ASSUME NEW c \in Core, PSelect(c)
       PROVE  TableInv'
  <2>1. TableFrame
    BY <1>14, <1>t DEF TableFrame, PSelect, DeviceReady
  <2> QED
    BY <1>t, <2>1, QuietTable
<1>15. ASSUME NEW c \in Core, AllocateCoreId(c), UNCHANGED <<conVars, ttyVars>>
       PROVE  TableInv'
  <2>1. TableFrame
    BY <1>15, <1>t DEF TableFrame, AllocateCoreId
  <2> QED
    BY <1>t, <2>1, QuietTable
<1>16. ASSUME NEW c \in Core, SetLcore(c), UNCHANGED <<conVars, ttyVars>>
       PROVE  TableInv'
  <2>1. TableFrame
    BY <1>16, <1>t DEF TableFrame, SetLcore
  <2> QED
    BY <1>t, <2>1, QuietTable
<1>17. ASSUME NEW c \in Core, CopyVecs(c), UNCHANGED <<conVars, ttyVars>>
       PROVE  TableInv'
  <2>1. TableFrame
    BY <1>17, <1>t DEF TableFrame, CopyVecs
  <2> QED
    BY <1>t, <2>1, QuietTable
<1>18. ASSUME NEW c \in Core, CreateRep(c), UNCHANGED <<conVars, ttyVars>>
       PROVE  TableInv'
  <2>1. /\ UNCHANGED <<inEV, outEV, enabled, cur, ev>> /\ enabled[c] = {} /\ cur[c] = None
        /\ pc' = [pc EXCEPT ![c] = "addRepOn"]
        /\ \A k \in Core : k # c => handlerInfo'[k] = handlerInfo[k]
    BY <1>18, <1>t, <1>s DEF CreateRep
  <2>2. \A k \in Core : \A v : k # c /\ RightAt(k, v) => RightAt(k, v)'
    BY <2>1 DEF RightAt
  <2>3. ASSUME NEW k \in Core, k # c PROVE TableAt(k)'
    BY <1>t, <2>1, <2>2, <2>3 DEF TableInv, TableAt
  <2>4. TableAt(c)'
    BY <1>t, <2>1 DEF TableAt
  <2> QED
    BY <2>3, <2>4 DEF TableInv
<1>19. ASSUME NEW c \in Core, AddRepOn(c), UNCHANGED <<conVars, ttyVars>>
       PROVE  TableInv'
  <2>1. TableFrame
    BY <1>19, <1>t DEF TableFrame, AddRepOn
  <2> QED
    BY <1>t, <2>1, QuietTable
<1>20. ASSUME NEW c \in Core, MapVec(c), UNCHANGED <<conVars, ttyVars>>
       PROVE  TableInv'
  <2>1. UNCHANGED <<inEV, outEV, handlerInfo, cur>> /\ pc[c] = "mapvec"
    BY <1>20 DEF MapVec
  <2>2. /\ ev' = [ev EXCEPT ![c] = None] /\ pc' = [pc EXCEPT ![c] = "idle"]
        /\ enabled' = [enabled EXCEPT ![c] = enabled[c] \cup {ev[c]}]
    BY <1>20 DEF MapVec
  <2>3. \A k, v : RightAt(k, v) => RightAt(k, v)'
    BY <2>1 DEF RightAt
  <2>4. ASSUME NEW k \in Core, k # c PROVE TableAt(k)'
    BY <1>t, <2>1, <2>2, <2>3, <2>4 DEF TableInv, TableAt
  <2>5. \A w \in enabled'[c] : RightAt(c, w)'
    BY <1>t, <2>1, <2>2, <2>3 DEF TableInv, TableAt
  <2>6. pc'[c] # "mapvec" /\ (cur'[c] # None => RightAt(c, cur'[c]))
    BY <1>t, <2>1, <2>2 DEF TableInv, TableAt
  <2>7. TableAt(c)'
    BY <2>3, <2>5, <2>6 DEF TableAt
  <2> QED
    BY <2>4, <2>7 DEF TableInv
<1>21. ASSUME NEW c \in Core, NewMax(c), UNCHANGED <<conVars, ttyVars>>
       PROVE  TableInv'
  <2>1. TableFrame
    BY <1>21, <1>t DEF TableFrame, NewMax
  <2> QED
    BY <1>t, <2>1, QuietTable
<1>22. ASSUME NEW c \in Core, BlockForInterrupt(c), UNCHANGED <<conVars, ttyVars>>
       PROVE  TableInv'
  <2>1. TableFrame
    BY <1>22, <1>t DEF TableFrame, BlockForInterrupt
  <2> QED
    BY <1>t, <2>1, QuietTable
<1>27. ASSUME NEW c \in Core, Select(c), UNCHANGED <<conVars, ttyVars>>
       PROVE  TableInv'
  <2>1. TableFrame
    BY <1>27, <1>t DEF TableFrame, Select
  <2> QED
    BY <1>t, <2>1, QuietTable
<1>23. ASSUME NEW c \in Core, Interrupted(c), UNCHANGED <<conVars, ttyVars>>
       PROVE  TableInv'
  <2>1. TableFrame
    BY <1>23, <1>t DEF TableFrame, Interrupted
  <2> QED
    BY <1>t, <2>1, QuietTable
<1>24. CASE Type
  <2>1. TableFrame
    BY <1>24, <1>t DEF TableFrame, Type
  <2> QED
    BY <1>t, <2>1, QuietTable
<1>25. CASE Display
  <2>1. TableFrame
    BY <1>25, <1>t DEF TableFrame, Display
  <2> QED
    BY <1>t, <2>1, QuietTable
<1>26. QED
  BY <1>1, <1>2, <1>3, <1>4, <1>5, <1>6, <1>7, <1>8, <1>9, <1>10, <1>11, <1>12,
     <1>13, <1>14, <1>15, <1>16, <1>17, <1>18, <1>19, <1>20, <1>21, <1>22,
     <1>23, <1>24, <1>25, <1>27
     DEF Next, Step, ClientStep, CoreStep

\* The vectors the steps of a console work on are mapped, and numbers.
LEMMA Usable ==
  ASSUME IInv, NEW c \in Core, pc[c] = "idle"
  PROVE  /\ stage[c] = "enableIn" => inEV[c] \in Vec /\ gvecs[inEV[c]] = "mapped"
         /\ stage[c] \in {"print", "echo", "disableOut"}
              => outEV[c] \in Vec /\ gvecs[outEV[c]] = "mapped"
<1>1. /\ inEV[c] \in Vec \cup {None} /\ outEV[c] \in Vec \cup {None} /\ StageAt(c)
  BY DEF IInv, TypeOK, StageInv
<1> QED
  BY <1>1 DEF StageAt

\* putChar, from the two places it is called, either touches nothing of the event
\* manager or turns the console's output event on.
LEMMA PutCharEvent ==
  ASSUME IInv, NEW c \in Core, PrintHello(c) \/ Echo(c)
  PROVE  \/ UNCHANGED evVars
         \/ EventEnable(c, outEV[c]) /\ outEV[c] \in Vec /\ gvecs[outEV[c]] = "mapped"
<1>1. outEV[c] \in Vec /\ gvecs[outEV[c]] = "mapped"
  BY Usable DEF PrintHello, Echo, Doing, At
<1> QED
  BY <1>1 DEF PrintHello, Echo, PutChar

\* A step that turns nothing on or off and ends no search for the highest vector.
OnFrame ==
  /\ UNCHANGED <<on, maxfd>>
  /\ \A v \in Vec : gvecs[v] = "mapped" => gvecs'[v] = "mapped"
  /\ \A d \in Core : pc[d] = "newmax" => pc'[d] = "newmax"

\* A step that leaves vectors, what is on and maxfd alone keeps OnInv.
LEMMA QuietOn ==
  ASSUME EvTypeOK, OnInv, OnFrame
  PROVE  OnInv'
  BY DEF EvTypeOK, OnInv, OnFrame

\* eventEnable raises maxfd with the vector.
LEMMA EnableOn ==
  ASSUME EvTypeOK, OnInv, NEW c \in Core, NEW v \in Vec, gvecs[v] = "mapped",
         EventEnable(c, v)
  PROVE  OnInv'
<1>1. /\ on' = on \cup {v} /\ maxfd' = IF maxfd >= v THEN maxfd ELSE v
      /\ UNCHANGED <<gvecs, pc>>
  BY Numbers, MaxOfTwo DEF EventEnable, RaisedMax, EvTypeOK, picVars
<1>2. maxfd \in Int /\ on \subseteq Int /\ v \in Int
  BY Numbers DEF EvTypeOK
<1> QED
  BY <1>1, <1>2 DEF OnInv

\* What is on is mapped, and not above maxfd, although vectors are turned on and
\* off by any core.
LEMMA OnStep ==
  ASSUME IInv, [Next]_vars
  PROVE  OnInv'
<1> USE DEF At, Goto, Unlocked, Doing, Then, vars, evVars, picVars, unixVars, mgrVars,
           loopVars, conVars, bufVars, ttyVars
<1>1. CASE UNCHANGED vars
  BY <1>1 DEF IInv, OnInv
<1>t. /\ EvTypeOK /\ OnInv /\ pc \in [Core -> PC] /\ on \subseteq Vec
      /\ gvecs \in [Vec -> {"null", "allocated", "mapped"}]
      /\ maxfd \in Int /\ on \subseteq Int
  BY Numbers DEF IInv, TypeOK, EvTypeOK
<1>2. ASSUME NEW c \in Core, AllocIn(c)
      PROVE  OnInv'
  <2>1. Nearest \in Vec /\ gvecs[Nearest] = "null"
    BY <1>2, <1>t, NearestIsNull DEF AllocIn, AllocEventNo
  <2>2. OnFrame
    BY <1>2, <1>t, <2>1 DEF OnFrame, AllocIn, AllocEventNo
  <2> QED
    BY <1>t, <2>2, QuietOn
<1>3. ASSUME NEW c \in Core, RegisterIn(c)
      PROVE  OnInv'
  <2>1. OnFrame
    BY <1>3, <1>t DEF OnFrame, RegisterIn, RegisterHandler, Replicated
  <2> QED
    BY <1>t, <2>1, QuietOn
<1>4. ASSUME NEW c \in Core, AllocOut(c)
      PROVE  OnInv'
  <2>1. Nearest \in Vec /\ gvecs[Nearest] = "null"
    BY <1>4, <1>t, NearestIsNull DEF AllocOut, AllocEventNo
  <2>2. OnFrame
    BY <1>4, <1>t, <2>1 DEF OnFrame, AllocOut, AllocEventNo
  <2> QED
    BY <1>t, <2>2, QuietOn
<1>5. ASSUME NEW c \in Core, RegisterOut(c)
      PROVE  OnInv'
  <2>1. OnFrame
    BY <1>5, <1>t DEF OnFrame, RegisterOut, RegisterHandler, Replicated
  <2> QED
    BY <1>t, <2>1, QuietOn
<1>6. ASSUME NEW c \in Core, EnableIn(c)
      PROVE  OnInv'
  <2>1. inEV[c] \in Vec /\ gvecs[inEV[c]] = "mapped" /\ EventEnable(c, inEV[c])
    BY <1>6, Usable DEF EnableIn
  <2> QED
    BY <1>t, <2>1, EnableOn
<1>7. ASSUME NEW c \in Core, PrintHello(c)
      PROVE  OnInv'
  <2>1. CASE UNCHANGED evVars
    <3>1. OnFrame
      BY <2>1 DEF OnFrame
    <3> QED
      BY <1>t, <3>1, QuietOn
  <2>2. CASE EventEnable(c, outEV[c]) /\ outEV[c] \in Vec /\ gvecs[outEV[c]] = "mapped"
    BY <1>t, <2>2, EnableOn
  <2> QED
    BY <1>7, <2>1, <2>2, PutCharEvent
<1>8. ASSUME NEW c \in Core, Dispatch(c)
      PROVE  OnInv'
  <2>1. OnFrame
    BY <1>8, <1>t, Dispatched DEF OnFrame, Dispatch, DispatchEventLocal
  <2> QED
    BY <1>t, <2>1, QuietOn
<1>9. ASSUME NEW c \in Core, InEvent(c)
      PROVE  OnInv'
  <2>1. OnFrame
    BY <1>9, <1>t DEF OnFrame, InEvent
  <2> QED
    BY <1>t, <2>1, QuietOn
<1>10. ASSUME NEW c \in Core, Echo(c)
       PROVE  OnInv'
  <2>1. CASE UNCHANGED evVars
    <3>1. OnFrame
      BY <2>1 DEF OnFrame
    <3> QED
      BY <1>t, <3>1, QuietOn
  <2>2. CASE EventEnable(c, outEV[c]) /\ outEV[c] \in Vec /\ gvecs[outEV[c]] = "mapped"
    BY <1>t, <2>2, EnableOn
  <2> QED
    BY <1>10, <2>1, <2>2, PutCharEvent
<1>11. ASSUME NEW c \in Core, OutEvent(c)
       PROVE  OnInv'
  <2>1. OnFrame
    BY <1>11, <1>t DEF OnFrame, OutEvent
  <2> QED
    BY <1>t, <2>1, QuietOn
<1>12. ASSUME NEW c \in Core, DisableOut(c)
       PROVE  OnInv'
  <2>1. on' = on \ {outEV[c]} /\ UNCHANGED gvecs /\ pc[c] = "idle"
    BY <1>12 DEF DisableOut, EventDisable
  <2>2. CASE outEV[c] = maxfd
    BY <1>12, <1>t, <2>1, <2>2 DEF DisableOut, EventDisable, OnInv
  <2>3. CASE outEV[c] # maxfd
    BY <1>12, <1>t, <2>1, <2>3 DEF DisableOut, EventDisable, OnInv
  <2> QED
    BY <2>2, <2>3
<1>13. ASSUME NEW c \in Core, ToLoop(c)
       PROVE  OnInv'
  <2>1. OnFrame
    BY <1>13, <1>t DEF OnFrame, ToLoop, HandlerReturns, Enabled
  <2> QED
    BY <1>t, <2>1, QuietOn
<1>14. ASSUME NEW c \in Core, PSelect(c)
       PROVE  OnInv'
  <2>1. OnFrame
    BY <1>14, <1>t DEF OnFrame, PSelect, DeviceReady
  <2> QED
    BY <1>t, <2>1, QuietOn
<1>15. ASSUME NEW c \in Core, AllocateCoreId(c), UNCHANGED <<conVars, ttyVars>>
       PROVE  OnInv'
  <2>1. OnFrame
    BY <1>15, <1>t DEF OnFrame, AllocateCoreId
  <2> QED
    BY <1>t, <2>1, QuietOn
<1>16. ASSUME NEW c \in Core, SetLcore(c), UNCHANGED <<conVars, ttyVars>>
       PROVE  OnInv'
  <2>1. OnFrame
    BY <1>16, <1>t DEF OnFrame, SetLcore
  <2> QED
    BY <1>t, <2>1, QuietOn
<1>17. ASSUME NEW c \in Core, CopyVecs(c), UNCHANGED <<conVars, ttyVars>>
       PROVE  OnInv'
  <2>1. OnFrame
    BY <1>17, <1>t DEF OnFrame, CopyVecs
  <2> QED
    BY <1>t, <2>1, QuietOn
<1>18. ASSUME NEW c \in Core, CreateRep(c), UNCHANGED <<conVars, ttyVars>>
       PROVE  OnInv'
  <2>1. OnFrame
    BY <1>18, <1>t DEF OnFrame, CreateRep
  <2> QED
    BY <1>t, <2>1, QuietOn
<1>19. ASSUME NEW c \in Core, AddRepOn(c), UNCHANGED <<conVars, ttyVars>>
       PROVE  OnInv'
  <2>1. OnFrame
    BY <1>19, <1>t DEF OnFrame, AddRepOn
  <2> QED
    BY <1>t, <2>1, QuietOn
<1>20. ASSUME NEW c \in Core, MapVec(c), UNCHANGED <<conVars, ttyVars>>
       PROVE  OnInv'
  <2>1. OnFrame
    BY <1>20, <1>t DEF OnFrame, MapVec
  <2> QED
    BY <1>t, <2>1, QuietOn
<1>21. ASSUME NEW c \in Core, NewMax(c), UNCHANGED <<conVars, ttyVars>>
       PROVE  OnInv'
  <2>1. UNCHANGED <<on, gvecs>> /\ maxfd' = Max(on \cup {NoFd})
    BY <1>21 DEF NewMax
  <2>2. \A v \in on : v <= maxfd'
    BY <1>t, <2>1, MaxOn
  <2> QED
    BY <1>t, <2>1, <2>2 DEF OnInv
<1>22. ASSUME NEW c \in Core, BlockForInterrupt(c), UNCHANGED <<conVars, ttyVars>>
       PROVE  OnInv'
  <2>1. OnFrame
    BY <1>22, <1>t DEF OnFrame, BlockForInterrupt
  <2> QED
    BY <1>t, <2>1, QuietOn
<1>27. ASSUME NEW c \in Core, Select(c), UNCHANGED <<conVars, ttyVars>>
       PROVE  OnInv'
  <2>1. OnFrame
    BY <1>27, <1>t DEF OnFrame, Select
  <2> QED
    BY <1>t, <2>1, QuietOn
<1>23. ASSUME NEW c \in Core, Interrupted(c), UNCHANGED <<conVars, ttyVars>>
       PROVE  OnInv'
  <2>1. OnFrame
    BY <1>23, <1>t DEF OnFrame, Interrupted
  <2> QED
    BY <1>t, <2>1, QuietOn
<1>24. CASE Type
  <2>1. OnFrame
    BY <1>24, <1>t DEF OnFrame, Type
  <2> QED
    BY <1>t, <2>1, QuietOn
<1>25. CASE Display
  <2>1. OnFrame
    BY <1>25, <1>t DEF OnFrame, Display
  <2> QED
    BY <1>t, <2>1, QuietOn
<1>26. QED
  BY <1>1, <1>2, <1>3, <1>4, <1>5, <1>6, <1>7, <1>8, <1>9, <1>10, <1>11, <1>12,
     <1>13, <1>14, <1>15, <1>16, <1>17, <1>18, <1>19, <1>20, <1>21, <1>22,
     <1>23, <1>24, <1>25, <1>27
     DEF Next, Step, ClientStep, CoreStep

\* A step that maps no vector and brings no core past the copy of its vectors.
VecsFrame ==
  /\ UNCHANGED lvecs /\ ~aborted
  /\ \A v \in Vec : gvecs'[v] = "mapped" => gvecs[v] = "mapped"
  /\ \A k \in Core : pc'[k] \notin {"off", "lcore", "lvecs"}
                       => pc[k] \notin {"off", "lcore", "lvecs"}

\* A step that leaves the tables of vectors alone keeps VectorsAgree.
LEMMA QuietVecs ==
  ASSUME VectorsAgree, VecsFrame
  PROVE  VectorsAgree'
  BY DEF VectorsAgree, VecsFrame

\* mapvec reaches every core that has its id, and a core copies its vectors after
\* that under the same lock.
LEMMA VectorsStep ==
  ASSUME IInv, [Next]_vars
  PROVE  VectorsAgree'
<1> USE DEF At, Goto, Unlocked, Doing, Then, vars, evVars, picVars, unixVars, mgrVars,
           loopVars, conVars, bufVars, ttyVars
<1>1. CASE UNCHANGED vars
  BY <1>1 DEF IInv, VectorsAgree
<1>t. /\ EvTypeOK /\ VectorsAgree /\ pc \in [Core -> PC]
      /\ gvecs \in [Vec -> {"null", "allocated", "mapped"}]
      /\ lvecs \in [Core -> [Vec -> {"null", "allocated", "mapped"}]]
  BY DEF IInv, TypeOK, EvTypeOK
<1>2. ASSUME NEW c \in Core, AllocIn(c)
      PROVE  VectorsAgree'
  <2>1. Nearest \in Vec /\ gvecs[Nearest] = "null"
    BY <1>2, <1>t, NearestIsNull DEF AllocIn, AllocEventNo
  <2>2. VecsFrame
    BY <1>2, <1>t, <2>1 DEF VecsFrame, AllocIn, AllocEventNo
  <2> QED
    BY <1>t, <2>2, QuietVecs
<1>3. ASSUME NEW c \in Core, RegisterIn(c)
      PROVE  VectorsAgree'
  <2>1. VecsFrame
    BY <1>3, <1>t DEF VecsFrame, RegisterIn, RegisterHandler, Replicated
  <2> QED
    BY <1>t, <2>1, QuietVecs
<1>4. ASSUME NEW c \in Core, AllocOut(c)
      PROVE  VectorsAgree'
  <2>1. Nearest \in Vec /\ gvecs[Nearest] = "null"
    BY <1>4, <1>t, NearestIsNull DEF AllocOut, AllocEventNo
  <2>2. VecsFrame
    BY <1>4, <1>t, <2>1 DEF VecsFrame, AllocOut, AllocEventNo
  <2> QED
    BY <1>t, <2>2, QuietVecs
<1>5. ASSUME NEW c \in Core, RegisterOut(c)
      PROVE  VectorsAgree'
  <2>1. VecsFrame
    BY <1>5, <1>t DEF VecsFrame, RegisterOut, RegisterHandler, Replicated
  <2> QED
    BY <1>t, <2>1, QuietVecs
<1>6. ASSUME NEW c \in Core, EnableIn(c)
      PROVE  VectorsAgree'
  <2>1. VecsFrame
    BY <1>6, <1>t DEF VecsFrame, EnableIn, EventEnable
  <2> QED
    BY <1>t, <2>1, QuietVecs
<1>7. ASSUME NEW c \in Core, PrintHello(c)
      PROVE  VectorsAgree'
  <2>1. VecsFrame
    BY <1>7, <1>t DEF VecsFrame, PrintHello, PutChar, EventEnable
  <2> QED
    BY <1>t, <2>1, QuietVecs
<1>8. ASSUME NEW c \in Core, Dispatch(c)
      PROVE  VectorsAgree'
  <2>1. VecsFrame
    BY <1>8, <1>t, Dispatched DEF VecsFrame, Dispatch, DispatchEventLocal
  <2> QED
    BY <1>t, <2>1, QuietVecs
<1>9. ASSUME NEW c \in Core, InEvent(c)
      PROVE  VectorsAgree'
  <2>1. VecsFrame
    BY <1>9, <1>t DEF VecsFrame, InEvent
  <2> QED
    BY <1>t, <2>1, QuietVecs
<1>10. ASSUME NEW c \in Core, Echo(c)
       PROVE  VectorsAgree'
  <2>1. VecsFrame
    BY <1>10, <1>t DEF VecsFrame, Echo, PutChar, EventEnable, HasRoom
  <2> QED
    BY <1>t, <2>1, QuietVecs
<1>11. ASSUME NEW c \in Core, OutEvent(c)
       PROVE  VectorsAgree'
  <2>1. VecsFrame
    BY <1>11, <1>t DEF VecsFrame, OutEvent
  <2> QED
    BY <1>t, <2>1, QuietVecs
<1>12. ASSUME NEW c \in Core, DisableOut(c)
       PROVE  VectorsAgree'
  <2>1. VecsFrame
    BY <1>12, <1>t DEF VecsFrame, DisableOut, EventDisable
  <2> QED
    BY <1>t, <2>1, QuietVecs
<1>13. ASSUME NEW c \in Core, ToLoop(c)
       PROVE  VectorsAgree'
  <2>1. VecsFrame
    BY <1>13, <1>t DEF VecsFrame, ToLoop, HandlerReturns, Enabled
  <2> QED
    BY <1>t, <2>1, QuietVecs
<1>14. ASSUME NEW c \in Core, PSelect(c)
       PROVE  VectorsAgree'
  <2>1. VecsFrame
    BY <1>14, <1>t DEF VecsFrame, PSelect, DeviceReady
  <2> QED
    BY <1>t, <2>1, QuietVecs
<1>15. ASSUME NEW c \in Core, AllocateCoreId(c), UNCHANGED <<conVars, ttyVars>>
       PROVE  VectorsAgree'
  <2>1. VecsFrame
    BY <1>15, <1>t DEF VecsFrame, AllocateCoreId
  <2> QED
    BY <1>t, <2>1, QuietVecs
<1>16. ASSUME NEW c \in Core, SetLcore(c), UNCHANGED <<conVars, ttyVars>>
       PROVE  VectorsAgree'
  <2>1. VecsFrame
    BY <1>16, <1>t DEF VecsFrame, SetLcore
  <2> QED
    BY <1>t, <2>1, QuietVecs
<1>17. ASSUME NEW c \in Core, CopyVecs(c), UNCHANGED <<conVars, ttyVars>>
       PROVE  VectorsAgree'
  <2>1. /\ UNCHANGED <<gvecs, aborted>> /\ pc' = [pc EXCEPT ![c] = "createRep"]
        /\ lvecs' = [lvecs EXCEPT ![c] = gvecs] /\ ~aborted
    BY <1>17 DEF CopyVecs, StartVecs
  <2> QED
    BY <1>t, <2>1 DEF VectorsAgree
<1>18. ASSUME NEW c \in Core, CreateRep(c), UNCHANGED <<conVars, ttyVars>>
       PROVE  VectorsAgree'
  <2>1. VecsFrame
    BY <1>18, <1>t DEF VecsFrame, CreateRep
  <2> QED
    BY <1>t, <2>1, QuietVecs
<1>19. ASSUME NEW c \in Core, AddRepOn(c), UNCHANGED <<conVars, ttyVars>>
       PROVE  VectorsAgree'
  <2>1. VecsFrame
    BY <1>19, <1>t DEF VecsFrame, AddRepOn
  <2> QED
    BY <1>t, <2>1, QuietVecs
<1>20. ASSUME NEW c \in Core, MapVec(c), UNCHANGED <<conVars, ttyVars>>
       PROVE  VectorsAgree'
  <2> DEFINE v == ev[c]
  <2>1. v \in Vec /\ ~aborted /\ pc[c] = "mapvec"
    <3>1. pc[c] = "mapvec" /\ ~aborted
      BY <1>20 DEF MapVec
    <3>2. StageAt(c) /\ inEV[c] \in Vec \cup {None} /\ outEV[c] \in Vec \cup {None}
      BY DEF IInv, StageInv, TypeOK
    <3> QED
      BY <3>1, <3>2 DEF StageAt
  <2>2. /\ gvecs' = [gvecs EXCEPT ![v] = "mapped"] /\ pc' = [pc EXCEPT ![c] = "idle"]
        /\ lvecs' = [d \in Core |-> IF d \in KnownCores
                                     THEN [lvecs[d] EXCEPT ![v] = "mapped"] ELSE lvecs[d]]
    BY <1>20 DEF MapVec
  <2> HIDE DEF v
  <2>3. ASSUME NEW k \in Core, pc'[k] \notin {"off", "lcore", "lvecs"}
        PROVE  /\ pc[k] \notin {"off", "lcore", "lvecs"}
               /\ lvecs'[k] = [lvecs[k] EXCEPT ![v] = "mapped"]
    <3>1. pc[k] \notin {"off", "lcore", "lvecs"}
      BY <1>t, <2>1, <2>2, <2>3
    <3>2. k \in KnownCores
      BY <1>t, <3>1 DEF IInv, StartInv, StartAt, KnownCores, Core, EvTypeOK
    <3> QED
      BY <2>2, <3>1, <3>2
  <2>4. ASSUME NEW k \in Core, NEW w \in Vec, pc'[k] \notin {"off", "lcore", "lvecs"},
               gvecs'[w] = "mapped"
        PROVE  lvecs'[k][w] = "mapped"
    <3>1. lvecs[k] \in [Vec -> {"null", "allocated", "mapped"}]
      BY <1>t
    <3>2. CASE w = v
      BY <2>3, <2>4, <3>1, <3>2
    <3>3. CASE w # v
      BY <1>t, <2>1, <2>2, <2>3, <2>4, <3>1, <3>3 DEF VectorsAgree
    <3> QED
      BY <3>2, <3>3
  <2> QED
    BY <2>4 DEF VectorsAgree
<1>21. ASSUME NEW c \in Core, NewMax(c), UNCHANGED <<conVars, ttyVars>>
       PROVE  VectorsAgree'
  <2>1. VecsFrame
    BY <1>21, <1>t DEF VecsFrame, NewMax
  <2> QED
    BY <1>t, <2>1, QuietVecs
<1>22. ASSUME NEW c \in Core, BlockForInterrupt(c), UNCHANGED <<conVars, ttyVars>>
       PROVE  VectorsAgree'
  <2>1. VecsFrame
    BY <1>22, <1>t DEF VecsFrame, BlockForInterrupt
  <2> QED
    BY <1>t, <2>1, QuietVecs
<1>27. ASSUME NEW c \in Core, Select(c), UNCHANGED <<conVars, ttyVars>>
       PROVE  VectorsAgree'
  <2>1. VecsFrame
    BY <1>27, <1>t DEF VecsFrame, Select
  <2> QED
    BY <1>t, <2>1, QuietVecs
<1>23. ASSUME NEW c \in Core, Interrupted(c), UNCHANGED <<conVars, ttyVars>>
       PROVE  VectorsAgree'
  <2>1. VecsFrame
    BY <1>23, <1>t DEF VecsFrame, Interrupted
  <2> QED
    BY <1>t, <2>1, QuietVecs
<1>24. CASE Type
  <2>1. VecsFrame
    BY <1>24, <1>t DEF VecsFrame, Type
  <2> QED
    BY <1>t, <2>1, QuietVecs
<1>25. CASE Display
  <2>1. VecsFrame
    BY <1>25, <1>t DEF VecsFrame, Display
  <2> QED
    BY <1>t, <2>1, QuietVecs
<1>26. QED
  BY <1>1, <1>2, <1>3, <1>4, <1>5, <1>6, <1>7, <1>8, <1>9, <1>10, <1>11, <1>12,
     <1>13, <1>14, <1>15, <1>16, <1>17, <1>18, <1>19, <1>20, <1>21, <1>22,
     <1>23, <1>24, <1>25, <1>27
     DEF Next, Step, ClientStep, CoreStep

\* A core comes to blockforinterrupt with no vector and no descriptors in hand.
LEMMA LoopStep ==
  ASSUME IInv, [Next]_vars
  PROVE  LoopInv'
<1> USE DEF At, Goto, Unlocked, Doing, Then, vars, evVars, picVars, unixVars, mgrVars,
           loopVars, conVars, bufVars, ttyVars
<1>t. /\ LoopInv /\ pc \in [Core -> PC] /\ ev \in [Core -> Vec \cup {None}]
      /\ fdset \in [Core -> SUBSET Vec] /\ intrSet \in [Core -> SUBSET Vec]
  BY DEF IInv, TypeOK, EvTypeOK
<1>f. ASSUME NEW c \in Core, LoopAt(c)',
             \A k \in Core : k # c => UNCHANGED <<pc[k], ev[k], intrSet[k], fdset[k]>>
      PROVE  LoopInv'
  BY <1>t, <1>f DEF LoopInv, LoopAt
<1>g. ASSUME NEW c \in Core, UNCHANGED <<ev, intrSet, fdset>>,
             \A k \in Core : k # c => pc'[k] = pc[k],
             {pc[c], pc'[c]} \cap {"vecs", "mapvec", "nfds", "pselect"} = {}
      PROVE  LoopInv'
  BY <1>t, <1>g DEF LoopInv, LoopAt
<1>0. CASE UNCHANGED <<pc, ev, intrSet, fdset>>
  BY <1>t, <1>0 DEF LoopInv, LoopAt
<1>1. ASSUME NEW c \in Core, AllocIn(c) \/ AllocOut(c) \/ EnableIn(c) \/ InEvent(c) \/ OutEvent(c)
      PROVE  LoopInv'
  BY <1>1, <1>0 DEF AllocIn, AllocOut, AllocEventNo, EnableIn, EventEnable, InEvent, OutEvent
<1>2. ASSUME NEW c \in Core, PrintHello(c) \/ Echo(c)
      PROVE  LoopInv'
  BY <1>2, <1>0, PutCharEvent DEF EventEnable
<1>3. ASSUME NEW c \in Core,
             \/ DisableOut(c) \/ AllocateCoreId(c) \/ SetLcore(c) \/ CopyVecs(c)
             \/ CreateRep(c) \/ AddRepOn(c) \/ NewMax(c)
      PROVE  LoopInv'
  <2>1. UNCHANGED <<ev, intrSet, fdset>>
    BY <1>3 DEF DisableOut, EventDisable, AllocateCoreId, SetLcore, CopyVecs, CreateRep,
         AddRepOn, NewMax
  <2>2. \A k \in Core : k # c => pc'[k] = pc[k]
    BY <1>3, <1>t DEF DisableOut, EventDisable, AllocateCoreId, SetLcore, CopyVecs,
         CreateRep, AddRepOn, NewMax
  <2>3. {pc[c], pc'[c]} \cap {"vecs", "mapvec", "nfds", "pselect"} = {}
    BY <1>3, <1>t DEF DisableOut, EventDisable, AllocateCoreId, SetLcore, CopyVecs,
         CreateRep, AddRepOn, NewMax
  <2> QED
    BY <2>1, <2>2, <2>3, <1>g
<1>4. ASSUME NEW c \in Core, RegisterIn(c) \/ RegisterOut(c)
      PROVE  LoopInv'
  <2>1. PICK v : /\ ev' = [ev EXCEPT ![c] = v] /\ pc' = [pc EXCEPT ![c] = "mapvec"]
                 /\ pc[c] = "idle" /\ UNCHANGED <<intrSet, fdset>>
    BY <1>4 DEF RegisterIn, RegisterOut, RegisterHandler
  <2>2. LoopAt(c)'
    BY <1>t, <2>1 DEF LoopInv, LoopAt
  <2> QED
    BY <1>t, <1>f, <2>1, <2>2
<1>5. ASSUME NEW c \in Core, Dispatch(c)
      PROVE  LoopInv'
  <2>1. /\ UNCHANGED <<ev, fdset>> /\ intrSet' = [intrSet EXCEPT ![c] = intrSet'[c]]
        /\ pc' = [pc EXCEPT ![c] = pc'[c]] /\ pc'[c] \in {"idle", "vecs"}
        /\ pc[c] = "vecs" /\ intrSet[c] # {}
    BY <1>5, Dispatched DEF Dispatch, DispatchEventLocal
  <2>2. LoopAt(c)'
    BY <1>t, <2>1 DEF LoopInv, LoopAt
  <2> QED
    BY <1>t, <1>f, <2>1, <2>2
<1>6. ASSUME NEW c \in Core, ToLoop(c)
      PROVE  LoopInv'
  <2>1. /\ UNCHANGED <<ev, fdset, intrSet>> /\ pc' = [pc EXCEPT ![c] = "vecs"]
        /\ pc[c] = "idle"
    BY <1>6 DEF ToLoop, HandlerReturns
  <2>2. LoopAt(c)'
    BY <1>t, <2>1 DEF LoopInv, LoopAt
  <2> QED
    BY <1>t, <1>f, <2>1, <2>2
<1>7. ASSUME NEW c \in Core, PSelect(c) \/ Interrupted(c)
      PROVE  LoopInv'
  <2>1. PICK S : /\ intrSet' = [intrSet EXCEPT ![c] = S]
                 /\ fdset' = [fdset EXCEPT ![c] = {}] /\ pc' = [pc EXCEPT ![c] = "vecs"]
                 /\ pc[c] = "pselect" /\ UNCHANGED ev
    <3>1. CASE PSelect(c)
      BY <3>1 DEF PSelect, DeviceReady
    <3>2. CASE Interrupted(c)
      <4>1. intrSet' = [intrSet EXCEPT ![c] = intrSet[c]]
        BY <3>2, <1>t DEF Interrupted
      <4> QED
        BY <3>2, <4>1 DEF Interrupted
    <3> QED
      BY <1>7, <3>1, <3>2
  <2>2. LoopAt(c)'
    BY <1>t, <2>1 DEF LoopInv, LoopAt
  <2> QED
    BY <1>t, <1>f, <2>1, <2>2
<1>8. ASSUME NEW c \in Core, MapVec(c)
      PROVE  LoopInv'
  <2>1. /\ ev' = [ev EXCEPT ![c] = None] /\ pc' = [pc EXCEPT ![c] = "idle"]
        /\ pc[c] = "mapvec" /\ UNCHANGED <<intrSet, fdset>>
    BY <1>8 DEF MapVec
  <2>2. LoopAt(c)'
    BY <1>t, <2>1 DEF LoopInv, LoopAt
  <2> QED
    BY <1>t, <1>f, <2>1, <2>2
<1>9. ASSUME NEW c \in Core, BlockForInterrupt(c)
      PROVE  LoopInv'
  <2>1. PICK S : /\ fdset' = [fdset EXCEPT ![c] = S] /\ UNCHANGED intrSet
                 /\ intrSet[c] = {} /\ pc[c] = "vecs"
    BY <1>9 DEF BlockForInterrupt
  <2>2. \/ /\ pc' = pc /\ \E v \in Vec : ev' = [ev EXCEPT ![c] = v]
        \/ pc' = [pc EXCEPT ![c] = "nfds"] /\ ev' = [ev EXCEPT ![c] = None]
    BY <1>9 DEF BlockForInterrupt
  <2>3. LoopAt(c)'
    BY <1>t, <2>1, <2>2, EventMgrAssumption DEF LoopAt
  <2> QED
    BY <1>t, <1>f, <2>1, <2>2, <2>3
<1>10. ASSUME NEW c \in Core, Select(c)
       PROVE  LoopInv'
  <2>1. PICK S : /\ fdset' = [fdset EXCEPT ![c] = S] /\ pc' = [pc EXCEPT ![c] = "pselect"]
                 /\ pc[c] = "nfds" /\ UNCHANGED <<intrSet, ev>>
    BY <1>10 DEF Select
  <2>2. LoopAt(c)'
    BY <1>t, <2>1 DEF LoopInv, LoopAt
  <2> QED
    BY <1>t, <1>f, <2>1, <2>2
<1>11. CASE Type \/ Display \/ UNCHANGED vars
  BY <1>11, <1>0 DEF Type, Display
<1> QED
  BY <1>1, <1>2, <1>3, <1>4, <1>5, <1>6, <1>7, <1>8, <1>9, <1>10, <1>11
     DEF Next, Step, ClientStep, CoreStep

\* A step after which a core builds its fd sets, or waits, only if it did before, and for
\* the same descriptors, and which takes no wake-up away.
DeafFrame ==
  /\ UNCHANGED <<on, fds>> /\ ~aborted
  /\ \A k \in Core :
       /\ (Building(k) \/ Waiting(k))' =>
            /\ UNCHANGED <<pc[k], ev[k], fdset[k]>> /\ (k \in sig => k \in sig')
       /\ pc[k] = "newmax" => pc'[k] = "newmax"

\* A step that changes neither what is on nor the cores that wait keeps ScanInv.
LEMMA QuietDeaf ==
  ASSUME ScanInv, DeafFrame
  PROVE  ScanInv'
  BY DEF ScanInv, DeafFrame, Covered, Alarmed, Building, Waiting

\* The wake-ups reach every core that has started.
LEMMA AllWoken ==
  ASSUME IInv, NEW c \in Core, WakeUp(c), NEW k \in Core, pc[k] # "off"
  PROVE  k \in sig'
<1>1. k <= lastid /\ lastid \in Core
  BY DEF IInv, StartInv, StartAt, TypeOK, EvTypeOK
<1>2. k \in KnownCores
  BY <1>1 DEF KnownCores, Core
<1> QED
  BY <1>2 DEF WakeUp, Woken

\* A step that wakes all of them leaves none deaf.
LEMMA WokenDeaf ==
  ASSUME IInv, NEW c \in Core, WakeUp(c),
         \A k \in Core : (Building(k) \/ Waiting(k))' => pc[k] # "off"
  PROVE  ScanInv'
<1>1. \A k \in Core : (Building(k) \/ Waiting(k))' => k \in sig'
  BY AllWoken
<1> QED
  BY <1>1 DEF ScanInv, Covered, Alarmed

\* Every change of what is on is followed by a wake-up, or by the search for the
\* new highest vector and then a wake-up.
LEMMA DeafStep ==
  ASSUME IInv, [Next]_vars
  PROVE  ScanInv'
<1> USE DEF At, Goto, Unlocked, Doing, Then, vars, evVars, picVars, unixVars, mgrVars,
           loopVars, conVars, bufVars, ttyVars
<1>1. CASE UNCHANGED vars
  BY <1>1 DEF IInv, ScanInv, Covered, Alarmed, Building, Waiting
<1>t. /\ ScanInv /\ OnInv /\ LoopInv /\ ev \in [Core -> Vec \cup {None}]
      /\ pc \in [Core -> PC] /\ fdset \in [Core -> SUBSET Vec]
  BY DEF IInv, TypeOK, EvTypeOK
<1>2. ASSUME NEW c \in Core, AllocIn(c)
      PROVE  ScanInv'
  <2>1. DeafFrame
    BY <1>2, <1>t DEF DeafFrame, Building, Waiting, AllocIn, AllocEventNo
  <2> QED
    BY <1>t, <2>1, QuietDeaf
<1>3. ASSUME NEW c \in Core, RegisterIn(c)
      PROVE  ScanInv'
  <2>1. DeafFrame
    BY <1>3, <1>t DEF DeafFrame, Building, Waiting, RegisterIn, RegisterHandler, Replicated
  <2> QED
    BY <1>t, <2>1, QuietDeaf
<1>4. ASSUME NEW c \in Core, AllocOut(c)
      PROVE  ScanInv'
  <2>1. DeafFrame
    BY <1>4, <1>t DEF DeafFrame, Building, Waiting, AllocOut, AllocEventNo
  <2> QED
    BY <1>t, <2>1, QuietDeaf
<1>5. ASSUME NEW c \in Core, RegisterOut(c)
      PROVE  ScanInv'
  <2>1. DeafFrame
    BY <1>5, <1>t DEF DeafFrame, Building, Waiting, RegisterOut, RegisterHandler, Replicated
  <2> QED
    BY <1>t, <2>1, QuietDeaf
<1>6. ASSUME NEW c \in Core, EnableIn(c)
      PROVE  ScanInv'
  BY <1>6, WokenDeaf, <1>t DEF Building, Waiting, EnableIn, EventEnable
<1>7. ASSUME NEW c \in Core, PrintHello(c)
      PROVE  ScanInv'
  <2>1. CASE UNCHANGED evVars
    <3>1. DeafFrame
      BY <1>7, <2>1 DEF DeafFrame, Building, Waiting, PrintHello
    <3> QED
      BY <1>t, <3>1, QuietDeaf
  <2>2. CASE EventEnable(c, outEV[c])
    BY <1>7, <2>2, WokenDeaf, <1>t DEF Building, Waiting, EventEnable
  <2> QED
    BY <1>7, <2>1, <2>2, PutCharEvent
<1>8. ASSUME NEW c \in Core, Dispatch(c)
      PROVE  ScanInv'
  <2>1. DeafFrame
    BY <1>8, <1>t, Dispatched DEF DeafFrame, Building, Waiting, Dispatch, DispatchEventLocal
  <2> QED
    BY <1>t, <2>1, QuietDeaf
<1>9. ASSUME NEW c \in Core, InEvent(c)
      PROVE  ScanInv'
  <2>1. DeafFrame
    BY <1>9, <1>t DEF DeafFrame, Building, Waiting, InEvent
  <2> QED
    BY <1>t, <2>1, QuietDeaf
<1>10. ASSUME NEW c \in Core, Echo(c)
       PROVE  ScanInv'
  <2>1. CASE UNCHANGED evVars
    <3>1. DeafFrame
      BY <1>10, <2>1 DEF DeafFrame, Building, Waiting, Echo
    <3> QED
      BY <1>t, <3>1, QuietDeaf
  <2>2. CASE EventEnable(c, outEV[c])
    BY <1>10, <2>2, WokenDeaf, <1>t DEF Building, Waiting, EventEnable
  <2> QED
    BY <1>10, <2>1, <2>2, PutCharEvent
<1>11. ASSUME NEW c \in Core, OutEvent(c)
       PROVE  ScanInv'
  <2>1. DeafFrame
    BY <1>11, <1>t DEF DeafFrame, Building, Waiting, OutEvent
  <2> QED
    BY <1>t, <2>1, QuietDeaf
<1>12. ASSUME NEW c \in Core, DisableOut(c)
       PROVE  ScanInv'
  <2>1. CASE outEV[c] = maxfd
    <3>1. pc'[c] = "newmax"
      BY <1>12, <1>t, <2>1 DEF DisableOut, EventDisable
    <3> QED
      BY <3>1 DEF ScanInv, Alarmed
  <2>2. CASE outEV[c] # maxfd
    BY <1>12, <2>2, WokenDeaf, <1>t DEF Building, Waiting, DisableOut, EventDisable
  <2> QED
    BY <2>1, <2>2
<1>13. ASSUME NEW c \in Core, ToLoop(c)
       PROVE  ScanInv'
  <2>0. ev'[c] = None /\ pc'[c] = "vecs"
    BY <1>13, <1>t DEF ToLoop, HandlerReturns, Enabled, LoopInv, LoopAt
  <2>1. DeafFrame
    BY <1>13, <1>t, <2>0 DEF DeafFrame, Building, Waiting, ToLoop, HandlerReturns, Enabled
  <2> QED
    BY <1>t, <2>1, QuietDeaf
<1>14. ASSUME NEW c \in Core, PSelect(c)
       PROVE  ScanInv'
  <2>0. ev'[c] = None /\ pc'[c] = "vecs"
    BY <1>14, <1>t DEF PSelect, DeviceReady, LoopInv, LoopAt
  <2>1. DeafFrame
    BY <1>14, <1>t, <2>0 DEF DeafFrame, Building, Waiting, PSelect, DeviceReady
  <2> QED
    BY <1>t, <2>1, QuietDeaf
<1>15. ASSUME NEW c \in Core, AllocateCoreId(c), UNCHANGED <<conVars, ttyVars>>
       PROVE  ScanInv'
  <2>1. DeafFrame
    BY <1>15, <1>t DEF DeafFrame, Building, Waiting, AllocateCoreId
  <2> QED
    BY <1>t, <2>1, QuietDeaf
<1>16. ASSUME NEW c \in Core, SetLcore(c), UNCHANGED <<conVars, ttyVars>>
       PROVE  ScanInv'
  <2>1. DeafFrame
    BY <1>16, <1>t DEF DeafFrame, Building, Waiting, SetLcore
  <2> QED
    BY <1>t, <2>1, QuietDeaf
<1>17. ASSUME NEW c \in Core, CopyVecs(c), UNCHANGED <<conVars, ttyVars>>
       PROVE  ScanInv'
  <2>1. DeafFrame
    BY <1>17, <1>t DEF DeafFrame, Building, Waiting, CopyVecs
  <2> QED
    BY <1>t, <2>1, QuietDeaf
<1>18. ASSUME NEW c \in Core, CreateRep(c), UNCHANGED <<conVars, ttyVars>>
       PROVE  ScanInv'
  <2>1. DeafFrame
    BY <1>18, <1>t DEF DeafFrame, Building, Waiting, CreateRep
  <2> QED
    BY <1>t, <2>1, QuietDeaf
<1>19. ASSUME NEW c \in Core, AddRepOn(c), UNCHANGED <<conVars, ttyVars>>
       PROVE  ScanInv'
  <2>1. DeafFrame
    BY <1>19, <1>t DEF DeafFrame, Building, Waiting, AddRepOn
  <2> QED
    BY <1>t, <2>1, QuietDeaf
<1>20. ASSUME NEW c \in Core, MapVec(c), UNCHANGED <<conVars, ttyVars>>
       PROVE  ScanInv'
  <2>1. /\ UNCHANGED <<on, sig, fdset>> /\ pc' = [pc EXCEPT ![c] = "idle"]
        /\ ~aborted /\ pc[c] = "mapvec"
    BY <1>20 DEF MapVec
  <2>2. PICK opened \in SUBSET {ev[c]} : fds' = fds \cup opened
    BY <1>20 DEF MapVec
  <2>3. ev[c] \notin on
    <3>1. gvecs[ev[c]] = "allocated"
      <4>1. StageAt(c) /\ inEV[c] \in Vec \cup {None} /\ outEV[c] \in Vec \cup {None}
        BY DEF IInv, StageInv, TypeOK
      <4> QED
        BY <2>1, <4>1 DEF StageAt
    <3> QED
      BY <1>t, <3>1 DEF OnInv
  <2>4. on' \cap fds' = on \cap fds
    BY <2>1, <2>2, <2>3
  <2>5. ev' = [ev EXCEPT ![c] = None]
    BY <1>20 DEF MapVec
  <2>6. \A k \in Core : (Covered(k) => Covered(k)') /\ (Alarmed(k) => Alarmed(k)')
    BY <1>t, <2>1, <2>4, <2>5 DEF Covered, Alarmed, Building, Waiting
  <2> QED
    BY <1>t, <2>1, <2>6 DEF ScanInv
<1>21. ASSUME NEW c \in Core, NewMax(c), UNCHANGED <<conVars, ttyVars>>
       PROVE  ScanInv'
  <2>1. WakeUp(c) /\ pc' = [pc EXCEPT ![c] = "idle"]
    BY <1>21 DEF NewMax
  <2>2. \A k \in Core : (Building(k) \/ Waiting(k))' => pc[k] # "off"
    BY <1>21, <1>t, <2>1 DEF NewMax, Building, Waiting
  <2> QED
    BY <2>1, <2>2, WokenDeaf
<1>22. ASSUME NEW c \in Core, BlockForInterrupt(c), UNCHANGED <<conVars, ttyVars>>
       PROVE  ScanInv'
  <2> DEFINE v == IF ev[c] = None THEN 0 ELSE ev[c]
  <2>1. /\ UNCHANGED <<on, fds, sig, aborted>> /\ ~aborted /\ pc[c] = "vecs"
        /\ fdset' = [fdset EXCEPT ![c] = fdset[c] \cup {w \in {v} \cap on \cap fds : w <= maxfd}]
    BY <1>22 DEF BlockForInterrupt
  <2>2. \/ v <= maxfd /\ v + 1 \in Vec /\ ev' = [ev EXCEPT ![c] = v + 1] /\ pc' = pc
        \/ /\ ~(v <= maxfd /\ v + 1 \in Vec)
           /\ ev' = [ev EXCEPT ![c] = None] /\ pc' = [pc EXCEPT ![c] = "nfds"]
    BY <1>22 DEF BlockForInterrupt
  <2>3. \A k \in Core : Alarmed(k) => Alarmed(k)'
    BY <1>t, <2>1, <2>2 DEF Alarmed
  <2>4. \A k \in Core : k # c /\ Covered(k) => Covered(k)'
    BY <1>t, <2>1, <2>2 DEF Covered, Building, Waiting
  <2>5. ASSUME ~Alarmed(c) PROVE Covered(c)'
    <3>1. /\ v \in Vec /\ on \subseteq Vec /\ maxfd \in Vec \cup {NoFd}
          /\ \A w \in on : w <= maxfd
      <4>1. v \in Vec
        BY <1>t, EventMgrAssumption DEF Vec
      <4> QED
        BY <1>t, <2>5, <4>1 DEF IInv, TypeOK, EvTypeOK, OnInv, Alarmed
    <3>2. fdset[c] = {w \in on \cap fds : w < v}
      <4>1. CASE ev[c] = None
        <5>1. fdset[c] = {}
          BY <1>t, <2>1, <4>1 DEF LoopInv, LoopAt
        <5>2. \A w \in on : ~(w < v)
          BY <3>1, <4>1 DEF Vec
        <5> QED
          BY <5>1, <5>2
      <4>2. CASE ev[c] # None
        BY <1>t, <2>1, <2>5, <4>2 DEF ScanInv, Covered, Building
      <4> QED
        BY <4>1, <4>2
    <3> HIDE DEF v
    <3>3. fdset'[c] = {w \in on \cap fds : w < v + 1}
      <4>1. fdset'[c] = fdset[c] \cup {w \in {v} \cap on \cap fds : w <= maxfd}
        BY <1>t, <2>1
      <4>2. \A w \in on : w < v + 1 <=> w < v \/ w = v
        BY <3>1 DEF Vec
      <4> QED
        BY <3>1, <3>2, <4>1, <4>2
    <3>4. CASE v <= maxfd /\ v + 1 \in Vec
      <4>1. ev'[c] = v + 1 /\ pc'[c] = "vecs"
        BY <1>t, <2>1, <2>2, <3>4
      <4> QED
        BY <2>1, <3>3, <4>1 DEF Covered, Building, Waiting
    <3>5. CASE ~(v <= maxfd /\ v + 1 \in Vec)
      <4>1. ev'[c] = None /\ pc'[c] = "nfds"
        BY <1>t, <2>1, <2>2, <3>5
      <4>2. \A w \in on : w < v + 1
        <5>1. NumVec \in Nat
          BY EventMgrAssumption
        <5> QED
          BY <3>1, <3>5, <5>1 DEF Vec, NoFd
      <4>3. fdset'[c] = on' \cap fds'
        BY <2>1, <3>3, <4>2
      <4> QED
        BY <4>1, <4>3 DEF Covered, Building, Waiting
    <3> QED
      BY <3>4, <3>5
  <2> QED
    BY <1>t, <2>1, <2>3, <2>4, <2>5 DEF ScanInv
<1>27. ASSUME NEW c \in Core, Select(c), UNCHANGED <<conVars, ttyVars>>
       PROVE  ScanInv'
  <2>1. /\ UNCHANGED <<on, fds, sig, aborted, ev>> /\ ~aborted /\ pc[c] = "nfds"
        /\ fdset' = [fdset EXCEPT ![c] = {w \in fdset[c] : w <= maxfd}]
        /\ pc' = [pc EXCEPT ![c] = "pselect"]
    BY <1>27 DEF Select
  <2>2. \A k \in Core : Alarmed(k) => Alarmed(k)'
    BY <1>t, <2>1 DEF Alarmed
  <2>3. \A k \in Core : k # c /\ Covered(k) => Covered(k)'
    BY <1>t, <2>1 DEF Covered, Building, Waiting
  <2>4. ASSUME ~Alarmed(c) PROVE Covered(c)'
    <3>1. \A w \in on : w <= maxfd
      BY <1>t, <2>4 DEF OnInv, Alarmed
    <3>2. fdset[c] = on \cap fds
      BY <1>t, <2>1, <2>4 DEF ScanInv, Covered, Waiting
    <3>3. fdset'[c] = on \cap fds
      BY <1>t, <2>1, <3>1, <3>2
    <3> QED
      BY <1>t, <2>1, <3>3 DEF Covered, Building, Waiting
  <2> QED
    BY <1>t, <2>1, <2>2, <2>3, <2>4 DEF ScanInv
<1>23. ASSUME NEW c \in Core, Interrupted(c), UNCHANGED <<conVars, ttyVars>>
       PROVE  ScanInv'
  <2>0. ev'[c] = None /\ pc'[c] = "vecs"
    BY <1>23, <1>t DEF Interrupted, LoopInv, LoopAt
  <2>1. DeafFrame
    BY <1>23, <1>t, <2>0 DEF DeafFrame, Building, Waiting, Interrupted
  <2> QED
    BY <1>t, <2>1, QuietDeaf
<1>24. CASE Type
  <2>1. DeafFrame
    BY <1>24, <1>t DEF DeafFrame, Building, Waiting, Type
  <2> QED
    BY <1>t, <2>1, QuietDeaf
<1>25. CASE Display
  <2>1. DeafFrame
    BY <1>25, <1>t DEF DeafFrame, Building, Waiting, Display
  <2> QED
    BY <1>t, <2>1, QuietDeaf
<1>26. QED
  BY <1>1, <1>2, <1>3, <1>4, <1>5, <1>6, <1>7, <1>8, <1>9, <1>10, <1>11, <1>12,
     <1>13, <1>14, <1>15, <1>16, <1>17, <1>18, <1>19, <1>20, <1>21, <1>22,
     <1>23, <1>24, <1>25, <1>27
     DEF Next, Step, ClientStep, CoreStep

\* A step that touches no output buffer, turns nothing off, and does not go back
\* to ConsTst_start.
BufFrame ==
  /\ UNCHANGED <<outstart, outlen, left>> /\ on \subseteq on'
  /\ \A k \in Core :
       /\ outlen[k] > 0 => outEV'[k] = outEV[k]
       /\ stage'[k] = "disableOut" => stage[k] = "disableOut"
       /\ stage'[k] \in Early \cup {"print"} => stage[k] \in Early \cup {"print"}

\* A step that leaves the buffers and their events alone keeps BufInv.
LEMMA QuietBuf ==
  ASSUME BufInv, BufFrame
  PROVE  BufInv'
  BY DEF BufInv, BufAt, BufFrame

\* putChar counts the character it puts into the buffer, and only then is the
\* output event needed.
LEMMA PutCharBuf ==
  ASSUME IInv, NEW c \in Core, NEW ch, PutChar(c, ch), HasRoom(c), pc[c] = "idle",
         stage[c] \in {"print", "echo"}, UNCHANGED <<outEV, outstart, stage>>,
         left' = IF stage[c] = "print" THEN [left EXCEPT ![c] = @ - 1] ELSE left
  PROVE  BufInv'
<1>t. /\ outstart \in [Core -> 0..BufSize] /\ outlen \in [Core -> 0..BufSize]
      /\ left \in [Core -> 0..Greeting] /\ BufInv
  BY DEF IInv, TypeOK
<1>1. outlen' = [outlen EXCEPT ![c] = @ + 1]
  BY DEF PutChar
<1>2. on \subseteq on' /\ outEV[c] \in on'
  <2>1. CASE FirstChar(c)
    BY <2>1 DEF PutChar, EventEnable
  <2>2. CASE ~FirstChar(c)
    BY <1>t, <2>2 DEF PutChar, FirstChar, evVars, unixVars, BufInv, BufAt
  <2> QED
    BY <2>1, <2>2
<1>3. ASSUME NEW k \in Core, k # c PROVE BufAt(k)'
  BY <1>t, <1>1, <1>2, <1>3 DEF BufInv, BufAt
<1>4. BufAt(c)'
  <2>1. outlen'[c] = outlen[c] + 1 /\ outstart'[c] = outstart[c] /\ BufAt(c)
    BY <1>t, <1>1 DEF BufInv
  <2>2. outlen'[c] > 0 /\ outstart'[c] + outlen'[c] <= BufSize
    BY <1>t, <2>1 DEF HasRoom
  <2>3. stage[c] = "print" => outstart'[c] = 0 /\ outlen'[c] + left'[c] = Greeting
    BY <1>t, <2>1 DEF BufAt
  <2> QED
    BY <1>2, <2>2, <2>3 DEF BufAt, Early
<1> QED
  BY <1>3, <1>4 DEF BufInv

\* The greeting fits into the buffer.
LEMMA PrintRoom ==
  ASSUME IInv, NEW c \in Core, PrintHello(c)
  PROVE  HasRoom(c)
<1>1. /\ outstart[c] = 0 /\ outlen[c] + left[c] = Greeting /\ outlen[c] \in Nat
      /\ left[c] \in Nat /\ left[c] > 0
  BY DEF IInv, TypeOK, BufInv, BufAt, PrintHello, Doing
<1> QED
  BY <1>1 DEF HasRoom

\* The buffer never overruns, and holds characters only while the output event is
\* on: other cores turn off other vectors.
LEMMA BufStep ==
  ASSUME IInv, [Next]_vars
  PROVE  BufInv'
<1> USE DEF At, Goto, Unlocked, Doing, Then, vars, evVars, picVars, unixVars, mgrVars,
           loopVars, conVars, bufVars, ttyVars
<1>1. CASE UNCHANGED vars
  BY <1>1 DEF IInv, BufInv, BufAt
<1>t. /\ outstart \in [Core -> 0..BufSize] /\ outlen \in [Core -> 0..BufSize]
      /\ stage \in [Core -> Stage] /\ room \in 0..TtyRoom /\ on \subseteq Vec /\ BufInv
      /\ left \in [Core -> 0..Greeting] /\ outEV \in [Core -> Vec \cup {None}]
  BY DEF IInv, TypeOK, EvTypeOK
<1>2. ASSUME NEW c \in Core, AllocIn(c)
      PROVE  BufInv'
  <2>1. BufFrame
    BY <1>2, <1>t DEF BufFrame, Early, AllocIn, AllocEventNo
  <2> QED
    BY <1>t, <2>1, QuietBuf
<1>3. ASSUME NEW c \in Core, RegisterIn(c)
      PROVE  BufInv'
  <2>1. BufFrame
    BY <1>3, <1>t DEF BufFrame, Early, RegisterIn, RegisterHandler, Replicated
  <2> QED
    BY <1>t, <2>1, QuietBuf
<1>4. ASSUME NEW c \in Core, AllocOut(c)
      PROVE  BufInv'
  <2>1. outlen[c] = 0
    <3>1. outEV[c] = None
      BY <1>4 DEF AllocOut, IInv, StageInv, StageAt
    <3> QED
      BY <1>t, <3>1 DEF BufInv, BufAt
  <2>2. BufFrame
    BY <1>4, <1>t, <2>1 DEF BufFrame, AllocOut, AllocEventNo, Early
  <2> QED
    BY <1>t, <2>2, QuietBuf
<1>5. ASSUME NEW c \in Core, RegisterOut(c)
      PROVE  BufInv'
  <2>1. BufFrame
    BY <1>5, <1>t DEF BufFrame, Early, RegisterOut, RegisterHandler, Replicated
  <2> QED
    BY <1>t, <2>1, QuietBuf
<1>6. ASSUME NEW c \in Core, EnableIn(c)
      PROVE  BufInv'
  <2>1. BufFrame
    BY <1>6, <1>t DEF BufFrame, Early, EnableIn, EventEnable
  <2> QED
    BY <1>t, <2>1, QuietBuf
<1>7. ASSUME NEW c \in Core, PrintHello(c)
      PROVE  BufInv'
  BY <1>7, PrintRoom, PutCharBuf DEF PrintHello
<1>8. ASSUME NEW c \in Core, Dispatch(c)
      PROVE  BufInv'
  <2>1. BufFrame
    BY <1>8, <1>t, Dispatched DEF BufFrame, Early, Dispatch, DispatchEventLocal
  <2> QED
    BY <1>t, <2>1, QuietBuf
<1>9. ASSUME NEW c \in Core, InEvent(c)
      PROVE  BufInv'
  <2>1. BufFrame
    BY <1>9, <1>t DEF BufFrame, Early, InEvent
  <2> QED
    BY <1>t, <2>1, QuietBuf
<1>10. ASSUME NEW c \in Core, Echo(c)
       PROVE  BufInv'
  <2>1. CASE HasRoom(c) /\ PutChar(c, Last(in_c[c]))
    BY <1>10, <2>1, PutCharBuf DEF Echo
  <2>2. CASE ~HasRoom(c)
    <3>1. BufFrame
      BY <1>10, <2>2 DEF BufFrame, Echo
    <3> QED
      BY <1>t, <3>1, QuietBuf
  <2> QED
    BY <1>10, <2>1, <2>2 DEF Echo
<1>11. ASSUME NEW c \in Core, OutEvent(c)
       PROVE  BufInv'
  <2> DEFINE n == MinOf(outlen[c], room)
  <2>1. n \in Nat /\ n <= outlen[c]
    BY <1>t DEF MinOf
  <2>2. UNCHANGED <<on, outEV, left>>
    BY <1>11 DEF OutEvent
  <2>a. outlen' = [outlen EXCEPT ![c] = outlen[c] - n]
    BY <1>11 DEF OutEvent
  <2>b. outstart' = [outstart EXCEPT ![c] = IF n = outlen[c] THEN 0 ELSE outstart[c] + n]
    BY <1>11 DEF OutEvent
  <2>c. stage' = [stage EXCEPT ![c] = IF n > 0 /\ n = outlen[c] THEN "disableOut"
                                     ELSE "return"]
    BY <1>11 DEF OutEvent
  <2> HIDE DEF n
  <2>3. ASSUME NEW k \in Core, k # c PROVE BufAt(k)'
    BY <1>t, <2>2, <2>a, <2>b, <2>c, <2>3 DEF BufInv, BufAt
  <2>4. BufAt(c)'
    <3>1. outlen'[c] = outlen[c] - n /\ (outlen'[c] > 0 => outlen[c] > 0)
      BY <1>t, <2>1, <2>a
    <3>2. outstart'[c] + outlen'[c] <= BufSize
      <4>1. outstart[c] + outlen[c] <= BufSize /\ outlen[c] \in Nat /\ outstart[c] \in Nat
        BY <1>t DEF BufInv, BufAt
      <4>2. outstart'[c] = IF n = outlen[c] THEN 0 ELSE outstart[c] + n
        BY <1>t, <2>b
      <4> QED
        BY <2>1, <3>1, <4>1, <4>2
    <3>3. stage'[c] = "disableOut" => outlen'[c] = 0
      BY <1>t, <2>1, <2>c, <3>1
    <3>4. stage'[c] \notin Early \cup {"print"}
      BY <1>t, <2>c DEF Early
    <3> QED
      BY <1>t, <2>2, <3>1, <3>2, <3>3, <3>4 DEF BufInv, BufAt
  <2> QED
    BY <2>3, <2>4 DEF BufInv
<1>12. ASSUME NEW c \in Core, DisableOut(c)
       PROVE  BufInv'
  <2>1. /\ UNCHANGED <<outstart, outlen, left, outEV>> /\ on' = on \ {outEV[c]}
        /\ stage' = [stage EXCEPT ![c] = "return"] /\ stage[c] = "disableOut"
    BY <1>12 DEF DisableOut, EventDisable
  <2>2. ASSUME NEW k \in Core, k # c PROVE BufAt(k)'
    <3>1. outEV[k] \in on => outEV[k] # outEV[c]
      BY <1>t, <2>2 DEF IInv, DistinctInv, DistinctAt
    <3> QED
      BY <1>t, <2>1, <2>2, <3>1 DEF BufInv, BufAt
  <2>3. BufAt(c)'
    BY <1>t, <2>1 DEF BufInv, BufAt, Early
  <2> QED
    BY <2>2, <2>3 DEF BufInv
<1>13. ASSUME NEW c \in Core, ToLoop(c)
       PROVE  BufInv'
  <2>1. BufFrame
    BY <1>13, <1>t DEF BufFrame, Early, ToLoop, HandlerReturns, Enabled
  <2> QED
    BY <1>t, <2>1, QuietBuf
<1>14. ASSUME NEW c \in Core, PSelect(c)
       PROVE  BufInv'
  <2>1. BufFrame
    BY <1>14, <1>t DEF BufFrame, Early, PSelect, DeviceReady
  <2> QED
    BY <1>t, <2>1, QuietBuf
<1>15. ASSUME NEW c \in Core, AllocateCoreId(c), UNCHANGED <<conVars, ttyVars>>
       PROVE  BufInv'
  <2>1. BufFrame
    BY <1>15, <1>t DEF BufFrame, Early, AllocateCoreId
  <2> QED
    BY <1>t, <2>1, QuietBuf
<1>16. ASSUME NEW c \in Core, SetLcore(c), UNCHANGED <<conVars, ttyVars>>
       PROVE  BufInv'
  <2>1. BufFrame
    BY <1>16, <1>t DEF BufFrame, Early, SetLcore
  <2> QED
    BY <1>t, <2>1, QuietBuf
<1>17. ASSUME NEW c \in Core, CopyVecs(c), UNCHANGED <<conVars, ttyVars>>
       PROVE  BufInv'
  <2>1. BufFrame
    BY <1>17, <1>t DEF BufFrame, Early, CopyVecs
  <2> QED
    BY <1>t, <2>1, QuietBuf
<1>18. ASSUME NEW c \in Core, CreateRep(c), UNCHANGED <<conVars, ttyVars>>
       PROVE  BufInv'
  <2>1. BufFrame
    BY <1>18, <1>t DEF BufFrame, Early, CreateRep
  <2> QED
    BY <1>t, <2>1, QuietBuf
<1>19. ASSUME NEW c \in Core, AddRepOn(c), UNCHANGED <<conVars, ttyVars>>
       PROVE  BufInv'
  <2>1. BufFrame
    BY <1>19, <1>t DEF BufFrame, Early, AddRepOn
  <2> QED
    BY <1>t, <2>1, QuietBuf
<1>20. ASSUME NEW c \in Core, MapVec(c), UNCHANGED <<conVars, ttyVars>>
       PROVE  BufInv'
  <2>1. BufFrame
    BY <1>20, <1>t DEF BufFrame, Early, MapVec
  <2> QED
    BY <1>t, <2>1, QuietBuf
<1>21. ASSUME NEW c \in Core, NewMax(c), UNCHANGED <<conVars, ttyVars>>
       PROVE  BufInv'
  <2>1. BufFrame
    BY <1>21, <1>t DEF BufFrame, Early, NewMax
  <2> QED
    BY <1>t, <2>1, QuietBuf
<1>22. ASSUME NEW c \in Core, BlockForInterrupt(c), UNCHANGED <<conVars, ttyVars>>
       PROVE  BufInv'
  <2>1. BufFrame
    BY <1>22, <1>t DEF BufFrame, Early, BlockForInterrupt
  <2> QED
    BY <1>t, <2>1, QuietBuf
<1>27. ASSUME NEW c \in Core, Select(c), UNCHANGED <<conVars, ttyVars>>
       PROVE  BufInv'
  <2>1. BufFrame
    BY <1>27, <1>t DEF BufFrame, Early, Select
  <2> QED
    BY <1>t, <2>1, QuietBuf
<1>23. ASSUME NEW c \in Core, Interrupted(c), UNCHANGED <<conVars, ttyVars>>
       PROVE  BufInv'
  <2>1. BufFrame
    BY <1>23, <1>t DEF BufFrame, Early, Interrupted
  <2> QED
    BY <1>t, <2>1, QuietBuf
<1>24. CASE Type
  <2>1. BufFrame
    BY <1>24, <1>t DEF BufFrame, Early, Type
  <2> QED
    BY <1>t, <2>1, QuietBuf
<1>25. CASE Display
  <2>1. BufFrame
    BY <1>25, <1>t DEF BufFrame, Early, Display
  <2> QED
    BY <1>t, <2>1, QuietBuf
<1>26. QED
  BY <1>1, <1>2, <1>3, <1>4, <1>5, <1>6, <1>7, <1>8, <1>9, <1>10, <1>11, <1>12,
     <1>13, <1>14, <1>15, <1>16, <1>17, <1>18, <1>19, <1>20, <1>21, <1>22,
     <1>23, <1>24, <1>25, <1>27
     DEF Next, Step, ClientStep, CoreStep

\* A function on 1..n is a sequence of length n.
LEMMA FunSeq ==
  ASSUME NEW S, NEW n \in Nat, NEW f \in [1..n -> S]
  PROVE  f \in Seq(S) /\ Len(f) = n
  OBVIOUS

\* Appending to the second of two sequences.
LEMMA AppendAfter ==
  \A w, q \in Seq(Char) : \A x \in Char : Append(w \o q, x) = w \o Append(q, x)
<1> TAKE w, q \in Seq(Char)
<1> TAKE x \in Char
<1>1. <<x>> \in Seq(Char) /\ w \o q \in Seq(Char)
  OBVIOUS
<1>2. Append(w \o q, x) = (w \o q) \o <<x>> /\ Append(q, x) = q \o <<x>>
  BY <1>1, AppendIsConcat
<1>3. \A u \in Seq(Char) : (w \o q) \o u = w \o (q \o u)
  BY ConcatAssociative
<1>4. (w \o q) \o <<x>> = w \o (q \o <<x>>)
  BY <1>1, <1>3
<1> QED
  BY <1>2, <1>4

\* A sequence is the concatenation of its front and its rest.
LEMMA FrontAndRest ==
  ASSUME NEW S, NEW b \in Seq(S), NEW a \in Seq(S), NEW d \in Seq(S),
         Len(b) = Len(a) + Len(d), \A i \in 1..Len(a) : a[i] = b[i],
         \A i \in 1..Len(d) : d[i] = b[Len(a) + i]
  PROVE  b = a \o d
<1>1. /\ a \o d \in Seq(S) /\ Len(a \o d) = Len(a) + Len(d)
      /\ Len(a) \in Nat /\ Len(d) \in Nat
      /\ \A i \in 1..(Len(a) + Len(d)) :
           (a \o d)[i] = IF i <= Len(a) THEN a[i] ELSE d[i - Len(a)]
  OBVIOUS
<1>2. ASSUME NEW i \in 1..Len(b) PROVE b[i] = (a \o d)[i]
  <2>1. CASE i <= Len(a)
    BY <1>1, <2>1
  <2>2. CASE i > Len(a)
    <3>1. i - Len(a) \in 1..Len(d) /\ Len(a) + (i - Len(a)) = i
      BY <1>1, <2>2
    <3> QED
      BY <1>1, <2>2, <3>1
  <2>3. i <= Len(a) \/ i > Len(a)
    BY <1>1
  <2> QED
    BY <2>1, <2>2, <2>3
<1> QED
  BY <1>1, <1>2, SeqEqual

\* The characters in the buffer of console c.
Buf(c) == [i \in 1..outlen[c] |-> out_c[c][outstart[c] + i - 1]]

\* The buffer is a piece of the array out_c.
LEMMA BufSeq ==
  ASSUME IInv, NEW c \in Core
  PROVE  /\ Buf(c) \in Seq(Char) /\ Len(Buf(c)) = outlen[c] /\ outlen[c] \in Nat
         /\ outstart[c] \in Nat /\ outstart[c] + outlen[c] <= BufSize
         /\ out_c[c] \in [0..(BufSize - 1) -> Char]
<1>1. /\ outlen[c] \in Nat /\ outstart[c] \in Nat /\ outstart[c] + outlen[c] <= BufSize
      /\ out_c[c] \in [0..(BufSize - 1) -> Char]
  BY DEF IInv, TypeOK, BufInv, BufAt
<1>2. \A i \in 1..outlen[c] : out_c[c][outstart[c] + i - 1] \in Char
  BY <1>1
<1>3. Buf(c) \in [1..outlen[c] -> Char]
  BY <1>2 DEF Buf
<1> QED
  BY <1>1, <1>3, FunSeq

\* A character after the last one of the buffer is the last one accepted.
LEMMA PutInOrder ==
  ASSUME IInv, NEW c \in Core, NEW ch \in Char, PutChar(c, ch), HasRoom(c),
         UNCHANGED <<outstart, written>>
  PROVE  OutputInOrder'
<1>1. /\ out_c' = [out_c EXCEPT ![c] = [out_c[c] EXCEPT ![outstart[c] + outlen[c]] = ch]]
      /\ outlen' = [outlen EXCEPT ![c] = outlen[c] + 1]
      /\ accepted' = [accepted EXCEPT ![c] = Append(accepted[c], ch)]
  BY DEF PutChar
<1>t. /\ out_c \in [Core -> [0..(BufSize - 1) -> Char]] /\ outlen \in [Core -> 0..BufSize]
      /\ written \in [Core -> Seq(Char)] /\ accepted \in [Core -> Seq(Char)]
  BY DEF IInv, TypeOK
<1>2. \A k \in Core : accepted[k] = written[k] \o Buf(k)
  BY DEF IInv, OutputInOrder, Buf
<1>3. ASSUME NEW k \in Core, k # c
      PROVE  accepted'[k] = written'[k] \o Buf(k)'
  BY <1>1, <1>t, <1>2, <1>3 DEF Buf
<1>4. Buf(c)' = Append(Buf(c), ch)
  <2> DEFINE n == outlen[c]  s == outstart[c]
  <2>1. /\ n \in Nat /\ s \in Nat /\ s + n < BufSize /\ outlen'[c] = n + 1 /\ outstart'[c] = s
        /\ out_c[c] \in [0..(BufSize - 1) -> Char] /\ BufSize \in Nat
    BY <1>1, <1>t, BufSeq DEF HasRoom
  <2>2. out_c'[c] = [out_c[c] EXCEPT ![s + n] = ch]
    BY <1>1, <1>t
  <2>3. Buf(c)' = [i \in 1..(n + 1) |-> out_c'[c][s + i - 1]]
    BY <2>1 DEF Buf
  <2>4. Buf(c) \in Seq(Char) /\ Len(Buf(c)) = n /\ \A i \in 1..n : Buf(c)[i] = out_c[c][s + i - 1]
    BY BufSeq DEF Buf
  <2> HIDE DEF n, s
  <2>5. ASSUME NEW i \in 1..(n + 1)
        PROVE  /\ Buf(c)'[i] = Append(Buf(c), ch)[i]
               /\ Buf(c)'[i] \in Char
    <3>1. CASE i = n + 1
      <4>1. s + i - 1 = s + n /\ s + n \in 0..(BufSize - 1)
        BY <2>1, <3>1
      <4>2. out_c'[c][s + n] = ch
        BY <2>1, <2>2, <4>1
      <4>3. Append(Buf(c), ch)[n + 1] = ch
        BY <2>1, <2>4, AppendProperties
      <4> QED
        BY <2>3, <3>1, <4>1, <4>2, <4>3
    <3>2. CASE i \in 1..n
      <4>1. s + i - 1 # s + n /\ s + i - 1 \in 0..(BufSize - 1)
        BY <2>1, <3>2
      <4>2. out_c'[c][s + i - 1] = out_c[c][s + i - 1] /\ out_c[c][s + i - 1] \in Char
        BY <2>1, <2>2, <4>1
      <4>3. Append(Buf(c), ch)[i] = Buf(c)[i]
        BY <2>1, <2>4, <3>2, AppendProperties
      <4> QED
        BY <2>3, <2>4, <3>2, <4>2, <4>3
    <3>3. n \in Nat
      BY <2>1
    <3>4. i = n + 1 \/ i \in 1..n
      BY <3>3
    <3> QED
      BY <3>1, <3>2, <3>4
  <2>6. Buf(c)' \in Seq(Char) /\ Len(Buf(c)') = n + 1
    <3>1. n + 1 \in Nat /\ Buf(c)' \in [1..(n + 1) -> Char]
      <4>1. \A i \in 1..(n + 1) : out_c'[c][s + i - 1] \in Char
        BY <2>3, <2>5
      <4>2. n \in Nat
        BY <2>1
      <4>3. n + 1 \in Nat
        BY <4>2
      <4>4. [i \in 1..(n + 1) |-> out_c'[c][s + i - 1]] \in [1..(n + 1) -> Char]
        BY <4>1
      <4> QED
        BY <2>3, <4>3, <4>4
    <3> QED
      BY <3>1, FunSeq
  <2>7. Append(Buf(c), ch) \in Seq(Char) /\ Len(Append(Buf(c), ch)) = n + 1
    BY <2>4, AppendProperties
  <2> QED
    BY <2>5, <2>6, <2>7, SeqEqual
<1>5. accepted'[c] = written'[c] \o Buf(c)'
  <2>1. accepted'[c] = Append(written[c] \o Buf(c), ch)
    BY <1>1, <1>t, <1>2
  <2>2. written[c] \in Seq(Char) /\ Buf(c) \in Seq(Char)
    BY <1>t, BufSeq
  <2>3. Append(written[c] \o Buf(c), ch) = written[c] \o Append(Buf(c), ch)
    BY <2>2, AppendAfter
  <2> QED
    BY <1>4, <2>1, <2>3
<1>6. \A k \in Core : accepted'[k] = written'[k] \o Buf(k)'
  BY <1>3, <1>5
<1> QED
  BY <1>6 DEF OutputInOrder, Buf

\* What outEvent writes is the front of the buffer, and the rest stays.
LEMMA WriteInOrder ==
  ASSUME IInv, NEW c \in Core, OutEvent(c)
  PROVE  OutputInOrder'
<1> DEFINE n == MinOf(outlen[c], room)  A == [i \in 1..n |-> OutChar(c, i)]
<1>t. /\ outlen \in [Core -> 0..BufSize] /\ outstart \in [Core -> 0..BufSize]
      /\ written \in [Core -> Seq(Char)] /\ room \in 0..TtyRoom
  BY DEF IInv, TypeOK
<1>1. n \in Nat /\ n <= outlen[c]
  BY <1>t DEF MinOf
<1>2. UNCHANGED <<out_c, accepted>>
  BY DEF OutEvent
<1>3. written' = [written EXCEPT ![c] = written[c] \o A]
  BY DEF OutEvent
<1>4. outlen' = [outlen EXCEPT ![c] = outlen[c] - n]
  BY DEF OutEvent
<1>5. outstart' = [outstart EXCEPT ![c] = IF n = outlen[c] THEN 0 ELSE outstart[c] + n]
  BY DEF OutEvent
<1>6. \A k \in Core : accepted[k] = written[k] \o Buf(k)
  BY DEF IInv, OutputInOrder, Buf
<1> HIDE DEF n
<1>7. ASSUME NEW k \in Core, k # c
      PROVE  accepted'[k] = written'[k] \o Buf(k)'
  BY <1>t, <1>2, <1>3, <1>4, <1>5, <1>6, <1>7 DEF Buf
<1>8. A \in Seq(Char) /\ Len(A) = n /\ \A i \in 1..n : A[i] = Buf(c)[i]
  <2>1. \A i \in 1..n : i \in 1..outlen[c] /\ OutChar(c, i) = Buf(c)[i]
    BY <1>1, BufSeq DEF OutChar, Buf
  <2>2. \A i \in 1..n : OutChar(c, i) \in Char
    BY <2>1, BufSeq
  <2> QED
    BY <1>1, <2>1, <2>2
<1> HIDE DEF A
<1> DEFINE r == outlen[c] - n
<1>9. /\ r \in Nat /\ Buf(c)' \in Seq(Char) /\ Len(Buf(c)') = r
      /\ \A i \in 1..r : Buf(c)'[i] = Buf(c)[n + i]
  <2>1. r \in Nat /\ outlen'[c] = r /\ out_c'[c] = out_c[c] /\ outlen[c] \in Nat
    BY <1>t, <1>1, <1>2, <1>4
  <2>2. r # 0 => outstart'[c] = outstart[c] + n
    BY <1>t, <1>1, <1>5, <2>1
  <2>3. Buf(c)' = [i \in 1..r |-> out_c[c][outstart'[c] + i - 1]]
    BY <2>1 DEF Buf
  <2>4. ASSUME NEW i \in 1..r
        PROVE  out_c[c][outstart'[c] + i - 1] = Buf(c)[n + i] /\ Buf(c)[n + i] \in Char
    <3>1. n + i \in 1..outlen[c] /\ outstart'[c] = outstart[c] + n
      BY <1>1, <2>1, <2>2
    <3>2. Buf(c)[n + i] = out_c[c][outstart[c] + (n + i) - 1] /\ Buf(c)[n + i] \in Char
      <4>1. \A j \in 1..outlen[c] : Buf(c)[j] = out_c[c][outstart[c] + j - 1]
        BY DEF Buf
      <4>2. \A j \in 1..outlen[c] : Buf(c)[j] \in Char
        BY BufSeq
      <4> QED
        BY <3>1, <4>1, <4>2
    <3>3. outstart[c] + (n + i) - 1 = outstart'[c] + i - 1
      BY <1>1, <3>1, BufSeq
    <3> QED
      BY <3>2, <3>3
  <2> QED
    BY <2>1, <2>3, <2>4
<1>10. Buf(c) = A \o Buf(c)'
  <2>1. Buf(c) \in Seq(Char) /\ Len(Buf(c)) = n + r
    BY <1>1, <1>9, BufSeq
  <2> HIDE DEF r
  <2> QED
    <3>1. /\ Len(Buf(c)) = Len(A) + Len(Buf(c)') /\ \A i \in 1..Len(A) : A[i] = Buf(c)[i]
          /\ \A i \in 1..Len(Buf(c)') : Buf(c)'[i] = Buf(c)[Len(A) + i]
      BY <1>8, <1>9, <2>1
    <3>2. \A b, a, d \in Seq(Char) :
             /\ Len(b) = Len(a) + Len(d)
             /\ \A i \in 1..Len(a) : a[i] = b[i]
             /\ \A i \in 1..Len(d) : d[i] = b[Len(a) + i]
             => b = a \o d
      BY FrontAndRest
    <3> QED
      BY <1>8, <1>9, <2>1, <3>1, <3>2
<1>11. accepted'[c] = written'[c] \o Buf(c)'
  <2>1. accepted'[c] = written[c] \o (A \o Buf(c)') /\ written'[c] = written[c] \o A
    BY <1>t, <1>2, <1>3, <1>6, <1>10
  <2>2. (written[c] \o A) \o Buf(c)' = written[c] \o (A \o Buf(c)')
    <3>1. \A x, y, z \in Seq(Char) : (x \o y) \o z = x \o (y \o z)
      BY ConcatAssociative
    <3>2. written[c] \in Seq(Char)
      BY <1>t
    <3> QED
      BY <1>8, <1>9, <3>1, <3>2
  <2> QED
    BY <2>1, <2>2
<1>12. \A k \in Core : accepted'[k] = written'[k] \o Buf(k)'
  BY <1>7, <1>11
<1> QED
  BY <1>12 DEF OutputInOrder, Buf

\* putChar and outEvent keep what is accepted, written and buffered in step.
LEMMA OrderStep ==
  ASSUME IInv, [Next]_vars
  PROVE  OutputInOrder'
<1> USE DEF At, Goto, Unlocked, Doing, Then, vars, evVars, picVars, unixVars, mgrVars,
           loopVars, conVars, bufVars, ttyVars
<1>1. CASE UNCHANGED vars
  BY <1>1 DEF IInv, OutputInOrder
<1>2. ASSUME NEW c \in Core, AllocIn(c)
      PROVE  OutputInOrder'
  BY <1>2 DEF IInv, OutputInOrder, AllocIn
<1>3. ASSUME NEW c \in Core, RegisterIn(c)
      PROVE  OutputInOrder'
  BY <1>3 DEF IInv, OutputInOrder, RegisterIn
<1>4. ASSUME NEW c \in Core, AllocOut(c)
      PROVE  OutputInOrder'
  BY <1>4 DEF IInv, OutputInOrder, AllocOut
<1>5. ASSUME NEW c \in Core, RegisterOut(c)
      PROVE  OutputInOrder'
  BY <1>5 DEF IInv, OutputInOrder, RegisterOut
<1>6. ASSUME NEW c \in Core, EnableIn(c)
      PROVE  OutputInOrder'
  BY <1>6 DEF IInv, OutputInOrder, EnableIn
<1>7. ASSUME NEW c \in Core, PrintHello(c)
      PROVE  OutputInOrder'
  <2>1. -left[c] \in Char
    BY <1>7 DEF PrintHello, IInv, TypeOK, Char
  <2> QED
    BY <1>7, <2>1, PrintRoom, PutInOrder DEF PrintHello
<1>8. ASSUME NEW c \in Core, Dispatch(c)
      PROVE  OutputInOrder'
  BY <1>8 DEF IInv, OutputInOrder, Dispatch
<1>9. ASSUME NEW c \in Core, InEvent(c)
      PROVE  OutputInOrder'
  BY <1>9 DEF IInv, OutputInOrder, InEvent
<1>10. ASSUME NEW c \in Core, Echo(c)
       PROVE  OutputInOrder'
  <2>1. CASE HasRoom(c) /\ PutChar(c, Last(in_c[c]))
    <3>1. Last(in_c[c]) \in Char
      <4>1. in_c[c] \in Seq(Keys) /\ in_c[c] # <<>>
        BY <1>10 DEF Echo, IInv, TypeOK
      <4>2. Len(in_c[c]) \in Nat \ {0}
        BY <4>1, EmptySeq
      <4>3. in_c[c][Len(in_c[c])] \in Keys
        BY <4>1, <4>2
      <4> QED
        BY <4>3 DEF Last, Keys, Char
    <3> QED
      BY <1>10, <2>1, <3>1, PutInOrder DEF Echo
  <2>2. CASE ~HasRoom(c)
    BY <1>10, <2>2 DEF Echo, IInv, OutputInOrder
  <2> QED
    BY <1>10, <2>1, <2>2 DEF Echo
<1>11. ASSUME NEW c \in Core, OutEvent(c)
       PROVE  OutputInOrder'
  BY <1>11, WriteInOrder
<1>12. ASSUME NEW c \in Core, DisableOut(c)
       PROVE  OutputInOrder'
  BY <1>12 DEF IInv, OutputInOrder, DisableOut
<1>13. ASSUME NEW c \in Core, ToLoop(c)
       PROVE  OutputInOrder'
  BY <1>13 DEF IInv, OutputInOrder, ToLoop
<1>14. ASSUME NEW c \in Core, PSelect(c)
       PROVE  OutputInOrder'
  BY <1>14 DEF IInv, OutputInOrder, PSelect
<1>15. ASSUME NEW c \in Core, AllocateCoreId(c), UNCHANGED <<conVars, ttyVars>>
       PROVE  OutputInOrder'
  BY <1>15 DEF IInv, OutputInOrder, AllocateCoreId
<1>16. ASSUME NEW c \in Core, SetLcore(c), UNCHANGED <<conVars, ttyVars>>
       PROVE  OutputInOrder'
  BY <1>16 DEF IInv, OutputInOrder, SetLcore
<1>17. ASSUME NEW c \in Core, CopyVecs(c), UNCHANGED <<conVars, ttyVars>>
       PROVE  OutputInOrder'
  BY <1>17 DEF IInv, OutputInOrder, CopyVecs
<1>18. ASSUME NEW c \in Core, CreateRep(c), UNCHANGED <<conVars, ttyVars>>
       PROVE  OutputInOrder'
  BY <1>18 DEF IInv, OutputInOrder, CreateRep
<1>19. ASSUME NEW c \in Core, AddRepOn(c), UNCHANGED <<conVars, ttyVars>>
       PROVE  OutputInOrder'
  BY <1>19 DEF IInv, OutputInOrder, AddRepOn
<1>20. ASSUME NEW c \in Core, MapVec(c), UNCHANGED <<conVars, ttyVars>>
       PROVE  OutputInOrder'
  BY <1>20 DEF IInv, OutputInOrder, MapVec
<1>21. ASSUME NEW c \in Core, NewMax(c), UNCHANGED <<conVars, ttyVars>>
       PROVE  OutputInOrder'
  BY <1>21 DEF IInv, OutputInOrder, NewMax
<1>22. ASSUME NEW c \in Core, BlockForInterrupt(c), UNCHANGED <<conVars, ttyVars>>
       PROVE  OutputInOrder'
  BY <1>22 DEF IInv, OutputInOrder, BlockForInterrupt
<1>27. ASSUME NEW c \in Core, Select(c), UNCHANGED <<conVars, ttyVars>>
       PROVE  OutputInOrder'
  BY <1>27 DEF IInv, OutputInOrder, Select
<1>23. ASSUME NEW c \in Core, Interrupted(c), UNCHANGED <<conVars, ttyVars>>
       PROVE  OutputInOrder'
  BY <1>23 DEF IInv, OutputInOrder, Interrupted
<1>24. CASE Type
  BY <1>24 DEF IInv, OutputInOrder, Type
<1>25. CASE Display
  BY <1>25 DEF IInv, OutputInOrder, Display
<1>26. QED
  BY <1>1, <1>2, <1>3, <1>4, <1>5, <1>6, <1>7, <1>8, <1>9, <1>10, <1>11, <1>12,
     <1>13, <1>14, <1>15, <1>16, <1>17, <1>18, <1>19, <1>20, <1>21, <1>22,
     <1>23, <1>24, <1>25, <1>27
     DEF Next, Step, ClientStep, CoreStep

\* Turning an allocated vector on keeps the types.
LEMMA EnableType ==
  ASSUME EvTypeOK, NEW c \in Core, NEW v \in Vec, EventEnable(c, v)
  PROVE  EvTypeOK'
<1>1. /\ UNCHANGED <<picVars, enabled, fds, mgrVars, pc, ev, loopVars>>
      /\ on' = on \cup {v} /\ sig' = sig \cup KnownCores /\ aborted' \in BOOLEAN
  BY DEF EventEnable, WakeUp, Woken
<1>2. maxfd' \in Vec \cup {NoFd}
  <2>1. maxfd \in Int /\ v \in Int /\ maxfd \in Vec \cup {NoFd}
    BY Numbers DEF EvTypeOK
  <2>2. Max({maxfd, v}) = IF maxfd >= v THEN maxfd ELSE v
    BY <2>1, MaxOfTwo
  <2> QED
    BY <2>1, <2>2 DEF EventEnable, RaisedMax
<1>3. KnownCores \subseteq Core
  BY DEF EvTypeOK, KnownCores, Core
<1> QED
  BY <1>1, <1>2, <1>3 DEF EvTypeOK, picVars, mgrVars, loopVars

\* The operations of the PIC and the event manager, and the event loop, keep the types.
LEMMA EvTypeStep ==
  ASSUME IInv, [Next]_vars
  PROVE  EvTypeOK'
<1> USE DEF At, Goto, Unlocked, Doing, Then, vars, evVars, picVars, unixVars, mgrVars,
           loopVars, conVars, bufVars, ttyVars
<1>1. CASE UNCHANGED vars
  BY <1>1 DEF IInv, TypeOK, EvTypeOK
<1>t. EvTypeOK
  BY DEF IInv, TypeOK
<1>q. UNCHANGED evVars => EvTypeOK'
  BY <1>t DEF EvTypeOK
<1>2. ASSUME NEW c \in Core, AllocIn(c)
      PROVE  EvTypeOK'
  <2>1. Nearest \in Vec /\ NextFree \in Vec
    BY <1>2, <1>t, NearestIsNull, NextFreeIn DEF AllocIn, AllocEventNo
  <2>2. gvecs' = [gvecs EXCEPT ![Nearest] = "allocated"] /\ free' = NextFree
    BY <1>2 DEF AllocIn, AllocEventNo
  <2>3. UNCHANGED <<numlpics, lastid, lcore, piclock, lvecs, enabled, unixVars, sig, mgrVars,
                    pc, ev, loopVars, aborted>>
    BY <1>2 DEF AllocIn, AllocEventNo
  <2> QED
    BY <1>t, <2>1, <2>2, <2>3 DEF EvTypeOK
<1>3. ASSUME NEW c \in Core, RegisterIn(c)
      PROVE  EvTypeOK'
  <2> DEFINE i == [id |-> c, fn |-> "inEvent"]
  <2>1. i \in Info /\ inEV[c] \in Vec
    <3>1. stage[c] = "registerIn"
      BY <1>3 DEF RegisterIn
    <3>2. inEV[c] \in Vec \cup {None} /\ StageAt(c)
      BY DEF IInv, TypeOK, StageInv
    <3>3. inEV[c] # None
      BY <3>1, <3>2 DEF StageAt
    <3> QED
      BY <3>2, <3>3 DEF Info
  <2> HIDE DEF i
  <2>2. RegisterHandler(c, inEV[c], i)
    BY <1>3 DEF RegisterIn, i
  <2>3. handlerInfo' \in [Core -> [Vec -> Info]]
    BY <2>1, <2>2, Registered
  <2>4. /\ aborted' \in BOOLEAN /\ mlock' = c /\ ev' = [ev EXCEPT ![c] = inEV[c]]
        /\ pc' = [pc EXCEPT ![c] = "mapvec"]
        /\ UNCHANGED <<picVars, enabled, unixVars, sig, master, reps, loopVars>>
    BY <2>2 DEF RegisterHandler
  <2> QED
    BY <1>t, <2>1, <2>3, <2>4 DEF EvTypeOK, PC
<1>4. ASSUME NEW c \in Core, AllocOut(c)
      PROVE  EvTypeOK'
  <2>1. Nearest \in Vec /\ NextFree \in Vec
    BY <1>4, <1>t, NearestIsNull, NextFreeIn DEF AllocOut, AllocEventNo
  <2>2. gvecs' = [gvecs EXCEPT ![Nearest] = "allocated"] /\ free' = NextFree
    BY <1>4 DEF AllocOut, AllocEventNo
  <2>3. UNCHANGED <<numlpics, lastid, lcore, piclock, lvecs, enabled, unixVars, sig, mgrVars,
                    pc, ev, loopVars, aborted>>
    BY <1>4 DEF AllocOut, AllocEventNo
  <2> QED
    BY <1>t, <2>1, <2>2, <2>3 DEF EvTypeOK
<1>5. ASSUME NEW c \in Core, RegisterOut(c)
      PROVE  EvTypeOK'
  <2> DEFINE i == [id |-> c, fn |-> "outEvent"]
  <2>1. i \in Info /\ outEV[c] \in Vec
    <3>1. stage[c] = "registerOut"
      BY <1>5 DEF RegisterOut
    <3>2. outEV[c] \in Vec \cup {None} /\ StageAt(c)
      BY DEF IInv, TypeOK, StageInv
    <3>3. outEV[c] # None
      BY <3>1, <3>2 DEF StageAt
    <3> QED
      BY <3>2, <3>3 DEF Info
  <2> HIDE DEF i
  <2>2. RegisterHandler(c, outEV[c], i)
    BY <1>5 DEF RegisterOut, i
  <2>3. handlerInfo' \in [Core -> [Vec -> Info]]
    BY <2>1, <2>2, Registered
  <2>4. /\ aborted' \in BOOLEAN /\ mlock' = c /\ ev' = [ev EXCEPT ![c] = outEV[c]]
        /\ pc' = [pc EXCEPT ![c] = "mapvec"]
        /\ UNCHANGED <<picVars, enabled, unixVars, sig, master, reps, loopVars>>
    BY <2>2 DEF RegisterHandler
  <2> QED
    BY <1>t, <2>1, <2>3, <2>4 DEF EvTypeOK, PC
<1>6. ASSUME NEW c \in Core, EnableIn(c)
      PROVE  EvTypeOK'
  BY <1>6, <1>t, Usable, EnableType DEF EnableIn
<1>7. ASSUME NEW c \in Core, PrintHello(c)
      PROVE  EvTypeOK'
  BY <1>7, <1>t, <1>q, PutCharEvent, EnableType
<1>8. ASSUME NEW c \in Core, Dispatch(c)
      PROVE  EvTypeOK'
  <2>1. UNCHANGED <<picVars, unixVars, sig, mgrVars, ev, fdset>>
    BY <1>8 DEF Dispatch, DispatchEventLocal
  <2>2. /\ cur'[c] \in Vec \cup {None} /\ cur' = [cur EXCEPT ![c] = cur'[c]]
        /\ enabled' = [enabled EXCEPT ![c] = enabled'[c]] /\ enabled'[c] \subseteq enabled[c]
        /\ intrSet' = [intrSet EXCEPT ![c] = intrSet'[c]] /\ intrSet'[c] \subseteq intrSet[c]
        /\ pc' = [pc EXCEPT ![c] = pc'[c]] /\ pc'[c] \in {"idle", "vecs"}
        /\ aborted' \in BOOLEAN
    BY <1>8, Dispatched
  <2>3. enabled' \in [Core -> SUBSET Vec] /\ intrSet' \in [Core -> SUBSET Vec]
    <3>1. enabled[c] \subseteq Vec /\ intrSet[c] \subseteq Vec
      BY <1>t DEF EvTypeOK
    <3>2. enabled'[c] \in SUBSET Vec /\ intrSet'[c] \in SUBSET Vec
      BY <2>2, <3>1
    <3>3. PICK X \in SUBSET Vec, Y \in SUBSET Vec :
                /\ enabled' = [enabled EXCEPT ![c] = X]
                /\ intrSet' = [intrSet EXCEPT ![c] = Y]
      BY <2>2, <3>2
    <3> QED
      BY <1>t, <3>3 DEF EvTypeOK
  <2>4. cur' \in [Core -> Vec \cup {None}] /\ pc' \in [Core -> PC]
    <3>1. PICK v \in Vec \cup {None}, q \in {"idle", "vecs"} :
                cur' = [cur EXCEPT ![c] = v] /\ pc' = [pc EXCEPT ![c] = q]
      BY <2>2
    <3> QED
      BY <1>t, <3>1 DEF EvTypeOK, PC
  <2> QED
    BY <1>t, <2>1, <2>2, <2>3, <2>4 DEF EvTypeOK
<1>9. ASSUME NEW c \in Core, InEvent(c)
      PROVE  EvTypeOK'
  <2>1. aborted' \in BOOLEAN
    BY <1>9 DEF InEvent
  <2> QED
    BY <1>9, <1>t, <2>1 DEF InEvent, EvTypeOK
<1>10. ASSUME NEW c \in Core, Echo(c)
       PROVE  EvTypeOK'
  BY <1>10, <1>t, <1>q, PutCharEvent, EnableType
<1>11. ASSUME NEW c \in Core, OutEvent(c)
       PROVE  EvTypeOK'
  <2>1. aborted' \in BOOLEAN
    BY <1>11 DEF OutEvent
  <2> QED
    BY <1>11, <1>t, <2>1 DEF OutEvent, EvTypeOK
<1>12. ASSUME NEW c \in Core, DisableOut(c)
       PROVE  EvTypeOK'
  <2>1. outEV[c] \in Vec
    BY <1>12, Usable DEF DisableOut
  <2>2. KnownCores \subseteq Core
    BY <1>t DEF EvTypeOK, KnownCores, Core
  <2>3. /\ on' = on \ {outEV[c]} /\ sig' \in {sig, sig \cup KnownCores}
        /\ aborted' \in BOOLEAN /\ maxfd' \in {maxfd, NoFd}
        /\ piclock' \in {piclock, c} /\ pc' \in {pc, [pc EXCEPT ![c] = "newmax"]}
        /\ UNCHANGED <<numlpics, lastid, lcore, gvecs, free, lvecs, enabled, fds, mgrVars, ev,
                       loopVars>>
    BY <1>12, <1>t DEF DisableOut, EventDisable, WakeUp, Woken, EvTypeOK
  <2> QED
    BY <1>t, <2>1, <2>2, <2>3 DEF EvTypeOK, PC
<1>13. ASSUME NEW c \in Core, ToLoop(c)
       PROVE  EvTypeOK'
  BY <1>13, <1>t DEF ToLoop, HandlerReturns, Enabled, EvTypeOK, PC
<1>14. ASSUME NEW c \in Core, PSelect(c)
       PROVE  EvTypeOK'
  <2>1. intrSet'[c] \subseteq Vec /\ intrSet' = [intrSet EXCEPT ![c] = intrSet'[c]]
    BY <1>14, <1>t DEF PSelect, DeviceReady, EvTypeOK
  <2> QED
    BY <1>14, <1>t, <2>1 DEF PSelect, DeviceReady, EvTypeOK, PC
<1>15. ASSUME NEW c \in Core, AllocateCoreId(c), UNCHANGED <<conVars, ttyVars>>
       PROVE  EvTypeOK'
  <2>1. lastid \in Int /\ c \in Int
    BY <1>t, Numbers DEF EvTypeOK
  <2>2. lastid' \in Core
    BY <1>15, <1>t, <2>1, MaxOfTwo DEF AllocateCoreId, EvTypeOK
  <2>3. numlpics' \in 0..NumCores
    BY <1>15 DEF AllocateCoreId, Core
  <2> QED
    BY <1>15, <1>t, <2>2, <2>3 DEF AllocateCoreId, EvTypeOK, PC
<1>16. ASSUME NEW c \in Core, SetLcore(c), UNCHANGED <<conVars, ttyVars>>
       PROVE  EvTypeOK'
  BY <1>16, <1>t DEF SetLcore, EvTypeOK, PC
<1>17. ASSUME NEW c \in Core, CopyVecs(c), UNCHANGED <<conVars, ttyVars>>
       PROVE  EvTypeOK'
  BY <1>17, <1>t DEF CopyVecs, StartVecs, EvTypeOK, PC
<1>18. ASSUME NEW c \in Core, CreateRep(c), UNCHANGED <<conVars, ttyVars>>
       PROVE  EvTypeOK'
  <2>1. CASE master = None
    BY <1>18, <1>t, <2>1 DEF CreateRep, EvTypeOK, PC
  <2>2. CASE master # None
    <3> DEFINE h == [v \in Vec |-> [id |-> handlerInfo[master][v].id, fn |-> "uninitialized"]]
    <3>1. h \in [Vec -> Info]
      BY <1>t, <2>2 DEF EvTypeOK, Info
    <3>2. handlerInfo' = [handlerInfo EXCEPT ![c] = h] /\ UNCHANGED master
      BY <1>18, <2>2 DEF CreateRep
    <3> HIDE DEF h
    <3>3. handlerInfo' \in [Core -> [Vec -> Info]]
      BY <1>t, <3>1, <3>2 DEF EvTypeOK
    <3> QED
      BY <1>18, <1>t, <3>2, <3>3 DEF CreateRep, EvTypeOK, PC
  <2> QED
    BY <2>1, <2>2
<1>19. ASSUME NEW c \in Core, AddRepOn(c), UNCHANGED <<conVars, ttyVars>>
       PROVE  EvTypeOK'
  BY <1>19, <1>t DEF AddRepOn, EvTypeOK, PC
<1>20. ASSUME NEW c \in Core, MapVec(c), UNCHANGED <<conVars, ttyVars>>
       PROVE  EvTypeOK'
  <2>1. ev[c] \in Vec
    <3>1. pc[c] = "mapvec"
      BY <1>20 DEF MapVec
    <3>2. inEV[c] \in Vec \cup {None} /\ outEV[c] \in Vec \cup {None} /\ StageAt(c)
      BY DEF IInv, TypeOK, StageInv
    <3>3. \/ ev[c] = inEV[c] /\ inEV[c] # None
          \/ ev[c] = outEV[c] /\ outEV[c] # None
      BY <3>1, <3>2 DEF StageAt
    <3> QED
      BY <3>2, <3>3
  <2>2. lvecs' \in [Core -> [Vec -> {"null", "allocated", "mapped"}]]
    BY <1>20, <1>t, <2>1 DEF MapVec, EvTypeOK
  <2>3. fds' \subseteq Vec /\ aborted' \in BOOLEAN
    BY <1>20, <1>t, <2>1 DEF MapVec, EvTypeOK
  <2>4. /\ gvecs' = [gvecs EXCEPT ![ev[c]] = "mapped"] /\ mlock' = None
        /\ enabled' = [enabled EXCEPT ![c] = enabled[c] \cup {ev[c]}]
        /\ ev' = [ev EXCEPT ![c] = None] /\ pc' = [pc EXCEPT ![c] = "idle"]
        /\ UNCHANGED <<numlpics, lastid, lcore, piclock, free, on, maxfd, sig, master, reps,
                       handlerInfo, loopVars>>
    BY <1>20 DEF MapVec
  <2> QED
    BY <1>t, <2>1, <2>2, <2>3, <2>4 DEF EvTypeOK, PC
<1>21. ASSUME NEW c \in Core, NewMax(c), UNCHANGED <<conVars, ttyVars>>
       PROVE  EvTypeOK'
  <2>1. maxfd' \in Vec \cup {NoFd}
    BY <1>21, <1>t, MaxOn DEF NewMax, EvTypeOK
  <2>2. KnownCores \subseteq Core
    BY <1>t DEF EvTypeOK, KnownCores, Core
  <2> QED
    BY <1>21, <1>t, <2>1, <2>2 DEF NewMax, WakeUp, Woken, EvTypeOK, PC
<1>22. ASSUME NEW c \in Core, BlockForInterrupt(c), UNCHANGED <<conVars, ttyVars>>
       PROVE  EvTypeOK'
  <2> DEFINE v == IF ev[c] = None THEN 0 ELSE ev[c]
             S == fdset[c] \cup {w \in {v} \cap on \cap fds : w <= maxfd}
  <2>1. S \subseteq Vec
    BY <1>t DEF EvTypeOK
  <2>2. fdset' = [fdset EXCEPT ![c] = S]
    BY <1>22 DEF BlockForInterrupt
  <2>3. \/ \E w \in Vec : ev' = [ev EXCEPT ![c] = w] /\ pc' = pc
        \/ ev' = [ev EXCEPT ![c] = None] /\ pc' = [pc EXCEPT ![c] = "nfds"]
    BY <1>22 DEF BlockForInterrupt
  <2>4. UNCHANGED <<picVars, enabled, unixVars, sig, mgrVars, cur, intrSet, aborted>>
    BY <1>22 DEF BlockForInterrupt
  <2> HIDE DEF S
  <2>5. fdset' \in [Core -> SUBSET Vec]
    BY <1>t, <2>1, <2>2 DEF EvTypeOK
  <2>6. ev' \in [Core -> Vec \cup {None}] /\ pc' \in [Core -> PC]
    <3>1. ev \in [Core -> Vec \cup {None}] /\ pc \in [Core -> PC] /\ "nfds" \in PC
      BY <1>t DEF EvTypeOK, PC
    <3>2. CASE \E w \in Vec : ev' = [ev EXCEPT ![c] = w] /\ pc' = pc
      BY <3>1, <3>2
    <3>3. CASE ev' = [ev EXCEPT ![c] = None] /\ pc' = [pc EXCEPT ![c] = "nfds"]
      BY <3>1, <3>3
    <3> QED
      BY <2>3, <3>2, <3>3
  <2> QED
    BY <1>t, <2>4, <2>5, <2>6 DEF EvTypeOK
<1>27. ASSUME NEW c \in Core, Select(c), UNCHANGED <<conVars, ttyVars>>
       PROVE  EvTypeOK'
  BY <1>27, <1>t DEF Select, EvTypeOK, PC
<1>23. ASSUME NEW c \in Core, Interrupted(c), UNCHANGED <<conVars, ttyVars>>
       PROVE  EvTypeOK'
  BY <1>23, <1>t DEF Interrupted, EvTypeOK, PC
<1>24. CASE Type
  BY <1>24, <1>t, <1>q DEF Type
<1>25. CASE Display
  BY <1>25, <1>t, <1>q DEF Display
<1>26. QED
  BY <1>1, <1>2, <1>3, <1>4, <1>5, <1>6, <1>7, <1>8, <1>9, <1>10, <1>11, <1>12,
     <1>13, <1>14, <1>15, <1>16, <1>17, <1>18, <1>19, <1>20, <1>21, <1>22,
     <1>23, <1>24, <1>25, <1>27
     DEF Next, Step, ClientStep, CoreStep

\* The variables of ConsTst have their types in the next state.
ConType ==
  /\ inEV \in [Core -> Vec \cup {None}] /\ outEV \in [Core -> Vec \cup {None}]
  /\ in_c \in [Core -> Seq(Keys)] /\ out_c \in [Core -> [0..(BufSize - 1) -> Char]]
  /\ outstart \in [Core -> 0..BufSize] /\ outlen \in [Core -> 0..BufSize]
  /\ stage \in [Core -> Stage] /\ left \in [Core -> 0..Greeting]
  /\ typed \in 0..MaxKeys /\ stdin \in Seq(Keys) /\ room \in 0..TtyRoom
  /\ accepted \in [Core -> Seq(Char)] /\ written \in [Core -> Seq(Char)]

\* putChar puts a character where there is room for one.
LEMMA PutCharType ==
  ASSUME ConType, NEW c \in Core, NEW ch \in Char, PutChar(c, ch), HasRoom(c)
  PROVE  /\ out_c' \in [Core -> [0..(BufSize - 1) -> Char]]
         /\ outlen' \in [Core -> 0..BufSize] /\ accepted' \in [Core -> Seq(Char)]
<1> DEFINE n == outstart[c] + outlen[c]
<1>1. n \in 0..(BufSize - 1) /\ outlen[c] + 1 \in 0..BufSize
  BY DEF ConType, HasRoom
<1>2. /\ out_c' = [out_c EXCEPT ![c] = [out_c[c] EXCEPT ![n] = ch]]
      /\ outlen' = [outlen EXCEPT ![c] = outlen[c] + 1]
      /\ accepted' = [accepted EXCEPT ![c] = Append(accepted[c], ch)]
  BY DEF PutChar
<1> HIDE DEF n
<1>3. [out_c[c] EXCEPT ![n] = ch] \in [0..(BufSize - 1) -> Char]
  BY <1>1 DEF ConType
<1>4. Append(accepted[c], ch) \in Seq(Char)
  BY DEF ConType
<1> QED
  BY <1>1, <1>2, <1>3, <1>4 DEF ConType

\* The consoles and the terminal keep the types; the buffers are not overrun.
LEMMA ConTypeStep ==
  ASSUME IInv, [Next]_vars
  PROVE  ConType'
<1> USE DEF At, Goto, Unlocked, Doing, Then, vars, evVars, picVars, unixVars, mgrVars,
           loopVars, conVars, bufVars, ttyVars
<1>1. CASE UNCHANGED vars
  BY <1>1 DEF IInv, TypeOK, ConType
<1>t. ConType
  BY DEF IInv, TypeOK, ConType
<1>e. EvTypeOK
  BY DEF IInv, TypeOK
<1>q. UNCHANGED <<conVars, ttyVars>> => ConType'
  BY <1>t DEF ConType
<1>2. ASSUME NEW c \in Core, AllocIn(c)
      PROVE  ConType'
  <2>1. Nearest \in Vec
    BY <1>2, <1>e, NearestIsNull DEF AllocIn, AllocEventNo
  <2> QED
    BY <1>2, <1>t, <2>1 DEF AllocIn, ConType, Stage
<1>3. ASSUME NEW c \in Core, RegisterIn(c)
      PROVE  ConType'
  BY <1>3, <1>t DEF RegisterIn, ConType, Stage
<1>4. ASSUME NEW c \in Core, AllocOut(c)
      PROVE  ConType'
  <2>1. Nearest \in Vec
    BY <1>4, <1>e, NearestIsNull DEF AllocOut, AllocEventNo
  <2> QED
    BY <1>4, <1>t, <2>1 DEF AllocOut, ConType, Stage
<1>5. ASSUME NEW c \in Core, RegisterOut(c)
      PROVE  ConType'
  BY <1>5, <1>t DEF RegisterOut, ConType, Stage
<1>6. ASSUME NEW c \in Core, EnableIn(c)
      PROVE  ConType'
  BY <1>6, <1>t DEF EnableIn, ConType, Stage
<1>7. ASSUME NEW c \in Core, PrintHello(c)
      PROVE  ConType'
  <2>1. -left[c] \in Char /\ left[c] - 1 \in 0..Greeting
    BY <1>7, <1>t DEF PrintHello, ConType, Char
  <2>2. /\ out_c' \in [Core -> [0..(BufSize - 1) -> Char]]
        /\ outlen' \in [Core -> 0..BufSize] /\ accepted' \in [Core -> Seq(Char)]
    BY <1>7, <1>t, <2>1, PrintRoom, PutCharType DEF PrintHello
  <2>3. /\ left' = [left EXCEPT ![c] = left[c] - 1]
        /\ UNCHANGED <<inEV, outEV, in_c, outstart, stage, written, ttyVars>>
    BY <1>7 DEF PrintHello
  <2> QED
    BY <1>t, <2>1, <2>2, <2>3 DEF ConType
<1>8. ASSUME NEW c \in Core, Dispatch(c)
      PROVE  ConType'
  <2>1. PICK q \in {"return", "inEvent", "outEvent"} : stage' = [stage EXCEPT ![c] = q]
    BY <1>8, Dispatched
  <2>2. UNCHANGED <<inEV, outEV, bufVars, left, accepted, written, ttyVars>>
    BY <1>8 DEF Dispatch
  <2> QED
    BY <1>t, <2>1, <2>2 DEF ConType, Stage
<1>9. ASSUME NEW c \in Core, InEvent(c)
      PROVE  ConType'
  <2> DEFINE n == MinOf(Len(stdin), BufSize - Len(in_c[c]))
             x == SubSeq(stdin, 1, n)  y == SubSeq(stdin, n + 1, Len(stdin))
  <2>1. /\ in_c' = [in_c EXCEPT ![c] = in_c[c] \o x] /\ stdin' = y
        /\ stage' = [stage EXCEPT ![c] = "echo"]
        /\ UNCHANGED <<inEV, outEV, out_c, outstart, outlen, left, accepted, written, typed,
                       room>>
    BY <1>9 DEF InEvent
  <2>2. n \in Nat /\ n <= Len(stdin) /\ Len(stdin) \in Nat /\ stdin \in Seq(Keys)
        /\ in_c[c] \in Seq(Keys)
    BY <1>t DEF ConType, MinOf, IInv, InInv
  <2> HIDE DEF n
  <2>3. in_c[c] \o x \in Seq(Keys) /\ y \in Seq(Keys)
    <3>x. x \in Seq(Keys)
      BY <2>2
    <3>y. y \in Seq(Keys)
      BY <2>2
    <3> QED
      BY <2>2, <3>x, <3>y
  <2> HIDE DEF x, y
  <2> QED
    BY <1>t, <2>1, <2>3 DEF ConType, Stage
<1>10. ASSUME NEW c \in Core, Echo(c)
       PROVE  ConType'
  <2> DEFINE s == in_c[c]
  <2>1. s \in Seq(Keys) /\ s # <<>>
    BY <1>10, <1>t DEF Echo, ConType
  <2>2. in_c' = [in_c EXCEPT ![c] = Front(s)]
    BY <1>10 DEF Echo
  <2>3. Front(s) \in Seq(Keys) /\ Last(s) \in Char
    <3>1. Len(s) \in Nat \ {0}
      BY <2>1, EmptySeq
    <3>2. SubSeq(s, 1, Len(s) - 1) \in Seq(Keys)
      BY <2>1, <3>1
    <3>3. s[Len(s)] \in Keys
      BY <2>1, <3>1
    <3> QED
      BY <3>2, <3>3 DEF Front, Last, Keys, Char
  <2>4. /\ out_c' \in [Core -> [0..(BufSize - 1) -> Char]]
        /\ outlen' \in [Core -> 0..BufSize] /\ accepted' \in [Core -> Seq(Char)]
    <3>1. CASE HasRoom(c) /\ PutChar(c, Last(s))
      BY <1>t, <2>3, <3>1, PutCharType
    <3>2. CASE UNCHANGED <<evVars, out_c, outlen, accepted>>
      BY <1>t, <3>2 DEF ConType
    <3> QED
      BY <1>10, <3>1, <3>2 DEF Echo
  <2> HIDE DEF s
  <2>5. in_c' \in [Core -> Seq(Keys)]
    BY <1>t, <2>2, <2>3 DEF ConType
  <2>6. UNCHANGED <<inEV, outEV, outstart, stage, left, written, ttyVars>>
    BY <1>10 DEF Echo
  <2> QED
    BY <1>t, <2>4, <2>5, <2>6 DEF ConType
<1>11. ASSUME NEW c \in Core, OutEvent(c)
       PROVE  ConType'
  <2> DEFINE n == MinOf(outlen[c], room)  A == [i \in 1..n |-> OutChar(c, i)]
  <2>1. n \in Nat /\ n <= outlen[c] /\ n <= room
    BY <1>t DEF ConType, MinOf
  <2>2. /\ written' = [written EXCEPT ![c] = written[c] \o A]
        /\ outlen' = [outlen EXCEPT ![c] = outlen[c] - n]
        /\ outstart' = [outstart EXCEPT ![c] = IF n = outlen[c] THEN 0 ELSE outstart[c] + n]
        /\ room' = room - n
        /\ stage' = [stage EXCEPT ![c] = IF n > 0 /\ n = outlen[c] THEN "disableOut"
                                         ELSE "return"]
        /\ UNCHANGED <<inEV, outEV, in_c, out_c, left, accepted, typed, stdin>>
    BY <1>11 DEF OutEvent
  <2>3. A \in Seq(Char)
    <3>1. \A i \in 1..n : i \in 1..outlen[c] /\ OutChar(c, i) = Buf(c)[i]
      BY <2>1, BufSeq DEF OutChar, Buf
    <3>2. \A i \in 1..n : OutChar(c, i) \in Char
      BY <3>1, BufSeq
    <3> QED
      BY <2>1, <3>2
  <2>4. outlen[c] - n \in 0..BufSize /\ outstart[c] + n \in 0..BufSize /\ room - n \in 0..TtyRoom
    <3>1. /\ outlen[c] \in 0..BufSize /\ outstart[c] \in Nat /\ room \in 0..TtyRoom
          /\ outstart[c] + outlen[c] <= BufSize
      BY <1>t, BufSeq DEF ConType
    <3> HIDE DEF n
    <3> QED
      BY <2>1, <3>1
  <2> HIDE DEF n, A
  <2>5. written' \in [Core -> Seq(Char)]
    BY <1>t, <2>2, <2>3 DEF ConType
  <2>6. outlen' \in [Core -> 0..BufSize] /\ outstart' \in [Core -> 0..BufSize]
    <3>1. outlen \in [Core -> 0..BufSize] /\ outstart \in [Core -> 0..BufSize] /\ 0 \in 0..BufSize
      BY <1>t DEF ConType
    <3>2. (IF n = outlen[c] THEN 0 ELSE outstart[c] + n) \in 0..BufSize
      BY <2>4, <3>1
    <3> QED
      BY <2>2, <2>4, <3>1, <3>2
  <2>7. stage' \in [Core -> Stage] /\ room' \in 0..TtyRoom
    <3>1. stage \in [Core -> Stage] /\ {"disableOut", "return"} \subseteq Stage
      BY <1>t DEF ConType, Stage
    <3> QED
      BY <2>2, <2>4, <3>1
  <2> QED
    BY <1>t, <2>2, <2>5, <2>6, <2>7 DEF ConType
<1>12. ASSUME NEW c \in Core, DisableOut(c)
       PROVE  ConType'
  BY <1>12, <1>t DEF DisableOut, ConType, Stage
<1>13. ASSUME NEW c \in Core, ToLoop(c)
       PROVE  ConType'
  BY <1>13, <1>t DEF ToLoop, ConType, Stage
<1>14. ASSUME NEW c \in Core, PSelect(c)
       PROVE  ConType'
  BY <1>14, <1>t DEF PSelect, ConType, Stage
<1>15. ASSUME NEW c \in Core, AllocateCoreId(c), UNCHANGED <<conVars, ttyVars>>
       PROVE  ConType'
  BY <1>15, <1>q
<1>16. ASSUME NEW c \in Core, SetLcore(c), UNCHANGED <<conVars, ttyVars>>
       PROVE  ConType'
  BY <1>16, <1>q
<1>17. ASSUME NEW c \in Core, CopyVecs(c), UNCHANGED <<conVars, ttyVars>>
       PROVE  ConType'
  BY <1>17, <1>q
<1>18. ASSUME NEW c \in Core, CreateRep(c), UNCHANGED <<conVars, ttyVars>>
       PROVE  ConType'
  BY <1>18, <1>q
<1>19. ASSUME NEW c \in Core, AddRepOn(c), UNCHANGED <<conVars, ttyVars>>
       PROVE  ConType'
  BY <1>19, <1>q
<1>20. ASSUME NEW c \in Core, MapVec(c), UNCHANGED <<conVars, ttyVars>>
       PROVE  ConType'
  BY <1>20, <1>q
<1>21. ASSUME NEW c \in Core, NewMax(c), UNCHANGED <<conVars, ttyVars>>
       PROVE  ConType'
  BY <1>21, <1>q
<1>22. ASSUME NEW c \in Core, BlockForInterrupt(c), UNCHANGED <<conVars, ttyVars>>
       PROVE  ConType'
  BY <1>22, <1>q
<1>27. ASSUME NEW c \in Core, Select(c), UNCHANGED <<conVars, ttyVars>>
       PROVE  ConType'
  BY <1>27, <1>q
<1>23. ASSUME NEW c \in Core, Interrupted(c), UNCHANGED <<conVars, ttyVars>>
       PROVE  ConType'
  BY <1>23, <1>q
<1>24. CASE Type
  <2>1. typed + 1 \in Keys /\ typed + 1 \in 0..MaxKeys
    BY <1>24, <1>t DEF Type, ConType, Keys
  <2>2. Append(stdin, typed + 1) \in Seq(Keys)
    BY <1>t, <2>1 DEF ConType
  <2>3. typed' = typed + 1 /\ stdin' = Append(stdin, typed + 1) /\ UNCHANGED <<conVars, room>>
    BY <1>24 DEF Type
  <2> QED
    BY <1>t, <2>1, <2>2, <2>3 DEF ConType
<1>25. CASE Display
  <2>1. room' \in 0..TtyRoom
    BY <1>25, <1>t DEF Display, ConType
  <2>2. UNCHANGED <<conVars, typed, stdin>>
    BY <1>25 DEF Display
  <2> QED
    BY <1>t, <2>1, <2>2 DEF ConType
<1>26. QED
  BY <1>1, <1>2, <1>3, <1>4, <1>5, <1>6, <1>7, <1>8, <1>9, <1>10, <1>11, <1>12,
     <1>13, <1>14, <1>15, <1>16, <1>17, <1>18, <1>19, <1>20, <1>21, <1>22,
     <1>23, <1>24, <1>25, <1>27
     DEF Next, Step, ClientStep, CoreStep

\* Console_inEvent reads no more than fits.
LEMMA InStep ==
  ASSUME IInv, [Next]_vars
  PROVE  InInv'
<1>t. /\ in_c \in [Core -> Seq(Keys)] /\ stdin \in Seq(Keys)
      /\ \A c \in Core : Len(in_c[c]) <= BufSize
  BY DEF IInv, TypeOK, InInv
<1>1. ASSUME NEW c \in Core, InEvent(c)
      PROVE  InInv'
  <2> DEFINE n == MinOf(Len(stdin), BufSize - Len(in_c[c]))  x == SubSeq(stdin, 1, n)
  <2>1. in_c' = [in_c EXCEPT ![c] = in_c[c] \o x]
    BY <1>1 DEF InEvent
  <2>2. /\ n \in Nat /\ n <= Len(stdin) /\ Len(stdin) \in Nat
        /\ in_c[c] \in Seq(Keys) /\ Len(in_c[c]) + n <= BufSize
    BY <1>t DEF MinOf
  <2> HIDE DEF n
  <2>3. x \in Seq(Keys) /\ Len(x) = n
    BY <1>t, <2>2
  <2> HIDE DEF x
  <2>4. Len(in_c[c] \o x) = Len(in_c[c]) + n
    BY <2>2, <2>3
  <2>5. ASSUME NEW k \in Core PROVE Len(in_c'[k]) <= BufSize
    BY <1>t, <2>1, <2>2, <2>4
  <2> QED
    BY <2>5 DEF InInv
<1>2. ASSUME NEW c \in Core, Echo(c)
      PROVE  InInv'
  <2> DEFINE s == in_c[c]
  <2>1. in_c' = [in_c EXCEPT ![c] = Front(s)] /\ s \in Seq(Keys) /\ s # <<>>
        /\ Len(s) <= BufSize
    BY <1>t, <1>2 DEF Echo
  <2>2. Len(Front(s)) <= BufSize
    <3>1. Len(s) \in Nat \ {0}
      BY <2>1, EmptySeq
    <3>2. Len(SubSeq(s, 1, Len(s) - 1)) = Len(s) - 1
      BY <2>1, <3>1
    <3> QED
      BY <2>1, <3>1, <3>2 DEF Front
  <2> HIDE DEF s
  <2>3. ASSUME NEW k \in Core PROVE Len(in_c'[k]) <= BufSize
    BY <1>t, <2>1, <2>2
  <2> QED
    BY <2>3 DEF InInv
<1>3. UNCHANGED in_c => InInv'
  BY DEF IInv, InInv
<1>4. ASSUME NEW c \in Core, ClientStep(c), ~InEvent(c), ~Echo(c)
      PROVE  UNCHANGED in_c
  BY <1>4 DEF ClientStep, conVars, bufVars, AllocIn, RegisterIn, AllocOut, RegisterOut, EnableIn,
       PrintHello, Dispatch, OutEvent, DisableOut, ToLoop, PSelect
<1>5. Type \/ Display \/ UNCHANGED vars \/ UNCHANGED conVars => UNCHANGED in_c
  BY DEF Type, Display, vars, conVars, bufVars
<1> QED
  BY <1>1, <1>2, <1>3, <1>4, <1>5 DEF Next, Step

\* All variables keep their types.
LEMMA TypeStep ==
  ASSUME IInv, [Next]_vars
  PROVE  TypeOK'
  BY EvTypeStep, ConTypeStep DEF ConType, TypeOK

-----------------------------------------------------------------------------
(* The theorems.                                                           *)

\* Before the first core starts.
LEMMA InitInv == Init => IInv
<1> SUFFICES ASSUME Init PROVE IInv
  OBVIOUS
<1>1. TypeOK
  <2>1. EvTypeOK
    <3>1. 0 \in Core /\ 0 \in Vec /\ 0 \in 0..NumCores
      BY DEF Core, Vec
    <3>2. /\ numlpics \in 0..NumCores /\ lastid \in Core /\ lcore \subseteq Core
          /\ piclock \in Core \cup {None} /\ mlock \in Core \cup {None}
          /\ fds \subseteq Vec /\ on \subseteq Vec /\ free \in Vec
          /\ maxfd \in Vec \cup {NoFd} /\ sig \subseteq Core
          /\ master \in Core \cup {None} /\ reps \subseteq Core /\ aborted \in BOOLEAN
      BY <3>1 DEF Init, EvInit
    <3>3. /\ gvecs \in [Vec -> {"null", "allocated", "mapped"}]
          /\ lvecs \in [Core -> [Vec -> {"null", "allocated", "mapped"}]]
      BY DEF Init, EvInit
    <3>4. handlerInfo \in [Core -> [Vec -> Info]]
      BY DEF Init, EvInit, Info, NoInfo
    <3>5. /\ enabled \in [Core -> SUBSET Vec] /\ pc \in [Core -> PC]
          /\ ev \in [Core -> Vec \cup {None}] /\ cur \in [Core -> Vec \cup {None}]
          /\ fdset \in [Core -> SUBSET Vec] /\ intrSet \in [Core -> SUBSET Vec]
      BY DEF Init, EvInit, PC
    <3> QED
      BY <3>2, <3>3, <3>4, <3>5 DEF EvTypeOK
  <2>2. /\ out_c \in [Core -> [0..(BufSize - 1) -> Char]] /\ outstart \in [Core -> 0..BufSize]
        /\ outlen \in [Core -> 0..BufSize] /\ left \in [Core -> 0..Greeting]
    BY DEF Init, Char
  <2>3. /\ inEV \in [Core -> Vec \cup {None}] /\ outEV \in [Core -> Vec \cup {None}]
        /\ stage \in [Core -> Stage] /\ typed \in 0..MaxKeys /\ room \in 0..TtyRoom
    BY DEF Init, Stage
  <2>4. /\ in_c \in [Core -> Seq(Keys)] /\ stdin \in Seq(Keys)
        /\ accepted \in [Core -> Seq(Char)] /\ written \in [Core -> Seq(Char)]
    BY DEF Init
  <2> QED
    BY <2>1, <2>2, <2>3, <2>4 DEF TypeOK
<1>2. StartInv /\ StageInv /\ DistinctInv
  BY DEF Init, EvInit, StartInv, StartAt, Starting, StageInv, StageAt, DistinctInv, DistinctAt
<1>3. TableInv /\ OnInv /\ VectorsAgree /\ LoopInv /\ ScanInv
  BY DEF Init, EvInit, TableInv, TableAt, OnInv, VectorsAgree, LoopInv, LoopAt, ScanInv,
         Covered, Building, Waiting
<1>4. BufInv /\ InInv
  BY DEF Init, BufInv, BufAt, Early, InInv
<1>5. OutputInOrder
  <2> DEFINE B(c) == [i \in 1..outlen[c] |-> out_c[c][outstart[c] + i - 1]]
  <2>1. ASSUME NEW c \in Core PROVE B(c) = <<>>
    <3>1. outlen[c] = 0
      BY DEF Init
    <3>2. 1..outlen[c] = {}
      BY <3>1
    <3> QED
      BY <3>2
  <2>2. \A c \in Core : accepted[c] = <<>> /\ written[c] = <<>>
    BY DEF Init
  <2>3. <<>> \o <<>> = <<>>
    OBVIOUS
  <2> QED
    BY <2>1, <2>2, <2>3 DEF OutputInOrder
<1> QED
  BY <1>1, <1>2, <1>3, <1>4, <1>5 DEF IInv

\* The invariant is inductive.
THEOREM Inductive == Spec => []IInv
<1>1. Init => IInv
  BY InitInv
<1>2. IInv /\ [Next]_vars => IInv'
  <2> SUFFICES ASSUME IInv, [Next]_vars PROVE IInv'
    OBVIOUS
  <2> QED
    BY TypeStep, StartStep, StageStep, DistinctStep, TableStep, OnStep, BufStep, InStep,
       VectorsStep, LoopStep, DeafStep, OrderStep DEF IInv
<1> QED
  BY <1>1, <1>2, PTL DEF Spec

\* Every variable has its type.
THEOREM TypeCorrect == Spec => []TypeOK
<1>1. IInv => TypeOK
  BY DEF IInv
<1> QED
  BY <1>1, Inductive, PTL

\* A core's PIC calls what was mapped, although the core started, and copied the
\* table of vectors, while other cores mapped theirs.
THEOREM AllCoresAgree == Spec => []VectorsAgree
<1>1. IInv => VectorsAgree
  BY DEF IInv
<1> QED
  BY <1>1, Inductive, PTL

\* A core that waits in pselect waits for all vectors that are on or will be signalled,
\* although it built its fd sets without a lock.
THEOREM NobodyDeaf == Spec => []NoDeafCore
<1>1. IInv => NoDeafCore
  BY DEF IInv, ScanInv, Covered, Waiting, Alarmed, NoDeafCore
<1> QED
  BY <1>1, Inductive, PTL

\* dispatchEventLocal calls the core's own handler: ids and functions that other
\* cores copy to and from its table are never called.
THEOREM RightHandler == Spec => []DispatchedRight
<1>1. IInv => DispatchedRight
  <2> SUFFICES ASSUME IInv, NEW c \in Core, cur[c] # None
               PROVE  handlerInfo[c][cur[c]] \in
                        {i \in [id : {c}, fn : Funcs] :
                           cur[c] = IF i.fn = "inEvent" THEN inEV[c] ELSE outEV[c]}
    BY DEF DispatchedRight
  <2>1. RightAt(c, cur[c])
    BY DEF IInv, TableInv, TableAt
  <2> QED
    BY <2>1 DEF RightAt
<1> QED
  BY <1>1, Inductive, PTL

\* What putChar accepts is written once and in order, for any buffer and terminal.
THEOREM InOrder == Spec => []OutputInOrder
<1>1. IInv => OutputInOrder
  BY DEF IInv
<1> QED
  BY <1>1, Inductive, PTL

\* No other core turns off the output event of a console that has characters to write.
THEOREM StaysOn == Spec => []OutputIsOn
<1>1. IInv => OutputIsOn
  BY DEF IInv, BufInv, BufAt, OutputIsOn
<1> QED
  BY <1>1, Inductive, PTL

=============================================================================
