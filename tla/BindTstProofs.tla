--------------------------- MODULE BindTstProofs ---------------------------
(***************************************************************************)
(* TLAPS proofs about BindTst, for any number of cores: the barrier keeps  *)
(* the cores together, and so every call is answered by the instance that  *)
(* was bound last.  They assume, as bindtst does, that all cores have      *)
(* their ids when core 0 sets the barrier up (JoinFirst), and the roots    *)
(* that bindtst creates, CObjEBBRootShared.                                *)
(***************************************************************************)
EXTENDS BindTst, Integers, FiniteSetTheorems, TLAPS

Kinds == \A i \in Inst : Kind[i] = IF i = "null" THEN "null" ELSE "shared"

-----------------------------------------------------------------------------
(* The inductive invariant of the barrier.                                 *)

\* The statements of the program by what they do.
Barriers == {1, 4, 8, 10, 12, 14, 16, 18}
Allocs == {2, 6}
Binds == {3, 7, 11, 15}
Calls == {5, 9, 13, 17}

InBarrier == {"spin", "reset", "flip"}

TypeInv ==
  /\ numlpics \in 1..NumCores
  /\ ip \in [Core -> 0..19]
  /\ phase \in [Core -> {"ready", "cores", "run", "crash"} \cup InBarrier]
  /\ mysense \in [Core -> BOOLEAN] /\ sense \in BOOLEAN
  /\ count \in Int

\* Core 0 has set the barrier up.
Started == ip[0] > 0 \/ phase[0] = "cores"

\* The other cores wait until it has; and where each phase can be met.
StartInv ==
  /\ cores # 0 => ip[0] > 0
  /\ ip[0] = 0 => \A c \in Core : ip[c] = 0
  /\ Started => numlpics = NumCores /\ parties = NumCores
  /\ \A c \in Core :
       /\ phase[c] \in InBarrier => ip[c] \in Barriers
       /\ phase[c] \in {"run", "crash"} => ip[c] \in Allocs \cup Binds \cup Calls
       /\ phase[c] = "cores" => c = 0 /\ ip[c] = 0

Odd(n) == n \in {1, 3, 5, 7, 9}

\* The cores that wait in the barrier of round g.
Waiting(g) == {c \in Core : phase[c] = "spin" /\ Left(c) = g}

\* g barriers are over.  A core has left the last of them or still spins in it, and those
\* that have left it may wait in the next.
Round(g) ==
  /\ sense = Odd(g)
  /\ \A c \in Core : mysense[c] = Odd(Entered(c))
  /\ \A c \in Core : Left(c) = g \/ (Left(c) = g - 1 /\ phase[c] = "spin")
  /\ \A c \in Core : phase[c] \in {"reset", "flip"} =>
       Left(c) = g /\ Waiting(g) = Core \ {c}
  /\ \A c \in Core : phase[c] = "flip" => count = NumCores
  /\ Started /\ (\A c \in Core : phase[c] \notin {"reset", "flip"}) =>
       count = NumCores - Cardinality(Waiting(g)) /\ count > 0

BarrierInv == TypeInv /\ StartInv /\ \E g \in 0..8 : Round(g)

-----------------------------------------------------------------------------
(* The inductive invariant of the calls.                                   *)

\* What a core may have in its local translation of an id bound to i.
May(i) == IF Kind[i] = "null" THEN {None} ELSE {None, RepOf(i, None)}

BoundTo(d, i) ==
  /\ d \in allocated /\ mf[d] = MissFunc(i) /\ arg[d] = MissArg(i)
  /\ \A c \in Core : lt[c][d] \in May(i)

OpType ==
  /\ allocated \subseteq Id
  /\ mf = [d \in Id |-> mf[d]] /\ arg = [d \in Id |-> arg[d]]
  /\ lt = [c \in Core |-> [d \in Id |-> lt[c][d]]]
  /\ pc = [c \in Core |-> pc[c]] /\ cid = [c \in Core |-> cid[c]]
  /\ inst = [c \in Core |-> inst[c]] /\ fn = [c \in Core |-> fn[c]]
  /\ rmf = [c \in Core |-> rmf[c]] /\ rarg = [c \in Core |-> rarg[c]]
  /\ obj = [c \in Core |-> obj[c]] /\ picId = [c \in Core |-> picId[c]]
  /\ result \in [Core -> {"none", "ran", "EBBRC_NULL"}]
  /\ ids \in [{"NULLId", "theId"} -> Id \cup {None}]

\* The ids that the master has allocated, and the instances they are bound to, by how far
\* the master is.
IdInv ==
  /\ \A x \in {"NULLId", "theId"} : ids[x] # None => ids[x] \in allocated
  /\ ids["NULLId"] # None => ids["NULLId"] # ids["theId"]
  /\ ip[0] <= 6 => ids["theId"] = None
  /\ ip[0] >= 4 => BoundTo(ids["NULLId"], "null")
  /\ ip[0] \in 8..10 => BoundTo(ids["theId"], "null")
  /\ ip[0] \in 12..14 => BoundTo(ids["theId"], "s0")
  /\ ip[0] >= 16 => BoundTo(ids["theId"], "s1")

\* The master in an allocation ...
AllocInv ==
  phase[0] = "run" /\ ip[0] \in Allocs =>
    /\ pc[0] \in {"alloc", "idle"} /\ cid[0] \in Id \cup {None}
    /\ pc[0] = "alloc" => cid[0] \in Id
    /\ pc[0] = "idle" => cid[0] = None \/ cid[0] \in allocated
    /\ ip[0] = 6 => cid[0] # ids["NULLId"]

\* ... and in a bind: it has cleared the local translations of the cores below picId.
InBind(d, i) ==
  /\ d \in allocated /\ cid[0] = d /\ inst[0] = i
  /\ mf[d] = MissFunc(i)
  /\ pc[0] \in {"bind", "invalidate", "idle"}
  /\ pc[0] # "bind" => arg[d] = MissArg(i)
  /\ pc[0] = "invalidate" => /\ picId[0] \in Core
                             /\ \A k \in Core : k < picId[0] => lt[k][d] = None
  /\ pc[0] = "idle" => \A k \in Core : lt[k][d] = None

BindInv ==
  phase[0] = "run" /\ ip[0] \in Binds =>
    \E d \in Id, i \in Inst : /\ d = ids[Program[ip[0]].id] /\ i = Program[ip[0]].inst
                              /\ InBind(d, i)

\* The instance that a call is to reach.
Wanted(n) == IF n \in {5, 9} THEN "null" ELSE IF n = 13 THEN "s0" ELSE "s1"

\* A call sees the instance it is to reach in all that it reads.
InCall(c, d, i) ==
  /\ cid[c] = d
  /\ pc[c] \in {"self", "miss", "invoke", "cache", "mark", "idle"}
  /\ pc[c] = "self" => fn[c] \in May(i) /\ (fn[c] # None => lt[c][d] # None)
  /\ pc[c] = "miss" => /\ rmf[c] \in {"unread", MissFunc(i)}
                       /\ rarg[c] \in {"unread", MissArg(i)}
  /\ pc[c] = "invoke" => rmf[c] = MissFunc(i) /\ rarg[c] = MissArg(i)
  /\ pc[c] \in {"cache", "mark"} => obj[c] = RepOf(i, None) /\ i # "null"
  /\ pc[c] = "idle" => Answer(c) = IF i = "null" THEN "EBBRC_NULL" ELSE i

CallerInv(c) ==
  /\ phase[c] # "run" => pc[c] = "idle"
  /\ phase[c] = "run" => c = 0 \/ ip[c] \in Calls
  /\ phase[c] = "run" /\ ip[c] \in Calls =>
       \E d \in Id, i \in Inst : /\ d = ids[Program[ip[c]].id] /\ i = Wanted(ip[c])
                                 /\ InCall(c, d, i)

PassInv == passed = Core /\ \A c \in Core : phase[c] # "crash"

OpInv ==
  /\ OpType /\ IdInv /\ AllocInv /\ BindInv /\ PassInv
  /\ \A c \in Core : CallerInv(c)

IInv == BarrierInv /\ OpInv

-----------------------------------------------------------------------------
(* The program and its barriers.                                           *)

\* The statements of the program one by one.
LEMMA Statements ==
  /\ DOMAIN Program = 1..18 /\ Len(Program) = 18
  /\ \A n \in Barriers : Program[n].op = "barrier"
  /\ \A n \in Allocs : Program[n].op = "alloc"
  /\ \A n \in Binds : Program[n].op = "bind"
  /\ \A n \in Calls : Program[n].op = "call"
<1>1. DOMAIN Program = 1..18 /\ Len(Program) = 18
  BY DEF Program
<1>2. \A n \in Barriers : Program[n].op = "barrier"
  BY DEF Program, Barriers, Barrier
<1>3. \A n \in Allocs : Program[n].op = "alloc"
  BY DEF Program, Allocs, Alloc
<1>4. \A n \in Binds : Program[n].op = "bind"
  BY DEF Program, Binds, Bind
<1>5. \A n \in Calls : Program[n].op = "call"
  BY DEF Program, Calls, Call
<1> QED
  BY <1>1, <1>2, <1>3, <1>4, <1>5

\* Which statements are barriers, allocations, binds and calls.
LEMMA Kinds4 ==
  ASSUME NEW n \in 1..18
  PROVE  /\ Program[n].op = "barrier" <=> n \in Barriers
         /\ Program[n].op = "alloc" <=> n \in Allocs
         /\ Program[n].op = "bind" <=> n \in Binds
         /\ Program[n].op = "call" <=> n \in Calls
<1>1. n \in Barriers \/ n \in Allocs \/ n \in Binds \/ n \in Calls
  BY DEF Barriers, Allocs, Binds, Calls
<1>2. CASE n \in Barriers
  BY <1>2, Statements DEF Barriers, Allocs, Binds, Calls
<1>3. CASE n \in Allocs
  BY <1>3, Statements DEF Barriers, Allocs, Binds, Calls
<1>4. CASE n \in Binds
  BY <1>4, Statements DEF Barriers, Allocs, Binds, Calls
<1>5. CASE n \in Calls
  BY <1>5, Statements DEF Barriers, Allocs, Binds, Calls
<1> QED
  BY <1>1, <1>2, <1>3, <1>4, <1>5

\* Core 0 exists, and how many cores there are.
LEMMA CoreFacts ==
  /\ NumCores \in Nat /\ NumCores > 0 /\ 0 \in Core /\ Core \subseteq Nat
  /\ IsFiniteSet(Core) /\ Cardinality(Core) = NumCores
<1>1. NumCores \in Nat /\ NumCores > 0 /\ 0 \in Core /\ Core \subseteq Nat
  BY EBBTransAssumption DEF Core
<1>2. PICK m \in Nat : m = NumCores - 1
  BY <1>1
<1>3. IsFiniteSet(0..m) /\ Cardinality(0..m) = m + 1
  BY FS_Interval
<1>4. IsFiniteSet(Core) /\ Cardinality(Core) = NumCores
  BY <1>1, <1>2, <1>3 DEF Core
<1> QED
  BY <1>1, <1>4

\* A barrier adds one to the barriers before a statement.
LEMMA NextBefore ==
  ASSUME NEW n \in 0..18, BarriersBefore(n) \in Nat
  PROVE  BarriersBefore(n + 1) = BarriersBefore(n) + (IF n \in Barriers THEN 1 ELSE 0)
<1> DEFINE S(m) == {k \in 1..(m - 1) : Program[k].op = "barrier"}
<1>1. IsFiniteSet(S(n))
  <2>1. IsFiniteSet(1..(n - 1))
    BY FS_Interval
  <2>2. S(n) \subseteq 1..(n - 1)
    OBVIOUS
  <2> QED
    BY <2>1, <2>2, FS_Subset
<1>2. CASE n \in Barriers
  <2>1. n \in 1..18 /\ Program[n].op = "barrier"
    BY <1>2, Statements DEF Barriers
  <2>2. S(n + 1) = S(n) \cup {n} /\ n \notin S(n)
    BY <2>1
  <2> HIDE DEF S
  <2>3. Cardinality(S(n + 1)) = Cardinality(S(n)) + 1
    BY <1>1, <2>2, FS_AddElement
  <2> QED
    BY <1>2, <2>3 DEF BarriersBefore, S
<1>3. CASE n \notin Barriers
  <2>1. n # 0 => Program[n].op # "barrier"
    <3> SUFFICES ASSUME n # 0 PROVE Program[n].op # "barrier"
      OBVIOUS
    <3>1. n \in 1..18
      OBVIOUS
    <3> QED
      BY <1>3, <3>1, Kinds4
  <2>2. S(n + 1) = S(n)
    BY <2>1
  <2>3. BarriersBefore(n + 1) = Cardinality(S(n + 1)) /\ BarriersBefore(n) = Cardinality(S(n))
    BY DEF BarriersBefore
  <2> HIDE DEF S
  <2> QED
    BY <1>3, <2>2, <2>3
<1> QED
  BY <1>2, <1>3

\* How many barriers come before each statement.
LEMMA Before ==
  /\ BarriersBefore(0) = 0 /\ BarriersBefore(1) = 0
  /\ \A n \in 2..4 : BarriersBefore(n) = 1
  /\ \A n \in 5..8 : BarriersBefore(n) = 2
  /\ \A n \in 9..10 : BarriersBefore(n) = 3
  /\ \A n \in 11..12 : BarriersBefore(n) = 4
  /\ \A n \in 13..14 : BarriersBefore(n) = 5
  /\ \A n \in 15..16 : BarriersBefore(n) = 6
  /\ \A n \in 17..18 : BarriersBefore(n) = 7
  /\ BarriersBefore(19) = 8
<1>0. BarriersBefore(0) = 0
  <2>1. {k \in 1..(0 - 1) : Program[k].op = "barrier"} = {}
    OBVIOUS
  <2> QED
    BY <2>1, FS_EmptySet DEF BarriersBefore
<1>1. BarriersBefore(1) = 0
  BY <1>0, NextBefore DEF Barriers
<1>2. BarriersBefore(2) = 1
  BY <1>1, NextBefore DEF Barriers
<1>3. BarriersBefore(3) = 1
  BY <1>2, NextBefore DEF Barriers
<1>4. BarriersBefore(4) = 1
  BY <1>3, NextBefore DEF Barriers
<1>5. BarriersBefore(5) = 2
  BY <1>4, NextBefore DEF Barriers
<1>6. BarriersBefore(6) = 2
  BY <1>5, NextBefore DEF Barriers
<1>7. BarriersBefore(7) = 2
  BY <1>6, NextBefore DEF Barriers
<1>8. BarriersBefore(8) = 2
  BY <1>7, NextBefore DEF Barriers
<1>9. BarriersBefore(9) = 3
  BY <1>8, NextBefore DEF Barriers
<1>10. BarriersBefore(10) = 3
  BY <1>9, NextBefore DEF Barriers
<1>11. BarriersBefore(11) = 4
  BY <1>10, NextBefore DEF Barriers
<1>12. BarriersBefore(12) = 4
  BY <1>11, NextBefore DEF Barriers
<1>13. BarriersBefore(13) = 5
  BY <1>12, NextBefore DEF Barriers
<1>14. BarriersBefore(14) = 5
  BY <1>13, NextBefore DEF Barriers
<1>15. BarriersBefore(15) = 6
  BY <1>14, NextBefore DEF Barriers
<1>16. BarriersBefore(16) = 6
  BY <1>15, NextBefore DEF Barriers
<1>17. BarriersBefore(17) = 7
  BY <1>16, NextBefore DEF Barriers
<1>18. BarriersBefore(18) = 7
  BY <1>17, NextBefore DEF Barriers
<1>19. BarriersBefore(19) = 8
  BY <1>18, NextBefore DEF Barriers
<1> QED
  BY <1>0, <1>1, <1>2, <1>3, <1>4, <1>5, <1>6, <1>7, <1>8, <1>9, <1>10, <1>11, <1>12,
     <1>13, <1>14, <1>15, <1>16, <1>17, <1>18, <1>19

\* The barriers before the next statement.
LEMMA BeforeNext ==
  ASSUME NEW n \in 0..19
  PROVE  /\ BarriersBefore(n) \in 0..8
         /\ n \in Barriers => BarriersBefore(n + 1) = BarriersBefore(n) + 1
         /\ n \notin Barriers /\ n < 19 => BarriersBefore(n + 1) = BarriersBefore(n)
<1>1. BarriersBefore(n) \in 0..8
  BY Before
<1>2. n \in Barriers => n \in 0..18
  BY DEF Barriers
<1> QED
  BY <1>1, <1>2, NextBefore

-----------------------------------------------------------------------------
(* The barrier.                                                            *)

\* In the initial state nobody is in the barrier: round 0.
LEMMA BarrierInit == TstInit => BarrierInv
<1> SUFFICES ASSUME TstInit PROVE BarrierInv
  OBVIOUS
<1>1. /\ ip = [c \in Core |-> 0] /\ phase = [c \in Core |-> "ready"] /\ numlpics = 1
      /\ cores = 0 /\ count = 0 /\ sense = FALSE /\ mysense = [c \in Core |-> FALSE]
  BY DEF TstInit
<1>2. 0 \in Core /\ NumCores \in Nat /\ NumCores > 0
  BY CoreFacts
<1>3. TypeInv
  <2>1. 0 \in 0..19 /\ 1 \in 1..NumCores /\ 0 \in Int
    BY <1>2
  <2> QED
    BY <1>1, <2>1 DEF TypeInv
<1>4. StartInv
  BY <1>1, <1>2 DEF StartInv, Started, InBarrier
<1>5. \A c \in Core : Left(c) = 0 /\ Entered(c) = 0
  BY <1>1, Before DEF Left, Entered
<1>6. Round(0)
  <2>0. Odd(0) = FALSE
    BY DEF Odd
  <2>1. ~Started
    BY <1>1, <1>2 DEF Started
  <2>2. \A c \in Core : phase[c] = "ready" /\ mysense[c] = FALSE
    BY <1>1
  <2>3. sense = Odd(0)
    BY <1>1, <2>0
  <2>4. \A c \in Core : mysense[c] = Odd(Entered(c))
    BY <1>5, <2>0, <2>2
  <2> QED
    BY <1>5, <2>1, <2>2, <2>3, <2>4 DEF Round
<1> QED
  BY <1>3, <1>4, <1>6 DEF BarrierInv

\* What a core can be doing in a round.
LEMMA RoundFacts ==
  ASSUME TypeInv, NEW g \in 0..8, Round(g), NEW c \in Core
  PROVE  /\ ip[c] \in 0..19 /\ Left(c) \in 0..8
         /\ phase[c] \notin InBarrier => Left(c) = g /\ Entered(c) = g
         /\ phase[c] \in {"reset", "flip"} => Left(c) = g /\ Entered(c) = g + 1
         /\ phase[c] = "spin" => Entered(c) = Left(c) + 1
         /\ phase[c] \notin {"spin"} =>
              \A k \in Core : phase[k] \in {"reset", "flip"} => k = c
         /\ Left(c) <= g /\ g <= Entered(c) /\ Entered(c) \in 0..9
<1>1. ip[c] \in 0..19
  BY DEF TypeInv
<1>2. Left(c) \in 0..8
  BY <1>1, BeforeNext DEF Left
<1>3. Entered(c) = Left(c) + (IF phase[c] \in InBarrier THEN 1 ELSE 0)
  BY DEF Entered, InBarrier
<1>4. Left(c) = g \/ (Left(c) = g - 1 /\ phase[c] = "spin")
  BY DEF Round
<1>5. phase[c] # "spin" => \A k \in Core : phase[k] \in {"reset", "flip"} => k = c
  BY DEF Round, Waiting
<1> QED
  BY <1>1, <1>2, <1>3, <1>4, <1>5 DEF InBarrier

\* A step of one core outside the barriers does not touch them.
LEMMA OutsideStep ==
  ASSUME TypeInv, NEW g \in 0..8, Round(g), NEW c \in Core, NEW n, NEW p,
         phase[c] \notin InBarrier, p \notin InBarrier,
         ip' = [ip EXCEPT ![c] = n], phase' = [phase EXCEPT ![c] = p],
         BarriersBefore(n) = BarriersBefore(ip[c]),
         count' = count, sense' = sense, mysense' = mysense, Started' = Started
  PROVE  Round(g)'
<1>1. \A k \in Core \ {c} : ip'[k] = ip[k] /\ phase'[k] = phase[k]
  BY DEF TypeInv
<1>2. ip'[c] = n /\ phase'[c] = p
  BY DEF TypeInv
<1>3. \A k \in Core : Left(k)' = Left(k) /\ Entered(k)' = Entered(k)
  BY <1>1, <1>2 DEF Left, Entered, InBarrier
<1>4. Waiting(g)' = Waiting(g)
  BY <1>1, <1>2, <1>3 DEF Waiting, InBarrier
<1> QED
  BY <1>1, <1>2, <1>3, <1>4 DEF Round, InBarrier

\* A core arrives: the last one finds all others waiting and goes on to reset the count.
LEMMA ArriveStep ==
  ASSUME BarrierInv, NEW c \in Core, Arrive(c)
  PROVE  BarrierInv'
<1>1. TypeInv /\ StartInv
  BY DEF BarrierInv
<1>2. PICK g \in 0..8 : Round(g)
  BY DEF BarrierInv
<1>3. /\ ip[c] \in 1..18 /\ Program[ip[c]].op = "barrier" /\ phase[c] = "ready"
      /\ mysense' = [mysense EXCEPT ![c] = ~mysense[c]]
      /\ count' = count - 1
      /\ phase' = [phase EXCEPT ![c] = IF count = 1 THEN "reset" ELSE "spin"]
      /\ ip' = ip /\ cores' = cores /\ parties' = parties /\ sense' = sense
      /\ numlpics' = numlpics
  BY Statements DEF Arrive, At, Phase, LastToArrive, Reversed, vars, rootVars
<1>4. ip[c] \in Barriers
  BY <1>3, Kinds4
<1>5. \A k \in Core \ {c} : phase'[k] = phase[k] /\ mysense'[k] = mysense[k]
  BY <1>1, <1>3 DEF TypeInv
<1>6. mysense'[c] = ~mysense[c] /\ phase'[c] = IF count = 1 THEN "reset" ELSE "spin"
  BY <1>1, <1>3 DEF TypeInv
<1>7. Left(c) = g /\ Entered(c) = g /\ \A k \in Core : phase[k] \notin {"reset", "flip"}
  BY <1>1, <1>2, <1>3, RoundFacts DEF InBarrier
<1>8. Started /\ 0 \in Core
  <2>1. ip[c] > 0 /\ ip[c] # 0
    BY <1>3
  <2>2. 0 \in Core /\ ip[0] \in 0..19
    BY <1>1, CoreFacts DEF TypeInv
  <2> QED
    BY <1>1, <2>1, <2>2 DEF Started, StartInv
<1>9. count = NumCores - Cardinality(Waiting(g)) /\ count > 0 /\ count \in Int
  BY <1>1, <1>2, <1>7, <1>8 DEF Round, TypeInv
<1>10. /\ IsFiniteSet(Core) /\ Cardinality(Core) = NumCores /\ NumCores \in Nat
  BY CoreFacts
<1>11. Waiting(g) \subseteq Core \ {c} /\ IsFiniteSet(Waiting(g))
  <2>1. Waiting(g) \subseteq Core \ {c}
    BY <1>3 DEF Waiting
  <2> QED
    BY <1>10, <2>1, FS_Subset
<1>12. Cardinality(Waiting(g)) \in Nat
  BY <1>11, FS_CardinalityType
<1>13. \A k \in Core : Left(k)' = Left(k) /\ (k # c => Entered(k)' = Entered(k))
  BY <1>3, <1>5 DEF Left, Entered
<1>14. Entered(c)' = g + 1
  BY <1>6, <1>7, <1>13 DEF Entered
<1>15. TypeInv'
  BY <1>1, <1>3 DEF TypeInv, InBarrier
<1>16. StartInv'
  <2>1. Started' /\ Started
    BY <1>3, <1>5, <1>6, <1>8 DEF Started
  <2>2. \A k \in Core : /\ phase'[k] \in InBarrier => ip[k] \in Barriers
                        /\ phase'[k] # phase[k] => phase'[k] \in InBarrier
    BY <1>1, <1>4, <1>5, <1>6 DEF StartInv, InBarrier
  <2> QED
    BY <1>1, <1>3, <2>1, <2>2 DEF StartInv, InBarrier
<1>17. Round(g)'
  <2>1. \A k \in Core : mysense'[k] = Odd(Entered(k)')
    <3>1. mysense[c] = Odd(g)
      BY <1>2, <1>7 DEF Round
    <3>2. Odd(g + 1) = ~Odd(g)
      BY DEF Odd
    <3>3. mysense'[c] = Odd(Entered(c)')
      BY <1>6, <1>14, <3>1, <3>2
    <3> QED
      BY <1>2, <1>5, <1>13, <3>3 DEF Round
  <2>2. \A k \in Core : Left(k)' = g \/ (Left(k)' = g - 1 /\ phase'[k] = "spin")
    BY <1>2, <1>5, <1>7, <1>13 DEF Round
  <2>3. CASE count = 1
    <3>1. phase'[c] = "reset"
      BY <1>6, <2>3
    <3>2. Waiting(g)' = Waiting(g)
      BY <1>3, <1>5, <1>13, <3>1 DEF Waiting
    <3>3. Waiting(g) = Core \ {c}
      <4>1. Cardinality(Waiting(g)) = NumCores - 1
        BY <1>9, <1>10, <1>12, <2>3
      <4>2. IsFiniteSet(Core \ {c}) /\ Cardinality(Core \ {c}) = NumCores - 1
        BY <1>10, FS_RemoveElement
      <4> QED
        BY <1>11, <4>1, <4>2, FS_Subset
    <3>4. \A k \in Core : phase'[k] \in {"reset", "flip"} => k = c
      BY <1>5, <1>7
    <3> QED
      BY <1>2, <1>3, <1>7, <1>13, <2>1, <2>2, <3>1, <3>2, <3>3, <3>4 DEF Round
  <2>4. CASE count # 1
    <3>1. phase'[c] = "spin"
      BY <1>6, <2>4
    <3>2. Waiting(g)' = Waiting(g) \cup {c} /\ c \notin Waiting(g)
      BY <1>3, <1>5, <1>7, <1>13, <3>1 DEF Waiting
    <3>3. Cardinality(Waiting(g)') = Cardinality(Waiting(g)) + 1
      BY <1>11, <3>2, FS_AddElement
    <3>4. count' = NumCores - Cardinality(Waiting(g)') /\ count' > 0
      BY <1>3, <1>9, <1>10, <1>12, <2>4, <3>3
    <3>5. \A k \in Core : phase'[k] \notin {"reset", "flip"}
      BY <1>5, <1>7, <3>1
    <3> QED
      BY <1>2, <1>3, <2>1, <2>2, <3>4, <3>5 DEF Round
  <2> QED
    BY <2>3, <2>4
<1> QED
  BY <1>2, <1>15, <1>16, <1>17 DEF BarrierInv

\* The last core to arrive resets the count; the others still wait for the sense.
LEMMA ResetStep ==
  ASSUME BarrierInv, NEW c \in Core, ResetCount(c)
  PROVE  BarrierInv'
<1>1. TypeInv /\ StartInv
  BY DEF BarrierInv
<1>2. PICK g \in 0..8 : Round(g)
  BY DEF BarrierInv
<1>3. /\ ip[c] \in 1..18 /\ Program[ip[c]].op = "barrier" /\ phase[c] = "reset"
      /\ count' = parties /\ phase' = [phase EXCEPT ![c] = "flip"]
      /\ ip' = ip /\ cores' = cores /\ parties' = parties /\ sense' = sense
      /\ mysense' = mysense /\ numlpics' = numlpics
  BY Statements DEF ResetCount, At, Phase, vars, rootVars
<1>4. ip[c] \in Barriers
  BY <1>3, Kinds4
<1>5. phase'[c] = "flip" /\ \A k \in Core \ {c} : phase'[k] = phase[k]
  BY <1>1, <1>3 DEF TypeInv
<1>6. Left(c) = g /\ Waiting(g) = Core \ {c}
  BY <1>2, <1>3 DEF Round
<1>7. \A k \in Core \ {c} : phase[k] = "spin"
  BY <1>6 DEF Waiting
<1>8. Started /\ Started'
  <2>1. ip[c] # 0
    BY <1>3
  <2>2. 0 \in Core /\ ip[0] \in 0..19
    BY <1>1, CoreFacts DEF TypeInv
  <2>3. ip[0] > 0
    BY <1>1, <2>1, <2>2 DEF StartInv
  <2> QED
    BY <1>3, <2>3 DEF Started
<1>9. parties = NumCores /\ NumCores \in Nat
  BY <1>1, <1>8, CoreFacts DEF StartInv
<1>10. \A k \in Core : Left(k)' = Left(k) /\ Entered(k)' = Entered(k)
  BY <1>3, <1>5 DEF Left, Entered
<1>11. Waiting(g)' = Waiting(g)
  BY <1>3, <1>5, <1>10 DEF Waiting
<1>12. TypeInv'
  BY <1>1, <1>3, <1>9 DEF TypeInv, InBarrier
<1>13. StartInv'
  BY <1>1, <1>3, <1>4, <1>5, <1>8 DEF StartInv, InBarrier
<1>14. Round(g)'
  <2>1. \A k \in Core : phase'[k] \in {"reset", "flip"} => k = c
    BY <1>5, <1>7
  <2> QED
    BY <1>2, <1>3, <1>5, <1>6, <1>7, <1>9, <1>10, <1>11, <2>1 DEF Round
<1> QED
  BY <1>2, <1>12, <1>13, <1>14 DEF BarrierInv

\* The last core flips the sense and leaves: the next round, in which all others may leave.
LEMMA FlipStep ==
  ASSUME BarrierInv, NEW c \in Core, FlipSense(c)
  PROVE  BarrierInv'
<1>1. TypeInv /\ StartInv
  BY DEF BarrierInv
<1>2. PICK g \in 0..8 : Round(g)
  BY DEF BarrierInv
<1>3. /\ ip[c] \in 1..18 /\ Program[ip[c]].op = "barrier" /\ phase[c] = "flip"
      /\ sense' = mysense[c] /\ phase' = [phase EXCEPT ![c] = "ready"]
      /\ ip' = [ip EXCEPT ![c] = ip[c] + 1]
      /\ cores' = cores /\ parties' = parties /\ count' = count
      /\ mysense' = mysense /\ numlpics' = numlpics
  BY Statements DEF FlipSense, At, NextStatement, vars, rootVars
<1>4. ip[c] \in Barriers
  BY <1>3, Kinds4
<1>5. /\ phase'[c] = "ready" /\ ip'[c] = ip[c] + 1
      /\ \A k \in Core \ {c} : phase'[k] = phase[k] /\ ip'[k] = ip[k]
  BY <1>1, <1>3 DEF TypeInv
<1>6. Left(c) = g /\ Waiting(g) = Core \ {c} /\ count = NumCores
  BY <1>2, <1>3 DEF Round
<1>7. \A k \in Core \ {c} : phase[k] = "spin" /\ Left(k) = g
  BY <1>6 DEF Waiting
<1>8. Left(c)' = g + 1 /\ g + 1 \in 0..8
  <2>1. ip[c] \in 0..19 /\ ip[c] + 1 \in 0..19
    BY <1>3
  <2>2. BarriersBefore(ip[c]) = g
    BY <1>6 DEF Left
  <2>3. Left(c)' = BarriersBefore(ip[c] + 1)
    BY <1>5 DEF Left
  <2>4. BarriersBefore(ip[c] + 1) = g + 1
    BY <1>4, <2>1, <2>2, BeforeNext
  <2>5. BarriersBefore(ip[c] + 1) \in 0..8
    BY <2>1, BeforeNext
  <2> QED
    BY <2>3, <2>4, <2>5
<1>9. Started /\ Started' /\ 0 \in Core /\ NumCores \in Nat /\ NumCores > 0
  <2>1. ip[c] # 0
    BY <1>3
  <2>2. 0 \in Core /\ ip[0] \in 0..19 /\ NumCores \in Nat /\ NumCores > 0
    BY <1>1, CoreFacts DEF TypeInv
  <2>3. ip[0] > 0
    BY <1>1, <2>1, <2>2 DEF StartInv
  <2>4. ip'[0] > 0
    BY <1>3, <1>5, <2>2, <2>3
  <2> QED
    BY <2>2, <2>3, <2>4 DEF Started
<1>10. \A k \in Core \ {c} : Left(k)' = g /\ Entered(k)' = Entered(k)
  BY <1>5, <1>7 DEF Left, Entered
<1>11. Entered(c)' = g + 1 /\ Entered(c) = g + 1
  BY <1>3, <1>5, <1>6, <1>8 DEF Entered
<1>12. TypeInv'
  <2>1. ip[c] + 1 \in 0..19 /\ mysense[c] \in BOOLEAN
    BY <1>1, <1>3 DEF TypeInv
  <2> QED
    BY <1>1, <1>3, <2>1 DEF TypeInv
<1>13. StartInv'
  <2>1. ip'[0] > 0 /\ ip[0] > 0
    <3>1. ip[c] # 0 /\ ip[0] \in 0..19
      BY <1>1, <1>3, <1>9 DEF TypeInv
    <3>2. ip[0] > 0
      BY <1>1, <3>1 DEF StartInv
    <3> QED
      BY <1>3, <1>5, <1>9, <3>2
  <2>2. ip'[0] # 0
    BY <2>1
  <2> QED
    BY <1>1, <1>3, <1>5, <1>9, <2>1, <2>2 DEF StartInv, InBarrier
<1>14. Round(g + 1)'
  <2>1. sense' = Odd(g + 1)
    BY <1>2, <1>3, <1>11 DEF Round
  <2>2. \A k \in Core : mysense'[k] = Odd(Entered(k)')
    BY <1>2, <1>3, <1>10, <1>11 DEF Round
  <2>3. \A k \in Core : Left(k)' = g + 1 \/ (Left(k)' = (g + 1) - 1 /\ phase'[k] = "spin")
    BY <1>5, <1>7, <1>8, <1>10
  <2>4. \A k \in Core : phase'[k] \notin {"reset", "flip"}
    BY <1>5, <1>7
  <2>5. Waiting(g + 1)' = {}
    BY <1>5, <1>10 DEF Waiting
  <2>6. Cardinality(Waiting(g + 1)') = 0
    BY <2>5, FS_EmptySet
  <2>7. count' = NumCores - Cardinality(Waiting(g + 1)') /\ count' > 0
    BY <1>3, <1>6, <1>9, <2>6
  <2> QED
    BY <2>1, <2>2, <2>3, <2>4, <2>7 DEF Round
<1> QED
  BY <1>8, <1>12, <1>13, <1>14 DEF BarrierInv

\* A core that finds the sense flipped leaves, behind the one that flipped it.
LEMMA SpinStep ==
  ASSUME BarrierInv, NEW c \in Core, SpinOnSense(c)
  PROVE  BarrierInv'
<1>1. TypeInv /\ StartInv
  BY DEF BarrierInv
<1>2. PICK g \in 0..8 : Round(g)
  BY DEF BarrierInv
<1>3. /\ ip[c] \in 1..18 /\ Program[ip[c]].op = "barrier" /\ phase[c] = "spin"
      /\ sense = mysense[c] /\ phase' = [phase EXCEPT ![c] = "ready"]
      /\ ip' = [ip EXCEPT ![c] = ip[c] + 1]
      /\ cores' = cores /\ parties' = parties /\ count' = count
      /\ sense' = sense /\ mysense' = mysense /\ numlpics' = numlpics
  BY Statements DEF SpinOnSense, At, NextStatement, vars, rootVars, barVars
<1>4. ip[c] \in Barriers
  BY <1>3, Kinds4
<1>5. /\ phase'[c] = "ready" /\ ip'[c] = ip[c] + 1
      /\ \A k \in Core \ {c} : phase'[k] = phase[k] /\ ip'[k] = ip[k]
  BY <1>1, <1>3 DEF TypeInv
<1>6. Left(c) = g - 1 /\ Entered(c) = g
  <2>1. Odd(g) = Odd(Entered(c)) /\ Entered(c) = Left(c) + 1
    BY <1>1, <1>2, <1>3, RoundFacts DEF Round
  <2>2. Odd(g + 1) = ~Odd(g)
    BY DEF Odd
  <2>3. Left(c) # g
    BY <2>1, <2>2
  <2>4. Left(c) = g - 1
    BY <1>2, <2>3 DEF Round
  <2> QED
    BY <2>1, <2>4
<1>7. Left(c)' = g
  <2>1. ip[c] \in 0..19
    BY <1>3
  <2>2. BarriersBefore(ip[c]) = g - 1
    BY <1>6 DEF Left
  <2>3. Left(c)' = BarriersBefore(ip[c] + 1)
    BY <1>5 DEF Left
  <2>4. BarriersBefore(ip[c] + 1) = (g - 1) + 1
    BY <1>4, <2>1, <2>2, BeforeNext
  <2> QED
    BY <2>3, <2>4
<1>8. Started /\ Started' /\ ip[0] > 0 /\ ip'[0] > 0 /\ 0 \in Core
  <2>1. ip[c] # 0
    BY <1>3
  <2>2. 0 \in Core /\ ip[0] \in 0..19
    BY <1>1, CoreFacts DEF TypeInv
  <2>3. ip[0] > 0
    BY <1>1, <2>1, <2>2 DEF StartInv
  <2>4. ip'[0] > 0
    BY <1>3, <1>5, <2>2, <2>3
  <2> QED
    BY <2>2, <2>3, <2>4 DEF Started
<1>9. \A k \in Core \ {c} : Left(k)' = Left(k) /\ Entered(k)' = Entered(k)
  BY <1>5 DEF Left, Entered
<1>10. Entered(c)' = g
  BY <1>5, <1>7 DEF Entered
<1>11. c \notin Waiting(g)
  BY <1>6 DEF Waiting
<1>12. \A k \in Core : phase[k] \notin {"reset", "flip"}
  BY <1>2, <1>3, <1>11 DEF Round
<1>13. Waiting(g)' = Waiting(g)
  BY <1>5, <1>9, <1>11 DEF Waiting
<1>14. TypeInv'
  <2>1. ip[c] + 1 \in 0..19
    BY <1>3
  <2> QED
    BY <1>1, <1>3, <2>1 DEF TypeInv
<1>15. StartInv'
  <2>1. ip'[0] # 0
    BY <1>8
  <2> QED
    BY <1>1, <1>3, <1>5, <1>8, <2>1 DEF StartInv, InBarrier
<1>16. Round(g)'
  <2>1. \A k \in Core : mysense'[k] = Odd(Entered(k)')
    BY <1>2, <1>3, <1>6, <1>9, <1>10 DEF Round
  <2>2. \A k \in Core : Left(k)' = g \/ (Left(k)' = g - 1 /\ phase'[k] = "spin")
    BY <1>2, <1>5, <1>7, <1>9 DEF Round
  <2>3. \A k \in Core : phase'[k] \notin {"reset", "flip"}
    BY <1>5, <1>12
  <2>4. sense' = Odd(g) /\ count' = NumCores - Cardinality(Waiting(g)') /\ count' > 0
    BY <1>2, <1>3, <1>8, <1>12, <1>13 DEF Round
  <2> QED
    BY <2>1, <2>2, <2>3, <2>4 DEF Round
<1> QED
  BY <1>2, <1>14, <1>15, <1>16 DEF BarrierInv

-----------------------------------------------------------------------------
(* The steps outside the barriers, for the barriers.                       *)

\* Nothing that the barriers look at changes.
LEMMA BarrierQuiet ==
  ASSUME BarrierInv, UNCHANGED <<numlpics, ip, phase, cores, barVars>>
  PROVE  BarrierInv'
<1>1. /\ numlpics' = numlpics /\ ip' = ip /\ phase' = phase /\ cores' = cores
      /\ parties' = parties /\ count' = count /\ sense' = sense /\ mysense' = mysense
  BY DEF barVars
<1>2. TypeInv /\ StartInv
  BY DEF BarrierInv
<1>3. PICK g \in 0..8 : Round(g)
  BY DEF BarrierInv
<1>4. TypeInv' /\ StartInv'
  BY <1>1, <1>2 DEF TypeInv, StartInv, Started
<1>5. Waiting(g)' = Waiting(g) /\ Started' = Started
  BY <1>1 DEF Waiting, Left, Started
<1>6. \A c \in Core : Left(c)' = Left(c) /\ Entered(c)' = Entered(c)
  BY <1>1 DEF Left, Entered
<1>7. Round(g)'
  BY <1>1, <1>3, <1>5, <1>6 DEF Round
<1> QED
  BY <1>3, <1>4, <1>7 DEF BarrierInv

\* A core goes on with, or to the end of, a statement that is not a barrier.
LEMMA OperateStep ==
  ASSUME BarrierInv, NEW c \in Core, NEW n, NEW p,
         ip[c] \in 1..18 \ Barriers, phase[c] \in {"ready", "run"},
         (n = ip[c] /\ p \in {"run", "crash"}) \/ (n = ip[c] + 1 /\ p = "ready"),
         ip' = [ip EXCEPT ![c] = n], phase' = [phase EXCEPT ![c] = p],
         UNCHANGED <<numlpics, cores, barVars>>
  PROVE  BarrierInv'
<1>1. /\ numlpics' = numlpics /\ cores' = cores
      /\ parties' = parties /\ count' = count /\ sense' = sense /\ mysense' = mysense
  BY DEF barVars
<1>2. TypeInv /\ StartInv
  BY DEF BarrierInv
<1>3. PICK g \in 0..8 : Round(g)
  BY DEF BarrierInv
<1>4. /\ ip'[c] = n /\ phase'[c] = p
      /\ \A k \in Core \ {c} : ip'[k] = ip[k] /\ phase'[k] = phase[k]
  BY <1>2 DEF TypeInv
<1>5. n \in 1..19 /\ p \in {"ready", "run", "crash"}
  OBVIOUS
<1>6. BarriersBefore(n) = BarriersBefore(ip[c])
  <2>1. ip[c] \in 0..19 /\ ip[c] < 19
    OBVIOUS
  <2> QED
    BY <2>1, BeforeNext
<1>7. ip[0] # 0 /\ ip'[0] # 0 /\ ip[0] > 0 /\ ip'[0] > 0
  <2>1. ip[c] # 0 /\ 0 \in Core /\ ip[0] \in 0..19
    BY <1>2, CoreFacts DEF TypeInv
  <2>2. ip[0] # 0
    BY <1>2, <2>1 DEF StartInv
  <2> QED
    BY <1>4, <1>5, <2>1, <2>2
<1>8. TypeInv'
  <2>1. n \in 0..19
    BY <1>5
  <2> QED
    BY <1>1, <1>2, <1>5, <2>1 DEF TypeInv
<1>9. StartInv'
  <2>1. ip[c] \in Allocs \cup Binds \cup Calls
    BY DEF Barriers, Allocs, Binds, Calls
  <2>2. p \in {"run", "crash"} => n = ip[c]
    OBVIOUS
  <2> QED
    BY <1>1, <1>2, <1>4, <1>5, <1>7, <2>1, <2>2 DEF StartInv, Started, InBarrier
<1>10. Started' = Started
  BY <1>7 DEF Started
<1>11. Round(g)'
  <2>1. phase[c] \notin InBarrier /\ p \notin InBarrier
    BY <1>5 DEF InBarrier
  <2> QED
    BY <1>1, <1>2, <1>3, <1>6, <1>10, <2>1, OutsideStep
<1> QED
  BY <1>3, <1>8, <1>9, <1>11 DEF BarrierInv

\* A core gets its id: there is no barrier yet.
LEMMA JoinStep ==
  ASSUME BarrierInv, Join
  PROVE  BarrierInv'
<1>1. /\ ip' = ip /\ phase' = phase /\ cores' = cores
      /\ parties' = parties /\ count' = count /\ sense' = sense /\ mysense' = mysense
      /\ numlpics < NumCores /\ numlpics' = numlpics + 1
  BY DEF Join, tstVars, barVars
<1>2. TypeInv /\ StartInv
  BY DEF BarrierInv
<1>3. PICK g \in 0..8 : Round(g)
  BY DEF BarrierInv
<1>4. NumCores \in Nat /\ numlpics \in 1..NumCores
  BY <1>2, CoreFacts DEF TypeInv
<1>5. ~Started /\ ~Started'
  BY <1>1, <1>2, <1>4 DEF StartInv, Started
<1>6. TypeInv'
  <2>1. numlpics' \in 1..NumCores
    BY <1>1, <1>4
  <2> QED
    BY <1>1, <1>2, <2>1 DEF TypeInv
<1>7. StartInv'
  BY <1>1, <1>2, <1>5 DEF StartInv
<1>8. Waiting(g)' = Waiting(g)
  BY <1>1 DEF Waiting, Left
<1>9. \A c \in Core : Left(c)' = Left(c) /\ Entered(c)' = Entered(c)
  BY <1>1 DEF Left, Entered
<1>10. Round(g)'
  BY <1>1, <1>3, <1>5, <1>8, <1>9 DEF Round
<1> QED
  BY <1>3, <1>6, <1>7, <1>10 DEF BarrierInv

\* Core 0 sets the barrier up for all cores, since all have their ids by now (JoinFirst).
LEMMA InitBarrierStep ==
  ASSUME JoinFirst, BarrierInv, InitBarrier
  PROVE  BarrierInv'
<1>1. /\ ip[0] = 0 /\ phase[0] = "ready" /\ numlpics = NumCores
      /\ parties' = numlpics /\ count' = numlpics /\ sense' = FALSE
      /\ phase' = [phase EXCEPT ![0] = "cores"] /\ ip' = ip /\ cores' = cores
      /\ mysense' = mysense /\ numlpics' = numlpics
  BY DEF InitBarrier, Phase, vars, rootVars
<1>2. TypeInv /\ StartInv
  BY DEF BarrierInv
<1>3. PICK g \in 0..8 : Round(g)
  BY DEF BarrierInv
<1>4. 0 \in Core /\ NumCores \in Nat /\ NumCores > 0
  BY CoreFacts
<1>5. phase'[0] = "cores" /\ \A k \in Core \ {0} : phase'[k] = phase[k]
  BY <1>1, <1>2, <1>4 DEF TypeInv
<1>6. \A k \in Core : ip[k] = 0 /\ phase[k] \notin InBarrier
  BY <1>1, <1>2 DEF StartInv, Barriers
<1>7. \A k \in Core : Left(k) = 0 /\ Left(k)' = 0 /\ Entered(k) = 0 /\ Entered(k)' = 0
  BY <1>1, <1>5, <1>6, Before DEF Left, Entered, InBarrier
<1>8. g = 0
  BY <1>2, <1>3, <1>4, <1>6, <1>7, RoundFacts
<1>9. TypeInv'
  <2>1. numlpics \in Int
    BY <1>1, <1>4
  <2> QED
    BY <1>1, <1>2, <2>1 DEF TypeInv
<1>10. StartInv'
  BY <1>1, <1>2, <1>5 DEF StartInv, InBarrier
<1>11. Waiting(0)' = {}
  BY <1>1, <1>5, <1>6 DEF Waiting, InBarrier
<1>12. Cardinality(Waiting(0)') = 0
  BY <1>11, FS_EmptySet
<1>13. Round(0)'
  <2>1. sense' = Odd(0)
    <3>1. Odd(0) = FALSE
      BY DEF Odd
    <3> QED
      BY <1>1, <3>1
  <2>2. \A k \in Core : phase'[k] \notin {"reset", "flip"}
    BY <1>5, <1>6 DEF InBarrier
  <2>3. \A k \in Core : mysense'[k] = Odd(Entered(k)')
    BY <1>1, <1>3, <1>7 DEF Round
  <2>4. count' = NumCores - Cardinality(Waiting(0)') /\ count' > 0
    BY <1>1, <1>4, <1>12
  <2> QED
    BY <1>7, <2>1, <2>2, <2>3, <2>4 DEF Round
<1> QED
  BY <1>9, <1>10, <1>13 DEF BarrierInv

\* Core 0 lets the others go and goes on to the first barrier.
LEMMA SetCoresStep ==
  ASSUME BarrierInv, SetCores
  PROVE  BarrierInv'
<1>1. /\ ip[0] = 0 /\ phase[0] = "cores"
      /\ ip' = [ip EXCEPT ![0] = ip[0] + 1] /\ phase' = [phase EXCEPT ![0] = "ready"]
      /\ parties' = parties /\ count' = count /\ sense' = sense /\ mysense' = mysense
      /\ numlpics' = numlpics
  BY DEF SetCores, NextStatement, vars, rootVars, barVars
<1>2. TypeInv /\ StartInv
  BY DEF BarrierInv
<1>3. PICK g \in 0..8 : Round(g)
  BY DEF BarrierInv
<1>4. 0 \in Core
  BY CoreFacts
<1>5. /\ ip'[0] = 1 /\ phase'[0] = "ready"
      /\ \A k \in Core \ {0} : ip'[k] = ip[k] /\ phase'[k] = phase[k]
  BY <1>1, <1>2, <1>4 DEF TypeInv
<1>6. Started /\ Started'
  BY <1>1, <1>5 DEF Started
<1>7. TypeInv'
  <2>1. ip' = [ip EXCEPT ![0] = 1] /\ 1 \in 0..19
    BY <1>1
  <2> QED
    BY <1>1, <1>2, <2>1 DEF TypeInv
<1>8. StartInv'
  BY <1>1, <1>2, <1>5, <1>6 DEF StartInv, InBarrier
<1>9. Round(g)'
  <2>1. BarriersBefore(1) = BarriersBefore(ip[0])
    BY <1>1, Before
  <2>2. ip' = [ip EXCEPT ![0] = 1]
    BY <1>1
  <2>3. phase[0] \notin InBarrier /\ "ready" \notin InBarrier /\ Started' = Started
    BY <1>1, <1>6 DEF InBarrier
  <2> QED
    BY <1>1, <1>2, <1>3, <1>4, <2>1, <2>2, <2>3, OutsideStep
<1> QED
  BY <1>3, <1>7, <1>8, <1>9 DEF BarrierInv

\* Another core sees the number of cores and goes on to the first barrier.
LEMMA WaitStep ==
  ASSUME BarrierInv, NEW c \in Core, WaitForCores(c)
  PROVE  BarrierInv'
<1>1. /\ c # 0 /\ ip[c] = 0 /\ cores # 0
      /\ ip' = [ip EXCEPT ![c] = ip[c] + 1] /\ phase' = [phase EXCEPT ![c] = "ready"]
      /\ parties' = parties /\ count' = count /\ sense' = sense /\ mysense' = mysense
      /\ numlpics' = numlpics /\ cores' = cores
  BY DEF WaitForCores, NextStatement, vars, rootVars, barVars
<1>2. TypeInv /\ StartInv
  BY DEF BarrierInv
<1>3. PICK g \in 0..8 : Round(g)
  BY DEF BarrierInv
<1>4. 0 \in Core /\ ip[0] \in 0..19
  BY <1>2, CoreFacts DEF TypeInv
<1>5. /\ ip'[c] = 1 /\ phase'[c] = "ready"
      /\ \A k \in Core \ {c} : ip'[k] = ip[k] /\ phase'[k] = phase[k]
  BY <1>1, <1>2 DEF TypeInv
<1>6. ip[0] > 0 /\ ip'[0] > 0 /\ Started /\ Started' /\ ip'[0] # 0
  BY <1>1, <1>2, <1>4, <1>5 DEF Started, StartInv
<1>7. TypeInv'
  <2>1. ip' = [ip EXCEPT ![c] = 1] /\ 1 \in 0..19
    BY <1>1
  <2> QED
    BY <1>1, <1>2, <2>1 DEF TypeInv
<1>8. StartInv'
  BY <1>1, <1>2, <1>5, <1>6 DEF StartInv, InBarrier
<1>9. Round(g)'
  <2>1. BarriersBefore(1) = BarriersBefore(ip[c])
    BY <1>1, Before
  <2>2. ip' = [ip EXCEPT ![c] = 1]
    BY <1>1
  <2>3. phase[c] \notin InBarrier
    BY <1>1, <1>2 DEF StartInv, Barriers
  <2>4. "ready" \notin InBarrier /\ Started' = Started
    BY <1>6 DEF InBarrier
  <2> QED
    BY <1>1, <1>2, <1>3, <2>1, <2>2, <2>3, <2>4, OutsideStep
<1> QED
  BY <1>3, <1>7, <1>8, <1>9 DEF BarrierInv

\* A core that is not the master skips the master's statement, outside the barrier.
LEMMA NotMasterStep ==
  ASSUME BarrierInv, NEW c \in Core, NotMaster(c)
  PROVE  BarrierInv'
<1>1. /\ ip[c] \in 1..18 /\ phase[c] = "ready"
      /\ Program[ip[c]].op = "alloc" \/ Program[ip[c]].op = "bind"
      /\ ip' = [ip EXCEPT ![c] = ip[c] + 1] /\ phase' = [phase EXCEPT ![c] = "ready"]
      /\ UNCHANGED <<numlpics, cores, barVars>>
  BY Statements DEF NotMaster, At, NextStatement, vars, rootVars
<1>2. ip[c] \notin Barriers
  BY <1>1, Kinds4
<1> QED
  BY <1>1, <1>2, OperateStep

\* How an operation starts ...
LEMMA StartFacts ==
  ASSUME NEW c \in Core, StartOp(c)
  PROVE  /\ ip[c] \in 1..18 \ Barriers /\ phase[c] = "ready"
         /\ ip' = ip /\ UNCHANGED <<numlpics, cores, barVars, ids, passed>>
         /\ \/ /\ c = 0 /\ ip[c] \in Allocs
               /\ AllocId(c) /\ phase' = [phase EXCEPT ![c] = "run"]
            \/ /\ c = 0 /\ ip[c] \in Binds
               /\ BindId(c, ids[Program[ip[c]].id], Program[ip[c]].inst)
               /\ phase' = [phase EXCEPT ![c] = "run"]
            \/ /\ ip[c] \in Calls /\ ids[Program[ip[c]].id] = None /\ UNCHANGED vars
               /\ phase' = [phase EXCEPT ![c] = "crash"]
            \/ /\ ip[c] \in Calls /\ ids[Program[ip[c]].id] # None
               /\ CallId(c, ids[Program[ip[c]].id])
               /\ phase' = [phase EXCEPT ![c] = "run"]
<1>1. UNCHANGED <<cores, barVars, ids, passed>>
  BY DEF StartOp
<1>2. CASE c = 0 /\ At(c, "alloc", "ready") /\ AllocId(c) /\ Phase(c, "run")
  <2>1. ip[c] \in 1..18 /\ Program[ip[c]].op = "alloc" /\ phase[c] = "ready"
    BY <1>2, Statements DEF At
  <2>2. ip[c] \in Allocs /\ ip[c] \notin Barriers
    BY <2>1, Kinds4
  <2>3. ip' = ip /\ phase' = [phase EXCEPT ![c] = "run"] /\ numlpics' = numlpics
    BY <1>2 DEF Phase, AllocId, rootVars
  <2> QED
    BY <1>1, <1>2, <2>1, <2>2, <2>3
<1>3. CASE /\ c = 0 /\ At(c, "bind", "ready")
           /\ BindId(c, ids[Program[ip[c]].id], Program[ip[c]].inst) /\ Phase(c, "run")
  <2>1. ip[c] \in 1..18 /\ Program[ip[c]].op = "bind" /\ phase[c] = "ready"
    BY <1>3, Statements DEF At
  <2>2. ip[c] \in Binds /\ ip[c] \notin Barriers
    BY <2>1, Kinds4
  <2>3. ip' = ip /\ phase' = [phase EXCEPT ![c] = "run"] /\ numlpics' = numlpics
    BY <1>3 DEF Phase, BindId, rootVars
  <2> QED
    BY <1>1, <1>3, <2>1, <2>2, <2>3
<1>4. CASE /\ At(c, "call", "ready")
           /\ LET d == ids[Program[ip[c]].id] IN
              IF d = None THEN Phase(c, "crash") /\ UNCHANGED vars
                          ELSE CallId(c, d) /\ Phase(c, "run")
  <2>1. ip[c] \in 1..18 /\ Program[ip[c]].op = "call" /\ phase[c] = "ready"
    BY <1>4, Statements DEF At
  <2>2. ip[c] \in Calls /\ ip[c] \notin Barriers
    BY <2>1, Kinds4
  <2>3. CASE ids[Program[ip[c]].id] = None
    <3>1. Phase(c, "crash") /\ UNCHANGED vars
      BY <1>4, <2>3
    <3>2. ip' = ip /\ phase' = [phase EXCEPT ![c] = "crash"] /\ numlpics' = numlpics
      BY <3>1 DEF Phase, vars, rootVars
    <3> QED
      BY <1>1, <2>1, <2>2, <2>3, <3>1, <3>2
  <2>4. CASE ids[Program[ip[c]].id] # None
    <3>1. CallId(c, ids[Program[ip[c]].id]) /\ Phase(c, "run")
      BY <1>4, <2>4
    <3>2. ip' = ip /\ phase' = [phase EXCEPT ![c] = "run"] /\ numlpics' = numlpics
      BY <3>1 DEF Phase, CallId, rootVars
    <3> QED
      BY <1>1, <2>1, <2>2, <2>4, <3>1, <3>2
  <2> QED
    BY <2>3, <2>4
<1> QED
  BY <1>2, <1>3, <1>4 DEF StartOp

\* An operation starts, outside the barrier.
LEMMA StartStep ==
  ASSUME BarrierInv, NEW c \in Core, StartOp(c)
  PROVE  BarrierInv'
<1>1. /\ ip[c] \in 1..18 \ Barriers /\ phase[c] = "ready"
      /\ ip' = ip /\ UNCHANGED <<numlpics, cores, barVars>>
      /\ \/ phase' = [phase EXCEPT ![c] = "run"]
         \/ phase' = [phase EXCEPT ![c] = "crash"]
  BY StartFacts
<1>2. ip' = [ip EXCEPT ![c] = ip[c]]
  BY <1>1 DEF BarrierInv, TypeInv
<1> QED
  BY <1>1, <1>2, OperateStep

\* ... and goes on.
LEMMA RunFacts ==
  ASSUME NEW c \in Core, RunOp(c)
  PROVE  UNCHANGED <<numlpics, ip, phase, cores, barVars, ids, passed>>
<1>1. UNCHANGED <<ip, phase, cores, barVars, ids, passed>>
  BY DEF RunOp, tstVars
<1>2. CASE TakeId(c)
  BY <1>1, <1>2 DEF TakeId, rootVars
<1>3. CASE BindStep(c)
  BY <1>1, <1>3 DEF BindStep, BindArg, Invalidate, rootVars
<1>4. CASE DerefSelf(c) \/ ReadMf(c) \/ ReadArg(c) \/ InvokeMiss(c)
  BY <1>1, <1>4 DEF DerefSelf, ReadMf, ReadArg, InvokeMiss, rootVars
<1>5. CASE HandleMiss(c) \/ AddRep(c)
  BY <1>1, <1>5 DEF HandleMiss, AddRep
<1>6. CASE CacheObj(c) \/ MarkCoreUsed(c)
  BY <1>1, <1>6 DEF CacheObj, MarkCoreUsed, rootVars
<1> QED
  BY <1>2, <1>3, <1>4, <1>5, <1>6 DEF RunOp, CallStep

\* An operation ends, and its core goes on to the next statement.
LEMMA EndStep ==
  ASSUME BarrierInv, NEW c \in Core, EndOp(c)
  PROVE  BarrierInv'
<1>1. /\ phase[c] = "run"
      /\ ip' = [ip EXCEPT ![c] = ip[c] + 1] /\ phase' = [phase EXCEPT ![c] = "ready"]
      /\ UNCHANGED <<numlpics, cores, barVars>>
  BY DEF EndOp, NextStatement, vars, rootVars
<1>2. ip[c] \in Allocs \cup Binds \cup Calls
  BY <1>1 DEF BarrierInv, StartInv
<1>3. ip[c] \in 1..18 \ Barriers
  BY <1>2 DEF Allocs, Binds, Calls, Barriers
<1> QED
  BY <1>1, <1>3, OperateStep

\* Every step keeps the cores in their round.
LEMMA BarrierNext ==
  ASSUME JoinFirst, BarrierInv, [TstNext]_allVars
  PROVE  BarrierInv'
<1>1. CASE Join
  BY <1>1, JoinStep
<1>2. ASSUME NEW c \in Core, CoreStep(c) PROVE BarrierInv'
  <2>1. CASE WaitForCores(c) \/ NotMaster(c)
    BY <2>1, WaitStep, NotMasterStep
  <2>2. CASE Arrive(c) \/ ResetCount(c) \/ FlipSense(c) \/ SpinOnSense(c)
    BY <2>2, ArriveStep, ResetStep, FlipStep, SpinStep
  <2>3. CASE StartOp(c) \/ EndOp(c)
    BY <2>3, StartStep, EndStep
  <2>4. CASE RunOp(c)
    BY <2>4, RunFacts, BarrierQuiet
  <2>5. CASE InitBarrier \/ SetCores
    BY <2>5, InitBarrierStep, SetCoresStep
  <2>6. CASE Exit
    <3>1. UNCHANGED <<numlpics, ip, phase, cores, barVars>>
      BY <2>6 DEF Exit, vars, rootVars
    <3> QED
      BY <3>1, BarrierQuiet
  <2> QED
    BY <1>2, <2>1, <2>2, <2>3, <2>4, <2>5, <2>6 DEF CoreStep
<1>3. CASE UNCHANGED allVars
  <2>1. UNCHANGED <<numlpics, ip, phase, cores, barVars>>
    BY <1>3 DEF allVars, vars, rootVars, tstVars
  <2> QED
    BY <2>1, BarrierQuiet
<1> QED
  BY <1>1, <1>2, <1>3 DEF TstNext

\* A round that all cores are in is what the barrier promises.
LEMMA RoundHolds == BarrierInv => BarrierHolds
<1> SUFFICES ASSUME BarrierInv, NEW c \in Core, NEW k \in Core PROVE Left(c) <= Entered(k)
  BY DEF BarrierHolds
<1>1. PICK g \in 0..8 : Round(g)
  BY DEF BarrierInv
<1>2. TypeInv
  BY DEF BarrierInv
<1>3. Left(c) <= g /\ g <= Entered(k) /\ Left(c) \in 0..8 /\ Entered(k) \in 0..9
  BY <1>1, <1>2, RoundFacts
<1> QED
  BY <1>3

-----------------------------------------------------------------------------
(* Who is where while an operation runs.                                   *)

\* The ids and instances of the program's statements.
LEMMA Operands ==
  /\ Program[2].id = "NULLId" /\ Program[6].id = "theId"
  /\ Program[3].id = "NULLId" /\ Program[3].inst = "null"
  /\ Program[7].id = "theId" /\ Program[7].inst = "null"
  /\ Program[11].id = "theId" /\ Program[11].inst = "s0"
  /\ Program[15].id = "theId" /\ Program[15].inst = "s1"
  /\ Program[5].id = "NULLId" /\ Program[5].expect = "EBBRC_NULL"
  /\ Program[9].id = "theId" /\ Program[9].expect = "EBBRC_NULL"
  /\ Program[13].id = "theId" /\ Program[13].expect = "s0"
  /\ Program[17].id = "theId" /\ Program[17].expect = "s1"
<1>1. Program[2].id = "NULLId" /\ Program[6].id = "theId"
  BY DEF Program, Alloc
<1>2. Program[3].id = "NULLId" /\ Program[3].inst = "null"
  BY DEF Program, Bind
<1>3. Program[7].id = "theId" /\ Program[7].inst = "null"
  BY DEF Program, Bind
<1>4. Program[11].id = "theId" /\ Program[11].inst = "s0"
  BY DEF Program, Bind
<1>5. Program[15].id = "theId" /\ Program[15].inst = "s1"
  BY DEF Program, Bind
<1>6. Program[5].id = "NULLId" /\ Program[5].expect = "EBBRC_NULL"
  BY DEF Program, Call
<1>7. Program[9].id = "theId" /\ Program[9].expect = "EBBRC_NULL"
  BY DEF Program, Call
<1>8. Program[13].id = "theId" /\ Program[13].expect = "s0"
  BY DEF Program, Call
<1>9. Program[17].id = "theId" /\ Program[17].expect = "s1"
  BY DEF Program, Call
<1> QED
  BY <1>1, <1>2, <1>3, <1>4, <1>5, <1>6, <1>7, <1>8, <1>9

\* A core that calls has the master with it, between the same two barriers.
LEMMA Together ==
  ASSUME BarrierInv, NEW c \in Core
  PROVE  /\ ip[c] = 5 => ip[0] \in 4..19
         /\ ip[c] = 9 => ip[0] \in 8..10
         /\ ip[c] = 13 => ip[0] \in 12..14
         /\ ip[c] = 17 => ip[0] \in 16..18
<1>1. TypeInv /\ StartInv /\ BarrierHolds /\ 0 \in Core
  BY RoundHolds, CoreFacts DEF BarrierInv
<1>2. ip[0] \in 0..19 /\ ip[c] \in 0..19
  BY <1>1 DEF TypeInv
<1>3. /\ ip[c] \in Calls => phase[c] \notin InBarrier
      /\ phase[0] \in InBarrier => ip[0] \in Barriers
  BY <1>1 DEF StartInv, Barriers, Calls
<1>4. PICK l \in 0..8 : l = BarriersBefore(ip[0])
  BY <1>2, BeforeNext
<1>5. PICK m \in 0..8 : m = BarriersBefore(ip[c])
  BY <1>2, BeforeNext
<1>6. ip[c] \in Calls => l <= m /\ (m <= l \/ (ip[0] \in Barriers /\ m <= l + 1))
  <2> SUFFICES ASSUME ip[c] \in Calls
               PROVE  l <= m /\ (m <= l \/ (ip[0] \in Barriers /\ m <= l + 1))
    OBVIOUS
  <2>1. Left(0) = l /\ Left(c) = m /\ Entered(c) = m
    BY <1>3, <1>4, <1>5 DEF Left, Entered, InBarrier
  <2>2. Left(0) <= Entered(c) /\ Left(c) <= Entered(0)
    BY <1>1 DEF BarrierHolds
  <2>3. Entered(0) = l + (IF phase[0] \in InBarrier THEN 1 ELSE 0)
    BY <2>1 DEF Entered, InBarrier
  <2> QED
    BY <1>3, <2>1, <2>2, <2>3
<1>7. ip[c] \in {5, 9, 13, 17} => ip[c] \in Calls
  BY DEF Calls
<1>8. /\ ip[c] = 5 => m = 2
      /\ ip[c] = 9 => m = 3
      /\ ip[c] = 13 => m = 5
      /\ ip[c] = 17 => m = 7
  BY <1>5, Before
<1>9. /\ ip[0] \in 0..1 => l = 0
      /\ ip[0] \in 2..4 => l = 1
      /\ ip[0] \in 5..8 => l = 2
      /\ ip[0] \in 9..10 => l = 3
      /\ ip[0] \in 11..12 => l = 4
      /\ ip[0] \in 13..14 => l = 5
      /\ ip[0] \in 15..16 => l = 6
      /\ ip[0] \in 17..18 => l = 7
      /\ ip[0] = 19 => l = 8
  BY <1>4, Before
<1> QED
  BY <1>2, <1>6, <1>7, <1>8, <1>9 DEF Barriers

\* What a core calls is bound, to the instance it wants.
LEMMA CallBound ==
  ASSUME BarrierInv, OpType, IdInv, NEW c \in Core, ip[c] \in Calls
  PROVE  /\ Wanted(ip[c]) \in {"null", "s0", "s1"}
         /\ ids[Program[ip[c]].id] \in Id
         /\ BoundTo(ids[Program[ip[c]].id], Wanted(ip[c]))
<1>1. ip[c] = 5 \/ ip[c] = 9 \/ ip[c] = 13 \/ ip[c] = 17
  BY DEF Calls
<1>2. allocated \subseteq Id
  BY DEF OpType
<1>3. CASE ip[c] = 5
  <2>1. ip[0] >= 4
    BY <1>3, Together
  <2>2. BoundTo(ids["NULLId"], "null")
    BY <2>1 DEF IdInv
  <2> QED
    BY <1>2, <1>3, <2>2, Operands DEF Wanted, BoundTo
<1>4. CASE ip[c] = 9
  <2>1. BoundTo(ids["theId"], "null")
    BY <1>4, Together DEF IdInv
  <2> QED
    BY <1>2, <1>4, <2>1, Operands DEF Wanted, BoundTo
<1>5. CASE ip[c] = 13
  <2>1. BoundTo(ids["theId"], "s0")
    BY <1>5, Together DEF IdInv
  <2> QED
    BY <1>2, <1>5, <2>1, Operands DEF Wanted, BoundTo
<1>6. CASE ip[c] = 17
  <2>1. ip[0] >= 16
    BY <1>6, Together
  <2>2. BoundTo(ids["theId"], "s1")
    BY <2>1 DEF IdInv
  <2> QED
    BY <1>2, <1>6, <2>2, Operands DEF Wanted, BoundTo
<1> QED
  BY <1>1, <1>3, <1>4, <1>5, <1>6

\* In the initial state no operation runs and nothing is promised.
LEMMA OpInit == TstInit => OpInv
<1> SUFFICES ASSUME TstInit PROVE OpInv
  OBVIOUS
<1>1. /\ ip = [c \in Core |-> 0] /\ phase = [c \in Core |-> "ready"] /\ passed = Core
      /\ ids = [x \in {"NULLId", "theId"} |-> None] /\ pc = [c \in Core |-> "idle"]
      /\ 0 \in Core
  BY CoreFacts DEF TstInit, Init
<1>2. OpType
  <2>1. allocated \subseteq Id /\ ids \in [{"NULLId", "theId"} -> Id \cup {None}]
    BY <1>1 DEF TstInit, Init
  <2>2. mf = [d \in Id |-> mf[d]] /\ arg = [d \in Id |-> arg[d]]
    BY DEF TstInit, Init
  <2>3. lt = [c \in Core |-> [d \in Id |-> lt[c][d]]]
    BY DEF TstInit, Init
  <2>4. /\ pc = [c \in Core |-> pc[c]] /\ cid = [c \in Core |-> cid[c]]
        /\ inst = [c \in Core |-> inst[c]] /\ fn = [c \in Core |-> fn[c]]
        /\ rmf = [c \in Core |-> rmf[c]] /\ rarg = [c \in Core |-> rarg[c]]
        /\ obj = [c \in Core |-> obj[c]] /\ picId = [c \in Core |-> picId[c]]
    BY DEF TstInit, Init
  <2>5. result \in [Core -> {"none", "ran", "EBBRC_NULL"}]
    BY DEF TstInit, Init
  <2> QED
    BY <2>1, <2>2, <2>3, <2>4, <2>5 DEF OpType
<1>3. IdInv
  BY <1>1 DEF IdInv
<1>4. AllocInv /\ BindInv /\ PassInv /\ \A c \in Core : CallerInv(c)
  BY <1>1 DEF AllocInv, BindInv, PassInv, CallerInv
<1> QED
  BY <1>2, <1>3, <1>4 DEF OpInv

-----------------------------------------------------------------------------
(* The steps of the barrier, for the calls.                                *)

\* Steps that leave the operations alone keep what is said about them.
LEMMA SameOps ==
  ASSUME UNCHANGED <<vars, ids, passed>>
  PROVE  /\ OpType => OpType'
         /\ \A c, d, i : InCall(c, d, i) => InCall(c, d, i)'
         /\ \A d, i : InBind(d, i) => InBind(d, i)'
         /\ \A d, i : BoundTo(d, i) => BoundTo(d, i)'
<1>1. /\ allocated' = allocated /\ mf' = mf /\ arg' = arg /\ lt' = lt /\ pc' = pc
      /\ cid' = cid /\ inst' = inst /\ fn' = fn /\ rmf' = rmf /\ rarg' = rarg
      /\ obj' = obj /\ picId' = picId /\ result' = result /\ ids' = ids
  BY DEF vars, gVars, callVars
<1>2. OpType => OpType'
  BY <1>1 DEF OpType
<1>3. \A c, d, i : InCall(c, d, i) => InCall(c, d, i)'
  BY <1>1 DEF InCall, Answer
<1>4. \A d, i : InBind(d, i) => InBind(d, i)'
  BY <1>1 DEF InBind
<1>5. \A d, i : BoundTo(d, i) => BoundTo(d, i)'
  BY <1>1 DEF BoundTo
<1> QED
  BY <1>2, <1>3, <1>4, <1>5

\* A core that passes a barrier, or a statement of the master's, or waits.
LEMMA PassStep ==
  ASSUME TypeInv, OpInv, NEW c \in Core, NEW n, NEW p,
         UNCHANGED <<vars, ids, passed>>, p \notin {"run", "crash"},
         phase[c] = "run" => pc[c] = "idle",
         ip' = [ip EXCEPT ![c] = n], phase' = [phase EXCEPT ![c] = p],
         c = 0 => n = ip[0] \/ (n = ip[0] + 1 /\ ip[0] \in Barriers \cup Calls \cup {0})
  PROVE  OpInv'
<1>1. /\ ip'[c] = n /\ phase'[c] = p
      /\ \A k \in Core \ {c} : ip'[k] = ip[k] /\ phase'[k] = phase[k]
  BY DEF TypeInv, InBarrier
<1>2. /\ pc' = pc /\ cid' = cid /\ ids' = ids /\ passed' = passed
      /\ allocated' = allocated
  BY DEF vars, gVars
<1>3. 0 \in Core /\ ip[0] \in 0..19
  BY CoreFacts DEF TypeInv
<1>4. OpType'
  BY SameOps DEF OpInv
<1>5. IdInv'
  <2>1. ip'[0] = ip[0] \/ (ip'[0] = ip[0] + 1 /\ ip[0] \in Barriers \cup Calls \cup {0})
    BY <1>1, <1>3
  <2>2. /\ ip'[0] <= 6 => ip[0] <= 6
        /\ ip'[0] >= 4 => ip[0] >= 4
        /\ ip'[0] \in 8..10 => ip[0] \in 8..10
        /\ ip'[0] \in 12..14 => ip[0] \in 12..14
        /\ ip'[0] >= 16 => ip[0] >= 16
    BY <1>3, <2>1 DEF Barriers, Calls
  <2>3. \A d, i : BoundTo(d, i) => BoundTo(d, i)'
    BY SameOps
  <2>4. IdInv
    BY DEF OpInv
  <2>5. PICK x, y : x = ids["NULLId"] /\ y = ids["theId"]
    OBVIOUS
  <2>6. /\ ip[0] >= 4 => BoundTo(x, "null")'
        /\ ip[0] \in 8..10 => BoundTo(y, "null")'
        /\ ip[0] \in 12..14 => BoundTo(y, "s0")'
        /\ ip[0] >= 16 => BoundTo(y, "s1")'
    BY <2>3, <2>4, <2>5 DEF IdInv
  <2>7. /\ \A z \in {"NULLId", "theId"} : ids'[z] # None => ids'[z] \in allocated'
        /\ ids'["NULLId"] # None => ids'["NULLId"] # ids'["theId"]
        /\ ip'[0] <= 6 => ids'["theId"] = None
    BY <1>2, <2>2, <2>4 DEF IdInv
  <2>8. ids'["NULLId"] = x /\ ids'["theId"] = y
    BY <1>2, <2>5
  <2> QED
    BY <2>2, <2>6, <2>7, <2>8 DEF IdInv, BoundTo
<1>6. AllocInv' /\ BindInv'
  <2>1. phase'[0] = "run" => phase[0] = "run" /\ ip'[0] = ip[0]
    BY <1>1, <1>3
  <2>2. AllocInv'
    BY <1>2, <2>1 DEF OpInv, AllocInv
  <2>3. ASSUME phase'[0] = "run", ip'[0] \in Binds
        PROVE  \E d \in Id, i \in Inst :
                 /\ d = ids'[Program[ip'[0]].id] /\ i = Program[ip'[0]].inst
                 /\ InBind(d, i)'
    <3>1. PICK d \in Id, i \in Inst : /\ d = ids[Program[ip[0]].id]
                                      /\ i = Program[ip[0]].inst /\ InBind(d, i)
      BY <2>1, <2>3 DEF OpInv, BindInv
    <3>2. InBind(d, i)'
      BY <3>1, SameOps
    <3> QED
      BY <1>2, <2>1, <2>3, <3>1, <3>2
  <2> QED
    BY <2>2, <2>3 DEF BindInv
<1>7. PassInv'
  BY <1>1, <1>2 DEF OpInv, PassInv
<1>8. ASSUME NEW k \in Core PROVE CallerInv(k)'
  <2>1. phase'[k] = "run" => phase[k] = "run" /\ ip'[k] = ip[k]
    BY <1>1
  <2>2. phase[k] = "run" => phase'[k] = "run" \/ pc[k] = "idle"
    BY <1>1
  <2>3. CallerInv(k)
    BY DEF OpInv
  <2>4. ASSUME phase'[k] = "run", ip'[k] \in Calls
        PROVE  \E d \in Id, i \in Inst :
                 /\ d = ids'[Program[ip'[k]].id] /\ i = Wanted(ip'[k]) /\ InCall(k, d, i)'
    <3>1. PICK d \in Id, i \in Inst : /\ d = ids[Program[ip[k]].id]
                                      /\ i = Wanted(ip[k]) /\ InCall(k, d, i)
      BY <2>1, <2>3, <2>4 DEF CallerInv
    <3>2. InCall(k, d, i)'
      BY <3>1, SameOps
    <3> QED
      BY <1>2, <2>1, <2>4, <3>1, <3>2
  <2> QED
    BY <1>2, <2>1, <2>2, <2>3, <2>4 DEF CallerInv
<1> QED
  BY <1>4, <1>5, <1>6, <1>7, <1>8 DEF OpInv

\* The steps of the barriers, and those that come before the first one.
LEMMA BarrierSteps ==
  ASSUME BarrierInv, OpInv, NEW c \in Core,
         \/ WaitForCores(c) \/ NotMaster(c)
         \/ Arrive(c) \/ ResetCount(c) \/ FlipSense(c) \/ SpinOnSense(c)
         \/ c = 0 /\ (InitBarrier \/ SetCores)
  PROVE  OpInv'
<1>1. TypeInv /\ StartInv
  BY DEF BarrierInv
<1>2. ip = [ip EXCEPT ![c] = ip[c]]
  BY <1>1 DEF TypeInv
<1>3. CASE WaitForCores(c) \/ NotMaster(c)
  <2>1. /\ UNCHANGED <<vars, ids, passed>> /\ c # 0
        /\ ip' = [ip EXCEPT ![c] = ip[c] + 1] /\ phase' = [phase EXCEPT ![c] = "ready"]
    BY <1>3 DEF WaitForCores, NotMaster, NextStatement
  <2>2. phase[c] # "run"
    <3>1. ip[c] = 0 => phase[c] # "run"
      BY <1>1 DEF StartInv, Allocs, Binds, Calls
    <3> QED
      BY <1>3, <3>1 DEF WaitForCores, NotMaster, At
  <2> QED
    BY <1>1, <2>1, <2>2, PassStep
<1>4. CASE Arrive(c)
  <2>1. /\ UNCHANGED <<vars, ids, passed>> /\ phase[c] # "run" /\ ip' = ip
        /\ phase' = [phase EXCEPT ![c] = IF LastToArrive THEN "reset" ELSE "spin"]
    BY <1>4 DEF Arrive, At, Phase
  <2>2. PICK p \in {"reset", "spin"} : p = IF LastToArrive THEN "reset" ELSE "spin"
    OBVIOUS
  <2>3. phase' = [phase EXCEPT ![c] = p]
    BY <2>1, <2>2
  <2> QED
    BY <1>1, <1>2, <2>1, <2>3, PassStep
<1>5. CASE ResetCount(c)
  <2>1. /\ UNCHANGED <<vars, ids, passed>> /\ phase[c] # "run" /\ ip' = ip
        /\ phase' = [phase EXCEPT ![c] = "flip"]
    BY <1>5 DEF ResetCount, At, Phase
  <2> QED
    BY <1>1, <1>2, <2>1, PassStep
<1>6. CASE FlipSense(c) \/ SpinOnSense(c)
  <2>1. /\ UNCHANGED <<vars, ids, passed>> /\ phase[c] \in InBarrier
        /\ ip' = [ip EXCEPT ![c] = ip[c] + 1] /\ phase' = [phase EXCEPT ![c] = "ready"]
    BY <1>6 DEF FlipSense, SpinOnSense, At, NextStatement, InBarrier
  <2>2. ip[c] \in Barriers /\ phase[c] # "run"
    BY <1>1, <2>1 DEF StartInv, InBarrier
  <2> QED
    BY <1>1, <2>1, <2>2, PassStep
<1>7. CASE c = 0 /\ InitBarrier
  <2>1. /\ UNCHANGED <<vars, ids, passed>> /\ phase[c] # "run" /\ ip' = ip
        /\ phase' = [phase EXCEPT ![c] = "cores"]
    BY <1>7 DEF InitBarrier, Phase
  <2> QED
    BY <1>1, <1>2, <2>1, PassStep
<1>8. CASE c = 0 /\ SetCores
  <2>1. /\ UNCHANGED <<vars, ids, passed>> /\ phase[c] # "run" /\ ip[c] = 0
        /\ ip' = [ip EXCEPT ![c] = ip[c] + 1] /\ phase' = [phase EXCEPT ![c] = "ready"]
    BY <1>8 DEF SetCores, NextStatement
  <2> QED
    BY <1>1, <1>8, <2>1, PassStep
<1> QED
  BY <1>3, <1>4, <1>5, <1>6, <1>7, <1>8

-----------------------------------------------------------------------------
(* The operations.                                                         *)

\* What the kinds of bindtst's instances mean for a miss.
LEMMA KindFacts ==
  ASSUME Kinds, NEW i \in Inst
  PROVE  /\ i \in {"null", "s0", "s1"} /\ i # None
         /\ i = "null" => /\ MissFunc(i) = "nullmissmf" /\ MissArg(i) = None
                          /\ May(i) = {None}
         /\ i # "null" => /\ MissFunc(i) = "CObjEBBMissFunc" /\ MissArg(i) = i
                          /\ May(i) = {None, RepOf(i, None)}
                          /\ AfterMissFunc(i) = "cache"
         /\ RepOf(i, None).inst = i /\ RepOf(i, None) # None
<1>1. i \in {"null", "s0", "s1"} /\ i # None
  BY BindTstAssumption, EBBTransAssumption
<1>2. Kind[i] = IF i = "null" THEN "null" ELSE "shared"
  BY DEF Kinds
<1>3. i = "null" => /\ MissFunc(i) = "nullmissmf" /\ MissArg(i) = None /\ May(i) = {None}
  BY <1>2 DEF MissFunc, MissArg, May
<1>4. i # "null" => /\ MissFunc(i) = "CObjEBBMissFunc" /\ MissArg(i) = i
                    /\ May(i) = {None, RepOf(i, None)} /\ AfterMissFunc(i) = "cache"
  BY <1>2 DEF MissFunc, MissArg, May, AfterMissFunc
<1>5. RepOf(i, None) = [inst |-> i, el |-> None]
  BY <1>2 DEF RepOf
<1>6. [inst |-> i, el |-> None] \in Reps
  BY DEF Reps
<1>7. RepOf(i, None) # None
  BY <1>5, <1>6, EBBTransAssumption
<1>8. RepOf(i, None).inst = i
  BY <1>5
<1> QED
  BY <1>1, <1>3, <1>4, <1>7, <1>8

\* What IdInv says of x, the name of an id, and of the instance j.
Promised(x, j) ==
  \/ x = "NULLId" /\ j = "null" /\ ip[0] >= 4
  \/ x = "theId" /\ j = "null" /\ ip[0] \in 8..10
  \/ x = "theId" /\ j = "s0" /\ ip[0] \in 12..14
  \/ x = "theId" /\ j = "s1" /\ ip[0] >= 16

\* A step of an operation keeps IdInv if it keeps the bindings.
LEMMA IdKept ==
  ASSUME IdInv, ip' = ip, ids' = ids, allocated \subseteq allocated',
         \A d, x, j : Promised(x, j) /\ d = ids[x] /\ BoundTo(d, j) => BoundTo(d, j)'
  PROVE  IdInv'
<1>1. PICK x, y : x = ids["NULLId"] /\ y = ids["theId"]
  OBVIOUS
<1>2. /\ ip[0] >= 4 => BoundTo(x, "null")'
      /\ ip[0] \in 8..10 => BoundTo(y, "null")'
      /\ ip[0] \in 12..14 => BoundTo(y, "s0")'
      /\ ip[0] >= 16 => BoundTo(y, "s1")'
  BY <1>1 DEF Promised, IdInv
<1>3. ids'["NULLId"] = x /\ ids'["theId"] = y
  BY <1>1
<1>4. /\ \A z \in {"NULLId", "theId"} : ids'[z] # None => ids'[z] \in allocated'
      /\ ids'["NULLId"] # None => ids'["NULLId"] # ids'["theId"]
      /\ ip'[0] <= 6 => ids'["theId"] = None
  BY DEF IdInv
<1> QED
  BY <1>2, <1>3, <1>4 DEF IdInv, BoundTo

\* A binding stays while its global translation does and local ones get what they may.
LEMMA BoundKept ==
  ASSUME NEW d, NEW j, BoundTo(d, j), allocated \subseteq allocated',
         mf'[d] = mf[d], arg'[d] = arg[d],
         \A k \in Core : lt'[k][d] = lt[k][d] \/ lt'[k][d] \in May(j)
  PROVE  BoundTo(d, j)'
<1>1. \A k \in Core : lt'[k][d] \in May(j)
  BY DEF BoundTo
<1> QED
  BY <1>1 DEF BoundTo

\* A core that does not take part in a step goes on with its call.
LEMMA CallerKept ==
  ASSUME NEW k \in Core, CallerInv(k), ip'[k] = ip[k], phase'[k] = phase[k],
         pc'[k] = pc[k], cid'[k] = cid[k], fn'[k] = fn[k], rmf'[k] = rmf[k],
         rarg'[k] = rarg[k], obj'[k] = obj[k], result'[k] = result[k],
         phase[k] = "run" /\ ip[k] \in Calls =>
           \A d : d = ids[Program[ip[k]].id] =>
             ids'[Program[ip[k]].id] = d /\ lt'[k][d] = lt[k][d]
  PROVE  CallerInv(k)'
<1>1. ASSUME phase'[k] = "run", ip'[k] \in Calls
      PROVE  \E d \in Id, i \in Inst :
               /\ d = ids'[Program[ip'[k]].id] /\ i = Wanted(ip'[k]) /\ InCall(k, d, i)'
  <2>1. PICK d \in Id, i \in Inst : /\ d = ids[Program[ip[k]].id]
                                    /\ i = Wanted(ip[k]) /\ InCall(k, d, i)
    BY <1>1 DEF CallerInv
  <2>2. ids'[Program[ip[k]].id] = d /\ lt'[k][d] = lt[k][d]
    BY <1>1, <2>1
  <2>3. Answer(k)' = Answer(k)
    BY DEF Answer
  <2>4. InCall(k, d, i)'
    BY <2>1, <2>2, <2>3 DEF InCall
  <2> QED
    BY <2>1, <2>2, <2>4
<1> QED
  BY <1>1 DEF CallerInv

\* The other cores take no part in a step of c.
Alone(c) ==
  \A k \in Core \ {c} :
    /\ pc'[k] = pc[k] /\ cid'[k] = cid[k] /\ fn'[k] = fn[k] /\ rmf'[k] = rmf[k]
    /\ rarg'[k] = rarg[k] /\ obj'[k] = obj[k] /\ result'[k] = result[k]

\* Installing a representative, or clearing one, in a local translation.
LEMMA LtUpdate ==
  ASSUME lt = [k \in Core |-> [e \in Id |-> lt[k][e]]],
         NEW c \in Core, NEW d \in Id, NEW v, lt' = [lt EXCEPT ![c][d] = v]
  PROVE  /\ lt' = [k \in Core |-> [e \in Id |-> lt'[k][e]]]
         /\ lt'[c][d] = v
         /\ \A k \in Core, e \in Id : k # c \/ e # d => lt'[k][e] = lt[k][e]
<1>1. DOMAIN lt = Core /\ \A k \in Core : DOMAIN lt[k] = Id
  OBVIOUS
<1>2. DOMAIN lt' = Core
  BY <1>1
<1>3. lt'[c] = [lt[c] EXCEPT ![d] = v] /\ \A k \in Core \ {c} : lt'[k] = lt[k]
  BY <1>1
<1>4. lt'[c][d] = v /\ \A e \in Id \ {d} : lt'[c][e] = lt[c][e]
  BY <1>1, <1>3
<1>5. \A k \in Core : lt'[k] = [e \in Id |-> lt'[k][e]]
  <2> TAKE k \in Core
  <2>1. lt[k] = [e \in Id |-> lt[k][e]]
    OBVIOUS
  <2>2. CASE k = c
    BY <1>3, <2>1, <2>2
  <2>3. CASE k # c
    BY <1>3, <2>1, <2>3
  <2> QED
    BY <2>2, <2>3
<1>6. lt' = [k \in Core |-> lt'[k]]
  OBVIOUS
<1>7. lt' = [k \in Core |-> [e \in Id |-> lt'[k][e]]]
  BY <1>5, <1>6
<1> QED
  BY <1>3, <1>4, <1>7

\* The functions among the variables.
LEMMA Functions ==
  ASSUME OpType
  PROVE  /\ DOMAIN mf = Id /\ DOMAIN arg = Id
         /\ DOMAIN pc = Core /\ DOMAIN cid = Core /\ DOMAIN inst = Core /\ DOMAIN fn = Core
         /\ DOMAIN rmf = Core /\ DOMAIN rarg = Core /\ DOMAIN obj = Core
         /\ DOMAIN picId = Core /\ DOMAIN result = Core
<1>1. DOMAIN mf = Id /\ DOMAIN arg = Id
  BY DEF OpType
<1>2. DOMAIN pc = Core /\ DOMAIN cid = Core /\ DOMAIN inst = Core /\ DOMAIN fn = Core
  BY DEF OpType
<1>3. DOMAIN rmf = Core /\ DOMAIN rarg = Core /\ DOMAIN obj = Core
  BY DEF OpType
<1>4. DOMAIN picId = Core /\ DOMAIN result = Core
  BY DEF OpType
<1> QED
  BY <1>1, <1>2, <1>3, <1>4

\* What a step of a call by c leaves alone.
CallFrame(c) ==
  /\ UNCHANGED <<allocated, mf, arg, cid, inst, picId>> /\ Alone(c)
  /\ OpType'

\* A step of a call: it sees the instance it is to reach ...
LEMMA DerefSelfCall ==
  ASSUME Kinds, OpType, NEW c \in Core, NEW d \in Id, NEW i \in Inst, ids' = ids,
         BoundTo(d, i), InCall(c, d, i), DerefSelf(c)
  PROVE  InCall(c, d, i)' /\ CallFrame(c) /\ lt' = lt
<1>1. /\ pc[c] = "self" /\ cid[c] = d /\ fn[c] \in May(i)
      /\ fn[c] # None => lt[c][d] # None
  BY DEF DerefSelf, InCall
<1>2. /\ allocated' = allocated /\ mf' = mf /\ arg' = arg /\ lt' = lt /\ cid' = cid
      /\ inst' = inst /\ fn' = fn /\ picId' = picId
  BY DEF DerefSelf, gVars
<1>3. CASE fn[c] # None
  <2>1. SelfResult(c) = "ran"
    BY <1>1, <1>3 DEF SelfResult
  <2>2. /\ pc' = [pc EXCEPT ![c] = "idle"] /\ result' = [result EXCEPT ![c] = "ran"]
        /\ obj' = [obj EXCEPT ![c] = fn[c]] /\ rmf' = rmf /\ rarg' = rarg
    BY <1>3, <2>1 DEF DerefSelf, Return, Goto
  <2>3. pc'[c] = "idle" /\ result'[c] = "ran" /\ obj'[c] = fn[c] /\ cid'[c] = d
    BY <1>1, <1>2, <2>2, Functions
  <2>4. i # "null" /\ fn[c].inst = i
    BY <1>1, <1>3, KindFacts
  <2>5. Answer(c)' = i
    BY <2>3, <2>4 DEF Answer
  <2>6. InCall(c, d, i)'
    BY <2>3, <2>4, <2>5 DEF InCall
  <2>7. Alone(c)
    BY <1>2, <2>2, Functions DEF Alone
  <2>8. OpType'
    BY <1>2, <2>2 DEF OpType
  <2> QED
    BY <1>2, <2>6, <2>7, <2>8 DEF CallFrame
<1>4. CASE fn[c] = None
  <2>1. /\ pc' = [pc EXCEPT ![c] = "miss"] /\ result' = result /\ obj' = obj
        /\ rmf' = [rmf EXCEPT ![c] = "unread"] /\ rarg' = [rarg EXCEPT ![c] = "unread"]
    BY <1>4 DEF DerefSelf, Goto
  <2>2. pc'[c] = "miss" /\ rmf'[c] = "unread" /\ rarg'[c] = "unread" /\ cid'[c] = d
    BY <1>1, <1>2, <2>1, Functions
  <2>3. InCall(c, d, i)'
    BY <2>2 DEF InCall
  <2>4. Alone(c)
    BY <1>2, <2>1, Functions DEF Alone
  <2>5. OpType'
    BY <1>2, <2>1 DEF OpType
  <2> QED
    BY <1>2, <2>3, <2>4, <2>5 DEF CallFrame
<1> QED
  BY <1>2, <1>3, <1>4

\* ... in the miss function and the argument that it reads ...
LEMMA ReadCall ==
  ASSUME Kinds, OpType, NEW c \in Core, NEW d \in Id, NEW i \in Inst, ids' = ids,
         BoundTo(d, i), InCall(c, d, i), ReadMf(c) \/ ReadArg(c)
  PROVE  InCall(c, d, i)' /\ CallFrame(c) /\ lt' = lt
<1>1. /\ pc[c] = "miss" /\ cid[c] = d /\ rmf[c] \in {"unread", MissFunc(i)}
      /\ rarg[c] \in {"unread", MissArg(i)}
  BY DEF ReadMf, ReadArg, InCall
<1>2. /\ allocated' = allocated /\ mf' = mf /\ arg' = arg /\ lt' = lt /\ cid' = cid
      /\ inst' = inst /\ fn' = fn /\ picId' = picId /\ obj' = obj /\ result' = result
  BY DEF ReadMf, ReadArg, gVars
<1>3. mf[d] = MissFunc(i) /\ arg[d] = MissArg(i)
  BY DEF BoundTo
<1>4. CASE ReadMf(c)
  <2>1. PICK p \in {"miss", "invoke"} : p = IF rarg[c] = "unread" THEN "miss" ELSE "invoke"
    OBVIOUS
  <2>2. /\ rmf' = [rmf EXCEPT ![c] = MissFunc(i)] /\ pc' = [pc EXCEPT ![c] = p]
        /\ rarg' = rarg
    BY <1>1, <1>3, <1>4, <2>1 DEF ReadMf, Goto
  <2>3. rmf'[c] = MissFunc(i) /\ rarg'[c] = rarg[c] /\ pc'[c] = p /\ cid'[c] = d
    BY <1>1, <1>2, <2>2, Functions
  <2>4. InCall(c, d, i)'
    BY <1>1, <2>1, <2>3 DEF InCall
  <2>5. Alone(c)
    BY <1>2, <2>2, Functions DEF Alone
  <2>6. OpType'
    BY <1>2, <2>2 DEF OpType
  <2> QED
    BY <1>2, <2>4, <2>5, <2>6 DEF CallFrame
<1>5. CASE ReadArg(c)
  <2>1. PICK p \in {"miss", "invoke"} : p = IF rmf[c] = "unread" THEN "miss" ELSE "invoke"
    OBVIOUS
  <2>2. /\ rarg' = [rarg EXCEPT ![c] = MissArg(i)] /\ pc' = [pc EXCEPT ![c] = p]
        /\ rmf' = rmf
    BY <1>1, <1>3, <1>5, <2>1 DEF ReadArg, Goto
  <2>3. rarg'[c] = MissArg(i) /\ rmf'[c] = rmf[c] /\ pc'[c] = p /\ cid'[c] = d
    BY <1>1, <1>2, <2>2, Functions
  <2>4. InCall(c, d, i)'
    BY <1>1, <2>1, <2>3 DEF InCall
  <2>5. Alone(c)
    BY <1>2, <2>2, Functions DEF Alone
  <2>6. OpType'
    BY <1>2, <2>2 DEF OpType
  <2> QED
    BY <1>2, <2>4, <2>5, <2>6 DEF CallFrame
<1> QED
  BY <1>2, <1>4, <1>5

\* ... in what the miss function does ...
LEMMA InvokeCall ==
  ASSUME Kinds, OpType, NEW c \in Core, NEW d \in Id, NEW i \in Inst, ids' = ids,
         BoundTo(d, i), InCall(c, d, i), InvokeMiss(c)
  PROVE  InCall(c, d, i)' /\ CallFrame(c) /\ lt' = lt
<1>1. /\ pc[c] = "invoke" /\ cid[c] = d /\ rmf[c] = MissFunc(i) /\ rarg[c] = MissArg(i)
  BY DEF InvokeMiss, InCall
<1>2. /\ allocated' = allocated /\ mf' = mf /\ arg' = arg /\ lt' = lt /\ cid' = cid
      /\ inst' = inst /\ fn' = fn /\ picId' = picId /\ rmf' = rmf /\ rarg' = rarg
  BY DEF InvokeMiss, gVars
<1>3. CASE i = "null"
  <2>1. rmf[c] = "nullmissmf" /\ MissResult(c) = "EBBRC_NULL"
    BY <1>1, <1>3, KindFacts DEF MissResult
  <2>2. /\ pc' = [pc EXCEPT ![c] = "idle"] /\ obj' = obj
        /\ result' = [result EXCEPT ![c] = "EBBRC_NULL"]
    BY <2>1 DEF InvokeMiss, Return, Goto
  <2>3. pc'[c] = "idle" /\ result'[c] = "EBBRC_NULL" /\ cid'[c] = d
    BY <1>1, <1>2, <2>2, Functions
  <2>4. Answer(c)' = "EBBRC_NULL"
    BY <2>3 DEF Answer
  <2>5. InCall(c, d, i)'
    BY <1>3, <2>3, <2>4 DEF InCall
  <2>6. Alone(c)
    BY <1>2, <2>2, Functions DEF Alone
  <2>7. OpType'
    BY <1>2, <2>2 DEF OpType
  <2> QED
    BY <1>2, <2>5, <2>6, <2>7 DEF CallFrame
<1>4. CASE i # "null"
  <2>1. rmf[c] = "CObjEBBMissFunc" /\ rarg[c] = i /\ i # None /\ AfterMissFunc(i) = "cache"
    BY <1>1, <1>4, KindFacts
  <2>2. /\ pc' = [pc EXCEPT ![c] = "cache"] /\ result' = result
        /\ obj' = [obj EXCEPT ![c] = RepOf(i, None)]
    BY <2>1 DEF InvokeMiss, Goto
  <2>3. pc'[c] = "cache" /\ obj'[c] = RepOf(i, None) /\ cid'[c] = d
    BY <1>1, <1>2, <2>2, Functions
  <2>4. InCall(c, d, i)'
    BY <1>4, <2>3 DEF InCall
  <2>5. Alone(c)
    BY <1>2, <2>2, Functions DEF Alone
  <2>6. OpType'
    BY <1>2, <2>2 DEF OpType
  <2> QED
    BY <1>2, <2>4, <2>5, <2>6 DEF CallFrame
<1> QED
  BY <1>2, <1>3, <1>4

\* ... and caches no representative but one of that instance.
LEMMA CacheCall ==
  ASSUME Kinds, OpType, NEW c \in Core, NEW d \in Id, NEW i \in Inst, ids' = ids,
         BoundTo(d, i), InCall(c, d, i), CacheObj(c)
  PROVE  /\ InCall(c, d, i)' /\ CallFrame(c)
         /\ i # "null" /\ lt' = [lt EXCEPT ![c][d] = RepOf(i, None)]
<1>1. pc[c] = "cache" /\ cid[c] = d /\ obj[c] = RepOf(i, None) /\ i # "null"
  BY DEF CacheObj, InCall
<1>2. /\ allocated' = allocated /\ mf' = mf /\ arg' = arg /\ cid' = cid
      /\ inst' = inst /\ fn' = fn /\ picId' = picId /\ rmf' = rmf /\ rarg' = rarg
      /\ obj' = obj /\ result' = result /\ pc' = [pc EXCEPT ![c] = "mark"]
      /\ lt' = [lt EXCEPT ![c][d] = RepOf(i, None)]
  BY <1>1 DEF CacheObj, gVars, Goto
<1>3. pc'[c] = "mark" /\ obj'[c] = RepOf(i, None) /\ cid'[c] = d
  BY <1>1, <1>2, Functions
<1>4. InCall(c, d, i)'
  BY <1>1, <1>3 DEF InCall
<1>5. Alone(c)
  BY <1>2, Functions DEF Alone
<1>6. lt' = [k \in Core |-> [e \in Id |-> lt'[k][e]]]
  BY <1>2, LtUpdate DEF OpType
<1>7. OpType'
  BY <1>2, <1>6 DEF OpType
<1> QED
  BY <1>1, <1>2, <1>4, <1>5, <1>7 DEF CallFrame

\* ... and after it has marked its core it ends with that instance.
LEMMA MarkCall ==
  ASSUME Kinds, OpType, NEW c \in Core, NEW d \in Id, NEW i \in Inst, ids' = ids,
         BoundTo(d, i), InCall(c, d, i), MarkCoreUsed(c)
  PROVE  InCall(c, d, i)' /\ CallFrame(c) /\ lt' = lt
<1>1. pc[c] = "mark" /\ cid[c] = d /\ obj[c] = RepOf(i, None) /\ i # "null"
  BY DEF MarkCoreUsed, InCall
<1>2. /\ allocated' = allocated /\ mf' = mf /\ arg' = arg /\ lt' = lt /\ cid' = cid
      /\ inst' = inst /\ fn' = fn /\ picId' = picId /\ rmf' = rmf /\ rarg' = rarg
      /\ obj' = obj /\ pc' = [pc EXCEPT ![c] = "idle"]
      /\ result' = [result EXCEPT ![c] = "ran"]
  BY DEF MarkCoreUsed, Return, Goto
<1>3. pc'[c] = "idle" /\ result'[c] = "ran" /\ obj'[c].inst = i /\ cid'[c] = d
  BY <1>1, <1>2, Functions, KindFacts
<1>4. InCall(c, d, i)'
  BY <1>1, <1>3 DEF InCall, Answer
<1>5. Alone(c)
  BY <1>2, Functions DEF Alone
<1>6. OpType'
  BY <1>2 DEF OpType
<1> QED
  BY <1>2, <1>4, <1>5, <1>6 DEF CallFrame

\* Every step of a call keeps it on the instance that it is to reach.
LEMMA InCallStep ==
  ASSUME Kinds, OpType, NEW c \in Core, NEW d \in Id, NEW i \in Inst, ids' = ids,
         BoundTo(d, i), InCall(c, d, i), CallStep(c)
  PROVE  /\ InCall(c, d, i)' /\ CallFrame(c)
         /\ lt' = lt \/ (i # "null" /\ lt' = [lt EXCEPT ![c][d] = RepOf(i, None)])
<1>1. CASE HandleMiss(c) \/ AddRep(c)
  <2>1. pc[c] \in {"lockReps", "addRep"}
    BY <1>1 DEF HandleMiss, AddRep
  <2> QED
    BY <2>1 DEF InCall
<1> QED
  BY <1>1, DerefSelfCall, ReadCall, InvokeCall, CacheCall, MarkCall DEF CallStep

\* A step by c of the call it is in, or the start of that call.
LEMMA CallKeeps ==
  ASSUME Kinds, BarrierInv, OpInv, NEW c \in Core, ip[c] \in Calls,
         NEW d \in Id, NEW i \in Inst, d = ids[Program[ip[c]].id], i = Wanted(ip[c]),
         UNCHANGED <<ip, ids, passed, allocated, mf, arg, inst, picId>>,
         phase' = [phase EXCEPT ![c] = "run"],
         OpType', Alone(c), InCall(c, d, i)',
         lt' = lt \/ (i # "null" /\ lt' = [lt EXCEPT ![c][d] = RepOf(i, None)])
  PROVE  OpInv'
<1>1. /\ phase'[c] = "run" /\ 0 \in Core
      /\ \A k \in Core \ {c} : phase'[k] = phase[k]
  BY CoreFacts DEF BarrierInv, TypeInv
<1>2. /\ ip' = ip /\ ids' = ids /\ passed' = passed /\ allocated' = allocated /\ mf' = mf
      /\ arg' = arg /\ inst' = inst /\ picId' = picId
  OBVIOUS
<1>3. lt = [k \in Core |-> [e \in Id |-> lt[k][e]]] /\ allocated \subseteq Id
  BY DEF OpInv, OpType
<1>4. /\ \A k \in Core \ {c}, e \in Id : lt'[k][e] = lt[k][e]
      /\ \A k \in Core, e \in Id \ {d} : lt'[k][e] = lt[k][e]
      /\ lt' = lt \/ lt'[c][d] = RepOf(i, None)
  BY <1>3, LtUpdate
<1>5. \/ lt' = lt
      \/ /\ Program[ip[c]].id = "theId"
         /\ (i = "s0" /\ ip[0] \in 12..14) \/ (i = "s1" /\ ip[0] \in 16..18)
  <2>1. ip[c] = 5 \/ ip[c] = 9 \/ ip[c] = 13 \/ ip[c] = 17
    BY DEF Calls
  <2>2. ip[c] \in {5, 9} => i = "null"
    BY DEF Wanted
  <2>3. ip[c] = 13 => i = "s0" /\ ip[0] \in 12..14 /\ Program[ip[c]].id = "theId"
    BY Together, Operands DEF Wanted
  <2>4. ip[c] = 17 => i = "s1" /\ ip[0] \in 16..18 /\ Program[ip[c]].id = "theId"
    BY Together, Operands DEF Wanted
  <2>5. i = "null" => lt' = lt
    OBVIOUS
  <2>6. CASE ip[c] \in {5, 9}
    BY <2>2, <2>5, <2>6
  <2>7. CASE ip[c] = 13
    BY <2>3, <2>7
  <2>8. CASE ip[c] = 17
    BY <2>4, <2>8
  <2> QED
    BY <2>1, <2>6, <2>7, <2>8
<1>6. IdInv'
  <2>1. IdInv
    BY DEF OpInv
  <2>2. ASSUME NEW e, NEW x, NEW j, Promised(x, j), e = ids[x], BoundTo(e, j)
        PROVE  BoundTo(e, j)'
    <3>1. e \in Id
      BY <1>3, <2>2 DEF BoundTo
    <3>2. CASE lt' = lt \/ e # d
      <4>1. \A k \in Core : lt'[k][e] = lt[k][e]
        BY <1>4, <3>1, <3>2
      <4> QED
        BY <1>2, <2>2, <4>1, BoundKept
    <3>3. CASE lt' # lt /\ e = d
      <4>1. d = ids["theId"] /\ ((i = "s0" /\ ip[0] \in 12..14) \/ (i = "s1" /\ ip[0] \in 16..18))
        BY <1>5, <3>3
      <4>2. x = "theId"
        <5>1. x \in {"NULLId", "theId"}
          BY <2>2 DEF Promised
        <5>2. e # None
          BY <3>1, EBBTransAssumption
        <5> QED
          BY <2>1, <2>2, <3>3, <4>1, <5>1, <5>2 DEF IdInv
      <4>3. j = i
        BY <2>2, <4>1, <4>2 DEF Promised
      <4>4. \A k \in Core : lt'[k][e] = lt[k][e] \/ lt'[k][e] \in May(j)
        BY <1>4, <3>1, <3>3, <4>1, <4>3, KindFacts
      <4> QED
        BY <1>2, <2>2, <4>4, BoundKept
    <3> QED
      BY <3>2, <3>3
  <2> QED
    BY <1>2, <2>1, <2>2, IdKept
<1>7. AllocInv' /\ BindInv'
  <2>1. CASE c = 0
    BY <1>2, <2>1 DEF AllocInv, BindInv, Allocs, Binds, Calls
  <2>2. CASE c # 0
    <3>1. pc'[0] = pc[0] /\ cid'[0] = cid[0] /\ phase'[0] = phase[0]
      BY <1>1, <2>2 DEF Alone
    <3>2. AllocInv'
      BY <1>2, <3>1 DEF OpInv, AllocInv
    <3>3. ASSUME phase[0] = "run", ip[0] \in Binds
          PROVE  \E e \in Id, j \in Inst :
                   /\ e = ids[Program[ip[0]].id] /\ j = Program[ip[0]].inst
                   /\ InBind(e, j)'
      <4>1. PICK e \in Id, j \in Inst : /\ e = ids[Program[ip[0]].id]
                                        /\ j = Program[ip[0]].inst /\ InBind(e, j)
        BY <3>3 DEF OpInv, BindInv
      <4>2. lt' = lt
        BY <1>5, <3>3 DEF Binds
      <4>3. InBind(e, j)'
        BY <1>2, <3>1, <4>1, <4>2 DEF InBind
      <4> QED
        BY <4>1, <4>3
    <3> QED
      BY <1>2, <3>1, <3>2, <3>3 DEF BindInv
  <2> QED
    BY <2>1, <2>2
<1>8. PassInv'
  BY <1>1, <1>2 DEF OpInv, PassInv
<1>9. ASSUME NEW k \in Core PROVE CallerInv(k)'
  <2>1. CASE k = c
    <3>1. d = ids'[Program[ip'[c]].id] /\ i = Wanted(ip'[c]) /\ ip'[c] \in Calls
      BY <1>2
    <3> QED
      BY <1>1, <2>1, <3>1 DEF CallerInv
  <2>2. CASE k # c
    <3>1. CallerInv(k) /\ phase'[k] = phase[k]
      BY <1>1, <2>2 DEF OpInv
    <3>2. ASSUME phase[k] = "run", ip[k] \in Calls, NEW e, e = ids[Program[ip[k]].id]
          PROVE  ids'[Program[ip[k]].id] = e /\ lt'[k][e] = lt[k][e]
      <4>1. e \in Id
        BY <3>2, CallBound DEF OpInv
      <4> QED
        BY <1>2, <1>4, <2>2, <3>2, <4>1
    <3> QED
      BY <1>2, <2>2, <3>1, <3>2, CallerKept DEF Alone
  <2> QED
    BY <2>1, <2>2
<1> QED
  BY <1>6, <1>7, <1>8, <1>9 DEF OpInv

\* Which operation a core is in, if it is in one.
LEMMA WhichOp ==
  ASSUME BarrierInv, OpInv, NEW c \in Core, pc[c] # "idle"
  PROVE  /\ phase[c] = "run"
         /\ pc[c] = "alloc" => c = 0 /\ ip[0] \in Allocs
         /\ pc[c] \in {"bind", "invalidate"} => c = 0 /\ ip[0] \in Binds
         /\ pc[c] \notin {"alloc", "bind", "invalidate"} => ip[c] \in Calls
<1>1. phase[c] = "run" /\ (c = 0 \/ ip[c] \in Calls)
  BY DEF OpInv, CallerInv
<1>2. ip[c] \in Allocs \/ ip[c] \in Binds \/ ip[c] \in Calls
  BY <1>1 DEF BarrierInv, StartInv
<1>3. ip[c] \in Calls => pc[c] \notin {"alloc", "bind", "invalidate"}
  BY <1>1 DEF OpInv, CallerInv, InCall
<1>4. ip[c] \in Allocs => c = 0 /\ pc[c] = "alloc"
  BY <1>1 DEF OpInv, AllocInv, Allocs, Calls
<1>5. ip[c] \in Binds => c = 0 /\ pc[c] \in {"bind", "invalidate"}
  BY <1>1 DEF OpInv, BindInv, InBind, Binds, Calls
<1> QED
  BY <1>1, <1>2, <1>3, <1>4, <1>5

\* While the master binds an id, nothing is promised about it and no core calls it.
LEMMA BindAway ==
  ASSUME BarrierInv, OpInv, ip[0] \in Binds
  PROVE  /\ \A e, x, j : Promised(x, j) /\ e = ids[x] /\ BoundTo(e, j) =>
              e # ids[Program[ip[0]].id]
         /\ \A k \in Core : ip[k] \in Calls =>
              ids[Program[ip[k]].id] # ids[Program[ip[0]].id]
<1>1. OpType /\ IdInv /\ allocated \subseteq Id /\ None \notin Id
  BY EBBTransAssumption DEF OpInv, OpType
<1>2. ids["NULLId"] \in Id => ids["NULLId"] # ids["theId"]
  BY <1>1 DEF IdInv
<1>3. ip[0] = 3 \/ ip[0] = 7 \/ ip[0] = 11 \/ ip[0] = 15
  BY DEF Binds
<1>4. ip[0] # 3 => Program[ip[0]].id = "theId"
  BY <1>3, Operands
<1>5. ASSUME NEW e, NEW x, NEW j, Promised(x, j), e = ids[x], BoundTo(e, j)
      PROVE  e # ids[Program[ip[0]].id]
  <2>1. x = "NULLId" /\ ip[0] # 3
    BY <1>3, <1>5 DEF Promised
  <2>2. e \in Id
    BY <1>1, <1>5 DEF BoundTo
  <2> QED
    BY <1>2, <1>4, <1>5, <2>1, <2>2
<1>6. ASSUME NEW k \in Core, ip[k] \in Calls
      PROVE  ids[Program[ip[k]].id] # ids[Program[ip[0]].id]
  <2>1. ip[k] = 5 /\ ip[0] # 3
    BY <1>3, <1>6, Together DEF Calls
  <2>2. ids["NULLId"] \in Id
    BY <1>1, <1>6, <2>1, CallBound, Operands
  <2> QED
    BY <1>2, <1>4, <2>1, <2>2, Operands
<1> QED
  BY <1>5, <1>6

\* A step by the master of an allocation or a bind, or the start of one: it touches
\* the translations of no id but the one it binds.
LEMMA MasterStep ==
  ASSUME BarrierInv, OpInv, ip[0] \in Allocs \cup Binds,
         UNCHANGED <<ip, ids, passed>>, phase' = [phase EXCEPT ![0] = "run"],
         OpType', Alone(0), allocated \subseteq allocated',
         ip[0] \in Allocs => AllocInv',
         ip[0] \in Binds =>
           \E d \in Id, i \in Inst : /\ d = ids[Program[ip[0]].id]
                                     /\ i = Program[ip[0]].inst /\ InBind(d, i)',
         \A e \in Id : (ip[0] \in Binds /\ e = ids[Program[ip[0]].id])
                       \/ /\ mf'[e] = mf[e] /\ arg'[e] = arg[e]
                          /\ \A k \in Core : lt'[k][e] = lt[k][e]
  PROVE  OpInv'
<1>1. /\ phase'[0] = "run" /\ 0 \in Core
      /\ \A k \in Core \ {0} : phase'[k] = phase[k]
  BY CoreFacts DEF BarrierInv, TypeInv
<1>2. ip' = ip /\ ids' = ids /\ passed' = passed
  OBVIOUS
<1>3. allocated \subseteq Id /\ IdInv
  BY DEF OpInv, OpType
<1>4. IdInv'
  <2>1. ASSUME NEW e, NEW x, NEW j, Promised(x, j), e = ids[x], BoundTo(e, j)
        PROVE  BoundTo(e, j)'
    <3>1. e \in Id
      BY <1>3, <2>1 DEF BoundTo
    <3>2. ~(ip[0] \in Binds /\ e = ids[Program[ip[0]].id])
      BY <2>1, BindAway
    <3>3. /\ mf'[e] = mf[e] /\ arg'[e] = arg[e]
          /\ \A k \in Core : lt'[k][e] = lt[k][e]
      BY <3>1, <3>2
    <3> QED
      BY <2>1, <3>3, BoundKept
  <2> QED
    BY <1>2, <1>3, <2>1, IdKept
<1>5. AllocInv'
  <2>1. CASE ip[0] \in Allocs
    BY <2>1
  <2>2. CASE ip[0] \notin Allocs
    BY <1>2, <2>2 DEF AllocInv
  <2> QED
    BY <2>1, <2>2
<1>6. BindInv'
  <2>1. CASE ip[0] \in Binds
    BY <1>2, <2>1 DEF BindInv
  <2>2. CASE ip[0] \notin Binds
    BY <1>2, <2>2 DEF BindInv
  <2> QED
    BY <2>1, <2>2
<1>7. PassInv'
  BY <1>1, <1>2 DEF OpInv, PassInv
<1>8. ASSUME NEW k \in Core PROVE CallerInv(k)'
  <2>1. CASE k = 0
    <3>1. ip[0] \notin Calls
      BY DEF Allocs, Binds, Calls
    <3> QED
      BY <1>1, <1>2, <2>1, <3>1 DEF CallerInv
  <2>2. CASE k # 0
    <3>1. CallerInv(k) /\ phase'[k] = phase[k]
      BY <1>1, <2>2 DEF OpInv
    <3>2. ASSUME phase[k] = "run", ip[k] \in Calls, NEW e, e = ids[Program[ip[k]].id]
          PROVE  ids'[Program[ip[k]].id] = e /\ lt'[k][e] = lt[k][e]
      <4>1. e \in Id
        BY <3>2, CallBound DEF OpInv
      <4>2. ~(ip[0] \in Binds /\ e = ids[Program[ip[0]].id])
        BY <3>2, BindAway
      <4> QED
        BY <1>2, <3>2, <4>1, <4>2
    <3> QED
      BY <1>2, <2>2, <3>1, <3>2, CallerKept DEF Alone
  <2> QED
    BY <2>1, <2>2
<1> QED
  BY <1>4, <1>5, <1>6, <1>7, <1>8 DEF OpInv

\* The master is given an id, or none ...
LEMMA AllocIdStep ==
  ASSUME BarrierInv, OpInv, ip[0] \in Allocs, AllocId(0),
         UNCHANGED <<ip, ids, passed>>, phase' = [phase EXCEPT ![0] = "run"]
  PROVE  OpInv'
<1>1. /\ allocated' = allocated /\ mf' = mf /\ arg' = arg /\ lt' = lt /\ inst' = inst
      /\ fn' = fn /\ rmf' = rmf /\ rarg' = rarg /\ obj' = obj /\ picId' = picId
      /\ result' = [result EXCEPT ![0] = "none"] /\ pc[0] = "idle"
  BY DEF AllocId, gVars, callVars
<1>2. PICK d, p : /\ cid' = [cid EXCEPT ![0] = d] /\ pc' = [pc EXCEPT ![0] = p]
                  /\ \/ d = None /\ p = "idle"
                     \/ d \in Id \ allocated /\ p = "alloc"
  <2>1. CASE FreeIds(0) = {} /\ cid' = [cid EXCEPT ![0] = None] /\ UNCHANGED pc
    <3>1. pc' = [pc EXCEPT ![0] = "idle"]
      BY <1>1, <2>1 DEF OpInv, OpType
    <3> QED
      BY <2>1, <3>1
  <2>2. CASE \E d \in FreeIds(0) : cid' = [cid EXCEPT ![0] = d] /\ Goto(0, "alloc")
    BY <2>2 DEF FreeIds, Goto
  <2> QED
    BY <2>1, <2>2 DEF AllocId
<1>3. OpType /\ 0 \in Core /\ None \notin Id
  BY CoreFacts, EBBTransAssumption DEF OpInv
<1>4. OpType'
  BY <1>1, <1>2, <1>3 DEF OpType
<1>5. Alone(0)
  BY <1>1, <1>2, <1>3, Functions DEF Alone
<1>6. cid'[0] = d /\ pc'[0] = p
  BY <1>2, <1>3, Functions
<1>7. ip[0] = 6 => d # ids["NULLId"]
  <2>1. ip[0] = 6 => ids["NULLId"] \in allocated
    BY DEF OpInv, IdInv, BoundTo
  <2> QED
    BY <1>2, <1>3, <2>1 DEF OpType
<1>8. AllocInv'
  BY <1>1, <1>2, <1>6, <1>7 DEF AllocInv
<1>9. ip[0] \notin Binds
  BY DEF Allocs, Binds
<1> QED
  BY <1>1, <1>4, <1>5, <1>8, <1>9, MasterStep

\* ... and takes it.
LEMMA TakeIdStep ==
  ASSUME BarrierInv, OpInv, ip[0] \in Allocs, TakeId(0), phase[0] = "run",
         UNCHANGED <<ip, phase, ids, passed>>
  PROVE  OpInv'
<1>1. /\ mf' = mf /\ arg' = arg /\ lt' = lt /\ inst' = inst /\ cid' = cid
      /\ fn' = fn /\ rmf' = rmf /\ rarg' = rarg /\ obj' = obj /\ picId' = picId
      /\ result' = result /\ pc[0] = "alloc" /\ pc' = [pc EXCEPT ![0] = "idle"]
      /\ allocated' = allocated \cup {cid[0]}
  BY DEF TakeId, callVars, Goto
<1>2. OpType /\ 0 \in Core
  BY CoreFacts DEF OpInv
<1>3. cid[0] \in Id /\ (ip[0] = 6 => cid[0] # ids["NULLId"])
  BY <1>1 DEF OpInv, AllocInv
<1>4. OpType'
  BY <1>1, <1>2, <1>3 DEF OpType
<1>5. Alone(0)
  BY <1>1, <1>2, Functions DEF Alone
<1>6. pc'[0] = "idle"
  BY <1>1, <1>2, Functions
<1>7. AllocInv'
  BY <1>1, <1>3, <1>6 DEF AllocInv
<1>8. ip[0] \notin Binds
  BY DEF Allocs, Binds
<1>9. phase' = [phase EXCEPT ![0] = "run"]
  BY DEF BarrierInv, TypeInv
<1> QED
  BY <1>1, <1>4, <1>5, <1>7, <1>8, <1>9, MasterStep

\* The master writes the miss function of the id it binds ...
LEMMA BindIdStep ==
  ASSUME BarrierInv, OpInv, ip[0] \in Binds,
         BindId(0, ids[Program[ip[0]].id], Program[ip[0]].inst),
         UNCHANGED <<ip, ids, passed>>, phase' = [phase EXCEPT ![0] = "run"]
  PROVE  OpInv'
<1>1. OpType /\ 0 \in Core
  BY CoreFacts DEF OpInv
<1>2. PICK d \in Id : d = ids[Program[ip[0]].id] /\ d \in allocated
  BY <1>1 DEF BindId, OpType
<1>3. PICK i \in Inst : i = Program[ip[0]].inst
  BY BindTstAssumption, Operands DEF Binds
<1>4. /\ allocated' = allocated /\ arg' = arg /\ lt' = lt /\ inst' = [inst EXCEPT ![0] = i]
      /\ fn' = fn /\ rmf' = rmf /\ rarg' = rarg /\ obj' = obj /\ picId' = picId
      /\ result' = [result EXCEPT ![0] = "none"] /\ pc' = [pc EXCEPT ![0] = "bind"]
      /\ cid' = [cid EXCEPT ![0] = d] /\ mf' = [mf EXCEPT ![d] = MissFunc(i)]
  BY <1>2, <1>3 DEF BindId, callVars, Goto
<1>5. OpType'
  BY <1>1, <1>4 DEF OpType
<1>6. Alone(0)
  BY <1>1, <1>4, Functions DEF Alone
<1>7. /\ pc'[0] = "bind" /\ cid'[0] = d /\ inst'[0] = i /\ mf'[d] = MissFunc(i)
      /\ \A e \in Id \ {d} : mf'[e] = mf[e]
  BY <1>1, <1>4, Functions
<1>8. InBind(d, i)'
  BY <1>2, <1>4, <1>7 DEF InBind
<1>9. ip[0] \notin Allocs
  BY DEF Allocs, Binds
<1>10. \E e \in Id, j \in Inst : /\ e = ids[Program[ip[0]].id]
                                 /\ j = Program[ip[0]].inst /\ InBind(e, j)'
  BY <1>2, <1>3, <1>8
<1>11. \A e \in Id : (ip[0] \in Binds /\ e = ids[Program[ip[0]].id])
                     \/ /\ mf'[e] = mf[e] /\ arg'[e] = arg[e]
                        /\ \A k \in Core : lt'[k][e] = lt[k][e]
  BY <1>2, <1>4, <1>7
<1> QED
  BY <1>4, <1>5, <1>6, <1>9, <1>10, <1>11, MasterStep

\* ... and then its argument ...
LEMMA BindArgStep ==
  ASSUME BarrierInv, OpInv, ip[0] \in Binds, BindArg(0), phase[0] = "run",
         UNCHANGED <<ip, phase, ids, passed>>
  PROVE  OpInv'
<1>1. OpType /\ 0 \in Core /\ Core \subseteq Nat
  BY CoreFacts DEF OpInv
<1>2. PICK d \in Id, i \in Inst : /\ d = ids[Program[ip[0]].id]
                                  /\ i = Program[ip[0]].inst /\ InBind(d, i)
  BY DEF OpInv, BindInv
<1>3. cid[0] = d /\ inst[0] = i /\ mf[d] = MissFunc(i) /\ d \in allocated
  BY <1>2 DEF InBind
<1>4. /\ allocated' = allocated /\ mf' = mf /\ lt' = lt /\ inst' = inst /\ cid' = cid
      /\ fn' = fn /\ rmf' = rmf /\ rarg' = rarg /\ obj' = obj
      /\ result' = result /\ pc' = [pc EXCEPT ![0] = "invalidate"]
      /\ arg' = [arg EXCEPT ![d] = MissArg(i)] /\ picId' = [picId EXCEPT ![0] = 0]
  BY <1>3 DEF BindArg, callVars, Goto
<1>5. OpType'
  BY <1>1, <1>4 DEF OpType
<1>6. Alone(0)
  BY <1>1, <1>4, Functions DEF Alone
<1>7. /\ pc'[0] = "invalidate" /\ arg'[d] = MissArg(i) /\ picId'[0] = 0
      /\ \A e \in Id \ {d} : arg'[e] = arg[e]
  BY <1>1, <1>4, Functions
<1>8. InBind(d, i)'
  <2>1. \A k \in Core : ~(k < 0)
    BY <1>1
  <2> QED
    BY <1>1, <1>3, <1>4, <1>7, <2>1 DEF InBind
<1>9. ip[0] \notin Allocs /\ phase' = [phase EXCEPT ![0] = "run"]
  BY DEF BarrierInv, TypeInv, Allocs, Binds
<1>10. \E e \in Id, j \in Inst : /\ e = ids[Program[ip[0]].id]
                                 /\ j = Program[ip[0]].inst /\ InBind(e, j)'
  BY <1>2, <1>8
<1>11. \A e \in Id : (ip[0] \in Binds /\ e = ids[Program[ip[0]].id])
                     \/ /\ mf'[e] = mf[e] /\ arg'[e] = arg[e]
                        /\ \A k \in Core : lt'[k][e] = lt[k][e]
  BY <1>2, <1>4, <1>7
<1> QED
  BY <1>4, <1>5, <1>6, <1>9, <1>10, <1>11, MasterStep

\* The invalidation comes to the next core, and after the last back to the first.
LEMMA NextCore ==
  ASSUME numlpics = NumCores, NEW k \in Core
  PROVE  NextPic(k) = IF k + 1 < NumCores THEN k + 1 ELSE 0
<1>1. NumCores \in Nat /\ NumCores > 0 /\ k \in 0..(NumCores - 1)
  BY CoreFacts DEF Core
<1>2. CASE k + 1 < NumCores
  <2>1. (k + 1) % NumCores = k + 1
    BY <1>1, <1>2
  <2> QED
    BY <1>2, <2>1 DEF NextPic
<1>3. CASE ~(k + 1 < NumCores)
  <2>1. k + 1 = NumCores
    BY <1>1, <1>3
  <2>2. NumCores % NumCores = 0
    BY <1>1
  <2> QED
    BY <1>3, <2>1, <2>2 DEF NextPic
<1> QED
  BY <1>2, <1>3

\* ... and clears the local translations of one core after the other, until it has come
\* round to its own.
LEMMA InvalidateStep ==
  ASSUME BarrierInv, OpInv, ip[0] \in Binds, Invalidate(0), phase[0] = "run",
         UNCHANGED <<ip, phase, ids, passed>>
  PROVE  OpInv'
<1>1. OpType /\ 0 \in Core /\ Core \subseteq Nat /\ None \notin Id
  BY CoreFacts, EBBTransAssumption DEF OpInv
<1>2. PICK d \in Id, i \in Inst : /\ d = ids[Program[ip[0]].id]
                                  /\ i = Program[ip[0]].inst /\ InBind(d, i)
  BY DEF OpInv, BindInv
<1>3. /\ cid[0] = d /\ inst[0] = i /\ mf[d] = MissFunc(i) /\ d \in allocated
      /\ pc[0] = "invalidate" /\ arg[d] = MissArg(i)
  BY <1>2 DEF InBind, Invalidate
<1>4. PICK m \in Core : m = picId[0] /\ \A k \in Core : k < m => lt[k][d] = None
  BY <1>2, <1>3 DEF InBind
<1>5. numlpics = NumCores
  BY DEF BarrierInv, StartInv, Started, Binds
<1>6. PICK n : n = NextPic(m)
  OBVIOUS
<1>7. PICK p : p = IF n = 0 THEN "idle" ELSE "invalidate"
  OBVIOUS
<1>8. /\ allocated' = allocated /\ mf' = mf /\ arg' = arg /\ inst' = inst /\ cid' = cid
      /\ fn' = fn /\ rmf' = rmf /\ rarg' = rarg /\ obj' = obj /\ result' = result
      /\ lt' = [lt EXCEPT ![m][d] = None] /\ pc' = [pc EXCEPT ![0] = p]
      /\ picId' = [picId EXCEPT ![0] = n]
  BY <1>3, <1>4, <1>6, <1>7 DEF Invalidate, TestCoreUsed, gVars, callVars, Goto
<1>9. lt = [k \in Core |-> [e \in Id |-> lt[k][e]]]
  BY <1>1 DEF OpType
<1>10. /\ lt' = [k \in Core |-> [e \in Id |-> lt'[k][e]]] /\ lt'[m][d] = None
       /\ \A k \in Core, e \in Id : k # m \/ e # d => lt'[k][e] = lt[k][e]
  <2>1. lt' = [lt EXCEPT ![m][d] = None]
    BY <1>8
  <2>2. lt' = [k \in Core |-> [e \in Id |-> lt'[k][e]]]
    BY <1>9, <2>1, LtUpdate
  <2>3. lt'[m][d] = None
    BY <1>9, <2>1, LtUpdate
  <2>4. \A k \in Core, e \in Id : k # m \/ e # d => lt'[k][e] = lt[k][e]
    BY <1>9, <2>1, LtUpdate
  <2> QED
    BY <2>2, <2>3, <2>4
<1>11. OpType'
  BY <1>1, <1>8, <1>10 DEF OpType
<1>12. Alone(0)
  BY <1>1, <1>8, Functions DEF Alone
<1>13. pc'[0] = p /\ picId'[0] = n
  BY <1>1, <1>8, Functions
<1>14. InBind(d, i)'
  <2>1. NumCores \in Nat /\ \A k \in Core : k \in 0..(NumCores - 1)
    BY CoreFacts DEF Core
  <2>2. CASE m + 1 < NumCores
    <3>1. n = m + 1 /\ n \in Core /\ n # 0
      BY <1>4, <1>5, <1>6, <2>1, <2>2, NextCore DEF Core
    <3>2. \A k \in Core : k < n => lt'[k][d] = None
      <4>1. \A k \in Core : k < n => k = m \/ k < m
        BY <2>1, <3>1
      <4> QED
        BY <1>4, <1>10, <4>1
    <3> QED
      BY <1>3, <1>7, <1>8, <1>13, <3>1, <3>2 DEF InBind
  <2>3. CASE ~(m + 1 < NumCores)
    <3>1. n = 0 /\ \A k \in Core : k = m \/ k < m
      BY <1>4, <1>5, <1>6, <2>1, <2>3, NextCore
    <3>2. \A k \in Core : lt'[k][d] = None
      BY <1>4, <1>10, <3>1
    <3> QED
      BY <1>3, <1>7, <1>8, <1>13, <3>1, <3>2 DEF InBind
  <2> QED
    BY <2>2, <2>3
<1>15. ip[0] \notin Allocs /\ phase' = [phase EXCEPT ![0] = "run"]
  BY DEF BarrierInv, TypeInv, Allocs, Binds
<1>16. \E e \in Id, j \in Inst : /\ e = ids[Program[ip[0]].id]
                                 /\ j = Program[ip[0]].inst /\ InBind(e, j)'
  BY <1>2, <1>14
<1>17. \A e \in Id : (ip[0] \in Binds /\ e = ids[Program[ip[0]].id])
                     \/ /\ mf'[e] = mf[e] /\ arg'[e] = arg[e]
                        /\ \A k \in Core : lt'[k][e] = lt[k][e]
  BY <1>2, <1>8, <1>10
<1> QED
  BY <1>8, <1>11, <1>12, <1>15, <1>16, <1>17, MasterStep

\* A call begins: it reads the local translation.
LEMMA CallIdStep ==
  ASSUME Kinds, BarrierInv, OpInv, NEW c \in Core, ip[c] \in Calls,
         CallId(c, ids[Program[ip[c]].id]),
         UNCHANGED <<ip, ids, passed>>, phase' = [phase EXCEPT ![c] = "run"]
  PROVE  OpInv'
<1>1. OpType /\ IdInv
  BY DEF OpInv
<1>2. PICK d \in Id : d = ids[Program[ip[c]].id]
  BY <1>1, CallBound
<1>3. PICK i \in Inst : i = Wanted(ip[c])
  BY <1>1, CallBound, BindTstAssumption
<1>4. lt[c][d] \in May(i)
  BY <1>1, <1>2, <1>3, CallBound DEF BoundTo
<1>5. /\ allocated' = allocated /\ mf' = mf /\ arg' = arg /\ lt' = lt /\ inst' = inst
      /\ rmf' = rmf /\ rarg' = rarg /\ picId' = picId
      /\ cid' = [cid EXCEPT ![c] = d] /\ fn' = [fn EXCEPT ![c] = lt[c][d]]
      /\ obj' = [obj EXCEPT ![c] = None] /\ result' = [result EXCEPT ![c] = "none"]
      /\ pc' = [pc EXCEPT ![c] = "self"]
  BY <1>2 DEF CallId, gVars, Goto
<1>6. OpType'
  BY <1>1, <1>5 DEF OpType
<1>7. Alone(c)
  BY <1>1, <1>5, Functions DEF Alone
<1>8. cid'[c] = d /\ fn'[c] = lt[c][d] /\ pc'[c] = "self"
  BY <1>1, <1>5, Functions
<1>9. InCall(c, d, i)'
  BY <1>4, <1>5, <1>8 DEF InCall
<1> QED
  BY <1>2, <1>3, <1>5, <1>6, <1>7, <1>9, CallKeeps

\* A call goes on.
LEMMA RunCall ==
  ASSUME Kinds, BarrierInv, OpInv, NEW c \in Core, ip[c] \in Calls, phase[c] = "run",
         CallStep(c), UNCHANGED <<ip, phase, ids, passed>>
  PROVE  OpInv'
<1>1. PICK d \in Id, i \in Inst : /\ d = ids[Program[ip[c]].id] /\ i = Wanted(ip[c])
                                  /\ InCall(c, d, i)
  BY DEF OpInv, CallerInv
<1>2. OpType /\ BoundTo(d, i)
  BY <1>1, CallBound DEF OpInv
<1>3. /\ InCall(c, d, i)' /\ CallFrame(c)
      /\ lt' = lt \/ (i # "null" /\ lt' = [lt EXCEPT ![c][d] = RepOf(i, None)])
  BY <1>1, <1>2, InCallStep
<1>4. /\ UNCHANGED <<allocated, mf, arg, inst, picId>> /\ Alone(c) /\ OpType'
  BY <1>3 DEF CallFrame
<1>5. phase' = [phase EXCEPT ![c] = "run"]
  BY DEF BarrierInv, TypeInv
<1> QED
  BY <1>1, <1>3, <1>4, <1>5, CallKeeps

\* Every start of an operation.
LEMMA StartOpStep ==
  ASSUME Kinds, BarrierInv, OpInv, NEW c \in Core, StartOp(c)
  PROVE  OpInv'
<1>1. UNCHANGED <<ids, passed>>
  BY DEF StartOp
<1>2. /\ ip[c] \in DOMAIN Program => ip[c] \in 1..18
      /\ ip[c] \in 1..18 => /\ Program[ip[c]].op = "alloc" => ip[c] \in Allocs
                            /\ Program[ip[c]].op = "bind" => ip[c] \in Binds
                            /\ Program[ip[c]].op = "call" => ip[c] \in Calls
  BY Statements, Kinds4
<1>3. CASE c = 0 /\ At(c, "alloc", "ready") /\ AllocId(c) /\ Phase(c, "run")
  <2>1. ip[0] \in Allocs /\ ip' = ip /\ phase' = [phase EXCEPT ![0] = "run"]
    BY <1>2, <1>3 DEF At, Phase
  <2> QED
    BY <1>1, <1>3, <2>1, AllocIdStep
<1>4. CASE /\ c = 0 /\ At(c, "bind", "ready")
           /\ BindId(c, ids[Program[ip[c]].id], Program[ip[c]].inst)
           /\ Phase(c, "run")
  <2>1. ip[0] \in Binds /\ ip' = ip /\ phase' = [phase EXCEPT ![0] = "run"]
    BY <1>2, <1>4 DEF At, Phase
  <2> QED
    BY <1>1, <1>4, <2>1, BindIdStep
<1>5. ASSUME NEW d, d = ids[Program[ip[c]].id], At(c, "call", "ready"),
             IF d = None THEN Phase(c, "crash") /\ UNCHANGED vars
                         ELSE CallId(c, d) /\ Phase(c, "run")
      PROVE  OpInv'
  <2>1. ip[c] \in Calls
    BY <1>2, <1>5 DEF At
  <2>2. d # None
    BY <1>5, <2>1, CallBound, EBBTransAssumption DEF OpInv
  <2>3. CallId(c, d) /\ ip' = ip /\ phase' = [phase EXCEPT ![c] = "run"]
    BY <1>5, <2>2 DEF Phase
  <2> QED
    BY <1>1, <1>5, <2>1, <2>3, CallIdStep
<1> QED
  BY <1>3, <1>4, <1>5 DEF StartOp

\* Every step of an operation.
LEMMA RunOpStep ==
  ASSUME Kinds, BarrierInv, OpInv, NEW c \in Core, RunOp(c)
  PROVE  OpInv'
<1>1. UNCHANGED <<ip, phase, ids, passed>>
  BY DEF RunOp, tstVars
<1>2. pc[c] # "idle"
  BY DEF RunOp, TakeId, BindStep, BindArg, Invalidate, CallStep, DerefSelf, ReadMf,
         ReadArg, InvokeMiss, HandleMiss, AddRep, CacheObj, MarkCoreUsed
<1>3. CASE TakeId(c)
  <2>1. phase[c] = "run" /\ c = 0 /\ ip[0] \in Allocs
    BY <1>2, <1>3, WhichOp DEF TakeId
  <2> QED
    BY <1>1, <1>3, <2>1, TakeIdStep
<1>4. CASE BindStep(c)
  <2>1. phase[c] = "run" /\ c = 0 /\ ip[0] \in Binds
    BY <1>2, <1>4, WhichOp DEF BindStep, BindArg, Invalidate
  <2> QED
    BY <1>1, <1>4, <2>1, BindArgStep, InvalidateStep DEF BindStep
<1>5. CASE CallStep(c)
  <2>1. pc[c] \notin {"alloc", "bind", "invalidate"}
    BY <1>5 DEF CallStep, DerefSelf, ReadMf, ReadArg, InvokeMiss, HandleMiss, AddRep,
                CacheObj, MarkCoreUsed
  <2>2. phase[c] = "run" /\ ip[c] \in Calls
    BY <1>2, <2>1, WhichOp
  <2> QED
    BY <1>1, <1>5, <2>2, RunCall
<1> QED
  BY <1>3, <1>4, <1>5 DEF RunOp

\* The master ends an allocation and has the id.
LEMMA EndAlloc ==
  ASSUME BarrierInv, OpInv, ip[0] \in Allocs, EndOp(0)
  PROVE  OpInv'
<1>1. TypeInv /\ OpType /\ IdInv /\ AllocInv /\ 0 \in Core /\ None \notin Id
  BY CoreFacts, EBBTransAssumption DEF BarrierInv, OpInv
<1>2. ip[0] \in 1..18 /\ Program[ip[0]].op = "alloc" /\ phase[0] = "run" /\ pc[0] = "idle"
  BY Statements DEF Allocs, EndOp
<1>3. PICK d : d = cid[0] /\ d \in Id \cup {None} /\ (d = None \/ d \in allocated)
  BY <1>1, <1>2 DEF AllocInv
<1>4. PICK x \in {"NULLId", "theId"} : x = Program[ip[0]].id
  BY Operands DEF Allocs
<1>5. /\ ids' = [ids EXCEPT ![x] = d] /\ ip' = [ip EXCEPT ![0] = ip[0] + 1]
      /\ phase' = [phase EXCEPT ![0] = "ready"]
      /\ passed' = passed /\ UNCHANGED vars
  <2>1. passed' = {k \in passed : Program[ip[0]].op = "call" /\ k = 0 =>
                                    Answer(0) = Program[ip[0]].expect}
    BY DEF EndOp
  <2>2. passed' = passed
    BY <1>2, <2>1
  <2> QED
    BY <1>2, <1>3, <1>4, <2>2 DEF EndOp, NextStatement
<1>6. /\ allocated' = allocated /\ mf' = mf /\ arg' = arg /\ lt' = lt /\ pc' = pc
      /\ cid' = cid /\ inst' = inst /\ fn' = fn /\ rmf' = rmf /\ rarg' = rarg
      /\ obj' = obj /\ picId' = picId /\ result' = result
  BY <1>5 DEF vars, gVars, callVars
<1>7. /\ ip'[0] = ip[0] + 1 /\ phase'[0] = "ready"
      /\ \A k \in Core \ {0} : ip'[k] = ip[k] /\ phase'[k] = phase[k]
  BY <1>1, <1>5 DEF TypeInv
<1>8. ids'[x] = d /\ \A y \in {"NULLId", "theId"} \ {x} : ids'[y] = ids[y]
  BY <1>1, <1>5 DEF OpType
<1>9. \/ ip[0] = 2 /\ x = "NULLId"
      \/ ip[0] = 6 /\ x = "theId"
  BY <1>4, Operands DEF Allocs
<1>10. OpType'
  BY <1>1, <1>3, <1>5, <1>6 DEF OpType
<1>11. IdInv'
  <2>1. \A y \in {"NULLId", "theId"} : ids'[y] # None => ids'[y] \in allocated'
    BY <1>1, <1>3, <1>6, <1>8 DEF IdInv
  <2>2. CASE ip[0] = 2 /\ x = "NULLId"
    <3>1. ids'["theId"] = None /\ ip'[0] = 3
      BY <1>1, <1>7, <1>8, <2>2 DEF IdInv
    <3> QED
      BY <2>1, <3>1 DEF IdInv
  <2>3. CASE ip[0] = 6 /\ x = "theId"
    <3>1. ids'["theId"] = d /\ ids'["NULLId"] = ids["NULLId"] /\ ip'[0] = 7
      BY <1>7, <1>8, <2>3
    <3>2. ids["NULLId"] # d
      BY <1>1, <1>2, <1>3, <2>3 DEF AllocInv, Allocs
    <3>3. PICK e : e = ids["NULLId"]
      OBVIOUS
    <3>4. BoundTo(e, "null")
      BY <1>1, <2>3, <3>3 DEF IdInv
    <3>5. BoundTo(e, "null")'
      BY <1>6, <3>4 DEF BoundTo
    <3> QED
      BY <2>1, <3>1, <3>2, <3>3, <3>5 DEF IdInv, BoundTo
  <2> QED
    BY <1>9, <2>2, <2>3
<1>12. AllocInv' /\ BindInv'
  BY <1>7 DEF AllocInv, BindInv
<1>13. PassInv'
  BY <1>5, <1>7 DEF OpInv, PassInv
<1>14. ASSUME NEW k \in Core PROVE CallerInv(k)'
  <2>1. CASE k = 0
    BY <1>2, <1>6, <1>7, <2>1 DEF CallerInv
  <2>2. CASE k # 0
    <3>1. CallerInv(k) /\ ip'[k] = ip[k] /\ phase'[k] = phase[k]
      BY <1>7, <2>2 DEF OpInv
    <3>2. ASSUME phase[k] = "run", ip[k] \in Calls, NEW e, e = ids[Program[ip[k]].id]
          PROVE  ids'[Program[ip[k]].id] = e /\ lt'[k][e] = lt[k][e]
      <4>1. ip[k] = 5 /\ ip[0] = 6
        BY <1>9, <3>2, Together DEF Calls
      <4>2. Program[ip[k]].id = "NULLId" /\ x = "theId"
        BY <1>9, <4>1, Operands
      <4> QED
        BY <1>6, <1>8, <3>2, <4>2
    <3> QED
      BY <1>6, <3>1, <3>2, CallerKept
  <2> QED
    BY <2>1, <2>2
<1> QED
  BY <1>10, <1>11, <1>12, <1>13, <1>14 DEF OpInv

\* The master ends a bind: no local translation is left from before it.
LEMMA EndBind ==
  ASSUME BarrierInv, OpInv, ip[0] \in Binds, EndOp(0)
  PROVE  OpInv'
<1>1. TypeInv /\ OpType /\ IdInv /\ BindInv /\ 0 \in Core
  BY CoreFacts DEF BarrierInv, OpInv
<1>2. ip[0] \in 1..18 /\ Program[ip[0]].op = "bind" /\ phase[0] = "run" /\ pc[0] = "idle"
  BY Statements DEF Binds, EndOp
<1>3. PICK d \in Id, i \in Inst : /\ d = ids[Program[ip[0]].id]
                                  /\ i = Program[ip[0]].inst /\ InBind(d, i)
  BY <1>1, <1>2 DEF BindInv
<1>4. /\ ids' = ids /\ ip' = [ip EXCEPT ![0] = ip[0] + 1]
      /\ phase' = [phase EXCEPT ![0] = "ready"]
      /\ passed' = passed /\ UNCHANGED vars
  <2>1. passed' = {k \in passed : Program[ip[0]].op = "call" /\ k = 0 =>
                                    Answer(0) = Program[ip[0]].expect}
    BY DEF EndOp
  <2>2. passed' = passed
    BY <1>2, <2>1
  <2> QED
    BY <1>2, <2>2 DEF EndOp, NextStatement
<1>5. /\ allocated' = allocated /\ mf' = mf /\ arg' = arg /\ lt' = lt /\ pc' = pc
      /\ cid' = cid /\ inst' = inst /\ fn' = fn /\ rmf' = rmf /\ rarg' = rarg
      /\ obj' = obj /\ picId' = picId /\ result' = result
  BY <1>4 DEF vars, gVars, callVars
<1>6. /\ ip'[0] = ip[0] + 1 /\ phase'[0] = "ready"
      /\ \A k \in Core \ {0} : ip'[k] = ip[k] /\ phase'[k] = phase[k]
  BY <1>1, <1>4 DEF TypeInv
<1>7. OpType'
  BY <1>1, <1>4, <1>5 DEF OpType
<1>8. BoundTo(d, i)'
  <2>1. \A k \in Core : lt[k][d] = None
    BY <1>2, <1>3 DEF InBind
  <2>2. BoundTo(d, i)
    BY <1>2, <1>3, <2>1 DEF InBind, BoundTo, May
  <2> QED
    BY <1>5, <2>2 DEF BoundTo
<1>9. IdInv'
  <2>1. PICK x, y : x = ids["NULLId"] /\ y = ids["theId"]
    OBVIOUS
  <2>2. ids'["NULLId"] = x /\ ids'["theId"] = y
    BY <1>4, <2>1
  <2>3. ip[0] >= 4 => BoundTo(x, "null")'
    <3>1. ip[0] >= 4 => BoundTo(x, "null")
      BY <1>1, <2>1 DEF IdInv
    <3> QED
      BY <1>5, <3>1 DEF BoundTo
  <2>4. /\ ip[0] = 3 => d = x /\ i = "null"
        /\ ip[0] = 7 => d = y /\ i = "null"
        /\ ip[0] = 11 => d = y /\ i = "s0"
        /\ ip[0] = 15 => d = y /\ i = "s1"
    BY <1>3, <2>1, Operands
  <2>5. ip[0] = 3 \/ ip[0] = 7 \/ ip[0] = 11 \/ ip[0] = 15
    BY DEF Binds
  <2>6. /\ ip'[0] >= 4 => BoundTo(x, "null")'
        /\ ip'[0] \in 8..10 => BoundTo(y, "null")'
        /\ ip'[0] \in 12..14 => BoundTo(y, "s0")'
        /\ ip'[0] >= 16 => BoundTo(y, "s1")'
    BY <1>6, <1>8, <2>3, <2>4, <2>5
  <2>7. /\ \A z \in {"NULLId", "theId"} : ids'[z] # None => ids'[z] \in allocated'
        /\ ids'["NULLId"] # None => ids'["NULLId"] # ids'["theId"]
        /\ ip'[0] <= 6 => ids'["theId"] = None
    BY <1>1, <1>4, <1>5, <1>6, <2>5 DEF IdInv
  <2> QED
    BY <2>2, <2>6, <2>7 DEF IdInv, BoundTo
<1>10. AllocInv' /\ BindInv'
  BY <1>6 DEF AllocInv, BindInv
<1>11. PassInv'
  BY <1>4, <1>6 DEF OpInv, PassInv
<1>12. ASSUME NEW k \in Core PROVE CallerInv(k)'
  <2>1. CASE k = 0
    BY <1>2, <1>5, <1>6, <2>1 DEF CallerInv
  <2>2. CASE k # 0
    <3>1. CallerInv(k) /\ ip'[k] = ip[k] /\ phase'[k] = phase[k]
      BY <1>6, <2>2 DEF OpInv
    <3> QED
      BY <1>4, <1>5, <3>1, CallerKept
  <2> QED
    BY <2>1, <2>2
<1> QED
  BY <1>7, <1>9, <1>10, <1>11, <1>12 DEF OpInv

\* A call ends with the answer that the core expects.
LEMMA EndCall ==
  ASSUME BarrierInv, OpInv, NEW c \in Core, ip[c] \in Calls, EndOp(c)
  PROVE  OpInv'
<1>1. TypeInv /\ phase[c] = "run" /\ pc[c] = "idle"
  BY DEF BarrierInv, EndOp
<1>2. Program[ip[c]].op = "call"
  BY Statements
<1>3. PICK d \in Id, i \in Inst : i = Wanted(ip[c]) /\ InCall(c, d, i)
  BY <1>1 DEF OpInv, CallerInv
<1>4. Answer(c) = Program[ip[c]].expect
  <2>1. Answer(c) = IF i = "null" THEN "EBBRC_NULL" ELSE i
    BY <1>1, <1>3 DEF InCall
  <2>2. ip[c] = 5 \/ ip[c] = 9 \/ ip[c] = 13 \/ ip[c] = 17
    BY DEF Calls
  <2> QED
    BY <1>3, <2>1, <2>2, Operands DEF Wanted
<1>5. passed' = {k \in passed : Program[ip[c]].op = "call" /\ k = c =>
                                  Answer(c) = Program[ip[c]].expect}
  BY DEF EndOp
<1>6. passed' = passed
  BY <1>4, <1>5
<1>7. /\ UNCHANGED <<vars, ids, passed>>
      /\ ip' = [ip EXCEPT ![c] = ip[c] + 1] /\ phase' = [phase EXCEPT ![c] = "ready"]
  BY <1>2, <1>6 DEF EndOp, NextStatement
<1> QED
  BY <1>1, <1>7, PassStep

\* Every end of an operation.
LEMMA EndOpStep ==
  ASSUME BarrierInv, OpInv, NEW c \in Core, EndOp(c)
  PROVE  OpInv'
<1>1. phase[c] = "run"
  BY DEF EndOp
<1>2. ip[c] \in Allocs \/ ip[c] \in Binds \/ ip[c] \in Calls
  BY <1>1 DEF BarrierInv, StartInv
<1>3. c = 0 \/ ip[c] \in Calls
  BY <1>1 DEF OpInv, CallerInv
<1> QED
  BY <1>2, <1>3, EndAlloc, EndBind, EndCall

\* A core that gets its id, the exit and a stutter leave the operations alone.
LEMMA QuietOps ==
  ASSUME OpInv,
         UNCHANGED <<allocated, mf, arg, lt, pc, cid, inst, callVars, picId, result>>,
         UNCHANGED <<ip, phase, ids, passed>>
  PROVE  OpInv'
<1>1. /\ allocated' = allocated /\ mf' = mf /\ arg' = arg /\ lt' = lt /\ pc' = pc
      /\ cid' = cid /\ inst' = inst /\ fn' = fn /\ rmf' = rmf /\ rarg' = rarg
      /\ obj' = obj /\ picId' = picId /\ result' = result
      /\ ip' = ip /\ phase' = phase /\ ids' = ids /\ passed' = passed
  BY DEF callVars
<1>2. OpType'
  BY <1>1 DEF OpInv, OpType
<1>3. IdInv'
  BY <1>1 DEF OpInv, IdInv, BoundTo
<1>4. AllocInv' /\ PassInv'
  BY <1>1 DEF OpInv, AllocInv, PassInv
<1>5. BindInv'
  BY <1>1 DEF OpInv, BindInv, InBind
<1>6. \A k \in Core : CallerInv(k)'
  BY <1>1 DEF OpInv, CallerInv, InCall, Answer
<1> QED
  BY <1>2, <1>3, <1>4, <1>5, <1>6 DEF OpInv

\* Every step keeps the operations whole.
LEMMA OpNext ==
  ASSUME Kinds, BarrierInv, OpInv, [TstNext]_allVars
  PROVE  OpInv'
<1>1. CASE Join
  BY <1>1, QuietOps DEF Join, gVars, tstVars
<1>2. ASSUME NEW c \in Core, CoreStep(c) PROVE OpInv'
  <2>1. CASE Exit
    BY <2>1, QuietOps DEF Exit, vars, gVars
  <2>2. CASE ~Exit
    BY <1>2, <2>2, BarrierSteps, StartOpStep, RunOpStep, EndOpStep DEF CoreStep
  <2> QED
    BY <2>1, <2>2
<1>3. CASE UNCHANGED allVars
  BY <1>3, QuietOps DEF allVars, vars, gVars, tstVars
<1> QED
  BY <1>1, <1>2, <1>3 DEF TstNext

-----------------------------------------------------------------------------
(* The theorems.                                                           *)

\* The sense-reversing barrier of bindtst.c (barrier): no core leaves a barrier that
\* another has not reached, for any number of cores and although the barrier is used
\* again while cores still spin in it.
THEOREM BarrierKeeps == JoinFirst => (TstSpec => []BarrierHolds)
<1> SUFFICES ASSUME JoinFirst PROVE TstSpec => []BarrierHolds
  OBVIOUS
<1>1. TstInit => BarrierInv
  BY BarrierInit
<1>2. BarrierInv /\ [TstNext]_allVars => BarrierInv'
  BY BarrierNext
<1>3. BarrierInv => BarrierHolds
  BY RoundHolds
<1> QED
  BY <1>1, <1>2, <1>3, PTL DEF TstSpec

\* The inductive invariant.
LEMMA BindTstInv == JoinFirst /\ Kinds => (TstSpec => []IInv)
<1> SUFFICES ASSUME JoinFirst, Kinds PROVE TstSpec => []IInv
  OBVIOUS
<1>1. TstInit => IInv
  BY BarrierInit, OpInit DEF IInv
<1>2. IInv /\ [TstNext]_allVars => IInv'
  <2> SUFFICES ASSUME IInv, [TstNext]_allVars PROVE IInv'
    OBVIOUS
  <2>1. BarrierInv /\ OpInv
    BY DEF IInv
  <2>2. BarrierInv'
    BY <2>1, BarrierNext
  <2>3. OpInv'
    BY <2>1, OpNext
  <2> QED
    BY <2>2, <2>3 DEF IInv
<1> QED
  BY <1>1, <1>2, PTL DEF TstSpec

\* Every core's every call in BindTst_start is answered by the instance that the master
\* bound last, and none dereferences an id that is not there.
THEOREM CallsPass == JoinFirst /\ Kinds => (TstSpec => []AllCallsPass)
<1> SUFFICES ASSUME JoinFirst, Kinds PROVE TstSpec => []AllCallsPass
  OBVIOUS
<1>1. IInv => AllCallsPass
  BY DEF IInv, OpInv, PassInv, AllCallsPass
<1> QED
  BY <1>1, BindTstInv, PTL

\* No call of bindtst goes wrong: a miss finds the miss function and the argument of one
\* bind (GenericDefaultFunc reads them one by one, with no lock), and a representative's
\* function is never applied to the default object (the macro dereferences the id twice).
THEOREM CallsStayWhole == JoinFirst /\ Kinds => (TstSpec => []CallsAreWhole)
<1> SUFFICES ASSUME JoinFirst, Kinds PROVE TstSpec => []CallsAreWhole
  OBVIOUS
<1>1. IInv => CallsAreWhole
  BY DEF IInv, OpInv, OpType, CallsAreWhole
<1> QED
  BY <1>1, BindTstInv, PTL

=============================================================================
