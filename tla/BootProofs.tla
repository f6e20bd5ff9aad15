---------------------------- MODULE BootProofs ----------------------------
(***************************************************************************)
(* TLAPS proofs about Boot, for any set of cores, whether they all start   *)
(* the application or one does, and whether or not the compiler reloads    *)
(* the id in a spin loop.  They assume that the other cores start after    *)
(* the first has been through EBBMgrPrimInit (Staggered): BootRace shows   *)
(* what happens otherwise.                                                 *)
(***************************************************************************)
EXTENDS Boot, TLAPS, SequenceTheorems

-----------------------------------------------------------------------------
(* The statements of the program.                                          *)

\* The ids that one compare-and-swap guards each; "msg" is stored by who has "msgEH".
Service == {"mem", "ebb", "evt", "l0", "l1", "msgEH", "app"}

\* The statements of the compare-and-swap and of the wait of a service.
CasAt(x) == CASE x = "mem" -> 1 [] x = "ebb" -> 5 [] x = "evt" -> 9 [] x = "l0" -> 15
              [] x = "l1" -> 22 [] x = "msgEH" -> 28 [] x = "app" -> 40
WaitAt(x) == CASE x = "mem" -> 3 [] x = "ebb" -> 8 [] x = "evt" -> 13 [] x = "l0" -> 19
               [] x = "l1" -> 26 [] x = "msgEH" -> 35 [] x = "app" -> 44

Statement == [op : {"cas", "use", "publish", "wait"}, id : Id]
Cas(x)     == [op |-> "cas", id |-> x]
WaitFor(x) == [op |-> "wait", id |-> x]

\* The statements r are the a statements p and then the b statements q.
Follows(r, p, q, a, b) ==
  /\ r \in Seq(Statement) /\ Len(r) = a + b
  /\ \A n \in 1..a : r[n] = p[n]
  /\ \A n \in 1..b : r[a + n] = q[n]

\* The statements r are those of InitOnce(x, p), where p has k statements.
Creates(r, x, p, k) ==
  /\ r \in Seq(Statement) /\ Len(r) = k + 3
  /\ r[1] = Cas(x) /\ r[k + 2] = Publish(x) /\ r[k + 3] = WaitFor(x)
  /\ \A n \in 1..k : r[n + 1] = p[n]

\* Every statement has an operation and an id.
LEMMA StatementType ==
  ASSUME NEW x \in Id
  PROVE  /\ Cas(x) \in Statement /\ Use(x) \in Statement
         /\ Publish(x) \in Statement /\ WaitFor(x) \in Statement
  BY DEF Cas, Use, Publish, WaitFor, Statement

\* Appending to a program leaves its statements where they are.
LEMMA Appended ==
  ASSUME NEW p \in Seq(Statement), NEW q \in Seq(Statement),
         NEW a \in Nat, NEW b \in Nat, Len(p) = a, Len(q) = b
  PROVE  Follows(p \o q, p, q, a, b)
<1>1. p \o q \in Seq(Statement) /\ Len(p \o q) = a + b
  OBVIOUS
<1>2. \A n \in 1..a : (p \o q)[n] = p[n]
  OBVIOUS
<1>3. \A n \in 1..b : (p \o q)[a + n] = q[n]
  OBVIOUS
<1> QED
  BY <1>1, <1>2, <1>3 DEF Follows

\* What InitOnce makes of the statements that create a service.
LEMMA InitBlock ==
  ASSUME NEW x \in Id, NEW p \in Seq(Statement), NEW k \in Nat, Len(p) = k
  PROVE  Creates(InitOnce(x, p), x, p, k)
<1>s. Cas(x) \in Statement /\ Publish(x) \in Statement /\ WaitFor(x) \in Statement
  BY StatementType
<1>1. PICK f : f = <<Cas(x)>>
  OBVIOUS
<1>2. PICK g : g = <<Publish(x), WaitFor(x)>>
  OBVIOUS
<1>3. f \in Seq(Statement) /\ Len(f) = 1 /\ f[1] = Cas(x)
  BY <1>s, <1>1
<1>4. g \in Seq(Statement) /\ Len(g) = 2 /\ g[1] = Publish(x) /\ g[2] = WaitFor(x)
  BY <1>s, <1>2
<1>5. PICK m : m = f \o p
  OBVIOUS
<1>6. PICK r : r = m \o g
  OBVIOUS
<1>7. r = InitOnce(x, p)
  BY <1>1, <1>2, <1>5, <1>6 DEF InitOnce, Cas, WaitFor
<1>8. Follows(m, f, p, 1, k)
  BY <1>3, <1>5, Appended
<1>l. PICK l \in Nat : l = 1 + k
  OBVIOUS
<1>9. m \in Seq(Statement) /\ Len(m) = l /\ m[1] = Cas(x)
      /\ \A n \in 1..k : m[1 + n] = p[n]
  BY <1>3, <1>8, <1>l DEF Follows
<1>10. Follows(r, m, g, l, 2)
  BY <1>4, <1>6, <1>9, Appended
<1>11. /\ r \in Seq(Statement) /\ Len(r) = k + 3
       /\ \A n \in 1..(1 + k) : r[n] = m[n]
       /\ r[l + 1] = Publish(x) /\ r[l + 2] = WaitFor(x)
  BY <1>4, <1>10, <1>l DEF Follows
<1>12. r[1] = Cas(x)
  BY <1>9, <1>11
<1>13. r[k + 2] = Publish(x) /\ r[k + 3] = WaitFor(x)
  BY <1>11, <1>l
<1>14. \A n \in 1..k : r[n + 1] = p[n]
  BY <1>9, <1>11
<1>15. Creates(r, x, p, k)
  BY <1>11, <1>12, <1>13, <1>14 DEF Creates
<1> QED
  BY <1>7, <1>15

\* The statements that create the message manager's event handler, and the
\* message manager's id with it.
NewMsg == NewEBB \o <<Publish("msg")>> \o NewEBB

\* The ways to create a service.
LEMMA Creations ==
  /\ <<>> \in Seq(Statement) /\ Len(<<>>) = 0
  /\ NewEBB \in Seq(Statement) /\ Len(NewEBB) = 2
  /\ NewEBB[1] = Use("mem") /\ NewEBB[2] = Use("ebb")
  /\ NewMsg \in Seq(Statement) /\ Len(NewMsg) = 5
  /\ NewMsg[1] = Use("mem") /\ NewMsg[2] = Use("ebb") /\ NewMsg[3] = Publish("msg")
  /\ NewMsg[4] = Use("mem") /\ NewMsg[5] = Use("ebb")
<1>s. Use("mem") \in Statement /\ Use("ebb") \in Statement /\ Publish("msg") \in Statement
  BY StatementType DEF Id
<1>1. PICK e : e = <<Use("mem"), Use("ebb")>>
  OBVIOUS
<1>2. e \in Seq(Statement) /\ Len(e) = 2 /\ e[1] = Use("mem") /\ e[2] = Use("ebb")
  BY <1>s, <1>1
<1>3. PICK q : q = <<Publish("msg")>>
  OBVIOUS
<1>4. q \in Seq(Statement) /\ Len(q) = 1 /\ q[1] = Publish("msg")
  BY <1>s, <1>3
<1>5. PICK m : m = e \o q
  OBVIOUS
<1>6. Follows(m, e, q, 2, 1)
  BY <1>2, <1>4, <1>5, Appended
<1>7. m \in Seq(Statement) /\ Len(m) = 3 /\ m[1] = Use("mem") /\ m[2] = Use("ebb")
      /\ m[3] = Publish("msg")
  BY <1>2, <1>4, <1>6 DEF Follows
<1>8. PICK r : r = m \o e
  OBVIOUS
<1>9. Follows(r, m, e, 3, 2)
  BY <1>2, <1>7, <1>8, Appended
<1>10. r \in Seq(Statement) /\ Len(r) = 5 /\ r[1] = Use("mem") /\ r[2] = Use("ebb")
       /\ r[3] = Publish("msg") /\ r[4] = Use("mem") /\ r[5] = Use("ebb")
  BY <1>2, <1>7, <1>9 DEF Follows
<1>11. e = NewEBB /\ r = NewMsg
  BY <1>1, <1>3, <1>5, <1>8 DEF NewEBB, NewMsg
<1>12. <<>> \in Seq(Statement) /\ Len(<<>>) = 0
  OBVIOUS
<1> QED
  BY <1>2, <1>10, <1>11, <1>12

\* The program, statement by statement.
LEMMA Statements ==
  /\ Len(Program) = 45 /\ DOMAIN Program = 1..45
  /\ Program[1] = Cas("mem") /\ Program[2] = Publish("mem") /\ Program[3] = WaitFor("mem")
  /\ Program[4] = Use("mem") /\ Program[5] = Cas("ebb") /\ Program[6] = Use("mem")
  /\ Program[7] = Publish("ebb") /\ Program[8] = WaitFor("ebb") /\ Program[9] = Cas("evt")
  /\ Program[10] = Use("mem") /\ Program[11] = Use("ebb") /\ Program[12] = Publish("evt")
  /\ Program[13] = WaitFor("evt") /\ Program[14] = Use("mem") /\ Program[15] = Cas("l0")
  /\ Program[16] = Use("mem") /\ Program[17] = Use("ebb") /\ Program[18] = Publish("l0")
  /\ Program[19] = WaitFor("l0") /\ Program[20] = Use("l0") /\ Program[21] = Use("evt")
  /\ Program[22] = Cas("l1") /\ Program[23] = Use("mem") /\ Program[24] = Use("ebb")
  /\ Program[25] = Publish("l1") /\ Program[26] = WaitFor("l1") /\ Program[27] = Use("l1")
  /\ Program[28] = Cas("msgEH") /\ Program[29] = Use("mem") /\ Program[30] = Use("ebb")
  /\ Program[31] = Publish("msg") /\ Program[32] = Use("mem") /\ Program[33] = Use("ebb")
  /\ Program[34] = Publish("msgEH") /\ Program[35] = WaitFor("msgEH")
  /\ Program[36] = Use("mem") /\ Program[37] = Use("evt") /\ Program[38] = Use("ebb")
  /\ Program[39] = Use("msg") /\ Program[40] = Cas("app") /\ Program[41] = Use("mem")
  /\ Program[42] = Use("ebb") /\ Program[43] = Publish("app")
  /\ Program[44] = WaitFor("app") /\ Program[45] = Use("app")
<1> DEFINE p1 == InitOnce("mem", <<>>)
           p2 == p1 \o <<Use("mem")>>
           p3 == p2 \o InitOnce("ebb", <<Use("mem")>>)
           p4 == p3 \o InitOnce("evt", NewEBB)
           p5 == p4 \o <<Use("mem")>>
           p6 == p5 \o InitOnce("l0", NewEBB)
           p7 == p6 \o <<Use("l0"), Use("evt")>>
           p8 == p7 \o InitOnce("l1", NewEBB)
           p9 == p8 \o <<Use("l1")>>
           p10 == p9 \o InitOnce("msgEH", NewMsg)
           p11 == p10 \o <<Use("mem"), Use("evt"), Use("ebb"), Use("msg")>>
           p12 == p11 \o InitOnce("app", NewEBB)
           p13 == p12 \o <<Use("app")>>
<1>0. Program = p13
  BY DEF Program, NewMsg
<1>d2. p2 = p1 \o <<Use("mem")>>
  OBVIOUS
<1>d3. p3 = p2 \o InitOnce("ebb", <<Use("mem")>>)
  OBVIOUS
<1>d4. p4 = p3 \o InitOnce("evt", NewEBB)
  OBVIOUS
<1>d5. p5 = p4 \o <<Use("mem")>>
  OBVIOUS
<1>d6. p6 = p5 \o InitOnce("l0", NewEBB)
  OBVIOUS
<1>d7. p7 = p6 \o <<Use("l0"), Use("evt")>>
  OBVIOUS
<1>d8. p8 = p7 \o InitOnce("l1", NewEBB)
  OBVIOUS
<1>d9. p9 = p8 \o <<Use("l1")>>
  OBVIOUS
<1>d10. p10 = p9 \o InitOnce("msgEH", NewMsg)
  OBVIOUS
<1>d11. p11 = p10 \o <<Use("mem"), Use("evt"), Use("ebb"), Use("msg")>>
  OBVIOUS
<1>d12. p12 = p11 \o InitOnce("app", NewEBB)
  OBVIOUS
<1>d13. p13 = p12 \o <<Use("app")>>
  OBVIOUS
<1>d1. p1 = InitOnce("mem", <<>>)
  OBVIOUS
<1> HIDE DEF p1, p2, p3, p4, p5, p6, p7, p8, p9, p10, p11, p12, p13
<1>s. \A x \in Id : Use(x) \in Statement
  BY StatementType
<1>1. /\ p1 \in Seq(Statement) /\ Len(p1) = 3
      /\ p1[1] = Cas("mem") /\ p1[2] = Publish("mem") /\ p1[3] = WaitFor("mem")
  <2>1. PICK q : q = InitOnce("mem", <<>>)
    OBVIOUS
  <2>3. Creates(q, "mem", <<>>, 0)
    BY <2>1, Creations, InitBlock DEF Id
  <2>2. /\ q \in Seq(Statement) /\ Len(q) = 3
        /\ q[1] = Cas("mem") /\ q[2] = Publish("mem") /\ q[3] = WaitFor("mem")
    BY <2>3, Creations DEF Creates
  <2> QED
    BY <1>d1, <2>1, <2>2
<1>2. /\ p2 \in Seq(Statement) /\ Len(p2) = 4
      /\ \A n \in 1..3 : p2[n] = p1[n]
      /\ p2[4] = Use("mem")
  <2>1. PICK q : q = <<Use("mem")>>
    OBVIOUS
  <2>2. /\ q \in Seq(Statement) /\ Len(q) = 1
        /\ q[1] = Use("mem")
    BY <1>s, <2>1 DEF Id
  <2>4. Follows(p2, p1, q, 3, 1)
    BY <1>d2, <1>1, <2>1, <2>2, Appended
  <2> QED
    BY <2>2, <2>4 DEF Follows
<1>3. /\ p3 \in Seq(Statement) /\ Len(p3) = 8
      /\ \A n \in 1..4 : p3[n] = p2[n]
      /\ p3[5] = Cas("ebb") /\ p3[6] = Use("mem") /\ p3[7] = Publish("ebb")
      /\ p3[8] = WaitFor("ebb")
  <2>1. PICK q : q = InitOnce("ebb", <<Use("mem")>>)
    OBVIOUS
  <2>c. PICK e : e = <<Use("mem")>>
    OBVIOUS
  <2>e. e \in Seq(Statement) /\ Len(e) = 1 /\ e[1] = Use("mem")
    BY <1>s, <2>c DEF Id
  <2>3. Creates(q, "ebb", e, 1)
    BY <2>1, <2>c, <2>e, InitBlock DEF Id
  <2>2. /\ q \in Seq(Statement) /\ Len(q) = 4
        /\ q[1] = Cas("ebb") /\ q[2] = Use("mem") /\ q[3] = Publish("ebb")
        /\ q[4] = WaitFor("ebb")
    BY <2>3, <2>e DEF Creates
  <2>4. Follows(p3, p2, q, 4, 4)
    BY <1>d3, <1>2, <2>1, <2>2, Appended
  <2> QED
    BY <2>2, <2>4 DEF Follows
<1>4. /\ p4 \in Seq(Statement) /\ Len(p4) = 13
      /\ \A n \in 1..8 : p4[n] = p3[n]
      /\ p4[9] = Cas("evt") /\ p4[10] = Use("mem") /\ p4[11] = Use("ebb")
      /\ p4[12] = Publish("evt") /\ p4[13] = WaitFor("evt")
  <2>1. PICK q : q = InitOnce("evt", NewEBB)
    OBVIOUS
  <2>3. Creates(q, "evt", NewEBB, 2)
    BY <2>1, Creations, InitBlock DEF Id
  <2>2. /\ q \in Seq(Statement) /\ Len(q) = 5
        /\ q[1] = Cas("evt") /\ q[2] = Use("mem") /\ q[3] = Use("ebb")
        /\ q[4] = Publish("evt") /\ q[5] = WaitFor("evt")
    BY <2>3, Creations DEF Creates
  <2>4. Follows(p4, p3, q, 8, 5)
    BY <1>d4, <1>3, <2>1, <2>2, Appended
  <2> QED
    BY <2>2, <2>4 DEF Follows
<1>5. /\ p5 \in Seq(Statement) /\ Len(p5) = 14
      /\ \A n \in 1..13 : p5[n] = p4[n]
      /\ p5[14] = Use("mem")
  <2>1. PICK q : q = <<Use("mem")>>
    OBVIOUS
  <2>2. /\ q \in Seq(Statement) /\ Len(q) = 1
        /\ q[1] = Use("mem")
    BY <1>s, <2>1 DEF Id
  <2>4. Follows(p5, p4, q, 13, 1)
    BY <1>d5, <1>4, <2>1, <2>2, Appended
  <2> QED
    BY <2>2, <2>4 DEF Follows
<1>6. /\ p6 \in Seq(Statement) /\ Len(p6) = 19
      /\ \A n \in 1..14 : p6[n] = p5[n]
      /\ p6[15] = Cas("l0") /\ p6[16] = Use("mem") /\ p6[17] = Use("ebb")
      /\ p6[18] = Publish("l0") /\ p6[19] = WaitFor("l0")
  <2>1. PICK q : q = InitOnce("l0", NewEBB)
    OBVIOUS
  <2>3. Creates(q, "l0", NewEBB, 2)
    BY <2>1, Creations, InitBlock DEF Id
  <2>2. /\ q \in Seq(Statement) /\ Len(q) = 5
        /\ q[1] = Cas("l0") /\ q[2] = Use("mem") /\ q[3] = Use("ebb")
        /\ q[4] = Publish("l0") /\ q[5] = WaitFor("l0")
    BY <2>3, Creations DEF Creates
  <2>4. Follows(p6, p5, q, 14, 5)
    BY <1>d6, <1>5, <2>1, <2>2, Appended
  <2> QED
    BY <2>2, <2>4 DEF Follows
<1>7. /\ p7 \in Seq(Statement) /\ Len(p7) = 21
      /\ \A n \in 1..19 : p7[n] = p6[n]
      /\ p7[20] = Use("l0") /\ p7[21] = Use("evt")
  <2>1. PICK q : q = <<Use("l0"), Use("evt")>>
    OBVIOUS
  <2>2. /\ q \in Seq(Statement) /\ Len(q) = 2
        /\ q[1] = Use("l0") /\ q[2] = Use("evt")
    BY <1>s, <2>1 DEF Id
  <2>4. Follows(p7, p6, q, 19, 2)
    BY <1>d7, <1>6, <2>1, <2>2, Appended
  <2> QED
    BY <2>2, <2>4 DEF Follows
<1>8. /\ p8 \in Seq(Statement) /\ Len(p8) = 26
      /\ \A n \in 1..21 : p8[n] = p7[n]
      /\ p8[22] = Cas("l1") /\ p8[23] = Use("mem") /\ p8[24] = Use("ebb")
      /\ p8[25] = Publish("l1") /\ p8[26] = WaitFor("l1")
  <2>1. PICK q : q = InitOnce("l1", NewEBB)
    OBVIOUS
  <2>3. Creates(q, "l1", NewEBB, 2)
    BY <2>1, Creations, InitBlock DEF Id
  <2>2. /\ q \in Seq(Statement) /\ Len(q) = 5
        /\ q[1] = Cas("l1") /\ q[2] = Use("mem") /\ q[3] = Use("ebb")
        /\ q[4] = Publish("l1") /\ q[5] = WaitFor("l1")
    BY <2>3, Creations DEF Creates
  <2>4. Follows(p8, p7, q, 21, 5)
    BY <1>d8, <1>7, <2>1, <2>2, Appended
  <2> QED
    BY <2>2, <2>4 DEF Follows
<1>9. /\ p9 \in Seq(Statement) /\ Len(p9) = 27
      /\ \A n \in 1..26 : p9[n] = p8[n]
      /\ p9[27] = Use("l1")
  <2>1. PICK q : q = <<Use("l1")>>
    OBVIOUS
  <2>2. /\ q \in Seq(Statement) /\ Len(q) = 1
        /\ q[1] = Use("l1")
    BY <1>s, <2>1 DEF Id
  <2>4. Follows(p9, p8, q, 26, 1)
    BY <1>d9, <1>8, <2>1, <2>2, Appended
  <2> QED
    BY <2>2, <2>4 DEF Follows
<1>10. /\ p10 \in Seq(Statement) /\ Len(p10) = 35
      /\ \A n \in 1..27 : p10[n] = p9[n]
      /\ p10[28] = Cas("msgEH") /\ p10[29] = Use("mem") /\ p10[30] = Use("ebb")
      /\ p10[31] = Publish("msg") /\ p10[32] = Use("mem") /\ p10[33] = Use("ebb")
      /\ p10[34] = Publish("msgEH") /\ p10[35] = WaitFor("msgEH")
  <2>1. PICK q : q = InitOnce("msgEH", NewMsg)
    OBVIOUS
  <2>3. Creates(q, "msgEH", NewMsg, 5)
    BY <2>1, Creations, InitBlock DEF Id
  <2>2. /\ q \in Seq(Statement) /\ Len(q) = 8
        /\ q[1] = Cas("msgEH") /\ q[2] = Use("mem") /\ q[3] = Use("ebb")
        /\ q[4] = Publish("msg") /\ q[5] = Use("mem") /\ q[6] = Use("ebb")
        /\ q[7] = Publish("msgEH") /\ q[8] = WaitFor("msgEH")
    BY <2>3, Creations DEF Creates
  <2>4. Follows(p10, p9, q, 27, 8)
    BY <1>d10, <1>9, <2>1, <2>2, Appended
  <2> QED
    BY <2>2, <2>4 DEF Follows
<1>11. /\ p11 \in Seq(Statement) /\ Len(p11) = 39
      /\ \A n \in 1..35 : p11[n] = p10[n]
      /\ p11[36] = Use("mem") /\ p11[37] = Use("evt") /\ p11[38] = Use("ebb")
      /\ p11[39] = Use("msg")
  <2>1. PICK q : q = <<Use("mem"), Use("evt"), Use("ebb"), Use("msg")>>
    OBVIOUS
  <2>2. /\ q \in Seq(Statement) /\ Len(q) = 4
        /\ q[1] = Use("mem") /\ q[2] = Use("evt") /\ q[3] = Use("ebb") /\ q[4] = Use("msg")
    BY <1>s, <2>1 DEF Id
  <2>4. Follows(p11, p10, q, 35, 4)
    BY <1>d11, <1>10, <2>1, <2>2, Appended
  <2> QED
    BY <2>2, <2>4 DEF Follows
<1>12. /\ p12 \in Seq(Statement) /\ Len(p12) = 44
      /\ \A n \in 1..39 : p12[n] = p11[n]
      /\ p12[40] = Cas("app") /\ p12[41] = Use("mem") /\ p12[42] = Use("ebb")
      /\ p12[43] = Publish("app") /\ p12[44] = WaitFor("app")
  <2>1. PICK q : q = InitOnce("app", NewEBB)
    OBVIOUS
  <2>3. Creates(q, "app", NewEBB, 2)
    BY <2>1, Creations, InitBlock DEF Id
  <2>2. /\ q \in Seq(Statement) /\ Len(q) = 5
        /\ q[1] = Cas("app") /\ q[2] = Use("mem") /\ q[3] = Use("ebb")
        /\ q[4] = Publish("app") /\ q[5] = WaitFor("app")
    BY <2>3, Creations DEF Creates
  <2>4. Follows(p12, p11, q, 39, 5)
    BY <1>d12, <1>11, <2>1, <2>2, Appended
  <2> QED
    BY <2>2, <2>4 DEF Follows
<1>13. /\ p13 \in Seq(Statement) /\ Len(p13) = 45
      /\ \A n \in 1..44 : p13[n] = p12[n]
      /\ p13[45] = Use("app")
  <2>1. PICK q : q = <<Use("app")>>
    OBVIOUS
  <2>2. /\ q \in Seq(Statement) /\ Len(q) = 1
        /\ q[1] = Use("app")
    BY <1>s, <2>1 DEF Id
  <2>4. Follows(p13, p12, q, 44, 1)
    BY <1>d13, <1>12, <2>1, <2>2, Appended
  <2> QED
    BY <2>2, <2>4 DEF Follows
<1> QED
  BY <1>0, <1>1, <1>2, <1>3, <1>4, <1>5, <1>6, <1>7, <1>8, <1>9, <1>10, <1>11, <1>12, <1>13

-----------------------------------------------------------------------------
(* What each statement needs.                                              *)

\* Where each operation stands in the program.
LEMMA Where ==
  ASSUME NEW n \in 1..45
  PROVE  /\ Program[n].op = "cas" <=> n \in {1, 5, 9, 15, 22, 28, 40}
         /\ Program[n].op = "use" <=> n \in {4, 6, 10, 11, 14, 16, 17, 20, 21, 23, 24,
                                               27, 29, 30, 32, 33, 36, 37, 38, 39, 41, 42, 45}
         /\ Program[n].op = "publish" <=> n \in {2, 7, 12, 18, 25, 31, 34, 43}
         /\ Program[n].op = "wait" <=> n \in {3, 8, 13, 19, 26, 35, 44}
<1>1. n = 1 => Program[n].op = "cas"
  BY Statements DEF Cas
<1>2. n = 2 => Program[n].op = "publish"
  BY Statements DEF Publish
<1>3. n = 3 => Program[n].op = "wait"
  BY Statements DEF WaitFor
<1>4. n = 4 => Program[n].op = "use"
  BY Statements DEF Use
<1>5. n = 5 => Program[n].op = "cas"
  BY Statements DEF Cas
<1>6. n = 6 => Program[n].op = "use"
  BY Statements DEF Use
<1>7. n = 7 => Program[n].op = "publish"
  BY Statements DEF Publish
<1>8. n = 8 => Program[n].op = "wait"
  BY Statements DEF WaitFor
<1>9. n = 9 => Program[n].op = "cas"
  BY Statements DEF Cas
<1>10. n = 10 => Program[n].op = "use"
  BY Statements DEF Use
<1>11. n = 11 => Program[n].op = "use"
  BY Statements DEF Use
<1>12. n = 12 => Program[n].op = "publish"
  BY Statements DEF Publish
<1>13. n = 13 => Program[n].op = "wait"
  BY Statements DEF WaitFor
<1>14. n = 14 => Program[n].op = "use"
  BY Statements DEF Use
<1>15. n = 15 => Program[n].op = "cas"
  BY Statements DEF Cas
<1>16. n = 16 => Program[n].op = "use"
  BY Statements DEF Use
<1>17. n = 17 => Program[n].op = "use"
  BY Statements DEF Use
<1>18. n = 18 => Program[n].op = "publish"
  BY Statements DEF Publish
<1>19. n = 19 => Program[n].op = "wait"
  BY Statements DEF WaitFor
<1>20. n = 20 => Program[n].op = "use"
  BY Statements DEF Use
<1>21. n = 21 => Program[n].op = "use"
  BY Statements DEF Use
<1>22. n = 22 => Program[n].op = "cas"
  BY Statements DEF Cas
<1>23. n = 23 => Program[n].op = "use"
  BY Statements DEF Use
<1>24. n = 24 => Program[n].op = "use"
  BY Statements DEF Use
<1>25. n = 25 => Program[n].op = "publish"
  BY Statements DEF Publish
<1>26. n = 26 => Program[n].op = "wait"
  BY Statements DEF WaitFor
<1>27. n = 27 => Program[n].op = "use"
  BY Statements DEF Use
<1>28. n = 28 => Program[n].op = "cas"
  BY Statements DEF Cas
<1>29. n = 29 => Program[n].op = "use"
  BY Statements DEF Use
<1>30. n = 30 => Program[n].op = "use"
  BY Statements DEF Use
<1>31. n = 31 => Program[n].op = "publish"
  BY Statements DEF Publish
<1>32. n = 32 => Program[n].op = "use"
  BY Statements DEF Use
<1>33. n = 33 => Program[n].op = "use"
  BY Statements DEF Use
<1>34. n = 34 => Program[n].op = "publish"
  BY Statements DEF Publish
<1>35. n = 35 => Program[n].op = "wait"
  BY Statements DEF WaitFor
<1>36. n = 36 => Program[n].op = "use"
  BY Statements DEF Use
<1>37. n = 37 => Program[n].op = "use"
  BY Statements DEF Use
<1>38. n = 38 => Program[n].op = "use"
  BY Statements DEF Use
<1>39. n = 39 => Program[n].op = "use"
  BY Statements DEF Use
<1>40. n = 40 => Program[n].op = "cas"
  BY Statements DEF Cas
<1>41. n = 41 => Program[n].op = "use"
  BY Statements DEF Use
<1>42. n = 42 => Program[n].op = "use"
  BY Statements DEF Use
<1>43. n = 43 => Program[n].op = "publish"
  BY Statements DEF Publish
<1>44. n = 44 => Program[n].op = "wait"
  BY Statements DEF WaitFor
<1>45. n = 45 => Program[n].op = "use"
  BY Statements DEF Use
<1> QED
  BY <1>1, <1>2, <1>3, <1>4, <1>5, <1>6, <1>7, <1>8, <1>9, <1>10, <1>11, <1>12, <1>13, <1>14,
     <1>15, <1>16, <1>17, <1>18, <1>19, <1>20, <1>21, <1>22, <1>23, <1>24, <1>25, <1>26, <1>27, <1>28,
     <1>29, <1>30, <1>31, <1>32, <1>33, <1>34, <1>35, <1>36, <1>37, <1>38, <1>39, <1>40, <1>41,
     <1>42, <1>43, <1>44, <1>45

\* Where the compare-and-swap and the wait of each service stand.
LEMMA Places ==
  /\ CasAt("mem") = 1 /\ CasAt("ebb") = 5 /\ CasAt("evt") = 9 /\ CasAt("l0") = 15
  /\ CasAt("l1") = 22 /\ CasAt("msgEH") = 28 /\ CasAt("app") = 40
  /\ WaitAt("mem") = 3 /\ WaitAt("ebb") = 8 /\ WaitAt("evt") = 13 /\ WaitAt("l0") = 19
  /\ WaitAt("l1") = 26 /\ WaitAt("msgEH") = 35 /\ WaitAt("app") = 44
<1>1. CasAt("mem") = 1 /\ WaitAt("mem") = 3
  BY DEF CasAt, WaitAt
<1>2. CasAt("ebb") = 5 /\ WaitAt("ebb") = 8
  BY DEF CasAt, WaitAt
<1>3. CasAt("evt") = 9 /\ WaitAt("evt") = 13
  BY DEF CasAt, WaitAt
<1>4. CasAt("l0") = 15 /\ WaitAt("l0") = 19
  BY DEF CasAt, WaitAt
<1>5. CasAt("l1") = 22 /\ WaitAt("l1") = 26
  BY DEF CasAt, WaitAt
<1>6. CasAt("msgEH") = 28 /\ WaitAt("msgEH") = 35
  BY DEF CasAt, WaitAt
<1>7. CasAt("app") = 40 /\ WaitAt("app") = 44
  BY DEF CasAt, WaitAt
<1> QED
  BY <1>1, <1>2, <1>3, <1>4, <1>5, <1>6, <1>7

\* The statements of one service stand together: those of another are all before or after.
LEMMA Apart ==
  ASSUME NEW x \in Service
  PROVE  /\ CasAt(x) \in {1, 5, 9, 15, 22, 28, 40} /\ WaitAt(x) \in {3, 8, 13, 19, 26, 35, 44}
         /\ CasAt(x) + 2 <= WaitAt(x)
         /\ \A y \in Service : x # y => /\ CasAt(x) # CasAt(y) /\ WaitAt(x) # WaitAt(y)
                                        /\ CasAt(y) < WaitAt(x) => CasAt(y) < CasAt(x)
                                        /\ WaitAt(y) < WaitAt(x) => WaitAt(y) < CasAt(x)
  BY Places DEF Service

\* A compare-and-swap is on the id of a service, and at its place.
LEMMA CasMeans ==
  ASSUME NEW n \in 1..45, Program[n].op = "cas"
  PROVE  Program[n].id \in Service /\ n = CasAt(Program[n].id)
<1>1. CASE n = 1
  <2>1. Program[n].id = "mem"
    BY <1>1, Statements DEF Cas
  <2> QED
    BY <1>1, <2>1, Places DEF Service
<1>2. CASE n = 5
  <2>1. Program[n].id = "ebb"
    BY <1>2, Statements DEF Cas
  <2> QED
    BY <1>2, <2>1, Places DEF Service
<1>3. CASE n = 9
  <2>1. Program[n].id = "evt"
    BY <1>3, Statements DEF Cas
  <2> QED
    BY <1>3, <2>1, Places DEF Service
<1>4. CASE n = 15
  <2>1. Program[n].id = "l0"
    BY <1>4, Statements DEF Cas
  <2> QED
    BY <1>4, <2>1, Places DEF Service
<1>5. CASE n = 22
  <2>1. Program[n].id = "l1"
    BY <1>5, Statements DEF Cas
  <2> QED
    BY <1>5, <2>1, Places DEF Service
<1>6. CASE n = 28
  <2>1. Program[n].id = "msgEH"
    BY <1>6, Statements DEF Cas
  <2> QED
    BY <1>6, <2>1, Places DEF Service
<1>7. CASE n = 40
  <2>1. Program[n].id = "app"
    BY <1>7, Statements DEF Cas
  <2> QED
    BY <1>7, <2>1, Places DEF Service
<1> QED
  BY Where, <1>1, <1>2, <1>3, <1>4, <1>5, <1>6, <1>7

\* A wait is for a service, and at its place.
LEMMA WaitMeans ==
  ASSUME NEW n \in 1..45, Program[n].op = "wait"
  PROVE  Program[n].id \in Service /\ n = WaitAt(Program[n].id)
<1>1. CASE n = 3
  <2>1. Program[n].id = "mem"
    BY <1>1, Statements DEF WaitFor
  <2> QED
    BY <1>1, <2>1, Places DEF Service
<1>2. CASE n = 8
  <2>1. Program[n].id = "ebb"
    BY <1>2, Statements DEF WaitFor
  <2> QED
    BY <1>2, <2>1, Places DEF Service
<1>3. CASE n = 13
  <2>1. Program[n].id = "evt"
    BY <1>3, Statements DEF WaitFor
  <2> QED
    BY <1>3, <2>1, Places DEF Service
<1>4. CASE n = 19
  <2>1. Program[n].id = "l0"
    BY <1>4, Statements DEF WaitFor
  <2> QED
    BY <1>4, <2>1, Places DEF Service
<1>5. CASE n = 26
  <2>1. Program[n].id = "l1"
    BY <1>5, Statements DEF WaitFor
  <2> QED
    BY <1>5, <2>1, Places DEF Service
<1>6. CASE n = 35
  <2>1. Program[n].id = "msgEH"
    BY <1>6, Statements DEF WaitFor
  <2> QED
    BY <1>6, <2>1, Places DEF Service
<1>7. CASE n = 44
  <2>1. Program[n].id = "app"
    BY <1>7, Statements DEF WaitFor
  <2> QED
    BY <1>7, <2>1, Places DEF Service
<1> QED
  BY Where, <1>1, <1>2, <1>3, <1>4, <1>5, <1>6, <1>7

\* A call is through the id of a service whose wait is behind, or through the
\* message manager's, behind the wait for its event handler.
LEMMA UseMeans ==
  ASSUME NEW n \in 1..45, Program[n].op = "use"
  PROVE  \/ Program[n].id \in Service /\ n > WaitAt(Program[n].id)
         \/ Program[n].id = "msg" /\ n > WaitAt("msgEH")
<1>1. CASE n = 4
  <2>1. Program[n].id = "mem"
    BY <1>1, Statements DEF Use
  <2> QED
    BY <1>1, <2>1, Places DEF Service
<1>2. CASE n = 6
  <2>1. Program[n].id = "mem"
    BY <1>2, Statements DEF Use
  <2> QED
    BY <1>2, <2>1, Places DEF Service
<1>3. CASE n = 10
  <2>1. Program[n].id = "mem"
    BY <1>3, Statements DEF Use
  <2> QED
    BY <1>3, <2>1, Places DEF Service
<1>4. CASE n = 11
  <2>1. Program[n].id = "ebb"
    BY <1>4, Statements DEF Use
  <2> QED
    BY <1>4, <2>1, Places DEF Service
<1>5. CASE n = 14
  <2>1. Program[n].id = "mem"
    BY <1>5, Statements DEF Use
  <2> QED
    BY <1>5, <2>1, Places DEF Service
<1>6. CASE n = 16
  <2>1. Program[n].id = "mem"
    BY <1>6, Statements DEF Use
  <2> QED
    BY <1>6, <2>1, Places DEF Service
<1>7. CASE n = 17
  <2>1. Program[n].id = "ebb"
    BY <1>7, Statements DEF Use
  <2> QED
    BY <1>7, <2>1, Places DEF Service
<1>8. CASE n = 20
  <2>1. Program[n].id = "l0"
    BY <1>8, Statements DEF Use
  <2> QED
    BY <1>8, <2>1, Places DEF Service
<1>9. CASE n = 21
  <2>1. Program[n].id = "evt"
    BY <1>9, Statements DEF Use
  <2> QED
    BY <1>9, <2>1, Places DEF Service
<1>10. CASE n = 23
  <2>1. Program[n].id = "mem"
    BY <1>10, Statements DEF Use
  <2> QED
    BY <1>10, <2>1, Places DEF Service
<1>11. CASE n = 24
  <2>1. Program[n].id = "ebb"
    BY <1>11, Statements DEF Use
  <2> QED
    BY <1>11, <2>1, Places DEF Service
<1>12. CASE n = 27
  <2>1. Program[n].id = "l1"
    BY <1>12, Statements DEF Use
  <2> QED
    BY <1>12, <2>1, Places DEF Service
<1>13. CASE n = 29
  <2>1. Program[n].id = "mem"
    BY <1>13, Statements DEF Use
  <2> QED
    BY <1>13, <2>1, Places DEF Service
<1>14. CASE n = 30
  <2>1. Program[n].id = "ebb"
    BY <1>14, Statements DEF Use
  <2> QED
    BY <1>14, <2>1, Places DEF Service
<1>15. CASE n = 32
  <2>1. Program[n].id = "mem"
    BY <1>15, Statements DEF Use
  <2> QED
    BY <1>15, <2>1, Places DEF Service
<1>16. CASE n = 33
  <2>1. Program[n].id = "ebb"
    BY <1>16, Statements DEF Use
  <2> QED
    BY <1>16, <2>1, Places DEF Service
<1>17. CASE n = 36
  <2>1. Program[n].id = "mem"
    BY <1>17, Statements DEF Use
  <2> QED
    BY <1>17, <2>1, Places DEF Service
<1>18. CASE n = 37
  <2>1. Program[n].id = "evt"
    BY <1>18, Statements DEF Use
  <2> QED
    BY <1>18, <2>1, Places DEF Service
<1>19. CASE n = 38
  <2>1. Program[n].id = "ebb"
    BY <1>19, Statements DEF Use
  <2> QED
    BY <1>19, <2>1, Places DEF Service
<1>20. CASE n = 39
  <2>1. Program[n].id = "msg"
    BY <1>20, Statements DEF Use
  <2> QED
    BY <1>20, <2>1, Places DEF Service
<1>21. CASE n = 41
  <2>1. Program[n].id = "mem"
    BY <1>21, Statements DEF Use
  <2> QED
    BY <1>21, <2>1, Places DEF Service
<1>22. CASE n = 42
  <2>1. Program[n].id = "ebb"
    BY <1>22, Statements DEF Use
  <2> QED
    BY <1>22, <2>1, Places DEF Service
<1>23. CASE n = 45
  <2>1. Program[n].id = "app"
    BY <1>23, Statements DEF Use
  <2> QED
    BY <1>23, <2>1, Places DEF Service
<1> QED
  BY Where, <1>1, <1>2, <1>3, <1>4, <1>5, <1>6, <1>7, <1>8, <1>9, <1>10, <1>11, <1>12,
     <1>13, <1>14, <1>15, <1>16, <1>17, <1>18, <1>19, <1>20, <1>21, <1>22, <1>23

\* An id is stored just before the wait for it, the message manager's while the
\* event handler's is made.
LEMMA PublishMeans ==
  ASSUME NEW n \in 1..45, Program[n].op = "publish"
  PROVE  \/ /\ Program[n].id \in Service /\ n + 1 = WaitAt(Program[n].id)
            /\ Program[n + 1].op = "wait"
         \/ Program[n].id = "msg" /\ n = 31 /\ Program[n + 1].op # "wait"
<1>1. CASE n = 2
  <2>1. Program[n].id = "mem"
    BY <1>1, Statements DEF Publish
  <2>2. n + 1 = 3 /\ Program[n + 1].op = "wait"
    BY <1>1, Statements DEF WaitFor
  <2> QED
    BY <1>1, <2>1, <2>2, Places DEF Service
<1>2. CASE n = 7
  <2>1. Program[n].id = "ebb"
    BY <1>2, Statements DEF Publish
  <2>2. n + 1 = 8 /\ Program[n + 1].op = "wait"
    BY <1>2, Statements DEF WaitFor
  <2> QED
    BY <1>2, <2>1, <2>2, Places DEF Service
<1>3. CASE n = 12
  <2>1. Program[n].id = "evt"
    BY <1>3, Statements DEF Publish
  <2>2. n + 1 = 13 /\ Program[n + 1].op = "wait"
    BY <1>3, Statements DEF WaitFor
  <2> QED
    BY <1>3, <2>1, <2>2, Places DEF Service
<1>4. CASE n = 18
  <2>1. Program[n].id = "l0"
    BY <1>4, Statements DEF Publish
  <2>2. n + 1 = 19 /\ Program[n + 1].op = "wait"
    BY <1>4, Statements DEF WaitFor
  <2> QED
    BY <1>4, <2>1, <2>2, Places DEF Service
<1>5. CASE n = 25
  <2>1. Program[n].id = "l1"
    BY <1>5, Statements DEF Publish
  <2>2. n + 1 = 26 /\ Program[n + 1].op = "wait"
    BY <1>5, Statements DEF WaitFor
  <2> QED
    BY <1>5, <2>1, <2>2, Places DEF Service
<1>6. CASE n = 31
  <2>1. Program[n].id = "msg"
    BY <1>6, Statements DEF Publish
  <2>2. n + 1 = 32 /\ Program[n + 1].op # "wait"
    BY <1>6, Statements DEF Use
  <2> QED
    BY <1>6, <2>1, <2>2, Places DEF Service
<1>7. CASE n = 34
  <2>1. Program[n].id = "msgEH"
    BY <1>7, Statements DEF Publish
  <2>2. n + 1 = 35 /\ Program[n + 1].op = "wait"
    BY <1>7, Statements DEF WaitFor
  <2> QED
    BY <1>7, <2>1, <2>2, Places DEF Service
<1>8. CASE n = 43
  <2>1. Program[n].id = "app"
    BY <1>8, Statements DEF Publish
  <2>2. n + 1 = 44 /\ Program[n + 1].op = "wait"
    BY <1>8, Statements DEF WaitFor
  <2> QED
    BY <1>8, <2>1, <2>2, Places DEF Service
<1> QED
  BY Where, <1>1, <1>2, <1>3, <1>4, <1>5, <1>6, <1>7, <1>8

\* The wait that the loser of a compare-and-swap goes to.
LEMMA WaitIndexIs ==
  ASSUME NEW x \in Service
  PROVE  WaitIndex(x) = WaitAt(x)
<1>1. WaitAt(x) \in 1..45
  BY Apart
<1>2. Program[WaitAt(x)] = WaitFor(x)
  BY Statements, Places DEF Service
<1>3. \A n \in 1..45 : Program[n] = WaitFor(x) => n = WaitAt(x)
  <2>1. TAKE n \in 1..45
  <2>2. HAVE Program[n] = WaitFor(x)
  <2>3. Program[n].op = "wait" /\ Program[n].id = x
    BY <2>2 DEF WaitFor
  <2> QED
    BY <2>3, WaitMeans
<1>4. \A n \in DOMAIN Program :
        Program[n] = [op |-> "wait", id |-> x] <=> n = WaitAt(x)
  BY <1>2, <1>3, Statements DEF WaitFor
<1>5. WaitAt(x) \in DOMAIN Program
  BY <1>1, Statements
<1> QED
  BY <1>4, <1>5 DEF WaitIndex

\* A core that is not done stands at one of the 45 statements.
LEMMA NotDone ==
  ASSUME NEW c \in Core, ~Done(c), ip[c] \in 1..46
  PROVE  ip[c] \in 1..45
<1>1. LastStatement(c) \in {37, 45}
  BY Statements, WaitIndexIs, Places DEF LastStatement, Service
<1> QED
  BY <1>1 DEF Done

-----------------------------------------------------------------------------
(* The inductive invariant.                                                *)

TypeInv ==
  /\ id \in [Id -> {"0", "-1", "set"}]
  /\ ip \in [Core -> 1..46]
  /\ crashed = {}

\* Whoever is past a compare-and-swap finds the id taken, whoever is past the
\* wait for it finds it stored.
PastInv ==
  \A c \in Core, x \in Service :
    /\ ip[c] > CasAt(x) => id[x] # "0"
    /\ ip[c] > WaitAt(x) => id[x] = "set"

\* The message manager's id is stored before its event handler's.
MsgInv ==
  /\ id["msgEH"] = "set" => id["msg"] = "set"
  /\ \A c \in Core : ip[c] \in 32..34 => id["msg"] = "set"

\* The first core goes alone through EBBMgrPrimInit: it is the one that creates
\* the EBB manager, and never comes to the wait, which is for the wrong id.
FirstInv ==
  /\ ip[FirstCore] # 8
  /\ ip[FirstCore] <= 8 => \A c \in Core : c # FirstCore => ip[c] = 1
  /\ ip[FirstCore] <= 5 => id["ebb"] = "0"

BootInv == TypeInv /\ PastInv /\ MsgInv /\ FirstInv

\* The core that goes on is at n, the others stay.
LEMMA Moved ==
  ASSUME TypeInv, NEW c \in Core, NEW n \in 1..46, Goto(c, n)
  PROVE  /\ ip' \in [Core -> 1..46] /\ ip'[c] = n
         /\ \A k \in Core : k # c => ip'[k] = ip[k]
  BY DEF TypeInv, Goto

\* PastInv stays when ids only go up and core c has what its new place needs.
LEMMA PastStays ==
  ASSUME TypeInv, PastInv, NEW c \in Core, NEW n \in 1..46, Goto(c, n),
         \A y \in Service : n > CasAt(y) => id'[y] # "0",
         \A y \in Service : n > WaitAt(y) => id'[y] = "set",
         \A y \in Service : /\ id[y] # "0" => id'[y] # "0"
                            /\ id[y] = "set" => id'[y] = "set"
  PROVE  PastInv'
<1>1. /\ ip'[c] = n
      /\ \A k \in Core : k # c => ip'[k] = ip[k]
  BY Moved
<1>2. ASSUME NEW k \in Core, NEW y \in Service
      PROVE  /\ ip'[k] > CasAt(y) => id'[y] # "0"
             /\ ip'[k] > WaitAt(y) => id'[y] = "set"
  <2>1. CASE k = c
    BY <1>1, <2>1
  <2>2. CASE k # c
    BY <1>1, <2>2 DEF PastInv
  <2> QED
    BY <2>1, <2>2
<1> QED
  BY <1>2 DEF PastInv

\* FirstInv stays when core c goes on to n: any other core than the first moves
\* only when the first is past EBBMgrPrimInit.
LEMMA FirstStays ==
  ASSUME Staggered, TypeInv, FirstInv, NEW c \in Core, NEW op, At(c, op),
         NEW n \in 1..46, n > ip[c], Goto(c, n),
         c = FirstCore => n # 8,
         c = FirstCore /\ n <= 5 => id'["ebb"] = id["ebb"]
  PROVE  FirstInv'
<1>c. FirstCore \in Core
  BY BootAssumption
<1>t. ip[FirstCore] \in Nat /\ ip[c] \in Nat
  BY <1>c DEF TypeInv
<1>w. WaitIndex("ebb") = 8
  BY WaitIndexIs, Places DEF Service
<1>1. /\ ip'[c] = n
      /\ \A k \in Core : k # c => ip'[k] = ip[k]
  BY Moved
<1>2. CASE c = FirstCore
  <2>1. ip'[FirstCore] = n /\ n # 8
    BY <1>1, <1>2
  <2>2. n <= 8 => \A k \in Core : k # FirstCore => ip'[k] = 1
    BY <1>1, <1>2, <1>t DEF FirstInv
  <2>3. n <= 5 => id'["ebb"] = "0"
    BY <1>2, <1>t DEF FirstInv
  <2> QED
    BY <2>1, <2>2, <2>3 DEF FirstInv
<1>3. CASE c # FirstCore
  <2>1. ip[FirstCore] > 8
    BY <1>3, <1>w DEF At
  <2>2. ip'[FirstCore] > 8
    BY <1>1, <1>3, <1>c, <2>1
  <2> QED
    BY <1>c, <1>t, <1>1, <1>3, <2>1, <2>2 DEF FirstInv
<1> QED
  BY <1>2, <1>3

\* Where a core can make the step of an operation.
LEMMA Standing ==
  ASSUME TypeInv, NEW c \in Core, NEW op, At(c, op)
  PROVE  ip[c] \in 1..45 /\ Program[ip[c]].op = op
<1>1. ip[c] \in 1..46 /\ ~Done(c) /\ Program[ip[c]].op = op
  BY DEF TypeInv, At
<1> QED
  BY <1>1, NotDone

\* A call finds an id, and changes none.
LEMMA CallStep ==
  ASSUME Staggered, BootInv, NEW c \in Core, Call(c)
  PROVE  BootInv'
<1>i. TypeInv /\ PastInv /\ MsgInv /\ FirstInv
  BY DEF BootInv
<1>a. At(c, "use")
  BY DEF Call
<1>1. PICK n \in 1..45 : n = ip[c] /\ Program[n].op = "use"
  BY <1>i, <1>a, Standing
<1>2. id[Program[n].id] = "set"
  <2>1. CASE Program[n].id \in Service /\ n > WaitAt(Program[n].id)
    BY <1>i, <1>1, <2>1 DEF PastInv
  <2>2. CASE Program[n].id = "msg" /\ n > WaitAt("msgEH")
    <3>1. "msgEH" \in Service
      BY DEF Service
    <3>2. id["msgEH"] = "set"
      BY <1>i, <1>1, <2>2, <3>1 DEF PastInv
    <3> QED
      BY <1>i, <2>2, <3>2 DEF MsgInv
  <2> QED
    BY <1>1, <2>1, <2>2, UseMeans
<1>3. Goto(c, n + 1) /\ UNCHANGED <<id, crashed>>
  BY <1>1, <1>2 DEF Call
<1>4. PICK m \in 1..46 : m = n + 1
  OBVIOUS
<1>5. /\ ip' \in [Core -> 1..46] /\ ip'[c] = m
      /\ \A k \in Core : k # c => ip'[k] = ip[k]
  BY <1>i, <1>3, <1>4, Moved
<1>6. TypeInv'
  BY <1>i, <1>3, <1>5 DEF TypeInv
<1>7. n \in {4, 6, 10, 11, 14, 16, 17, 20, 21, 23, 24,
             27, 29, 30, 32, 33, 36, 37, 38, 39, 41, 42, 45}
  BY <1>1, Where
<1>8. \A y \in Service : /\ m > CasAt(y) => id'[y] # "0"
                         /\ m > WaitAt(y) => id'[y] = "set"
  <2>1. TAKE y \in Service
  <2>2. CasAt(y) \in {1, 5, 9, 15, 22, 28, 40} /\ WaitAt(y) \in {3, 8, 13, 19, 26, 35, 44}
    BY Apart
  <2>3. (m > CasAt(y) => n > CasAt(y)) /\ (m > WaitAt(y) => n > WaitAt(y))
    BY <1>4, <1>7, <2>2
  <2> QED
    BY <1>i, <1>1, <1>3, <2>3 DEF PastInv
<1>9. PastInv'
  BY <1>i, <1>3, <1>4, <1>8, PastStays
<1>10. MsgInv'
  <2>1. m \in 32..34 => n \in 32..34
    BY <1>4, <1>7
  <2> QED
    BY <1>i, <1>1, <1>3, <1>5, <2>1 DEF MsgInv
<1>11. FirstInv'
  <2>1. m # 8 /\ m > ip[c]
    BY <1>1, <1>4, <1>7
  <2> QED
    BY <1>i, <1>a, <1>3, <1>4, <2>1, FirstStays
<1> QED
  BY <1>6, <1>9, <1>10, <1>11 DEF BootInv

\* The winner of a compare-and-swap marks the id busy, the others go to the wait.
LEMMA CasStep ==
  ASSUME Staggered, BootInv, NEW c \in Core, CompareAndSwap(c)
  PROVE  BootInv'
<1>i. TypeInv /\ PastInv /\ MsgInv /\ FirstInv
  BY DEF BootInv
<1>a. At(c, "cas")
  BY DEF CompareAndSwap
<1>1. PICK n \in 1..45 : n = ip[c] /\ Program[n].op = "cas"
  BY <1>i, <1>a, Standing
<1>2. PICK x \in Service : x = Program[n].id /\ n = CasAt(x)
  BY <1>1, CasMeans
<1>3. /\ n \in {1, 5, 9, 15, 22, 28, 40} /\ WaitAt(x) \in {3, 8, 13, 19, 26, 35, 44}
      /\ n + 2 <= WaitAt(x)
      /\ \A y \in Service : x # y => /\ n # CasAt(y)
                                     /\ CasAt(y) < WaitAt(x) => CasAt(y) < n
                                     /\ WaitAt(y) < WaitAt(x) => WaitAt(y) < n
  BY <1>2, Apart
<1>4. \A y \in Service : CasAt(y) \in Nat /\ WaitAt(y) \in {3, 8, 13, 19, 26, 35, 44}
  BY Apart
<1>x. x \in Id /\ x # "msg"
  BY DEF Service, Id
<1>5. CASE id[x] = "0"
  <2>1. id' = [id EXCEPT ![x] = "-1"] /\ Goto(c, n + 1) /\ crashed' = crashed
    BY <1>1, <1>2, <1>5 DEF CompareAndSwap
  <2>2. id' \in [Id -> {"0", "-1", "set"}] /\ id'[x] = "-1"
        /\ \A y \in Id : y # x => id'[y] = id[y]
    BY <1>i, <1>x, <2>1 DEF TypeInv
  <2>3. PICK m \in 1..46 : m = n + 1
    OBVIOUS
  <2>4. /\ ip' \in [Core -> 1..46] /\ ip'[c] = m
        /\ \A k \in Core : k # c => ip'[k] = ip[k]
    BY <1>i, <2>1, <2>3, Moved
  <2>5. TypeInv'
    BY <1>i, <2>1, <2>2, <2>4 DEF TypeInv
  <2>6. \A y \in Service : y \in Id
    BY DEF Service, Id
  <2>7. \A y \in Service : /\ m > CasAt(y) => id'[y] # "0"
                           /\ m > WaitAt(y) => id'[y] = "set"
    <3>1. TAKE y \in Service
    <3>2. CASE y = x
      BY <1>3, <2>2, <2>3, <3>2
    <3>3. CASE y # x
      <4>1. (m > CasAt(y) => n > CasAt(y)) /\ (m > WaitAt(y) => n > WaitAt(y))
        BY <1>3, <1>4, <2>3, <3>3
      <4>2. id'[y] = id[y]
        BY <2>2, <2>6, <3>3
      <4> QED
        BY <1>i, <1>1, <4>1, <4>2 DEF PastInv
    <3> QED
      BY <3>2, <3>3
  <2>8. \A y \in Service : /\ id[y] # "0" => id'[y] # "0"
                           /\ id[y] = "set" => id'[y] = "set"
    BY <1>5, <2>2, <2>6
  <2>9. PastInv'
    BY <1>i, <2>1, <2>3, <2>7, <2>8, PastStays
  <2>10. MsgInv'
    <3>1. id'["msg"] = id["msg"] /\ (id'["msgEH"] = "set" => id["msgEH"] = "set")
      BY <1>x, <2>2 DEF Id
    <3>2. m \notin 32..34
      BY <1>3, <2>3
    <3> QED
      BY <1>i, <2>4, <3>1, <3>2 DEF MsgInv
  <2>11. FirstInv'
    <3>1. m # 8 /\ m > ip[c]
      BY <1>1, <1>3, <2>3
    <3>2. m <= 5 => id'["ebb"] = id["ebb"]
      <4>1. HAVE m <= 5
      <4>2. n = 1 /\ x # "ebb"
        BY <1>2, <1>3, <2>3, <4>1, Places
      <4> QED
        BY <2>2, <4>2 DEF Id
    <3> QED
      BY <1>i, <1>a, <2>1, <2>3, <3>1, <3>2, FirstStays
  <2> QED
    BY <2>5, <2>9, <2>10, <2>11 DEF BootInv
<1>6. CASE id[x] # "0"
  <2>1. Goto(c, WaitIndex(x)) /\ UNCHANGED <<id, crashed>>
    BY <1>1, <1>2, <1>6 DEF CompareAndSwap
  <2>2. PICK m \in 1..46 : m = WaitAt(x)
    BY <1>3
  <2>3. Goto(c, m)
    BY <2>1, <2>2, WaitIndexIs
  <2>4. /\ ip' \in [Core -> 1..46] /\ ip'[c] = m
        /\ \A k \in Core : k # c => ip'[k] = ip[k]
    BY <1>i, <2>3, Moved
  <2>5. TypeInv'
    BY <1>i, <2>1, <2>4 DEF TypeInv
  <2>7. \A y \in Service : /\ m > CasAt(y) => id'[y] # "0"
                           /\ m > WaitAt(y) => id'[y] = "set"
    <3>1. TAKE y \in Service
    <3>2. CASE y = x
      BY <1>3, <1>6, <2>1, <2>2, <3>2
    <3>3. CASE y # x
      <4>1. (m > CasAt(y) => n > CasAt(y)) /\ (m > WaitAt(y) => n > WaitAt(y))
        BY <1>3, <1>4, <2>2, <3>3
      <4> QED
        BY <1>i, <1>1, <2>1, <4>1 DEF PastInv
    <3> QED
      BY <3>2, <3>3
  <2>8. \A y \in Service : /\ id[y] # "0" => id'[y] # "0"
                           /\ id[y] = "set" => id'[y] = "set"
    BY <2>1
  <2>9. PastInv'
    BY <1>i, <2>3, <2>7, <2>8, PastStays
  <2>10. MsgInv'
    <3>1. m \notin 32..34
      BY <1>3, <2>2
    <3> QED
      BY <1>i, <2>1, <2>4, <3>1 DEF MsgInv
  <2>11. FirstInv'
    <3>1. m > ip[c] /\ id'["ebb"] = id["ebb"]
      BY <1>1, <1>3, <2>1, <2>2
    <3>2. c = FirstCore => m # 8
      <4>1. SUFFICES ASSUME c = FirstCore, m = 8
                     PROVE  FALSE
        OBVIOUS
      <4>2. x = "ebb" /\ n = 5
        BY <1>2, <2>2, <4>1, Places DEF Service
      <4> QED
        BY <1>i, <1>1, <1>6, <4>1, <4>2 DEF FirstInv
    <3> QED
      BY <1>i, <1>a, <2>3, <3>1, <3>2, FirstStays
  <2> QED
    BY <2>5, <2>9, <2>10, <2>11 DEF BootInv
<1> QED
  BY <1>5, <1>6

\* Whoever gets through the wait finds the id stored; the wait of the EBB
\* manager, on the memory manager's id, only comes after its id is stored.
LEMMA WaitStep ==
  ASSUME Staggered, BootInv, NEW c \in Core, Wait(c)
  PROVE  BootInv'
<1>i. TypeInv /\ PastInv /\ MsgInv /\ FirstInv
  BY DEF BootInv
<1>a. At(c, "wait")
  BY DEF Wait
<1>1. PICK n \in 1..45 : n = ip[c] /\ Program[n].op = "wait"
  BY <1>i, <1>a, Standing
<1>2. PICK x \in Service : x = Program[n].id /\ n = WaitAt(x)
  BY <1>1, WaitMeans
<1>3. /\ n \in {3, 8, 13, 19, 26, 35, 44} /\ CasAt(x) + 2 <= n
      /\ \A y \in Service : x # y => n # WaitAt(y)
  BY <1>2, Apart
<1>4. \A y \in Service : /\ CasAt(y) \in {1, 5, 9, 15, 22, 28, 40}
                         /\ WaitAt(y) \in {3, 8, 13, 19, 26, 35, 44}
  BY Apart
<1>f. FirstCore \in Core
  BY BootAssumption
<1>5. UNCHANGED <<id, crashed>>
  BY DEF Wait
<1>6. CASE UNCHANGED ip
  BY <1>i, <1>5, <1>6 DEF BootInv, TypeInv, PastInv, MsgInv, FirstInv
<1>7. CASE id[WaitOn(x)] # "-1" /\ Goto(c, n + 1)
  <2>3. PICK m \in 1..46 : m = n + 1
    OBVIOUS
  <2>4. /\ ip' \in [Core -> 1..46] /\ ip'[c] = m
        /\ \A k \in Core : k # c => ip'[k] = ip[k]
    BY <1>i, <1>7, <2>3, Moved
  <2>5. TypeInv'
    BY <1>i, <1>5, <2>4 DEF TypeInv
  <2>6. id[x] = "set"
    <3>1. id[x] \in {"0", "-1", "set"}
      BY <1>i DEF TypeInv, Service, Id
    <3>2. CasAt(x) \in Nat
      BY <1>4
    <3>3. id[x] # "0"
      BY <1>i, <1>1, <1>3, <3>2 DEF PastInv
    <3>4. CASE x # "ebb"
      BY <1>7, <3>1, <3>3, <3>4 DEF WaitOn
    <3>5. CASE x = "ebb"
      <4>1. n = 8
        BY <1>2, <3>5, Places
      <4>2. c # FirstCore
        BY <1>i, <1>1, <4>1 DEF FirstInv
      <4>3. ip[FirstCore] > WaitAt("ebb")
        BY <1>a, <4>2, WaitIndexIs DEF At, Service
      <4> QED
        BY <1>i, <1>f, <3>5, <4>3 DEF PastInv
    <3> QED
      BY <3>4, <3>5
  <2>7. \A y \in Service : /\ m > CasAt(y) => id'[y] # "0"
                           /\ m > WaitAt(y) => id'[y] = "set"
    <3>1. TAKE y \in Service
    <3>2. CASE y = x
      BY <1>5, <2>6, <3>2
    <3>3. CASE y # x
      <4>1. (m > CasAt(y) => n > CasAt(y)) /\ (m > WaitAt(y) => n > WaitAt(y))
        BY <1>3, <1>4, <2>3, <3>3
      <4> QED
        BY <1>i, <1>1, <1>5, <4>1 DEF PastInv
    <3> QED
      BY <3>2, <3>3
  <2>8. \A y \in Service : /\ id[y] # "0" => id'[y] # "0"
                           /\ id[y] = "set" => id'[y] = "set"
    BY <1>5
  <2>9. PastInv'
    BY <1>i, <1>7, <2>3, <2>7, <2>8, PastStays
  <2>10. MsgInv'
    <3>1. m \notin 32..34
      BY <1>3, <2>3
    <3> QED
      BY <1>i, <1>5, <2>4, <3>1 DEF MsgInv
  <2>11. FirstInv'
    <3>1. m # 8 /\ m > ip[c] /\ id'["ebb"] = id["ebb"]
      BY <1>1, <1>3, <1>5, <2>3
    <3> QED
      BY <1>i, <1>a, <1>7, <2>3, <3>1, FirstStays
  <2> QED
    BY <2>5, <2>9, <2>10, <2>11 DEF BootInv
<1> QED
  BY <1>1, <1>2, <1>6, <1>7 DEF Wait

\* The core that creates a service stores its id and goes past the wait; the
\* message manager's id is stored on the way to its event handler's.
LEMMA PublishStep ==
  ASSUME Staggered, BootInv, NEW c \in Core, PublishId(c)
  PROVE  BootInv'
<1>i. TypeInv /\ PastInv /\ MsgInv /\ FirstInv
  BY DEF BootInv
<1>a. At(c, "publish")
  BY DEF PublishId
<1>1. PICK n \in 1..45 : n = ip[c] /\ Program[n].op = "publish"
  BY <1>i, <1>a, Standing
<1>2. n \in {2, 7, 12, 18, 25, 31, 34, 43}
  BY <1>1, Where
<1>3. PICK x : x = Program[n].id
  OBVIOUS
<1>4. \/ x \in Service /\ n + 1 = WaitAt(x) /\ Program[n + 1].op = "wait"
      \/ x = "msg" /\ n = 31 /\ Program[n + 1].op # "wait"
  BY <1>1, <1>3, PublishMeans
<1>5. PICK m \in 1..46 : m = IF x = "msg" THEN n + 1 ELSE n + 2
  BY <1>2
<1>6. x \in Id /\ (x = "msg" => x \notin Service)
  BY <1>4 DEF Service, Id
<1>7. crashed' = crashed /\ id' = [id EXCEPT ![x] = "set"]
  BY <1>1, <1>3 DEF PublishId, Stored
<1>8. Goto(c, m)
  <2>1. Goto(c, IF Program[n + 1].op = "wait" THEN n + 2 ELSE n + 1)
    BY <1>1 DEF PublishId
  <2> QED
    BY <1>4, <1>5, <1>6, <2>1
<1>9. id' \in [Id -> {"0", "-1", "set"}] /\ id'[x] = "set"
      /\ \A y \in Id : y # x => id'[y] = id[y]
  BY <1>i, <1>6, <1>7 DEF TypeInv
<1>10. /\ ip' \in [Core -> 1..46] /\ ip'[c] = m
       /\ \A k \in Core : k # c => ip'[k] = ip[k]
  BY <1>i, <1>8, Moved
<1>11. TypeInv'
  BY <1>i, <1>7, <1>9, <1>10 DEF TypeInv
<1>12. \A y \in Service : /\ CasAt(y) \in {1, 5, 9, 15, 22, 28, 40}
                          /\ WaitAt(y) \in {3, 8, 13, 19, 26, 35, 44}
                          /\ y \in Id
  BY Apart DEF Service, Id
<1>13. \A y \in Service : /\ m > CasAt(y) => id'[y] # "0"
                          /\ m > WaitAt(y) => id'[y] = "set"
  <2>1. TAKE y \in Service
  <2>2. CASE y = x
    BY <1>9, <2>2
  <2>3. CASE y # x
    <3>1. (m > CasAt(y) => n > CasAt(y))
      BY <1>2, <1>5, <1>12
    <3>2. (m > WaitAt(y) => n > WaitAt(y))
      <4>1. CASE x = "msg"
        BY <1>2, <1>5, <1>12, <4>1
      <4>2. CASE x # "msg"
        <5>1. n + 1 = WaitAt(x) /\ WaitAt(x) # WaitAt(y)
          BY <1>4, <2>3, <4>2, Apart
        <5> QED
          BY <1>2, <1>5, <1>12, <4>2, <5>1
      <4> QED
        BY <4>1, <4>2
    <3>3. id'[y] = id[y]
      BY <1>9, <1>12, <2>3
    <3> QED
      BY <1>i, <1>1, <3>1, <3>2, <3>3 DEF PastInv
  <2> QED
    BY <2>2, <2>3
<1>14. \A y \in Id : /\ id[y] # "0" => id'[y] # "0"
                     /\ id[y] = "set" => id'[y] = "set"
  BY <1>9
<1>15. PastInv'
  BY <1>i, <1>8, <1>12, <1>13, <1>14, PastStays
<1>16. MsgInv'
  <2>1. CASE x = "msg"
    BY <1>9, <2>1 DEF MsgInv
  <2>2. CASE x # "msg"
    <3>1. id'["msg"] = id["msg"]
      BY <1>9, <2>2 DEF Id
    <3>2. m \in {4, 9, 14, 20, 27, 36, 45}
      <4>1. n + 1 \in {3, 8, 13, 19, 26, 35, 44}
        BY <1>4, <1>12, <2>2
      <4> QED
        BY <1>2, <1>5, <2>2, <4>1
    <3>3. x = "msgEH" => n \in 32..34
      BY <1>4, <2>2, Places
    <3>4. id'["msgEH"] = "set" => id'["msg"] = "set"
      <4>1. CASE x = "msgEH"
        BY <1>i, <1>1, <3>1, <3>3, <4>1 DEF MsgInv
      <4>2. CASE x # "msgEH"
        BY <1>i, <1>9, <3>1, <4>2 DEF MsgInv, Id
      <4> QED
        BY <4>1, <4>2
    <3>5. m \notin 32..34
      BY <3>2
    <3> QED
      BY <1>i, <1>10, <3>1, <3>4, <3>5 DEF MsgInv
  <2> QED
    BY <2>1, <2>2
<1>17. FirstInv'
  <2>1. m # 8 /\ m > ip[c]
    <3>1. x = "msg" => n = 31
      BY <1>4, <1>6
    <3> QED
      BY <1>1, <1>2, <1>5, <3>1
  <2>2. m <= 5 => id'["ebb"] = id["ebb"]
    <3>1. HAVE m <= 5
    <3>2. n = 2
      BY <1>2, <1>5, <3>1
    <3>3. x # "ebb"
      BY <1>4, <3>2, Places
    <3> QED
      BY <1>9, <3>3 DEF Id
  <2> QED
    BY <1>i, <1>a, <1>8, <2>1, <2>2, FirstStays
<1> QED
  BY <1>11, <1>15, <1>16, <1>17 DEF BootInv

\* BootInv is inductive when the other cores wait for the first.
LEMMA BootInvariant == Staggered => (Spec => []BootInv)
<1> SUFFICES ASSUME Staggered PROVE Spec => []BootInv
  OBVIOUS
<1>1. Init => BootInv
  <2>1. SUFFICES ASSUME Init PROVE BootInv
    OBVIOUS
  <2>2. FirstCore \in Core
    BY BootAssumption
  <2>3. TypeInv /\ MsgInv /\ FirstInv
    BY <2>1, <2>2 DEF Init, TypeInv, MsgInv, FirstInv, Id
  <2>4. \A y \in Service : CasAt(y) >= 1 /\ WaitAt(y) >= 1
    BY Apart
  <2>5. \A y \in Service : CasAt(y) \in Nat /\ WaitAt(y) \in Nat
    BY Apart
  <2>6. PastInv
    BY <2>1, <2>4, <2>5 DEF Init, PastInv
  <2> QED
    BY <2>3, <2>6 DEF BootInv
<1>2. BootInv /\ [Next]_vars => BootInv'
  <2>1. SUFFICES ASSUME BootInv, [Next]_vars PROVE BootInv'
    OBVIOUS
  <2>2. CASE UNCHANGED vars
    BY <2>1, <2>2 DEF vars, BootInv, TypeInv, PastInv, MsgInv, FirstInv
  <2>3. CASE AllDone
    BY <2>1, <2>3 DEF AllDone, vars, BootInv, TypeInv, PastInv, MsgInv, FirstInv
  <2>4. ASSUME NEW c \in Core, CoreStep(c) PROVE BootInv'
    <3>1. CASE CompareAndSwap(c)
      BY <2>1, <3>1, CasStep
    <3>2. CASE Call(c)
      BY <2>1, <3>2, CallStep
    <3>3. CASE PublishId(c)
      BY <2>1, <3>3, PublishStep
    <3>4. CASE Wait(c)
      BY <2>1, <3>4, WaitStep
    <3> QED
      BY <2>4, <3>1, <3>2, <3>3, <3>4 DEF CoreStep
  <2> QED
    BY <2>1, <2>2, <2>3, <2>4 DEF Next
<1> QED
  BY <1>1, <1>2, PTL DEF Spec

\* No core makes a call through an id that is not there yet, if the other cores
\* start when the first is through EBBMgrPrimInit.
THEOREM CallsFindTheirId == Staggered => (Spec => []CallsFindAnId)
<1>1. BootInv => CallsFindAnId
  BY DEF BootInv, TypeInv, CallsFindAnId
<1> QED
  BY <1>1, BootInvariant, PTL

===========================================================================
