---------------------- MODULE MemMgrPrimSimpleProofs ----------------------
(***************************************************************************)
(* TLAPS proofs about the heap of MemMgrPrimSimple, for any size of the    *)
(* heap and any sizes of requests, as long as no request meets a free      *)
(* block of just its size (MemMgrExact shows what happens otherwise).      *)
(***************************************************************************)
EXTENDS MemMgrPrimSimple, TLAPS, WellFoundedInduction

USE MemMgrAssumption

-----------------------------------------------------------------------------
(* alloc's walk.                                                           *)

\* A set of natural numbers has a smallest one.
LEMMA SmallestNat ==
  ASSUME NEW T, T \subseteq Nat, T # {}
  PROVE  \E x \in T : \A y \in T : x <= y
<1>1. \E R : /\ IsWellFoundedOn(R, Nat)
             /\ \A x, y \in Nat : <<y, x>> \in R <=> y < x
  <2>1. \A x, y \in Nat : <<y, x>> \in OpToRel(<, Nat) <=> y < x
    BY DEF OpToRel
  <2> QED
    BY <2>1, NatLessThanWellFounded
<1>2. PICK R : /\ IsWellFoundedOn(R, Nat)
               /\ \A x, y \in Nat : <<y, x>> \in R <=> y < x
  BY <1>1
<1>3. PICK x \in T : \A y \in T : ~(<<y, x>> \in R)
  BY <1>2, WFMin
<1>4. \A y \in T : x <= y
  <2> TAKE y \in T
  <2>1. ~(y < x)
    BY <1>2, <1>3
  <2> QED
    BY <2>1
<1> QED
  BY <1>4

\* f are the addresses that m hops of the search for need words reach.
Walk(f, m, need) == f = [n \in 0..m |-> IF n = 0 THEN 0 ELSE Hop(f[n - 1], need)]

\* A walk of any number of hops exists.
LEMMA WalkExists ==
  ASSUME NEW need
  PROVE  \E f : Walk(f, End, need)
<1> DEFINE T == {m \in Nat : ~\E f : Walk(f, m, need)}
<1> SUFFICES ASSUME T # {} PROVE FALSE
  OBVIOUS
<1>1. PICK m \in T : \A k \in T : m <= k
  BY SmallestNat
<1>2. CASE m = 0
  <2>1. Walk([n \in 0..0 |-> 0], 0, need)
    BY DEF Walk
  <2> QED
    BY <1>2, <2>1
<1>3. CASE m # 0
  <2>1. m - 1 \in Nat /\ m - 1 \notin T
    BY <1>1, <1>3
  <2>2. PICK f : Walk(f, m - 1, need)
    BY <2>1
  <2> DEFINE g == [n \in 0..m |-> IF n = 0 THEN 0 ELSE Hop(f[n - 1], need)]
  <2>3. \A n \in 0..(m - 1) : f[n] = IF n = 0 THEN 0 ELSE Hop(f[n - 1], need)
    BY <2>2 DEF Walk
  <2>4. \A n \in 0..(m - 1) : g[n] = f[n]
    BY <2>1, <2>3
  <2>5. \A n \in 0..m : n # 0 => n - 1 \in 0..(m - 1)
    BY <2>1
  <2>6. \A n \in 0..m : g[n] = IF n = 0 THEN 0 ELSE Hop(g[n - 1], need)
    BY <2>4, <2>5
  <2> HIDE DEF g
  <2>7. g = [n \in 0..m |-> g[n]]
    BY DEF g
  <2>8. Walk(g, m, need)
    BY <2>6, <2>7 DEF Walk
  <2> QED
    BY <1>1, <2>8
<1> QED
  BY <1>2, <1>3

\* Reached is the walk.
LEMMA ReachedIsWalk ==
  ASSUME NEW need
  PROVE  Walk(Reached(need), End, need)
  BY WalkExists DEF Walk, Reached

-----------------------------------------------------------------------------
(* The inductive invariant: the heap is a row of blocks.                   *)

\* The first address behind the block at h.
Next1(h) == h + mem[h].size

\* A block has its bumper in its first and in its last word.
BlockAt(h) ==
  /\ mem[h].size > 0
  /\ Next1(h) <= End
  /\ mem[Next1(h) - 1] = mem[h]

\* The prologue and the epilogue.
Ends == {0, End - 2}

\* The blocks that start at the addresses of H fill the heap; those in use are the
\* ones that clients hold; and a free one comes before one in use.
Tiled(H) ==
  /\ H \subseteq Addr /\ {0, 2, End - 2} \subseteq H
  /\ \A h \in H : BlockAt(h)
  /\ \A h \in H : Next1(h) \in H \cup {End}
  /\ \A g, h \in H : g < h => Next1(g) <= h
  /\ \A a \in Addr : \E h \in H : h <= a /\ a < Next1(h)
  /\ \A h \in Ends : mem[h] = Bumper(2, TRUE)
  /\ \A b \in live : b.hdr \in H \ Ends /\ mem[b.hdr] = Bumper(b.size, TRUE)
  /\ \A h \in H \ Ends : mem[h].used => [hdr |-> h, size |-> mem[h].size] \in live
  /\ \A h \in H : ~mem[h].used => Next1(h) \in H /\ mem[Next1(h)].used

TypeInv ==
  /\ mem \in [Addr -> [size : Nat, used : BOOLEAN]]
  /\ live \subseteq [hdr : Addr, size : Nat]

HeapInv == TypeInv /\ \E H \in SUBSET Addr : Tiled(H)

\* init_rep makes one free block between the prologue and the epilogue.
LEMMA InitHeap == Init => HeapInv
<1> SUFFICES ASSUME Init PROVE HeapInv
  OBVIOUS
<1> DEFINE H == {0, 2, End - 2}
<1>1. live = {} /\ DOMAIN mem = Addr
  BY DEF Init
<1>2. ASSUME NEW a \in Addr
      PROVE  mem[a] = CASE a \in {0, 1, End - 2, End - 1} -> [size |-> 2, used |-> TRUE]
                         [] a \in {2, End - 3} -> [size |-> End - 4, used |-> FALSE]
                         [] OTHER -> [size |-> 0, used |-> FALSE]
  BY DEF Init, Bumper, Junk
<1>3. End \in Nat /\ End > 6 /\ {0, 1, 2, End - 3, End - 2, End - 1} \subseteq Addr
  BY DEF Addr
<1>4. /\ mem[0] = [size |-> 2, used |-> TRUE] /\ mem[1] = [size |-> 2, used |-> TRUE]
      /\ mem[End - 2] = [size |-> 2, used |-> TRUE]
      /\ mem[End - 1] = [size |-> 2, used |-> TRUE]
  <2>1. ASSUME NEW a \in {0, 1, End - 2, End - 1} PROVE mem[a] = [size |-> 2, used |-> TRUE]
    <3>1. a \in Addr
      BY <1>3
    <3> QED
      BY <1>2, <3>1
  <2> QED
    BY <2>1
<1>5. /\ mem[2] = [size |-> End - 4, used |-> FALSE]
      /\ mem[End - 3] = [size |-> End - 4, used |-> FALSE]
  <2>1. ASSUME NEW a \in {2, End - 3} PROVE mem[a] = [size |-> End - 4, used |-> FALSE]
    <3>1. a \in Addr /\ a \notin {0, 1, End - 2, End - 1}
      BY <1>3
    <3> QED
      BY <1>2, <3>1
  <2> QED
    BY <2>1
<1>6. TypeInv
  BY <1>1, <1>3 DEF Init, TypeInv, Bumper, Junk
<1>7. Tiled(H)
  <2>1. H \subseteq Addr /\ {0, 2, End - 2} \subseteq H
    BY <1>3
  <2>3. Next1(0) = 2 /\ Next1(2) = End - 2 /\ Next1(End - 2) = End
    BY <1>3, <1>4, <1>5 DEF Next1
  <2>4. \A h \in H : BlockAt(h)
    BY <1>3, <1>4, <1>5, <2>3 DEF BlockAt
  <2>5. \A h \in H : Next1(h) \in H \cup {End}
    BY <2>3
  <2>6. \A g, h \in H : g < h => Next1(g) <= h
    BY <1>3, <2>3
  <2>7. \A a \in Addr : \E h \in H : h <= a /\ a < Next1(h)
    BY <1>3, <2>3 DEF Addr
  <2>8. \A h \in H : ~mem[h].used => Next1(h) \in H /\ mem[Next1(h)].used
    BY <1>4, <1>5, <2>3
  <2>9. \A h \in H \ Ends : mem[h].used => [hdr |-> h, size |-> mem[h].size] \in live
    BY <1>5 DEF Ends
  <2>10. \A h \in Ends : mem[h] = Bumper(2, TRUE)
    BY <1>4 DEF Ends, Bumper
  <2> HIDE DEF H
  <2> QED
    BY <1>1, <2>1, <2>4, <2>5, <2>6, <2>7, <2>8, <2>9, <2>10 DEF Tiled
<1>8. H \in SUBSET Addr
  BY <1>3
<1> QED
  BY <1>6, <1>7, <1>8 DEF HeapInv

\* The blocks lie in the heap one behind the other.
LEMMA BlockBounds ==
  ASSUME TypeInv, NEW H, Tiled(H), NEW h \in H
  PROVE  /\ h \in Nat /\ h < End /\ h \in Addr
         /\ mem[h] \in [size : Nat, used : BOOLEAN] /\ mem[h].size > 0
         /\ Next1(h) \in Nat /\ h < Next1(h) /\ Next1(h) <= End
         /\ Next1(h) - 1 \in Addr /\ mem[Next1(h) - 1] = mem[h]
<1>1. h \in Addr /\ BlockAt(h)
  BY DEF Tiled
<1>2. h \in Nat /\ h < End /\ End \in Nat
  BY <1>1 DEF Addr
<1>3. mem[h] \in [size : Nat, used : BOOLEAN]
  BY <1>1 DEF TypeInv
<1>4. mem[h].size \in Nat /\ mem[h].size > 0
  BY <1>1, <1>3 DEF BlockAt
<1>5. Next1(h) = h + mem[h].size /\ Next1(h) <= End /\ mem[Next1(h) - 1] = mem[h]
  BY <1>1 DEF BlockAt, Next1
<1>6. Next1(h) \in Nat /\ h < Next1(h)
  BY <1>2, <1>4, <1>5
<1>7. Next1(h) - 1 \in Addr
  BY <1>2, <1>5, <1>6 DEF Addr
<1> QED
  BY <1>1, <1>2, <1>3, <1>4, <1>5, <1>6, <1>7

\* One hop goes to the next block, unless the block fits.
LEMMA HopMeets ==
  ASSUME TypeInv, NEW H, Tiled(H), NEW need \in Nat, NEW k \in Nat, k < End,
         NEW w \in H \cup {End}, w >= k \/ (w \in H /\ Fits(w, need))
  PROVE  /\ Hop(w, need) \in H \cup {End}
         /\ \/ Hop(w, need) >= k + 1
            \/ Hop(w, need) \in H /\ Fits(Hop(w, need), need)
         /\ \A x \in H : x < Hop(w, need) => x < w \/ (x = w /\ ~Fits(x, need))
<1>1. End \in Nat
  OBVIOUS
<1>2. CASE w = End
  <2>1. Hop(w, need) = End
    BY <1>1, <1>2 DEF Hop
  <2> QED
    BY <1>1, <1>2, <2>1
<1>3. CASE w \in H /\ Fits(w, need)
  <2>1. Hop(w, need) = w
    BY <1>3 DEF Hop
  <2> QED
    BY <1>3, <2>1
<1>4. CASE w \in H /\ ~Fits(w, need)
  <2>1. /\ w \in Nat /\ w < End /\ Next1(w) \in Nat /\ w < Next1(w)
    BY <1>4, BlockBounds
  <2>2. Hop(w, need) = Next1(w)
    BY <1>1, <1>4, <2>1 DEF Hop, Next1
  <2>3. Next1(w) \in H \cup {End} /\ \A h \in H : w < h => Next1(w) <= h
    BY <1>4 DEF Tiled
  <2>4. Next1(w) >= k + 1
    BY <1>4, <2>1
  <2>5. \A x \in H : x < Next1(w) => x < w \/ (x = w /\ ~Fits(x, need))
    <3> SUFFICES ASSUME NEW x \in H, x < Next1(w) PROVE x < w \/ (x = w /\ ~Fits(x, need))
      OBVIOUS
    <3>1. x \in Nat
      BY BlockBounds
    <3>2. ~(w < x)
      BY <2>1, <2>3, <3>1
    <3> QED
      BY <1>4, <2>1, <3>1, <3>2
  <2> QED
    BY <2>2, <2>3, <2>4, <2>5
<1> QED
  BY <1>2, <1>3, <1>4

\* What a walk has met after n hops: it is at a block or at the end of the heap, it has
\* gone far enough or found a block that fits, and it has passed by all blocks before.
Met(W, H, need, n) ==
  /\ W[n] \in H \cup {End}
  /\ W[n] >= n \/ (W[n] \in H /\ Fits(W[n], need))
  /\ \A x \in H : x < W[n] => ~Fits(x, need) /\ \E m \in 0..n : W[m] = x

\* A walk over whole blocks meets every header up to where it has come.
LEMMA WalkMeets ==
  ASSUME TypeInv, NEW H, Tiled(H), NEW need \in Nat, NEW W, Walk(W, End, need),
         NEW n \in 0..End
  PROVE  Met(W, H, need, n)
<1> DEFINE T == {k \in 0..End : ~Met(W, H, need, k)}
<1>1. W[0] = 0 /\ \A k \in 0..End : k # 0 => W[k] = Hop(W[k - 1], need)
  BY DEF Walk
<1>2. \A x \in H : x \in Nat
  BY BlockBounds
<1>3. Met(W, H, need, 0)
  <2>1. 0 \in H
    BY DEF Tiled
  <2> QED
    BY <1>1, <1>2, <2>1 DEF Met
<1>4. ASSUME NEW k \in 0..End, k # 0, Met(W, H, need, k - 1) PROVE Met(W, H, need, k)
  <2>1. PICK j \in Nat : j = k - 1 /\ j < End /\ k = j + 1
    BY <1>4
  <2>2. PICK w : w = W[j]
    OBVIOUS
  <2>3. /\ w \in H \cup {End}
        /\ w >= j \/ (w \in H /\ Fits(w, need))
        /\ \A x \in H : x < w => ~Fits(x, need) /\ \E m \in 0..j : W[m] = x
    BY <1>4, <2>1, <2>2 DEF Met
  <2>4. W[k] = Hop(w, need)
    BY <1>1, <1>4, <2>1, <2>2
  <2>5. /\ W[k] \in H \cup {End}
        /\ W[k] >= j + 1 \/ (W[k] \in H /\ Fits(W[k], need))
        /\ \A x \in H : x < W[k] => x < w \/ (x = w /\ ~Fits(x, need))
    BY <2>1, <2>3, <2>4, HopMeets
  <2>6. ASSUME NEW x \in H, x < W[k] PROVE ~Fits(x, need) /\ \E m \in 0..k : W[m] = x
    <3>1. CASE x < w
      <4>1. PICK m \in 0..j : W[m] = x
        BY <2>3, <3>1
      <4>2. m \in 0..k
        BY <2>1, <4>1
      <4> QED
        BY <2>3, <3>1, <4>1, <4>2
    <3>2. CASE x = w /\ ~Fits(x, need)
      <4>1. j \in 0..k
        BY <2>1
      <4> QED
        BY <2>2, <3>2, <4>1
    <3> QED
      BY <2>5, <2>6, <3>1, <3>2
  <2> QED
    BY <2>1, <2>5, <2>6 DEF Met
<1>5. T = {}
  <2> SUFFICES ASSUME T # {} PROVE FALSE
    OBVIOUS
  <2>0. T \subseteq Nat /\ T \subseteq 0..End
    OBVIOUS
  <2>1. PICK k \in T : \A j \in T : k <= j
    BY <2>0, SmallestNat
  <2>2. k # 0 /\ k \in 0..End /\ ~Met(W, H, need, k)
    BY <1>3, <2>1
  <2>3. k - 1 \in 0..End /\ ~(k <= k - 1)
    BY <2>2
  <2>4. k - 1 \notin T
    BY <2>1, <2>3
  <2>5. Met(W, H, need, k - 1)
    BY <2>3, <2>4
  <2> QED
    BY <1>4, <2>2, <2>5
<1> QED
  BY <1>5

\* What alloc's search finds: the end of the heap if no block fits.
LEMMA SearchFinds ==
  ASSUME TypeInv, NEW H, Tiled(H), NEW need \in Nat
  PROVE  \/ Search(need) \in H /\ Search(need) < End /\ Fits(Search(need), need)
         \/ Search(need) = End /\ \A x \in H : ~Fits(x, need)
<1> DEFINE W == Reached(need)
<1>1. Walk(W, End, need) /\ Search(need) = W[End] /\ End \in 0..End
  BY ReachedIsWalk DEF Search
<1> HIDE DEF W
<1>2. Met(W, H, need, End)
  BY <1>1, WalkMeets
<1>3. \A x \in H : x \in Nat /\ x < End
  BY BlockBounds
<1>4. CASE W[End] \in H
  BY <1>1, <1>2, <1>3, <1>4 DEF Met
<1>5. CASE W[End] = End
  BY <1>1, <1>2, <1>3, <1>5 DEF Met
<1> QED
  BY <1>2, <1>4, <1>5 DEF Met

-----------------------------------------------------------------------------
(* The properties, from the invariant.                                     *)

\* A block that clients hold: where it lies, and its two bumpers.
LEMMA HeldBlock ==
  ASSUME TypeInv, NEW H, Tiled(H), NEW b \in live
  PROVE  /\ b.hdr \in H /\ b.hdr \in Nat /\ b.size \in Nat /\ b.size > 0
         /\ mem[b.hdr] = Bumper(b.size, TRUE)
         /\ Next1(b.hdr) = b.hdr + b.size
         /\ mem[b.hdr + b.size - 1] = Bumper(b.size, TRUE)
         /\ 2 <= b.hdr /\ b.hdr + b.size <= End - 2
         /\ b.hdr + b.size \in H
<1>1. b.hdr \in H \ Ends /\ mem[b.hdr] = Bumper(b.size, TRUE)
  BY DEF Tiled
<1>2. /\ b.hdr \in Nat /\ b.hdr < End /\ Next1(b.hdr) <= End /\ b.hdr < Next1(b.hdr)
      /\ mem[b.hdr].size > 0 /\ mem[Next1(b.hdr) - 1] = mem[b.hdr]
  BY <1>1, BlockBounds
<1>3. mem[b.hdr].size = b.size /\ b.size \in Nat
  BY <1>1 DEF Bumper, TypeInv
<1>4. Next1(b.hdr) = b.hdr + b.size
  BY <1>3 DEF Next1
<1>5. 0 \in H /\ End - 2 \in H /\ b.hdr # 0 /\ b.hdr # End - 2
  BY <1>1 DEF Tiled, Ends
<1>6. mem[0].size = 2 /\ mem[End - 2].size = 2
  BY DEF Tiled, Ends, Bumper
<1>7. Next1(0) = 2 /\ Next1(End - 2) = End
  BY <1>6 DEF Next1
<1>8. 2 <= b.hdr
  BY <1>1, <1>2, <1>5, <1>7 DEF Tiled
<1>9. End - 2 < b.hdr => End <= b.hdr
  BY <1>1, <1>5, <1>7 DEF Tiled
<1>10. b.hdr < End - 2
  BY <1>2, <1>5, <1>9
<1>11. Next1(b.hdr) <= End - 2
  BY <1>1, <1>5, <1>10 DEF Tiled
<1>12. Next1(b.hdr) \in H
  BY <1>1, <1>11 DEF Tiled
<1>13. Next1(b.hdr) - 1 = b.hdr + b.size - 1
  BY <1>2, <1>3, <1>4
<1>14. mem[b.hdr + b.size - 1] = Bumper(b.size, TRUE)
  BY <1>1, <1>2, <1>13
<1>15. b.hdr + b.size <= End - 2 /\ b.hdr + b.size \in H
  BY <1>4, <1>11, <1>12
<1>16. b.size > 0
  BY <1>2, <1>3
<1> QED
  BY <1>1, <1>2, <1>3, <1>4, <1>8, <1>14, <1>15, <1>16

\* A held block has its bumper on both sides.
LEMMA HeapBumpers == HeapInv => BumpersIntact
<1> SUFFICES ASSUME HeapInv PROVE BumpersIntact
  OBVIOUS
<1>1. PICK H \in SUBSET Addr : TypeInv /\ Tiled(H)
  BY DEF HeapInv
<1>2. \A b \in live : /\ mem[b.hdr] = Bumper(b.size, TRUE)
                      /\ mem[b.hdr + b.size - 1] = Bumper(b.size, TRUE)
  BY <1>1, HeldBlock
<1>3. ASSUME NEW h \in Ends
      PROVE  mem[h] = Bumper(2, TRUE) /\ mem[h + 2 - 1] = Bumper(2, TRUE)
  <2>1. mem[h] = Bumper(2, TRUE) /\ h \in H
    BY <1>1 DEF Tiled, Ends
  <2>4. h \in Nat
    BY <1>1, <2>1, BlockBounds
  <2>2. Next1(h) = h + 2
    BY <2>1 DEF Next1, Bumper
  <2>3. mem[Next1(h) - 1] = mem[h]
    BY <1>1, <2>1, BlockBounds
  <2>5. Next1(h) - 1 = h + 2 - 1
    BY <2>2, <2>4
  <2> QED
    BY <2>1, <2>3, <2>5
<1>4. 0 \in Ends /\ End - 2 \in Ends
  BY DEF Ends
<1>5. ASSUME NEW h \in Ends, NEW b, b = [hdr |-> h, size |-> 2]
      PROVE  /\ mem[b.hdr] = Bumper(b.size, TRUE)
             /\ mem[b.hdr + b.size - 1] = Bumper(b.size, TRUE)
  <2>1. b.hdr = h /\ b.size = 2
    BY <1>5
  <2> QED
    BY <1>3, <2>1
<1> QED
  BY <1>2, <1>4, <1>5 DEF BumpersIntact

\* The blocks of a row do not overlap.
LEMMA HeapDisjoint == HeapInv => BlocksDisjoint
<1> SUFFICES ASSUME HeapInv PROVE BlocksDisjoint
  OBVIOUS
<1>1. PICK H \in SUBSET Addr : TypeInv /\ Tiled(H)
  BY DEF HeapInv
<1>2. ASSUME NEW b \in live PROVE Words(b) \subseteq 2..(End - 3)
  <2>1. /\ b.hdr \in Nat /\ b.size \in Nat /\ 2 <= b.hdr /\ b.hdr + b.size <= End - 2
    BY <1>1, HeldBlock
  <2> QED
    BY <2>1 DEF Words
<1>3. ASSUME NEW b \in live, NEW d \in live, b.hdr < d.hdr
      PROVE  Words(b) \cap Words(d) = {}
  <2>1. /\ b.hdr \in H /\ d.hdr \in H /\ Next1(b.hdr) = b.hdr + b.size
        /\ b.hdr \in Nat /\ b.size \in Nat /\ d.hdr \in Nat /\ d.size \in Nat
    BY <1>1, HeldBlock
  <2>2. b.hdr + b.size <= d.hdr
    BY <1>1, <1>3, <2>1 DEF Tiled
  <2> QED
    BY <2>1, <2>2 DEF Words
<1>4. ASSUME NEW b \in live, NEW d \in live \ {b} PROVE Words(b) \cap Words(d) = {}
  <2>1. /\ b.hdr \in Nat /\ mem[b.hdr] = Bumper(b.size, TRUE)
        /\ d.hdr \in Nat /\ mem[d.hdr] = Bumper(d.size, TRUE)
    BY <1>1, HeldBlock
  <2>2. b.hdr # d.hdr
    <3> SUFFICES ASSUME b.hdr = d.hdr PROVE FALSE
      OBVIOUS
    <3>1. b.size = d.size
      BY <2>1 DEF Bumper
    <3>2. b \in [hdr : Addr, size : Nat] /\ d \in [hdr : Addr, size : Nat]
      BY <1>1 DEF TypeInv
    <3> QED
      BY <1>4, <3>1, <3>2
  <2>3. CASE b.hdr < d.hdr
    BY <1>3, <2>3
  <2>4. CASE d.hdr < b.hdr
    BY <1>3, <2>4
  <2> QED
    BY <2>1, <2>2, <2>3, <2>4
<1> QED
  BY <1>2, <1>4 DEF BlocksDisjoint

\* A walk for a block larger than the heap passes by all blocks and ends at its end.
LEMMA HeapWalk == HeapInv => WalkCovers
<1> SUFFICES ASSUME HeapInv PROVE WalkCovers
  OBVIOUS
<1>1. PICK H \in SUBSET Addr : TypeInv /\ Tiled(H)
  BY DEF HeapInv
<1>2. \A x \in H : ~Fits(x, End)
  <2> TAKE x \in H
  <2>1. /\ x \in Nat /\ Next1(x) <= End /\ mem[x] \in [size : Nat, used : BOOLEAN]
    BY <1>1, BlockBounds
  <2>2. x = 0 => mem[x].used
    BY <1>1 DEF Tiled, Ends, Bumper
  <2> QED
    BY <2>1, <2>2 DEF Fits, Next1
<1>3. PICK W : W = Reached(End)
  OBVIOUS
<1>4. Walk(W, End, End) /\ End \in Nat /\ End \in 0..End
  BY <1>3, ReachedIsWalk
<1>5. Met(W, H, End, End)
  BY <1>1, <1>4, WalkMeets
<1>6. \A x \in H : x \in Nat /\ x < End
  BY <1>1, BlockBounds
<1>7. W[End] = End
  BY <1>2, <1>5, <1>6 DEF Met
<1>8. \A x \in H : \E m \in 0..End : W[m] = x
  BY <1>5, <1>6, <1>7 DEF Met
<1>9. \A b \in live : b.hdr \in H
  BY <1>1 DEF Tiled
<1>10. \A x \in H : x \in Headers
  BY <1>3, <1>6, <1>8 DEF Headers
<1> QED
  BY <1>3, <1>7, <1>9, <1>10 DEF WalkCovers

\* A run of words that nobody holds lies in one free block.
LEMMA HeapExhausted == HeapInv => NoFalseExhaustion
<1> SUFFICES ASSUME HeapInv, NEW n \in Sizes, Search(Need(n)) >= End,
                    NEW a \in Unheld, a..(a + Need(n) - 1) \subseteq Unheld
             PROVE  FALSE
  BY DEF NoFalseExhaustion
<1>1. PICK H \in SUBSET Addr : TypeInv /\ Tiled(H)
  BY DEF HeapInv
<1>2. Need(n) \in Nat /\ Need(n) > 0 /\ End \in Nat
  BY DEF Need
<1>3. \A x \in H : ~Fits(x, Need(n))
  <2>1. \/ Search(Need(n)) \in H /\ Search(Need(n)) < End
        \/ Search(Need(n)) = End /\ \A x \in H : ~Fits(x, Need(n))
    BY <1>1, <1>2, SearchFinds
  <2>2. \A x \in H : x \in Nat
    BY <1>1, BlockBounds
  <2> QED
    BY <1>2, <2>1, <2>2
<1>4. Unheld \subseteq 2..(End - 3)
  BY DEF Unheld
<1>5. ASSUME NEW x \in H, NEW e \in Unheld, x <= e, e < Next1(x) PROVE ~mem[x].used
  <2> SUFFICES ASSUME mem[x].used PROVE FALSE
    OBVIOUS
  <2>1. x \in Nat /\ mem[x].size \in Nat /\ e \in Nat /\ 2 <= e /\ e <= End - 3
    BY <1>1, <1>4, BlockBounds
  <2>2. x \notin Ends
    <3>1. Next1(0) = 2
      BY <1>1 DEF Tiled, Ends, Bumper, Next1
    <3> QED
      BY <1>5, <2>1, <3>1 DEF Ends
  <2>3. [hdr |-> x, size |-> mem[x].size] \in live
    BY <1>1, <2>2 DEF Tiled
  <2>4. e \in Words([hdr |-> x, size |-> mem[x].size])
    BY <1>5, <2>1 DEF Words, Next1
  <2> QED
    BY <2>3, <2>4 DEF Unheld
<1>6. a \in Nat /\ a \in Addr
  BY <1>2, <1>4 DEF Addr
<1>7. PICK x \in H : x <= a /\ a < Next1(x)
  BY <1>1, <1>6 DEF Tiled
<1>8. ~mem[x].used
  BY <1>5, <1>7
<1>9. /\ x \in Nat /\ mem[x].size \in Nat /\ mem[x].size < Need(n)
      /\ Next1(x) \in Nat /\ Next1(x) = x + mem[x].size
  BY <1>1, <1>2, <1>3, <1>8, BlockBounds DEF Fits, Next1
<1>10. Next1(x) \in Unheld
  BY <1>2, <1>6, <1>7, <1>9
<1>11. Next1(x) \in H /\ mem[Next1(x)].used
  BY <1>1, <1>8 DEF Tiled
<1>12. Next1(x) < Next1(Next1(x))
  BY <1>1, <1>11, BlockBounds
<1> QED
  BY <1>5, <1>9, <1>10, <1>11, <1>12

-----------------------------------------------------------------------------
(* alloc.                                                                  *)

\* What an assignment to the size of a bumper leaves.
LEMMA Resized ==
  ASSUME NEW c \in [size : Int, used : BOOLEAN], NEW v \in Int
  PROVE  [c EXCEPT !.size = v] = [size |-> v, used |-> c.used]
<1>1. DOMAIN c = {"size", "used"}
  OBVIOUS
<1>2. DOMAIN [c EXCEPT !.size = v] = {"size", "used"}
  BY <1>1
<1>3. [c EXCEPT !.size = v].size = v /\ [c EXCEPT !.size = v].used = c.used
  BY <1>1
<1> QED
  BY <1>1, <1>2, <1>3

\* The words m hold the block of s words at h as a used block of need words
\* and a free one of the rest; the other words are as they were.
SplitAs(m, h, s, need) ==
  /\ m \in [Addr -> [size : Nat, used : BOOLEAN]]
  /\ \A a \in {h, h + need - 1} : m[a] = Bumper(need, TRUE)
  /\ \A a \in {h + need, h + s - 1} : m[a] = Bumper(s - need, FALSE)
  /\ \A a \in Addr \ {h, h + need - 1, h + need, h + s - 1} : m[a] = mem[a]

\* What alloc's five assignments leave in the words of the block.
LEMMA SplitWords ==
  ASSUME TypeInv, NEW h \in Nat, NEW s \in Nat, NEW need \in Nat,
         need >= 3, need < s, h + s <= End,
         mem[h] = Bumper(s, FALSE), mem[h + s - 1] = Bumper(s, FALSE)
  PROVE  SplitAs(Split(h, need), h, s, need)
<1>1. PICK o \in Int, f \in Int : o = h + s - 1 /\ f = h + need - 1
  OBVIOUS
<1>2. /\ h \in Addr /\ o \in Addr /\ f \in Addr /\ f + 1 \in Addr
      /\ h # o /\ h # f /\ h # f + 1 /\ f # f + 1 /\ f # o
  BY <1>1 DEF Addr
<1>3. mem \in [Addr -> [size : Nat, used : BOOLEAN]]
  BY DEF TypeInv
<1>4. mem[h].size = s /\ mem[h] = [size |-> s, used |-> FALSE]
      /\ mem[o] = [size |-> s, used |-> FALSE]
  BY <1>1 DEF Bumper
<1>5. PICK m1 : m1 = [mem EXCEPT ![h].used = TRUE, ![o].size = @ - need]
  OBVIOUS
<1>6. /\ m1 \in [Addr -> [size : Int, used : BOOLEAN]]
      /\ m1[h] = [size |-> s, used |-> TRUE] /\ m1[o] = [size |-> s - need, used |-> FALSE]
      /\ \A a \in Addr \ {h, o} : m1[a] = mem[a]
  <2>1. /\ DOMAIN m1 = Addr /\ m1 = [a \in Addr |-> m1[a]]
        /\ m1[h] = [mem[h] EXCEPT !.used = TRUE]
        /\ m1[o] = [mem[o] EXCEPT !.size = @ - need]
        /\ \A a \in Addr \ {h, o} : m1[a] = mem[a]
    BY <1>2, <1>3, <1>5
  <2>2. m1[h] = [size |-> s, used |-> TRUE]
    BY <1>4, <2>1
  <2>3. m1[o] = [size |-> s - need, used |-> FALSE]
    <3>1. mem[o] \in [size : Int, used : BOOLEAN] /\ mem[o].size = s /\ ~mem[o].used
      BY <1>2, <1>3, <1>4
    <3>2. s - need \in Int /\ m1[o] = [mem[o] EXCEPT !.size = s - need]
      BY <2>1, <3>1
    <3>3. [mem[o] EXCEPT !.size = s - need] = [size |-> s - need, used |-> mem[o].used]
      BY <3>1, <3>2, Resized
    <3>4. mem[o].used = FALSE
      BY <3>1
    <3> QED
      BY <3>2, <3>3, <3>4
  <2>4. \A a \in Addr : m1[a] \in [size : Int, used : BOOLEAN]
    <3>1. \A a \in Addr : mem[a] \in [size : Int, used : BOOLEAN]
      BY <1>3
    <3>2. s - need \in Int /\ s \in Int
      OBVIOUS
    <3>3. m1[h] \in [size : Int, used : BOOLEAN] /\ m1[o] \in [size : Int, used : BOOLEAN]
      BY <2>2, <2>3, <3>2
    <3>4. \A a \in Addr : a = h \/ a = o \/ m1[a] = mem[a]
      BY <2>1
    <3> QED
      BY <3>1, <3>3, <3>4
  <2> QED
    BY <2>1, <2>2, <2>3, <2>4
<1>7. PICK m2 : m2 = [m1 EXCEPT ![h].size = need]
  OBVIOUS
<1>8. /\ m2 \in [Addr -> [size : Int, used : BOOLEAN]]
      /\ m2[h] = [size |-> need, used |-> TRUE] /\ m2[o] = [size |-> s - need, used |-> FALSE]
      /\ \A a \in Addr \ {h, o} : m2[a] = mem[a]
  <2>1. /\ DOMAIN m2 = Addr /\ m2 = [a \in Addr |-> m2[a]]
        /\ m2[h] = [m1[h] EXCEPT !.size = need]
        /\ \A a \in Addr \ {h} : m2[a] = m1[a]
    BY <1>2, <1>6, <1>7
  <2>2. m2[h] = [size |-> need, used |-> TRUE]
    <3>1. m1[h] \in [size : Int, used : BOOLEAN] /\ m1[h].used = TRUE /\ need \in Int
      BY <1>2, <1>6
    <3>2. [m1[h] EXCEPT !.size = need] = [size |-> need, used |-> m1[h].used]
      BY <3>1, Resized
    <3> QED
      BY <2>1, <3>1, <3>2
  <2>3. \A a \in Addr : m2[a] \in [size : Int, used : BOOLEAN]
    <3>1. \A a \in Addr : m1[a] \in [size : Int, used : BOOLEAN]
      BY <1>6
    <3>2. need \in Int
      OBVIOUS
    <3> QED
      BY <2>1, <2>2, <3>1, <3>2
  <2> QED
    BY <1>2, <1>6, <2>1, <2>2, <2>3
<1>9. PICK m3 : m3 = [m2 EXCEPT ![f] = m2[h]]
  OBVIOUS
<1>10. /\ m3 \in [Addr -> [size : Int, used : BOOLEAN]]
       /\ m3[h] = [size |-> need, used |-> TRUE] /\ m3[f] = [size |-> need, used |-> TRUE]
       /\ m3[o] = [size |-> s - need, used |-> FALSE]
       /\ \A a \in Addr \ {h, o, f} : m3[a] = mem[a]
  BY <1>2, <1>8, <1>9
<1>11. PICK m4 : m4 = [m3 EXCEPT ![f + 1] = m3[o]]
  OBVIOUS
<1>12. /\ m4 \in [Addr -> [size : Int, used : BOOLEAN]]
       /\ m4[h] = [size |-> need, used |-> TRUE] /\ m4[f] = [size |-> need, used |-> TRUE]
       /\ m4[o] = [size |-> s - need, used |-> FALSE]
       /\ m4[f + 1] = [size |-> s - need, used |-> FALSE]
       /\ \A a \in Addr \ {h, o, f, f + 1} : m4[a] = mem[a]
  BY <1>2, <1>10, <1>11
<1>13. Split(h, need) = m4
  <2>1. o = h + mem[h].size - 1
    BY <1>1, <1>4
  <2> QED
    BY <1>1, <1>5, <1>7, <1>9, <1>11, <2>1 DEF Split
<1>14. f + 1 = h + need /\ s - need \in Nat
  BY <1>1
<1>15. m4 \in [Addr -> [size : Nat, used : BOOLEAN]]
  <2>1. \A a \in Addr : m4[a] \in [size : Nat, used : BOOLEAN]
    BY <1>3, <1>12, <1>14
  <2> QED
    BY <1>12, <2>1
<1>16. PICK m : m = Split(h, need)
  OBVIOUS
<1>17. \A a \in {h, f} : m[a] = Bumper(need, TRUE)
  BY <1>12, <1>13, <1>16 DEF Bumper
<1>18. \A a \in {f + 1, o} : m[a] = Bumper(s - need, FALSE)
  BY <1>12, <1>13, <1>16 DEF Bumper
<1>19. \A a \in Addr \ {h, f, f + 1, o} : m[a] = mem[a]
  BY <1>12, <1>13, <1>16
<1>20. SplitAs(m, h, s, need)
  BY <1>1, <1>13, <1>14, <1>15, <1>16, <1>17, <1>18, <1>19 DEF SplitAs
<1> QED
  BY <1>16, <1>20

\* Writes into the words from lo to hi - 1 leave a block outside them as it is.
LEMMA Untouched ==
  ASSUME TypeInv, NEW H, Tiled(H), NEW lo \in Nat, NEW hi \in Nat, lo < hi,
         \A a \in Addr : a < lo \/ a >= hi => mem'[a] = mem[a],
         NEW x \in H, Next1(x) <= lo \/ x >= hi
  PROVE  mem'[x] = mem[x] /\ Next1(x)' = Next1(x) /\ BlockAt(x)'
<1>1. /\ x \in Nat /\ x \in Addr /\ Next1(x) \in Nat /\ x < Next1(x) /\ Next1(x) <= End
      /\ mem[x].size > 0 /\ Next1(x) - 1 \in Addr /\ mem[Next1(x) - 1] = mem[x]
  BY BlockBounds
<1>2. x < lo \/ x >= hi
  BY <1>1
<1>3. Next1(x) - 1 < lo \/ Next1(x) - 1 >= hi
  BY <1>1
<1>4. mem'[x] = mem[x] /\ mem'[Next1(x) - 1] = mem[Next1(x) - 1]
  BY <1>1, <1>2, <1>3
<1>5. Next1(x)' = Next1(x)
  BY <1>4 DEF Next1
<1>6. BlockAt(x)'
  BY <1>1, <1>4, <1>5 DEF BlockAt
<1> QED
  BY <1>4, <1>5, <1>6

\* alloc splits the block it finds in two.
LEMMA AllocStep ==
  ASSUME ~ExactFits, HeapInv, NEW n \in Sizes, Alloc(n)
  PROVE  HeapInv'
<1>1. PICK H \in SUBSET Addr : TypeInv /\ Tiled(H)
  BY DEF HeapInv
<1>2. PICK need \in Nat : need = Need(n) /\ need = n + 2 /\ need >= 3
  BY DEF Need
<1>3. PICK h : h = Search(need)
  OBVIOUS
<1>4. /\ h < End /\ mem[h].size # need /\ mem' = Split(h, need)
      /\ live' = live \cup {[hdr |-> h, size |-> need]}
  BY <1>2, <1>3 DEF Alloc
<1>5. h \in H /\ Fits(h, need)
  BY <1>1, <1>2, <1>3, <1>4, SearchFinds
<1>6. PICK s \in Nat : s = mem[h].size
  BY <1>1, <1>5, BlockBounds
<1>7. /\ h \in Nat /\ h \in Addr /\ mem[h] \in [size : Nat, used : BOOLEAN]
      /\ Next1(h) = h + s /\ h + s <= End /\ mem[Next1(h) - 1] = mem[h]
  BY <1>1, <1>5, <1>6, BlockBounds DEF Next1
<1>8. need < s /\ mem[h].used = FALSE
  BY <1>4, <1>5, <1>6, <1>7 DEF Fits
<1>9. mem[h] = Bumper(s, FALSE) /\ mem[h + s - 1] = Bumper(s, FALSE)
  <2>1. Next1(h) - 1 = h + s - 1
    BY <1>7
  <2>2. mem[h] = Bumper(s, FALSE)
    BY <1>6, <1>7, <1>8 DEF Bumper
  <2> QED
    BY <1>7, <2>1, <2>2
<1>10. /\ mem' \in [Addr -> [size : Nat, used : BOOLEAN]]
       /\ \A a \in {h, h + need - 1} : mem'[a] = Bumper(need, TRUE)
       /\ \A a \in {h + need, h + s - 1} : mem'[a] = Bumper(s - need, FALSE)
       /\ \A a \in Addr \ {h, h + need - 1, h + need, h + s - 1} : mem'[a] = mem[a]
  <2>1. /\ TypeInv /\ h \in Nat /\ s \in Nat /\ need \in Nat /\ need >= 3 /\ need < s
        /\ h + s <= End /\ mem[h] = Bumper(s, FALSE)
        /\ mem[h + s - 1] = Bumper(s, FALSE)
    BY <1>1, <1>2, <1>7, <1>8, <1>9
  <2>2. SplitAs(Split(h, need), h, s, need)
    BY <2>1, SplitWords
  <2>3. SplitAs(mem', h, s, need)
    BY <1>4, <2>2
  <2> QED
    BY <2>3 DEF SplitAs
<1>11. PICK q \in Nat : q = h + need
  BY <1>2, <1>7
<1>12. q \in Addr /\ h < q /\ q < h + s /\ q - 1 = h + need - 1
  BY <1>2, <1>7, <1>8, <1>11 DEF Addr
<1>13. PICK K : K = H \cup {q}
  OBVIOUS
<1>14. Next1(h)' = q /\ BlockAt(h)' /\ mem'[h] = Bumper(need, TRUE)
  <2>1. mem'[h] = [size |-> need, used |-> TRUE] /\ mem'[q - 1] = mem'[h]
    BY <1>10, <1>12 DEF Bumper
  <2>2. Next1(h)' = q
    BY <1>11, <2>1 DEF Next1
  <2>3. BlockAt(h)'
    BY <1>2, <1>7, <1>12, <2>1, <2>2 DEF BlockAt
  <2> QED
    BY <2>1, <2>2, <2>3 DEF Bumper
<1>15. Next1(q)' = h + s /\ BlockAt(q)' /\ mem'[q] = Bumper(s - need, FALSE)
  <2>1. mem'[q] = [size |-> s - need, used |-> FALSE] /\ mem'[h + s - 1] = mem'[q]
    BY <1>10, <1>11 DEF Bumper
  <2>2. Next1(q)' = h + s
    BY <1>2, <1>7, <1>11, <2>1 DEF Next1
  <2>3. BlockAt(q)'
    BY <1>2, <1>7, <1>8, <2>1, <2>2 DEF BlockAt
  <2> QED
    BY <2>1, <2>2, <2>3 DEF Bumper
<1>16. \A x \in H : /\ x < h => Next1(x) <= h
                    /\ h < x => h + s <= x
                    /\ x \in Nat
  <2>1. \A x \in H : x \in Nat
    BY <1>1, BlockBounds
  <2>2. \A x, y \in H : x < y => Next1(x) <= y
    BY <1>1 DEF Tiled
  <2> QED
    BY <1>5, <1>7, <2>1, <2>2
<1>17. ASSUME NEW x \in H, x # h
       PROVE  mem'[x] = mem[x] /\ Next1(x)' = Next1(x) /\ BlockAt(x)'
  <2>1. \A a \in Addr : a < h \/ a >= h + s => mem'[a] = mem[a]
    <3>1. \A a \in Addr : a \notin {h, h + need - 1, h + need, h + s - 1} => mem'[a] = mem[a]
      BY <1>10, Zenon
    <3>2. /\ h < h + s /\ h <= h + need - 1 /\ h + need - 1 < h + s
          /\ h <= h + need /\ h + need < h + s /\ h <= h + s - 1 /\ h + s - 1 < h + s
      BY <1>2, <1>7, <1>8
    <3>3. \A a \in Addr : a \in Int
      BY DEF Addr
    <3>4. \A a \in Addr : a < h \/ a >= h + s
            => a \notin {h, h + need - 1, h + need, h + s - 1}
      BY <1>7, <1>8, <3>2, <3>3
    <3> QED
      BY <3>1, <3>4
  <2>2. h + s \in Nat /\ h < h + s
    BY <1>2, <1>7, <1>8
  <2>3. Next1(x) <= h \/ x >= h + s
    BY <1>7, <1>16, <1>17
  <2> QED
    BY <1>1, <1>7, <2>1, <2>2, <2>3, Untouched
<1>18. q \notin H
  BY <1>7, <1>12, <1>16
<1>19. Tiled(K)'
  <2>1. K \subseteq Addr /\ {0, 2, End - 2} \subseteq K
    BY <1>1, <1>12, <1>13 DEF Tiled
  <2>2. \A x \in K : BlockAt(x)'
    BY <1>13, <1>14, <1>15, <1>17
  <2>3. h + s \in H \cup {End}
    BY <1>1, <1>5, <1>7 DEF Tiled
  <2>4. \A x \in K : Next1(x)' \in K \cup {End}
    BY <1>1, <1>13, <1>14, <1>15, <1>17, <2>3 DEF Tiled
  <2>5. ASSUME NEW g \in K, NEW x \in K, g < x PROVE Next1(g)' <= x
    <3>1. CASE g = h
      <4>1. Next1(g)' = q
        BY <1>14, <3>1
      <4>2. CASE x = q
        BY <1>11, <4>1, <4>2
      <4>3. CASE x \in H
        <5>1. h + s <= x /\ x \in Nat
          BY <1>16, <2>5, <3>1, <4>3
        <5> QED
          BY <1>7, <1>12, <4>1, <5>1
      <4> QED
        BY <1>13, <4>2, <4>3
    <3>2. CASE g = q
      <4>1. x \in H /\ h < x
        BY <1>7, <1>12, <1>13, <1>16, <2>5, <3>2
      <4> QED
        BY <1>15, <1>16, <3>2, <4>1
    <3>3. CASE g \in H \ {h} /\ x \in H
      BY <1>1, <1>17, <2>5, <3>3 DEF Tiled
    <3>4. CASE g \in H \ {h} /\ x = q
      <4>1. g < h
        BY <1>7, <1>12, <1>16, <2>5, <3>4
      <4>2. Next1(g)' <= h /\ Next1(g) \in Nat
        BY <1>1, <1>16, <1>17, <3>4, <4>1, BlockBounds
      <4> QED
        BY <1>7, <1>12, <1>17, <3>4, <4>2
    <3> QED
      BY <1>13, <3>1, <3>2, <3>3, <3>4
  <2>6. ASSUME NEW a \in Addr PROVE \E x \in K : x <= a /\ a < Next1(x)'
    <3>1. PICK x \in H : x <= a /\ a < Next1(x)
      BY <1>1 DEF Tiled
    <3>2. CASE x # h
      BY <1>13, <1>17, <3>1, <3>2
    <3>3. CASE x = h /\ a < q
      BY <1>13, <1>14, <3>1, <3>3
    <3>4. CASE x = h /\ ~(a < q)
      <4>1. q <= a /\ a < h + s
        BY <1>7, <3>1, <3>4 DEF Addr
      <4> QED
        BY <1>13, <1>15, <4>1
    <3> QED
      BY <3>2, <3>3, <3>4
  <2>7. ASSUME NEW x \in Ends PROVE mem'[x] = Bumper(2, TRUE) /\ x # h
    <3>1. x \in H /\ mem[x] = Bumper(2, TRUE)
      BY <1>1 DEF Tiled, Ends
    <3>2. x # h
      BY <1>8, <3>1 DEF Bumper
    <3> QED
      BY <1>17, <3>1, <3>2
  <2>8. ASSUME NEW b \in live'
        PROVE  b.hdr \in K \ Ends /\ mem'[b.hdr] = Bumper(b.size, TRUE)
    <3>1. CASE b \in live
      <4>1. b.hdr \in H \ Ends /\ mem[b.hdr] = Bumper(b.size, TRUE)
        BY <1>1, <3>1 DEF Tiled
      <4>2. b.hdr # h
        BY <1>8, <4>1 DEF Bumper
      <4> QED
        BY <1>13, <1>17, <4>1, <4>2
    <3>2. CASE b = [hdr |-> h, size |-> need]
      <4>1. b.hdr = h /\ b.size = need
        BY <3>2
      <4> QED
        BY <1>5, <1>13, <1>14, <2>7, <4>1
    <3> QED
      BY <1>4, <3>1, <3>2
  <2>9. ASSUME NEW x \in K \ Ends, mem'[x].used
        PROVE  [hdr |-> x, size |-> mem'[x].size] \in live'
    <3>1. x # q
      BY <1>15, <2>9 DEF Bumper
    <3>2. CASE x = h
      BY <1>4, <1>14, <3>2 DEF Bumper
    <3>3. CASE x \in H \ {h}
      BY <1>1, <1>4, <1>17, <2>9, <3>3 DEF Tiled
    <3> QED
      BY <1>13, <3>1, <3>2, <3>3
  <2>10. ASSUME NEW x \in H, ~mem[x].used
         PROVE  Next1(x) \in K /\ mem'[Next1(x)].used
    <3>1. Next1(x) \in H /\ mem[Next1(x)].used
      BY <1>1, <2>10 DEF Tiled
    <3>2. Next1(x) # h
      BY <1>8, <3>1
    <3> QED
      BY <1>13, <1>17, <3>1, <3>2
  <2>11. ASSUME NEW x \in K, ~mem'[x].used
         PROVE  Next1(x)' \in K /\ mem'[Next1(x)'].used
    <3>1. x # h
      BY <1>14, <2>11 DEF Bumper
    <3>2. CASE x = q
      BY <1>5, <1>7, <1>8, <1>15, <2>10, <3>2
    <3>3. CASE x \in H \ {h}
      BY <1>17, <2>10, <2>11, <3>3
    <3> QED
      BY <1>13, <3>1, <3>2, <3>3
  <2> QED
    BY <2>1, <2>2, <2>4, <2>5, <2>6, <2>7, <2>8, <2>9, <2>11 DEF Tiled
<1>20. TypeInv'
  <2>1. [hdr |-> h, size |-> need] \in [hdr : Addr, size : Nat]
    BY <1>2, <1>7
  <2> QED
    BY <1>1, <1>4, <1>10, <2>1 DEF TypeInv
<1>21. K \in SUBSET Addr
  BY <1>12, <1>13
<1> QED
  BY <1>19, <1>20, <1>21 DEF HeapInv

\* What a client writes into its block leaves the bumpers alone.
LEMMA WriteStep ==
  ASSUME HeapInv, NEW b \in live, Write(b)
  PROVE  HeapInv'
<1>1. PICK H \in SUBSET Addr : TypeInv /\ Tiled(H)
  BY DEF HeapInv
<1>2. /\ b.hdr \in H /\ b.hdr \in Nat /\ b.size \in Nat /\ b.size > 0
      /\ Next1(b.hdr) = b.hdr + b.size
  BY <1>1, HeldBlock
<1>3. PICK I : I = (b.hdr + 1)..(b.hdr + b.size - 2)
  OBVIOUS
<1>4. mem' = [a \in Addr |-> IF a \in I THEN Junk ELSE mem[a]] /\ live' = live
  BY <1>3 DEF Write
<1>5. TypeInv'
  <2>1. Junk \in [size : Nat, used : BOOLEAN]
    BY DEF Junk, Bumper
  <2> QED
    BY <1>1, <1>4, <2>1 DEF TypeInv
<1>6. ASSUME NEW x \in H
      PROVE  mem'[x] = mem[x] /\ Next1(x)' = Next1(x) /\ BlockAt(x)'
  <2>1. /\ x \in Nat /\ x \in Addr /\ Next1(x) \in Nat /\ x < Next1(x) /\ Next1(x) <= End
        /\ mem[x].size > 0 /\ Next1(x) - 1 \in Addr /\ mem[Next1(x) - 1] = mem[x]
    BY <1>1, BlockBounds
  <2>2. /\ x < b.hdr => Next1(x) <= b.hdr
        /\ b.hdr < x => b.hdr + b.size <= x
    BY <1>1, <1>2 DEF Tiled
  <2>3. x \notin I
    BY <1>2, <1>3, <2>1, <2>2
  <2>4. Next1(x) - 1 \notin I
    BY <1>2, <1>3, <2>1, <2>2
  <2>5. mem'[x] = mem[x] /\ mem'[Next1(x) - 1] = mem[Next1(x) - 1]
    BY <1>4, <2>1, <2>3, <2>4
  <2>6. Next1(x)' = Next1(x)
    BY <2>5 DEF Next1
  <2>7. BlockAt(x)'
    BY <2>1, <2>5, <2>6 DEF BlockAt
  <2> QED
    BY <2>5, <2>6, <2>7
<1>7. Tiled(H)'
  <2>1. H \subseteq Addr /\ {0, 2, End - 2} \subseteq H
    BY <1>1 DEF Tiled
  <2>2. \A x \in H : BlockAt(x)' /\ Next1(x)' \in H \cup {End}
    BY <1>1, <1>6 DEF Tiled
  <2>3. \A g, x \in H : g < x => Next1(g)' <= x
    BY <1>1, <1>6 DEF Tiled
  <2>4. \A a \in Addr : \E x \in H : x <= a /\ a < Next1(x)'
    BY <1>1, <1>6 DEF Tiled
  <2>5. \A x \in Ends : mem'[x] = Bumper(2, TRUE)
    BY <1>1, <1>6 DEF Tiled, Ends
  <2>6. \A d \in live' : d.hdr \in H \ Ends /\ mem'[d.hdr] = Bumper(d.size, TRUE)
    BY <1>1, <1>4, <1>6 DEF Tiled
  <2>7. \A x \in H \ Ends : mem'[x].used => [hdr |-> x, size |-> mem'[x].size] \in live'
    BY <1>1, <1>4, <1>6 DEF Tiled
  <2>8. \A x \in H : ~mem'[x].used => Next1(x)' \in H /\ mem'[Next1(x)'].used
    BY <1>1, <1>6 DEF Tiled
  <2> QED
    BY <2>1, <2>2, <2>3, <2>4, <2>5, <2>6, <2>7, <2>8 DEF Tiled
<1> QED
  BY <1>5, <1>7 DEF HeapInv, Addr

-----------------------------------------------------------------------------
(* free.                                                                   *)

\* A row of blocks from L to R, of which none but that of b was in use, becomes one free
\* block; nothing free is left before or behind it.
LEMMA MergeStep ==
  ASSUME TypeInv, NEW H \in SUBSET Addr, Tiled(H), NEW b \in live,
         NEW L \in H \ Ends, NEW R \in H, L <= b.hdr, b.hdr < R,
         \A x \in H : L <= x /\ x < R => x = b.hdr \/ ~mem[x].used,
         mem[R].used, \A x \in H : Next1(x) = L => mem[x].used,
         mem' = [mem EXCEPT ![L] = Bumper(R - L, FALSE), ![R - 1] = Bumper(R - L, FALSE)],
         live' = live \ {b}
  PROVE  HeapInv'
<1>1. \A x \in H : /\ x \in Nat /\ x \in Addr /\ x < End
                   /\ Next1(x) \in Nat /\ x < Next1(x) /\ Next1(x) <= End
  BY BlockBounds
<1>2. \A x, y \in H : x < y => Next1(x) <= y
  BY DEF Tiled
<1>3. /\ b.hdr \in H /\ b.hdr \in Nat /\ mem[b.hdr] = Bumper(b.size, TRUE)
  BY HeldBlock
<1>4. L \in Nat /\ R \in Nat /\ L < R /\ R < End /\ L \in Addr /\ R - 1 \in Addr
  BY <1>1, <1>3 DEF Addr
<1>5. PICK c : c = [size |-> R - L, used |-> FALSE]
  OBVIOUS
<1>6. c \in [size : Nat, used : BOOLEAN] /\ c.size = R - L /\ c.used = FALSE
  BY <1>4, <1>5
<1>7. /\ mem' \in [Addr -> [size : Nat, used : BOOLEAN]]
      /\ mem'[L] = c /\ mem'[R - 1] = c
      /\ \A a \in Addr \ {L, R - 1} : mem'[a] = mem[a]
  <2>1. mem' = [mem EXCEPT ![L] = c, ![R - 1] = c]
    BY <1>5 DEF Bumper
  <2>2. mem \in [Addr -> [size : Nat, used : BOOLEAN]]
    BY DEF TypeInv
  <2>3. PICK m : m = [mem EXCEPT ![L] = c]
    OBVIOUS
  <2>4. /\ m \in [Addr -> [size : Nat, used : BOOLEAN]] /\ m[L] = c
        /\ \A a \in Addr \ {L} : m[a] = mem[a]
    BY <1>4, <1>6, <2>2, <2>3
  <2>5. mem' = [m EXCEPT ![R - 1] = c]
    BY <2>1, <2>3
  <2> QED
    BY <1>4, <1>6, <2>4, <2>5
<1>8. PICK K : K = {x \in H : x <= L \/ x >= R}
  OBVIOUS
<1>9. L \in K /\ R \in K /\ K \subseteq H
  BY <1>4, <1>8
<1>10. ASSUME NEW x \in K, x # L
       PROVE  mem'[x] = mem[x] /\ Next1(x)' = Next1(x) /\ BlockAt(x)'
  <2>1. \A a \in Addr : a < L \/ a >= R => mem'[a] = mem[a]
    <3>1. \A a \in Addr : a < L \/ a >= R => a # L /\ a # R - 1
      BY <1>4 DEF Addr
    <3> QED
      BY <1>7, <3>1
  <2>2. x \in H /\ (x < L \/ x >= R)
    BY <1>1, <1>4, <1>8, <1>10
  <2>3. Next1(x) <= L \/ x >= R
    BY <1>2, <2>2
  <2> QED
    BY <1>4, <2>1, <2>2, <2>3, Untouched
<1>11. Next1(L)' = R /\ BlockAt(L)'
  <2>1. mem'[L].size = R - L /\ mem'[R - 1] = mem'[L]
    BY <1>6, <1>7
  <2>2. Next1(L)' = L + mem'[L].size
    BY DEF Next1
  <2>3. Next1(L)' = R
    BY <1>4, <2>1, <2>2
  <2>4. R - L > 0 /\ R <= End
    BY <1>4
  <2>5. mem'[L].size > 0
    BY <2>1, <2>4
  <2> QED
    BY <2>1, <2>3, <2>4, <2>5 DEF BlockAt
<1>12. b.hdr \notin K \ {L}
  BY <1>3, <1>4, <1>8
<1>13. ASSUME NEW d \in live, d # b PROVE d.hdr \in K \ {L} /\ d.hdr \notin Ends
  <2>1. d.hdr \in H \ Ends /\ mem[d.hdr] = Bumper(d.size, TRUE)
    BY DEF Tiled
  <2>2. mem[d.hdr].used
    BY <2>1 DEF Bumper
  <2>3. d.hdr # b.hdr
    <3> SUFFICES ASSUME d.hdr = b.hdr PROVE FALSE
      OBVIOUS
    <3>1. b.size = d.size
      BY <1>3, <2>1 DEF Bumper
    <3>2. b \in [hdr : Addr, size : Nat] /\ d \in [hdr : Addr, size : Nat]
      BY DEF TypeInv
    <3> QED
      BY <1>13, <3>1, <3>2
  <2>4. ~(L <= d.hdr /\ d.hdr < R)
    BY <2>1, <2>2, <2>3
  <2>5. d.hdr \in Nat
    BY <1>1, <2>1
  <2> QED
    BY <1>4, <1>8, <2>1, <2>4, <2>5
<1>14. Tiled(K)'
  <2>1. K \subseteq Addr /\ {0, 2, End - 2} \subseteq K
    <3>1. {0, 2, End - 2} \subseteq H
      BY DEF Tiled
    <3>2. Next1(0) = 2 /\ Next1(End - 2) = End
      <4>1. mem[0].size = 2 /\ mem[End - 2].size = 2
        BY DEF Tiled, Ends, Bumper
      <4> QED
        BY <4>1 DEF Next1
    <3>3. L # 0 /\ L # End - 2
      BY DEF Ends
    <3>4. 2 <= L
      BY <1>1, <1>2, <1>4, <3>1, <3>2, <3>3
    <3>5. R <= End - 2
      <4> SUFFICES ASSUME End - 2 < R PROVE FALSE
        BY <1>4
      <4>1. Next1(End - 2) <= R
        BY <1>2, <3>1
      <4> QED
        BY <1>4, <3>2, <4>1
    <3>6. 0 <= L /\ End - 2 >= R
      BY <1>4, <3>5
    <3> QED
      BY <1>8, <3>1, <3>4, <3>6
  <2>2. \A x \in K : BlockAt(x)'
    BY <1>10, <1>11
  <2>3. ASSUME NEW x \in K, x # L PROVE Next1(x) \in K \cup {End}
    <3>1. x \in H /\ Next1(x) \in H \cup {End} /\ Next1(x) \in Nat /\ x \in Nat
      BY <1>1, <1>9 DEF Tiled
    <3>2. CASE x < L
      <4>1. Next1(x) <= L
        BY <1>2, <3>1, <3>2
      <4> QED
        BY <1>8, <3>1, <4>1
    <3>3. CASE x >= R
      <4>1. Next1(x) >= R
        BY <1>1, <1>4, <3>1, <3>3
      <4> QED
        BY <1>8, <3>1, <4>1
    <3> QED
      BY <1>4, <1>8, <2>3, <3>1, <3>2, <3>3
  <2>4. \A x \in K : Next1(x)' \in K \cup {End}
    BY <1>9, <1>10, <1>11, <2>3
  <2>5. ASSUME NEW g \in K, NEW x \in K, g < x PROVE Next1(g)' <= x
    <3>1. CASE g = L
      BY <1>1, <1>4, <1>8, <1>11, <2>5, <3>1
    <3>2. CASE g # L
      BY <1>2, <1>9, <1>10, <2>5, <3>2
    <3> QED
      BY <3>1, <3>2
  <2>6. ASSUME NEW a \in Addr PROVE \E x \in K : x <= a /\ a < Next1(x)'
    <3>1. PICK x \in H : x <= a /\ a < Next1(x)
      BY DEF Tiled
    <3>2. CASE x \in K \ {L}
      BY <1>10, <3>1, <3>2
    <3>3. CASE x \notin K \ {L}
      <4>1. L <= x /\ x < R
        BY <1>1, <1>4, <1>8, <3>3
      <4>2. Next1(x) <= R /\ Next1(x) \in Nat /\ x \in Nat /\ a \in Nat
        BY <1>1, <1>2, <4>1 DEF Addr
      <4>3. L <= a /\ a < R
        BY <1>4, <3>1, <4>1, <4>2
      <4> QED
        BY <1>9, <1>11, <4>3
    <3> QED
      BY <3>2, <3>3
  <2>7. \A x \in Ends : mem'[x] = Bumper(2, TRUE)
    <3> TAKE x \in Ends
    <3>1. x \in K /\ x # L
      BY <2>1 DEF Ends
    <3>2. mem[x] = Bumper(2, TRUE)
      BY DEF Tiled
    <3> QED
      BY <1>10, <3>1, <3>2
  <2>8. \A d \in live' : d.hdr \in K \ Ends /\ mem'[d.hdr] = Bumper(d.size, TRUE)
    <3> TAKE d \in live'
    <3>1. d \in live /\ d # b
      OBVIOUS
    <3>2. d.hdr \in K \ {L} /\ d.hdr \notin Ends
      BY <1>13, <3>1
    <3>3. mem[d.hdr] = Bumper(d.size, TRUE)
      BY <3>1 DEF Tiled
    <3> QED
      BY <1>10, <3>2, <3>3
  <2>9. ASSUME NEW x \in K \ Ends, mem'[x].used
        PROVE  [hdr |-> x, size |-> mem'[x].size] \in live'
    <3>1. x # L
      BY <1>6, <1>7, <2>9
    <3>2. mem'[x] = mem[x] /\ x \in H \ Ends
      BY <1>9, <1>10, <3>1
    <3>3. [hdr |-> x, size |-> mem[x].size] \in live
      BY <2>9, <3>2 DEF Tiled
    <3>4. x # b.hdr
      BY <1>12, <3>1
    <3>5. [hdr |-> x, size |-> mem[x].size] # b
      <4>1. [hdr |-> x, size |-> mem[x].size].hdr = x
        OBVIOUS
      <4> QED
        BY <3>4, <4>1
    <3>6. mem'[x].size = mem[x].size
      BY <3>2
    <3>7. [hdr |-> x, size |-> mem[x].size] \in live'
      BY <3>3, <3>5
    <3> QED
      BY <3>6, <3>7
  <2>10. ASSUME NEW x \in K, ~mem'[x].used
         PROVE  Next1(x)' \in K /\ mem'[Next1(x)'].used
    <3>1. CASE x = L
      <4>1. mem'[R] = mem[R]
        <5>1. R # L
          BY <1>4
        <5> QED
          BY <1>9, <1>10, <5>1
      <4> QED
        BY <1>9, <1>11, <3>1, <4>1
    <3>2. CASE x # L
      <4>1. mem'[x] = mem[x] /\ Next1(x)' = Next1(x) /\ x \in H
        BY <1>9, <1>10, <3>2
      <4>2. Next1(x) \in H /\ mem[Next1(x)].used
        BY <2>10, <4>1 DEF Tiled
      <4>3. Next1(x) # L
        BY <2>10, <4>1
      <4>4. Next1(x) \in K
        BY <1>1, <2>3, <3>2, <4>2
      <4> QED
        BY <1>10, <4>1, <4>2, <4>3, <4>4
    <3> QED
      BY <3>1, <3>2
  <2> QED
    BY <2>1, <2>2, <2>4, <2>5, <2>6, <2>7, <2>8, <2>9, <2>10 DEF Tiled
<1>15. TypeInv'
  BY <1>7 DEF TypeInv
<1>16. K \in SUBSET Addr
  BY <1>8
<1> QED
  BY <1>14, <1>15, <1>16 DEF HeapInv

\* free finds the bumpers of the neighbours, and merges with those that are free.
LEMMA FreeStep ==
  ASSUME HeapInv, NEW b \in live, Free(b)
  PROVE  HeapInv'
<1>1. PICK H \in SUBSET Addr : TypeInv /\ Tiled(H)
  BY DEF HeapInv
<1>2. PICK h \in H : h = b.hdr
  BY <1>1, HeldBlock
<1>3. PICK s \in Nat : s = b.size /\ s > 0
  BY <1>1, HeldBlock
<1>4. /\ h \in Nat /\ 2 <= h /\ h + s <= End - 2 /\ h + s \in H /\ Next1(h) = h + s
      /\ mem[h] = Bumper(s, TRUE) /\ mem[h].size = s
  BY <1>1, <1>2, <1>3, HeldBlock DEF Bumper
<1>5. \A x \in H : /\ x \in Nat /\ x \in Addr /\ x < Next1(x) /\ Next1(x) \in Nat
                   /\ mem[x] \in [size : Nat, used : BOOLEAN]
                   /\ mem[Next1(x) - 1] = mem[x]
  BY <1>1, BlockBounds
<1>6. \A x, y \in H : x < y => Next1(x) <= y
  BY <1>1 DEF Tiled
<1>7. PICK g \in H : g < h /\ Next1(g) = h
  <2>1. h - 1 \in Addr
    BY <1>4, <1>5 DEF Addr
  <2>2. PICK g \in H : g <= h - 1 /\ h - 1 < Next1(g)
    BY <1>1, <2>1 DEF Tiled
  <2>3. g < h
    BY <1>4, <1>5, <2>2
  <2>4. Next1(g) <= h
    BY <1>6, <2>3
  <2> QED
    BY <1>4, <1>5, <2>2, <2>3, <2>4
<1>8. mem[h - 1] = mem[g] /\ h - mem[g].size = g
  BY <1>4, <1>5, <1>7 DEF Next1
<1>9. PICK r \in H : r = h + s
  BY <1>4
<1>10. PICK L : L = IF ~mem[g].used THEN g ELSE h
  OBVIOUS
<1>11. PICK R : R = IF ~mem[r].used THEN Next1(r) ELSE r
  OBVIOUS
<1>12. \A x \in H : ~mem[x].used => Next1(x) \in H /\ mem[Next1(x)].used
  BY <1>1 DEF Tiled
<1>13. \A x \in Ends : mem[x].used
  BY <1>1 DEF Tiled, Bumper
<1>14. L \in H \ Ends /\ L <= h
  <2>1. h \notin Ends
    BY <1>2, <1>1 DEF Tiled
  <2> QED
    BY <1>4, <1>5, <1>7, <1>10, <1>13, <2>1
<1>15. R \in H /\ r <= R /\ h < R /\ mem[R].used
  <2>1. r \in Nat /\ h < r
    BY <1>3, <1>4, <1>5, <1>9
  <2>2. CASE mem[r].used
    BY <1>11, <2>1, <2>2
  <2>3. CASE ~mem[r].used
    BY <1>4, <1>5, <1>11, <1>12, <2>1, <2>3
  <2> QED
    BY <2>2, <2>3
<1>16. ASSUME NEW x \in H, L <= x, x < R PROVE x = h \/ ~mem[x].used
  <2>1. x \in Nat
    BY <1>5
  <2>2. CASE x < h
    <3>1. L = g /\ ~mem[g].used /\ g <= x
      BY <1>4, <1>10, <1>16, <2>1, <2>2
    <3>2. ~(g < x)
      BY <1>4, <1>6, <1>7, <2>1, <2>2
    <3> QED
      BY <1>5, <3>1, <3>2
  <2>3. CASE h < x
    <3>1. r <= x
      BY <1>4, <1>6, <1>9, <2>3
    <3>2. ~mem[r].used /\ x < Next1(r)
      BY <1>5, <1>9, <1>11, <1>16, <2>1, <3>1
    <3>3. ~(r < x)
      BY <1>5, <1>6, <2>1, <3>2
    <3> QED
      BY <1>5, <2>1, <3>1, <3>2, <3>3
  <2> QED
    BY <1>4, <2>1, <2>2, <2>3
<1>17. ASSUME NEW x \in H, Next1(x) = L PROVE mem[x].used
  <2> SUFFICES ASSUME ~mem[x].used PROVE FALSE
    OBVIOUS
  <2>1. mem[L].used
    BY <1>12, <1>17
  <2>2. L = h /\ mem[g].used
    BY <1>10, <2>1
  <2>3. x = g
    <3>1. x \in Nat /\ g \in Nat
      BY <1>5
    <3>2. ~(x < g) /\ ~(g < x)
      BY <1>5, <1>6, <1>7, <1>17, <2>2
    <3> QED
      BY <3>1, <3>2
  <2> QED
    BY <2>2, <2>3
<1>18. PICK f \in Nat : f = h + s - 1
  BY <1>3, <1>4
<1>19. f + 1 = r /\ f = h + mem[h].size - 1
  <2>1. f + 1 = r
    BY <1>3, <1>4, <1>9, <1>18
  <2>2. f = h + mem[h].size - 1
    BY <1>4, <1>18
  <2> QED
    BY <2>1, <2>2
<1>20. MergeLeft(h) = L
  BY <1>8, <1>10 DEF MergeLeft, Mergeable
<1>21. MergeRight(f) = R - 1
  <2>1. mem[r].size \in Nat /\ Next1(r) = r + mem[r].size
    BY <1>5 DEF Next1
  <2> QED
    BY <1>5, <1>11, <1>18, <1>19, <2>1 DEF MergeRight, Mergeable
<1>22. s + (IF Mergeable(h - 1) THEN mem[L].size ELSE 0)
         + (IF Mergeable(f + 1) THEN mem[R - 1].size ELSE 0) = R - L
  <2>1. PICK x \in Int : x = IF Mergeable(h - 1) THEN mem[L].size ELSE 0
    BY <1>5, <1>14
  <2>2. x = h - L
    BY <1>4, <1>5, <1>8, <1>10, <2>1 DEF Mergeable
  <2>3. PICK y : y = IF Mergeable(f + 1) THEN mem[R - 1].size ELSE 0
    OBVIOUS
  <2>4. y = R - r
    <3>1. CASE ~mem[r].used
      <4>1. R = Next1(r) /\ mem[R - 1] = mem[r] /\ Next1(r) = r + mem[r].size
        BY <1>5, <1>11, <3>1 DEF Next1
      <4>2. y = mem[r].size
        BY <1>19, <2>3, <3>1, <4>1 DEF Mergeable
      <4> QED
        BY <1>5, <4>1, <4>2
    <3>2. CASE mem[r].used
      BY <1>5, <1>11, <1>19, <2>3, <3>2 DEF Mergeable
    <3> QED
      BY <3>1, <3>2
  <2>5. R \in Nat /\ L \in Nat /\ r \in Nat
    BY <1>5, <1>14, <1>15
  <2>6. s + x + y = R - L
    BY <1>4, <1>9, <2>2, <2>4, <2>5
  <2> QED
    BY <2>1, <2>3, <2>6
<1>23. mem' = [mem EXCEPT ![L] = Bumper(R - L, FALSE), ![R - 1] = Bumper(R - L, FALSE)]
  BY <1>2, <1>4, <1>19, <1>20, <1>21, <1>22 DEF Free
<1>24. live' = live \ {b}
  BY DEF Free
<1> QED
  BY <1>1, <1>2, <1>14, <1>15, <1>16, <1>17, <1>23, <1>24, MergeStep

-----------------------------------------------------------------------------
(* The theorems.                                                           *)

\* However blocks are allocated, written, freed, split and merged, the heap stays a row of
\* blocks: HeapInv is an invariant of the specification.
THEOREM HeapStaysTiled == ~ExactFits => (Spec => []HeapInv)
<1> SUFFICES ASSUME ~ExactFits PROVE Spec => []HeapInv
  OBVIOUS
<1>1. HeapInv /\ [Next]_vars => HeapInv'
  <2> SUFFICES ASSUME HeapInv, [Next]_vars PROVE HeapInv'
    OBVIOUS
  <2>1. CASE \E n \in Sizes : Alloc(n)
    BY <2>1, AllocStep
  <2>2. CASE \E b \in live : Write(b)
    BY <2>2, WriteStep
  <2>3. CASE \E b \in live : Free(b)
    BY <2>3, FreeStep
  <2>4. CASE UNCHANGED vars
    BY <2>4 DEF vars, HeapInv, TypeInv, Tiled, BlockAt, Next1
  <2> QED
    BY <2>1, <2>2, <2>3, <2>4 DEF Next
<1> QED
  BY InitHeap, <1>1, PTL DEF Spec

\* "A Bumper is stored in the memory immediately before and after an allocated block": no
\* sequence of alloc and free, and nothing that clients write, damages one.
THEOREM BumpersStay == ~ExactFits => (Spec => []BumpersIntact)
  BY HeapStaysTiled, HeapBumpers, PTL

\* alloc never hands out a word of a block that somebody holds, nor one outside the heap.
THEOREM NoOverlap == ~ExactFits => (Spec => []BlocksDisjoint)
  BY HeapStaysTiled, HeapDisjoint, PTL

\* The walk from header to header always comes to the end of the heap, past all blocks.
THEOREM WalkIsComplete == ~ExactFits => (Spec => []WalkCovers)
  BY HeapStaysTiled, HeapWalk, PTL

\* alloc reports that it is out of resources only if no run of free words is long enough.
THEOREM FailsOnlyIfFull == ~ExactFits => (Spec => []NoFalseExhaustion)
  BY HeapStaysTiled, HeapExhausted, PTL

=============================================================================
