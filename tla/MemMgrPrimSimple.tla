------------------------- MODULE MemMgrPrimSimple -------------------------
(***************************************************************************)
(* The heap of one core (l0/MemMgrPrimSimple.c), word by word.  A block    *)
(* has a "bumper", its size and a used bit, in its first and in its last   *)
(* word; alloc walks from bumper to bumper to the first free block that is *)
(* large enough and splits it, free merges a block with its free           *)
(* neighbours.  The heap lies between a used prologue and a used epilogue  *)
(* block of two words each.  Sizes and addresses are counted in words: the *)
(* code rounds every request up to words.                                  *)
(***************************************************************************)
EXTENDS Integers, FiniteSets

CONSTANTS End,        \* self->end - self->mem, in words
          Sizes,      \* the sizes clients ask for
          ExactFits   \* FALSE: clients never meet a free block of just their size

ASSUME MemMgrAssumption ==
  /\ End \in Nat /\ End > 6
  /\ Sizes \subseteq Nat \ {0}
  /\ ExactFits \in BOOLEAN

VARIABLES mem,   \* the words of the heap, read as bumpers
          live   \* the blocks clients hold: [hdr, size], size with the bumpers

vars == <<mem, live>>

Addr == 0..(End - 1)
Bumper(s, u) == [size |-> s, used |-> u]
Junk == Bumper(0, FALSE)   \* what clients write, and what memory holds at first

\* init_rep: prologue, one free block, epilogue.
Init ==
  /\ mem = [a \in Addr |-> CASE a \in {0, 1, End - 2, End - 1} -> Bumper(2, TRUE)
                             [] a \in {2, End - 3} -> Bumper(End - 4, FALSE)
                             [] OTHER -> Junk]
  /\ live = {}

-----------------------------------------------------------------------------
\* The request with its two bumpers.  Mutant: only the header is counted.
HeaderOnly(n) == n + 1
Need(n) == n + 2

\* Mutant: the used bit is not looked at.
LargeEnough(h, need) == mem[h].size >= need
Fits(h, need) == ~mem[h].used /\ mem[h].size >= need

\* alloc's search: it goes from header to header, and stops at the first block
\* that fits and when it leaves the heap.
Hop(h, need) == IF h >= End \/ Fits(h, need) THEN h ELSE h + mem[h].size

Reached(need) == LET at[n \in 0..End] == IF n = 0 THEN 0 ELSE Hop(at[n - 1], need)
                 IN at

Search(need) == Reached(need)[End]

\* The words alloc writes, in its order: the used bit, the size of the remainder
\* into the block's footer, the new size into the header, the new footer, and
\* the remainder's header, which is the next word even if nothing remains.
Split(h, need) ==
  LET oldFtr == h + mem[h].size - 1
      newFtr == h + need - 1
      m1 == [mem EXCEPT ![h].used = TRUE, ![oldFtr].size = @ - need]
      m2 == [m1 EXCEPT ![h].size = need]
      m3 == [m2 EXCEPT ![newFtr] = m2[h]]
  IN [m3 EXCEPT ![newFtr + 1] = m3[oldFtr]]

Alloc(n) ==
  LET h == Search(Need(n)) IN
  /\ h < End               \* otherwise EBBRC_OUTOFRESOURCES and no change
  /\ mem[h].size = Need(n) => ExactFits
  /\ mem' = Split(h, Need(n))
  /\ live' = live \cup {[hdr |-> h, size |-> n + 2]}

\* The client writes all over its block.
Write(b) ==
  /\ mem' = [a \in Addr |-> IF a \in (b.hdr + 1)..(b.hdr + b.size - 2) THEN Junk
                            ELSE mem[a]]
  /\ UNCHANGED live

\* free merges with a neighbour whose bumper says it is free: where the merged
\* block begins and ends.  Mutants: nothing is merged; the left neighbour is
\* counted but not entered.
NeverMerged(a) == FALSE
Mergeable(a) == ~mem[a].used
KeepLeft(h) == h
MergeLeft(h) == IF Mergeable(h - 1) THEN h - mem[h - 1].size ELSE h
MergeRight(f) == IF Mergeable(f + 1) THEN f + mem[f + 1].size ELSE f

\* The new size adds up the sizes in the bumpers found on the way.
Free(b) ==
  LET h == b.hdr
      f == h + mem[h].size - 1
      left == MergeLeft(h)
      right == MergeRight(f)
      size == mem[h].size + (IF Mergeable(h - 1) THEN mem[left].size ELSE 0)
                          + (IF Mergeable(f + 1) THEN mem[right].size ELSE 0)
  IN /\ mem[h].size = b.size     \* LRT_Assert(size == hdr->size - 2 bumpers)
     /\ mem' = [mem EXCEPT ![left] = Bumper(size, FALSE),
                           ![right] = Bumper(size, FALSE)]
     /\ live' = live \ {b}

Next == \/ \E n \in Sizes : Alloc(n)
        \/ \E b \in live : Write(b) \/ Free(b)

Spec == Init /\ [][Next]_vars

-----------------------------------------------------------------------------
\* The headers a walk over the whole heap meets, and the words nobody holds.
Headers == {Reached(End)[n] : n \in 0..End} \ {End}
Words(b) == b.hdr..(b.hdr + b.size - 1)
Unheld == (2..(End - 3)) \ UNION {Words(b) : b \in live}

\* "A Bumper is stored in the memory immediately before and after an allocated
\* block", with its size: the bumpers of the blocks that clients hold, and of
\* the prologue and the epilogue, stay as alloc and init_rep wrote them.
BumpersIntact ==
  \A b \in live \cup {[hdr |-> 0, size |-> 2], [hdr |-> End - 2, size |-> 2]} :
    /\ mem[b.hdr] = Bumper(b.size, TRUE)
    /\ mem[b.hdr + b.size - 1] = Bumper(b.size, TRUE)

\* The blocks that alloc hands out never overlap and never leave the heap.
BlocksDisjoint ==
  \A b \in live : /\ Words(b) \subseteq 2..(End - 3)
                  /\ \A d \in live \ {b} : Words(b) \cap Words(d) = {}

\* alloc's walk comes upon every block that is held and ends exactly at the end
\* of the heap, however blocks were split and merged before.
WalkCovers ==
  /\ Reached(End)[End] = End
  /\ {b.hdr : b \in live} \subseteq Headers

\* alloc fails only if there is really no room: free merges all that can be
\* merged, so a run of unheld words is one block.
NoFalseExhaustion ==
  \A n \in Sizes : Search(Need(n)) >= End =>
    ~\E a \in Unheld : a..(a + Need(n) - 1) \subseteq Unheld
=============================================================================
