----------------- MODULE SSACSimpleReplicatedArrayProofs -----------------
(***************************************************************************)
(* The replicated cache keeps its copies equal, its directory exact and    *)
(* saves up to date, for any number of processors, ids and entries, as     *)
(* long as every processor runs one client and flush runs alone: the way   *)
(* the tests use it.  CacheInv says of each entry, of each entry of the    *)
(* directory line, of the saves and of each client's locals what they hold *)
(* while other clients are between two steps of get, putback and flush;    *)
(* there is a lemma for each action.  The cardinality of the directory     *)
(* line enters once, where get needs a free entry (FreeLeft).              *)
(***************************************************************************)
EXTENDS SSACSimpleReplicatedArray, TLAPS, FiniteSetTheorems, NaturalsInduction,
        WellFoundedInduction

-----------------------------------------------------------------------------
(* Searches.                                                               *)

\* A set of numbers has a least one.
LEMMA LeastNat ==
  ASSUME NEW S, S \subseteq Nat, S # {}
  PROVE  Min(S) \in S /\ \A y \in S : Min(S) <= y
<1>1. \E R : /\ IsWellFoundedOn(R, Nat)
             /\ \A x, y \in Nat : <<y, x>> \in R <=> y < x
  <2>1. \A x, y \in Nat : <<y, x>> \in OpToRel(<, Nat) <=> y < x
    BY DEF OpToRel
  <2> QED
    BY <2>1, NatLessThanWellFounded
<1>2. PICK R : /\ IsWellFoundedOn(R, Nat)
               /\ \A x, y \in Nat : <<y, x>> \in R <=> y < x
  BY <1>1
<1>3. PICK x \in S : \A y \in S : ~(<<y, x>> \in R)
  BY <1>2, WFMin
<1>4. \A y \in S : x <= y
  <2> TAKE y \in S
  <2>1. ~(y < x)
    BY <1>2, <1>3
  <2> QED
    BY <2>1
<1> QED
  BY <1>4 DEF Min

\* FirstOr0 finds a member if there is one.
LEMMA FirstFinds ==
  ASSUME NEW S, S \subseteq Nat \ {0}
  PROVE  /\ S = {} => FirstOr0(S) = 0
         /\ S # {} => FirstOr0(S) \in S /\ FirstOr0(S) # 0
<1>1. CASE S = {}
  BY <1>1 DEF FirstOr0
<1>2. CASE S # {}
  <2>1. S \subseteq Nat
    OBVIOUS
  <2>2. Min(S) \in S
    BY <1>2, <2>1, LeastNat
  <2> QED
    BY <1>2, <2>2 DEF FirstOr0
<1> QED
  BY <1>1, <1>2

\* The search of a queue.
LEMMA SearchFinds ==
  ASSUME NEW p, NEW i
  PROVE  /\ Search(p, i) = 0 => \A s \in Slot : entries[p][s].id # i
         /\ Search(p, i) # 0 => Search(p, i) \in Slot /\ entries[p][Search(p, i)].id = i
<1> DEFINE S == {s \in Slot : entries[p][s].id = i}
<1>1. S \subseteq Nat \ {0}
  BY ReplicatedArrayAssumption DEF Slot
<1>2. Search(p, i) = FirstOr0(S)
  BY DEF Search
<1> QED
  BY <1>1, <1>2, FirstFinds

\* The search of the directory line.
LEMMA LookupFinds ==
  ASSUME NEW i
  PROVE  /\ LookupId(i) = 0 => \A d \in DirSlot : direntries[d].id # i
         /\ LookupId(i) # 0 => LookupId(i) \in DirSlot /\ direntries[LookupId(i)].id = i
<1> DEFINE S == {d \in DirSlot : direntries[d].id = i}
<1>1. S \subseteq Nat \ {0}
  BY DEF DirSlot
<1>2. LookupId(i) = FirstOr0(S)
  BY DEF LookupId
<1> QED
  BY <1>1, <1>2, FirstFinds

\* The search for a free entry.
LEMMA FreeFinds ==
  ASSUME NEW dir
  PROVE  /\ FreeDirEntry(dir) = 0 => \A d \in DirSlot : dir[d].id # None
         /\ FreeDirEntry(dir) # 0 => /\ FreeDirEntry(dir) \in DirSlot
                                     /\ dir[FreeDirEntry(dir)].id = None
<1> DEFINE S == {d \in DirSlot : dir[d].id = None}
<1>1. S \subseteq Nat \ {0}
  BY DEF DirSlot
<1>2. FreeDirEntry(dir) = FirstOr0(S)
  BY DEF FreeDirEntry
<1> QED
  BY <1>1, <1>2, FirstFinds

\* The least recently used entry is one that is not busy.
LEMMA LruFinds ==
  ASSUME NEW p, entries[p] \in [Slot -> CacheEntry], NotBusy(p) # {}
  PROVE  LruEntry(p) \in Slot /\ ~entries[p][LruEntry(p)].busy
<1>0. Slot \subseteq Nat /\ NotBusy(p) \subseteq Slot
  BY DEF Slot, NotBusy
<1>1. PICK f : f = [s \in Slot |-> entries[p][s].lastused]
  OBVIOUS
<1>2. f \in [Slot -> Nat]
  BY <1>1 DEF CacheEntry
<1>3. PICK U : U = {f[s] : s \in NotBusy(p)}
  OBVIOUS
<1>4. U \subseteq Nat /\ U # {}
  BY <1>0, <1>2, <1>3
<1>5. PICK m \in U : \A u \in U : m <= u
  BY <1>4, LeastNat
<1>6. PICK V : V = {s \in NotBusy(p) : f[s] = m}
  OBVIOUS
<1>7. V \subseteq Nat /\ V # {}
  BY <1>0, <1>3, <1>5, <1>6
<1>8. PICK s \in V : \A r \in V : s <= r
  BY <1>7, LeastNat
<1>9. s \in NotBusy(p) /\ f[s] = m
  BY <1>6, <1>8
<1>10. \A r \in NotBusy(p) : f[s] < f[r] \/ (f[s] = f[r] /\ s <= r)
  <2>1. TAKE r \in NotBusy(p)
  <2>2. f[r] \in U
    BY <1>3, <2>1
  <2>5. f[r] \in Nat /\ m \in Nat
    BY <1>4, <1>5, <2>2
  <2>3. m <= f[r]
    BY <1>5, <2>2
  <2>4. ASSUME f[r] = m PROVE s <= r
    <3>1. r \in V
      BY <1>6, <2>1, <2>4
    <3> QED
      BY <1>8, <3>1
  <2> QED
    BY <1>9, <2>3, <2>4, <2>5
<1>11. \A r \in NotBusy(p) : \/ entries[p][s].lastused < entries[p][r].lastused
                             \/ entries[p][s].lastused = entries[p][r].lastused /\ s <= r
  BY <1>0, <1>1, <1>9, <1>10
<1>12. LruEntry(p) \in NotBusy(p)
  BY <1>9, <1>11 DEF LruEntry
<1> QED
  BY <1>12 DEF NotBusy

-----------------------------------------------------------------------------
(* The inductive invariant.                                                *)

\* Every processor runs one client, as the workers of the tests do.
OneEach == \A t, u \in Thread : My(t) = My(u) => t = u

\* An id is being written; the writer at p has changed its copy; p has a place for a
\* copy but not the copy; the entry at s is being saved by flush.
Writer(i)     == \E u \in Thread : Writing(u) /\ req[u].id = i
Ahead(p, i)   == \E u \in Thread : /\ My(u) = p /\ req[u].id = i
                                   /\ pc[u] \in {"putdir", "puthash", "update"}
CopyAt(p, i)  == \E u \in Thread : My(u) = p /\ pc[u] = "copy" /\ req[u].id = i
Flushed(p, s) == \E u \in Thread : My(u) = p /\ pc[u] \in {"save", "saved"} /\ ep[u] = s

\* A client holds the directory's lock at these points, and nobody else does.
InDirectory(t) == \/ pc[t] \in {"hash2", "copy", "busy", "puthash", "update"}
                  \/ pc[t] = "hash1" /\ req[t].write
LockInv == \A t \in Thread : InDirectory(t) <=> dirlock = t

\* A processor has an id in one entry, the directory knows of it, the entry is busy
\* while the id is written or the entry is flushed, and its data is the last putback's.
EntryOK(p, s) ==
  LET e == entries[p][s] IN
  /\ e.id = None => ~e.busy
  /\ e.id # None =>
       /\ e.busy <=> Writer(e.id) \/ Flushed(p, s)
       /\ ~CopyAt(p, e.id) => e.data = IF Ahead(p, e.id) THEN Incr(e.id, latest[e.id])
                                                         ELSE latest[e.id]
       /\ \E d \in DirSlot : /\ direntries[d].id = e.id
                            /\ (p \in direntries[d].vps \/ CopyAt(p, e.id))
       /\ \A r \in Slot : entries[p][r].id = e.id => r = s
EntryInv == \A p \in VP : entries[p] # None => \A s \in Slot : EntryOK(p, s)

\* An id has one directory entry, which is busy while the id is written and names
\* processors that have the id, at least one.
DirOK(d) ==
  LET e == direntries[d] IN
  e.id # None =>
    /\ e.busy <=> Writer(e.id)
    /\ e.vps # {}
    /\ \A p \in e.vps : /\ entries[p] # None /\ ~CopyAt(p, e.id)
                        /\ \E s \in Slot : entries[p][s].id = e.id
    /\ \A c \in DirSlot : direntries[c].id = e.id => c = d
DirInv == \A d \in DirSlot : DirOK(d)

\* save was given the last value unless a copy is dirty or one was that is gone.
Clean(i) == /\ \A p \in VP : entries[p] # None =>
                 \A s \in Slot : entries[p][s].id = i => ~entries[p][s].dirty
            /\ \A d \in DirSlot : direntries[d].id = i => ~direntries[d].modified
SavedInv == \A i \in Id : Clean(i) => kept[i] = latest[i]

\* What a client's locals hold at each point of its call.
CallOK(t) ==
  /\ pc[t] \notin {"idle", "flush", "save", "saved"} =>
       req[t].id \in Id /\ (~req[t].write => latest[req[t].id] \in seen[t])
  /\ pc[t] = "dir1" => req[t].write
  /\ pc[t] = "reading" => ~req[t].write
  /\ pc[t] = "init" => entries[My(t)] = None
  /\ pc[t] \notin {"idle", "init"} => entries[My(t)] # None
  /\ pc[t] \in {"dir2", "hash2"} => \A s \in Slot : entries[My(t)][s].id # req[t].id
  /\ pc[t] \in {"copy", "busy", "reading"} \/ Writing(t) =>
       ep[t] \in Slot /\ Mine(t).id = req[t].id
  /\ pc[t] \in {"copy", "busy", "update"} =>
       direntry[t] \in DirSlot /\ direntries[direntry[t]].id = req[t].id
  /\ pc[t] \in {"copy", "busy"} => ~direntries[direntry[t]].busy
  /\ pc[t] = "written" => val[t] = latest[req[t].id]
  /\ pc[t] \in {"putdir", "puthash", "update"} => Mine(t).dirty
  /\ pc[t] \in {"save", "saved"} => ep[t] \in Slot /\ Mine(t).id \in Id
  /\ pc[t] = "saved" => kept[Mine(t).id] = latest[Mine(t).id]
  /\ Flushing(t) => \A u \in Thread : u # t => pc[u] = "idle"
CallInv == \A t \in Thread : CallOK(t)

\* The types of what is shared and of what belongs to a call.
DataType ==
  /\ entries = [p \in VP |-> entries[p]]
  /\ \A p \in VP : entries[p] = None \/ entries[p] \in [Slot -> CacheEntry]
  /\ count \in [VP -> Nat] /\ direntries \in [DirSlot -> DirEntry]
  /\ kept \in [Id -> Nat] /\ latest \in [Id -> Nat]
CallType ==
  /\ dirlock \in Thread \cup {None} /\ hlock \in [VP -> Thread \cup {None}]
  /\ pc \in [Thread -> PC]
  /\ req \in [Thread -> [id : Id \cup {None}, write : BOOLEAN]]
  /\ ep \in [Thread -> Slot \cup {0}] /\ direntry \in [Thread -> DirSlot \cup {0}]
  /\ val \in [Thread -> Nat] /\ left \in [Thread -> 0..MaxRequests]
  /\ seen \in [Thread -> SUBSET Nat]

SharedInv == EntryInv /\ DirInv /\ SavedInv
CacheInv == /\ DataType /\ CallType /\ LockInv /\ SharedInv /\ CallInv /\ SingleWriter

-----------------------------------------------------------------------------
(* What most steps leave as it is.                                         *)

\* A step of t leaves the calls of the others alone.
Frame(t) == \A u \in Thread : u # t =>
  /\ pc'[u] = pc[u] /\ req'[u] = req[u] /\ ep'[u] = ep[u]
  /\ direntry'[u] = direntry[u] /\ val'[u] = val[u] /\ seen[u] \subseteq seen'[u]

\* Other readers have seen what an id is changed to.
LatestSeen(t) == \A u \in Thread : u # t /\ req[u].id \in Id /\ ~req[u].write =>
  latest'[req[u].id] = latest[req[u].id] \/ latest'[req[u].id] \in seen'[u]

\* What t is doing to ids and entries stays as it is.
InAhead(t)  == pc[t] \in {"putdir", "puthash", "update"}
InSaving(t) == pc[t] \in {"save", "saved"}
SameRole(t) ==
  /\ Writing(t)' <=> Writing(t)
  /\ InAhead(t)' <=> InAhead(t)
  /\ pc'[t] = "copy" <=> pc[t] = "copy"
  /\ InSaving(t)' <=> InSaving(t)
  /\ Writing(t) \/ pc[t] = "copy" => req'[t] = req[t]
  /\ InSaving(t) => ep'[t] = ep[t]
SameRoles ==
  /\ \A i : Writer(i)' <=> Writer(i)
  /\ \A p, i : (Ahead(p, i)' <=> Ahead(p, i)) /\ (CopyAt(p, i)' <=> CopyAt(p, i))
  /\ \A p, s : Flushed(p, s)' <=> Flushed(p, s)

\* Entries are the same but for lastused.
SameEntries == \A p \in VP :
  /\ entries'[p] = None <=> entries[p] = None
  /\ entries[p] # None => \A s \in Slot :
       /\ entries'[p][s].id = entries[p][s].id /\ entries'[p][s].busy = entries[p][s].busy
       /\ entries'[p][s].dirty = entries[p][s].dirty /\ entries'[p][s].data = entries[p][s].data

\* Other queues keep their ids and dirty bits.
OtherQueues(t) == \A p \in VP : p # My(t) =>
  /\ entries'[p] = None <=> entries[p] = None
  /\ entries[p] # None => \A s \in Slot :
       entries'[p][s].id = entries[p][s].id /\ entries'[p][s].dirty = entries[p][s].dirty

NoFlusher(t) == \A u \in Thread : u # t => ~Flushing(u)

\* Who does the same to the same ids keeps the roles.
LEMMA RolesStay ==
  ASSUME NEW t \in Thread, Frame(t), SameRole(t)
  PROVE  SameRoles
<1>1. \A u \in Thread : /\ Writing(u)' <=> Writing(u)
                        /\ InAhead(u)' <=> InAhead(u)
                        /\ pc'[u] = "copy" <=> pc[u] = "copy"
                        /\ InSaving(u)' <=> InSaving(u)
                        /\ Writing(u) \/ pc[u] = "copy" => req'[u].id = req[u].id
                        /\ InSaving(u) => ep'[u] = ep[u]
                        /\ InAhead(u) => Writing(u)
  BY DEF Frame, SameRole, Writing, InAhead, InSaving
<1>2. \A i : Writer(i)' <=> Writer(i)
  BY <1>1 DEF Writer
<1>3. \A p, i : Ahead(p, i)' <=> Ahead(p, i)
  BY <1>1 DEF Ahead, InAhead
<1>4. \A p, i : CopyAt(p, i)' <=> CopyAt(p, i)
  BY <1>1 DEF CopyAt
<1>5. \A p, s : Flushed(p, s)' <=> Flushed(p, s)
  BY <1>1 DEF Flushed, InSaving
<1> QED
  BY <1>2, <1>3, <1>4, <1>5 DEF SameRoles

\* A step that changes neither entries nor roles keeps what is shared in order.
LEMMA SharedStays ==
  ASSUME DataType, SharedInv, SameRoles, SameEntries, UNCHANGED <<direntries, kept, latest>>
  PROVE  SharedInv'
<1>1. EntryInv'
  <2>1. SUFFICES ASSUME NEW p \in VP, entries'[p] # None, NEW s \in Slot
                 PROVE  EntryOK(p, s)'
    BY DEF EntryInv
  <2>2. EntryOK(p, s) /\ entries[p] # None
    BY <2>1 DEF SharedInv, EntryInv, SameEntries
  <2>3. /\ entries'[p][s].id = entries[p][s].id /\ entries'[p][s].busy = entries[p][s].busy
        /\ entries'[p][s].data = entries[p][s].data
        /\ \A r \in Slot : entries'[p][r].id = entries[p][r].id
    BY <2>2 DEF SameEntries
  <2> QED
    BY <2>2, <2>3 DEF EntryOK, SameRoles
<1>2. DirInv'
  <2>1. SUFFICES ASSUME NEW d \in DirSlot PROVE DirOK(d)'
    BY DEF DirInv
  <2>2. DirOK(d)
    BY DEF SharedInv, DirInv
  <2>3. direntries[d].vps \subseteq VP
    BY DEF DataType, DirEntry
  <2> QED
    BY <2>2, <2>3 DEF DirOK, SameRoles, SameEntries
<1>3. SavedInv'
  BY DEF SharedInv, SavedInv, Clean, SameEntries
<1> QED
  BY <1>1, <1>2, <1>3 DEF SharedInv

\* The calls of the others stay in order.
LEMMA OthersKeep ==
  ASSUME OneEach, NEW t \in Thread, CallType, LockInv, CallInv,
         Frame(t), OtherQueues(t), NoFlusher(t),
         direntries' = direntries \/ dirlock = t,
         LatestSeen(t),
         \A u \in Thread : u # t /\ Writing(u) => latest'[req[u].id] = latest[req[u].id]
  PROVE  \A u \in Thread : u # t => CallOK(u)'
<1> SUFFICES ASSUME NEW u \in Thread, u # t PROVE CallOK(u)'
  OBVIOUS
<1>1. /\ pc'[u] = pc[u] /\ req'[u] = req[u] /\ ep'[u] = ep[u]
      /\ direntry'[u] = direntry[u] /\ val'[u] = val[u] /\ seen[u] \subseteq seen'[u]
  BY DEF Frame
<1>2. CallOK(u) /\ ~Flushing(u)
  BY DEF CallInv, NoFlusher
<1>3. My(u) \in VP /\ My(u) # My(t)
  BY ReplicatedArrayAssumption DEF OneEach, My
<1>4. /\ entries'[My(u)] = None <=> entries[My(u)] = None
      /\ entries[My(u)] # None => \A s \in Slot :
           /\ entries'[My(u)][s].id = entries[My(u)][s].id
           /\ entries'[My(u)][s].dirty = entries[My(u)][s].dirty
  BY <1>3 DEF OtherQueues
<1>5. pc[u] \in {"copy", "busy", "update"} => direntries' = direntries
  BY DEF LockInv, InDirectory
<1>6. req[u].id \in Id /\ ~req[u].write /\ latest[req[u].id] \in seen[u] => latest'[req[u].id] \in seen'[u]
  BY <1>1 DEF LatestSeen
<1>7. Writing(u) => latest'[req[u].id] = latest[req[u].id]
  OBVIOUS
<1>8. /\ pc'[u] \notin {"idle", "flush", "save", "saved"} => 
           req'[u].id \in Id /\ (~req'[u].write => latest'[req'[u].id] \in seen'[u])
      /\ pc'[u] = "dir1" => req'[u].write
      /\ pc'[u] = "reading" => ~req'[u].write
  BY <1>1, <1>2, <1>6 DEF CallOK
<1>9. /\ pc'[u] = "init" => entries'[My(u)] = None
      /\ pc'[u] \notin {"idle", "init"} => entries'[My(u)] # None
      /\ pc'[u] \in {"dir2", "hash2"} => \A s \in Slot : entries'[My(u)][s].id # req'[u].id
  BY <1>1, <1>2, <1>4 DEF CallOK
<1>10. pc'[u] \in {"copy", "busy", "reading"} \/ Writing(u)' =>
         ep'[u] \in Slot /\ Mine(u)'.id = req'[u].id
  BY <1>1, <1>2, <1>4 DEF CallOK, Mine, Writing
<1>11. /\ pc'[u] \in {"copy", "busy", "update"} =>
            direntry'[u] \in DirSlot /\ direntries'[direntry'[u]].id = req'[u].id
       /\ pc'[u] \in {"copy", "busy"} => ~direntries'[direntry'[u]].busy
  BY <1>1, <1>2, <1>5 DEF CallOK
<1>12. pc'[u] = "written" => val'[u] = latest'[req'[u].id]
  BY <1>1, <1>2, <1>7 DEF CallOK, Writing
<1>13. pc'[u] \in {"putdir", "puthash", "update"} => Mine(u)'.dirty
  BY <1>1, <1>2, <1>4 DEF CallOK, Mine, Writing
<1>14. ~Flushing(u)' /\ pc'[u] \notin {"save", "saved"}
  BY <1>1, <1>2 DEF Flushing
<1> QED
  BY <1>8, <1>9, <1>10, <1>11, <1>12, <1>13, <1>14 DEF CallOK

\* How a step may change the directory's lock.
LEMMA LockStays ==
  ASSUME NEW t \in Thread, LockInv, Frame(t),
         \/ dirlock' = dirlock /\ (InDirectory(t)' <=> InDirectory(t))
         \/ dirlock' = (IF dirlock = t THEN None ELSE dirlock) /\ ~InDirectory(t)'
         \/ dirlock = None /\ dirlock' = t /\ InDirectory(t)'
  PROVE  LockInv'
<1>1. \A u \in Thread : u # None
  BY ReplicatedArrayAssumption
<1>2. \A u \in Thread : u # t => (InDirectory(u)' <=> InDirectory(u))
  BY DEF Frame, InDirectory
<1> QED
  BY <1>1, <1>2 DEF LockInv

\* Nobody else is flushing when t goes on.
LEMMA OthersDontFlush ==
  ASSUME NEW t \in Thread, CallInv, pc[t] # "idle"
  PROVE  NoFlusher(t)
  BY DEF CallInv, CallOK, NoFlusher

\* There is one writer of an id as long as nobody begins to write.
LEMMA WriterStays ==
  ASSUME NEW t \in Thread, SingleWriter, Frame(t),
         Writing(t)' => Writing(t) /\ req'[t] = req[t]
  PROVE  SingleWriter'
<1>1. \A u \in Thread : Writing(u)' => Writing(u) /\ req'[u] = req[u]
  BY DEF Frame, Writing
<1> QED
  BY <1>1 DEF SingleWriter

\* A step that changes no data that matters, and no role.
LEMMA ControlStep ==
  ASSUME OneEach, CacheInv, NEW t \in Thread, Frame(t), SameRole(t), SameEntries,
         UNCHANGED <<direntries, kept, latest>>, NoFlusher(t),
         DataType', CallType', LockInv', CallOK(t)'
  PROVE  CacheInv'
<1>1. DataType /\ CallType /\ LockInv /\ SharedInv /\ CallInv /\ SingleWriter
  BY DEF CacheInv
<1>2. SharedInv'
  BY <1>1, RolesStay, SharedStays
<1>3. SingleWriter'
  <2>1. Writing(t)' => Writing(t) /\ req'[t] = req[t]
    BY DEF SameRole
  <2> QED
    BY <1>1, <2>1, WriterStays
<1>4. CallInv'
  <2>1. OtherQueues(t)
    BY DEF OtherQueues, SameEntries
  <2>2. LatestSeen(t)
    BY DEF LatestSeen
  <2>3. \A u \in Thread : u # t => CallOK(u)'
    BY <1>1, <2>1, <2>2, OthersKeep
  <2> QED
    BY <2>3 DEF CallInv
<1> QED
  BY <1>1, <1>2, <1>3, <1>4 DEF CacheInv

\* What every step of a call may use.
LEMMA Facts ==
  ASSUME CacheInv, NEW t \in Thread
  PROVE  /\ DataType /\ CallType /\ LockInv /\ SharedInv /\ CallInv /\ SingleWriter
         /\ CallOK(t) /\ My(t) \in VP
         /\ (InDirectory(t) <=> dirlock = t)
  BY ReplicatedArrayAssumption DEF CacheInv, CallInv, LockInv, My

\* get begins.
LEMMA StartGetStep ==
  ASSUME OneEach, FlushAlone, CacheInv, NEW t \in Thread, StartGet(t)
  PROVE  CacheInv'
<1>f. /\ DataType /\ CallType /\ LockInv /\ CallInv /\ CallOK(t) /\ My(t) \in VP
      /\ (InDirectory(t) <=> dirlock = t)
  BY Facts
<1>1. PICK i \in Id, w \in BOOLEAN :
        /\ req' = [req EXCEPT ![t] = [id |-> i, write |-> w]]
        /\ seen' = [seen EXCEPT ![t] = IF w THEN {} ELSE {latest[i]}]
        /\ Goto(t, FirstStep(t, w))
  BY DEF StartGet
<1>2. PICK q : q = FirstStep(t, w)
  OBVIOUS
<1>3. q \in {"init", "dir1", "hash1"} /\ (q = "init" <=> entries[My(t)] = None)
      /\ (q = "dir1" => w) /\ (q = "hash1" => ~w)
  BY <1>2 DEF FirstStep
<1>4. /\ pc[t] = "idle" /\ pc' = [pc EXCEPT ![t] = q] /\ left[t] > 0
      /\ UNCHANGED <<entries, count, direntries, kept, dirlock, hlock, ep, direntry, val, latest>>
      /\ left' = [left EXCEPT ![t] = @ - 1]
  BY <1>1, <1>2 DEF StartGet, At, Goto, dataVars, lockVars
<1>5. NoFlusher(t)
  BY DEF StartGet, NoFlusher
<1>6. pc'[t] = q /\ req'[t].id = i /\ req'[t].write = w /\ (~w => latest[i] \in seen'[t])
  BY <1>f, <1>1, <1>4 DEF CallType, DataType
<1>7. Frame(t)
  BY <1>f, <1>1, <1>4 DEF Frame, CallType
<1>8. SameRole(t)
  BY <1>3, <1>4, <1>6 DEF SameRole, Writing, InAhead, InSaving
<1>9. SameEntries /\ DataType'
  BY <1>f, <1>4 DEF SameEntries, DataType
<1>10. CallType'
  <2>1. q \in PC
    BY <1>3 DEF PC
  <2>2. left' \in [Thread -> 0..MaxRequests]
    <3>1. left[t] - 1 \in 0..MaxRequests
      BY <1>f, <1>4, ReplicatedArrayAssumption DEF CallType
    <3> QED
      BY <1>f, <1>4, <3>1 DEF CallType
  <2>3. seen' \in [Thread -> SUBSET Nat]
    BY <1>f, <1>1 DEF CallType, DataType
  <2> QED
    BY <1>f, <1>1, <1>4, <2>1, <2>2, <2>3 DEF CallType
<1>11. LockInv'
  <2>1. ~InDirectory(t) /\ ~InDirectory(t)'
    BY <1>3, <1>4, <1>6 DEF InDirectory
  <2> QED
    BY <1>f, <1>4, <1>7, <2>1, LockStays
<1>12. CallOK(t)'
  BY <1>3, <1>4, <1>6 DEF CallOK, Writing, Flushing
<1> QED
  BY <1>4, <1>5, <1>7, <1>8, <1>9, <1>10, <1>11, <1>12, ControlStep

\* flush begins.
LEMMA StartFlushStep ==
  ASSUME OneEach, FlushAlone, CacheInv, NEW t \in Thread, StartFlush(t)
  PROVE  CacheInv'
<1>f. /\ DataType /\ CallType /\ LockInv /\ CallInv /\ CallOK(t) /\ My(t) \in VP
      /\ (InDirectory(t) <=> dirlock = t)
  BY Facts
<1>4. /\ pc[t] = "idle" /\ pc' = [pc EXCEPT ![t] = "flush"] /\ left[t] > 0
      /\ UNCHANGED <<entries, count, direntries, kept, dirlock, hlock, req, ep, direntry, val,
                     latest, seen>>
      /\ left' = [left EXCEPT ![t] = @ - 1]
      /\ entries[My(t)] # None /\ \A u \in Thread : pc[u] = "idle"
  BY DEF StartFlush, At, Goto, dataVars, lockVars
<1>5. NoFlusher(t)
  BY <1>4 DEF NoFlusher, Flushing
<1>6. pc'[t] = "flush"
  BY <1>f, <1>4 DEF CallType
<1>7. Frame(t)
  BY <1>f, <1>4 DEF Frame, CallType
<1>8. SameRole(t)
  BY <1>4, <1>6 DEF SameRole, Writing, InAhead, InSaving
<1>9. SameEntries /\ DataType'
  BY <1>f, <1>4 DEF SameEntries, DataType
<1>10. CallType'
  <2>2. left' \in [Thread -> 0..MaxRequests]
    <3>1. left[t] - 1 \in 0..MaxRequests
      BY <1>f, <1>4, ReplicatedArrayAssumption DEF CallType
    <3> QED
      BY <1>f, <1>4, <3>1 DEF CallType
  <2> QED
    BY <1>f, <1>4, <2>2 DEF CallType, PC
<1>11. LockInv'
  <2>1. ~InDirectory(t) /\ ~InDirectory(t)'
    BY <1>4, <1>6 DEF InDirectory
  <2> QED
    BY <1>f, <1>4, <1>7, <2>1, LockStays
<1>12. CallOK(t)'
  <2>1. \A u \in Thread : u # t => pc'[u] = "idle"
    BY <1>4, <1>7 DEF Frame
  <2> QED
    BY <1>4, <1>6, <2>1 DEF CallOK, Writing, Flushing
<1> QED
  BY <1>4, <1>5, <1>7, <1>8, <1>9, <1>10, <1>11, <1>12, ControlStep

\* A step within a call that changes no data.
LEMMA QuietStep ==
  ASSUME OneEach, CacheInv, NEW t \in Thread, pc[t] # "idle", Frame(t), SameRole(t),
         UNCHANGED <<dataVars, latest>>, CallType', LockInv', CallOK(t)'
  PROVE  CacheInv'
<1>1. UNCHANGED <<entries, count, direntries, kept, latest>>
  BY DEF dataVars
<1>2. DataType /\ NoFlusher(t)
  BY OthersDontFlush DEF CacheInv
<1>3. SameEntries /\ DataType'
  BY <1>1, <1>2 DEF SameEntries, DataType
<1> QED
  BY <1>1, <1>2, <1>3, ControlStep

\* The directory is locked, at the start of a writer's get, after a read's miss, and
\* in putback.
LEMMA LockDirStep ==
  ASSUME OneEach, CacheInv, NEW t \in Thread, LockDir(t)
  PROVE  CacheInv'
<1>f. /\ DataType /\ CallType /\ LockInv /\ CallInv /\ CallOK(t) /\ My(t) \in VP
      /\ (InDirectory(t) <=> dirlock = t)
  BY Facts
<1>1. PICK q : /\ \/ pc[t] = "dir1" /\ q = "hash1"
                  \/ pc[t] = "dir2" /\ q = "hash2"
                  \/ pc[t] = "putdir" /\ q = "puthash"
               /\ pc' = [pc EXCEPT ![t] = q]
  BY DEF LockDir, At, Goto
<1>2. /\ dirlock = None /\ dirlock' = t
      /\ UNCHANGED <<hlock, req, ep, direntry, val, left, seen>>
      /\ UNCHANGED <<dataVars, latest>>
  BY DEF LockDir, callVars
<1>3. UNCHANGED <<entries, direntries, kept, latest>>
  BY <1>2 DEF dataVars
<1>4. pc'[t] = q
  BY <1>f, <1>1 DEF CallType
<1>7. Frame(t)
  BY <1>f, <1>1, <1>2 DEF Frame, CallType
<1>8. SameRole(t)
  BY <1>1, <1>2, <1>4 DEF SameRole, Writing, InAhead, InSaving
<1>10. CallType'
  BY <1>f, <1>1, <1>2 DEF CallType, PC
<1>11. LockInv'
  <2>1. InDirectory(t)'
    BY <1>f, <1>1, <1>2, <1>4 DEF InDirectory, CallOK
  <2> QED
    BY <1>f, <1>2, <1>7, <2>1, LockStays
<1>12. CallOK(t)'
  BY <1>f, <1>1, <1>2, <1>3, <1>4 DEF CallOK, Writing, Flushing, Mine
<1>13. pc[t] # "idle"
  BY <1>1
<1> QED
  BY <1>2, <1>7, <1>8, <1>10, <1>11, <1>12, <1>13, QuietStep

\* Another lock is collected.
LEMMA LockRemoteStep ==
  ASSUME OneEach, CacheInv, NEW t \in Thread, LockRemote(t)
  PROVE  CacheInv'
<1>f. /\ DataType /\ CallType /\ LockInv /\ CallInv /\ CallOK(t) /\ My(t) \in VP
      /\ (InDirectory(t) <=> dirlock = t)
  BY Facts
<1>1. /\ UNCHANGED <<dirlock, pc, req, ep, direntry, val, left, seen>>
      /\ UNCHANGED <<dataVars, latest>> /\ pc[t] # "idle"
  BY DEF LockRemote, callVars, At
<1>2. hlock' = [hlock EXCEPT ![Min(Needed(t))] = t]
  BY DEF LockRemote
<1>3. UNCHANGED <<entries, direntries, kept, latest>>
  BY <1>1 DEF dataVars
<1>7. Frame(t)
  BY <1>1 DEF Frame
<1>8. SameRole(t)
  BY <1>1 DEF SameRole, Writing, InAhead, InSaving
<1>10. CallType'
  BY <1>f, <1>1, <1>2 DEF CallType
<1>11. LockInv'
  BY <1>f, <1>1 DEF LockInv, InDirectory
<1>12. CallOK(t)'
  BY <1>f, <1>1, <1>3 DEF CallOK, Writing, Flushing, Mine
<1> QED
  BY <1>1, <1>7, <1>8, <1>10, <1>11, <1>12, QuietStep

\* What Release does.
LEMMA Released ==
  ASSUME CallType, NEW t \in Thread, Release(t)
  PROVE  /\ dirlock' = (IF dirlock = t THEN None ELSE dirlock)
         /\ dirlock' \in Thread \cup {None} /\ hlock' \in [VP -> Thread \cup {None}]
  BY DEF Release, CallType

\* get lets go of its locks and starts again.
LEMMA AgainStep ==
  ASSUME OneEach, CacheInv, NEW t \in Thread, NEW q, NEW d \in DirSlot \cup {0},
         pc[t] \in {"hash1", "hash2"}, TryAgain(t, q),
         direntry' = [direntry EXCEPT ![t] = d],
         UNCHANGED <<dataVars, req, ep, val, left, latest, seen>>,
         \/ q = "dir1" /\ req[t].write
         \/ q = "hash1" /\ ~req[t].write
         \/ q = "dir2" /\ \A s \in Slot : entries[My(t)][s].id # req[t].id
  PROVE  CacheInv'
<1>f. /\ DataType /\ CallType /\ LockInv /\ CallInv /\ CallOK(t) /\ My(t) \in VP
      /\ (InDirectory(t) <=> dirlock = t)
  BY Facts
<1>1. pc' = [pc EXCEPT ![t] = q] /\ Release(t)
  BY DEF TryAgain, Goto
<1>2. /\ dirlock' = (IF dirlock = t THEN None ELSE dirlock)
      /\ dirlock' \in Thread \cup {None} /\ hlock' \in [VP -> Thread \cup {None}]
  BY <1>f, <1>1, Released
<1>3. UNCHANGED <<entries, direntries, kept, latest>>
  BY DEF dataVars
<1>4. pc'[t] = q
  BY <1>f, <1>1 DEF CallType
<1>7. Frame(t)
  BY <1>f, <1>1, <1>2 DEF Frame, CallType
<1>8. SameRole(t)
  BY <1>4 DEF SameRole, Writing, InAhead, InSaving
<1>10. CallType'
  BY <1>f, <1>1, <1>2 DEF CallType, PC
<1>11. LockInv'
  <2>1. ~InDirectory(t)'
    BY <1>4 DEF InDirectory
  <2> QED
    BY <1>f, <1>2, <1>7, <2>1, LockStays
<1>12. CallOK(t)'
  BY <1>f, <1>3, <1>4 DEF CallOK, Writing, Flushing, Mine
<1> QED
  BY <1>7, <1>8, <1>10, <1>11, <1>12, QuietStep

\* A read's miss goes for the directory's lock.
LEMMA MissReadStep ==
  ASSUME OneEach, CacheInv, NEW t \in Thread, MissRead(t)
  PROVE  CacheInv'
<1>f. /\ DataType /\ CallType /\ LockInv /\ CallInv /\ CallOK(t) /\ My(t) \in VP
      /\ (InDirectory(t) <=> dirlock = t)
  BY Facts
<1>1. /\ pc[t] = "hash1" /\ ~req[t].write /\ pc' = [pc EXCEPT ![t] = "dir2"]
      /\ Search(My(t), req[t].id) = 0
      /\ UNCHANGED <<dirlock, hlock, req, ep, direntry, val, left, seen>>
      /\ UNCHANGED <<dataVars, latest>>
  BY DEF MissRead, Found, callVars, lockVars, Goto
<1>3. UNCHANGED <<entries, direntries, kept, latest>>
  BY <1>1 DEF dataVars
<1>4. pc'[t] = "dir2"
  BY <1>f, <1>1 DEF CallType
<1>5. \A s \in Slot : entries[My(t)][s].id # req[t].id
  BY <1>1, SearchFinds
<1>7. Frame(t)
  BY <1>f, <1>1 DEF Frame, CallType
<1>8. SameRole(t)
  BY <1>1, <1>4 DEF SameRole, Writing, InAhead, InSaving
<1>10. CallType'
  BY <1>f, <1>1 DEF CallType, PC
<1>11. LockInv'
  <2>1. ~InDirectory(t)' /\ ~InDirectory(t)
    BY <1>1, <1>4 DEF InDirectory
  <2> QED
    BY <1>f, <1>1, <1>7, <2>1, LockStays
<1>12. CallOK(t)'
  BY <1>f, <1>1, <1>3, <1>4, <1>5 DEF CallOK, Writing, Flushing, Mine
<1> QED
  BY <1>1, <1>7, <1>8, <1>10, <1>11, <1>12, QuietStep

\* After a miss the id is not in the own queue; before it a hit is the only way to find it.
LEMMA HitFacts ==
  ASSUME CacheInv, NEW t \in Thread, Hit(t)
  PROVE  /\ pc[t] = "hash1" /\ Found(t) \in Slot /\ entries[My(t)] # None
         /\ entries[My(t)][Found(t)].id = req[t].id /\ req[t].id \in Id
<1>1. pc[t] \in {"hash1", "hash2"} /\ CallOK(t)
  BY Facts DEF Hit, LockQueue, At
<1>2. Found(t) \in Slot /\ entries[My(t)][Found(t)].id = req[t].id
  BY SearchFinds DEF Hit, Found
<1> QED
  BY <1>1, <1>2 DEF CallOK

\* What a miss knows.
LEMMA MissFacts ==
  ASSUME CacheInv, NEW t \in Thread, Miss(t)
  PROVE  /\ pc[t] = "hash2" \/ (pc[t] = "hash1" /\ req[t].write)
         /\ InDirectory(t) /\ dirlock = t
         /\ entries[My(t)] # None /\ req[t].id \in Id
         /\ (~req[t].write => latest[req[t].id] \in seen[t])
         /\ \A s \in Slot : entries[My(t)][s].id # req[t].id
<1>1. /\ CallOK(t) /\ (InDirectory(t) <=> dirlock = t)
      /\ pc[t] = "hash2" \/ (pc[t] = "hash1" /\ req[t].write)
  BY Facts DEF Miss, LockQueue, At
<1>2. \A s \in Slot : entries[My(t)][s].id # req[t].id
  BY SearchFinds DEF Miss, Found
<1> QED
  BY <1>1, <1>2 DEF CallOK, InDirectory

\* A hit on a busy entry.
LEMMA HitBusyStep ==
  ASSUME OneEach, CacheInv, NEW t \in Thread, HitBusy(t)
  PROVE  CacheInv'
<1>f. CallType
  BY Facts
<1>1. pc[t] = "hash1"
  BY HitFacts DEF HitBusy
<1>2. /\ TryAgain(t, IF req[t].write THEN "dir1" ELSE "hash1")
      /\ UNCHANGED <<dataVars, req, ep, direntry, val, left, latest, seen>>
  BY <1>1 DEF HitBusy, Again, callVars
<1>3. direntry' = [direntry EXCEPT ![t] = direntry[t]] /\ direntry[t] \in DirSlot \cup {0}
  BY <1>f, <1>2 DEF CallType
<1> QED
  BY <1>1, <1>2, <1>3, AgainStep

\* A miss on an id that is being written.
LEMMA MissBusyStep ==
  ASSUME OneEach, CacheInv, NEW t \in Thread, MissBusy(t)
  PROVE  CacheInv'
<1>1. /\ pc[t] \in {"hash1", "hash2"} /\ \A s \in Slot : entries[My(t)][s].id # req[t].id
  BY MissFacts DEF MissBusy
<1>2. /\ TryAgain(t, "dir2") /\ direntry' = [direntry EXCEPT ![t] = InDir(t)]
      /\ UNCHANGED <<dataVars, req, ep, val, left, latest, seen>>
  BY DEF MissBusy
<1>3. InDir(t) \in DirSlot \cup {0}
  BY LookupFinds DEF InDir
<1> QED
  BY <1>1, <1>2, <1>3, AgainStep

\* A miss with all entries busy.
LEMMA NoFreeStep ==
  ASSUME OneEach, CacheInv, NEW t \in Thread, NoFree(t)
  PROVE  CacheInv'
<1>1. pc[t] \in {"hash1", "hash2"} /\ entries[My(t)] # None
  BY MissFacts DEF NoFree
<1>2. /\ TryAgain(t, IF req[t].write THEN "dir1" ELSE "hash1")
      /\ direntry' = [direntry EXCEPT ![t] = 0]
      /\ UNCHANGED <<dataVars, req, ep, val, left, latest, seen>>
  BY <1>1 DEF NoFree, FirstStep
<1> QED
  BY <1>1, <1>2, AgainStep

-----------------------------------------------------------------------------
(* Writing an entry.                                                       *)

\* The entry at s of queue p becomes e, the others stay.
Puts(p, s, e) ==
  /\ entries' = [q \in VP |-> entries'[q]]
  /\ entries'[p] \in [Slot -> CacheEntry] /\ entries'[p] # None /\ entries'[p][s] = e
  /\ \A r \in Slot : r # s => entries'[p][r] = entries[p][r]
  /\ \A q \in VP : q # p => entries'[q] = entries[q]

\* That is what an assignment to the entry does.
LEMMA PutsEntry ==
  ASSUME DataType, NEW p \in VP, entries[p] # None, NEW s \in Slot, NEW e \in CacheEntry,
         entries' = [entries EXCEPT ![p][s] = e]
  PROVE  Puts(p, s, e)
<1>1. PICK f : f = [entries[p] EXCEPT ![s] = e]
  OBVIOUS
<1>2. entries[p] \in [Slot -> CacheEntry]
  BY DEF DataType
<1>3. f \in [Slot -> CacheEntry] /\ f[s] = e /\ \A r \in Slot : r # s => f[r] = entries[p][r]
  BY <1>1, <1>2
<1>4. entries' = [entries EXCEPT ![p] = f]
  BY <1>1
<1>5. entries' = [q \in VP |-> entries'[q]] /\ entries'[p] = f
      /\ \A q \in VP : q # p => entries'[q] = entries[q]
  BY <1>4 DEF DataType
<1>6. f # None
  BY <1>3, NoneAssumption
<1> QED
  BY <1>3, <1>5, <1>6 DEF Puts

\* The queues keep their types when an entry is written.
LEMMA PutsType ==
  ASSUME DataType, NEW p \in VP, NEW s, NEW e, Puts(p, s, e)
  PROVE  /\ entries' = [q \in VP |-> entries'[q]]
         /\ \A q \in VP : entries'[q] = None \/ entries'[q] \in [Slot -> CacheEntry]
  BY DEF Puts, DataType

\* A step of t that writes an entry of its own queue leaves the other queues.
LEMMA PutsOthers ==
  ASSUME NEW t, My(t) \in VP, NEW s, NEW e, Puts(My(t), s, e)
  PROVE  OtherQueues(t)
  BY DEF Puts, OtherQueues

\* An entry that is like the one before.
LEMMA PutsSame ==
  ASSUME DataType, NEW p \in VP, entries[p] # None, NEW s \in Slot, NEW e, Puts(p, s, e),
         e.id = entries[p][s].id, e.busy = entries[p][s].busy,
         e.dirty = entries[p][s].dirty, e.data = entries[p][s].data
  PROVE  SameEntries
<1> SUFFICES ASSUME NEW q \in VP
             PROVE  /\ entries'[q] = None <=> entries[q] = None
                    /\ entries[q] # None => \A r \in Slot :
                         /\ entries'[q][r].id = entries[q][r].id
                         /\ entries'[q][r].busy = entries[q][r].busy
                         /\ entries'[q][r].dirty = entries[q][r].dirty
                         /\ entries'[q][r].data = entries[q][r].data
  BY DEF SameEntries
<1>1. CASE q # p
  BY <1>1 DEF Puts
<1>2. CASE q = p
  <2>1. entries'[p] # None
    BY DEF Puts
  <2>2. ASSUME NEW r \in Slot
        PROVE  /\ entries'[p][r].id = entries[p][r].id
               /\ entries'[p][r].busy = entries[p][r].busy
               /\ entries'[p][r].dirty = entries[p][r].dirty
               /\ entries'[p][r].data = entries[p][r].data
    <3>1. CASE r = s
      BY <3>1 DEF Puts
    <3>2. CASE r # s
      BY <3>2 DEF Puts
    <3> QED
      BY <3>1, <3>2
  <2> QED
    BY <1>2, <2>1, <2>2
<1> QED
  BY <1>1, <1>2

\* The fields of a cache entry.
LEMMA Fields ==
  ASSUME NEW e \in CacheEntry
  PROVE  /\ e.id \in Id \cup {None} /\ e.busy \in BOOLEAN /\ e.dirty \in BOOLEAN
         /\ e.lastused \in Nat /\ e.data \in Nat
  BY DEF CacheEntry

\* A cache entry with another lastused is as it was in what matters.
LEMMA WithLastUsed ==
  ASSUME NEW e \in CacheEntry, NEW n \in Nat
  PROVE  /\ [e EXCEPT !.lastused = n] \in CacheEntry
         /\ [e EXCEPT !.lastused = n].id = e.id /\ [e EXCEPT !.lastused = n].busy = e.busy
         /\ [e EXCEPT !.lastused = n].dirty = e.dirty /\ [e EXCEPT !.lastused = n].data = e.data
  BY DEF CacheEntry

\* A cache entry whose busy is assigned keeps the rest.
LEMMA WithBusy ==
  ASSUME NEW e \in CacheEntry, NEW b \in BOOLEAN
  PROVE  /\ [e EXCEPT !.busy = b] \in CacheEntry
         /\ [e EXCEPT !.busy = b].id = e.id /\ [e EXCEPT !.busy = b].busy = b
         /\ [e EXCEPT !.busy = b].dirty = e.dirty /\ [e EXCEPT !.busy = b].data = e.data
  BY DEF CacheEntry

\* A cache entry whose dirty is assigned keeps the rest.
LEMMA WithDirty ==
  ASSUME NEW e \in CacheEntry, NEW b \in BOOLEAN
  PROVE  /\ [e EXCEPT !.dirty = b] \in CacheEntry
         /\ [e EXCEPT !.dirty = b].id = e.id /\ [e EXCEPT !.dirty = b].busy = e.busy
         /\ [e EXCEPT !.dirty = b].dirty = b /\ [e EXCEPT !.dirty = b].data = e.data
  BY DEF CacheEntry

\* A cache entry whose data is assigned keeps the rest.
LEMMA WithData ==
  ASSUME NEW e \in CacheEntry, NEW n \in Nat
  PROVE  /\ [e EXCEPT !.data = n] \in CacheEntry
         /\ [e EXCEPT !.data = n].id = e.id /\ [e EXCEPT !.data = n].busy = e.busy
         /\ [e EXCEPT !.data = n].dirty = e.dirty /\ [e EXCEPT !.data = n].data = n
  BY DEF CacheEntry

\* An entry that was just used.
LEMMA UsedEntry ==
  ASSUME NEW p, count[p] \in Nat, NEW e \in CacheEntry
  PROVE  /\ Used(p, e) \in CacheEntry
         /\ Used(p, e).id = e.id /\ Used(p, e).busy = e.busy
         /\ Used(p, e).dirty = e.dirty /\ Used(p, e).data = e.data
<1>1. count[p] + 1 \in Nat
  OBVIOUS
<1> QED
  BY <1>1, WithLastUsed DEF Used

\* A get hits, to read.
LEMMA HitReadStep ==
  ASSUME OneEach, CacheInv, NEW t \in Thread, HitRead(t)
  PROVE  CacheInv'
<1>f. /\ DataType /\ CallType /\ LockInv /\ CallInv /\ CallOK(t) /\ My(t) \in VP
      /\ (InDirectory(t) <=> dirlock = t)
  BY Facts
<1>1. PICK p \in VP, s \in Slot :
        /\ p = My(t) /\ s = Found(t) /\ pc[t] = "hash1" /\ entries[p] # None
        /\ entries[p][s].id = req[t].id /\ req[t].id \in Id
  BY <1>f, HitFacts DEF HitRead
<1>2. /\ entries' = [entries EXCEPT ![p][s] = Used(p, entries[p][s])]
      /\ count' = [count EXCEPT ![p] = @ + 1] /\ ep' = [ep EXCEPT ![t] = s]
      /\ pc' = [pc EXCEPT ![t] = "reading"] /\ Release(t) /\ ~req[t].write
      /\ UNCHANGED <<direntries, kept, req, direntry, val, left, latest, seen>>
  BY <1>1 DEF HitRead, Goto
<1>3. PICK e : e = Used(p, entries[p][s])
  OBVIOUS
<1>4. entries[p] \in [Slot -> CacheEntry] /\ entries[p][s] \in CacheEntry /\ count[p] \in Nat
  BY <1>f, <1>1 DEF DataType
<1>5. /\ e \in CacheEntry /\ e.id = entries[p][s].id /\ e.busy = entries[p][s].busy
      /\ e.dirty = entries[p][s].dirty /\ e.data = entries[p][s].data
  BY <1>3, <1>4, UsedEntry
<1>6. Puts(p, s, e)
  BY <1>f, <1>1, <1>2, <1>3, <1>5, PutsEntry
<1>l. /\ dirlock' = (IF dirlock = t THEN None ELSE dirlock)
      /\ dirlock' \in Thread \cup {None} /\ hlock' \in [VP -> Thread \cup {None}]
  BY <1>f, <1>2, Released
<1>7. Frame(t)
  BY <1>f, <1>2 DEF Frame, CallType
<1>p. pc'[t] = "reading" /\ ep'[t] = s
  BY <1>f, <1>2 DEF CallType
<1>8. SameRole(t)
  BY <1>1, <1>p DEF SameRole, Writing, InAhead, InSaving
<1>9. SameEntries
  BY <1>f, <1>1, <1>5, <1>6, PutsSame
<1>d. DataType'
  <2>1. count' \in [VP -> Nat]
    BY <1>f, <1>2, <1>4 DEF DataType
  <2> QED
    BY <1>f, <1>2, <1>6, <2>1, PutsType DEF DataType
<1>10. CallType'
  BY <1>f, <1>2, <1>l DEF CallType, PC
<1>11. LockInv'
  <2>1. ~InDirectory(t)'
    BY <1>p DEF InDirectory
  <2> QED
    BY <1>f, <1>l, <1>7, <2>1, LockStays
<1>12. CallOK(t)'
  <2>1. entries'[p] # None /\ entries'[p][s].id = req[t].id
    BY <1>1, <1>5, <1>6 DEF Puts
  <2>2. (~req[t].write => latest[req[t].id] \in seen[t])
    BY <1>f, <1>1 DEF CallOK
  <2> QED
    BY <1>1, <1>2, <1>p, <2>1, <2>2 DEF CallOK, Writing, Flushing, Mine
<1>13. NoFlusher(t)
  BY <1>f, <1>1, OthersDontFlush
<1> QED
  BY <1>2, <1>7, <1>8, <1>9, <1>d, <1>10, <1>11, <1>12, <1>13, ControlStep

\* A get hits, to write.
LEMMA HitWriteStep ==
  ASSUME OneEach, CacheInv, NEW t \in Thread, HitWrite(t)
  PROVE  CacheInv'
<1>f. /\ DataType /\ CallType /\ LockInv /\ CallInv /\ CallOK(t) /\ My(t) \in VP
      /\ SharedInv /\ (InDirectory(t) <=> dirlock = t)
  BY Facts
<1>1. PICK p \in VP, s \in Slot :
        /\ p = My(t) /\ s = Found(t) /\ pc[t] = "hash1" /\ entries[p] # None
        /\ entries[p][s].id = req[t].id /\ req[t].id \in Id
  BY <1>f, HitFacts DEF HitWrite
<1>2. PICK d : d = LookupId(req[t].id)
  OBVIOUS
<1>3. /\ ep' = [ep EXCEPT ![t] = s] /\ direntry' = [direntry EXCEPT ![t] = d]
      /\ hlock' = [hlock EXCEPT ![My(t)] = t] /\ pc' = [pc EXCEPT ![t] = "busy"]
      /\ req[t].write /\ ~entries[p][s].busy
      /\ UNCHANGED <<dataVars, latest>> /\ UNCHANGED <<dirlock, req, val, left, seen>>
  BY <1>1, <1>2 DEF HitWrite, Goto, IsBusy
<1>4. UNCHANGED <<entries, direntries, kept, latest>>
  BY <1>3 DEF dataVars
<1>5. EntryOK(p, s) /\ req[t].id # None
  BY <1>f, <1>1, ReplicatedArrayAssumption DEF SharedInv, EntryInv
<1>6. d \in DirSlot /\ direntries[d].id = req[t].id
  BY <1>1, <1>2, <1>5, LookupFinds DEF EntryOK
<1>7. ~direntries[d].busy
  <2>1. ~Writer(req[t].id)
    BY <1>1, <1>3, <1>5 DEF EntryOK
  <2> QED
    BY <1>f, <1>5, <1>6, <2>1 DEF SharedInv, DirInv, DirOK
<1>p. pc'[t] = "busy" /\ ep'[t] = s /\ direntry'[t] = d
  BY <1>f, <1>3 DEF CallType
<1>8. Frame(t)
  BY <1>f, <1>3 DEF Frame, CallType
<1>9. SameRole(t)
  BY <1>1, <1>p DEF SameRole, Writing, InAhead, InSaving
<1>10. CallType'
  BY <1>f, <1>3, <1>6 DEF CallType, PC
<1>11. LockInv'
  <2>1. InDirectory(t)' /\ InDirectory(t)
    BY <1>1, <1>3, <1>p DEF InDirectory
  <2> QED
    BY <1>f, <1>3, <1>8, <2>1, LockStays
<1>12. CallOK(t)'
  <2>1. (~req[t].write => latest[req[t].id] \in seen[t])
    BY <1>f, <1>1 DEF CallOK
  <2> QED
    BY <1>1, <1>3, <1>4, <1>6, <1>7, <1>p, <2>1 DEF CallOK, Writing, Flushing, Mine
<1>13. pc[t] # "idle"
  BY <1>1
<1> QED
  BY <1>3, <1>8, <1>9, <1>10, <1>11, <1>12, <1>13, QuietStep

\* What a call leaves when it returns.
LEMMA Ended ==
  ASSUME CallType, NEW t \in Thread, EndCall(t), NEW z \in [Thread -> SUBSET Nat],
         seen' = Forgotten(t, z), \A u \in Thread : seen[u] \subseteq z[u]
  PROVE  /\ Frame(t) /\ pc'[t] = "idle"
         /\ pc' \in [Thread -> PC]
         /\ req' \in [Thread -> [id : Id \cup {None}, write : BOOLEAN]]
         /\ ep' \in [Thread -> Slot \cup {0}] /\ direntry' \in [Thread -> DirSlot \cup {0}]
         /\ val' \in [Thread -> Nat] /\ seen' \in [Thread -> SUBSET Nat]
         /\ ~InDirectory(t)' /\ CallOK(t)' /\ ~Writing(t)'
<1>1. /\ pc' = [pc EXCEPT ![t] = "idle"] /\ req' = [req EXCEPT ![t] = NoRequest]
      /\ ep' = [ep EXCEPT ![t] = 0] /\ direntry' = [direntry EXCEPT ![t] = 0]
      /\ val' = [val EXCEPT ![t] = 0]
  BY DEF EndCall, Goto
<1>s. /\ seen' \in [Thread -> SUBSET Nat]
      /\ \A u \in Thread : u # t => seen[u] \subseteq seen'[u]
  BY DEF Forgotten
<1>2. NoRequest \in [id : Id \cup {None}, write : BOOLEAN]
  BY DEF NoRequest
<1>3. Frame(t) /\ pc'[t] = "idle"
  BY <1>1, <1>s DEF Frame, CallType
<1>4. ~InDirectory(t)' /\ CallOK(t)' /\ ~Writing(t)'
  BY <1>3 DEF InDirectory, CallOK, Writing, Flushing
<1> QED
  BY <1>1, <1>2, <1>3, <1>4, <1>s DEF CallType, PC

\* A reader, or a flush, is done.
LEMMA ReturnStep ==
  ASSUME OneEach, CacheInv, NEW t \in Thread, pc[t] \in {"reading", "flush"}, EndCall(t),
         seen' = Forgotten(t, seen),
         UNCHANGED <<dataVars, lockVars, left, latest>>
  PROVE  CacheInv'
<1>f. /\ DataType /\ CallType /\ LockInv /\ CallInv
      /\ (InDirectory(t) <=> dirlock = t)
  BY Facts
<1>1. /\ Frame(t) /\ pc'[t] = "idle"
      /\ pc' \in [Thread -> PC]
      /\ req' \in [Thread -> [id : Id \cup {None}, write : BOOLEAN]]
      /\ ep' \in [Thread -> Slot \cup {0}] /\ direntry' \in [Thread -> DirSlot \cup {0}]
      /\ val' \in [Thread -> Nat] /\ seen' \in [Thread -> SUBSET Nat]
      /\ ~InDirectory(t)' /\ CallOK(t)' /\ ~Writing(t)'
  <2>1. seen \in [Thread -> SUBSET Nat] /\ \A u \in Thread : seen[u] \subseteq seen[u]
    BY <1>f DEF CallType
  <2> QED
    BY <1>f, <2>1, Ended
<1>2. UNCHANGED <<dirlock, hlock, left>>
  BY DEF lockVars
<1>3. SameRole(t)
  BY <1>1 DEF SameRole, Writing, InAhead, InSaving
<1>4. CallType'
  BY <1>f, <1>1, <1>2 DEF CallType
<1>5. LockInv'
  <2>1. ~InDirectory(t)
    BY DEF InDirectory
  <2> QED
    BY <1>f, <1>1, <1>2, <2>1, LockStays
<1> QED
  BY <1>1, <1>3, <1>4, <1>5, QuietStep

\* A writer reads its entry, nobody else can have changed it since the last putback.
LEMMA BeginWriteStep ==
  ASSUME OneEach, CacheInv, NEW t \in Thread, BeginWrite(t)
  PROVE  CacheInv'
<1>f. /\ DataType /\ CallType /\ LockInv /\ CallInv /\ CallOK(t) /\ My(t) \in VP
      /\ SharedInv /\ (InDirectory(t) <=> dirlock = t)
  BY Facts
<1>1. /\ pc[t] = "writing" /\ pc' = [pc EXCEPT ![t] = "written"]
      /\ val' = [val EXCEPT ![t] = Mine(t).data]
      /\ UNCHANGED <<dataVars, latest>>
      /\ UNCHANGED <<dirlock, hlock, req, ep, direntry, left, seen>>
  BY DEF BeginWrite, At, Goto, lockVars
<1>2. UNCHANGED <<entries, direntries, kept, latest>>
  BY <1>1 DEF dataVars
<1>3. PICK p \in VP, s \in Slot, i \in Id :
        /\ p = My(t) /\ s = ep[t] /\ i = req[t].id /\ entries[p] # None
        /\ entries[p][s].id = i /\ i # None
  BY <1>f, <1>1, ReplicatedArrayAssumption DEF CallOK, Writing, Mine
<1>4. entries[p][s].data = latest[i] /\ entries[p][s].data \in Nat
  <2>1. EntryOK(p, s)
    BY <1>f, <1>3 DEF SharedInv, EntryInv
  <2>2. ~CopyAt(p, i) /\ ~Ahead(p, i)
    BY <1>1, <1>3 DEF CopyAt, Ahead, OneEach
  <2>3. entries[p][s] \in CacheEntry
    BY <1>f, <1>3 DEF DataType
  <2> QED
    BY <1>3, <2>1, <2>2, <2>3, Fields DEF EntryOK
<1>p. pc'[t] = "written" /\ val'[t] = latest[i]
  BY <1>f, <1>1, <1>3, <1>4 DEF CallType, Mine
<1>8. Frame(t)
  BY <1>f, <1>1 DEF Frame, CallType
<1>9. SameRole(t)
  BY <1>1, <1>p DEF SameRole, Writing, InAhead, InSaving
<1>10. CallType'
  <2>1. val' \in [Thread -> Nat]
    BY <1>f, <1>1, <1>3, <1>4 DEF CallType, Mine
  <2> QED
    BY <1>f, <1>1, <2>1 DEF CallType, PC
<1>11. LockInv'
  <2>1. ~InDirectory(t)' /\ ~InDirectory(t)
    BY <1>1, <1>p DEF InDirectory
  <2> QED
    BY <1>f, <1>1, <1>8, <2>1, LockStays
<1>12. CallOK(t)'
  BY <1>f, <1>1, <1>2, <1>3, <1>p DEF CallOK, Writing, Flushing, Mine
<1>13. pc[t] # "idle"
  BY <1>1
<1> QED
  BY <1>1, <1>8, <1>9, <1>10, <1>11, <1>12, <1>13, QuietStep

\* What is shared stays in order when an entry is changed that keeps its id.
LEMMA OneEntryShared ==
  ASSUME DataType, SharedInv, NEW p \in VP, NEW s \in Slot, NEW e, entries[p] # None,
         Puts(p, s, e), e.id = entries[p][s].id, UNCHANGED <<direntries, latest>>,
         \A i : (Writer(i)' <=> Writer(i)),
         \A q, i : (CopyAt(q, i)' <=> CopyAt(q, i)),
         \A q, r : q # p \/ r # s => (Flushed(q, r)' <=> Flushed(q, r)),
         \A q, i : q # p \/ i # e.id => (Ahead(q, i)' <=> Ahead(q, i)),
         EntryOK(p, s)',
         e.dirty \/ e.id = None \/ kept'[e.id] = latest[e.id],
         \A i \in Id : i # e.id => kept'[i] = kept[i]
  PROVE  SharedInv'
<1>1. /\ \A q \in VP : entries'[q] = None <=> entries[q] = None
      /\ \A q \in VP : entries[q] # None =>
           \A r \in Slot : entries'[q][r].id = entries[q][r].id
      /\ \A q \in VP : entries[q] # None =>
           \A r \in Slot : q # p \/ r # s => entries'[q][r] = entries[q][r]
      /\ entries'[p][s] = e
  BY DEF Puts
<1>2. EntryInv'
  <2>1. SUFFICES ASSUME NEW q \in VP, entries'[q] # None, NEW r \in Slot
                 PROVE  EntryOK(q, r)'
    BY DEF EntryInv
  <2>2. EntryOK(q, r) /\ entries[q] # None
    BY <1>1, <2>1 DEF SharedInv, EntryInv
  <2>3. CASE q = p /\ r = s
    BY <2>3
  <2>4. CASE q # p \/ r # s
    <3>1. entries'[q][r] = entries[q][r] /\ \A z \in Slot : entries'[q][z].id = entries[q][z].id
      BY <1>1, <2>2, <2>4
    <3>2. PICK i : i = entries[q][r].id
      OBVIOUS
    <3>3. i # None /\ q = p => i # e.id
      BY <2>2, <2>4, <3>2 DEF EntryOK
    <3>4. i # None => (Ahead(q, i)' <=> Ahead(q, i))
      BY <3>3
    <3>5. Flushed(q, r)' <=> Flushed(q, r)
      BY <2>4
    <3> QED
      BY <2>2, <3>1, <3>2, <3>4, <3>5 DEF EntryOK
  <2> QED
    BY <2>3, <2>4
<1>3. DirInv'
  <2>1. SUFFICES ASSUME NEW d \in DirSlot PROVE DirOK(d)'
    BY DEF DirInv
  <2>2. DirOK(d)
    BY DEF SharedInv, DirInv
  <2>3. direntries[d].vps \subseteq VP
    BY DEF DataType, DirEntry
  <2> QED
    BY <1>1, <2>2, <2>3 DEF DirOK
<1>4. SavedInv'
  <2>1. SUFFICES ASSUME NEW i \in Id, Clean(i)'
                 PROVE  kept'[i] = latest[i]
    BY DEF SavedInv
  <2>2. CASE i = e.id
    <3>1. ~e.dirty
      BY <1>1, <2>1, <2>2 DEF Clean
    <3> QED
      BY <2>2, <3>1, ReplicatedArrayAssumption
  <2>3. CASE i # e.id
    <3>1. Clean(i)
      BY <1>1, <2>1, <2>3 DEF Clean
    <3> QED
      BY <2>3, <3>1 DEF SharedInv, SavedInv
  <2> QED
    BY <2>2, <2>3
<1> QED
  BY <1>2, <1>3, <1>4 DEF SharedInv

\* putback locks the directory line and the queue.
LEMMA PutBackStep ==
  ASSUME OneEach, CacheInv, NEW t \in Thread, PutBack(t)
  PROVE  CacheInv'
<1>f. /\ DataType /\ CallType /\ LockInv /\ CallInv /\ CallOK(t) /\ My(t) \in VP
      /\ SharedInv /\ (InDirectory(t) <=> dirlock = t)
  BY Facts
<1>0. pc[t] = "puthash"
  BY DEF PutBack, At
<1>1. PICK p \in VP, s \in Slot, i \in Id :
        /\ p = My(t) /\ s = ep[t] /\ i = req[t].id /\ entries[p] # None
        /\ entries[p][s].id = i /\ entries[p][s].dirty /\ i # None
        /\ (~req[t].write => latest[i] \in seen[t])
  BY <1>f, <1>0, ReplicatedArrayAssumption DEF CallOK, Writing, Mine
<1>2. PICK used \in {count[p], 0} : entries' = [entries EXCEPT ![p][s].lastused = used]
  BY <1>1 DEF PutBack
<1>3. PICK d : d = LookupId(i)
  OBVIOUS
<1>4. /\ pc' = [pc EXCEPT ![t] = "update"] /\ direntry' = [direntry EXCEPT ![t] = d]
      /\ hlock' = [hlock EXCEPT ![p] = t]
      /\ UNCHANGED <<count, direntries, kept, dirlock, req, ep, val, left, latest, seen>>
  BY <1>1, <1>3 DEF PutBack, Goto, Mine
<1>5. entries[p] \in [Slot -> CacheEntry] /\ entries[p][s] \in CacheEntry /\ used \in Nat
  BY <1>f, <1>1 DEF DataType
<1>6. PICK e : e = [entries[p][s] EXCEPT !.lastused = used]
  OBVIOUS
<1>7. /\ e \in CacheEntry /\ e.id = entries[p][s].id /\ e.busy = entries[p][s].busy
      /\ e.dirty = entries[p][s].dirty /\ e.data = entries[p][s].data
  BY <1>5, <1>6, WithLastUsed
<1>8. Puts(p, s, e)
  <2>1. entries' = [entries EXCEPT ![p][s] = e]
    BY <1>2, <1>6
  <2> QED
    BY <1>f, <1>1, <1>7, <2>1, PutsEntry
<1>9. d \in DirSlot /\ direntries[d].id = i
  <2>1. EntryOK(p, s)
    BY <1>f, <1>1 DEF SharedInv, EntryInv
  <2> QED
    BY <1>1, <1>3, <2>1, LookupFinds DEF EntryOK
<1>10. Frame(t)
  BY <1>f, <1>4 DEF Frame, CallType
<1>p. pc'[t] = "update" /\ direntry'[t] = d
  BY <1>f, <1>4 DEF CallType
<1>11. SameRole(t)
  BY <1>0, <1>4, <1>p DEF SameRole, Writing, InAhead, InSaving
<1>12. SameEntries
  BY <1>f, <1>1, <1>7, <1>8, PutsSame
<1>13. DataType'
  BY <1>f, <1>4, <1>8, PutsType DEF DataType
<1>14. CallType'
  BY <1>f, <1>4, <1>9 DEF CallType, PC
<1>15. LockInv'
  <2>1. InDirectory(t)' /\ InDirectory(t)
    BY <1>0, <1>p DEF InDirectory
  <2> QED
    BY <1>f, <1>4, <1>10, <2>1, LockStays
<1>16. CallOK(t)'
  <2>1. entries'[p] # None /\ entries'[p][s].id = i /\ entries'[p][s].dirty
    BY <1>1, <1>7, <1>8 DEF Puts
  <2> QED
    BY <1>1, <1>4, <1>9, <1>p, <2>1 DEF CallOK, Writing, Flushing, Mine
<1>17. NoFlusher(t)
  BY <1>f, <1>0, OthersDontFlush
<1> QED
  BY <1>4, <1>10, <1>11, <1>12, <1>13, <1>14, <1>15, <1>16, <1>17, ControlStep

\* The queue of a processor is made.
LEMMA InitQueueStep ==
  ASSUME OneEach, CacheInv, NEW t \in Thread, InitQueue(t)
  PROVE  CacheInv'
<1>f. /\ DataType /\ CallType /\ LockInv /\ CallInv /\ CallOK(t) /\ My(t) \in VP
      /\ SharedInv /\ SingleWriter /\ (InDirectory(t) <=> dirlock = t)
  BY Facts
<1>0. /\ pc[t] = "init" /\ entries[My(t)] = None /\ req[t].id \in Id
      /\ (~req[t].write => latest[req[t].id] \in seen[t])
  BY <1>f DEF InitQueue, At, CallOK
<1>1. PICK p \in VP : p = My(t)
  BY <1>f
<1>2. PICK n : n = [s \in Slot |-> NewEntry]
  OBVIOUS
<1>3. PICK q : q = IF req[t].write THEN "dir1" ELSE "hash1"
  OBVIOUS
<1>4. /\ entries' = [entries EXCEPT ![p] = n] /\ pc' = [pc EXCEPT ![t] = q]
      /\ UNCHANGED <<count, direntries, kept, latest>>
      /\ UNCHANGED <<dirlock, hlock, req, ep, direntry, val, left, seen>>
  BY <1>1, <1>2, <1>3 DEF InitQueue, Goto, lockVars, callVars
<1>5. /\ n \in [Slot -> CacheEntry] /\ n # None
      /\ \A s \in Slot : n[s].id = None /\ ~n[s].busy
  <2>1. NewEntry \in CacheEntry /\ NewEntry.id = None /\ ~NewEntry.busy
    BY DEF NewEntry, CacheEntry
  <2>2. n \in [Slot -> CacheEntry] /\ \A s \in Slot : n[s] = NewEntry
    BY <1>2, <2>1
  <2> QED
    BY <2>1, <2>2, NoneAssumption
<1>6. /\ entries' = [v \in VP |-> entries'[v]] /\ entries'[p] = n
      /\ \A v \in VP : v # p => entries'[v] = entries[v]
  BY <1>f, <1>4 DEF DataType
<1>p. pc'[t] = q /\ q \in {"dir1", "hash1"}
  BY <1>f, <1>3, <1>4 DEF CallType
<1>7. Frame(t)
  BY <1>f, <1>4 DEF Frame, CallType
<1>8. SameRole(t)
  BY <1>0, <1>4, <1>p DEF SameRole, Writing, InAhead, InSaving
<1>9. SameRoles
  BY <1>7, <1>8, RolesStay
<1>10. DataType'
  BY <1>f, <1>4, <1>5, <1>6 DEF DataType
<1>11. CallType'
  BY <1>f, <1>4, <1>p DEF CallType, PC
<1>12. LockInv'
  <2>1. ~InDirectory(t)' /\ ~InDirectory(t)
    BY <1>0, <1>3, <1>4, <1>p DEF InDirectory
  <2> QED
    BY <1>f, <1>4, <1>7, <2>1, LockStays
<1>13. CallOK(t)'
  BY <1>0, <1>1, <1>3, <1>4, <1>5, <1>6, <1>p DEF CallOK, Writing, Flushing, Mine
<1>14. EntryInv'
  <2>1. SUFFICES ASSUME NEW v \in VP, entries'[v] # None, NEW s \in Slot
                 PROVE  EntryOK(v, s)'
    BY DEF EntryInv
  <2>2. CASE v = p
    BY <1>5, <1>6, <2>2 DEF EntryOK
  <2>3. CASE v # p
    <3>1. EntryOK(v, s)
      BY <1>f, <1>6, <2>1, <2>3 DEF SharedInv, EntryInv
    <3> QED
      BY <1>4, <1>6, <1>9, <2>3, <3>1 DEF EntryOK, SameRoles
  <2> QED
    BY <2>2, <2>3
<1>15. DirInv'
  <2>1. SUFFICES ASSUME NEW d \in DirSlot PROVE DirOK(d)'
    BY DEF DirInv
  <2>2. DirOK(d)
    BY <1>f DEF SharedInv, DirInv
  <2>3. direntries[d].vps \subseteq VP
    BY <1>f DEF DataType, DirEntry
  <2>4. \A v \in VP : entries[v] # None => entries'[v] = entries[v]
    BY <1>0, <1>1, <1>6
  <2> QED
    BY <1>4, <1>9, <2>2, <2>3, <2>4 DEF DirOK, SameRoles
<1>16. SavedInv'
  <2>1. \A v \in VP : entries[v] # None => entries'[v] = entries[v]
    BY <1>0, <1>1, <1>6
  <2>2. \A i \in Id : Clean(i)' => Clean(i)
    BY <1>4, <2>1 DEF Clean
  <2> QED
    BY <1>f, <1>4, <2>2 DEF SharedInv, SavedInv
<1>17. SingleWriter'
  <2>1. Writing(t)' => Writing(t) /\ req'[t] = req[t]
    BY <1>8 DEF SameRole
  <2> QED
    BY <1>f, <1>7, <2>1, WriterStays
<1>18. CallInv'
  <2>1. OtherQueues(t)
    BY <1>1, <1>6 DEF OtherQueues
  <2>2. LatestSeen(t)
    BY <1>4 DEF LatestSeen
  <2>3. NoFlusher(t)
    BY <1>f, <1>0, OthersDontFlush
  <2>4. \A u \in Thread : u # t => CallOK(u)'
    BY <1>f, <1>4, <1>7, <2>1, <2>2, <2>3, OthersKeep
  <2> QED
    BY <1>13, <2>4 DEF CallInv
<1> QED
  BY <1>10, <1>11, <1>12, <1>14, <1>15, <1>16, <1>17, <1>18 DEF CacheInv, SharedInv

-----------------------------------------------------------------------------
(* Steps that change data.                                                 *)

\* A step that changes entries of the own queue only, and begins no write.
LEMMA ValueStep ==
  ASSUME OneEach, CacheInv, NEW t \in Thread, pc[t] # "idle", Frame(t), OtherQueues(t),
         direntries' = direntries \/ dirlock = t, LatestSeen(t),
         \A u \in Thread : u # t /\ Writing(u) => latest'[req[u].id] = latest[req[u].id],
         Writing(t)' => Writing(t) /\ req'[t] = req[t],
         DataType', CallType', LockInv', SharedInv', CallOK(t)'
  PROVE  CacheInv'
<1>1. DataType /\ CallType /\ LockInv /\ CallInv /\ SingleWriter /\ NoFlusher(t)
  BY OthersDontFlush DEF CacheInv
<1>2. SingleWriter'
  BY <1>1, WriterStays
<1>4. \A u \in Thread : u # t => CallOK(u)'
  BY <1>1, OthersKeep
<1>5. CallInv'
  BY <1>4 DEF CallInv
<1> QED
  BY <1>2, <1>5 DEF CacheInv

\* One that puts nothing back and loads nothing.
LEMMA OwnStep ==
  ASSUME OneEach, CacheInv, NEW t \in Thread, pc[t] # "idle", Frame(t), OtherQueues(t),
         direntries' = direntries \/ dirlock = t, UNCHANGED latest,
         Writing(t)' => Writing(t) /\ req'[t] = req[t],
         DataType', CallType', LockInv', SharedInv', CallOK(t)'
  PROVE  CacheInv'
<1>1. LatestSeen(t)
  BY DEF LatestSeen
<1> QED
  BY <1>1, ValueStep

\* An id is written by the same clients.
LEMMA WriterSame ==
  ASSUME NEW t \in Thread, Frame(t), Writing(t)' <=> Writing(t),
         Writing(t) => req'[t] = req[t]
  PROVE  \A i : Writer(i)' <=> Writer(i)
<1>1. \A u \in Thread : /\ Writing(u)' <=> Writing(u)
                        /\ Writing(u) => req'[u].id = req[u].id
  BY DEF Frame, Writing
<1> QED
  BY <1>1 DEF Writer

\* Copies are awaited by the same clients.
LEMMA CopySame ==
  ASSUME NEW t \in Thread, Frame(t), pc[t] # "copy", pc'[t] # "copy"
  PROVE  \A p, i : CopyAt(p, i)' <=> CopyAt(p, i)
<1>1. \A u \in Thread : /\ pc'[u] = "copy" <=> pc[u] = "copy"
                        /\ pc[u] = "copy" => req'[u].id = req[u].id
  BY DEF Frame
<1> QED
  BY <1>1 DEF CopyAt

\* A client is ahead of the other copies only with its own id at its own processor.
LEMMA AheadElsewhere ==
  ASSUME NEW t \in Thread, Frame(t), NEW j,
         InAhead(t)' => req'[t].id = j, InAhead(t) => req[t].id = j
  PROVE  \A p, i : p # My(t) \/ i # j => (Ahead(p, i)' <=> Ahead(p, i))
<1>1. \A u \in Thread : u # t => /\ InAhead(u)' <=> InAhead(u)
                                 /\ req'[u] = req[u]
  BY DEF Frame, InAhead
<1> SUFFICES ASSUME NEW p, NEW i, p # My(t) \/ i # j PROVE Ahead(p, i)' <=> Ahead(p, i)
  OBVIOUS
<1>2. \A u \in Thread : (My(u) = p /\ req'[u].id = i /\ InAhead(u)')
                         <=> (My(u) = p /\ req[u].id = i /\ InAhead(u))
  BY <1>1
<1> QED
  BY <1>2 DEF Ahead, InAhead

\* Flush saves one entry of the own processor at a time.
LEMMA FlushedElsewhere ==
  ASSUME NEW t \in Thread, Frame(t), NEW s,
         InSaving(t)' => ep'[t] = s, InSaving(t) => ep[t] = s
  PROVE  \A p, r : p # My(t) \/ r # s => (Flushed(p, r)' <=> Flushed(p, r))
<1>1. \A u \in Thread : u # t => /\ InSaving(u)' <=> InSaving(u)
                                 /\ ep'[u] = ep[u]
  BY DEF Frame, InSaving
<1> SUFFICES ASSUME NEW p, NEW r, p # My(t) \/ r # s PROVE Flushed(p, r)' <=> Flushed(p, r)
  OBVIOUS
<1>2. \A u \in Thread : (My(u) = p /\ InSaving(u)' /\ ep'[u] = r)
                         <=> (My(u) = p /\ InSaving(u) /\ ep[u] = r)
  BY <1>1
<1> QED
  BY <1>2 DEF Flushed, InSaving

\* What the client makes of a value.
LEMMA IncrType ==
  ASSUME NEW i \in Id, NEW v \in Nat
  PROVE  Incr(i, v) \in Nat
  BY DEF Incr

\* A writer changes its entry, the other copies wait for its putback.
LEMMA EndWriteStep ==
  ASSUME OneEach, CacheInv, NEW t \in Thread, EndWrite(t)
  PROVE  CacheInv'
<1>f. /\ DataType /\ CallType /\ LockInv /\ CallInv /\ CallOK(t) /\ My(t) \in VP
      /\ SharedInv /\ (InDirectory(t) <=> dirlock = t)
  BY Facts
<1>0. pc[t] = "written"
  BY DEF EndWrite, At
<1>1. PICK p \in VP, s \in Slot, i \in Id :
        /\ p = My(t) /\ s = ep[t] /\ i = req[t].id /\ entries[p] # None
        /\ entries[p][s].id = i /\ i # None
        /\ (~req[t].write => latest[i] \in seen[t]) /\ val[t] = latest[i]
  BY <1>f, <1>0, ReplicatedArrayAssumption DEF CallOK, Writing, Mine
<1>2. /\ pc' = [pc EXCEPT ![t] = "putdir"]
      /\ entries' = [entries EXCEPT ![p][s].data = Incr(i, val[t]), ![p][s].dirty = TRUE]
      /\ UNCHANGED <<count, direntries, kept, latest>>
      /\ UNCHANGED <<dirlock, hlock, req, ep, direntry, val, left, seen>>
  BY <1>1 DEF EndWrite, Goto, lockVars, callVars
<1>3. entries[p] \in [Slot -> CacheEntry] /\ entries[p][s] \in CacheEntry /\ Incr(i, val[t]) \in Nat
  <2>1. val[t] \in Nat
    BY <1>f DEF CallType
  <2> QED
    BY <1>f, <1>1, <2>1, IncrType DEF DataType
<1>4. PICK c : c = [entries[p][s] EXCEPT !.data = Incr(i, val[t])]
  OBVIOUS
<1>5. PICK e : e = [c EXCEPT !.dirty = TRUE]
  OBVIOUS
<1>6. /\ c \in CacheEntry /\ c.id = i /\ c.busy = entries[p][s].busy
      /\ c.data = Incr(i, val[t])
  BY <1>1, <1>3, <1>4, WithData
<1>7. /\ e \in CacheEntry /\ e.id = i /\ e.busy = entries[p][s].busy
      /\ e.dirty /\ e.data = Incr(i, val[t])
  BY <1>5, <1>6, WithDirty
<1>8. Puts(p, s, e)
  <2>1. entries' = [entries EXCEPT ![p][s] = e]
    BY <1>f, <1>1, <1>2, <1>3, <1>4, <1>5 DEF DataType
  <2> QED
    BY <1>f, <1>1, <1>7, <2>1, PutsEntry
<1>p. pc'[t] = "putdir"
  BY <1>f, <1>2 DEF CallType
<1>9. Frame(t)
  BY <1>f, <1>2 DEF Frame, CallType
<1>10. DataType'
  BY <1>f, <1>2, <1>8, PutsType DEF DataType
<1>11. CallType'
  BY <1>f, <1>2 DEF CallType, PC
<1>12. LockInv'
  <2>1. ~InDirectory(t)' /\ ~InDirectory(t)
    BY <1>0, <1>p DEF InDirectory
  <2> QED
    BY <1>f, <1>2, <1>9, <2>1, LockStays
<1>13. CallOK(t)'
  <2>1. entries'[p] # None /\ entries'[p][s].id = i /\ entries'[p][s].dirty
    BY <1>7, <1>8 DEF Puts
  <2> QED
    BY <1>1, <1>2, <1>p, <2>1 DEF CallOK, Writing, Flushing, Mine
<1>14. /\ \A j : Writer(j)' <=> Writer(j)
       /\ \A q, j : CopyAt(q, j)' <=> CopyAt(q, j)
       /\ \A q, j : q # p \/ j # i => (Ahead(q, j)' <=> Ahead(q, j))
       /\ \A q, r : Flushed(q, r)' <=> Flushed(q, r)
  <2>1. \A j : Writer(j)' <=> Writer(j)
    BY <1>0, <1>2, <1>9, <1>p, WriterSame DEF Writing
  <2>2. \A q, j : CopyAt(q, j)' <=> CopyAt(q, j)
    BY <1>0, <1>9, <1>p, CopySame
  <2>3. \A q, j : q # p \/ j # i => (Ahead(q, j)' <=> Ahead(q, j))
    BY <1>1, <1>2, <1>9, AheadElsewhere
  <2>4. ~InSaving(t) /\ ~InSaving(t)'
    BY <1>0, <1>p DEF InSaving
  <2>5. \A q, r : Flushed(q, r)' <=> Flushed(q, r)
    BY <1>9, <2>4 DEF Flushed, Frame, InSaving
  <2> QED
    BY <2>1, <2>2, <2>3, <2>5
<1>15. EntryOK(p, s)'
  <2>1. EntryOK(p, s)
    BY <1>f, <1>1 DEF SharedInv, EntryInv
  <2>2. Ahead(p, i)'
    BY <1>1, <1>2, <1>p DEF Ahead
  <2>3. entries'[p][s] = e /\ \A r \in Slot : entries'[p][r].id = entries[p][r].id
    BY <1>1, <1>7, <1>8 DEF Puts
  <2>4. e.busy <=> Writer(i)' \/ Flushed(p, s)'
    BY <1>1, <1>7, <1>14, <2>1 DEF EntryOK
  <2>5. e.data = Incr(i, latest'[i])
    BY <1>1, <1>2, <1>7
  <2>6. \E d \in DirSlot : direntries'[d].id = i /\ (p \in direntries'[d].vps \/ CopyAt(p, i)')
    BY <1>1, <1>2, <1>14, <2>1 DEF EntryOK
  <2>7. \A r \in Slot : entries'[p][r].id = i => r = s
    BY <1>1, <2>1, <2>3 DEF EntryOK
  <2> QED
    BY <1>1, <1>7, <2>2, <2>3, <2>4, <2>5, <2>6, <2>7 DEF EntryOK
<1>16. SharedInv'
  <2>1. e.id = entries[p][s].id
    BY <1>1, <1>7
  <2> QED
    BY <1>f, <1>1, <1>2, <1>7, <1>8, <1>14, <1>15, <2>1, OneEntryShared
<1>17. OtherQueues(t)
  BY <1>f, <1>1, <1>8, PutsOthers
<1>18. Writing(t)' => Writing(t) /\ req'[t] = req[t]
  BY <1>0, <1>2 DEF Writing
<1> QED
  BY <1>0, <1>2, <1>9, <1>10, <1>11, <1>12, <1>13, <1>16, <1>17, <1>18, OwnStep

\* While t flushes nobody writes or copies.
LEMMA FlushFacts ==
  ASSUME CacheInv, NEW t \in Thread, Flushing(t)
  PROVE  /\ entries[My(t)] # None /\ My(t) \in VP
         /\ \A u \in Thread : u # t => pc[u] = "idle"
         /\ \A i : ~Writer(i)
         /\ \A p, i : ~Ahead(p, i) /\ ~CopyAt(p, i)
<1>1. CallOK(t) /\ My(t) \in VP
  BY Facts
<1>2. entries[My(t)] # None /\ \A u \in Thread : u # t => pc[u] = "idle"
  BY <1>1 DEF CallOK, Flushing
<1>3. \A u \in Thread : /\ ~Writing(u) /\ pc[u] # "copy"
                        /\ pc[u] \notin {"putdir", "puthash", "update"}
  BY <1>2 DEF Writing, Flushing
<1> QED
  BY <1>1, <1>2, <1>3 DEF Writer, Ahead, CopyAt

\* A step of flush.
LEMMA FlushStep ==
  ASSUME OneEach, CacheInv, NEW t \in Thread, Flushing(t), Flushing(t)',
         Frame(t), NEW s \in Slot, NEW e,
         Puts(My(t), s, e), e.id = entries[My(t)][s].id, e.id \in Id, e.data = latest[e.id],
         InSaving(t) => ep[t] = s, InSaving(t)' => ep'[t] = s,
         e.busy <=> InSaving(t)',
         e.dirty \/ kept'[e.id] = latest[e.id], \A i \in Id : i # e.id => kept'[i] = kept[i],
         pc'[t] = "saved" => kept'[e.id] = latest[e.id],
         UNCHANGED <<direntries, latest, dirlock, req>>, DataType', CallType'
  PROVE  CacheInv'
<1>f. /\ DataType /\ CallType /\ LockInv /\ CallInv /\ CallOK(t) /\ My(t) \in VP
      /\ SharedInv /\ (InDirectory(t) <=> dirlock = t)
  BY Facts
<1>1. PICK p \in VP : p = My(t)
  BY <1>f
<1>2. /\ entries[p] # None
      /\ \A u \in Thread : u # t => pc[u] = "idle"
      /\ \A i : ~Writer(i)
      /\ \A q, i : ~Ahead(q, i) /\ ~CopyAt(q, i)
  BY <1>1, FlushFacts
<1>3. PICK i \in Id : i = e.id
  OBVIOUS
<1>4. i # None
  BY ReplicatedArrayAssumption
<1>5. ~Writing(t) /\ ~Writing(t)' /\ pc[t] # "copy" /\ pc'[t] # "copy" /\ pc[t] # "idle"
  BY DEF Flushing, Writing
<1>6. ~InAhead(t) /\ ~InAhead(t)' /\ ~InDirectory(t) /\ ~InDirectory(t)'
  BY DEF Flushing, InAhead, InDirectory
<1>7. LockInv'
  BY <1>f, <1>6, LockStays
<1>8. \A j : Writer(j)' <=> Writer(j)
  BY <1>5, WriterSame
<1>9. \A q, j : CopyAt(q, j)' <=> CopyAt(q, j)
  BY <1>5, CopySame
<1>10. \A q, j : q # p \/ j # i => (Ahead(q, j)' <=> Ahead(q, j))
  BY <1>1, <1>6, AheadElsewhere
<1>11. \A q, r : q # p \/ r # s => (Flushed(q, r)' <=> Flushed(q, r))
  BY <1>1, FlushedElsewhere
<1>12. \A u \in Thread : u # t => pc'[u] = "idle"
  BY <1>2 DEF Frame
<1>13. entries'[p] # None /\ entries'[p][s] = e
       /\ \A r \in Slot : entries'[p][r].id = entries[p][r].id
  BY <1>1 DEF Puts
<1>14. EntryOK(p, s)'
  <2>1. EntryOK(p, s)
    BY <1>f, <1>2 DEF SharedInv, EntryInv
  <2>2. e.busy <=> Writer(i)' \/ Flushed(p, s)'
    <3>1. Flushed(p, s)' <=> InSaving(t)'
      BY <1>1, <1>12 DEF Flushed, InSaving
    <3> QED
      BY <1>2, <1>8, <3>1
  <2>3. ~Ahead(p, i)'
    BY <1>6, <1>12 DEF Ahead, InAhead
  <2>4. \E d \in DirSlot : direntries'[d].id = i /\ (p \in direntries'[d].vps \/ CopyAt(p, i)')
    BY <1>1, <1>3, <1>4, <1>9, <2>1 DEF EntryOK
  <2>5. \A r \in Slot : entries'[p][r].id = i => r = s
    BY <1>1, <1>3, <1>4, <1>13, <2>1 DEF EntryOK
  <2> QED
    BY <1>3, <1>4, <1>13, <2>2, <2>3, <2>4, <2>5 DEF EntryOK
<1>15. SharedInv'
  <2>1. Puts(p, s, e) /\ e.id = entries[p][s].id
    BY <1>1
  <2> QED
    BY <1>f, <1>2, <1>3, <1>8, <1>9, <1>10, <1>11, <1>14, <2>1, OneEntryShared
<1>16. CallOK(t)'
  <2>1. InSaving(t)' => Mine(t)' = e
    BY <1>1, <1>13 DEF Mine
  <2>2. pc'[t] \in {"save", "saved"} => ep'[t] \in Slot /\ Mine(t)'.id \in Id
    BY <2>1 DEF InSaving
  <2>3. pc'[t] = "saved" => kept'[Mine(t)'.id] = latest'[Mine(t)'.id]
    BY <2>1 DEF InSaving
  <2>4. pc'[t] \in {"flush", "save", "saved"}
    BY DEF Flushing
  <2> QED
    BY <1>1, <1>5, <1>12, <1>13, <2>2, <2>3, <2>4 DEF CallOK
<1>17. OtherQueues(t)
  BY <1>f, PutsOthers
<1> QED
  BY <1>f, <1>5, <1>7, <1>15, <1>16, <1>17, OwnStep

\* What the entry that flush works on holds.
LEMMA FlushedEntry ==
  ASSUME CacheInv, NEW t \in Thread, Flushing(t), NEW s \in Slot, entries[My(t)][s].id \in Id
  PROVE  /\ entries[My(t)][s] \in CacheEntry
         /\ entries[My(t)][s].data = latest[entries[My(t)][s].id]
<1>1. /\ DataType /\ SharedInv /\ My(t) \in VP
  BY Facts
<1>2. entries[My(t)] # None /\ \A p, i : ~Ahead(p, i) /\ ~CopyAt(p, i)
  BY FlushFacts
<1>3. EntryOK(My(t), s)
  BY <1>1, <1>2 DEF SharedInv, EntryInv
<1>4. entries[My(t)][s].id # None
  BY ReplicatedArrayAssumption
<1> QED
  BY <1>1, <1>2, <1>3, <1>4 DEF DataType, EntryOK

\* flush takes the next dirty entry.
LEMMA FlushNextStep ==
  ASSUME OneEach, CacheInv, NEW t \in Thread, FlushNext(t)
  PROVE  CacheInv'
<1>f. /\ DataType /\ CallType /\ LockInv /\ CallInv /\ CallOK(t) /\ My(t) \in VP
  BY Facts
<1>0. pc[t] = "flush" /\ Flushing(t)
  BY DEF FlushNext, At, Flushing
<1>1. PICK p \in VP : p = My(t) /\ entries[p] # None
  BY <1>0, FlushFacts
<1>2. PICK s : s = Min(ToFlush(My(t)))
  OBVIOUS
<1>3. /\ pc' = [pc EXCEPT ![t] = "save"] /\ ep' = [ep EXCEPT ![t] = s]
      /\ entries' = [entries EXCEPT ![p][s].busy = TRUE] /\ ToFlush(p) # {}
      /\ UNCHANGED <<count, direntries, kept, latest>>
      /\ UNCHANGED <<dirlock, hlock, req, direntry, val, left, seen>>
  BY <1>1, <1>2 DEF FlushNext, Goto, lockVars
<1>4. s \in ToFlush(p)
  <2>1. ToFlush(p) \subseteq Nat
    BY DEF ToFlush, Slot
  <2> QED
    BY <1>1, <1>2, <1>3, <2>1, LeastNat
<1>5. s \in Slot /\ entries[p][s] \in CacheEntry /\ entries[p][s].id \in Id /\ entries[p][s].dirty
  <2>1. s \in Slot /\ entries[p][s].id # None /\ entries[p][s].dirty
    BY <1>4 DEF ToFlush
  <2>2. entries[p][s] \in CacheEntry
    BY <1>f, <1>1, <2>1 DEF DataType
  <2> QED
    BY <2>1, <2>2, Fields
<1>6. PICK e : e = [entries[p][s] EXCEPT !.busy = TRUE]
  OBVIOUS
<1>7. /\ e \in CacheEntry /\ e.id = entries[p][s].id /\ e.busy
      /\ e.dirty /\ e.data = entries[p][s].data
  BY <1>5, <1>6, WithBusy
<1>8. e.data = latest[e.id] /\ e.id \in Id
  BY <1>0, <1>1, <1>5, <1>7, FlushedEntry
<1>9. Puts(p, s, e)
  <2>1. entries' = [entries EXCEPT ![p][s] = e]
    BY <1>3, <1>6
  <2> QED
    BY <1>f, <1>1, <1>5, <1>7, <2>1, PutsEntry
<1>p. pc'[t] = "save" /\ ep'[t] = s
  BY <1>f, <1>3 DEF CallType
<1>10. Frame(t)
  BY <1>f, <1>3 DEF Frame, CallType
<1>11. DataType'
  BY <1>f, <1>3, <1>9, PutsType DEF DataType
<1>12. CallType'
  BY <1>f, <1>3, <1>5 DEF CallType, PC
<1>13. Flushing(t)' /\ InSaving(t)' /\ ~InSaving(t)
  BY <1>0, <1>p DEF Flushing, InSaving
<1> QED
  BY <1>0, <1>1, <1>3, <1>5, <1>7, <1>8, <1>9, <1>p, <1>10, <1>11, <1>12, <1>13, FlushStep

\* It is saved.
LEMMA SaveStep ==
  ASSUME OneEach, CacheInv, NEW t \in Thread, Save(t)
  PROVE  CacheInv'
<1>f. /\ DataType /\ CallType /\ LockInv /\ CallInv /\ CallOK(t) /\ My(t) \in VP
  BY Facts
<1>0. pc[t] = "save" /\ Flushing(t)
  BY DEF Save, At, Flushing
<1>1. PICK p \in VP : p = My(t) /\ entries[p] # None
  BY <1>0, FlushFacts
<1>2. PICK s \in Slot : s = ep[t] /\ entries[p][s].id \in Id
  BY <1>f, <1>0, <1>1 DEF CallOK, Mine
<1>3. PICK e : e = entries[p][s]
  OBVIOUS
<1>4. e \in CacheEntry /\ e.data = latest[e.id] /\ e.id \in Id
  BY <1>0, <1>1, <1>2, <1>3, FlushedEntry
<1>5. /\ pc' = [pc EXCEPT ![t] = "saved"]
      /\ kept' = [kept EXCEPT ![e.id] = latest[e.id]]
      /\ UNCHANGED <<entries, count, direntries, latest>>
      /\ UNCHANGED <<dirlock, hlock, req, ep, direntry, val, left, seen>>
  BY <1>1, <1>2, <1>3, <1>4 DEF Save, Goto, lockVars, callVars, Mine
<1>6. Puts(p, s, e)
  BY <1>f, <1>1, <1>3, <1>5 DEF Puts, DataType
<1>7. e.busy
  <2>1. EntryOK(p, s)
    BY <1>f, <1>1, Facts DEF SharedInv, EntryInv
  <2>2. Flushed(p, s)
    BY <1>0, <1>1, <1>2 DEF Flushed
  <2> QED
    BY <1>3, <1>4, <2>1, <2>2, ReplicatedArrayAssumption DEF EntryOK
<1>8. kept' \in [Id -> Nat] /\ kept'[e.id] = latest[e.id]
      /\ \A i \in Id : i # e.id => kept'[i] = kept[i]
  BY <1>f, <1>4, <1>5 DEF DataType
<1>p. pc'[t] = "saved" /\ ep'[t] = s
  BY <1>f, <1>2, <1>5 DEF CallType
<1>10. Frame(t)
  BY <1>f, <1>5 DEF Frame, CallType
<1>11. DataType'
  BY <1>f, <1>5, <1>8 DEF DataType
<1>12. CallType'
  BY <1>f, <1>5 DEF CallType, PC
<1>13. Flushing(t)' /\ InSaving(t)'
  BY <1>p DEF Flushing, InSaving
<1> QED
  BY <1>0, <1>1, <1>2, <1>3, <1>4, <1>5, <1>6, <1>7, <1>8, <1>p, <1>10, <1>11, <1>12, <1>13,
     FlushStep

\* And is clean again.
LEMMA FlushedOneStep ==
  ASSUME OneEach, CacheInv, NEW t \in Thread, FlushedOne(t)
  PROVE  CacheInv'
<1>f. /\ DataType /\ CallType /\ LockInv /\ CallInv /\ CallOK(t) /\ My(t) \in VP
  BY Facts
<1>0. pc[t] = "saved" /\ Flushing(t)
  BY DEF FlushedOne, At, Flushing
<1>1. PICK p \in VP : p = My(t) /\ entries[p] # None
  BY <1>0, FlushFacts
<1>2. PICK s \in Slot : /\ s = ep[t] /\ entries[p][s].id \in Id
                        /\ kept[entries[p][s].id] = latest[entries[p][s].id]
  BY <1>f, <1>0, <1>1 DEF CallOK, Mine
<1>3. /\ pc' = [pc EXCEPT ![t] = "flush"]
      /\ entries' = [entries EXCEPT ![p][s].busy = FALSE, ![p][s].dirty = FALSE]
      /\ UNCHANGED <<count, direntries, kept, latest>>
      /\ UNCHANGED <<dirlock, hlock, req, ep, direntry, val, left, seen>>
  BY <1>1, <1>2 DEF FlushedOne, Goto, lockVars, callVars
<1>4. entries[p] \in [Slot -> CacheEntry] /\ entries[p][s] \in CacheEntry
  BY <1>f, <1>1 DEF DataType
<1>5. PICK c : c = [entries[p][s] EXCEPT !.busy = FALSE]
  OBVIOUS
<1>6. PICK e : e = [c EXCEPT !.dirty = FALSE]
  OBVIOUS
<1>7. c \in CacheEntry /\ c.id = entries[p][s].id /\ ~c.busy /\ c.data = entries[p][s].data
  BY <1>4, <1>5, WithBusy
<1>8. /\ e \in CacheEntry /\ e.id = entries[p][s].id /\ ~e.busy
      /\ e.data = entries[p][s].data
  BY <1>6, <1>7, WithDirty
<1>9. Puts(p, s, e)
  <2>1. entries' = [entries EXCEPT ![p][s] = e]
    BY <1>f, <1>1, <1>3, <1>4, <1>5, <1>6 DEF DataType
  <2> QED
    BY <1>f, <1>1, <1>8, <2>1, PutsEntry
<1>15. e.data = latest[e.id] /\ e.id \in Id /\ kept'[e.id] = latest[e.id]
  BY <1>0, <1>1, <1>2, <1>3, <1>8, FlushedEntry
<1>p. pc'[t] = "flush"
  BY <1>f, <1>3 DEF CallType
<1>10. Frame(t)
  BY <1>f, <1>3 DEF Frame, CallType
<1>11. DataType'
  BY <1>f, <1>3, <1>9, PutsType DEF DataType
<1>12. CallType'
  BY <1>f, <1>3 DEF CallType, PC
<1>13. Flushing(t)' /\ ~InSaving(t)'
  BY <1>p DEF Flushing, InSaving
<1> QED
  BY <1>0, <1>1, <1>2, <1>3, <1>8, <1>9, <1>15, <1>p, <1>10, <1>11, <1>12, <1>13, FlushStep

-----------------------------------------------------------------------------
(* Steps that change all copies of an id.                                  *)

\* Who holds the directory's lock is the only one in the directory.
LEMMA AloneInDirectory ==
  ASSUME LockInv, NEW t \in Thread, dirlock = t, NEW u \in Thread, InDirectory(u)
  PROVE  u = t
  BY DEF LockInv

\* While t is between get and the end of putback, nothing is being flushed.
LEMMA NothingFlushed ==
  ASSUME CacheInv, NEW t \in Thread, pc[t] # "idle", ~Flushing(t), ~Flushing(t)', Frame(t)
  PROVE  /\ \A p, s : ~Flushed(p, s) /\ ~Flushed(p, s)'
         /\ NoFlusher(t)
<1>1. NoFlusher(t)
  BY OthersDontFlush DEF CacheInv
<1>2. \A u \in Thread : pc[u] \notin {"save", "saved"} /\ pc'[u] \notin {"save", "saved"}
  BY <1>1 DEF NoFlusher, Flushing, Frame
<1> QED
  BY <1>1, <1>2 DEF Flushed

\* Before a client marks or updates the copies of its id, the processors of the
\* directory entry, its own among them, are those with a copy; each has one.
LEMMA CopiesFound ==
  ASSUME OneEach, CacheInv, NEW t \in Thread, pc[t] \in {"busy", "update"}
  PROVE  /\ Changed(t) \subseteq VP
         /\ \A p \in Changed(t) : /\ entries[p] # None /\ SlotOf(t, p) \in Slot
                                  /\ entries[p][SlotOf(t, p)].id = req[t].id
         /\ \A p \in VP : entries[p] # None =>
              \A r \in Slot : entries[p][r].id = req[t].id => p \in Changed(t) /\ r = SlotOf(t, p)
<1>f. /\ DataType /\ CallType /\ LockInv /\ CallInv /\ CallOK(t) /\ My(t) \in VP
      /\ SharedInv /\ (InDirectory(t) <=> dirlock = t)
  BY Facts
<1>1. PICK p \in VP, s \in Slot, i \in Id, d \in DirSlot :
        /\ p = My(t) /\ s = ep[t] /\ i = req[t].id /\ d = direntry[t] /\ entries[p] # None
        /\ entries[p][s].id = i /\ i # None /\ direntries[d].id = i
  BY <1>f, ReplicatedArrayAssumption DEF CallOK, Writing, Mine
<1>2. dirlock = t
  BY <1>f DEF InDirectory
<1>3. \A q : ~CopyAt(q, i)
  <2>1. \A u \in Thread : pc[u] = "copy" => u = t
    BY <1>f, <1>2, AloneInDirectory DEF InDirectory
  <2> QED
    BY <2>1 DEF CopyAt
<1>4. DirOK(d)
  BY <1>f DEF SharedInv, DirInv
<1>5. Copies(t) = direntries[d].vps /\ Copies(t) \subseteq VP
  BY <1>f, <1>1 DEF Copies, DataType, DirEntry
<1>6. \A q \in VP : entries[q] # None =>
        \A r \in Slot : entries[q][r].id = i =>
          /\ q \in Copies(t)
          /\ \A z \in Slot : entries[q][z].id = i => z = r
  <2> SUFFICES ASSUME NEW q \in VP, entries[q] # None, NEW r \in Slot, entries[q][r].id = i
               PROVE  /\ q \in Copies(t)
                      /\ \A z \in Slot : entries[q][z].id = i => z = r
    OBVIOUS
  <2>1. EntryOK(q, r)
    BY <1>f DEF SharedInv, EntryInv
  <2>2. PICK c \in DirSlot : direntries[c].id = i /\ q \in direntries[c].vps
    BY <1>1, <1>3, <2>1 DEF EntryOK
  <2>3. c = d
    BY <1>1, <1>4, <2>2 DEF DirOK
  <2> QED
    BY <1>1, <1>5, <2>1, <2>2, <2>3 DEF EntryOK
<1>7. \A q \in Changed(t) : q \in Copies(t) /\ entries[q] # None
        /\ \E r \in Slot : entries[q][r].id = i
  <2>1. p \in Copies(t)
    BY <1>1, <1>6
  <2> QED
    BY <1>1, <1>4, <1>5, <2>1 DEF Changed, DirOK
<1>8. \A q \in Changed(t) : SlotOf(t, q) \in Slot /\ entries[q][SlotOf(t, q)].id = i
  <2> TAKE q \in Changed(t)
  <2>1. CASE q = p
    BY <1>1, <2>1 DEF SlotOf
  <2>2. CASE q # p
    <3>1. SlotOf(t, q) = Search(q, i)
      BY <1>1, <2>2 DEF SlotOf
    <3>2. Search(q, i) # 0
      BY <1>7, SearchFinds
    <3> QED
      BY <3>1, <3>2, SearchFinds
  <2> QED
    BY <2>1, <2>2
<1>9. \A q \in VP : entries[q] # None =>
        \A r \in Slot : entries[q][r].id = i => q \in Changed(t) /\ r = SlotOf(t, q)
  BY <1>6, <1>8 DEF Changed
<1> QED
  BY <1>1, <1>5, <1>7, <1>8, <1>9 DEF Changed

\* The copies of i are marked, or unmarked; ids and dirty bits stay.
CopiesMarked(i, b) ==
  /\ entries' = [p \in VP |-> entries'[p]]
  /\ \A p \in VP : entries'[p] = None <=> entries[p] = None
  /\ \A p \in VP : entries[p] # None =>
       /\ entries'[p] \in [Slot -> CacheEntry]
       /\ \A r \in Slot : /\ entries'[p][r].id = entries[p][r].id
                          /\ entries'[p][r].dirty = entries[p][r].dirty
                          /\ entries[p][r].id = i => entries'[p][r].busy = b
                          /\ entries[p][r].id # i => entries'[p][r] = entries[p][r]

\* The roles change for i only; it is written from now on, or no longer.
RolesMarked(i, b) ==
  /\ Writer(i)' <=> b
  /\ \A j : j # i => (Writer(j)' <=> Writer(j))
  /\ \A p, j : ~CopyAt(p, j) /\ ~CopyAt(p, j)'
  /\ \A p, s : ~Flushed(p, s) /\ ~Flushed(p, s)'
  /\ \A p, j : j # i => (Ahead(p, j)' <=> Ahead(p, j))

\* All copies of i have the data of its last putback.
CopiesUpdated(i) ==
  \A p \in VP : entries[p] # None => \A r \in Slot : entries[p][r].id = i =>
    entries'[p][r].data = IF Ahead(p, i)' THEN Incr(i, latest'[i]) ELSE latest'[i]

\* They are marked exactly while the id is written; the rest stays as it is.
LEMMA MarkedShared ==
  ASSUME DataType, SharedInv, NEW i \in Id, NEW d \in DirSlot, direntries[d].id = i,
         NEW b \in BOOLEAN, CopiesMarked(i, b), UNCHANGED kept,
         direntries' = [direntries EXCEPT ![d].busy = b],
         RolesMarked(i, b), CopiesUpdated(i),
         \A j \in Id : j # i => latest'[j] = latest[j],
         latest'[i] = latest[i] \/ ~Clean(i)'
  PROVE  SharedInv'
<1>0. i # None
  BY ReplicatedArrayAssumption
<1>r. /\ Writer(i)' <=> b
      /\ \A j : j # i => (Writer(j)' <=> Writer(j))
      /\ \A p, j : ~CopyAt(p, j) /\ ~CopyAt(p, j)'
      /\ \A p, s : ~Flushed(p, s) /\ ~Flushed(p, s)'
      /\ \A p, j : j # i => (Ahead(p, j)' <=> Ahead(p, j))
  BY DEF RolesMarked
<1>1. \A c \in DirSlot : /\ direntries'[c].id = direntries[c].id
                         /\ direntries'[c].vps = direntries[c].vps
                         /\ direntries'[c].modified = direntries[c].modified
                         /\ c # d => direntries'[c].busy = direntries[c].busy
  BY DEF DataType, DirEntry
<1>2. direntries'[d].busy = b
  BY DEF DataType, DirEntry
<1>3. /\ \A p \in VP : entries'[p] = None <=> entries[p] = None
      /\ \A p \in VP : entries[p] # None =>
           \A r \in Slot : /\ entries'[p][r].id = entries[p][r].id
                           /\ entries'[p][r].dirty = entries[p][r].dirty
                           /\ entries[p][r].id = i => entries'[p][r].busy = b
                           /\ entries[p][r].id # i => entries'[p][r] = entries[p][r]
  BY DEF CopiesMarked
<1>4. EntryInv'
  <2>1. SUFFICES ASSUME NEW p \in VP, entries'[p] # None, NEW r \in Slot
                 PROVE  EntryOK(p, r)'
    BY DEF EntryInv
  <2>2. EntryOK(p, r) /\ entries[p] # None
    BY <1>3, <2>1 DEF SharedInv, EntryInv
  <2>3. \A z \in Slot : entries'[p][z].id = entries[p][z].id
    BY <1>3, <2>2
  <2>4. PICK j : j = entries[p][r].id
    OBVIOUS
  <2>5. CASE j = None
    BY <1>0, <1>3, <2>2, <2>4, <2>5 DEF EntryOK
  <2>6. CASE j # None
    <3>1. \E c \in DirSlot : direntries'[c].id = j /\ (p \in direntries'[c].vps \/ CopyAt(p, j)')
      BY <1>1, <1>r, <2>2, <2>4, <2>6 DEF EntryOK
    <3>2. \A z \in Slot : entries'[p][z].id = j => z = r
      BY <2>2, <2>3, <2>4, <2>6 DEF EntryOK
    <3>3. entries'[p][r].busy <=> Writer(j)' \/ Flushed(p, r)'
      <4>1. CASE j = i
        <5>0. entries[p][r].id = i
          BY <2>4, <4>1
        <5>1. entries'[p][r].busy = b
          BY <1>3, <2>2, <5>0, Zenon
        <5>2. ~Flushed(p, r)'
          BY <1>r
        <5>3. Writer(j)' <=> b
          BY <1>r, <4>1, Zenon
        <5> QED
          BY <5>1, <5>2, <5>3
      <4>2. CASE j # i
        BY <1>3, <1>r, <2>2, <2>4, <2>6, <4>2 DEF EntryOK
      <4> QED
        BY <4>1, <4>2
    <3>4. entries'[p][r].data = IF Ahead(p, j)' THEN Incr(j, latest'[j]) ELSE latest'[j]
      <4>1. CASE j = i
        BY <2>2, <2>4, <4>1 DEF CopiesUpdated
      <4>2. CASE j # i
        <5>1. j \in Id
          BY <2>2, <2>4, <2>6, Fields DEF DataType
        <5>2. entries'[p][r] = entries[p][r] /\ (Ahead(p, j)' <=> Ahead(p, j))
              /\ latest'[j] = latest[j]
          BY <1>3, <1>r, <2>2, <2>4, <4>2, <5>1
        <5> QED
          BY <1>r, <2>2, <2>4, <2>6, <5>2 DEF EntryOK
      <4> QED
        BY <4>1, <4>2
    <3> QED
      BY <2>3, <2>4, <2>6, <3>1, <3>2, <3>3, <3>4 DEF EntryOK
  <2> QED
    BY <2>5, <2>6
<1>5. DirInv'
  <2>1. SUFFICES ASSUME NEW c \in DirSlot PROVE DirOK(c)'
    BY DEF DirInv
  <2>2. DirOK(c)
    BY DEF SharedInv, DirInv
  <2>3. direntries[c].vps \subseteq VP
    BY DEF DataType, DirEntry
  <2>4. PICK j : j = direntries[c].id
    OBVIOUS
  <2>5. j # None => (direntries'[c].busy <=> Writer(j)')
    <3>1. j # None /\ j = i => c = d
      BY <2>2, <2>4 DEF DirOK
    <3> QED
      BY <1>1, <1>2, <1>r, <2>2, <2>4, <3>1 DEF DirOK
  <2>6. j # None => \A p \in direntries[c].vps :
          /\ entries'[p] # None
          /\ \E s \in Slot : entries'[p][s].id = j
    BY <1>3, <2>2, <2>3, <2>4 DEF DirOK
  <2> QED
    BY <1>1, <1>r, <2>2, <2>4, <2>5, <2>6 DEF DirOK
<1>6. SavedInv'
  <2>1. SUFFICES ASSUME NEW j \in Id, Clean(j)'
                 PROVE  kept'[j] = latest'[j]
    BY DEF SavedInv
  <2>2. Clean(j)
    BY <1>1, <1>3, <2>1 DEF Clean
  <2>3. kept[j] = latest[j]
    BY <2>2 DEF SharedInv, SavedInv
  <2> QED
    BY <2>1, <2>3
<1> QED
  BY <1>4, <1>5, <1>6 DEF SharedInv

\* The copies that t marks or updates become e[p].
NewCopies(t, e, b) ==
  /\ \A p \in Changed(t) : /\ e[p] \in CacheEntry /\ e[p].busy = b
                           /\ e[p].id = entries[p][SlotOf(t, p)].id
                           /\ e[p].dirty = entries[p][SlotOf(t, p)].dirty
  /\ entries' = [p \in VP |-> IF p \notin Changed(t) THEN entries[p]
                              ELSE [entries[p] EXCEPT ![SlotOf(t, p)] = e[p]]]

\* That marks them, and changes nothing else.
LEMMA MarkCopies ==
  ASSUME OneEach, CacheInv, NEW t \in Thread, pc[t] \in {"busy", "update"},
         NEW e, NEW b \in BOOLEAN, NewCopies(t, e, b)
  PROVE  /\ CopiesMarked(req[t].id, b)
         /\ \A p \in VP : entries'[p] = None \/ entries'[p] \in [Slot -> CacheEntry]
         /\ \A p \in VP : entries[p] # None => \A r \in Slot : entries[p][r].id = req[t].id =>
              p \in Changed(t) /\ r = SlotOf(t, p) /\ entries'[p][r] = e[p]
<1>1. DataType
  BY Facts
<1>2. PICK i : i = req[t].id
  OBVIOUS
<1>3. /\ Changed(t) \subseteq VP
      /\ \A p \in Changed(t) : /\ entries[p] # None /\ SlotOf(t, p) \in Slot
                               /\ entries[p][SlotOf(t, p)].id = i
      /\ \A p \in VP : entries[p] # None =>
           \A r \in Slot : entries[p][r].id = i => p \in Changed(t) /\ r = SlotOf(t, p)
  BY <1>2, CopiesFound
<1>n. /\ \A p \in Changed(t) : /\ e[p] \in CacheEntry /\ e[p].busy = b
                               /\ e[p].id = entries[p][SlotOf(t, p)].id
                               /\ e[p].dirty = entries[p][SlotOf(t, p)].dirty
      /\ entries' = [p \in VP |-> IF p \notin Changed(t) THEN entries[p]
                                  ELSE [entries[p] EXCEPT ![SlotOf(t, p)] = e[p]]]
  BY DEF NewCopies
<1>4. \A p \in VP : p \notin Changed(t) => entries'[p] = entries[p]
  BY <1>n
<1>5. \A p \in Changed(t) :
        /\ entries'[p] \in [Slot -> CacheEntry] /\ entries'[p] # None
        /\ entries'[p][SlotOf(t, p)] = e[p]
        /\ \A r \in Slot : r # SlotOf(t, p) => entries'[p][r] = entries[p][r]
  <2> TAKE p \in Changed(t)
  <2>1. entries[p] \in [Slot -> CacheEntry] /\ SlotOf(t, p) \in Slot
    BY <1>1, <1>3 DEF DataType
  <2>2. entries'[p] = [entries[p] EXCEPT ![SlotOf(t, p)] = e[p]] /\ e[p] \in CacheEntry
    BY <1>3, <1>n
  <2> QED
    BY <2>1, <2>2, NoneAssumption
<1>6. \A p \in VP : entries[p] # None => \A r \in Slot :
        /\ entries'[p][r].id = entries[p][r].id
        /\ entries'[p][r].dirty = entries[p][r].dirty
        /\ entries[p][r].id # i => entries'[p][r] = entries[p][r]
        /\ entries[p][r].id = i => p \in Changed(t) /\ r = SlotOf(t, p) /\ entries'[p][r] = e[p]
  <2> SUFFICES ASSUME NEW p \in VP, entries[p] # None, NEW r \in Slot
      PROVE  /\ entries'[p][r].id = entries[p][r].id
             /\ entries'[p][r].dirty = entries[p][r].dirty
             /\ entries[p][r].id # i => entries'[p][r] = entries[p][r]
             /\ entries[p][r].id = i => /\ p \in Changed(t) /\ r = SlotOf(t, p)
                                        /\ entries'[p][r] = e[p]
    OBVIOUS
  <2>1. CASE p \in Changed(t) /\ r = SlotOf(t, p)
    BY <1>3, <1>5, <1>n, <2>1
  <2>2. CASE ~(p \in Changed(t) /\ r = SlotOf(t, p))
    <3>1. entries'[p][r] = entries[p][r]
      BY <1>4, <1>5, <2>2
    <3> QED
      BY <1>3, <2>2, <3>1
  <2> QED
    BY <2>1, <2>2
<1>7. \A p \in VP : entries[p] # None => \A r \in Slot :
        entries[p][r].id = i => entries'[p][r].busy = b
  <2> SUFFICES ASSUME NEW p \in VP, entries[p] # None, NEW r \in Slot, entries[p][r].id = i
               PROVE  entries'[p][r].busy = b
    OBVIOUS
  <2>1. p \in Changed(t) /\ entries'[p][r] = e[p]
    BY <1>6
  <2>2. e[p].busy = b
    BY <1>n, <2>1, Zenon
  <2> QED
    BY <2>1, <2>2, Zenon
<1>8. \A p \in VP : /\ entries'[p] = None \/ entries'[p] \in [Slot -> CacheEntry]
                    /\ entries'[p] = None <=> entries[p] = None
                    /\ entries[p] # None => entries'[p] \in [Slot -> CacheEntry]
  BY <1>1, <1>3, <1>4, <1>5 DEF DataType
<1>9. entries' = [p \in VP |-> entries'[p]]
  BY <1>n
<1>10. CopiesMarked(i, b)
  BY <1>6, <1>7, <1>8, <1>9, Zenon DEF CopiesMarked
<1> QED
  BY <1>2, <1>6, <1>8, <1>10, Zenon

\* A writer marks all copies of its id, which nobody else is writing.
LEMMA SetBusyStep ==
  ASSUME OneEach, CacheInv, NEW t \in Thread, SetBusy(t)
  PROVE  CacheInv'
<1>f. /\ DataType /\ CallType /\ LockInv /\ CallInv /\ CallOK(t) /\ My(t) \in VP
      /\ SharedInv /\ SingleWriter /\ (InDirectory(t) <=> dirlock = t)
  BY Facts
<1>0. pc[t] = "busy"
  BY DEF SetBusy, At
<1>1. PICK p \in VP, s \in Slot, i \in Id, d \in DirSlot :
        /\ p = My(t) /\ s = ep[t] /\ i = req[t].id /\ d = direntry[t] /\ entries[p] # None
        /\ entries[p][s].id = i /\ i # None /\ direntries[d].id = i /\ ~direntries[d].busy
        /\ (~req[t].write => latest[i] \in seen[t])
  BY <1>f, <1>0, ReplicatedArrayAssumption DEF CallOK, Writing, Mine
<1>2. /\ pc' = [pc EXCEPT ![t] = "writing"] /\ Release(t)
      /\ count' = [count EXCEPT ![p] = @ + 1]
      /\ direntries' = [direntries EXCEPT ![d].busy = TRUE]
      /\ UNCHANGED <<kept, latest, req, ep, direntry, val, left, seen>>
  BY <1>1 DEF SetBusy, Goto, callVars
<1>3. dirlock = t
  BY <1>f, <1>0 DEF InDirectory
<1>b. PICK b \in BOOLEAN : b = TRUE
  OBVIOUS
<1>4. PICK e : e = [q \in VP |->
        [(IF q = My(t) THEN Used(q, entries[q][SlotOf(t, q)]) ELSE entries[q][SlotOf(t, q)])
           EXCEPT !.busy = TRUE]]
  OBVIOUS
<1>5. \A q \in Changed(t) : /\ e[q] \in CacheEntry /\ e[q].busy = b
                            /\ e[q].id = entries[q][SlotOf(t, q)].id
                            /\ e[q].dirty = entries[q][SlotOf(t, q)].dirty
                            /\ e[q].data = entries[q][SlotOf(t, q)].data
  <2> TAKE q \in Changed(t)
  <2>1. q \in VP /\ entries[q] # None /\ SlotOf(t, q) \in Slot
    BY <1>0, CopiesFound
  <2>2. PICK c : c = entries[q][SlotOf(t, q)]
    OBVIOUS
  <2>3. c \in CacheEntry /\ count[q] \in Nat
    BY <1>f, <2>1, <2>2 DEF DataType
  <2>4. PICK a : a = IF q = My(t) THEN Used(q, c) ELSE c
    OBVIOUS
  <2>5. a \in CacheEntry /\ a.id = c.id /\ a.dirty = c.dirty /\ a.data = c.data
    BY <2>3, <2>4, UsedEntry
  <2>6. e[q] = [a EXCEPT !.busy = TRUE]
    BY <1>4, <2>1, <2>2, <2>4
  <2> QED
    BY <1>b, <2>2, <2>5, <2>6, WithBusy
<1>6. entries' = [q \in VP |-> IF q \notin Changed(t) THEN entries[q]
                               ELSE [entries[q] EXCEPT ![SlotOf(t, q)] = e[q]]]
  BY <1>4 DEF SetBusy
<1>7. /\ CopiesMarked(i, b)
      /\ \A q \in VP : entries'[q] = None \/ entries'[q] \in [Slot -> CacheEntry]
      /\ \A q \in VP : entries[q] # None => \A r \in Slot : entries[q][r].id = i =>
           q \in Changed(t) /\ r = SlotOf(t, q) /\ entries'[q][r] = e[q]
  <2>1. pc[t] \in {"busy", "update"}
    BY <1>0
  <2>3. /\ CopiesMarked(req[t].id, b)
        /\ \A q \in VP : entries'[q] = None \/ entries'[q] \in [Slot -> CacheEntry]
        /\ \A q \in VP : entries[q] # None => \A r \in Slot : entries[q][r].id = req[t].id =>
             q \in Changed(t) /\ r = SlotOf(t, q) /\ entries'[q][r] = e[q]
    <3>1. NewCopies(t, e, b)
      BY <1>5, <1>6 DEF NewCopies
    <3> QED
      BY <2>1, <3>1, MarkCopies
  <2> QED
    BY <1>1, <2>3
<1>l. /\ dirlock' = (IF dirlock = t THEN None ELSE dirlock)
      /\ dirlock' \in Thread \cup {None} /\ hlock' \in [VP -> Thread \cup {None}]
  BY <1>f, <1>2, Released
<1>p. pc'[t] = "writing"
  BY <1>f, <1>2 DEF CallType
<1>8. Frame(t)
  BY <1>f, <1>2 DEF Frame, CallType
<1>9. DataType'
  <2>1. entries' = [q \in VP |-> entries'[q]]
    BY <1>7 DEF CopiesMarked
  <2>2. count' \in [VP -> Nat] /\ direntries' \in [DirSlot -> DirEntry]
    <3>1. direntries[d] \in DirEntry
      BY <1>f DEF DataType
    <3>2. [direntries[d] EXCEPT !.busy = TRUE] \in DirEntry
      BY <3>1 DEF DirEntry
    <3>3. count[p] + 1 \in Nat
      BY <1>f DEF DataType
    <3> QED
      BY <1>f, <1>2, <3>2, <3>3 DEF DataType
  <2> QED
    BY <1>f, <1>2, <1>7, <2>1, <2>2 DEF DataType
<1>10. CallType'
  BY <1>f, <1>2, <1>l DEF CallType, PC
<1>11. LockInv'
  <2>1. ~InDirectory(t)'
    BY <1>p DEF InDirectory
  <2> QED
    BY <1>f, <1>l, <1>8, <2>1, LockStays
<1>12. ~Writer(i)
  BY <1>f, <1>1 DEF SharedInv, DirInv, DirOK
<1>13. Writer(i)'
  BY <1>1, <1>2, <1>p DEF Writer, Writing
<1>14. \A j : j # i => (Writer(j)' <=> Writer(j))
  <2>1. \A u \in Thread : u # t => (Writing(u)' <=> Writing(u)) /\ req'[u] = req[u]
    BY <1>8 DEF Frame, Writing
  <2>2. ~Writing(t) /\ req'[t].id = i
    BY <1>0, <1>1, <1>2 DEF Writing
  <2> QED
    BY <2>1, <2>2 DEF Writer
<1>15. \A q, j : ~CopyAt(q, j) /\ ~CopyAt(q, j)'
  <2>1. \A u \in Thread : pc[u] = "copy" => u = t
    BY <1>f, <1>3, AloneInDirectory DEF InDirectory
  <2>2. \A u \in Thread : pc[u] # "copy" /\ pc'[u] # "copy"
    BY <1>0, <1>8, <1>p, <2>1 DEF Frame
  <2> QED
    BY <2>2 DEF CopyAt
<1>16. NoFlusher(t) /\ \A q, r : ~Flushed(q, r) /\ ~Flushed(q, r)'
  BY <1>0, <1>8, <1>p, NothingFlushed DEF Flushing
<1>17. \A q, j : Ahead(q, j)' <=> Ahead(q, j)
  <2>1. \A u \in Thread : InAhead(u)' <=> InAhead(u)
    BY <1>0, <1>8, <1>p DEF Frame, InAhead
  <2> QED
    BY <1>2, <2>1 DEF Ahead, InAhead
<1>18. \A q \in VP : entries[q] # None => \A r \in Slot : entries[q][r].id = i =>
         entries'[q][r].data = IF Ahead(q, i)' THEN Incr(i, latest'[i]) ELSE latest'[i]
  <2> SUFFICES ASSUME NEW q \in VP, entries[q] # None, NEW r \in Slot, entries[q][r].id = i
               PROVE  entries'[q][r].data = IF Ahead(q, i)' THEN Incr(i, latest'[i]) ELSE latest'[i]
    OBVIOUS
  <2>1. EntryOK(q, r)
    BY <1>f DEF SharedInv, EntryInv
  <2>2. entries'[q][r].data = entries[q][r].data
    BY <1>5, <1>7
  <2> QED
    BY <1>1, <1>2, <1>15, <1>17, <2>1, <2>2 DEF EntryOK
<1>19. SharedInv'
  <2>1. RolesMarked(i, b)
    <3>1. Writer(i)' <=> b
      BY <1>b, <1>13
    <3> QED
      BY <1>14, <1>15, <1>16, <1>17, <3>1 DEF RolesMarked
  <2>2. CopiesUpdated(i)
    BY <1>18 DEF CopiesUpdated
  <2>3. direntries' = [direntries EXCEPT ![d].busy = b]
    BY <1>b, <1>2
  <2>4. DataType /\ SharedInv /\ direntries[d].id = i /\ UNCHANGED <<kept, latest>>
    BY <1>f, <1>1, <1>2
  <2>5. CopiesMarked(i, b)
    BY <1>7
  <2> QED
    BY <2>1, <2>2, <2>3, <2>4, <2>5, MarkedShared
<1>20. SingleWriter'
  <2>1. \A u \in Thread : u # t => (Writing(u)' <=> Writing(u)) /\ req'[u] = req[u]
    BY <1>8 DEF Frame, Writing
  <2>2. \A u \in Thread : u # t /\ Writing(u) => req[u].id # i
    BY <1>12 DEF Writer
  <2>3. req'[t].id = i
    BY <1>1, <1>2
  <2> QED
    BY <1>f, <2>1, <2>2, <2>3 DEF SingleWriter
<1>21. OtherQueues(t)
  BY <1>7 DEF OtherQueues, CopiesMarked
<1>22. CallOK(t)'
  <2>1. entries'[p] # None /\ entries'[p][s].id = i
    BY <1>1, <1>7 DEF CopiesMarked
  <2> QED
    BY <1>1, <1>2, <1>p, <2>1 DEF CallOK, Writing, Flushing, Mine
<1>23. CallInv'
  <2>1. LatestSeen(t)
    BY <1>2 DEF LatestSeen
  <2>2. \A u \in Thread : u # t => CallOK(u)'
    BY <1>f, <1>2, <1>3, <1>8, <1>16, <1>21, <2>1, OthersKeep
  <2> QED
    BY <1>22, <2>2 DEF CallInv
<1> QED
  BY <1>9, <1>10, <1>11, <1>19, <1>20, <1>23 DEF CacheInv

\* Those who read an id see what it becomes.
LEMMA SeenByReaders ==
  ASSUME CallType, NEW i \in Id, NEW v \in Nat
  PROVE  /\ Seen(i, v) \in [Thread -> SUBSET Nat]
         /\ \A u \in Thread : seen[u] \subseteq Seen(i, v)[u]
         /\ \A u \in Thread : req[u].id = i /\ ~req[u].write => v \in Seen(i, v)[u]
<1>1. \A u \in Thread : seen[u] \subseteq Nat /\ seen[u] \cup {v} \subseteq Nat
  BY DEF CallType
<1>2. Seen(i, v) \in [Thread -> SUBSET Nat]
  BY <1>1 DEF Seen
<1>3. \A u \in Thread : seen[u] \subseteq Seen(i, v)[u]
  BY DEF Seen
<1>4. ASSUME NEW u \in Thread, req[u].id = i, ~req[u].write
      PROVE  v \in Seen(i, v)[u]
  <2>1. req[u] = [id |-> i, write |-> FALSE]
    BY <1>4 DEF CallType
  <2> QED
    BY <2>1 DEF Seen
<1> QED
  BY <1>2, <1>3, <1>4

\* putback gives all copies the writer's data, and the id is no longer written.
LEMMA UpdateAndClearBusyStep ==
  ASSUME OneEach, CacheInv, NEW t \in Thread, UpdateAndClearBusy(t)
  PROVE  CacheInv'
<1>f. /\ DataType /\ CallType /\ LockInv /\ CallInv /\ CallOK(t) /\ My(t) \in VP
      /\ SharedInv /\ SingleWriter /\ (InDirectory(t) <=> dirlock = t)
  BY Facts
<1>0. pc[t] = "update"
  BY DEF UpdateAndClearBusy, At
<1>1. PICK p \in VP, s \in Slot, i \in Id, d \in DirSlot :
        /\ p = My(t) /\ s = ep[t] /\ i = req[t].id /\ d = direntry[t] /\ entries[p] # None
        /\ entries[p][s].id = i /\ i # None /\ direntries[d].id = i
        /\ entries[p][s].dirty
  BY <1>f, <1>0, ReplicatedArrayAssumption DEF CallOK, Writing, Mine
<1>2. /\ EndCall(t) /\ Release(t)
      /\ direntries' = [direntries EXCEPT ![d].busy = FALSE]
      /\ latest' = [latest EXCEPT ![i] = Mine(t).data]
      /\ seen' = Forgotten(t, Seen(i, Mine(t).data))
      /\ UNCHANGED <<kept, count, left>>
  BY <1>1 DEF UpdateAndClearBusy
<1>3. dirlock = t
  BY <1>f, <1>0 DEF InDirectory
<1>c. \A q, j : ~CopyAt(q, j)
  <2>1. \A u \in Thread : pc[u] = "copy" => u = t
    BY <1>f, <1>3, AloneInDirectory DEF InDirectory
  <2> QED
    BY <1>0, <2>1 DEF CopyAt
<1>m. PICK n \in Nat : n = Mine(t).data
  <2>1. entries[p][s] \in CacheEntry
    BY <1>f, <1>1 DEF DataType
  <2> QED
    BY <1>1, <2>1, Fields DEF Mine
<1>w. latest' \in [Id -> Nat] /\ latest'[i] = n
      /\ (\A j \in Id : j # i => latest'[j] = latest[j])
  BY <1>f, <1>2, <1>m DEF DataType
<1>b. PICK b \in BOOLEAN : b = FALSE
  OBVIOUS
<1>4. PICK e : e = [q \in VP |->
        [[entries[q][SlotOf(t, q)] EXCEPT !.busy = FALSE] EXCEPT !.data = n]]
  OBVIOUS
<1>5. \A q \in Changed(t) : /\ e[q] \in CacheEntry /\ e[q].busy = b
                            /\ e[q].id = entries[q][SlotOf(t, q)].id
                            /\ e[q].dirty = entries[q][SlotOf(t, q)].dirty
                            /\ e[q].data = n
  <2> TAKE q \in Changed(t)
  <2>1. q \in VP /\ entries[q] # None /\ SlotOf(t, q) \in Slot
    BY <1>0, CopiesFound
  <2>2. PICK c : c = entries[q][SlotOf(t, q)]
    OBVIOUS
  <2>3. c \in CacheEntry
    BY <1>f, <2>1, <2>2 DEF DataType
  <2>4. PICK a : a = [c EXCEPT !.busy = FALSE]
    OBVIOUS
  <2>5. a \in CacheEntry /\ a.id = c.id /\ a.dirty = c.dirty /\ a.busy = b
    BY <1>b, <2>3, <2>4, WithBusy
  <2>6. e[q] = [a EXCEPT !.data = n]
    BY <1>4, <2>1, <2>2, <2>4
  <2> QED
    BY <2>2, <2>5, <2>6, WithData
<1>6. entries' = [q \in VP |-> IF q \notin Changed(t) THEN entries[q]
                               ELSE [entries[q] EXCEPT ![SlotOf(t, q)] = e[q]]]
  <2>1. entries' = [q \in VP |-> IF q \notin Changed(t) THEN entries[q] ELSE
       [entries[q] EXCEPT ![SlotOf(t, q)].busy = FALSE, ![SlotOf(t, q)].data = n]]
    BY <1>m DEF UpdateAndClearBusy
  <2>2. \A q \in VP : q \in Changed(t) =>
          [entries[q] EXCEPT ![SlotOf(t, q)].busy = FALSE, ![SlotOf(t, q)].data = n]
            = [entries[q] EXCEPT ![SlotOf(t, q)] = e[q]]
    <3> SUFFICES ASSUME NEW q \in VP, q \in Changed(t)
        PROVE [entries[q] EXCEPT ![SlotOf(t, q)].busy = FALSE, ![SlotOf(t, q)].data = n]
                = [entries[q] EXCEPT ![SlotOf(t, q)] = e[q]]
      OBVIOUS
    <3>1. entries[q] \in [Slot -> CacheEntry] /\ SlotOf(t, q) \in Slot
      BY <1>f, <1>0, CopiesFound DEF DataType
    <3>2. PICK z \in Slot : z = SlotOf(t, q)
      BY <3>1
    <3>3. e[q] = [[entries[q][z] EXCEPT !.busy = FALSE] EXCEPT !.data = n]
      BY <1>4, <3>2
    <3>4. [entries[q] EXCEPT ![z].busy = FALSE, ![z].data = n] = [entries[q] EXCEPT ![z] = e[q]]
      BY <3>1, <3>3
    <3> QED
      BY <3>2, <3>4
  <2> QED
    BY <2>1, <2>2
<1>7. /\ CopiesMarked(i, b)
      /\ \A q \in VP : entries'[q] = None \/ entries'[q] \in [Slot -> CacheEntry]
      /\ \A q \in VP : entries[q] # None => \A r \in Slot : entries[q][r].id = i =>
           q \in Changed(t) /\ r = SlotOf(t, q) /\ entries'[q][r] = e[q]
  <2>1. pc[t] \in {"busy", "update"}
    BY <1>0
  <2>2. NewCopies(t, e, b)
    BY <1>5, <1>6 DEF NewCopies
  <2> QED
    BY <1>1, <2>1, <2>2, MarkCopies
<1>l. /\ dirlock' = (IF dirlock = t THEN None ELSE dirlock)
      /\ dirlock' \in Thread \cup {None} /\ hlock' \in [VP -> Thread \cup {None}]
  BY <1>f, <1>2, Released
<1>p. /\ Frame(t) /\ pc'[t] = "idle"
      /\ pc' \in [Thread -> PC]
      /\ req' \in [Thread -> [id : Id \cup {None}, write : BOOLEAN]]
      /\ ep' \in [Thread -> Slot \cup {0}] /\ direntry' \in [Thread -> DirSlot \cup {0}]
      /\ val' \in [Thread -> Nat] /\ seen' \in [Thread -> SUBSET Nat]
      /\ ~InDirectory(t)' /\ CallOK(t)' /\ ~Writing(t)'
  <2>1. seen' = Forgotten(t, Seen(i, n)) /\ EndCall(t)
    BY <1>2, <1>m
  <2>2. /\ Seen(i, n) \in [Thread -> SUBSET Nat]
        /\ \A u \in Thread : seen[u] \subseteq Seen(i, n)[u]
    BY <1>f, SeenByReaders
  <2> QED
    BY <1>f, <2>1, <2>2, Ended
<1>9. DataType'
  <2>1. entries' = [q \in VP |-> entries'[q]]
    BY <1>7 DEF CopiesMarked
  <2>2. direntries' \in [DirSlot -> DirEntry]
    <3>1. direntries[d] \in DirEntry
      BY <1>f DEF DataType
    <3>2. [direntries[d] EXCEPT !.busy = FALSE] \in DirEntry
      BY <3>1 DEF DirEntry
    <3> QED
      BY <1>f, <1>2, <3>2 DEF DataType
  <2> QED
    BY <1>f, <1>2, <1>7, <1>w, <2>1, <2>2 DEF DataType
<1>10. CallType'
  BY <1>f, <1>2, <1>l, <1>p DEF CallType
<1>11. LockInv'
  BY <1>f, <1>l, <1>p, LockStays
<1>u. \A u \in Thread : u # t /\ Writing(u) => req[u].id # i
  <2>1. Writing(t)
    BY <1>0 DEF Writing
  <2> QED
    BY <1>f, <1>1, <2>1 DEF SingleWriter
<1>g. \A u \in Thread : u # t => /\ Writing(u)' <=> Writing(u)
                                 /\ InAhead(u)' <=> InAhead(u)
                                 /\ req'[u] = req[u]
  BY <1>p DEF Frame, Writing, InAhead
<1>13. ~Writer(i)'
  BY <1>g, <1>p, <1>u DEF Writer
<1>14. \A j : j # i => (Writer(j)' <=> Writer(j))
  BY <1>1, <1>g, <1>p DEF Writer
<1>15. \A q, j : ~CopyAt(q, j)'
  <2>1. \A u \in Thread : pc[u] = "copy" => u = t
    BY <1>f, <1>3, AloneInDirectory DEF InDirectory
  <2>2. \A u \in Thread : pc'[u] # "copy"
    BY <1>p, <2>1 DEF Frame
  <2> QED
    BY <2>2 DEF CopyAt
<1>16. NoFlusher(t) /\ \A q, r : ~Flushed(q, r) /\ ~Flushed(q, r)'
  BY <1>0, <1>p, NothingFlushed DEF Flushing
<1>17. /\ \A q : ~Ahead(q, i)'
       /\ \A q, j : j # i => (Ahead(q, j)' <=> Ahead(q, j))
  <2>1. \A u \in Thread : InAhead(u) => Writing(u)
    BY DEF InAhead, Writing
  <2>2. ~InAhead(t)' /\ req[t].id = i
    BY <1>1, <1>p DEF InAhead
  <2>3. \A q : ~Ahead(q, i)'
    BY <1>g, <1>u, <2>1, <2>2 DEF Ahead, InAhead
  <2>4. \A q, j : j # i => (Ahead(q, j)' <=> Ahead(q, j))
    BY <1>g, <2>2 DEF Ahead, InAhead
  <2> QED
    BY <2>3, <2>4
<1>18. CopiesUpdated(i)
  <2> SUFFICES ASSUME NEW q \in VP, entries[q] # None, NEW r \in Slot, entries[q][r].id = i
               PROVE  entries'[q][r].data = IF Ahead(q, i)' THEN Incr(i, latest'[i]) ELSE latest'[i]
    BY DEF CopiesUpdated
  <2>1. entries'[q][r].data = n
    BY <1>5, <1>7
  <2> QED
    BY <1>m, <1>w, <1>17, <2>1
<1>19. SharedInv'
  <2>1. RolesMarked(i, b)
    <3>1. Writer(i)' <=> b
      BY <1>b, <1>13
    <3> QED
      BY <1>14, <1>15, <1>c, <1>16, <1>17, <3>1 DEF RolesMarked
  <2>2. ~Clean(i)'
    <3>1. entries'[p] # None /\ entries'[p][s].id = i /\ entries'[p][s].dirty
      BY <1>1, <1>7 DEF CopiesMarked
    <3> QED
      BY <3>1 DEF Clean
  <2>3. direntries' = [direntries EXCEPT ![d].busy = b]
    BY <1>b, <1>2
  <2>4. DataType /\ SharedInv /\ direntries[d].id = i /\ UNCHANGED kept
    BY <1>f, <1>1, <1>2
  <2>5. CopiesMarked(i, b) /\ \A j \in Id : j # i => latest'[j] = latest[j]
    BY <1>7, <1>w
  <2> QED
    BY <1>18, <2>1, <2>2, <2>3, <2>4, <2>5, MarkedShared
<1>20. SingleWriter'
  <2>1. Writing(t)' => Writing(t) /\ req'[t] = req[t]
    BY <1>p
  <2> QED
    BY <1>f, <1>p, <2>1, WriterStays
<1>21. OtherQueues(t)
  BY <1>7 DEF OtherQueues, CopiesMarked
<1>23. CallInv'
  <2>1. LatestSeen(t)
    <3> SUFFICES ASSUME NEW u \in Thread, u # t, req[u].id \in Id, ~req[u].write,
                        latest'[req[u].id] # latest[req[u].id]
                 PROVE  latest'[req[u].id] \in seen'[u]
      BY DEF LatestSeen
    <3>1. req[u].id = i /\ latest'[req[u].id] = n
      BY <1>w
    <3>2. n \in Seen(i, n)[u]
      BY <1>f, <3>1, SeenByReaders
    <3>3. seen'[u] = Seen(i, n)[u]
      <4>1. seen' = Forgotten(t, Seen(i, n)) /\ Seen(i, n) \in [Thread -> SUBSET Nat]
        BY <1>f, <1>2, <1>m, SeenByReaders
      <4> QED
        BY <4>1 DEF Forgotten
    <3> QED
      BY <3>1, <3>2, <3>3
  <2>2. \A u \in Thread : u # t /\ Writing(u) => latest'[req[u].id] = latest[req[u].id]
    <3> SUFFICES ASSUME NEW u \in Thread, u # t, Writing(u)
                 PROVE  latest'[req[u].id] = latest[req[u].id]
      OBVIOUS
    <3>1. req[u].id \in Id
      BY <1>f DEF CallInv, CallOK, Writing
    <3> QED
      BY <1>u, <1>w, <3>1
  <2>3. \A u \in Thread : u # t => CallOK(u)'
    BY <1>f, <1>3, <1>p, <1>16, <1>21, <1>w, <2>1, <2>2, OthersKeep
  <2> QED
    BY <1>p, <2>3 DEF CallInv
<1> QED
  BY <1>9, <1>10, <1>11, <1>19, <1>20, <1>23 DEF CacheInv

-----------------------------------------------------------------------------
(* Steps that change the directory line.                                   *)

\* What getremotecopyfromdir finds: another processor, with an up-to-date copy.
LEMMA RemoteFacts ==
  ASSUME OneEach, CacheInv, NEW t \in Thread, pc[t] = "copy"
  PROVE  LET r == Search(Remote(t), direntries[direntry[t]].id) IN
         /\ Remote(t) \in VP /\ Remote(t) # My(t) /\ Remote(t) \in Copies(t)
         /\ entries[Remote(t)] # None /\ r \in Slot /\ r # 0
         /\ entries[Remote(t)][r].id = req[t].id
         /\ entries[Remote(t)][r].data = latest[req[t].id]
         /\ \A q : ~Ahead(q, req[t].id)
<1>f. /\ DataType /\ CallOK(t) /\ My(t) \in VP /\ SharedInv
  BY Facts
<1>1. PICK i \in Id, d \in DirSlot :
        /\ i = req[t].id /\ d = direntry[t] /\ i # None
        /\ direntries[d].id = i /\ ~direntries[d].busy
  BY <1>f, ReplicatedArrayAssumption DEF CallOK
<1>2. DirOK(d)
  BY <1>f DEF SharedInv, DirInv
<1>3. PICK V : V = direntries[d].vps /\ V \subseteq VP /\ V # {}
  BY <1>f, <1>1, <1>2 DEF DataType, DirEntry, DirOK
<1>4. PICK m : m = Remote(t)
  OBVIOUS
<1>5. m \in V
  <2>1. V \subseteq Nat
    BY <1>3 DEF VP
  <2>2. m = Min(V)
    BY <1>1, <1>3, <1>4 DEF Remote
  <2> QED
    BY <1>3, <2>1, <2>2, LeastNat
<1>6. entries[m] # None /\ ~CopyAt(m, i) /\ \E s \in Slot : entries[m][s].id = i
  BY <1>1, <1>2, <1>3, <1>5 DEF DirOK
<1>7. m # My(t)
  <2>1. CopyAt(My(t), i)
    BY <1>1 DEF CopyAt
  <2> QED
    BY <1>6, <2>1
<1>8. PICK r : r = Search(m, i)
  OBVIOUS
<1>9. r \in Slot /\ r # 0 /\ entries[m][r].id = i
  BY <1>6, <1>8, SearchFinds
<1>10. \A q : ~Ahead(q, i)
  <2>1. ~Writer(i)
    BY <1>1, <1>2 DEF DirOK
  <2> QED
    BY <2>1 DEF Writer, Ahead, Writing
<1>11. entries[m][r].data = latest[i]
  <2>1. EntryOK(m, r)
    BY <1>f, <1>3, <1>5, <1>6, <1>9 DEF SharedInv, EntryInv
  <2> QED
    BY <1>1, <1>6, <1>9, <1>10, <2>1 DEF EntryOK
<1>12. Copies(t) = V
  BY <1>1, <1>3 DEF Copies
<1> QED
  BY <1>1, <1>3, <1>4, <1>5, <1>6, <1>7, <1>8, <1>9, <1>10, <1>11, <1>12

\* A processor gets its copy.
LEMMA CopyRemoteStep ==
  ASSUME OneEach, CacheInv, NEW t \in Thread, CopyRemote(t)
  PROVE  CacheInv'
<1>f. /\ DataType /\ CallType /\ LockInv /\ CallInv /\ CallOK(t) /\ My(t) \in VP
      /\ SharedInv /\ (InDirectory(t) <=> dirlock = t)
  BY Facts
<1>0. pc[t] = "copy"
  BY DEF CopyRemote, At
<1>1. PICK p \in VP, s \in Slot, i \in Id, d \in DirSlot :
        /\ p = My(t) /\ s = ep[t] /\ i = req[t].id /\ d = direntry[t] /\ entries[p] # None
        /\ entries[p][s].id = i /\ i # None /\ direntries[d].id = i /\ ~direntries[d].busy
        /\ (~req[t].write => latest[i] \in seen[t])
  BY <1>f, <1>0, ReplicatedArrayAssumption DEF CallOK, Writing, Mine
<1>2. PICK n : n = entries[Remote(t)][Search(Remote(t), direntries[direntry[t]].id)].data
  OBVIOUS
<1>3. n = latest[i] /\ n \in Nat /\ \A q : ~Ahead(q, i)
  BY <1>f, <1>0, <1>1, <1>2, RemoteFacts DEF DataType
<1>4. /\ direntries' = [direntries EXCEPT ![d].vps = @ \cup {p}]
      /\ entries' = [entries EXCEPT ![p][s] = Used(p, [entries[p][s] EXCEPT !.data = n])]
      /\ UNCHANGED <<kept, latest, req, ep, direntry, val, left, seen>>
  BY <1>1, <1>2 DEF CopyRemote, AddVP, callVars
<1>5. PICK k \in {"busy", "reading"} :
        /\ pc' = [pc EXCEPT ![t] = k]
        /\ \/ k = "busy" /\ UNCHANGED <<dirlock, hlock, count>>
           \/ /\ k = "reading" /\ ~req[t].write
              /\ count' = [count EXCEPT ![p] = @ + 1] /\ Release(t)
  BY <1>1 DEF CopyRemote, Goto, lockVars
<1>6. dirlock = t
  BY <1>f, <1>0 DEF InDirectory
<1>7. entries[p] \in [Slot -> CacheEntry] /\ entries[p][s] \in CacheEntry /\ count[p] \in Nat
  BY <1>f, <1>1 DEF DataType
<1>8. PICK c : c = [entries[p][s] EXCEPT !.data = n]
  OBVIOUS
<1>9. PICK e : e = Used(p, c)
  OBVIOUS
<1>10. /\ c \in CacheEntry /\ c.id = i /\ c.busy = entries[p][s].busy
       /\ c.dirty = entries[p][s].dirty /\ c.data = n
  BY <1>1, <1>3, <1>7, <1>8, WithData
<1>11. /\ e \in CacheEntry /\ e.id = i /\ e.busy = entries[p][s].busy
       /\ e.dirty = entries[p][s].dirty /\ e.data = n
  BY <1>7, <1>9, <1>10, UsedEntry
<1>12. Puts(p, s, e)
  <2>1. entries' = [entries EXCEPT ![p][s] = e]
    BY <1>4, <1>8, <1>9
  <2> QED
    BY <1>f, <1>1, <1>11, <2>1, PutsEntry
<1>13. /\ \A q \in VP : entries'[q] = None <=> entries[q] = None
       /\ \A q \in VP : entries[q] # None => \A r \in Slot :
            /\ entries'[q][r].id = entries[q][r].id
            /\ entries'[q][r].busy = entries[q][r].busy
            /\ entries'[q][r].dirty = entries[q][r].dirty
            /\ q # p \/ r # s => entries'[q][r] = entries[q][r]
       /\ entries'[p][s] = e
  BY <1>1, <1>11, <1>12 DEF Puts
<1>14. \A z \in DirSlot : /\ direntries'[z].id = direntries[z].id
                          /\ direntries'[z].busy = direntries[z].busy
                          /\ direntries'[z].modified = direntries[z].modified
                          /\ z # d => direntries'[z].vps = direntries[z].vps
  BY <1>f, <1>4 DEF DataType, DirEntry
<1>15. direntries'[d].vps = direntries[d].vps \cup {p}
  BY <1>f, <1>4 DEF DataType, DirEntry
<1>p. pc'[t] = k
  BY <1>f, <1>5 DEF CallType
<1>16. Frame(t)
  BY <1>f, <1>4, <1>5 DEF Frame, CallType
<1>17. DataType'
  <2>1. direntries' \in [DirSlot -> DirEntry]
    <3>1. direntries[d] \in DirEntry
      BY <1>f DEF DataType
    <3>2. [direntries[d] EXCEPT !.vps = direntries[d].vps \cup {p}] \in DirEntry
      BY <3>1 DEF DirEntry
    <3> QED
      BY <1>f, <1>4, <3>2 DEF DataType
  <2>2. count' \in [VP -> Nat]
    <3>1. count[p] + 1 \in Nat
      BY <1>7
    <3> QED
      BY <1>f, <1>5, <3>1 DEF DataType
  <2> QED
    BY <1>f, <1>4, <1>12, <2>1, <2>2, PutsType DEF DataType
<1>18. CallType'
  <2>1. dirlock' \in Thread \cup {None} /\ hlock' \in [VP -> Thread \cup {None}]
    <3>1. CASE k = "busy"
      BY <1>f, <1>5, <3>1 DEF CallType
    <3>2. CASE k = "reading"
      BY <1>f, <1>5, <3>2, Released
    <3> QED
      BY <3>1, <3>2
  <2> QED
    BY <1>f, <1>4, <1>5, <2>1 DEF CallType, PC
<1>19. LockInv'
  <2>1. CASE k = "busy"
    <3>1. InDirectory(t)' /\ InDirectory(t)
      BY <1>0, <1>p, <2>1 DEF InDirectory
    <3> QED
      BY <1>f, <1>5, <1>16, <2>1, <3>1, LockStays
  <2>2. CASE k = "reading"
    <3>1. ~InDirectory(t)'
      BY <1>p, <2>2 DEF InDirectory
    <3>2. dirlock' = (IF dirlock = t THEN None ELSE dirlock)
      BY <1>f, <1>5, <2>2, Released
    <3> QED
      BY <1>f, <1>16, <3>1, <3>2, LockStays
  <2> QED
    BY <2>1, <2>2
<1>20. CallOK(t)'
  <2>1. entries'[p] # None /\ entries'[p][s].id = i
    BY <1>1, <1>13
  <2> QED
    BY <1>1, <1>4, <1>5, <1>14, <1>p, <2>1 DEF CallOK, Writing, Flushing, Mine
<1>21. \A j : Writer(j)' <=> Writer(j)
  BY <1>0, <1>16, <1>p, WriterSame DEF Writing
<1>22. \A q, j : Ahead(q, j)' <=> Ahead(q, j)
  <2>1. \A u \in Thread : InAhead(u)' <=> InAhead(u)
    BY <1>0, <1>16, <1>p DEF Frame, InAhead
  <2> QED
    BY <1>4, <2>1 DEF Ahead, InAhead
<1>23. /\ \A q, j : ~CopyAt(q, j)'
       /\ \A q, j : CopyAt(q, j) => q = p /\ j = i
  <2>1. \A u \in Thread : pc[u] = "copy" => u = t
    BY <1>f, <1>6, AloneInDirectory DEF InDirectory
  <2>2. \A u \in Thread : pc'[u] # "copy"
    BY <1>16, <1>p, <2>1 DEF Frame
  <2> QED
    BY <1>1, <2>1, <2>2 DEF CopyAt
<1>24. \A q, r : ~Flushed(q, r) /\ ~Flushed(q, r)'
  BY <1>0, <1>16, <1>p, NothingFlushed DEF Flushing
<1>25. EntryInv'
  <2>1. SUFFICES ASSUME NEW q \in VP, entries'[q] # None, NEW r \in Slot
                 PROVE  EntryOK(q, r)'
    BY DEF EntryInv
  <2>2. EntryOK(q, r) /\ entries[q] # None
    BY <1>f, <1>13, <2>1 DEF SharedInv, EntryInv
  <2>3. PICK j : j = entries[q][r].id
    OBVIOUS
  <2>4. /\ entries'[q][r].id = j /\ entries'[q][r].busy = entries[q][r].busy
        /\ \A z \in Slot : entries'[q][z].id = entries[q][z].id
    BY <1>13, <2>2, <2>3
  <2>5. CASE j = None
    BY <2>2, <2>3, <2>4, <2>5 DEF EntryOK
  <2>6. CASE j # None
    <3>1. entries'[q][r].busy <=> Writer(j)' \/ Flushed(q, r)'
      BY <1>21, <1>24, <2>2, <2>3, <2>4, <2>6 DEF EntryOK
    <3>2. \A z \in Slot : entries'[q][z].id = j => z = r
      BY <2>2, <2>3, <2>4, <2>6 DEF EntryOK
    <3>3. entries'[q][r].data = IF Ahead(q, j)' THEN Incr(j, latest'[j]) ELSE latest'[j]
      <4>1. CASE q = p /\ r = s
        BY <1>1, <1>3, <1>4, <1>11, <1>13, <1>22, <2>3, <4>1
      <4>2. CASE q # p \/ r # s
        <5>1. ~CopyAt(q, j)
          BY <1>1, <1>23, <2>2, <2>3, <2>6, <4>2 DEF EntryOK
        <5>2. entries'[q][r] = entries[q][r]
          BY <1>13, <2>2, <4>2
        <5> QED
          BY <1>4, <1>22, <2>2, <2>3, <2>6, <5>1, <5>2 DEF EntryOK
      <4> QED
        BY <4>1, <4>2
    <3>4. \E z \in DirSlot : direntries'[z].id = j /\ (q \in direntries'[z].vps \/ CopyAt(q, j)')
      <4>1. PICK z \in DirSlot : direntries[z].id = j /\ (q \in direntries[z].vps \/ CopyAt(q, j))
        BY <2>2, <2>3, <2>6 DEF EntryOK
      <4>2. CASE q \in direntries[z].vps
        <5>1. q \in direntries'[z].vps
          BY <1>14, <1>15, <4>2
        <5> QED
          BY <1>14, <4>1, <5>1
      <4>3. CASE CopyAt(q, j)
        <5>1. q = p /\ j = i
          BY <1>23, <4>3
        <5> QED
          BY <1>1, <1>14, <1>15, <5>1
      <4> QED
        BY <4>1, <4>2, <4>3
    <3> QED
      BY <2>4, <2>6, <3>1, <3>2, <3>3, <3>4 DEF EntryOK
  <2> QED
    BY <2>5, <2>6
<1>26. DirInv'
  <2>1. SUFFICES ASSUME NEW z \in DirSlot PROVE DirOK(z)'
    BY DEF DirInv
  <2>2. DirOK(z) /\ direntries[z].vps \subseteq VP
    BY <1>f DEF SharedInv, DirInv, DataType, DirEntry
  <2>3. PICK j : j = direntries[z].id
    OBVIOUS
  <2>4. direntries'[z].vps # {}
        \/ j = None
    BY <1>14, <1>15, <2>2, <2>3 DEF DirOK
  <2>5. j # None => \A q \in direntries'[z].vps :
          entries'[q] # None /\ \E r \in Slot : entries'[q][r].id = j
    <3> SUFFICES ASSUME j # None, NEW q \in direntries'[z].vps
                 PROVE  entries'[q] # None /\ \E r \in Slot : entries'[q][r].id = j
      OBVIOUS
    <3>1. CASE q \in direntries[z].vps
      BY <1>13, <2>2, <2>3, <3>1 DEF DirOK
    <3>2. CASE q \notin direntries[z].vps
      <4>1. z = d /\ q = p
        BY <1>14, <1>15, <3>2
      <4> QED
        BY <1>1, <1>13, <2>3, <4>1
    <3> QED
      BY <3>1, <3>2
  <2> QED
    BY <1>14, <1>21, <1>23, <2>2, <2>3, <2>4, <2>5 DEF DirOK
<1>27. SavedInv'
  <2>1. \A j \in Id : Clean(j)' => Clean(j)
    BY <1>13, <1>14 DEF Clean
  <2> QED
    BY <1>f, <1>4, <2>1 DEF SharedInv, SavedInv
<1>28. OtherQueues(t)
  BY <1>f, <1>1, <1>12, PutsOthers
<1>29. Writing(t)' => Writing(t) /\ req'[t] = req[t]
  BY <1>p DEF Writing
<1>30. pc[t] # "idle" /\ UNCHANGED latest /\ SharedInv'
  BY <1>0, <1>4, <1>25, <1>26, <1>27 DEF SharedInv
<1> QED
  BY <1>6, <1>16, <1>17, <1>18, <1>19, <1>20, <1>28, <1>29, <1>30, OwnStep

-----------------------------------------------------------------------------
(* Replacing an entry.                                                     *)

\* No copy of j, but for the entry at v of queue p, and no directory entry says dirty.
CleanBut(p, v, D, j) ==
  /\ \A q \in VP : entries[q] # None => \A r \in Slot :
       (q # p \/ r # v) /\ entries[q][r].id = j => ~entries[q][r].dirty
  /\ \A c \in DirSlot : D[c].id = j => ~D[c].modified

\* The directory line D and the saves St are right when the entry at v of queue p is
\* left out: D's entries are those of the line, without p for the id of that entry, and
\* without the entry if p was its only holder, whose data save is then given.
Without(p, v, D, St) ==
  /\ D \in [DirSlot -> DirEntry] /\ St \in [Id -> Nat]
  /\ \A c \in DirSlot : direntries[c].id # entries[p][v].id => D[c] = direntries[c]
  /\ \A c \in DirSlot : D[c].id # None =>
       /\ D[c].id = direntries[c].id /\ D[c].busy = direntries[c].busy
       /\ D[c].vps # {} /\ D[c].vps \subseteq direntries[c].vps
       /\ \A q \in D[c].vps : \E r \in Slot : (q # p \/ r # v) /\ entries[q][r].id = D[c].id
  /\ \A q \in VP : entries[q] # None => \A r \in Slot :
       (q # p \/ r # v) /\ entries[q][r].id # None =>
         \E c \in DirSlot : D[c].id = entries[q][r].id /\ q \in D[c].vps
  /\ \A j \in Id : CleanBut(p, v, D, j) => St[j] = latest[j]

\* What is shared, when no copy is under way.
LEMMA SettledFacts ==
  ASSUME DataType, SharedInv, \A q, j : ~CopyAt(q, j)
  PROVE  /\ \A q \in VP : entries[q] # None => \A r \in Slot : entries[q][r].id # None =>
              /\ \E c \in DirSlot : direntries[c].id = entries[q][r].id /\ q \in direntries[c].vps
              /\ \A z \in Slot : entries[q][z].id = entries[q][r].id => z = r
         /\ \A c \in DirSlot : direntries[c].id # None =>
              /\ direntries[c].vps # {} /\ direntries[c].vps \subseteq VP
              /\ \A q \in direntries[c].vps :
                   entries[q] # None /\ \E r \in Slot : entries[q][r].id = direntries[c].id
              /\ \A z \in DirSlot : direntries[z].id = direntries[c].id => z = c
<1>1. \A q \in VP : entries[q] # None => \A r \in Slot : EntryOK(q, r)
  BY DEF SharedInv, EntryInv
<1>2. \A c \in DirSlot : DirOK(c) /\ direntries[c].vps \subseteq VP
  BY DEF SharedInv, DirInv, DataType, DirEntry
<1> QED
  BY <1>1, <1>2 DEF EntryOK, DirOK

\* An entry that was not in use leaves no trace.
LEMMA WithoutUnused ==
  ASSUME DataType, SharedInv, \A q, j : ~CopyAt(q, j), NEW p \in VP, NEW v \in Slot,
         entries[p][v].id = None
  PROVE  Without(p, v, direntries, kept)
<1>1. /\ \A q \in VP : entries[q] # None => \A r \in Slot : entries[q][r].id # None =>
           \E c \in DirSlot : direntries[c].id = entries[q][r].id /\ q \in direntries[c].vps
      /\ \A c \in DirSlot : direntries[c].id # None =>
           /\ direntries[c].vps # {}
           /\ \A q \in direntries[c].vps : \E r \in Slot : entries[q][r].id = direntries[c].id
  BY SettledFacts
<1>2. \A j \in Id : CleanBut(p, v, direntries, j) => Clean(j)
  BY ReplicatedArrayAssumption DEF CleanBut, Clean
<1>3. \A j \in Id : CleanBut(p, v, direntries, j) => kept[j] = latest[j]
  BY <1>2 DEF SharedInv, SavedInv
<1>4. \A c \in DirSlot : direntries[c].id # None => \A q \in direntries[c].vps :
        \E r \in Slot : (q # p \/ r # v) /\ entries[q][r].id = direntries[c].id
  BY <1>1
<1>5. direntries \in [DirSlot -> DirEntry] /\ kept \in [Id -> Nat]
  BY DEF DataType
<1> QED
  BY <1>1, <1>3, <1>4, <1>5 DEF Without

\* An entry that was in use leaves the directory; if it was the last copy and it or one
\* before it was dirty it is saved.
LEMMA WithoutUsed ==
  ASSUME DataType, SharedInv, \A q, j : ~CopyAt(q, j), NEW p \in VP, NEW v \in Slot,
         entries[p] # None, NEW o, o = entries[p][v], o.id # None, o.data = latest[o.id],
         NEW x \in DirSlot, direntries[x].id = o.id,
         NEW D, D = RemoveFromDir(x, p, o.dirty),
         NEW St, St = IF MustSave(x, p, o.dirty) THEN [kept EXCEPT ![o.id] = o.data] ELSE kept
  PROVE  Without(p, v, D, St)
<1>1. /\ \A q \in VP : entries[q] # None => \A r \in Slot : entries[q][r].id # None =>
           /\ \E c \in DirSlot : direntries[c].id = entries[q][r].id /\ q \in direntries[c].vps
           /\ \A z \in Slot : entries[q][z].id = entries[q][r].id => z = r
      /\ \A c \in DirSlot : direntries[c].id # None =>
           /\ direntries[c].vps # {} /\ direntries[c].vps \subseteq VP
           /\ \A q \in direntries[c].vps :
                entries[q] # None /\ \E r \in Slot : entries[q][r].id = direntries[c].id
           /\ \A z \in DirSlot : direntries[z].id = direntries[c].id => z = c
  BY SettledFacts
<1>2. o \in CacheEntry /\ o.id \in Id /\ o.dirty \in BOOLEAN
  <2>1. o \in CacheEntry
    BY DEF DataType
  <2> QED
    BY <2>1, Fields
<1>3. PICK X \in DirEntry : X = direntries[x]
  BY DEF DataType
<1>4. PICK last \in BOOLEAN : last <=> X.vps \subseteq {p}
  OBVIOUS
<1>5. D \in [DirSlot -> DirEntry] /\ \A c \in DirSlot : c # x => D[c] = direntries[c]
  <2>1. NoDirEntry \in DirEntry
    BY DEF NoDirEntry, DirEntry
  <2>2. [X EXCEPT !.vps = X.vps \ {p}, !.modified = X.modified \/ o.dirty] \in DirEntry
    BY <1>2, <1>3 DEF DirEntry
  <2> QED
    BY <1>3, <2>1, <2>2 DEF RemoveFromDir, DataType
<1>6. last => D[x].id = None /\ ~D[x].modified
  BY <1>3, <1>4 DEF RemoveFromDir, NoDirEntry, DataType
<1>7. ~last => /\ D[x].id = o.id /\ D[x].busy = X.busy /\ D[x].vps = X.vps \ {p}
               /\ (D[x].modified <=> X.modified \/ o.dirty)
  <2> HAVE ~last
  <2>1. D[x] = [X EXCEPT !.vps = X.vps \ {p}, !.modified = X.modified \/ o.dirty]
    BY <1>3, <1>4 DEF RemoveFromDir, DataType
  <2> QED
    BY <1>3, <2>1 DEF DirEntry
<1>8. \A q \in VP : entries[q] # None => \A r \in Slot :
        (q # p \/ r # v) /\ entries[q][r].id = o.id => q \in X.vps /\ q # p
  BY <1>1, <1>3
<1>9. \A q \in VP : entries[q] # None => \A r \in Slot :
        (q # p \/ r # v) /\ entries[q][r].id # None =>
          \E c \in DirSlot : D[c].id = entries[q][r].id /\ q \in D[c].vps
  <2> SUFFICES ASSUME NEW q \in VP, entries[q] # None, NEW r \in Slot,
                      q # p \/ r # v, entries[q][r].id # None
               PROVE  \E c \in DirSlot : D[c].id = entries[q][r].id /\ q \in D[c].vps
    OBVIOUS
  <2>1. PICK c \in DirSlot : direntries[c].id = entries[q][r].id /\ q \in direntries[c].vps
    BY <1>1
  <2>2. CASE c # x
    BY <1>5, <2>1, <2>2
  <2>3. CASE c = x
    <3>1. q \in X.vps /\ q # p /\ entries[q][r].id = o.id
      BY <1>8, <2>1, <2>3
    <3>2. ~last
      BY <1>4, <3>1
    <3> QED
      BY <1>7, <3>1, <3>2
  <2> QED
    BY <2>2, <2>3
<1>10. \A c \in DirSlot : D[c].id # None =>
       /\ D[c].id = direntries[c].id /\ D[c].busy = direntries[c].busy
       /\ D[c].vps # {} /\ D[c].vps \subseteq direntries[c].vps
       /\ \A q \in D[c].vps : \E r \in Slot : (q # p \/ r # v) /\ entries[q][r].id = D[c].id
  <2> SUFFICES ASSUME NEW c \in DirSlot, D[c].id # None
      PROVE  /\ D[c].id = direntries[c].id /\ D[c].busy = direntries[c].busy
             /\ D[c].vps # {} /\ D[c].vps \subseteq direntries[c].vps
             /\ \A q \in D[c].vps :
                  \E r \in Slot : (q # p \/ r # v) /\ entries[q][r].id = D[c].id
    OBVIOUS
  <2>1. CASE c # x
    <3>1. D[c] = direntries[c] /\ direntries[c].id # o.id
      BY <1>1, <1>5, <2>1
    <3> QED
      BY <1>1, <3>1
  <2>2. CASE c = x
    <3>1. ~last
      BY <1>6, <2>2
    <3>2. X.vps \ {p} # {}
      BY <1>4, <3>1
    <3>3. \A q \in X.vps : \E r \in Slot : entries[q][r].id = o.id
      BY <1>1, <1>3
    <3> QED
      BY <1>3, <1>7, <2>2, <3>1, <3>2, <3>3
  <2> QED
    BY <2>1, <2>2
<1>11. St \in [Id -> Nat]
  <2>1. o.data \in Nat
    BY <1>2, Fields
  <2> QED
    BY <2>1 DEF DataType
<1>12. \A j \in Id : CleanBut(p, v, D, j) => St[j] = latest[j]
  <2> SUFFICES ASSUME NEW j \in Id, CleanBut(p, v, D, j) PROVE St[j] = latest[j]
    OBVIOUS
  <2>1. CASE j # o.id
    <3>1. \A c \in DirSlot : direntries[c].id = j => D[c] = direntries[c]
      BY <1>5, <2>1
    <3>2. Clean(j)
      BY <2>1, <3>1 DEF CleanBut, Clean
    <3>3. St[j] = kept[j]
      BY <2>1 DEF DataType
    <3> QED
      BY <3>2, <3>3 DEF SharedInv, SavedInv
  <2>2. CASE j = o.id /\ MustSave(x, p, o.dirty)
    BY <2>2 DEF DataType
  <2>3. CASE j = o.id /\ ~MustSave(x, p, o.dirty)
    <3>1. ~o.dirty /\ ~X.modified
      <4>1. CASE last
        BY <1>3, <1>4, <2>3, <4>1 DEF MustSave
      <4>2. CASE ~last
        BY <1>7, <2>3, <4>2 DEF CleanBut
      <4> QED
        BY <4>1, <4>2
    <3>2. \A c \in DirSlot : direntries[c].id = j => c = x
      BY <1>1, <2>3
    <3>3. Clean(j)
      BY <1>3, <2>3, <3>1, <3>2 DEF CleanBut, Clean
    <3> QED
      BY <2>3, <3>3 DEF SharedInv, SavedInv
  <2> QED
    BY <2>1, <2>2, <2>3
<1>13. \A c \in DirSlot : direntries[c].id # o.id => D[c] = direntries[c]
  BY <1>5
<1> QED
  BY <1>5, <1>9, <1>10, <1>11, <1>12, <1>13 DEF Without

\* Who is in the directory and does not copy, has nobody copying.
LEMMA NobodyCopies ==
  ASSUME CacheInv, NEW t \in Thread, dirlock = t, pc[t] # "copy"
  PROVE  \A q, j : ~CopyAt(q, j)
<1>1. \A u \in Thread : pc[u] = "copy" => u = t
  BY Facts, AloneInDirectory DEF InDirectory
<1> QED
  BY <1>1 DEF CopyAt

\* The entry that a miss replaces, and what the directory and the saves become.
LEMMA VictimGone ==
  ASSUME OneEach, CacheInv, NEW t \in Thread, CanReplace(t)
  PROVE  /\ LruEntry(My(t)) \in Slot /\ Evicted(t) \in CacheEntry /\ ~Evicted(t).busy
         /\ Evicted(t).id # None => VictimDir(t) # 0
         /\ Without(My(t), LruEntry(My(t)), DirWithout(t), Saved(t))
<1>f. DataType /\ SharedInv /\ My(t) \in VP
  BY Facts
<1>1. PICK p \in VP : p = My(t)
  BY <1>f
<1>2. entries[p] # None /\ dirlock = t /\ pc[t] # "copy" /\ NotBusy(p) # {}
  BY <1>1, MissFacts DEF CanReplace
<1>3. entries[p] \in [Slot -> CacheEntry]
  BY <1>f, <1>2 DEF DataType
<1>4. PICK v \in Slot : v = LruEntry(p) /\ ~entries[p][v].busy
  BY <1>2, <1>3, LruFinds
<1>5. PICK o \in CacheEntry : o = entries[p][v] /\ o = Evicted(t) /\ ~o.busy
  BY <1>1, <1>3, <1>4 DEF Evicted
<1>6. \A q, j : ~CopyAt(q, j)
  BY <1>2, NobodyCopies
<1>7. CASE o.id = None
  <2>1. DirWithout(t) = direntries /\ Saved(t) = kept
    BY <1>5, <1>7 DEF DirWithout, Saved
  <2>2. Without(p, v, direntries, kept)
    BY <1>f, <1>5, <1>6, <1>7, WithoutUnused
  <2> QED
    BY <1>1, <1>4, <1>5, <1>7, <2>1, <2>2
<1>8. CASE o.id # None
  <2>1. PICK x : x = VictimDir(t)
    OBVIOUS
  <2>2. EntryOK(p, v)
    BY <1>f, <1>2 DEF SharedInv, EntryInv
  <2>3. x # 0 /\ x \in DirSlot /\ direntries[x].id = o.id
    BY <1>5, <1>8, <2>1, <2>2, LookupFinds DEF VictimDir, EntryOK
  <2>4. o.data = latest[o.id]
    <3>1. ~Writer(o.id)
      BY <1>5, <1>8, <2>2 DEF EntryOK
    <3>2. ~Ahead(p, o.id)
      BY <3>1 DEF Ahead, Writer, Writing
    <3> QED
      BY <1>5, <1>6, <1>8, <2>2, <3>2 DEF EntryOK
  <2>5. DirWithout(t) = RemoveFromDir(x, p, o.dirty)
    BY <1>1, <1>5, <1>8, <2>1 DEF DirWithout
  <2>6. Saved(t) = IF MustSave(x, p, o.dirty) THEN [kept EXCEPT ![o.id] = o.data] ELSE kept
    BY <1>1, <1>5, <1>8, <2>1 DEF Saved
  <2>7. Without(p, v, DirWithout(t), Saved(t))
    BY <1>f, <1>2, <1>5, <1>6, <1>8, <2>3, <2>4, <2>5, <2>6, WithoutUsed
  <2> QED
    BY <1>1, <1>4, <1>5, <2>1, <2>3, <2>7
<1> QED
  BY <1>7, <1>8

\* With an entry left out there is room in the directory line: it has an entry for each
\* cache entry of all queues, and every used one belongs to another of these.
LEMMA FreeLeft ==
  ASSUME DirInv, NEW p \in VP, NEW v \in Slot, NEW D, NEW St, Without(p, v, D, St),
         \A c \in DirSlot : direntries[c].vps \subseteq VP
  PROVE  FreeDirEntry(D) # 0
<1> SUFFICES ASSUME FreeDirEntry(D) = 0 PROVE FALSE
  OBVIOUS
<1>1. \A c \in DirSlot : D[c].id # None
  BY FreeFinds
<1>2. PICK T : T = (VP \X Slot) \ {<<p, v>>}
  OBVIOUS
<1>3. \A c \in DirSlot : \E x \in T : entries[x[1]][x[2]].id = D[c].id
  <2> TAKE c \in DirSlot
  <2>1. /\ D[c].vps # {} /\ D[c].vps \subseteq VP
        /\ \A q \in D[c].vps : \E r \in Slot : (q # p \/ r # v) /\ entries[q][r].id = D[c].id
    BY <1>1 DEF Without
  <2>2. PICK q \in VP, r \in Slot : (q # p \/ r # v) /\ entries[q][r].id = D[c].id
    BY <2>1
  <2>3. <<q, r>> \in T
    BY <1>2, <2>2
  <2> QED
    BY <2>2, <2>3
<1>4. PICK f : f = [c \in DirSlot |-> CHOOSE x \in T : entries[x[1]][x[2]].id = D[c].id]
  OBVIOUS
<1>5. f \in [DirSlot -> T] /\ \A c \in DirSlot : entries[f[c][1]][f[c][2]].id = D[c].id
  BY <1>3, <1>4
<1>6. IsFiniteSet(VP) /\ Cardinality(VP) = NumVP
  <2>1. 0 \in Int /\ NumVP - 1 \in Int /\ NumVP \in Nat /\ NumVP # 0
    BY ReplicatedArrayAssumption
  <2>2. IsFiniteSet(0..(NumVP - 1))
        /\ Cardinality(0..(NumVP - 1)) = IF 0 > NumVP - 1 THEN 0 ELSE (NumVP - 1) - 0 + 1
    BY <2>1, FS_Interval
  <2> QED
    BY <2>1, <2>2 DEF VP
<1>7. IsFiniteSet(Slot) /\ Cardinality(Slot) = Associativity
  <2>1. 1 \in Int /\ Associativity \in Nat /\ Associativity # 0
    BY ReplicatedArrayAssumption
  <2>2. IsFiniteSet(1..Associativity)
        /\ Cardinality(1..Associativity) = IF 1 > Associativity THEN 0
                                           ELSE Associativity - 1 + 1
    BY <2>1, FS_Interval
  <2> QED
    BY <2>1, <2>2 DEF Slot
<1>8. PICK n \in Nat \ {0} : n = Associativity * NumVP /\ n = NumVP * Associativity
  BY ReplicatedArrayAssumption
<1>9. IsFiniteSet(DirSlot) /\ Cardinality(DirSlot) = n
  <2>1. IsFiniteSet(1..n) /\ Cardinality(1..n) = IF 1 > n THEN 0 ELSE n - 1 + 1
    <3>1. 1 \in Int /\ n \in Int
      BY <1>8
    <3> QED
      BY <3>1, FS_Interval
  <2> QED
    BY <1>8, <2>1 DEF DirSlot
<1>10. IsFiniteSet(T) /\ Cardinality(T) = n - 1
  <2>1. IsFiniteSet(VP \X Slot) /\ Cardinality(VP \X Slot) = n
    BY <1>6, <1>7, <1>8, FS_Product
  <2>2. <<p, v>> \in VP \X Slot
    OBVIOUS
  <2> QED
    BY <1>2, <2>1, <2>2, FS_RemoveElement
<1>11. \E x, y \in DirSlot : x # y /\ f[x] = f[y]
  <2>1. Cardinality(T) < Cardinality(DirSlot)
    BY <1>8, <1>9, <1>10
  <2> QED
    BY <1>5, <1>9, <1>10, <2>1, FS_PigeonHole
<1>12. PICK x \in DirSlot, y \in DirSlot : x # y /\ D[x].id = D[y].id
  BY <1>5, <1>11
<1>13. direntries[x].id = direntries[y].id /\ direntries[x].id # None
  BY <1>1, <1>12 DEF Without
<1> QED
  BY <1>12, <1>13 DEF DirInv, DirOK

\* What clients do stays as it is but for one that may wait for its copy of i.
RolesReplaced(p, i) ==
  /\ \A j : Writer(j)' <=> Writer(j)
  /\ ~Writer(i)
  /\ \A q, j : Ahead(q, j)' <=> Ahead(q, j)
  /\ \A q, r : ~Flushed(q, r) /\ ~Flushed(q, r)'
  /\ \A q, j : ~CopyAt(q, j) /\ (CopyAt(q, j)' => q = p /\ j = i)

\* The line is D with a new entry for i if there was none.
LineReplaced(p, i, D) ==
  /\ \A c \in DirSlot : D[c].id # None => direntries'[c] = D[c]
  /\ \A c \in DirSlot : D[c].id = None /\ direntries'[c].id # None =>
       /\ direntries'[c].id = i /\ direntries'[c].vps = {p}
       /\ ~direntries'[c].busy /\ ~direntries'[c].modified
       /\ \A z \in DirSlot : direntries'[z].id = i => z = c
       /\ ~CopyAt(p, i)'
  /\ \E c \in DirSlot : direntries'[c].id = i /\ (p \in direntries'[c].vps \/ CopyAt(p, i)')

\* Other ids keep their values.  That of i changes when i was nowhere, and save is then
\* thought to have been given the new one.
ValuesReplaced(i, St) ==
  /\ \A j \in Id : j # i => kept'[j] = St[j] /\ latest'[j] = latest[j]
  /\ \/ kept'[i] = St[i] /\ latest'[i] = latest[i]
     \/ /\ kept'[i] = latest'[i]
        /\ \A q \in VP : entries[q] # None => \A r \in Slot : entries[q][r].id # i

\* An entry that is left out is given to i.
LEMMA ReplacedShared ==
  ASSUME DataType, SharedInv, NEW p \in VP, entries[p] # None, NEW v \in Slot, NEW i \in Id,
         NEW e, Puts(p, v, e), e.id = i, ~e.busy, ~e.dirty,
         \A r \in Slot : entries[p][r].id # i,
         NEW D, NEW St, Without(p, v, D, St), ValuesReplaced(i, St),
         RolesReplaced(p, i), LineReplaced(p, i, D),
         e.data = latest'[i] \/ CopyAt(p, i)'
  PROVE  SharedInv'
<1>0. i # None
  BY ReplicatedArrayAssumption
<1>r. /\ \A j : Writer(j)' <=> Writer(j)
      /\ ~Writer(i)
      /\ \A q, j : Ahead(q, j)' <=> Ahead(q, j)
      /\ \A q, r : ~Flushed(q, r) /\ ~Flushed(q, r)'
      /\ \A q, j : ~CopyAt(q, j) /\ (CopyAt(q, j)' => q = p /\ j = i)
  BY DEF RolesReplaced
<1>1. /\ \A q \in VP : entries'[q] = None <=> entries[q] = None
      /\ \A q \in VP : entries[q] # None => \A r \in Slot :
           q # p \/ r # v => entries'[q][r] = entries[q][r]
      /\ entries'[p] # None /\ entries'[p][v] = e
  BY DEF Puts
<1>2. EntryInv'
  <2>1. SUFFICES ASSUME NEW q \in VP, entries'[q] # None, NEW r \in Slot
                 PROVE  EntryOK(q, r)'
    BY DEF EntryInv
  <2>2. EntryOK(q, r) /\ entries[q] # None
    BY <1>1, <2>1 DEF SharedInv, EntryInv
  <2>3. CASE q = p /\ r = v
    <3>1. \E c \in DirSlot : direntries'[c].id = i /\ (p \in direntries'[c].vps \/ CopyAt(p, i)')
      BY DEF LineReplaced
    <3>2. \A z \in Slot : entries'[p][z].id = i => z = v
      BY <1>1
    <3>3. ~Ahead(p, i)'
      BY <1>r DEF Ahead, Writer, Writing
    <3>4. e.busy <=> Writer(i)' \/ Flushed(p, v)'
      BY <1>r
    <3> QED
      BY <1>0, <1>1, <2>3, <3>1, <3>2, <3>3, <3>4 DEF EntryOK
  <2>4. CASE q # p \/ r # v
    <3>1. PICK j : j = entries[q][r].id /\ entries'[q][r] = entries[q][r]
      BY <1>1, <2>2, <2>4
    <3>2. CASE j = None
      BY <2>2, <3>1, <3>2 DEF EntryOK
    <3>3. CASE j # None
      <4>1. \E c \in DirSlot : direntries'[c].id = j /\ q \in direntries'[c].vps
        <5>1. PICK c \in DirSlot : D[c].id = j /\ q \in D[c].vps
          BY <2>2, <2>4, <3>1, <3>3 DEF Without
        <5>2. direntries'[c] = D[c]
          BY <3>3, <5>1 DEF LineReplaced
        <5> QED
          BY <5>1, <5>2
      <4>2. \A z \in Slot : entries'[q][z].id = j => z = r
        <5> SUFFICES ASSUME NEW z \in Slot, entries'[q][z].id = j PROVE z = r
          OBVIOUS
        <5>1. CASE q = p /\ z = v
          BY <1>1, <3>1, <5>1
        <5>2. CASE q # p \/ z # v
          <6>1. entries[q][z].id = j
            BY <1>1, <2>2, <5>2
          <6> QED
            BY <2>2, <3>1, <3>3, <6>1 DEF EntryOK
        <5> QED
          BY <5>1, <5>2
      <4>3. entries[q][r].busy <=> Writer(j)' \/ Flushed(q, r)'
        BY <1>r, <2>2, <3>1, <3>3 DEF EntryOK
      <4>4. entries[q][r].data = IF Ahead(q, j)' THEN Incr(j, latest'[j]) ELSE latest'[j]
        <5>1. j \in Id
          <6>1. entries[q][r] \in CacheEntry
            BY <2>2 DEF DataType
          <6> QED
            BY <3>1, <3>3, <6>1, Fields
        <5>2. latest'[j] = latest[j]
          BY <2>2, <3>1, <5>1 DEF ValuesReplaced
        <5> QED
          BY <1>r, <2>2, <3>1, <3>3, <5>2 DEF EntryOK
      <4> QED
        BY <3>1, <3>3, <4>1, <4>2, <4>3, <4>4 DEF EntryOK
    <3> QED
      BY <3>2, <3>3
  <2> QED
    BY <2>3, <2>4
<1>3. DirInv'
  <2>1. SUFFICES ASSUME NEW c \in DirSlot, direntries'[c].id # None PROVE DirOK(c)'
    BY DEF DirInv, DirOK
  <2>2. CASE D[c].id = None
    <3>1. /\ direntries'[c].id = i /\ direntries'[c].vps = {p} /\ ~direntries'[c].busy
          /\ ~CopyAt(p, i)'
          /\ \A z \in DirSlot : direntries'[z].id = i => z = c
      BY <2>1, <2>2 DEF LineReplaced
    <3> QED
      BY <1>1, <1>r, <3>1 DEF DirOK
  <2>3. CASE D[c].id # None
    <3>1. PICK j : j = D[c].id /\ direntries'[c] = D[c] /\ direntries[c].id = j
      BY <2>3 DEF LineReplaced, Without
    <3>2. DirOK(c) /\ direntries[c].vps \subseteq VP
      BY DEF SharedInv, DirInv, DataType, DirEntry
    <3>3. /\ D[c].busy = direntries[c].busy
          /\ D[c].vps # {} /\ D[c].vps \subseteq direntries[c].vps
          /\ \A q \in D[c].vps : \E r \in Slot : (q # p \/ r # v) /\ entries[q][r].id = j
      BY <2>3, <3>1 DEF Without
    <3>4. D[c].busy <=> Writer(j)'
      BY <1>r, <2>3, <3>1, <3>2, <3>3 DEF DirOK
    <3>5. \A q \in D[c].vps : /\ entries'[q] # None /\ ~CopyAt(q, j)'
                              /\ \E r \in Slot : entries'[q][r].id = j
      <4> TAKE q \in D[c].vps
      <4>1. q \in VP /\ entries[q] # None
        BY <2>3, <3>1, <3>2, <3>3 DEF DirOK
      <4>2. PICK r \in Slot : (q # p \/ r # v) /\ entries[q][r].id = j
        BY <3>3
      <4>3. entries'[q][r].id = j
        BY <1>1, <4>1, <4>2
      <4>4. ~CopyAt(q, j)'
        BY <1>r, <4>2
      <4> QED
        BY <1>1, <4>1, <4>3, <4>4
    <3>6. \A z \in DirSlot : direntries'[z].id = j => z = c
      <4> SUFFICES ASSUME NEW z \in DirSlot, direntries'[z].id = j PROVE z = c
        OBVIOUS
      <4>1. CASE D[z].id = None
        <5>1. direntries'[z].id = i /\ \A w \in DirSlot : direntries'[w].id = i => w = z
          BY <2>3, <3>1, <4>1 DEF LineReplaced
        <5> QED
          BY <3>1, <5>1
      <4>2. CASE D[z].id # None
        <5>1. direntries[z].id = j
          BY <4>2 DEF LineReplaced, Without
        <5> QED
          BY <2>3, <3>1, <3>2, <5>1 DEF DirOK
      <4> QED
        BY <4>1, <4>2
    <3> QED
      BY <3>1, <3>3, <3>4, <3>5, <3>6 DEF DirOK
  <2> QED
    BY <2>2, <2>3
<1>4. SavedInv'
  <2>1. SUFFICES ASSUME NEW j \in Id, Clean(j)' PROVE kept'[j] = latest'[j]
    BY DEF SavedInv
  <2>2. j # None
    BY ReplicatedArrayAssumption
  <2>3. \A q \in VP : entries[q] # None => \A r \in Slot :
          (q # p \/ r # v) /\ entries[q][r].id = j => ~entries[q][r].dirty
    BY <1>1, <2>1 DEF Clean
  <2>4. \A c \in DirSlot : D[c].id = j => ~D[c].modified
    BY <2>1, <2>2 DEF Clean, LineReplaced
  <2>5. St[j] = latest[j]
    BY <2>3, <2>4 DEF CleanBut, Without
  <2> QED
    BY <2>5 DEF ValuesReplaced
<1> QED
  BY <1>2, <1>3, <1>4 DEF SharedInv

\* What the step that replaces an entry leaves of the others' roles.
LEMMA ReplaceRoles ==
  ASSUME OneEach, CacheInv, NEW t \in Thread, dirlock = t, pc[t] \in {"hash1", "hash2"},
         Frame(t), pc'[t] \in {"copy", "busy", "reading"}, UNCHANGED req,
         ~Writer(req[t].id)
  PROVE  /\ RolesReplaced(My(t), req[t].id) /\ NoFlusher(t)
         /\ pc'[t] # "copy" => \A q, j : ~CopyAt(q, j)'
<1>1. \A q, j : ~CopyAt(q, j)
  BY NobodyCopies
<1>2. \A u \in Thread : pc[u] = "copy" => u = t
  BY Facts, AloneInDirectory DEF InDirectory
<1>3. \A u \in Thread : pc'[u] = "copy" => u = t
  BY <1>2 DEF Frame
<1>4. \A q, j : CopyAt(q, j)' => q = My(t) /\ j = req[t].id /\ pc'[t] = "copy"
  BY <1>3 DEF CopyAt
<1>5. \A j : Writer(j)' <=> Writer(j)
  <2>1. ~Writing(t) /\ ~Writing(t)'
    BY DEF Writing
  <2> QED
    BY <2>1, WriterSame
<1>6. \A q, j : Ahead(q, j)' <=> Ahead(q, j)
  <2>1. \A u \in Thread : InAhead(u)' <=> InAhead(u)
    BY DEF Frame, InAhead
  <2> QED
    BY <2>1 DEF Ahead, InAhead
<1>7. NoFlusher(t) /\ \A q, r : ~Flushed(q, r) /\ ~Flushed(q, r)'
  BY NothingFlushed DEF Flushing
<1> QED
  BY <1>1, <1>4, <1>5, <1>6, <1>7 DEF RolesReplaced

\* An entry is given to an id that is on other processors.
LEMMA EvictStep ==
  ASSUME OneEach, CacheInv, NEW t \in Thread, Evict(t)
  PROVE  CacheInv'
<1>f. /\ DataType /\ CallType /\ LockInv /\ CallInv /\ CallOK(t) /\ My(t) \in VP
      /\ SharedInv /\ (InDirectory(t) <=> dirlock = t)
  BY Facts
<1>c. CanReplace(t) /\ InDir(t) # 0
  BY DEF Evict, Replace
<1>0. /\ pc[t] \in {"hash1", "hash2"} /\ InDirectory(t) /\ dirlock = t
      /\ entries[My(t)] # None /\ req[t].id \in Id
      /\ (~req[t].write => latest[req[t].id] \in seen[t])
      /\ \A s \in Slot : entries[My(t)][s].id # req[t].id
  BY <1>c, MissFacts DEF CanReplace
<1>1. PICK p \in VP, i \in Id, d \in DirSlot :
        /\ p = My(t) /\ i = req[t].id /\ d = InDir(t) /\ entries[p] # None
        /\ direntries[d].id = i /\ ~direntries[d].busy /\ i # None
  BY <1>f, <1>c, <1>0, LookupFinds, ReplicatedArrayAssumption DEF InDir, CanReplace, DirBusy
<1>2. PICK v \in Slot, o \in CacheEntry :
        /\ v = LruEntry(p) /\ o = Evicted(t) /\ o = entries[p][v]
        /\ Without(p, v, DirWithout(t), Saved(t))
  BY <1>1, <1>c, VictimGone DEF Evicted
<1>3. PICK D : D = DirWithout(t)
  OBVIOUS
<1>4. /\ entries' = [entries EXCEPT ![p][v] =
           [o EXCEPT !.id = i, !.busy = FALSE, !.dirty = FALSE]]
      /\ direntries' = D /\ kept' = Saved(t)
      /\ ep' = [ep EXCEPT ![t] = v] /\ direntry' = [direntry EXCEPT ![t] = d]
      /\ hlock' = [hlock EXCEPT ![p] = t] /\ pc' = [pc EXCEPT ![t] = "copy"]
      /\ UNCHANGED <<count, dirlock, req, val, left, latest, seen>>
  BY <1>1, <1>2, <1>3 DEF Evict, Replace, Goto
<1>5. PICK e : e = [o EXCEPT !.id = i, !.busy = FALSE, !.dirty = FALSE]
  OBVIOUS
<1>6. e \in CacheEntry /\ e.id = i /\ ~e.busy /\ ~e.dirty
  BY <1>5 DEF CacheEntry
<1>7. Puts(p, v, e)
  <2>1. entries' = [entries EXCEPT ![p][v] = e]
    BY <1>4, <1>5
  <2> QED
    BY <1>f, <1>1, <1>6, <2>1, PutsEntry
<1>p. pc'[t] = "copy" /\ ep'[t] = v /\ direntry'[t] = d
  BY <1>f, <1>4 DEF CallType
<1>8. Frame(t)
  BY <1>f, <1>4 DEF Frame, CallType
<1>9. DataType'
  <2>1. direntries' \in [DirSlot -> DirEntry] /\ kept' \in [Id -> Nat]
    BY <1>2, <1>3, <1>4 DEF Without
  <2> QED
    BY <1>f, <1>4, <1>7, <2>1, PutsType DEF DataType
<1>10. CallType'
  BY <1>f, <1>4 DEF CallType, PC
<1>11. LockInv'
  <2>1. InDirectory(t)'
    BY <1>p DEF InDirectory
  <2> QED
    BY <1>f, <1>0, <1>4, <1>8, <2>1, LockStays
<1>12. D[d] = direntries[d]
  <2>1. o.id # i
    BY <1>0, <1>1, <1>2
  <2> QED
    BY <1>1, <1>2, <1>3, <2>1 DEF Without
<1>13. RolesReplaced(p, i) /\ NoFlusher(t)
  <2>1. ~Writer(i)
    BY <1>f, <1>1 DEF SharedInv, DirInv, DirOK
  <2> QED
    BY <1>0, <1>1, <1>4, <1>8, <1>p, <2>1, ReplaceRoles
<1>14. CopyAt(p, i)'
  BY <1>1, <1>4, <1>p DEF CopyAt
<1>15. LineReplaced(p, i, D)
  BY <1>1, <1>4, <1>12, <1>14 DEF LineReplaced
<1>16. SharedInv'
  <2>1. \A r \in Slot : entries[p][r].id # i
    BY <1>0, <1>1
  <2>2. Without(p, v, D, Saved(t))
    BY <1>2, <1>3
  <2>3. ValuesReplaced(i, Saved(t))
    BY <1>4 DEF ValuesReplaced
  <2> QED
    BY <1>f, <1>1, <1>6, <1>7, <1>13, <1>14, <1>15, <2>1, <2>2, <2>3, ReplacedShared
<1>17. CallOK(t)'
  <2>1. entries'[p] # None /\ entries'[p][v].id = i
    BY <1>6, <1>7 DEF Puts
  <2> QED
    BY <1>0, <1>1, <1>4, <1>12, <1>p, <2>1 DEF CallOK, Writing, Flushing, Mine
<1>18. OtherQueues(t)
  BY <1>f, <1>1, <1>7, PutsOthers
<1>19. pc[t] # "idle" /\ UNCHANGED latest /\ (Writing(t)' => Writing(t) /\ req'[t] = req[t])
  BY <1>0, <1>4, <1>p DEF Writing
<1> QED
  BY <1>0, <1>8, <1>9, <1>10, <1>11, <1>16, <1>17, <1>18, <1>19, OwnStep

\* An id that the directory does not know is nowhere.
LEMMA NowhereFacts ==
  ASSUME CacheInv, NEW t \in Thread, dirlock = t, pc[t] # "copy", NEW i \in Id,
         \A d \in DirSlot : direntries[d].id # i
  PROVE  /\ ~Writer(i)
         /\ \A q \in VP : entries[q] # None => \A r \in Slot : entries[q][r].id # i
<1>f. DataType /\ CallInv /\ SharedInv
  BY Facts
<1>1. \A q \in VP : entries[q] # None => \A r \in Slot : entries[q][r].id # i
  <2>1. \A q, j : ~CopyAt(q, j)
    BY NobodyCopies
  <2>2. i # None
    BY ReplicatedArrayAssumption
  <2> QED
    BY <1>f, <2>1, <2>2, SettledFacts
<1>2. ~Writer(i)
  <2>1. \A u \in Thread : Writing(u) => /\ My(u) \in VP /\ entries[My(u)] # None
                                        /\ ep[u] \in Slot /\ Mine(u).id = req[u].id
    BY <1>f, ReplicatedArrayAssumption DEF CallInv, CallOK, Writing, My
  <2> QED
    BY <1>1, <2>1 DEF Writer, Mine
<1> QED
  BY <1>1, <1>2

\* An entry is given to an id that is on no processor.
LEMMA LoadStep ==
  ASSUME OneEach, CacheInv, NEW t \in Thread, Load(t)
  PROVE  CacheInv'
<1>f. /\ DataType /\ CallType /\ LockInv /\ CallInv /\ CallOK(t) /\ My(t) \in VP
      /\ SharedInv /\ (InDirectory(t) <=> dirlock = t)
  BY Facts
<1>c. CanReplace(t) /\ InDir(t) = 0
  BY DEF Load, Replace
<1>0. /\ pc[t] \in {"hash1", "hash2"} /\ InDirectory(t) /\ dirlock = t
      /\ entries[My(t)] # None /\ req[t].id \in Id
      /\ (~req[t].write => latest[req[t].id] \in seen[t])
      /\ \A s \in Slot : entries[My(t)][s].id # req[t].id
  BY <1>c, MissFacts DEF CanReplace
<1>1. PICK p \in VP, i \in Id :
        /\ p = My(t) /\ i = req[t].id /\ entries[p] # None /\ i # None
        /\ \A d \in DirSlot : direntries[d].id # i
  BY <1>f, <1>c, <1>0, LookupFinds, ReplicatedArrayAssumption DEF InDir
<1>2. PICK v \in Slot :
        v = LruEntry(p) /\ Without(p, v, DirWithout(t), Saved(t))
  BY <1>1, <1>c, VictimGone
<1>3. PICK D : D = DirWithout(t)
  OBVIOUS
<1>d. PICK d : d = FreeDirEntry(D)
  OBVIOUS
<1>g. d \in DirSlot /\ D[d].id = None
  <2>1. \A c \in DirSlot : direntries[c].vps \subseteq VP
    BY <1>f DEF DataType, DirEntry
  <2>2. d # 0
    BY <1>f, <1>2, <1>3, <1>d, <2>1, FreeLeft DEF SharedInv
  <2> QED
    BY <1>d, <2>2, FreeFinds
<1>n. PICK n \in Nat : n = LoadOf(i)
  BY ReplicatedArrayAssumption DEF LoadOf
<1>4. /\ entries' = [entries EXCEPT ![p][v] =
           Used(p, [NewEntry EXCEPT !.id = i, !.data = n])]
      /\ direntries' = [D EXCEPT ![d] = [NoDirEntry EXCEPT !.id = i, !.vps = {p}]]
      /\ kept' = [Saved(t) EXCEPT ![i] = n] /\ latest' = [latest EXCEPT ![i] = n]
      /\ ep' = [ep EXCEPT ![t] = v] /\ direntry' = [direntry EXCEPT ![t] = d]
      /\ seen' = Seen(i, n) /\ UNCHANGED <<req, val, left>>
  BY <1>1, <1>2, <1>3, <1>d, <1>n DEF Load, Replace, AddVP
<1>5. PICK k \in {"busy", "reading"} :
        /\ pc' = [pc EXCEPT ![t] = k]
        /\ \/ /\ k = "busy" /\ hlock' = [hlock EXCEPT ![p] = t]
              /\ UNCHANGED <<dirlock, count>>
           \/ /\ k = "reading" /\ ~req[t].write
              /\ count' = [count EXCEPT ![p] = @ + 1] /\ Release(t)
  BY <1>1 DEF Load, Goto
<1>6. PICK c : c = [NewEntry EXCEPT !.id = i, !.data = n]
  OBVIOUS
<1>7. PICK e : e = Used(p, c)
  OBVIOUS
<1>8. e \in CacheEntry /\ e.id = i /\ ~e.busy /\ ~e.dirty /\ e.data = n
  <2>1. c \in CacheEntry /\ c.id = i /\ ~c.busy /\ ~c.dirty /\ c.data = n
    BY <1>6 DEF NewEntry, CacheEntry
  <2>2. count[p] \in Nat
    BY <1>f DEF DataType
  <2> QED
    BY <1>7, <2>1, <2>2, UsedEntry
<1>9. Puts(p, v, e)
  <2>1. entries' = [entries EXCEPT ![p][v] = e]
    BY <1>4, <1>6, <1>7
  <2> QED
    BY <1>f, <1>1, <1>8, <2>1, PutsEntry
<1>10. PICK l : l = [NoDirEntry EXCEPT !.id = i, !.vps = {p}]
  OBVIOUS
<1>11. l \in DirEntry /\ l.id = i /\ l.vps = {p} /\ ~l.busy /\ ~l.modified
  BY <1>10 DEF NoDirEntry, DirEntry
<1>k. /\ kept' \in [Id -> Nat] /\ latest' \in [Id -> Nat]
      /\ kept'[i] = n /\ latest'[i] = n
      /\ \A j \in Id : j # i => kept'[j] = Saved(t)[j] /\ latest'[j] = latest[j]
  <2>1. Saved(t) \in [Id -> Nat] /\ latest \in [Id -> Nat]
    BY <1>f, <1>2 DEF Without, DataType
  <2> QED
    BY <1>4, <2>1
<1>s. /\ seen' \in [Thread -> SUBSET Nat] /\ (\A u \in Thread : seen[u] \subseteq seen'[u])
      /\ \A u \in Thread : req[u].id = i /\ ~req[u].write => n \in seen'[u]
  BY <1>f, <1>4, SeenByReaders
<1>12. /\ direntries' \in [DirSlot -> DirEntry]
       /\ direntries'[d] = l /\ \A z \in DirSlot : z # d => direntries'[z] = D[z]
       /\ \A z \in DirSlot : D[z].id # i
  BY <1>1, <1>2, <1>3, <1>g, <1>4, <1>10, <1>11 DEF Without
<1>p. pc'[t] = k /\ ep'[t] = v /\ direntry'[t] = d
  BY <1>f, <1>4, <1>5 DEF CallType
<1>13. Frame(t)
  BY <1>f, <1>s, <1>4, <1>5 DEF Frame, CallType
<1>14. DataType'
  <2>2. count' \in [VP -> Nat]
    <3>1. count[p] + 1 \in Nat
      BY <1>f DEF DataType
    <3> QED
      BY <1>f, <1>5, <3>1 DEF DataType
  <2> QED
    BY <1>f, <1>k, <1>9, <1>12, <2>2, PutsType DEF DataType
<1>15. CallType'
  <2>1. dirlock' \in Thread \cup {None} /\ hlock' \in [VP -> Thread \cup {None}]
    <3>1. CASE k = "busy"
      BY <1>f, <1>5, <3>1 DEF CallType
    <3>2. CASE k = "reading"
      BY <1>f, <1>5, <3>2, Released
    <3> QED
      BY <3>1, <3>2
  <2> QED
    BY <1>f, <1>g, <1>s, <1>4, <1>5, <2>1 DEF CallType, PC
<1>16. LockInv'
  <2>1. CASE k = "busy"
    <3>1. InDirectory(t)'
      BY <1>p, <2>1 DEF InDirectory
    <3> QED
      BY <1>f, <1>0, <1>5, <1>13, <2>1, <3>1, LockStays
  <2>2. CASE k = "reading"
    <3>1. ~InDirectory(t)'
      BY <1>p, <2>2 DEF InDirectory
    <3>2. dirlock' = (IF dirlock = t THEN None ELSE dirlock)
      BY <1>f, <1>5, <2>2, Released
    <3> QED
      BY <1>f, <1>13, <3>1, <3>2, LockStays
  <2> QED
    BY <2>1, <2>2
<1>17. /\ ~Writer(i)
       /\ \A q \in VP : entries[q] # None => \A r \in Slot : entries[q][r].id # i
  BY <1>0, <1>1, NowhereFacts
<1>18. RolesReplaced(p, i) /\ NoFlusher(t) /\ \A q, j : ~CopyAt(q, j)'
  BY <1>0, <1>1, <1>4, <1>13, <1>17, <1>p, ReplaceRoles
<1>19. LineReplaced(p, i, D)
  <2>1. \A z \in DirSlot : D[z].id # None => direntries'[z] = D[z]
    BY <1>g, <1>12
  <2>2. \A z \in DirSlot : direntries'[z].id = i => z = d
    BY <1>12
  <2> QED
    BY <1>g, <1>11, <1>12, <1>18, <2>1, <2>2 DEF LineReplaced
<1>20. SharedInv'
  <2>1. \A r \in Slot : entries[p][r].id # i
    BY <1>0, <1>1
  <2>2. Without(p, v, D, Saved(t))
    BY <1>2, <1>3
  <2>3. ValuesReplaced(i, Saved(t))
    BY <1>k, <1>17 DEF ValuesReplaced
  <2>4. e.data = latest'[i]
    BY <1>8, <1>k
  <2> QED
    BY <1>f, <1>1, <1>8, <1>9, <1>18, <1>19, <2>1, <2>2, <2>3, <2>4, ReplacedShared
<1>21. CallOK(t)'
  <2>1. entries'[p] # None /\ entries'[p][v].id = i
    BY <1>8, <1>9 DEF Puts
  <2>2. req'[t] = req[t] /\ (~req[t].write => latest'[i] \in seen'[t])
    BY <1>1, <1>4, <1>k, <1>s
  <2> QED
    BY <1>0, <1>1, <1>5, <1>g, <1>11, <1>12, <1>p, <2>1, <2>2 DEF CallOK, Writing, Flushing, Mine
<1>22. OtherQueues(t)
  BY <1>f, <1>1, <1>9, PutsOthers
<1>23. pc[t] # "idle" /\ (Writing(t)' => Writing(t) /\ req'[t] = req[t])
  BY <1>0, <1>4, <1>p DEF Writing
<1>24. LatestSeen(t)
  <2> SUFFICES ASSUME NEW u \in Thread, req[u].id \in Id, ~req[u].write
               PROVE  latest'[req[u].id] = latest[req[u].id] \/ latest'[req[u].id] \in seen'[u]
    BY DEF LatestSeen
  <2> QED
    BY <1>k, <1>s
<1>25. \A u \in Thread : u # t /\ Writing(u) => latest'[req[u].id] = latest[req[u].id]
  <2> SUFFICES ASSUME NEW u \in Thread, Writing(u)
               PROVE  latest'[req[u].id] = latest[req[u].id]
    OBVIOUS
  <2>1. req[u].id # i
    BY <1>17 DEF Writer
  <2>2. req[u].id \in Id
    BY <1>f DEF CallInv, CallOK, Writing
  <2> QED
    BY <1>k, <2>1, <2>2
<1> QED
  BY <1>0, <1>13, <1>14, <1>15, <1>16, <1>20, <1>21, <1>22, <1>23, <1>24, <1>25, ValueStep

-----------------------------------------------------------------------------
(* The invariant, and what follows from it.                                *)

\* The clients and the cache start in order.
LEMMA InitCache ==
  ASSUME Init
  PROVE  CacheInv
<1>1. \A p \in VP : entries[p] = None
  BY DEF Init
<1>2. \A t \in Thread : pc[t] = "idle" /\ req[t] = NoRequest
  BY DEF Init
<1>3. \A d \in DirSlot : direntries[d].id = None
  BY DEF Init, NoDirEntry
<1>4. DataType
  <2>1. NoDirEntry \in DirEntry
    BY DEF NoDirEntry, DirEntry
  <2>2. \A i \in Id : LoadOf(i) \in Nat
    BY ReplicatedArrayAssumption DEF LoadOf
  <2> QED
    BY <1>1, <2>1, <2>2 DEF Init, DataType
<1>5. CallType
  <2>1. NoRequest \in [id : Id \cup {None}, write : BOOLEAN]
    BY DEF NoRequest
  <2>2. MaxRequests \in 0..MaxRequests
    BY ReplicatedArrayAssumption
  <2> QED
    BY <2>1, <2>2 DEF Init, CallType, PC
<1>6. LockInv
  <2>1. \A t \in Thread : t # None
    BY ReplicatedArrayAssumption
  <2>2. dirlock = None
    BY DEF Init
  <2> QED
    BY <1>2, <2>1, <2>2 DEF LockInv, InDirectory
<1>7. EntryInv /\ DirInv
  BY <1>1, <1>3 DEF EntryInv, DirInv, DirOK
<1>8. SavedInv
  BY DEF Init, SavedInv
<1>9. CallInv
  BY <1>1, <1>2 DEF CallInv, CallOK, Writing, Flushing
<1>10. SingleWriter
  BY <1>2 DEF SingleWriter, Writing
<1> QED
  BY <1>4, <1>5, <1>6, <1>7, <1>8, <1>9, <1>10 DEF CacheInv, SharedInv

\* Every step keeps them so.
LEMMA NextCache ==
  ASSUME OneEach, FlushAlone, CacheInv, [Next]_vars
  PROVE  CacheInv'
<1>1. CASE UNCHANGED vars
  <2>1. UNCHANGED <<entries, count, direntries, kept, dirlock, hlock, pc, req, ep, direntry,
                    val, left, latest, seen>>
    BY <1>1 DEF vars, dataVars, lockVars, callVars
  <2>2. DataType' /\ CallType' /\ LockInv' /\ SingleWriter'
    BY <2>1 DEF CacheInv, DataType, CallType, LockInv, InDirectory, SingleWriter, Writing
  <2>3. \A i : (Writer(i)' <=> Writer(i)) /\ (Clean(i)' <=> Clean(i))
    BY <2>1 DEF Writer, Writing, Clean
  <2>4. \A p, i : /\ Ahead(p, i)' <=> Ahead(p, i)
                  /\ CopyAt(p, i)' <=> CopyAt(p, i)
                  /\ Flushed(p, i)' <=> Flushed(p, i)
    BY <2>1 DEF Ahead, CopyAt, Flushed
  <2>5. EntryInv'
    BY <2>1, <2>3, <2>4 DEF CacheInv, SharedInv, EntryInv, EntryOK
  <2>6. DirInv'
    BY <2>1, <2>3, <2>4 DEF CacheInv, SharedInv, DirInv, DirOK
  <2>7. SavedInv'
    BY <2>1, <2>3 DEF CacheInv, SharedInv, SavedInv
  <2>8. CallInv'
    BY <2>1 DEF CacheInv, CallInv, CallOK, Writing, Flushing, Mine
  <2> QED
    BY <2>2, <2>5, <2>6, <2>7, <2>8 DEF CacheInv, SharedInv
<1>2. CASE Finished
  BY <1>1, <1>2 DEF Finished
<1>3. ASSUME NEW t \in Thread, StartGet(t) \/ StartFlush(t)
      PROVE  CacheInv'
  BY <1>3, StartGetStep, StartFlushStep
<1>4. ASSUME NEW t \in Thread, Get(t)
      PROVE  CacheInv'
  <2>1. CASE InitQueue(t) \/ LockDir(t) \/ HitBusy(t) \/ HitRead(t) \/ HitWrite(t)
    BY <2>1, InitQueueStep, LockDirStep, HitBusyStep, HitReadStep, HitWriteStep
  <2>2. CASE MissRead(t) \/ MissBusy(t) \/ NoFree(t) \/ Load(t) \/ Evict(t)
    BY <2>2, MissReadStep, MissBusyStep, NoFreeStep, LoadStep, EvictStep
  <2>3. CASE CopyRemote(t) \/ LockRemote(t) \/ SetBusy(t)
    BY <2>3, CopyRemoteStep, LockRemoteStep, SetBusyStep
  <2> QED
    BY <1>4, <2>1, <2>2, <2>3 DEF Get
<1>5. ASSUME NEW t \in Thread, Use(t)
      PROVE  CacheInv'
  <2>1. CASE Read(t)
    BY <2>1, ReturnStep DEF Read, At
  <2>2. CASE BeginWrite(t) \/ EndWrite(t) \/ PutBack(t) \/ UpdateAndClearBusy(t)
    BY <2>2, BeginWriteStep, EndWriteStep, PutBackStep, UpdateAndClearBusyStep
  <2> QED
    BY <1>5, <2>1, <2>2 DEF Use
<1>6. ASSUME NEW t \in Thread, Flush(t)
      PROVE  CacheInv'
  <2>1. CASE EndFlush(t)
    BY <2>1, ReturnStep DEF EndFlush, At
  <2>2. CASE FlushNext(t) \/ Save(t) \/ FlushedOne(t)
    BY <2>2, FlushNextStep, SaveStep, FlushedOneStep
  <2> QED
    BY <1>6, <2>1, <2>2 DEF Flush
<1> QED
  BY <1>1, <1>2, <1>3, <1>4, <1>5, <1>6 DEF Next, Step

\* CacheInv is inductive when every processor runs one client, and flush runs alone.
LEMMA CacheInvariant == OneEach /\ FlushAlone => (Spec => []CacheInv)
<1> SUFFICES ASSUME OneEach, FlushAlone PROVE Spec => []CacheInv
  OBVIOUS
<1>1. Init => CacheInv
  BY InitCache
<1>2. CacheInv /\ [Next]_vars => CacheInv'
  BY NextCache
<1> QED
  BY <1>1, <1>2, PTL DEF Spec

\* The entries, the directory line, the saves, the locks and the locals keep their types.
THEOREM TypeCorrect == OneEach /\ FlushAlone => (Spec => []TypeOK)
<1>1. CacheInv => TypeOK
  BY DEF CacheInv, DataType, CallType, TypeOK
<1> QED
  BY <1>1, CacheInvariant, PTL

\* An id has one writer at a time, on whatever processors ("Entry already busy").
THEOREM OneWriter == OneEach /\ FlushAlone => (Spec => []SingleWriter)
<1>1. CacheInv => SingleWriter
  BY DEF CacheInv
<1> QED
  BY <1>1, CacheInvariant, PTL

\* What a processor's copy is.
LEMMA CopyFacts ==
  ASSUME CacheInv, NEW i \in Id, NEW p \in VP
  PROVE  p \in Holders(i) <=> entries[p] # None /\ \E s \in Slot : entries[p][s].id = i
<1>1. p \in Holders(i) <=> entries[p] # None /\ Search(p, i) # 0
  BY DEF Holders
<1>2. Search(p, i) # 0 <=> \E s \in Slot : entries[p][s].id = i
  BY SearchFinds
<1> QED
  BY <1>1, <1>2

\* No update is lost while there is a copy: one that is not busy has the value of the
\* last putback.  When the last copy is gone save was called with that value.
THEOREM UpdatesKept == OneEach /\ FlushAlone => (Spec => []Coherent)
<1>1. CacheInv => Coherent
  <2> SUFFICES ASSUME CacheInv, NEW i \in Id
               PROVE  /\ \A p \in Holders(i) : \/ entries[p][Search(p, i)].busy \/ Copying(p)
                                               \/ entries[p][Search(p, i)].data = latest[i]
                      /\ Holders(i) = {} => kept[i] = latest[i]
    BY DEF Coherent
  <2>f. DataType /\ SharedInv /\ i # None
    BY ReplicatedArrayAssumption DEF CacheInv
  <2>1. ASSUME NEW p \in Holders(i), ~entries[p][Search(p, i)].busy, ~Copying(p)
        PROVE  entries[p][Search(p, i)].data = latest[i]
    <3>1. PICK s : s = Search(p, i)
      OBVIOUS
    <3>2. p \in VP /\ entries[p] # None /\ s \in Slot /\ entries[p][s].id = i
      BY <3>1, SearchFinds DEF Holders
    <3>3. EntryOK(p, s)
      BY <2>f, <3>2 DEF SharedInv, EntryInv
    <3>4. ~CopyAt(p, i)
      BY <2>1 DEF Copying, CopyAt
    <3>5. ~Ahead(p, i)
      <4>1. ~Writer(i)
        BY <2>f, <2>1, <3>1, <3>2, <3>3 DEF EntryOK
      <4> QED
        BY <4>1 DEF Writer, Ahead, Writing
    <3> QED
      BY <2>f, <3>1, <3>2, <3>3, <3>4, <3>5 DEF EntryOK
  <2>2. ASSUME Holders(i) = {}
        PROVE  kept[i] = latest[i]
    <3>1. \A p \in VP : entries[p] # None => \A s \in Slot : entries[p][s].id # i
      BY <2>2, CopyFacts
    <3>2. \A d \in DirSlot : direntries[d].id # i
      <4> SUFFICES ASSUME NEW d \in DirSlot, direntries[d].id = i PROVE FALSE
        OBVIOUS
      <4>1. DirOK(d) /\ direntries[d].vps \subseteq VP
        BY <2>f DEF SharedInv, DirInv, DataType, DirEntry
      <4> QED
        BY <2>f, <3>1, <4>1 DEF DirOK
    <3>3. Clean(i)
      BY <3>1, <3>2 DEF Clean
    <3> QED
      BY <2>f, <3>3 DEF SharedInv, SavedInv
  <2> QED
    BY <2>1, <2>2
<1> QED
  BY <1>1, CacheInvariant, PTL

\* A reader finds its id, and a value that the id has had since its get began.
THEOREM ReadersSeeFresh == OneEach /\ FlushAlone => (Spec => []ReadIsFresh)
<1> SUFFICES ASSUME OneEach, FlushAlone PROVE Spec => []ReadIsFresh
  OBVIOUS
<1>1. CacheInv => ReadIsFresh
  <2> SUFFICES ASSUME CacheInv, NEW t \in Thread, pc[t] = "reading"
               PROVE  Mine(t).id = req[t].id /\ Mine(t).data \in seen[t]
    BY DEF ReadIsFresh
  <2>f. DataType /\ CallType /\ SharedInv /\ CallOK(t) /\ My(t) \in VP
    BY Facts
  <2>1. PICK p \in VP, s \in Slot, i \in Id :
          /\ p = My(t) /\ s = ep[t] /\ i = req[t].id /\ entries[p] # None
          /\ entries[p][s].id = i /\ i # None /\ (~req[t].write => latest[i] \in seen[t])
    BY <2>f, ReplicatedArrayAssumption DEF CallOK, Mine
  <2>2. EntryOK(p, s)
    BY <2>f, <2>1 DEF SharedInv, EntryInv
  <2>3. ~CopyAt(p, i)
    BY <2>1 DEF CopyAt, OneEach
  <2>4. ~Ahead(p, i)
    BY <2>1 DEF Ahead, OneEach
  <2>5. entries[p][s].data = latest[i]
    BY <2>1, <2>2, <2>3, <2>4 DEF EntryOK
  <2>6. ~req[t].write
    BY <2>f DEF CallOK
  <2> QED
    BY <2>1, <2>5, <2>6 DEF Mine
<1>2. Spec => []CacheInv
  BY CacheInvariant
<1> QED
  BY <1>1, <1>2, PTL

\* The assertions of the code hold: a queue is initialised once, an evicted entry is in
\* the directory, there is room for a new directory entry, and a holder that the
\* directory names has the entry.
THEOREM AssertionsNeverFail == OneEach /\ FlushAlone => (Spec => []AssertionsHold)
<1> SUFFICES ASSUME OneEach, FlushAlone PROVE Spec => []AssertionsHold
  OBVIOUS
<1>1. CacheInv => AssertionsHold
  <2> SUFFICES ASSUME CacheInv, NEW t \in Thread
      PROVE /\ pc[t] = "init" => entries[My(t)] = None
            /\ CanReplace(t) =>
                 /\ Evicted(t).id # None => VictimDir(t) # 0
                 /\ InDir(t) = 0 => FreeDirEntry(DirWithout(t)) # 0
            /\ pc[t] \in {"copy", "busy", "update"} =>
                 /\ direntry[t] # 0
                 /\ pc[t] = "copy" => Copies(t) # {} /\ Remote(t) # My(t)
                 /\ Copies(t) \subseteq Holders(direntries[direntry[t]].id)
    BY DEF AssertionsHold
  <2>f. DataType /\ SharedInv /\ CallOK(t) /\ My(t) \in VP
    BY Facts
  <2>1. pc[t] = "init" => entries[My(t)] = None
    BY <2>f DEF CallOK
  <2>2. CanReplace(t) => /\ Evicted(t).id # None => VictimDir(t) # 0
                         /\ FreeDirEntry(DirWithout(t)) # 0
    <3> HAVE CanReplace(t)
    <3>1. /\ LruEntry(My(t)) \in Slot
          /\ Evicted(t).id # None => VictimDir(t) # 0
          /\ Without(My(t), LruEntry(My(t)), DirWithout(t), Saved(t))
      BY VictimGone
    <3>2. DirInv /\ \A c \in DirSlot : direntries[c].vps \subseteq VP
      BY <2>f DEF SharedInv, DataType, DirEntry
    <3>3. FreeDirEntry(DirWithout(t)) # 0
      BY <2>f, <3>1, <3>2, FreeLeft
    <3> QED
      BY <3>1, <3>3
  <2>3. pc[t] \in {"copy", "busy", "update"} =>
          direntry[t] # 0 /\ Copies(t) \subseteq Holders(direntries[direntry[t]].id)
    <3> HAVE pc[t] \in {"copy", "busy", "update"}
    <3>1. PICK d \in DirSlot, i \in Id : /\ d = direntry[t] /\ i = req[t].id
                                         /\ direntries[d].id = i /\ i # None
      BY <2>f, ReplicatedArrayAssumption DEF CallOK
    <3>2. DirOK(d) /\ direntries[d].vps \subseteq VP
      BY <2>f DEF SharedInv, DirInv, DataType, DirEntry
    <3>3. \A q \in direntries[d].vps : q \in Holders(i)
      BY <3>1, <3>2, CopyFacts DEF DirOK
    <3>4. d # 0
      BY DEF DirSlot
    <3> QED
      BY <3>1, <3>3, <3>4 DEF Copies
  <2>4. pc[t] = "copy" => Copies(t) # {} /\ Remote(t) # My(t)
    BY RemoteFacts
  <2> QED
    BY <2>1, <2>2, <2>3, <2>4
<1>2. Spec => []CacheInv
  BY CacheInvariant
<1> QED
  BY <1>1, <1>2, PTL

\* When its lock is free the directory line is right: an id with copies has one entry
\* there, which names the processors that have one, and it and they are busy exactly
\* while the id is written.
THEOREM DirectoryIsExact == OneEach /\ FlushAlone => (Spec => []DirectoryExact)
<1>1. CacheInv => DirectoryExact
  <2> SUFFICES ASSUME CacheInv, dirlock = None, NEW i \in Id
      PROVE  LET ds == {d \in DirSlot : direntries[d].id = i}
                 written == \E t \in Thread : Writing(t) /\ req[t].id = i
             IN /\ Cardinality(ds) = IF Holders(i) = {} THEN 0 ELSE 1
                /\ \A d \in ds : direntries[d].vps = Holders(i) /\ direntries[d].busy = written
                /\ (\A t \in Thread : ~Flushing(t)) =>
                     \A p \in Holders(i) : entries[p][Search(p, i)].busy = written
    BY DEF DirectoryExact
  <2>f. DataType /\ SharedInv /\ LockInv /\ i # None
    BY ReplicatedArrayAssumption DEF CacheInv
  <2>1. \A q, j : ~CopyAt(q, j)
    <3>1. \A u \in Thread : pc[u] # "copy"
      BY <2>f, ReplicatedArrayAssumption DEF LockInv, InDirectory
    <3> QED
      BY <3>1 DEF CopyAt
  <2>2. /\ \A q \in VP : entries[q] # None => \A r \in Slot : entries[q][r].id # None =>
             \E c \in DirSlot : direntries[c].id = entries[q][r].id /\ q \in direntries[c].vps
        /\ \A c \in DirSlot : direntries[c].id # None =>
             /\ direntries[c].vps # {} /\ direntries[c].vps \subseteq VP
             /\ \A q \in direntries[c].vps :
                  entries[q] # None /\ \E r \in Slot : entries[q][r].id = direntries[c].id
             /\ \A z \in DirSlot : direntries[z].id = direntries[c].id => z = c
    BY <2>f, <2>1, SettledFacts
  <2>3. PICK ds : ds = {d \in DirSlot : direntries[d].id = i}
    OBVIOUS
  <2>4. PICK written \in BOOLEAN : written <=> \E t \in Thread : Writing(t) /\ req[t].id = i
    OBVIOUS
  <2>5. written <=> Writer(i)
    BY <2>4 DEF Writer
  <2>6. \A d \in ds : direntries[d].vps = Holders(i)
    <3> SUFFICES ASSUME NEW d \in DirSlot, direntries[d].id = i
                 PROVE  direntries[d].vps = Holders(i)
      BY <2>3
    <3>1. \A q \in direntries[d].vps : q \in Holders(i)
      BY <2>f, <2>2, CopyFacts
    <3>2. \A q \in Holders(i) : q \in direntries[d].vps
      <4> TAKE q \in Holders(i)
      <4>1. q \in VP
        BY DEF Holders
      <4>2. entries[q] # None /\ \E r \in Slot : entries[q][r].id = i
        BY <4>1, CopyFacts
      <4>3. PICK c \in DirSlot : direntries[c].id = i /\ q \in direntries[c].vps
        BY <2>f, <2>2, <4>1, <4>2
      <4> QED
        BY <2>f, <2>2, <4>3
    <3> QED
      BY <3>1, <3>2
  <2>7. Cardinality(ds) = IF Holders(i) = {} THEN 0 ELSE 1
    <3>1. CASE ds = {}
      <4>1. Holders(i) = {}
        <5> SUFFICES ASSUME NEW q \in Holders(i) PROVE FALSE
          OBVIOUS
        <5>1. q \in VP
          BY DEF Holders
        <5>2. entries[q] # None /\ \E r \in Slot : entries[q][r].id = i
          BY <5>1, CopyFacts
        <5> QED
          BY <2>f, <2>2, <2>3, <3>1, <5>1, <5>2
      <4> QED
        BY <3>1, <4>1, FS_EmptySet
    <3>2. CASE ds # {}
      <4>1. PICK d \in DirSlot : d \in ds /\ direntries[d].id = i
        BY <2>3, <3>2
      <4>2. ds = {d}
        BY <2>f, <2>2, <2>3, <4>1
      <4>3. Holders(i) # {}
        BY <2>f, <2>2, <2>6, <4>1
      <4> QED
        BY <4>2, <4>3, FS_Singleton
    <3> QED
      BY <3>1, <3>2
  <2>8. \A d \in ds : direntries[d].busy = written
    <3> SUFFICES ASSUME NEW d \in DirSlot, direntries[d].id = i
                 PROVE  direntries[d].busy = written
      BY <2>3
    <3>1. direntries[d].busy <=> Writer(i)
      BY <2>f DEF SharedInv, DirInv, DirOK
    <3>2. direntries[d].busy \in BOOLEAN
      BY <2>f DEF DataType, DirEntry
    <3> QED
      BY <2>5, <3>1, <3>2
  <2>9. (\A t \in Thread : ~Flushing(t)) =>
           \A p \in Holders(i) : entries[p][Search(p, i)].busy = written
    <3> SUFFICES ASSUME \A t \in Thread : ~Flushing(t), NEW p \in Holders(i)
                 PROVE  entries[p][Search(p, i)].busy = written
      OBVIOUS
    <3>1. PICK s : s = Search(p, i)
      OBVIOUS
    <3>2. p \in VP /\ entries[p] # None /\ s \in Slot /\ entries[p][s].id = i
      BY <3>1, SearchFinds DEF Holders
    <3>3. EntryOK(p, s)
      BY <2>f, <3>2 DEF SharedInv, EntryInv
    <3>4. ~Flushed(p, s)
      BY DEF Flushed, Flushing
    <3>5. entries[p][s].busy <=> Writer(i)
      BY <2>f, <3>2, <3>3, <3>4 DEF EntryOK
    <3>6. entries[p][s].busy \in BOOLEAN
      BY <2>f, <3>2 DEF DataType, CacheEntry
    <3> QED
      BY <2>5, <3>1, <3>5, <3>6
  <2>10. written = \E t \in Thread : Writing(t) /\ req[t].id = i
    BY <2>4
  <2> QED
    BY <2>3, <2>6, <2>7, <2>8, <2>9, <2>10
<1> QED
  BY <1>1, CacheInvariant, PTL

-----------------------------------------------------------------------------
(* The order of the locks.                                                 *)

\* A step that holds the directory line's lock takes a queue's, or both are released.
LEMMA OrderKept ==
  ASSUME NoLockCycle, CallType, NEW t \in Thread,
         \/ UNCHANGED lockVars
         \/ Release(t)
         \/ dirlock = None /\ UNCHANGED hlock
         \/ dirlock = t /\ UNCHANGED dirlock /\ \E q : hlock' = [hlock EXCEPT ![q] = t]
  PROVE  NoLockCycle'
<1> SUFFICES ASSUME NEW p \in VP, hlock'[p] # None PROVE hlock'[p] = dirlock'
  BY DEF NoLockCycle
<1>f. hlock[p] # None => hlock[p] = dirlock
  BY DEF NoLockCycle
<1>1. CASE UNCHANGED lockVars
  BY <1>1, <1>f DEF lockVars
<1>2. CASE Release(t)
  BY <1>2, <1>f DEF Release
<1>3. CASE dirlock = None /\ UNCHANGED hlock
  BY <1>3, <1>f
<1>4. CASE dirlock = t /\ UNCHANGED dirlock /\ \E q : hlock' = [hlock EXCEPT ![q] = t]
  BY <1>4, <1>f DEF CallType
<1> QED
  BY <1>1, <1>2, <1>3, <1>4

\* Which of these a step of a call is.
LEMMA LocksInOrder ==
  ASSUME CacheInv, NEW t \in Thread, StartGet(t) \/ StartFlush(t) \/ Step(t)
  PROVE  \/ UNCHANGED lockVars
         \/ Release(t)
         \/ dirlock = None /\ UNCHANGED hlock
         \/ dirlock = t /\ UNCHANGED dirlock /\ \E q : hlock' = [hlock EXCEPT ![q] = t]
<1>f. InDirectory(t) <=> dirlock = t
  BY Facts
<1>1. CASE StartGet(t) \/ StartFlush(t) \/ Flush(t) \/ Read(t)
  BY <1>1 DEF StartGet, StartFlush, Flush, FlushNext, Save, FlushedOne, EndFlush, Read, lockVars
<1>2. CASE InitQueue(t) \/ LockDir(t) \/ MissRead(t) \/ BeginWrite(t) \/ EndWrite(t)
  BY <1>2 DEF InitQueue, LockDir, MissRead, BeginWrite, EndWrite, lockVars
<1>3. CASE HitBusy(t) \/ HitRead(t) \/ MissBusy(t) \/ NoFree(t) \/ SetBusy(t)
           \/ UpdateAndClearBusy(t)
  BY <1>3 DEF HitBusy, HitRead, MissBusy, NoFree, SetBusy, UpdateAndClearBusy, TryAgain
<1>4. CASE HitWrite(t)
  <2>1. InDirectory(t)
    BY <1>4, HitFacts DEF HitWrite, InDirectory
  <2> QED
    BY <1>f, <1>4, <2>1 DEF HitWrite
<1>5. CASE Load(t) \/ Evict(t)
  <2>1. dirlock = t
    BY <1>5, MissFacts DEF Load, Evict, Replace, CanReplace
  <2> QED
    BY <1>5, <2>1 DEF Load, Evict
<1>6. CASE CopyRemote(t)
  BY <1>6 DEF CopyRemote
<1>7. CASE LockRemote(t) \/ PutBack(t)
  <2>1. dirlock = t
    BY <1>f, <1>7 DEF LockRemote, PutBack, At, InDirectory
  <2> QED
    BY <1>7, <2>1 DEF LockRemote, PutBack
<1> QED
  BY <1>1, <1>2, <1>3, <1>4, <1>5, <1>6, <1>7 DEF Step, Get, Use

\* Whoever keeps the lock of a queue holds that of the directory line, so that the locks
\* of get and putback are never waited for in a circle.
THEOREM LocksAreOrdered == OneEach /\ FlushAlone => (Spec => []NoLockCycle)
<1> SUFFICES ASSUME OneEach, FlushAlone PROVE Spec => []NoLockCycle
  OBVIOUS
<1>1. Init => NoLockCycle
  BY DEF Init, NoLockCycle
<1>2. CacheInv /\ NoLockCycle /\ [Next]_vars => NoLockCycle'
  <2> SUFFICES ASSUME CacheInv, NoLockCycle, [Next]_vars PROVE NoLockCycle'
    OBVIOUS
  <2>f. CallType
    BY DEF CacheInv
  <2>1. CASE UNCHANGED vars
    BY <2>1 DEF vars, lockVars, NoLockCycle
  <2>2. ASSUME NEW t \in Thread, StartGet(t) \/ StartFlush(t) \/ Step(t)
        PROVE  NoLockCycle'
    BY <2>f, <2>2, LocksInOrder, OrderKept
  <2> QED
    BY <2>1, <2>2 DEF Next, Finished
<1>3. Spec => []CacheInv
  BY CacheInvariant
<1> QED
  BY <1>1, <1>2, <1>3, PTL DEF Spec

===========================================================================
