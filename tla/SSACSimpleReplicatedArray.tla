--------------------- MODULE SSACSimpleReplicatedArray ---------------------
(***************************************************************************)
(* The replicated cache of contrib/jmcddn/ssac_tornado, one hash index of  *)
(* it: queues of different indices share neither entries nor locks.  Every *)
(* virtual processor has a representative with a hash queue of entries; a  *)
(* directory line says which processors hold a copy of an id, and which id *)
(* is being written.  Copies are kept equal: a writer marks all of them    *)
(* busy before it writes and updates them all in putback.                  *)
(*                                                                         *)
(* Locks are taken in the order directory line, own hash queue, other hash *)
(* queues by processor.  A get that meets a busy entry releases its locks  *)
(* and tries again.  The clients are the workers of the tests: a reader    *)
(* uses its entry without further ado, a writer increments and puts it     *)
(* back, a get that fails is repeated.                                     *)
(*                                                                         *)
(* What is behind the cache is CacheObjectIdSimple: load returns the id,   *)
(* whatever happened before, and save keeps nothing.  The cache has done   *)
(* its part when it calls save with the right value; the history variable  *)
(* kept records these calls.                                               *)
(***************************************************************************)
EXTENDS Naturals, FiniteSets, FiniteSetsExt

CONSTANTS NumVP,            \* NUMPROC
          Thread, VPOf,     \* the clients and their processors
          Id,               \* ids of one hash index; data are numbers, and so are they
          Associativity,
          MaxRequests,      \* bounds the requests of a client
          FlushAlone,       \* flush is only called while no other call runs
          None              \* an invalid id, a free lock, no queue

VP == 0..(NumVP - 1)
Slot == 1..Associativity
DirSlot == 1..(Associativity * NumVP)

ASSUME ReplicatedArrayAssumption ==
  /\ NumVP \in Nat \ {0} /\ Associativity \in Nat \ {0} /\ MaxRequests \in Nat
  /\ VPOf \in [Thread -> VP] /\ FlushAlone \in BOOLEAN
  /\ Id \subseteq Nat /\ None \notin Id /\ None \notin Thread

VARIABLES
  entries, count,     \* of each representative's hash queue
  direntries,         \* of the directory line
  dirlock, hlock,     \* the lock of the line, of each hash queue
  pc, req,            \* control state, the request of a client
  ep, direntry,       \* its entry, its directory entry (0: a null pointer)
  val,                \* the value a writer has read
  left,               \* the requests it will still make
  kept,               \* history: what load last returned for an id, or save was given
  latest,             \* history: what load last returned for an id, or was put back
  seen                \* history: the values latest has had since a get for reading began

dataVars == <<entries, count, direntries, kept>>
lockVars == <<dirlock, hlock>>
callVars == <<req, ep, direntry, val, left>>
vars     == <<dataVars, lockVars, pc, callVars, latest, seen>>

CacheEntry == [id : Id \cup {None}, busy : BOOLEAN, dirty : BOOLEAN, lastused : Nat, data : Nat]
NewEntry   == [id |-> None, busy |-> FALSE, dirty |-> FALSE, lastused |-> 0, data |-> 0]

\* No queue of entries is None.
ASSUME NoneAssumption == None \notin [Slot -> CacheEntry]

DirEntry   == [id : Id \cup {None}, vps : SUBSET VP, busy : BOOLEAN, modified : BOOLEAN]
NoRequest  == [id |-> None, write |-> FALSE]
NoDirEntry == [id |-> None, vps |-> {}, busy |-> FALSE, modified |-> FALSE]

\* "hash1" and "hash2" follow the labels again1 and again2 of get; "busy" and
\* "update" collect the locks of the other copies.
PC == {"idle", "init", "dir1", "hash1", "dir2", "hash2", "copy", "busy", "reading",
       "writing", "written", "putdir", "puthash", "update", "flush", "save", "saved"}

TypeOK ==
  /\ \A p \in VP : entries[p] = None \/ entries[p] \in [Slot -> CacheEntry]
  /\ count \in [VP -> Nat] /\ direntries \in [DirSlot -> DirEntry]
  /\ dirlock \in Thread \cup {None} /\ hlock \in [VP -> Thread \cup {None}]
  /\ kept \in [Id -> Nat] /\ pc \in [Thread -> PC]
  /\ req \in [Thread -> [id : Id \cup {None}, write : BOOLEAN]]
  /\ ep \in [Thread -> Slot \cup {0}] /\ direntry \in [Thread -> DirSlot \cup {0}]
  /\ val \in [Thread -> Nat] /\ left \in [Thread -> 0..MaxRequests]
  /\ latest \in [Id -> Nat] /\ seen \in [Thread -> SUBSET Nat]

\* CacheObjectIdSimple's load.
LoadOf(i) == i

Init ==
  /\ entries = [p \in VP |-> None] /\ count = [p \in VP |-> 0]
  /\ direntries = [d \in DirSlot |-> NoDirEntry]
  /\ dirlock = None /\ hlock = [p \in VP |-> None]
  /\ pc = [t \in Thread |-> "idle"]
  /\ req = [t \in Thread |-> NoRequest]
  /\ ep = [t \in Thread |-> 0] /\ direntry = [t \in Thread |-> 0]
  /\ val = [t \in Thread |-> 0] /\ left = [t \in Thread |-> MaxRequests]
  /\ kept = [i \in Id |-> LoadOf(i)] /\ latest = kept
  /\ seen = [t \in Thread |-> {}]

Goto(t, p) == pc' = [pc EXCEPT ![t] = p]
At(t, p)   == pc[t] = p
My(t)      == VPOf[t]

\* A call returns; its locals are no more.
EndCall(t) ==
  /\ Goto(t, "idle")
  /\ req' = [req EXCEPT ![t] = NoRequest]
  /\ ep' = [ep EXCEPT ![t] = 0] /\ direntry' = [direntry EXCEPT ![t] = 0]
  /\ val' = [val EXCEPT ![t] = 0]

\* Those who are reading id i see that its value is v now.
Seen(i, v) == [u \in Thread |-> IF req[u] = [id |-> i, write |-> FALSE] THEN seen[u] \cup {v}
                                                                        ELSE seen[u]]
Forgotten(t, s) == [s EXCEPT ![t] = {}]

-----------------------------------------------------------------------------
(* Queues and directory lines.                                             *)

FirstOr0(S) == IF S = {} THEN 0 ELSE Min(S)
Search(p, i) == FirstOr0({s \in Slot : entries[p][s].id = i})
LookupId(i)  == FirstOr0({d \in DirSlot : direntries[d].id = i})

\* adddirentry's search.  Mutant: it leaves out the last entry.
AllButLast(dir) == FirstOr0({d \in DirSlot : dir[d].id = None /\ d + 1 \in DirSlot})
FreeDirEntry(dir) == FirstOr0({d \in DirSlot : dir[d].id = None})

\* lruentry: the first of those with the lowest lastused; an entry never used has 0.
NotBusy(p) == {s \in Slot : ~entries[p][s].busy}
LruEntry(p) == CHOOSE s \in NotBusy(p) : \A r \in NotBusy(p) :
                 \/ entries[p][s].lastused < entries[p][r].lastused
                 \/ entries[p][s].lastused = entries[p][r].lastused /\ s <= r

\* Mutant: a busy entry is taken for a free one.
NeverBusy(e) == FALSE
IsBusy(e) == e.busy

\* removefromdir: without holders the entry is free again.  Mutant: it stays.
KeepDirEntry(d, p, dirty) ==
  [direntries EXCEPT ![d].vps = @ \ {p}, ![d].modified = @ \/ dirty]
RemoveFromDir(d, p, dirty) ==
  IF direntries[d].vps \subseteq {p} THEN [direntries EXCEPT ![d] = NoDirEntry]
  ELSE [direntries EXCEPT ![d].vps = @ \ {p}, ![d].modified = @ \/ dirty]

\* Its result: the last copy has to be saved if any was dirty.  Mutant: if this one is.
LastIsDirty(d, p, dirty) == direntries[d].vps \subseteq {p} /\ dirty
MustSave(d, p, dirty) == direntries[d].vps \subseteq {p} /\ (dirty \/ direntries[d].modified)

\* addvp.  Mutant: bits are counted from the wrong end, and from one.
AddFromTop(vps, p) == vps \cup {NumVP - p}
AddVP(vps, p) == vps \cup {p}

Used(p, e) == [e EXCEPT !.lastused = count[p] + 1]

\* All locks are released.  Mutant: those of the queues are kept.
KeepQueues(t) == dirlock' = (IF dirlock = t THEN None ELSE dirlock) /\ UNCHANGED hlock
Release(t) ==
  /\ dirlock' = IF dirlock = t THEN None ELSE dirlock
  /\ hlock' = [p \in VP |-> IF hlock[p] = t THEN None ELSE hlock[p]]

-----------------------------------------------------------------------------
(* get.                                                                    *)

Flushing(t) == pc[t] \in {"flush", "save", "saved"}

\* The queue is looked for without its lock.
FirstStep(t, write) ==
  IF entries[My(t)] = None THEN "init" ELSE IF write THEN "dir1" ELSE "hash1"

StartGet(t) ==
  /\ At(t, "idle") /\ left[t] > 0
  /\ FlushAlone => \A u \in Thread : ~Flushing(u)
  /\ \E i \in Id, w \in BOOLEAN :
       /\ req' = [req EXCEPT ![t] = [id |-> i, write |-> w]]
       /\ seen' = [seen EXCEPT ![t] = IF w THEN {} ELSE {latest[i]}]
       /\ Goto(t, FirstStep(t, w))
  /\ left' = [left EXCEPT ![t] = @ - 1]
  /\ UNCHANGED <<dataVars, lockVars, ep, direntry, val, latest>>

InitQueue(t) ==
  /\ At(t, "init") /\ hlock[My(t)] = None
  /\ entries' = [entries EXCEPT ![My(t)] = [s \in Slot |-> NewEntry]]
  /\ Goto(t, IF req[t].write THEN "dir1" ELSE "hash1")
  /\ UNCHANGED <<count, direntries, kept, lockVars, callVars, latest, seen>>

LockDir(t) ==
  /\ dirlock = None
  /\ \/ At(t, "dir1") /\ Goto(t, "hash1")
     \/ At(t, "dir2") /\ Goto(t, "hash2")
     \/ At(t, "putdir") /\ Goto(t, "puthash")
  /\ dirlock' = t
  /\ UNCHANGED <<dataVars, hlock, callVars, latest, seen>>

\* The lock of the own queue is taken, and the id searched for.
LockQueue(t) == (At(t, "hash1") \/ At(t, "hash2")) /\ hlock[My(t)] = None

\* Mutant: any entry in use is found.
FoundAny(t) == FirstOr0({s \in Slot : entries[My(t)][s].id # None})
Found(t) == Search(My(t), req[t].id)

Hit(t)   == LockQueue(t) /\ Found(t) # 0
Miss(t)  == LockQueue(t) /\ Found(t) = 0 /\ (pc[t] = "hash1" => req[t].write)

\* Both locks are released; a read that has not missed yet starts at again1.
TryAgain(t, label) == Goto(t, label) /\ Release(t)
Again(t) == IF pc[t] = "hash2" THEN "dir2" ELSE IF req[t].write THEN "dir1" ELSE "hash1"

HitBusy(t) ==
  /\ Hit(t) /\ IsBusy(entries[My(t)][Found(t)])
  /\ TryAgain(t, Again(t))
  /\ UNCHANGED <<dataVars, callVars, latest, seen>>

HitRead(t) ==
  /\ Hit(t) /\ ~IsBusy(entries[My(t)][Found(t)]) /\ ~req[t].write
  /\ entries' = [entries EXCEPT ![My(t)][Found(t)] = Used(My(t), @)]
  /\ count' = [count EXCEPT ![My(t)] = @ + 1]
  /\ ep' = [ep EXCEPT ![t] = Found(t)]
  /\ Goto(t, "reading") /\ Release(t)
  /\ UNCHANGED <<direntries, kept, req, direntry, val, left, latest, seen>>

\* After again2 a directory entry that was found before is not looked up again.
HitWrite(t) ==
  /\ Hit(t) /\ ~IsBusy(entries[My(t)][Found(t)]) /\ req[t].write
  /\ ep' = [ep EXCEPT ![t] = Found(t)]
  /\ direntry' = [direntry EXCEPT ![t] =
                    IF pc[t] = "hash2" /\ @ # 0 THEN @ ELSE LookupId(req[t].id)]
  /\ hlock' = [hlock EXCEPT ![My(t)] = t]
  /\ Goto(t, "busy")
  /\ UNCHANGED <<dataVars, dirlock, req, val, left, latest, seen>>

MissRead(t) ==
  /\ LockQueue(t) /\ pc[t] = "hash1" /\ Found(t) = 0 /\ ~req[t].write
  /\ Goto(t, "dir2")
  /\ UNCHANGED <<dataVars, lockVars, callVars, latest, seen>>

InDir(t) == LookupId(req[t].id)
DirBusy(t) == InDir(t) # 0 /\ direntries[InDir(t)].busy

MissBusy(t) ==
  /\ Miss(t) /\ DirBusy(t)
  /\ direntry' = [direntry EXCEPT ![t] = InDir(t)]
  /\ TryAgain(t, "dir2")
  /\ UNCHANGED <<dataVars, req, ep, val, left, latest, seen>>

\* get returns an error and the client calls it again.
NoFree(t) ==
  /\ Miss(t) /\ ~DirBusy(t) /\ NotBusy(My(t)) = {}
  /\ direntry' = [direntry EXCEPT ![t] = 0]
  /\ TryAgain(t, FirstStep(t, req[t].write))
  /\ UNCHANGED <<dataVars, req, ep, val, left, latest, seen>>

\* The least recently used entry leaves the directory, is saved if need be, and is
\* given to the id.
Evicted(t) == entries[My(t)][LruEntry(My(t))]
VictimDir(t) == LookupId(Evicted(t).id)
DirWithout(t) == IF Evicted(t).id = None THEN direntries
                 ELSE RemoveFromDir(VictimDir(t), My(t), Evicted(t).dirty)
Saved(t) ==
  IF Evicted(t).id # None /\ MustSave(VictimDir(t), My(t), Evicted(t).dirty)
  THEN [kept EXCEPT ![Evicted(t).id] = Evicted(t).data] ELSE kept

CanReplace(t) == Miss(t) /\ ~DirBusy(t) /\ NotBusy(My(t)) # {}

Replace(t) ==
  /\ CanReplace(t)
  /\ ep' = [ep EXCEPT ![t] = LruEntry(My(t))]
  /\ UNCHANGED <<req, val, left>>

\* The id is on no processor: what was put back before is what load makes of it.
Load(t) ==
  LET d == FreeDirEntry(DirWithout(t)) IN
  /\ Replace(t) /\ InDir(t) = 0
  /\ entries' = [entries EXCEPT ![My(t)][LruEntry(My(t))] =
       Used(My(t), [NewEntry EXCEPT !.id = req[t].id, !.data = LoadOf(req[t].id)])]
  /\ kept' = [Saved(t) EXCEPT ![req[t].id] = LoadOf(req[t].id)]
  /\ latest' = [latest EXCEPT ![req[t].id] = LoadOf(req[t].id)]
  /\ seen' = Seen(req[t].id, LoadOf(req[t].id))
  /\ direntries' = [DirWithout(t) EXCEPT ![d] =
       [NoDirEntry EXCEPT !.id = req[t].id, !.vps = AddVP({}, My(t))]]
  /\ direntry' = [direntry EXCEPT ![t] = d]
  /\ \/ /\ req[t].write
        /\ hlock' = [hlock EXCEPT ![My(t)] = t] /\ Goto(t, "busy")
        /\ UNCHANGED <<dirlock, count>>
     \/ /\ ~req[t].write
        /\ count' = [count EXCEPT ![My(t)] = @ + 1]
        /\ Release(t) /\ Goto(t, "reading")

\* The id is on other processors.
Evict(t) ==
  /\ Replace(t) /\ InDir(t) # 0
  /\ entries' = [entries EXCEPT ![My(t)][LruEntry(My(t))] =
       [Evicted(t) EXCEPT !.id = req[t].id, !.busy = FALSE, !.dirty = FALSE]]
  /\ direntries' = DirWithout(t)
  /\ direntry' = [direntry EXCEPT ![t] = InDir(t)]
  /\ hlock' = [hlock EXCEPT ![My(t)] = t]
  /\ Goto(t, "copy")
  /\ kept' = Saved(t)
  /\ UNCHANGED <<count, dirlock, latest, seen>>

\* getremotecopyfromdir locks the queue of the first holder and searches it.
Remote(t) == Min(direntries[direntry[t]].vps)

CopyRemote(t) ==
  LET s == Search(Remote(t), direntries[direntry[t]].id) IN
  /\ At(t, "copy") /\ hlock[Remote(t)] = None
  /\ direntries' = [direntries EXCEPT ![direntry[t]].vps = AddVP(@, My(t))]
  /\ entries' = [entries EXCEPT ![My(t)][ep[t]] =
                   Used(My(t), [@ EXCEPT !.data = entries[Remote(t)][s].data])]
  /\ \/ /\ req[t].write /\ Goto(t, "busy")
        /\ UNCHANGED <<lockVars, count>>
     \/ /\ ~req[t].write
        /\ count' = [count EXCEPT ![My(t)] = @ + 1]
        /\ Release(t) /\ Goto(t, "reading")
  /\ UNCHANGED <<kept, callVars, latest, seen>>

\* setbusyonallcopiesindir and its counterpart collect the locks of the other
\* holders' queues.
Copies(t) == direntries[direntry[t]].vps
Needed(t) == {p \in Copies(t) \ {My(t)} : hlock[p] # t}

LockRemote(t) ==
  /\ At(t, "busy") \/ At(t, "update")
  /\ Needed(t) # {} /\ hlock[Min(Needed(t))] = None
  /\ hlock' = [hlock EXCEPT ![Min(Needed(t))] = t]
  /\ UNCHANGED <<dataVars, dirlock, pc, callVars, latest, seen>>

\* The processors, and the entries, that are changed: the own one and all copies.
Changed(t)   == Copies(t) \cup {My(t)}
SlotOf(t, p) == IF p = My(t) THEN ep[t] ELSE Search(p, direntries[direntry[t]].id)

SetBusy(t) ==
  /\ At(t, "busy") /\ Needed(t) = {}
  /\ entries' = [p \in VP |-> IF p \notin Changed(t) THEN entries[p] ELSE
       [entries[p] EXCEPT ![SlotOf(t, p)] =
          [(IF p = My(t) THEN Used(p, @) ELSE @) EXCEPT !.busy = TRUE]]]
  /\ count' = [count EXCEPT ![My(t)] = @ + 1]
  /\ direntries' = [direntries EXCEPT ![direntry[t]].busy = TRUE]
  /\ Release(t) /\ Goto(t, "writing")
  /\ UNCHANGED <<kept, callVars, latest, seen>>

-----------------------------------------------------------------------------
(* What clients do with an entry, and putback.                             *)

Mine(t) == entries[My(t)][ep[t]]

Read(t) ==
  /\ At(t, "reading") /\ EndCall(t) /\ seen' = Forgotten(t, seen)
  /\ UNCHANGED <<dataVars, lockVars, left, latest>>

\* The writer's work: data that is just loaded is set to 0 first.
Incr(i, v) == IF v = LoadOf(i) THEN 1 ELSE v + 1

\* It is a read and a write.
BeginWrite(t) ==
  /\ At(t, "writing") /\ Goto(t, "written")
  /\ val' = [val EXCEPT ![t] = Mine(t).data]
  /\ UNCHANGED <<dataVars, lockVars, req, ep, direntry, left, latest, seen>>

EndWrite(t) ==
  /\ At(t, "written") /\ Goto(t, "putdir")
  /\ entries' = [entries EXCEPT ![My(t)][ep[t]].data = Incr(req[t].id, val[t]),
                                  ![My(t)][ep[t]].dirty = TRUE]
  /\ UNCHANGED <<count, direntries, kept, lockVars, callVars, latest, seen>>

\* putback, KEEP or DISCARD.
PutBack(t) ==
  /\ At(t, "puthash") /\ hlock[My(t)] = None
  /\ \E used \in {count[My(t)], 0} : entries' = [entries EXCEPT ![My(t)][ep[t]].lastused = used]
  /\ direntry' = [direntry EXCEPT ![t] = LookupId(Mine(t).id)]
  /\ hlock' = [hlock EXCEPT ![My(t)] = t]
  /\ Goto(t, "update")
  /\ UNCHANGED <<count, direntries, kept, dirlock, req, ep, val, left, latest, seen>>

UpdateAndClearBusy(t) ==
  /\ At(t, "update") /\ Needed(t) = {}
  /\ entries' = [p \in VP |-> IF p \notin Changed(t) THEN entries[p] ELSE
       [entries[p] EXCEPT ![SlotOf(t, p)].busy = FALSE, ![SlotOf(t, p)].data = Mine(t).data]]
  /\ direntries' = [direntries EXCEPT ![direntry[t]].busy = FALSE]
  /\ latest' = [latest EXCEPT ![req[t].id] = Mine(t).data]
  /\ seen' = Forgotten(t, Seen(req[t].id, Mine(t).data))
  /\ Release(t) /\ EndCall(t)
  /\ UNCHANGED <<count, kept, left>>

-----------------------------------------------------------------------------
(* flush, which does not look at the directory.                            *)

StartFlush(t) ==
  /\ At(t, "idle") /\ left[t] > 0 /\ entries[My(t)] # None
  /\ FlushAlone => \A u \in Thread : pc[u] = "idle"
  /\ left' = [left EXCEPT ![t] = @ - 1]
  /\ Goto(t, "flush")
  /\ UNCHANGED <<dataVars, lockVars, req, ep, direntry, val, latest, seen>>

ToFlush(p) == {s \in Slot : ~entries[p][s].busy /\ entries[p][s].id # None /\ entries[p][s].dirty}

FlushNext(t) ==
  LET s == Min(ToFlush(My(t))) IN
  /\ At(t, "flush") /\ hlock[My(t)] = None /\ ToFlush(My(t)) # {}
  /\ entries' = [entries EXCEPT ![My(t)][s].busy = TRUE]
  /\ ep' = [ep EXCEPT ![t] = s]
  /\ Goto(t, "save")
  /\ UNCHANGED <<count, direntries, kept, lockVars, req, direntry, val, left, latest, seen>>

Save(t) ==
  /\ At(t, "save") /\ Goto(t, "saved")
  /\ kept' = [kept EXCEPT ![Mine(t).id] = Mine(t).data]
  /\ UNCHANGED <<entries, count, direntries, lockVars, callVars, latest, seen>>

FlushedOne(t) ==
  /\ At(t, "saved") /\ hlock[My(t)] = None
  /\ entries' = [entries EXCEPT ![My(t)][ep[t]].busy = FALSE, ![My(t)][ep[t]].dirty = FALSE]
  /\ Goto(t, "flush")
  /\ UNCHANGED <<count, direntries, kept, lockVars, callVars, latest, seen>>

EndFlush(t) ==
  /\ At(t, "flush") /\ hlock[My(t)] = None /\ ToFlush(My(t)) = {}
  /\ EndCall(t) /\ seen' = Forgotten(t, seen)
  /\ UNCHANGED <<dataVars, lockVars, left, latest>>

-----------------------------------------------------------------------------
Get(t) ==
  \/ InitQueue(t) \/ LockDir(t) \/ HitBusy(t) \/ HitRead(t) \/ HitWrite(t) \/ MissRead(t)
  \/ MissBusy(t) \/ NoFree(t) \/ Load(t) \/ Evict(t) \/ CopyRemote(t) \/ LockRemote(t)
  \/ SetBusy(t)
Use(t)   == Read(t) \/ BeginWrite(t) \/ EndWrite(t) \/ PutBack(t) \/ UpdateAndClearBusy(t)
Flush(t) == FlushNext(t) \/ Save(t) \/ FlushedOne(t) \/ EndFlush(t)
Step(t)  == Get(t) \/ Use(t) \/ Flush(t)

\* All clients have ended.
Finished == (\A t \in Thread : pc[t] = "idle" /\ left[t] = 0) /\ UNCHANGED vars

Next == (\E t \in Thread : StartGet(t) \/ StartFlush(t) \/ Step(t)) \/ Finished

Spec == Init /\ [][Next]_vars

-----------------------------------------------------------------------------
Writing(t) == pc[t] \in {"writing", "written", "putdir", "puthash", "update"}
Copying(p) == \E t \in Thread : pc[t] = "copy" /\ My(t) = p
Holders(i) == {p \in VP : entries[p] # None /\ Search(p, i) # 0}

\* No update is lost while there is a copy, and then it is passed to save.  A copy that
\* is not busy has the value of the last putback, whichever processors wrote, evicted
\* and copied the id; and when the last copy is gone save was called with that value,
\* although only the first of several evictions saw a dirty entry.
Coherent ==
  \A i \in Id :
    /\ \A p \in Holders(i) : entries[p][Search(p, i)].busy \/ Copying(p)
                              \/ entries[p][Search(p, i)].data = latest[i]
    /\ Holders(i) = {} => kept[i] = latest[i]

\* A reader uses its entry after the locks are released and without a mark on it, while
\* writers elsewhere mark and update it: it still finds its id there, and a value the id
\* has had since its get began, never an older one.
ReadIsFresh ==
  \A t \in Thread : pc[t] = "reading" => Mine(t).id = req[t].id /\ Mine(t).data \in seen[t]

\* "Entry already busy": an id has one writer at a time, on whatever processors.
SingleWriter ==
  \A t, u \in Thread : t # u /\ Writing(t) /\ Writing(u) => req[t].id # req[u].id

\* When its lock is free the directory line is right: the processors with a copy of an
\* id are those of its one entry.  The entry and all copies are busy while the id is
\* written, and then only, so that a get that tries again can end.
DirectoryExact ==
  dirlock = None => \A i \in Id :
    LET ds == {d \in DirSlot : direntries[d].id = i}
        written == \E t \in Thread : Writing(t) /\ req[t].id = i
    IN /\ Cardinality(ds) = IF Holders(i) = {} THEN 0 ELSE 1
       /\ \A d \in ds : direntries[d].vps = Holders(i) /\ direntries[d].busy = written
       /\ (\A t \in Thread : ~Flushing(t)) =>
            \A p \in Holders(i) : entries[p][Search(p, i)].busy = written

\* The locks cannot be waited for in a circle: whoever keeps a queue's lock while it
\* waits for others holds the directory line's, and is the only one that waits so.
NoLockCycle == \A p \in VP : hlock[p] # None => hlock[p] = dirlock

\* The assertions of the code: a queue is initialised once, an evicted entry is in the
\* directory, there is room for a new directory entry, and a holder that the directory
\* names has the entry.
AssertionsHold ==
  \A t \in Thread :
    /\ pc[t] = "init" => entries[My(t)] = None
    /\ CanReplace(t) =>
         /\ Evicted(t).id # None => VictimDir(t) # 0
         /\ InDir(t) = 0 => FreeDirEntry(DirWithout(t)) # 0
    /\ pc[t] \in {"copy", "busy", "update"} =>
         /\ direntry[t] # 0
         /\ pc[t] = "copy" => Copies(t) # {} /\ Remote(t) # My(t)
         /\ Copies(t) \subseteq Holders(direntries[direntry[t]].id)
=============================================================================
