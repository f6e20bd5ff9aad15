# EBBlib in TLA+

EBBlib is a library operating system built from *elastic building blocks*
(EBBs): objects with one global identifier and a representative on every core
that uses them. These modules model its core, the part every program on EBBlib
runs on: messages between cores, device vectors and the event manager,
identifiers and their translation, the start of the system and the primitive
memory manager; the test programs that exercise rebinding and the console; and
the replicated cache (SSAC), the largest shared data structure of the
repository. TLC checks small instances; TLAPS proves the safety
properties that these runs check for any number of cores, messages, identifiers, vectors, words and
cache entries.

Paths below are relative to `src/`.

## 1. The system

### Components, their state and operations

| component | source | state | operations |
|---|---|---|---|
| message manager | `l1/MsgMgrPrim.c` | per core: queue of message stores and its lock, free list and its lock, cache of the other representatives; per store: home, contents | `msg0`..`msg3`, `findTarget`, `allocMsg`, `enqueueMsg`, `dequeueMsgHead`, `freeMsg`, `handleEvent`, `createRep` |
| PIC (interrupt controller on Unix) | `l0/lrt/ulnx/pic.c`, `pic-unix.c` | per core: IPI and reset pending, vector enabled, pending signal; table of vectors and descriptors | `lrt_pic_loop`, `lrt_pic_ipi`, `ackipi`, `enableipi`, `wakeup`, `allocvec`, `mapvec`, `vecon`, `vecoff` |
| event manager | `l0/EventMgrPrimImp.c` | per core: table from vectors to (id, function number), IPI handler; the root's list of representatives | `dispatchIPI`, `ackIPI`, `enableIPI`, `registerIPIHandler`, `registerHandler`, `createRep` |
| translation | `l0/sys/trans.c`, `l0/sys/defFT.c` | per id: miss function, argument, allocated mark, bit vector of using cores; per id and core: cached representative | `TransEBBIdAlloc`, `TransEBBIdFree`, `TransEBBIdBind`, `EBBCacheObj`, the default functions |
| roots | `l0/cobj/CObjEBBRootMultiImp.c`, `CObjEBBRootShared.c` | list of (event location, representative), lock | `handleMiss`, `addRepOn`, `nextRep` |
| EBB manager | `l0/EBBMgrPrim.c` | none of its own; it works on the translation | `AllocId`, `FreeId`, `BindId` |
| system start | `l0/l0_start.c`, `l0/L0Prim.c`, `l1/L1Prim.c` and every `...Init` | one global id variable per service | the compare-and-swap protocol that creates each service once |
| memory manager | `l0/MemMgrPrimSimple.c` | per core: a heap of blocks with a "bumper" word at both ends | `init`, `alloc`, `free` |
| bindtst | `apps/bindtst/bindtst.c` | a sense-reversing barrier, two ids | the test program |
| console | `apps/contst/contst.c`, `io/lrt/ulnx/LRTConsole.c` | per core: input and output buffer, two event numbers | `ConsoleCreate`, `putChar`, `getChar`, `inEvent`, `outEvent`, the echo |
| SSAC replicated array | `contrib/jmcddn/ssac_tornado/SSACSimpleReplicatedArray.C` | per processor: hash queues of cache entries; directory lines saying which processors hold an id; a lock for each | `get`, `putback`, `flush` |
| counters, Ethernet manager, SSAC shared array, other programs | `misc/`, `net/`, `contrib/jmcddn/ssac_cpp`, `apps/` | see section 8 | not modelled |

### How they interact

A core is an OS thread that runs `lrt_pic_loop`. It blocks in `pselect`; on its
way round the loop it runs the reset handler (`l0_start`), the IPI handler and
the handlers of ready device vectors, all to completion: handlers of one core
never preempt each other, handlers of different cores interleave freely.

`msgN(d, ...)` finds the representative of core `d`, takes a store from its own
core's free list, pushes it on `d`'s queue and, *only if the queue was empty*,
asks the event manager for an IPI, which sets `ipiStatus` in `d`'s PIC and
signals its thread. `d`'s loop disables the IPI and dispatches it to
`MsgMgrPrim_handleEvent`, which acknowledges first, drains the queue, returns
every store to the core it came from, and enables the IPI again.

Every call of an EBB (`COBJ_EBBCALL`) dereferences the caller's local
translation twice, for the function table and for `self`. If it still is the
default object, the call goes through the id's miss function, which asks a root
for the representative and caches it. `TransEBBIdBind` writes the global
translation and then resets the local ones core by core, with no lock.

A device vector is allocated and mapped under the PIC's lock, into the table of
every core that has an id; the event manager writes the handler into its
master's table and replicates it to the representatives in its root's list. A
core that starts copies both tables, each under its own lock. Turning a vector
on or off is global, without a look at who is waiting: each core builds its
descriptor sets with no lock, and is signalled after every change. The console's
handlers turn their own output vector on and off from within the event loop.

The SSAC cache keeps a copy of an object on every processor that used it. A get
for writing takes the directory line's lock, its own queue's and then those of
all other holders, marks every copy busy, and releases them; putback takes them
again, copies the value everywhere and removes the marks. A get that meets a
mark releases everything and starts again.

All services are created the same way: the core whose compare-and-swap turns the
service's id variable from 0 into -1 creates it, the others spin.

### What is hard, and what makes it right

* **Wake-ups.** One IPI covers many messages, is acknowledged before the drain,
  and is pending in two places (`ipiStatus` and a signal) that are written one
  after the other. Right means: no message is left in a queue that nobody will
  look at, and every accepted message is handled exactly once where it was sent.
* **Stores.** They are freed by other cores than the ones that allocate them.
  Right means: a store is in exactly one place and comes home.
* **Start-up order.** A core takes over its IPI before it becomes visible to
  senders. Right means: the assertions of the code hold for every order.
* **Unlocked translation tables.** Ids are unique only because each core
  searches its own partition; a bind races calls and misses on all cores. Right
  means: unique ids, one representative per location, calls that reach the
  instance the id is bound to.
* **Creation races.** Right means: no call through an id that is not there, and
  no core that waits for ever.
* **Tables copied while they are written.** A core that starts sees a vector
  because it copies it or because it is written to; both happen under locks, but
  not the same ones. Right means: every core dispatches what was registered, to
  the function it was registered with.
* **Descriptor sets without a lock.** `maxfd` is 0 for a moment while another
  core reads it. Right means: no core sleeps on a set that lacks a vector which
  is on, unless a signal is on its way; and output that is waiting has its
  vector on.
* **Cached copies.** Right means: every update reaches all copies, no value older
  than its get for a reader that holds nothing, one writer, an exact directory, no
  circle of waits for locks, and the last copy to be evicted is passed to `save`
  if any copy was changed.
* **Heap structure.** Two bumpers per block must agree whatever the order of
  splits and merges. Right means: blocks never overlap, none is lost, and
  memory that is free can be allocated.

`PROJECT.json` lists the hazards line by line with the properties that would
catch them going wrong.

## 2. The modules

| module | models | composed of |
|---|---|---|
| `MsgChannel` | abstract: what the message manager promises | |
| `MsgMgr` | message manager over the event manager and the PIC | refines `MsgChannel` |
| `MsgMgrProofs` | theorems about `MsgMgr` | |
| `MsgMgrChannelProofs` | the stores of `MsgMgr`, and that it implements `MsgChannel` | extends `MsgMgrProofs` |
| `EBBTrans` | ids, translations, roots, EBB calls: the operations | |
| `EBBClients` | any core uses any operation at any time | extends `EBBTrans` |
| `EBBClientsProofs` | theorems about `EBBClients` | |
| `BindTst` | `apps/bindtst` | extends `EBBTrans` |
| `BindTstProofs` | theorems about `BindTst` | |
| `Boot` | the creation of all services by all cores | |
| `BootProofs` | theorems about `Boot` | |
| `MemMgrPrimSimple` | one core's heap | |
| `MemMgrPrimSimpleProofs` | theorems about `MemMgrPrimSimple` | |
| `EventMgr` | device vectors of the PIC, the event manager's tables, the event loop: the operations | |
| `ConsTst` | `apps/contst` on every core, and the terminal | extends `EventMgr` |
| `ConsTstProofs` | theorems about `EventMgr` and `ConsTst` | |
| `SSACSimpleReplicatedArray` | the replicated cache and the workers of its test | |
| `SSACSimpleReplicatedArrayProofs` | theorems about `SSACSimpleReplicatedArray` | |
| `MC...` | constants for TLC | |

Actions are named after the functions they model, in CamelCase, and
`PROJECT.json` maps every definition to its lines. Definitions commented
*Mutant* are plausible bugs of the definition that follows them; they are not
used by the models and serve to show that each property can fail.

**MsgMgr.** The variables named `queue` .. `root` are the fields of the
representatives and of their root, `home` and `content` those of a `MsgStore`.
The PIC is a set of cores per flag: pending IPI, pending reset, enabled vector,
pending signal, ready device. `pc[c]` is where core `c` is in the loop or in a
handler, `spc[c]` where it is in `msgN`. A critical section is two steps, one
that takes the lock and reads the list into `view`, one that writes the list
from `view` and releases the lock; other cores step in between, so the lists are
consistent only because of the locks. A list is the sequence its links make up,
head first. The three things a message carries (id, function, arguments) are its
identity. Device interrupts happen at any time; their handlers, and message
handlers, send any message to any core. The queue is a stack, so no order is
promised. `msgtst` is one of the programs this environment includes.

**EBBTrans.** `lt[c][d]` is the local translation, where `None` is the default
object; `mf` and `arg` the global one, which are written and read in separate
steps, and read in either order, as C leaves open. `corebv` is updated by a
separate read and write, and `trans_test_core_used` is true whatever it finds
(`gt->corebv | mask`). `EBBClients` adds history variables: how often each core was
given an id less how often it freed it, and which instance the last complete bind
installed. `TransEBBIdAlloc`'s search and its mark are two steps. An id becomes
known to the other cores when its first bind returns, the way the system writes
its global id variables; only then do they call it. Binds of one id do not
overlap. `MaxBinds` says for each id how often it may be bound.

**BindTst.** The program is a sequence of statements; each alloc, bind and call
is the sequence of `EBBTrans` steps, and each barrier the four steps of
`barrier()`. The instances are those of the test: the null instance and two
services.

**Boot.** Also a program: for each service the compare-and-swap, what the winner
does, the store of the id, and the wait of the losers, and between them the
calls through ids that are made on the way. An id variable is 0, -1 or set.

**MemMgrPrimSimple.** The heap word by word; every word is read as a bumper, and
clients write junk into theirs. `alloc`'s search is the code's walk, and the
split writes the code's words in the code's order.

**EventMgr.** The start of a core is split into the steps other cores can see:
the id (which raises `lrt_pic_lastid`), `lcore`, the copy of `gvecs`, the copy of
the master's event table, the entry in the root's list. `registerHandler` is two
steps, since it calls the PIC with the master's lock held; turning off the
highest vector is two, with `maxfd` 0 between them. `BlockForInterrupt` looks at
one vector a step, with `ev` as the position, and at `maxfd` each time, since it
has no lock; `Select` reads `maxfd` again for `pselect`, and `DeviceReady` for the
scan. A vector's table entry is
null, allocated (the code's -1) or mapped. `fdset` is what a core waits for in
`pselect`; a signal that arrives outside `pselect` stays pending, as the signal
mask has it. `aborted` is the end of the process: every caller asserts that a
registration, a read or a write succeeded, and `pthread_kill` of a core that has
no thread yet is undefined.

**ConsTst.** `stage` is the statement of `ConsTst_start` or of a handler that a
core is at, and the functions of the event table are names of stages, so a
wrong entry there would run the wrong handler. The buffers are the code's, with
`outstart` and `outlen`; characters are numbers. Standard input is one queue
that all consoles read; the terminal takes `TtyRoom` characters before it
blocks.

**SSACSimpleReplicatedArray.** One hash index: queues of different indices share
nothing. Each control point lies before a lock is taken or after one is
released, so that what a step does is done under the locks it holds; the two
labels of `get` are two control points. The bit masks of processors are sets,
the flags of an entry are fields. `lastused` and `count` are there because they
choose the victim. Data and ids are numbers. The clients are the workers of
`SSACSimpleReplicatedArraytest.C`: a writer sets data that is just loaded to 0,
increments, marks the entry dirty and puts it back.

What lies behind the cache is `CacheObjectIdSimple`, whose `load` returns the id,
whatever was saved, and whose `save` keeps nothing (`CacheSimple.C:7-21`). An update
whose last copy is evicted is therefore gone, in the program and in the model: the
next `Load` gives the id's own number again. What the cache itself has to do is to
call `save` with the right value, and that is what is checked. Three history
variables speak of it: `kept`, what `load` last returned for an id or `save` was
given; `latest`, what `load` last returned or was last put back; and `seen`, the
values that `latest` has had since a reader's get began. All of this needs clients
that mark what they change: the program of `eosSSACTest.C:122-128` does not, and its
updates are not even passed to `save`.

### Environment assumptions that are constants

Where correctness depends on something the code does not establish, it is a
constant, so that one module shows both sides:

* `JoinFirst` (BindTst): all cores have their id before core 0 counts them.
* `Staggered` (Boot): the other cores start after the first has been through
  `EBBMgrPrimInit`.
* `Reloads` (Boot): the compiler reads the id again in each turn of a spin loop.
* `ExactFits` (MemMgrPrimSimple): a request may meet a free block of exactly its
  size.

* `FlushAlone` (SSACSimpleReplicatedArray): `flush` is called while no other
  call runs. It takes no directory lock, and its busy mark on one copy is unknown
  to the others; with `FALSE` TLC finds violations of `Coherent`, `SingleWriter`,
  `DirectoryExact` and `ReadIsFresh`.
* `VPOf` (same module): with two threads on one processor, the queue's lazy
  initialisation runs twice (`AssertionsHold`; `Coherent` and `DirectoryExact` fail
  with it), and a reader's entry, which is not pinned, can be given to another id
  (`ReadIsFresh`). The repository's tests
  start one worker per processor, and only a sequential one calls `flush`
  (`eosSSACTest.C:120`), which is what the run has.

`Staggered` and `ExactFits` have a run for either value (section 4). With
`JoinFirst` `FALSE` (the barrier counts the cores too early, `bindtst.c:244`)
TLC finds `AllCallsPass` violated, and with `Reloads` `FALSE` (the cast in the
spin loops makes a value volatile and not the variable,
`MemMgrPrimSimple.c:246`) `AllCoresStart`. The runs have `TRUE` for these two, for
`FlushAlone`, and one thread per processor: they show that the code is right under
these assumptions and cannot catch what happens without them. `PROJECT.json` lists
the hazards behind them without a property.

### Other modelling decisions

* Memory is sequentially consistent: locks and compare-and-swaps are full
  barriers on the x86 the code runs on. `pic.c:299` has a FIXME about the write
  of `ipiStatus`; the system call that follows orders it there.
* Spinning on a lock is waiting until it is free.
* In `MsgMgr` and `EBBTrans` a core that is created gets its id, its tables and
  its thread in one step; `EventMgr` has the steps.
* `EBBPrimMalloc` succeeds in MsgMgr (there are as many stores as messages), as
  the code's callers assume.

## 3. What the runs check

| run | instance | properties |
|---|---|---|
| `msgmgr_safety` | 2 cores that both start the application, 2 messages of the application and 2 start messages | `TypeOK`, `NoLostWakeup`, `StoreConserved`, `AssertionsHold`, `ImplementsChannel` |
| `msgmgr_liveness` | 2 cores, the first starts the application, 1 message | `AcceptedIsDelivered`, `StoresComeHome` |
| `ebb_calls` | 3 cores, 3 ids in the partitions of two of them, a shared and a multi root; one id is bound once, the others are allocated and freed | `TypeOK`, `IdsAreUnique`, `OneRepPerEL`, `CallsReachInstance` |
| `bindtst` | 3 cores, the whole test | `AllCallsPass`, `CallsAreWhole`, `BarrierHolds`, `TestEnds` |
| `boot` | 3 cores, all 8 services, staggered | `CallsFindAnId`, `AllCoresStart` |
| `memmgr_split` | 15 words, requests of 1, 2 and 4 words, no exact fits | `BumpersIntact`, `BlocksDisjoint`, `WalkCovers`, `NoFalseExhaustion` |
| `contst_safety` | 2 cores, 4 vectors, buffers of 2, a greeting of 2, one key, a terminal that takes one character | `TypeOK`, `VectorsAgree`, `NoDeafCore`, `DispatchedRight`, `OutputInOrder`, `OutputIsOn` |
| `contst_liveness` | the same with buffers of 1 and no greeting | `OutputFlows`, `InputIsRead` |
| `ssac_repl` | 2 processors with one worker and one entry each, the ids 0 and 7, 3 requests a worker | `TypeOK`, `Coherent`, `ReadIsFresh`, `SingleWriter`, `DirectoryExact`, `NoLockCycle`, `AssertionsHold`, deadlock |

* `NoLostWakeup`: a core with a message in its queue is draining it, or has a
  pending IPI together with something that will make it look (a signal, its own
  position in the loop, a sender about to signal), or a sender is about to set
  the IPI. It relates the queue, the PIC and the control state of two cores.
* `StoreConserved`: every store that was ever allocated is in exactly one queue
  position, free-list position, handler or sender, and a free list holds only
  stores of its own core.
* `AssertionsHold`: what the code asserts on this path, at the points where it
  does.
* `ImplementsChannel`: the messages in queues and in the hands of `handleEvent`
  are `MsgChannel`'s `pending`; every step is a step of the channel or a
  stutter. So nothing is delivered twice, elsewhere, or with another's
  arguments.
* `AcceptedIsDelivered`, `StoresComeHome`: the same two concerns as progress.
* `IdsAreUnique`: an id is given out once while it is held, not to two cores whose
  searches overlap, and not to one core twice, although search and mark take no
  lock and freed ids stay marked.
* `OneRepPerEL`, `CallsReachInstance`: concurrent misses on one root leave one
  representative per location and each caller runs on its own.
* `AllCallsPass`: in `bindtst`, invalidation reaches every core although marks
  in `corebv` can be lost, and the barriers keep calls away from binds;
  `CallsAreWhole`: no call sees half of a bind or of an invalidation, because of the
  barriers: among the calls and binds of `EBBClients`, with an id bound twice, TLC
  finds it violated, so it says nothing of programs without them;
  `BarrierHolds`, `TestEnds`: the barrier, used again at once, neither leaks nor
  hangs.
* `WalkCovers`, `NoFalseExhaustion`: the heap's block structure as seen from the
  headers, and complete merging.

* `VectorsAgree`, `DispatchedRight`: both tables of a core agree with what was
  registered, whenever the core started; and the console's vector is handled on
  its own core by its own function.
* `NoDeafCore`: a waiting core's descriptor set is the set of vectors that are
  on, or the core has a signal pending, or another is about to signal. The set is
  built one vector at a time while others turn vectors on and off.
* `OutputInOrder`, `OutputIsOn`: the buffer with its moving start neither repeats
  nor drops what `putChar` accepted, and waiting output has its vector on.
* `OutputFlows`, `InputIsRead`: the same as progress, through the event manager,
  the PIC and the terminal.
* `Coherent`: every copy that is not busy has the value of the last putback, and
  when the last copy is gone `save` has been called with that value. It says nothing
  of what `save` makes of it.
* `ReadIsFresh`: a reader finds in its entry its id and a value the id has had since
  its get began.
* `SingleWriter`, `DirectoryExact`: the rest of what a cache of copies promises.
* `NoLockCycle`: whoever keeps a queue's lock between two steps holds the directory
  line's, so nobody waits for a lock in a circle. TLC's deadlock check agrees.

### Bounds, and why they are enough

`AppMsg` and `Store` bound the number of messages. Two cores suffice for two
senders to race for one queue (the other core, and the core's own device
handler) and for either order of acknowledging, draining and sending; the
start-up of one core then overlaps sends of the other. Four messages let a store
be reused while others are queued. What two cores leave open is closed by the
proofs, which are for any number. The liveness run leaves out the second message
to keep the graph small, and has a core that does not start the application.
`MaxBinds` allows one bind of id 0 where calls are checked and two where rebinding
is: one overtaken invalidation is enough. In `ebb_calls` core 0's partition has one
id and core 1's two, so that two cores search at the same time, one of them finds
its first id taken, and partitions run out. Three cores missing at once is the smallest
instance in which a lock holder has two waiters. `BindTst` and `Boot` are finite
by themselves; three cores give a barrier with a last, a middle and an early
core. `End = 15` leaves room for three blocks of the smallest size and, with the
three sizes, for every pattern of free and used neighbours on both sides.

`contst` has two cores so that one starts while the other registers, turns
vectors on and off, or waits; four vectors are all that they need, and the
highest of them is an output vector, which is the one that goes off. A terminal
that takes one character of a greeting of two makes a write partial, so that
`outstart` moves. In `ssac_repl` one entry per processor makes every second id
an eviction and every shared id a copy; three requests let a processor write,
lose the entry and come back. What one entry and two processors leave open is
closed by the proofs, which are for any number. Ids are the numbers that `load`
returns, so they are not symmetric; 7 is more than the six requests of the run can
count up to from 0, so that a writer's value is never taken for one just loaded,
and with the id 0 the two are the same, as in the code. The processors are not
symmetric, because locks are taken in their order.

`BindTst.cfg` switches deadlock checking off since `lrt_exit` ends the process;
the two `contst` configurations do since nobody has to type and a failed
assertion ends the process.

### Fairness

`MsgMgr`, `BindTst` and `Boot` assume weak fairness of each core's own steps:
each core is an OS thread, and handlers return. Devices and new messages are not
fair. A spin lock is taken eventually in these instances because its holders
always release it and stop contending for it when messages run out; fairness of
the locks themselves is not assumed. `ConsTst` assumes weak fairness of each
core and of the terminal taking output (a user may stop it for ever, and then
output rightly waits); typing is not fair. The vectors of one core are served in
order within a turn of its loop, which is why weak fairness is enough there. For
the SSAC cache no liveness is claimed: `get` retries with a fixed back-off and
nothing in the code keeps one worker from being overtaken for ever; that the
marks it waits for go away is in `DirectoryExact`.

## 4. Disagreements found

Each is a run that is expected to be violated; `PROJECT.json` quotes the lines.

| run | what the code does |
|---|---|
| `ebb_rebind` | a miss that is under way during a rebind caches the old representative after the invalidation has passed: `l0/sys/trans.c:223` |
| `boot_race` | `EBBMgrPrimInit` waits for the memory manager's id instead of its own: `l0/EBBMgrPrim.c:122` |
| `memmgr_exact` | an exact fit overwrites the next block's header: `l0/MemMgrPrimSimple.c:162` |

Two more are visible in the models without a run of their own. `FreeId` leaves
an id allocated, so it is never reused (`l0/sys/trans.c:194`; `EBBMgrPrim.c` says
it should be). And a key that is typed wakes the consoles of all cores, of which
all but one find nothing to read and end the process (`InEvent` in `ConsTst`;
`io/lrt/ulnx/LRTConsole.c:151`), which is why the two progress properties allow
for its end.

## 5. What is proved

All for arbitrary constants that satisfy the named assumptions: `FirstCore` is a
core, and null is none of the cores, messages, stores or handlers (`MsgMgr`);
there is at least one core, ids are numbers with an owner each, every instance
has a kind, and null is none of these (`EBBTrans`); there are vectors enough for
two events a core, and the greeting fits into a buffer (`ConsTst`); the heap has
room for its two fixed blocks and one more, and nobody asks for zero words
(`MemMgrPrimSimple`); there is at least one processor and one entry per queue,
every thread runs on a processor, ids are numbers, and null is none of the ids, threads and
queues of entries (`SSACSimpleReplicatedArray`). Some theorems have a hypothesis
more, named where they are described.

**MsgMgrProofs**: `TypeCorrect`, `NoMessageStranded` and `AssertionsNeverFail`.
`NoLostWakeup` alone is not inductive. The invariant `IInv` adds

* `SendInv`, `CurInv`: what the locals of `msgN` and `handleEvent` hold at each
  control point; two calls in progress never carry the same message, so sending
  one message cannot redirect another's IPI;
* `LockInv`: inside a critical section the core holds the lock and the queue is
  still what it read, so "found it empty" is true when the store is linked;
* `RootInv`, `TargetInv`: a core is in the root's list only when its IPI belongs
  to the message manager, and only such cores are sent anything; otherwise the
  acknowledgement in L0's `startEvent` could swallow a message's IPI;
* `EnabledInv`: in the loop the IPI is enabled, so a pending one is dispatched.

The step that matters is `WakeStep`: the only actions that end a reason to look
are the acknowledgement (the drain follows), the end of the drain (the queue is
empty under the lock), the wake-up (the core goes to the test with the IPI
pending) and the sender's last steps (which give the next reason).
`AssertionsNeverFail` needs one more invariant, `HomeInv`: a store in use has a
home, and homes are in the root's list.

**MsgMgrChannelProofs**: `StoresConserved`, and `RefinesChannel`: the message
manager implements `MsgChannel`. `StoreInv` says where a store can be (`OneBin`:
in one kind of place on one core; `NoDup`: no list has it twice), that the two
free-list sections exclude each other (`FLockInv`) and that a free list has its
own core's stores only (`FreeHome`); every action either moves one store from
its place to another or moves none. The refinement needs `MsgInv` besides: a
store that waits carries an undelivered message for the core it waits on, no two
waiting stores carry the same message, and a message that a call has not linked
yet is in no store. Linking a store is then `MsgChannel`'s send, invoking its
handler is the delivery, and every other step keeps the set of waiting stores
and is a stutter.

**EBBClientsProofs**: `TypeCorrect` (with the invalidation loop staying on
existing cores), `UniqueIds` and `OneRep`. The invariant has `IdInv`: an id that is
held is marked, in its holder's partition, and was given out just once more than
it was freed (`HeldAt`); and what a search has found is still unmarked when it
comes to be marked (`FoundAt`), since nobody else works on the partition, and this
core does not search meanwhile. It has `LocalInv` (what a miss holds at each control point), and
`MissInv`: between `lockReps` and `unlockReps` the list is the one that was
read, and a representative on its way to the cache is in the list. `OneRepPerEL`
follows since a node is added only if the list that was read has none for this
location.

`ReachInstance` proves `CallsReachInstance` for ids that are bound once, which
is what the property speaks of, in a system in which other ids may be bound
again at the same time (`ebb_rebind` shows that it fails for those). `CallInv`
adds `PrivateInv` (until its first bind returns, nobody has translated the id),
`BindInv` (the first bind is alone and has written the miss function before its
argument) and `OnceInv` (from then on both are those of the instance, and what a
call has read so far, at each of its control points, belongs to it).

**ConsTstProofs**: `TypeCorrect`, `AllCoresAgree` (`VectorsAgree`), `NobodyDeaf`
(`NoDeafCore`), `RightHandler` (`DispatchedRight`), `InOrder` (`OutputInOrder`)
and `StaysOn` (`OutputIsOn`), all parts or consequences of one inductive
invariant. Event manager and console are proved together because neither is
right for every client: that no vector belongs to two events (`DistinctInv`)
follows from how far `ConsoleCreate` has come on each core (`StageInv`), and
that a core dispatches only its own events (`TableInv`) from the event being
registered before its vector is turned on. `LoopInv` and `ScanInv` stand for
`NoDeafCore` at every point of `blockforinterrupt`: a core that builds its sets has
all vectors that are on among those it has looked at, and one that waits all of
them, unless it has a signal pending or somebody is just computing `maxfd` and will
signal. `StartInv` ties the start of a core
to the tables: it is among `0..lastid` from the moment it has its id, so that
`mapvec` reaches it or it copies what is mapped. `OnInv` has the exception that
`NoDeafCore` is about: nothing that is on lies above `maxfd`, unless somebody is
just computing it.

**MemMgrPrimSimpleProofs**: `HeapStaysTiled`, and from it `BumpersStay`,
`NoOverlap`, `WalkIsComplete` and `FailsOnlyIfFull`, under `~ExactFits`: no
request meets a free block of just its size. `memmgr_exact` shows that the
properties fail without that. `HeapInv` is one existential statement: there is a
set of headers whose blocks are disjoint, fill the heap from end to end, carry
the same bumper in their first and last word, are in use just where a client
has them, and no two neighbours of which are free. `SplitWords` and `MergeStep`
give the new set after a split and after a merge. That `alloc`'s walk meets all
headers is an induction over its hops, which the provers cannot be asked for
directly: it is done by taking the least hop that goes wrong (`SmallestNat`,
from the library's well-founded sets), also to show that the recursive function
`Reached` is what its equation says.

**BindTstProofs**: `BarrierKeeps`, `CallsPass` and `CallsStayWhole`, under
`JoinFirst` (all cores have their ids before core 0 counts them; without it
`AllCallsPass` fails, section 2), the last two for `Kinds`, the roots that
`bindtst` creates (its two services have a shared root each). `Round(g)`
is the barrier's invariant: `g` barriers are over, the barrier's sense is that
of `g`, each core's that of the barriers it has entered; a core has left the
last one or still spins in it, and the count is that of the cores which have not
arrived. A core that reuses the barrier at once cannot overtake since its own
sense is already the next one. From `BarrierHolds` follows `Together`: while a
core calls an id, the master is in the same phase, so the id's binding stays as
it is (`IdInv`) and nothing clears the local translation between the two
dereferences of the call (`InCall`); and while the master binds an id, no core
calls it (`BindAway`).

**BootProofs**: `CallsFindTheirId` (`CallsFindAnId`) under `Staggered`, for any
number of cores, for one or all of them starting the application, and whatever
the compiler makes of the spin loops; without `Staggered` it fails
(`boot_race`). `Statements` computes the program, statement by statement. The
invariant `PastInv` says that whoever is past a compare-and-swap finds the id
taken and whoever is past the wait finds it stored, `MsgInv` that the message
manager's id is stored before its event handler's, under whose compare-and-swap
it is made. `EBBMgrPrimInit` waits for the wrong id, so its wait says nothing of
the EBB manager's; there `FirstInv` is needed: the first core is the one that
stores it, before any other core starts, and never comes to that wait.

**SSACSimpleReplicatedArrayProofs**: `TypeCorrect`, `OneWriter`
(`SingleWriter`), `UpdatesKept` (`Coherent`), `ReadersSeeFresh` (`ReadIsFresh`),
`DirectoryIsExact`, `AssertionsNeverFail` and `LocksAreOrdered` (`NoLockCycle`), for
any number of processors, ids, entries and requests, under `OneEach` (each processor
runs one client) and `FlushAlone`; section 2 says what TLC finds without either.
None of the first six is inductive. `CacheInv` says, for the moments between two steps of a call,

* `LockInv`: who holds the directory line's lock, and at which control points.
  What `get` found in the line is still true when it comes to use it;
* `EntryInv`: an entry is busy just while its id is written or it is flushed;
  its data is that of the last putback, or one more where the writer has changed
  its own copy and not yet the others; the directory knows of it, and the id is
  in one entry of its queue only;
* `DirInv`: the same seen from the directory line, whose entries name at least
  one processor, each of which has the id; one that is just getting its copy is
  not named yet;
* `SavedInv`: `save` was given the last putback (or `load` has just returned it)
  unless a copy is dirty or one that is gone was (`modified`), which is why the last
  eviction has to save;
* `CallInv`: what the locals of a call hold at each control point, among them
  that an id that was not in the queue is still not there when the directory's
  lock is held.

There is a lemma for each action. `MarkedShared` and `CopiesFound` are for the
two that change all copies at once, under the locks of their queues. An eviction
is taken in two: `Without` says what directory and `kept` are once the victim is
left out, `ReplacedShared` what they are with the new id in its place. That the
directory line then has a free entry, where the code asserts one, is the
pigeonhole principle (`FreeLeft`): each entry of the line stands for a different
entry of the queues, and the victim's is not among them. `NoLockCycle`
needs no more than `CacheInv`: `LocksInOrder` sorts the steps by what they do with
locks, and only the holder of the directory line's lock keeps a queue's.

## 6. What is only model-checked

Liveness (`AcceptedIsDelivered`, `StoresComeHome`, `TestEnds`, `AllCoresStart`,
`OutputFlows`, `InputIsRead`) and `ENABLED` are out of the prover's reach.
`BindTst` is proved for the roots that the program creates; with a multi root it
would take in `OneRepPerEL`, which is proved for `EBBClients`. The theorems
about the SSAC cache assume one client per processor and a `flush` that runs
alone, as the run does: section 2 lists the properties that fail without them.
The theorems about the heap assume what `Write` says, that clients write into
their own blocks only.

## 7. Plan

The modules of the plan are written, and every safety property that a run checks
and expects to hold is stated by a theorem, under the hypotheses of section 5.
What is left is to weaken these: `OneEach` of the SSAC cache to what holds when
two clients share a processor, and the roots of `BindTst` to any kind.

## 8. What is not modelled, and why

* `MemMgrPrimStupid`: a pointer that moves up; `free` does nothing.
* Two cores in one heap: the code has no lock there and nothing says that a
  block may be freed on another core.
* Counters: a number per representative, changed without a lock; nothing is said
  of what `val` returns while others count. Their misses are `EBBTrans`'s.
* Ethernet manager: device I/O, whose only state is a packet count.
* SSAC shared array: the same queues without a directory; in the C++ port the
  lock does nothing and the test is sequential. The partitioned array, the
  counters and the region code beside it are experiments for another operating
  system, whose base classes are not in the repository.
* SSAC: the roll-over of the use counter (an assertion in the code) and
  `snapshot`, which prints.
* The start information (arguments and environment strings), terminal settings.
* The bare-hardware run time (`lrt/bare`), the architecture headers and the
  programs for one machine (`treetst`): device registers and assembly; the Unix
  run time stands for the PIC.
* `UnBindId`, `EBBDestroyPrimId`: they only report that they are missing.
* ACPICA, vendored code. With about 125,000 lines it is three quarters of the
  repository, and EBBlib's own code, which the modules are about, a small part.
