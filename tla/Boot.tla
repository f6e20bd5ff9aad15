-------------------------------- MODULE Boot --------------------------------
(***************************************************************************)
(* The start of every core, from EBB_init (l0/l0_start.c) to the           *)
(* application's start.  All cores run the same code at the same time.     *)
(* Each service has a global id variable, 0 at first; the core whose       *)
(* compare-and-swap turns it into -1 creates the root, allocates and binds *)
(* the id and stores it, and the others spin until it is no longer -1.     *)
(* The order of the ids below is the order of the calls on one core; the   *)
(* events and messages that carry the start from one layer to the next are *)
(* MsgMgr's subject.                                                       *)
(***************************************************************************)
EXTENDS Naturals, Sequences, FiniteSets

CONSTANTS Core, FirstCore,
          StartAll,   \* APP_START_ALL: all cores start the application
          Staggered,  \* the other cores start after EBBMgrPrimInit on the first
          Reloads     \* the compiler reloads the id in the spin loops

ASSUME BootAssumption ==
  /\ FirstCore \in Core
  /\ {StartAll, Staggered, Reloads} \subseteq BOOLEAN

\* theEBBMemMgrPrimId, theEBBMgrPrimId, theEventMgrPrimId, theL0Id, theL1Id,
\* theMsgMgrId, theMsgMgrEHId and theAppId.
Id == {"mem", "ebb", "evt", "l0", "l1", "msg", "msgEH", "app"}

VARIABLES id,       \* id[x]: 0, -1 ("busy") or an id ("set")
          ip,       \* ip[c]: the statement core c is at
          crashed,  \* the cores that made a call through 0 or -1
          hung      \* the cores that spin without reading the id again

vars == <<id, ip, crashed, hung>>

-----------------------------------------------------------------------------
Use(x)     == [op |-> "use", id |-> x]       \* an EBB call through id x
Publish(x) == [op |-> "publish", id |-> x]   \* theXId = id

\* The id that the losers of the compare-and-swap on x wait for.  EBBMgrPrimInit
\* waits for the memory manager's.  Mutant: all do.
WaitOnMem(x) == "mem"
WaitOn(x) == IF x = "ebb" THEN "mem" ELSE x

\* if (compare_and_swap(x)) { create } else { wait }
InitOnce(x, create) ==
  <<[op |-> "cas", id |-> x]>> \o create
    \o <<Publish(x), [op |-> "wait", id |-> x]>>

\* A root, made with EBBPrimMalloc, and an id, from EBBMgr.
NewEBB == <<Use("mem"), Use("ebb")>>

Program ==
     InitOnce("mem", <<>>) \o <<Use("mem")>>
  \o InitOnce("ebb", <<Use("mem")>>)
  \o InitOnce("evt", NewEBB) \o <<Use("mem")>>
  \o InitOnce("l0", NewEBB) \o <<Use("l0"), Use("evt")>>
  \o InitOnce("l1", NewEBB) \o <<Use("l1")>>
  \o InitOnce("msgEH", NewEBB \o <<Publish("msg")>> \o NewEBB)
  \o <<Use("mem"), Use("evt"), Use("ebb"), Use("msg")>>
  \o InitOnce("app", NewEBB) \o <<Use("app")>>

WaitIndex(x) == CHOOSE n \in DOMAIN Program :
                   Program[n] = [op |-> "wait", id |-> x]

\* With APP_START_ONE the other cores go to the event loop before they send
\* themselves the start message: Use("ebb"), Use("msg") and what follows.
LastStatement(c) == IF StartAll \/ c = FirstCore THEN Len(Program)
                    ELSE WaitIndex("msgEH") + 2

Done(c) == ip[c] > LastStatement(c)

-----------------------------------------------------------------------------
Init ==
  /\ id = [x \in Id |-> "0"]
  /\ ip = [c \in Core |-> 1]
  /\ crashed = {} /\ hung = {}

At(c, op) == /\ ~Done(c) /\ c \notin crashed \cup hung
             /\ Program[ip[c]].op = op
             /\ Staggered /\ c # FirstCore => ip[FirstCore] > WaitIndex("ebb")

Goto(c, n) == ip' = [ip EXCEPT ![c] = n]

\* The winner goes on to create, the others go to the wait.
CompareAndSwap(c) ==
  LET x == Program[ip[c]].id IN
  /\ At(c, "cas")
  /\ IF id[x] = "0" THEN id' = [id EXCEPT ![x] = "-1"] /\ Goto(c, ip[c] + 1)
                    ELSE Goto(c, WaitIndex(x)) /\ UNCHANGED id
  /\ UNCHANGED <<crashed, hung>>

\* COBJ_EBBCALL dereferences the id, whatever it is.
Call(c) ==
  /\ At(c, "use")
  /\ IF id[Program[ip[c]].id] = "set" THEN Goto(c, ip[c] + 1) /\ UNCHANGED crashed
                               ELSE crashed' = crashed \cup {c} /\ UNCHANGED ip
  /\ UNCHANGED <<id, hung>>

\* theXId = id.  Mutant: the id stays -1.
KeptBusy(x) == [id EXCEPT ![x] = "-1"]
Stored(x) == [id EXCEPT ![x] = "set"]

PublishId(c) ==
  LET x == Program[ip[c]].id IN
  /\ At(c, "publish")
  /\ id' = Stored(x)
  /\ Goto(c, IF Program[ip[c] + 1].op = "wait" THEN ip[c] + 2 ELSE ip[c] + 1)
  /\ UNCHANGED <<crashed, hung>>

\* while (((volatile uintptr_t)theXId)==-1);  The cast makes the value volatile,
\* not the variable, so a compiler may read the variable only once.
Wait(c) ==
  LET busy == id[WaitOn(Program[ip[c]].id)] = "-1" IN
  /\ At(c, "wait")
  /\ Reloads => ~busy
  /\ IF busy THEN hung' = hung \cup {c} /\ UNCHANGED ip
             ELSE Goto(c, ip[c] + 1) /\ UNCHANGED hung
  /\ UNCHANGED <<id, crashed>>

AllDone == (\A c \in Core : Done(c)) /\ UNCHANGED vars

CoreStep(c) == CompareAndSwap(c) \/ Call(c) \/ PublishId(c) \/ Wait(c)
Next == AllDone \/ \E c \in Core : CoreStep(c)
Spec == Init /\ [][Next]_vars /\ \A c \in Core : WF_vars(CoreStep(c))

-----------------------------------------------------------------------------
\* No core makes a call through an id that is not there yet: "At this point
\* EBBMgr and Ebb Calls should be working" (l0_start.c), and so on for each
\* service, although the id is created by another core.
CallsFindAnId == crashed = {}

\* Every core gets through the start: whoever lost a compare-and-swap finds the
\* root ready some day ("wait till root is ready", MemMgrPrimSimple.c).
AllCoresStart == <>(\A c \in Core : Done(c))
=============================================================================
