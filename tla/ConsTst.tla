------------------------------ MODULE ConsTst ------------------------------
(***************************************************************************)
(* apps/contst on top of the event manager.  Every core starts the         *)
(* application (APP_START_ALL) and creates a console of its own, with an   *)
(* input and an output event, on the one standard input and output, which  *)
(* are non-blocking.  It prints a greeting and then echoes what is typed.  *)
(*                                                                         *)
(* A read or write that would block is an error to LRTConsoleRead/Write,   *)
(* and LRT_RCAssert ends the process; so does a failed registration.       *)
(***************************************************************************)
EXTENDS EventMgr, SequencesExt

CONSTANTS BufSize,    \* BUFSIZE
          Greeting,   \* the number of characters ConsTst_start prints
          MaxKeys,    \* bounds the characters that are typed
          TtyRoom     \* what the terminal takes before it blocks

ASSUME ConsTstAssumption ==
  /\ BufSize \in Nat \ {0} /\ Greeting \in 0..BufSize /\ MaxKeys \in Nat /\ TtyRoom \in Nat \ {0}
  /\ 2 * NumCores <= NumVec      \* allocEventNo finds a vector
  /\ Handlers = Core /\ Funcs = {"inEvent", "outEvent"}

VARIABLES
  inEV, outEV,        \* the console's event numbers
  in_c, out_c,        \* the buffers; in_c holds inlen characters
  outstart, outlen,
  stage, left,        \* where client code is; the greeting not yet printed
  typed, stdin,       \* how many keys were typed; those not yet read
  room,               \* what the terminal takes now
  accepted, written   \* history, per console: putChar took it, write wrote it

bufVars  == <<in_c, out_c, outstart, outlen>>
conVars  == <<inEV, outEV, bufVars, stage, left, accepted, written>>
ttyVars  == <<typed, stdin, room>>
vars     == <<evVars, conVars, ttyVars>>

\* The characters of the greeting are numbered down from Greeting to 1 and negated;
\* 0 is what the buffer holds before.
Keys  == 1..MaxKeys
Char  == (-Greeting)..MaxKeys

\* The statements of ConsTst_start, and those of the two handlers.
Stage == {"allocIn", "registerIn", "allocOut", "registerOut", "enableIn", "print",
          "echo", "disableOut", "return"}
         \cup Funcs \cup {"uninitialized"}

TypeOK ==
  /\ EvTypeOK
  /\ inEV \in [Core -> Vec \cup {None}] /\ outEV \in [Core -> Vec \cup {None}]
  /\ in_c \in [Core -> Seq(Keys)] /\ out_c \in [Core -> [0..(BufSize - 1) -> Char]]
  /\ outstart \in [Core -> 0..BufSize] /\ outlen \in [Core -> 0..BufSize]
  /\ stage \in [Core -> Stage] /\ left \in [Core -> 0..Greeting]
  /\ typed \in 0..MaxKeys /\ stdin \in Seq(Keys) /\ room \in 0..TtyRoom
  /\ accepted \in [Core -> Seq(Char)] /\ written \in [Core -> Seq(Char)]

Init ==
  /\ EvInit
  /\ inEV = [c \in Core |-> None] /\ outEV = [c \in Core |-> None]
  /\ in_c = [c \in Core |-> <<>>]
  /\ out_c = [c \in Core |-> [i \in 0..(BufSize - 1) |-> 0]]
  /\ outstart = [c \in Core |-> 0] /\ outlen = [c \in Core |-> 0]
  /\ stage = [c \in Core |-> "allocIn"] /\ left = [c \in Core |-> Greeting]
  /\ typed = 0 /\ stdin = <<>> /\ room = TtyRoom
  /\ accepted = [c \in Core |-> <<>>] /\ written = [c \in Core |-> <<>>]

Doing(c, s) == At(c, "idle") /\ stage[c] = s
Then(c, s)  == stage' = [stage EXCEPT ![c] = s]

-----------------------------------------------------------------------------
(* ConsoleCreate and ConsTst_start.                                        *)

AllocIn(c) ==
  /\ Doing(c, "allocIn")
  /\ AllocEventNo(c)
  /\ inEV' = [inEV EXCEPT ![c] = Nearest]
  /\ Then(c, "registerIn")
  /\ UNCHANGED <<outEV, bufVars, left, accepted, written, ttyVars>>

RegisterIn(c) ==
  /\ Doing(c, "registerIn")
  /\ RegisterHandler(c, inEV[c], [id |-> c, fn |-> "inEvent"])
  /\ Then(c, "allocOut")
  /\ UNCHANGED <<inEV, outEV, bufVars, left, accepted, written, ttyVars>>

AllocOut(c) ==
  /\ Doing(c, "allocOut")
  /\ AllocEventNo(c)
  /\ outEV' = [outEV EXCEPT ![c] = Nearest]
  /\ Then(c, "registerOut")
  /\ UNCHANGED <<inEV, bufVars, left, accepted, written, ttyVars>>

RegisterOut(c) ==
  /\ Doing(c, "registerOut")
  /\ RegisterHandler(c, outEV[c], [id |-> c, fn |-> "outEvent"])
  /\ Then(c, "enableIn")
  /\ UNCHANGED <<inEV, outEV, bufVars, left, accepted, written, ttyVars>>

EnableIn(c) ==
  /\ Doing(c, "enableIn")
  /\ EventEnable(c, inEV[c])
  /\ Then(c, "print")
  /\ UNCHANGED <<inEV, outEV, bufVars, left, accepted, written, ttyVars>>

-----------------------------------------------------------------------------
(* The character stream.                                                   *)

\* putChar has room as long as the characters do not reach the buffer's end;
\* what outEvent has written is not reused before the buffer is empty.
HasRoom(c) == outstart[c] + outlen[c] < BufSize

\* The first character turns the output event on.  Mutant: the event is turned on
\* when there were characters already.
WhenMore(c) == outlen[c] >= 1
FirstChar(c) == outlen[c] = 0

\* Nothing but the console's own buffer changes before putChar turns the event on,
\* so both are one step.
PutChar(c, ch) ==
  /\ out_c' = [out_c EXCEPT ![c][outstart[c] + outlen[c]] = ch]
  /\ outlen' = [outlen EXCEPT ![c] = @ + 1]
  /\ accepted' = [accepted EXCEPT ![c] = Append(@, ch)]
  /\ IF FirstChar(c) THEN EventEnable(c, outEV[c]) ELSE UNCHANGED evVars

\* UglyPrintStr; the buffer holds the greeting (ConsTstAssumption).
PrintHello(c) ==
  /\ Doing(c, "print") /\ left[c] > 0
  /\ left' = [left EXCEPT ![c] = @ - 1]
  /\ PutChar(c, -left[c])
  /\ UNCHANGED <<inEV, outEV, in_c, outstart, stage, written, ttyVars>>

\* The event loop calls the function of the vector's entry in the event table.
Dispatch(c) ==
  /\ DispatchEventLocal(c)
  /\ Then(c, IF cur'[c] = None THEN "return" ELSE handlerInfo[c][cur'[c]].fn)
  /\ UNCHANGED <<inEV, outEV, bufVars, left, accepted, written, ttyVars>>

\* Console_inEvent reads what there is and fits; a read that would block fails.
MinOf(a, b) == IF a < b THEN a ELSE b

InEvent(c) ==
  LET n == MinOf(Len(stdin), BufSize - Len(in_c[c])) IN
  /\ Doing(c, "inEvent")
  /\ in_c' = [in_c EXCEPT ![c] = @ \o SubSeq(stdin, 1, n)]
  /\ stdin' = SubSeq(stdin, n + 1, Len(stdin))
  /\ aborted' = (stdin = <<>> /\ Len(in_c[c]) < BufSize)
  /\ Then(c, "echo")
  /\ UNCHANGED <<picVars, enabled, unixVars, sig, mgrVars, pc, ev, loopVars,
                 inEV, outEV, out_c, outstart, outlen, left, accepted, written, typed, room>>

\* UglyEcho takes the last character and puts it; it does not look at the result
\* of putChar, so without room the character is lost.
Echo(c) ==
  /\ Doing(c, "echo") /\ in_c[c] # <<>>
  /\ in_c' = [in_c EXCEPT ![c] = Front(@)]
  /\ \/ HasRoom(c) /\ PutChar(c, Last(in_c[c]))
     \/ ~HasRoom(c) /\ UNCHANGED <<evVars, out_c, outlen, accepted>>
  /\ UNCHANGED <<inEV, outEV, outstart, stage, left, written, ttyVars>>

\* The i-th character to be written.  Mutant: taken from the start of the buffer.
FromStart(c, i) == out_c[c][i - 1]
OutChar(c, i) == out_c[c][outstart[c] + i - 1]

\* Console_outEvent writes what the terminal takes, from outstart on; when all is
\* written the buffer starts anew.
OutEvent(c) ==
  LET n == MinOf(outlen[c], room) IN
  /\ Doing(c, "outEvent")
  /\ aborted' = (outlen[c] > 0 /\ room = 0)
  /\ written' = [written EXCEPT ![c] = @ \o [i \in 1..n |-> OutChar(c, i)]]
  /\ outlen' = [outlen EXCEPT ![c] = @ - n]
  /\ outstart' = [outstart EXCEPT ![c] = IF n = outlen[c] THEN 0 ELSE @ + n]
  /\ room' = room - n
  /\ Then(c, IF n > 0 /\ n = outlen[c] THEN "disableOut" ELSE "return")
  /\ UNCHANGED <<picVars, enabled, unixVars, sig, mgrVars, pc, ev, loopVars,
                 inEV, outEV, in_c, out_c, left, accepted, typed, stdin>>

DisableOut(c) ==
  /\ Doing(c, "disableOut")
  /\ EventDisable(c, outEV[c])
  /\ Then(c, "return")
  /\ UNCHANGED <<inEV, outEV, bufVars, left, accepted, written, ttyVars>>

\* ConsTst_start, or a handler, ends.
ToLoop(c) ==
  /\ \/ Doing(c, "return")
     \/ Doing(c, "print") /\ left[c] = 0
     \/ Doing(c, "echo") /\ in_c[c] = <<>>
  /\ HandlerReturns(c)
  /\ UNCHANGED <<conVars, ttyVars>>

-----------------------------------------------------------------------------
(* The terminal.                                                           *)

\* A descriptor is ready if a read, or a write, would not block.
Ready == {v \in fds : \E c \in Core : (v = inEV[c] /\ stdin # <<>>) \/ (v = outEV[c] /\ room > 0)}

PSelect(c) == DeviceReady(c, Ready) /\ UNCHANGED <<conVars, ttyVars>>

Type ==
  /\ typed < MaxKeys /\ ~aborted
  /\ typed' = typed + 1
  /\ stdin' = Append(stdin, typed + 1)
  /\ UNCHANGED <<evVars, conVars, room>>

Display ==
  /\ room < TtyRoom /\ ~aborted
  /\ room' = room + 1
  /\ UNCHANGED <<evVars, conVars, typed, stdin>>

ClientStep(c) ==
  \/ AllocIn(c) \/ RegisterIn(c) \/ AllocOut(c) \/ RegisterOut(c) \/ EnableIn(c)
  \/  PrintHello(c) \/ Dispatch(c) \/ InEvent(c)
  \/ Echo(c) \/ OutEvent(c) \/ DisableOut(c) \/ ToLoop(c) \/ PSelect(c)

Step(c) == ClientStep(c) \/ (CoreStep(c) /\ UNCHANGED <<conVars, ttyVars>>)

Next == (\E c \in Core : Step(c)) \/ Type \/ Display

\* Cores are threads and run on; the terminal takes output; nobody has to type.
Fairness == (\A c \in Core : WF_vars(Step(c))) /\ WF_vars(Display)
Spec == Init /\ [][Next]_vars /\ Fairness

-----------------------------------------------------------------------------
\* A console's event is dispatched on its own core, and to the function it was
\* registered with, although other cores create consoles and event managers at
\* the same time and copy and write each other's tables.
DispatchedRight ==
  \A c \in Core : cur[c] # None =>
    handlerInfo[c][cur[c]] \in {i \in [id : {c}, fn : Funcs] :
                                cur[c] = IF i.fn = "inEvent" THEN inEV[c] ELSE outEV[c]}

\* What putChar accepts is written once and in order, whatever the terminal takes
\* at a time and wherever the buffer starts.
OutputInOrder ==
  \A c \in Core : accepted[c] = written[c] \o
    [i \in 1..outlen[c] |-> out_c[c][outstart[c] + i - 1]]

\* A core in its loop with characters to write has its output event on.
OutputIsOn ==
  \A c \in Core : outlen[c] > 0 /\ pc[c] \in {"vecs", "nfds", "pselect"} => outEV[c] \in on

\* Characters that are to be written are written, and what is typed is read by some
\* core, whichever vectors are turned on and off meanwhile; unless the process ends.
OutputFlows == \A c \in Core : outlen[c] > 0 ~> (outlen[c] = 0 \/ aborted)
InputIsRead == stdin # <<>> ~> (stdin = <<>> \/ aborted)
=============================================================================
