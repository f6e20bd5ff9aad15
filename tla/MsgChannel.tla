---------------------------- MODULE MsgChannel ----------------------------
(***************************************************************************)
(* What the message manager promises its callers, with no mention of how:  *)
(* a call msg0..msg3 names a destination event location; it is either      *)
(* refused (EBBRC_NOTFOUND, the destination has no representative yet) or  *)
(* accepted, and an accepted message has its handler invoked exactly once, *)
(* on the event location it was sent to.  No order between messages is     *)
(* promised: the implementation's queue is a stack.                        *)
(***************************************************************************)
EXTENDS Naturals

CONSTANTS Core, Msg, None

VARIABLES dest,       \* dest[m]: the location named in the call that sends m
          pending,    \* the accepted messages whose handler has not run
          delivered   \* delivered[m]: where m's handler was invoked

vars == <<dest, pending, delivered>>

TypeOK == /\ dest \in [Msg -> Core \cup {None}]
          /\ pending \subseteq Msg
          /\ delivered \in [Msg -> Core \cup {None}]

Init == /\ dest = [m \in Msg |-> None]
        /\ pending = {}
        /\ delivered = [m \in Msg |-> None]

\* Some handler calls msgN(d, m).
Call(m, d) == /\ dest[m] = None
              /\ dest' = [dest EXCEPT ![m] = d]
              /\ UNCHANGED <<pending, delivered>>

\* The call returns EBBRC_NOTFOUND and the message stays with its caller.
Refuse(m) == /\ dest[m] # None
             /\ m \notin pending
             /\ delivered[m] = None
             /\ dest' = [dest EXCEPT ![m] = None]
             /\ UNCHANGED <<pending, delivered>>

\* The message becomes the channel's responsibility.
Accept(m) == /\ dest[m] # None
             /\ m \notin pending
             /\ delivered[m] = None
             /\ pending' = pending \cup {m}
             /\ UNCHANGED <<dest, delivered>>

\* The handler of m is invoked on the location m was sent to.
Deliver(m) == /\ m \in pending
              /\ pending' = pending \ {m}
              /\ delivered' = [delivered EXCEPT ![m] = dest[m]]
              /\ UNCHANGED dest

Next == \E m \in Msg : \/ \E d \in Core : Call(m, d)
                       \/ Refuse(m)
                       \/ Accept(m)
                       \/ Deliver(m)

Safety == Init /\ [][Next]_vars

Spec == Safety /\ \A m \in Msg : WF_vars(Deliver(m))
=============================================================================
