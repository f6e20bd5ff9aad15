---------------------------- MODULE EBBClients ----------------------------
(***************************************************************************)
(* Any core allocates, binds, frees and calls ids at any time.  An id is   *)
(* made known to other cores when its first bind has returned, the way the *)
(* global id variables of the system are written (theL0Id = id and so on). *)
(***************************************************************************)
EXTENDS EBBTrans

CONSTANTS MaxBinds   \* MaxBinds[d]: bound on the number of binds of id d

ASSUME ClientsAssumption == MaxBinds \in [Id -> Nat]

VARIABLES published,  \* the ids whose first bind has returned
          held,       \* held[d][c]: how often c was given d, less how often it freed d
          binds,      \* binds[d]: how often d has been bound
          current     \* current[d]: the instance of the last bind that returned

clientVars == <<published, held, binds, current>>
allVars    == <<vars, clientVars>>

ClientInit ==
  /\ Init /\ numlpics = NumCores
  /\ published = {}
  /\ held = [d \in Id |-> [c \in Core |-> 0]]
  /\ binds = [d \in Id |-> 0]
  /\ current = [d \in Id |-> None]

ClientAlloc(c) == AllocId(c) /\ UNCHANGED clientVars

ClientTake(c) ==
  /\ TakeId(c)
  /\ held' = [held EXCEPT ![cid[c]][c] = @ + 1]
  /\ UNCHANGED <<published, binds, current>>

\* Only an id that was never bound is given back.
ClientFree(c) == \E d \in Id :
  /\ FreeId(c, d)
  /\ held[d][c] > 0 /\ binds[d] = 0
  /\ held' = [held EXCEPT ![d][c] = @ - 1]
  /\ UNCHANGED <<published, binds, current>>

BeingBound(d) == \E k \in Core : cid[k] = d /\ pc[k] \in {"bind", "invalidate"}

\* The core that allocated an id binds it the first time, anyone later; binds of
\* one id do not overlap.
ClientBind(c) == \E d \in Id, i \in Inst :
  /\ BindId(c, d, i)
  /\ d \in published \/ held[d][c] > 0
  /\ binds[d] < MaxBinds[d]
  /\ ~BeingBound(d)
  /\ binds' = [binds EXCEPT ![d] = @ + 1]
  /\ UNCHANGED <<published, held, current>>

ClientCall(c) == \E d \in published : CallId(c, d) /\ UNCHANGED clientVars

\* The last step of a bind makes the id and its instance known.
ClientBindStep(c) ==
  /\ BindStep(c)
  /\ IF pc[c] = "invalidate" /\ pc'[c] = "idle"
     THEN /\ published' = published \cup {cid[c]}
          /\ current' = [current EXCEPT ![cid[c]] = inst[c]]
     ELSE UNCHANGED <<published, current>>
  /\ UNCHANGED <<held, binds>>

ClientCallStep(c) == CallStep(c) /\ UNCHANGED clientVars

ClientNext == \E c \in Core :
  \/ ClientAlloc(c) \/ ClientTake(c) \/ ClientFree(c) \/ ClientBind(c)
  \/ ClientCall(c) \/ ClientBindStep(c) \/ ClientCallStep(c)

ClientSpec == ClientInit /\ [][ClientNext]_allVars

-----------------------------------------------------------------------------
\* An id is given out once while it is held, although TransEBBIdAlloc takes no lock, and
\* its search and its mark are two steps: not to two cores whose searches overlap, since
\* partitions are disjoint, and not to one core twice, since what it found is marked
\* before its next search, and free does not unmark it.
IdsAreUnique ==
  \A d \in Id : \A c, k \in Core :
    held[d][c] > 0 /\ held[d][k] > 0 => c = k /\ held[d][c] = 1

\* A method runs on the instance the id is bound to, and where the root is a
\* multi root on this event location's own representative, whatever the other
\* cores that miss on the same root at the same time do (ids bound once).
CallsReachInstance ==
  \A c \in Core : result[c] = "ran" /\ binds[cid[c]] = 1 =>
     obj[c] = RepOf(current[cid[c]], c)

\* When TransEBBIdBind has returned, no local translation refers to an instance
\* the id was bound to before: it did "invalidate all the local translation
\* caches" (trans.c).
NoStaleTranslation ==
  \A d \in Id : ~BeingBound(d) =>
    \A c \in Core : lt[c][d] # None => lt[c][d].inst = current[d]
=============================================================================
