--------------------------- MODULE MCEBBClients ---------------------------
(* Small instances of EBBClients for TLC.                                  *)
EXTENDS EBBClients

\* Core 0's partition holds id 0, core 1's the others.
MCOwner == [d \in Id |-> IF d = 0 THEN 0 ELSE 1]

\* Id 0 is bound, the others are allocated and freed only.
MCBindOnce  == [d \in Id |-> IF d = 0 THEN 1 ELSE 0]
MCBindTwice == [d \in Id |-> IF d = 0 THEN 2 ELSE 0]

\* One instance of each kind of root.
MCInst == {"shared", "multi"}
MCKind == [i \in Inst |-> i]
=============================================================================
