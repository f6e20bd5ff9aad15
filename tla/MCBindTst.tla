----------------------------- MODULE MCBindTst -----------------------------
(* Small instances of BindTst for TLC.                                     *)
EXTENDS BindTst

\* Both ids come from the master's partition.
MCOwner == [d \in Id |-> 0]
MCInst == {"null", "s0", "s1"}
MCKind == [i \in MCInst |-> IF i = "null" THEN "null" ELSE "shared"]
=============================================================================
