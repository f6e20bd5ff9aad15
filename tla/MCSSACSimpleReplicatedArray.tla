------------------ MODULE MCSSACSimpleReplicatedArray ------------------
(* Small instances of SSACSimpleReplicatedArray for TLC.                   *)
EXTENDS SSACSimpleReplicatedArray

\* One worker on each processor; thread t runs on processor t.
MCThread == 0..(NumVP - 1)
MCVPOf == [t \in MCThread |-> t]
=============================================================================
