------------------------ MODULE MCMemMgrPrimSimple ------------------------
(* Small instances of MemMgrPrimSimple for TLC.                            *)
EXTENDS MemMgrPrimSimple
=============================================================================
