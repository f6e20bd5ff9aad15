----------------------------- MODULE MCMsgMgr -----------------------------
(* Small instances of MsgMgr for TLC.                                      *)
EXTENDS MsgMgr, TLC

\* The messages and the stores are interchangeable (safety runs only).
Symmetry == Permutations(AppMsg) \cup Permutations(Store)
=============================================================================
