----------------------------- MODULE MCConsTst -----------------------------
(* Small instances of ConsTst for TLC.                                     *)
EXTENDS ConsTst

MCHandlers == 0..(NumCores - 1)
MCFuncs == {"inEvent", "outEvent"}
=============================================================================
