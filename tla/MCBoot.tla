------------------------------- MODULE MCBoot -------------------------------
(* Small instances of Boot for TLC.                                        *)
EXTENDS Boot
=============================================================================
