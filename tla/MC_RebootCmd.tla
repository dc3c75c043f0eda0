---------------------------- MODULE MC_RebootCmd ----------------------------
(***************************************************************************)
(* Instance of RebootCmd for TLC.                                          *)
(***************************************************************************)
EXTENDS RebootCmd

\* Two different reboots; init treats them alike.
TwoTargets == {"bootloader", "fastboot"}
=============================================================================
