---------------------------- MODULE MC_AtChannel ----------------------------
(***************************************************************************)
(* Instance of AtChannel for TLC.                                          *)
(***************************************************************************)
EXTENDS AtChannel

CONSTANTS s1, s2

\* Calls on the first slot, the SIM of the second: every command is sent, and
\* the two devices share the buffer.
BothSlots == {<<"dial", s1>>, <<"hang", s1>>, <<"sim", s2>>}
=============================================================================
