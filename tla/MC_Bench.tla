------------------------------ MODULE MC_Bench ------------------------------
(***************************************************************************)
(* The instance of Bench for TLC.                                          *)
(***************************************************************************)
EXTENDS Bench, TLC

\* The defaults of both, and a time of two digits with a difference that the
\* two speeds exceed.
SomeRequests == {[time |-> <<>>, diff |-> 0], [time |-> <<2, 5>>, diff |-> 4]}

\* The ports serve the command alike.
Symmetric == Permutations(Ports)
=============================================================================
