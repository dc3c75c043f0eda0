------------------------------ MODULE MC_Pmic -------------------------------
(***************************************************************************)
(* Pmic under names of its own, so that DcxCali, which uses the same       *)
(* registers one level up, can stand beside it.                            *)
(***************************************************************************)
EXTENDS Integers, Sequences

CONSTANT MaxMishaps

VARIABLES reg, selected, user, inited, settled, mixed, disturbed, mishaps

P == INSTANCE Pmic

PmicSpec == P!Spec

\* The properties of Pmic, described there.
AckedIsDone == P!AckedIsDone
SettledReading == P!SettledReading
BitsKept == P!BitsKept
=============================================================================
