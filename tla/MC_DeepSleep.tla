---------------------------- MODULE MC_DeepSleep -----------------------------
(***************************************************************************)
(* DeepSleep under names of its own, so that RebootCmd, the other module   *)
(* about threads that a handler leaves behind, can stand beside it: the    *)
(* cable is the one usb of DeepSleep.                                      *)
(***************************************************************************)
EXTENDS Integers, FiniteSets

CONSTANTS Threads, Polls

VARIABLES handler, fd, rewound, thread, polls, current, refused, check, asleep, lost, cable

S == INSTANCE DeepSleep WITH usb <- cable

SleepSpec == S!Spec
FairSleep == S!FairSpec

\* The properties of DeepSleep, described there.
LossHasCause == S!LossHasCause
LoopSuspends == S!LoopSuspends
NoRefusedSuspend == S!NoRefusedSuspend
=============================================================================
