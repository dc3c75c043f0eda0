------------------------------ MODULE DcxCali -------------------------------
(***************************************************************************)
(* Calibration of the crystal oscillator over diag 0x62/0,                 *)
(* libdcxcali/dcx_cali.c: dcx_set_afc_mode, dcx_set_afc_cdac and           *)
(* dcx_amp_cali with hp_amp_cali and lp_amp_cali.  Each write to one of    *)
(* the registers kept here is a step, with the reads that lead to it:      *)
(* between any two the process may die, which keeps the registers of the   *)
(* PMIC and loses current_mode, hp_cbank and hp_amp, or the power may be   *)
(* cut, which loses all of them.                                           *)
(*                                                                         *)
(* The amplitude searches look for a setting of TSX_CTRL5 that the PMIC's  *)
(* comparator accepts (OK_FLAG): the coarse field from the top down and    *)
(* one up again, then, at another reference level, the fine field.  The    *)
(* comparator is external: at a level it accepts the settings up to some   *)
(* limit, none at all if the limit is -1.  The bits of TSX_CTRL5 above the *)
(* two fields are left out.                                                *)
(***************************************************************************)
EXTENDS Integers

CONSTANTS
  Coarse,  \* settings of the coarse field; bits 7:5 in hp_amp_cali
  Fine,    \* settings of the fine field; bits 4:0 in hp_amp_cali
  Cdacs    \* what the tool sets a capacitor bank's register to

\* What a register holds.
Words == 0 .. 65535

ASSUME DcxCaliAssumption ==
  /\ Coarse \in Nat \ {0, 1}
  /\ Fine \in Nat \ {0}
  /\ Cdacs \subseteq Words

Amps == [c : 0 .. Coarse - 1, f : 0 .. Fine - 1]
Limits == -1 .. Coarse * Fine - 1
AllOnes == [c |-> Coarse - 1, f |-> Fine - 1]
Reset == [c |-> 0, f |-> 0]

\* BIT_DCXO_CORE_CBANK_HP: the bits of its register that are the bank.
Bank(cdac) == cdac % 256

Accepted(amp, limit) == amp.c * Fine + amp.f <= limit

VARIABLES
  ctrl5, ctrl10, ctrl11,     \* TSX_CTRL5 (amplitude), 10 and 11 (banks)
  lpcal,                     \* BIT_DCXO_LP_CAL_EN of TSX_CTRL14
  calen,                     \* BIT_DCXO_CORE_AML_CAL_EN of TSX_CTRL3
  current_mode, hp_cbank, hp_amp,
  cbank_bak,                 \* of lp_amp_cali
  pc,                        \* the step the handler is at
  limit,                     \* of the comparator, at the present level
  hpset,                     \* what the high power mode was set to
  died                       \* the process died since power-on

vars == <<ctrl5, ctrl10, ctrl11, lpcal, calen, current_mode, hp_cbank, hp_amp,
          cbank_bak, pc, limit, hpset, died>>
statics == <<current_mode, hp_cbank, hp_amp>>
history == <<hpset, died>>

Steps == {"idle", "low_bank", "low_enable", "high_disable", "high_bank", "high_amp",
          "lp_bank", "init", "init_fine", "init_coarse", "level", "coarse",
          "fine_level", "fine_top", "fine", "lp_restore"}

TypeOK ==
  /\ {ctrl5, hp_amp, hpset.amp} \subseteq Amps
  /\ {ctrl10, ctrl11, cbank_bak, hpset.cbank} \subseteq Words
  /\ hp_cbank \in 0 .. 255
  /\ {lpcal, calen, died} \subseteq BOOLEAN
  /\ current_mode \in {0, 1}
  /\ pc \in Steps
  /\ limit \in Limits

Init ==
  /\ ctrl5 = Reset /\ ctrl10 = 0 /\ ctrl11 = 0 /\ lpcal = FALSE /\ calen = FALSE
  /\ current_mode = 1 /\ hp_cbank = 0 /\ hp_amp = Reset
  /\ cbank_bak = 0
  /\ pc = "idle" /\ limit = -1
  /\ hpset = [cbank |-> 0, amp |-> Reset]
  /\ died = FALSE

----------------------------------------------------------------------------
(* dcx_set_afc_cdac: the bank of the mode the handler thinks it is in.     *)

SetCdac(cdac) ==
  /\ pc = "idle"
  /\ IF current_mode = 1
     THEN /\ ctrl10' = cdac
          /\ hpset' = [hpset EXCEPT !.cbank = cdac]
          /\ UNCHANGED ctrl11
     ELSE ctrl11' = cdac /\ UNCHANGED <<ctrl10, hpset>>
  /\ UNCHANGED <<ctrl5, lpcal, calen, statics, cbank_bak, pc, limit, died>>

----------------------------------------------------------------------------
(* dcx_set_afc_mode.  Any mode but 0 is high power; a mode above 1 is      *)
(* switched to as well, and answered with status 1.                        *)

SetMode(mode) ==
  /\ pc = "idle"
  /\ IF mode = 0
     THEN IF current_mode = 1
          THEN /\ hp_cbank' = Bank(ctrl10)
               /\ hp_amp' = ctrl5
               /\ pc' = "low_bank"
               /\ UNCHANGED current_mode
          ELSE UNCHANGED <<statics, pc>>
     ELSE IF current_mode = 0
          THEN pc' = "high_disable" /\ UNCHANGED statics
          ELSE UNCHANGED <<statics, pc>>
  /\ UNCHANGED <<ctrl5, ctrl10, ctrl11, lpcal, calen, cbank_bak, limit, history>>

LowBank ==
  /\ pc = "low_bank"
  /\ ctrl10' = 0
  /\ pc' = "low_enable"
  /\ UNCHANGED <<ctrl5, ctrl11, lpcal, calen, statics, cbank_bak, limit, history>>

LowEnable ==
  /\ pc = "low_enable"
  /\ lpcal' = TRUE
  /\ current_mode' = 0
  /\ pc' = "idle"
  /\ UNCHANGED <<ctrl5, ctrl10, ctrl11, calen, hp_cbank, hp_amp, cbank_bak, limit, history>>

HighDisable ==
  /\ pc = "high_disable"
  /\ lpcal' = FALSE
  /\ pc' = "high_bank"
  /\ UNCHANGED <<ctrl5, ctrl10, ctrl11, calen, statics, cbank_bak, limit, history>>

HighBank ==
  /\ pc = "high_bank"
  /\ ctrl10' = hp_cbank
  /\ pc' = "high_amp"
  /\ UNCHANGED <<ctrl5, ctrl11, lpcal, calen, statics, cbank_bak, limit, history>>

\* Mutation: the amplitude of the low power mode is left in the register.
HighAmpKept ==
  /\ pc = "high_amp"
  /\ current_mode' = 1
  /\ pc' = "idle"
  /\ UNCHANGED <<ctrl5, ctrl10, ctrl11, lpcal, calen, hp_cbank, hp_amp, cbank_bak, limit,
                 history>>

HighAmp ==
  /\ pc = "high_amp"
  /\ ctrl5' = hp_amp
  /\ current_mode' = 1
  /\ pc' = "idle"
  /\ UNCHANGED <<ctrl10, ctrl11, lpcal, calen, hp_cbank, hp_amp, cbank_bak, limit, history>>

----------------------------------------------------------------------------
(* dcx_amp_cali.                                                           *)

AmpCali ==
  /\ pc = "idle"
  /\ IF current_mode = 1
     THEN pc' = "init" /\ UNCHANGED cbank_bak
     ELSE pc' = "lp_bank" /\ cbank_bak' = ctrl10
  /\ UNCHANGED <<ctrl5, ctrl10, ctrl11, lpcal, calen, statics, limit, history>>

LpBank ==
  /\ pc = "lp_bank"
  /\ ctrl10' = 0
  /\ pc' = "init"
  /\ UNCHANGED <<ctrl5, ctrl11, lpcal, calen, statics, cbank_bak, limit, history>>

\* hp_dcxo_amp_init, lp_dcxo_amp_init: the circuit is enabled, both fields
\* go to the top, and the level of the coarse phase is or'ed into what the last
\* calibration left.
AmpInit ==
  /\ pc = "init"
  /\ calen' = TRUE
  /\ pc' = "init_fine"
  /\ UNCHANGED <<ctrl5, ctrl10, ctrl11, lpcal, statics, cbank_bak, limit, history>>

\* So it is, once more, in front of the fine phase.
TopFine ==
  /\ pc \in {"init_fine", "fine_top"}
  /\ ctrl5' = [ctrl5 EXCEPT !.f = Fine - 1]
  /\ pc' = IF pc = "fine_top" THEN "fine" ELSE "init_coarse"
  /\ UNCHANGED <<ctrl10, ctrl11, lpcal, calen, statics, cbank_bak, limit, history>>

TopCoarse ==
  /\ pc = "init_coarse"
  /\ ctrl5' = [ctrl5 EXCEPT !.c = Coarse - 1]
  /\ pc' = "level"
  /\ UNCHANGED <<ctrl10, ctrl11, lpcal, calen, statics, cbank_bak, limit, history>>

Level ==
  /\ pc \in {"level", "fine_level"}
  /\ limit' \in Limits
  /\ pc' = IF pc = "level" THEN "coarse" ELSE "fine_top"
  /\ UNCHANGED <<ctrl5, ctrl10, ctrl11, lpcal, calen, statics, cbank_bak, history>>

CoarseDown ==
  /\ pc = "coarse"
  /\ ~Accepted(ctrl5, limit) /\ ctrl5.c # 0
  /\ ctrl5' = [ctrl5 EXCEPT !.c = @ - 1]
  /\ UNCHANGED <<ctrl10, ctrl11, lpcal, calen, statics, cbank_bak, pc, limit, history>>

\* Mutation: the field is not moved up again before the fine phase.
AboveStay(c) == c

\* One up from the setting accepted; 8 << 5 loses its bit in the mask of
\* BIT_DCXO_CORE_AML_CAL_CTRL_HP.  lp_amp_cali says "val = + 1" (:154).
Above(c) ==
  CASE current_mode = 0 -> 1 [] c = Coarse - 1 -> 0 [] OTHER -> c + 1

\* At the bottom the field stays 0, accepted or not.
CoarseEnd ==
  /\ pc = "coarse"
  /\ Accepted(ctrl5, limit) \/ ctrl5.c = 0
  /\ ctrl5' = IF Accepted(ctrl5, limit) /\ ctrl5.c # 0
              THEN [ctrl5 EXCEPT !.c = Above(@)] ELSE ctrl5
  /\ pc' = "fine_level"
  /\ UNCHANGED <<ctrl10, ctrl11, lpcal, calen, statics, cbank_bak, limit, history>>

\* Mutation: the lowest setting is not tried.
FineDownToOne ==
  /\ pc = "fine"
  /\ ~Accepted(ctrl5, limit) /\ ctrl5.f > 1
  /\ ctrl5' = [ctrl5 EXCEPT !.f = @ - 1]
  /\ UNCHANGED <<ctrl10, ctrl11, lpcal, calen, statics, cbank_bak, pc, limit, history>>

\* 0 - 1, or'ed in, sets every bit of the register: the search goes on from
\* the top of the whole range.
FineDown ==
  /\ pc = "fine"
  /\ ~Accepted(ctrl5, limit)
  /\ ctrl5' = IF ctrl5.f = 0 THEN AllOnes ELSE [ctrl5 EXCEPT !.f = @ - 1]
  /\ UNCHANGED <<ctrl10, ctrl11, lpcal, calen, statics, cbank_bak, pc, limit, history>>

\* Mutation: the search leaves the circuit enabled.
FineEndEnabled ==
  /\ pc = "fine"
  /\ Accepted(ctrl5, limit)
  /\ limit' = -1
  /\ IF current_mode = 1
     THEN /\ hpset' = [hpset EXCEPT !.amp = ctrl5]
          /\ pc' = "idle"
     ELSE pc' = "lp_restore" /\ UNCHANGED hpset
  /\ UNCHANGED <<ctrl5, ctrl10, ctrl11, lpcal, calen, statics, cbank_bak, died>>

FineEnd ==
  /\ pc = "fine"
  /\ Accepted(ctrl5, limit)
  /\ calen' = FALSE
  /\ limit' = -1
  /\ IF current_mode = 1
     THEN /\ hpset' = [hpset EXCEPT !.amp = ctrl5]
          /\ pc' = "idle"
     ELSE pc' = "lp_restore" /\ UNCHANGED hpset
  /\ UNCHANGED <<ctrl5, ctrl10, ctrl11, lpcal, statics, cbank_bak, died>>

LpRestore ==
  /\ pc = "lp_restore"
  /\ ctrl10' = cbank_bak
  /\ pc' = "idle"
  /\ UNCHANGED <<ctrl5, ctrl11, lpcal, calen, statics, cbank_bak, limit, history>>

----------------------------------------------------------------------------
\* The process dies and is started again; the PMIC does not notice.
Die ==
  /\ current_mode' = 1 /\ hp_cbank' = 0 /\ hp_amp' = Reset
  /\ cbank_bak' = 0 /\ pc' = "idle" /\ limit' = -1
  /\ died' = TRUE
  /\ UNCHANGED <<ctrl5, ctrl10, ctrl11, lpcal, calen, hpset>>

PowerCycle ==
  /\ ctrl5' = Reset /\ ctrl10' = 0 /\ ctrl11' = 0 /\ lpcal' = FALSE /\ calen' = FALSE
  /\ current_mode' = 1 /\ hp_cbank' = 0 /\ hp_amp' = Reset
  /\ cbank_bak' = 0 /\ pc' = "idle" /\ limit' = -1
  /\ hpset' = [cbank |-> 0, amp |-> Reset]
  /\ died' = FALSE

Handle ==
  \/ LowBank \/ LowEnable \/ HighDisable \/ HighBank \/ HighAmp
  \/ LpBank \/ AmpInit \/ TopFine \/ TopCoarse \/ Level
  \/ CoarseDown \/ CoarseEnd \/ FineDown \/ FineEnd \/ LpRestore

Next ==
  \/ \E cdac \in Cdacs : SetCdac(cdac)
  \/ \E mode \in {0, 1, 2} : SetMode(mode)
  \/ AmpCali
  \/ Handle
  \/ Die
  \/ PowerCycle

Spec == Init /\ [][Next]_vars

\* The handler runs on; it waits for nothing but its own short sleeps.
FairSpec == Spec /\ WF_vars(Handle)
----------------------------------------------------------------------------
(* Properties.                                                             *)

\* Through any sequence of mode switches and of calibrations in either mode,
\* the high power mode is left with the bank and the amplitude it was last
\* set to; unless the process has died, for then it takes the registers of
\* whatever mode it died in for those of the high power mode.  Of the bank's
\* register it is the bank: the bits above it do not outlast a switch.
HighPowerKept ==
  pc = "idle" /\ current_mode = 1 /\ ~died =>
    /\ Bank(ctrl10) = Bank(hpset.cbank)
    /\ ctrl5 = hpset.amp
    /\ ~lpcal

\* The calibration circuit is off, and the high power bank unused in low
\* power mode, whenever a handler has answered.
CircuitAtRest ==
  pc = "idle" /\ ~died => ~calen /\ (current_mode = 0 => lpcal /\ ctrl10 = 0)

\* The coarse field ends one above the highest setting accepted, and at the
\* bottom where none is above it or none but the lowest is accepted; the fine
\* field ends at the highest one accepted.
AtTop(c) == [c |-> c, f |-> Fine - 1]
Highest(c) == Accepted(AtTop(c), limit) /\ ~Accepted(AtTop(c + 1), limit)
SearchResult ==
  /\ CoarseEnd /\ current_mode = 1 =>
       /\ \A c \in 1 .. Coarse - 2 : Highest(c) => ctrl5'.c = c + 1
       /\ Accepted(AtTop(Coarse - 1), limit) \/ ~Accepted(AtTop(1), limit) => ctrl5'.c = 0
  /\ FineEnd =>
       /\ Accepted(ctrl5', limit)
       /\ \A f \in ctrl5'.f + 1 .. Fine - 1 : ~Accepted([ctrl5' EXCEPT !.f = f], limit)
SearchFindsBest == [][SearchResult]_vars

\* A calibration ends if the comparator accepts something in the coarse range
\* the fine phase searches, or in the topmost, where it goes on from there.
CalibrationEnds ==
  pc = "fine" /\ (\E c \in {ctrl5.c, Coarse - 1} : Accepted([c |-> c, f |-> 0], limit))
    ~> pc = "idle"
=============================================================================
