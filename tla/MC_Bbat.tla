------------------------------ MODULE MC_Bbat -------------------------------
(***************************************************************************)
(* The BBAT tests of the diag port for TLC: Charge and Gpio.  The port     *)
(* serves one request at a time and the two share no state, so they are    *)
(* checked side by side: a behaviour is of one or of the other.            *)
(***************************************************************************)
EXTENDS Charge

\* Below what the bytes can carry; negative; the last that fits one byte and
\* the first that takes two; above what four bytes carry.
EdgeReadings == {-252, -3, 5, 6, 772}

CONSTANTS Pins, Beyond

VARIABLES unit, build, nodes, pin, wire, port, step, asked, reply, slipped, held

G == INSTANCE Gpio WITH present <- nodes, pc <- step, req <- asked, answer <- reply

gvars == <<build, nodes, pin, wire, port, step, asked, reply, slipped, held>>

BbatInit ==
  /\ unit \in {"charge", "gpio"}
  /\ Init /\ G!Init
  /\ unit = "charge" => build = "new" /\ nodes = {}
  /\ unit = "gpio" => present = {}

BbatNext ==
  \/ unit = "charge" /\ Next /\ UNCHANGED gvars
  \/ unit = "gpio" /\ G!Next /\ UNCHANGED vars

BbatSpec == BbatInit /\ [][BbatNext /\ UNCHANGED unit]_<<vars, gvars, unit>>

DrivenIsHeld == G!DrivenIsHeld
ReadIsWire == G!ReadIsWire
=============================================================================
