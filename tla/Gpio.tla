-------------------------------- MODULE Gpio --------------------------------
(***************************************************************************)
(* gpio/gpio.cpp: testGpio, BBAT frame 0x38/0x07, drives a pin or reads it.*)
(* Two builds: with KERNEL_OLD the pin is worked through sysfs by shell    *)
(* commands, whose results are dropped; without it by two ioctls of        *)
(* /dev/autotest0.  A pin reads what is on its wire if its pad is switched *)
(* to gpio and it is an input; the test equipment holds the wire for the   *)
(* time of a request.  The kernel is external: what it does with a pin is  *)
(* taken from how the handler uses it.  Regulators, waits and the formats  *)
(* of commands and paths are left out.                                     *)
(***************************************************************************)
CONSTANTS
  Pins,     \* the rows of the board's table of pads
  Beyond    \* any number past the table

Levels == {"low", "high"}
Nodes == {"pins_debug", "export", "autotest", "gpiochip"}
\* dir 1 drives the pin, 0 reads it, and any other number is let through.
Requests == [dir : {0, 1, 2}, pin : Pins \cup {Beyond}, value : Levels]
NoRequest == [dir |-> 2, pin |-> Beyond, value |-> "low"]

VARIABLES
  build,     \* "old", "new"
  present,   \* the nodes this kernel has
  pin,       \* what the kernel keeps of each pin
  wire,      \* the level outside
  port,      \* the diag port's descriptor is open
  pc, req,   \* the request being served
  answer,
  \* For the properties:
  slipped,   \* a call whose failure the handler does not look at has failed
  held       \* the level last answered as driven

vars == <<build, present, pin, wire, port, pc, req, answer, slipped, held>>
static == <<build, present, req, wire, port, held>>
history == <<slipped, held>>

NotHeld == "not held"
Reset == [gpio |-> FALSE, exported |-> FALSE, out |-> FALSE, level |-> "low"]

GpioTypeOK ==
  /\ build \in {"old", "new"} /\ present \subseteq Nodes
  /\ pin \in [Pins -> [gpio : BOOLEAN, exported : BOOLEAN, out : BOOLEAN, level : Levels]]
  /\ wire \in [Pins -> Levels]
  /\ pc \in {"idle", "pad", "export", "direction", "level", "check", "chip", "drive",
             "read", "close", "reply"}
  /\ req \in Requests
  /\ answer \in {"none", "ok", "fail"} \cup Levels
  /\ {port, slipped} \subseteq BOOLEAN
  /\ held \in [Pins -> Levels \cup {NotHeld}]

Init ==
  /\ build \in {"old", "new"} /\ present \in SUBSET Nodes
  /\ pin = [p \in Pins |-> Reset]
  /\ wire = [p \in Pins |-> "low"]
  /\ port = TRUE /\ pc = "idle" /\ req = NoRequest /\ answer = "none"
  /\ slipped = FALSE /\ held = [p \in Pins |-> NotHeld]

----------------------------------------------------------------------------
Receive(r, w) ==
  /\ pc = "idle" /\ port
  /\ req' = r
  /\ slipped' = FALSE
  /\ IF r.pin = Beyond
     THEN pc' = "reply" /\ answer' = "fail" /\ UNCHANGED <<wire, held>>
     ELSE /\ pc' = "pad" /\ UNCHANGED answer
          /\ wire' = [wire EXCEPT ![r.pin] = w]
          /\ held' = [held EXCEPT ![r.pin] = IF r.dir = 2 THEN @ ELSE NotHeld]
  /\ UNCHANGED <<build, present, pin, port>>

Goto(step) == pc' = step /\ UNCHANGED answer
Finish(a) == pc' = "close" /\ answer' = a
Exit(a) == pc' = "reply" /\ answer' = a   \* goto exit

\* An echo into a sysfs node: done, or failed and not noticed.
Echo(p) ==
  \/ pin' = [pin EXCEPT ![req.pin] = p] /\ UNCHANGED slipped
  \/ UNCHANGED pin /\ slipped' = TRUE

\* The pad is switched to gpio.  A device file that cannot be opened leaves
\* ret at 0, which is an OK (:296); an ioctl that fails does not.
Pad ==
  /\ pc = "pad"
  /\ IF build = "old"
     THEN IF "pins_debug" \in present
          THEN Goto("export") /\ Echo([pin[req.pin] EXCEPT !.gpio = TRUE])
          ELSE Exit("fail") /\ UNCHANGED <<pin, slipped>>
     ELSE \/ Exit("ok") /\ slipped' = TRUE /\ UNCHANGED pin
          \/ Exit("fail") /\ UNCHANGED <<pin, slipped>>
          \/ /\ "autotest" \in present
             /\ Goto("chip")
             /\ pin' = [pin EXCEPT ![req.pin].gpio = TRUE]
             /\ UNCHANGED slipped
  /\ UNCHANGED static

After(step) == IF req.dir = 2 THEN Finish("ok") ELSE Goto(step)

Export ==
  /\ pc = "export"
  /\ IF "export" \in present
     THEN After("direction") /\ Echo([pin[req.pin] EXCEPT !.exported = TRUE])
     ELSE Exit("fail") /\ UNCHANGED <<pin, slipped>>
  /\ UNCHANGED static

\* get_ap_gpio_base: the gpiochip of 256 pins, if there is one to be read.
Chip ==
  /\ pc = "chip"
  /\ \/ "gpiochip" \in present /\ After("drive")
     \/ Exit("fail")
  /\ UNCHANGED <<static, pin, slipped>>

\* Mutation: the direction is only written to read.
DirectionIn ==
  /\ pc = "direction"
  /\ IF ~pin[req.pin].exported THEN Finish("fail") /\ UNCHANGED <<pin, slipped>>
     ELSE IF req.dir = 1 THEN Goto("level") /\ UNCHANGED <<pin, slipped>>
     ELSE Goto("read") /\ Echo([pin[req.pin] EXCEPT !.out = FALSE])
  /\ UNCHANGED static

\* "out" drives the pin low.
Direction ==
  /\ pc = "direction"
  /\ IF ~pin[req.pin].exported THEN Finish("fail") /\ UNCHANGED <<pin, slipped>>
     ELSE IF req.dir = 1
     THEN Goto("level") /\ Echo([pin[req.pin] EXCEPT !.out = TRUE, !.level = "low"])
     ELSE Goto("read") /\ Echo([pin[req.pin] EXCEPT !.out = FALSE])
  /\ UNCHANGED static

\* The kernel takes no level for an input.  There may be no node to write to.
Level ==
  /\ pc = "level"
  /\ \/ Finish("fail") /\ UNCHANGED <<pin, slipped>>
     \/ /\ Goto("check")
        /\ IF pin[req.pin].out
           THEN Echo([pin[req.pin] EXCEPT !.level = req.value])
           ELSE UNCHANGED <<pin, slipped>>
  /\ UNCHANGED static

\* The level is read back, and only that it could be read is looked at.
Check ==
  /\ pc = "check"
  /\ \E a \in {"ok", "fail"} : Finish(a)
  /\ UNCHANGED <<static, pin, slipped>>

Seen(p) ==
  IF p.out THEN {p.level} ELSE IF p.gpio THEN {wire[req.pin]} ELSE Levels

Read ==
  /\ pc = "read"
  /\ \E a \in Seen(pin[req.pin]) \cup {"fail"} : Finish(a)
  /\ UNCHANGED <<static, pin, slipped>>

\* Mutation: the level is looked for in the bit of the direction.
DriveAnswersDirection ==
  /\ pc = "drive"
  /\ LET p == [pin[req.pin] EXCEPT !.out = req.dir = 1,
                                   !.level = IF req.dir = 1 THEN req.value ELSE @]
     IN \/ Finish("fail") /\ UNCHANGED pin
        \/ /\ Finish(IF req.dir = 1 THEN "ok" ELSE "low")
           /\ pin' = [pin EXCEPT ![req.pin] = p]
  /\ UNCHANGED <<static, slipped>>

\* ioctl AT_GPIO.
Drive ==
  /\ pc = "drive"
  /\ LET p == [pin[req.pin] EXCEPT !.out = req.dir = 1,
                                   !.level = IF req.dir = 1 THEN req.value ELSE @]
     IN \/ Finish("fail") /\ UNCHANGED pin
        \/ /\ \E a \in IF req.dir = 1 THEN {"ok"} ELSE Seen(p) : Finish(a)
           /\ pin' = [pin EXCEPT ![req.pin] = p]
  /\ UNCHANGED <<static, slipped>>

\* The old build closes a descriptor that was never set: any of the process,
\* or none (:344).
Close ==
  /\ pc = "close" /\ Goto("reply")
  /\ \/ UNCHANGED port
     \/ build = "old" /\ port' = FALSE
  /\ UNCHANGED <<build, present, req, wire, pin, history>>

Reply ==
  /\ pc = "reply"
  /\ pc' = "idle" /\ req' = NoRequest /\ answer' = "none"
  /\ held' = IF answer = "ok" /\ req.dir = 1 /\ port /\ ~slipped
             THEN [held EXCEPT ![req.pin] = req.value] ELSE held
  /\ UNCHANGED <<build, present, pin, wire, port, slipped>>

\* The process dies and comes back with a port; the kernel keeps its pins.
Die ==
  /\ pc' = "idle" /\ req' = NoRequest /\ answer' = "none" /\ port' = TRUE
  /\ pc # "idle" \/ ~port
  /\ UNCHANGED <<build, present, pin, wire, history>>

PowerCycle ==
  /\ pc' = "idle" /\ req' = NoRequest /\ answer' = "none" /\ port' = TRUE
  /\ pin' = [p \in Pins |-> Reset]
  /\ held' = [p \in Pins |-> NotHeld]
  /\ UNCHANGED <<build, present, wire, slipped>>

Next ==
  \/ \E r \in Requests, w \in Levels : Receive(r, w)
  \/ Pad \/ Export \/ Chip \/ Direction \/ Level \/ Check \/ Read \/ Drive
  \/ Close \/ Reply
  \/ Die \/ PowerCycle

Spec == Init /\ [][Next]_vars
----------------------------------------------------------------------------
(* Properties.                                                             *)

\* A pin that was answered as driven is a gpio, an output and at the level
\* asked for, in either build, through requests for other pins, requests of a
\* direction that is neither, and ends of the process, until it is asked for
\* again or the power goes.  This is what an OK is worth if no echo failed
\* and the device file could be opened: neither is looked at.
DrivenIsHeld ==
  \A p \in Pins : held[p] # NotHeld =>
    pin[p].gpio /\ pin[p].out /\ pin[p].level = held[p]

\* A level that is answered is the level on the pin's wire, whatever the pin
\* was before, under the same conditions.
ReadIsWire ==
  answer \in Levels /\ ~slipped => answer = wire[req.pin]
=============================================================================
