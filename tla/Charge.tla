------------------------------- MODULE Charge -------------------------------
(***************************************************************************)
(* charge/charge.c: the charging and battery tests of the diag port.       *)
(*   eng_diag_set_charge_current      0x62/0/0x22                          *)
(*   eng_diag_control_charge          0x38/0x12   connect, disconnect, query *)
(*   calibration_diag_control_charge  0x62/0/0x10 connect, or disconnect   *)
(*   eng_diag_read_ntc_temperature    0x38/0x0c                            *)
(*   eng_diag_read_charge_current, _fgu_voltage, _aux_voltage              *)
(*   eng_diag_get_battery_capacity    0x62/0/0x30                          *)
(* The settings live in sysfs nodes of the charger driver.  Each has two   *)
(* paths, for two kernels, and a handler takes the one it can open; a node *)
(* neither path of which opens is passed over without an error.  The port  *)
(* serves one request at a time, and may die with its process between any  *)
(* two accesses.  Frames, lengths and units are left out.                  *)
(***************************************************************************)
EXTENDS Integers

CONSTANTS
  Currents,   \* the currents that are asked for, of at most four digits (:542)
  Factory,    \* the limits the driver starts with
  Readings,   \* what one read of the battery's gauge can give
  Samples     \* reads that make one answer: 16 (:296), fewer for TLC

Limits == {"input_current_limit", "constant_charge_current"}
\* A kernel with force_input_cur takes the charge current by that path.
Nodes == Limits \cup {"force_input_cur", "stop_charge", "status", "gauge"}

ASSUME ChargeAssumption ==
  /\ Currents \subseteq 0 .. 9999 /\ Factory \in Nat
  /\ Readings \subseteq Int
  /\ Samples \in Nat \ {0}

----------------------------------------------------------------------------
(* Requests.                                                               *)

Switches == [op : {"control"}, arg : {"connect", "disconnect"}]
              \cup [op : {"calibration"}, arg : {"connect", "other"}]
Queries == [op : {"control"}, arg : {"query", "other"}]
Sets == [op : {"set_current"}, current : Currents]
Reads == [op : {"ntc"}, arg : {"ntc", "other"}] \cup [op : {"reading"}, arg : {"battery", "aux"}]
Capacities == [op : {"capacity"}, arg : {"battery"}]
Requests == Switches \cup Queries \cup Sets \cup Reads \cup Capacities
NoRequest == [op |-> "none", arg |-> "none"]

\* What a switch writes to stop_charge: the calibration handler disconnects
\* for every command but the first (:430-444).
Stop(r) == r.arg # "connect"

----------------------------------------------------------------------------
(* The temperature in an answer: four bytes the tool adds up, less 250     *)
(* (:655-658).                                                             *)

Bias == 250

\* Mutation: 256 is taken off for a byte of 255.
NtcBytesBy256(t) ==
  LET left(i) == t + Bias - 256 * (i - 1)
  IN [i \in 1 .. 4 |-> CASE t + Bias < 0 -> 0
                         [] left(i) > 255 -> 255
                         [] i > 1 /\ left(i) <= 0 -> 0
                         [] OTHER -> left(i)]

\* left(i) is what remains at the i-th byte; the loop ends at a byte that
\* takes all of it.  The bytes after that one are not written: they are what
\* the host hands over in rsp, taken to be cleared.
NtcBytes(t) ==
  LET left(i) == t + Bias - 255 * (i - 1)
  IN [i \in 1 .. 4 |-> CASE t + Bias < 0 -> 0
                         [] left(i) > 255 -> 255
                         [] i > 1 /\ left(i) <= 0 -> 0
                         [] OTHER -> left(i)]

----------------------------------------------------------------------------
VARIABLES
  present,    \* the nodes this kernel has
  setting,    \* what the three writable nodes hold
  pc,         \* the step of the request being served
  req,        \* the request being served
  sum, count, \* the reads so far, added up and counted
  answer,     \* status of the answer
  value,      \* what the answer carries
  \* For the properties:
  seen,       \* the readings of this request
  missed,     \* one of its reads failed, and counts as 0
  lastset,    \* the current of the last set_current if it was answered 0
  switched    \* the last switch, if it was answered 0

vars == <<present, setting, pc, req, sum, count, answer, value, seen, missed, lastset, switched>>
reading == <<sum, count, seen, missed>>
history == <<lastset, switched>>

NoValue == <<>>
NotAcked == -1
Steps == {"idle", "switch", "query", "limit", "current", "sample", "capacity", "reply"}

TypeOK ==
  /\ present \subseteq Nodes
  /\ setting \in [limits : [Limits -> Currents \cup {Factory}], stop : BOOLEAN]
  /\ pc \in Steps
  /\ req \in Requests \cup {NoRequest}
  /\ pc = "idle" <=> req = NoRequest
  /\ sum \in Int /\ count \in 0 .. Samples
  /\ answer \in {"none", "ok", "refused", "unchanged", "unsupported"}
  /\ pc = "reply" <=> answer # "none"
  /\ value # NoValue => answer = "ok"
  /\ seen \subseteq Int /\ missed \in BOOLEAN
  /\ lastset \in Currents \cup {Factory, NotAcked}
  /\ switched \in {"on", "off", "unknown"}

Init ==
  /\ present \in SUBSET Nodes
  /\ setting = [limits |-> [n \in Limits |-> Factory], stop |-> FALSE]
  /\ pc = "idle" /\ req = NoRequest
  /\ sum = 0 /\ count = 0 /\ seen = {} /\ missed = FALSE
  /\ answer = "none" /\ value = NoValue
  /\ lastset = Factory /\ switched = "unknown"

----------------------------------------------------------------------------
First(r) ==
  CASE r \in Switches -> "switch"
    [] r = [op |-> "control", arg |-> "query"] -> "query"
    [] r \in Sets -> "limit"
    [] r \in Reads /\ r.arg # "other" -> "sample"
    [] r \in Capacities -> "capacity"
    [] OTHER -> "reply"

\* A control command the handler does not know is sent back as it came; the
\* other tests of 0x38/0x0c are not this handler's (:634).
Receive(r) ==
  /\ pc = "idle"
  /\ req' = r /\ pc' = First(r)
  /\ answer' = IF First(r) # "reply" THEN "none"
               ELSE IF r.op = "ntc" THEN "unsupported" ELSE "unchanged"
  /\ lastset' = IF r \in Sets THEN NotAcked ELSE lastset
  /\ switched' = IF r \in Switches THEN "unknown" ELSE switched
  /\ sum' = 0 /\ count' = 0 /\ seen' = {} /\ missed' = FALSE
  /\ UNCHANGED <<present, setting, value>>

Answer(status, v) == pc' = "reply" /\ answer' = status /\ value' = v

\* connect_vbus_charger, disconnect_vbus_charger, which answer a success if
\* there is nothing to write to.
Switch ==
  /\ pc = "switch"
  /\ Answer("ok", NoValue)
  /\ setting' = IF "stop_charge" \in present THEN [setting EXCEPT !.stop = Stop(req)] ELSE setting
  /\ switched' = IF Stop(req) THEN "off" ELSE "on"
  /\ UNCHANGED <<present, req, reading, lastset>>

\* Mutation: a switch that cannot be written is answered like one that can.
SwitchFailUnseen ==
  /\ pc = "switch" /\ "stop_charge" \in present
  /\ Answer("ok", NoValue)
  /\ switched' = IF Stop(req) THEN "off" ELSE "on"
  /\ UNCHANGED <<present, setting, req, reading, lastset>>

SwitchFail ==
  /\ pc = "switch" /\ "stop_charge" \in present
  /\ Answer("refused", NoValue)
  /\ UNCHANGED <<present, setting, req, reading, history>>

\* A query's current and the auxiliary voltage go into 16 bits (:38, :49); the
\* others go into 32, of which a reading is one.
Short(x) == IF req.op = "control" \/ req.arg = "aux" THEN x % 65536 ELSE x

\* One read, carried as the answer; a read that fails gives 0 and the answer
\* is none the worse for it (:353, :712).
AnswerRead(given) ==
  \/ \E x \in given : Answer("ok", <<Short(x)>>) /\ seen' = seen \cup {x} /\ UNCHANGED missed
  \/ Answer("ok", <<0>>) /\ missed' = TRUE /\ UNCHANGED seen

\* power_supply_battery_status: the battery charges if the cable is in and
\* charging is not stopped.  A file that cannot be opened reads as charging,
\* one that cannot be read does not.  A current goes with the first answer:
\* what is read back of the limit that ap_set_charge_current writes, or of one
\* the kernel keeps beside it if it took that by the other path.
Offered ==
  IF "force_input_cur" \in present THEN Readings
  ELSE {setting.limits["constant_charge_current"] \div 1000}

Query ==
  /\ pc = "query"
  /\ \E cable, readable \in BOOLEAN :
       IF "status" \in present /\ ~(cable /\ readable /\ ~setting.stop)
       THEN Answer("refused", NoValue) /\ UNCHANGED <<seen, missed>>
       ELSE AnswerRead(Offered)
  /\ UNCHANGED <<present, setting, req, sum, count, history>>

Capacity ==
  /\ pc = "capacity"
  /\ \/ AnswerRead(Readings)
     \/ Answer("refused", NoValue) /\ UNCHANGED <<seen, missed>>
  /\ UNCHANGED <<present, setting, req, sum, count, history>>

----------------------------------------------------------------------------
(* ap_set_charge_current.                                                  *)

WriteLimit(n) ==
  setting' = IF n \in present THEN [setting EXCEPT !.limits[n] = req.current] ELSE setting

SetLimit ==
  /\ pc = "limit"
  /\ WriteLimit("input_current_limit")
  /\ pc' = "current"
  /\ UNCHANGED <<present, req, reading, answer, value, history>>

SetCurrent ==
  /\ pc = "current"
  /\ WriteLimit("constant_charge_current")
  /\ Answer("ok", NoValue)
  /\ lastset' = req.current
  /\ UNCHANGED <<present, req, reading, switched>>

\* Mutation: the write of the charge current is not looked at.
SetFailUnseen(n) ==
  /\ n \in present
  /\ pc = IF n = "input_current_limit" THEN "limit" ELSE "current"
  /\ IF pc = "current" THEN Answer("ok", NoValue) /\ lastset' = req.current
     ELSE Answer("refused", NoValue) /\ UNCHANGED lastset
  /\ UNCHANGED <<present, setting, req, reading, switched>>

\* The input limit, once written, stays when the charge current cannot be.
SetFail(n) ==
  /\ n \in present
  /\ pc = IF n = "input_current_limit" THEN "limit" ELSE "current"
  /\ Answer("refused", NoValue)
  /\ UNCHANGED <<present, setting, req, reading, history>>

----------------------------------------------------------------------------
(* ap_read_ntc_temperature, ap_get_charge_current, ap_get_fgu_voltage,     *)
(* ap_get_aux_voltage: the mean of Samples reads.                          *)

Sample ==
  /\ pc = "sample" /\ count < Samples /\ "gauge" \in present
  /\ \E x \in Readings : sum' = sum + x /\ seen' = seen \cup {x}
  /\ count' = count + 1
  /\ UNCHANGED <<present, setting, pc, req, missed, answer, value, history>>

SampleFail ==
  /\ pc = "sample" /\ count < Samples
  /\ count' = count + 1 /\ missed' = TRUE
  /\ UNCHANGED <<present, setting, pc, req, sum, seen, answer, value, history>>

\* The shift of a negative sum rounds down.
Mean ==
  /\ pc = "sample" /\ count = Samples
  /\ LET mean == sum \div Samples
     IN Answer("ok", IF req.op = "ntc" THEN NtcBytes(mean) ELSE <<Short(mean)>>)
  /\ UNCHANGED <<present, setting, req, reading, history>>

----------------------------------------------------------------------------
Gone == pc' = "idle" /\ req' = NoRequest /\ answer' = "none" /\ value' = NoValue

Reply ==
  /\ pc = "reply" /\ Gone
  /\ UNCHANGED <<present, setting, reading, history>>

\* The process ends; what it has written stays in the driver.
Die ==
  /\ pc # "idle" /\ Gone
  /\ UNCHANGED <<present, setting, reading, history>>

PowerCycle ==
  /\ Gone
  /\ setting' = [limits |-> [n \in Limits |-> Factory], stop |-> FALSE]
  /\ lastset' = Factory /\ switched' = "unknown"
  /\ UNCHANGED <<present, reading>>

Handle ==
  \/ Switch \/ SwitchFail \/ Query \/ Capacity
  \/ SetLimit \/ SetCurrent \/ \E n \in Limits : SetFail(n)
  \/ Sample \/ SampleFail \/ Mean
  \/ Reply

Next ==
  \/ \E r \in Requests : Receive(r)
  \/ Handle
  \/ Die \/ PowerCycle

Spec == Init /\ [][Next]_vars
----------------------------------------------------------------------------
(* Properties.                                                             *)

\* The two limits are written one after the other, and the first is not taken
\* back: they hold the current last asked for, both, unless that request was
\* refused or died, however the requests before it ended.
LimitsAgree ==
  lastset # NotAcked => \A n \in Limits \cap present : setting.limits[n] = lastset

\* Two handlers switch the charger by one node and a third reads what comes
\* of it: after a disconnect that was answered as done, and until the next
\* switch arrives, no query is answered that the battery charges, by a kernel
\* that has the nodes.
NotChargingOnceOff ==
  {"stop_charge", "status"} \subseteq present /\ switched = "off" =>
    /\ setting.stop
    /\ pc = "reply" /\ req = [op |-> "control", arg |-> "query"] => answer = "refused"

\* The tool's formula: "szRecv[0]+szRecv[1]+szRecv[2]+szRecv[3]-250" (:656).
ToolReads(v) == IF req.op = "ntc" THEN v[1] + v[2] + v[3] + v[4] - Bias ELSE v[1]

\* What an answer can carry of a reading: four bytes of a temperature, two of
\* a query's current and of the auxiliary voltage.
Carries(x) ==
  CASE req.op = "ntc" -> IF x < -Bias THEN -Bias ELSE IF x > 770 THEN 770 ELSE x
    [] OTHER -> Short(x)

\* A failed read counts as a reading of zero.
Taken == IF missed THEN seen \cup {0} ELSE seen

\* What the tool makes of the bytes is what an answer can carry of a number
\* that lies among the readings taken for this very answer, through the mean's
\* rounding of negative sums, the cut to two bytes and the split into four.
AnswerIsMeasured ==
  value # NoValue =>
    \E low, high \in Taken : \E m \in low .. high : ToolReads(value) = Carries(m)
=============================================================================
