-------------------------------- MODULE Pmic --------------------------------
(***************************************************************************)
(* The PMIC's register file and those who use it in a factory boot:        *)
(*   tsensor/tsensor.c      diag 0x62/0 cmd 0x31 (read both temperatures)  *)
(*                          and 0x32 (put the sensor's registers back)     *)
(*   libdcxcali/dcx_cali.c  dcx_set_afc_cdac, on the same diag port        *)
(*   libdcxcali/dcxsrv.c    the boot service, a process of its own, that   *)
(*                          loads the saved calibration                    *)
(* All of them access a register in two calls on two sysfs files: the      *)
(* register is selected in pmic_reg, its value is then read or written in  *)
(* pmic_value.  What is selected is shared and nobody locks it.            *)
(* A register's contents is the set of its bits that are set; a group of   *)
(* bits that is only ever changed together is one bit here.                *)
(* The kernel is external: reading a thermal zone turns the sensor on, and *)
(* the sensor has settled once it has been on for the 480 ms that the      *)
(* first reading waits.                                                    *)
(***************************************************************************)
EXTENDS Integers, Sequences

CONSTANT MaxMishaps   \* bound on the accesses that fail or go astray

Bits == {"clk", "ldo", "adc", "en", "rest", "saved", "tool", "key"}
Registers == {"ctrl0", "ctrl1", "ctrl3", "wr_prot", "ctrl10", "ctrl5", "ctrl6", "ctrl13"}
Sensor == {"ctrl0", "ctrl1", "ctrl3"}

\* One call of ana_read or ana_write.  tsensor_regmap_update_bits is a Fetch
\* and a Lay, which writes what was fetched with the bits of the mask replaced.
Fetch(r) == [kind |-> "read", reg |-> r, mask |-> {}, bits |-> {}]
Lay(r, mask, bits) == [kind |-> "write", reg |-> r, mask |-> mask, bits |-> bits]
Store(r, bits) == Lay(r, Bits, bits)

\* Mutation: the last update, of the sensor's supply, is forgotten.
RestoreThree ==
  <<Fetch("ctrl0"), Lay("ctrl0", {"clk"}, {"clk"}), Fetch("ctrl3"), Lay("ctrl3", {"en"}, {}),
    Fetch("ctrl1"), Lay("ctrl1", {"adc"}, {})>>

\* The four updates of tsenor_restore_default_reg, in its order.
Restore ==
  <<Fetch("ctrl0"), Lay("ctrl0", {"clk"}, {"clk"}), Fetch("ctrl3"), Lay("ctrl3", {"en"}, {}),
    Fetch("ctrl1"), Lay("ctrl1", {"adc"}, {}), Fetch("ctrl0"), Lay("ctrl0", {"ldo"}, {})>>
\* In high power mode.
SetCdac == <<Store("wr_prot", {"key"}), Store("ctrl10", {"tool"})>>
Load == <<Store("ctrl10", {"saved"}), Store("ctrl5", {"saved"}),
          Store("ctrl6", {"saved"}), Store("ctrl13", {"saved"})>>

Program(op) ==
  CASE op = "restore" -> Restore
    [] op = "cdac" -> SetCdac
    [] op = "load" -> Load
    [] OTHER -> <<>>

VARIABLES
  reg,        \* the registers
  selected,   \* the one pmic_value stands for
  user,       \* what the diag port and the service are doing
  inited,     \* the static of tsensor.c
  settled,    \* the sensor is on and has settled
  mixed,      \* history: since the port's request came, an access did not
              \* reach its register, or failed and was not told
  disturbed,  \* history: the sensor was not left as inited says
  mishaps     \* of the bound

vars == <<reg, selected, user, inited, settled, mixed, disturbed, mishaps>>

Users == {"port", "service"}
Idle == [op |-> "none", next |-> 1, at |-> "select", orig |-> {}, astray |-> FALSE,
         answer |-> "none"]

TypeOK ==
  /\ reg \in [Registers -> SUBSET Bits]
  /\ selected \in Registers
  /\ user \in [Users ->
       [op : {"none", "temp", "restore", "cdac", "load"},
        next : 1 .. 9,              \* its place in the program
        at : {"select", "value", "first", "wait", "measure"},
        orig : SUBSET Bits,         \* what the last read has returned
        astray : BOOLEAN,           \* another register was selected meanwhile
        answer : {"none", "ok", "unsettled", "fail"}]]
  /\ {inited, settled, mixed, disturbed} \subseteq BOOLEAN
  /\ mishaps \in 0 .. MaxMishaps

\* What the registers hold at power-on: the defaults, and bits to be kept.
PowerOn == [r \in Registers |-> IF r = "ctrl0" THEN {"clk", "rest"} ELSE {"rest"}]

Init ==
  /\ reg = PowerOn
  /\ selected = "ctrl5"
  /\ user \in [Users -> {Idle, [Idle EXCEPT !.op = "load"]}]
  /\ user["port"] = Idle
  /\ inited = FALSE /\ settled = FALSE
  /\ mixed = FALSE /\ disturbed = FALSE
  /\ mishaps = 0

Mishap == mishaps < MaxMishaps /\ mishaps' = mishaps + 1

----------------------------------------------------------------------------
(* Register accesses.                                                      *)

Active(u) == user[u].op # "none" /\ user[u].answer = "none"
Access(u) == Program(user[u].op)[user[u].next]
Accessing(u, at) ==
  /\ Active(u)
  /\ user[u].at = at
  /\ user[u].next <= Len(Program(user[u].op))

Receive(op) ==
  /\ user["port"] = Idle
  /\ user' = [user EXCEPT !["port"].op = op,
                          !["port"].at = IF op # "temp" THEN "select"
                                         ELSE IF inited THEN "measure" ELSE "first"]
  /\ mixed' = FALSE
  /\ UNCHANGED <<reg, selected, inited, settled, disturbed, mishaps>>

Select(u) ==
  /\ Accessing(u, "select")
  /\ selected' = Access(u).reg
  /\ user' = [v \in Users |->
       IF v = u THEN [user[u] EXCEPT !.at = "value"]
       ELSE [user[v] EXCEPT !.astray = @ \/ user[v].at = "value"]]
  /\ IF \E v \in Users \ {u} : user[v].at = "value" /\ ~user[v].astray
     THEN Mishap ELSE UNCHANGED mishaps
  /\ UNCHANGED <<reg, inited, settled, mixed, disturbed>>

\* The result of the write to pmic_reg is dropped.
SelectFail(u) ==
  /\ Accessing(u, "select")
  /\ Mishap
  /\ user' = [user EXCEPT ![u].at = "value", ![u].astray = TRUE]
  /\ UNCHANGED <<reg, selected, inited, settled, mixed, disturbed>>

\* tsensor.c gives up if one of the two files cannot be opened; the other two
\* go on without it.  From the third access on it has written something.
OpenFail(u) ==
  /\ Accessing(u, "select")
  /\ user[u].op = "restore"
  /\ Mishap
  /\ user' = [user EXCEPT ![u].answer = "fail"]
  /\ disturbed' = (disturbed \/ user[u].next > 2)
  /\ UNCHANGED <<reg, selected, inited, settled, mixed>>

\* Mutation: the register is written without what was read of it.
PlainWrite(u) == Access(u).bits

\* What is written: the bits of the mask, laid over what was read.
Written(u) == (user[u].orig \ Access(u).mask) \cup (Access(u).bits \cap Access(u).mask)

Advance(u, orig) ==
  user' = [user EXCEPT ![u].at = "select", ![u].next = @ + 1, ![u].orig = orig,
                       ![u].astray = FALSE]

\* Reads and writes whatever is selected by now.
Value(u) ==
  /\ Accessing(u, "value")
  /\ mixed' = (mixed \/ user[u].astray)
  /\ IF Access(u).kind = "read"
     THEN Advance(u, reg[selected]) /\ UNCHANGED <<reg, settled, disturbed>>
     ELSE /\ reg' = [reg EXCEPT ![selected] = Written(u)]
          /\ settled' = (settled /\ selected \notin Sensor)
          /\ disturbed' = (disturbed \/ (user[u].astray /\ selected \in Sensor))
          /\ Advance(u, {})
  /\ UNCHANGED <<selected, inited, mishaps>>

\* The results of read and write on pmic_value are dropped: strtol makes 0 of
\* the empty buffer.
ValueFail(u) ==
  /\ Accessing(u, "value")
  /\ Mishap
  /\ mixed' = TRUE
  /\ Advance(u, {})
  /\ UNCHANGED <<reg, selected, inited, settled, disturbed>>

\* The program is through.  Only tsensor.c keeps a static.
Finish(u) ==
  /\ Active(u)
  /\ user[u].op # "temp"
  /\ user[u].next > Len(Program(user[u].op))
  /\ user' = [user EXCEPT ![u].answer = "ok"]
  /\ IF user[u].op = "restore"
     THEN inited' = FALSE /\ disturbed' = FALSE
     ELSE UNCHANGED <<inited, disturbed>>
  /\ UNCHANGED <<reg, selected, settled, mixed, mishaps>>

----------------------------------------------------------------------------
(* The temperatures.                                                       *)

SensorOn ==
  /\ {"ldo"} = reg["ctrl0"] \cap {"ldo", "clk"}
  /\ "adc" \in reg["ctrl1"]
  /\ "en" \in reg["ctrl3"]

\* The kernel reads the zone, having turned the sensor on if it was off.
ReadZone ==
  /\ settled' = (settled /\ SensorOn)
  /\ reg' = [reg EXCEPT !["ctrl0"] = (@ \ {"clk"}) \cup {"ldo"},
                        !["ctrl1"] = @ \cup {"adc"},
                        !["ctrl3"] = @ \cup {"en"}]

Goto(at) == user' = [user EXCEPT !["port"].at = at]
Answer(a) == user' = [user EXCEPT !["port"].answer = a]
Measuring(at) == Active("port") /\ user["port"].op = "temp" /\ user["port"].at = at

\* The first reading; that it failed is only logged.
First ==
  /\ Measuring("first")
  /\ Goto("wait")
  /\ \/ ReadZone /\ UNCHANGED <<disturbed, mishaps>>
     \/ Mishap /\ disturbed' = TRUE /\ UNCHANGED <<reg, settled>>
  /\ UNCHANGED <<selected, inited, mixed>>

\* Mutation: the sensor is taken for ready without the wait.
NoWait ==
  /\ Measuring("wait")
  /\ inited' = TRUE
  /\ Goto("measure")
  /\ UNCHANGED <<reg, selected, settled, mixed, disturbed, mishaps>>

Wait ==
  /\ Measuring("wait")
  /\ settled' = SensorOn
  /\ inited' = TRUE
  /\ Goto("measure")
  /\ UNCHANGED <<reg, selected, mixed, disturbed, mishaps>>

\* A zone that cannot be opened is an error; one that cannot be read is not.
Measure ==
  /\ Measuring("measure")
  /\ \/ /\ ReadZone
        /\ Answer(IF settled' THEN "ok" ELSE "unsettled")
        /\ UNCHANGED <<mixed, mishaps>>
     \/ /\ Mishap
        /\ \/ Answer("fail") /\ UNCHANGED mixed
           \/ Answer("unsettled") /\ mixed' = TRUE
        /\ UNCHANGED <<reg, settled>>
  /\ UNCHANGED <<selected, inited, disturbed>>

----------------------------------------------------------------------------
Reply(u) ==
  /\ user[u].answer # "none"
  /\ user' = [user EXCEPT ![u] = Idle]
  /\ UNCHANGED <<reg, selected, inited, settled, mixed, disturbed, mishaps>>

\* engpc dies and is started again; the registers keep their contents.
Die ==
  /\ user["port"] # Idle
  /\ user' = [user EXCEPT !["port"] = Idle]
  /\ inited' = FALSE /\ disturbed' = FALSE
  /\ UNCHANGED <<reg, selected, settled, mixed, mishaps>>

Next ==
  \/ \E op \in {"temp", "restore", "cdac"} : Receive(op)
  \/ \E u \in Users :
       \/ Select(u) \/ SelectFail(u) \/ OpenFail(u)
       \/ Value(u) \/ ValueFail(u) \/ Finish(u) \/ Reply(u)
  \/ First \/ Wait \/ Measure
  \/ Die

Spec == Init /\ [][Next]_vars
----------------------------------------------------------------------------
(* Properties.                                                             *)

\* While no access goes astray, no bit changes but those that the register's
\* update names, whichever of the users interleave: a read-modify-write puts
\* back the other bits as it found them.
Changed(r) == (reg[r] \ reg'[r]) \cup (reg'[r] \ reg[r])
MayChange(r) ==
  UNION ({Access(u).mask : u \in {v \in Users : Accessing(v, "value") /\ Access(v).reg = r}}
         \cup {IF r \in Sensor /\ (Measuring("first") \/ Measuring("measure"))
               THEN {"clk", "ldo", "adc", "en"} ELSE {}})
BitsKept == [][~mixed' => \A r \in Registers : Changed(r) \subseteq MayChange(r)]_vars

\* A restore that is acknowledged has left the sensor off and its clock as at
\* power-on, and a bank that is acknowledged is set, or has since been
\* replaced by the service's, unless an access went astray or failed unseen.
AckedIsDone ==
  user["port"].answer = "ok" /\ ~mixed =>
    CASE user["port"].op = "restore" ->
           /\ reg["ctrl0"] \cap {"clk", "ldo"} = {"clk"}
           /\ "en" \notin reg["ctrl3"] /\ "adc" \notin reg["ctrl1"]
      [] user["port"].op = "cdac" ->
           \/ reg["ctrl10"] = {"tool"}
           \/ reg["ctrl10"] = {"saved"} /\ (user["service"] = Idle \/ user["service"].next > 1)
      [] OTHER -> TRUE

\* Temperatures answered as good come from a sensor that has settled, unless
\* the reading itself failed, or a restore broke off midway, the first reading
\* failed or a write went astray and left the sensor other than inited says.
SettledReading ==
  user["port"].op = "temp" /\ user["port"].answer = "unsettled" => mixed \/ disturbed
=============================================================================
