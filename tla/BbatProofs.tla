----------------------------- MODULE BbatProofs -----------------------------
(***************************************************************************)
(* Theorems about the charging tests and the gpio test, alone and next to  *)
(* each other on the diag port: for all currents, readings, numbers of     *)
(* samples and tables of pins, both builds, and every set of nodes a       *)
(* kernel may have.                                                        *)
(***************************************************************************)
EXTENDS MC_Bbat, TLAPS

\* What a handler that has got halfway knows: the step fits the request, what
\* it replaces is not acknowledged any more, and the first limit is written
\* when the second one's turn comes.
Underway ==
  /\ pc = "switch" => req \in Switches
  /\ pc = "query" => req = [op |-> "control", arg |-> "query"]
  /\ pc = "sample" => req \in Reads
  /\ pc = "capacity" => req \in Capacities
  /\ pc \in {"limit", "current"} => req \in Sets /\ lastset = NotAcked
  /\ pc = "switch" => switched = "unknown"
  /\ pc = "current" /\ "input_current_limit" \in present =>
       setting.limits["input_current_limit"] = req.current

\* NotChargingOnceOff in two parts: what the node holds after a disconnect,
\* and what a query makes of it.
StoppedIfOff == "stop_charge" \in present /\ switched = "off" => setting.stop

QueryAnswered ==
  pc = "reply" /\ req = [op |-> "control", arg |-> "query"]
      /\ "status" \in present /\ setting.stop
    => answer = "refused"

Linked == Underway /\ LimitsAgree /\ StoppedIfOff /\ QueryAnswered

IInv == TypeOK /\ Linked

Settings == [limits : [Limits -> Currents \cup {Factory}], stop : BOOLEAN]

\* The driver's own settings.
LEMMA FactorySettings ==
  /\ [n \in Limits |-> Factory] \in [Limits -> Currents \cup {Factory}]
  /\ [limits |-> [n \in Limits |-> Factory], stop |-> FALSE] \in Settings
<1>1. [n \in Limits |-> Factory] \in [Limits -> Currents \cup {Factory}]
  BY ChargeAssumption
<1>2. QED
  BY <1>1 DEF Settings

LEMMA InitIInv == Init => IInv
<1> SUFFICES ASSUME Init PROVE IInv
  OBVIOUS
<1>1. setting \in Settings
  BY FactorySettings DEF Init
<1>2. TypeOK
  <2>1. present \subseteq Nodes /\ pc \in Steps /\ answer = "none" /\ pc # "reply"
    BY DEF Init, Steps
  <2>2. (pc = "idle" <=> req = NoRequest) /\ req \in Requests \cup {NoRequest}
    BY DEF Init
  <2>3. sum \in Int /\ count \in 0 .. Samples /\ seen \subseteq Int /\ missed \in BOOLEAN
    <3>1. sum \in Int /\ count \in 0 .. Samples
      BY ChargeAssumption DEF Init
    <3>2. seen \subseteq Int /\ missed \in BOOLEAN
      BY Zenon DEF Init
    <3>3. QED
      BY <3>1, <3>2
  <2>4. lastset \in Currents \cup {Factory, NotAcked} /\ switched \in {"on", "off", "unknown"}
    BY ChargeAssumption DEF Init
  <2>5. value = NoValue
    BY DEF Init
  <2>6. QED
    BY <1>1, <2>1, <2>2, <2>3, <2>4, <2>5 DEF TypeOK, Settings
<1>3. Linked
  BY DEF Init, Linked, Underway, LimitsAgree, StoppedIfOff, QueryAnswered, NotAcked
<1>4. QED
  BY <1>2, <1>3 DEF IInv

\* The requests of one handler are not those of another.
LEMMA RequestKinds ==
  ASSUME NEW r \in Requests
  PROVE  /\ r # NoRequest
         /\ First(r) = "switch" => r \in Switches
         /\ First(r) = "query" => r = [op |-> "control", arg |-> "query"]
         /\ First(r) = "limit" => r \in Sets
         /\ First(r) = "sample" => r \in Reads
         /\ First(r) = "capacity" => r \in Capacities
         /\ First(r) \in {"switch", "query", "limit", "sample", "capacity", "reply"}
         /\ r = [op |-> "control", arg |-> "query"] => First(r) = "query"
BY DEF Requests, Switches, Queries, Sets, Reads, Capacities, First, NoRequest

LEMMA SetsFacts ==
  ASSUME NEW r \in Sets
  PROVE  r.current \in Currents /\ r # [op |-> "control", arg |-> "query"]
BY DEF Sets

LEMMA ReadsFacts ==
  ASSUME NEW r \in Reads \cup Capacities
  PROVE  r # [op |-> "control", arg |-> "query"]
BY DEF Reads, Capacities

LEMMA SwitchesFacts ==
  ASSUME NEW r \in Switches
  PROVE  Stop(r) \in BOOLEAN /\ r # [op |-> "control", arg |-> "query"]
BY DEF Switches, Stop

\* Writing one limit gives settings, that limit new and the rest kept.
LEMMA WriteLimitFacts ==
  ASSUME setting \in Settings, NEW n \in Limits, req.current \in Currents, WriteLimit(n)
  PROVE  /\ setting' \in Settings
         /\ setting'.stop = setting.stop
         /\ \A m \in Limits \ {n} : setting'.limits[m] = setting.limits[m]
         /\ n \in present => setting'.limits[n] = req.current
<1>1. CASE n \in present
  <2>1. setting' = [setting EXCEPT !.limits[n] = req.current]
    BY <1>1 DEF WriteLimit
  <2>2. [setting.limits EXCEPT ![n] = req.current] \in [Limits -> Currents \cup {Factory}]
    BY DEF Settings
  <2>3. setting' = [limits |-> [setting.limits EXCEPT ![n] = req.current], stop |-> setting.stop]
    BY <2>1 DEF Settings
  <2>4. QED
    BY <2>2, <2>3, <1>1 DEF Settings
<1>2. CASE n \notin present
  BY <1>2 DEF WriteLimit
<1>3. QED
  BY <1>1, <1>2

\* What a query can read is a number.
LEMMA OfferedFacts == TypeOK => Offered \subseteq Int
<1> SUFFICES ASSUME TypeOK PROVE Offered \subseteq Int
  OBVIOUS
<1> DEFINE limit == setting.limits["constant_charge_current"]
<1>1. limit \in Int
  <2>1. setting.limits \in [Limits -> Currents \cup {Factory}]
    BY DEF TypeOK
  <2>2. limit \in Currents \cup {Factory}
    BY <2>1 DEF Limits
  <2>3. Currents \cup {Factory} \subseteq Int
    BY ChargeAssumption
  <2>4. QED
    BY <2>2, <2>3, Zenon
<1>2. limit \div 1000 \in Int
  BY <1>1
<1>3. Offered = Readings \/ Offered = {limit \div 1000}
  BY DEF Offered
<1>4. Readings \subseteq Int /\ {limit \div 1000} \subseteq Int
  BY <1>2, ChargeAssumption
<1> HIDE DEF limit
<1>5. CASE Offered = Readings
  BY <1>4, <1>5
<1>6. CASE Offered = {limit \div 1000}
  BY <1>4, <1>6
<1>7. QED
  BY <1>3, <1>5, <1>6

\* An answer that carries one read.
LEMMA AnswerReadFacts ==
  ASSUME TypeOK, NEW given \in SUBSET Int, AnswerRead(given)
  PROVE  pc' = "reply" /\ answer' = "ok" /\ seen' \subseteq Int /\ missed' \in BOOLEAN
<1>1. CASE \E x \in given :
             Answer("ok", <<Short(x)>>) /\ seen' = seen \cup {x} /\ UNCHANGED missed
  <2>1. PICK x \in given :
          Answer("ok", <<Short(x)>>) /\ seen' = seen \cup {x} /\ UNCHANGED missed
    BY <1>1
  <2>2. seen' \subseteq Int
    BY <2>1 DEF TypeOK
  <2>3. missed' \in BOOLEAN
    BY <2>1 DEF TypeOK
  <2>4. QED
    BY <2>1, <2>2, <2>3 DEF Answer
<1>2. CASE Answer("ok", <<0>>) /\ missed' = TRUE /\ UNCHANGED seen
  <2>1. seen' \subseteq Int
    BY <1>2 DEF TypeOK
  <2>2. missed' \in BOOLEAN
    BY <1>2
  <2>3. QED
    BY <1>2, <2>1, <2>2 DEF Answer
<1>3. QED
  BY <1>1, <1>2 DEF AnswerRead

----------------------------------------------------------------------------
LEMMA NextIInv == IInv /\ [Next]_vars => IInv'
<1> SUFFICES ASSUME IInv, [Next]_vars PROVE IInv'
  OBVIOUS
<1> USE DEF IInv, TypeOK, Steps, reading, history, Linked
<1>1. ASSUME NEW r \in Requests, Receive(r) PROVE IInv'
  <2>1. TypeOK'
    <3>1. pc' \in Steps /\ pc' # "idle" /\ req' \in Requests /\ req' # NoRequest
      BY <1>1, RequestKinds DEF Receive
    <3>2. /\ answer' \in {"none", "unchanged", "unsupported"}
          /\ (pc' = "reply") <=> (answer' # "none")
      BY <1>1 DEF Receive
    <3>3. value = NoValue
      BY <1>1 DEF Receive
    <3>4. sum' \in Int /\ count' \in 0 .. Samples /\ seen' \subseteq Int /\ missed' \in BOOLEAN
      <4>1. sum' \in Int /\ count' \in 0 .. Samples
        BY <1>1, ChargeAssumption DEF Receive
      <4>2. seen' \subseteq Int /\ missed' \in BOOLEAN
        BY <1>1, Zenon DEF Receive
      <4>3. QED
        BY <4>1, <4>2
    <3>5. lastset' \in Currents \cup {Factory, NotAcked} /\ switched' \in {"on", "off", "unknown"}
      BY <1>1 DEF Receive
    <3>6. QED
      BY <1>1, <3>1, <3>2, <3>3, <3>4, <3>5 DEF Receive
  <2>2. pc' = First(r) /\ req' = r /\ UNCHANGED <<present, setting>>
    BY <1>1 DEF Receive
  <2>3. Underway'
    <3>1. r \in Switches => switched' = "unknown"
      BY <1>1 DEF Receive
    <3>2. r \in Sets => lastset' = NotAcked
      BY <1>1 DEF Receive
    <3>3. First(r) # "current"
      BY RequestKinds
    <3>4. QED
      BY <2>2, <3>1, <3>2, <3>3, RequestKinds DEF Underway
  <2>4. LimitsAgree' /\ StoppedIfOff'
    BY <1>1 DEF Receive, LimitsAgree, StoppedIfOff, NotAcked
  <2>5. QueryAnswered'
    BY <2>2, RequestKinds DEF QueryAnswered
  <2>6. QED
    BY <2>1, <2>3, <2>4, <2>5
<1>2. ASSUME Switch PROVE IInv'
  <2>1. req \in Switches /\ Stop(req) \in BOOLEAN /\ req # [op |-> "control", arg |-> "query"]
    BY <1>2, SwitchesFacts DEF Switch, Underway
  <2>2. /\ setting' \in Settings
        /\ setting'.limits = setting.limits
        /\ "stop_charge" \in present => setting'.stop = Stop(req)
    BY <1>2, <2>1 DEF Switch, Settings
  <2>3. TypeOK'
    BY <1>2, <2>2 DEF Switch, Answer, Settings
  <2>4. Linked'
    BY <1>2, <2>1, <2>2
    DEF Switch, Answer, Underway, LimitsAgree, StoppedIfOff, QueryAnswered, NotAcked
  <2>5. QED
    BY <2>3, <2>4
<1>3. ASSUME SwitchFail PROVE IInv'
  BY <1>3, SwitchesFacts
  DEF SwitchFail, Underway, LimitsAgree, StoppedIfOff, QueryAnswered, Answer
<1>4. ASSUME Query PROVE IInv'
  <2>1. /\ pc' = "reply" /\ answer' \in {"ok", "refused"}
        /\ value' # NoValue => answer' = "ok"
        /\ "status" \in present /\ setting.stop => answer' = "refused"
    BY <1>4 DEF Query, AnswerRead, Answer, NoValue
  <2>2. seen' \subseteq Int /\ missed' \in BOOLEAN
    <3>1. AnswerRead(Offered) \/ UNCHANGED <<seen, missed>>
      BY <1>4 DEF Query
    <3>2. QED
      BY <3>1, OfferedFacts, AnswerReadFacts
  <2>3. UNCHANGED <<present, setting, req, sum, count, history>> /\ pc = "query"
    BY <1>4 DEF Query
  <2>4. QED
    BY <2>1, <2>2, <2>3 DEF Underway, LimitsAgree, StoppedIfOff, QueryAnswered
<1>5. ASSUME SetLimit PROVE IInv'
  <2>1. req \in Sets /\ lastset = NotAcked
    BY <1>5 DEF SetLimit, Underway
  <2>2. /\ setting' \in Settings
        /\ setting'.stop = setting.stop
        /\ "input_current_limit" \in present => setting'.limits["input_current_limit"] = req.current
    BY <1>5, <2>1, SetsFacts, WriteLimitFacts DEF SetLimit, Limits, Settings
  <2>3. TypeOK'
    BY <1>5, <2>2 DEF SetLimit, Settings
  <2>4. Linked'
    BY <1>5, <2>1, <2>2 DEF SetLimit, Underway, LimitsAgree, StoppedIfOff, QueryAnswered
  <2>5. QED
    BY <2>3, <2>4
<1>6. ASSUME SetCurrent PROVE IInv'
  <2>1. req \in Sets /\ req.current \in Currents /\ req # [op |-> "control", arg |-> "query"]
    BY <1>6, SetsFacts DEF SetCurrent, Underway
  <2>2. /\ setting' \in Settings
        /\ setting'.stop = setting.stop
        /\ \A n \in Limits \cap present : setting'.limits[n] = req.current
    <3>1. setting \in Settings
      BY DEF Settings
    <3>2. "constant_charge_current" \in Limits /\ WriteLimit("constant_charge_current")
      BY <1>6 DEF SetCurrent, Limits
    <3>3. "input_current_limit" \in present => setting.limits["input_current_limit"] = req.current
      BY <1>6 DEF SetCurrent, Underway
    <3>4. QED
      BY <2>1, <3>1, <3>2, <3>3, WriteLimitFacts DEF Limits
  <2>3. TypeOK'
    BY <1>6, <2>1, <2>2 DEF SetCurrent, Answer, Settings
  <2>4. Linked'
    BY <1>6, <2>1, <2>2
    DEF SetCurrent, Answer, Underway, LimitsAgree, StoppedIfOff, QueryAnswered
  <2>5. QED
    BY <2>3, <2>4
<1>7. ASSUME NEW n \in Limits, SetFail(n) PROVE IInv'
  BY <1>7, SetsFacts DEF SetFail, Underway, LimitsAgree, StoppedIfOff, QueryAnswered, Answer
<1>8. ASSUME Sample PROVE IInv'
  BY <1>8, ChargeAssumption DEF Sample, Underway, LimitsAgree, StoppedIfOff, QueryAnswered
<1>9. ASSUME SampleFail PROVE IInv'
  BY <1>9, ChargeAssumption DEF SampleFail, Underway, LimitsAgree, StoppedIfOff, QueryAnswered
<1>10. ASSUME Mean PROVE IInv'
  <2>1. pc' = "reply" /\ answer' = "ok" /\ UNCHANGED <<present, setting, req, reading, history>>
    BY <1>10 DEF Mean, Answer
  <2>2. req # [op |-> "control", arg |-> "query"]
    BY <1>10, ReadsFacts DEF Mean, Underway
  <2>3. QED
    BY <1>10, <2>1, <2>2 DEF Mean, Underway, LimitsAgree, StoppedIfOff, QueryAnswered
<1>11. ASSUME Capacity PROVE IInv'
  <2>1. /\ pc' = "reply" /\ answer' \in {"ok", "refused"}
        /\ value' # NoValue => answer' = "ok"
    BY <1>11 DEF Capacity, AnswerRead, Answer, NoValue
  <2>2. seen' \subseteq Int /\ missed' \in BOOLEAN
    <3>1. AnswerRead(Readings) \/ UNCHANGED <<seen, missed>>
      BY <1>11 DEF Capacity
    <3>2. Readings \in SUBSET Int
      BY ChargeAssumption
    <3>3. CASE AnswerRead(Readings)
      BY <3>2, <3>3, AnswerReadFacts
    <3>4. QED
      BY <3>1, <3>3
  <2>3. UNCHANGED <<present, setting, req, sum, count, history>> /\ pc = "capacity"
    BY <1>11 DEF Capacity
  <2>4. req # [op |-> "control", arg |-> "query"]
    BY <2>3, ReadsFacts DEF Underway
  <2>5. QED
    BY <2>1, <2>2, <2>3, <2>4 DEF Underway, LimitsAgree, StoppedIfOff, QueryAnswered
<1>12. ASSUME Reply PROVE IInv'
  BY <1>12 DEF Reply, Gone, Underway, LimitsAgree, StoppedIfOff, QueryAnswered
<1>13. ASSUME Die PROVE IInv'
  BY <1>13 DEF Die, Gone, Underway, LimitsAgree, StoppedIfOff, QueryAnswered
<1>14. ASSUME PowerCycle PROVE IInv'
  <2>1. setting' \in Settings
    BY <1>14, FactorySettings DEF PowerCycle
  <2>2. TypeOK'
    BY <1>14, <2>1, ChargeAssumption DEF PowerCycle, Gone, Settings
  <2>3. Linked'
    BY <1>14 DEF PowerCycle, Gone, Underway, LimitsAgree, StoppedIfOff, QueryAnswered, NotAcked
  <2>4. QED
    BY <2>2, <2>3
<1>15. CASE UNCHANGED vars
  BY <1>15 DEF vars, Underway, LimitsAgree, StoppedIfOff, QueryAnswered
<1>16. QED
  BY <1>1, <1>2, <1>3, <1>4, <1>5, <1>6, <1>7, <1>8, <1>9, <1>10, <1>11, <1>12, <1>13,
         <1>14, <1>15
     DEF Next, Handle

----------------------------------------------------------------------------
\* Every reachable state of the handlers of charge.c is well typed.
THEOREM TypeCorrect == Spec => []TypeOK
<1>1. IInv => TypeOK
  BY DEF IInv
<1>2. QED
  BY InitIInv, NextIInv, <1>1, PTL DEF Spec

\* ap_set_charge_current: both limits hold the current last asked for unless
\* that request was refused or died halfway.
THEOREM CurrentsHeld == Spec => []LimitsAgree
<1>1. IInv => LimitsAgree
  BY DEF IInv, Linked
<1>2. QED
  BY InitIInv, NextIInv, <1>1, PTL DEF Spec

\* The two switches and the query: once a disconnect has been answered as
\* done, no query finds the battery charging before the next switch arrives.
THEOREM DisconnectHeld == Spec => []NotChargingOnceOff
<1>1. IInv => NotChargingOnceOff
  BY DEF IInv, Linked, StoppedIfOff, QueryAnswered, NotChargingOnceOff
<1>2. QED
  BY InitIInv, NextIInv, <1>1, PTL DEF Spec

----------------------------------------------------------------------------
(* What is answered of the readings.                                       *)

\* What the reads have added up to lies between their number of times one of
\* the readings taken and that of another.
Averaged ==
  pc = "sample" =>
    /\ count = 0 => sum = 0
    /\ count > 0 => /\ \E x \in Taken : x * count <= sum
                   /\ \E x \in Taken : sum <= x * count

Measured == Averaged /\ AnswerIsMeasured

\* A mean that is rounded down lies between any bounds of its terms.
LEMMA MeanBounds ==
  ASSUME NEW n \in Nat \ {0}, NEW s \in Int, NEW low \in Int, NEW high \in Int,
         low * n <= s, s <= high * n
  PROVE  s \div n \in Int /\ low <= s \div n /\ s \div n <= high
<1> DEFINE q == s \div n
<1>1. q \in Int /\ q * n <= s /\ s < (q + 1) * n
  OBVIOUS
<1>2. low <= q
  <2>1. SUFFICES ASSUME q + 1 <= low PROVE FALSE
    BY <1>1
  <2>2. (q + 1) * n <= low * n
    BY <2>1, <1>1
  <2>3. QED
    BY <2>2, <1>1
<1>3. q <= high
  <2>1. SUFFICES ASSUME high + 1 <= q PROVE FALSE
    BY <1>1
  <2>2. (high + 1) * n <= q * n
    BY <2>1, <1>1
  <2>3. (high + 1) * n = high * n + n
    OBVIOUS
  <2>4. QED
    BY <2>2, <2>3, <1>1
<1>4. QED
  BY <1>1, <1>2, <1>3

\* One more term: the old bound does, or the term itself.
LEMMA OneMoreBelow ==
  ASSUME NEW n \in Nat, NEW s \in Int, NEW low \in Int, NEW x \in Int, low * n <= s
  PROVE  low * (n + 1) <= s + x \/ x * (n + 1) <= s + x
<1>1. low * (n + 1) = low * n + low /\ x * (n + 1) = x * n + x
  OBVIOUS
<1>2. CASE low <= x
  BY <1>1, <1>2
<1>3. CASE x < low
  <2>1. x * n <= low * n
    BY <1>3
  <2>2. QED
    BY <1>1, <2>1
<1>4. QED
  BY <1>2, <1>3

LEMMA OneMoreAbove ==
  ASSUME NEW n \in Nat, NEW s \in Int, NEW high \in Int, NEW x \in Int, s <= high * n
  PROVE  s + x <= high * (n + 1) \/ s + x <= x * (n + 1)
<1>1. high * (n + 1) = high * n + high /\ x * (n + 1) = x * n + x
  OBVIOUS
<1>2. CASE x <= high
  BY <1>1, <1>2
<1>3. CASE high < x
  <2>1. high * n <= x * n
    BY <1>3
  <2>2. QED
    BY <1>1, <2>1
<1>4. QED
  BY <1>2, <1>3

\* The four bytes of a temperature, added up by the tool, are the temperature
\* as far as four bytes can carry it.
LEMMA BytesAddUp ==
  ASSUME NEW t \in Int
  PROVE  LET v == NtcBytes(t)
         IN v[1] + v[2] + v[3] + v[4] - Bias =
              IF t < -Bias THEN -Bias ELSE IF t > 770 THEN 770 ELSE t
<1> DEFINE left(i) == t + Bias - 255 * (i - 1)
           v == NtcBytes(t)
<1>1. \A i \in 1 .. 4 : v[i] = IF left(i) > 255 /\ t + Bias >= 0 THEN 255
                                ELSE IF t + Bias < 0 \/ (i > 1 /\ left(i) <= 0) THEN 0
                                ELSE left(i)
  BY DEF NtcBytes, Bias
<1>2. /\ v[1] = IF t + 250 < 0 THEN 0 ELSE IF t + 250 > 255 THEN 255 ELSE t + 250
      /\ v[2] = IF t + 250 <= 255 THEN 0 ELSE IF t + 250 > 510 THEN 255 ELSE t + 250 - 255
      /\ v[3] = IF t + 250 <= 510 THEN 0 ELSE IF t + 250 > 765 THEN 255 ELSE t + 250 - 510
      /\ v[4] = IF t + 250 <= 765 THEN 0 ELSE IF t + 250 > 1020 THEN 255 ELSE t + 250 - 765
  BY <1>1 DEF Bias
<1>3. QED
  BY <1>2 DEF Bias

LEMMA InitMeasured == Init => Measured
BY DEF Init, Measured, Averaged, AnswerIsMeasured

\* The readings taken are numbers.
LEMMA TakenFacts == TypeOK => Taken \subseteq Int
BY ChargeAssumption DEF TypeOK, Taken

LEMMA ReceiveMeasured == ASSUME NEW r \in Requests, Receive(r), Measured, IInv PROVE Measured'
BY DEF Receive, Measured, Averaged, AnswerIsMeasured, IInv, TypeOK

\* One read in one answer.
LEMMA AnswerReadMeasured ==
  ASSUME NEW given \in SUBSET Int, AnswerRead(given), IInv, pc \in {"query", "capacity"}, UNCHANGED req
  PROVE  Measured'
<1>1. req.op # "ntc"
  BY DEF IInv, Linked, Underway, Capacities
<1>2. CASE \E x \in given :
             Answer("ok", <<Short(x)>>) /\ seen' = seen \cup {x} /\ UNCHANGED missed
  <2>1. PICK x \in given :
          Answer("ok", <<Short(x)>>) /\ seen' = seen \cup {x} /\ UNCHANGED missed
    BY <1>2
  <2>2. x \in Taken' /\ x \in Int
    BY <2>1 DEF Taken
  <2>3. Short(x) \in Int
    BY <2>2 DEF Short
  <2>4. ToolReads(value)' = Short(x) /\ Carries(x)' = Short(x)
    BY <1>1, <2>1 DEF Answer, ToolReads, Carries, Short
  <2>5. x \in x .. x
    BY <2>2
  <2>6. QED
    BY <2>1, <2>2, <2>4, <2>5 DEF Measured, Averaged, AnswerIsMeasured, Answer
<1>3. CASE Answer("ok", <<0>>) /\ missed' = TRUE /\ UNCHANGED seen
  <2>1. 0 \in Taken'
    BY <1>3 DEF Taken
  <2>2. ToolReads(value)' = 0 /\ Carries(0)' = 0
    BY <1>1, <1>3 DEF Answer, ToolReads, Carries, Short
  <2>3. 0 \in 0 .. 0
    OBVIOUS
  <2>4. QED
    BY <1>3, <2>1, <2>2, <2>3 DEF Measured, Averaged, AnswerIsMeasured, Answer
<1>4. QED
  BY <1>2, <1>3 DEF AnswerRead

\* One read more, x or the zero of a read that failed.
LEMMA SampleMeasured ==
  ASSUME IInv, Measured, pc = "sample", NEW x \in Int, sum' = sum + x, count' = count + 1,
         x \in Taken', Taken \subseteq Taken', UNCHANGED value
  PROVE  Measured'
<1>1. value = NoValue /\ sum \in Int /\ count \in Nat
  BY ChargeAssumption DEF IInv, TypeOK
<1>2. CASE count = 0
  <2>1. x * count' <= sum' /\ sum' <= x * count'
    BY <1>1, <1>2 DEF Measured, Averaged
  <2>2. QED
    BY <1>1, <1>2, <2>1 DEF Measured, Averaged, AnswerIsMeasured
<1>3. CASE count > 0
  <2>1. PICK low \in Taken : low * count <= sum
    BY <1>3 DEF Measured, Averaged
  <2>2. PICK high \in Taken : sum <= high * count
    BY <1>3 DEF Measured, Averaged
  <2>3. low \in Int /\ high \in Int
    BY TakenFacts DEF IInv
  <2>4. low * count' <= sum' \/ x * count' <= sum'
    BY <1>1, <2>1, <2>3, OneMoreBelow
  <2>5. sum' <= high * count' \/ sum' <= x * count'
    BY <1>1, <2>2, <2>3, OneMoreAbove
  <2>6. count' # 0
    BY <1>1
  <2>7. QED
    BY <1>1, <2>4, <2>5, <2>6 DEF Measured, Averaged, AnswerIsMeasured
<1>4. QED
  BY <1>1, <1>2, <1>3

LEMMA MeanMeasured == ASSUME IInv, Measured, Mean PROVE Measured'
<1>1. /\ pc = "sample" /\ count = Samples /\ UNCHANGED <<req, seen, missed>>
      /\ LET mean == sum \div Samples
         IN Answer("ok", IF req.op = "ntc" THEN NtcBytes(mean) ELSE <<Short(mean)>>)
  BY DEF Mean, reading
<1>2. PICK low \in Taken, high \in Taken : low * Samples <= sum /\ sum <= high * Samples
  BY <1>1, ChargeAssumption DEF Measured, Averaged
<1>3. low \in Int /\ high \in Int /\ sum \in Int
  BY TakenFacts DEF IInv, TypeOK
<1>4. PICK m \in Int : m = sum \div Samples /\ low <= m /\ m <= high
  <2>1. Samples \in Nat \ {0}
    BY ChargeAssumption
  <2>2. /\ sum \div Samples \in Int
        /\ low <= sum \div Samples /\ sum \div Samples <= high
    BY <1>2, <1>3, <2>1, MeanBounds
  <2>3. QED
    BY <2>2, Zenon
<1>5. low \in Taken' /\ high \in Taken'
  BY <1>1 DEF Taken
<1>6. m \in low .. high
  BY <1>3, <1>4
<1>7. ToolReads(value)' = Carries(m)'
  <2>1. CASE req.op = "ntc"
    <3>1. ToolReads(value)' =
            IF m < -Bias THEN -Bias ELSE IF m > 770 THEN 770 ELSE m
      BY <1>1, <1>4, <2>1, BytesAddUp DEF Answer, ToolReads
    <3>2. Carries(m)' = IF m < -Bias THEN -Bias ELSE IF m > 770 THEN 770 ELSE m
      BY <1>1, <2>1 DEF Carries
    <3>3. QED
      BY <3>1, <3>2
  <2>2. CASE req.op # "ntc"
    <3>1. value' = <<Short(m)>>
      BY <1>1, <1>4, <2>2 DEF Answer
    <3>2. ToolReads(value)' = Short(m)
      BY <1>1, <2>2, <3>1 DEF ToolReads
    <3>3. Carries(m)' = Short(m)
      BY <1>1, <2>2 DEF Carries, Short
    <3>4. QED
      BY <3>2, <3>3
  <2>3. QED
    BY <2>1, <2>2
<1>8. pc' # "sample"
  BY <1>1 DEF Answer
<1>9. QED
  BY <1>5, <1>6, <1>7, <1>8 DEF Measured, Averaged, AnswerIsMeasured

LEMMA NextMeasured == IInv /\ Measured /\ [Next]_vars => Measured'
<1> SUFFICES ASSUME IInv, Measured, [Next]_vars PROVE Measured'
  OBVIOUS
<1>1. ASSUME NEW r \in Requests, Receive(r) PROVE Measured'
  BY <1>1, ReceiveMeasured
<1>2. CASE Query \/ Capacity
  <2>1. Offered \subseteq Int /\ Readings \subseteq Int
    BY OfferedFacts, ChargeAssumption DEF IInv
  <2>2. CASE Query /\ AnswerRead(Offered)
    BY <2>1, <2>2, AnswerReadMeasured DEF Query
  <2>3. CASE Capacity /\ AnswerRead(Readings)
    BY <2>1, <2>3, AnswerReadMeasured DEF Capacity
  <2>4. CASE Answer("refused", NoValue) /\ pc \in {"query", "capacity"}
    BY <2>4 DEF Answer, Measured, Averaged, AnswerIsMeasured
  <2>5. QED
    BY <1>2, <2>2, <2>3, <2>4 DEF Query, Capacity
<1>3. CASE Sample
  <2>1. PICK x \in Readings : sum' = sum + x /\ seen' = seen \cup {x}
    BY <1>3 DEF Sample
  <2>2. x \in Int /\ x \in Taken' /\ Taken \subseteq Taken'
    BY <1>3, <2>1, ChargeAssumption DEF Sample, Taken
  <2>3. QED
    BY <1>3, <2>1, <2>2, SampleMeasured DEF Sample
<1>4. CASE SampleFail
  <2>1. 0 \in Taken' /\ Taken \subseteq Taken' /\ sum' = sum + 0
    BY <1>4 DEF SampleFail, Taken, IInv, TypeOK
  <2>2. QED
    BY <1>4, <2>1, SampleMeasured DEF SampleFail
<1>5. CASE Mean
  BY <1>5, MeanMeasured
<1>6. ASSUME \/ Switch \/ SwitchFail \/ SetLimit \/ SetCurrent \/ \E n \in Limits : SetFail(n)
             \/ Reply \/ Die \/ PowerCycle
      PROVE  Measured'
  <2>1. value' = NoValue /\ pc' # "sample"
    BY <1>6 DEF Switch, SwitchFail, SetLimit, SetCurrent, SetFail, Reply, Die, PowerCycle, Gone,
       Answer, IInv, TypeOK
  <2>2. QED
    BY <2>1 DEF Measured, Averaged, AnswerIsMeasured
<1>7. CASE UNCHANGED vars
  BY <1>7 DEF vars, Measured, Averaged, AnswerIsMeasured, Taken, ToolReads, Carries, Short
<1>8. QED
  BY <1>1, <1>2, <1>3, <1>4, <1>5, <1>6, <1>7 DEF Next, Handle

\* What the tool makes of the bytes of an answer is what they can carry of a
\* number among the readings taken for it (eng_diag_read_ntc_temperature and
\* the other reads), for any readings and any number of samples.
THEOREM AnswerMeasured == Spec => []AnswerIsMeasured
<1>1. Measured => AnswerIsMeasured
  BY DEF Measured
<1>2. QED
  BY InitIInv, NextIInv, InitMeasured, NextMeasured, <1>1, PTL DEF Spec

----------------------------------------------------------------------------
(* The gpio test next to the charging tests: what holds of Gpio alone,     *)
(* whose names are prefixed with G, holds of the two side by side.         *)

PinStates == [gpio : BOOLEAN, exported : BOOLEAN, out : BOOLEAN, level : G!Levels]

\* The part of the types that the argument uses.
PinShape ==
  /\ pin \in [Pins -> PinStates]
  /\ wire \in [Pins -> G!Levels]
  /\ held \in [Pins -> G!Levels \cup {G!NotHeld}]
  /\ asked \in G!Requests
  /\ slipped \in BOOLEAN

Driven(p, v) == pin[p].gpio /\ pin[p].out /\ pin[p].level = v

Serving == step \notin {"idle", "reply"}
Answering == step \in {"close", "reply"}

\* What each step knows of the ones before it: the pin asked for is not held
\* by an earlier answer, and has what the steps so far have given it, unless
\* one of them slipped.
PinUnderway ==
  /\ Serving => asked.pin \in Pins
  /\ Serving /\ asked.dir # 2 => held[asked.pin] = G!NotHeld
  /\ ~Answering => reply = "none"
  /\ step \in {"level", "check"} => asked.dir = 1
  /\ step = "read" => asked.dir = 0
  /\ step \in {"direction", "drive"} => asked.dir # 2
  /\ ~slipped =>
       /\ step \in {"export", "chip", "direction", "level", "drive", "read"} => pin[asked.pin].gpio
       /\ step = "level" => pin[asked.pin].out
       /\ step = "read" => ~pin[asked.pin].out
       /\ step = "check" => Driven(asked.pin, asked.value)
       /\ Answering /\ reply = "ok" /\ asked.dir = 1 =>
            asked.pin \in Pins /\ Driven(asked.pin, asked.value)

PinInv == PinShape /\ PinUnderway /\ G!DrivenIsHeld /\ G!ReadIsWire

LEMMA InitPin == G!Init => PinInv
<1> SUFFICES ASSUME G!Init PROVE PinInv
  OBVIOUS
<1>1. G!Reset \in PinStates /\ G!NoRequest \in G!Requests
  BY DEF G!Reset, PinStates, G!Levels, G!NoRequest, G!Requests
<1>2. PinShape
  BY <1>1 DEF G!Init, PinShape, G!Levels
<1>3. PinUnderway /\ G!ReadIsWire
  BY DEF G!Init, PinUnderway, G!ReadIsWire, Serving, Answering, G!Levels
<1>4. G!DrivenIsHeld
  BY DEF G!Init, G!DrivenIsHeld
<1>5. QED
  BY <1>2, <1>3, <1>4 DEF PinInv

\* A step changes the pin it is asked for at most, and of a pin that may be
\* held only that its pad becomes a gpio or that it is exported.
Touches ==
  /\ pin' \in [Pins -> PinStates]
  /\ slipped' \in BOOLEAN
  /\ \A p \in Pins : p # asked.pin => pin'[p] = pin[p]
  /\ asked.dir = 2 =>
       /\ pin[asked.pin].gpio => pin'[asked.pin].gpio
       /\ pin'[asked.pin].out = pin[asked.pin].out
       /\ pin'[asked.pin].level = pin[asked.pin].level

LEMMA HeldKept ==
  ASSUME PinInv, Serving, UNCHANGED <<held, asked, wire>>, Touches
  PROVE  PinShape' /\ G!DrivenIsHeld'
<1>1. PinShape'
  BY DEF PinInv, PinShape, Touches
<1>2. G!DrivenIsHeld'
  <2> SUFFICES ASSUME NEW p \in Pins, held[p] # G!NotHeld
               PROVE  pin'[p].gpio /\ pin'[p].out /\ pin'[p].level = held[p]
    BY DEF G!DrivenIsHeld
  <2>1. pin[p].gpio /\ pin[p].out /\ pin[p].level = held[p]
    BY DEF PinInv, G!DrivenIsHeld
  <2>2. p = asked.pin => asked.dir = 2
    BY DEF PinInv, PinUnderway
  <2>3. QED
    BY <2>1, <2>2 DEF Touches
<1>3. QED
  BY <1>1, <1>2

\* An echo that goes through gives the pin its new state.
LEMMA EchoFacts ==
  ASSUME PinShape, asked.pin \in Pins, NEW p \in PinStates, G!Echo(p)
  PROVE  /\ pin' \in [Pins -> PinStates] /\ slipped' \in BOOLEAN
         /\ \A q \in Pins : q # asked.pin => pin'[q] = pin[q]
         /\ pin'[asked.pin] \in {p, pin[asked.pin]}
         /\ ~slipped' => pin'[asked.pin] = p /\ ~slipped
BY DEF G!Echo, PinShape

LEMMA ReceivePin ==
  ASSUME PinInv, NEW r \in G!Requests, NEW w \in G!Levels, G!Receive(r, w)
  PROVE  PinInv'
<1> USE DEF PinInv
<1>1. held' \in [Pins -> G!Levels \cup {G!NotHeld}]
  BY DEF G!Receive, PinShape
<1>2. PinShape'
  <2>1. wire' \in [Pins -> G!Levels]
    BY DEF G!Receive, PinShape
  <2>2. QED
    BY <1>1, <2>1 DEF G!Receive, PinShape
<1>3. reply = "none"
  BY DEF G!Receive, PinUnderway, Answering
<1>4. PinUnderway'
  <2>1. CASE r.pin = Beyond
    BY <2>1 DEF G!Receive, PinUnderway, Serving, Answering
  <2>2. CASE r.pin # Beyond
    <3>1. r.pin \in Pins
      BY <2>2 DEF G!Requests
    <3>2. step' = "pad" /\ asked' = r /\ reply' = "none"
      BY <1>3, <2>2 DEF G!Receive
    <3>3. r.dir # 2 => held'[r.pin] = G!NotHeld
      BY <2>2, <3>1 DEF G!Receive, PinShape
    <3>4. QED
      BY <3>1, <3>2, <3>3 DEF PinUnderway, Serving, Answering
  <2>3. QED
    BY <2>1, <2>2
<1>5. G!DrivenIsHeld'
  <2>1. \A p \in Pins : held'[p] \in {held[p], G!NotHeld}
    BY DEF G!Receive, PinShape
  <2>2. UNCHANGED pin
    BY DEF G!Receive
  <2>3. QED
    BY <2>1, <2>2 DEF G!DrivenIsHeld
<1>6. G!ReadIsWire'
  BY <1>3 DEF G!Receive, G!ReadIsWire, G!Levels
<1>7. QED
  BY <1>2, <1>4, <1>5, <1>6

LEMMA SysfsPin == ASSUME PinInv, build = "old" \/ step \in {"export", "direction", "level"},
                          G!Pad \/ G!Export \/ G!Direction \/ G!Level
                   PROVE  PinInv'
<1> USE DEF PinInv
<1>1. Serving /\ asked.pin \in Pins /\ reply = "none" /\ UNCHANGED <<asked, wire, held>>
  BY DEF G!Pad, G!Export, G!Direction, G!Level, PinUnderway, Serving, Answering, G!static
<1>2. pin[asked.pin] \in PinStates /\ asked.value \in G!Levels /\ asked.dir \in {0, 1, 2}
  BY <1>1 DEF PinShape, G!Requests
<1>3. ASSUME step' \in {"close", "reply"}, reply' \in {"ok", "fail"}, UNCHANGED <<pin, slipped>>,
             reply' = "ok" => asked.dir = 2
      PROVE  PinInv'
  <2>1. Touches
    BY <1>1, <1>3 DEF Touches, PinShape
  <2>2. PinShape' /\ G!DrivenIsHeld'
    BY <1>1, <2>1, HeldKept
  <2>3. PinUnderway'
    BY <1>1, <1>3 DEF PinUnderway, Serving, Answering
  <2>4. G!ReadIsWire'
    BY <1>3 DEF G!ReadIsWire, G!Levels
  <2>5. QED
    BY <2>2, <2>3, <2>4
<1>4. CASE G!Pad
  <2> DEFINE p == [pin[asked.pin] EXCEPT !.gpio = TRUE]
  <2>1. p \in PinStates /\ p.gpio /\ p.out = pin[asked.pin].out /\ p.level = pin[asked.pin].level
    BY <1>2 DEF PinStates
  <2>2. build = "old" /\ step = "pad"
    BY <1>4 DEF G!Pad
  <2>3. CASE "pins_debug" \notin nodes
    BY <1>1, <1>3, <1>4, <2>2, <2>3 DEF G!Pad, G!Exit
  <2>4. CASE "pins_debug" \in nodes
    <3>1. G!Echo(p) /\ step' = "export" /\ reply' = "none"
      BY <1>1, <1>4, <2>2, <2>4 DEF G!Pad, G!Goto
    <3> HIDE DEF p
    <3>2. /\ pin' \in [Pins -> PinStates] /\ slipped' \in BOOLEAN
          /\ \A q \in Pins : q # asked.pin => pin'[q] = pin[q]
          /\ pin'[asked.pin] \in {p, pin[asked.pin]}
          /\ ~slipped' => pin'[asked.pin] = p
      BY <1>1, <2>1, <3>1, EchoFacts
    <3>3. Touches
      BY <2>1, <3>2 DEF Touches
    <3>4. PinShape' /\ G!DrivenIsHeld'
      BY <1>1, <3>3, HeldKept
    <3>5. PinUnderway' /\ G!ReadIsWire'
      BY <1>1, <2>1, <2>2, <3>1, <3>2
      DEF PinUnderway, Serving, Answering, G!ReadIsWire, G!Levels
    <3>6. QED
      BY <3>4, <3>5
  <2>5. QED
    BY <2>3, <2>4
<1>5. CASE G!Export
  <2> DEFINE p == [pin[asked.pin] EXCEPT !.exported = TRUE]
  <2>1. /\ p \in PinStates /\ p.gpio = pin[asked.pin].gpio
        /\ p.out = pin[asked.pin].out /\ p.level = pin[asked.pin].level
    BY <1>2 DEF PinStates
  <2>2. step = "export"
    BY <1>5 DEF G!Export
  <2>3. CASE "export" \notin nodes
    BY <1>1, <1>3, <1>5, <2>3 DEF G!Export, G!Exit
  <2>4. CASE "export" \in nodes
    <3>1. G!Echo(p) /\ IF asked.dir = 2 THEN step' = "close" /\ reply' = "ok"
                     ELSE step' = "direction" /\ reply' = "none"
      BY <1>1, <1>5, <2>4 DEF G!Export, G!After, G!Finish, G!Goto
    <3> HIDE DEF p
    <3>2. /\ pin' \in [Pins -> PinStates] /\ slipped' \in BOOLEAN
          /\ \A q \in Pins : q # asked.pin => pin'[q] = pin[q]
          /\ pin'[asked.pin] \in {p, pin[asked.pin]}
          /\ ~slipped' => pin'[asked.pin] = p /\ ~slipped
      BY <1>1, <2>1, <3>1, EchoFacts
    <3>3. Touches
      BY <2>1, <3>2 DEF Touches
    <3>4. PinShape' /\ G!DrivenIsHeld'
      BY <1>1, <3>3, HeldKept
    <3>5. PinUnderway' /\ G!ReadIsWire'
      BY <1>1, <2>1, <2>2, <3>1, <3>2
      DEF PinUnderway, Serving, Answering, G!ReadIsWire, G!Levels
    <3>6. QED
      BY <3>4, <3>5
  <2>5. QED
    BY <2>3, <2>4
<1>6. CASE G!Direction
  <2> DEFINE p == IF asked.dir = 1
                  THEN [pin[asked.pin] EXCEPT !.out = TRUE, !.level = "low"]
                  ELSE [pin[asked.pin] EXCEPT !.out = FALSE]
  <2>1. p \in PinStates /\ p.gpio = pin[asked.pin].gpio /\ p.out = (asked.dir = 1)
    BY <1>2 DEF PinStates, G!Levels
  <2>2. step = "direction" /\ asked.dir # 2
    BY <1>6 DEF G!Direction, PinUnderway
  <2>3. CASE ~pin[asked.pin].exported
    BY <1>1, <1>3, <1>6, <2>3 DEF G!Direction, G!Finish
  <2>4. CASE pin[asked.pin].exported
    <3>1. G!Echo(p) /\ step' = (IF asked.dir = 1 THEN "level" ELSE "read") /\ reply' = "none"
      BY <1>1, <1>6, <2>4 DEF G!Direction, G!Goto
    <3> HIDE DEF p
    <3>2. /\ pin' \in [Pins -> PinStates] /\ slipped' \in BOOLEAN
          /\ \A q \in Pins : q # asked.pin => pin'[q] = pin[q]
          /\ ~slipped' => pin'[asked.pin] = p /\ ~slipped
      BY <1>1, <2>1, <3>1, EchoFacts
    <3>3. Touches
      BY <2>2, <3>2 DEF Touches
    <3>4. PinShape' /\ G!DrivenIsHeld'
      BY <1>1, <3>3, HeldKept
    <3>5. PinUnderway' /\ G!ReadIsWire'
      BY <1>1, <1>2, <2>1, <2>2, <3>1, <3>2
      DEF PinUnderway, Serving, Answering, G!ReadIsWire, G!Levels
    <3>6. QED
      BY <3>4, <3>5
  <2>5. QED
    BY <2>3, <2>4
<1>7. CASE G!Level /\ step' = "check"
  <2> DEFINE p == [pin[asked.pin] EXCEPT !.level = asked.value]
  <2>1. /\ p \in PinStates /\ p.gpio = pin[asked.pin].gpio
        /\ p.out = pin[asked.pin].out /\ p.level = asked.value
    BY <1>2 DEF PinStates
  <2>2. step = "level" /\ asked.dir = 1 /\ step' = "check" /\ reply' = "none"
    BY <1>1, <1>7 DEF G!Level, G!Goto, G!Finish, PinUnderway
  <2>3. /\ pin' \in [Pins -> PinStates] /\ slipped' \in BOOLEAN
        /\ \A q \in Pins : q # asked.pin => pin'[q] = pin[q]
        /\ ~slipped' => ~slipped
    <3> HIDE DEF p
    <3>1. CASE pin[asked.pin].out
      <4>1. G!Echo(p)
        BY <1>7, <3>1 DEF G!Level, G!Finish, p
      <4>2. QED
        BY <1>1, <2>1, <4>1, EchoFacts
    <3>2. CASE ~pin[asked.pin].out
      BY <1>7, <3>2 DEF G!Level, G!Finish, PinShape
    <3>3. QED
      BY <3>1, <3>2
  <2>4. ~slipped' => pin'[asked.pin] = p
    <3>1. SUFFICES ASSUME ~slipped' PROVE pin'[asked.pin] = p
      OBVIOUS
    <3>2. pin[asked.pin].out
      BY <2>2, <2>3, <3>1 DEF PinUnderway
    <3>3. G!Echo(p)
      BY <1>7, <3>2 DEF G!Level, G!Finish
    <3> HIDE DEF p
    <3>4. QED
      BY <1>1, <2>1, <3>1, <3>3, EchoFacts
  <2> HIDE DEF p
  <2>5. Touches
    BY <2>2, <2>3 DEF Touches
  <2>6. PinShape' /\ G!DrivenIsHeld'
    BY <1>1, <2>5, HeldKept
  <2>7. PinUnderway' /\ G!ReadIsWire'
    BY <1>1, <1>2, <2>1, <2>2, <2>3, <2>4
    DEF PinUnderway, Serving, Answering, G!ReadIsWire, G!Levels, Driven
  <2>8. QED
    BY <2>6, <2>7
<1>8. CASE G!Level /\ step' # "check"
  <2>1. /\ step = "level" /\ asked.dir = 1 /\ step' = "close" /\ reply' = "fail"
        /\ UNCHANGED <<pin, slipped>>
    BY <1>1, <1>8 DEF G!Level, G!Goto, G!Finish, PinUnderway
  <2>2. Touches
    BY <2>1 DEF Touches, PinShape
  <2>3. PinShape' /\ G!DrivenIsHeld'
    BY <1>1, <2>2, HeldKept
  <2>4. PinUnderway' /\ G!ReadIsWire'
    BY <1>1, <2>1 DEF PinUnderway, Serving, Answering, G!ReadIsWire, G!Levels
  <2>5. QED
    BY <2>3, <2>4
<1>9. QED
  BY <1>4, <1>5, <1>6, <1>7, <1>8

\* Steps that leave the pins alone and go on, or give the answer.
LEMMA PlainPin ==
  ASSUME PinInv, G!Chip \/ G!Check \/ G!Read \/ G!Close
  PROVE  PinInv'
<1> USE DEF PinInv
<1>1. Serving /\ asked.pin \in Pins /\ UNCHANGED <<pin, slipped, asked, wire, held>>
  BY DEF G!Chip, G!Check, G!Read, G!Close, PinUnderway, Serving, G!static, G!history
<1>2. PinShape' /\ G!DrivenIsHeld'
  <2>1. Touches
    BY <1>1 DEF Touches, PinShape
  <2>2. QED
    BY <1>1, <2>1, HeldKept
<1>3. CASE G!Chip
  BY <1>1, <1>2, <1>3
  DEF G!Chip, G!After, G!Finish, G!Goto, G!Exit, PinUnderway, Serving, Answering,
      G!ReadIsWire, G!Levels,
      PinShape, G!Requests
<1>4. CASE G!Check
  BY <1>1, <1>2, <1>4
  DEF G!Check, G!Finish, PinUnderway, Serving, Answering, Driven, G!ReadIsWire, G!Levels
<1>5. CASE G!Read
  <2>1. step = "read" /\ step' = "close" /\ reply' \in G!Seen(pin[asked.pin]) \cup {"fail"}
    BY <1>5 DEF G!Read, G!Finish
  <2>2. ~slipped => G!Seen(pin[asked.pin]) = {wire[asked.pin]}
    BY <2>1 DEF G!Seen, PinUnderway
  <2>3. asked.dir = 0
    BY <2>1 DEF PinUnderway
  <2>4. G!ReadIsWire'
    BY <1>1, <2>1, <2>2 DEF G!ReadIsWire, G!Levels
  <2>5. PinUnderway'
    BY <1>1, <2>1, <2>3 DEF PinUnderway, Serving, Answering
  <2>6. QED
    BY <1>2, <2>4, <2>5
<1>6. CASE G!Close
  BY <1>1, <1>2, <1>6
  DEF G!Close, G!Goto, PinUnderway, Serving, Answering, G!ReadIsWire, Driven
<1>7. QED
  BY <1>3, <1>4, <1>5, <1>6

\* The two ioctls.
LEMMA IoctlPin ==
  ASSUME PinInv, (G!Pad /\ build # "old") \/ G!Drive
  PROVE  PinInv'
<1> USE DEF PinInv
<1>1. Serving /\ asked.pin \in Pins /\ reply = "none" /\ UNCHANGED <<asked, wire, held>>
  BY DEF G!Pad, G!Drive, PinUnderway, Serving, Answering, G!static
<1>2. pin[asked.pin] \in PinStates /\ asked.value \in G!Levels /\ asked.dir \in {0, 1, 2}
  BY <1>1 DEF PinShape, G!Requests
<1>3. CASE G!Pad /\ build # "old"
  <2> DEFINE p == [pin[asked.pin] EXCEPT !.gpio = TRUE]
  <2>1. p \in PinStates /\ p.gpio /\ p.out = pin[asked.pin].out /\ p.level = pin[asked.pin].level
    BY <1>2 DEF PinStates
  <2>2. pin' = pin \/ pin' = [pin EXCEPT ![asked.pin] = p]
    BY <1>3 DEF G!Pad
  <2>3. /\ step = "pad"
        /\ \/ step' = "reply" /\ reply' = "ok" /\ slipped'
           \/ step' = "reply" /\ reply' = "fail" /\ slipped' = slipped
           \/ /\ step' = "chip" /\ reply' = "none" /\ slipped' = slipped
              /\ pin' = [pin EXCEPT ![asked.pin] = p]
    BY <1>1, <1>3 DEF G!Pad, G!Exit, G!Goto
  <2>4. slipped' \in BOOLEAN
    BY <1>3 DEF G!Pad, PinShape
  <2> HIDE DEF p
  <2>5. Touches
    BY <1>1, <2>1, <2>2, <2>4 DEF Touches, PinShape
  <2>6. PinShape' /\ G!DrivenIsHeld'
    BY <1>1, <2>5, HeldKept
  <2>7. step' = "chip" => pin'[asked.pin].gpio
    BY <1>1, <2>1, <2>3 DEF PinShape
  <2>8. PinUnderway' /\ G!ReadIsWire'
    BY <1>1, <2>3, <2>7 DEF PinUnderway, Serving, Answering, G!ReadIsWire, G!Levels
  <2>9. QED
    BY <2>6, <2>8
<1>4. CASE G!Drive
  <2> DEFINE p == [pin[asked.pin] EXCEPT !.out = asked.dir = 1,
                                       !.level = IF asked.dir = 1 THEN asked.value ELSE @]
  <2>1. /\ p \in PinStates /\ p.gpio = pin[asked.pin].gpio /\ p.out = (asked.dir = 1)
        /\ asked.dir = 1 => p.level = asked.value
    BY <1>2 DEF PinStates
  <2>2. /\ step = "drive" /\ step' = "close" /\ slipped' = slipped
        /\ \/ reply' = "fail" /\ pin' = pin
           \/ /\ reply' \in IF asked.dir = 1 THEN {"ok"} ELSE G!Seen(p)
              /\ pin' = [pin EXCEPT ![asked.pin] = p]
    BY <1>4 DEF G!Drive, G!Finish
  <2>3. asked.dir # 2 /\ (~slipped => pin[asked.pin].gpio)
    BY <2>2 DEF PinUnderway
  <2> HIDE DEF p
  <2>4. Touches
    BY <1>1, <2>1, <2>2, <2>3 DEF Touches, PinShape
  <2>5. PinShape' /\ G!DrivenIsHeld'
    BY <1>1, <2>4, HeldKept
  <2>6. ~slipped /\ asked.dir # 1 => G!Seen(p) = {wire[asked.pin]}
    BY <2>1, <2>3 DEF G!Seen
  <2>7. asked.dir # 1 => "ok" \notin G!Seen(p)
    BY <1>1, <2>1 DEF G!Seen, G!Levels, PinStates, PinShape
  <2>8. reply' = "ok" => asked.dir = 1 /\ pin'[asked.pin] = p
    BY <1>1, <2>2, <2>7 DEF PinShape
  <2>9. G!ReadIsWire'
    BY <1>1, <2>2, <2>6 DEF G!ReadIsWire, G!Levels
  <2>10. PinUnderway'
    BY <1>1, <2>1, <2>2, <2>3, <2>8 DEF PinUnderway, Serving, Answering, Driven
  <2>11. QED
    BY <2>5, <2>9, <2>10
<1>5. QED
  BY <1>3, <1>4

LEMMA EndPin ==
  ASSUME PinInv, G!Reply \/ G!Die \/ G!PowerCycle
  PROVE  PinInv'
<1> USE DEF PinInv
<1>1. step' = "idle" /\ reply' = "none" /\ asked' = G!NoRequest
  BY DEF G!Reply, G!Die, G!PowerCycle
<1>2. G!NoRequest \in G!Requests /\ G!Reset \in PinStates
  BY DEF G!NoRequest, G!Requests, G!Levels, G!Reset, PinStates
<1>3. PinUnderway' /\ G!ReadIsWire'
  BY <1>1 DEF PinUnderway, Serving, Answering, G!ReadIsWire, G!Levels
<1>4. CASE G!Reply
  <2>1. CASE reply = "ok" /\ asked.dir = 1 /\ port /\ ~slipped
    <3>1. asked.pin \in Pins /\ Driven(asked.pin, asked.value) /\ asked.value \in G!Levels
      BY <1>4, <2>1 DEF G!Reply, PinUnderway, Answering, PinShape, G!Requests
    <3>2. held' = [held EXCEPT ![asked.pin] = asked.value] /\ UNCHANGED <<pin, slipped, wire>>
      BY <1>4, <2>1 DEF G!Reply
    <3>3. PinShape'
      BY <1>1, <1>2, <3>1, <3>2 DEF PinShape
    <3>4. G!DrivenIsHeld'
      BY <3>1, <3>2 DEF G!DrivenIsHeld, Driven, PinShape
    <3>5. QED
      BY <1>3, <3>3, <3>4
  <2>2. CASE ~(reply = "ok" /\ asked.dir = 1 /\ port /\ ~slipped)
    <3>1. UNCHANGED <<held, pin, slipped, wire>>
      BY <1>4, <2>2 DEF G!Reply
    <3>2. QED
      BY <1>1, <1>2, <1>3, <3>1 DEF PinShape, G!DrivenIsHeld
  <2>3. QED
    BY <2>1, <2>2
<1>5. CASE G!Die
  BY <1>1, <1>2, <1>3, <1>5 DEF G!Die, G!history, PinShape, G!DrivenIsHeld
<1>6. CASE G!PowerCycle
  BY <1>1, <1>2, <1>3, <1>6 DEF G!PowerCycle, PinShape, G!DrivenIsHeld
<1>7. QED
  BY <1>4, <1>5, <1>6

LEMMA StutterPin == PinInv /\ UNCHANGED G!vars => PinInv'
BY DEF PinInv, G!vars, PinShape, PinUnderway, G!DrivenIsHeld, G!ReadIsWire, Serving,
       Answering, Driven

LEMMA NextPin == PinInv /\ [G!Next]_G!vars => PinInv'
<1> SUFFICES ASSUME PinInv, [G!Next]_G!vars PROVE PinInv'
  OBVIOUS
<1>1. ASSUME NEW r \in G!Requests, NEW w \in G!Levels, G!Receive(r, w) PROVE PinInv'
  BY <1>1, ReceivePin
<1>2. CASE G!Pad
  BY <1>2, SysfsPin, IoctlPin
<1>3. CASE G!Export \/ G!Direction \/ G!Level
  <2>1. step \in {"export", "direction", "level"}
    BY <1>3 DEF G!Export, G!Direction, G!Level
  <2>2. QED
    BY <1>3, <2>1, SysfsPin
<1>4. CASE G!Chip \/ G!Check \/ G!Read \/ G!Close
  BY <1>4, PlainPin
<1>5. CASE G!Drive
  BY <1>5, IoctlPin
<1>6. CASE G!Reply \/ G!Die \/ G!PowerCycle
  BY <1>6, EndPin
<1>7. CASE UNCHANGED G!vars
  BY <1>7, StutterPin
<1>8. QED
  BY <1>1, <1>2, <1>3, <1>4, <1>5, <1>6, <1>7 DEF G!Next


\* Every behaviour of the port is one of each test's, with stuttering.
LEMMA ChargeRuns == BbatSpec => Spec
<1>1. BbatInit => Init
  BY DEF BbatInit
<1>2. [BbatNext /\ UNCHANGED unit]_<<vars, gvars, unit>> => [Next]_vars
  BY DEF BbatNext
<1>3. QED
  BY <1>1, <1>2, PTL DEF BbatSpec, Spec

LEMMA GpioRuns == BbatSpec => G!Spec
<1>1. BbatInit => G!Init
  BY DEF BbatInit
<1>2. [BbatNext /\ UNCHANGED unit]_<<vars, gvars, unit>> => [G!Next]_G!vars
  BY DEF BbatNext, gvars, G!vars
<1>3. QED
  BY <1>1, <1>2, PTL DEF BbatSpec, G!Spec

LEMMA PinInvariant == BbatSpec => []PinInv
<1>1. G!Spec => []PinInv
  BY InitPin, NextPin, PTL DEF G!Spec
<1>2. QED
  BY <1>1, GpioRuns, PTL

\* A pin answered as driven is driven as asked, until it is asked for again,
\* whatever charging tests the port serves: DrivenIsHeld, for any table of
\* pins.
THEOREM PinsHeld == BbatSpec => []DrivenIsHeld
<1>1. PinInv => DrivenIsHeld
  BY DEF PinInv, DrivenIsHeld
<1>2. QED
  BY <1>1, PinInvariant, PTL

\* A level that is answered was read from the wire: ReadIsWire, for any table
\* of pins.
THEOREM LevelsRead == BbatSpec => []ReadIsWire
<1>1. PinInv => ReadIsWire
  BY DEF PinInv, ReadIsWire
<1>2. QED
  BY <1>1, PinInvariant, PTL

\* What is proved of the charging tests holds on a port that serves the gpio
\* test, too.
THEOREM ChargingHeld ==
  BbatSpec => [](LimitsAgree /\ NotChargingOnceOff /\ AnswerIsMeasured)
BY ChargeRuns, CurrentsHeld, DisconnectHeld, AnswerMeasured, PTL
=============================================================================
