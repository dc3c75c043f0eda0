-------------------------- MODULE BtWifiMacProofs ---------------------------
(***************************************************************************)
(* Theorems about BtWifiMac, for any addresses, any factory content and    *)
(* any history of frames, errors, restarts and power cuts.                 *)
(***************************************************************************)
EXTENDS BtWifiMac, TLAPS

\* The steps of a write that has chosen its addresses.
Writing == {"wifi_open", "wifi_write", "bt_open", "bt_write", "bt_root", "sync", "props"}
Chosen == pc \in Writing \/ ret > 0

\* Where ret and the answers stand at each step.
Answered ==
  /\ pc \in {"idle", "read", "choose", "wifi_open", "wifi_write", "bt_open", "bt_write"}
     => ret <= 0
  /\ pc = "props" => ret > 0
  /\ pc # "done" => host = "none" /\ ~cp.passed
  /\ pc = "done" /\ host = "ok" => ret > 0

\* Which frames get as far as each step.
Frame ==
  /\ pc # "idle" => frame \in Frames
  /\ pc = "read" => Reads(frame)
  /\ pc = "choose" \/ Chosen => ~Reads(frame) /\ frame.crc = "good" /\ ~BadWifi(frame)
  /\ pc = "choose" => \A d \in Devices : before[d] = Readable(files, d)
  /\ pc = "done" /\ cp.passed /\ DOMAIN frame.addr # {} /\ ~BadWifi(frame)
     => cp.subtype = frame.subtype \ Local /\ host = "none"

\* The addresses chosen are those that are due.
PlanIsDue ==
  Chosen =>
    /\ plan \in [Devices -> Addrs]
    /\ plan["wifi"] \notin Multicast
    /\ \A d \in Devices \ faults : plan[d] \in Due(d)

\* An error on the BT file that ret does not tell of is one of the read.
BtFault ==
  /\ pc \in {"wifi_open", "wifi_write", "bt_open", "bt_write"} \/ ret > 0
  /\ "bt" \in faults
  => "bt" \notin Named(frame)

\* What has been written so far is in the files, and after sync() on the
\* medium.
Written ==
  /\ pc \in {"bt_open", "bt_write", "bt_root", "sync"} /\ "wifi" \notin faults
     => files["wifi"] = plan["wifi"]
  /\ pc \in {"bt_root", "sync"} /\ ret > 0 => files["bt"] = plan["bt"]
  /\ pc \in {"props", "respond", "done"} /\ ret > 0 =>
       /\ "wifi" \notin faults => medium["wifi"] = plan["wifi"]
       /\ medium["bt"] = plan["bt"]

\* Nothing ever writes the root copy of the WIFI address.
WifiRootKept == medium["wifi_root"] = files["wifi_root"]

IInv ==
  /\ TypeOK /\ Answered /\ Frame /\ PlanIsDue /\ BtFault /\ Written
  /\ WifiRootKept /\ NoMulticastWifi

\* A frame with addresses is a good write of the devices it names.
LEMMA FrameFacts ==
  ASSUME NEW f \in Frames
  PROVE  /\ f.subtype \in SUBSET Bits /\ f.crc \in {"bad", "outer", "good"}
         /\ ~Reads(f) /\ f.crc = "good" => f.addr \in [Named(f) -> Addrs]
         /\ DOMAIN f.addr # {} => ~Reads(f) /\ f.crc = "good" /\ DOMAIN f.addr = Named(f)
         /\ Named(f) \subseteq Devices
<1>1. /\ f \in [subtype : SUBSET Bits, crc : {"bad", "outer", "good"},
                 addr : UNION {[S -> Addrs] : S \in SUBSET Devices}]
      /\ DOMAIN f.addr = IF Reads(f) \/ f.crc # "good" THEN {} ELSE Named(f)
  BY DEF Frames
<1>2. PICK S \in SUBSET Devices : f.addr \in [S -> Addrs]
  BY <1>1
<1>3. QED
  BY <1>1 DEF Named

LEMMA DueKept == ASSUME UNCHANGED <<frame, before, rand>> PROVE \A d : Due(d)' = Due(d)
BY DEF Due, MadeUp

LEMMA InitIInv == Init => IInv
<1> SUFFICES ASSUME Init PROVE IInv
  OBVIOUS
<1>1. TypeOK
  <2>1. files \in [Files -> Addrs \cup {Absent}]
    BY BtWifiMacAssumption DEF Init
  <2>2. plan \in Plans
    <3>1. NoAddrs \in [{} -> Addrs]
      BY DEF NoAddrs
    <3>2. {} \in SUBSET Devices
      OBVIOUS
    <3>3. QED
      BY <3>1 DEF Init, Plans
  <2>3. QED
    BY <2>1, <2>2 DEF Init, TypeOK, Contents, Steps, Answers, NotPassed
<1>2. Answered /\ Frame /\ PlanIsDue /\ BtFault /\ Written
  BY DEF Init, Answered, Frame, PlanIsDue, BtFault, Written, Chosen, Writing, NotPassed
<1>3. WifiRootKept /\ NoMulticastWifi
  BY BtWifiMacAssumption DEF Init, WifiRootKept, NoMulticastWifi
<1>4. QED
  BY <1>1, <1>2, <1>3 DEF IInv

\* What a handler that has ended leaves behind.
LEMMA QuietTypes ==
  ASSUME Quiet
  PROVE  /\ pc' \in Steps /\ frame' \in Frames \cup {NoFrame}
         /\ plan' \in Plans /\ ret' \in {-1, 0, 1}
         /\ faults' \subseteq Devices /\ before' \in [Devices -> Contents] /\ host' \in Answers
         /\ cp' \in [passed : BOOLEAN, subtype : SUBSET Bits]
<1>1. NoAddrs \in [{} -> Addrs] /\ {} \in SUBSET Devices
  BY DEF NoAddrs
<1>2. plan' \in Plans
  BY <1>1 DEF Quiet, Plans
<1>3. QED
  BY <1>2 DEF Quiet, Steps, Contents, Answers, NotPassed

LEMMA ReceiveIInv == ASSUME NEW f \in Frames, IInv, Receive(f) PROVE IInv'
<1>1. /\ pc = "idle" /\ frame' = f /\ ret <= 0 /\ host = "none" /\ ~cp.passed
      /\ pc' \in {"done", "read", "choose", "respond"}
      /\ UNCHANGED <<files, medium, rand, props, plan, faults>>
  BY DEF Receive, disk, IInv, Answered
<1>2. f.subtype \in SUBSET Bits
  BY FrameFacts
<1>3. TypeOK'
  <2>1. before' \in [Devices -> Contents]
    BY DEF Receive, IInv, TypeOK, Readable, RootOf, Files, Devices
  <2>2. cp' \in [passed : BOOLEAN, subtype : SUBSET Bits]
    <3>1. \A subtype \in SUBSET Bits : Passed(subtype) \in [passed : BOOLEAN, subtype : SUBSET Bits]
      BY DEF Passed
    <3>2. NotPassed \in [passed : BOOLEAN, subtype : SUBSET Bits]
      BY DEF NotPassed
    <3>3. cp' \in {cp, Passed(f.subtype), Passed({}), NotPassed}
      BY DEF Receive
    <3>4. QED
      BY <1>2, <3>1, <3>2, <3>3 DEF IInv, TypeOK
  <2>3. ret' \in {-1, 0, 1} /\ host' \in Answers /\ pc' \in Steps
    BY DEF Receive, IInv, TypeOK, Answers, Steps
  <2>4. QED
    BY <1>1, <2>1, <2>2, <2>3 DEF IInv, TypeOK
<1>4. Answered'
  BY <1>1 DEF Receive, Answered
<1>5. ~(ret' > 0) /\ ~(ret > 0) /\ pc' \notin Writing /\ ~Chosen'
  BY <1>1 DEF Receive, IInv, TypeOK, Chosen, Writing
<1>6. Frame'
  <2>1. /\ pc' = "read" => Reads(f)
        /\ pc' = "choose" =>
             /\ ~Reads(f) /\ f.crc = "good" /\ ~BadWifi(f)
             /\ \A d \in Devices : before'[d] = Readable(files', d)
    BY <1>1 DEF Receive
  <2>2. pc' = "done" /\ cp'.passed => DOMAIN f.addr = {} \/ BadWifi(f)
    BY FrameFacts DEF Receive, checkValid
  <2>3. /\ Reads(frame)' <=> Reads(f)
        /\ BadWifi(frame)' <=> BadWifi(f)
        /\ \A d \in Devices : Readable(files, d)' = Readable(files', d)
    BY <1>1
  <2>4. QED
    BY <1>1, <1>5, <2>1, <2>2 DEF Frame
<1>7. PlanIsDue' /\ BtFault' /\ Written' /\ WifiRootKept' /\ NoMulticastWifi'
  BY <1>1, <1>5 DEF IInv, PlanIsDue, BtFault, Written, WifiRootKept, NoMulticastWifi
<1>8. QED
  BY <1>3, <1>4, <1>6, <1>7 DEF IInv

LEMMA ReadIInv == IInv /\ Read => IInv'
<1> SUFFICES ASSUME IInv, Read PROVE IInv'
  OBVIOUS
<1>1. TypeOK'
  BY DEF Read, disk, IInv, TypeOK, Steps, Answers, Passed, NotPassed, Bits
<1>2. Answered'
  BY DEF Read, Answered
<1>3. Frame'
  BY FrameFacts DEF Read, IInv, Frame, Chosen, Writing
<1>4. PlanIsDue'
  BY DueKept DEF Read, disk, IInv, PlanIsDue, Chosen, Writing
<1>5. BtFault' /\ Written'
  BY DEF Read, IInv, TypeOK, Answered, BtFault, Written
<1>6. WifiRootKept' /\ NoMulticastWifi'
  BY DEF Read, disk, IInv, WifiRootKept, NoMulticastWifi
<1>7. QED
  BY <1>1, <1>2, <1>3, <1>4, <1>5, <1>6 DEF IInv

LEMMA ChooseIInv == IInv /\ Choose => IInv'
<1> SUFFICES ASSUME IInv, Choose PROVE IInv'
  OBVIOUS
<1>1. TypeOK'
  <2>1. plan' \in [Devices -> Addrs]
    BY DEF Choose
  <2>2. plan' \in Plans
    BY <2>1 DEF Plans
  <2>3. QED
    BY <2>2 DEF Choose, disk, IInv, TypeOK, Steps
<1>2. Answered'
  BY DEF Choose, IInv, Answered
<1>3. Frame'
  BY DEF Choose, IInv, Frame
<1>4. PlanIsDue'
  <2>1. /\ ~Reads(frame) /\ frame.crc = "good" /\ ~BadWifi(frame) /\ frame \in Frames
        /\ \A d \in Devices : before[d] = Readable(files, d)
    BY DEF Choose, IInv, Frame
  <2>2. frame.addr \in [Named(frame) -> Addrs]
    BY <2>1, FrameFacts
  <2>3. \A d \in Devices \ faults' : plan'[d] \in Due(d)'
    <3>1. \A d \in Devices \ faults' : plan'[d] \in Due(d)
      BY <2>1 DEF Choose, Due, Fallback
    <3>2. QED
      BY <3>1, DueKept DEF Choose, disk
  <2>4. plan'["wifi"] \notin Multicast
    <3>1. CASE "wifi" \in Named(frame)
      BY <2>1, <2>2, <3>1 DEF Choose, BadWifi, Devices
    <3>2. CASE "wifi" \notin Named(frame)
      <4>1. PICK unread \in BOOLEAN :
              plan'["wifi"] \in MadeUp("wifi", unread)
                                  \cup ({files["wifi"], files["wifi_root"]} \cap Addrs)
        BY <3>2 DEF Choose, Fallback, Readable, RootOf, Devices
      <4>2. MadeUp("wifi", unread) \cap Multicast = {}
        BY BtWifiMacAssumption DEF MadeUp, IInv, TypeOK
      <4>3. QED
        BY <4>1, <4>2 DEF IInv, NoMulticastWifi
    <3>3. QED
      BY <3>1, <3>2
  <2>5. QED
    BY <2>3, <2>4 DEF Choose, PlanIsDue
<1>5. BtFault' /\ Written'
  BY DEF Choose, BtFault, Written
<1>6. WifiRootKept' /\ NoMulticastWifi'
  BY DEF Choose, disk, IInv, WifiRootKept, NoMulticastWifi
<1>7. QED
  BY <1>1, <1>2, <1>3, <1>4, <1>5, <1>6 DEF IInv

LEMMA OpenWifiIInv == IInv /\ OpenWifi => IInv'
<1> SUFFICES ASSUME IInv, OpenWifi PROVE IInv'
  OBVIOUS
<1>1. TypeOK'
  BY DEF OpenWifi, IInv, TypeOK, Steps, Contents, Devices
<1>2. Answered'
  BY DEF OpenWifi, IInv, Answered
<1>3. Frame'
  BY DEF OpenWifi, IInv, Frame, Chosen, Writing
<1>4. PlanIsDue'
  BY DueKept DEF OpenWifi, IInv, PlanIsDue, Chosen, Writing
<1>5. BtFault' /\ Written'
  BY DEF OpenWifi, IInv, BtFault, Written
<1>6. WifiRootKept' /\ NoMulticastWifi'
  BY BtWifiMacAssumption DEF OpenWifi, IInv, TypeOK, WifiRootKept, NoMulticastWifi,
     Files
<1>7. QED
  BY <1>1, <1>2, <1>3, <1>4, <1>5, <1>6 DEF IInv

LEMMA WriteWifiIInv == IInv /\ WriteWifi => IInv'
<1> SUFFICES ASSUME IInv, WriteWifi PROVE IInv'
  OBVIOUS
<1>1. TypeOK'
  <2>1. plan["wifi"] \in Contents
    BY DEF WriteWifi, IInv, PlanIsDue, Chosen, Writing, Contents, Devices
  <2>2. QED
    BY <2>1 DEF WriteWifi, IInv, TypeOK, Steps, Devices
<1>2. Answered'
  BY DEF WriteWifi, IInv, Answered
<1>3. Frame'
  BY DEF WriteWifi, IInv, Frame, Chosen, Writing
<1>4. PlanIsDue'
  BY DueKept DEF WriteWifi, IInv, PlanIsDue, Chosen, Writing
<1>5. BtFault' /\ Written'
  BY DEF WriteWifi, IInv, TypeOK, BtFault, Written, Files
<1>6. WifiRootKept' /\ NoMulticastWifi'
  BY DEF WriteWifi, IInv, TypeOK, PlanIsDue, Chosen, Writing, WifiRootKept,
     NoMulticastWifi, Files
<1>7. QED
  BY <1>1, <1>2, <1>3, <1>4, <1>5, <1>6 DEF IInv

LEMMA OpenBtIInv == IInv /\ OpenBt => IInv'
<1> SUFFICES ASSUME IInv, OpenBt PROVE IInv'
  OBVIOUS
<1>1. TypeOK'
  BY DEF OpenBt, IInv, TypeOK, Steps, Contents, Devices
<1>2. Answered'
  BY DEF OpenBt, IInv, Answered
<1>3. Frame'
  BY DEF OpenBt, IInv, Frame, Chosen, Writing
<1>4. PlanIsDue'
  BY DueKept DEF OpenBt, IInv, PlanIsDue, Chosen, Writing
<1>5. BtFault' /\ Written'
  BY DEF OpenBt, IInv, TypeOK, BtFault, Written, Files
<1>6. WifiRootKept' /\ NoMulticastWifi'
  BY DEF OpenBt, IInv, TypeOK, WifiRootKept, NoMulticastWifi, Files
<1>7. QED
  BY <1>1, <1>2, <1>3, <1>4, <1>5, <1>6 DEF IInv

LEMMA WriteBtIInv == IInv /\ WriteBt => IInv'
<1> SUFFICES ASSUME IInv, WriteBt PROVE IInv'
  OBVIOUS
<1>1. TypeOK'
  <2>1. plan["bt"] \in Contents
    BY DEF WriteBt, IInv, PlanIsDue, Chosen, Writing, Contents, Devices
  <2>2. QED
    BY <2>1 DEF WriteBt, IInv, TypeOK, Steps, Devices
<1>2. Answered'
  BY DEF WriteBt, IInv, Answered
<1>3. Frame'
  BY DEF WriteBt, IInv, Frame, Chosen, Writing
<1>4. PlanIsDue'
  BY DueKept DEF WriteBt, IInv, PlanIsDue, Chosen, Writing
<1>5. BtFault' /\ Written'
  BY DEF WriteBt, IInv, TypeOK, BtFault, Written, Files
<1>6. WifiRootKept' /\ NoMulticastWifi'
  BY DEF WriteBt, IInv, TypeOK, WifiRootKept, NoMulticastWifi, Files
<1>7. QED
  BY <1>1, <1>2, <1>3, <1>4, <1>5, <1>6 DEF IInv

LEMMA RemoveRootIInv == IInv /\ RemoveRoot => IInv'
<1> SUFFICES ASSUME IInv, RemoveRoot PROVE IInv'
  OBVIOUS
<1>1. TypeOK'
  BY DEF RemoveRoot, IInv, TypeOK, Contents, Steps
<1>2. Answered'
  BY DEF RemoveRoot, IInv, Answered
<1>3. Frame'
  BY DEF RemoveRoot, IInv, Frame, Chosen, Writing
<1>4. PlanIsDue'
  BY DueKept DEF RemoveRoot, IInv, PlanIsDue, Chosen, Writing
<1>5. BtFault' /\ Written'
  BY DEF RemoveRoot, IInv, TypeOK, BtFault, Written, Files
<1>6. WifiRootKept' /\ NoMulticastWifi'
  BY DEF RemoveRoot, IInv, TypeOK, WifiRootKept, NoMulticastWifi, Files
<1>7. QED
  BY <1>1, <1>2, <1>3, <1>4, <1>5, <1>6 DEF IInv

LEMMA SyncIInv == IInv /\ Sync => IInv'
<1> SUFFICES ASSUME IInv, Sync PROVE IInv'
  OBVIOUS
<1>1. TypeOK'
  BY DEF Sync, IInv, TypeOK, Steps
<1>2. Answered'
  BY DEF Sync, IInv, Answered
<1>3. Frame'
  BY DEF Sync, IInv, Frame, Chosen, Writing
<1>4. PlanIsDue'
  BY DueKept DEF Sync, IInv, PlanIsDue, Chosen, Writing
<1>5. BtFault' /\ Written'
  BY DEF Sync, IInv, BtFault, Written
<1>6. WifiRootKept' /\ NoMulticastWifi'
  BY DEF Sync, IInv, WifiRootKept, NoMulticastWifi
<1>7. QED
  BY <1>1, <1>2, <1>3, <1>4, <1>5, <1>6 DEF IInv

LEMMA SetPropsIInv == IInv /\ SetProps => IInv'
<1> SUFFICES ASSUME IInv, SetProps PROVE IInv'
  OBVIOUS
<1>1. TypeOK'
  <2>1. plan \in [Devices -> Addrs]
    BY DEF SetProps, IInv, PlanIsDue, Chosen, Writing
  <2>2. QED
    BY <2>1 DEF SetProps, disk, IInv, TypeOK, Steps
<1>2. Answered'
  BY DEF SetProps, IInv, Answered
<1>3. Frame'
  BY DEF SetProps, IInv, Answered, Frame, Chosen
<1>4. PlanIsDue'
  BY DueKept DEF SetProps, disk, IInv, Answered, PlanIsDue, Chosen
<1>5. BtFault' /\ Written'
  BY DEF SetProps, disk, IInv, BtFault, Written
<1>6. WifiRootKept' /\ NoMulticastWifi'
  BY DEF SetProps, disk, IInv, WifiRootKept, NoMulticastWifi
<1>7. QED
  BY <1>1, <1>2, <1>3, <1>4, <1>5, <1>6 DEF IInv

LEMMA RespondIInv == IInv /\ Respond => IInv'
<1> SUFFICES ASSUME IInv, Respond PROVE IInv'
  OBVIOUS
<1>1. TypeOK'
  <2>1. frame.subtype \in SUBSET Bits
    BY FrameFacts DEF Respond, IInv, Frame
  <2>2. Passed(frame.subtype \ Local) \in [passed : BOOLEAN, subtype : SUBSET Bits]
    BY <2>1 DEF Passed
  <2>3. QED
    BY <2>2 DEF Respond, disk, IInv, TypeOK, Steps, Answers
<1>2. Answered'
  BY DEF Respond, IInv, Answered
<1>3. Frame'
  BY DEF Respond, IInv, Answered, Frame, Chosen, Writing, Passed
<1>4. PlanIsDue'
  BY DueKept DEF Respond, disk, IInv, PlanIsDue, Chosen, Writing
<1>5. BtFault' /\ Written'
  BY DEF Respond, disk, IInv, BtFault, Written
<1>6. WifiRootKept' /\ NoMulticastWifi'
  BY DEF Respond, disk, IInv, WifiRootKept, NoMulticastWifi
<1>7. QED
  BY <1>1, <1>2, <1>3, <1>4, <1>5, <1>6 DEF IInv

LEMMA ReturnIInv == IInv /\ Return => IInv'
<1> SUFFICES ASSUME IInv, Return PROVE IInv'
  OBVIOUS
<1>1. TypeOK'
  BY QuietTypes DEF Return, disk, IInv, TypeOK
<1>2. Answered'
  BY DEF Return, Quiet, Answered, NotPassed
<1>3. Frame'
  BY DEF Return, Quiet, Frame, Chosen, Writing
<1>4. PlanIsDue'
  BY DEF Return, Quiet, PlanIsDue, Chosen, Writing
<1>5. BtFault' /\ Written'
  BY DEF Return, Quiet, BtFault, Written
<1>6. WifiRootKept' /\ NoMulticastWifi'
  BY DEF Return, disk, IInv, WifiRootKept, NoMulticastWifi
<1>7. QED
  BY <1>1, <1>2, <1>3, <1>4, <1>5, <1>6 DEF IInv

LEMMA RestartIInv == IInv /\ Restart => IInv'
<1> SUFFICES ASSUME IInv, Restart PROVE IInv'
  OBVIOUS
<1>1. TypeOK'
  BY QuietTypes DEF Restart, disk, IInv, TypeOK
<1>2. Answered'
  BY DEF Restart, Quiet, Answered, NotPassed
<1>3. Frame'
  BY DEF Restart, Quiet, Frame, Chosen, Writing
<1>4. PlanIsDue'
  BY DEF Restart, Quiet, PlanIsDue, Chosen, Writing
<1>5. BtFault' /\ Written'
  BY DEF Restart, Quiet, BtFault, Written
<1>6. WifiRootKept' /\ NoMulticastWifi'
  BY DEF Restart, disk, IInv, WifiRootKept, NoMulticastWifi
<1>7. QED
  BY <1>1, <1>2, <1>3, <1>4, <1>5, <1>6 DEF IInv

LEMMA PowerCutIInv == IInv /\ PowerCut => IInv'
<1> SUFFICES ASSUME IInv, PowerCut PROVE IInv'
  OBVIOUS
<1>1. TypeOK'
  BY QuietTypes DEF PowerCut, IInv, TypeOK
<1>2. Answered'
  BY DEF PowerCut, Quiet, Answered, NotPassed
<1>3. Frame'
  BY DEF PowerCut, Quiet, Frame, Chosen, Writing
<1>4. PlanIsDue'
  BY DEF PowerCut, Quiet, PlanIsDue, Chosen, Writing
<1>5. BtFault' /\ Written'
  BY DEF PowerCut, Quiet, BtFault, Written
<1>6. WifiRootKept' /\ NoMulticastWifi'
  BY DEF PowerCut, IInv, WifiRootKept, NoMulticastWifi, Files
<1>7. QED
  BY <1>1, <1>2, <1>3, <1>4, <1>5, <1>6 DEF IInv

LEMMA StutterIInv == IInv /\ UNCHANGED vars => IInv'
<1> SUFFICES ASSUME IInv, UNCHANGED vars PROVE IInv'
  OBVIOUS
<1>1. TypeOK' /\ Answered' /\ Frame'
  BY DEF vars, IInv, TypeOK, Answered, Frame, Chosen
<1>2. PlanIsDue' /\ BtFault' /\ Written' /\ WifiRootKept' /\ NoMulticastWifi'
  BY DueKept DEF vars, IInv, PlanIsDue, Chosen, BtFault, Written, WifiRootKept,
     NoMulticastWifi
<1>3. QED
  BY <1>1, <1>2 DEF IInv

LEMMA NextIInv == IInv /\ [Next]_vars => IInv'
<1> SUFFICES ASSUME IInv, [Next]_vars PROVE IInv'
  OBVIOUS
<1>1. ASSUME NEW f \in Frames, Receive(f) PROVE IInv'
  BY <1>1, ReceiveIInv
<1>2. QED
  BY <1>1, ReadIInv, ChooseIInv, OpenWifiIInv, WriteWifiIInv, OpenBtIInv, WriteBtIInv,
     RemoveRootIInv, SyncIInv, SetPropsIInv, RespondIInv, ReturnIInv, RestartIInv,
     PowerCutIInv, StutterIInv DEF Next, Handle

LEMMA Invariant == Spec => []IInv
  BY InitIInv, NextIInv, PTL DEF Spec

----------------------------------------------------------------------------
\* When success is answered, both files are on the medium with what is due
\* (eng_btwifimac_write), an error on the BT file being always answered.
THEOREM AcknowledgedStored == Spec => []AckedIsStored
<1>1. IInv => AckedIsStored
  <2> SUFFICES ASSUME IInv, pc = "done", host = "ok"
               PROVE  /\ \A d \in Devices \ faults : medium[d] \in Due(d)
                      /\ "bt" \in faults => "bt" \notin Named(frame)
                      /\ medium["bt"] \in Addrs
    BY DEF AckedIsStored
  <2>1. ret > 0
    BY DEF IInv, Answered
  <2>2. QED
    BY <2>1 DEF IInv, PlanIsDue, Chosen, BtFault, Written, Devices
<1>2. QED
  BY <1>1, Invariant, PTL

\* A write with IMEI bits goes to the modem without the address bits, and only
\* after its addresses are on the medium (bt_wifi_mac_handler).
THEOREM HandedOnStored == Spec => []HandedOnWhenStored
<1>1. IInv => HandedOnWhenStored
  BY DEF IInv, Frame, PlanIsDue, Chosen, Written, Devices, HandedOnWhenStored
<1>2. QED
  BY <1>1, Invariant, PTL

\* No multicast address gets into the WIFI file, however the addresses that a
\* frame does not name are found.
THEOREM WifiNeverMulticast == Spec => []NoMulticastWifi
<1>1. IInv => NoMulticastWifi
  BY DEF IInv
<1>2. QED
  BY <1>1, Invariant, PTL

\* What set_mac is given is what the medium holds.
THEOREM PropsAreStored == Spec => PropsFromMedium
<1>1. IInv /\ [Next]_vars => [PropsFollow]_vars
  <2> SUFFICES ASSUME IInv, Next, NEW d \in Devices \ faults, props'[d] \notin {props[d], Absent}
               PROVE  props'[d] = medium[d]
    BY DEF PropsFollow
  <2>1. SetProps
    BY DEF Next, Handle, Receive, Read, Choose, OpenWifi, WriteWifi, OpenBt, WriteBt,
       RemoveRoot, Sync, Respond, Return, Restart, PowerCut
  <2>2. QED
    BY <2>1 DEF SetProps, IInv, Answered, Written, Devices
<1>2. QED
  BY <1>1, Invariant, PTL DEF Spec, PropsFromMedium
=============================================================================
