----------------------------- MODULE BtWifiMac ------------------------------
(***************************************************************************)
(* The Bluetooth and WIFI addresses, diag command 0x5E:                    *)
(*   libmiscdata/miscdata_rw.c   bt_wifi_mac_handler                       *)
(*   libmiscdata/bt_wifi_mac.c   btwifi_checkValid, btwifiimei,            *)
(*                               eng_btwifimac_write, write_mac2file,      *)
(*                               eng_btwifimac_read, mac_rand              *)
(* A frame asks to read or write any of the two addresses, here, and of    *)
(* the IMEIs, in the modem (CP).  A write truncates and rewrites both      *)
(* files, WIFI first, and sync()s once at the end.  One diag port: the     *)
(* other actors are the power switch, the death of the process, the I/O    *)
(* errors and the modem, which gets the frames this handler passes on.     *)
(***************************************************************************)
EXTENDS Integers

CONSTANTS
  Addrs,        \* addresses
  Multicast,    \* addresses whose first byte has one of its two low bits set
  FactoryFiles, \* the files a device may start with
  RandFiles,    \* what rand_mac.txt may hold: two addresses, or Absent
  Absent,       \* the content of a file that does not exist
  Empty         \* the content of a file truncated and not yet written

Devices == {"wifi", "bt"}
Files == {"wifi", "bt", "wifi_root", "bt_root"}
RootOf(d) == IF d = "wifi" THEN "wifi_root" ELSE "bt_root"

ASSUME BtWifiMacAssumption ==
  /\ Multicast \subseteq Addrs
  /\ Addrs \ Multicast # {}
  /\ FactoryFiles \subseteq [Files -> Addrs \cup {Absent}]
  /\ \A fs \in FactoryFiles : {fs["wifi"], fs["wifi_root"]} \cap Multicast = {}
  /\ RandFiles \subseteq [Devices -> Addrs] \cup {Absent}
  /\ \A r \in RandFiles : r # Absent => r["wifi"] \notin Multicast
  /\ Absent \notin Addrs /\ Empty \notin Addrs /\ Absent # Empty

Contents == Addrs \cup {Absent, Empty}

\* What eng_btwifimac_read would return: the root copy stands in only when
\* there is no main file, not when the main file is empty.
Readable(fs, d) == IF fs[d] = Absent THEN fs[RootOf(d)] ELSE fs[d]

----------------------------------------------------------------------------
(* Frames.  The subtype is a set of bits; IMEI stands for any of the bits  *)
(* that are neither READ nor an address.  crc: "bad" fails the check of    *)
(* the whole frame, "outer" passes it but not the check of the fixed-size  *)
(* body, made of writes only, "good" passes both.  addr holds the          *)
(* addresses of the devices a write names.                                 *)

Bits == {"READ", "BT", "WIFI", "IMEI"}
Local == {"BT", "WIFI"}
BitOf(d) == IF d = "wifi" THEN "WIFI" ELSE "BT"
Reads(f) == "READ" \in f.subtype
Named(f) == {d \in Devices : BitOf(d) \in f.subtype}

Frames ==
  {f \in [subtype : SUBSET Bits, crc : {"bad", "outer", "good"},
          addr : UNION {[S -> Addrs] : S \in SUBSET Devices}] :
     /\ Reads(f) => f.crc # "outer"
     /\ DOMAIN f.addr = IF Reads(f) \/ f.crc # "good" THEN {} ELSE Named(f)}

NoFrame == [subtype |-> {}, crc |-> "bad", addr |-> [d \in {} |-> 0]]

\* btwifi_checkValid: 0, 1 (the addresses only) or 2 (IMEIs as well).  The
\* READ bit is not among the bits that count as other commands.
checkValid(f) ==
  IF f.crc = "bad" \/ Named(f) = {} THEN 0
  ELSE IF "IMEI" \in f.subtype THEN 2 ELSE 1

\* Mutation: the first byte is tested only when no BT address comes with it.
BadWifiAlone(f) == DOMAIN f.addr = {"wifi"} /\ f.addr["wifi"] \in Multicast

BadWifi(f) == "wifi" \in DOMAIN f.addr /\ f.addr["wifi"] \in Multicast

----------------------------------------------------------------------------
VARIABLES
  files,    \* contents of the address files, as a read returns them
  medium,   \* contents a power cut leaves
  rand,     \* rand_mac.txt; nothing writes it any more, :357
  props,    \* vendor.sys.mac.wifi and .bluetooth; Absent while unset
  pc,       \* the step the handler is at
  frame,    \* the frame it serves
  plan,     \* the addresses it writes
  ret,      \* ret of write_mac2file and eng_btwifimac_write
  faults,   \* the devices whose file an I/O call of this frame failed on
  before,   \* what a read would have returned when the frame arrived
  host,     \* the answer for the host
  cp        \* the subtype handed on to the modem, if any

vars == <<files, medium, rand, props, pc, frame, plan, ret, faults, before, host, cp>>
disk == <<files, medium, rand>>

Steps == {"idle", "read", "choose", "wifi_open", "wifi_write", "bt_open", "bt_write",
          "bt_root", "sync", "props", "respond", "done"}
Answers == {"none", "fail", "ok", "values"}
Plans == UNION {[S -> Addrs] : S \in SUBSET Devices}
NoAddrs == [d \in {} |-> 0]
Passed(subtype) == [passed |-> TRUE, subtype |-> subtype]
NotPassed == [passed |-> FALSE, subtype |-> {}]

TypeOK ==
  /\ files \in [Files -> Contents]
  /\ medium \in [Files -> Contents]
  /\ rand \in RandFiles
  /\ props \in [Devices -> Addrs \cup {Absent}]
  /\ pc \in Steps
  /\ frame \in Frames \cup {NoFrame}
  /\ plan \in Plans
  /\ ret \in {-1, 0, 1}
  /\ faults \subseteq Devices
  /\ before \in [Devices -> Contents]
  /\ host \in Answers
  /\ cp \in [passed : BOOLEAN, subtype : SUBSET Bits]

Quiet ==
  /\ pc' = "idle"
  /\ frame' = NoFrame
  /\ plan' = NoAddrs
  /\ ret' = 0
  /\ faults' = {}
  /\ before' = [d \in Devices |-> Absent]
  /\ host' = "none"
  /\ cp' = NotPassed

Init ==
  /\ files \in FactoryFiles
  /\ medium = files
  /\ rand \in RandFiles
  /\ props = [d \in Devices |-> Absent]
  /\ pc = "idle"
  /\ frame = NoFrame
  /\ plan = NoAddrs
  /\ ret = 0
  /\ faults = {}
  /\ before = [d \in Devices |-> Absent]
  /\ host = "none"
  /\ cp = NotPassed

----------------------------------------------------------------------------
(* A frame arrives.  ENG_DIAG_RET_UNSUPPORT has the host pass the frame on *)
(* to the modem, as it then stands in buf.                                 *)

Receive(f) ==
  /\ pc = "idle"
  /\ frame' = f
  /\ before' = [d \in Devices |-> Readable(files, d)]
  /\ IF checkValid(f) = 0
     THEN /\ cp' = Passed(f.subtype)
          /\ pc' = "done"
          /\ UNCHANGED <<ret, host>>
     ELSE IF BadWifi(f)
     THEN \* failure is answered at once, with subtype 0 left in buf, :113
          /\ host' = "fail"
          /\ cp' = IF checkValid(f) = 2 THEN Passed({}) ELSE NotPassed
          /\ pc' = "done"
          /\ UNCHANGED ret
     ELSE /\ ret' = -1
          /\ pc' = IF Reads(f) THEN "read" ELSE IF f.crc = "good" THEN "choose" ELSE "respond"
          /\ UNCHANGED <<host, cp>>
  /\ UNCHANGED <<disk, props, plan, faults>>

\* Whatever the reads return, the values are answered with subtype 1, and
\* for a frame that goes on to the modem that 1, the bit of IMEI1, is what
\* is left in buf: the bits are cleared in the copy already sent, :215.
Read ==
  /\ pc = "read"
  /\ host' = "values"
  /\ cp' = IF checkValid(frame) = 2 THEN Passed({"IMEI"}) ELSE NotPassed
  /\ pc' = "done"
  /\ UNCHANGED <<disk, props, frame, plan, ret, faults, before>>

----------------------------------------------------------------------------
(* eng_btwifimac_write: an address the frame does not name is read back,   *)
(* or, failing that, made up.                                              *)

\* mac_rand: from rand_mac.txt or, where there is none or it cannot be read,
\* "00:" and five random bytes.
MadeUp(d, unread) == IF rand = Absent \/ unread THEN Addrs \ Multicast ELSE {rand[d]}

\* Mutation: the address made up is kept, the read back dropped.
FallbackMadeUp(d, unread) == MadeUp(d, unread)

\* eng_btwifimac_read into the buffer that holds the address made up; the
\* read may also fail where there is something to read.
Fallback(d, unread) ==
  LET content == Readable(files, d)
  IN IF content \in Addrs THEN {content} ELSE MadeUp(d, unread)

Choose ==
  /\ pc = "choose"
  /\ \E failed \in SUBSET (Devices \ Named(frame)) :
     \E unread \in BOOLEAN, chosen \in [Devices -> Addrs] :
       /\ \A d \in Devices :
            chosen[d] \in IF d \in Named(frame) THEN {frame.addr[d]}
                          ELSE IF d \in failed THEN MadeUp(d, unread) ELSE Fallback(d, unread)
       /\ plan' = chosen
       /\ faults' = failed
  /\ pc' = "wifi_open"
  /\ UNCHANGED <<disk, props, frame, ret, before, host, cp>>

----------------------------------------------------------------------------
(* write_mac2file: each file is truncated, then written.                   *)

\* A failed open of wifimac.txt returns at once: no BT address, no sync.
OpenWifi ==
  /\ pc = "wifi_open"
  /\ \/ /\ files' = [files EXCEPT !["wifi"] = Empty]
        /\ pc' = "wifi_write"
        /\ UNCHANGED <<ret, faults>>
     \/ /\ ret' = -1
        /\ faults' = faults \cup {"wifi"}
        /\ pc' = "respond"
        /\ UNCHANGED files
  /\ UNCHANGED <<medium, rand, props, frame, plan, before, host, cp>>

\* Its result is overwritten by that of the BT file, :386.
WriteWifi ==
  /\ pc = "wifi_write"
  /\ \/ files' = [files EXCEPT !["wifi"] = plan["wifi"]] /\ UNCHANGED faults
     \/ faults' = faults \cup {"wifi"} /\ UNCHANGED files
  /\ pc' = "bt_open"
  /\ UNCHANGED <<medium, rand, props, frame, plan, ret, before, host, cp>>

\* Mutation: ret keeps the count of the WIFI file when the BT file fails.
OpenBtUnseen ==
  /\ pc = "bt_open"
  /\ ret' = 1
  /\ \/ files' = [files EXCEPT !["bt"] = Empty] /\ pc' = "bt_write" /\ UNCHANGED faults
     \/ faults' = faults \cup {"bt"} /\ pc' = "sync" /\ UNCHANGED files
  /\ UNCHANGED <<medium, rand, props, frame, plan, before, host, cp>>

OpenBt ==
  /\ pc = "bt_open"
  /\ \/ /\ files' = [files EXCEPT !["bt"] = Empty]
        /\ pc' = "bt_write"
        /\ UNCHANGED <<ret, faults>>
     \/ /\ ret' = -1
        /\ faults' = faults \cup {"bt"}
        /\ pc' = "sync"
        /\ UNCHANGED files
  /\ UNCHANGED <<medium, rand, props, frame, plan, before, host, cp>>

WriteBt ==
  /\ pc = "bt_write"
  /\ \/ /\ files' = [files EXCEPT !["bt"] = plan["bt"]]
        /\ ret' = 1
        /\ UNCHANGED faults
     \/ /\ ret' = -1
        /\ faults' = faults \cup {"bt"}
        /\ UNCHANGED files
  /\ pc' = "bt_root"
  /\ UNCHANGED <<medium, rand, props, frame, plan, before, host, cp>>

\* The root copy goes, whether or not the address has been written.
RemoveRoot ==
  /\ pc = "bt_root"
  /\ \/ files' = [files EXCEPT !["bt_root"] = Absent]
     \/ UNCHANGED files
  /\ pc' = "sync"
  /\ UNCHANGED <<medium, rand, props, frame, plan, ret, faults, before, host, cp>>

\* Mutation: sync() is left out.
SyncSkipped ==
  /\ pc = "sync"
  /\ pc' = IF ret > 0 THEN "props" ELSE "respond"
  /\ UNCHANGED <<disk, props, frame, plan, ret, faults, before, host, cp>>

Sync ==
  /\ pc = "sync"
  /\ medium' = files
  /\ pc' = IF ret > 0 THEN "props" ELSE "respond"
  /\ UNCHANGED <<files, rand, props, frame, plan, ret, faults, before, host, cp>>

\* The properties are set and the set_mac service started, which hands the
\* addresses to the drivers.
SetProps ==
  /\ pc = "props"
  /\ props' = plan
  /\ pc' = "respond"
  /\ UNCHANGED <<disk, frame, plan, ret, faults, before, host, cp>>

\* Mutation: the BT/WIFI bits stay in the frame handed on.
RespondUncleared ==
  /\ pc = "respond"
  /\ IF checkValid(frame) = 2
     THEN cp' = Passed(frame.subtype) /\ UNCHANGED host
     ELSE host' = (IF ret > 0 THEN "ok" ELSE "fail") /\ UNCHANGED cp
  /\ pc' = "done"
  /\ UNCHANGED <<disk, props, frame, plan, ret, faults, before>>

\* The answer to a write; a frame with IMEI bits is the modem's to answer.
Respond ==
  /\ pc = "respond"
  /\ IF checkValid(frame) = 2
     THEN cp' = Passed(frame.subtype \ Local) /\ UNCHANGED host
     ELSE host' = (IF ret > 0 THEN "ok" ELSE "fail") /\ UNCHANGED cp
  /\ pc' = "done"
  /\ UNCHANGED <<disk, props, frame, plan, ret, faults, before>>

\* The host sends the answer and hands the frame on.
Return ==
  /\ pc = "done"
  /\ Quiet
  /\ UNCHANGED <<disk, props>>

----------------------------------------------------------------------------
\* The process dies (see MiscData's Abort) and is started again.
Restart ==
  /\ pc # "idle"
  /\ Quiet
  /\ UNCHANGED <<disk, props>>

\* Each file not yet on the medium has its new content or its old one.
PowerCut ==
  /\ \E kept \in SUBSET {f \in Files : files[f] # medium[f]} :
       files' = [f \in Files |-> IF f \in kept THEN files[f] ELSE medium[f]]
  /\ medium' = files'
  /\ props' = [d \in Devices |-> Absent]
  /\ Quiet
  /\ UNCHANGED rand

Handle ==
  \/ Read \/ Choose
  \/ OpenWifi \/ WriteWifi \/ OpenBt \/ WriteBt \/ RemoveRoot \/ Sync
  \/ SetProps \/ Respond \/ Return

Next ==
  \/ \E f \in Frames : Receive(f)
  \/ Handle
  \/ Restart
  \/ PowerCut

Spec == Init /\ [][Next]_vars
----------------------------------------------------------------------------
(* Properties.                                                             *)

\* What a frame without I/O errors on device d must leave in d's file.
Due(d) ==
  IF d \in Named(frame) THEN {frame.addr[d]}
  ELSE IF before[d] \in Addrs THEN {before[d]}
  ELSE UNION {MadeUp(d, unread) : unread \in BOOLEAN}

\* Success is answered only when both files are on the medium, the device
\* that was named with the address asked for, the other with the address it
\* had; an error on the WIFI file, which the code does not answer for, spoils
\* that file and no other, one on the BT file never goes with a success
\* unless it is the read of an address the frame does not name.
AckedIsStored ==
  pc = "done" /\ host = "ok" =>
    /\ \A d \in Devices \ faults : medium[d] \in Due(d)
    /\ "bt" \in faults => "bt" \notin Named(frame)
    /\ medium["bt"] \in Addrs

\* A write that goes on to the modem is handed over once its address part is
\* over and on the medium, with its IMEI bits and without the address bits.
HandedOnWhenStored ==
  pc = "done" /\ cp.passed /\ DOMAIN frame.addr # {} /\ ~BadWifi(frame) =>
    /\ cp.subtype = frame.subtype \ Local
    /\ host = "none"
    /\ ret > 0 => \A d \in Devices \ faults : medium[d] \in Due(d)

\* No history of frames, made-up addresses, torn files and fallbacks puts a
\* multicast address into the WIFI file, on a device that left the factory
\* without one (the test at :111 is made for named addresses only).
NoMulticastWifi ==
  {files["wifi"], files["wifi_root"], medium["wifi"]} \cap Multicast = {}

\* The properties the set_mac service works from name addresses that are on
\* the medium, whenever they are set.
PropsFollow ==
  \A d \in Devices \ faults :
    props'[d] \notin {props[d], Absent} => props'[d] = medium[d]
PropsFromMedium == [][PropsFollow]_vars

\* "clear BT/WIFI bit in this diag framer" (bt_wifi_mac.c:214), "also write
\* imei, then pass to cp" (miscdata_rw.c:47): what a frame with good
\* addresses is passed on with is the bits it came with but for the two.
OnlyAddressBitsCleared ==
  cp.passed /\ ~BadWifi(frame) =>
    cp.subtype = IF checkValid(frame) = 2 THEN frame.subtype \ Local ELSE frame.subtype
=============================================================================
