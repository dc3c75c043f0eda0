----------------------------- MODULE RebootCmd ------------------------------
(***************************************************************************)
(* The commands that take the device down, libreboot_cmd/reboot_cmd.cpp:   *)
(*   AT+SPREF="AUTODLOADER"   dloader_handle, autodloader_thread           *)
(*   AT+SPREBOOTCMD=<target>  reboot_cmd_handle, reboot_cmd_thread         *)
(*   AT+ETSRESET              reset_cmd_handle, reset_cmd_thread,          *)
(*                            reboot_into_recovery                         *)
(*   diag 0x11/0x0E           eng_diag_poweroff, eng_power_off_thread      *)
(* A handler answers OK and leaves the work to a thread of its own.  The   *)
(* reboot threads sleep two seconds first, and all of them read the one    *)
(* buffer reboot_cmd_param only after that.  What init, the boot loader    *)
(* and recovery then do is external.                                       *)
(***************************************************************************)
EXTENDS Integers

CONSTANTS
  Ports,      \* the ports whose threads call the handlers
  Workers,    \* the threads that can be started (a bound on the commands)
  Targets     \* what a reboot command may ask for

ASSUME RebootCmdAssumption ==
  {"", "torn", "none", "autodloader", "recovery", "off"} \cap Targets = {}

\* sys.powerctl, once set: the target of the reboot.  A buffer read between
\* the memset and the strncpy is empty; one read during either is torn.
Ctls == Targets \cup {"none", "", "torn", "autodloader", "recovery", "off"}

VARIABLES
  param,     \* reboot_cmd_param
  port,      \* the step each port's handler is at
  asked,     \* the target of the reboot command each port handles
  worker,    \* the step each thread is at
  wanted,    \* the target of the command that started the thread
  usb,       \* USB is connected
  powerctl,  \* what init was told first
  cali,      \* ro.bootmode is "cali"
  up,        \* the system is up
  bcb,       \* the boot loader message asks for a wipe
  flag,      \* byte 209 of the factory partition is 'b'
  cached,    \* the flag is in the page cache only
  wiped,     \* recovery has wiped the data since the flag was set
  overlap    \* two reboot commands have been under way at once since boot

vars == <<param, port, asked, worker, wanted, usb, powerctl, cali, up, bcb, flag,
          cached, wiped, overlap>>
medium == <<bcb, flag, cached, wiped>>
machine == <<cali, up>>

WorkerSteps ==
  {"free", "auto_delay", "reboot_delay", "reset_delay", "bcb", "flag", "recovery",
   "poll", "sync", "ended"}

TypeOK ==
  /\ param \in Targets \cup {"", "torn"}
  /\ port \in [Ports -> {"idle", "clear", "copy"}]
  /\ asked \in [Ports -> Targets \cup {"none"}]
  /\ worker \in [Workers -> WorkerSteps]
  /\ wanted \in [Workers -> Targets \cup {"none"}]
  /\ usb \in BOOLEAN
  /\ powerctl \in Ctls
  /\ {cali, up, bcb, flag, cached, wiped, overlap} \subseteq BOOLEAN

\* The process dies with the system.
Fresh ==
  /\ param' = ""
  /\ port' = [p \in Ports |-> "idle"]
  /\ asked' = [p \in Ports |-> "none"]
  /\ worker' = [w \in Workers |-> IF worker[w] = "free" THEN "free" ELSE "ended"]
  /\ wanted' = [w \in Workers |-> "none"]
  /\ overlap' = FALSE

Init ==
  /\ param = ""
  /\ port = [p \in Ports |-> "idle"]
  /\ asked = [p \in Ports |-> "none"]
  /\ worker = [w \in Workers |-> "free"]
  /\ wanted = [w \in Workers |-> "none"]
  /\ usb \in BOOLEAN
  /\ powerctl = "none"
  /\ cali \in BOOLEAN
  /\ up = TRUE
  /\ bcb = FALSE /\ flag = FALSE /\ cached = FALSE /\ wiped = FALSE
  /\ overlap = FALSE

----------------------------------------------------------------------------
(* Handlers.  pthread_create may fail, which none of them looks at.        *)

\* The thread that runs step for a command, or none.
Start(step, target) ==
  \/ \E w \in Workers :
       /\ worker[w] = "free"
       /\ worker' = [worker EXCEPT ![w] = step]
       /\ wanted' = [wanted EXCEPT ![w] = target]
  \/ UNCHANGED <<worker, wanted>>

\* android_reboot sets a property that init acts upon; once it takes the
\* system down it takes no second order.
TellInit(ctl) == powerctl' = IF powerctl = "none" THEN ctl ELSE powerctl

\* sync(): the page cache is on the medium.
Synced == cached' = FALSE

Autodloader(p) ==
  /\ up /\ port[p] = "idle"
  /\ Start("auto_delay", "none")
  /\ UNCHANGED <<param, port, asked, usb, powerctl, machine, medium, overlap>>

Reset(p) ==
  /\ up /\ port[p] = "idle"
  /\ Start("reset_delay", "none")
  /\ UNCHANGED <<param, port, asked, usb, powerctl, machine, medium, overlap>>

\* Any mode but "cali" powers off in the handler itself.
PowerOff(p) ==
  /\ up /\ port[p] = "idle"
  /\ IF cali THEN Start("poll", "none") /\ UNCHANGED <<powerctl, cached>>
     ELSE Synced /\ TellInit("off") /\ UNCHANGED <<worker, wanted>>
  /\ UNCHANGED <<param, port, asked, usb, machine, bcb, flag, wiped, overlap>>

\* A reboot command is under way from its arrival to the reboot.
UnderWay ==
  \/ \E p \in Ports : port[p] # "idle"
  \/ \E w \in Workers : worker[w] = "reboot_delay"

\* memset and strncpy take a while: a thread may read in the middle.
Reboot(p, target) ==
  /\ up /\ port[p] = "idle"
  /\ param' = ""
  /\ port' = [port EXCEPT ![p] = "clear"]
  /\ asked' = [asked EXCEPT ![p] = target]
  /\ overlap' = (overlap \/ UnderWay)
  /\ UNCHANGED <<worker, wanted, usb, powerctl, machine, medium>>

BeginCopy(p) ==
  /\ up /\ port[p] = "clear"
  /\ param' = "torn"
  /\ port' = [port EXCEPT ![p] = "copy"]
  /\ UNCHANGED <<asked, worker, wanted, usb, powerctl, machine, medium, overlap>>

\* Mutation: strncpy is given too small a length.
EndCopyShort(p) ==
  /\ up /\ port[p] = "copy"
  /\ Start("reboot_delay", asked[p])
  /\ port' = [port EXCEPT ![p] = "idle"]
  /\ asked' = [asked EXCEPT ![p] = "none"]
  /\ UNCHANGED <<param, usb, powerctl, machine, medium, overlap>>

EndCopy(p) ==
  /\ up /\ port[p] = "copy"
  /\ param' = asked[p]
  /\ Start("reboot_delay", asked[p])
  /\ port' = [port EXCEPT ![p] = "idle"]
  /\ asked' = [asked EXCEPT ![p] = "none"]
  /\ UNCHANGED <<usb, powerctl, machine, medium, overlap>>

----------------------------------------------------------------------------
(* Threads.                                                                *)

Ends(w) == worker' = [worker EXCEPT ![w] = "ended"]
Goes(w, step) == worker' = [worker EXCEPT ![w] = step]

\* Mutation: the thread sleeps and returns.
AutodloaderThreadIdle(w) ==
  /\ up /\ worker[w] = "auto_delay"
  /\ Ends(w)
  /\ UNCHANGED <<param, port, asked, wanted, usb, powerctl, machine, medium, overlap>>

AutodloaderThread(w) ==
  /\ up /\ worker[w] = "auto_delay"
  /\ TellInit("autodloader")
  /\ Ends(w)
  /\ UNCHANGED <<param, port, asked, wanted, usb, machine, medium, overlap>>

\* The buffer is read when the two seconds are over, not when they begin.
RebootThread(w) ==
  /\ up /\ worker[w] = "reboot_delay"
  /\ TellInit(param)
  /\ Ends(w)
  /\ UNCHANGED <<param, port, asked, wanted, usb, machine, medium, overlap>>

\* Mutation: the flag is written first.
ResetThreadFlagFirst(w) ==
  /\ up /\ worker[w] = "reset_delay"
  /\ Goes(w, "flag")
  /\ UNCHANGED <<param, port, asked, wanted, usb, powerctl, machine, medium, overlap>>

ResetThread(w) ==
  /\ up /\ worker[w] = "reset_delay"
  /\ Goes(w, "bcb")
  /\ UNCHANGED <<param, port, asked, wanted, usb, powerctl, machine, medium, overlap>>

\* reboot_into_recovery: the message, the flag, the reboot; an error in one
\* leaves what came before.
WriteBcb(w) ==
  /\ up /\ worker[w] = "bcb"
  /\ \/ bcb' = TRUE /\ Goes(w, "flag")
     \/ Ends(w) /\ UNCHANGED bcb
  /\ UNCHANGED <<param, port, asked, wanted, usb, powerctl, machine, flag, cached, wiped,
                 overlap>>

\* The byte leaves the stdio buffer in fclose: fsync comes too early to put it
\* on the medium, and the failure of fclose goes unseen.
WriteFlag(w) ==
  /\ up /\ worker[w] = "flag"
  /\ \/ Goes(w, "recovery") /\ flag' = TRUE /\ cached' = (flag => cached)
     \/ (Goes(w, "recovery") \/ Ends(w)) /\ UNCHANGED <<flag, cached>>
  /\ UNCHANGED <<param, port, asked, wanted, usb, powerctl, machine, bcb, wiped, overlap>>

Recovery(w) ==
  /\ up /\ worker[w] = "recovery"
  /\ TellInit("recovery")
  /\ Ends(w)
  /\ UNCHANGED <<param, port, asked, wanted, usb, machine, medium, overlap>>

\* Mutation: any state that can be read passes for connected.
UsbStatesConnected == {1, -1}

\* eng_usb_state: 1 if connected, 0 if not or if the state file cannot be
\* opened, -1, which passes for connected, if it cannot be read.
UsbStates == {IF usb THEN 1 ELSE 0, 0, -1}

Poll(w) ==
  /\ up /\ worker[w] = "poll"
  /\ \E state \in UsbStates : IF state = 0 THEN Goes(w, "sync") ELSE UNCHANGED worker
  /\ UNCHANGED <<param, port, asked, wanted, usb, powerctl, machine, medium, overlap>>

SyncAndOff(w) ==
  /\ up /\ worker[w] = "sync"
  /\ Synced
  /\ TellInit("off")
  /\ Ends(w)
  /\ UNCHANGED <<param, port, asked, wanted, usb, machine, bcb, flag, wiped, overlap>>

----------------------------------------------------------------------------
(* Init, the boot loader, recovery, the cable and the power.               *)

\* An orderly reboot syncs.
TakeDown ==
  /\ up /\ powerctl # "none"
  /\ up' = FALSE
  /\ Fresh
  /\ Synced
  /\ UNCHANGED <<usb, powerctl, cali, bcb, flag, wiped>>

PowerCut ==
  /\ up
  /\ up' = FALSE
  /\ powerctl' = "none"
  /\ Fresh
  /\ cached' = FALSE
  /\ flag' \in IF cached THEN BOOLEAN ELSE {flag}
  /\ wiped' = (wiped /\ flag')
  /\ UNCHANGED <<usb, cali, bcb>>

\* The download mode looks at no message; any other boot obeys it.
Boot ==
  /\ ~up
  /\ up' = TRUE
  /\ cali' \in BOOLEAN
  /\ powerctl' = "none"
  /\ IF powerctl # "autodloader" /\ bcb
     THEN bcb' = FALSE /\ wiped' = flag
     ELSE UNCHANGED <<bcb, wiped>>
  /\ UNCHANGED <<param, port, asked, worker, wanted, usb, flag, cached, overlap>>

Cable ==
  /\ usb' = ~usb
  /\ UNCHANGED <<param, port, asked, worker, wanted, powerctl, machine, medium, overlap>>

Handler(p) == BeginCopy(p) \/ EndCopy(p)

Thread(w) ==
  \/ AutodloaderThread(w) \/ RebootThread(w) \/ ResetThread(w)
  \/ WriteBcb(w) \/ WriteFlag(w) \/ Recovery(w) \/ SyncAndOff(w)

Next ==
  \/ \E p \in Ports :
       \/ Autodloader(p) \/ Reset(p) \/ PowerOff(p)
       \/ \E target \in Targets : Reboot(p, target)
       \/ Handler(p)
  \/ \E w \in Workers : Thread(w) \/ Poll(w)
  \/ TakeDown \/ PowerCut \/ Boot \/ Cable

Spec == Init /\ [][Next]_vars

\* Threads are scheduled, init obeys, and the USB state file can be read
\* sometime after the cable has been pulled.
FairSpec ==
  /\ Spec
  /\ WF_vars(TakeDown)
  /\ \A w \in Workers :
       /\ WF_vars(Thread(w))
       /\ WF_vars(~usb /\ Poll(w) /\ worker'[w] = "sync")
----------------------------------------------------------------------------
(* Properties.                                                             *)

\* The factory flag says "reset success": whenever it is set, through errors
\* and power cuts at any step of reboot_into_recovery, the data has been wiped
\* since it was set or the message that will have it wiped is on the medium.
FlagMeansReset == flag => bcb \/ wiped

\* A reboot command that no other overlaps, in the two seconds before its
\* thread reads the buffer, takes the device to the target it named.
TargetKept ==
  \A w \in Workers :
    worker[w] = "reboot_delay" /\ powerctl = "none" /\ ~overlap /\ worker'[w] = "ended" /\ up'
      => powerctl' = wanted[w]
CommandedTarget == [][up => TargetKept]_vars

\* Once the thread of a command has been started, the device goes down,
\* whatever else is commanded meanwhile.
CommandsTakeDown ==
  \A w \in Workers :
    worker[w] \in {"auto_delay", "reboot_delay", "recovery", "sync"} ~> ~up

\* A power-off accepted in calibration mode comes once the cable stays out.
PowerOffComes ==
  \A w \in Workers : worker[w] = "poll" /\ []~usb ~> worker[w] # "poll" \/ ~up
=============================================================================
