-------------------------- MODULE RebootCmdProofs ---------------------------
(***************************************************************************)
(* Theorems about RebootCmd, for any ports, any number of commands and any *)
(* targets, and, from SleepInv on, about DeepSleep for any number of       *)
(* threads.                                                                *)
(***************************************************************************)
EXTENDS RebootCmd, MC_DeepSleep, FiniteSetTheorems, TLAPS

\* The threads are dead while the system is down.
DownIsQuiet == ~up => \A w \in Workers : worker[w] \in {"free", "ended"}

\* The flag is written only after the message, and nothing but a boot takes
\* the message away; the page cache holds no flag but the one that is set.
FlagAfterBcb ==
  /\ \A w \in Workers : worker[w] = "flag" => up /\ bcb
  /\ cached => flag

\* As long as no two reboot commands have overlapped, one handler or one
\* thread has the buffer to itself.
OneUnderWay ==
  ~overlap =>
    /\ \A p, q \in Ports : port[p] # "idle" /\ port[q] # "idle" => p = q
    /\ \A v, w \in Workers : worker[v] = "reboot_delay" /\ worker[w] = "reboot_delay" => v = w
    /\ \A p \in Ports, w \in Workers : ~(port[p] # "idle" /\ worker[w] = "reboot_delay")

\* So what its thread will read is what its command has put there.
ParamIsWanted ==
  ~overlap => \A w \in Workers : worker[w] = "reboot_delay" => param = wanted[w]

\* A handler at work has been asked for a target.
AskedTarget == \A p \in Ports : port[p] # "idle" => asked[p] \in Targets

IInv ==
  TypeOK /\ AskedTarget /\ DownIsQuiet /\ FlagAfterBcb /\ FlagMeansReset /\ OneUnderWay
  /\ ParamIsWanted

LEMMA InitIInv == Init => IInv
<1> SUFFICES ASSUME Init PROVE IInv
  OBVIOUS
<1>1. TypeOK
  BY DEF Init, TypeOK, WorkerSteps, Ctls
<1>2. AskedTarget /\ DownIsQuiet /\ FlagAfterBcb /\ FlagMeansReset /\ OneUnderWay /\ ParamIsWanted
  BY DEF Init, AskedTarget, DownIsQuiet, FlagAfterBcb, FlagMeansReset, OneUnderWay,
     ParamIsWanted
<1>3. QED
  BY <1>1, <1>2 DEF IInv

\* A step that writes no flag and takes none away, and starts no thread that
\* will, keeps what is known of them.
LEMMA FlagUndisturbed ==
  ASSUME IInv, UNCHANGED <<up, bcb, flag, wiped>>, cached' => cached,
         \A w \in Workers : worker'[w] = "flag" => worker[w] = "flag"
  PROVE  FlagAfterBcb' /\ FlagMeansReset'
BY DEF IInv, FlagAfterBcb, FlagMeansReset

\* So does a step that leaves the buffer and its users alone.
LEMMA BufferUndisturbed ==
  ASSUME IInv, UNCHANGED <<param, port, overlap>>,
         \A w \in Workers : worker'[w] = "reboot_delay" =>
                            worker[w] = "reboot_delay" /\ wanted'[w] = wanted[w]
  PROVE  OneUnderWay' /\ ParamIsWanted'
BY DEF IInv, OneUnderWay, ParamIsWanted

\* A handler starts at most one thread, and disturbs no thread that runs.
LEMMA StartFacts ==
  ASSUME TypeOK, NEW step, step \in WorkerSteps, NEW target, target \in Targets \cup {"none"},
         Start(step, target)
  PROVE  /\ worker' \in [Workers -> WorkerSteps]
         /\ wanted' \in [Workers -> Targets \cup {"none"}]
         /\ \A w \in Workers :
              \/ worker'[w] = worker[w] /\ wanted'[w] = wanted[w]
              \/ worker[w] = "free" /\ worker'[w] = step /\ wanted'[w] = target
         /\ \A v, w \in Workers : worker'[v] # worker[v] /\ worker'[w] # worker[w] => v = w
BY DEF TypeOK, Start

LEMMA AutodloaderIInv == ASSUME NEW p \in Ports, IInv, Autodloader(p) PROVE IInv'
<1>1. /\ worker' \in [Workers -> WorkerSteps] /\ wanted' \in [Workers -> Targets \cup {"none"}]
      /\ \A w \in Workers : \/ worker'[w] = worker[w] /\ wanted'[w] = wanted[w]
                            \/ worker[w] = "free" /\ worker'[w] = "auto_delay"
  <2>1. TypeOK /\ "auto_delay" \in WorkerSteps /\ Start("auto_delay", "none")
    BY DEF Autodloader, IInv, WorkerSteps
  <2>2. QED
    BY <2>1, StartFacts
<1>2. TypeOK' /\ AskedTarget'
  BY <1>1 DEF Autodloader, machine, medium, IInv, TypeOK, AskedTarget
<1>3. DownIsQuiet'
  BY DEF Autodloader, machine, DownIsQuiet
<1>4. FlagAfterBcb' /\ FlagMeansReset'
  BY <1>1, FlagUndisturbed DEF Autodloader, machine, medium
<1>5. OneUnderWay' /\ ParamIsWanted'
  BY <1>1, BufferUndisturbed DEF Autodloader
<1>6. QED
  BY <1>2, <1>3, <1>4, <1>5 DEF IInv

LEMMA ResetIInv == ASSUME NEW p \in Ports, IInv, Reset(p) PROVE IInv'
<1>1. /\ worker' \in [Workers -> WorkerSteps] /\ wanted' \in [Workers -> Targets \cup {"none"}]
      /\ \A w \in Workers : \/ worker'[w] = worker[w] /\ wanted'[w] = wanted[w]
                            \/ worker[w] = "free" /\ worker'[w] = "reset_delay"
  <2>1. TypeOK /\ "reset_delay" \in WorkerSteps /\ Start("reset_delay", "none")
    BY DEF Reset, IInv, WorkerSteps
  <2>2. QED
    BY <2>1, StartFacts
<1>2. TypeOK' /\ AskedTarget'
  BY <1>1 DEF Reset, machine, medium, IInv, TypeOK, AskedTarget
<1>3. DownIsQuiet'
  BY DEF Reset, machine, DownIsQuiet
<1>4. FlagAfterBcb' /\ FlagMeansReset'
  BY <1>1, FlagUndisturbed DEF Reset, machine, medium
<1>5. OneUnderWay' /\ ParamIsWanted'
  BY <1>1, BufferUndisturbed DEF Reset
<1>6. QED
  BY <1>2, <1>3, <1>4, <1>5 DEF IInv

LEMMA PowerOffIInv == ASSUME NEW p \in Ports, IInv, PowerOff(p) PROVE IInv'
<1>1. /\ worker' \in [Workers -> WorkerSteps] /\ wanted' \in [Workers -> Targets \cup {"none"}]
      /\ \A w \in Workers : \/ worker'[w] = worker[w] /\ wanted'[w] = wanted[w]
                            \/ worker[w] = "free" /\ worker'[w] = "poll"
  <2>1. CASE cali
    <3>1. TypeOK /\ "poll" \in WorkerSteps /\ Start("poll", "none")
      BY <2>1 DEF PowerOff, IInv, WorkerSteps
    <3>2. QED
      BY <3>1, StartFacts
  <2>2. CASE ~cali
    BY <2>2 DEF PowerOff, IInv, TypeOK
  <2>3. QED
    BY <2>1, <2>2
<1>2. TypeOK' /\ AskedTarget'
  BY <1>1 DEF PowerOff, machine, Synced, TellInit, Ctls, IInv, TypeOK, AskedTarget
<1>3. DownIsQuiet'
  BY DEF PowerOff, machine, DownIsQuiet
<1>4. FlagAfterBcb' /\ FlagMeansReset'
  BY <1>1, FlagUndisturbed DEF PowerOff, machine, Synced
<1>5. OneUnderWay' /\ ParamIsWanted'
  BY <1>1, BufferUndisturbed DEF PowerOff
<1>6. QED
  BY <1>2, <1>3, <1>4, <1>5 DEF IInv

LEMMA RebootIInv ==
  ASSUME NEW p \in Ports, NEW target \in Targets, IInv, Reboot(p, target)
  PROVE  IInv'
<1>1. TypeOK' /\ AskedTarget'
  BY DEF Reboot, machine, medium, IInv, TypeOK, AskedTarget
<1>2. DownIsQuiet'
  BY DEF Reboot, machine, DownIsQuiet
<1>3. FlagAfterBcb' /\ FlagMeansReset'
  BY DEF Reboot, machine, medium, IInv, FlagAfterBcb, FlagMeansReset
<1>4. OneUnderWay'
  BY DEF Reboot, IInv, TypeOK, OneUnderWay, UnderWay
<1>5. ParamIsWanted'
  BY DEF Reboot, UnderWay, ParamIsWanted
<1>6. QED
  BY <1>1, <1>2, <1>3, <1>4, <1>5 DEF IInv

LEMMA BeginCopyIInv == ASSUME NEW p \in Ports, IInv, BeginCopy(p) PROVE IInv'
<1>1. TypeOK' /\ AskedTarget'
  BY DEF BeginCopy, machine, medium, IInv, TypeOK, AskedTarget
<1>2. DownIsQuiet'
  BY DEF BeginCopy, machine, DownIsQuiet
<1>3. FlagAfterBcb' /\ FlagMeansReset'
  BY DEF BeginCopy, machine, medium, IInv, FlagAfterBcb, FlagMeansReset
<1>4. OneUnderWay'
  BY DEF BeginCopy, machine, medium, IInv, TypeOK, WorkerSteps, OneUnderWay, UnderWay
<1>5. ParamIsWanted'
  BY DEF BeginCopy, IInv, OneUnderWay, ParamIsWanted
<1>6. QED
  BY <1>1, <1>2, <1>3, <1>4, <1>5 DEF IInv

LEMMA EndCopyIInv == ASSUME NEW p \in Ports, IInv, EndCopy(p) PROVE IInv'
<1>1. asked[p] \in Targets
  BY DEF EndCopy, IInv, AskedTarget
<1>2. /\ worker' \in [Workers -> WorkerSteps] /\ wanted' \in [Workers -> Targets \cup {"none"}]
      /\ \A w \in Workers :
           \/ worker'[w] = worker[w] /\ wanted'[w] = wanted[w]
           \/ worker[w] = "free" /\ worker'[w] = "reboot_delay" /\ wanted'[w] = asked[p]
      /\ \A v, w \in Workers : worker'[v] # worker[v] /\ worker'[w] # worker[w] => v = w
  BY <1>1, StartFacts DEF EndCopy, IInv, WorkerSteps
<1>3. TypeOK' /\ AskedTarget'
  BY <1>2 DEF EndCopy, machine, medium, IInv, TypeOK, AskedTarget
<1>4. DownIsQuiet'
  BY DEF EndCopy, machine, DownIsQuiet
<1>5. FlagAfterBcb' /\ FlagMeansReset'
  BY <1>2, FlagUndisturbed DEF EndCopy, machine, medium
<1>6. ASSUME ~overlap
      PROVE  /\ \A q \in Ports : port'[q] = "idle"
             /\ \A w \in Workers : worker[w] # "reboot_delay"
  BY <1>6 DEF EndCopy, IInv, TypeOK, OneUnderWay
<1>7. OneUnderWay' /\ ParamIsWanted'
  BY <1>2, <1>6 DEF EndCopy, OneUnderWay, ParamIsWanted
<1>8. QED
  BY <1>3, <1>4, <1>5, <1>7 DEF IInv

LEMMA AutodloaderThreadIInv == ASSUME NEW w \in Workers, IInv, AutodloaderThread(w) PROVE IInv'
<1>1. \A v \in Workers : worker'[v] = worker[v] \/ v = w
  BY DEF AutodloaderThread, Ends
<1>2. TypeOK' /\ AskedTarget'
  BY DEF AutodloaderThread, Ends, TellInit, machine, medium, IInv, TypeOK, WorkerSteps,
     Ctls, AskedTarget
<1>3. DownIsQuiet'
  BY DEF AutodloaderThread, machine, DownIsQuiet
<1>4. FlagAfterBcb' /\ FlagMeansReset'
  BY FlagUndisturbed DEF AutodloaderThread, Ends, machine, medium
<1>5. OneUnderWay' /\ ParamIsWanted'
  BY BufferUndisturbed DEF AutodloaderThread, Ends
<1>6. QED
  BY <1>2, <1>3, <1>4, <1>5 DEF IInv

LEMMA RebootThreadIInv == ASSUME NEW w \in Workers, IInv, RebootThread(w) PROVE IInv'
<1>1. \A v \in Workers : worker'[v] = worker[v] \/ v = w
  BY DEF RebootThread, Ends
<1>2. TypeOK' /\ AskedTarget'
  BY DEF RebootThread, Ends, TellInit, machine, medium, IInv, TypeOK, WorkerSteps, Ctls,
     AskedTarget
<1>3. DownIsQuiet'
  BY DEF RebootThread, machine, DownIsQuiet
<1>4. FlagAfterBcb' /\ FlagMeansReset'
  BY FlagUndisturbed DEF RebootThread, Ends, machine, medium
<1>5. OneUnderWay' /\ ParamIsWanted'
  BY <1>1, BufferUndisturbed DEF RebootThread
<1>6. QED
  BY <1>2, <1>3, <1>4, <1>5 DEF IInv

LEMMA ResetThreadIInv == ASSUME NEW w \in Workers, IInv, ResetThread(w) PROVE IInv'
<1>1. \A v \in Workers : worker'[v] = worker[v] \/ v = w
  BY DEF ResetThread, Goes
<1>2. TypeOK' /\ AskedTarget'
  BY DEF ResetThread, Goes, machine, medium, IInv, TypeOK, WorkerSteps, AskedTarget
<1>3. DownIsQuiet'
  BY DEF ResetThread, machine, DownIsQuiet
<1>4. FlagAfterBcb' /\ FlagMeansReset'
  BY FlagUndisturbed DEF ResetThread, Goes, machine, medium
<1>5. OneUnderWay' /\ ParamIsWanted'
  BY BufferUndisturbed DEF ResetThread, Goes
<1>6. QED
  BY <1>2, <1>3, <1>4, <1>5 DEF IInv

LEMMA WriteBcbIInv == ASSUME NEW w \in Workers, IInv, WriteBcb(w) PROVE IInv'
<1>1. \A v \in Workers : worker'[v] = worker[v] \/ v = w
  BY DEF WriteBcb, Ends, Goes, IInv, TypeOK
<1>2. TypeOK' /\ AskedTarget'
  BY DEF WriteBcb, Ends, Goes, machine, IInv, TypeOK, WorkerSteps, AskedTarget
<1>3. DownIsQuiet'
  BY DEF WriteBcb, machine, DownIsQuiet
<1>4. FlagAfterBcb' /\ FlagMeansReset'
  <2>1. CASE bcb' = TRUE /\ Goes(w, "flag")
    BY <2>1 DEF WriteBcb, machine, IInv, FlagAfterBcb, FlagMeansReset
  <2>2. CASE Ends(w) /\ UNCHANGED bcb
    BY <2>2, FlagUndisturbed DEF WriteBcb, Ends, machine
  <2>3. QED
    BY <2>1, <2>2 DEF WriteBcb
<1>5. OneUnderWay' /\ ParamIsWanted'
  BY BufferUndisturbed DEF WriteBcb, Ends, Goes, IInv, TypeOK
<1>6. QED
  BY <1>2, <1>3, <1>4, <1>5 DEF IInv

LEMMA WriteFlagIInv == ASSUME NEW w \in Workers, IInv, WriteFlag(w) PROVE IInv'
<1>1. \A v \in Workers : worker'[v] = worker[v] \/ v = w
  BY DEF WriteFlag, Ends, Goes, IInv, TypeOK
<1>2. TypeOK' /\ AskedTarget'
  BY DEF WriteFlag, Ends, Goes, machine, IInv, TypeOK, WorkerSteps, AskedTarget
<1>3. DownIsQuiet'
  BY DEF WriteFlag, machine, DownIsQuiet
<1>4. FlagAfterBcb' /\ FlagMeansReset'
  <2>1. \A v \in Workers : worker'[v] = "flag" => worker[v] = "flag"
    BY <1>1 DEF WriteFlag
  <2>2. bcb
    BY DEF WriteFlag, IInv, FlagAfterBcb
  <2>3. QED
    BY DEF WriteFlag, machine, IInv, FlagAfterBcb, FlagMeansReset
<1>5. OneUnderWay' /\ ParamIsWanted'
  BY BufferUndisturbed DEF WriteFlag, Ends, Goes, IInv, TypeOK
<1>6. QED
  BY <1>2, <1>3, <1>4, <1>5 DEF IInv

LEMMA RecoveryIInv == ASSUME NEW w \in Workers, IInv, Recovery(w) PROVE IInv'
<1>1. \A v \in Workers : worker'[v] = worker[v] \/ v = w
  BY DEF Recovery, Ends
<1>2. TypeOK' /\ AskedTarget'
  BY DEF Recovery, Ends, TellInit, machine, medium, IInv, TypeOK, WorkerSteps, Ctls,
     AskedTarget
<1>3. DownIsQuiet'
  BY DEF Recovery, machine, DownIsQuiet
<1>4. FlagAfterBcb' /\ FlagMeansReset'
  BY FlagUndisturbed DEF Recovery, Ends, machine, medium
<1>5. OneUnderWay' /\ ParamIsWanted'
  BY BufferUndisturbed DEF Recovery, Ends
<1>6. QED
  BY <1>2, <1>3, <1>4, <1>5 DEF IInv

LEMMA PollIInv == ASSUME NEW w \in Workers, IInv, Poll(w) PROVE IInv'
<1>1. \A v \in Workers : worker'[v] = worker[v] \/ v = w
  BY DEF Poll, Goes, IInv, TypeOK
<1>2. TypeOK' /\ AskedTarget'
  BY DEF Poll, Goes, machine, medium, IInv, TypeOK, WorkerSteps, AskedTarget
<1>3. DownIsQuiet'
  BY DEF Poll, machine, DownIsQuiet
<1>4. FlagAfterBcb' /\ FlagMeansReset'
  <2>1. \A v \in Workers : worker'[v] = "flag" => worker[v] = "flag"
    BY DEF Poll, Goes, IInv, TypeOK
  <2>2. QED
    BY <2>1, FlagUndisturbed DEF Poll, machine, medium
<1>5. OneUnderWay' /\ ParamIsWanted'
  BY BufferUndisturbed DEF Poll, Goes, IInv, TypeOK
<1>6. QED
  BY <1>2, <1>3, <1>4, <1>5 DEF IInv

LEMMA SyncAndOffIInv == ASSUME NEW w \in Workers, IInv, SyncAndOff(w) PROVE IInv'
<1>1. \A v \in Workers : worker'[v] = worker[v] \/ v = w
  BY DEF SyncAndOff, Ends
<1>2. TypeOK' /\ AskedTarget'
  BY DEF SyncAndOff, Ends, TellInit, Synced, machine, IInv, TypeOK, WorkerSteps, Ctls,
     AskedTarget
<1>3. DownIsQuiet'
  BY DEF SyncAndOff, machine, DownIsQuiet
<1>4. FlagAfterBcb' /\ FlagMeansReset'
  BY FlagUndisturbed DEF SyncAndOff, Ends, Synced, machine
<1>5. OneUnderWay' /\ ParamIsWanted'
  BY BufferUndisturbed DEF SyncAndOff, Ends
<1>6. QED
  BY <1>2, <1>3, <1>4, <1>5 DEF IInv

LEMMA TakeDownIInv == ASSUME IInv, TakeDown PROVE IInv'
<1>1. TypeOK' /\ AskedTarget'
  BY DEF TakeDown, Synced, Fresh, IInv, TypeOK, WorkerSteps, AskedTarget
<1>2. DownIsQuiet'
  BY DEF TakeDown, Fresh, DownIsQuiet
<1>3. FlagAfterBcb' /\ FlagMeansReset'
  BY DEF TakeDown, Synced, Fresh, IInv, FlagAfterBcb, FlagMeansReset
<1>4. OneUnderWay'
  BY DEF TakeDown, Fresh, OneUnderWay
<1>5. ParamIsWanted'
  BY DEF TakeDown, Fresh, ParamIsWanted
<1>6. QED
  BY <1>1, <1>2, <1>3, <1>4, <1>5 DEF IInv

LEMMA PowerCutIInv == ASSUME IInv, PowerCut PROVE IInv'
<1>1. TypeOK' /\ AskedTarget'
  BY DEF PowerCut, Fresh, IInv, TypeOK, WorkerSteps, Ctls, AskedTarget
<1>2. DownIsQuiet'
  BY DEF PowerCut, Fresh, DownIsQuiet
<1>3. FlagAfterBcb' /\ FlagMeansReset'
  BY DEF PowerCut, Fresh, IInv, FlagAfterBcb, FlagMeansReset
<1>4. OneUnderWay'
  BY DEF PowerCut, Fresh, OneUnderWay
<1>5. ParamIsWanted'
  BY DEF PowerCut, Fresh, ParamIsWanted
<1>6. QED
  BY <1>1, <1>2, <1>3, <1>4, <1>5 DEF IInv

LEMMA BootIInv == ASSUME IInv, Boot PROVE IInv'
<1>1. TypeOK' /\ AskedTarget'
  BY DEF Boot, IInv, TypeOK, Ctls, AskedTarget
<1>2. DownIsQuiet'
  BY DEF Boot, DownIsQuiet
<1>3. FlagAfterBcb' /\ FlagMeansReset'
  BY DEF Boot, IInv, FlagAfterBcb, FlagMeansReset
<1>4. OneUnderWay'
  BY DEF Boot, IInv, OneUnderWay
<1>5. ParamIsWanted'
  BY DEF Boot, IInv, ParamIsWanted
<1>6. QED
  BY <1>1, <1>2, <1>3, <1>4, <1>5 DEF IInv

LEMMA CableIInv == ASSUME IInv, Cable PROVE IInv'
<1>1. TypeOK' /\ AskedTarget'
  BY DEF Cable, machine, medium, IInv, TypeOK, AskedTarget
<1>2. DownIsQuiet'
  BY DEF Cable, machine, IInv, DownIsQuiet
<1>3. FlagAfterBcb' /\ FlagMeansReset'
  BY DEF Cable, machine, medium, IInv, FlagAfterBcb, FlagMeansReset
<1>4. OneUnderWay'
  BY DEF Cable, IInv, OneUnderWay
<1>5. ParamIsWanted'
  BY DEF Cable, IInv, ParamIsWanted
<1>6. QED
  BY <1>1, <1>2, <1>3, <1>4, <1>5 DEF IInv

LEMMA StutterIInv == IInv /\ UNCHANGED vars => IInv'
<1> SUFFICES ASSUME IInv, UNCHANGED vars PROVE IInv'
  OBVIOUS
<1>1. TypeOK' /\ AskedTarget' /\ DownIsQuiet'
  BY DEF vars, IInv, TypeOK, AskedTarget, DownIsQuiet
<1>2. FlagAfterBcb' /\ FlagMeansReset' /\ OneUnderWay' /\ ParamIsWanted'
  BY FlagUndisturbed, BufferUndisturbed DEF vars
<1>3. QED
  BY <1>1, <1>2 DEF IInv

LEMMA NextIInv == IInv /\ [Next]_vars => IInv'
<1> SUFFICES ASSUME IInv, [Next]_vars PROVE IInv'
  OBVIOUS
<1>1. ASSUME NEW p \in Ports,
             \/ Autodloader(p) \/ Reset(p) \/ PowerOff(p)
             \/ \E target \in Targets : Reboot(p, target)
             \/ Handler(p)
      PROVE  IInv'
  BY <1>1, AutodloaderIInv, ResetIInv, PowerOffIInv, RebootIInv, BeginCopyIInv,
     EndCopyIInv DEF Handler
<1>2. ASSUME NEW w \in Workers, Thread(w) \/ Poll(w) PROVE IInv'
  BY <1>2, AutodloaderThreadIInv, RebootThreadIInv, ResetThreadIInv, WriteBcbIInv,
     WriteFlagIInv, RecoveryIInv, PollIInv, SyncAndOffIInv DEF Thread
<1>3. QED
  BY <1>1, <1>2, TakeDownIInv, PowerCutIInv, BootIInv, CableIInv, StutterIInv DEF Next

LEMMA Invariant == Spec => []IInv
  BY InitIInv, NextIInv, PTL DEF Spec

----------------------------------------------------------------------------
\* The factory flag is never set unless the data has been wiped since or will
\* be at the next boot that looks at the message (reboot_into_recovery).
THEOREM FlagIsTrue == Spec => []FlagMeansReset
<1>1. IInv => FlagMeansReset
  BY DEF IInv
<1>2. QED
  BY <1>1, Invariant, PTL

\* A thread of a reboot command that overlapped no other tells init the target
\* of its own command (reboot_cmd_handle, reboot_cmd_thread).
THEOREM TargetIsCommanded == Spec => CommandedTarget
<1>1. IInv /\ [Next]_vars => [up => TargetKept]_vars
  <2> SUFFICES ASSUME IInv, Next, up, NEW w \in Workers,
                      worker[w] = "reboot_delay", powerctl = "none", ~overlap,
                      worker'[w] = "ended", up'
               PROVE  powerctl' = wanted[w]
    BY DEF TargetKept
  <2>1. PICK v \in Workers : Thread(v) /\ worker'[w] # worker[w]
    BY DEF Next, Autodloader, Reset, PowerOff, Reboot, Handler, BeginCopy, EndCopy,
       Start, Poll, Goes, TakeDown, PowerCut, Boot, Cable, IInv, TypeOK
  <2>2. RebootThread(w)
    BY <2>1 DEF Thread, AutodloaderThread, RebootThread, ResetThread, WriteBcb,
       WriteFlag, Recovery, SyncAndOff, Ends, Goes, IInv, TypeOK
  <2>3. QED
    BY <2>2 DEF RebootThread, TellInit, IInv, ParamIsWanted
<1>2. QED
  BY <1>1, Invariant, PTL DEF Spec, CommandedTarget

----------------------------------------------------------------------------
(* The other command that takes the device down, if only to sleep:         *)
(* DeepSleep, whose names are prefixed with S.                             *)

Apart(t, u) == t \in S!InLoop /\ u \in S!InLoop /\ t # u

\* A thread at its suspend whose count the kernel took, with no other in the
\* loop, has the kernel's check on its side: it is on, and stale as soon as an
\* event has come.
Checked ==
  \A t \in Threads :
    thread[t] = "suspend" /\ ~refused[t] /\ (\A u \in Threads : ~Apart(t, u)) =>
      check # "off" /\ (~current[t] => check = "stale")

\* What LossHasCause says, with two threads named for the number.
Caused ==
  \A s \in asleep : lost => refused[s] \/ \E t, u \in Threads : Apart(t, u)

\* The part of the types that the argument uses; no step lets more than one
\* thread into the loop.
SleepShape ==
  /\ thread \in [Threads -> S!ThreadSteps]
  /\ {current, refused} \subseteq [Threads -> BOOLEAN]
  /\ check \in {"off", "on", "stale"}
  /\ IsFiniteSet(S!InLoop)

SleepInv == SleepShape /\ Checked /\ Caused

LEMMA SleepInit == S!Init => SleepInv
<1> SUFFICES ASSUME S!Init PROVE SleepInv
  OBVIOUS
<1>1. S!InLoop = {}
  BY DEF S!Init, S!InLoop
<1>2. SleepShape
  BY <1>1, FS_EmptySet DEF S!Init, SleepShape, S!ThreadSteps
<1>3. Checked /\ Caused
  BY DEF S!Init, Checked, Caused
<1>4. QED
  BY <1>2, <1>3 DEF SleepInv

\* No thread leaves the loop, and at most one enters it in a step.
LEMMA LoopGrows ==
  ASSUME SleepShape, NEW t \in Threads, NEW step \in S!ThreadSteps, S!Goes(t, step),
         thread[t] \in {"seek", "read", "write", "suspend"} =>
           step \in {"seek", "read", "write", "suspend"}
  PROVE  /\ thread' \in [Threads -> S!ThreadSteps]
         /\ thread'[t] = step
         /\ \A u \in Threads : u # t => thread'[u] = thread[u]
         /\ S!InLoop \subseteq S!InLoop'
         /\ IsFiniteSet(S!InLoop')
<1>1. /\ thread' \in [Threads -> S!ThreadSteps]
      /\ thread'[t] = step
      /\ \A u \in Threads : u # t => thread'[u] = thread[u]
  BY DEF SleepShape, S!Goes
<1>2. S!InLoop \subseteq S!InLoop' /\ S!InLoop' \subseteq S!InLoop \cup {t}
  BY <1>1 DEF S!InLoop
<1>3. IsFiniteSet(S!InLoop \cup {t})
  BY FS_AddElement DEF SleepShape
<1>4. QED
  BY <1>1, <1>2, <1>3, FS_Subset

LEMMA SleepNext == SleepInv /\ [S!Next]_(S!vars) => SleepInv'
<1> SUFFICES ASSUME SleepInv, [S!Next]_(S!vars) PROVE SleepInv'
  OBVIOUS
<1> USE DEF SleepInv
<1>1. CASE S!Open
  BY <1>1 DEF S!Open, SleepShape, Checked, Caused, Apart, S!InLoop, S!kernel
<1>2. CASE S!Create
  <2>1. CASE UNCHANGED thread
    BY <1>2, <2>1 DEF S!Create, SleepShape, Checked, Caused, Apart, S!InLoop, S!kernel
  <2>2. ASSUME NEW t \in Threads, thread[t] = "free", S!Goes(t, "wait") PROVE SleepInv'
    <3>1. /\ thread' \in [Threads -> S!ThreadSteps]
          /\ S!InLoop' = S!InLoop
          /\ \A u \in Threads : thread'[u] = "suspend" <=> thread[u] = "suspend"
      BY <2>2 DEF SleepShape, S!Goes, S!InLoop, S!ThreadSteps
    <3>2. QED
      BY <1>2, <3>1 DEF S!Create, SleepShape, Checked, Caused, Apart, S!kernel
  <2>3. QED
    BY <1>2, <2>1, <2>2 DEF S!Create, S!Goes
<1>3. ASSUME NEW t \in Threads, S!Wait(t) PROVE SleepInv'
  <2>1. CASE UNCHANGED thread
    BY <1>3, <2>1 DEF S!Wait, SleepShape, Checked, Caused, Apart, S!InLoop, S!kernel
  <2>2. ASSUME NEW step \in {"ended", "seek"}, S!Goes(t, step) PROVE SleepInv'
    <3>1. /\ thread' \in [Threads -> S!ThreadSteps]
          /\ S!InLoop \subseteq S!InLoop'
          /\ IsFiniteSet(S!InLoop')
          /\ \A u \in Threads : thread'[u] = "suspend" => thread[u] = "suspend"
      BY <1>3, <2>2, LoopGrows DEF S!Wait, S!ThreadSteps
    <3>2. QED
      BY <1>3, <3>1 DEF S!Wait, S!Awake, SleepShape, Checked, Caused, Apart, S!kernel
  <2>3. QED
    BY <1>3, <2>1, <2>2 DEF S!Wait
<1>4. ASSUME NEW t \in Threads, S!Seek(t) \/ S!Read(t) PROVE SleepInv'
  <2>1. PICK step \in {"seek", "read", "write"} : S!Goes(t, step)
    BY <1>4 DEF S!Seek, S!Read
  <2>2. thread[t] \in {"seek", "read"} /\ S!Awake
    BY <1>4 DEF S!Seek, S!Read
  <2>3. /\ thread' \in [Threads -> S!ThreadSteps]
        /\ S!InLoop \subseteq S!InLoop'
        /\ IsFiniteSet(S!InLoop')
        /\ \A u \in Threads : thread'[u] = "suspend" => thread[u] = "suspend" /\ u # t
    BY <2>1, <2>2, LoopGrows DEF S!ThreadSteps
  <2>4. /\ current' \in [Threads -> BOOLEAN]
        /\ \A u \in Threads : u # t => current'[u] = current[u]
        /\ UNCHANGED <<refused, S!kernel>>
    BY <1>4 DEF S!Seek, S!Read, SleepShape
  <2>5. QED
    BY <2>2, <2>3, <2>4 DEF S!Awake, SleepShape, Checked, Caused, Apart, S!kernel
<1>5. ASSUME NEW t \in Threads, S!Write(t) PROVE SleepInv'
  <2>1. /\ thread' \in [Threads -> S!ThreadSteps]
        /\ thread'[t] = "suspend"
        /\ \A u \in Threads : u # t => thread'[u] = thread[u]
        /\ S!InLoop \subseteq S!InLoop'
        /\ IsFiniteSet(S!InLoop')
        /\ t \in S!InLoop
    BY <1>5, LoopGrows DEF S!Write, S!ThreadSteps, S!InLoop
  <2>2. /\ refused' \in [Threads -> BOOLEAN]
        /\ check' \in {"off", "on", "stale"}
        /\ ~refused'[t] => current[t] /\ check' = "on"
        /\ UNCHANGED <<current, asleep, lost>>
        /\ asleep = {}
    BY <1>5 DEF S!Write, SleepShape, S!Awake
  <2>3. \A u \in Threads : thread'[u] = "suspend" /\ u # t => Apart(u, t)'
    BY <2>1 DEF Apart, S!InLoop
  <2>4. Checked'
    BY <2>2, <2>3 DEF Checked
  <2>5. QED
    BY <2>1, <2>2, <2>4 DEF SleepShape, Caused
<1>6. ASSUME NEW t \in Threads, S!Suspend(t) PROVE SleepInv'
  <2>1. /\ thread' \in [Threads -> S!ThreadSteps]
        /\ thread'[t] = "seek"
        /\ \A u \in Threads : u # t => thread'[u] = thread[u]
        /\ S!InLoop \subseteq S!InLoop'
        /\ IsFiniteSet(S!InLoop')
        /\ t \in S!InLoop
        /\ thread[t] = "suspend"
    BY <1>6, LoopGrows DEF S!Suspend, S!ThreadSteps, S!InLoop
  <2>2. \A u \in Threads : thread'[u] = "suspend" => Apart(u, t)'
    BY <2>1 DEF Apart, S!InLoop
  <2>3. Checked'
    BY <2>2 DEF Checked
  <2>4. SleepShape'
    BY <1>6, <2>1 DEF S!Suspend, SleepShape
  <2>5. Caused'
    <3>1. CASE check = "stale"
      BY <1>6, <3>1 DEF S!Suspend, S!Awake, Caused
    <3>2. CASE check # "stale"
      <4>1. asleep' = {t} /\ lost' = ~current[t] /\ refused' = refused
        BY <1>6, <3>2 DEF S!Suspend
      <4>2. ASSUME lost', ~refused[t] PROVE \E u, v \in Threads : Apart(u, v)
        BY <2>1, <3>2, <4>1, <4>2 DEF Checked
      <4>3. \A u, v \in Threads : Apart(u, v) => Apart(u, v)'
        BY <2>1 DEF Apart
      <4>4. QED
        BY <4>1, <4>2, <4>3 DEF Caused
    <3>3. QED
      BY <3>1, <3>2
  <2>6. QED
    BY <2>3, <2>4, <2>5
<1>7. CASE S!Event
  <2>1. SleepShape' /\ Caused'
    BY <1>7 DEF S!Event, SleepShape, Caused, S!InLoop
  <2>2. Checked'
    BY <1>7 DEF S!Event, SleepShape, Checked, Apart, S!InLoop
  <2>3. QED
    BY <2>1, <2>2
<1>8. CASE S!Cable \/ UNCHANGED S!vars
  BY <1>8 DEF S!Cable, S!vars, S!kernel, SleepShape, Checked, Caused, Apart, S!InLoop
<1>9. QED
  BY <1>1, <1>2, <1>3, <1>4, <1>5, <1>6, <1>7, <1>8 DEF S!Next, S!Run

\* Putting the AP to sleep loses a wakeup event only for one of the two causes
\* the code leaves: LossHasCause, for any number of threads.
THEOREM LossCaused == SleepSpec => []LossHasCause
<1>1. ASSUME SleepInv PROVE LossHasCause
  <2>1. ASSUME NEW t \in Threads, NEW u \in Threads, Apart(t, u)
        PROVE  Cardinality(S!InLoop) > 1
    <3>1. {t, u} \subseteq S!InLoop /\ IsFiniteSet(S!InLoop)
      BY <1>1, <2>1 DEF Apart, SleepInv, SleepShape
    <3>2. IsFiniteSet({t, u}) /\ Cardinality({t, u}) = 2
      <4>1. IsFiniteSet({t}) /\ Cardinality({t}) = 1
        BY FS_Singleton
      <4>2. {t, u} = {t} \cup {u} /\ u \notin {t}
        BY <2>1 DEF Apart
      <4>3. QED
        BY <4>1, <4>2, FS_AddElement
    <3>3. Cardinality({t, u}) <= Cardinality(S!InLoop) /\ Cardinality(S!InLoop) \in Nat
      BY <3>1, FS_Subset, FS_CardinalityType
    <3>4. QED
      BY <3>2, <3>3
  <2>2. S!Cardinality(S!InLoop) = Cardinality(S!InLoop)
    BY DEF Cardinality, S!Cardinality
  <2>3. QED
    BY <1>1, <2>1, <2>2 DEF SleepInv, Caused, LossHasCause, S!LossHasCause
<1>2. QED
  BY SleepInit, SleepNext, <1>1, PTL DEF SleepSpec, S!Spec
=============================================================================
