# Verification of the engpc factory modules

`src/modules/` holds the plug-ins of `engpc`, the process that serves the
factory tool of a Spreadtrum phone. The host itself is not in the repository: it
loads each `.so`, calls its `register_this_module_ext(reg, num)`, and from then
on calls the registered handlers for diag frames (by type and subtype) and AT
commands (by name). Some frames also go on to the modem (`also_need_to_cp`). The
repository has no README, no design documents and no tests; comments and log
texts are the only statements of intent, and the findings below quote those.

## 1. Inventory

| component | state it keeps | operations | what is hard | correct when |
|---|---|---|---|---|
| miscdata, phasecheck (`libmiscdata/`, `libftmode/miscdata.c`) | the miscdata partition (eMMC block device, or UBI volume with `CONFIG_NAND`) | ctrl 2/3/4, ctrl_ex 0x12/0x13/0x14, 0x5F phase check, `AT+SETTESTMODE` | two ports on one partition; power cuts; NAND update that empties first | acknowledged is durable, neighbours are kept |
| test mode (`libftmode/ftmode.c`) | one byte of that partition | set, get | `free` of an interior pointer may end the process | as above |
| BT and WIFI addresses (`bt_wifi_mac.c`) | two files, two root copies, four properties | 0x5E frames, read or write, plus IMEI bits for the modem | two files and one result, fallback to stored or made-up addresses, forwarding | acknowledged is stored, no multicast address, the modem's part goes on unchanged |
| power commands (`reboot_cmd.cpp`) | `reboot_cmd_param`, boot loader message, factory flag | autodloader, reboot, reset, power off | detached threads that read a shared buffer 2 s later; power cuts between three stores | the device goes where it was told |
| oscillator calibration (`libdcxcali/`) | PMIC registers, `current_mode`, `hp_cbank`, `hp_amp` | mode, bank, amplitude search | search at the edges of bit fields, save and restore through statics | the search ends at the best code, high power code is kept |
| calibration and result files (`tsx_rawdata.c`, `dcx_cali.c`, `dcxsrv.c`, `libap_opt/`) | six files | read, write, boot service, backup removal | torn files, order of flush, sync, answer, remove | acknowledged is on the medium, junk is never loaded silently |
| factory call test (`libFactoryRadioTest/`) | a static line buffer, a reader thread | call, hang up, SIM check | late, partial and missing answers; time-outs | an answer belongs to its command |
| deep sleep (`app_deep_sleep_cmd.c`) | one global descriptor, its file position | start a suspend thread | races with the kernel's wakeup count, several threads | no wakeup event is slept over |
| charging and battery (`charge/charge.c`) | the charger driver's settings | switch, current, query, capacity, averages | partial failure, byte encoding | settings are what was acknowledged, answers what was measured |
| GPIO test (`gpio/gpio.cpp`) | pins of the chip | drive, read | failures that the answer hides, a close of a descriptor never set | a pin answered as driven is, a level answered is the wire's |
| temperature (`tsensor/`) | `inited`, the sensor's registers; shares the PMIC's two files | read, restore | two-step register access by two processes, read-modify-write, a sensor that needs time | an update keeps the other bits, a reading is of a settled sensor |
| CPU benchmark (`libucpubench/`) | `exec_time`, `ucpubench_result` | run | two ports on two globals, threads that do not start | an answer is of its own threads, all of them ended |
| trace dump, FM | - | - | - | not reached by any frame, see 7 |
| property and identity handlers (`libapcomm`, `libcomcontrol`, `libnpipropsrv`, `libchipid`, `libnefuse`, `libgetswpac`, `libtouchscreen`, `libusb`, `libdialppp`) | none | one property or node each | - | not modelled, see 7 |

Interaction: the two ports of the host (diag and AT) call handlers from a thread
each, so handlers of one port are serialised and those of two ports are not. The
only state that handlers of both ports share is the miscdata partition, the
reboot parameter and the benchmark's globals. The PMIC's register file is shared
by handlers of the diag port and by `dcxsrv`. Handlers start threads
(power commands, deep sleep, URC reader) that outlive the request. `dcxsrv` is a
separate process started at boot.

## 2. Modules

| module | models | refines / checked by |
|---|---|---|
| `MiscData` | all handlers of the partition, per channel | `MiscStore`; `MC_MiscData` |
| `MiscStore` | what they promise: each request takes effect at once on all it asks for, and is answered once it is durable; `Unpromised` names where they do not | abstract |
| `MiscDataProofs` | theorems about `MiscData` | TLAPS |
| `BtWifiMac` | 0x5E frames end to end | `MC_BtWifiMac` |
| `BtWifiMacProofs` | theorems about `BtWifiMac` | TLAPS |
| `RebootCmd` | the four power commands and their threads | `MC_RebootCmd` |
| `DeepSleep` | handler, suspend threads, the kernel's wakeup check | `MC_DeepSleep` |
| `RebootCmdProofs` | theorems about `RebootCmd` and `DeepSleep` | TLAPS |
| `DcxCali` | mode, bank and amplitude handlers, one step per write of a register | itself |
| `Pmic` | the register file and its three users, two steps per access | `MC_Pmic` |
| `PmicProofs` | theorems about `Pmic` and `DcxCali` | TLAPS |
| `CalFiles` | all file handlers, and the boot service | `MC_CalFiles` |
| `CalFilesProofs` | theorems about `CalFiles` | TLAPS |
| `AtChannel` | `TestMakeCall`, `TestCheckSIM` over `sendATCmd`, `readline` and a modem | `MC_AtChannel` |
| `AtChannelProofs` | theorems about `AtChannel` | TLAPS |
| `Charge` | both charger switches, current settings, query, capacity, averaged readings | `MC_Bbat` |
| `Gpio` | `testGpio` in both builds, and the kernel's pins | `MC_Bbat` |
| `BbatProofs` | theorems about `Charge` and `Gpio`, alone and side by side | TLAPS |
| `Bench` | `benchmark_test` on two ports and its threads | `MC_Bench` |
| `BenchProofs` | theorems about `Bench` | TLAPS |

`MC_MiscData` runs `MiscData` four times over, on either medium with ports that
take turns or race, and holds the mapping to `MiscStore`. `MC_Bbat` puts `Charge`
and `Gpio` side by side: they share the diag port, which serves one request at a
time, and no state. `MC_DeepSleep` and `MC_Pmic` give the names of their
component a prefix, so that one proof module can extend it beside a second
component. The other MC modules only give constants their values.

Each module has a type invariant. As it stands it is proved for `MiscData`,
`Charge`, `Bench`, `AtChannel`, `RebootCmd` and `BtWifiMac`, and for `CalFiles`
as a part of `Shape`. For `Gpio`, `Pmic`, `DcxCali` and `DeepSleep` the proofs use
only the part of it that they need (`PinShape`, `Shape`, `DcxShape`,
`SleepShape`). The run of `AtChannel` checks its own, too, because the bound
of the answer's buffer is part of it.

### How state and actions correspond to the code

* **MiscData.** `disk` is what a reader sees, `durable` what the medium holds;
  `Write` changes the first, `Sync` (`fsync`, miscdata.c:229) carries it over,
  `Answer` comes last. `pc`, `req`, `image`, `reply` are the locals of the
  handler a channel is in. A NAND write is `VolumeRead`, `UpdateStart`
  (`UBI_IOCVOLUP`, after which `marker` makes the volume unreadable),
  `VolumeWrite`. `raced` is history: a port joins it when another port's write
  lands while it holds cells it has read and will write back. `Abort` is the
  `free` at ftmode.c:263, `PowerCut` and the reset of the channels are
  external. `stray` remembers cells whose writer died: what the kernel does with them is open until the next sync or power cut.
  `fsync` is taken to succeed and `write` to be complete or fail: the code looks
  at neither (`len <= 0` is all it tests), so a short write would be acknowledged.
  The control operations take no notice of the offset (:286, :302, :307), and
  `Base` says so. A frame may ask for more than there is: `Overruns` names those
  that copy past the end of the answer's room or of the volume's image (:306,
  :202), which is undefined; the process may end there (`MayDie`), or the
  copy passes and the request goes on.
* **MiscStore.** A write takes effect on `Targets`, the cells it asks for. A control
  write (case 3) writes `data_len` bytes at 0, so that what its payload puts at or
  past that length is acknowledged and not stored: those cells are given to the
  store as `Unpromised` (`Unwritten` in `MC_MiscData`), and on them alone a positive
  answer means nothing.
* **BtWifiMac.** One handler runs at a time. `frame` is the request as sets of
  bits and addresses; `files` is what a reader sees, `medium` what survives. The
  steps are those of `write_mac2file`: open-truncate and write of each file,
  removal of the root copy, `sync`; then the properties, the answer and what the
  modem gets (`cp`). `ret` is the one result that is answered: an error on the
  WIFI file is overwritten by the BT file's result (:386), which `faults`
  remembers for the properties. A `rand_mac.txt` that is there and cannot be
  opened, read or parsed leaves a random address (:291-318), like one that is not.
* **RebootCmd.** `param` is `reboot_cmd_param`, filled in two steps (`BeginCopy`
  is the `memset`, `EndCopy` the `strncpy`). Each worker is one detached thread.
  A thread reads the parameter when its delay is over, not when it was started.
  `WriteFlag` reaches the page cache only, because `fsync` (:76) comes before
  the `fclose` (:78) that flushes stdio's buffer; the cached flag may be lost by
  a power cut and is kept by an orderly shutdown. A `pthread_create` that fails
  is answered OK, too.
* **DcxCali.** One action per write of the registers it keeps, with the reads that
  lead to it; `ctrl10` is a whole register, of which `Bank` is the part that
  a mode switch saves (:289). The two calls of an access, between which another
  process may come, are in `Pmic`. The comparator is
  external and given by a limit per phase, chosen anew each time. Its limits
  include "accepts everything" and "accepts nothing". `lp_amp_cali` reads
  and writes TSX_CTRL5 although `sc2730_glb.h:1574-1576` places the low power
  field in TSX_CTRL6 and `dcxsrv` writes it there; the two extreme comparators
  are how the search sees a register its circuit does not look at. The oddities
  of :154 (`val = + 1`) and of the level that is OR'ed into TSX_CTRL4 fall into
  the same range.
* **CalFiles.** `files` and `medium` again; a stdio write is `Fopen`
  (truncates), `Fwrite`, `Fflush`, `Fsync`, `Fclose`. `spoiled` is the ghost of
  an error the code does not look at. Both handlers of `txdata.txt` keep their
  records in the same file, and neither looks at which it finds: 48 bytes read
  as two of 8 (tsx_rawdata.c:205), 16 bytes as one of 12 (:353), both
  answered with status 0. A file therefore carries its format, and what `Served`
  gives of the other's (`Foreign`) is no record. A read that ends short is answered as good, too.
  `Load` is `dcxsrv` at boot, which may also load what an uninitialised record
  holds, after an empty or short file or a failed read of a good one
  (dcxsrv.c:118-149). `misread` says which reader was cut short. A `mkdir`
  that fails because the directory is there after all leaves its -1 to be answered,
  although the write goes on (tsx_rawdata.c:47-50, :89).
* **AtChannel.** `buffer`, `partial` stand for `s_ATBuffer`; `tty` for the
  lines a device has sent and `todo` for the commands it has not answered.
  `cut` remembers that some command was left before its last line was read
  (time-out, error of `select`, restart, a line that came in two pieces, too many
  lines), or that the modem said something unasked (`Stray`: an unsolicited line, or
  a bare OK to a command that has another answer). The properties speak of the time
  before; what comes of it then is what the code does. The two profiles of
  `isLteOnly` (:389) send different commands with the same answers.
* **DeepSleep.** `fd` and `rewound` are the global descriptor and whether its
  position is 0; each thread loops seek, read, write, suspend. `check` is the
  kernel's armed wakeup check, which a refused write turns off, `asleep` holds the
  thread whose write put the system to sleep, as long as it sleeps. The -1 of that
  write takes the branch of a good one (:83). The number of a closed
  descriptor may be another file's by the time the thread reads (`Read`).
* **Charge.** `setting` is what the driver's nodes hold, `present` the nodes
  the kernel has; a node that is not there is passed over without an error, as
  the code does. `sum`, `count` are the averaging loop; `NtcBytes` the split of a
  temperature into four bytes, `Short` the cut of a query's current and of the
  auxiliary voltage to sixteen bits. The current that a query answers with is not
  measured: it is read back from the limit that `ap_set_charge_current` writes, by
  1000 (`Offered`, :348). Bytes which the loop does not reach are taken to be zero: the code leaves
  them as the host hands them over.
* **Gpio.** `build` is `KERNEL_OLD` or not, `present` the nodes the kernel has,
  `pin` what it keeps of a pin, `wire` what the equipment puts outside. An `Echo`
  is one shell command, done or failed; `slipped` remembers a failure that the
  handler does not look at, `port` whether the stray `close` (:344) hit the
  port's own descriptor.
* **Pmic.** `reg`, `selected` are the register file behind `pmic_reg` and
  `pmic_value`; `user` is where the diag port and `dcxsrv` are in their list of
  accesses (`Program`), `Mishap` whatever may go wrong with them. `Select` and
  `Value` are the two calls of one access,
  `OpenFail` the only failure `tsensor.c` sees. `astray`, `mixed` and
  `disturbed` are history: another select came in between, an access failed
  unseen, the sensor is not as `inited` says. The value of a register is the set
  of its bits, and bits always changed together are one.
* **Bench.** `exec_time`, `ucpubench_result` are the two globals; a port's
  record holds the locals of its handler, with the state of each thread. The
  timed computation (:66-235) is one step, `Measure`, which arrives at any score,
  or `NoDuration`. `overlap`, `measured`, `limits` are history. `exec_time` is an
  `int`: digits that it cannot hold wrap around at `Half` (2^31), as the build
  does, and `OwnScores` says which time was asked for only where it can.

## 3. Runs

| run | question | size |
|---|---|---|
| `miscdata` | two ports on an eMMC partition and on a NAND volume, in turn with every operation, and racing with three and two of them; read and write errors, aborts, power cuts | 140,136 states |
| `btwifimac` | every frame over four factory states, with and without the file of made-up addresses | 399,294 |
| `btwifimac_forward` | finding, see 6 | stops at the violation |
| `reboot` | two ports, two threads, two targets, power cuts, cable | 142,476 |
| `dcxcali` | a 4 by 3 register, every comparator, both modes, death between any two writes, a bank that fits its eight bits and one that does not | 1,345,959 |
| `atchannel` | calls on one slot, SIM test on the other; backlog, tty and info buffers of one or two lines, one OK that nobody asked for | 1,103,284 |
| `calfiles` | the requests about one file at a time, five sets of them | 110,148 |
| `deepsleep` | two threads, two looks at the cable | 19,262 |
| `deepsleep_refused` | finding, see 6 | stops at the violation |
| `bbat` | charging: all 64 sets of nodes, two currents, readings at the edges of the byte encodings, four reads to a mean. gpio: both builds, all 16 sets of nodes, two pins, all three directions, a failure at every call | 1,276,256 |
| `bench` | two ports, two CPUs, two scores, two requests, threads that do not start or end without a score | 176,146 |
| `pmic` | the diag port's three operations and the boot service, one mishap at any access | 483,971 |

What each property says stands above it in its module. In short:

* `DirtyIsPending`, `ImplementsStore`, `AckedIsStored` (twice), `IntactFiles`,
  `BackupOrData`, `FlagMeansReset`: what has been acknowledged outlives a power
  cut at any later step, and what replaces something is there before it goes.
* `OnlyAddressed`, `BitsKept`, `NoMulticastWifi`, `HandedOnWhenStored`, `PropsFromMedium`:
  no request, over any history, changes or passes on what it was not asked to.
* `WedgedForGood`: the opposite of a repair, shown because it is what the
  order of `UBI_IOCVOLUP` and the read at the start of each write imply.
* `CommandedTarget`, `SimAnswerIsOwn`, `DialOwnRegistration`, `InStep`,
  `LossHasCause`, `LimitsAgree`, `NotChargingOnceOff`, `DrivenIsHeld`, `AckedIsDone`,
  `OwnScores`, `ThreadsJoined`: shared buffers, nodes and
  descriptors do not mix up two requests, unless one of the events named in the
  property happened; those events are the ones that really do mix them up.
* `HighPowerKept`, `CircuitAtRest`, `SearchFindsBest`, `AnswerIsMeasured`,
  `ReadIsWire`, `SettledReading`, `VerdictTells`, `ReadsWhole`,
  `JunkOnlyFromTorn`: numbers, registers and records are what was measured, found
  or saved.
* `CommandsTakeDown`, `PowerOffComes`, `CalibrationEnds`, `EveryRequestEnds`,
  `LoopSuspends`: what must happen does.

### Bounds, and why they are enough

Two ports, threads, cells and values are the least with which two actors can
collide and a neighbour differs from the addressed cell; no handler counts
actors. `MaxLen`, `RspRoom`, `TmpRoom`, `TtyRoom`, `Backlog`, `TelTimeout`,
`Polls` and `Samples` scale down 512-byte buffers, 100 s, 300 looks and 16 reads:
each keeps one case below, at and (where the code allows it) above its limit.
`Coarse` = 4, `Fine` = 3 keep both edges of each bit field and a step inside.
`Workers` bounds how many commands come before the next boot, `Threads` likewise.
The host's requests are never capped otherwise.

* `miscdata`: with every kind of request two racing ports are out of reach, so
  they take turns with all of them and race with those that differ in what they
  read, hold and write: on eMMC an extended write, a test mode and a read, on NAND
  a control write (which reads twice) and a phase check, in payloads of `RaceLen`
  = 1 cell. Two cells are one that is addressed and its neighbour.
* `dcxcali`: one bank fits the eight bits of its field, one does not.
* `pmic`: `MaxMishaps` = 1 allows one access that goes astray or fails.
* `atchannel`: of what the modem may say unasked the run takes the OK, which ends
  a command early; after it `cut` is set, so once is enough for properties that
  speak of the time before. The theorems take any of `Unasked`.
* `bench`: two speeds more than 4 and not more than 5 percent apart put both
  requests on either side of the verdict. `Half` = 128 lets a time wrap around when
  two requests build it up at once.
* `bbat`: the readings lie below, at the edges of, and above what the bytes of
  an answer carry. `Factory` = 2,000,000 is a limit in the driver's unit, which a
  query divides by 1000. Two pins are the one a request drives and another.

The theorems of section 4 hold without any of these bounds; between them they
state every safety and action property of the runs. The bounds limit the five
liveness properties only.

`CHECK_DEADLOCK` is left on everywhere: each model can always take another
request, or another external event.

### Fairness

Weak fairness of a handler's or thread's own steps (`RebootCmd`, `DcxCali`,
`AtChannel`): a thread that has been entered is scheduled, blocks on nothing but
I/O, sleeps for fixed times and reads with `select` and a time-out. Nothing is
assumed of a tool, of the modem or of a power switch. Three assumptions go
further and are justified by the environment the code is written for:

* `RebootCmd` assumes that init obeys `sys.powerctl`, and that the USB state
  file can be read sometime after the cable is out (a failed `read` counts as
  connected, a failed `open` as unplugged).
* `DeepSleep` needs strong fairness of each thread, because the system falls
  asleep in between and disables all of them; each round of another thread's
  loop leaves three seconds of waking time (:71). It also assumes that a system
  which is asleep is woken sometime.
* `CalibrationEnds` has the comparator's behaviour as a precondition: with one
  that accepts nothing the loops at dcx_cali.c:108-112 and :167-170 do not end.
  That is what the code does, and why the property is stated as it is.

## 4. What is proved

Every theorem is proved for all values of the constants, from nothing but the
named assumptions of the component's module (`DeepSleep`, `Gpio` and `Pmic` need
none). What a property is said below to need, it needs because it is not
inductive by itself.

**`MiscDataProofs`**, for every number of ports and cells, all values, every set of
requests and both media:

* `TypeCorrect`: `Spec => []TypeOK`.
* `Durability`: `Spec => []DirtyIsPending`. When a handler writes one must know
  that what it writes spans exactly the cells its request addresses, or that a
  volume image is complete. The invariant is `IInv == TypeOK /\ (\A c : Shape(c))
  /\ DirtyIsPending`, where `Shape` says for each step what a handler holds there: a
  request of which kind, an image of which domain, and no NAND step on eMMC.
  `PatchType`, `ImagesIntro`, `ShapeKept`, `OverlayType` are the lemmas.
* `NoRepair`: `Spec => WedgedForGood`, an action property from `TypeOK` and
  `WedgedStep`, which shows that no step but the one that opened an update
  closes it.
* `NeighboursKept`: `Spec => OnlyAddressed`. A port which has not raced writes
  back only what the partition still holds (`Fresh`: outside the cells it is
  asked to change its copy equals `disk`), and a cell the medium lags behind in
  belongs to a request that was asked to change it, or to a port that has raced
  (`Owned`), because a power cut may take either value. `Race` is both. The
  theorem says what is lost without a lock, and that nothing else is: case 3 of
  `eng_diag_product_ctrl` (which starts at offset 0) and the rewriting of a
  volume may put back another port's cells, and every other write cannot.
* `Implementation`: `Spec => ImplementsStore`, the refinement of `MiscStore`. `Phases`
  and `Results` are the mapping of a handler's step and copy. One needs beside
  `IInv` what an image holds at its write, and that an update is open on NAND
  only (`Bound`, `Medium`). Each step is then shown to be a step of the store or
  a stutter (`StepImplements`): a write is the store's change of every cell asked for but those of
  `Unwritten` (`WriteEffect`, of which `UnreachedUnwritten` says that the span of a
  write misses no others; `WriteChanges`), a sync its commit (`SyncCommits`), the opening of an update
  takes the store down (`UpdateTakesDown`), reads, failures, answers and resets
  map to their own (`ReadObserves`, `FailRefuses`, `AnswerResponds`,
  `ResetForgets`), and preparations are hidden (`PrepareHidden`).

**`CalFilesProofs`**, for any data, stations and requests: `FilesIntact`
(`[]IntactFiles`), `AcknowledgedStored` (`[]AckedIsStored`), `ReadsServeWhole`
(`[]ReadsWhole`), `CalibrationKept` (`[]BackupOrData`) and `JunkExplained`
(`JunkOnlyFromTorn`). The invariant adds which request a step serves (`Roles`),
how far a write has got, so that either the file holds what was asked for or its
spoiling is known (`Progress`), that what has been synced and not spoiled is on
both sides until the answer (`Synced`), and that a power cut cannot take the
backup from under the process (`BackupOnMedium`). The invariant needs the
properties themselves: a read serves what `IntactFiles` says of its file.

**`BtWifiMacProofs`**, for any addresses, frames and factory content:
`AcknowledgedStored` (`[]AckedIsStored`), `HandedOnStored`
(`[]HandedOnWhenStored`), `WifiNeverMulticast` (`[]NoMulticastWifi`),
`PropsAreStored` (`PropsFromMedium`). The invariant follows a frame through the
handler: which frames reach a step (`Frame`), that the chosen addresses are due
(`PlanIsDue`), what the files, then the medium hold of them (`Written`), when
the one result says less than happened (`BtFault`), and where the result and the
answers stand (`Answered`). `WifiRootKept` is what `NoMulticastWifi` needs
across a power cut: nobody writes the root copy that a fallback reads. That the
factory leaves no multicast WIFI address is an assumption.

**`RebootCmdProofs`**, for any ports, number of commands and targets:

* `FlagIsTrue`: `[]FlagMeansReset`. The flag is written only after the message,
  and the page cache holds no flag but the one that is set (`FlagAfterBcb`);
  threads are dead while the system is down (`DownIsQuiet`).
* `TargetIsCommanded`: `CommandedTarget`, an action property. As long as no two
  reboot commands have overlapped, one handler or one thread has the buffer to
  itself (`OneUnderWay`), and what its thread will read is what its command has
  put there (`ParamIsWanted`).
* `LossCaused` (`DeepSleep`): `[]LossHasCause`, for any number of threads. A
  thread at its suspend whose count the kernel took, with no other in the loop,
  has the kernel's check on its side (`Checked`); `Caused` is the property with two
  threads named for the number of them. That the loop holds finitely many threads
  is proved (`LoopGrows`), not assumed.

**`PmicProofs`**, for any number of mishaps (`Pmic`):

* `UpdatesKeepBits` (`BitsKept`), which needs to know who runs what (`Roles`), that an
  access reads and writes the register it selected as long as none has gone astray
  (`OwnAccess`), and `Current`: what a
  read-modify-write has read is what its register still holds when it writes it
  back, because the boot service and the calibration handler write none of the
  sensor's registers and the kernel turns the sensor on only for the port itself.
* `AcknowledgedDone` (`[]AckedIsDone`) and `ReadingSettled` (`[]SettledReading`),
  from `Later`: when an answer comes (`Stages`), what the updates of a restore that
  are through have done and the later ones left alone (`RestoredSoFar`), that
  nobody but the service replaces the tool's bank, once (`BankSet`), and that the
  sensor is on and settled when the static says so, but while a restore takes it
  down (`Ready`).

and, for fields of any size, any banks and every comparator (`DcxCali`):

* `HighPowerHeld` (`[]HighPowerKept`), `CircuitRests` (`[]CircuitAtRest`). What the
  high power mode was last set to (of the bank, its eight bits) is in its registers
  or, while the low power mode uses them and on the way there and back, in the statics (`HeldHigh`); the low power
  mode leaves the other's bank at 0, and a calibration on the way saves and
  restores that 0 (`LowAtRest`).
* `SearchBest` (`SearchFindsBest`, the wrap at the top of the coarse field
  included): what a search has passed over is not accepted
  (`Passed`), and the comparator is monotone (`Monotone`).

**`AtChannelProofs`**, for any slots, requests, backlogs and room for lines:
`TypeCorrect` (`[]TypeOK`), `SimAnswerOwn` (`[]SimAnswerIsOwn`), `DialOwn`
(`[]DialOwnRegistration`), `StepKept` (`[]InStep`). The argument is about
`Coming`, the lines on their way to the reader: the whole ones in the buffer, then
those of the device, the first of them perhaps begun (`Begun`). A read of
any size moves lines along this sequence and changes none of them (`ReadKeeps`), so
until a command is cut short, or the modem speaks unasked, what comes is what `Remaining` says is left of the
answer to the command under way, and nothing is on any other device (`InOrder`).
`Told` says the info line has been copied, `Answered` that a SIM check that has
not failed has one, and `Unregistered` that no stale line in `tmp` says that
the device is registered, which is what `tmp` keeping lines of earlier polls
could do.

**`BbatProofs`**, for all currents, readings and numbers of samples and for every
kernel's set of nodes (`Charge`):

* `TypeCorrect`, `CurrentsHeld` (`[]LimitsAgree`), `DisconnectHeld`
  (`[]NotChargingOnceOff`). Between the two writes of `ap_set_charge_current` one
  must know that the first limit is already written and that nothing is
  acknowledged; in front of each step, that the request is of its handler's kind
  (`Underway`). What `NotChargingOnceOff` says of the node needs no `status` node, and
  what it says of a query needs no disconnect (`StoppedIfOff`, `QueryAnswered`).
* `AnswerMeasured` (`[]AnswerIsMeasured`). What the reads have added up to lies
  between their number times one of the readings taken and that of another
  (`Averaged`), a mean that is rounded down lies between any bounds of its terms
  (`MeanBounds`), and the bytes of an answer add up to it (`BytesAddUp`).

and, for any table of pins (`Gpio`), of the two side by side:

* `PinsHeld` (`[]DrivenIsHeld`) and `LevelsRead` (`[]ReadIsWire`). An answer of OK
  must already say that the pin is `Driven`, a request in front of its write that
  the pad is switched, the pin exported and an output, unless something has
  slipped (`PinUnderway`), and the pins a step does not touch must stay as they are
  (`HeldKept`).
* `ChargingHeld` is what is proved of `Charge`, on a port that serves the gpio
  tests too: each behaviour of `MC_Bbat` is one of `Charge`'s and one of `Gpio`'s
  with stuttering (`ChargeRuns`, `GpioRuns`).

**`BenchProofs`**, for any ports, CPUs, scores and requests:

* `TypeCorrect`, and `Joining` (`[]ThreadsJoined`). Up to the index of each loop the
  threads are started, then ended, and a thread that was not started has cleared
  `pthread_flag` by the time its join is over (`Progress`).
* `ScoresOwn` (`[]OwnScores`) and `VerdictRight` (`[]VerdictTells`), from `Own`: a
  handler that no other overlaps has the globals to itself (`Alone`), the
  digits read so far make the number that `exec_time` holds (`ReadSoFar`), and the
  printed scores are those of its own threads. The CPU that the
  check names is the slower of the first pair that is too far apart, which exists
  whenever any pair is (`FirstPair`, `CheckFacts`).

Induction and least elements of sets of numbers, which `BenchProofs` and
`AtChannelProofs` use, come from the library's theorem that each set of a
well-founded relation has a minimal element (`Least`, `Induction`), because its
induction theorems take an operator.

Only model-checked: the five liveness properties (`CommandsTakeDown`, `PowerOffComes`,
`CalibrationEnds`, `EveryRequestEnds`, `LoopSuspends`). They rest on fairness, and
so on ENABLED, which the prover does not reason about. The two findings of section
6 are runs as well: a counterexample needs no proof.

## 5. Plan

1. Done: a module for every component that keeps state, and a theorem for every
   safety and action property of the runs.
2. Abstract specifications for `CalFiles` (an atomic durable file) and `BtWifiMac`
   (an atomic pair), with `MiscStore` as their pattern; a mapping of `AtChannel` to a
   channel of whole answers. Their proofs can start from the invariants above.
3. `DcxCali` over the two-step accesses of `Pmic`: what the search finds if the
   boot service comes in between.

No module declares a RECURSIVE operator, and each property is a conjunction or
implication over named state, so that further proofs can start from them as they
stand.

## 6. Findings

* `btwifimac_forward`: a frame that reads addresses and asks the modem for an
  IMEI is forwarded with the subtype of the answer (1), because
  bt_wifi_mac.c:197 writes it into the request's header. The comments (:214,
  miscdata_rw.c:47) say that the address bits are cleared in the frame.
* `deepsleep_refused`: app_deep_sleep_cmd.c:83 takes -1 for success, so a
  refused wakeup count is logged as "enter suspend" and suspends. The branch
  for a failed write (:87-90) is reached by a write of no bytes only.

Seen while reading, and not stated by any comment, so not made a run: lost
updates of two NAND ports; a `ctrl_write` whose payload lies past its own length; WIFI errors that are not
answered; `fsync` before the flush of the factory flag; `nlen` of a reboot
command taken from `strlen(buff)` also for framed requests; a USB state
file that passes for a pulled cable when it cannot be opened (deep sleep,
power-off) and for a plugged one when it cannot be read (power-off); a calibration
command of `charge.c` other than 1 that disconnects; a charger without nodes that is switched successfully; the
capacity or the current answered as 0 after a failed read; a pin answered as set
when `/dev/autotest0` cannot be opened (gpio.cpp:296); scores of which only the
first is cleared (ucpubench.c:290); result files answered with
whatever a stack buffer holds when they are empty (mmiresult.c:136, :179);
the two formats of `txdata.txt`, which no reader tells apart; a failed read of `dcx_data.dat` that passes for a good one
(dcxsrv.c:118-141); `isLteOnly(simNum)`, called with 1 or 2 where the function
knows 0 and another (factorytest_radio.c:62-72, :389); a query whose current is
the limit that was set.

## 7. Not modelled

* Trace dump: its registration is commented out. FM: not built (`Android.bk`).
* `AT+GETTESTMODE`: `getTestMode` parses /proc/cmdline and keeps nothing; what a
  mode is called is a table. `testmodeRsp` is a constant.
* Property and identity handlers, PPP: one property or node per request and
  no state between requests.
* Of modelled components: framing, escaping and CRC of diag frames;
  `AUDIO_WHALE_HAL` in the call test, `isLteOnly` and `isNrMode`, which choose
  a device and a command that are used alike, and its discarding of a full 512-byte
  buffer; a modem that keeps sending lines none of which ends a command, for which
  the loop at factorytest_radio.c:221-249 has no limit; currents of five and more digits,
  which overflow `current[5]` (charge.c:542), and more than ten CPUs, which
  overflow `tid` and `ucpubench_result` (ucpubench.c:31, :35): both undefined; the IMEI writers of
  bt_wifi_mac.c:499-617, which no registered frame reaches; a raw write of
  length 0 in phase check; `pthread_create` errors that leave `s_threadStarted`
  set (factorytest_radio.c:401-407), which nothing reads but the next test; the
  search for the thermal zones when `tsensor` is registered (a zone that is not
  there is one that cannot be opened); regulators and waits of the gpio test.
* The host, init, the kernel, the modem and the PMIC are external: they do what
  `src/` relies on, and anything else it must expect of them.
