------------------------------ MODULE MiscData ------------------------------
(***************************************************************************)
(* The "miscdata" partition and every handler that touches it:             *)
(*   libmiscdata/miscdata.c     eng_diag_product_ctrl (0x0D/2,3,4) and     *)
(*                              eng_diag_product_ctrl_ex (0x0D/0x12,0x13,0x14)   *)
(*   libmiscdata/phasecheck.c   direct_phschk (0x5F)                       *)
(*   libftmode/ftmode.c         setTestMode (AT+SETTESTMODE)               *)
(* The partition is a row of Size cells.  On eMMC (~Nand) a handler seeks  *)
(* and writes the cells it was given, then calls fsync; on NAND it reads   *)
(* the whole UBI volume, patches the copy and replaces the volume, which   *)
(* cannot be read from the start of that update to its end.                *)
(* Each channel (a diag or AT port of the host) serves one request at a    *)
(* time; the channels share nothing but the partition.                     *)
(***************************************************************************)
EXTENDS Integers

CONSTANTS
  Channels,      \* the ports whose threads call the handlers
  Nand,          \* CONFIG_NAND: the partition is a UBI volume
  Size,          \* cells in the partition
  Vals,          \* contents of a cell
  Magics,        \* contents of cell 0 that read as an SP09 or SP15 header
  MaxLen,        \* longest payload of a request, in cells
  RspRoom,       \* cells a response buffer has room for
  TestModeCell,  \* the cell at TESTMODE_OFFSET
  Ops            \* the kinds of request the ports deliver

Cells == 0 .. Size - 1

ReadOps == {"ctrl_read", "ex_read", "phs_read"}
StoreOps == {"ctrl_write", "ex_write", "phs_write", "testmode", "testmode_at"}
RefusedOps == {"ctrl_unknown", "phs_badcrc", "phs_nocmd"}
AllOps == ReadOps \cup StoreOps \cup RefusedOps

ASSUME MiscDataAssumption ==
  /\ Nand \in BOOLEAN
  /\ Size \in Nat \ {0}
  /\ MaxLen \in Nat
  /\ RspRoom \in Nat
  /\ TestModeCell \in Cells
  /\ Magics \subseteq Vals
  /\ Ops \subseteq AllOps

----------------------------------------------------------------------------
(* Requests: what a frame asks for.  data is the payload of a write.       *)

Payloads == UNION {[0 .. n - 1 -> Vals] : n \in 0 .. MaxLen}

\* The fixed single cell of a test mode, the header cell of a phase check.
\* Nothing bounds an offset.
WellFormed(r) ==
  /\ DOMAIN r.data = IF r.op \in StoreOps THEN 0 .. r.len - 1 ELSE {}
  /\ r.op \in {"phs_read", "phs_write"} \cup RefusedOps => r.off = 0
  /\ r.op \in {"testmode", "testmode_at"} => r.len = 1 /\ r.off = TestModeCell
  /\ r.op \in {"phs_read"} \cup RefusedOps => r.len = 0
  /\ r.op = "phs_write" => r.len > 0

Requests == {r \in [op : Ops, off : 0 .. Size, len : 0 .. MaxLen, data : Payloads] :
               WellFormed(r)}

NoRequest == [op |-> "none", off |-> 0, len |-> 0, data |-> [i \in {} |-> 0]]

\* The cells a requester asks to change.
Addressed(r) ==
  IF r.op \in StoreOps THEN {i \in Cells : r.off <= i /\ i < r.off + r.len} ELSE {}

\* The cells the handler transfers: eng_diag_product_ctrl always starts at
\* offset 0 (miscdata.c:286, :302, :307), whatever the request says.
Base(r) == IF r.op \in {"ctrl_read", "ctrl_write", "phs_read"} THEN 0 ELSE r.off
Length(r) == IF r.op = "phs_read" THEN RspRoom ELSE r.len
Span(r) == {i \in Cells : Base(r) <= i /\ i < Base(r) + Length(r)}

\* A copy past its buffer: over nvdata, which has room for a response (:306),
\* or from or over the copy of a NAND volume (:128, :202).
Overruns(r) ==
  \/ r.op = "ctrl_write" /\ r.off + r.len > RspRoom
  \/ Nand /\ Base(r) + Length(r) > Size

\* Mutation: the write starts at cell 0, lseek forgotten.
PatchWithoutSeek(r, snap) == [i \in {j \in Cells : j < r.len} |-> r.data[i]]

\* What a write handler hands to write(): its payload, laid over the cells it
\* has read (snap) where the payload does not start at the first cell.
Patch(r, snap) ==
  [i \in Span(r) |-> IF i >= r.off THEN r.data[i - r.off] ELSE snap[i]]

Overlay(vol, patch) == [i \in Cells |-> IF i \in DOMAIN patch THEN patch[i] ELSE vol[i]]

\* The partial copies of the partition a handler can hold.
Images == UNION {[S -> Vals] : S \in SUBSET Cells}
NoImage == [i \in {} |-> 0]

----------------------------------------------------------------------------
VARIABLES
  disk,     \* what a read of the partition returns
  durable,  \* what a power cut leaves
  marker,   \* UBI's update marker: the volume cannot be read
  stray,    \* cells whose writer died between write() and fsync()
  raced,    \* history: ports that hold, or have written, cells read before
            \* another port's write
  pc,       \* the step each channel is at
  req,      \* the request each channel serves
  image,    \* the cells each handler has read, then the copy it will write
  reply     \* the answer being prepared

vars == <<disk, durable, marker, stray, raced, pc, req, image, reply>>
store == <<disk, durable, marker, stray, raced>>

Steps == {"idle", "read", "write", "sync", "vread", "update", "vwrite", "reply"}
Replies == {"none", "ok", "err", "silent"}

TypeOK ==
  /\ disk \in [Cells -> Vals]
  /\ durable \in [Cells -> Vals]
  /\ marker \in BOOLEAN
  /\ stray \in SUBSET Cells
  /\ raced \in SUBSET Channels
  /\ pc \in [Channels -> Steps]
  /\ req \in [Channels -> Requests \cup {NoRequest}]
  /\ image \in [Channels -> Images]
  /\ reply \in [Channels -> Replies]

Init ==
  /\ disk \in [Cells -> Vals]
  /\ durable = disk
  /\ marker = FALSE
  /\ stray = {}
  /\ raced = {}
  /\ pc = [c \in Channels |-> "idle"]
  /\ req = [c \in Channels |-> NoRequest]
  /\ image = [c \in Channels |-> NoImage]
  /\ reply = [c \in Channels |-> "none"]

Finish(c, ans) ==
  /\ pc' = [pc EXCEPT ![c] = "reply"]
  /\ reply' = [reply EXCEPT ![c] = ans]

----------------------------------------------------------------------------
(* A handler is entered: the checks before any I/O.                        *)

\* Frames answered with no response at all: a bad CRC (rsp_len stays 0), a
\* subtype with no case, a response that would not fit.
Unanswered(r) ==
  \/ r.op \in {"phs_badcrc", "ctrl_unknown"}
  \/ r.op \in {"ctrl_read", "ctrl_write", "ex_read", "ex_write"} /\ r.len > RspRoom

FirstStep(r) ==
  CASE r.op \in {"phs_write", "testmode", "testmode_at"} ->
         IF Nand THEN "vread" ELSE "write"
    [] r.op \in ReadOps \cup {"ctrl_write", "ex_write"} -> "read"
    [] OTHER -> "reply"

Receive(c, r) ==
  /\ pc[c] = "idle"
  /\ req' = [req EXCEPT ![c] = r]
  /\ IF Unanswered(r) THEN Finish(c, "silent")
     ELSE IF r.op = "phs_nocmd" THEN Finish(c, "err")
     ELSE /\ pc' = [pc EXCEPT ![c] = FirstStep(r)]
          /\ UNCHANGED reply
  /\ UNCHANGED <<store, image>>

----------------------------------------------------------------------------
(* eng_read_miscdata_with_offset: one open, seek and read.                 *)

\* Nothing to read past the end of the partition, or in an empty request;
\* the volume is read whole, and only while no update is on.
Readable(r) ==
  IF Nand THEN ~marker
  ELSE Base(r) < Size /\ Length(r) > 0

\* The cells a read request hands back: a phase check whose header has no
\* known magic is acknowledged with none (sn_len stays 0).
Returned(r, vol) ==
  IF r.op = "phs_read" /\ vol[0] \notin Magics THEN NoImage
  ELSE [i \in Span(r) |-> vol[i]]

ReadOK(c) ==
  /\ pc[c] = "read"
  /\ Readable(req[c])
  /\ IF req[c].op \in ReadOps
     THEN /\ image' = [image EXCEPT ![c] = Returned(req[c], disk)]
          /\ Finish(c, "ok")
     ELSE \* eng_diag_product_ctrl_ex overwrites all it has read, :382
          /\ image' = [image EXCEPT ![c] = IF req[c].op = "ctrl_write"
                                           THEN [i \in Span(req[c]) |-> disk[i]]
                                           ELSE NoImage]
          /\ pc' = [pc EXCEPT ![c] = IF Nand THEN "vread" ELSE "write"]
          /\ UNCHANGED reply
  /\ UNCHANGED <<store, req>>

ReadFail(c) ==
  /\ pc[c] = "read"
  /\ Finish(c, "err")
  /\ UNCHANGED <<store, req, image>>

----------------------------------------------------------------------------
(* eng_write_miscdata_with_offset on eMMC: seek, write, fsync.             *)

\* Ports that hold cells they have read and will write back: no lock keeps
\* another port's write from coming in between.
Holding(c) ==
  \/ pc[c] \in {"update", "vwrite"}
  \/ pc[c] \in {"write", "vread"} /\ req[c].op = "ctrl_write"

Overtake(c) == raced' = raced \cup {d \in Channels \ {c} : Holding(d)}

\* Any positive count is success, so a write that runs into the end of the
\* partition is answered like a whole one; none of it past the end is not.
Write(c) ==
  /\ pc[c] = "write"
  /\ Span(req[c]) # {}
  /\ disk' = Overlay(disk, Patch(req[c], image[c]))
  /\ pc' = [pc EXCEPT ![c] = "sync"]
  /\ reply' = [reply EXCEPT ![c] = "ok"]
  /\ Overtake(c)
  /\ UNCHANGED <<durable, marker, stray, req, image>>

\* Mutation: the result of write() is dropped.
WriteFailUnseen(c) ==
  /\ pc[c] = "write"
  /\ Finish(c, "ok")
  /\ UNCHANGED <<store, req, image>>

\* open or lseek fails; write fails, and fsync is called all the same.
WriteFail(c) ==
  /\ pc[c] = "write"
  /\ \/ Finish(c, "err")
     \/ /\ pc' = [pc EXCEPT ![c] = "sync"]
        /\ reply' = [reply EXCEPT ![c] = "err"]
  /\ UNCHANGED <<store, req, image>>

\* Mutation: no fsync before the descriptor is closed.
SyncSkipped(c) ==
  /\ pc[c] = "sync"
  /\ pc' = [pc EXCEPT ![c] = "reply"]
  /\ UNCHANGED <<store, req, image, reply>>

Sync(c) ==
  /\ pc[c] = "sync"
  /\ durable' = disk
  /\ stray' = {}
  /\ pc' = [pc EXCEPT ![c] = "reply"]
  /\ UNCHANGED <<disk, marker, raced, req, image, reply>>

----------------------------------------------------------------------------
(* eng_write_miscdata_with_offset on NAND: read the volume, patch the      *)
(* copy, start an update (UBI_IOCVOLUP), write the copy.                   *)

\* Mutation: the whole-volume read is not checked; the copy stays zeroed.
VolumeReadUnchecked(c) ==
  /\ pc[c] = "vread"
  /\ LET zeroed == [i \in Cells |-> CHOOSE v \in Vals : TRUE]
     IN image' = [image EXCEPT ![c] = Overlay(zeroed, Patch(req[c], @))]
  /\ pc' = [pc EXCEPT ![c] = "update"]
  /\ UNCHANGED <<store, req, reply>>

VolumeRead(c) ==
  /\ pc[c] = "vread"
  /\ ~marker
  /\ image' = [image EXCEPT ![c] = Overlay(disk, Patch(req[c], @))]
  /\ pc' = [pc EXCEPT ![c] = "update"]
  /\ UNCHANGED <<store, req, reply>>

VolumeReadFail(c) ==
  /\ pc[c] = "vread"
  /\ Finish(c, "err")
  /\ UNCHANGED <<store, req, image>>

\* UBI gives an update to one writer at a time; the others' open fails.
UpdateStart(c) ==
  /\ pc[c] = "update"
  /\ \A d \in Channels : pc[d] # "vwrite"
  /\ marker' = TRUE
  /\ pc' = [pc EXCEPT ![c] = "vwrite"]
  /\ UNCHANGED <<disk, durable, stray, raced, req, image, reply>>

UpdateFail(c) ==
  /\ pc[c] = "update"
  /\ Finish(c, "err")
  /\ UNCHANGED <<store, req, image>>

\* The last byte of the update clears the marker.
VolumeWrite(c) ==
  /\ pc[c] = "vwrite"
  /\ disk' = image[c]
  /\ durable' = image[c]
  /\ marker' = FALSE
  /\ Overtake(c)
  /\ Finish(c, "ok")
  /\ UNCHANGED <<stray, req, image>>

\* The descriptor is closed with the update unfinished: the marker stays.
VolumeWriteFail(c) ==
  /\ pc[c] = "vwrite"
  /\ Finish(c, "err")
  /\ UNCHANGED <<store, req, image>>

----------------------------------------------------------------------------
(* The handler returns and the host sends what it prepared.                *)

Answer(c) ==
  /\ pc[c] = "reply"
  /\ pc' = [pc EXCEPT ![c] = "idle"]
  /\ req' = [req EXCEPT ![c] = NoRequest]
  /\ image' = [image EXCEPT ![c] = NoImage]
  /\ reply' = [reply EXCEPT ![c] = "none"]
  /\ raced' = raced \ {c}
  /\ UNCHANGED <<disk, durable, marker, stray>>

ChannelsReset ==
  /\ raced' = {}
  /\ pc' = [c \in Channels |-> "idle"]
  /\ req' = [c \in Channels |-> NoRequest]
  /\ image' = [c \in Channels |-> NoImage]
  /\ reply' = [c \in Channels |-> "none"]

\* Cells written by requests that wait for their fsync.
Unsynced == UNION {Span(req[c]) : c \in {d \in Channels : pc[d] = "sync"}}

\* A naked "AT+SETTESTMODE=" line ends in free() of a pointer into the
\* middle of the strdup'ed copy: the allocator may abort the process.  A copy
\* past its buffer leaves the buffer itself as it should be; the process may
\* go on, or die at any step from there.
MayDie(c) ==
  \/ pc[c] = "reply" /\ req[c].op = "testmode_at"
  \/ /\ Overruns(req[c])
     /\ pc[c] \in {"write", "sync", "update", "vwrite"} \/ reply[c] = "ok"

Abort(c) ==
  /\ MayDie(c)
  /\ stray' = stray \cup Unsynced
  /\ ChannelsReset
  /\ UNCHANGED <<disk, durable, marker>>

\* Power is cut: each cell not yet on the medium is kept or lost.
PowerCut ==
  /\ \E kept \in SUBSET Cells :
       disk' = [i \in Cells |-> IF i \in kept THEN disk[i] ELSE durable[i]]
  /\ durable' = disk'
  /\ stray' = {}
  /\ ChannelsReset
  /\ UNCHANGED marker

----------------------------------------------------------------------------
Handle(c) ==
  \/ ReadOK(c) \/ ReadFail(c)
  \/ Write(c) \/ WriteFail(c) \/ Sync(c)
  \/ VolumeRead(c) \/ VolumeReadFail(c)
  \/ UpdateStart(c) \/ UpdateFail(c)
  \/ VolumeWrite(c) \/ VolumeWriteFail(c)
  \/ Answer(c)

Next ==
  \/ \E c \in Channels :
       \/ \E r \in Requests : Receive(c, r)
       \/ Handle(c)
       \/ Abort(c)
  \/ PowerCut

Spec == Init /\ [][Next]_vars
----------------------------------------------------------------------------
(* Properties.                                                             *)

\* Whenever the medium lags behind what readers see, a request that is not
\* answered yet, or that died with its process, wrote that cell: no
\* acknowledged write can be lost by a power cut, because the fsync of
\* eng_write_miscdata_with_offset comes before the answer.
DirtyIsPending ==
  \A i \in Cells : disk[i] # durable[i] => i \in stray \cup Unsynced

Storing == {"write", "sync", "vwrite"}

\* A cell changes only while a request that was asked to change that very
\* cell is being stored (or has died in doubt); neighbours in the partition,
\* other handlers' data, keep their contents through writes, read-modify-
\* write of a whole volume, aborts and power cuts.  The one exception is a
\* port that puts back cells it read before another port's write.
StoresAddressed ==
  \A i \in Cells : disk'[i] # disk[i] =>
    \/ i \in stray
    \/ \E c \in Channels :
         /\ pc[c] \in Storing
         /\ i \in Addressed(req[c]) \/ c \in raced

OnlyAddressed == [][StoresAddressed]_vars

\* An update of the UBI volume that nobody is left to finish.
Wedged == marker /\ \A c \in Channels : pc[c] \notin {"update", "vwrite"}

\* Every write reads the volume first and gives up if it cannot (ret = -4):
\* once a power cut or an abort has left an update unfinished, no request
\* these handlers serve ever makes the partition readable again.
WedgedForGood == [][Wedged => Wedged']_vars
=============================================================================
