------------------------------ MODULE CalFiles ------------------------------
(***************************************************************************)
(* The calibration and test result files, diag 0x62/0:                     *)
(*   libtsxdata/tsx_rawdata.c  tsx_bt_data.txt ("raw") and txdata.txt      *)
(*                             ("tx", which two formats share), and the    *)
(*                             removal of tsx.dat ("bk")                   *)
(*   libdcxcali/dcx_cali.c     dcx_data.dat ("dcx"), load and save         *)
(*   libdcxcali/dcxsrv.c       the service that puts it into the PMIC      *)
(*   libap_opt/mmiresult*.c    BBATtest.txt ("bbat"), and the files of the *)
(*                             other test stations ("cit")                 *)
(* The calibrations go through stdio: fopen "w+" truncates, fwrite fills a *)
(* buffer, fflush writes it, fsync, fclose; only fwrite's result is looked *)
(* at.  Test results are written over the old ones.  One diag port; beside *)
(* it run dcxsrv, the I/O errors, the death of the process and of the      *)
(* power.                                                                  *)
(***************************************************************************)
EXTENDS Integers

CONSTANTS
  RawData, LongData,  \* raw data; those of 256 bytes and more
  TsxData, ExtData,   \* contents of txdata.txt in its two formats
  DcxData,            \* the records of dcx_data.dat
  MmiData, NewMmi,    \* test results; those of a file just made
  Backup,             \* the content of tsx.dat
  Absent, Empty,      \* no file; a file of no bytes
  Part,               \* a file, or an answer, of some of the bytes written
  Foreign,            \* the first bytes of one format, taken for the other's
  Junk,               \* what uninitialised memory holds
  Stations            \* the sets of requests a device sees

Files == {"raw", "tx", "dcx", "bbat", "cit", "bk"}
DataOf == [f \in Files |->
  CASE f = "raw" -> RawData [] f = "tx" -> TsxData \cup ExtData [] f = "dcx" -> DcxData
    [] f = "bk" -> {Backup} [] OTHER -> MmiData]
Data == UNION {DataOf[f] : f \in Files}

ASSUME CalFilesAssumption ==
  /\ LongData \subseteq RawData
  /\ NewMmi \in MmiData
  /\ {Absent, Empty, Part, Junk, Foreign} \cap Data = {}
  /\ Empty # Absent /\ Part \notin {Absent, Empty} /\ Junk \notin {Absent, Empty, Part}

\* Requests: a write brings data of the format of its command.
StdioOps == {"raw_write", "tsx_write", "ext_write", "dcx_save"}
ReadOps == {"raw_read", "tsx_read", "ext_read", "dcx_load"}
FileOf(op) ==
  CASE op \in {"raw_write", "raw_read"} -> "raw"
    [] op \in {"dcx_save", "dcx_load"} -> "dcx"
    [] op \in {"bbat_write", "bbat_read"} -> "bbat"
    [] op \in {"cit_write", "cit_read"} -> "cit"
    [] OTHER -> "tx"
Brings(op) ==
  CASE op = "raw_write" -> RawData [] op = "tsx_write" -> TsxData [] op = "ext_write" -> ExtData
    [] op = "dcx_save" -> DcxData [] op \in {"bbat_write", "cit_write"} -> MmiData
    [] OTHER -> {Absent}
\* The contents a read is meant for.
Format(op) ==
  CASE op = "raw_read" -> RawData [] op = "tsx_read" -> TsxData [] op = "ext_read" -> ExtData
    [] op = "dcx_load" -> DcxData [] OTHER -> MmiData
Ops == StdioOps \cup ReadOps \cup {"bbat_write", "cit_write", "bbat_read", "cit_read", "other"}
Requests == UNION {[op : {op}, data : Brings(op)] : op \in Ops}
\* A device is at one station: a bound, {Ops} is none.
ASSUME StationAssumption == Stations \subseteq SUBSET Ops
NoRequest == [op |-> "none", data |-> Absent]

VARIABLES
  station,  \* where the device is; does not change
  files,    \* contents, as a read returns them
  medium,   \* contents that a power cut leaves
  pc,       \* the step the handler is at
  req,      \* the request it serves
  unflushed,\* fflush failed: the data is still in the stdio buffer
  status,   \* of the answer: 0, 1, or -1 while there is none
  value,    \* the contents a read answers with
  misread,  \* history: who has been given less than the file holds
  srv,      \* dcxsrv
  pmic,     \* the four registers it sets: Absent stands for their reset values
  spoiled   \* files whose last write has not gone through

vars == <<station, files, medium, pc, req, unflushed, status, value, misread, srv,
          pmic, spoiled>>
service == <<station, srv, pmic>>

Steps == {"idle", "fopen", "fwrite", "fflush", "fsync", "fclose", "remove", "read",
          "init", "init_write", "init_sync", "read_mmi", "open", "write", "sync", "reply"}

TypeOK ==
  /\ station \in Stations
  /\ \A f \in Files : {files[f], medium[f]} \subseteq DataOf[f] \cup {Absent, Empty, Part}
  /\ pc \in Steps
  /\ req \in Requests \cup {NoRequest}
  /\ unflushed \in BOOLEAN
  /\ status \in {-1, 0, 1}
  /\ value \in Data \cup {Absent, Part, Junk, Foreign}
  /\ misread \subseteq {"port", "service"}
  /\ srv \in {"start", "done"}
  /\ pmic \in DcxData \cup {Absent, Junk}
  /\ spoiled \subseteq Files

\* A device comes with the files the station is about or without them, but
\* with one of the two that hold the calibration of the crystal; the test
\* stations other than BBAT make their files themselves.
Init ==
  /\ station \in Stations
  /\ files \in {[raw |-> r, tx |-> t, dcx |-> d, bbat |-> b, cit |-> c, bk |-> k] :
                  r \in RawData \cup {Absent}, t \in TsxData \cup ExtData \cup {Absent},
                  d \in DcxData \cup {Absent}, b \in MmiData \cup {Absent},
                  c \in MmiData \cup {Absent}, k \in {Backup, Absent}}
  /\ \A f \in Files \ {"tx", "bk"} : files[f] # Absent => \E op \in station : FileOf(op) = f
  /\ files["bk"] = Absent => files["tx"] # Absent
  /\ medium = files
  /\ pc = "idle" /\ req = NoRequest /\ unflushed = FALSE /\ status = -1 /\ value = Absent
  /\ misread = {}
  /\ srv = "start" /\ pmic = Absent
  /\ spoiled = {}

File == FileOf(req.op)
Goes(step) == pc' = step /\ UNCHANGED status
Answers(s) == pc' = "reply" /\ status' = s

\* Mutation: tsx.dat is removed before the data that replace it are written.
ReceiveRemoves(r) ==
  /\ pc = "idle"
  /\ r.op \in station
  /\ req' = r
  /\ files' = IF r.op = "ext_write" THEN [files EXCEPT !["bk"] = Absent] ELSE files
  /\ pc' = CASE r.op \in StdioOps -> "fopen"
             [] r.op \in ReadOps -> "read"
             [] r.op \in {"bbat_read", "cit_read"} -> "init"
             [] r.op \in {"bbat_write", "cit_write"} -> "open"
             [] OTHER -> "reply"
  /\ UNCHANGED <<medium, unflushed, status, value, misread, service, spoiled>>

Receive(r) ==
  /\ pc = "idle"
  /\ r.op \in station
  /\ req' = r
  /\ pc' = CASE r.op \in StdioOps -> "fopen"
             [] r.op \in ReadOps -> "read"
             [] r.op \in {"bbat_read", "cit_read"} -> "init"
             [] r.op \in {"bbat_write", "cit_write"} -> "open"
             [] OTHER -> "reply"
  /\ UNCHANGED <<files, medium, unflushed, status, value, misread, service, spoiled>>

----------------------------------------------------------------------------
(* write_tsx_rawdata, write_tsx_data, write_tsx_data_ext, write_dcx_data.  *)

\* mkdir or fopen may fail, with the file as it was.  A directory that somebody
\* else makes between access and mkdir lets the write go on, with the -1 of
\* mkdir as its result.
Fopen ==
  /\ pc = "fopen"
  /\ \/ files' = [files EXCEPT ![File] = Empty] /\ Goes("fwrite")
     \/ /\ req.op = "raw_write"
        /\ files' = [files EXCEPT ![File] = Empty]
        /\ pc' = "fwrite" /\ status' = 1
     \/ Answers(1) /\ UNCHANGED files
  /\ UNCHANGED <<medium, req, unflushed, value, misread, service, spoiled>>

\* A short count ends the write, whatever has got to the file by then.
Fwrite ==
  /\ pc = "fwrite"
  /\ \/ Goes("fflush") /\ UNCHANGED <<files, spoiled>>
     \/ /\ files' \in {files, [files EXCEPT ![File] = Part]}
        /\ spoiled' = spoiled \cup {File}
        /\ pc' = "fclose" /\ status' = 1
  /\ UNCHANGED <<medium, req, unflushed, value, misread, service>>

\* Its result is not looked at.
Fflush ==
  /\ pc = "fflush"
  /\ \/ files' = [files EXCEPT ![File] = req.data] /\ UNCHANGED <<unflushed, spoiled>>
     \/ /\ files' \in {files, [files EXCEPT ![File] = Part]}
        /\ unflushed' = TRUE
        /\ spoiled' = spoiled \cup {File}
  /\ Goes("fsync")
  /\ UNCHANGED <<medium, req, value, misread, service>>

\* Mutation: fsync is left out.
FsyncSkipped ==
  /\ pc = "fsync"
  /\ spoiled' = IF unflushed THEN spoiled ELSE spoiled \ {File}
  /\ pc' = "fclose" /\ status' = IF status = 1 THEN 1 ELSE 0
  /\ UNCHANGED <<files, medium, req, unflushed, value, misread, service>>

\* Nor is that of fsync.
Fsync ==
  /\ pc = "fsync"
  /\ \/ /\ medium' = [medium EXCEPT ![File] = files[File]]
        /\ spoiled' = IF unflushed THEN spoiled ELSE spoiled \ {File}
     \/ spoiled' = spoiled \cup {File} /\ UNCHANGED medium
  /\ pc' = "fclose" /\ status' = IF status = 1 THEN 1 ELSE 0
  /\ UNCHANGED <<files, req, unflushed, value, misread, service>>

\* fclose tries again what fflush could not write.
Fclose ==
  /\ pc = "fclose"
  /\ files' \in IF unflushed THEN {files, [files EXCEPT ![File] = req.data]} ELSE {files}
  /\ unflushed' = FALSE
  /\ Goes(IF req.op = "ext_write" /\ status = 0 THEN "remove" ELSE "reply")
  /\ UNCHANGED <<medium, req, value, misread, service, spoiled>>

\* "for bug1133893, remove tsx.dat", :456.
Remove ==
  /\ pc = "remove"
  /\ files' \in {files, [files EXCEPT !["bk"] = Absent]}
  /\ Goes("reply")
  /\ UNCHANGED <<medium, req, unflushed, value, misread, service, spoiled>>

----------------------------------------------------------------------------
(* Reads.  An absent, empty or unreadable file is answered with status 1,  *)
(* and so are raw data that fill the buffer of 256 bytes and a record that *)
(* is not whole.  Of txdata.txt one item is enough: sixteen bytes of one   *)
(* format are two items of 8 or one of 12, and any file of the other will  *)
(* do.  An error after the first bytes leaves a count that looks good.     *)

\* Mutation: the length of the record is not compared.
MayServePart(c) == c \in (Data \ LongData) \cup {Part}

MayServe(c) ==
  \/ c \in Data \ LongData
  \/ c = Part /\ req.op # "dcx_load"

Served(c) == IF c \in Data \ Format(req.op) THEN Foreign ELSE c

Read ==
  /\ pc = "read"
  /\ \/ /\ MayServe(files[File])
        /\ value' = Served(files[File])
        /\ Answers(0)
        /\ UNCHANGED misread
     \/ /\ files[File] \notin {Absent, Empty} /\ req.op # "dcx_load"
        /\ value' = Part /\ misread' = misread \cup {"port"}
        /\ Answers(0)
     \/ Answers(1) /\ UNCHANGED <<value, misread>>
  /\ UNCHANGED <<files, medium, req, unflushed, service, spoiled>>

----------------------------------------------------------------------------
(* eng_diag_read_mmi, after eng_init_test_file, and eng_diag_write_mmi.    *)

\* A file that is there is taken for a good one.
InitFile ==
  /\ pc = "init"
  /\ \/ files["bbat"] = Absent /\ files' = [files EXCEPT !["bbat"] = Empty] /\ Goes("init_write")
     \/ Goes("read_mmi") /\ UNCHANGED files
  /\ UNCHANGED <<medium, req, unflushed, value, misread, service, spoiled>>

\* One write, of which a part passes; if it fails the file stays, empty, and
\* the read goes on.
InitWrite ==
  /\ pc = "init_write"
  /\ \/ files' = [files EXCEPT !["bbat"] = NewMmi] /\ Goes("init_sync") /\ UNCHANGED spoiled
     \/ /\ files' = [files EXCEPT !["bbat"] = Part]
        /\ spoiled' = spoiled \cup {"bbat"}
        /\ Goes("init_sync")
     \/ spoiled' = spoiled \cup {"bbat"} /\ Goes("read_mmi") /\ UNCHANGED files
  /\ UNCHANGED <<medium, req, unflushed, value, misread, service>>

InitSync ==
  /\ pc = "init_sync"
  /\ \/ /\ medium' = [medium EXCEPT !["bbat"] = files["bbat"]]
        /\ spoiled' = IF files["bbat"] = Part THEN spoiled ELSE spoiled \ {"bbat"}
     \/ spoiled' = spoiled \cup {"bbat"} /\ UNCHANGED medium
  /\ Goes("read_mmi")
  /\ UNCHANGED <<files, req, unflushed, value, misread, service>>

\* Anything that can be read is answered with status 0, however little; the
\* 256 bytes of the answer are not cleared, so an empty file is answered with
\* junk.
ReadMmi ==
  /\ pc = "read_mmi"
  /\ \/ /\ files[File] # Absent
        /\ value' = IF files[File] = Empty THEN Junk ELSE files[File]
        /\ Answers(0)
        /\ UNCHANGED misread
     \/ /\ files[File] \notin {Absent, Empty}
        /\ value' = Part /\ misread' = misread \cup {"port"}
        /\ Answers(0)
     \/ Answers(1) /\ UNCHANGED <<value, misread>>
  /\ UNCHANGED <<files, medium, req, unflushed, service, spoiled>>

\* The file is not made here, and what it holds is written over.
Open ==
  /\ pc = "open"
  /\ \/ files[File] # Absent /\ Goes("write")
     \/ Answers(1)
  /\ UNCHANGED <<files, medium, req, unflushed, value, misread, service, spoiled>>

\* A count that is short but not negative passes.
Write ==
  /\ pc = "write"
  /\ \/ files' = [files EXCEPT ![File] = req.data] /\ Goes("sync") /\ UNCHANGED spoiled
     \/ /\ files' = [files EXCEPT ![File] = Part]
        /\ spoiled' = spoiled \cup {File}
        /\ Goes("sync")
     \/ Answers(1) /\ UNCHANGED <<files, spoiled>>
  /\ UNCHANGED <<medium, req, unflushed, value, misread, service>>

Sync ==
  /\ pc = "sync"
  /\ \/ /\ medium' = [medium EXCEPT ![File] = files[File]]
        /\ spoiled' = IF files[File] = Part THEN spoiled ELSE spoiled \ {File}
     \/ spoiled' = spoiled \cup {File} /\ UNCHANGED medium
  /\ Answers(0)
  /\ UNCHANGED <<files, req, unflushed, value, misread, service>>

Quiet ==
  pc' = "idle" /\ req' = NoRequest /\ unflushed' = FALSE /\ status' = -1 /\ value' = Absent

Reply ==
  /\ pc = "reply"
  /\ misread' = misread \ {"port"}
  /\ Quiet
  /\ UNCHANGED <<files, medium, service, spoiled>>

----------------------------------------------------------------------------
(* dcxsrv, started with the system: a record of the right length goes into *)
(* the registers, and so does one that is not: main gives up only if the   *)
(* file cannot be opened, and the record on its stack is not initialised.  *)
(* read_dcx_data returns fread's count, so a read that fails, even at the  *)
(* first byte (0, not the ret of :125), is taken for good.                 *)

Loaded(c) == IF c \in DcxData THEN c ELSE Junk

\* Mutation: the missing file is not told from an empty one.
LoadAnyway ==
  /\ srv = "start"
  /\ srv' = "done"
  /\ pmic' = Loaded(files["dcx"])
  /\ UNCHANGED <<station, files, medium, pc, req, unflushed, status, value, misread, spoiled>>

Load ==
  /\ srv = "start"
  /\ srv' = "done"
  /\ \/ files["dcx"] # Absent /\ pmic' = Loaded(files["dcx"]) /\ UNCHANGED misread
     \/ /\ files["dcx"] # Absent
        /\ pmic' = Junk /\ misread' = misread \cup {"service"}
     \/ UNCHANGED <<pmic, misread>>
  /\ UNCHANGED <<station, files, medium, pc, req, unflushed, status, value, spoiled>>

----------------------------------------------------------------------------
\* The file a handler is writing.
Writing ==
  CASE pc \in {"fwrite", "fflush", "fsync", "fclose", "write", "sync"} -> {File}
    [] pc \in {"init_write", "init_sync"} -> {"bbat"}
    [] OTHER -> {}
Unfinished == IF pc \in {"write", "fclose"} THEN {} ELSE Writing

\* The process dies; the kernel keeps what it has been given.
Restart ==
  /\ pc # "idle"
  /\ spoiled' = spoiled \cup Unfinished
  /\ misread' = misread \ {"port"}
  /\ Quiet
  /\ UNCHANGED <<files, medium, service>>

\* Of a file that has not been synced any stage may be left.
PowerCut ==
  /\ LET dirty == {f \in Files : files[f] # medium[f]}
     IN \E fate \in [dirty -> {"kept", "lost", Empty, Part}] :
          /\ "bk" \in dirty => fate["bk"] \in {"kept", "lost"}
          /\ files' = [f \in Files |->
                        IF f \notin dirty \/ fate[f] = "kept" THEN files[f]
                        ELSE IF fate[f] = "lost" THEN medium[f] ELSE fate[f]]
  /\ medium' = files'
  /\ spoiled' = spoiled \cup Unfinished
  /\ srv' = "start" /\ pmic' = Absent /\ misread' = {}
  /\ Quiet
  /\ UNCHANGED station

Next ==
  \/ \E r \in Requests : Receive(r)
  \/ Fopen \/ Fwrite \/ Fflush \/ Fsync \/ Fclose \/ Remove
  \/ Read
  \/ InitFile \/ InitWrite \/ InitSync \/ ReadMmi \/ Open \/ Write \/ Sync
  \/ Reply
  \/ Load \/ Restart \/ PowerCut

Spec == Init /\ [][Next]_vars
----------------------------------------------------------------------------
(* Properties.                                                             *)

\* Between two writes a file whose last write has gone through is whole and
\* on the medium: all that can tear one is an error that the code overlooks
\* or reports, or a crash in the middle of a write.
IntactFiles ==
  \A f \in Files \ (spoiled \cup Writing \cup {"bk"}) :
    files[f] = medium[f] /\ files[f] \notin {Empty, Part}

\* A write answered with status 0 is on the medium as it was asked for,
\* whatever happened to the writes before it, unless one of the three calls
\* the code does not look at (fflush, fsync, a short write) went wrong.
AckedIsStored ==
  pc = "reply" /\ status = 0 /\ req.data # Absent /\ File \notin spoiled
    => medium[File] = req.data

\* A read answered with status 0 serves what a write of the same format has
\* put there, in full and from the medium, unless the read itself was cut
\* short unseen; and a record of dcx_data.dat is always whole.
ReadsWhole ==
  pc = "reply" /\ status = 0 /\ req.data = Absent /\ req.op # "other" =>
    /\ File \notin spoiled /\ medium[File] \in Format(req.op) =>
         value = medium[File] \/ "port" \in misread
    /\ File = "dcx" => value \in DcxData

\* The crystal's calibration is never lost by replacing it: as long as the
\* last write of txdata.txt is on or has gone through, it is there whole, or
\* tsx.dat still is.
BackupOrData ==
  \/ files["bk"] # Absent
  \/ "tx" \in spoiled \cup Writing
  \/ medium["tx"] \in DataOf["tx"]

\* dcxsrv puts anything but a saved record into the PMIC only from a file that
\* is there and whose last save has not gone through, or is on while it reads,
\* or when its own read is cut short, which it does not look at.
JunkOnlyFromTorn ==
  [][pmic' = Junk /\ pmic # Junk =>
       /\ files["dcx"] # Absent
       /\ "dcx" \in spoiled \cup Writing \/ "service" \in misread']_vars
=============================================================================
