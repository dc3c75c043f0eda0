--------------------------- MODULE CalFilesProofs ---------------------------
(***************************************************************************)
(* Theorems about CalFiles, for any data, any set of stations and any      *)
(* number of requests, errors, restarts and power cuts.                    *)
(***************************************************************************)
EXTENDS CalFiles, TLAPS

Contents == Data \cup {Absent, Empty, Part}
MmiWrites == {"bbat_write", "cit_write"}
MmiReads == {"bbat_read", "cit_read"}

\* Which requests a step serves.
Roles ==
  /\ IF pc = "idle" THEN status = -1 ELSE req \in Requests
  /\ pc \in {"fopen", "fwrite", "fflush", "fsync", "fclose"} => req.op \in StdioOps
  /\ pc = "remove" => req.op = "ext_write" /\ status = 0
  /\ pc \in {"open", "write", "sync"} => req.op \in MmiWrites
  /\ pc = "read" => req.op \in ReadOps
  /\ pc \in {"init", "init_write", "init_sync", "read_mmi"} => req.op \in MmiReads
  /\ srv = "start" => "service" \notin misread

\* How far a write has got: either the file holds what was asked for, or the
\* file is known to be spoiled.
Progress ==
  /\ unflushed => pc \in {"fsync", "fclose"} /\ File \in spoiled
  /\ pc = "fsync" /\ ~unflushed => files[File] = req.data
  /\ pc = "sync" => files[File] = req.data \/ (files[File] = Part /\ File \in spoiled)
  /\ pc = "init_sync" =>
       files["bbat"] = NewMmi \/ (files["bbat"] = Part /\ "bbat" \in spoiled)
  /\ pc = "write" /\ File \notin spoiled =>
       files[File] = medium[File] /\ files[File] \notin {Empty, Part}

\* What has been synced and not spoiled is both what the process sees and
\* what a power cut leaves, from the sync to the answer.
Synced ==
  /\ pc = "fclose" \/ (pc \in {"remove", "reply"} /\ status = 0 /\ req.data # Absent)
  /\ File \notin spoiled
  => files[File] = req.data /\ medium[File] = req.data

\* A power cut cannot take tsx.dat away from under the process.
BackupOnMedium == files["bk"] # Absent => medium["bk"] = files["bk"]

Shape ==
  /\ files \in [Files -> Contents]
  /\ medium \in [Files -> Contents]
  /\ TypeOK

IInv ==
  /\ Shape /\ Roles /\ Progress /\ Synced /\ BackupOnMedium
  /\ IntactFiles /\ BackupOrData /\ ReadsWhole

\* The markers are no data, and differ from each other.
LEMMA DataFacts ==
  /\ \A f \in Files : DataOf[f] \subseteq Data
  /\ DataOf["bk"] = {Backup} /\ DataOf["dcx"] = DcxData /\ DataOf["bbat"] = MmiData
  /\ DataOf["cit"] = MmiData /\ DataOf["raw"] = RawData /\ DataOf["tx"] = TsxData \cup ExtData
  /\ Absent \notin Data /\ Empty \notin Data /\ Part \notin Data /\ Junk \notin Data
  /\ Foreign \notin Data
  /\ Empty # Absent /\ Part # Absent /\ Part # Empty
  /\ Junk # Absent /\ Junk # Empty /\ Junk # Part
  /\ {"raw", "tx", "dcx", "bbat", "cit", "bk"} \subseteq Files /\ NewMmi \in DataOf["bbat"]
<1>1. \A f \in Files : DataOf[f] \subseteq Data
  BY DEF Data
<1>2. /\ DataOf["bk"] = {Backup} /\ DataOf["dcx"] = DcxData /\ DataOf["bbat"] = MmiData
      /\ DataOf["cit"] = MmiData /\ DataOf["raw"] = RawData
      /\ DataOf["tx"] = TsxData \cup ExtData
  BY DEF DataOf, Files
<1>3. QED
  BY <1>1, <1>2, CalFilesAssumption DEF Files

\* A write brings data of its file, every other request none.
LEMMA RequestFacts ==
  ASSUME NEW r \in Requests
  PROVE  /\ r.op \in Ops
         /\ FileOf(r.op) \in Files \ {"bk"}
         /\ r.op = "ext_write" => FileOf(r.op) = "tx"
         /\ r.op \in MmiWrites \cup MmiReads => FileOf(r.op) \in {"bbat", "cit"}
         /\ r.op \in ReadOps /\ FileOf(r.op) = "dcx" => r.op = "dcx_load"
         /\ r.op \in StdioOps \cup MmiWrites =>
              r.data \in DataOf[FileOf(r.op)] /\ r.data \notin {Absent, Empty, Part}
         /\ r.op \notin StdioOps \cup MmiWrites => r.data = Absent
<1>1. PICK op \in Ops : r \in [op : {op}, data : Brings(op)]
  BY DEF Requests
<1>2. r.op = op /\ r.data \in Brings(op)
  BY <1>1
<1>3. FileOf(op) \in Files \ {"bk"}
  BY DEF FileOf, Files
<1>4. /\ op = "ext_write" => FileOf(op) = "tx"
      /\ op \in MmiWrites \cup MmiReads => FileOf(op) \in {"bbat", "cit"}
      /\ op \in ReadOps /\ FileOf(op) = "dcx" => op = "dcx_load"
  BY DEF FileOf, MmiWrites, MmiReads, ReadOps
<1>5. op \in StdioOps \cup MmiWrites => Brings(op) \subseteq DataOf[FileOf(op)]
  BY DataFacts DEF Brings, FileOf, StdioOps, MmiWrites
<1>6. op \notin StdioOps \cup MmiWrites => Brings(op) = {Absent}
  BY DEF Brings, StdioOps, MmiWrites
<1>7. QED
  BY <1>1, <1>2, <1>3, <1>4, <1>5, <1>6, DataFacts

LEMMA InitIInv == Init => IInv
<1> SUFFICES ASSUME Init PROVE IInv
  OBVIOUS
<1>1. /\ files \in [Files -> Contents]
      /\ \A f \in Files : files[f] \in DataOf[f] \cup {Absent}
  <2>1. PICK r \in RawData \cup {Absent}, t \in TsxData \cup ExtData \cup {Absent},
             d \in DcxData \cup {Absent}, b \in MmiData \cup {Absent},
             c \in MmiData \cup {Absent}, k \in {Backup, Absent} :
        files = [raw |-> r, tx |-> t, dcx |-> d, bbat |-> b, cit |-> c, bk |-> k]
    BY DEF Init
  <2>2. DOMAIN files = Files
    BY <2>1 DEF Files
  <2>3. \A f \in Files : files[f] \in DataOf[f] \cup {Absent}
    BY <2>1, DataFacts DEF Files
  <2>4. files = [f \in Files |-> files[f]]
    BY <2>1 DEF Files
  <2>5. QED
    BY <2>3, <2>4, DataFacts DEF Contents
<1>2. Shape
  <2>1. \A f \in Files : {files[f], medium[f]} \subseteq DataOf[f] \cup {Absent, Empty, Part}
    BY <1>1 DEF Init
  <2>2. /\ station \in Stations /\ pc \in Steps /\ req \in Requests \cup {NoRequest}
        /\ unflushed \in BOOLEAN /\ status \in {-1, 0, 1} /\ spoiled \subseteq Files
        /\ value \in Data \cup {Absent, Part, Junk, Foreign} /\ srv \in {"start", "done"}
        /\ pmic \in DcxData \cup {Absent, Junk} /\ misread \subseteq {"port", "service"}
    <3>1. /\ station \in Stations /\ pc = "idle" /\ req = NoRequest /\ unflushed = FALSE
          /\ status = -1 /\ value = Absent /\ srv = "start" /\ pmic = Absent /\ spoiled = {}
          /\ misread = {}
      BY DEF Init
    <3>2. QED
      BY <3>1 DEF Steps
  <2>3. QED
    <3>1. medium \in [Files -> Contents]
      BY <1>1 DEF Init
    <3>2. QED
      BY <1>1, <2>1, <2>2, <3>1 DEF Shape, TypeOK
<1>3. Roles /\ Progress /\ Synced /\ BackupOnMedium /\ ReadsWhole
  BY DEF Init, Roles, Progress, Synced, BackupOnMedium, ReadsWhole
<1>4. IntactFiles
  BY <1>1, DataFacts DEF Init, IntactFiles
<1>5. BackupOrData
  BY DataFacts DEF Init, BackupOrData
<1>6. QED
  BY <1>2, <1>3, <1>4, <1>5 DEF IInv

\* What is known of the request while a handler runs.
LEMMA AtWork ==
  ASSUME IInv, pc # "idle"
  PROVE  /\ File \in Files \ {"bk"}
         /\ pc = "remove" => File = "tx" /\ status = 0
         /\ pc \in {"open", "write", "sync", "init", "init_write", "init_sync", "read_mmi"}
            => File \in {"bbat", "cit"}
         /\ pc \in {"fopen", "fwrite", "fflush", "fsync", "fclose", "remove",
                    "open", "write", "sync"}
            => req.data \in DataOf[File] /\ req.data \notin {Absent, Empty, Part}
         /\ pc \in {"read", "init", "init_write", "init_sync", "read_mmi"} => req.data = Absent
         /\ pc = "read" /\ File = "dcx" => req.op = "dcx_load"
<1>1. req \in Requests
  BY DEF IInv, Roles
<1>2. Roles
  BY DEF IInv
<1>3. /\ ReadOps \cap (StdioOps \cup MmiWrites) = {} /\ MmiReads \cap (StdioOps \cup MmiWrites) = {}
      /\ "ext_write" \in StdioOps
  BY DEF ReadOps, MmiReads, StdioOps, MmiWrites
<1>4. QED
  BY <1>2, <1>3, RequestFacts DEF File, Roles

\* The file a handler writes is the file of its request, or BBATtest.txt.
LEMMA WritingFacts ==
  /\ pc \in {"fwrite", "fflush", "fsync", "fclose", "write", "sync"} => Writing = {File}
  /\ pc \in {"init_write", "init_sync"} => Writing = {"bbat"}
  /\ pc \notin {"fwrite", "fflush", "fsync", "fclose", "write", "sync", "init_write", "init_sync"}
     => Writing = {}
  /\ Unfinished = IF pc \in {"write", "fclose"} THEN {} ELSE Writing
BY DEF Writing, Unfinished

LEMMA ReceiveIInv == ASSUME NEW r \in Requests, IInv, Receive(r) PROVE IInv'
<1>1. /\ pc = "idle" /\ req' = r
      /\ pc' \in {"fopen", "read", "init", "open", "reply"}
      /\ UNCHANGED <<files, medium, unflushed, status, value, misread, service, spoiled>>
  BY DEF Receive
<1>2. Shape'
  BY <1>1 DEF IInv, Shape, TypeOK, Steps, service
<1>3. Roles' /\ Progress'
  BY DEF service, Receive, IInv, Roles, Progress, MmiWrites, MmiReads
<1>4. status' = -1
  BY <1>1 DEF IInv, Roles
<1>5. Synced' /\ ReadsWhole'
  BY <1>1, <1>4 DEF Synced, ReadsWhole
<1>6. Writing = {} /\ Writing' = {}
  BY <1>1 DEF Writing
<1>7. IntactFiles' /\ BackupOnMedium' /\ BackupOrData'
  BY <1>1, <1>6 DEF IInv, IntactFiles, BackupOnMedium, BackupOrData
<1>8. QED
  BY <1>2, <1>3, <1>5, <1>7 DEF IInv

LEMMA FopenIInv == IInv /\ Fopen => IInv'
<1> SUFFICES ASSUME IInv, Fopen PROVE IInv'
  OBVIOUS
<1>1. File' = File
  BY DEF Fopen, File
<1>2. Shape'
  BY DEF Fopen, Goes, Answers, service, IInv, Shape, TypeOK, Steps, Contents
<1>3. Roles' /\ Progress'
  BY DEF service, Fopen, Goes, Answers, IInv, Roles, Progress
<1>4. Synced'
  BY DEF Fopen, Goes, Answers, Synced
<1>5. IntactFiles'
  BY <1>1 DEF Fopen, Goes, IInv, Shape, IntactFiles, Writing
<1>6. BackupOnMedium'
  BY AtWork, DataFacts DEF Fopen, IInv, Shape, BackupOnMedium
<1>7. BackupOrData'
  BY DataFacts DEF Fopen, IInv, Shape, BackupOrData, Writing
<1>8. ReadsWhole'
  BY AtWork DEF Fopen, ReadsWhole
<1>9. QED
  BY <1>2, <1>3, <1>4, <1>5, <1>6, <1>7, <1>8 DEF IInv

LEMMA FwriteIInv == IInv /\ Fwrite => IInv'
<1> SUFFICES ASSUME IInv, Fwrite PROVE IInv'
  OBVIOUS
<1>1. File' = File
  BY DEF Fwrite, File
<1>2. Shape'
  BY AtWork DEF Fwrite, Goes, service, IInv, Shape, TypeOK, Steps, Contents
<1>3. Roles' /\ Progress'
  BY <1>1 DEF service, Fwrite, Goes, IInv, Roles, Progress
<1>4. Synced'
  BY <1>1 DEF Fwrite, Goes, Synced
<1>5. IntactFiles'
  BY <1>1 DEF Fwrite, Goes, IInv, Shape, IntactFiles, Writing
<1>6. BackupOnMedium'
  BY AtWork, DataFacts DEF Fwrite, IInv, Shape, BackupOnMedium
<1>7. BackupOrData'
  BY <1>1, DataFacts DEF Fwrite, Goes, IInv, Shape, BackupOrData, Writing
<1>8. ReadsWhole'
  BY AtWork DEF Fwrite, ReadsWhole
<1>9. QED
  BY <1>2, <1>3, <1>4, <1>5, <1>6, <1>7, <1>8 DEF IInv

LEMMA FflushIInv == IInv /\ Fflush => IInv'
<1> SUFFICES ASSUME IInv, Fflush PROVE IInv'
  OBVIOUS
<1>1. File' = File
  BY DEF Fflush, File
<1>2. Shape'
  <2>1. /\ files' \in [Files -> Contents] /\ medium' \in [Files -> Contents]
        /\ \A f \in Files : {files'[f], medium'[f]} \subseteq DataOf[f] \cup {Absent, Empty, Part}
    BY AtWork, DataFacts DEF Fflush, IInv, Shape, TypeOK, Contents
  <2>2. /\ station' \in Stations /\ pc' \in Steps /\ req' \in Requests \cup {NoRequest}
        /\ unflushed' \in BOOLEAN /\ status' \in {-1, 0, 1} /\ spoiled' \subseteq Files
        /\ value' \in Data \cup {Absent, Part, Junk, Foreign} /\ srv' \in {"start", "done"}
        /\ pmic' \in DcxData \cup {Absent, Junk} /\ misread' \subseteq {"port", "service"}
    BY AtWork, DataFacts DEF Fflush, Goes, service, IInv, Shape, TypeOK, Steps
  <2>3. QED
    BY <2>1, <2>2 DEF Shape, TypeOK
<1>3. Roles' /\ Progress'
  BY <1>1, AtWork DEF service, Fflush, Goes, IInv, Shape, Roles, Progress
<1>4. Synced'
  BY DEF Fflush, Goes, Synced
<1>5. IntactFiles'
  BY <1>1 DEF Fflush, Goes, IInv, Shape, IntactFiles, Writing
<1>6. BackupOnMedium'
  BY AtWork, DataFacts DEF Fflush, IInv, Shape, BackupOnMedium
<1>7. BackupOrData'
  BY <1>1, AtWork, DataFacts DEF Fflush, Goes, IInv, Shape, BackupOrData, Writing
<1>8. ReadsWhole'
  BY AtWork DEF Fflush, ReadsWhole
<1>9. QED
  BY <1>2, <1>3, <1>4, <1>5, <1>6, <1>7, <1>8 DEF IInv

LEMMA FsyncIInv == IInv /\ Fsync => IInv'
<1> SUFFICES ASSUME IInv, Fsync PROVE IInv'
  OBVIOUS
<1>1. File' = File
  BY DEF Fsync, File
<1>2. Shape'
  BY AtWork DEF Fsync, service, IInv, Shape, TypeOK, Steps
<1>3. Roles' /\ Progress'
  BY <1>1 DEF service, Fsync, IInv, Roles, Progress
<1>4. Synced'
  BY <1>1, AtWork DEF Fsync, IInv, Shape, Progress, Synced
<1>5. IntactFiles'
  BY <1>1 DEF Fsync, IInv, Shape, IntactFiles, Writing
<1>6. BackupOnMedium'
  BY DataFacts DEF Fsync, IInv, Shape, BackupOnMedium
<1>7. BackupOrData'
  BY <1>1, DataFacts DEF Fsync, IInv, Shape, BackupOrData, Writing
<1>8. ReadsWhole'
  BY DEF Fsync, ReadsWhole
<1>9. QED
  BY <1>2, <1>3, <1>4, <1>5, <1>6, <1>7, <1>8 DEF IInv

LEMMA FcloseIInv == IInv /\ Fclose => IInv'
<1> SUFFICES ASSUME IInv, Fclose PROVE IInv'
  OBVIOUS
<1>1. File' = File
  BY DEF Fclose, File
<1>2. Shape'
  <2>1. /\ files' \in [Files -> Contents] /\ medium' \in [Files -> Contents]
        /\ \A f \in Files : {files'[f], medium'[f]} \subseteq DataOf[f] \cup {Absent, Empty, Part}
    BY AtWork, DataFacts DEF Fclose, IInv, Shape, TypeOK, Contents
  <2>2. /\ station' \in Stations /\ pc' \in Steps /\ req' \in Requests \cup {NoRequest}
        /\ unflushed' \in BOOLEAN /\ status' \in {-1, 0, 1} /\ spoiled' \subseteq Files
        /\ value' \in Data \cup {Absent, Part, Junk, Foreign} /\ srv' \in {"start", "done"}
        /\ pmic' \in DcxData \cup {Absent, Junk} /\ misread' \subseteq {"port", "service"}
    BY DEF Fclose, Goes, service, IInv, Shape, TypeOK, Steps
  <2>3. QED
    BY <2>1, <2>2 DEF Shape, TypeOK
<1>3. Roles' /\ Progress'
  BY DEF service, Fclose, Goes, IInv, Roles, Progress
<1>4. Synced'
  BY <1>1 DEF Fclose, IInv, Progress, Synced
<1>5. IntactFiles'
  BY AtWork DEF Fclose, IInv, Shape, Progress, Synced, IntactFiles, Writing
<1>6. BackupOnMedium'
  BY AtWork, DataFacts DEF Fclose, IInv, Shape, BackupOnMedium
<1>7. BackupOrData'
  BY AtWork, DataFacts DEF Fclose, IInv, Shape, Synced, Progress, BackupOrData, Writing
<1>8. ReadsWhole'
  BY AtWork DEF Fclose, ReadsWhole
<1>9. QED
  BY <1>2, <1>3, <1>4, <1>5, <1>6, <1>7, <1>8 DEF IInv

LEMMA RemoveIInv == IInv /\ Remove => IInv'
<1> SUFFICES ASSUME IInv, Remove PROVE IInv'
  OBVIOUS
<1>1. File' = File
  BY DEF Remove, File
<1>2. Shape'
  BY DEF Remove, Goes, service, IInv, Shape, TypeOK, Steps, Contents
<1>3. Roles' /\ Progress'
  BY DEF service, Remove, Goes, IInv, Roles, Progress
<1>4. Synced'
  BY <1>1, AtWork DEF Remove, IInv, Shape, Synced
<1>5. IntactFiles'
  BY DEF Remove, IInv, Shape, IntactFiles, Writing
<1>6. BackupOnMedium'
  BY DEF Remove, IInv, Shape, BackupOnMedium
<1>7. BackupOrData'
  BY AtWork DEF Remove, IInv, Synced, BackupOrData
<1>8. ReadsWhole'
  BY AtWork DEF Remove, ReadsWhole
<1>9. QED
  BY <1>2, <1>3, <1>4, <1>5, <1>6, <1>7, <1>8 DEF IInv

LEMMA ReadIInv == IInv /\ Read => IInv'
<1> SUFFICES ASSUME IInv, Read PROVE IInv'
  OBVIOUS
<1>1. File' = File
  BY DEF Read, File
<1>2. Shape'
  <2>1. /\ files' \in [Files -> Contents] /\ medium' \in [Files -> Contents]
        /\ \A f \in Files : {files'[f], medium'[f]} \subseteq DataOf[f] \cup {Absent, Empty, Part}
    BY DEF Read, IInv, Shape, TypeOK
  <2>2. /\ station' \in Stations /\ pc' \in Steps /\ req' \in Requests \cup {NoRequest}
        /\ unflushed' \in BOOLEAN /\ status' \in {-1, 0, 1} /\ spoiled' \subseteq Files
        /\ value' \in Data \cup {Absent, Part, Junk, Foreign} /\ srv' \in {"start", "done"}
        /\ pmic' \in DcxData \cup {Absent, Junk} /\ misread' \subseteq {"port", "service"}
    BY DEF Read, Answers, service, IInv, Shape, TypeOK, Steps, MayServe, Served
  <2>3. QED
    BY <2>1, <2>2 DEF Shape, TypeOK
<1>3. Roles' /\ Progress'
  BY DEF service, Read, Answers, IInv, Roles, Progress
<1>4. Synced'
  BY AtWork DEF Read, Goes, Answers, Synced
<1>5. IntactFiles'
  BY DEF Read, IInv, IntactFiles, Writing
<1>6. BackupOnMedium'
  BY DEF Read, IInv, BackupOnMedium
<1>7. BackupOrData'
  BY DEF Read, IInv, BackupOrData, Writing
<1>8. ReadsWhole'
  BY <1>1, AtWork, DataFacts DEF Read, Answers, IInv, Shape, TypeOK, IntactFiles,
     ReadsWhole, Writing, MayServe, Served, Format
<1>9. QED
  BY <1>2, <1>3, <1>4, <1>5, <1>6, <1>7, <1>8 DEF IInv

LEMMA InitFileIInv == IInv /\ InitFile => IInv'
<1> SUFFICES ASSUME IInv, InitFile PROVE IInv'
  OBVIOUS
<1>1. File' = File
  BY DEF InitFile, File
<1>2. Shape'
  BY DEF InitFile, Goes, service, IInv, Shape, TypeOK, Steps, Contents
<1>3. Roles' /\ Progress'
  BY DEF service, InitFile, Goes, IInv, Roles, Progress
<1>4. Synced'
  BY AtWork DEF InitFile, Goes, Answers, Synced
<1>5. IntactFiles'
  BY DEF InitFile, Goes, IInv, Shape, IntactFiles, Writing
<1>6. BackupOnMedium'
  BY DataFacts DEF InitFile, IInv, Shape, BackupOnMedium
<1>7. BackupOrData'
  BY DataFacts DEF InitFile, IInv, Shape, BackupOrData, Writing
<1>8. ReadsWhole'
  BY DEF InitFile, Goes, ReadsWhole
<1>9. QED
  BY <1>2, <1>3, <1>4, <1>5, <1>6, <1>7, <1>8 DEF IInv

LEMMA InitWriteIInv == IInv /\ InitWrite => IInv'
<1> SUFFICES ASSUME IInv, InitWrite PROVE IInv'
  OBVIOUS
<1>1. File' = File
  BY DEF InitWrite, File
<1>2. Shape'
  BY DataFacts DEF InitWrite, Goes, service, IInv, Shape, TypeOK, Steps, Contents
<1>3. Roles' /\ Progress'
  BY DataFacts DEF service, InitWrite, Goes, IInv, Shape, Roles, Progress
<1>4. Synced'
  BY AtWork DEF InitWrite, Goes, Answers, Synced
<1>5. IntactFiles'
  BY DEF InitWrite, Goes, IInv, Shape, IntactFiles, Writing
<1>6. BackupOnMedium'
  BY DataFacts DEF InitWrite, IInv, Shape, BackupOnMedium
<1>7. BackupOrData'
  BY DataFacts DEF InitWrite, IInv, Shape, BackupOrData, Writing
<1>8. ReadsWhole'
  BY DEF InitWrite, Goes, ReadsWhole
<1>9. QED
  BY <1>2, <1>3, <1>4, <1>5, <1>6, <1>7, <1>8 DEF IInv

LEMMA InitSyncIInv == IInv /\ InitSync => IInv'
<1> SUFFICES ASSUME IInv, InitSync PROVE IInv'
  OBVIOUS
<1>1. File' = File
  BY DEF InitSync, File
<1>2. Shape'
  BY DataFacts DEF InitSync, Goes, service, IInv, Shape, TypeOK, Steps
<1>3. Roles' /\ Progress'
  BY DEF service, InitSync, Goes, IInv, Roles, Progress
<1>4. Synced'
  BY AtWork DEF InitSync, Goes, Answers, Synced
<1>5. IntactFiles'
  BY DataFacts DEF InitSync, IInv, Shape, Progress, IntactFiles, Writing
<1>6. BackupOnMedium'
  BY DataFacts DEF InitSync, IInv, Shape, BackupOnMedium
<1>7. BackupOrData'
  BY DataFacts DEF InitSync, IInv, Shape, BackupOrData, Writing
<1>8. ReadsWhole'
  BY DEF InitSync, Goes, ReadsWhole
<1>9. QED
  BY <1>2, <1>3, <1>4, <1>5, <1>6, <1>7, <1>8 DEF IInv

LEMMA ReadMmiIInv == IInv /\ ReadMmi => IInv'
<1> SUFFICES ASSUME IInv, ReadMmi PROVE IInv'
  OBVIOUS
<1>1. File' = File
  BY DEF ReadMmi, File
<1>2. Shape'
  BY AtWork, DataFacts DEF ReadMmi, Answers, service, IInv, Shape, TypeOK, Steps
<1>3. Roles' /\ Progress'
  BY DEF service, ReadMmi, Answers, IInv, Roles, Progress
<1>4. Synced'
  BY AtWork DEF ReadMmi, Goes, Answers, Synced
<1>5. IntactFiles'
  BY DEF ReadMmi, IInv, IntactFiles, Writing
<1>6. BackupOnMedium'
  BY DEF ReadMmi, IInv, BackupOnMedium
<1>7. BackupOrData'
  BY DEF ReadMmi, IInv, BackupOrData, Writing
<1>8. ReadsWhole'
  BY <1>1, AtWork DEF ReadMmi, Answers, IInv, Shape, TypeOK, IntactFiles, ReadsWhole,
     Writing
<1>9. QED
  BY <1>2, <1>3, <1>4, <1>5, <1>6, <1>7, <1>8 DEF IInv

LEMMA OpenIInv == IInv /\ Open => IInv'
<1> SUFFICES ASSUME IInv, Open PROVE IInv'
  OBVIOUS
<1>1. File' = File
  BY DEF Open, File
<1>2. Shape'
  BY DEF Open, Goes, Answers, service, IInv, Shape, TypeOK, Steps
<1>3. Roles' /\ Progress'
  BY <1>1, AtWork DEF service, Open, Goes, Answers, IInv, Roles, Progress, IntactFiles, Writing
<1>4. Synced'
  BY DEF Open, Goes, Answers, Synced
<1>5. IntactFiles'
  BY DEF Open, IInv, IntactFiles, Writing
<1>6. BackupOnMedium'
  BY DEF Open, IInv, BackupOnMedium
<1>7. BackupOrData'
  BY DEF Open, IInv, BackupOrData, Writing
<1>8. ReadsWhole'
  BY AtWork DEF Open, ReadsWhole
<1>9. QED
  BY <1>2, <1>3, <1>4, <1>5, <1>6, <1>7, <1>8 DEF IInv

LEMMA WriteIInv == IInv /\ Write => IInv'
<1> SUFFICES ASSUME IInv, Write PROVE IInv'
  OBVIOUS
<1>1. File' = File
  BY DEF Write, File
<1>2. Shape'
  BY AtWork, DataFacts DEF Write, Goes, Answers, service, IInv, Shape, TypeOK, Steps,
     Contents
<1>3. Roles' /\ Progress'
  BY <1>1, AtWork DEF service, Write, Goes, Answers, IInv, Shape, Roles, Progress
<1>4. Synced'
  BY DEF Write, Goes, Answers, Synced
<1>5. IntactFiles'
  BY <1>1 DEF Write, Goes, IInv, Shape, Progress, IntactFiles, Writing
<1>6. BackupOnMedium'
  BY AtWork, DataFacts DEF Write, IInv, Shape, BackupOnMedium
<1>7. BackupOrData'
  BY AtWork, DataFacts DEF Write, IInv, Shape, BackupOrData, Writing
<1>8. ReadsWhole'
  BY AtWork DEF Write, ReadsWhole
<1>9. QED
  BY <1>2, <1>3, <1>4, <1>5, <1>6, <1>7, <1>8 DEF IInv

LEMMA SyncIInv == IInv /\ Sync => IInv'
<1> SUFFICES ASSUME IInv, Sync PROVE IInv'
  OBVIOUS
<1>1. File' = File
  BY DEF Sync, File
<1>2. Shape'
  BY AtWork DEF Sync, Answers, service, IInv, Shape, TypeOK, Steps
<1>3. Roles' /\ Progress'
  BY DEF service, Sync, Answers, IInv, Roles, Progress
<1>4. Synced'
  BY <1>1, AtWork DEF Sync, IInv, Shape, Progress, Synced
<1>5. IntactFiles'
  BY AtWork DEF Sync, IInv, Shape, Progress, IntactFiles, Writing
<1>6. BackupOnMedium'
  BY DataFacts DEF Sync, IInv, Shape, BackupOnMedium
<1>7. BackupOrData'
  BY AtWork, DataFacts DEF Sync, IInv, Shape, BackupOrData, Writing
<1>8. ReadsWhole'
  BY AtWork DEF Sync, ReadsWhole
<1>9. QED
  BY <1>2, <1>3, <1>4, <1>5, <1>6, <1>7, <1>8 DEF IInv

LEMMA ReplyIInv == IInv /\ Reply => IInv'
<1> SUFFICES ASSUME IInv, Reply PROVE IInv'
  OBVIOUS
<1>1. Shape'
  BY DEF Reply, Quiet, service, IInv, Shape, TypeOK, Steps
<1>2. Roles' /\ Progress'
  BY DEF service, IInv, Reply, Quiet, Roles, Progress
<1>3. Synced'
  BY DEF Reply, Quiet, Synced
<1>4. IntactFiles'
  BY DEF Reply, IInv, IntactFiles, Writing
<1>5. BackupOnMedium'
  BY DEF Reply, IInv, BackupOnMedium
<1>6. BackupOrData'
  BY DEF Reply, IInv, BackupOrData, Writing
<1>7. ReadsWhole'
  BY DEF Reply, Quiet, ReadsWhole
<1>8. QED
  BY <1>1, <1>2, <1>3, <1>4, <1>5, <1>6, <1>7 DEF IInv

LEMMA LoadIInv == IInv /\ Load => IInv'
<1> SUFFICES ASSUME IInv, Load PROVE IInv'
  OBVIOUS
<1>0. File' = File
  BY DEF Load, File
<1>1. Shape'
  BY DEF Load, Loaded, IInv, Shape, TypeOK
<1>2. Roles' /\ Progress'
  BY <1>0 DEF service, Load, IInv, Roles, Progress
<1>3. Synced'
  BY <1>0 DEF Load, IInv, Synced
<1>4. IntactFiles'
  BY <1>0 DEF Load, IInv, IntactFiles, Writing
<1>5. BackupOnMedium'
  BY DEF Load, IInv, BackupOnMedium
<1>6. BackupOrData'
  BY <1>0 DEF Load, IInv, BackupOrData, Writing
<1>7. ReadsWhole'
  BY <1>0 DEF Load, IInv, ReadsWhole
<1>8. QED
  BY <1>1, <1>2, <1>3, <1>4, <1>5, <1>6, <1>7 DEF IInv

LEMMA RestartIInv == IInv /\ Restart => IInv'
<1> SUFFICES ASSUME IInv, Restart PROVE IInv'
  OBVIOUS
<1>1. Shape'
  <2>1. /\ files' \in [Files -> Contents] /\ medium' \in [Files -> Contents]
        /\ \A f \in Files : {files'[f], medium'[f]} \subseteq DataOf[f] \cup {Absent, Empty, Part}
    BY DEF Restart, IInv, Shape, TypeOK
  <2>2. /\ station' \in Stations /\ pc' \in Steps /\ req' \in Requests \cup {NoRequest}
        /\ unflushed' \in BOOLEAN /\ status' \in {-1, 0, 1} /\ spoiled' \subseteq Files
        /\ value' \in Data \cup {Absent, Part, Junk, Foreign} /\ srv' \in {"start", "done"}
        /\ pmic' \in DcxData \cup {Absent, Junk} /\ misread' \subseteq {"port", "service"}
    BY AtWork, DataFacts DEF Restart, Quiet, service, IInv, Shape, TypeOK, Steps,
       Unfinished, Writing
  <2>3. QED
    BY <2>1, <2>2 DEF Shape, TypeOK
<1>2. Roles' /\ Progress'
  BY DEF service, IInv, Restart, Quiet, Roles, Progress
<1>3. Synced'
  BY DEF Restart, Quiet, Synced
<1>4. IntactFiles'
  BY AtWork, WritingFacts DEF Restart, IInv, Progress, Synced, IntactFiles
<1>5. BackupOnMedium'
  BY DEF Restart, IInv, BackupOnMedium
<1>6. BackupOrData'
  BY AtWork, WritingFacts DEF Restart, IInv, Progress, Synced, BackupOrData
<1>7. ReadsWhole'
  BY DEF Restart, Quiet, ReadsWhole
<1>8. QED
  BY <1>1, <1>2, <1>3, <1>4, <1>5, <1>6, <1>7 DEF IInv

LEMMA PowerCutIInv == IInv /\ PowerCut => IInv'
<1> SUFFICES ASSUME IInv, PowerCut PROVE IInv'
  OBVIOUS
<1>1. Shape'
  <2>1. /\ files' \in [Files -> Contents] /\ medium' \in [Files -> Contents]
        /\ \A f \in Files : {files'[f], medium'[f]} \subseteq DataOf[f] \cup {Absent, Empty, Part}
    BY DEF PowerCut, IInv, Shape, TypeOK, Contents
  <2>2. /\ station' \in Stations /\ pc' \in Steps /\ req' \in Requests \cup {NoRequest}
        /\ unflushed' \in BOOLEAN /\ status' \in {-1, 0, 1} /\ spoiled' \subseteq Files
        /\ value' \in Data \cup {Absent, Part, Junk, Foreign} /\ srv' \in {"start", "done"}
        /\ pmic' \in DcxData \cup {Absent, Junk} /\ misread' \subseteq {"port", "service"}
    BY AtWork, DataFacts DEF PowerCut, Quiet, IInv, Shape, TypeOK, Steps, Unfinished,
       Writing
  <2>3. QED
    BY <2>1, <2>2 DEF Shape, TypeOK
<1>2. Roles' /\ Progress'
  BY DEF service, PowerCut, Quiet, Roles, Progress
<1>3. Synced'
  BY DEF PowerCut, Quiet, Synced
<1>4. IntactFiles'
  BY AtWork, WritingFacts DEF PowerCut, IInv, Progress, Synced, IntactFiles
<1>5. BackupOnMedium'
  BY DEF PowerCut, BackupOnMedium
<1>6. BackupOrData'
  <2>1. SUFFICES ASSUME files'["bk"] = Absent, "tx" \notin spoiled'
                 PROVE  medium'["tx"] \in DataOf["tx"]
    BY DEF BackupOrData
  <2>2. files["bk"] = Absent
    BY <2>1, DataFacts DEF PowerCut, IInv, BackupOnMedium
  <2>3. files["tx"] = medium["tx"] /\ medium["tx"] \in DataOf["tx"]
    <3>1. CASE "tx" \in Writing
      BY <2>1, <3>1, AtWork, WritingFacts DEF PowerCut, IInv, Progress, Synced
    <3>2. CASE "tx" \notin Writing
      BY <2>1, <2>2, <3>2, DataFacts DEF PowerCut, IInv, IntactFiles, BackupOrData
    <3>3. QED
      BY <3>1, <3>2
  <2>4. QED
    BY <2>3, DataFacts DEF PowerCut
<1>7. ReadsWhole'
  BY DEF PowerCut, Quiet, ReadsWhole
<1>8. QED
  BY <1>1, <1>2, <1>3, <1>4, <1>5, <1>6, <1>7 DEF IInv

LEMMA StutterIInv == IInv /\ UNCHANGED vars => IInv'
<1> SUFFICES ASSUME IInv, UNCHANGED vars PROVE IInv'
  OBVIOUS
<1>1. /\ File' = File /\ Writing' = Writing
      /\ UNCHANGED <<station, files, medium, pc, req, unflushed, status, value, misread, srv, pmic,
                     spoiled>>
  BY DEF vars, File, Writing
<1>2. Shape' /\ Roles' /\ Progress' /\ Synced' /\ BackupOnMedium'
  BY <1>1 DEF service, IInv, Shape, TypeOK, Roles, Progress, Synced, BackupOnMedium
<1>3. IntactFiles' /\ BackupOrData' /\ ReadsWhole'
  BY <1>1 DEF IInv, IntactFiles, BackupOrData, ReadsWhole
<1>4. QED
  BY <1>2, <1>3 DEF IInv

LEMMA NextIInv == IInv /\ [Next]_vars => IInv'
<1> SUFFICES ASSUME IInv, [Next]_vars PROVE IInv'
  OBVIOUS
<1>1. ASSUME NEW r \in Requests, Receive(r) PROVE IInv'
  BY <1>1, ReceiveIInv
<1>2. QED
  BY <1>1, FopenIInv, FwriteIInv, FflushIInv, FsyncIInv, FcloseIInv, RemoveIInv,
     ReadIInv, InitFileIInv, InitWriteIInv, InitSyncIInv, ReadMmiIInv, OpenIInv,
     WriteIInv, SyncIInv, ReplyIInv, LoadIInv, RestartIInv, PowerCutIInv, StutterIInv
     DEF Next

LEMMA Invariant == Spec => []IInv
  BY InitIInv, NextIInv, PTL DEF Spec

----------------------------------------------------------------------------
\* Between two writes a file whose last write has gone through is whole and
\* the power cannot change it (write_tsx_*, write_dcx_data, eng_*_write_mmi).
THEOREM FilesIntact == Spec => []IntactFiles
<1>1. IInv => IntactFiles
  BY DEF IInv
<1>2. QED
  BY <1>1, Invariant, PTL

\* What a write has answered with status 0 is on the medium as it was asked
\* for, except after one of the failures the code does not look at.
THEOREM AcknowledgedStored == Spec => []AckedIsStored
<1>1. IInv => AckedIsStored
  BY DEF IInv, Synced, AckedIsStored
<1>2. QED
  BY <1>1, Invariant, PTL

\* A read answered with status 0 serves what a write of its format has put on
\* the medium, unless the read was cut short unseen, and a whole record if it
\* is the one of dcx_data.dat.
THEOREM ReadsServeWhole == Spec => []ReadsWhole
<1>1. IInv => ReadsWhole
  BY DEF IInv
<1>2. QED
  BY <1>1, Invariant, PTL

\* Replacing the crystal's calibration never loses it, power cuts included:
\* tsx.dat is removed only after txdata.txt is on the medium.
THEOREM CalibrationKept == Spec => []BackupOrData
<1>1. IInv => BackupOrData
  BY DEF IInv
<1>2. QED
  BY <1>1, Invariant, PTL

\* dcxsrv puts anything but a saved record into the PMIC only from a file that
\* is there, and then only if its save is on or has not gone through, or if
\* the service's own read of it is cut short.
THEOREM JunkExplained == Spec => JunkOnlyFromTorn
<1> DEFINE Explained == /\ files["dcx"] # Absent
                        /\ "dcx" \in spoiled \cup Writing \/ "service" \in misread'
<1>1. IInv /\ [Next]_vars => [pmic' = Junk /\ pmic # Junk => Explained]_vars
  <2> SUFFICES ASSUME IInv, [Next]_vars, pmic' = Junk, pmic # Junk
               PROVE  Explained
    OBVIOUS
  <2>1. Load
    BY DataFacts DEF Next, vars, service, Receive, Fopen, Fwrite, Fflush, Fsync, Fclose,
       Remove, Read, InitFile, InitWrite, InitSync, ReadMmi, Open, Write, Sync, Reply,
       Restart, PowerCut
  <2>2. files["dcx"] # Absent
    BY <2>1 DEF Load
  <2>3. "service" \notin misread' => files["dcx"] \in {Empty, Part}
    <3>1. "service" \notin misread' => files["dcx"] \notin DcxData
      BY <2>1, DataFacts DEF Load, Loaded
    <3>2. QED
      BY <2>2, <3>1, DataFacts DEF IInv, Shape, TypeOK
  <2>4. QED
    BY <2>2, <2>3, DataFacts DEF IInv, IntactFiles
<1>2. QED
  BY <1>1, Invariant, PTL DEF Spec, JunkOnlyFromTorn
=============================================================================
