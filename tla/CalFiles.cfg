SPECIFICATION Spec
CONSTANTS
  RawData = {short, long}
  LongData = {long}
  TsxData = {tsx1, tsx2}
  ExtData = {ext1, ext2}
  DcxData = {dcx1, dcx2}
  MmiData = {new, results}
  NewMmi = new
  Backup = bk
  Absent = Absent
  Empty = Empty
  Part = Part
  Junk = Junk
  Foreign = Foreign
  Stations <- OneFileEach
INVARIANTS IntactFiles AckedIsStored ReadsWhole BackupOrData
PROPERTY JunkOnlyFromTorn
