SPECIFICATION FairSpec
CONSTANTS
  s1 = s1
  s2 = s2
  Sims = {s1, s2}
  PhoneTwo = s2
  Requests <- BothSlots
  Backlog = 1
  TtyRoom = 2
  TmpRoom = 1
  TelTimeout = 1
  Unasked = {"OK"}
INVARIANTS TypeOK SimAnswerIsOwn DialOwnRegistration InStep
PROPERTIES EveryRequestEnds
