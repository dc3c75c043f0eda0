SPECIFICATION MCSpec
CONSTANTS
  Channels = {p1, p2}
  Nand = FALSE
  Size = 2
  Vals = {va, vb}
  Magics = {va}
  MaxLen = 3
  RspRoom = 2
  TestModeCell = 1
  Ops <- AllOps
  EmmcRace = {"ex_write", "testmode_at", "ex_read"}
  NandRace = {"ctrl_write", "phs_write"}
  RaceLen = 1
SYMMETRY Symmetric
INVARIANTS DirtyIsPending
PROPERTIES OnlyAddressed ImplementsStore WedgedForGood
