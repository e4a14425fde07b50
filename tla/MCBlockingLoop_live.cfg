SPECIFICATION FairSpec
CONSTANTS
  Clients = {c1, c2}
  HasTimeout = FALSE
  StopModes = {"NonBlock", "Block", "BlockAndGiveUp"}
  StopDuringPrepare = FALSE
  Programs = {{"work"}, {"stop"}}
  MaxWork = 2
PROPERTIES
  WorkIsCovered
  WaitReturns
  StopStops
  GiveUpReturns
