SPECIFICATION Spec
CONSTANTS
  Clients = {c1, c2}
  HasTimeout = TRUE
  StopModes = {"NonBlock", "Block"}
  StopDuringPrepare = FALSE
  Programs = {{"work", "stop"}}
  MaxWork = 2
SYMMETRY Symmetry
INVARIANTS
  DoneMeansCovered
  SleeperIsWoken
  WaiterIsWoken
  StopIsBarrier
