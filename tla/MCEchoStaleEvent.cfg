SPECIFICATION Spec
CONSTANTS
  Signals = {"SIGINT"}
  BufSize = 2
  Capacity = 2
  MaxSent = 3
INVARIANTS
  UpdatesReachLiveObjects
