SPECIFICATION Spec
CONSTANTS
  Signals = {"SIGINT"}
  BufSize = 3
  Capacity = 3
  MaxSent = 4
INVARIANTS
  CallsMeetAssertions
  NoCompletionMissed
  InterruptLosesOnlyUnwritten
PROPERTIES
  ImplementsEchoService
  InterruptEndsProgram
  EveryByteEchoed
