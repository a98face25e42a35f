SPECIFICATION Spec
CONSTANTS
  Signals = {"SIGINT", "SIGTERM"}
  MaxConnections = 3
INVARIANTS
  TypeOK
  CallsMeetAssertions
  NoCompletionMissed
  SessionsEndFirst
PROPERTIES
  InterruptCutsOff
  ConnectionsAreTaken
  DrainEndsProgram
