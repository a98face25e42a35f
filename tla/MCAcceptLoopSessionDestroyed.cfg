SPECIFICATION Spec
CONSTANTS
  Signals = {"SIGINT"}
  MaxConnections = 3
INVARIANTS
  NoSessionIsDestroyed
