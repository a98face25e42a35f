\* Three registrants, two actions, batches of at most two events, one failure of
\* EPOLL_CTL_DEL.
SPECIFICATION Spec
CONSTANTS
  Registrants = {r1, r2, r3}
  Actions = {a1, a2}
  MAXEVENTS = 2
  MaxCtlDelFailures = 1
INVARIANTS
  TypeOK
  RegistryAgrees
  KernelHoldsLivePointers
  StepAssertions
PROPERTIES
  ImplementsLoopService
  ActionsAreRun
  EdgesAreTakenUp
