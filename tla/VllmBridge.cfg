CONSTANTS
  None = None
  ProgramId = {p1, p2}
  Request = {r1, r2}
  Task = {t1, t2}
  OwnIdentity <- OneWithTasks
  MaxGeneration = 0
SPECIFICATION FairBridgeSpec
INVARIANTS
  BridgeConsistent
PROPERTIES
  RuntimeContract
  AdmittedReachesEngine
