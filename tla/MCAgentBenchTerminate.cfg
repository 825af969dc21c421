SPECIFICATION Spec
SYMMETRY Symmetry
CONSTANTS
  Parts = {"bench"}
  None = None
  Torn = Torn
  Main = Main
  ShutdownHandler = ShutdownHandler
  ExitProxy = ExitProxy
  ExitWriter = ExitWriter
  Task = {a1, a2, a3}
  Request = {a1}
  a1 = a1
  n1 = n1
  n2 = n2
  n3 = n3
  w1 = w1
  BenchConcurrency = 2
  MaxFaults = 2
  TerminateCanRaise = TRUE
  HasTimeout = TRUE
  UsesTokenIds = TRUE
  MaxLines = 2
  CancelInCleanup = FALSE
  BridgeSteps = 3
  BridgeSubSteps = 3
  BridgeArguments = {TRUE, FALSE}
  Interrupts = 2
  Versions = 1
INVARIANTS
  ManifestReflectsRun
CHECK_DEADLOCK FALSE
