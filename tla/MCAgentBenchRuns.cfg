SPECIFICATION Spec
SYMMETRY Symmetry
CONSTANTS
  Parts = {"bench", "screen", "screen_plan", "jiuwen", "dsh_bridge", "dsh_plan", "dsh_run", "experiment", "experiment_shared"}
  None = None
  Torn = Torn
  Main = Main
  ShutdownHandler = ShutdownHandler
  ExitProxy = ExitProxy
  ExitWriter = ExitWriter
  Task = {a1, a2}
  Request = {a1}
  a1 = a1
  n1 = n1
  n2 = n2
  n3 = n3
  w1 = w1
  BenchConcurrency = 1
  MaxFaults = 2
  TerminateCanRaise = FALSE
  HasTimeout = TRUE
  UsesTokenIds = TRUE
  MaxLines = 2
  CancelInCleanup = FALSE
  BridgeSteps = 3
  BridgeSubSteps = 3
  BridgeArguments = {TRUE, FALSE}
  Interrupts = 2
  Versions = 1
INVARIANTS
  BenchSound
  RunnersSound
PROPERTIES
  DriverSteps
CHECK_DEADLOCK FALSE
