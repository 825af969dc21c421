SPECIFICATION Spec
SYMMETRY Symmetry
CONSTANTS
  Parts = {"executor", "executor_agentx", "runner", "tokenizer", "tokenizer_pair", "calibration", "calibration_turn", "trace", "proxy", "workspace", "workspace_interrupt", "screen", "screen_plan", "claude"}
  None = None
  Torn = Torn
  Main = Main
  ShutdownHandler = ShutdownHandler
  ExitProxy = ExitProxy
  ExitWriter = ExitWriter
  Task = {a1, a2}
  Request = {a1, a2}
  a1 = a1
  n1 = n1
  n2 = n2
  n3 = n3
  w1 = w1
  BenchConcurrency = 2
  MaxFaults = 2
  TerminateCanRaise = FALSE
  HasTimeout = TRUE
  UsesTokenIds = TRUE
  MaxLines = 2
  CancelInCleanup = FALSE
  BridgeSteps = 3
  BridgeSubSteps = 3
  BridgeArguments = {TRUE, FALSE}
  Interrupts = 2
  Versions = 1
INVARIANTS
  ExecutorExact
  RunnerSound
  TokenizerShared
  CalibrationSound
  ProxySound
  WorkspaceSound
  ClaudeSound
PROPERTIES
  TrimSearches
CHECK_DEADLOCK FALSE
