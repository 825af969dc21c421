SPECIFICATION FairSpec
CONSTANTS
  Parts = {"executor", "runner", "tokenizer_pair", "trace", "proxy", "bench", "claude", "jiuwen", "dsh_bridge", "experiment"}
  None = None
  Torn = Torn
  Main = Main
  ShutdownHandler = ShutdownHandler
  ExitProxy = ExitProxy
  ExitWriter = ExitWriter
  Task = {a1}
  Request = {a1}
  a1 = a1
  n1 = n1
  n2 = n2
  n3 = n3
  w1 = w1
  BenchConcurrency = 1
  MaxFaults = 1
  TerminateCanRaise = FALSE
  HasTimeout = FALSE
  UsesTokenIds = FALSE
  MaxLines = 1
  CancelInCleanup = TRUE
  BridgeSteps = 4
  BridgeSubSteps = 1
  BridgeArguments = {FALSE}
  Interrupts = 1
  Versions = 0
PROPERTIES
  RunsEnd
  WaitersAnswered
CHECK_DEADLOCK FALSE
