CONSTANTS
  None = None
  ProgramId = {p1, p2}
  Request = {r1, r2}
  Task = {t1, t2}
  MaxGeneration = 0
  Mode = "on"
  TtlMax = 1
  ForceMin = 1
  ForceMax = 1
  PausedTtl = 1
  PrivilegedTtl = 1
  PrivilegedLimit = 1
  TargetMaxRounds = 1
  KnownIdentity <- Unrelated
  Cancellation = TRUE
SPECIFICATION TTLSpec
SYMMETRY RequestSymmetry
INVARIANTS
  RetentionRuns
