CONSTANTS
  p1 = p1
  p2 = p2
  r1 = r1
  r2 = r2
  r3 = r3
  t1 = t1
  t2 = t2
  None = None
  ProgramId = {p1, p2}
  Request = {r1, r2, r3}
  Task = {t1, t2}
  MaxGeneration = 1
SPECIFICATION Spec
SYMMETRY RuntimeSymmetry
INVARIANTS
  RegistryExact
  RuntimeConsistent
  RequestsOwned
PROPERTIES
  GenerationsNeverReused
  NeverInterrupted
  HandedOverOnce
