SPECIFICATION Spec
SYMMETRY Symmetry
CONSTANTS
  Parts = {"identity", "observer", "channel", "window", "throughput", "auto", "fit", "growth", "gain", "prefix"}
  e0 = e0
  e1 = e1
  e2 = e2
  Signal = {s1, s2}
  Worker = {w1, w2}
  NoFile = NoFile
  Junk = Junk
  Nothing = Nothing
INVARIANTS
  IdentityExact
  LifecycleExact
  PolicyExact
PROPERTIES
  PolicySteps
CHECK_DEADLOCK FALSE
