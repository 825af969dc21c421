SPECIFICATION Spec
SYMMETRY MCSymmetry
CONSTANTS
  Parts = {"store", "collect"}
  w1 = w1
  w2 = w2
  x1 = x1
  i1 = i1
  i2 = i2
  r1 = r1
  r2 = r2
  r3 = r3
  r4 = r4
  r5 = r5
  p1 = p1
  p2 = p2
  k1 = k1
  k2 = k2
  Writer <- MCWriter
  Reader <- MCReader
  Identity <- MCIdentity
  Revision <- MCRevision
  Path <- MCPath
  Root <- MCRoot
  IdOf <- MCIdOf
  StateOf <- MCStateOf
  Content <- MCContent
  Reserved <- MCReserved
  NoRev = NoRev
  NoRoot = NoRoot
  NoWriter = NoWriter
  Id = {"a", "b"}
  Rev = {1, 2}
  PackageIds = {"a"}
  SizeOf <- MCSizeOf
  Reference <- MCReference
  Requests <- MCRequests
  PinChoices <- MCPinChoices
  Filters <- MCFilters
  Sorted <- MCSorted
  Limit = 2
  MaxBytesLimit = 2
  MaxChanges = 1
INVARIANTS
  StoreConsistent
  CollectSound
PROPERTIES
  NoLostUpdate
  ImplementsLog
CHECK_DEADLOCK FALSE
