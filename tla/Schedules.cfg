SPECIFICATION FairSpec
CONSTANTS
  a = a
  b = b
  NoClass = NoClass
  Classes = {a, b}
  Payloads <- SmallPayloads
  Requested = {0, 1, 2}
INVARIANTS
  IInv
  DependencyOrder
  ClassExclusion
  SucceededIsExact
  VerdictIsTrue
PROPERTIES
  FailFast
  Termination
  ImplementsBatch
