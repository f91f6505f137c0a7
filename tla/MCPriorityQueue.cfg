SPECIFICATION QueueSpec
CONSTANTS
  j1 = j1
  j2 = j2
  j3 = j3
  junk = junk
  c1 = c1
  Nil = Nil
  Jobs <- MCJobs
  Score <- MCScore
  Priority <- MCPriority
  SubmitTime <- MCSubmitTime
  Grid <- MCGrid
  Scale = 16
  Unreadable = {junk}
  Opaque = {junk}
  LeaseTicks = 2
  ReapLimit = 1
  Pushable <- MCPushable
  Callers = {c1}
INVARIANTS
  QueueTypeOK
  LeaseKeysAgree
  KeepsItsPlace
PROPERTIES
  LeasesComeFromThePop
  KeepsThePromise
  PopsInOrder
