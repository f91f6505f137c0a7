SPECIFICATION Spec
CONSTANTS
  j1 = j1
  j2 = j2
  a1 = a1
  a2 = a2
  a3 = a3
  b1 = b1
  a = a
  b = b
  s1 = s1
  Nil = Nil
  PodOf <- MCPodOf
  Score <- MCScore
  Opaque = {}
  LeaseTicks = 1
  ReapLimit = 1
  Jobs = {j1}
  Workers = {a1, a2}
  Pods = {a}
  Spares = {a2}
  Schedulers = {s1}
  Unreadable = {}
  MaxRetries <- OneRetry
  MaxFailures = 0
  MaxDisruptions = 1
  Lapsing = TRUE
PROPERTIES
  DrainingTakesNothing
