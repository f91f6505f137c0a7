SPECIFICATION Spec
CONSTANTS
  j1 = j1
  j2 = j2
  a1 = a1
  b1 = b1
  a = a
  b = b
  q1 = q1
  Nil = Nil
  PodOf <- MCPodOf
  Score <- MCScore
  Unreadable = {}
  Opaque = {}
  Jobs = {j1, j2}
  Workers = {a1, b1}
  Pods = {a, b}
  Reapers = {q1}
  LeaseTicks = 6
  ReapLimit = 1
  RenewInterval = 2
  MonitorSleep = 1
  MaxLate = 0
  HeartbeatTimeout = 2
  Backoff = 1
  ReapInterval = 2
  MaxTask = 4
  MaxFaults = 0
INVARIANT
  LiveWorkersKeepTheirLeases
