SPECIFICATION CountersSpec
CONSTANTS
  p1 = p1
  w1 = w1
  c1 = c1
  c2 = c2
  f1 = f1
  Pods = {p1}
  Workers = {w1}
  Cleaners = {c1, c2}
  FlushThreads = {}
  PodOf <- OnOnePod
  Ips = {a, b}
  Paths = {x}
  Suspicious = {}
  Deferrable = {b}
  MaxRequests = 2
  MaxFaults = 1
PROPERTY
  RetentionKeepsTotals
SYMMETRY CleanersAlike
