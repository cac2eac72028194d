SPECIFICATION CountersSpec
CONSTANTS
  p1 = p1
  w1 = w1
  c1 = c1
  c2 = c2
  f1 = f1
  Pods = {p1}
  Workers = {w1}
  Cleaners = {c1}
  FlushThreads = {f1}
  PodOf <- OnOnePod
  Ips = {a}
  Paths = {x}
  Suspicious = {a}
  Deferrable = {a}
  MaxRequests = 1
  MaxFaults = 3
PROPERTY
  CountersConverge
