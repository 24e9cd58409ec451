CONSTANTS
  n1 = n1
  p1 = p1
  p2 = p2
  h1 = h1
  None = None
  NS = {n1}
  Pods = {p1, p2}
  Nodes = {h1}
  NsOf <- OneNamespace
  HostNS = n1
  MaxInfos = 2
  MaxUpdates = 1
  Faults = {TRUE, FALSE}
  Leftovers = TRUE
  LaggingDelete = FALSE
SPECIFICATION MCSpec
SYMMETRY PodSymmetry
INVARIANT LockedInfoIsCurrent
INVARIANT CacheMatchesOVN
INVARIANT CalmCatchesUp
CHECK_DEADLOCK FALSE
