SPECIFICATION MCSpec
CONSTANTS
  n1 = n1
  n2 = n2
  n3 = n3
  a1 = a1
  a2 = a2
  None = None
  Alias = Alias
  Names = {n1, n2, n3}
  IPs = {a1, a2}
  MaxUIDs = 2
  MaxFaults = 0
  MaxRestarts = 0
  NodeLate = FALSE
  Reuse = "expired"
  NewAtBoot = FALSE
SYMMETRY PodSymmetry
INVARIANT AddressesOwned
INVARIANT SettledMatches
PROPERTY AnnotationsKept
CHECK_DEADLOCK FALSE
