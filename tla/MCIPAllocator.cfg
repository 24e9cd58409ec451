CONSTANTS
  CIDRs <- MCCIDRs
  IPs <- MCIPs
  V6Cap = 5
  None = None
SPECIFICATION Spec
INVARIANT CountIsAccurate
PROPERTY ImplementsIPPool
PROPERTY RoundRobinAvoidsReuse
