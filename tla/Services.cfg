SPECIFICATION Spec
CONSTANTS
  s1 = s1
  s2 = s2
  n1 = n1
  n2 = n2
  n3 = n3
  e1 = e1
  e2 = e2
  c1 = c1
  c2 = c2
  x1 = x1
  masquerade = masquerade
  v1 = v1
  v2 = v2
  nodeVIP = nodeVIP
  hs1 = hs1
  hs2 = hs2
  h1 = h1
  h2 = h2
  none = none
INVARIANT VIPsMatchServices
INVARIANT GatewaysMatchNodes
INVARIANT HybridFollowsNodes
PROPERTY PacketWakesService
CHECK_DEADLOCK FALSE
