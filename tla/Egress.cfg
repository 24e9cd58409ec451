SPECIFICATION Spec
CONSTANTS
  e1 = e1
  e2 = e2
  n1 = n1
  n2 = n2
  x1 = x1
  x2 = x2
  s1 = s1
  s2 = s2
  ip1 = ip1
  ip2 = ip2
  own = own
  garbled = garbled
  i1 = i1
  i2 = i2
  i3 = i3
  net = net
  one = one
  p1 = p1
  p2 = p2
  w1 = w1
  w2 = w2
  g1 = g1
  g2 = g2
  q1 = q1
  q2 = q2
  c1 = c1
  c2 = c2
  c3 = c3
INVARIANT EgressIPsServed
INVARIANT FirstRuleDecides
INVARIANT RoutesFollowGateways
INVARIANT FloatingIPsUnique
PROPERTY LeavesLostNode
PROPERTY NameFollowsDNS
PROPERTY EventuallyFloating
CHECK_DEADLOCK FALSE
