SPECIFICATION Spec
CONSTANTS
  p1 = p1
  p2 = p2
  h1 = h1
  r1 = r1
  i1 = i1
  i2 = i2
  d1 = d1
  d2 = d2
  m1 = m1
  m2 = m2
  none = none
INVARIANT SandboxesKept
PROPERTY PodConnected
PROPERTY FlowsFollowCluster
CHECK_DEADLOCK FALSE
