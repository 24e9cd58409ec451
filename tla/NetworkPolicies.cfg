SPECIFICATION Spec
CONSTANTS
  p1 = p1
  p2 = p2
  a = a
  b = b
  np1 = np1
  ns1 = ns1
  po1 = po1
  home = home
  other = other
  s = s
  u = u
  vip = vip
  vip2 = vip2
  none = none
INVARIANT PortGroupsMatch
INVARIANT PeersFollowed
PROPERTY NamespaceLockReleased
PROPERTY HandlersFollow
CHECK_DEADLOCK FALSE
