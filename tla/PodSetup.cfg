SPECIFICATION Spec
CONSTANTS
  n1 = n1
  p1 = p1
  h1 = h1
  i1 = i1
  i2 = i2
  none = none
  alias = alias
PROPERTY SetsFollowPods
PROPERTY EventuallyPlugged
CHECK_DEADLOCK FALSE
