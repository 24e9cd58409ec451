SPECIFICATION Spec
CONSTANTS
  a = a
  b = b
  f1 = f1
  f2 = f2
  l1 = l1
  l2 = l2
INVARIANT HostMatchesServices
INVARIANT ReportsTruthful
PROPERTY BridgeKeepsFlows
PROPERTY RepliesReturn
PROPERTY StartCompletes
 
PROPERTY ConfigTakesHold
CHECK_DEADLOCK FALSE
