SPECIFICATION FairSpec
CONSTANTS
  n1 = n1
  n2 = n2
  n3 = n3
  Nodes <- ThreeNodes
  Ranges <- DualRanges
  Configs <- SingleOrDual
  Envs <- OneTrouble
INVARIANT DisjointSubnets
INVARIANT ReservedAsAnnotated
INVARIANT NetworkMatches
PROPERTY AnnotationsSettle
CHECK_DEADLOCK FALSE
