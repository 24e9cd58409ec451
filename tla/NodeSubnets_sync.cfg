SPECIFICATION Spec
CONSTANTS
  n1 = n1
  n2 = n2
  n3 = n3
  Nodes <- ThreeNodes
  Ranges <- OneRange
  Configs <- SingleStack
  Envs <- FastDeletes
SYMMETRY NodeSymmetry
INVARIANT DisjointSubnets
CHECK_DEADLOCK FALSE
