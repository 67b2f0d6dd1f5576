SPECIFICATION FairSpec
CONSTANTS
  Node = {n1, n2, n3}
  Required = 2
INVARIANTS TypeOK FullRequest
PROPERTIES ServedFromPool RequestEnds
