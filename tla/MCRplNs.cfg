SPECIFICATION Spec
CONSTANTS
  r = r a = a b = b c = c NoNode = NoNode
  Nodes <- MCNodes
  Root = r
  Trees <- MCTrees
  PoolSize = 4 Lifetime = 2 NoPathDelay = 1
  MaxMoves = 2 MaxLapses = 1
INVARIANTS TypeOK
PROPERTIES UpdateKeepsReachable GraphSettles
