SPECIFICATION Spec
CONSTANTS
  a = a b = b c = c d = d None = None
  Nbr <- MCNbr
  TableSize = 3
  IntWidth = 16
  Announced <- MCAnnounced
  Metrics <- MCMetrics
INVARIANT TypeOK
PROPERTY TableSettles
