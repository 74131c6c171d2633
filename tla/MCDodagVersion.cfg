SPECIFICATION Spec
CONSTANTS
  Root = root
  Nodes = {root, a, b}
  NoDag = NoDag
  Starts <- MCStarts
  MaxRepairs = 2
  MaxReboots = 1
  Rebootable <- MCYoung
  MaxLosses = 1
INVARIANTS TypeOK RootIsNewest VersionOrderAsymmetric
PROPERTIES RepairReachesAll RepairsInOrder
