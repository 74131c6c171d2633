\* No symmetry: liveness is checked.
SPECIFICATION FairSpec
CONSTANTS
  Nbr = {a, b}
  None = None
  Ranks <- MCNearRanks
  Etxs <- MCGoodEtxs
  HeaderRanks = {}
  TableSize = 2
  IntWidth = 16
  RouterSlots = 2
PROPERTIES ParentRegistered Reattaches
