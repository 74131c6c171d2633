\* Do routes and registrations follow the preferred parent?
SPECIFICATION Spec
CONSTANTS
  Nbr = {a, b}
  None = None
  Ranks <- MCSameRanks
  Etxs <- MCGoodEtxs
  HeaderRanks = {}
  TableSize = 2
  IntWidth = 16
  RouterSlots = 2
INVARIANT OneOfficialParent
