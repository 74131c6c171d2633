\* A default router list of one entry, and headers that overwrite ranks.
SPECIFICATION Spec
CONSTANTS
  Nbr = {a, b}
  None = None
  Ranks <- MCRanks
  Etxs <- MCEtxs
  HeaderRanks <- MCHeaderRanks
  TableSize = 2
  IntWidth = 16
  RouterSlots = 1
SYMMETRY MCSymmetry
INVARIANTS TypeOK PreferredInTable DetachedIsSilent
PROPERTIES RankKeepsUp LowestRankHeld HandOverComplete
