SPECIFICATION Spec
CONSTANTS
  r = r a = a b = b c = c d = d None = None
  Nodes <- MCNodes
  Root = r
  Dest = d
  Source = a
  Parents <- MCParents
  Routes <- MCRoutes
  RootRank = 0
  Ranks = {1, 2}
INVARIANTS TypeOK LoopsReported
PROPERTIES LoopsEnd SoundDelivers
CHECK_DEADLOCK FALSE
