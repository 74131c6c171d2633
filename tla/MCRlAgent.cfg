SPECIFICATION Spec
CONSTANTS
  Nbr = {a, b}
  None = None
  Links <- MCLinks
  Delays <- MCDelays
  MaxCredits = 1
SYMMETRY MCSymmetry
INVARIANT TypeOK
PROPERTIES AgentKeepsToUsable CreditsTowardsReward JoinsWhileLearning
CHECK_DEADLOCK FALSE
