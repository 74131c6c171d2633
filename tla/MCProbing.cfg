SPECIFICATION ProbingSpec
CONSTANTS
  Slots = {1, 2, 3}
  None = None
INVARIANT ProbingTypeOK
PROPERTIES ParentProbed StaleProbed
