SPECIFICATION Spec
CONSTANTS
  HalfMin = 2 Doublings = 3 Redundancy = 2 Second = 1
INVARIANTS TypeOK AnsweredInTime
PROPERTIES Paced QuietensDown
