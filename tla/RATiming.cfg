CONSTANTS
  minDelayBetweenRAs = 3
  maxInitialAdv = 3
  maxInitialAdvInterval = 16
  MinInterval = 3
  MaxInterval = 4
  MaxDue = 3
SPECIFICATION Spec
INVARIANTS GapBounded
