CONSTANTS
  minDelayBetweenRAs = 3
  maxInitialAdv = 3
  maxInitialAdvInterval = 16
  MinInterval = 6
  MaxInterval = 20
  MaxDue = 1
SPECIFICATION Spec
PROPERTIES MulticastSpacing
