SPECIFICATION FairSpec
CONSTANTS
  nWallets = 2
  Amount <- MCAmount
  Overlapping = {}
  Unreliable = {0}
  MaxFaults = 1
PROPERTY OpeningSpec
PROPERTY ObjectivesAccomplished
CHECK_DEADLOCK FALSE
