SPECIFICATION FairSpec
CONSTANTS
  nWallets = 2
  Amount <- MCAmount
  Overlapping = {1}
  MaxApprovals = 1
  Impatient = {1}
  Updaters = {1}
  MayReject = {1}
INVARIANT DepositsAreSafe
PROPERTY RichOpeningSpec
PROPERTY RichChannelOpens
CHECK_DEADLOCK FALSE
