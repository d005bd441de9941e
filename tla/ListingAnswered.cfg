CONSTANTS
  MaxTransfers = 2
  MaxPasv = 2
  MaxBacklog = 1
SPECIFICATION FairSpec
PROPERTY ListingAnswered
CHECK_DEADLOCK FALSE
