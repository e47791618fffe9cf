SPECIFICATION FairSpec
CONSTANTS
  NChan = 1
  MaxWork = 1
  Budget = 1
  Settings <- Timeout
PROPERTIES ResetServed
