SPECIFICATION FairSpec
CONSTANTS
  NChan = 2
  MaxWork = 1
  Budget = 1
  Settings <- Live
PROPERTIES RxServed TxServed
