SPECIFICATION Spec
CONSTANTS
  NChan = 1
  MaxWork = 1
  Budget = 2
  Settings <- Safety
INVARIANTS NoLostIrq TxWatched FreedQuiet NoSpuriousReset
