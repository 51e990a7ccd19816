\* Three runs on two slots, one of them killed; data is recent within one tick.
SPECIFICATION Spec
CONSTANTS
  p1 = p1
  p2 = p2
  Proc = {p1, p2}
  ConfigFile <- ConfigFiles
  CHAIN_STALE_THRESHOLD = 0
  MaxTime = 1
  MaxRuns = 3
  MaxKills = 1
SYMMETRY ProcSymmetry
INVARIANTS TypeOK FinishedIsSaved NothingUntold AddressesParse
PROPERTIES AtomicState
