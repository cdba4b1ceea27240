\* SR-IOV enable/disable, driver load and unload, guests, table readers, and
\* VF rate limits set by the administrator, link changes and watchdog passes.
CONSTANTS
  b1 = b1  b2 = b2  b3 = b3
  Heap <- MCHeap
  VfCounts = {1, 2}
  MaxVfsInputs = {0, 1}
  NumTc = 1
  RarEntries = 128
  MaxPfMacvlans = 15
  AllocFaults = {"vfinfo"}
  LinkSpeeds <- MCLinkSpeeds
  RateInputs <- MCRateInputs
INIT RateInit
NEXT RateNext
SYMMETRY MCSymmetry
INVARIANT NumVfsBacked RefsBalanced SriovFlagCoversVfs ReportedRateEnforced
PROPERTY TxCapRefined
