\* A function-level reset against the CTS gate: the filter of a VF's
\* recorded address while that VF is clear to send.
CONSTANTS
  v1 = v1
  v2 = v2
  m1 = m1
  m2 = m2
  McastMac = McastMac
  ZeroMac = ZeroMac
  NoVf = NoVf
  NoMsg = NoMsg
  VFs <- MCVFs
  Macs <- MCMacs
  RarEntries <- MCRarEntries
  MaxPfMacvlans <- MCMaxPfMacvlans
  MaxMcEntries <- MCMaxMcEntries
  McInputs <- MCMcInputs
  FrameInputs <- MCFrameInputs
  MacvlanIdx = {0}
  VfAddrs <- MCMacs
  MacType = "X550"
  PfMaxFrame = 1514
  PfPromisc = TRUE
  MddRestore = TRUE
  VfOps = {"RESET", "SET_MAC_ADDR", "FLR"}
  AdminOps = {}
  MbxFaults = {"read_mbx"}

SPECIFICATION Spec
INVARIANT MacFilterWhileCts
