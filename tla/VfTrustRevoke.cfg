\* Revoking trust from a VF that is in promiscuous receive mode.
CONSTANTS
  v1 = v1
  v2 = v2
  m1 = m1
  m2 = m2
  McastMac = McastMac
  ZeroMac = ZeroMac
  NoVf = NoVf
  NoMsg = NoMsg
  VFs <- MCOneVF
  Macs <- MCMacs
  RarEntries <- MCRarEntries
  MaxPfMacvlans <- MCMaxPfMacvlans
  MaxMcEntries <- MCMaxMcEntries
  McInputs <- MCMcInputs
  FrameInputs <- MCFrameInputs
  MacvlanIdx = {0}
  VfAddrs = {}
  MacType = "X550"
  PfMaxFrame = 1514
  PfPromisc = TRUE
  MddRestore = TRUE
  VfOps = {"RESET", "API_NEGOTIATE", "UPDATE_XCAST_MODE"}
  AdminOps = {"trust"}
  MbxFaults = {"read_mbx"}

SPECIFICATION Spec
INVARIANT UntrustedNotPromisc
