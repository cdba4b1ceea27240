\* Trust: API negotiation, xcast and MAC requests of a VF against the
\* administrator pinning its address and granting and revoking trust.
CONSTANTS
  v1 = v1
  v2 = v2
  m1 = m1
  m2 = m2
  McastMac = McastMac
  ZeroMac = ZeroMac
  NoVf = NoVf
  NoMsg = NoMsg
  VFs <- MCOneVF
  Macs <- MCMacs
  RarEntries <- MCRarEntries
  MaxPfMacvlans <- MCMaxPfMacvlans
  MaxMcEntries <- MCMaxMcEntries
  McInputs <- MCMcInputs
  FrameInputs <- MCFrameInputs
  MacvlanIdx = {0}
  VfAddrs <- MCMacs
  MacType = "X550"
  PfMaxFrame = 1514
  PfPromisc = TRUE
  MddRestore = TRUE
  VfOps = {"RESET", "API_NEGOTIATE", "UPDATE_XCAST_MODE", "SET_MAC_ADDR"}
  AdminOps = {"trust", "mac"}
  MbxFaults = {"read_mbx"}

SPECIFICATION Spec
SYMMETRY MCSymmetry
VIEW MCFilterView
PROPERTY UntrustedNoEscalation
