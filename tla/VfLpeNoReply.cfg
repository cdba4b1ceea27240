\* A VF asks for a frame size above IXGBE_MAX_JUMBO_FRAME_SIZE.
CONSTANTS
  v1 = v1
  v2 = v2
  m1 = m1
  m2 = m2
  McastMac = McastMac
  ZeroMac = ZeroMac
  NoVf = NoVf
  NoMsg = NoMsg
  VFs <- MCOneVF
  Macs <- MCMacs
  RarEntries <- MCRarEntries
  MaxPfMacvlans <- MCMaxPfMacvlans
  MaxMcEntries <- MCMaxMcEntries
  McInputs <- MCMcInputs
  FrameInputs <- MCFrameInputs
  MacvlanIdx = {0}
  VfAddrs = {}
  MacType = "X550"
  PfMaxFrame = 1514
  PfPromisc = FALSE
  MddRestore = TRUE
  VfOps = {"RESET", "SET_LPE", "READ"}
  AdminOps = {}
  MbxFaults = {}

SPECIFICATION FairSpec
PROPERTY RequestAnswered
