\* The control message an MDD event sends against the VF's clear_to_send.
CONSTANTS
  v1 = v1
  v2 = v2
  m1 = m1
  m2 = m2
  McastMac = McastMac
  ZeroMac = ZeroMac
  NoVf = NoVf
  NoMsg = NoMsg
  VFs <- MCOneVF
  Macs <- MCMacs
  RarEntries <- MCRarEntries
  MaxPfMacvlans <- MCMaxPfMacvlans
  MaxMcEntries <- MCMaxMcEntries
  McInputs <- MCMcInputs
  FrameInputs <- MCFrameInputs
  MacvlanIdx = {0}
  VfAddrs = {}
  MacType = "X550"
  PfMaxFrame = 1514
  PfPromisc = TRUE
  MddRestore = TRUE
  VfOps = {"RESET"}
  AdminOps = {"mdd"}
  MbxFaults = {"read_mbx"}

SPECIFICATION Spec
INVARIANT PingEchoesCts
