\* MAC ownership and filter resources: VF MAC and MAC-VLAN requests, resets
\* and FLRs of two VFs sharing the slot list, against the administrator pinning addresses.
CONSTANTS
  v1 = v1
  v2 = v2
  m1 = m1
  m2 = m2
  McastMac = McastMac
  ZeroMac = ZeroMac
  NoVf = NoVf
  NoMsg = NoMsg
  VFs <- MCVFs
  Macs <- MCMacs
  RarEntries <- MCRarEntries
  MaxPfMacvlans <- MCMaxPfMacvlans
  MaxMcEntries <- MCMaxMcEntries
  McInputs <- MCMcInputs
  FrameInputs <- MCFrameInputs
  MacvlanIdx = {0, 1}
  VfAddrs <- MCMacs
  MacType = "X550"
  PfMaxFrame = 1514
  PfPromisc = TRUE
  MddRestore = TRUE
  VfOps = {"RESET", "SET_MAC_ADDR", "SET_MACVLAN", "FLR"}
  AdminOps = {"mac"}
  MbxFaults = {"read_mbx"}

SPECIFICATION Spec
SYMMETRY MCSymmetry
VIEW MCFilterView
INVARIANT PrimaryFilterFits
INVARIANT RarAccounted

PROPERTY PinnedMacHeld
