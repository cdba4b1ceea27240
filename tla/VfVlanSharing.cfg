\* VLAN filter sharing between two VFs and the PF, with VLAN promiscuity off and on.
CONSTANTS
  v1 = v1  v2 = v2  pf = pf  NoVid = NoVid
  VFs <- MCVFs  PfPool <- pf  Vids <- MCVids  PfVids <- MCPfVids
  VlvfEntries <- MCVlvfEntries  NumTcs = 0  DefaultUp = 0
  VfVlanInputs <- MCVfVlanInputs  VlanInputs <- MCVlanInputs  QosInputs <- MCQosInputs
SPECIFICATION Spec
SYMMETRY MCSymmetry
INVARIANT TypeOK VfVlansKept EntriesInVfta PfEntryKept PortVlanInstalled PortVlanConfines
