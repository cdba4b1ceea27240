------------------------------ MODULE MCVfVlan ------------------------------
(* Model-checking instance of VfVlan: two VFs requesting VLANs 0 to 2, VLAN *)
(* 1 available to the PF, and a pool filter table of three entries (entry  *)
(* 0 for VLAN 0 and two more), so the table fills up and a port VLAN 3    *)
(* the administrator sets finds no entry.                                  *)
EXTENDS VfVlan, TLC

CONSTANTS v1, v2, pf

MCVFs == {v1, v2}
MCVids == {0, 1, 2, 3}
MCVfVlanInputs == {0, 1, 2}
MCPfVids == {1}
MCVlvfEntries == 3
\* 4095 and 8 are out of range and rejected by ndo_set_vf_vlan.
MCVlanInputs == {0, 1, 3, 4095}
MCQosInputs == {0, 3, 8}

MCSymmetry == Permutations(MCVFs)
=============================================================================
