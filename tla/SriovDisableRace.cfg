\* ixgbe_disable_sriov (sysfs write of 0 or driver unload) against
\* ixgbe_msg_task and an ndo setter that have already checked vf < num_vfs.
CONSTANTS
  b1 = b1  b2 = b2  b3 = b3
  Heap <- MCHeap
  VfCounts = {1, 2}
  MaxVfsInputs = {0, 1}
  NumTc = 1
  RarEntries = 128
  MaxPfMacvlans = 15
  AllocFaults = {}
SPECIFICATION Spec
SYMMETRY MCSymmetry
INVARIANT CheckedRecordLive
