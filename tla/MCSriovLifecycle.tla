------------------------- MODULE MCSriovLifecycle --------------------------
EXTENDS SriovLifecycle, TLC

CONSTANTS b1, b2, b3

MCHeap == {b1, b2, b3}
MCSymmetry == Permutations(MCHeap)
=============================================================================
