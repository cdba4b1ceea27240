------------------------- MODULE MCVfRateLimit -------------------------
EXTENDS VfRateLimit, TLC

CONSTANTS b1, b2, b3

MCHeap == {b1, b2, b3}
MCSymmetry == Permutations(MCHeap)
\* Unknown, 1 Gb/s and 10 Gb/s link speed codes.
MCLinkSpeeds == {0, SPEED_1GB_FULL, SPEED_10GB_FULL}
\* The rejected 10 and 10001 around the smallest and largest accepted rates,
\* 3000 for a factor with a fractional part, and 0 to clear.
MCRateInputs == {0, 10, 11, 3000, 10000, 10001}

\* Every rate ixgbe_ndo_set_vf_bw accepts at 10 Gb/s is the rate its
\* RTTBCNRC value enforces: the truncating division and the mask lose
\* nothing that the reverse division does not recover.
ASSUME \A r \in 11..10000 : EnforcedRate(BcnrcVal(10000, r), 10000) = r
=============================================================================
