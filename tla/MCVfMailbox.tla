---------------------------- MODULE MCVfMailbox ----------------------------
(* Model values and bounds for checking VfMailbox with TLC.                *)
EXTENDS VfMailbox, TLC

CONSTANTS v1, v2, m1, m2

MCVFs == {v1, v2}
MCMacs == {m1, m2}
\* Scenarios whose state is per VF, apart from what every VF shares
\* (MAXFRS, the pings to all VFs), run with one VF.
MCOneVF == {v1}
\* IXGBE_MAX_PF_MACVLANS is 15 in the driver; one reserved PF macvlan keeps
\* the same arithmetic with a RAR table of 5: PF address, PF macvlan, one
\* primary per VF and PoolSize = 1 shared MAC-VLAN slot.
MCRarEntries == 5
MCMaxPfMacvlans == 1
\* IXGBE_MAX_VF_MC_ENTRIES is 30; 1 with requests of 0 and 2 entries
\* exercises the truncation.
MCMaxMcEntries == 1
MCMcInputs == {0, 2}
\* A standard frame, a jumbo frame, and one over IXGBE_MAX_JUMBO_FRAME_SIZE.
MCFrameInputs == {1518, 9018, 9729}
\* Index 0 clears, 1 clears and adds, 2 adds to the list.
MCMacvlanIdx == {0, 1, 2}
\* VFs and addresses are interchangeable model values: no operator orders
\* them or tells one from another except by equality.
MCSymmetry == Permutations(MCVFs) \cup Permutations(MCMacs)
\* In a scenario where the VF never reads its mailbox (no "READ" in VfOps),
\* nothing reads mbx_out or mbx_ack, and with no LPE or reset-dependent
\* property nothing reads vfte, vfre or maxfrs: states differing only there
\* behave alike, so the view leaves them out.
MCFilterView == <<vfinfo, vmolr, antispoof, rar, mv_list, mbx_req, mbx_rst>>
=============================================================================
