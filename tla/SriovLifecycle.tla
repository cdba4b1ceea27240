--------------------------- MODULE SriovLifecycle ---------------------------
(***************************************************************************)
(* Enabling and disabling SR-IOV in ixgbe_sriov.c: the PF driver's VF      *)
(* record table (adapter->vfinfo), the MAC-VLAN slot array (mv_list) and   *)
(* the list head that links it (adapter->vf_mvs.l), the VF count           *)
(* (adapter->num_vfs), the SR-IOV flag, and the VF device references       *)
(* taken by ixgbe_get_vfs.                                                 *)
(*                                                                         *)
(* The operations are those of the file: ixgbe_pci_sriov_configure (the    *)
(* sysfs sriov_numvfs write), ixgbe_enable_sriov (called at driver load    *)
(* for the max_vfs module parameter), ixgbe_disable_sriov (also called at  *)
(* driver unload).  ixgbe_disable_sriov takes two steps: it zeroes         *)
(* num_vfs, then frees; code that read num_vfs before the first step may   *)
(* run between them.  Two such readers are modelled: ixgbe_msg_task, which *)
(* runs from the mailbox interrupt and checks vfinfo and vf < num_vfs      *)
(* before handling VF vf, and an ndo_set_vf_* setter, which checks         *)
(* vf < num_vfs.  A reader that has passed its check goes on to use        *)
(* adapter->vfinfo[vf] and walk adapter->vf_mvs.l.                         *)
(*                                                                         *)
(* Memory is a set Heap of block ids.  kcalloc takes a block that is not   *)
(* live or fails; kfree removes a block from live.  A pointer to a block   *)
(* that is not live is dangling.                                           *)
(*                                                                         *)
(* The PCI core (drivers/pci/iov.c) is the environment.  It calls the      *)
(* driver's sriov_configure for a write of n only when n differs from the  *)
(* current VF count, and for n > 0 only when no VFs exist, otherwise it    *)
(* answers -EBUSY itself.  It holds the device lock, so probe, remove and  *)
(* configure never overlap.  A guest may have VFs assigned.                *)
(***************************************************************************)
EXTENDS Integers, FiniteSets

CONSTANTS
    VfCounts,       \* VF counts an administrator writes to sriov_numvfs
    MaxVfsInputs,   \* values of the max_vfs module parameter at load
    NumTc,          \* traffic classes configured on the PF netdev
    RarEntries,     \* hw->mac.num_rar_entries
    MaxPfMacvlans,  \* IXGBE_MAX_PF_MACVLANS
    Heap,           \* block ids kcalloc can return
    AllocFaults     \* subset of {"vfinfo", "mv_list", "pci_enable"}

ASSUME VfCounts \subseteq 1..64 /\ MaxVfsInputs \subseteq Nat
ASSUME AllocFaults \subseteq {"vfinfo", "mv_list", "pci_enable"}

Null == "NULL"          \* a NULL pointer
Empty == "EMPTY"        \* a list head initialised to the empty list

Readers == {"msg_task", "ndo"}
DisIdle == [n |-> -1, unload |-> FALSE]     \* no ixgbe_disable_sriov running

\* IXGBE_MAX_VFS_DRV_LIMIT and the per-traffic-class caps of
\* ixgbe_pci_sriov_enable (IXGBE_MAX_VFS_8TC/4TC/1TC).
MaxVfsDrvLimit == 63
TcVfLimit == CASE NumTc > 4 -> 15
             []   NumTc > 1 -> 31
             []   OTHER     -> 63

VARIABLES
    loaded,         \* the PF driver is bound (an adapter exists)
    pci_vfs,        \* pci_num_vf(): VFs the PCI core has enabled
    assigned,       \* pci_vfs_assigned(): some VF is assigned to a guest
    sriov_enabled,  \* IXGBE_FLAG_SRIOV_ENABLED in adapter->flags
    num_vfs,        \* adapter->num_vfs
    vfinfo,         \* adapter->vfinfo: a block of Heap, or Null
    mv_list,        \* adapter->mv_list: a block of Heap, or Null
    mvs_head,       \* adapter->vf_mvs.l: Empty, or the block it links into
    vf_refs,        \* vfinfo[0..vf_refs-1].vfdev hold a pci_dev reference
    live,           \* blocks allocated and not freed
    size,           \* size[b]: entries of block b when it was allocated
    dis,            \* ixgbe_disable_sriov in progress: its local num_vfs
    rd              \* rd[r]: {vf} when reader r has checked vf, else {}

vars == <<loaded, pci_vfs, assigned, sriov_enabled, num_vfs, vfinfo,
          mv_list, mvs_head, vf_refs, live, size, dis, rd>>

\* The outcomes of a kcalloc while the blocks in used are taken: a free
\* block, or Null when memory is exhausted or the fault is enabled.
Kcalloc(fault, used) ==
    (Heap \ used) \cup (IF fault \in AllocFaults \/ Heap \subseteq used
                        THEN {Null} ELSE {})

\* Number of MAC-VLAN slots ixgbe_alloc_vf_macvlans sizes mv_list to.
NumVfMacvlans(n) == RarEntries - (MaxPfMacvlans + 1 + n)

\* The adapter state a freshly probed adapter starts from: the
\* netdev private area is zeroed; vf_mvs.l is taken to be initialised.
FreshAdapter ==
    /\ sriov_enabled' = FALSE
    /\ num_vfs' = 0
    /\ vfinfo' = Null
    /\ mv_list' = Null
    /\ mvs_head' = Empty
    /\ vf_refs' = 0

(***************************************************************************)
(* __ixgbe_enable_sriov(n) when the vfinfo kcalloc fails: the SR-IOV and  *)
(* VMDq flags are already set, adapter->vfinfo is overwritten with the    *)
(* NULL result (a table still allocated stays in live, unreachable), and *)
(* -ENOMEM is returned before num_vfs is set.                             *)
(***************************************************************************)
EnableSriovNoMemCountFirst(n) ==
    /\ sriov_enabled' = TRUE
    /\ vfinfo' = Null
    /\ num_vfs' = n
    /\ UNCHANGED <<mv_list, mvs_head, vf_refs, live, size>>

EnableSriovNoMem(n) ==
    /\ sriov_enabled' = TRUE
    /\ vfinfo' = Null
    /\ UNCHANGED <<num_vfs, mv_list, mvs_head, vf_refs, live, size>>

(***************************************************************************)
(* __ixgbe_enable_sriov(n) with vfinfo allocated to block vi, then        *)
(* ixgbe_alloc_vf_macvlans with mv_list allocated to block ml (Null: the  *)
(* kcalloc failed), then ixgbe_get_vfs taking refs references.  ml0 and   *)
(* hd0 are mv_list and vf_mvs.l before the call.  num_vfs is set only     *)
(* after vfinfo is allocated.  ixgbe_alloc_vf_macvlans returns early for  *)
(* zero slots; a negative count makes kcalloc fail; when kcalloc fails    *)
(* neither adapter->mv_list nor vf_mvs.l is written.                      *)
(***************************************************************************)
\* vf_mvs.l after ixgbe_alloc_vf_macvlans: INIT_LIST_HEAD and list_add of
\* every slot of the new block ml when it was allocated (newml), else hd0.
LinkMacvlans(newml, ml, hd0) == IF newml THEN ml ELSE hd0

EnableSriov(n, vi, ml, refs, ml0, hd0) ==
    LET slots == NumVfMacvlans(n)
        newml == slots > 0 /\ ml # Null
    IN /\ sriov_enabled' = TRUE
       /\ vfinfo' = vi
       /\ num_vfs' = n
       /\ mv_list' = IF newml THEN ml ELSE ml0
       /\ mvs_head' = LinkMacvlans(newml, ml, hd0)
       /\ live' = live \cup {vi} \cup (IF newml THEN {ml} ELSE {})
       /\ size' = [b \in Heap |-> IF b = vi THEN n
                                  ELSE IF newml /\ b = ml THEN slots
                                  ELSE size[b]]
       /\ vf_refs' = refs

\* References ixgbe_get_vfs takes once n VFs exist: one for each VF device
\* of this PF whose index is below num_vfs (= n).
GetVfs(n) == n

\* The outcomes of pci_enable_sriov.
PciEnableOk == {TRUE} \cup (IF "pci_enable" \in AllocFaults THEN {FALSE} ELSE {})

\* The references ixgbe_disable_sriov leaves after putting those of
\* vfinfo[0..n-1]; ixgbe_get_vfs takes them for vfinfo[0..vf_refs-1].
PutVfRefsAfterZero(n) == vf_refs

PutVfRefs(n) == IF vf_refs > n THEN vf_refs - n ELSE 0

(***************************************************************************)
(* ixgbe_pci_sriov_enable(n), reached from a sysfs write of n > 0 while   *)
(* no VFs exist.  -EINVAL when num_vfs already is n, -EPERM above the     *)
(* traffic-class cap; these return before any change.  Then               *)
(* __ixgbe_enable_sriov; on success ixgbe_vf_configuration and            *)
(* ixgbe_sriov_reinit (which change nothing modelled here), then          *)
(* pci_enable_sriov and, when it succeeds, ixgbe_get_vfs.  Every error    *)
(* returns through err_out with nothing undone.                           *)
(***************************************************************************)
PciSriovEnable(n) ==
    /\ loaded /\ dis = DisIdle
    /\ pci_vfs = 0
    /\ num_vfs # n
    /\ n <= TcVfLimit
    /\ \E vi \in Kcalloc("vfinfo", live) :
         \/ /\ vi = Null
            /\ EnableSriovNoMem(n)
            /\ UNCHANGED pci_vfs
         \/ /\ vi # Null
            /\ \E ml \in Kcalloc("mv_list", live \cup {vi}), ok \in PciEnableOk :
                 /\ EnableSriov(n, vi, ml, IF ok THEN GetVfs(n) ELSE 0, mv_list, mvs_head)
                 /\ pci_vfs' = IF ok THEN n ELSE pci_vfs
    /\ UNCHANGED <<loaded, assigned, dis, rd>>

(***************************************************************************)
(* The first step of ixgbe_disable_sriov: keep num_vfs in a local and     *)
(* zero adapter->num_vfs "to prevent access to vfinfo".  unload tells     *)
(* whether the caller is the driver's remove path.                        *)
(***************************************************************************)
DisableStart(unload) ==
    /\ dis' = [n |-> num_vfs, unload |-> unload]
    /\ num_vfs' = 0
    /\ UNCHANGED <<loaded, pci_vfs, assigned, sriov_enabled, vfinfo, mv_list,
                   mvs_head, vf_refs, live, size, rd>>

\* ixgbe_pci_sriov_disable, reached from a sysfs write of 0 while VFs
\* exist; its -EINVAL for no VFs at all cannot happen then.
PciSriovDisable ==
    /\ loaded /\ dis = DisIdle
    /\ pci_vfs # 0
    /\ ~(num_vfs = 0 /\ pci_vfs = 0)
    /\ DisableStart(FALSE)

(***************************************************************************)
(* The rest of ixgbe_disable_sriov: put the references of vfinfo[0..n-1]  *)
(* for the local n, kfree vfinfo and mv_list (vf_mvs.l is left as it      *)
(* is), return 0 if SR-IOV was not enabled, return -EPERM with the flag   *)
(* still set if a VF is assigned, else pci_disable_sriov and clear the    *)
(* flag.  ixgbe_pci_sriov_disable then reinitialises the device, which    *)
(* changes nothing modelled here.  On the remove path the adapter itself  *)
(* is freed afterwards.                                                   *)
(***************************************************************************)
\* The blocks left allocated by kfree(vfinfo) and kfree(mv_list).
KfreeTables == live \ {vfinfo, mv_list}

\* IXGBE_FLAG_SRIOV_ENABLED after ixgbe_disable_sriov: cleared only on the
\* path that reaches pci_disable_sriov (torn), after the -EPERM return.
FlagKeptClearedEarly(torn) == FALSE

FlagKept(torn) == sriov_enabled /\ ~torn

DisableFinish ==
    /\ dis # DisIdle
    /\ LET torn == sriov_enabled /\ ~assigned
       IN /\ pci_vfs' = IF torn THEN 0 ELSE pci_vfs
          /\ IF dis.unload
               THEN /\ loaded' = FALSE
                    /\ FreshAdapter
               ELSE /\ vf_refs' = PutVfRefs(dis.n)
                    /\ vfinfo' = Null
                    /\ mv_list' = Null
                    /\ sriov_enabled' = FlagKept(torn)
                    /\ UNCHANGED <<loaded, num_vfs, mvs_head>>
    /\ live' = KfreeTables
    /\ dis' = DisIdle
    /\ UNCHANGED <<assigned, size, rd>>

(***************************************************************************)
(* Driver load: a fresh adapter, then ixgbe_enable_sriov for the max_vfs  *)
(* parameter mv.  With no VFs and mv = 0 it returns.  VFs that already    *)
(* exist force their count; otherwise min(mv, 63) VFs are created with    *)
(* pci_enable_sriov, and nothing else happens when that fails.  When      *)
(* __ixgbe_enable_sriov succeeds ixgbe_get_vfs follows; when it fails     *)
(* ixgbe_disable_sriov runs (no reader exists yet during probe): it frees *)
(* nothing, and removes the VFs unless one is assigned.                   *)
(***************************************************************************)
Probe ==
    /\ ~loaded
    /\ loaded' = TRUE
    /\ \E mv \in MaxVfsInputs, vi \in Kcalloc("vfinfo", live), ok \in PciEnableOk :
         LET n == IF pci_vfs > 0 THEN pci_vfs
                  ELSE IF mv < MaxVfsDrvLimit THEN mv ELSE MaxVfsDrvLimit
             creates == pci_vfs > 0 \/ (mv > 0 /\ ok)
         IN \/ /\ ~creates
               /\ FreshAdapter
               /\ UNCHANGED <<pci_vfs, live, size>>
            \/ /\ creates /\ vi # Null
               /\ pci_vfs' = n
               /\ \E ml \in Kcalloc("mv_list", live \cup {vi}) :
                    EnableSriov(n, vi, ml, GetVfs(n), Null, Empty)
            \/ /\ creates /\ vi = Null
               /\ sriov_enabled' = assigned
               /\ pci_vfs' = IF assigned THEN pci_vfs ELSE 0
               /\ num_vfs' = 0 /\ vfinfo' = Null /\ mv_list' = Null
               /\ mvs_head' = Empty /\ vf_refs' = 0
               /\ UNCHANGED <<live, size>>
    /\ UNCHANGED <<assigned, dis, rd>>

\* Driver unload: the remove path calls ixgbe_disable_sriov while the
\* mailbox interrupt and the netdev are still registered.
Remove ==
    /\ loaded /\ dis = DisIdle
    /\ DisableStart(TRUE)

(***************************************************************************)
(* Readers of the record table.  ixgbe_msg_task returns when vfinfo is    *)
(* NULL and handles VF vf for each vf < num_vfs; an ndo_set_vf_* setter   *)
(* returns -EINVAL unless vf < num_vfs.  Neither takes a lock that        *)
(* ixgbe_disable_sriov holds.  ReaderUse is the handler's use of          *)
(* adapter->vfinfo[vf] after the check, as in ixgbe_ndo_set_vf_trust; its *)
(* effect on the record is modelled by VfMailbox.                         *)
(* The properties tell indices apart only by vf < size, so a reader is    *)
(* given the extreme indices 0 and num_vfs - 1; the ndo setter also gets  *)
(* -1, as its int vf comes from a netlink request.                        *)
(***************************************************************************)
MsgTaskCheck(vf) ==
    /\ loaded
    /\ rd["msg_task"] = {}
    /\ vfinfo # Null
    /\ vf < num_vfs
    /\ rd' = [rd EXCEPT !["msg_task"] = {vf}]
    /\ UNCHANGED <<loaded, pci_vfs, assigned, sriov_enabled, num_vfs, vfinfo,
                   mv_list, mvs_head, vf_refs, live, size, dis>>

NdoCheck(vf) ==
    /\ loaded
    /\ rd["ndo"] = {}
    /\ vf >= 0 /\ vf < num_vfs
    /\ rd' = [rd EXCEPT !["ndo"] = {vf}]
    /\ UNCHANGED <<loaded, pci_vfs, assigned, sriov_enabled, num_vfs, vfinfo,
                   mv_list, mvs_head, vf_refs, live, size, dis>>

ReaderUse(r) ==
    /\ rd[r] # {}
    /\ rd' = [rd EXCEPT ![r] = {}]
    /\ UNCHANGED <<loaded, pci_vfs, assigned, sriov_enabled, num_vfs, vfinfo,
                   mv_list, mvs_head, vf_refs, live, size, dis>>

\* A hypervisor assigns a VF to a guest, or releases it.
GuestAssign ==
    /\ pci_vfs > 0 /\ ~assigned
    /\ assigned' = TRUE
    /\ UNCHANGED <<loaded, pci_vfs, sriov_enabled, num_vfs, vfinfo, mv_list,
                   mvs_head, vf_refs, live, size, dis, rd>>

GuestRelease ==
    /\ assigned
    /\ assigned' = FALSE
    /\ UNCHANGED <<loaded, pci_vfs, sriov_enabled, num_vfs, vfinfo, mv_list,
                   mvs_head, vf_refs, live, size, dis, rd>>

Init ==
    /\ loaded = FALSE
    /\ pci_vfs = 0
    /\ assigned = FALSE
    /\ sriov_enabled = FALSE
    /\ num_vfs = 0
    /\ vfinfo = Null
    /\ mv_list = Null
    /\ mvs_head = Empty
    /\ vf_refs = 0
    /\ live = {}
    /\ size = [b \in Heap |-> 0]
    /\ dis = DisIdle
    /\ rd = [r \in Readers |-> {}]

Next ==
    \/ \E n \in VfCounts : PciSriovEnable(n)
    \/ PciSriovDisable
    \/ DisableFinish
    \/ Probe
    \/ Remove
    \/ \E vf \in {i \in {0, num_vfs - 1} : i >= 0} : MsgTaskCheck(vf)
    \/ \E vf \in {-1, 0, num_vfs - 1} : NdoCheck(vf)
    \/ \E r \in Readers : ReaderUse(r)
    \/ GuestAssign
    \/ GuestRelease

Spec == Init /\ [][Next]_vars

-----------------------------------------------------------------------------
Blocks == Heap \cup {Null}

TypeOK ==
    /\ loaded \in BOOLEAN /\ assigned \in BOOLEAN /\ sriov_enabled \in BOOLEAN
    /\ pci_vfs \in 0..64 /\ num_vfs \in 0..64 /\ vf_refs \in 0..64
    /\ vfinfo \in Blocks /\ mv_list \in Blocks
    /\ mvs_head \in Heap \cup {Empty}
    /\ live \subseteq Heap
    /\ size \in [Heap -> Nat]
    /\ dis \in {DisIdle} \cup [n : 0..64, unload : BOOLEAN]
    /\ rd \in [Readers -> SUBSET (0..63)]
    /\ \A r \in Readers : Cardinality(rd[r]) <= 1

(***************************************************************************)
(* A VF index below num_vfs is always backed by a live record table big   *)
(* enough for it: __ixgbe_enable_sriov sets num_vfs only after vfinfo is  *)
(* allocated, and ixgbe_disable_sriov zeroes it before freeing, across    *)
(* failed table allocations, -EPERM and reloads.                          *)
(***************************************************************************)
NumVfsBacked ==
    num_vfs > 0 => vfinfo \in live /\ num_vfs <= size[vfinfo]

(***************************************************************************)
(* VF device references (ixgbe_get_vfs) are held only while the VF        *)
(* devices exist and are reachable from the live record table:            *)
(* ixgbe_disable_sriov puts them all before it frees vfinfo and before    *)
(* pci_disable_sriov destroys the devices.                                *)
(***************************************************************************)
RefsBalanced ==
    /\ vf_refs <= pci_vfs
    /\ vf_refs > 0 => vfinfo \in live /\ vf_refs <= size[vfinfo]

(***************************************************************************)
(* While VFs exist, the loaded driver has IXGBE_FLAG_SRIOV_ENABLED set:   *)
(* the flag is what lets a later ixgbe_disable_sriov reach               *)
(* pci_disable_sriov, so clearing it with VFs left would make them        *)
(* impossible to remove.  This covers the -EPERM path for assigned VFs    *)
(* and a reload with VFs left behind.                                     *)
(***************************************************************************)
SriovFlagCoversVfs ==
    loaded /\ pci_vfs > 0 => sriov_enabled

(***************************************************************************)
(* A reader that passed its num_vfs check uses a live record table that   *)
(* holds its VF: the checks of ixgbe_msg_task and the ndo setters are     *)
(* enough to keep them off freed or reallocated records.                  *)
(***************************************************************************)
CheckedRecordLive ==
    \A r \in Readers :
        \A vf \in rd[r] : vfinfo \in live /\ vf < size[vfinfo]
=============================================================================
