# TLA+ models of the ixgbe SR-IOV control plane

This directory holds TLA+ models of the PF side of SR-IOV in
`src/src/ixgbe_sriov.c`, together with the TLC configurations that check
them. The PF driver virtualises one NIC into VFs. It owns three things:

- the VF table and its lifecycle;
- a mailbox protocol through which each VF, an untrusted peer, negotiates
  and requests configuration;
- enforcement of the policy the administrator sets: MAC ownership, trust,
  anti-spoofing, receive modes, link state, VLANs and rate limits.

`PROJECT.json` lists the components, the runs, the mutants, the map from
each definition to the source lines it models, the findings and the hazards.

## 1. The system: inventory

### Components and how they interact

| Component | Code | State it owns | Operations |
|---|---|---|---|
| Lifecycle | `__ixgbe_enable_sriov`, `ixgbe_enable_sriov`, `ixgbe_disable_sriov`, `ixgbe_pci_sriov_*`, `ixgbe_alloc_vf_macvlans`, `ixgbe_get_vfs` | `num_vfs`, `vfinfo[]`, `mv_list` / `vf_mvs` | enable, disable (may end Busy), configure |
| Mailbox engine | `ixgbe_msg_task`, `ixgbe_rcv_msg_from_vf`, `ixgbe_rcv_ack_from_vf`, `ixgbe_vf_reset_event`, `ixgbe_vf_reset_msg`, `ixgbe_ping_vf`, `ixgbe_ping_all_vfs` | `clear_to_send`, the mailbox (REQ, ACK, VFLR indications, buffer) | VFLR service, message dispatch, ack, RESET handshake |
| MAC / MAC-VLAN policy | `ixgbe_set_vf_mac`, `ixgbe_set_vf_mac_addr`, `ixgbe_set_vf_macvlan(_msg)` | `vf_mac_addresses`, `pf_set_mac`, RAR table, slot list, anti-spoof bits | SET_MAC_ADDR, SET_MACVLAN |
| Receive-mode policy | `ixgbe_set_vf_multicasts`, `ixgbe_restore_vf_multicasts`, `ixgbe_set_vmolr`, `ixgbe_update_vf_xcast_mode` | `num_vf_mc_hashes`, `xcast_mode`, VMOLR | SET_MULTICAST, UPDATE_XCAST_MODE, PF rx-mode change |
| Frame size, API, queries | `ixgbe_set_vf_lpe`, `ixgbe_negotiate_vf_api`, `ixgbe_get_vf_queues/reta/rss_key/link_state` | `vf_api`, VFRE, MAXFRS | SET_LPE, API_NEGOTIATE, GET_* |
| MDD | `ixgbe_check_mdd_event` | `clear_to_send` of flagged VFs | MDD event |
| Admin setters | `ixgbe_ndo_set_vf_trust/_mac/_spoofchk/_link_state/_rss_query_en`, `ixgbe_set_vf_link_state`, `ixgbe_set_all_vfs`, `ixgbe_ndo_get_vf_config` | `trusted`, `spoofchk_enabled`, `link_state`, `link_enable`, `rss_query_enabled`, VFTE/VFRE | one per setter |
| VLAN | `ixgbe_set_vf_vlan`, `ixgbe_clear_vf_vlans`, `ixgbe_set_vf_vlan_msg`, `ixgbe_ndo_set_vf_vlan`, port VLAN, VMVIR | VLVF/VFTA pool bits, `pf_vlan`, `pf_qos` | SET_VLAN, admin VLAN |
| Rate limit | `ixgbe_ndo_set_vf_bw`, `ixgbe_set_vf_rate_limit`, `ixgbe_check_vf_rate_limit` | `tx_rate`, RTTBCNRC | admin rate, link-speed change |

These components interact as follows:

- `ixgbe_msg_task` runs from the mailbox interrupt. On each pass it does
  three things for every VF, in this order:
  1. it services a pending VFLR;
  2. it services a pending request;
  3. it services a pending ack.
- The VFs write requests, and trigger function-level resets, whenever they
  like. They are untrusted.
- The administrator's `ndo_set_vf_*` calls run in process context. They
  change the same records and tables the handlers change.
- Several setters (trust, link state, MDD) clear `clear_to_send` and ping
  the VF. The VF must then repeat the RESET handshake.
- `clear_to_send` is the gate every non-RESET request goes through.
- The RAR filter table is shared by the PF, every VF's primary address and
  the MAC-VLAN slot list. `ixgbe_alloc_vf_macvlans` sizes the slot list so
  that every VF keeps room for its primary address.

- The lifecycle (sysfs `sriov_numvfs`, driver load with `max_vfs`, unload)
  allocates and frees `vfinfo` and `mv_list` while the message task and
  the setters read them. Readers check `vf < num_vfs`, and disable zeroes
  `num_vfs` before it frees. No lock is taken.
- The VLAN filter tables (VLVF, VLVFB, VFTA) are shared by every VF and by
  the PF's own VLANs. A VF's reset, SET_VLAN and the admin's port VLAN all
  edit them.
- A VF's transmit rate (`tx_rate`) lives in its `vfinfo` record, so the
  lifecycle creates and destroys it. The RTTBCNRC registers that enforce it
  outlive the record. `vf_rate_link_speed` is one value for the whole
  adapter. The PF watchdog (`ixgbe_main.c`) calls
  `ixgbe_check_vf_rate_limit`, which walks `num_vfs` with no lock against
  disable.

### Hard behaviours (hazards)

`PROJECT.json` lists each hazard at the line where it bites, with the
properties that cover it. The main ones:

- A VFLR keeps `clear_to_send`. The reset tears filters down while the VF
  may still configure (line 1462).
- The admin setter and the interrupt-driven handler interleave on the same
  record (line 1556).
- `ixgbe_set_vf_mac` deletes before it adds, so a failed add leaves the VF
  with no filter (line 822).
- The RAR reservation arithmetic can be off by one (line 29).
- Anti-spoofing is switched off before the slot search, so it stays off
  when the search fails (line 1068).
- `xcast_mode` and VMOLR stay stale after trust is revoked (line 1228).
- The MDD ping sets CTS while `clear_to_send` is false (line 1438).
- An X550 VFLR zeroes a pending message (line 811).
- Some requests are lost without a reply: a read error (line 1305) and an
  oversize LPE (line 1343).
- The multicast count must be clamped (line 427).
- VLAN entries are shared: one VF's reset or removal must not take a VLAN
  from another VF or from the PF (lines 500, 656, 677, 494). Clearing a
  port VLAN removes it from the VF's pool even when the VF had added that
  VLAN itself, and the VF is not told (line 1628).
- The lifecycle has these hazards:
  - `num_vfs` is zeroed and the tables are freed with no wait for readers
    (line 238);
  - the order of allocation and count (line 80);
  - the reference puts against the saved count (line 241);
  - the -EPERM path for assigned VFs (line 270);
  - the freed slot list left linked (line 255);
  - the tables left allocated when `pci_enable_sriov` fails (line 369);
  - the NULL `kcalloc` result stored over `vfinfo` while `num_vfs` still
    holds that failed enable's count (line 69).
- Rate limiting has these hazards:
  - the shift, division and mask of the rate factor (line 1716);
  - the adapter-wide speed going stale after a link change (line 1762);
  - a `tx_rate` zeroed after rather than before reprogramming (line 1770);
  - registers that outlive `vfinfo` (line 367);
  - the watchdog loop racing disable (line 1768);
  - the watchdog and `ndo_set_vf_bw` programming the same VF at once: one
    reads `tx_rate` (line 1708) and writes last (a lost update), or their
    RTTDQSEL select and RTTBCNRC write pairs interleave (line 1749).

## 2. Modules

There are four detailed specifications and one abstract one. Each
detailed specification has an MC module that gives its constants values
for TLC:

| Module | MC module | Part of the code |
|---|---|---|
| `VfMailbox.tla` | `MCVfMailbox.tla` | mailbox engine, MAC / MAC-VLAN / receive-mode policy, LPE and API, MDD, admin setters |
| `VfVlan.tla` | `MCVfVlan.tla` | VLAN pool filters, VFTA, SET_VLAN, VF reset of VLANs, port VLAN, PF VLANs |
| `SriovLifecycle.tla` | `MCSriovLifecycle.tla` | enable, disable, probe, remove, configure, and the readers' `num_vfs` check |
| `VfRateLimit.tla` (extends `SriovLifecycle`) | `MCVfRateLimit.tla` | `ixgbe_ndo_set_vf_bw`, `ixgbe_set_vf_rate_limit`, `ixgbe_check_vf_rate_limit`, composed with the lifecycle |
| `VfTxCap.tla` (abstract) | none; instanced by `VfRateLimit` | the rate-limiting policy of spec section 4 |

Apart from `VfRateLimit`, the modules share no variables. Each one starts where the others leave the
system, as follows:

- `VfMailbox` and `VfVlan` start from the state `__ixgbe_enable_sriov`
  leaves behind.
- `SriovLifecycle` abstracts each VF record to its index and its
  allocation. The races of the lifecycle with the message task are
  expressed through a check step and a use step for each reader.

### `VfMailbox.tla`: mailbox engine, MAC/receive-mode policy, admin setters

**State.** The variables correspond to the code as follows:

| Variable | Code |
|---|---|
| `vfinfo` | `adapter->vfinfo[]`, keeping the fields the handlers read or write |
| `vmolr` | the VMOLR bits of each pool, as a set of bit names |
| `antispoof` | each VF's MAC/VLAN anti-spoof enable |
| `vfte`, `vfre`, `maxfrs` | the registers of the same names |
| `rar` | the VF entries of the RAR table, as a bag of `<<address, pool>>` |
| `mv_list` | the MAC-VLAN slots, in list order |
| `mbx_req`, `mbx_rst`, `mbx_ack`, `mbx_out` | the mailbox: a pending request (REQ), a pending VFLR, an ack, and the PF's last message |

Addresses are model values. `ZeroMac` is the all-zero address and
`McastMac` stands for an address that is not a valid unicast address.

**Actions.** There is one action per handler or setter. Each one takes the
handler's guards from its early returns and includes every state-changing
call the handler makes:

- `VfResetMsg` includes `ixgbe_vf_reset_event`, the re-add through
  `ixgbe_set_vf_mac`, `ixgbe_set_vf_rx_tx` and the reply.
- `SetVfMulticasts` includes the MTA re-sync that
  `ixgbe_write_mc_addr_list` does through `ixgbe_restore_vf_multicasts`.
- `Dispatch` is the frame shared by every dispatched handler: the
  `clear_to_send` check, the removal of the request, and the CTS-tagged
  SUCCESS or FAILURE answer.
- `RcvMsgReadError` is the path on which `ixgbe_read_mbx` fails. It is
  enabled only when `MbxFaults` contains `"read_mbx"`.

The VF side (`VfSend`, `VfFlr`, `VfReadReply`) and the admin scheduling
(`AdminStep`) are outside the PF driver. They are modelled from the
specification.

**Scenario constants.** The constants `VfOps` and `AdminOps` select the
request kinds and the setters each run enables. `MbxFaults` selects the
transport faults. This keeps each run focused on one question and small
enough for TLC.

**The MC module.** `MCVfMailbox.tla` gives the constants their values:

- two VFs (`MCVFs`), or one (`MCOneVF`) where all state is per VF;
- two addresses;
- a RAR table of 5 entries with one PF macvlan, which leaves exactly one
  MAC-VLAN slot (`PoolSize = 1`);
- `MaxMcEntries = 1`, so that a request for 2 entries is truncated;
- frames of 1518, 9018 and 9729 bytes, which cover standard, jumbo and
  over-limit sizes.

Symmetry over VFs and over addresses is sound because no operator orders
them.

### `VfVlan.tla`: VLAN filtering and port VLAN

**State.**

| Variable | Code |
|---|---|
| `hw.vlvf`, `hw.vlvfb`, `hw.vfta` | VLVF(i), the VLVFB pool bitmap of entry i, and the VFTA |
| `active_vlans` | `adapter->active_vlans`, the PF's own VLANs |
| `vlan_promisc` | `IXGBE_FLAG2_VLAN_PROMISC`, chosen in `Init` and kept for the whole behaviour |
| `pf_vlan`, `pf_qos`, `vmvir` | `vfinfo[].pf_vlan`, `vfinfo[].pf_qos`, VMVIR(vf) |
| `wanted` | history: the VLANs each VF added by SET_VLAN and still holds; a reset or a port VLAN change starts it afresh. `ndo_set_vf_vlan` sends the VF no message, so a VF VLAN removed by a port VLAN change is not counted (hazard at line 1628) |
| `added` | history: the same, but only a reset starts it afresh |

**Actions.**

- `VfSetVlanMsg` models `ixgbe_set_vf_vlan_msg`, with the port-VLAN
  refusal, `ixgbe_set_vf_vlan` and the PF-entry join.
- `VfResetVlans` models the VLAN part of `ixgbe_vf_reset_event`:
  `ixgbe_clear_vf_vlans` and the port VLAN re-add.
- `NdoSetVfVlan` models `ixgbe_ndo_set_vf_vlan` with its range checks and
  the enable, replace and disable paths of the port VLAN.
- `PfAddVid` and `PfKillVid` model the PF's own VLANs.

The table primitives `set_vfta` and `find_vlvf_slot` live in
`ixgbe_common.c`, which is not in this repository. They are modelled from
the generic implementation's contract and marked `spec_modelled` in the
map. A table operation returns `[h |-> tables, err |-> failed]`, which the
next step receives as an argument.

**The MC module.** `MCVfVlan.tla` uses two VFs that request VLANs 0 to 2,
with VLAN 1 available to the PF. The VLVF table has three entries: entry 0
serves VLAN 0, which leaves two more. The table can therefore fill up, and
a port VLAN 3 set by the administrator can then find no entry. VLAN 3 is
kept out of the VFs' requests (`VfVlanInputs`), because a fourth VLAN
there multiplies the state space by seven and adds no case. The admin
inputs include out-of-range values (VLAN 4095, qos 8). Symmetry over the
VFs is sound.

### `SriovLifecycle.tla`: enable, disable and their readers

**State.**

| Variable | Code |
|---|---|
| `loaded` | the driver is bound (between probe and remove) |
| `pci_vfs` | the VFs the PCI core has created (`pci_num_vf`) |
| `assigned` | a guest holds a VF (`pci_vfs_assigned`) |
| `sriov_enabled` | `IXGBE_FLAG_SRIOV_ENABLED` |
| `num_vfs`, `vfinfo`, `mv_list`, `mvs_head` | `adapter->num_vfs`, `adapter->vfinfo`, `adapter->mv_list`, the head `adapter->vf_mvs.l` |
| `vf_refs` | the VF device references `ixgbe_get_vfs` took |
| `live`, `size` | the heap: allocated blocks and their element counts |
| `dis` | an `ixgbe_disable_sriov` in progress: the count it saved, and whether it came from remove |
| `rd` | for each reader (message task, ndo setter), the VF index it checked and has not used yet |

The heap is a set of model-value blocks. `Kcalloc` returns a free block or
`NULL`. With a heap, a leak, a dangling pointer and a use after free are
each a state that TLC can reach.

**Actions.**

- `PciSriovEnable` models `ixgbe_pci_sriov_enable` with the TC and driver
  caps and its failure paths: no memory, and `pci_enable_sriov` failing.
- `EnableSriov` models `__ixgbe_enable_sriov` with
  `ixgbe_alloc_vf_macvlans` and `ixgbe_get_vfs`.
- `PciSriovDisable` and `DisableStart` cover the part of
  `ixgbe_disable_sriov` up to zeroing `num_vfs`. `DisableFinish` is the
  rest: the reference puts, the frees, and the -EPERM path for an assigned
  VF.
- `Probe` and `Remove` model `ixgbe_enable_sriov` with `max_vfs`, and the
  unload path.
- `MsgTaskCheck`, `NdoCheck` and `ReaderUse` model a reader: its
  `vf < num_vfs` check (`ixgbe_msg_task`, `ixgbe_ndo_set_vf_*`) and its
  later access to `vfinfo[vf]`.
- `GuestAssign` and `GuestRelease` model the environment.

The PCI core is also modelled as environment. `sriov_numvfs` calls
configure with `n > 0` only when no VFs exist, and with 0 only when VFs
exist. The device lock serialises probe, remove and configure, so a
disable is never interleaved with another lifecycle step, only with
readers.

**The MC module.** `MCSriovLifecycle.tla` uses the following values:

- a heap of three blocks, enough for a live `vfinfo` and `mv_list` plus
  one more, so that a leak or a reuse is visible;
- VF counts 1 and 2, and `max_vfs` 0 and 1;
- the real RAR values, 128 entries with 15 PF macvlans, so that a
  MAC-VLAN list is allocated;
- one TC.

Readers use only the extreme indices 0 and `num_vfs - 1`, plus -1 for an
ndo call, because the properties compare an index only with sizes.
Symmetry over the heap blocks is sound.

### `VfRateLimit.tla`: transmit rate limits over the lifecycle

`VfRateLimit` EXTENDS `SriovLifecycle`. This is needed because `tx_rate`
is a field of the records whose table the lifecycle allocates and frees.
`RateNext` combines two kinds of step:

- each lifecycle step, together with what it does to the rate state;
- the rate-limit steps.

**State.**

| Variable | Code |
|---|---|
| `link_up`, `link_speed` | `adapter->link_up`, `adapter->link_speed` (an `IXGBE_LINK_SPEED_*` code) |
| `vf_rate_link_speed` | `adapter->vf_rate_link_speed` |
| `tx_rate[i]` | `adapter->vfinfo[i].tx_rate` |
| `bcnrc[i]` | the RTTBCNRC value of VF `i`'s Tx queues |

A register value is a record `[rs_ena, bits]`. Bit 31 (`RS_ENA`) is kept
apart from the other bits because TLC's integers are signed 32-bit.

**Operators and actions.**

- `LinkMbps` is `ixgbe_link_mbps`.
- `BcnrcVal` is the u32 arithmetic of `ixgbe_set_vf_rate_limit`: the speed
  is shifted left 14 bits, divided by the rate with truncation, and masked
  to the rate-factor fields. `Masked` is the mask; an ASSUME checks that
  the mask equals `2^28 - 1`, so masking is a remainder by `2^28`. The
  shift cannot wrap: another ASSUME checks that no speed reaches `2^18`.
- `SetVfRateLimit` writes that value for one VF. Every queue of the pool
  gets the same value, so one value stands for the pool. RTTBCNRM holds no
  per-VF state and is left out.
- `NdoSetVfBw` has the guards of `ixgbe_ndo_set_vf_bw`: the VF index, the
  link being up at 10 Gb/s, and a rate of 0 or 11..10000. It records the
  speed and the rate, then programs the VF.
- `CheckVfRateLimit` is the whole of `ixgbe_check_vf_rate_limit`. It
  returns when no rate is set. If the link speed changed, it forgets the
  speed, zeroes each `tx_rate` and then reprograms every VF below
  `num_vfs`.
- `LinkChange` is the watchdog in `ixgbe_main.c` recording a new link
  state. It is environment.
- `TableRenewed` is how a lifecycle step affects the rate state. A new
  `vfinfo` from `kcalloc` has zero rates, and `ixgbe_pci_sriov_enable`
  calls `ixgbe_sriov_reinit` ("reset before enabling SRIOV"), which
  resets the device and so clears RTTBCNRC. `Probe` also starts from a
  zeroed adapter and a reset device.

**Assumption.** The model takes `ixgbe_sriov_reinit` to clear the
registers; its body is in `ixgbe_main.c`. Without that reset, a disable
followed by a re-enable leaves the old limits on VFs that report none, and
`TxCapRefined` fails.

**The abstract specification, `VfTxCap`.** It follows spec section 4:

- each VF has a cap, where 0 means unlimited;
- one VF's cap is set at a time, only at the maximum link speed, and only
  to 0 or 11..maximum;
- the caps are tied to the speed they were set at, and may all be dropped
  together once the link speed differs;
- otherwise caps vanish only with the VF table or the driver.

`SetCap` states the new cap by membership in `[VfIdx -> ValidCaps]`, so
the refinement check does not enumerate the 10,000 valid values.

**Refinement mapping.**

| `VfTxCap` | `VfRateLimit` |
|---|---|
| `present` | `loaded` |
| `vfs` | `num_vfs` |
| `cap[i]` | the rate `bcnrc[i]` enforces at `vf_rate_link_speed` (`EnforcedRate`), 0 for `i >= num_vfs` |
| `capSpeed` | `vf_rate_link_speed` |
| `speed` | `LinkMbps(link_speed)` |

The caps are therefore what the hardware enforces, not what the driver
records. The refinement is a statement about the registers.

**The MC module.** `MCVfRateLimit.tla` reuses the lifecycle's bounds and
adds the following:

- link speeds: unknown, 1 Gb/s and 10 Gb/s;
- the rates 0, 10, 11, 3000, 10000 and 10001, which are both edges of the
  accepted range, a value inside it, and a value just outside each edge;
- an ASSUME that checks the round trip `EnforcedRate(BcnrcVal(10000, r)) = r`
  for every accepted rate 11..10000, so the arithmetic is checked over its
  whole domain and not only at the enumerated inputs.

The administrator uses the VF indices -1, 0 and `num_vfs - 1`, as the
other readers do.

## 3. Runs

| Run | Module | cfg | Expect | Checks |
|---|---|---|---|---|
| mac_filters | `MCVfMailbox` | `VfMacFilters.cfg` | pass | `PrimaryFilterFits`, `RarAccounted`, `PinnedMacHeld` |
| xcast_trust | `MCVfMailbox` | `VfXcastTrust.cfg` | pass | `UntrustedNoEscalation` |
| cts_gate | `MCVfMailbox` | `VfCtsGate.cfg` | pass (FairSpec) | `TypeOK`, `RequestAnswered` |
| flr_keeps_cts | `MCVfMailbox` | `VfResetCts.cfg` | violation | `MacFilterWhileCts` |
| trust_revoke | `MCVfMailbox` | `VfTrustRevoke.cfg` | violation | `UntrustedNotPromisc` |
| mdd_ping | `MCVfMailbox` | `VfMddPing.cfg` | violation | `PingEchoesCts` |
| macvlan_spoof | `MCVfMailbox` | `VfMacvlanSpoof.cfg` | violation | `SpoofchkReported` |
| lpe_no_reply | `MCVfMailbox` | `VfLpeNoReply.cfg` | violation (FairSpec) | `RequestAnswered` |
| vlan_sharing | `MCVfVlan` | `VfVlanSharing.cfg` | pass | `TypeOK`, `VfVlansKept`, `EntriesInVfta`, `PfEntryKept`, `PortVlanInstalled`, `PortVlanConfines` |
| pf_vlan_visible | `MCVfVlan` | `VfVlanPfVisible.cfg` | violation | `PfVlanVisible` |
| lifecycle | `MCVfRateLimit` | `VfRateLimit.cfg` | pass | `NumVfsBacked`, `RefsBalanced`, `SriovFlagCoversVfs`, `ReportedRateEnforced`, `TxCapRefined` |
| disable_race | `MCSriovLifecycle` | `SriovDisableRace.cfg` | violation | `CheckedRecordLive` |

### Passing runs

**mac_filters.** Two VFs compete for the single slot. They reset, set
addresses, add and clear MAC-VLANs and FLR, while the administrator pins
and clears addresses. The run checks three things:

- `PrimaryFilterFits`: the RAR table always keeps room for the primary
  address of every VF that has none installed.
- `RarAccounted`: every VF entry is accounted for by a primary address or
  a slot.
- `PinnedMacHeld`: no request of an untrusted VF moves a pinned address,
  not even through a failed filter add.

The VFs never read their mailbox in this run, so nothing reads `mbx_out`,
`mbx_ack`, `vfte`, `vfre` or `maxfrs`. The view `MCFilterView` leaves those
variables out.

**xcast_trust.** One VF negotiates API versions, sends xcast modes 0 to 4
and sends MAC requests. Meanwhile the administrator toggles trust and pins
addresses. No request of an untrusted VF turns on MPE, UPE or VPE. The
pinned-address check is `PinnedMacHeld` of mac_filters, which runs the same
MAC requests against the same administrator steps.

**cts_gate.** The run uses an 82599 with a standard PF frame, so the legacy
LPE rules and the RSS-query setter apply. All the remaining request kinds
occur: the queries, SET_MULTICAST, SET_LPE, TAGGED and UNKNOWN. So do FLRs,
reads and acks, MDD events, link changes, pings, rx-mode changes and the
spoofchk and RSS setters. The run checks two things:

- `TypeOK`, whose bound on `num_vf_mc_hashes` is what the clamp of
  `ixgbe_set_vf_multicasts` to `IXGBE_MAX_VF_MC_ENTRIES` guarantees
  (line 427).
- `RequestAnswered`, under `FairSpec`: every request the VF posts into an
  empty mailbox is eventually answered, however resets, FLRs, MDD events
  and the administrator interleave. Frames here stay within the jumbo
  limit and there are no read faults.

**vlan_sharing.** Two VFs add, remove and reset VLANs, the administrator
sets, replaces and clears port VLANs, and the PF joins and leaves VLAN 1.
This happens with VLAN promiscuity both off and on. The run reaches
69,338 distinct states. It checks five things:

- `VfVlansKept`: a VLAN a VF added and still holds stays in its pool.
- `EntriesInVfta`: every enabled entry with pools has its VFTA bit.
- `PfEntryKept`: an entry of a PF VLAN keeps the PF pool while a VF uses
  it.
- `PortVlanInstalled`: a VF whose record names a port VLAN is in that
  VLAN's filter and tagged with it, and a VF with no port VLAN and no
  priority is untagged. Two failure paths reach this. A join can find no
  free entry (line 1597). A replacement can fail after the old port VLAN
  is gone (line 1675), which leaves the VF untagged on VLAN 0.
- `PortVlanConfines`: a VF under a port VLAN is in the filter of no VLAN
  other than its port VLAN and the VLANs it added itself since its last
  reset. `ndo_set_vf_vlan` does not remove the VF's own VLANs and does not
  ping the VF, so these stay until the VF resets (line 1597). Everything
  else must be gone: VLAN 0, a port VLAN that was replaced, and VLANs the
  PF or the other VF use.

**lifecycle.** The run checks `VfRateLimit`, which contains the whole
lifecycle. It covers:

- sysfs enable and disable;
- driver load with `max_vfs`, and unload;
- guests assigning and releasing VFs;
- failed `vfinfo` allocations;
- readers checking and using VF records;
- rates set by the administrator, link changes and watchdog passes.

The run reaches 200,910 distinct states in about 40 seconds. It checks
five things:

- `NumVfsBacked`: `num_vfs` is always backed by a live table that large.
- `RefsBalanced`: the VF references are put before the table is freed and
  the devices destroyed.
- `SriovFlagCoversVfs`: VFs never outlive the SR-IOV flag, including on
  the -EPERM path and across a reload.
- `ReportedRateEnforced`: the rate `ndo_get_vf_config` reports for a VF is
  the rate its registers enforce. This holds through the rate arithmetic,
  link changes, watchdog passes and table renewals.
- `TxCapRefined`: the registers implement `VfTxCap`. No step sets an
  invalid cap, sets a cap on one VF while changing another's, or drops
  caps while the link still runs at the speed they were set at.

Two faults are left out of this run:

- The `mv_list` allocation fault. With it the run takes close to five
  minutes without coverage. The code then keeps `vf_mvs.l` linked into the
  array freed by the previous disable whenever a re-enable's `mv_list`
  allocation fails (hazard at line 255).
- The `pci_enable_sriov` fault. The code breaks `NumVfsBacked` under it,
  and TLC finds the violation in three steps: load, an enable of one VF
  whose `pci_enable_sriov` fails, and an enable of two VFs whose `vfinfo`
  `kcalloc` fails. The failed enable left `num_vfs` at 1 and both tables
  allocated. The `kcalloc` at line 69 stores NULL over `vfinfo` and
  returns before `num_vfs` is written, so an ndo setter passes its
  `vf < num_vfs` check and indexes a NULL table. The old `vfinfo` and
  `mv_list` are leaked (hazards at lines 69 and 369).

These are recorded under the hazards. The violation runs are kept for the
findings below.

### Violation runs and what they show

**flr_keeps_cts.** A VFLR serviced by `ixgbe_vf_reset_event` deletes the
VF's filter but leaves `clear_to_send` set. The specification requires
`clear_to_send` to be false while a reset is outstanding.

**trust_revoke.** A trusted VF goes promiscuous. When trust is revoked and
the VF re-handshakes, nothing clears VMOLR.MPE/UPE or `xcast_mode`.

**mdd_ping.** The MDD handler clears `clear_to_send`, then pings the VF
with CTS set. `ixgbe_ping_vf` would not set CTS.

**macvlan_spoof.** After a MAC-VLAN request, anti-spoofing is off, even
when the request failed or the filters were cleared. `get_vf_config` still
reports spoofchk on.

**lpe_no_reply.** A SET_LPE request above `IXGBE_MAX_JUMBO_FRAME_SIZE`
returns -EINVAL before the common tail that writes the FAILURE reply. The
request is consumed, and the VF waits for an answer that never comes.
This happens even under the message task's fairness.

**pf_vlan_visible.** The PF joins a VLAN that no VF uses with the VLVF
bypass, so the VLAN has a VFTA bit and no entry. A VF's SET_VLAN removal
of that VLAN clears the VFTA bit, and the PF stops receiving its own VLAN.

**disable_race.** `ixgbe_msg_task` or an ndo setter checks
`vf < num_vfs`. `ixgbe_disable_sriov` then zeroes `num_vfs` and frees
`vfinfo` without any lock or wait for readers. The reader goes on to use
the freed record. The violation takes 5 states: probe, check, disable
start, disable finish, and the state in which the checked record is no
longer live.

### Mutants

Each property of a passing run is shown to fail under a plausible bug in
the code it covers. The mutant operators sit beside their originals:

| Run | Mutant | Bug it introduces |
|---|---|---|
| mac_filters | `PoolSizeNoPfEntry` | the slot count forgets the PF address's entry |
| mac_filters | `ClearMacvlansKeepFilters` | the clearing loop deletes no filter |
| mac_filters | `SetVfMacAddrNoPin` | the pinned-address check is missing |
| xcast_trust | `UpdateVfXcastModeNoDowngrade` | an untrusted VF's mode is not downgraded |
| cts_gate | `SetVfMulticastsNoClamp` | the multicast count is not clamped |
| cts_gate | `RcvMsgNotCtsSilent` | a request refused for lack of CTS gets no reply |
| vlan_sharing | `NdoSetVfVlanAnyQos` | the qos range check is missing |
| vlan_sharing | `ClearVfVlansIgnoringOthers` | a reset clears entries other pools still use |
| vlan_sharing | `ClearVfVlansVftaFirst` | the VFTA bit is cleared while the entry still has pools |
| vlan_sharing | `SetVfVlanNoPfEntry` | a VF add skips the PF entry for a PF VLAN |
| vlan_sharing | `EnableAfterJoinNoErr` | `ixgbe_enable_port_vlan` goes on after a failed join |
| vlan_sharing | `EnableAfterJoinKeepVlan0` | `ixgbe_enable_port_vlan` does not revoke VLAN 0 |
| lifecycle | `EnableSriovNoMemCountFirst` | `num_vfs` is set before the `vfinfo` allocation |
| lifecycle | `PutVfRefsAfterZero` | the reference puts read `num_vfs` after it is zeroed |
| lifecycle | `FlagKeptClearedEarly` | the SR-IOV flag is cleared on the -EPERM path |
| lifecycle | `CheckVfRateLimitProgramFirst` | the watchdog programs a VF before zeroing its `tx_rate` |
| lifecycle | `NdoSetVfBwNoRange` | `ndo_set_vf_bw` drops the 11..10000 range check |

## 4. Bounds, fairness, and what is left out

**Bounds.**

- In `VfMailbox`:
  - Two VFs and one shared slot are the smallest configuration in which
    VFs compete for RAR entries.
  - Two addresses are enough to change a pinned address to another one.
  - Every opcode, every xcast mode including an invalid one, every API
    version including 2.0 and an invalid one, and frames on both sides of
    each limit are enumerated.
  - One VF is used where no state is shared between VFs, apart from the
    pings to all VFs and MAXFRS. The liveness run also uses one VF,
    because the fair state graph with two VFs is beyond the time bound.
- In `VfVlan`:
  - Two VFs and a PF on a shared VLAN are the smallest setting in which
    one party's change can hurt another's.
  - Three VLVF entries, the VFs' VLANs 0 to 2 and the admin's port VLAN 3
    let the table fill up with one VLAN left over.
- In `SriovLifecycle`:
  - The counts 1 and 2 separate a first and a last index and change the
    table size on re-enable.
  - Three heap blocks let a freed block be reused.
- In `VfRateLimit`:
  - The link speeds unknown, 1G and 10G give a link that permits setting
    rates and two speeds that differ from it.
  - The rate inputs are the edges of the accepted range and one step past
    each edge. The arithmetic over the whole range is checked by the ASSUME
    in `MCVfRateLimit`.

**Fairness.** `FairSpec` assumes weak fairness of three steps of
`ixgbe_msg_task` for each VF: `VfResetEvent`, `PfRcvMsg` and
`RcvAckFromVf`. The code justifies this because the mailbox interrupt stays
asserted while a VF's REQ, ACK or RSTD bit is set, and each run of the task
walks every VF. The VFs and the administrator get no fairness: a VF may
stop, and the administrator may never act. The safety runs use `Spec`.

`VfRateLimit` states no liveness. The watchdog's call site, and how often
it runs, are in `ixgbe_main.c`, so no fairness on `CheckVfRateLimit` is
justified by this file.

**Not modelled.**

- The watchdog pass of `ixgbe_check_vf_rate_limit` is one step. So the
  model cannot show three races:
  - its loop racing disable (line 1768), the same race `disable_race`
    shows for the other readers of `vfinfo`;
  - its lost update against `ndo_set_vf_bw` (line 1708);
  - the interleaving of their RTTDQSEL/RTTBCNRC pairs (line 1749).

  Whether the service task and the rtnl-held setter can overlap is
  decided in `ixgbe_main.c`. If they can, each race would break
  `ReportedRateEnforced`.
- `ixgbe_vf_configuration`, which zeroes a MAC address that `kcalloc` has
  already zeroed, and `ixgbe_write_qde`.
- The payloads of queries.
- Register writes that change no modelled state: QDE, TDWBAL/H, VMECM,
  PVFTXDCTL, RTTBCNRM, and the RTTDQSEL queue selection.
- DCB, RSC and VMDq feature flags beyond the TC cap on the VF count.
- `ixgbe_sriov_reinit`, beyond its clearing of RTTBCNRC.
- The VF driver beyond its mailbox behaviour.
- The `INIT_LIST_HEAD` of `vf_mvs` in `ixgbe_main.c` is assumed to run at
  probe, so the head starts empty.
- Checked by no run:
  - that an X550 VF whose pending request a VFLR zeroes still gets an
    answer (line 811). The liveness run is on an 82599, for its SET_LPE
    and RSS-query paths.
  - the `TypeOK` of `SriovLifecycle`. Its bounds are those of the C types
    (an unsigned `num_vfs`, counts up to 64), which no plausible change to
    the modelled code breaks, so it documents the state space only.

## 5. Plan

1. **Done: `VfRateLimit`**, with the `VfTxCap` refinement.
2. **`VfHandshake`.** Write an abstract spec in which each VF is Blocked
   or Ready, and requests apply only when Ready. Show that `VfMailbox`
   implements it through INSTANCE ... WITH, with Ready mapped to
   `clear_to_send`, excluding the VFLR path.
3. **The ping-overwrites-reply hazard** (line 1484): add the VF's view of
   its mailbox so that a reply overwritten by a ping can be observed.
4. **Done: the VF VLANs kept under a new port VLAN** (line 1597), bounded
   by `PortVlanConfines`. The VLAN 0 with qos case (line 1602) still needs
   the spec to say what should happen.
5. **A stepwise watchdog pass** in `VfRateLimit`, with its own run, to
   show the races at lines 1708, 1749 and 1768.
