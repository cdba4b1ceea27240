------------------------------- MODULE VfVlan -------------------------------
(***************************************************************************)
(* VLAN filtering of the ixgbe SR-IOV PF driver: the VLAN pool filter      *)
(* table (VLVF entries and their VLVFB pool bitmaps), the VLAN filter      *)
(* table (VFTA), the PF's own VLANs (active_vlans), and each VF's port    *)
(* VLAN (pf_vlan, pf_qos, VMVIR).                                          *)
(*                                                                         *)
(* Actors: a VF sends SET_VLAN requests or resets (the CTS gate in front   *)
(* of these handlers is checked in VfMailbox); the administrator sets a    *)
(* port VLAN and adds or removes VLANs on the PF interface.                *)
(*                                                                         *)
(* The table primitives set_vfta and find_vlvf_slot (ixgbe_common.c) and   *)
(* the PF-side helpers of ixgbe_main.c are not part of this repository;    *)
(* they are modelled from the generic implementation's contract.           *)
(***************************************************************************)
EXTENDS Integers, FiniteSets, FiniteSetsExt

CONSTANTS
  VFs,          \* pool indices of the VFs
  PfPool,       \* VMDQ_P(0), the PF's pool
  NoVid,        \* VLVF(i) = 0: the entry is disabled
  Vids,         \* VLAN ids in play, 0 included
  PfVids,       \* VLANs the administrator may put on the PF interface
  VlvfEntries,  \* IXGBE_VLVF_ENTRIES
  NumTcs,       \* netdev_get_num_tc
  DefaultUp,    \* adapter->default_up
  VfVlanInputs, \* VLAN ids the VFs put in SET_VLAN requests
  VlanInputs,   \* vlan values the administrator may pass to ndo_set_vf_vlan
  QosInputs     \* qos values the administrator may pass to ndo_set_vf_vlan

ASSUME 0 \in Vids /\ PfVids \subseteq Vids \ {0} /\ NoVid \notin Vids
ASSUME VlvfEntries >= 2 /\ VfVlanInputs \subseteq Vids

Pools == VFs \cup {PfPool}
Entries == 0..(VlvfEntries - 1)
\* VLAN_VID_MASK - 1: the largest VLAN id ndo_set_vf_vlan accepts.
MaxVid == 4094

VARIABLES
  hw,            \* the filter tables of struct ixgbe_hw:
                 \*   vlvf[i]  VLVF(i), the VLAN id of entry i, or NoVid
                 \*   vlvfb[i] VLVFB(2i), VLVFB(2i+1), the pools of entry i
                 \*   vfta     VFTA, the VLAN ids the port accepts
  active_vlans,  \* adapter->active_vlans
  vlan_promisc,  \* adapter->flags2 & IXGBE_FLAG2_VLAN_PROMISC; either mode,
                 \* kept for the whole behaviour
  pf_vlan,       \* vfinfo[].pf_vlan
  pf_qos,        \* vfinfo[].pf_qos
  vmvir,         \* VMVIR(vf): <<vid, qos>> inserted on transmit, or <<>>
  wanted,        \* history: VLANs each VF added by SET_VLAN and still holds;
                 \* a reset or any port VLAN change (which sends the VF no
                 \* message) starts it afresh, so a VLAN of the VF that a
                 \* port VLAN change removes is not counted here
  added          \* history: VLANs each VF added by SET_VLAN since its last
                 \* reset and has not removed; port VLANs leave it alone

vars == <<hw, active_vlans, vlan_promisc, pf_vlan, pf_qos, vmvir, wanted, added>>

(***************************************************************************)
(* A table operation yields [h |-> tables, err |-> failed]. A result that  *)
(* a later step consults is handed to that step as an argument.            *)
(***************************************************************************)
Ok(h) == [h |-> h, err |-> FALSE]

-----------------------------------------------------------------------------
(* Table primitives (ixgbe_common.c, ixgbe_main.c).                        *)

\* ixgbe_find_vlvf_slot: VLAN 0 lives in entry 0; otherwise the entry
\* holding vid, else (unless bypassing) the highest disabled entry, else -1.
FindVlvfSlot(h, vid, bypass) ==
  LET match == {i \in Entries \ {0} : h.vlvf[i] = vid}
      empty == {i \in Entries \ {0} : h.vlvf[i] = NoVid}
  IN CASE vid = 0 -> 0
       [] match # {} -> Max(match)
       [] ~bypass /\ empty # {} -> Max(empty)
       [] OTHER -> -1

\* ixgbe_set_vfta_generic on the entry idx found for vid: set or clear
\* pool's bit. Clearing the last bit of an entry disables it and clears the
\* VFTA bit; clearing one of several leaves VFTA alone. With no entry, a
\* bypassing call updates VFTA only and any other call fails.
SetVftaAt(h, idx, vid, pool, on, bypass) ==
  LET vft == IF on THEN h.vfta \cup {vid} ELSE h.vfta \ {vid}
      rest == h.vlvfb[idx] \ {pool}
  IN CASE idx = -1 /\ bypass -> Ok([h EXCEPT !.vfta = vft])
       [] idx = -1 -> [h |-> h, err |-> TRUE]
       [] on -> Ok([vlvf |-> [h.vlvf EXCEPT ![idx] = vid],
                    vlvfb |-> [h.vlvfb EXCEPT ![idx] = @ \cup {pool}], vfta |-> vft])
       [] rest = {} -> Ok([vlvf |-> [h.vlvf EXCEPT ![idx] = NoVid],
                           vlvfb |-> [h.vlvfb EXCEPT ![idx] = {}], vfta |-> vft])
       [] OTHER -> Ok([h EXCEPT !.vlvf[idx] = vid, !.vlvfb[idx] = rest])

SetVfta(h, vid, pool, on, bypass) ==
  SetVftaAt(h, FindVlvfSlot(h, vid, bypass), vid, pool, on, bypass)

\* ixgbe_find_vlvf_entry (ixgbe_main.c): the entry holding vid, 0 if none.
FindVlvfEntry(h, vid) ==
  LET match == {i \in Entries \ {0} : h.vlvf[i] = vid}
  IN IF vid = 0 \/ match = {} THEN 0 ELSE Max(match)

\* ixgbe_update_pf_promisc_vlvf (ixgbe_main.c): an entry left with the PF
\* pool only is disabled, and the PF bit dropped unless VLAN promiscuous.
UpdatePfPromiscAt(h, idx) ==
  IF idx = 0 \/ h.vlvfb[idx] \ {PfPool} # {} THEN h
  ELSE [h EXCEPT !.vlvf[idx] = NoVid,
                 !.vlvfb[idx] = IF vlan_promisc THEN @ ELSE {}]

UpdatePfPromiscVlvf(h, vid) == UpdatePfPromiscAt(h, FindVlvfEntry(h, vid))

-----------------------------------------------------------------------------
(* Operators of ixgbe_sriov.c.                                             *)

\* The tail of ixgbe_set_vf_vlan once the VF's own set_vfta returned r: a
\* failed add or any removal of a VLAN the PF uses (or in VLAN promiscuous
\* mode) may drop the PF's pool bit again.
SetVfVlanDone(r, add, vid) ==
  IF (add /\ ~r.err) \/ ~(vid \in active_vlans \/ vlan_promisc) THEN r
  ELSE [h |-> UpdatePfPromiscVlvf(r.h, vid), err |-> r.err]

\* Mutant: a VF joins a VLAN the PF uses without the PF entry first.
SetVfVlanNoPfEntry(h, add, vid, vf) ==
  SetVfVlanDone(SetVfta(h, vid, vf, add, FALSE), add, vid)

\* ixgbe_set_vf_vlan: a VLAN the PF uses gets a PF entry first, and a
\* failure there returns at once.
SetVfVlanAfterPf(pf, add, vid, vf) ==
  IF pf.err THEN pf
  ELSE SetVfVlanDone(SetVfta(pf.h, vid, vf, add, FALSE), add, vid)

SetVfVlan(h, add, vid, vf) ==
  SetVfVlanAfterPf(IF add /\ vid \in active_vlans
                     THEN SetVfta(h, vid, PfPool, TRUE, FALSE) ELSE Ok(h),
                   add, vid, vf)

\* Mutant: an entry is torn down without looking for other pools on it.
ClearVfVlansIgnoringOthers(h, vf) ==
  LET mine == {i \in Entries : vf \in h.vlvfb[i]}
      left(i) == h.vlvfb[i] \ {vf}
      disable == {i \in mine : h.vlvf[i] # NoVid}
      dropVfta == {h.vlvf[i] : i \in {j \in disable : PfPool \notin left(j)}}
  IN [vlvf |-> [i \in Entries |-> IF i \in disable THEN NoVid ELSE h.vlvf[i]],
      vlvfb |-> [i \in Entries |-> CASE i \notin mine -> h.vlvfb[i]
                                     [] i \in disable /\ ~vlan_promisc -> {}
                                     [] OTHER -> left(i)],
      vfta |-> h.vfta \ dropVfta]

\* Mutant: the VFTA bit is cleared before the other pools are looked at.
ClearVfVlansVftaFirst(h, vf) ==
  LET mine == {i \in Entries : vf \in h.vlvfb[i]}
      left(i) == h.vlvfb[i] \ {vf}
      others(i) == left(i) \ {PfPool} # {}
      disable == {i \in mine : ~others(i) /\ h.vlvf[i] # NoVid}
      dropVfta == {h.vlvf[i] : i \in {j \in mine : left(j) = {} \/ others(j)}}
  IN [vlvf |-> [i \in Entries |-> IF i \in disable THEN NoVid ELSE h.vlvf[i]],
      vlvfb |-> [i \in Entries |-> CASE i \notin mine -> h.vlvfb[i]
                                     [] i \in disable /\ ~vlan_promisc -> {}
                                     [] OTHER -> left(i)],
      vfta |-> h.vfta \ dropVfta]

\* ixgbe_clear_vf_vlans: every entry holding vf loses vf's bit; an entry
\* left with other VF pools keeps its VLAN; one left with only the PF is
\* disabled with VFTA kept; one left empty is disabled and its VFTA bit
\* cleared. Entries are independent, so the loop is one simultaneous step.
ClearVfVlans(h, vf) ==
  LET mine == {i \in Entries : vf \in h.vlvfb[i]}
      left(i) == h.vlvfb[i] \ {vf}
      others(i) == left(i) \ {PfPool} # {}
      disable == {i \in mine : ~others(i) /\ h.vlvf[i] # NoVid}
      dropVfta == {h.vlvf[i] : i \in {j \in disable : left(j) = {}}}
  IN [vlvf |-> [i \in Entries |-> IF i \in disable THEN NoVid ELSE h.vlvf[i]],
      vlvfb |-> [i \in Entries |-> CASE i \notin mine -> h.vlvfb[i]
                                     [] i \in disable /\ ~vlan_promisc -> {}
                                     [] OTHER -> left(i)],
      vfta |-> h.vfta \ dropVfta]

\* ixgbe_set_vmvir / ixgbe_clear_vmvir as chosen by ixgbe_vf_reset_event.
ResetVmvir(vid, qos) ==
  CASE vid = 0 /\ qos = 0 /\ NumTcs = 0 -> <<>>
    [] qos # 0 \/ NumTcs = 0 -> <<vid, qos>>
    [] OTHER -> <<vid, DefaultUp>>

\* A VF's port VLAN configuration together with the filter tables.
PortCfg(v) == [h |-> hw, err |-> FALSE, vlan |-> pf_vlan[v], qos |-> pf_qos[v],
               vmvir |-> vmvir[v]]

\* Mutant: the VF keeps tagless access through VLAN 0 under a port VLAN.
EnableAfterJoinKeepVlan0(p, j, vf, vlan, qos) ==
  IF j.err THEN [p EXCEPT !.h = j.h, !.err = TRUE]
  ELSE [h |-> j.h, err |-> FALSE, vlan |-> vlan, qos |-> qos, vmvir |-> <<vlan, qos>>]

\* Mutant: the VF is given the port VLAN even when joining it failed.
EnableAfterJoinNoErr(p, j, vf, vlan, qos) ==
  [h |-> SetVfVlan(j.h, FALSE, 0, vf).h, err |-> j.err,
   vlan |-> vlan, qos |-> qos, vmvir |-> <<vlan, qos>>]

\* ixgbe_enable_port_vlan: join the port VLAN (j is the join's result),
\* leave VLAN 0, tag on transmit; a failed join leaves p but for its own
\* table changes.
EnableAfterJoin(p, j, vf, vlan, qos) ==
  IF j.err THEN [p EXCEPT !.h = j.h, !.err = TRUE]
  ELSE [h |-> SetVfVlan(j.h, FALSE, 0, vf).h, err |-> FALSE,
        vlan |-> vlan, qos |-> qos, vmvir |-> <<vlan, qos>>]

EnablePortVlan(p, vf, vlan, qos) ==
  EnableAfterJoin(p, SetVfVlan(p.h, TRUE, vlan, vf), vf, vlan, qos)

\* ixgbe_disable_port_vlan: leave the port VLAN (l is the leave's result),
\* rejoin VLAN 0, stop tagging; the record is cleared whatever l returned.
DisableAfterLeave(l, vf) ==
  [h |-> SetVfVlan(l.h, TRUE, 0, vf).h, err |-> l.err,
   vlan |-> 0, qos |-> 0, vmvir |-> <<>>]

DisablePortVlan(p, vf) == DisableAfterLeave(SetVfVlan(p.h, FALSE, p.vlan, vf), vf)

\* ixgbe_ndo_set_vf_vlan after the range checks: a non-zero vlan or qos
\* replaces the port VLAN, disabling an old one first and stopping if
\* that failed; zero for both disables it.
ReplacePortVlan(p, vf, vlan, qos) ==
  IF p.err THEN p ELSE EnablePortVlan(p, vf, vlan, qos)

SetPortVlan(v, vlan, qos) ==
  IF vlan = 0 /\ qos = 0 THEN DisablePortVlan(PortCfg(v), v)
  ELSE ReplacePortVlan(IF pf_vlan[v] # 0 THEN DisablePortVlan(PortCfg(v), v)
                       ELSE PortCfg(v), v, vlan, qos)

-----------------------------------------------------------------------------
\* With VLAN promiscuity on, ixgbe_vlan_promisc_enable (ixgbe_main.c) has
\* put the PF pool in every entry but 0 and set every VFTA bit.
Init ==
  /\ vlan_promisc \in BOOLEAN
  /\ hw = [vlvf |-> [i \in Entries |-> NoVid],
           vlvfb |-> [i \in Entries |-> IF vlan_promisc /\ i # 0 THEN {PfPool} ELSE {}],
           vfta |-> IF vlan_promisc THEN Vids ELSE {}]
  /\ active_vlans = {}
  /\ pf_vlan = [v \in VFs |-> 0]
  /\ pf_qos = [v \in VFs |-> 0]
  /\ vmvir = [v \in VFs |-> <<>>]
  /\ wanted = [v \in VFs |-> {}]
  /\ added = [v \in VFs |-> {}]

\* ixgbe_set_vf_vlan_msg with r the result of ixgbe_set_vf_vlan.
SetVlanReply(v, add, vid, r) ==
  /\ hw' = r.h
  /\ LET held(x) == CASE r.err -> x
                        [] add -> x \cup {vid}
                        [] OTHER -> x \ {vid}
     IN /\ wanted' = [wanted EXCEPT ![v] = held(@)]
        /\ added' = [added EXCEPT ![v] = held(@)]

\* ixgbe_set_vf_vlan_msg: refused under a port VLAN or traffic classes;
\* removing VLAN 0 is a no-op.
VfSetVlanMsg(v, add, vid) ==
  /\ pf_vlan[v] = 0 /\ NumTcs = 0
  /\ ~(vid = 0 /\ ~add)
  /\ SetVlanReply(v, add, vid, SetVfVlan(hw, add, vid, v))
  /\ UNCHANGED <<active_vlans, vlan_promisc, pf_vlan, pf_qos, vmvir>>

\* The VLAN part of ixgbe_vf_reset_event (VFLR or RESET message): drop
\* every VLAN of the VF, rejoin the port VLAN (or VLAN 0), reset VMVIR.
VfResetVlans(v) ==
  /\ hw' = SetVfVlan(ClearVfVlans(hw, v), TRUE, pf_vlan[v], v).h
  /\ vmvir' = [vmvir EXCEPT ![v] = ResetVmvir(pf_vlan[v], pf_qos[v])]
  /\ wanted' = [wanted EXCEPT ![v] = {}]
  /\ added' = [added EXCEPT ![v] = {}]
  /\ UNCHANGED <<active_vlans, vlan_promisc, pf_vlan, pf_qos>>

\* The port VLAN configuration r written back for VF v.
ApplyPortCfg(v, r) ==
  /\ hw' = r.h
  /\ pf_vlan' = [pf_vlan EXCEPT ![v] = r.vlan]
  /\ pf_qos' = [pf_qos EXCEPT ![v] = r.qos]
  /\ vmvir' = [vmvir EXCEPT ![v] = r.vmvir]
  /\ wanted' = [wanted EXCEPT ![v] = {}]
  /\ UNCHANGED <<active_vlans, vlan_promisc, added>>

\* Mutant: the qos range check is missing.
NdoSetVfVlanAnyQos(v, vlan, qos) ==
  /\ vlan <= MaxVid
  /\ ApplyPortCfg(v, SetPortVlan(v, vlan, qos))

\* ixgbe_ndo_set_vf_vlan: VLAN ids 0-4094 and priorities 0-7 only.
NdoSetVfVlan(v, vlan, qos) ==
  /\ vlan <= MaxVid /\ qos <= 7
  /\ ApplyPortCfg(v, SetPortVlan(v, vlan, qos))

\* ixgbe_vlan_rx_add_vid (ixgbe_main.c): the PF joins vid, bypassing the
\* VLVF (VFTA only) unless an entry for vid already exists.
PfAddVid(vid) ==
  /\ vid \notin active_vlans
  /\ active_vlans' = active_vlans \cup {vid}
  /\ hw' = IF vlan_promisc THEN hw ELSE SetVfta(hw, vid, PfPool, TRUE, TRUE).h
  /\ UNCHANGED <<vlan_promisc, pf_vlan, pf_qos, vmvir, wanted, added>>

\* ixgbe_vlan_rx_kill_vid (ixgbe_main.c): the PF leaves vid.
PfKillVid(vid) ==
  /\ vid \in active_vlans
  /\ active_vlans' = active_vlans \ {vid}
  /\ hw' = IF vlan_promisc THEN hw ELSE SetVfta(hw, vid, PfPool, FALSE, TRUE).h
  /\ UNCHANGED <<vlan_promisc, pf_vlan, pf_qos, vmvir, wanted, added>>

Next ==
  \/ \E v \in VFs :
       \/ \E add \in BOOLEAN, vid \in VfVlanInputs : VfSetVlanMsg(v, add, vid)
       \/ VfResetVlans(v)
       \/ \E vlan \in VlanInputs, qos \in QosInputs : NdoSetVfVlan(v, vlan, qos)
  \/ \E vid \in PfVids : PfAddVid(vid) \/ PfKillVid(vid)

Spec == Init /\ [][Next]_vars

-----------------------------------------------------------------------------
TypeOK ==
  /\ hw \in [vlvf : [Entries -> Vids \cup {NoVid}], vlvfb : [Entries -> SUBSET Pools],
             vfta : SUBSET Vids]
  /\ active_vlans \subseteq PfVids /\ vlan_promisc \in BOOLEAN
  /\ pf_vlan \in [VFs -> Vids] /\ pf_qos \in [VFs -> 0..7]
  /\ vmvir \in [VFs -> {<<>>} \cup (Vids \X (0..7))]
  /\ wanted \in [VFs -> SUBSET Vids] /\ added \in [VFs -> SUBSET Vids]


\* The VLANs whose entries hold a pool.
Member(p) == {hw.vlvf[i] : i \in {j \in Entries : p \in hw.vlvfb[j] /\ hw.vlvf[j] # NoVid}}

\* VLAN sharing (ixgbe_clear_vf_vlans, ixgbe_set_vf_vlan): a VLAN a VF
\* without a port VLAN added and has not removed stays in its pool, however
\* other VFs reset, add and remove the same VLANs and the PF joins and
\* leaves them.
VfVlansKept ==
  \A v \in VFs : pf_vlan[v] = 0 /\ pf_qos[v] = 0 => wanted[v] \subseteq Member(v)

\* Filter coherence (ixgbe_clear_vf_vlans, ixgbe_set_vfta): the port
\* accepts every VLAN that an enabled pool filter entry steers to a pool.
EntriesInVfta ==
  \A i \in Entries : hw.vlvf[i] # NoVid /\ hw.vlvfb[i] # {} => hw.vlvf[i] \in hw.vfta

\* PF entry kept (spec 8, "For all VLAN add/remove sequences"): an entry
\* for a VLAN the PF uses keeps the PF pool while any VF is in it, across
\* VF adds, removals, resets and port VLAN changes in any order.
PfEntryKept ==
  \A i \in Entries :
    hw.vlvf[i] \in active_vlans /\ hw.vlvfb[i] \cap VFs # {} => PfPool \in hw.vlvfb[i]

\* Port VLAN installed (ixgbe_ndo_set_vf_vlan, ixgbe_enable_port_vlan,
\* ixgbe_disable_port_vlan, ixgbe_vf_reset_event; spec 3, pf_vlan is the
\* PF's tag override): a VF whose record names a port VLAN is in that
\* VLAN's pool filter and tagged with it on transmit, and one with neither
\* port VLAN nor priority is not tagged.  This must survive a join that
\* finds no free VLVF entry, a replacement whose first half succeeded,
\* resets, and other VFs and the PF editing the shared entries.
PortVlanInstalled ==
  \A v \in VFs :
    /\ pf_vlan[v] # 0 => /\ pf_vlan[v] \in Member(v)
                         /\ vmvir[v] = <<pf_vlan[v], pf_qos[v]>>
    /\ pf_vlan[v] = 0 /\ pf_qos[v] = 0 => vmvir[v] = <<>>

\* Port VLAN confinement (spec 3: a port VLAN is the PF's override of the
\* VF's own VLANs; ixgbe_ndo_set_vf_vlan, ixgbe_enable_port_vlan,
\* ixgbe_disable_port_vlan, ixgbe_vf_reset_event): a VF under a port VLAN
\* is in the filter of no VLAN but its port VLAN and the VLANs it added
\* itself since its last reset.  ndo_set_vf_vlan leaves those until the
\* VF resets (line 1597); everything else, VLAN 0, a replaced port VLAN, a
\* VLAN the PF or another VF uses, must be gone.
PortVlanConfines ==
  \A v \in VFs : pf_vlan[v] # 0 => Member(v) \subseteq {pf_vlan[v]} \cup added[v]

\* PF visibility (spec 3, 8): removing a VF's VLAN never removes a VLAN
\* the PF itself uses from the port's filter.
PfVlanVisible == active_vlans \subseteq hw.vfta

=============================================================================
