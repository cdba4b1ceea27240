----------------------------- MODULE VfMailbox -----------------------------
(***************************************************************************)
(* The PF side of the ixgbe SR-IOV control plane for an enabled VF table:  *)
(* the mailbox engine (ixgbe_msg_task and the handlers it dispatches to),  *)
(* the per-VF record (struct vf_data_storage, here vfinfo), the shared     *)
(* receive-address (RAR) filter table and the VF MAC-VLAN slot list, and   *)
(* the administrative ndo_set_vf_* setters that race with the VFs.         *)
(*                                                                         *)
(* Three kinds of actor step:                                              *)
(*   - a VF (untrusted, adversarial) writes any request into its mailbox,  *)
(*     triggers a function-level reset, or reads and acks the PF's reply;  *)
(*   - the PF message task services one pending indication of one VF;      *)
(*   - the administrator (or a PF link / rx-mode event) calls a setter.    *)
(* VLAN filtering (SET_VLAN, port VLANs) is left to a separate module:     *)
(* pf_vlan is 0 throughout, so ixgbe_set_vmolr is called with aupe TRUE.   *)
(***************************************************************************)
EXTENDS Integers, FiniteSets, FiniteSetsExt, Bags, BagsExt

CONSTANTS
  VFs,            \* indices of the VFs in the enabled table
  Macs,           \* valid unicast addresses (model values)
  McastMac,       \* an address failing is_valid_ether_addr (multicast form)
  ZeroMac,        \* the all-zero address: "no MAC assigned"
  NoVf,           \* the vf field of a free MAC-VLAN slot (-1 in the code)
  NoMsg,          \* an empty mailbox
  RarEntries,     \* hw->mac.num_rar_entries
  MaxPfMacvlans,  \* IXGBE_MAX_PF_MACVLANS
  MaxMcEntries,   \* IXGBE_MAX_VF_MC_ENTRIES
  MacType,        \* hw->mac.type
  PfMaxFrame,     \* netdev->mtu + ETH_HLEN of the PF
  PfPromisc,      \* FCTRL.UPE: the PF itself is promiscuous
  MddRestore,     \* hw->mac.ops.restore_mdd_vf is provided
  McInputs,       \* entry counts a VF may put in SET_MULTICAST
  FrameInputs,    \* max_frame values a VF may put in SET_LPE
  MacvlanIdx,     \* slot indices a VF may put in SET_MACVLAN
  VfAddrs,        \* addresses a VF may put in SET_MAC_ADDR and SET_MACVLAN
  VfOps,          \* the opcodes the VFs send in this model
  AdminOps,       \* the setters and PF events that occur in this model
  MbxFaults       \* mailbox transport faults that occur: {} or {"read_mbx"}

ASSUME Macs # {} /\ {McastMac, ZeroMac} \cap Macs = {}
ASSUME VfAddrs \subseteq Macs \cup {McastMac}
ASSUME MacType \in {"82599EB", "X540", "X550"}
ASSUME RarEntries - (MaxPfMacvlans + 1 + Cardinality(VFs)) >= 1

ETH_FRAME_LEN == 1514
ETH_FCS_LEN == 4
IXGBE_MAX_JUMBO_FRAME_SIZE == 9728

\* xcast modes of the VF mailbox API; 4 is no mode at all
NONE == 0
MULTI == 1
ALLMULTI == 2
PROMISC == 3
XcastInputs == 0..4

ApiInputs == {"1.0", "2.0", "1.1", "1.2", "1.3", "bad"}
LinkStates == {"AUTO", "ENABLE", "DISABLE"}
VmolrBits == {"BAM", "ROMPE", "MPE", "UPE", "VPE", "AUPE"}

\* Mutant: the slot count forgets the RAR entry of the PF's own address.
PoolSizeNoPfEntry == RarEntries - (MaxPfMacvlans + Cardinality(VFs))

\* Number of MAC-VLAN slots ixgbe_alloc_vf_macvlans puts on the list.
PoolSize == RarEntries - (MaxPfMacvlans + 1 + Cardinality(VFs))
\* RAR entries held by the PF: its own address and its reserved macvlans.
PfRarUsed == MaxPfMacvlans + 1

IsValidMac(a) == a \in Macs

VARIABLES
  vfinfo,     \* adapter->vfinfo[]
  vmolr,      \* VMOLR(vf): receive-mode bits of each VF pool
  antispoof,  \* MAC/VLAN anti-spoof enable of each VF in hardware
  vfte,       \* VFTE bit of each VF
  vfre,       \* VFRE bit of each VF
  maxfrs,     \* MAXFRS.MFS
  rar,        \* RAR table: bag of <<address, pool>> entries owned by VFs
  mv_list,    \* adapter->mv_list, in list traversal order
  mbx_req,    \* a VF request waiting in the mailbox (REQ set)
  mbx_rst,    \* a VF function-level reset waiting (VFLRE set)
  mbx_ack,    \* the VF acked the PF's last message (ACK set)
  mbx_out     \* the PF's last message to the VF, not yet read

vars == <<vfinfo, vmolr, antispoof, vfte, vfre, maxfrs, rar, mv_list,
          mbx_req, mbx_rst, mbx_ack, mbx_out>>

AllMsgs ==
  {[op |-> o, arg |-> 0] : o \in {"RESET", "GET_QUEUES", "GET_RETA",
      "GET_RSS_KEY", "GET_LINK_STATE", "UNKNOWN", "TAGGED"}}
  \cup {[op |-> "SET_MAC_ADDR", arg |-> a] : a \in VfAddrs}
  \cup {[op |-> "SET_MULTICAST", arg |-> n] : n \in McInputs}
  \cup {[op |-> "SET_LPE", arg |-> f] : f \in FrameInputs}
  \cup {[op |-> "SET_MACVLAN", arg |-> <<i, IF i = 0 THEN ZeroMac ELSE a>>] :
          i \in MacvlanIdx, a \in VfAddrs}
  \cup {[op |-> "API_NEGOTIATE", arg |-> x] : x \in ApiInputs}
  \cup {[op |-> "UPDATE_XCAST_MODE", arg |-> x] : x \in XcastInputs}

Msgs == {m \in AllMsgs : m.op \in VfOps}

\* A message whose contents X550 cleared from mailbox memory.
ZeroMsg == [op |-> "UNKNOWN", arg |-> 0]

\* A PF message: the RESET reply, the answer to any other request (whose
\* opcode it echoes; the model keeps only its status bits), or a control
\* message; ack is the SUCCESS/FAILURE bit, cts the CTS bit.
PfMsg(kind, ack, cts, mac) == [kind |-> kind, ack |-> ack, cts |-> cts, mac |-> mac]
\* ixgbe_ping_vf: a control message echoing clear_to_send.
Ping(v) == PfMsg("CONTROL", "NONE", vfinfo[v].clear_to_send, ZeroMac)
\* The status word ixgbe_rcv_msg_from_vf writes back after a handler.
Answer(v, ok) == PfMsg("REPLY", IF ok THEN "SUCCESS" ELSE "FAILURE", TRUE, ZeroMac)
\* msgbuf[0] | FAILURE without CTS: the NACK of a VF not clear to send.
Nack == PfMsg("REPLY", "FAILURE", FALSE, ZeroMac)

FreeSlot == [vf |-> NoVf, free |-> TRUE, addr |-> ZeroMac]

-----------------------------------------------------------------------------
(* Helpers over the filter tables: pure operators composed by the actions. *)

\* Mutant: the add does not check that a RAR entry is free.
CanAddMacFilterUnbounded(r, a) == a # ZeroMac

\* ixgbe_add_mac_filter (ixgbe_main.c): first unused RAR entry, or -ENOMEM.
CanAddMacFilter(r, a) == a # ZeroMac /\ BagCardinality(r) + PfRarUsed < RarEntries
\* ixgbe_del_mac_filter (ixgbe_main.c): drop one matching entry, if any.
DelMacFilter(r, a, v) == BagRemove(r, <<a, v>>)

\* ixgbe_set_vf_mac: delete the old primary filter, add the new one, and
\* record the address, or the zero address if the add failed.
SetVfMac(r, old, a, v) ==
  LET r1 == DelMacFilter(r, old, v)
      ok == CanAddMacFilter(r1, a)
  IN [ok  |-> ok,
      rar |-> IF ok THEN BagAdd(r1, <<a, v>>) ELSE r1,
      mac |-> IF ok THEN a ELSE ZeroMac]

\* Mutant: the clearing loop frees the slots but deletes no filter.
ClearMacvlansKeepFilters(p, r, v) ==
  [pool |-> [i \in DOMAIN p |-> IF p[i].vf = v
                THEN [p[i] EXCEPT !.vf = NoVf, !.free = TRUE] ELSE p[i]],
   rar  |-> r]

Owned(p, v) == {i \in DOMAIN p : p[i].vf = v}
\* The clearing loop of ixgbe_set_vf_macvlan (index <= 1): free every slot
\* of v and delete the filter of each.
ClearMacvlans(p, r, v) ==
  LET gone == Owned(p, v)
      filters == [e \in {<<p[i].addr, v>> : i \in gone} |->
                    Cardinality({i \in gone : p[i].addr = e[1]})]
  IN [pool |-> [i \in DOMAIN p |-> IF i \in gone
                   THEN [p[i] EXCEPT !.vf = NoVf, !.free = TRUE] ELSE p[i]],
      rar  |-> r (-) filters]

\* ixgbe_set_vf_macvlan: err is "OK" (0), "ENOSPC" or "ENOMEM" (add failed).
SetVfMacvlan(p, r, v, index, a) ==
  LET c == IF index <= 1 THEN ClearMacvlans(p, r, v) ELSE [pool |-> p, rar |-> r]
      free == {i \in DOMAIN c.pool : c.pool[i].free}
      slot == Min(free)
      Fail(e) == [pool |-> c.pool, rar |-> c.rar, err |-> e]
  IN CASE index = 0 -> Fail("OK")
       [] free = {} -> Fail("ENOSPC")
       [] ~CanAddMacFilter(c.rar, a) -> Fail("ENOMEM")
       [] OTHER -> [pool |-> [c.pool EXCEPT ![slot] = [vf |-> v, free |-> FALSE, addr |-> a]],
                    rar  |-> BagAdd(c.rar, <<a, v>>), err |-> "OK"]

\* ixgbe_set_vmolr(hw, vf, aupe) with aupe = !pf_vlan = TRUE.
SetVmolr(bits) == bits \cup {"BAM", "AUPE"}

\* ixgbe_restore_vf_multicasts: ROMPE set exactly for VFs with hashes.
RestoreVfMulticasts(vm, info) ==
  [i \in VFs |-> IF info[i].num_vf_mc_hashes > 0 THEN vm[i] \cup {"ROMPE"}
                 ELSE vm[i] \ {"ROMPE"}]

PfJumbo == PfMaxFrame > ETH_FRAME_LEN

\* ixgbe_set_vf_rx_tx: the VFRE bit it writes for a given link_enable.
RxEnable(le) == le /\ ~(MacType = "82599EB" /\ PfJumbo)

\* The parts of ixgbe_vf_reset_event that touch the RAR table and slots:
\* the primary filter is deleted, then every MAC-VLAN slot of v is cleared.
ResetFilters(v) ==
  ClearMacvlans(mv_list, DelMacFilter(rar, vfinfo[v].vf_mac_addresses, v), v)
\* ... and the parts that touch the record: no hashes, API 1.0.
ResetInfo(v) ==
  [vfinfo EXCEPT ![v].num_vf_mc_hashes = 0, ![v].vf_api = "1.0"]
\* ... and VMOLR: offloads to defaults, then ixgbe_set_rx_mode re-syncs MTA.
ResetVmolr(v) ==
  RestoreVfMulticasts([vmolr EXCEPT ![v] = SetVmolr(@)], ResetInfo(v))
-----------------------------------------------------------------------------
(* State after __ixgbe_enable_sriov and ixgbe_vf_configuration: every     *)
(* record zeroed except spoof checking and link on; no VF has reset yet.   *)
Init ==
  /\ vfinfo = [v \in VFs |->
        [clear_to_send |-> FALSE, vf_api |-> "1.0",
         vf_mac_addresses |-> ZeroMac, pf_set_mac |-> FALSE,
         trusted |-> FALSE, xcast_mode |-> NONE, num_vf_mc_hashes |-> 0,
         spoofchk_enabled |-> TRUE, rss_query_enabled |-> FALSE,
         link_state |-> "AUTO", link_enable |-> TRUE]]
  /\ vmolr = [v \in VFs |-> SetVmolr({})]
  /\ antispoof = [v \in VFs |-> TRUE]
  /\ vfte = [v \in VFs |-> FALSE]
  /\ vfre = [v \in VFs |-> FALSE]
  /\ maxfrs = PfMaxFrame + ETH_FCS_LEN
  /\ rar = EmptyBag
  /\ mv_list = [i \in 1..PoolSize |-> FreeSlot]
  /\ mbx_req = [v \in VFs |-> NoMsg]
  /\ mbx_rst = [v \in VFs |-> FALSE]
  /\ mbx_ack = [v \in VFs |-> FALSE]
  /\ mbx_out = [v \in VFs |-> NoMsg]

-----------------------------------------------------------------------------
(* VF steps. A VF is untrusted: it may write any request at any time.      *)

VfSend(v, m) ==
  /\ mbx_req[v] = NoMsg
  /\ mbx_req' = [mbx_req EXCEPT ![v] = m]
  /\ UNCHANGED <<vfinfo, vmolr, antispoof, vfte, vfre, maxfrs, rar, mv_list,
                 mbx_rst, mbx_ack, mbx_out>>

VfFlr(v) ==
  /\ ~mbx_rst[v]
  /\ mbx_rst' = [mbx_rst EXCEPT ![v] = TRUE]
  /\ UNCHANGED <<vfinfo, vmolr, antispoof, vfte, vfre, maxfrs, rar, mv_list,
                 mbx_req, mbx_ack, mbx_out>>

VfReadReply(v) ==
  /\ mbx_out[v] # NoMsg
  /\ mbx_out' = [mbx_out EXCEPT ![v] = NoMsg]
  /\ mbx_ack' = [mbx_ack EXCEPT ![v] = TRUE]
  /\ UNCHANGED <<vfinfo, vmolr, antispoof, vfte, vfre, maxfrs, rar, mv_list,
                 mbx_req, mbx_rst>>

-----------------------------------------------------------------------------
(* PF message task: ixgbe_msg_task checks, per VF, reset then message then *)
(* ack. The VFs run concurrently with it, so each check is its own step.   *)

\* ixgbe_check_for_rst fired: ixgbe_vf_reset_event. clear_to_send is left
\* as it was. On X550 and later the mailbox memory is zeroed.
VfResetEvent(v) ==
  LET f == ResetFilters(v) IN
  /\ mbx_rst[v]
  /\ mbx_rst' = [mbx_rst EXCEPT ![v] = FALSE]
  /\ rar' = f.rar
  /\ mv_list' = f.pool
  /\ vfinfo' = ResetInfo(v)
  /\ vmolr' = ResetVmolr(v)
  /\ IF MacType = "X550"
       THEN /\ mbx_req' = [mbx_req EXCEPT ![v] = IF @ = NoMsg THEN @ ELSE ZeroMsg]
            /\ mbx_out' = [mbx_out EXCEPT ![v] = NoMsg]
       ELSE UNCHANGED <<mbx_req, mbx_out>>
  /\ UNCHANGED <<antispoof, vfte, vfre, maxfrs, mbx_ack>>

\* ixgbe_read_mbx failed after the REQ bit was cleared: the request is gone.
RcvMsgReadError(v) ==
  /\ mbx_req[v] # NoMsg
  /\ mbx_req' = [mbx_req EXCEPT ![v] = NoMsg]
  /\ UNCHANGED <<vfinfo, vmolr, antispoof, vfte, vfre, maxfrs, rar, mv_list,
                 mbx_rst, mbx_ack, mbx_out>>

\* A message already bearing SUCCESS or FAILURE is dropped unanswered.
RcvMsgProcessed(v) ==
  /\ mbx_req[v] # NoMsg /\ mbx_req[v].op = "TAGGED"
  /\ mbx_req' = [mbx_req EXCEPT ![v] = NoMsg]
  /\ UNCHANGED <<vfinfo, vmolr, antispoof, vfte, vfre, maxfrs, rar, mv_list,
                 mbx_rst, mbx_ack, mbx_out>>

\* ixgbe_vf_reset_msg: reset_event, re-add the known MAC, enable rx/tx,
\* set clear_to_send, and answer with the MAC only if the PF pinned it.
VfResetMsg(v) ==
  LET f == ResetFilters(v)
      old == vfinfo[v].vf_mac_addresses
      s == SetVfMac(f.rar, old, old, v)
      mac == IF old # ZeroMac THEN s.mac ELSE old
      info == ResetInfo(v)[v]
      ok == mac # ZeroMac /\ info.pf_set_mac
  IN
  /\ mbx_req[v] # NoMsg /\ mbx_req[v].op = "RESET"
  /\ mbx_req' = [mbx_req EXCEPT ![v] = NoMsg]
  /\ rar' = IF old # ZeroMac THEN s.rar ELSE f.rar
  /\ mv_list' = f.pool
  /\ vfinfo' = [vfinfo EXCEPT ![v] = [info EXCEPT !.vf_mac_addresses = mac,
                                                  !.clear_to_send = TRUE]]
  /\ vmolr' = ResetVmolr(v)
  /\ vfte' = [vfte EXCEPT ![v] = info.link_enable]
  /\ vfre' = [vfre EXCEPT ![v] = RxEnable(info.link_enable)]
  /\ mbx_out' = [mbx_out EXCEPT ![v] =
        PfMsg("RESET", IF ok THEN "SUCCESS" ELSE "FAILURE", FALSE,
              IF ok THEN mac ELSE ZeroMac)]
  /\ UNCHANGED <<antispoof, maxfrs, mbx_rst, mbx_ack>>

\* Mutant: the NACK of a request from a VF not clear to send is not written.
RcvMsgNotCtsSilent(v) ==
  /\ mbx_req[v] # NoMsg /\ mbx_req[v].op \notin {"TAGGED", "RESET"}
  /\ ~vfinfo[v].clear_to_send
  /\ mbx_req' = [mbx_req EXCEPT ![v] = NoMsg]
  /\ UNCHANGED <<vfinfo, vmolr, antispoof, vfte, vfre, maxfrs, rar, mv_list,
                 mbx_rst, mbx_ack, mbx_out>>

\* Until the VF completes a reset every other request is NACKed.
RcvMsgNotCts(v) ==
  /\ mbx_req[v] # NoMsg /\ mbx_req[v].op \notin {"TAGGED", "RESET"}
  /\ ~vfinfo[v].clear_to_send
  /\ mbx_req' = [mbx_req EXCEPT ![v] = NoMsg]
  /\ mbx_out' = [mbx_out EXCEPT ![v] = Nack]
  /\ UNCHANGED <<vfinfo, vmolr, antispoof, vfte, vfre, maxfrs, rar, mv_list,
                 mbx_rst, mbx_ack>>

\* The common frame of a dispatched handler: op matches, the VF is clear
\* to send, the request is consumed and answered with CTS.
Dispatch(v, op, ok) ==
  /\ mbx_req[v] # NoMsg /\ mbx_req[v].op = op
  /\ vfinfo[v].clear_to_send
  /\ mbx_req' = [mbx_req EXCEPT ![v] = NoMsg]
  /\ mbx_out' = [mbx_out EXCEPT ![v] = Answer(v, ok)]
  /\ UNCHANGED <<mbx_rst, mbx_ack>>

\* Mutant: the check against an administratively set address is missing.
SetVfMacAddrNoPin(v) ==
  LET s == SetVfMac(rar, vfinfo[v].vf_mac_addresses, mbx_req[v].arg, v) IN
  /\ Dispatch(v, "SET_MAC_ADDR", IsValidMac(mbx_req[v].arg) /\ s.ok)
  /\ IF IsValidMac(mbx_req[v].arg)
       THEN rar' = s.rar /\ vfinfo' = [vfinfo EXCEPT ![v].vf_mac_addresses = s.mac]
       ELSE UNCHANGED <<rar, vfinfo>>
  /\ UNCHANGED <<vmolr, antispoof, vfte, vfre, maxfrs, mv_list>>

\* ixgbe_set_vf_mac_addr
SetVfMacAddr(v) ==
  LET a == mbx_req[v].arg
      info == vfinfo[v]
      allowed == IsValidMac(a) /\
                 ~(info.pf_set_mac /\ ~info.trusted /\ info.vf_mac_addresses # a)
      s == SetVfMac(rar, info.vf_mac_addresses, a, v)
  IN
  /\ Dispatch(v, "SET_MAC_ADDR", allowed /\ s.ok)
  /\ IF allowed
       THEN /\ rar' = s.rar
            /\ vfinfo' = [vfinfo EXCEPT ![v].vf_mac_addresses = s.mac]
       ELSE UNCHANGED <<rar, vfinfo>>
  /\ UNCHANGED <<vmolr, antispoof, vfte, vfre, maxfrs, mv_list>>

\* Mutant: the entry count is not clamped to IXGBE_MAX_VF_MC_ENTRIES.
SetVfMulticastsNoClamp(v) ==
  LET info == [vfinfo EXCEPT ![v].num_vf_mc_hashes = mbx_req[v].arg] IN
  /\ Dispatch(v, "SET_MULTICAST", TRUE)
  /\ vfinfo' = info
  /\ vmolr' = RestoreVfMulticasts([vmolr EXCEPT ![v] = @ \cup {"ROMPE"}], info)
  /\ UNCHANGED <<antispoof, vfte, vfre, maxfrs, rar, mv_list>>

\* ixgbe_set_vf_multicasts: keep at most MaxMcEntries hashes, set ROMPE,
\* then ixgbe_write_mc_addr_list re-syncs every VF's ROMPE.
SetVfMulticasts(v) ==
  LET n == Min({mbx_req[v].arg, MaxMcEntries})
      info == [vfinfo EXCEPT ![v].num_vf_mc_hashes = n]
  IN
  /\ Dispatch(v, "SET_MULTICAST", TRUE)
  /\ vfinfo' = info
  /\ vmolr' = RestoreVfMulticasts([vmolr EXCEPT ![v] = @ \cup {"ROMPE"}], info)
  /\ UNCHANGED <<antispoof, vfte, vfre, maxfrs, rar, mv_list>>

\* ixgbe_rcv_msg_from_vf, case SET_LPE, and ixgbe_set_vf_lpe. A frame over
\* the jumbo limit returns before any answer is written.
SetVfLpe(v) ==
  LET f == mbx_req[v].arg
      newapi == vfinfo[v].vf_api \in {"1.1", "1.2", "1.3"}
      err == MacType = "82599EB" /\
             IF newapi /\ PfJumbo THEN FALSE
             ELSE PfJumbo \/ f > ETH_FRAME_LEN + ETH_FCS_LEN
  IN
  /\ mbx_req[v] # NoMsg /\ mbx_req[v].op = "SET_LPE"
  /\ vfinfo[v].clear_to_send
  /\ IF f > IXGBE_MAX_JUMBO_FRAME_SIZE
       THEN /\ mbx_req' = [mbx_req EXCEPT ![v] = NoMsg]
            /\ UNCHANGED <<vfre, maxfrs, mbx_out, mbx_rst, mbx_ack>>
       ELSE /\ Dispatch(v, "SET_LPE", ~err)
            /\ vfre' = IF MacType = "82599EB" THEN [vfre EXCEPT ![v] = ~err] ELSE vfre
            /\ maxfrs' = IF ~err /\ maxfrs < f THEN f ELSE maxfrs
  /\ UNCHANGED <<vfinfo, vmolr, antispoof, vfte, rar, mv_list>>

\* ixgbe_set_vf_macvlan_msg: anti-spoofing is switched off as soon as a
\* non-zero index with a valid address passes the checks, before the slot
\* is looked for.
SetVfMacvlanMsg(v) ==
  LET idx == mbx_req[v].arg[1]
      a == mbx_req[v].arg[2]
      info == vfinfo[v]
      denied == info.pf_set_mac /\ ~info.trusted /\ idx > 0
      invalid == idx # 0 /\ ~IsValidMac(a)
      r == SetVfMacvlan(mv_list, rar, v, idx, a)
  IN
  /\ Dispatch(v, "SET_MACVLAN", ~denied /\ ~invalid /\ r.err = "OK")
  /\ IF denied \/ invalid
       THEN UNCHANGED <<mv_list, rar, antispoof>>
       ELSE /\ mv_list' = r.pool
            /\ rar' = r.rar
            /\ antispoof' = IF idx # 0 /\ info.spoofchk_enabled
                              THEN [antispoof EXCEPT ![v] = FALSE] ELSE antispoof
  /\ UNCHANGED <<vfinfo, vmolr, vfte, vfre, maxfrs>>

\* ixgbe_negotiate_vf_api
NegotiateVfApi(v) ==
  LET api == mbx_req[v].arg
      ok == api \in {"1.0", "1.1", "1.2", "1.3"}
  IN
  /\ Dispatch(v, "API_NEGOTIATE", ok)
  /\ vfinfo' = IF ok THEN [vfinfo EXCEPT ![v].vf_api = api] ELSE vfinfo
  /\ UNCHANGED <<vmolr, antispoof, vfte, vfre, maxfrs, rar, mv_list>>

\* The read-only handlers: their answer depends on the record only.
GetVfQueuesOk(v) == vfinfo[v].vf_api \in {"2.0", "1.1", "1.2", "1.3"}
GetVfRssOk(v) == vfinfo[v].rss_query_enabled /\ vfinfo[v].vf_api \in {"1.2", "1.3"}
GetVfLinkStateOk(v) == vfinfo[v].vf_api \in {"1.2", "1.3"}

RcvQuery(v) ==
  /\ \/ Dispatch(v, "GET_QUEUES", GetVfQueuesOk(v))
     \/ Dispatch(v, "GET_RETA", GetVfRssOk(v))
     \/ Dispatch(v, "GET_RSS_KEY", GetVfRssOk(v))
     \/ Dispatch(v, "GET_LINK_STATE", GetVfLinkStateOk(v))
     \/ Dispatch(v, "UNKNOWN", FALSE)
  /\ UNCHANGED <<vfinfo, vmolr, antispoof, vfte, vfre, maxfrs, rar, mv_list>>

\* ixgbe_update_vf_xcast_mode: the VMOLR bits each mode disables/enables.
XcastDisable == [m \in NONE..PROMISC |->
   CASE m = NONE -> {"BAM", "ROMPE", "MPE", "UPE", "VPE"}
     [] m = MULTI -> {"MPE", "UPE", "VPE"}
     [] m = ALLMULTI -> {"UPE", "VPE"}
     [] m = PROMISC -> {}]
XcastEnable == [m \in NONE..PROMISC |->
   CASE m = NONE -> {}
     [] m = MULTI -> {"BAM", "ROMPE"}
     [] m = ALLMULTI -> {"BAM", "ROMPE", "MPE"}
     [] m = PROMISC -> {"BAM", "ROMPE", "MPE", "UPE", "VPE"}]

\* Mutant: an untrusted VF's mode above MULTI is not downgraded.
UpdateVfXcastModeNoDowngrade(v) ==
  LET mode == mbx_req[v].arg
      info == vfinfo[v]
      apiOk == info.vf_api = "1.3" \/ (info.vf_api = "1.2" /\ mode # PROMISC)
      modeOk == mode \in {NONE, MULTI, ALLMULTI} \/
                (mode = PROMISC /\ MacType # "82599EB" /\ PfPromisc)
  IN
  /\ Dispatch(v, "UPDATE_XCAST_MODE", apiOk /\ (info.xcast_mode = mode \/ modeOk))
  /\ IF apiOk /\ modeOk /\ info.xcast_mode # mode
       THEN /\ vmolr' = [vmolr EXCEPT ![v] = (@ \ XcastDisable[mode]) \cup XcastEnable[mode]]
            /\ vfinfo' = [vfinfo EXCEPT ![v].xcast_mode = mode]
       ELSE UNCHANGED <<vmolr, vfinfo>>
  /\ UNCHANGED <<antispoof, vfte, vfre, maxfrs, rar, mv_list>>

UpdateVfXcastMode(v) ==
  LET req == mbx_req[v].arg
      info == vfinfo[v]
      apiOk == \/ info.vf_api = "1.3"
               \/ info.vf_api = "1.2" /\ req # PROMISC
      mode == IF req > MULTI /\ ~info.trusted THEN MULTI ELSE req
      modeOk == \/ mode \in {NONE, MULTI, ALLMULTI}
                \/ mode = PROMISC /\ MacType # "82599EB" /\ PfPromisc
      change == apiOk /\ modeOk /\ info.xcast_mode # mode
  IN
  /\ Dispatch(v, "UPDATE_XCAST_MODE",
              apiOk /\ (info.xcast_mode = mode \/ modeOk))
  /\ IF change
       THEN /\ vmolr' = [vmolr EXCEPT ![v] = (@ \ XcastDisable[mode]) \cup XcastEnable[mode]]
            /\ vfinfo' = [vfinfo EXCEPT ![v].xcast_mode = mode]
       ELSE UNCHANGED <<vmolr, vfinfo>>
  /\ UNCHANGED <<antispoof, vfte, vfre, maxfrs, rar, mv_list>>

\* ixgbe_rcv_ack_from_vf: a VF that is not clear to send is NACKed.
RcvAckFromVf(v) ==
  /\ mbx_ack[v]
  /\ mbx_ack' = [mbx_ack EXCEPT ![v] = FALSE]
  /\ mbx_out' = IF vfinfo[v].clear_to_send THEN mbx_out
                ELSE [mbx_out EXCEPT ![v] = Nack]
  /\ UNCHANGED <<vfinfo, vmolr, antispoof, vfte, vfre, maxfrs, rar, mv_list,
                 mbx_req, mbx_rst>>

\* ixgbe_check_mdd_event: every flagged VF is restored, loses
\* clear_to_send and is pinged with CONTROL | CTS.
CheckMddEvent(flagged) ==
  /\ MddRestore
  /\ vfinfo' = [v \in VFs |-> IF v \in flagged
                   THEN [vfinfo[v] EXCEPT !.clear_to_send = FALSE] ELSE vfinfo[v]]
  /\ mbx_out' = [v \in VFs |-> IF v \in flagged
                   THEN PfMsg("CONTROL", "NONE", TRUE, ZeroMac) ELSE mbx_out[v]]
  /\ UNCHANGED <<vmolr, antispoof, vfte, vfre, maxfrs, rar, mv_list,
                 mbx_req, mbx_rst, mbx_ack>>

-----------------------------------------------------------------------------
(* Administrative setters and PF events.                                   *)

\* ixgbe_ndo_set_vf_trust: a change drops clear_to_send and pings the VF.
NdoSetVfTrust(v, setting) ==
  /\ vfinfo[v].trusted # setting
  /\ vfinfo' = [vfinfo EXCEPT ![v].trusted = setting, ![v].clear_to_send = FALSE]
  /\ mbx_out' = [mbx_out EXCEPT ![v] = PfMsg("CONTROL", "NONE", FALSE, ZeroMac)]
  /\ UNCHANGED <<vmolr, antispoof, vfte, vfre, maxfrs, rar, mv_list,
                 mbx_req, mbx_rst, mbx_ack>>

\* ixgbe_ndo_set_vf_mac with a valid address: pin it if the filter fits.
\* (An address that is neither valid nor zero is refused unchanged.)
NdoSetVfMac(v, a) ==
  LET s == SetVfMac(rar, vfinfo[v].vf_mac_addresses, a, v) IN
  /\ IsValidMac(a)
  /\ rar' = s.rar
  /\ vfinfo' = [vfinfo EXCEPT ![v].vf_mac_addresses = s.mac,
                              ![v].pf_set_mac = IF s.ok THEN TRUE ELSE @]
  /\ UNCHANGED <<vmolr, antispoof, vfte, vfre, maxfrs, mv_list,
                 mbx_req, mbx_rst, mbx_ack, mbx_out>>

\* ixgbe_ndo_set_vf_mac with the zero address: unpin, if the filter of the
\* current address can be deleted.
NdoClearVfMac(v) ==
  LET a == vfinfo[v].vf_mac_addresses IN
  /\ a # ZeroMac
  /\ <<a, v>> \in BagToSet(rar)
  /\ rar' = DelMacFilter(rar, a, v)
  /\ vfinfo' = [vfinfo EXCEPT ![v].vf_mac_addresses = ZeroMac,
                              ![v].pf_set_mac = FALSE]
  /\ UNCHANGED <<vmolr, antispoof, vfte, vfre, maxfrs, mv_list,
                 mbx_req, mbx_rst, mbx_ack, mbx_out>>

\* ixgbe_ndo_set_vf_spoofchk
NdoSetVfSpoofchk(v, setting) ==
  /\ vfinfo' = [vfinfo EXCEPT ![v].spoofchk_enabled = setting]
  /\ antispoof' = [antispoof EXCEPT ![v] = setting]
  /\ UNCHANGED <<vmolr, vfte, vfre, maxfrs, rar, mv_list,
                 mbx_req, mbx_rst, mbx_ack, mbx_out>>

\* ixgbe_ndo_set_vf_rss_query_en (82599 and X540 only)
NdoSetVfRssQueryEn(v, setting) ==
  /\ MacType \in {"82599EB", "X540"}
  /\ vfinfo' = [vfinfo EXCEPT ![v].rss_query_enabled = setting]
  /\ UNCHANGED <<vmolr, antispoof, vfte, vfre, maxfrs, rar, mv_list,
                 mbx_req, mbx_rst, mbx_ack, mbx_out>>

\* ixgbe_set_vf_link_state on a record: link_enable from the state (AUTO
\* follows whether the PF is down), then ixgbe_set_vf_rx_tx.
LinkEnable(state, pfDown) ==
  CASE state = "AUTO" -> ~pfDown [] state = "ENABLE" -> TRUE [] state = "DISABLE" -> FALSE

\* ixgbe_set_vf_link_state for the VFs in S: rx/tx follow link_enable,
\* clear_to_send is dropped and each VF is pinged.
SetVfLinkState(S, state, pfDown) ==
  LET le(v) == LinkEnable(state[v], pfDown) IN
  /\ vfinfo' = [v \in VFs |-> IF v \in S
        THEN [vfinfo[v] EXCEPT !.link_state = state[v], !.link_enable = le(v),
                               !.clear_to_send = FALSE]
        ELSE vfinfo[v]]
  /\ vfte' = [v \in VFs |-> IF v \in S THEN le(v) ELSE vfte[v]]
  /\ vfre' = [v \in VFs |-> IF v \in S THEN RxEnable(le(v)) ELSE vfre[v]]
  /\ mbx_out' = [v \in VFs |-> IF v \in S
                   THEN PfMsg("CONTROL", "NONE", FALSE, ZeroMac) ELSE mbx_out[v]]
  /\ UNCHANGED <<vmolr, antispoof, maxfrs, rar, mv_list, mbx_req, mbx_rst, mbx_ack>>

\* ixgbe_ndo_set_vf_link_state: ENABLE is reported unsupported and ignored.
NdoSetVfLinkState(v, state, pfDown) ==
  /\ state \in {"AUTO", "DISABLE"}
  /\ SetVfLinkState({v}, [w \in VFs |-> IF w = v THEN state
                                        ELSE vfinfo[w].link_state], pfDown)

\* ixgbe_set_all_vfs: every VF re-applies its own link_state.
SetAllVfs(pfDown) ==
  SetVfLinkState(VFs, [w \in VFs |-> vfinfo[w].link_state], pfDown)

\* ixgbe_ping_all_vfs
PingAllVfs ==
  /\ mbx_out' = [v \in VFs |-> Ping(v)]
  /\ UNCHANGED <<vfinfo, vmolr, antispoof, vfte, vfre, maxfrs, rar, mv_list,
                 mbx_req, mbx_rst, mbx_ack>>

\* ixgbe_restore_vf_multicasts, run when the PF's own rx mode changes.
PfRestoreVfMulticasts ==
  /\ vmolr' = RestoreVfMulticasts(vmolr, vfinfo)
  /\ UNCHANGED <<vfinfo, antispoof, vfte, vfre, maxfrs, rar, mv_list,
                 mbx_req, mbx_rst, mbx_ack, mbx_out>>

-----------------------------------------------------------------------------
VfStep ==
  \E v \in VFs :
    \/ \E m \in Msgs : VfSend(v, m)
    \/ "FLR" \in VfOps /\ VfFlr(v)
    \/ "READ" \in VfOps /\ VfReadReply(v)

\* ixgbe_rcv_msg_from_vf for VF v, whichever path the request takes.
PfRcvMsg(v) ==
  \/ "read_mbx" \in MbxFaults /\ RcvMsgReadError(v)
  \/ RcvMsgProcessed(v)
  \/ VfResetMsg(v)
  \/ RcvMsgNotCts(v)
  \/ SetVfMacAddr(v)
  \/ SetVfMulticasts(v)
  \/ SetVfLpe(v)
  \/ SetVfMacvlanMsg(v)
  \/ NegotiateVfApi(v)
  \/ RcvQuery(v)
  \/ UpdateVfXcastMode(v)

PfMsgTask ==
  \/ \E v \in VFs : VfResetEvent(v) \/ PfRcvMsg(v) \/ RcvAckFromVf(v)
  \/ "mdd" \in AdminOps /\ \E flagged \in SUBSET VFs \ {{}} : CheckMddEvent(flagged)

AdminStep ==
  \/ \E v \in VFs :
       \/ "trust" \in AdminOps /\ \E b \in BOOLEAN : NdoSetVfTrust(v, b)
       \/ "mac" \in AdminOps /\ \E a \in Macs : NdoSetVfMac(v, a)
       \/ "mac" \in AdminOps /\ NdoClearVfMac(v)
       \/ "spoofchk" \in AdminOps /\ \E b \in BOOLEAN : NdoSetVfSpoofchk(v, b)
       \/ "rss" \in AdminOps /\ \E b \in BOOLEAN : NdoSetVfRssQueryEn(v, b)
       \/ "link" \in AdminOps /\
            \E s \in LinkStates, d \in BOOLEAN : NdoSetVfLinkState(v, s, d)
  \/ "link" \in AdminOps /\ \E d \in BOOLEAN : SetAllVfs(d)
  \/ "ping" \in AdminOps /\ PingAllVfs
  \/ "rxmode" \in AdminOps /\ PfRestoreVfMulticasts

Next == VfStep \/ PfMsgTask \/ AdminStep

Spec == Init /\ [][Next]_vars

\* ixgbe_msg_task runs from the mailbox interrupt, which stays asserted
\* while a VF's REQ, ACK or RSTD bit is set, and each run walks every VF:
\* a VF's pending reset, message and ack are each served. The VFs and the
\* administrator get no fairness: a VF may stop, an administrator may
\* never act.
FairSpec ==
  /\ Spec
  /\ \A v \in VFs : /\ WF_vars(VfResetEvent(v))
                   /\ WF_vars(PfRcvMsg(v))
                   /\ WF_vars(RcvAckFromVf(v))

-----------------------------------------------------------------------------
(* ixgbe_ndo_get_vf_config: the projection of the record an admin sees.    *)
GetVfConfig(v) ==
  [mac |-> vfinfo[v].vf_mac_addresses, linkstate |-> vfinfo[v].link_state,
   spoofchk |-> vfinfo[v].spoofchk_enabled,
   rss_query_en |-> vfinfo[v].rss_query_enabled, trusted |-> vfinfo[v].trusted]

PfMsgs == [kind : {"RESET", "REPLY", "CONTROL"},
           ack : {"SUCCESS", "FAILURE", "NONE"}, cts : BOOLEAN,
           mac : Macs \cup {ZeroMac}]

TypeOK ==
  /\ vfinfo \in [VFs -> [clear_to_send : BOOLEAN,
                         vf_api : {"1.0", "1.1", "1.2", "1.3"},
                         vf_mac_addresses : Macs \cup {ZeroMac},
                         pf_set_mac : BOOLEAN, trusted : BOOLEAN,
                         xcast_mode : NONE..PROMISC,
                         num_vf_mc_hashes : 0..MaxMcEntries,
                         spoofchk_enabled : BOOLEAN, rss_query_enabled : BOOLEAN,
                         link_state : LinkStates, link_enable : BOOLEAN]]
  /\ vmolr \in [VFs -> SUBSET VmolrBits]
  /\ antispoof \in [VFs -> BOOLEAN]
  /\ vfte \in [VFs -> BOOLEAN] /\ vfre \in [VFs -> BOOLEAN]
  /\ maxfrs \in Nat
  /\ IsABag(rar) /\ BagToSet(rar) \subseteq Macs \X VFs
  /\ BagCardinality(rar) + PfRarUsed <= RarEntries
  /\ mv_list \in [1..PoolSize -> [vf : VFs \cup {NoVf}, free : BOOLEAN,
                                 addr : Macs \cup {ZeroMac}]]
  /\ mbx_req \in [VFs -> AllMsgs \cup {NoMsg}]
  /\ mbx_rst \in [VFs -> BOOLEAN] /\ mbx_ack \in [VFs -> BOOLEAN]
  /\ mbx_out \in [VFs -> PfMsgs \cup {NoMsg}]

-----------------------------------------------------------------------------
(* Properties.                                                             *)

\* The step takes v's request out of the mailbox (a PF handler ran on it).
Consumes(v) == mbx_req[v] # NoMsg /\ mbx_req'[v] = NoMsg

\* Slots of the MAC-VLAN list v holds for address a.
PoolCount(a, v) == Cardinality({i \in Owned(mv_list, v) : mv_list[i].addr = a})

\* v's primary address has its own RAR entry, beyond those of its slots.
PrimaryInstalled(v) ==
  LET a == vfinfo[v].vf_mac_addresses
  IN a # ZeroMac /\ CopiesIn(<<a, v>>, rar) > PoolCount(a, v)

\* MAC ownership (ixgbe_set_vf_mac_addr, ixgbe_vf_reset_msg): no request
\* of an untrusted VF whose address the PF pinned changes that address,
\* not even by the zeroing that a failed filter add causes.
PinnedMacHeld ==
  [][\A v \in VFs :
       Consumes(v) /\ vfinfo[v].pf_set_mac /\ ~vfinfo[v].trusted
         => vfinfo'[v].vf_mac_addresses = vfinfo[v].vf_mac_addresses
    ]_vars

\* Xcast policy (ixgbe_update_vf_xcast_mode): no request of an untrusted
\* VF turns on all-multicast, unicast-promiscuous or VLAN-promiscuous
\* receive for its pool.
UntrustedNoEscalation ==
  [][\A v \in VFs :
       Consumes(v) /\ ~vfinfo[v].trusted
         => (vmolr'[v] \ vmolr[v]) \cap {"MPE", "UPE", "VPE"} = {}
    ]_vars

\* RAR reservation (ixgbe_alloc_vf_macvlans): however the VFs use the
\* shared MAC-VLAN slots, the RAR table keeps a free entry for the primary
\* address of every VF that has none installed.
PrimaryFilterFits ==
  RarEntries - PfRarUsed - BagCardinality(rar)
    >= Cardinality({v \in VFs : ~PrimaryInstalled(v)})

\* Filter accounting (ixgbe_set_vf_mac, ixgbe_set_vf_macvlan, reset): every
\* RAR entry a VF owns stands for its primary address or one of its slots.
RarAccounted ==
  \A e \in BagToSet(rar) :
    CopiesIn(e, rar) <= PoolCount(e[1], e[2])
                        + (IF vfinfo[e[2]].vf_mac_addresses = e[1] THEN 1 ELSE 0)

\* Reset ordering (spec 4.2): while a VF is clear to send, the MAC address
\* recorded for it is installed in the filter table.
MacFilterWhileCts ==
  \A v \in VFs :
    vfinfo[v].clear_to_send /\ vfinfo[v].vf_mac_addresses # ZeroMac
      => PrimaryInstalled(v)

\* Trust (spec 4.3): an untrusted VF's pool is never in all-multicast or
\* unicast-promiscuous receive mode.
UntrustedNotPromisc ==
  \A v \in VFs : ~vfinfo[v].trusted => vmolr[v] \cap {"MPE", "UPE"} = {}

\* Control messages (ixgbe_ping_vf, ixgbe_check_mdd_event): the CTS bit of
\* a control message the VF has not read yet tells the truth about its
\* clear_to_send.
PingEchoesCts ==
  \A v \in VFs :
    mbx_out[v] # NoMsg /\ mbx_out[v].kind = "CONTROL"
      => mbx_out[v].cts = vfinfo[v].clear_to_send

\* Anti-spoofing (ixgbe_set_vf_macvlan_msg, ixgbe_ndo_get_vf_config): while
\* the administrator sees spoofchk on, hardware anti-spoofing is off only
\* for a VF that holds a MAC-VLAN filter.
SpoofchkReported ==
  \A v \in VFs :
    GetVfConfig(v).spoofchk /\ ~antispoof[v] => Owned(mv_list, v) # {}

\* Every request is answered (spec 4.2 "the response is ... written back";
\* spec 7 "handler-local errors become a FAILURE response"): a request the
\* VF posted into an empty mailbox is eventually followed by a reply or a
\* reset answer from ixgbe_rcv_msg_from_vf, whatever path it takes there,
\* however resets, FLRs, MDD events and the administrator interleave.
RequestAnswered ==
  \A v \in VFs :
    (mbx_req[v] # NoMsg /\ mbx_req[v].op # "TAGGED" /\ mbx_out[v] = NoMsg)
      ~> (mbx_out[v] # NoMsg /\ mbx_out[v].kind \in {"REPLY", "RESET"})
=============================================================================
