----------------------------- MODULE VfRateLimit -----------------------------
(***************************************************************************)
(* VF transmit rate limiting in ixgbe_sriov.c (ixgbe_ndo_set_vf_bw,        *)
(* ixgbe_set_vf_rate_limit, ixgbe_check_vf_rate_limit), composed with the  *)
(* SR-IOV lifecycle it runs over.  A VF's cap is the tx_rate field of its   *)
(* record in adapter->vfinfo, so it lives and dies with the record table;  *)
(* the rate factor programmed into the VF's RTTBCNRC registers outlives    *)
(* the table; adapter->vf_rate_link_speed, the speed the factors were     *)
(* computed for, is one value for the whole adapter.                       *)
(*                                                                         *)
(* The administrator calls ndo_set_vf_bw; the PF's watchdog calls          *)
(* ixgbe_check_vf_rate_limit (its call site and the link state it reads,   *)
(* adapter->link_up and adapter->link_speed, are maintained in             *)
(* ixgbe_main.c and change here at any time).  All queues of a VF's pool   *)
(* get the same RTTBCNRC value, so one value stands for the pool.          *)
(***************************************************************************)
EXTENDS SriovLifecycle, Bitwise

CONSTANTS
    LinkSpeeds,     \* IXGBE_LINK_SPEED_* codes adapter->link_speed can hold
    RateInputs      \* max_tx_rate values the administrator passes

\* The IXGBE_LINK_SPEED_* codes of ixgbe_type.h, and the RTTBCNRC fields.
SPEED_100_FULL == 8
SPEED_1GB_FULL == 32
SPEED_10GB_FULL == 128
RF_INT_SHIFT == 14
RF_DEC_MASK == 2^RF_INT_SHIFT - 1
RF_INT_MASK == RF_DEC_MASK * 2^RF_INT_SHIFT
RF_MASK == RF_INT_MASK | RF_DEC_MASK

\* The rate-factor fields are the low 28 bits, so masking with them is
\* taking the remainder by 2^28.
ASSUME RF_MASK = 2^28 - 1
Masked(x) == x % (RF_MASK + 1)

\* An RTTBCNRC value: its RS_ENA bit (bit 31, kept apart because TLC's
\* integers are signed 32-bit) and its other bits.
Bcnrc(ena, bits) == [rs_ena |-> ena, bits |-> bits]
BcnrcOff == Bcnrc(FALSE, 0)

\* The VF indices a table of the largest configured size has.
VfIdx == 0..(CHOOSE m \in VfCounts : \A c \in VfCounts : c <= m) - 1

VARIABLES
    link_up,            \* adapter->link_up
    link_speed,         \* adapter->link_speed, a speed code, 0 when unknown
    vf_rate_link_speed, \* adapter->vf_rate_link_speed
    tx_rate,            \* tx_rate[i]: adapter->vfinfo[i].tx_rate
    bcnrc               \* bcnrc[i]: RTTBCNRC of VF i's queues

rvars == <<link_up, link_speed, vf_rate_link_speed, tx_rate, bcnrc>>
allvars == <<vars, rvars>>

NoRates == [i \in VfIdx |-> 0]
NoLimits == [i \in VfIdx |-> BcnrcOff]

\* ixgbe_link_mbps.
LinkMbps(s) == CASE s = SPEED_100_FULL -> 100
               []   s = SPEED_1GB_FULL -> 1000
               []   s = SPEED_10GB_FULL -> 10000
               []   OTHER -> 0

ASSUME \A s \in LinkSpeeds : LinkMbps(s) < 2^18

(***************************************************************************)
(* The RTTBCNRC value ixgbe_set_vf_rate_limit computes in its u32          *)
(* bcnrc_val: the link speed shifted left by RF_INT_SHIFT, divided by the  *)
(* rate, masked to the rate-factor fields, with the scheduler enabled; 0   *)
(* when the rate is 0.  The shift cannot wrap: no speed reaches 2^18.      *)
(***************************************************************************)
BcnrcVal(speed, rate) ==
    IF rate = 0 THEN BcnrcOff
    ELSE Bcnrc(TRUE, Masked((speed * 2^RF_INT_SHIFT) \div rate))

\* ixgbe_set_vf_rate_limit(vf) at speed for rate: every Tx queue of VF vf's
\* pool gets the same RTTBCNRC value (RTTBCNRM, which holds no per-VF
\* state, is left out).
SetVfRateLimit(b, vf, speed, rate) == [b EXCEPT ![vf] = BcnrcVal(speed, rate)]

(***************************************************************************)
(* ixgbe_check_vf_rate_limit: nothing when no rate was set; when the link *)
(* speed is no longer the one the rates were set at, forget that speed and *)
(* zero every VF's tx_rate; then reprogram every VF below num_vfs with    *)
(* the speed as it now is.                                                 *)
(***************************************************************************)
\* The same with each VF programmed before its tx_rate is zeroed.
CheckVfRateLimitProgramFirst ==
    /\ loaded /\ vf_rate_link_speed # 0
    /\ LET changed == LinkMbps(link_speed) # vf_rate_link_speed
           speed == IF changed THEN 0 ELSE vf_rate_link_speed
       IN /\ vf_rate_link_speed' = speed
          /\ tx_rate' = [i \in VfIdx |-> IF changed /\ i < num_vfs THEN 0 ELSE tx_rate[i]]
          /\ bcnrc' = [i \in VfIdx |-> IF i < num_vfs
                                         THEN BcnrcVal(speed, tx_rate[i])
                                         ELSE bcnrc[i]]
    /\ UNCHANGED <<vars, link_up, link_speed>>

CheckVfRateLimit ==
    /\ loaded /\ vf_rate_link_speed # 0
    /\ LET changed == LinkMbps(link_speed) # vf_rate_link_speed
           speed == IF changed THEN 0 ELSE vf_rate_link_speed
           rates == [i \in VfIdx |-> IF changed /\ i < num_vfs THEN 0 ELSE tx_rate[i]]
       IN /\ vf_rate_link_speed' = speed
          /\ tx_rate' = rates
          /\ bcnrc' = [i \in VfIdx |-> IF i < num_vfs
                                         THEN BcnrcVal(speed, rates[i])
                                         ELSE bcnrc[i]]
    /\ UNCHANGED <<vars, link_up, link_speed>>

(***************************************************************************)
(* ixgbe_ndo_set_vf_bw(vf, rate): -EINVAL unless 0 <= vf < num_vfs, the   *)
(* link is up at 10 Gb/s and the rate is 0 or in 11..10000; then record    *)
(* the link speed and the rate, and program VF vf.                         *)
(***************************************************************************)
NdoSetVfBwNoRange(vf, rate) ==
    /\ loaded
    /\ vf >= 0 /\ vf < num_vfs
    /\ link_up
    /\ LinkMbps(link_speed) = 10000
    /\ vf_rate_link_speed' = 10000
    /\ tx_rate' = [tx_rate EXCEPT ![vf] = rate]
    /\ bcnrc' = SetVfRateLimit(bcnrc, vf, 10000, rate)
    /\ UNCHANGED <<vars, link_up, link_speed>>

NdoSetVfBw(vf, rate) ==
    /\ loaded
    /\ vf >= 0 /\ vf < num_vfs
    /\ link_up
    /\ LinkMbps(link_speed) = 10000
    /\ rate # 0 => rate > 10 /\ rate <= 10000
    /\ vf_rate_link_speed' = 10000
    /\ tx_rate' = [tx_rate EXCEPT ![vf] = rate]
    /\ bcnrc' = SetVfRateLimit(bcnrc, vf, 10000, rate)
    /\ UNCHANGED <<vars, link_up, link_speed>>

\* The watchdog (ixgbe_main.c) records a new link state.
LinkChange ==
    /\ loaded
    /\ \E up \in BOOLEAN, s \in LinkSpeeds :
         /\ <<up, s>> # <<link_up, link_speed>>
         /\ link_up' = up /\ link_speed' = s
    /\ UNCHANGED <<vars, vf_rate_link_speed, tx_rate, bcnrc>>

(***************************************************************************)
(* The lifecycle's steps.  A successful __ixgbe_enable_sriov gives a new,  *)
(* zeroed vfinfo (kcalloc), and ixgbe_pci_sriov_enable then resets the     *)
(* device "before enabling SRIOV" (ixgbe_sriov_reinit), which clears the   *)
(* RTTBCNRC registers.  Probe starts from a zeroed adapter and a reset     *)
(* device.  The other steps leave rate limiting alone.                    *)
(***************************************************************************)
TableRenewed ==
    IF vfinfo' # Null /\ vfinfo' # vfinfo
      THEN tx_rate' = NoRates /\ bcnrc' = NoLimits
      ELSE UNCHANGED <<tx_rate, bcnrc>>

LifecycleStep ==
    \/ /\ \E n \in VfCounts : PciSriovEnable(n)
       /\ TableRenewed
       /\ UNCHANGED <<link_up, link_speed, vf_rate_link_speed>>
    \/ /\ Probe
       /\ link_up' = FALSE /\ link_speed' = 0 /\ vf_rate_link_speed' = 0
       /\ tx_rate' = NoRates /\ bcnrc' = NoLimits
    \/ /\ \/ PciSriovDisable
          \/ DisableFinish
          \/ Remove
          \/ \E vf \in {i \in {0, num_vfs - 1} : i >= 0} : MsgTaskCheck(vf)
          \/ \E vf \in {-1, 0, num_vfs - 1} : NdoCheck(vf)
          \/ \E r \in Readers : ReaderUse(r)
          \/ GuestAssign
          \/ GuestRelease
       /\ UNCHANGED rvars

RateStep ==
    \/ \E vf \in {-1, 0, num_vfs - 1}, rate \in RateInputs : NdoSetVfBw(vf, rate)
    \/ CheckVfRateLimit
    \/ LinkChange

RateInit ==
    /\ Init
    /\ link_up = FALSE /\ link_speed = 0 /\ vf_rate_link_speed = 0
    /\ tx_rate = NoRates /\ bcnrc = NoLimits

RateNext == LifecycleStep \/ RateStep

RateSpec == RateInit /\ [][RateNext]_allvars

-----------------------------------------------------------------------------
\* The rate an RTTBCNRC value enforces, for the speed its factor was
\* computed at: 0 with the scheduler off, else speed / factor.
EnforcedRate(v, speed) ==
    LET rf == Masked(v.bits)
    IN CASE ~v.rs_ena -> 0
       []   rf = 0 -> -1
       []   OTHER -> (speed * 2^RF_INT_SHIFT) \div rf

(***************************************************************************)
(* The rate ixgbe_ndo_get_vf_config reports for a VF (vfinfo[].tx_rate)   *)
(* is the rate its queues are limited to: the rate factor round-trips      *)
(* through the u32 arithmetic and the masks, and a link change, a table    *)
(* renewal or another VF's setting never leaves a register and a tx_rate  *)
(* disagreeing.                                                            *)
(***************************************************************************)
ReportedRateEnforced ==
    \A i \in VfIdx :
        i < num_vfs => EnforcedRate(bcnrc[i], vf_rate_link_speed) = tx_rate[i]

(***************************************************************************)
(* Refinement: the registers implement the rate-limiting policy of the     *)
(* specification (VfTxCap).  A VF's cap is the rate its registers enforce *)
(* while it exists; caps are set one VF at a time to a valid value at      *)
(* 10 Gb/s, dropped all together only when the link speed moved away from  *)
(* the one they were set at, and start at zero with a new table.          *)
(***************************************************************************)
TxCap == INSTANCE VfTxCap WITH
    present <- loaded,
    vfs <- num_vfs,
    cap <- [i \in VfIdx |-> IF i < num_vfs
                              THEN EnforcedRate(bcnrc[i], vf_rate_link_speed)
                              ELSE 0],
    capSpeed <- vf_rate_link_speed,
    speed <- LinkMbps(link_speed),
    Speeds <- {LinkMbps(s) : s \in LinkSpeeds \cup {0}},
    MaxSpeed <- 10000

TxCapRefined == TxCap!Spec
=============================================================================
