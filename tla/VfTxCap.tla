------------------------------ MODULE VfTxCap ------------------------------
(***************************************************************************)
(* What VF transmit rate limiting promises (spec 4, "Rate limiting"): each *)
(* VF has a cap in Mbps, 0 meaning unlimited.  The administrator sets one  *)
(* VF's cap, only while the link runs at the maximum speed, and only to a  *)
(* value between 10 (exclusive) and that speed.  The caps are tied to the  *)
(* speed they were set at; once the link speed differs from it they may   *)
(* all be dropped together.  Otherwise caps vanish only with the VF table  *)
(* (SR-IOV disabled or re-enabled) or with the driver.                     *)
(***************************************************************************)
EXTENDS Naturals

CONSTANTS
    VfIdx,      \* VF indices
    Speeds,     \* link speeds in Mbps, 0 for none
    MaxSpeed    \* the only speed at which caps may be set

VARIABLES
    present,    \* the driver is bound to the PF
    vfs,        \* number of VFs, whose indices have caps
    cap,        \* cap[i]: the transmit cap of VF i, 0 = unlimited
    capSpeed,   \* the link speed the caps were set at, 0 = none
    speed       \* the current link speed

vars == <<present, vfs, cap, capSpeed, speed>>

NoCaps == [i \in VfIdx |-> 0]
ValidCaps == {0} \cup 11..MaxSpeed

Init ==
    /\ present = FALSE
    /\ vfs = 0
    /\ cap = NoCaps
    /\ capSpeed = 0
    /\ speed \in Speeds

\* VF i gets a new cap; the others keep theirs.  (Stated by membership, so
\* that a refinement check does not enumerate ValidCaps.)
SetCap(i) ==
    /\ present /\ i < vfs
    /\ speed = MaxSpeed
    /\ cap' \in [VfIdx -> ValidCaps]
    /\ \A j \in VfIdx \ {i} : cap'[j] = cap[j]
    /\ capSpeed' = MaxSpeed
    /\ UNCHANGED <<present, vfs, speed>>

DropCaps ==
    /\ present
    /\ capSpeed # 0 /\ capSpeed # speed
    /\ cap' = NoCaps
    /\ capSpeed' = 0
    /\ UNCHANGED <<present, vfs, speed>>

Relink(s) ==
    /\ present
    /\ speed' = s
    /\ UNCHANGED <<present, vfs, cap, capSpeed>>

\* The VF table is freed or replaced by one of another size.
RenewTable ==
    /\ present
    /\ vfs' \in Nat \ {vfs}
    /\ cap' = NoCaps
    /\ UNCHANGED <<present, capSpeed, speed>>

Unload ==
    /\ present /\ vfs = 0
    /\ present' = FALSE
    /\ UNCHANGED <<vfs, cap, capSpeed, speed>>

Load ==
    /\ ~present
    /\ present' = TRUE
    /\ vfs' \in Nat
    /\ cap' = NoCaps
    /\ capSpeed' = 0
    /\ speed' = 0

Next ==
    \/ \E i \in VfIdx : SetCap(i)
    \/ DropCaps
    \/ \E s \in Speeds : Relink(s)
    \/ RenewTable
    \/ Unload
    \/ Load

Spec == Init /\ [][Next]_vars
=============================================================================
