------------------------------- MODULE LvmNode -------------------------------
(***************************************************************************)
(* The disks and volume groups of one node, and the LVM commands that the  *)
(* pods of the operator run on them (pkg/util/sys/lvm.go, disks.go).  What *)
(* lvm(8) refuses is taken from its manual: nobody answers its questions.  *)
(***************************************************************************)
EXTENDS Integers, FiniteSets

CONSTANTS
    Disk,         \* the disks of the node
    Vg,           \* names of volume groups, hence of device classes
    Raw,          \* what a disk without any signature holds
    Label,        \* the label of a physical volume that is in no group
    Missing,      \* how vgs names the physical volumes it cannot find
    FaultKinds,   \* the kinds of fault that happen: see Fault
    MaxFaults,    \* bound: faults of any kind
    MaxVolumes    \* bound: disks that hold logical volumes at a time

ASSUME LvmAssumption ==
    /\ Raw \notin Vg /\ Label \notin Vg /\ Raw # Label /\ Missing \notin Disk
    /\ MaxFaults \in Nat /\ MaxVolumes \in Nat

VARIABLES
    pv,        \* what each disk holds: nothing, a label, or a volume group
    present,   \* the disks that answer
    lv,        \* the disks that hold a part of a logical volume
    faults     \* faults so far

lvmVars == <<pv, present, lv, faults>>
nodeVars == <<present, lv>>

LvmTypeOK ==
    /\ pv \in [Disk -> Vg \cup {Raw, Label}]
    /\ present \subseteq Disk /\ lv \subseteq Disk
    /\ faults \in 0 .. MaxFaults

\* A "command" fails though LVM would accept it, "udev" does not answer, a "disk"
\* fails, a "pod" or the "daemon" dies, the "operator" starts again, a "wait"
\* takes longer than its limit, a "write" of a status is refused.
Fault(kind) == kind \in FaultKinds /\ faults < MaxFaults /\ faults' = faults + 1

Members(g) == {d \in Disk : pv[d] = g}

-----------------------------------------------------------------------------
(* Queries.                                                                *)

\* vgs finds a group as long as one of its disks answers.
Found(g) == Members(g) \cap present # {}

Whole(g) == Members(g) # {} /\ Members(g) \subseteq present

\* GetVolumeGroups, GetPhysicalVolume: all disks that do not answer are one name.
VolumeGroups == {g \in Vg : Found(g)}
PhysicalVolumes(g) == (Members(g) \cap present)
                        \cup (IF Members(g) \subseteq present THEN {} ELSE {Missing})

HasVolumes(g) == Members(g) \cap lv # {}

\* GetAvailableDevices: no signature.  Disks whose udev data cannot be read
\* pass for ones without, unless they have logical volumes as children.
Unsigned == {d \in present : pv[d] = Raw}
Blind == {{}} \cup IF "udev" \in FaultKinds /\ faults < MaxFaults
                  THEN {{d} : d \in {x \in present \ lv : pv[x] # Raw}} ELSE {}

-----------------------------------------------------------------------------
(* Commands: what each needs and what it does.                             *)

CanPvCreate(d)   == d \in present /\ pv[d] \in {Raw, Label}
CanVgCreate(g, ds) == /\ ds # {} /\ Members(g) = {}
                      /\ \A d \in ds : d \in present /\ pv[d] = Label
CanVgExtend(g, ds) == Whole(g) /\ \A d \in ds : d \in present /\ pv[d] = Label
CanVgReduce(g, ds) == Whole(g) /\ ds \subseteq Members(g) /\ ds # Members(g) /\ ds \cap lv = {}
CanVgRemove(g)     == Whole(g) /\ ~HasVolumes(g)
CanPvRemove(ds)    == \A d \in ds : d \in present /\ pv[d] = Label

Holds(ds, x) == pv' = [d \in Disk |-> IF d \in ds THEN x ELSE pv[d]]

\* A command works, or fails because it must or because it happens to.
Works(can, ds, x) ==
    /\ can /\ Holds(ds, x)
    /\ UNCHANGED <<faults, nodeVars>>

Fails(can) ==
    /\ IF can THEN Fault("command") ELSE UNCHANGED faults
    /\ UNCHANGED <<pv, nodeVars>>

-----------------------------------------------------------------------------
(* The hardware, and the volumes lvmd creates in the groups it serves.     *)

LoseDisk(d) ==
    /\ d \in present /\ Fault("disk")
    /\ present' = present \ {d}
    /\ UNCHANGED <<pv, lv>>

ReturnDisk(d) ==
    /\ d \notin present
    /\ present' = present \cup {d}
    /\ UNCHANGED <<pv, lv, faults>>

CreateVolume(d, served) ==
    /\ Cardinality(lv) < MaxVolumes
    /\ d \in present \ lv /\ pv[d] \in served /\ Whole(pv[d])
    /\ lv' = lv \cup {d}
    /\ UNCHANGED <<pv, present, faults>>

DeleteVolume(d, served) ==
    /\ d \in present \cap lv /\ pv[d] \in served
    /\ lv' = lv \ {d}
    /\ UNCHANGED <<pv, present, faults>>
=============================================================================
