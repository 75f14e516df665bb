------------------------------ MODULE PrepareVg ------------------------------
(***************************************************************************)
(* The pod of a preparevg job: it reads the specification of the cluster,  *)
(* compares it with what the ConfigMap of the node records, creates,       *)
(* extends, shrinks and removes volume groups, and records what it did     *)
(* (pkg/operator/topolvm/volumegroup/preparevg.go).  Every LVM command and *)
(* every call of the API server is a step of its own, and the pod may die  *)
(* between any two.                                                        *)
(***************************************************************************)
EXTENDS LvmdConfigMap

CONSTANTS
    NoClass,    \* a name for which the specification has no device class
    AllDevices  \* useAllDevices: the class takes every available disk

ASSUME PrepareAssumption == AllDevices \in BOOLEAN /\ \A ds \in SUBSET Disk : ds # NoClass

VARIABLE pod

\* The device classes of the node: their volume groups and disks.
Wish == [Vg -> (SUBSET Disk) \cup {NoClass}]

Stages == {"none", "start", "load", "class", "create", "expand",
           "reduced", "unmake", "done"}

\* What the pod holds in memory.
Pod == [stage : Stages,
        want  : Wish,                     \* nodeDevices
        avail : SUBSET Disk,              \* the disks listed as available
        base  : Data \cup {NoMap},        \* its copy of the ConfigMap
        suc   : [Vg -> Class \cup {None}], fail : SUBSET (Vg \cup {Nameless}),
        new   : SUBSET Vg,                \* groups created by this pod
        todo  : SUBSET Vg,                \* classes not looked at yet
        cur   : Vg \cup {None},           \* the class at hand
        disks : SUBSET Disk,              \* its disks the command at hand is for
        made  : SUBSET Disk]              \* physical volumes made to extend it

Gone == [stage |-> "none", want |-> [g \in Vg |-> NoClass], avail |-> {},
         base |-> NoMap, suc |-> [g \in Vg |-> None], fail |-> {}, new |-> {},
         todo |-> {}, cur |-> None, disks |-> {}, made |-> {}]
Started == [Gone EXCEPT !.stage = "start"]

PodTypeOK == pod \in Pod

Wanted == {g \in Vg : pod.want[g] # NoClass}
Successes(suc) == {g \in Vg : suc[g] # None}

\* provisionFirst, not provisionWithNodeStatus: nothing is recorded yet.
First == IF pod.base = NoMap THEN TRUE ELSE pod.base.status = None

\* The pod is between two classes.
Between == pod.stage = "class" /\ pod.cur = None

-----------------------------------------------------------------------------
(* Start.                                                                  *)

\* provision: the specification, and the disks that are available.  A disk
\* whose udev data could not be read is taken for one without a signature.
ReadSpec(spec, blind) ==
    /\ pod.stage = "start" /\ blind \in Blind
    /\ faults' = faults + Cardinality(blind)
    /\ LET free == Unsigned \cup blind IN
       pod' = [pod EXCEPT !.stage = "load", !.avail = free,
                          !.want = IF AllDevices
                                   THEN [g \in Vg |-> IF spec[g] = NoClass THEN NoClass ELSE free]
                                   ELSE spec]
    /\ UNCHANGED <<pv, nodeVars, mapVars>>

\* Mutant: what an earlier job has recorded is not looked at.
ReadAsFirst ==
    /\ pod.stage = "load"
    /\ pod' = [pod EXCEPT !.stage = "class", !.base = cm, !.todo = Wanted \ VolumeGroups,
                          !.fail = IF Wanted \cap VolumeGroups = {} THEN {} ELSE {Nameless}]
    /\ UNCHANGED <<lvmVars, mapVars>>

\* With nothing recorded, a group that exists belongs to somebody else: its
\* class is put down as failed, without the name of the group.
ReadConfigMap ==
    /\ pod.stage = "load"
    /\ LET copy  == IF cm = NoMap THEN NoMap ELSE [cm EXCEPT !.devices = None]
           blank == IF cm = NoMap THEN TRUE ELSE cm.status = None
       IN pod' = IF blank
                 THEN [pod EXCEPT !.stage = "class", !.base = copy,
                                  !.todo = Wanted \ VolumeGroups,
                                  !.fail = IF Wanted \cap VolumeGroups = {} THEN {} ELSE {Nameless}]
                 ELSE [pod EXCEPT !.stage = "class", !.base = copy, !.todo = Wanted,
                                  !.suc = cm.status.suc, !.fail = cm.status.fail]
    /\ UNCHANGED <<lvmVars, mapVars>>

\* The pod has done with the class at hand.
Finish(suc, fail, new) ==
    pod' = [pod EXCEPT !.stage = "class", !.cur = None, !.disks = {}, !.made = {},
                       !.todo = @ \ {pod.cur}, !.suc = suc, !.fail = fail, !.new = new]
LeaveIt == Finish(pod.suc, pod.fail, pod.new)
Forget  == Finish([pod.suc EXCEPT ![pod.cur] = None], pod.fail, pod.new)

-----------------------------------------------------------------------------
(* createVg, createVgRetry: the class has no group yet.                    *)

\* Unless all its disks are available the class has failed.
StartCreate(g) ==
    /\ Between /\ g \in pod.todo /\ pod.suc[g] = None
    /\ pod' = IF pod.want[g] \subseteq pod.avail
              THEN [pod EXCEPT !.stage = "create", !.cur = g, !.disks = pod.want[g]]
              ELSE [pod EXCEPT !.todo = @ \ {g}, !.fail = @ \cup {g}]
    /\ UNCHANGED <<lvmVars, mapVars>>

CreateFailed == Finish(pod.suc, pod.fail \cup {pod.cur}, pod.new)

CreatePv(d) ==
    /\ pod.stage = "create" /\ d \in pod.disks
    /\ \/ Works(CanPvCreate(d), {d}, Label) /\ pod' = [pod EXCEPT !.disks = @ \ {d}]
       \/ Fails(CanPvCreate(d)) /\ CreateFailed
    /\ UNCHANGED mapVars

\* The retry of a failed class does not list the disks of the group.
CreateVg ==
    /\ pod.stage = "create" /\ pod.disks = {}
    /\ LET g    == pod.cur
           ds   == pod.want[g]
           devs == IF g \in pod.fail THEN {} ELSE ds
       IN \/ /\ Works(CanVgCreate(g, ds), ds, g)
             /\ Finish([pod.suc EXCEPT ![g] = [ready |-> TRUE, devs |-> devs]],
                       pod.fail \ {g}, pod.new \cup {g})
          \/ Fails(CanVgCreate(g, ds)) /\ CreateFailed
    /\ UNCHANGED mapVars

-----------------------------------------------------------------------------
(* checkVgIfExpand, checkVgIfShrink: the group was created by an earlier   *)
(* job.                                                                    *)

\* Mutant: a class whose group is not found is forgotten.
ExpandOrForget(g) ==
    /\ Between /\ g \in pod.todo /\ pod.suc[g] # None
    /\ pod' = IF Found(g)
              THEN [pod EXCEPT !.stage = "expand", !.cur = g,
                               !.disks = pod.want[g] \ PhysicalVolumes(g)]
              ELSE [pod EXCEPT !.todo = @ \ {g}, !.suc[g] = None]
    /\ UNCHANGED <<lvmVars, mapVars>>

StartExpand(g) ==
    /\ Between /\ g \in pod.todo /\ pod.suc[g] # None
    /\ pod' = IF Found(g)
              THEN [pod EXCEPT !.stage = "expand", !.cur = g,
                               !.disks = pod.want[g] \ PhysicalVolumes(g)]
              ELSE [pod EXCEPT !.todo = @ \ {g}]
    /\ UNCHANGED <<lvmVars, mapVars>>

List(devs) == [pod.suc EXCEPT ![pod.cur].devs = devs]

\* A disk that cannot be made a physical volume is listed with its error.
ExpandPv(d) ==
    /\ pod.stage = "expand" /\ d \in pod.disks
    /\ \/ /\ Works(CanPvCreate(d), {d}, Label)
          /\ pod' = [pod EXCEPT !.disks = @ \ {d}, !.made = @ \cup {d}]
       \/ /\ Fails(CanPvCreate(d))
          /\ pod' = [pod EXCEPT !.disks = @ \ {d}, !.suc = List(@[pod.cur].devs \cup {d})]
    /\ UNCHANGED mapVars

ExpandVg ==
    /\ pod.stage = "expand" /\ pod.disks = {} /\ pod.made # {}
    /\ \/ /\ Works(CanVgExtend(pod.cur, pod.made), pod.made, pod.cur)
          /\ pod' = [pod EXCEPT !.made = {}, !.suc = List(@[pod.cur].devs \cup pod.made)]
       \/ /\ Fails(CanVgExtend(pod.cur, pod.made))
          /\ pod' = [pod EXCEPT !.made = {}]
    /\ UNCHANGED mapVars

\* Mutant: compared with the disks that are available.
DroppedOfAvailable == PhysicalVolumes(pod.cur) \ (pod.want[pod.cur] \cap pod.avail)

\* The physical volumes of the group that the class does not name.
Dropped == PhysicalVolumes(pod.cur) \ pod.want[pod.cur]
Expanded == pod.stage = "expand" /\ pod.disks = {} /\ pod.made = {}

KeepVg ==
    /\ Expanded /\ (Found(pod.cur) => Dropped = {})
    /\ LeaveIt
    /\ UNCHANGED <<lvmVars, mapVars>>

ShrinkVg ==
    /\ Expanded /\ Found(pod.cur) /\ Dropped \notin {{}, PhysicalVolumes(pod.cur)}
    /\ \/ /\ Works(CanVgReduce(pod.cur, Dropped), Dropped, Label)
          /\ pod' = [pod EXCEPT !.stage = "reduced", !.disks = Dropped]
       \/ Fails(CanVgReduce(pod.cur, Dropped)) /\ LeaveIt
    /\ UNCHANGED mapVars

RemoveReducedPvs ==
    /\ pod.stage = "reduced"
    /\ \/ /\ Works(CanPvRemove(pod.disks), pod.disks, Raw)
          /\ Finish(List(pod.suc[pod.cur].devs \ pod.disks), pod.fail, pod.new)
       \/ Fails(CanPvRemove(pod.disks)) /\ LeaveIt
    /\ UNCHANGED mapVars

-----------------------------------------------------------------------------
(* RemoveVolumeGroup: from checkVgIfShrink when the class names no disk of *)
(* the group, from checkVgIfDelete when there is no class any more.        *)

RemoveVg ==
    /\ Expanded /\ Found(pod.cur) /\ Dropped = PhysicalVolumes(pod.cur)
    /\ \/ /\ Works(CanVgRemove(pod.cur), Members(pod.cur), Label)
          /\ pod' = [pod EXCEPT !.stage = "unmake", !.disks = Members(pod.cur)]
       \/ Fails(CanVgRemove(pod.cur)) /\ LeaveIt
    /\ UNCHANGED mapVars

Stale == IF First THEN {} ELSE Successes(pod.suc) \ Wanted

\* The record of a class is deleted whether or not its group could be.
DeleteVg(g) ==
    /\ Between /\ pod.todo = {} /\ g \in Stale
    /\ \/ /\ Works(CanVgRemove(g), Members(g), Label)
          /\ pod' = [pod EXCEPT !.stage = "unmake", !.cur = g, !.disks = Members(g)]
       \/ /\ Fails(CanVgRemove(g))
          /\ pod' = [pod EXCEPT !.suc[g] = None]
    /\ UNCHANGED mapVars

RemovePv(d) ==
    /\ pod.stage = "unmake" /\ d \in pod.disks
    /\ \/ /\ Works(CanPvRemove({d}), {d}, Raw)
          /\ IF pod.disks = {d} THEN Forget ELSE pod' = [pod EXCEPT !.disks = @ \ {d}]
       \/ /\ Fails(CanPvRemove({d}))
          /\ IF pod.cur \in Wanted THEN LeaveIt ELSE Forget
    /\ UNCHANGED mapVars

-----------------------------------------------------------------------------
(* The records.                                                            *)

\* updateLvmdConf, createLvmdConf: lvmd serves what it served and the new
\* groups, as far as their classes are recorded as created.
ServedClasses ==
    IF pod.base = NoMap \/ First \/ pod.base.lvmd = None
    THEN IF pod.new # {} THEN pod.new
         ELSE IF pod.base = NoMap THEN None ELSE pod.base.lvmd
    ELSE (pod.base.lvmd \cup pod.new) \cap Successes(pod.suc)

\* Mutant: a failure is recorded without its class.
NewStatusOfNobody == [suc |-> pod.suc, fail |-> {pod.cur}]

\* updateVgStatus, after checkVgIfDelete dropped the failures of other classes.
NewStatus == [suc |-> pod.suc, fail |-> IF First THEN pod.fail ELSE pod.fail \cap Wanted]

\* The classes are written in the order in which a Go map gives them: from two of a
\* kind on, a status that has not changed may look as if it had.
Reorders == \E gs \in {Successes(pod.suc), NewStatus.fail} : \E g, h \in gs : g # h
ComparedWith == {pod.base} \cup (IF Reorders THEN {[pod.base EXCEPT !.status = None]} ELSE {})

Save ==
    /\ Between /\ pod.todo = {} /\ Stale = {}
    /\ LET new == [devices |-> None, status |-> NewStatus, lvmd |-> ServedClasses] IN
       IF pod.base = NoMap THEN CreateOrPatch(new) ELSE \E old \in ComparedWith : Patch(old, new)
    /\ pod' = [Gone EXCEPT !.stage = "done"]
    /\ UNCHANGED lvmVars

\* A call failed and provision returned an error, or the pod died.
PodFails ==
    /\ pod.stage \notin {"none", "done"}
    /\ pod' = Gone
    /\ UNCHANGED <<pv, nodeVars, mapVars>>

PodStep ==
    \/ ReadConfigMap \/ CreateVg \/ ExpandVg \/ KeepVg \/ ShrinkVg
    \/ RemoveReducedPvs \/ RemoveVg \/ Save
    \/ \E g \in Vg : StartCreate(g) \/ StartExpand(g) \/ DeleteVg(g)
    \/ \E d \in Disk : CreatePv(d) \/ ExpandPv(d) \/ RemovePv(d)
=============================================================================
