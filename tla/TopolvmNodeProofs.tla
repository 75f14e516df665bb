-------------------------- MODULE TopolvmNodeProofs --------------------------
(***************************************************************************)
(* What jobs, daemon, operator and clean-up do on a node, for any number   *)
(* of disks, groups, goroutines, faults and edits.                         *)
(***************************************************************************)
EXTENDS TopolvmNode, FiniteSetTheorems, TLAPS

-----------------------------------------------------------------------------
(* Types.                                                                  *)

\* A pod works on a class that it wants, and extends one that is recorded.
PodAtWork ==
    /\ pod.todo \subseteq IF pod.stage = "start" THEN {} ELSE Wanted
    /\ pod.stage \in {"create", "expand", "reduced", "unmake"} => pod.cur \in Vg
    /\ pod.stage \in {"create", "expand", "reduced"} => pod.cur \in Wanted
    /\ pod.stage \in {"expand", "reduced"} => pod.suc[pod.cur] \in Class

\* The daemon has what its next step needs.
DaemonAtWork ==
    /\ daemon.stage \in {"scanned", "missing"} => daemon.view \in Devices
    /\ daemon.stage \in {"classes", "checked"} => daemon.base \in Status
    /\ daemon.stage = "checked" => daemon.new \in [Vg -> Class \cup {None}]

\* There is no news of a ConfigMap that does not exist.
NewsOfMap == changed # {} => cm \in Data

\* A pod that runs is not one too many.
JobOK == JobTypeOK /\ (job = "active" => tries <= BackoffLimit)

MapOK == MapTypeOK /\ NewsOfMap
PodOK == PodTypeOK /\ PodAtWork
PodData == LvmTypeOK /\ MapOK /\ PodOK
DaemonOK == DaemonTypeOK /\ DaemonAtWork

TInv == PodData /\ JobOK /\ DaemonOK /\ CleanerTypeOK /\ ClusterTypeOK

\* PatchConfigMap and the other writes leave a map of the right type.
LEMMA WriteTyped ==
    ASSUME MapOK, NEW new \in Data, Write(new)
    PROVE  MapOK'
BY DEF MapOK, MapTypeOK, NewsOfMap, Write, News

\* A patch leaves a map of the right type.
LEMMA PatchTyped ==
    ASSUME MapOK, NEW old \in Data, NEW new \in Data, Patch(old, new)
    PROVE  MapOK'
<1>1. cm \in Data
  BY DEF Patch, MapOK, MapTypeOK
<1>2. [k \in Keys |-> IF new[k] # old[k] THEN new[k] ELSE cm[k]] \in Data
  BY <1>1 DEF Keys, Data
<1> QED
  BY <1>2, WriteTyped DEF Patch

\* A listing with udev data that cannot be read is one fault, of one disk.
LEMMA BlindTyped ==
    ASSUME LvmTypeOK, NEW blind \in Blind
    PROVE  blind \subseteq Disk /\ faults + Cardinality(blind) \in 0 .. MaxFaults
<1>1. CASE blind = {}
  BY <1>1, FS_EmptySet, LvmAssumption DEF LvmTypeOK
<1>2. CASE blind # {}
  <2>1. PICK d \in present : blind = {d} /\ faults < MaxFaults
    BY <1>2 DEF Blind
  <2>2. Cardinality(blind) = 1
    BY <2>1, FS_Singleton
  <2> QED
    BY <2>1, <2>2, LvmAssumption DEF LvmTypeOK
<1> QED
  BY <1>1, <1>2

\* A command, whether it works or fails, leaves disks of the right type.
LEMMA CommandTyped ==
    ASSUME LvmTypeOK, NEW can, NEW ds, NEW x \in Vg \cup {Raw, Label},
           Works(can, ds, x) \/ Fails(can)
    PROVE  LvmTypeOK'
BY LvmAssumption DEF LvmTypeOK, Works, Fails, Holds, Fault, nodeVars

\* Done with a class, the pod goes on with another one.
LEMMA FinishTyped ==
    ASSUME PodOK, NEW suc \in [Vg -> Class \cup {None}], NEW fail \in SUBSET (Vg \cup {Nameless}),
           NEW new \in SUBSET Vg, Finish(suc, fail, new)
    PROVE  PodOK'
BY DEF PodOK, PodTypeOK, PodAtWork, Pod, Stages, Wanted, Finish

\* The wanted classes name disks of the node.
LEMMA WantsDisks ==
    ASSUME PodTypeOK, NEW g \in Wanted
    PROVE  g \in Vg /\ pod.want[g] \subseteq Disk
BY DEF PodTypeOK, Pod, Wish, Wanted

\* ReadSpec, ReadConfigMap.
LEMMA StartTyped ==
    ASSUME PodData, NEW wish \in Wish, NEW blind, ReadSpec(wish, blind) \/ ReadConfigMap
    PROVE  PodData'
<1>1. CASE ReadSpec(wish, blind)
  <2>1. LvmTypeOK'
    BY <1>1, BlindTyped DEF ReadSpec, PodData, LvmTypeOK, nodeVars
  <2>2. MapOK'
    BY <1>1 DEF ReadSpec, PodData, MapOK, MapTypeOK, NewsOfMap, mapVars
  <2> DEFINE free == Unsigned \cup blind
             want == IF AllDevices THEN [g \in Vg |-> IF wish[g] = NoClass THEN NoClass ELSE free] ELSE wish
  <2>3. free \subseteq Disk
    BY <1>1, BlindTyped DEF ReadSpec, Unsigned, PodData, LvmTypeOK
  <2>4. want \in Wish
    BY <2>3 DEF Wish
  <2>5. pod.stage = "start" /\ pod' = [pod EXCEPT !.stage = "load", !.avail = free, !.want = want]
    BY <1>1 DEF ReadSpec
  <2> HIDE DEF free, want
  <2>6. PodTypeOK'
    BY <2>3, <2>4, <2>5 DEF PodData, PodOK, PodTypeOK, Pod, Stages
  <2>7. PodAtWork'
    BY <2>5 DEF PodData, PodOK, PodTypeOK, PodAtWork, Pod, Stages
  <2> QED
    BY <2>1, <2>2, <2>6, <2>7 DEF PodData, PodOK
<1>2. CASE ReadConfigMap
  <2>1. LvmTypeOK' /\ MapOK'
    BY <1>2 DEF ReadConfigMap, PodData, LvmTypeOK, MapOK, MapTypeOK, NewsOfMap, mapVars, lvmVars
  <2> DEFINE copy  == IF cm = NoMap THEN NoMap ELSE [cm EXCEPT !.devices = None]
             blank == IF cm = NoMap THEN TRUE ELSE cm.status = None
             named == IF Wanted \cap VolumeGroups = {} THEN {} ELSE {Nameless}
  <2>2. copy \in Data \cup {NoMap}
    BY DEF PodData, MapOK, MapTypeOK, Data
  <2>3. Wanted \subseteq Vg
    BY DEF Wanted
  <2>4. ASSUME blank PROVE PodOK'
    <3>1. pod' = [pod EXCEPT !.stage = "class", !.base = copy, !.todo = Wanted \ VolumeGroups,
                             !.fail = named]
      BY <1>2, <2>4 DEF ReadConfigMap
    <3>2. pod.stage = "load"
      BY <1>2 DEF ReadConfigMap
    <3>3. named \subseteq Vg \cup {Nameless}
      OBVIOUS
    <3> HIDE DEF copy, named
    <3>4. PodTypeOK'
      BY <2>2, <2>3, <3>1, <3>3 DEF PodData, PodOK, PodTypeOK, Pod, Stages
    <3>5. PodAtWork'
      BY <3>1, <3>2 DEF PodData, PodOK, PodTypeOK, PodAtWork, Pod, Wanted
    <3> QED
      BY <3>4, <3>5 DEF PodOK
  <2>5. ASSUME ~blank PROVE PodOK'
    <3>1. pod' = [pod EXCEPT !.stage = "class", !.base = copy, !.todo = Wanted,
                             !.suc = cm.status.suc, !.fail = cm.status.fail]
      BY <1>2, <2>5 DEF ReadConfigMap
    <3>2. pod.stage = "load"
      BY <1>2 DEF ReadConfigMap
    <3>3. cm.status \in Status
      BY <2>5 DEF PodData, MapOK, MapTypeOK, Data
    <3>4. cm.status.suc \in [Vg -> Class \cup {None}] /\ cm.status.fail \subseteq Vg \cup {Nameless}
      BY <3>3 DEF Status
    <3> HIDE DEF copy
    <3>5. PodTypeOK'
      BY <2>2, <2>3, <3>1, <3>4 DEF PodData, PodOK, PodTypeOK, Pod, Stages
    <3>6. PodAtWork'
      BY <3>1, <3>2 DEF PodData, PodOK, PodTypeOK, PodAtWork, Pod, Wanted
    <3> QED
      BY <3>5, <3>6 DEF PodOK
  <2>6. PodOK'
    BY <2>4, <2>5
  <2> QED
    BY <2>1, <2>6 DEF PodData
<1> QED
  BY <1>1, <1>2

\* createVg, createVgRetry.
LEMMA CreateTyped ==
    ASSUME PodData,
           \/ \E g \in Vg : StartCreate(g)
           \/ \E d \in Disk : CreatePv(d)
           \/ CreateVg
    PROVE  PodData'
<1>1. ASSUME NEW g \in Vg, StartCreate(g) PROVE PodData'
  <2>1. LvmTypeOK' /\ MapOK'
    BY <1>1 DEF StartCreate, PodData, LvmTypeOK, MapOK, MapTypeOK, NewsOfMap, mapVars, lvmVars
  <2>2. PodOK'
    BY <1>1, WantsDisks DEF StartCreate, Between, PodData, PodOK, PodTypeOK, PodAtWork, Pod, Stages, Wanted
  <2> QED
    BY <2>1, <2>2 DEF PodData
<1>2. ASSUME NEW d \in Disk, CreatePv(d) PROVE PodData'
  <2>1. LvmTypeOK' /\ MapOK'
    BY <1>2, CommandTyped DEF CreatePv, PodData, MapOK, MapTypeOK, NewsOfMap, mapVars
  <2>2. PodOK'
    <3>1. CASE CreateFailed
      BY <1>2, <3>1, FinishTyped DEF CreateFailed, CreatePv, PodData, PodOK, PodTypeOK, PodAtWork, Pod
    <3>2. CASE pod' = [pod EXCEPT !.disks = @ \ {d}]
      BY <3>2 DEF PodData, PodOK, PodTypeOK, PodAtWork, Pod, Stages, Wanted
    <3> QED
      BY <1>2, <3>1, <3>2 DEF CreatePv
  <2> QED
    BY <2>1, <2>2 DEF PodData
<1>3. CASE CreateVg
  <2> DEFINE g    == pod.cur
             ds   == pod.want[g]
             devs == IF g \in pod.fail THEN {} ELSE ds
             suc  == [pod.suc EXCEPT ![g] = [ready |-> TRUE, devs |-> devs]]
  <2>1. g \in Vg /\ ds \subseteq Disk
    BY <1>3, WantsDisks DEF CreateVg, PodData, PodOK, PodAtWork
  <2>2. LvmTypeOK' /\ MapOK'
    <3>1. Works(CanVgCreate(g, ds), ds, g) \/ Fails(CanVgCreate(g, ds))
      BY <1>3 DEF CreateVg
    <3> QED
      BY <1>3, <2>1, <3>1, CommandTyped DEF CreateVg, PodData, MapOK, MapTypeOK, NewsOfMap, mapVars
  <2>3. suc \in [Vg -> Class \cup {None}]
    BY <2>1 DEF PodData, PodOK, PodTypeOK, Pod, Class
  <2>4. PodOK'
    <3>1. CASE CreateFailed
      BY <2>1, <3>1, FinishTyped DEF CreateFailed, PodData, PodOK, PodTypeOK, Pod
    <3>2. CASE Finish(suc, pod.fail \ {g}, pod.new \cup {g})
      <4>1. pod.fail \ {g} \subseteq Vg \cup {Nameless} /\ pod.new \cup {g} \subseteq Vg
        BY <2>1 DEF PodData, PodOK, PodTypeOK, Pod
      <4> HIDE DEF suc, g
      <4> QED
        BY <2>3, <3>2, <4>1, FinishTyped DEF PodData
    <3> QED
      BY <1>3, <3>1, <3>2 DEF CreateVg
  <2> QED
    BY <2>2, <2>4 DEF PodData
<1> QED
  BY <1>1, <1>2, <1>3

\* checkVgIfExpand, checkVgIfShrink.
LEMMA ExpandTyped ==
    ASSUME PodData,
           \/ \E g \in Vg : StartExpand(g)
           \/ \E d \in Disk : ExpandPv(d)
           \/ ExpandVg \/ KeepVg \/ ShrinkVg \/ RemoveReducedPvs
    PROVE  PodData'
<1>1. ASSUME NEW g \in Vg, StartExpand(g) PROVE PodData'
  <2>1. LvmTypeOK' /\ MapOK'
    BY <1>1 DEF StartExpand, PodData, LvmTypeOK, MapOK, MapTypeOK, NewsOfMap, mapVars, lvmVars
  <2>2. g \in Wanted
    BY <1>1 DEF StartExpand, PodData, PodOK, PodAtWork
  <2>3. pod.want[g] \ PhysicalVolumes(g) \subseteq Disk
    BY <2>2, WantsDisks DEF PodData, PodOK
  <2>4. PodOK'
    BY <1>1, <2>2, <2>3 DEF StartExpand, Between, PodData, PodOK, PodTypeOK, PodAtWork, Pod, Stages, Wanted
  <2> QED
    BY <2>1, <2>4 DEF PodData
<1>2. ASSUME NEW devs \in SUBSET Disk, pod.stage \in {"expand", "reduced"}
      PROVE  /\ List(devs) \in [Vg -> Class \cup {None}] /\ List(devs)[pod.cur] \in Class
             /\ \A g \in Vg \ {pod.cur} : List(devs)[g] = pod.suc[g]
  <2>1. pod.cur \in Vg /\ pod.suc[pod.cur] \in Class /\ pod.suc \in [Vg -> Class \cup {None}]
    BY <1>2 DEF PodData, PodOK, PodTypeOK, PodAtWork, Pod
  <2>2. [pod.suc[pod.cur] EXCEPT !.devs = devs] \in Class
    BY <2>1 DEF Class
  <2> QED
    BY <2>1, <2>2 DEF List
<1>3. ASSUME pod.stage \in {"expand", "reduced"}
      PROVE  /\ pod.cur \in Vg /\ pod.disks \subseteq Disk /\ pod.made \subseteq Disk
             /\ pod.suc[pod.cur].devs \subseteq Disk
  BY <1>3 DEF PodData, PodOK, PodTypeOK, PodAtWork, Pod, Class
<1>4. ASSUME NEW d \in Disk, ExpandPv(d) PROVE PodData'
  <2>1. LvmTypeOK' /\ MapOK'
    BY <1>4, CommandTyped DEF ExpandPv, PodData, MapOK, MapTypeOK, NewsOfMap, mapVars
  <2>2. PodOK'
    <3>1. CASE pod' = [pod EXCEPT !.disks = @ \ {d}, !.made = @ \cup {d}]
      BY <1>4, <3>1 DEF ExpandPv, PodData, PodOK, PodTypeOK, PodAtWork, Pod, Stages, Wanted
    <3>2. CASE pod' = [pod EXCEPT !.disks = @ \ {d}, !.suc = List(pod.suc[pod.cur].devs \cup {d})]
      <4> DEFINE suc == List(pod.suc[pod.cur].devs \cup {d})
      <4>1. suc \in [Vg -> Class \cup {None}] /\ suc[pod.cur] \in Class
        BY <1>2, <1>3, <1>4 DEF ExpandPv
      <4>2. pod.stage = "expand" /\ pod' = [pod EXCEPT !.disks = @ \ {d}, !.suc = suc]
        BY <1>4, <3>2 DEF ExpandPv
      <4> HIDE DEF suc
      <4> QED
        BY <4>1, <4>2 DEF PodData, PodOK, PodTypeOK, PodAtWork, Pod, Stages, Wanted
    <3> QED
      BY <1>4, <3>1, <3>2 DEF ExpandPv
  <2> QED
    BY <2>1, <2>2 DEF PodData
<1>5. CASE ExpandVg
  <2>1. LvmTypeOK' /\ MapOK'
    BY <1>3, <1>5, CommandTyped DEF ExpandVg, PodData, MapOK, MapTypeOK, NewsOfMap, mapVars
  <2>2. PodOK'
    <3>1. CASE pod' = [pod EXCEPT !.made = {}]
      BY <3>1 DEF PodData, PodOK, PodTypeOK, PodAtWork, Pod, Stages, Wanted
    <3>2. CASE pod' = [pod EXCEPT !.made = {}, !.suc = List(pod.suc[pod.cur].devs \cup pod.made)]
      <4> DEFINE suc == List(pod.suc[pod.cur].devs \cup pod.made)
      <4>1. suc \in [Vg -> Class \cup {None}] /\ suc[pod.cur] \in Class
        BY <1>2, <1>3, <1>5 DEF ExpandVg
      <4>2. pod.stage = "expand" /\ pod' = [pod EXCEPT !.made = {}, !.suc = suc]
        BY <1>5, <3>2 DEF ExpandVg
      <4> HIDE DEF suc
      <4> QED
        BY <4>1, <4>2 DEF PodData, PodOK, PodTypeOK, PodAtWork, Pod, Stages, Wanted
    <3> QED
      BY <1>5, <3>1, <3>2 DEF ExpandVg
  <2> QED
    BY <2>1, <2>2 DEF PodData
<1>6. ASSUME LeaveIt PROVE PodOK'
  BY <1>6, FinishTyped DEF LeaveIt, PodData, PodOK, PodTypeOK, Pod
<1>7. CASE KeepVg
  <2>1. LvmTypeOK' /\ MapOK'
    BY <1>7 DEF KeepVg, PodData, LvmTypeOK, MapOK, MapTypeOK, NewsOfMap, mapVars, lvmVars
  <2> QED
    BY <1>6, <1>7, <2>1 DEF KeepVg, PodData
<1>8. CASE ShrinkVg
  <2>1. LvmTypeOK' /\ MapOK'
    BY <1>8, CommandTyped DEF ShrinkVg, PodData, MapOK, MapTypeOK, NewsOfMap, mapVars
  <2>2. CASE LeaveIt
    BY <1>6, <2>1, <2>2 DEF PodData
  <2>3. CASE Works(CanVgReduce(pod.cur, Dropped), Dropped, Label) /\ pod' = [pod EXCEPT !.stage = "reduced", !.disks = Dropped]
    <3>1. Dropped \subseteq Disk
      BY <2>3 DEF Works, CanVgReduce, Members
    <3> QED
      BY <1>8, <2>1, <2>3, <3>1 DEF ShrinkVg, Expanded, PodData, PodOK, PodTypeOK, PodAtWork, Pod, Stages, Wanted
  <2> QED
    BY <1>8, <2>2, <2>3 DEF ShrinkVg
<1>9. CASE RemoveReducedPvs
  <2>1. LvmTypeOK' /\ MapOK'
    BY <1>9, CommandTyped DEF RemoveReducedPvs, PodData, MapOK, MapTypeOK, NewsOfMap, mapVars
  <2>2. PodOK'
    <3>1. CASE Finish(List(pod.suc[pod.cur].devs \ pod.disks), pod.fail, pod.new)
      BY <1>2, <1>3, <1>9, <3>1, FinishTyped DEF RemoveReducedPvs, PodData, PodOK, PodTypeOK, Pod
    <3> QED
      BY <1>6, <1>9, <3>1 DEF RemoveReducedPvs
  <2> QED
    BY <2>1, <2>2 DEF PodData
<1> QED
  BY <1>1, <1>4, <1>5, <1>7, <1>8, <1>9

\* RemoveVolumeGroup.
LEMMA RemoveTyped ==
    ASSUME PodData,
           \/ RemoveVg
           \/ \E g \in Vg : DeleteVg(g)
           \/ \E d \in Disk : RemovePv(d)
    PROVE  PodData'
<1>1. ASSUME LeaveIt \/ (Forget /\ pod.cur \in Vg) PROVE PodOK'
  <2>1. [pod.suc EXCEPT ![pod.cur] = None] \in [Vg -> Class \cup {None}]
    BY DEF PodData, PodOK, PodTypeOK, Pod
  <2>2. PodOK /\ pod.suc \in [Vg -> Class \cup {None}] /\ pod.fail \subseteq Vg \cup {Nameless} /\ pod.new \subseteq Vg
    BY DEF PodData, PodOK, PodTypeOK, Pod
  <2> QED
    BY <1>1, <2>1, <2>2, FinishTyped DEF LeaveIt, Forget
<1>2. CASE RemoveVg
  <2>1. LvmTypeOK' /\ MapOK'
    BY <1>2, CommandTyped DEF RemoveVg, PodData, MapOK, MapTypeOK, NewsOfMap, mapVars
  <2>2. CASE LeaveIt
    BY <1>1, <2>1, <2>2 DEF PodData
  <2>3. CASE pod' = [pod EXCEPT !.stage = "unmake", !.disks = Members(pod.cur)]
    <3>1. Members(pod.cur) \subseteq Disk
      BY DEF Members
    <3> QED
      BY <1>2, <2>1, <2>3, <3>1 DEF RemoveVg, Expanded, PodData, PodOK, PodTypeOK, PodAtWork, Pod, Stages, Wanted
  <2> QED
    BY <1>2, <2>2, <2>3 DEF RemoveVg
<1>3. ASSUME NEW g \in Vg, DeleteVg(g) PROVE PodData'
  <2>1. LvmTypeOK' /\ MapOK'
    BY <1>3, CommandTyped DEF DeleteVg, PodData, MapOK, MapTypeOK, NewsOfMap, mapVars
  <2>2. pod.stage = "class" /\ pod.todo = {}
    BY <1>3 DEF DeleteVg, Between
  <2>3. CASE pod' = [pod EXCEPT !.suc[g] = None]
    BY <2>1, <2>2, <2>3 DEF PodData, PodOK, PodTypeOK, PodAtWork, Pod, Stages, Wanted
  <2>4. CASE pod' = [pod EXCEPT !.stage = "unmake", !.cur = g, !.disks = Members(g)]
    <3>1. Members(g) \subseteq Disk
      BY DEF Members
    <3> QED
      BY <2>1, <2>2, <2>4, <3>1 DEF PodData, PodOK, PodTypeOK, PodAtWork, Pod, Stages, Wanted
  <2> QED
    BY <1>3, <2>3, <2>4 DEF DeleteVg
<1>4. ASSUME NEW d \in Disk, RemovePv(d) PROVE PodData'
  <2>1. LvmTypeOK' /\ MapOK'
    BY <1>4, CommandTyped DEF RemovePv, PodData, MapOK, MapTypeOK, NewsOfMap, mapVars
  <2>2. pod.cur \in Vg /\ pod.stage = "unmake"
    BY <1>4 DEF RemovePv, PodData, PodOK, PodAtWork
  <2>3. CASE LeaveIt \/ Forget
    BY <1>1, <2>1, <2>2, <2>3 DEF PodData
  <2>4. CASE pod' = [pod EXCEPT !.disks = @ \ {d}]
    BY <2>1, <2>2, <2>4 DEF PodData, PodOK, PodTypeOK, PodAtWork, Pod, Stages, Wanted
  <2> QED
    BY <1>4, <2>3, <2>4 DEF RemovePv
<1> QED
  BY <1>2, <1>3, <1>4

\* updateLvmdConf, updateVgStatus and the patch.
LEMMA SaveTyped ==
    ASSUME PodData, Save
    PROVE  PodData'
<1> DEFINE new == [devices |-> None, status |-> NewStatus, lvmd |-> ServedClasses]
<1>1. NewStatus \in Status
  BY DEF NewStatus, Status, PodData, PodOK, PodTypeOK, Pod
<1>2. ServedClasses \in (SUBSET Vg) \cup {None}
  BY DEF ServedClasses, First, Data, PodData, PodOK, PodTypeOK, Pod
<1>3. new \in Data
  BY <1>1, <1>2 DEF Data
<1>4. MapOK'
  <2>1. CASE pod.base = NoMap
    <3>1. CreateOrPatch(new)
      BY <2>1 DEF Save
    <3> HIDE DEF new
    <3> QED
      BY <1>3, <3>1, WriteTyped, PatchTyped DEF CreateOrPatch, PodData, MapOK, MapTypeOK
  <2>2. CASE pod.base # NoMap
    <3>1. pod.base \in Data
      BY <2>2 DEF PodData, PodOK, PodTypeOK, Pod
    <3>2. \A old \in ComparedWith : old \in Data
      BY <3>1 DEF ComparedWith, Data
    <3>3. PICK old \in ComparedWith : Patch(old, new)
      BY <2>2 DEF Save
    <3> HIDE DEF new
    <3> QED
      BY <1>3, <3>2, <3>3, PatchTyped DEF PodData
  <2> QED
    BY <2>1, <2>2
<1>5. pod' = [Gone EXCEPT !.stage = "done"] /\ LvmTypeOK'
  BY DEF Save, PodData, LvmTypeOK, lvmVars
<1>6. PodOK'
  BY <1>5 DEF Gone, PodOK, PodTypeOK, PodAtWork, Pod, Stages, Wanted, Wish
<1> QED
  BY <1>4, <1>5, <1>6 DEF PodData

\* Whatever the pod does.
LEMMA PodStepTyped ==
    ASSUME PodData, PodStep
    PROVE  PodData'
<1>1. [g \in Vg |-> NoClass] \in Wish
  BY DEF Wish
<1> QED
  BY <1>1, StartTyped, CreateTyped, ExpandTyped, RemoveTyped, SaveTyped DEF PodStep

-----------------------------------------------------------------------------

\* A job comes with its pod, and takes it away.
LEMMA JobTyped ==
    ASSUME PodData, JobOK,
           \/ StartPod \/ PodSucceeded \/ PodFailed
           \/ \E l \in Launcher : LaunchStep(l)
    PROVE  PodData' /\ JobOK'
<1>1. ASSUME NEW p \in {Gone, Started}, pod' = p PROVE PodOK'
  <2>1. p \in Pod
    BY <1>1 DEF Gone, Started, Pod, Stages, Wish
  <2>2. p.todo = {} /\ p.stage \in {"none", "start"}
    BY <1>1 DEF Gone, Started
  <2> QED
    BY <1>1, <2>1, <2>2 DEF PodOK, PodTypeOK, PodAtWork
<1>2. ASSUME pod' = pod PROVE PodOK'
  BY <1>2 DEF PodData, PodOK, PodTypeOK, PodAtWork, Wanted
<1>3. ASSUME UNCHANGED <<pv, nodeVars, mapVars>>, faults' = faults \/ \E k : Fault(k)
      PROVE  LvmTypeOK' /\ MapOK'
  BY <1>3, LvmAssumption DEF Fault, PodData, LvmTypeOK, MapOK, MapTypeOK, NewsOfMap, mapVars, nodeVars
<1>4. CASE StartPod
  BY <1>1, <1>3, <1>4, JobAssumption DEF StartPod, JobOK, JobTypeOK, lvmVars, nodeVars, PodData
<1>5. CASE PodSucceeded
  BY <1>1, <1>3, <1>5, JobAssumption DEF PodSucceeded, JobOK, JobTypeOK, lvmVars, nodeVars, PodData
<1>6. CASE PodFailed
  <2>1. LvmTypeOK' /\ MapOK'
    BY <1>3, <1>6 DEF PodFailed, PodFails
  <2>2. PodOK'
    BY <1>1, <1>6 DEF PodFailed, PodFails
  <2>3. JobOK'
    BY <1>6, JobAssumption DEF PodFailed, JobOK, JobTypeOK
  <2> QED
    BY <2>1, <2>2, <2>3 DEF PodData
<1>7. ASSUME NEW l \in Launcher, LaunchStep(l) PROVE PodData' /\ JobOK'
  <2>1. CASE GetJob(l)
    BY <1>2, <1>3, <2>1, JobAssumption DEF GetJob, JobOK, JobTypeOK, Goes, lvmVars, nodeVars, PodData
  <2>2. CASE WaitForJob(l)
    BY <1>2, <1>3, <2>2, JobAssumption DEF WaitForJob, JobOK, JobTypeOK, Goes, PodData
  <2>3. CASE DeleteJob(l)
    BY <1>1, <1>3, <2>3, JobAssumption DEF DeleteJob, JobOK, JobTypeOK, Goes, lvmVars, nodeVars, PodData
  <2>4. CASE CreateJob(l)
    BY <1>2, <1>3, <2>4, JobAssumption DEF CreateJob, JobOK, JobTypeOK, Goes, lvmVars, nodeVars, PodData
  <2> QED
    BY <1>7, <2>1, <2>2, <2>3, <2>4 DEF LaunchStep
<1> QED
  BY <1>4, <1>5, <1>6, <1>7

\* updateDeviceCM and checkDeviceClass.
LEMMA DaemonTyped ==
    ASSUME PodData, DaemonOK, DaemonStep \/ RestartDaemon
    PROVE  PodData' /\ DaemonOK'
<1>1. Resting \in Daemon /\ [Resting EXCEPT !.stage = "listed"] \in Daemon
  BY DEF Resting, Daemon
<1>2. ASSUME NEW d \in {Resting, [Resting EXCEPT !.stage = "listed"]}, daemon' = d PROVE DaemonOK'
  BY <1>1, <1>2 DEF Resting, DaemonOK, DaemonTypeOK, DaemonAtWork
<1>3. ASSUME UNCHANGED pod PROVE PodOK'
  BY <1>3 DEF PodData, PodOK, PodTypeOK, PodAtWork, Wanted
<1>4. ASSUME UNCHANGED <<lvmVars>> PROVE LvmTypeOK'
  BY <1>4 DEF PodData, LvmTypeOK, lvmVars
<1>5. ASSUME UNCHANGED mapVars PROVE MapOK'
  BY <1>5 DEF PodData, MapOK, MapTypeOK, NewsOfMap, mapVars
<1>6. ASSUME NEW blind \in Blind, ScanDisks(blind) PROVE PodData' /\ DaemonOK'
  <2>1. View(blind) \in Devices
    BY DEF View, Devices
  <2>2. DaemonOK'
    BY <1>6, <2>1 DEF ScanDisks, DaemonOK, DaemonTypeOK, DaemonAtWork, Daemon
  <2>3. LvmTypeOK'
    BY <1>6, BlindTyped DEF ScanDisks, PodData, LvmTypeOK, nodeVars
  <2> QED
    BY <1>3, <1>5, <1>6, <2>2, <2>3 DEF ScanDisks, PodData
<1>7. CASE WriteDevices
  <2>1. cm \in Data /\ daemon.view \in Devices
    BY <1>7 DEF WriteDevices, PodData, MapOK, MapTypeOK, DaemonOK, DaemonAtWork
  <2>2. [cm EXCEPT !.devices = daemon.view] \in Data
    BY <2>1 DEF Data
  <2>3. MapOK'
    BY <1>5, <1>7, <2>1, <2>2, PatchTyped DEF WriteDevices, PodData
  <2> QED
    BY <1>2, <1>3, <1>4, <1>7, <2>3 DEF WriteDevices, Listed, PodData
<1>8. CASE FindNoMap
  BY <1>3, <1>4, <1>5, <1>8 DEF FindNoMap, PodData, DaemonOK, DaemonTypeOK, DaemonAtWork, Daemon
<1>9. CASE CreateDevices
  <2>1. daemon.view \in Devices
    BY <1>9 DEF CreateDevices, DaemonOK, DaemonAtWork
  <2>2. [NoData EXCEPT !.devices = daemon.view] \in Data
    BY <2>1 DEF Data, NoData
  <2>3. MapOK'
    BY <1>5, <1>9, <2>2, WriteTyped DEF CreateDevices, PodData
  <2> QED
    BY <1>2, <1>3, <1>4, <1>9, <2>3 DEF CreateDevices, Listed, PodData
<1>10. CASE SkipClasses
  BY <1>2, <1>3, <1>4, <1>5, <1>10 DEF SkipClasses, PodData
<1>11. CASE ReadClasses
  <2>1. cm.status \in Status
    BY <1>11 DEF ReadClasses, PodData, MapOK, MapTypeOK, Data
  <2>2. daemon' = [Resting EXCEPT !.stage = "classes", !.base = cm.status]
    BY <1>11 DEF ReadClasses
  <2>3. DaemonOK'
    BY <2>1, <2>2 DEF Resting, DaemonOK, DaemonTypeOK, DaemonAtWork, Daemon
  <2> QED
    BY <1>3, <1>4, <1>5, <1>11, <2>3 DEF ReadClasses, PodData
<1>12. CASE CheckGroups
  <2>1. [g \in Vg |-> Checked(g)] \in [Vg -> Class \cup {None}]
    <3>1. daemon.base.suc \in [Vg -> Class \cup {None}]
      BY <1>12 DEF CheckGroups, DaemonOK, DaemonAtWork, Status
    <3>2. ASSUME NEW g \in Vg PROVE Checked(g) \in Class \cup {None}
      BY <3>1 DEF Checked, Class
    <3> QED
      BY <3>2
  <2>2. CASE daemon' = [daemon EXCEPT !.stage = "checked", !.new = [g \in Vg |-> Checked(g)]]
    <3> DEFINE new == [g \in Vg |-> Checked(g)]
    <3>1. daemon.stage = "classes" /\ daemon' = [daemon EXCEPT !.stage = "checked", !.new = new]
      BY <1>12, <2>2 DEF CheckGroups
    <3>2. new \in [Vg -> Class \cup {None}]
      BY <2>1
    <3> HIDE DEF new
    <3>3. DaemonOK'
      BY <3>1, <3>2 DEF DaemonOK, DaemonTypeOK, DaemonAtWork, Daemon
    <3> QED
      BY <1>3, <1>4, <1>5, <1>12, <3>3 DEF CheckGroups, PodData
  <2>3. CASE daemon' = Resting
    BY <1>2, <1>3, <1>4, <1>5, <1>12, <2>3 DEF CheckGroups, PodData
  <2> QED
    BY <1>12, <2>2, <2>3 DEF CheckGroups
<1>13. CASE WriteClasses
  <2> DEFINE old == [NoData EXCEPT !.status = daemon.base]
             new == [old EXCEPT !.status.suc = daemon.new]
  <2>1. daemon.base \in Status /\ daemon.new \in [Vg -> Class \cup {None}]
    BY <1>13 DEF WriteClasses, DaemonOK, DaemonAtWork
  <2>2. old \in Data
    BY <2>1 DEF Data, NoData
  <2>3. new \in Data
    BY <2>1, <2>2 DEF Data, Status, NoData
  <2>4. Patch(old, new)
    BY <1>13 DEF WriteClasses
  <2> HIDE DEF old, new
  <2>5. MapOK'
    BY <2>2, <2>3, <2>4, PatchTyped DEF PodData
  <2> QED
    BY <1>2, <1>3, <1>4, <1>13, <2>5 DEF WriteClasses, PodData
<1>14. CASE RestartDaemon
  <2>1. LvmTypeOK'
    BY <1>14, LvmAssumption DEF RestartDaemon, Fault, PodData, LvmTypeOK, nodeVars
  <2> QED
    BY <1>2, <1>3, <1>5, <1>14, <2>1 DEF RestartDaemon, PodData
<1> QED
  BY <1>6, <1>7, <1>8, <1>9, <1>10, <1>11, <1>12, <1>13, <1>14 DEF DaemonStep

\* The clean-up job.
LEMMA CleanerTyped ==
    ASSUME LvmTypeOK, CleanerTypeOK, NEW disks \in SUBSET Disk, NEW found \in BOOLEAN,
           CleanerStep \/ CleanerFails \/ RetryCleaner(found) \/ ReadGroups(spec, disks)
    PROVE  LvmTypeOK' /\ CleanerTypeOK'
<1>1. ASSUME UNCHANGED lvmVars PROVE LvmTypeOK'
  BY <1>1 DEF lvmVars, LvmTypeOK
<1>2. CASE ReadGroups(spec, disks)
  BY <1>1, <1>2 DEF ReadGroups, CleanerTypeOK, Cleaner
<1>3. CASE RetryCleaner(found)
  BY <1>1, <1>3 DEF RetryCleaner, StartedCleaner, NoCleaner, CleanerTypeOK, Cleaner
<1>4. CASE CleanerFails
  BY <1>4, LvmAssumption DEF CleanerFails, Fault, nodeVars, LvmTypeOK, NoCleaner, CleanerTypeOK, Cleaner
<1>5. CASE EndCleaner
  BY <1>1, <1>5 DEF EndCleaner, CleanerTypeOK, Cleaner
<1>6. ASSUME NEW g \in Vg, CleanGroup(g) PROVE LvmTypeOK' /\ CleanerTypeOK'
  <2> DEFINE pvs == IF Found(g) THEN cleaner.pvs \ PhysicalVolumes(g) ELSE cleaner.pvs
             next == [cleaner EXCEPT !.groups = @ \ {g}, !.pvs = IF Found(g) THEN @ \ PhysicalVolumes(g) ELSE @]
  <2>1. LvmTypeOK'
    BY <1>6, CommandTyped DEF CleanGroup
  <2>2. pvs \subseteq Disk /\ Members(g) \subseteq Disk
    BY DEF CleanerTypeOK, Cleaner, Members
  <2>3. next = [cleaner EXCEPT !.groups = @ \ {g}, !.pvs = pvs]
    OBVIOUS
  <2>4. next \in Cleaner
    <3> HIDE DEF pvs, next
    <3> QED
      BY <2>2, <2>3 DEF CleanerTypeOK, Cleaner
  <2>5. cleaner' = next \/ cleaner' = [next EXCEPT !.stage = "unmake", !.disks = Members(g)]
    BY <1>6 DEF CleanGroup
  <2> HIDE DEF next
  <2> QED
    BY <2>1, <2>2, <2>4, <2>5 DEF CleanerTypeOK, Cleaner
<1>7. ASSUME NEW d \in Disk, CleanPv(d) PROVE LvmTypeOK' /\ CleanerTypeOK'
  <2>1. LvmTypeOK'
    BY <1>7, CommandTyped DEF CleanPv
  <2>2. \/ cleaner' = [cleaner EXCEPT !.stage = "groups", !.disks = {}]
        \/ cleaner' = [cleaner EXCEPT !.disks = cleaner.disks \ {d}]
    BY <1>7 DEF CleanPv
  <2> QED
    BY <2>1, <2>2 DEF CleanerTypeOK, Cleaner
<1>8. ASSUME NEW d \in Disk, CleanNamed(d) PROVE LvmTypeOK' /\ CleanerTypeOK'
  BY <1>8, CommandTyped DEF CleanNamed, CleanerTypeOK, Cleaner
<1> QED
  BY <1>2, <1>3, <1>4, <1>5, <1>6, <1>7, <1>8 DEF CleanerStep

\* What a step leaves alone keeps its type.
LEMMA KeptTyped ==
    ASSUME TInv
    PROVE  /\ UNCHANGED lvmVars => LvmTypeOK'
           /\ (UNCHANGED <<pv, nodeVars>> /\ \E k : Fault(k)) => LvmTypeOK'
           /\ UNCHANGED mapVars => MapOK'
           /\ UNCHANGED pod => PodOK'
           /\ UNCHANGED jobVars => JobOK'
           /\ UNCHANGED daemon => DaemonOK'
           /\ UNCHANGED cleaner => CleanerTypeOK'
           /\ UNCHANGED clusterVars => ClusterTypeOK'
<1>1. /\ UNCHANGED lvmVars => LvmTypeOK'
      /\ (UNCHANGED <<pv, nodeVars>> /\ \E k : Fault(k)) => LvmTypeOK'
  BY LvmAssumption DEF TInv, PodData, LvmTypeOK, Fault, lvmVars, nodeVars
<1>2. UNCHANGED mapVars => MapOK'
  BY DEF TInv, PodData, MapOK, MapTypeOK, NewsOfMap, mapVars
<1>3. UNCHANGED pod => PodOK'
  BY DEF TInv, PodData, PodOK, PodTypeOK, PodAtWork, Wanted
<1>4. UNCHANGED jobVars => JobOK'
  BY DEF TInv, JobOK, JobTypeOK, jobVars
<1>5. UNCHANGED daemon => DaemonOK'
  BY DEF TInv, DaemonOK, DaemonTypeOK, DaemonAtWork
<1>6. UNCHANGED cleaner => CleanerTypeOK'
  BY DEF TInv, CleanerTypeOK
<1>7. UNCHANGED clusterVars => ClusterTypeOK'
  BY DEF TInv, ClusterTypeOK, clusterVars, userVars, operatorVars
<1> QED
  BY <1>1, <1>2, <1>3, <1>4, <1>5, <1>6, <1>7

\* Pods, jobs, daemon and disks, as parts of the node.
LEMMA NodeStepTyped ==
    ASSUME TInv,
           \/ PodRuns \/ JobRuns \/ \E l \in Launcher : Launches(l)
           \/ DaemonRuns \/ CleanerRuns \/ CleanerDies \/ Hardware
    PROVE  TInv'
<1>1. spec \in Wish /\ DisksToClean \subseteq Disk
  <2>1. spec \in Wish
    BY NodeAssumption DEF TInv, ClusterTypeOK
  <2> QED
    BY <2>1 DEF DisksToClean, Wish
<1>2. CASE PodRuns
  <2>1. PodData'
    BY <1>1, <1>2, PodStepTyped, StartTyped DEF PodRuns, TInv
  <2> QED
    BY <1>2, <2>1, KeptTyped DEF PodRuns, TInv
<1>3. CASE JobRuns \/ \E l \in Launcher : Launches(l)
  <2>1. PodData' /\ JobOK'
    BY <1>3, JobTyped DEF JobRuns, Launches, TInv
  <2> QED
    BY <1>3, <2>1, KeptTyped DEF JobRuns, Launches, TInv
<1>4. CASE DaemonRuns
  <2>1. PodData' /\ DaemonOK'
    BY <1>4, DaemonTyped DEF DaemonRuns, TInv
  <2> QED
    BY <1>4, <2>1, KeptTyped DEF DaemonRuns, TInv
<1>5. CASE CleanerRuns \/ CleanerDies
  <2>1. LvmTypeOK' /\ CleanerTypeOK'
    BY <1>1, <1>5, CleanerTyped DEF CleanerRuns, CleanerDies, TInv, PodData
  <2> QED
    BY <1>5, <2>1, KeptTyped DEF CleanerRuns, CleanerDies, TInv, PodData
<1>6. CASE Hardware
  <2>1. LvmTypeOK'
    BY <1>6, LvmAssumption DEF Hardware, LoseDisk, ReturnDisk, CreateVolume, DeleteVolume, Fault, TInv, PodData, LvmTypeOK
  <2> QED
    BY <1>6, <2>1, KeptTyped DEF Hardware, TInv, PodData
<1> QED
  BY <1>2, <1>3, <1>4, <1>5, <1>6

\* The operator: startPrepareVolumeGroupJob, the handler of the informer, the
\* status checker, and its restart.
LEMMA OperatorTyped ==
    ASSUME TInv,
           Reconcile \/ HandleNews \/ ServeNews \/ CheckStatus \/ RestartOperator
    PROVE  TInv'
<1>1. ASSUME NEW l \in Launcher, NEW step \in {"no", "get", "wait", "delete", "create"},
             Goes(l, step) \/ UNCHANGED asks, UNCHANGED <<job, tries>>
      PROVE  JobOK'
  BY <1>1 DEF TInv, JobOK, JobTypeOK, Goes
<1>2. ASSUME cm' = cm, changed' \subseteq {"status", "devices", "lvmd", "added"},
             changed' # {} => changed # {} \/ cm # NoMap
      PROVE  MapOK'
  BY <1>2 DEF TInv, PodData, MapOK, MapTypeOK, NewsOfMap
<1>3. cm \in Data \cup {NoMap} /\ changed \subseteq {"status", "devices", "lvmd", "added"} /\ (changed # {} => cm \in Data)
  BY DEF TInv, PodData, MapOK, MapTypeOK, NewsOfMap
<1>4. CASE Reconcile
  <2>1. MapOK'
    BY <1>2, <1>3, <1>4 DEF Reconcile
  <2>2. JobOK'
    BY <1>1, <1>4, NodeAssumption DEF Reconcile
  <2>3. ClusterTypeOK'
    BY <1>4 DEF Reconcile, TInv, ClusterTypeOK, userVars
  <2> QED
    BY <1>4, <2>1, <2>2, <2>3, KeptTyped DEF Reconcile, TInv, PodData
<1>5. CASE HandleNews
  <2>1. MapOK'
    BY <1>2, <1>3, <1>5 DEF HandleNews
  <2>2. JobOK'
    BY <1>1, <1>5, NodeAssumption DEF HandleNews, RestartJob
  <2>3. ReportsStatus => cm.status \in Status
    BY <1>3 DEF ReportsStatus, Data
  <2>4. ClusterTypeOK'
    BY <1>5, <2>3 DEF HandleNews, Report, TInv, ClusterTypeOK, userVars, operatorVars
  <2>5. LvmTypeOK'
    BY <1>5, KeptTyped DEF HandleNews, Report, lvmVars, nodeVars
  <2> QED
    BY <1>5, <2>1, <2>2, <2>4, <2>5, KeptTyped DEF HandleNews, TInv, PodData
<1>6. CASE ServeNews
  <2>1. MapOK'
    BY <1>2, <1>3, <1>6 DEF ServeNews
  <2>2. cm.lvmd \in (SUBSET Vg) \cup {None}
    BY <1>3, <1>6 DEF ServeNews, Data
  <2>3. ClusterTypeOK'
    BY <1>6, <2>2 DEF ServeNews, TInv, ClusterTypeOK, userVars, operatorVars
  <2> QED
    BY <1>6, <2>1, <2>3, KeptTyped DEF ServeNews, TInv, PodData
<1>7. CASE CheckStatus
  <2>1. [suc |-> [g \in Vg |-> None], fail |-> {}] \in Status
    BY DEF Status
  <2>2. ClusterTypeOK'
    BY <1>7, <2>1 DEF CheckStatus, TInv, ClusterTypeOK, userVars, operatorVars
  <2> QED
    BY <1>7, <2>2, KeptTyped DEF CheckStatus, podVars, TInv, PodData
<1>8. CASE RestartOperator
  <2>1. MapOK'
    BY <1>2, <1>3, <1>8 DEF RestartOperator, News
  <2>2. JobOK'
    BY <1>8 DEF RestartOperator, TInv, JobOK, JobTypeOK
  <2>3. ClusterTypeOK'
    BY <1>8 DEF RestartOperator, TInv, ClusterTypeOK, userVars
  <2> QED
    BY <1>8, <2>1, <2>2, <2>3, KeptTyped DEF RestartOperator, TInv, PodData
<1> QED
  BY <1>4, <1>5, <1>6, <1>7, <1>8

\* reconcileDelete, the garbage collector, and the users.
LEMMA DeletionTyped ==
    ASSUME TInv,
           \/ Deletion \/ CollectGarbage
           \/ DeleteCluster \/ \E new \in Wishes : Edit(new) \/ CreateCluster(new)
    PROVE  TInv'
<1>1. CASE ReconcileDelete
  <2>1. ClusterTypeOK'
    BY <1>1 DEF ReconcileDelete, DeletionAt, TInv, ClusterTypeOK, userVars
  <2> QED
    BY <1>1, <2>1, KeptTyped DEF ReconcileDelete, DeletionAt, lvmVars, nodeVars, TInv, PodData
<1>2. CASE CleanMap
  <2>1. MapOK'
    <3>1. CASE cm = NoMap
      BY <1>2, <3>1, KeptTyped DEF CleanMap
    <3>2. CASE cm # NoMap
      <4>1. [cm EXCEPT !.status = None, !.lvmd = None] \in Data
        BY <3>2 DEF TInv, PodData, MapOK, MapTypeOK, Data
      <4> QED
        BY <1>2, <3>2, <4>1, WriteTyped DEF CleanMap, TInv, PodData
    <3> QED
      BY <3>1, <3>2
  <2>2. CleanerTypeOK'
    BY <1>2 DEF CleanMap, TInv, StartedCleaner, NoCleaner, CleanerTypeOK, Cleaner
  <2>3. ClusterTypeOK'
    BY <1>2 DEF CleanMap, DeletionAt, TInv, ClusterTypeOK, userVars
  <2> QED
    BY <1>2, <2>1, <2>2, <2>3, KeptTyped DEF CleanMap, DeletionAt, lvmVars, nodeVars, TInv, PodData
<1>3. CASE EndDeletion
  <2>1. ClusterTypeOK'
    BY <1>3 DEF EndDeletion, DeletionAt, TInv, ClusterTypeOK, userVars
  <2>2. LvmTypeOK'
    BY <1>3, KeptTyped DEF EndDeletion, DeletionAt, lvmVars, nodeVars
  <2> QED
    BY <1>3, <2>1, <2>2, KeptTyped DEF EndDeletion, DeletionAt, TInv, PodData
<1>4. CASE CollectGarbage
  <2>1. Gone \in Pod /\ Gone.stage = "none" /\ Gone.todo = {}
    BY DEF Gone, Pod, Stages, Wish
  <2>2. PodOK'
    BY <1>4, <2>1 DEF CollectGarbage, PodOK, PodTypeOK, PodAtWork
  <2>3. JobOK'
    BY <1>4, JobAssumption DEF CollectGarbage, TInv, JobOK, JobTypeOK
  <2>4. ClusterTypeOK'
    BY <1>4 DEF CollectGarbage, TInv, ClusterTypeOK, userVars, operatorVars
  <2> QED
    BY <1>4, <2>2, <2>3, <2>4, KeptTyped DEF CollectGarbage, TInv, PodData
<1>5. CASE DeleteCluster \/ \E new \in Wishes : Edit(new) \/ CreateCluster(new)
  <2>1. ClusterTypeOK'
    <3>1. MaxEdits \in Nat
      BY NodeAssumption
    <3> QED
      <4>1. edits' \in 0 .. MaxEdits
        BY <1>5, <3>1 DEF DeleteCluster, Edit, CreateCluster, UserStep, TInv, ClusterTypeOK
      <4>2. spec' \in Wishes /\ event' \in BOOLEAN
        BY <1>5 DEF DeleteCluster, Edit, CreateCluster, UserStep, TInv, ClusterTypeOK
      <4>3. life' \in {"there", "deleted", "maps", "jobs", "gone"}
        BY <1>5 DEF DeleteCluster, Edit, CreateCluster, UserStep, TInv, ClusterTypeOK
      <4> QED
        BY <1>5, <4>1, <4>2, <4>3 DEF DeleteCluster, Edit, CreateCluster, UserStep, TInv, ClusterTypeOK, operatorVars
  <2> QED
    BY <1>5, <2>1, KeptTyped DEF DeleteCluster, Edit, CreateCluster, UserStep, podVars, TInv, PodData
<1> QED
  BY <1>1, <1>2, <1>3, <1>4, <1>5 DEF Deletion

\* The node starts without pods, jobs and records.
LEMMA InitTyped == Init => TInv
<1> SUFFICES ASSUME Init PROVE TInv
  OBVIOUS
<1>1. LvmTypeOK
  BY NodeAssumption, LvmAssumption DEF Init, LvmTypeOK
<1>2. MapOK /\ PodOK
  BY DEF Init, MapInit, MapOK, MapTypeOK, NewsOfMap, Gone, PodOK, PodTypeOK, PodAtWork, Pod, Stages, Wish
<1>3. JobOK /\ DaemonOK /\ CleanerTypeOK
  BY JobAssumption DEF Init, JobInit, JobOK, JobTypeOK, Resting, DaemonOK, DaemonTypeOK, DaemonAtWork, Daemon,
    NoCleaner, CleanerTypeOK, Cleaner
<1>4. ClusterTypeOK
  <2>1. MaxEdits \in Nat
    BY NodeAssumption
  <2> QED
    <3>1. edits \in 0 .. MaxEdits
      BY <2>1 DEF Init
    <3>2. spec \in Wishes /\ seen \in Wishes \cup {None}
      BY DEF Init
    <3>3. life \in {"there", "deleted", "maps", "jobs", "gone"} /\ informed \in BOOLEAN /\ event \in BOOLEAN
      BY DEF Init
    <3>4. report \in Status \cup {None} /\ plugin \in (SUBSET Vg) \cup {None}
      BY DEF Init
    <3> QED
      BY <3>1, <3>2, <3>3, <3>4 DEF ClusterTypeOK
<1> QED
  BY <1>1, <1>2, <1>3, <1>4 DEF TInv, PodData

\* Every step of the node.
LEMMA StepTyped == TInv /\ [Next]_vars => TInv'
<1> SUFFICES ASSUME TInv, [Next]_vars PROVE TInv'
  OBVIOUS
<1>1. CASE UNCHANGED vars
  BY <1>1, KeptTyped DEF vars, podVars, TInv, PodData
<1>2. CASE Next
  BY <1>2, NodeStepTyped, OperatorTyped, DeletionTyped DEF Next
<1> QED
  BY <1>1, <1>2

\* Whatever jobs, daemon, operator and clean-up do, and whenever they die, all
\* that they hold and record is of its type: statuses name classes of the node,
\* devices are disks of it, and a job starts no pod too many.
THEOREM NodeTyped == Spec => []TypeOK
<1>1. TInv => TypeOK
  BY DEF TInv, PodData, MapOK, PodOK, JobOK, DaemonOK, TypeOK
<1> QED
  BY <1>1, InitTyped, StepTyped, PTL DEF Spec
=============================================================================
