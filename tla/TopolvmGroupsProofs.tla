------------------------- MODULE TopolvmGroupsProofs -------------------------
(***************************************************************************)
(* The volume groups of a node change only as VolumeGroups allows.         *)
(***************************************************************************)
EXTENDS TopolvmNodeProofs

-----------------------------------------------------------------------------
(* The invariant.                                                          *)

Theirs(g) == {d \in Disk : Foreign[d] = g}
Others == {g \in Vg : Theirs(g) # {}}
Given == {g \in Vg : spec[g] # NoClass}

\* The conditions under which the groups are kept.  A job with useAllDevices drops
\* disks of the class (TopolvmEveryDisk), and one that has read an old specification
\* adds disks that the new one does not name.
Careful ==
    /\ AllDevices = FALSE /\ Patient = TRUE
    \* A class of no disks names a group only for the clean-up.
    /\ \A w \in Wishes, g \in Vg : w[g] # {}
    \* A group of others that the clean-up removed would pass for a new one.
    /\ CleanUp /\ Returns # {} => \A w \in Wishes, g \in Others : w[g] = NoClass

\* A group of others that the clean-up of a deleted cluster has removed: a pod
\* that is late may make it again.
Lost(g) == /\ CleanUp /\ Returns = {} /\ life # "there" /\ g \in Given
           /\ Members(g) \in {{}, spec[g]}

\* A class of that name is recorded as created only then.
OnlyLost(suc) == \A g \in Others : suc[g] # None => Lost(g)

PodHasJob == pod.stage # "none" => job = "active"
PodWants == pod.stage \notin {"none", "start", "done"} => pod.want = spec
PodExpands ==
    /\ pod.stage = "expand" => pod.disks \cup pod.made \subseteq pod.want[pod.cur]
    /\ pod.stage # "expand" => pod.made = {}
    /\ pod.stage \in {"expand", "reduced"} /\ pod.cur \in Others => Lost(pod.cur)
CleanerEnds ==
    /\ cleaner.stage \notin {"none", "done"} => CleanUp /\ life # "there"
    /\ cleaner.stage \in {"none", "done"} => cleaner.groups = {}
    /\ cleaner.groups \subseteq Given

InGroups == \A d \in lv : pv[d] \in Vg
OthersKept == \A g \in Others : Members(g) = Theirs(g) \/ Lost(g)
MapRecorded == cm # NoMap /\ cm.status # None => OnlyLost(cm.status.suc)
PodRecorded == OnlyLost(pod.suc)
DaemonRecorded ==
    /\ daemon.stage \in {"classes", "checked"} => OnlyLost(daemon.base.suc)
    /\ daemon.stage = "checked" => OnlyLost(daemon.new)

PodInv == PodHasJob /\ PodWants /\ PodExpands /\ PodRecorded
GInv == PodInv /\ CleanerEnds /\ InGroups /\ OthersKept /\ MapRecorded /\ DaemonRecorded

\* What a step does to the groups.
Allowed == Groups!GroupsNext \/ UNCHANGED Groups!groupVars
Effects == /\ Allowed /\ InGroups'
           /\ \A g \in Others : /\ Lost(g) => Lost(g)'
                                /\ Members(g)' = Members(g) \/ Lost(g)'

-----------------------------------------------------------------------------
(* Commands and what they do to the groups.                                *)

\* A disk of a group is one of those that the group holds.
LEMMA HoldsMembers ==
    ASSUME LvmTypeOK, NEW ds \in SUBSET Disk, NEW x, Holds(ds, x), NEW g \in Vg
    PROVE  Members(g)' = IF g = x THEN Members(g) \cup ds ELSE Members(g) \ ds
BY DEF LvmTypeOK, Holds, Members

\* A label on a disk, or none, is not a group.
LEMMA LabelMembers ==
    ASSUME LvmTypeOK, NEW ds \in SUBSET Disk, NEW x \in {Raw, Label}, Holds(ds, x),
           \A d \in ds : pv[d] \in {Raw, Label}, NEW g \in Vg
    PROVE  Members(g)' = Members(g)
<1>1. Members(g) \cap ds = {}
  BY LvmAssumption DEF Members
<1> QED
  BY <1>1, HoldsMembers, LvmAssumption

\* The specification names disks of the node.
LEMMA NamedDisks ==
    ASSUME TInv, Careful
    PROVE  /\ spec \in Wish
           /\ Named \in [Vg -> SUBSET Disk]
           /\ \A g \in Given : Named[g] = spec[g] /\ spec[g] # {}
           /\ \A g \in Vg \ Given : Named[g] = {}
<1>1. spec \in Wishes /\ Wishes \subseteq Wish
  BY NodeAssumption DEF TInv, ClusterTypeOK
<1> QED
  BY <1>1 DEF Named, Given, Wish, Careful

\* Groups, volumes and specification stay: the groups see a stutter.
LEMMA QuietStep ==
    ASSUME TInv, GInv, \A g \in Vg : Members(g)' = Members(g),
           lv' = lv, spec' = spec, (life' = "there") <=> (life = "there")
    PROVE  Effects
<1>1. [g \in Vg |-> Members(g)]' = [g \in Vg |-> Members(g)]
  OBVIOUS
<1>2. Named' = Named
  BY DEF Named
<1>3. UNCHANGED Groups!groupVars
  BY <1>1, <1>2 DEF Groups!groupVars
<1>4. InGroups'
  BY DEF GInv, InGroups, Members, TInv, PodData, LvmTypeOK
<1>5. \A g \in Others : Lost(g) => Lost(g)'
  BY DEF Lost, Given, Others
<1> QED
  BY <1>3, <1>4, <1>5 DEF Effects, Allowed, Others

\* A disk of a volume stays where it is.
LEMMA InGroupsStays ==
    ASSUME TInv, InGroups, lv' = lv, NEW ds \in SUBSET Disk, NEW x, Holds(ds, x),
           x \in Vg \/ ds \cap lv = {}
    PROVE  InGroups'
BY DEF InGroups, Holds, TInv, PodData, LvmTypeOK

\* vgcreate.
LEMMA CreateStep ==
    ASSUME TInv, GInv, Careful, NEW g \in Given,
           CanVgCreate(g, spec[g]), Holds(spec[g], g), lv' = lv, UNCHANGED <<spec, life>>
    PROVE  Effects
<1> DEFINE ds == spec[g]
<1>1. g \in Vg /\ ds \subseteq Disk /\ Named[g] = ds /\ Members(g) = {} /\ ds # {}
  BY NamedDisks DEF Given, CanVgCreate
<1>2. \A h \in Vg : Members(h) \cap ds = {}
  BY LvmAssumption DEF CanVgCreate, Members
<1>3. /\ Members(g)' = ds
      /\ \A h \in Vg \ {g} : Members(h)' = Members(h)
  <2>1. LvmTypeOK
    BY DEF TInv, PodData
  <2>2. \A h \in Vg : Members(h)' = IF h = g THEN Members(h) \cup ds ELSE Members(h) \ ds
    BY <1>1, <2>1, HoldsMembers
  <2> QED
    BY <1>1, <1>2, <2>2
<1>4. [h \in Vg |-> Members(h)]' = [[h \in Vg |-> Members(h)] EXCEPT ![g] = ds]
  BY <1>3
<1>5. Named' = Named
  BY DEF Named
<1>6. Groups!Create(g)
  BY <1>1, <1>2, <1>4, <1>5 DEF Groups!Create, Groups!Free
<1>7. InGroups'
  BY <1>1, InGroupsStays DEF GInv
<1>8. Lost(g) => Lost(g)'
  BY <1>3 DEF Lost, Given
<1>9. \A h \in Others \ {g} : Lost(h) => Lost(h)'
  BY <1>3 DEF Lost, Given, Others
<1>10. g \in Others => Lost(g)'
  <2>1. g \in Others => Lost(g)
    BY <1>1 DEF GInv, OthersKept, Others
  <2> QED
    BY <1>8, <2>1
<1> QED
  BY <1>1, <1>3, <1>6, <1>7, <1>8, <1>9, <1>10 DEF Effects, Allowed, Groups!GroupsNext, Others

\* vgextend, of a group whose class is recorded as created.
LEMMA ExtendStep ==
    ASSUME TInv, GInv, Careful, NEW g \in Given, NEW ds \in SUBSET spec[g], ds # {},
           CanVgExtend(g, ds), Holds(ds, g), lv' = lv, UNCHANGED <<spec, life>>,
           g \in Others => Lost(g)
    PROVE  Effects
<1>1. g \in Vg /\ ds \subseteq Disk /\ Named[g] = spec[g]
  BY NamedDisks DEF Given
<1>2. \A h \in Vg : Members(h) \cap ds = {}
  BY LvmAssumption DEF CanVgExtend, Members
<1>3. Members(g) # {}
  BY DEF CanVgExtend, Whole
<1>4. g \notin Others
  BY <1>2, <1>3 DEF Lost, Others
<1>5. /\ Members(g)' = Members(g) \cup ds
      /\ \A h \in Vg \ {g} : Members(h)' = Members(h)
  <2>1. LvmTypeOK
    BY DEF TInv, PodData
  <2>2. \A h \in Vg : Members(h)' = IF h = g THEN Members(h) \cup ds ELSE Members(h) \ ds
    BY <1>1, <2>1, HoldsMembers
  <2> QED
    BY <1>1, <1>2, <2>2
<1>6. [h \in Vg |-> Members(h)]' = [[h \in Vg |-> Members(h)] EXCEPT ![g] = @ \cup ds]
  BY <1>5
<1>7. Named' = Named
  BY DEF Named
<1>8. Groups!Extend(g, ds)
  BY <1>1, <1>2, <1>3, <1>6, <1>7 DEF Groups!Extend, Groups!Free
<1>9. g \in Groups!Ours
  BY <1>1, <1>3, <1>4 DEF Groups!Ours, Others, Theirs
<1>10. InGroups'
  BY <1>1, InGroupsStays DEF GInv
<1>11. \A h \in Others : Lost(h) => Lost(h)'
  BY <1>4, <1>5 DEF Lost, Given, Others
<1> QED
  BY <1>1, <1>4, <1>5, <1>8, <1>9, <1>10, <1>11 DEF Effects, Allowed, Groups!GroupsNext, Others

\* vgreduce and vgremove, of disks that the class does not name.
LEMMA DropStep ==
    ASSUME TInv, GInv, Careful, NEW g \in Vg, NEW ds \in SUBSET Members(g), ds # {},
           ds \cap Named[g] = {}, ds \cap lv = {},
           Holds(ds, Label), lv' = lv, UNCHANGED <<spec, life>>,
           g \in Others => Lost(g)
    PROVE  Effects
<1>1. ds \subseteq Disk
  BY DEF Members
<1>2. \A h \in Vg \ {g} : Members(h) \cap ds = {}
  BY DEF Members
<1>3. g \notin Others
  BY NamedDisks DEF Lost, Others
<1>4. /\ Members(g)' = Members(g) \ ds
      /\ \A h \in Vg \ {g} : Members(h)' = Members(h)
  BY <1>1, <1>2, HoldsMembers, LvmAssumption DEF TInv, PodData
<1>5. [h \in Vg |-> Members(h)]' = [[h \in Vg |-> Members(h)] EXCEPT ![g] = @ \ ds]
  BY <1>4
<1>6. Named' = Named
  BY DEF Named
<1>7. Groups!Drop(g, ds)
  BY <1>5, <1>6 DEF Groups!Drop
<1>8. g \in Groups!Ours
  BY <1>3 DEF Groups!Ours, Others, Theirs
<1>9. InGroups'
  BY <1>1, InGroupsStays DEF GInv
<1>10. \A h \in Others : Lost(h) => Lost(h)'
  BY <1>3, <1>4 DEF Lost, Given, Others
<1> QED
  BY <1>1, <1>3, <1>4, <1>7, <1>8, <1>9, <1>10 DEF Effects, Allowed, Groups!GroupsNext, Others

\* vgremove by the clean-up.
LEMMA CleanStep ==
    ASSUME TInv, GInv, Careful, NEW g \in Given, CleanUp, life # "there",
           CanVgRemove(g), Holds(Members(g), Label), lv' = lv, UNCHANGED <<spec, life>>
    PROVE  Effects
<1>1. g \in Vg /\ Named[g] # {} /\ Members(g) \subseteq Disk /\ Members(g) \cap lv = {}
  BY NamedDisks DEF Given, CanVgRemove, HasVolumes, Members
<1>2. \A h \in Vg \ {g} : Members(h) \cap Members(g) = {}
  BY DEF Members
<1>3. /\ Members(g)' = {}
      /\ \A h \in Vg \ {g} : Members(h)' = Members(h)
  <2>1. LvmTypeOK
    BY DEF TInv, PodData
  <2>2. \A h \in Vg : Members(h)' = IF h = Label THEN Members(h) \cup Members(g) ELSE Members(h) \ Members(g)
    BY <1>1, <2>1, HoldsMembers
  <2> QED
    BY <1>1, <1>2, <2>2, LvmAssumption
<1>4. [h \in Vg |-> Members(h)]' = [[h \in Vg |-> Members(h)] EXCEPT ![g] = {}]
  BY <1>3
<1>5. Named' = Named
  BY DEF Named
<1>6. Groups!Remove(g)
  BY <1>1, <1>4, <1>5 DEF Groups!Remove
<1>7. InGroups'
  BY <1>1, InGroupsStays DEF GInv
<1>8. \A h \in Others \ {g} : Lost(h) => Lost(h)'
  BY <1>3 DEF Lost, Given, Others
<1>9. g \in Others => Returns = {}
  BY DEF Careful, Given, TInv, ClusterTypeOK
<1>10. g \in Others => Lost(g)'
  BY <1>3, <1>9 DEF Lost, Given
<1> QED
  BY <1>1, <1>3, <1>6, <1>7, <1>8, <1>10 DEF Effects, Allowed, Groups!GroupsNext, Others

\* lvmd and its volumes.
LEMMA UseStep ==
    ASSUME TInv, GInv, Careful, UNCHANGED <<pv, spec, life>>, lv' \subseteq Disk, InGroups'
    PROVE  Effects
<1>1. \A g \in Vg : Members(g)' = Members(g)
  BY DEF Members
<1>2. [g \in Vg |-> Members(g)]' = [g \in Vg |-> Members(g)] /\ Named' = Named
  BY <1>1 DEF Named
<1>3. lv' \subseteq UNION {Members(g) : g \in Vg}
  BY <1>1 DEF InGroups, Members
<1>4. lv' \subseteq UNION {[g \in Vg |-> Members(g)][h] : h \in Vg}
  BY <1>3
<1>5. Groups!Use
  BY <1>2, <1>4 DEF Groups!Use
<1>6. \A g \in Others : Lost(g) => Lost(g)'
  BY <1>1 DEF Lost, Given, Others
<1> QED
  BY <1>1, <1>5, <1>6 DEF Effects, Allowed, Groups!GroupsNext, Others

\* The users and the deletion.
LEMMA AskStep ==
    ASSUME TInv, TInv', GInv, Careful, UNCHANGED <<pv, lv>>,
           \A g \in Others : Lost(g) => Lost(g)'
    PROVE  Effects
<1>1. \A g \in Vg : Members(g)' = Members(g)
  BY DEF Members
<1>2. [g \in Vg |-> Members(g)]' = [g \in Vg |-> Members(g)]
  BY <1>1
<1>3. Named' \in [Vg -> SUBSET Disk]
  BY NodeAssumption DEF Careful, Named, TInv, ClusterTypeOK, Wish
<1>4. (CleanUp /\ life # "there")' \in BOOLEAN
  OBVIOUS
<1>5. Groups!Ask
  BY <1>2, <1>3, <1>4 DEF Groups!Ask
<1>6. InGroups'
  BY DEF GInv, InGroups
<1> QED
  BY <1>1, <1>5, <1>6 DEF Effects, Allowed, Groups!GroupsNext, Others

\* pvcreate and pvremove, and commands that fail.
LEMMA LabelStep ==
    ASSUME TInv, GInv, NEW ds \in SUBSET Disk, NEW x \in {Raw, Label}, NEW can,
           can => \A d \in ds : pv[d] \in {Raw, Label},
           Works(can, ds, x) \/ Fails(can), UNCHANGED <<spec, life>>
    PROVE  Effects
<1>1. lv' = lv
  BY DEF Works, Fails, nodeVars
<1>2. ASSUME NEW g \in Vg PROVE Members(g)' = Members(g)
  <2>1. CASE Works(can, ds, x)
    BY <2>1, LabelMembers DEF Works, TInv, PodData
  <2>2. CASE Fails(can)
    BY <2>2 DEF Fails, Members
  <2> QED
    BY <2>1, <2>2
<1> QED
  BY <1>1, <1>2, QuietStep

\* The same, of steps that do not touch the disks at all.
LEMMA SameStep ==
    ASSUME TInv, GInv, UNCHANGED <<pv, lv, spec>>, (life' = "there") <=> (life = "there")
    PROVE  Effects
<1>1. \A g \in Vg : Members(g)' = Members(g)
  BY DEF Members
<1> QED
  BY <1>1, QuietStep

-----------------------------------------------------------------------------
(* The pod.                                                                *)

\* A class that is wanted is one of the specification.
LEMMA WantsGiven ==
    ASSUME GInv, NEW g \in Wanted, pod.stage \notin {"none", "start", "done"}
    PROVE  g \in Given /\ pod.want[g] = spec[g]
BY DEF GInv, PodInv, PodWants, Wanted, Given

\* The class at hand is recorded as created.
LEMMA CurrentRecorded ==
    ASSUME TInv, GInv, pod.stage \in {"expand", "reduced"}
    PROVE  /\ pod.cur \in Vg /\ pod.cur \in Wanted /\ pod.cur \in Given
           /\ pod.want[pod.cur] = spec[pod.cur]
           /\ pod.cur \in Others => Lost(pod.cur)
<1>1. pod.cur \in Vg /\ pod.cur \in Wanted
  BY DEF TInv, PodData, PodOK, PodAtWork
<1> QED
  BY <1>1, WantsGiven DEF GInv, PodInv, PodExpands

\* The commands of the preparevg pod.
LEMMA PodEffects ==
    ASSUME TInv, GInv, Careful, PodRuns
    PROVE  Effects
<1>1. UNCHANGED <<spec, life>>
  BY DEF PodRuns, clusterVars, userVars
<1>2. CASE \/ ReadConfigMap \/ KeepVg \/ Save
           \/ \E g \in Vg : StartCreate(g) \/ StartExpand(g)
           \/ \E blind \in Blind : ReadSpec(spec, blind)
  <2>1. UNCHANGED <<pv, lv>>
    BY <1>2 DEF ReadConfigMap, KeepVg, Save, StartCreate, StartExpand, ReadSpec, lvmVars, nodeVars
  <2> QED
    BY <1>1, <2>1, SameStep
<1>3. ASSUME NEW d \in Disk, CreatePv(d) \/ ExpandPv(d) PROVE Effects
  <2>1. Works(CanPvCreate(d), {d}, Label) \/ Fails(CanPvCreate(d))
    BY <1>3 DEF CreatePv, ExpandPv
  <2>2. CanPvCreate(d) => pv[d] \in {Raw, Label}
    BY DEF CanPvCreate
  <2> QED
    BY <1>1, <1>3, <2>1, <2>2, LabelStep
<1>4. CASE CreateVg
  <2>1. pod.cur \in Wanted /\ pod.stage = "create"
    BY <1>4 DEF CreateVg, TInv, PodData, PodOK, PodAtWork
  <2>2. pod.cur \in Given /\ pod.want[pod.cur] = spec[pod.cur]
    BY <2>1, WantsGiven
  <2>3. CASE Works(CanVgCreate(pod.cur, spec[pod.cur]), spec[pod.cur], pod.cur)
    BY <1>1, <2>2, <2>3, CreateStep DEF Works, nodeVars
  <2>4. CASE UNCHANGED <<pv, lv>>
    BY <1>1, <2>4, SameStep
  <2> QED
    BY <1>4, <2>2, <2>3, <2>4 DEF CreateVg, Fails, nodeVars
<1>5. CASE ExpandVg
  <2>1. pod.stage = "expand" /\ pod.made # {}
    BY <1>5 DEF ExpandVg
  <2>2. pod.cur \in Given /\ pod.made \subseteq spec[pod.cur] /\ (pod.cur \in Others => Lost(pod.cur))
    BY <2>1, CurrentRecorded DEF GInv, PodInv, PodExpands
  <2>3. CASE Works(CanVgExtend(pod.cur, pod.made), pod.made, pod.cur)
    BY <1>1, <2>1, <2>2, <2>3, ExtendStep DEF Works, nodeVars
  <2>4. CASE UNCHANGED <<pv, lv>>
    BY <1>1, <2>4, SameStep
  <2> QED
    BY <1>5, <2>3, <2>4 DEF ExpandVg, Fails, nodeVars
<1>6. CASE ShrinkVg \/ RemoveVg
  <2>1. pod.stage = "expand" /\ Found(pod.cur)
    BY <1>6 DEF ShrinkVg, RemoveVg, Expanded
  <2>2. /\ pod.cur \in Vg /\ Named[pod.cur] = pod.want[pod.cur]
        /\ (pod.cur \in Others => Lost(pod.cur))
    BY <2>1, CurrentRecorded, NamedDisks
  <2>3. CASE UNCHANGED <<pv, lv>>
    BY <1>1, <2>3, SameStep
  <2>4. CASE Works(CanVgReduce(pod.cur, Dropped), Dropped, Label) /\ Dropped # {}
    BY <1>1, <2>2, <2>4, DropStep DEF Works, CanVgReduce, Dropped, nodeVars
  <2>5. CASE Works(CanVgRemove(pod.cur), Members(pod.cur), Label) /\ Dropped = PhysicalVolumes(pod.cur)
    <3>1. PhysicalVolumes(pod.cur) = Members(pod.cur) /\ Members(pod.cur) # {} /\ Members(pod.cur) \cap lv = {}
      BY <2>5 DEF Works, CanVgRemove, Whole, HasVolumes, PhysicalVolumes
    <3>2. Members(pod.cur) \cap Named[pod.cur] = {}
      BY <2>2, <2>5, <3>1 DEF Dropped
    <3> QED
      BY <1>1, <2>2, <2>5, <3>1, <3>2, DropStep DEF Works, nodeVars
  <2> QED
    BY <1>6, <2>3, <2>4, <2>5 DEF ShrinkVg, RemoveVg, Fails, nodeVars
<1>7. CASE RemoveReducedPvs
  <2>1. pod.disks \subseteq Disk
    BY DEF TInv, PodData, PodOK, PodTypeOK, Pod
  <2>2. CanPvRemove(pod.disks) => \A d \in pod.disks : pv[d] \in {Raw, Label}
    BY DEF CanPvRemove
  <2>3. Works(CanPvRemove(pod.disks), pod.disks, Raw) \/ Fails(CanPvRemove(pod.disks))
    BY <1>7 DEF RemoveReducedPvs
  <2> QED
    BY <1>1, <2>1, <2>2, <2>3, LabelStep
<1>8. ASSUME NEW g \in Vg, DeleteVg(g) PROVE Effects
  <2>1. g \in Successes(pod.suc) \ Wanted /\ pod.stage = "class"
    BY <1>8 DEF DeleteVg, Stale, Between
  <2>2. g \notin Given
    BY <2>1 DEF GInv, PodInv, PodWants, Wanted, Given
  <2>3. Named[g] = {} /\ (g \in Others => Lost(g))
    BY <2>1, <2>2, NamedDisks DEF GInv, PodInv, PodRecorded, OnlyLost, Successes
  <2>4. CASE UNCHANGED <<pv, lv>>
    BY <1>1, <2>4, SameStep
  <2>5. CASE Works(CanVgRemove(g), Members(g), Label)
    <3>1. Members(g) # {} /\ Members(g) \cap lv = {}
      BY <2>5 DEF Works, CanVgRemove, Whole, HasVolumes
    <3> QED
      BY <1>1, <2>3, <2>5, <3>1, DropStep DEF Works, nodeVars
  <2> QED
    BY <1>8, <2>4, <2>5 DEF DeleteVg, Fails, nodeVars
<1>9. ASSUME NEW d \in Disk, RemovePv(d) PROVE Effects
  <2>1. Works(CanPvRemove({d}), {d}, Raw) \/ Fails(CanPvRemove({d}))
    BY <1>9 DEF RemovePv
  <2>2. CanPvRemove({d}) => pv[d] \in {Raw, Label}
    BY DEF CanPvRemove
  <2> QED
    BY <1>1, <1>9, <2>1, <2>2, LabelStep
<1> QED
  BY <1>2, <1>3, <1>4, <1>5, <1>6, <1>7, <1>8, <1>9 DEF PodRuns, PodStep

\* What is lost stays lost, so what was recorded rightly stays so.
LostStays == \A g \in Others : Lost(g) => Lost(g)'

\* A patch of one key leaves the other.
LEMMA WriteRecorded ==
    ASSUME LostStays, NEW new, new.status # None => OnlyLost(new.status.suc), Write(new)
    PROVE  MapRecorded'
BY DEF LostStays, OnlyLost, MapRecorded, Write

\* A patch writes the records or leaves them.
LEMMA PatchRecorded ==
    ASSUME LostStays, MapRecorded, NEW old, NEW new, Patch(old, new),
           new.status \notin {None, old.status} => OnlyLost(new.status.suc)
    PROVE  MapRecorded'
<1> DEFINE map == [k \in Keys |-> IF new[k] # old[k] THEN new[k] ELSE cm[k]]
<1>1. Write(map) /\ cm # NoMap
  BY DEF Patch
<1>2. map.status = IF new.status # old.status THEN new.status ELSE cm.status
  BY DEF Keys
<1>3. map.status # None => OnlyLost(map.status.suc)
  BY <1>1, <1>2 DEF MapRecorded
<1> HIDE DEF map
<1> QED
  BY <1>1, <1>3, WriteRecorded

\* The records stay when the ConfigMap does.
LEMMA MapStays ==
    ASSUME LostStays, MapRecorded, cm' = cm
    PROVE  MapRecorded'
BY DEF LostStays, MapRecorded, OnlyLost

\* Done with a class, the pod keeps its part of the invariant.
LEMMA FinishKeeps ==
    ASSUME TInv, PodInv, LostStays, UNCHANGED <<job, spec>>,
           pod.stage \notin {"none", "start", "done"},
           NEW suc, NEW fail, NEW new, OnlyLost(suc), Finish(suc, fail, new)
    PROVE  PodInv'
<1>1. pod'.stage = "class" /\ pod'.want = pod.want /\ pod'.suc = suc /\ pod'.made = {}
  BY DEF Finish, TInv, PodData, PodOK, PodTypeOK, Pod
<1> QED
  BY <1>1 DEF PodInv, PodHasJob, PodWants, PodExpands, PodRecorded, OnlyLost, LostStays

\* The pod goes on with the same class, or with a new one.
LEMMA GoesOn ==
    ASSUME PodInv, LostStays, UNCHANGED <<job, spec>>,
           pod.stage \notin {"none", "start", "done"},
           pod'.want = pod.want, OnlyLost(pod'.suc),
           pod'.stage = "expand" => pod'.disks \cup pod'.made \subseteq pod.want[pod'.cur],
           pod'.stage # "expand" => pod'.made = {},
           pod'.stage \in {"expand", "reduced"} /\ pod'.cur \in Others => Lost(pod'.cur)
    PROVE  PodInv'
<1>1. PodRecorded'
  BY DEF PodRecorded, OnlyLost, LostStays
<1> QED
  BY <1>1 DEF PodInv, PodHasJob, PodWants, PodExpands, LostStays

\* Every step of the pod keeps its part of the invariant.
LEMMA PodKeeps ==
    ASSUME TInv, GInv, Careful, PodRuns, LostStays
    PROVE  PodInv' /\ MapRecorded'
<1>1. UNCHANGED <<job, spec>>
  BY DEF PodRuns, jobVars, clusterVars, userVars
<1>2. pod \in Pod /\ PodInv /\ OnlyLost(pod.suc) /\ MapRecorded
  BY DEF TInv, PodData, PodOK, PodTypeOK, GInv, PodInv, PodRecorded
<1>3. ASSUME NEW blind \in Blind, ReadSpec(spec, blind) PROVE PodInv' /\ MapRecorded'
  <2>1. pod.stage = "start" /\ cm' = cm
    BY <1>3 DEF ReadSpec, mapVars
  <2>2. pod'.stage = "load" /\ pod'.want = spec /\ pod'.suc = pod.suc /\ pod'.made = {}
    BY <1>2, <1>3, <2>1 DEF ReadSpec, Pod, Careful, PodInv, PodExpands
  <2> QED
    BY <1>1, <1>2, <2>1, <2>2, MapStays DEF PodInv, PodHasJob, PodWants, PodExpands, PodRecorded, OnlyLost, LostStays
<1>4. CASE ReadConfigMap
  <2>1. pod.stage = "load" /\ cm' = cm
    BY <1>4 DEF ReadConfigMap, mapVars
  <2>2. pod'.stage = "class" /\ pod'.want = pod.want /\ pod'.made = {}
    BY <1>2, <1>4, <2>1 DEF ReadConfigMap, Pod, PodInv, PodExpands
  <2>3. OnlyLost(pod'.suc)
    <3>1. pod'.suc = pod.suc \/ (cm # NoMap /\ cm.status # None /\ pod'.suc = cm.status.suc)
      BY <1>2, <1>4 DEF ReadConfigMap, Pod
    <3> QED
      BY <1>2, <3>1 DEF MapRecorded
  <2> QED
    BY <1>1, <1>2, <2>1, <2>2, <2>3, GoesOn, MapStays
<1>5. ASSUME NEW g \in Vg, StartCreate(g) PROVE PodInv' /\ MapRecorded'
  <2>1. pod.stage = "class" /\ cm' = cm
    BY <1>5 DEF StartCreate, Between, mapVars
  <2>2. pod'.stage \in {"create", "class"} /\ pod'.want = pod.want /\ pod'.suc = pod.suc /\ pod'.made = {}
    BY <1>2, <1>5, <2>1 DEF StartCreate, Pod, PodInv, PodExpands
  <2> QED
    BY <1>1, <1>2, <2>1, <2>2, GoesOn, MapStays
<1>6. ASSUME NEW g \in Vg, StartExpand(g) PROVE PodInv' /\ MapRecorded'
  <2>1. pod.stage = "class" /\ cm' = cm /\ pod.made = {} /\ (g \in Others => Lost(g))
    BY <1>2, <1>6 DEF StartExpand, Between, mapVars, PodInv, PodExpands, OnlyLost
  <2>2. CASE pod' = [pod EXCEPT !.stage = "expand", !.cur = g, !.disks = pod.want[g] \ PhysicalVolumes(g)]
    BY <1>1, <1>2, <2>1, <2>2, GoesOn, MapStays DEF Pod
  <2>3. CASE pod' = [pod EXCEPT !.todo = @ \ {g}]
    BY <1>1, <1>2, <2>1, <2>3, GoesOn, MapStays DEF Pod
  <2> QED
    BY <1>6, <2>2, <2>3 DEF StartExpand
<1>7. ASSUME LeaveIt, pod.stage \notin {"none", "start", "done"} PROVE PodInv'
  BY <1>1, <1>2, <1>7, FinishKeeps DEF LeaveIt
<1>8. ASSUME Forget, pod.stage \notin {"none", "start", "done"} PROVE PodInv'
  <2>1. OnlyLost([pod.suc EXCEPT ![pod.cur] = None])
    BY <1>2 DEF OnlyLost, Pod, Others
  <2> QED
    BY <1>1, <1>2, <1>8, <2>1, FinishKeeps DEF Forget
<1>9. ASSUME pod.stage \in {"expand", "reduced"}, NEW devs PROVE OnlyLost(List(devs))
  BY <1>2, <1>9 DEF List, OnlyLost, Pod, PodInv, PodExpands, Others
<1>10. ASSUME CreateFailed, pod.stage \notin {"none", "start", "done"} PROVE PodInv'
  BY <1>1, <1>2, <1>10, FinishKeeps DEF CreateFailed
<1>11. ASSUME NEW d \in Disk, CreatePv(d) PROVE PodInv' /\ MapRecorded'
  <2>1. pod.stage = "create" /\ cm' = cm /\ pod.made = {}
    BY <1>2, <1>11 DEF CreatePv, mapVars, PodInv, PodExpands
  <2>2. CASE pod' = [pod EXCEPT !.disks = @ \ {d}]
    BY <1>1, <1>2, <2>1, <2>2, GoesOn, MapStays DEF Pod
  <2> QED
    BY <1>2, <1>10, <1>11, <2>1, <2>2, MapStays DEF CreatePv
<1>12. CASE CreateVg
  <2> DEFINE g   == pod.cur
             suc == [pod.suc EXCEPT ![g] = [ready |-> TRUE, devs |-> IF g \in pod.fail THEN {} ELSE pod.want[g]]]
  <2>1. pod.stage = "create" /\ cm' = cm
    BY <1>12 DEF CreateVg, mapVars
  <2>2. CASE Works(CanVgCreate(g, pod.want[g]), pod.want[g], g) /\ Finish(suc, pod.fail \ {g}, pod.new \cup {g})
    <3>1. g \in Others => Lost(g)
      BY <2>2 DEF Works, CanVgCreate, GInv, OthersKept, Others
    <3>2. OnlyLost(suc)
      BY <1>2, <3>1 DEF OnlyLost, Pod, Others
    <3>3. Finish(suc, pod.fail \ {g}, pod.new \cup {g})
      BY <2>2
    <3> HIDE DEF suc
    <3> QED
      BY <1>1, <1>2, <2>1, <3>2, <3>3, FinishKeeps, MapStays
  <2> QED
    BY <1>2, <1>10, <1>12, <2>1, <2>2, MapStays DEF CreateVg
<1>13. ASSUME NEW d \in Disk, ExpandPv(d) PROVE PodInv' /\ MapRecorded'
  <2>1. pod.stage = "expand" /\ cm' = cm /\ d \in pod.disks
    BY <1>13 DEF ExpandPv, mapVars
  <2>2. CASE pod' = [pod EXCEPT !.disks = @ \ {d}, !.made = @ \cup {d}]
    BY <1>1, <1>2, <2>1, <2>2, GoesOn, MapStays DEF Pod, PodInv, PodExpands
  <2>3. CASE pod' = [pod EXCEPT !.disks = @ \ {d}, !.suc = List(pod.suc[pod.cur].devs \cup {d})]
    <3> DEFINE suc == List(pod.suc[pod.cur].devs \cup {d})
    <3>1. OnlyLost(suc)
      BY <1>9, <2>1
    <3>2. pod' = [pod EXCEPT !.disks = @ \ {d}, !.suc = suc]
      BY <2>3
    <3> HIDE DEF suc
    <3> QED
      BY <1>1, <1>2, <2>1, <3>1, <3>2, GoesOn, MapStays DEF Pod, PodInv, PodExpands
  <2> QED
    BY <1>13, <2>2, <2>3 DEF ExpandPv
<1>14. CASE ExpandVg
  <2>1. pod.stage = "expand" /\ cm' = cm
    BY <1>14 DEF ExpandVg, mapVars
  <2>2. CASE pod' = [pod EXCEPT !.made = {}]
    BY <1>1, <1>2, <2>1, <2>2, GoesOn, MapStays DEF Pod, PodInv, PodExpands
  <2>3. CASE pod' = [pod EXCEPT !.made = {}, !.suc = List(pod.suc[pod.cur].devs \cup pod.made)]
    <3> DEFINE suc == List(pod.suc[pod.cur].devs \cup pod.made)
    <3>1. OnlyLost(suc)
      BY <1>9, <2>1
    <3>2. pod' = [pod EXCEPT !.made = {}, !.suc = suc]
      BY <2>3
    <3> HIDE DEF suc
    <3> QED
      BY <1>1, <1>2, <2>1, <3>1, <3>2, GoesOn, MapStays DEF Pod, PodInv, PodExpands
  <2> QED
    BY <1>14, <2>2, <2>3 DEF ExpandVg
<1>15. CASE KeepVg
  BY <1>2, <1>7, <1>15, MapStays DEF KeepVg, Expanded, mapVars
<1>16. CASE ShrinkVg \/ RemoveVg
  <2>1. pod.stage = "expand" /\ pod.made = {} /\ cm' = cm
    BY <1>16 DEF ShrinkVg, RemoveVg, Expanded, mapVars
  <2>2. ASSUME NEW st \in {"reduced", "unmake"}, NEW ds, pod' = [pod EXCEPT !.stage = st, !.disks = ds] PROVE PodInv'
    BY <1>1, <1>2, <2>1, <2>2, GoesOn DEF Pod, PodInv, PodExpands
  <2> QED
    BY <1>2, <1>7, <1>16, <2>1, <2>2, MapStays DEF ShrinkVg, RemoveVg
<1>17. CASE RemoveReducedPvs
  <2>1. pod.stage = "reduced" /\ cm' = cm
    BY <1>17 DEF RemoveReducedPvs, mapVars
  <2>2. CASE Finish(List(pod.suc[pod.cur].devs \ pod.disks), pod.fail, pod.new)
    BY <1>1, <1>2, <1>9, <2>1, <2>2, FinishKeeps, MapStays
  <2> QED
    BY <1>2, <1>7, <1>17, <2>1, <2>2, MapStays DEF RemoveReducedPvs
<1>18. ASSUME NEW g \in Vg, DeleteVg(g) PROVE PodInv' /\ MapRecorded'
  <2>1. pod.stage = "class" /\ cm' = cm /\ pod.made = {}
    BY <1>2, <1>18 DEF DeleteVg, Between, mapVars, PodInv, PodExpands
  <2>2. CASE pod' = [pod EXCEPT !.stage = "unmake", !.cur = g, !.disks = Members(g)]
    BY <1>1, <1>2, <2>1, <2>2, GoesOn, MapStays DEF Pod
  <2>3. CASE pod' = [pod EXCEPT !.suc[g] = None]
    <3>1. OnlyLost(pod'.suc)
      BY <1>2, <2>3 DEF OnlyLost, Pod, Others
    <3> QED
      BY <1>1, <1>2, <2>1, <2>3, <3>1, GoesOn, MapStays DEF Pod
  <2> QED
    BY <1>18, <2>2, <2>3 DEF DeleteVg
<1>19. ASSUME NEW d \in Disk, RemovePv(d) PROVE PodInv' /\ MapRecorded'
  <2>1. pod.stage = "unmake" /\ cm' = cm /\ pod.made = {}
    BY <1>2, <1>19 DEF RemovePv, mapVars, PodInv, PodExpands
  <2>2. CASE pod' = [pod EXCEPT !.disks = @ \ {d}]
    BY <1>1, <1>2, <2>1, <2>2, GoesOn, MapStays DEF Pod
  <2> QED
    BY <1>2, <1>7, <1>8, <1>19, <2>1, <2>2, MapStays DEF RemovePv
<1>20. CASE Save
  <2> DEFINE new == [devices |-> None, status |-> NewStatus, lvmd |-> ServedClasses]
  <2>1. OnlyLost(new.status.suc)
    BY <1>2 DEF NewStatus
  <2>2. \E old : Patch(old, new) \/ Write(new)
    BY <1>20 DEF Save, CreateOrPatch
  <2>3. MapRecorded'
    <3> HIDE DEF new
    <3> QED
      BY <1>2, <2>1, <2>2, PatchRecorded, WriteRecorded
  <2>4. pod' = [Gone EXCEPT !.stage = "done"] /\ pod.stage = "class"
    BY <1>20 DEF Save, Between
  <2>5. pod'.stage = "done" /\ pod'.made = {} /\ \A g \in Vg : pod'.suc[g] = None
    BY <2>4 DEF Gone
  <2>6. PodInv'
    BY <1>1, <1>2, <2>4, <2>5 DEF PodInv, PodHasJob, PodWants, PodExpands, PodRecorded, OnlyLost, Others
  <2> QED
    BY <2>3, <2>6
<1> QED
  BY <1>3, <1>4, <1>5, <1>6, <1>11, <1>12, <1>13, <1>14, <1>15, <1>16, <1>17, <1>18, <1>19, <1>20 DEF PodRuns, PodStep

-----------------------------------------------------------------------------
(* Everything else.                                                        *)

\* The clean-up job.
LEMMA CleanerEffects ==
    ASSUME TInv, GInv, Careful, CleanerRuns \/ CleanerDies
    PROVE  Effects /\ CleanerEnds'
<1>1. UNCHANGED <<spec, life>>
  BY DEF CleanerRuns, CleanerDies, clusterVars, userVars
<1>2. cleaner \in Cleaner /\ CleanerEnds
  BY DEF TInv, CleanerTypeOK, GInv
<1>3. ASSUME UNCHANGED lvmVars PROVE Effects
  BY <1>1, <1>3, SameStep DEF lvmVars
<1>4. ASSUME UNCHANGED <<pv, nodeVars>> PROVE Effects
  BY <1>1, <1>4, SameStep DEF nodeVars
<1>5. CASE EndCleaner
  BY <1>1, <1>2, <1>3, <1>5 DEF EndCleaner, CleanerEnds, Cleaner, Given
<1>6. CASE RetryCleaner(life # "gone")
  <2>1. Effects
    BY <1>3, <1>6 DEF RetryCleaner
  <2>2. cleaner.stage \notin {"none", "done"}
    BY <1>6 DEF RetryCleaner
  <2>3. cleaner' = StartedCleaner \/ cleaner' = NoCleaner
    BY <1>6 DEF RetryCleaner
  <2>4. cleaner'.groups = {} /\ cleaner'.stage \in {"start", "none"}
    BY <2>3 DEF StartedCleaner, NoCleaner
  <2> QED
    BY <1>1, <1>2, <2>1, <2>2, <2>4 DEF CleanerEnds
<1>7. CASE life # "gone" /\ ReadGroups(spec, DisksToClean)
  <2>1. cleaner.stage = "start"
    BY <1>7 DEF ReadGroups
  <2>2. cleaner'.stage = "groups" /\ cleaner'.groups = Given
    BY <1>2, <1>7 DEF ReadGroups, Cleaner, Given
  <2> QED
    BY <1>1, <1>2, <1>3, <1>7, <2>1, <2>2 DEF ReadGroups, CleanerEnds, Given
<1>8. CASE CleanerFails
  <2>1. cleaner'.stage = "failed" /\ cleaner'.groups = {}
    BY <1>8 DEF CleanerFails, NoCleaner
  <2>2. cleaner.stage \notin {"none", "done"}
    BY <1>8 DEF CleanerFails, CleanerWorks
  <2> QED
    BY <1>1, <1>2, <1>4, <1>8, <2>1, <2>2 DEF CleanerFails, CleanerEnds
<1>9. ASSUME NEW g \in Vg, CleanGroup(g) PROVE Effects /\ CleanerEnds'
  <2>1. cleaner.stage = "groups" /\ g \in cleaner.groups /\ g \in Given /\ CleanUp /\ life # "there"
    BY <1>2, <1>9 DEF CleanGroup, CleanerEnds
  <2>2. cleaner'.groups = cleaner.groups \ {g} /\ cleaner'.stage \in {"groups", "unmake"}
    BY <1>2, <1>9, <2>1 DEF CleanGroup, Cleaner
  <2>3. ASSUME Works(CanVgRemove(g), Members(g), Label) PROVE Effects
    <3>1. CanVgRemove(g) /\ Holds(Members(g), Label) /\ lv' = lv
      BY <2>3 DEF Works, nodeVars
    <3> QED
      BY <1>1, <2>1, <3>1, CleanStep
  <2>4. Effects
    BY <1>4, <1>9, <2>3 DEF CleanGroup, Fails
  <2> QED
    BY <1>1, <1>2, <2>1, <2>2, <2>4 DEF CleanerEnds, Given
<1>10. ASSUME NEW d \in Disk, CleanPv(d) \/ CleanNamed(d) PROVE Effects /\ CleanerEnds'
  <2>1. Works(CanPvRemove({d}), {d}, Raw) \/ Fails(CanPvRemove({d}))
    BY <1>10 DEF CleanPv, CleanNamed
  <2>2. CanPvRemove({d}) => pv[d] \in {Raw, Label}
    BY DEF CanPvRemove
  <2>3. Effects
    BY <1>1, <1>10, <2>1, <2>2, LabelStep
  <2>4. cleaner.stage \in {"groups", "unmake"}
    BY <1>10 DEF CleanPv, CleanNamed
  <2>5. cleaner'.groups = cleaner.groups /\ cleaner'.stage \in {"groups", "unmake"}
    BY <1>2, <1>10, <2>4 DEF CleanPv, CleanNamed, Cleaner
  <2> QED
    BY <1>1, <1>2, <2>3, <2>4, <2>5 DEF CleanerEnds, Given
<1> QED
  BY <1>5, <1>6, <1>7, <1>8, <1>9, <1>10 DEF CleanerRuns, CleanerDies, CleanerStep

\* Disks and volumes.
LEMMA HardwareEffects ==
    ASSUME TInv, TInv', GInv, Careful, Hardware
    PROVE  Effects
<1>1. UNCHANGED <<spec, life>>
  BY DEF Hardware, clusterVars, userVars
<1>2. Lvmd \subseteq Vg
  BY DEF Lvmd, TInv, ClusterTypeOK
<1>3. lv' \subseteq Disk
  BY DEF TInv, PodData, LvmTypeOK
<1>4. UNCHANGED pv
  BY DEF Hardware, LoseDisk, ReturnDisk, CreateVolume, DeleteVolume
<1>5. InGroups'
  BY <1>2, <1>4 DEF Hardware, LoseDisk, ReturnDisk, CreateVolume, DeleteVolume, GInv, InGroups
<1> QED
  BY <1>1, <1>3, <1>4, <1>5, UseStep

\* Jobs, daemon and operator move no disk.
LEMMA OtherEffects ==
    ASSUME TInv, GInv,
           \/ JobRuns \/ \E l \in Launcher : Launches(l)
           \/ DaemonRuns
           \/ Reconcile \/ HandleNews \/ ServeNews \/ CheckStatus \/ RestartOperator
           \/ Deletion \/ CollectGarbage
    PROVE  Effects /\ spec' = spec
<1>1. CASE JobRuns \/ \E l \in Launcher : Launches(l)
  BY <1>1, SameStep DEF JobRuns, StartPod, PodSucceeded, PodFailed, PodFails, Launches, LaunchStep, GetJob, WaitForJob,
    DeleteJob, CreateJob, lvmVars, nodeVars, clusterVars, userVars
<1>2. CASE DaemonRuns
  BY <1>2, SameStep DEF DaemonRuns, DaemonStep, RestartDaemon, ScanDisks, WriteDevices, FindNoMap, CreateDevices,
    SkipClasses, ReadClasses, CheckGroups, WriteClasses, lvmVars, nodeVars, clusterVars, userVars
<1>3. CASE Reconcile \/ HandleNews \/ ServeNews \/ CheckStatus
  BY <1>3, SameStep DEF Reconcile, HandleNews, ServeNews, CheckStatus, podVars, lvmVars, nodeVars, userVars
<1>4. CASE RestartOperator \/ Deletion \/ CollectGarbage
  BY <1>4, SameStep DEF RestartOperator, Deletion, ReconcileDelete, CleanMap, EndDeletion, DeletionAt, CollectGarbage,
    lvmVars, nodeVars, userVars
<1> QED
  BY <1>1, <1>2, <1>3, <1>4

\* Users change the cluster only when no pod runs and no clean-up is under way.
LEMMA UserEffects ==
    ASSUME TInv, TInv', GInv, Careful,
           DeleteCluster \/ \E new \in Wishes : Edit(new) \/ CreateCluster(new)
    PROVE  Effects /\ (pod.stage = "none" \/ spec' = spec) /\ CleanerEnds'
<1>1. UserStep /\ Settled
  BY DEF DeleteCluster, Edit, CreateCluster, UserStep, Careful
<1>2. UNCHANGED <<pv, lv, cleaner>>
  BY <1>1 DEF UserStep, podVars, lvmVars
<1>3. LostStays
  BY <1>2 DEF DeleteCluster, Edit, CreateCluster, LostStays, Lost, Given, Members
<1>4. Effects
  BY <1>2, <1>3, AskStep DEF LostStays
<1>5. pod.stage = "none" \/ spec' = spec
  BY <1>1 DEF DeleteCluster, Edit, CreateCluster, Settled, GInv, PodInv, PodHasJob
<1>6. cleaner.stage \in {"none", "done"}
  BY <1>1 DEF DeleteCluster, Edit, CreateCluster, Settled, GInv, CleanerEnds
<1>7. CleanerEnds'
  BY <1>2, <1>6 DEF GInv, CleanerEnds
<1> QED
  BY <1>4, <1>5, <1>7

\* Every step of the node.
LEMMA StepEffects ==
    ASSUME TInv, TInv', GInv, Careful, Next
    PROVE  Effects /\ LostStays
BY PodEffects, CleanerEffects, HardwareEffects, OtherEffects, UserEffects DEF Next, Effects, LostStays

\* The daemon writes back records that it has read.
LEMMA DaemonKeeps ==
    ASSUME TInv, GInv, LostStays, DaemonRuns
    PROVE  MapRecorded' /\ DaemonRecorded'
<1>1. daemon \in Daemon /\ DaemonRecorded /\ MapRecorded
  BY DEF TInv, DaemonOK, DaemonTypeOK, GInv
<1>2. ASSUME daemon' = Resting \/ Listed PROVE DaemonRecorded'
  BY <1>2 DEF Resting, Listed, DaemonRecorded
<1>3. ASSUME daemon'.stage \in {"scanned", "missing"} PROVE DaemonRecorded'
  BY <1>3 DEF DaemonRecorded
<1>4. CASE \E blind \in Blind : ScanDisks(blind)
  BY <1>1, <1>3, <1>4, MapStays DEF ScanDisks, mapVars, Daemon
<1>5. CASE WriteDevices
  <2>1. DaemonRecorded'
    BY <1>2, <1>5 DEF WriteDevices
  <2>2. CASE UNCHANGED mapVars
    BY <1>1, <2>1, <2>2, MapStays DEF mapVars
  <2>3. CASE Patch(cm, [cm EXCEPT !.devices = daemon.view])
    <3>1. cm \in Data
      BY <2>3 DEF Patch, TInv, PodData, MapOK, MapTypeOK
    <3> DEFINE new == [cm EXCEPT !.devices = daemon.view]
    <3>2. new.status = cm.status /\ Patch(cm, new)
      BY <2>3, <3>1 DEF Data
    <3> HIDE DEF new
    <3> QED
      BY <1>1, <2>1, <3>2, PatchRecorded
  <2> QED
    BY <1>5, <2>2, <2>3 DEF WriteDevices
<1>6. CASE FindNoMap
  BY <1>1, <1>3, <1>6, MapStays DEF FindNoMap, mapVars, Daemon
<1>7. CASE CreateDevices
  <2>1. DaemonRecorded'
    BY <1>2, <1>7 DEF CreateDevices
  <2>2. CASE UNCHANGED mapVars
    BY <1>1, <2>1, <2>2, MapStays DEF mapVars
  <2>3. CASE Write([NoData EXCEPT !.devices = daemon.view])
    <3> DEFINE new == [NoData EXCEPT !.devices = daemon.view]
    <3>1. new.status = None /\ Write(new)
      BY <2>3 DEF NoData
    <3> HIDE DEF new
    <3> QED
      BY <2>1, <3>1, WriteRecorded
  <2> QED
    BY <1>7, <2>2, <2>3 DEF CreateDevices
<1>8. CASE SkipClasses
  BY <1>1, <1>2, <1>8, MapStays DEF SkipClasses, mapVars
<1>9. CASE ReadClasses
  <2>1. daemon'.base = cm.status /\ daemon'.stage = "classes"
    BY <1>9 DEF ReadClasses, Resting
  <2> QED
    BY <1>1, <1>9, <2>1, MapStays DEF ReadClasses, mapVars, DaemonRecorded, MapRecorded, OnlyLost, LostStays
<1>10. CASE CheckGroups
  <2>1. daemon.stage = "classes" /\ cm' = cm
    BY <1>10 DEF CheckGroups, mapVars
  <2>2. CASE daemon' = [daemon EXCEPT !.stage = "checked", !.new = [g \in Vg |-> Checked(g)]]
    <3> DEFINE new == [g \in Vg |-> Checked(g)]
    <3>1. daemon'.stage = "checked" /\ daemon'.base = daemon.base /\ daemon'.new = new
      BY <1>1, <2>2 DEF Daemon
    <3>2. \A g \in Others : new[g] # None => daemon.base.suc[g] # None
      BY DEF Checked, Others
    <3>3. OnlyLost(daemon.base.suc) /\ OnlyLost(new)
      BY <1>1, <2>1, <3>2 DEF DaemonRecorded, OnlyLost
    <3> HIDE DEF new
    <3> QED
      BY <1>1, <2>1, <3>1, <3>3, MapStays DEF DaemonRecorded, OnlyLost, LostStays
  <2> QED
    BY <1>1, <1>2, <1>10, <2>1, <2>2, MapStays DEF CheckGroups
<1>11. CASE WriteClasses
  <2> DEFINE old == [NoData EXCEPT !.status = daemon.base]
             new == [old EXCEPT !.status.suc = daemon.new]
  <2>1. daemon.base \in Status /\ daemon.new \in [Vg -> Class \cup {None}]
    BY <1>11 DEF WriteClasses, TInv, DaemonOK, DaemonAtWork
  <2>2. new.status.suc = daemon.new /\ Patch(old, new)
    BY <1>11, <2>1 DEF WriteClasses, NoData, Status
  <2>3. OnlyLost(daemon.new)
    BY <1>1, <1>11 DEF WriteClasses, DaemonRecorded
  <2> HIDE DEF old, new
  <2> QED
    BY <1>1, <1>2, <1>11, <2>2, <2>3, PatchRecorded DEF WriteClasses
<1>12. CASE RestartDaemon
  BY <1>1, <1>2, <1>12, MapStays DEF RestartDaemon, mapVars
<1> QED
  BY <1>4, <1>5, <1>6, <1>7, <1>8, <1>9, <1>10, <1>11, <1>12 DEF DaemonRuns, DaemonStep

\* Jobs and the garbage collector start pods and take them away.
LEMMA PodReplaced ==
    ASSUME TInv, PodInv, LostStays,
           \/ pod' = Gone
           \/ pod' = Started /\ job' = "active"
           \/ /\ pod' = pod /\ (spec' = spec \/ pod.stage = "none")
              /\ pod.stage = "none" \/ job' = job
    PROVE  PodInv'
<1>1. CASE pod' = Gone \/ (pod' = Started /\ job' = "active")
  <2>1. pod'.stage \in {"none", "start"} /\ pod'.made = {} /\ \A g \in Vg : pod'.suc[g] = None
    BY <1>1 DEF Gone, Started
  <2>2. pod'.stage = "start" => job' = "active"
    BY <1>1 DEF Gone
  <2> QED
    BY <2>1, <2>2 DEF PodInv, PodHasJob, PodWants, PodExpands, PodRecorded, OnlyLost, Others
<1>2. CASE /\ pod' = pod /\ (spec' = spec \/ pod.stage = "none")
           /\ pod.stage = "none" \/ job' = job
  BY <1>2 DEF PodInv, PodHasJob, PodWants, PodExpands, PodRecorded, OnlyLost, LostStays
<1> QED
  BY <1>1, <1>2

\* The invariant is kept.
LEMMA StepKeeps ==
    ASSUME TInv, TInv', GInv, Careful, Next
    PROVE  GInv'
<1>1. Effects /\ LostStays
  BY StepEffects
<1>2. InGroups' /\ OthersKept'
  BY <1>1 DEF Effects, LostStays, GInv, OthersKept
<1>3. PodInv'
  <2>1. CASE PodRuns
    BY <1>1, <2>1, PodKeeps
  <2>2. CASE JobRuns \/ CollectGarbage \/ \E l \in Launcher : Launches(l)
    <3>1. spec' = spec
      BY <2>2, OtherEffects
    <3>2. \/ pod' = Gone \/ (pod' = Started /\ job' = "active")
          \/ pod' = pod /\ (job = "none" \/ job' = job)
      BY <2>2 DEF JobRuns, StartPod, PodSucceeded, PodFailed, PodFails, CollectGarbage,
        Launches, LaunchStep, GetJob, WaitForJob, DeleteJob, CreateJob
    <3>3. job = "none" => pod.stage = "none"
      BY DEF GInv, PodInv, PodHasJob
    <3> QED
      BY <1>1, <3>1, <3>2, <3>3, PodReplaced DEF GInv
  <2>3. CASE DaemonRuns \/ Reconcile \/ HandleNews \/ ServeNews \/ CheckStatus \/ RestartOperator \/ Deletion
    <3>1. spec' = spec
      BY <2>3, OtherEffects
    <3>2. UNCHANGED <<pod, job>>
      BY <2>3 DEF DaemonRuns, DaemonStep, RestartDaemon, ScanDisks, WriteDevices, FindNoMap, CreateDevices,
        SkipClasses, ReadClasses, CheckGroups, WriteClasses, Reconcile, HandleNews, ServeNews, CheckStatus,
        RestartOperator, Deletion, ReconcileDelete, CleanMap, EndDeletion, DeletionAt, podVars, jobVars
    <3> QED
      BY <1>1, <3>1, <3>2, PodReplaced DEF GInv
  <2>4. CASE CleanerRuns \/ CleanerDies \/ Hardware
    <3>1. UNCHANGED <<pod, job, spec>>
      BY <2>4 DEF CleanerRuns, CleanerDies, Hardware, jobVars, clusterVars, userVars
    <3> QED
      BY <1>1, <3>1, PodReplaced DEF GInv
  <2>5. CASE DeleteCluster \/ \E new \in Wishes : Edit(new) \/ CreateCluster(new)
    <3>1. UNCHANGED <<pod, job>>
      BY <2>5 DEF DeleteCluster, Edit, CreateCluster, UserStep, podVars, jobVars
    <3> QED
      BY <1>1, <2>5, <3>1, UserEffects, PodReplaced DEF GInv
  <2> QED
    BY <2>1, <2>2, <2>3, <2>4, <2>5 DEF Next
<1>4. CleanerEnds'
  <2>1. CASE CleanerRuns \/ CleanerDies
    BY <2>1, CleanerEffects
  <2>2. CASE DeleteCluster \/ \E new \in Wishes : Edit(new) \/ CreateCluster(new)
    BY <2>2, UserEffects
  <2>3. CASE PodRuns \/ JobRuns \/ DaemonRuns \/ Hardware \/ \E l \in Launcher : Launches(l)
    BY <2>3 DEF PodRuns, JobRuns, DaemonRuns, Launches, Hardware, clusterVars, userVars, GInv, CleanerEnds, Given
  <2>4. CASE Reconcile \/ HandleNews \/ ServeNews \/ CheckStatus \/ CollectGarbage
    BY <2>4 DEF Reconcile, HandleNews, ServeNews, CheckStatus, CollectGarbage, userVars, GInv, CleanerEnds, Given
  <2>5. CASE RestartOperator \/ ReconcileDelete \/ EndDeletion
    <3>1. UNCHANGED <<spec, cleaner>> /\ (life # "there" => life' # "there")
      BY <2>5 DEF RestartOperator, ReconcileDelete, EndDeletion, DeletionAt, userVars
    <3> QED
      BY <3>1 DEF GInv, CleanerEnds, Given
  <2>6. CASE CleanMap
    <3>1. life' = "jobs" /\ life = "maps" /\ UNCHANGED spec
      BY <2>6 DEF CleanMap, DeletionAt, userVars
    <3>2. CASE CleanUp /\ cleaner' = StartedCleaner
      <4>1. cleaner'.stage = "start" /\ cleaner'.groups = {}
        BY <3>2 DEF StartedCleaner, NoCleaner
      <4> QED
        BY <3>1, <3>2, <4>1 DEF CleanerEnds
    <3>3. CASE cleaner' = cleaner
      BY <3>1, <3>3 DEF GInv, CleanerEnds, Given
    <3> QED
      BY <2>6, <3>2, <3>3 DEF CleanMap
  <2> QED
    BY <2>1, <2>2, <2>3, <2>4, <2>5, <2>6 DEF Next, Deletion
<1>5. MapRecorded'
  <2>1. CASE PodRuns
    BY <1>1, <2>1, PodKeeps
  <2>2. CASE DaemonRuns
    BY <1>1, <2>2, DaemonKeeps
  <2>3. CASE CleanMap /\ cm # NoMap
    <3> DEFINE new == [cm EXCEPT !.status = None, !.lvmd = None]
    <3>1. cm \in Data
      BY <2>3 DEF TInv, PodData, MapOK, MapTypeOK
    <3>2. new.status = None /\ Write(new)
      BY <2>3, <3>1 DEF CleanMap, Data
    <3> HIDE DEF new
    <3> QED
      BY <1>1, <3>2, WriteRecorded
  <2>4. CASE cm' = cm
    BY <1>1, <2>4, MapStays DEF GInv
  <2>5. CASE JobRuns \/ \E l \in Launcher : Launches(l)
    BY <2>4, <2>5 DEF JobRuns, StartPod, PodSucceeded, PodFailed, PodFails, Launches, LaunchStep, GetJob, WaitForJob,
      DeleteJob, CreateJob, mapVars
  <2>6. CASE CleanerRuns \/ CleanerDies \/ Hardware
    BY <2>4, <2>6 DEF CleanerRuns, CleanerDies, Hardware, mapVars
  <2>7. CASE Reconcile \/ HandleNews \/ ServeNews \/ CheckStatus \/ RestartOperator \/ CollectGarbage
    BY <2>4, <2>7 DEF Reconcile, HandleNews, ServeNews, CheckStatus, RestartOperator, CollectGarbage, podVars, mapVars
  <2>8. CASE Deletion
    BY <2>3, <2>4, <2>8 DEF Deletion, ReconcileDelete, CleanMap, EndDeletion, mapVars
  <2>9. CASE DeleteCluster \/ \E new \in Wishes : Edit(new) \/ CreateCluster(new)
    BY <2>4, <2>9 DEF DeleteCluster, Edit, CreateCluster, UserStep, podVars, mapVars
  <2> QED
    BY <2>1, <2>2, <2>5, <2>6, <2>7, <2>8, <2>9 DEF Next
<1>6. DaemonRecorded'
  <2>1. CASE DaemonRuns
    BY <1>1, <2>1, DaemonKeeps
  <2>2. CASE daemon' = daemon
    BY <1>1, <2>2 DEF GInv, DaemonRecorded, OnlyLost, LostStays
  <2>3. CASE ~DaemonRuns
    BY <2>2, <2>3 DEF Next, PodRuns, JobRuns, Launches, CleanerRuns, CleanerDies, Hardware, Reconcile, HandleNews,
      ServeNews, CheckStatus, RestartOperator, Deletion, ReconcileDelete, CleanMap, EndDeletion, DeletionAt,
      CollectGarbage, DeleteCluster, Edit, CreateCluster, UserStep
  <2> QED
    BY <2>1, <2>3
<1> QED
  BY <1>2, <1>3, <1>4, <1>5, <1>6 DEF GInv

\* The invariant holds at the start.
LEMMA InitKeeps ==
    ASSUME Init, Careful
    PROVE  GInv /\ Groups!GroupsInit
<1>1. PodInv
  <2>1. pod.stage = "none" /\ pod.made = {} /\ \A g \in Vg : pod.suc[g] = None
    BY DEF Init, Gone
  <2> QED
    BY <2>1 DEF PodInv, PodHasJob, PodWants, PodExpands, PodRecorded, OnlyLost, Others
<1>2. CleanerEnds
  BY DEF Init, NoCleaner, CleanerEnds, Given
<1>3. InGroups /\ OthersKept
  BY DEF Init, InGroups, OthersKept, Members, Theirs
<1>4. MapRecorded /\ DaemonRecorded
  BY DEF Init, MapInit, MapRecorded, Resting, DaemonRecorded
<1>5. Groups!GroupsInit
  <2>1. Named \in [Vg -> SUBSET Disk]
    BY InitTyped, NamedDisks
  <2>2. [g \in Vg |-> Members(g)] = [g \in Vg |-> {d \in Disk : Foreign[d] = g}]
    BY DEF Init, Members
  <2>3. lv = {} /\ ~(CleanUp /\ life # "there")
    BY DEF Init
  <2> QED
    BY <2>1, <2>2, <2>3 DEF Groups!GroupsInit
<1> QED
  BY <1>1, <1>2, <1>3, <1>4, <1>5 DEF GInv

\* Nothing at all happens.
LEMMA StutterKeeps ==
    ASSUME TInv, GInv, UNCHANGED vars
    PROVE  GInv' /\ UNCHANGED Groups!groupVars
<1>1. UNCHANGED <<pv, lv, cm, pod, job, daemon, cleaner, spec, life>>
  BY DEF vars, podVars, lvmVars, mapVars, jobVars, clusterVars, userVars
<1>2. (\A g \in Vg : Members(g)' = Members(g)) /\ LostStays
  BY <1>1 DEF Members, LostStays, Lost, Given, Others
<1>3. Effects
  BY <1>1, SameStep
<1>4. PodInv' /\ MapRecorded'
  BY <1>1, <1>2, PodReplaced, MapStays DEF GInv
<1>5. InGroups' /\ OthersKept'
  BY <1>2, <1>3 DEF Effects, GInv, OthersKept, LostStays
<1>6. CleanerEnds' /\ DaemonRecorded'
  BY <1>1, <1>2 DEF GInv, CleanerEnds, Given, DaemonRecorded, OnlyLost, LostStays
<1>7. UNCHANGED Groups!groupVars
  <2>1. [g \in Vg |-> Members(g)]' = [g \in Vg |-> Members(g)] /\ Named' = Named
    BY <1>1, <1>2 DEF Named
  <2> QED
    BY <1>1, <2>1 DEF Groups!groupVars
<1> QED
  BY <1>4, <1>5, <1>6, <1>7 DEF GInv

\* Whatever jobs, daemon, operator and clean-up do, at whatever point they die,
\* and whatever commands fail: as long as users wait until a change is applied,
\* and the classes name their disks, a group is made of all the disks named for
\* it, grows by named disks, loses only disks that are not named any more and hold
\* no volume, and the groups of others are left alone (preparevg.go, clean.go).
THEOREM GroupsAreKept == Careful => (Spec => ImplementsGroups)
<1> SUFFICES ASSUME Careful PROVE Spec => ImplementsGroups
  OBVIOUS
<1>1. Init => TInv /\ GInv /\ Groups!GroupsInit
  BY InitTyped, InitKeeps
<1>2. TInv /\ [Next]_vars => TInv'
  BY StepTyped
<1>3. TInv /\ TInv' /\ GInv /\ [Next]_vars => GInv' /\ [Groups!GroupsNext]_(Groups!groupVars)
  BY StepKeeps, StepEffects, StutterKeeps DEF Effects, Allowed
<1> QED
  BY <1>1, <1>2, <1>3, PTL DEF Spec, ImplementsGroups, Groups!GroupsSpec

\* VolumeGroups takes no named disk out of a group but when the cluster ends.
LEMMA NamedStay ==
    ASSUME TInv, Allowed, ~(CleanUp /\ life # "there"), NEW g \in Vg
    PROVE  Members(g) \cap Named[g] \subseteq Members(g)'
<1> DEFINE ms == [h \in Vg |-> Members(h)]
<1>1. ms[g] = Members(g) /\ ms'[g] = Members(g)'
  OBVIOUS
<1>2. CASE ms' = ms
  <2>1. ms'[g] = ms[g]
    BY <1>2
  <2> HIDE DEF ms
  <2> QED
    BY <1>1, <2>1
<1>3. CASE Groups!GroupsNext /\ ms' # ms
  <2>1. PICK h \in Vg : \/ Groups!Create(h)
                        \/ \E ds \in SUBSET Disk : Groups!Extend(h, ds) \/ Groups!Drop(h, ds)
    BY <1>3 DEF Groups!GroupsNext, Groups!Ask, Groups!Use, Groups!Remove, Groups!Ours
  <2>2. CASE Groups!Create(h)
    BY <1>1, <2>2 DEF Groups!Create
  <2>3. ASSUME NEW ds \in SUBSET Disk, Groups!Extend(h, ds) \/ Groups!Drop(h, ds)
        PROVE  Members(g) \cap Named[g] \subseteq Members(g)'
    BY <1>1, <2>3 DEF Groups!Extend, Groups!Drop
  <2> QED
    BY <2>1, <2>2, <2>3
<1> QED
  BY <1>2, <1>3 DEF Allowed, Groups!groupVars

\* A job never takes a disk out of the group of a class whose disks are named, one
\* by one, and name it: that one with useAllDevices does is due to the list of
\* available disks that such a job compares the group with (checkVgIfShrink).
THEOREM NamedDisksAreKept == Careful /\ CleanUp = FALSE => (Spec => NamedDisksStay)
<1> SUFFICES ASSUME Careful, CleanUp = FALSE PROVE Spec => NamedDisksStay
  OBVIOUS
<1>1. Init => TInv /\ GInv
  BY InitTyped, InitKeeps
<1>2. TInv /\ [Next]_vars => TInv'
  BY StepTyped
<1>3. TInv /\ TInv' /\ GInv /\ [Next]_vars => GInv' /\ Allowed
  BY StepKeeps, StepEffects, StutterKeeps DEF Effects, Allowed
<1>4. TInv /\ Allowed => \A g \in Vg : Members(g) \cap Named[g] \subseteq Members(g)'
  BY NamedStay
<1> QED
  BY <1>1, <1>2, <1>3, <1>4, PTL DEF Spec, NamedDisksStay
=============================================================================
