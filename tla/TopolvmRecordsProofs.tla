------------------------- MODULE TopolvmRecordsProofs -------------------------
(***************************************************************************)
(* The groups of a node, the record of them in the ConfigMap, and what     *)
(* lvmd is given to serve stay together; and a cluster that is deleted     *)
(* with its clean-up leaves neither behind.                                *)
(***************************************************************************)
EXTENDS TopolvmGroupsProofs

-----------------------------------------------------------------------------
(* The invariant.                                                          *)

Loaded == pod.stage \in {"class", "create", "expand", "reduced", "unmake"}
Checking == daemon.stage \in {"classes", "checked"}
LvmdOf(map) == IF map = NoMap THEN None ELSE map.lvmd

\* What the pod holds in memory is what it has read, but for the classes it has
\* done with.
PodCounts ==
    /\ ~Loaded => pod.base = NoMap /\ pod.new = {} /\ pod.todo = {} /\ Successes(pod.suc) = {}
    /\ \A g \in pod.todo : pod.suc[g] # None <=> g \in Read
    /\ pod.new \subseteq Wanted \ (pod.todo \cup Read)
    /\ pod.new \subseteq Successes(pod.suc) /\ Successes(pod.suc) \subseteq Read \cup pod.new

\* The class at hand.
PodHolds ==
    /\ pod.stage \in {"create", "expand", "reduced"} => pod.cur \in pod.todo
    /\ pod.stage = "create" => pod.suc[pod.cur] = None
    /\ pod.stage = "unmake" => /\ pod.cur \in Read \cap Successes(pod.suc)
                               /\ pod.cur \in pod.todo \cup (Vg \ Wanted)

\* What the pod has made is there, and what it has removed is not.
PodMade ==
    /\ \A g \in pod.new : Members(g) # {}
    /\ \A g \in Read \cap Wanted : pod.suc[g] = None => Members(g) = {}
    /\ pod.stage = "unmake" => Members(pod.cur) = {}

\* It works on the classes of the specification.
PodGiven == (Loaded \/ pod.stage = "load") => Wanted = Given

\* Nobody else gives lvmd classes to serve, and who is served and recorded, or
\* read and not served, was so when the pod read the ConfigMap.
PodAgrees ==
    Loaded => /\ LvmdOf(pod.base) = LvmdOf(cm)
              /\ Served \cap Recorded \subseteq Read
              /\ Read \ Served \subseteq Recorded
              /\ First => cm = NoMap \/ cm.status = None

\* The same for the daemon and its copy of the records.
DaemonAgrees ==
    Checking => LET old == Successes(daemon.base.suc) IN
        /\ cm # NoMap /\ cm.status # None
        /\ old \cap Served \subseteq Recorded
        /\ (Recorded \cup Read) \ Served \subseteq old

DaemonCounts ==
    /\ Checking => daemon.base # None
    /\ daemon.stage = "checked" => Successes(daemon.new) = Successes(daemon.base.suc)

\* While the cluster is there.
Together ==
    life = "there" =>
        /\ cleaner.stage \in {"none", "done"}
        /\ PodGiven /\ PodMade /\ PodAgrees /\ DaemonAgrees

RInv == PodHasJob /\ PodCounts /\ PodHolds /\ DaemonCounts /\ Together

-----------------------------------------------------------------------------
(* What a step of the pod does.                                            *)

\* The groups C are changed, the classes D forgotten, and the groups N made.
Does(C, D, N) ==
    /\ Loaded /\ Loaded' /\ cm' = cm /\ pod'.base = pod.base /\ pod'.want = pod.want
    /\ Successes(pod'.suc) = (Successes(pod.suc) \ D) \cup N
    /\ pod'.new = pod.new \cup N /\ pod'.todo \subseteq pod.todo \ (D \cup N)
    /\ N \subseteq Wanted \ Read /\ D \subseteq Successes(pod.suc) \ pod.new
    /\ C \subseteq Successes(pod.suc) \ (pod.new \cup D)
    /\ \A g \in Vg \ (C \cup N) : Members(g)' = Members(g)
    /\ \A g \in N : Members(g)' # {}
    /\ \A g \in C : /\ Members(g) # {}
                    /\ Members(g)' # {} \/ (pod'.stage = "unmake" /\ pod'.cur = g)
    /\ life = "there" => \A g \in D \cap Wanted : Members(g)' = {}
    /\ life = "there" /\ pod'.stage = "unmake" => Members(pod.cur)' = {}
    /\ pod.stage = "unmake" =>
           (pod'.stage = "unmake" /\ pod'.cur = pod.cur) \/ pod.cur \in D \/ WipeFails

\* Nothing but its memory changes, or labels of disks.
DoesLittle ==
    /\ Loaded /\ Loaded' /\ cm' = cm /\ pod'.base = pod.base /\ pod'.want = pod.want
    /\ Successes(pod'.suc) = Successes(pod.suc)
    /\ pod'.new = pod.new /\ pod'.todo \subseteq pod.todo
    /\ \A g \in Vg : Members(g)' = Members(g)
    /\ pod'.stage # "unmake" /\ (pod.stage = "unmake" => WipeFails)

\* Finish and Skip only change where the pod is.
LEMMA LittleDone ==
    ASSUME TInv, PodCounts, DoesLittle
    PROVE  Does({}, {}, {})
BY DEF Does, DoesLittle

\* What the pod holds, by its fields.
LEMMA PodFields ==
    ASSUME TInv, PodCounts, PodHolds
    PROVE  /\ pod \in Pod
           /\ Successes(pod.suc) \subseteq Vg /\ Wanted \subseteq Vg
           /\ pod.stage \in {"create", "expand", "reduced"} => pod.cur \in pod.todo /\ pod.cur \in Vg
           /\ pod.stage \in {"expand", "reduced"} =>
                  pod.suc[pod.cur] \in Class /\ pod.cur \in Successes(pod.suc) /\ pod.cur \notin pod.new
           /\ pod.todo \subseteq Vg /\ pod.new \subseteq Vg /\ pod.todo \cap pod.new = {}
<1>1. pod \in Pod
  BY DEF TInv, PodData, PodOK, PodTypeOK
<1>2. pod.stage \in {"expand", "reduced"} => pod.suc[pod.cur] \in Class
  BY DEF TInv, PodData, PodOK, PodAtWork
<1>3. pod.todo \subseteq Vg /\ pod.new \subseteq Vg /\ pod.todo \cap pod.new = {}
  BY <1>1 DEF Pod, PodCounts
<1> QED
  BY <1>1, <1>2, <1>3, MapAssumption DEF Successes, Wanted, PodHolds

\* Finish: back to the classes that are left.
LEMMA Finished ==
    ASSUME pod \in Pod, NEW suc, NEW fail, NEW new, Finish(suc, fail, new)
    PROVE  /\ pod'.stage = "class" /\ pod'.cur = None /\ pod'.todo = pod.todo \ {pod.cur}
           /\ pod'.suc = suc /\ pod'.new = new /\ pod'.base = pod.base /\ pod'.want = pod.want
BY DEF Finish, Pod

\* A pod that is done with a class has done nothing more to the groups.
LEMMA FinishLittle ==
    ASSUME TInv, PodCounts, PodHolds, Loaded, cm' = cm,
           \A g \in Vg : Members(g)' = Members(g),
           NEW suc, NEW fail, Successes(suc) = Successes(pod.suc),
           Finish(suc, fail, pod.new), pod.stage = "unmake" => pv' = pv
    PROVE  DoesLittle /\ PodHolds'
<1>1. pod \in Pod
  BY PodFields
<1>2. pod'.stage = "class" /\ pod'.todo = pod.todo \ {pod.cur} /\ pod'.suc = suc /\ pod'.new = pod.new
      /\ pod'.base = pod.base /\ pod'.want = pod.want
  BY <1>1, Finished
<1> QED
  BY <1>2 DEF DoesLittle, Loaded, PodHolds, WipeFails

\* List: a class that is recorded stays so.
LEMMA Relisted ==
    ASSUME TInv, PodCounts, PodHolds, pod.stage \in {"expand", "reduced"}, NEW devs \in SUBSET Disk
    PROVE  Successes(List(devs)) = Successes(pod.suc)
<1>1. pod.suc \in [Vg -> Class \cup {None}] /\ pod.cur \in Vg /\ pod.suc[pod.cur] \in Class
  BY PodFields DEF Pod
<1>2. [pod.suc[pod.cur] EXCEPT !.devs = devs] \in Class
  BY <1>1 DEF Class
<1> QED
  BY <1>1, <1>2, MapAssumption DEF List, Successes

\* Commands that change labels only, and those that fail.
LEMMA LabelsOnly ==
    ASSUME TInv, NEW ds \in SUBSET Disk, NEW x \in {Raw, Label}, NEW can,
           can => \A d \in ds : pv[d] \in {Raw, Label},
           Works(can, ds, x) \/ Fails(can), NEW g \in Vg
    PROVE  Members(g)' = Members(g)
<1>1. CASE Works(can, ds, x)
  BY <1>1, LabelMembers DEF Works, TInv, PodData
<1>2. CASE Fails(can)
  BY <1>2 DEF Fails, Members
<1> QED
  BY <1>1, <1>2

\* vgremove.
LEMMA Removed ==
    ASSUME TInv, NEW g \in Vg, Works(CanVgRemove(g), Members(g), Label)
    PROVE  Members(g) # {} /\ Members(g)' = {} /\ \A h \in Vg \ {g} : Members(h)' = Members(h)
<1>1. Members(g) \subseteq Disk /\ Members(g) # {} /\ \A h \in Vg \ {g} : Members(h) \cap Members(g) = {}
  BY DEF Works, CanVgRemove, Whole, Members
<1>2. \A h \in Vg : Members(h)' = IF h = Label THEN Members(h) \cup Members(g) ELSE Members(h) \ Members(g)
  BY <1>1, HoldsMembers DEF Works, TInv, PodData
<1> QED
  BY <1>1, <1>2, LvmAssumption

PodCan == PodCounts /\ PodHolds /\ (life = "there" => PodMade)
PodDid == PodHolds' /\ \E C, D, N \in SUBSET Vg : Does(C, D, N)

\* A step that leaves groups and counts alone does little.
LEMMA LittleDid ==
    ASSUME TInv, PodCounts, DoesLittle, PodHolds'
    PROVE  PodDid
BY LittleDone DEF PodDid

\* createVg, createVgRetry.
LEMMA CreateDid ==
    ASSUME TInv, PodCan,
           \/ \E g \in Vg : StartCreate(g)
           \/ \E d \in Disk : CreatePv(d)
           \/ CreateVg
    PROVE  PodDid
<1>1. pod \in Pod /\ PodCounts /\ PodHolds
  BY PodFields DEF PodCan
<1>2. ASSUME NEW g \in Vg, StartCreate(g) PROVE PodDid
  <2>1. pod.stage = "class" /\ g \in pod.todo /\ pod.suc[g] = None /\ cm' = cm /\ pv' = pv
    BY <1>2 DEF StartCreate, Between, mapVars, lvmVars
  <2>2. \A h \in Vg : Members(h)' = Members(h)
    BY <2>1 DEF Members
  <2>3. CASE pod' = [pod EXCEPT !.stage = "create", !.cur = g, !.disks = pod.want[g]]
    <3>1. pod'.stage = "create" /\ pod'.cur = g /\ pod'.todo = pod.todo /\ pod'.suc = pod.suc /\ pod'.new = pod.new
          /\ pod'.base = pod.base /\ pod'.want = pod.want
      BY <1>1, <2>3 DEF Pod
    <3>2. DoesLittle /\ PodHolds'
      BY <2>1, <2>2, <3>1 DEF DoesLittle, Loaded, PodHolds
    <3> QED
      BY <1>1, <3>2, LittleDid
  <2>4. CASE pod' = [pod EXCEPT !.todo = @ \ {g}, !.fail = @ \cup {g}]
    <3>1. pod'.stage = "class" /\ pod'.todo = pod.todo \ {g} /\ pod'.suc = pod.suc /\ pod'.new = pod.new
          /\ pod'.base = pod.base /\ pod'.want = pod.want
      BY <1>1, <2>1, <2>4 DEF Pod
    <3>2. DoesLittle /\ PodHolds'
      BY <2>1, <2>2, <3>1 DEF DoesLittle, Loaded, PodHolds
    <3> QED
      BY <1>1, <3>2, LittleDid
  <2> QED
    BY <1>2, <2>3, <2>4 DEF StartCreate
<1>3. ASSUME CreateFailed, pod.stage = "create", cm' = cm, \A h \in Vg : Members(h)' = Members(h) PROVE PodDid
  BY <1>1, <1>3, FinishLittle, LittleDid DEF CreateFailed, Loaded
<1>4. ASSUME NEW d \in Disk, CreatePv(d) PROVE PodDid
  <2>1. pod.stage = "create" /\ cm' = cm
    BY <1>4 DEF CreatePv, mapVars
  <2>2. \A h \in Vg : Members(h)' = Members(h)
    <3>1. Works(CanPvCreate(d), {d}, Label) \/ Fails(CanPvCreate(d))
      BY <1>4 DEF CreatePv
    <3>2. CanPvCreate(d) => \A x \in {d} : pv[x] \in {Raw, Label}
      BY DEF CanPvCreate
    <3> QED
      BY <3>1, <3>2, LabelsOnly
  <2>3. CASE pod' = [pod EXCEPT !.disks = @ \ {d}]
    <3>1. pod'.stage = "create" /\ pod'.cur = pod.cur /\ pod'.todo = pod.todo /\ pod'.suc = pod.suc
          /\ pod'.new = pod.new /\ pod'.base = pod.base /\ pod'.want = pod.want
      BY <1>1, <2>1, <2>3 DEF Pod
    <3>2. DoesLittle /\ PodHolds'
      BY <1>1, <2>1, <2>2, <3>1 DEF DoesLittle, Loaded, PodHolds
    <3> QED
      BY <1>1, <3>2, LittleDid
  <2> QED
    BY <1>3, <1>4, <2>1, <2>2, <2>3 DEF CreatePv
<1>5. CASE CreateVg
  <2> DEFINE g   == pod.cur
             c   == [ready |-> TRUE, devs |-> IF g \in pod.fail THEN {} ELSE pod.want[g]]
             suc == [pod.suc EXCEPT ![g] = c]
  <2>1. pod.stage = "create" /\ cm' = cm /\ g \in pod.todo /\ g \in Vg /\ g \in Wanted /\ pod.suc[g] = None
    BY <1>1, <1>5, PodFields DEF CreateVg, mapVars, PodHolds, TInv, PodData, PodOK, PodAtWork
  <2>2. CASE Fails(CanVgCreate(g, pod.want[g])) /\ CreateFailed
    BY <1>3, <2>1, <2>2 DEF Fails, Members
  <2>3. CASE Works(CanVgCreate(g, pod.want[g]), pod.want[g], g) /\ Finish(suc, pod.fail \ {g}, pod.new \cup {g})
    <3>1. pod.want[g] \subseteq Disk /\ pod.want[g] # {}
      BY <2>1, <2>3, WantsDisks DEF TInv, PodData, PodOK, Works, CanVgCreate
    <3>2. c \in Class
      BY <3>1 DEF Class
    <3>3. Successes(suc) = Successes(pod.suc) \cup {g}
      <4>1. c # None /\ pod.suc \in [Vg -> Class \cup {None}]
        BY <1>1, <3>2, MapAssumption DEF Pod
      <4> HIDE DEF c, g
      <4> QED
        BY <2>1, <4>1 DEF Successes
    <3>4. pod'.stage = "class" /\ pod'.todo = pod.todo \ {g} /\ pod'.suc = suc /\ pod'.new = pod.new \cup {g}
          /\ pod'.base = pod.base /\ pod'.want = pod.want
      BY <1>1, <2>3, Finished
    <3>5. \A h \in Vg : Members(h)' = IF h = g THEN Members(h) \cup pod.want[g] ELSE Members(h) \ pod.want[g]
      BY <2>1, <2>3, <3>1, HoldsMembers DEF Works, TInv, PodData
    <3>6. \A h \in Vg : Members(h) \cap pod.want[g] = {}
      BY <2>3, LvmAssumption DEF Works, CanVgCreate, Members
    <3>7. g \notin Read
      BY <1>1, <2>1 DEF PodCounts
    <3> HIDE DEF g, suc
    <3>8. Does({}, {}, {g})
      BY <2>1, <3>1, <3>3, <3>4, <3>5, <3>6, <3>7 DEF Does, Loaded
    <3>9. PodHolds'
      BY <3>4 DEF PodHolds
    <3> QED
      BY <2>1, <3>8, <3>9 DEF PodDid
  <2> QED
    BY <1>5, <2>2, <2>3 DEF CreateVg
<1> QED
  BY <1>2, <1>4, <1>5

\* checkVgIfExpand.
LEMMA ExpandDid ==
    ASSUME TInv, PodCan,
           \/ \E g \in Vg : StartExpand(g)
           \/ \E d \in Disk : ExpandPv(d)
           \/ ExpandVg
    PROVE  PodDid
<1>1. pod \in Pod /\ PodCounts /\ PodHolds
  BY PodFields DEF PodCan
<1>2. ASSUME NEW g \in Vg, StartExpand(g) PROVE PodDid
  <2>1. pod.stage = "class" /\ g \in pod.todo /\ cm' = cm /\ pv' = pv
    BY <1>2 DEF StartExpand, Between, mapVars, lvmVars
  <2>2. \A h \in Vg : Members(h)' = Members(h)
    BY <2>1 DEF Members
  <2>3. CASE pod' = [pod EXCEPT !.stage = "expand", !.cur = g, !.disks = pod.want[g] \ PhysicalVolumes(g)]
    <3>1. pod'.stage = "expand" /\ pod'.cur = g /\ pod'.todo = pod.todo /\ pod'.suc = pod.suc /\ pod'.new = pod.new
          /\ pod'.base = pod.base /\ pod'.want = pod.want
      BY <1>1, <2>3 DEF Pod
    <3>2. DoesLittle /\ PodHolds'
      BY <2>1, <2>2, <3>1 DEF DoesLittle, Loaded, PodHolds
    <3> QED
      BY <1>1, <3>2, LittleDid
  <2>4. CASE pod' = [pod EXCEPT !.todo = @ \ {g}]
    <3>1. pod'.stage = "class" /\ pod'.todo = pod.todo \ {g} /\ pod'.suc = pod.suc /\ pod'.new = pod.new
          /\ pod'.base = pod.base /\ pod'.want = pod.want
      BY <1>1, <2>1, <2>4 DEF Pod
    <3>2. DoesLittle /\ PodHolds'
      BY <2>1, <2>2, <3>1 DEF DoesLittle, Loaded, PodHolds
    <3> QED
      BY <1>1, <3>2, LittleDid
  <2> QED
    BY <1>2, <2>3, <2>4 DEF StartExpand
\* The class may be listed with other devices.
<1>3. ASSUME pod.stage = "expand", pod'.stage = "expand", cm' = cm, pod'.cur = pod.cur, pod'.todo = pod.todo,
             pod'.new = pod.new, pod'.base = pod.base, pod'.want = pod.want,
             \/ pod'.suc = pod.suc
             \/ \E devs \in SUBSET Disk : pod'.suc = List(devs)
      PROVE  Successes(pod'.suc) = Successes(pod.suc) /\ PodHolds'
  BY <1>1, <1>3, Relisted DEF PodHolds
<1>4. ASSUME NEW d \in Disk, ExpandPv(d) PROVE PodDid
  <2>1. pod.stage = "expand" /\ cm' = cm /\ pod.suc[pod.cur].devs \cup {d} \subseteq Disk
    BY <1>1, <1>4, PodFields DEF ExpandPv, mapVars, Class
  <2>2. \A h \in Vg : Members(h)' = Members(h)
    <3>1. Works(CanPvCreate(d), {d}, Label) \/ Fails(CanPvCreate(d))
      BY <1>4 DEF ExpandPv
    <3>2. CanPvCreate(d) => \A x \in {d} : pv[x] \in {Raw, Label}
      BY DEF CanPvCreate
    <3> QED
      BY <3>1, <3>2, LabelsOnly
  <2>3. /\ pod'.stage = "expand" /\ pod'.cur = pod.cur /\ pod'.todo = pod.todo
        /\ pod'.new = pod.new /\ pod'.base = pod.base /\ pod'.want = pod.want
        /\ pod'.suc = pod.suc \/ pod'.suc = List(pod.suc[pod.cur].devs \cup {d})
    <3> DEFINE suc == List(pod.suc[pod.cur].devs \cup {d})
    <3>1. \/ pod' = [pod EXCEPT !.disks = @ \ {d}, !.made = @ \cup {d}]
          \/ pod' = [pod EXCEPT !.disks = @ \ {d}, !.suc = suc]
      BY <1>4 DEF ExpandPv
    <3> HIDE DEF suc
    <3>2. /\ pod'.stage = "expand" /\ pod'.cur = pod.cur /\ pod'.todo = pod.todo
          /\ pod'.new = pod.new /\ pod'.base = pod.base /\ pod'.want = pod.want
          /\ pod'.suc = pod.suc \/ pod'.suc = suc
      BY <1>1, <2>1, <3>1 DEF Pod
    <3> QED
      BY <3>2 DEF suc
  <2>4. Successes(pod'.suc) = Successes(pod.suc) /\ PodHolds'
    BY <1>3, <2>1, <2>3
  <2>5. DoesLittle
    BY <2>1, <2>2, <2>3, <2>4 DEF DoesLittle, Loaded
  <2> QED
    BY <1>1, <2>4, <2>5, LittleDid
<1>5. CASE ExpandVg
  <2> PICK g \in Vg : g = pod.cur
    BY <1>1, <1>5, PodFields DEF ExpandVg
  <2>1. pod.stage = "expand" /\ cm' = cm /\ pod.made # {} /\ pod.made \subseteq Disk
        /\ pod.suc[g].devs \cup pod.made \subseteq Disk
    BY <1>1, <1>5, PodFields DEF ExpandVg, mapVars, Class, Pod
  <2>2. g \in Successes(pod.suc) \ pod.new /\ g \in Vg
    BY <1>1, <2>1, PodFields
  <2>3. /\ pod'.stage = "expand" /\ pod'.cur = pod.cur /\ pod'.todo = pod.todo
        /\ pod'.new = pod.new /\ pod'.base = pod.base /\ pod'.want = pod.want
        /\ pod'.suc = pod.suc \/ pod'.suc = List(pod.suc[g].devs \cup pod.made)
    <3> DEFINE suc == List(pod.suc[g].devs \cup pod.made)
    <3>1. \/ pod' = [pod EXCEPT !.made = {}]
          \/ pod' = [pod EXCEPT !.made = {}, !.suc = suc]
      BY <1>5 DEF ExpandVg
    <3> HIDE DEF suc
    <3>2. /\ pod'.stage = "expand" /\ pod'.cur = pod.cur /\ pod'.todo = pod.todo
          /\ pod'.new = pod.new /\ pod'.base = pod.base /\ pod'.want = pod.want
          /\ pod'.suc = pod.suc \/ pod'.suc = suc
      BY <1>1, <2>1, <3>1 DEF Pod
    <3> QED
      BY <3>2 DEF suc
  <2>4. Successes(pod'.suc) = Successes(pod.suc) /\ PodHolds'
    BY <1>3, <2>1, <2>3
  <2>5. CASE Fails(CanVgExtend(g, pod.made))
    <3>1. DoesLittle
      BY <2>1, <2>3, <2>4, <2>5 DEF DoesLittle, Loaded, Fails, Members
    <3> QED
      BY <1>1, <2>4, <3>1, LittleDid
  <2>6. CASE Works(CanVgExtend(g, pod.made), pod.made, g)
    <3>1. \A h \in Vg : Members(h)' = IF h = g THEN Members(h) \cup pod.made ELSE Members(h) \ pod.made
      BY <2>1, <2>6, HoldsMembers DEF Works, TInv, PodData
    <3>2. \A h \in Vg : Members(h) \cap pod.made = {}
      BY <2>6, LvmAssumption DEF Works, CanVgExtend, Members
    <3>3. Members(g) # {}
      BY <2>6 DEF Works, CanVgExtend, Whole
    <3>4. Members(g)' # {} /\ \A h \in Vg \ {g} : Members(h)' = Members(h)
      BY <2>2, <3>1, <3>2, <3>3
    <3>5. Does({g}, {}, {})
      BY <2>1, <2>2, <2>3, <2>4, <3>3, <3>4 DEF Does, Loaded
    <3> QED
      BY <2>2, <2>4, <3>5 DEF PodDid
  <2> QED
    BY <1>5, <2>5, <2>6 DEF ExpandVg
<1> QED
  BY <1>2, <1>4, <1>5

\* checkVgIfShrink.
LEMMA ShrinkDid ==
    ASSUME TInv, PodCan, KeepVg \/ ShrinkVg \/ RemoveReducedPvs \/ RemoveVg
    PROVE  PodDid
<1>1. pod \in Pod /\ PodCounts /\ PodHolds
  BY PodFields DEF PodCan
<1>2. pod.stage \in {"expand", "reduced"} /\ Loaded /\ cm' = cm
  BY DEF KeepVg, ShrinkVg, RemoveReducedPvs, RemoveVg, Expanded, Loaded, mapVars
<1>3. pod.cur \in Vg /\ pod.cur \in Successes(pod.suc) \ pod.new /\ pod.suc[pod.cur] \in Class
      /\ pod.cur \in pod.todo /\ pod.cur \in Read
  BY <1>1, <1>2, PodFields DEF PodCounts, Successes
<1>4. ASSUME \A h \in Vg : Members(h)' = Members(h), NEW suc, Successes(suc) = Successes(pod.suc),
             Finish(suc, pod.fail, pod.new)
      PROVE  PodDid
  BY <1>1, <1>2, <1>4, FinishLittle, LittleDid
<1>5. ASSUME LeaveIt, UNCHANGED pv PROVE PodDid
  BY <1>4, <1>5 DEF LeaveIt, Members
<1>6. CASE KeepVg
  BY <1>5, <1>6 DEF KeepVg, lvmVars
<1>7. CASE ShrinkVg
  <2> PICK g \in Vg, ds \in SUBSET PhysicalVolumes(pod.cur) : g = pod.cur /\ ds = Dropped
    BY <1>3 DEF Dropped
  <2>1. CASE Fails(CanVgReduce(g, ds)) /\ LeaveIt
    BY <1>5, <2>1 DEF Fails
  <2>2. CASE Works(CanVgReduce(g, ds), ds, Label) /\ pod' = [pod EXCEPT !.stage = "reduced", !.disks = ds]
    <3>1. pod'.stage = "reduced" /\ pod'.cur = g /\ pod'.todo = pod.todo /\ pod'.suc = pod.suc /\ pod'.new = pod.new
          /\ pod'.base = pod.base /\ pod'.want = pod.want
      BY <1>1, <2>2 DEF Pod
    <3>2. ds \subseteq Members(g) /\ ds # Members(g) /\ ds \subseteq Disk
      BY <2>2 DEF Works, CanVgReduce, Members
    <3>3. \A h \in Vg : Members(h)' = Members(h) \ ds
      <4>1. \A h \in Vg : Members(h)' = IF h = Label THEN Members(h) \cup ds ELSE Members(h) \ ds
        BY <2>2, <3>2, HoldsMembers DEF Works, TInv, PodData
      <4> QED
        BY <4>1, LvmAssumption
    <3>4. Members(g) # {} /\ Members(g)' # {} /\ \A h \in Vg \ {g} : Members(h)' = Members(h)
      <4>1. \A h \in Vg \ {g} : Members(h) \cap ds = {}
        BY <3>2 DEF Members
      <4> QED
        BY <3>2, <3>3, <4>1
    <3>5. Does({g}, {}, {})
      BY <1>2, <1>3, <3>1, <3>4 DEF Does, Loaded
    <3>6. PodHolds'
      BY <1>3, <3>1 DEF PodHolds
    <3> QED
      BY <1>3, <3>5, <3>6 DEF PodDid
  <2> QED
    BY <1>7, <2>1, <2>2 DEF ShrinkVg
<1>8. CASE RemoveReducedPvs
  <2>1. CASE Fails(CanPvRemove(pod.disks)) /\ LeaveIt
    BY <1>5, <2>1 DEF Fails
  <2>2. CASE Works(CanPvRemove(pod.disks), pod.disks, Raw)
             /\ Finish(List(pod.suc[pod.cur].devs \ pod.disks), pod.fail, pod.new)
    <3>1. pod.disks \subseteq Disk /\ pod.suc[pod.cur].devs \ pod.disks \subseteq Disk
      BY <1>1, <1>3 DEF Pod, Class
    <3>2. CanPvRemove(pod.disks) => \A d \in pod.disks : pv[d] \in {Raw, Label}
      BY DEF CanPvRemove
    <3>3. \A h \in Vg : Members(h)' = Members(h)
      BY <2>2, <3>1, <3>2, LabelsOnly
    <3> QED
      BY <1>1, <1>2, <1>4, <2>2, <3>1, <3>3, Relisted
  <2> QED
    BY <1>8, <2>1, <2>2 DEF RemoveReducedPvs
<1>9. CASE RemoveVg
  <2> PICK g \in Vg : g = pod.cur
    BY <1>3
  <2>1. CASE Fails(CanVgRemove(g)) /\ LeaveIt
    BY <1>5, <2>1 DEF Fails
  <2>2. CASE Works(CanVgRemove(g), Members(g), Label) /\ pod' = [pod EXCEPT !.stage = "unmake", !.disks = Members(g)]
    <3>1. pod'.stage = "unmake" /\ pod'.cur = g /\ pod'.todo = pod.todo /\ pod'.suc = pod.suc /\ pod'.new = pod.new
          /\ pod'.base = pod.base /\ pod'.want = pod.want
      BY <1>1, <2>2 DEF Pod
    <3>2. Members(g) # {} /\ Members(g)' = {} /\ \A h \in Vg \ {g} : Members(h)' = Members(h)
      BY <1>3, <2>2, Removed
    <3>3. Does({g}, {}, {})
      BY <1>2, <1>3, <3>1, <3>2 DEF Does, Loaded
    <3>4. PodHolds'
      BY <1>3, <3>1 DEF PodHolds, Read, First, Wanted
    <3> QED
      BY <1>3, <3>3, <3>4 DEF PodDid
  <2> QED
    BY <1>9, <2>1, <2>2 DEF RemoveVg
<1> QED
  BY <1>6, <1>7, <1>8, <1>9

\* checkVgIfDelete, RemoveVolumeGroup.
LEMMA DeleteDid ==
    ASSUME TInv, PodCan,
           (\E g \in Vg : DeleteVg(g)) \/ (\E d \in Disk : RemovePv(d))
    PROVE  PodDid
<1>1. pod \in Pod /\ PodCounts /\ PodHolds
  BY PodFields DEF PodCan
<1>2. ASSUME NEW g \in Vg, DeleteVg(g) PROVE PodDid
  <2>1. pod.stage = "class" /\ pod.todo = {} /\ cm' = cm /\ g \in Successes(pod.suc) \ Wanted
    BY <1>2 DEF DeleteVg, Between, Stale, mapVars
  <2>2. g \in Read /\ g \notin pod.new
    BY <1>1, <2>1 DEF PodCounts
  <2>3. CASE Fails(CanVgRemove(g)) /\ pod' = [pod EXCEPT !.suc[g] = None]
    <3>1. pod'.stage = "class" /\ pod'.todo = {} /\ pod'.new = pod.new /\ pod'.base = pod.base /\ pod'.want = pod.want
          /\ pod'.suc = [pod.suc EXCEPT ![g] = None]
      BY <1>1, <2>1, <2>3 DEF Pod
    <3>2. Successes(pod'.suc) = Successes(pod.suc) \ {g}
      BY <1>1, <3>1 DEF Successes, Pod
    <3>3. \A h \in Vg : Members(h)' = Members(h)
      BY <2>3 DEF Fails, Members
    <3>4. Does({}, {g}, {})
      BY <2>1, <2>2, <3>1, <3>2, <3>3 DEF Does, Loaded
    <3>5. PodHolds'
      BY <3>1 DEF PodHolds
    <3> QED
      BY <3>4, <3>5 DEF PodDid
  <2>4. CASE Works(CanVgRemove(g), Members(g), Label)
             /\ pod' = [pod EXCEPT !.stage = "unmake", !.cur = g, !.disks = Members(g)]
    <3>1. pod'.stage = "unmake" /\ pod'.cur = g /\ pod'.todo = pod.todo /\ pod'.suc = pod.suc /\ pod'.new = pod.new
          /\ pod'.base = pod.base /\ pod'.want = pod.want
      BY <1>1, <2>4 DEF Pod
    <3>2. Members(g) # {} /\ Members(g)' = {} /\ \A h \in Vg \ {g} : Members(h)' = Members(h)
      BY <2>4, Removed
    <3>3. Does({g}, {}, {})
      BY <2>1, <2>2, <3>1, <3>2 DEF Does, Loaded
    <3>4. PodHolds'
      BY <2>1, <2>2, <3>1 DEF PodHolds, Read, First, Wanted
    <3> QED
      BY <3>3, <3>4 DEF PodDid
  <2> QED
    BY <1>2, <2>3, <2>4 DEF DeleteVg
<1>3. ASSUME NEW d \in Disk, RemovePv(d) PROVE PodDid
  <2> PICK g \in Vg : g = pod.cur
    BY <1>3 DEF RemovePv, TInv, PodData, PodOK, PodAtWork
  <2>1. pod.stage = "unmake" /\ Loaded /\ cm' = cm /\ g \in Read \cap Successes(pod.suc)
        /\ (life = "there" => Members(g) = {}) /\ g \in Vg
    BY <1>1, <1>3 DEF RemovePv, mapVars, PodHolds, PodCan, PodMade, Loaded, TInv, PodData, PodOK, PodAtWork
  <2>2. \A h \in Vg : Members(h)' = Members(h)
    <3>1. Works(CanPvRemove({d}), {d}, Raw) \/ Fails(CanPvRemove({d}))
      BY <1>3 DEF RemovePv
    <3>2. CanPvRemove({d}) => \A x \in {d} : pv[x] \in {Raw, Label}
      BY DEF CanPvRemove
    <3> QED
      BY <3>1, <3>2, LabelsOnly
  <2>3. CASE Forget
    <3>1. pod'.stage = "class" /\ pod'.todo = pod.todo \ {g} /\ pod'.new = pod.new
          /\ pod'.suc = [pod.suc EXCEPT ![g] = None] /\ pod'.base = pod.base /\ pod'.want = pod.want
      BY <1>1, <2>3, Finished DEF Forget
    <3>2. Successes(pod'.suc) = Successes(pod.suc) \ {g}
      BY <1>1, <2>1, <3>1 DEF Successes, Pod
    <3>3. g \notin pod.new
      BY <1>1, <2>1 DEF PodCounts
    <3>4. Does({}, {g}, {})
      BY <2>1, <2>2, <3>1, <3>2, <3>3 DEF Does, Loaded
    <3>5. PodHolds'
      BY <3>1 DEF PodHolds
    <3> QED
      BY <2>1, <3>4, <3>5 DEF PodDid
  <2>4. CASE pod' = [pod EXCEPT !.disks = @ \ {d}]
    <3>1. pod'.stage = "unmake" /\ pod'.cur = g /\ pod'.todo = pod.todo /\ pod'.suc = pod.suc /\ pod'.new = pod.new
          /\ pod'.base = pod.base /\ pod'.want = pod.want
      BY <1>1, <2>1, <2>4 DEF Pod
    <3>2. Does({}, {}, {})
      BY <2>1, <2>2, <3>1 DEF Does, Loaded
    <3>3. PodHolds'
      BY <1>1, <2>1, <3>1 DEF PodHolds, Read, First, Wanted
    <3> QED
      BY <3>2, <3>3 DEF PodDid
  <2>5. CASE LeaveIt /\ pv' = pv
    BY <1>1, <2>1, <2>2, <2>5, FinishLittle, LittleDid DEF LeaveIt
  <2> QED
    BY <1>3, <2>3, <2>4, <2>5 DEF RemovePv, Fails
<1> QED
  BY <1>2, <1>3

\* All that a loaded pod does, until it saves what it did.
LEMMA WorkDid ==
    ASSUME TInv, PodCan, PodStep, ~ReadConfigMap, ~Save
    PROVE  PodDid
BY CreateDid, ExpandDid, ShrinkDid, DeleteDid DEF PodStep

-----------------------------------------------------------------------------
(* What follows from it.                                                   *)

\* What a step does keeps the pod's counts within what it read and made.
LEMMA DoesCounts ==
    ASSUME TInv, PodCounts, NEW C, NEW D, NEW N, Does(C, D, N)
    PROVE  PodCounts' /\ Read' = Read /\ Wanted' = Wanted /\ First' = First
<1>1. Read' = Read /\ Wanted' = Wanted /\ First' = First
  BY DEF Does, Read, First, Wanted
<1>2. Loaded' /\ pod'.new = pod.new \cup N /\ pod'.todo \subseteq pod.todo \ (D \cup N)
      /\ Successes(pod'.suc) = (Successes(pod.suc) \ D) \cup N
      /\ N \subseteq Wanted \ Read /\ D \subseteq Successes(pod.suc) \ pod.new
  BY DEF Does
<1>3. \A g \in pod.todo : g \in Successes(pod.suc) <=> g \in Read
  BY DEF PodCounts, Successes, TInv, PodData, PodOK, PodTypeOK, Pod
<1>4. \A g \in pod'.todo : g \in Vg /\ (g \in Successes(pod'.suc) <=> g \in Read)
  BY <1>2, <1>3 DEF TInv, PodData, PodOK, PodTypeOK, Pod
<1>5. \A g \in pod'.todo : pod'.suc[g] # None <=> g \in Read
  BY <1>4 DEF Successes
<1>6. pod'.new \subseteq Wanted \ (pod'.todo \cup Read)
  BY <1>2 DEF PodCounts
<1>7. pod'.new \subseteq Successes(pod'.suc) /\ Successes(pod'.suc) \subseteq Read \cup pod'.new
  BY <1>2 DEF PodCounts
<1> QED
  BY <1>1, <1>2, <1>5, <1>6, <1>7 DEF PodCounts

\* What the pod made, and what it removed, it still holds as such after a step.
LEMMA DoesMade ==
    ASSUME TInv, PodCounts, PodMade, life = "there", NEW C, NEW D, NEW N, Does(C, D, N)
    PROVE  PodMade'
<1>1. Read' = Read /\ Wanted' = Wanted
  BY DoesCounts
<1>2. pod'.new \subseteq Vg /\ \A g \in pod'.new : Members(g)' # {}
  <2>1. pod.new \subseteq Vg /\ N \subseteq Vg /\ pod'.new = pod.new \cup N
    BY DEF Does, TInv, PodData, PodOK, PodTypeOK, Pod, Wanted
  <2> QED
    BY <2>1 DEF Does, PodMade
<1>3. ASSUME NEW g \in Read \cap Wanted, pod'.suc[g] = None PROVE Members(g)' = {}
  <2>1. g \in Vg /\ g \notin Successes(pod'.suc)
    BY <1>3 DEF Successes, Wanted
  <2>2. CASE g \in D
    BY <1>3, <2>2 DEF Does
  <2>3. CASE g \notin D
    <3>1. g \notin Successes(pod.suc) /\ g \notin C /\ g \notin N
      BY <2>1, <2>3 DEF Does
    <3>2. Members(g) = {}
      BY <1>3, <2>1, <3>1 DEF PodMade, Successes
    <3> QED
      BY <2>1, <3>1, <3>2 DEF Does
  <2> QED
    BY <2>2, <2>3
<1>4. pod'.stage = "unmake" => Members(pod.cur)' = {}
  BY DEF Does
<1>5. \A g \in pod'.new : Members(g)' # {}
  BY <1>2
<1> QED
  BY <1>1, <1>3, <1>4, <1>5 DEF PodMade

\* Neither the ConfigMap nor what was read of it changes.
LEMMA AgreesStays ==
    ASSUME cm' = cm, daemon' = daemon, Read' = Read, First' = First, pod'.base = pod.base,
           Loaded' => Loaded
    PROVE  (PodAgrees => PodAgrees') /\ (DaemonAgrees => DaemonAgrees')
<1>1. Served' = Served /\ Recorded' = Recorded
  BY DEF Served, Recorded
<1>2. PodAgrees => PodAgrees'
  BY <1>1 DEF PodAgrees, LvmdOf
<1>3. DaemonAgrees => DaemonAgrees'
  BY <1>1 DEF DaemonAgrees, Checking
<1> QED
  BY <1>2, <1>3

\* A pod that has not read the ConfigMap has read nothing of it.
LEMMA ReadLater ==
    ASSUME PodCounts, ~Loaded
    PROVE  Read = {} /\ First
BY DEF PodCounts, Read, First

\* ReadSpec, ReadConfigMap.
LEMMA LoadDid ==
    ASSUME TInv, PodCounts, PodHolds,
           ReadConfigMap \/ \E blind \in Blind : ReadSpec(spec, blind)
    PROVE  PodCounts' /\ PodHolds' /\ pod'.new = {} /\ pod'.stage # "unmake" /\ pod.stage # "unmake"
           /\ \A g \in Vg : g \in Successes(pod'.suc) <=> g \in Read'
<1>1. pod \in Pod /\ ~Loaded
  BY PodFields DEF ReadSpec, ReadConfigMap, Loaded
<1>2. pod.base = NoMap /\ pod.new = {} /\ pod.todo = {} /\ Successes(pod.suc) = {}
  BY <1>1 DEF PodCounts
<1>3. CASE \E blind \in Blind : ReadSpec(spec, blind)
  <2>1. pod'.stage = "load" /\ pod'.base = NoMap /\ pod'.new = {} /\ pod'.todo = {} /\ pod'.suc = pod.suc
        /\ pod.stage = "start"
    BY <1>1, <1>2, <1>3 DEF ReadSpec, Pod
  <2>2. Read' = {} /\ ~Loaded' /\ Successes(pod'.suc) = {}
    BY <1>2, <2>1 DEF Read, First, Loaded
  <2> QED
    BY <2>1, <2>2 DEF PodCounts, PodHolds
<1>4. CASE ReadConfigMap
  <2>1. pod'.stage = "class" /\ pod'.want = pod.want /\ pod'.new = {} /\ pod.stage = "load"
    BY <1>1, <1>2, <1>4 DEF ReadConfigMap, Pod
  <2>2. Loaded' /\ Wanted' = Wanted /\ PodHolds'
    BY <2>1 DEF Loaded, Wanted, PodHolds
  <2>3. CASE cm = NoMap \/ cm.status = None
    <3>1. pod'.base = IF cm = NoMap THEN NoMap ELSE [cm EXCEPT !.devices = None]
      BY <1>1, <1>4, <2>3 DEF ReadConfigMap, Pod
    <3>2. pod'.suc = pod.suc /\ pod'.todo \subseteq Wanted
      BY <1>1, <1>4, <2>3 DEF ReadConfigMap, Pod
    <3>3. cm # NoMap => cm \in Data
      BY DEF TInv, PodData, MapOK, MapTypeOK
    <3>4. First'
      BY <2>3, <3>1, <3>3 DEF First, Data
    <3>5. Read' = {} /\ Successes(pod'.suc) = {}
      BY <1>2, <3>2, <3>4 DEF Read
    <3>6. \A g \in pod'.todo : pod'.suc[g] = None
      BY <3>2, <3>5 DEF Successes, Wanted
    <3> QED
      BY <2>1, <2>2, <3>5, <3>6 DEF PodCounts
  <2>4. CASE cm # NoMap /\ cm.status # None
    <3>1. pod'.base = [cm EXCEPT !.devices = None] /\ pod'.suc = cm.status.suc /\ pod'.todo = Wanted
      BY <1>1, <1>4, <2>4 DEF ReadConfigMap, Pod
    <3>2. cm \in Data
      BY <2>4 DEF TInv, PodData, MapOK, MapTypeOK
    <3>3. pod'.base.status = cm.status /\ pod'.base # NoMap
      BY <3>1, <3>2, MapAssumption DEF Data
    <3>4. Read' = Successes(pod'.suc)
      BY <2>4, <3>1, <3>3 DEF Read, First
    <3>5. \A g \in pod'.todo : pod'.suc[g] # None <=> g \in Read'
      BY <3>1, <3>4 DEF Successes, Wanted
    <3> QED
      BY <2>1, <2>2, <3>4, <3>5 DEF PodCounts
  <2> QED
    BY <2>3, <2>4
<1> QED
  BY <1>3, <1>4

\* What the pod has just read is what the ConfigMap holds.
LEMMA LoadAgrees ==
    ASSUME TInv, PodCounts, PodHolds, UNCHANGED <<cm, daemon, spec, life, cleaner>>,
           ReadConfigMap \/ \E blind \in Blind : ReadSpec(spec, blind),
           life = "there", Together
    PROVE  Together'
<1>1. pod \in Pod /\ ~Loaded /\ Read = {} /\ First
  BY PodFields, ReadLater DEF ReadSpec, ReadConfigMap, Loaded
<1>2. Served' = Served /\ Recorded' = Recorded /\ LvmdOf(cm)' = LvmdOf(cm)
  BY DEF Served, Recorded, LvmdOf
<1>3. PodMade'
  BY LoadDid DEF PodMade, Successes, Wanted
<1>4. CASE \E blind \in Blind : ReadSpec(spec, blind)
  <2>1. PICK blind \in Blind : ReadSpec(spec, blind)
    BY <1>4
  <2> DEFINE free == Unsigned \cup blind
  <2>2. free \subseteq Disk /\ spec \in Wish
    BY <2>1, BlindTyped, NodeAssumption DEF Unsigned, TInv, PodData, LvmTypeOK, ClusterTypeOK
  <2>3. pod'.stage = "load" /\ pod'.base = pod.base
    BY <1>1, <2>1 DEF ReadSpec, Pod
  <2>4. pod'.want = IF AllDevices THEN [g \in Vg |-> IF spec[g] = NoClass THEN NoClass ELSE free] ELSE spec
    BY <1>1, <2>1 DEF ReadSpec, Pod
  <2>5. Wanted' = Given
    BY <2>2, <2>4, PrepareAssumption DEF Wanted, Given
  <2>6. PodGiven'
    BY <2>5 DEF PodGiven, Given
  <2>7. ~Loaded' /\ Read' = Read
    BY <2>3 DEF Loaded, Read, First
  <2>8. PodAgrees' /\ DaemonAgrees'
    BY <1>2, <2>7 DEF PodAgrees, DaemonAgrees, Together, Checking
  <2> QED
    BY <1>3, <2>6, <2>8 DEF Together
<1>5. CASE ReadConfigMap
  <2>1. pod.stage = "load" /\ pod'.want = pod.want /\ pod'.base = IF cm = NoMap THEN NoMap ELSE [cm EXCEPT !.devices = None]
    BY <1>1, <1>5 DEF ReadConfigMap, Pod
  <2>2. PodGiven'
    BY <2>1 DEF PodGiven, Wanted, Given, Together
  <2>3. cm # NoMap => cm \in Data /\ pod'.base # NoMap /\ pod'.base.status = cm.status /\ pod'.base.lvmd = cm.lvmd
    <3>1. cm # NoMap => cm \in Data
      BY DEF TInv, PodData, MapOK, MapTypeOK
    <3>2. cm # NoMap => [cm EXCEPT !.devices = None] \in Data
      BY <3>1 DEF Data
    <3> QED
      BY <2>1, <3>1, <3>2, MapAssumption DEF Data
  <2>4. Read' = Recorded /\ (First' => cm = NoMap \/ cm.status = None)
    BY <2>1, <2>3 DEF Read, First, Recorded
  <2>5. LvmdOf(pod'.base) = LvmdOf(cm)
    BY <2>1, <2>3 DEF LvmdOf
  <2>6. PodAgrees'
    BY <1>2, <2>4, <2>5 DEF PodAgrees, LvmdOf
  <2>7. DaemonAgrees'
    BY <1>2, <2>4 DEF DaemonAgrees, Together, Checking
  <2> QED
    BY <1>3, <2>2, <2>6, <2>7 DEF Together
<1> QED
  BY <1>4, <1>5

-----------------------------------------------------------------------------
(* Save.                                                                   *)

\* Patch: a key that was changed is written, and another one stays.
LEMMA Patched ==
    ASSUME NEW old, NEW new, Patch(old, new)
    PROVE  /\ cm # NoMap
           /\ cm'.status = IF new.status # old.status THEN new.status ELSE cm.status
           /\ cm'.lvmd = IF new.lvmd # old.lvmd THEN new.lvmd ELSE cm.lvmd
BY DEF Patch, Write, Keys

\* After a patch a key holds what was written, or what it held.
LEMMA PatchedData ==
    ASSUME MapOK, NEW old, NEW new \in Data, Patch(old, new)
    PROVE  cm' \in Data
<1>1. cm \in Data
  BY DEF Patch, MapOK, MapTypeOK
<1>2. [k \in Keys |-> IF new[k] # old[k] THEN new[k] ELSE cm[k]] \in Data
  BY <1>1 DEF Keys, Data
<1> QED
  BY <1>2 DEF Patch, Write

\* Save writes the served classes, and the records if they were changed.
LEMMA SaveWrites ==
    ASSUME TInv, PodCounts, PodAgrees, Save
    PROVE  /\ cm' # NoMap /\ cm'.lvmd = ServedClasses
           /\ cm'.status \in {NewStatus, cm.status}
           /\ First \/ NewStatus # pod.base.status => cm'.status = NewStatus
           /\ Loaded /\ NewStatus \in Status
<1> DEFINE new == [devices |-> None, status |-> NewStatus, lvmd |-> ServedClasses]
<1>1. pod \in Pod /\ Loaded
  BY DEF TInv, PodData, PodOK, PodTypeOK, Save, Between, Loaded
<1>2. NewStatus \in Status
  <2>1. pod.fail \cap Wanted \subseteq Vg \cup {Nameless}
    BY <1>1 DEF Pod
  <2> QED
    BY <1>1, <2>1 DEF NewStatus, Status, Pod
<1>3. ServedClasses \in (SUBSET Vg) \cup {None} /\ MapOK
  BY <1>1 DEF ServedClasses, First, Data, Pod, TInv, PodData
<1>4. new.status = NewStatus /\ new.lvmd = ServedClasses /\ new \in Data
  BY <1>2, <1>3 DEF Data
<1>5. IF pod.base = NoMap THEN CreateOrPatch(new) ELSE \E old \in ComparedWith : Patch(old, new)
  BY DEF Save
<1> HIDE DEF new
<1>6. CASE pod.base = NoMap
  <2>1. CASE cm = NoMap
    <3>1. cm' = new
      BY <1>5, <1>6, <2>1 DEF CreateOrPatch, Write
    <3> QED
      BY <1>1, <1>2, <1>4, <1>6, <3>1, MapAssumption DEF First
  <2>2. CASE cm # NoMap
    <3>1. Patch(cm, new)
      BY <1>5, <1>6, <2>2 DEF CreateOrPatch
    <3>2. cm' \in Data /\ cm'.status = NewStatus /\ cm'.lvmd = ServedClasses
      BY <1>3, <1>4, <3>1, Patched, PatchedData
    <3> QED
      BY <1>1, <1>2, <1>6, <3>2, MapAssumption DEF First
  <2> QED
    BY <2>1, <2>2
<1>7. CASE pod.base # NoMap
  <2>1. PICK old \in ComparedWith : Patch(old, new)
    BY <1>5, <1>7
  <2>2. old.lvmd = pod.base.lvmd /\ old.status \in {pod.base.status, None}
    <3>1. pod.base \in Data
      BY <1>1, <1>7 DEF Pod
    <3> QED
      BY <2>1, <3>1 DEF ComparedWith, Data
  <2>3. cm # NoMap /\ cm.lvmd = pod.base.lvmd
    BY <1>1, <1>7, <2>1 DEF PodAgrees, LvmdOf, Patch
  <2>4. cm'.lvmd = ServedClasses /\ cm' # NoMap
    BY <1>3, <1>4, <2>1, <2>2, <2>3, Patched, PatchedData, MapAssumption
  <2>5. First => pod.base.status # NewStatus
    BY <1>2, <1>7, MapAssumption DEF First
  <2>6. cm'.status = IF NewStatus # old.status THEN NewStatus ELSE cm.status
    BY <1>4, <2>1, Patched
  <2> QED
    BY <1>1, <1>2, <2>2, <2>4, <2>5, <2>6, MapAssumption
<1> QED
  BY <1>6, <1>7

\* Who is recorded and served after it.
LEMMA SaveSets ==
    ASSUME TInv, PodCounts, PodAgrees, Save
    PROVE  /\ cm' # NoMap /\ (cm'.status # None \/ cm'.status = cm.status)
           /\ First => /\ Recorded = {} /\ Read = {} /\ Recorded' = pod.new
                       /\ Served' = IF pod.new # {} THEN pod.new ELSE Served
           /\ ~First => Served' = (Served \cup pod.new) \cap Successes(pod.suc)
           /\ \/ Recorded' = Successes(pod.suc)
              \/ ~First /\ Recorded' = Recorded /\ Successes(pod.suc) = Read /\ pod.new = {}
<1>1. /\ cm' # NoMap /\ cm'.lvmd = ServedClasses /\ Loaded /\ NewStatus \in Status
      /\ cm'.status \in {NewStatus, cm.status}
      /\ First \/ NewStatus # pod.base.status => cm'.status = NewStatus
  BY SaveWrites
<1>2. NewStatus # None /\ NewStatus.suc = pod.suc
  BY <1>1, MapAssumption DEF NewStatus
<1>3. pod.new \subseteq Vg /\ pod.new # None
  BY MapAssumption DEF TInv, PodData, PodOK, PodTypeOK, Pod
<1>4. Served = (IF LvmdOf(cm) = None THEN {} ELSE LvmdOf(cm)) /\ LvmdOf(pod.base) = LvmdOf(cm)
  BY <1>1 DEF Served, LvmdOf, PodAgrees
<1>5. Served' = IF ServedClasses = None THEN {} ELSE ServedClasses
  BY <1>1 DEF Served
<1>6. pod.new \subseteq Successes(pod.suc) /\ Successes(pod.suc) \subseteq Read \cup pod.new /\ pod.new \cap Read = {}
  BY DEF PodCounts
<1>7. CASE First
  <2>1. Read = {} /\ Successes(pod.suc) = pod.new
    BY <1>6, <1>7 DEF Read
  <2>2. Recorded = {}
    BY <1>1, <1>7 DEF PodAgrees, Recorded
  <2>3. Recorded' = Successes(pod.suc)
    BY <1>1, <1>2, <1>7 DEF Recorded, Successes
  <2>4. Served' = IF pod.new # {} THEN pod.new ELSE Served
    BY <1>3, <1>4, <1>5, <1>7 DEF ServedClasses, LvmdOf
  <2> QED
    BY <1>1, <1>2, <1>7, <2>1, <2>2, <2>3, <2>4
<1>8. CASE ~First
  <2>1. pod.base # NoMap /\ pod.base.status # None /\ Read = Successes(pod.base.status.suc)
    BY <1>8 DEF First, Read
  <2>2. Served' = (Served \cup pod.new) \cap Successes(pod.suc)
    <3>1. CASE pod.base.lvmd = None
      <4>1. Served = {} /\ ServedClasses = IF pod.new # {} THEN pod.new ELSE None
        BY <1>4, <2>1, <3>1 DEF ServedClasses, LvmdOf
      <4> QED
        BY <1>3, <1>5, <1>6, <4>1
    <3>2. CASE pod.base.lvmd # None
      <4>1. Served = pod.base.lvmd
        BY <1>4, <2>1, <3>2 DEF LvmdOf
      <4>2. ServedClasses = (pod.base.lvmd \cup pod.new) \cap Successes(pod.suc)
        BY <1>8, <2>1, <3>2 DEF ServedClasses
      <4>3. ServedClasses \subseteq Vg
        BY <4>2 DEF Successes
      <4>4. ServedClasses # None
        BY <4>3, MapAssumption
      <4> QED
        BY <1>5, <4>1, <4>2, <4>4
    <3> QED
      BY <3>1, <3>2
  <2>3. CASE NewStatus # pod.base.status
    <3>1. Recorded' = Successes(pod.suc)
      BY <1>1, <1>2, <1>8, <2>3 DEF Recorded, Successes
    <3> QED
      BY <1>1, <1>2, <1>8, <2>2, <2>3, <3>1
  <2>4. CASE NewStatus = pod.base.status
    <3>1. Successes(pod.suc) = Read /\ pod.new = {}
      BY <1>2, <1>6, <2>1, <2>4
    <3>2. cm # NoMap
      BY <2>1 DEF Save, Patch
    <3>3. Recorded' \in {Recorded, Successes(pod.suc)}
      BY <1>1, <1>2, <3>2 DEF Recorded, Successes
    <3> QED
      BY <1>1, <1>2, <1>8, <2>2, <3>1, <3>3
  <2> QED
    BY <2>3, <2>4
<1> QED
  BY <1>7, <1>8

\* After Save the ConfigMap agrees with what the pod did.
LEMMA SaveTogether ==
    ASSUME TInv, PodCounts, PodAgrees, DaemonAgrees, Save, UNCHANGED <<daemon, spec, life, cleaner>>
    PROVE  PodCounts' /\ PodHolds' /\ PodGiven' /\ PodMade' /\ PodAgrees' /\ DaemonAgrees'
<1>1. pod' = [Gone EXCEPT !.stage = "done"] /\ pv' = pv
  BY DEF Save, lvmVars
<1>2. /\ pod'.stage = "done" /\ pod'.base = NoMap /\ pod'.new = {} /\ pod'.todo = {}
      /\ pod'.suc = [g \in Vg |-> None]
  BY <1>1 DEF Gone
<1>3. ~Loaded' /\ Read' = {} /\ Successes(pod'.suc) = {}
  BY <1>2 DEF Loaded, Read, First, Successes
<1>4. PodCounts' /\ PodHolds' /\ PodGiven' /\ PodAgrees'
  BY <1>2, <1>3 DEF PodCounts, PodHolds, PodGiven, PodAgrees
<1>5. PodMade'
  BY <1>2, <1>3 DEF PodMade
<1>6. DaemonAgrees'
  <2> SUFFICES ASSUME Checking PROVE DaemonAgrees'
    BY DEF DaemonAgrees, Checking
  <2> DEFINE old == Successes(daemon.base.suc)
  <2>1. cm.status # None /\ old \cap Served \subseteq Recorded /\ (Recorded \cup Read) \ Served \subseteq old
    BY DEF DaemonAgrees
  <2>2. Served \cap Recorded \subseteq Read /\ pod.new \subseteq Successes(pod.suc)
        /\ Successes(pod.suc) \subseteq Read \cup pod.new
    BY SaveWrites DEF PodAgrees, PodCounts
  <2>3. old' = old
    OBVIOUS
  <2>4. old \cap Served' \subseteq Recorded' /\ Recorded' \ Served' \subseteq old
    <3> HIDE DEF old
    <3> QED
      BY <2>1, <2>2, SaveSets
  <2>5. cm' # NoMap /\ cm'.status # None
    BY <2>1, SaveSets
  <2> QED
    BY <1>3, <2>3, <2>4, <2>5 DEF DaemonAgrees
<1> QED
  BY <1>4, <1>5, <1>6

-----------------------------------------------------------------------------
(* The daemon.                                                             *)

\* checkDeviceClass writes the daemon's copy of both keys.
LEMMA WriteClassesWrites ==
    ASSUME TInv, DaemonCounts, WriteClasses
    PROVE  /\ cm' # NoMap /\ cm # NoMap /\ LvmdOf(cm)' = LvmdOf(cm) /\ Served' = Served
           /\ cm'.status # None \/ cm'.status = cm.status
           /\ Recorded' \in {Recorded, Successes(daemon.base.suc)}
           /\ StaleCheck \/ Recorded' = Recorded
           /\ daemon' = Resting /\ Checking /\ UNCHANGED <<lvmVars, pod>>
<1> DEFINE old == [NoData EXCEPT !.status = daemon.base]
           new == [old EXCEPT !.status.suc = daemon.new]
<1>1. daemon.base \in Status /\ daemon.new \in [Vg -> Class \cup {None}] /\ daemon.stage = "checked"
      /\ daemon' = Resting /\ UNCHANGED <<lvmVars, pod>>
  BY DEF WriteClasses, TInv, DaemonOK, DaemonAtWork
<1>2. old \in Data /\ new \in Data /\ new.status \in Status /\ new.status.suc = daemon.new /\ new.lvmd = old.lvmd
  <2>1. old \in Data
    BY <1>1 DEF Data, NoData
  <2>2. [daemon.base EXCEPT !.suc = daemon.new] \in Status
    BY <1>1 DEF Status
  <2> QED
    BY <1>1, <2>1, <2>2 DEF Data, NoData, Status
<1>3. Patch(old, new)
  BY DEF WriteClasses
<1> HIDE DEF old, new
<1>4. cm' \in Data /\ cm # NoMap /\ cm'.lvmd = cm.lvmd
      /\ cm'.status = IF new.status # old.status THEN new.status ELSE cm.status
  BY <1>2, <1>3, Patched, PatchedData DEF TInv, PodData
<1>5. cm' # NoMap /\ new.status # None
  BY <1>2, <1>4, MapAssumption
<1>6. Successes(daemon.new) = Successes(daemon.base.suc)
  BY <1>1 DEF DaemonCounts
<1>7. Recorded' \in {Recorded, Successes(daemon.base.suc)}
  <2>1. CASE new.status # old.status
    <3>1. cm'.status # None /\ cm'.status.suc = daemon.new
      BY <1>2, <1>4, <1>5, <2>1
    <3>2. Recorded' = Successes(daemon.new)
      BY <1>5, <3>1 DEF Recorded, Successes
    <3> QED
      BY <1>6, <3>2
  <2>2. CASE new.status = old.status
    BY <1>4, <1>5, <2>2 DEF Recorded, Successes
  <2> QED
    BY <2>1, <2>2
<1>8. StaleCheck \/ Recorded' = Recorded
  BY <1>1, <1>7 DEF StaleCheck, Resting
<1>9. LvmdOf(cm)' = LvmdOf(cm) /\ Served' = Served
  BY <1>4, <1>5 DEF LvmdOf, Served
<1> QED
  BY <1>1, <1>4, <1>5, <1>7, <1>8, <1>9 DEF Checking

NoStatus == IF cm = NoMap THEN TRUE ELSE cm.status = None
RecordsSame == /\ Served' = Served /\ Recorded' = Recorded
               /\ LvmdOf(cm)' = LvmdOf(cm) /\ NoStatus' = NoStatus

\* The ConfigMap stays, and so does what it records and serves.
LEMMA MapSame ==
    ASSUME cm' = cm
    PROVE  RecordsSame
BY DEF RecordsSame, Served, Recorded, LvmdOf, NoStatus

\* A copy of the records that is not a new one, while nobody changes them.
LEMMA SameAgrees ==
    ASSUME RecordsSame, pod' = pod,
           ~Checking' \/ (Checking /\ daemon'.base = daemon.base)
    PROVE  (PodAgrees => PodAgrees') /\ (DaemonAgrees => DaemonAgrees')
<1>1. Read' = Read /\ First' = First /\ Loaded' = Loaded
  BY DEF Read, First, Loaded
<1>2. PodAgrees => PodAgrees'
  BY <1>1 DEF PodAgrees, RecordsSame, NoStatus, LvmdOf
<1>3. DaemonAgrees => DaemonAgrees'
  BY <1>1 DEF DaemonAgrees, RecordsSame, NoStatus
<1> QED
  BY <1>2, <1>3

\* updateDeviceCM.
LEMMA DevicesSame ==
    ASSUME TInv, WriteDevices \/ CreateDevices
    PROVE  RecordsSame
<1>1. CASE UNCHANGED mapVars
  BY <1>1, MapSame DEF mapVars
<1>2. CASE cm # NoMap /\ Patch(cm, [cm EXCEPT !.devices = daemon.view]) /\ WriteDevices
  <2> DEFINE new == [cm EXCEPT !.devices = daemon.view]
  <2>1. cm \in Data /\ daemon.view \in Devices
    BY <1>2 DEF WriteDevices, TInv, PodData, MapOK, MapTypeOK, DaemonOK, DaemonAtWork
  <2>2. new \in Data /\ new.status = cm.status /\ new.lvmd = cm.lvmd /\ Patch(cm, new)
    BY <1>2, <2>1 DEF Data
  <2> HIDE DEF new
  <2>3. cm' \in Data /\ cm'.status = cm.status /\ cm'.lvmd = cm.lvmd
    BY <2>2, Patched, PatchedData DEF TInv, PodData
  <2>4. cm' # NoMap
    BY <2>3, MapAssumption
  <2> QED
    BY <1>2, <2>3, <2>4 DEF RecordsSame, Served, Recorded, LvmdOf, NoStatus, Successes
<1>3. CASE cm = NoMap /\ Write([NoData EXCEPT !.devices = daemon.view]) /\ CreateDevices
  <2>1. daemon.view \in Devices
    BY <1>3 DEF CreateDevices, TInv, DaemonOK, DaemonAtWork
  <2>2. cm' = [devices |-> daemon.view, status |-> None, lvmd |-> None]
    BY <1>3 DEF Write, NoData
  <2>3. cm' \in Data
    BY <2>1, <2>2 DEF Data
  <2>4. cm' # NoMap
    BY <2>3, MapAssumption
  <2> QED
    BY <1>3, <2>2, <2>4 DEF RecordsSame, Served, Recorded, LvmdOf, NoStatus
<1> QED
  BY <1>1, <1>2, <1>3 DEF WriteDevices, CreateDevices

\* The daemon's copy of the records keeps agreeing with what is recorded.
LEMMA DaemonDid ==
    ASSUME TInv, PodCounts, DaemonCounts, DaemonRuns
    PROVE  /\ UNCHANGED <<pv, pod>> /\ DaemonCounts'
           /\ PodAgrees /\ DaemonAgrees => PodAgrees' /\ DaemonAgrees'
           /\ Served' = Served /\ (StaleCheck \/ Recorded' = Recorded)
<1>1. daemon \in Daemon
  BY DEF TInv, DaemonOK, DaemonTypeOK
<1>2. ASSUME daemon'.stage \in {"idle", "listed", "scanned", "missing"}, RecordsSame, UNCHANGED <<pv, pod>>
      PROVE  /\ UNCHANGED <<pv, pod>> /\ DaemonCounts'
             /\ PodAgrees /\ DaemonAgrees => PodAgrees' /\ DaemonAgrees'
             /\ Served' = Served /\ (StaleCheck \/ Recorded' = Recorded)
  BY <1>2, SameAgrees DEF DaemonCounts, Checking, RecordsSame
<1>3. CASE \/ \E blind \in Blind : ScanDisks(blind)
           \/ FindNoMap \/ SkipClasses \/ RestartDaemon
  <2>1. daemon'.stage \in {"idle", "listed", "scanned", "missing"}
    <3>1. CASE \E blind \in Blind : ScanDisks(blind)
      BY <1>1, <3>1 DEF ScanDisks, Daemon
    <3>2. CASE FindNoMap
      BY <1>1, <3>2 DEF FindNoMap, Daemon
    <3>3. CASE SkipClasses \/ RestartDaemon
      BY <3>3 DEF SkipClasses, RestartDaemon, Resting
    <3> QED
      BY <1>3, <3>1, <3>2, <3>3
  <2>2. UNCHANGED <<pv, pod, cm>>
    BY <1>3 DEF ScanDisks, FindNoMap, SkipClasses, RestartDaemon, lvmVars, mapVars
  <2> QED
    BY <1>2, <2>1, <2>2, MapSame
<1>4. CASE WriteDevices \/ CreateDevices
  <2>1. daemon'.stage = "listed" /\ UNCHANGED <<pv, pod>>
    BY <1>4 DEF WriteDevices, CreateDevices, Listed, Resting, lvmVars
  <2> QED
    BY <1>2, <1>4, <2>1, DevicesSame
<1>5. CASE ReadClasses
  <2>1. daemon'.stage = "classes" /\ daemon'.base = cm.status /\ UNCHANGED <<pv, pod, cm>>
        /\ cm # NoMap /\ cm.status # None
    BY <1>5 DEF ReadClasses, Resting, lvmVars, mapVars
  <2>2. DaemonCounts'
    BY <2>1 DEF DaemonCounts
  <2>3. RecordsSame /\ Read' = Read /\ First' = First /\ Loaded' = Loaded
    BY <2>1, MapSame DEF Read, First, Loaded
  <2>4. PodAgrees => PodAgrees'
    BY <2>1, <2>3 DEF PodAgrees, RecordsSame, NoStatus, LvmdOf
  <2>5. Successes(daemon'.base.suc) = Recorded
    BY <2>1 DEF Recorded
  <2>6. PodAgrees => DaemonAgrees'
    <3>1. ~Loaded => Read = {}
      BY ReadLater
    <3> QED
      BY <2>1, <2>3, <2>5, <3>1 DEF DaemonAgrees, PodAgrees, RecordsSame
  <2> QED
    BY <2>1, <2>2, <2>3, <2>4, <2>6 DEF RecordsSame
<1>6. CASE CheckGroups
  <2> DEFINE new == [g \in Vg |-> Checked(g)]
  <2>1. daemon.stage = "classes" /\ UNCHANGED <<pv, pod, cm>> /\ daemon.base \in Status
    BY <1>6 DEF CheckGroups, lvmVars, mapVars, TInv, DaemonOK, DaemonAtWork
  <2>2. CASE daemon' = Resting
    BY <1>2, <2>1, <2>2, MapSame DEF Resting
  <2>3. CASE daemon' = [daemon EXCEPT !.stage = "checked", !.new = new]
    <3>1. Successes(new) = Successes(daemon.base.suc)
      <4>1. ASSUME NEW g \in Vg PROVE Checked(g) # None <=> daemon.base.suc[g] # None
        <5>1. CASE daemon.base.suc[g] = None
          BY <5>1 DEF Checked
        <5>2. CASE daemon.base.suc[g] # None
          <6>1. daemon.base.suc[g] \in Class
            BY <2>1, <5>2 DEF Status
          <6>2. Checked(g) \in Class
            BY <5>2, <6>1 DEF Checked, Class
          <6> QED
            BY <5>2, <6>2, MapAssumption
        <5> QED
          BY <5>1, <5>2
      <4>2. \A g \in Vg : new[g] = Checked(g)
        OBVIOUS
      <4> HIDE DEF new
      <4> QED
        BY <4>1, <4>2 DEF Successes
    <3> HIDE DEF new
    <3>2. daemon'.stage = "checked" /\ daemon'.base = daemon.base /\ daemon'.new = new
      BY <1>1, <2>3 DEF Daemon
    <3>3. DaemonCounts'
      BY <2>1, <3>1, <3>2 DEF DaemonCounts, Checking, Successes
    <3> QED
      BY <2>1, <3>2, <3>3, MapSame, SameAgrees DEF Checking, RecordsSame
  <2> QED
    BY <1>6, <2>2, <2>3 DEF CheckGroups
<1>7. CASE WriteClasses
  <2>1. /\ cm' # NoMap /\ cm # NoMap /\ LvmdOf(cm)' = LvmdOf(cm) /\ Served' = Served
        /\ Recorded' \in {Recorded, Successes(daemon.base.suc)}
        /\ StaleCheck \/ Recorded' = Recorded
        /\ daemon' = Resting /\ Checking /\ UNCHANGED <<lvmVars, pod>>
    BY <1>7, WriteClassesWrites
  <2>2. ~Checking' /\ DaemonCounts'
    BY <2>1 DEF Checking, DaemonCounts, Resting
  <2>3. Read' = Read /\ First' = First /\ Loaded' = Loaded
    BY <2>1 DEF Read, First, Loaded
  <2>4. PodAgrees /\ DaemonAgrees => PodAgrees'
    <3> SUFFICES ASSUME PodAgrees, DaemonAgrees, Loaded PROVE PodAgrees'
      BY <2>3 DEF PodAgrees
    <3>1. ~First
      BY <2>1 DEF PodAgrees, DaemonAgrees
    <3> QED
      BY <2>1, <2>3, <3>1 DEF PodAgrees, DaemonAgrees, LvmdOf
  <2> QED
    BY <2>1, <2>2, <2>4 DEF DaemonAgrees, lvmVars
<1> QED
  BY <1>3, <1>4, <1>5, <1>6, <1>7 DEF DaemonRuns, DaemonStep

-----------------------------------------------------------------------------
(* The pod.                                                                *)

\* Every step of the pod keeps the parts of the invariant that bind it to the ConfigMap.
LEMMA PodTogether ==
    ASSUME TInv, RInv, PodRuns
    PROVE  PodCounts' /\ PodHolds' /\ (life = "there" => PodGiven' /\ PodMade' /\ PodAgrees' /\ DaemonAgrees')
<1>1. UNCHANGED <<daemon, spec, life, cleaner>> /\ PodCounts /\ PodHolds /\ PodCan
  BY DEF PodRuns, clusterVars, userVars, RInv, PodCan, Together
<1>2. CASE ReadConfigMap \/ \E blind \in Blind : ReadSpec(spec, blind)
  <2>1. cm' = cm
    BY <1>2 DEF ReadConfigMap, ReadSpec, mapVars
  <2>2. PodCounts' /\ PodHolds'
    BY <1>1, <1>2, LoadDid
  <2>3. life = "there" => Together'
    BY <1>1, <1>2, <2>1, LoadAgrees DEF RInv
  <2> QED
    BY <1>1, <2>2, <2>3 DEF Together
<1>3. CASE Save
  <2>1. pod'.stage = "done" /\ pod'.base = NoMap /\ pod'.new = {} /\ pod'.todo = {}
        /\ Successes(pod'.suc) = {}
    BY <1>3 DEF Save, Gone, Successes
  <2>2. PodCounts' /\ PodHolds'
    BY <2>1 DEF PodCounts, PodHolds, Loaded
  <2>3. life = "there" => PodGiven' /\ PodMade' /\ PodAgrees' /\ DaemonAgrees'
    BY <1>1, <1>3, SaveTogether DEF RInv, Together
  <2> QED
    BY <2>2, <2>3
<1>4. CASE PodStep /\ ~ReadConfigMap /\ ~Save
  <2>1. PodDid
    BY <1>1, <1>4, WorkDid
  <2>2. PICK C \in SUBSET Vg, D \in SUBSET Vg, N \in SUBSET Vg : Does(C, D, N)
    BY <2>1 DEF PodDid
  <2>3. PodCounts' /\ Read' = Read /\ Wanted' = Wanted /\ First' = First
    BY <1>1, <2>2, DoesCounts
  <2>4. life = "there" => PodMade'
    BY <1>1, <2>2, DoesMade DEF RInv, Together
  <2>5. life = "there" => PodGiven'
    BY <1>1, <2>2, <2>3 DEF RInv, Together, PodGiven, Does, Given
  <2>6. life = "there" => PodAgrees' /\ DaemonAgrees'
    <3>1. cm' = cm /\ pod'.base = pod.base /\ Loaded
      BY <2>2 DEF Does
    <3> QED
      BY <1>1, <2>3, <3>1, AgreesStays DEF RInv, Together
  <2> QED
    BY <2>1, <2>3, <2>4, <2>5, <2>6 DEF PodDid
<1> QED
  BY <1>2, <1>3, <1>4 DEF PodRuns

-----------------------------------------------------------------------------
(* Everything else.                                                        *)

\* A pod that comes or goes has read nothing.
LEMMA PodFresh ==
    ASSUME pod' \in {Gone, Started}
    PROVE  /\ PodCounts' /\ PodHolds' /\ ~Loaded' /\ pod'.stage \in {"none", "start"}
           /\ Read' = {} /\ pod'.new = {} /\ (pod'.stage = "start" => pod' = Started)
<1>1. /\ pod'.stage \in {"none", "start"} /\ pod'.base = NoMap /\ pod'.new = {} /\ pod'.todo = {}
      /\ pod'.suc = [g \in Vg |-> None] /\ (pod'.stage = "start" => pod' = Started)
  BY DEF Gone, Started
<1>2. ~Loaded' /\ Read' = {} /\ Successes(pod'.suc) = {}
  BY <1>1 DEF Loaded, Read, First, Successes
<1> QED
  BY <1>1, <1>2 DEF PodCounts, PodHolds

\* What the node holds stays, but for a pod that comes or goes.
QuietStays ==
    /\ UNCHANGED <<pv, cm, daemon, cleaner, spec>> /\ (life' = "there" => life = "there")
    /\ \/ pod' = pod /\ (pod.stage = "none" \/ job' = job)
       \/ pod' = Gone
       \/ pod' = Started /\ job' = "active" /\ pod.stage = "none"

\* A step that leaves pod, daemon, groups and ConfigMap alone keeps the invariant.
LEMMA QuietKeeps ==
    ASSUME TInv, RInv, QuietStays
    PROVE  RInv'
<1>1. RecordsSame /\ Checking' = Checking /\ \A g \in Vg : Members(g)' = Members(g)
  BY MapSame DEF QuietStays, Checking, Members
<1>2. DaemonCounts'
  BY DEF QuietStays, RInv, DaemonCounts, Checking
<1>3. CASE pod' = pod /\ (pod.stage = "none" \/ job' = job)
  <2>1. PodHasJob' /\ PodCounts' /\ PodHolds'
    BY <1>3 DEF RInv, PodHasJob, PodCounts, PodHolds, Loaded, Read, First, Wanted
  <2>2. life = "there" => PodGiven' /\ PodMade'
    BY <1>3 DEF QuietStays, RInv, Together, PodGiven, PodMade, Loaded, Read, First, Wanted, Given, Members
  <2>3. life = "there" => PodAgrees' /\ DaemonAgrees'
    BY <1>1, <1>3, SameAgrees DEF QuietStays, RInv, Together
  <2> QED
    BY <1>2, <2>1, <2>2, <2>3 DEF QuietStays, RInv, Together
<1>4. CASE pod' = Gone \/ (pod' = Started /\ job' = "active")
  <2>1. /\ PodCounts' /\ PodHolds' /\ ~Loaded' /\ pod'.stage \in {"none", "start"}
        /\ Read' = {} /\ pod'.new = {} /\ (pod'.stage = "start" => pod' = Started)
    BY <1>4, PodFresh
  <2>2. PodHasJob'
    BY <1>4, <2>1 DEF PodHasJob, Gone
  <2>3. PodGiven' /\ PodMade' /\ PodAgrees'
    BY <2>1 DEF PodGiven, PodMade, PodAgrees, Loaded
  <2>4. life = "there" => DaemonAgrees'
    BY <1>1, <2>1 DEF QuietStays, RInv, Together, DaemonAgrees, RecordsSame
  <2> QED
    BY <1>2, <2>1, <2>2, <2>3, <2>4 DEF QuietStays, RInv, Together
<1> QED
  BY <1>3, <1>4 DEF QuietStays

\* The cluster is not there, and the pod is left alone.
LEMMA AwayKeeps ==
    ASSUME TInv, RInv, life' # "there", UNCHANGED <<pod, job, daemon>>
    PROVE  RInv'
BY DEF RInv, PodHasJob, PodCounts, PodHolds, DaemonCounts, Together, Loaded, Checking, Read, First, Wanted

\* Users change the cluster when no pod runs; a cluster is created when the clean-up
\* is over and the daemon holds no records.
LEMMA UserKeeps ==
    ASSUME TInv, RInv, Patient = TRUE, \E new \in Wishes : Edit(new) \/ CreateCluster(new)
    PROVE  RInv'
<1>1. Settled /\ UNCHANGED <<pv, cm, pod, job, daemon, cleaner>> /\ life \in {"there", "gone"}
  BY DEF Edit, CreateCluster, UserStep, podVars, lvmVars, mapVars, jobVars
<1>2. pod.stage = "none"
  BY <1>1 DEF Settled, RInv, PodHasJob
<1>3. PodHasJob' /\ PodCounts' /\ PodHolds' /\ DaemonCounts'
  BY <1>1 DEF RInv, PodHasJob, PodCounts, PodHolds, DaemonCounts, Loaded, Checking, Read, First, Wanted
<1>4. ~Loaded' /\ Read' = {} /\ pod'.new = {}
  BY <1>1, <1>2, ReadLater DEF RInv, PodCounts, Loaded, Read, First
<1>5. PodGiven' /\ PodMade' /\ PodAgrees'
  BY <1>1, <1>2, <1>4 DEF PodGiven, PodMade, PodAgrees, Loaded
<1>6. DaemonAgrees'
  <2>1. CASE life = "there"
    BY <1>1, <2>1, MapSame, SameAgrees DEF RInv, Together, Checking
  <2>2. CASE life = "gone"
    BY <1>1, <2>2 DEF Settled, RInv, DaemonCounts, DaemonAgrees, Checking
  <2> QED
    BY <1>1, <2>1, <2>2
<1>7. cleaner'.stage \in {"none", "done"}
  BY <1>1 DEF Settled, RInv, Together
<1> QED
  BY <1>3, <1>5, <1>6, <1>7 DEF RInv, Together

\* Steps that concern neither the records nor the groups.
QuietNext ==
    \/ JobRuns \/ (\E l \in Launcher : Launches(l))
    \/ Reconcile \/ HandleNews \/ ServeNews \/ CheckStatus \/ RestartOperator
    \/ ReconcileDelete \/ EndDeletion \/ CollectGarbage \/ DeleteCluster \/ Hardware

\* Jobs, disks, operator and volumes leave pod, daemon, groups and ConfigMap alone, or only replace the pod.
LEMMA QuietSteps ==
    ASSUME TInv, RInv, QuietNext
    PROVE  QuietStays /\ (pod' = pod \/ pod.stage = "none" \/ pod' = Gone)
<1>1. CASE JobRuns \/ \E l \in Launcher : Launches(l)
  <2>1. UNCHANGED <<pv, cm, daemon, cleaner, spec, life>>
    BY <1>1 DEF JobRuns, StartPod, PodSucceeded, PodFailed, PodFails, Launches, LaunchStep, GetJob, WaitForJob,
      DeleteJob, CreateJob, lvmVars, nodeVars, mapVars, clusterVars, userVars
  <2>2. \/ pod' = pod /\ (job = "none" \/ job' = job)
        \/ pod' = Gone
        \/ pod' = Started /\ job' = "active" /\ job # "active"
    BY <1>1 DEF JobRuns, StartPod, PodSucceeded, PodFailed, PodFails, Launches, LaunchStep, GetJob, WaitForJob,
      DeleteJob, CreateJob
  <2> QED
    BY <2>1, <2>2 DEF QuietStays, RInv, PodHasJob
<1>2. CASE Reconcile \/ HandleNews \/ ServeNews \/ CheckStatus
  BY <1>2 DEF Reconcile, HandleNews, ServeNews, CheckStatus, lvmVars, podVars, mapVars, jobVars, userVars, QuietStays
<1>3. CASE RestartOperator \/ ReconcileDelete \/ EndDeletion
  BY <1>3 DEF RestartOperator, ReconcileDelete, EndDeletion, DeletionAt, mapVars, jobVars, userVars, QuietStays
<1>4. CASE CollectGarbage
  BY <1>4 DEF CollectGarbage, lvmVars, mapVars, userVars, QuietStays
<1>5. CASE DeleteCluster
  BY <1>5 DEF DeleteCluster, UserStep, podVars, lvmVars, mapVars, jobVars, QuietStays
<1>6. CASE Hardware
  BY <1>6 DEF Hardware, LoseDisk, ReturnDisk, CreateVolume, DeleteVolume, mapVars, jobVars, clusterVars, userVars, QuietStays
<1> QED
  BY <1>1, <1>2, <1>3, <1>4, <1>5, <1>6 DEF QuietNext

\* A clean-up runs only when the cluster is being deleted, or is gone.
LEMMA CleanerAway ==
    ASSUME RInv, CleanerRuns \/ CleanerDies
    PROVE  life # "there" /\ life' = life /\ UNCHANGED <<cm, pod, job, daemon>>
<1>1. life' = life /\ UNCHANGED <<cm, pod, job, daemon>>
  BY DEF CleanerRuns, CleanerDies, mapVars, jobVars, clusterVars
<1>2. cleaner.stage \notin {"none", "done"}
  BY DEF CleanerRuns, CleanerDies, CleanerStep, EndCleaner, CleanGroup, CleanPv, CleanNamed, RetryCleaner, ReadGroups,
    CleanerFails, CleanerWorks
<1> QED
  BY <1>1, <1>2 DEF RInv, Together

\* Every step keeps the invariant.
LEMMA RecordsKeep ==
    ASSUME TInv, RInv, Patient = TRUE, Next
    PROVE  RInv'
<1>1. CASE PodRuns
  <2>1. UNCHANGED <<job, daemon, life, cleaner>>
    BY <1>1 DEF PodRuns, jobVars, clusterVars
  <2>2. PodHasJob'
    <3>1. pod.stage # "none"
      BY <1>1 DEF PodRuns, PodStep, ReadSpec, ReadConfigMap, CreateVg, ExpandVg, KeepVg, ShrinkVg, RemoveReducedPvs,
        RemoveVg, Save, StartCreate, StartExpand, DeleteVg, CreatePv, ExpandPv, RemovePv, Expanded, Between
    <3> QED
      BY <2>1, <3>1 DEF RInv, PodHasJob
  <2>3. DaemonCounts'
    BY <2>1 DEF RInv, DaemonCounts, Checking
  <2> QED
    BY <1>1, <2>1, <2>2, <2>3, PodTogether DEF RInv, Together
<1>2. CASE DaemonRuns
  <2>1. UNCHANGED <<job, cleaner, spec, life>>
    BY <1>2 DEF DaemonRuns, jobVars, clusterVars, userVars
  <2>2. UNCHANGED <<pv, pod>> /\ DaemonCounts' /\ (PodAgrees /\ DaemonAgrees => PodAgrees' /\ DaemonAgrees')
    BY <1>2, DaemonDid DEF RInv
  <2>3. PodHasJob' /\ PodCounts' /\ PodHolds'
    BY <2>1, <2>2 DEF RInv, PodHasJob, PodCounts, PodHolds, Loaded, Read, First, Wanted
  <2>4. life = "there" => PodGiven' /\ PodMade'
    BY <2>1, <2>2 DEF RInv, Together, PodGiven, PodMade, Loaded, Read, First, Wanted, Given, Members
  <2> QED
    BY <2>1, <2>2, <2>3, <2>4 DEF RInv, Together
<1>3. CASE QuietNext
  BY <1>3, QuietSteps, QuietKeeps
<1>4. CASE CleanMap
  BY <1>4, AwayKeeps DEF CleanMap, DeletionAt, jobVars
<1>5. CASE CleanerRuns \/ CleanerDies
  BY <1>5, CleanerAway, AwayKeeps
<1>6. CASE \E new \in Wishes : Edit(new) \/ CreateCluster(new)
  BY <1>6, UserKeeps
<1> QED
  BY <1>1, <1>2, <1>3, <1>4, <1>5, <1>6 DEF Next, Deletion, QuietNext

\* The invariant holds at the start.
LEMMA RecordsInit ==
    ASSUME Init
    PROVE  RInv
<1>1. pod.stage = "none" /\ pod.base = NoMap /\ pod.new = {} /\ pod.todo = {} /\ pod.suc = [g \in Vg |-> None]
  BY DEF Init, Gone
<1>2. ~Loaded /\ ~Checking /\ Read = {} /\ Successes(pod.suc) = {}
  BY <1>1 DEF Init, Resting, Loaded, Checking, Read, First, Successes
<1>3. PodHasJob /\ PodCounts /\ PodHolds /\ DaemonCounts
  BY <1>1, <1>2 DEF PodHasJob, PodCounts, PodHolds, DaemonCounts, Checking
<1>4. PodGiven /\ PodMade /\ PodAgrees /\ DaemonAgrees
  BY <1>1, <1>2 DEF PodGiven, PodMade, PodAgrees, DaemonAgrees
<1>5. cleaner.stage = "none"
  BY DEF Init, NoCleaner
<1> QED
  BY <1>3, <1>4, <1>5 DEF RInv, Together

-----------------------------------------------------------------------------
(* What a step does to the records.                                        *)

ServedStep == life = "there" /\ Served = Recorded => Served' = Recorded' \/ StaleCheck

UsedStep ==
    \A g \in Served \cap Recorded :
        HasVolumes(g) /\ spec[g] # NoClass /\ life = "there" => g \in Served' \cap Recorded' \/ StaleCheck

KeptStep ==
    life = "there" /\ life' = "there" =>
        \/ Astray' \subseteq Astray \cup {g \in Vg : spec[g] = NoClass}
        \/ StaleCheck \/ StaleSave \/ PodLost \/ WipeFails

\* Only pods and the daemon write records, as long as the cluster is there.
LEMMA MapStep ==
    ASSUME TInv, RInv, [Next]_vars, ~PodRuns, ~DaemonRuns, life = "there"
    PROVE  /\ UNCHANGED <<cm, pv>>
           /\ pod' = pod \/ (pod.stage = "none" /\ pod' = Started) \/ pod' = Gone
<1>1. CASE QuietNext
  BY <1>1, QuietSteps DEF QuietStays
<1>2. CASE \E new \in Wishes : Edit(new) \/ CreateCluster(new)
  BY <1>2 DEF Edit, CreateCluster, UserStep, podVars, lvmVars, mapVars
<1>3. CASE CleanMap \/ CleanerRuns \/ CleanerDies
  BY <1>3, CleanerAway DEF CleanMap, DeletionAt
<1>4. CASE UNCHANGED vars
  BY <1>4 DEF vars, podVars, lvmVars, mapVars
<1> QED
  BY <1>1, <1>2, <1>3, <1>4 DEF Next, Deletion, QuietNext

\* A pod that is loaded writes the ConfigMap only when it saves.
LEMMA PodMap ==
    ASSUME TInv, RInv, PodRuns, ~Save
    PROVE  cm' = cm
BY DEF PodRuns, PodStep, ReadConfigMap, CreateVg, ExpandVg, KeepVg, ShrinkVg, RemoveReducedPvs, RemoveVg, StartCreate,
  StartExpand, DeleteVg, CreatePv, ExpandPv, RemovePv, ReadSpec, mapVars

\* A step of the pod keeps serving the classes it has not dropped.
LEMMA ServedKept ==
    ASSUME TInv, RInv, [Next]_vars
    PROVE  ServedStep /\ UsedStep
<1> SUFFICES ASSUME life = "there" PROVE ServedStep /\ UsedStep
  BY DEF ServedStep, UsedStep
<1>1. PodCounts /\ PodGiven /\ PodMade /\ PodAgrees /\ DaemonCounts
  BY DEF RInv, Together
<1>2. ASSUME cm' = cm PROVE ServedStep /\ UsedStep
  BY <1>2 DEF ServedStep, UsedStep, Served, Recorded
<1>3. CASE PodRuns /\ Save
  <2>1. Served \cap Recorded \subseteq Read /\ Read \ Served \subseteq Recorded /\ Wanted = Given /\ Loaded
    BY <1>1, <1>3, SaveWrites DEF PodAgrees, PodGiven
  <2>2. pod.new \subseteq Successes(pod.suc) /\ Successes(pod.suc) \subseteq Read \cup pod.new
    BY <1>1 DEF PodCounts
  <2>3. ServedStep
    BY <1>1, <1>3, <2>1, <2>2, SaveSets DEF ServedStep
  <2>4. UsedStep
    <3> SUFFICES ASSUME NEW g \in Served \cap Recorded, HasVolumes(g), spec[g] # NoClass
                 PROVE  g \in Served' \cap Recorded'
      BY DEF UsedStep
    <3>1. g \in Vg
      BY DEF Recorded, Successes
    <3>2. g \in Read \cap Wanted
      BY <2>1, <3>1 DEF Given
    <3>3. Members(g) # {}
      BY DEF HasVolumes
    <3>4. g \in Successes(pod.suc)
      BY <1>1, <3>1, <3>2, <3>3 DEF PodMade, Successes
    <3> QED
      BY <1>1, <1>3, <3>2, <3>4, SaveSets
  <2> QED
    BY <2>3, <2>4
<1>4. CASE PodRuns /\ ~Save
  BY <1>2, <1>4, PodMap
<1>5. CASE DaemonRuns
  <2>1. Served' = Served /\ (StaleCheck \/ Recorded' = Recorded)
    BY <1>1, <1>5, DaemonDid
  <2> QED
    BY <2>1 DEF ServedStep, UsedStep
<1>6. CASE ~PodRuns /\ ~DaemonRuns
  BY <1>2, <1>6, MapStep
<1> QED
  BY <1>3, <1>4, <1>5, <1>6

\* A pod that has read nothing has nothing unsaved.
LEMMA NothingUnsaved ==
    ASSUME PodCounts, ~Loaded, NEW g \in Vg
    PROVE  ~Unsaved(g)
BY ReadLater DEF PodCounts, Unsaved, Loaded, Successes

\* What one step may do to records and served classes, under the invariant.
LEMMA RecordsStep ==
    ASSUME TInv, RInv, RInv', [Next]_vars
    PROVE  KeptStep
<1> DEFINE none == {g \in Vg : spec[g] = NoClass}
<1> SUFFICES ASSUME life = "there", life' = "there", ~StaleCheck, ~StaleSave, ~PodLost, ~WipeFails
             PROVE  Astray' \subseteq Astray \cup none
  BY DEF KeptStep
<1>1. PodCounts /\ PodCounts' /\ PodHolds /\ PodGiven /\ PodMade /\ PodAgrees /\ DaemonCounts
  BY DEF RInv, Together
<1>2. ASSUME Recorded' = Recorded, pv' = pv, NEW g \in Astray', Unsaved(g) => Unsaved(g)' PROVE g \in Astray
  BY <1>2 DEF Astray, Members
<1>3. CASE PodRuns /\ Save
  <2>1. pv' = pv /\ Loaded /\ pod.stage = "class" /\ pod'.stage = "done" /\ pod.stage # "unmake"
    BY <1>3 DEF Save, Between, lvmVars, Loaded
  <2>2. Read = Recorded
    BY <2>1 DEF StaleSave
  <2>3. ASSUME NEW g \in Astray', g \notin none PROVE g \in Astray
    <3>1. g \in Vg /\ (\A d \in Disk : Foreign[d] # g) /\ (Members(g) # {}) # (g \in Recorded')
      BY <2>1, <2>3 DEF Astray, Members
    <3>2. g \in Wanted
      BY <1>1, <2>1, <2>3, <3>1 DEF PodGiven, Given
    <3>3. Recorded' = Successes(pod.suc)
      BY <1>1, <1>3, <2>2, SaveSets
    <3>4. g \in Successes(pod.suc) <=> g \in Read
      <4>1. CASE g \in Successes(pod.suc) /\ g \notin Read
        <5>1. g \in pod.new
          BY <1>1, <4>1 DEF PodCounts
        <5> QED
          BY <1>1, <3>1, <3>3, <4>1, <5>1 DEF PodMade
      <4>2. CASE g \notin Successes(pod.suc) /\ g \in Read
        <5>1. Members(g) = {}
          BY <1>1, <3>1, <3>2, <4>2 DEF PodMade, Successes
        <5> QED
          BY <3>1, <3>3, <4>2, <5>1
      <4> QED
        BY <4>1, <4>2
    <3>5. ~Unsaved(g)
      BY <2>1, <3>1, <3>4 DEF Unsaved, Successes
    <3> QED
      BY <2>2, <3>1, <3>3, <3>4, <3>5 DEF Astray
  <2> QED
    BY <2>3
<1>4. CASE PodRuns /\ (ReadConfigMap \/ \E blind \in Blind : ReadSpec(spec, blind))
  <2>1. cm' = cm /\ pv' = pv /\ ~Loaded
    BY <1>4 DEF ReadConfigMap, ReadSpec, lvmVars, mapVars, Loaded
  <2>2. ASSUME NEW g \in Astray' PROVE g \in Astray
    <3>1. ~Unsaved(g)
      BY <1>1, <2>1, NothingUnsaved DEF Astray
    <3> QED
      BY <1>2, <2>1, <3>1 DEF Recorded
  <2> QED
    BY <2>2
<1>5. CASE PodStep /\ ~ReadConfigMap /\ ~Save
  <2>1. PodDid
    BY <1>1, <1>5, WorkDid DEF PodCan
  <2>2. PICK C \in SUBSET Vg, D \in SUBSET Vg, N \in SUBSET Vg : Does(C, D, N)
    BY <2>1 DEF PodDid
  <2>3. Read' = Read /\ Recorded' = Recorded
    <3>1. cm' = cm
      BY <2>2 DEF Does
    <3>2. Read' = Read
      BY <1>1, <2>2, DoesCounts
    <3> QED
      BY <3>1, <3>2 DEF Recorded
  <2>4. ASSUME NEW g \in Astray' PROVE g \in Astray
    <3>1. /\ g \in Vg /\ (\A d \in Disk : Foreign[d] # g) /\ (Members(g)' # {}) # (g \in Recorded)
          /\ ~Unsaved(g)'
      BY <2>3, <2>4 DEF Astray
    <3>2. g \in Successes(pod'.suc) <=> g \in Read
      BY <2>3, <3>1 DEF Unsaved, Successes
    <3>3. ~(pod'.stage = "unmake" /\ pod'.cur = g)
      BY <3>1 DEF Unsaved
    <3>4. g \notin N
      BY <2>2, <3>2 DEF Does
    <3>5. g \notin D
      BY <1>1, <2>2, <3>2, <3>4 DEF Does, PodCounts
    <3>6. g \in Successes(pod.suc) <=> g \in Read
      BY <2>2, <3>2, <3>4, <3>5 DEF Does
    <3>7. (Members(g) # {}) # (g \in Recorded)
      BY <2>2, <3>1, <3>3, <3>4 DEF Does
    <3>8. ~(pod.stage = "unmake" /\ pod.cur = g)
      BY <2>2, <3>3, <3>5 DEF Does
    <3>9. ~Unsaved(g)
      BY <3>1, <3>6, <3>8 DEF Unsaved, Successes
    <3> QED
      BY <3>1, <3>7, <3>9 DEF Astray
  <2> QED
    BY <2>4
<1>6. CASE DaemonRuns
  <2>1. UNCHANGED <<pv, pod>> /\ Recorded' = Recorded
    BY <1>1, <1>6, DaemonDid
  <2>2. \A g \in Vg : Unsaved(g)' <=> Unsaved(g)
    BY <2>1 DEF Unsaved, Read, First
  <2> QED
    BY <1>2, <2>1, <2>2 DEF Astray
<1>7. CASE ~PodRuns /\ ~DaemonRuns
  <2>1. UNCHANGED <<cm, pv>> /\ (pod' = pod \/ (pod.stage = "none" /\ pod' = Started) \/ pod' = Gone)
    BY <1>7, MapStep
  <2>2. Recorded' = Recorded
    BY <2>1 DEF Recorded
  <2>3. CASE pod' = pod
    <3>1. \A g \in Vg : Unsaved(g)' <=> Unsaved(g)
      BY <2>3 DEF Unsaved, Read, First
    <3> QED
      BY <1>2, <2>1, <2>2, <3>1 DEF Astray
  <2>4. CASE pod.stage \in {"none", "done"}
    <3>1. \A g \in Vg : ~Unsaved(g)
      BY <1>1, <2>4, NothingUnsaved DEF Loaded
    <3> QED
      BY <1>2, <2>1, <2>2, <3>1 DEF Astray
  <2> QED
    BY <2>1, <2>3, <2>4 DEF PodLost
<1> QED
  BY <1>3, <1>4, <1>5, <1>6, <1>7 DEF PodRuns

\* While users wait until a change is applied, every step keeps the invariant.
LEMMA RecordsInvariant == Patient = TRUE => (Spec => [](TInv /\ RInv))
<1> SUFFICES ASSUME Patient = TRUE PROVE Spec => [](TInv /\ RInv)
  OBVIOUS
<1>1. Init => TInv /\ RInv
  BY InitTyped, RecordsInit
<1>2. TInv /\ [Next]_vars => TInv'
  BY StepTyped
<1>3. TInv /\ RInv /\ [Next]_vars => RInv'
  <2>1. ASSUME TInv, RInv, UNCHANGED vars PROVE RInv'
    <3>1. QuietStays
      BY <2>1 DEF vars, podVars, lvmVars, mapVars, jobVars, clusterVars, userVars, QuietStays
    <3> QED
      BY <2>1, <3>1, QuietKeeps
  <2> QED
    BY <2>1, RecordsKeep
<1> QED
  BY <1>1, <1>2, <1>3, PTL DEF Spec

\* A class that is named, recorded and served, and whose group holds volumes, is
\* never taken out of the records or out of the configuration of lvmd by a job that
\* shrinks, fails, repeats another one, or dies; only the daemon's old copy of the
\* records can do that (updateLvmdConf, updateVgStatus, checkDeviceClass).
THEOREM UsedClassesStay == Patient = TRUE => (Spec => UsedClassStaysServed)
<1> SUFFICES ASSUME Patient = TRUE PROVE Spec => UsedClassStaysServed
  OBVIOUS
<1>1. TInv /\ RInv /\ [Next]_vars => UsedStep
  BY ServedKept
<1>2. Spec => [](TInv /\ RInv)
  BY RecordsInvariant
<1> QED
  BY <1>1, <1>2, PTL DEF Spec, UsedClassStaysServed, UsedStep

\* Whoever writes the ConfigMap of the node last, a job of whatever history or the
\* daemon, the classes given to lvmd to serve are those recorded as created, until
\* the daemon writes back an old copy (updateLvmdConf, createLvmdConf).
THEOREM ServedAreRecorded == Patient = TRUE => (Spec => ServesRecorded)
<1> SUFFICES ASSUME Patient = TRUE PROVE Spec => ServesRecorded
  OBVIOUS
<1>1. TInv /\ RInv /\ [Next]_vars => ServedStep
  BY ServedKept
<1>2. Spec => [](TInv /\ RInv)
  BY RecordsInvariant
<1> QED
  BY <1>1, <1>2, PTL DEF Spec, ServesRecorded, ServedStep

\* No step parts a group of ours from its record, except that a class is no longer
\* named, that a pod dies or cannot wipe a disk, or that somebody writes back an
\* old copy of the records (checkVgIfShrink, updateVgStatus, checkDeviceClass).
THEOREM RecordsAreKept == Patient = TRUE => (Spec => RecordsKept)
<1> SUFFICES ASSUME Patient = TRUE PROVE Spec => RecordsKept
  OBVIOUS
<1>1. TInv /\ RInv /\ RInv' /\ [Next]_vars => KeptStep
  BY RecordsStep
<1>2. Spec => [](TInv /\ RInv)
  BY RecordsInvariant
<1> QED
  BY <1>1, <1>2, PTL DEF Spec, RecordsKept, KeptStep

-----------------------------------------------------------------------------
(* What a deleted cluster leaves behind.                                   *)

\* The groups of ours that there are.
Existing == {g \in Vg \ Others : Members(g) # {}}

\* The pod, or else the ConfigMap, knows of each.
Tracked == Existing \subseteq IF Loaded THEN Successes(pod.suc) ELSE Recorded
ReadsRecorded == Loaded => Read = Recorded

\* A job that is done has left groups of the specification only, unless another
\* one is on its way.
Owed == \/ event /\ seen # spec
        \/ \E l \in Launcher : asks[l] \in {"get", "wait", "delete"}
Applied == /\ pod.stage = "done" => Existing \subseteq Given
           /\ job = "done" => Existing \subseteq Given \/ Owed

\* No job runs beside a deletion, and none is asked for.
NoJob == /\ pod.stage = "none" /\ job \in {"none", "done"}
         /\ \A l \in Launcher : Idle(l)

\* The clean-up has still to look at every group there is.
CleansUp ==
    /\ cleaner.stage # "failed"
    /\ cleaner.stage = "start" => Existing \subseteq Given
    /\ cleaner.stage \in {"groups", "unmake"} => Existing \subseteq cleaner.groups
    /\ life \in {"deleted", "maps"} /\ ~CleanerWorks => Existing \subseteq Given
    /\ life = "jobs" => cleaner.stage # "none" /\ (~CleanerWorks => Existing = {})
    /\ life = "gone" => ~CleanerWorks /\ Existing = {}

\* The operator has emptied the ConfigMap.
Emptied == life \in {"jobs", "gone"} => NoStatus /\ LvmdOf(cm) = None

LInv == IF life = "there" THEN Tracked /\ ReadsRecorded /\ Applied
        ELSE NoJob /\ CleansUp /\ Emptied

\* Groups with the disks they had are the groups there were.
LEMMA SameGroups ==
    ASSUME \A g \in Vg : Members(g)' = Members(g)
    PROVE  Existing' = Existing
BY DEF Existing, Others, Theirs

\* What is recorded, by the status that is there.
LEMMA RecordedIs ==
    /\ NoStatus => Recorded = {}
    /\ ~NoStatus => Recorded = Successes(cm.status.suc)
BY DEF NoStatus, Recorded

-----------------------------------------------------------------------------
(* While the cluster is there.                                             *)

\* The copy that a pod reads is the ConfigMap.
LEMMA LoadReads ==
    ASSUME TInv, PodCounts, PodHolds, ReadConfigMap
    PROVE  Read' = Recorded
<1>1. pod \in Pod
  BY PodFields
<1>2. pod'.base = IF cm = NoMap THEN NoMap ELSE [cm EXCEPT !.devices = None]
  BY <1>1 DEF ReadConfigMap, Pod
<1>3. CASE cm = NoMap
  BY <1>2, <1>3 DEF Read, First, Recorded
<1>4. CASE cm # NoMap
  <2>1. cm \in Data
    BY <1>4 DEF TInv, PodData, MapOK, MapTypeOK
  <2>2. pod'.base = [cm EXCEPT !.devices = None]
    BY <1>2, <1>4
  <2>3. pod'.base.status = cm.status /\ pod'.base \in Data
    BY <2>1, <2>2 DEF Data
  <2>4. pod'.base # NoMap
    BY <2>3, MapAssumption
  <2> QED
    BY <1>4, <2>3, <2>4 DEF Read, First, Recorded, Successes
<1> QED
  BY <1>3, <1>4

\* A pod that reads the ConfigMap knows what is recorded.
LEMMA LoadTracks ==
    ASSUME TInv, RInv, LInv, life = "there", UNCHANGED <<spec, job, event, seen, asks>>,
           ReadConfigMap \/ \E blind \in Blind : ReadSpec(spec, blind)
    PROVE  Tracked' /\ ReadsRecorded' /\ Applied'
<1>1. pod \in Pod /\ ~Loaded /\ PodCounts /\ PodHolds /\ Tracked /\ Applied
  BY PodFields DEF ReadSpec, ReadConfigMap, Loaded, RInv, LInv
<1>2. cm' = cm /\ pv' = pv
  BY DEF ReadConfigMap, ReadSpec, mapVars, lvmVars
<1>3. Existing' = Existing /\ Recorded' = Recorded /\ Given' = Given
  BY <1>2, SameGroups DEF Members, Recorded, Given
<1>4. Owed' = Owed
  BY DEF Owed
<1>5. CASE \E blind \in Blind : ReadSpec(spec, blind)
  <2>1. pod'.stage = "load"
    BY <1>1, <1>5 DEF ReadSpec, Pod
  <2> QED
    BY <1>1, <1>3, <1>4, <2>1 DEF Tracked, ReadsRecorded, Applied, Loaded
<1>6. CASE ReadConfigMap
  <2>1. pod'.stage = "class"
    BY <1>1, <1>6 DEF ReadConfigMap, Pod
  <2>2. Read' = Recorded
    BY <1>6, LoadReads DEF RInv
  <2>3. Successes(pod'.suc) = Read'
    <3>1. \A g \in Vg : g \in Successes(pod'.suc) <=> g \in Read'
      BY <1>1, <1>6, LoadDid
    <3>2. Read' \subseteq Vg
      BY <2>2 DEF Recorded, Successes
    <3> QED
      BY <3>1, <3>2 DEF Successes
  <2> QED
    BY <1>1, <1>3, <1>4, <2>1, <2>2, <2>3 DEF Tracked, ReadsRecorded, Applied, Loaded
<1> QED
  BY <1>5, <1>6

\* A pod that works knows of every group it makes, and forgets those only that
\* it has removed.
LEMMA WorkTracks ==
    ASSUME TInv, RInv, LInv, life = "there", UNCHANGED <<spec, job, event, seen, asks>>,
           PodStep, ~ReadConfigMap, ~Save, ~Mishap
    PROVE  Tracked' /\ ReadsRecorded' /\ Applied'
<1>1. PodCounts /\ PodHolds /\ PodMade /\ PodHasJob /\ Tracked /\ ReadsRecorded /\ Applied
  BY DEF RInv, Together, LInv
<1>2. PodDid
  BY <1>1, WorkDid DEF PodCan
<1>3. PICK C \in SUBSET Vg, D \in SUBSET Vg, N \in SUBSET Vg : Does(C, D, N)
  BY <1>2 DEF PodDid
<1>4. Loaded /\ Loaded' /\ Read' = Read /\ Recorded' = Recorded
  <2>1. Read' = Read
    BY <1>1, <1>3, DoesCounts
  <2>2. Loaded /\ Loaded' /\ cm' = cm
    BY <1>3 DEF Does
  <2> QED
    BY <2>1, <2>2 DEF Recorded
<1>5. ReadsRecorded'
  BY <1>1, <1>4 DEF ReadsRecorded
<1>6. ASSUME NEW g \in Vg \ Others, Members(g)' # {} PROVE g \in Successes(pod'.suc)
  <2>1. CASE g \in C \cup N
    BY <1>3, <2>1 DEF Does
  <2>2. CASE g \notin C \cup N
    <3>1. g \in Successes(pod.suc)
      BY <1>1, <1>3, <1>4, <1>6, <2>2 DEF Does, Tracked, Existing
    <3>2. pod.suc[g] # None /\ pod'.stage \notin {"none", "done"}
      BY <1>4, <3>1 DEF Successes, Loaded
    <3>3. ~ForgetsVg(g)
      BY DEF Mishap
    <3> QED
      BY <1>6, <3>2, <3>3 DEF ForgetsVg, Successes
  <2> QED
    BY <2>1, <2>2
<1>7. Tracked'
  BY <1>4, <1>6 DEF Tracked, Existing, Others, Theirs
<1>8. pod'.stage # "done" /\ job' = "active" /\ job = "active"
  BY <1>1, <1>4 DEF Loaded, PodHasJob
<1> QED
  BY <1>5, <1>7, <1>8 DEF Applied

\* When the pod saves, its groups are recorded, and all of them are of classes of
\* the specification.
LEMMA SaveTracks ==
    ASSUME TInv, RInv, LInv, life = "there", UNCHANGED <<spec, job, event, seen, asks>>, Save
    PROVE  Tracked' /\ ReadsRecorded' /\ Applied'
<1>1. PodCounts /\ PodHasJob /\ PodAgrees /\ PodGiven /\ Tracked /\ ReadsRecorded
  BY DEF RInv, Together, LInv
<1>2. Loaded /\ pod'.stage = "done" /\ pv' = pv /\ Stale = {}
  BY DEF Save, Between, Loaded, Gone, lvmVars
<1>3. Existing' = Existing /\ Given' = Given
  BY <1>2, SameGroups DEF Members, Given
<1>4. Existing \subseteq Successes(pod.suc)
  BY <1>1, <1>2 DEF Tracked
<1>5. Recorded' = Successes(pod.suc)
  BY <1>1, <1>2, SaveSets DEF ReadsRecorded
<1>6. Successes(pod.suc) \subseteq Given
  <2>1. Wanted = Given
    BY <1>1, <1>2 DEF PodGiven
  <2>2. CASE First
    BY <1>1, <2>1, <2>2 DEF PodCounts, Read
  <2>3. CASE ~First
    BY <1>2, <2>1, <2>3 DEF Stale
  <2> QED
    BY <2>2, <2>3
<1>7. job' = "active"
  BY <1>1, <1>2 DEF PodHasJob, Loaded
<1> QED
  BY <1>2, <1>3, <1>4, <1>5, <1>6, <1>7 DEF Tracked, ReadsRecorded, Applied, Loaded

\* The daemon records no other classes, unless it writes an old copy back.
LEMMA DaemonTracks ==
    ASSUME TInv, RInv, LInv, life = "there", UNCHANGED <<spec, job, event, seen, asks>>,
           DaemonRuns, ~StaleCheck
    PROVE  Tracked' /\ ReadsRecorded' /\ Applied'
<1>1. UNCHANGED <<pv, pod>> /\ Recorded' = Recorded
  BY DaemonDid DEF RInv
<1>2. Existing' = Existing /\ Given' = Given /\ Loaded' = Loaded /\ Read' = Read /\ Owed' = Owed
  BY <1>1, SameGroups DEF Members, Given, Loaded, Read, First, Owed
<1> QED
  BY <1>1, <1>2 DEF LInv, Tracked, ReadsRecorded, Applied

\* Nothing but the job's pod and the daemon concerns groups and records, and a pod
\* that comes or goes knows nothing.
LEMMA QuietTracks ==
    ASSUME TInv, RInv, LInv, life = "there", [Next]_vars, ~PodRuns, ~DaemonRuns, ~PodLost
    PROVE  Tracked' /\ ReadsRecorded' /\ Existing' = Existing /\ (pod'.stage = "done" => pod.stage = "done")
<1>1. /\ UNCHANGED <<cm, pv>>
      /\ pod' = pod \/ (pod.stage = "none" /\ pod' = Started) \/ pod' = Gone
  BY MapStep
<1>2. Existing' = Existing /\ Recorded' = Recorded
  BY <1>1, SameGroups DEF Members, Recorded
<1>3. CASE pod' = pod
  <2>1. Loaded' = Loaded /\ Read' = Read
    BY <1>3 DEF Loaded, Read, First
  <2> QED
    BY <1>2, <1>3, <2>1 DEF LInv, Tracked, ReadsRecorded
<1>4. CASE (pod.stage = "none" /\ pod' = Started) \/ pod' = Gone
  <2>1. ~Loaded' /\ pod'.stage \in {"none", "start"}
    BY <1>4, PodFresh
  <2>2. ~Loaded
    BY <1>4 DEF PodLost, Loaded
  <2> QED
    BY <1>2, <2>1, <2>2 DEF LInv, Tracked, ReadsRecorded
<1> QED
  BY <1>1, <1>3, <1>4

\* A specification that has changed is not forgotten before a job is asked for,
\* and a job that is asked for replaces one that is done.
LEMMA OwedStays ==
    ASSUME TInv, life = "there", Owed,
           \/ JobRuns \/ (\E l \in Launcher : Launches(l))
           \/ Reconcile \/ HandleNews \/ ServeNews \/ CheckStatus \/ RestartOperator \/ Hardware
    PROVE  Owed' \/ job' # "done" \/ pod.stage = "done"
<1>1. CASE JobRuns
  BY <1>1 DEF JobRuns, StartPod, PodSucceeded, PodFailed, clusterVars, userVars, operatorVars, Owed
<1>2. ASSUME NEW l \in Launcher, Launches(l) PROVE Owed' \/ job' # "done"
  <2>1. UNCHANGED <<event, seen, spec>> /\ asks \in [Launcher -> {"no", "get", "wait", "delete", "create"}]
    BY <1>2 DEF Launches, clusterVars, userVars, operatorVars, TInv, JobOK, JobTypeOK
  <2>2. CASE event /\ seen # spec
    BY <2>1, <2>2 DEF Owed
  <2>3. CASE \E k \in Launcher : asks[k] \in {"get", "wait", "delete"}
    <3>1. PICK k \in Launcher : asks[k] \in {"get", "wait", "delete"}
      BY <2>3
    <3>2. CASE k # l
      <4>1. asks'[k] = asks[k]
        BY <1>2, <2>1, <3>2 DEF Launches, LaunchStep, GetJob, WaitForJob, DeleteJob, CreateJob, Goes
      <4> QED
        BY <3>1, <4>1 DEF Owed
    <3>3. CASE k = l /\ (GetJob(l) \/ WaitForJob(l))
      BY <2>1, <3>1, <3>3 DEF GetJob, WaitForJob, Goes, Owed
    <3>4. CASE k = l /\ (DeleteJob(l) \/ CreateJob(l))
      BY <3>1, <3>4 DEF DeleteJob, CreateJob
    <3> QED
      BY <1>2, <3>2, <3>3, <3>4 DEF Launches, LaunchStep
  <2> QED
    BY <2>2, <2>3 DEF Owed
<1>3. CASE Reconcile
  <2>1. asks \in [Launcher -> {"no", "get", "wait", "delete", "create"}]
    BY DEF TInv, JobOK, JobTypeOK
  <2>2. CASE event /\ seen # spec
    <3>1. PICK l \in Launcher : Goes(l, "get")
      BY <1>3, <2>2 DEF Reconcile, NeedsJob
    <3> QED
      BY <2>1, <3>1 DEF Goes, Owed
  <2>3. CASE \E k \in Launcher : asks[k] \in {"get", "wait", "delete"}
    BY <1>3, <2>1, <2>3 DEF Reconcile, Idle, Goes, Owed
  <2> QED
    BY <2>2, <2>3 DEF Owed
<1>4. CASE HandleNews
  <2>1. asks \in [Launcher -> {"no", "get", "wait", "delete", "create"}]
    BY DEF TInv, JobOK, JobTypeOK
  <2>2. UNCHANGED <<spec, seen>> /\ (event => event')
    <3>1. UNCHANGED <<spec, seen>>
      BY <1>4 DEF HandleNews, userVars, operatorVars
    <3>2. event => event'
      <4>1. CASE ReportsStatus /\ event' = (event \/ report # cm.status)
        BY <4>1
      <4>2. CASE UNCHANGED event
        BY <4>2
      <4> QED
        BY <1>4, <4>1, <4>2, Zenon DEF HandleNews, Report
    <3> QED
      BY <3>1, <3>2
  <2>3. \A k \in Launcher : asks[k] # "no" => asks'[k] = asks[k]
    BY <1>4, <2>1 DEF HandleNews, RestartJob, Idle, Goes
  <2> QED
    BY <2>2, <2>3 DEF Owed
<1>5. CASE ServeNews \/ CheckStatus
  BY <1>5 DEF ServeNews, CheckStatus, jobVars, userVars, operatorVars, Owed
<1>6. CASE RestartOperator
  BY <1>6, NodeAssumption DEF RestartOperator, userVars, TInv, ClusterTypeOK, Owed
<1>7. CASE Hardware
  BY <1>7 DEF Hardware, jobVars, clusterVars, userVars, operatorVars, Owed
<1> QED
  BY <1>1, <1>2, <1>3, <1>4, <1>5, <1>6, <1>7

\* While the cluster stays there, a job that is done has left groups of the
\* specification only, or another one is on its way.
LEMMA ThereStays ==
    ASSUME TInv, RInv, LInv, Patient = TRUE, life = "there", life' = "there", [Next]_vars, ~Mishap
    PROVE  LInv'
<1>1. CASE PodRuns
  <2>1. UNCHANGED <<spec, job, event, seen, asks>>
    BY <1>1 DEF PodRuns, jobVars, clusterVars, userVars, operatorVars
  <2> QED
    BY <1>1, <2>1, LoadTracks, WorkTracks, SaveTracks DEF PodRuns, LInv
<1>2. CASE DaemonRuns
  <2>1. UNCHANGED <<spec, job, event, seen, asks>>
    BY <1>2 DEF DaemonRuns, jobVars, clusterVars, userVars, operatorVars
  <2> QED
    BY <1>2, <2>1, DaemonTracks DEF LInv, Mishap
<1>3. CASE ~PodRuns /\ ~DaemonRuns
  <2>1. Tracked' /\ ReadsRecorded' /\ Existing' = Existing /\ (pod'.stage = "done" => pod.stage = "done")
    BY <1>3, QuietTracks DEF Mishap
  <2>2. Applied
    BY DEF LInv
  <2>3. CASE \/ JobRuns \/ (\E l \in Launcher : Launches(l))
             \/ Reconcile \/ HandleNews \/ ServeNews \/ CheckStatus \/ RestartOperator \/ Hardware
    <3>1. spec' = spec
      BY <2>3 DEF JobRuns, Launches, Reconcile, HandleNews, ServeNews, CheckStatus, RestartOperator, Hardware,
        clusterVars, userVars
    <3>2. Given' = Given
      BY <3>1 DEF Given
    <3>3. job' = "done" => job = "done" \/ pod.stage = "done"
      BY <2>3 DEF JobRuns, StartPod, PodSucceeded, PodFailed, Launches, LaunchStep, GetJob, WaitForJob, DeleteJob,
        CreateJob, Reconcile, HandleNews, ServeNews, CheckStatus, RestartOperator, Hardware, jobVars
    <3>4. Owed => Owed' \/ job' # "done" \/ pod.stage = "done"
      BY <2>3, OwedStays
    <3> QED
      BY <2>1, <2>2, <3>2, <3>3, <3>4 DEF LInv, Applied
  <2>4. CASE \E new \in Wishes : Edit(new)
    <3>1. Settled /\ event' /\ seen' = seen /\ spec' # spec /\ pod' = pod /\ job' = job
      BY <2>4 DEF Edit, UserStep, operatorVars, podVars, jobVars
    <3>2. seen = spec /\ job = "done"
      BY <3>1 DEF Settled
    <3>3. pod.stage # "done"
      BY <3>2 DEF RInv, PodHasJob
    <3> QED
      BY <2>1, <3>1, <3>2, <3>3 DEF LInv, Applied, Owed
  <2>5. CASE UNCHANGED vars
    <3>1. Given' = Given /\ Owed' = Owed /\ job' = job /\ pod' = pod
      BY <2>5 DEF vars, podVars, jobVars, clusterVars, userVars, operatorVars, Given, Owed
    <3> QED
      BY <2>1, <2>2, <3>1 DEF LInv, Applied
  <2>6. ~Deletion /\ ~CollectGarbage /\ ~DeleteCluster /\ ~(\E new \in Wishes : CreateCluster(new))
    BY DEF Deletion, ReconcileDelete, CleanMap, EndDeletion, DeletionAt, CollectGarbage, DeleteCluster, CreateCluster
  <2>7. ~CleanerRuns /\ ~CleanerDies
    BY CleanerAway
  <2> QED
    BY <1>3, <2>3, <2>4, <2>5, <2>6, <2>7 DEF Next
<1> QED
  BY <1>1, <1>2, <1>3

-----------------------------------------------------------------------------
(* A cluster that is deleted, and one that is created again.               *)

\* When users may delete a cluster, no job runs and none is asked for.
LEMMA DeletionQuiet ==
    ASSUME RInv, Patient = TRUE, DeleteCluster
    PROVE  NoJob' /\ Emptied'
<1>1. /\ Settled /\ life = "there" /\ life' = "deleted" /\ UNCHANGED <<pod, job, asks>>
  BY DEF DeleteCluster, UserStep, podVars, jobVars
<1>2. job = "done" /\ \A l \in Launcher : asks[l] = "no"
  BY <1>1 DEF Settled, Idle
<1>3. pod.stage = "none"
  BY <1>2 DEF RInv, PodHasJob
<1> QED
  BY <1>1, <1>2, <1>3 DEF NoJob, Emptied, Idle

\* Only users begin and end the life of a cluster.
LEMMA LifeChanges ==
    ASSUME RInv, [Next]_vars
    PROVE  /\ life = "there" /\ life' # "there" => DeleteCluster
           /\ life # "there" /\ life' = "there" => \E new \in Wishes : CreateCluster(new)
BY CleanerAway DEF Next, PodRuns, JobRuns, Launches, DaemonRuns, Reconcile, HandleNews, ServeNews, CheckStatus,
  RestartOperator, Deletion, ReconcileDelete, CleanMap, EndDeletion, DeletionAt, CollectGarbage, DeleteCluster, Edit,
  CreateCluster, Hardware, vars, clusterVars

\* A cluster is deleted when its last job is done and no other one is asked for.
LEMMA DeletionBegins ==
    ASSUME TInv, RInv, LInv, Patient = TRUE, DeleteCluster
    PROVE  LInv'
<1>1. /\ Settled /\ life = "there" /\ life' = "deleted"
      /\ UNCHANGED <<pv, cm, pod, job, asks, cleaner, seen, spec>>
  BY DEF DeleteCluster, UserStep, podVars, lvmVars, mapVars, jobVars, operatorVars
<1>2. ~event /\ job = "done" /\ \A l \in Launcher : asks[l] = "no"
  BY <1>1 DEF Settled, Idle
<1>3. ~Owed
  BY <1>2 DEF Owed
<1>4. Existing \subseteq Given
  BY <1>1, <1>2, <1>3 DEF LInv, Applied
<1>5. cleaner.stage \in {"none", "done"}
  BY <1>1 DEF RInv, Together
<1>6. Existing' = Existing /\ Given' = Given
  BY <1>1, SameGroups DEF Members, Given
<1>7. NoJob' /\ Emptied'
  BY DeletionQuiet
<1>8. CleansUp'
  BY <1>1, <1>4, <1>5, <1>6 DEF CleansUp, CleanerWorks
<1> QED
  BY <1>1, <1>7, <1>8 DEF LInv

\* A cluster that is created again finds no group of ours.
LEMMA CreationBegins ==
    ASSUME TInv, LInv, Patient = TRUE, NEW new, CreateCluster(new)
    PROVE  LInv'
<1>1. life = "gone" /\ life' = "there" /\ UNCHANGED <<pv, pod>>
  BY DEF CreateCluster, UserStep, podVars, lvmVars
<1>2. Existing = {} /\ pod.stage = "none"
  BY <1>1 DEF LInv, NoJob, CleansUp
<1>3. Existing' = {}
  BY <1>1, <1>2, SameGroups DEF Members
<1> QED
  BY <1>1, <1>2, <1>3 DEF LInv, Tracked, ReadsRecorded, Applied, Loaded

-----------------------------------------------------------------------------
(* While the cluster is deleted, and when it is gone.                      *)

\* Without a job there is no pod, and the daemon, the operator and the
\* administrator ask for none.
LEMMA NoJobStays ==
    ASSUME TInv, RInv, NoJob, life # "there", life' # "there", [Next]_vars, ~JobAsked
    PROVE  NoJob'
<1>1. pod.stage = "none" /\ job \in {"none", "done"} /\ \A l \in Launcher : asks[l] = "no"
  BY DEF NoJob, Idle
<1>2. \A l \in Launcher : Idle(l)'
  BY <1>1 DEF JobAsked, Idle
<1>3. ~PodRuns
  BY <1>1 DEF PodRuns, PodStep, ReadSpec, ReadConfigMap, CreateVg, ExpandVg, KeepVg, ShrinkVg, RemoveReducedPvs,
    RemoveVg, Save, StartCreate, StartExpand, DeleteVg, CreatePv, ExpandPv, RemovePv, Expanded, Between
<1>4. ~JobRuns /\ \A l \in Launcher : ~Launches(l)
  BY <1>1 DEF JobRuns, StartPod, PodSucceeded, PodFailed, Launches, LaunchStep, GetJob, WaitForJob, DeleteJob, CreateJob
<1>5. CASE CollectGarbage
  BY <1>2, <1>5 DEF CollectGarbage, NoJob, Gone
<1>6. CASE ~CollectGarbage
  <2>1. UNCHANGED <<pod, job>>
    <3>1. CASE DaemonRuns
      BY <3>1, DaemonDid DEF RInv, DaemonRuns, jobVars
    <3>2. CASE CleanerRuns \/ CleanerDies
      BY <3>2 DEF CleanerRuns, CleanerDies, jobVars
    <3>3. CASE Reconcile \/ HandleNews \/ ServeNews \/ CheckStatus \/ RestartOperator
      BY <3>3 DEF Reconcile, HandleNews, ServeNews, CheckStatus, RestartOperator, podVars, jobVars
    <3>4. CASE Deletion
      BY <3>4 DEF Deletion, ReconcileDelete, CleanMap, EndDeletion, DeletionAt, jobVars
    <3>5. CASE DeleteCluster \/ \E new \in Wishes : Edit(new) \/ CreateCluster(new)
      BY <3>5 DEF DeleteCluster, Edit, CreateCluster, UserStep, podVars, jobVars
    <3>6. CASE Hardware \/ UNCHANGED vars
      BY <3>6 DEF Hardware, vars, podVars, jobVars
    <3> QED
      BY <1>3, <1>4, <1>6, <3>1, <3>2, <3>3, <3>4, <3>5, <3>6 DEF Next
  <2> QED
    BY <1>1, <1>2, <2>1 DEF NoJob
<1> QED
  BY <1>5, <1>6

\* The clean-up strikes off a group only when it has removed it.
LEMMA CleanerCleans ==
    ASSUME TInv, RInv, LInv, CleanUp, CleanerRuns, ~Mishap
    PROVE  CleansUp'
<1>1. life # "there" /\ life' = life /\ spec' = spec
  BY CleanerAway DEF CleanerRuns, clusterVars, userVars
<1>2. CleansUp
  BY <1>1 DEF LInv
<1>3. Given' = Given /\ cleaner \in Cleaner
  BY <1>1 DEF Given, TInv, CleanerTypeOK
<1>4. CASE life # "gone" /\ ReadGroups(spec, DisksToClean)
  <2>1. Existing' = Existing
    BY <1>4, SameGroups DEF ReadGroups, lvmVars, Members
  <2>2. cleaner.stage = "start" /\ cleaner'.stage = "groups" /\ cleaner'.groups = Given
    BY <1>3, <1>4 DEF ReadGroups, Cleaner, Given
  <2> QED
    BY <1>1, <1>2, <1>4, <2>1, <2>2 DEF CleansUp, CleanerWorks
<1>5. CASE RetryCleaner(life # "gone")
  BY <1>2, <1>5 DEF RetryCleaner, CleansUp, CleanerWorks
<1>6. CASE CleanerStep
  <2>1. /\ cleaner.stage \in {"groups", "unmake"} /\ Existing \subseteq cleaner.groups
        /\ cleaner'.stage \in {"groups", "unmake"} \/ (cleaner'.stage = "done" /\ cleaner.groups = {})
    BY <1>2, <1>3, <1>6 DEF CleanerStep, EndCleaner, CleanGroup, CleanPv, CleanNamed, CleansUp, Cleaner
  <2>2. ASSUME NEW g \in Vg \ Others, Members(g)' # {} PROVE Members(g) # {}
    <3>1. CASE EndCleaner
      BY <2>2, <3>1 DEF EndCleaner, lvmVars, Members
    <3>2. ASSUME NEW h \in Vg, CleanGroup(h) PROVE Members(g) # {}
      <4>1. CASE Works(CanVgRemove(h), Members(h), Label)
        BY <2>2, <4>1, Removed
      <4>2. CASE Fails(CanVgRemove(h))
        BY <2>2, <4>2 DEF Fails, Members
      <4> QED
        BY <3>2, <4>1, <4>2 DEF CleanGroup
    <3>3. ASSUME NEW d \in Disk, CleanPv(d) \/ CleanNamed(d) PROVE Members(g) # {}
      <4>1. Works(CanPvRemove({d}), {d}, Raw) \/ Fails(CanPvRemove({d}))
        BY <3>3 DEF CleanPv, CleanNamed
      <4>2. CanPvRemove({d}) => \A x \in {d} : pv[x] \in {Raw, Label}
        BY DEF CanPvRemove
      <4>3. Members(g)' = Members(g)
        BY <4>1, <4>2, LabelsOnly
      <4> QED
        BY <2>2, <4>3
    <3> QED
      BY <1>6, <3>1, <3>2, <3>3 DEF CleanerStep
  <2>3. Existing' \subseteq cleaner.groups
    BY <2>1, <2>2 DEF Existing, Others, Theirs
  <2>4. Existing' \subseteq cleaner'.groups
    <3>1. ASSUME NEW g \in Existing', g \notin cleaner'.groups PROVE FALSE
      <4>1. g \in cleaner.groups \ cleaner'.groups /\ g \in Vg /\ Members(g)' # {}
        BY <2>3, <3>1 DEF Existing
      <4> QED
        BY <4>1 DEF Mishap, SkipsVg
    <3> QED
      BY <3>1
  <2>5. cleaner'.stage = "done" => Existing' = {}
    BY <2>1, <2>3
  <2> QED
    BY <1>1, <1>2, <2>1, <2>4, <2>5 DEF CleansUp, CleanerWorks
<1> QED
  BY <1>4, <1>5, <1>6 DEF CleanerRuns

\* No group comes back beside the clean-up, and the finalizer goes when it is done.
LEMMA CleansStays ==
    ASSUME TInv, RInv, LInv, CleanUp, life # "there", life' # "there", [Next]_vars, ~Mishap
    PROVE  CleansUp'
<1>1. NoJob /\ CleansUp
  BY DEF LInv
<1>2. CASE CleanerRuns
  BY <1>2, CleanerCleans
<1>3. ~CleanerDies
  BY DEF CleanerDies, CleanerFails, NoCleaner, Mishap, CleanerLost
<1>4. CASE CleanMap
  <2>1. /\ life = "maps" /\ life' = "jobs" /\ ~CleanerWorks /\ cleaner'.stage = "start"
        /\ UNCHANGED <<pv, spec>>
    BY <1>4 DEF CleanMap, DeletionAt, StartedCleaner, NoCleaner, userVars
  <2>2. Existing' = Existing /\ Given' = Given
    BY <2>1, SameGroups DEF Members, Given
  <2> QED
    BY <1>1, <2>1, <2>2 DEF CleansUp, CleanerWorks
<1>5. CASE ReconcileDelete \/ EndDeletion \/ RestartOperator
  <2>1. UNCHANGED <<pv, spec, cleaner>>
    BY <1>5 DEF ReconcileDelete, EndDeletion, RestartOperator, DeletionAt, userVars
  <2>2. Existing' = Existing /\ Given' = Given /\ CleanerWorks' = CleanerWorks
    BY <2>1, SameGroups DEF Members, Given, CleanerWorks
  <2>3. CASE ReconcileDelete
    <3>1. life = "deleted" /\ life' = "maps"
      BY <2>3 DEF ReconcileDelete, DeletionAt
    <3> QED
      BY <1>1, <2>1, <2>2, <3>1 DEF CleansUp
  <2>4. CASE EndDeletion
    <3>1. life = "jobs" /\ life' = "gone" /\ ~CleanerWorks
      BY <2>4 DEF EndDeletion, DeletionAt, Mishap, CleanerLate
    <3> QED
      BY <1>1, <2>1, <2>2, <3>1 DEF CleansUp
  <2>5. CASE RestartOperator
    <3>1. life' = IF life \in {"maps", "jobs"} THEN "deleted" ELSE life
      BY <2>5 DEF RestartOperator
    <3> QED
      BY <1>1, <2>1, <2>2, <3>1 DEF CleansUp
  <2> QED
    BY <1>5, <2>3, <2>4, <2>5
<1>6. CASE UNCHANGED <<pv, spec, cleaner, life>>
  <2>1. Existing' = Existing /\ Given' = Given /\ CleanerWorks' = CleanerWorks
    BY <1>6, SameGroups DEF Members, Given, CleanerWorks
  <2> QED
    BY <1>1, <1>6, <2>1 DEF CleansUp
<1>7. CASE DaemonRuns
  <2>1. pv' = pv
    BY <1>7, DaemonDid DEF RInv
  <2> QED
    BY <1>6, <1>7, <2>1 DEF DaemonRuns, clusterVars, userVars
<1>8. CASE HandleNews \/ ServeNews \/ CheckStatus \/ CollectGarbage \/ Hardware \/ UNCHANGED vars
  BY <1>6, <1>8 DEF HandleNews, ServeNews, CheckStatus, CollectGarbage, Hardware, LoseDisk, ReturnDisk, CreateVolume,
    DeleteVolume, vars, podVars, lvmVars, clusterVars, userVars
<1>9. ~PodRuns
  BY <1>1 DEF NoJob, PodRuns, PodStep, ReadSpec, ReadConfigMap, CreateVg, ExpandVg, KeepVg, ShrinkVg, RemoveReducedPvs,
    RemoveVg, Save, StartCreate, StartExpand, DeleteVg, CreatePv, ExpandPv, RemovePv, Expanded, Between
<1>10. ~JobRuns /\ \A l \in Launcher : ~Launches(l)
  BY <1>1 DEF NoJob, Idle, JobRuns, StartPod, PodSucceeded, PodFailed, Launches, LaunchStep, GetJob, WaitForJob, DeleteJob, CreateJob
<1>11. ~Reconcile /\ ~DeleteCluster /\ ~(\E new \in Wishes : Edit(new) \/ CreateCluster(new))
  BY DEF Reconcile, DeleteCluster, Edit, CreateCluster
<1> QED
  BY <1>2, <1>3, <1>4, <1>5, <1>7, <1>8, <1>9, <1>10, <1>11 DEF Next, Deletion

\* A check of the classes that finds none recorded has none to record.
LEMMA EmptyCheck ==
    ASSUME TInv, DaemonCounts, NoStatus, WriteClasses, ~StaleCheck
    PROVE  NoStatus'
<1> DEFINE old == [NoData EXCEPT !.status = daemon.base]
           new == [old EXCEPT !.status.suc = daemon.new]
<1>1. /\ daemon.stage = "checked" /\ daemon.base \in Status /\ daemon.new \in [Vg -> Class \cup {None}]
      /\ Patch(old, new)
  BY DEF WriteClasses, TInv, DaemonOK, DaemonAtWork
<1>2. daemon'.stage = "idle"
  BY DEF WriteClasses, Resting
<1>3. Successes(daemon.base.suc) = {}
  BY <1>1, <1>2, RecordedIs DEF StaleCheck
<1>4. Successes(daemon.new) = {}
  BY <1>1, <1>3 DEF DaemonCounts
<1>5. daemon.base.suc \in [Vg -> Class \cup {None}] /\ daemon.base = [suc |-> daemon.base.suc, fail |-> daemon.base.fail]
  BY <1>1 DEF Status
<1>6. daemon.new = daemon.base.suc
  BY <1>1, <1>3, <1>4, <1>5 DEF Successes
<1>7. old.status = daemon.base /\ new.status = [daemon.base EXCEPT !.suc = daemon.new]
  BY DEF NoData
<1>8. new.status = old.status
  BY <1>5, <1>6, <1>7
<1>9. cm # NoMap /\ cm'.status = cm.status
  <2> HIDE DEF old, new
  <2> QED
    BY <1>1, <1>8, Patched
<1> QED
  BY <1>9 DEF NoStatus

\* The daemon puts nothing into a ConfigMap that the operator has emptied.
LEMMA DaemonEmpty ==
    ASSUME TInv, RInv, DaemonRuns, ~StaleCheck, NoStatus, LvmdOf(cm) = None
    PROVE  NoStatus' /\ LvmdOf(cm)' = None
<1>1. CASE WriteDevices \/ CreateDevices
  BY <1>1, DevicesSame DEF RecordsSame
<1>2. CASE WriteClasses
  BY <1>2, EmptyCheck, WriteClassesWrites DEF RInv
<1>3. CASE \/ \E blind \in Blind : ScanDisks(blind)
           \/ FindNoMap \/ SkipClasses \/ ReadClasses \/ CheckGroups \/ RestartDaemon
  <2>1. cm' = cm
    BY <1>3 DEF ScanDisks, FindNoMap, SkipClasses, ReadClasses, CheckGroups, RestartDaemon, mapVars
  <2> QED
    BY <2>1 DEF NoStatus, LvmdOf
<1> QED
  BY <1>1, <1>2, <1>3 DEF DaemonRuns, DaemonStep

\* What the operator has taken out of the ConfigMap stays out.
LEMMA EmptiedStays ==
    ASSUME TInv, RInv, NoJob, Emptied, life # "there", life' # "there", [Next]_vars, ~StaleCheck
    PROVE  Emptied'
<1>2. CASE life' \notin {"jobs", "gone"}
  BY <1>2 DEF Emptied
<1>3. CASE CleanMap
  <2>1. CASE cm = NoMap
    BY <1>3, <2>1 DEF CleanMap, mapVars, Emptied, NoStatus, LvmdOf
  <2>2. CASE cm # NoMap
    <3>1. cm \in Data /\ cm' = [cm EXCEPT !.status = None, !.lvmd = None]
      BY <1>3, <2>2 DEF CleanMap, Write, TInv, PodData, MapOK, MapTypeOK
    <3>2. cm'.status = None /\ cm'.lvmd = None
      BY <3>1 DEF Data
    <3> QED
      BY <3>2 DEF Emptied, NoStatus, LvmdOf
  <2> QED
    BY <2>1, <2>2
<1>4. CASE life \in {"jobs", "gone"} /\ cm' = cm
  BY <1>4 DEF Emptied, NoStatus, LvmdOf
<1>5. CASE life \in {"jobs", "gone"} /\ DaemonRuns
  BY <1>5, DaemonEmpty DEF Emptied
<1>6. CASE life' \in {"jobs", "gone"} /\ ~CleanMap /\ ~DaemonRuns
  <2>1. ~PodRuns
    BY DEF NoJob, PodRuns, PodStep, ReadSpec, ReadConfigMap, CreateVg, ExpandVg, KeepVg, ShrinkVg,
      RemoveReducedPvs, RemoveVg, Save, StartCreate, StartExpand, DeleteVg, CreatePv, ExpandPv, RemovePv, Expanded,
      Between
  <2>2. CASE JobRuns \/ \E l \in Launcher : Launches(l)
    BY <1>4, <1>6, <2>2 DEF JobRuns, StartPod, PodSucceeded, PodFailed, PodFails, Launches, LaunchStep, GetJob,
      WaitForJob, DeleteJob, CreateJob, mapVars, clusterVars
  <2>3. CASE CleanerRuns \/ CleanerDies
    BY <1>4, <1>6, <2>3, CleanerAway
  <2>4. CASE Reconcile \/ HandleNews \/ ServeNews \/ CheckStatus
    BY <1>4, <1>6, <2>4 DEF Reconcile, HandleNews, ServeNews, CheckStatus, podVars, mapVars
  <2>5. CASE RestartOperator \/ ReconcileDelete \/ EndDeletion
    BY <1>4, <1>6, <2>5 DEF RestartOperator, ReconcileDelete, EndDeletion, DeletionAt, mapVars
  <2>6. CASE CollectGarbage \/ Hardware \/ UNCHANGED vars
    BY <1>4, <1>6, <2>6 DEF CollectGarbage, Hardware, vars, podVars, mapVars, clusterVars
  <2>7. ~DeleteCluster /\ ~(\E new \in Wishes : Edit(new) \/ CreateCluster(new))
    BY DEF DeleteCluster, Edit, CreateCluster
  <2> QED
    BY <1>6, <2>1, <2>2, <2>3, <2>4, <2>5, <2>6, <2>7 DEF Next, Deletion
<1>7. DaemonRuns => life' = life
  BY DEF DaemonRuns, clusterVars
<1> QED
  BY <1>2, <1>3, <1>5, <1>6, <1>7

-----------------------------------------------------------------------------
(* What is left.                                                           *)

\* As long as nothing of the kind happens, every step keeps the invariant.
LEMMA LeftKept ==
    ASSUME TInv, RInv, LInv, Patient = TRUE, CleanUp, [Next]_vars, ~Mishap
    PROVE  LInv'
<1>1. CASE life = "there" /\ life' = "there"
  BY <1>1, ThereStays
<1>2. CASE life # "there" /\ life' # "there"
  BY <1>2, NoJobStays, CleansStays, EmptiedStays DEF LInv, Mishap
<1>3. CASE life = "there" /\ life' # "there"
  BY <1>3, LifeChanges, DeletionBegins
<1>4. CASE life # "there" /\ life' = "there"
  BY <1>4, LifeChanges, CreationBegins
<1> QED
  BY <1>1, <1>2, <1>3, <1>4

\* A step that changes nothing is no mishap.
LEMMA StillGood ==
    ASSUME UNCHANGED vars
    PROVE  ~Mishap
<1>1. UNCHANGED <<pv, pod, asks, daemon, cleaner, life>>
  BY DEF vars, podVars, lvmVars, jobVars, clusterVars
<1>2. ~StaleCheck /\ ~PodLost /\ ~CleanerLost /\ ~CleanerLate
  BY <1>1 DEF StaleCheck, PodLost, Gone, CleanerLost, CleanerLate, CleanerWorks
<1>3. ~JobAsked /\ \A g \in Vg : ~ForgetsVg(g) /\ ~SkipsVg(g)
  BY <1>1 DEF JobAsked, Idle, ForgetsVg, SkipsVg
<1> QED
  BY <1>2, <1>3 DEF Mishap

\* A node starts with the groups of others only.
LEMMA LeftInit ==
    ASSUME Init
    PROVE  LInv
<1>1. life = "there" /\ pod.stage = "none" /\ job = "none" /\ pv = Foreign
  BY DEF Init, JobInit, Gone
<1>2. Existing = {}
  BY <1>1 DEF Existing, Members, Others, Theirs
<1> QED
  BY <1>1, <1>2 DEF LInv, Tracked, ReadsRecorded, Applied, Loaded

\* The invariant says what is left of a cluster that is gone.
LEMMA LeftIs ==
    ASSUME TInv, LInv
    PROVE  NothingLeft
<1> SUFFICES ASSUME life = "gone" PROVE NothingLeft
  BY DEF NothingLeft
<1>1. NoStatus /\ LvmdOf(cm) = None /\ Existing = {}
  BY DEF LInv, CleansUp, Emptied
<1>2. cm # NoMap => cm.status = None /\ cm.lvmd = None
  BY <1>1 DEF NoStatus, LvmdOf
<1>3. ASSUME NEW g \in Vg, \A d \in Disk : Foreign[d] # g PROVE Members(g) = {}
  BY <1>1, <1>3 DEF Existing, Others, Theirs
<1> QED
  BY <1>2, <1>3 DEF NothingLeft

\* A cluster that is deleted with its clean-up, on a node of any disks, groups,
\* jobs and earlier clusters, leaves neither groups of ours nor records behind,
\* unless one of the mishaps named by Mishap has happened on the way
\* (reconcileDelete, cleanLvmdConfigmap, cleanVgs, RunReplaceableJob).
THEOREM NothingIsLeft == Patient = TRUE => (Spec /\ [][~Mishap]_vars => []NothingLeft)
<1> SUFFICES ASSUME Patient = TRUE PROVE Spec /\ [][~Mishap]_vars => []NothingLeft
  OBVIOUS
<1>1. Spec => [](TInv /\ RInv)
  BY RecordsInvariant
<1>2. CASE CleanUp
  <2>1. Init => LInv
    BY LeftInit
  <2>2. TInv /\ RInv /\ LInv /\ [Next]_vars /\ [~Mishap]_vars => LInv'
    BY <1>2, LeftKept, StillGood
  <2>3. TInv /\ LInv => NothingLeft
    BY LeftIs
  <2> QED
    BY <1>1, <2>1, <2>2, <2>3, PTL DEF Spec
<1>3. CASE ~CleanUp
  <2>1. TRUE => NothingLeft
    BY <1>3 DEF NothingLeft
  <2> QED
    BY <2>1, PTL
<1> QED
  BY <1>2, <1>3

-----------------------------------------------------------------------------
(* Without an old check, nothing else is old.                              *)

\* Neither a pod that works nor one that starts is behind the records.
LEMMA ReadsKept ==
    ASSUME TInv, RInv, life = "there", ReadsRecorded, Patient = TRUE, [Next]_vars, ~StaleCheck
    PROVE  ReadsRecorded'
<1>1. CASE PodRuns
  <2>1. CASE \E blind \in Blind : ReadSpec(spec, blind)
    <3>1. ~Loaded'
      BY <2>1, PodFields DEF RInv, ReadSpec, Pod, Loaded
    <3> QED
      BY <3>1 DEF ReadsRecorded
  <2>2. CASE ReadConfigMap
    <3>1. Read' = Recorded /\ cm' = cm
      BY <2>2, LoadReads DEF RInv, ReadConfigMap, mapVars
    <3> QED
      BY <3>1 DEF ReadsRecorded, Recorded
  <2>3. CASE Save
    <3>1. ~Loaded'
      BY <2>3 DEF Save, Gone, Loaded
    <3> QED
      BY <3>1 DEF ReadsRecorded
  <2>4. CASE PodStep /\ ~ReadConfigMap /\ ~Save
    <3>1. PodDid
      BY <2>4, WorkDid DEF RInv, Together, PodCan
    <3>2. PICK C \in SUBSET Vg, D \in SUBSET Vg, N \in SUBSET Vg : Does(C, D, N)
      BY <3>1 DEF PodDid
    <3>3. Read' = Read
      BY <3>2, DoesCounts DEF RInv
    <3>4. Loaded /\ cm' = cm
      BY <3>2 DEF Does
    <3> QED
      BY <3>3, <3>4 DEF ReadsRecorded, Recorded
  <2> QED
    BY <1>1, <2>1, <2>2, <2>3, <2>4 DEF PodRuns
<1>2. CASE DaemonRuns
  <2>1. pod' = pod /\ Recorded' = Recorded
    BY <1>2, DaemonDid DEF RInv
  <2> QED
    BY <2>1 DEF ReadsRecorded, Loaded, Read, First
<1>3. CASE ~PodRuns /\ ~DaemonRuns
  <2>1. /\ cm' = cm
        /\ pod' = pod \/ (pod.stage = "none" /\ pod' = Started) \/ pod' = Gone
    BY <1>3, MapStep
  <2>2. CASE pod' = pod
    BY <2>1, <2>2 DEF ReadsRecorded, Loaded, Read, First, Recorded
  <2>3. CASE pod' \in {Gone, Started}
    BY <2>3, PodFresh DEF ReadsRecorded
  <2> QED
    BY <2>1, <2>2, <2>3
<1> QED
  BY <1>1, <1>2, <1>3

\* While a cluster is there its pods are up to date; between two clusters there
\* are none.
LEMMA CurrentKept ==
    ASSUME TInv, RInv, Patient = TRUE, [Next]_vars, ~StaleCheck, life = "there" => ReadsRecorded
    PROVE  life' = "there" => ReadsRecorded'
<1>1. CASE life = "there"
  BY <1>1, ReadsKept
<1>2. CASE life # "there" /\ life' = "there"
  <2>1. PICK new \in Wishes : CreateCluster(new)
    BY <1>2, LifeChanges
  <2>2. job = "none" /\ pod' = pod
    BY <1>2, <2>1 DEF CreateCluster, UserStep, Settled, podVars
  <2>3. ~Loaded'
    BY <2>2 DEF RInv, PodHasJob, Loaded
  <2> QED
    BY <2>3 DEF ReadsRecorded
<1> QED
  BY <1>1, <1>2

\* No pod writes back an old copy of the records unless the daemon has done so
\* first: StaleSave, one of the exceptions of RecordsKept, never comes alone
\* (provisionWithNodeStatus, PatchConfigMap).
THEOREM PodsAreCurrent ==
    Patient = TRUE => (Spec /\ [][~StaleCheck]_vars => [][life = "there" => ~StaleSave]_vars)
<1> SUFFICES ASSUME Patient = TRUE
             PROVE  Spec /\ [][~StaleCheck]_vars => [][life = "there" => ~StaleSave]_vars
  OBVIOUS
<1> DEFINE Current == life = "there" => ReadsRecorded
<1>1. Spec => [](TInv /\ RInv)
  BY RecordsInvariant
<1>2. Init => Current
  BY DEF Init, Gone, ReadsRecorded, Loaded
<1>3. TInv /\ RInv /\ Current /\ [Next]_vars /\ [~StaleCheck]_vars => Current'
  BY CurrentKept, StillGood DEF Mishap
<1>4. Current => (life = "there" => ~StaleSave)
  BY DEF ReadsRecorded, Loaded, StaleSave
<1> HIDE DEF Current
<1> QED
  BY <1>1, <1>2, <1>3, <1>4, PTL DEF Spec

-----------------------------------------------------------------------------

\* What is served and what is recorded, from one cluster to the next.
SInv == Served = Recorded /\ (life # "there" => NoJob /\ Emptied)

\* Every step serves what it records.
LEMMA ServedSame ==
    ASSUME TInv, RInv, SInv, Patient = TRUE, [Next]_vars, ~StaleCheck, ~JobAsked
    PROVE  SInv'
<1>1. CASE life = "there"
  <2>1. Served' = Recorded'
    BY <1>1, ServedKept DEF SInv, ServedStep
  <2>2. life' # "there" => NoJob' /\ Emptied'
    BY <1>1, LifeChanges, DeletionQuiet
  <2> QED
    BY <2>1, <2>2 DEF SInv
<1>2. CASE life # "there" /\ life' = "there"
  <2>1. cm' = cm
    BY <1>2, LifeChanges DEF CreateCluster, UserStep, podVars, mapVars
  <2> QED
    BY <1>2, <2>1, MapSame DEF SInv, RecordsSame
<1>3. CASE life # "there" /\ life' # "there"
  <2>1. NoJob' /\ Emptied'
    BY <1>3, NoJobStays, EmptiedStays DEF SInv
  <2>2. CASE CleanMap
    <3>1. life' = "jobs"
      BY <2>2 DEF CleanMap
    <3> QED
      BY <2>1, <3>1 DEF SInv, Emptied, NoStatus, LvmdOf, Served, Recorded
  <2>3. CASE DaemonRuns
    BY <2>1, <2>3, DaemonDid DEF RInv, SInv
  <2>4. CASE ~CleanMap /\ ~DaemonRuns
    <3>1. cm' = cm
      <4>1. ~PodRuns
        BY <1>3 DEF SInv, NoJob, PodRuns, PodStep, ReadSpec, ReadConfigMap, CreateVg, ExpandVg, KeepVg, ShrinkVg,
          RemoveReducedPvs, RemoveVg, Save, StartCreate, StartExpand, DeleteVg, CreatePv, ExpandPv, RemovePv,
          Expanded, Between
      <4>2. CASE QuietNext
        BY <4>2, QuietSteps DEF QuietStays
      <4>3. CASE CleanerRuns \/ CleanerDies
        BY <4>3, CleanerAway
      <4>4. CASE \E new \in Wishes : Edit(new) \/ CreateCluster(new)
        BY <4>4 DEF Edit, CreateCluster, UserStep, podVars, mapVars
      <4>5. CASE UNCHANGED vars
        BY <4>5 DEF vars, podVars, mapVars
      <4> QED
        BY <2>4, <4>1, <4>2, <4>3, <4>4, <4>5 DEF Next, Deletion, QuietNext
    <3> QED
      BY <2>1, <3>1, MapSame DEF SInv, RecordsSame
  <2> QED
    BY <2>2, <2>3, <2>4
<1> QED
  BY <1>1, <1>2, <1>3

\* lvmd is configured for exactly the recorded classes in every state, through all
\* edits, faults, deletions and re-creations, as long as the daemon writes no old
\* check back and no job is asked for during a deletion (updateLvmdConf,
\* createLvmdConf, cleanLvmdConfigmap).
THEOREM ServedAlwaysRecorded ==
    Patient = TRUE => (Spec /\ [][~StaleCheck /\ ~JobAsked]_vars => [](Served = Recorded))
<1> SUFFICES ASSUME Patient = TRUE
             PROVE  Spec /\ [][~StaleCheck /\ ~JobAsked]_vars => [](Served = Recorded)
  OBVIOUS
<1>1. Spec => [](TInv /\ RInv)
  BY RecordsInvariant
<1>2. Init => SInv
  BY DEF Init, MapInit, SInv, Served, Recorded
<1>3. TInv /\ RInv /\ SInv /\ [Next]_vars /\ [~StaleCheck /\ ~JobAsked]_vars => SInv'
  BY ServedSame, StillGood DEF Mishap
<1>4. SInv => Served = Recorded
  BY DEF SInv
<1> QED
  BY <1>1, <1>2, <1>3, <1>4, PTL DEF Spec
=============================================================================
