----------------------------- MODULE TopolvmNode -----------------------------
(***************************************************************************)
(* One node of a TopolvmCluster: its disks, the preparevg job, the         *)
(* discovery daemon, and the parts of the operator that deal with the node *)
(* (pkg/operator/topolvm/controller): the reconciler, which asks for a job *)
(* when the specification has changed, and the handler of the informer of  *)
(* lvmd ConfigMaps, which reports the status of the node, asks for a job   *)
(* when its devices have changed, and replaces the pod of lvmd.  A cluster *)
(* that is deleted is cleaned up on the node, and may be created again.    *)
(***************************************************************************)
EXTENDS PrepareJob, DeviceClassCheck, CleanUpJob

CONSTANTS
    Wishes,       \* what the administrator may ask for on the node
    UseAllNodes,  \* a change of the devices asks for a job, too
    Handler,      \* the one goroutine that handles the news of the informer
    Foreign,      \* groups that exist before the operator comes
    Patient,      \* users change the cluster only when nothing is going on
    CleanUp,      \* spec.cleanup
    MayDelete,    \* the cluster may be deleted
    Returns,      \* and be created again, with one of these wishes
    MaxEdits      \* bound: changes of the specification, and deletions

ASSUME NodeAssumption ==
    /\ Wishes \subseteq Wish /\ UseAllNodes \in BOOLEAN /\ Patient \in BOOLEAN
    /\ CleanUp \in BOOLEAN /\ MayDelete \in BOOLEAN /\ Returns \subseteq Wishes /\ None \notin Wishes
    \* checkStorageConfig
    /\ AllDevices => UseAllNodes
    /\ UseAllNodes => \A w \in Wishes : Cardinality({g \in Vg : w[g] # NoClass}) = 1
    /\ Handler \in Launcher /\ Foreign \in [Disk -> Vg \cup {Raw}] /\ MaxEdits \in Nat

VARIABLES
    spec,     \* spec.storage of the TopolvmCluster
    life,     \* whether it is there, and how far its deletion is
    edits,
    seen,     \* r.cluster: the specification reconciled last
    informed, \* the informer of lvmd ConfigMaps runs
    event,    \* a request for the cluster is in the work queue
    report,   \* the status of the node in the TopolvmCluster
    plugin    \* the classes that the running lvmd has read, if it runs

userVars == <<spec, edits>>
operatorVars == <<seen, informed>>
clusterVars == <<userVars, life, operatorVars, event, report, plugin>>
podVars == <<lvmVars, mapVars, pod>>
vars == <<podVars, jobVars, daemon, cleaner, clusterVars>>

ClusterTypeOK ==
    /\ life \in {"there", "deleted", "maps", "jobs", "gone"} /\ informed \in BOOLEAN
    /\ spec \in Wishes /\ edits \in 0 .. MaxEdits /\ seen \in Wishes \cup {None}
    /\ event \in BOOLEAN /\ report \in Status \cup {None}
    /\ plugin \in (SUBSET Vg) \cup {None}

TypeOK == /\ LvmTypeOK /\ MapTypeOK /\ PodTypeOK /\ JobTypeOK /\ DaemonTypeOK
          /\ CleanerTypeOK /\ ClusterTypeOK

Init ==
    /\ pv = Foreign /\ present = Disk /\ lv = {} /\ faults = 0
    /\ MapInit /\ pod = Gone /\ JobInit /\ daemon = Resting
    /\ cleaner = NoCleaner /\ life = "there" /\ informed = FALSE
    /\ spec \in Wishes /\ edits = 0 /\ seen = None /\ event = TRUE
    /\ report = None /\ plugin = None

-----------------------------------------------------------------------------
(* The reconciler: startPrepareVolumeGroupJob, then updateCluster.         *)

\* With the specification unchanged a job is wanted only by failed classes.
NeedsJob ==
    IF seen = spec
    THEN IF report = None THEN FALSE
         ELSE report.fail # {} \/ Successes(report.suc) = {}
    ELSE TRUE

\* onAdd.  The informer is started with the first specification: it lists the
\* ConfigMap again.
Reconcile ==
    /\ event /\ life = "there"
    /\ event' = FALSE /\ seen' = spec /\ informed' = TRUE
    /\ IF NeedsJob THEN \E l \in Launcher \ {Handler} : Idle(l) /\ Goes(l, "get")
       ELSE UNCHANGED asks
    /\ changed' = IF seen = None /\ informed /\ cm # NoMap THEN changed \cup {"added"} ELSE changed
    /\ UNCHANGED <<lvmVars, cm, pod, job, tries, daemon, cleaner, userVars, life, report, plugin>>

-----------------------------------------------------------------------------
(* reconcileDelete, which may begin again after any of its steps.  That a  *)
(* write of it is refused is in module TopolvmCluster.                     *)

DeletionAt(step) ==
    life = step /\ UNCHANGED <<nodeVars, pod, jobVars, daemon, userVars, informed, plugin>>

\* stopCheckClusterStatus, updateCluster(nil).
ReconcileDelete ==
    /\ event /\ DeletionAt("deleted")
    /\ event' = FALSE /\ seen' = None /\ life' = "maps"
    /\ UNCHANGED <<pv, faults, mapVars, cleaner, report>>

\* Mutant: the records stay.
KeepMap ==
    /\ DeletionAt("maps") /\ ~CleanerWorks /\ life' = "jobs"
    /\ cleaner' = IF CleanUp THEN StartedCleaner ELSE cleaner
    /\ UNCHANGED <<pv, faults, mapVars, seen, event, report>>

\* cleanLvmdConfigmap, then startCleanUpJobs: a clean-up job that is there is
\* waited for and replaced.
CleanMap ==
    /\ DeletionAt("maps") /\ ~CleanerWorks /\ life' = "jobs"
    /\ IF cm = NoMap THEN UNCHANGED mapVars
       ELSE Write([cm EXCEPT !.status = None, !.lvmd = None])
    /\ cleaner' = IF CleanUp THEN StartedCleaner ELSE cleaner
    /\ UNCHANGED <<pv, faults, seen, event, report>>

\* removeFinalizer, when the job is done, has failed, or 15 minutes are over.
EndDeletion ==
    /\ DeletionAt("jobs") /\ life' = "gone" /\ report' = None
    /\ IF CleanerWorks THEN Fault("wait") ELSE UNCHANGED faults
    /\ UNCHANGED <<pv, mapVars, cleaner, seen, event>>

Deletion == ReconcileDelete \/ CleanMap \/ EndDeletion

\* What the cluster owns goes with it: jobs, pods, the deployment of lvmd.
CollectGarbage ==
    /\ life = "gone" /\ <<job, pod, plugin>> # <<"none", Gone, None>>
    /\ job' = "none" /\ tries' = 0 /\ pod' = Gone /\ plugin' = None
    /\ UNCHANGED <<lvmVars, mapVars, asks, daemon, cleaner, userVars, life, operatorVars, event, report>>

-----------------------------------------------------------------------------
(* The handler of the informer: onAdd, onUpdate.                           *)

\* updateClusterStatus.  A write of the status that fails is given up, and
\* without a cluster there is none.
ReportsStatus == "status" \in changed /\ cm.status # None /\ life # "gone"

Report ==
    \/ ~ReportsStatus /\ UNCHANGED <<report, event, faults>>
    \/ /\ ReportsStatus
       /\ report' = cm.status /\ event' = (event \/ report # cm.status)
       /\ UNCHANGED faults
    \/ /\ ReportsStatus /\ Fault("write")
       /\ UNCHANGED <<report, event>>

\* RestartJob: the handler waits in it.
RestartJob ==
    IF "devices" \in changed /\ UseAllNodes /\ seen # None THEN Goes(Handler, "get")
    ELSE UNCHANGED asks

HandleNews ==
    /\ informed /\ Idle(Handler) /\ changed \cap {"status", "devices"} # {}
    /\ changed' = changed \ {"status", "devices"}
    /\ Report /\ RestartJob
    /\ UNCHANGED <<pv, nodeVars, cm, pod, job, tries, daemon, cleaner, userVars, life,
                   operatorVars, plugin>>

\* startTopolvmNodePlugin, replaceNodePod: the new pod reads the ConfigMap.
\* A ConfigMap that is merely listed finds the deployment there.
ServeNews ==
    /\ informed /\ Idle(Handler)
    /\ changed # {} /\ changed \cap {"status", "devices"} = {}
    /\ changed' = {}
    /\ plugin' = IF cm.lvmd # None /\ ("lvmd" \in changed \/ plugin = None) THEN cm.lvmd ELSE plugin
    /\ UNCHANGED <<lvmVars, cm, pod, jobVars, daemon, cleaner, userVars, life, operatorVars,
                   event, report>>

\* The status checker adds the node when the cluster has no status of it; what
\* it says of the phases is not in this module.
CheckStatus ==
    /\ seen # None /\ report = None
    /\ report' = [suc |-> [g \in Vg |-> None], fail |-> {}] /\ event' = TRUE
    /\ UNCHANGED <<podVars, jobVars, daemon, cleaner, userVars, life, operatorVars, plugin>>

-----------------------------------------------------------------------------
(* The operator starts again: its goroutines are gone, the requests and    *)
(* the ConfigMap come anew.                                                *)

RestartOperator ==
    /\ informed /\ Fault("operator")
    /\ seen' = None /\ informed' = FALSE /\ event' = TRUE
    /\ asks' = [l \in Launcher |-> "no"]
    /\ life' = IF life \in {"maps", "jobs"} THEN "deleted" ELSE life
    /\ changed' = IF cm = NoMap THEN {}
                  ELSE {"added"} \cup (News(NoData, cm) \ {"lvmd"})
    /\ UNCHANGED <<pv, nodeVars, cm, pod, job, tries, daemon, cleaner, userVars, report, plugin>>

-----------------------------------------------------------------------------
(* The environment.                                                        *)

\* Nothing of the last change is under way.
Settled ==
    /\ ~event /\ changed = {} /\ \A l \in Launcher : Idle(l)
    /\ IF life = "gone" THEN /\ job = "none" /\ plugin = None /\ daemon.base = None
                                /\ cleaner.stage \in {"none", "done"}
       ELSE seen = spec /\ job = "done"

UserStep ==
    /\ (Patient => Settled)
    /\ UNCHANGED <<podVars, jobVars, daemon, cleaner, operatorVars, report, plugin>>

Edit(new) ==
    /\ life = "there" /\ edits < MaxEdits /\ new # spec
    /\ spec' = new /\ edits' = edits + 1 /\ event' = TRUE
    /\ UserStep /\ UNCHANGED life

DeleteCluster ==
    /\ MayDelete /\ life = "there" /\ edits < MaxEdits
    /\ Patient => cm # NoMap /\ cm.devices = View({})
    /\ life' = "deleted" /\ edits' = edits + 1 /\ event' = TRUE
    /\ UserStep /\ UNCHANGED spec

CreateCluster(new) ==
    /\ new \in Returns /\ life = "gone"
    /\ life' = "there" /\ spec' = new /\ event' = TRUE
    /\ UserStep /\ UNCHANGED edits

Lvmd == IF plugin = None THEN {} ELSE plugin

Hardware ==
    /\ \E d \in Disk : \/ LoseDisk(d) \/ ReturnDisk(d)
                       \/ CreateVolume(d, Lvmd) \/ DeleteVolume(d, Lvmd)
    /\ UNCHANGED <<mapVars, pod, jobVars, daemon, cleaner, clusterVars>>

-----------------------------------------------------------------------------
PodRuns ==
    /\ PodStep \/ \E blind \in Blind : life # "gone" /\ ReadSpec(spec, blind)
    /\ UNCHANGED <<jobVars, daemon, cleaner, clusterVars>>
JobRuns ==
    /\ StartPod \/ PodSucceeded \/ PodFailed
    /\ UNCHANGED <<daemon, cleaner, clusterVars>>
Launches(l) == LaunchStep(l) /\ UNCHANGED <<daemon, cleaner, clusterVars>>
DaemonRuns == (DaemonStep \/ RestartDaemon) /\ UNCHANGED <<jobVars, cleaner, clusterVars>>

\* getVgInfo: with useAllNodes the specification names no disk for a node.
DisksToClean == IF UseAllNodes THEN {} ELSE UNION {spec[g] : g \in {x \in Vg : spec[x] # NoClass}}

CleanerRuns ==
    /\ \/ CleanerStep \/ RetryCleaner(life # "gone")
       \/ life # "gone" /\ ReadGroups(spec, DisksToClean)
    /\ UNCHANGED <<mapVars, pod, jobVars, daemon, clusterVars>>
CleanerDies == CleanerFails /\ UNCHANGED <<mapVars, pod, jobVars, daemon, clusterVars>>

Next ==
    \/ PodRuns \/ JobRuns \/ \E l \in Launcher : Launches(l)
    \/ DaemonRuns
    \/ Reconcile \/ HandleNews \/ ServeNews \/ CheckStatus \/ RestartOperator
    \/ Deletion \/ CleanerRuns \/ CleanerDies \/ CollectGarbage
    \/ DeleteCluster \/ \E new \in Wishes : Edit(new) \/ CreateCluster(new)
    \/ Hardware

Spec == Init /\ [][Next]_vars

\* Goroutines, pods and the job controller go on; the daemon probes for ever,
\* and looks at the classes at every interval.  No fault and no edit need happen.
Fairness ==
    /\ WF_vars(PodRuns)
    /\ WF_vars((StartPod \/ PodSucceeded) /\ UNCHANGED <<daemon, cleaner, clusterVars>>)
    /\ \A l \in Launcher : WF_vars(Launches(l))
    /\ WF_vars(DaemonRuns) /\ SF_vars(ReadClasses /\ DaemonRuns)
    /\ WF_vars(Reconcile) /\ WF_vars(HandleNews) /\ WF_vars(ServeNews)
    /\ WF_vars(Deletion) /\ WF_vars(CleanerRuns) /\ WF_vars(CollectGarbage)

FairSpec == Spec /\ Fairness

-----------------------------------------------------------------------------
(* What the parts promise together.                                        *)

\* The disks the specification names: all of them with useAllDevices.
Named == [g \in Vg |-> IF spec[g] = NoClass THEN {} ELSE IF AllDevices THEN Disk ELSE spec[g]]

Groups == INSTANCE VolumeGroups
    WITH members <- [g \in Vg |-> Members(g)], named <- Named, inUse <- lv,
         ending <- CleanUp /\ life # "there",
         Initial <- [g \in Vg |-> {d \in Disk : Foreign[d] = g}]

\* Jobs that die, repeat each other's work, act on what an older job or the
\* daemon has recorded, or meet disks that do not answer, never do more to the
\* volume groups than VolumeGroups allows.
ImplementsGroups == Groups!GroupsSpec

\* With useAllDevices, a job keeps the disks that an earlier job has put into
\* the group of the class (checkVgIfShrink).
NamedDisksStay ==
    [][\A g \in Vg : Members(g) \cap Named[g] \subseteq Members(g)']_vars

Recorded ==
    IF cm = NoMap THEN {} ELSE IF cm.status = None THEN {} ELSE Successes(cm.status.suc)

\* The classes recorded in the copy of a pod.
Read == IF First THEN {} ELSE Successes(pod.base.status.suc)

\* The daemon writes back the status it has read, after another one has recorded
\* or removed a class: the patch carries no version.  A pod does the same.
StaleCheck ==
    /\ daemon.stage = "checked" /\ daemon'.stage = "idle"
    /\ Successes(daemon.base.suc) # Recorded
StaleSave == pod.stage = "class" /\ pod'.stage = "done" /\ Read # Recorded

\* A class that is named, recorded, and whose group holds volumes stays recorded
\* and served: no job takes it out of the configuration of lvmd, and nothing but
\* an old copy of the daemon takes away the record without which the next job
\* would (updateLvmdConf, checkDeviceClass).
UsedClassStaysServed ==
    [][\A g \in Served \cap Recorded :
         HasVolumes(g) /\ spec[g] # NoClass /\ life = "there" => g \in Served' \cap Recorded' \/ StaleCheck]_vars

\* lvmd is given exactly the classes recorded as created, whoever wrote the
\* ConfigMap last, until the daemon writes back an old copy of the records
\* (updateLvmdConf, createLvmdConf, checkDeviceClass).
ServesRecorded ==
    [][life = "there" /\ Served = Recorded => Served' = Recorded' \/ StaleCheck]_vars

\* What a pod has made or removed, and will record.
Unsaved(g) ==
    \/ pod.stage = "unmake" /\ pod.cur = g
    \/ (pod.suc[g] # None) # (g \in Read)

\* Groups of ours without a record, and records without a group.
Astray ==
    {g \in Vg : /\ \A d \in Disk : Foreign[d] # g
                /\ (Members(g) # {}) # (g \in Recorded) /\ ~Unsaved(g)}

\* A pod dies, or is deleted with its job, before it has recorded what it did; it
\* cannot wipe a disk of a group that it has removed.
PodLost == pod.stage \notin {"none", "done"} /\ pod' = Gone
WipeFails == pod.stage = "unmake" /\ pod'.stage = "class" /\ pv' = pv

\* Groups of named classes and their records, on whose agreement every job relies,
\* come apart only so, or when somebody writes back an old copy of the records
\* (checkVgIfShrink, updateVgStatus, DeleteBatchJob, checkDeviceClass).
RecordsKept ==
    [][life = "there" /\ life' = "there" =>
         \/ Astray' \subseteq Astray \cup {g \in Vg : spec[g] = NoClass}
         \/ StaleCheck \/ StaleSave \/ PodLost \/ WipeFails]_vars

\* A cluster that is deleted with its clean-up leaves neither groups of ours nor
\* records behind: a record that an old copy brought back would keep the next
\* cluster from ever making the group (cleanLvmdConfigmap, cleanVgs, checkDeviceClass).
NothingLeft ==
    life = "gone" /\ CleanUp =>
        /\ cm # NoMap => cm.status = None /\ cm.lvmd = None
        /\ \A g \in Vg : (\A d \in Disk : Foreign[d] # g) => Members(g) = {}

\* What can leave something behind: the record of a class is deleted although its
\* group could not be removed, or the clean-up cannot remove a group, ...
ForgetsVg(g) == /\ pod.suc[g] # None /\ pod'.suc[g] = None
                /\ pod'.stage \notin {"none", "done"} /\ Members(g)' # {}
SkipsVg(g) == g \in cleaner.groups \ cleaner'.groups /\ Members(g)' # {}

\* ... its pod dies, or the finalizer goes while it runs, or a job runs beside it.
CleanerLost == CleanerWorks /\ cleaner'.stage = "failed"
CleanerLate == CleanerWorks /\ life # "gone" /\ life' = "gone"
JobAsked    == life # "there" /\ \E l \in Launcher : Idle(l) /\ ~Idle(l)'

Mishap == \/ StaleCheck \/ PodLost \/ CleanerLost \/ CleanerLate \/ JobAsked
          \/ \E g \in Vg : ForgetsVg(g) \/ SkipsVg(g)

\* The specification is applied: every group ends up with exactly the disks
\* named for it, or a class is reported as failed, in spite of jobs that are left
\* alone or delete each other (RunReplaceableJob), as long as nobody edits while
\* a job runs.
SpecApplied ==
    <>[](\/ life = "gone"
        \/ /\ life = "there"
           /\ \/ \A g \in Vg : Members(g) = IF spec[g] = NoClass THEN {} ELSE spec[g]
              \/ report # None /\ report.fail # {})

\* The devices key follows the disks, although the job deletes it when it
\* creates the ConfigMap second (updateDeviceCM, CreateOrPatchConfigmap).
DevicesPublished == <>[](cm # NoMap /\ cm.devices = View({}))

\* A class ends up ready exactly if its group has the devices listed under it,
\* unless a group has disappeared (checkDeviceClass), whatever jobs write back.
ReadyIfComplete ==
    <>[](cm # NoMap /\ cm.status # None /\ Successes(cm.status.suc) \subseteq VolumeGroups =>
           \A g \in Successes(cm.status.suc) :
               cm.status.suc[g].ready = (cm.status.suc[g].devs \subseteq PhysicalVolumes(g)))

\* lvmd ends up serving what the ConfigMap says, and the cluster reports it,
\* although the informer's handler is held up by jobs (onUpdate).
LvmdFollows == <>[](cm # NoMap /\ cm.lvmd # None /\ life = "there" => plugin = cm.lvmd)
StatusReported == <>[](cm # NoMap /\ cm.status # None /\ life = "there" => report = cm.status)
=============================================================================
