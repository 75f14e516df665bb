--------------------------- MODULE RawDeviceSystem ---------------------------
(***************************************************************************)
(* The raw device subsystem as a whole: controller replicas called by the  *)
(* provisioner, and discovery daemons, all of them working on the same     *)
(* RawDevice objects through the API server and their own caches.          *)
(***************************************************************************)
EXTENDS CsiProvisioner, RawDeviceDiscovery

CONSTANTS
    InitialDisk,  \* the disks of the nodes when the system starts
    Discovered    \* the disks that earlier scans have already recorded

ASSUME SystemAssumption ==
    /\ InitialDisk \in [Device -> Disk \cup {Gone}]
    /\ Discovered \subseteq {d \in Device : InitialDisk[d] # Gone}

vars == <<apiVars, call, provVars, discVars>>

InitialObject(d) ==
    IF d \in Discovered
    THEN [rv |-> 0, size |-> InitialDisk[d].size, avail |-> InitialDisk[d].avail,
          name |-> NoName]
    ELSE Absent

Init ==
    /\ ApiInit([d \in Device |-> InitialObject(d)])
    /\ CallInit
    /\ ProvisionerInit
    /\ disk = InitialDisk
    /\ DiscoveryInit

CacheSystemStep(r)      == Deliver(r) /\ UNCHANGED <<call, provVars, discVars>>
ControllerSystemStep(k) == ControllerStep(k) /\ UNCHANGED <<provVars, discVars>>
ProvisionerSystemStep(v) == ProvisionerStep(v) /\ UNCHANGED discVars
DropSystemStep(k)       == DropAnswer(k) /\ UNCHANGED discVars
ScanSystemStep(n)       == ScanStep(n) /\ UNCHANGED <<call, provVars>>
DiskSystemStep(d)       == ChangeDisk(d) /\ UNCHANGED <<call, provVars>>
CrashSystemStep(c)      == CrashController(c) /\ UNCHANGED discVars

DaemonCrashSystemStep(n) ==
    /\ faults < MaxFaults
    /\ faults' = faults + 1
    /\ RestartDaemon(n)
    /\ UNCHANGED <<call, pv>>

Next ==
    \/ \E r \in Reader : CacheSystemStep(r)
    \/ \E k \in Call : ControllerSystemStep(k) \/ DropSystemStep(k)
    \/ \E v \in Volume : ProvisionerSystemStep(v)
    \/ \E n \in Daemon : ScanSystemStep(n) \/ DaemonCrashSystemStep(n)
    \/ \E d \in Device : DiskSystemStep(d)
    \/ \E c \in Controller : CrashSystemStep(c)

Spec == Init /\ [][Next]_vars

(***************************************************************************)
(* Fairness: informers deliver, calls run to their end, the provisioner    *)
(* goes on calling and takes the answers, and each daemon's scan loop      *)
(* never stops (its probe timer and udev events).  Users, disks, timeouts  *)
(* and crashes owe nothing.                                                *)
(***************************************************************************)
Fairness ==
    /\ \A r \in Reader : WF_vars(CacheSystemStep(r))
    /\ \A k \in Call : WF_vars(ControllerSystemStep(k)) /\ WF_vars(DropSystemStep(k))
    /\ \A v \in Volume :
          /\ WF_vars(/\ \E k \in Call, c \in Controller :
                           CallCreate(v, k, c) \/ CallDelete(v, k, c)
                     /\ UNCHANGED discVars)
          /\ WF_vars((\E k \in Call : TakeAnswer(v, k)) /\ UNCHANGED discVars)
    /\ \A n \in Daemon : WF_vars(ScanSystemStep(n))

FairSpec == Spec /\ Fairness

-----------------------------------------------------------------------------
(* Safety of every behaviour, whatever is lost, crashed or out of date.    *)

\* Every variable has its type: only versions of RawDevices that were written
\* are cached, in flight or being written back.
TypeOK == ApiTypeOK /\ CallTypeOK /\ ProvisionerTypeOK /\ DiscoveryTypeOK

Marked(d) == store[d] # Absent /\ store[d].name # NoName

\* A copy of a RawDevice that carries the stored resource version is equal to
\* the stored object: nobody edits a cached object in place (createVolume and
\* deleteVolume DeepCopy it first) and versions are never reused.  It is what
\* makes a conditional write an atomic test of everything the copy said.
SameVersionSameObject ==
    \A d \in Device :
        LET Agrees(copy) == Newest(d, copy) => copy = store[d]
        IN  /\ \A r \in Reader : /\ Agrees(cache[r][d])
                                 /\ \A i \in 1 .. Len(pending[r]) : Agrees(pending[r][i][d])
            /\ \A k \in Call : call[k] # Idle /\ call[k].dev = d => Agrees(call[k].seen)
            /\ \A n \in Daemon : d \in scan[n].cur => Agrees(scan[n].seen)

Succeeds(k, op) == At(k, op, "chosen") /\ At(k, op, "ok")'

\* However stale the cache a CreateVolume chose from, at the moment it takes
\* a device the device is recorded, unmarked, available, on the node of the
\* call and large enough: no two creates are granted a device without a
\* DeleteVolume or a new RawDevice between them.
GrantsFreeDevice ==
    [][\A k \in Call : Succeeds(k, "create") =>
          LET d == call[k].dev
          IN  /\ IsFree(store[d])
              /\ store[d].size >= Request[call[k].vol].size
              /\ NodeOf[d] = call[k].node]_vars

\* While a RawDevice exists its mark is moved by the controller service only:
\* a discovery daemon that rewrites the spec from an old scan never frees a
\* taken device nor takes a free one.
OnlyCallsMoveMarks ==
    [][\A d \in Device :
          (/\ store[d] # Absent /\ store'[d] # Absent
           /\ store[d].name # store'[d].name)
          => \E k \in Call : /\ call[k] # Idle /\ call[k].dev = d
                             /\ Succeeds(k, "create") \/ Succeeds(k, "delete")]_vars

\* A DeleteVolume that succeeds frees the device its volume id names, which
\* was marked, and no other: the search goes by Status.Name and the write by
\* the name of the object found.
FreesMarkedDevice ==
    [][\A k \in Call : Succeeds(k, "delete") =>
          LET id == call[k].id
          IN  /\ Marked(id)
              /\ store'[id] # Absent /\ store'[id].name = NoName
              /\ \A d \in Device \ {id} : store'[d] = store[d]]_vars

-----------------------------------------------------------------------------
(* What a volume id is for (csi/csi.pb.go:1356-1357).  These hold only     *)
(* while no answer is lost, no disk goes and no scan leaves one out.       *)

\* Two volumes the cluster is using never have the same volume id, hence
\* never share a device.
UniqueVolumeIds ==
    \A v, w \in Volume : (v # w /\ pv[v].phase = "bound" /\ pv[w].phase = "bound")
                            => pv[v].dev # pv[w].dev

\* The device a volume has been granted and has not yet given back.
Holding(v) ==
    LET answered == pv[v].phase \in {"creating", "deleting"} /\ call[pv[v].call].stage = "ok"
    IN  CASE pv[v].phase = "creating" -> IF answered THEN call[pv[v].call].dev ELSE NoDevice
          [] pv[v].phase = "deleting" -> IF answered THEN NoDevice ELSE pv[v].dev
          [] OTHER -> IF pv[v].phase = "gone" THEN NoDevice ELSE pv[v].dev

Ended == {v \in Volume : \/ pv[v].phase = "gone"
                         \/ pv[v].phase = "deleting" /\ Holding(v) = NoDevice}

\* A device is marked exactly while a volume holds it: none leaks, and none
\* is free under a volume that still has it.
MarkedIffHeld ==
    \A d \in Device : Marked(d) <=> \E v \in Volume : Holding(v) = d

\* The subsystem allocates devices to volumes as the abstract allocator does.
Allocation == INSTANCE VolumeAllocation WITH alloc <- [v \in Volume |-> Holding(v)],
                                             ended <- Ended
ImplementsAllocation == Allocation!Spec

-----------------------------------------------------------------------------
(* Liveness, under FairSpec.                                               *)

\* No claim starves: while a device that fits it is free again and again, it is
\* bound in the end, also when calls time out, replicas restart and disks go.
EveryClaimBinds ==
    \A v \in Volume :
        []<>(\E d \in Device : /\ IsFree(store[d])
                               /\ store[d].size >= Request[v].size
                               /\ Request[v].node \in {AnyNode, NodeOf[d]})
        => (pv[v].phase = "wanted" ~> pv[v].phase = "bound")

\* The device of every volume whose claim is deleted is freed in the end, also
\* when the answer to a DeleteVolume is lost.
EveryReleaseFrees ==
    \A v \in Volume : \A d \in Device :
        (pv[v].phase = "released" /\ pv[v].dev = d) ~> ~Marked(d)

\* Once disks have stopped changing, each is recorded as it is.
NewDiskRecorded ==
    \A d \in Device :
        <>[](disk[d] # Gone => /\ store[d] # Absent
                               /\ store[d].size = disk[d].size
                               /\ store[d].avail = disk[d].avail)

\* The RawDevice of a disk that is gone and that no volume marks is deleted
\* in the end (e2e/rawdevice_delete_test.go:31-42).
RemovedDiskForgotten ==
    \A d \in Device : <>[](disk[d] = Gone /\ ~Marked(d)) => <>[](store[d] = Absent)
=============================================================================
