-------------------------- MODULE DeviceClassCheck --------------------------
(***************************************************************************)
(* What the discovery daemon of a node writes to its ConfigMap: the disks  *)
(* it found and the state of the recorded classes                          *)
(* (pkg/operator/discover/discover.go).  It runs at every probe interval,  *)
(* and the first part also after udev events.                              *)
(***************************************************************************)
EXTENDS PrepareVg

VARIABLE daemon

\* What the daemon holds: a scan, and a copy of the ConfigMap.
Daemon == [stage : {"idle", "scanned", "missing", "listed", "classes", "checked"},
           view  : Devices \cup {None},
           base  : Status \cup {None},
           new   : [Vg -> Class \cup {None}] \cup {None}]

DaemonTypeOK == daemon \in Daemon

Resting == [stage |-> "idle", view |-> None, base |-> None, new |-> None]

-----------------------------------------------------------------------------
(* updateDeviceCM.                                                         *)

\* GetAllDevices: what a scan records of each disk.
View(blind) == [d \in Disk |-> IF d \notin present THEN "gone"
                               ELSE IF d \in Unsigned \cup blind THEN "free" ELSE "used"]

ScanDisks(blind) ==
    /\ daemon.stage = "idle" /\ blind \in Blind
    /\ faults' = faults + Cardinality(blind)
    /\ daemon' = [daemon EXCEPT !.stage = "scanned", !.view = View(blind)]
    /\ UNCHANGED <<pv, nodeVars, mapVars, pod>>

Listed == daemon' = [Resting EXCEPT !.stage = "listed"]

\* Mutant: the key is written once.
WriteDevicesOnce ==
    /\ daemon.stage = "scanned" /\ cm # NoMap
    /\ IF cm.devices # None THEN UNCHANGED mapVars
       ELSE Patch(cm, [cm EXCEPT !.devices = daemon.view])
    /\ Listed
    /\ UNCHANGED <<lvmVars, pod>>

\* The key is patched when it holds something else than the scan.
WriteDevices ==
    /\ daemon.stage = "scanned" /\ cm # NoMap
    /\ IF cm.devices = daemon.view THEN UNCHANGED mapVars
       ELSE Patch(cm, [cm EXCEPT !.devices = daemon.view])
    /\ Listed
    /\ UNCHANGED <<lvmVars, pod>>

FindNoMap ==
    /\ daemon.stage = "scanned" /\ cm = NoMap
    /\ daemon' = [daemon EXCEPT !.stage = "missing"]
    /\ UNCHANGED <<lvmVars, mapVars, pod>>

\* Create is refused when the job has created the ConfigMap meanwhile.
CreateDevices ==
    /\ daemon.stage = "missing"
    /\ IF cm = NoMap THEN Write([NoData EXCEPT !.devices = daemon.view])
       ELSE UNCHANGED mapVars
    /\ Listed
    /\ UNCHANGED <<lvmVars, pod>>

-----------------------------------------------------------------------------
(* checkDeviceClass.                                                       *)

\* After a udev event the classes are left alone, as they are without a status.
SkipClasses ==
    /\ daemon.stage = "listed"
    /\ daemon' = Resting
    /\ UNCHANGED <<lvmVars, mapVars, pod>>

ReadClasses ==
    /\ daemon.stage = "listed" /\ cm # NoMap /\ cm.status # None
    /\ daemon' = [Resting EXCEPT !.stage = "classes", !.base = cm.status]
    /\ UNCHANGED <<lvmVars, mapVars, pod>>

\* Mutant: the device vgs lists first is not compared.
CheckedPastFirst(g) == LET c == daemon.base.suc[g] IN
    IF c = None THEN None
    ELSE [c EXCEPT !.ready = \E d \in PhysicalVolumes(g) : c.devs \subseteq PhysicalVolumes(g) \ {d}]

\* A class is ready when its group has every device that is listed.
Checked(g) == LET c == daemon.base.suc[g] IN
    IF c = None THEN None ELSE [c EXCEPT !.ready = c.devs \subseteq PhysicalVolumes(g)]

\* One group that vgs does not find, and nothing is written at all.
CheckGroups ==
    /\ daemon.stage = "classes"
    /\ daemon' = IF Successes(daemon.base.suc) \subseteq VolumeGroups
                 THEN [daemon EXCEPT !.stage = "checked", !.new = [g \in Vg |-> Checked(g)]]
                 ELSE Resting
    /\ UNCHANGED <<lvmVars, mapVars, pod>>

WriteClasses ==
    /\ daemon.stage = "checked"
    /\ LET old == [NoData EXCEPT !.status = daemon.base]
       IN Patch(old, [old EXCEPT !.status.suc = daemon.new])
    /\ daemon' = Resting
    /\ UNCHANGED <<lvmVars, pod>>

DaemonStep ==
    \/ \E blind \in Blind : ScanDisks(blind)
    \/ WriteDevices \/ FindNoMap \/ CreateDevices
    \/ SkipClasses \/ ReadClasses \/ CheckGroups \/ WriteClasses

\* The pod of the daemon is replaced.
RestartDaemon ==
    /\ daemon.stage # "idle" /\ Fault("daemon")
    /\ daemon' = Resting
    /\ UNCHANGED <<pv, nodeVars, mapVars, pod>>
=============================================================================
