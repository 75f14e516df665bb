-------------------------- MODULE RawDeviceDiscovery --------------------------
(***************************************************************************)
(* The discovery daemon of each node (pkg/operator/discover/discover.go):  *)
(* it scans the node's disks, writes one RawDevice per disk it saw, and    *)
(* deletes the RawDevices of disks it did not see.  A scan is not atomic:  *)
(* every API call of it is a step, and the deletion decides on the lister  *)
(* of the daemon, not on the API server.                                   *)
(***************************************************************************)
EXTENDS RawDeviceApi

CONSTANTS
    Gone,        \* a path with no disk behind it
    Changes,     \* the disks a path may come to hold while the system runs
    MaxChanges,  \* bound: changes of disks in a behaviour
    MaxSkips     \* bound: disks a scan leaves out though they are there

Disk == [size : Size, avail : BOOLEAN]

ASSUME DiscoveryAssumption ==
    /\ Gone \notin Disk
    /\ Changes \in [Device -> SUBSET (Disk \cup {Gone})]
    /\ MaxChanges \in Nat
    /\ MaxSkips \in Nat

VARIABLES
    disk,     \* what is behind each device path now
    changes,  \* disk changes so far
    skips,    \* disks left out of scans so far
    scan      \* the progress of each node's daemon

ScanRecord == [stage : {"idle", "writing", "updating", "deleting"},
               found : [Device -> Disk \cup {Gone}],
               todo  : SUBSET Device,
               cur   : SUBSET Device,
               seen  : Object \cup {Absent}]

discVars == <<disk, changes, skips, scan>>

DiscoveryTypeOK ==
    /\ disk \in [Device -> Disk \cup {Gone}]
    /\ changes \in 0 .. MaxChanges
    /\ skips \in 0 .. MaxSkips
    /\ scan \in [Daemon -> ScanRecord]

IdleScan == [stage |-> "idle", found |-> [d \in Device |-> Gone], todo |-> {},
             cur |-> {}, seen |-> Absent]

DiscoveryInit ==
    /\ changes = 0
    /\ skips = 0
    /\ scan = [n \in Daemon |-> IdleScan]

-----------------------------------------------------------------------------
(* The hardware: disks are attached, detached, resized or put to use.      *)

ChangeDisk(d) ==
    /\ changes < MaxChanges
    /\ changes' = changes + 1
    /\ \E x \in Changes[d] \ {disk[d]} : disk' = [disk EXCEPT ![d] = x]
    /\ UNCHANGED <<apiVars, skips, scan>>

-----------------------------------------------------------------------------
(* updateDeviceCM and createOrUpdateRawDevice.                             *)

\* GetAllDevices: a disk whose properties cannot be read is skipped.
StartScan(n) ==
    /\ scan[n].stage = "idle"
    /\ \E missed \in SUBSET {d \in Device : NodeOf[d] = n /\ disk[d] # Gone} :
          LET found == [d \in Device |-> IF NodeOf[d] = n /\ d \notin missed
                                         THEN disk[d] ELSE Gone]
          IN  /\ skips + Cardinality(missed) <= MaxSkips
              /\ skips' = skips + Cardinality(missed)
              /\ scan' = [scan EXCEPT ![n] =
                    [IdleScan EXCEPT !.stage = "writing", !.found = found,
                                     !.todo = {d \in Device : found[d] # Gone}]]
    /\ UNCHANGED <<apiVars, disk, changes>>

CreateRawDevice(n, d) ==
    /\ scan[n].stage = "writing" /\ d \in scan[n].todo
    /\ CreateObject(d, scan[n].found[d])
    /\ scan' = [scan EXCEPT ![n].todo = @ \ {d}]
    /\ UNCHANGED <<disk, changes, skips>>

\* The create answers AlreadyExists and the live object is read.
GetRawDevice(n, d) ==
    /\ scan[n].stage = "writing" /\ d \in scan[n].todo
    /\ store[d] # Absent
    /\ scan' = [scan EXCEPT ![n].stage = "updating", ![n].todo = @ \ {d},
                            ![n].cur = {d}, ![n].seen = store[d]]
    /\ UNCHANGED <<apiVars, disk, changes, skips>>

\* Mutants: the update takes the status of the new object along; the new
\* spec is never assigned.
UpdateWholeObject(n, d) ==
    /\ scan[n].stage = "updating" /\ d \in scan[n].cur
    /\ \/ Newest(d, scan[n].seen) /\ Put(d, scan[n].found[d], NoName)
       \/ ~Newest(d, scan[n].seen) /\ UNCHANGED apiVars
    /\ scan' = [scan EXCEPT ![n].stage = "writing", ![n].cur = {}, ![n].seen = Absent]
    /\ UNCHANGED <<disk, changes, skips>>

UpdateOldSpec(n, d) ==
    /\ scan[n].stage = "updating" /\ d \in scan[n].cur
    /\ scan' = [scan EXCEPT ![n].stage = "writing", ![n].cur = {}, ![n].seen = Absent]
    /\ UNCHANGED <<apiVars, disk, changes, skips>>

\* An error of the update is logged and the loop goes on.
UpdateRawDevice(n, d) ==
    /\ scan[n].stage = "updating" /\ d \in scan[n].cur
    /\ \/ WriteSpec(d, scan[n].seen, scan[n].found[d])
       \/ ~Newest(d, scan[n].seen) /\ UNCHANGED apiVars
    /\ scan' = [scan EXCEPT ![n].stage = "writing", ![n].cur = {}, ![n].seen = Absent]
    /\ UNCHANGED <<disk, changes, skips>>

\* Mutant: the test of the status is inverted.
ListTaken(n) ==
    /\ scan[n].stage = "writing" /\ scan[n].todo = {}
    /\ scan' = [scan EXCEPT ![n].stage = "deleting",
                   ![n].todo = {d \in Device : /\ NodeOf[d] = n
                                               /\ cache[n][d] # Absent
                                               /\ scan[n].found[d] = Gone
                                               /\ cache[n][d].name # NoName}]
    /\ UNCHANGED <<apiVars, disk, changes, skips>>

\* checkRawDeviceDeleted: what the lister shows of this node, was not seen
\* by the scan and is not taken.
ListDeleted(n) ==
    /\ scan[n].stage = "writing" /\ scan[n].todo = {}
    /\ scan' = [scan EXCEPT ![n].stage = "deleting",
                   ![n].todo = {d \in Device : /\ NodeOf[d] = n
                                               /\ cache[n][d] # Absent
                                               /\ scan[n].found[d] = Gone
                                               /\ cache[n][d].name = NoName}]
    /\ UNCHANGED <<apiVars, disk, changes, skips>>

DeleteRawDevice(n, d) ==
    /\ scan[n].stage = "deleting" /\ d \in scan[n].todo
    /\ \/ DeleteObject(d)
       \/ store[d] = Absent /\ UNCHANGED apiVars
    /\ scan' = [scan EXCEPT ![n].todo = @ \ {d}]
    /\ UNCHANGED <<disk, changes, skips>>

EndScan(n) ==
    /\ scan[n].stage = "deleting" /\ scan[n].todo = {}
    /\ scan' = [scan EXCEPT ![n] = IdleScan]
    /\ UNCHANGED <<apiVars, disk, changes, skips>>

\* A daemon that dies starts again with its initial scan.
RestartDaemon(n) ==
    /\ RestartReader(n)
    /\ scan' = [scan EXCEPT ![n] = IdleScan]
    /\ UNCHANGED <<disk, changes, skips>>

ScanStep(n) ==
    \/ StartScan(n) \/ ListDeleted(n) \/ EndScan(n)
    \/ \E d \in Device : \/ CreateRawDevice(n, d) \/ GetRawDevice(n, d)
                         \/ UpdateRawDevice(n, d) \/ DeleteRawDevice(n, d)
=============================================================================
