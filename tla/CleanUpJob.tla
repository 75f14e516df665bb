------------------------------ MODULE CleanUpJob ------------------------------
(***************************************************************************)
(* The pod of the clean-up job that runs on a node when a cluster with     *)
(* spec.cleanup is deleted: it removes the volume groups the specification *)
(* names and the labels of the disks it names                              *)
(* (pkg/operator/topolvm/clean/clean.go).                                  *)
(***************************************************************************)
EXTENDS PrepareVg

VARIABLE cleaner

Cleaner == [stage  : {"none", "start", "groups", "unmake", "done", "failed"},
            groups : SUBSET Vg,    \* vgs: groups it has not looked at
            disks  : SUBSET Disk,  \* the disks of a group it has removed
            pvs    : SUBSET Disk]  \* named disks it has seen in no group

CleanerTypeOK == cleaner \in Cleaner

NoCleaner == [stage |-> "none", groups |-> {}, disks |-> {}, pvs |-> {}]
StartedCleaner == [NoCleaner EXCEPT !.stage = "start"]

CleanerWorks == cleaner.stage \in {"start", "groups", "unmake"}

\* getVgInfo: the groups of the specification, and the disks named for this node.
ReadGroups(spec, disks) ==
    /\ cleaner.stage = "start"
    /\ cleaner' = [cleaner EXCEPT !.stage = "groups", !.pvs = disks,
                                  !.groups = {g \in Vg : spec[g] # NoClass}]
    /\ UNCHANGED lvmVars

\* cleanVgs, RemoveVolumeGroup: disks of a group that is found are struck off,
\* whether or not the group can be removed.
CleanGroup(g) ==
    /\ cleaner.stage = "groups" /\ g \in cleaner.groups
    /\ LET next == [cleaner EXCEPT !.groups = @ \ {g},
                                   !.pvs = IF Found(g) THEN @ \ PhysicalVolumes(g) ELSE @]
       IN \/ /\ Works(CanVgRemove(g), Members(g), Label)
             /\ cleaner' = [next EXCEPT !.stage = "unmake", !.disks = Members(g)]
          \/ Fails(CanVgRemove(g)) /\ cleaner' = next

CleanPv(d) ==
    /\ cleaner.stage = "unmake" /\ d \in cleaner.disks
    /\ LET rest == cleaner.disks \ {d}
           left == [cleaner EXCEPT !.stage = "groups", !.disks = {}]
       IN \/ /\ Works(CanPvRemove({d}), {d}, Raw)
             /\ cleaner' = IF rest = {} THEN left ELSE [cleaner EXCEPT !.disks = rest]
          \/ Fails(CanPvRemove({d})) /\ cleaner' = left

CleanNamed(d) ==
    /\ cleaner.stage = "groups" /\ cleaner.groups = {} /\ d \in cleaner.pvs
    /\ Works(CanPvRemove({d}), {d}, Raw) \/ Fails(CanPvRemove({d}))
    /\ cleaner' = [cleaner EXCEPT !.pvs = @ \ {d}]

\* It succeeds, whatever could not be removed.
EndCleaner ==
    /\ cleaner.stage = "groups" /\ cleaner.groups = {} /\ cleaner.pvs = {}
    /\ cleaner' = [cleaner EXCEPT !.stage = "done"]
    /\ UNCHANGED lvmVars

CleanerFails ==
    /\ CleanerWorks /\ Fault("pod")
    /\ cleaner' = [NoCleaner EXCEPT !.stage = "failed"]
    /\ UNCHANGED <<pv, nodeVars>>

\* The job starts another pod, which finds the cluster or, again and again, none.
RetryCleaner(found) ==
    /\ cleaner.stage = "failed" \/ (cleaner.stage = "start" /\ ~found)
    /\ cleaner' = IF found THEN StartedCleaner ELSE NoCleaner
    /\ UNCHANGED lvmVars

CleanerStep ==
    \/ EndCleaner \/ \E g \in Vg : CleanGroup(g)
    \/ \E d \in Disk : CleanPv(d) \/ CleanNamed(d)
=============================================================================
