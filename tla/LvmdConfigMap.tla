---------------------------- MODULE LvmdConfigMap ----------------------------
(***************************************************************************)
(* The ConfigMap of a node (lvmd-<node>), through which the discovery      *)
(* daemon, the preparevg job and the operator talk.  Its keys are written  *)
(* by merge patches that carry no resource version                         *)
(* (pkg/operator/k8sutil/configmap.go).                                    *)
(***************************************************************************)
EXTENDS LvmNode

CONSTANTS
    NoMap,   \* the ConfigMap does not exist
    None,    \* a key that is not there; a class that is not recorded
    Nameless \* a failed class recorded without the name of its group

VARIABLES
    cm,      \* the ConfigMap
    changed  \* what the operator's informer has not handled yet

mapVars == <<cm, changed>>

\* ClassState: its state, and the devices listed under it.
Class  == [ready : BOOLEAN, devs : SUBSET Disk]
Status == [suc : [Vg -> Class \cup {None}], fail : SUBSET (Vg \cup {Nameless})]

\* The devices key: what a scan found on the disks that answer.
Devices == [Disk -> {"gone", "free", "used"}]
Data    == [devices : Devices \cup {None}, status : Status \cup {None},
            lvmd : (SUBSET Vg) \cup {None}]

ASSUME MapAssumption ==
    /\ None \notin Class /\ None \notin Status /\ \A gs \in SUBSET Vg : gs # None
    /\ NoMap \notin Data

MapTypeOK ==
    /\ cm \in Data \cup {NoMap}
    /\ changed \subseteq {"status", "devices", "lvmd", "added"}

MapInit == cm = NoMap /\ changed = {}

NoData == [devices |-> None, status |-> None, lvmd |-> None]

Keys == {"devices", "status", "lvmd"}

Served == IF cm = NoMap \/ cm.lvmd = None THEN {} ELSE cm.lvmd

\* Mutants: only a status is news; only the first status is.
NewsOfStatus(old, new) == IF new.status \notin {None, old.status} THEN {"status"} ELSE {}
NewsOnce(old, new) ==
    (IF new.status # None /\ old.status = None THEN {"status"} ELSE {})
      \cup (IF new.lvmd \notin {None, old.lvmd} THEN {"lvmd"} ELSE {})

\* Every write reaches the informer of the operator.  A new ConfigMap is of
\* interest as such, and an update when the status is not empty, when known
\* devices have changed, or when lvmd has to serve something else.
News(old, new) ==
    (IF new.status # None /\ new.status # old.status THEN {"status"} ELSE {})
      \cup (IF old.devices \notin {None, new.devices} THEN {"devices"} ELSE {})
      \cup (IF new.lvmd \notin {None, old.lvmd} THEN {"lvmd"} ELSE {})

Write(new) ==
    /\ cm' = new
    /\ changed' = changed \cup (IF cm = NoMap THEN {"added"} \cup (News(NoData, new) \ {"lvmd"})
                                ELSE News(cm, new))

\* Mutant: the whole object is written back.
PatchAll(old, new) == cm # NoMap /\ Write(new)

\* PatchConfigMap: exactly the keys in which new differs from old are written,
\* whatever they hold by now.
Patch(old, new) ==
    /\ cm # NoMap
    /\ Write([k \in Keys |-> IF new[k] # old[k] THEN new[k] ELSE cm[k]])

\* CreateOrPatchConfigmap: what the map holds by now is the old copy, so every
\* key the new one lacks is deleted.
CreateOrPatch(new) == IF cm = NoMap THEN Write(new) ELSE Patch(cm, new)
=============================================================================
