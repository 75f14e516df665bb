---------------------------- MODULE VolumeGroups ----------------------------
(***************************************************************************)
(* What the operator promises about the volume groups of a node, whatever  *)
(* jobs it runs, whenever they die, and whatever they have written down:   *)
(* a group is made of all the disks named for it, grows by named disks,    *)
(* loses only disks that are not named any more and hold no volume, and    *)
(* the groups of others are left alone.  When the cluster is deleted with  *)
(* its clean-up, a group it names and that holds no volume may go,         *)
(* whoever has made it.                                                    *)
(***************************************************************************)
EXTENDS FiniteSets

CONSTANTS
    Disk, Vg,
    Initial   \* the disks of the groups that others have made

VARIABLES
    members,  \* the disks of each group
    named,    \* the disks the specification names for it
    ending,   \* the cluster is deleted, with its clean-up
    inUse     \* the disks that hold logical volumes

groupVars == <<members, named, ending, inUse>>

\* A group that others have made stays what it was, unless a clean-up removes it.
Ours == {g \in Vg : members[g] # Initial[g]}
Free(ds) == \A g \in Vg : members[g] \cap ds = {}

GroupsInit ==
    /\ members = Initial /\ named \in [Vg -> SUBSET Disk] /\ inUse = {}
    /\ ending = FALSE

Ask ==
    /\ named' \in [Vg -> SUBSET Disk] /\ ending' \in BOOLEAN
    /\ UNCHANGED <<members, inUse>>

Create(g) ==
    /\ members[g] = {} /\ named[g] # {} /\ Free(named[g])
    /\ members' = [members EXCEPT ![g] = named[g]]
    /\ UNCHANGED <<named, ending, inUse>>

Extend(g, ds) ==
    /\ members[g] # {} /\ ds \subseteq named[g] /\ Free(ds)
    /\ members' = [members EXCEPT ![g] = @ \cup ds]
    /\ UNCHANGED <<named, ending, inUse>>

Drop(g, ds) ==
    /\ ds \subseteq members[g] /\ ds \cap named[g] = {} /\ ds \cap inUse = {}
    /\ members' = [members EXCEPT ![g] = @ \ ds]
    /\ UNCHANGED <<named, ending, inUse>>

Remove(g) ==
    /\ ending /\ named[g] # {} /\ members[g] \cap inUse = {}
    /\ members' = [members EXCEPT ![g] = {}]
    /\ UNCHANGED <<named, ending, inUse>>

Use ==
    /\ inUse' \subseteq UNION {members[g] : g \in Vg}
    /\ UNCHANGED <<members, named, ending>>

GroupsNext ==
    \/ Ask \/ Use \/ \E g \in Vg : Create(g) \/ Remove(g)
    \/ \E g \in Ours, ds \in SUBSET Disk : Extend(g, ds) \/ Drop(g, ds)

GroupsSpec == GroupsInit /\ [][GroupsNext]_groupVars
=============================================================================
