--------------------------- MODULE VolumeAllocation ---------------------------
(***************************************************************************)
(* What the raw device driver promises: every volume is given at most one  *)
(* device in its life, and a device belongs to at most one volume at a     *)
(* time.                                                                   *)
(***************************************************************************)
CONSTANTS Volume, Device, NoDevice

VARIABLES
    alloc,  \* the device of each volume, or NoDevice
    ended   \* volumes that have been deleted

Init ==
    /\ alloc = [v \in Volume |-> NoDevice]
    /\ ended = {}

Allocate(v, d) ==
    /\ v \notin ended
    /\ alloc[v] = NoDevice
    /\ \A w \in Volume : alloc[w] # d
    /\ alloc' = [alloc EXCEPT ![v] = d]
    /\ UNCHANGED ended

Free(v) ==
    /\ alloc[v] # NoDevice
    /\ alloc' = [alloc EXCEPT ![v] = NoDevice]
    /\ ended' = ended \cup {v}

Next == \E v \in Volume : Free(v) \/ \E d \in Device : Allocate(v, d)

Spec == Init /\ [][Next]_<<alloc, ended>>
=============================================================================
