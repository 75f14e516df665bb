---------------------------- MODULE MCTopolvmNode ----------------------------
(***************************************************************************)
(* Small instances of TopolvmNode: what its administrator may ask for, and *)
(* what was there before.                                                  *)
(***************************************************************************)
EXTENDS TopolvmNode, TLC

CONSTANTS d1, d2, d3, ga, gb

W(a, b) == ga :> a @@ gb :> b

\* A class that grows or shrinks, and one of another name that takes a disk of it.
Rename == {W({d1}, NoClass), W({d1, d2}, NoClass), W(NoClass, {d2})}
OtherName == {W(NoClass, {d2})}

\* A class that grows, shrinks, and moves to another disk.
OneClass == {W({d1}, NoClass), W({d1, d2}, NoClass), W({d2}, NoClass)}

\* A class of two disks; or of one of them, and another class under the name of
\* a group that exists.
OldGroup == {W({d1, d2}, NoClass), W({d2}, {d3})}

EveryDisk == {W({}, NoClass)}

AllRaw   == [d \in Disk |-> Raw]
ForeignB == [d \in Disk |-> IF d = d3 THEN gb ELSE Raw]
=============================================================================
