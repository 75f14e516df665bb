--------------------------- MODULE MCRawDeviceSearch ---------------------------
(***************************************************************************)
(* Small instances of RawDeviceSearch: a GiB of 2 bytes and integers of 4  *)
(* bits beside it, so that sizes fall between whole GiBs and the largest   *)
(* requests overflow when they are shifted back.                           *)
(***************************************************************************)
EXTENDS RawDeviceSearch, SequencesExt

CONSTANTS n1, n2

Free(size, n)  == [size |-> size, avail |-> TRUE, taken |-> FALSE, node |-> n]
Taken(size, n) == [size |-> size, avail |-> TRUE, taken |-> TRUE, node |-> n]
InUse(size, n) == [size |-> size, avail |-> FALSE, taken |-> FALSE, node |-> n]

SomeDevices(n) == {Free(4, n), Free(5, n), Free(6, n), Taken(4, n), InUse(15, n)}

AllLists == BoundedSeq(SomeDevices(n1), 3)
                \cup BoundedSeq(SomeDevices(n1) \cup SomeDevices(n2), 2)
SomeAmounts == {-1, 0, 1, 3, 4, 5, 6, 15}
=============================================================================
