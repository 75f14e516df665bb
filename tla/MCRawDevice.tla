----------------------------- MODULE MCRawDevice -----------------------------
(***************************************************************************)
(* Small instances of RawDeviceSystem.  The configurations choose among    *)
(* these definitions; every bound is a constant they set.                  *)
(***************************************************************************)
EXTENDS RawDeviceInvariant

CONSTANTS n1, n2, d1, d2, d3, v1, v2, v3

D(size) == [size |-> size, avail |-> TRUE]
Used(size) == [size |-> size, avail |-> FALSE]

OneNode  == [d \in Device |-> n1]
TwoNodes == [d \in Device |-> IF d = d1 THEN n1 ELSE n2]

\* Requests: with and without accessibility requirements, of two sizes.
AskSmall == [v \in Volume |-> [size |-> 1, node |-> n1]]
AskMixed == [v \in Volume |-> IF v = v1 THEN [size |-> 1, node |-> n1]
                              ELSE [size |-> 2, node |-> AnyNode]]

\* Disks: all of them small, or only the first.
AllSmall == [d \in Device |-> D(1)]
Mixed    == [d \in Device |-> IF d = d1 THEN D(1) ELSE D(2)]

\* Changes: none; a disk that comes and goes or is replaced by a larger one
\* that is in use; a disk that is resized or put to use.
NoChanges == [d \in Device |-> {}]
D1Changes == [d \in Device |-> IF d = d1 THEN {Gone, D(1), Used(2)} ELSE {}]
D1Reuse   == [d \in Device |-> IF d = d1 THEN {D(2), Used(1)} ELSE {}]
=============================================================================
