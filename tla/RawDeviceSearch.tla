---------------------------- MODULE RawDeviceSearch ----------------------------
(***************************************************************************)
(* The arithmetic and the list searches of the controller service          *)
(* (driver/raw_device/controller.go), which RawDeviceCsi abstracts to      *)
(* sets and sizes in GiB: how a CreateVolume rounds its capacity range,    *)
(* places itself on a node and picks a device, and what a GetCapacity      *)
(* answers.  One call runs from "called" to its answer; each loop takes    *)
(* one step per element of the lister's list, whose order is arbitrary.    *)
(*                                                                         *)
(* Sizes are in bytes.  GiB stands for 2^30 and MaxBytes for the largest   *)
(* int64, so that both the rounding and the overflow of a left shift can   *)
(* be reached with small numbers.                                          *)
(***************************************************************************)
EXTENDS Integers, Sequences

CONSTANTS
    GiB,       \* bytes shifted out by 30 bits
    MaxBytes,  \* the largest int64
    Node,
    NoNode,    \* no accessibility requirements; the empty node name
    Lists,     \* the lists a lister may return
    Amounts    \* required_bytes and limit_bytes of a capacity range

\* What the searches read of a RawDevice.  A disk below 2 GiB is recorded as
\* not available (pkg/util/sys/disks.go, GetAllDevices).
Listed == {o \in [size : 1 .. MaxBytes, avail : BOOLEAN, taken : BOOLEAN, node : Node] :
              o.avail => o.size >= 2 * GiB}

ASSUME SearchAssumption ==
    /\ GiB \in Nat \ {0}
    /\ MaxBytes \in Nat /\ (MaxBytes + 1) % GiB = 0
    /\ NoNode \notin Node
    /\ Lists \subseteq Seq(Listed)
    /\ Amounts \subseteq -MaxBytes .. MaxBytes

VARIABLES
    stage,  \* where the call is
    ask,    \* its capacity range and node
    list,   \* the list of the loop that is running
    next,   \* the index that loop reads next
    gb,     \* requestGb
    place,  \* the results of getMaxCapacity
    match,  \* matchIndex (0 for -1) and matchSize of createVolume
    room    \* the results of getCapacityByTopologyLabel

vars == <<stage, ask, list, next, gb, place, match, room>>

Asks == [required : Amounts, limit : Amounts, node : Node \cup {NoNode}]
OnNode(n) == {l \in Lists : \A i \in 1 .. Len(l) : l[i].node = n}

Init ==
    /\ stage = "called"
    /\ ask \in Asks
    /\ list = <<>> /\ next = 1
    /\ gb = 0
    /\ place = [node |-> NoNode, capacity |-> 0]
    /\ match = [index |-> 0, size |-> 0]
    /\ room = [available |-> 0, max |-> 0, min |-> 0]

IsFree(o) == ~o.taken /\ o.avail

\* Two's complement: the value an int64 keeps of x.
Int64(x) == ((x + MaxBytes + 1) % (2 * (MaxBytes + 1))) - (MaxBytes + 1)

\* requestGb << 30
Bytes(g) == Int64(g * GiB)

-----------------------------------------------------------------------------
(* CreateVolume.                                                           *)

\* convertRequestCapacity
BadRange(required, limit) ==
    required < 0 \/ limit < 0 \/ (limit # 0 /\ required > limit)

\* Mutant: rounds down.
RoundDown(required) == IF required = 0 THEN 1 ELSE required \div GiB

RoundUp(required) == IF required = 0 THEN 1 ELSE (required - 1) \div GiB + 1

RefuseRange ==
    /\ stage = "called"
    /\ BadRange(ask.required, ask.limit)
    /\ stage' = "refused"
    /\ UNCHANGED <<ask, list, next, gb, place, match, room>>

Convert ==
    /\ stage = "called"
    /\ ~BadRange(ask.required, ask.limit)
    /\ gb' = RoundUp(ask.required)
    /\ \/ /\ ask.node = NoNode
          /\ stage' = "placing"
          /\ list' \in Lists
       \/ /\ ask.node # NoNode
          /\ stage' = "choosing"
          /\ list' \in OnNode(ask.node)
    /\ UNCHANGED <<ask, next, place, match, room>>

\* Mutant: every second element is skipped.
ReadsEverySecond(s) == stage = s /\ next <= Len(list) /\ next' = next + 2

Reads(s) == stage = s /\ next <= Len(list) /\ next' = next + 1
Ends(s) == stage = s /\ next > Len(list)

\* Mutant: a device that is in use but not taken by a volume counts too.
LargerUntaken(o) == ~o.taken /\ o.size > place.capacity

\* getMaxCapacity
Larger(o) == IsFree(o) /\ o.size > place.capacity

PlaceNext ==
    /\ Reads("placing")
    /\ LET o == list[next]
       IN  place' = IF Larger(o) THEN [node |-> o.node, capacity |-> o.size] ELSE place
    /\ UNCHANGED <<stage, ask, list, gb, match, room>>

\* The node is decided; createVolume lists again, so the list may be another.
Placed ==
    /\ Ends("placing")
    /\ \/ /\ place.node = NoNode \/ place.capacity < Bytes(gb)
          /\ stage' = "refused"
          /\ UNCHANGED <<list, next>>
       \/ /\ place.node # NoNode /\ place.capacity >= Bytes(gb)
          /\ stage' = "choosing"
          /\ next' = 1
          /\ list' \in OnNode(place.node)
    /\ UNCHANGED <<ask, gb, place, match, room>>

\* createVolume, of a request for g GiB
Holds(o, g) == IsFree(o) /\ o.size \div GiB >= g
Fits(o) == Holds(o, gb)

\* Mutant: the last device that fits is taken, not the smallest.
BetterLast(o) == Fits(o)

Better(o) == Fits(o) /\ (match.size = 0 \/ o.size < match.size)

ChooseNext ==
    /\ Reads("choosing")
    /\ LET o == list[next]
       IN  match' = IF Better(o) THEN [index |-> next, size |-> o.size] ELSE match
    /\ UNCHANGED <<stage, ask, list, gb, place, room>>

Chosen ==
    /\ Ends("choosing")
    /\ stage' = IF match.index > 0 THEN "created" ELSE "refused"
    /\ UNCHANGED <<ask, list, next, gb, place, match, room>>

\* The capacity_bytes of the answer.
CapacityBytes == Bytes(gb)

-----------------------------------------------------------------------------
(* GetCapacity with a topology, getCapacityByTopologyLabel.                *)

StartMeasure ==
    /\ stage = "called"
    /\ ask.node # NoNode
    /\ stage' = "measuring"
    /\ list' \in OnNode(ask.node)
    /\ UNCHANGED <<ask, next, gb, place, match, room>>

\* Mutant: maximum and minimum look at every device.
MeasureAll(o) ==
    [available |-> Int64(room.available + o.size),
     max |-> IF o.size > room.max THEN o.size ELSE room.max,
     min |-> IF next = 1 \/ o.size < room.min THEN o.size ELSE room.min]

\* The minimum starts from the first of the list, when that one is free.
Measure(o) ==
    IF ~IsFree(o) THEN room
    ELSE [available |-> Int64(room.available + o.size),
          max |-> IF o.size > room.max THEN o.size ELSE room.max,
          min |-> IF next = 1 \/ o.size < room.min THEN o.size ELSE room.min]

MeasureNext ==
    /\ Reads("measuring")
    /\ room' = Measure(list[next])
    /\ UNCHANGED <<stage, ask, list, gb, place, match>>

Measured ==
    /\ Ends("measuring")
    /\ stage' = "measured"
    /\ UNCHANGED <<ask, list, next, gb, place, match, room>>

Next ==
    \/ RefuseRange \/ Convert \/ PlaceNext \/ Placed \/ ChooseNext \/ Chosen
    \/ StartMeasure \/ MeasureNext \/ Measured

Spec == Init /\ [][Next]_vars

-----------------------------------------------------------------------------

\* Every variable has its type; no loop reads past the end of its list.
TypeOK ==
    /\ stage \in {"called", "placing", "choosing", "created", "refused",
                  "measuring", "measured"}
    /\ ask \in Asks
    /\ list \in Seq(Listed)
    /\ next \in 1 .. Len(list) + 1
    /\ gb \in Nat
    /\ place \in [node : Node \cup {NoNode}, capacity : 0 .. MaxBytes]
    /\ match \in [index : 0 .. Len(list), size : 0 .. MaxBytes]
    /\ room \in [available : Int, max : 0 .. MaxBytes, min : 0 .. MaxBytes]

\* When getMaxCapacity returns, the node it names has a free device of the
\* capacity it names, and no free device of the list is larger; it names no
\* node only when no device is free.
PlacesOnLargest ==
    Ends("placing") =>
        /\ \A i \in 1 .. Len(list) : IsFree(list[i]) => list[i].size <= place.capacity
        /\ place.node # NoNode =>
              \E i \in 1 .. Len(list) : /\ IsFree(list[i])
                                        /\ list[i].size = place.capacity
                                        /\ list[i].node = place.node
        /\ place.node = NoNode => \A i \in 1 .. Len(list) : ~IsFree(list[i])

\* When the loop of createVolume ends, its match is a free device that fits
\* and no smaller one fits; it has no match only when nothing fits.
ChoosesBestFit ==
    Ends("choosing") =>
        \/ /\ match.index > 0
           /\ Fits(list[match.index])
           /\ \A i \in 1 .. Len(list) :
                 Fits(list[i]) => list[match.index].size <= list[i].size
        \/ /\ match.index = 0
           /\ \A i \in 1 .. Len(list) : ~Fits(list[i])

\* A volume that is created is at least as large as required, the device is
\* at least as large as the capacity answered, and the shift that computes
\* that capacity does not overflow, however large the request was.
GrantCoversRequest ==
    stage = "created" => /\ ask.required <= CapacityBytes
                         /\ 0 < CapacityBytes
                         /\ CapacityBytes <= list[match.index].size

\* The maximum_volume_size of GetCapacity and the loop of createVolume agree: of
\* the requests for a node's devices, those are granted whose size, rounded up to
\* whole GiB, is within the maximum answered of the same devices, and no others.
\* The maximum itself need not be whole GiB, and then a volume of just that size,
\* which csi/csi.pb.go:2592-2595 says can be had, is refused.
GrantsUpToMaximum ==
    stage = "measured" =>
        \A r \in 0 .. MaxBytes :
            (\E i \in 1 .. Len(list) : Holds(list[i], RoundUp(r)))
                <=> RoundUp(r) * GiB <= room.max

-----------------------------------------------------------------------------
(* The inductive invariant: what each loop has established of the part of  *)
(* its list that it has read.                                              *)

Read == 1 .. next - 1

LargestRead(size) ==
    /\ \A i \in Read : IsFree(list[i]) => list[i].size <= size
    /\ size > 0 => \E i \in Read : IsFree(list[i]) /\ list[i].size = size

PlaceLoop ==
    /\ LargestRead(place.capacity)
    /\ place.node = NoNode => place.capacity = 0
    /\ place.node # NoNode => \E i \in Read : /\ IsFree(list[i])
                                             /\ list[i].size = place.capacity
                                             /\ list[i].node = place.node

MatchLoop ==
    /\ match.index = 0 => match.size = 0 /\ \A i \in Read : ~Fits(list[i])
    /\ match.index > 0 => /\ match.index \in Read
                          /\ Fits(list[match.index])
                          /\ match.size = list[match.index].size
                          /\ \A i \in Read : Fits(list[i]) => match.size <= list[i].size

Fresh == next = 1 /\ place = [node |-> NoNode, capacity |-> 0]
                  /\ match = [index |-> 0, size |-> 0] /\ room.max = 0

Rounded == ~BadRange(ask.required, ask.limit) /\ gb = RoundUp(ask.required)

SearchInv ==
    /\ TypeOK
    /\ stage = "called" => Fresh
    /\ stage = "placing" => PlaceLoop /\ match = [index |-> 0, size |-> 0]
    /\ stage = "choosing" => MatchLoop
    /\ stage \in {"placing", "choosing", "created"} => Rounded
    /\ stage = "created" => match.index > 0 /\ Fits(list[match.index])
    /\ stage = "measuring" => LargestRead(room.max)
    /\ stage = "measured" => next = Len(list) + 1 /\ LargestRead(room.max)
=============================================================================
