------------------------- MODULE RawDeviceSearchProofs -------------------------
(***************************************************************************)
(* Proofs about RawDeviceSearch for every list of devices, every capacity  *)
(* range and every width of the integers.                                  *)
(***************************************************************************)
EXTENDS RawDeviceSearch, TLAPS

-----------------------------------------------------------------------------
(* Arithmetic.                                                             *)

\* What an integer division leaves over is less than the divisor.
LEMMA Division ==
    ASSUME NEW a \in Nat, NEW b \in Nat \ {0}
    PROVE  /\ a \div b \in Nat
           /\ (a \div b) * b <= a
           /\ a < (a \div b + 1) * b
  OBVIOUS

LEMMA Product ==
    ASSUME NEW a \in Nat, NEW b \in Nat, NEW c \in Nat, a <= b
    PROVE  a * c <= b * c /\ a * c \in Nat /\ b * c \in Nat
  OBVIOUS

\* A value that an int64 can hold is kept as it is.
LEMMA NoOverflow ==
    ASSUME NEW x \in 0 .. MaxBytes
    PROVE  Int64(x) = x
<1> DEFINE m == MaxBytes + 1
<1>1. m \in Nat /\ x + m \in Nat /\ x + m < 2 * m /\ 2 * m > 0
  BY SearchAssumption
<1>2. (x + m) % (2 * m) = x + m
  BY <1>1
<1> QED
  BY <1>1, <1>2, SearchAssumption DEF Int64

LEMMA RoundUpCovers ==
    ASSUME NEW r \in Nat
    PROVE  /\ RoundUp(r) \in Nat \ {0}
           /\ r <= RoundUp(r) * GiB
<1>1. CASE r = 0
  BY <1>1, SearchAssumption DEF RoundUp
<1>2. CASE r # 0
  <2>1. r - 1 \in Nat
    BY <1>2
  <2>2. (r - 1) \div GiB \in Nat /\ r - 1 < ((r - 1) \div GiB + 1) * GiB
    BY <2>1, Division, SearchAssumption
  <2>3. ((r - 1) \div GiB + 1) * GiB \in Int
    BY <2>2, SearchAssumption
  <2> QED
    BY <1>2, <2>2, <2>3 DEF RoundUp
<1> QED
  BY <1>1, <1>2

-----------------------------------------------------------------------------
(* The invariant.                                                          *)

LEMMA AmountsAreNumbers == ask \in Asks => ask.required \in Int /\ ask.limit \in Int
<1>1. \A a \in Amounts : a \in Int
  BY SearchAssumption
<1> QED
  BY <1>1 DEF Asks

LEMMA SizesArePositive ==
    TypeOK => /\ next \in Nat
              /\ \A i \in 1 .. Len(list) : list[i].size \in 1 .. MaxBytes
              /\ next > Len(list) => Read = 1 .. Len(list)
<1> SUFFICES ASSUME TypeOK
             PROVE  /\ next \in Nat
                    /\ \A i \in 1 .. Len(list) : list[i].size \in 1 .. MaxBytes
                    /\ next > Len(list) => Read = 1 .. Len(list)
  OBVIOUS
<1>1. list \in Seq(Listed) /\ next \in 1 .. Len(list) + 1
  BY DEF TypeOK
<1>2. \A i \in 1 .. Len(list) : list[i] \in Listed
  BY <1>1
<1> QED
  BY <1>1, <1>2 DEF Listed, Read

LEMMA WrapIsNumber ==
    ASSUME NEW x \in Int
    PROVE  Int64(x) \in Int
<1>1. MaxBytes + 1 \in Nat /\ 2 * (MaxBytes + 1) \in Nat \ {0}
  BY SearchAssumption
<1>2. \A y \in Int, n \in Nat \ {0} : y % n \in Int
  OBVIOUS
<1>3. (x + MaxBytes + 1) % (2 * (MaxBytes + 1)) \in Int
  <2>1. x + MaxBytes + 1 \in Int
    BY SearchAssumption
  <2> QED
    BY <1>1, <1>2, <2>1, Zenon
<1> QED
  BY <1>1, <1>3 DEF Int64

LEMMA ListsAreTyped == \A l \in Lists : l \in Seq(Listed)
  BY SearchAssumption

LEMMA SearchInit == Init => SearchInv
<1> SUFFICES ASSUME Init PROVE SearchInv
  OBVIOUS
<1>1. TypeOK
  BY SearchAssumption DEF Init, TypeOK
<1> QED
  BY <1>1 DEF Init, SearchInv, Fresh

LEMMA RoundsUp ==
    ASSUME SearchInv, Convert
    PROVE  gb' \in Nat /\ Rounded'
<1>1. ask.required \in Int /\ ask.limit \in Int
  BY AmountsAreNumbers DEF SearchInv, TypeOK
<1>2. ask.required \in Nat
  BY <1>1 DEF Convert, BadRange
<1> QED
  BY <1>2, RoundUpCovers DEF Convert, Rounded

LEMMA SearchNext == SearchInv /\ [Next]_vars => SearchInv'
<1> SUFFICES ASSUME SearchInv, [Next]_vars PROVE SearchInv'
  OBVIOUS
<1>1. TypeOK
  BY DEF SearchInv
<1>2. MaxBytes \in Nat /\ GiB \in Nat \ {0} /\ NoNode \notin Node
  BY SearchAssumption
<1>3. ASSUME next <= Len(list)
      PROVE  /\ next \in 1 .. Len(list) /\ list[next] \in Listed
             /\ list[next].size \in 1 .. MaxBytes /\ list[next].node \in Node
  BY <1>1, <1>3 DEF TypeOK, Listed
<1>4. CASE RefuseRange
  BY <1>1, <1>4 DEF RefuseRange, TypeOK, SearchInv
<1>5. CASE Convert
  <2>1. gb' \in Nat /\ Rounded'
    BY <1>5, RoundsUp
  <2>2. /\ list' \in Seq(Listed) /\ next' = 1
        /\ place' = [node |-> NoNode, capacity |-> 0]
        /\ match' = [index |-> 0, size |-> 0]
    BY <1>5, ListsAreTyped DEF Convert, OnNode, SearchInv, Fresh
  <2>3. TypeOK'
    BY <1>1, <1>5, <2>1, <2>2 DEF Convert, TypeOK
  <2> QED
    BY <1>5, <2>1, <2>2, <2>3
    DEF Convert, SearchInv, PlaceLoop, MatchLoop, LargestRead, Read
<1>6. CASE PlaceNext
  <2>1. TypeOK'
    BY <1>1, <1>3, <1>6 DEF PlaceNext, Reads, TypeOK
  <2>2. /\ place \in [node : Node \cup {NoNode}, capacity : 0 .. MaxBytes]
        /\ next \in Nat /\ list' = list /\ next' = next + 1 /\ PlaceLoop
        /\ \A i \in 1 .. Len(list) : list[i].size \in 1 .. MaxBytes
    BY <1>1, <1>6, SizesArePositive DEF PlaceNext, Reads, SearchInv, TypeOK
  <2>3. PlaceLoop'
    <3>1. CASE Larger(list[next])
      <4>1. place' = [node |-> list[next].node, capacity |-> list[next].size]
        BY <1>6, <3>1 DEF PlaceNext
      <4>2. IsFree(list[next]) /\ list[next].size > place.capacity
        BY <3>1 DEF Larger
      <4>3. /\ list[next].size \in 1 .. MaxBytes /\ list[next].node \in Node
            /\ next \in 1 .. Len(list)
        BY <1>3, <1>6 DEF PlaceNext, Reads
      <4>4. /\ Read' = Read \cup {next} /\ list' = list
            /\ place'.node = list[next].node /\ place'.capacity = list[next].size
        <5>1. Read' = 1 .. next /\ 1 .. next = (1 .. next - 1) \cup {next}
          BY <2>2, <4>3 DEF Read
        <5> QED
          BY <2>2, <4>1, <5>1 DEF Read
      <4>5. \A i \in Read : IsFree(list[i]) => list[i].size <= place.capacity
        BY <2>2 DEF PlaceLoop, LargestRead
      <4>6. Read \subseteq 1 .. Len(list)
        BY <2>2, <4>3 DEF Read
      <4>7. LargestRead(place.capacity)'
        BY <2>2, <4>2, <4>3, <4>4, <4>5, <4>6 DEF LargestRead, IsFree
      <4> QED
        BY <1>2, <4>2, <4>3, <4>4, <4>7 DEF PlaceLoop, IsFree
    <3>2. CASE ~Larger(list[next])
      <4>1. place' = place
        BY <1>6, <3>2 DEF PlaceNext
      <4> QED
        BY <1>2, <1>3, <1>6, <2>2, <3>2, <4>1
        DEF PlaceNext, Reads, PlaceLoop, LargestRead, Read, Larger, IsFree
    <3> QED
      BY <3>1, <3>2
  <2> QED
    BY <1>6, <2>1, <2>3 DEF PlaceNext, Reads, SearchInv, Rounded
<1>7. CASE Placed
  <2>1. CASE stage' = "refused" /\ UNCHANGED <<list, next>>
    BY <1>1, <1>7, <2>1 DEF Placed, TypeOK, SearchInv
  <2>2. CASE stage' = "choosing" /\ next' = 1 /\ list' \in OnNode(place.node)
    <3>1. list' \in Seq(Listed)
      BY <2>2, ListsAreTyped DEF OnNode
    <3>2. match' = [index |-> 0, size |-> 0]
      BY <1>7 DEF Placed, Ends, SearchInv
    <3>3. TypeOK'
      BY <1>1, <1>7, <2>2, <3>1, <3>2 DEF Placed, TypeOK
    <3> QED
      BY <1>7, <2>2, <3>2, <3>3 DEF Placed, Ends, SearchInv, Rounded, MatchLoop, Read
  <2> QED
    BY <1>7, <2>1, <2>2 DEF Placed
<1>8. CASE ChooseNext
  <2>1. TypeOK'
    BY <1>1, <1>3, <1>8 DEF ChooseNext, Reads, TypeOK
  <2>2. /\ match \in [index : 0 .. Len(list), size : 0 .. MaxBytes]
        /\ next \in Nat /\ list' = list /\ next' = next + 1 /\ gb' = gb /\ MatchLoop
        /\ \A i \in 1 .. Len(list) : list[i].size \in 1 .. MaxBytes
    BY <1>1, <1>8, SizesArePositive DEF ChooseNext, Reads, SearchInv, TypeOK
  <2>3. MatchLoop'
    <3>1. CASE Better(list[next])
      <4>1. match' = [index |-> next, size |-> list[next].size]
        BY <1>8, <3>1 DEF ChooseNext
      <4> QED
        BY <1>3, <1>8, <2>2, <3>1, <4>1 DEF ChooseNext, Reads, MatchLoop, Read, Better, Fits, Holds
    <3>2. CASE ~Better(list[next])
      <4>1. match' = match
        BY <1>8, <3>2 DEF ChooseNext
      <4> QED
        BY <1>3, <1>8, <2>2, <3>2, <4>1 DEF ChooseNext, Reads, MatchLoop, Read, Better, Fits, Holds
    <3> QED
      BY <3>1, <3>2
  <2> QED
    BY <1>8, <2>1, <2>3 DEF ChooseNext, Reads, SearchInv, Rounded
<1>9. CASE Chosen
  <2>1. TypeOK'
    BY <1>1, <1>9 DEF Chosen, TypeOK
  <2>2. MatchLoop /\ Rounded
    BY <1>9 DEF Chosen, Ends, SearchInv
  <2> QED
    BY <1>9, <2>1, <2>2 DEF Chosen, SearchInv, MatchLoop, Rounded, Fits, Holds
<1>10. CASE StartMeasure
  <2>1. list' \in Seq(Listed) /\ next' = 1 /\ room'.max = 0
    BY <1>10, ListsAreTyped DEF StartMeasure, OnNode, SearchInv, Fresh
  <2>2. TypeOK'
    <3>1. match' \in [index : 0 .. Len(list'), size : 0 .. MaxBytes]
      BY <1>1, <1>2, <1>10, <2>1 DEF StartMeasure, SearchInv, Fresh
    <3> QED
      BY <1>1, <1>10, <2>1, <3>1 DEF StartMeasure, TypeOK
  <2> QED
    BY <1>10, <2>1, <2>2 DEF StartMeasure, SearchInv, LargestRead, Read
<1>11. CASE MeasureNext
  <2>1. Measure(list[next]) \in [available : Int, max : 0 .. MaxBytes, min : 0 .. MaxBytes]
    <3>1. /\ room \in [available : Int, max : 0 .. MaxBytes, min : 0 .. MaxBytes]
          /\ list[next].size \in 1 .. MaxBytes
      BY <1>1, <1>3, <1>11 DEF MeasureNext, Reads, TypeOK
    <3>2. Int64(room.available + list[next].size) \in Int
      BY <1>2, <3>1, WrapIsNumber
    <3> QED
      BY <1>2, <3>1, <3>2 DEF Measure
  <2>2. TypeOK'
    BY <1>1, <1>11, <2>1 DEF MeasureNext, Reads, TypeOK
  <2>3. /\ room.max \in 0 .. MaxBytes
        /\ next \in Nat /\ list' = list /\ next' = next + 1 /\ LargestRead(room.max)
        /\ \A i \in 1 .. Len(list) : list[i].size \in 1 .. MaxBytes
    BY <1>1, <1>11, SizesArePositive DEF MeasureNext, Reads, SearchInv, TypeOK
  <2>4. LargestRead(room.max)'
    <3>1. room'.max = IF IsFree(list[next]) /\ list[next].size > room.max
                      THEN list[next].size ELSE room.max
      BY <1>11 DEF MeasureNext, Measure
    <3> QED
      BY <1>3, <1>11, <2>3, <3>1 DEF MeasureNext, Reads, LargestRead, Read, IsFree
  <2> QED
    BY <1>11, <2>2, <2>4 DEF MeasureNext, Reads, SearchInv
<1>12. CASE Measured
  BY <1>1, <1>12 DEF Measured, Ends, TypeOK, SearchInv, LargestRead, Read
<1>13. CASE UNCHANGED vars
  BY <1>1, <1>13
  DEF vars, TypeOK, SearchInv, Fresh, Rounded, PlaceLoop, MatchLoop, LargestRead, Read, Fits, Holds
<1> QED
  BY <1>4, <1>5, <1>6, <1>7, <1>8, <1>9, <1>10, <1>11, <1>12, <1>13 DEF Next

THEOREM SearchInvariant == Spec => []SearchInv
<1>1. Init => SearchInv
  BY SearchInit
<1>2. SearchInv /\ [Next]_vars => SearchInv'
  BY SearchNext
<1> QED
  BY <1>1, <1>2, PTL DEF Spec

-----------------------------------------------------------------------------
(* The results.                                                            *)

\* getMaxCapacity names the node and the size of a largest free device of
\* whatever list it is given.
THEOREM LargestIsPlaced == Spec => []PlacesOnLargest
<1>1. SearchInv => PlacesOnLargest
  <2> SUFFICES ASSUME SearchInv, Ends("placing") PROVE PlacesOnLargest
    BY DEF PlacesOnLargest
  <2>1. /\ Read = 1 .. Len(list) /\ PlaceLoop
        /\ \A i \in 1 .. Len(list) : list[i].size \in 1 .. MaxBytes
    BY SizesArePositive DEF SearchInv, Ends
  <2> QED
    BY <2>1 DEF PlaceLoop, LargestRead, PlacesOnLargest
<1> QED
  BY <1>1, SearchInvariant, PTL

\* The loop of createVolume ends with a smallest device among those that fit,
\* and without one only when none fits, whatever the order of the list.
THEOREM BestFitIsChosen == Spec => []ChoosesBestFit
<1>1. SearchInv => ChoosesBestFit
  <2> SUFFICES ASSUME SearchInv, Ends("choosing") PROVE ChoosesBestFit
    BY DEF ChoosesBestFit
  <2>1. Read = 1 .. Len(list) /\ MatchLoop /\ match.index \in Nat
    BY SizesArePositive DEF SearchInv, Ends, TypeOK
  <2> QED
    BY <2>1 DEF MatchLoop, ChoosesBestFit
<1> QED
  BY <1>1, SearchInvariant, PTL

\* A CreateVolume that succeeds answers a capacity that covers what was
\* required and that its device has, and the shift requestGb << 30 has not
\* overflowed (convertRequestCapacity, createVolume).
THEOREM GrantIsLargeEnough == Spec => []GrantCoversRequest
<1>1. ASSUME SearchInv, stage = "created" PROVE GrantCoversRequest
  <2> DEFINE o == list[match.index]
  <2>1. o \in Listed /\ Fits(o) /\ gb \in Nat /\ Rounded
    BY <1>1 DEF SearchInv, TypeOK
  <2>2. o.size \in 1 .. MaxBytes /\ gb <= o.size \div GiB
    BY <2>1 DEF Listed, Fits, Holds
  <2>3. GiB \in Nat \ {0} /\ MaxBytes \in Nat
    BY SearchAssumption
  <2>4. gb * GiB <= (o.size \div GiB) * GiB /\ gb * GiB \in Nat
    <3>1. o.size \in Nat /\ o.size \div GiB \in Nat
      BY <2>2, <2>3, Division
    <3> QED
      BY <2>1, <2>2, <2>3, <3>1, Product
  <2>5. (o.size \div GiB) * GiB <= o.size /\ (o.size \div GiB) * GiB \in Int
    BY <2>2, <2>3, Division
  <2>6. gb * GiB <= o.size
    BY <2>2, <2>4, <2>5
  <2>7. Bytes(gb) = gb * GiB
    BY <2>2, <2>3, <2>4, <2>6, NoOverflow DEF Bytes
  <2>8. ask.required \in Int
    BY <1>1, AmountsAreNumbers DEF SearchInv, TypeOK
  <2>9. gb \in Nat \ {0} /\ ask.required <= gb * GiB
    BY <2>1, <2>8, RoundUpCovers DEF Rounded, BadRange
  <2>10. 0 < gb * GiB
    BY <2>3, <2>9
  <2> QED
    BY <2>6, <2>7, <2>9, <2>10 DEF GrantCoversRequest, CapacityBytes
<1>2. SearchInv => GrantCoversRequest
  BY <1>1 DEF GrantCoversRequest
<1> QED
  BY <1>2, SearchInvariant, PTL

\* A device has room for g GiB exactly when g GiB are not more than its bytes.
LEMMA WholeUnits ==
    ASSUME NEW size \in Nat, NEW g \in Nat
    PROVE  size \div GiB >= g <=> g * GiB <= size
<1> DEFINE d == size \div GiB
<1>1. /\ GiB \in Nat \ {0} /\ d \in Nat /\ d * GiB \in Nat /\ d * GiB <= size
      /\ (d + 1) * GiB \in Nat /\ size < (d + 1) * GiB /\ g * GiB \in Nat
  <2>1. GiB \in Nat \ {0} /\ d \in Nat /\ d * GiB <= size /\ size < (d + 1) * GiB
    BY Division, SearchAssumption
  <2> QED
    BY <2>1, Product
<1> HIDE DEF d
<1>2. CASE g <= d
  BY <1>1, <1>2, Product
<1>3. CASE g > d
  <2>1. (d + 1) * GiB <= g * GiB
    BY <1>1, <1>3, Product
  <2> QED
    BY <1>1, <1>3, <2>1
<1> QED
  BY <1>1, <1>2, <1>3 DEF d

\* The maximum_volume_size that getCapacityByTopologyLabel answers bounds exactly
\* the requests, in whole GiB, that createVolume grants from the same list.
THEOREM MaximumIsGranted == Spec => []GrantsUpToMaximum
<1>1. ASSUME SearchInv, stage = "measured", NEW r \in 0 .. MaxBytes
      PROVE  (\E i \in 1 .. Len(list) : Holds(list[i], RoundUp(r)))
                <=> RoundUp(r) * GiB <= room.max
  <2> DEFINE g == RoundUp(r)
  <2>1. r \in Nat /\ g \in Nat \ {0} /\ GiB \in Nat \ {0}
    BY RoundUpCovers, SearchAssumption
  <2>2. g * GiB \in Nat /\ g * GiB > 0
    BY <2>1
  <2> HIDE DEF g
  <2>3. /\ LargestRead(room.max) /\ Read = 1 .. Len(list) /\ room.max \in Nat
        /\ \A i \in 1 .. Len(list) : list[i].size \in Nat
    BY <1>1, SizesArePositive DEF SearchInv, TypeOK
  <2>4. \A i \in 1 .. Len(list) :
           Holds(list[i], g) <=> IsFree(list[i]) /\ g * GiB <= list[i].size
    BY <2>1, <2>3, WholeUnits DEF Holds
  <2>5. (\E i \in 1 .. Len(list) : Holds(list[i], g)) => g * GiB <= room.max
    BY <2>2, <2>3, <2>4 DEF LargestRead
  <2>6. g * GiB <= room.max => \E i \in 1 .. Len(list) : Holds(list[i], g)
    BY <2>2, <2>3, <2>4 DEF LargestRead
  <2> QED
    BY <2>5, <2>6 DEF g
<1>2. SearchInv => GrantsUpToMaximum
  BY <1>1 DEF GrantsUpToMaximum
<1> QED
  BY <1>2, SearchInvariant, PTL
=============================================================================
