---------------------------- MODULE RawDeviceProofs ----------------------------
(***************************************************************************)
(* Proofs about RawDeviceSystem for every number of devices, volumes,      *)
(* replicas, daemons, calls, faults, disk changes and missed disks; then   *)
(* what holds when nothing times out, restarts, is missed or goes.         *)
(***************************************************************************)
EXTENDS RawDeviceInvariant, FiniteSetTheorems, TLAPS

Copy == Object \cup {Absent}

-----------------------------------------------------------------------------
(* Versions and writes.                                                    *)

\* A write that gives its object the next resource version keeps every copy
\* a version: the copies of the object written become out of date.
LEMMA VersionKept ==
    ASSUME NEW s \in Listing, NEW n \in Nat, NEW d \in Device, NEW e \in Device,
           NEW o \in Copy, o # Absent => o.rv = n + 1 /\ o.name \in {NoName, d},
           NEW c \in Copy, Version(s, n, e, c)
    PROVE  Version([s EXCEPT ![d] = o], n + 1, e, c)
  BY ApiAssumption DEF Version, Listing, Copy, Object

\* The object such a write stores is itself a version.
LEMMA VersionStored ==
    ASSUME NEW s \in Listing, NEW n \in Nat, NEW d \in Device, NEW e \in Device,
           NEW o \in Copy, o # Absent => o.rv = n + 1 /\ o.name \in {NoName, d},
           Version(s, n, e, s[e])
    PROVE  Version([s EXCEPT ![d] = o], n + 1, e, [s EXCEPT ![d] = o][e])
  BY ApiAssumption DEF Version, Listing, Copy, Object

\* What a step may do to the API server and the informers: one such write,
\* nothing, or the delivery or restart of one reader.
GoodWrite(d, o) ==
    /\ o # Absent => o.rv = revision + 1 /\ o.name \in {NoName, d}
    /\ Commit(d, o)

ApiEffect ==
    \/ \E d \in Device, o \in Copy : GoodWrite(d, o)
    \/ UNCHANGED apiVars
    \/ \E r \in Reader : Deliver(r) \/ RestartReader(r)

ApiInv == ApiTypeOK /\ StoredVersions /\ CachedVersions /\ PendingVersions

LEMMA ApiTypePreserved == ApiTypeOK /\ ApiEffect => ApiTypeOK'
<1> SUFFICES ASSUME ApiTypeOK, ApiEffect PROVE ApiTypeOK'
  OBVIOUS
<1>1. ASSUME NEW d \in Device, NEW o \in Copy, GoodWrite(d, o) PROVE ApiTypeOK'
  <2>1. store' \in Listing
    BY <1>1 DEF GoodWrite, Commit, ApiTypeOK, Listing, Copy
  <2>2. pending' \in [Reader -> Seq(Listing)]
    BY <1>1, <2>1 DEF GoodWrite, Commit, ApiTypeOK
  <2>3. revision' \in Nat /\ cache' \in [Reader -> Listing]
    BY <1>1 DEF GoodWrite, Commit, ApiTypeOK
  <2> QED
    BY <2>1, <2>2, <2>3 DEF ApiTypeOK
<1>2. CASE UNCHANGED apiVars
  BY <1>2 DEF apiVars, ApiTypeOK
<1>3. ASSUME NEW r \in Reader, Deliver(r) PROVE ApiTypeOK'
  BY <1>3 DEF Deliver, ApiTypeOK
<1>4. ASSUME NEW r \in Reader, RestartReader(r) PROVE ApiTypeOK'
  <2>1. NothingListed \in Listing
    BY DEF NothingListed, Listing
  <2> QED
    BY <1>4, <2>1 DEF RestartReader, ApiTypeOK
<1> QED
  BY <1>1, <1>2, <1>3, <1>4 DEF ApiEffect

LEMMA VersionsStay ==
    ASSUME ApiTypeOK, ApiEffect, NEW d \in Device, NEW c \in Copy,
           Version(store, revision, d, c)
    PROVE  Version(store', revision', d, c)
<1>1. ASSUME NEW e \in Device, NEW o \in Copy, GoodWrite(e, o)
      PROVE  Version(store', revision', d, c)
  BY <1>1, VersionKept DEF GoodWrite, Commit, ApiTypeOK
<1>2. CASE UNCHANGED <<store, revision>>
  BY <1>2
<1> QED
  BY <1>1, <1>2 DEF ApiEffect, Deliver, RestartReader, apiVars

LEMMA StoredPreserved == ApiTypeOK /\ StoredVersions /\ ApiEffect => StoredVersions'
<1> SUFFICES ASSUME ApiTypeOK, StoredVersions, ApiEffect, NEW d \in Device
             PROVE  Version(store', revision', d, store'[d])
  BY DEF StoredVersions
<1>1. ASSUME NEW e \in Device, NEW o \in Copy, GoodWrite(e, o)
      PROVE  Version(store', revision', d, store'[d])
  BY <1>1, VersionStored DEF GoodWrite, Commit, ApiTypeOK, StoredVersions
<1>2. CASE UNCHANGED <<store, revision>>
  BY <1>2 DEF StoredVersions
<1> QED
  BY <1>1, <1>2 DEF ApiEffect, Deliver, RestartReader, apiVars

LEMMA CachedPreserved == ApiInv /\ ApiEffect => CachedVersions'
<1> SUFFICES ASSUME ApiInv, ApiEffect, NEW r \in Reader, NEW d \in Device
             PROVE  Version(store', revision', d, cache'[r][d])
  BY DEF CachedVersions
<1> USE DEF ApiInv
<1>1. CASE cache'[r] = cache[r]
  <2>1. cache[r][d] \in Copy /\ Version(store, revision, d, cache[r][d])
    BY DEF ApiTypeOK, Listing, Copy, CachedVersions
  <2> QED
    BY <1>1, <2>1, VersionsStay
<1>2. CASE Deliver(r)
  <2>1. /\ cache'[r] = pending[r][1]
        /\ 1 \in 1 .. Len(pending[r])
        /\ pending[r][1] \in Listing
    BY <1>2 DEF Deliver, ApiTypeOK
  <2>2. Version(store, revision, d, pending[r][1][d])
    BY <2>1 DEF PendingVersions
  <2> QED
    BY <1>2, <2>1, <2>2 DEF Deliver
<1>3. CASE RestartReader(r)
  BY <1>3 DEF RestartReader, ApiTypeOK, NothingListed, Version
<1> QED
  BY <1>1, <1>2, <1>3
  DEF ApiEffect, GoodWrite, Commit, apiVars, Deliver, RestartReader, ApiTypeOK

LEMMA PendingPreserved == ApiInv /\ ApiEffect => PendingVersions'
<1> SUFFICES ASSUME ApiInv, ApiEffect, NEW r \in Reader,
                    NEW i \in 1 .. Len(pending'[r]), NEW d \in Device
             PROVE  Version(store', revision', d, pending'[r][i][d])
  BY DEF PendingVersions
<1> USE DEF ApiInv
<1>1. ASSUME NEW j \in 1 .. Len(pending[r]), pending'[r][i] = pending[r][j]
      PROVE  Version(store', revision', d, pending'[r][i][d])
  <2>1. pending[r][j] \in Listing
    BY DEF ApiTypeOK
  <2>2. pending[r][j][d] \in Copy /\ Version(store, revision, d, pending[r][j][d])
    BY <2>1 DEF Listing, Copy, PendingVersions
  <2> QED
    BY <1>1, <2>2, VersionsStay
<1>2. CASE pending'[r][i] = store'
  BY <1>2, StoredPreserved DEF StoredVersions
<1>3. ASSUME NEW e \in Device, NEW o \in Copy, GoodWrite(e, o)
      PROVE  Version(store', revision', d, pending'[r][i][d])
  <2>1. /\ pending[r] \in Seq(Listing)
        /\ pending'[r] = Append(pending[r], store')
    BY <1>3 DEF GoodWrite, Commit, ApiTypeOK
  <2>2. CASE i = Len(pending[r]) + 1
    BY <2>1, <2>2, <1>2
  <2>3. CASE i # Len(pending[r]) + 1
    <3>1. i \in 1 .. Len(pending[r]) /\ pending'[r][i] = pending[r][i]
      BY <2>1, <2>3
    <3> QED
      BY <3>1, <1>1
  <2> QED
    BY <2>2, <2>3
<1>4. CASE pending'[r] = pending[r]
  BY <1>4, <1>1
<1>5. CASE Deliver(r)
  <2>1. /\ pending[r] \in Seq(Listing) /\ pending[r] # <<>>
        /\ pending'[r] = Tail(pending[r])
    BY <1>5 DEF Deliver, ApiTypeOK
  <2>2. /\ i + 1 \in 1 .. Len(pending[r])
        /\ pending'[r][i] = pending[r][i + 1]
    BY <2>1
  <2> QED
    BY <2>2, <1>1
<1>6. CASE RestartReader(r)
  <2>1. pending'[r] = <<store>> /\ store' = store
    BY <1>6 DEF RestartReader, ApiTypeOK
  <2> QED
    BY <2>1, <1>2
<1> QED
  BY <1>3, <1>4, <1>5, <1>6 DEF ApiEffect, apiVars, Deliver, RestartReader, ApiTypeOK

LEMMA ApiPreserved == ApiInv /\ ApiEffect => ApiInv'
  BY ApiTypePreserved, StoredPreserved, CachedPreserved, PendingPreserved DEF ApiInv

-----------------------------------------------------------------------------
(* Every step of the system is one of the effects above.                   *)

LEMMA PutEffect ==
    ASSUME ApiTypeOK, NEW d \in Device, NEW spec,
           spec.size \in Size, spec.avail \in BOOLEAN,
           NEW name \in {NoName, d}, Put(d, spec, name)
    PROVE  ApiEffect
<1> DEFINE o == [rv |-> revision + 1, size |-> spec.size, avail |-> spec.avail,
                 name |-> name]
<1>1. o \in Copy /\ o.rv = revision + 1 /\ o.name = name
  BY DEF ApiTypeOK, Copy, Object
<1>2. Commit(d, o)
  BY DEF Put
<1> QED
  BY <1>1, <1>2 DEF ApiEffect, GoodWrite

LEMMA UpdateStatusEffect ==
    ASSUME IInv, NEW k \in Call, UpdateStatus(k)
    PROVE  ApiEffect
<1>1. call[k].dev \in Device
  BY DEF UpdateStatus, IInv, ChosenAsAsked, AsAsked
<1>2. CASE WriteStatus(call[k].dev, call[k].seen, NewName(k))
  <2>1. store[call[k].dev].size \in Size /\ store[call[k].dev].avail \in BOOLEAN
    BY <1>1, <1>2 DEF WriteStatus, Newest, IInv, TypeOK, ApiTypeOK, Listing, Object
  <2>2. NewName(k) \in {NoName, call[k].dev}
    BY DEF NewName
  <2> QED
    BY <1>1, <1>2, <2>1, <2>2, PutEffect DEF WriteStatus, IInv, TypeOK
<1> QED
  BY <1>2 DEF UpdateStatus, ApiEffect

LEMMA ScanEffect ==
    ASSUME IInv, NEW n \in Daemon, ScanStep(n)
    PROVE  ApiEffect
<1> DEFINE spec(d) == scan[n].found[d]
<1>1. ASSUME NEW d \in Device, CreateRawDevice(n, d) PROVE ApiEffect
  <2>1. spec(d).size \in Size /\ spec(d).avail \in BOOLEAN
    BY <1>1 DEF CreateRawDevice, IInv, TypeOK, DiscoveryTypeOK, ScanRecord, Disk,
                ScanWritesFound
  <2> QED
    BY <1>1, <2>1, PutEffect DEF CreateRawDevice, CreateObject, IInv, TypeOK
<1>2. ASSUME NEW d \in Device, UpdateRawDevice(n, d) PROVE ApiEffect
  <2>1. CASE UNCHANGED apiVars
    BY <2>1 DEF ApiEffect
  <2>2. CASE Newest(d, scan[n].seen) /\ Put(d, spec(d), store[d].name)
    <3>1. spec(d).size \in Size /\ spec(d).avail \in BOOLEAN
      BY <1>2 DEF UpdateRawDevice, IInv, TypeOK, DiscoveryTypeOK, ScanRecord, Disk,
                  ScanWritesFound
    <3>2. store[d].name \in {NoName, d}
      BY <2>2 DEF Newest, IInv, OnlyVersions, StoredVersions, Version
    <3> QED
      BY <2>2, <3>1, <3>2, PutEffect DEF IInv, TypeOK
  <2> QED
    BY <1>2, <2>1, <2>2 DEF UpdateRawDevice, WriteSpec
<1>3. ASSUME NEW d \in Device, DeleteRawDevice(n, d) PROVE ApiEffect
  BY <1>3 DEF DeleteRawDevice, DeleteObject, GoodWrite, Copy, ApiEffect
<1> QED
  BY <1>1, <1>2, <1>3
  DEF ScanStep, StartScan, GetRawDevice, ListDeleted, EndScan, ApiEffect

LEMMA NextEffect == IInv /\ [Next]_vars => ApiEffect
<1> SUFFICES ASSUME IInv, [Next]_vars PROVE ApiEffect
  OBVIOUS
<1>1. ASSUME NEW r \in Reader, CacheSystemStep(r) PROVE ApiEffect
  BY <1>1 DEF CacheSystemStep, ApiEffect
<1>2. ASSUME NEW k \in Call, ControllerSystemStep(k) PROVE ApiEffect
  BY <1>2, UpdateStatusEffect
  DEF ControllerSystemStep, ControllerStep, PlaceVolume, ChooseDevice, FindVolume, ApiEffect
<1>3. ASSUME NEW k \in Call, DropSystemStep(k) PROVE ApiEffect
  BY <1>3 DEF DropSystemStep, DropAnswer, ApiEffect
<1>4. ASSUME NEW v \in Volume, ProvisionerSystemStep(v) PROVE ApiEffect
  BY <1>4 DEF ProvisionerSystemStep, ProvisionerStep, CallCreate, CallDelete, ReleaseVolume,
              TakeAnswer, TimeOut, ApiEffect
<1>5. ASSUME NEW n \in Daemon, ScanSystemStep(n) PROVE ApiEffect
  BY <1>5, ScanEffect DEF ScanSystemStep
<1>6. ASSUME NEW n \in Daemon, DaemonCrashSystemStep(n) PROVE ApiEffect
  BY <1>6 DEF DaemonCrashSystemStep, RestartDaemon, ApiEffect, Reader
<1>7. ASSUME NEW d \in Device, DiskSystemStep(d) PROVE ApiEffect
  BY <1>7 DEF DiskSystemStep, ChangeDisk, ApiEffect
<1>8. ASSUME NEW c \in Controller, CrashSystemStep(c) PROVE ApiEffect
  BY <1>8 DEF CrashSystemStep, CrashController, ApiEffect, Reader
<1>9. CASE UNCHANGED vars
  BY <1>9 DEF vars, ApiEffect
<1> QED
  BY <1>1, <1>2, <1>3, <1>4, <1>5, <1>6, <1>7, <1>8, <1>9 DEF Next

-----------------------------------------------------------------------------
(* The calls in progress.                                                  *)

GoodCall(s, n, x) == x \in CallRecord /\ AsAsked(x) /\ CallVersion(s, n, x)

GoodCalls(s, n, calls) ==
    /\ calls = [k \in Call |-> calls[k]]
    /\ \A k \in Call : calls[k] = Idle \/ GoodCall(s, n, calls[k])

LEMMA GoodCallsNow == IInv => GoodCalls(store, revision, call)
  BY DEF IInv, TypeOK, CallTypeOK, OnlyVersions, CallVersions, ChosenAsAsked, GoodCalls,
         GoodCall

LEMMA GoodCallsMeaning ==
    GoodCalls(store, revision, call) => CallTypeOK /\ CallVersions /\ ChosenAsAsked
  BY CsiAssumption
  DEF CallTypeOK, CallVersions, ChosenAsAsked, GoodCalls, GoodCall

\* One call changes to a good record.
LEMMA OneCall ==
    ASSUME IInv, NEW k \in Call, NEW x, x = Idle \/ GoodCall(store, revision, x)
    PROVE  GoodCalls(store, revision, [call EXCEPT ![k] = x])
  BY GoodCallsNow DEF GoodCalls

LEMMA ControllerCalls ==
    ASSUME IInv, NEW k \in Call, ControllerStep(k)
    PROVE  GoodCalls(store, revision, call')
<1> DEFINE x == call[k]
<1>1. x \in CallRecord /\ x # Idle /\ GoodCall(store, revision, x)
  BY GoodCallsNow, CsiAssumption
  DEF ControllerStep, PlaceVolume, ChooseDevice, FindVolume, UpdateStatus, At, GoodCalls,
      GoodCall
<1>2. ASSUME NEW stage \in {"ok", "error"}, stage = "ok" => x.stage = "chosen",
             Answer(k, stage)
      PROVE  GoodCalls(store, revision, call')
  <2> DEFINE y == [x EXCEPT !.stage = stage]
  <2>1. GoodCall(store, revision, y)
    BY <1>1, <1>2 DEF GoodCall, CallRecord, AsAsked, CallVersion
  <2>2. call' = [call EXCEPT ![k] = y]
    BY <1>2 DEF Answer
  <2> QED
    BY <2>1, <2>2, OneCall
<1>3. CASE PlaceVolume(k)
  <2>1. CASE Answer(k, "error")
    BY <2>1, <1>2
  <2>2. ASSUME NEW d \in Device,
               call' = [call EXCEPT ![k].stage = "placed", ![k].node = NodeOf[d]]
        PROVE  GoodCalls(store, revision, call')
    <3> DEFINE y == [x EXCEPT !.stage = "placed", !.node = NodeOf[d]]
    <3>1. GoodCall(store, revision, y)
      BY <1>1, <1>3, ApiAssumption DEF GoodCall, CallRecord, AsAsked, CallVersion,
                                       PlaceVolume, At
    <3>2. call' = [call EXCEPT ![k] = y]
      BY <2>2
    <3> QED
      BY <3>1, <3>2, OneCall
  <2> QED
    BY <1>3, <2>1, <2>2 DEF PlaceVolume, Largest
<1>4. CASE ChooseDevice(k)
  <2>1. CASE Answer(k, "error")
    BY <2>1, <1>2
  <2>2. ASSUME NEW d \in BestFit(x.ctrl, x.node, Request[x.vol].size),
               call' = [call EXCEPT ![k].stage = "chosen", ![k].dev = d,
                                    ![k].seen = cache[x.ctrl][d]]
        PROVE  GoodCalls(store, revision, call')
    <3> DEFINE o == cache[x.ctrl][d]
               y == [x EXCEPT !.stage = "chosen", !.dev = d, !.seen = o]
    <3>1. d \in Device /\ x.ctrl \in Reader
      BY <1>1 DEF BestFit, Fits, CallRecord, Reader
    <3>2. /\ NodeOf[d] = x.node /\ IsFree(o) /\ o.size >= Request[x.vol].size
      BY DEF BestFit, Fits
    <3>3. o \in Copy /\ Version(store, revision, d, o)
      BY <3>1 DEF IInv, TypeOK, ApiTypeOK, OnlyVersions, CachedVersions, Listing, Copy
    <3>4. y \in CallRecord
      BY <1>1, <3>1, <3>3 DEF CallRecord, Copy
    <3>5. AsAsked(y)
      BY <1>1, <1>4, <3>1, <3>2 DEF AsAsked, CallRecord, ChooseDevice, At
    <3>6. CallVersion(store, revision, y)
      BY <1>1, <3>1, <3>3 DEF CallVersion, CallRecord
    <3>7. call' = [call EXCEPT ![k] = y]
      BY <2>2
    <3> QED
      BY <3>4, <3>5, <3>6, <3>7, OneCall DEF GoodCall
  <2> QED
    BY <1>4, <2>1, <2>2 DEF ChooseDevice
<1>5. CASE FindVolume(k)
  <2>1. CASE Answer(k, "error")
    BY <2>1, <1>2
  <2>2. ASSUME NEW d \in Device, cache[x.ctrl][d] # Absent, cache[x.ctrl][d].name = x.id,
               call' = [call EXCEPT ![k].stage = "chosen", ![k].dev = d,
                                    ![k].seen = cache[x.ctrl][d]]
        PROVE  GoodCalls(store, revision, call')
    <3> DEFINE o == cache[x.ctrl][d]
               y == [x EXCEPT !.stage = "chosen", !.dev = d, !.seen = o]
    <3>1. x.ctrl \in Reader /\ x.op = "delete" /\ x.id \in Device
      BY <1>1, <1>5 DEF CallRecord, Reader, FindVolume, At, GoodCall, AsAsked
    <3>2. o \in Copy /\ Version(store, revision, d, o)
      BY <3>1 DEF IInv, TypeOK, ApiTypeOK, OnlyVersions, CachedVersions, Listing, Copy
    <3>3. o # Absent /\ o.name = x.id
      BY <2>2
    <3>4. y \in CallRecord
      BY <1>1, <3>2 DEF CallRecord, Copy
    <3>5. AsAsked(y)
      BY <1>1, <3>1, <3>3 DEF AsAsked, CallRecord
    <3>6. CallVersion(store, revision, y)
      BY <1>1, <3>2 DEF CallVersion, CallRecord
    <3>7. call' = [call EXCEPT ![k] = y]
      BY <2>2
    <3> QED
      BY <3>4, <3>5, <3>6, <3>7, OneCall DEF GoodCall
  <2> QED
    BY <1>5, <2>1, <2>2 DEF FindVolume
<1>6. CASE UpdateStatus(k)
  BY <1>6, <1>2 DEF UpdateStatus
<1> QED
  BY <1>3, <1>4, <1>5, <1>6 DEF ControllerStep

LEMMA ProvisionerCalls ==
    ASSUME IInv, NEW v \in Volume, ProvisionerStep(v)
    PROVE  GoodCalls(store, revision, call')
<1>1. ASSUME NEW k \in Call, NEW c \in Controller, CallCreate(v, k, c)
      PROVE  GoodCalls(store, revision, call')
  <2>1. GoodCall(store, revision, NewCreate(v, c))
    BY CsiAssumption
    DEF GoodCall, NewCreate, CallRecord, AsAsked, CallVersion, Requests, Version
  <2> QED
    BY <1>1, <2>1, OneCall DEF CallCreate
<1>2. ASSUME NEW k \in Call, NEW c \in Controller, CallDelete(v, k, c)
      PROVE  GoodCalls(store, revision, call')
  <2>1. pv[v].dev \in Device
    BY <1>2 DEF CallDelete, IInv, BoundHasId
  <2>2. GoodCall(store, revision, NewDelete(v, c, pv[v].dev))
    BY <2>1 DEF GoodCall, NewDelete, CallRecord, AsAsked, CallVersion, Version
  <2> QED
    BY <1>2, <2>2, OneCall DEF CallDelete
<1>3. ASSUME NEW k \in Call, TakeAnswer(v, k)
      PROVE  GoodCalls(store, revision, call')
  BY <1>3, OneCall DEF TakeAnswer
<1>4. CASE UNCHANGED call
  BY <1>4, GoodCallsNow
<1> QED
  BY <1>1, <1>2, <1>3, <1>4 DEF ProvisionerStep, ReleaseVolume, TimeOut

LEMMA NextCalls == IInv /\ [Next]_vars => GoodCalls(store, revision, call')
<1> SUFFICES ASSUME IInv, [Next]_vars PROVE GoodCalls(store, revision, call')
  OBVIOUS
<1>1. CASE UNCHANGED call
  BY <1>1, GoodCallsNow
<1>2. ASSUME NEW k \in Call, DropSystemStep(k) PROVE GoodCalls(store, revision, call')
  BY <1>2, OneCall DEF DropSystemStep, DropAnswer
<1>3. ASSUME NEW c \in Controller, CrashSystemStep(c)
      PROVE  GoodCalls(store, revision, call')
  BY <1>3, GoodCallsNow DEF CrashSystemStep, CrashController, AbandonCalls, GoodCalls
<1> QED
  BY <1>1, <1>2, <1>3, ControllerCalls, ProvisionerCalls
  DEF Next, vars, CacheSystemStep, ControllerSystemStep, ProvisionerSystemStep,
      ScanSystemStep, DaemonCrashSystemStep, DiskSystemStep

LEMMA CallsPreserved ==
    IInv /\ [Next]_vars => CallTypeOK' /\ CallVersions' /\ ChosenAsAsked'
<1> SUFFICES ASSUME IInv, [Next]_vars
             PROVE  CallTypeOK' /\ CallVersions' /\ ChosenAsAsked'
  OBVIOUS
<1>1. /\ call' = [k \in Call |-> call'[k]]
      /\ \A k \in Call : call'[k] = Idle \/ GoodCall(store, revision, call'[k])
  BY NextCalls DEF GoodCalls
<1>2. ASSUME NEW k \in Call, call'[k] # Idle, NEW d \in Device, call'[k].dev = d
      PROVE  Version(store', revision', d, call'[k].seen)
  <2>1. call'[k].seen \in Copy /\ Version(store, revision, d, call'[k].seen)
    BY <1>1, <1>2 DEF GoodCall, CallVersion, CallRecord, Copy
  <2> QED
    BY <2>1, VersionsStay, NextEffect DEF IInv, TypeOK
<1>3. CallVersions'
  BY <1>2 DEF CallVersions, CallVersion
<1>4. CallTypeOK' /\ ChosenAsAsked'
  BY <1>1 DEF CallTypeOK, ChosenAsAsked, GoodCall
<1> QED
  BY <1>3, <1>4

-----------------------------------------------------------------------------
(* The provisioner and the daemons.                                        *)

ProvisionerInv == ProvisionerTypeOK /\ BoundHasId

\* What the provisioner may know of a volume.
GoodVolume(x) ==
    x \in PvRecord /\ (x.phase \in {"bound", "released", "deleting"} => x.dev \in Device)

LEMMA OneVolume ==
    ASSUME ProvisionerInv, NEW v \in Volume, NEW y, GoodVolume(y),
           pv' = [pv EXCEPT ![v] = y], faults' \in 0 .. MaxFaults
    PROVE  ProvisionerInv'
  BY DEF ProvisionerInv, ProvisionerTypeOK, BoundHasId, GoodVolume

LEMMA ProvisionerPreserved == IInv /\ [Next]_vars => ProvisionerInv'
<1> SUFFICES ASSUME IInv, [Next]_vars PROVE ProvisionerInv'
  OBVIOUS
<1> USE DEF ProvisionerInv, ProvisionerTypeOK, BoundHasId
<1>1. ProvisionerInv /\ MaxFaults \in Nat
  BY ProvisionerAssumption DEF IInv, TypeOK
<1>2. ASSUME NEW v \in Volume, ProvisionerStep(v) PROVE ProvisionerInv'
  <2>1. ASSUME NEW k \in Call, NEW c \in Controller, CallCreate(v, k, c)
        PROVE  ProvisionerInv'
    BY <1>1, <2>1 DEF CallCreate, PvRecord
  <2>2. ASSUME NEW k \in Call, NEW c \in Controller, CallDelete(v, k, c)
        PROVE  ProvisionerInv'
    BY <1>1, <2>2 DEF CallDelete, PvRecord
  <2>3. CASE ReleaseVolume(v)
    BY <1>1, <2>3 DEF ReleaseVolume, PvRecord
  <2>4. ASSUME NEW k \in Call, TakeAnswer(v, k) PROVE ProvisionerInv'
    <3>1. call[k].stage = "ok" => call[k].dev \in Device
      BY <2>4 DEF TakeAnswer, IInv, ChosenAsAsked, AsAsked
    <3> DEFINE y == AfterAnswer(pv[v], call[k])
    <3>2. pv' = [pv EXCEPT ![v] = y]
      BY <2>4 DEF TakeAnswer
    <3>3. GoodVolume(y)
      BY <1>1, <2>4, <3>1
      DEF TakeAnswer, AfterAnswer, Awaits, Retry, PvRecord, GoodVolume
    <3> QED
      BY <1>1, <2>4, <3>2, <3>3, OneVolume DEF TakeAnswer
  <2>5. ASSUME NEW k \in Call, TimeOut(v, k) PROVE ProvisionerInv'
    <3> DEFINE y == [pv[v] EXCEPT !.phase = Retry(@), !.call = NoCall]
    <3>1. pv' = [pv EXCEPT ![v] = y]
      BY <2>5 DEF TimeOut
    <3>2. GoodVolume(y)
      BY <1>1, <2>5 DEF TimeOut, Awaits, Retry, PvRecord, GoodVolume
    <3>3. faults' \in 0 .. MaxFaults
      BY <1>1, <2>5 DEF TimeOut
    <3> QED
      BY <1>1, <3>1, <3>2, <3>3, OneVolume
  <2> QED
    BY <1>2, <2>1, <2>2, <2>3, <2>4, <2>5 DEF ProvisionerStep
<1>3. ASSUME NEW c \in Controller, CrashSystemStep(c) PROVE ProvisionerInv'
  <2>0. faults < MaxFaults /\ faults' = faults + 1
    BY <1>3 DEF CrashSystemStep, CrashController
  <2>1. faults' \in 0 .. MaxFaults
    BY <1>1, <2>0
  <2>2. ASSUME NEW v \in Volume
        PROVE  /\ pv'[v] \in PvRecord
               /\ pv'[v].phase \in {"bound", "released", "deleting"}
                     => pv'[v].dev \in Device
    BY <1>1, <1>3 DEF CrashSystemStep, CrashController, Awaits, Retry, PvRecord
  <2> QED
    BY <1>3, <2>1, <2>2 DEF CrashSystemStep, CrashController
<1>4. ASSUME NEW n \in Daemon, DaemonCrashSystemStep(n) PROVE ProvisionerInv'
  BY <1>1, <1>4 DEF DaemonCrashSystemStep
<1>5. CASE UNCHANGED provVars
  BY <1>1, <1>5 DEF provVars
<1> QED
  BY <1>2, <1>3, <1>4, <1>5
  DEF Next, vars, CacheSystemStep, ControllerSystemStep, ProvisionerSystemStep,
      DropSystemStep, DropAnswer, ScanSystemStep, DiskSystemStep

\* A scan record with which a daemon may go on.
GoodScan(s, n, x) ==
    /\ x \in ScanRecord
    /\ x.stage \in {"writing", "updating"} => \A d \in x.todo : x.found[d] # Gone
    /\ \A d \in x.cur : x.found[d] # Gone /\ Version(s, n, d, x.seen)

GoodScans(s, n, scans) ==
    /\ scans = [m \in Daemon |-> scans[m]]
    /\ \A m \in Daemon : GoodScan(s, n, scans[m])

LEMMA GoodScansNow == IInv => GoodScans(store, revision, scan)
<1> SUFFICES ASSUME IInv PROVE GoodScans(store, revision, scan)
  OBVIOUS
<1>1. scan \in [Daemon -> ScanRecord]
  BY DEF IInv, TypeOK, DiscoveryTypeOK
<1>2. ASSUME NEW m \in Daemon PROVE GoodScan(store, revision, scan[m])
  <2>1. \A d \in scan[m].cur : d \in Device
    BY <1>1 DEF ScanRecord
  <2> QED
    BY <1>1, <2>1 DEF IInv, OnlyVersions, ScanVersions, ScanWritesFound, GoodScan
<1> QED
  BY <1>1, <1>2 DEF GoodScans

LEMMA OneScan ==
    ASSUME IInv, NEW n \in Daemon, NEW x, GoodScan(store, revision, x)
    PROVE  GoodScans(store, revision, [scan EXCEPT ![n] = x])
  BY GoodScansNow DEF GoodScans

LEMMA IdleScanIsGood == GoodScan(store, revision, IdleScan)
  BY DEF IdleScan, GoodScan, ScanRecord

LEMMA DaemonScans ==
    ASSUME IInv, NEW n \in Daemon, ScanStep(n)
    PROVE  GoodScans(store, revision, scan')
<1> DEFINE x == scan[n]
<1>1. GoodScan(store, revision, x) /\ x \in ScanRecord
  BY GoodScansNow DEF GoodScans, GoodScan
<1>2. ASSUME NEW todo \in SUBSET x.todo, scan' = [scan EXCEPT ![n].todo = todo]
      PROVE  GoodScans(store, revision, scan')
  <2> DEFINE y == [x EXCEPT !.todo = todo]
  <2>1. GoodScan(store, revision, y)
    BY <1>1, <1>2 DEF GoodScan, ScanRecord
  <2>2. scan' = [scan EXCEPT ![n] = y]
    BY <1>2
  <2> QED
    BY <2>1, <2>2, OneScan
<1>3. CASE StartScan(n)
  <2>1. PICK missed \in SUBSET Device :
          scan' = [scan EXCEPT ![n] =
             LET found == [d \in Device |-> IF NodeOf[d] = n /\ d \notin missed
                                            THEN disk[d] ELSE Gone]
             IN  [IdleScan EXCEPT !.stage = "writing", !.found = found,
                                  !.todo = {d \in Device : found[d] # Gone}]]
    BY <1>3 DEF StartScan
  <2> DEFINE found == [d \in Device |-> IF NodeOf[d] = n /\ d \notin missed
                                        THEN disk[d] ELSE Gone]
             y == [IdleScan EXCEPT !.stage = "writing", !.found = found,
                                   !.todo = {d \in Device : found[d] # Gone}]
  <2>2. found \in [Device -> Disk \cup {Gone}]
    BY DEF IInv, TypeOK, DiscoveryTypeOK
  <2>3. GoodScan(store, revision, y)
    BY <2>2 DEF GoodScan, IdleScan, ScanRecord
  <2> QED
    BY <2>1, <2>3, OneScan
<1>4. ASSUME NEW d \in Device, CreateRawDevice(n, d) \/ DeleteRawDevice(n, d)
      PROVE  GoodScans(store, revision, scan')
  BY <1>2, <1>4 DEF CreateRawDevice, DeleteRawDevice
<1>5. ASSUME NEW d \in Device, GetRawDevice(n, d)
      PROVE  GoodScans(store, revision, scan')
  <2> DEFINE y == [x EXCEPT !.stage = "updating", !.todo = @ \ {d}, !.cur = {d},
                            !.seen = store[d]]
  <2>1. store[d] \in Copy /\ Version(store, revision, d, store[d])
    BY DEF IInv, TypeOK, ApiTypeOK, OnlyVersions, StoredVersions, Listing, Copy
  <2>2. GoodScan(store, revision, y)
    BY <1>1, <1>5, <2>1 DEF GoodScan, ScanRecord, GetRawDevice, Copy
  <2>3. scan' = [scan EXCEPT ![n] = y]
    BY <1>5 DEF GetRawDevice
  <2> QED
    BY <2>2, <2>3, OneScan
<1>6. ASSUME NEW d \in Device, UpdateRawDevice(n, d)
      PROVE  GoodScans(store, revision, scan')
  <2> DEFINE y == [x EXCEPT !.stage = "writing", !.cur = {}, !.seen = Absent]
  <2>1. GoodScan(store, revision, y)
    BY <1>1, <1>6 DEF GoodScan, ScanRecord, UpdateRawDevice
  <2>2. scan' = [scan EXCEPT ![n] = y]
    BY <1>6 DEF UpdateRawDevice
  <2> QED
    BY <2>1, <2>2, OneScan
<1>7. CASE ListDeleted(n)
  <2>1. PICK todo \in SUBSET Device :
          scan' = [scan EXCEPT ![n].stage = "deleting", ![n].todo = todo]
    BY <1>7 DEF ListDeleted
  <2> DEFINE y == [x EXCEPT !.stage = "deleting", !.todo = todo]
  <2>2. GoodScan(store, revision, y)
    BY <1>1 DEF GoodScan, ScanRecord
  <2>3. scan' = [scan EXCEPT ![n] = y]
    BY <2>1
  <2> QED
    BY <2>2, <2>3, OneScan
<1>8. CASE EndScan(n)
  BY <1>8, OneScan, IdleScanIsGood DEF EndScan
<1> QED
  BY <1>3, <1>4, <1>5, <1>6, <1>7, <1>8 DEF ScanStep

LEMMA NextScans == IInv /\ [Next]_vars => GoodScans(store, revision, scan')
<1> SUFFICES ASSUME IInv, [Next]_vars PROVE GoodScans(store, revision, scan')
  OBVIOUS
<1>1. CASE UNCHANGED scan
  BY <1>1, GoodScansNow
<1>2. ASSUME NEW n \in Daemon, DaemonCrashSystemStep(n)
      PROVE  GoodScans(store, revision, scan')
  BY <1>2, OneScan, IdleScanIsGood DEF DaemonCrashSystemStep, RestartDaemon
<1> QED
  BY <1>1, <1>2, DaemonScans
  DEF Next, vars, discVars, CacheSystemStep, ControllerSystemStep, ProvisionerSystemStep,
      DropSystemStep, ScanSystemStep, DiskSystemStep, ChangeDisk, CrashSystemStep

LEMMA ScansPreserved ==
    IInv /\ [Next]_vars => ScanVersions' /\ ScanWritesFound'
                            /\ scan' \in [Daemon -> ScanRecord]
<1> SUFFICES ASSUME IInv, [Next]_vars
             PROVE  ScanVersions' /\ ScanWritesFound' /\ scan' \in [Daemon -> ScanRecord]
  OBVIOUS
<1>1. /\ scan' = [m \in Daemon |-> scan'[m]]
      /\ \A m \in Daemon : GoodScan(store, revision, scan'[m])
  BY NextScans DEF GoodScans
<1>2. ASSUME NEW n \in Daemon, NEW d \in Device, d \in scan'[n].cur
      PROVE  Version(store', revision', d, scan'[n].seen)
  <2>1. scan'[n].seen \in Copy /\ Version(store, revision, d, scan'[n].seen)
    BY <1>1, <1>2 DEF GoodScan, ScanRecord, Copy
  <2> QED
    BY <2>1, VersionsStay, NextEffect DEF IInv, TypeOK
<1> QED
  BY <1>1, <1>2 DEF GoodScan, ScanVersions, ScanWritesFound

LEMMA HardwarePreserved ==
    IInv /\ [Next]_vars => /\ disk' \in [Device -> Disk \cup {Gone}]
                           /\ changes' \in 0 .. MaxChanges
                           /\ skips' \in 0 .. MaxSkips
<1> DEFINE Good == /\ disk \in [Device -> Disk \cup {Gone}]
                   /\ changes \in 0 .. MaxChanges
                   /\ skips \in 0 .. MaxSkips
<1> SUFFICES ASSUME IInv, [Next]_vars PROVE Good'
  OBVIOUS
<1>1. Good /\ MaxChanges \in Nat /\ MaxSkips \in Nat
  BY DiscoveryAssumption DEF IInv, TypeOK, DiscoveryTypeOK
<1>2. CASE UNCHANGED <<disk, changes, skips>>
  BY <1>1, <1>2
<1>3. ASSUME NEW d \in Device, DiskSystemStep(d) PROVE Good'
  <2>1. \A x \in Changes[d] : x \in Disk \cup {Gone}
    BY DiscoveryAssumption
  <2> QED
    BY <1>1, <1>3, <2>1 DEF DiskSystemStep, ChangeDisk
<1>4. ASSUME NEW n \in Daemon, StartScan(n) PROVE Good'
  <2>1. PICK missed \in SUBSET Device :
          /\ skips + Cardinality(missed) <= MaxSkips
          /\ skips' = skips + Cardinality(missed)
    BY <1>4 DEF StartScan
  <2>2. Cardinality(missed) \in Nat
    BY ApiAssumption, FS_Subset, FS_CardinalityType
  <2> QED
    BY <1>1, <1>4, <2>1, <2>2 DEF StartScan
<1> QED
  BY <1>2, <1>3, <1>4
  DEF Next, vars, discVars, CacheSystemStep, ControllerSystemStep, ProvisionerSystemStep,
      DropSystemStep, ScanSystemStep, ScanStep, CreateRawDevice, GetRawDevice,
      UpdateRawDevice, ListDeleted, DeleteRawDevice, EndScan, CrashSystemStep,
      DaemonCrashSystemStep, RestartDaemon

-----------------------------------------------------------------------------
(* The invariant.                                                          *)

LEMMA InitInvariant == Init => IInv
<1> SUFFICES ASSUME Init PROVE IInv
  OBVIOUS
<1> USE DEF Init
<1> DEFINE objects == [d \in Device |-> InitialObject(d)]
<1>1. ASSUME NEW d \in Device
      PROVE  /\ objects[d] \in Copy
             /\ objects[d] # Absent => objects[d].rv = 0 /\ objects[d].name = NoName
  <2>1. d \in Discovered => InitialDisk[d] \in Disk
    BY SystemAssumption
  <2>2. CASE d \in Discovered
    BY <2>1, <2>2 DEF InitialObject, Disk, Copy, Object
  <2>3. CASE d \notin Discovered
    BY <2>3 DEF InitialObject, Copy
  <2> QED
    BY <2>2, <2>3
<1>2. objects \in Listing /\ NothingListed \in Listing
  BY <1>1 DEF Listing, Copy, NothingListed
<1>3. /\ store = objects /\ revision = 0
      /\ cache = [r \in Reader |-> NothingListed]
      /\ pending = [r \in Reader |-> <<objects>>]
  BY DEF ApiInit
<1>4. ApiTypeOK
  BY <1>2, <1>3 DEF ApiTypeOK
<1>5. CallTypeOK /\ CallVersions /\ ChosenAsAsked
  BY DEF CallInit, CallTypeOK, CallVersions, ChosenAsAsked
<1>6. ProvisionerTypeOK /\ BoundHasId
  BY ProvisionerAssumption DEF ProvisionerInit, ProvisionerTypeOK, PvRecord, BoundHasId
<1>7. ASSUME NEW n \in Daemon PROVE GoodScan(store, revision, scan[n])
  BY IdleScanIsGood DEF DiscoveryInit
<1>8. DiscoveryTypeOK /\ ScanVersions /\ ScanWritesFound
  <2>1. scan \in [Daemon -> ScanRecord]
    BY <1>7 DEF DiscoveryInit, GoodScan
  <2>2. disk \in [Device -> Disk \cup {Gone}] /\ changes \in 0 .. MaxChanges
        /\ skips \in 0 .. MaxSkips
    BY SystemAssumption, DiscoveryAssumption DEF DiscoveryInit
  <2> QED
    BY <1>7, <2>1, <2>2 DEF DiscoveryTypeOK, GoodScan, ScanVersions, ScanWritesFound
<1>9. ASSUME NEW d \in Device PROVE Version(store, revision, d, objects[d])
  BY <1>1, <1>3 DEF Version
<1>10. StoredVersions
  BY <1>3, <1>9 DEF StoredVersions
<1>11. CachedVersions
  BY <1>3 DEF CachedVersions, NothingListed, Version
<1>12. PendingVersions
  BY <1>3, <1>9 DEF PendingVersions
<1> QED
  BY <1>4, <1>5, <1>6, <1>8, <1>10, <1>11, <1>12 DEF IInv, TypeOK, OnlyVersions

LEMMA NextInvariant == IInv /\ [Next]_vars => IInv'
<1> SUFFICES ASSUME IInv, [Next]_vars PROVE IInv'
  OBVIOUS
<1>1. ApiInv'
  BY NextEffect, ApiPreserved DEF ApiInv, IInv, TypeOK, OnlyVersions
<1>2. ProvisionerInv'
  BY ProvisionerPreserved
<1>3. CallTypeOK' /\ CallVersions' /\ ChosenAsAsked'
  BY CallsPreserved
<1>4. DiscoveryTypeOK'
  BY ScansPreserved, HardwarePreserved DEF DiscoveryTypeOK
<1>5. ScanVersions' /\ ScanWritesFound'
  BY ScansPreserved
<1> QED
  BY <1>1, <1>2, <1>3, <1>4, <1>5 DEF ApiInv, ProvisionerInv, IInv, TypeOK, OnlyVersions

\* In every reachable state every copy of a RawDevice that a process may act
\* on is an old or the present version of it, and every call holds a copy
\* that answers what it was asked (driver/raw_device/controller.go).
THEOREM InvariantHolds == Spec => []IInv
<1>1. Init => IInv
  BY InitInvariant
<1>2. IInv /\ [Next]_vars => IInv'
  BY NextInvariant
<1> QED
  BY <1>1, <1>2, PTL DEF Spec

\* Every variable keeps its type, whatever is lost, late or restarted.
THEOREM TypesHold == Spec => []TypeOK
<1>1. IInv => TypeOK
  BY DEF IInv
<1> QED
  BY <1>1, InvariantHolds, PTL

\* No cache, queued notification, call or scan holds an object that carries
\* the stored resource version and differs from the stored object: the
\* DeepCopy of createVolume and deleteVolume is what this rests on.
THEOREM VersionsAgree == Spec => []SameVersionSameObject
<1>1. IInv => SameVersionSameObject
  <2> SUFFICES ASSUME IInv PROVE SameVersionSameObject
    OBVIOUS
  <2>1. ASSUME NEW d \in Device, NEW c, Version(store, revision, d, c), Newest(d, c)
        PROVE  c = store[d]
    BY <2>1 DEF Version, Newest
  <2>2. \A k \in Call : call[k] # Idle => CallVersion(store, revision, call[k])
    BY DEF IInv, OnlyVersions, CallVersions
  <2> QED
    BY <2>1, <2>2 DEF IInv, OnlyVersions, CachedVersions, PendingVersions, CallVersion,
                      ScanVersions, SameVersionSameObject
<1> QED
  BY <1>1, InvariantHolds, PTL

-----------------------------------------------------------------------------
(* What a write that succeeds has tested.                                  *)

\* A call turns from chosen to ok only by its own conditional write.
LEMMA SuccessIsWrite ==
    ASSUME IInv, [Next]_vars, NEW k \in Call, NEW op, Succeeds(k, op)
    PROVE  /\ WriteStatus(call[k].dev, call[k].seen, NewName(k))
           /\ call[k].dev \in Device /\ call'[k].dev = call[k].dev
           /\ call[k].seen = store[call[k].dev]
<1>1. call[k] \in CallRecord /\ call[k].stage = "chosen" /\ call'[k].stage = "ok"
  BY DEF Succeeds, At, IInv, TypeOK, CallTypeOK
<1>2. call[k] # Idle /\ call'[k] # Idle
  BY DEF Succeeds, At
<1>3. call[k].dev \in Device
  BY <1>1, <1>2 DEF IInv, ChosenAsAsked, AsAsked, CallRecord
<1>4. call \in [Call -> CallRecord \cup {Idle}]
  BY DEF IInv, TypeOK, CallTypeOK
<1>5. call'[k] # call[k]
  BY <1>1
<1>6. ASSUME NEW j \in Call, ControllerStep(j) PROVE UpdateStatus(k)
  <2>1. j = k
    BY <1>4, <1>5, <1>6
    DEF ControllerStep, PlaceVolume, ChooseDevice, FindVolume, UpdateStatus, Answer
  <2> QED
    BY <1>1, <1>6, <2>1 DEF ControllerStep, PlaceVolume, ChooseDevice, FindVolume, At
<1>7. ASSUME NEW v \in Volume, ProvisionerStep(v) PROVE FALSE
  BY <1>1, <1>2, <1>4, <1>7
  DEF ProvisionerStep, CallCreate, CallDelete, ReleaseVolume, TakeAnswer, TimeOut
<1>8. ASSUME NEW j \in Call, DropAnswer(j) PROVE FALSE
  BY <1>1, <1>2, <1>4, <1>8 DEF DropAnswer
<1>9. ASSUME NEW c \in Controller, CrashController(c) PROVE FALSE
  BY <1>1, <1>2, <1>9 DEF CrashController, AbandonCalls
<1>10. UpdateStatus(k)
  BY <1>5, <1>6, <1>7, <1>8, <1>9
  DEF Next, vars, CacheSystemStep, ControllerSystemStep, ProvisionerSystemStep,
      DropSystemStep, ScanSystemStep, DaemonCrashSystemStep, DiskSystemStep,
      CrashSystemStep
<1>11. ~Answer(k, "error")
  BY <1>1, <1>4 DEF Answer, CallRecord
<1>12. WriteStatus(call[k].dev, call[k].seen, NewName(k)) /\ Answer(k, "ok")
  BY <1>10, <1>11 DEF UpdateStatus
<1>13. Version(store, revision, call[k].dev, call[k].seen)
  BY <1>2, <1>3 DEF IInv, OnlyVersions, CallVersions, CallVersion
<1> QED
  BY <1>1, <1>3, <1>4, <1>12, <1>13
  DEF WriteStatus, Newest, Version, Answer, CallRecord

\* A CreateVolume that succeeds took a device that was recorded, free, large
\* enough and on the right node at that very moment, however old the cache
\* entry it chose from (createVolume, UpdateStatus).
THEOREM CreateTakesFreeDevice == Spec => GrantsFreeDevice
<1> DEFINE Grants(k) == Succeeds(k, "create") =>
              LET d == call[k].dev
              IN  /\ IsFree(store[d])
                  /\ store[d].size >= Request[call[k].vol].size
                  /\ NodeOf[d] = call[k].node
<1>1. ASSUME IInv, [Next]_vars, NEW k \in Call, Succeeds(k, "create")
      PROVE  /\ IsFree(store[call[k].dev])
             /\ store[call[k].dev].size >= Request[call[k].vol].size
             /\ NodeOf[call[k].dev] = call[k].node
  BY <1>1, SuccessIsWrite DEF Succeeds, At, IInv, ChosenAsAsked, AsAsked
<1>2. IInv /\ [Next]_vars => [\A k \in Call : Grants(k)]_vars
  BY <1>1
<1> QED
  BY <1>2, InvariantHolds, PTL DEF GrantsFreeDevice, Spec

\* A DeleteVolume that succeeds found the device its volume id names marked,
\* and unmarks that device alone (deleteVolume, UpdateStatus).
THEOREM DeleteFreesItsDevice == Spec => FreesMarkedDevice
<1> DEFINE Frees(k) == Succeeds(k, "delete") =>
              LET id == call[k].id
              IN  /\ Marked(id)
                  /\ store'[id] # Absent /\ store'[id].name = NoName
                  /\ \A d \in Device \ {id} : store'[d] = store[d]
<1>1. ASSUME IInv, [Next]_vars, NEW k \in Call, Succeeds(k, "delete") PROVE Frees(k)
  <2> DEFINE d == call[k].dev
  <2>1. /\ WriteStatus(d, call[k].seen, NoName)
        /\ d \in Device /\ call[k].seen = store[d]
    BY <1>1, SuccessIsWrite DEF NewName, Succeeds, At
  <2>2. store[d] # Absent /\ store[d].name = call[k].id /\ call[k].id \in Device
    BY <1>1, <2>1 DEF Succeeds, At, IInv, ChosenAsAsked, AsAsked
  <2>3. call[k].id = d
    BY <1>1, <2>1, <2>2, ApiAssumption DEF IInv, OnlyVersions, StoredVersions, Version
  <2>4. \E o \in Object : o.name = NoName /\ store' = [store EXCEPT ![d] = o]
    <3> DEFINE o == [rv |-> revision + 1, size |-> store[d].size,
                     avail |-> store[d].avail, name |-> NoName]
    <3>1. o \in Object
      BY <1>1, <2>1, <2>2 DEF IInv, TypeOK, ApiTypeOK, Listing, Object
    <3>2. store' = [store EXCEPT ![d] = o]
      BY <2>1 DEF WriteStatus, Put, Commit
    <3> QED
      BY <3>1, <3>2
  <2> QED
    BY <1>1, <2>1, <2>2, <2>3, <2>4, ApiAssumption
    DEF Marked, IInv, TypeOK, ApiTypeOK, Listing
<1>2. IInv /\ [Next]_vars => [\A k \in Call : Frees(k)]_vars
  BY <1>1
<1> QED
  BY <1>2, InvariantHolds, PTL DEF FreesMarkedDevice, Spec

\* The mark of a RawDevice that goes on existing is moved by a CreateVolume
\* or DeleteVolume that succeeds, never by a discovery daemon
\* (CreateOrUpdateRawDevice, whose Update leaves the status alone).
THEOREM DiscoveryKeepsMarks == Spec => OnlyCallsMoveMarks
<1> DEFINE Moves(d) == /\ store[d] # Absent /\ store'[d] # Absent
                       /\ store[d].name # store'[d].name
           ByCall(d) == \E k \in Call : /\ call[k] # Idle /\ call[k].dev = d
                                        /\ Succeeds(k, "create") \/ Succeeds(k, "delete")
<1>1. ASSUME IInv, [Next]_vars, NEW d \in Device, Moves(d) PROVE ByCall(d)
  <2>1. store \in Listing /\ store' # store
    BY <1>1 DEF IInv, TypeOK, ApiTypeOK
  <2>2. ASSUME NEW k \in Call, UpdateStatus(k) PROVE ByCall(d)
    <3>1. WriteStatus(call[k].dev, call[k].seen, NewName(k)) /\ Answer(k, "ok")
      BY <2>1, <2>2 DEF UpdateStatus, apiVars
    <3>2. call[k] # Idle /\ call[k] \in CallRecord /\ call[k].stage = "chosen"
      <4>1. call[k] # Idle /\ call[k].stage = "chosen"
        BY <2>2 DEF UpdateStatus
      <4> QED
        BY <4>1, <1>1 DEF IInv, TypeOK, CallTypeOK
    <3>3. call[k].dev = d
      BY <1>1, <2>1, <3>1 DEF WriteStatus, Put, Commit, Listing
    <3>4. /\ call'[k].stage = "ok" /\ call'[k].op = call[k].op
          /\ call'[k] \in CallRecord
      BY <1>1, <3>1, <3>2 DEF Answer, IInv, TypeOK, CallTypeOK, CallRecord
    <3>5. Succeeds(k, call[k].op) /\ call[k].op \in {"create", "delete"}
      BY <3>2, <3>4, CsiAssumption DEF Succeeds, At, CallRecord
    <3> QED
      BY <3>2, <3>3, <3>5
  <2>3. ASSUME NEW n \in Daemon, ScanStep(n) PROVE FALSE
    <3>1. ASSUME NEW e \in Device, CreateRawDevice(n, e) PROVE FALSE
      BY <1>1, <2>1, <3>1
      DEF CreateRawDevice, CreateObject, Put, Commit, Listing
    <3>2. ASSUME NEW e \in Device, UpdateRawDevice(n, e) PROVE FALSE
      BY <1>1, <2>1, <3>2
      DEF UpdateRawDevice, WriteSpec, Put, Commit, Listing, apiVars
    <3>3. ASSUME NEW e \in Device, DeleteRawDevice(n, e) PROVE FALSE
      BY <1>1, <2>1, <3>3 DEF DeleteRawDevice, DeleteObject, Commit, Listing, apiVars
    <3> QED
      BY <2>1, <2>3, <3>1, <3>2, <3>3
      DEF ScanStep, StartScan, GetRawDevice, ListDeleted, EndScan, apiVars
  <2>4. CASE UNCHANGED apiVars
    BY <2>1, <2>4 DEF apiVars
  <2>5. ASSUME NEW r \in Reader, Deliver(r) \/ RestartReader(r) PROVE FALSE
    BY <2>1, <2>5 DEF Deliver, RestartReader
  <2>6. ASSUME NEW k \in Call, ControllerStep(k) PROVE ByCall(d)
    BY <2>2, <2>4, <2>6 DEF ControllerStep, PlaceVolume, ChooseDevice, FindVolume
  <2>7. ASSUME NEW v \in Volume, ProvisionerStep(v) PROVE ByCall(d)
    BY <2>4, <2>7
    DEF ProvisionerStep, CallCreate, CallDelete, ReleaseVolume, TakeAnswer, TimeOut
  <2> QED
    BY <1>1, <2>3, <2>4, <2>5, <2>6, <2>7
    DEF Next, vars, CacheSystemStep, ControllerSystemStep, ProvisionerSystemStep,
        DropSystemStep, DropAnswer, ScanSystemStep, DaemonCrashSystemStep, RestartDaemon,
        DiskSystemStep, ChangeDisk, CrashSystemStep, CrashController, Reader
<1>2. IInv /\ [Next]_vars => [\A d \in Device : Moves(d) => ByCall(d)]_vars
  BY <1>1
<1> QED
  BY <1>2, InvariantHolds, PTL DEF OnlyCallsMoveMarks, Spec

-----------------------------------------------------------------------------
(* Without faults: no RawDevice is ever deleted.                           *)

\* A write stores an object, which may be a new one, and deletes none.
Written(d, o) == /\ o # Absent /\ store' = [store EXCEPT ![d] = o]
                 /\ pending' = [r \in Reader |-> Append(pending[r], store')]
                 /\ UNCHANGED cache

\* Nobody deletes: a scan finds every disk that is recorded.
LEMMA NobodyDeletes ==
    ASSUME IInv, HInv, Faultless, NEW n \in Daemon, NEW d \in Device
    PROVE  ~DeleteRawDevice(n, d)
BY DEF DeleteRawDevice, HInv, NoneDeleted

\* What a step does to the objects and the listers.
LEMMA StoreGrows ==
    ASSUME IInv, HInv, Faultless, [Next]_vars
    PROVE  \/ \E d \in Device, o \in Object : Written(d, o)
           \/ UNCHANGED apiVars
           \/ \E r \in Reader : Deliver(r)
<1>1. ASSUME NEW d \in Device, NEW spec, spec.size \in Size, spec.avail \in BOOLEAN,
             NEW name \in {NoName, d}, Put(d, spec, name)
      PROVE  \E e \in Device, o \in Object : Written(e, o)
  <2> DEFINE o == [rv |-> revision + 1, size |-> spec.size, avail |-> spec.avail,
                   name |-> name]
  <2>1. o \in Object
    BY <1>1 DEF Object, IInv, TypeOK, ApiTypeOK
  <2>2. o # Absent /\ Commit(d, o)
    BY <1>1, <2>1, ApiAssumption DEF Put
  <2>3. pending' = [r \in Reader |-> Append(pending[r], store')]
    BY <2>2 DEF Commit
  <2> QED
    BY <2>1, <2>2, <2>3 DEF Written, Commit
<1>2. ASSUME NEW k \in Call, UpdateStatus(k) PROVE
        UNCHANGED apiVars \/ \E e \in Device, o \in Object : Written(e, o)
  <2>1. call[k].dev \in Device
    BY <1>2 DEF UpdateStatus, IInv, ChosenAsAsked, AsAsked
  <2>2. CASE WriteStatus(call[k].dev, call[k].seen, NewName(k))
    <3>1. store[call[k].dev].size \in Size /\ store[call[k].dev].avail \in BOOLEAN
      BY <2>1, <2>2 DEF WriteStatus, Newest, IInv, TypeOK, ApiTypeOK, Listing, Object
    <3> QED
      BY <1>1, <2>1, <2>2, <3>1 DEF NewName, WriteStatus
  <2> QED
    BY <1>2, <2>2 DEF UpdateStatus
<1>3. ASSUME NEW n \in Daemon, ScanStep(n) PROVE
        UNCHANGED apiVars \/ \E e \in Device, o \in Object : Written(e, o)
  <2> DEFINE spec(d) == scan[n].found[d]
  <2>1. ASSUME NEW d \in Device, spec(d) # Gone PROVE spec(d).size \in Size /\ spec(d).avail \in BOOLEAN
    BY <2>1 DEF IInv, TypeOK, DiscoveryTypeOK, ScanRecord, Disk
  <2>2. ASSUME NEW d \in Device, CreateRawDevice(n, d) PROVE
          \E e \in Device, o \in Object : Written(e, o)
    <3>1. spec(d) # Gone
      BY <2>2 DEF CreateRawDevice, IInv, ScanWritesFound
    <3> QED
      BY <1>1, <2>1, <2>2, <3>1 DEF CreateRawDevice, CreateObject
  <2>3. ASSUME NEW d \in Device, UpdateRawDevice(n, d) PROVE
          UNCHANGED apiVars \/ \E e \in Device, o \in Object : Written(e, o)
    <3>1. spec(d) # Gone
      BY <2>3 DEF UpdateRawDevice, IInv, ScanWritesFound
    <3>2. store[d] # Absent => store[d].name \in {NoName, d}
      BY DEF IInv, OnlyVersions, StoredVersions, Version
    <3> QED
      BY <1>1, <2>1, <2>3, <3>1, <3>2 DEF UpdateRawDevice, WriteSpec, Newest
  <2> QED
    BY <1>3, <2>2, <2>3, NobodyDeletes DEF ScanStep, StartScan, GetRawDevice, ListDeleted, EndScan
<1>4. ~(faults < MaxFaults)
  BY DEF Faultless, IInv, TypeOK, ProvisionerTypeOK
<1>5. ASSUME NEW k \in Call, ControllerSystemStep(k) PROVE
        UNCHANGED apiVars \/ \E e \in Device, o \in Object : Written(e, o)
  BY <1>2, <1>5 DEF ControllerSystemStep, ControllerStep, PlaceVolume, ChooseDevice, FindVolume
<1>6. ASSUME NEW v \in Volume, ProvisionerSystemStep(v) PROVE UNCHANGED apiVars
  BY <1>6 DEF ProvisionerSystemStep, ProvisionerStep, CallCreate, CallDelete, ReleaseVolume,
              TakeAnswer, TimeOut
<1>7. ASSUME NEW n \in Daemon, ScanSystemStep(n) PROVE
        UNCHANGED apiVars \/ \E e \in Device, o \in Object : Written(e, o)
  BY <1>3, <1>7 DEF ScanSystemStep
<1>8. ASSUME UNCHANGED vars \/ (\E d \in Device : DiskSystemStep(d)) \/ (\E k \in Call : DropSystemStep(k))
      PROVE  UNCHANGED apiVars
  BY <1>8 DEF vars, DiskSystemStep, ChangeDisk, DropSystemStep, DropAnswer
<1> QED
  BY <1>4, <1>5, <1>6, <1>7, <1>8
  DEF Next, CacheSystemStep, DaemonCrashSystemStep, CrashSystemStep, CrashController

\* Objects stay, and listers show objects that exist.
LEMMA ObjectsStay ==
    ASSUME IInv, HInv, Faultless, [Next]_vars
    PROVE  /\ \A d \in Device : store[d] # Absent => store'[d] # Absent
           /\ ListedExist'
<1>1. store \in Listing /\ \A r \in Reader : pending[r] \in Seq(Listing)
  BY DEF IInv, TypeOK, ApiTypeOK
<1>2. ListedExist
  BY DEF HInv
<1>3. CASE UNCHANGED apiVars
  BY <1>2, <1>3 DEF apiVars, ListedExist
<1>4. ASSUME NEW e \in Device, NEW o \in Object, Written(e, o)
      PROVE  (\A d \in Device : store[d] # Absent => store'[d] # Absent) /\ ListedExist'
  <2>1. \A d \in Device : store[d] # Absent => store'[d] # Absent
    BY <1>1, <1>4 DEF Written, Listing
  <2>2. ASSUME NEW r \in Reader, NEW d \in Device, NEW i \in 1 .. Len(pending'[r]),
               pending'[r][i][d] # Absent
        PROVE  store'[d] # Absent
    <3>1. pending'[r] = Append(pending[r], store') /\ pending[r] \in Seq(Listing)
      BY <1>1, <1>4 DEF Written
    <3>2. CASE i = Len(pending[r]) + 1
      BY <2>2, <3>1, <3>2
    <3>3. CASE i # Len(pending[r]) + 1
      <4>1. i \in 1 .. Len(pending[r]) /\ pending'[r][i] = pending[r][i]
        BY <3>1, <3>3
      <4> QED
        BY <1>2, <2>1, <2>2, <4>1 DEF ListedExist
    <3> QED
      BY <3>2, <3>3
  <2>3. \A r \in Reader, d \in Device : cache'[r][d] # Absent => store'[d] # Absent
    BY <1>2, <1>4, <2>1 DEF Written, ListedExist
  <2> QED
    BY <2>1, <2>2, <2>3 DEF ListedExist
<1>5. ASSUME NEW s \in Reader, Deliver(s)
      PROVE  (\A d \in Device : store[d] # Absent => store'[d] # Absent) /\ ListedExist'
  <2>1. store' = store
    BY <1>5 DEF Deliver
  <2>2. ASSUME NEW r \in Reader PROVE
          /\ \A d \in Device : cache'[r][d] # Absent => store[d] # Absent
          /\ \A d \in Device : \A i \in 1 .. Len(pending'[r]) : pending'[r][i][d] # Absent => store[d] # Absent
    <3>1. CASE r = s
      <4>1. /\ pending[r] \in Seq(Listing) /\ pending[r] # <<>>
            /\ pending'[r] = Tail(pending[r]) /\ cache'[r] = pending[r][1]
        BY <1>1, <1>5, <3>1 DEF Deliver, IInv, TypeOK, ApiTypeOK
      <4>2. 1 \in 1 .. Len(pending[r])
        BY <4>1
      <4>3. \A i \in 1 .. Len(pending'[r]) : i + 1 \in 1 .. Len(pending[r]) /\ pending'[r][i] = pending[r][i + 1]
        BY <4>1
      <4> QED
        BY <1>2, <4>1, <4>2, <4>3 DEF ListedExist
    <3>2. CASE r # s
      <4>1. pending'[r] = pending[r] /\ cache'[r] = cache[r]
        BY <1>5, <3>2 DEF Deliver, IInv, TypeOK, ApiTypeOK
      <4> QED
        BY <1>2, <4>1 DEF ListedExist
    <3> QED
      BY <3>1, <3>2
  <2> QED
    BY <2>1, <2>2 DEF ListedExist
<1> QED
  BY <1>3, <1>4, <1>5, StoreGrows DEF apiVars

\* A new object is that of a disk that is there and was found.
LEMMA NewObjects ==
    ASSUME IInv, HInv, Faultless, [Next]_vars, NEW d \in Device,
           store[d] = Absent, store'[d] # Absent
    PROVE  /\ UNCHANGED <<disk, skips>>
           /\ \E n \in Daemon : /\ scan[n].stage = "writing" /\ scan[n].found[d] # Gone
                                /\ scan' = [scan EXCEPT ![n].todo = @ \ {d}]
<1>1. store \in Listing /\ store' # store
  BY DEF IInv, TypeOK, ApiTypeOK
<1>2. ASSUME NEW k \in Call, UpdateStatus(k) PROVE FALSE
  <2>1. WriteStatus(call[k].dev, call[k].seen, NewName(k))
    BY <1>1, <1>2 DEF UpdateStatus, apiVars
  <2> QED
    BY <1>1, <2>1 DEF WriteStatus, Newest, Put, Commit, Listing
<1>3. ASSUME NEW n \in Daemon, ScanStep(n) PROVE CreateRawDevice(n, d)
  <2>1. ASSUME NEW e \in Device, CreateRawDevice(n, e) PROVE e = d
    BY <1>1, <2>1 DEF CreateRawDevice, CreateObject, Put, Commit, Listing
  <2>2. ASSUME NEW e \in Device, UpdateRawDevice(n, e) PROVE FALSE
    BY <1>1, <2>2 DEF UpdateRawDevice, WriteSpec, Newest, Put, Commit, Listing, apiVars
  <2> QED
    BY <1>1, <1>3, <2>1, <2>2, NobodyDeletes
    DEF ScanStep, StartScan, GetRawDevice, ListDeleted, EndScan, apiVars
<1>4. ASSUME NEW n \in Daemon, CreateRawDevice(n, d) PROVE
        /\ UNCHANGED <<disk, skips>> /\ scan[n].stage = "writing" /\ scan[n].found[d] # Gone
        /\ scan' = [scan EXCEPT ![n].todo = @ \ {d}]
  BY <1>4 DEF CreateRawDevice, IInv, ScanWritesFound
<1>5. ASSUME UNCHANGED apiVars PROVE FALSE
  BY <1>1, <1>5 DEF apiVars
<1>6. ASSUME NEW r \in Reader, Deliver(r) \/ RestartReader(r) PROVE FALSE
  BY <1>1, <1>6 DEF Deliver, RestartReader
<1>7. ASSUME NEW k \in Call, ControllerStep(k) PROVE FALSE
  BY <1>2, <1>5, <1>7 DEF ControllerStep, PlaceVolume, ChooseDevice, FindVolume
<1>8. ASSUME NEW v \in Volume, ProvisionerStep(v) PROVE FALSE
  BY <1>5, <1>8 DEF ProvisionerStep, CallCreate, CallDelete, ReleaseVolume, TakeAnswer, TimeOut
<1>9. \E n \in Daemon : CreateRawDevice(n, d)
  BY <1>3, <1>5, <1>6, <1>7, <1>8
  DEF Next, vars, CacheSystemStep, ControllerSystemStep, ProvisionerSystemStep, DropSystemStep,
      DropAnswer, ScanSystemStep, DaemonCrashSystemStep, RestartDaemon, DiskSystemStep,
      ChangeDisk, CrashSystemStep, CrashController, Reader
<1> QED
  BY <1>4, <1>9

\* What a step does to the disks and the scans.
LEMMA ScansFind ==
    ASSUME IInv, HInv, Faultless, [Next]_vars
    PROVE  /\ \A d \in Device : disk[d] # Gone => disk'[d] # Gone
           /\ \A n \in Daemon : \A d \in Device :
                 /\ scan'[n].found[d] # Gone => NodeOf[d] = n /\ disk[d] # Gone
                 /\ (NodeOf[d] = n /\ store[d] # Absent /\ scan'[n].stage # "idle")
                      => scan'[n].found[d] # Gone
           /\ \A n \in Daemon : scan'[n].stage = "deleting" => scan'[n].todo = {}
<1> DEFINE Good(x, n) ==
             /\ \A d \in Device :
                   /\ x.found[d] # Gone => NodeOf[d] = n /\ disk[d] # Gone
                   /\ (NodeOf[d] = n /\ store[d] # Absent /\ x.stage # "idle") => x.found[d] # Gone
             /\ x.stage = "deleting" => x.todo = {}
<1>1. \A n \in Daemon : Good(scan[n], n)
  BY DEF HInv, NoneDeleted
<1>2. scan \in [Daemon -> ScanRecord] /\ disk \in [Device -> Disk \cup {Gone}]
  BY DEF IInv, TypeOK, DiscoveryTypeOK
<1>3. ASSUME NEW d \in Device, DiskSystemStep(d)
      PROVE  scan' = scan /\ \A e \in Device : disk[e] # Gone => disk'[e] # Gone
  BY <1>2, <1>3 DEF DiskSystemStep, ChangeDisk, Faultless
<1>4. ASSUME NEW n \in Daemon, NEW x, Good(x, n), disk' = disk, scan' = [scan EXCEPT ![n] = x]
      PROVE  (\A m \in Daemon : Good(scan'[m], m)) /\ disk' = disk
  BY <1>1, <1>2, <1>4
<1>5. \A n \in Daemon : Good(IdleScan, n)
  BY DEF IdleScan
<1>6. ASSUME NEW n \in Daemon, ScanStep(n)
      PROVE  (\A m \in Daemon : Good(scan'[m], m)) /\ disk' = disk
  <2>1. CASE StartScan(n)
    <3>1. PICK missed \in SUBSET {d \in Device : NodeOf[d] = n /\ disk[d] # Gone} :
            LET found == [d \in Device |-> IF NodeOf[d] = n /\ d \notin missed
                                           THEN disk[d] ELSE Gone]
            IN  /\ skips + Cardinality(missed) <= MaxSkips
                /\ scan' = [scan EXCEPT ![n] =
                      [IdleScan EXCEPT !.stage = "writing", !.found = found,
                                       !.todo = {d \in Device : found[d] # Gone}]]
      BY <2>1 DEF StartScan
    <3>2. IsFiniteSet(missed)
      BY ApiAssumption, FS_Subset
    <3>3. missed = {}
      BY <3>1, <3>2, FS_CardinalityType, FS_EmptySet DEF Faultless, IInv, TypeOK, DiscoveryTypeOK
    <3> DEFINE found == [d \in Device |-> IF NodeOf[d] = n THEN disk[d] ELSE Gone]
               x == [IdleScan EXCEPT !.stage = "writing", !.found = found,
                                     !.todo = {d \in Device : found[d] # Gone}]
    <3>4. scan' = [scan EXCEPT ![n] = x]
      BY <3>1, <3>3
    <3>5. Good(x, n)
      BY DEF IdleScan, HInv, NoneDeleted
    <3>6. disk' = disk
      BY <2>1 DEF StartScan
    <3> HIDE DEF x, Good
    <3> QED
      BY <1>4, <3>4, <3>5, <3>6
  <2>2. ASSUME NEW d \in Device, CreateRawDevice(n, d) \/ GetRawDevice(n, d) \/ UpdateRawDevice(n, d)
        PROVE  disk' = disk /\ \E x : Good(x, n) /\ scan' = [scan EXCEPT ![n] = x]
    <3>1. CASE CreateRawDevice(n, d)
      <4> DEFINE x == [scan[n] EXCEPT !.todo = @ \ {d}]
      <4>1. disk' = disk /\ scan' = [scan EXCEPT ![n] = x] /\ scan[n].stage = "writing"
        BY <3>1 DEF CreateRawDevice
      <4>2. Good(x, n)
        BY <1>1, <1>2, <4>1 DEF ScanRecord
      <4> QED
        BY <4>1, <4>2
    <3>2. CASE GetRawDevice(n, d)
      <4> DEFINE x == [scan[n] EXCEPT !.stage = "updating", !.todo = @ \ {d}, !.cur = {d}, !.seen = store[d]]
      <4>1. disk' = disk /\ scan' = [scan EXCEPT ![n] = x] /\ scan[n].stage = "writing"
        BY <3>2 DEF GetRawDevice
      <4>2. Good(x, n)
        BY <1>1, <1>2, <4>1 DEF ScanRecord
      <4> QED
        BY <4>1, <4>2
    <3>3. CASE UpdateRawDevice(n, d)
      <4> DEFINE x == [scan[n] EXCEPT !.stage = "writing", !.cur = {}, !.seen = Absent]
      <4>1. disk' = disk /\ scan' = [scan EXCEPT ![n] = x] /\ scan[n].stage = "updating"
        BY <3>3 DEF UpdateRawDevice
      <4>2. Good(x, n)
        BY <1>1, <1>2, <4>1 DEF ScanRecord
      <4> QED
        BY <4>1, <4>2
    <3> QED
      BY <2>2, <3>1, <3>2, <3>3
  <2>3. CASE ListDeleted(n)
    <3> DEFINE x == [scan[n] EXCEPT !.stage = "deleting", !.todo = {}]
    <3>1. \A d \in Device : NodeOf[d] = n /\ cache[n][d] # Absent => scan[n].found[d] # Gone
      BY <1>1, <2>3 DEF ListDeleted, HInv, ListedExist, Reader
    <3>2. {d \in Device : /\ NodeOf[d] = n /\ cache[n][d] # Absent
                          /\ scan[n].found[d] = Gone /\ cache[n][d].name = NoName} = {}
      BY <3>1
    <3>3. disk' = disk /\ scan' = [scan EXCEPT ![n] = x] /\ scan[n].stage = "writing"
      BY <2>3, <3>2 DEF ListDeleted
    <3>4. Good(x, n)
      BY <1>1, <1>2, <3>3 DEF ScanRecord
    <3> HIDE DEF x, Good
    <3> QED
      BY <1>4, <3>3, <3>4
  <2>4. CASE EndScan(n)
    <3>1. disk' = disk /\ scan' = [scan EXCEPT ![n] = IdleScan] /\ Good(IdleScan, n)
      BY <1>5, <2>4 DEF EndScan
    <3> HIDE DEF Good
    <3> QED
      BY <1>4, <3>1
  <2> HIDE DEF Good
  <2> QED
    BY <1>4, <1>6, <2>1, <2>2, <2>3, <2>4, NobodyDeletes DEF ScanStep
<1>7. ~(faults < MaxFaults)
  BY DEF Faultless, IInv, TypeOK, ProvisionerTypeOK
<1>8. \/ UNCHANGED <<disk, scan>> \/ (\E d \in Device : DiskSystemStep(d))
      \/ \E n \in Daemon : ScanStep(n)
  BY <1>7 DEF Next, vars, discVars, CacheSystemStep, ControllerSystemStep, ProvisionerSystemStep,
    DropSystemStep, ScanSystemStep, DaemonCrashSystemStep, CrashSystemStep
<1> QED
  BY <1>1, <1>3, <1>6, <1>8

\* Every step keeps every recorded disk there and found, and deletes nothing.
LEMMA NoneDeletedKept ==
    ASSUME IInv, HInv, Faultless, [Next]_vars
    PROVE  NoneDeleted'
<1>1. \A d \in Device : disk[d] # Gone => disk'[d] # Gone
  BY ScansFind
<1>2. ASSUME NEW d \in Device, store[d] = Absent, store'[d] # Absent
      PROVE  /\ disk'[d] # Gone
             /\ \A n \in Daemon : NodeOf[d] = n /\ scan'[n].stage # "idle" => scan'[n].found[d] # Gone
  <2>1. PICK n \in Daemon : /\ scan[n].found[d] # Gone
                            /\ scan' = [scan EXCEPT ![n].todo = @ \ {d}]
    BY <1>2, NewObjects
  <2>2. NodeOf[d] = n /\ disk[d] # Gone
    BY <2>1 DEF HInv, NoneDeleted
  <2>3. scan'[n].found[d] # Gone
    BY <2>1 DEF IInv, TypeOK, DiscoveryTypeOK, ScanRecord
  <2> QED
    BY <1>1, <2>2, <2>3
<1>3. \A d \in Device : store'[d] # Absent => disk'[d] # Gone
  BY <1>1, <1>2 DEF HInv, NoneDeleted
<1> QED
  BY <1>1, <1>2, <1>3, ScansFind DEF NoneDeleted

-----------------------------------------------------------------------------
(* Who holds what.                                                         *)

\* What a step may do to volumes and marks: nothing, or grant a free device to a
\* volume, or free the device of a volume.
HeldSame == \A v \in Volume : Holding(v)' = Holding(v)
MarksSame == \A d \in Device : Marked(d)' <=> Marked(d)

Others(v, d) ==
    /\ \A w \in Volume \ {v} : Holding(w)' = Holding(w)
    /\ \A e \in Device \ {d} : Marked(e)' <=> Marked(e)

Grants(v, d) ==
    /\ v \notin Ended /\ Holding(v) = NoDevice /\ ~Marked(d)
    /\ Holding(v)' = d /\ Marked(d)' /\ Ended' = Ended /\ Others(v, d)

Frees(v, d) ==
    /\ Holding(v) = d /\ Holding(v)' = NoDevice /\ ~Marked(d)'
    /\ Ended' = Ended \cup {v} /\ Others(v, d)

HeldEffect ==
    \/ HeldSame /\ MarksSame /\ Ended' = Ended
    \/ \E v \in Volume, d \in Device : Grants(v, d) \/ Frees(v, d)

\* A call of a volume that waits is the call of that volume.
LEMMA OwnCall ==
    ASSUME IInv, HInv, NEW k \in Call, call[k] # Idle
    PROVE  /\ call[k] \in CallRecord /\ call[k].vol \in Volume /\ pv[call[k].vol].call = k
           /\ pv[call[k].vol] \in PvRecord /\ pv[call[k].vol].phase = PhaseOf(call[k].op)
           /\ \A v \in Volume : pv[v].phase \in {"creating", "deleting"} /\ pv[v].call = k
                                  => v = call[k].vol
<1>1. call[k] \in CallRecord
  BY DEF IInv, TypeOK, CallTypeOK
<1>2. call[k].vol \in Volume
  BY <1>1 DEF CallRecord
<1> QED
  BY <1>1, <1>2 DEF HInv, CallsAwaited, VolumesWait, IInv, TypeOK, ProvisionerTypeOK

\* One call goes on, without being answered OK.
LEMMA CallGoesOn ==
    ASSUME IInv, HInv, NEW k \in Call, call[k] # Idle, NEW y \in CallRecord,
           call' = [call EXCEPT ![k] = y], pv' = pv,
           y.vol = call[k].vol, y.op = call[k].op, y.id = call[k].id,
           y.stage # "ok", call[k].stage # "ok"
    PROVE  HeldSame /\ Ended' = Ended /\ CallsAwaited' /\ VolumesWait'
<1>1. call \in [Call -> CallRecord \cup {Idle}]
  BY DEF IInv, TypeOK, CallTypeOK
<1>2. CallsAwaited /\ VolumesWait
  BY DEF HInv
<1>3. \A j \in Call : call'[j] = IF j = k THEN y ELSE call[j]
  BY <1>1
<1>4. y # Idle
  BY CsiAssumption
<1>5. CallsAwaited'
  BY <1>2, <1>3, <1>4 DEF CallsAwaited
<1>6. VolumesWait'
  BY <1>2, <1>3, <1>4 DEF VolumesWait
<1>7. HeldSame
  BY <1>2, <1>3 DEF HeldSame, Holding, VolumesWait
<1>8. Ended' = Ended
  BY <1>7 DEF HeldSame, Ended
<1> QED
  BY <1>5, <1>6, <1>7, <1>8

\* UpdateStatus, when the write succeeds.
LEMMA CallSucceeds ==
    ASSUME IInv, HInv, NEW k \in Call, call[k] # Idle, call[k].stage = "chosen",
           Answer(k, "ok"), pv' = pv, NEW v, v = call[k].vol, NEW d, d = call[k].dev
    PROVE  /\ CallsAwaited' /\ VolumesWait' /\ v \in Volume
           /\ \A w \in Volume \ {v} : Holding(w)' = Holding(w)
           /\ call[k].op = "create" =>
                 v \notin Ended /\ Holding(v) = NoDevice /\ Holding(v)' = d /\ Ended' = Ended
           /\ call[k].op = "delete" =>
                 Holding(v) = call[k].id /\ Holding(v)' = NoDevice /\ Ended' = Ended \cup {v}
<1> DEFINE y == [call[k] EXCEPT !.stage = "ok"]
<1>1. call \in [Call -> CallRecord \cup {Idle}] /\ CallsAwaited /\ VolumesWait
  BY DEF IInv, TypeOK, CallTypeOK, HInv
<1>2. /\ call[k] \in CallRecord /\ v \in Volume /\ pv[v].call = k /\ pv[v].phase = PhaseOf(call[k].op)
      /\ \A w \in Volume : pv[w].phase \in {"creating", "deleting"} /\ pv[w].call = k => w = v
  BY OwnCall
<1>3. /\ y \in CallRecord /\ y.stage = "ok" /\ y.vol = v /\ y.op = call[k].op /\ y.dev = d
      /\ y.id = call[k].id /\ y # Idle /\ \A j \in Call : call'[j] = IF j = k THEN y ELSE call[j]
  BY <1>1, <1>2, CsiAssumption DEF CallRecord, Answer
<1> HIDE DEF y
<1>4. CallsAwaited'
  BY <1>1, <1>3 DEF CallsAwaited
<1>5. VolumesWait'
  BY <1>1, <1>3 DEF VolumesWait
<1>6. \A w \in Volume \ {v} : Holding(w)' = Holding(w)
  BY <1>1, <1>2, <1>3 DEF Holding, VolumesWait
<1>7. CASE call[k].op = "create"
  <2>1. pv[v].phase = "creating"
    BY <1>2, <1>7 DEF PhaseOf
  <2>2. Holding(v) = NoDevice /\ Holding(v)' = d
    BY <1>2, <1>3, <2>1 DEF Holding
  <2>3. v \notin Ended /\ v \notin Ended'
    BY <2>1 DEF Ended
  <2>4. Ended' = Ended
    BY <1>6, <2>3 DEF Ended
  <2> QED
    BY <1>2, <1>4, <1>5, <1>6, <1>7, <2>2, <2>3, <2>4
<1>8. CASE call[k].op = "delete"
  <2>1. pv[v].phase = "deleting" /\ call[k].id = pv[v].dev
    BY <1>1, <1>2, <1>8 DEF PhaseOf, CallsAwaited
  <2>2. Holding(v) = call[k].id /\ Holding(v)' = NoDevice
    BY <1>2, <1>3, <2>1 DEF Holding
  <2>3. v \in Ended'
    BY <1>2, <2>1, <2>2 DEF Ended
  <2>4. Ended' = Ended \cup {v}
    BY <1>6, <2>3 DEF Ended
  <2> QED
    BY <1>2, <1>4, <1>5, <1>6, <1>8, <2>2, <2>4
<1> QED
  BY <1>2, <1>7, <1>8 DEF CallRecord

\* The marks and the write of a call.
LEMMA WriteMarks ==
    ASSUME IInv, NEW d \in Device, NEW copy, NEW name \in Device \cup {NoName}, WriteStatus(d, copy, name)
    PROVE  /\ Marked(d)' <=> name # NoName
           /\ \A e \in Device \ {d} : Marked(e)' <=> Marked(e)
<1> DEFINE o == [rv |-> revision + 1, size |-> store[d].size, avail |-> store[d].avail, name |-> name]
<1>1. store \in Listing /\ store' = [store EXCEPT ![d] = o] /\ store[d] # Absent
  BY DEF IInv, TypeOK, ApiTypeOK, WriteStatus, Newest, Put, Commit
<1>2. o \in Object
  BY <1>1 DEF IInv, TypeOK, ApiTypeOK, Listing, Object
<1>3. o # Absent /\ o.name = name
  BY <1>2, ApiAssumption
<1> HIDE DEF o
<1> QED
  BY <1>1, <1>3 DEF Marked, Listing

\* The controller: only a write that succeeds grants or frees.
LEMMA ControllerHolds ==
    ASSUME IInv, HInv, Faultless, NEW k \in Call, ControllerSystemStep(k)
    PROVE  HeldEffect /\ CallsAwaited' /\ VolumesWait'
<1>1. call[k] # Idle /\ call[k] \in CallRecord
  BY DEF ControllerSystemStep, ControllerStep, PlaceVolume, ChooseDevice, FindVolume, UpdateStatus, At,
         IInv, TypeOK, CallTypeOK
<1>2. pv' = pv /\ ControllerStep(k) /\ GoodCalls(store, revision, call')
  BY ControllerCalls DEF ControllerSystemStep, provVars
<1>3. ASSUME UNCHANGED apiVars PROVE MarksSame
  BY <1>3 DEF apiVars, MarksSame, Marked
<1>4. ASSUME NEW y, call' = [call EXCEPT ![k] = y],
             y.vol = call[k].vol, y.op = call[k].op, y.id = call[k].id, y.stage # "ok",
             call[k].stage # "ok", UNCHANGED apiVars, y \in CallRecord
      PROVE  HeldEffect /\ CallsAwaited' /\ VolumesWait'
  BY <1>1, <1>2, <1>3, <1>4, CallGoesOn DEF HeldEffect
<1>5. ASSUME Answer(k, "error"), call[k].stage # "ok", UNCHANGED apiVars
      PROVE  HeldEffect /\ CallsAwaited' /\ VolumesWait'
  <2> DEFINE y == [call[k] EXCEPT !.stage = "error"]
  <2>1. call' = [call EXCEPT ![k] = y]
    BY <1>5 DEF Answer
  <2>2. /\ y.vol = call[k].vol /\ y.op = call[k].op /\ y.id = call[k].id /\ y.stage # "ok"
        /\ y \in CallRecord
    BY <1>1 DEF CallRecord
  <2> HIDE DEF y
  <2> QED
    BY <1>4, <1>5, <2>1, <2>2
<1>6. ASSUME NEW d \in Device, call[k].stage # "ok", UNCHANGED apiVars,
             call' = [call EXCEPT ![k].stage = "placed", ![k].node = NodeOf[d]]
      PROVE  HeldEffect /\ CallsAwaited' /\ VolumesWait'
  <2> DEFINE y == [call[k] EXCEPT !.stage = "placed", !.node = NodeOf[d]]
  <2>1. call' = [call EXCEPT ![k] = y]
    BY <1>6
  <2>2. /\ y.vol = call[k].vol /\ y.op = call[k].op /\ y.id = call[k].id /\ y.stage # "ok"
        /\ y \in CallRecord
    BY <1>1, ApiAssumption DEF CallRecord
  <2> HIDE DEF y
  <2> QED
    BY <1>4, <1>6, <2>1, <2>2
<1>7. ASSUME NEW d \in Device, call[k].stage # "ok", UNCHANGED apiVars,
             call' = [call EXCEPT ![k].stage = "chosen", ![k].dev = d,
                                  ![k].seen = cache[call[k].ctrl][d]]
      PROVE  HeldEffect /\ CallsAwaited' /\ VolumesWait'
  <2> DEFINE y == [call[k] EXCEPT !.stage = "chosen", !.dev = d, !.seen = cache[call[k].ctrl][d]]
  <2>1. call' = [call EXCEPT ![k] = y]
    BY <1>7
  <2>2. cache[call[k].ctrl][d] \in Object \cup {Absent}
    BY <1>1 DEF CallRecord, Reader, IInv, TypeOK, ApiTypeOK, Listing
  <2>3. /\ y.vol = call[k].vol /\ y.op = call[k].op /\ y.id = call[k].id /\ y.stage # "ok"
        /\ y \in CallRecord
    BY <1>1, <2>2 DEF CallRecord
  <2> HIDE DEF y
  <2> QED
    BY <1>4, <1>7, <2>1, <2>3
<1>8. CASE PlaceVolume(k) \/ ChooseDevice(k) \/ FindVolume(k)
  BY <1>5, <1>6, <1>7, <1>8 DEF PlaceVolume, ChooseDevice, FindVolume, At, Largest, BestFit, Fits
<1>9. CASE UpdateStatus(k)
  <2>1. CASE Answer(k, "error") /\ UNCHANGED apiVars
    BY <1>5, <1>9, <2>1 DEF UpdateStatus
  <2>2. CASE WriteStatus(call[k].dev, call[k].seen, NewName(k)) /\ Answer(k, "ok")
    <3>1. PICK v, d : v = call[k].vol /\ d = call[k].dev
      OBVIOUS
    <3>2. call[k].stage = "chosen" /\ d \in Device
      BY <1>9, <3>1 DEF UpdateStatus, IInv, ChosenAsAsked, AsAsked
    <3>3. call[k].seen = store[d] /\ store[d] # Absent
      BY <1>1, <2>2, <3>1, <3>2 DEF WriteStatus, Newest, IInv, OnlyVersions, CallVersions, CallVersion, Version
    <3>4. /\ CallsAwaited' /\ VolumesWait' /\ v \in Volume
          /\ \A w \in Volume \ {v} : Holding(w)' = Holding(w)
          /\ call[k].op = "create" =>
                v \notin Ended /\ Holding(v) = NoDevice /\ Holding(v)' = d /\ Ended' = Ended
          /\ call[k].op = "delete" =>
                Holding(v) = call[k].id /\ Holding(v)' = NoDevice /\ Ended' = Ended \cup {v}
      BY <1>1, <1>2, <2>2, <3>1, <3>2, CallSucceeds
    <3>5. CASE call[k].op = "create"
      <4>1. ~Marked(d)
        BY <1>1, <3>1, <3>2, <3>3, <3>5 DEF IInv, ChosenAsAsked, AsAsked, IsFree, Marked
      <4>2. NewName(k) = d /\ d # NoName
        BY <3>1, <3>2, <3>5, ApiAssumption DEF NewName
      <4>3. Marked(d)' /\ \A e \in Device \ {d} : Marked(e)' <=> Marked(e)
        BY <2>2, <3>1, <3>2, <4>2, WriteMarks
      <4> QED
        BY <3>2, <3>4, <3>5, <4>1, <4>3 DEF HeldEffect, Grants, Others
    <3>6. CASE call[k].op = "delete"
      <4>1. call[k].id = d
        BY <1>1, <3>1, <3>2, <3>3, <3>6, ApiAssumption
        DEF IInv, ChosenAsAsked, AsAsked, OnlyVersions, StoredVersions, Version
      <4>2. NewName(k) = NoName
        BY <3>6 DEF NewName
      <4>3. ~Marked(d)' /\ \A e \in Device \ {d} : Marked(e)' <=> Marked(e)
        BY <2>2, <3>1, <3>2, <4>2, WriteMarks
      <4> QED
        BY <3>2, <3>4, <3>6, <4>1, <4>3 DEF HeldEffect, Frees, Others
    <3> QED
      BY <1>1, <3>5, <3>6 DEF CallRecord
  <2> QED
    BY <1>9, <2>1, <2>2 DEF UpdateStatus
<1> QED
  BY <1>2, <1>8, <1>9 DEF ControllerStep

\* The provisioner: it calls and takes answers, and who holds what stays.
LEMMA ProvisionerHolds ==
    ASSUME IInv, HInv, Faultless, NEW v \in Volume, ProvisionerSystemStep(v)
    PROVE  HeldSame /\ MarksSame /\ Ended' = Ended /\ CallsAwaited' /\ VolumesWait'
<1>1. /\ call \in [Call -> CallRecord \cup {Idle}] /\ pv \in [Volume -> PvRecord]
      /\ CallsAwaited /\ VolumesWait
  BY DEF IInv, TypeOK, CallTypeOK, ProvisionerTypeOK, HInv
<1>2. ~(faults < MaxFaults)
  BY DEF Faultless, IInv, TypeOK, ProvisionerTypeOK
<1>3. MarksSame
  BY DEF ProvisionerSystemStep, ProvisionerStep, CallCreate, CallDelete, ReleaseVolume, TakeAnswer,
         TimeOut, apiVars, MarksSame, Marked
<1>4. ASSUME \A w \in Volume \ {v} : pv'[w] = pv[w],
             \A w \in Volume \ {v} : Holding(w)' = Holding(w),
             Holding(v)' = Holding(v), v \in Ended <=> v \in Ended'
      PROVE  HeldSame /\ Ended' = Ended
  BY <1>1, <1>4 DEF HeldSame, Ended
<1>5. ASSUME NEW k \in Call, NEW c \in Controller, CallCreate(v, k, c) \/ CallDelete(v, k, c)
      PROVE  HeldSame /\ Ended' = Ended /\ CallsAwaited' /\ VolumesWait'
  <2>1. PICK x \in CallRecord, p \in PvRecord :
          /\ call' = [call EXCEPT ![k] = x] /\ pv' = [pv EXCEPT ![v] = p] /\ call[k] = Idle
          /\ x.vol = v /\ x.stage # "ok" /\ p.call = k /\ p.phase = PhaseOf(x.op)
          /\ p.dev = pv[v].dev
          /\ \/ x.op = "create" /\ pv[v].phase = "wanted"
             \/ x.op = "delete" /\ pv[v].phase = "released" /\ x.id = p.dev
    <3>1. CASE CallCreate(v, k, c)
      <4> DEFINE x == NewCreate(v, c)
                 p == [pv[v] EXCEPT !.phase = "creating", !.call = k]
      <4>1. x \in CallRecord
        BY CsiAssumption DEF NewCreate, CallRecord, Requests
      <4>2. p \in PvRecord /\ p.call = k /\ p.phase = "creating" /\ p.dev = pv[v].dev
        BY <1>1 DEF PvRecord
      <4>3. call' = [call EXCEPT ![k] = x] /\ pv' = [pv EXCEPT ![v] = p] /\ call[k] = Idle /\ pv[v].phase = "wanted"
        BY <3>1 DEF CallCreate
      <4>4. x.vol = v /\ x.stage # "ok" /\ x.op = "create"
        BY DEF NewCreate
      <4> HIDE DEF x, p
      <4> QED
        BY <4>1, <4>2, <4>3, <4>4 DEF PhaseOf
    <3>2. CASE CallDelete(v, k, c)
      <4> DEFINE x == NewDelete(v, c, pv[v].dev)
                 p == [pv[v] EXCEPT !.phase = "deleting", !.call = k]
      <4>1. x \in CallRecord
        BY <1>1 DEF NewDelete, CallRecord, PvRecord
      <4>2. p \in PvRecord /\ p.call = k /\ p.phase = "deleting" /\ p.dev = pv[v].dev
        BY <1>1 DEF PvRecord
      <4>3. call' = [call EXCEPT ![k] = x] /\ pv' = [pv EXCEPT ![v] = p] /\ call[k] = Idle /\ pv[v].phase = "released"
        BY <3>2 DEF CallDelete
      <4>4. x.vol = v /\ x.stage # "ok" /\ x.op = "delete" /\ x.id = pv[v].dev
        BY DEF NewDelete
      <4> HIDE DEF x, p
      <4> QED
        BY <4>1, <4>2, <4>3, <4>4 DEF PhaseOf
    <3> QED
      BY <1>5, <3>1, <3>2
  <2>2. /\ \A j \in Call : call'[j] = IF j = k THEN x ELSE call[j]
        /\ \A w \in Volume : pv'[w] = IF w = v THEN p ELSE pv[w]
    BY <1>1, <2>1
  <2>3. x # Idle
    BY CsiAssumption
  <2>4. \A j \in Call : call[j] # Idle => call[j].vol # v /\ call[j].vol \in Volume
    BY <1>1, <2>1 DEF CallsAwaited, PhaseOf, CallRecord
  <2>5. CallsAwaited'
    BY <1>1, <2>1, <2>2, <2>3, <2>4 DEF CallsAwaited
  <2>6. VolumesWait'
    BY <1>1, <2>1, <2>2, <2>3 DEF VolumesWait, PhaseOf
  <2>7. \A w \in Volume \ {v} : Holding(w)' = Holding(w)
    BY <1>1, <2>1, <2>2 DEF Holding, VolumesWait
  <2>8. Holding(v)' = Holding(v)
    <3>1. CASE x.op = "create"
      BY <1>1, <2>1, <2>2, <3>1 DEF Holding, VolumesWait, PhaseOf
    <3>2. CASE x.op = "delete"
      BY <1>1, <2>1, <2>2, <3>2 DEF Holding, PhaseOf
    <3> QED
      BY <2>1, <3>1, <3>2
  <2>9. v \in Ended <=> v \in Ended'
    <3>1. CASE x.op = "create"
      BY <2>1, <2>2, <3>1 DEF Ended, PhaseOf
    <3>2. CASE x.op = "delete"
      <4>1. pv[v].phase = "released" /\ pv[v].dev # NoDevice /\ pv'[v].phase = "deleting"
        BY <2>1, <2>2, <3>2, CsiAssumption DEF IInv, BoundHasId, PhaseOf
      <4>2. Holding(v) = pv[v].dev
        BY <4>1 DEF Holding
      <4> QED
        BY <2>8, <4>1, <4>2 DEF Ended
    <3> QED
      BY <2>1, <3>1, <3>2
  <2> QED
    BY <1>4, <2>2, <2>5, <2>6, <2>7, <2>8, <2>9
<1>6. CASE ReleaseVolume(v)
  <2> DEFINE p == [pv[v] EXCEPT !.phase = "released"]
  <2>1. pv' = [pv EXCEPT ![v] = p] /\ call' = call /\ pv[v].phase = "bound"
    BY <1>6 DEF ReleaseVolume
  <2>2. p.phase = "released" /\ p.dev = pv[v].dev
    BY <1>1 DEF PvRecord
  <2> HIDE DEF p
  <2>3. \A w \in Volume : pv'[w] = IF w = v THEN p ELSE pv[w]
    BY <1>1, <2>1
  <2>4. CallsAwaited'
    BY <1>1, <2>1, <2>2, <2>3 DEF CallsAwaited, PhaseOf, CallRecord
  <2>5. VolumesWait'
    BY <1>1, <2>1, <2>2, <2>3 DEF VolumesWait
  <2>6. \A w \in Volume \ {v} : Holding(w)' = Holding(w)
    BY <2>1, <2>3 DEF Holding
  <2>7. Holding(v)' = Holding(v) /\ (v \in Ended <=> v \in Ended')
    BY <2>1, <2>2, <2>3 DEF Holding, Ended
  <2> QED
    BY <1>3, <1>4, <2>3, <2>4, <2>5, <2>6, <2>7
<1>7. ASSUME NEW k \in Call, TakeAnswer(v, k)
      PROVE  HeldSame /\ Ended' = Ended /\ CallsAwaited' /\ VolumesWait'
  <2>1. /\ call[k] # Idle /\ call[k].stage \in {"ok", "error"} /\ pv[v].call = k
        /\ pv[v].phase \in {"creating", "deleting"}
        /\ call' = [call EXCEPT ![k] = Idle] /\ pv' = [pv EXCEPT ![v] = AfterAnswer(pv[v], call[k])]
    BY <1>7 DEF TakeAnswer, Awaits
  <2>2. call[k] \in CallRecord /\ call[k].vol = v /\ pv[v].phase = PhaseOf(call[k].op) /\ pv[v] \in PvRecord
    BY <2>1, OwnCall
  <2> DEFINE p == AfterAnswer(pv[v], call[k])
  <2>3. /\ p.phase \notin {"creating", "deleting"}
        /\ call[k].op = "create" /\ call[k].stage = "ok" => p.phase = "bound" /\ p.dev = call[k].dev
        /\ call[k].op = "create" /\ call[k].stage = "error" => p.phase = "wanted" /\ p.dev = pv[v].dev
        /\ call[k].op = "delete" /\ call[k].stage = "ok" => p.phase = "gone"
        /\ call[k].op = "delete" /\ call[k].stage = "error" => p.phase = "released" /\ p.dev = pv[v].dev
    BY <2>1, <2>2 DEF AfterAnswer, Retry, PhaseOf, PvRecord, CallRecord
  <2> HIDE DEF p
  <2>4. /\ \A j \in Call : call'[j] = IF j = k THEN Idle ELSE call[j]
        /\ \A w \in Volume : pv'[w] = IF w = v THEN p ELSE pv[w]
    BY <1>1, <2>1 DEF p
  <2>5. \A j \in Call \ {k} : call[j] # Idle => call[j].vol \in Volume \ {v}
    BY <1>1, <2>1 DEF CallsAwaited, CallRecord
  <2>6. \A w \in Volume \ {v} : pv[w].phase \in {"creating", "deleting"} => pv[w].call # k
    BY <1>1, <2>2 DEF VolumesWait
  <2>7. CallsAwaited'
    BY <1>1, <2>4, <2>5 DEF CallsAwaited
  <2>8. VolumesWait'
    <3>1. pv'[v].phase \in {"wanted", "creating"} => pv'[v].dev = NoDevice
      <4>1. p.phase = "wanted" => call[k].op = "create" /\ p.dev = pv[v].dev
        BY <2>1, <2>2, <2>3 DEF CallRecord
      <4>2. call[k].op = "create" => pv[v].dev = NoDevice
        BY <1>1, <2>2 DEF PhaseOf, VolumesWait
      <4> QED
        BY <2>3, <2>4, <4>1, <4>2
    <3>2. ASSUME NEW w \in Volume, w # v PROVE
            /\ pv'[w] = pv[w]
            /\ pv[w].phase \in {"creating", "deleting"} => call'[pv[w].call] = call[pv[w].call]
      BY <1>1, <2>4, <2>6, <3>2 DEF VolumesWait
    <3> QED
      BY <1>1, <2>3, <2>4, <3>1, <3>2 DEF VolumesWait
  <2>9. \A w \in Volume \ {v} : Holding(w)' = Holding(w)
    BY <1>1, <2>4, <2>6 DEF Holding, VolumesWait
  <2>10. Holding(v)' = Holding(v) /\ (v \in Ended <=> v \in Ended')
    <3>1. pv'[v] = p
      BY <2>4
    <3>2. CASE call[k].op = "create"
      <4>1. pv[v].phase = "creating" /\ pv[v].dev = NoDevice
        BY <1>1, <2>2, <3>2 DEF PhaseOf, VolumesWait
      <4>2. CASE call[k].stage = "ok"
        BY <2>1, <2>3, <3>1, <3>2, <4>1, <4>2 DEF Holding, Ended
      <4>3. CASE call[k].stage = "error"
        BY <2>1, <2>3, <3>1, <3>2, <4>1, <4>3 DEF Holding, Ended
      <4> QED
        BY <2>1, <4>2, <4>3
    <3>3. CASE call[k].op = "delete"
      <4>1. pv[v].phase = "deleting" /\ pv[v].dev # NoDevice
        BY <2>2, <3>3, CsiAssumption DEF PhaseOf, IInv, BoundHasId
      <4>2. CASE call[k].stage = "ok"
        BY <2>1, <2>3, <3>1, <3>3, <4>1, <4>2 DEF Holding, Ended
      <4>3. CASE call[k].stage = "error"
        BY <2>1, <2>3, <3>1, <3>3, <4>1, <4>3 DEF Holding, Ended
      <4> QED
        BY <2>1, <4>2, <4>3
    <3> QED
      BY <2>2, <3>2, <3>3 DEF CallRecord
  <2> QED
    BY <1>4, <2>4, <2>7, <2>8, <2>9, <2>10
<1> QED
  BY <1>2, <1>3, <1>5, <1>6, <1>7 DEF ProvisionerSystemStep, ProvisionerStep, TimeOut

-----------------------------------------------------------------------------
(* The invariant without faults, and what follows.                         *)

\* The daemons keep the marks, whatever they write.
LEMMA ScansHold ==
    ASSUME IInv, HInv, Faultless, NEW n \in Daemon, ScanStep(n)
    PROVE  MarksSame
<1>1. store \in Listing
  BY DEF IInv, TypeOK, ApiTypeOK
<1>2. ASSUME NEW d \in Device, NEW spec, spec.size \in Size, spec.avail \in BOOLEAN,
             NEW name \in Device \cup {NoName}, Put(d, spec, name),
             name = IF store[d] = Absent THEN NoName ELSE store[d].name
      PROVE  MarksSame
  <2> DEFINE o == [rv |-> revision + 1, size |-> spec.size, avail |-> spec.avail, name |-> name]
  <2>1. store' = [store EXCEPT ![d] = o] /\ o \in Object /\ o.name = name
    BY <1>2 DEF Put, Commit, Object, IInv, TypeOK, ApiTypeOK
  <2>2. o # Absent
    BY <2>1, ApiAssumption
  <2> HIDE DEF o
  <2> QED
    BY <1>1, <1>2, <2>1, <2>2 DEF MarksSame, Marked, Listing
<1>3. ASSUME UNCHANGED apiVars PROVE MarksSame
  BY <1>3 DEF apiVars, MarksSame, Marked
<1> DEFINE spec(d) == scan[n].found[d]
<1>4. ASSUME NEW d \in Device, spec(d) # Gone PROVE spec(d).size \in Size /\ spec(d).avail \in BOOLEAN
  BY <1>4 DEF IInv, TypeOK, DiscoveryTypeOK, ScanRecord, Disk
<1>5. ASSUME NEW d \in Device, CreateRawDevice(n, d) PROVE MarksSame
  <2>1. spec(d) # Gone /\ store[d] = Absent
    BY <1>5 DEF CreateRawDevice, CreateObject, IInv, ScanWritesFound
  <2> QED
    BY <1>2, <1>4, <1>5, <2>1 DEF CreateRawDevice, CreateObject
<1>6. ASSUME NEW d \in Device, UpdateRawDevice(n, d) PROVE MarksSame
  <2>1. spec(d) # Gone
    BY <1>6 DEF UpdateRawDevice, IInv, ScanWritesFound
  <2>2. store[d] # Absent => store[d].name \in Device \cup {NoName}
    BY <1>1 DEF Listing, Object
  <2> QED
    BY <1>2, <1>3, <1>4, <1>6, <2>1, <2>2 DEF UpdateRawDevice, WriteSpec, Newest
<1> QED
  BY <1>3, <1>5, <1>6, NobodyDeletes DEF ScanStep, StartScan, GetRawDevice, ListDeleted, EndScan

\* Every step: nothing, a grant, or a freed device.
LEMMA StepHolds ==
    ASSUME IInv, HInv, Faultless, [Next]_vars
    PROVE  HeldEffect /\ CallsAwaited' /\ VolumesWait'
<1>1. ~(faults < MaxFaults)
  BY DEF Faultless, IInv, TypeOK, ProvisionerTypeOK
<1>2. ASSUME UNCHANGED <<call, pv>>, MarksSame PROVE HeldEffect /\ CallsAwaited' /\ VolumesWait'
  BY <1>2 DEF HeldEffect, HeldSame, Holding, Ended, CallsAwaited, VolumesWait, HInv
<1>3. ASSUME NEW k \in Call, DropSystemStep(k) PROVE FALSE
  <2>1. call[k] # Idle /\ \A v \in Volume : ~Awaits(v, k)
    BY <1>3 DEF DropSystemStep, DropAnswer
  <2> QED
    BY <2>1, OwnCall DEF Awaits, PhaseOf
<1>4. ASSUME store' = store PROVE MarksSame
  BY <1>4 DEF MarksSame, Marked
<1>5. ASSUME NEW n \in Daemon, ScanSystemStep(n) PROVE HeldEffect /\ CallsAwaited' /\ VolumesWait'
  BY <1>2, <1>5, ScansHold DEF ScanSystemStep, provVars
<1>6. ASSUME NEW r \in Reader, CacheSystemStep(r) PROVE HeldEffect /\ CallsAwaited' /\ VolumesWait'
  BY <1>2, <1>4, <1>6 DEF CacheSystemStep, Deliver, provVars
<1>7. ASSUME NEW d \in Device, DiskSystemStep(d) PROVE HeldEffect /\ CallsAwaited' /\ VolumesWait'
  BY <1>2, <1>4, <1>7 DEF DiskSystemStep, ChangeDisk, apiVars, provVars
<1>8. CASE UNCHANGED vars
  BY <1>2, <1>4, <1>8 DEF vars, apiVars, provVars
<1>9. ASSUME NEW v \in Volume, ProvisionerSystemStep(v) PROVE HeldEffect /\ CallsAwaited' /\ VolumesWait'
  BY <1>9, ProvisionerHolds DEF HeldEffect
<1> QED
  BY <1>1, <1>3, <1>5, <1>6, <1>7, <1>8, <1>9, ControllerHolds
  DEF Next, DaemonCrashSystemStep, CrashSystemStep, CrashController

\* Grants and frees keep one holder for each marked device.
LEMMA HeldKept ==
    ASSUME IInv, IInv', HInv, HeldEffect, \A v \in Volume : Holding(v) \in Device \cup {NoDevice}
    PROVE  HeldOnce' /\ MarkedIffHeld'
<1>1. HeldOnce /\ MarkedIffHeld
  BY DEF HInv
<1>2. CASE HeldSame /\ MarksSame
  <2>1. HeldOnce'
    BY <1>1, <1>2 DEF HeldOnce, HeldSame
  <2>2. MarkedIffHeld'
    BY <1>1, <1>2 DEF MarkedIffHeld, HeldSame, MarksSame
  <2> QED
    BY <2>1, <2>2
<1>3. ASSUME NEW v \in Volume, NEW d \in Device, Grants(v, d) PROVE HeldOnce' /\ MarkedIffHeld'
  <2>1. \A w \in Volume : Holding(w)' = IF w = v THEN d ELSE Holding(w)
    BY <1>3 DEF Grants, Others
  <2>2. \A w \in Volume : Holding(w) # d
    BY <1>1, <1>3 DEF Grants, MarkedIffHeld
  <2>3. HeldOnce'
    BY <1>1, <2>1, <2>2 DEF HeldOnce
  <2>4. \A e \in Device : Marked(e)' <=> (e = d \/ Marked(e))
    BY <1>3 DEF Grants, Others
  <2>5. Holding(v) \notin Device
    BY <1>3, CsiAssumption DEF Grants
  <2>6. MarkedIffHeld'
    BY <1>1, <2>1, <2>4, <2>5 DEF MarkedIffHeld
  <2> QED
    BY <2>3, <2>6
<1>4. ASSUME NEW v \in Volume, NEW d \in Device, Frees(v, d) PROVE HeldOnce' /\ MarkedIffHeld'
  <2>1. \A w \in Volume : Holding(w)' = IF w = v THEN NoDevice ELSE Holding(w)
    BY <1>4 DEF Frees, Others
  <2>2. d # NoDevice /\ \A w \in Volume \ {v} : Holding(w) # d
    BY <1>1, <1>4, CsiAssumption DEF Frees, HeldOnce
  <2>3. HeldOnce'
    BY <1>1, <2>1 DEF HeldOnce
  <2>4. \A e \in Device : Marked(e)' <=> (e # d /\ Marked(e))
    BY <1>4 DEF Frees, Others
  <2>5. Holding(v) = d
    BY <1>4 DEF Frees
  <2>6. MarkedIffHeld'
    BY <1>1, <2>1, <2>2, <2>4, <2>5, CsiAssumption DEF MarkedIffHeld
  <2> QED
    BY <2>3, <2>6
<1> QED
  BY <1>2, <1>3, <1>4 DEF HeldEffect

\* A volume holds a device or nothing.
LEMMA HoldsDevice ==
    ASSUME IInv, HInv, NEW v \in Volume
    PROVE  Holding(v) \in Device \cup {NoDevice}
<1>1. pv[v] \in PvRecord
  BY DEF IInv, TypeOK, ProvisionerTypeOK
<1>2. ASSUME pv[v].phase \in {"creating", "deleting"} PROVE call[pv[v].call] \in CallRecord
  BY <1>2 DEF HInv, VolumesWait, IInv, TypeOK, CallTypeOK
<1> QED
  BY <1>1, <1>2 DEF Holding, PvRecord, CallRecord

\* The system starts with no call, no mark and no scan.
LEMMA InitHolds == Init => HInv
<1> SUFFICES ASSUME Init PROVE HInv
  OBVIOUS
<1>1. IInv
  BY InitInvariant
<1>2. /\ store = [d \in Device |-> InitialObject(d)] /\ cache = [r \in Reader |-> NothingListed]
      /\ pending = [r \in Reader |-> <<store>>]
      /\ call = [k \in Call |-> Idle] /\ disk = InitialDisk /\ scan = [n \in Daemon |-> IdleScan]
      /\ pv = [v \in Volume |-> [phase |-> "wanted", dev |-> NoDevice, call |-> NoCall]]
  BY DEF Init, ApiInit, CallInit, ProvisionerInit, DiscoveryInit
<1>3. \A d \in Device : store[d] # Absent => d \in Discovered /\ store[d].name = NoName
  BY <1>2 DEF InitialObject
<1>4. NoneDeleted
  BY <1>2, <1>3, SystemAssumption DEF NoneDeleted, IdleScan
<1>5. ListedExist
  BY <1>2 DEF ListedExist, NothingListed
<1>6. CallsAwaited /\ VolumesWait
  BY <1>2 DEF CallsAwaited, VolumesWait
<1>7. \A v \in Volume : Holding(v) = NoDevice
  BY <1>2 DEF Holding
<1>8. HeldOnce /\ MarkedIffHeld
  BY <1>3, <1>7, CsiAssumption DEF HeldOnce, MarkedIffHeld, Marked
<1> QED
  BY <1>4, <1>5, <1>6, <1>8 DEF HInv

\* HInv is inductive relative to IInv; its parts HeldOnce and MarkedIffHeld follow
\* from the way a step moves holders.
LEMMA NextHolds == Faultless /\ IInv /\ HInv /\ [Next]_vars => HInv'
<1> SUFFICES ASSUME Faultless, IInv, HInv, [Next]_vars PROVE HInv'
  OBVIOUS
<1>1. IInv'
  BY NextInvariant
<1>2. HeldOnce' /\ MarkedIffHeld'
  BY <1>1, StepHolds, HeldKept, HoldsDevice
<1> QED
  BY <1>2, StepHolds, NoneDeletedKept, ObjectsStay DEF HInv

\* Without faults every call is awaited, no RawDevice is deleted, and every mark
\* has the one volume that holds the device.
LEMMA HeldInvariant == Faultless => (Spec => [](IInv /\ HInv))
<1> SUFFICES ASSUME Faultless PROVE Spec => [](IInv /\ HInv)
  OBVIOUS
<1>1. Init => IInv /\ HInv
  BY InitInvariant, InitHolds
<1>2. IInv /\ HInv /\ [Next]_vars => (IInv /\ HInv)'
  BY NextInvariant, NextHolds
<1> QED
  BY <1>1, <1>2, PTL DEF Spec

\* Without faults no device leaks and none is free under a volume that has it: a
\* device is marked exactly while a volume holds it, for any number of replicas,
\* calls and daemons and caches of any age (createVolume, deleteVolume).
THEOREM MarksAreHeld == Faultless => (Spec => []MarkedIffHeld)
<1> SUFFICES ASSUME Faultless PROVE Spec => []MarkedIffHeld
  OBVIOUS
<1>1. HInv => MarkedIffHeld
  BY DEF HInv
<1> QED
  BY <1>1, HeldInvariant, PTL

\* Without faults two volumes in use never have the same volume id, although the
\* id is but the name of the device (CreateVolume, csi/csi.pb.go:1356-1357).
THEOREM VolumeIdsAreUnique == Faultless => (Spec => []UniqueVolumeIds)
<1> SUFFICES ASSUME Faultless PROVE Spec => []UniqueVolumeIds
  OBVIOUS
<1>1. IInv /\ HInv => UniqueVolumeIds
  <2> SUFFICES ASSUME IInv, HInv, NEW v \in Volume, NEW w \in Volume, v # w,
                      pv[v].phase = "bound", pv[w].phase = "bound"
               PROVE  pv[v].dev # pv[w].dev
    BY DEF UniqueVolumeIds
  <2>1. Holding(v) = pv[v].dev /\ Holding(w) = pv[w].dev
    BY DEF Holding
  <2>2. pv[v].dev # NoDevice
    BY CsiAssumption DEF IInv, BoundHasId
  <2> QED
    BY <2>1, <2>2 DEF HInv, HeldOnce
<1> QED
  BY <1>1, HeldInvariant, PTL

\* Without faults the subsystem implements the abstract allocator: replicas that
\* choose from caches of any age, and daemons that rewrite the objects, together
\* act as one that grants a free device to a volume in one step, once, and frees
\* it in one step (createVolume, deleteVolume, createOrUpdateRawDevice).
THEOREM AllocatesAtomically == Faultless => (Spec => ImplementsAllocation)
<1> SUFFICES ASSUME Faultless PROVE Spec => ImplementsAllocation
  OBVIOUS
<1>1. Init => Allocation!Init
  <2> SUFFICES ASSUME Init PROVE Allocation!Init
    OBVIOUS
  <2>1. \A v \in Volume : pv[v].phase = "wanted" /\ pv[v].dev = NoDevice
    BY DEF Init, ProvisionerInit
  <2>2. \A v \in Volume : Holding(v) = NoDevice
    BY <2>1 DEF Holding
  <2>3. Ended = {}
    BY <2>1 DEF Ended
  <2> QED
    BY <2>2, <2>3 DEF Allocation!Init
<1>2. ASSUME IInv, HInv, [Next]_vars
      PROVE  [Allocation!Next]_<<[v \in Volume |-> Holding(v)], Ended>>
  <2> DEFINE alloc == [v \in Volume |-> Holding(v)]
  <2>1. HeldEffect
    BY <1>2, StepHolds
  <2>2. CASE HeldSame /\ Ended' = Ended
    BY <2>2 DEF HeldSame
  <2>3. ASSUME NEW v \in Volume, NEW d \in Device, Grants(v, d) PROVE Allocation!Allocate(v, d)
    <3>1. \A w \in Volume : Holding(w)' = IF w = v THEN d ELSE Holding(w)
      BY <2>3 DEF Grants, Others
    <3>2. alloc' = [alloc EXCEPT ![v] = d]
      BY <3>1
    <3>3. \A w \in Volume : Holding(w) # d
      BY <1>2, <2>3 DEF Grants, HInv, MarkedIffHeld
    <3> QED
      BY <2>3, <3>2, <3>3 DEF Allocation!Allocate, Grants
  <2>4. ASSUME NEW v \in Volume, NEW d \in Device, Frees(v, d) PROVE Allocation!Free(v)
    <3>1. \A w \in Volume : Holding(w)' = IF w = v THEN NoDevice ELSE Holding(w)
      BY <2>4 DEF Frees, Others
    <3>2. alloc' = [alloc EXCEPT ![v] = NoDevice]
      BY <3>1
    <3> QED
      BY <2>4, <3>2, CsiAssumption DEF Allocation!Free, Frees
  <2> QED
    BY <2>1, <2>2, <2>3, <2>4 DEF HeldEffect, Allocation!Next
<1>3. Spec => [](IInv /\ HInv)
  BY HeldInvariant
<1> QED
  BY <1>1, <1>2, <1>3, PTL DEF Spec, ImplementsAllocation, Allocation!Spec
=============================================================================
