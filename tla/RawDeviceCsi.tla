----------------------------- MODULE RawDeviceCsi -----------------------------
(***************************************************************************)
(* The controller service of the raw device CSI driver                     *)
(* (driver/raw_device/controller.go): CreateVolume and DeleteVolume, as    *)
(* the steps between which other processes can run.  Each call reads the   *)
(* replica's informer cache once (twice for a create without topology) and *)
(* ends in one conditional UpdateStatus.                                   *)
(*                                                                         *)
(* A call record goes through the stages                                   *)
(*    received -> placed -> chosen -> ok | error       (create)            *)
(*    received -> chosen -> ok | error                 (delete)            *)
(* where "chosen" holds the cached copy about to be written back.          *)
(***************************************************************************)
EXTENDS RawDeviceApi

CONSTANTS
    Volume,    \* volumes the cluster asks for (one PersistentVolumeClaim each)
    Request,   \* what each volume asks for: a size and a node
    Call,      \* bound: gRPC calls that can be in progress at once
    AnyNode,   \* a request without accessibility requirements
    NoDevice,
    Idle       \* an unused call slot

Requests == [size : Size, node : Node \cup {AnyNode}]

CallRecord == [op    : {"create", "delete"},
               vol   : Volume,
               ctrl  : Controller,
               stage : {"received", "placed", "chosen", "ok", "error"},
               node  : Node \cup {AnyNode},
               id    : Device \cup {NoDevice},  \* the volume id of a delete
               dev   : Device \cup {NoDevice},
               seen  : Object \cup {Absent}]

ASSUME CsiAssumption ==
    /\ Request \in [Volume -> Requests]
    /\ AnyNode \notin Node
    /\ NoDevice \notin Device
    /\ Idle \notin CallRecord

VARIABLE call  \* the calls in progress

CallTypeOK == call \in [Call -> CallRecord \cup {Idle}]

CallInit == call = [k \in Call |-> Idle]

At(k, op, stage) == call[k] # Idle /\ call[k].op = op /\ call[k].stage = stage

Answer(k, result) == call' = [call EXCEPT ![k].stage = result]

-----------------------------------------------------------------------------
(* CreateVolume.                                                           *)

IsFree(o) == o # Absent /\ o.name = NoName /\ o.avail

NewCreate(v, c) ==
    [op |-> "create", vol |-> v, ctrl |-> c,
     stage |-> IF Request[v].node = AnyNode THEN "received" ELSE "placed",
     node |-> Request[v].node, id |-> NoDevice, dev |-> NoDevice, seen |-> Absent]

\* getMaxCapacity: the largest free devices of the cluster, by c's cache.
Largest(c) ==
    {d \in Device : /\ IsFree(cache[c][d])
                    /\ \A e \in Device : IsFree(cache[c][e])
                                            => cache[c][e].size <= cache[c][d].size}

\* Without topology the node of a largest free device is taken, and the
\* request fails when even that device is too small.
PlaceVolume(k) ==
    /\ At(k, "create", "received")
    /\ \/ /\ \A d \in Largest(call[k].ctrl) :
                 cache[call[k].ctrl][d].size < Request[call[k].vol].size
          /\ Answer(k, "error")
       \/ \E d \in Largest(call[k].ctrl) :
             /\ cache[call[k].ctrl][d].size >= Request[call[k].vol].size
             /\ call' = [call EXCEPT ![k].stage = "placed", ![k].node = NodeOf[d]]
    /\ UNCHANGED apiVars

\* Mutant: a device of exactly the requested size is refused.
FitsStrictly(c, n, size) ==
    {d \in Device : NodeOf[d] = n /\ IsFree(cache[c][d]) /\ cache[c][d].size > size}

\* createVolume: the free devices of the node that are large enough, and
\* the smallest of them.
Fits(c, n, size) ==
    {d \in Device : NodeOf[d] = n /\ IsFree(cache[c][d]) /\ cache[c][d].size >= size}

BestFit(c, n, size) ==
    {d \in Fits(c, n, size) :
        \A e \in Fits(c, n, size) : cache[c][d].size <= cache[c][e].size}

\* Mutant: the mark is set in the cached object itself, not in a copy.
ChooseInPlace(k) ==
    /\ At(k, "create", "placed")
    /\ LET c == call[k].ctrl
           candidates == BestFit(c, call[k].node, Request[call[k].vol].size)
       IN  \/ candidates = {} /\ Answer(k, "error") /\ UNCHANGED apiVars
           \/ \E d \in candidates :
                 /\ call' = [call EXCEPT ![k].stage = "chosen", ![k].dev = d,
                                         ![k].seen = cache[c][d]]
                 /\ cache' = [cache EXCEPT ![c][d].name = d]
                 /\ UNCHANGED <<store, revision, pending>>

ChooseDevice(k) ==
    /\ At(k, "create", "placed")
    /\ LET c == call[k].ctrl
           candidates == BestFit(c, call[k].node, Request[call[k].vol].size)
       IN  \/ candidates = {} /\ Answer(k, "error")
           \/ \E d \in candidates :
                 call' = [call EXCEPT ![k].stage = "chosen", ![k].dev = d,
                                      ![k].seen = cache[c][d]]
    /\ UNCHANGED apiVars

-----------------------------------------------------------------------------
(* DeleteVolume.                                                           *)

NewDelete(v, c, d) ==
    [op |-> "delete", vol |-> v, ctrl |-> c, stage |-> "received",
     node |-> AnyNode, id |-> d, dev |-> NoDevice, seen |-> Absent]

\* Mutant: any marked object is taken for the volume.
FindMarked(k) ==
    /\ At(k, "delete", "received")
    /\ LET c == call[k].ctrl
       IN  \E d \in Device :
              /\ cache[c][d] # Absent /\ cache[c][d].name # NoName
              /\ call' = [call EXCEPT ![k].stage = "chosen", ![k].dev = d,
                                      ![k].seen = cache[c][d]]
    /\ UNCHANGED apiVars

\* Mutant: a match at index 0 counts as no match.
FindPastFirst(k) ==
    /\ At(k, "delete", "received")
    /\ Answer(k, "error")
    /\ UNCHANGED apiVars

\* deleteVolume: the cached object whose Status.Name is the volume id;
\* NotFound when there is none.
FindVolume(k) ==
    /\ At(k, "delete", "received")
    /\ LET c == call[k].ctrl
           matches == {d \in Device : /\ cache[c][d] # Absent
                                      /\ cache[c][d].name = call[k].id}
       IN  \/ matches = {} /\ Answer(k, "error")
           \/ \E d \in matches :
                 call' = [call EXCEPT ![k].stage = "chosen", ![k].dev = d,
                                      ![k].seen = cache[c][d]]
    /\ UNCHANGED apiVars

-----------------------------------------------------------------------------
(* The write both operations end in: a create marks the device with its    *)
(* own name, a delete clears the mark.  A conflict or NotFound from the    *)
(* API server becomes an Internal error of the call.                       *)

\* Mutants: the name of the request becomes the mark; a delete keeps the mark.
NameOfRequest(k) == IF call[k].op = "create" THEN call[k].vol ELSE NoName
NameKept(k) == call[k].dev

NewName(k) == IF call[k].op = "create" THEN call[k].dev ELSE NoName

\* Mutant: the update carries no resource version.
UpdateBlindly(k) ==
    /\ call[k] # Idle /\ call[k].stage = "chosen"
    /\ \/ /\ store[call[k].dev] # Absent
          /\ Put(call[k].dev, store[call[k].dev], NewName(k))
          /\ Answer(k, "ok")
       \/ /\ store[call[k].dev] = Absent
          /\ Answer(k, "error")
          /\ UNCHANGED apiVars

UpdateStatus(k) ==
    /\ call[k] # Idle /\ call[k].stage = "chosen"
    /\ \/ /\ WriteStatus(call[k].dev, call[k].seen, NewName(k))
          /\ Answer(k, "ok")
       \/ /\ ~Newest(call[k].dev, call[k].seen)
          /\ Answer(k, "error")
          /\ UNCHANGED apiVars

\* A crash of a replica ends its calls wherever they are.
AbandonCalls(c) ==
    call' = [k \in Call |-> IF call[k] # Idle /\ call[k].ctrl = c THEN Idle ELSE call[k]]

ControllerStep(k) ==
    PlaceVolume(k) \/ ChooseDevice(k) \/ FindVolume(k) \/ UpdateStatus(k)
=============================================================================
