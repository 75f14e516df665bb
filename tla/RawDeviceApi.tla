----------------------------- MODULE RawDeviceApi -----------------------------
(***************************************************************************)
(* The RawDevice custom resources as the programs of this repository see   *)
(* them: an API server that orders writes and checks resource versions,    *)
(* and one informer cache per process that follows those writes with a     *)
(* delay.                                                                  *)
(*                                                                         *)
(* A RawDevice is named Hash(node + path) by the discovery daemon and its  *)
(* name is the CSI volume id, so Device is the set of names.  Of the spec  *)
(* only Size and Available matter to allocation; Status.Name is the mark   *)
(* that says the device is taken.                                          *)
(*                                                                         *)
(* The API server and client-go's informers are not in src/: they are      *)
(* modelled from how src/ uses them and mapped as external.                *)
(***************************************************************************)
EXTENDS Integers, Sequences, FiniteSets

CONSTANTS
    Device,      \* names of RawDevice objects, which are also volume ids
    Node,        \* Kubernetes nodes
    NodeOf,      \* the node whose disk a RawDevice stands for
    Controller,  \* replicas of the raw device CSI controller
    Daemon,      \* nodes on which a discovery daemon runs
    Size,        \* device and request sizes, in GiB
    MaxLag,      \* bound: undelivered watch notifications per reader
    NoName,      \* an empty Status.Name
    Absent       \* "there is no such object"

Reader == Controller \cup Daemon

Object == [rv : Nat, size : Size, avail : BOOLEAN, name : Device \cup {NoName}]
Listing == [Device -> Object \cup {Absent}]
NothingListed == [d \in Device |-> Absent]

ASSUME ApiAssumption ==
    /\ IsFiniteSet(Device)
    /\ NodeOf \in [Device -> Node]
    /\ Daemon \subseteq Node
    /\ Controller \cap Node = {}
    /\ Size \subseteq Nat \ {0}
    /\ MaxLag \in Nat \ {0}
    /\ NoName \notin Device
    /\ Absent \notin Object

VARIABLES
    store,     \* the objects at the API server
    revision,  \* the resource version of the last write
    cache,     \* each reader's lister: the store as it was at some moment
    pending    \* each reader's undelivered store states, oldest first

apiVars == <<store, revision, cache, pending>>

ApiTypeOK ==
    /\ store \in Listing
    /\ revision \in Nat
    /\ cache \in [Reader -> Listing]
    /\ pending \in [Reader -> Seq(Listing)]

(***************************************************************************)
(* Informers are started without waiting for their first list, so a        *)
(* process begins with an empty lister.                                    *)
(***************************************************************************)
ApiInit(objects) ==
    /\ store = objects
    /\ revision = 0
    /\ cache = [r \in Reader |-> NothingListed]
    /\ pending = [r \in Reader |-> <<objects>>]

-----------------------------------------------------------------------------
(* Writes.                                                                 *)

Commit(d, o) ==
    /\ \A r \in Reader : Len(pending[r]) < MaxLag
    /\ revision' = revision + 1
    /\ store' = [store EXCEPT ![d] = o]
    /\ pending' = [r \in Reader |-> Append(pending[r], store')]
    /\ UNCHANGED cache

Put(d, spec, name) ==
    Commit(d, [rv |-> revision + 1, size |-> spec.size, avail |-> spec.avail,
               name |-> name])

CreateObject(d, spec) ==
    /\ store[d] = Absent
    /\ Put(d, spec, NoName)

\* A copy may be written back only while it is the newest version.
Newest(d, copy) == store[d] # Absent /\ copy # Absent /\ store[d].rv = copy.rv

\* The status subresource: the spec of the stored object is kept.
WriteStatus(d, copy, name) ==
    /\ Newest(d, copy)
    /\ Put(d, store[d], name)

\* The main resource: the status of the stored object is kept, and writing
\* an equal object is no write at all.
WriteSpec(d, copy, spec) ==
    /\ Newest(d, copy)
    /\ IF store[d].size = spec.size /\ store[d].avail = spec.avail
       THEN UNCHANGED apiVars
       ELSE Put(d, spec, store[d].name)

DeleteObject(d) ==
    /\ store[d] # Absent
    /\ Commit(d, Absent)

-----------------------------------------------------------------------------
(* Informers.                                                              *)

Deliver(r) ==
    /\ pending[r] # <<>>
    /\ cache' = [cache EXCEPT ![r] = Head(pending[r])]
    /\ pending' = [pending EXCEPT ![r] = Tail(pending[r])]
    /\ UNCHANGED <<store, revision>>

\* A restarted process has an empty lister until its first list arrives.
RestartReader(r) ==
    /\ cache' = [cache EXCEPT ![r] = NothingListed]
    /\ pending' = [pending EXCEPT ![r] = <<store>>]
    /\ UNCHANGED <<store, revision>>
=============================================================================
