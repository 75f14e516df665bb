-------------------------- MODULE RawDeviceInvariant --------------------------
(***************************************************************************)
(* The inductive invariants from which RawDeviceProofs derives the safety  *)
(* properties of RawDeviceSystem: IInv those that need no assumption about *)
(* faults, HInv those that hold without them.                              *)
(***************************************************************************)
EXTENDS RawDeviceSystem

\* o is a version of device d that a store s at revision n may have had: not
\* newer than n, marked with nothing but its own name, and equal to s[d] if
\* it carries the same resource version.
Version(s, n, d, o) ==
    o # Absent => /\ o.rv <= n
                  /\ o.name \in {NoName, d}
                  /\ (s[d] # Absent /\ s[d].rv = o.rv) => o = s[d]

\* The same of the copy a call holds of its device.
CallVersion(s, n, x) == \A d \in Device : x.dev = d => Version(s, n, d, x.seen)

StoredVersions  == \A d \in Device : Version(store, revision, d, store[d])
CachedVersions  == \A r \in Reader : \A d \in Device :
                      Version(store, revision, d, cache[r][d])
PendingVersions == \A r \in Reader : \A i \in 1 .. Len(pending[r]) : \A d \in Device :
                      Version(store, revision, d, pending[r][i][d])
CallVersions    == \A k \in Call : call[k] # Idle =>
                      CallVersion(store, revision, call[k])
ScanVersions    == \A n \in Daemon : \A d \in Device :
                      d \in scan[n].cur => Version(store, revision, d, scan[n].seen)

\* Every copy anybody may act on is a version.
OnlyVersions ==
    StoredVersions /\ CachedVersions /\ PendingVersions /\ CallVersions /\ ScanVersions

\* The copy a create is about to write back is what createVolume looked for;
\* the copy of a delete is marked with the volume id.
AsAsked(x) ==
    /\ x.stage \in {"chosen", "ok"} => x.dev \in Device
    /\ x.op = "delete" => x.id \in Device
    /\ (x.op = "create" /\ x.stage = "chosen")
          => /\ IsFree(x.seen)
             /\ x.seen.size >= Request[x.vol].size
             /\ NodeOf[x.dev] = x.node
    /\ (x.op = "delete" /\ x.stage = "chosen")
          => x.seen # Absent /\ x.seen.name = x.id

ChosenAsAsked == \A k \in Call : call[k] # Idle => AsAsked(call[k])

\* A volume that was bound has a volume id.
BoundHasId ==
    \A v \in Volume :
        pv[v].phase \in {"bound", "released", "deleting"} => pv[v].dev \in Device

\* A scan writes only what it found.
ScanWritesFound ==
    \A n \in Daemon :
        /\ scan[n].stage \in {"writing", "updating"}
              => \A d \in scan[n].todo : scan[n].found[d] # Gone
        /\ \A d \in scan[n].cur : scan[n].found[d] # Gone

IInv == TypeOK /\ OnlyVersions /\ ChosenAsAsked /\ BoundHasId /\ ScanWritesFound

-----------------------------------------------------------------------------
(* Without timeouts, restarts, missed disks and disks that go.             *)

Faultless == MaxFaults = 0 /\ MaxSkips = 0 /\ \A d \in Device : Gone \notin Changes[d]

\* Every recorded disk is there, every scan finds it, and so none is deleted.
NoneDeleted ==
    /\ \A d \in Device : store[d] # Absent => disk[d] # Gone
    /\ \A n \in Daemon, d \in Device :
          /\ scan[n].found[d] # Gone => NodeOf[d] = n /\ disk[d] # Gone
          /\ (NodeOf[d] = n /\ store[d] # Absent /\ scan[n].stage # "idle")
                => scan[n].found[d] # Gone
    /\ \A n \in Daemon : scan[n].stage = "deleting" => scan[n].todo = {}

\* What a lister shows exists.
ListedExist ==
    \A r \in Reader, d \in Device :
        /\ cache[r][d] # Absent => store[d] # Absent
        /\ \A i \in 1 .. Len(pending[r]) : pending[r][i][d] # Absent => store[d] # Absent

PhaseOf(op) == IF op = "create" THEN "creating" ELSE "deleting"

\* Every call is waited for by its volume, and every volume that waits has a call.
CallsAwaited ==
    \A k \in Call : call[k] # Idle =>
        LET p == pv[call[k].vol]
        IN  /\ p.call = k /\ p.phase = PhaseOf(call[k].op)
            /\ call[k].op = "delete" => call[k].id = p.dev

VolumesWait ==
    \A v \in Volume :
        /\ pv[v].phase \in {"wanted", "creating"} => pv[v].dev = NoDevice
        /\ pv[v].phase \in {"creating", "deleting"} =>
              pv[v].call \in Call /\ call[pv[v].call] # Idle /\ call[pv[v].call].vol = v

HeldOnce == \A v, w \in Volume : v # w /\ Holding(v) # NoDevice => Holding(v) # Holding(w)

HInv == NoneDeleted /\ ListedExist /\ CallsAwaited /\ VolumesWait /\ HeldOnce /\ MarkedIffHeld
=============================================================================
