---------------------------- MODULE CsiProvisioner ----------------------------
(***************************************************************************)
(* The caller of the controller service: the external-provisioner sidecar  *)
(* that the operator deploys beside every replica                          *)
(* (pkg/operator/raw_device/csi), with the claims users create and delete. *)
(* Its source is not in src/.  It is modelled by what the driver can see   *)
(* of it: a volume has at most one call that is waited for, an operation   *)
(* that answers an error or does not answer in time is called again with   *)
(* the same arguments, and a volume id is used from the answer of a create *)
(* until a delete of it has answered OK.                                   *)
(*                                                                         *)
(* A call that is no longer waited for goes on in the driver: its record   *)
(* stays in "call" and its answer is dropped.                              *)
(***************************************************************************)
EXTENDS RawDeviceCsi

CONSTANTS
    NoCall,
    MaxFaults  \* bound: timeouts and process crashes in a behaviour

ASSUME ProvisionerAssumption ==
    /\ NoCall \notin Call
    /\ MaxFaults \in Nat

VARIABLES
    pv,     \* what the cluster knows of each volume
    faults  \* timeouts and crashes so far

PvRecord == [phase : {"wanted", "creating", "bound", "released", "deleting", "gone"},
             dev   : Device \cup {NoDevice},
             call  : Call \cup {NoCall}]

provVars == <<pv, faults>>

ProvisionerTypeOK ==
    /\ pv \in [Volume -> PvRecord]
    /\ faults \in 0 .. MaxFaults

ProvisionerInit ==
    /\ pv = [v \in Volume |-> [phase |-> "wanted", dev |-> NoDevice, call |-> NoCall]]
    /\ faults = 0

\* The phase a volume falls back to when its call brings no result.
Retry(phase) == IF phase = "creating" THEN "wanted" ELSE "released"

Awaits(v, k) == pv[v].phase \in {"creating", "deleting"} /\ pv[v].call = k

-----------------------------------------------------------------------------

CallCreate(v, k, c) ==
    /\ pv[v].phase = "wanted"
    /\ call[k] = Idle
    /\ call' = [call EXCEPT ![k] = NewCreate(v, c)]
    /\ pv' = [pv EXCEPT ![v].phase = "creating", ![v].call = k]
    /\ UNCHANGED <<apiVars, faults>>

\* The user deletes the claim of a bound volume.
ReleaseVolume(v) ==
    /\ pv[v].phase = "bound"
    /\ pv' = [pv EXCEPT ![v].phase = "released"]
    /\ UNCHANGED <<apiVars, call, faults>>

CallDelete(v, k, c) ==
    /\ pv[v].phase = "released"
    /\ call[k] = Idle
    /\ call' = [call EXCEPT ![k] = NewDelete(v, c, pv[v].dev)]
    /\ pv' = [pv EXCEPT ![v].phase = "deleting", ![v].call = k]
    /\ UNCHANGED <<apiVars, faults>>

AfterAnswer(p, c) ==
    IF c.stage = "error" THEN [p EXCEPT !.phase = Retry(@), !.call = NoCall]
    ELSE IF c.op = "create" THEN [phase |-> "bound", dev |-> c.dev, call |-> NoCall]
    ELSE [p EXCEPT !.phase = "gone", !.call = NoCall]

TakeAnswer(v, k) ==
    /\ Awaits(v, k)
    /\ call[k] # Idle
    /\ call[k].stage \in {"ok", "error"}
    /\ call' = [call EXCEPT ![k] = Idle]
    /\ pv' = [pv EXCEPT ![v] = AfterAnswer(pv[v], call[k])]
    /\ UNCHANGED <<apiVars, faults>>

-----------------------------------------------------------------------------
(* Faults.                                                                 *)

\* The deadline of the call passes, or its answer is lost.
TimeOut(v, k) ==
    /\ Awaits(v, k)
    /\ faults < MaxFaults
    /\ faults' = faults + 1
    /\ pv' = [pv EXCEPT ![v].phase = Retry(@), ![v].call = NoCall]
    /\ UNCHANGED <<apiVars, call>>

DropAnswer(k) ==
    /\ call[k] # Idle
    /\ call[k].stage \in {"ok", "error"}
    /\ \A v \in Volume : ~Awaits(v, k)
    /\ call' = [call EXCEPT ![k] = Idle]
    /\ UNCHANGED <<apiVars, provVars>>

\* The pod of a controller replica restarts: its calls are cut off, and its
\* lister is empty until the informer has listed again.
CrashController(c) ==
    /\ faults < MaxFaults
    /\ faults' = faults + 1
    /\ RestartReader(c)
    /\ AbandonCalls(c)
    /\ pv' = [v \in Volume |->
                 IF \E k \in Call : Awaits(v, k) /\ call[k].ctrl = c
                 THEN [pv[v] EXCEPT !.phase = Retry(@), !.call = NoCall]
                 ELSE pv[v]]

ProvisionerStep(v) ==
    \/ \E k \in Call, c \in Controller : CallCreate(v, k, c) \/ CallDelete(v, k, c)
    \/ ReleaseVolume(v)
    \/ \E k \in Call : TakeAnswer(v, k) \/ TimeOut(v, k)
=============================================================================
