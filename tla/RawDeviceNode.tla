----------------------------- MODULE RawDeviceNode -----------------------------
(***************************************************************************)
(* The node service of the raw device driver (driver/raw_device/node.go)   *)
(* under the kubelet, which is external: it waits for at most one call for *)
(* each pod, and repeats a call that fails or does not answer in time.  A  *)
(* call it gives up goes on in the plugin with its context cancelled.      *)
(* Whatever a call does may also fail of itself, at the file system or the *)
(* API server.                                                             *)
(* Every pod has one block volume and a target path of its own; which      *)
(* device is behind it is left out.                                        *)
(***************************************************************************)
EXTENDS Naturals

CONSTANTS
    Pod,
    Call,        \* calls at the plugin
    None,
    MaxFaults    \* bound: timeouts, failures, and restarts of the plugin

ASSUME NodeAssumption == None \notin Call \cup Pod /\ MaxFaults \in Nat

VARIABLES
    target,    \* the pods whose target path has a device node
    mu,        \* the mutex of the service: the call that has it
    call,      \* the calls at the plugin
    pod,       \* what the kubelet makes of the pod
    waits,     \* the call it waits for
    faults

pluginVars == <<target, mu, call>>
kubeletVars == <<pod, waits>>
vars == <<pluginVars, kubeletVars, faults>>

Idle == [op |-> "none", pod |-> None, stage |-> "idle", cancelled |-> FALSE]
CallRecord == [op : {"none", "publish", "unpublish"}, pod : Pod \cup {None},
               stage : {"idle", "lock", "get", "mknod", "remove", "ok", "error"},
               cancelled : BOOLEAN]

\* A pod is "uncertain" when a publish has been called and none has answered OK.
TypeOK ==
    /\ target \subseteq Pod /\ mu \in Call \cup {None} /\ call \in [Call -> CallRecord]
    /\ pod \in [Pod -> {"new", "uncertain", "running", "stopping", "gone"}]
    /\ waits \in [Pod -> Call \cup {None}]
    /\ faults \in 0 .. MaxFaults

Init ==
    /\ target = {} /\ mu = None /\ call = [k \in Call |-> Idle]
    /\ pod = [p \in Pod |-> "new"] /\ waits = [p \in Pod |-> None]
    /\ faults = 0

-----------------------------------------------------------------------------
(* NodePublishVolume and NodeUnpublishVolume.                              *)

Goes(k, stage) == call' = [call EXCEPT ![k].stage = stage]

Fails == faults < MaxFaults /\ faults' = faults + 1

\* The mutex is given back on every way out.
Answer(k, stage) == Goes(k, stage) /\ mu' = None

Lock(k) ==
    /\ call[k].stage = "lock" /\ mu = None /\ mu' = k
    /\ Goes(k, IF call[k].op = "publish" THEN "get" ELSE "remove")
    /\ UNCHANGED <<target, faults>>

\* Mutants: the RawDevice is read with a context of its own; an error is returned
\* before the mutex is given back.
GetOfItsOwn(k) ==
    /\ call[k].stage = "get" /\ UNCHANGED target
    /\ \/ Goes(k, "mknod") /\ UNCHANGED <<mu, faults>>
       \/ Fails /\ Answer(k, "error")
GetFailsLocked(k) ==
    /\ call[k].stage = "get" /\ UNCHANGED <<target, mu>>
    /\ \/ ~call[k].cancelled /\ Goes(k, "mknod") /\ UNCHANGED faults
       \/ call[k].cancelled /\ Goes(k, "error") /\ UNCHANGED faults
       \/ Fails /\ Goes(k, "error")

\* MkdirAll and Get.  A request with a cancelled context is not made; otherwise
\* either may still fail.
GetRawDevice(k) ==
    /\ call[k].stage = "get" /\ UNCHANGED target
    /\ \/ ~call[k].cancelled /\ Goes(k, "mknod") /\ UNCHANGED <<mu, faults>>
       \/ call[k].cancelled /\ Answer(k, "error") /\ UNCHANGED faults
       \/ Fails /\ Answer(k, "error")

\* Mknod of a path that exists is an error.
Mknod(k) ==
    /\ call[k].stage = "mknod"
    /\ \/ /\ target' = target \cup {call[k].pod} /\ UNCHANGED faults
          /\ Answer(k, IF call[k].pod \in target THEN "error" ELSE "ok")
       \/ Fails /\ Answer(k, "error") /\ UNCHANGED target

\* So is Remove of one that does not.
Remove(k) ==
    /\ call[k].stage = "remove"
    /\ \/ /\ target' = target \ {call[k].pod} /\ UNCHANGED faults
          /\ Answer(k, IF call[k].pod \in target THEN "ok" ELSE "error")
       \/ Fails /\ Answer(k, "error") /\ UNCHANGED target

CallStep(k) == Lock(k) \/ GetRawDevice(k) \/ Mknod(k) \/ Remove(k)

-----------------------------------------------------------------------------
(* The kubelet.                                                            *)

Start(p, op) ==
    /\ waits[p] = None
    /\ \E k \in Call :
          /\ call[k] = Idle
          /\ call' = [call EXCEPT ![k] = [Idle EXCEPT !.op = op, !.pod = p, !.stage = "lock"]]
          /\ waits' = [waits EXCEPT ![p] = k]
    /\ UNCHANGED <<target, mu>>

Publish(p) ==
    /\ pod[p] \in {"new", "uncertain"} /\ Start(p, "publish")
    /\ pod' = [pod EXCEPT ![p] = "uncertain"]

Unpublish(p) == pod[p] = "stopping" /\ Start(p, "unpublish") /\ UNCHANGED pod

TakeAnswer(p) ==
    /\ waits[p] # None
    /\ LET answer == call[waits[p]] IN
       /\ answer.stage \in {"ok", "error"}
       /\ pod' = IF answer.stage = "error" THEN pod
                 ELSE [pod EXCEPT ![p] = IF answer.op = "publish" THEN "running" ELSE "gone"]
    /\ call' = [call EXCEPT ![waits[p]] = Idle] /\ waits' = [waits EXCEPT ![p] = None]
    /\ UNCHANGED <<target, mu>>

\* A pod that was never published has nothing to unpublish.
DeletePod(p) ==
    /\ waits[p] = None /\ pod[p] \in {"new", "uncertain", "running"}
    /\ pod' = [pod EXCEPT ![p] = IF @ = "new" THEN "gone" ELSE "stopping"]
    /\ UNCHANGED <<pluginVars, waits>>

Timeout(p) ==
    /\ waits[p] # None /\ Fails
    /\ call' = [call EXCEPT ![waits[p]].cancelled = TRUE]
    /\ waits' = [waits EXCEPT ![p] = None]
    /\ UNCHANGED <<target, mu, pod>>

\* The answer of a call that is given up goes nowhere.
DropAnswer(k) ==
    /\ call[k].cancelled /\ call[k].stage \in {"ok", "error"}
    /\ call' = [call EXCEPT ![k] = Idle]
    /\ UNCHANGED <<target, mu, faults>>

RestartPlugin ==
    /\ Fails /\ call' = [k \in Call |-> Idle] /\ mu' = None
    /\ waits' = [p \in Pod |-> None]
    /\ UNCHANGED <<target, pod>>

-----------------------------------------------------------------------------
PluginRuns(k) == (CallStep(k) \/ DropAnswer(k)) /\ UNCHANGED kubeletVars
KubeletRuns(p) == (Publish(p) \/ Unpublish(p) \/ TakeAnswer(p)) /\ UNCHANGED faults

Next ==
    \/ \E k \in Call : PluginRuns(k)
    \/ \E p \in Pod : \/ KubeletRuns(p) \/ Timeout(p)
                      \/ DeletePod(p) /\ UNCHANGED faults
    \/ RestartPlugin

Spec == Init /\ [][Next]_vars

\* The kubelet goes on and each goroutine does; who waits for the mutex gets it in
\* the end (a Go mutex does not starve a goroutine).  Failures are bounded, so calls
\* do not fail of themselves for ever.
Fairness ==
    /\ \A k \in Call : WF_vars(PluginRuns(k)) /\ SF_vars(Lock(k) /\ UNCHANGED kubeletVars)
    /\ \A p \in Pod : SF_vars(KubeletRuns(p))

FairSpec == Spec /\ Fairness

-----------------------------------------------------------------------------
\* A pod that is gone has left no device node, whatever call for it was given up: the
\* volume is deleted next, and its device is given to somebody else.
NoTargetLeft == \A p \in Pod : pod[p] = "gone" => p \notin target

\* In the end exactly the pods that are not deleted have a device node, whatever was
\* given up, failed or was interrupted on the way: a late publish does not bring one
\* back, and no call keeps the mutex.  Whether the kubelet is ever told so is another
\* matter: an answer that was lost is an error for ever (Mknod, Remove).
TargetsFollowPods ==
    \A p \in Pod : <>[](p \in target <=> pod[p] \in {"uncertain", "running"})
=============================================================================
