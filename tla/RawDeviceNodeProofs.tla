-------------------------- MODULE RawDeviceNodeProofs --------------------------
(***************************************************************************)
(* RawDeviceNode leaves no device node behind, for any number of pods,     *)
(* calls, timeouts, failures and restarts.  The argument: whoever removes  *)
(* a target has the mutex, so nobody is between GetRawDevice and Mknod     *)
(* then; and every publish of a pod that is being deleted was given up,    *)
(* so that it does not get past GetRawDevice any more.                     *)
(***************************************************************************)
EXTENDS RawDeviceNode, TLAPS

Busy(k) == call[k].stage # "idle"

\* A call has the operation its stage belongs to, and the mutex while it works.
CallsAtStages ==
    \A k \in Call :
       /\ Busy(k) => call[k].pod \in Pod /\ call[k].op # "none"
       /\ ~Busy(k) => call[k] = Idle
       /\ call[k].stage \in {"get", "mknod", "remove"} => mu = k
       /\ call[k].stage \in {"get", "mknod"} => call[k].op = "publish"
       /\ call[k].stage = "remove" => call[k].op = "unpublish"

\* The kubelet waits for exactly the calls it has not given up.
WaitedCalls ==
    /\ \A p \in Pod : waits[p] # None => Busy(waits[p]) /\ call[waits[p]].pod = p
    /\ \A k \in Call : Busy(k) => (call[k].cancelled <=> waits[call[k].pod] # k)

\* The calls for a pod fit what the kubelet makes of it.
CallsOfPods ==
    \A k \in Call : Busy(k) =>
       /\ pod[call[k].pod] # "new"
       /\ call[k].op = "unpublish" => pod[call[k].pod] \in {"stopping", "gone"}
       /\ call[k].op = "publish" => pod[call[k].pod] = "uncertain" \/ call[k].cancelled

\* The kubelet knows, or is about to be told, that the pod has no device node.
Cleared(p) ==
    \/ pod[p] \in {"new", "gone"}
    \/ \E k \in Call : /\ call[k].pod = p /\ call[k].op = "unpublish"
                       /\ call[k].stage = "ok" /\ ~call[k].cancelled

ClearedStays ==
    \A p \in Pod : Cleared(p) =>
       /\ p \notin target
       /\ \A k \in Call : call[k].pod = p => call[k].stage # "mknod"

IInv == TypeOK /\ CallsAtStages /\ WaitedCalls /\ CallsOfPods /\ ClearedStays

-----------------------------------------------------------------------------
LEMMA InitIInv == Init => IInv
  BY NodeAssumption
  DEF Init, IInv, TypeOK, CallsAtStages, WaitedCalls, CallsOfPods, ClearedStays, Cleared, Busy, Idle, CallRecord

\* A step of a call that stays at the plugin changes its stage and nothing else of it.
LEMMA StageChanges ==
    ASSUME TypeOK, NEW k \in Call, NEW s, Goes(k, s)
    PROVE  /\ call'[k] = [call[k] EXCEPT !.stage = s]
           /\ call'[k].stage = s /\ call'[k].op = call[k].op
           /\ call'[k].pod = call[k].pod /\ call'[k].cancelled = call[k].cancelled
           /\ \A j \in Call \ {k} : call'[j] = call[j]
  BY DEF TypeOK, Goes, CallRecord

LEMMA LockKeeps ==
    ASSUME IInv, NEW k \in Call, Lock(k), UNCHANGED kubeletVars
    PROVE  IInv'
<1> USE NodeAssumption DEF Lock, IInv, kubeletVars
<1>1. PICK s \in {"get", "remove", "mknod", "ok", "error"} : Goes(k, s)
  OBVIOUS
<1>2. TypeOK'
  BY <1>1 DEF Goes, TypeOK, CallRecord
<1>3. /\ call'[k].stage = s /\ call'[k].op = call[k].op
      /\ call'[k].pod = call[k].pod /\ call'[k].cancelled = call[k].cancelled
      /\ \A j \in Call \ {k} : call'[j] = call[j]
  BY <1>1, StageChanges
<1>4. CallsAtStages'
  BY <1>1, <1>3 DEF Goes, CallsAtStages, Busy, TypeOK, CallRecord
<1>5. WaitedCalls'
  BY <1>1, <1>3 DEF Goes, WaitedCalls, Busy, TypeOK, CallRecord
<1>6. CallsOfPods'
  BY <1>1, <1>3 DEF Goes, CallsOfPods, Busy, TypeOK, CallRecord
<1>7. ClearedStays'
  BY <1>1, <1>3 DEF Goes, ClearedStays, Cleared, CallsAtStages, CallsOfPods, Busy, TypeOK, CallRecord
<1> QED
  BY <1>2, <1>4, <1>5, <1>6, <1>7

LEMMA GetRawDeviceKeeps ==
    ASSUME IInv, NEW k \in Call, GetRawDevice(k), UNCHANGED kubeletVars
    PROVE  IInv'
<1> USE NodeAssumption DEF GetRawDevice, Answer, Fails, IInv, kubeletVars
<1>1. PICK s \in {"get", "remove", "mknod", "ok", "error"} : Goes(k, s)
  OBVIOUS
<1>2. TypeOK'
  BY <1>1 DEF Goes, TypeOK, CallRecord
<1>3. /\ call'[k].stage = s /\ call'[k].op = call[k].op
      /\ call'[k].pod = call[k].pod /\ call'[k].cancelled = call[k].cancelled
      /\ \A j \in Call \ {k} : call'[j] = call[j]
  BY <1>1, StageChanges
<1>4. CallsAtStages'
  BY <1>1, <1>3 DEF Goes, CallsAtStages, Busy, TypeOK, CallRecord
<1>5. WaitedCalls'
  BY <1>1, <1>3 DEF Goes, WaitedCalls, Busy, TypeOK, CallRecord
<1>6. CallsOfPods'
  BY <1>1, <1>3 DEF Goes, CallsOfPods, Busy, TypeOK, CallRecord
<1>7. ClearedStays'
  BY <1>1, <1>3 DEF Goes, ClearedStays, Cleared, CallsAtStages, CallsOfPods, Busy, TypeOK, CallRecord
<1> QED
  BY <1>2, <1>4, <1>5, <1>6, <1>7

LEMMA MknodKeeps ==
    ASSUME IInv, NEW k \in Call, Mknod(k), UNCHANGED kubeletVars
    PROVE  IInv'
<1> USE NodeAssumption DEF Mknod, Answer, Fails, IInv, kubeletVars
<1>1. PICK s \in {"get", "remove", "mknod", "ok", "error"} : Goes(k, s)
  OBVIOUS
<1>2. TypeOK'
  BY <1>1 DEF Goes, TypeOK, CallRecord, CallsAtStages, Busy
<1>3. /\ call'[k].stage = s /\ call'[k].op = call[k].op
      /\ call'[k].pod = call[k].pod /\ call'[k].cancelled = call[k].cancelled
      /\ \A j \in Call \ {k} : call'[j] = call[j]
  BY <1>1, StageChanges
<1>4. CallsAtStages'
  BY <1>1, <1>3 DEF Goes, CallsAtStages, Busy, TypeOK, CallRecord
<1>5. WaitedCalls'
  BY <1>1, <1>3 DEF Goes, WaitedCalls, Busy, TypeOK, CallRecord
<1>6. CallsOfPods'
  BY <1>1, <1>3 DEF Goes, CallsOfPods, Busy, TypeOK, CallRecord
<1>7. ClearedStays'
  BY <1>1, <1>3 DEF Goes, ClearedStays, Cleared, CallsAtStages, CallsOfPods, Busy, TypeOK, CallRecord
<1> QED
  BY <1>2, <1>4, <1>5, <1>6, <1>7

LEMMA RemoveKeeps ==
    ASSUME IInv, NEW k \in Call, Remove(k), UNCHANGED kubeletVars
    PROVE  IInv'
<1> USE NodeAssumption DEF Remove, Answer, Fails, IInv, kubeletVars
<1>1. PICK s \in {"get", "remove", "mknod", "ok", "error"} : Goes(k, s)
  OBVIOUS
<1>2. TypeOK'
  BY <1>1 DEF Goes, TypeOK, CallRecord
<1>3. /\ call'[k].stage = s /\ call'[k].op = call[k].op
      /\ call'[k].pod = call[k].pod /\ call'[k].cancelled = call[k].cancelled
      /\ \A j \in Call \ {k} : call'[j] = call[j]
  BY <1>1, StageChanges
<1>4. CallsAtStages'
  BY <1>1, <1>3 DEF Goes, CallsAtStages, Busy, TypeOK, CallRecord
<1>5. WaitedCalls'
  BY <1>1, <1>3 DEF Goes, WaitedCalls, Busy, TypeOK, CallRecord
<1>6. CallsOfPods'
  BY <1>1, <1>3 DEF Goes, CallsOfPods, Busy, TypeOK, CallRecord
<1>7. ClearedStays'
  BY <1>1, <1>3 DEF Goes, ClearedStays, Cleared, CallsAtStages, CallsOfPods, Busy, TypeOK, CallRecord
<1> QED
  BY <1>2, <1>4, <1>5, <1>6, <1>7

LEMMA StartKeeps ==
    ASSUME IInv, NEW p \in Pod, Publish(p) \/ Unpublish(p), UNCHANGED faults
    PROVE  IInv'
<1> USE NodeAssumption DEF IInv
<1>1. PICK op \in {"publish", "unpublish"} :
         /\ Start(p, op)
         /\ op = "publish" => pod[p] \in {"new", "uncertain"} /\ pod' = [pod EXCEPT ![p] = "uncertain"]
         /\ op = "unpublish" => pod[p] = "stopping" /\ pod' = pod
  BY DEF Publish, Unpublish
<1>2. PICK k \in Call :
         /\ call[k] = Idle
         /\ call' = [call EXCEPT ![k] = [Idle EXCEPT !.op = op, !.pod = p, !.stage = "lock"]]
         /\ waits[p] = None /\ waits' = [waits EXCEPT ![p] = k]
         /\ UNCHANGED <<target, mu>>
  BY <1>1 DEF Start
<1> DEFINE new == [Idle EXCEPT !.op = op, !.pod = p, !.stage = "lock"]
<1>3. /\ call' = [call EXCEPT ![k] = new]
      /\ call'[k].op = op /\ call'[k].pod = p /\ call'[k].stage = "lock" /\ ~call'[k].cancelled
      /\ \A j \in Call \ {k} : call'[j] = call[j]
      /\ call[k].stage = "idle"
  <2>1. new.op = op /\ new.pod = p /\ new.stage = "lock" /\ ~new.cancelled
    BY DEF Idle
  <2>2. Idle.stage = "idle"
    BY DEF Idle
  <2> QED
    BY <1>2, <2>1, <2>2 DEF TypeOK
<1>4. TypeOK'
  <2>1. call' \in [Call -> CallRecord]
    BY <1>3 DEF TypeOK, CallRecord, Idle
  <2>2. pod' \in [Pod -> {"new", "uncertain", "running", "stopping", "gone"}]
    BY <1>1 DEF TypeOK
  <2>3. waits' \in [Pod -> Call \cup {None}] /\ UNCHANGED <<target, mu>>
    BY <1>2 DEF TypeOK
  <2> QED
    BY <2>1, <2>2, <2>3 DEF TypeOK
<1>5. CallsAtStages'
  BY <1>2, <1>3 DEF CallsAtStages, Busy, TypeOK
<1>6. WaitedCalls'
  <2>1. waits' \in [Pod -> Call \cup {None}] /\ waits'[p] = k /\ \A q \in Pod \ {p} : waits'[q] = waits[q]
    BY <1>2 DEF TypeOK
  <2>2. \A q \in Pod : waits'[q] # None => call'[waits'[q]].stage # "idle" /\ call'[waits'[q]].pod = q
    BY <1>3, <2>1 DEF WaitedCalls, Busy, TypeOK
  <2>3. \A j \in Call : call'[j].stage # "idle" => (call'[j].cancelled <=> waits'[call'[j].pod] # j)
    <3>1. ~call'[k].cancelled /\ call'[k].pod = p
      BY <1>3
    <3>2. \A j \in Call \ {k} : call[j].stage # "idle" =>
             call[j].pod \in Pod /\ (call[j].cancelled <=> waits[call[j].pod] # j)
      BY DEF WaitedCalls, CallsAtStages, Busy
    <3>3. waits[p] = None
      BY <1>2
    <3> QED
      BY <1>3, <2>1, <3>1, <3>2, <3>3
  <2> QED
    BY <2>2, <2>3 DEF WaitedCalls, Busy
<1>7. CallsOfPods'
  BY <1>1, <1>2, <1>3 DEF CallsOfPods, CallsAtStages, Busy, TypeOK
<1>8. ClearedStays'
  BY <1>1, <1>2, <1>3 DEF ClearedStays, Cleared, TypeOK
<1> QED
  BY <1>4, <1>5, <1>6, <1>7, <1>8

LEMMA TakeAnswerKeeps ==
    ASSUME IInv, NEW p \in Pod, TakeAnswer(p), UNCHANGED faults
    PROVE  IInv'
<1> USE NodeAssumption DEF TakeAnswer, Idle, IInv
<1>1. TypeOK'
  BY DEF TypeOK, CallRecord
<1>2. CallsAtStages'
  BY DEF CallsAtStages, Busy, TypeOK, CallRecord
<1>3. WaitedCalls'
  BY DEF WaitedCalls, CallsAtStages, Busy, TypeOK, CallRecord
<1>4. CallsOfPods'
  BY DEF CallsOfPods, CallsAtStages, WaitedCalls, Busy, TypeOK, CallRecord
<1>5. ClearedStays'
  BY DEF ClearedStays, Cleared, CallsAtStages, CallsOfPods, WaitedCalls, Busy, TypeOK, CallRecord
<1> QED
  BY <1>1, <1>2, <1>3, <1>4, <1>5

LEMMA DeletePodKeeps ==
    ASSUME IInv, NEW p \in Pod, DeletePod(p), UNCHANGED faults
    PROVE  IInv'
<1> USE NodeAssumption DEF DeletePod, pluginVars, IInv
<1>1. TypeOK'
  BY DEF TypeOK, CallRecord
<1>2. CallsAtStages'
  BY DEF CallsAtStages, Busy, TypeOK, CallRecord
<1>3. WaitedCalls'
  BY DEF WaitedCalls, CallsAtStages, Busy, TypeOK, CallRecord
<1>4. CallsOfPods'
  BY DEF CallsOfPods, CallsAtStages, WaitedCalls, Busy, TypeOK, CallRecord
<1>5. ClearedStays'
  BY DEF ClearedStays, Cleared, CallsAtStages, CallsOfPods, WaitedCalls, Busy, TypeOK, CallRecord
<1> QED
  BY <1>1, <1>2, <1>3, <1>4, <1>5

LEMMA TimeoutKeeps ==
    ASSUME IInv, NEW p \in Pod, Timeout(p)
    PROVE  IInv'
<1> USE NodeAssumption DEF IInv
<1>1. PICK k \in Call :
         /\ waits[p] = k
         /\ call' = [call EXCEPT ![k].cancelled = TRUE] /\ waits' = [waits EXCEPT ![p] = None]
         /\ UNCHANGED <<target, mu, pod>> /\ faults < MaxFaults /\ faults' = faults + 1
  BY DEF TypeOK, Timeout, Fails
<1>2. call[k].stage # "idle"
  BY <1>1 DEF WaitedCalls, Busy
<1>3. TypeOK'
  <2>1. call' \in [Call -> CallRecord]
    <3>1. call[k] \in CallRecord
      BY DEF TypeOK
    <3>2. [call[k] EXCEPT !.cancelled = TRUE] \in CallRecord
      BY <3>1 DEF CallRecord
    <3> QED
      BY <1>1, <3>2 DEF TypeOK
  <2>2. waits' \in [Pod -> Call \cup {None}]
    BY <1>1 DEF TypeOK
  <2>3. faults' \in 0 .. MaxFaults
    BY <1>1 DEF TypeOK
  <2> QED
    BY <1>1, <2>1, <2>2, <2>3 DEF TypeOK
<1>4. CallsAtStages'
  BY <1>1, <1>2 DEF CallsAtStages, Busy, TypeOK, CallRecord
<1>5. WaitedCalls'
  BY <1>1, <1>2 DEF WaitedCalls, CallsAtStages, Busy, TypeOK, CallRecord
<1>6. CallsOfPods'
  BY <1>1, <1>2 DEF CallsOfPods, CallsAtStages, WaitedCalls, Busy, TypeOK, CallRecord
<1>7. ClearedStays'
  BY <1>1, <1>2 DEF ClearedStays, Cleared, CallsAtStages, CallsOfPods, WaitedCalls, Busy, TypeOK, CallRecord
<1> QED
  BY <1>3, <1>4, <1>5, <1>6, <1>7

LEMMA DropAnswerKeeps ==
    ASSUME IInv, NEW k \in Call, DropAnswer(k), UNCHANGED kubeletVars
    PROVE  IInv'
<1> USE NodeAssumption DEF DropAnswer, Idle, kubeletVars, IInv
<1>1. TypeOK'
  BY DEF TypeOK, CallRecord
<1>2. CallsAtStages'
  BY DEF CallsAtStages, Busy, TypeOK, CallRecord
<1>3. WaitedCalls'
  BY DEF WaitedCalls, CallsAtStages, Busy, TypeOK, CallRecord
<1>4. CallsOfPods'
  BY DEF CallsOfPods, CallsAtStages, WaitedCalls, Busy, TypeOK, CallRecord
<1>5. ClearedStays'
  BY DEF ClearedStays, Cleared, CallsAtStages, CallsOfPods, WaitedCalls, Busy, TypeOK, CallRecord
<1> QED
  BY <1>1, <1>2, <1>3, <1>4, <1>5

LEMMA RestartPluginKeeps ==
    ASSUME IInv, RestartPlugin
    PROVE  IInv'
<1> USE NodeAssumption DEF RestartPlugin, Fails, Idle, IInv
<1>1. TypeOK'
  BY DEF TypeOK, CallRecord
<1>2. CallsAtStages'
  BY DEF CallsAtStages, Busy, TypeOK, CallRecord
<1>3. WaitedCalls'
  BY DEF WaitedCalls, CallsAtStages, Busy, TypeOK, CallRecord
<1>4. CallsOfPods'
  BY DEF CallsOfPods, CallsAtStages, WaitedCalls, Busy, TypeOK, CallRecord
<1>5. ClearedStays'
  BY DEF ClearedStays, Cleared, CallsAtStages, CallsOfPods, WaitedCalls, Busy, TypeOK, CallRecord
<1> QED
  BY <1>1, <1>2, <1>3, <1>4, <1>5

-----------------------------------------------------------------------------
LEMMA StepKeepsIInv == IInv /\ [Next]_vars => IInv'
<1> SUFFICES ASSUME IInv, [Next]_vars PROVE IInv'
  OBVIOUS
<1>1. ASSUME NEW k \in Call, PluginRuns(k) PROVE IInv'
  BY <1>1, LockKeeps, GetRawDeviceKeeps, MknodKeeps, RemoveKeeps, DropAnswerKeeps DEF PluginRuns, CallStep
<1>2. ASSUME NEW p \in Pod, KubeletRuns(p) PROVE IInv'
  BY <1>2, StartKeeps, TakeAnswerKeeps DEF KubeletRuns
<1>3. ASSUME NEW p \in Pod, Timeout(p) PROVE IInv'
  BY <1>3, TimeoutKeeps
<1>4. ASSUME NEW p \in Pod, DeletePod(p), UNCHANGED faults PROVE IInv'
  BY <1>4, DeletePodKeeps
<1>5. CASE RestartPlugin
  BY <1>5, RestartPluginKeeps
<1>6. CASE UNCHANGED vars
  BY <1>6
  DEF vars, pluginVars, kubeletVars, IInv, TypeOK, CallsAtStages, WaitedCalls, CallsOfPods, ClearedStays, Cleared, Busy
<1> QED
  BY <1>1, <1>2, <1>3, <1>4, <1>5, <1>6 DEF Next

\* The variables keep their types, and the calls, the kubelet and the targets agree.
THEOREM NodeInvariant == Spec => []IInv
<1>1. Init => IInv
  BY InitIInv
<1>2. IInv /\ [Next]_vars => IInv'
  BY StepKeepsIInv
<1> QED
  BY <1>1, <1>2, PTL DEF Spec

\* A pod that is gone has left no device node, whatever publish the kubelet gave up
\* and however often the plugin was restarted (NodePublishVolume, NodeUnpublishVolume).
THEOREM TargetsAreRemoved == Spec => []NoTargetLeft
<1>1. IInv => NoTargetLeft
  BY DEF IInv, ClearedStays, Cleared, NoTargetLeft
<1> QED
  BY <1>1, NodeInvariant, PTL
=============================================================================
