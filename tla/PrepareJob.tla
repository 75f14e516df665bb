----------------------------- MODULE PrepareJob -----------------------------
(***************************************************************************)
(* The preparevg job of a node, and the goroutines of the operator that    *)
(* replace it by a new one (pkg/operator/k8sutil/job.go).  What a job      *)
(* controller does with a job and its pod is external.                     *)
(***************************************************************************)
EXTENDS PrepareVg

CONSTANTS
    Launcher,      \* goroutines that may be asking for a job at a time
    BackoffLimit   \* how often a job replaces a pod that failed

ASSUME JobAssumption == BackoffLimit \in Nat

VARIABLES
    job,     \* what the API server says of the job
    tries,   \* pods of the job that failed
    asks     \* where each goroutine is in RunReplaceableJob

jobVars == <<job, tries, asks>>

JobTypeOK ==
    /\ job \in {"none", "new", "active", "backoff", "done"}
    /\ tries \in 0 .. BackoffLimit + 1
    /\ asks \in [Launcher -> {"no", "get", "wait", "delete", "create"}]

JobInit ==
    /\ job = "none" /\ tries = 0
    /\ asks = [l \in Launcher |-> "no"]

Goes(l, step) == asks' = [asks EXCEPT ![l] = step]

-----------------------------------------------------------------------------
(* RunReplaceableJob(job, deleteIfFound = false).                          *)

Idle(l) == asks[l] = "no"

\* Mutant: any job that exists is left alone.
GetAnyJob(l) ==
    /\ asks[l] = "get"
    /\ Goes(l, IF job = "none" THEN "create" ELSE "no")
    /\ UNCHANGED <<lvmVars, mapVars, pod, job, tries>>

\* A job that is still active is left alone, whatever it was started for.
GetJob(l) ==
    /\ asks[l] = "get"
    /\ Goes(l, CASE job = "none" -> "create" [] job = "active" -> "no" [] OTHER -> "wait")
    /\ UNCHANGED <<lvmVars, mapVars, pod, job, tries>>

\* WaitForJobCompletion: until the job has a result, is gone, or an hour is over.
WaitForJob(l) ==
    /\ asks[l] = "wait"
    /\ IF job \in {"new", "active"} THEN Fault("wait") ELSE UNCHANGED faults
    /\ Goes(l, "delete")
    /\ UNCHANGED <<pv, nodeVars, mapVars, pod, job, tries>>

\* DeleteBatchJob: by name, and with the pods of the job.
DeleteJob(l) ==
    /\ asks[l] = "delete"
    /\ Goes(l, "create")
    /\ job' = "none" /\ tries' = 0 /\ pod' = Gone
    /\ UNCHANGED <<lvmVars, mapVars>>

\* Create is refused when another goroutine has created the job meanwhile.
CreateJob(l) ==
    /\ asks[l] = "create"
    /\ Goes(l, "no")
    /\ job' = IF job = "none" THEN "new" ELSE job
    /\ UNCHANGED <<lvmVars, mapVars, pod, tries>>

LaunchStep(l) == GetJob(l) \/ WaitForJob(l) \/ DeleteJob(l) \/ CreateJob(l)

-----------------------------------------------------------------------------
(* The job controller and the kubelet.                                     *)

StartPod ==
    /\ job \in {"new", "backoff"} /\ tries <= BackoffLimit
    /\ job' = "active" /\ pod' = Started
    /\ UNCHANGED <<lvmVars, mapVars, tries, asks>>

PodSucceeded ==
    /\ job = "active" /\ pod.stage = "done"
    /\ job' = "done" /\ pod' = Gone
    /\ UNCHANGED <<lvmVars, mapVars, tries, asks>>

PodFailed ==
    /\ job = "active" /\ Fault("pod")
    /\ PodFails
    /\ job' = "backoff" /\ tries' = tries + 1
    /\ UNCHANGED asks
=============================================================================
