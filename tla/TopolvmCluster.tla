--------------------------- MODULE TopolvmCluster ---------------------------
(***************************************************************************)
(* A TopolvmCluster and the goroutines of the operator that write it: the  *)
(* reconciler, the handler of lvmd ConfigMaps and the status checker.  The *)
(* last two share a lock, and all read the object from a cache that lags.  *)
(***************************************************************************)
EXTENDS ClusterController

CONSTANTS
    MaxClusters,  \* bound: clusters that are created, one after the other
    MaxEvents     \* bound: edits, deletions, reports of nodes, changes of pods and restarts

ASSUME BoundAssumption == MaxClusters \in Nat /\ MaxEvents \in Nat

VARIABLES clusters, events

bounds == <<clusters, events>>
vars == <<crVars, lock, pods, checkVars, handlerVars, reconcilerVars, bounds>>

TypeOK ==
    /\ ApiTypeOK /\ CheckTypeOK /\ HandlerTypeOK /\ ReconcilerTypeOK
    /\ clusters \in 0 .. MaxClusters /\ events \in 0 .. MaxEvents

Init ==
    /\ ApiInit /\ CheckInit /\ HandlerInit /\ ReconcilerInit
    /\ clusters = 0 /\ events = 0

-----------------------------------------------------------------------------
(* The environment.                                                        *)

Happens == events < MaxEvents /\ events' = events + 1 /\ UNCHANGED clusters

CreateCluster ==
    /\ cr = NoCluster /\ clusters < MaxClusters
    /\ Commit(NewCluster) /\ clusters' = clusters + 1
    /\ UNCHANGED events

\* A change of what this module does not look at.
EditCluster == cr # NoCluster /\ Happens /\ Commit(cr)

DeleteCluster ==
    /\ cr # NoCluster /\ ~cr.deleting /\ Happens
    /\ Commit(IF cr.finalizer THEN [cr EXCEPT !.deleting = TRUE] ELSE NoCluster)

UserStep ==
    /\ CreateCluster \/ EditCluster \/ DeleteCluster
    /\ UNCHANGED <<lock, pods, checkVars, handlerVars, reconcilerVars>>

NodeRecords(n, classes) ==
    /\ cr # NoCluster /\ Happens
    /\ RecordClasses(n, classes)
    /\ todo' = [todo EXCEPT ![n] = IF @ = "current" THEN "changed" ELSE @]
    /\ UNCHANGED <<crVars, lock, pods, checkVars, started, reporting, request, reconciling,
                   cluster, health>>

ChangePod(n) ==
    /\ Happens
    /\ pods' = IF n \in pods THEN pods \ {n} ELSE pods \cup {n}
    /\ UNCHANGED <<crVars, lock, checkVars, handlerVars, reconcilerVars>>

\* Every change of the object is an event for the reconciler.
Informer ==
    /\ CacheBehind /\ CatchUp /\ request' = TRUE
    /\ UNCHANGED <<lock, pods, checkVars, handlerVars, reconciling, todo, cluster, health, bounds>>

\* The informers of a new operator begin with a list.
RestartOperator ==
    /\ Happens
    /\ copies' = [a \in Actor |-> IF a = "cache" THEN [of |-> cr, current |-> TRUE] ELSE NoCopy]
    /\ lock' = None /\ check' = [k \in Checker |-> "off"]
    /\ listed' = [k \in Checker |-> {}] /\ stopped' = {}
    /\ started' = FALSE /\ news' = <<>> /\ reporting' = None
    /\ request' = TRUE /\ reconciling' = "idle" /\ todo' = Everywhere("done")
    /\ cluster' = FALSE /\ health' = None
    /\ UNCHANGED <<cr, pods, maps>>

-----------------------------------------------------------------------------
CheckerRuns(k) == CheckStep(k) /\ UNCHANGED <<handlerVars, reconcilerVars, bounds>>
HandlerRuns == HandlerStep /\ UNCHANGED <<reconcilerVars, bounds>>
ReconcilerRuns == ReconcilerStep /\ UNCHANGED bounds

Next ==
    \/ \E k \in Checker : CheckerRuns(k)
    \/ HandlerRuns \/ ReconcilerRuns \/ Informer
    \/ UserStep \/ RestartOperator
    \/ \E n \in Node : ChangePod(n) \/ \E c \in Classes : NodeRecords(n, c)

Spec == Init /\ [][Next]_vars

\* Goroutines go on, and so does one that waits for the lock when nobody has it any
\* more.  Users, nodes and pods owe nothing.
Fairness ==
    /\ \A k \in Checker : WF_vars(CheckerRuns(k))
    /\ WF_vars(HandlerRuns) /\ WF_vars(ReconcilerRuns) /\ WF_vars(Informer)

FairSpec == Spec /\ Fairness

-----------------------------------------------------------------------------
(* Safety.                                                                 *)

ClassesOf(c, n) ==
    IF c = NoCluster THEN None ELSE IF c.nodes[n] = None THEN None ELSE c.nodes[n].classes

ShownReady(c, n) == IF c.nodes[n] = None THEN FALSE ELSE c.nodes[n].phase = "Ready"

\* The classes the cluster shows of a node change to those the node has reported,
\* and only then: no check writes back older ones, no report those of another
\* node (checkStatus, UpdateStatus).
ReportsKept ==
    [][cr # NoCluster /\ cr' # NoCluster =>
          \A n \in Node : ClassesOf(cr', n) # ClassesOf(cr, n) =>
              reporting = [node |-> n, classes |-> ClassesOf(cr', n)]]_vars

\* A node is shown as Ready only with a ready class beside it, although two goroutines
\* set the phase and the classes, each from a copy it has read a while ago (checkStatus,
\* UpdateStatus): a check of the status never vouches for classes it has not seen.
ReadyNodesHaveClass ==
    cr # NoCluster => \A n \in Node : ShownReady(cr, n) => HasReadyClass(cr, n)

-----------------------------------------------------------------------------
(* Liveness.                                                               *)

\* The phases of a cluster follow the pods and the classes it shows in the end,
\* whoever clears or overwrites them, also in a cluster that was created again
\* (startClusterMonitor, stopCheckClusterStatus).
PhasesFollow ==
    <>[](cr # NoCluster => cr.deleting \/ cr = CheckedCluster(cr, pods))

\* A deletion is finished, although each refused write starts it again.
DeletionFinishes ==
    (IF cr = NoCluster THEN FALSE ELSE cr.deleting) ~> (cr = NoCluster)

\* The cluster shows what a node has recorded last (UpdateStatus).
StatusShown ==
    <>[](cr # NoCluster => cr.deleting \/ \A n \in Node : maps[n] # None => ClassesOf(cr, n) = maps[n])
=============================================================================
