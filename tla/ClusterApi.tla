----------------------------- MODULE ClusterApi -----------------------------
(***************************************************************************)
(* The TopolvmCluster object, the informer cache from which the operator   *)
(* reads it, and the copies its goroutines hold.  A write needs a copy of  *)
(* the current resource version, and one that is refused is not tried      *)
(* again (pkg/operator/k8sutil/status.go).  The API server is external.    *)
(***************************************************************************)
EXTENDS Integers, Sequences, FiniteSets

CONSTANTS
    Node,       \* the nodes the specification names
    Checker,    \* goroutines that may be checking the status of the cluster
    NoCluster,  \* there is no such object
    None

VARIABLES cr, copies

crVars == <<cr, copies>>

\* The informer's cache, and the goroutines that hold a copy from one step to the next.
Actor == {"cache", "handler"} \cup Checker

\* What is known of the classes of a node: whether one is ready.
Classes == {"ready", "unready"}

\* A phase is empty when the classes of the node have just been reported; one that
\* is neither empty nor Ready is "other".
Phase == {"", "Ready", "other"}
NodeState == [phase : Phase, classes : Classes \cup {None}]
Cluster == [finalizer : BOOLEAN, deleting : BOOLEAN, phase : Phase,
            nodes : [Node -> NodeState \cup {None}]]

\* A copy, and whether it has the resource version of the object.
Copy == [of : Cluster \cup {NoCluster}, current : BOOLEAN]
NoCopy == [of |-> NoCluster, current |-> FALSE]

ASSUME ClusterAssumption ==
    /\ IsFiniteSet(Node)
    /\ {"cache", "handler", None} \cap Checker = {} /\ None # "handler"
    /\ None \notin NodeState \cup Classes /\ NoCluster \notin Cluster

ApiTypeOK == cr \in Cluster \cup {NoCluster} /\ copies \in [Actor -> Copy]

ApiInit == cr = NoCluster /\ copies = [a \in Actor |-> NoCopy]

NewCluster == [finalizer |-> FALSE, deleting |-> FALSE, phase |-> "",
               nodes |-> [n \in Node |-> None]]

Old(copy) == [copy EXCEPT !.current = FALSE]

\* A write makes every copy an old one.  What an old copy says is seen in the cache
\* only: anywhere else all that follows is that the write is refused.
Commit(new) ==
    /\ cr' = new
    /\ copies' = [a \in Actor |-> IF a = "cache" THEN Old(copies[a]) ELSE NoCopy]

Drop(a) == cr' = cr /\ copies' = [copies EXCEPT ![a] = NoCopy]

\* UpdateStatus: there is no second attempt.
Update(new, a) == IF copies[a].current THEN Commit(new) ELSE Drop(a)

\* Get, from the cache.
ReadCache(a) ==
    cr' = cr /\ copies' = [copies EXCEPT ![a] = IF copies["cache"].current THEN copies["cache"] ELSE NoCopy]

\* The cache catches up.
CacheBehind == ~copies["cache"].current
CatchUp == cr' = cr /\ copies' = [copies EXCEPT !["cache"] = [of |-> cr, current |-> TRUE]]
=============================================================================
