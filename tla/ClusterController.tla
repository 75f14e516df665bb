-------------------------- MODULE ClusterController --------------------------
(***************************************************************************)
(* The reconciler of the TopolvmCluster: it puts its finalizer on the      *)
(* object, starts the status checker and the informer of lvmd ConfigMaps,  *)
(* and when the cluster is deleted stops the one, empties the ConfigMaps   *)
(* and removes the finalizer (topolvmcluster_controller.go, cleanup.go).   *)
(* The jobs it starts on the nodes are in module TopolvmNode.              *)
(***************************************************************************)
EXTENDS LvmdController

VARIABLES
    request,     \* the cluster is in the work queue
    reconciling, \* where the reconciler is
    todo,        \* the ConfigMaps it has listed, and whether they have changed since
    cluster,     \* r.cluster is set
    health       \* r.health: the checker it has started

reconcilerVars == <<request, reconciling, todo, cluster, health>>

ReconcilerTypeOK ==
    /\ request \in BOOLEAN /\ cluster \in BOOLEAN
    /\ reconciling \in {"idle", "clean", "jobs"}
    /\ todo \in [Node -> {"done", "current", "changed"}]
    /\ health \in Checker \cup {None}

Everywhere(x) == [n \in Node |-> x]

ReconcilerInit ==
    /\ request = FALSE /\ reconciling = "idle" /\ todo = Everywhere("done")
    /\ cluster = FALSE /\ health = None

-----------------------------------------------------------------------------
(* reconcile.                                                              *)

\* startClusterMonitor.
StartMonitor ==
    IF health # None THEN UNCHANGED <<check, health>>
    ELSE LET off == {x \in Checker : check[x] = "off"}
             k == CHOOSE x \in off : TRUE
         IN off # {} /\ CheckGoes(k, "list") /\ health' = k

\* onAdd, as far as it is not about the jobs.
OnAdd ==
    /\ cluster' = TRUE
    /\ IF cluster THEN UNCHANGED <<check, health, started, news>> ELSE StartMonitor /\ StartInformer
    /\ UNCHANGED <<stopped, reconciling, todo>>

\* Mutant: the checker stays in r.health.
StopOnly ==
    /\ cluster' = FALSE
    /\ stopped' = IF health = None THEN stopped ELSE stopped \cup {health}
    /\ reconciling' = "clean" /\ todo' = Everywhere("current")
    /\ UNCHANGED <<check, health, started, news>>

\* reconcileDelete up to the list of the ConfigMaps: stopCheckClusterStatus,
\* updateCluster(nil).
Stop ==
    /\ cluster' = FALSE /\ health' = None
    /\ stopped' = IF health = None THEN stopped ELSE stopped \cup {health}
    /\ reconciling' = "clean" /\ todo' = Everywhere("current")
    /\ UNCHANGED <<check, started, news>>

\* AddFinalizerIfNotPresent, then onAdd or reconcileDelete.  A write that is refused
\* brings the request back.
Reconcile ==
    /\ request /\ reconciling = "idle"
    /\ LET copy == copies["cache"]
           finalized == copy.of # NoCluster /\ copy.of.finalizer
           refused == copy.of # NoCluster /\ ~finalized /\ ~copy.current
       IN /\ request' = refused
          /\ IF copy.of = NoCluster \/ refused
             THEN UNCHANGED <<crVars, cluster, health, check, stopped, started, news, reconciling, todo>>
             ELSE /\ IF finalized THEN UNCHANGED crVars
                     ELSE Commit([copy.of EXCEPT !.finalizer = TRUE])
                  /\ IF copy.of.deleting THEN Stop ELSE OnAdd
    /\ UNCHANGED <<lock, pods, listed, maps, reporting>>

-----------------------------------------------------------------------------
(* reconcileDelete.                                                        *)

ReconcilerAt(step) ==
    reconciling = step /\ UNCHANGED <<lock, pods, checkVars, started, news, reporting, cluster, health>>

Again == reconciling' = "idle" /\ todo' = Everywhere("done") /\ request' = TRUE

\* Mutant: an error ends the reconciliation.
CleanMapOnce(n) ==
    /\ ReconcilerAt("clean") /\ todo[n] # "done"
    /\ IF todo[n] = "changed"
       THEN reconciling' = "idle" /\ todo' = Everywhere("done") /\ UNCHANGED <<maps, request>>
       ELSE /\ maps' = [maps EXCEPT ![n] = None] /\ todo' = [todo EXCEPT ![n] = "done"]
            /\ UNCHANGED <<request, reconciling>>
    /\ UNCHANGED crVars

\* cleanLvmdConfigmap.  An Update of a ConfigMap that has changed is refused, and
\* everything starts again.
CleanMap(n) ==
    /\ ReconcilerAt("clean") /\ todo[n] # "done"
    /\ IF todo[n] = "changed" THEN Again /\ UNCHANGED maps
       ELSE /\ maps' = [maps EXCEPT ![n] = None] /\ todo' = [todo EXCEPT ![n] = "done"]
            /\ UNCHANGED <<request, reconciling>>
    /\ UNCHANGED crVars

\* startCleanUpJobs, which ends when the jobs do or after 15 minutes for each.
RunCleanUpJobs ==
    /\ ReconcilerAt("clean") /\ todo = Everywhere("done") /\ reconciling' = "jobs"
    /\ UNCHANGED <<crVars, maps, request, todo>>

\* removeFinalizer: with it the object goes.
RemoveFinalizer ==
    /\ ReconcilerAt("jobs")
    /\ LET copy == copies["cache"] IN
       IF copy.of # NoCluster /\ ~copy.current THEN Again /\ UNCHANGED crVars
       ELSE /\ IF copy.of = NoCluster THEN UNCHANGED crVars ELSE Commit(NoCluster)
            /\ reconciling' = "idle" /\ UNCHANGED <<request, todo>>
    /\ UNCHANGED maps

ReconcilerStep == Reconcile \/ RunCleanUpJobs \/ RemoveFinalizer \/ \E n \in Node : CleanMap(n)
=============================================================================
