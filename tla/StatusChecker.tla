---------------------------- MODULE StatusChecker ----------------------------
(***************************************************************************)
(* The goroutine that sets the phases of the cluster and of its nodes      *)
(* (pkg/operator/topolvm/monitor/status.go).  The metrics it sends are     *)
(* left out: their exporter always takes them.                             *)
(***************************************************************************)
EXTENDS ClusterApi

VARIABLES
    lock,     \* statusLock: who has it
    pods,     \* the nodes on which the pod of the node plugin runs and is ready
    check,    \* where each checker is
    listed,   \* the pods it has listed
    stopped   \* checkers whose context is cancelled

checkVars == <<check, listed, stopped>>

CheckTypeOK ==
    /\ lock \in {"handler", None} \cup Checker /\ pods \subseteq Node
    /\ check \in [Checker -> {"off", "list", "wait", "write", "sleep"}]
    /\ listed \in [Checker -> SUBSET Node] /\ stopped \subseteq Checker

CheckInit ==
    /\ lock = None /\ pods = {}
    /\ check = [k \in Checker |-> "off"] /\ listed = [k \in Checker |-> {}]
    /\ stopped = {}

CheckGoes(k, step) == check' = [check EXCEPT ![k] = step]

-----------------------------------------------------------------------------
(* What a check makes of the cluster and the pods it has listed.           *)

HasReadyClass(c, n) == IF c.nodes[n] = None THEN FALSE ELSE c.nodes[n].classes = "ready"

PodPhase(ps, n) == IF n \in ps THEN "Ready" ELSE "other"
NodePhase(c, ps, n) == IF HasReadyClass(c, n) THEN PodPhase(ps, n) ELSE "other"

\* The phase of the cluster is decided on the phases of the pods: the loop tests
\* its own copy of the node, taken before a node without a ready class was changed.
ClusterPhase(ps) == IF \E n \in Node : PodPhase(ps, n) = "Ready" THEN "Ready" ELSE "other"

\* Mutant: a node without a ready class is shown without classes.
CheckedWithoutClasses(c, ps) ==
    [c EXCEPT !.phase = ClusterPhase(ps),
              !.nodes = [n \in Node |-> [phase |-> NodePhase(c, ps, n),
                                         classes |-> IF HasReadyClass(c, n) THEN "ready" ELSE None]]]

CheckedCluster(c, ps) ==
    [c EXCEPT !.phase = ClusterPhase(ps),
              !.nodes = [n \in Node |-> [phase |-> NodePhase(c, ps, n),
                                         classes |-> IF c.nodes[n] = None THEN None
                                                     ELSE c.nodes[n].classes]]]

-----------------------------------------------------------------------------
(* CheckClusterStatus.                                                     *)

\* checkStatus lists the pods before it takes the lock.
ListPods(k) ==
    /\ check[k] = "list" \/ (check[k] = "sleep" /\ k \notin stopped)
    /\ CheckGoes(k, "wait") /\ listed' = [listed EXCEPT ![k] = pods]
    /\ UNCHANGED <<crVars, lock, pods, stopped>>

Sleep(k) == CheckGoes(k, "sleep") /\ listed' = [listed EXCEPT ![k] = {}]

\* Nothing is written when nothing would change.
CompareStatus(k) ==
    /\ check[k] = "wait" /\ lock = None
    /\ LET c == copies["cache"].of
           nothing == IF c = NoCluster THEN TRUE ELSE CheckedCluster(c, listed[k]) = c
       IN IF nothing THEN Sleep(k) /\ UNCHANGED <<crVars, lock>>
          ELSE /\ CheckGoes(k, "write") /\ lock' = k
               /\ ReadCache(k) /\ UNCHANGED listed
    /\ UNCHANGED <<pods, stopped>>

WritePhases(k) ==
    /\ check[k] = "write"
    /\ Update(CheckedCluster(copies[k].of, listed[k]), k)
    /\ lock' = None /\ Sleep(k)
    /\ UNCHANGED <<pods, stopped>>

EndChecks(k) ==
    /\ check[k] = "sleep" /\ k \in stopped
    /\ CheckGoes(k, "off") /\ stopped' = stopped \ {k}
    /\ UNCHANGED <<crVars, lock, pods, listed>>

CheckStep(k) == ListPods(k) \/ CompareStatus(k) \/ WritePhases(k) \/ EndChecks(k)
=============================================================================
