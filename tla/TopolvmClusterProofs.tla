------------------------- MODULE TopolvmClusterProofs -------------------------
(***************************************************************************)
(* What the writers of a TopolvmCluster keep, for any number of nodes,     *)
(* checkers, clusters and events: a copy that may still be written is a    *)
(* copy of the cluster there is, so a write changes what its writer meant  *)
(* to change and nothing else.                                             *)
(***************************************************************************)
EXTENDS TopolvmCluster, FiniteSetTheorems, TLAPS

\* A copy with the resource version of the object is the object.
CurrentCopies == \A a \in Actor : copies[a].current => copies[a].of = cr

\* A goroutine that may write has read a cluster.
WriterCopies == \A a \in Actor \ {"cache"} : copies[a].current => copies[a].of # NoCluster

ApiInv == ApiTypeOK /\ CurrentCopies /\ WriterCopies

IInv == TypeOK /\ CurrentCopies /\ WriterCopies

-----------------------------------------------------------------------------
(* What the writers make of a cluster.                                     *)

\* A change that is not about the nodes changes no classes.
LEMMA SameNodesSameClasses ==
    ASSUME NEW c \in Cluster, NEW d \in Cluster, d.nodes = c.nodes, NEW n \in Node
    PROVE  ClassesOf(d, n) = ClassesOf(c, n)
  BY ClusterAssumption DEF ClassesOf

\* A check of the status sets phases and keeps the classes.
LEMMA CheckedKeepsClasses ==
    ASSUME NEW c \in Cluster, NEW ps
    PROVE  /\ CheckedCluster(c, ps) \in Cluster
           /\ \A n \in Node : ClassesOf(CheckedCluster(c, ps), n) = ClassesOf(c, n)
<1> DEFINE state(n) == [phase |-> NodePhase(c, ps, n),
                        classes |-> IF c.nodes[n] = None THEN None ELSE c.nodes[n].classes]
           d == CheckedCluster(c, ps)
<1>1. \A n \in Node : state(n) \in NodeState
  <2> SUFFICES ASSUME NEW n \in Node PROVE state(n) \in NodeState
    OBVIOUS
  <2>1. NodePhase(c, ps, n) \in Phase
    BY DEF NodePhase, PodPhase, Phase
  <2>2. c.nodes[n] \in NodeState \cup {None}
    BY DEF Cluster
  <2> QED
    BY <2>1, <2>2 DEF NodeState
<1>2. /\ d.finalizer = c.finalizer /\ d.deleting = c.deleting
      /\ d.phase = ClusterPhase(ps) /\ d.nodes = [n \in Node |-> state(n)]
      /\ d \in Cluster
  BY <1>1 DEF CheckedCluster, Cluster, ClusterPhase, Phase
<1>3. ASSUME NEW n \in Node PROVE ClassesOf(d, n) = ClassesOf(c, n)
  <2>1. d.nodes[n] = state(n) /\ d.nodes[n] # None
    BY <1>1, <1>2, ClusterAssumption
  <2>2. c # NoCluster /\ d # NoCluster
    BY <1>2, ClusterAssumption
  <2> QED
    BY <2>1, <2>2 DEF ClassesOf
<1> QED
  BY <1>2, <1>3

\* A report sets the classes of its node and no others.
LEMMA ReportedSetsClasses ==
    ASSUME NEW c \in Cluster, reporting \in Event
    PROVE  /\ Reported(c) \in Cluster
           /\ ClassesOf(Reported(c), reporting.node) = reporting.classes
           /\ \A n \in Node \ {reporting.node} : ClassesOf(Reported(c), n) = ClassesOf(c, n)
<1> DEFINE state == [phase |-> "", classes |-> reporting.classes]
           d == Reported(c)
<1>1. state \in NodeState /\ reporting.node \in Node
  BY DEF NodeState, Phase, Event
<1>2. d.nodes = [c.nodes EXCEPT ![reporting.node] = state] /\ d \in Cluster
  BY <1>1 DEF Reported, Cluster
<1>3. state # None /\ c # NoCluster /\ d # NoCluster
  BY <1>1, <1>2, ClusterAssumption
<1>4. /\ d.nodes[reporting.node] = state
      /\ \A n \in Node \ {reporting.node} : d.nodes[n] = c.nodes[n]
  BY <1>1, <1>2 DEF Cluster
<1>5. ClassesOf(d, reporting.node) = reporting.classes
  <2>1. state.classes = reporting.classes
    OBVIOUS
  <2> QED
    BY <1>3, <1>4, <2>1 DEF ClassesOf
<1>6. ASSUME NEW n \in Node \ {reporting.node} PROVE ClassesOf(d, n) = ClassesOf(c, n)
  BY <1>3, <1>4 DEF ClassesOf
<1> QED
  BY <1>2, <1>5, <1>6

-----------------------------------------------------------------------------
(* The object and its copies.                                              *)

LEMMA CommitKeeps ==
    ASSUME ApiInv, NEW new \in Cluster \cup {NoCluster}, Commit(new)
    PROVE  ApiInv'
<1>1. copies["cache"] \in Copy /\ Old(copies["cache"]) \in Copy /\ ~Old(copies["cache"]).current
  BY DEF ApiInv, ApiTypeOK, Actor, Copy, Old
<1>2. NoCopy \in Copy /\ ~NoCopy.current
  BY DEF NoCopy, Copy
<1>3. /\ cr' = new /\ copies' \in [Actor -> Copy]
      /\ \A a \in Actor : ~copies'[a].current
  BY <1>1, <1>2 DEF Commit
<1> QED
  BY <1>3 DEF ApiInv, ApiTypeOK, CurrentCopies, WriterCopies

LEMMA DropKeeps ==
    ASSUME ApiInv, NEW a \in Actor, Drop(a)
    PROVE  ApiInv'
<1>1. NoCopy \in Copy /\ ~NoCopy.current
  BY DEF NoCopy, Copy
<1> QED
  BY <1>1 DEF Drop, ApiInv, ApiTypeOK, CurrentCopies, WriterCopies

LEMMA UpdateKeeps ==
    ASSUME ApiInv, NEW a \in Actor, NEW new,
           copies[a].current => new \in Cluster, Update(new, a)
    PROVE  ApiInv'
  BY CommitKeeps, DropKeeps DEF Update

LEMMA ReadCacheKeeps ==
    ASSUME ApiInv, NEW a \in Actor, copies["cache"].of # NoCluster, ReadCache(a)
    PROVE  ApiInv'
<1>1. NoCopy \in Copy /\ ~NoCopy.current
  BY DEF NoCopy, Copy
<1>2. "cache" \in Actor
  BY DEF Actor
<1> QED
  BY <1>1, <1>2 DEF ReadCache, ApiInv, ApiTypeOK, CurrentCopies, WriterCopies

LEMMA CatchUpKeeps ==
    ASSUME ApiInv, CatchUp
    PROVE  ApiInv'
<1>1. [of |-> cr, current |-> TRUE] \in Copy
  BY DEF ApiInv, ApiTypeOK, Copy
<1>2. "cache" \in Actor
  BY DEF Actor
<1> QED
  BY <1>1, <1>2 DEF CatchUp, ApiInv, ApiTypeOK, CurrentCopies, WriterCopies

\* What a goroutine may still write is a copy of the cluster there is.
LEMMA WritersCopy ==
    ASSUME ApiInv, NEW a \in Actor \ {"cache"}, copies[a].current
    PROVE  copies[a].of = cr /\ cr \in Cluster
  BY DEF ApiInv, ApiTypeOK, CurrentCopies, WriterCopies

-----------------------------------------------------------------------------
(* One lemma for each step.                                                *)

LEMMA InitIInv == Init => IInv
<1> SUFFICES ASSUME Init PROVE IInv
  OBVIOUS
<1>1. ApiTypeOK /\ CurrentCopies /\ WriterCopies
  BY DEF Init, ApiInit, ApiTypeOK, CurrentCopies, WriterCopies, NoCopy, Copy
<1>2. CheckTypeOK
  BY DEF Init, CheckInit, CheckTypeOK
<1>3. HandlerTypeOK
  <2>1. <<>> \in Seq(Event)
    OBVIOUS
  <2>2. [n \in Node |-> None] \in [Node -> Classes \cup {None}]
    OBVIOUS
  <2> QED
    BY <2>1, <2>2 DEF Init, HandlerInit, HandlerTypeOK
<1>4. ReconcilerTypeOK
  BY DEF Init, ReconcilerInit, ReconcilerTypeOK, Everywhere
<1> QED
  BY <1>1, <1>2, <1>3, <1>4, BoundAssumption DEF Init, IInv, TypeOK

\* Steps of others leave a goroutine's part alone.
LEMMA RestKept ==
    /\ ApiInv /\ UNCHANGED crVars => ApiInv'
    /\ CheckTypeOK /\ UNCHANGED <<lock, pods, checkVars>> => CheckTypeOK'
    /\ HandlerTypeOK /\ UNCHANGED handlerVars => HandlerTypeOK'
    /\ ReconcilerTypeOK /\ UNCHANGED reconcilerVars => ReconcilerTypeOK'
<1>1. ApiInv /\ UNCHANGED crVars => ApiInv'
  BY DEF crVars, ApiInv, ApiTypeOK, CurrentCopies, WriterCopies
<1>2. CheckTypeOK /\ UNCHANGED <<lock, pods, checkVars>> => CheckTypeOK'
  BY DEF checkVars, CheckTypeOK
<1>3. HandlerTypeOK /\ UNCHANGED handlerVars => HandlerTypeOK'
  BY DEF handlerVars, mapVars, HandlerTypeOK
<1>4. ReconcilerTypeOK /\ UNCHANGED reconcilerVars => ReconcilerTypeOK'
  BY DEF reconcilerVars, ReconcilerTypeOK
<1> QED
  BY <1>1, <1>2, <1>3, <1>4

LEMMA CheckerKeeps ==
    ASSUME IInv, NEW k \in Checker, CheckerRuns(k)
    PROVE  IInv'
<1>0. ApiInv /\ CheckTypeOK /\ HandlerTypeOK /\ ReconcilerTypeOK
  BY DEF IInv, ApiInv, TypeOK
<1>1. k \in Actor \ {"cache"}
  BY ClusterAssumption DEF Actor
<1>2. ApiInv'
  <2>1. CASE ListPods(k) \/ EndChecks(k)
    BY <1>0, <2>1, RestKept DEF ListPods, EndChecks
  <2>2. CASE CompareStatus(k)
    BY <1>0, <1>1, <2>2, RestKept, ReadCacheKeeps DEF CompareStatus
  <2>3. CASE WritePhases(k)
    <3>1. copies[k].current => CheckedCluster(copies[k].of, listed[k]) \in Cluster
      BY <1>0, <1>1, WritersCopy, CheckedKeepsClasses
    <3> QED
      BY <1>0, <1>1, <2>3, <3>1, UpdateKeeps DEF WritePhases
  <2> QED
    BY <2>1, <2>2, <2>3 DEF CheckerRuns, CheckStep
<1>3. CheckTypeOK'
  <2>1. CASE ListPods(k)
    BY <1>0, <2>1 DEF ListPods, CheckGoes, CheckTypeOK
  <2>2. CASE CompareStatus(k)
    BY <1>0, <2>2 DEF CompareStatus, Sleep, CheckGoes, CheckTypeOK
  <2>3. CASE WritePhases(k)
    BY <1>0, <2>3 DEF WritePhases, Sleep, CheckGoes, CheckTypeOK
  <2>4. CASE EndChecks(k)
    BY <1>0, <2>4 DEF EndChecks, CheckGoes, CheckTypeOK
  <2> QED
    BY <2>1, <2>2, <2>3, <2>4 DEF CheckerRuns, CheckStep
<1> QED
  BY <1>0, <1>2, <1>3, RestKept DEF CheckerRuns, IInv, ApiInv, TypeOK, bounds

LEMMA HandlerKeeps ==
    ASSUME IInv, HandlerRuns
    PROVE  IInv'
<1>0. ApiInv /\ CheckTypeOK /\ HandlerTypeOK /\ ReconcilerTypeOK
  BY DEF IInv, ApiInv, TypeOK
<1>1. "handler" \in Actor \ {"cache"}
  BY DEF Actor
<1>2. CASE ReadCluster
  <2>1. ApiInv'
    BY <1>0, <1>1, <1>2, RestKept, ReadCacheKeeps DEF ReadCluster
  <2>2. CheckTypeOK'
    BY <1>0, <1>2 DEF ReadCluster, checkVars, CheckTypeOK
  <2>3. HandlerTypeOK'
    <3>1. news \in Seq(Event) /\ news # <<>>
      BY <1>0, <1>2 DEF ReadCluster, HandlerTypeOK
    <3>2. Head(news) \in Event /\ Tail(news) \in Seq(Event)
      BY <3>1
    <3> QED
      BY <1>0, <1>2, <3>2 DEF ReadCluster, HandlerTypeOK
  <2> QED
    BY <1>0, <2>1, <2>2, <2>3, RestKept DEF HandlerRuns, IInv, ApiInv, TypeOK, bounds
<1>3. CASE ReportClasses
  <2>1. reporting \in Event
    BY <1>0, <1>3 DEF ReportClasses, HandlerTypeOK
  <2>2. copies["handler"].current => Reported(copies["handler"].of) \in Cluster
    BY <1>0, <1>1, <2>1, WritersCopy, ReportedSetsClasses
  <2>3. ApiInv'
    BY <1>0, <1>1, <1>3, <2>2, UpdateKeeps DEF ReportClasses
  <2>4. CheckTypeOK'
    BY <1>0, <1>3 DEF ReportClasses, checkVars, CheckTypeOK
  <2>5. HandlerTypeOK'
    BY <1>0, <1>3 DEF ReportClasses, mapVars, HandlerTypeOK
  <2> QED
    BY <1>0, <2>3, <2>4, <2>5, RestKept DEF HandlerRuns, IInv, ApiInv, TypeOK, bounds
<1> QED
  BY <1>2, <1>3 DEF HandlerRuns, HandlerStep

\* An informer that starts has events about nodes that have recorded something.
LEMMA FirstNewsAreEvents ==
    ASSUME HandlerTypeOK
    PROVE  FirstNews \subseteq Seq(Event)
<1> DEFINE known == {x \in Node : maps[x] # None}
           now == {[node |-> n, classes |-> maps[n]] : n \in known}
<1>1. IsFiniteSet(now)
  <2> DEFINE event == [n \in known |-> [node |-> n, classes |-> maps[n]]]
  <2>1. IsFiniteSet(known)
    BY ClusterAssumption, FS_Subset
  <2>2. event \in Surjection(known, now)
    BY DEF Surjection
  <2> QED
    BY <2>1, <2>2, FS_Surjection
<1>2. now \subseteq Event
  BY DEF HandlerTypeOK, Event
<1>3. Cardinality(now) \in Nat
  BY <1>1, FS_CardinalityType
<1>4. ASSUME NEW s \in [1 .. Cardinality(now) -> now] PROVE s \in Seq(Event)
  <2>1. s \in [1 .. Cardinality(now) -> Event]
    BY <1>2
  <2> HIDE DEF now
  <2> QED
    BY <1>3, <2>1
<1> QED
  BY <1>4 DEF FirstNews

LEMMA ReconcileKeeps ==
    ASSUME IInv, Reconcile, UNCHANGED bounds
    PROVE  IInv'
<1>0. ApiInv /\ CheckTypeOK /\ HandlerTypeOK /\ ReconcilerTypeOK
  BY DEF IInv, ApiInv, TypeOK
<1> DEFINE copy == copies["cache"]
<1>1. copy \in Copy /\ (copy.current => copy.of = cr)
  BY <1>0 DEF ApiInv, ApiTypeOK, CurrentCopies, Actor
<1>2. ApiInv'
  <2>1. UNCHANGED crVars \/ (copy.of # NoCluster /\ Commit([copy.of EXCEPT !.finalizer = TRUE]))
    BY DEF Reconcile
  <2>2. copy.of # NoCluster => [copy.of EXCEPT !.finalizer = TRUE] \in Cluster
    BY <1>1 DEF Copy, Cluster
  <2> QED
    BY <1>0, <2>1, <2>2, RestKept, CommitKeeps
<1>3. \/ UNCHANGED <<cluster, health, check, stopped, started, news, reconciling, todo>>
      \/ OnAdd \/ Stop
  BY DEF Reconcile
<1>4. UNCHANGED <<lock, pods, listed, maps, reporting>> /\ request' \in BOOLEAN
  <2>1. /\ request' = (copy.of # NoCluster /\ ~(copy.of # NoCluster /\ copy.of.finalizer) /\ ~copy.current)
        /\ UNCHANGED <<lock, pods, listed, maps, reporting>>
    BY Zenon DEF Reconcile
  <2> QED
    BY <2>1, Zenon
<1>5. /\ check' \in [Checker -> {"off", "list", "wait", "write", "sleep"}]
      /\ stopped' \subseteq Checker /\ health' \in Checker \cup {None}
  <2>1. CASE StartMonitor /\ UNCHANGED stopped
    BY <1>0, <2>1 DEF StartMonitor, CheckGoes, CheckTypeOK, ReconcilerTypeOK
  <2>2. CASE UNCHANGED <<check, health, stopped>>
    BY <1>0, <2>2 DEF CheckTypeOK, ReconcilerTypeOK
  <2>3. CASE Stop
    BY <1>0, <2>3 DEF Stop, CheckTypeOK, ReconcilerTypeOK
  <2> QED
    BY <1>3, <2>1, <2>2, <2>3 DEF OnAdd
<1>6. started' \in BOOLEAN /\ news' \in Seq(Event)
  <2>1. CASE StartInformer
    BY <1>0, <2>1, FirstNewsAreEvents DEF StartInformer, HandlerTypeOK
  <2>2. CASE UNCHANGED <<started, news>>
    BY <1>0, <2>2 DEF HandlerTypeOK
  <2> QED
    BY <1>3, <2>1, <2>2 DEF OnAdd, Stop
<1>7. /\ cluster' \in BOOLEAN /\ reconciling' \in {"idle", "clean", "jobs"}
      /\ todo' \in [Node -> {"done", "current", "changed"}]
  BY <1>0, <1>3 DEF OnAdd, Stop, Everywhere, ReconcilerTypeOK
<1>8. CheckTypeOK' /\ HandlerTypeOK' /\ ReconcilerTypeOK'
  BY <1>0, <1>4, <1>5, <1>6, <1>7 DEF CheckTypeOK, HandlerTypeOK, ReconcilerTypeOK
<1> QED
  BY <1>2, <1>8 DEF IInv, ApiInv, TypeOK, bounds

LEMMA DeletionKeeps ==
    ASSUME IInv, RunCleanUpJobs \/ RemoveFinalizer \/ \E n \in Node : CleanMap(n), UNCHANGED bounds
    PROVE  IInv'
<1>0. ApiInv /\ CheckTypeOK /\ HandlerTypeOK /\ ReconcilerTypeOK
  BY DEF IInv, ApiInv, TypeOK
<1>1. ApiInv'
  <2>1. UNCHANGED crVars \/ Commit(NoCluster)
    BY DEF RunCleanUpJobs, RemoveFinalizer, CleanMap
  <2> QED
    BY <1>0, <2>1, RestKept, CommitKeeps
<1>2. UNCHANGED <<lock, pods, checkVars, started, news, reporting, cluster, health>>
  BY DEF RunCleanUpJobs, RemoveFinalizer, CleanMap, ReconcilerAt
<1>3. maps' \in [Node -> Classes \cup {None}]
  BY <1>0 DEF HandlerTypeOK, RunCleanUpJobs, RemoveFinalizer, CleanMap
<1>4. /\ request' \in BOOLEAN /\ reconciling' \in {"idle", "clean", "jobs"}
      /\ todo' \in [Node -> {"done", "current", "changed"}]
  BY <1>0 DEF ReconcilerTypeOK, RunCleanUpJobs, RemoveFinalizer, CleanMap, ReconcilerAt, Again, Everywhere
<1>5. CheckTypeOK' /\ HandlerTypeOK' /\ ReconcilerTypeOK'
  BY <1>0, <1>2, <1>3, <1>4 DEF checkVars, CheckTypeOK, HandlerTypeOK, ReconcilerTypeOK
<1> QED
  BY <1>1, <1>5 DEF IInv, ApiInv, TypeOK, bounds

LEMMA UserKeeps ==
    ASSUME IInv, UserStep
    PROVE  IInv'
<1>0. ApiInv /\ CheckTypeOK /\ HandlerTypeOK /\ ReconcilerTypeOK
  BY DEF IInv, ApiInv, TypeOK
<1>1. PICK new \in Cluster \cup {NoCluster} : Commit(new)
  <2>1. NewCluster \in Cluster
    BY DEF NewCluster, Cluster, Phase
  <2>2. cr # NoCluster => cr \in Cluster /\ [cr EXCEPT !.deleting = TRUE] \in Cluster
    BY <1>0 DEF ApiInv, ApiTypeOK, Cluster
  <2> QED
    BY <2>1, <2>2 DEF UserStep, CreateCluster, EditCluster, DeleteCluster
<1>2. clusters' \in 0 .. MaxClusters /\ events' \in 0 .. MaxEvents
  BY BoundAssumption DEF IInv, TypeOK, UserStep, CreateCluster, EditCluster, DeleteCluster, Happens
<1> QED
  BY <1>0, <1>1, <1>2, CommitKeeps, RestKept DEF UserStep, IInv, ApiInv, TypeOK

LEMMA NodeKeeps ==
    ASSUME IInv, NEW n \in Node, ChangePod(n) \/ \E c \in Classes : NodeRecords(n, c)
    PROVE  IInv'
<1>0. ApiInv /\ CheckTypeOK /\ HandlerTypeOK /\ ReconcilerTypeOK
  BY DEF IInv, ApiInv, TypeOK
<1>1. clusters' \in 0 .. MaxClusters /\ events' \in 0 .. MaxEvents
  BY BoundAssumption DEF IInv, TypeOK, ChangePod, NodeRecords, Happens
<1>2. CASE ChangePod(n)
  <2>1. CheckTypeOK'
    BY <1>0, <1>2 DEF ChangePod, checkVars, CheckTypeOK
  <2> QED
    BY <1>0, <1>1, <1>2, <2>1, RestKept DEF ChangePod, IInv, ApiInv, TypeOK
<1>3. ASSUME NEW c \in Classes, NodeRecords(n, c) PROVE IInv'
  <2>1. /\ maps' = [maps EXCEPT ![n] = c]
        /\ news' = news \/ news' = Append(news, [node |-> n, classes |-> c])
        /\ UNCHANGED <<started, reporting>>
    BY <1>3 DEF NodeRecords, RecordClasses
  <2>2. [node |-> n, classes |-> c] \in Event
    BY DEF Event
  <2>3. HandlerTypeOK'
    BY <1>0, <2>1, <2>2 DEF HandlerTypeOK
  <2>4. ReconcilerTypeOK'
    BY <1>0, <1>3 DEF NodeRecords, ReconcilerTypeOK
  <2> QED
    BY <1>0, <1>1, <1>3, <2>3, <2>4, RestKept DEF NodeRecords, IInv, ApiInv, TypeOK
<1> QED
  BY <1>2, <1>3

LEMMA InformerKeeps ==
    ASSUME IInv, Informer
    PROVE  IInv'
<1>0. ApiInv /\ CheckTypeOK /\ HandlerTypeOK /\ ReconcilerTypeOK
  BY DEF IInv, ApiInv, TypeOK
<1>1. ReconcilerTypeOK'
  BY <1>0 DEF Informer, ReconcilerTypeOK
<1> QED
  BY <1>0, <1>1, CatchUpKeeps, RestKept DEF Informer, IInv, ApiInv, TypeOK, bounds

LEMMA RestartKeeps ==
    ASSUME IInv, RestartOperator
    PROVE  IInv'
<1>0. ApiInv /\ CheckTypeOK /\ HandlerTypeOK /\ ReconcilerTypeOK
  BY DEF IInv, ApiInv, TypeOK
<1>1. ApiInv'
  <2>1. [of |-> cr, current |-> TRUE] \in Copy /\ NoCopy \in Copy /\ ~NoCopy.current
    BY <1>0 DEF ApiInv, ApiTypeOK, NoCopy, Copy
  <2> QED
    BY <1>0, <2>1 DEF RestartOperator, ApiInv, ApiTypeOK, CurrentCopies, WriterCopies
<1>2. CheckTypeOK'
  BY <1>0 DEF RestartOperator, CheckTypeOK
<1>3. HandlerTypeOK'
  <2>1. <<>> \in Seq(Event)
    OBVIOUS
  <2> QED
    BY <1>0, <2>1 DEF RestartOperator, HandlerTypeOK
<1>4. ReconcilerTypeOK'
  BY <1>0 DEF RestartOperator, ReconcilerTypeOK, Everywhere
<1>5. clusters' \in 0 .. MaxClusters /\ events' \in 0 .. MaxEvents
  BY BoundAssumption DEF IInv, TypeOK, RestartOperator, Happens
<1> QED
  BY <1>1, <1>2, <1>3, <1>4, <1>5 DEF IInv, ApiInv, TypeOK

LEMMA StepKeepsIInv == IInv /\ [Next]_vars => IInv'
<1> SUFFICES ASSUME IInv, [Next]_vars PROVE IInv'
  OBVIOUS
<1>1. CASE ReconcilerRuns
  BY <1>1, ReconcileKeeps, DeletionKeeps DEF ReconcilerRuns, ReconcilerStep
<1>2. CASE UNCHANGED vars
  BY <1>2, RestKept DEF vars, IInv, ApiInv, TypeOK, bounds
<1> QED
  BY <1>1, <1>2, CheckerKeeps, HandlerKeeps, InformerKeeps, UserKeeps, RestartKeeps, NodeKeeps DEF Next

\* The variables keep their types, and a copy that may still be written is a copy of
\* the cluster there is.
THEOREM ClusterInvariant == Spec => []IInv
<1>1. Init => IInv
  BY InitIInv
<1>2. IInv /\ [Next]_vars => IInv'
  BY StepKeepsIInv
<1> QED
  BY <1>1, <1>2, PTL DEF Spec

-----------------------------------------------------------------------------
(* What each writer changes of a cluster.                                  *)

\* A check writes phases, the handler a report, and every other write leaves the
\* states of the nodes as they are.
LEMMA StepWrites ==
    ASSUME IInv, [Next]_vars, cr # NoCluster, cr' # NoCluster, cr' # cr
    PROVE  /\ cr \in Cluster
           /\ \/ \E ps \in SUBSET Node : cr' = CheckedCluster(cr, ps)
              \/ reporting \in Event /\ cr' = Reported(cr)
              \/ cr' \in Cluster /\ cr'.nodes = cr.nodes
<1>0. ApiInv /\ CheckTypeOK /\ HandlerTypeOK /\ cr \in Cluster
  BY DEF IInv, ApiInv, TypeOK, ApiTypeOK
<1>1. ASSUME NEW k \in Checker, CheckerRuns(k)
      PROVE  \E ps \in SUBSET Node : cr' = CheckedCluster(cr, ps)
  <2>1. k \in Actor \ {"cache"} /\ listed[k] \in SUBSET Node
    BY <1>0, ClusterAssumption DEF Actor, CheckTypeOK
  <2>2. WritePhases(k) /\ copies[k].current
    BY <1>1
    DEF CheckerRuns, CheckStep, ListPods, CompareStatus, ReadCache, EndChecks, crVars, WritePhases, Update, Drop
  <2>3. cr' = CheckedCluster(copies[k].of, listed[k]) /\ copies[k].of = cr
    BY <1>0, <2>1, <2>2, WritersCopy DEF WritePhases, Update, Commit
  <2> QED
    BY <2>1, <2>3
<1>2. ASSUME HandlerRuns PROVE reporting \in Event /\ cr' = Reported(cr)
  <2>1. "handler" \in Actor \ {"cache"}
    BY DEF Actor
  <2>2. ReportClasses /\ copies["handler"].current
    BY <1>2 DEF HandlerRuns, HandlerStep, ReadCluster, ReadCache, crVars, ReportClasses, Update, Drop
  <2>3. cr' = Reported(copies["handler"].of) /\ copies["handler"].of = cr
    BY <1>0, <2>1, <2>2, WritersCopy DEF ReportClasses, Update, Commit
  <2> QED
    BY <1>0, <2>2, <2>3 DEF ReportClasses, HandlerTypeOK
<1>3. ASSUME ReconcilerRuns PROVE cr' \in Cluster /\ cr'.nodes = cr.nodes
  <2> DEFINE copy == copies["cache"]
             d == [copy.of EXCEPT !.finalizer = TRUE]
  <2>1. Reconcile
    BY <1>3
    DEF ReconcilerRuns, ReconcilerStep, RunCleanUpJobs, RemoveFinalizer, CleanMap, Commit, crVars
  <2>2. cr' = d /\ copy.of = cr
    BY <1>0, <2>1 DEF Reconcile, Commit, crVars, ApiInv, CurrentCopies, Actor
  <2> QED
    BY <1>0, <2>2 DEF Cluster
<1>4. ASSUME UserStep PROVE cr' \in Cluster /\ cr'.nodes = cr.nodes
  <2>1. cr' = [cr EXCEPT !.deleting = TRUE]
    BY <1>4 DEF UserStep, CreateCluster, EditCluster, DeleteCluster, Commit
  <2> QED
    BY <1>0, <2>1 DEF Cluster
<1>5. ASSUME \/ Informer \/ RestartOperator \/ UNCHANGED vars
             \/ \E m \in Node : ChangePod(m) \/ \E c \in Classes : NodeRecords(m, c)
      PROVE  FALSE
  BY <1>5 DEF Informer, CatchUp, RestartOperator, vars, crVars, ChangePod, NodeRecords
<1> QED
  BY <1>0, <1>1, <1>2, <1>3, <1>4, <1>5 DEF Next

-----------------------------------------------------------------------------
(* The classes a cluster shows.                                            *)

LEMMA StepKeepsReports ==
    ASSUME IInv, [Next]_vars, cr # NoCluster, cr' # NoCluster,
           NEW n \in Node, ClassesOf(cr', n) # ClassesOf(cr, n)
    PROVE  reporting = [node |-> n, classes |-> ClassesOf(cr', n)]
<1>1. cr \in Cluster /\ cr' # cr
  BY StepWrites
<1>2. ASSUME NEW ps \in SUBSET Node, cr' = CheckedCluster(cr, ps) PROVE FALSE
  BY <1>1, <1>2, CheckedKeepsClasses
<1>3. ASSUME reporting \in Event, cr' = Reported(cr)
      PROVE  reporting = [node |-> n, classes |-> ClassesOf(cr', n)]
  <2>1. n = reporting.node /\ ClassesOf(cr', n) = reporting.classes
    BY <1>1, <1>3, ReportedSetsClasses
  <2> QED
    BY <1>3, <2>1 DEF Event
<1>4. ASSUME cr' \in Cluster, cr'.nodes = cr.nodes PROVE FALSE
  BY <1>1, <1>4, SameNodesSameClasses
<1> QED
  BY <1>1, <1>2, <1>3, <1>4, StepWrites

\* The classes a cluster shows of a node change to what that node has reported and only
\* by its report (checkStatus, UpdateStatus).
THEOREM OnlyReportsChangeClasses == Spec => ReportsKept
<1>1. IInv /\ [Next]_vars =>
        [cr # NoCluster /\ cr' # NoCluster =>
           \A n \in Node : ClassesOf(cr', n) # ClassesOf(cr, n) =>
              reporting = [node |-> n, classes |-> ClassesOf(cr', n)]]_vars
  BY StepKeepsReports
<1> QED
  BY <1>1, ClusterInvariant, PTL DEF Spec, ReportsKept

-----------------------------------------------------------------------------
(* The phases a cluster shows.                                             *)

\* A check shows a node as Ready only if the copy it writes has a ready class.
LEMMA CheckedHasClass ==
    ASSUME NEW c \in Cluster, NEW ps, NEW n \in Node, ShownReady(CheckedCluster(c, ps), n)
    PROVE  HasReadyClass(CheckedCluster(c, ps), n)
<1> DEFINE d == CheckedCluster(c, ps)
           state == [phase |-> NodePhase(c, ps, n),
                     classes |-> IF c.nodes[n] = None THEN None ELSE c.nodes[n].classes]
<1>1. d.nodes[n] = state
  BY DEF CheckedCluster, Cluster
<1>2. d.nodes[n] # None /\ state.phase = "Ready"
  BY <1>1 DEF ShownReady
<1>3. HasReadyClass(c, n)
  BY <1>2 DEF NodePhase
<1> QED
  BY <1>1, <1>2, <1>3 DEF HasReadyClass

\* A report takes the phase of its node away and leaves the states of the others.
LEMMA ReportedHasClass ==
    ASSUME NEW c \in Cluster, reporting \in Event, NEW n \in Node,
           ShownReady(c, n) => HasReadyClass(c, n), ShownReady(Reported(c), n)
    PROVE  HasReadyClass(Reported(c), n)
<1> DEFINE state == [phase |-> "", classes |-> reporting.classes]
<1>1. Reported(c).nodes = [c.nodes EXCEPT ![reporting.node] = state]
  BY DEF Reported, Cluster
<1>2. n # reporting.node
  <2>1. state.phase = "" /\ c.nodes \in [Node -> NodeState \cup {None}]
    BY DEF Cluster
  <2> QED
    BY <1>1, <2>1 DEF ShownReady
<1>3. Reported(c).nodes[n] = c.nodes[n]
  BY <1>1, <1>2 DEF Cluster
<1> QED
  BY <1>3 DEF ShownReady, HasReadyClass

\* A cluster that was not there begins without nodes.
LEMMA NewClusterOnly ==
    ASSUME IInv, [Next]_vars, cr = NoCluster, cr' # NoCluster
    PROVE  cr' = NewCluster
<1>0. ApiInv
  BY DEF IInv, ApiInv, TypeOK
<1>1. ASSUME NEW k \in Checker, CheckerRuns(k) PROVE FALSE
  <2>1. k \in Actor \ {"cache"}
    BY ClusterAssumption DEF Actor
  <2>2. copies[k].current /\ cr' # cr
    BY <1>1
    DEF CheckerRuns, CheckStep, ListPods, CompareStatus, ReadCache, EndChecks, crVars, WritePhases, Update, Drop
  <2> QED
    BY <1>0, <2>1, <2>2, WritersCopy, ClusterAssumption
<1>2. ASSUME HandlerRuns PROVE FALSE
  <2>1. "handler" \in Actor \ {"cache"}
    BY DEF Actor
  <2>2. copies["handler"].current
    BY <1>2 DEF HandlerRuns, HandlerStep, ReadCluster, ReadCache, crVars, ReportClasses, Update, Drop
  <2> QED
    BY <1>0, <2>1, <2>2, WritersCopy, ClusterAssumption
<1>3. ASSUME ReconcilerRuns PROVE FALSE
  <2>1. Reconcile
    BY <1>3
    DEF ReconcilerRuns, ReconcilerStep, RunCleanUpJobs, RemoveFinalizer, CleanMap, Commit, crVars
  <2>2. copies["cache"].of # NoCluster /\ copies["cache"].current
    BY <2>1 DEF Reconcile, crVars
  <2> QED
    BY <1>0, <2>2 DEF ApiInv, CurrentCopies, Actor
<1>4. ASSUME UserStep PROVE cr' = NewCluster
  BY <1>4 DEF UserStep, CreateCluster, EditCluster, DeleteCluster, Commit
<1>5. ASSUME \/ Informer \/ RestartOperator \/ UNCHANGED vars
             \/ \E m \in Node : ChangePod(m) \/ \E c \in Classes : NodeRecords(m, c)
      PROVE  FALSE
  BY <1>5 DEF Informer, CatchUp, RestartOperator, vars, crVars, ChangePod, NodeRecords
<1> QED
  BY <1>1, <1>2, <1>3, <1>4, <1>5 DEF Next

LEMMA StepKeepsReady == ReadyNodesHaveClass /\ IInv /\ [Next]_vars => ReadyNodesHaveClass'
<1> SUFFICES ASSUME ReadyNodesHaveClass, IInv, [Next]_vars, cr' # NoCluster,
                    NEW n \in Node, ShownReady(cr', n)
             PROVE  HasReadyClass(cr', n)
  BY DEF ReadyNodesHaveClass, ShownReady, HasReadyClass
<1>1. CASE cr' = cr
  BY <1>1 DEF ReadyNodesHaveClass
<1>2. CASE cr = NoCluster
  <2>1. cr' = NewCluster
    BY NewClusterOnly, <1>2
  <2> QED
    BY <2>1 DEF NewCluster, ShownReady
<1>3. CASE cr # NoCluster /\ cr' # cr
  <2>1. cr \in Cluster /\ (ShownReady(cr, n) => HasReadyClass(cr, n))
    BY <1>3, StepWrites DEF ReadyNodesHaveClass
  <2>2. ASSUME NEW ps \in SUBSET Node, cr' = CheckedCluster(cr, ps) PROVE HasReadyClass(cr', n)
    BY <2>1, <2>2, CheckedHasClass
  <2>3. ASSUME reporting \in Event, cr' = Reported(cr) PROVE HasReadyClass(cr', n)
    BY <2>1, <2>3, ReportedHasClass
  <2>4. ASSUME cr'.nodes = cr.nodes PROVE HasReadyClass(cr', n)
    BY <2>1, <2>4 DEF ShownReady, HasReadyClass
  <2> QED
    BY <1>3, <2>2, <2>3, <2>4, StepWrites
<1> QED
  BY <1>1, <1>2, <1>3

\* A node is shown as Ready only with a ready class, whatever the checks and the
\* handler write between each other's reads (checkStatus, UpdateStatus).
THEOREM ReadyNodesAreReady == Spec => []ReadyNodesHaveClass
<1>1. Init => ReadyNodesHaveClass
  BY DEF Init, ApiInit, ReadyNodesHaveClass
<1>2. ReadyNodesHaveClass /\ IInv /\ [Next]_vars => ReadyNodesHaveClass'
  BY StepKeepsReady
<1> QED
  BY <1>1, <1>2, ClusterInvariant, PTL DEF Spec
=============================================================================
