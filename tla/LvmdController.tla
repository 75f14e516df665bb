--------------------------- MODULE LvmdController ---------------------------
(***************************************************************************)
(* The handler of the informer of lvmd ConfigMaps, as far as it reports    *)
(* the classes of the nodes in the TopolvmCluster (lvmdconfig_controller.go *)
(* and UpdateStatus).  What else it does is in module TopolvmNode.         *)
(***************************************************************************)
EXTENDS StatusChecker

VARIABLES
    started,    \* the informer runs
    maps,       \* the status each node has recorded in its ConfigMap
    news,       \* events the handler has not taken
    reporting   \* the event at hand, while the handler has the lock

mapVars == <<started, maps, news>>
handlerVars == <<mapVars, reporting>>

Event == [node : Node, classes : Classes]

HandlerTypeOK ==
    /\ started \in BOOLEAN
    /\ maps \in [Node -> Classes \cup {None}]
    /\ news \in Seq(Event) /\ reporting \in Event \cup {None}

HandlerInit ==
    /\ started = FALSE /\ maps = [n \in Node |-> None]
    /\ news = <<>> /\ reporting = None

\* The ConfigMaps there are, in any order: the first events of an informer.
FirstNews ==
    LET now == {[node |-> n, classes |-> maps[n]] : n \in {x \in Node : maps[x] # None}}
    IN {s \in [1 .. Cardinality(now) -> now] : \A e \in now : \E i \in DOMAIN s : s[i] = e}

\* start.
StartInformer ==
    /\ started' = TRUE
    /\ IF started THEN news' = news ELSE news' \in FirstNews

\* The job or the discovery daemon of a node patches its ConfigMap.
RecordClasses(n, classes) ==
    /\ maps[n] # classes
    /\ maps' = [maps EXCEPT ![n] = classes]
    /\ news' = IF started THEN Append(news, [node |-> n, classes |-> classes]) ELSE news

\* onAdd, onUpdate, and UpdateStatus up to its write.
ReadCluster ==
    /\ started /\ reporting = None /\ news # <<>> /\ lock = None
    /\ news' = Tail(news)
    /\ IF copies["cache"].of = NoCluster THEN UNCHANGED <<crVars, lock, reporting>>
       ELSE lock' = "handler" /\ reporting' = Head(news) /\ ReadCache("handler")
    /\ UNCHANGED <<pods, checkVars, started, maps>>

\* Mutant: the phase of the node is kept.
ReportedKeepsPhase(c) ==
    [c EXCEPT !.nodes[reporting.node] = [phase |-> IF @ = None THEN "" ELSE @.phase,
                                         classes |-> reporting.classes]]

\* The state of the node is replaced as a whole, its phase included.
Reported(c) == [c EXCEPT !.nodes[reporting.node] = [phase |-> "", classes |-> reporting.classes]]

ReportClasses ==
    /\ reporting # None
    /\ Update(Reported(copies["handler"].of), "handler")
    /\ lock' = None /\ reporting' = None
    /\ UNCHANGED <<pods, checkVars, mapVars>>

HandlerStep == ReadCluster \/ ReportClasses
=============================================================================
