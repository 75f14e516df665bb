-------------------------- MODULE OperatorSettings --------------------------
(***************************************************************************)
(* The controllers that deploy what the settings ConfigMap of the operator *)
(* asks for: the raw device driver, the TopoLVM driver and the discovery   *)
(* daemon.  Each starts or stops its objects one API call after the other, *)
(* while users edit the settings, deletions take their time, and the       *)
(* handler of the lvmd ConfigMaps makes node deployments of its own.       *)
(***************************************************************************)
EXTENDS Naturals, Sequences, FiniteSets

CONSTANTS
    Node,         \* nodes whose lvmd ConfigMap asks for a node deployment
    Version,      \* what the settings say of a driver besides switching it on
    Default,      \* what the code uses when the settings say nothing
    Off,          \* the setting of a driver that is switched off
    Invalid,      \* a setting that cannot be parsed
    NoSettings,   \* there is no settings ConfigMap
    Absent,       \* there is no such object
    InitialSettings,
    Together,     \* bound: sets of controllers that are looked at together
    FaultKinds,   \* which faults happen: "call", "delete", "restart"
    Patient,      \* restarts and node deployments wait for quiet moments
    MaxFaults,    \* bound: faults
    MaxEdits      \* bound: edits of the settings

Driver == {"raw", "topolvm", "discover"}
Setting(c) == IF c = "discover" THEN Version ELSE Version \cup {Off, Invalid}
Settings == {s \in [Driver -> Version \cup {Off, Invalid}] : \A c \in Driver : s[c] \in Setting(c)}

Object == [version : Version, dying : BOOLEAN]

ASSUME SettingsAssumption ==
    /\ Default \in Version
    /\ {Off, Invalid, NoSettings, Absent} \cap Version = {}
    /\ Off # Invalid
    /\ NoSettings \notin Settings
    /\ Together \subseteq SUBSET Driver
    /\ InitialSettings \subseteq Settings \cup {NoSettings}
    /\ Absent \notin Object
    /\ MaxFaults \in Nat /\ MaxEdits \in Nat /\ Patient \in BOOLEAN

VARIABLES
    settings,   \* the settings ConfigMap
    cache,      \* the operator's copy of it
    feed,       \* changes its informer has still to deliver, in order
    obj,        \* the objects of each driver; one being deleted is "dying"
    node,       \* the version each node deployment runs
    ctl,        \* the controller of each driver
    handler,    \* the handler of the lvmd ConfigMaps
    edits, faults

vars == <<settings, cache, feed, obj, node, ctl, handler, edits, faults>>

\* Mutant: the node deployments are left as they are.
StartNoNodes(c) == IF c = "raw" THEN <<"plugin", "provisioner", "csidriver">>
                   ELSE IF c = "topolvm" THEN <<"provisioner", "csidriver">>
                   ELSE <<"daemonset">>

\* The order in which startDrivers applies, and stopDrivers deletes, objects.
\* "nodes" stands for the deployments of all nodes.
StartOrder(c) == CASE c = "raw"     -> <<"plugin", "provisioner", "csidriver">>
                   [] c = "topolvm" -> <<"provisioner", "nodes", "csidriver">>
                   [] OTHER         -> <<"daemonset">>
StopOrder(c)  == IF c = "raw" THEN <<"plugin", "provisioner", "csidriver">>
                 ELSE <<"provisioner", "csidriver">>

Part(c) == CASE c = "raw"     -> {"plugin", "provisioner", "csidriver"}
             [] c = "topolvm" -> {"provisioner", "csidriver"}
             [] OTHER         -> {"daemonset"}

\* How often startDrivers is tried before the error goes to the work queue.
Tries(c) == IF c = "discover" THEN 1 ELSE 3

Resting == [queued |-> FALSE, stage |-> "idle", todo |-> <<>>, listed |-> {},
            want |-> Default, tries |-> 0, boot |-> FALSE]

Starting(c, version, boot) ==
    [queued |-> FALSE, stage |-> "start", todo |-> StartOrder(c), listed |-> {},
     want |-> version, tries |-> Tries(c), boot |-> boot]

Stopping(c) == [queued |-> FALSE, stage |-> "stop", todo |-> StopOrder(c), listed |-> {},
                want |-> Default, tries |-> 0, boot |-> FALSE]

\* What the code reads in settings that may be missing.
Of(s, c) == IF s # NoSettings THEN s[c] ELSE IF c = "discover" THEN Default ELSE Off

\* newReconciler starts the discovery daemon before any event is handled.
Boot(D) == [c \in D |-> IF c = "discover" THEN Starting(c, Of(settings, c), TRUE)
                          ELSE Resting]
Booting == \E c \in DOMAIN ctl : ctl[c].boot

\* An informer that starts lists what there is.
Listed == IF settings = NoSettings THEN <<>> ELSE <<settings>>

Idle == [node |-> Absent, version |-> Default]

Init ==
    /\ settings \in InitialSettings
    /\ cache = NoSettings /\ feed = Listed
    /\ node = [n \in Node |-> Absent]
    /\ \E D \in Together : /\ ctl = Boot(D)
                          /\ obj = [c \in D |-> [p \in Part(c) |-> Absent]]
    /\ handler = Idle
    /\ edits = 0 /\ faults = 0

-----------------------------------------------------------------------------
(* The settings and what the operator hears of them.                       *)

EditSettings ==
    /\ edits < MaxEdits
    /\ edits' = edits + 1
    /\ Patient => handler = Idle
    /\ \/ /\ settings # NoSettings
          /\ \/ \E c \in DOMAIN ctl : \E x \in Setting(c) \ {settings[c]} :
                   settings' = [settings EXCEPT ![c] = x]
             \/ settings' = NoSettings
       \/ /\ settings = NoSettings
          /\ settings' \in InitialSettings \ {NoSettings}
    /\ feed' = Append(feed, settings')
    /\ UNCHANGED <<cache, obj, node, ctl, handler, faults>>

\* Mutant: settings that appear go unnoticed.
ConcernsIfThere(c, old, new) == new # NoSettings /\ old # NoSettings /\ old[c] # new[c]

\* predicateController: a ConfigMap that appears concerns every controller, a
\* change those whose keys it changes, and one that is deleted none.
Concerns(c, old, new) ==
    /\ new # NoSettings
    /\ old # NoSettings => old[c] # new[c]

Watch ==
    /\ feed # <<>>
    /\ ~Booting
    /\ cache' = Head(feed) /\ feed' = Tail(feed)
    /\ ctl' = [c \in DOMAIN ctl |-> [ctl[c] EXCEPT !.queued = @ \/ Concerns(c, cache, cache')]]
    /\ UNCHANGED <<settings, obj, node, handler, edits, faults>>

-----------------------------------------------------------------------------
(* Reconciling.                                                            *)

At(c, stage) == ctl[c].stage = stage
Current(c) == Head(ctl[c].todo)

\* Mutant: what cannot be parsed is taken for an image.
ReconcileUnparsed(c) ==
    LET x == Of(IF c = "discover" THEN settings ELSE cache, c)
    IN  /\ At(c, "idle") /\ ctl[c].queued
        /\ ctl' = [ctl EXCEPT ![c] = IF x = Off THEN Stopping(c) ELSE Starting(c, x, FALSE)]
        /\ UNCHANGED <<settings, cache, feed, obj, node, handler, edits, faults>>

\* reconcile up to the first object: the drivers read the operator's copy,
\* the discovery daemon's controller asks the API server.  Settings that cannot
\* be parsed are an error, and the request stays in the queue.
Reconcile(c) ==
    LET x == Of(IF c = "discover" THEN settings ELSE cache, c)
    IN  /\ At(c, "idle") /\ ctl[c].queued
        /\ x # Invalid
        /\ ctl' = [ctl EXCEPT ![c] = IF x = Off THEN Stopping(c) ELSE Starting(c, x, FALSE)]
        /\ UNCHANGED <<settings, cache, feed, obj, node, handler, edits, faults>>

\* The controller goes on with the next object, or is done.
Proceed(c) ==
    LET rest == Tail(ctl[c].todo)
    IN  ctl' = [ctl EXCEPT ![c] =
            IF rest = <<>> THEN [Resting EXCEPT !.queued = ctl[c].queued]
            ELSE [ctl[c] EXCEPT !.todo = rest, !.listed = {},
                                !.stage = IF @ \in {"stop", "wait"} THEN "stop" ELSE "start"]]

\* Mutant: after the last try the error is not returned.
FailQuietly(c) ==
    ctl' = [ctl EXCEPT ![c] =
        IF ctl[c].tries > 1
        THEN [Starting(c, ctl[c].want, FALSE) EXCEPT !.tries = ctl[c].tries - 1,
                                                     !.queued = ctl[c].queued]
        ELSE [Resting EXCEPT !.queued = ctl[c].queued]]

\* startDrivers has failed: it is tried again from the beginning, or the error
\* puts the request back into the queue; newReconciler only logs it.
Fail(c) ==
    ctl' = [ctl EXCEPT ![c] =
        IF ctl[c].tries > 1
        THEN [Starting(c, ctl[c].want, FALSE) EXCEPT !.tries = ctl[c].tries - 1,
                                                     !.queued = ctl[c].queued]
        ELSE [Resting EXCEPT !.queued = ctl[c].queued \/ ~ctl[c].boot]]

\* Create of CreateOrUpdateDeployment, CreateDaemonSet and CreateCSIDriver.
\* A CSIDriver that exists is left as it is.
CreateObject(c) ==
    /\ At(c, "start") /\ Current(c) # "nodes"
    /\ LET p == Current(c)
       IN  \/ /\ obj[c][p] = Absent
              /\ obj' = [obj EXCEPT ![c][p] = [version |-> ctl[c].want, dying |-> FALSE]]
              /\ Proceed(c)
           \/ /\ obj[c][p] # Absent /\ p = "csidriver"
              /\ Proceed(c) /\ UNCHANGED obj
           \/ /\ obj[c][p] # Absent /\ p # "csidriver"
              /\ ctl' = [ctl EXCEPT ![c].stage = "update"]
              /\ UNCHANGED obj
    /\ UNCHANGED <<settings, cache, feed, node, handler, edits, faults>>

\* Update after an AlreadyExists: also an object that is being deleted is
\* updated; one that is gone by now is an error.
UpdateObject(c) ==
    /\ At(c, "update")
    /\ LET p == Current(c)
       IN  \/ /\ obj[c][p] # Absent
              /\ obj' = [obj EXCEPT ![c][p].version = ctl[c].want]
              /\ Proceed(c)
           \/ /\ obj[c][p] = Absent
              /\ Fail(c) /\ UNCHANGED obj
    /\ UNCHANGED <<settings, cache, feed, node, handler, edits, faults>>

\* updateTopolvmPlugin: list the node deployments, then rewrite each.
ListNodes(c) ==
    LET there == {n \in Node : node[n] # Absent}
    IN  /\ At(c, "start") /\ Current(c) = "nodes"
        /\ IF there = {} THEN Proceed(c)
           ELSE ctl' = [ctl EXCEPT ![c].stage = "nodes", ![c].listed = there]
        /\ UNCHANGED <<settings, cache, feed, obj, node, handler, edits, faults>>

UpdateNode(c) ==
    /\ At(c, "nodes")
    /\ \E n \in ctl[c].listed :
          /\ node' = [node EXCEPT ![n] = ctl[c].want]
          /\ IF ctl[c].listed = {n} THEN Proceed(c)
             ELSE ctl' = [ctl EXCEPT ![c].listed = @ \ {n}]
    /\ UNCHANGED <<settings, cache, feed, obj, handler, edits, faults>>

\* Delete of DeleteDeployment, DeleteDaemonset and DeleteCSIDriver.  The first
\* two delete in the foreground: the object stays until its pods are gone.
DeleteObject(c) ==
    /\ At(c, "stop")
    /\ LET p == Current(c)
       IN  \/ /\ obj[c][p] = Absent
              /\ Proceed(c) /\ UNCHANGED obj
           \/ /\ obj[c][p] # Absent /\ p = "csidriver"
              /\ obj' = [obj EXCEPT ![c][p] = Absent]
              /\ Proceed(c)
           \/ /\ obj[c][p] # Absent /\ p # "csidriver"
              /\ obj' = [obj EXCEPT ![c][p].dying = TRUE]
              /\ ctl' = [ctl EXCEPT ![c].stage = "wait"]
    /\ UNCHANGED <<settings, cache, feed, node, handler, edits, faults>>

\* The loop of deleteResourceAndWait finds the object gone.
SeeItGone(c) ==
    /\ At(c, "wait") /\ obj[c][Current(c)] = Absent
    /\ Proceed(c)
    /\ UNCHANGED <<settings, cache, feed, obj, node, handler, edits, faults>>

\* The garbage collector removes an object whose pods are gone.
Purge(c) ==
    /\ \E p \in Part(c) :
          /\ obj[c][p] # Absent /\ obj[c][p].dying
          /\ obj' = [obj EXCEPT ![c][p] = Absent]
    /\ UNCHANGED <<settings, cache, feed, node, ctl, handler, edits, faults>>

-----------------------------------------------------------------------------
(* The handler of the lvmd ConfigMaps.                                     *)

\* createTopolvmPluginNodeDeployment for a node that has none: it reads the
\* operator's copy of the settings, and writes the deployment later.
BuildNode(n) ==
    /\ handler = Idle /\ node[n] = Absent
    /\ ~Booting
    /\ Patient => feed = <<>>
    /\ handler' = [node |-> n,
                   version |-> IF Of(cache, "topolvm") \in Version THEN cache["topolvm"]
                               ELSE Default]
    /\ UNCHANGED <<settings, cache, feed, obj, node, ctl, edits, faults>>

CreateNode ==
    /\ handler # Idle
    /\ node' = [node EXCEPT ![handler.node] = handler.version]
    /\ handler' = Idle
    /\ UNCHANGED <<settings, cache, feed, obj, ctl, edits, faults>>

-----------------------------------------------------------------------------
(* Faults.                                                                 *)

Fault(kind) == kind \in FaultKinds /\ faults < MaxFaults /\ faults' = faults + 1

\* A call that starts a driver fails.
CallFails(c) ==
    /\ ctl[c].stage \in {"start", "update", "nodes"}
    /\ Fault("call")
    /\ Fail(c)
    /\ UNCHANGED <<settings, cache, feed, obj, node, handler, edits>>

\* A call that stops a driver fails, or the wait for it is given up: the error
\* is logged, stopDrivers goes on and reports nothing.
DeleteFails(c) ==
    /\ ctl[c].stage \in {"stop", "wait"}
    /\ Fault("delete")
    /\ Proceed(c)
    /\ UNCHANGED <<settings, cache, feed, obj, node, handler, edits>>

Dying == \E c \in DOMAIN ctl : \E p \in Part(c) : obj[c][p] # Absent /\ obj[c][p].dying

RestartOperator ==
    /\ Fault("restart")
    /\ Patient => ~Dying
    /\ cache' = NoSettings /\ feed' = Listed
    /\ ctl' = Boot(DOMAIN ctl)
    /\ handler' = Idle
    /\ UNCHANGED <<settings, obj, node, edits>>

-----------------------------------------------------------------------------
ControllerStep(c) == \/ Reconcile(c) \/ CreateObject(c) \/ UpdateObject(c) \/ ListNodes(c)
                     \/ UpdateNode(c) \/ DeleteObject(c) \/ SeeItGone(c)

Next ==
    \/ EditSettings \/ Watch
    \/ \E c \in DOMAIN ctl : ControllerStep(c) \/ Purge(c) \/ CallFails(c) \/ DeleteFails(c)
    \/ \E n \in Node : BuildNode(n)
    \/ CreateNode \/ RestartOperator

Spec == Init /\ [][Next]_vars

(***************************************************************************)
(* Informers deliver, work queues are worked off, pods that are deleted    *)
(* stop in the end, and a handler that has begun goes on.                  *)
(***************************************************************************)
Fairness ==
    /\ WF_vars(Watch) /\ WF_vars(CreateNode)
    /\ \A c \in Driver : /\ WF_vars(c \in DOMAIN ctl /\ ControllerStep(c))
                         /\ WF_vars(c \in DOMAIN ctl /\ Purge(c))

FairSpec == Spec /\ Fairness

-----------------------------------------------------------------------------
(* What the settings promise.                                              *)

Name == {"plugin", "provisioner", "csidriver", "nodes", "daemonset"}

Control == [queued : BOOLEAN, stage : {"idle", "start", "update", "nodes", "stop", "wait"},
            todo : Seq(Name), listed : SUBSET Node, want : Version, tries : Nat,
            boot : BOOLEAN]

\* The types of the variables: no controller deploys a setting it cannot parse.
TypeOK ==
    /\ settings \in Settings \cup {NoSettings} /\ cache \in Settings \cup {NoSettings}
    /\ feed \in Seq(Settings \cup {NoSettings})
    /\ DOMAIN ctl \subseteq Driver /\ DOMAIN obj = DOMAIN ctl
    /\ ctl = [c \in DOMAIN ctl |-> ctl[c]]
    /\ obj = [c \in DOMAIN obj |-> obj[c]]
    /\ \A c \in DOMAIN ctl : /\ ctl[c] \in Control
                             /\ obj[c] \in [Part(c) -> Object \cup {Absent}]
    /\ node \in [Node -> Version \cup {Absent}]
    /\ handler \in {Idle} \cup [node : Node, version : Version]
    /\ edits \in 0..MaxEdits /\ faults \in 0..MaxFaults

\* The objects of a driver are what its setting asks for.
AsSet(c) ==
    LET x == Of(settings, c)
    IN  /\ x \in Version =>
              \A p \in Part(c) : /\ obj[c][p] # Absent /\ ~obj[c][p].dying
                                 /\ p = "csidriver" \/ obj[c][p].version = x
        /\ x = Off => \A p \in Part(c) : obj[c][p] = Absent

\* A controller with nothing to do has done what the settings ask for: no edit
\* made while objects are applied or deleted, no failed call of startDrivers
\* and no restart is forgotten.
RestMeansApplied ==
    \A c \in DOMAIN ctl :
        (/\ feed = <<>> /\ settings # NoSettings
         /\ At(c, "idle") /\ ~ctl[c].queued) => AsSet(c)

\* Every driver becomes what the settings ask for last, unless they cannot be
\* parsed.
DriversFollow ==
    \A c \in Driver : <>[](c \in DOMAIN ctl /\ settings # NoSettings => AsSet(c))

\* Every node deployment runs the version that is set last, those the handler
\* makes while updateTopolvmPlugin rewrites the others included.
NodesFollow ==
    <>[](settings # NoSettings /\ settings["topolvm"] \in Version =>
            \A n \in Node : node[n] # Absent => node[n] = settings["topolvm"])
=============================================================================
