----------------------- MODULE OperatorSettingsProofs -----------------------
(***************************************************************************)
(* A controller of the settings that rests has done what they ask for:     *)
(* for any number of versions, edits, failed calls and restarts.           *)
(***************************************************************************)
EXTENDS OperatorSettings, TLAPS

\* Restarts wait until nothing is being deleted, and deletions that fail or
\* take too long are left out: stopDrivers tells nobody of those.
Calm == Patient = TRUE /\ "delete" \notin FaultKinds

-----------------------------------------------------------------------------
(* The inductive invariant.                                                *)

MaybeSettings == Settings \cup {NoSettings}

\* What the operator has when it has heard of the first i changes.
Heard(i) == IF i = 0 THEN cache ELSE feed[i]

\* The changes lead to the settings there are, and settings that were deleted
\* appear again before they change.
FeedLeadsToSettings ==
    /\ settings = Heard(Len(feed))
    /\ \A i \in 1..Len(feed) : Heard(i - 1) = NoSettings => feed[i] # NoSettings

\* A change is coming that will put c's request into its queue.
Pending(c) == \E i \in 1..Len(feed) : Concerns(c, Heard(i - 1), feed[i])

\* What c is to do when no request is queued.  The drivers look at the
\* operator's copy, the discovery daemon's controller at the settings.
Known(c) == IF c = "discover" THEN settings # NoSettings /\ ~Pending(c)
            ELSE cache # NoSettings
Asked(c) == IF c = "discover" THEN settings[c] ELSE cache[c]

Elements(s) == {s[i] : i \in 1..Len(s)}
Left(c) == Elements(ctl[c].todo)

Runs(c, p, x) == /\ obj[c][p] # Absent
                 /\ p = "csidriver" \/ obj[c][p].version = x

\* What a controller is in the middle of.
StageOK(c) ==
    /\ ctl[c].stage # "idle" => ctl[c].todo # <<>>
    /\ ctl[c].stage \in {"update", "wait"} => Head(ctl[c].todo) \in Part(c)
    /\ ctl[c].stage = "nodes" => Head(ctl[c].todo) = "nodes"
    /\ ctl[c].stage \in {"stop", "wait"} => Left(c) \subseteq Part(c)
    /\ Left(c) \subseteq Part(c) \cup {"nodes"}
    /\ ctl[c].boot => c = "discover" /\ cache = NoSettings

\* Only an object that is waited for is being deleted.
DeletionWaitedFor(c) ==
    \A p \in Part(c) : obj[c][p] # Absent /\ obj[c][p].dying =>
        ctl[c].stage = "wait" /\ Head(ctl[c].todo) = p

\* What is not left to do is done.
WorkDone(c) ==
    ~ctl[c].queued /\ Known(c) =>
        LET x    == Asked(c)
            done == Part(c) \ Left(c)
        IN  /\ ctl[c].stage \in {"start", "update", "nodes"} =>
                   ctl[c].want = x /\ \A p \in done : Runs(c, p, x)
            /\ ctl[c].stage \in {"stop", "wait"} =>
                   x = Off /\ \A p \in done : obj[c][p] = Absent
            /\ ctl[c].stage = "idle" =>
                   /\ x \in Version => \A p \in Part(c) : Runs(c, p, x)
                   /\ x = Off => \A p \in Part(c) : obj[c][p] = Absent

ControllerOK(c) == StageOK(c) /\ DeletionWaitedFor(c) /\ WorkDone(c)

IInv == TypeOK /\ FeedLeadsToSettings /\ \A c \in DOMAIN ctl : ControllerOK(c)

-----------------------------------------------------------------------------
(* Sequences of objects.                                                   *)

\* Every object of a driver is applied, and every one of a CSI driver deleted.
LEMMA Orders ==
    ASSUME NEW c \in Driver
    PROVE  /\ StartOrder(c) \in Seq(Name) /\ StartOrder(c) # <<>>
           /\ Part(c) \subseteq Elements(StartOrder(c))
           /\ Elements(StartOrder(c)) \subseteq Part(c) \cup {"nodes"}
           /\ c # "discover" => /\ StopOrder(c) \in Seq(Name) /\ StopOrder(c) # <<>>
                                /\ Elements(StopOrder(c)) = Part(c)
<1>1. \A a, b, d \in Name : /\ <<a, b, d>> \in Seq(Name) /\ <<a, b, d>> # <<>>
                            /\ Elements(<<a, b, d>>) = {a, b, d}
  <2> SUFFICES ASSUME NEW a \in Name, NEW b \in Name, NEW d \in Name
               PROVE  /\ <<a, b, d>> \in Seq(Name) /\ <<a, b, d>> # <<>>
                      /\ Elements(<<a, b, d>>) = {a, b, d}
    OBVIOUS
  <2> DEFINE s == <<a, b, d>>
  <2>1. s \in Seq(Name) /\ Len(s) = 3 /\ s[1] = a /\ s[2] = b /\ s[3] = d
    OBVIOUS
  <2>2. 1..3 = {1, 2, 3}
    OBVIOUS
  <2>3. Elements(s) = {a, b, d}
    BY <2>1, <2>2 DEF Elements
  <2> QED
    BY <2>1, <2>3
<1>2. \A a, b \in Name : /\ <<a, b>> \in Seq(Name) /\ <<a, b>> # <<>>
                         /\ Elements(<<a, b>>) = {a, b}
  <2> SUFFICES ASSUME NEW a \in Name, NEW b \in Name
               PROVE  /\ <<a, b>> \in Seq(Name) /\ <<a, b>> # <<>>
                      /\ Elements(<<a, b>>) = {a, b}
    OBVIOUS
  <2> DEFINE s == <<a, b>>
  <2>1. s \in Seq(Name) /\ Len(s) = 2 /\ s[1] = a /\ s[2] = b
    OBVIOUS
  <2>2. 1..2 = {1, 2}
    OBVIOUS
  <2>3. Elements(s) = {a, b}
    BY <2>1, <2>2 DEF Elements
  <2> QED
    BY <2>1, <2>3
<1>3. \A a \in Name : /\ <<a>> \in Seq(Name) /\ <<a>> # <<>>
                      /\ Elements(<<a>>) = {a}
  BY DEF Elements
<1>4. CASE c = "raw"
  BY <1>1, <1>4 DEF StartOrder, StopOrder, Part, Name
<1>5. CASE c = "topolvm"
  BY <1>1, <1>2, <1>5 DEF StartOrder, StopOrder, Part, Name
<1>6. CASE c = "discover"
  BY <1>3, <1>6 DEF StartOrder, StopOrder, Part, Name
<1> QED
  BY <1>4, <1>5, <1>6 DEF Driver

\* The tail of a sequence lacks at most its head.
LEMMA TailElements ==
    ASSUME NEW s \in Seq(Name), s # <<>>
    PROVE  /\ Tail(s) \in Seq(Name)
           /\ Elements(Tail(s)) \subseteq Elements(s)
           /\ Elements(s) \subseteq Elements(Tail(s)) \cup {Head(s)}
           /\ Head(s) \in Elements(s)
           /\ Tail(s) = <<>> => Elements(s) = {Head(s)}
<1>1. /\ Len(s) \in Nat \ {0} /\ Tail(s) \in Seq(Name) /\ Len(Tail(s)) = Len(s) - 1
      /\ \A i \in 1..Len(Tail(s)) : Tail(s)[i] = s[i + 1]
      /\ Head(s) = s[1]
  OBVIOUS
<1>2. Elements(Tail(s)) \subseteq Elements(s)
  BY <1>1 DEF Elements
<1>3. ASSUME NEW i \in 1..Len(s), i # 1 PROVE s[i] \in Elements(Tail(s))
  <2>1. i - 1 \in 1..Len(Tail(s)) /\ Tail(s)[i - 1] = s[(i - 1) + 1] /\ (i - 1) + 1 = i
    BY <1>1, <1>3
  <2> QED
    BY <2>1 DEF Elements
<1>4. Head(s) \in Elements(s)
  BY <1>1 DEF Elements
<1>5. Tail(s) = <<>> => Elements(Tail(s)) = {}
  <2>1. Len(<<>>) = 0
    OBVIOUS
  <2>2. 1..0 = {}
    OBVIOUS
  <2> QED
    BY <2>1, <2>2 DEF Elements
<1>6. Elements(s) \subseteq Elements(Tail(s)) \cup {Head(s)}
  BY <1>1, <1>3 DEF Elements
<1> QED
  BY <1>1, <1>2, <1>4, <1>5, <1>6

-----------------------------------------------------------------------------
(* Steps of one controller.                                                *)

\* What a step of controller c leaves alone.
OthersKeep == UNCHANGED <<settings, cache, feed>>

RestTyped ==
    /\ node \in [Node -> Version \cup {Absent}]
    /\ handler \in {Idle} \cup [node : Node, version : Version]
    /\ edits \in 0..MaxEdits /\ faults \in 0..MaxFaults

\* A step that changes nothing but one controller and its objects keeps the
\* invariant if it does so of that controller.
LEMMA OneController ==
    ASSUME IInv, NEW c \in DOMAIN ctl, OthersKeep, RestTyped',
           NEW d \in Control, ctl' = [ctl EXCEPT ![c] = d],
           NEW o \in [Part(c) -> Object \cup {Absent}], obj' = [obj EXCEPT ![c] = o],
           ControllerOK(c)'
    PROVE  IInv'
<1>1. /\ DOMAIN ctl' = DOMAIN ctl /\ DOMAIN obj' = DOMAIN obj
      /\ ctl'[c] = d /\ obj'[c] = o
      /\ \A e \in DOMAIN ctl \ {c} : ctl'[e] = ctl[e] /\ obj'[e] = obj[e]
  BY DEF IInv, TypeOK
<1>2. /\ ctl' = [e \in DOMAIN ctl' |-> ctl'[e]]
      /\ obj' = [e \in DOMAIN obj' |-> obj'[e]]
  OBVIOUS
<1>3. TypeOK'
  BY <1>1, <1>2 DEF IInv, TypeOK, OthersKeep, RestTyped
<1>4. FeedLeadsToSettings'
  BY DEF IInv, FeedLeadsToSettings, Heard, OthersKeep
<1>5. ASSUME NEW e \in DOMAIN ctl, e # c PROVE ControllerOK(e)'
  <2>1. ControllerOK(e) /\ ctl'[e] = ctl[e] /\ obj'[e] = obj[e]
    BY <1>1, <1>5 DEF IInv
  <2>2. Known(e)' = Known(e) /\ Asked(e)' = Asked(e)
    BY DEF OthersKeep, Known, Asked, Pending, Heard
  <2>3. StageOK(e)' /\ DeletionWaitedFor(e)'
    BY <2>1 DEF ControllerOK, StageOK, DeletionWaitedFor, Left, OthersKeep
  <2>4. WorkDone(e)'
    BY <2>1, <2>2 DEF ControllerOK, WorkDone, Runs, Left
  <2> QED
    BY <2>3, <2>4 DEF ControllerOK
<1> QED
  BY <1>1, <1>3, <1>4, <1>5 DEF IInv

\* Going on with the next object keeps the invariant if the last one is done.
LEMMA Proceeding ==
    ASSUME IInv, NEW c \in DOMAIN ctl, OthersKeep, RestTyped',
           ctl[c].stage # "idle", Proceed(c),
           NEW o \in [Part(c) -> Object \cup {Absent}], obj' = [obj EXCEPT ![c] = o],
           \A p \in Part(c) : p # Current(c) => o[p] = obj[c][p],
           \A p \in Part(c) : o[p] # Absent => ~o[p].dying,
           Current(c) \in Part(c) /\ ~ctl[c].queued /\ Known(c) =>
               /\ ctl[c].stage \in {"start", "update", "nodes"} =>
                     /\ o[Current(c)] # Absent
                     /\ Current(c) = "csidriver" \/ o[Current(c)].version = ctl[c].want
               /\ ctl[c].stage \in {"stop", "wait"} => o[Current(c)] = Absent
    PROVE  IInv'
<1> DEFINE t == ctl[c].todo
           d == IF Tail(t) = <<>> THEN [Resting EXCEPT !.queued = ctl[c].queued]
                ELSE [ctl[c] EXCEPT !.todo = Tail(t), !.listed = {},
                                    !.stage = IF @ \in {"stop", "wait"} THEN "stop" ELSE "start"]
<1>1. /\ ControllerOK(c) /\ ctl[c] \in Control /\ t # <<>> /\ t \in Seq(Name)
      /\ obj[c] \in [Part(c) -> Object \cup {Absent}] /\ c \in DOMAIN obj /\ c \in Driver
  BY DEF IInv, TypeOK, ControllerOK, StageOK, Control
<1>2. ctl' = [ctl EXCEPT ![c] = d]
  BY DEF Proceed
<1>3. /\ Tail(t) \in Seq(Name)
      /\ Elements(Tail(t)) \subseteq Elements(t)
      /\ Elements(t) \subseteq Elements(Tail(t)) \cup {Head(t)}
      /\ Tail(t) = <<>> => Elements(t) = {Head(t)}
  BY <1>1, TailElements
<1>4. d \in Control
  BY <1>1, <1>3, SettingsAssumption DEF Control, Resting
<1>5. ctl'[c] = d /\ obj'[c] = o
  BY <1>1, <1>2
<1> HIDE DEF d
<1>6. CASE Tail(t) = <<>>
  <2>1. /\ d.stage = "idle" /\ d.queued = ctl[c].queued /\ d.todo = <<>> /\ ~d.boot
    BY <1>6 DEF Resting, d
  <2>2. StageOK(c)'
    BY <2>1, <1>5 DEF StageOK, Left, Elements
  <2>3. DeletionWaitedFor(c)'
    BY <2>1, <1>5 DEF DeletionWaitedFor
  <2>4. WorkDone(c)'
    <3>1. Known(c)' = Known(c) /\ Asked(c)' = Asked(c)
      BY DEF OthersKeep, Known, Asked, Pending, Heard
    <3> SUFFICES ASSUME ~ctl[c].queued, Known(c), NEW x, x = Asked(c)
                 PROVE  /\ x \in Version => \A p \in Part(c) : Runs(c, p, x)'
                        /\ x = Off => \A p \in Part(c) : obj'[c][p] = Absent
      BY <2>1, <3>1, <1>5 DEF WorkDone, Runs
    <3>2. CASE ctl[c].stage \in {"start", "update", "nodes"}
      <4>1. ctl[c].want = x /\ \A p \in Part(c) \ {Head(t)} : Runs(c, p, x)
        BY <3>2, <1>1, <1>3, <1>6 DEF ControllerOK, WorkDone, Left
      <4>2. x \in Version /\ x # Off
        BY <4>1, <1>1, SettingsAssumption DEF Control
      <4>3. \A p \in Part(c) : Runs(c, p, x)'
        BY <4>1, <3>2, <1>5 DEF Runs, Current
      <4> QED
        BY <4>2, <4>3
    <3>3. CASE ctl[c].stage \in {"stop", "wait"}
      <4>1. x = Off /\ \A p \in Part(c) \ {Head(t)} : obj[c][p] = Absent
        BY <3>3, <1>1, <1>3, <1>6 DEF ControllerOK, WorkDone, Left
      <4>2. x \notin Version
        BY <4>1, SettingsAssumption
      <4>3. \A p \in Part(c) : obj'[c][p] = Absent
        BY <4>1, <3>3, <1>5 DEF Current
      <4> QED
        BY <4>2, <4>3
    <3> QED
      BY <3>2, <3>3, <1>1 DEF Control
  <2> QED
    BY <2>2, <2>3, <2>4, <1>2, <1>4, OneController DEF ControllerOK
<1>7. CASE Tail(t) # <<>>
  <2>1. /\ d.stage = IF ctl[c].stage \in {"stop", "wait"} THEN "stop" ELSE "start"
        /\ d.queued = ctl[c].queued /\ d.todo = Tail(t) /\ d.boot = ctl[c].boot
        /\ d.want = ctl[c].want
    BY <1>7, <1>1 DEF Control, d
  <2>2. StageOK(c)'
    <3>1. StageOK(c)
      BY <1>1 DEF ControllerOK
    <3>2. Left(c)' = Elements(Tail(t)) /\ Left(c) = Elements(t)
      BY <2>1, <1>5 DEF Left
    <3> QED
      BY <3>1, <3>2, <2>1, <1>3, <1>5, <1>7 DEF StageOK, OthersKeep
  <2>3. DeletionWaitedFor(c)'
    BY <1>5 DEF DeletionWaitedFor
  <2>4. WorkDone(c)'
    <3>1. Known(c)' = Known(c) /\ Asked(c)' = Asked(c)
      BY DEF OthersKeep, Known, Asked, Pending, Heard
    <3>2. Left(c)' = Elements(Tail(t)) /\ Left(c) = Elements(t)
      BY <2>1, <1>5 DEF Left
    <3>3. Part(c) \ Elements(Tail(t)) \subseteq (Part(c) \ Elements(t)) \cup {Head(t)}
      BY <1>3
    <3> SUFFICES ASSUME ~ctl[c].queued, Known(c), NEW x, x = Asked(c)
                 PROVE  LET done == Part(c) \ Elements(Tail(t))
                        IN  /\ d.stage = "start" =>
                                  d.want = x /\ \A p \in done : Runs(c, p, x)'
                            /\ d.stage = "stop" =>
                                  x = Off /\ \A p \in done : obj'[c][p] = Absent
      BY <2>1, <3>1, <3>2, <1>5 DEF WorkDone, Runs
    <3>4. CASE ctl[c].stage \in {"start", "update", "nodes"}
      <4>1. ctl[c].want = x /\ \A p \in Part(c) \ Elements(t) : Runs(c, p, x)
        BY <3>4, <3>2, <1>1 DEF ControllerOK, WorkDone
      <4>2. \A p \in Part(c) \ Elements(Tail(t)) : Runs(c, p, x)'
        BY <4>1, <3>4, <3>3, <1>5 DEF Runs, Current
      <4> QED
        BY <4>1, <4>2, <3>4, <2>1
    <3>5. CASE ctl[c].stage \in {"stop", "wait"}
      <4>1. x = Off /\ \A p \in Part(c) \ Elements(t) : obj[c][p] = Absent
        BY <3>5, <3>2, <1>1 DEF ControllerOK, WorkDone
      <4>2. \A p \in Part(c) \ Elements(Tail(t)) : obj'[c][p] = Absent
        BY <4>1, <3>5, <3>3, <1>5 DEF Current
      <4> QED
        BY <4>1, <4>2, <3>5, <2>1
    <3> QED
      BY <3>4, <3>5, <1>1 DEF Control
  <2> QED
    BY <2>2, <2>3, <2>4, <1>2, <1>4, OneController DEF ControllerOK
<1> QED
  BY <1>6, <1>7

\* The controllers that rest or begin to work.
LEMMA ControlsTyped ==
    /\ Resting \in Control
    /\ \A c \in Driver, x \in Version, b \in BOOLEAN :
          LET d == Starting(c, x, b)
          IN  /\ d \in Control /\ ~d.queued /\ d.stage = "start" /\ d.todo = StartOrder(c)
              /\ d.want = x /\ d.boot = b
    /\ \A c \in Driver \ {"discover"} :
          LET d == Stopping(c)
          IN  /\ d \in Control /\ ~d.queued /\ d.stage = "stop" /\ d.todo = StopOrder(c)
              /\ ~d.boot
<1>1. Resting \in Control
  BY SettingsAssumption DEF Resting, Control
<1>2. ASSUME NEW c \in Driver, NEW x \in Version, NEW b \in BOOLEAN
      PROVE  LET d == Starting(c, x, b)
             IN  /\ d \in Control /\ ~d.queued /\ d.stage = "start" /\ d.todo = StartOrder(c)
                 /\ d.want = x /\ d.boot = b
  <2>1. Tries(c) \in Nat
    BY DEF Tries
  <2>2. StartOrder(c) \in Seq(Name)
    BY Orders
  <2> QED
    BY <2>1, <2>2 DEF Starting, Control
<1>3. ASSUME NEW c \in Driver, c # "discover"
      PROVE  LET d == Stopping(c)
             IN  /\ d \in Control /\ ~d.queued /\ d.stage = "stop" /\ d.todo = StopOrder(c)
                 /\ ~d.boot
  <2>1. StopOrder(c) \in Seq(Name)
    BY <1>3, Orders
  <2> QED
    BY <2>1, SettingsAssumption DEF Stopping, Control
<1> QED
  BY <1>1, <1>2, <1>3

\* A controller that begins to start its objects has everything left to do.
LEMMA StartsAfresh ==
    ASSUME IInv, NEW c \in DOMAIN ctl, OthersKeep, RestTyped', UNCHANGED obj,
           NEW d \in Control, ctl' = [ctl EXCEPT ![c] = d],
           d.stage = "start", d.todo = StartOrder(c), d.boot = FALSE,
           ~d.queued /\ Known(c) => d.want = Asked(c),
           \A p \in Part(c) : obj[c][p] # Absent => ~obj[c][p].dying
    PROVE  IInv'
<1>1. /\ c \in Driver /\ c \in DOMAIN obj /\ obj[c] \in [Part(c) -> Object \cup {Absent}]
      /\ obj' = [obj EXCEPT ![c] = obj[c]] /\ ctl'[c] = d /\ obj'[c] = obj[c]
  BY DEF IInv, TypeOK
<1>2. /\ StartOrder(c) \in Seq(Name) /\ StartOrder(c) # <<>>
      /\ Part(c) \subseteq Elements(StartOrder(c))
      /\ Elements(StartOrder(c)) \subseteq Part(c) \cup {"nodes"}
  BY <1>1, Orders
<1>3. Left(c)' = Elements(StartOrder(c))
  BY <1>1 DEF Left
<1>4. StageOK(c)'
  BY <1>1, <1>2, <1>3 DEF StageOK
<1>5. DeletionWaitedFor(c)'
  BY <1>1 DEF DeletionWaitedFor
<1>6. WorkDone(c)'
  <2>1. Known(c)' = Known(c) /\ Asked(c)' = Asked(c)
    BY DEF OthersKeep, Known, Asked, Pending, Heard
  <2> QED
    BY <1>1, <1>2, <1>3, <2>1 DEF WorkDone
<1> QED
  BY <1>1, <1>4, <1>5, <1>6, OneController DEF ControllerOK

\* In a controller that does not wait for a deletion nothing is being deleted.
LEMMA NothingDying ==
    ASSUME IInv, NEW c \in DOMAIN ctl, ctl[c].stage # "wait"
    PROVE  \A p \in Part(c) : obj[c][p] # Absent => ~obj[c][p].dying
  BY DEF IInv, ControllerOK, DeletionWaitedFor

\* The operator that boots has changes to hear of before it knows what to do.
LEMMA BootKnowsNothing ==
    ASSUME IInv, NEW c \in DOMAIN ctl, ctl[c].boot
    PROVE  ~Known(c)
<1>1. c = "discover" /\ cache = NoSettings /\ FeedLeadsToSettings
  BY DEF IInv, ControllerOK, StageOK
<1>2. SUFFICES ASSUME settings # NoSettings PROVE Pending(c)
  BY <1>1 DEF Known
<1>3. Len(feed) \in Nat /\ Len(feed) # 0
  BY <1>1, <1>2 DEF FeedLeadsToSettings, Heard, IInv, TypeOK
<1>4. 1 \in 1..Len(feed) /\ Heard(1 - 1) = NoSettings
  BY <1>1, <1>3 DEF Heard
<1>5. feed[1] # NoSettings
  BY <1>1, <1>4 DEF FeedLeadsToSettings
<1> QED
  BY <1>4, <1>5 DEF Pending, Concerns

\* A failed try keeps the invariant.
LEMMA Failing ==
    ASSUME IInv, NEW c \in DOMAIN ctl, OthersKeep, RestTyped', UNCHANGED obj,
           ctl[c].stage \in {"start", "update", "nodes"}, Fail(c)
    PROVE  IInv'
<1>1. /\ ControllerOK(c) /\ ctl[c] \in Control /\ c \in Driver /\ c \in DOMAIN obj
      /\ obj[c] \in [Part(c) -> Object \cup {Absent}]
  BY DEF IInv, TypeOK
<1>2. \A p \in Part(c) : obj[c][p] # Absent => ~obj[c][p].dying
  BY NothingDying
<1>3. CASE ctl[c].tries > 1
  <2> DEFINE d == [Starting(c, ctl[c].want, FALSE) EXCEPT !.tries = ctl[c].tries - 1,
                                                          !.queued = ctl[c].queued]
  <2>1. ctl' = [ctl EXCEPT ![c] = d]
    BY <1>3 DEF Fail
  <2>2. /\ ctl[c].want \in Version /\ ctl[c].queued \in BOOLEAN
        /\ ctl[c].tries - 1 \in Nat
    BY <1>1, <1>3 DEF Control
  <2>3. /\ d \in Control /\ d.stage = "start" /\ d.todo = StartOrder(c) /\ d.boot = FALSE
        /\ d.queued = ctl[c].queued /\ d.want = ctl[c].want
    <3> DEFINE s == Starting(c, ctl[c].want, FALSE)
    <3>1. /\ s \in Control /\ s.stage = "start" /\ s.todo = StartOrder(c)
          /\ s.want = ctl[c].want /\ s.boot = FALSE
      BY <1>1, <2>2, ControlsTyped
    <3> HIDE DEF s
    <3>2. d = [s EXCEPT !.tries = ctl[c].tries - 1, !.queued = ctl[c].queued]
      BY DEF s
    <3> QED
      BY <2>2, <3>1, <3>2 DEF Control
  <2>4. ~ctl[c].queued /\ Known(c) => ctl[c].want = Asked(c)
    BY <1>1 DEF ControllerOK, WorkDone
  <2> HIDE DEF d
  <2> QED
    BY <1>2, <2>1, <2>3, <2>4, StartsAfresh
<1>4. CASE ~(ctl[c].tries > 1)
  <2> DEFINE d == [Resting EXCEPT !.queued = ctl[c].queued \/ ~ctl[c].boot]
  <2>1. ctl' = [ctl EXCEPT ![c] = d]
    BY <1>4 DEF Fail
  <2>2. /\ d \in Control /\ d.stage = "idle" /\ d.todo = <<>> /\ d.boot = FALSE
        /\ d.queued = (ctl[c].queued \/ ~ctl[c].boot)
    <3>1. ctl[c].queued \in BOOLEAN /\ ctl[c].boot \in BOOLEAN
      BY <1>1 DEF Control
    <3>2. (ctl[c].queued \/ ~ctl[c].boot) \in BOOLEAN
      BY <3>1
    <3> QED
      BY <3>2, ControlsTyped DEF Resting, Control
  <2> HIDE DEF d
  <2>3. ctl'[c] = d /\ obj'[c] = obj[c] /\ obj' = [obj EXCEPT ![c] = obj[c]]
    BY <1>1, <2>1 DEF IInv, TypeOK
  <2>4. StageOK(c)'
    <3>1. Left(c)' = {}
      BY <2>2, <2>3 DEF Left, Elements
    <3> QED
      BY <3>1, <2>2, <2>3 DEF StageOK
  <2>5. DeletionWaitedFor(c)'
    BY <1>2, <2>3 DEF DeletionWaitedFor
  <2>6. WorkDone(c)'
    <3>1. ctl'[c].queued \/ ~Known(c)
      BY <2>2, <2>3, BootKnowsNothing
    <3>2. Known(c)' = Known(c)
      BY DEF OthersKeep, Known, Pending, Heard
    <3> QED
      BY <3>1, <3>2 DEF WorkDone
  <2> QED
    BY <1>1, <2>1, <2>2, <2>3, <2>4, <2>5, <2>6, OneController DEF ControllerOK
<1> QED
  BY <1>3, <1>4

-----------------------------------------------------------------------------
(* The steps of the next-state relation.                                   *)

LEMMA ReconcileKeeps ==
    ASSUME IInv, NEW c \in DOMAIN ctl, Reconcile(c)
    PROVE  IInv'
<1> DEFINE x == Of(IF c = "discover" THEN settings ELSE cache, c)
<1>1. /\ c \in Driver /\ OthersKeep /\ UNCHANGED obj /\ RestTyped' /\ TypeOK
      /\ c \in DOMAIN obj /\ obj[c] \in [Part(c) -> Object \cup {Absent}]
      /\ obj' = [obj EXCEPT ![c] = obj[c]]
  BY DEF IInv, TypeOK, Reconcile, OthersKeep, RestTyped
<1>2. \A p \in Part(c) : obj[c][p] # Absent => ~obj[c][p].dying
  BY NothingDying DEF Reconcile, At
<1>3. Known(c) => x = Asked(c)
  BY DEF Known, Asked, Of
<1>4. x \in Setting(c)
  BY <1>1, SettingsAssumption DEF TypeOK, Of, Settings, Setting, Driver
<1>5. CASE x = Off
  <2>1. c # "discover"
    BY <1>4, <1>5, SettingsAssumption DEF Setting
  <2> DEFINE d == Stopping(c)
  <2>2. ctl' = [ctl EXCEPT ![c] = d]
    BY <1>5 DEF Reconcile
  <2>3. /\ d \in Control /\ ~d.queued /\ d.stage = "stop" /\ d.todo = StopOrder(c) /\ ~d.boot
    BY <1>1, <2>1, ControlsTyped
  <2> HIDE DEF d
  <2>4. ctl'[c] = d /\ obj'[c] = obj[c]
    BY <1>1, <2>2
  <2>5. /\ StopOrder(c) # <<>> /\ Elements(StopOrder(c)) = Part(c)
    BY <1>1, <2>1, Orders
  <2>6. Left(c)' = Part(c)
    BY <2>3, <2>4, <2>5 DEF Left
  <2>7. StageOK(c)'
    BY <2>3, <2>4, <2>5, <2>6 DEF StageOK
  <2>8. DeletionWaitedFor(c)'
    BY <1>2, <2>4 DEF DeletionWaitedFor
  <2>9. WorkDone(c)'
    <3>1. Known(c)' = Known(c) /\ Asked(c)' = Asked(c)
      BY <1>1 DEF OthersKeep, Known, Asked, Pending, Heard
    <3> QED
      BY <1>3, <1>5, <2>3, <2>4, <2>6, <3>1 DEF WorkDone
  <2> QED
    BY <1>1, <2>2, <2>3, <2>7, <2>8, <2>9, OneController DEF ControllerOK
<1>6. CASE x # Off
  <2> DEFINE d == Starting(c, x, FALSE)
  <2>1. ctl' = [ctl EXCEPT ![c] = d]
    BY <1>6 DEF Reconcile
  <2>2. x \in Version
    BY <1>4, <1>6 DEF Reconcile, Setting
  <2>3. /\ d \in Control /\ d.stage = "start" /\ d.todo = StartOrder(c)
        /\ d.want = x /\ d.boot = FALSE
    BY <1>1, <2>2, ControlsTyped
  <2> HIDE DEF d
  <2> QED
    BY <1>1, <1>2, <1>3, <2>1, <2>3, StartsAfresh
<1> QED
  BY <1>5, <1>6

LEMMA CreateObjectKeeps ==
    ASSUME IInv, NEW c \in DOMAIN ctl, CreateObject(c)
    PROVE  IInv'
<1> DEFINE p == Current(c)
<1>1. /\ c \in Driver /\ OthersKeep /\ RestTyped' /\ ctl[c] \in Control /\ p # "nodes"
      /\ c \in DOMAIN obj /\ obj[c] \in [Part(c) -> Object \cup {Absent}]
      /\ ctl[c].stage = "start" /\ StageOK(c) /\ obj = [obj EXCEPT ![c] = obj[c]]
  BY DEF IInv, TypeOK, CreateObject, OthersKeep, RestTyped, ControllerOK, At
<1>2. \A q \in Part(c) : obj[c][q] # Absent => ~obj[c][q].dying
  BY <1>1, NothingDying
<1>3. p \in Part(c)
  <2>1. ctl[c].todo \in Seq(Name) /\ ctl[c].todo # <<>>
    BY <1>1 DEF Control, StageOK
  <2> QED
    BY <1>1, <2>1, TailElements DEF StageOK, Left, Current
<1>4. CASE /\ obj[c][p] = Absent /\ Proceed(c)
           /\ obj' = [obj EXCEPT ![c][p] = [version |-> ctl[c].want, dying |-> FALSE]]
  <2> DEFINE new == [version |-> ctl[c].want, dying |-> FALSE]
             o == [obj[c] EXCEPT ![p] = new]
  <2>1. new \in Object /\ new # Absent /\ new.version = ctl[c].want /\ ~new.dying
    <3>1. new \in Object
      BY <1>1 DEF Object, Control
    <3> QED
      BY <3>1, SettingsAssumption
  <2>2. obj' = [obj EXCEPT ![c] = o]
    BY <1>1, <1>4
  <2> HIDE DEF new
  <2>3. /\ o \in [Part(c) -> Object \cup {Absent}] /\ o[p] = new
        /\ \A q \in Part(c) : q # p => o[q] = obj[c][q]
    BY <1>1, <1>3, <2>1
  <2> HIDE DEF o
  <2>4. \A q \in Part(c) : o[q] # Absent => ~o[q].dying
    BY <1>2, <2>1, <2>3
  <2>5. ctl[c].stage # "idle" /\ ctl[c].stage \notin {"stop", "wait"}
    BY <1>1
  <2>6. o[p] # Absent /\ o[p].version = ctl[c].want
    BY <2>1, <2>3
  <2> QED
    BY <1>1, <1>4, <2>2, <2>3, <2>4, <2>5, <2>6, Proceeding
<1>5. CASE obj[c][p] # Absent /\ p = "csidriver" /\ Proceed(c) /\ UNCHANGED obj
  BY <1>1, <1>2, <1>5, Proceeding
<1>6. CASE /\ obj[c][p] # Absent /\ p # "csidriver" /\ UNCHANGED obj
           /\ ctl' = [ctl EXCEPT ![c].stage = "update"]
  <2> DEFINE d == [ctl[c] EXCEPT !.stage = "update"]
  <2>1. ctl' = [ctl EXCEPT ![c] = d] /\ d \in Control /\ ctl'[c] = d /\ obj'[c] = obj[c]
    BY <1>1, <1>6 DEF Control
  <2>2. /\ d.stage = "update" /\ d.todo = ctl[c].todo /\ d.boot = ctl[c].boot
        /\ d.want = ctl[c].want /\ d.queued = ctl[c].queued
    BY <1>1 DEF Control
  <2> HIDE DEF d
  <2>3. StageOK(c)'
    BY <1>1, <1>3, <2>1, <2>2 DEF StageOK, Left, OthersKeep, Current
  <2>4. DeletionWaitedFor(c)'
    BY <1>2, <2>1 DEF DeletionWaitedFor
  <2>5. WorkDone(c)'
    <3>1. Known(c)' = Known(c) /\ Asked(c)' = Asked(c)
      BY <1>1 DEF OthersKeep, Known, Asked, Pending, Heard
    <3>2. WorkDone(c)
      BY DEF IInv, ControllerOK
    <3> QED
      BY <1>1, <2>1, <2>2, <3>1, <3>2 DEF WorkDone, Runs, Left
  <2> QED
    BY <1>1, <1>6, <2>1, <2>3, <2>4, <2>5, OneController DEF ControllerOK
<1> QED
  BY <1>4, <1>5, <1>6 DEF CreateObject

LEMMA UpdateObjectKeeps ==
    ASSUME IInv, NEW c \in DOMAIN ctl, UpdateObject(c)
    PROVE  IInv'
<1> DEFINE p == Current(c)
<1>1. /\ c \in Driver /\ OthersKeep /\ RestTyped' /\ ctl[c] \in Control
      /\ c \in DOMAIN obj /\ obj[c] \in [Part(c) -> Object \cup {Absent}]
      /\ ctl[c].stage = "update" /\ p \in Part(c)
  BY DEF IInv, TypeOK, UpdateObject, OthersKeep, RestTyped, ControllerOK, StageOK, At, Current
<1>2. \A q \in Part(c) : obj[c][q] # Absent => ~obj[c][q].dying
  BY <1>1, NothingDying
<1>3. CASE /\ obj[c][p] # Absent /\ Proceed(c)
           /\ obj' = [obj EXCEPT ![c][p].version = ctl[c].want]
  <2> DEFINE new == [obj[c][p] EXCEPT !.version = ctl[c].want]
             o == [obj[c] EXCEPT ![p] = new]
  <2>1. obj[c][p] \in Object
    BY <1>1, <1>3
  <2>2. new \in Object /\ new # Absent /\ new.version = ctl[c].want /\ ~new.dying
    BY <1>1, <1>2, <1>3, <2>1, SettingsAssumption DEF Object, Control
  <2>3. obj' = [obj EXCEPT ![c] = o]
    BY <1>1, <1>3
  <2> HIDE DEF new
  <2>4. /\ o \in [Part(c) -> Object \cup {Absent}] /\ o[p] = new
        /\ \A q \in Part(c) : q # p => o[q] = obj[c][q]
    BY <1>1, <2>2
  <2> HIDE DEF o
  <2>5. \A q \in Part(c) : o[q] # Absent => ~o[q].dying
    BY <1>2, <2>2, <2>4
  <2>6. ctl[c].stage # "idle" /\ ctl[c].stage \notin {"stop", "wait"}
    BY <1>1
  <2>7. o[p] # Absent /\ o[p].version = ctl[c].want
    BY <2>2, <2>4
  <2> QED
    BY <1>1, <1>3, <2>3, <2>4, <2>5, <2>6, <2>7, Proceeding
<1>4. CASE obj[c][p] = Absent /\ Fail(c) /\ UNCHANGED obj
  BY <1>1, <1>4, Failing
<1> QED
  BY <1>3, <1>4 DEF UpdateObject

LEMMA NodesKeep ==
    ASSUME IInv, NEW c \in DOMAIN ctl, ListNodes(c) \/ UpdateNode(c)
    PROVE  IInv'
<1>1. /\ c \in Driver /\ OthersKeep /\ UNCHANGED obj /\ ctl[c] \in Control
      /\ c \in DOMAIN obj /\ obj[c] \in [Part(c) -> Object \cup {Absent}]
      /\ obj' = [obj EXCEPT ![c] = obj[c]] /\ obj'[c] = obj[c]
      /\ ctl[c].stage \in {"start", "nodes"} /\ Current(c) = "nodes" /\ StageOK(c)
  BY DEF IInv, TypeOK, ListNodes, UpdateNode, OthersKeep, ControllerOK, StageOK, At, Current
<1>2. RestTyped'
  BY <1>1 DEF IInv, TypeOK, ListNodes, UpdateNode, RestTyped, Control
<1>3. \A q \in Part(c) : obj[c][q] # Absent => ~obj[c][q].dying
  BY <1>1, NothingDying
<1>4. "nodes" \notin Part(c)
  BY DEF Part
<1>5. CASE Proceed(c)
  BY <1>1, <1>2, <1>3, <1>4, <1>5, Proceeding
<1>6. ASSUME NEW d \in Control, ctl' = [ctl EXCEPT ![c] = d],
             d.stage = "nodes", d.todo = ctl[c].todo, d.boot = ctl[c].boot,
             d.want = ctl[c].want, d.queued = ctl[c].queued
      PROVE  IInv'
  <2>1. ctl'[c] = d
    BY <1>6
  <2>2. StageOK(c)'
    BY <1>1, <1>6, <2>1 DEF StageOK, Left, OthersKeep, Current
  <2>3. DeletionWaitedFor(c)'
    BY <1>1, <1>3 DEF DeletionWaitedFor
  <2>4. WorkDone(c)'
    <3>1. Known(c)' = Known(c) /\ Asked(c)' = Asked(c)
      BY <1>1 DEF OthersKeep, Known, Asked, Pending, Heard
    <3>2. WorkDone(c)
      BY DEF IInv, ControllerOK
    <3> QED
      BY <1>1, <1>6, <2>1, <3>1, <3>2 DEF WorkDone, Runs, Left
  <2> QED
    BY <1>1, <1>2, <1>6, <2>2, <2>3, <2>4, OneController DEF ControllerOK
<1>7. CASE ListNodes(c) /\ ~Proceed(c)
  <2> DEFINE there == {n \in Node : node[n] # Absent}
             d == [ctl[c] EXCEPT !.stage = "nodes", !.listed = there]
  <2>1. ctl' = [ctl EXCEPT ![c] = d]
    BY <1>7, <1>1 DEF ListNodes, IInv, TypeOK
  <2>2. /\ d \in Control /\ d.stage = "nodes" /\ d.todo = ctl[c].todo
        /\ d.boot = ctl[c].boot /\ d.want = ctl[c].want /\ d.queued = ctl[c].queued
    BY <1>1 DEF Control
  <2> HIDE DEF d
  <2> QED
    BY <1>6, <2>1, <2>2
<1>8. CASE UpdateNode(c) /\ ~Proceed(c)
  <2>1. PICK n \in ctl[c].listed : ctl' = [ctl EXCEPT ![c].listed = @ \ {n}]
    BY <1>8 DEF UpdateNode
  <2> DEFINE d == [ctl[c] EXCEPT !.listed = @ \ {n}]
  <2>2. ctl' = [ctl EXCEPT ![c] = d]
    BY <2>1
  <2>3. /\ d \in Control /\ d.stage = "nodes" /\ d.todo = ctl[c].todo
        /\ d.boot = ctl[c].boot /\ d.want = ctl[c].want /\ d.queued = ctl[c].queued
    BY <1>1, <1>8 DEF Control, UpdateNode, At
  <2> HIDE DEF d
  <2> QED
    BY <1>6, <2>2, <2>3
<1> QED
  BY <1>5, <1>7, <1>8

LEMMA DeleteObjectKeeps ==
    ASSUME IInv, NEW c \in DOMAIN ctl, DeleteObject(c)
    PROVE  IInv'
<1> DEFINE p == Current(c)
<1>1. /\ c \in Driver /\ OthersKeep /\ RestTyped' /\ ctl[c] \in Control
      /\ c \in DOMAIN obj /\ obj[c] \in [Part(c) -> Object \cup {Absent}]
      /\ ctl[c].stage = "stop" /\ StageOK(c) /\ obj = [obj EXCEPT ![c] = obj[c]]
  BY DEF IInv, TypeOK, DeleteObject, OthersKeep, RestTyped, ControllerOK, At
<1>2. \A q \in Part(c) : obj[c][q] # Absent => ~obj[c][q].dying
  BY <1>1, NothingDying
<1>3. p \in Part(c)
  <2>1. ctl[c].todo \in Seq(Name) /\ ctl[c].todo # <<>>
    BY <1>1 DEF Control, StageOK
  <2> QED
    BY <1>1, <2>1, TailElements DEF StageOK, Left, Current
<1>4. CASE obj[c][p] = Absent /\ Proceed(c) /\ UNCHANGED obj
  BY <1>1, <1>2, <1>4, Proceeding
<1>5. CASE Proceed(c) /\ obj' = [obj EXCEPT ![c][p] = Absent]
  <2> DEFINE o == [obj[c] EXCEPT ![p] = Absent]
  <2>1. obj' = [obj EXCEPT ![c] = o]
    BY <1>1, <1>5
  <2>2. /\ o \in [Part(c) -> Object \cup {Absent}] /\ o[p] = Absent
        /\ \A q \in Part(c) : q # p => o[q] = obj[c][q]
    BY <1>1, <1>3
  <2> HIDE DEF o
  <2>3. \A q \in Part(c) : o[q] # Absent => ~o[q].dying
    BY <1>2, <2>2
  <2> QED
    BY <1>1, <1>5, <2>1, <2>2, <2>3, Proceeding
<1>6. CASE /\ obj[c][p] # Absent /\ obj' = [obj EXCEPT ![c][p].dying = TRUE]
           /\ ctl' = [ctl EXCEPT ![c].stage = "wait"]
  <2> DEFINE d == [ctl[c] EXCEPT !.stage = "wait"]
             new == [obj[c][p] EXCEPT !.dying = TRUE]
             o == [obj[c] EXCEPT ![p] = new]
  <2>1. ctl' = [ctl EXCEPT ![c] = d] /\ d \in Control /\ ctl'[c] = d
    BY <1>1, <1>6 DEF Control
  <2>2. /\ d.stage = "wait" /\ d.todo = ctl[c].todo /\ d.boot = ctl[c].boot
        /\ d.want = ctl[c].want /\ d.queued = ctl[c].queued
    BY <1>1 DEF Control
  <2>3. new \in Object
    <3>1. obj[c][p] \in Object
      BY <1>1, <1>3, <1>6
    <3> QED
      BY <3>1 DEF Object
  <2>4. obj' = [obj EXCEPT ![c] = o] /\ obj'[c] = o
    BY <1>1, <1>6
  <2> HIDE DEF d, new
  <2>5. /\ o \in [Part(c) -> Object \cup {Absent}]
        /\ \A q \in Part(c) : q # p => o[q] = obj[c][q]
    BY <1>1, <1>3, <2>3
  <2> HIDE DEF o
  <2>6. StageOK(c)'
    BY <1>1, <1>3, <2>1, <2>2 DEF StageOK, Left, OthersKeep, Current
  <2>7. DeletionWaitedFor(c)'
    <3>1. ctl'[c].stage = "wait" /\ Head(ctl'[c].todo) = p
      BY <2>1, <2>2 DEF Current
    <3> QED
      BY <1>2, <2>4, <2>5, <3>1 DEF DeletionWaitedFor
  <2>8. WorkDone(c)'
    <3>1. Known(c)' = Known(c) /\ Asked(c)' = Asked(c)
      BY <1>1 DEF OthersKeep, Known, Asked, Pending, Heard
    <3>2. WorkDone(c)
      BY DEF IInv, ControllerOK
    <3>3. p \in Left(c)
      BY <1>1, TailElements DEF Left, Current, Control, StageOK
    <3>4. Left(c)' = Left(c)
      BY <2>1, <2>2 DEF Left
    <3> QED
      BY <1>1, <2>1, <2>2, <2>4, <2>5, <3>1, <3>2, <3>3, <3>4 DEF WorkDone
  <2> QED
    BY <1>1, <2>1, <2>4, <2>5, <2>6, <2>7, <2>8, OneController DEF ControllerOK
<1> QED
  BY <1>4, <1>5, <1>6 DEF DeleteObject

LEMMA SeeItGoneKeeps ==
    ASSUME IInv, NEW c \in DOMAIN ctl, SeeItGone(c)
    PROVE  IInv'
<1>1. /\ c \in Driver /\ OthersKeep /\ RestTyped' /\ UNCHANGED obj /\ Proceed(c)
      /\ c \in DOMAIN obj /\ obj[c] \in [Part(c) -> Object \cup {Absent}]
      /\ ctl[c].stage = "wait" /\ obj[c][Current(c)] = Absent
      /\ obj' = [obj EXCEPT ![c] = obj[c]]
  BY DEF IInv, TypeOK, SeeItGone, OthersKeep, RestTyped, At
<1>2. \A q \in Part(c) : obj[c][q] # Absent => ~obj[c][q].dying
  BY <1>1 DEF IInv, ControllerOK, DeletionWaitedFor, Current
<1> QED
  BY <1>1, <1>2, Proceeding

LEMMA PurgeKeeps ==
    ASSUME IInv, NEW c \in DOMAIN ctl, Purge(c)
    PROVE  IInv'
<1>1. /\ c \in Driver /\ OthersKeep /\ RestTyped' /\ UNCHANGED ctl /\ ctl[c] \in Control
      /\ c \in DOMAIN obj /\ obj[c] \in [Part(c) -> Object \cup {Absent}] /\ ControllerOK(c)
      /\ ctl' = [ctl EXCEPT ![c] = ctl[c]]
  BY DEF IInv, TypeOK, Purge, OthersKeep, RestTyped
<1>2. PICK p \in Part(c) : /\ obj[c][p] # Absent /\ obj[c][p].dying
                           /\ obj' = [obj EXCEPT ![c][p] = Absent]
  BY DEF Purge
<1>3. ctl[c].stage = "wait" /\ Head(ctl[c].todo) = p
  BY <1>1, <1>2 DEF ControllerOK, DeletionWaitedFor
<1> DEFINE o == [obj[c] EXCEPT ![p] = Absent]
<1>4. obj' = [obj EXCEPT ![c] = o] /\ obj'[c] = o
  BY <1>1, <1>2
<1>5. /\ o \in [Part(c) -> Object \cup {Absent}] /\ o[p] = Absent
      /\ \A q \in Part(c) : q # p => o[q] = obj[c][q]
  BY <1>1
<1> HIDE DEF o
<1>6. StageOK(c)'
  BY <1>1 DEF ControllerOK, StageOK, Left, OthersKeep
<1>7. DeletionWaitedFor(c)'
  BY <1>1, <1>4, <1>5 DEF ControllerOK, DeletionWaitedFor
<1>8. WorkDone(c)'
  <2>1. Known(c)' = Known(c) /\ Asked(c)' = Asked(c)
    BY <1>1 DEF OthersKeep, Known, Asked, Pending, Heard
  <2> QED
    BY <1>1, <1>3, <1>4, <1>5, <2>1 DEF ControllerOK, WorkDone, Left
<1> QED
  BY <1>1, <1>4, <1>5, <1>6, <1>7, <1>8, OneController DEF ControllerOK

LEMMA CallFailsKeeps ==
    ASSUME IInv, NEW c \in DOMAIN ctl, CallFails(c)
    PROVE  IInv'
<1>1. OthersKeep /\ RestTyped' /\ UNCHANGED obj
  BY SettingsAssumption DEF IInv, TypeOK, CallFails, Fault, OthersKeep, RestTyped
<1> QED
  BY <1>1, Failing DEF CallFails

\* Calm: no deletion is given up.
LEMMA NoDeleteFails ==
    ASSUME Calm, NEW c \in DOMAIN ctl, DeleteFails(c)
    PROVE  FALSE
  BY DEF Calm, DeleteFails, Fault

\* The handler of the lvmd ConfigMaps touches no driver.
LEMMA HandlerKeeps ==
    ASSUME IInv, (\E n \in Node : BuildNode(n)) \/ CreateNode
    PROVE  IInv'
<1>1. UNCHANGED <<settings, cache, feed, obj, ctl>>
  BY DEF BuildNode, CreateNode
<1>2. RestTyped'
  BY SettingsAssumption DEF IInv, TypeOK, RestTyped, BuildNode, CreateNode, Of, Settings
<1>3. TypeOK'
  BY <1>1, <1>2 DEF IInv, TypeOK, RestTyped
<1>4. FeedLeadsToSettings'
  BY <1>1 DEF IInv, FeedLeadsToSettings, Heard
<1>5. ASSUME NEW c \in DOMAIN ctl PROVE ControllerOK(c)'
  <2>1. ControllerOK(c)
    BY DEF IInv
  <2>2. Known(c)' = Known(c) /\ Asked(c)' = Asked(c)
    BY <1>1 DEF Known, Asked, Pending, Heard
  <2> QED
    BY <1>1, <2>1, <2>2
       DEF ControllerOK, StageOK, DeletionWaitedFor, WorkDone, Runs, Left
<1> QED
  BY <1>1, <1>3, <1>4, <1>5 DEF IInv

\* A controller whose request is not queued by an edit knew what it is asked for.
LEMMA EditKeeps ==
    ASSUME IInv, EditSettings
    PROVE  IInv'
<1>1. /\ UNCHANGED <<cache, obj, ctl>> /\ TypeOK /\ FeedLeadsToSettings
      /\ feed' = Append(feed, settings')
  BY DEF IInv, EditSettings
<1>2. settings' \in MaybeSettings /\ (settings = NoSettings => settings' # NoSettings)
  <2>1. ASSUME NEW c \in DOMAIN ctl, NEW x \in Setting(c), settings # NoSettings,
               settings' = [settings EXCEPT ![c] = x]
        PROVE  settings' \in Settings
    <3>1. settings \in Settings /\ c \in Driver
      BY <1>1, <2>1 DEF TypeOK
    <3> QED
      BY <3>1, <2>1 DEF Settings, Setting
  <2>2. CASE settings # NoSettings
    BY <2>1, <2>2 DEF EditSettings, MaybeSettings
  <2>3. CASE settings = NoSettings
    BY <2>3, SettingsAssumption DEF EditSettings, MaybeSettings
  <2> QED
    BY <2>2, <2>3
<1>0. PICK n \in Nat : n = Len(feed)
  BY <1>1 DEF TypeOK
<1>3. /\ feed' \in Seq(MaybeSettings) /\ Len(feed') = n + 1
      /\ feed'[n + 1] = settings' /\ \A i \in 1..n : feed'[i] = feed[i]
  BY <1>0, <1>1, <1>2 DEF TypeOK, MaybeSettings
<1>4. TypeOK'
  BY <1>1, <1>2, <1>3, SettingsAssumption DEF TypeOK, EditSettings, MaybeSettings
<1>5. Heard(n + 1)' = settings' /\ \A i \in 0..n : Heard(i)' = Heard(i)
  BY <1>1, <1>3 DEF Heard
<1>6. Heard(n) = settings
  BY <1>0, <1>1 DEF FeedLeadsToSettings
<1>7. FeedLeadsToSettings'
  <2>1. ASSUME NEW i \in 1..(n + 1), Heard(i - 1)' = NoSettings
        PROVE  feed'[i] # NoSettings
    <3>1. CASE i = n + 1
      <4>1. Heard(n)' = NoSettings
        BY <2>1, <3>1, <1>3
      <4>2. n \in 0..n
        BY <1>3
      <4> QED
        BY <4>1, <4>2, <3>1, <1>2, <1>3, <1>5, <1>6
    <3>2. CASE i # n + 1
      <4>1. i \in 1..n /\ i - 1 \in 0..n
        BY <3>2, <1>3
      <4> QED
        BY <4>1, <2>1, <1>1, <1>3, <1>5 DEF FeedLeadsToSettings
    <3> QED
      BY <3>1, <3>2
  <2> QED
    BY <2>1, <1>3, <1>5 DEF FeedLeadsToSettings
<1>8. ASSUME Known("discover")'
      PROVE  Known("discover") /\ settings'["discover"] = settings["discover"]
  <2>1. settings' # NoSettings /\ ~Pending("discover")'
    BY <1>8 DEF Known
  <2>2. ~Concerns("discover", settings, settings')
    <3>1. n + 1 \in 1..Len(feed') /\ (n + 1) - 1 = n /\ n \in 0..n
      BY <1>3
    <3>2. ~Concerns("discover", Heard((n + 1) - 1)', feed'[n + 1])
      BY <2>1, <3>1 DEF Pending, Concerns
    <3> QED
      BY <3>1, <3>2, <1>3, <1>5, <1>6
  <2>3. settings # NoSettings /\ settings'["discover"] = settings["discover"]
    BY <2>1, <2>2 DEF Concerns
  <2>4. ASSUME NEW i \in 1..n PROVE ~Concerns("discover", Heard(i - 1), feed[i])
    <3>1. i \in 1..Len(feed') /\ i - 1 \in 0..n
      BY <1>3
    <3>2. ~Concerns("discover", Heard(i - 1)', feed'[i])
      BY <2>1, <3>1 DEF Pending, Concerns
    <3> QED
      BY <3>1, <3>2, <1>3, <1>5
  <2> QED
    BY <1>0, <2>3, <2>4 DEF Known, Pending
<1>9. ASSUME NEW c \in DOMAIN ctl PROVE ControllerOK(c)'
  <2>1. ControllerOK(c)
    BY DEF IInv
  <2>2. StageOK(c)' /\ DeletionWaitedFor(c)'
    BY <1>1, <2>1 DEF ControllerOK, StageOK, DeletionWaitedFor, Left
  <2>3. Known(c)' => Known(c) /\ Asked(c)' = Asked(c)
    <3>1. CASE c = "discover"
      BY <3>1, <1>8 DEF Asked
    <3>2. CASE c # "discover"
      BY <3>2, <1>1 DEF Known, Asked
    <3> QED
      BY <3>1, <3>2
  <2>4. WorkDone(c)'
    BY <1>1, <2>1, <2>3 DEF ControllerOK, WorkDone, Runs, Left
  <2> QED
    BY <2>2, <2>4 DEF ControllerOK
<1> QED
  BY <1>1, <1>4, <1>7, <1>9 DEF IInv

\* A change that is delivered puts the request into the queue, or it changes
\* nothing for that controller.
LEMMA WatchKeeps ==
    ASSUME IInv, Watch
    PROVE  IInv'
<1> DEFINE d(c) == [ctl[c] EXCEPT !.queued = @ \/ Concerns(c, cache, cache')]
<1>0. PICK n \in Nat : n = Len(feed)
  BY DEF IInv, TypeOK
<1>1. /\ UNCHANGED <<settings, obj, node, handler, edits, faults>>
      /\ TypeOK /\ FeedLeadsToSettings /\ feed # <<>> /\ ~Booting
      /\ cache' = Head(feed) /\ feed' = Tail(feed)
      /\ ctl' = [c \in DOMAIN ctl |-> d(c)]
  BY DEF IInv, Watch
<1>2. /\ n # 0 /\ feed' \in Seq(MaybeSettings) /\ Len(feed') = n - 1
      /\ cache' = feed[1] /\ cache' \in MaybeSettings
      /\ \A i \in 1..(n - 1) : feed'[i] = feed[i + 1]
  BY <1>0, <1>1 DEF TypeOK, MaybeSettings
<1>3. \A i \in 0..(n - 1) : Heard(i)' = Heard(i + 1)
  BY <1>2 DEF Heard
<1>4. ASSUME NEW c \in DOMAIN ctl
      PROVE  /\ d(c) \in Control /\ ctl'[c] = d(c)
             /\ d(c).queued = (ctl[c].queued \/ Concerns(c, cache, cache'))
             /\ d(c).stage = ctl[c].stage /\ d(c).todo = ctl[c].todo
             /\ d(c).want = ctl[c].want /\ d(c).boot = ctl[c].boot
  <2>1. ctl[c] \in Control /\ ctl[c].queued \in BOOLEAN
    BY <1>1 DEF TypeOK, Control
  <2>2. (ctl[c].queued \/ Concerns(c, cache, cache')) \in BOOLEAN
    BY <2>1 DEF Concerns
  <2> QED
    BY <1>1, <2>1, <2>2 DEF Control
<1> HIDE DEF d
<1>5. TypeOK'
  <2>1. DOMAIN ctl' = DOMAIN ctl /\ ctl' = [c \in DOMAIN ctl' |-> ctl'[c]]
    BY <1>1
  <2> QED
    BY <1>1, <1>2, <1>4, <2>1 DEF TypeOK, MaybeSettings
<1>6. FeedLeadsToSettings'
  <2>1. Heard(n - 1)' = settings'
    <3>1. n - 1 \in 0..(n - 1) /\ (n - 1) + 1 = n
      BY <1>2
    <3> QED
      BY <3>1, <1>0, <1>1, <1>3 DEF FeedLeadsToSettings
  <2>2. ASSUME NEW i \in 1..(n - 1), Heard(i - 1)' = NoSettings
        PROVE  feed'[i] # NoSettings
    <3>1. i - 1 \in 0..(n - 1) /\ (i - 1) + 1 = i /\ i + 1 \in 1..n /\ (i + 1) - 1 = i
      BY <1>2
    <3>2. Heard(i) = NoSettings
      BY <3>1, <2>2, <1>3
    <3> QED
      BY <3>1, <3>2, <1>0, <1>1, <1>2 DEF FeedLeadsToSettings
  <2> QED
    BY <2>1, <2>2, <1>2 DEF FeedLeadsToSettings
<1>7. ASSUME NEW c \in DOMAIN ctl, Known(c)', ~Concerns(c, cache, cache')
      PROVE  Known(c) /\ Asked(c)' = Asked(c)
  <2>1. CASE c # "discover"
    BY <2>1, <1>7 DEF Known, Asked, Concerns
  <2>2. CASE c = "discover"
    <3>1. settings # NoSettings /\ ~Pending(c)'
      BY <2>2, <1>7, <1>1 DEF Known
    <3>2. ASSUME NEW i \in 1..n PROVE ~Concerns(c, Heard(i - 1), feed[i])
      <4>1. CASE i = 1
        BY <4>1, <1>2, <1>7 DEF Heard
      <4>2. CASE i # 1
        <5> DEFINE j == i - 1
        <5>1. j \in 1..(n - 1) /\ j + 1 = i /\ j - 1 \in 0..(n - 1) /\ (j - 1) + 1 = i - 1
          BY <4>2, <1>2
        <5>2. ~Concerns(c, Heard(j - 1)', feed'[j])
          BY <5>1, <3>1, <1>2 DEF Pending, Concerns
        <5> HIDE DEF j
        <5>3. Heard(j - 1)' = Heard(i - 1) /\ feed'[j] = feed[i]
          BY <5>1, <1>2, <1>3
        <5> QED
          BY <5>2, <5>3
      <4> QED
        BY <4>1, <4>2
    <3> QED
      BY <2>2, <3>1, <3>2, <1>0, <1>1 DEF Known, Asked, Pending
  <2> QED
    BY <2>1, <2>2
<1>8. ASSUME NEW c \in DOMAIN ctl PROVE ControllerOK(c)'
  <2>1. ControllerOK(c) /\ ~ctl[c].boot
    BY <1>1 DEF IInv, Booting
  <2>2. StageOK(c)' /\ DeletionWaitedFor(c)'
    BY <1>1, <1>4, <2>1 DEF ControllerOK, StageOK, DeletionWaitedFor, Left
  <2>3. WorkDone(c)'
    <3>1. SUFFICES ASSUME ~ctl'[c].queued, Known(c)'
                   PROVE  /\ ~ctl[c].queued /\ Known(c) /\ Asked(c)' = Asked(c)
      BY <1>1, <1>4, <2>1 DEF ControllerOK, WorkDone, Runs, Left
    <3> QED
      BY <3>1, <1>4, <1>7
  <2> QED
    BY <2>2, <2>3 DEF ControllerOK
<1> QED
  BY <1>1, <1>5, <1>6, <1>8 DEF IInv

-----------------------------------------------------------------------------
(* The operator starts.                                                    *)

\* The controllers of an operator that starts.
LEMMA BootTyped ==
    ASSUME NEW D \in SUBSET Driver, settings \in MaybeSettings, NEW c \in D
    PROVE  /\ Boot(D)[c] \in Control
           /\ c # "discover" => /\ Boot(D)[c].stage = "idle" /\ Boot(D)[c].todo = <<>>
                                /\ ~Boot(D)[c].boot
           /\ c = "discover" => /\ Boot(D)[c].stage = "start" /\ Boot(D)[c].boot
                                /\ Boot(D)[c].todo = StartOrder(c)
<1>1. c = "discover" => Of(settings, c) \in Version
  BY SettingsAssumption DEF Of, MaybeSettings, Settings, Setting, Driver
<1>2. CASE c = "discover"
  BY <1>1, <1>2, ControlsTyped DEF Boot
<1>3. CASE c # "discover"
  BY <1>3, ControlsTyped DEF Boot, Resting
<1> QED
  BY <1>2, <1>3

LEMMA InitKeeps == Init => IInv
<1> SUFFICES ASSUME Init PROVE IInv
  OBVIOUS
<1>1. /\ settings \in MaybeSettings /\ cache = NoSettings /\ feed = Listed
      /\ node = [n \in Node |-> Absent] /\ handler = Idle /\ edits = 0 /\ faults = 0
  BY SettingsAssumption DEF Init, MaybeSettings
<1>2. PICK D \in Together : /\ ctl = Boot(D)
                            /\ obj = [c \in D |-> [p \in Part(c) |-> Absent]]
  BY DEF Init
<1>3. D \in SUBSET Driver /\ DOMAIN ctl = D /\ DOMAIN obj = D
      /\ ctl = [c \in D |-> ctl[c]]
  BY <1>2, SettingsAssumption DEF Boot
<1>4. feed \in Seq(MaybeSettings)
  <2>1. <<>> \in Seq(MaybeSettings)
    OBVIOUS
  <2>2. settings \in MaybeSettings => <<settings>> \in Seq(MaybeSettings)
    OBVIOUS
  <2> QED
    BY <1>1, <2>1, <2>2 DEF Listed
<1>5. TypeOK
  <2>1. \A c \in DOMAIN ctl : ctl[c] \in Control
    BY <1>1, <1>2, <1>3, BootTyped
  <2>2. \A c \in DOMAIN ctl : obj[c] \in [Part(c) -> Object \cup {Absent}]
    BY <1>2, <1>3
  <2>3. obj = [c \in DOMAIN obj |-> obj[c]]
    BY <1>2
  <2> QED
    BY <1>1, <1>3, <1>4, <2>1, <2>2, <2>3, SettingsAssumption DEF TypeOK, MaybeSettings
<1>6. FeedLeadsToSettings
  <2>1. CASE settings = NoSettings
    BY <1>1, <2>1 DEF Listed, FeedLeadsToSettings, Heard
  <2>2. CASE settings # NoSettings
    <3>1. Len(feed) = 1 /\ feed[1] = settings
      BY <1>1, <2>2 DEF Listed
    <3> QED
      BY <3>1, <2>2 DEF FeedLeadsToSettings, Heard
  <2> QED
    BY <2>1, <2>2
<1>7. ASSUME NEW c \in DOMAIN ctl PROVE ControllerOK(c)
  <2>1. \A p \in Part(c) : obj[c][p] = Absent
    BY <1>2, <1>3, <1>7
  <2>2. /\ c # "discover" => ctl[c].stage = "idle" /\ ctl[c].todo = <<>> /\ ~ctl[c].boot
        /\ c = "discover" => /\ ctl[c].stage = "start" /\ ctl[c].boot
                             /\ ctl[c].todo = StartOrder(c)
    BY <1>1, <1>2, <1>3, <1>7, BootTyped
  <2>3. StageOK(c)
    <3>1. CASE c = "discover"
      BY <3>1, <1>1, <1>3, <2>2, Orders DEF StageOK, Left
    <3>2. CASE c # "discover"
      BY <3>2, <2>2 DEF StageOK, Left, Elements
    <3> QED
      BY <3>1, <3>2
  <2>4. DeletionWaitedFor(c)
    BY <2>1 DEF DeletionWaitedFor
  <2>5. ~Known(c)
    BY <1>1, <1>6 DEF Known, Pending, Concerns, Heard, Listed
  <2> QED
    BY <2>3, <2>4, <2>5 DEF ControllerOK, WorkDone
<1> QED
  BY <1>5, <1>6, <1>7 DEF IInv

LEMMA RestartKeeps ==
    ASSUME IInv, Calm, RestartOperator
    PROVE  IInv'
<1>1. /\ UNCHANGED <<settings, obj, node, edits>> /\ TypeOK
      /\ cache' = NoSettings /\ feed' = Listed /\ handler' = Idle
      /\ ctl' = Boot(DOMAIN ctl) /\ faults' = faults + 1 /\ faults < MaxFaults
  BY DEF IInv, RestartOperator, Fault
<1>2. settings \in MaybeSettings /\ DOMAIN ctl \in SUBSET Driver
      /\ DOMAIN ctl' = DOMAIN ctl /\ ctl' = [c \in DOMAIN ctl' |-> ctl'[c]]
  BY <1>1 DEF TypeOK, MaybeSettings, Boot
<1>3. feed' \in Seq(MaybeSettings)
  <2>1. <<>> \in Seq(MaybeSettings)
    OBVIOUS
  <2>2. settings \in MaybeSettings => <<settings>> \in Seq(MaybeSettings)
    OBVIOUS
  <2> QED
    BY <1>1, <1>2, <2>1, <2>2 DEF Listed
<1>4. \A c \in DOMAIN ctl :
         /\ ctl'[c] \in Control
         /\ c # "discover" => ctl'[c].stage = "idle" /\ ctl'[c].todo = <<>> /\ ~ctl'[c].boot
         /\ c = "discover" => /\ ctl'[c].stage = "start" /\ ctl'[c].boot
                              /\ ctl'[c].todo = StartOrder(c)
  BY <1>1, <1>2, BootTyped
<1>5. TypeOK'
  BY <1>1, <1>2, <1>3, <1>4, SettingsAssumption DEF TypeOK, MaybeSettings
<1>6. FeedLeadsToSettings'
  <2>1. CASE settings = NoSettings
    BY <1>1, <2>1 DEF Listed, FeedLeadsToSettings, Heard
  <2>2. CASE settings # NoSettings
    <3>1. Len(feed') = 1 /\ feed'[1] = settings
      BY <1>1, <2>2 DEF Listed
    <3> QED
      BY <1>1, <3>1, <2>2 DEF FeedLeadsToSettings, Heard
  <2> QED
    BY <2>1, <2>2
<1>7. ASSUME NEW c \in DOMAIN ctl PROVE ControllerOK(c)'
  <2>1. \A p \in Part(c) : obj[c][p] # Absent => ~obj[c][p].dying
    BY <1>7 DEF RestartOperator, Calm, Dying
  <2>2. StageOK(c)'
    <3>1. CASE c = "discover"
      BY <3>1, <1>1, <1>2, <1>4, <1>7, Orders DEF StageOK, Left
    <3>2. CASE c # "discover"
      BY <3>2, <1>4, <1>7 DEF StageOK, Left, Elements
    <3> QED
      BY <3>1, <3>2
  <2>3. DeletionWaitedFor(c)'
    BY <1>1, <2>1 DEF DeletionWaitedFor
  <2>4. ~Known(c)'
    BY <1>1, <1>6 DEF Known, Pending, Concerns, Heard, Listed
  <2> QED
    BY <2>2, <2>3, <2>4 DEF ControllerOK, WorkDone
<1> QED
  BY <1>2, <1>5, <1>6, <1>7 DEF IInv

-----------------------------------------------------------------------------
(* The theorems.                                                           *)

LEMMA NextKeeps ==
    ASSUME Calm, IInv, [Next]_vars
    PROVE  IInv'
<1>1. CASE EditSettings
  BY <1>1, EditKeeps
<1>2. CASE Watch
  BY <1>2, WatchKeeps
<1>3. ASSUME NEW c \in DOMAIN ctl, ControllerStep(c)
      PROVE  IInv'
  BY <1>3, ReconcileKeeps, CreateObjectKeeps, UpdateObjectKeeps, NodesKeep, DeleteObjectKeeps,
     SeeItGoneKeeps DEF ControllerStep
<1>4. ASSUME NEW c \in DOMAIN ctl, Purge(c) \/ CallFails(c) \/ DeleteFails(c)
      PROVE  IInv'
  BY <1>4, PurgeKeeps, CallFailsKeeps, NoDeleteFails
<1>5. CASE (\E n \in Node : BuildNode(n)) \/ CreateNode
  BY <1>5, HandlerKeeps
<1>6. CASE RestartOperator
  BY <1>6, RestartKeeps
<1>7. CASE UNCHANGED vars
  <2>1. TypeOK' /\ FeedLeadsToSettings'
    BY <1>7 DEF IInv, TypeOK, FeedLeadsToSettings, Heard, vars
  <2>2. ASSUME NEW c \in DOMAIN ctl PROVE ControllerOK(c)'
    BY <1>7, <2>2 DEF IInv, ControllerOK, StageOK, DeletionWaitedFor, WorkDone, Runs, Left,
                      Known, Asked, Pending, Heard, vars
  <2> QED
    BY <1>7, <2>1, <2>2 DEF IInv, vars
<1> QED
  BY <1>1, <1>2, <1>3, <1>4, <1>5, <1>6, <1>7 DEF Next

\* The inductive invariant of the controllers of the settings: what is not
\* left to do is done, unless a request is queued or a change is coming.
THEOREM SettingsInvariant ==
    ASSUME Calm
    PROVE  Spec => []IInv
<1>1. Init => IInv
  BY InitKeeps
<1>2. IInv /\ [Next]_vars => IInv'
  BY NextKeeps
<1> QED
  BY <1>1, <1>2, PTL DEF Spec

\* No controller deploys settings it cannot parse, and the variables keep
\* their types.
THEOREM SettingsTyped ==
    ASSUME Calm
    PROVE  Spec => []TypeOK
<1>1. IInv => TypeOK
  BY DEF IInv
<1> QED
  BY <1>1, SettingsInvariant, PTL

\* A controller with nothing to do has done what the settings ask for: no
\* edit, failed start or restart of the operator is forgotten.
THEOREM RestIsApplied ==
    ASSUME Calm
    PROVE  Spec => []RestMeansApplied
<1>1. ASSUME IInv PROVE RestMeansApplied
  <2> SUFFICES ASSUME NEW c \in DOMAIN ctl, feed = <<>>, settings # NoSettings,
                      At(c, "idle"), ~ctl[c].queued
               PROVE  AsSet(c)
    BY DEF RestMeansApplied
  <2>1. cache = settings /\ ~Pending(c)
    BY <1>1 DEF IInv, FeedLeadsToSettings, Heard, Pending
  <2>2. Known(c) /\ Asked(c) = settings[c] /\ Of(settings, c) = settings[c]
    BY <2>1 DEF Known, Asked, Of
  <2>3. \A p \in Part(c) : obj[c][p] # Absent => ~obj[c][p].dying
    BY <1>1, NothingDying DEF At
  <2>4. WorkDone(c)
    BY <1>1 DEF IInv, ControllerOK
  <2> QED
    BY <2>2, <2>3, <2>4 DEF AsSet, At, WorkDone, Runs
<1> QED
  BY <1>1, SettingsInvariant, PTL
=============================================================================
