-------------------------- MODULE EdgeControlProofs -------------------------
(***************************************************************************)
(* Proofs of the safety properties of EdgeControl and of the ActionRelay   *)
(* under it, from one inductive invariant, IInv.                           *)
(***************************************************************************)
EXTENDS EdgeControl, ActionRelayProofs, SequenceTheorems

\* Which sender there is, and that it is through only after a zero.
SenderShape ==
    /\ remote <=> setup = "network"
    /\ row # None => owner = "running"
    /\ task # None =>
         /\ setup \in {"control", "remote"} /\ owner = "running"
         /\ setup = "remote" => task.result = "ACTIVE"
         /\ task.result # "ACTIVE" => newest # "motion"
    /\ setup = "control" /\ owner = "running" => task # None /\ task.kind = "follow"
    /\ setup \in {"control", "remote"} /\ task = None => newest # "motion"
    /\ replay # None <=> setup = "replay"
    /\ replay # None /\ replay.rows > 0 => replay.tail = Zeros
    /\ replay # None /\ replay.tail < Zeros => newest # "motion"

\* What a fixed action holds for it has measured in this step.
Measured(t) ==
    /\ t.latched \subseteq t.reached
    /\ t.hold # None => Targets[t.at] \subseteq t.reached

FixedShape == task \in FixedTask => Measured(task)

IInv ==
    /\ TypeOK /\ RelayInv
    /\ SenderShape /\ FixedShape

-----------------------------------------------------------------------------
(* The steps of the runtimes.                                              *)

LEMMA EdgeNumbers ==
    /\ Top \in Nat \ {0} /\ Startup \in Nat \ {0} /\ Tracking \in Nat \ {0}
    /\ StepTimeout \in Nat \ {0} /\ Hold \in Nat /\ StateTimeout \in Nat
    /\ Rows \in Nat \ {0} /\ Zeros \in Nat \ {0}
    /\ Lengths \subseteq Nat \ {0} /\ 0 \in Level
BY EdgeAssumption, RelayAssumption DEF Level

LEMMA NoneIsNoTask ==
    /\ None \notin FollowTask /\ None \notin FixedTask
    /\ None \notin [rows : 0..Rows, tail : 0..Zeros]
BY NoTaskAssumption

\* The limiter stays between the command it starts from and its target.
LEMMA TowardInLevel ==
    ASSUME NEW target \in Level, NEW from \in Level, NEW by \in Nat
    PROVE  Toward(target, from, by) \in Level
BY EdgeNumbers DEF Level, Toward, Most, Least

LEMMA FollowFields ==
    ASSUME NEW t \in FollowTask
    PROVE  /\ t.kind = "follow" /\ t.single \in BOOLEAN /\ t.points \in Lengths \cup {3}
           /\ t.at \in Nat /\ t.left \in (0..Tracking) \cup {None} /\ t.level \in Level
           /\ t.given \in Level /\ t.boost \in BOOLEAN /\ t.since \in (0..(2 * Top)) \cup {None}
           /\ t.moved \in BOOLEAN /\ t.result \in {"ACTIVE", "COMPLETED", "TIMEOUT"}
BY DEF FollowTask

LEMMA FixedFields ==
    ASSUME NEW t \in FixedTask
    PROVE  /\ t.kind = "fixed" /\ t.checked \in BOOLEAN /\ t.at \in 1..Len(Targets)
           /\ t.left \in (0..StepTimeout) \cup {None} /\ t.hold \in (0..Hold) \cup {None}
           /\ t.latched \in SUBSET Axes /\ t.reached \in SUBSET Axes
           /\ t.result \in {"ACTIVE", "COMPLETED", "TIMEOUT"}
BY DEF FixedTask

LEMMA FollowFromEffect ==
    ASSUME NEW n \in Lengths, NEW since \in {None, 0}
    PROVE  /\ FollowFrom(n, since) \in FollowTask
           /\ FollowFrom(n, since).kind = "follow" /\ FollowFrom(n, since).result = "ACTIVE"
BY EdgeNumbers DEF FollowFrom, FollowTask

LEMMA FixedFromEffect ==
    /\ FixedFrom \in FixedTask
    /\ FixedFrom.kind = "fixed" /\ FixedFrom.result = "ACTIVE"
    /\ FixedFrom.hold = None /\ FixedFrom.latched = {}
<1>1. 1 \in 1..Len(Targets)
  BY EdgeAssumption
<1> QED
  BY <1>1 DEF FixedFrom, FixedTask

LEMMA ExpandedEffect ==
    ASSUME NEW t \in FollowTask, NEW near \in BOOLEAN
    PROVE  Expanded(t, near) \in FollowTask /\ Expanded(t, near).result = t.result
BY DEF Expanded, FollowTask

LEMMA TrackedEffect ==
    ASSUME NEW t \in FollowTask, NEW near
    PROVE  Tracked(t, near) \in FollowTask
BY DEF Tracked, FollowTask

LEMMA CommandedEffect ==
    ASSUME NEW t \in FollowTask, NEW wish \in Level
    PROVE  Commanded(t, wish) \in FollowTask /\ Commanded(t, wish).result = t.result
<1> DEFINE elapsed == IF t.since = None THEN 0
                      ELSE IF t.moved THEN t.since ELSE Least(t.since, 1)
           fast == t.boost /\ Growing(wish, t.level)
           by == IF fast THEN Startup * elapsed ELSE elapsed
           level == Toward(wish, t.level, by)
           boost == t.boost /\ (wish = 0 \/ (fast /\ level # wish))
<1>1. elapsed \in Nat
  BY FollowFields, EdgeNumbers DEF Least
<1>2. Startup * elapsed \in Nat
  BY <1>1, EdgeNumbers
<1>3. by \in Nat
  BY <1>1, <1>2
<1>4. level \in Level
  BY <1>3, FollowFields, TowardInLevel
<1>5. boost \in BOOLEAN
  BY FollowFields, ZenonT(20)
<1>6. Commanded(t, wish) =
        [t EXCEPT !.level = level, !.given = level, !.moved = TRUE, !.boost = boost]
  BY DEF Commanded
<1> HIDE DEF level, boost
<1> QED
  BY <1>4, <1>5, <1>6 DEF FollowTask

\* A step of a follow runtime; one after the end changes neither the end nor its kind.
LEMMA FollowStepEffect ==
    ASSUME NEW t \in FollowTask, NEW near \in BOOLEAN, NEW wish \in Level
    PROVE  /\ FollowStep(t, near, wish) \in FollowTask
           /\ t.result # "ACTIVE" => FollowStep(t, near, wish).result = t.result
<1> DEFINE left == IF t.left = None THEN Tracking ELSE t.left
           tracked == IF t.result # "ACTIVE" THEN t
                      ELSE IF left = 0 THEN [t EXCEPT !.result = "TIMEOUT"]
                      ELSE Tracked(Expanded(t, near), near \/ Expands(t, near))
           moved == IF tracked.result = "ACTIVE" THEN Commanded(tracked, wish)
                    ELSE [tracked EXCEPT !.given = 0]
<1>1. FollowStep(t, near, wish) = [moved EXCEPT !.left = left, !.since = 0]
  BY DEF FollowStep
<1>2. left \in (0..Tracking) \cup {None}
  BY FollowFields, EdgeNumbers
<1>3. tracked \in FollowTask
  <2>1. [t EXCEPT !.result = "TIMEOUT"] \in FollowTask
    BY DEF FollowTask
  <2>2. Tracked(Expanded(t, near), near \/ Expands(t, near)) \in FollowTask
    BY ExpandedEffect, TrackedEffect
  <2> QED
    BY <2>1, <2>2
<1>4. t.result # "ACTIVE" => tracked.result = t.result
  OBVIOUS
<1> HIDE DEF tracked, left
<1>5. moved \in FollowTask /\ moved.result = tracked.result
  <2>1. CASE tracked.result = "ACTIVE"
    BY <1>3, <2>1, CommandedEffect
  <2>2. CASE tracked.result # "ACTIVE"
    <3>1. moved = [tracked EXCEPT !.given = 0]
      BY <2>2
    <3> QED
      BY <1>3, <3>1, EdgeNumbers DEF FollowTask
  <2> QED
    BY <2>1, <2>2
<1> HIDE DEF moved
<1>6. 0 \in 0..(2 * Top)
  BY EdgeNumbers
<1> QED
  BY <1>1, <1>2, <1>4, <1>5, <1>6 DEF FollowTask

LEMMA AdvanceEffect ==
    ASSUME NEW t \in FixedTask
    PROVE  /\ Advance(t) \in FixedTask
           /\ Advance(t).hold = None /\ Advance(t).latched = {} /\ Advance(t).reached = {}
<1>1. Len(Targets) \in Nat \ {0}
  BY EdgeAssumption
<1>2. Least(t.at + 1, Len(Targets)) \in 1..Len(Targets)
  BY <1>1, FixedFields DEF Least
<1> QED
  BY <1>2 DEF Advance, FixedTask

LEMMA ServoEffect ==
    ASSUME NEW t \in FixedTask, NEW on \in SUBSET Axes, t.hold = None,
           t.latched \subseteq t.reached
    PROVE  Servo(t, on) \in FixedTask /\ Measured(Servo(t, on))
<1> DEFINE left == IF t.left = None THEN StepTimeout ELSE t.left
           found == on \cap Targets[t.at]
           latched == t.latched \cup found
           hold == IF Targets[t.at] \subseteq latched THEN Hold ELSE t.hold
<1>1. left \in (0..StepTimeout) \cup {None} /\ hold \in (0..Hold) \cup {None}
  BY FixedFields, EdgeNumbers
<1>2. latched \in SUBSET Axes /\ t.reached \cup found \in SUBSET Axes
      /\ latched \subseteq t.reached \cup found
  BY FixedFields
<1>3. hold # None => Targets[t.at] \subseteq t.reached \cup found
  BY <1>2
<1>4. Servo(t, on) =
        IF left = 0 THEN [t EXCEPT !.left = left, !.result = "TIMEOUT"]
        ELSE [t EXCEPT !.left = left, !.latched = latched, !.reached = t.reached \cup found,
                       !.hold = hold]
  BY DEF Servo
<1> HIDE DEF left, latched, hold, found
<1>5. CASE left = 0
  <2>1. Servo(t, on) = [t EXCEPT !.left = left, !.result = "TIMEOUT"]
    BY <1>4, <1>5
  <2>2. Servo(t, on) \in FixedTask
    BY <1>1, <2>1 DEF FixedTask
  <2>3. /\ Servo(t, on).hold = t.hold /\ Servo(t, on).latched = t.latched
        /\ Servo(t, on).reached = t.reached
    BY <2>1 DEF FixedTask
  <2> QED
    BY <2>2, <2>3 DEF Measured
<1>6. CASE left # 0
  <2>1. Servo(t, on) =
          [t EXCEPT !.left = left, !.latched = latched, !.reached = t.reached \cup found,
                    !.hold = hold]
    BY <1>4, <1>6
  <2>2. Servo(t, on) \in FixedTask
    BY <1>1, <1>2, <2>1 DEF FixedTask
  <2>3. /\ Servo(t, on).hold = hold /\ Servo(t, on).latched = latched
        /\ Servo(t, on).reached = t.reached \cup found /\ Servo(t, on).at = t.at
    BY <2>1 DEF FixedTask
  <2> QED
    BY <1>2, <1>3, <2>2, <2>3 DEF Measured
<1> QED
  BY <1>5, <1>6

\* A step of a fixed action holds only for what it has measured itself.
LEMMA FixedStepEffect ==
    ASSUME NEW t \in FixedTask, NEW on \in SUBSET Axes, Measured(t)
    PROVE  FixedStep(t, on) \in FixedTask /\ Measured(FixedStep(t, on))
<1> DEFINE ready == [t EXCEPT !.checked = TRUE]
           next == IF ready.hold = 0 THEN Advance(ready) ELSE ready
<1>1. FixedStep(t, on) =
        IF next.hold # None \/ next.result # "ACTIVE" THEN next ELSE Servo(next, on)
  BY DEF FixedStep
<1>2. ready \in FixedTask /\ Measured(ready)
  BY DEF FixedTask, Measured
<1> HIDE DEF ready
<1>3. next \in FixedTask /\ Measured(next)
  BY <1>2, AdvanceEffect DEF Measured
<1> HIDE DEF next
<1> QED
  BY <1>1, <1>3, ServoEffect DEF Measured

LEMMA PassedEffect ==
    ASSUME NEW t \in FollowTask \cup FixedTask \cup {None}
    PROVE  /\ Passed(t) \in FollowTask \cup FixedTask \cup {None}
           /\ Passed(t) = None <=> t = None
           /\ t # None => Passed(t).kind = t.kind /\ Passed(t).result = t.result
           /\ t \in FixedTask /\ Measured(t) => Measured(Passed(t))
<1>1. CASE t = None
  BY <1>1, NoneIsNoTask DEF Passed
<1>2. CASE t \in FollowTask
  <2> DEFINE left == IF t.left \in {None, 0} THEN t.left ELSE t.left - 1
             since == IF t.since = None THEN None ELSE Least(t.since + 1, 2 * Top)
  <2>1. left \in (0..Tracking) \cup {None} /\ since \in (0..(2 * Top)) \cup {None}
    BY <1>2, FollowFields, EdgeNumbers DEF Least
  <2>2. Passed(t) = [t EXCEPT !.left = left, !.since = since]
    BY <1>2, FollowFields, NoneIsNoTask DEF Passed
  <2> HIDE DEF left, since
  <2>3. Passed(t) \in FollowTask /\ Passed(t).kind = t.kind /\ Passed(t).result = t.result
    BY <1>2, <2>1, <2>2 DEF FollowTask
  <2>4. t \notin FixedTask /\ t # None /\ Passed(t) # None
    BY <1>2, <2>3, NoneIsNoTask, FollowFields, FixedFields
  <2> QED
    BY <2>3, <2>4
<1>3. CASE t \in FixedTask
  <2> DEFINE left == IF t.left \in {None, 0} THEN t.left ELSE t.left - 1
             hold == IF t.hold \in {None, 0} THEN t.hold ELSE t.hold - 1
  <2>1. /\ left \in (0..StepTimeout) \cup {None} /\ hold \in (0..Hold) \cup {None}
        /\ hold # None => t.hold # None
    BY <1>3, FixedFields, EdgeNumbers
  <2>2. Passed(t) = [t EXCEPT !.left = left, !.hold = hold]
    BY <1>3, FixedFields, NoneIsNoTask DEF Passed
  <2> HIDE DEF left, hold
  <2>3. Passed(t) \in FixedTask /\ Passed(t).kind = t.kind /\ Passed(t).result = t.result
    BY <1>3, <2>1, <2>2 DEF FixedTask
  <2>4. Measured(t) => Measured(Passed(t))
    BY <1>3, <2>1, <2>2 DEF FixedTask, Measured
  <2>5. t # None /\ Passed(t) # None
    BY <1>3, <2>3, NoneIsNoTask
  <2> QED
    BY <2>3, <2>4, <2>5
<1> QED
  BY <1>1, <1>2, <1>3

-----------------------------------------------------------------------------
(* The steps of the specification.                                         *)

LEMMA InitEstablishesIInv == Init => IInv
<1> SUFFICES ASSUME Init
             PROVE  IInv
  OBVIOUS
<1>1. remote \in BOOLEAN
  BY ZenonT(20) DEF Init
<1>2. RelayInv
  BY <1>1, InitEstablishesRelayInv DEF Init
<1>3. task = None \/ (setup = "control" /\ \E n \in Lengths : task = FollowFrom(n, None))
  BY DEF Init
<1>4. CASE task = None
  <2>1. TypeOK
    <3>1. [rows |-> Rows, tail |-> Zeros] \in [rows : 0..Rows, tail : 0..Zeros]
      BY EdgeNumbers
    <3>2. seen \in Fit
      BY EdgeNumbers DEF Init, Fit
    <3> QED
      BY <1>2, <1>4, <3>1, <3>2 DEF Init, TypeOK, RelayInv
  <2>2. SenderShape
    <3>1. remote <=> setup = "network"
      BY ZenonT(20) DEF Init
    <3>2. setup # "control"
      BY <1>4, FollowFromEffect, NoneIsNoTask DEF Init
    <3>3. /\ replay # None <=> setup = "replay"
          /\ replay # None => replay.tail = Zeros
      <4>1. [rows |-> Rows, tail |-> Zeros] \in [rows : 0..Rows, tail : 0..Zeros]
        BY EdgeNumbers
      <4> QED
        BY <4>1, NoneIsNoTask DEF Init
    <3> QED
      BY <1>4, <3>1, <3>2, <3>3, EdgeNumbers DEF Init, RelayInit, SenderShape
  <2> QED
    BY <1>2, <1>4, <2>1, <2>2, NoneIsNoTask DEF IInv, FixedShape
<1>5. CASE setup = "control" /\ \E n \in Lengths : task = FollowFrom(n, None)
  <2>1. task \in FollowTask /\ task.kind = "follow" /\ task.result = "ACTIVE"
    BY <1>5, FollowFromEffect
  <2>2. task # None /\ task \notin FixedTask
    BY <2>1, NoneIsNoTask, FixedFields
  <2>3. TypeOK
    BY <1>2, <1>5, <2>1, EdgeNumbers DEF Init, TypeOK, RelayInv, Fit
  <2>4. SenderShape
    BY <1>5, <2>1, <2>2 DEF Init, RelayInit, SenderShape
  <2> QED
    BY <1>2, <2>2, <2>3, <2>4 DEF IInv, FixedShape
<1> QED
  BY <1>3, <1>4, <1>5

\* Nothing happens to the senders.
LEMMA SendersRest ==
    ASSUME IInv, RelayInv', UNCHANGED <<setup, task, replay>>, seen' \in Fit,
           remote' = remote, owner = "running" <=> owner' = "running",
           row' # None => owner' = "running",
           newest' = "motion" => newest = "motion"
    PROVE  IInv'
<1>1. TypeOK'
  BY DEF IInv, TypeOK, RelayInv
<1>2. SenderShape'
  BY DEF IInv, SenderShape
<1>3. FixedShape'
  BY DEF IInv, FixedShape, Measured
<1> QED
  BY <1>1, <1>2, <1>3 DEF IInv

LEMMA StutterKeepsIInv ==
    ASSUME IInv, UNCHANGED vars
    PROVE  IInv'
<1>1. RelayInv'
  BY StutterKeepsRelayInv DEF IInv, vars
<1> QED
  BY <1>1, SendersRest DEF IInv, TypeOK, SenderShape, vars, relayVars, history

LEMMA RelayRunsKeepsIInv ==
    ASSUME IInv, RelayRuns
    PROVE  IInv'
<1>1. RelayInv'
  BY RelayStepsKeepRelayInv DEF IInv, RelayRuns
<1>2. /\ newest' = "motion" => newest = "motion"
      /\ row' = row /\ remote' = remote
      /\ owner = "running" <=> owner' = "running"
  BY RelaySendsNothing DEF RelayRuns
<1> QED
  BY <1>1, <1>2, SendersRest DEF IInv, TypeOK, SenderShape, RelayRuns

LEMMA PublishKeepsIInv ==
    ASSUME IInv, Publish
    PROVE  IInv'
<1>1. RelayInv'
  BY PublishRowKeepsRelayInv DEF IInv, Publish
<1> QED
  BY <1>1, SendersRest DEF IInv, TypeOK, SenderShape, Publish, PublishRow

\* What a runtime may make of a row.
LEMMA StepsEffect ==
    ASSUME IInv, task # None, NEW t \in Steps(task)
    PROVE  \/ t = None
           \/ /\ t \in FollowTask /\ task \in FollowTask /\ t # None
              /\ task.result # "ACTIVE" => t.result = task.result
           \/ t \in FixedTask /\ task \in FixedTask /\ t # None /\ Measured(t)
<1>1. CASE task \in FollowTask
  <2>1. task.kind = "follow"
    BY <1>1, FollowFields
  <2>2. t = None \/ \E near \in BOOLEAN, wish \in Level : t = FollowStep(task, near, wish)
    BY <2>1 DEF Steps
  <2> QED
    BY <1>1, <2>2, FollowStepEffect, NoneIsNoTask
<1>2. CASE task \in FixedTask
  <2>1. task.kind = "fixed"
    BY <1>2, FixedFields
  <2>2. t = None \/ \E on \in SUBSET Axes : t = FixedStep(task, on)
    BY <2>1 DEF Steps
  <2>3. Measured(task)
    BY <1>2 DEF IInv, FixedShape
  <2> QED
    BY <1>2, <2>2, <2>3, FixedStepEffect, NoneIsNoTask
<1> QED
  BY <1>1, <1>2 DEF IInv, TypeOK

LEMMA DispatchedEffect ==
    ASSUME NEW t, NEW act \in Dispatched(t)
    PROVE  act \in Act /\ (t.result # "ACTIVE" => act = "zero")
BY DEF Dispatched, Act

LEMMA ObserveControlEffect ==
    ASSUME IInv, ObserveControl
    PROVE  /\ RelayInv' /\ task \in FollowTask /\ task' \in FollowTask
           /\ task'.result # "ACTIVE" => newest' # "motion"
           /\ task.result # "ACTIVE" => task'.result = task.result
<1>1. /\ setup = "control" /\ row # None /\ row' = None
      /\ UNCHANGED <<remote, snap, owner, thread, line, held, blind, wedged, setup, seen, replay>>
  BY DEF ObserveControl
<1>2. owner = "running" /\ task # None /\ task \in FollowTask
  BY <1>1, FixedFields DEF IInv, SenderShape, TypeOK
<1>3. PICK t \in Steps(task) :
        IF t = None
        THEN Send("zero") /\ task' = [task EXCEPT !.given = 0]
        ELSE (\E act \in Dispatched(t) : Send(act)) /\ task' = t
  BY DEF ObserveControl
<1>4. CASE t = None
  <2>1. Send("zero") /\ task' = [task EXCEPT !.given = 0]
    BY <1>3, <1>4
  <2>2. task' \in FollowTask /\ task'.result = task.result
    BY <1>2, <2>1, EdgeNumbers DEF FollowTask
  <2>3. RelayInv' /\ newest' = "zero"
    BY <1>1, <2>1, SendKeepsRelayInv DEF IInv, Act
  <2> QED
    BY <1>2, <2>2, <2>3
<1>5. CASE t # None
  <2>1. PICK act \in Dispatched(t) : Send(act) /\ task' = t
    BY <1>3, <1>5
  <2>2. /\ t \in FollowTask
        /\ task.result # "ACTIVE" => t.result = task.result
    BY <1>2, <1>5, StepsEffect, FollowFields, FixedFields
  <2>3. act \in Act /\ (t.result # "ACTIVE" => act = "zero")
    BY DispatchedEffect
  <2>4. RelayInv' /\ newest' = act
    BY <1>1, <2>1, <2>3, SendKeepsRelayInv DEF IInv
  <2> QED
    BY <1>2, <2>1, <2>2, <2>3, <2>4
<1> QED
  BY <1>4, <1>5

LEMMA ObserveControlKeepsIInv ==
    ASSUME IInv, ObserveControl
    PROVE  IInv'
<1>1. /\ setup = "control" /\ row' = None
      /\ UNCHANGED <<remote, owner, setup, seen, replay>>
  BY DEF ObserveControl
<1>2. /\ RelayInv' /\ task \in FollowTask /\ task' \in FollowTask
      /\ task'.result # "ACTIVE" => newest' # "motion"
  BY ObserveControlEffect
<1>3. task' # None /\ task' \notin FixedTask /\ task'.kind = "follow" /\ task # None
  BY <1>2, NoneIsNoTask, FollowFields, FixedFields
<1>4. TypeOK'
  BY <1>1, <1>2 DEF IInv, TypeOK, RelayInv
<1>5. SenderShape'
  BY <1>1, <1>2, <1>3 DEF IInv, SenderShape
<1> QED
  BY <1>2, <1>3, <1>4, <1>5 DEF IInv, FixedShape

\* The executor takes a row for which it has no behaviour.
LEMMA RowTakenKeepsRelayInv ==
    ASSUME RelayInv, row' = None,
           UNCHANGED <<remote, queue, snap, owner, thread, line, history>>
    PROVE  RelayInv'
BY DEF RelayInv, RelayTypeOK, WatchShape, JobShape, ClosedShape, ClosedMeansZero, StopShape,
       RestShape, PermitsMotion, is_healthy, thread, history

\* A runner that is closed has sent a zero, and is gone.
LEMMA FinishKeepsIInv ==
    ASSUME IInv, Finish, setup \in {"remote", "control"},
           UNCHANGED <<remote, snap, thread, line, held, blind, wedged, setup, replay>>,
           seen' \in Fit, row' = None \/ row' = row,
           \/ owner' = owner /\ setup = "remote"
           \/ owner = "running" /\ owner' = "closing" /\ row' = None
    PROVE  IInv'
<1>1. /\ row' \in Row \cup {None} /\ task' = None /\ Send("zero")
      /\ row' # None => owner' = "running"
  BY DEF IInv, TypeOK, RelayTypeOK, SenderShape, Finish
<1>2. RelayInv' /\ newest' = "zero"
  BY <1>1, SendKeepsRelayInv DEF IInv, Act
<1>3. TypeOK'
  BY <1>1, <1>2 DEF IInv, TypeOK, RelayInv
<1>4. SenderShape'
  BY <1>1, <1>2 DEF IInv, SenderShape
<1>5. FixedShape'
  BY <1>1, NoneIsNoTask DEF FixedShape
<1> QED
  BY <1>2, <1>3, <1>4, <1>5 DEF IInv

LEMMA ObserveRemoteKeepsIInv ==
    ASSUME IInv, ObserveRemote
    PROVE  IInv'
<1>1. /\ setup = "remote" /\ row # None /\ row' = None
      /\ UNCHANGED <<remote, snap, owner, thread, line, held, blind, wedged, setup, replay>>
  BY DEF ObserveRemote
<1>2. seen' \in Fit
  <2>1. seen' = [fit |-> row = "safe" /\ is_healthy, age |-> 0] /\ 0 \in 0..(StateTimeout + 1)
    BY EdgeNumbers DEF ObserveRemote
  <2> QED
    BY <2>1 DEF Fit
<1>3. owner = "running"
  BY <1>1 DEF IInv, SenderShape
<1>4. CASE task = None
  <2>1. UNCHANGED <<queue, newest, task>>
    BY <1>4 DEF ObserveRemote
  <2>2. RelayInv'
    BY <1>1, <2>1, RowTakenKeepsRelayInv DEF IInv, history
  <2> QED
    BY <1>1, <1>2, <2>1, <2>2, SendersRest
<1>5. CASE task # None
  <2>1. PICK t \in Steps(task) :
          IF t = None \/ (t # None /\ t.result # "ACTIVE")
          THEN Finish
          ELSE (\E act \in Dispatched(t) : Send(act)) /\ task' = t
    BY <1>5 DEF ObserveRemote
  <2>2. CASE Finish
    BY <1>1, <1>2, <2>2, FinishKeepsIInv
  <2>3. CASE /\ t # None /\ t.result = "ACTIVE"
             /\ (\E act \in Dispatched(t) : Send(act)) /\ task' = t
    <3>1. PICK act \in Dispatched(t) : Send(act)
      BY <2>3
    <3>2. act \in Act
      BY DispatchedEffect
    <3>3. RelayInv'
      BY <1>1, <3>1, <3>2, SendKeepsRelayInv DEF IInv
    <3>4. t \in FollowTask \/ (t \in FixedTask /\ Measured(t))
      BY <1>5, <2>3, StepsEffect
    <3>5. TypeOK'
      BY <1>1, <1>2, <2>3, <3>3, <3>4 DEF IInv, TypeOK, RelayInv
    <3>6. SenderShape'
      BY <1>1, <1>3, <1>5, <2>3 DEF IInv, SenderShape
    <3>7. FixedShape'
      BY <2>3, <3>4, FollowFields, FixedFields DEF FixedShape, Measured
    <3> QED
      BY <3>3, <3>5, <3>6, <3>7 DEF IInv
  <2> QED
    BY <2>1, <2>2, <2>3
<1> QED
  BY <1>4, <1>5

LEMMA StartKeepsIInv ==
    ASSUME IInv, Start
    PROVE  IInv'
<1>1. /\ setup = "remote" /\ owner = "running" /\ task = None
      /\ UNCHANGED <<relayVars, setup, seen, replay>>
  BY DEF Start
<1>2. /\ task' \in FollowTask \/ (task' \in FixedTask /\ Measured(task'))
      /\ task'.result = "ACTIVE"
  <2>1. PICK t \in {FollowFrom(n, 0) : n \in Lengths} \cup {FixedFrom} : task' = t
    BY DEF Start
  <2>2. CASE t = FixedFrom
    BY <2>1, <2>2, FixedFromEffect DEF Measured
  <2>3. CASE \E n \in Lengths : t = FollowFrom(n, 0)
    BY <2>1, <2>3, FollowFromEffect
  <2> QED
    BY <2>1, <2>2, <2>3
<1>3. RelayInv'
  BY <1>1, StutterKeepsRelayInv DEF IInv
<1>4. TypeOK'
  BY <1>1, <1>2, <1>3 DEF IInv, TypeOK, RelayInv
<1>5. SenderShape'
  BY <1>1, <1>2, NoneIsNoTask DEF IInv, SenderShape, relayVars
<1>6. FixedShape'
  BY <1>2, FollowFields, FixedFields DEF FixedShape
<1> QED
  BY <1>3, <1>4, <1>5, <1>6 DEF IInv

LEMMA CancelKeepsIInv ==
    ASSUME IInv, Cancel
    PROVE  IInv'
BY FinishKeepsIInv DEF IInv, TypeOK, Cancel

\* A sender other than a runtime sends one datagram.
LEMMA OthersKeepIInv ==
    ASSUME IInv, NEW act \in Act, Send(act), setup \in {"network", "replay"},
           UNCHANGED <<remote, snap, row, owner, thread, line, held, blind, wedged,
                       setup, task, seen>>,
           replay' \in [rows : 0..Rows, tail : 0..Zeros] \cup {None},
           replay' # None <=> setup = "replay",
           replay' # None /\ replay'.rows > 0 => replay'.tail = Zeros,
           replay' # None /\ replay'.tail < Zeros => act # "motion"
    PROVE  IInv'
<1>1. row' \in Row \cup {None}
  BY DEF IInv, TypeOK, RelayTypeOK
<1>2. RelayInv' /\ newest' = act
  BY <1>1, SendKeepsRelayInv DEF IInv
<1>3. TypeOK'
  BY <1>2 DEF IInv, TypeOK, RelayInv
<1>4. SenderShape'
  BY <1>2 DEF IInv, SenderShape
<1>5. FixedShape'
  BY DEF IInv, FixedShape, Measured
<1> QED
  BY <1>2, <1>3, <1>4, <1>5 DEF IInv

LEMMA ReplayFields ==
    ASSUME IInv, replay # None
    PROVE  /\ replay \in [rows : 0..Rows, tail : 0..Zeros]
           /\ replay.rows \in Nat /\ replay.tail \in Nat /\ setup = "replay"
           /\ replay.rows <= Rows /\ replay.tail <= Zeros
BY EdgeNumbers DEF IInv, TypeOK, SenderShape

LEMMA SendRemotelyKeepsIInv ==
    ASSUME IInv, SendRemotely
    PROVE  IInv'
BY OthersKeepIInv DEF IInv, TypeOK, SenderShape, SendRemotely

LEMMA ReplayRowKeepsIInv ==
    ASSUME IInv, ReplayRow
    PROVE  IInv'
<1>1. /\ replay # None /\ replay.rows > 0 /\ replay' = [replay EXCEPT !.rows = replay.rows - 1]
      /\ UNCHANGED <<remote, snap, row, owner, thread, line, held, blind, wedged,
                     setup, task, seen>>
  BY DEF ReplayRow
<1>2. PICK act \in Act : Send(act)
  BY DEF ReplayRow
<1>3. /\ replay' \in [rows : 0..Rows, tail : 0..Zeros] /\ replay'.tail = Zeros
      /\ replay' # None /\ setup = "replay"
  BY <1>1, ReplayFields, EdgeNumbers, NoneIsNoTask DEF IInv, SenderShape
<1> QED
  BY <1>1, <1>2, <1>3, EdgeNumbers, OthersKeepIInv

LEMMA ReplayTailKeepsIInv ==
    ASSUME IInv, ReplayTail
    PROVE  IInv'
<1>1. /\ replay # None /\ replay.rows = 0 /\ replay.tail > 0 /\ Send("zero")
      /\ replay' = [replay EXCEPT !.tail = replay.tail - 1]
      /\ UNCHANGED <<remote, snap, row, owner, thread, line, held, blind, wedged,
                     setup, task, seen>>
  BY DEF ReplayTail
<1>2. /\ replay' \in [rows : 0..Rows, tail : 0..Zeros] /\ replay'.rows = 0
      /\ replay' # None /\ setup = "replay"
  BY <1>1, ReplayFields, EdgeNumbers, NoneIsNoTask
<1> QED
  BY <1>1, <1>2, OthersKeepIInv DEF Act

LEMMA ReplayEndsKeepsIInv ==
    ASSUME IInv, ReplayEnds
    PROVE  IInv'
<1>1. /\ replay # None /\ replay.rows > 0 /\ replay' = [replay EXCEPT !.rows = 0]
      /\ UNCHANGED <<relayVars, setup, task, seen>>
  BY DEF ReplayEnds
<1>2. /\ replay' \in [rows : 0..Rows, tail : 0..Zeros] /\ replay'.rows = 0
      /\ replay'.tail = replay.tail /\ replay' # None /\ setup = "replay"
  BY <1>1, ReplayFields, EdgeNumbers, NoneIsNoTask
<1>3. RelayInv'
  BY <1>1, StutterKeepsRelayInv DEF IInv
<1>4. TypeOK'
  BY <1>1, <1>2, <1>3 DEF IInv, TypeOK, RelayInv
<1>5. SenderShape'
  BY <1>1, <1>2 DEF IInv, SenderShape, relayVars, history
<1>6. FixedShape'
  BY <1>1 DEF IInv, FixedShape, Measured
<1> QED
  BY <1>3, <1>4, <1>5, <1>6 DEF IInv

LEMMA ShutdownKeepsIInv ==
    ASSUME IInv, Shutdown
    PROVE  IInv'
<1>1. /\ owner = "running" /\ owner' = "closing" /\ row' = None
      /\ UNCHANGED <<remote, snap, thread, line, held, blind, wedged, setup, seen, replay>>
  BY DEF Shutdown, Leave
<1>2. CASE task = None
  <2>1. UNCHANGED <<queue, newest, task>>
    BY <1>2 DEF Shutdown
  <2>2. RelayInv'
    BY <1>1, <2>1, LeaveKeepsRelayInv DEF IInv, Shutdown
  <2>3. TypeOK'
    BY <1>1, <2>1, <2>2 DEF IInv, TypeOK, RelayInv
  <2>4. SenderShape'
    BY <1>1, <1>2, <2>1 DEF IInv, SenderShape
  <2>5. FixedShape'
    BY <2>1 DEF IInv, FixedShape, Measured
  <2> QED
    BY <2>2, <2>3, <2>4, <2>5 DEF IInv
<1>3. CASE task # None
  <2>1. setup \in {"control", "remote"} /\ Finish
    BY <1>3 DEF IInv, SenderShape, Shutdown
  <2> QED
    BY <1>1, <2>1, FinishKeepsIInv DEF IInv, TypeOK
<1> QED
  BY <1>2, <1>3

LEMMA TimePassesKeepsIInv ==
    ASSUME IInv, TimePasses
    PROVE  IInv'
<1>1. /\ Clock /\ task' = Passed(task)
      /\ seen' = [seen EXCEPT !.age = Older(seen.age, StateTimeout + 1)]
      /\ UNCHANGED <<setup, replay, remote, row, owner, newest>>
  BY DEF TimePasses, Clock
<1>2. RelayInv'
  BY <1>1, ClockKeepsRelayInv DEF IInv
<1>3. /\ task' \in FollowTask \cup FixedTask \cup {None}
      /\ task' = None <=> task = None
      /\ task # None => task'.kind = task.kind /\ task'.result = task.result
      /\ task \in FixedTask /\ Measured(task) => Measured(task')
  BY <1>1, PassedEffect DEF IInv, TypeOK
<1>4. seen' \in Fit
  <2>1. seen.age \in 0..(StateTimeout + 1) /\ seen \in Fit
    BY DEF IInv, TypeOK, Fit
  <2>2. Older(seen.age, StateTimeout + 1) \in 0..(StateTimeout + 1)
    BY <2>1, EdgeNumbers DEF Older
  <2> QED
    BY <1>1, <2>1, <2>2 DEF Fit
<1>5. TypeOK'
  BY <1>1, <1>2, <1>3, <1>4 DEF IInv, TypeOK, RelayInv
<1>6. SenderShape'
  BY <1>1, <1>3 DEF IInv, SenderShape
<1>7. task' \in FixedTask => task \in FixedTask
  BY <1>3, NoneIsNoTask, FollowFields, FixedFields DEF IInv, TypeOK
<1>8. FixedShape'
  BY <1>3, <1>7 DEF IInv, FixedShape
<1> QED
  BY <1>2, <1>5, <1>6, <1>8 DEF IInv

LEMMA NextKeepsIInv == IInv /\ [Next]_vars => IInv'
<1> SUFFICES ASSUME IInv, [Next]_vars
             PROVE  IInv'
  OBVIOUS
<1>1. CASE RelayRuns
  BY <1>1, RelayRunsKeepsIInv
<1>2. CASE Publish
  BY <1>2, PublishKeepsIInv
<1>3. CASE ObserveControl
  BY <1>3, ObserveControlKeepsIInv
<1>4. CASE ObserveRemote
  BY <1>4, ObserveRemoteKeepsIInv
<1>5. CASE Start
  BY <1>5, StartKeepsIInv
<1>6. CASE Cancel \/ Watchdog
  BY <1>6, CancelKeepsIInv DEF Watchdog
<1>7. CASE SendRemotely
  BY <1>7, SendRemotelyKeepsIInv
<1>8. CASE ReplayRow \/ ReplayEnds \/ ReplayTail
  BY <1>8, ReplayRowKeepsIInv, ReplayEndsKeepsIInv, ReplayTailKeepsIInv
<1>9. CASE Shutdown
  BY <1>9, ShutdownKeepsIInv
<1>10. CASE TimePasses
  BY <1>10, TimePassesKeepsIInv
<1>11. CASE UNCHANGED vars
  BY <1>11, StutterKeepsIInv
<1> QED
  BY <1>1, <1>2, <1>3, <1>4, <1>5, <1>6, <1>7, <1>8, <1>9, <1>10, <1>11 DEF Next

\* A sender that is through has sent a zero last, and the relay has read it.
LEMMA IInvRestsWhenDone == IInv => AtRestWhenDone
<1> SUFFICES ASSUME IInv, ~Driving, queue = <<>>, pc \in {"check", "select"}
             PROVE  line # "motion"
  BY DEF AtRestWhenDone
<1>1. setup \in {"network", "control", "remote", "replay"}
  BY EdgeAssumption DEF IInv, TypeOK
<1>2. setup # "network"
  BY DEF Driving
<1>3. ~remote
  BY <1>2 DEF IInv, SenderShape
<1>4. newest # "motion"
  <2>1. CASE setup = "replay"
    <3>1. ~(replay.rows > 0 \/ replay.tail > 0)
      BY <2>1 DEF Driving
    <3>2. replay # None
      BY <2>1 DEF IInv, SenderShape
    <3>3. replay.tail < Zeros
      BY <3>1, <3>2, ReplayFields, EdgeNumbers
    <3> QED
      BY <3>2, <3>3 DEF IInv, SenderShape
  <2>2. CASE setup \in {"control", "remote"}
    <3>1. ~(owner = "running" /\ task # None /\ task.result = "ACTIVE")
      BY <2>2 DEF Driving
    <3> QED
      BY <2>2, <3>1 DEF IInv, SenderShape
  <2> QED
    BY <1>1, <1>2, <2>1, <2>2
<1>5. newest # "zero" /\ newest # "zero_taking"
  BY DEF IInv, RelayInv, StopShape, JobShape
<1>6. newest \in {"nothing", "zero_taken", "zero_refused"}
  BY <1>4, <1>5 DEF IInv, TypeOK, RelayTypeOK
<1> QED
  BY <1>3, <1>6 DEF IInv, RelayInv, RestShape

LEMMA IInvMeasures == IInv => FixedActionReachesTargets
BY FollowFields DEF IInv, TypeOK, FixedShape, Measured, FixedActionReachesTargets

LEMMA StepsKeepTheEnd ==
    IInv /\ [Next]_vars =>
      (task # None /\ task' # None /\ task.kind = "follow" /\ task.result # "ACTIVE"
         => task'.result = task.result /\ newest' # "motion")
<1> SUFFICES ASSUME IInv, [Next]_vars, task # None, task' # None, task.result # "ACTIVE"
             PROVE  task'.result = task.result /\ newest' # "motion"
  OBVIOUS
<1>1. setup = "control" /\ newest # "motion"
  BY DEF IInv, SenderShape
<1>2. CASE ObserveControl
  BY <1>1, <1>2, ObserveControlEffect
<1>3. CASE RelayRuns
  BY <1>1, <1>3, RelaySendsNothing DEF RelayRuns
<1>4. CASE TimePasses
  BY <1>1, <1>4, PassedEffect DEF IInv, TypeOK, TimePasses, Clock
<1>5. CASE Publish \/ ReplayEnds \/ UNCHANGED vars
  BY <1>1, <1>5 DEF Publish, ReplayEnds, vars, relayVars, history
<1>6. CASE Start \/ ObserveRemote \/ Cancel \/ Watchdog \/ SendRemotely
  BY <1>1, <1>6 DEF Start, ObserveRemote, Cancel, Watchdog, SendRemotely
<1>7. CASE ReplayRow \/ ReplayTail
  BY <1>1, <1>7 DEF ReplayRow, ReplayTail, IInv, SenderShape
<1>8. CASE Shutdown
  BY <1>8 DEF Shutdown, Finish
<1> QED
  BY <1>2, <1>3, <1>4, <1>5, <1>6, <1>7, <1>8 DEF Next

-----------------------------------------------------------------------------
(* The theorems.                                                           *)

\* The parts of the invariant hold in every state of every execution.
THEOREM AlwaysIInv == Spec => []IInv
<1>1. Init => IInv
  BY InitEstablishesIInv
<1>2. IInv /\ [Next]_vars => IInv'
  BY NextKeepsIInv
<1> QED
  BY <1>1, <1>2, PTL DEF Spec

\* The variables of the relay, of the runtimes and of the replay keep their types.
THEOREM ControlTypeCorrectness == Spec => []TypeOK
<1>1. IInv => TypeOK
  BY DEF IInv
<1> QED
  BY <1>1, AlwaysIInv, PTL

\* _active_command_must_stop: whatever the network loses, doubles or reorders and
\* however the wall clock jumps, motion ends with its lease or its telemetry.
THEOREM MotionAlwaysStopsInTime == Spec => []MotionStopsInTime
<1>1. IInv => MotionStopsInTime
  BY RelayInvImplies DEF IInv
<1> QED
  BY <1>1, AlwaysIInv, PTL

\* _last_seq: once _apply_payload has accepted the newest zero, no older motion that
\* is still on its way moves the machine again.
THEOREM AcceptedStopIsAlwaysFinal == Spec => []StopIsFinal
<1>1. IInv => StopIsFinal
  BY RelayInvImplies DEF IInv
<1> QED
  BY <1>1, AlwaysIInv, PTL

\* The finally of _run and close(): the relay does not end with motion on the line.
THEOREM ClosedAlwaysMeansZero == Spec => []ClosedMeansZero
<1>1. IInv => ClosedMeansZero
  BY RelayInvImplies DEF IInv
<1> QED
  BY <1>1, AlwaysIInv, PTL

\* Every way in which a sender ends, _finish and the zero tail of a replay among
\* them, leaves the machine at rest once the relay has read what was sent.
THEOREM AlwaysAtRestWhenDone == Spec => []AtRestWhenDone
<1>1. IInv => AtRestWhenDone
  BY IInvRestsWhenDone
<1> QED
  BY <1>1, AlwaysIInv, PTL

\* FixedActionRuntime.step holds, and so advances, for axes it has seen in place.
THEOREM FixedActionAlwaysReachesTargets == Spec => []FixedActionReachesTargets
<1>1. IInv => FixedActionReachesTargets
  BY IInvMeasures
<1> QED
  BY <1>1, AlwaysIInv, PTL

\* The end of a follow runtime that goes on being stepped is sticky and silent.
THEOREM EndIsAlwaysFinal == Spec => EndIsFinal
<1>1. IInv /\ [Next]_vars =>
        [task # None /\ task' # None /\ task.kind = "follow" /\ task.result # "ACTIVE"
           => task'.result = task.result /\ newest' # "motion"]_vars
  BY StepsKeepTheEnd
<1>2. Spec => [][Next]_vars
  BY DEF Spec
<1> QED
  BY <1>1, <1>2, AlwaysIInv, PTL DEF EndIsFinal

=============================================================================
