----------------------------- MODULE EdgeControl ----------------------------
(***************************************************************************)
(* Who sends to the ActionRelay: EdgeControlRunner over EdgeFollowRuntime  *)
(* for the life of the process (mode "control"), the behaviours that       *)
(* EdgeBehaviorExecutor runs one after another (mode "remote_control"), the*)
(* CSV replay process, and a sender across the network.  EdgeCycle has the *)
(* requests, sessions and locks of the executor; here its runners and      *)
(* their runtimes are modelled instead.                                    *)
(*                                                                         *)
(* Poses are abstracted to what a step asks of them: is the tip within the *)
(* tolerance of the current waypoint, which axes are within the tolerance  *)
(* of the step's targets.  One axis stands for the four of the slew limiter,*)
(* in multiples of the steady change per unit of time.  Where a call sends *)
(* two zeros with nothing between them one is modelled.                    *)
(***************************************************************************)
EXTENDS ActionRelay

CONSTANTS
    Setup,      \* the senders to explore
    Lengths,    \* waypoints of a trajectory
    Tracking,   \* tracking_timeout_s, in units
    Top,        \* the largest normalized action, in levels
    Startup,    \* levels per unit of the startup slew rate (the steady rate is 1)
    Axes,
    Targets,    \* the fixed action: for each step the axes it has a target for
    StepTimeout,
    Hold,       \* hold_s, in units
    Rows,       \* bound: rows of a replay
    Zeros       \* zero_tail_count

ASSUME EdgeAssumption ==
    /\ Setup \subseteq {"network", "control", "remote", "replay"}
    /\ Lengths \subseteq Nat \ {0} /\ Tracking \in Nat \ {0}
    /\ Top \in Nat \ {0} /\ Startup \in Nat \ {0}
    /\ Targets \in Seq(SUBSET Axes) /\ Targets # <<>>
    /\ StepTimeout \in Nat \ {0} /\ Hold \in Nat
    /\ Rows \in Nat \ {0} /\ Zeros \in Nat \ {0}

VARIABLES
    setup,
    task,       \* the runtime that is stepped with every row, None if there is none
    seen,       \* executor._latest_safety: fit for motion or not, and its age
    replay      \* the replay process

vars == <<relayVars, setup, task, seen, replay>>

Level == (-Top)..Top
Fit == [fit : BOOLEAN, age : 0..(StateTimeout + 1)]
FollowTask ==
    [kind : {"follow"}, single : BOOLEAN, points : Lengths \cup {3}, at : Nat,
     left : (0..Tracking) \cup {None}, level : Level, given : Level,
     boost : BOOLEAN, since : (0..(2 * Top)) \cup {None}, moved : BOOLEAN,
     result : {"ACTIVE", "COMPLETED", "TIMEOUT"}]
FixedTask ==
    [kind : {"fixed"}, checked : BOOLEAN, at : 1..Len(Targets),
     left : (0..StepTimeout) \cup {None}, hold : (0..Hold) \cup {None},
     latched : SUBSET Axes, reached : SUBSET Axes,
     result : {"ACTIVE", "COMPLETED", "TIMEOUT"}]

ASSUME NoTaskAssumption ==
    None \notin FollowTask \cup FixedTask \cup [rows : 0..Rows, tail : 0..Zeros]

TypeOK ==
    /\ RelayTypeOK
    /\ setup \in Setup
    /\ task \in FollowTask \cup FixedTask \cup {None}
    /\ seen \in Fit
    /\ replay \in [rows : 0..Rows, tail : 0..Zeros] \cup {None}

\* EdgeFollowRuntime.__init__: the factory of the remote mode starts the slew clock
\* at once, the static construction leaves it to the first state.
FollowFrom(points, since) ==
    [kind |-> "follow", single |-> points = 1, points |-> points, at |-> 1,
     left |-> None, level |-> 0, given |-> 0, boost |-> TRUE, since |-> since,
     moved |-> FALSE, result |-> "ACTIVE"]

\* FixedActionRuntime.__init__
FixedFrom ==
    [kind |-> "fixed", checked |-> FALSE, at |-> 1, left |-> None, hold |-> None,
     latched |-> {}, reached |-> {}, result |-> "ACTIVE"]

Init ==
    /\ RelayInit
    /\ setup \in Setup
    /\ remote = (setup = "network")
    /\ task \in (IF setup = "control" THEN {FollowFrom(n, None) : n \in Lengths} ELSE {None})
    /\ seen = [fit |-> FALSE, age |-> 0]
    /\ replay = IF setup = "replay" THEN [rows |-> Rows, tail |-> Zeros] ELSE None

-----------------------------------------------------------------------------
(* One step of EdgeFollowRuntime on a state it accepts.                    *)

Size(n) == IF n < 0 THEN -n ELSE n

\* slew_limited_normalized_action, for one axis.
Toward(target, from, by) == Most(from - by, Least(from + by, target))

\* dual_rate_slew_limited_normalized_action, for one axis: its startup rate holds
\* while it grows from zero towards its first target.
Growing(target, from) == target # 0 /\ from * target >= 0 /\ Size(target) >= Size(from)

Commanded(t, wish) ==
    LET elapsed == IF t.since = None THEN 0
                   ELSE IF t.moved THEN t.since ELSE Least(t.since, 1)
        fast == t.boost /\ Growing(wish, t.level)
        level == Toward(wish, t.level, IF fast THEN Startup * elapsed ELSE elapsed)
    IN  [t EXCEPT !.level = level, !.given = level, !.moved = TRUE,
                  !.boost = @ /\ (wish = 0 \/ (fast /\ level # wish))]

\* _expand_fixed_endpoint_from: a single endpoint out of reach becomes three points,
\* of which the tip is the first.
Expands(t, near) == t.single /\ ~near
Expanded(t, near) ==
    [t EXCEPT !.single = FALSE, !.points = IF Expands(t, near) THEN 3 ELSE @]

\* WaypointTracker.advance
Tracked(t, near) ==
    IF ~near THEN t
    ELSE IF t.at = t.points THEN [t EXCEPT !.result = "COMPLETED"]
    ELSE [t EXCEPT !.at = @ + 1]

\* Mutant: a step after the end looks at the clock and the waypoint again.
FollowStepRestless(t, near, wish) ==
    LET left == IF t.left = None THEN Tracking ELSE t.left
        tracked == IF left = 0 THEN [t EXCEPT !.result = "TIMEOUT"]
                   ELSE Tracked(Expanded(t, near), near \/ Expands(t, near))
        moved == IF tracked.result = "ACTIVE" THEN Commanded(tracked, wish)
                 ELSE [tracked EXCEPT !.given = 0]
    IN  [moved EXCEPT !.left = left, !.since = 0]

FollowStep(t, near, wish) ==
    LET left == IF t.left = None THEN Tracking ELSE t.left
        tracked ==
            IF t.result # "ACTIVE" THEN t
            ELSE IF left = 0 THEN [t EXCEPT !.result = "TIMEOUT"]
            ELSE Tracked(Expanded(t, near), near \/ Expands(t, near))
        moved == IF tracked.result = "ACTIVE" THEN Commanded(tracked, wish)
                 ELSE [tracked EXCEPT !.given = 0]
    IN  [moved EXCEPT !.left = left, !.since = 0]

-----------------------------------------------------------------------------
(* One step of FixedActionRuntime on a state it accepts.                   *)

\* Mutant: the latches of a step are those of the next one too.
AdvanceLatched(t) ==
    [t EXCEPT !.at = Least(@ + 1, Len(Targets)), !.left = None, !.hold = None,
              !.reached = {}, !.result = IF t.at = Len(Targets) THEN "COMPLETED" ELSE @]

\* _advance, and the completion that step() finds after it.
Advance(t) ==
    [t EXCEPT !.at = Least(@ + 1, Len(Targets)), !.left = None, !.hold = None,
              !.latched = {}, !.reached = {},
              !.result = IF t.at = Len(Targets) THEN "COMPLETED" ELSE @]

\* The part of step() that measures the axes: "on" are within tolerance.
Servo(t, on) ==
    LET left == IF t.left = None THEN StepTimeout ELSE t.left
        found == on \cap Targets[t.at]
        latched == t.latched \cup found
    IN  IF left = 0 THEN [t EXCEPT !.left = left, !.result = "TIMEOUT"]
        ELSE [t EXCEPT !.left = left, !.latched = latched, !.reached = @ \cup found,
                       !.hold = IF Targets[t.at] \subseteq latched THEN Hold ELSE @]

FixedStep(t, on) ==
    LET ready == [t EXCEPT !.checked = TRUE]
        next == IF ready.hold = 0 THEN Advance(ready) ELSE ready
    IN  IF next.hold # None \/ next.result # "ACTIVE" THEN next ELSE Servo(next, on)

\* The actions a step may dispatch.  A command within an actuator's dead zone is a
\* zero; a step that holds, or has ended, sends one.
Dispatched(t) ==
    IF \/ t.result # "ACTIVE"
       \/ t.kind = "follow" /\ t.level = 0
       \/ t.kind = "fixed" /\ t.hold # None
    THEN {"zero"} ELSE Act

-----------------------------------------------------------------------------
(* The owner loop observes the row it has published.                       *)

\* What a step may make of the row, or None where it raises: at a sequence number or
\* a position it does not take, or a start outside the envelope.  Follow validates the
\* safety of every state; a fixed action does not look at it.
Steps(t) ==
    {None} \cup
    CASE t.kind = "follow" /\ row = "safe" ->
           {FollowStep(t, near, wish) : near \in BOOLEAN, wish \in Level}
      [] t.kind = "follow" /\ row # "safe" -> {}
      [] t.kind = "fixed" -> {FixedStep(t, on) : on \in SUBSET Axes}

\* EdgeControlRunner.observe in mode "control": a rejected state sends a zero, and
\* the runtime stays as it is for the next one.
ObserveControl ==
    /\ setup = "control" /\ row # None
    /\ \E t \in Steps(task) :
         IF t = None
         THEN Send("zero") /\ task' = [task EXCEPT !.given = 0]
         ELSE (\E act \in Dispatched(t) : Send(act)) /\ task' = t
    /\ row' = None
    /\ UNCHANGED <<remote, snap, owner, thread, line, held, blind, wedged, setup, seen, replay>>

\* executor._finish closes the runner, whose zero is not a matter of the outcome.
Finish == Send("zero") /\ task' = None

\* executor.observe in mode "remote_control", with EdgeControlRunner.observe or
\* FixedActionControlRunner.observe within.
ObserveRemote ==
    /\ setup = "remote" /\ row # None
    /\ seen' = [fit |-> row = "safe" /\ is_healthy, age |-> 0]
    /\ IF task = None THEN UNCHANGED <<queue, newest, task>>
       ELSE \E t \in Steps(task) :
              IF t = None \/ (t # None /\ t.result # "ACTIVE")
              THEN Finish
              ELSE (\E act \in Dispatched(t) : Send(act)) /\ task' = t
    /\ row' = None
    /\ UNCHANGED <<remote, snap, owner, thread, line, held, blind, wedged, setup, replay>>

Publish ==
    /\ \E kind \in Row \cup {"lost"} : PublishRow(kind, setup \in {"control", "remote"})
    /\ UNCHANGED <<remote, queue, owner, thread, line, newest, held, wedged,
                   setup, task, seen, replay>>

-----------------------------------------------------------------------------
(* Requests to the executor, on a connection's thread.                     *)

GateOpen == seen.fit /\ seen.age <= StateTimeout

Start ==
    /\ setup = "remote" /\ owner = "running"
    /\ task = None /\ GateOpen
    /\ task' \in {FollowFrom(n, 0) : n \in Lengths} \cup {FixedFrom}
    /\ UNCHANGED <<relayVars, setup, seen, replay>>

\* Mutant: a cancelled runner is dropped and not closed.
CancelSilently ==
    /\ task # None /\ setup = "remote" /\ owner = "running"
    /\ task' = None
    /\ UNCHANGED <<relayVars, setup, seen, replay>>

Cancel ==
    /\ task # None /\ setup = "remote" /\ owner = "running"
    /\ Finish
    /\ UNCHANGED <<remote, snap, row, owner, thread, line, held, blind, wedged,
                   setup, seen, replay>>

\* The watchdog of a connection that polls.
Watchdog ==
    /\ ~GateOpen
    /\ Cancel

-----------------------------------------------------------------------------
(* Other senders, the end of the process, time.                            *)

\* A sender across the network sends what it likes.
SendRemotely ==
    /\ setup = "network"
    /\ \E act \in Act : Send(act)
    /\ UNCHANGED <<remote, snap, row, owner, thread, line, held, blind, wedged,
                   setup, task, seen, replay>>

\* replay_samples: the next row of the file, ...
ReplayRow ==
    /\ replay # None /\ replay.rows > 0
    /\ \E act \in Act : Send(act)
    /\ replay' = [replay EXCEPT !.rows = @ - 1]
    /\ UNCHANGED <<remote, snap, row, owner, thread, line, held, blind, wedged,
                   setup, task, seen>>

\* ... the exception of a scheduler that lags, or of Ctrl+C, ...
ReplayEnds ==
    /\ replay # None /\ replay.rows > 0
    /\ replay' = [replay EXCEPT !.rows = 0]
    /\ UNCHANGED <<relayVars, setup, task, seen>>

\* ... and its zeros.
ReplayTail ==
    /\ replay # None /\ replay.rows = 0 /\ replay.tail > 0
    /\ Send("zero")
    /\ replay' = [replay EXCEPT !.tail = @ - 1]
    /\ UNCHANGED <<remote, snap, row, owner, thread, line, held, blind, wedged,
                   setup, task, seen>>

\* The owner's finally: the executor's behaviour or the control runner is closed
\* with a zero, then the relay.
Shutdown ==
    /\ Leave
    /\ IF task = None THEN UNCHANGED <<queue, newest, task>> ELSE Finish
    /\ UNCHANGED <<remote, snap, thread, line, held, blind, wedged, setup, seen, replay>>

Passed(t) ==
    IF t = None THEN None
    ELSE IF t.kind = "follow"
    THEN [t EXCEPT !.left = IF @ \in {None, 0} THEN @ ELSE @ - 1,
                   !.since = IF @ = None THEN None ELSE Least(@ + 1, 2 * Top)]
    ELSE [t EXCEPT !.left = IF @ \in {None, 0} THEN @ ELSE @ - 1,
                   !.hold = IF @ \in {None, 0} THEN @ ELSE @ - 1]

TimePasses ==
    /\ Clock
    /\ task' = Passed(task)
    /\ seen' = [seen EXCEPT !.age = Older(@, StateTimeout + 1)]
    /\ UNCHANGED <<setup, replay>>

RelayRuns == RelayNext /\ UNCHANGED <<setup, task, seen, replay>>

Next ==
    \/ RelayRuns \/ Publish \/ ObserveControl \/ ObserveRemote
    \/ Start \/ Cancel \/ Watchdog
    \/ SendRemotely \/ ReplayRow \/ ReplayEnds \/ ReplayTail
    \/ Shutdown \/ TimePasses

Spec == Init /\ [][Next]_vars

-----------------------------------------------------------------------------
(* Properties.                                                             *)

\* Somebody on this machine still has motion to send.
Driving ==
    CASE setup = "network" -> TRUE
      [] setup = "replay" -> replay.rows > 0 \/ replay.tail > 0
      [] OTHER -> owner = "running" /\ task # None /\ task.result = "ACTIVE"

\* A sender that is through leaves the machine at rest: a behaviour that succeeded,
\* failed, timed out or was cancelled, a process that shuts down and a replay that
\* ended or was interrupted have each sent a last zero, and once the relay has read
\* it, whatever it makes of its stamp and of the safety of the moment, nothing moves.
AtRestWhenDone ==
    ~Driving /\ queue = <<>> /\ pc \in {"check", "select"} => line # "motion"

\* A fixed action leaves a step, and so succeeds, only if every axis that the step
\* has a target for was seen there during that very step.
FixedActionReachesTargets ==
    task # None /\ task.kind = "fixed" /\ task.hold # None =>
        Targets[task.at] \subseteq task.reached

\* COMPLETED and TIMEOUT are sticky: the runtime of mode "control", which is stepped
\* with every row until the process ends, never leaves them, nor is motion sent.
EndIsFinal ==
    [][task # None /\ task' # None /\ task.kind = "follow" /\ task.result # "ACTIVE"
         => task'.result = task.result /\ newest' # "motion"]_vars

\* The limiter bounds every change of the command, but for the drop to zero: from
\* one update to the next it is no more than the faster of the two rates allows in
\* the time since the last accepted state, or in one unit if that was shorter.
RampHolds ==
    [][task # None /\ task' # None /\ task.kind = "follow" /\ task.since # None =>
         \/ task'.given = 0
         \/ Size(task'.given - task.given) <= Most(1, Startup) * Most(1, task.since)]_vars
=============================================================================
