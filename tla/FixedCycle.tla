----------------------------- MODULE FixedCycle -----------------------------
(***************************************************************************)
(* The Orin-local mission of several cycles: ResidentFixedCycle and its    *)
(* coordinator (edge_runtime/resident_fixed_cycle.py), the runtime that    *)
(* drives them (resident_fixed_cycle_runtime.py), the control server's     *)
(* thread (resident_fixed_cycle_control.py) and the owner loop of          *)
(* orin_state_sender.py.                                                   *)
(*                                                                         *)
(* The motion core is reduced to what the runtime sees of it: whether it   *)
(* is operational, who holds or claims motion, the ACT segment and the     *)
(* mission lease (ResidentCore has the detail).  The executor is reduced   *)
(* to its one active behaviour and its request sequence.                   *)
(*                                                                         *)
(* The runtime's lock is held across steps only by a start that is about   *)
(* to dispatch ("launch"), the executor's only by the owner between an     *)
(* observation and the runtime's event handler ("event").  A call that     *)
(* takes both without waiting in between is one step.                      *)
(***************************************************************************)
EXTENDS Integers, SequencesExt

CONSTANTS
    RunId,      \* mission ids the PC uses
    Group,      \* dig groups of the plan, a group being its number of points
    MaxCycles,
    None

ASSUME PlanAssumption ==
    /\ Group # {} /\ Group \subseteq Nat \ {0}
    /\ MaxCycles \in Nat \ {0}

VARIABLES
    profile,    \* the plan's mission_profile
    \* ResidentFixedCycle, ResidentFixedCycleCoordinator
    cycle,      \* _snapshot, with the dig group and the first dig point's index
    latch,      \* _terminal_disarmed
    \* ResidentFixedCycleRuntime
    pending,    \* _pending: the child that waits for RL authority
    session,    \* _session_id
    resumed,    \* _request_sequence is not 0: the session has made a request
    actGen,     \* _active_act_generation
    actWas,     \* _act_was_active
    waited,     \* activation_timeout_s has passed since the last activation began
    receipt,    \* since _terminal_disarmed_s: None, "fresh", or "over" (the grace)
    \* EdgeBehaviorExecutor
    running,    \* the behaviour of _active
    spent,      \* the sessions of _last_request_sequences
    event,      \* the event that the owner's observe emits, holding the lock
    \* ResidentMotionCore, ResidentActDataLink
    live, auth, claim, seg, lease, worker,
    \* the owner's and the control thread
    pc,
    work        \* history: the children that succeeded in this mission

mission == <<cycle, latch>>
activation == <<actGen, actWas, waited>>
executor == <<running, spent>>
motion == <<live, auth, claim>>
vars == <<profile, mission, pending, session, resumed, activation, receipt, executor,
          event, motion, seg, lease, worker, pc, work>>

Profile == {"regime_factorized", "act_full_cycle"}

\* "ACT" is ACT_DIG or ACT_FULL_CYCLE, by the profile.
Active == {"FOLLOW_DIG", "ACT", "FOLLOW_DUMP", "EXECUTE_DUMP"}
Terminal == {"COMPLETED", "FAILED", "CANCELLED"}

\* A child is known by the stage it serves and the dig point of its cycle.
Points == UNION {0..(g - 1) : g \in Group}
Child == [stage : Active, point : Points]
Outcome == {"SUCCEEDED", "FAILED", "CANCELLED"}

\* What the owner's observe emits, and who may have motion authority.
Event == [do : {"feedback"}]
    \cup [do : {"result"}, child : Child, outcome : Outcome, quiescent : BOOLEAN]
Policy == {"rl", "act"}

ASSUME NoneAssumption == None \notin Child \cup Event \cup Policy

Idle == [stage |-> "IDLE", requested |-> 0, completed |-> 0,
         group |-> 0, first |-> 0, point |-> 0]

TypeOK ==
    /\ profile \in Profile
    /\ cycle \in [stage : Active \cup Terminal \cup {"IDLE"},
                  requested : 0..MaxCycles, completed : 0..MaxCycles,
                  group : Group \cup {0}, first : Points, point : Points]
    /\ cycle.completed <= cycle.requested
    /\ latch \in BOOLEAN
    /\ pending \in Child \cup {None}
    /\ session \in RunId \cup {None} /\ resumed \in BOOLEAN
    /\ actGen \in Nat \cup {None} /\ actWas \in BOOLEAN /\ waited \in BOOLEAN
    /\ receipt \in {None, "fresh", "over"}
    /\ running \in Child \cup {None} /\ spent \subseteq RunId
    /\ event \in Event \cup {None}
    /\ event # None <=> pc.owner = "event"
    /\ live \in BOOLEAN /\ worker \in BOOLEAN
    /\ auth \in Policy \cup {None} /\ claim \in Policy \cup {None}
    /\ auth # None => live /\ claim = None
    /\ seg \in [gen : Nat, done : BOOLEAN]
    /\ lease \in {None, "fresh", "expired"}
    /\ pc \in [owner : {"top", "row", "observe", "event", "tick", "ended"},
               control : {"idle", "launch"}]
    /\ work \in Seq(Child)

\* The first telemetry frame has initialised the core; the PC has not called yet.
Init ==
    /\ profile \in Profile
    /\ cycle = Idle /\ latch = FALSE
    /\ pending = None /\ session = None /\ resumed = FALSE
    /\ actGen = None /\ actWas = FALSE /\ waited = FALSE /\ receipt = None
    /\ running = None /\ spent = {} /\ event = None
    /\ live = TRUE /\ auth = None /\ claim = None
    /\ seg = [gen |-> 0, done |-> FALSE]
    /\ lease = None /\ worker = TRUE
    /\ pc = [owner |-> "top", control |-> "idle"]
    /\ work = <<>>

-----------------------------------------------------------------------------
(* The state machine of the mission.                                       *)

\* The child that the stage of c calls for.
Due(c) == [stage |-> c.stage, point |-> c.point]

\* Mutant: the dig point moves on after the last cycle, too.
ReturnPastLast(c) ==
    [c EXCEPT !.stage = "FOLLOW_DIG", !.completed = @ + 1,
              !.point = (@ + 1) % c.group]

\* _return_to_dig_after_completed_cycle.
ReturnToDig(c) ==
    [c EXCEPT !.stage = "FOLLOW_DIG", !.completed = @ + 1,
              !.point = IF c.completed + 1 < c.requested THEN (@ + 1) % c.group ELSE @]

\* Mutant: the follow that returns to the dig point begins one cycle more.
AdvancedForever(c) ==
    CASE c.stage = "FOLLOW_DIG" -> [c EXCEPT !.stage = "ACT"]
      [] c.stage = "ACT" ->
           IF profile = "act_full_cycle" THEN ReturnToDig(c)
                                         ELSE [c EXCEPT !.stage = "FOLLOW_DUMP"]
      [] c.stage = "FOLLOW_DUMP" -> [c EXCEPT !.stage = "EXECUTE_DUMP"]
      [] c.stage = "EXECUTE_DUMP" -> ReturnToDig(c)

\* record_child_result, for a child that succeeded.
Advanced(c) ==
    CASE c.stage = "FOLLOW_DIG" ->
           [c EXCEPT !.stage = IF c.completed = c.requested THEN "COMPLETED" ELSE "ACT"]
      [] c.stage = "ACT" ->
           IF profile = "act_full_cycle" THEN ReturnToDig(c)
                                         ELSE [c EXCEPT !.stage = "FOLLOW_DUMP"]
      [] c.stage = "FOLLOW_DUMP" -> [c EXCEPT !.stage = "EXECUTE_DUMP"]
      [] c.stage = "EXECUTE_DUMP" -> ReturnToDig(c)

-----------------------------------------------------------------------------
(* The runtime as driver of its children.  The caller is the owner or the  *)
(* control thread; an exception ends the owner's loop, and is a refusal of *)
(* the request on the control thread.                                      *)

Leave(t, raised) ==
    pc' = [pc EXCEPT ![t] =
             CASE t = "control" -> "idle"
               [] t = "owner" /\ raised -> "ended"
               [] t = "owner" /\ ~raised -> IF pc.owner = "event" THEN "tick" ELSE "top"]

\* Mutant: the mission ends and the core keeps its authority.
DisarmForgotten(written) == UNCHANGED <<latch, pending, receipt, motion>>

\* The coordinator's _terminal_disarm through the runtime's: the zero that the core
\* writes may fail, which also ends the core, and then no receipt is kept.
Disarm(written) ==
    IF latch
    THEN UNCHANGED <<latch, pending, receipt, motion>>
    ELSE /\ ~written => live
         /\ pending' = None
         /\ live' = FALSE /\ auth' = None /\ claim' = None
         /\ receipt' = IF written THEN "fresh" ELSE receipt
         /\ latch' = written

\* A result ends the mission c: first the stage, then the disarm.
End(t, c, stage) ==
    \E written \in BOOLEAN :
      /\ Disarm(written)
      /\ cycle' = [c EXCEPT !.stage = stage]
      /\ Leave(t, ~written)

\* The coordinator's fail and cancel: first the disarm, then the stage.
Abort(t, stage) ==
    \E written \in BOOLEAN :
      /\ Disarm(written)
      /\ cycle' = IF written THEN [cycle EXCEPT !.stage = stage] ELSE cycle
      /\ Leave(t, ~written)

\* The except clause of _dispatch: the mission has failed and the call raises.
DispatchFails(t, c, written) ==
    /\ Disarm(written)
    /\ cycle' = [c EXCEPT !.stage = "FAILED"]
    /\ Leave(t, TRUE)
    /\ UNCHANGED <<resumed, executor, seg, activation>>

DispatchFailed(t, c) == \E written \in BOOLEAN : DispatchFails(t, c, written)

\* The zero that begins a handoff cannot be written: the line is at fault and the
\* core ends, for which the disarm then has nothing to write.
HandoffFails(t, c) == DispatchFails(t, c, TRUE)

\* executor.handle of the next request.  A session numbers its requests from 1 on,
\* so one that is started again repeats numbers.  A refusal (sequence, gate,
\* trajectory) is an event, which fails the mission before the call is back.
Launch(t, c, child) ==
    /\ resumed' = TRUE
    /\ spent' = spent \cup {session}
    /\ UNCHANGED <<seg, activation>>
    /\ \/ /\ resumed \/ session \notin spent
          /\ running' = child
          /\ cycle' = c
          /\ pending' = None
          /\ Leave(t, FALSE)
          /\ UNCHANGED <<latch, receipt, motion>>
       \/ /\ UNCHANGED running
          /\ End(t, c, "FAILED")

\* activate_act: the ACT worker's data link is up and no RL behaviour runs.
ActivateAct(t, c) ==
    IF worker /\ running = None /\ live
    THEN \/ /\ cycle' = c
            /\ auth' = None /\ claim' = "act"
            /\ seg' = [gen |-> seg.gen + 1, done |-> FALSE]
            /\ actGen' = seg.gen + 1 /\ actWas' = FALSE /\ waited' = FALSE
            /\ Leave(t, FALSE)
            /\ UNCHANGED <<latch, pending, receipt, live, resumed, executor>>
         \/ HandoffFails(t, c)
    ELSE DispatchFailed(t, c)

\* start_follow and start_fixed_action.
ActivateBehavior(t, c) ==
    CASE pending # None \/ (auth # "rl" /\ ~live) -> DispatchFailed(t, c)
      [] pending = None /\ auth = "rl" /\ running = None -> Launch(t, c, Due(c))
      [] OTHER ->
           \/ /\ cycle' = c
              /\ pending' = Due(c) /\ waited' = FALSE
              /\ auth' = IF auth = "rl" THEN auth ELSE None
              /\ claim' = IF auth = "rl" THEN claim ELSE "rl"
              /\ Leave(t, FALSE)
              /\ UNCHANGED <<latch, receipt, live, resumed, executor, seg, actGen, actWas>>
           \/ "rl" \notin {auth, claim} /\ HandoffFails(t, c)

\* _dispatch_unchecked.
Dispatch(t, c) ==
    IF c.stage = "ACT" THEN ActivateAct(t, c) ELSE ActivateBehavior(t, c)

\* The coordinator's record_child_result for the child that the stage calls for.
Succeed(t) ==
    IF Advanced(cycle).stage = "COMPLETED"
    THEN End(t, cycle, "COMPLETED") /\ UNCHANGED <<resumed, executor, seg, activation>>
    ELSE Dispatch(t, Advanced(cycle))

-----------------------------------------------------------------------------
(* The control thread, for the PC.  No other thread holds the runtime's    *)
(* lock across steps.                                                      *)

\* The loop has not ended, and with it the process.
Alive == pc.owner # "ended"

CoreStop == live' = FALSE /\ auth' = None /\ claim' = None

\* The machine is found unsafe, or telemetry too old: the sink revokes motion and the
\* core may go on, or it ends.
Lost ==
    \/ CoreStop
    \/ live' = live /\ auth' = None /\ claim' = None

\* renew_mission_lease: a lease that has passed disarms the core instead.
RenewRefused ==
    /\ \/ ~live /\ UNCHANGED motion
       \/ live /\ lease = "expired" /\ CoreStop
    /\ UNCHANGED lease

Renewed ==
    /\ live /\ lease # "expired"
    /\ lease' = "fresh"

\* What start does before it knows whether it will be refused.
ResetSession(r) ==
    /\ Alive /\ pc.control = "idle"
    /\ session' = r /\ resumed' = FALSE
    /\ actGen' = None /\ actWas' = FALSE /\ waited' = FALSE
    /\ UNCHANGED <<profile, executor, event, seg, worker>>

\* The cycle of a mission that has been ordered.
NewCycle(stage, n, g, first) ==
    [stage |-> stage, requested |-> n, completed |-> 0,
     group |-> g, first |-> first, point |-> first]

\* Mutant: a mission that is under way may be started over.
StartMissionOver(r, n, g, first) ==
    /\ ResetSession(r)
    /\ Renewed
    /\ cycle' = NewCycle("FOLLOW_DIG", n, g, first)
    /\ latch' = FALSE /\ receipt' = None
    /\ pending' = Due(cycle')
    /\ auth' = IF auth = "rl" THEN auth ELSE None
    /\ claim' = IF auth = "rl" THEN claim ELSE "rl"
    /\ pc' = [pc EXCEPT !.control = "launch"]
    /\ work' = <<>>
    /\ UNCHANGED live

\* start and the coordinator's start, up to the claim of start_follow.
StartMission(r, n, g, first) ==
    /\ ResetSession(r)
    /\ Renewed
    /\ cycle.stage \notin Active
    /\ cycle' = NewCycle("FOLLOW_DIG", n, g, first)
    /\ latch' = FALSE /\ receipt' = None
    /\ pending' = Due(cycle')
    /\ auth' = IF auth = "rl" THEN auth ELSE None
    /\ claim' = IF auth = "rl" THEN claim ELSE "rl"
    /\ pc' = [pc EXCEPT !.control = "launch"]
    /\ work' = <<>>
    /\ UNCHANGED live

\* The claim cannot be written: the mission has failed before it began.
StartFails(r, n, g, first) ==
    /\ ResetSession(r)
    /\ Renewed
    /\ cycle.stage \notin Active
    /\ "rl" \notin {auth, claim}
    /\ cycle' = NewCycle("FAILED", n, g, first)
    /\ CoreStop
    /\ latch' = TRUE /\ receipt' = "fresh"
    /\ pending' = None
    /\ work' = <<>>
    /\ UNCHANGED pc

\* No lease, a mission under way, or a dig group or point that is not in the plan.
StartRefused(r) ==
    /\ ResetSession(r)
    /\ pending' = None /\ receipt' = None
    /\ \/ RenewRefused /\ UNCHANGED latch
       \/ Renewed /\ latch' = FALSE /\ UNCHANGED motion
    /\ UNCHANGED <<cycle, pc, work>>

\* start_follow goes on to dispatch: it asks the executor only if RL is active.
FinishStart ==
    /\ Alive /\ pc.control = "launch"
    /\ auth = "rl" => pc.owner # "event"
    /\ IF auth # "rl" \/ running # None
       THEN /\ Leave("control", FALSE)
            /\ UNCHANGED <<mission, pending, receipt, motion, resumed, executor, seg, activation>>
       ELSE IF waited
       THEN Abort("control", "FAILED") /\ UNCHANGED <<resumed, executor, seg, activation>>
       ELSE Launch("control", cycle, pending)
    /\ UNCHANGED <<profile, session, event, lease, worker, work>>

Heartbeat ==
    /\ Alive /\ pc.control = "idle"
    /\ cycle.stage \in Active
    /\ \/ RenewRefused
       \/ Renewed /\ UNCHANGED motion
    /\ UNCHANGED <<profile, mission, pending, session, resumed, activation, receipt, executor,
                   event, seg, worker, pc, work>>

\* Without a mission the core is disarmed all the same, and the request refused.
Cancel ==
    /\ Alive /\ pc.control = "idle"
    /\ IF cycle.stage \in Active
       THEN Abort("control", "CANCELLED")
       ELSE (\E written \in BOOLEAN : Disarm(written)) /\ UNCHANGED <<cycle, pc>>
    /\ UNCHANGED <<profile, session, resumed, activation, executor, event, seg, lease, worker, work>>

-----------------------------------------------------------------------------
(* The owner loop.                                                         *)

OwnerGoes(to) == pc' = [pc EXCEPT !.owner = to]

RuntimeLockFree == pc.control = "idle"

\* Mutant: only a receipt that has been kept long enough ends the loop.
TopOfLoopAfterReceipt ==
    /\ pc.owner = "top" /\ RuntimeLockFree
    /\ IF live /\ lease = "expired" THEN CoreStop ELSE Lost \/ UNCHANGED motion
    /\ OwnerGoes(IF ~live' /\ receipt = "over" THEN "ended" ELSE "row")
    /\ UNCHANGED <<profile, mission, pending, session, resumed, activation, receipt, executor,
                   event, seg, lease, worker, work>>

\* owner_release_ready is read before core.tick, and after it, if the core is not
\* operational, decides whether the loop ends.
TopOfLoop ==
    /\ pc.owner = "top" /\ RuntimeLockFree
    /\ IF live /\ lease = "expired" THEN CoreStop ELSE Lost \/ UNCHANGED motion
    /\ OwnerGoes(IF ~live' /\ (receipt = "over" \/ (receipt = None /\ ~live))
                 THEN "ended" ELSE "row")
    /\ UNCHANGED <<profile, mission, pending, session, resumed, activation, receipt, executor,
                   event, seg, lease, worker, work>>

\* No row, or an invalid one: invalidate_telemetry, and the loop starts over.
NoRow ==
    /\ pc.owner = "row"
    /\ Lost \/ UNCHANGED motion
    /\ OwnerGoes("top")
    /\ UNCHANGED <<profile, mission, pending, session, resumed, activation, receipt, executor,
                   event, seg, lease, worker, work>>

\* observe_telemetry: the machine acknowledges a handoff or the segment's final
\* action, after which the core itself claims RL, or is found unsafe.
Row ==
    /\ pc.owner = "row"
    /\ \/ UNCHANGED <<motion, seg, work>>
       \/ Lost /\ UNCHANGED <<seg, work>>
       \/ /\ claim # None
          /\ auth' = claim /\ claim' = None
          /\ UNCHANGED <<live, seg, work>>
       \/ /\ auth = "act" /\ ~seg.done
          /\ seg' = [seg EXCEPT !.done = TRUE]
          /\ auth' = None /\ claim' = "rl"
          /\ work' = Append(work, [stage |-> "ACT", point |-> cycle.point])
          /\ UNCHANGED live
    /\ OwnerGoes("observe")
    /\ UNCHANGED <<profile, mission, pending, session, resumed, activation, receipt, executor,
                   event, lease, worker>>

\* executor.observe: nothing runs, or the behaviour goes on.
ObserveGoesOn ==
    /\ pc.owner = "observe"
    /\ running # None => auth = "rl"
    /\ IF running = None
       THEN OwnerGoes("tick") /\ UNCHANGED event
       ELSE OwnerGoes("event") /\ event' = [do |-> "feedback"]
    /\ UNCHANGED <<profile, mission, pending, session, resumed, activation, receipt, executor,
                   motion, seg, lease, worker, work>>

\* It ends: done, timed out, state refused, error or RL authority gone; its
\* runner's terminal zero may fail, and a bad action costs RL its authority.
ObserveEnd ==
    /\ pc.owner = "observe" /\ running # None
    /\ \E outcome \in {"SUCCEEDED", "FAILED"}, quiescent \in BOOLEAN :
         /\ outcome = "SUCCEEDED" => auth = "rl"
         /\ event' = [do |-> "result", child |-> running,
                      outcome |-> outcome, quiescent |-> quiescent]
         /\ work' = IF outcome = "SUCCEEDED" THEN Append(work, running) ELSE work
         /\ IF quiescent \/ ~live
            THEN UNCHANGED motion
            ELSE CoreStop \/ (live' = live /\ auth' = None /\ claim' = claim)
    /\ running' = None
    /\ OwnerGoes("event")
    /\ UNCHANGED <<profile, mission, pending, session, resumed, activation, receipt, spent,
                   seg, lease, worker>>

\* record_child_result names the child by the stage: only a fixed action's success
\* fits the stage of a fixed action.
Expected(child) ==
    /\ cycle.stage # "ACT"
    /\ child.stage = "EXECUTE_DUMP" <=> cycle.stage = "EXECUTE_DUMP"

Accepted == event.quiescent /\ event.outcome = "SUCCEEDED" /\ Expected(event.child)

\* _on_behavior_event, under both locks.
TakeEvent ==
    /\ pc.owner = "event" /\ RuntimeLockFree
    /\ event' = None
    /\ IF event.do = "feedback" \/ cycle.stage \notin Active
       THEN /\ Leave("owner", FALSE)
            /\ UNCHANGED <<mission, pending, receipt, motion, resumed, executor, seg, activation>>
       ELSE IF Accepted
       THEN Succeed("owner")
       ELSE End("owner", cycle, "FAILED") /\ UNCHANGED <<resumed, executor, seg, activation>>
    /\ UNCHANGED <<profile, session, lease, worker, work>>

\* _advance_act: what ends the mission while it waits for ACT.
ActBroken ==
    \/ ~worker
    \/ actGen # seg.gen
    \/ ~seg.done /\ auth # "act" /\ (actWas \/ waited)

NothingToDo ==
    /\ Leave("owner", FALSE)
    /\ UNCHANGED <<mission, pending, receipt, motion, resumed, executor, seg, activation>>

Tick ==
    /\ pc.owner = "tick" /\ RuntimeLockFree
    /\ CASE cycle.stage \notin Active -> NothingToDo
         [] cycle.stage \in Active /\
              (~live \/ (cycle.stage = "ACT" /\ ActBroken)
                     \/ (pending # None /\ waited)) ->
              Abort("owner", "FAILED") /\ UNCHANGED <<resumed, executor, seg, activation>>
         [] OTHER ->
              \/ /\ cycle.stage = "ACT" /\ seg.done
                 /\ Succeed("owner")
              \/ /\ cycle.stage = "ACT" /\ ~seg.done
                 /\ actWas' = (actWas \/ auth = "act")
                 /\ Leave("owner", FALSE)
                 /\ UNCHANGED <<mission, pending, receipt, motion, resumed, executor, seg,
                                actGen, waited>>
              \/ /\ cycle.stage # "ACT" /\ pending # None /\ auth = "rl" /\ running = None
                 /\ Launch("owner", cycle, pending)
              \/ /\ cycle.stage # "ACT"
                 /\ pending = None \/ auth # "rl" \/ running # None
                 /\ NothingToDo
    /\ UNCHANGED <<profile, session, event, lease, worker, work>>

-----------------------------------------------------------------------------
(* The rest of the world.                                                  *)

Rest ==
    /\ Alive
    /\ UNCHANGED <<profile, mission, pending, session, resumed, actGen, actWas, executor,
                   event, seg, pc, work>>

LeasePasses ==
    /\ live /\ lease = "fresh"
    /\ lease' = "expired"
    /\ UNCHANGED <<waited, receipt, motion, worker>> /\ Rest

ActivationTimePasses ==
    /\ ~waited /\ (pending # None \/ (cycle.stage = "ACT" /\ actGen # None))
    /\ waited' = TRUE
    /\ UNCHANGED <<lease, receipt, motion, worker>> /\ Rest

GracePasses ==
    /\ receipt = "fresh"
    /\ receipt' = "over"
    /\ UNCHANGED <<lease, waited, motion, worker>> /\ Rest

\* The ACT worker connects, or its connection is lost and its authority revoked.
WorkerChange ==
    /\ worker' = ~worker
    /\ auth' = IF worker /\ auth = "act" THEN None ELSE auth
    /\ claim' = IF worker /\ claim = "act" THEN None ELSE claim
    /\ UNCHANGED <<live, lease, waited, receipt>> /\ Rest

\* An ACT candidate is refused, or the write of one fails.
CandidateFault ==
    /\ auth = "act"
    /\ CoreStop \/ (live' = live /\ auth' = None /\ claim' = claim)
    /\ UNCHANGED <<lease, waited, receipt, worker>> /\ Rest

OwnerStep ==
    \/ TopOfLoop \/ Row \/ NoRow
    \/ ObserveGoesOn \/ ObserveEnd \/ TakeEvent
    \/ Tick

Next ==
    \/ \E r \in RunId :
         \/ StartRefused(r)
         \/ \E n \in 1..MaxCycles, g \in Group : \E first \in 0..(g - 1) :
              StartMission(r, n, g, first) \/ StartFails(r, n, g, first)
    \/ FinishStart \/ Heartbeat \/ Cancel
    \/ OwnerStep
    \/ LeasePasses \/ ActivationTimePasses \/ GracePasses
    \/ WorkerChange \/ CandidateFault

Spec == Init /\ [][Next]_vars

\* The owner's read has a timeout, the control thread takes a free lock, and time
\* passes.
FairSpec ==
    Spec /\ WF_vars(OwnerStep) /\ WF_vars(FinishStart) /\ WF_vars(GracePasses)

-----------------------------------------------------------------------------
(* Properties.                                                             *)

\* What the mission is to do: round after round at the dig points of its group, and
\* back to the last of them.
Round ==
    IF profile = "act_full_cycle"
    THEN <<"FOLLOW_DIG", "ACT">>
    ELSE <<"FOLLOW_DIG", "ACT", "FOLLOW_DUMP", "EXECUTE_DUMP">>

PointOf(k) ==
    (cycle.first + IF k < cycle.requested THEN k ELSE cycle.requested - 1) % cycle.group

Itinerary ==
    [i \in 1..(cycle.requested * Len(Round) + 1) |->
       [stage |-> Round[((i - 1) % Len(Round)) + 1],
        point |-> PointOf((i - 1) \div Len(Round))]]

\* The machine does the children of the planned mission in their order, each once,
\* over refused starts, retries and failures; a mission is COMPLETED only if it did
\* all of them.
FollowsItinerary ==
    cycle.stage # "IDLE" =>
      /\ IsPrefix(work, Itinerary)
      /\ cycle.stage = "COMPLETED" => work = Itinerary

\* Whatever runs, waits or has motion authority belongs to the stage of the
\* mission: no child of another stage or dig point, and never both policies.
MotionMatchesStage ==
    cycle.stage \in Active /\ event = None =>
      /\ running \in {None, Due(cycle)} /\ pending \in {None, Due(cycle)}
      /\ running # None => pending = None
      /\ "act" \in {auth, claim} => cycle.stage = "ACT" /\ running = None

\* A start that holds the runtime's lock never waits for the executor's while the
\* owner, in the executor, waits for the runtime's.
NoLockCycle ==
    ~(pc.control = "launch" /\ auth = "rl" /\ pc.owner = "event")

\* A mission has one outcome: afterwards nothing is claimed or launched, and no
\* request changes what a status reports.
OutcomeIsFinal ==
    [][cycle.stage \in Terminal =>
         /\ cycle' = cycle
         /\ claim' = None /\ auth' = None
         /\ running' \in {None, running}]_vars

\* What the mission promises the PC, with the machine given to whom the core gives
\* authority: a child gets it only in its turn, from nobody else, and a mission that
\* has an outcome has taken it from all.
Promise == INSTANCE Mission WITH
    report <- IF cycle.stage \in Active THEN "WORKING" ELSE cycle.stage,
    plan <- IF cycle.stage = "IDLE" THEN <<>> ELSE Itinerary,
    done <- Len(work),
    mover <- IF auth = "rl" THEN running
             ELSE IF auth = "act" THEN Due(cycle) ELSE None

KeepsPromise == Promise!Spec

\* README.md:351-352: the owner ends its loop, to release the serial port, once the
\* PC's lease has passed or the core is disarmed, whatever the mission waits for.
DisarmReleasesOwner ==
    ~live \/ lease = "expired" ~> pc.owner = "ended"

\* resident_fixed_cycle_runtime.py:3-6: the runtime advances every phase by itself.
\* A mission between its steps has a child that runs, waits for RL, or is ACT's.
StageHasWork ==
    cycle.stage \in Active /\ live /\ pc.owner = "top" /\ pc.control = "idle" =>
      running # None \/ pending # None \/ cycle.stage = "ACT"

=============================================================================
