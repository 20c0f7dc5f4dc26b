----------------------------- MODULE EdgeCycle ------------------------------
(***************************************************************************)
(* The remotely driven excavation cycle: EdgeCycleCoordinator and its      *)
(* EdgeExcavationCycle (edge_runtime/cycle.py) over EdgeBehaviorExecutor   *)
(* (edge_runtime/remote.py), called by the connection threads of           *)
(* RemoteBehaviorServer (edge_runtime/remote_transport.py) and by the      *)
(* owner loop of orin_state_sender.py.                                     *)
(*                                                                         *)
(* The coordinator and the executor each have a reentrant lock.  A request *)
(* takes the coordinator's and calls the executor; an observation takes    *)
(* the executor's and calls the coordinator back with the event.  A thread *)
(* between its two locks has its unfinished call in "pend"; a thread that  *)
(* has both finishes in one step.  Behaviours are started by the cycle     *)
(* (event sink _receive_child_event) or by a client's direct request.      *)
(* Requests refused before the lock (malformed, old sequence) change       *)
(* nothing and are left out.                                               *)
(***************************************************************************)
EXTENDS Naturals

CONSTANTS
    Client,     \* RPC connections: a connection and its thread
    Owner,      \* the owner loop's thread
    CycleId,
    Cycle,      \* as a behaviour's event sink: the coordinator
    None

Thread == Client \cup {Owner}

VARIABLES
    connected,      \* connections whose serve_connection is running
    pend,           \* per thread: the call that waits for its second lock
    coordLock, execLock,
    \* EdgeBehaviorExecutor
    active,         \* _active: whose behaviour is running, and which
    ready,          \* what _motion_gate_reason_locked would say
    spent,          \* cycle ids whose child session has used sequence 0
    \* EdgeCycleCoordinator
    cycleId, stage, \* _cycle
    sink,           \* _external_event_sink
    legAccepted,    \* _leg_accepted
    \* history
    starter,        \* the client whose request began the leg in progress
    closed,         \* the behaviour that was closed last, and how
    told            \* the result of a cycle that this step sent to a client

locks == <<coordLock, execLock>>
executor == <<active, closed>>
coordinator == <<cycleId, stage, sink, legAccepted>>
vars == <<connected, pend, locks, executor, ready, spent, coordinator, starter, told>>

Kind == {"Follow", "ExecuteDig", "ExecuteDump"}
Terminal == {"COMPLETED", "FAILED", "CANCELLED"}

\* active_behavior, per stage of the cycle that has one.
Leg == [FOLLOW_DIG |-> "Follow", EXECUTE_DIG |-> "ExecuteDig",
        FOLLOW_DUMP |-> "Follow", EXECUTE_DUMP |-> "ExecuteDump"]
Running == DOMAIN Leg
Stage == Running \cup Terminal \cup {"IDLE", "WAITING_FOR_DUMP_TRAJECTORY"}

Following == [FOLLOW_DIG |-> "EXECUTE_DIG",
              EXECUTE_DIG |-> "WAITING_FOR_DUMP_TRAJECTORY",
              FOLLOW_DUMP |-> "EXECUTE_DUMP",
              EXECUTE_DUMP |-> "COMPLETED"]

Outcome == {"SUCCEEDED", "FAILED", "CANCELLED"}
Behavior == [by : Client \cup {Cycle}, kind : Kind]
Closed == [by : Client \cup {Cycle}, kind : Kind, outcome : Outcome, quiescent : BOOLEAN]
Told == [to : Client, quiescent : BOOLEAN]
Emission ==
    [do : {"feedback"}] \cup [do : {"result"}, outcome : Outcome, quiescent : BOOLEAN]
Call == [do : {"start", "cancel", "close", "drop"}]

ASSUME ThreadsAssumption ==
    /\ Owner \notin Client
    /\ Cycle \notin Client
    /\ None \notin Thread \cup CycleId \cup {Cycle}
    /\ None \notin Behavior \cup Closed \cup Emission \cup Call \cup Told

TypeOK ==
    /\ connected \subseteq Client
    /\ pend \in [Thread -> Emission \cup Call \cup {None}]
    /\ coordLock \in Client \cup {None}
    /\ execLock \in Thread \cup {None}
    /\ active \in Behavior \cup {None}
    /\ ready \in BOOLEAN
    /\ spent \subseteq CycleId
    /\ cycleId \in CycleId \cup {None}
    /\ stage \in Stage
    /\ sink \in Client \cup {None}
    /\ legAccepted \in BOOLEAN
    /\ starter \in Client \cup {None}
    /\ closed \in Closed \cup {None}
    /\ told \in Told \cup {None}

Init ==
    /\ connected = {}
    /\ pend = [t \in Thread |-> None]
    /\ coordLock = None /\ execLock = None
    /\ active = None /\ ready = FALSE /\ spent = {}
    /\ cycleId = None /\ stage = "IDLE" /\ sink = None /\ legAccepted = FALSE
    /\ starter = None /\ closed = None /\ told = None

-----------------------------------------------------------------------------
(* What a handler does once it has the locks it needs.                     *)

\* executor._finish, whose runner.close may raise: the behaviour is gone either
\* way, and the event says whether its zero was submitted.
Finish(outcome, quiescent) ==
    /\ active' = None
    /\ closed' = [by |-> active.by, kind |-> active.kind,
                  outcome |-> outcome, quiescent |-> quiescent]

\* Mutant: nobody to tell is told all the same.
ResultToAnyone(to, quiescent) == [to |-> to, quiescent |-> quiescent]

Result(to, quiescent) == IF to = None THEN None ELSE [to |-> to, quiescent |-> quiescent]

\* Mutant: the refused leg leaves the cycle in its stage.
LegRefusedStays ==
    /\ sink' = None
    /\ told' = IF legAccepted THEN Result(sink, FALSE) ELSE None
    /\ UNCHANGED <<active, stage, legAccepted>>

\* _receive_child_event for a leg that did not start.  It ends the cycle: with a
\* rejection if the client has had no "accepted" yet, else with a result.
LegRefused ==
    /\ stage' = "FAILED"
    /\ sink' = None
    /\ told' = IF legAccepted THEN Result(sink, FALSE) ELSE None
    /\ UNCHANGED <<active, legAccepted>>

\* _dispatch of the leg of stage s, through executor.start or
\* _start_fixed_action with nothing else between.  Every cycle id has one child
\* session, and a new cycle begins it again at sequence 0.
DispatchLeg(s) ==
    /\ spent' = spent \cup {cycleId}
    /\ \/ /\ active = None /\ ready
          /\ s = "FOLLOW_DIG" => cycleId \notin spent
          /\ active' = [by |-> Cycle, kind |-> Leg[s]]
          /\ stage' = s
          /\ legAccepted' = TRUE /\ told' = None
          /\ UNCHANGED sink
       \* busy, gate closed, sequence or trajectory refused, no runner
       \/ LegRefused

\* Mutant: a result is taken at its word, quiescent or not.
RecordedStageUnquiet(outcome, quiescent) ==
    CASE outcome = "CANCELLED" -> "CANCELLED"
      [] outcome = "SUCCEEDED" /\ stage \in Running -> Following[stage]
      [] OTHER -> "FAILED"

\* Mutant: every result that is not a cancellation counts as a success.
RecordedStageAnyEnd(outcome, quiescent) ==
    CASE ~quiescent -> "FAILED"
      [] quiescent /\ outcome = "CANCELLED" -> "CANCELLED"
      [] OTHER -> IF stage \in Running THEN Following[stage] ELSE "FAILED"

\* EdgeExcavationCycle.record_behavior_result.
RecordedStage(outcome, quiescent) ==
    CASE ~quiescent -> "FAILED"
      [] quiescent /\ outcome = "CANCELLED" -> "CANCELLED"
      [] quiescent /\ outcome = "SUCCEEDED" /\ stage \in Running -> Following[stage]
      [] OTHER -> "FAILED"

\* _receive_child_event for the result of a leg that is closed by now.
ReceiveResult(outcome, quiescent) ==
    LET s == RecordedStage(outcome, quiescent) IN
    /\ UNCHANGED <<cycleId, starter>>
    /\ IF s \in Running
       THEN DispatchLeg(s)
       ELSE /\ stage' = s
            /\ told' = Result(sink, IF s = "WAITING_FOR_DUMP_TRAJECTORY" THEN TRUE
                                                                       ELSE quiescent)
            /\ sink' = None
            /\ UNCHANGED <<active, legAccepted, spent>>

-----------------------------------------------------------------------------
(* The executor's callers.                                                 *)

\* The behaviour ends under the executor's lock, which thread t keeps until the
\* coordinator has taken the event.  A direct client's event needs no lock.
EndUnderExecLock(t, outcome, quiescent) ==
    /\ Finish(outcome, quiescent)
    /\ IF active.by = Cycle
       THEN /\ execLock' = t
            /\ pend' = [pend EXCEPT ![t] =
                 [do |-> "result", outcome |-> outcome, quiescent |-> quiescent]]
       ELSE UNCHANGED <<pend, execLock>>
    /\ told' = None
    /\ UNCHANGED <<connected, coordLock, ready, spent, coordinator, starter>>

\* observe, with a state that keeps the behaviour running.
ObserveActive ==
    /\ pend[Owner] = None /\ execLock = None
    /\ active # None /\ active.by = Cycle
    /\ execLock' = Owner
    /\ pend' = [pend EXCEPT ![Owner] = [do |-> "feedback"]]
    /\ told' = None
    /\ UNCHANGED <<connected, coordLock, executor, ready, spent, coordinator, starter>>

\* observe, with a state that ends it: done, timed out, refused or an error.
ObserveEnd ==
    /\ pend[Owner] = None /\ execLock = None
    /\ active # None
    /\ \E outcome \in {"SUCCEEDED", "FAILED"}, quiescent \in BOOLEAN :
         EndUnderExecLock(Owner, outcome, quiescent)

\* watchdog, on the status ticks of every connection.
Watchdog(c) ==
    /\ c \in connected /\ pend[c] = None /\ execLock = None
    /\ active # None /\ ~ready
    /\ \E quiescent \in BOOLEAN : EndUnderExecLock(c, "FAILED", quiescent)

\* The event reaches _receive_child_event, which takes the coordinator's lock.
Deliver(t) ==
    /\ execLock = t /\ pend[t] \in Emission
    /\ coordLock = None
    /\ execLock' = None
    /\ pend' = [pend EXCEPT ![t] = None]
    /\ IF pend[t].do = "feedback"
       THEN told' = None /\ UNCHANGED <<active, spent, coordinator, starter>>
       ELSE ReceiveResult(pend[t].outcome, pend[t].quiescent)
    /\ UNCHANGED <<connected, coordLock, ready, closed>>

\* start_follow and start_fixed_action that a client sends past the coordinator.
DirectStart(c) ==
    /\ c \in connected /\ pend[c] = None /\ execLock = None
    /\ active = None /\ ready
    /\ active' \in [by : {c}, kind : Kind]
    /\ told' = None
    /\ UNCHANGED <<connected, pend, locks, closed, ready, spent, coordinator, starter>>

DirectCancel(c) ==
    /\ c \in connected /\ pend[c] = None /\ execLock = None
    /\ active # None /\ active.by = c
    /\ \E quiescent \in BOOLEAN : EndUnderExecLock(c, "CANCELLED", quiescent)

-----------------------------------------------------------------------------
(* The coordinator's callers.                                              *)

\* handle takes the lock and remembers whom to tell, before it knows whether the
\* request is valid.
Handle(c, request) ==
    /\ c \in connected /\ pend[c] = None /\ coordLock = None
    /\ legAccepted' = (legAccepted /\ request = "cancel")

\* A RuntimeError or ValueError in handle: c is told, and then nobody is.
Refuse ==
    /\ sink' = None
    /\ told' = None
    /\ UNCHANGED <<connected, pend, locks, executor, ready, spent, cycleId, stage, starter>>

\* The request goes on to the executor, under the coordinator's lock.
CallExecutor(c, call) ==
    /\ coordLock' = c
    /\ pend' = [pend EXCEPT ![c] = [do |-> call]]
    /\ told' = None
    /\ UNCHANGED <<connected, execLock, executor, ready, spent>>

StartCycle(c, id) ==
    /\ Handle(c, "start")
    /\ \/ /\ stage \in Terminal \cup {"IDLE"}
          /\ CallExecutor(c, "start")
          /\ cycleId' = id /\ stage' = "FOLLOW_DIG"
          /\ sink' = c /\ starter' = c
       \* already active, or the trajectory is not a mapping
       \/ Refuse

ProvideDumpTrajectory(c, id) ==
    /\ Handle(c, "provide")
    /\ \/ /\ id = cycleId /\ stage = "WAITING_FOR_DUMP_TRAJECTORY"
          /\ CallExecutor(c, "start")
          /\ stage' = "FOLLOW_DUMP"
          /\ sink' = c /\ starter' = c
          /\ UNCHANGED cycleId
       \/ Refuse

CancelCycle(c, id) ==
    /\ Handle(c, "cancel")
    /\ IF id = cycleId /\ stage \in Running
       THEN /\ CallExecutor(c, "cancel")
            /\ sink' = c
            /\ UNCHANGED <<cycleId, stage, starter>>
       ELSE IF id = cycleId /\ stage = "WAITING_FOR_DUMP_TRAJECTORY"
       THEN /\ stage' = "CANCELLED"
            /\ told' = Result(c, TRUE)
            /\ sink' = None
            /\ UNCHANGED <<connected, pend, locks, executor, ready, spent, cycleId, starter>>
       ELSE Refuse

\* disconnect, when serve_connection ends: EOF, error, or a writer that failed.
\* busy is read before close takes the executor's lock again: in between the active
\* behaviour may end, and close finds none, but none can start.
Disconnect(c) ==
    /\ c \in connected /\ pend[c] = None /\ coordLock = None
    /\ IF sink = c
       THEN CallExecutor(c, "close")
       ELSE /\ pend' = [pend EXCEPT ![c] = [do |-> "drop"]]
            /\ told' = None
            /\ UNCHANGED <<connected, locks, executor, ready, spent>>
    /\ UNCHANGED <<coordinator, starter>>

\* Both locks are c's: the executor's part, its event, and the way back.
Released(c) ==
    /\ coordLock = c /\ execLock = None
    /\ coordLock' = None
    /\ pend' = [pend EXCEPT ![c] = None]
    /\ UNCHANGED <<execLock, ready, starter>>

ExecuteStart(c) ==
    /\ pend[c] = [do |-> "start"]
    /\ Released(c)
    /\ DispatchLeg(stage)
    /\ UNCHANGED <<connected, closed, cycleId>>

\* A cancel is refused unless the behaviour is the cycle's own.
ExecuteCancel(c) ==
    /\ pend[c] = [do |-> "cancel"]
    /\ Released(c)
    /\ UNCHANGED <<connected, cycleId>>
    /\ IF active # None /\ active.by = Cycle
          /\ (active.kind = "Follow" <=> Leg[stage] = "Follow")
       THEN \E quiescent \in BOOLEAN :
              /\ Finish("CANCELLED", quiescent)
              /\ stage' = RecordedStage("CANCELLED", quiescent)
              /\ told' = Result(sink, quiescent)
              /\ sink' = None
              /\ UNCHANGED <<legAccepted, spent>>
       ELSE LegRefused /\ UNCHANGED <<closed, spent>>

ExecuteClose(c) ==
    /\ pend[c] = [do |-> "close"]
    /\ Released(c)
    /\ connected' = connected \ {c}
    /\ sink' = None
    /\ UNCHANGED <<cycleId, legAccepted, spent>>
    /\ IF active = None
       THEN told' = None /\ UNCHANGED <<executor, stage>>
       ELSE \E quiescent \in BOOLEAN :
              /\ Finish("FAILED", quiescent)
              /\ told' = IF active.by = Cycle THEN Result(sink, quiescent) ELSE None
              /\ stage' = IF active.by = Cycle THEN "FAILED" ELSE stage

\* executor.disconnect: it stops what this client started itself.
ExecuteDrop(c) ==
    /\ pend[c] = [do |-> "drop"]
    /\ execLock = None
    /\ connected' = connected \ {c}
    /\ pend' = [pend EXCEPT ![c] = None]
    /\ told' = None
    /\ IF active # None /\ active.by = c
       THEN \E quiescent \in BOOLEAN : Finish("FAILED", quiescent)
       ELSE UNCHANGED executor
    /\ UNCHANGED <<locks, ready, spent, coordinator, starter>>

-----------------------------------------------------------------------------
Connect(c) ==
    /\ c \notin connected
    /\ connected' = connected \cup {c}
    /\ told' = None
    /\ UNCHANGED <<pend, locks, executor, ready, spent, coordinator, starter>>

\* Machine State becomes fresh and safe, or stale or unsafe, or RL authority
\* comes or goes.
GateChange ==
    /\ ready' = ~ready
    /\ told' = None
    /\ UNCHANGED <<connected, pend, locks, executor, spent, coordinator, starter>>

\* What a thread goes on to do by itself.
Proceed(t) ==
    \/ Deliver(t)
    \/ ExecuteStart(t) \/ ExecuteCancel(t) \/ ExecuteClose(t) \/ ExecuteDrop(t)

Next ==
    \/ ObserveActive \/ ObserveEnd
    \/ \E t \in Thread : Proceed(t)
    \/ \E c \in Client :
         \/ Connect(c) \/ Disconnect(c)
         \/ DirectStart(c) \/ DirectCancel(c)
         \/ Watchdog(c)
         \/ \E id \in CycleId :
              StartCycle(c, id) \/ ProvideDumpTrajectory(c, id) \/ CancelCycle(c, id)
    \/ GateChange

Spec == Init /\ [][Next]_vars

\* A thread goes on if the lock it waits for is free again and again.
FairSpec == Spec /\ \A t \in Thread : SF_vars(Proceed(t))

-----------------------------------------------------------------------------
(* Properties.                                                             *)

\* Whenever nobody is inside, coordinator and executor agree on the leg: the
\* cycle never waits for a behaviour that does not run, and the executor runs no
\* leg of a cycle that has moved on or ended, whoever ended it.
StageMatchesExecutor ==
    coordLock = None /\ execLock = None =>
      /\ stage \in Running <=> (active # None /\ active.by = Cycle)
      /\ stage \in Running => active.kind = Leg[stage]

\* A fixed action of the cycle runs only right after its own Follow, reached and
\* at rest: no direct behaviour, failure or cancellation comes between.
FixedActionFollowsFollow ==
    active # None /\ active.by = Cycle /\ active.kind # "Follow" =>
      closed = [by |-> Cycle, kind |-> "Follow", outcome |-> "SUCCEEDED",
                quiescent |-> TRUE]

\* README.md:331: a leg is reported as completed only after its fixed action was
\* closed with a terminal zero.
LegResultMeansZero ==
    told # None /\ stage \in {"WAITING_FOR_DUMP_TRAJECTORY", "COMPLETED"} =>
      /\ told.quiescent
      /\ closed = [by |-> Cycle, outcome |-> "SUCCEEDED", quiescent |-> TRUE,
                   kind |-> IF stage = "COMPLETED" THEN "ExecuteDump" ELSE "ExecuteDig"]

\* README.md:336: the connection loss of the client that began the active leg
\* stops the leg.
ConnectionLossStopsLeg ==
    active # None /\ active.by = Cycle => starter \in connected

\* cycle.py:327: a cycle is "cancelled while quiescent" only if it is.
QuiescentResultIsTrue ==
    told # None /\ told.quiescent => active = None

\* README.md:416-420: a cancellation or disconnect that the coordinator passes on
\* closes the running behaviour.
CancellationCloses ==
    \A c \in Client :
      (pend[c] \in [do : {"cancel", "close"}]) ~> (active = None)

=============================================================================
