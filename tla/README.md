# Verification of the excavator Orin runtime

TLA+ models, TLC runs and TLAPS proofs for the control logic of this repository:
the part of the Orin runtime that decides who may move the machine, writes the
commands to the STM32 and drives the excavation cycle. Paths below are relative
to the repository; `resident_sink.py` and the like are in `edge_runtime/`.

## 1. The system

One process on the Orin owns the serial line to the STM32 and is fed by several
threads. Three kinds of clients want motion: the RL behaviors (Follow and the
fixed actions, started over TCP by a PC), the ACT policy worker (a local
process behind a Unix socket), and the resident fixed cycle, which drives both
by itself.

| Part | State it keeps | Operations | Talks to |
|---|---|---|---|
| Motion authority (`resident_motion.py`) | generation, handoff phase, active and target binding | request_handoff, request_stop, acknowledge_zero, route | owned by the sink, under its lock |
| Command sink and encoder (`resident_sink.py`, `resident_commands.py`) | awaited zero, candidate lease, handoff measurement, unsafe latch, newest telemetry, last write, next sequence, terminal flags | initialize, request_handoff, request_stop, request_source_stop, observe/invalidate_telemetry, submit_candidate, tick, terminal_disarm | serial line; called by every other resident part |
| Ingress adapters (`resident_ingress.py`) | generation, decoder sequence per source | activate, send | sink |
| Resident core (`resident_core.py`) | ACT segment, mission lease, terminal disarm result and its acknowledgement | activate_rl/act, submit_act, renew_mission_lease, tick, terminal_disarm, worker loss | adapters, sink |
| Resident control server (`resident_control.py`) | connection | renew, activate, disarm, status | core, executor |
| ACT data link (`resident_data_link.py`) | one connection, newest state frame | publish, receive a candidate, loss callback | core |
| Action audit (`resident_action_audit.py`) | bounded queue, counters, closed | emit, close, writer | file |
| Fixed cycle (`resident_fixed_cycle*.py`) | plan position, stage, pending command, ACT generation | start, tick, cancel, heartbeat, behavior events | core, executor |
| Cycle coordinator (`cycle.py`) | cycle id, stage, event sink, leg accepted | start_cycle, provide_dump_trajectory, cancel_cycle, child events, disconnect | executor (both ways) |
| Behavior executor (`remote.py`) | active behavior, motion gate, request sequences | start, cancel, observe, watchdog, close, disconnect | runners, coordinator or client |
| RPC transport (`remote_transport.py`) | connections, one bounded writer queue each | serve, emit, close | coordinator |
| Runners, follow, fixed actions (`control.py`, `follow.py`, `trajectory.py`, `fixed_actions.py`, `actions.py`) | waypoint or step, dwell, slew state | observe, close | action sink |
| Relay and owner loop (`orin_state_sender.py`), replay (`orin_csv_replay.py`) | safety flags, relay socket | serial read loop, relay loop | everything |
| Policy, kinematics, observation, deployment checks | none, or file contents | pure functions | |

What is hard here, and what must hold:

* **Sink.** Commands are acknowledged only by their echo in telemetry: by
  sequence number, mode and action, on a line that loses commands. Candidates,
  stops, handoffs, ticks and frames come from different threads in any order,
  and a candidate is stamped before the lock is taken. *Motion must always be
  the current owner's, in its mode, leased, and backed by safe telemetry; a
  change of owner must go through a machine that really holds a zero; and it
  must all end when telemetry or candidates stop.*
* **Cycle coordinator and executor.** Two locks, taken in both orders; five
  ways for a leg to end; clients that can also start behaviors past the
  coordinator. *Stage and running behavior must agree, no leg may be skipped or
  reported early, and a disconnection or cancellation must stop the leg.*
* **Resident core.** The ACT segment is complete when its last command is
  echoed; the mission lease expires and is renewed from different threads.
  *Completion exactly once and only for the executed segment; an expired lease
  always ends disarmed.*
* **Fixed cycle.** Advances by polling. *Each stage is dispatched once and for
  the current mission; a refused start changes nothing.*
* **Queues** (event stream, audit, data link). *Sequence without gaps;
  no terminal event lost silently; counters that add up after close.*
* **Follow and fixed actions.** *Dwell and timeout boundaries; a step is left
  only when held.*

* **Relay.** Datagrams are late, doubled and reordered, the wall clock jumps, the
  thread can die or hang in a write while the owner closes it. *Motion ends with
  its validity and with the telemetry that permits it; an accepted stop is
  final; who is through has left a zero.*

`PROJECT.json` lists the hazards line by line with the properties that cover
them, and why the rest have none.

## 2. Modules

| Module | What it is |
|---|---|
| `MotionOwnership` | Abstract specification: ownership moves only through a machine at rest. Models no code of its own; it states the promise of `resident_motion.py:3-6`. |
| `ResidentSink` | Command sink, authority, encoder, and around them the serial line and the STM32 as telemetry shows it. |
| `MCResidentSink` | TLC instance of `ResidentSink`: the two production bindings, bounds, view. |
| `ResidentSinkProofs` | TLAPS proofs about `ResidentSink` alone: its safety and action properties. |
| `OwnershipProofs` | That `ResidentSink` implements `MotionOwnership`. |
| `ResidentCore` | Motion core, ingress adapters, ACT data link, control server and the owner loop with its shutdown; EXTENDS `ResidentSink` and calls its actions. |
| `MCResidentCore` | TLC instance of `ResidentCore`: bounds, view, fairness of the liveness run. |
| `ResidentCoreProofs` | Proofs about the core, over the lemmas of `ResidentSinkProofs`. |
| `CoreLineProofs` | What completion and release mean for the machine; over `ResidentCoreProofs` and `OwnershipProofs`. |
| `FixedCycle` | The Orin-local mission: its state machine, runtime, control thread, and the owner loop as the runtime sees it. |
| `Mission` | Abstract specification of a mission: who has the machine, in which turn, and one outcome. Models no code of its own. |
| `FixedCycleProofs` | Proofs about the mission, and that `FixedCycle` implements `Mission`. |
| `ActionRelay` | The non-resident path: relay thread, datagrams, safety snapshot, start and close. |
| `EdgeControl` | EXTENDS `ActionRelay` with the senders: the runners over the follow and fixed-action runtimes, the replay process, a network sender. |
| `ActionRelayProofs` | What the relay keeps whoever sends: lemmas, one per action. |
| `EdgeControlProofs` | Proofs about relay and senders together. |
| `MCEdgeControl` | TLC instance of `EdgeControl`: a fixed action of two steps. |
| `EdgeCycle` | Coordinator, executor and connection threads at the level of their two locks. |
| `EdgeCycleProofs` | Proofs about the two locks and the calls between them. |

How they fit together: `ResidentCore` composes with `ResidentSink` by
conjunction; every step of the core makes at most one call of the sink. The
core that `FixedCycle` sees (operational or not, who holds or claims motion, the
segment, the lease) is a reduction of `ResidentCore`, and its executor one of
`EdgeCycle`. `EdgeControl` has the runners that `EdgeCycle` leaves as free
choices; it is what runs when the process is started without
`--resident-motion-core`.

### ResidentSink

All methods of `ResidentCommandSink` hold one lock from start to end, so each is
one action: `Initialize`, `RequestHandoff`, `RequestStop`, `RequestSourceStop`,
`ObserveTelemetry`, `InvalidateTelemetry`, `SubmitCandidate`, `Tick`,
`TerminalDisarm`. The authority is called only under that lock and its state is
part of the same action. Variables are named after the fields (`pendingAck`,
`lease`, `measure`, `firstAck`, `unsafeLatched`); `status` stands for
`_synchronized`, `_terminally_disarmed` and `_terminal_error`.

* A candidate's stamp is older than the sink's lock. What may overtake it is a
  frame; the owner's tick may not, because an RL candidate comes from the owner
  itself and an ACT one from under the core's control lock, which a tick takes too.
  So no limit of lease or age passes unseen in between.
* Time is kept as ages: `age` of the newest telemetry, `idle` since the last
  write, `left` of a lease; `Clock` advances all of them. `ticked` says that
  the owner loop has ticked since the clock advanced.
* An action's values are "zero" or "motion"; a candidate may be "bad" (expired,
  from the future, not finite, out of range). Candidates carry the current or
  the previous generation: every superseded one is rejected by the same test.
* All safety bits of telemetry are one bit, `healthy`, except command validity
  (`live`) and mode, which the echo rules tell apart.
* A failed write (`sent = FALSE`) consumes a sequence number, faults the sink,
  and may or may not have reached the line.
* `wire` and `dev` are external: commands in flight, and the command the STM32
  reports. The device starts with any command it may have kept from an earlier
  run, or with none.
* What a faulted sink keeps in `_pending_ack` is never read again and is
  written as None. Latency figures, audit events and the frame's layout are
  left out.

### EdgeCycle

A request takes the coordinator's lock, then the executor's; an observation
takes the executor's, then the coordinator's. So a thread's step ends where it
needs its second lock, and `pend` holds its unfinished call: `StartCycle`,
`ProvideDumpTrajectory`, `CancelCycle` and `Disconnect` are continued by
`ExecuteStart`, `ExecuteCancel`, `ExecuteClose` and `ExecuteDrop`;
`ObserveActive`, `ObserveEnd` and `Watchdog` by `Deliver`. `DirectStart` and
`DirectCancel` are the requests a client sends past the coordinator
(`cycle.py:214-219`). The locks are reentrant: a thread that holds both
finishes in one step, events included.

`sink`, `legAccepted`, `stage`, `cycleId` and `active` are the code's fields.
`ready` is the answer of the motion gate; `spent` the cycle ids whose child
session has used its first sequence number; `starter`, `closed` and `told` are
history that only properties read. A behavior's end carries its outcome and
whether the runner's terminal zero was submitted (`remote.py:671-676`): both
are free choices, because the runner is not modelled yet. `Disconnect` reads busy
and asks for the close in one step: the coordinator's lock is held, without
which nothing can start in between, and to close what has just ended does
nothing. Requests that are
refused before the lock change nothing and are left out.

### ResidentCore

The core's control lock covers a whole method, so a method is one action, with
one exception: `observe_telemetry` gives the frame to the sink before it asks
for the lock (`resident_core.py:228-251`). `pc = "segment"` is the owner between
the two (`ReadRow`, `ObserveSegment`); requests and candidates may come in
between. The control thread is `ctl` with its `command`: "act_ready" between its
reading of `act_worker_ready` and its use (`resident_control.py:276-299`),
"stamped" between `renew_mission_lease`'s reading of the clock and its lock
(`resident_core.py:489-494`), "renewed" between the renewal and the activation,
which take the lock one after the other. A stamp says only whether it was in
time (`Stamp`) or not (`RenewTooLate`): a late one stays late, so it needs no
state of its own, and a tick reads its clock in the step that uses it, because
nobody but the control thread can put the deadline off. `connected` and
`lost` are the data link's one connection and the loss callbacks that have not
run yet; a new connection may be accepted before they do.

* `seg` is `_act_segment`, `held` the generations the two adapters keep,
  `mission` the lease's deadline as "fresh" or "expired", `result` and `acked`
  the terminal disarm's result and acknowledgement.
* `BeginActivation`, `SourceStop` and `CoreDisarm` are what several methods
  share, each with the sink action it calls; a call that raises leaves the
  core's own fields as they were (`FaultsNow`).
* An action chunk within the deadzone is the flag `quiet`; a candidate that
  cannot be decoded, or is of the wrong mode, is `BadCandidate`.
* `Shutdown` and `WaitForAck` are the owner's `finally`: the line is "released"
  or the process has "failed".

### FixedCycle

`cycle` is `FixedCycleSnapshot` with the dig group as its number of points;
`Advanced` and `ReturnToDig` are `record_child_result`. The driver's methods are
called by the owner (a child's result, a tick) or by the control thread (a
start), under the runtime's reentrant lock. A handoff's first zero may fail to be
written, which ends the mission on the spot (`HandoffFails`, and `StartFails`
for the first one); `Lost` is what the sink takes away by itself with a row or
without one: authority and claim, with the core still operational or not.
`Leave` is what each does with an
exception: on the control thread a refusal, on the owner's the end of the loop.
The only places where a thread waits for the executor's lock with the runtime's
or the reverse are a start that dispatches (`pc.control = "launch"`) and an
event on its way into the runtime (`pc.owner = "event"`).

The owner's round is `TopOfLoop`, `Row` or `NoRow`, `ObserveGoesOn` or
`ObserveEnd`, `TakeEvent`, `Tick`, as in `orin_state_sender.py:2066-2218`. The
two times that matter, the activation timeout and the receipt's grace, are flags
(`waited`, `receipt`) that time sets. `work` is history: the children that
really succeeded, in order. In `act_full_cycle` a cycle is a follow and an ACT
segment, otherwise two follows, a segment and a fixed action.

### ActionRelay and EdgeControl

A datagram's sequence number is its place in `queue`; `old` is the outcome of
its comparison with `_last_seq`, `age` the wall clock's time since its stamp
(`WallJump` changes it, the monotonic `deadline` stays). On loopback a receive
takes the whole queue; across the network any subset, doubled or lost. A write
is a step of its own after the decision (`job`), so that the owner's `close` and
its join timeout can come in between. `snap` is the safety snapshot by its age.
`Clock` waits for the relay thread, which polls every 10 ms: one unit of time is
at least that. It is the only scheduling assumption, stated as a guard. The
owner's join can time out on any write that hangs, the terminal zero included.

`EdgeControl` steps a task with every row that the owner publishes: a follow
(the waypoint it is at, the time left, the limiter's state for one axis) or a
fixed action (its step, time left, hold, latches). Whether a waypoint is in
reach, what the policy wishes and which axes are within tolerance are free
choices, and so is whether the row is rejected: any row may make the runtime or the
policy raise. A raise in the middle of a step counts as one before it: remotely the
runner is closed in either case, and in mode "control" the tracker may by then
have moved to its next waypoint, which the next row may do as well.
`ObserveControl` is mode "control" (`control.py:95-191`), whose runtime
lives as long as the process; `ObserveRemote`, `Start`, `Cancel` and `Watchdog`
are the executor's, where a behavior's end closes its runner with a zero.
`given` is the level that was really sent, which the limiter does not know.

## 3. Runs

| Run | Result | What it shows |
|---|---|---|
| `sink_boundary` | passes, 383,584 states | With serial faults, lost commands, device timeouts and unsafe telemetry all allowed: the seven invariants, the silence after disarm, and the refinement of `MotionOwnership`. |
| `sink_liveness` | passes, 86,012 states | On a loss-free line a handoff or stop that nothing supersedes completes; ticks alone stop motion for good when telemetry stops. |
| `core` | passes, 517,511 states | With lost commands and serial faults: no motion past the ACT budget, none for a lost worker; completion only of what the machine executed; after the mission lease has passed the owner's next tick ends the core over a zero, and only a renewal that was stamped in time and gets the lock before that tick brings the lease back; the line is released only on a machine at rest. |
| `core_segment` | violated | A segment whose final zero is lost never completes. |
| `fixed_cycle` | passes, 361,144 states | The refinement of `Mission`: the machine does the children in order and once, in both profiles; nothing runs that the stage does not call for; one outcome; no lock cycle; the owner is released. |
| `fixed_cycle_restart` | violated | A refused start leaves the mission under way without work. |
| `action_path` | passes, 1,419,997 states | Four kinds of senders through the relay, with network faults, wall-clock jumps, failing and stuck writes: motion ends in time, an accepted zero is final, the closed and the finished are at rest, fixed actions reach their targets, a follow's end is sticky. |
| `action_ramp` | violated | After a rejected state the command jumps. |
| `cycle` | passes, 436,578 states | Stage and executor agree; no leg is skipped or reported early. |
| `cycle_orphan` | violated | README.md:336 does not hold after a refused request. |
| `cycle_quiescent` | violated | "cancelled while quiescent" is said without asking. |
| `cycle_locks` | violated | Lock-order deadlock between a cancellation and an observation. |

**Bounds of the sink.** Two sources and two modes are all there are. `MaxGen`
bounds requested generations (revocations go on after it): 2 is a handoff from
one owner to the other, 4 lets two more overtake it. `MaxAge = 0`,
`MaxLease = 0`, `Keepalive = 1` are the shortest that still tell "fresh" from
"old" and "current" from "expired" by one clock step. `WireCap = 1`: a second
command pushes out the one in flight, so delay, loss and overtaking by a newer
command all occur. `SeqMod = 6` with the constraint `WithinLag` (the device at
most `MaxLag = 3` commands behind) keeps the small sequence space from doing
what 2^32 does not: taking a command for the one a whole cycle earlier. It
bounds how many commands in a row may get lost. `SequenceFreeView` identifies
states that differ by a rotation of all sequence numbers; no action compares
them otherwise than for equality or with the next one.

**Bounds of the core.** As for the sink, with `MaxGen = 2` (an activation of
each source, or two of one), `MaxLag = 2`, a budget of two actions (the last and
one before it) and `MaxLost = 1` callback that is late for a newer connection.
`CoreView` rotates sequence numbers like the sink's view, and forgets what a sink
that is disarmed or faulted owned. `MCNext` is `CoreNext` without idle
interleavings: while the lease is current, what the control thread reads, stamps
and renews commutes with every step of the others but the lease's end and, for
ACT, the connection's loss, so only those come in between; once the lease has
passed, everything does. TLC finds the same states without this restriction. `core_segment` needs
one command lost, a budget of one and candidates that are zeros. Device
timeouts and unhealthy telemetry
are the business of `sink_boundary` and left out here; so are, in `core`,
candidates that are zero or bad (`Acts`), which the sink judges alone.

**Bounds of the mission.** Two run ids are a fresh and a used session; groups of
one and two points, up to two cycles: a cycle that moves on to the next point,
one that wraps, and the last. Nothing else is bounded: generations and `work`
are, by the mission that is started.

**Bounds of the action path.** Validity, skew and timeouts of one unit separate
"in time" from "late" by one clock step. `MaxQueue = 2` datagrams in the socket
or on their way are enough for a zero overtaken by the motion before it. A
sender waits when it is full: the kernel would drop the datagram, but its buffer
holds hundreds, which only a thread that hangs for seconds would let fill up, and
a drop already at the second would be the bound's doing and not the code's. One waypoint (a single endpoint expands to three),
two steps of a fixed action of which the second has a target the first has too,
one row and one zero of a replay. The limiter has one level in `action_path`,
two in `action_ramp`, where levels matter.

**Bounds of the cycle.** Two clients are the owner of a leg and an intruder;
two cycle ids are a new and a used one. Nothing else is bounded.

Deadlock checking is off: a disarmed or faulted sink, and a process whose
threads wait for each other, really stop; what must not stop is stated as
liveness. For the same reason it is off for a mission whose owner has ended and
for a core that has released the line.

**Fairness.** `Timely` says that time passes and the owner loop ticks: it polls
the serial port with a timeout and calls `tick` every round
(`orin_state_sender.py`). Nothing is assumed of sources, requests or losses.
`Connected` adds that the line delivers and telemetry arrives; only
`HandoffSettles` needs it, with no losses: the code never repeats a pending
zero, so after a lost one a handoff waits for the next request. `FairSpec` of
`EdgeCycle` says that a thread gets a lock that is free again and again (strong
fairness, more than Python's `RLock` promises, so the violation does not rest
on starvation). `FairSpec` of `FixedCycle`: the owner's read has a
timeout, so its loop goes on; the control thread takes a lock that is free; the
grace passes. `SegmentSpec` of `MCResidentCore` assumes what the segment's
completion could at most rely on: the clock, the owner loop, the delivery of
the commands that are not lost, and that telemetry comes.

**Violations.** *Orphan*: client 1 starts a cycle, its Follow runs; a second
start_cycle is refused, and `handle` has by then replaced the event sink and
clears it; client 1 disconnects; `disconnect` finds neither itself as the
coordinator's sink nor as the behavior's, and the leg goes on. *Quiescent*:
between the legs, client 2 starts a Follow directly; client 1 cancels the cycle
and is told that all is quiescent. *Locks*: a cancellation has the
coordinator's lock when an observation, with the executor's, delivers an event.
The owner loop never ticks again, so the STM32's own timeout is what stops the
machine. *Segment*: the final action of a segment is a zero and is lost; after
100 ms of silence the sink writes its keepalive zero under a newer number, which
every frame shows from then on, while completion waits for the old one. *Restart*:
the mission waits for RL authority with its Follow pending; a second start clears
the pending Follow and is then refused; the stage stays, and nothing is left that
could end it but the PC's own lease. *Ramp*: mode "control" has ramped up to a
level; one state is rejected and a zero is sent; the next state continues from
the old level in one update.

## 4. Proofs

Every safety invariant and action property of the passing runs, and the
refinements of `MotionOwnership` and `Mission`, are theorems for all values of
the constants.

| Theorem | Property | In |
|---|---|---|
| `TypeCorrectness` | `TypeOK` | `ResidentSinkProofs` |
| `MotionAlwaysLeased` | `MotionIsLeased` | |
| `MotionAlwaysEvidenced` | `MotionHasSafeEvidence` | |
| `MotionStopsByTick` | `MotionStopsInTime` | |
| `PendingAckAlwaysAgrees` | `PendingAckAgrees` | |
| `HandoffEvidenceAlwaysComplete` | `HandoffEvidenceComplete` | |
| `DisarmLeavesZero` | `DisarmedMeansZero` | |
| `SilentAfterTheEnd` | `NoWriteAfterTheEnd` | |
| `SinkImplementsOwnership` (1) | `ImplementsOwnership` | `OwnershipProofs` |
| `CoreTypeCorrectness` | `CoreTypeOK` | `ResidentCoreProofs` |
| `MotionNeverExceedsBudget` | `NoMotionPastBudget` | |
| `LostWorkerAlwaysStops` | `LostWorkerStops` | |
| `ExpiredMissionAlwaysEnds` | `ExpiredMissionEnds` | |
| `SinkStaysSafeInCore` | the sink's six safety invariants, in the core | |
| `CoreImplementsOwnership` (1) | `ImplementsOwnership`, in the core | `CoreLineProofs` |
| `ReleaseAlwaysMeansZero` (2) | `ReleaseMeansZero` | |
| `CompletionAlwaysMeansExecuted` (2) | `CompleteMeansExecuted` | |
| `MissionTypeCorrectness` | `TypeOK` | `FixedCycleProofs` |
| `MissionAlwaysFollowsItinerary` | `FollowsItinerary` | |
| `MotionAlwaysMatchesStage` | `MotionMatchesStage` | |
| `NeverLockCycle` | `NoLockCycle` | |
| `OutcomeIsAlwaysFinal` | `OutcomeIsFinal` | |
| `MissionKeepsPromise` | `KeepsPromise` | |
| `ControlTypeCorrectness` | `TypeOK` | `EdgeControlProofs` |
| `MotionAlwaysStopsInTime` | `MotionStopsInTime` | |
| `AcceptedStopIsAlwaysFinal` | `StopIsFinal` | |
| `ClosedAlwaysMeansZero` | `ClosedMeansZero` | |
| `AlwaysAtRestWhenDone` | `AtRestWhenDone` | |
| `FixedActionAlwaysReachesTargets` | `FixedActionReachesTargets` | |
| `EndIsAlwaysFinal` | `EndIsFinal` | |
| `CycleTypeCorrectness` | `TypeOK` | `EdgeCycleProofs` |
| `StageAlwaysMatchesExecutor` | `StageMatchesExecutor` | |
| `FixedActionAlwaysFollowsFollow` | `FixedActionFollowsFollow` | |
| `LegResultAlwaysMeansZero` | `LegResultMeansZero` | |

(1) under `[]NeverLapped`, (2) also under `[]FrameNeverLapped`; see below. The
theorems `AlwaysCoreInv` and `AlwaysIInv` state the inductive invariants.

**Assumptions.** Only those that the modules name. `ConstantsAssumption`: ages,
lease, keepalive and capacity are naturals, the line holds at least one command
and fewer than there are sequence numbers. `CoreAssumption`: two sources of
different modes, as `orin_state_sender.py` binds them, a budget of at least one
action. `PlanAssumption`: a plan has a dig group of at least one point and at least
one cycle. `RelayAssumption`, `EdgeAssumption`: naturals, and trajectories,
fixed actions and a queue that are not empty. `ThreadsAssumption`: clients,
owner and cycle are different. The rest says that `None` is not a value of the code.

**The two hypotheses.** The STM32 shows the sequence number of the command it
holds, and numbers wrap at 2^32. A device that missed exactly 2^32 commands in a
row looks like one that missed none; that is all that `NeverLapped` excludes,
and `FrameNeverLapped` the same for the newest frame that the sink has seen.
They are about the line, not about the code: at a hundred commands a second,
2^32 take more than a year, in which not one may arrive. TLC finds both to hold
on its instances, where `WithinLag` bounds the lag. Without them a zero of the
last lap would be taken for the awaited one.

### The inductive invariants

Hardly any property is inductive alone; each module proves a conjunction, one lemma per
action, and TLC has checked every such conjunction on its instance.

*Sink.* `AuthorityShape`: which of active and target is set in each phase,
without which `PendingAckAgrees` does not survive an acknowledgement.
`StartShape`: before `Initialize` nothing was written and no frame is cached;
after it a frame is, so that evidence can be judged at all. `MeasureShape`: a
handoff measurement is of the current generation and claimed exactly while the
target owns motion. What every stop and every write does is proved once.

*Ownership.* The refinement maps the machine to what the STM32 really holds, so it
needs what the sink cannot see. `LineShape`: the
commands on the line are the newest ones in their order, the device is behind
all of them, an awaited zero is the newest of all; so an echo of it says that the
line is empty behind it. `ModeShape`: an owner has machine and line in its mode.
`SinkStep` lists what can happen to the sink in whatever it is part of, so
`CoreImplementsOwnership` is the same argument with the core's callers.

*Core.* `GenerationShape`: each generation was given to one source, and what
adapters and segment hold is no newer than the authority's. `BudgetShape`: a
segment that is not due has steps left, and ACT motion that is due is the final
action itself. `LifetimeShape`: a lease belongs to a core that has begun, a terminal
result to one that has ended, and the owner has not ticked since a lease passed;
`ExpiredMissionEnds` rests on it. `CoreLineInv` adds `FrameShape` (the cached frame shows a command
the device took, and perhaps left since: the gap between the frame's
observation and the core's lock), `RestShape` (between owners the machine rests)
and `ResultShape` (the terminal zero is the last command of all).

*Mission.* `CycleShape` ties the stage to the plan's position; `MotionShape`
says a core that is not operational claims nothing; `ChildShape` that what runs,
waits or was just reported is the one child due; `LaunchShape` that a start in
the middle of its dispatch has just begun its mission; `WorkShape` counts the
children done against the stage, one more between a success and its
acceptance. `NoLockCycle` follows from `LaunchShape`: while the control
thread dispatches, no behavior has begun whose event the owner could deliver.
`MissionKeepsPromise` maps whoever has authority to the child that has the
machine. Every step orders a mission (`Ordered`), counts a child that had the
machine (`Counted`), or does neither (`StageGoes`); in the last case the
invariant before and after alone decides which step of `Mission` it is, because
`MoverIsDue`: whoever has the machine is the child due, not yet done.

*Relay and senders.* `RelayInv` holds whoever sends: `WatchShape` bounds the age
of motion by its deadline, `JobShape` what a write under way may carry,
`StopShape` follows the newest zero from the queue through the write to the
line, `RestShape` adds that on loopback nothing is left behind it, `ClosedShape`
the order of the terminal zero and `close`. It says nothing of the queue beyond
the newest zero: datagrams may be lost, doubled and reordered at will.
`SenderShape` says what each sender still owes; `FixedShape` that hold and
latches rest on rows of this step.

*Cycle.* `LockOwnership`: each lock belongs to exactly the thread whose
unfinished call took it. `StageShape`: a stage with a leg has it running, or its
end is on the way in the thread with the executor's lock; otherwise the cycle
has no leg. `FeedbackShape` and `CancelShape`: what the unfinished calls may be.

### What stays with TLC

Liveness (`HandoffSettles`, `SilenceStopsMotion`, `DisarmReleasesOwner`): fairness
and ENABLED are out of the prover's reach. So are the six violations, which are
counterexamples and not theorems. `SequenceFreeView` and `CoreView` are argued
in section 3, not proved; the proofs do not use them.

Some definitions are written for the provers: `Itinerary` of `FixedCycle` is
given by the round of each place (`Round`, `PointOf`) instead of by recursion,
`Keep` of `ActionRelay` by the increasing choice of places.

## 5. Plan

Done: all modules of section 2, and the theorems of section 4. Left, in this
order:

1. What of `Mission` the coordinator of `EdgeCycle` does for one cycle, whose
   second leg waits for the PC.
2. `NeverLapped` from a bound on the commands between two deliveries, instead
   of as a hypothesis.
3. `EventStream` (`remote_transport.py:77-219`) and `ActionAudit`: the bounded
   queues, their close and their counters.
4. The runners over `ResidentCore` instead of the relay: which zero a closing
   runner with `retain_action_authority` really gets accepted.

## 6. Not modelled

ONNX inference, kinematics, observations and trajectory numerics (floating
point, no interacting state: their results are free choices); hashing and
validation of deployment files, plans and profiles; codecs, wording and logging;
the audit file; the newest-state frame sent to the ACT worker; the visualisation
snapshot of the mission; the event queue of a connection; the executor's close when
the TCP server itself shuts down; scripts and services.
The STM32 firmware and the serial line appear only as the external actions of
`ResidentSink`. Sequence numbers of external requests are modelled where the
code derives them itself (`spent` of `EdgeCycle` and `FixedCycle`), not where a
client chooses them.
