---------------------------- MODULE ResidentSink ----------------------------
(***************************************************************************)
(* The final serial boundary of the resident runtime: the command sink of  *)
(* edge_runtime/resident_sink.py with the motion authority it owns         *)
(* (edge_runtime/resident_motion.py), the sequence encoder                 *)
(* (edge_runtime/resident_commands.py), and around them the serial line    *)
(* and the STM32, modelled from what the sink reads in telemetry.          *)
(*                                                                         *)
(* Every public method of ResidentCommandSink runs under one lock and is   *)
(* one action here.  Its threads (the serial owner loop, the ACT data      *)
(* link, the RL runner, the control server) appear as the interleaving of  *)
(* those actions.  The clock is kept as ages: the age of the newest        *)
(* telemetry, of the last write, and what is left of a candidate lease.    *)
(*                                                                         *)
(* A candidate is stamped by its caller BEFORE the caller has the lock     *)
(* (resident_ingress.py:92,190), so a frame may be observed between the    *)
(* stamp and the submission.  Stamps are not kept: any submission may be   *)
(* "late".                                                                 *)
(***************************************************************************)
EXTENDS Integers, Sequences

CONSTANTS
    Source,         \* policy sources: "rl_follow", "act_dig"
    Mode,           \* the two command semantics of the firmware
    ModeOf,         \* the mode each source is bound to (PolicyBinding)
    None,           \* Python's None
    SeqMod,         \* size of the command sequence space, 2^32 in the code
    MaxAge,         \* _max_state_age_ns, in clock units
    Keepalive,      \* _IDLE_ZERO_KEEPALIVE_NS, in clock units
    MaxLease,       \* longest candidate validity, in clock units
    WireCap,        \* commands in flight to the STM32; one more loses the oldest
    Losses          \* what the environment may do wrong, a subset of Loss

Loss == {"serial_fault", "command_lost", "device_timeout", "unhealthy"}

VARIABLES
    gen, phase, active, target,     \* _AuthorityState
    pendingAck,     \* _pending_ack: the zero whose echo is awaited
    lease,          \* _candidate_lease
    measure,        \* _handoff_measurement; claimed: the target zero is recorded
    firstAck,       \* _pending_first_nonzero_ack
    unsafeLatched,  \* _unsafe_zero_latched
    status,         \* _synchronized, _terminally_disarmed, _terminal_error
    frame, age,     \* _latest_telemetry and its age
    nextSeq,        \* the encoder's next sequence number
    last, idle,     \* the last command written, and the time since
    ticked,         \* the owner loop has ticked since the clock advanced
    wire,           \* commands on the serial line, oldest first
    dev,            \* the command the STM32 reports in telemetry
    healthy         \* every other safety bit of telemetry at once

authority == <<gen, phase, active, target>>
handoff == <<pendingAck, measure, firstAck>>
output == <<nextSeq, last, idle, wire>>
evidence == <<frame, age>>
environment == <<dev, healthy>>
vars == <<authority, handoff, lease, unsafeLatched, status, evidence, output,
          ticked, environment>>

Seqs == 0 .. SeqMod - 1
Action == {"zero", "motion"}
Phase == {"idle", "terminal_zero_pending", "target_zero_pending", "active"}
ZeroPending == {"terminal_zero_pending", "target_zero_pending"}
Command == [seq : Seqs, mode : Mode, act : Action]
Device == [seq : Seqs, mode : Mode \cup {None}, act : Action, live : BOOLEAN]
Frame == [seq : Seqs, mode : Mode \cup {None}, act : Action, live : BOOLEAN,
          ok : BOOLEAN]
PendingAck == [gen : Nat, mode : Mode, purpose : ZeroPending, seq : Seqs]
Lease == [src : Source, gen : Nat, left : -1 .. MaxLease]
Measure == [gen : Nat, claimed : BOOLEAN]
FirstAck == [gen : Nat, mode : Mode, seq : Seqs]

ASSUME ConstantsAssumption ==
    /\ ModeOf \in [Source -> Mode]
    /\ None \notin Source \cup Mode
    /\ None \notin PendingAck \cup Lease \cup Measure \cup FirstAck \cup Frame \cup Command
    /\ SeqMod \in Nat /\ SeqMod > 1
    /\ MaxAge \in Nat /\ Keepalive \in Nat /\ MaxLease \in Nat
    /\ WireCap \in Nat /\ WireCap > 0 /\ WireCap < SeqMod
    /\ Losses \subseteq Loss

\* A candidate's action, or "bad": expired, from the future, or not finite and
\* in range.  The adapters fix its mode to its source's (resident_ingress.py:118,
\* 226), so route's "wrong_mode" cannot occur.
CandidateOf(gens) ==
    [src : Source, gen : gens, act : Action \cup {"bad"}, left : 0 .. MaxLease]

TypeOK ==
    /\ gen \in Nat
    /\ phase \in Phase
    /\ active \in Source \cup {None}
    /\ target \in Source \cup {None}
    /\ pendingAck \in PendingAck \cup {None}
    /\ lease \in Lease \cup {None}
    /\ measure \in Measure \cup {None}
    /\ firstAck \in FirstAck \cup {None}
    /\ unsafeLatched \in BOOLEAN
    /\ status \in {"new", "operational", "disarmed", "faulted"}
    /\ frame \in Frame \cup {None}
    /\ age \in 0 .. MaxAge + 1
    /\ nextSeq \in Seqs
    /\ last \in Command \cup {None}
    /\ idle \in 0 .. Keepalive
    /\ ticked \in BOOLEAN
    /\ wire \in Seq(Command)
    /\ dev \in Device
    /\ healthy \in BOOLEAN

Init ==
    /\ gen = 0 /\ phase = "idle" /\ active = None /\ target = None
    /\ pendingAck = None /\ lease = None /\ measure = None /\ firstAck = None
    /\ unsafeLatched = FALSE /\ status = "new"
    /\ frame = None /\ age = 0
    /\ nextSeq = 0 /\ last = None /\ idle = 0
    /\ ticked = TRUE /\ wire = <<>>
    /\ dev \in Device /\ (dev.mode = None => dev.act = "zero" /\ ~dev.live)
    /\ healthy \in (IF "unhealthy" \in Losses THEN BOOLEAN ELSE {TRUE})

-----------------------------------------------------------------------------
(* ResidentMotionAuthority: who owns motion.                               *)

RequestHandoffOf(s) ==
    /\ gen' = gen + 1
    /\ phase' = IF active = None THEN "target_zero_pending"
                                 ELSE "terminal_zero_pending"
    /\ target' = s
    /\ UNCHANGED active

StopAuthority ==
    /\ gen' = gen + 1
    /\ phase' = IF active = None THEN "idle" ELSE "terminal_zero_pending"
    /\ target' = None
    /\ UNCHANGED active

\* Mutant: the old owner's zero is taken for the new owner's as well.
AcknowledgeZeroAtOnce ==
    /\ UNCHANGED gen
    /\ phase' = IF target = None THEN "idle" ELSE "active"
    /\ active' = target
    /\ target' = None

AcknowledgeZero ==
    /\ UNCHANGED gen
    /\ IF phase = "target_zero_pending"
       THEN phase' = "active" /\ active' = target /\ target' = None
       ELSE /\ phase' = IF target = None THEN "idle" ELSE "target_zero_pending"
            /\ active' = None
            /\ UNCHANGED target

\* pending_zero: the mode whose zero must be echoed before the phase can end.
ZeroMode == ModeOf[IF phase = "terminal_zero_pending" THEN active ELSE target]

\* The mode a rejected candidate's zero would be written in.
DecisionMode ==
    IF phase \in ZeroPending THEN ZeroMode
    ELSE IF active = None THEN None ELSE ModeOf[active]

\* Mutant: a superseded generation is not noticed.
RouteAnyGeneration(c, permitted) ==
    CASE phase = "idle" -> "no_active_policy"
      [] phase \in ZeroPending -> "handoff_in_progress"
      [] phase = "active" ->
           IF c.src # active THEN "wrong_source"
           ELSE IF ~permitted THEN "safety_rejected"
           ELSE IF c.act = "bad" THEN "action_rejected"
           ELSE "accepted"

\* route: the first rule that rejects candidate c, else "accepted".
Route(c, permitted) ==
    CASE phase = "idle" -> "no_active_policy"
      [] phase \in ZeroPending -> "handoff_in_progress"
      [] phase = "active" ->
           IF c.src # active THEN "wrong_source"
           ELSE IF c.gen # gen THEN "stale_generation"
           ELSE IF ~permitted THEN "safety_rejected"
           ELSE IF c.act = "bad" THEN "action_rejected"
           ELSE "accepted"

Passive == {"no_active_policy", "wrong_source", "stale_generation"}

-----------------------------------------------------------------------------
(* The writer.                                                             *)

Transmit(cmd) ==
    Append(IF Len(wire) < WireCap THEN wire ELSE Tail(wire), cmd)

\* Mutant: the sequence does not wrap.
WriteNoWrap(mode, act, sent) ==
    LET cmd == [seq |-> nextSeq, mode |-> mode, act |-> act] IN
    /\ nextSeq' = nextSeq + 1
    /\ IF sent THEN last' = cmd /\ idle' = 0 /\ wire' = Transmit(cmd)
               ELSE /\ UNCHANGED <<last, idle>>
                    /\ wire' \in {wire, Transmit(cmd)}

\* _write_locked.  A failing write consumes the sequence number, and its bytes
\* may still have reached the line (flush fails after a complete write).
Write(mode, act, sent) ==
    LET cmd == [seq |-> nextSeq, mode |-> mode, act |-> act] IN
    /\ nextSeq' = (nextSeq + 1) % SeqMod
    /\ IF sent THEN last' = cmd /\ idle' = 0 /\ wire' = Transmit(cmd)
               ELSE /\ UNCHANGED <<last, idle>>
                    /\ wire' \in {wire, Transmit(cmd)}

\* A failed write leaves the sink faulted for good.
StatusAfter(sent) == IF sent THEN status ELSE "faulted"

\* Mutant: the awaited echo keeps the superseded generation.
IssuePendingZeroOldGeneration(sent) ==
    IF phase' \in ZeroPending
    THEN /\ Write(ZeroMode', "zero", sent)
         /\ pendingAck' = IF sent
              THEN [gen |-> gen, mode |-> ZeroMode', purpose |-> phase',
                    seq |-> nextSeq]
              ELSE None
         /\ status' = StatusAfter(sent)
    ELSE /\ pendingAck' = None
         /\ UNCHANGED <<output, status>>

\* _issue_pending_zero_locked, in the authority's new state.  What a faulted
\* sink keeps in _pending_ack is never read again: None.
IssuePendingZero(sent) ==
    IF phase' \in ZeroPending
    THEN /\ Write(ZeroMode', "zero", sent)
         /\ pendingAck' = IF sent
              THEN [gen |-> gen', mode |-> ZeroMode', purpose |-> phase',
                    seq |-> nextSeq]
              ELSE None
         /\ status' = StatusAfter(sent)
    ELSE /\ pendingAck' = None
         /\ UNCHANGED <<output, status>>

\* Mutant: a stop keeps the evidence of the handoff it ends.
StopKeepsEvidence(sent) ==
    /\ StopAuthority
    /\ lease' = None
    /\ UNCHANGED <<measure, firstAck>>
    /\ unsafeLatched' = TRUE
    /\ IssuePendingZero(sent)

\* What every stop does: request_stop, request_source_stop, the lease expiry in
\* tick and _revoke_for_safety_locked.
Stop(sent) ==
    /\ StopAuthority
    /\ lease' = None
    /\ measure' = None /\ firstAck' = None
    /\ unsafeLatched' = TRUE
    /\ IssuePendingZero(sent)

Sent == IF "serial_fault" \in Losses THEN BOOLEAN ELSE {TRUE}

-----------------------------------------------------------------------------
(* Evidence.                                                               *)

\* _safety_permits_locked for a frame f of age a.
Safe(f, a, mode) == a <= MaxAge /\ f.ok /\ f.live /\ f.mode = mode

\* Mutant: a cached frame is trusted however old it is.
SafetyPermitsAnyAge == active # None /\ Safe(frame, 0, ModeOf[active])

SafetyPermits == active # None /\ Safe(frame, age, ModeOf[active])

\* _ack_matches_locked.
AckMatches(f) ==
    /\ pendingAck # None
    /\ f.seq = pendingAck.seq /\ f.live
    /\ f.mode = pendingAck.mode /\ f.act = "zero"
    /\ pendingAck.purpose = "target_zero_pending" => Safe(f, 0, pendingAck.mode)

\* _first_nonzero_ack_matches_locked.
FirstAckMatches(f) ==
    /\ firstAck # None
    /\ f.seq = firstAck.seq /\ f.live /\ f.mode = firstAck.mode

Sample == [seq |-> dev.seq, mode |-> dev.mode, act |-> dev.act,
           live |-> dev.live, ok |-> healthy]

-----------------------------------------------------------------------------
(* The methods of ResidentCommandSink.                                     *)

\* initialize: adopt the device's sequence; a device that never received a
\* command starts the sequence at 0.
Initialize ==
    /\ status = "new"
    /\ status' = "operational"
    /\ nextSeq' = IF dev.mode = None THEN 0 ELSE (dev.seq + 1) % SeqMod
    /\ frame' = Sample /\ age' = 0
    /\ UNCHANGED <<authority, handoff, lease, unsafeLatched, last, idle, wire,
                   ticked, environment>>

RequestHandoff(s, sent) ==
    /\ status = "operational"
    /\ RequestHandoffOf(s)
    /\ measure' = None /\ firstAck' = None
    /\ lease' = None
    /\ unsafeLatched' = FALSE
    /\ IssuePendingZero(sent)
    /\ UNCHANGED <<evidence, ticked, environment>>

RequestStop(sent) ==
    /\ status = "operational"
    /\ Stop(sent)
    /\ UNCHANGED <<evidence, ticked, environment>>

\* request_source_stop: a source that lost generation g stops nothing.
RequestSourceStop(s, g, sent) ==
    /\ status = "operational"
    /\ g = gen /\ s \in {active, target}
    /\ Stop(sent)
    /\ UNCHANGED <<evidence, ticked, environment>>

\* Mutant: the successor's zero is left to the next tick, which has no such case.
ObserveZeroAckOnly(f, sent) ==
    /\ AckMatches(f)
    /\ AcknowledgeZero
    /\ UNCHANGED <<measure, firstAck, lease, output, status>>
    /\ unsafeLatched' = (unsafeLatched /\ phase # "target_zero_pending")
    /\ pendingAck' = None

\* The awaited zero is echoed in frame f, and either the old owner is gone, or
\* its successor's zero is written, or the successor owns motion.
ObserveZeroAck(f, sent) ==
    /\ AckMatches(f)
    /\ AcknowledgeZero
    /\ measure' =
         IF phase = "terminal_zero_pending"
         THEN IF target = None THEN measure
              ELSE IF sent THEN [gen |-> gen, claimed |-> FALSE] ELSE None
         ELSE IF measure # None /\ measure.gen = gen
              THEN [measure EXCEPT !.claimed = TRUE] ELSE measure
    /\ firstAck' = IF sent THEN firstAck ELSE None
    /\ unsafeLatched' = (unsafeLatched /\ phase # "target_zero_pending")
    /\ IssuePendingZero(sent)
    /\ UNCHANGED lease

\* Mutant: the frame that echoes the first motion is not judged itself.
ObserveOtherTrustsEcho(f, sent) ==
    LET safe == active # None /\ Safe(f, 0, ModeOf[active]) IN
    /\ ~AckMatches(f)
    /\ IF active # None /\ ~safe /\ ~unsafeLatched /\ ~FirstAckMatches(f)
       THEN Stop(sent)
       ELSE /\ unsafeLatched' =
                 (unsafeLatched /\ ~(safe /\ pendingAck = None))
            /\ IF FirstAckMatches(f) THEN measure' = None /\ firstAck' = None
                                     ELSE UNCHANGED <<measure, firstAck>>
            /\ UNCHANGED <<authority, pendingAck, lease, output, status>>

\* No zero is acknowledged by f.  A first nonzero command echoed in f ends the
\* handoff measurement; then f itself is judged.
ObserveOther(f, sent) ==
    LET safe == active # None /\ Safe(f, 0, ModeOf[active]) IN
    /\ ~AckMatches(f)
    /\ IF active # None /\ ~safe /\ ~unsafeLatched
       THEN Stop(sent)
       ELSE /\ unsafeLatched' =
                 (unsafeLatched /\ ~(safe /\ pendingAck = None))
            /\ IF FirstAckMatches(f) THEN measure' = None /\ firstAck' = None
                                     ELSE UNCHANGED <<measure, firstAck>>
            /\ UNCHANGED <<authority, pendingAck, lease, output, status>>

\* observe_telemetry.  One thread reads the serial line, so frames are not older
\* than the newest one; a sink that is disarmed or faulted only keeps the frame.
ObserveFrame(f, sent) ==
    /\ status # "new"
    /\ frame' = f /\ age' = 0
    /\ IF status = "operational"
       THEN ObserveZeroAck(f, sent) \/ ObserveOther(f, sent)
       ELSE UNCHANGED <<authority, handoff, lease, unsafeLatched, output, status>>
    /\ UNCHANGED <<ticked, environment>>

ObserveTelemetry(sent) == ObserveFrame(Sample, sent)

\* An expected row that cannot be parsed repeats the newest frame as unsafe.
InvalidateTelemetry(sent) ==
    /\ status # "new"
    /\ ObserveFrame([frame EXCEPT !.ok = FALSE], sent)

\* A zero or motion command written for candidate c.
WriteDecision(c, accepted, sent) ==
    LET act == IF accepted THEN c.act ELSE "zero"
        moves == act = "motion"
        first == /\ moves /\ measure # None /\ measure.gen = c.gen
                 /\ firstAck = None IN
    /\ Write(DecisionMode, act, sent)
    /\ status' = StatusAfter(sent)
    /\ lease' = IF ~sent THEN lease
                ELSE IF moves THEN [src |-> c.src, gen |-> c.gen, left |-> c.left]
                ELSE None
    /\ firstAck' = IF ~sent \/ ~accepted THEN None
                   ELSE IF first THEN [gen |-> c.gen, mode |-> ModeOf[c.src], seq |-> nextSeq]
                   ELSE firstAck
    /\ measure' = IF sent /\ accepted THEN measure ELSE None
    /\ unsafeLatched' = IF sent THEN ~accepted ELSE unsafeLatched
    /\ UNCHANGED <<authority, pendingAck>>

\* submit_candidate, with a stamp that predates the newest frame if "late".
SubmitCandidate(c, late, sent) ==
    LET reason == Route(c, ~late /\ SafetyPermits) IN
    /\ status = "operational"
    /\ IF \/ pendingAck # None \/ DecisionMode = None \/ reason \in Passive
          \/ reason = "accepted" /\ firstAck # None
       THEN UNCHANGED <<authority, handoff, lease, unsafeLatched, output, status>>
       ELSE IF reason = "safety_rejected" THEN Stop(sent)
       ELSE WriteDecision(c, reason = "accepted", sent)
    /\ UNCHANGED <<evidence, ticked, environment>>

LeaseCurrent == lease # None /\ lease.src = active /\ lease.gen = gen
\* Mutant: the lease is not enforced until the first motion is echoed.
LeaseExpiredAfterEcho == LeaseCurrent /\ lease.left < 0 /\ firstAck = None
LeaseExpired == LeaseCurrent /\ lease.left < 0

\* tick: the owner loop's periodic call.
TickExpireLease(sent) ==
    /\ LeaseExpired
    /\ Stop(sent)

TickWatchdog(sent) ==
    /\ ~LeaseExpired
    /\ active # None /\ pendingAck = None /\ ~unsafeLatched
    /\ ~SafetyPermits
    /\ Stop(sent)

KeepaliveDue ==
    /\ lease = None /\ firstAck = None
    /\ last # None /\ idle >= Keepalive

TickKeepalive(sent) ==
    /\ active # None /\ pendingAck = None /\ ~unsafeLatched
    /\ SafetyPermits
    /\ KeepaliveDue
    /\ Write(ModeOf[active], "zero", sent)
    /\ status' = StatusAfter(sent)
    /\ measure' = IF sent THEN measure ELSE None
    /\ UNCHANGED <<authority, pendingAck, firstAck, lease, unsafeLatched>>

TickQuiet ==
    /\ ~LeaseExpired
    /\ \/ active = None \/ pendingAck # None \/ unsafeLatched
       \/ SafetyPermits /\ ~KeepaliveDue
    /\ lease' = IF LeaseCurrent THEN lease ELSE None
    /\ UNCHANGED <<authority, handoff, unsafeLatched, output, status>>

\* Mutant: the loop goes on ticking a sink that was disarmed.
TickWhileDisarmed(sent) ==
    /\ status # "new"
    /\ ticked' = TRUE
    /\ TickExpireLease(sent) \/ TickWatchdog(sent) \/ TickKeepalive(sent) \/ TickQuiet
    /\ UNCHANGED <<evidence, environment>>

Tick(sent) ==
    /\ status = "operational"
    /\ ticked' = TRUE
    /\ TickExpireLease(sent) \/ TickWatchdog(sent) \/ TickKeepalive(sent) \/ TickQuiet
    /\ UNCHANGED <<evidence, environment>>

\* Mutant: only a pending zero tells the mode of the last write.
TerminalDisarmPendingOnly(sent) ==
    LET mode == IF pendingAck # None THEN pendingAck.mode ELSE None IN
    /\ status = "operational"
    /\ StopAuthority
    /\ lease' = None
    /\ pendingAck' = None /\ measure' = None /\ firstAck' = None
    /\ unsafeLatched' = TRUE
    /\ IF mode = None
       THEN status' = "disarmed" /\ UNCHANGED output
       ELSE /\ Write(mode, "zero", sent)
            /\ status' = IF sent THEN "disarmed" ELSE "faulted"
    /\ UNCHANGED <<evidence, ticked, environment>>

\* terminal_disarm: the last write, in the mode the device may be moving in.
TerminalDisarm(sent) ==
    LET mode == IF active # None THEN ModeOf[active]
                ELSE IF pendingAck # None THEN pendingAck.mode ELSE None IN
    /\ status = "operational"
    /\ StopAuthority
    /\ lease' = None
    /\ pendingAck' = None /\ measure' = None /\ firstAck' = None
    /\ unsafeLatched' = TRUE
    /\ IF mode = None
       THEN status' = "disarmed" /\ UNCHANGED output
       ELSE /\ Write(mode, "zero", sent)
            /\ status' = IF sent THEN "disarmed" ELSE "faulted"
    /\ UNCHANGED <<evidence, ticked, environment>>

-----------------------------------------------------------------------------
(* Time, the serial line and the STM32.                                    *)

sinkVars == <<authority, handoff, lease, unsafeLatched, status>>

Clock ==
    /\ age' = IF age <= MaxAge THEN age + 1 ELSE age
    /\ idle' = IF idle < Keepalive THEN idle + 1 ELSE idle
    /\ lease' = IF lease # None /\ lease.left >= 0
                THEN [lease EXCEPT !.left = @ - 1] ELSE lease
    /\ ticked' = FALSE
    /\ UNCHANGED <<authority, handoff, unsafeLatched, status, frame, nextSeq,
                   last, wire, environment>>

DeliverCommand ==
    /\ wire # <<>>
    /\ dev' = [seq |-> Head(wire).seq, mode |-> Head(wire).mode,
               act |-> Head(wire).act, live |-> TRUE]
    /\ wire' = Tail(wire)
    /\ UNCHANGED <<sinkVars, evidence, nextSeq, last, idle, ticked, healthy>>

LoseCommand ==
    /\ "command_lost" \in Losses
    /\ wire # <<>>
    /\ wire' = Tail(wire)
    /\ UNCHANGED <<sinkVars, evidence, nextSeq, last, idle, ticked, environment>>

\* The STM32 stops by itself when no command arrives for a while.
DeviceTimeout ==
    /\ "device_timeout" \in Losses
    /\ dev.live
    /\ dev' = [dev EXCEPT !.live = FALSE]
    /\ UNCHANGED <<sinkVars, evidence, output, ticked, healthy>>

\* Any of control_enabled, estop, sensor_valid, stm32_alive, fault_flags.
HealthChange ==
    /\ "unhealthy" \in Losses
    /\ healthy' = ~healthy
    /\ UNCHANGED <<sinkVars, evidence, output, ticked, dev>>

\* Every superseded generation is rejected alike: the previous one stands for all.
Generations == {g \in {gen - 1, gen} : g >= 0}

\* The control server, the fixed-cycle runtime and a failing source.
Request ==
    \E sent \in Sent :
      \/ \E s \in Source : RequestHandoff(s, sent)
      \/ \E s \in Source, g \in Generations : RequestSourceStop(s, g, sent)
      \/ RequestStop(sent)

\* The owner loop: one telemetry row or one tick.
Observe == \E sent \in Sent : ObserveTelemetry(sent)
Invalidate == \E sent \in Sent : InvalidateTelemetry(sent)
OwnerTick == \E sent \in Sent : Tick(sent)

\* The RL runner and the ACT data link.
Submit ==
    \E c \in CandidateOf(Generations), late \in BOOLEAN, sent \in Sent :
      SubmitCandidate(c, late, sent)

Disarm == \E sent \in Sent : TerminalDisarm(sent)

Internal ==
    \/ Initialize
    \/ Observe \/ Invalidate \/ OwnerTick
    \/ Submit
    \/ Disarm
    \/ Clock
    \/ DeliverCommand \/ LoseCommand \/ DeviceTimeout \/ HealthChange

Next == Request \/ Internal

Spec == Init /\ [][Next]_vars

\* Time passes, the owner loop ticks, the line delivers, telemetry arrives.
\* Nothing is assumed of sources, requests or losses.
Timely == WF_vars(Clock) /\ WF_vars(OwnerTick)
Connected == WF_vars(DeliverCommand) /\ WF_vars(Observe)

-----------------------------------------------------------------------------
(* Safety.                                                                 *)

Moving == status = "operational" /\ last # None /\ last.act = "motion"

\* Motion on the line is always covered: while the last command written is a
\* motion, its source owns the current generation, the mode is that source's,
\* and the lease that tick enforces is this source's and this generation's.
\* (Every path that takes ownership or the lease away must write a zero first.)
MotionIsLeased ==
    Moving => /\ phase = "active" /\ pendingAck = None
              /\ last.mode = ModeOf[active]
              /\ LeaseCurrent

\* Motion never outlives its evidence: after any frame that is not safe for the
\* owner's mode, the last command written is a zero, whichever of observe, tick
\* and submit saw the frame first and whatever the unsafe latch was.
MotionHasSafeEvidence ==
    Moving => Safe(frame, 0, ModeOf[active]) /\ ~unsafeLatched

\* Once the owner loop has ticked, no motion is left on the line whose candidate
\* lease has run out or whose newest telemetry is over the age limit.
MotionStopsInTime ==
    Moving /\ ticked => lease.left >= 0 /\ age <= MaxAge

\* The zero whose echo the sink waits for is the one the authority waits for
\* (same generation, mode and purpose), so acknowledge_zero never rejects an
\* echo; and an operational sink with a handoff in progress always waits for one.
PendingAckAgrees ==
    status = "operational" =>
      /\ pendingAck # None <=> phase \in ZeroPending
      /\ pendingAck # None => /\ pendingAck.gen = gen
                              /\ pendingAck.purpose = phase
                              /\ pendingAck.mode = ZeroMode

\* When the first motion of a handoff is echoed, its evidence is complete and
\* of the current generation: observe_telemetry cannot raise "handoff
\* measurement state is inconsistent" or "evidence is incomplete" into the
\* owner loop (resident_sink.py:436,803; resident_motion.py:324,326).
HandoffEvidenceComplete ==
    status = "operational" /\ firstAck # None =>
      /\ phase = "active" /\ firstAck.gen = gen
      /\ measure # None /\ measure.gen = gen /\ measure.claimed

\* A disarmed sink left the machine with a zero, also when no owner and no
\* pending zero told terminal_disarm which mode to write in.
DisarmedMeansZero ==
    status = "disarmed" => last = None \/ last.act = "zero"

\* Nothing is written after terminal_disarm or after a serial fault.
NoWriteAfterTheEnd ==
    [][(status \in {"disarmed", "faulted"}) => UNCHANGED <<nextSeq, last>>]_vars

\* What the boundary promises the machine: ownership is taken only on a machine
\* that holds a zero in the new owner's mode, and the machine enters a mode only
\* at a zero, whatever the line loses or delays.
Ownership == INSTANCE MotionOwnership WITH
    owner <- IF phase = "active" THEN active ELSE None,
    machine <- [mode |-> dev.mode, act |-> dev.act]

ImplementsOwnership == Ownership!Spec

-----------------------------------------------------------------------------
(* Liveness.                                                               *)

\* The state-silence watchdog: if telemetry stops, motion stops for good,
\* although every source goes on submitting.
SilenceStopsMotion ==
    <>[][~Observe /\ ~Invalidate]_vars => <>[]~Moving

\* On a line that delivers, with telemetry that arrives, a handoff or stop that
\* nothing supersedes (no newer generation) completes: the sink never waits for
\* ever for the echo of a zero, or with a phase whose zero was never written.
HandoffSettles ==
    Connected /\ <>[][gen' = gen]_vars
      => <>[](status = "operational" => phase \in {"idle", "active"})

=============================================================================
