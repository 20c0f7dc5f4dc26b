---------------------------- MODULE ResidentCore ----------------------------
(***************************************************************************)
(* The resident motion core around its command sink: ResidentMotionCore    *)
(* (edge_runtime/resident_core.py), the RL and ACT ingress adapters        *)
(* (resident_ingress.py), the ACT worker's data link (resident_data_link   *)
(* .py), the control server's requests (resident_control.py) and the owner *)
(* loop of orin_state_sender.py with its shutdown.                         *)
(*                                                                         *)
(* It composes with ResidentSink: a step of the core makes at most one     *)
(* call of the sink, whose action is a conjunct of the step.  The core's   *)
(* control lock covers a whole method except observe_telemetry, where the  *)
(* sink has taken the frame before the lock is asked for ("segment").      *)
(*                                                                         *)
(* tick and renew_mission_lease read the clock BEFORE they have the lock   *)
(* (resident_core.py:489,507).  A stamp in time may be used late: the      *)
(* control thread keeps it ("stamped").  A stamp past the deadline acts as *)
(* one taken with the lock: the lease is still over, or the core is; and a *)
(* tick stamped in time acts as one that ran before the lease passed.      *)
(***************************************************************************)
EXTENDS ResidentSink, FiniteSets

CONSTANTS
    RL, ACT,        \* the two sources
    Budget,         \* max_steps that activate_act is called with
    EarlyMin,       \* act_early_completion_min_steps
    Acts, Late,     \* what candidates carry, and whether a frame overtakes them
    MaxLost         \* bound: lost connections whose callback has not run yet

ASSUME CoreAssumption ==
    /\ Source = {RL, ACT} /\ RL # ACT
    /\ ModeOf[RL] # ModeOf[ACT]
    /\ Budget \subseteq Nat \ {0}
    /\ EarlyMin \in Nat /\ MaxLost \in Nat
    /\ Acts \subseteq Action \cup {"bad"} /\ Late \subseteq BOOLEAN
    /\ None \notin Nat \cup {"fresh", "expired"}

VARIABLES
    seg,            \* _act_segment
    held,           \* the adapters' _state.generation
    mission,        \* _mission_lease_deadline_ns: None, "fresh" or "expired"
    result, acked,  \* _terminal_disarm_result, _terminal_zero_acknowledged
    connected,      \* the data link's _active_connection
    lost,           \* callbacks of lost connections that have not run yet
    pc, ctl,        \* the owner and the control thread
    command         \* what the control thread executes

segment == <<seg, held>>
lifetime == <<mission, result, acked>>
link == <<connected, lost>>
control == <<ctl, command>>
threads == <<pc, control>>
coreVars == <<segment, lifetime, link, threads>>
allVars == <<vars, coreVars>>

Manual == ModeOf[ACT]
Result == [seq : Seqs \cup {None}, mode : Mode \cup {None}]
Ended == {"released", "failed"}
Renewing == {"renew_lease", "activate_rl", "activate_act"}

CoreTypeOK ==
    /\ TypeOK
    /\ seg \in [gen : Nat \cup {None}, max : Budget \cup {None}, steps : Nat,
                due : BOOLEAN, complete : BOOLEAN, final : Seqs \cup {None}]
    /\ seg.max # None => seg.steps <= seg.max
    /\ held \in [Source -> Nat \cup {None}]
    /\ mission \in {None, "fresh", "expired"}
    /\ result \in Result \cup {None} /\ acked \in BOOLEAN
    /\ connected \in BOOLEAN /\ lost \in 0 .. MaxLost
    /\ pc \in {"tick", "row", "segment", "exit", "waiting"} \cup Ended
    /\ ctl \in {"idle", "act_ready", "stamped", "renewed"}
    /\ command \in Renewing \cup {None}

\* The owner starts on a machine that does not move.
CoreInit ==
    /\ Init /\ dev.act = "zero"
    /\ seg = [gen |-> None, max |-> None, steps |-> 0,
              due |-> FALSE, complete |-> FALSE, final |-> None]
    /\ held = [s \in Source |-> None]
    /\ mission = None /\ result = None /\ acked = FALSE
    /\ connected = FALSE /\ lost = 0
    /\ pc = "tick" /\ ctl = "idle" /\ command = None

-----------------------------------------------------------------------------
(* What the core's methods share.                                          *)

Operational == status = "operational"
NoSinkCall == UNCHANGED vars
FaultsNow == status' = "faulted" /\ status # "faulted"

\* begin_activation of s: its generation is kept while it is current.
Holds(s) == held[s] # None /\ held[s] = gen /\ s \in {active, target}

BeginActivation(s, sent) ==
    IF Holds(s)
    THEN NoSinkCall /\ UNCHANGED held
    ELSE /\ RequestHandoff(s, sent)
         /\ held' = IF sent THEN [held EXCEPT ![s] = gen'] ELSE held

\* request_source_stop, which tells a caller of another generation FALSE.
Revocable(s, g) == Operational /\ g = gen /\ s \in {active, target}

SourceStop(s, g, sent) ==
    IF Revocable(s, g) THEN RequestSourceStop(s, g, sent) ELSE NoSinkCall

NoLongerDue == [seg EXCEPT !.due = FALSE]

\* The mode that the sink's terminal_disarm writes its zero in, if any.
DisarmMode == IF active # None THEN ModeOf[active]
              ELSE IF pendingAck # None THEN pendingAck.mode ELSE None

\* Mutant: a zero that was written counts as acknowledged.
CoreDisarmTrusting(sent) ==
    /\ status # "new"
    /\ IF result # None
       THEN NoSinkCall /\ UNCHANGED <<lifetime, seg>>
       ELSE /\ mission' = None /\ seg' = NoLongerDue
            /\ IF Operational
               THEN /\ TerminalDisarm(sent)
                    /\ IF DisarmMode = None \/ sent
                       THEN /\ result' = [seq |-> IF DisarmMode = None THEN None ELSE nextSeq,
                                          mode |-> DisarmMode]
                            /\ acked' = TRUE
                       ELSE UNCHANGED <<result, acked>>
               ELSE /\ NoSinkCall
                    /\ result' = [seq |-> None, mode |-> None]
                    /\ acked' = FALSE

\* The core's terminal_disarm.  Its first result is kept; a write that fails leaves
\* none, and the next call finds the sink faulted.
CoreDisarm(sent) ==
    /\ status # "new"
    /\ IF result # None
       THEN NoSinkCall /\ UNCHANGED <<lifetime, seg>>
       ELSE /\ mission' = None /\ seg' = NoLongerDue
            /\ IF Operational
               THEN /\ TerminalDisarm(sent)
                    /\ IF DisarmMode = None \/ sent
                       THEN /\ result' = [seq |-> IF DisarmMode = None THEN None ELSE nextSeq,
                                          mode |-> DisarmMode]
                            /\ acked' = (DisarmMode = None)
                       ELSE UNCHANGED <<result, acked>>
               ELSE /\ NoSinkCall
                    /\ result' = [seq |-> None, mode |-> None]
                    /\ acked' = FALSE

\* _terminal_zero_ack_matches, and the loop of wait_for_resident_terminal_zero_ack.
EchoesTerminalZero(f) ==
    /\ result # None /\ result.seq # None
    /\ f.seq = result.seq /\ f.mode = result.mode /\ f.live /\ f.act = "zero"

\* Mutant: the segment is complete once its final command is written.
SegmentAckedOnWrite(f) == seg.due /\ ~seg.complete /\ seg.final # None

\* _act_segment_acknowledged.
SegmentAcked(f) ==
    /\ seg.due /\ ~seg.complete /\ seg.final # None
    /\ f.seq = seg.final /\ f.live /\ f.mode = Manual

-----------------------------------------------------------------------------
(* The owner loop.                                                         *)

OwnerGoes(to) == pc' = IF FaultsNow THEN "exit" ELSE to

\* Mutant: the owner's tick does not look at the mission lease.
TickCoreIgnoringLease(sent) ==
    /\ pc = "tick"
    /\ IF ~Operational THEN NoSinkCall ELSE Tick(sent)
    /\ \/ OwnerGoes("row")
       \/ status' \notin {"new", "operational"} /\ pc' = "exit"
    /\ UNCHANGED <<lifetime, seg, held, link, control>>

\* resident_owner_tick_requests_exit; a fixed-cycle owner may stay for a while.
TickCore(sent) ==
    /\ pc = "tick"
    /\ IF status = "new" \/ (mission # "expired" /\ ~Operational)
       THEN NoSinkCall /\ UNCHANGED <<lifetime, seg>>
       ELSE IF mission = "expired"
       THEN CoreDisarm(sent)
       ELSE Tick(sent) /\ UNCHANGED <<lifetime, seg>>
    /\ \/ OwnerGoes("row")
       \/ status' \notin {"new", "operational"} /\ pc' = "exit"
    /\ UNCHANGED <<held, link, control>>

\* One row of the serial line: none or a bad one, or the sink's half of
\* initialize or observe_telemetry.
ReadRow(sent) ==
    /\ pc = "row"
    /\ \/ Initialize /\ OwnerGoes("tick")
       \/ status = "new" /\ NoSinkCall /\ OwnerGoes("tick")
       \/ InvalidateTelemetry(sent) /\ OwnerGoes("tick")
       \/ ObserveTelemetry(sent) /\ OwnerGoes("segment")
    /\ UNCHANGED <<segment, lifetime, link, control>>

\* The core's half, under the control lock.
ObserveSegment(sent) ==
    /\ pc = "segment"
    /\ acked' = (acked \/ EchoesTerminalZero(frame))
    /\ IF SegmentAcked(frame) /\ phase = "active" /\ active = ACT /\ gen = seg.gen
       THEN /\ BeginActivation(RL, sent)
            /\ seg' = IF FaultsNow THEN seg ELSE [NoLongerDue EXCEPT !.complete = TRUE]
       ELSE NoSinkCall /\ UNCHANGED segment
    /\ OwnerGoes("tick")
    /\ UNCHANGED <<mission, result, link, control>>

\* The finally clause, after the loop, a failed write or a SIGTERM.
Shutdown(sent) ==
    /\ pc \in {"tick", "row", "exit"}
    /\ CoreDisarm(sent)
    /\ pc' = IF FaultsNow THEN "failed" ELSE "waiting"
    /\ UNCHANGED <<held, link, control>>

\* resident_terminal_zero_is_acknowledged; without it the process fails.
WaitForAck ==
    /\ pc = "waiting"
    /\ \/ (acked \/ EchoesTerminalZero(Sample)) /\ pc' = "released"
       \/ ~acked /\ pc' = "failed"
    /\ NoSinkCall /\ UNCHANGED <<segment, lifetime, link, control>>

-----------------------------------------------------------------------------
(* The PC's requests, on the control thread.                               *)

\* The thread is done with a command, whether it succeeded or raised.
Done == ctl' = "idle" /\ command' = None

\* act_worker_ready is read first, and used later.
CheckWorker ==
    /\ ctl = "idle" /\ connected
    /\ ctl' = "act_ready" /\ command' = "activate_act"
    /\ NoSinkCall /\ UNCHANGED <<segment, lifetime, link, pc>>

\* The ACT executor's machine is busy with RL.
ActivateActRefused ==
    /\ ctl = "act_ready" /\ Done
    /\ NoSinkCall /\ UNCHANGED <<segment, lifetime, link, pc>>

\* Every renewing command but activate_act comes from an idle thread.
Comes(c) == IF c = "activate_act" THEN ctl = "act_ready" ELSE ctl = "idle"

\* renew_mission_lease reads the clock before the deadline, or long before it asks
\* for the lock.
Stamp(c) ==
    /\ Comes(c) /\ mission # "expired"
    /\ ctl' = "stamped" /\ command' = c
    /\ NoSinkCall /\ UNCHANGED <<segment, lifetime, link, pc>>

\* The clock is read past the deadline.
RenewTooLate(c, sent) ==
    /\ Comes(c) /\ Done
    /\ Operational /\ mission = "expired"
    /\ CoreDisarm(sent)
    /\ UNCHANGED <<held, link, pc>>

\* Under the lock the stamp is compared with the deadline it was in time for, which
\* may have passed since.
Renew ==
    /\ ctl = "stamped" /\ Operational
    /\ mission' = "fresh"
    /\ IF command = "renew_lease" THEN Done ELSE ctl' = "renewed" /\ UNCHANGED command
    /\ NoSinkCall /\ UNCHANGED <<segment, result, acked, link, pc>>

\* The core ended before the lease could be renewed.
RenewRefused ==
    /\ ctl = "stamped" /\ ~Operational /\ Done
    /\ NoSinkCall /\ UNCHANGED <<segment, lifetime, link, pc>>

\* request_handoff raises on a sink that has ended since the lease was renewed.
ActivateRefused ==
    /\ ctl = "renewed" /\ Done
    /\ ~Operational /\ ~Holds(IF command = "activate_rl" THEN RL ELSE ACT)
    /\ NoSinkCall /\ UNCHANGED <<segment, lifetime, link, pc>>

ActivateRl(sent) ==
    /\ ctl = "renewed" /\ command = "activate_rl" /\ Done
    /\ BeginActivation(RL, sent)
    /\ seg' = IF FaultsNow THEN seg ELSE NoLongerDue
    /\ UNCHANGED <<lifetime, link, pc>>

\* A generation that is still current keeps its tracker.
ActivateAct(max, sent) ==
    /\ ctl = "renewed" /\ command = "activate_act" /\ Done
    /\ BeginActivation(ACT, sent)
    /\ seg' = IF FaultsNow \/ seg.gen = held'[ACT] THEN seg
              ELSE [gen |-> held'[ACT], max |-> max, steps |-> 0,
                    due |-> FALSE, complete |-> FALSE, final |-> None]
    /\ UNCHANGED <<lifetime, link, pc>>

\* terminal_disarm, of the control server or of the fixed cycle's own thread.
RequestDisarm(sent) ==
    /\ CoreDisarm(sent)
    /\ UNCHANGED <<held, link, threads>>

-----------------------------------------------------------------------------
(* The ACT worker's data link.                                             *)

Connect ==
    /\ ~connected /\ connected' = TRUE
    /\ NoSinkCall /\ UNCHANGED <<segment, lifetime, lost, threads>>

CloseConnection == connected' = FALSE /\ lost' = lost + 1

Disconnect ==
    /\ connected /\ lost < MaxLost
    /\ CloseConnection
    /\ NoSinkCall /\ UNCHANGED <<segment, lifetime, threads>>

\* Mutant: a segment that only waits for its echo is left alone.
NotifyUnlessDue(sent) ==
    /\ lost > 0 /\ lost' = lost - 1
    /\ IF ~seg.due THEN SourceStop(ACT, seg.gen, sent) ELSE NoSinkCall
    /\ UNCHANGED <<segment, lifetime, connected, threads>>

\* notify_act_worker_disconnected, for whatever generation is current by now.
Notify(sent) ==
    /\ lost > 0 /\ lost' = lost - 1
    /\ SourceStop(ACT, seg.gen, sent)
    /\ seg' = IF Revocable(ACT, seg.gen) /\ ~FaultsNow THEN NoLongerDue ELSE seg
    /\ UNCHANGED <<held, lifetime, connected, threads>>

\* A frame that cannot be decoded, or an adapter that is not activated: the
\* connection is closed.  One of the wrong source or mode revokes ACT first.
BadCandidate(sent) ==
    /\ connected /\ lost < MaxLost /\ ~seg.due
    /\ IF held[ACT] = None
       THEN NoSinkCall /\ UNCHANGED held
       ELSE SourceStop(ACT, held[ACT], sent) /\ held' = [held EXCEPT ![ACT] = None]
    /\ CloseConnection
    /\ UNCHANGED <<seg, lifetime, threads>>

\* Mutant: one action more than the budget.
AdvancePastBudget(n, quiet) ==
    LET steps == seg.steps + 1
        due == seg.max # None
               /\ (steps > seg.max \/ (quiet /\ seg.steps >= EarlyMin))
    IN  [seg EXCEPT !.steps = steps, !.due = due, !.final = IF due THEN n ELSE None]

\* _advance_act_segment for an accepted candidate, written as number n.
Advance(n, quiet) ==
    LET steps == seg.steps + 1
        due == seg.max # None
               /\ (steps >= seg.max \/ (quiet /\ seg.steps >= EarlyMin))
    IN  [seg EXCEPT !.steps = steps, !.due = due, !.final = IF due THEN n ELSE None]

\* Mutant: the budget is checked only when a candidate is counted.
SubmitActPastBudget(c, quiet, late, sent) ==
    /\ connected /\ lost < MaxLost
    /\ c.src = ACT /\ c.gen = held[ACT]
    /\ SubmitCandidate(c, late, sent)
    /\ seg' = IF seg.due THEN seg ELSE Advance(nextSeq, quiet)
    /\ IF FaultsNow THEN CloseConnection ELSE UNCHANGED link
    /\ UNCHANGED <<held, lifetime, threads>>

\* submit_act of a candidate of the adapter's generation.  "quiet": its action
\* chunk is all within the deadzone.  A write that fails closes the connection.
SubmitAct(c, quiet, late, sent) ==
    /\ connected /\ lost < MaxLost /\ ~seg.due
    /\ c.src = ACT /\ c.gen = held[ACT]
    /\ SubmitCandidate(c, late, sent)
    /\ seg' = IF /\ DecisionMode # None /\ pendingAck = None /\ firstAck = None
                 /\ Route(c, ~late /\ SafetyPermits) = "accepted" /\ ~FaultsNow
              THEN Advance(nextSeq, quiet) ELSE seg
    /\ IF FaultsNow THEN CloseConnection ELSE UNCHANGED link
    /\ UNCHANGED <<held, lifetime, threads>>

-----------------------------------------------------------------------------
(* The RL runner's adapter.                                                *)

SubmitRl(c, late, sent) ==
    /\ c.src = RL /\ c.gen = held[RL]
    /\ SubmitCandidate(c, late, sent)
    /\ UNCHANGED coreVars

\* request_stop, and a packet that breaks the protocol.
StopRl(sent) ==
    /\ held[RL] # None
    /\ SourceStop(RL, held[RL], sent)
    /\ held' = [held EXCEPT ![RL] = None]
    /\ UNCHANGED <<seg, lifetime, link, threads>>

-----------------------------------------------------------------------------
MissionPasses ==
    /\ mission = "fresh"
    /\ mission' = "expired" /\ ticked' = FALSE
    /\ UNCHANGED <<authority, handoff, lease, unsafeLatched, status, evidence, output,
                   environment, segment, result, acked, link, threads>>

World ==
    /\ Clock \/ DeliverCommand \/ LoseCommand \/ DeviceTimeout \/ HealthChange
    /\ UNCHANGED coreVars

Candidates(s) ==
    {c \in CandidateOf({held[s]} \ {None}) : c.src = s /\ c.act \in Acts}

OwnerStep ==
    \E sent \in Sent : TickCore(sent) \/ ReadRow(sent) \/ ObserveSegment(sent)

Closing == (\E sent \in Sent : Shutdown(sent)) \/ WaitForAck

\* Until the owner has released the line, or given up.
Alive == pc \notin Ended

Control ==
    /\ Alive
    /\ \/ CheckWorker \/ ActivateActRefused
       \/ Renew \/ RenewRefused \/ ActivateRefused
       \/ \E c \in Renewing : Stamp(c) \/ \E sent \in Sent : RenewTooLate(c, sent)
       \/ \E sent \in Sent :
            \/ ActivateRl(sent) \/ RequestDisarm(sent)
            \/ \E max \in Budget : ActivateAct(max, sent)

DataLink ==
    /\ Alive
    /\ \/ Connect \/ Disconnect
       \/ \E sent \in Sent :
            \/ Notify(sent) \/ BadCandidate(sent)
            \/ \E c \in Candidates(ACT), quiet \in BOOLEAN, late \in Late :
                 SubmitAct(c, quiet, late, sent)

Runner ==
    /\ Alive
    /\ \E sent \in Sent :
         \/ StopRl(sent)
         \/ \E c \in Candidates(RL), late \in Late : SubmitRl(c, late, sent)

CoreNext ==
    \/ OwnerStep \/ Closing
    \/ Control \/ DataLink \/ Runner
    \/ MissionPasses \/ World

CoreSpec == CoreInit /\ [][CoreNext]_allVars

-----------------------------------------------------------------------------
(* Properties.                                                             *)

\* Once the final action of a segment is written, ACT moves the machine no more:
\* neither a candidate on its way, nor an adapter or a reconnected worker that
\* knows nothing of the budget, puts another motion on the line.
NoMotionPastBudget ==
    (seg.due \/ seg.complete) /\ Moving /\ active = ACT => last.seq = seg.final

\* A segment completes only on a machine that has executed its final action: the
\* STM32 has taken that command, or a newer one, although completion is decided
\* later and under another lock than the frame that shows it.
Behind(n) == (nextSeq - n) % SeqMod

CompleteMeansExecuted ==
    [][~seg.complete /\ seg'.complete =>
         dev.mode # None /\ Behind(dev.seq) <= Behind(seg.final)]_allVars

\* How a tick of the owner ends a core: over a zero, unless the line has failed.
OwnerTicks == pc = "tick" /\ pc' # "tick"
EndsAtZero == \/ status' = "faulted"
              \/ status' = "disarmed" /\ (last' = None \/ last'.act = "zero")

\* A mission lease that has passed ends the motion.  Only a renewal stamped before the
\* deadline brings it back, and only ahead of the owner: the owner's next tick ends
\* the core, and leaves a zero as the last command on the line, whatever candidates,
\* handoffs and renewals came in between.
ExpiredMissionEnds ==
    [][mission = "expired" =>
         /\ OwnerTicks => EndsAtZero
         /\ mission' = "fresh" => ctl = "stamped" /\ ~ticked
         /\ mission' = None => status' # "operational"]_allVars

\* Nobody moves for a lost ACT worker: when the callback of its connection has run,
\* the line holds no ACT motion, whoever was activated in between.
LostWorkerStops ==
    ~connected /\ lost = 0 => ~(Moving /\ last.mode = Manual)

\* orin_state_sender.py:549-556: the serial line is handed over only when the STM32
\* has executed the terminal zero: it holds a zero, and no motion is on its way.
ReleaseMeansZero ==
    pc = "released" =>
      dev.act = "zero" /\ \A i \in DOMAIN wire : wire[i].act = "zero"

\* resident_fixed_cycle_runtime.py:3-6: a segment whose final action was written
\* ends: it is acknowledged, or ACT loses its authority.
SegmentSettles ==
    seg.due /\ phase = "active" /\ active = ACT ~> ~seg.due \/ active # ACT

=============================================================================
