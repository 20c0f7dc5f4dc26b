--------------------------- MODULE CoreLineProofs ---------------------------
(***************************************************************************)
(* What the core's callers may conclude from an echo: proofs of the        *)
(* properties of ResidentCore that depend on what the STM32 has executed,  *)
(* from the shape of the line (OwnershipProofs), of the newest frame and   *)
(* of a machine that nobody owns.                                          *)
(***************************************************************************)
EXTENDS ResidentCoreProofs, OwnershipProofs

\* As NeverLapped, for the newest frame that the sink has seen.
FrameNeverLapped ==
    Counting /\ frame # None /\ frame.mode # None => frame.seq # nextSeq

\* The newest frame shows a command that the device took, and perhaps left since.
FrameShape ==
    Counting /\ frame # None /\ frame.mode # None =>
      /\ dev.mode # None
      /\ Gap(nextSeq, dev.seq) <= Gap(nextSeq, frame.seq)
      /\ dev.seq = frame.seq => dev.act = frame.act

\* The machine holds a zero, and no motion is on its way to it.
AtRest == dev.act = "zero" /\ \A i \in 1 .. Len(wire) : wire[i].act = "zero"

\* Between owners the machine rests.
RestShape ==
    status \in {"new", "operational"} /\ phase \in {"idle", "target_zero_pending"} => AtRest

\* The terminal zero is the last command of all, and what counts as its
\* acknowledgement leaves the machine at rest.
ResultShape ==
    /\ result # None /\ result.seq # None =>
         /\ status = "disarmed" /\ result.mode # None
         /\ Gap(nextSeq, result.seq) = 1
    /\ acked \/ pc = "released" => status = "disarmed" /\ AtRest

CoreLineInv == CoreInv /\ LineInv /\ FrameShape /\ RestShape /\ ResultShape

-----------------------------------------------------------------------------
(* A step of the core is a step of the sink.                               *)

LEMMA SourceStopIsSinkStep ==
    ASSUME CoreInv, NEW s \in Source, NEW g, NEW sent \in BOOLEAN, SourceStop(s, g, sent)
    PROVE  SinkStep
<1>1. CASE Revocable(s, g)
  <2>1. RequestSourceStop(s, g, sent) /\ g \in Nat
    BY <1>1, CoreFacts DEF SourceStop, Revocable
  <2> QED
    BY <2>1 DEF SinkStep, SinkCall
<1>2. CASE ~Revocable(s, g)
  BY <1>2 DEF SourceStop, NoSinkCall, vars, SinkStep
<1> QED
  BY <1>1, <1>2

LEMMA BeginActivationIsSinkStep ==
    ASSUME NEW s \in Source, NEW sent \in BOOLEAN, BeginActivation(s, sent)
    PROVE  SinkStep
<1>1. CASE Holds(s)
  BY <1>1 DEF BeginActivation, NoSinkCall, vars, SinkStep
<1>2. CASE ~Holds(s)
  BY <1>2 DEF BeginActivation, SinkStep, SinkCall
<1> QED
  BY <1>1, <1>2

LEMMA CoreDisarmIsSinkStep ==
    ASSUME NEW sent \in BOOLEAN, CoreDisarm(sent)
    PROVE  SinkStep
<1>1. NoSinkCall \/ TerminalDisarm(sent)
  BY DEF CoreDisarm
<1> QED
  BY <1>1 DEF NoSinkCall, vars, SinkStep, SinkCall

LEMMA OwnerIsSinkStep ==
    ASSUME CoreInv, OwnerStep \/ Closing
    PROVE  SinkStep
<1>1. Sent \subseteq BOOLEAN /\ RL \in Source
  BY SentType, CoreFacts
<1>2. CASE \E sent \in Sent : TickCore(sent) \/ Shutdown(sent)
  <2>1. PICK sent \in Sent : TickCore(sent) \/ Shutdown(sent)
    BY <1>2
  <2>2. NoSinkCall \/ CoreDisarm(sent) \/ Tick(sent)
    BY <2>1 DEF TickCore, Shutdown
  <2> QED
    BY <1>1, <2>2, CoreDisarmIsSinkStep DEF NoSinkCall, vars, SinkStep, SinkCall
<1>3. CASE \E sent \in Sent : ReadRow(sent)
  <2>1. PICK sent \in Sent : ReadRow(sent)
    BY <1>3
  <2>2. NoSinkCall \/ Initialize \/ ObserveTelemetry(sent) \/ InvalidateTelemetry(sent)
    BY <2>1 DEF ReadRow
  <2> QED
    BY <1>1, <2>2 DEF NoSinkCall, vars, SinkStep, SinkCall
<1>4. CASE \E sent \in Sent : ObserveSegment(sent)
  <2>1. PICK sent \in Sent : ObserveSegment(sent)
    BY <1>4
  <2>2. NoSinkCall \/ BeginActivation(RL, sent)
    BY <2>1 DEF ObserveSegment
  <2> QED
    BY <1>1, <2>2, BeginActivationIsSinkStep DEF NoSinkCall, vars, SinkStep
<1>5. CASE WaitForAck
  BY <1>5 DEF WaitForAck, NoSinkCall, vars, SinkStep
<1> QED
  BY <1>2, <1>3, <1>4, <1>5 DEF OwnerStep, Closing

LEMMA ControlIsSinkStep ==
    ASSUME CoreInv, Control
    PROVE  SinkStep
<1>1. Sent \subseteq BOOLEAN /\ RL \in Source /\ ACT \in Source
  BY SentType, CoreFacts
<1>2. CASE \/ CheckWorker \/ ActivateActRefused \/ Renew \/ RenewRefused \/ ActivateRefused
           \/ \E c \in Renewing : Stamp(c)
  BY <1>2 DEF CheckWorker, ActivateActRefused, Renew, RenewRefused, ActivateRefused, Stamp,
              NoSinkCall, vars, SinkStep
<1>3. CASE \E sent \in Sent : RequestDisarm(sent) \/ \E c \in Renewing : RenewTooLate(c, sent)
  BY <1>1, <1>3, CoreDisarmIsSinkStep DEF RenewTooLate, RequestDisarm
<1>4. CASE \E sent \in Sent : ActivateRl(sent) \/ \E max \in Budget : ActivateAct(max, sent)
  BY <1>1, <1>4, BeginActivationIsSinkStep DEF ActivateRl, ActivateAct
<1> QED
  BY <1>2, <1>3, <1>4 DEF Control

LEMMA SubmissionIsSinkStep ==
    ASSUME CoreInv, NEW s \in Source, NEW c \in Candidates(s), NEW late \in Late,
           NEW sent \in Sent, SubmitCandidate(c, late, sent)
    PROVE  SinkStep
<1>1. c \in CandidateOf(Nat) /\ late \in BOOLEAN /\ sent \in BOOLEAN
  BY SentType, CandidatesType, CoreAssumption
<1> QED
  BY <1>1 DEF SinkStep, SinkCall

LEMMA SourcesAreSinkSteps ==
    ASSUME CoreInv, DataLink \/ Runner
    PROVE  SinkStep
<1>1. Sent \subseteq BOOLEAN /\ RL \in Source /\ ACT \in Source
  BY SentType, CoreFacts
<1>2. CASE Connect \/ Disconnect
  BY <1>2 DEF Connect, Disconnect, NoSinkCall, vars, SinkStep
<1>3. CASE \E sent \in Sent : Notify(sent) \/ BadCandidate(sent) \/ StopRl(sent)
  <2>1. PICK sent \in Sent : Notify(sent) \/ BadCandidate(sent) \/ StopRl(sent)
    BY <1>3
  <2>2. NoSinkCall \/ \E s \in Source, g \in {seg.gen, held[ACT], held[RL]} : SourceStop(s, g, sent)
    BY <1>1, <2>1 DEF Notify, BadCandidate, StopRl
  <2> QED
    BY <1>1, <2>2, SourceStopIsSinkStep DEF NoSinkCall, vars, SinkStep
<1>4. CASE \E sent \in Sent, c \in Candidates(ACT), quiet \in BOOLEAN, late \in Late :
             SubmitAct(c, quiet, late, sent)
  BY <1>1, <1>4, SubmissionIsSinkStep DEF SubmitAct
<1>5. CASE \E sent \in Sent, c \in Candidates(RL), late \in Late : SubmitRl(c, late, sent)
  BY <1>1, <1>5, SubmissionIsSinkStep DEF SubmitRl
<1> QED
  BY <1>2, <1>3, <1>4, <1>5 DEF DataLink, Runner

LEMMA CoreNextIsSinkStep ==
    ASSUME CoreInv, [CoreNext]_allVars
    PROVE  SinkStep
<1>1. CASE MissionPasses
  BY <1>1 DEF MissionPasses, SinkStep
<1>2. CASE World
  BY <1>2 DEF World, SinkStep
<1>3. CASE UNCHANGED allVars
  BY <1>3 DEF allVars, vars, SinkStep
<1> QED
  BY <1>1, <1>2, <1>3, OwnerIsSinkStep, ControlIsSinkStep, SourcesAreSinkSteps DEF CoreNext

-----------------------------------------------------------------------------
(* What a call of the sink may write.                                      *)

\* At most one command, and nothing once the sink has ended.
CallEffect ==
    /\ dev' = dev
    /\ nextSeq' \in {nextSeq, (nextSeq + 1) % SeqMod}
    /\ status' = status \/ (status = "operational" /\ status' \in {"disarmed", "faulted"})
    /\ status # "operational" => UNCHANGED <<nextSeq, wire>>

\* Nothing, or a zero.
WritesZero ==
    \/ wire' = wire
    \/ \E mode \in Mode : wire' = Transmit([seq |-> nextSeq, mode |-> mode, act |-> "zero"])

LEMMA WriteEffect ==
    ASSUME NEW mode \in Mode, NEW act, NEW sent \in BOOLEAN, Write(mode, act, sent)
    PROVE  /\ nextSeq' = (nextSeq + 1) % SeqMod
           /\ act = "zero" => WritesZero
BY DEF Write, WritesZero

LEMMA IssueEffect ==
    ASSUME IInv', status = "operational", NEW sent \in BOOLEAN, IssuePendingZero(sent), dev' = dev
    PROVE  CallEffect /\ WritesZero
<1>1. CASE phase' \in ZeroPending
  <2>1. ZeroMode' \in Mode
    BY <1>1, ConstantsAssumption DEF IInv, TypeOK, AuthorityShape, ZeroMode, ZeroPending
  <2>2. Write(ZeroMode', "zero", sent) /\ status' \in {"operational", "faulted"}
    BY <1>1 DEF IssuePendingZero, StatusAfter
  <2> QED
    BY <2>1, <2>2, WriteEffect DEF CallEffect
<1>2. CASE phase' \notin ZeroPending
  BY <1>2 DEF IssuePendingZero, output, CallEffect, WritesZero
<1> QED
  BY <1>1, <1>2

LEMMA QuietEffect ==
    ASSUME UNCHANGED <<output, status, dev>>
    PROVE  CallEffect /\ WritesZero
BY DEF output, CallEffect, WritesZero

\* A zero leaves a machine at rest that was at rest.
LEMMA ZeroKeepsRest ==
    ASSUME LineInv, AtRest, WritesZero, dev' = dev
    PROVE  AtRest'
<1>1. CASE wire' = wire
  BY <1>1 DEF AtRest
<1>2. CASE \E mode \in Mode : wire' = Transmit([seq |-> nextSeq, mode |-> mode, act |-> "zero"])
  <2>1. PICK mode \in Mode : wire' = Transmit([seq |-> nextSeq, mode |-> mode, act |-> "zero"])
    BY <1>2
  <2> DEFINE cmd == [seq |-> nextSeq, mode |-> mode, act |-> "zero"]
             k == Len(wire) + 1 - Len(wire')
  <2>2. cmd \in Command /\ cmd.act = "zero"
    BY LineFacts DEF Command, Action
  <2>3. /\ Len(wire') \in Nat /\ wire'[Len(wire')] = cmd
        /\ \A i \in 1 .. Len(wire') - 1 : wire'[i] = wire[i + k] /\ i + k \in 1 .. Len(wire)
    BY <2>1, <2>2, TransmitAppends
  <2>4. ASSUME NEW i \in 1 .. Len(wire')
        PROVE  wire'[i].act = "zero"
    <3>1. CASE i = Len(wire')
      BY <2>2, <2>3, <3>1
    <3>2. CASE i # Len(wire')
      <4>1. i \in 1 .. Len(wire') - 1
        BY <2>3, <3>2
      <4> QED
        BY <2>3, <4>1 DEF AtRest
    <3> QED
      BY <3>1, <3>2
  <2> QED
    BY <2>4 DEF AtRest
<1> QED
  BY <1>1, <1>2 DEF WritesZero

LEMMA RestStays ==
    ASSUME LineInv, RestShape, WritesZero, dev' = dev,
           status' \in {"new", "operational"} => status \in {"new", "operational"},
           phase' \in {"idle", "target_zero_pending"} => phase \in {"idle", "target_zero_pending"}
    PROVE  RestShape'
BY ZeroKeepsRest DEF RestShape

\* Who gives motion up before the old owner's zero is echoed leaves a pending zero.
LEMMA StopEffect ==
    ASSUME LineInv, RestShape, IInv', status = "operational", NEW sent \in BOOLEAN,
           Stop(sent), dev' = dev
    PROVE  CallEffect /\ RestShape'
<1>1. /\ IssuePendingZero(sent)
      /\ phase' = IF active = None THEN "idle" ELSE "terminal_zero_pending"
  BY DEF Stop, StopAuthority
<1>2. CallEffect /\ WritesZero
  BY <1>1, IssueEffect
<1>3. phase' \in {"idle", "target_zero_pending"} => phase \in {"idle", "target_zero_pending"}
  BY <1>1, LineFacts DEF AuthorityShape, TypeOK, Phase
<1> QED
  BY <1>2, <1>3, RestStays

-----------------------------------------------------------------------------
(* What an echo of the newest command proves.                              *)

LEMMA GapSeparates ==
    ASSUME NEW n \in Seqs, NEW x \in Seqs, NEW y \in Seqs, Gap(n, x) = Gap(n, y)
    PROVE  x = y
BY GapIs, ConstantsAssumption DEF Seqs

\* A device that has taken the newest command leaves nothing on the line.
LEMMA NewestTaken ==
    ASSUME LineInv, Counting, dev.mode # None, Gap(nextSeq, dev.seq) = 1
    PROVE  wire = <<>>
<1>1. Gap(nextSeq, dev.seq) > Len(wire)
  BY LineFacts DEF LineShape
<1>2. Len(wire) = 0
  BY <1>1, LineFacts
<1> QED
  BY <1>2, LineFacts

\* Also when the echo is in a frame that is not the latest word of the device.
LEMMA NewestEchoed ==
    ASSUME LineInv, FrameShape, Counting, frame # None, frame.mode # None,
           Gap(nextSeq, frame.seq) = 1, frame.act = "zero"
    PROVE  AtRest
<1>1. /\ dev.mode # None /\ Gap(nextSeq, dev.seq) <= Gap(nextSeq, frame.seq)
      /\ dev.seq = frame.seq => dev.act = frame.act
  BY DEF FrameShape
<1>2. dev.seq \in Seqs /\ frame.seq \in Seqs /\ nextSeq \in Seqs
  BY LineFacts DEF TypeOK, Device, Frame
<1>3. Gap(nextSeq, dev.seq) > Len(wire) /\ Gap(nextSeq, dev.seq) \in Int
  <2>1. Gap(nextSeq, dev.seq) \in Seqs
    BY <1>2, GapRange
  <2> QED
    BY <1>1, <2>1, LineFacts, ConstantsAssumption DEF LineShape, Seqs
<1>4. Gap(nextSeq, dev.seq) = 1
  BY <1>1, <1>3, LineFacts
<1>5. wire = <<>>
  BY <1>1, <1>4, NewestTaken
<1>6. dev.seq = frame.seq
  BY <1>2, <1>4, GapSeparates
<1> QED
  BY <1>1, <1>5, <1>6 DEF AtRest

\* The old owner's zero is echoed by a machine that executes it, in a frame that may
\* be unsafe or a repetition.
LEMMA OldOwnerEchoed ==
    ASSUME LineInv, FrameShape, status = "operational", NEW f, AckMatches(f),
           f = Sample \/ f = [frame EXCEPT !.ok = FALSE]
    PROVE  AtRest
<1>1. /\ pendingAck # None /\ f.seq = pendingAck.seq /\ f.act = "zero"
      /\ f.mode = pendingAck.mode /\ Gap(nextSeq, pendingAck.seq) = 1
  BY LineFacts DEF AckMatches, LineShape, Counting
<1>2. f.mode # None
  BY <1>1, LineFacts, ConstantsAssumption DEF TypeOK, PendingAck
<1>3. CASE f = Sample
  <2>1. dev.mode # None /\ Gap(nextSeq, dev.seq) = 1 /\ dev.act = "zero"
    BY <1>1, <1>2, <1>3 DEF Sample
  <2> QED
    BY <2>1, NewestTaken DEF AtRest, Counting
<1>4. CASE f = [frame EXCEPT !.ok = FALSE]
  <2>1. frame # None /\ frame \in Frame
    BY LineFacts DEF IInv, StartShape, TypeOK
  <2>2. f.seq = frame.seq /\ f.mode = frame.mode /\ f.act = frame.act
    BY <1>4, <2>1 DEF Frame
  <2> QED
    BY <1>1, <1>2, <2>1, <2>2, NewestEchoed DEF Counting
<1> QED
  BY <1>3, <1>4

-----------------------------------------------------------------------------
(* The calls.                                                              *)

LEMMA ObserveEffect ==
    ASSUME LineInv, FrameShape, RestShape, NEW sent \in BOOLEAN,
           ObserveTelemetry(sent) \/ InvalidateTelemetry(sent)
    PROVE  /\ CallEffect /\ RestShape'
           /\ frame' = Sample \/ frame' = [frame EXCEPT !.ok = FALSE]
<1>1. IInv'
  BY LineFacts, ObserveSteps
<1>2. PICK f : ObserveFrame(f, sent) /\ (f = Sample \/ f = [frame EXCEPT !.ok = FALSE])
  BY DEF ObserveTelemetry, InvalidateTelemetry
<1>3. dev' = dev /\ frame' = f
  BY <1>2 DEF ObserveFrame, environment
<1>4. CASE status # "operational"
  <2>1. UNCHANGED <<authority, output, status>>
    BY <1>2, <1>4 DEF ObserveFrame
  <2> QED
    BY <1>2, <1>3, <2>1, QuietEffect, RestStays DEF authority
<1>5. CASE status = "operational" /\ ObserveZeroAck(f, sent)
  <2>1. AckMatches(f) /\ AcknowledgeZero /\ IssuePendingZero(sent)
    BY <1>5 DEF ObserveZeroAck
  <2>2. CallEffect /\ WritesZero
    BY <1>1, <1>3, <1>5, <2>1, IssueEffect
  <2>3. AtRest
    BY <1>2, <1>5, <2>1, OldOwnerEchoed
  <2>4. AtRest'
    BY <1>3, <2>2, <2>3, ZeroKeepsRest
  <2> QED
    BY <1>2, <1>3, <2>2, <2>4 DEF RestShape
<1>6. CASE status = "operational" /\ ObserveOther(f, sent)
  <2>1. CASE Stop(sent)
    BY <1>1, <1>2, <1>3, <1>6, <2>1, StopEffect
  <2>2. CASE UNCHANGED <<authority, pendingAck, lease, output, status>>
    BY <1>2, <1>3, <2>2, QuietEffect, RestStays DEF authority
  <2> QED
    BY <1>6, <2>1, <2>2 DEF ObserveOther
<1> QED
  BY <1>2, <1>4, <1>5, <1>6 DEF ObserveFrame

LEMMA RequestEffect ==
    ASSUME LineInv, RestShape, NEW sent \in BOOLEAN,
           \/ \E s \in Source : RequestHandoff(s, sent)
           \/ \E s \in Source, g \in Nat : RequestSourceStop(s, g, sent)
           \/ RequestStop(sent)
    PROVE  CallEffect /\ RestShape' /\ frame' = frame
<1>1. CASE \E s \in Source : RequestHandoff(s, sent)
  <2>1. PICK s \in Source : RequestHandoff(s, sent)
    BY <1>1
  <2>2. IInv'
    BY <2>1, LineFacts, RequestHandoffStep
  <2>3. /\ status = "operational" /\ IssuePendingZero(sent) /\ dev' = dev /\ frame' = frame
        /\ phase' = IF active = None THEN "target_zero_pending" ELSE "terminal_zero_pending"
    BY <2>1 DEF RequestHandoff, RequestHandoffOf, environment, evidence
  <2>4. phase' = "target_zero_pending" => phase \in {"idle", "target_zero_pending"}
    BY <2>3, LineFacts DEF AuthorityShape, TypeOK, Phase
  <2> QED
    BY <2>2, <2>3, <2>4, IssueEffect, RestStays
<1>2. CASE \E s \in Source, g \in Nat : RequestSourceStop(s, g, sent)
  <2>1. PICK s \in Source, g \in Nat : RequestSourceStop(s, g, sent)
    BY <1>2
  <2>2. IInv'
    BY <2>1, LineFacts, RequestSourceStopStep
  <2> QED
    BY <2>1, <2>2, StopEffect DEF RequestSourceStop, environment, evidence
<1>3. CASE RequestStop(sent)
  <2>1. IInv'
    BY <1>3, LineFacts, RequestStopStep
  <2> QED
    BY <1>3, <2>1, StopEffect DEF RequestStop, environment, evidence
<1> QED
  BY <1>1, <1>2, <1>3

\* A candidate is written, moving or not, only for an owner.
LEMMA SubmitCallEffect ==
    ASSUME LineInv, RestShape, NEW c \in CandidateOf(Nat), NEW late \in BOOLEAN,
           NEW sent \in BOOLEAN, SubmitCandidate(c, late, sent)
    PROVE  CallEffect /\ RestShape' /\ frame' = frame
<1> DEFINE reason == Route(c, ~late /\ SafetyPermits)
<1>1. status = "operational" /\ dev' = dev /\ frame' = frame
  BY DEF SubmitCandidate, environment, evidence
<1>2. IInv'
  BY LineFacts, SubmitStep
<1>3. CASE UNCHANGED <<authority, handoff, lease, unsafeLatched, output, status>>
  BY <1>1, <1>3, QuietEffect, RestStays DEF authority
<1>4. CASE Stop(sent)
  BY <1>1, <1>2, <1>4, StopEffect
<1>5. CASE pendingAck = None /\ DecisionMode # None /\ WriteDecision(c, reason = "accepted", sent)
  <2>1. /\ Write(DecisionMode, IF reason = "accepted" THEN c.act ELSE "zero", sent)
        /\ status' \in {"operational", "faulted"} /\ phase' = phase
    BY <1>1, <1>5 DEF WriteDecision, StatusAfter, authority
  <2>2. phase \notin {"idle", "target_zero_pending"}
    BY <1>1, <1>5, LineFacts DEF IInv, PendingAckAgrees, AuthorityShape, DecisionMode, ZeroPending
  <2>3. RestShape'
    BY <2>1, <2>2 DEF RestShape
  <2>4. DecisionMode \in Mode
    BY <1>5, LineFacts, DecisionModeType
  <2> QED
    BY <1>1, <2>1, <2>3, <2>4, WriteEffect DEF CallEffect
<1> QED
  BY <1>3, <1>4, <1>5 DEF SubmitCandidate

LEMMA TickEffect ==
    ASSUME LineInv, RestShape, NEW sent \in BOOLEAN, Tick(sent)
    PROVE  CallEffect /\ RestShape' /\ frame' = frame
<1>1. IInv' /\ status = "operational" /\ dev' = dev /\ frame' = frame
  BY LineFacts, TickStep DEF Tick, environment, evidence
<1>2. CASE TickExpireLease(sent) \/ TickWatchdog(sent)
  BY <1>1, <1>2, StopEffect DEF TickExpireLease, TickWatchdog
<1>3. CASE TickKeepalive(sent)
  <2>1. /\ active # None /\ Write(ModeOf[active], "zero", sent)
        /\ status' \in {"operational", "faulted"} /\ phase' = phase
    BY <1>1, <1>3 DEF TickKeepalive, StatusAfter, authority
  <2>2. ModeOf[active] \in Mode
    BY <2>1, LineFacts, ConstantsAssumption DEF TypeOK
  <2>3. CallEffect /\ WritesZero
    BY <1>1, <2>1, <2>2, WriteEffect DEF CallEffect
  <2> QED
    BY <1>1, <2>1, <2>3, RestStays
<1>4. CASE TickQuiet
  BY <1>1, <1>4, QuietEffect, RestStays DEF TickQuiet, authority
<1> QED
  BY <1>2, <1>3, <1>4 DEF Tick

\* terminal_disarm finds a machine without owner at rest, or writes the last zero.
LEMMA DisarmEffect ==
    ASSUME LineInv, RestShape, NEW sent \in BOOLEAN, TerminalDisarm(sent)
    PROVE  /\ CallEffect /\ RestShape' /\ frame' = frame
           /\ IF DisarmMode = None
              THEN status' = "disarmed" /\ AtRest'
              ELSE /\ DisarmMode \in Mode
                   /\ status' = IF sent THEN "disarmed" ELSE "faulted"
                   /\ nextSeq' = (nextSeq + 1) % SeqMod
<1>1. /\ status = "operational" /\ dev' = dev /\ frame' = frame
      /\ IF DisarmMode = None
         THEN status' = "disarmed" /\ UNCHANGED output
         ELSE /\ Write(DisarmMode, "zero", sent)
              /\ status' = IF sent THEN "disarmed" ELSE "faulted"
  BY DEF TerminalDisarm, DisarmMode, environment, evidence
<1>2. RestShape'
  BY <1>1 DEF RestShape
<1>3. CASE DisarmMode = None
  <2>1. active = None /\ pendingAck = None
    BY <1>3, LineFacts, ConstantsAssumption DEF DisarmMode, TypeOK, PendingAck
  <2>2. phase = "idle"
    BY <1>1, <2>1, LineFacts DEF IInv, PendingAckAgrees, AuthorityShape, TypeOK, Phase, ZeroPending
  <2>3. AtRest
    BY <1>1, <2>2 DEF RestShape
  <2>4. AtRest'
    BY <1>1, <1>3, <2>3 DEF AtRest, output
  <2> QED
    BY <1>1, <1>2, <1>3, <2>4 DEF CallEffect, output
<1>4. CASE DisarmMode # None
  <2>1. DisarmMode \in Mode
    BY <1>4, LineFacts, ConstantsAssumption DEF DisarmMode, TypeOK, PendingAck
  <2>2. nextSeq' = (nextSeq + 1) % SeqMod
    BY <1>1, <1>4, <2>1, WriteEffect
  <2> QED
    BY <1>1, <1>2, <1>4, <2>1, <2>2 DEF CallEffect
<1> QED
  BY <1>3, <1>4

-----------------------------------------------------------------------------
(* The newest frame, and the machine at rest, through every step.          *)

\* The frame and the device fall behind together.
LEMMA FrameFallsBehind ==
    ASSUME LineInv, FrameShape, IInv', NeverLapped', FrameNeverLapped',
           nextSeq' \in {nextSeq, (nextSeq + 1) % SeqMod}, Counting' => Counting,
           dev'.seq = dev.seq, dev'.mode = dev.mode, dev'.act = dev.act,
           frame' # None => /\ frame # None /\ frame'.seq = frame.seq
                            /\ frame'.mode = frame.mode /\ frame'.act = frame.act
    PROVE  FrameShape'
<1> SUFFICES ASSUME Counting', frame' # None, frame'.mode # None
             PROVE  /\ dev'.mode # None
                    /\ Gap(nextSeq', dev'.seq) <= Gap(nextSeq', frame'.seq)
                    /\ dev'.seq = frame'.seq => dev'.act = frame'.act
  BY DEF FrameShape
<1>1. /\ frame # None /\ frame.mode # None /\ frame'.seq = frame.seq
      /\ dev.mode # None
      /\ Gap(nextSeq, dev.seq) <= Gap(nextSeq, frame.seq)
      /\ dev.seq = frame.seq => dev.act = frame.act
  BY DEF FrameShape
<1>2. dev.seq \in Seqs /\ frame.seq \in Seqs /\ nextSeq \in Seqs
  BY <1>1, LineFacts DEF TypeOK, Device, Frame
<1>3. CASE nextSeq' = nextSeq
  BY <1>1, <1>3
<1>4. CASE nextSeq' = (nextSeq + 1) % SeqMod
  <2>1. nextSeq' # dev.seq /\ nextSeq' # frame.seq
    BY <1>1 DEF NeverLapped, FrameNeverLapped
  <2>2. /\ Gap(nextSeq', dev.seq) = Gap(nextSeq, dev.seq) + 1
        /\ Gap(nextSeq', frame.seq) = Gap(nextSeq, frame.seq) + 1
    BY <1>2, <1>4, <2>1, GapGrows
  <2>3. Gap(nextSeq, dev.seq) \in Int /\ Gap(nextSeq, frame.seq) \in Int
    <3>1. Gap(nextSeq, dev.seq) \in Seqs /\ Gap(nextSeq, frame.seq) \in Seqs
      BY <1>2, GapRange
    <3> QED
      BY <3>1, ConstantsAssumption DEF Seqs
  <2> QED
    BY <1>1, <2>2, <2>3
<1> QED
  BY <1>3, <1>4

\* A frame that was read from the device just now.
LEMMA FrameFresh ==
    ASSUME IInv', dev' = dev, frame' = Sample
    PROVE  FrameShape'
<1>1. dev'.seq \in Seqs /\ nextSeq' \in Seqs
  BY DEF IInv, TypeOK, Device
<1>2. Gap(nextSeq', dev'.seq) \in Int
  <2>1. Gap(nextSeq', dev'.seq) \in Seqs
    BY <1>1, GapRange
  <2> QED
    BY <2>1, ConstantsAssumption DEF Seqs
<1>3. frame'.seq = dev'.seq /\ frame'.mode = dev'.mode /\ frame'.act = dev'.act
  BY DEF Sample
<1> QED
  BY <1>2, <1>3 DEF FrameShape

LEMMA CallKeepsFrame ==
    ASSUME LineInv, FrameShape, IInv', NeverLapped', FrameNeverLapped', CallEffect,
           frame' \in {frame, Sample, [frame EXCEPT !.ok = FALSE]},
           frame' = [frame EXCEPT !.ok = FALSE] => status # "new"
    PROVE  FrameShape'
<1>1. dev' = dev /\ nextSeq' \in {nextSeq, (nextSeq + 1) % SeqMod} /\ (Counting' => Counting)
  BY DEF CallEffect, Counting
<1>2. CASE frame' = Sample
  BY <1>1, <1>2, FrameFresh
<1>3. CASE frame' = frame
  BY <1>1, <1>3, FrameFallsBehind
<1>4. CASE frame' = [frame EXCEPT !.ok = FALSE]
  <2>1. frame \in Frame /\ frame # None
    BY <1>4, LineFacts DEF IInv, StartShape, TypeOK
  <2>2. frame'.seq = frame.seq /\ frame'.mode = frame.mode /\ frame'.act = frame.act
    BY <1>4, <2>1 DEF Frame
  <2> QED
    BY <1>1, <2>1, <2>2, FrameFallsBehind
<1> QED
  BY <1>2, <1>3, <1>4

LEMMA CallKeepsBoundary ==
    ASSUME LineInv, FrameShape, RestShape, IInv', NeverLapped', FrameNeverLapped',
           NEW sent \in BOOLEAN, SinkCall(sent)
    PROVE  CallEffect /\ FrameShape' /\ RestShape'
<1>1. CASE ObserveTelemetry(sent) \/ InvalidateTelemetry(sent)
  <2>1. status # "new"
    BY <1>1 DEF ObserveTelemetry, InvalidateTelemetry, ObserveFrame
  <2> QED
    BY <1>1, <2>1, ObserveEffect, CallKeepsFrame
<1>2. CASE ~(ObserveTelemetry(sent) \/ InvalidateTelemetry(sent))
  <2>1. CallEffect /\ RestShape' /\ frame' = frame
    BY <1>2, RequestEffect, SubmitCallEffect, TickEffect, DisarmEffect DEF SinkCall
  <2>2. Counting' => Counting
    BY <2>1 DEF CallEffect, Counting
  <2> QED
    BY <2>1, <2>2, FrameFallsBehind DEF CallEffect
<1> QED
  BY <1>1, <1>2

\* A command that arrives, or is lost, was not the one that the newest frame shows.
LEMMA DeliverKeepsBoundary ==
    ASSUME LineInv, FrameShape, RestShape, DeliverCommand
    PROVE  FrameShape' /\ RestShape' /\ (AtRest => AtRest')
<1> DEFINE cmd == wire[1]
<1>1. /\ UNCHANGED <<phase, status, nextSeq, frame>>
      /\ wire # <<>> /\ wire' = Tail(wire)
      /\ dev' = [seq |-> cmd.seq, mode |-> cmd.mode, act |-> cmd.act, live |-> TRUE]
  BY HeadLeaves DEF DeliverCommand, authority, sinkVars, evidence
<1>2. /\ Len(wire') = Len(wire) - 1 /\ Len(wire) >= 1 /\ Len(wire) \in Nat
      /\ cmd \in Command /\ 1 \in 1 .. Len(wire)
      /\ \A i \in 1 .. Len(wire') : wire'[i] = wire[i + 1] /\ i + 1 \in 1 .. Len(wire)
  BY <1>1, HeadLeaves, LineFacts
<1>3. dev'.seq = cmd.seq /\ dev'.mode = cmd.mode /\ dev'.act = cmd.act
  BY <1>1
<1>4. AtRest => AtRest'
  BY <1>2, <1>3 DEF AtRest
<1>5. RestShape'
  BY <1>1, <1>4 DEF RestShape
<1>6. FrameShape'
  <2> SUFFICES ASSUME Counting, frame # None, frame.mode # None
               PROVE  /\ cmd.mode # None
                      /\ Gap(nextSeq, cmd.seq) < Gap(nextSeq, frame.seq)
    <3>1. frame # None => frame.seq \in Seqs /\ cmd.seq \in Seqs /\ nextSeq \in Seqs
      BY <1>2, LineFacts DEF TypeOK, Frame, Command
    <3>2. frame # None => Gap(nextSeq, frame.seq) \in Int /\ Gap(nextSeq, cmd.seq) \in Int
      <4>1. frame # None => Gap(nextSeq, frame.seq) \in Seqs /\ Gap(nextSeq, cmd.seq) \in Seqs
        BY <3>1, GapRange
      <4> QED
        BY <4>1, ConstantsAssumption DEF Seqs
    <3> QED
      BY <1>1, <1>3, <3>2 DEF FrameShape, Counting
  <2>1. Gap(nextSeq, cmd.seq) = Len(wire)
    <3>1. Gap(nextSeq, cmd.seq) = Len(wire) - 1 + 1
      BY <1>2, LineFacts DEF LineShape
    <3> QED
      BY <1>2, <3>1
  <2>2. dev.mode # None /\ Gap(nextSeq, dev.seq) <= Gap(nextSeq, frame.seq)
    BY DEF FrameShape
  <2>3. Gap(nextSeq, dev.seq) > Len(wire)
    BY <2>2, LineFacts DEF LineShape
  <2>4. Gap(nextSeq, dev.seq) \in Int /\ Gap(nextSeq, frame.seq) \in Int
    <3>1. dev.seq \in Seqs /\ frame.seq \in Seqs /\ nextSeq \in Seqs
      BY LineFacts DEF TypeOK, Device, Frame
    <3>2. Gap(nextSeq, dev.seq) \in Seqs /\ Gap(nextSeq, frame.seq) \in Seqs
      BY <3>1, GapRange
    <3> QED
      BY <3>2, ConstantsAssumption DEF Seqs
  <2>5. cmd.mode # None
    BY <1>2, ConstantsAssumption DEF Command
  <2> QED
    BY <1>2, <2>1, <2>2, <2>3, <2>4, <2>5
<1> QED
  BY <1>4, <1>5, <1>6

LEMMA LoseKeepsBoundary ==
    ASSUME LineInv, FrameShape, RestShape, LoseCommand
    PROVE  FrameShape' /\ RestShape' /\ (AtRest => AtRest')
<1>1. /\ UNCHANGED <<phase, status, nextSeq, frame, dev>>
      /\ wire # <<>> /\ wire' = Tail(wire)
  BY DEF LoseCommand, authority, sinkVars, evidence, environment
<1>2. \A i \in 1 .. Len(wire') : wire'[i] = wire[i + 1] /\ i + 1 \in 1 .. Len(wire)
  BY <1>1, HeadLeaves, LineFacts
<1>3. AtRest => AtRest'
  BY <1>1, <1>2 DEF AtRest
<1>4. RestShape'
  BY <1>1, <1>3 DEF RestShape
<1> QED
  BY <1>1, <1>3, <1>4 DEF FrameShape, Counting

LEMMA IdleKeepsBoundary ==
    ASSUME LineInv, FrameShape, RestShape,
           \/ Clock \/ DeviceTimeout \/ HealthChange
           \/ UNCHANGED <<authority, handoff, status, evidence, output, environment>>
    PROVE  FrameShape' /\ RestShape' /\ (AtRest => AtRest')
<1>1. /\ UNCHANGED <<phase, status, nextSeq, wire, frame>>
      /\ dev' = dev \/ dev' = [dev EXCEPT !.live = FALSE]
  BY DEF Clock, DeviceTimeout, HealthChange, authority, sinkVars, evidence, output, environment
<1>2. dev'.seq = dev.seq /\ dev'.mode = dev.mode /\ dev'.act = dev.act
  BY <1>1, LineFacts DEF TypeOK, Device
<1> QED
  BY <1>1, <1>2 DEF FrameShape, RestShape, AtRest, Counting

LEMMA InitializeKeepsBoundary ==
    ASSUME LineInv, RestShape, IInv', Initialize
    PROVE  FrameShape' /\ RestShape'
<1>1. /\ status = "new" /\ status' = "operational" /\ frame' = Sample
      /\ UNCHANGED <<phase, wire, dev>>
  BY DEF Initialize, authority, environment
<1>2. RestShape'
  BY <1>1 DEF RestShape, AtRest
<1> QED
  BY <1>1, <1>2, FrameFresh

LEMMA SinkStepKeepsBoundary ==
    ASSUME LineInv, FrameShape, RestShape, IInv', NeverLapped', FrameNeverLapped', SinkStep
    PROVE  FrameShape' /\ RestShape'
BY CallKeepsBoundary, InitializeKeepsBoundary, DeliverKeepsBoundary, LoseKeepsBoundary,
   IdleKeepsBoundary DEF SinkStep

\* A sink that is disarmed writes no more, and a machine at rest stays at rest.
LEMMA DisarmedStays ==
    ASSUME LineInv, FrameShape, RestShape, IInv', NeverLapped', FrameNeverLapped', SinkStep,
           status = "disarmed"
    PROVE  status' = "disarmed" /\ nextSeq' = nextSeq /\ (AtRest => AtRest')
<1>1. CASE \E sent \in BOOLEAN : SinkCall(sent)
  BY <1>1, CallKeepsBoundary DEF CallEffect, AtRest
<1>2. CASE Initialize
  BY <1>2 DEF Initialize
<1>3. CASE Clock \/ DeviceTimeout \/ HealthChange
           \/ UNCHANGED <<authority, handoff, status, evidence, output, environment>>
  BY <1>3, IdleKeepsBoundary DEF Clock, DeviceTimeout, HealthChange, sinkVars, output
<1>4. CASE DeliverCommand
  BY <1>4, DeliverKeepsBoundary DEF DeliverCommand, sinkVars
<1>5. CASE LoseCommand
  BY <1>5, LoseKeepsBoundary DEF LoseCommand, sinkVars
<1> QED
  BY <1>1, <1>2, <1>3, <1>4, <1>5 DEF SinkStep

-----------------------------------------------------------------------------
(* The terminal result and its acknowledgement.                            *)

LEMMA ResultStays ==
    ASSUME CoreLineInv, IInv', NeverLapped', FrameNeverLapped', SinkStep,
           UNCHANGED <<result, acked>>, pc' = "released" => pc = "released"
    PROVE  ResultShape'
<1>1. status = "disarmed" => status' = "disarmed" /\ nextSeq' = nextSeq /\ (AtRest => AtRest')
  BY DisarmedStays DEF CoreLineInv
<1> QED
  BY <1>1 DEF CoreLineInv, ResultShape

LEMMA DisarmKeepsResult ==
    ASSUME CoreLineInv, IInv', NeverLapped', FrameNeverLapped', SinkStep,
           NEW sent \in BOOLEAN, CoreDisarm(sent), pc' = "released" => pc = "released"
    PROVE  ResultShape'
<1>1. CASE result # None
  BY <1>1, ResultStays DEF CoreDisarm, lifetime
<1>2. CASE result = None /\ ~Operational
  <2>1. /\ NoSinkCall /\ acked' = FALSE
        /\ result' = [seq |-> None, mode |-> None]
    BY <1>2 DEF CoreDisarm
  <2>2. status' = status /\ (AtRest => AtRest')
    BY <2>1 DEF NoSinkCall, vars, output, environment, AtRest
  <2> QED
    BY <2>1, <2>2 DEF CoreLineInv, ResultShape
<1>3. CASE result = None /\ Operational
  <2>1. /\ TerminalDisarm(sent) /\ ~acked /\ pc' # "released"
        /\ IF DisarmMode = None \/ sent
           THEN /\ result' = [seq |-> IF DisarmMode = None THEN None ELSE nextSeq,
                              mode |-> DisarmMode]
                /\ acked' = (DisarmMode = None)
           ELSE UNCHANGED <<result, acked>>
    BY <1>3 DEF CoreDisarm, CoreLineInv, ResultShape, Operational
  <2>2. IF DisarmMode = None
        THEN status' = "disarmed" /\ AtRest'
        ELSE /\ DisarmMode \in Mode
             /\ status' = IF sent THEN "disarmed" ELSE "faulted"
             /\ nextSeq' = (nextSeq + 1) % SeqMod
    BY <2>1, DisarmEffect DEF CoreLineInv
  <2>3. CASE DisarmMode = None
    BY <2>1, <2>2, <2>3 DEF ResultShape
  <2>4. CASE DisarmMode # None /\ sent
    <3>1. nextSeq \in Seqs
      BY LineFacts DEF CoreLineInv
    <3>2. Gap(nextSeq', nextSeq) = 1
      BY <2>2, <2>4, <3>1, GapGrows
    <3>3. result' = [seq |-> nextSeq, mode |-> DisarmMode] /\ ~acked'
      BY <2>1, <2>4
    <3>4. result'.seq = nextSeq /\ result'.mode = DisarmMode
      BY <3>3
    <3> QED
      BY <2>1, <2>2, <2>4, <3>2, <3>3, <3>4 DEF ResultShape
  <2>5. CASE DisarmMode # None /\ ~sent
    BY <1>3, <2>1, <2>5 DEF ResultShape
  <2> QED
    BY <2>3, <2>4, <2>5
<1> QED
  BY <1>1, <1>2, <1>3

\* The echo of the terminal zero, in the newest frame or in a later word of the device.
LEMMA TerminalEchoMeansRest ==
    ASSUME CoreLineInv, EchoesTerminalZero(frame) \/ EchoesTerminalZero(Sample)
    PROVE  status = "disarmed" /\ AtRest
<1>1. /\ result # None /\ result.seq # None /\ status = "disarmed" /\ result.mode # None
      /\ Gap(nextSeq, result.seq) = 1
  BY DEF EchoesTerminalZero, CoreLineInv, ResultShape
<1>2. CASE EchoesTerminalZero(frame)
  <2>1. frame # None
    BY <1>1 DEF CoreLineInv, CoreInv, IInv, StartShape
  <2> QED
    BY <1>1, <1>2, <2>1, NewestEchoed DEF EchoesTerminalZero, CoreLineInv, Counting
<1>3. CASE EchoesTerminalZero(Sample)
  <2>1. dev.mode # None /\ Gap(nextSeq, dev.seq) = 1 /\ dev.act = "zero"
    BY <1>1, <1>3 DEF EchoesTerminalZero, Sample
  <2> QED
    BY <1>1, <2>1, NewestTaken DEF CoreLineInv, Counting, AtRest
<1> QED
  BY <1>2, <1>3

LEMMA ObserveSegmentKeepsResult ==
    ASSUME CoreLineInv, IInv', NeverLapped', FrameNeverLapped', SinkStep,
           NEW sent \in BOOLEAN, ObserveSegment(sent)
    PROVE  ResultShape'
<1>1. /\ acked' = (acked \/ EchoesTerminalZero(frame)) /\ result' = result
      /\ pc' # "released"
  BY DEF ObserveSegment, OwnerGoes
<1>2. status = "disarmed" => status' = "disarmed" /\ nextSeq' = nextSeq /\ (AtRest => AtRest')
  BY DisarmedStays DEF CoreLineInv
<1>3. acked' => status = "disarmed" /\ AtRest
  BY <1>1, TerminalEchoMeansRest DEF CoreLineInv, ResultShape
<1> QED
  BY <1>1, <1>2, <1>3 DEF CoreLineInv, ResultShape

LEMMA WaitForAckKeepsResult ==
    ASSUME CoreLineInv, WaitForAck
    PROVE  ResultShape'
<1>1. /\ UNCHANGED <<result, acked, status, nextSeq, wire, dev>>
      /\ pc' = "released" => acked \/ EchoesTerminalZero(Sample)
  BY DEF WaitForAck, NoSinkCall, vars, output, environment, lifetime
<1>2. pc' = "released" => status = "disarmed" /\ AtRest
  BY <1>1, TerminalEchoMeansRest DEF CoreLineInv, ResultShape
<1> QED
  BY <1>1, <1>2 DEF CoreLineInv, ResultShape, AtRest

LEMMA CoreNextKeepsResult ==
    ASSUME CoreLineInv, IInv', NeverLapped', FrameNeverLapped', [CoreNext]_allVars
    PROVE  ResultShape'
<1>1. SinkStep
  BY CoreNextIsSinkStep DEF CoreLineInv
<1>2. Sent \subseteq BOOLEAN
  BY SentType
<1>3. CASE \E sent \in Sent : ObserveSegment(sent)
  BY <1>1, <1>2, <1>3, ObserveSegmentKeepsResult
<1>4. CASE WaitForAck
  BY <1>4, WaitForAckKeepsResult
<1>5. CASE \E sent \in Sent : TickCore(sent)
  <2>1. PICK sent \in Sent : TickCore(sent)
    BY <1>5
  <2>2. pc' # "released" /\ (CoreDisarm(sent) \/ UNCHANGED lifetime)
    BY <2>1 DEF TickCore, OwnerGoes
  <2> QED
    BY <1>1, <1>2, <2>2, DisarmKeepsResult, ResultStays DEF lifetime
<1>6. CASE \E sent \in Sent : \/ Shutdown(sent) \/ RequestDisarm(sent)
                               \/ \E c \in Renewing : RenewTooLate(c, sent)
  <2>1. PICK sent \in Sent : \/ Shutdown(sent) \/ RequestDisarm(sent)
                            \/ \E c \in Renewing : RenewTooLate(c, sent)
    BY <1>6
  <2>2. CoreDisarm(sent) /\ (pc' = "released" => pc = "released")
    BY <2>1 DEF Shutdown, RenewTooLate, RequestDisarm, threads
  <2> QED
    BY <1>1, <1>2, <2>2, DisarmKeepsResult
<1>7. CASE \E sent \in Sent : ReadRow(sent)
  <2>1. pc' # "released" /\ UNCHANGED <<result, acked>>
    BY <1>7 DEF ReadRow, OwnerGoes, lifetime
  <2> QED
    BY <1>1, <2>1, ResultStays
<1>8. CASE \/ CheckWorker \/ ActivateActRefused \/ Renew \/ RenewRefused \/ ActivateRefused
           \/ \E c \in Renewing : Stamp(c)
           \/ \E sent \in Sent : ActivateRl(sent) \/ \E max \in Budget : ActivateAct(max, sent)
  <2>1. pc' = pc /\ UNCHANGED <<result, acked>>
    BY <1>8 DEF CheckWorker, ActivateActRefused, Renew, RenewRefused, ActivateRefused, Stamp,
                ActivateRl, ActivateAct, lifetime
  <2> QED
    BY <1>1, <2>1, ResultStays
<1>9. CASE DataLink \/ Runner \/ MissionPasses \/ World \/ UNCHANGED allVars
  <2>1. pc' = pc /\ UNCHANGED <<result, acked>>
    BY <1>9 DEF DataLink, Connect, Disconnect, Notify, BadCandidate, SubmitAct, Runner, StopRl,
                SubmitRl, MissionPasses, World, allVars, coreVars, threads, lifetime
  <2> QED
    BY <1>1, <2>1, ResultStays
<1> QED
  BY <1>3, <1>4, <1>5, <1>6, <1>7, <1>8, <1>9 DEF CoreNext, OwnerStep, Closing, Control

-----------------------------------------------------------------------------
(* The theorems.                                                           *)

LEMMA InitEstablishesCoreLineInv == CoreInit => CoreLineInv
<1> SUFFICES ASSUME CoreInit
             PROVE  CoreLineInv
  OBVIOUS
<1>1. CoreInv /\ LineInv
  BY InitEstablishesCoreInv, InitEstablishesLineInv DEF CoreInit
<1>2. /\ status = "new" /\ wire = <<>> /\ dev.act = "zero" /\ frame = None
      /\ result = None /\ ~acked /\ pc = "tick"
  BY DEF CoreInit, Init
<1>3. AtRest
  BY <1>2 DEF AtRest
<1> QED
  BY <1>1, <1>2, <1>3 DEF CoreLineInv, FrameShape, RestShape, ResultShape

LEMMA CoreNextKeepsCoreLineInv ==
    CoreLineInv /\ NeverLapped' /\ FrameNeverLapped' /\ [CoreNext]_allVars => CoreLineInv'
<1> SUFFICES ASSUME CoreLineInv, NeverLapped', FrameNeverLapped', [CoreNext]_allVars
             PROVE  CoreLineInv'
  OBVIOUS
<1>1. CoreInv' /\ IInv'
  BY CoreNextKeepsCoreInv DEF CoreLineInv, CoreInv
<1>2. SinkStep
  BY CoreNextIsSinkStep DEF CoreLineInv
<1>3. LineInv'
  BY <1>1, <1>2, SinkStepKeepsLineInv DEF CoreLineInv
<1>4. FrameShape' /\ RestShape'
  BY <1>1, <1>2, SinkStepKeepsBoundary DEF CoreLineInv
<1>5. ResultShape'
  BY <1>1, CoreNextKeepsResult
<1> QED
  BY <1>1, <1>3, <1>4, <1>5 DEF CoreLineInv

LEMMA AlwaysCoreLineInv == CoreSpec /\ []NeverLapped /\ []FrameNeverLapped => []CoreLineInv
BY InitEstablishesCoreLineInv, CoreNextKeepsCoreLineInv, PTL DEF CoreSpec

\* Under the core's own callers, too, every owner is made on a machine that holds a
\* zero in that owner's mode (begin_activation, observe_telemetry, terminal_disarm),
\* as long as the STM32 is never exactly 2^32 commands behind.
THEOREM CoreImplementsOwnership == CoreSpec /\ []NeverLapped => ImplementsOwnership
<1>1. CoreInit => CoreInv /\ LineInv /\ Ownership!Init
  BY InitEstablishesCoreInv, InitEstablishesLineInv DEF CoreInit
<1>2. CoreInv /\ LineInv /\ NeverLapped' /\ [CoreNext]_allVars => CoreInv' /\ LineInv' /\ Refines
  BY CoreNextKeepsCoreInv, CoreNextIsSinkStep, SinkStepKeepsLineInv DEF CoreInv
<1>3. CoreInv /\ LineInv /\ NeverLapped' /\ [CoreNext]_allVars =>
        [Ownership!Next]_<<IF phase = "active" THEN active ELSE None,
                           [mode |-> dev.mode, act |-> dev.act]>>
  BY <1>2 DEF Refines, OwnerNow, MachineNow
<1> QED
  BY <1>1, <1>2, <1>3, PTL DEF CoreSpec, ImplementsOwnership, Ownership!Spec

\* The serial line is released only when the machine holds a zero and no motion is on
\* its way (terminal_disarm, resident_terminal_zero_is_acknowledged), whichever frame
\* showed the echo, as long as neither the STM32 nor the newest frame is exactly 2^32
\* commands behind.
THEOREM ReleaseAlwaysMeansZero ==
    CoreSpec /\ []NeverLapped /\ []FrameNeverLapped => []ReleaseMeansZero
<1>1. CoreLineInv => ReleaseMeansZero
  <2> SUFFICES ASSUME CoreLineInv, pc = "released"
               PROVE  dev.act = "zero" /\ \A i \in DOMAIN wire : wire[i].act = "zero"
    BY DEF ReleaseMeansZero
  <2>1. AtRest
    BY DEF CoreLineInv, ResultShape
  <2>2. DOMAIN wire = 1 .. Len(wire)
    BY LineFacts DEF CoreLineInv
  <2> QED
    BY <2>1, <2>2 DEF AtRest
<1> QED
  BY <1>1, AlwaysCoreLineInv, PTL

\* Only observe_telemetry completes a segment, on a frame that shows its final command.
LEMMA CompletionStep ==
    ASSUME CoreLineInv, CoreNext, ~seg.complete, seg'.complete
    PROVE  dev.mode # None /\ Behind(dev.seq) <= Behind(seg.final)
<1>1. Sent \subseteq BOOLEAN /\ seg \in Segment
  BY SentType, CoreFacts DEF CoreLineInv, SegmentType
<1>2. ~NoLongerDue.complete
  BY <1>1, NoLongerDueType
<1>3. PICK sent \in Sent : ObserveSegment(sent)
  <2>1. \A n, quiet : Advance(n, quiet).complete = seg.complete
    BY <1>1 DEF Advance, Segment
  <2>2. ~((OwnerStep /\ ~\E sent \in Sent : ObserveSegment(sent)) \/ Closing)
    BY <1>2 DEF OwnerStep, Closing, TickCore, ReadRow, Shutdown, WaitForAck, CoreDisarm, segment
  <2>3. ~Control
    BY <1>2 DEF Control, CheckWorker, ActivateActRefused, Renew, RenewRefused, ActivateRefused,
                Stamp, RenewTooLate, ActivateRl, RequestDisarm, ActivateAct, CoreDisarm, segment
  <2>4. ~(DataLink \/ Runner)
    BY <1>2, <2>1 DEF DataLink, Connect, Disconnect, Notify, BadCandidate, SubmitAct, Runner,
                      StopRl, SubmitRl, coreVars, segment
  <2>5. ~(MissionPasses \/ World)
    BY DEF MissionPasses, World, coreVars, segment
  <2> QED
    BY <2>2, <2>3, <2>4, <2>5 DEF CoreNext
<1>4. /\ SegmentAcked(frame) /\ phase = "active" /\ active = ACT /\ BeginActivation(RL, sent)
  BY <1>3 DEF ObserveSegment, segment
<1>5. target = None /\ RL # ACT /\ RL \in Source /\ None \notin Source
  BY <1>4, LineFacts, CoreFacts, ConstantsAssumption DEF CoreLineInv, AuthorityShape
<1>6. status = "operational"
  BY <1>4, <1>5 DEF BeginActivation, Holds, RequestHandoff
<1>7. frame # None /\ frame.mode # None /\ frame.seq = seg.final
  <2>1. frame # None
    BY <1>6, LineFacts DEF CoreLineInv, IInv, StartShape
  <2>2. Manual \in Mode /\ Manual # None
    BY CoreFacts, ConstantsAssumption DEF CoreLineInv, Manual
  <2> QED
    BY <1>4, <2>1, <2>2 DEF SegmentAcked
<1>8. dev.mode # None /\ Gap(nextSeq, dev.seq) <= Gap(nextSeq, frame.seq)
  BY <1>6, <1>7 DEF CoreLineInv, FrameShape, Counting
<1> QED
  BY <1>7, <1>8 DEF Behind, Gap

\* A segment completes only on a machine that has executed its final action
\* (_act_segment_acknowledged, _complete_act_segment), although the frame that shows it
\* was taken under another lock, before.
THEOREM CompletionAlwaysMeansExecuted ==
    CoreSpec /\ []NeverLapped /\ []FrameNeverLapped => CompleteMeansExecuted
<1>1. CoreLineInv /\ [CoreNext]_allVars =>
        [~seg.complete /\ seg'.complete =>
           dev.mode # None /\ Behind(dev.seq) <= Behind(seg.final)]_allVars
  BY CompletionStep
<1> QED
  BY <1>1, AlwaysCoreLineInv, PTL DEF CoreSpec, CompleteMeansExecuted

=============================================================================
