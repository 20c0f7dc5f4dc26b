------------------------- MODULE ResidentSinkProofs -------------------------
(***************************************************************************)
(* Proofs of the safety properties of ResidentSink for all values of its   *)
(* constants, from one inductive invariant, IInv.                          *)
(***************************************************************************)
EXTENDS ResidentSink, SequenceTheorems, TLAPS

\* Which phases have an owner and a target.
AuthorityShape ==
    /\ phase = "idle" => active = None /\ target = None
    /\ phase = "terminal_zero_pending" => active # None
    /\ phase = "target_zero_pending" => active = None /\ target # None
    /\ phase = "active" => active # None /\ target = None

\* Nothing happens before initialize, which brings the first frame.
StartShape ==
    IF status = "new"
    THEN /\ phase = "idle" /\ pendingAck = None /\ lease = None
         /\ measure = None /\ firstAck = None /\ last = None
    ELSE frame # None

\* A handoff measurement belongs to the current generation, from the target
\* zero on, and its target zero is recorded once the target owns motion.
MeasureShape ==
    status = "operational" /\ measure # None =>
      /\ measure.gen = gen
      /\ phase \in {"target_zero_pending", "active"}
      /\ phase = "active" => measure.claimed

IInv ==
    /\ TypeOK /\ AuthorityShape /\ StartShape /\ MeasureShape
    /\ PendingAckAgrees /\ HandoffEvidenceComplete
    /\ MotionIsLeased /\ MotionHasSafeEvidence /\ MotionStopsInTime
    /\ DisarmedMeansZero

-----------------------------------------------------------------------------
\* TypeOK, by the part of the system that changes the variables.
SinkType ==
    /\ gen \in Nat
    /\ phase \in Phase
    /\ active \in Source \cup {None}
    /\ target \in Source \cup {None}
    /\ pendingAck \in PendingAck \cup {None}
    /\ lease \in Lease \cup {None}
    /\ measure \in Measure \cup {None}
    /\ firstAck \in FirstAck \cup {None}
    /\ unsafeLatched \in BOOLEAN
    /\ status \in {"new", "operational", "disarmed", "faulted"}

OutputType ==
    /\ nextSeq \in Seqs
    /\ last \in Command \cup {None}
    /\ idle \in 0 .. Keepalive
    /\ wire \in Seq(Command)

OutsideType ==
    /\ frame \in Frame \cup {None}
    /\ age \in 0 .. MaxAge + 1
    /\ ticked \in BOOLEAN
    /\ dev \in Device
    /\ healthy \in BOOLEAN

LEMMA TypeParts == TypeOK <=> SinkType /\ OutputType /\ OutsideType
BY ZenonT(20) DEF TypeOK, SinkType, OutputType, OutsideType

LEMMA InitEstablishesIInv == Init => IInv
<1> SUFFICES ASSUME Init PROVE IInv
  OBVIOUS
<1> USE ConstantsAssumption
<1>1. TypeOK
  <2>1. wire \in Seq(Command)
    BY EmptySeq DEF Init
  <2>2. healthy \in BOOLEAN
    BY ZenonT(20) DEF Init
  <2>3. 0 \in Seqs /\ 0 \in 0 .. MaxAge + 1 /\ 0 \in 0 .. Keepalive
    BY DEF Seqs
  <2> QED
    BY <2>1, <2>2, <2>3 DEF Init, TypeOK, Phase
<1>2. AuthorityShape /\ StartShape /\ MeasureShape
  BY DEF Init, AuthorityShape, StartShape, MeasureShape
<1>3. PendingAckAgrees /\ HandoffEvidenceComplete /\ DisarmedMeansZero
  BY DEF Init, PendingAckAgrees, HandoffEvidenceComplete, DisarmedMeansZero
<1>4. ~Moving
  BY DEF Init, Moving
<1>5. MotionIsLeased /\ MotionHasSafeEvidence /\ MotionStopsInTime
  BY <1>4 DEF MotionIsLeased, MotionHasSafeEvidence, MotionStopsInTime
<1> QED
  BY <1>1, <1>2, <1>3, <1>5 DEF IInv

\* A mode of a pending zero is a firmware mode.
LEMMA ZeroModeType ==
    ASSUME TypeOK, AuthorityShape, phase \in ZeroPending
    PROVE  ZeroMode \in Mode
BY ConstantsAssumption DEF TypeOK, AuthorityShape, ZeroMode, ZeroPending

\* What _write_locked leaves, sent or not.
LEMMA WriteType ==
    ASSUME TypeOK, NEW mode \in Mode, NEW act \in Action, NEW sent \in BOOLEAN,
           Write(mode, act, sent)
    PROVE  /\ nextSeq' \in Seqs
           /\ last' \in Command \cup {None}
           /\ idle' \in 0 .. Keepalive
           /\ wire' \in Seq(Command)
           /\ sent => last' = [seq |-> nextSeq, mode |-> mode, act |-> act]
<1> DEFINE cmd == [seq |-> nextSeq, mode |-> mode, act |-> act]
<1>1. cmd \in Command
  BY DEF TypeOK, Command
<1>2. nextSeq' \in Seqs
  BY ConstantsAssumption DEF TypeOK, Write, Seqs
<1>3. Transmit(cmd) \in Seq(Command)
  BY <1>1, ConstantsAssumption DEF TypeOK, Transmit
<1>4. /\ wire' \in Seq(Command)
      /\ last' \in Command \cup {None}
      /\ idle' \in 0 .. Keepalive
  BY <1>1, <1>3, ConstantsAssumption DEF TypeOK, Write
<1> QED
  BY <1>2, <1>4 DEF Write

LEMMA SentType == Sent \subseteq BOOLEAN
BY DEF Sent

\* The zero of a new phase is written and awaited, and nothing else is.
LEMMA IssuePendingZeroLemma ==
    ASSUME TypeOK, status = "operational", NEW sent \in BOOLEAN,
           gen' \in Nat, phase' \in Phase, active' \in Source \cup {None},
           target' \in Source \cup {None}, AuthorityShape',
           IssuePendingZero(sent)
    PROVE  /\ OutputType'
           /\ pendingAck' \in PendingAck \cup {None}
           /\ status' \in {"operational", "faulted"}
           /\ PendingAckAgrees'
           /\ phase' \in ZeroPending =>
                status' = "faulted" \/ (last' # None /\ last'.act = "zero")
           /\ phase' \notin ZeroPending => UNCHANGED <<output, status>>
<1>1. CASE phase' \in ZeroPending
  <2>1. ZeroMode' \in Mode
    BY <1>1, ConstantsAssumption DEF AuthorityShape, ZeroMode, ZeroPending
  <2>2. Write(ZeroMode', "zero", sent)
    BY <1>1 DEF IssuePendingZero
  <2>3. /\ OutputType'
        /\ sent => last' = [seq |-> nextSeq, mode |-> ZeroMode', act |-> "zero"]
    BY <2>1, <2>2, WriteType DEF OutputType, Action
  <2>4. nextSeq \in Seqs
    BY DEF TypeOK
  <2>5. CASE sent
    <3> DEFINE ack == [gen |-> gen', mode |-> ZeroMode', purpose |-> phase',
                       seq |-> nextSeq]
    <3>1. pendingAck' = ack /\ status' = "operational"
      BY <1>1, <2>5 DEF IssuePendingZero, StatusAfter
    <3>2. ack \in PendingAck
      BY <1>1, <2>1, <2>4 DEF PendingAck
    <3>3. PendingAckAgrees'
      BY <1>1, <3>1, <3>2, ConstantsAssumption DEF PendingAckAgrees
    <3>4. last' # None /\ last'.act = "zero"
      BY <2>1, <2>3, <2>4, <2>5, ConstantsAssumption DEF Command, Action
    <3> QED
      BY <1>1, <2>3, <3>1, <3>2, <3>3, <3>4
  <2>6. CASE ~sent
    <3>1. pendingAck' = None /\ status' = "faulted"
      BY <1>1, <2>6 DEF IssuePendingZero, StatusAfter
    <3> QED
      BY <1>1, <2>3, <3>1 DEF PendingAckAgrees
  <2> QED
    BY <2>5, <2>6
<1>2. CASE phase' \notin ZeroPending
  <2>1. pendingAck' = None /\ UNCHANGED <<output, status>>
    BY <1>2 DEF IssuePendingZero
  <2> QED
    BY <1>2, <2>1 DEF PendingAckAgrees, OutputType, TypeOK, output
<1> QED
  BY <1>1, <1>2

\* Motion on the line has an owner.
LEMMA MovingIsActive ==
    ASSUME IInv, Moving
    PROVE  /\ phase = "active" /\ active \in Source /\ pendingAck = None
           /\ lease \in Lease
           /\ ~unsafeLatched
BY ConstantsAssumption
   DEF IInv, MotionIsLeased, MotionHasSafeEvidence, LeaseCurrent, AuthorityShape, TypeOK

\* Whoever stops the sink, whatever telemetry and time do in the same step.
LEMMA StopPreserves ==
    ASSUME IInv, status = "operational", NEW sent \in BOOLEAN, Stop(sent),
           OutsideType', frame' # None
    PROVE  IInv'
<1>1. TypeOK /\ AuthorityShape
  BY DEF IInv
<1>2. /\ gen' \in Nat /\ phase' \in Phase
      /\ active' \in Source \cup {None} /\ target' \in Source \cup {None}
      /\ phase' \in {"idle", "terminal_zero_pending"}
      /\ phase' = "idle" => active = None
  BY <1>1 DEF Stop, StopAuthority, TypeOK, Phase
<1>3. AuthorityShape'
  BY <1>1 DEF Stop, StopAuthority, AuthorityShape
<1>4. IssuePendingZero(sent)
  BY DEF Stop
<1>5. /\ OutputType' /\ pendingAck' \in PendingAck \cup {None}
      /\ status' \in {"operational", "faulted"}
      /\ PendingAckAgrees'
      /\ phase' \in ZeroPending =>
           status' = "faulted" \/ (last' # None /\ last'.act = "zero")
      /\ phase' \notin ZeroPending => UNCHANGED <<output, status>>
  BY <1>1, <1>2, <1>3, <1>4, IssuePendingZeroLemma
<1>6. lease' = None /\ measure' = None /\ firstAck' = None /\ unsafeLatched'
  BY DEF Stop
<1>7. TypeOK'
  <2>1. SinkType'
    BY <1>2, <1>5, <1>6 DEF SinkType
  <2> QED
    BY <1>5, <2>1 DEF TypeOK, SinkType, OutputType, OutsideType
<1>8. ~Moving'
  <2>1. CASE phase' \in ZeroPending
    BY <1>5, <2>1 DEF Moving
  <2>2. CASE phase' \notin ZeroPending
    <3>1. active = None
      BY <1>2, <2>2 DEF ZeroPending
    <3>2. ~Moving
      BY <3>1, MovingIsActive, ConstantsAssumption
    <3> QED
      BY <1>5, <2>2, <3>2 DEF Moving, output
  <2> QED
    BY <2>1, <2>2
<1>9. StartShape' /\ MeasureShape' /\ HandoffEvidenceComplete' /\ DisarmedMeansZero'
  BY <1>5, <1>6 DEF StartShape, MeasureShape, HandoffEvidenceComplete, DisarmedMeansZero
<1>10. MotionIsLeased' /\ MotionHasSafeEvidence' /\ MotionStopsInTime'
  BY <1>8 DEF MotionIsLeased, MotionHasSafeEvidence, MotionStopsInTime
<1> QED
  BY <1>3, <1>5, <1>7, <1>9, <1>10 DEF IInv

-----------------------------------------------------------------------------
(* One lemma per action.                                                   *)

LEMMA InitializeStep == ASSUME IInv, Initialize PROVE IInv'
<1>1. TypeOK /\ StartShape
  BY DEF IInv
<1>2. Sample \in Frame
  BY <1>1 DEF TypeOK, Sample, Device, Frame
<1>3. nextSeq' \in Seqs
  BY <1>1, ConstantsAssumption DEF Initialize, TypeOK, Seqs, Device
<1>4. OutsideType' /\ frame' # None
  BY <1>1, <1>2, ConstantsAssumption
     DEF Initialize, TypeOK, OutsideType, environment
<1>5. UNCHANGED <<authority, handoff, lease, unsafeLatched, last, idle, wire>>
  BY DEF Initialize
<1>6. TypeOK'
  <2>1. SinkType'
    BY <1>1, <1>5 DEF SinkType, TypeOK, Initialize, authority, handoff
  <2>2. OutputType'
    BY <1>1, <1>3, <1>5 DEF OutputType, TypeOK
  <2> QED
    BY <1>4, <2>1, <2>2 DEF TypeOK, SinkType, OutputType, OutsideType
<1>7. /\ phase' = "idle" /\ active' = None /\ target' = None
      /\ pendingAck' = None /\ lease' = None
      /\ measure' = None /\ firstAck' = None /\ last' = None
      /\ status' = "operational"
  BY <1>1, <1>5 DEF IInv, StartShape, AuthorityShape, Initialize, authority, handoff
<1>8. /\ AuthorityShape' /\ StartShape' /\ MeasureShape' /\ PendingAckAgrees'
      /\ HandoffEvidenceComplete' /\ DisarmedMeansZero'
  BY <1>4, <1>7 DEF AuthorityShape, StartShape, MeasureShape, PendingAckAgrees,
     HandoffEvidenceComplete, DisarmedMeansZero, ZeroPending
<1>9. MotionIsLeased' /\ MotionHasSafeEvidence' /\ MotionStopsInTime'
  BY <1>7 DEF Moving, MotionIsLeased, MotionHasSafeEvidence, MotionStopsInTime
<1> QED
  BY <1>6, <1>8, <1>9 DEF IInv

LEMMA RequestHandoffStep ==
    ASSUME IInv, NEW s \in Source, NEW sent \in BOOLEAN, RequestHandoff(s, sent)
    PROVE  IInv'
<1>1. TypeOK /\ AuthorityShape /\ StartShape /\ status = "operational"
  BY DEF IInv, RequestHandoff
<1>2. /\ gen' \in Nat /\ phase' \in ZeroPending
      /\ active' \in Source \cup {None} /\ target' \in Source \cup {None}
  BY <1>1 DEF RequestHandoff, RequestHandoffOf, TypeOK, ZeroPending
<1>3. AuthorityShape'
  BY <1>1, ConstantsAssumption DEF RequestHandoff, RequestHandoffOf, AuthorityShape
<1>4. phase' \in Phase
  BY <1>2 DEF Phase, ZeroPending
<1>5. IssuePendingZero(sent)
  BY DEF RequestHandoff
<1>6. /\ OutputType' /\ pendingAck' \in PendingAck \cup {None}
      /\ status' \in {"operational", "faulted"}
      /\ PendingAckAgrees'
      /\ status' = "faulted" \/ (last' # None /\ last'.act = "zero")
  BY <1>1, <1>2, <1>3, <1>4, <1>5, IssuePendingZeroLemma
<1>7. lease' = None /\ measure' = None /\ firstAck' = None /\ unsafeLatched' = FALSE
  BY DEF RequestHandoff
<1>8. OutsideType' /\ frame' # None
  BY <1>1 DEF RequestHandoff, TypeOK, OutsideType, StartShape, evidence, environment
<1>9. TypeOK'
  <2>1. SinkType'
    BY <1>2, <1>4, <1>6, <1>7 DEF SinkType
  <2> QED
    BY <1>6, <1>8, <2>1 DEF TypeOK, SinkType, OutputType, OutsideType
<1>10. StartShape' /\ MeasureShape' /\ HandoffEvidenceComplete' /\ DisarmedMeansZero'
  BY <1>6, <1>7, <1>8 DEF StartShape, MeasureShape, HandoffEvidenceComplete,
     DisarmedMeansZero
<1>11. MotionIsLeased' /\ MotionHasSafeEvidence' /\ MotionStopsInTime'
  BY <1>6 DEF Moving, MotionIsLeased, MotionHasSafeEvidence, MotionStopsInTime
<1> QED
  BY <1>3, <1>6, <1>9, <1>10, <1>11 DEF IInv

\* What the sink does not read changes nothing it relies on.
LEMMA OutsideUnchanged ==
    ASSUME IInv, UNCHANGED <<evidence, ticked, environment>>
    PROVE  OutsideType' /\ (status # "new" => frame' # None)
BY DEF IInv, TypeOK, StartShape, OutsideType, evidence, environment

LEMMA RequestStopStep ==
    ASSUME IInv, NEW sent \in BOOLEAN, RequestStop(sent)
    PROVE  IInv'
<1>1. status = "operational" /\ Stop(sent)
  BY DEF RequestStop
<1>2. OutsideType' /\ frame' # None
  BY <1>1, OutsideUnchanged DEF RequestStop
<1> QED
  BY <1>1, <1>2, StopPreserves

LEMMA RequestSourceStopStep ==
    ASSUME IInv, NEW s, NEW g, NEW sent \in BOOLEAN, RequestSourceStop(s, g, sent)
    PROVE  IInv'
<1>1. status = "operational" /\ Stop(sent)
  BY DEF RequestSourceStop
<1>2. OutsideType' /\ frame' # None
  BY <1>1, OutsideUnchanged DEF RequestSourceStop
<1> QED
  BY <1>1, <1>2, StopPreserves

\* Steps of the line, of the STM32 and of telemetry's other bits.
LEMMA EnvironmentStep ==
    ASSUME IInv, UNCHANGED <<sinkVars, evidence, nextSeq, last, idle, ticked>>,
           wire' \in Seq(Command), dev' \in Device, healthy' \in BOOLEAN
    PROVE  IInv'
<1> USE DEF sinkVars, authority, handoff, evidence
<1>1. TypeOK'
  BY DEF IInv, TypeOK
<1>2. AuthorityShape' /\ StartShape' /\ MeasureShape'
  BY DEF IInv, AuthorityShape, StartShape, MeasureShape
<1>3. PendingAckAgrees' /\ HandoffEvidenceComplete' /\ DisarmedMeansZero'
  BY DEF IInv, PendingAckAgrees, HandoffEvidenceComplete, DisarmedMeansZero, ZeroMode
<1>4. MotionIsLeased' /\ MotionHasSafeEvidence' /\ MotionStopsInTime'
  BY DEF IInv, Moving, MotionIsLeased, MotionHasSafeEvidence, MotionStopsInTime,
     LeaseCurrent, Safe
<1> QED
  BY <1>1, <1>2, <1>3, <1>4 DEF IInv

LEMMA LineSteps ==
    ASSUME IInv, DeliverCommand \/ LoseCommand \/ DeviceTimeout \/ HealthChange
    PROVE  IInv'
<1>1. TypeOK
  BY DEF IInv
<1>2. wire # <<>> => Head(wire) \in Command /\ Tail(wire) \in Seq(Command)
  BY <1>1, HeadTailProperties DEF TypeOK
<1>3. CASE DeliverCommand
  <2>1. wire' \in Seq(Command) /\ healthy' \in BOOLEAN
    BY <1>1, <1>2, <1>3 DEF DeliverCommand, TypeOK
  <2>2. dev' \in Device
    BY <1>2, <1>3 DEF DeliverCommand, Command, Device
  <2> QED
    BY <1>3, <2>1, <2>2, EnvironmentStep DEF DeliverCommand
<1>4. CASE LoseCommand
  <2>1. wire' \in Seq(Command) /\ dev' \in Device /\ healthy' \in BOOLEAN
    BY <1>1, <1>2, <1>4 DEF LoseCommand, TypeOK, environment
  <2> QED
    BY <1>4, <2>1, EnvironmentStep DEF LoseCommand
<1>5. CASE DeviceTimeout
  <2>1. wire' \in Seq(Command) /\ healthy' \in BOOLEAN
    BY <1>1, <1>5 DEF DeviceTimeout, TypeOK, output
  <2>2. dev' \in Device
    BY <1>1, <1>5 DEF DeviceTimeout, TypeOK, Device
  <2> QED
    BY <1>5, <2>1, <2>2, EnvironmentStep DEF DeviceTimeout, output
<1>6. CASE HealthChange
  <2>1. wire' \in Seq(Command) /\ dev' \in Device /\ healthy' \in BOOLEAN
    BY <1>1, <1>6 DEF HealthChange, TypeOK, output
  <2> QED
    BY <1>6, <2>1, EnvironmentStep DEF HealthChange, output
<1> QED
  BY <1>3, <1>4, <1>5, <1>6

LEMMA ClockStep == ASSUME IInv, Clock PROVE IInv'
<1> USE DEF authority, handoff, environment
<1>1. age' \in 0 .. MaxAge + 1 /\ idle' \in 0 .. Keepalive
  BY ConstantsAssumption DEF IInv, TypeOK, Clock
<1>2. /\ lease' \in Lease \cup {None}
      /\ lease = None <=> lease' = None
      /\ lease # None => lease'.src = lease.src /\ lease'.gen = lease.gen
  <2>1. lease \in Lease \cup {None}
    BY DEF IInv, TypeOK
  <2>2. CASE lease # None /\ lease.left >= 0
    <3>1. lease \in Lease /\ lease' = [lease EXCEPT !.left = @ - 1]
      BY <2>1, <2>2 DEF Clock
    <3>2. lease' \in Lease
      BY <2>2, <3>1, ConstantsAssumption DEF Lease
    <3> QED
      BY <2>2, <3>1, <3>2, ConstantsAssumption DEF Lease
  <2>3. CASE ~(lease # None /\ lease.left >= 0)
    BY <2>1, <2>3 DEF Clock
  <2> QED
    BY <2>2, <2>3
<1>3. TypeOK'
  BY <1>1, <1>2 DEF IInv, TypeOK, Clock
<1>4. AuthorityShape' /\ StartShape' /\ MeasureShape'
  BY <1>2 DEF IInv, AuthorityShape, StartShape, MeasureShape, Clock
<1>5. PendingAckAgrees' /\ HandoffEvidenceComplete' /\ DisarmedMeansZero'
  BY DEF IInv, PendingAckAgrees, HandoffEvidenceComplete, DisarmedMeansZero,
     ZeroMode, Clock
<1>6. MotionIsLeased' /\ MotionHasSafeEvidence' /\ MotionStopsInTime'
  BY <1>2 DEF IInv, Moving, MotionIsLeased, MotionHasSafeEvidence,
     MotionStopsInTime, LeaseCurrent, Safe, Clock
<1> QED
  BY <1>3, <1>4, <1>5, <1>6 DEF IInv

LEMMA ObserveZeroAckStep ==
    ASSUME IInv, status = "operational", NEW f \in Frame, NEW sent \in BOOLEAN,
           ObserveZeroAck(f, sent), OutsideType', frame' # None
    PROVE  IInv'
<1>1. TypeOK /\ AuthorityShape
  BY DEF IInv
<1>2. pendingAck # None /\ phase \in ZeroPending /\ firstAck = None
  BY DEF IInv, ObserveZeroAck, AckMatches, PendingAckAgrees,
     HandoffEvidenceComplete, ZeroPending
<1>3. /\ gen' = gen /\ phase' \in Phase
      /\ active' \in Source \cup {None} /\ target' \in Source \cup {None}
  BY <1>1 DEF ObserveZeroAck, AcknowledgeZero, TypeOK, Phase
<1>4. AuthorityShape'
  BY <1>1, <1>2 DEF ObserveZeroAck, AcknowledgeZero, AuthorityShape, ZeroPending
<1>5. IssuePendingZero(sent)
  BY DEF ObserveZeroAck
<1>6. /\ OutputType' /\ pendingAck' \in PendingAck \cup {None}
      /\ status' \in {"operational", "faulted"}
      /\ PendingAckAgrees'
      /\ phase' \in ZeroPending =>
           status' = "faulted" \/ (last' # None /\ last'.act = "zero")
      /\ phase' \notin ZeroPending => UNCHANGED <<output, status>>
  BY <1>1, <1>3, <1>4, <1>5, IssuePendingZeroLemma DEF TypeOK
<1>7. firstAck' = None /\ lease' = lease /\ unsafeLatched' \in BOOLEAN
  BY <1>1, <1>2 DEF ObserveZeroAck, TypeOK
<1>8. measure' \in Measure \cup {None} /\ MeasureShape'
  <2>1. CASE phase = "terminal_zero_pending" /\ target = None
    <3>1. measure = None /\ measure' = measure
      BY <2>1, <1>1 DEF IInv, MeasureShape, ObserveZeroAck
    <3> QED
      BY <3>1 DEF MeasureShape
  <2>2. CASE phase = "terminal_zero_pending" /\ target # None
    <3> DEFINE new == [gen |-> gen, claimed |-> FALSE]
    <3>1. measure' = (IF sent THEN new ELSE None) /\ phase' = "target_zero_pending"
      BY <2>2 DEF ObserveZeroAck, AcknowledgeZero
    <3>2. new \in Measure
      BY <1>1 DEF TypeOK, Measure
    <3> QED
      BY <1>3, <3>1, <3>2 DEF MeasureShape
  <2>3. CASE phase = "target_zero_pending"
    <3>1. phase' = "active"
      BY <2>3 DEF ObserveZeroAck, AcknowledgeZero
    <3>2. CASE measure = None
      <4>1. measure' = None
        BY <2>3, <3>2 DEF ObserveZeroAck
      <4> QED
        BY <4>1 DEF MeasureShape
    <3>3. CASE measure # None
      <4>1. measure \in Measure /\ measure.gen = gen
        BY <1>1, <3>3 DEF IInv, TypeOK, MeasureShape
      <4>2. measure' = [measure EXCEPT !.claimed = TRUE]
        BY <2>3, <3>3, <4>1 DEF ObserveZeroAck
      <4> QED
        BY <1>3, <3>1, <4>1, <4>2 DEF Measure, MeasureShape
    <3> QED
      BY <3>2, <3>3
  <2> QED
    BY <1>2, <2>1, <2>2, <2>3 DEF ZeroPending
<1>9. TypeOK'
  <2>1. SinkType'
    BY <1>1, <1>3, <1>6, <1>7, <1>8 DEF SinkType, TypeOK
  <2> QED
    BY <1>6, <2>1 DEF TypeOK, SinkType, OutputType, OutsideType
<1>10. ~Moving'
  <2>1. ~Moving
    BY <1>2, MovingIsActive
  <2> QED
    BY <1>6, <2>1 DEF Moving, output
<1>11. StartShape' /\ HandoffEvidenceComplete' /\ DisarmedMeansZero'
  BY <1>6, <1>7 DEF StartShape, HandoffEvidenceComplete, DisarmedMeansZero
<1>12. MotionIsLeased' /\ MotionHasSafeEvidence' /\ MotionStopsInTime'
  BY <1>10 DEF MotionIsLeased, MotionHasSafeEvidence, MotionStopsInTime
<1> QED
  BY <1>4, <1>6, <1>8, <1>9, <1>11, <1>12 DEF IInv

LEMMA ObserveOtherStep ==
    ASSUME IInv, status = "operational", NEW f \in Frame, NEW sent \in BOOLEAN,
           ObserveOther(f, sent), OutsideType', frame' = f, age' = 0,
           UNCHANGED ticked
    PROVE  IInv'
<1> DEFINE safe == active # None /\ Safe(f, 0, ModeOf[active])
<1>0. frame' # None
  BY ConstantsAssumption
<1>1. CASE active # None /\ ~safe /\ ~unsafeLatched
  <2>1. Stop(sent)
    BY <1>1 DEF ObserveOther
  <2> QED
    BY <1>0, <2>1, StopPreserves
<1>2. CASE ~(active # None /\ ~safe /\ ~unsafeLatched)
  <2>1. /\ unsafeLatched' = (unsafeLatched /\ ~(safe /\ pendingAck = None))
        /\ \/ measure' = None /\ firstAck' = None
           \/ UNCHANGED <<measure, firstAck>>
        /\ UNCHANGED <<authority, pendingAck, lease, output, status>>
    BY <1>2 DEF ObserveOther
  <2> USE <2>1 DEF authority, output
  <2>2. TypeOK'
    <3>1. unsafeLatched' \in BOOLEAN
      BY ZenonT(20) DEF IInv, TypeOK
    <3> QED
      BY <3>1 DEF IInv, TypeOK, OutsideType
  <2>3. AuthorityShape' /\ StartShape' /\ MeasureShape'
    BY <1>0 DEF IInv, AuthorityShape, StartShape, MeasureShape
  <2>4. PendingAckAgrees' /\ HandoffEvidenceComplete' /\ DisarmedMeansZero'
    BY DEF IInv, PendingAckAgrees, HandoffEvidenceComplete, DisarmedMeansZero, ZeroMode
  <2>5. MotionIsLeased' /\ Moving' = Moving
    BY DEF IInv, Moving, MotionIsLeased, LeaseCurrent
  <2>6. Moving => active # None /\ ~unsafeLatched /\ safe
    BY <1>2, MovingIsActive, ConstantsAssumption
  <2>7. MotionHasSafeEvidence'
    BY <2>5, <2>6 DEF MotionHasSafeEvidence
  <2>8. MotionStopsInTime'
    BY <2>5, ConstantsAssumption DEF IInv, MotionStopsInTime
  <2> QED
    BY <2>2, <2>3, <2>4, <2>5, <2>7, <2>8 DEF IInv
<1> QED
  BY <1>1, <1>2

LEMMA ObserveFrameStep ==
    ASSUME IInv, NEW f \in Frame, NEW sent \in BOOLEAN, ObserveFrame(f, sent)
    PROVE  IInv'
<1>1. /\ frame' = f /\ frame' # None /\ age' = 0 /\ UNCHANGED ticked
      /\ status # "new"
      /\ OutsideType'
  BY ConstantsAssumption DEF IInv, TypeOK, OutsideType, ObserveFrame, environment
<1>2. CASE status = "operational"
  <2>1. ObserveZeroAck(f, sent) \/ ObserveOther(f, sent)
    BY <1>2 DEF ObserveFrame
  <2> QED
    BY <1>1, <1>2, <2>1, ObserveZeroAckStep, ObserveOtherStep
<1>3. CASE status # "operational"
  <2>1. UNCHANGED <<authority, handoff, lease, unsafeLatched, output, status>>
    BY <1>3 DEF ObserveFrame
  <2> USE <2>1 DEF authority, handoff, output
  <2>2. TypeOK'
    BY <1>1 DEF IInv, TypeOK, OutsideType
  <2>3. AuthorityShape' /\ StartShape' /\ MeasureShape' /\ DisarmedMeansZero'
    BY <1>1 DEF IInv, AuthorityShape, StartShape, MeasureShape, DisarmedMeansZero
  <2>4. /\ PendingAckAgrees' /\ HandoffEvidenceComplete'
        /\ MotionIsLeased' /\ MotionHasSafeEvidence' /\ MotionStopsInTime'
    BY <1>3 DEF PendingAckAgrees, HandoffEvidenceComplete, MotionIsLeased,
       MotionHasSafeEvidence, MotionStopsInTime, Moving
  <2> QED
    BY <2>2, <2>3, <2>4 DEF IInv
<1> QED
  BY <1>2, <1>3

LEMMA ObserveSteps ==
    ASSUME IInv, NEW sent \in BOOLEAN,
           ObserveTelemetry(sent) \/ InvalidateTelemetry(sent)
    PROVE  IInv'
<1>1. Sample \in Frame
  BY DEF IInv, TypeOK, Sample, Device, Frame
<1>2. CASE ObserveTelemetry(sent)
  BY <1>1, <1>2, ObserveFrameStep DEF ObserveTelemetry
<1>3. CASE InvalidateTelemetry(sent)
  <2>1. frame \in Frame
    BY <1>3 DEF IInv, TypeOK, StartShape, InvalidateTelemetry
  <2>2. [frame EXCEPT !.ok = FALSE] \in Frame
    BY <2>1 DEF Frame
  <2> QED
    BY <1>3, <2>2, ObserveFrameStep DEF InvalidateTelemetry
<1> QED
  BY <1>2, <1>3

LEMMA DecisionModeType ==
    ASSUME TypeOK, AuthorityShape, DecisionMode # None
    PROVE  DecisionMode \in Mode
<1>1. CASE phase \in ZeroPending
  BY <1>1, ZeroModeType DEF DecisionMode
<1>2. CASE phase \notin ZeroPending
  BY <1>2, ConstantsAssumption DEF DecisionMode, TypeOK
<1> QED
  BY <1>1, <1>2

\* What it takes for a candidate to be accepted.
LEMMA AcceptedMeans ==
    ASSUME TypeOK, NEW c \in CandidateOf(Nat), NEW permitted \in BOOLEAN,
           Route(c, permitted) = "accepted"
    PROVE  /\ phase = "active" /\ c.src = active /\ c.gen = gen
           /\ permitted /\ c.act \in Action
BY DEF Route, TypeOK, Phase, ZeroPending, CandidateOf, Action

LEMMA WriteDecisionStep ==
    ASSUME IInv, status = "operational", NEW c \in CandidateOf(Nat),
           NEW permitted \in BOOLEAN, NEW sent \in BOOLEAN,
           NEW accepted \in BOOLEAN,
           accepted <=> Route(c, permitted) = "accepted",
           accepted => firstAck = None,
           permitted => SafetyPermits,
           pendingAck = None, DecisionMode # None,
           WriteDecision(c, accepted, sent),
           UNCHANGED <<evidence, ticked, environment>>
    PROVE  IInv'
<1> DEFINE act == IF accepted THEN c.act ELSE "zero"
           cmd == [seq |-> nextSeq, mode |-> DecisionMode, act |-> act]
           owned == [src |-> c.src, gen |-> c.gen, left |-> c.left]
           awaited == [gen |-> c.gen, mode |-> ModeOf[c.src], seq |-> nextSeq]
<1>1. TypeOK /\ AuthorityShape
  BY DEF IInv
<1>2. DecisionMode \in Mode
  BY <1>1, DecisionModeType
<1>3. accepted => /\ phase = "active" /\ c.src = active /\ c.gen = gen
                  /\ SafetyPermits /\ c.act \in Action
  BY <1>1, AcceptedMeans
<1>4. act \in Action /\ c.src \in Source /\ c.gen \in Nat /\ c.left \in 0 .. MaxLease
  BY <1>3 DEF Action, CandidateOf
<1>5. Write(DecisionMode, act, sent)
  BY DEF WriteDecision
<1>6. OutputType' /\ (sent => last' = cmd)
  BY <1>1, <1>2, <1>4, <1>5, WriteType DEF OutputType
<1>7. status' = (IF sent THEN "operational" ELSE "faulted")
  BY DEF WriteDecision, StatusAfter
<1>8. OutsideType' /\ frame' # None
  BY OutsideUnchanged
<1>9. UNCHANGED <<gen, phase, active, target, pendingAck>>
  BY DEF WriteDecision, authority
<1>10. lease' = (IF ~sent THEN lease ELSE IF act = "motion" THEN owned ELSE None)
  BY DEF WriteDecision
<1>11. \/ firstAck' = None
       \/ accepted /\ firstAck' = firstAck
       \/ /\ sent /\ accepted /\ measure # None /\ measure.gen = c.gen
          /\ firstAck' = awaited
  BY DEF WriteDecision
<1>12. measure' = (IF sent /\ accepted THEN measure ELSE None)
  BY DEF WriteDecision
<1>13. unsafeLatched' = (IF sent THEN ~accepted ELSE unsafeLatched)
  BY DEF WriteDecision
<1>14. owned \in Lease /\ awaited \in FirstAck
  BY <1>1, <1>4, ConstantsAssumption DEF Lease, FirstAck, TypeOK
<1>15. TypeOK'
  <2>1. unsafeLatched' \in BOOLEAN
    BY <1>1, <1>13 DEF TypeOK
  <2>2. lease' \in Lease \cup {None} /\ firstAck' \in FirstAck \cup {None}
    BY <1>1, <1>10, <1>11, <1>14 DEF TypeOK
  <2>3. measure' \in Measure \cup {None} /\ status' \in {"operational", "faulted"}
    BY <1>1, <1>7, <1>12 DEF TypeOK
  <2>4. SinkType'
    BY <1>1, <1>9, <2>1, <2>2, <2>3 DEF TypeOK, SinkType
  <2> QED
    BY <1>6, <1>8, <2>4 DEF TypeOK, SinkType, OutputType, OutsideType
<1>16. AuthorityShape' /\ StartShape' /\ MeasureShape' /\ PendingAckAgrees'
       /\ DisarmedMeansZero'
  BY <1>7, <1>8, <1>9, <1>12
     DEF IInv, AuthorityShape, StartShape, MeasureShape, PendingAckAgrees, ZeroMode,
         DisarmedMeansZero
<1>17. HandoffEvidenceComplete'
  <2>1. SUFFICES ASSUME status' = "operational", firstAck' # None
                 PROVE  /\ phase' = "active" /\ firstAck'.gen = gen'
                        /\ measure' # None /\ measure'.gen = gen' /\ measure'.claimed
    BY DEF HandoffEvidenceComplete
  <2>2. /\ sent /\ accepted /\ measure # None /\ measure.gen = c.gen
        /\ firstAck' = awaited
    BY <1>7, <1>11, <2>1
  <2>3. measure' = measure /\ phase = "active" /\ c.gen = gen
    BY <1>3, <1>12, <2>2
  <2> QED
    BY <1>9, <2>2, <2>3 DEF IInv, MeasureShape
<1>18. MotionIsLeased' /\ MotionHasSafeEvidence' /\ MotionStopsInTime'
  <2>1. CASE ~Moving'
    BY <2>1 DEF MotionIsLeased, MotionHasSafeEvidence, MotionStopsInTime
  <2>2. CASE Moving'
    <3>1. sent /\ last' = cmd
      BY <1>6, <1>7, <2>2 DEF Moving
    <3>2. act = "motion" /\ accepted
      BY <2>2, <3>1 DEF Moving
    <3>3. /\ phase = "active" /\ c.src = active /\ c.gen = gen /\ SafetyPermits
          /\ lease' = owned /\ unsafeLatched' = FALSE
      BY <1>3, <1>10, <1>13, <3>1, <3>2
    <3>4. DecisionMode = ModeOf[active] /\ active # None
      BY <1>4, <3>3, ConstantsAssumption DEF DecisionMode, ZeroPending
    <3>5. MotionIsLeased'
      BY <1>9, <1>14, <3>1, <3>3, <3>4, ConstantsAssumption
         DEF MotionIsLeased, LeaseCurrent
    <3>6. UNCHANGED <<frame, age>> /\ age \in 0 .. MaxAge + 1
      BY <1>1 DEF evidence, TypeOK
    <3>7. MotionHasSafeEvidence'
      BY <1>9, <3>3, <3>6, ConstantsAssumption DEF MotionHasSafeEvidence, SafetyPermits, Safe
    <3>8. MotionStopsInTime'
      BY <1>4, <3>3, <3>6, ConstantsAssumption DEF MotionStopsInTime, SafetyPermits, Safe
    <3> QED
      BY <3>5, <3>7, <3>8
  <2> QED
    BY <2>1, <2>2
<1> QED
  BY <1>15, <1>16, <1>17, <1>18 DEF IInv

\* A step that only the environment and the refused caller see.
LEMMA NoEffect ==
    ASSUME IInv,
           UNCHANGED <<authority, handoff, lease, unsafeLatched, output, status,
                       evidence, ticked, environment>>
    PROVE  IInv'
BY EnvironmentStep DEF IInv, TypeOK, sinkVars, output, environment

LEMMA SubmitStep ==
    ASSUME IInv, NEW c \in CandidateOf(Nat), NEW late \in BOOLEAN,
           NEW sent \in BOOLEAN, SubmitCandidate(c, late, sent)
    PROVE  IInv'
<1> DEFINE permitted == ~late /\ SafetyPermits
           reason == Route(c, permitted)
<1>1. status = "operational" /\ UNCHANGED <<evidence, ticked, environment>>
  BY DEF SubmitCandidate
<1>2. CASE \/ pendingAck # None \/ DecisionMode = None \/ reason \in Passive
           \/ reason = "accepted" /\ firstAck # None
  BY <1>1, <1>2, NoEffect DEF SubmitCandidate
<1>3. CASE /\ pendingAck = None /\ DecisionMode # None /\ reason \notin Passive
           /\ ~(reason = "accepted" /\ firstAck # None)
  <2>1. CASE reason = "safety_rejected"
    <3>1. Stop(sent)
      BY <1>3, <2>1 DEF SubmitCandidate
    <3> QED
      BY <1>1, <3>1, OutsideUnchanged, StopPreserves
  <2>2. CASE reason # "safety_rejected"
    <3>1. WriteDecision(c, reason = "accepted", sent)
      BY <1>3, <2>2 DEF SubmitCandidate
    <3>2. permitted \in BOOLEAN /\ (permitted => SafetyPermits)
      BY DEF SafetyPermits
    <3> QED
      BY <1>1, <1>3, <3>1, <3>2, WriteDecisionStep
  <2> QED
    BY <2>1, <2>2
<1> QED
  BY <1>2, <1>3

LEMMA TickStep ==
    ASSUME IInv, NEW sent \in BOOLEAN, Tick(sent)
    PROVE  IInv'
<1>1. /\ status = "operational" /\ ticked' = TRUE
      /\ UNCHANGED <<evidence, environment>>
  BY DEF Tick
<1>2. TypeOK /\ AuthorityShape
  BY DEF IInv
<1>3. OutsideType' /\ frame' # None
  BY <1>1 DEF IInv, TypeOK, StartShape, OutsideType, evidence, environment
<1>4. CASE TickExpireLease(sent) \/ TickWatchdog(sent)
  BY <1>1, <1>3, <1>4, StopPreserves DEF TickExpireLease, TickWatchdog
<1>5. CASE TickKeepalive(sent)
  <2>1. /\ active # None /\ Write(ModeOf[active], "zero", sent)
        /\ status' = StatusAfter(sent)
        /\ measure' = (IF sent THEN measure ELSE None)
        /\ UNCHANGED <<authority, pendingAck, firstAck, lease, unsafeLatched>>
    BY <1>5 DEF TickKeepalive
  <2>2. ModeOf[active] \in Mode
    BY <1>2, <2>1, ConstantsAssumption DEF TypeOK
  <2>3. /\ OutputType'
        /\ sent => last' = [seq |-> nextSeq, mode |-> ModeOf[active], act |-> "zero"]
    BY <1>2, <2>1, <2>2, WriteType DEF OutputType, Action
  <2>4. status' \in {"operational", "faulted"} /\ (status' = "operational" => sent)
    BY <1>1, <2>1 DEF StatusAfter
  <2> USE DEF authority
  <2>5. TypeOK'
    <3>1. SinkType'
      BY <1>2, <2>1, <2>4 DEF TypeOK, SinkType
    <3> QED
      BY <1>3, <2>3, <3>1 DEF TypeOK, SinkType, OutputType, OutsideType
  <2>6. firstAck = None
    BY <1>5 DEF TickKeepalive, KeepaliveDue
  <2>7. /\ AuthorityShape' /\ StartShape' /\ MeasureShape' /\ PendingAckAgrees'
        /\ HandoffEvidenceComplete' /\ DisarmedMeansZero'
    BY <1>1, <1>3, <2>1, <2>4, <2>6
       DEF IInv, AuthorityShape, StartShape, MeasureShape, PendingAckAgrees, ZeroMode,
           HandoffEvidenceComplete, DisarmedMeansZero
  <2>8. ~Moving'
    BY <2>3, <2>4 DEF Moving
  <2>9. MotionIsLeased' /\ MotionHasSafeEvidence' /\ MotionStopsInTime'
    BY <2>8 DEF MotionIsLeased, MotionHasSafeEvidence, MotionStopsInTime
  <2> QED
    BY <2>5, <2>7, <2>9 DEF IInv
<1>6. CASE TickQuiet
  <2>1. /\ lease' = (IF LeaseCurrent THEN lease ELSE None)
        /\ UNCHANGED <<authority, handoff, unsafeLatched, output, status>>
    BY <1>6 DEF TickQuiet
  <2> USE DEF authority, handoff, output, evidence, environment
  <2>2. TypeOK'
    BY <1>1, <2>1 DEF IInv, TypeOK
  <2>3. AuthorityShape' /\ StartShape' /\ MeasureShape'
    BY <1>1, <2>1 DEF IInv, AuthorityShape, StartShape, MeasureShape
  <2>4. PendingAckAgrees' /\ HandoffEvidenceComplete' /\ DisarmedMeansZero'
    BY <2>1 DEF IInv, PendingAckAgrees, HandoffEvidenceComplete, DisarmedMeansZero, ZeroMode
  <2>5. Moving' = Moving
    BY <2>1 DEF Moving
  <2>6. CASE ~Moving
    <3>1. MotionIsLeased' /\ MotionHasSafeEvidence' /\ MotionStopsInTime'
      BY <2>5, <2>6 DEF MotionIsLeased, MotionHasSafeEvidence, MotionStopsInTime
    <3> QED
      BY <2>2, <2>3, <2>4, <3>1 DEF IInv
  <2>7. CASE Moving
    <3>1. LeaseCurrent /\ lease' = lease
      BY <2>1, <2>7 DEF IInv, MotionIsLeased
    <3>2. MotionIsLeased' /\ MotionHasSafeEvidence'
      BY <1>1, <2>1, <2>5, <2>7, <3>1
         DEF IInv, MotionIsLeased, MotionHasSafeEvidence, LeaseCurrent
    <3>3. active # None /\ pendingAck = None /\ ~unsafeLatched
      BY <2>7, MovingIsActive, ConstantsAssumption
    <3>4. SafetyPermits /\ ~LeaseExpired
      BY <1>6, <3>3 DEF TickQuiet
    <3>5. lease \in Lease
      BY <2>7, MovingIsActive
    <3>6. lease.left >= 0 /\ age <= MaxAge
      BY <3>1, <3>4, <3>5 DEF LeaseExpired, SafetyPermits, Safe, Lease
    <3>7. MotionStopsInTime'
      BY <1>1, <3>1, <3>6 DEF MotionStopsInTime
    <3> QED
      BY <2>2, <2>3, <2>4, <3>2, <3>7 DEF IInv
  <2> QED
    BY <2>6, <2>7
<1> QED
  BY <1>4, <1>5, <1>6 DEF Tick

LEMMA TerminalDisarmStep ==
    ASSUME IInv, NEW sent \in BOOLEAN, TerminalDisarm(sent)
    PROVE  IInv'
<1> DEFINE mode == IF active # None THEN ModeOf[active]
                   ELSE IF pendingAck # None THEN pendingAck.mode ELSE None
<1>1. /\ status = "operational" /\ StopAuthority
      /\ lease' = None /\ pendingAck' = None /\ measure' = None /\ firstAck' = None
      /\ unsafeLatched' = TRUE
      /\ UNCHANGED <<evidence, ticked, environment>>
  BY DEF TerminalDisarm
<1>2. TypeOK /\ AuthorityShape
  BY DEF IInv
<1>3. OutsideType' /\ frame' # None
  BY <1>1, OutsideUnchanged
<1>4. /\ gen' \in Nat /\ phase' \in Phase
      /\ active' \in Source \cup {None} /\ target' \in Source \cup {None}
      /\ AuthorityShape'
  BY <1>1, <1>2 DEF StopAuthority, TypeOK, Phase, AuthorityShape
<1>5. /\ OutputType' /\ status' \in {"disarmed", "faulted"}
      /\ DisarmedMeansZero'
  <2>1. CASE mode = None
    <3>1. status' = "disarmed" /\ UNCHANGED output
      BY <2>1 DEF TerminalDisarm
    <3>2. active = None
      BY <2>1, <1>2, ConstantsAssumption DEF TypeOK
    <3>3. ~Moving
      BY <3>2, MovingIsActive, ConstantsAssumption
    <3>4. last = None \/ last.act = "zero"
      BY <1>1, <1>2, <3>3 DEF Moving, TypeOK, Command, Action
    <3> QED
      BY <1>2, <3>1, <3>4 DEF OutputType, TypeOK, DisarmedMeansZero, output
  <2>2. CASE mode # None
    <3>1. mode \in Mode
      BY <2>2, <1>2, ConstantsAssumption DEF TypeOK, PendingAck
    <3>2. Write(mode, "zero", sent) /\ status' = (IF sent THEN "disarmed" ELSE "faulted")
      BY <2>2 DEF TerminalDisarm
    <3>3. /\ OutputType'
          /\ sent => last' = [seq |-> nextSeq, mode |-> mode, act |-> "zero"]
      BY <1>2, <3>1, <3>2, WriteType DEF OutputType, Action
    <3> QED
      BY <3>2, <3>3 DEF DisarmedMeansZero
  <2> QED
    BY <2>1, <2>2
<1>6. TypeOK'
  <2>1. SinkType'
    BY <1>1, <1>4, <1>5 DEF SinkType
  <2> QED
    BY <1>3, <1>5, <2>1 DEF TypeOK, SinkType, OutputType, OutsideType
<1>7. /\ StartShape' /\ MeasureShape' /\ PendingAckAgrees' /\ HandoffEvidenceComplete'
      /\ MotionIsLeased' /\ MotionHasSafeEvidence' /\ MotionStopsInTime'
  BY <1>3, <1>5 DEF StartShape, MeasureShape, PendingAckAgrees, HandoffEvidenceComplete,
     Moving, MotionIsLeased, MotionHasSafeEvidence, MotionStopsInTime
<1> QED
  BY <1>4, <1>5, <1>6, <1>7 DEF IInv

-----------------------------------------------------------------------------
(* IInv is inductive, and implies each safety property.                    *)

LEMMA NextPreservesIInv == IInv /\ [Next]_vars => IInv'
<1> SUFFICES ASSUME IInv, [Next]_vars PROVE IInv'
  OBVIOUS
<1>1. \A sent \in Sent : sent \in BOOLEAN
  BY SentType
<1>2. CASE Request
  BY <1>1, <1>2, RequestHandoffStep, RequestStopStep, RequestSourceStopStep DEF Request
<1>3. CASE Initialize
  BY <1>3, InitializeStep
<1>4. CASE Observe \/ Invalidate
  BY <1>1, <1>4, ObserveSteps DEF Observe, Invalidate
<1>5. CASE OwnerTick
  BY <1>1, <1>5, TickStep DEF OwnerTick
<1>6. CASE Submit
  <2>1. PICK c \in CandidateOf(Generations), late \in BOOLEAN, sent \in Sent :
          SubmitCandidate(c, late, sent)
    BY <1>6 DEF Submit
  <2>2. Generations \subseteq Nat
    BY DEF Generations, IInv, TypeOK
  <2>3. c \in CandidateOf(Nat)
    BY <2>2 DEF CandidateOf
  <2> QED
    BY <1>1, <2>1, <2>3, SubmitStep
<1>7. CASE Disarm
  BY <1>1, <1>7, TerminalDisarmStep DEF Disarm
<1>8. CASE Clock
  BY <1>8, ClockStep
<1>9. CASE DeliverCommand \/ LoseCommand \/ DeviceTimeout \/ HealthChange
  BY <1>9, LineSteps
<1>10. CASE UNCHANGED vars
  BY <1>10, NoEffect DEF vars
<1> QED
  BY <1>2, <1>3, <1>4, <1>5, <1>6, <1>7, <1>8, <1>9, <1>10 DEF Next, Internal

LEMMA Inductive == Spec => []IInv
BY InitEstablishesIInv, NextPreservesIInv, PTL DEF Spec

\* Every variable keeps its type: the sequence stays in its space, the ages
\* within their bounds.
THEOREM TypeCorrectness == Spec => []TypeOK
<1>1. IInv => TypeOK
  BY DEF IInv
<1> QED
  BY <1>1, Inductive, PTL

\* For every number of sources, lease length, age limit and loss: motion on the
\* line is covered by the current owner's lease (resident_sink.py:471-548).
THEOREM MotionAlwaysLeased == Spec => []MotionIsLeased
<1>1. IInv => MotionIsLeased
  BY DEF IInv
<1> QED
  BY <1>1, Inductive, PTL

\* Motion never outlives safe telemetry (resident_sink.py:348-377, 832-854).
THEOREM MotionAlwaysEvidenced == Spec => []MotionHasSafeEvidence
<1>1. IInv => MotionHasSafeEvidence
  BY DEF IInv
<1> QED
  BY <1>1, Inductive, PTL

\* One tick stops a motion whose lease or telemetry is over its limit
\* (resident_sink.py:587-641).
THEOREM MotionStopsByTick == Spec => []MotionStopsInTime
<1>1. IInv => MotionStopsInTime
  BY DEF IInv
<1> QED
  BY <1>1, Inductive, PTL

\* The sink and its authority always wait for the same zero
\* (resident_sink.py:710-776).
THEOREM PendingAckAlwaysAgrees == Spec => []PendingAckAgrees
<1>1. IInv => PendingAckAgrees
  BY DEF IInv
<1> QED
  BY <1>1, Inductive, PTL

\* The handoff measurement never raises into the owner loop
\* (resident_sink.py:426-447, 792-830).
THEOREM HandoffEvidenceAlwaysComplete == Spec => []HandoffEvidenceComplete
<1>1. IInv => HandoffEvidenceComplete
  BY DEF IInv
<1> QED
  BY <1>1, Inductive, PTL

\* terminal_disarm leaves a zero (resident_sink.py:643-697).
THEOREM DisarmLeavesZero == Spec => []DisarmedMeansZero
<1>1. IInv => DisarmedMeansZero
  BY DEF IInv
<1> QED
  BY <1>1, Inductive, PTL

\* After terminal_disarm or a serial fault the sink writes nothing, whoever
\* still calls it (resident_sink.py:_require_operational_locked).
THEOREM SilentAfterTheEnd == Spec => NoWriteAfterTheEnd
<1> DEFINE Ended == status \in {"disarmed", "faulted"}
<1>1. ASSUME [Next]_vars, Ended PROVE UNCHANGED <<nextSeq, last>>
  <2>1. status \notin {"new", "operational"}
    BY <1>1
  <2>2. CASE Request
    BY <2>1, <2>2 DEF Request, RequestHandoff, RequestStop, RequestSourceStop
  <2>3. CASE Observe \/ Invalidate
    BY <2>1, <2>3 DEF Observe, Invalidate, ObserveTelemetry, InvalidateTelemetry,
       ObserveFrame, output
  <2>4. CASE OwnerTick \/ Submit \/ Disarm \/ Initialize
    BY <2>1, <2>4 DEF OwnerTick, Submit, Disarm, Tick, SubmitCandidate,
       TerminalDisarm, Initialize
  <2>5. CASE Clock \/ DeliverCommand \/ LoseCommand \/ DeviceTimeout \/ HealthChange
    BY <2>5 DEF Clock, DeliverCommand, LoseCommand, DeviceTimeout, HealthChange, output
  <2>6. CASE UNCHANGED vars
    BY <2>6 DEF vars, output
  <2> QED
    BY <1>1, <2>2, <2>3, <2>4, <2>5, <2>6 DEF Next, Internal
<1> QED
  BY <1>1, PTL DEF Spec, NoWriteAfterTheEnd

=============================================================================
