------------------------- MODULE ResidentCoreProofs -------------------------
(***************************************************************************)
(* Proofs of the safety properties of ResidentCore that do not depend on a *)
(* bound on how far the STM32 lags behind the encoder, from one inductive  *)
(* invariant, CoreInv, on top of that of the sink.                         *)
(***************************************************************************)
EXTENDS ResidentCore, ResidentSinkProofs

\* Generations grow, and each was given to one source: an adapter of ACT holds the one
\* of the segment, an adapter of RL another.
GenerationShape ==
    /\ \A s \in Source : held[s] # None => held[s] <= gen
    /\ seg.gen # None => seg.gen <= gen /\ seg.max # None
    /\ held[ACT] # None => seg.gen = held[ACT]
    /\ held[RL] # None => held[RL] # seg.gen
    /\ status = "new" => seg.gen = None

\* A segment that is not due and whose generation is current has steps left; ACT
\* motion is of the current generation, and the last of it if the segment is due.
BudgetShape ==
    /\ Operational /\ seg.gen = gen /\ ~seg.due => seg.steps < seg.max
    /\ seg.complete => seg.gen # gen
    /\ Moving /\ active = ACT =>
         /\ seg.gen = gen
         /\ seg.due => last.seq = seg.final

CoreInv ==
    /\ IInv /\ CoreTypeOK
    /\ GenerationShape /\ BudgetShape
    /\ LostWorkerStops

-----------------------------------------------------------------------------
(* What a call of the sink may do to the core.                             *)

\* Every call but an accepted submission: a motion that is there after it was there
\* before, in the same generation, and a sink that has ended does not come back.
Settled ==
    /\ IInv'
    /\ gen' \in {gen, gen + 1}
    /\ status' = "new" => status = "new"
    /\ status' = "operational" => status \in {"new", "operational"}
    /\ Moving' => Moving /\ gen' = gen /\ active' = active /\ last' = last

LEMMA QuietSettles ==
    ASSUME IInv', UNCHANGED <<gen, active, status, last>>
    PROVE  Settled
BY DEF Settled, Moving

\* Motion is owned in the generation in which it was written, so that a call that
\* takes another generation has ended it.
LEMMA StopSettles ==
    ASSUME IInv, IInv', status = "operational", NEW sent \in BOOLEAN, Stop(sent)
    PROVE  Settled /\ gen' = gen + 1 /\ ~Moving'
<1>1. gen' = gen + 1 /\ phase' \in {"idle", "terminal_zero_pending"}
  BY DEF Stop, StopAuthority
<1>2. ~Moving'
  BY <1>1 DEF IInv, MotionIsLeased
<1>3. status' # "new"
  BY DEF Stop, IssuePendingZero, StatusAfter
<1> QED
  BY <1>1, <1>2, <1>3 DEF Settled

LEMMA HandoffCallSettles ==
    ASSUME IInv, NEW s \in Source, NEW sent \in BOOLEAN, RequestHandoff(s, sent)
    PROVE  /\ Settled /\ gen' = gen + 1 /\ ~Moving' /\ Operational
           /\ status' = IF sent THEN "operational" ELSE "faulted"
<1>1. IInv'
  BY RequestHandoffStep
<1>2. gen' = gen + 1 /\ phase' \in ZeroPending /\ Operational
  BY DEF RequestHandoff, RequestHandoffOf, ZeroPending, Operational
<1>3. ~Moving'
  BY <1>1, <1>2 DEF IInv, MotionIsLeased, ZeroPending
<1>4. status' = IF sent THEN "operational" ELSE "faulted"
  BY <1>2 DEF RequestHandoff, IssuePendingZero, StatusAfter, Operational
<1> QED
  BY <1>1, <1>2, <1>3, <1>4 DEF Settled, Operational

LEMMA NoCallSettles ==
    ASSUME IInv, NoSinkCall
    PROVE  Settled
<1>1. UNCHANGED <<authority, handoff, lease, unsafeLatched, output, status,
                  evidence, ticked, environment>>
  BY DEF NoSinkCall, vars
<1>2. IInv'
  BY <1>1, NoEffect
<1> QED
  BY <1>1, <1>2, QuietSettles DEF authority, output

LEMMA InitializeSettles ==
    ASSUME IInv, Initialize
    PROVE  Settled
<1>1. IInv'
  BY InitializeStep
<1>2. last' = last /\ last = None /\ gen' = gen /\ status = "new" /\ status' = "operational"
  BY DEF Initialize, IInv, StartShape, authority
<1> QED
  BY <1>1, <1>2 DEF Settled, Moving

LEMMA ObserveSettles ==
    ASSUME IInv, NEW sent \in BOOLEAN,
           ObserveTelemetry(sent) \/ InvalidateTelemetry(sent)
    PROVE  Settled
<1>1. IInv'
  BY ObserveSteps
<1>2. PICK f : ObserveFrame(f, sent)
  BY DEF ObserveTelemetry, InvalidateTelemetry
<1>3. CASE status # "operational"
  <2>1. UNCHANGED <<gen, active, status, last>>
    BY <1>2, <1>3 DEF ObserveFrame, authority, output
  <2> QED
    BY <1>1, <2>1, QuietSettles
<1>4. CASE status = "operational" /\ ObserveZeroAck(f, sent)
  <2>1. gen' = gen
    BY <1>4 DEF ObserveZeroAck, AcknowledgeZero
  <2>2. ~Moving
    BY <1>4 DEF ObserveZeroAck, AckMatches, IInv, MotionIsLeased
  <2>3. status' \in {"operational", "faulted"}
    BY <1>4 DEF ObserveZeroAck, IssuePendingZero, StatusAfter
  <2>4. ~Moving'
    <3>1. IssuePendingZero(sent)
      BY <1>4 DEF ObserveZeroAck
    <3>2. CASE phase' \in ZeroPending
      BY <1>1, <3>2 DEF IInv, MotionIsLeased, ZeroPending
    <3>3. CASE phase' \notin ZeroPending
      BY <2>2, <3>1, <3>3 DEF IssuePendingZero, Moving, output
    <3> QED
      BY <3>2, <3>3
  <2> QED
    BY <1>1, <1>4, <2>1, <2>3, <2>4 DEF Settled
<1>5. CASE status = "operational" /\ ObserveOther(f, sent)
  <2>1. CASE Stop(sent)
    BY <1>1, <1>5, <2>1, StopSettles
  <2>2. CASE UNCHANGED <<authority, pendingAck, lease, output, status>>
    BY <1>1, <2>2, QuietSettles DEF authority, output
  <2> QED
    BY <1>5, <2>1, <2>2 DEF ObserveOther
<1> QED
  BY <1>2, <1>3, <1>4, <1>5 DEF ObserveFrame

LEMMA SourceStopSettles ==
    ASSUME IInv, NEW s, NEW g, NEW sent \in BOOLEAN, SourceStop(s, g, sent)
    PROVE  /\ Settled
           /\ Revocable(s, g) => gen' = gen + 1 /\ ~Moving'
           /\ ~Revocable(s, g) => NoSinkCall
<1>1. CASE Revocable(s, g)
  <2>1. RequestSourceStop(s, g, sent)
    BY <1>1 DEF SourceStop
  <2>2. IInv'
    BY <2>1, RequestSourceStopStep
  <2> QED
    BY <1>1, <2>1, <2>2, StopSettles DEF RequestSourceStop
<1>2. CASE ~Revocable(s, g)
  BY <1>2, NoCallSettles DEF SourceStop
<1> QED
  BY <1>1, <1>2

LEMMA TickSettles ==
    ASSUME IInv, NEW sent \in BOOLEAN, Tick(sent)
    PROVE  Settled
<1>1. IInv' /\ status = "operational"
  BY TickStep DEF Tick
<1>2. CASE TickExpireLease(sent) \/ TickWatchdog(sent)
  BY <1>1, <1>2, StopSettles DEF TickExpireLease, TickWatchdog
<1>3. CASE TickKeepalive(sent)
  <2>1. /\ active # None /\ Write(ModeOf[active], "zero", sent)
        /\ status' = StatusAfter(sent)
        /\ gen' = gen
    BY <1>3 DEF TickKeepalive, authority
  <2>2. sent => last' = [seq |-> nextSeq, mode |-> ModeOf[active], act |-> "zero"]
    BY <2>1 DEF Write
  <2>3. ~Moving' /\ status' \in {"operational", "faulted"}
    BY <1>1, <2>1, <2>2 DEF Moving, StatusAfter
  <2> QED
    BY <1>1, <2>1, <2>3 DEF Settled
<1>4. CASE TickQuiet
  BY <1>1, <1>4, QuietSettles DEF TickQuiet, authority, output
<1> QED
  BY <1>2, <1>3, <1>4 DEF Tick

LEMMA DisarmSettles ==
    ASSUME IInv, NEW sent \in BOOLEAN, TerminalDisarm(sent)
    PROVE  Settled /\ gen' = gen + 1 /\ status' \in {"disarmed", "faulted"}
<1>1. IInv' /\ status = "operational"
  BY TerminalDisarmStep DEF TerminalDisarm
<1>2. gen' = gen + 1 /\ status' \in {"disarmed", "faulted"}
  BY DEF TerminalDisarm, StopAuthority
<1> QED
  BY <1>1, <1>2 DEF Settled, Moving

LEMMA WorldSettles ==
    ASSUME IInv, Clock \/ DeliverCommand \/ LoseCommand \/ DeviceTimeout \/ HealthChange
    PROVE  Settled
<1>1. IInv'
  BY ClockStep, LineSteps
<1>2. UNCHANGED <<gen, active, status, last>>
  BY DEF Clock, DeliverCommand, LoseCommand, DeviceTimeout, HealthChange, sinkVars,
         authority, output
<1> QED
  BY <1>1, <1>2, QuietSettles

-----------------------------------------------------------------------------
(* What a step of the core leaves of the segment and of its adapters.      *)

Segment == [gen : Nat \cup {None}, max : Budget \cup {None}, steps : Nat,
            due : BOOLEAN, complete : BOOLEAN, final : Seqs \cup {None}]

SegmentType ==
    /\ seg \in Segment
    /\ seg.max # None => seg.steps <= seg.max
    /\ held \in [Source -> Nat \cup {None}]

LifetimeType ==
    /\ mission \in {None, "fresh", "expired"}
    /\ result \in Result \cup {None} /\ acked \in BOOLEAN

ThreadType ==
    /\ connected \in BOOLEAN /\ lost \in 0 .. MaxLost
    /\ pc \in {"tick", "row", "segment", "exit", "waiting"} \cup Ended
    /\ ctl \in {"idle", "act_ready", "stamped", "renewed"}
    /\ command \in Renewing \cup {None}

LEMMA CoreTypeParts == CoreTypeOK <=> TypeOK /\ SegmentType /\ LifetimeType /\ ThreadType
BY ZenonT(20) DEF CoreTypeOK, SegmentType, LifetimeType, ThreadType, Segment

LEMMA NoneIsNoNumber == None \notin Nat
BY CoreAssumption

LEMMA CoreFacts ==
    ASSUME CoreInv
    PROVE  /\ IInv /\ TypeOK /\ SegmentType /\ LifetimeType /\ ThreadType
           /\ GenerationShape /\ BudgetShape /\ gen \in Nat
           /\ Source = {RL, ACT} /\ RL # ACT /\ RL \in Source /\ ACT \in Source
BY CoreTypeParts, CoreAssumption DEF CoreInv, IInv, TypeOK

\* The segment stays, is no longer due, or has completed in a generation that is over;
\* the adapters keep or lose what they hold, or RL gets the next generation.
LEMMA SegmentEnds ==
    ASSUME CoreInv, Settled, seg' \in Segment,
           seg'.gen = seg.gen, seg'.max = seg.max, seg'.steps = seg.steps, seg'.final = seg.final,
           seg'.due => seg.due,
           seg'.due = seg.due \/ seg.gen # gen' \/ status' # "operational",
           seg'.complete => seg.complete \/ gen' = gen + 1,
           held' \in [Source -> Nat \cup {None}],
           held'[ACT] \in {held[ACT], None},
           held'[RL] \in {held[RL], None} \/ (held'[RL] = gen' /\ gen' = gen + 1)
    PROVE  SegmentType' /\ GenerationShape' /\ BudgetShape'
<1>1. /\ seg \in Segment /\ seg.gen \in Nat \cup {None} /\ gen \in Nat /\ gen' \in {gen, gen + 1}
      /\ held \in [Source -> Nat \cup {None}] /\ None \notin Nat
      /\ Source = {RL, ACT} /\ RL # ACT
  BY CoreFacts, NoneIsNoNumber DEF SegmentType, Segment, Settled
<1>2. SegmentType'
  BY CoreFacts DEF SegmentType
<1>3. /\ held[ACT] # None => held[ACT] <= gen /\ seg.gen = held[ACT]
      /\ held[RL] # None => held[RL] <= gen /\ held[RL] # seg.gen
      /\ seg.gen # None => seg.gen <= gen /\ seg.max # None
      /\ status = "new" => seg.gen = None
  BY <1>1, CoreFacts DEF GenerationShape
<1>4. held[ACT] \in Nat \cup {None} /\ held[RL] \in Nat \cup {None}
  BY <1>1
<1>5. \A s \in Source : held'[s] # None => held'[s] <= gen'
  <2>1. held'[ACT] # None => held'[ACT] <= gen'
    BY <1>1, <1>3, <1>4
  <2>2. held'[RL] # None => held'[RL] <= gen'
    BY <1>1, <1>3, <1>4
  <2> QED
    BY <1>1, <2>1, <2>2
<1>6. seg.gen # None => seg.gen <= gen'
  BY <1>1, <1>3
<1>7. held'[RL] # None => held'[RL] # seg.gen
  BY <1>1, <1>3, <1>4
<1>8. GenerationShape'
  BY <1>3, <1>5, <1>6, <1>7 DEF GenerationShape, Settled
<1>9. seg.gen = gen' => gen' = gen
  BY <1>1, <1>3
<1>10. Operational' /\ seg'.gen = gen' /\ ~seg'.due => seg'.steps < seg'.max
  <2> SUFFICES ASSUME status' = "operational", seg.gen = gen', ~seg'.due
               PROVE  seg.steps < seg.max
    BY DEF Operational
  <2>1. gen' = gen /\ ~seg.due
    BY <1>9
  <2>2. status = "operational"
    BY <1>1, <1>3 DEF Settled
  <2> QED
    BY <2>1, <2>2, CoreFacts DEF BudgetShape, Operational
<1>11. seg'.complete => seg'.gen # gen'
  <2>1. seg.complete => seg.gen # gen
    BY CoreFacts DEF BudgetShape
  <2> QED
    BY <1>1, <1>9, <2>1
<1>12. ASSUME Moving', active' = ACT
       PROVE  seg'.gen = gen' /\ (seg'.due => last'.seq = seg'.final)
  <2>1. Moving /\ gen' = gen /\ active = ACT /\ last' = last
    BY <1>12 DEF Settled
  <2> QED
    BY <2>1, CoreFacts DEF BudgetShape
<1> QED
  BY <1>2, <1>8, <1>10, <1>11, <1>12 DEF BudgetShape

LEMMA NoLongerDueType ==
    ASSUME seg \in Segment
    PROVE  /\ NoLongerDue \in Segment
           /\ NoLongerDue.gen = seg.gen /\ NoLongerDue.max = seg.max
           /\ NoLongerDue.steps = seg.steps /\ NoLongerDue.final = seg.final
           /\ ~NoLongerDue.due /\ NoLongerDue.complete = seg.complete
BY DEF NoLongerDue, Segment

LEMMA SegmentStays ==
    ASSUME CoreInv, Settled,
           \/ seg' = seg
           \/ seg' = NoLongerDue /\ (seg.gen # gen' \/ status' # "operational"),
           held' = held \/ \E s \in Source : held' = [held EXCEPT ![s] = None]
    PROVE  SegmentType' /\ GenerationShape' /\ BudgetShape'
<1>1. seg \in Segment /\ held \in [Source -> Nat \cup {None}] /\ Source = {RL, ACT} /\ RL # ACT
  BY CoreFacts DEF SegmentType
<1>2. /\ held' \in [Source -> Nat \cup {None}]
      /\ held'[ACT] \in {held[ACT], None} /\ held'[RL] \in {held[RL], None}
  BY <1>1
<1>3. /\ seg' \in Segment /\ seg'.gen = seg.gen /\ seg'.max = seg.max /\ seg'.steps = seg.steps
      /\ seg'.final = seg.final
      /\ seg'.due => seg.due
      /\ seg'.due = seg.due \/ seg.gen # gen' \/ status' # "operational"
      /\ seg'.complete => seg.complete \/ gen' = gen + 1
  <2>1. CASE seg' = seg
    BY <1>1, <2>1
  <2>2. CASE seg' = NoLongerDue /\ (seg.gen # gen' \/ status' # "operational")
    BY <1>1, <2>2, NoLongerDueType
  <2> QED
    BY <2>1, <2>2
<1> QED
  BY <1>2, <1>3, SegmentEnds

\* Who is not there does not move: no call but a submission brings ACT motion back.
LEMMA LostWorkerStaysStopped ==
    ASSUME CoreInv, Settled, ~connected' /\ lost' = 0 => ~connected /\ lost = 0
    PROVE  LostWorkerStops'
BY CoreFacts DEF CoreInv, LostWorkerStops, Settled, Manual

LEMMA StaysKeepCoreInv ==
    ASSUME CoreInv, Settled,
           \/ seg' = seg
           \/ seg' = NoLongerDue /\ (seg.gen # gen' \/ status' # "operational"),
           held' = held \/ \E s \in Source : held' = [held EXCEPT ![s] = None],
           LifetimeType', ThreadType',
           ~connected' /\ lost' = 0 => ~connected /\ lost = 0
    PROVE  CoreInv'
<1>1. SegmentType' /\ GenerationShape' /\ BudgetShape'
  BY SegmentStays
<1>2. LostWorkerStops'
  BY LostWorkerStaysStopped
<1>3. IInv' /\ TypeOK'
  BY DEF Settled, IInv
<1>4. (CoreTypeOK <=> TypeOK /\ SegmentType /\ LifetimeType /\ ThreadType)'
  BY CoreTypeParts, PTL
<1> QED
  BY <1>1, <1>2, <1>3, <1>4 DEF CoreInv

LEMMA LifetimeStays ==
    ASSUME CoreInv, UNCHANGED lifetime
    PROVE  LifetimeType'
BY CoreFacts DEF lifetime, LifetimeType

\* A disarm leaves the segment, or a sink that is over.
LEMMA CoreDisarmEffect ==
    ASSUME CoreInv, NEW sent \in BOOLEAN, CoreDisarm(sent)
    PROVE  /\ Settled /\ LifetimeType'
           /\ seg' = seg \/ (seg' = NoLongerDue /\ status' # "operational")
           /\ mission' # mission => status' # "operational"
<1>1. status # "new"
  BY DEF CoreDisarm
<1>2. CASE result # None
  BY <1>2, CoreFacts, NoCallSettles, LifetimeStays DEF CoreDisarm, lifetime
<1>3. CASE result = None /\ ~Operational
  <2>1. /\ NoSinkCall /\ mission' = None /\ seg' = NoLongerDue
        /\ result' = [seq |-> None, mode |-> None] /\ acked' = FALSE
    BY <1>3 DEF CoreDisarm
  <2>2. status' # "operational"
    BY <1>3, <2>1 DEF NoSinkCall, vars, Operational
  <2>3. result' \in Result
    BY <2>1 DEF Result
  <2>4. acked' \in BOOLEAN
    BY <2>1, ZenonT(20)
  <2> QED
    BY <2>1, <2>2, <2>3, <2>4, CoreFacts, NoCallSettles DEF LifetimeType
<1>4. CASE result = None /\ Operational
  <2>1. /\ TerminalDisarm(sent) /\ mission' = None /\ seg' = NoLongerDue
        /\ \/ /\ result' = [seq |-> IF DisarmMode = None THEN None ELSE nextSeq,
                            mode |-> DisarmMode]
              /\ acked' = (DisarmMode = None)
           \/ UNCHANGED <<result, acked>>
    BY <1>4 DEF CoreDisarm
  <2>2. Settled /\ status' # "operational"
    BY <2>1, CoreFacts, DisarmSettles
  <2>3. DisarmMode \in Mode \cup {None} /\ nextSeq \in Seqs
    BY CoreFacts, ConstantsAssumption DEF DisarmMode, TypeOK, PendingAck
  <2>4. result' \in Result \cup {None}
    BY <2>1, <2>3, CoreFacts DEF Result, LifetimeType
  <2>5. acked' \in BOOLEAN
    BY <2>1, CoreFacts, ZenonT(20) DEF LifetimeType
  <2> QED
    BY <2>1, <2>2, <2>4, <2>5 DEF LifetimeType
<1> QED
  BY <1>2, <1>3, <1>4

-----------------------------------------------------------------------------
(* The steps.                                                              *)

LEMMA InitEstablishesCoreInv == CoreInit => CoreInv
<1> SUFFICES ASSUME CoreInit
             PROVE  CoreInv
  OBVIOUS
<1>1. IInv /\ TypeOK
  BY InitEstablishesIInv DEF CoreInit, IInv
<1>2. /\ seg = [gen |-> None, max |-> None, steps |-> 0,
                due |-> FALSE, complete |-> FALSE, final |-> None]
      /\ held = [s \in Source |-> None]
      /\ gen = 0 /\ status = "new"
  BY DEF CoreInit, Init
<1>3. SegmentType
  BY <1>2 DEF SegmentType, Segment
<1>4. LifetimeType /\ ThreadType
  <2>1. acked \in BOOLEAN /\ connected \in BOOLEAN
    BY ZenonT(20) DEF CoreInit
  <2>2. lost \in 0 .. MaxLost
    BY CoreAssumption DEF CoreInit
  <2> QED
    BY <2>1, <2>2 DEF CoreInit, LifetimeType, ThreadType
<1>5. GenerationShape
  BY <1>2, CoreAssumption DEF GenerationShape
<1>6. BudgetShape /\ LostWorkerStops
  BY <1>2, NoneIsNoNumber DEF BudgetShape, LostWorkerStops, Moving, Operational
<1> QED
  BY <1>1, <1>3, <1>4, <1>5, <1>6, CoreTypeParts DEF CoreInv

LEMMA TickCoreKeepsCoreInv ==
    ASSUME CoreInv, NEW sent \in BOOLEAN, TickCore(sent)
    PROVE  CoreInv'
<1>1. UNCHANGED <<held, link, control>> /\ pc' \in {"row", "exit"}
  BY DEF TickCore, OwnerGoes
<1>2. ThreadType'
  BY <1>1, CoreFacts DEF ThreadType, link, control
<1>3. /\ Settled /\ LifetimeType'
      /\ seg' = seg \/ (seg' = NoLongerDue /\ status' # "operational")
  <2>1. CASE NoSinkCall /\ UNCHANGED <<lifetime, seg>>
    BY <2>1, CoreFacts, NoCallSettles, LifetimeStays
  <2>2. CASE CoreDisarm(sent)
    BY <2>2, CoreDisarmEffect
  <2>3. CASE Tick(sent) /\ UNCHANGED <<lifetime, seg>>
    BY <2>3, CoreFacts, TickSettles, LifetimeStays
  <2> QED
    BY <2>1, <2>2, <2>3 DEF TickCore
<1> QED
  BY <1>1, <1>2, <1>3, StaysKeepCoreInv DEF link

LEMMA ReadRowKeepsCoreInv ==
    ASSUME CoreInv, NEW sent \in BOOLEAN, ReadRow(sent)
    PROVE  CoreInv'
<1>1. UNCHANGED <<segment, lifetime, link, control>> /\ pc' \in {"tick", "segment", "exit"}
  BY DEF ReadRow, OwnerGoes
<1>2. ThreadType' /\ LifetimeType'
  BY <1>1, CoreFacts, LifetimeStays DEF ThreadType, link, control
<1>3. Settled
  BY CoreFacts, InitializeSettles, NoCallSettles, ObserveSettles DEF ReadRow
<1> QED
  BY <1>1, <1>2, <1>3, StaysKeepCoreInv DEF link, segment

\* Steps of the owner, of the control server and of the link that only disarm, or do
\* not call the sink at all.
LEMMA DisarmKeepsCoreInv ==
    ASSUME CoreInv, NEW sent \in BOOLEAN, CoreDisarm(sent), UNCHANGED <<held, link>>, ThreadType'
    PROVE  CoreInv'
BY CoreDisarmEffect, StaysKeepCoreInv DEF link

LEMMA IdleKeepsCoreInv ==
    ASSUME CoreInv, NoSinkCall, UNCHANGED segment, LifetimeType', ThreadType',
           ~connected' /\ lost' = 0 => ~connected /\ lost = 0
    PROVE  CoreInv'
BY CoreFacts, NoCallSettles, StaysKeepCoreInv DEF segment

LEMMA OwnerEndsKeepsCoreInv ==
    ASSUME CoreInv, Closing
    PROVE  CoreInv'
<1>1. CASE WaitForAck
  <2>1. /\ NoSinkCall /\ UNCHANGED <<segment, lifetime, link, control>> /\ pc' \in Ended
    BY <1>1 DEF WaitForAck, Ended
  <2>2. ThreadType'
    BY <2>1, CoreFacts DEF ThreadType, link, control
  <2> QED
    BY <2>1, <2>2, LifetimeStays, IdleKeepsCoreInv DEF link
<1>2. CASE \E sent \in Sent : Shutdown(sent)
  <2>1. PICK sent \in Sent : Shutdown(sent)
    BY <1>2
  <2>2. sent \in BOOLEAN
    BY SentType
  <2>3. CoreDisarm(sent) /\ UNCHANGED <<held, link, control>> /\ pc' \in {"failed", "waiting"}
    BY <2>1 DEF Shutdown
  <2>4. ThreadType'
    BY <2>3, CoreFacts DEF ThreadType, link, control, Ended
  <2> QED
    BY <2>2, <2>3, <2>4, DisarmKeepsCoreInv
<1> QED
  BY <1>1, <1>2 DEF Closing

LEMMA CloseConnectionType ==
    ASSUME CoreInv, lost < MaxLost, CloseConnection
    PROVE  connected' \in BOOLEAN /\ lost' \in 0 .. MaxLost /\ lost' # 0
<1>1. connected' \in BOOLEAN
  BY ZenonT(20) DEF CloseConnection
<1>2. lost \in 0 .. MaxLost /\ MaxLost \in Nat
  BY CoreFacts, CoreAssumption DEF ThreadType
<1> QED
  BY <1>1, <1>2 DEF CloseConnection

\* The control thread goes from one acquisition of the lock to the next.
LEMMA ControlGoes ==
    ASSUME CoreInv, UNCHANGED <<link, pc>>,
           \/ Done
           \/ /\ ctl' \in {"act_ready", "stamped", "renewed"}
              /\ command' = command \/ command' \in Renewing
    PROVE  ThreadType'
BY CoreFacts DEF ThreadType, link, Done

LEMMA ControlStepsKeepCoreInv ==
    ASSUME CoreInv,
           \/ CheckWorker \/ ActivateActRefused \/ Renew \/ RenewRefused \/ ActivateRefused
           \/ \E c \in Renewing : Stamp(c)
    PROVE  CoreInv'
<1>1. NoSinkCall /\ UNCHANGED <<segment, link, pc>>
  BY DEF CheckWorker, ActivateActRefused, Renew, RenewRefused, ActivateRefused, Stamp
<1>2. LifetimeType'
  BY CoreFacts DEF CheckWorker, ActivateActRefused, Renew, RenewRefused, ActivateRefused, Stamp,
                   lifetime, LifetimeType
<1>3. \/ Done
      \/ /\ ctl' \in {"act_ready", "stamped", "renewed"}
         /\ command' = command \/ command' \in Renewing
  BY DEF CheckWorker, ActivateActRefused, Renew, RenewRefused, ActivateRefused, Stamp, Renewing
<1>4. ThreadType'
  BY <1>1, <1>3, ControlGoes
<1> QED
  BY <1>1, <1>2, <1>4, IdleKeepsCoreInv DEF link

LEMMA LinkStepsKeepCoreInv ==
    ASSUME CoreInv, Connect \/ Disconnect
    PROVE  CoreInv'
<1>1. NoSinkCall /\ UNCHANGED <<segment, lifetime, threads>>
  BY DEF Connect, Disconnect
<1>2. ~connected' /\ lost' = 0 => ~connected /\ lost = 0
  BY CoreFacts DEF Connect, Disconnect, CloseConnection, ThreadType
<1>3. ThreadType'
  <2>1. CASE Connect
    <3>1. connected' \in BOOLEAN
      BY <2>1, ZenonT(20) DEF Connect
    <3> QED
      BY <2>1, <3>1, CoreFacts DEF Connect, ThreadType, threads, control
  <2>2. CASE Disconnect
    BY <2>2, CoreFacts, CloseConnectionType DEF Disconnect, ThreadType, threads, control
  <2> QED
    BY <2>1, <2>2
<1> QED
  BY <1>1, <1>2, <1>3, LifetimeStays, IdleKeepsCoreInv

LEMMA ThreadsStay ==
    ASSUME CoreInv, UNCHANGED <<link, threads>>
    PROVE  ThreadType'
BY CoreFacts DEF ThreadType, link, threads, control

LEMMA DisarmRequestsKeepCoreInv ==
    ASSUME CoreInv, NEW sent \in BOOLEAN,
           RequestDisarm(sent) \/ \E c \in Renewing : RenewTooLate(c, sent)
    PROVE  CoreInv'
<1>1. CoreDisarm(sent) /\ UNCHANGED <<held, link>>
  BY DEF RenewTooLate, RequestDisarm
<1>2. ThreadType'
  BY ThreadsStay, ControlGoes DEF RenewTooLate, RequestDisarm
<1> QED
  BY <1>1, <1>2, DisarmKeepsCoreInv

LEMMA WorldKeepsCoreInv ==
    ASSUME CoreInv, World
    PROVE  CoreInv'
<1>1. Settled /\ UNCHANGED coreVars
  BY CoreFacts, WorldSettles DEF World
<1>2. LifetimeType' /\ ThreadType'
  BY <1>1, LifetimeStays, ThreadsStay DEF coreVars
<1> QED
  BY <1>1, <1>2, StaysKeepCoreInv DEF coreVars, segment, link

LEMMA MissionPassesKeepsCoreInv ==
    ASSUME CoreInv, MissionPasses
    PROVE  CoreInv'
<1>1. /\ mission' = "expired" /\ ticked' = FALSE
      /\ UNCHANGED <<authority, handoff, lease, unsafeLatched, status, evidence, output,
                     environment, segment, result, acked, link, threads>>
  BY DEF MissionPasses
<1>2. IInv'
  <2> USE DEF authority, handoff, evidence, output, environment
  <2>1. TypeOK'
    <3>1. ticked' \in BOOLEAN
      BY <1>1, ZenonT(20)
    <3> QED
      BY <1>1, <3>1 DEF CoreInv, IInv, TypeOK
  <2>2. AuthorityShape' /\ StartShape' /\ MeasureShape'
    BY <1>1 DEF CoreInv, IInv, AuthorityShape, StartShape, MeasureShape
  <2>3. PendingAckAgrees' /\ HandoffEvidenceComplete' /\ DisarmedMeansZero'
    BY <1>1 DEF CoreInv, IInv, PendingAckAgrees, HandoffEvidenceComplete, DisarmedMeansZero, ZeroMode
  <2>4. MotionIsLeased' /\ MotionHasSafeEvidence' /\ MotionStopsInTime'
    BY <1>1 DEF CoreInv, IInv, Moving, MotionIsLeased, MotionHasSafeEvidence, MotionStopsInTime,
                LeaseCurrent, Safe
  <2> QED
    BY <2>1, <2>2, <2>3, <2>4 DEF IInv
<1>3. Settled
  BY <1>1, <1>2, QuietSettles DEF authority, output
<1>4. LifetimeType' /\ ThreadType'
  BY <1>1, CoreFacts, ThreadsStay DEF LifetimeType
<1> QED
  BY <1>1, <1>3, <1>4, StaysKeepCoreInv DEF segment, link

LEMMA StutterKeepsCoreInv ==
    ASSUME CoreInv, UNCHANGED allVars
    PROVE  CoreInv'
<1>1. NoSinkCall /\ UNCHANGED coreVars
  BY DEF NoSinkCall, allVars
<1>2. LifetimeType' /\ ThreadType'
  BY <1>1, LifetimeStays, ThreadsStay DEF coreVars
<1> QED
  BY <1>1, <1>2, IdleKeepsCoreInv DEF coreVars, link

LEMMA ManualMotionIsAct ==
    ASSUME CoreInv, Moving, last.mode = Manual
    PROVE  active = ACT /\ seg.gen = gen /\ Operational
<1>1. active \in Source /\ last.mode = ModeOf[active]
  BY CoreFacts, MovingIsActive DEF IInv, MotionIsLeased
<1>2. active = ACT
  BY <1>1, CoreAssumption DEF Manual
<1> QED
  BY <1>2, CoreFacts DEF BudgetShape, Moving, Operational

\* A callback that finds ACT motion finds it in the generation of its segment.
LEMMA NotifyKeepsCoreInv ==
    ASSUME CoreInv, NEW sent \in BOOLEAN, Notify(sent)
    PROVE  CoreInv'
<1>1. /\ lost > 0 /\ lost' = lost - 1 /\ SourceStop(ACT, seg.gen, sent)
      /\ seg' = IF Revocable(ACT, seg.gen) /\ ~FaultsNow THEN NoLongerDue ELSE seg
      /\ UNCHANGED <<held, lifetime, connected, threads>>
  BY DEF Notify
<1>2. /\ Settled
      /\ Revocable(ACT, seg.gen) => gen' = gen + 1 /\ ~Moving'
      /\ ~Revocable(ACT, seg.gen) => NoSinkCall
  BY <1>1, CoreFacts, SourceStopSettles
<1>3. seg' = seg \/ (seg' = NoLongerDue /\ seg.gen # gen')
  <2>1. Revocable(ACT, seg.gen) => seg.gen = gen /\ gen' = gen + 1
    BY <1>2 DEF Revocable
  <2> QED
    BY <1>1, <2>1, CoreFacts
<1>4. SegmentType' /\ GenerationShape' /\ BudgetShape'
  BY <1>1, <1>2, <1>3, SegmentStays
<1>5. LifetimeType' /\ ThreadType'
  <2>1. lost' \in 0 .. MaxLost
    BY <1>1, CoreFacts, CoreAssumption DEF ThreadType
  <2> QED
    BY <1>1, <2>1, CoreFacts, LifetimeStays DEF ThreadType, threads, control
<1>6. ~(Moving' /\ last'.mode = Manual)
  <2> SUFFICES ASSUME Moving', last'.mode = Manual
               PROVE  FALSE
    OBVIOUS
  <2>1. Moving /\ last.mode = Manual
    BY <1>2 DEF Settled
  <2>2. Revocable(ACT, seg.gen)
    BY <2>1, ManualMotionIsAct DEF Revocable
  <2> QED
    BY <1>2, <2>2
<1>7. LostWorkerStops'
  BY <1>6 DEF LostWorkerStops, Manual
<1>8. (CoreTypeOK <=> TypeOK /\ SegmentType /\ LifetimeType /\ ThreadType)'
  BY CoreTypeParts, PTL
<1> QED
  BY <1>2, <1>4, <1>5, <1>7, <1>8 DEF CoreInv, Settled, IInv

LEMMA StopRlKeepsCoreInv ==
    ASSUME CoreInv, NEW sent \in BOOLEAN, StopRl(sent)
    PROVE  CoreInv'
<1>1. /\ SourceStop(RL, held[RL], sent) /\ held' = [held EXCEPT ![RL] = None]
      /\ UNCHANGED <<seg, lifetime, link, threads>>
  BY DEF StopRl
<1>2. Settled
  BY <1>1, CoreFacts, SourceStopSettles
<1>3. LifetimeType' /\ ThreadType'
  BY <1>1, LifetimeStays, ThreadsStay
<1> QED
  BY <1>1, <1>2, <1>3, CoreFacts, StaysKeepCoreInv DEF link

LEMMA BadCandidateKeepsCoreInv ==
    ASSUME CoreInv, NEW sent \in BOOLEAN, BadCandidate(sent)
    PROVE  CoreInv'
<1>1. /\ lost < MaxLost /\ CloseConnection /\ UNCHANGED <<seg, lifetime, threads>>
      /\ \/ NoSinkCall /\ held' = held
         \/ SourceStop(ACT, held[ACT], sent) /\ held' = [held EXCEPT ![ACT] = None]
  BY DEF BadCandidate
<1>2. Settled
  BY <1>1, CoreFacts, NoCallSettles, SourceStopSettles
<1>3. connected' \in BOOLEAN /\ lost' \in 0 .. MaxLost /\ lost' # 0
  BY <1>1, CloseConnectionType
<1>4. LifetimeType' /\ ThreadType'
  BY <1>1, <1>3, CoreFacts, LifetimeStays DEF ThreadType, threads, control
<1> QED
  BY <1>1, <1>2, <1>3, <1>4, CoreFacts, StaysKeepCoreInv

-----------------------------------------------------------------------------
(* Activations.                                                            *)

\* A source keeps the current generation, gets the next one, or the sink faults.
LEMMA BeginActivationEffect ==
    ASSUME CoreInv, NEW s \in Source, NEW sent \in BOOLEAN, BeginActivation(s, sent)
    PROVE  /\ Settled
           /\ \/ held[s] = gen /\ gen' = gen /\ held' = held /\ ~FaultsNow
              \/ /\ gen' = gen + 1 /\ ~Moving' /\ status' = "operational"
                 /\ held' = [held EXCEPT ![s] = gen'] /\ ~FaultsNow
              \/ gen' = gen + 1 /\ ~Moving' /\ held' = held /\ FaultsNow
<1>1. CASE Holds(s)
  <2>1. NoSinkCall /\ held' = held /\ held[s] = gen
    BY <1>1 DEF BeginActivation, Holds
  <2>2. gen' = gen /\ ~FaultsNow
    BY <2>1 DEF NoSinkCall, vars, authority, FaultsNow
  <2> QED
    BY <2>1, <2>2, CoreFacts, NoCallSettles
<1>2. CASE ~Holds(s)
  <2>1. RequestHandoff(s, sent) /\ held' = IF sent THEN [held EXCEPT ![s] = gen'] ELSE held
    BY <1>2 DEF BeginActivation
  <2>2. /\ Settled /\ gen' = gen + 1 /\ ~Moving' /\ Operational
        /\ status' = IF sent THEN "operational" ELSE "faulted"
    BY <2>1, CoreFacts, HandoffCallSettles
  <2> QED
    BY <2>1, <2>2 DEF FaultsNow, Operational
<1> QED
  BY <1>1, <1>2

\* RL takes the next generation, and with it the machine from any segment.
LEMMA RlBeginsKeepsCoreInv ==
    ASSUME CoreInv, NEW sent \in BOOLEAN, BeginActivation(RL, sent),
           IF FaultsNow THEN seg' = seg
           ELSE \/ seg' = NoLongerDue
                \/ seg' = [NoLongerDue EXCEPT !.complete = TRUE] /\ seg.gen = gen,
           LifetimeType', ThreadType', UNCHANGED link
    PROVE  CoreInv'
<1>1. /\ Settled
      /\ \/ held[RL] = gen /\ gen' = gen /\ held' = held /\ ~FaultsNow
         \/ gen' = gen + 1 /\ held' = [held EXCEPT ![RL] = gen'] /\ ~FaultsNow
         \/ gen' = gen + 1 /\ held' = held /\ FaultsNow
  BY CoreFacts, BeginActivationEffect
<1>2. /\ seg \in Segment /\ held \in [Source -> Nat \cup {None}] /\ gen \in Nat
      /\ Source = {RL, ACT} /\ RL # ACT /\ None \notin Nat
      /\ seg.gen # None => seg.gen <= gen
      /\ held[RL] # None => held[RL] # seg.gen
  BY CoreFacts, NoneIsNoNumber DEF SegmentType, GenerationShape
<1>3. /\ held' \in [Source -> Nat \cup {None}] /\ held'[ACT] = held[ACT]
      /\ held'[RL] = held[RL] \/ (held'[RL] = gen' /\ gen' = gen + 1)
  BY <1>1, <1>2
<1>4. ~FaultsNow => seg.gen # gen'
  <2>1. seg.gen \in Nat \cup {None}
    BY <1>2 DEF Segment
  <2> QED
    BY <1>1, <1>2, <2>1
<1>5. ~FaultsNow /\ seg' = [NoLongerDue EXCEPT !.complete = TRUE] /\ seg.gen = gen =>
        gen' = gen + 1
  BY <1>1, <1>2
<1>6. /\ seg' \in Segment /\ seg'.gen = seg.gen /\ seg'.max = seg.max /\ seg'.steps = seg.steps
      /\ seg'.final = seg.final
      /\ seg'.due => seg.due
      /\ seg'.due = seg.due \/ seg.gen # gen' \/ status' # "operational"
      /\ seg'.complete => seg.complete \/ gen' = gen + 1
  <2>1. CASE seg' = seg
    BY <1>2, <2>1
  <2>2. CASE ~FaultsNow /\ seg' = NoLongerDue
    BY <1>2, <1>4, <2>2, NoLongerDueType
  <2>3. CASE ~FaultsNow /\ seg' = [NoLongerDue EXCEPT !.complete = TRUE] /\ seg.gen = gen
    <3>1. /\ seg' \in Segment /\ seg'.gen = seg.gen /\ seg'.max = seg.max
          /\ seg'.steps = seg.steps /\ seg'.final = seg.final /\ ~seg'.due
      BY <1>2, <2>3, NoLongerDueType DEF Segment
    <3> QED
      BY <1>4, <1>5, <2>3, <3>1
  <2> QED
    BY <2>1, <2>2, <2>3
<1>7. SegmentType' /\ GenerationShape' /\ BudgetShape'
  BY <1>1, <1>3, <1>6, SegmentEnds
<1>8. LostWorkerStops'
  BY <1>1, LostWorkerStaysStopped DEF link
<1>9. (CoreTypeOK <=> TypeOK /\ SegmentType /\ LifetimeType /\ ThreadType)'
  BY CoreTypeParts, PTL
<1> QED
  BY <1>1, <1>7, <1>8, <1>9 DEF CoreInv, Settled, IInv

LEMMA ActivateRlKeepsCoreInv ==
    ASSUME CoreInv, NEW sent \in BOOLEAN, ActivateRl(sent)
    PROVE  CoreInv'
<1>1. LifetimeType' /\ ThreadType' /\ UNCHANGED link
  BY ControlGoes, LifetimeStays DEF ActivateRl
<1> QED
  BY <1>1, RlBeginsKeepsCoreInv DEF ActivateRl

LEMMA ObserveSegmentKeepsCoreInv ==
    ASSUME CoreInv, NEW sent \in BOOLEAN, ObserveSegment(sent)
    PROVE  CoreInv'
<1>1. /\ acked' = (acked \/ EchoesTerminalZero(frame)) /\ pc' \in {"tick", "exit"}
      /\ UNCHANGED <<mission, result, link, control>>
  BY DEF ObserveSegment, OwnerGoes
<1>2. acked' \in BOOLEAN
  BY <1>1, ZenonT(20)
<1>3. LifetimeType' /\ ThreadType'
  BY <1>1, <1>2, CoreFacts DEF LifetimeType, ThreadType, link, control
<1>4. CASE /\ gen = seg.gen /\ BeginActivation(RL, sent)
           /\ seg' = IF FaultsNow THEN seg ELSE [NoLongerDue EXCEPT !.complete = TRUE]
  BY <1>1, <1>3, <1>4, RlBeginsKeepsCoreInv
<1>5. CASE NoSinkCall /\ UNCHANGED segment
  BY <1>1, <1>3, <1>5, IdleKeepsCoreInv DEF link
<1> QED
  BY <1>4, <1>5 DEF ObserveSegment

\* ACT keeps the segment of the generation it holds, and starts another one with a
\* budget of its own.
LEMMA ActivateActKeepsCoreInv ==
    ASSUME CoreInv, NEW sent \in BOOLEAN, NEW max \in Budget, ActivateAct(max, sent)
    PROVE  CoreInv'
<1> DEFINE fresh == [gen |-> held'[ACT], max |-> max, steps |-> 0,
                     due |-> FALSE, complete |-> FALSE, final |-> None]
<1>1. /\ Done /\ BeginActivation(ACT, sent) /\ UNCHANGED <<lifetime, link, pc>>
      /\ seg' = IF FaultsNow \/ seg.gen = held'[ACT] THEN seg ELSE fresh
  BY DEF ActivateAct
<1>2. LifetimeType' /\ ThreadType'
  BY <1>1, ControlGoes, LifetimeStays
<1>3. /\ Settled
      /\ \/ held[ACT] = gen /\ gen' = gen /\ held' = held /\ ~FaultsNow
         \/ /\ gen' = gen + 1 /\ ~Moving' /\ status' = "operational"
            /\ held' = [held EXCEPT ![ACT] = gen'] /\ ~FaultsNow
         \/ gen' = gen + 1 /\ ~Moving' /\ held' = held /\ FaultsNow
  BY <1>1, CoreFacts, BeginActivationEffect
<1>4. /\ seg \in Segment /\ held \in [Source -> Nat \cup {None}] /\ gen \in Nat
      /\ Source = {RL, ACT} /\ RL # ACT /\ None \notin Nat
      /\ seg.gen # None => seg.gen <= gen
      /\ held[ACT] # None => seg.gen = held[ACT]
      /\ held[RL] # None => held[RL] <= gen
  BY CoreFacts, NoneIsNoNumber DEF SegmentType, GenerationShape
<1>5. CASE held' = held
  <2>1. seg' = seg
    BY <1>1, <1>3, <1>4, <1>5
  <2> QED
    BY <1>1, <1>2, <1>3, <1>5, <2>1, StaysKeepCoreInv DEF link
<1>6. CASE /\ gen' = gen + 1 /\ ~Moving' /\ status' = "operational"
           /\ held' = [held EXCEPT ![ACT] = gen'] /\ ~FaultsNow
  <2>1. held'[ACT] = gen' /\ held'[RL] = held[RL] /\ gen' \in Nat
    BY <1>4, <1>6
  <2>2. seg.gen # gen'
    <3>1. seg.gen \in Nat \cup {None}
      BY <1>4 DEF Segment
    <3> QED
      BY <1>4, <1>6, <3>1
  <2>3. seg' = fresh
    BY <1>1, <1>6, <2>1, <2>2
  <2>4. seg'.gen = gen' /\ seg'.max = max /\ seg'.steps = 0 /\ ~seg'.due /\ ~seg'.complete
    BY <2>1, <2>3
  <2>5. max \in Nat /\ 0 < max /\ max # None
    BY CoreAssumption, <1>4
  <2>6. SegmentType'
    <3>1. seg' \in Segment
      BY <2>1, <2>3 DEF Segment
    <3>2. held' \in [Source -> Nat \cup {None}]
      BY <1>4, <1>6, <2>1
    <3> QED
      BY <2>4, <2>5, <3>1, <3>2 DEF SegmentType
  <2>7. GenerationShape'
    <3>1. held[RL] \in Nat \cup {None}
      BY <1>4
    <3>2. held'[RL] # None => held'[RL] <= gen' /\ held'[RL] # gen'
      BY <1>4, <1>6, <2>1, <3>1
    <3>3. \A s \in Source : held'[s] # None => held'[s] <= gen'
      BY <1>4, <2>1, <3>2
    <3> QED
      BY <1>6, <2>1, <2>4, <2>5, <3>2, <3>3 DEF GenerationShape
  <2>8. BudgetShape'
    BY <1>6, <2>4, <2>5 DEF BudgetShape
  <2>9. LostWorkerStops'
    BY <1>6 DEF LostWorkerStops
  <2>10. (CoreTypeOK <=> TypeOK /\ SegmentType /\ LifetimeType /\ ThreadType)'
    BY CoreTypeParts, PTL
  <2> QED
    BY <1>2, <1>3, <2>6, <2>7, <2>8, <2>9, <2>10 DEF CoreInv, Settled, IInv
<1> QED
  BY <1>3, <1>5, <1>6

-----------------------------------------------------------------------------
(* Submissions.                                                            *)

\* submit_candidate accepts c and writes it, or it can only end motion.
Accepts(c, late) ==
    /\ DecisionMode # None /\ pendingAck = None /\ firstAck = None
    /\ Route(c, ~late /\ SafetyPermits) = "accepted"

LEMMA SubmitEffect ==
    ASSUME IInv, NEW c \in CandidateOf(Nat), NEW late \in BOOLEAN, NEW sent \in BOOLEAN,
           SubmitCandidate(c, late, sent)
    PROVE  \/ ~(Accepts(c, late) /\ ~FaultsNow) /\ Settled
           \/ /\ Accepts(c, late) /\ ~FaultsNow /\ IInv'
              /\ status = "operational" /\ status' = "operational"
              /\ gen' = gen /\ active' = active /\ c.src = active /\ c.gen = gen
              /\ last' # None /\ last'.seq = nextSeq
<1> DEFINE reason == Route(c, ~late /\ SafetyPermits)
<1>1. IInv' /\ status = "operational" /\ TypeOK /\ AuthorityShape
  BY SubmitStep DEF SubmitCandidate, IInv
<1>2. CASE \/ pendingAck # None \/ DecisionMode = None \/ reason \in Passive
           \/ reason = "accepted" /\ firstAck # None
  <2>1. UNCHANGED <<authority, handoff, lease, unsafeLatched, output, status>>
    BY <1>2 DEF SubmitCandidate
  <2>2. ~Accepts(c, late)
    BY <1>2 DEF Accepts, Passive
  <2> QED
    BY <1>1, <2>1, <2>2, QuietSettles DEF authority, output
<1>3. CASE /\ pendingAck = None /\ DecisionMode # None /\ reason \notin Passive
           /\ ~(reason = "accepted" /\ firstAck # None)
  <2>1. CASE reason = "safety_rejected"
    <3>1. Stop(sent)
      BY <1>3, <2>1 DEF SubmitCandidate
    <3> QED
      BY <1>1, <2>1, <3>1, StopSettles DEF Accepts
  <2>2. CASE reason # "safety_rejected"
    <3>1. WriteDecision(c, reason = "accepted", sent)
      BY <1>3, <2>2 DEF SubmitCandidate
    <3>2. /\ gen' = gen /\ active' = active
          /\ status' = IF sent THEN "operational" ELSE "faulted"
          /\ Write(DecisionMode, IF reason = "accepted" THEN c.act ELSE "zero", sent)
      BY <1>1, <3>1 DEF WriteDecision, authority, StatusAfter
    <3>3. FaultsNow <=> ~sent
      BY <1>1, <3>2 DEF FaultsNow
    <3>4. CASE reason = "accepted" /\ sent
      <4>1. c.src = active /\ c.gen = gen /\ c.act \in Action
        BY <1>1, <3>4, AcceptedMeans DEF SafetyPermits
      <4>2. last' = [seq |-> nextSeq, mode |-> DecisionMode, act |-> c.act]
        BY <3>2, <3>4 DEF Write
      <4>3. last' # None
        <5>1. last' \in Command
          BY <1>1, <1>3, <4>1, <4>2, DecisionModeType DEF Command, TypeOK
        <5> QED
          BY <5>1, ConstantsAssumption
      <4> QED
        BY <1>1, <1>3, <3>2, <3>3, <3>4, <4>1, <4>2, <4>3 DEF Accepts
    <3>5. CASE ~sent
      <4>1. status' = "faulted"
        BY <3>2, <3>5
      <4> QED
        BY <1>1, <3>2, <3>3, <3>5, <4>1 DEF Settled, Moving
    <3>6. CASE sent /\ reason # "accepted"
      <4>1. last' = [seq |-> nextSeq, mode |-> DecisionMode, act |-> "zero"]
        BY <3>2, <3>6 DEF Write
      <4>2. ~Moving'
        BY <4>1 DEF Moving
      <4> QED
        BY <1>1, <3>2, <3>6, <4>2 DEF Settled, Accepts
    <3> QED
      BY <3>4, <3>5, <3>6
  <2> QED
    BY <2>1, <2>2
<1> QED
  BY <1>2, <1>3

LEMMA CandidatesType ==
    ASSUME CoreInv, NEW s \in Source
    PROVE  Candidates(s) \subseteq CandidateOf(Nat)
BY CoreFacts DEF Candidates, CandidateOf, SegmentType

\* A candidate of RL moves the machine in the generation of RL, whatever the segment.
LEMMA SubmitRlKeepsCoreInv ==
    ASSUME CoreInv, NEW c \in CandidateOf(Nat), NEW late \in BOOLEAN, NEW sent \in BOOLEAN,
           SubmitRl(c, late, sent)
    PROVE  CoreInv'
<1>1. c.src = RL /\ SubmitCandidate(c, late, sent) /\ UNCHANGED coreVars
  BY DEF SubmitRl
<1>2. UNCHANGED <<seg, held, connected, lost>> /\ LifetimeType' /\ ThreadType'
  BY <1>1, LifetimeStays, ThreadsStay DEF coreVars, segment, link
<1>3. CASE Settled
  BY <1>2, <1>3, StaysKeepCoreInv
<1>4. CASE /\ IInv' /\ status = "operational" /\ status' = "operational"
           /\ gen' = gen /\ active' = active /\ c.src = active /\ c.gen = gen
  <2>1. active' = RL /\ RL # ACT
    BY <1>1, <1>4, CoreAssumption
  <2>2. SegmentType'
    BY <1>2, CoreFacts DEF SegmentType
  <2>3. GenerationShape'
    BY <1>2, <1>4, CoreFacts DEF GenerationShape
  <2>4. BudgetShape'
    BY <1>2, <1>4, <2>1, CoreFacts DEF BudgetShape, Operational
  <2>5. LostWorkerStops'
    BY <1>4, <2>1, CoreAssumption DEF LostWorkerStops, Manual, IInv, MotionIsLeased
  <2>6. (CoreTypeOK <=> TypeOK /\ SegmentType /\ LifetimeType /\ ThreadType)'
    BY CoreTypeParts, PTL
  <2> QED
    BY <1>2, <1>4, <2>2, <2>3, <2>4, <2>5, <2>6 DEF CoreInv, IInv
<1> QED
  BY <1>1, <1>3, <1>4, CoreFacts, SubmitEffect

\* The accepted candidate is counted: the budget is not exceeded, and the candidate
\* that exhausts it is the segment's final one.
LEMMA AdvanceCounts ==
    ASSUME seg \in Segment, seg.max # None, seg.steps < seg.max, NEW n \in Seqs, NEW quiet \in BOOLEAN,
           seg' = Advance(n, quiet)
    PROVE  /\ seg' \in Segment /\ seg'.gen = seg.gen /\ seg'.max = seg.max
           /\ seg'.complete = seg.complete
           /\ seg'.steps <= seg'.max
           /\ ~seg'.due => seg'.steps < seg'.max
           /\ seg'.due => seg'.final = n
<1> DEFINE due == seg.max # None
                    /\ (seg.steps + 1 >= seg.max \/ (quiet /\ seg.steps >= EarlyMin))
<1>1. seg.max \in Nat /\ seg.steps \in Nat
  BY CoreAssumption DEF Segment
<1>2. seg' = [seg EXCEPT !.steps = seg.steps + 1, !.due = due, !.final = IF due THEN n ELSE None]
  BY DEF Advance
<1>3. due \in BOOLEAN /\ seg.steps + 1 \in Nat
  BY <1>1
<1> HIDE DEF due
<1>4. seg' \in Segment
  BY <1>2, <1>3 DEF Segment
<1>5. /\ seg'.gen = seg.gen /\ seg'.max = seg.max /\ seg'.complete = seg.complete
      /\ seg'.steps = seg.steps + 1 /\ seg'.due = due
      /\ seg'.final = IF due THEN n ELSE None
  BY <1>2 DEF Segment
<1>6. ~due => seg.steps + 1 < seg.max
  BY <1>1 DEF due
<1> QED
  BY <1>1, <1>4, <1>5, <1>6

LEMMA SubmitActKeepsCoreInv ==
    ASSUME CoreInv, NEW c \in CandidateOf(Nat), NEW quiet \in BOOLEAN, NEW late \in BOOLEAN,
           NEW sent \in BOOLEAN, SubmitAct(c, quiet, late, sent)
    PROVE  CoreInv'
<1>1. /\ connected /\ lost < MaxLost /\ ~seg.due
      /\ c.src = ACT /\ c.gen = held[ACT]
      /\ SubmitCandidate(c, late, sent)
      /\ seg' = IF Accepts(c, late) /\ ~FaultsNow THEN Advance(nextSeq, quiet) ELSE seg
      /\ IF FaultsNow THEN CloseConnection ELSE UNCHANGED link
      /\ UNCHANGED <<held, lifetime, threads>>
  BY DEF SubmitAct, Accepts
<1>2. /\ connected' \in BOOLEAN /\ lost' \in 0 .. MaxLost
      /\ ~connected' => lost' # 0
  <2>1. CASE FaultsNow
    BY <1>1, <2>1, CloseConnectionType
  <2>2. CASE ~FaultsNow
    BY <1>1, <2>2, CoreFacts DEF link, ThreadType
  <2> QED
    BY <2>1, <2>2
<1>3. LifetimeType' /\ ThreadType'
  BY <1>1, <1>2, CoreFacts, LifetimeStays DEF ThreadType, threads, control
<1>4. CASE ~(Accepts(c, late) /\ ~FaultsNow) /\ Settled
  BY <1>1, <1>2, <1>3, <1>4, StaysKeepCoreInv
<1>5. CASE /\ Accepts(c, late) /\ ~FaultsNow /\ IInv'
           /\ status = "operational" /\ status' = "operational"
           /\ gen' = gen /\ active' = active /\ c.src = active /\ c.gen = gen
           /\ last' # None /\ last'.seq = nextSeq
  <2>1. /\ seg \in Segment /\ held \in [Source -> Nat \cup {None}] /\ gen \in Nat
        /\ Source = {RL, ACT} /\ RL # ACT /\ None \notin Nat
    BY CoreFacts, NoneIsNoNumber DEF SegmentType
  <2>2. seg.gen = gen /\ seg.max # None
    BY <1>1, <1>5, <2>1, CoreFacts DEF GenerationShape
  <2>3. seg.steps < seg.max /\ ~seg.complete
    BY <1>1, <1>5, <2>2, CoreFacts DEF BudgetShape, Operational
  <2>4. nextSeq \in Seqs
    BY CoreFacts DEF TypeOK
  <2>5. seg' = Advance(nextSeq, quiet)
    BY <1>1, <1>5
  <2>6. /\ seg' \in Segment /\ seg'.gen = seg.gen /\ seg'.max = seg.max
        /\ seg'.complete = seg.complete
        /\ seg'.steps <= seg'.max
        /\ ~seg'.due => seg'.steps < seg'.max
        /\ seg'.due => seg'.final = nextSeq
    BY <2>1, <2>2, <2>3, <2>4, <2>5, AdvanceCounts
  <2>7. SegmentType'
    BY <1>1, <2>1, <2>6 DEF SegmentType
  <2>8. GenerationShape'
    BY <1>1, <1>5, <2>6, CoreFacts DEF GenerationShape
  <2>9. BudgetShape'
    BY <1>5, <2>2, <2>3, <2>6 DEF BudgetShape
  <2>10. LostWorkerStops'
    BY <1>2 DEF LostWorkerStops
  <2>11. (CoreTypeOK <=> TypeOK /\ SegmentType /\ LifetimeType /\ ThreadType)'
    BY CoreTypeParts, PTL
  <2> QED
    BY <1>3, <1>5, <2>7, <2>8, <2>9, <2>10, <2>11 DEF CoreInv, IInv
<1> QED
  BY <1>1, <1>4, <1>5, CoreFacts, SubmitEffect

-----------------------------------------------------------------------------
(* CoreInv is inductive.                                                   *)

LEMMA CoreNextKeepsCoreInv == CoreInv /\ [CoreNext]_allVars => CoreInv'
<1> SUFFICES ASSUME CoreInv, [CoreNext]_allVars
             PROVE  CoreInv'
  OBVIOUS
<1>1. \A sent \in Sent : sent \in BOOLEAN
  BY SentType
<1>2. CASE OwnerStep
  BY <1>1, <1>2, TickCoreKeepsCoreInv, ReadRowKeepsCoreInv, ObserveSegmentKeepsCoreInv
     DEF OwnerStep
<1>3. CASE Closing
  BY <1>3, OwnerEndsKeepsCoreInv
<1>4. CASE Control
  BY <1>1, <1>4, ControlStepsKeepCoreInv, DisarmRequestsKeepCoreInv, ActivateRlKeepsCoreInv,
     ActivateActKeepsCoreInv DEF Control
<1>5. CASE DataLink
  <2>1. CASE Connect \/ Disconnect
    BY <2>1, LinkStepsKeepCoreInv
  <2>2. CASE \E sent \in Sent : Notify(sent) \/ BadCandidate(sent)
    BY <1>1, <2>2, NotifyKeepsCoreInv, BadCandidateKeepsCoreInv
  <2>3. CASE \E sent \in Sent, c \in Candidates(ACT), quiet \in BOOLEAN, late \in Late :
               SubmitAct(c, quiet, late, sent)
    <3>1. PICK sent \in Sent, c \in Candidates(ACT), quiet \in BOOLEAN, late \in Late :
                 SubmitAct(c, quiet, late, sent)
      BY <2>3
    <3>2. c \in CandidateOf(Nat) /\ late \in BOOLEAN /\ sent \in BOOLEAN
      BY <1>1, CoreFacts, CandidatesType, CoreAssumption
    <3> QED
      BY <3>1, <3>2, SubmitActKeepsCoreInv
  <2> QED
    BY <1>5, <2>1, <2>2, <2>3 DEF DataLink
<1>6. CASE Runner
  <2>1. CASE \E sent \in Sent : StopRl(sent)
    BY <1>1, <2>1, StopRlKeepsCoreInv
  <2>2. CASE \E sent \in Sent, c \in Candidates(RL), late \in Late : SubmitRl(c, late, sent)
    <3>1. PICK sent \in Sent, c \in Candidates(RL), late \in Late : SubmitRl(c, late, sent)
      BY <2>2
    <3>2. c \in CandidateOf(Nat) /\ late \in BOOLEAN /\ sent \in BOOLEAN
      BY <1>1, CoreFacts, CandidatesType, CoreAssumption
    <3> QED
      BY <3>1, <3>2, SubmitRlKeepsCoreInv
  <2> QED
    BY <1>6, <2>1, <2>2 DEF Runner
<1>7. CASE MissionPasses \/ World
  BY <1>7, MissionPassesKeepsCoreInv, WorldKeepsCoreInv
<1>8. CASE UNCHANGED allVars
  BY <1>8, StutterKeepsCoreInv
<1> QED
  BY <1>2, <1>3, <1>4, <1>5, <1>6, <1>7, <1>8 DEF CoreNext

\* The sink's invariant, types, generations and budgets hold of the whole core.
THEOREM AlwaysCoreInv == CoreSpec => []CoreInv
<1>1. CoreInit => CoreInv
  BY InitEstablishesCoreInv
<1>2. CoreInv /\ [CoreNext]_allVars => CoreInv'
  BY CoreNextKeepsCoreInv
<1> QED
  BY <1>1, <1>2, PTL DEF CoreSpec

\* Type correctness of the core, with the segment's step count within its budget
\* (_act_segment, the adapters' generations, the mission lease, the terminal result).
THEOREM CoreTypeCorrectness == CoreSpec => []CoreTypeOK
<1>1. CoreInv => CoreTypeOK
  BY DEF CoreInv
<1> QED
  BY <1>1, AlwaysCoreInv, PTL

\* No ACT motion follows the final action of a segment (_advance_act_segment,
\* submit_act), whatever handoffs, lost workers and late candidates come between.
THEOREM MotionNeverExceedsBudget == CoreSpec => []NoMotionPastBudget
<1>1. CoreInv => NoMotionPastBudget
  BY DEF CoreInv, BudgetShape, NoMotionPastBudget
<1> QED
  BY <1>1, AlwaysCoreInv, PTL

\* The line holds no ACT motion once the callback of a lost worker has run
\* (notify_act_worker_disconnected), whoever was activated in between.
THEOREM LostWorkerAlwaysStops == CoreSpec => []LostWorkerStops
<1>1. CoreInv => LostWorkerStops
  BY DEF CoreInv
<1> QED
  BY <1>1, AlwaysCoreInv, PTL

\* What the sink promises of motion, of the echo it awaits and of its end holds
\* under the core's own callers: the composition never uses the sink outside its
\* contract (resident_core.py, resident_ingress.py).
THEOREM SinkStaysSafeInCore ==
    CoreSpec => [](/\ MotionIsLeased /\ MotionHasSafeEvidence /\ MotionStopsInTime
                   /\ PendingAckAgrees /\ HandoffEvidenceComplete /\ DisarmedMeansZero)
<1>1. CoreInv => /\ MotionIsLeased /\ MotionHasSafeEvidence /\ MotionStopsInTime
                 /\ PendingAckAgrees /\ HandoffEvidenceComplete /\ DisarmedMeansZero
  BY DEF CoreInv, IInv
<1> QED
  BY <1>1, AlwaysCoreInv, PTL

-----------------------------------------------------------------------------
(* The end of the mission lease.                                           *)

\* A terminal result belongs to a core that has ended, a mission lease to one that has
\* begun; and the owner has not ticked since the lease passed.
LifetimeShape ==
    /\ result # None => status \notin {"new", "operational"}
    /\ mission # None => status # "new"
    /\ mission = "expired" => ~ticked

\* What a call other than the sink's tick does to the sink's life.
GoesOn ==
    /\ status' = "new" => status = "new"
    /\ status' = "operational" => status \in {"new", "operational"}
    /\ ticked' => ticked

LEMMA CallsGoOn ==
    ASSUME CoreInv, NEW sent \in BOOLEAN,
           \/ NoSinkCall \/ Initialize \/ ObserveTelemetry(sent) \/ InvalidateTelemetry(sent)
           \/ CoreDisarm(sent)
           \/ \E s \in Source : BeginActivation(s, sent)
           \/ \E s, g : SourceStop(s, g, sent)
    PROVE  GoesOn
<1>1. Settled
  BY CoreFacts, NoCallSettles, InitializeSettles, ObserveSettles, CoreDisarmEffect,
     BeginActivationEffect, SourceStopSettles
<1>2. NoSinkCall => ticked' = ticked
  BY DEF NoSinkCall, vars
<1>3. Initialize \/ ObserveTelemetry(sent) \/ InvalidateTelemetry(sent) => ticked' = ticked
  BY DEF Initialize, ObserveTelemetry, InvalidateTelemetry, ObserveFrame
<1>4. TerminalDisarm(sent) => ticked' = ticked
  BY DEF TerminalDisarm
<1>5. \A s \in Source : RequestHandoff(s, sent) => ticked' = ticked
  BY DEF RequestHandoff
<1>6. \A s, g : RequestSourceStop(s, g, sent) => ticked' = ticked
  BY DEF RequestSourceStop
<1>7. ticked' = ticked
  BY <1>2, <1>3, <1>4, <1>5, <1>6 DEF CoreDisarm, BeginActivation, SourceStop
<1> QED
  BY <1>1, <1>7 DEF Settled, GoesOn

LEMMA SubmitGoesOn ==
    ASSUME CoreInv, NEW s \in Source, NEW c \in Candidates(s), NEW late \in Late,
           NEW sent \in Sent, SubmitCandidate(c, late, sent)
    PROVE  GoesOn
<1>1. c \in CandidateOf(Nat) /\ late \in BOOLEAN /\ sent \in BOOLEAN
  BY SentType, CandidatesType, CoreAssumption
<1>2. Settled \/ status = "operational"
  BY <1>1, CoreFacts, SubmitEffect
<1>3. ticked' = ticked /\ status = "operational"
  BY DEF SubmitCandidate
<1>4. status' # "new"
  BY <1>1, <1>3, CoreFacts, SubmitEffect DEF Settled
<1> QED
  BY <1>3, <1>4 DEF GoesOn

LEMMA WorldGoesOn == ASSUME CoreInv, World PROVE GoesOn
<1>1. Settled
  BY CoreFacts, WorldSettles DEF World
<1>2. ticked' => ticked
  BY DEF World, Clock, DeliverCommand, LoseCommand, DeviceTimeout, HealthChange
<1> QED
  BY <1>1, <1>2 DEF Settled, GoesOn

\* A step that leaves the lease and the terminal result as they are.
LEMMA LifetimeKept ==
    ASSUME LifetimeShape, GoesOn, UNCHANGED <<mission, result>>
    PROVE  LifetimeShape'
BY DEF LifetimeShape, GoesOn

LEMMA DisarmKeepsLifetime ==
    ASSUME CoreInv, LifetimeShape, NEW sent \in BOOLEAN, CoreDisarm(sent)
    PROVE  LifetimeShape'
<1>1. GoesOn
  BY CallsGoOn
<1>2. CASE result # None
  BY <1>1, <1>2, LifetimeKept DEF CoreDisarm, lifetime
<1>3. CASE result = None
  <2>1. /\ mission' = None
        /\ TerminalDisarm(sent) \/ (NoSinkCall /\ status \notin {"new", "operational"})
    BY <1>3 DEF CoreDisarm, Operational
  <2>2. status' \notin {"new", "operational"}
    BY <2>1 DEF NoSinkCall, vars, TerminalDisarm
  <2> QED
    BY <1>1, <2>1, <2>2, CoreAssumption DEF LifetimeShape
<1> QED
  BY <1>2, <1>3

LEMMA NextKeepsLifetime == CoreInv /\ LifetimeShape /\ [CoreNext]_allVars => LifetimeShape'
<1> SUFFICES ASSUME CoreInv, LifetimeShape, [CoreNext]_allVars
             PROVE  LifetimeShape'
  OBVIOUS
<1>1. Sent \subseteq BOOLEAN /\ RL \in Source /\ ACT \in Source
  BY SentType, CoreFacts
<1>2. ASSUME NoSinkCall, UNCHANGED <<mission, result>>
      PROVE  LifetimeShape'
  BY <1>2, CallsGoOn, LifetimeKept
<1>3. CASE \E sent \in Sent : TickCore(sent)
  <2>1. PICK sent \in Sent : TickCore(sent)
    BY <1>3
  <2>2. CASE CoreDisarm(sent)
    BY <1>1, <2>2, DisarmKeepsLifetime
  <2>3. CASE mission # "expired" /\ Tick(sent) /\ UNCHANGED lifetime
    <3>1. Settled
      BY <1>1, <2>3, CoreFacts, TickSettles
    <3> QED
      BY <2>3, <3>1 DEF LifetimeShape, Settled, lifetime
  <2> QED
    BY <1>2, <2>1, <2>2, <2>3 DEF TickCore, lifetime
<1>4. CASE \E sent \in Sent : ReadRow(sent) \/ ObserveSegment(sent)
  <2>1. PICK sent \in Sent : ReadRow(sent) \/ ObserveSegment(sent)
    BY <1>4
  <2>2. UNCHANGED <<mission, result>>
    BY <2>1 DEF ReadRow, ObserveSegment, lifetime
  <2>3. \/ NoSinkCall \/ Initialize \/ ObserveTelemetry(sent) \/ InvalidateTelemetry(sent)
        \/ BeginActivation(RL, sent)
    BY <2>1 DEF ReadRow, ObserveSegment
  <2> QED
    BY <1>1, <2>2, <2>3, CallsGoOn, LifetimeKept
<1>5. CASE Closing
  <2>1. CASE WaitForAck
    BY <1>2, <2>1 DEF WaitForAck, lifetime
  <2>2. CASE \E sent \in Sent : Shutdown(sent)
    BY <1>1, <2>2, DisarmKeepsLifetime DEF Shutdown
  <2> QED
    BY <1>5, <2>1, <2>2 DEF Closing
<1>6. CASE Control
  <2>1. CASE \/ CheckWorker \/ ActivateActRefused \/ RenewRefused \/ ActivateRefused
             \/ \E c \in Renewing : Stamp(c)
    BY <1>2, <2>1 DEF CheckWorker, ActivateActRefused, RenewRefused, ActivateRefused, Stamp, lifetime
  <2>2. CASE Renew
    <3>1. mission' = "fresh" /\ result' = result /\ Operational /\ NoSinkCall
      BY <2>2 DEF Renew
    <3>2. status' = status
      BY <3>1 DEF NoSinkCall, vars
    <3> QED
      BY <3>1, <3>2 DEF LifetimeShape, Operational
  <2>3. CASE \E sent \in Sent : RequestDisarm(sent) \/ \E c \in Renewing : RenewTooLate(c, sent)
    BY <1>1, <2>3, DisarmKeepsLifetime DEF RequestDisarm, RenewTooLate
  <2>4. CASE \E sent \in Sent : ActivateRl(sent) \/ \E max \in Budget : ActivateAct(max, sent)
    <3>1. PICK sent \in Sent : ActivateRl(sent) \/ \E max \in Budget : ActivateAct(max, sent)
      BY <2>4
    <3>2. UNCHANGED lifetime /\ \E s \in Source : BeginActivation(s, sent)
      BY <1>1, <3>1 DEF ActivateRl, ActivateAct
    <3> QED
      BY <1>1, <3>2, CallsGoOn, LifetimeKept DEF lifetime
  <2> QED
    BY <1>6, <2>1, <2>2, <2>3, <2>4 DEF Control
<1>7. CASE Connect \/ Disconnect
  BY <1>2, <1>7 DEF Connect, Disconnect, lifetime
<1>8. CASE \E sent \in Sent : Notify(sent) \/ BadCandidate(sent) \/ StopRl(sent)
  <2>1. PICK sent \in Sent : Notify(sent) \/ BadCandidate(sent) \/ StopRl(sent)
    BY <1>8
  <2>2. UNCHANGED lifetime /\ (NoSinkCall \/ \E s, g : SourceStop(s, g, sent))
    BY <2>1 DEF Notify, BadCandidate, StopRl
  <2> QED
    BY <1>1, <2>2, CallsGoOn, LifetimeKept DEF lifetime
<1>9. CASE \E s \in Source : \E c \in Candidates(s), late \in Late, sent \in Sent :
             SubmitCandidate(c, late, sent) /\ UNCHANGED lifetime
  BY <1>9, SubmitGoesOn, LifetimeKept DEF lifetime
<1>10. CASE DataLink \/ Runner
  <2>1. CASE \E sent \in Sent, c \in Candidates(ACT), quiet \in BOOLEAN, late \in Late :
               SubmitAct(c, quiet, late, sent)
    BY <1>1, <1>9, <2>1 DEF SubmitAct
  <2>2. CASE \E sent \in Sent, c \in Candidates(RL), late \in Late : SubmitRl(c, late, sent)
    BY <1>1, <1>9, <2>2 DEF SubmitRl, coreVars
  <2>3. CASE DataLink
    <3>1. \/ Connect \/ Disconnect
          \/ \E sent \in Sent : Notify(sent) \/ BadCandidate(sent)
          \/ \E sent \in Sent, c \in Candidates(ACT), quiet \in BOOLEAN, late \in Late :
               SubmitAct(c, quiet, late, sent)
      BY <2>3 DEF DataLink
    <3> QED
      BY <1>7, <1>8, <2>1, <3>1
  <2>4. CASE Runner
    <3>1. \/ \E sent \in Sent : StopRl(sent)
          \/ \E sent \in Sent, c \in Candidates(RL), late \in Late : SubmitRl(c, late, sent)
      BY <2>4 DEF Runner
    <3> QED
      BY <1>8, <2>2, <3>1
  <2> QED
    BY <1>10, <2>3, <2>4
<1>11. CASE MissionPasses
  BY <1>11, CoreAssumption DEF MissionPasses, LifetimeShape
<1>12. CASE World
  BY <1>12, WorldGoesOn, LifetimeKept DEF World, coreVars, lifetime
<1>13. CASE UNCHANGED allVars
  BY <1>2, <1>13 DEF allVars, NoSinkCall, coreVars, lifetime
<1> QED
  BY <1>3, <1>4, <1>5, <1>6, <1>10, <1>11, <1>12, <1>13 DEF CoreNext, OwnerStep

\* A disarm of a core that has begun ends at zero, also when no owner and no awaited
\* echo tells the mode to write one in.
LEMMA DisarmEndsAtZero ==
    ASSUME CoreInv, CoreInv', LifetimeShape, LifetimeShape', NEW sent \in BOOLEAN, CoreDisarm(sent)
    PROVE  EndsAtZero
<1>1. status' \in {"disarmed", "faulted"}
  <2>1. status' \notin {"new", "operational"}
    <3>1. status # "new"
      BY DEF CoreDisarm
    <3>2. TerminalDisarm(sent) \/ (NoSinkCall /\ (result # None \/ ~Operational))
      BY DEF CoreDisarm
    <3> QED
      BY <3>1, <3>2 DEF LifetimeShape, Operational, NoSinkCall, vars, TerminalDisarm
  <2> QED
    BY <2>1 DEF CoreInv, IInv, TypeOK
<1> QED
  BY <1>1 DEF EndsAtZero, CoreInv, IInv, DisarmedMeansZero

\* A mission lease that has passed is left by a disarm, or by a renewal that was stamped
\* in time and comes before the owner's tick.
LEMMA ExpiredMissionStep ==
    ASSUME CoreInv, CoreInv', LifetimeShape, LifetimeShape', CoreNext, mission = "expired"
    PROVE  /\ OwnerTicks => EndsAtZero
           /\ mission' = "fresh" => ctl = "stamped" /\ ~ticked
           /\ mission' = None => status' # "operational"
<1>1. Sent \subseteq BOOLEAN /\ None # "fresh" /\ None # "expired"
  BY SentType, CoreAssumption
<1>2. CASE \E sent \in Sent : CoreDisarm(sent)
  <2>1. mission' \in {None, mission}
    BY <1>2 DEF CoreDisarm, lifetime
  <2>2. EndsAtZero
    BY <1>1, <1>2, DisarmEndsAtZero
  <2> QED
    BY <1>1, <2>1, <2>2 DEF EndsAtZero
<1>3. CASE UNCHANGED mission /\ ~OwnerTicks
  BY <1>1, <1>3
<1>4. CASE OwnerStep
  <2>1. PICK sent \in Sent : TickCore(sent) \/ ReadRow(sent) \/ ObserveSegment(sent)
    BY <1>4 DEF OwnerStep
  <2>2. CASE TickCore(sent)
    <3>1. CoreDisarm(sent)
      BY <1>1, <2>2 DEF TickCore, LifetimeShape
    <3> QED
      BY <1>2, <3>1
  <2>3. CASE ReadRow(sent) \/ ObserveSegment(sent)
    BY <1>3, <2>3 DEF ReadRow, ObserveSegment, lifetime, OwnerTicks
  <2> QED
    BY <2>1, <2>2, <2>3
<1>5. CASE Closing
  BY <1>2, <1>3, <1>5 DEF Closing, Shutdown, WaitForAck, lifetime, OwnerTicks
<1>6. CASE Control
  <2>1. CASE Renew
    BY <1>1, <2>1 DEF Renew, LifetimeShape, OwnerTicks
  <2>2. CASE \E sent \in Sent : RequestDisarm(sent) \/ \E c \in Renewing : RenewTooLate(c, sent)
    BY <1>2, <2>2 DEF RequestDisarm, RenewTooLate
  <2>3. CASE \/ CheckWorker \/ ActivateActRefused \/ RenewRefused \/ ActivateRefused
             \/ \E c \in Renewing : Stamp(c)
             \/ \E sent \in Sent : ActivateRl(sent) \/ \E max \in Budget : ActivateAct(max, sent)
    BY <1>3, <2>3 DEF CheckWorker, ActivateActRefused, RenewRefused, ActivateRefused, Stamp,
                      ActivateRl, ActivateAct, lifetime, OwnerTicks
  <2> QED
    BY <1>6, <2>1, <2>2, <2>3 DEF Control
<1>7. CASE DataLink \/ Runner
  BY <1>3, <1>7 DEF DataLink, Connect, Disconnect, Notify, BadCandidate, SubmitAct, Runner,
                    StopRl, SubmitRl, coreVars, lifetime, threads, OwnerTicks
<1>8. CASE MissionPasses \/ World
  BY <1>1, <1>3, <1>8 DEF MissionPasses, World, coreVars, lifetime, threads, OwnerTicks
<1> QED
  BY <1>4, <1>5, <1>6, <1>7, <1>8 DEF CoreNext

\* The owner's next tick after a mission lease has passed ends the core at zero
\* (ResidentMotionCore.tick, terminal_disarm); before it, only a renewal that read the
\* clock in time brings the lease back (renew_mission_lease).
THEOREM ExpiredMissionAlwaysEnds == CoreSpec => ExpiredMissionEnds
<1>1. CoreInit => LifetimeShape
  BY CoreAssumption DEF CoreInit, LifetimeShape
<1>2. CoreInv /\ LifetimeShape /\ [CoreNext]_allVars => CoreInv' /\ LifetimeShape'
  BY CoreNextKeepsCoreInv, NextKeepsLifetime
<1>3. CoreInv /\ LifetimeShape /\ CoreInv' /\ LifetimeShape' /\ [CoreNext]_allVars =>
        [mission = "expired" =>
           /\ OwnerTicks => EndsAtZero
           /\ mission' = "fresh" => ctl = "stamped" /\ ~ticked
           /\ mission' = None => status' # "operational"]_allVars
  BY ExpiredMissionStep
<1> QED
  BY <1>1, <1>2, <1>3, AlwaysCoreInv, PTL DEF CoreSpec, ExpiredMissionEnds

=============================================================================
