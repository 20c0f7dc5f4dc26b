--------------------------- MODULE EdgeCycleProofs ---------------------------
(***************************************************************************)
(* Proofs of the safety properties of EdgeCycle for every set of clients   *)
(* and cycle ids, from one inductive invariant, IInv.                      *)
(***************************************************************************)
EXTENDS EdgeCycle, TLAPS

\* Each lock belongs to exactly the thread whose unfinished call took it.
LockOwnership ==
    /\ \A c \in Client :
         coordLock = c <=> pend[c] \in [do : {"start", "cancel", "close"}]
    /\ \A t \in Thread : execLock = t <=> pend[t] \in Emission
    /\ pend[Owner] \in Emission \cup {None}

\* A leg of the cycle runs, or has ended and its result is on its way.
LegRuns(kind) ==
    active # None /\ active.by = Cycle /\ active.kind = kind

LegEnded(kind) ==
    /\ active = None
    /\ execLock # None /\ pend[execLock].do = "result"
    /\ closed = [by |-> Cycle, kind |-> kind, outcome |-> pend[execLock].outcome,
                 quiescent |-> pend[execLock].quiescent]

\* The call that holds the coordinator's lock and waits for the executor's.
Calling(call) == coordLock # None /\ pend[coordLock].do = call

\* A request that is about to start a leg finds no other leg of the cycle, nor the
\* event of one.  At all other times the stage is that of the leg.
StageShape ==
    IF Calling("start")
    THEN /\ stage \in {"FOLLOW_DIG", "FOLLOW_DUMP"} /\ cycleId # None
         /\ execLock = None
         /\ active # None => active.by # Cycle
    ELSE IF stage \in Running
    THEN /\ cycleId # None
         /\ LegRuns(Leg[stage]) \/ LegEnded(Leg[stage])
    ELSE /\ execLock = None
         /\ active # None => active.by # Cycle

\* While a leg runs, the event on its way is feedback.
FeedbackShape ==
    execLock # None /\ active # None => pend[execLock].do = "feedback"

\* A cancellation is passed on only for a stage with a leg.
CancelShape == Calling("cancel") => stage \in Running

IInv ==
    /\ TypeOK
    /\ LockOwnership /\ StageShape /\ FeedbackShape /\ CancelShape
    /\ FixedActionFollowsFollow

-----------------------------------------------------------------------------
(* The tables and records of the model.                                    *)

LEMMA LegTable ==
    /\ Running = {"FOLLOW_DIG", "EXECUTE_DIG", "FOLLOW_DUMP", "EXECUTE_DUMP"}
    /\ Leg["FOLLOW_DIG"] = "Follow" /\ Leg["FOLLOW_DUMP"] = "Follow"
    /\ Leg["EXECUTE_DIG"] = "ExecuteDig" /\ Leg["EXECUTE_DUMP"] = "ExecuteDump"
BY DEF Running, Leg

LEMMA FollowingTable ==
    /\ Following["FOLLOW_DIG"] = "EXECUTE_DIG"
    /\ Following["EXECUTE_DIG"] = "WAITING_FOR_DUMP_TRAJECTORY"
    /\ Following["FOLLOW_DUMP"] = "EXECUTE_DUMP"
    /\ Following["EXECUTE_DUMP"] = "COMPLETED"
BY DEF Following

LEMMA LegKinds == ASSUME NEW s \in Running PROVE Leg[s] \in Kind
BY LegTable DEF Kind

\* A waiting call is of one sort: an event or a call, told apart by what it does.
LEMMA PendSorts ==
    /\ \A e \in Emission :
         /\ e.do \in {"feedback", "result"}
         /\ e.do = "result" => e.outcome \in Outcome /\ e.quiescent \in BOOLEAN
    /\ \A e \in Call : e.do \in {"start", "cancel", "close", "drop"}
    /\ \A e \in [do : {"start", "cancel", "close"}] :
         e \in Call /\ e.do \in {"start", "cancel", "close"}
    /\ \A call \in {"start", "cancel", "close", "drop"} :
         [do |-> call] \in Call /\ [do |-> call].do = call
    /\ \A call \in {"start", "cancel", "close"} :
         [do |-> call] \in [do : {"start", "cancel", "close"}]
BY DEF Emission, Call

LEMMA InitEstablishesIInv == Init => IInv
<1> SUFFICES ASSUME Init PROVE IInv
  OBVIOUS
<1>1. TypeOK
  BY ThreadsAssumption DEF Init, TypeOK, Stage
<1>2. LockOwnership
  <2>1. None \notin [do : {"start", "cancel", "close"}]
    BY ThreadsAssumption, PendSorts
  <2> QED
    BY <2>1, ThreadsAssumption DEF Init, LockOwnership, Thread
<1>3. StageShape /\ FeedbackShape /\ CancelShape /\ FixedActionFollowsFollow
  BY LegTable DEF Init, StageShape, Calling, FeedbackShape, CancelShape,
     FixedActionFollowsFollow
<1> QED
  BY <1>1, <1>2, <1>3 DEF IInv

-----------------------------------------------------------------------------
(* Who takes and who gives back a lock.                                    *)

LockType ==
    /\ pend \in [Thread -> Emission \cup Call \cup {None}]
    /\ coordLock \in Client \cup {None}
    /\ execLock \in Thread \cup {None}

OtherType ==
    /\ connected \subseteq Client
    /\ active \in Behavior \cup {None}
    /\ ready \in BOOLEAN
    /\ spent \subseteq CycleId
    /\ cycleId \in CycleId \cup {None}
    /\ stage \in Stage
    /\ sink \in Client \cup {None}
    /\ legAccepted \in BOOLEAN
    /\ starter \in Client \cup {None}
    /\ closed \in Closed \cup {None}
    /\ told \in Told \cup {None}

LEMMA TypeParts == TypeOK <=> LockType /\ OtherType
BY DEF TypeOK, LockType, OtherType

\* A request goes on to the executor.
LEMMA TakeCoordLock ==
    ASSUME LockType, LockOwnership, NEW c \in Client,
           NEW call \in {"start", "cancel", "close"},
           pend[c] = None, coordLock = None, coordLock' = c,
           pend' = [pend EXCEPT ![c] = [do |-> call]],
           execLock' = execLock
    PROVE  /\ LockType' /\ LockOwnership'
           /\ pend'[c].do = call
           /\ execLock # None => pend'[execLock] = pend[execLock]
<1>1. /\ pend'[c] = [do |-> call]
      /\ \A t \in Thread : t # c => pend'[t] = pend[t]
      /\ c \in Thread
  BY DEF LockType, Thread
<1>2. [do |-> call] \in Call \ Emission /\ [do |-> call].do = call
  BY PendSorts
<1>3. LockType'
  BY <1>1, <1>2 DEF LockType
<1>4. c # Owner /\ c # None
  BY ThreadsAssumption DEF Thread
<1>5. execLock # c
  BY <1>1, ThreadsAssumption DEF LockOwnership
<1>6. LockOwnership'
  <2>1. \A d \in Client :
          coordLock' = d <=> pend'[d] \in [do : {"start", "cancel", "close"}]
    BY <1>1, <1>4, PendSorts, ThreadsAssumption DEF LockOwnership, Thread
  <2>2. \A t \in Thread : execLock' = t <=> pend'[t] \in Emission
    BY <1>1, <1>2, <1>5 DEF LockOwnership
  <2>3. pend'[Owner] \in Emission \cup {None}
    BY <1>1, <1>4 DEF LockOwnership, Thread
  <2> QED
    BY <2>1, <2>2, <2>3 DEF LockOwnership
<1> QED
  BY <1>1, <1>2, <1>3, <1>5, <1>6 DEF LockType

\* The request has come back from the executor.
LEMMA ReleaseCoordLock ==
    ASSUME LockType, LockOwnership, NEW c \in Client, coordLock = c,
           execLock = None, coordLock' = None,
           pend' = [pend EXCEPT ![c] = None], execLock' = execLock
    PROVE  LockType' /\ LockOwnership'
<1>1. /\ pend'[c] = None
      /\ \A t \in Thread : t # c => pend'[t] = pend[t]
      /\ c \in Thread /\ c # Owner
  BY ThreadsAssumption DEF LockType, Thread
<1>2. LockType'
  BY <1>1 DEF LockType
<1>3. \A d \in Client : coordLock' # d
  BY ThreadsAssumption DEF Thread
<1>4. \A d \in Client : pend'[d] \notin [do : {"start", "cancel", "close"}]
  BY <1>1, PendSorts, ThreadsAssumption DEF LockOwnership, Thread
<1>5. \A t \in Thread : execLock' = t <=> pend'[t] \in Emission
  BY <1>1, ThreadsAssumption DEF LockOwnership
<1>6. pend'[Owner] \in Emission \cup {None}
  BY <1>1 DEF LockOwnership, Thread
<1> QED
  BY <1>2, <1>3, <1>4, <1>5, <1>6 DEF LockOwnership

\* An event goes from the executor to the coordinator.
LEMMA TakeExecLock ==
    ASSUME LockType, LockOwnership, NEW t \in Thread, NEW e \in Emission,
           pend[t] = None, execLock = None, execLock' = t,
           pend' = [pend EXCEPT ![t] = e], coordLock' = coordLock
    PROVE  /\ LockType' /\ LockOwnership'
           /\ pend'[t] = e
           /\ coordLock # None => pend'[coordLock] = pend[coordLock]
<1>1. /\ pend'[t] = e
      /\ \A u \in Thread : u # t => pend'[u] = pend[u]
  BY DEF LockType
<1>2. LockType'
  BY <1>1 DEF LockType
<1>3. coordLock # t
  BY PendSorts, ThreadsAssumption DEF LockOwnership, LockType, Thread
<1>4. \A d \in Client :
        coordLock' = d <=> pend'[d] \in [do : {"start", "cancel", "close"}]
  BY <1>1, <1>3, PendSorts DEF LockOwnership, Thread
<1>5. \A u \in Thread : execLock' = u <=> pend'[u] \in Emission
  BY <1>1, ThreadsAssumption DEF LockOwnership, Thread
<1>6. pend'[Owner] \in Emission \cup {None}
  BY <1>1 DEF LockOwnership, Thread
<1> QED
  BY <1>1, <1>2, <1>3, <1>4, <1>5, <1>6 DEF LockOwnership, LockType, Thread

LEMMA ReleaseExecLock ==
    ASSUME LockType, LockOwnership, NEW t \in Thread, execLock = t,
           coordLock = None, execLock' = None,
           pend' = [pend EXCEPT ![t] = None], coordLock' = coordLock
    PROVE  LockType' /\ LockOwnership'
<1>1. /\ pend'[t] = None
      /\ \A u \in Thread : u # t => pend'[u] = pend[u]
  BY DEF LockType
<1>2. LockType'
  BY <1>1 DEF LockType
<1>3. \A d \in Client :
        coordLock' = d <=> pend'[d] \in [do : {"start", "cancel", "close"}]
  BY <1>1, PendSorts, ThreadsAssumption DEF LockOwnership, Thread
<1>4. \A u \in Thread : execLock' = u <=> pend'[u] \in Emission
  BY <1>1, ThreadsAssumption DEF LockOwnership
<1>5. pend'[Owner] \in Emission \cup {None}
  BY <1>1 DEF LockOwnership, Thread
<1> QED
  BY <1>2, <1>3, <1>4, <1>5 DEF LockOwnership

\* A disconnection that only the executor learns of holds no lock.
LEMMA WaitWithoutLock ==
    ASSUME LockType, LockOwnership, NEW c \in Client,
           NEW from \in {None, [do |-> "drop"]}, NEW to \in {None, [do |-> "drop"]},
           pend[c] = from, pend' = [pend EXCEPT ![c] = to],
           coordLock' = coordLock, execLock' = execLock
    PROVE  /\ LockType' /\ LockOwnership'
           /\ coordLock # None => pend'[coordLock] = pend[coordLock]
           /\ execLock # None => pend'[execLock] = pend[execLock]
<1>1. /\ pend'[c] = to
      /\ \A u \in Thread : u # c => pend'[u] = pend[u]
      /\ c \in Thread /\ c # Owner
  BY ThreadsAssumption DEF LockType, Thread
<1>2. \A p \in {from, to} :
        /\ p \in Call \cup {None} /\ p \notin Emission
        /\ p \notin [do : {"start", "cancel", "close"}]
  BY PendSorts, ThreadsAssumption
<1>3. LockType'
  BY <1>1, <1>2 DEF LockType
<1>4. coordLock # c /\ execLock # c
  BY <1>1, <1>2 DEF LockOwnership
<1>5. \A d \in Client :
        coordLock' = d <=> pend'[d] \in [do : {"start", "cancel", "close"}]
  BY <1>1, <1>2, <1>4 DEF LockOwnership, Thread
<1>6. \A u \in Thread : execLock' = u <=> pend'[u] \in Emission
  BY <1>1, <1>2, <1>4 DEF LockOwnership
<1>7. pend'[Owner] \in Emission \cup {None}
  BY <1>1 DEF LockOwnership, Thread
<1> QED
  BY <1>1, <1>3, <1>4, <1>5, <1>6, <1>7 DEF LockOwnership, LockType, Thread

-----------------------------------------------------------------------------
(* The executor's callers.                                                 *)

\* What is known of a stage without a leg, and of one with a leg.
LEMMA LegsOwner ==
    ASSUME IInv, active # None, active.by = Cycle
    PROVE  /\ stage \in Running /\ cycleId # None /\ ~Calling("start")
           /\ active.kind = Leg[stage]
BY DEF IInv, StageShape, LegRuns, LegEnded

LEMMA EndStep ==
    ASSUME IInv, NEW t \in Thread, pend[t] = None, execLock = None, active # None,
           NEW outcome \in Outcome, NEW quiescent \in BOOLEAN,
           EndUnderExecLock(t, outcome, quiescent)
    PROVE  IInv'
<1> DEFINE e == [do |-> "result", outcome |-> outcome, quiescent |-> quiescent]
<1>1. TypeOK /\ LockType /\ OtherType /\ LockOwnership
  BY TypeParts DEF IInv
<1>2. /\ active' = None /\ told' = None
      /\ closed' = [by |-> active.by, kind |-> active.kind,
                    outcome |-> outcome, quiescent |-> quiescent]
      /\ UNCHANGED <<connected, coordLock, ready, spent, cycleId, stage, sink,
                     legAccepted, starter>>
  BY DEF EndUnderExecLock, Finish, coordinator
<1>3. closed' \in Closed
  BY <1>1, <1>2 DEF OtherType, Behavior, Closed
<1>4. OtherType'
  BY <1>1, <1>2, <1>3 DEF OtherType
<1>5. FixedActionFollowsFollow' /\ FeedbackShape'
  BY <1>2 DEF FixedActionFollowsFollow, FeedbackShape
<1>6. CASE active.by = Cycle
  <2>1. execLock' = t /\ pend' = [pend EXCEPT ![t] = e] /\ e \in Emission
    BY <1>6 DEF EndUnderExecLock, Emission
  <2>2. /\ LockType' /\ LockOwnership' /\ pend'[t] = e
        /\ coordLock # None => pend'[coordLock] = pend[coordLock]
    BY <1>1, <1>2, <2>1, TakeExecLock
  <2>3. stage \in Running /\ cycleId # None /\ ~Calling("start") /\ active.kind = Leg[stage]
    BY <1>6, LegsOwner
  <2>4. ~Calling("start")' /\ CancelShape'
    BY <1>2, <2>2, <2>3 DEF Calling, CancelShape
  <2>5. t # None
    BY ThreadsAssumption
  <2>6. LegEnded(Leg[stage])'
    BY <1>2, <1>6, <2>1, <2>2, <2>3, <2>5 DEF LegEnded
  <2>7. StageShape'
    BY <1>2, <2>3, <2>4, <2>6 DEF StageShape
  <2> QED
    BY <1>4, <1>5, <2>2, <2>4, <2>7 DEF IInv, TypeOK, LockType, OtherType
<1>7. CASE active.by # Cycle
  <2>1. UNCHANGED <<pend, execLock>>
    BY <1>7 DEF EndUnderExecLock
  <2>2. LockType' /\ LockOwnership' /\ CancelShape'
    BY <1>1, <1>2, <2>1 DEF IInv, LockType, LockOwnership, CancelShape, Calling
  <2>3. Calling("start") \/ stage \notin Running
    BY <1>7 DEF IInv, StageShape, LegRuns, LegEnded
  <2>4. StageShape'
    BY <1>2, <2>1, <2>3 DEF IInv, StageShape, Calling
  <2> QED
    BY <1>4, <1>5, <2>2, <2>4 DEF IInv, TypeOK, LockType, OtherType
<1> QED
  BY <1>6, <1>7

LEMMA ObserveActiveStep == ASSUME IInv, ObserveActive PROVE IInv'
<1> DEFINE e == [do |-> "feedback"]
<1>1. TypeOK /\ LockType /\ OtherType /\ LockOwnership
  BY TypeParts DEF IInv
<1>2. /\ pend[Owner] = None /\ execLock = None /\ execLock' = Owner
      /\ active # None /\ active.by = Cycle
      /\ pend' = [pend EXCEPT ![Owner] = e] /\ told' = None
      /\ UNCHANGED <<connected, coordLock, active, closed, ready, spent, cycleId, stage,
                     sink, legAccepted, starter>>
  BY DEF ObserveActive, coordinator, executor
<1>3. e \in Emission /\ Owner \in Thread /\ e.do = "feedback"
  BY DEF Emission, Thread
<1>4. /\ LockType' /\ LockOwnership' /\ pend'[Owner] = e
      /\ coordLock # None => pend'[coordLock] = pend[coordLock]
  BY <1>1, <1>2, <1>3, TakeExecLock
<1>5. OtherType'
  BY <1>1, <1>2 DEF OtherType
<1>6. stage \in Running /\ cycleId # None /\ ~Calling("start") /\ active.kind = Leg[stage]
  BY <1>2, LegsOwner
<1>7. ~Calling("start")' /\ CancelShape'
  BY <1>2, <1>4, <1>6 DEF Calling, CancelShape
<1>8. StageShape'
  BY <1>2, <1>6, <1>7 DEF StageShape, LegRuns
<1>9. FixedActionFollowsFollow' /\ FeedbackShape'
  BY <1>2, <1>3, <1>4 DEF IInv, FixedActionFollowsFollow, FeedbackShape
<1> QED
  BY <1>4, <1>5, <1>7, <1>8, <1>9 DEF IInv, TypeOK, LockType, OtherType

\* A direct behaviour comes and goes beside the cycle's.
LEMMA DirectStartStep ==
    ASSUME IInv, NEW c \in Client, DirectStart(c)
    PROVE  IInv'
<1>1. TypeOK /\ LockType /\ OtherType /\ LockOwnership
  BY TypeParts DEF IInv
<1>2. /\ execLock = None /\ active = None
      /\ active' \in [by : {c}, kind : Kind] /\ told' = None
      /\ UNCHANGED <<connected, pend, coordLock, execLock, closed, ready, spent, cycleId,
                     stage, sink, legAccepted, starter>>
  BY DEF DirectStart, locks, coordinator
<1>3. active' \in Behavior /\ active'.by # Cycle
  BY <1>2, ThreadsAssumption DEF Behavior
<1>4. LockType' /\ LockOwnership' /\ OtherType'
  BY <1>1, <1>2, <1>3 DEF LockType, LockOwnership, OtherType
<1>5. CancelShape' /\ FeedbackShape' /\ FixedActionFollowsFollow'
  BY <1>2, <1>3 DEF IInv, CancelShape, Calling, FeedbackShape, FixedActionFollowsFollow
<1>6. StageShape'
  BY <1>2, <1>3 DEF IInv, StageShape, Calling, LegRuns, LegEnded
<1> QED
  BY <1>4, <1>5, <1>6 DEF IInv, TypeOK, LockType, OtherType

LEMMA ExecutorSteps ==
    ASSUME IInv,
           \/ ObserveEnd
           \/ \E c \in Client : DirectCancel(c) \/ Watchdog(c)
    PROVE  IInv'
<1>1. CASE ObserveEnd
  <2>1. PICK outcome \in {"SUCCEEDED", "FAILED"}, quiescent \in BOOLEAN :
          EndUnderExecLock(Owner, outcome, quiescent)
    BY <1>1 DEF ObserveEnd
  <2> QED
    BY <1>1, <2>1, EndStep DEF ObserveEnd, Thread, Outcome
<1>2. ASSUME NEW c \in Client, DirectCancel(c) PROVE IInv'
  <2>1. PICK quiescent \in BOOLEAN : EndUnderExecLock(c, "CANCELLED", quiescent)
    BY <1>2 DEF DirectCancel
  <2> QED
    BY <1>2, <2>1, EndStep DEF DirectCancel, Thread, Outcome
<1>3. ASSUME NEW c \in Client, Watchdog(c) PROVE IInv'
  <2>1. PICK quiescent \in BOOLEAN : EndUnderExecLock(c, "FAILED", quiescent)
    BY <1>3 DEF Watchdog
  <2> QED
    BY <1>3, <2>1, EndStep DEF Watchdog, Thread, Outcome
<1> QED
  BY <1>1, <1>2, <1>3

-----------------------------------------------------------------------------
(* The coordinator's callers.                                              *)

\* Whatever leaves the locks, the executor and the stage alone.
LEMMA NothingMoves ==
    ASSUME IInv, OtherType',
           UNCHANGED <<pend, coordLock, execLock, active, closed, stage, cycleId>>
    PROVE  IInv'
<1>1. LockType' /\ LockOwnership'
  BY DEF IInv, TypeOK, LockType, LockOwnership
<1>2. StageShape'
  BY DEF IInv, StageShape, Calling, LegRuns, LegEnded
<1>3. FeedbackShape' /\ CancelShape' /\ FixedActionFollowsFollow'
  BY DEF IInv, FeedbackShape, CancelShape, Calling, FixedActionFollowsFollow
<1> QED
  BY <1>1, <1>2, <1>3 DEF IInv, TypeOK, LockType, OtherType

\* A request that does not start a leg goes on to the executor.
LEMMA PassOn ==
    ASSUME IInv, OtherType', NEW c \in Client, pend[c] = None, coordLock = None,
           NEW call \in {"cancel", "close"}, CallExecutor(c, call),
           call = "cancel" => stage \in Running, UNCHANGED <<stage, cycleId>>
    PROVE  IInv'
<1>1. LockType /\ LockOwnership
  BY DEF IInv, TypeOK, LockType
<1>2. /\ coordLock' = c /\ pend' = [pend EXCEPT ![c] = [do |-> call]]
      /\ UNCHANGED <<execLock, active, closed>>
  BY DEF CallExecutor, executor
<1>3. /\ LockType' /\ LockOwnership' /\ pend'[c].do = call
      /\ execLock # None => pend'[execLock] = pend[execLock]
  BY <1>1, <1>2, TakeCoordLock
<1>4. ~Calling("start") /\ ~Calling("start")' /\ CancelShape'
  BY <1>2, <1>3 DEF Calling, CancelShape
<1>5. StageShape'
  BY <1>2, <1>3, <1>4 DEF IInv, StageShape, LegRuns, LegEnded
<1>6. FeedbackShape' /\ FixedActionFollowsFollow'
  BY <1>2, <1>3 DEF IInv, FeedbackShape, FixedActionFollowsFollow
<1> QED
  BY <1>3, <1>4, <1>5, <1>6 DEF IInv, TypeOK, LockType, OtherType

\* A request to start a leg goes on to the executor: the stage had none before.
LEMMA PassOnStart ==
    ASSUME IInv, OtherType', NEW c \in Client, pend[c] = None, coordLock = None,
           CallExecutor(c, "start"), stage \notin Running,
           stage' \in {"FOLLOW_DIG", "FOLLOW_DUMP"}, cycleId' \in CycleId
    PROVE  IInv'
<1>1. LockType /\ LockOwnership
  BY DEF IInv, TypeOK, LockType
<1>2. /\ coordLock' = c /\ pend' = [pend EXCEPT ![c] = [do |-> "start"]]
      /\ UNCHANGED <<execLock, active, closed>>
  BY DEF CallExecutor, executor
<1>3. LockType' /\ LockOwnership' /\ pend'[c].do = "start"
  BY <1>1, <1>2, TakeCoordLock
<1>4. ~Calling("start")
  BY DEF Calling
<1>5. execLock = None /\ (active # None => active.by # Cycle)
  BY <1>4 DEF IInv, StageShape
<1>6. Calling("start")' /\ CancelShape'
  BY <1>2, <1>3, ThreadsAssumption DEF Calling, CancelShape, Thread
<1>7. StageShape'
  BY <1>2, <1>5, <1>6, ThreadsAssumption DEF StageShape
<1>8. FeedbackShape' /\ FixedActionFollowsFollow'
  BY <1>2, <1>5 DEF FeedbackShape, FixedActionFollowsFollow
<1> QED
  BY <1>3, <1>6, <1>7, <1>8 DEF IInv, TypeOK, LockType, OtherType

LEMMA RefuseStep ==
    ASSUME IInv, NEW c, NEW request, Handle(c, request), Refuse
    PROVE  IInv'
<1>1. /\ UNCHANGED <<connected, pend, coordLock, execLock, active, closed, ready, spent,
                     cycleId, stage, starter>>
      /\ sink' = None /\ told' = None
  BY DEF Refuse, locks, executor
<1>2. legAccepted' \in BOOLEAN
  BY ZenonT(20) DEF Handle
<1>3. OtherType'
  BY <1>1, <1>2 DEF IInv, TypeOK, OtherType
<1> QED
  BY <1>1, <1>3, NothingMoves

LEMMA StartCycleStep ==
    ASSUME IInv, NEW c \in Client, NEW id \in CycleId, StartCycle(c, id)
    PROVE  IInv'
<1>1. CASE Refuse
  BY <1>1, RefuseStep DEF StartCycle
<1>2. CASE ~Refuse
  <2>1. /\ pend[c] = None /\ coordLock = None /\ stage \in Terminal \cup {"IDLE"}
        /\ CallExecutor(c, "start")
        /\ cycleId' = id /\ stage' = "FOLLOW_DIG" /\ sink' = c /\ starter' = c
    BY <1>2 DEF StartCycle, Handle
  <2>2. /\ told' = None
        /\ UNCHANGED <<connected, active, closed, ready, spent>>
    BY <2>1 DEF CallExecutor, executor
  <2>3. legAccepted' \in BOOLEAN
    BY ZenonT(20) DEF StartCycle, Handle
  <2>4. OtherType'
    BY <2>1, <2>2, <2>3, LegTable DEF IInv, TypeOK, OtherType, Stage
  <2>5. stage \notin Running
    BY <2>1, LegTable DEF Terminal
  <2> QED
    BY <2>1, <2>4, <2>5, PassOnStart
<1> QED
  BY <1>1, <1>2

LEMMA ProvideStep ==
    ASSUME IInv, NEW c \in Client, NEW id \in CycleId, ProvideDumpTrajectory(c, id)
    PROVE  IInv'
<1>1. CASE Refuse
  BY <1>1, RefuseStep DEF ProvideDumpTrajectory
<1>2. CASE ~Refuse
  <2>1. /\ pend[c] = None /\ coordLock = None /\ stage = "WAITING_FOR_DUMP_TRAJECTORY"
        /\ CallExecutor(c, "start")
        /\ cycleId = id /\ cycleId' = id /\ stage' = "FOLLOW_DUMP" /\ sink' = c /\ starter' = c
    BY <1>2 DEF ProvideDumpTrajectory, Handle
  <2>2. /\ told' = None
        /\ UNCHANGED <<connected, active, closed, ready, spent>>
    BY <2>1 DEF CallExecutor, executor
  <2>3. legAccepted' \in BOOLEAN
    BY ZenonT(20) DEF ProvideDumpTrajectory, Handle
  <2>4. OtherType'
    BY <2>1, <2>2, <2>3, LegTable DEF IInv, TypeOK, OtherType, Stage
  <2>5. stage \notin Running
    BY <2>1, LegTable
  <2> QED
    BY <2>1, <2>4, <2>5, PassOnStart
<1> QED
  BY <1>1, <1>2

LEMMA ResultType ==
    ASSUME NEW to \in Client \cup {None}, NEW quiescent \in BOOLEAN
    PROVE  Result(to, quiescent) \in Told \cup {None}
BY DEF Result, Told

LEMMA CancelCycleStep ==
    ASSUME IInv, NEW c \in Client, NEW id \in CycleId, CancelCycle(c, id)
    PROVE  IInv'
<1>1. pend[c] = None /\ coordLock = None
  BY DEF CancelCycle, Handle
<1>2. legAccepted' \in BOOLEAN
  BY ZenonT(20) DEF CancelCycle, Handle
<1>3. CASE id = cycleId /\ stage \in Running
  <2>1. /\ CallExecutor(c, "cancel") /\ sink' = c
        /\ UNCHANGED <<cycleId, stage, starter>>
    BY <1>3 DEF CancelCycle
  <2>2. OtherType'
    BY <1>2, <2>1 DEF IInv, TypeOK, OtherType, CallExecutor, executor
  <2> QED
    BY <1>1, <1>3, <2>1, <2>2, PassOn
<1>4. CASE id = cycleId /\ stage = "WAITING_FOR_DUMP_TRAJECTORY"
  <2>1. stage \notin Running /\ "CANCELLED" \notin Running /\ "CANCELLED" \in Stage
    BY <1>4, LegTable DEF Stage, Terminal
  <2>2. /\ stage' = "CANCELLED" /\ told' = Result(c, TRUE) /\ sink' = None
        /\ UNCHANGED <<connected, pend, coordLock, execLock, active, closed, ready, spent,
                       cycleId, starter>>
    BY <1>4, <2>1 DEF CancelCycle, locks, executor
  <2>3. OtherType'
    BY <1>2, <2>1, <2>2, ResultType DEF IInv, TypeOK, OtherType
  <2>4. ~Calling("start") /\ ~Calling("start")' /\ CancelShape'
    BY <1>1, <2>2 DEF Calling, CancelShape
  <2>5. StageShape'
    BY <2>1, <2>2, <2>4 DEF IInv, StageShape
  <2>6. /\ LockType' /\ LockOwnership'
        /\ FeedbackShape' /\ FixedActionFollowsFollow'
    BY <2>2 DEF IInv, TypeOK, LockType, LockOwnership, FeedbackShape, FixedActionFollowsFollow
  <2> QED
    BY <2>3, <2>4, <2>5, <2>6 DEF IInv, TypeOK, LockType, OtherType
<1>5. CASE ~(id = cycleId /\ stage \in Running)
           /\ ~(id = cycleId /\ stage = "WAITING_FOR_DUMP_TRAJECTORY")
  <2>1. Handle(c, "cancel") /\ Refuse
    BY <1>5 DEF CancelCycle
  <2> QED
    BY <2>1, RefuseStep
<1> QED
  BY <1>3, <1>4, <1>5

LEMMA DisconnectStep ==
    ASSUME IInv, NEW c \in Client, Disconnect(c)
    PROVE  IInv'
<1>1. /\ pend[c] = None /\ coordLock = None
      /\ UNCHANGED <<cycleId, stage, sink, legAccepted, starter>>
  BY DEF Disconnect, coordinator
<1>2. CASE sink = c
  <2>1. CallExecutor(c, "close")
    BY <1>2 DEF Disconnect
  <2>2. OtherType'
    BY <1>1, <2>1 DEF IInv, TypeOK, OtherType, CallExecutor, executor
  <2> QED
    BY <1>1, <2>1, <2>2, PassOn
<1>3. CASE sink # c
  <2>1. /\ pend' = [pend EXCEPT ![c] = [do |-> "drop"]] /\ told' = None
        /\ UNCHANGED <<connected, coordLock, execLock, active, closed, ready, spent>>
    BY <1>3 DEF Disconnect, locks, executor
  <2>2. LockType /\ LockOwnership
    BY DEF IInv, TypeOK, LockType
  <2>3. /\ LockType' /\ LockOwnership'
        /\ execLock # None => pend'[execLock] = pend[execLock]
    BY <1>1, <2>1, <2>2, WaitWithoutLock
  <2>4. OtherType'
    BY <1>1, <2>1 DEF IInv, TypeOK, OtherType
  <2>5. ~Calling("start") /\ ~Calling("start")' /\ CancelShape'
    BY <1>1, <2>1 DEF Calling, CancelShape
  <2>6. StageShape' /\ FeedbackShape' /\ FixedActionFollowsFollow'
    BY <1>1, <2>1, <2>3, <2>5
       DEF IInv, StageShape, LegRuns, LegEnded, FeedbackShape, FixedActionFollowsFollow
  <2> QED
    BY <2>3, <2>4, <2>5, <2>6 DEF IInv, TypeOK, LockType, OtherType
<1> QED
  BY <1>2, <1>3

-----------------------------------------------------------------------------
(* A thread that has both locks.                                           *)

\* _dispatch of the leg of stage s, by a thread that gives its locks back.
LEMMA DispatchStep ==
    ASSUME IInv, NEW s \in Running, DispatchLeg(s), LockType', LockOwnership',
           coordLock' = None, execLock' = None,
           active # None => active.by # Cycle,
           Leg[s] # "Follow" =>
             closed = [by |-> Cycle, kind |-> "Follow", outcome |-> "SUCCEEDED",
                       quiescent |-> TRUE],
           cycleId # None,
           UNCHANGED <<connected, closed, ready, cycleId, starter>>
    PROVE  IInv' /\ (told' # None => stage' = "FAILED")
<1>1. OtherType
  BY DEF IInv, TypeOK, OtherType
<1>2. spent' \subseteq CycleId
  BY <1>1 DEF DispatchLeg, OtherType
<1>3. ~Calling("start")' /\ CancelShape' /\ FeedbackShape'
  BY DEF Calling, CancelShape, FeedbackShape
<1>4. CASE LegRefused
  <2>1. /\ stage' = "FAILED" /\ sink' = None /\ UNCHANGED <<active, legAccepted>>
        /\ told' = (IF legAccepted THEN Result(sink, FALSE) ELSE None)
    BY <1>4 DEF LegRefused
  <2>2. OtherType'
    BY <1>1, <1>2, <2>1, ResultType DEF OtherType, Stage, Terminal
  <2>3. "FAILED" \notin Running
    BY LegTable
  <2>4. StageShape' /\ FixedActionFollowsFollow'
    BY <1>3, <2>1, <2>3 DEF StageShape, FixedActionFollowsFollow
  <2> QED
    BY <1>3, <2>1, <2>2, <2>4 DEF IInv, TypeOK, LockType, OtherType
<1>5. CASE ~LegRefused
  <2>1. /\ active' = [by |-> Cycle, kind |-> Leg[s]] /\ stage' = s
        /\ legAccepted' = TRUE /\ told' = None /\ sink' = sink
    BY <1>5 DEF DispatchLeg
  <2>2. active' \in Behavior /\ active'.by = Cycle /\ active'.kind = Leg[s]
    BY <2>1, LegKinds DEF Behavior
  <2>3. active' # None
    BY <2>2, ThreadsAssumption
  <2>4. OtherType'
    BY <1>1, <1>2, <2>1, <2>2 DEF OtherType, Stage
  <2>5. StageShape' /\ FixedActionFollowsFollow'
    BY <1>3, <2>1, <2>2, <2>3 DEF StageShape, LegRuns, FixedActionFollowsFollow
  <2> QED
    BY <1>3, <2>1, <2>4, <2>5 DEF IInv, TypeOK, LockType, OtherType
<1> QED
  BY <1>4, <1>5

\* The cycle's leg is over, its result taken, and no leg follows.
LEMMA LegOver ==
    ASSUME IInv, LockType', LockOwnership', OtherType',
           coordLock' = None, execLock' = None,
           active' # None => active'.by # Cycle,
           stage' \notin Running
    PROVE  IInv'
<1>1. ~Calling("start")' /\ CancelShape' /\ FeedbackShape'
  BY DEF Calling, CancelShape, FeedbackShape
<1>2. StageShape' /\ FixedActionFollowsFollow'
  BY <1>1 DEF StageShape, FixedActionFollowsFollow
<1> QED
  BY <1>1, <1>2 DEF IInv, TypeOK, LockType, OtherType

\* What the cycle makes of the result of the leg it is in.
LEMMA RecordedStageIs ==
    ASSUME NEW outcome \in Outcome, NEW quiescent \in BOOLEAN, stage \in Running
    PROVE  /\ outcome = "SUCCEEDED" /\ quiescent
                => RecordedStage(outcome, quiescent) = Following[stage]
           /\ ~(outcome = "SUCCEEDED" /\ quiescent)
                => RecordedStage(outcome, quiescent) \in {"FAILED", "CANCELLED"}
BY DEF RecordedStage, Outcome

LEMMA DeliverStep ==
    ASSUME IInv, NEW t \in Thread, Deliver(t)
    PROVE  IInv' /\ LegResultMeansZero'
<1> DEFINE e == pend[t]
<1>1. LockType /\ OtherType /\ LockOwnership
  BY DEF IInv, TypeOK, LockType, OtherType
<1>2. /\ execLock = t /\ e \in Emission /\ coordLock = None
      /\ execLock' = None /\ pend' = [pend EXCEPT ![t] = None]
      /\ UNCHANGED <<connected, coordLock, ready, closed>>
  BY DEF Deliver
<1>3. LockType' /\ LockOwnership'
  BY <1>1, <1>2, ReleaseExecLock
<1>4. t # None
  BY ThreadsAssumption
<1>5. /\ ~Calling("start") /\ stage \in Running /\ cycleId # None
      /\ LegRuns(Leg[stage]) \/ LegEnded(Leg[stage])
  BY <1>2, <1>4 DEF IInv, StageShape, Calling
<1>6. CASE e.do = "feedback"
  <2>1. /\ told' = None
        /\ UNCHANGED <<active, spent, cycleId, stage, sink, legAccepted, starter>>
    BY <1>6 DEF Deliver, coordinator
  <2>2. OtherType'
    BY <1>1, <1>2, <2>1 DEF OtherType
  <2>3. LegRuns(Leg[stage])
    BY <1>2, <1>5, <1>6 DEF LegEnded
  <2>4. ~Calling("start")' /\ CancelShape' /\ FeedbackShape'
    BY <1>2 DEF Calling, CancelShape, FeedbackShape
  <2>5. StageShape' /\ FixedActionFollowsFollow'
    BY <1>2, <1>5, <2>1, <2>3, <2>4 DEF IInv, StageShape, LegRuns, FixedActionFollowsFollow
  <2> QED
    BY <1>3, <2>1, <2>2, <2>4, <2>5
       DEF IInv, TypeOK, LockType, OtherType, LegResultMeansZero
<1>7. CASE e.do # "feedback"
  <2> DEFINE s == RecordedStage(e.outcome, e.quiescent)
  <2>1. ReceiveResult(e.outcome, e.quiescent)
    BY <1>7 DEF Deliver
  <2>2. e.do = "result" /\ e.outcome \in Outcome /\ e.quiescent \in BOOLEAN
    BY <1>2, <1>7, PendSorts
  <2>3. active = None
    BY <1>2, <1>4, <2>2 DEF IInv, FeedbackShape
  <2>4. closed = [by |-> Cycle, kind |-> Leg[stage], outcome |-> e.outcome,
                  quiescent |-> e.quiescent]
    BY <1>2, <1>5, <2>3 DEF LegRuns, LegEnded
  <2>5. cycleId' = cycleId /\ starter' = starter
    BY <2>1 DEF ReceiveResult
  <2>6. CASE s \in Running
    <3>1. DispatchLeg(s)
      BY <2>1, <2>6 DEF ReceiveResult
    <3>2. e.outcome = "SUCCEEDED" /\ e.quiescent = TRUE /\ s = Following[stage]
      BY <1>5, <2>2, <2>6, RecordedStageIs, LegTable
    <3>3. Leg[stage] = "Follow"
      BY <1>5, <2>6, <3>2, FollowingTable, LegTable
    <3>4. IInv' /\ (told' # None => stage' = "FAILED")
      BY <1>2, <1>3, <1>5, <2>3, <2>4, <2>5, <2>6, <3>1, <3>2, <3>3, DispatchStep
    <3> QED
      BY <3>4 DEF LegResultMeansZero
  <2>7. CASE s \notin Running
    <3> DEFINE q == IF s = "WAITING_FOR_DUMP_TRAJECTORY" THEN TRUE ELSE e.quiescent
    <3>1. /\ stage' = s /\ told' = Result(sink, q) /\ sink' = None
          /\ UNCHANGED <<active, legAccepted, spent>>
      BY <2>1, <2>7 DEF ReceiveResult
    <3>2. s \in Stage
      BY <1>5, <2>2, RecordedStageIs, FollowingTable, LegTable DEF Stage, Terminal
    <3>3. q \in BOOLEAN
      BY <2>2
    <3>4. OtherType'
      BY <1>1, <1>2, <2>5, <3>1, <3>2, <3>3, ResultType DEF OtherType
    <3>5. IInv'
      BY <1>2, <1>3, <2>3, <2>7, <3>1, <3>4, LegOver
    <3>6. LegResultMeansZero'
      <4>1. SUFFICES ASSUME told' # None, s \in {"WAITING_FOR_DUMP_TRAJECTORY", "COMPLETED"}
                     PROVE  /\ told'.quiescent
                            /\ closed = [by |-> Cycle, outcome |-> "SUCCEEDED",
                                 quiescent |-> TRUE,
                                 kind |-> IF s = "COMPLETED" THEN "ExecuteDump"
                                                             ELSE "ExecuteDig"]
        BY <1>2, <3>1 DEF LegResultMeansZero
      <4>2. e.outcome = "SUCCEEDED" /\ e.quiescent = TRUE /\ s = Following[stage]
        BY <1>5, <2>2, <4>1, RecordedStageIs
      <4>3. Leg[stage] = IF s = "COMPLETED" THEN "ExecuteDump" ELSE "ExecuteDig"
        BY <1>5, <4>1, <4>2, FollowingTable, LegTable
      <4>4. told'.quiescent
        BY <3>1, <4>1, <4>2 DEF Result
      <4> QED
        BY <2>4, <4>2, <4>3, <4>4
    <3> QED
      BY <3>5, <3>6
  <2> QED
    BY <2>6, <2>7
<1> QED
  BY <1>6, <1>7

LEMMA ExecuteStartStep ==
    ASSUME IInv, NEW c \in Client, ExecuteStart(c)
    PROVE  IInv' /\ LegResultMeansZero'
<1>1. LockType /\ LockOwnership
  BY DEF IInv, TypeOK, LockType
<1>2. /\ pend[c].do = "start" /\ coordLock = c /\ execLock = None
      /\ coordLock' = None /\ pend' = [pend EXCEPT ![c] = None]
      /\ DispatchLeg(stage)
      /\ UNCHANGED <<connected, execLock, ready, starter, closed, cycleId>>
  BY DEF ExecuteStart, Released
<1>3. LockType' /\ LockOwnership'
  BY <1>1, <1>2, ReleaseCoordLock
<1>4. Calling("start")
  BY <1>2, ThreadsAssumption DEF Calling, Thread
<1>5. /\ stage \in {"FOLLOW_DIG", "FOLLOW_DUMP"} /\ cycleId # None
      /\ active # None => active.by # Cycle
  BY <1>4 DEF IInv, StageShape
<1>6. stage \in Running /\ Leg[stage] = "Follow"
  BY <1>5, LegTable
<1>7. IInv' /\ (told' # None => stage' = "FAILED")
  BY <1>2, <1>3, <1>5, <1>6, DispatchStep
<1> QED
  BY <1>7 DEF LegResultMeansZero

LEMMA ExecuteCancelStep ==
    ASSUME IInv, NEW c \in Client, ExecuteCancel(c)
    PROVE  IInv' /\ stage' \in {"FAILED", "CANCELLED"}
<1>1. LockType /\ OtherType /\ LockOwnership
  BY DEF IInv, TypeOK, LockType, OtherType
<1>2. /\ pend[c].do = "cancel" /\ coordLock = c /\ execLock = None
      /\ coordLock' = None /\ pend' = [pend EXCEPT ![c] = None]
      /\ UNCHANGED <<connected, cycleId, execLock, ready, starter>>
  BY DEF ExecuteCancel, Released
<1>3. LockType' /\ LockOwnership'
  BY <1>1, <1>2, ReleaseCoordLock
<1>4. Calling("cancel") /\ ~Calling("start")
  BY <1>2, ThreadsAssumption DEF Calling, Thread
<1>5. stage \in Running /\ active # None /\ active.by = Cycle /\ active.kind = Leg[stage]
  BY <1>2, <1>4 DEF IInv, CancelShape, StageShape, LegRuns, LegEnded
<1>6. active.kind = "Follow" <=> Leg[stage] = "Follow"
  BY <1>5
<1>7. PICK quiescent \in BOOLEAN :
        /\ Finish("CANCELLED", quiescent)
        /\ stage' = RecordedStage("CANCELLED", quiescent)
        /\ told' = Result(sink, quiescent)
        /\ sink' = None
        /\ UNCHANGED <<legAccepted, spent>>
  BY <1>5, <1>6 DEF ExecuteCancel
<1>8. stage' \in {"FAILED", "CANCELLED"}
  BY <1>5, <1>7, RecordedStageIs DEF Outcome
<1>9. active' = None /\ closed' \in Closed
  BY <1>1, <1>5, <1>7 DEF Finish, OtherType, Behavior, Closed, Outcome
<1>10. OtherType'
  BY <1>1, <1>2, <1>7, <1>8, <1>9, ResultType DEF OtherType, Stage, Terminal
<1>11. stage' \notin Running
  BY <1>8, LegTable
<1>12. IInv'
  BY <1>2, <1>3, <1>9, <1>10, <1>11, LegOver
<1> QED
  BY <1>8, <1>12

LEMMA ExecuteCloseStep ==
    ASSUME IInv, NEW c \in Client, ExecuteClose(c)
    PROVE  IInv' /\ (told' # None => stage' = "FAILED")
<1>1. LockType /\ OtherType /\ LockOwnership
  BY DEF IInv, TypeOK, LockType, OtherType
<1>2. /\ pend[c].do = "close" /\ coordLock = c /\ execLock = None
      /\ coordLock' = None /\ pend' = [pend EXCEPT ![c] = None]
      /\ connected' = connected \ {c} /\ sink' = None
      /\ UNCHANGED <<execLock, ready, starter, cycleId, legAccepted, spent>>
  BY DEF ExecuteClose, Released
<1>3. LockType' /\ LockOwnership'
  BY <1>1, <1>2, ReleaseCoordLock
<1>4. ~Calling("start")
  BY <1>2 DEF Calling
<1>5. CASE active = None
  <2>1. told' = None /\ UNCHANGED <<active, closed, stage>>
    BY <1>5 DEF ExecuteClose, executor
  <2>2. stage \notin Running
    BY <1>2, <1>4, <1>5 DEF IInv, StageShape, LegRuns, LegEnded
  <2>3. OtherType'
    BY <1>1, <1>2, <2>1 DEF OtherType
  <2> QED
    BY <1>2, <1>3, <1>5, <2>1, <2>2, <2>3, LegOver
<1>6. CASE active # None
  <2>1. PICK quiescent \in BOOLEAN :
          /\ Finish("FAILED", quiescent)
          /\ told' = IF active.by = Cycle THEN Result(sink, quiescent) ELSE None
          /\ stage' = IF active.by = Cycle THEN "FAILED" ELSE stage
    BY <1>6 DEF ExecuteClose
  <2>2. active' = None /\ closed' \in Closed
    BY <1>1, <1>6, <2>1 DEF Finish, OtherType, Behavior, Closed, Outcome
  <2>3. stage' \notin Running
    BY <1>2, <1>4, <2>1, LegTable DEF IInv, StageShape, LegRuns, LegEnded
  <2>4. OtherType'
    BY <1>1, <1>2, <2>1, <2>2, ResultType DEF OtherType, Stage, Terminal
  <2> QED
    BY <1>2, <1>3, <2>1, <2>2, <2>3, <2>4, LegOver
<1> QED
  BY <1>5, <1>6

LEMMA ExecuteDropStep ==
    ASSUME IInv, NEW c \in Client, ExecuteDrop(c)
    PROVE  IInv'
<1>1. LockType /\ OtherType /\ LockOwnership
  BY DEF IInv, TypeOK, LockType, OtherType
<1>2. /\ pend[c] = [do |-> "drop"] /\ execLock = None
      /\ connected' = connected \ {c} /\ pend' = [pend EXCEPT ![c] = None]
      /\ told' = None
      /\ UNCHANGED <<coordLock, execLock, ready, spent, cycleId, stage, sink,
                     legAccepted, starter>>
  BY DEF ExecuteDrop, locks, coordinator
<1>3. /\ LockType' /\ LockOwnership'
      /\ coordLock # None => pend'[coordLock] = pend[coordLock]
  BY <1>1, <1>2, WaitWithoutLock
<1>4. CancelShape' /\ Calling("start")' = Calling("start") /\ FeedbackShape'
  BY <1>2, <1>3 DEF IInv, CancelShape, Calling, FeedbackShape
<1>5. CASE active # None /\ active.by = c
  <2>1. active' = None /\ closed' \in Closed
    BY <1>1, <1>5 DEF ExecuteDrop, Finish, OtherType, Behavior, Closed, Outcome
  <2>2. OtherType'
    BY <1>1, <1>2, <2>1 DEF OtherType
  <2>3. active.by # Cycle
    BY <1>5, ThreadsAssumption
  <2>4. StageShape' /\ FixedActionFollowsFollow'
    BY <1>2, <1>4, <1>5, <2>1, <2>3
       DEF IInv, StageShape, LegRuns, LegEnded, FixedActionFollowsFollow
  <2> QED
    BY <1>3, <1>4, <2>2, <2>4 DEF IInv, TypeOK, LockType, OtherType
<1>6. CASE ~(active # None /\ active.by = c)
  <2>1. UNCHANGED <<active, closed>>
    BY <1>6 DEF ExecuteDrop, executor
  <2>2. OtherType'
    BY <1>1, <1>2, <2>1 DEF OtherType
  <2>3. StageShape' /\ FixedActionFollowsFollow'
    BY <1>2, <1>4, <2>1
       DEF IInv, StageShape, LegRuns, LegEnded, FixedActionFollowsFollow
  <2> QED
    BY <1>3, <1>4, <2>2, <2>3 DEF IInv, TypeOK, LockType, OtherType
<1> QED
  BY <1>5, <1>6

LEMMA QuietSteps ==
    ASSUME IInv, GateChange \/ UNCHANGED vars \/ \E c \in Client : Connect(c)
    PROVE  IInv'
<1>1. /\ UNCHANGED <<pend, coordLock, execLock, active, closed, stage, cycleId>>
      /\ UNCHANGED <<spent, sink, legAccepted, starter>>
      /\ told' \in {told, None}
  BY DEF GateChange, Connect, vars, locks, executor, coordinator
<1>2. connected' \subseteq Client /\ ready' \in BOOLEAN
  BY DEF GateChange, Connect, vars, IInv, TypeOK
<1>3. OtherType'
  BY <1>1, <1>2 DEF IInv, TypeOK, OtherType
<1> QED
  BY <1>1, <1>3, NothingMoves

-----------------------------------------------------------------------------
(* IInv is inductive, and implies each safety property.                    *)

LEMMA NextPreservesIInv == IInv /\ [Next]_vars => IInv'
<1> SUFFICES ASSUME IInv, [Next]_vars PROVE IInv'
  OBVIOUS
<1>1. CASE ObserveActive
  BY <1>1, ObserveActiveStep
<1>2. CASE ObserveEnd \/ \E c \in Client : DirectCancel(c) \/ Watchdog(c)
  BY <1>2, ExecutorSteps
<1>3. ASSUME NEW t \in Thread, Proceed(t) PROVE IInv'
  <2>1. CASE Deliver(t)
    BY <2>1, DeliverStep
  <2>2. CASE t \in Client
    BY <1>3, <2>2, DeliverStep, ExecuteStartStep, ExecuteCancelStep, ExecuteCloseStep,
       ExecuteDropStep DEF Proceed
  <2>3. CASE t = Owner
    <3>1. pend[Owner] \in Emission \cup {None}
      BY DEF IInv, LockOwnership
    <3>2. \A call \in {"start", "cancel", "close", "drop"} : pend[Owner] # [do |-> call]
      BY <3>1, PendSorts, ThreadsAssumption
    <3> QED
      BY <1>3, <2>1, <2>3, <3>2
         DEF Proceed, ExecuteStart, ExecuteCancel, ExecuteClose, ExecuteDrop
  <2> QED
    BY <2>2, <2>3 DEF Thread
<1>4. ASSUME NEW c \in Client, Disconnect(c) \/ DirectStart(c) PROVE IInv'
  BY <1>4, DisconnectStep, DirectStartStep
<1>5. ASSUME NEW c \in Client, NEW id \in CycleId,
             StartCycle(c, id) \/ ProvideDumpTrajectory(c, id) \/ CancelCycle(c, id)
      PROVE  IInv'
  BY <1>5, StartCycleStep, ProvideStep, CancelCycleStep
<1>6. CASE GateChange \/ UNCHANGED vars \/ \E c \in Client : Connect(c)
  BY <1>6, QuietSteps
<1> QED
  BY <1>1, <1>2, <1>3, <1>4, <1>5, <1>6 DEF Next

LEMMA Inductive == Spec => []IInv
BY InitEstablishesIInv, NextPreservesIInv, PTL DEF Spec

\* Every variable keeps its type: each waiting call is one that its thread can make.
THEOREM CycleTypeCorrectness == Spec => []TypeOK
<1>1. IInv => TypeOK
  BY DEF IInv
<1> QED
  BY <1>1, Inductive, PTL

\* For any number of clients and cycles: whenever both locks are free the cycle's
\* stage is that of the leg which the executor runs (cycle.py:318-463,
\* remote.py:512-709).
THEOREM StageAlwaysMatchesExecutor == Spec => []StageMatchesExecutor
<1>1. IInv => StageMatchesExecutor
  BY DEF IInv, StageShape, Calling, LegRuns, LegEnded, StageMatchesExecutor
<1> QED
  BY <1>1, Inductive, PTL

\* A fixed action of the cycle runs only right after its own Follow has succeeded
\* at rest, whatever other clients do in between (cycle.py:66-123).
THEOREM FixedActionAlwaysFollowsFollow == Spec => []FixedActionFollowsFollow
<1>1. IInv => FixedActionFollowsFollow
  BY DEF IInv
<1> QED
  BY <1>1, Inductive, PTL

\* A client is told that a leg is complete only in the step that takes the result
\* of its fixed action, closed with a zero (README.md:331, cycle.py:413-451).
THEOREM LegResultAlwaysMeansZero == Spec => []LegResultMeansZero
<1>1. Init => LegResultMeansZero
  BY DEF Init, LegResultMeansZero
<1>2. ASSUME IInv, LegResultMeansZero, [Next]_vars PROVE LegResultMeansZero'
  <2>1. CASE told' = None
    BY <2>1 DEF LegResultMeansZero
  <2>2. CASE stage' \in {"FAILED", "CANCELLED"}
    BY <2>2 DEF LegResultMeansZero
  <2>3. CASE UNCHANGED vars
    BY <1>2, <2>3 DEF LegResultMeansZero, vars, executor, coordinator
  <2>4. ASSUME NEW t \in Thread, Proceed(t) PROVE LegResultMeansZero'
    <3>1. pend[Owner] \notin Call
      BY <1>2, PendSorts, ThreadsAssumption DEF IInv, LockOwnership
    <3>2. t \in Client \/ Deliver(t) \/ ExecuteDrop(t)
      BY <2>4, <3>1, PendSorts
         DEF Proceed, Thread, ExecuteStart, ExecuteCancel, ExecuteClose
    <3> QED
      BY <1>2, <2>1, <2>2, <2>4, <3>2, DeliverStep, ExecuteStartStep, ExecuteCancelStep,
         ExecuteCloseStep DEF Proceed, ExecuteDrop
  <2>5. CASE ObserveActive \/ ObserveEnd \/ GateChange
    BY <2>1, <2>5 DEF ObserveActive, ObserveEnd, GateChange, EndUnderExecLock
  <2>6. ASSUME NEW c \in Client,
               \/ Connect(c) \/ Disconnect(c) \/ DirectStart(c) \/ DirectCancel(c)
               \/ Watchdog(c)
        PROVE  LegResultMeansZero'
    BY <2>1, <2>6 DEF Connect, Disconnect, DirectStart, DirectCancel, Watchdog,
       EndUnderExecLock, CallExecutor
  <2>7. ASSUME NEW c \in Client, NEW id \in CycleId,
               StartCycle(c, id) \/ ProvideDumpTrajectory(c, id) \/ CancelCycle(c, id)
        PROVE  LegResultMeansZero'
    BY <2>1, <2>2, <2>7 DEF StartCycle, ProvideDumpTrajectory, CancelCycle, CallExecutor,
       Refuse
  <2> QED
    BY <1>2, <2>3, <2>4, <2>5, <2>6, <2>7 DEF Next
<1>3. QED
  BY <1>1, <1>2, Inductive, PTL DEF Spec

=============================================================================
