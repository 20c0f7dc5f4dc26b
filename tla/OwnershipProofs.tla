-------------------------- MODULE OwnershipProofs --------------------------
(***************************************************************************)
(* ResidentSink implements MotionOwnership, for all values of its          *)
(* constants, as long as the STM32 is never a whole sequence space behind. *)
(***************************************************************************)
EXTENDS ResidentSinkProofs

\* How many numbers x is behind n.
Gap(n, x) == (n - x) % SeqMod

\* The encoder counts the commands on the line: none was written without being sent.
Counting == status \in {"operational", "disarmed"}

\* The one thing about the line that sequence numbers cannot tell: a device that has
\* missed SeqMod commands in a row looks like one that has missed none.
NeverLapped ==
    Counting /\ dev.mode # None => dev.seq # nextSeq

\* The line holds the newest commands, in their order; the device is behind them all,
\* and an awaited zero is the newest command of all.
LineShape ==
    /\ Len(wire) <= WireCap
    /\ status = "new" => wire = <<>>
    /\ Counting =>
         /\ \A i \in 1 .. Len(wire) : Gap(nextSeq, wire[i].seq) = Len(wire) - i + 1
         /\ dev.mode # None => Gap(nextSeq, dev.seq) > Len(wire)
         /\ pendingAck # None => Gap(nextSeq, pendingAck.seq) = 1

\* Who owns motion has the machine and the line in its mode; a motion is in the mode
\* of everything that is ahead of it.
ModeShape ==
    /\ phase = "active" =>
         /\ dev.mode = ModeOf[active]
         /\ \A i \in 1 .. Len(wire) : wire[i].mode = ModeOf[active]
    /\ \A i \in 1 .. Len(wire) : wire[i].act = "motion" =>
         /\ dev.mode = wire[i].mode
         /\ \A j \in 1 .. i - 1 : wire[j].mode = wire[i].mode

LineInv == IInv /\ LineShape /\ ModeShape

-----------------------------------------------------------------------------
(* Sequence numbers.                                                       *)

LEMMA GapIs ==
    ASSUME NEW n \in Seqs, NEW x \in Seqs
    PROVE  Gap(n, x) = IF n >= x THEN n - x ELSE n - x + SeqMod
BY ConstantsAssumption DEF Gap, Seqs

LEMMA NextNumber ==
    ASSUME NEW n \in Seqs
    PROVE  (n + 1) % SeqMod = IF n + 1 = SeqMod THEN 0 ELSE n + 1
BY ConstantsAssumption DEF Seqs

LEMMA GapRange ==
    ASSUME NEW n \in Seqs, NEW x \in Seqs
    PROVE  Gap(n, x) \in Seqs
BY GapIs, ConstantsAssumption DEF Seqs

LEMMA NoLapNear ==
    ASSUME NEW n \in Seqs, NEW x \in Seqs, NEW next, next = (n + 1) % SeqMod,
           Gap(n, x) < SeqMod - 1
    PROVE  next # x
<1>1. next = IF n + 1 = SeqMod THEN 0 ELSE n + 1
  BY NextNumber
<1>2. Gap(n, x) = IF n >= x THEN n - x ELSE n - x + SeqMod
  BY GapIs
<1> QED
  BY <1>1, <1>2, ConstantsAssumption DEF Seqs

\* A number falls one behind with each command, until the sequence space is used up.
LEMMA GapGrows ==
    ASSUME NEW n \in Seqs, NEW x \in Seqs, NEW next, next = (n + 1) % SeqMod
    PROVE  /\ next \in Seqs
           /\ next # x => Gap(next, x) = Gap(n, x) + 1
           /\ Gap(next, n) = 1
BY GapIs, NextNumber, ConstantsAssumption DEF Seqs

-----------------------------------------------------------------------------
(* What a step leaves of the line.                                         *)

LEMMA LineFacts ==
    ASSUME LineInv
    PROVE  /\ IInv /\ TypeOK /\ AuthorityShape /\ LineShape /\ ModeShape
           /\ wire \in Seq(Command) /\ Len(wire) \in Nat /\ nextSeq \in Seqs
           /\ \A i \in 1 .. Len(wire) : wire[i] \in Command
BY DEF LineInv, IInv, TypeOK

\* A command pushes out the oldest one if the line is full.
LEMMA TransmitAppends ==
    ASSUME LineInv, NEW cmd \in Command
    PROVE  LET t == Transmit(cmd)
               k == Len(wire) + 1 - Len(t)
           IN  /\ t \in Seq(Command)
               /\ Len(t) \in 1 .. WireCap
               /\ k \in {0, 1} /\ (k = 0 => Len(wire) < WireCap)
               /\ t[Len(t)] = cmd
               /\ \A i \in 1 .. Len(t) - 1 : t[i] = wire[i + k] /\ i + k \in 1 .. Len(wire)
<1>1. wire \in Seq(Command) /\ Len(wire) \in Nat /\ Len(wire) <= WireCap
  BY LineFacts DEF LineShape, Counting
<1>2. CASE Len(wire) < WireCap
  <2>1. Transmit(cmd) = Append(wire, cmd)
    BY <1>2 DEF Transmit
  <2> QED
    BY <1>1, <1>2, <2>1, ConstantsAssumption
<1>3. CASE ~(Len(wire) < WireCap)
  <2>1. Transmit(cmd) = Append(Tail(wire), cmd) /\ Len(wire) = WireCap /\ wire # <<>>
    BY <1>1, <1>3, ConstantsAssumption DEF Transmit
  <2>2. Tail(wire) \in Seq(Command) /\ Len(Tail(wire)) = Len(wire) - 1
        /\ \A i \in 1 .. Len(wire) - 1 : Tail(wire)[i] = wire[i + 1]
    BY <1>1, <2>1
  <2> QED
    BY <1>1, <1>3, <2>1, <2>2, ConstantsAssumption
<1> QED
  BY <1>2, <1>3

\* Every write: of a zero, or of a motion by the owner of the mode that the machine
\* and everything on the line are in.
LEMMA WriteKeepsLine ==
    ASSUME LineInv, IInv', NeverLapped', status = "operational", NEW sent \in BOOLEAN,
           NEW mode \in Mode, NEW act \in Action, Write(mode, act, sent),
           status' \in {"operational", "disarmed", "faulted"},
           Counting' => sent,
           pendingAck' = None \/ (pendingAck' \in PendingAck /\ pendingAck'.seq = nextSeq),
           act = "motion" => phase = "active" /\ mode = ModeOf[active],
           phase' = "active" => phase = "active" /\ active' = active /\ mode = ModeOf[active],
           dev' = dev
    PROVE  LineShape' /\ ModeShape'
<1> DEFINE cmd == [seq |-> nextSeq, mode |-> mode, act |-> act]
           t == Transmit(cmd)
           k == Len(wire) + 1 - Len(t)
<1>1. cmd \in Command
  BY LineFacts DEF Command
<1>2. /\ t \in Seq(Command)
      /\ Len(t) \in 1 .. WireCap
      /\ k \in {0, 1} /\ (k = 0 => Len(wire) < WireCap)
      /\ t[Len(t)] = cmd
      /\ \A i \in 1 .. Len(t) - 1 : t[i] = wire[i + k] /\ i + k \in 1 .. Len(wire)
  BY <1>1, TransmitAppends
<1>3. /\ nextSeq' = (nextSeq + 1) % SeqMod
      /\ wire' \in {wire, t}
      /\ sent => wire' = t
  BY DEF Write
<1> HIDE DEF t
<1>4. WireCap \in Nat /\ SeqMod \in Nat /\ WireCap < SeqMod
  BY ConstantsAssumption
<1>5. nextSeq' \in Seqs
  BY <1>3, LineFacts, GapGrows
<1>6. LineShape'
  <2>1. Len(wire') <= WireCap
    BY <1>2, <1>3, LineFacts DEF LineShape, Counting
  <2>2. ASSUME Counting'
        PROVE  /\ wire' = t
               /\ \A i \in 1 .. Len(t) : Gap(nextSeq', t[i].seq) = Len(t) - i + 1
               /\ dev.mode # None => Gap(nextSeq', dev.seq) > Len(t)
               /\ pendingAck' # None => Gap(nextSeq', pendingAck'.seq) = 1
    <3>1. wire' = t
      BY <1>3, <2>2
    <3>2. Gap(nextSeq', nextSeq) = 1
      BY <1>3, LineFacts, GapGrows
    <3>3. ASSUME NEW i \in 1 .. Len(t) - 1
          PROVE  Gap(nextSeq', t[i].seq) = Len(t) - i + 1
      <4>1. t[i] = wire[i + k] /\ i + k \in 1 .. Len(wire) /\ wire[i + k].seq \in Seqs
        BY <1>2, LineFacts DEF Command
      <4>2. Gap(nextSeq, t[i].seq) = Len(wire) - (i + k) + 1
        BY <4>1, LineFacts DEF LineShape, Counting
      <4>3. Len(wire) - (i + k) + 1 = Len(t) - i
        BY <1>2, LineFacts
      <4>4. Len(t) - i < SeqMod - 1
        BY <1>2, <1>4
      <4>5. t[i].seq \in Seqs /\ nextSeq \in Seqs /\ Gap(nextSeq, t[i].seq) = Len(t) - i
        BY <4>1, <4>2, <4>3, LineFacts
      <4>6. nextSeq' # t[i].seq
        BY <1>3, <4>4, <4>5, NoLapNear
      <4>7. Gap(nextSeq', t[i].seq) = Gap(nextSeq, t[i].seq) + 1
        BY <1>3, <4>5, <4>6, GapGrows
      <4> QED
        BY <4>5, <4>7
    <3>4. ASSUME dev.mode # None
          PROVE  Gap(nextSeq', dev.seq) > Len(t)
      <4>1. dev.seq # nextSeq' /\ dev.seq \in Seqs
        BY <2>2, <3>4, LineFacts DEF NeverLapped, TypeOK, Device
      <4>2. Gap(nextSeq', dev.seq) = Gap(nextSeq, dev.seq) + 1
        BY <1>3, <4>1, LineFacts, GapGrows
      <4>3. Gap(nextSeq, dev.seq) > Len(wire)
        BY <3>4, LineFacts DEF LineShape, Counting
      <4>4. Gap(nextSeq, dev.seq) \in Int
        BY <1>4, <4>1, LineFacts, GapRange DEF Seqs
      <4>5. Len(t) <= Len(wire) + 1 /\ Len(wire) \in Nat /\ Len(t) \in Nat
        BY <1>2, <1>4, LineFacts
      <4> QED
        BY <4>2, <4>3, <4>4, <4>5
    <3>5. Gap(nextSeq', t[Len(t)].seq) = 1 /\ Len(t) \in Nat
      BY <1>2, <1>4, <3>2
    <3>6. \A i \in 1 .. Len(t) : Gap(nextSeq', t[i].seq) = Len(t) - i + 1
      BY <3>3, <3>5
    <3>7. pendingAck' # None => Gap(nextSeq', pendingAck'.seq) = 1
      BY <3>2
    <3> QED
      BY <3>1, <3>4, <3>6, <3>7
  <2>3. status' # "new"
    OBVIOUS
  <2>4. ASSUME Counting'
        PROVE  /\ \A i \in 1 .. Len(wire') : Gap(nextSeq', wire'[i].seq) = Len(wire') - i + 1
               /\ dev'.mode # None => Gap(nextSeq', dev'.seq) > Len(wire')
               /\ pendingAck' # None => Gap(nextSeq', pendingAck'.seq) = 1
    BY <2>2, <2>4
  <2> QED
    BY <2>1, <2>3, <2>4 DEF LineShape
<1>7. ASSUME NEW i \in 1 .. Len(t), phase = "active", i # Len(t)
      PROVE  t[i].mode = ModeOf[active]
  <2>1. i \in 1 .. Len(t) - 1
    BY <1>2, <1>4, <1>7
  <2>2. t[i] = wire[i + k] /\ i + k \in 1 .. Len(wire)
    BY <1>2, <2>1
  <2> QED
    BY <1>7, <2>2, LineFacts DEF ModeShape
<1>8. phase' = "active" =>
        /\ dev'.mode = ModeOf[active']
        /\ \A i \in 1 .. Len(wire') : wire'[i].mode = ModeOf[active']
  BY <1>2, <1>3, <1>7, LineFacts DEF ModeShape
<1>9. ASSUME NEW i \in 1 .. Len(t), t[i].act = "motion"
      PROVE  dev.mode = t[i].mode /\ \A j \in 1 .. i - 1 : t[j].mode = t[i].mode
  <2>1. CASE i = Len(t)
    <3>1. phase = "active" /\ t[i].mode = ModeOf[active]
      BY <1>2, <1>9, <2>1
    <3> QED
      BY <1>2, <1>7, <2>1, <3>1, LineFacts DEF ModeShape
  <2>2. CASE i # Len(t)
    <3>1. i \in 1 .. Len(t) - 1 /\ Len(t) \in Nat
      BY <1>2, <2>2
    <3>2. t[i] = wire[i + k] /\ i + k \in 1 .. Len(wire) /\ wire[i + k].act = "motion"
      BY <1>2, <1>9, <3>1
    <3>3. /\ dev.mode = wire[i + k].mode
          /\ \A j \in 1 .. (i + k) - 1 : wire[j].mode = wire[i + k].mode
      BY <3>2, LineFacts DEF ModeShape
    <3>4. ASSUME NEW j \in 1 .. i - 1
          PROVE  t[j].mode = t[i].mode
      <4>1. j \in 1 .. Len(t) - 1 /\ j + k \in 1 .. (i + k) - 1
        BY <1>2, <3>1
      <4> QED
        BY <1>2, <3>2, <3>3, <4>1
    <3> QED
      BY <3>2, <3>3, <3>4
  <2> QED
    BY <2>1, <2>2
<1>10. ModeShape'
  <2>1. CASE wire' = t
    BY <1>8, <1>9, <2>1 DEF ModeShape
  <2>2. CASE wire' = wire
    BY <1>8, <2>2, LineFacts DEF ModeShape
  <2> QED
    BY <1>3, <2>1, <2>2
<1> QED
  BY <1>6, <1>10

-----------------------------------------------------------------------------
(* What a step looks like to MotionOwnership.                              *)

OwnerNow == IF phase = "active" THEN active ELSE None
MachineNow == [mode |-> dev.mode, act |-> dev.act]

Refines == Ownership!Next \/ UNCHANGED <<OwnerNow, MachineNow>>

LineStep == LineShape' /\ ModeShape' /\ Refines

\* Ownership is kept or given up while the machine executes what it did.
LEMMA OwnerStaysOrLeaves ==
    ASSUME dev'.mode = dev.mode, dev'.act = dev.act,
           phase' = "active" => phase = "active" /\ active' = active
    PROVE  Refines
<1>1. MachineNow' = MachineNow
  BY DEF MachineNow
<1>2. CASE phase' = "active"
  BY <1>1, <1>2 DEF Refines, OwnerNow
<1>3. CASE phase' # "active"
  BY <1>1, <1>3 DEF Refines, OwnerNow, MachineNow, Ownership!Next, Ownership!Release
<1> QED
  BY <1>2, <1>3

\* Nothing is written, and nobody becomes the owner.
LEMMA QuietStep ==
    ASSUME LineInv, UNCHANGED <<output, dev>>, pendingAck' \in {pendingAck, None},
           Counting' => Counting,
           status' = "new" => status = "new",
           phase' = "active" => phase = "active" /\ active' = active
    PROVE  LineStep
<1>1. UNCHANGED <<nextSeq, wire, dev>>
  BY DEF output
<1>2. LineShape'
  BY <1>1, LineFacts DEF LineShape, Counting
<1>3. ModeShape'
  BY <1>1, LineFacts DEF ModeShape
<1> QED
  BY <1>1, <1>2, <1>3, OwnerStaysOrLeaves DEF LineStep

LEMMA WriteStep ==
    ASSUME LineInv, IInv', NeverLapped', status = "operational", NEW sent \in BOOLEAN,
           NEW mode \in Mode, NEW act \in Action, Write(mode, act, sent),
           status' \in {"operational", "disarmed", "faulted"},
           Counting' => sent,
           pendingAck' = None \/ (pendingAck' \in PendingAck /\ pendingAck'.seq = nextSeq),
           act = "motion" => phase = "active" /\ mode = ModeOf[active],
           phase' = "active" => phase = "active" /\ active' = active /\ mode = ModeOf[active],
           dev' = dev
    PROVE  LineStep
BY WriteKeepsLine, OwnerStaysOrLeaves DEF LineStep

\* The zero of a phase that nobody owns.
LEMMA IssueStep ==
    ASSUME LineInv, IInv', NeverLapped', status = "operational", NEW sent \in BOOLEAN,
           IssuePendingZero(sent), phase' # "active", dev' = dev
    PROVE  LineStep
<1>1. CASE phase' \in ZeroPending
  <2>1. ZeroMode' \in Mode
    BY <1>1, ConstantsAssumption DEF IInv, TypeOK, AuthorityShape, ZeroMode, ZeroPending
  <2>2. /\ Write(ZeroMode', "zero", sent)
        /\ pendingAck' = IF sent
              THEN [gen |-> gen', mode |-> ZeroMode', purpose |-> phase', seq |-> nextSeq]
              ELSE None
        /\ status' = IF sent THEN "operational" ELSE "faulted"
    BY <1>1 DEF IssuePendingZero, StatusAfter
  <2>3. pendingAck' = None \/ (pendingAck' \in PendingAck /\ pendingAck'.seq = nextSeq)
    <3>1. pendingAck' \in PendingAck \cup {None}
      BY DEF IInv, TypeOK
    <3> QED
      BY <2>2, <3>1
  <2> QED
    BY <2>1, <2>2, <2>3, WriteStep DEF Action, Counting
<1>2. CASE phase' \notin ZeroPending
  <2>1. pendingAck' = None /\ UNCHANGED <<output, status>>
    BY <1>2 DEF IssuePendingZero
  <2> QED
    BY <2>1, QuietStep DEF Counting
<1> QED
  BY <1>1, <1>2

-----------------------------------------------------------------------------
(* The steps.                                                              *)

LEMMA StopLineStep ==
    ASSUME LineInv, IInv', NeverLapped', status = "operational", NEW sent \in BOOLEAN,
           Stop(sent), dev' = dev
    PROVE  LineStep
<1>1. IssuePendingZero(sent) /\ phase' # "active"
  BY DEF Stop, StopAuthority
<1> QED
  BY <1>1, IssueStep

LEMMA RequestLineSteps ==
    ASSUME LineInv, NeverLapped', NEW sent \in BOOLEAN,
           \/ \E s \in Source : RequestHandoff(s, sent)
           \/ \E s \in Source, g \in Nat : RequestSourceStop(s, g, sent)
           \/ RequestStop(sent)
    PROVE  LineStep
<1>1. CASE \E s \in Source : RequestHandoff(s, sent)
  <2>1. PICK s \in Source : RequestHandoff(s, sent)
    BY <1>1
  <2>2. IInv'
    BY <2>1, LineFacts, RequestHandoffStep
  <2>3. status = "operational" /\ IssuePendingZero(sent) /\ phase' # "active" /\ dev' = dev
    BY <2>1 DEF RequestHandoff, RequestHandoffOf, environment
  <2> QED
    BY <2>2, <2>3, IssueStep
<1>2. CASE \E s \in Source, g \in Nat : RequestSourceStop(s, g, sent)
  <2>1. PICK s \in Source, g \in Nat : RequestSourceStop(s, g, sent)
    BY <1>2
  <2>2. IInv'
    BY <2>1, LineFacts, RequestSourceStopStep
  <2>3. status = "operational" /\ Stop(sent) /\ dev' = dev
    BY <2>1 DEF RequestSourceStop, environment
  <2> QED
    BY <2>2, <2>3, StopLineStep
<1>3. CASE RequestStop(sent)
  <2>1. IInv'
    BY <1>3, LineFacts, RequestStopStep
  <2>2. status = "operational" /\ Stop(sent) /\ dev' = dev
    BY <1>3 DEF RequestStop, environment
  <2> QED
    BY <2>1, <2>2, StopLineStep
<1> QED
  BY <1>1, <1>2, <1>3

\* initialize starts one behind the device, on an empty line.
LEMMA InitializeLineStep ==
    ASSUME LineInv, Initialize
    PROVE  LineStep
<1>1. /\ status = "new" /\ wire = <<>> /\ wire' = wire /\ dev' = dev
      /\ pendingAck' = None /\ phase' = phase /\ phase = "idle"
      /\ nextSeq' = IF dev.mode = None THEN 0 ELSE (dev.seq + 1) % SeqMod
      /\ status' = "operational"
  BY LineFacts DEF Initialize, LineShape, Counting, StartShape, IInv, authority, handoff, environment
<1>2. dev.seq \in Seqs
  BY LineFacts DEF TypeOK, Device
<1>3. dev.mode # None => Gap(nextSeq', dev.seq) = 1
  BY <1>1, <1>2, GapGrows
<1>4. Len(wire) = 0
  BY <1>1
<1>5. LineShape' /\ ModeShape'
  BY <1>1, <1>3, <1>4, ConstantsAssumption DEF LineShape, Counting, ModeShape
<1> QED
  BY <1>1, <1>5, OwnerStaysOrLeaves DEF LineStep

\* The echo of the newest command comes from a device that everything has reached.
LEMMA EchoEmptiesLine ==
    ASSUME LineInv, status = "operational", dev.mode # None, pendingAck # None,
           dev.seq = pendingAck.seq
    PROVE  wire = <<>>
<1>1. Gap(nextSeq, dev.seq) > Len(wire) /\ Gap(nextSeq, pendingAck.seq) = 1
  BY LineFacts DEF LineShape, Counting
<1>2. Len(wire) = 0
  BY <1>1, LineFacts
<1> QED
  BY <1>2, LineFacts

\* An owner is made on the echo of its own zero, from the device as it is now.
LEMMA AcknowledgeLineStep ==
    ASSUME LineInv, IInv', NeverLapped', status = "operational", NEW sent \in BOOLEAN,
           NEW f, ObserveZeroAck(f, sent), dev' = dev,
           f.ok => f = Sample
    PROVE  LineStep
<1>1. /\ AckMatches(f) /\ AcknowledgeZero /\ IssuePendingZero(sent)
      /\ PendingAckAgrees /\ pendingAck # None /\ phase \in ZeroPending
  BY LineFacts DEF ObserveZeroAck, AckMatches, IInv, PendingAckAgrees
<1>2. CASE phase = "terminal_zero_pending"
  <2>1. phase' # "active"
    BY <1>1, <1>2 DEF AcknowledgeZero
  <2> QED
    BY <1>1, <2>1, IssueStep
<1>3. CASE phase = "target_zero_pending"
  <2>1. /\ phase' = "active" /\ active' = target /\ active = None
        /\ target \in Source /\ target # None
    BY <1>1, <1>3, LineFacts DEF AcknowledgeZero, TypeOK, AuthorityShape
  <2>2. /\ pendingAck.purpose = "target_zero_pending" /\ pendingAck.mode = ModeOf[target]
        /\ ModeOf[target] \in Mode /\ ModeOf[target] # None
    BY <1>1, <1>3, <2>1, ConstantsAssumption DEF PendingAckAgrees, ZeroMode
  <2>3. f = Sample /\ f.seq = pendingAck.seq /\ f.mode = pendingAck.mode /\ f.act = "zero"
    BY <1>1, <2>2 DEF AckMatches, Safe
  <2>4. dev.seq = pendingAck.seq /\ dev.mode = ModeOf[target] /\ dev.act = "zero"
    BY <2>2, <2>3 DEF Sample
  <2>5. wire = <<>>
    BY <1>1, <2>2, <2>4, EchoEmptiesLine
  <2>6. pendingAck' = None /\ UNCHANGED <<nextSeq, wire, status>>
    BY <1>1, <2>1 DEF IssuePendingZero, output, ZeroPending
  <2>7. LineShape'
    BY <2>6, LineFacts DEF LineShape, Counting
  <2>8. ModeShape'
    BY <2>1, <2>4, <2>5, <2>6 DEF ModeShape
  <2>9. OwnerNow = None /\ OwnerNow' = target
    BY <1>3, <2>1 DEF OwnerNow
  <2>10. MachineNow = [mode |-> ModeOf[target], act |-> "zero"] /\ MachineNow' = MachineNow
    BY <2>4 DEF MachineNow
  <2>11. Ownership!Claim(target)
    BY <2>9, <2>10 DEF Ownership!Claim, OwnerNow, MachineNow
  <2>12. Refines
    BY <2>1, <2>11 DEF Refines, Ownership!Next
  <2> QED
    BY <2>7, <2>8, <2>12 DEF LineStep
<1> QED
  BY <1>1, <1>2, <1>3 DEF ZeroPending

LEMMA ObserveLineSteps ==
    ASSUME LineInv, NeverLapped', NEW sent \in BOOLEAN,
           ObserveTelemetry(sent) \/ InvalidateTelemetry(sent)
    PROVE  LineStep
<1>1. IInv'
  BY LineFacts, ObserveSteps
<1>2. PICK f : ObserveFrame(f, sent) /\ (f = Sample \/ f = [frame EXCEPT !.ok = FALSE])
  BY DEF ObserveTelemetry, InvalidateTelemetry
<1>3. dev' = dev /\ status # "new"
  BY <1>2 DEF ObserveFrame, environment
<1>4. f.ok => f = Sample
  <2>1. frame \in Frame
    BY <1>3, LineFacts DEF IInv, TypeOK, StartShape
  <2> QED
    BY <1>2, <2>1 DEF Frame
<1>5. CASE status # "operational"
  <2>1. UNCHANGED <<authority, handoff, output, status>>
    BY <1>2, <1>5 DEF ObserveFrame
  <2> QED
    BY <1>3, <2>1, QuietStep DEF authority, handoff, Counting
<1>6. CASE status = "operational" /\ ObserveZeroAck(f, sent)
  BY <1>1, <1>3, <1>4, <1>6, AcknowledgeLineStep
<1>7. CASE status = "operational" /\ ObserveOther(f, sent)
  <2>1. CASE Stop(sent)
    BY <1>1, <1>3, <1>7, <2>1, StopLineStep
  <2>2. CASE UNCHANGED <<authority, pendingAck, lease, output, status>>
    BY <1>3, <2>2, QuietStep DEF authority, Counting
  <2> QED
    BY <1>7, <2>1, <2>2 DEF ObserveOther
<1> QED
  BY <1>2, <1>5, <1>6, <1>7 DEF ObserveFrame

\* A motion is written for the owner, in whose mode the line and the machine are.
LEMMA SubmitLineStep ==
    ASSUME LineInv, NeverLapped', NEW c \in CandidateOf(Nat), NEW late \in BOOLEAN,
           NEW sent \in BOOLEAN, SubmitCandidate(c, late, sent)
    PROVE  LineStep
<1>1. IInv'
  BY LineFacts, SubmitStep
<1> DEFINE reason == Route(c, ~late /\ SafetyPermits)
<1>2. status = "operational" /\ dev' = dev
  BY DEF SubmitCandidate, environment
<1>3. CASE UNCHANGED <<authority, handoff, lease, unsafeLatched, output, status>>
  BY <1>2, <1>3, QuietStep DEF authority, handoff, Counting
<1>4. CASE Stop(sent)
  BY <1>1, <1>2, <1>4, StopLineStep
<1>5. CASE pendingAck = None /\ DecisionMode # None /\ WriteDecision(c, reason = "accepted", sent)
  <2> DEFINE act == IF reason = "accepted" THEN c.act ELSE "zero"
  <2>1. /\ Write(DecisionMode, act, sent)
        /\ status' = IF sent THEN "operational" ELSE "faulted"
        /\ UNCHANGED <<phase, active, pendingAck>>
    BY <1>2, <1>5 DEF WriteDecision, StatusAfter, authority
  <2>2. DecisionMode \in Mode
    BY <1>5, LineFacts, DecisionModeType
  <2>3. reason = "accepted" => phase = "active" /\ c.act \in Action
    BY LineFacts, AcceptedMeans DEF SafetyPermits
  <2>4. phase = "active" => DecisionMode = ModeOf[active]
    BY <1>5 DEF DecisionMode, ZeroPending
  <2>5. act \in Action /\ (act = "motion" => phase = "active" /\ DecisionMode = ModeOf[active])
    BY <2>3, <2>4 DEF Action
  <2> HIDE DEF act
  <2> QED
    BY <1>1, <1>2, <1>5, <2>1, <2>2, <2>4, <2>5, WriteStep DEF Counting
<1> QED
  BY <1>3, <1>4, <1>5 DEF SubmitCandidate

LEMMA TickLineStep ==
    ASSUME LineInv, NeverLapped', NEW sent \in BOOLEAN, Tick(sent)
    PROVE  LineStep
<1>1. IInv' /\ status = "operational" /\ dev' = dev
  BY LineFacts, TickStep DEF Tick, environment
<1>2. CASE TickExpireLease(sent) \/ TickWatchdog(sent)
  BY <1>1, <1>2, StopLineStep DEF TickExpireLease, TickWatchdog
<1>3. CASE TickKeepalive(sent)
  <2>1. /\ active # None /\ pendingAck = None /\ Write(ModeOf[active], "zero", sent)
        /\ status' = IF sent THEN "operational" ELSE "faulted"
        /\ UNCHANGED <<phase, active, pendingAck>>
    BY <1>1, <1>3 DEF TickKeepalive, StatusAfter, authority
  <2>2. ModeOf[active] \in Mode
    BY <2>1, LineFacts, ConstantsAssumption DEF TypeOK
  <2> QED
    BY <1>1, <2>1, <2>2, WriteStep DEF Action, Counting
<1>4. CASE TickQuiet
  BY <1>1, <1>4, QuietStep DEF TickQuiet, authority, handoff, Counting
<1> QED
  BY <1>2, <1>3, <1>4 DEF Tick

LEMMA DisarmLineStep ==
    ASSUME LineInv, NeverLapped', NEW sent \in BOOLEAN, TerminalDisarm(sent)
    PROVE  LineStep
<1>1. IInv'
  BY LineFacts, TerminalDisarmStep
<1> DEFINE mode == IF active # None THEN ModeOf[active]
                   ELSE IF pendingAck # None THEN pendingAck.mode ELSE None
<1>2. /\ status = "operational"
      /\ status' = (IF mode = None \/ sent THEN "disarmed" ELSE "faulted")
      /\ phase' # "active" /\ pendingAck' = None /\ dev' = dev
      /\ IF mode = None THEN UNCHANGED output ELSE Write(mode, "zero", sent)
  BY DEF TerminalDisarm, StopAuthority, environment
<1>3. CASE mode = None
  BY <1>2, <1>3, QuietStep DEF Counting
<1>4. CASE mode # None
  <2>1. mode \in Mode
    BY <1>4, LineFacts, ConstantsAssumption DEF TypeOK, PendingAck
  <2> HIDE DEF mode
  <2> QED
    BY <1>1, <1>2, <1>4, <2>1, WriteStep DEF Action, Counting
<1> QED
  BY <1>3, <1>4

LEMMA IdleLineSteps ==
    ASSUME LineInv, Clock \/ DeviceTimeout \/ HealthChange
    PROVE  LineStep
<1>1. CASE Clock \/ HealthChange
  <2>1. UNCHANGED <<phase, active, pendingAck, status, nextSeq, wire, dev>>
    BY <1>1 DEF Clock, HealthChange, authority, handoff, sinkVars, output, environment
  <2>2. LineShape' /\ ModeShape'
    BY <2>1, LineFacts DEF LineShape, Counting, ModeShape
  <2> QED
    BY <2>1, <2>2, OwnerStaysOrLeaves DEF LineStep
<1>2. CASE DeviceTimeout
  <2>1. /\ UNCHANGED <<phase, active, pendingAck, status, nextSeq, wire>>
        /\ dev' = [dev EXCEPT !.live = FALSE]
    BY <1>2 DEF DeviceTimeout, authority, handoff, sinkVars, output
  <2>2. dev'.seq = dev.seq /\ dev'.mode = dev.mode /\ dev'.act = dev.act
    BY <2>1, LineFacts DEF TypeOK, Device
  <2>3. LineShape' /\ ModeShape'
    BY <2>1, <2>2, LineFacts DEF LineShape, Counting, ModeShape
  <2> QED
    BY <2>1, <2>2, <2>3, OwnerStaysOrLeaves DEF LineStep
<1> QED
  BY <1>1, <1>2

\* The oldest command leaves the line: it is lost, or the device takes it.
LEMMA HeadLeaves ==
    ASSUME LineInv, wire # <<>>
    PROVE  /\ Len(Tail(wire)) = Len(wire) - 1 /\ Len(wire) >= 1
           /\ Head(wire) = wire[1] /\ wire[1] \in Command
           /\ \A i \in 1 .. Len(wire) - 1 : Tail(wire)[i] = wire[i + 1]
<1>1. wire \in Seq(Command)
  BY LineFacts
<1>2. Len(wire) >= 1
  BY <1>1
<1> QED
  BY <1>1, <1>2, LineFacts

LEMMA LoseLineStep ==
    ASSUME LineInv, LoseCommand
    PROVE  LineStep
<1>1. /\ UNCHANGED <<phase, active, pendingAck, status, nextSeq, dev>>
      /\ wire # <<>> /\ wire' = Tail(wire)
  BY DEF LoseCommand, authority, handoff, sinkVars, environment
<1>2. /\ Len(wire') = Len(wire) - 1 /\ Len(wire) >= 1 /\ Len(wire) \in Nat
      /\ \A i \in 1 .. Len(wire') : wire'[i] = wire[i + 1] /\ i + 1 \in 1 .. Len(wire)
  BY <1>1, HeadLeaves, LineFacts
<1>3. LineShape'
  <2>1. Len(wire') <= WireCap
    BY <1>2, LineFacts, ConstantsAssumption DEF LineShape, Counting
  <2>2. ASSUME Counting
        PROVE  /\ \A i \in 1 .. Len(wire') : Gap(nextSeq, wire'[i].seq) = Len(wire') - i + 1
               /\ dev.mode # None => Gap(nextSeq, dev.seq) > Len(wire')
               /\ pendingAck # None => Gap(nextSeq, pendingAck.seq) = 1
    <3>1. ASSUME NEW i \in 1 .. Len(wire')
          PROVE  Gap(nextSeq, wire'[i].seq) = Len(wire') - i + 1
      <4>1. Gap(nextSeq, wire[i + 1].seq) = Len(wire) - (i + 1) + 1
        BY <1>2, <2>2, LineFacts DEF LineShape, Counting
      <4> QED
        BY <1>2, <4>1
    <3>2. ASSUME dev.mode # None
          PROVE  Gap(nextSeq, dev.seq) > Len(wire')
      <4>1. Gap(nextSeq, dev.seq) > Len(wire)
        BY <2>2, <3>2, LineFacts DEF LineShape, Counting
      <4>2. Gap(nextSeq, dev.seq) \in Int
        BY LineFacts, GapRange, ConstantsAssumption DEF TypeOK, Device, Seqs
      <4> QED
        BY <1>2, <4>1, <4>2
    <3> QED
      BY <2>2, <3>1, <3>2, LineFacts DEF LineShape, Counting
  <2> QED
    BY <1>1, <2>1, <2>2, LineFacts DEF LineShape, Counting
<1>4. ModeShape'
  <2>1. phase = "active" => dev.mode = ModeOf[active]
                            /\ \A i \in 1 .. Len(wire') : wire'[i].mode = ModeOf[active]
    BY <1>2, LineFacts DEF ModeShape
  <2>2. ASSUME NEW i \in 1 .. Len(wire'), wire'[i].act = "motion"
        PROVE  dev.mode = wire'[i].mode /\ \A j \in 1 .. i - 1 : wire'[j].mode = wire'[i].mode
    <3>1. /\ dev.mode = wire[i + 1].mode
          /\ \A j \in 1 .. (i + 1) - 1 : wire[j].mode = wire[i + 1].mode
      BY <1>2, <2>2, LineFacts DEF ModeShape
    <3>2. ASSUME NEW j \in 1 .. i - 1
          PROVE  wire'[j].mode = wire'[i].mode
      <4>1. j \in 1 .. Len(wire') /\ j + 1 \in 1 .. (i + 1) - 1
        BY <1>2
      <4> QED
        BY <1>2, <3>1, <4>1
    <3> QED
      BY <1>2, <3>1, <3>2
  <2> QED
    BY <1>1, <2>1, <2>2 DEF ModeShape
<1> QED
  BY <1>1, <1>3, <1>4, OwnerStaysOrLeaves DEF LineStep

LEMMA DeliverLineStep ==
    ASSUME LineInv, DeliverCommand
    PROVE  LineStep
<1> DEFINE cmd == wire[1]
<1>1. /\ UNCHANGED <<phase, active, pendingAck, status, nextSeq>>
      /\ wire # <<>> /\ wire' = Tail(wire)
      /\ dev' = [seq |-> cmd.seq, mode |-> cmd.mode, act |-> cmd.act, live |-> TRUE]
  BY HeadLeaves DEF DeliverCommand, authority, handoff, sinkVars
<1>2. /\ Len(wire') = Len(wire) - 1 /\ Len(wire) >= 1 /\ Len(wire) \in Nat
      /\ cmd \in Command /\ 1 \in 1 .. Len(wire)
      /\ \A i \in 1 .. Len(wire') : wire'[i] = wire[i + 1] /\ i + 1 \in 1 .. Len(wire)
  BY <1>1, HeadLeaves, LineFacts
<1>3. dev'.seq = cmd.seq /\ dev'.mode = cmd.mode /\ dev'.act = cmd.act
  BY <1>1
<1>4. LineShape'
  <2>1. Len(wire') <= WireCap
    BY <1>2, LineFacts, ConstantsAssumption DEF LineShape, Counting
  <2>2. ASSUME Counting
        PROVE  /\ \A i \in 1 .. Len(wire') : Gap(nextSeq, wire'[i].seq) = Len(wire') - i + 1
               /\ Gap(nextSeq, cmd.seq) > Len(wire')
               /\ pendingAck # None => Gap(nextSeq, pendingAck.seq) = 1
    <3>1. ASSUME NEW i \in 1 .. Len(wire')
          PROVE  Gap(nextSeq, wire'[i].seq) = Len(wire') - i + 1
      <4>1. Gap(nextSeq, wire[i + 1].seq) = Len(wire) - (i + 1) + 1
        BY <1>2, <2>2, LineFacts DEF LineShape, Counting
      <4> QED
        BY <1>2, <4>1
    <3>2. Gap(nextSeq, cmd.seq) = Len(wire) - 1 + 1
      BY <1>2, <2>2, LineFacts DEF LineShape, Counting
    <3> QED
      BY <1>2, <2>2, <3>1, <3>2, LineFacts DEF LineShape, Counting
  <2> QED
    BY <1>1, <1>3, <2>1, <2>2, LineFacts DEF LineShape, Counting
<1>5. phase = "active" => cmd.mode = ModeOf[active]
                          /\ \A i \in 1 .. Len(wire') : wire'[i].mode = ModeOf[active]
  BY <1>2, LineFacts DEF ModeShape
<1>6. ASSUME NEW i \in 1 .. Len(wire'), wire'[i].act = "motion"
      PROVE  cmd.mode = wire'[i].mode /\ \A j \in 1 .. i - 1 : wire'[j].mode = wire'[i].mode
  <2>1. \A j \in 1 .. (i + 1) - 1 : wire[j].mode = wire[i + 1].mode
    BY <1>2, <1>6, LineFacts DEF ModeShape
  <2>2. ASSUME NEW j \in 1 .. i - 1
        PROVE  wire'[j].mode = wire'[i].mode
    <3>1. j \in 1 .. Len(wire') /\ j + 1 \in 1 .. (i + 1) - 1
      BY <1>2
    <3> QED
      BY <1>2, <2>1, <3>1
  <2>3. 1 \in 1 .. (i + 1) - 1
    BY <1>2
  <2> QED
    BY <1>2, <2>1, <2>2, <2>3
<1>7. ModeShape'
  BY <1>1, <1>3, <1>5, <1>6 DEF ModeShape
<1>8. Refines
  <2>1. cmd.act = "zero" \/ cmd.mode = dev.mode
    BY <1>2, LineFacts DEF ModeShape, Command, Action
  <2>2. MachineNow' = [mode |-> cmd.mode, act |-> cmd.act] /\ OwnerNow' = OwnerNow
    BY <1>1, <1>3 DEF MachineNow, OwnerNow
  <2>3. MachineNow' \in Ownership!Machine
    BY <1>2, <2>2 DEF Ownership!Machine, Command, Action
  <2>4. OwnerNow # None => cmd.mode = ModeOf[OwnerNow]
    BY <1>5 DEF OwnerNow
  <2>5. MachineNow'.mode = cmd.mode /\ MachineNow'.act = cmd.act /\ MachineNow.mode = dev.mode
    BY <2>2 DEF MachineNow
  <2>6. Ownership!Execute
    BY <2>1, <2>2, <2>3, <2>4, <2>5 DEF Ownership!Execute, MachineNow, OwnerNow
  <2> QED
    BY <2>6 DEF Refines, Ownership!Next
<1> QED
  BY <1>4, <1>7, <1>8 DEF LineStep

-----------------------------------------------------------------------------
(* The refinement.                                                         *)

LEMMA InitEstablishesLineInv == Init => LineInv /\ Ownership!Init
<1> SUFFICES ASSUME Init
             PROVE  LineInv /\ Ownership!Init
  OBVIOUS
<1>1. wire = <<>> /\ Len(wire) = 0 /\ status = "new" /\ phase = "idle" /\ dev \in Device
  BY DEF Init
<1>2. LineInv
  BY <1>1, InitEstablishesIInv, ConstantsAssumption DEF LineInv, LineShape, Counting, ModeShape
<1>3. [mode |-> dev.mode, act |-> dev.act] \in Ownership!Machine
  BY <1>1 DEF Device, Ownership!Machine, Action
<1> QED
  BY <1>1, <1>2, <1>3 DEF Ownership!Init

\* A call of the sink, whoever makes it.
SinkCall(sent) ==
    \/ \E s \in Source : RequestHandoff(s, sent)
    \/ \E s \in Source, g \in Nat : RequestSourceStop(s, g, sent)
    \/ RequestStop(sent)
    \/ ObserveTelemetry(sent) \/ InvalidateTelemetry(sent)
    \/ Tick(sent) \/ TerminalDisarm(sent)
    \/ \E c \in CandidateOf(Nat), late \in BOOLEAN : SubmitCandidate(c, late, sent)

\* What can happen to the sink, in whatever it is part of.
SinkStep ==
    \/ \E sent \in BOOLEAN : SinkCall(sent)
    \/ Initialize
    \/ Clock \/ DeliverCommand \/ LoseCommand \/ DeviceTimeout \/ HealthChange
    \/ UNCHANGED <<authority, handoff, status, evidence, output, environment>>

LEMMA SinkStepKeepsLineInv ==
    ASSUME LineInv, IInv', NeverLapped', SinkStep
    PROVE  LineInv' /\ Refines
<1>1. CASE \E sent \in BOOLEAN : SinkCall(sent)
  <2>1. PICK sent \in BOOLEAN : SinkCall(sent)
    BY <1>1
  <2>2. CASE \/ \E s \in Source : RequestHandoff(s, sent)
             \/ \E s \in Source, g \in Nat : RequestSourceStop(s, g, sent)
             \/ RequestStop(sent)
    BY <2>2, RequestLineSteps DEF LineInv, LineStep
  <2>3. CASE ObserveTelemetry(sent) \/ InvalidateTelemetry(sent)
    BY <2>3, ObserveLineSteps DEF LineInv, LineStep
  <2>4. CASE Tick(sent)
    BY <2>4, TickLineStep DEF LineInv, LineStep
  <2>5. CASE TerminalDisarm(sent)
    BY <2>5, DisarmLineStep DEF LineInv, LineStep
  <2>6. CASE \E c \in CandidateOf(Nat), late \in BOOLEAN : SubmitCandidate(c, late, sent)
    BY <2>6, SubmitLineStep DEF LineInv, LineStep
  <2> QED
    BY <2>1, <2>2, <2>3, <2>4, <2>5, <2>6 DEF SinkCall
<1>2. CASE Initialize
  BY <1>2, InitializeLineStep DEF LineInv, LineStep
<1>3. CASE Clock \/ DeviceTimeout \/ HealthChange
  BY <1>3, IdleLineSteps DEF LineInv, LineStep
<1>4. CASE DeliverCommand
  BY <1>4, DeliverLineStep DEF LineInv, LineStep
<1>5. CASE LoseCommand
  BY <1>5, LoseLineStep DEF LineInv, LineStep
<1>6. CASE UNCHANGED <<authority, handoff, status, evidence, output, environment>>
  BY <1>6, QuietStep DEF LineInv, LineStep, authority, handoff, environment, Counting
<1> QED
  BY <1>1, <1>2, <1>3, <1>4, <1>5, <1>6 DEF SinkStep

LEMMA NextIsSinkStep ==
    ASSUME LineInv, [Next]_vars
    PROVE  SinkStep
<1>1. Sent \subseteq BOOLEAN /\ Generations \subseteq Nat
  BY SentType, LineFacts DEF Generations, TypeOK
<1>2. CandidateOf(Generations) \subseteq CandidateOf(Nat)
  BY <1>1 DEF CandidateOf
<1>3. CASE Request
  BY <1>1, <1>3 DEF Request, SinkStep, SinkCall
<1>4. CASE Submit
  BY <1>1, <1>2, <1>4 DEF Submit, SinkStep, SinkCall
<1>5. CASE Observe \/ Invalidate \/ OwnerTick \/ Disarm
  BY <1>1, <1>5 DEF Observe, Invalidate, OwnerTick, Disarm, SinkStep, SinkCall
<1>6. CASE UNCHANGED vars
  BY <1>6 DEF vars, SinkStep
<1> QED
  BY <1>3, <1>4, <1>5, <1>6 DEF Next, Internal, SinkStep

LEMMA NextKeepsLineInv ==
    LineInv /\ NeverLapped' /\ [Next]_vars => LineInv' /\ Refines
<1> SUFFICES ASSUME LineInv, NeverLapped', [Next]_vars
             PROVE  LineInv' /\ Refines
  OBVIOUS
<1> QED
  BY LineFacts, NextPreservesIInv, NextIsSinkStep, SinkStepKeepsLineInv

\* On a line whose device is never exactly SeqMod (2^32) commands behind, every owner
\* is made on a machine that holds a zero in that owner's mode, and the machine enters
\* a mode only at a zero (request_handoff, observe_telemetry, _ack_matches_locked),
\* whatever the line loses or delays and however the sequence numbers wrap.
THEOREM SinkImplementsOwnership == Spec /\ []NeverLapped => ImplementsOwnership
<1>1. Init => LineInv /\ Ownership!Init
  BY InitEstablishesLineInv
<1>2. LineInv /\ NeverLapped' /\ [Next]_vars => LineInv'
  BY NextKeepsLineInv
<1>3. LineInv /\ NeverLapped' /\ [Next]_vars =>
        [Ownership!Next]_<<IF phase = "active" THEN active ELSE None,
                           [mode |-> dev.mode, act |-> dev.act]>>
  BY NextKeepsLineInv DEF Refines, OwnerNow, MachineNow
<1> QED
  BY <1>1, <1>2, <1>3, PTL DEF Spec, ImplementsOwnership, Ownership!Spec

=============================================================================
