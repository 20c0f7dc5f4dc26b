-------------------------- MODULE FixedCycleProofs --------------------------
(***************************************************************************)
(* Proofs of the safety properties of FixedCycle for every plan and every  *)
(* number of cycles, from one inductive invariant, IInv.                   *)
(***************************************************************************)
EXTENDS FixedCycle, SequenceTheorems, TLAPS

\* A mission under way is at the dig point of its round, and has rounds left unless
\* it follows back to the last dig point.
CycleShape ==
    cycle.stage \in Active =>
      /\ session \in RunId
      /\ cycle.group \in Group /\ cycle.requested # 0
      /\ cycle.point = PointOf(cycle.completed)
      /\ cycle.stage # "FOLLOW_DIG" => cycle.completed < cycle.requested
      /\ profile = "act_full_cycle" => cycle.stage \in {"FOLLOW_DIG", "ACT"}

\* A core that is not operational claims nothing, and never becomes operational
\* again: what has ended cannot be followed by another mission.
MotionShape ==
    /\ claim # None => live
    /\ cycle.stage \in Terminal \/ latch => ~live
    /\ latch => cycle.stage \notin Active
    /\ "act" \in {auth, claim} => cycle.stage = "ACT" /\ ~seg.done

\* What runs or waits is the child that the stage calls for; its result, on its way
\* to the runtime, finds nothing else that runs or waits.
ChildShape ==
    /\ cycle.stage = "IDLE" => running = None /\ pending = None /\ event = None
    /\ cycle.stage \in Active =>
         /\ running \in {None, Due(cycle)} /\ pending \in {None, Due(cycle)}
         /\ running # None => pending = None
         /\ cycle.stage = "ACT" => running = None /\ pending = None /\ event = None
         /\ event # None /\ event.do = "result" =>
              running = None /\ pending = None /\ event.child = Due(cycle)

\* A start that is about to dispatch has just begun its mission.
LaunchShape ==
    pc.control = "launch" =>
      /\ cycle.stage = "FOLLOW_DIG" /\ pending = Due(cycle)
      /\ running = None /\ event = None

\* How many children a round has had when it comes to a stage.
Place(stage) ==
    CASE stage = "FOLLOW_DIG" -> 0
      [] stage = "ACT" -> 1
      [] stage = "FOLLOW_DUMP" -> 2
      [] stage = "EXECUTE_DUMP" -> 3

\* The child of the stage has succeeded and the coordinator does not know yet.
Ahead ==
    \/ event # None /\ event.do = "result" /\ event.outcome = "SUCCEEDED"
    \/ cycle.stage = "ACT" /\ seg.done

\* The children that have succeeded are those before the stage's.
WorkShape ==
    cycle.stage \in Active =>
      Len(work) = cycle.completed * Len(Round) + Place(cycle.stage)
                    + IF Ahead THEN 1 ELSE 0

IInv ==
    /\ TypeOK
    /\ CycleShape /\ MotionShape /\ ChildShape /\ LaunchShape
    /\ WorkShape /\ FollowsItinerary

-----------------------------------------------------------------------------
(* Sequences, and going round the dig points of a group.                                 *)

LEMMA RemainderUnique ==
    ASSUME NEW a \in Nat, NEW g \in Nat \ {0}, NEW q \in Nat, NEW r \in 0..(g - 1), a = g * q + r
    PROVE  a % g = r
OBVIOUS

LEMMA Remainder ==
    ASSUME NEW a \in Nat, NEW g \in Nat \ {0}
    PROVE  \E q \in Nat : a = g * q + (a % g)
<1>1. a \div g \in Nat /\ a = g * (a \div g) + (a % g)
  OBVIOUS
<1> QED
  BY <1>1

LEMMA RemainderNext ==
    ASSUME NEW a \in Nat, NEW g \in Nat \ {0}
    PROVE  ((a % g) + 1) % g = (a + 1) % g
<1> DEFINE r == a % g
<1>1. r \in 0..(g - 1)
  OBVIOUS
<1>2. PICK q \in Nat : a = g * q + r
  BY Remainder
<1> HIDE DEF r
<1>3. CASE r + 1 = g
  <2>1. g * (q + 1) = g * q + g /\ q + 1 \in Nat /\ 0 \in 0..(g - 1)
    BY <1>2
  <2>2. a + 1 = g * (q + 1) + 0 /\ a + 1 \in Nat
    BY <1>1, <1>2, <1>3, <2>1
  <2>3. (a + 1) % g = 0
    BY <2>1, <2>2, RemainderUnique
  <2>4. (r + 1) % g = 0
    <3>1. g = g * 1 + 0
      OBVIOUS
    <3> QED
      BY <3>1, <1>3, <2>1, RemainderUnique
  <2> QED
    BY <2>3, <2>4 DEF r
<1>4. CASE r + 1 # g
  <2>1. r + 1 \in 0..(g - 1)
    BY <1>1, <1>4
  <2>2. a + 1 = g * q + (r + 1) /\ a + 1 \in Nat
    BY <1>1, <1>2
  <2>3. (a + 1) % g = r + 1
    BY <2>1, <2>2, RemainderUnique
  <2>4. r + 1 = g * 0 + (r + 1) /\ r + 1 \in Nat
    BY <2>1
  <2>5. (r + 1) % g = r + 1
    BY <2>1, <2>4, RemainderUnique
  <2> QED
    BY <2>3, <2>5 DEF r
<1> QED
  BY <1>3, <1>4

-----------------------------------------------------------------------------
(* A mission's cycle and its itinerary.                                    *)

CycleRecord == [stage : Active \cup Terminal \cup {"IDLE"},
                requested : 0..MaxCycles, completed : 0..MaxCycles,
                group : Group \cup {0}, first : Points, point : Points]

\* The mission goes on with c, or ends with it: it keeps its plan.
SamePlan(c) ==
    c.first = cycle.first /\ c.group = cycle.group /\ c.requested = cycle.requested

LEMMA PointsOfGroup == ASSUME NEW g \in Group, NEW p \in 0..(g - 1) PROVE p \in Points
BY DEF Points

LEMMA PointsAreNat == Points \subseteq Nat
BY PlanAssumption DEF Points

LEMMA SomePoint == 0 \in Points
<1>1. PICK g \in Group : g \in Nat \ {0}
  BY PlanAssumption
<1>2. 0 \in 0..(g - 1)
  BY <1>1
<1> QED
  BY <1>2, PointsOfGroup

\* The dig points of a mission, one after the other.
LEMMA PointSuccession ==
    ASSUME cycle \in CycleRecord, cycle.group \in Group, cycle.requested # 0,
           NEW k \in 0..cycle.requested
    PROVE  /\ PointOf(k) \in Points
           /\ k + 1 < cycle.requested => PointOf(k + 1) = (PointOf(k) + 1) % cycle.group
           /\ k + 1 = cycle.requested => PointOf(k + 1) = PointOf(k)
<1>1. /\ cycle.first \in Nat /\ cycle.group \in Nat \ {0} /\ cycle.requested \in Nat \ {0}
  <2>1. cycle.first \in Points /\ cycle.requested \in 0..MaxCycles
    BY DEF CycleRecord
  <2>2. cycle.first \in Nat
    BY <2>1, PointsAreNat
  <2>3. cycle.group \in Nat \ {0}
    BY PlanAssumption
  <2>4. cycle.requested \in Nat \ {0}
    BY <2>1, PlanAssumption
  <2> QED
    BY <2>2, <2>3, <2>4
<1>2. ASSUME NEW j \in Nat PROVE (cycle.first + j) % cycle.group \in Points
  BY <1>1, PointsOfGroup
<1>3. (((cycle.first + k) % cycle.group) + 1) % cycle.group = (cycle.first + (k + 1)) % cycle.group
  <2>1. cycle.first + k \in Nat /\ cycle.first + (k + 1) = (cycle.first + k) + 1
    BY <1>1
  <2> QED
    BY <1>1, <2>1, RemainderNext
<1>4. PointOf(k) \in Points
  BY <1>1, <1>2 DEF PointOf
<1> QED
  BY <1>1, <1>3, <1>4 DEF PointOf

LEMMA RoundTable ==
    /\ profile = "act_full_cycle" =>
         Len(Round) = 2 /\ Round[1] = "FOLLOW_DIG" /\ Round[2] = "ACT"
    /\ profile # "act_full_cycle" =>
         /\ Len(Round) = 4 /\ Round[1] = "FOLLOW_DIG" /\ Round[2] = "ACT"
         /\ Round[3] = "FOLLOW_DUMP" /\ Round[4] = "EXECUTE_DUMP"
BY DEF Round

\* The place of an entry in its round and the round of an entry.
LEMMA RoundArithmetic ==
    ASSUME NEW L \in {2, 4}, NEW n \in Nat, NEW k \in 0..n, NEW p \in 0..(L - 1),
           k = n => p = 0
    PROVE  LET i == k * L + p + 1
           IN  i \in 1..(n * L + 1) /\ (i - 1) % L = p /\ (i - 1) \div L = k
<1>1. CASE L = 2
  BY <1>1
<1>2. CASE L = 4
  BY <1>2
<1> QED
  BY <1>1, <1>2

\* The next entry of the itinerary is the child that the stage calls for.
LEMMA ItineraryAt ==
    ASSUME TypeOK, CycleShape, cycle.stage \in Active
    PROVE  LET i == cycle.completed * Len(Round) + Place(cycle.stage) + 1
           IN  i \in 1..(cycle.requested * Len(Round) + 1) /\ Itinerary[i] = Due(cycle)
<1> DEFINE L == Len(Round)
           i == cycle.completed * L + Place(cycle.stage) + 1
<1>1. /\ cycle.completed \in Nat /\ cycle.requested \in Nat
      /\ cycle.completed <= cycle.requested
  BY PlanAssumption DEF TypeOK
<1>2. /\ cycle.stage \in Active
      /\ cycle.stage # "FOLLOW_DIG" => cycle.completed < cycle.requested
      /\ profile = "act_full_cycle" => cycle.stage \in {"FOLLOW_DIG", "ACT"}
  BY DEF CycleShape
<1>3. /\ Place(cycle.stage) \in 0..(L - 1)
      /\ Round[Place(cycle.stage) + 1] = cycle.stage
  BY <1>2, RoundTable DEF Place, Active
<1>4. /\ i \in 1..(cycle.requested * L + 1)
      /\ (i - 1) % L = Place(cycle.stage)
      /\ (i - 1) \div L = cycle.completed
  <2>1. L \in {2, 4} /\ cycle.completed \in 0..cycle.requested
    BY <1>1, RoundTable
  <2>2. cycle.completed = cycle.requested => Place(cycle.stage) = 0
    BY <1>1, <1>2 DEF Place
  <2> HIDE DEF L
  <2> QED
    BY <1>1, <1>3, <2>1, <2>2, RoundArithmetic
<1> HIDE DEF i
<1>5. Itinerary[i] = [stage |-> Round[((i - 1) % L) + 1], point |-> PointOf((i - 1) \div L)]
  BY <1>4 DEF Itinerary
<1>6. Itinerary[i] = Due(cycle)
  BY <1>2, <1>3, <1>4, <1>5 DEF CycleShape, Due
<1> QED
  BY <1>4, <1>6 DEF i

LEMMA PrefixPointwise ==
    ASSUME NEW S, NEW s \in Seq(S), NEW t \in Seq(S)
    PROVE  IsPrefix(s, t) <=>
             Len(s) <= Len(t) /\ \A i \in 1..Len(s) : s[i] = t[i]
<1>1. Len(s) \in Nat /\ Len(t) \in Nat
  OBVIOUS
<1>2. ASSUME Len(s) <= Len(t) PROVE
        /\ SubSeq(t, 1, Len(s)) \in Seq(S)
        /\ Len(SubSeq(t, 1, Len(s))) = Len(s)
        /\ \A i \in 1..Len(s) : SubSeq(t, 1, Len(s))[i] = t[i]
  <2>1. \A i \in 1..Len(s) : t[i] \in S
    BY <1>1, <1>2
  <2> QED
    BY <1>1, <2>1, SubSeqProperties
<1>3. SubSeq(s, 1, Len(s)) = s
  BY SubSeqFull
<1>4. ASSUME Len(s) <= Len(t), \A i \in 1..Len(s) : s[i] = t[i]
      PROVE  s = SubSeq(t, 1, Len(s))
  BY <1>2, <1>4, SeqEqual
<1> QED
  BY <1>2, <1>3, <1>4 DEF IsPrefix

LEMMA EmptyPrefix == ASSUME NEW S, NEW t \in Seq(S) PROVE IsPrefix(<<>>, t)
<1>1. Len(<<>>) = 0 /\ Len(t) \in Nat
  OBVIOUS
<1>2. SubSeq(<<>>, 1, 0) = <<>> /\ SubSeq(t, 1, 0) = <<>>
  BY SubSeqEmpty
<1> QED
  BY <1>1, <1>2 DEF IsPrefix

\* The itinerary of an ordered mission is a sequence of children.
IsPlanned == cycle \in CycleRecord /\ cycle.group \in Group /\ cycle.requested # 0

LEMMA PlannedIsSeq ==
    ASSUME IsPlanned
    PROVE  /\ Itinerary \in Seq(Child)
           /\ Len(Itinerary) = cycle.requested * Len(Round) + 1
<1> DEFINE N == cycle.requested * Len(Round) + 1
<1>1. N \in Nat /\ Len(Round) \in {2, 4} /\ cycle.requested \in Nat \ {0}
  <2>1. cycle.requested \in Nat \ {0} /\ Len(Round) \in {2, 4}
    BY PlanAssumption, RoundTable DEF IsPlanned, CycleRecord
  <2> QED
    BY <2>1
<1>2. ASSUME NEW i \in 1..N PROVE Itinerary[i] \in Child
  <2> DEFINE k == (i - 1) \div Len(Round)
             j == ((i - 1) % Len(Round)) + 1
  <2>1. k \in Nat /\ j \in 1..Len(Round)
    <3>1. i - 1 \in Nat
      BY <1>1
    <3>2. CASE Len(Round) = 2
      BY <3>1, <3>2
    <3>3. CASE Len(Round) = 4
      BY <3>1, <3>3
    <3> QED
      BY <1>1, <3>2, <3>3
  <2>2. Round[j] \in Active
    BY <2>1, <1>1, RoundTable DEF Active
  <2>3. PointOf(k) \in Points
    <3>1. cycle \in CycleRecord /\ cycle.group \in Group
      BY DEF IsPlanned
    <3>2. PointOf(k) = PointOf(IF k < cycle.requested THEN k ELSE cycle.requested - 1)
      BY <1>1, <2>1 DEF PointOf
    <3>3. (IF k < cycle.requested THEN k ELSE cycle.requested - 1) \in 0..cycle.requested
      BY <1>1, <2>1
    <3> QED
      BY <1>1, <3>1, <3>2, <3>3, PointSuccession
  <2>4. Itinerary[i] = [stage |-> Round[j], point |-> PointOf(k)]
    BY DEF Itinerary
  <2> QED
    BY <2>2, <2>3, <2>4 DEF Child
<1>3. Itinerary \in [1..N -> Child]
  BY <1>2 DEF Itinerary
<1> HIDE DEF N
<1>4. Itinerary \in Seq(Child) /\ Len(Itinerary) = N
  BY <1>1, <1>3, SeqDef
<1> QED
  BY <1>4 DEF N

LEMMA ItineraryIsSeq ==
    ASSUME TypeOK, CycleShape, cycle.stage \in Active
    PROVE  /\ Itinerary \in Seq(Child)
           /\ Len(Itinerary) = cycle.requested * Len(Round) + 1
<1>1. IsPlanned
  BY DEF IsPlanned, TypeOK, CycleShape, CycleRecord
<1> QED
  BY <1>1, PlannedIsSeq

LEMMA PlannedIsNonempty == IsPlanned => Itinerary \in Seq(Child) /\ Itinerary # <<>>
<1> SUFFICES ASSUME IsPlanned PROVE Itinerary \in Seq(Child) /\ Itinerary # <<>>
  OBVIOUS
<1>1. Itinerary \in Seq(Child) /\ Len(Itinerary) = cycle.requested * Len(Round) + 1
  BY PlannedIsSeq
<1>2. cycle.requested \in Nat /\ Len(Round) \in {2, 4}
  BY PlanAssumption, RoundTable DEF IsPlanned, CycleRecord
<1>3. cycle.requested * Len(Round) + 1 > 0
  BY <1>2
<1> QED
  BY <1>1, <1>3

LEMMA NextPlannedIsNonempty ==
    (IsPlanned => Itinerary \in Seq(Child) /\ Itinerary # <<>>)'
BY PlannedIsNonempty, PTL

LEMMA ItineraryIsSeqAlways ==
    TypeOK /\ CycleShape /\ cycle.stage \in Active => Itinerary \in Seq(Child)
BY ItineraryIsSeq

LEMMA NextItineraryIsSeq ==
    (TypeOK /\ CycleShape /\ cycle.stage \in Active => Itinerary \in Seq(Child))'
BY ItineraryIsSeqAlways, PTL

LEMMA WorkLength ==
    ASSUME TypeOK, CycleShape, WorkShape, cycle.stage \in Active
    PROVE  LET before == cycle.completed * Len(Round) + Place(cycle.stage)
           IN  /\ before \in Nat
               /\ Ahead => Len(work) = before + 1
               /\ ~Ahead => Len(work) = before
<1>1. cycle.completed \in Nat /\ Len(Round) \in Nat
  BY PlanAssumption, RoundTable DEF TypeOK
<1>2. cycle.completed * Len(Round) \in Nat /\ Place(cycle.stage) \in Nat
  BY <1>1 DEF Place, Active
<1> QED
  BY <1>2 DEF WorkShape

\* The machine does the next child of the itinerary.
LEMMA WorkGoesOn ==
    ASSUME TypeOK, CycleShape, WorkShape, FollowsItinerary,
           cycle.stage \in Active, ~Ahead
    PROVE  IsPrefix(Append(work, Due(cycle)), Itinerary)
<1> DEFINE n == Len(work)
           t == Append(work, Due(cycle))
<1>1. Due(cycle) \in Child /\ work \in Seq(Child) /\ cycle.stage # "IDLE"
  BY DEF TypeOK, Due, Child, Active
<1>2. Itinerary \in Seq(Child) /\ Len(Itinerary) = cycle.requested * Len(Round) + 1
  BY ItineraryIsSeq
<1>3. /\ n + 1 \in 1..Len(Itinerary)
      /\ Itinerary[n + 1] = Due(cycle)
  BY <1>2, ItineraryAt, WorkLength
<1>4. IsPrefix(work, Itinerary)
  BY <1>1 DEF FollowsItinerary
<1>5. t \in Seq(Child) /\ Len(t) = n + 1 /\ t[n + 1] = Due(cycle)
      /\ \A i \in 1..n : t[i] = work[i]
  BY <1>1
<1>6. Len(t) <= Len(Itinerary) /\ \A i \in 1..Len(t) : t[i] = Itinerary[i]
  BY <1>1, <1>2, <1>3, <1>4, <1>5, PrefixPointwise
<1> QED
  BY <1>2, <1>5, <1>6, PrefixPointwise

\* All rounds are done and the machine is back at the last dig point.
LEMMA WorkIsDone ==
    ASSUME TypeOK, CycleShape, WorkShape, FollowsItinerary,
           cycle.stage \in Active, Advanced(cycle).stage = "COMPLETED", Ahead
    PROVE  work = Itinerary
<1>1. work \in Seq(Child) /\ cycle.stage # "IDLE"
  BY DEF TypeOK, Active
<1>2. Itinerary \in Seq(Child) /\ Len(Itinerary) = cycle.requested * Len(Round) + 1
  BY ItineraryIsSeq
<1>3. cycle.stage = "FOLLOW_DIG" /\ cycle.completed = cycle.requested
  BY DEF Advanced, ReturnToDig, Active, TypeOK
<1>4. Len(work) = Len(Itinerary)
  <2>1. Place(cycle.stage) = 0
    BY <1>3 DEF Place
  <2>2. cycle.requested \in Nat /\ Len(Round) \in Nat
    BY PlanAssumption, RoundTable DEF TypeOK
  <2>3. cycle.requested * Len(Round) \in Nat
    BY <2>2
  <2> QED
    BY <1>2, <1>3, <2>1, <2>3, WorkLength
<1>5. IsPrefix(work, Itinerary)
  BY <1>1 DEF FollowsItinerary
<1> QED
  BY <1>1, <1>2, <1>4, <1>5, PrefixPointwise, SeqEqual

\* The stage after a success is the next place in the itinerary.
LEMMA AdvancedCycle ==
    ASSUME TypeOK, CycleShape, cycle.stage \in Active, NEW c, c = Advanced(cycle)
    PROVE  /\ c \in CycleRecord /\ c.completed <= c.requested /\ SamePlan(c)
           /\ c.stage \in Active \cup {"COMPLETED"}
           /\ c.stage # "COMPLETED" =>
                /\ c.point = PointOf(c.completed)
                /\ c.stage # "FOLLOW_DIG" => c.completed < c.requested
                /\ profile = "act_full_cycle" => c.stage \in {"FOLLOW_DIG", "ACT"}
                /\ c.completed * Len(Round) + Place(c.stage)
                     = cycle.completed * Len(Round) + Place(cycle.stage) + 1
<1>1. /\ cycle \in CycleRecord /\ cycle.completed <= cycle.requested
      /\ cycle.group \in Group /\ cycle.point = PointOf(cycle.completed)
      /\ cycle.requested # 0
  BY DEF TypeOK, CycleShape, CycleRecord
<1>2. /\ cycle.completed \in Nat /\ cycle.requested \in Nat /\ cycle.requested <= MaxCycles
      /\ MaxCycles \in Nat
  BY <1>1, PlanAssumption DEF CycleRecord
<1>3. CASE cycle.stage = "FOLLOW_DIG"
  <2> DEFINE stage == IF cycle.completed = cycle.requested THEN "COMPLETED" ELSE "ACT"
  <2>1. c = [cycle EXCEPT !.stage = stage]
    BY <1>3 DEF Advanced
  <2>2. c \in CycleRecord /\ SamePlan(c) /\ c.stage = stage
        /\ c.completed = cycle.completed /\ c.point = cycle.point
    BY <1>1, <2>1 DEF CycleRecord, SamePlan, Active, Terminal
  <2> QED
    BY <1>1, <1>2, <1>3, <2>2, RoundTable DEF Place, Active, SamePlan
<1>4. CASE \/ cycle.stage = "ACT" /\ profile # "act_full_cycle"
           \/ cycle.stage = "FOLLOW_DUMP"
  <2> DEFINE stage == IF cycle.stage = "ACT" THEN "FOLLOW_DUMP" ELSE "EXECUTE_DUMP"
  <2>1. c = [cycle EXCEPT !.stage = stage]
    BY <1>4 DEF Advanced
  <2>2. c \in CycleRecord /\ SamePlan(c) /\ c.stage = stage
        /\ c.completed = cycle.completed /\ c.point = cycle.point
    BY <1>1, <2>1 DEF CycleRecord, SamePlan, Active, Terminal
  <2>3. cycle.completed < cycle.requested /\ profile # "act_full_cycle"
    BY <1>4 DEF CycleShape
  <2> QED
    BY <1>1, <1>2, <1>4, <2>2, <2>3, RoundTable DEF Place, Active, SamePlan
<1>5. CASE \/ cycle.stage = "ACT" /\ profile = "act_full_cycle"
           \/ cycle.stage = "EXECUTE_DUMP"
  <2> DEFINE point == IF cycle.completed + 1 < cycle.requested
                      THEN (cycle.point + 1) % cycle.group ELSE cycle.point
  <2>1. c = [cycle EXCEPT !.stage = "FOLLOW_DIG", !.completed = cycle.completed + 1,
                          !.point = point]
    BY <1>5 DEF Advanced, ReturnToDig
  <2>2. cycle.completed < cycle.requested
        /\ (profile = "act_full_cycle" <=> cycle.stage = "ACT")
    BY <1>5 DEF CycleShape
  <2>3. point = PointOf(cycle.completed + 1) /\ point \in Points
    <3>1. cycle.completed \in 0..cycle.requested /\ cycle.completed + 1 \in 0..cycle.requested
      BY <1>2, <2>2
    <3>2. /\ cycle.completed + 1 < cycle.requested =>
               PointOf(cycle.completed + 1) = (cycle.point + 1) % cycle.group
          /\ cycle.completed + 1 = cycle.requested =>
               PointOf(cycle.completed + 1) = cycle.point
      BY <1>1, <3>1, PointSuccession
    <3>3. PointOf(cycle.completed + 1) \in Points
      BY <1>1, <3>1, PointSuccession
    <3> QED
      BY <1>2, <2>2, <3>2, <3>3
  <2> HIDE DEF point
  <2>4. c \in CycleRecord /\ SamePlan(c) /\ c.stage = "FOLLOW_DIG"
        /\ c.completed = cycle.completed + 1 /\ c.point = point
    <3>1. cycle.completed + 1 \in 0..MaxCycles
      BY <1>2, <2>2
    <3>2. /\ c.stage = "FOLLOW_DIG" /\ c.completed = cycle.completed + 1 /\ c.point = point
          /\ c.requested = cycle.requested /\ c.group = cycle.group /\ c.first = cycle.first
      BY <1>1, <2>1 DEF CycleRecord
    <3>3. c \in CycleRecord
      BY <1>1, <2>1, <2>3, <3>1 DEF CycleRecord, Active
    <3> QED
      BY <3>2, <3>3 DEF SamePlan
  <2>5. c.completed * Len(Round) + Place(c.stage)
          = cycle.completed * Len(Round) + Place(cycle.stage) + 1
    <3>1. CASE profile = "act_full_cycle"
      <4>1. Len(Round) = 2 /\ Place(c.stage) = 0 /\ Place(cycle.stage) = 1
        BY <2>2, <2>4, <3>1, RoundTable DEF Place
      <4> QED
        BY <1>2, <2>4, <4>1
    <3>2. CASE profile # "act_full_cycle"
      <4>1. Len(Round) = 4 /\ Place(c.stage) = 0 /\ Place(cycle.stage) = 3
        BY <1>5, <2>2, <2>4, <3>2, RoundTable DEF Place
      <4> QED
        BY <1>2, <2>4, <4>1
    <3> QED
      BY <3>1, <3>2
  <2> QED
    BY <1>2, <2>2, <2>3, <2>4, <2>5 DEF Active, SamePlan
<1> QED
  BY <1>3, <1>4, <1>5 DEF Active

-----------------------------------------------------------------------------
(* What a step makes of a mission.                                         *)

\* The plan and what has been done of it stay.
PlanKept ==
    /\ SamePlan(cycle') /\ profile' = profile /\ work' = work

LEMMA ItineraryKept == ASSUME PlanKept PROVE
    /\ Round' = Round /\ Itinerary' = Itinerary
    /\ \A k \in Nat : PointOf(k)' = PointOf(k)
BY DEF PlanKept, SamePlan, Itinerary, Round, PointOf

\* The core is disarmed and the mission has its outcome.
MissionEnds ==
    /\ SamePlan(cycle') /\ cycle'.stage \in Terminal
    /\ cycle'.stage = "COMPLETED" => work = Itinerary
    /\ live' = FALSE /\ auth' = None /\ claim' = None

LEMMA EndKeepsIInv ==
    ASSUME IInv, TypeOK', cycle.stage \in Active, MissionEnds, PlanKept,
           pc'.control = "idle"
    PROVE  IInv'
<1>1. cycle'.stage \notin Active /\ cycle'.stage # "IDLE"
  BY DEF MissionEnds, Active, Terminal
<1>2. CycleShape' /\ ChildShape' /\ WorkShape'
  BY <1>1 DEF CycleShape, ChildShape, WorkShape
<1>3. MotionShape' /\ LaunchShape'
  BY <1>1, NoneAssumption DEF MotionShape, LaunchShape, MissionEnds, Policy
<1>4. FollowsItinerary'
  BY <1>1, ItineraryKept DEF IInv, FollowsItinerary, MissionEnds, PlanKept, Active
<1> QED
  BY <1>2, <1>3, <1>4 DEF IInv

\* The mission goes on with c: nothing runs or waits but what its stage calls for.
MissionGoes(c) ==
    /\ cycle' = c
    /\ running' \in {None, Due(c)} /\ pending' \in {None, Due(c)}
    /\ running' # None => pending' = None
    /\ c.stage = "ACT" => running' = None /\ pending' = None /\ ~seg'.done
    /\ "act" \in {auth', claim'} => c.stage = "ACT"
    /\ live' = live /\ latch' = latch
    /\ claim' # None => live'

LEMMA GoingKeepsIInv ==
    ASSUME IInv, TypeOK', cycle.stage \in Active, PlanKept,
           NEW c, MissionGoes(c), c.stage \in Active,
           \/ c = Advanced(cycle) /\ Ahead
           \/ c = cycle /\ ~Ahead,
           session' = session, event' = None, pc'.control = "idle"
    PROVE  IInv'
<1>1. /\ TypeOK /\ CycleShape /\ WorkShape
      /\ c.stage # "IDLE" /\ c.stage # "COMPLETED" /\ c.stage \notin Terminal
  BY DEF IInv, Active, Terminal
<1>2. CycleShape'
  <2>1. /\ c.point = PointOf(c.completed) /\ c.completed \in Nat
        /\ c.stage # "FOLLOW_DIG" => c.completed < c.requested
        /\ profile = "act_full_cycle" => c.stage \in {"FOLLOW_DIG", "ACT"}
    <3>1. CASE c = cycle
      BY <1>1, <3>1 DEF CycleShape, TypeOK
    <3>2. CASE c = Advanced(cycle)
      BY <1>1, <3>2, AdvancedCycle DEF CycleRecord
    <3> QED
      BY <3>1, <3>2
  <2>2. session \in RunId /\ c.group \in Group /\ c.requested # 0
    BY <1>1 DEF CycleShape, MissionGoes, PlanKept, SamePlan
  <2> QED
    BY <2>1, <2>2, ItineraryKept DEF CycleShape, MissionGoes, PlanKept
<1>3. MotionShape'
  BY <1>1 DEF IInv, MotionShape, MissionGoes
<1>4. ChildShape' /\ LaunchShape'
  BY <1>1 DEF ChildShape, LaunchShape, MissionGoes, Due
<1>5. WorkShape'
  <2>1. ~Ahead'
    BY DEF Ahead, MissionGoes
  <2>2. Len(work) = c.completed * Len(Round) + Place(c.stage)
    <3>1. CASE c = cycle /\ ~Ahead
      BY <1>1, <3>1, WorkLength
    <3>2. CASE c = Advanced(cycle) /\ Ahead
      BY <1>1, <3>2, WorkLength, AdvancedCycle
    <3> QED
      BY <3>1, <3>2
  <2>3. Len(work) \in Nat
    BY <1>1 DEF TypeOK
  <2> QED
    BY <2>1, <2>2, <2>3, ItineraryKept DEF WorkShape, MissionGoes, PlanKept
<1>6. FollowsItinerary'
  <2>1. IsPrefix(work, Itinerary)
    BY DEF IInv, FollowsItinerary, Active
  <2> QED
    BY <1>1, <2>1, ItineraryKept DEF FollowsItinerary, MissionGoes, PlanKept
<1> QED
  BY <1>2, <1>3, <1>4, <1>5, <1>6 DEF IInv

\* The mission stays where it is; the core may lose what it has but take nothing new,
\* and an event that says nothing of a result comes and goes.
MissionStays ==
    /\ UNCHANGED <<profile, cycle, running, work, seg>>
    /\ session' = session \/ session' \in RunId
    /\ pending' = pending \/ (pending' = None /\ pc'.control = "idle")
    /\ pc'.control \in {pc.control, "idle"}
    /\ live' => live
    /\ latch' => ~live' /\ cycle.stage \notin Active
    /\ claim' # None => live'
    /\ "act" \in {auth', claim'} => "act" \in {auth, claim}
    /\ \/ event' = event
       \/ event' = None /\ (event.do = "feedback" \/ cycle.stage \notin Active)
       \/ event = None /\ event'.do = "feedback" /\ running # None

LEMMA StayingKeepsIInv ==
    ASSUME IInv, TypeOK', MissionStays PROVE IInv'
<1>1. PlanKept /\ Due(cycle)' = Due(cycle)
  BY DEF MissionStays, PlanKept, SamePlan, Due
<1>2. CycleShape'
  <2>1. cycle.completed \in Nat
    BY DEF IInv, TypeOK
  <2> QED
    BY <1>1, <2>1, ItineraryKept DEF IInv, CycleShape, MissionStays
<1>3. MotionShape'
  BY DEF IInv, MotionShape, MissionStays
<1>4. ChildShape'
  BY <1>1 DEF IInv, ChildShape, MissionStays, Active
<1>5. LaunchShape'
  BY <1>1 DEF IInv, LaunchShape, MissionStays, Active
<1>6. WorkShape'
  <2>1. cycle.stage \in Active => (Ahead' <=> Ahead)
    BY DEF Ahead, MissionStays
  <2> QED
    BY <1>1, <2>1, ItineraryKept DEF IInv, WorkShape, MissionStays
<1>7. FollowsItinerary'
  BY <1>1, ItineraryKept DEF IInv, FollowsItinerary, MissionStays
<1> QED
  BY <1>2, <1>3, <1>4, <1>5, <1>6, <1>7 DEF IInv

-----------------------------------------------------------------------------
(* The driver's methods, called by the owner or by the control thread.     *)

\* The variables that they change.
MissionType ==
    /\ cycle \in CycleRecord /\ cycle.completed <= cycle.requested
    /\ latch \in BOOLEAN /\ pending \in Child \cup {None}
    /\ receipt \in {None, "fresh", "over"}
    /\ live \in BOOLEAN
    /\ auth \in Policy \cup {None} /\ claim \in Policy \cup {None}
    /\ auth # None => live /\ claim = None

ChildrenType ==
    /\ resumed \in BOOLEAN
    /\ running \in Child \cup {None} /\ spent \subseteq RunId
    /\ seg \in [gen : Nat, done : BOOLEAN]
    /\ actGen \in Nat \cup {None} /\ actWas \in BOOLEAN /\ waited \in BOOLEAN

PcType ==
    pc \in [owner : {"top", "row", "observe", "event", "tick", "ended"},
            control : {"idle", "launch"}]

RestType ==
    /\ profile \in Profile
    /\ session \in RunId \cup {None}
    /\ event \in Event \cup {None} /\ (event # None <=> pc.owner = "event")
    /\ lease \in {None, "fresh", "expired"} /\ worker \in BOOLEAN
    /\ work \in Seq(Child)

LEMMA TypeParts == TypeOK <=> MissionType /\ ChildrenType /\ PcType /\ RestType
BY DEF TypeOK, MissionType, ChildrenType, PcType, RestType, CycleRecord

\* The mission as a driver's method finds it.
Driven == IInv /\ cycle.stage \in Active

LEMMA DisarmEffect ==
    ASSUME Driven, NEW written \in BOOLEAN, Disarm(written)
    PROVE  /\ latch' \in BOOLEAN /\ pending' = None
           /\ receipt' \in {None, "fresh", "over"}
           /\ live' = FALSE /\ auth' = None /\ claim' = None
<1>1. ~latch
  BY DEF Driven, IInv, MotionShape
<1> QED
  BY <1>1 DEF Disarm, Driven, IInv, TypeOK

LEMMA LeaveEffect ==
    ASSUME PcType, NEW t \in {"owner", "control"}, NEW raised \in BOOLEAN, Leave(t, raised)
    PROVE  /\ PcType'
           /\ t = "control" => pc'.control = "idle" /\ pc'.owner = pc.owner
           /\ t = "owner" => pc'.control = pc.control
                             /\ pc'.owner \in {"tick", "top", "ended"}
BY DEF PcType, Leave

\* A cycle that a result or a failure leaves behind.
LEMMA StageReplaced ==
    ASSUME NEW c \in CycleRecord, c.completed <= c.requested, SamePlan(c),
           NEW stage \in Terminal, cycle' = [c EXCEPT !.stage = stage]
    PROVE  /\ cycle' \in CycleRecord /\ cycle'.completed <= cycle'.requested
           /\ SamePlan(cycle') /\ cycle'.stage = stage
BY DEF CycleRecord, SamePlan

LEMMA EndEffect ==
    ASSUME Driven, NEW t \in {"owner", "control"}, NEW stage \in Terminal,
           NEW c \in CycleRecord, c.completed <= c.requested, SamePlan(c),
           stage = "COMPLETED" => work = Itinerary,
           End(t, c, stage)
    PROVE  MissionType' /\ MissionEnds /\ \E raised \in BOOLEAN : Leave(t, raised)
<1>1. PICK written \in BOOLEAN :
        Disarm(written) /\ cycle' = [c EXCEPT !.stage = stage] /\ Leave(t, ~written)
  BY DEF End
<1>2. /\ cycle' \in CycleRecord /\ cycle'.completed <= cycle'.requested
      /\ SamePlan(cycle') /\ cycle'.stage = stage
  BY <1>1, StageReplaced
<1>3. /\ latch' \in BOOLEAN /\ pending' = None /\ receipt' \in {None, "fresh", "over"}
      /\ live' = FALSE /\ auth' = None /\ claim' = None
  BY <1>1, DisarmEffect
<1> QED
  BY <1>1, <1>2, <1>3 DEF MissionType, MissionEnds

LEMMA DispatchFailedEffect ==
    ASSUME Driven, NEW t \in {"owner", "control"},
           NEW c \in CycleRecord, c.completed <= c.requested, SamePlan(c),
           DispatchFailed(t, c)
    PROVE  MissionType' /\ ChildrenType' /\ MissionEnds /\ Leave(t, TRUE)
<1>1. PICK written \in BOOLEAN : Disarm(written)
  BY DEF DispatchFailed, DispatchFails
<1>2. /\ latch' \in BOOLEAN /\ pending' = None /\ receipt' \in {None, "fresh", "over"}
      /\ live' = FALSE /\ auth' = None /\ claim' = None
  BY <1>1, DisarmEffect
<1>3. /\ cycle' \in CycleRecord /\ cycle'.completed <= cycle'.requested
      /\ SamePlan(cycle') /\ cycle'.stage = "FAILED"
  <2>1. "FAILED" \in Terminal
    BY DEF Terminal
  <2> QED
    BY <2>1, StageReplaced DEF DispatchFailed, DispatchFails
<1>4. ChildrenType'
  BY DEF DispatchFailed, DispatchFails, executor, activation, ChildrenType, Driven, IInv, TypeOK
<1> QED
  BY <1>2, <1>3, <1>4 DEF DispatchFailed, DispatchFails, MissionType, MissionEnds, Terminal

LEMMA HandoffFailed == ASSUME NEW t, NEW c, HandoffFails(t, c) PROVE DispatchFailed(t, c)
BY DEF HandoffFails, DispatchFailed

\* The zero could not be written: the core is disarmed and the mission does not know.
MissionHalts ==
    /\ cycle' = cycle /\ latch' = FALSE /\ pending' = None
    /\ live' = FALSE /\ auth' = None /\ claim' = None

LEMMA AbortEffect ==
    ASSUME Driven, NEW t \in {"owner", "control"}, NEW stage \in Terminal \ {"COMPLETED"},
           Abort(t, stage)
    PROVE  /\ MissionType' /\ (MissionEnds \/ MissionHalts)
           /\ \E raised \in BOOLEAN : Leave(t, raised)
<1>1. PICK written \in BOOLEAN :
        /\ Disarm(written) /\ Leave(t, ~written)
        /\ cycle' = IF written THEN [cycle EXCEPT !.stage = stage] ELSE cycle
  BY DEF Abort
<1>2. /\ latch' \in BOOLEAN /\ pending' = None /\ receipt' \in {None, "fresh", "over"}
      /\ live' = FALSE /\ auth' = None /\ claim' = None
  BY <1>1, DisarmEffect
<1>3. MissionType /\ SamePlan(cycle)
  BY TypeParts DEF Driven, IInv, SamePlan
<1>4. CASE written
  <2>1. /\ cycle' \in CycleRecord /\ cycle'.completed <= cycle'.requested
        /\ SamePlan(cycle') /\ cycle'.stage = stage
    BY <1>1, <1>3, <1>4, StageReplaced DEF MissionType
  <2> QED
    BY <1>1, <1>2, <2>1 DEF MissionType, MissionEnds
<1>5. CASE ~written
  <2>1. latch' = FALSE
    BY <1>1, <1>5 DEF Disarm, Driven, IInv, MotionShape
  <2> QED
    BY <1>1, <1>2, <1>3, <1>5, <2>1 DEF MissionType, MissionHalts
<1> QED
  BY <1>4, <1>5

LEMMA LaunchEffect ==
    ASSUME Driven, NEW t \in {"owner", "control"},
           NEW c \in CycleRecord, c.completed <= c.requested, SamePlan(c),
           c.stage \in Active \ {"ACT"}, auth = "rl", Launch(t, c, Due(c))
    PROVE  /\ MissionType' /\ ChildrenType' /\ (MissionEnds \/ MissionGoes(c))
           /\ \E raised \in BOOLEAN : Leave(t, raised)
<1>1. /\ MissionType /\ ChildrenType /\ MotionShape /\ session \in RunId
      /\ auth = "rl" /\ claim = None
  BY TypeParts, NoneAssumption DEF Driven, IInv, CycleShape, MissionType, Policy
<1>2. Due(c) \in Child
  BY DEF Due, Child, CycleRecord
<1>3. ChildrenType'
  BY <1>1, <1>2 DEF Launch, activation, ChildrenType
<1>4. CASE /\ running' = Due(c) /\ cycle' = c /\ pending' = None
           /\ Leave(t, FALSE) /\ UNCHANGED <<latch, receipt, motion>>
  <2>1. MissionType'
    BY <1>1, <1>4 DEF MissionType, motion
  <2>2. MissionGoes(c)
    BY <1>1, <1>4, NoneAssumption DEF MissionGoes, motion, Policy
  <2> QED
    BY <1>3, <1>4, <2>1, <2>2
<1>5. CASE End(t, c, "FAILED")
  BY <1>3, <1>5, EndEffect DEF Terminal
<1> QED
  BY <1>4, <1>5 DEF Launch

LEMMA ActivateActEffect ==
    ASSUME Driven, NEW t \in {"owner", "control"},
           NEW c \in CycleRecord, c.completed <= c.requested, SamePlan(c),
           c.stage = "ACT", pending = None, ActivateAct(t, c)
    PROVE  /\ MissionType' /\ ChildrenType' /\ (MissionEnds \/ MissionGoes(c))
           /\ \E raised \in BOOLEAN : Leave(t, raised)
<1>1. MissionType /\ ChildrenType
  BY TypeParts DEF Driven, IInv
<1>2. CASE worker /\ running = None /\ live /\ ~HandoffFails(t, c)
  <2>1. /\ cycle' = c /\ auth' = None /\ claim' = "act"
        /\ seg' = [gen |-> seg.gen + 1, done |-> FALSE]
        /\ actGen' = seg.gen + 1 /\ actWas' = FALSE /\ waited' = FALSE
        /\ Leave(t, FALSE)
        /\ UNCHANGED <<latch, pending, receipt, live, resumed, executor>>
    BY <1>2 DEF ActivateAct
  <2>2. MissionType'
    BY <1>1, <2>1 DEF MissionType, Policy
  <2>3. seg.gen + 1 \in Nat /\ ~seg'.done
    BY <1>1, <2>1 DEF ChildrenType
  <2>4. ChildrenType'
    BY <1>1, <2>1, <2>3 DEF ChildrenType, executor
  <2>5. MissionGoes(c)
    BY <1>2, <2>1, <2>3 DEF MissionGoes, executor
  <2> QED
    BY <2>1, <2>2, <2>4, <2>5
<1>3. CASE DispatchFailed(t, c)
  BY <1>3, DispatchFailedEffect
<1> QED
  BY <1>2, <1>3, HandoffFailed DEF ActivateAct

LEMMA ActivateBehaviorEffect ==
    ASSUME Driven, NEW t \in {"owner", "control"},
           NEW c \in CycleRecord, c.completed <= c.requested, SamePlan(c),
           c.stage \in Active \ {"ACT"}, running = None, "act" \notin {auth, claim},
           ActivateBehavior(t, c)
    PROVE  /\ MissionType' /\ ChildrenType' /\ (MissionEnds \/ MissionGoes(c))
           /\ \E raised \in BOOLEAN : Leave(t, raised)
<1>1. MissionType /\ ChildrenType /\ MotionShape
  BY TypeParts DEF Driven, IInv
<1>2. CASE DispatchFailed(t, c)
  BY <1>2, DispatchFailedEffect
<1>3. CASE auth = "rl" /\ Launch(t, c, Due(c))
  BY <1>3, LaunchEffect
<1>4. CASE /\ cycle' = c /\ pending' = Due(c) /\ waited' = FALSE
           /\ auth' = IF auth = "rl" THEN auth ELSE None
           /\ claim' = IF auth = "rl" THEN claim ELSE "rl"
           /\ Leave(t, FALSE)
           /\ auth = "rl" \/ live
           /\ UNCHANGED <<latch, receipt, live, resumed, executor, seg, actGen, actWas>>
  <2>1. Due(c) \in Child
    BY DEF Due, Child, CycleRecord
  <2>2. MissionType'
    BY <1>1, <1>4, <2>1, NoneAssumption DEF MissionType, Policy
  <2>3. ChildrenType'
    BY <1>1, <1>4 DEF ChildrenType, executor
  <2>4. MissionGoes(c)
    BY <1>1, <1>4, NoneAssumption DEF MissionGoes, executor, MissionType, MotionShape, Policy
  <2> QED
    BY <1>4, <2>2, <2>3, <2>4
<1> QED
  BY <1>2, <1>3, <1>4, HandoffFailed DEF ActivateBehavior

LEMMA SucceedEffect ==
    ASSUME Driven, NEW t \in {"owner", "control"}, Ahead,
           running = None, pending = None, "act" \notin {auth, claim}, Succeed(t)
    PROVE  /\ MissionType' /\ ChildrenType'
           /\ MissionEnds \/ (Advanced(cycle).stage \in Active /\ MissionGoes(Advanced(cycle)))
           /\ \E raised \in BOOLEAN : Leave(t, raised)
<1> DEFINE c == Advanced(cycle)
<1>1. /\ TypeOK /\ CycleShape /\ WorkShape /\ FollowsItinerary /\ cycle.stage \in Active
      /\ MissionType /\ ChildrenType
  BY TypeParts DEF Driven, IInv
<1>2. /\ c \in CycleRecord /\ c.completed <= c.requested /\ SamePlan(c)
      /\ c.stage \in Active \cup {"COMPLETED"}
  BY <1>1, AdvancedCycle
<1>3. CASE c.stage = "COMPLETED"
  <2>1. End(t, cycle, "COMPLETED") /\ UNCHANGED <<resumed, executor, seg, activation>>
    BY <1>3 DEF Succeed
  <2>2. work = Itinerary
    BY <1>1, <1>3, WorkIsDone
  <2>3. /\ cycle \in CycleRecord /\ cycle.completed <= cycle.requested /\ SamePlan(cycle)
    BY <1>1 DEF MissionType, SamePlan
  <2>4. MissionType' /\ MissionEnds /\ \E raised \in BOOLEAN : Leave(t, raised)
    BY <2>1, <2>2, <2>3, EndEffect DEF Terminal
  <2>5. ChildrenType'
    BY <1>1, <2>1 DEF ChildrenType, executor, activation
  <2> QED
    BY <2>4, <2>5
<1>4. CASE c.stage = "ACT"
  <2>1. ActivateAct(t, c)
    BY <1>4 DEF Succeed, Dispatch
  <2> QED
    BY <1>2, <1>4, <2>1, ActivateActEffect DEF Active
<1>5. CASE c.stage \in Active \ {"ACT"}
  <2>1. ActivateBehavior(t, c)
    BY <1>5 DEF Succeed, Dispatch, Active
  <2> QED
    BY <1>2, <1>5, <2>1, ActivateBehaviorEffect
<1> QED
  BY <1>2, <1>3, <1>4, <1>5

-----------------------------------------------------------------------------
(* The actions keep the invariant.                                         *)

LEMMA InitEstablishesIInv == Init => IInv
<1> SUFFICES ASSUME Init PROVE IInv
  OBVIOUS
<1>1. TypeOK
  <2>1. cycle \in CycleRecord /\ cycle.completed <= cycle.requested
    BY SomePoint, PlanAssumption DEF Init, Idle, CycleRecord
  <2>2. work \in Seq(Child)
    BY DEF Init
  <2> QED
    BY <2>1, <2>2 DEF Init, TypeOK, CycleRecord
<1>2. cycle.stage = "IDLE"
  BY DEF Init, Idle
<1> QED
  BY <1>1, <1>2, NoneAssumption
     DEF Init, IInv, CycleShape, MotionShape, ChildShape, LaunchShape, WorkShape,
         FollowsItinerary, Active, Terminal, Policy

\* What a core that stops, or only loses its authority, leaves of its type.
LEMMA CoreLoses ==
    ASSUME IInv,
           \/ CoreStop \/ Lost \/ UNCHANGED motion
           \/ live' = live /\ auth' = None /\ claim' = claim
    PROVE  /\ live' \in BOOLEAN
           /\ auth' \in Policy \cup {None} /\ claim' \in Policy \cup {None}
           /\ auth' # None => live' /\ claim' = None
           /\ live' => live
           /\ claim' # None => live'
           /\ "act" \in {auth', claim'} => "act" \in {auth, claim}
<1>1. /\ live \in BOOLEAN /\ auth \in Policy \cup {None} /\ claim \in Policy \cup {None}
      /\ auth # None => live /\ claim = None
      /\ claim # None => live
      /\ None # "act"
  BY NoneAssumption DEF IInv, TypeOK, MotionShape, Policy
<1>2. CASE CoreStop
  BY <1>1, <1>2 DEF CoreStop
<1>3. CASE UNCHANGED motion
  BY <1>1, <1>3 DEF motion
<1>4. CASE live' = live /\ auth' = None /\ claim' = claim
  BY <1>1, <1>4
<1>5. CASE live' = live /\ auth' = None /\ claim' = None
  BY <1>1, <1>5
<1> QED
  BY <1>2, <1>3, <1>4, <1>5 DEF Lost

LEMMA TopOfLoopKeeps == ASSUME IInv, TopOfLoop PROVE IInv'
<1>1. Lost \/ UNCHANGED motion
  BY DEF TopOfLoop, Lost
<1>2. TypeOK'
  BY <1>1, CoreLoses DEF TopOfLoop, IInv, TypeOK, OwnerGoes, mission, activation, executor
<1>3. MissionStays
  BY <1>1, CoreLoses DEF TopOfLoop, MissionStays, IInv, TypeOK, MotionShape, OwnerGoes,
     mission, activation, executor
<1> QED
  BY <1>2, <1>3, StayingKeepsIInv

LEMMA NoRowKeeps == ASSUME IInv, NoRow PROVE IInv'
<1>1. Lost \/ UNCHANGED motion
  BY DEF NoRow
<1>2. TypeOK'
  BY <1>1, CoreLoses DEF NoRow, IInv, TypeOK, OwnerGoes, mission, activation, executor
<1>3. MissionStays
  BY <1>1, CoreLoses DEF NoRow, MissionStays, IInv, TypeOK, MotionShape, OwnerGoes,
     mission, activation, executor
<1> QED
  BY <1>2, <1>3, StayingKeepsIInv

\* The machine acknowledges a handoff.
HandoffRow ==
    /\ claim # None
    /\ auth' = claim /\ claim' = None
    /\ UNCHANGED <<live, seg, work>>

\* The final action of an ACT segment is done.
FinalRow ==
    /\ auth = "act" /\ ~seg.done
    /\ seg' = [seg EXCEPT !.done = TRUE]
    /\ auth' = None /\ claim' = "rl"
    /\ work' = Append(work, [stage |-> "ACT", point |-> cycle.point])
    /\ UNCHANGED live

LEMMA FinalRowKeeps == ASSUME IInv, Row, FinalRow PROVE IInv'
<1>1. /\ cycle.stage = "ACT" /\ cycle.stage \in Active /\ ~seg.done /\ ~Ahead /\ live
      /\ running = None /\ pending = None /\ event = None
  BY NoneAssumption DEF FinalRow, IInv, TypeOK, MotionShape, ChildShape, Ahead, Active, Policy
<1>2. /\ Due(cycle) = [stage |-> "ACT", point |-> cycle.point] /\ Due(cycle) \in Child
      /\ work' = Append(work, Due(cycle))
  BY <1>1 DEF FinalRow, Due, Child, IInv, TypeOK
<1>3. /\ UNCHANGED <<profile, mission, pending, session, resumed, activation, receipt,
                     executor, event, lease, worker>>
      /\ pc' = [pc EXCEPT !.owner = "observe"] /\ pc.owner = "row"
  BY DEF Row, OwnerGoes
<1>4. seg' \in [gen : Nat, done : BOOLEAN] /\ seg'.done /\ work' \in Seq(Child)
      /\ Len(work') = Len(work) + 1
  <2>1. seg \in [gen : Nat, done : BOOLEAN] /\ work \in Seq(Child)
    BY DEF IInv, TypeOK
  <2>2. seg' \in [gen : Nat, done : BOOLEAN] /\ seg'.done
    BY <2>1 DEF FinalRow
  <2>3. work' \in Seq(Child) /\ Len(work') = Len(work) + 1
    BY <1>2, <2>1
  <2> QED
    BY <2>2, <2>3
<1>5. TypeOK'
  BY <1>1, <1>3, <1>4 DEF FinalRow, IInv, TypeOK, mission, activation, executor, Policy
<1>6. SamePlan(cycle') /\ profile' = profile /\ cycle' = cycle
  BY <1>3 DEF SamePlan, mission
<1>7. /\ Round' = Round /\ Itinerary' = Itinerary
      /\ \A k \in Nat : PointOf(k)' = PointOf(k)
  BY <1>6 DEF SamePlan, Itinerary, Round, PointOf
<1>8. CycleShape'
  <2>1. cycle.completed \in Nat
    BY DEF IInv, TypeOK
  <2> QED
    BY <1>3, <1>6, <1>7, <2>1 DEF IInv, CycleShape
<1>9. MotionShape' /\ ChildShape' /\ LaunchShape'
  BY <1>1, <1>3, <1>6, NoneAssumption
     DEF FinalRow, IInv, MotionShape, ChildShape, LaunchShape, mission, executor, Policy, Due
<1>10. WorkShape'
  <2>1. Ahead'
    BY <1>1, <1>4, <1>6 DEF Ahead
  <2> QED
    BY <1>1, <1>4, <1>6, <1>7, <2>1, WorkLength DEF IInv, WorkShape
<1>11. FollowsItinerary'
  <2>1. IsPrefix(Append(work, Due(cycle)), Itinerary)
    BY <1>1, WorkGoesOn DEF IInv
  <2> QED
    BY <1>1, <1>2, <1>6, <1>7, <2>1 DEF FollowsItinerary
<1> QED
  BY <1>5, <1>8, <1>9, <1>10, <1>11 DEF IInv

LEMMA RowKeeps == ASSUME IInv, Row PROVE IInv'
<1>1. CASE (Lost \/ UNCHANGED motion) /\ UNCHANGED <<seg, work>>
  <2>1. TypeOK'
    BY <1>1, CoreLoses DEF Row, IInv, TypeOK, OwnerGoes, mission, activation, executor
  <2>2. MissionStays
    BY <1>1, CoreLoses DEF Row, MissionStays, IInv, TypeOK, MotionShape, OwnerGoes,
       mission, activation, executor
  <2> QED
    BY <2>1, <2>2, StayingKeepsIInv
<1>2. CASE HandoffRow
  <2>1. live /\ claim \in Policy
    BY <1>2 DEF HandoffRow, IInv, TypeOK, MotionShape
  <2>2. TypeOK'
    BY <1>2, <2>1 DEF Row, HandoffRow, IInv, TypeOK, OwnerGoes, mission, activation, executor
  <2>3. MissionStays
    BY <1>2, <2>1, NoneAssumption
       DEF Row, HandoffRow, MissionStays, IInv, TypeOK, MotionShape, OwnerGoes,
           mission, activation, executor, Policy
  <2> QED
    BY <2>2, <2>3, StayingKeepsIInv
<1>3. CASE FinalRow
  BY <1>3, FinalRowKeeps
<1> QED
  BY <1>1, <1>2, <1>3 DEF Row, HandoffRow, FinalRow, motion

LEMMA ObserveGoesOnKeeps == ASSUME IInv, ObserveGoesOn PROVE IInv'
<1>1. event = None /\ None # [do |-> "feedback"] /\ [do |-> "feedback"] \in Event
  BY NoneAssumption DEF ObserveGoesOn, IInv, TypeOK, Event
<1>2. TypeOK'
  BY <1>1 DEF ObserveGoesOn, IInv, TypeOK, OwnerGoes, mission, activation, executor, motion
<1>3. MissionStays
  BY <1>1 DEF ObserveGoesOn, MissionStays, IInv, TypeOK, MotionShape, OwnerGoes,
     mission, activation, executor, motion
<1> QED
  BY <1>2, <1>3, StayingKeepsIInv

LEMMA ObserveEndKeeps == ASSUME IInv, ObserveEnd PROVE IInv'
<1>1. PICK outcome \in {"SUCCEEDED", "FAILED"}, quiescent \in BOOLEAN :
        /\ outcome = "SUCCEEDED" => auth = "rl"
        /\ event' = [do |-> "result", child |-> running,
                     outcome |-> outcome, quiescent |-> quiescent]
        /\ work' = IF outcome = "SUCCEEDED" THEN Append(work, running) ELSE work
        /\ IF quiescent \/ ~live
           THEN UNCHANGED motion
           ELSE CoreStop \/ (live' = live /\ auth' = None /\ claim' = claim)
  BY DEF ObserveEnd
<1>2. /\ running \in Child /\ running' = None /\ event = None
      /\ pc' = [pc EXCEPT !.owner = "event"]
      /\ UNCHANGED <<profile, mission, pending, session, resumed, activation, receipt, spent,
                     seg, lease, worker>>
  BY DEF ObserveEnd, OwnerGoes, IInv, TypeOK
<1>3. /\ event' \in Event /\ event' # None
      /\ event'.do = "result" /\ event'.child = running /\ event'.outcome = outcome
  BY <1>1, <1>2, NoneAssumption DEF Event, Outcome
<1>4. /\ live' \in BOOLEAN /\ auth' \in Policy \cup {None} /\ claim' \in Policy \cup {None}
      /\ auth' # None => live' /\ claim' = None
      /\ live' => live
      /\ claim' # None => live'
      /\ "act" \in {auth', claim'} => "act" \in {auth, claim}
  BY <1>1, CoreLoses
<1>5. work' \in Seq(Child)
  BY <1>1, <1>2 DEF IInv, TypeOK
<1>6. TypeOK'
  BY <1>2, <1>3, <1>4, <1>5 DEF IInv, TypeOK, mission, activation
<1>7. /\ cycle' = cycle /\ SamePlan(cycle') /\ profile' = profile
      /\ Due(cycle)' = Due(cycle)
  BY <1>2 DEF mission, SamePlan, Due
<1>8. /\ Round' = Round /\ Itinerary' = Itinerary
      /\ \A k \in Nat : PointOf(k)' = PointOf(k)
  BY <1>7 DEF SamePlan, Itinerary, Round, PointOf
<1>9. /\ cycle.stage # "IDLE"
      /\ cycle.stage \in Active =>
           running = Due(cycle) /\ pending = None /\ cycle.stage # "ACT" /\ ~Ahead
      /\ outcome = "SUCCEEDED" => cycle.stage \in Active
  <2>1. live => cycle.stage \notin Terminal
    BY DEF IInv, MotionShape
  <2>2. cycle.stage \in Active \cup Terminal \cup {"IDLE"}
    BY DEF IInv, TypeOK
  <2>3. outcome = "SUCCEEDED" => live
    BY <1>1, NoneAssumption DEF IInv, TypeOK, Policy
  <2>4. running # None
    BY <1>2, NoneAssumption
  <2> QED
    BY <1>2, <2>1, <2>2, <2>3, <2>4 DEF IInv, ChildShape, Ahead
<1>10. CycleShape'
  <2>1. cycle.completed \in Nat
    BY DEF IInv, TypeOK
  <2> QED
    BY <1>2, <1>7, <1>8, <2>1 DEF IInv, CycleShape
<1>11. MotionShape'
  <2>1. MotionShape /\ latch' = latch /\ seg' = seg /\ latch \in BOOLEAN /\ live \in BOOLEAN
    BY <1>2 DEF IInv, mission, TypeOK
  <2> QED
    BY <1>4, <1>7, <2>1 DEF MotionShape
<1>12. ChildShape' /\ LaunchShape'
  <2>1. pc.control # "launch" /\ pc'.control = pc.control /\ pending' = pending
    BY <1>2, NoneAssumption DEF IInv, TypeOK, LaunchShape
  <2> QED
    BY <1>2, <1>3, <1>7, <1>9, <2>1 DEF ChildShape, LaunchShape
<1>13. WorkShape'
  <2> SUFFICES ASSUME cycle.stage \in Active PROVE WorkShape'
    BY <1>7 DEF WorkShape
  <2>1. Ahead' <=> outcome = "SUCCEEDED"
    BY <1>3, <1>7, <1>9 DEF Ahead
  <2>2. /\ outcome = "SUCCEEDED" => Len(work') = Len(work) + 1
        /\ outcome # "SUCCEEDED" => Len(work') = Len(work)
    BY <1>1, <1>2 DEF IInv, TypeOK
  <2>3. LET before == cycle.completed * Len(Round) + Place(cycle.stage)
        IN  before \in Nat /\ Len(work) = before
    BY <1>9, WorkLength DEF IInv
  <2> QED
    BY <1>7, <1>8, <2>1, <2>2, <2>3 DEF WorkShape
<1>14. FollowsItinerary'
  <2>1. CASE outcome = "SUCCEEDED"
    <3>1. cycle.stage \in Active /\ cycle.stage # "COMPLETED" /\ work' = Append(work, Due(cycle))
      BY <1>1, <1>9, <2>1 DEF Active
    <3>2. IsPrefix(Append(work, Due(cycle)), Itinerary)
      BY <1>9, <3>1, WorkGoesOn DEF IInv
    <3> QED
      BY <1>7, <1>8, <3>1, <3>2 DEF FollowsItinerary
  <2>2. CASE outcome # "SUCCEEDED"
    BY <1>1, <1>7, <1>8, <2>2 DEF IInv, FollowsItinerary
  <2> QED
    BY <2>1, <2>2
<1> QED
  BY <1>6, <1>10, <1>11, <1>12, <1>13, <1>14 DEF IInv

LEMMA StartMissionKeeps ==
    ASSUME IInv, NEW r \in RunId, NEW n \in 1..MaxCycles, NEW g \in Group,
           NEW first \in 0..(g - 1), StartMission(r, n, g, first)
    PROVE  IInv'
<1>1. /\ live /\ cycle.stage = "IDLE" /\ running = None /\ event = None
      /\ auth # "act" /\ claim # "act"
  BY NoneAssumption
     DEF StartMission, Renewed, IInv, TypeOK, MotionShape, ChildShape, Active, Policy
<1>2. /\ cycle' = [stage |-> "FOLLOW_DIG", requested |-> n, completed |-> 0,
                   group |-> g, first |-> first, point |-> first]
      /\ session' = r /\ latch' = FALSE /\ pending' = Due(cycle')
      /\ lease' = "fresh" /\ live' = live /\ work' = <<>>
      /\ auth' = IF auth = "rl" THEN auth ELSE None
      /\ claim' = IF auth = "rl" THEN claim ELSE "rl"
      /\ resumed' = FALSE /\ actGen' = None /\ actWas' = FALSE /\ waited' = FALSE
      /\ receipt' = None
      /\ pc' = [pc EXCEPT !.control = "launch"]
      /\ UNCHANGED <<profile, executor, event, seg, worker>>
  BY DEF StartMission, ResetSession, Renewed, NewCycle
<1>3. cycle' \in CycleRecord /\ cycle'.completed <= cycle'.requested /\ first \in Nat
      /\ n \in Nat \ {0} /\ g \in Nat \ {0}
  BY <1>2, PlanAssumption, PointsOfGroup DEF CycleRecord, Active
<1>4. pending' \in Child /\ pending' # None
  BY <1>2, <1>3, NoneAssumption DEF Due, Child, CycleRecord, Active
<1>5. TypeOK'
  <2>1. MissionType'
    BY <1>1, <1>2, <1>3, <1>4, NoneAssumption DEF MissionType, IInv, TypeOK, Policy
  <2>2. ChildrenType'
    BY <1>2 DEF ChildrenType, IInv, TypeOK, executor
  <2>3. PcType' /\ RestType'
    BY <1>1, <1>2 DEF PcType, RestType, IInv, TypeOK
  <2> QED
    BY <2>1, <2>2, <2>3 DEF TypeOK, MissionType, ChildrenType, PcType, RestType, CycleRecord
<1>6. first % g = first
  <2>1. first = g * 0 + first
    BY <1>3
  <2> QED
    BY <1>3, <2>1, RemainderUnique
<1>7. CycleShape'
  <2>1. PointOf(0)' = first
    BY <1>2, <1>3, <1>6 DEF PointOf
  <2> QED
    BY <1>2, <1>3, <2>1 DEF CycleShape
<1>8. MotionShape'
  BY <1>1, <1>2, NoneAssumption DEF MotionShape, IInv, TypeOK, Terminal, Policy
<1>9. ChildShape' /\ LaunchShape'
  BY <1>1, <1>2 DEF ChildShape, LaunchShape, executor
<1>10. WorkShape'
  <2>1. ~Ahead'
    BY <1>1, <1>2 DEF Ahead
  <2>2. Len(Round') \in Nat /\ Place(cycle'.stage) = 0
    BY <1>2 DEF Round, Place
  <2> QED
    BY <1>2, <2>1, <2>2 DEF WorkShape
<1>11. FollowsItinerary'
  <2>1. TypeOK' /\ CycleShape' /\ cycle'.stage \in Active
    BY <1>2, <1>5, <1>7 DEF Active
  <2>2. Itinerary' \in Seq(Child)
    BY <2>1, NextItineraryIsSeq
  <2>3. IsPrefix(<<>>, Itinerary')
    BY <2>2, EmptyPrefix
  <2> QED
    BY <1>2, <2>3 DEF FollowsItinerary
<1> QED
  BY <1>5, <1>7, <1>8, <1>9, <1>10, <1>11 DEF IInv

\* The mission has failed before it began, and the core with it.
LEMMA NewCycleIsPlanned ==
    ASSUME NEW stage \in Active \cup Terminal, NEW n \in 1..MaxCycles, NEW g \in Group,
           NEW first \in 0..(g - 1), cycle' = NewCycle(stage, n, g, first)
    PROVE  IsPlanned' /\ cycle'.stage = stage /\ cycle'.completed <= cycle'.requested
BY PlanAssumption, PointsOfGroup DEF NewCycle, IsPlanned, CycleRecord

LEMMA StartFailsKeeps ==
    ASSUME IInv, NEW r \in RunId, NEW n \in 1..MaxCycles, NEW g \in Group,
           NEW first \in 0..(g - 1), StartFails(r, n, g, first)
    PROVE  IInv'
<1>1. /\ cycle.stage = "IDLE" /\ running = None /\ event = None
      /\ pc.control = "idle"
  BY NoneAssumption
     DEF StartFails, ResetSession, Renewed, IInv, TypeOK, MotionShape, ChildShape, Active
<1>2. /\ cycle' = NewCycle("FAILED", n, g, first)
      /\ session' = r /\ latch' = TRUE /\ pending' = None
      /\ lease' = "fresh" /\ work' = <<>>
      /\ live' = FALSE /\ auth' = None /\ claim' = None
      /\ resumed' = FALSE /\ actGen' = None /\ actWas' = FALSE /\ waited' = FALSE
      /\ receipt' = "fresh"
      /\ UNCHANGED <<profile, executor, event, seg, worker, pc>>
  BY DEF StartFails, ResetSession, Renewed, CoreStop
<1>3. /\ IsPlanned' /\ cycle'.stage = "FAILED" /\ cycle'.completed <= cycle'.requested
      /\ cycle'.stage \notin Active
  BY <1>2, NewCycleIsPlanned DEF Terminal, Active
<1>4. TypeOK'
  <2>1. MissionType'
    BY <1>2, <1>3 DEF MissionType, IsPlanned, IInv, TypeOK
  <2>2. ChildrenType'
    BY <1>2 DEF ChildrenType, IInv, TypeOK, executor
  <2>3. PcType' /\ RestType'
    BY <1>1, <1>2 DEF PcType, RestType, IInv, TypeOK
  <2> QED
    BY <2>1, <2>2, <2>3 DEF TypeOK, MissionType, ChildrenType, PcType, RestType, CycleRecord
<1>5. CycleShape' /\ WorkShape'
  BY <1>3 DEF CycleShape, WorkShape
<1>6. MotionShape' /\ ChildShape' /\ LaunchShape'
  BY <1>1, <1>2, <1>3, NoneAssumption
     DEF MotionShape, ChildShape, LaunchShape, Policy
<1>7. FollowsItinerary'
  <2>1. IsPrefix(<<>>, Itinerary')
    BY <1>3, NextPlannedIsNonempty, EmptyPrefix
  <2> QED
    BY <1>2, <1>3, <2>1 DEF FollowsItinerary
<1> QED
  BY <1>4, <1>5, <1>6, <1>7 DEF IInv

LEMMA StartRefusedKeeps ==
    ASSUME IInv, NEW r \in RunId, StartRefused(r) PROVE IInv'
<1>1. CoreStop \/ UNCHANGED motion
  BY DEF StartRefused, RenewRefused
<1>2. lease' \in {None, "fresh", "expired"} /\ (latch' = latch \/ latch' = FALSE)
  BY DEF StartRefused, RenewRefused, Renewed, IInv, TypeOK
<1>3. TypeOK'
  <2>1. latch' \in BOOLEAN
    BY <1>2 DEF IInv, TypeOK
  <2> QED
    BY <1>1, <1>2, <2>1, CoreLoses DEF StartRefused, ResetSession, IInv, TypeOK, executor
<1>4. MissionStays
  BY <1>1, <1>2, CoreLoses
     DEF StartRefused, ResetSession, MissionStays, IInv, TypeOK, MotionShape, executor
<1> QED
  BY <1>3, <1>4, StayingKeepsIInv

LEMMA HeartbeatKeeps == ASSUME IInv, Heartbeat PROVE IInv'
<1>1. CoreStop \/ UNCHANGED motion
  BY DEF Heartbeat, RenewRefused
<1>2. lease' \in {None, "fresh", "expired"}
  BY DEF Heartbeat, RenewRefused, Renewed, IInv, TypeOK
<1>3. TypeOK'
  BY <1>1, <1>2, CoreLoses DEF Heartbeat, IInv, TypeOK, executor, mission, activation
<1>4. MissionStays
  BY <1>1, <1>2, CoreLoses
     DEF Heartbeat, MissionStays, IInv, TypeOK, MotionShape, executor, mission, activation
<1> QED
  BY <1>3, <1>4, StayingKeepsIInv

LEMMA WorldKeeps ==
    ASSUME IInv,
           LeasePasses \/ ActivationTimePasses \/ GracePasses \/ WorkerChange \/ CandidateFault
    PROVE  IInv'
<1>1. CASE LeasePasses \/ ActivationTimePasses \/ GracePasses
  <2>1. TypeOK'
    <3>1. ASSUME LeasePasses PROVE TypeOK'
      BY <3>1 DEF LeasePasses, Rest, IInv, TypeOK, executor, mission, motion
    <3>2. ASSUME ActivationTimePasses PROVE TypeOK'
      BY <3>2 DEF ActivationTimePasses, Rest, IInv, TypeOK, executor, mission, motion
    <3>3. ASSUME GracePasses PROVE TypeOK'
      BY <3>3 DEF GracePasses, Rest, IInv, TypeOK, executor, mission, motion
    <3> QED
      BY <1>1, <3>1, <3>2, <3>3
  <2>2. MissionStays
    BY <1>1 DEF LeasePasses, ActivationTimePasses, GracePasses, Rest, MissionStays,
       IInv, TypeOK, MotionShape, executor, mission, motion
  <2> QED
    BY <2>1, <2>2, StayingKeepsIInv
<1>2. CASE WorkerChange
  <2>1. worker' \in BOOLEAN
    BY <1>2, ZenonT(20) DEF WorkerChange
  <2>2. TypeOK'
    BY <1>2, <2>1 DEF WorkerChange, Rest, IInv, TypeOK, executor, mission
  <2>3. MissionStays
    BY <1>2, NoneAssumption DEF WorkerChange, Rest, MissionStays, IInv, TypeOK, MotionShape,
       executor, mission, Policy
  <2> QED
    BY <2>2, <2>3, StayingKeepsIInv
<1>3. CASE CandidateFault
  <2>1. CoreStop \/ (live' = live /\ auth' = None /\ claim' = claim)
    BY <1>3 DEF CandidateFault
  <2>2. TypeOK'
    BY <1>3, <2>1, CoreLoses DEF CandidateFault, Rest, IInv, TypeOK, executor, mission
  <2>3. MissionStays
    BY <1>3, <2>1, CoreLoses DEF CandidateFault, Rest, MissionStays, IInv, TypeOK,
       MotionShape, executor, mission
  <2> QED
    BY <2>2, <2>3, StayingKeepsIInv
<1> QED
  BY <1>1, <1>2, <1>3

LEMMA NextTypeParts ==
    ASSUME MissionType', ChildrenType', PcType', RestType' PROVE TypeOK'
BY DEF TypeOK, MissionType, ChildrenType, PcType, RestType, CycleRecord

\* A driver's failure, with or without the zero, keeps the invariant.
LEMMA AbortKeeps ==
    ASSUME Driven, TypeOK', MissionEnds \/ MissionHalts, PlanKept,
           UNCHANGED <<session, event, running, seg>>, pc'.control = "idle"
    PROVE  IInv'
<1>1. CASE MissionEnds
  BY <1>1, EndKeepsIInv DEF Driven
<1>2. CASE MissionHalts
  <2>1. MissionStays
    BY <1>2, NoneAssumption DEF MissionHalts, MissionStays, PlanKept, Driven, Policy
  <2> QED
    BY <2>1, StayingKeepsIInv DEF Driven
<1> QED
  BY <1>1, <1>2

LEMMA FinishStartKeeps == ASSUME IInv, FinishStart PROVE IInv'
<1>1. /\ pc.control = "launch" /\ cycle.stage = "FOLLOW_DIG" /\ pending = Due(cycle)
      /\ running = None /\ event = None /\ ~Ahead /\ Driven
      /\ UNCHANGED <<profile, session, event, lease, worker, work>>
  BY DEF FinishStart, IInv, LaunchShape, Ahead, Driven, Active
<1>2. MissionType /\ ChildrenType /\ PcType /\ RestType /\ SamePlan(cycle)
  BY TypeParts DEF IInv, SamePlan
<1>3. ASSUME NEW raised \in BOOLEAN, Leave("control", raised)
      PROVE  PcType' /\ RestType' /\ pc'.control = "idle"
  BY <1>1, <1>2, <1>3, LeaveEffect DEF RestType
<1>4. CASE /\ Leave("control", FALSE)
           /\ UNCHANGED <<mission, pending, receipt, motion, resumed, executor, seg, activation>>
  <2>1. PcType' /\ RestType' /\ pc'.control = "idle"
    BY <1>3, <1>4
  <2>2. MissionType' /\ ChildrenType'
    BY <1>2, <1>4 DEF MissionType, ChildrenType, mission, motion, executor, activation
  <2>3. MissionStays
    BY <1>1, <1>4, <2>1
       DEF MissionStays, IInv, MotionShape, mission, motion, executor, activation
  <2> QED
    BY <2>1, <2>2, <2>3, NextTypeParts, StayingKeepsIInv
<1>5. CASE Abort("control", "FAILED") /\ UNCHANGED <<resumed, executor, seg, activation>>
  <2>1. /\ MissionType' /\ (MissionEnds \/ MissionHalts)
        /\ \E raised \in BOOLEAN : Leave("control", raised)
    BY <1>1, <1>5, AbortEffect DEF Terminal
  <2>2. PcType' /\ RestType' /\ pc'.control = "idle"
    BY <1>3, <2>1
  <2>3. ChildrenType' /\ running' = running
    BY <1>2, <1>5 DEF ChildrenType, executor, activation
  <2>4. PlanKept
    BY <1>1, <1>2, <2>1 DEF PlanKept, MissionEnds, MissionHalts, SamePlan
  <2> QED
    BY <1>1, <1>5, <2>1, <2>2, <2>3, <2>4, NextTypeParts, AbortKeeps
<1>6. CASE auth = "rl" /\ Launch("control", cycle, pending)
  <2>1. /\ MissionType' /\ ChildrenType' /\ (MissionEnds \/ MissionGoes(cycle))
        /\ \E raised \in BOOLEAN : Leave("control", raised)
    BY <1>1, <1>2, <1>6, LaunchEffect DEF MissionType, Active
  <2>2. PcType' /\ RestType' /\ pc'.control = "idle"
    BY <1>3, <2>1
  <2>3. PlanKept
    BY <1>1, <1>2, <2>1 DEF PlanKept, MissionEnds, MissionGoes
  <2>4. TypeOK'
    BY <2>1, <2>2, NextTypeParts
  <2>5. CASE MissionEnds
    BY <1>1, <2>2, <2>3, <2>4, <2>5, EndKeepsIInv DEF Driven
  <2>6. CASE MissionGoes(cycle)
    BY <1>1, <2>2, <2>3, <2>4, <2>6, GoingKeepsIInv DEF Driven
  <2> QED
    BY <2>1, <2>5, <2>6
<1> QED
  BY <1>1, <1>4, <1>5, <1>6 DEF FinishStart

LEMMA CancelKeeps == ASSUME IInv, Cancel PROVE IInv'
<1>1. /\ pc.control = "idle"
      /\ UNCHANGED <<profile, session, resumed, activation, executor, event, seg, lease,
                     worker, work>>
  BY DEF Cancel
<1>2. MissionType /\ ChildrenType /\ PcType /\ RestType
  BY TypeParts DEF IInv
<1>3. ChildrenType' /\ running' = running
  BY <1>1, <1>2 DEF ChildrenType, executor, activation
<1>4. CASE cycle.stage \in Active
  <2>1. /\ MissionType' /\ (MissionEnds \/ MissionHalts)
        /\ \E raised \in BOOLEAN : Leave("control", raised)
    BY <1>4, AbortEffect DEF Cancel, Driven, Terminal
  <2>2. PcType' /\ RestType' /\ pc'.control = "idle"
    BY <1>1, <1>2, <2>1, LeaveEffect DEF RestType
  <2>3. PlanKept
    BY <1>1, <2>1 DEF PlanKept, MissionEnds, MissionHalts, SamePlan
  <2> QED
    BY <1>1, <1>3, <1>4, <2>1, <2>2, <2>3, NextTypeParts, AbortKeeps DEF Driven
<1>5. CASE cycle.stage \notin Active
  <2>1. (\E written \in BOOLEAN : Disarm(written)) /\ UNCHANGED <<cycle, pc>>
    BY <1>5 DEF Cancel
  <2>2. CASE UNCHANGED <<latch, pending, receipt, motion>>
    <3>1. TypeOK'
      BY <1>1, <2>1, <2>2 DEF IInv, TypeOK, motion, activation, executor
    <3>2. MissionStays
      BY <1>1, <1>5, <2>1, <2>2 DEF MissionStays, IInv, MotionShape, motion, executor
    <3> QED
      BY <3>1, <3>2, StayingKeepsIInv
  <2>3. CASE /\ pending' = None /\ live' = FALSE /\ auth' = None /\ claim' = None
             /\ latch' \in BOOLEAN /\ receipt' \in {"fresh", receipt}
    <3>1. TypeOK'
      <4>1. MissionType'
        BY <1>2, <2>1, <2>3 DEF MissionType
      <4>2. PcType' /\ RestType'
        BY <1>1, <1>2, <2>1 DEF PcType, RestType
      <4> QED
        BY <1>3, <4>1, <4>2, NextTypeParts
    <3>2. MissionStays
      BY <1>1, <1>5, <2>1, <2>3, NoneAssumption DEF MissionStays, executor, Policy
    <3> QED
      BY <3>1, <3>2, StayingKeepsIInv
  <2> QED
    BY <2>1, <2>2, <2>3 DEF Disarm
<1> QED
  BY <1>4, <1>5

LEMMA TakeEventKeeps == ASSUME IInv, TakeEvent PROVE IInv'
<1>1. /\ pc.owner = "event" /\ pc.control = "idle" /\ event' = None /\ event # None
      /\ UNCHANGED <<profile, session, lease, worker, work>>
  BY DEF TakeEvent, RuntimeLockFree, IInv, TypeOK
<1>2. MissionType /\ ChildrenType /\ PcType /\ RestType /\ SamePlan(cycle)
  BY TypeParts DEF IInv, SamePlan
<1>3. ASSUME NEW raised \in BOOLEAN, Leave("owner", raised)
      PROVE  PcType' /\ RestType' /\ pc'.control = "idle"
  <2>1. PcType' /\ pc'.control = "idle" /\ pc'.owner # "event"
    BY <1>1, <1>2, <1>3, LeaveEffect
  <2> QED
    BY <1>1, <1>2, <2>1 DEF RestType
<1>4. CASE event.do = "feedback" \/ cycle.stage \notin Active
  <2>1. /\ Leave("owner", FALSE)
        /\ UNCHANGED <<mission, pending, receipt, motion, resumed, executor, seg, activation>>
    BY <1>4 DEF TakeEvent
  <2>2. MissionType' /\ ChildrenType' /\ PcType' /\ RestType' /\ pc'.control = "idle"
    <3>1. PcType' /\ RestType' /\ pc'.control = "idle"
      BY <1>3, <2>1
    <3>2. MissionType' /\ ChildrenType'
      BY <1>2, <2>1 DEF MissionType, ChildrenType, mission, motion, executor, activation
    <3> QED
      BY <3>1, <3>2
  <2>3. MissionStays
    BY <1>1, <1>4, <2>1, <2>2
       DEF MissionStays, IInv, MotionShape, mission, motion, executor
  <2> QED
    BY <2>2, <2>3, NextTypeParts, StayingKeepsIInv
<1>5. CASE event.do # "feedback" /\ cycle.stage \in Active
  <2>1. /\ event.do = "result" /\ running = None /\ pending = None /\ Driven
        /\ cycle.stage # "ACT" /\ "act" \notin {auth, claim}
    BY <1>1, <1>5 DEF IInv, TypeOK, Event, ChildShape, MotionShape, Driven
  <2>2. CASE Accepted /\ Succeed("owner")
    <3>1. Ahead
      BY <1>1, <2>1, <2>2 DEF Ahead, Accepted
    <3>2. /\ MissionType' /\ ChildrenType'
          /\ \/ MissionEnds
             \/ Advanced(cycle).stage \in Active /\ MissionGoes(Advanced(cycle))
          /\ \E raised \in BOOLEAN : Leave("owner", raised)
      BY <2>1, <2>2, <3>1, SucceedEffect
    <3>3. PcType' /\ RestType' /\ pc'.control = "idle"
      BY <1>3, <3>2
    <3>4. TypeOK'
      BY <3>2, <3>3, NextTypeParts
    <3>5. CASE MissionEnds
      <4>1. PlanKept
        BY <1>1, <3>5 DEF PlanKept, MissionEnds
      <4> QED
        BY <1>5, <3>3, <3>4, <3>5, <4>1, EndKeepsIInv
    <3>6. CASE Advanced(cycle).stage \in Active /\ MissionGoes(Advanced(cycle))
      <4>1. PlanKept
        BY <1>1, <1>5, <3>6, AdvancedCycle DEF PlanKept, MissionGoes, IInv
      <4> QED
        BY <1>1, <1>5, <3>1, <3>3, <3>4, <3>6, <4>1, GoingKeepsIInv
    <3> QED
      BY <3>2, <3>5, <3>6
  <2>3. CASE End("owner", cycle, "FAILED") /\ UNCHANGED <<resumed, executor, seg, activation>>
    <3>1. MissionType' /\ MissionEnds /\ \E raised \in BOOLEAN : Leave("owner", raised)
      BY <1>2, <2>1, <2>3, EndEffect DEF Terminal, MissionType
    <3>2. ChildrenType'
      BY <1>2, <2>3 DEF ChildrenType, executor, activation
    <3>3. PcType' /\ RestType' /\ pc'.control = "idle"
      BY <1>3, <3>1
    <3>4. PlanKept
      BY <1>1, <3>1 DEF PlanKept, MissionEnds
    <3> QED
      BY <1>5, <3>1, <3>2, <3>3, <3>4, NextTypeParts, EndKeepsIInv
  <2> QED
    BY <1>5, <2>2, <2>3 DEF TakeEvent
<1> QED
  BY <1>4, <1>5

LEMMA TickKeeps == ASSUME IInv, Tick PROVE IInv'
<1>1. /\ pc.owner = "tick" /\ pc.control = "idle" /\ event = None /\ event' = None
      /\ UNCHANGED <<profile, session, event, lease, worker, work>>
  BY DEF Tick, RuntimeLockFree, IInv, TypeOK
<1>2. MissionType /\ ChildrenType /\ PcType /\ RestType /\ SamePlan(cycle)
  BY TypeParts DEF IInv, SamePlan
<1>3. ASSUME NEW raised \in BOOLEAN, Leave("owner", raised)
      PROVE  PcType' /\ RestType' /\ pc'.control = "idle"
  <2>1. PcType' /\ pc'.control = "idle" /\ pc'.owner # "event"
    BY <1>1, <1>2, <1>3, LeaveEffect
  <2> QED
    BY <1>1, <1>2, <2>1 DEF RestType
<1>4. CASE /\ Leave("owner", FALSE)
           /\ UNCHANGED <<mission, pending, receipt, motion, resumed, executor, seg, actGen>>
           /\ actWas' \in BOOLEAN /\ waited' = waited
  <2>1. MissionType' /\ ChildrenType'
    BY <1>2, <1>4 DEF MissionType, ChildrenType, mission, motion, executor
  <2>2. PcType' /\ RestType' /\ pc'.control = "idle"
    BY <1>3, <1>4
  <2>3. MissionStays
    BY <1>1, <1>4, <2>2 DEF MissionStays, IInv, MotionShape, mission, motion, executor
  <2> QED
    BY <2>1, <2>2, <2>3, NextTypeParts, StayingKeepsIInv
<1>5. ASSUME cycle.stage \in Active,
             Abort("owner", "FAILED") /\ UNCHANGED <<resumed, executor, seg, activation>>
      PROVE  IInv'
  <2>1. /\ MissionType' /\ (MissionEnds \/ MissionHalts)
        /\ \E raised \in BOOLEAN : Leave("owner", raised)
    BY <1>5, AbortEffect DEF Terminal, Driven
  <2>2. PcType' /\ RestType' /\ pc'.control = "idle"
    BY <1>3, <2>1
  <2>3. ChildrenType' /\ running' = running
    BY <1>2, <1>5 DEF ChildrenType, executor, activation
  <2>4. PlanKept
    BY <1>1, <1>2, <2>1 DEF PlanKept, MissionEnds, MissionHalts, SamePlan
  <2> QED
    BY <1>1, <1>5, <2>1, <2>2, <2>3, <2>4, NextTypeParts, AbortKeeps DEF Driven
<1>6. ASSUME cycle.stage = "ACT", seg.done, Succeed("owner") PROVE IInv'
  <2>1. /\ Driven /\ Ahead /\ cycle.stage \in Active
        /\ running = None /\ pending = None /\ "act" \notin {auth, claim}
    BY <1>6 DEF Driven, Ahead, IInv, ChildShape, MotionShape, Active
  <2>2. /\ MissionType' /\ ChildrenType'
        /\ \/ MissionEnds
           \/ Advanced(cycle).stage \in Active /\ MissionGoes(Advanced(cycle))
        /\ \E raised \in BOOLEAN : Leave("owner", raised)
    BY <1>6, <2>1, SucceedEffect
  <2>3. PcType' /\ RestType' /\ pc'.control = "idle"
    BY <1>3, <2>2
  <2>4. TypeOK'
    BY <2>2, <2>3, NextTypeParts
  <2>5. CASE MissionEnds
    <3>1. PlanKept
      BY <1>1, <2>5 DEF PlanKept, MissionEnds
    <3> QED
      BY <2>1, <2>3, <2>4, <2>5, <3>1, EndKeepsIInv
  <2>6. CASE Advanced(cycle).stage \in Active /\ MissionGoes(Advanced(cycle))
    <3>1. PlanKept
      BY <1>1, <2>1, <2>6, AdvancedCycle DEF PlanKept, MissionGoes, IInv
    <3> QED
      BY <1>1, <2>1, <2>3, <2>4, <2>6, <3>1, GoingKeepsIInv
  <2> QED
    BY <2>2, <2>5, <2>6
<1>7. ASSUME cycle.stage \in Active \ {"ACT"}, pending # None, auth = "rl",
             Launch("owner", cycle, pending)
      PROVE  IInv'
  <2>1. Driven /\ ~Ahead /\ pending = Due(cycle)
    BY <1>1, <1>7 DEF Driven, Ahead, IInv, ChildShape
  <2>2. /\ MissionType' /\ ChildrenType' /\ (MissionEnds \/ MissionGoes(cycle))
        /\ \E raised \in BOOLEAN : Leave("owner", raised)
    BY <1>2, <1>7, <2>1, LaunchEffect DEF MissionType
  <2>3. PcType' /\ RestType' /\ pc'.control = "idle"
    BY <1>3, <2>2
  <2>4. TypeOK'
    BY <2>2, <2>3, NextTypeParts
  <2>5. PlanKept
    BY <1>1, <1>2, <2>2 DEF PlanKept, MissionEnds, MissionGoes
  <2>6. CASE MissionEnds
    BY <1>7, <2>3, <2>4, <2>5, <2>6, EndKeepsIInv
  <2>7. CASE MissionGoes(cycle)
    BY <1>1, <1>7, <2>1, <2>3, <2>4, <2>5, <2>7, GoingKeepsIInv
  <2> QED
    BY <2>2, <2>6, <2>7
<1>8. ASSUME NothingToDo PROVE IInv'
  <2>1. actWas' \in BOOLEAN
    BY <1>2, <1>8 DEF NothingToDo, ChildrenType, activation
  <2> QED
    BY <1>4, <1>8, <2>1 DEF NothingToDo, activation
<1>9. ASSUME actWas' = (actWas \/ auth = "act"), Leave("owner", FALSE),
             UNCHANGED <<mission, pending, receipt, motion, resumed, executor, seg,
                         actGen, waited>>
      PROVE  IInv'
  <2>1. actWas' \in BOOLEAN
    BY <1>9, ZenonT(20)
  <2> QED
    BY <1>4, <1>9, <2>1
<1> QED
  BY <1>5, <1>6, <1>7, <1>8, <1>9 DEF Tick

-----------------------------------------------------------------------------
(* The specification keeps the invariant.                                  *)

LEMMA StepKeepsIInv == IInv /\ [Next]_vars => IInv'
<1> SUFFICES ASSUME IInv, [Next]_vars PROVE IInv'
  OBVIOUS
<1>1. ASSUME NEW r \in RunId, StartRefused(r) PROVE IInv'
  BY <1>1, StartRefusedKeeps
<1>2. ASSUME NEW r \in RunId, NEW n \in 1..MaxCycles, NEW g \in Group,
             NEW first \in 0..(g - 1), StartMission(r, n, g, first)
      PROVE  IInv'
  BY <1>2, StartMissionKeeps
<1>3. CASE FinishStart \/ Heartbeat \/ Cancel
  BY <1>3, FinishStartKeeps, HeartbeatKeeps, CancelKeeps
<1>4. CASE OwnerStep
  BY <1>4, TopOfLoopKeeps, RowKeeps, NoRowKeeps, ObserveGoesOnKeeps, ObserveEndKeeps,
     TakeEventKeeps, TickKeeps DEF OwnerStep
<1>5. CASE LeasePasses \/ ActivationTimePasses \/ GracePasses \/ WorkerChange \/ CandidateFault
  BY <1>5, WorldKeeps
<1>6. CASE UNCHANGED vars
  <2>1. UNCHANGED <<profile, mission, pending, session, resumed, activation, receipt, executor,
                    event, motion, seg, lease, worker, pc, work>>
    BY <1>6 DEF vars
  <2>2. TypeOK'
    BY <2>1 DEF IInv, TypeOK, mission, activation, executor, motion
  <2>3. MissionStays
    BY <2>1 DEF IInv, MotionShape, MissionStays, mission, activation, executor, motion
  <2> QED
    BY <2>2, <2>3, StayingKeepsIInv
<1>7. ASSUME NEW r \in RunId, NEW n \in 1..MaxCycles, NEW g \in Group,
             NEW first \in 0..(g - 1), StartFails(r, n, g, first)
      PROVE  IInv'
  BY <1>7, StartFailsKeeps
<1> QED
  BY <1>1, <1>2, <1>3, <1>4, <1>5, <1>6, <1>7 DEF Next

\* The inductive invariant holds of every mission: the runtime, the coordinator and
\* the executor agree on what the stage calls for and on what has been done.
THEOREM AlwaysIInv == Spec => []IInv
BY InitEstablishesIInv, StepKeepsIInv, PTL DEF Spec

-----------------------------------------------------------------------------
(* The results.                                                            *)

\* FixedCycle.TypeOK: the variables keep the types that the runtime, the coordinator
\* and the executor give them, and no round is counted beyond the requested ones.
THEOREM MissionTypeCorrectness == Spec => []TypeOK
BY AlwaysIInv, PTL DEF IInv

\* FixedCycle.FollowsItinerary: for every plan and number of cycles, the children that
\* succeeded are a prefix of the mission's itinerary, and all of it if the mission is
\* COMPLETED, whatever starts are refused and whatever fails.
THEOREM MissionAlwaysFollowsItinerary == Spec => []FollowsItinerary
BY AlwaysIInv, PTL DEF IInv

\* FixedCycle.MotionMatchesStage: what runs, waits or has motion authority belongs to
\* the stage of the mission, and never both policies at once.
THEOREM MotionAlwaysMatchesStage == Spec => []MotionMatchesStage
<1>1. IInv => MotionMatchesStage
  BY NoneAssumption DEF IInv, ChildShape, MotionShape, MotionMatchesStage, Active, Policy
<1> QED
  BY <1>1, AlwaysIInv, PTL

\* FixedCycle.NoLockCycle: a start that holds the runtime's lock never waits for the
\* executor's while the owner waits for the runtime's.
THEOREM NeverLockCycle == Spec => []NoLockCycle
<1>1. IInv => NoLockCycle
  BY DEF IInv, TypeOK, LaunchShape, NoLockCycle
<1> QED
  BY <1>1, AlwaysIInv, PTL

\* A mission that has its outcome, on a core that is not operational.
LEMMA OutcomeStep ==
    ASSUME IInv, Next, cycle.stage \in Terminal
    PROVE  /\ cycle' = cycle /\ claim' = None /\ auth' = None
           /\ running' \in {None, running}
<1>1. /\ live = FALSE /\ auth = None /\ claim = None
      /\ cycle.stage \notin Active /\ pc.control = "idle" /\ auth # "rl" /\ auth # "act"
  BY NoneAssumption
     DEF IInv, TypeOK, MotionShape, LaunchShape, Active, Terminal, Policy
<1>2. ASSUME NEW r \in RunId, StartRefused(r)
      PROVE  cycle' = cycle /\ claim' = None /\ auth' = None /\ running' = running
  BY <1>1, <1>2 DEF StartRefused, ResetSession, RenewRefused, Renewed, CoreStop, motion, executor
<1>3. ASSUME NEW r \in RunId, NEW n \in 1..MaxCycles, NEW g \in Group,
             NEW first \in 0..(g - 1),
             StartMission(r, n, g, first) \/ StartFails(r, n, g, first)
      PROVE  FALSE
  BY <1>1, <1>3 DEF StartMission, StartFails, Renewed
<1>4. ~FinishStart /\ ~Heartbeat
  BY <1>1 DEF FinishStart, Heartbeat
<1>5. ASSUME Cancel
      PROVE  cycle' = cycle /\ claim' = None /\ auth' = None /\ running' = running
  BY <1>1, <1>5 DEF Cancel, Disarm, motion, executor
<1>6. ASSUME TopOfLoop \/ NoRow
      PROVE  cycle' = cycle /\ claim' = None /\ auth' = None /\ running' = running
  BY <1>1, <1>6 DEF TopOfLoop, NoRow, Lost, CoreStop, mission, motion, executor
<1>7. ASSUME Row
      PROVE  cycle' = cycle /\ claim' = None /\ auth' = None /\ running' = running
  BY <1>1, <1>7 DEF Row, Lost, CoreStop, mission, motion, executor
<1>8. ASSUME ObserveGoesOn \/ ObserveEnd
      PROVE  cycle' = cycle /\ claim' = None /\ auth' = None /\ running' \in {None, running}
  <2>1. CASE ObserveGoesOn
    BY <1>1, <2>1 DEF ObserveGoesOn, mission, motion, executor
  <2>2. CASE ObserveEnd
    BY <1>1, <2>2 DEF ObserveEnd, CoreStop, mission, motion
  <2> QED
    BY <1>8, <2>1, <2>2
<1>9. ASSUME TakeEvent \/ Tick
      PROVE  cycle' = cycle /\ claim' = None /\ auth' = None /\ running' = running
  <2>1. CASE TakeEvent
    BY <1>1, <2>1 DEF TakeEvent, mission, motion, executor
  <2>2. CASE Tick
    BY <1>1, <2>2 DEF Tick, NothingToDo, mission, motion, executor
  <2> QED
    BY <1>9, <2>1, <2>2
<1>10. ASSUME LeasePasses \/ ActivationTimePasses \/ GracePasses \/ WorkerChange \/ CandidateFault
       PROVE  cycle' = cycle /\ claim' = None /\ auth' = None /\ running' = running
  BY <1>1, <1>10 DEF LeasePasses, ActivationTimePasses, GracePasses, WorkerChange,
     CandidateFault, Rest, mission, motion, executor
<1> QED
  BY <1>2, <1>3, <1>4, <1>5, <1>6, <1>7, <1>8, <1>9, <1>10 DEF Next, OwnerStep

\* FixedCycle.OutcomeIsFinal: once a mission is COMPLETED, FAILED or CANCELLED, no
\* step changes what a status reports, claims motion or launches a child.
THEOREM OutcomeIsAlwaysFinal == Spec => OutcomeIsFinal
<1>1. IInv /\ [Next]_vars =>
        [cycle.stage \in Terminal =>
           /\ cycle' = cycle
           /\ claim' = None /\ auth' = None
           /\ running' \in {None, running}]_vars
  BY OutcomeStep
<1> QED
  BY <1>1, AlwaysIInv, PTL DEF Spec, OutcomeIsFinal

-----------------------------------------------------------------------------
(* The mission keeps its promise: what Mission sees of it.                 *)

ReportNow == IF cycle.stage \in Active THEN "WORKING" ELSE cycle.stage

PlanNow == IF cycle.stage = "IDLE" THEN <<>> ELSE Itinerary

MoverNow ==
    IF auth = "rl" THEN running
    ELSE IF auth = "act" THEN Due(cycle) ELSE None

\* A step of this specification as one of Mission.
Keeps == [Promise!Next]_<<ReportNow, PlanNow, Len(work), MoverNow>>

\* Who has the machine is the child that is due, and it has not succeeded yet.
LEMMA MoverIsDue ==
    ASSUME IInv, MoverNow # None
    PROVE  cycle.stage \in Active /\ MoverNow = Due(cycle) /\ ~Ahead
<1>1. /\ auth \in {"rl", "act", None} /\ auth # None => live /\ claim = None
      /\ cycle.stage \in Active \cup Terminal \cup {"IDLE"}
      /\ running \in Child \cup {None} /\ event \in Event \cup {None}
  BY DEF IInv, TypeOK, Policy
<1>2. "act" # None /\ "rl" # None
  BY NoneAssumption DEF Policy
<1>3. live
  BY <1>1, <1>2 DEF MoverNow
<1>4. CASE auth = "rl"
  <2>1. running # None /\ MoverNow = running
    BY <1>4 DEF MoverNow
  <2>2. cycle.stage \notin Terminal /\ cycle.stage # "IDLE"
    BY <1>3, <2>1 DEF IInv, MotionShape, ChildShape
  <2>3. cycle.stage \in Active
    BY <1>1, <2>2
  <2>4. running = Due(cycle) /\ cycle.stage # "ACT" /\ ~(event # None /\ event.do = "result")
    BY <2>1, <2>3 DEF IInv, ChildShape
  <2> QED
    BY <2>1, <2>3, <2>4 DEF Ahead
<1>5. CASE auth = "act"
  <2>1. cycle.stage = "ACT" /\ ~seg.done
    BY <1>5 DEF IInv, MotionShape
  <2>2. cycle.stage \in Active /\ event = None
    BY <2>1 DEF IInv, ChildShape, Active
  <2> QED
    BY <1>5, <2>1, <2>2 DEF MoverNow, Ahead
<1> QED
  BY <1>1, <1>2, <1>4, <1>5 DEF MoverNow

LEMMA MoverIsDueAlways ==
    IInv /\ MoverNow # None => cycle.stage \in Active /\ MoverNow = Due(cycle) /\ ~Ahead
BY MoverIsDue

LEMMA NextMoverIsDue ==
    (IInv /\ MoverNow # None => cycle.stage \in Active /\ MoverNow = Due(cycle) /\ ~Ahead)'
BY MoverIsDueAlways, PTL

\* The child that is due is the next of the plan.
LEMMA DueIsNext ==
    ASSUME IInv, cycle.stage \in Active, ~Ahead
    PROVE  /\ PlanNow = Itinerary /\ Len(work) \in Nat
           /\ Len(work) < Len(Itinerary) /\ Itinerary[Len(work) + 1] = Due(cycle)
<1>1. TypeOK /\ CycleShape /\ WorkShape /\ cycle.stage # "IDLE"
  BY DEF IInv, Active
<1>2. Itinerary \in Seq(Child) /\ Len(Itinerary) = cycle.requested * Len(Round) + 1
  BY <1>1, ItineraryIsSeq
<1>3. Len(work) + 1 \in 1..Len(Itinerary) /\ Itinerary[Len(work) + 1] = Due(cycle)
  BY <1>1, <1>2, ItineraryAt, WorkLength
<1>4. Len(work) \in Nat /\ Len(Itinerary) \in Nat
  BY <1>1, <1>2 DEF TypeOK
<1> QED
  BY <1>1, <1>3, <1>4 DEF PlanNow

LEMMA DueIsNextAlways ==
    IInv /\ cycle.stage \in Active /\ ~Ahead =>
      /\ PlanNow = Itinerary /\ Len(work) \in Nat
      /\ Len(work) < Len(Itinerary) /\ Itinerary[Len(work) + 1] = Due(cycle)
BY DueIsNext

LEMMA DueIsNextThen ==
    (IInv /\ cycle.stage \in Active /\ ~Ahead =>
      /\ PlanNow = Itinerary /\ Len(work) \in Nat
      /\ Len(work) < Len(Itinerary) /\ Itinerary[Len(work) + 1] = Due(cycle))'
BY DueIsNextAlways, PTL

\* What a step makes of the stage: it stays, its child has succeeded and the next
\* one's comes, or the mission has its outcome.
StageGoes ==
    \/ cycle' = cycle
    \/ cycle.stage \in Active /\ cycle'.stage \in Active /\ Ahead
    \/ cycle.stage \in Active /\ cycle'.stage \in Terminal

LEMMA PlanNowKept ==
    ASSUME PlanKept, cycle.stage = "IDLE" <=> cycle'.stage = "IDLE"
    PROVE  PlanNow' = PlanNow /\ Len(work)' = Len(work)
BY ItineraryKept DEF PlanNow, PlanKept

\* A step that counts no child gives the machine to the child that is due, takes it
\* away, or ends the mission.
LEMMA UncountedStepKeeps ==
    ASSUME IInv, IInv', PlanKept, StageGoes
    PROVE  Keeps
<1>1. /\ cycle.stage = "IDLE" <=> cycle'.stage = "IDLE"
      /\ PlanNow' = PlanNow /\ Len(work)' = Len(work)
  <2>1. cycle.stage = "IDLE" <=> cycle'.stage = "IDLE"
    BY DEF StageGoes, Active, Terminal
  <2> QED
    BY <2>1, PlanNowKept
<1>2. CASE cycle.stage \in Active /\ cycle'.stage \in Terminal
  <2>1. MoverNow' = None
    BY <1>2, NextMoverIsDue DEF Active, Terminal
  <2>2. ReportNow = "WORKING" /\ ReportNow' = cycle'.stage
    BY <1>2 DEF ReportNow, Active, Terminal
  <2>3. CASE cycle'.stage \in {"FAILED", "CANCELLED"}
    <3>1. Promise!GiveUp
      BY <1>1, <2>1, <2>2, <2>3 DEF Promise!GiveUp, ReportNow, PlanNow, MoverNow
    <3> QED
      BY <3>1 DEF Keeps, Promise!Next
  <2>4. CASE cycle'.stage = "COMPLETED"
    <3>1. work' = Itinerary' /\ PlanNow' = Itinerary'
      BY <2>4 DEF IInv, FollowsItinerary, PlanNow
    <3>2. Len(work) = Len(PlanNow)
      BY <1>1, <3>1
    <3>3. Promise!Complete
      BY <1>1, <2>1, <2>2, <2>4, <3>2 DEF Promise!Complete, ReportNow, PlanNow, MoverNow
    <3> QED
      BY <3>3 DEF Keeps, Promise!Next
  <2> QED
    BY <1>2, <2>3, <2>4 DEF Terminal
<1>3. CASE cycle' = cycle \/ (cycle.stage \in Active /\ cycle'.stage \in Active /\ Ahead)
  <2>1. ReportNow' = ReportNow
    BY <1>3 DEF ReportNow
  <2>2. CASE MoverNow' = None
    <3>1. Promise!Take
      BY <1>1, <2>1, <2>2 DEF Promise!Take, ReportNow, PlanNow, MoverNow
    <3> QED
      BY <3>1 DEF Keeps, Promise!Next
  <2>3. CASE MoverNow' # None /\ MoverNow = None
    <3>1. cycle'.stage \in Active /\ MoverNow' = Due(cycle') /\ ~Ahead'
      BY <2>3, NextMoverIsDue DEF Due
    <3>2. /\ PlanNow' = Itinerary'
          /\ Len(work') < Len(Itinerary') /\ Itinerary'[Len(work') + 1] = Due(cycle')
      BY <3>1, DueIsNextThen DEF Due
    <3>3. ReportNow = "WORKING"
      BY <1>3, <3>1 DEF ReportNow
    <3>4. Len(work) < Len(PlanNow) /\ MoverNow' = PlanNow[Len(work) + 1]
      BY <1>1, <3>1, <3>2
    <3>5. Promise!Give
      BY <1>1, <2>1, <2>3, <3>3, <3>4 DEF Promise!Give, ReportNow, PlanNow, MoverNow
    <3> QED
      BY <3>5 DEF Keeps, Promise!Next
  <2>4. CASE MoverNow' # None /\ MoverNow # None
    <3>1. ~Ahead /\ MoverNow = Due(cycle) /\ MoverNow' = Due(cycle')
      BY <2>4, MoverIsDue, NextMoverIsDue DEF Due
    <3>2. MoverNow' = MoverNow
      BY <1>3, <3>1
    <3> QED
      BY <1>1, <2>1, <3>2 DEF Keeps, ReportNow, PlanNow, MoverNow
  <2> QED
    BY <2>2, <2>3, <2>4
<1> QED
  BY <1>2, <1>3 DEF StageGoes

\* The child that has the machine succeeds.
Counted ==
    /\ cycle' = cycle /\ profile' = profile
    /\ MoverNow # None /\ MoverNow' = None
    /\ \E child : work' = Append(work, child)

LEMMA CountedStepKeeps == ASSUME IInv, Counted PROVE Keeps
<1>1. PlanNow' = PlanNow /\ ReportNow' = ReportNow
  BY DEF Counted, PlanNow, ReportNow, Itinerary, Round, PointOf
<1>2. Len(work') = Len(work) + 1
  <2>1. work \in Seq(Child)
    BY DEF IInv, TypeOK
  <2> QED
    BY <2>1 DEF Counted
<1>3. Promise!Succeed
  BY <1>1, <1>2 DEF Counted, Promise!Succeed, ReportNow, PlanNow, MoverNow
<1> QED
  BY <1>3 DEF Keeps, Promise!Next

\* A driver's method that is called for c leaves c or an outcome of it.
Follows(c) == cycle' = c \/ \E stage \in Terminal : cycle' = [c EXCEPT !.stage = stage]

LEMMA DriverFollows ==
    ASSUME NEW t, NEW c, NEW child,
           \/ Launch(t, c, child) \/ ActivateAct(t, c) \/ ActivateBehavior(t, c)
           \/ Dispatch(t, c)
    PROVE  Follows(c)
<1>1. ASSUME NEW x, Launch(t, c, x) PROVE Follows(c)
  BY <1>1 DEF Launch, End, Follows, Terminal
<1>2. ASSUME DispatchFailed(t, c) PROVE Follows(c)
  BY <1>2 DEF DispatchFailed, DispatchFails, Follows, Terminal
<1>3. ASSUME ActivateAct(t, c) PROVE Follows(c)
  BY <1>2, <1>3, HandoffFailed DEF ActivateAct, Follows
<1>4. ASSUME ActivateBehavior(t, c) PROVE Follows(c)
  BY <1>1, <1>2, <1>4, HandoffFailed DEF ActivateBehavior, Follows
<1> QED
  BY <1>1, <1>3, <1>4 DEF Dispatch

LEMMA OutcomeFollows ==
    ASSUME NEW t, NEW stage \in Terminal, End(t, cycle, stage) \/ Abort(t, stage)
    PROVE  Follows(cycle)
BY DEF End, Abort, Follows

\* What follows on the cycle, or on its success, is a step of the mission's stage.
LEMMA FollowingStage ==
    ASSUME IInv, cycle.stage \in Active, Follows(cycle), profile' = profile, work' = work
    PROVE  PlanKept /\ StageGoes
<1>1. cycle \in CycleRecord
  BY DEF IInv, TypeOK, CycleRecord
<1>2. CASE cycle' = cycle
  BY <1>2 DEF PlanKept, SamePlan, StageGoes
<1>3. ASSUME NEW stage \in Terminal, cycle' = [cycle EXCEPT !.stage = stage]
      PROVE  PlanKept /\ StageGoes
  BY <1>1, <1>3 DEF PlanKept, SamePlan, StageGoes, CycleRecord
<1> QED
  BY <1>2, <1>3 DEF Follows

LEMMA SucceedingStage ==
    ASSUME IInv, cycle.stage \in Active, Ahead, NEW t, Succeed(t),
           profile' = profile, work' = work
    PROVE  PlanKept /\ StageGoes
<1> DEFINE c == Advanced(cycle)
<1>1. CASE c.stage = "COMPLETED"
  <2>1. Follows(cycle)
    BY <1>1, OutcomeFollows DEF Succeed, Terminal
  <2> QED
    BY <2>1, FollowingStage
<1>2. CASE c.stage # "COMPLETED"
  <2>1. /\ c \in CycleRecord /\ SamePlan(c) /\ c.stage \in Active
    BY <1>2, AdvancedCycle DEF IInv
  <2>2. Follows(c)
    BY <1>2, DriverFollows DEF Succeed
  <2> HIDE DEF c
  <2>3. CASE cycle' = c
    BY <2>1, <2>3 DEF PlanKept, StageGoes
  <2>4. ASSUME NEW stage \in Terminal, cycle' = [c EXCEPT !.stage = stage]
        PROVE  PlanKept /\ StageGoes
    BY <2>1, <2>4 DEF PlanKept, SamePlan, StageGoes, CycleRecord
  <2> QED
    BY <2>2, <2>3, <2>4 DEF Follows
<1> QED
  BY <1>1, <1>2

\* A step that leaves the cycle and counts no child.
LEMMA CycleStays ==
    ASSUME cycle' = cycle, profile' = profile, work' = work
    PROVE  PlanKept /\ StageGoes
BY DEF PlanKept, SamePlan, StageGoes

\* Which steps count no child and leave the stage or follow it.
LEMMA QuietStep ==
    ASSUME \/ \E r \in RunId : StartRefused(r)
           \/ Heartbeat \/ TopOfLoop \/ NoRow \/ ObserveGoesOn
           \/ LeasePasses \/ ActivationTimePasses \/ GracePasses
           \/ WorkerChange \/ CandidateFault
    PROVE  PlanKept /\ StageGoes
<1>1. cycle' = cycle /\ profile' = profile /\ work' = work
  BY DEF StartRefused, ResetSession, Heartbeat, TopOfLoop, NoRow, ObserveGoesOn, LeasePasses,
     ActivationTimePasses, GracePasses, WorkerChange, CandidateFault, Rest, mission
<1> QED
  BY <1>1, CycleStays

LEMMA FinishStartFollows == ASSUME IInv, FinishStart PROVE PlanKept /\ StageGoes
<1>1. cycle.stage \in Active /\ profile' = profile /\ work' = work
  BY DEF FinishStart, IInv, LaunchShape, Active
<1>2. Follows(cycle)
  <2>1. CASE UNCHANGED mission
    BY <2>1 DEF mission, Follows
  <2>2. CASE Abort("control", "FAILED")
    BY <2>2, OutcomeFollows DEF Terminal
  <2>3. CASE Launch("control", cycle, pending)
    BY <2>3, DriverFollows
  <2> QED
    BY <2>1, <2>2, <2>3 DEF FinishStart
<1> QED
  BY <1>1, <1>2, FollowingStage

LEMMA CancelFollows == ASSUME IInv, Cancel PROVE PlanKept /\ StageGoes
<1>1. profile' = profile /\ work' = work
  BY DEF Cancel
<1>2. CASE cycle.stage \in Active
  <2>1. Follows(cycle)
    BY <1>2, OutcomeFollows DEF Cancel, Terminal
  <2> QED
    BY <1>1, <1>2, <2>1, FollowingStage
<1>3. CASE cycle.stage \notin Active
  BY <1>1, <1>3, CycleStays DEF Cancel
<1> QED
  BY <1>2, <1>3

LEMMA TakeEventFollows == ASSUME IInv, TakeEvent PROVE PlanKept /\ StageGoes
<1>1. /\ profile' = profile /\ work' = work
      /\ event # None /\ event \in Event
  BY NoneAssumption DEF TakeEvent, IInv, TypeOK
<1>2. CASE event.do = "feedback" \/ cycle.stage \notin Active
  BY <1>1, <1>2, CycleStays DEF TakeEvent, mission
<1>3. CASE event.do # "feedback" /\ cycle.stage \in Active
  <2>1. CASE Accepted /\ Succeed("owner")
    <3>1. Ahead
      BY <1>1, <1>3, <2>1 DEF Ahead, Accepted, Event
    <3> QED
      BY <1>1, <1>3, <2>1, <3>1, SucceedingStage
  <2>2. CASE End("owner", cycle, "FAILED")
    <3>1. Follows(cycle)
      BY <2>2, OutcomeFollows DEF Terminal
    <3> QED
      BY <1>1, <1>3, <3>1, FollowingStage
  <2> QED
    BY <1>3, <2>1, <2>2 DEF TakeEvent
<1> QED
  BY <1>2, <1>3

LEMMA TickFollows == ASSUME IInv, Tick PROVE PlanKept /\ StageGoes
<1>1. profile' = profile /\ work' = work
  BY DEF Tick
<1>2. CASE UNCHANGED mission
  BY <1>1, <1>2, CycleStays DEF mission
<1>3. ASSUME cycle.stage \in Active, Abort("owner", "FAILED")
      PROVE  PlanKept /\ StageGoes
  <2>1. Follows(cycle)
    BY <1>3, OutcomeFollows DEF Terminal
  <2> QED
    BY <1>1, <1>3, <2>1, FollowingStage
<1>4. ASSUME cycle.stage = "ACT", seg.done, Succeed("owner")
      PROVE  PlanKept /\ StageGoes
  BY <1>1, <1>4, SucceedingStage DEF Ahead, Active
<1>5. ASSUME cycle.stage \in Active, Launch("owner", cycle, pending)
      PROVE  PlanKept /\ StageGoes
  <2>1. Follows(cycle)
    BY <1>5, DriverFollows
  <2> QED
    BY <1>1, <1>5, <2>1, FollowingStage
<1> QED
  BY <1>2, <1>3, <1>4, <1>5 DEF Tick, NothingToDo

\* The final action of a segment, and the end of a behaviour, may count a child.
LEMMA RowCounts == ASSUME IInv, Row PROVE Counted \/ (PlanKept /\ StageGoes)
<1>1. cycle' = cycle /\ profile' = profile /\ running' = running
  BY DEF Row, mission, executor
<1>2. CASE work' = work
  BY <1>1, <1>2, CycleStays
<1>3. CASE FinalRow
  <2>1. auth = "act" /\ auth' = None /\ "act" # None /\ "rl" # None
    BY <1>3, NoneAssumption DEF FinalRow, Policy
  <2>2. Due(cycle) # None
    <3>1. cycle.stage \in Active
      BY <2>1 DEF IInv, MotionShape, Active
    <3>2. Due(cycle) \in Child
      BY <3>1 DEF Due, Child, IInv, TypeOK
    <3> QED
      BY <3>2, NoneAssumption
  <2>3. MoverNow # None /\ MoverNow' = None
    BY <2>1, <2>2 DEF MoverNow
  <2> QED
    BY <1>1, <1>3, <2>3 DEF FinalRow, Counted
<1> QED
  BY <1>2, <1>3 DEF Row, FinalRow

LEMMA ObserveEndCounts == ASSUME IInv, ObserveEnd PROVE Counted \/ (PlanKept /\ StageGoes)
<1>1. /\ cycle' = cycle /\ profile' = profile
      /\ running # None /\ running' = None
      /\ auth' = auth \/ auth' = None
  BY DEF ObserveEnd, mission, motion, CoreStop
<1>2. CASE work' = work
  BY <1>1, <1>2, CycleStays
<1>3. CASE auth = "rl" /\ work' = Append(work, running)
  <2>1. MoverNow # None /\ MoverNow' = None
    BY <1>1, <1>3, NoneAssumption DEF MoverNow, Policy
  <2> QED
    BY <1>1, <1>3, <2>1 DEF Counted
<1> QED
  BY <1>2, <1>3 DEF ObserveEnd

\* A mission is ordered by a start that finds none.
Ordered ==
    \E r \in RunId, n \in 1..MaxCycles, g \in Group : \E first \in 0..(g - 1) :
      StartMission(r, n, g, first) \/ StartFails(r, n, g, first)

LEMMA StepCases == ASSUME IInv, Next PROVE Ordered \/ Counted \/ (PlanKept /\ StageGoes)
BY QuietStep, FinishStartFollows, CancelFollows, TakeEventFollows, TickFollows, RowCounts,
   ObserveEndCounts DEF Next, OwnerStep, Ordered

\* Before a mission nothing has been done.
IdleShape == cycle.stage = "IDLE" => work = <<>>

LEMMA StepKeepsIdleShape == ASSUME IInv, IdleShape, [Next]_vars PROVE IdleShape'
<1>1. CASE Ordered
  BY <1>1 DEF Ordered, StartMission, StartFails, IdleShape
<1>2. CASE Counted
  BY <1>2, MoverIsDue DEF Counted, IdleShape, Active
<1>3. CASE PlanKept /\ StageGoes
  BY <1>3 DEF PlanKept, StageGoes, IdleShape, Active, Terminal
<1>4. CASE UNCHANGED vars
  BY <1>4 DEF vars, mission, IdleShape
<1> QED
  BY <1>1, <1>2, <1>3, <1>4, StepCases

LEMMA OrderedStepKeeps == ASSUME IInv, IInv', IdleShape, Ordered PROVE Keeps
<1>1. PICK r \in RunId, n \in 1..MaxCycles, g \in Group : \E first \in 0..(g - 1) :
        StartMission(r, n, g, first) \/ StartFails(r, n, g, first)
  BY DEF Ordered
<1>2. PICK first \in 0..(g - 1) : StartMission(r, n, g, first) \/ StartFails(r, n, g, first)
  BY <1>1
<1>3. cycle.stage = "IDLE" /\ running = None /\ event = None
  BY <1>2, NoneAssumption
     DEF StartMission, StartFails, Renewed, IInv, TypeOK, MotionShape, ChildShape, Active
<1>4. /\ work' = <<>> /\ running' = running /\ event' = event
      /\ auth' = "rl" \/ auth' = None
  BY <1>2 DEF StartMission, StartFails, ResetSession, CoreStop, executor
<1>5. PICK stage \in {"FOLLOW_DIG", "FAILED"} : cycle' = NewCycle(stage, n, g, first)
  BY <1>2 DEF StartMission, StartFails
<1>6. IsPlanned' /\ cycle'.stage \in {"FOLLOW_DIG", "FAILED"}
  <2>1. stage \in Active \cup Terminal
    BY DEF Active, Terminal
  <2> QED
    BY <1>5, <2>1, NewCycleIsPlanned
<1>7. MoverNow = None /\ MoverNow' = None
  <2>1. auth \in {"rl", None} /\ "act" # None
    BY <1>3, NoneAssumption DEF IInv, TypeOK, MotionShape, Policy
  <2> QED
    BY <1>3, <1>4, <2>1 DEF MoverNow
<1>8. PlanNow = <<>> /\ ReportNow = "IDLE" /\ ReportNow' \in {"WORKING", "FAILED"}
  BY <1>3, <1>6 DEF PlanNow, ReportNow, Active
<1>9. Len(work) = 0 /\ Len(work') = 0
  BY <1>3, <1>4 DEF IdleShape
<1>10. PlanNow' \in Seq(Child) /\ PlanNow' # <<>>
  BY <1>6, NextPlannedIsNonempty DEF PlanNow
<1>11. Promise!Order
  BY <1>7, <1>8, <1>9, <1>10 DEF Promise!Order, ReportNow, PlanNow, MoverNow
<1> QED
  BY <1>11 DEF Keeps, Promise!Next

LEMMA StepKeepsPromise == ASSUME IInv, IInv', IdleShape, [Next]_vars PROVE Keeps
<1>1. CASE Ordered
  BY <1>1, OrderedStepKeeps
<1>2. CASE Counted
  BY <1>2, CountedStepKeeps
<1>3. CASE PlanKept /\ StageGoes
  BY <1>3, UncountedStepKeeps
<1>4. CASE UNCHANGED vars
  <2>1. cycle' = cycle /\ profile' = profile /\ work' = work
    BY <1>4 DEF vars, mission
  <2> QED
    BY <2>1, CycleStays, UncountedStepKeeps
<1> QED
  BY <1>1, <1>2, <1>3, <1>4, StepCases

\* FixedCycle.KeepsPromise: for every plan and number of cycles, the machine is given
\* to the children of the plan one at a time, each in its turn, after its predecessor's
\* success and from nobody else, and who ends a mission has taken it from all; whatever
\* threads, refused starts, lost workers and failed zeros come in between.
THEOREM MissionKeepsPromise == Spec => KeepsPromise
<1>1. Init => IdleShape /\ Promise!Init
  <2> SUFFICES ASSUME Init PROVE IdleShape /\ Promise!Init
    OBVIOUS
  <2>1. cycle.stage = "IDLE" /\ work = <<>> /\ auth = None
    BY DEF Init, Idle
  <2>2. "rl" # None /\ "act" # None
    BY NoneAssumption DEF Policy
  <2> QED
    BY <2>1, <2>2 DEF IdleShape, Promise!Init, Active
<1>2. IInv /\ IdleShape /\ [Next]_vars => IdleShape'
  BY StepKeepsIdleShape
<1>3. IInv /\ IInv' /\ IdleShape /\ [Next]_vars =>
        [Promise!Next]_<<IF cycle.stage \in Active THEN "WORKING" ELSE cycle.stage,
                         IF cycle.stage = "IDLE" THEN <<>> ELSE Itinerary,
                         Len(work),
                         IF auth = "rl" THEN running
                         ELSE IF auth = "act" THEN Due(cycle) ELSE None>>
  BY StepKeepsPromise DEF Keeps, ReportNow, PlanNow, MoverNow
<1> QED
  BY <1>1, <1>2, <1>3, AlwaysIInv, PTL DEF Spec, KeepsPromise, Promise!Spec

=============================================================================
