-------------------------- MODULE ActionRelayProofs -------------------------
(***************************************************************************)
(* What every step of ActionRelay keeps, whoever sends to it: the parts of *)
(* the inductive invariant that speak of the relay alone, RelayInv, for    *)
(* every validity, skew, timeout, bound and set of faults.                 *)
(***************************************************************************)
EXTENDS ActionRelay, FiniteSetTheorems, TLAPS

\* Motion on the line has a deadline that leaves it no more than its validity and the
\* skew, and the thread does not wait before it has looked at the deadline and the row.
WatchShape ==
    /\ pc = "select" => deadline # 0
    /\ line = "motion" /\ is_healthy /\ owner # "failed" =>
         /\ deadline # None /\ held + deadline <= ValidFor + Skew
         /\ blind <= 1
         /\ polled \/ PermitsMotion => blind = 0

\* A payload is at hand while the thread writes, and only an accepted one moves.
JobShape ==
    /\ pc = "write" <=> job # None
    /\ job # None /\ job.act = "motion" => job.accepted
    /\ pc \in {"select", "write"} => polled

ClosedShape ==
    /\ ClosedMeansZero
    /\ owner = "closed" => pc = "dead"

\* Where the newest datagram is, if it is a zero, and what is behind it.
StopShape ==
    /\ newest = "zero" /\ pc # "dead" => queue # <<>> /\ queue[Len(queue)].act = "zero"
    /\ newest = "zero_taking" => job # None /\ job.act = "zero" /\ job.passed = Len(queue)
    /\ newest = "zero_taken" =>
         /\ line # "motion" /\ deadline = None
         /\ \A k \in DOMAIN queue : queue[k].old
         /\ job # None => ~job.accepted

\* On loopback a read takes all there is: nothing is left behind the newest zero.
RestShape ==
    ~remote =>
      /\ newest = "zero_taking" => queue = <<>>
      /\ newest \in {"nothing", "zero_taken", "zero_refused"} =>
           /\ queue = <<>> /\ job = None
           /\ pc \in {"dying", "dead"} \/ line # "motion"

RelayInv ==
    /\ RelayTypeOK
    /\ WatchShape /\ JobShape /\ ClosedShape /\ StopShape /\ RestShape

-----------------------------------------------------------------------------
(* The queue.                                                              *)

\* A sequence is a function on its places, and the other way round.
LEMMA SeqIsFunction ==
    ASSUME NEW S, NEW s \in Seq(S)
    PROVE  Len(s) \in Nat /\ DOMAIN s = 1..Len(s) /\ \A k \in 1..Len(s) : s[k] \in S
OBVIOUS

LEMMA FunctionIsSeq ==
    ASSUME NEW S, NEW n \in Nat, NEW s \in [1..n -> S]
    PROVE  s \in Seq(S) /\ Len(s) = n
OBVIOUS

LEMMA PlacesCount ==
    ASSUME NEW n \in Nat
    PROVE  IsFiniteSet(1..n) /\ Cardinality(1..n) = n
BY FS_Interval

\* What stays is in its order: the last of the queue stays last.
LEMMA KeepEffect ==
    ASSUME queue \in Seq(Packet), NEW places \in SUBSET DOMAIN queue, Keep(places)
    PROVE  /\ queue' \in Seq(Packet) /\ Len(queue') = Cardinality(places)
           /\ Len(queue') <= Len(queue)
           /\ \A k \in DOMAIN queue' : \E j \in places : queue'[k] = queue[j]
           /\ Len(queue) \in places =>
                queue' # <<>> /\ queue'[Len(queue')] = queue[Len(queue)]
           /\ places = {} => queue' = <<>>
<1> DEFINE n == Cardinality(places)
<1>1. /\ Len(queue) \in Nat /\ DOMAIN queue = 1..Len(queue)
      /\ \A k \in 1..Len(queue) : queue[k] \in Packet
  BY SeqIsFunction
<1>2. /\ IsFiniteSet(places) /\ n \in Nat /\ n <= Len(queue)
      /\ places = {} => n = 0
  <2>1. IsFiniteSet(1..Len(queue)) /\ Cardinality(1..Len(queue)) = Len(queue)
    BY <1>1, PlacesCount
  <2>2. IsFiniteSet(places) /\ n <= Len(queue)
    BY <1>1, <2>1, FS_Subset
  <2> QED
    BY <2>2, FS_CardinalityType, FS_EmptySet
<1> HIDE DEF n
<1>3. PICK order \in [1..n -> places] :
        /\ \A i, j \in DOMAIN order : i < j => order[i] < order[j]
        /\ queue' = [k \in DOMAIN order |-> queue[order[k]]]
  BY DEF Keep, n
<1>4. /\ DOMAIN order = 1..n
      /\ \A k \in 1..n : order[k] \in places /\ order[k] \in 1..Len(queue)
      /\ \A i, j \in 1..n : i < j => order[i] < order[j]
      /\ queue' = [k \in 1..n |-> queue[order[k]]]
  BY <1>1, <1>3
<1>5. queue' \in [1..n -> Packet]
  BY <1>1, <1>4
<1>6. queue' \in Seq(Packet) /\ Len(queue') = n /\ DOMAIN queue' = 1..n
  BY <1>2, <1>5, FunctionIsSeq
<1>7. \A k \in 1..n : queue'[k] = queue[order[k]]
  BY <1>4
<1>8. ASSUME Len(queue) \in places
      PROVE  queue' # <<>> /\ queue'[Len(queue')] = queue[Len(queue)]
  <2>1. order \in Injection(1..n, places)
    <3>1. \A i, j \in 1..n : order[i] = order[j] => i = j
      BY <1>1, <1>2, <1>4
    <3> QED
      BY <1>3, <1>4, <3>1 DEF Injection, IsInjective
  <2>2. order \in Surjection(1..n, places)
    <3>1. Cardinality(1..n) = n
      BY <1>2, PlacesCount
    <3> QED
      BY <1>2, <2>1, <3>1, FS_Injection DEF n
  <2>3. PICK i \in 1..n : order[i] = Len(queue)
    BY <1>8, <2>2 DEF Surjection
  <2>4. n \in 1..n /\ i = n
    BY <1>1, <1>2, <1>4, <2>3
  <2>5. queue' # <<>>
    BY <1>2, <1>6, <2>4
  <2> QED
    BY <1>6, <1>7, <2>3, <2>4, <2>5
<1>9. n = 0 => queue' = <<>>
  BY <1>6
<1> QED
  BY <1>2, <1>4, <1>6, <1>7, <1>8, <1>9 DEF n

\* Places stay within the queue.
LEMMA PlacesBound ==
    ASSUME queue \in Seq(Packet), Len(queue) <= MaxQueue,
           NEW places \in SUBSET DOMAIN queue
    PROVE  Cardinality(places) \in 0..MaxQueue
<1>1. Len(queue) \in Nat /\ DOMAIN queue = 1..Len(queue)
  BY SeqIsFunction
<1>2. IsFiniteSet(1..Len(queue)) /\ Cardinality(1..Len(queue)) = Len(queue)
  BY <1>1, PlacesCount
<1>3. IsFiniteSet(places) /\ Cardinality(places) <= Len(queue)
  BY <1>1, <1>2, FS_Subset
<1>4. Cardinality(places) \in Nat
  BY <1>3, FS_CardinalityType
<1>5. MaxQueue \in Nat
  BY RelayAssumption
<1> QED
  BY <1>1, <1>3, <1>4, <1>5

\* A datagram ages, or is found old, and stays what it is.
LEMMA PacketsAgeEffect ==
    ASSUME queue \in Seq(Packet), NEW by \in {-1, 1}, PacketsAge(by)
    PROVE  /\ queue' \in Seq(Packet) /\ Len(queue') = Len(queue)
           /\ \A k \in 1..Len(queue) :
                queue'[k].act = queue[k].act /\ queue'[k].old = queue[k].old
<1>1. /\ Len(queue) \in Nat /\ DOMAIN queue = 1..Len(queue)
      /\ \A k \in 1..Len(queue) : queue[k] \in Packet
  BY SeqIsFunction
<1>2. Skew \in Nat /\ ValidFor \in Nat
  BY RelayAssumption
<1>3. ASSUME NEW age \in (-1 - Skew)..(ValidFor + 1)
      PROVE  Most(-1 - Skew, Least(age + by, ValidFor + 1)) \in (-1 - Skew)..(ValidFor + 1)
  BY <1>2 DEF Most, Least
<1>4. queue' = [k \in 1..Len(queue) |->
                  [queue[k] EXCEPT !.age = Most(-1 - Skew, Least(queue[k].age + by, ValidFor + 1))]]
  BY <1>1 DEF PacketsAge
<1>5. \A k \in 1..Len(queue) :
        queue'[k] = [queue[k] EXCEPT !.age =
                       Most(-1 - Skew, Least(queue[k].age + by, ValidFor + 1))]
  BY <1>4
<1>6. ASSUME NEW k \in 1..Len(queue)
      PROVE  /\ queue'[k] \in Packet
             /\ queue'[k].act = queue[k].act /\ queue'[k].old = queue[k].old
  <2>1. queue[k] \in Packet /\ queue[k].age \in (-1 - Skew)..(ValidFor + 1)
    BY <1>1 DEF Packet
  <2>2. Most(-1 - Skew, Least(queue[k].age + by, ValidFor + 1)) \in (-1 - Skew)..(ValidFor + 1)
    BY <1>3, <2>1
  <2> QED
    BY <1>5, <2>1, <2>2 DEF Packet
<1>7. queue' \in [1..Len(queue) -> Packet]
  BY <1>4, <1>6
<1> QED
  BY <1>1, <1>6, <1>7, FunctionIsSeq

LEMMA OutdatedEffect ==
    ASSUME queue \in Seq(Packet), NEW n \in Nat, queue' = Outdated(n)
    PROVE  /\ queue' \in Seq(Packet) /\ Len(queue') = Len(queue)
           /\ \A k \in 1..Len(queue) :
                queue'[k].act = queue[k].act /\ (k <= n => queue'[k].old)
<1>1. /\ Len(queue) \in Nat /\ DOMAIN queue = 1..Len(queue)
      /\ \A k \in 1..Len(queue) : queue[k] \in Packet
  BY SeqIsFunction
<1>2. \A k \in 1..Len(queue) :
        queue'[k] = IF k <= n THEN [queue[k] EXCEPT !.old = TRUE] ELSE queue[k]
  BY <1>1 DEF Outdated
<1>3. \A k \in 1..Len(queue) :
        /\ queue'[k] \in Packet /\ queue'[k].act = queue[k].act
        /\ k <= n => queue'[k].old
  BY <1>1, <1>2 DEF Packet
<1>4. queue' \in [1..Len(queue) -> Packet]
  BY <1>1, <1>3 DEF Outdated
<1> QED
  BY <1>1, <1>3, <1>4, FunctionIsSeq

\* A datagram joins the end of the queue of a thread that lives.
LEMMA SendEffect ==
    ASSUME RelayTypeOK, NEW act \in Act, Send(act)
    PROVE  /\ newest' = act /\ queue' \in Seq(Packet) /\ Len(queue') <= MaxQueue
           /\ pc # "dead" => queue' # <<>> /\ queue'[Len(queue')].act = act
           /\ pc = "dead" => queue' = queue
<1> DEFINE p == [act |-> act, age |-> 0, old |-> FALSE]
<1>1. p \in Packet
  BY RelayAssumption DEF Packet
<1>2. queue \in Seq(Packet) /\ Len(queue) \in Nat /\ Len(queue) <= MaxQueue /\ MaxQueue \in Nat
  BY RelayAssumption DEF RelayTypeOK
<1>3. CASE pc = "dead"
  BY <1>2, <1>3 DEF Send
<1>4. CASE pc # "dead"
  <2>1. queue' = Append(queue, p) /\ newest' = act /\ Len(queue) < MaxQueue
    BY <1>4 DEF Send, Room
  <2>2. /\ queue' \in Seq(Packet) /\ Len(queue') = Len(queue) + 1
        /\ queue'[Len(queue')] = p
    BY <1>1, <1>2, <2>1
  <2>3. queue' # <<>>
    BY <1>2, <2>2
  <2> QED
    BY <1>2, <1>4, <2>1, <2>2, <2>3
<1> QED
  BY <1>3, <1>4

-----------------------------------------------------------------------------
(* The steps of the relay.                                                 *)

LEMMA NoneIsNoNumber == None \notin Nat /\ None \notin Row /\ None \notin Job
BY NoneAssumption

LEMMA InitEstablishesRelayInv ==
    ASSUME RelayInit, remote \in BOOLEAN
    PROVE  RelayInv
<1>1. queue \in Seq(Packet) /\ Len(queue) <= MaxQueue
  BY RelayAssumption DEF RelayInit
<1>2. RelayTypeOK
  BY <1>1 DEF RelayInit, RelayTypeOK
<1> QED
  BY <1>2, NoneIsNoNumber
     DEF RelayInit, RelayInv, WatchShape, JobShape, ClosedShape, ClosedMeansZero, StopShape, RestShape

\* A sender sends while its owner runs, or as the owner leaves its loop.
LEMMA SendKeepsRelayInv ==
    ASSUME RelayInv, NEW act \in Act, Send(act),
           UNCHANGED <<remote, snap, thread, line, held, blind, wedged>>,
           row' \in Row \cup {None},
           owner' = owner \/ (owner = "running" /\ owner' = "closing")
    PROVE  RelayInv' /\ newest' = act
<1>1. /\ newest' = act /\ queue' \in Seq(Packet) /\ Len(queue') <= MaxQueue
      /\ pc # "dead" => queue' # <<>> /\ queue'[Len(queue')].act = act
  BY SendEffect DEF RelayInv
<1>2. RelayTypeOK'
  BY <1>1 DEF RelayInv, RelayTypeOK, thread, Act
<1>3. WatchShape' /\ JobShape' /\ ClosedShape'
  BY DEF RelayInv, WatchShape, JobShape, ClosedShape, ClosedMeansZero, is_healthy,
         PermitsMotion, thread
<1>4. StopShape' /\ RestShape'
  BY <1>1 DEF StopShape, RestShape, thread, Act
<1> QED
  BY <1>1, <1>2, <1>3, <1>4 DEF RelayInv

LEMMA PublishRowKeepsRelayInv ==
    ASSUME RelayInv, NEW kind \in Row \cup {"lost"}, NEW observed, PublishRow(kind, observed),
           UNCHANGED <<remote, queue, owner, thread, line, newest, held, wedged>>
    PROVE  RelayInv'
<1>1. RelayTypeOK'
  BY RelayAssumption DEF RelayInv, RelayTypeOK, PublishRow, thread, Row
<1>2. WatchShape'
  BY DEF RelayInv, RelayTypeOK, WatchShape, PublishRow, PermitsMotion, is_healthy, thread
<1>3. JobShape' /\ ClosedShape' /\ StopShape' /\ RestShape'
  BY DEF RelayInv, JobShape, ClosedShape, ClosedMeansZero, StopShape, RestShape, thread
<1> QED
  BY <1>1, <1>2, <1>3 DEF RelayInv

LEMMA LeaveKeepsRelayInv ==
    ASSUME RelayInv, Leave,
           UNCHANGED <<remote, queue, snap, thread, line, newest, held, blind, wedged>>
    PROVE  RelayInv'
<1>1. RelayTypeOK'
  BY DEF RelayInv, RelayTypeOK, Leave, thread
<1> QED
  BY <1>1 DEF RelayInv, WatchShape, JobShape, ClosedShape, ClosedMeansZero, StopShape, RestShape,
              Leave, PermitsMotion, is_healthy, thread

LEMMA StutterKeepsRelayInv ==
    ASSUME RelayInv, UNCHANGED relayVars
    PROVE  RelayInv'
BY DEF RelayInv, RelayTypeOK, WatchShape, JobShape, ClosedShape, ClosedMeansZero, StopShape,
       RestShape, PermitsMotion, is_healthy, relayVars, thread, history

LEMMA CheckKeepsRelayInv ==
    ASSUME RelayInv, Check
    PROVE  RelayInv'
<1>1. RelayTypeOK'
  <2>1. CASE Fails
    BY <2>1 DEF RelayInv, RelayTypeOK, Check, Fails
  <2>2. CASE pc' = "select" /\ polled' = TRUE
    BY <2>2 DEF RelayInv, RelayTypeOK, Check, Put, Act, Fails
  <2> QED
    BY <2>1, <2>2 DEF Check
<1>2. WatchShape'
  BY NoneIsNoNumber, RelayAssumption DEF RelayInv, RelayTypeOK, WatchShape, Check, Put, Fails, MustStop, PermitsMotion, is_healthy
<1>3. JobShape' /\ ClosedShape'
  BY DEF RelayInv, JobShape, ClosedShape, ClosedMeansZero, Check, Put, Fails
<1>4. StopShape' /\ RestShape'
  BY DEF RelayInv, JobShape, StopShape, RestShape, Check, Put, Fails, MustStop
<1> QED
  BY <1>1, <1>2, <1>3, <1>4 DEF RelayInv

LEMMA NothingKeepsRelayInv ==
    ASSUME RelayInv, Nothing
    PROVE  RelayInv'
BY DEF RelayInv, RelayTypeOK, WatchShape, JobShape, ClosedShape, ClosedMeansZero, StopShape,
       RestShape, Nothing, PermitsMotion, is_healthy, history

\* What _apply_payload makes of a datagram.
LEMMA JudgedEffect ==
    ASSUME NEW p \in Packet, NEW n \in 0..MaxQueue
    PROVE  /\ Judged(p, n) \in Job /\ Judged(p, n).passed = n
           /\ p.act = "zero" => Judged(p, n).act = "zero"
           /\ p.old => ~Judged(p, n).accepted
           /\ ~Judged(p, n).accepted => Judged(p, n).act = "zero"
<1>1. ValidFor \in Nat /\ Skew \in Nat
  BY RelayAssumption
<1>2. p.act \in Act /\ p.age \in Int /\ p.old \in BOOLEAN
  BY <1>1 DEF Packet
<1> DEFINE valid == ~p.old /\ PermitsMotion /\ p.age <= ValidFor /\ -p.age <= Skew
           lease == IF valid THEN ValidFor - p.age ELSE 0
           act == IF valid THEN p.act ELSE "zero"
<1>3. Judged(p, n) = [act |-> act, accepted |-> valid, passed |-> n, lease |-> lease]
  BY DEF Judged
<1>4. lease \in 0..(ValidFor + Skew)
  BY <1>1, <1>2
<1>5. act \in Act /\ valid \in BOOLEAN
  BY <1>2 DEF Act
<1>6. Judged(p, n) \in Job
  <2> HIDE DEF act, valid, lease
  <2> QED
    BY <1>3, <1>4, <1>5 DEF Job
<1>7. /\ Judged(p, n).act = act /\ Judged(p, n).accepted = valid
      /\ Judged(p, n).passed = n
  <2> HIDE DEF act, valid, lease
  <2> QED
    BY <1>3
<1>8. /\ p.act = "zero" => act = "zero"
      /\ p.old => ~valid
      /\ ~valid => act = "zero"
  OBVIOUS
<1> QED
  <2> HIDE DEF act, valid, lease
  <2> QED
    BY <1>6, <1>7, <1>8

\* A read: what is taken, what stays, and whether the newest datagram is taken.
LEMMA ReceiveEffect ==
    ASSUME RelayInv, Receive
    PROVE  /\ queue' \in Seq(Packet) /\ Len(queue') <= MaxQueue
           /\ job' \in Job
           /\ newest = "zero_taken" =>
                ~job'.accepted /\ \A k \in DOMAIN queue' : queue'[k].old
           /\ \/ /\ newest' = newest
                 /\ newest = "zero" => queue' # <<>> /\ queue'[Len(queue')].act = "zero"
              \/ newest = "zero" /\ newest' = "zero_taking"
                 /\ job'.act = "zero" /\ job'.passed = Len(queue')
           /\ ~remote => queue' = <<>>
           /\ job'.act = "motion" => job'.accepted
<1>1. /\ queue \in Seq(Packet) /\ Len(queue) <= MaxQueue /\ queue # <<>>
      /\ pc = "select"
  BY DEF RelayInv, RelayTypeOK, Receive
<1>2. /\ Len(queue) \in Nat \ {0} /\ DOMAIN queue = 1..Len(queue)
      /\ \A k \in 1..Len(queue) : queue[k] \in Packet
  BY <1>1, SeqIsFunction
<1>3. PICK arrived \in (IF remote THEN SUBSET DOMAIN queue ELSE {DOMAIN queue}),
           last \in DOMAIN queue :
        \E twice \in (IF remote THEN {{}, {last}} ELSE {{}}) :
          LET keep == (DOMAIN queue \ arrived) \cup twice
          IN  /\ last \in arrived /\ \A k \in arrived : k <= last
              /\ Keep(keep)
              /\ job' = Judged(queue[last], Cardinality({k \in keep : k <= last}))
              /\ newest' = IF newest = "zero" /\ Len(queue) \in arrived
                           THEN "zero_taking" ELSE newest
  BY DEF Receive
<1>4. PICK twice \in (IF remote THEN {{}, {last}} ELSE {{}}) :
        LET keep == (DOMAIN queue \ arrived) \cup twice
        IN  /\ last \in arrived /\ \A k \in arrived : k <= last
            /\ Keep(keep)
            /\ job' = Judged(queue[last], Cardinality({k \in keep : k <= last}))
            /\ newest' = IF newest = "zero" /\ Len(queue) \in arrived
                         THEN "zero_taking" ELSE newest
  BY <1>3
<1> DEFINE keep == (DOMAIN queue \ arrived) \cup twice
           before == {k \in keep : k <= last}
<1>5. /\ last \in arrived /\ \A k \in arrived : k <= last
      /\ Keep(keep)
      /\ job' = Judged(queue[last], Cardinality(before))
      /\ newest' = IF newest = "zero" /\ Len(queue) \in arrived
                   THEN "zero_taking" ELSE newest
  BY <1>4
<1>6. keep \in SUBSET DOMAIN queue /\ before \in SUBSET DOMAIN queue
  BY <1>3, <1>4
<1>7. /\ ~remote => arrived = DOMAIN queue /\ keep = {}
      /\ Len(queue) \notin arrived => Len(queue) \in keep
      /\ Len(queue) \in arrived => last = Len(queue) /\ before = keep
  BY <1>2, <1>3, <1>4, <1>5
<1> HIDE DEF keep, before
<1>8. /\ queue' \in Seq(Packet) /\ Len(queue') = Cardinality(keep)
      /\ Len(queue') <= Len(queue)
      /\ \A k \in DOMAIN queue' : \E j \in keep : queue'[k] = queue[j]
      /\ Len(queue) \in keep =>
           queue' # <<>> /\ queue'[Len(queue')] = queue[Len(queue)]
      /\ keep = {} => queue' = <<>>
  BY <1>1, <1>5, <1>6, KeepEffect
<1>9. Cardinality(before) \in 0..MaxQueue
  BY <1>1, <1>6, PlacesBound
<1>10. queue[last] \in Packet
  BY <1>2, <1>3
<1>11. /\ job' \in Job /\ job'.passed = Cardinality(before)
       /\ queue[last].act = "zero" => job'.act = "zero"
       /\ queue[last].old => ~job'.accepted
       /\ ~job'.accepted => job'.act = "zero"
  BY <1>5, <1>9, <1>10, JudgedEffect
<1>12. Len(queue') <= MaxQueue
  <2>1. MaxQueue \in Nat /\ Len(queue') \in Nat
    BY <1>8, SeqIsFunction, RelayAssumption
  <2> QED
    BY <1>1, <1>2, <1>8, <2>1
<1>13. newest = "zero" => queue[Len(queue)].act = "zero"
  BY <1>1 DEF RelayInv, StopShape
<1>14. ASSUME newest = "zero_taken"
       PROVE  ~job'.accepted /\ \A k \in DOMAIN queue' : queue'[k].old
  <2>1. \A k \in DOMAIN queue : queue[k].old
    BY <1>14 DEF RelayInv, StopShape
  <2> QED
    BY <1>3, <1>6, <1>8, <1>11, <2>1
<1>15. CASE newest = "zero" /\ Len(queue) \in arrived
  BY <1>5, <1>7, <1>8, <1>11, <1>12, <1>13, <1>15
<1>16. CASE ~(newest = "zero" /\ Len(queue) \in arrived)
  BY <1>2, <1>5, <1>7, <1>8, <1>11, <1>12, <1>13, <1>14, <1>16
<1> QED
  BY <1>15, <1>16

LEMMA ReceiveKeepsRelayInv ==
    ASSUME RelayInv, Receive
    PROVE  RelayInv'
<1>1. /\ pc = "select" /\ pc' = "write" /\ queue # <<>> /\ job = None /\ polled
      /\ UNCHANGED <<remote, snap, row, owner, polled, deadline, line, held, blind, wedged>>
  BY DEF RelayInv, JobShape, Receive
<1>2. /\ queue' \in Seq(Packet) /\ Len(queue') <= MaxQueue
      /\ job' \in Job /\ job' # None
      /\ newest = "zero_taken" =>
           ~job'.accepted /\ \A k \in DOMAIN queue' : queue'[k].old
      /\ \/ /\ newest' = newest
            /\ newest = "zero" => queue' # <<>> /\ queue'[Len(queue')].act = "zero"
         \/ newest = "zero" /\ newest' = "zero_taking" /\ job'.act = "zero"
      /\ ~remote => queue' = <<>>
      /\ job'.act = "motion" => job'.accepted
  BY ReceiveEffect, NoneIsNoNumber
<1>3. newest' = "zero_taking" => newest = "zero" /\ job'.passed = Len(queue')
  BY <1>1, <1>2, ReceiveEffect DEF RelayInv, StopShape
<1>4. RelayTypeOK'
  BY <1>1, <1>2 DEF RelayInv, RelayTypeOK
<1>5. WatchShape' /\ JobShape' /\ ClosedShape'
  BY <1>1, <1>2 DEF RelayInv, WatchShape, JobShape, ClosedShape, ClosedMeansZero,
                    PermitsMotion, is_healthy
<1>6. StopShape'
  BY <1>1, <1>2, <1>3 DEF RelayInv, StopShape
<1>7. RestShape'
  BY <1>1, <1>2 DEF RelayInv, RestShape
<1> QED
  BY <1>4, <1>5, <1>6, <1>7 DEF RelayInv

LEMMA WriteKeepsRelayInv ==
    ASSUME RelayInv, Write
    PROVE  RelayInv'
<1>1. /\ pc = "write" /\ job \in Job /\ queue \in Seq(Packet) /\ Len(queue) <= MaxQueue
      /\ UNCHANGED <<remote, snap, row, owner>>
  BY DEF RelayInv, RelayTypeOK, JobShape, Write
<1>2. /\ job.act \in Act /\ job.accepted \in BOOLEAN /\ job.passed \in Nat
      /\ job.lease \in 0..(ValidFor + Skew) /\ job.lease \in Nat
      /\ job.act = "motion" => job.accepted
  BY <1>1, RelayAssumption, NoneIsNoNumber DEF Job, RelayInv, JobShape
<1>3. CASE Fails /\ UNCHANGED queue
           /\ newest' = IF newest = "zero_taking" THEN "zero_refused" ELSE newest
  <2>1. RelayTypeOK'
    BY <1>1, <1>3 DEF RelayInv, RelayTypeOK, Fails
  <2> QED
    BY <1>1, <1>3, <2>1 DEF RelayInv, WatchShape, JobShape, ClosedShape, ClosedMeansZero,
                            StopShape, RestShape, PermitsMotion, is_healthy, Fails
<1>4. CASE /\ pc' = "check" /\ job' = None
           /\ Put(job.act)
           /\ deadline' = IF job.accepted /\ job.act = "motion" THEN job.lease ELSE None
           /\ queue' = IF job.accepted THEN Outdated(job.passed) ELSE queue
           /\ newest' = IF newest # "zero_taking" THEN newest
                        ELSE IF job.accepted THEN "zero_taken" ELSE "zero_refused"
           /\ UNCHANGED <<polled, wedged>>
  <2>1. /\ queue' \in Seq(Packet) /\ Len(queue') = Len(queue)
        /\ \A k \in 1..Len(queue) : queue'[k].act = queue[k].act
        /\ job.accepted => \A k \in 1..Len(queue) : k <= job.passed => queue'[k].old
        /\ ~job.accepted => queue' = queue
    <3>1. CASE job.accepted
      BY <1>1, <1>2, <1>4, <3>1, OutdatedEffect
    <3>2. CASE ~job.accepted
      BY <1>1, <1>4, <3>2
    <3> QED
      BY <3>1, <3>2
  <2>2. Len(queue) \in Nat /\ DOMAIN queue = 1..Len(queue) /\ DOMAIN queue' = 1..Len(queue)
    BY <1>1, <2>1, SeqIsFunction
  <2>3. newest' = IF newest # "zero_taking" THEN newest
                  ELSE IF job.accepted THEN "zero_taken" ELSE "zero_refused"
    BY <1>4
  <2>4. /\ line' = job.act /\ held' = 0 /\ blind' = 0
        /\ line' = "motion" => deadline' = job.lease
        /\ deadline' \in (0..(ValidFor + Skew)) \cup {None}
    BY <1>2, <1>4 DEF Put
  <2>5. RelayTypeOK'
    BY <1>1, <1>2, <1>4, <2>1, <2>3, <2>4 DEF RelayInv, RelayTypeOK, Act
  <2>6. WatchShape'
    BY <1>1, <1>2, <1>4, <2>4, NoneIsNoNumber, RelayAssumption
       DEF RelayInv, WatchShape, PermitsMotion, is_healthy
  <2>7. JobShape' /\ ClosedShape'
    BY <1>1, <1>4 DEF RelayInv, JobShape, ClosedShape, ClosedMeansZero
  <2>8. StopShape'
    <3>1. newest' = "zero" /\ pc' # "dead" =>
            queue' # <<>> /\ queue'[Len(queue')].act = "zero"
      BY <1>1, <2>1, <2>2, <2>3 DEF RelayInv, StopShape
    <3>2. ASSUME newest' = "zero_taken"
          PROVE  /\ line' # "motion" /\ deadline' = None
                 /\ \A k \in DOMAIN queue' : queue'[k].old
      <4>1. CASE newest = "zero_taking"
        BY <1>1, <1>2, <1>4, <2>1, <2>2, <2>3, <2>4, <3>2, <4>1 DEF RelayInv, StopShape
      <4>2. CASE newest = "zero_taken"
        BY <1>1, <1>2, <1>4, <2>1, <2>2, <2>4, <4>2, NoneIsNoNumber DEF RelayInv, StopShape
      <4> QED
        BY <2>3, <3>2, <4>1, <4>2
    <3> QED
      BY <1>4, <2>3, <3>1, <3>2 DEF StopShape
  <2>9. RestShape'
    <3>1. newest = "zero_taking" => job.act = "zero"
      BY DEF RelayInv, StopShape
    <3>2. queue = <<>> => queue' = <<>>
      BY <2>1
    <3>3. job # None
      BY <1>1, NoneIsNoNumber
    <3> QED
      BY <1>1, <1>4, <2>3, <2>4, <3>1, <3>2, <3>3 DEF RelayInv, RestShape
  <2> QED
    BY <2>5, <2>6, <2>7, <2>8, <2>9 DEF RelayInv
<1> QED
  BY <1>3, <1>4 DEF Write

LEMMA EndKeepsRelayInv ==
    ASSUME RelayInv, End
    PROVE  RelayInv'
<1>1. /\ pc \in {"dying", "check"} /\ pc' = "dead" /\ job' = None /\ queue' = <<>>
      /\ \/ line' = "zero" /\ held' = 0 /\ blind' = 0 /\ deadline' = None /\ wedged' = wedged
         \/ wedged' = TRUE /\ UNCHANGED <<line, held, blind, deadline>>
      /\ UNCHANGED <<remote, snap, row, owner, polled, newest>>
  BY DEF End, Put
<1>2. queue' \in Seq(Packet) /\ Len(queue') <= MaxQueue
  BY <1>1, RelayAssumption
<1>3. wedged' \in BOOLEAN
  BY <1>1, ZenonT(20) DEF RelayInv, RelayTypeOK
<1>4. RelayTypeOK'
  BY <1>1, <1>2, <1>3 DEF RelayInv, RelayTypeOK, Act
<1>5. WatchShape' /\ JobShape' /\ ClosedShape'
  BY <1>1 DEF RelayInv, WatchShape, JobShape, ClosedShape, ClosedMeansZero, is_healthy
<1>6. StopShape' /\ RestShape'
  BY <1>1 DEF RelayInv, JobShape, StopShape, RestShape
<1> QED
  BY <1>4, <1>5, <1>6 DEF RelayInv

LEMMA StopRelayKeepsRelayInv ==
    ASSUME RelayInv, StopRelay
    PROVE  RelayInv'
<1>1. RelayTypeOK'
  BY DEF RelayInv, RelayTypeOK, StopRelay, thread, history
<1> QED
  BY <1>1 DEF RelayInv, WatchShape, JobShape, ClosedShape, ClosedMeansZero, StopShape, RestShape,
              StopRelay, PermitsMotion, is_healthy, thread, history

LEMMA JoinKeepsRelayInv ==
    ASSUME RelayInv, Join
    PROVE  RelayInv'
<1>1. /\ pc # "select" /\ owner = "joining"
      /\ \/ /\ line' = "zero" /\ held' = 0 /\ blind' = 0 /\ deadline' = None /\ wedged' = FALSE
            /\ owner' = IF pc = "dead" THEN "closed" ELSE "failed"
         \/ owner' = "failed" /\ UNCHANGED <<line, held, blind, deadline, wedged>>
      /\ UNCHANGED <<remote, queue, snap, row, pc, polled, job, newest>>
  BY DEF Join, Put
<1>2. wedged' \in BOOLEAN
  BY <1>1, ZenonT(20) DEF RelayInv, RelayTypeOK
<1>3. RelayTypeOK'
  BY <1>1, <1>2 DEF RelayInv, RelayTypeOK, Act
<1>4. WatchShape' /\ JobShape' /\ ClosedShape'
  BY <1>1 DEF RelayInv, WatchShape, JobShape, ClosedShape, ClosedMeansZero, is_healthy,
              PermitsMotion
<1>5. StopShape' /\ RestShape'
  BY <1>1 DEF RelayInv, StopShape, RestShape
<1> QED
  BY <1>3, <1>4, <1>5 DEF RelayInv

\* However the datagrams age, what StopShape and RestShape say of them stays.
LEMMA AgeingKeepsQueueShape ==
    ASSUME RelayInv, NEW by \in {-1, 1}, PacketsAge(by),
           UNCHANGED <<remote, job, line, newest>>,
           newest = "zero_taken" => deadline' = None,
           pc' = pc \/ (pc = "select" /\ pc' = "check")
    PROVE  /\ queue' \in Seq(Packet) /\ Len(queue') <= MaxQueue
           /\ StopShape' /\ RestShape'
<1>1. queue \in Seq(Packet) /\ Len(queue) <= MaxQueue
  BY DEF RelayInv, RelayTypeOK
<1>2. /\ queue' \in Seq(Packet) /\ Len(queue') = Len(queue)
      /\ \A k \in 1..Len(queue) :
           queue'[k].act = queue[k].act /\ queue'[k].old = queue[k].old
  BY <1>1, PacketsAgeEffect
<1>3. Len(queue) \in Nat /\ DOMAIN queue = 1..Len(queue) /\ DOMAIN queue' = 1..Len(queue)
  BY <1>1, <1>2, SeqIsFunction
<1>4. queue = <<>> <=> queue' = <<>>
  BY <1>1, <1>2
<1>5. queue # <<>> => queue'[Len(queue')].act = queue[Len(queue)].act
  BY <1>1, <1>2, <1>3
<1>6. StopShape'
  BY <1>2, <1>3, <1>4, <1>5 DEF RelayInv, StopShape
<1>7. RestShape'
  BY <1>4 DEF RelayInv, RestShape
<1> QED
  BY <1>1, <1>2, <1>6, <1>7

LEMMA WallJumpKeepsRelayInv ==
    ASSUME RelayInv, WallJump
    PROVE  RelayInv'
<1>1. PICK by \in {-1, 1} : PacketsAge(by)
  BY DEF WallJump
<1>2. UNCHANGED <<remote, snap, row, owner, thread, line, history>>
  BY DEF WallJump
<1>3. /\ queue' \in Seq(Packet) /\ Len(queue') <= MaxQueue
      /\ StopShape' /\ RestShape'
  BY <1>1, <1>2, AgeingKeepsQueueShape DEF thread, history, RelayInv, StopShape
<1>4. RelayTypeOK'
  BY <1>2, <1>3 DEF RelayInv, RelayTypeOK, thread, history
<1>5. WatchShape' /\ JobShape' /\ ClosedShape'
  BY <1>2 DEF RelayInv, WatchShape, JobShape, ClosedShape, ClosedMeansZero, is_healthy,
              PermitsMotion, thread, history
<1> QED
  BY <1>3, <1>4, <1>5 DEF RelayInv

LEMMA LoseKeepsRelayInv ==
    ASSUME RelayInv, Lose
    PROVE  RelayInv'
<1>1. /\ remote /\ job = None
      /\ UNCHANGED <<remote, snap, row, owner, thread, line, held, blind, wedged>>
  BY DEF Lose
<1>2. PICK lost \in DOMAIN queue :
        /\ Keep(DOMAIN queue \ {lost})
        /\ newest' = IF newest = "zero" /\ lost = Len(queue) THEN "zero_refused" ELSE newest
  BY DEF Lose
<1>3. queue \in Seq(Packet) /\ Len(queue) <= MaxQueue /\ MaxQueue \in Nat
  BY RelayAssumption DEF RelayInv, RelayTypeOK
<1>4. Len(queue) \in Nat /\ DOMAIN queue = 1..Len(queue)
  BY <1>3, SeqIsFunction
<1>5. /\ queue' \in Seq(Packet) /\ Len(queue') <= Len(queue)
      /\ \A k \in DOMAIN queue' : \E j \in DOMAIN queue : queue'[k] = queue[j]
      /\ lost # Len(queue) =>
           queue' # <<>> /\ queue'[Len(queue')] = queue[Len(queue)]
  BY <1>2, <1>3, <1>4, KeepEffect
<1>6. Len(queue') \in Nat /\ Len(queue') <= MaxQueue
  BY <1>3, <1>4, <1>5, SeqIsFunction
<1>7. RelayTypeOK'
  BY <1>1, <1>2, <1>5, <1>6 DEF RelayInv, RelayTypeOK, thread
<1>8. WatchShape' /\ JobShape' /\ ClosedShape'
  BY <1>1 DEF RelayInv, WatchShape, JobShape, ClosedShape, ClosedMeansZero, is_healthy,
              PermitsMotion, thread
<1>9. StopShape' /\ RestShape'
  BY <1>1, <1>2, <1>5 DEF RelayInv, StopShape, RestShape, thread
<1> QED
  BY <1>7, <1>8, <1>9 DEF RelayInv

LEMMA ClockKeepsRelayInv ==
    ASSUME RelayInv, Clock
    PROVE  RelayInv'
<1>1. /\ pc = "dead" \/ (pc = "select" /\ polled)
      /\ PacketsAge(1) /\ polled' = FALSE /\ pc' = IF pc = "dead" THEN pc ELSE "check"
      /\ UNCHANGED <<remote, row, owner, job, line, newest, wedged>>
  BY DEF Clock, Waits
<1>2. /\ snap' = IF snap \in {None, StateTimeout} THEN None ELSE snap + 1
      /\ deadline' = IF deadline \in {None, 0} THEN deadline ELSE deadline - 1
      /\ IF line = "motion" /\ pc # "dead"
         THEN held' = held + 1 /\ blind' = IF PermitsMotion THEN 0 ELSE blind + 1
         ELSE UNCHANGED <<held, blind>>
  BY DEF Clock
<1>3. /\ queue' \in Seq(Packet) /\ Len(queue') <= MaxQueue
      /\ StopShape' /\ RestShape'
  BY <1>1, <1>2, AgeingKeepsQueueShape DEF RelayInv, StopShape
<1>4. /\ ValidFor \in Nat /\ Skew \in Nat /\ StateTimeout \in Nat
      /\ snap \in (0..StateTimeout) \cup {None} /\ deadline \in (0..(ValidFor + Skew)) \cup {None}
      /\ held \in Nat /\ blind \in Nat /\ None \notin Nat
  BY RelayAssumption, NoneIsNoNumber DEF RelayInv, RelayTypeOK
<1>5. /\ snap' \in (0..StateTimeout) \cup {None}
      /\ snap' # None => snap # None
      /\ deadline' \in (0..(ValidFor + Skew)) \cup {None}
      /\ held' \in Nat /\ blind' \in Nat
  BY <1>2, <1>4
<1>6. polled' \in BOOLEAN /\ wedged' \in BOOLEAN /\ remote' \in BOOLEAN
  BY <1>1, ZenonT(20) DEF RelayInv, RelayTypeOK
<1>7. pc' \in {"check", "dead"}
  BY <1>1
<1>8. RelayTypeOK'
  BY <1>1, <1>3, <1>5, <1>6, <1>7 DEF RelayInv, RelayTypeOK
<1>9. WatchShape'
  <2>1. ASSUME line = "motion", pc # "dead", owner # "failed"
        PROVE  /\ deadline' # None /\ held' + deadline' <= ValidFor + Skew
               /\ blind' <= 1
               /\ snap' # None => blind' = 0
    <3>1. /\ deadline # None /\ deadline # 0 /\ held + deadline <= ValidFor + Skew
          /\ blind = 0
      BY <1>1, <2>1 DEF RelayInv, WatchShape, is_healthy
    <3> QED
      BY <1>2, <1>4, <1>5, <2>1, <3>1 DEF PermitsMotion
  <2> QED
    BY <1>1, <2>1 DEF WatchShape, is_healthy, PermitsMotion
<1>10. JobShape' /\ ClosedShape'
  BY <1>1 DEF RelayInv, JobShape, ClosedShape, ClosedMeansZero
<1> QED
  BY <1>3, <1>8, <1>9, <1>10 DEF RelayInv

\* Each step that the relay takes by itself.
LEMMA RelayStepsKeepRelayInv ==
    ASSUME RelayInv, RelayNext
    PROVE  RelayInv'
BY CheckKeepsRelayInv, NothingKeepsRelayInv, ReceiveKeepsRelayInv, WriteKeepsRelayInv,
   EndKeepsRelayInv, StopRelayKeepsRelayInv, JoinKeepsRelayInv, WallJumpKeepsRelayInv,
   LoseKeepsRelayInv
   DEF RelayNext, RelayStep

\* None of them makes motion of the newest datagram.
LEMMA RelaySendsNothing ==
    ASSUME RelayNext
    PROVE  /\ newest' = "motion" => newest = "motion"
           /\ row' = row /\ remote' = remote
           /\ owner = "running" <=> owner' = "running"
BY DEF RelayNext, RelayStep, Check, Nothing, Receive, Write, End, StopRelay, Join, WallJump, Lose,
       history

LEMMA RelayInvImplies ==
    ASSUME RelayInv
    PROVE  MotionStopsInTime /\ StopIsFinal /\ ClosedMeansZero
<1>1. MotionStopsInTime
  <2> SUFFICES ASSUME line = "motion", is_healthy, owner # "failed"
               PROVE  held <= ValidFor + Skew /\ blind <= 1
    BY DEF MotionStopsInTime
  <2>1. /\ deadline # None /\ held + deadline <= ValidFor + Skew
        /\ blind <= 1
    BY DEF RelayInv, WatchShape
  <2>2. deadline \in Nat /\ held \in Nat /\ ValidFor + Skew \in Nat
    BY <2>1, RelayAssumption DEF RelayInv, RelayTypeOK
  <2> QED
    BY <2>1, <2>2
<1> QED
  BY <1>1 DEF RelayInv, StopShape, StopIsFinal, ClosedShape

=============================================================================
