----------------------------- MODULE ActionRelay ----------------------------
(***************************************************************************)
(* The non-resident action path of orin_state_sender.py: the ActionRelay   *)
(* thread that turns the datagrams of a loopback or network sender into    *)
(* commands on the STM32 serial line, the safety snapshot the owner loop   *)
(* publishes to it with every telemetry row, and its start and close.      *)
(* Who sends the datagrams is the business of the modules that extend this *)
(* one; "Send" is what they call.                                          *)
(*                                                                         *)
(* A datagram carries a sequence number and a wall-clock stamp.  The       *)
(* sequence number is its place in "queue", which is in sending order; "old"*)
(* is what the comparison with _last_seq says of it, and "age" is the time *)
(* since its stamp as the wall clock has it.  Time is counted in units of  *)
(* at least the relay's poll interval: the thread looks once per unit.     *)
(* One sender address is modelled, and the number that the encoder gives   *)
(* to a command is not (ResidentSink has that of the shared encoder).      *)
(***************************************************************************)
EXTENDS Integers, Sequences, FiniteSets

CONSTANTS
    None,
    ValidFor,       \* valid_for_ms of every datagram, in units
    Skew,           \* ACTION_FUTURE_SKEW_MS, in units
    StateTimeout,   \* STM32_TIMEOUT_S, in units
    Losses,         \* what may go wrong: a subset of Fault
    MaxQueue        \* bound: datagrams that wait or travel at once

Fault == {"wall_jump", "write_fault", "stuck_write"}

ASSUME RelayAssumption ==
    /\ ValidFor \in Nat /\ Skew \in Nat /\ StateTimeout \in Nat
    /\ Losses \subseteq Fault
    /\ MaxQueue \in Nat \ {0}

VARIABLES
    remote,     \* the sender is across the network: datagrams are reordered
    queue,      \* datagrams in the socket or on their way to it
    snap,       \* age of the row that permits motion, None if the last one does not
    row,        \* the row that the owner loop has published and not yet observed
    owner,      \* the owner loop, from its rows to the end of its finally
    pc,         \* the relay thread
    polled,     \* the thread has checked its deadline in this unit of time
    job,        \* the payload that _apply_payload is about to write
    deadline,   \* _active_deadline_monotonic_s: units left, None for no motion
    line,       \* the last command on the serial line
    \* history
    newest,     \* the newest datagram that was sent, and how far a zero has come
    held,       \* units since the motion on the line was accepted
    blind,      \* units it has been there without a row that permits it
    wedged      \* the terminal zero of the thread could not be written

thread == <<pc, polled, job, deadline>>
history == <<newest, held, blind, wedged>>
relayVars == <<remote, queue, snap, row, owner, thread, line, history>>

Act == {"zero", "motion"}
Row == {"safe", "unsafe", "estop"}
Packet == [act : Act, age : (-1 - Skew)..(ValidFor + 1), old : BOOLEAN]
Job == [act : Act, accepted : BOOLEAN, lease : 0..(ValidFor + Skew), passed : 0..MaxQueue]

ASSUME NoneAssumption == None \notin Nat \cup Row \cup Job

RelayTypeOK ==
    /\ remote \in BOOLEAN
    /\ queue \in Seq(Packet) /\ Len(queue) <= MaxQueue
    /\ snap \in (0..StateTimeout) \cup {None}
    /\ row \in Row \cup {None}
    /\ owner \in {"running", "closing", "joining", "closed", "failed"}
    /\ pc \in {"check", "select", "write", "dying", "dead"}
    /\ polled \in BOOLEAN
    /\ job \in Job \cup {None}
    /\ deadline \in (0..(ValidFor + Skew)) \cup {None}
    /\ line \in Act \cup {"nothing"}
    /\ newest \in {"nothing", "motion", "zero", "zero_taking", "zero_taken", "zero_refused"}
    /\ held \in Nat /\ blind \in Nat
    /\ wedged \in BOOLEAN

RelayInit ==
    /\ queue = <<>> /\ snap = None /\ row = None /\ owner = "running"
    /\ pc = "check" /\ polled = FALSE /\ job = None /\ deadline = None
    /\ line = "nothing" /\ newest = "nothing" /\ held = 0 /\ blind = 0
    /\ wedged = FALSE

-----------------------------------------------------------------------------
(* The socket.                                                             *)

Stopping == owner \notin {"running", "closing"}
\* The kernel's buffer is far larger than the bound; what it would drop when the
\* thread is stuck for as long as that takes is left out.
Room == pc = "dead" \/ Len(queue) < MaxQueue

\* sendto.  A dead thread's socket fills up and nobody reads it.
Send(act) ==
    /\ Room
    /\ newest' = act
    /\ queue' = IF pc = "dead" THEN queue
                ELSE Append(queue, [act |-> act, age |-> 0, old |-> FALSE])

\* The datagrams at some places of the queue stay, in their order.
Keep(places) ==
    \E order \in [1..Cardinality(places) -> places] :
      /\ \A i, j \in DOMAIN order : i < j => order[i] < order[j]
      /\ queue' = [k \in DOMAIN order |-> queue[order[k]]]

-----------------------------------------------------------------------------
(* The relay thread.                                                       *)

PermitsMotion == snap # None

\* Put an action on the line; motion starts a new watch.
Put(act) == line' = act /\ held' = 0 /\ blind' = 0

\* A write raised: the loop is left for its except and finally.
Fails ==
    /\ "write_fault" \in Losses
    /\ pc' = "dying" /\ job' = None
    /\ UNCHANGED <<polled, deadline, line, held, blind, wedged>>

\* Mutant: an active command is watched for its deadline only.
MustStopOnDeadline == deadline # None /\ deadline = 0

\* _active_command_must_stop
MustStop == deadline # None /\ (~PermitsMotion \/ deadline = 0)

\* The top of the loop in _run.
Check ==
    /\ pc = "check" /\ ~Stopping
    /\ \/ /\ pc' = "select" /\ polled' = TRUE
          /\ IF MustStop
             THEN Put("zero") /\ deadline' = None
             ELSE UNCHANGED <<line, held, blind, deadline>>
          /\ UNCHANGED <<job, wedged>>
       \/ MustStop /\ Fails
    /\ UNCHANGED <<remote, queue, snap, row, owner, newest>>

\* select returned with nothing to read.
Nothing ==
    /\ pc = "select" /\ (queue = <<>> \/ remote)
    /\ pc' = "check"
    /\ UNCHANGED <<remote, queue, snap, row, owner, polled, job, deadline, line, history>>

\* Mutant: the sequence number of the last accepted datagram is not looked at.
JudgedByAge(p, passed) ==
    LET valid == PermitsMotion /\ p.age <= ValidFor /\ -p.age <= Skew
    IN  [act |-> IF valid THEN p.act ELSE "zero", accepted |-> valid, passed |-> passed,
         lease |-> IF valid THEN ValidFor - p.age ELSE 0]

\* Mutant: a stamp from the future is as good as any.
JudgedFuture(p, passed) ==
    LET valid == ~p.old /\ PermitsMotion /\ p.age <= ValidFor
    IN  [act |-> IF valid THEN p.act ELSE "zero", accepted |-> valid, passed |-> passed,
         lease |-> IF valid THEN ValidFor - p.age ELSE 0]

\* _apply_payload up to its write: an old sequence number, a snapshot that does
\* not permit motion, an expired or a future stamp all turn into a zero.
Judged(p, passed) ==
    LET valid == ~p.old /\ PermitsMotion /\ p.age <= ValidFor /\ -p.age <= Skew
    IN  [act |-> IF valid THEN p.act ELSE "zero", accepted |-> valid, passed |-> passed,
         lease |-> IF valid THEN ValidFor - p.age ELSE 0]

\* _receive_latest takes all that has arrived and keeps the highest sequence
\* number.  On loopback that is the whole queue; on the network some datagrams
\* are still on their way, and one may come twice.
Receive ==
    /\ pc = "select" /\ queue # <<>>
    /\ \E arrived \in (IF remote THEN SUBSET DOMAIN queue ELSE {DOMAIN queue}), last \in DOMAIN queue :
       \E twice \in (IF remote THEN {{}, {last}} ELSE {{}}) :
         LET keep == (DOMAIN queue \ arrived) \cup twice
         IN  /\ last \in arrived /\ \A k \in arrived : k <= last
             /\ Keep(keep)
             /\ job' = Judged(queue[last], Cardinality({k \in keep : k <= last}))
             /\ newest' = IF newest = "zero" /\ Len(queue) \in arrived
                          THEN "zero_taking" ELSE newest
    /\ pc' = "write"
    /\ UNCHANGED <<remote, snap, row, owner, polled, deadline, line, held, blind, wedged>>

\* _last_seq moves to the accepted datagram: those kept of the sent before it, and
\* its second copy, are old from now on.
Outdated(n) == [k \in DOMAIN queue |-> IF k <= n THEN [queue[k] EXCEPT !.old = TRUE]
                                       ELSE queue[k]]

\* The write of _apply_payload and what follows it.  A first motion claims the
\* velocity mode with a zero before it, which the same call overwrites.
Write ==
    /\ pc = "write"
    /\ \/ /\ pc' = "check" /\ job' = None
          /\ Put(job.act)
          /\ deadline' = IF job.accepted /\ job.act = "motion" THEN job.lease ELSE None
          /\ queue' = IF job.accepted THEN Outdated(job.passed) ELSE queue
          /\ newest' = IF newest # "zero_taking" THEN newest
                       ELSE IF job.accepted THEN "zero_taken" ELSE "zero_refused"
          /\ UNCHANGED <<polled, wedged>>
       \/ /\ Fails
          /\ newest' = IF newest = "zero_taking" THEN "zero_refused" ELSE newest
          /\ UNCHANGED queue
    /\ UNCHANGED <<remote, snap, row, owner>>

\* Mutant: the thread ends without its terminal zero.
EndSilently ==
    /\ pc = "dying" \/ (pc = "check" /\ Stopping)
    /\ pc' = "dead" /\ job' = None /\ queue' = <<>>
    /\ UNCHANGED <<remote, snap, row, owner, polled, deadline, line, history>>

\* The finally of _run: a last zero, which may fail too, and _healthy.clear().
End ==
    /\ pc = "dying" \/ (pc = "check" /\ Stopping)
    /\ pc' = "dead" /\ job' = None /\ queue' = <<>>
    /\ \/ Put("zero") /\ deadline' = None /\ UNCHANGED wedged
       \/ /\ "write_fault" \in Losses
          /\ wedged' = TRUE
          /\ UNCHANGED <<line, held, blind, deadline>>
    /\ UNCHANGED <<remote, snap, row, owner, polled, newest>>

-----------------------------------------------------------------------------
(* The owner loop, as far as the relay is concerned.                       *)

is_healthy == pc # "dead"

\* update_safety after a row.  A timeout or a line that does not parse ends the
\* round ("lost"); a parsed row goes on to whoever observes it.  The relay is told
\* of an invalid sensor; of the emergency stop the STM32 reports it is not.
PublishRow(kind, observed) ==
    /\ owner = "running" /\ row = None
    /\ IF kind \in {"safe", "estop"}
       THEN snap' = 0 /\ blind' = 0
       ELSE snap' = None /\ UNCHANGED blind
    /\ row' = IF observed /\ kind # "lost" THEN kind ELSE None

\* A signal ends the loop between any two of its steps.  The senders that the
\* owner runs are closed before the relay.
Leave ==
    /\ owner = "running"
    /\ owner' = "closing" /\ row' = None

\* close() sets _stop.
StopRelay ==
    /\ owner = "closing" /\ owner' = "joining"
    /\ UNCHANGED <<remote, queue, snap, row, thread, line, history>>

\* The rest of close(): the join returns, or times out on a thread that is stuck in
\* a write, of an action or of its terminal zero; either way a zero is written from
\* here.
Join ==
    /\ owner = "joining"
    /\ pc = "dead" \/ (pc # "select" /\ "stuck_write" \in Losses)
    /\ \/ Put("zero") /\ deadline' = None /\ wedged' = FALSE
          /\ owner' = IF pc = "dead" THEN "closed" ELSE "failed"
       \/ /\ "write_fault" \in Losses /\ owner' = "failed"
          /\ UNCHANGED <<line, held, blind, deadline, wedged>>
    /\ UNCHANGED <<remote, queue, snap, row, pc, polled, job, newest>>

-----------------------------------------------------------------------------
(* Time and the network.                                                   *)

Least(a, b) == IF a < b THEN a ELSE b
Most(a, b) == IF a > b THEN a ELSE b
Older(n, limit) == IF n < limit THEN n + 1 ELSE limit

\* The thread has run in this unit: it waits in select, with nothing to read on
\* loopback.
Waits == pc = "dead" \/ (pc = "select" /\ polled /\ (remote \/ queue = <<>>))

PacketsAge(by) ==
    queue' = [k \in DOMAIN queue |->
                [queue[k] EXCEPT !.age = Most(-1 - Skew, Least(@ + by, ValidFor + 1))]]

Clock ==
    /\ Waits /\ owner \notin {"closed", "failed"}
    /\ PacketsAge(1)
    /\ polled' = FALSE /\ pc' = IF pc = "dead" THEN pc ELSE "check"
    /\ snap' = IF snap \in {None, StateTimeout} THEN None ELSE snap + 1
    /\ deadline' = IF deadline \in {None, 0} THEN deadline ELSE deadline - 1
    /\ IF line = "motion" /\ pc # "dead"
       THEN /\ held' = held + 1
            /\ blind' = IF PermitsMotion THEN 0 ELSE blind + 1
       ELSE UNCHANGED <<held, blind>>
    /\ UNCHANGED <<remote, row, owner, job, line, newest, wedged>>

\* The wall clock is set; the monotonic one is not.
WallJump ==
    /\ "wall_jump" \in Losses /\ queue # <<>>
    /\ \E by \in {-1, 1} : PacketsAge(by)
    /\ UNCHANGED <<remote, snap, row, owner, thread, line, history>>

\* A datagram is lost on the network.
Lose ==
    /\ remote /\ job = None
    /\ \E k \in DOMAIN queue :
         /\ Keep(DOMAIN queue \ {k})
         /\ newest' = IF newest = "zero" /\ k = Len(queue) THEN "zero_refused" ELSE newest
    /\ UNCHANGED <<remote, snap, row, owner, thread, line, held, blind, wedged>>

RelayStep == Check \/ Nothing \/ Receive \/ Write \/ End
RelayNext == RelayStep \/ StopRelay \/ Join \/ WallJump \/ Lose

-----------------------------------------------------------------------------
(* Properties.                                                             *)

\* A thread that runs stops what it put on the line.  Motion is never there for
\* longer than its validity and the stamp skew allow, counted from its acceptance
\* on the monotonic clock however the wall clock is set, and never for more than
\* the one unit the thread sleeps without a telemetry row that permits it: lost,
\* late, doubled and reordered datagrams, and a silent sender, included.
MotionStopsInTime ==
    line = "motion" /\ is_healthy /\ owner # "failed" =>
        held <= ValidFor + Skew /\ blind <= 1

\* A zero that was accepted is final: as long as its sender sends nothing after it
\* no older motion, late or doubled on the network, is put on the line.
StopIsFinal ==
    newest = "zero_taken" => line # "motion" /\ deadline = None

\* The thread cannot die, nor close() return, with motion on the line, unless the
\* write of the terminal zero itself has failed.
ClosedMeansZero ==
    (pc = "dead" /\ ~wedged) \/ owner = "closed" => line # "motion"
=============================================================================
