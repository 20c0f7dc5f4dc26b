--------------------------- MODULE MCResidentSink ---------------------------
(***************************************************************************)
(* TLC instance of ResidentSink: the two production bindings (resident_core*)
(* RL_BINDING and ACT_BINDING).                                            *)
(***************************************************************************)
EXTENDS ResidentSink

CONSTANTS
    MaxGen,     \* bound: generations that are requested
    MaxLag      \* bound: commands the STM32 may be behind the encoder

MCModeOf == [s \in Source |-> IF s = "act_dig" THEN "manual_action"
                              ELSE "velocity_reference"]

\* Requests are made until MaxGen generations; revocations go on after it.
BoundedNext == (gen < MaxGen /\ Request) \/ Internal
BoundedSpec == Init /\ [][BoundedNext]_vars

\* For liveness: a device that was just switched on.
FreshInit == Init /\ dev.mode = None /\ dev.seq = 0
FreshSpec == FreshInit /\ [][BoundedNext]_vars
TimelySpec == FreshSpec /\ Timely

\* Exploration stops where the STM32 has missed so many commands that the small
\* sequence space would alias (2^32 does not).
WithinLag ==
    status # "new" /\ dev.mode # None => (nextSeq - dev.seq) % SeqMod <= MaxLag

\* Sequence numbers only matter relative to the encoder's next one.
Relative(x) == IF x = None THEN None
               ELSE [x EXCEPT !.seq = (nextSeq - x.seq) % SeqMod]
SequenceFreeView ==
    <<authority, lease, measure, unsafeLatched, status, age, idle, ticked,
      healthy, Relative(pendingAck), Relative(firstAck), Relative(last),
      Relative(frame), Relative(dev),
      [i \in DOMAIN wire |-> Relative(wire[i])]>>
=============================================================================
