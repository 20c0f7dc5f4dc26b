--------------------------- MODULE MCResidentCore ---------------------------
(***************************************************************************)
(* TLC instance of ResidentCore: bounds, the view that identifies states   *)
(* up to a rotation of the sequence numbers, and fairness.                 *)
(***************************************************************************)
EXTENDS ResidentCore

CONSTANTS
    MaxGen,     \* bound: generations that are requested
    MaxLag      \* bound: commands the STM32 may be behind the encoder

MCModeOf == [s \in Source |-> IF s = "act_dig" THEN "manual_action"
                              ELSE "velocity_reference"]

Offset(n) == IF n = None THEN None ELSE (nextSeq - n) % SeqMod
Lags(n) == Offset(n) <= MaxLag

\* Exploration stops where a number that is still to be compared falls so far
\* behind the encoder that the small sequence space would alias (2^32 does not).
WithinLag ==
    /\ gen <= MaxGen \/ status # "operational"
    /\ status # "new" /\ dev.mode # None => Lags(dev.seq)
    /\ seg.due => Lags(seg.final)
    /\ frame # None /\ status = "operational" =>
         (frame.mode # None => Lags(frame.seq))

FreshInit == CoreInit /\ dev.mode = None /\ dev.seq = 0

\* While the lease is current, a control thread that has begun is not disturbed: its
\* reading of the worker's state, its stamp and its renewal commute with what the
\* others do, except for the loss of the connection and the end of the lease.
Undisturbed ==
    /\ ctl # "idle" /\ mission # "expired"
    /\ command = "activate_act" => connected

MCNext ==
    \/ ~Undisturbed /\ CoreNext
    \/ Undisturbed /\ (Control \/ MissionPasses)
    \/ Undisturbed /\ command = "activate_act" /\ DataLink

MCSpec == FreshInit /\ [][MCNext]_allVars

Relative(x) == IF x = None THEN None ELSE [x EXCEPT !.seq = Offset(x.seq)]

\* In a sink that is disarmed or faulted nothing is owned, measured or moved any
\* more; only the mission lease and the terminal zero go on to matter.
Running == <<authority, lease, measure, unsafeLatched, age, idle, ticked, healthy,
             Relative(pendingAck), Relative(firstAck), Relative(last),
             [seg EXCEPT !.final = Offset(@)], held, link, control>>

CoreView ==
    <<status, IF status \in {"new", "operational"} THEN Running ELSE None,
      Relative(frame), Relative(dev), [i \in DOMAIN wire |-> Relative(wire[i])],
      mission, Relative(result), acked, pc>>

\* For liveness: no more than MaxGen generations.  The owner loop runs, time passes,
\* lost connections are called back, and a line that is used delivers again and
\* again.  Nothing is assumed of workers, requests or losses.
FewGenerations == gen' <= MaxGen
TimelyCore ==
    /\ WF_allVars(OwnerStep)
    /\ WF_allVars(Clock /\ UNCHANGED coreVars)
    /\ WF_allVars(\E sent \in Sent : Notify(sent))
    /\ SF_allVars(DeliverCommand /\ UNCHANGED coreVars)
SegmentSpec == FreshInit /\ [][CoreNext /\ FewGenerations]_allVars /\ TimelyCore
=============================================================================
