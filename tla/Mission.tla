------------------------------ MODULE Mission ------------------------------
(***************************************************************************)
(* What the Orin promises whoever orders a mission (README.md:344-348,     *)
(* resident_fixed_cycle_runtime.py:3-6): the machine is given to the       *)
(* children of the plan one at a time, each in its turn and only after the *)
(* one before it has succeeded, and a mission gets one outcome, with which *)
(* nobody has the machine any more.                                        *)
(*                                                                         *)
(* Threads, locks, activations, leases, requests and events are left to    *)
(* FixedCycle, which has to get them right to keep this promise.           *)
(***************************************************************************)
EXTENDS Integers, Sequences

CONSTANTS Child, None

VARIABLES
    report,     \* what the PC is told of the mission
    plan,       \* the children that are ordered
    done,       \* how many of them have succeeded
    mover       \* the child that has the machine, or None

Init == report = "IDLE" /\ plan = <<>> /\ done = 0 /\ mover = None

\* The first child may be one that cannot be started.
Order ==
    /\ report = "IDLE"
    /\ report' \in {"WORKING", "FAILED"}
    /\ plan' \in Seq(Child) /\ plan' # <<>>
    /\ UNCHANGED <<done, mover>>

\* A child may be given the machine again if it lost it without an outcome.
Give ==
    /\ report = "WORKING" /\ mover = None
    /\ done < Len(plan)
    /\ mover' = plan[done + 1]
    /\ UNCHANGED <<report, plan, done>>

Take ==
    /\ mover' = None
    /\ UNCHANGED <<report, plan, done>>

\* The machine is done with a child; no other gets it in the same step.
Succeed ==
    /\ mover # None /\ mover' = None
    /\ done' = done + 1
    /\ UNCHANGED <<report, plan>>

Complete ==
    /\ report = "WORKING" /\ done = Len(plan)
    /\ report' = "COMPLETED" /\ mover' = None
    /\ UNCHANGED <<plan, done>>

GiveUp ==
    /\ report = "WORKING"
    /\ report' \in {"FAILED", "CANCELLED"} /\ mover' = None
    /\ UNCHANGED <<plan, done>>

Next == Order \/ Give \/ Take \/ Succeed \/ Complete \/ GiveUp

Spec == Init /\ [][Next]_<<report, plan, done, mover>>
=============================================================================
