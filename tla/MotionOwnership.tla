-------------------------- MODULE MotionOwnership --------------------------
(***************************************************************************)
(* What the resident motion boundary promises (resident_motion.py:3-6): at *)
(* most one policy source owns motion, and ownership moves from one source *)
(* to the other only through a machine at rest.  A source is given motion  *)
(* only when the machine itself holds a zero in that source's mode, and    *)
(* the machine enters a mode only at a zero.                               *)
(*                                                                         *)
(* "machine" is what the STM32 executes, not what the runtime wrote: the   *)
(* specification is silent on lines, echoes, generations and leases, which *)
(* ResidentSink has to get right to keep this promise.                     *)
(***************************************************************************)
CONSTANTS Source, Mode, ModeOf, None

VARIABLES
    owner,      \* the source whose motion may be executed, or None
    machine     \* mode and action the machine executes

Machine == [mode : Mode \cup {None}, act : {"zero", "motion"}]

Init ==
    /\ owner = None
    /\ machine \in Machine

\* The machine takes a command: the owner's, or one still on its way when
\* ownership ended.  A mode begins with a zero.
Execute ==
    /\ machine' \in Machine
    /\ machine'.act = "zero" \/ machine'.mode = machine.mode
    /\ owner # None => machine'.mode = ModeOf[owner]
    /\ UNCHANGED owner

Claim(s) ==
    /\ owner = None
    /\ machine = [mode |-> ModeOf[s], act |-> "zero"]
    /\ owner' = s
    /\ UNCHANGED machine

Release ==
    /\ owner' = None
    /\ UNCHANGED machine

Next == Execute \/ Release \/ \E s \in Source : Claim(s)

Spec == Init /\ [][Next]_<<owner, machine>>
=============================================================================
