--------------------------- MODULE MCEdgeControl ----------------------------
(***************************************************************************)
(* TLC instance of EdgeControl: a fixed action of two steps, the first of  *)
(* which has a target for one axis and the second for both.                *)
(***************************************************************************)
EXTENDS EdgeControl

MCAxes == {"boom", "bucket"}
MCTargets == <<{"boom"}, {"boom", "bucket"}>>
=============================================================================
