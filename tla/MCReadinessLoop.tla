-------------------------- MODULE MCReadinessLoop --------------------------
(***************************************************************************)
(* ReadinessLoop with a start that takes less than a poll interval         *)
(* (MCReadiness), and with one that takes longer (MCReadinessSlow).        *)
(***************************************************************************)
EXTENDS ReadinessLoop
=============================================================================
