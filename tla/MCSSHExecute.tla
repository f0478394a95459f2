---------------------------- MODULE MCSSHExecute ----------------------------
(***************************************************************************)
(* SSHExecute on output of two pieces, so that a fragment differs from     *)
(* nothing and from the whole:                                             *)
(*   MCSSH        two faults of any kind, k3s installed twice              *)
(*   MCRedacted   one lost connection or expired context is enough         *)
(***************************************************************************)
EXTENDS SSHExecute
=============================================================================
