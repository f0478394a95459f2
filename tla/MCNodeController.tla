-------------------------- MODULE MCNodeController --------------------------
(***************************************************************************)
(* NodeController on small instances:                                      *)
(*   MCNode           a required reference to another namespace, every     *)
(*                    fault                                                *)
(*   MCNodeOptional   a clusterSelector whose policy is Optional           *)
(***************************************************************************)
EXTENDS NodeJoining
=============================================================================
