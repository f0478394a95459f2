----------------------- MODULE MCClusterController -----------------------
(***************************************************************************)
(* ClusterController and its inductive invariant on small instances.  Each *)
(* .cfg picks the faults its question is about:                            *)
(*   MCCore        the safety properties, the refinement, the inductive    *)
(*                 invariant of the proofs, and convergence                *)
(*   MCRough       every fault there is: what still holds then             *)
(*   MCCurlMasked  a failed download that a pipe hides                     *)
(* Configurations are ordered, unless Revisit, so no symmetry is declared. *)
(***************************************************************************)
EXTENDS ClusterProtection
=============================================================================
