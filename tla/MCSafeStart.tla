---------------------------- MODULE MCSafeStart ----------------------------
(***************************************************************************)
(* SafeStart with time for three rounds before the deadline, two of which  *)
(* faults can delay or spoil.                                              *)
(***************************************************************************)
EXTENDS SafeStart
=============================================================================
