-------------------------- MODULE MCDriftDetection --------------------------
(***************************************************************************)
(* DriftDetection on fields with two values each, one of them empty:       *)
(*   MCDrift        everything but the version, with a stale cache         *)
(*   MCDriftBanner  a statement about ignored paths that does not hold     *)
(* One field is named in the other grammar, and the machine's address,     *)
(* which may never be ignored, is named as well.                           *)
(***************************************************************************)
EXTENDS DriftDetection

Version == {FieldPath(<<"forProvider", "k3sVersion">>)}

SomePaths == Version \cup {JSONPointer(<<"forProvider", "extraArgs">>),
                           FieldPath(<<"forProvider", "host">>)}
=============================================================================
