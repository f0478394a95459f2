----------------------------- MODULE IgnorePaths -----------------------------
(***************************************************************************)
(* What ReadConfig makes of the paths a user writes under                  *)
(* spec.driftDetection.ignore of a Cluster.  A path is the sequence of its *)
(* names and the grammar they are written in, forProvider.extraArgs or     *)
(* /forProvider/extraArgs; escapes and blanks are left out.                *)
(***************************************************************************)
EXTENDS Naturals, Sequences

FieldPath(names) == [pointer |-> FALSE, names |-> names]
JSONPointer(names) == [pointer |-> TRUE, names |-> names]

ClusterParameters == {"host", "port", "k3sVersion", "k3sChannel", "clusterInit", "tlsSAN",
                      "disableTraefik", "disableServiceLB", "extraArgs", "datastoreEndpoint"}
ClusterObservation == ClusterParameters \cup {"id", "ready"}

\* Name sequences that lead to a field of Cluster; all end at these.
ClusterType == {<<"spec", "forProvider">>, <<"status", "atProvider">>}
                 \cup {<<"spec", "forProvider", f>> : f \in ClusterParameters}
                 \cup {<<"status", "atProvider", f>> : f \in ClusterObservation}

fieldType(segs) == segs \in ClusterType

\* Names that pick elements of a list.
Positions == {"[0]", "[*]", "*"}

Malformed == <<>>

normalizePath(p) ==
    IF \/ Len(p.names) < 2 \/ \E i \in DOMAIN p.names : p.names[i] \in Positions
       \/ p.names[1] # "forProvider"
    THEN Malformed ELSE p.names

identityDenylist == {"host"}

checkEligible(n) == /\ n[Len(n)] \notin identityDenylist
                    /\ fieldType(<<"spec">> \o n)
                    /\ fieldType(<<"status", "atProvider">> \o Tail(n))

Eligible(p) == normalizePath(p) # Malformed /\ checkEligible(normalizePath(p))

\* One ineligible path fails the whole configuration.
ReadConfigFails(paths) == \E p \in paths : ~Eligible(p)

IgnorePaths(paths) == {normalizePath(p)[2] : p \in {q \in paths : Eligible(q)}}
=============================================================================
