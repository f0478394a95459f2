------------------------- MODULE ClusterProtection -------------------------
(***************************************************************************)
(* Why InstalledIsProtected holds: the finalizer outlives everything the   *)
(* worker installs.  The worker decides on copies that may be stale, so    *)
(* the argument has to say what a stale copy can still be trusted for.  A  *)
(* version that is owned, with the finalizer and no deletionTimestamp,     *)
(* shows that the finalizer is on the server now: only the worker removes  *)
(* it, and only when nobody wrote since it read the deletion.              *)
(***************************************************************************)
EXTENDS ClusterController

Owned(o) == o.exists /\ o.fin /\ ~o.deleting

Guarded == Current.exists /\ Current.fin

\* Every version the cache can still serve is evidence, if it is owned.
StoreIsEvidence == \A i \in 1..Len(store) : Owned(store[i]) => Guarded

\* So is the copy the worker goes on with.
CopyIsEvidence == Owned(cr) => Guarded

\* A copy that would pass the resourceVersion check agrees with the server on
\* everything only others change.
FreshAgrees == fresh => /\ cr.exists = Current.exists
                        /\ cr.fin = Current.fin /\ cr.deleting = Current.deleting

\* Before the worker's first write, a fresh copy is all the cache has.
FreshIsCached == fresh /\ pc \in {"observe", "protect", "delete", "release"} => Len(store) = 1

\* What each step goes by in the copy it works on.
CopyAllowsStep ==
    /\ pc # "idle" => cr.exists
    /\ pc = "protect" => ~cr.deleting
    /\ pc = "markPending" => Owned(cr)
    /\ Sending => Owned(cr)
    /\ pc \in {"delete", "release"} => cr.deleting

\* The part of the argument that is about the API server and the worker alone.
\* No fault of the machine's or of a command's disturbs it.
EvidenceInv == /\ StoreIsEvidence /\ CopyIsEvidence
               /\ FreshAgrees /\ FreshIsCached /\ CopyAllowsStep

\* Where Observe found no unit, there is none yet when the step is taken.
AbsenceStillHolds ==
    /\ pc = "protect" /\ ~obs.exists => ~Exists(host)
    /\ pc \in {"markPending", "create", "release"} => ~Exists(host)

\* The inductive invariant, for a host without orphaned commands.
ProtectionInv == /\ EvidenceInv
                 /\ AbsenceStillHolds
                 /\ InstalledIsProtected
                 /\ orphan = NoConfig

-----------------------------------------------------------------------------
(* What the refinement of ManagedResource and SpecChangesAreUsers need on  *)
(* top of that.                                                            *)

\* A version with a deletionTimestamp, however old, shows that the resource is
\* not owned now: one created since has not got a finalizer yet, because the
\* worker adds it only to the last version of a cache that is up to date.
StoreRemembersDeletion == \A i \in 1..Len(store) : store[i].deleting => ~Owned(Current)
CopyRemembersDeletion == cr.deleting => ~Owned(Current)

\* A finalizer belongs to an object, and an object asks for something.
ObjectsAreWhole == /\ Current.fin => Current.exists
                   /\ \A i \in 1..Len(store) : store[i].exists => store[i].cfg # NoConfig
                   /\ cr.exists => cr.cfg # NoConfig

PromiseInv == StoreRemembersDeletion /\ CopyRemembersDeletion /\ ObjectsAreWhole

\* A copy that would pass the resourceVersion check asks for what the user asks for.
FreshSpec == fresh => cr.cfg = Current.cfg

\* A pending marker has somebody who will replace it, or a fault to blame.
MarkerInv ==
    /\ Current.exists /\ Current.marker = "pending" => silenced \/ Creating \/ pc = "critical"
    /\ pc = "critical" => cr.marker # "pending" /\ (spent => silenced)
    /\ fresh /\ pc # "critical" => cr.exists = Current.exists /\ cr.marker = Current.marker

-----------------------------------------------------------------------------
(* Why a verdict of "up to date" is true, where users never go back to an  *)
(* older configuration, downloads do not fail in silence and no command    *)
(* outlives its session.  Configurations then only grow, from what was     *)
(* recorded over what was sent and what the worker read to what the users  *)
(* ask for; a verdict finds the two ends equal.                            *)

SpecsGrow == \A i, j \in 1..Len(store) : i =< j => store[i].cfg =< store[j].cfg

CopyIsPast == pc # "idle" => /\ sent =< cr.cfg
                             /\ \A i \in 1..Len(store) : cr.cfg =< store[i].cfg

SentIsBetween == /\ \A i \in 1..Len(store) : store[i].ann =< sent /\ sent =< store[i].cfg
                 /\ cr.ann =< sent

\* A unit has the flags last sent in its file, and is active with none but them.
RunsAsSent == Exists(host) => host.cfg = sent /\ (Ready(host) => host.runs = sent)

\* What was last sent is recorded only where the command for it succeeded.
RecordedIsTrue ==
    sent # NoConfig /\ \/ \E i \in 1..Len(store) : store[i].ann = sent
                       \/ cr.ann = sent
                       \/ Persisting
    => RunsAsSent

VerdictInv == /\ SpecsGrow /\ CopyIsPast /\ SentIsBetween /\ RecordedIsTrue
              /\ Persisting => sent = cr.cfg
              /\ ~Exists(host) => host.state = "down"

-----------------------------------------------------------------------------
(* A Cluster that is as its user asked stays so.                           *)

\* Nothing is left to be done for the resource, and the worker has not begun to
\* do anything either.
Settled == /\ CacheIsCurrent /\ Owned(Current) /\ clusterIsUpToDate(Current)
           /\ Exists(host) /\ Ready(host) /\ orphan = NoConfig
           /\ pc = "idle" \/ (pc = "observe" /\ cr = Current)

\* Left alone, the provider leaves a settled Cluster alone: as long as no user
\* and no fault comes along, reconciles write nothing and send nothing that
\* changes the machine, and it stays settled (cluster.go's Observe says so).
SettledStays == [][Settled /\ UNCHANGED budgets => UNCHANGED <<store, host>> /\ Settled']_vars
=============================================================================
