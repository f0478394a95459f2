--------------------------- MODULE DriftDetection ---------------------------
(***************************************************************************)
(* The decorator internal/driftdetection puts around every external        *)
(* client, over the Cluster client it wraps.  ClusterController takes a    *)
(* configuration for one opaque value; here its fields are told apart,     *)
(* because spec.driftDetection hands single fields over to other owners.   *)
(*                                                                         *)
(* Simplifications:                                                        *)
(*  - a field is a mutable field of forProvider.  The others can be        *)
(*    ignored as well, which substitutes the value they have anyway.       *)
(*  - an install or uninstall takes place or does not; ClusterController   *)
(*    has the half-done ones, and Clusters that are created again.         *)
(*  - a status write lands; so does the annotation, once the cache is      *)
(*    current.                                                             *)
(***************************************************************************)
EXTENDS Integers, IgnorePaths

CONSTANTS
    Fields,      \* mutable fields of forProvider
    Paths,       \* what users write under ignore, eligible or not
    Live,        \* those Observe reads from the host: k3sVersion alone
    Values,      \* what a user can set a field to; Zero is the empty value
    Owned,       \* fields somebody else changes on the host
    Modes,       \* the modes users choose from
    Lag,         \* may the informer cache be behind?
    Faults,      \* "host": units die, hosts are wiped; "worker": a reconcile
                 \* stops halfway; "record": it does before what it sent is
                 \* recorded; "version": the version cannot be read
    MaxEdits, MaxFaults

AllModes == {"enabled", "warn", "disabled"}
Zero == 0

ASSUME FieldsAssumption == Live \subseteq Fields /\ Owned \subseteq Fields
ASSUME PathsAssumption == \A p \in Paths : Eligible(p) => normalizePath(p)[2] \in Fields
ASSUME ValuesAssumption == Values \subseteq Nat /\ Zero \in Values
ASSUME ModesAssumption == Modes \subseteq AllModes /\ Lag \in BOOLEAN
                             /\ Faults \subseteq {"host", "worker", "record", "version"}
ASSUME LimitsAssumption == MaxEdits \in Nat /\ MaxFaults \in Nat

VARIABLES
    obj,        \* the Cluster in the API server
    cache,      \* the Cluster in the informer cache
    pc,         \* the worker's next step
    cr,         \* its copy of the object
    fresh,      \* would a full Update of cr be accepted?
    verdict,    \* what the decorated Observe returned
    captured,   \* external.obs: what Observe saw at the ignored paths
    command,    \* the configuration Create or Update sends
    host,       \* the machine: is there a unit, is it active, its flags
    edits, faults

vars == <<obj, cache, pc, cr, fresh, verdict, captured, command, host, edits, faults>>
worker == <<pc, cr, fresh, verdict, captured, command>>

\* The first line of `k3s --version`: it names the version and is not one.
Banner(v) == -1 - v

Specs == [Fields -> Values]
Texts == Values \cup {Banner(v) : v \in Values}
Commands == [Fields -> Texts]
Nothing == [f \in {} |-> Zero]     \* no annotation, no snapshot, no command
Conditions == {"none", "InSync", "Drifted", "DriftIgnored", "IgnoredPathUnobserved"}

Objects == [spec   : Specs,
            ann    : Specs \cup {Nothing},  \* last-applied-cluster-config
            mode   : AllModes,              \* spec.driftDetection.mode
            ignore : SUBSET Paths,          \* spec.driftDetection.ignore[*].paths
            fin    : BOOLEAN,               \* crossplane's finalizer
            deleting : BOOLEAN,             \* metadata.deletionTimestamp is set
            cond   : Conditions]            \* reason of condition DriftDetected

\* Deleted, with no finalizer to wait for.
Gone(o) == o.deleting /\ ~o.fin

Hosts == [loaded : BOOLEAN, ready : BOOLEAN, flags : Specs]

\* A Cluster just created, on an empty machine or one that has a k3s already.
\* Users who hand over fields from the start edit it before the first reconcile.
Init == /\ \E s \in Specs :
              obj = [spec |-> s, ann |-> Nothing, mode |-> "enabled", ignore |-> {},
                     fin |-> FALSE, deleting |-> FALSE, cond |-> "none"]
        /\ cache = obj
        /\ \E l \in BOOLEAN, s \in Specs :
              host = [loaded |-> l, ready |-> l, flags |-> IF l THEN s ELSE obj.spec]
        /\ pc = "idle" /\ cr = obj /\ fresh = FALSE
        /\ verdict = [exists |-> FALSE, upToDate |-> FALSE]
        /\ captured = Nothing /\ command = Nothing
        /\ edits = 0 /\ faults = 0

Write(o) == obj' = o /\ cache' = IF Lag THEN cache ELSE o

Deliver == /\ cache # obj /\ cache' = obj
           /\ UNCHANGED <<obj, worker, host, edits, faults>>

-----------------------------------------------------------------------------
(* Users, and whoever owns the fields users hand over.                     *)

UserWrites(o) == /\ ~Gone(obj) /\ o # obj
                 /\ edits < MaxEdits /\ edits' = edits + 1
                 /\ Write(o) /\ fresh' = FALSE
                 /\ UNCHANGED <<pc, cr, verdict, captured, command, host, faults>>

EditSpec == \E f \in Fields, v \in Values : UserWrites([obj EXCEPT !.spec[f] = v])

SetMode == \E m \in Modes : UserWrites([obj EXCEPT !.mode = m])

SetIgnore == \E i \in SUBSET Paths : UserWrites([obj EXCEPT !.ignore = i])

DeleteCluster == UserWrites([obj EXCEPT !.deleting = TRUE])

OwnerSets == /\ host.loaded /\ edits < MaxEdits /\ edits' = edits + 1
             /\ \E f \in Owned, v \in Values \ {Zero} : host' = [host EXCEPT !.flags[f] = v]
             /\ UNCHANGED <<obj, cache, worker, faults>>

-----------------------------------------------------------------------------
(* The wrapped client.                                                     *)

\* status.atProvider after an Observe: the version is what the host answers,
\* nothing where that call fails, since its error is dropped; every other field
\* comes from the annotation.  Zero stands for a field left out.
atProvider(c, h, answered) ==
    [f \in Fields |-> IF f \in Live THEN IF answered THEN Banner(h.flags[f]) ELSE Zero
                      ELSE IF c.ann = Nothing THEN Zero ELSE c.ann[f]]

\* Mutant: an active unit is an up-to-date one.
innerUpToDateIfActive(s, c, h) == h.loaded /\ h.ready

innerUpToDate(s, c, h) == h.loaded /\ h.ready /\ c.ann = s

-----------------------------------------------------------------------------
(* The decorator.                                                          *)

snapshot(c, h, answered) == [f \in IgnorePaths(c.ignore) |-> atProvider(c, h, answered)[f]]

unobserved(obs) == {f \in DOMAIN obs : obs[f] = Zero}

\* The forProvider of the shadow copy.
apply(s, obs) == [f \in Fields |-> IF f \in DOMAIN obs \ unobserved(obs) THEN obs[f] ELSE s[f]]

\* Before it adds its finalizer the runtime changes nothing outside.
Decide(c, v) == pc' = IF c.deleting THEN IF v.exists THEN "delete" ELSE "release"
                      ELSE IF ~c.fin THEN "protect"
                      ELSE IF ~v.exists THEN "create"
                      ELSE IF ~v.upToDate THEN "update" ELSE "status"

\* Mutant: the condition is set on the copy that is thrown away.
ReportedOnShadow(c, reason) == c

Reported(c, reason) == [c EXCEPT !.cond = reason]

Judged(c, v) == cr' = c /\ verdict' = v /\ Decide(c, v)

StartReconcile == /\ pc = "idle" /\ ~Gone(cache) /\ pc' = "observe"
                  /\ cr' = cache /\ fresh' = (cache = obj)
                  /\ captured' = Nothing /\ command' = Nothing
                  /\ UNCHANGED <<obj, cache, verdict, host, edits, faults>>

\* Mutant: an ineligible path is skipped, and the rest of the list applied.
ReadConfigFailsNever(c) == FALSE

Unreadable(c) == ReadConfigFails(c.ignore)

\* The wrapped client is not even asked.
ObserveUnreadable ==
    /\ pc = "observe" /\ Unreadable(cr) /\ pc' = "status"
    /\ UNCHANGED <<obj, cache, cr, fresh, verdict, captured, command, host, edits, faults>>

ObserveAbsent == /\ pc = "observe" /\ ~Unreadable(cr) /\ ~host.loaded
                 /\ Judged(cr, [exists |-> FALSE, upToDate |-> FALSE])
                 /\ UNCHANGED <<obj, cache, fresh, captured, command, host, edits, faults>>

\* Mutant: in mode warn a drift is reported and corrected as well.
warnVerdictPlain(up) == up

warnVerdict(up) == TRUE

\* Neither mode lets an Update happen.
JudgeHandsOff(up) ==
    \/ /\ cr.mode = "disabled" /\ Judged(cr, [exists |-> TRUE, upToDate |-> TRUE])
    \/ /\ cr.mode = "warn"
       /\ Judged(Reported(cr, IF up THEN "InSync" ELSE "Drifted"),
                 [exists |-> TRUE, upToDate |-> warnVerdict(up)])

JudgeEnabled(up, obs) ==
    LET noted == IF unobserved(obs) # {} THEN Reported(cr, "IgnoredPathUnobserved")
                 ELSE IF up THEN Reported(cr, "InSync") ELSE cr
    IN  /\ cr.mode = "enabled"
        /\ IF cr.ignore = {} THEN Judged(cr, [exists |-> TRUE, upToDate |-> up])
           ELSE IF up THEN Judged(noted, [exists |-> TRUE, upToDate |-> TRUE])
           ELSE pc' = "reobserve" /\ cr' = noted
                /\ verdict' = [exists |-> TRUE, upToDate |-> FALSE]

Observed(answered) ==
    /\ pc = "observe" /\ ~Unreadable(cr) /\ host.loaded
    /\ captured' = snapshot(cr, host, answered)
    /\ LET up == innerUpToDate(cr.spec, cr, host)
       IN  JudgeHandsOff(up) \/ JudgeEnabled(up, captured')
    /\ UNCHANGED <<obj, cache, fresh, command, host, edits>>

ObserveUnit == Observed(TRUE) /\ UNCHANGED faults

\* Nobody is told that the version could not be read, unless the path is ignored.
VersionUnread == /\ "version" \in Faults /\ faults < MaxFaults /\ faults' = faults + 1
                 /\ Observed(FALSE)

\* The second look, with the ignored paths pinned to what the first one saw.
\* Only its verdict is kept: the copy asked about is a deep copy.
ReobserveLeaving(c) ==
    /\ pc = "reobserve"
    /\ LET up == innerUpToDate(apply(cr.spec, captured), cr, host)
       IN  Judged(Reported(c, IF up THEN "DriftIgnored" ELSE "Drifted"),
                  [exists |-> TRUE, upToDate |-> up])
    /\ UNCHANGED <<obj, cache, fresh, captured, command, host, edits, faults>>

\* Mutant: the values are substituted in the reconciler's own object.
ReobserveInPlace == ReobserveLeaving([cr EXCEPT !.spec = apply(cr.spec, captured)])

Reobserve == ReobserveLeaving(cr)

\* The answer to the write replaces the copy, status and all.
AddFinalizer == /\ pc = "protect"
                /\ IF fresh /\ ~Gone(obj)
                   THEN LET c == [cr EXCEPT !.fin = TRUE, !.cond = obj.cond]
                        IN  Write(c) /\ cr' = c /\ Decide(c, verdict)
                   ELSE pc' = "idle" /\ UNCHANGED <<obj, cache, cr>>
                /\ UNCHANGED <<fresh, verdict, captured, command, host, edits, faults>>

\* Create passes the spec through: it seeds the ignored paths too.
createCommand == cr.spec

\* Mutant: Update sends the spec whatever is ignored.
updateCommandFromSpec == cr.spec

updateCommand == IF cr.mode # "enabled" \/ cr.ignore = {}
                 THEN cr.spec ELSE apply(cr.spec, captured)

\* The script downloads the release it is given, and there is none by the name
\* of a banner.
Sends(c) == /\ command' = c
            /\ IF c \in Specs
               THEN host' = [loaded |-> TRUE, ready |-> FALSE, flags |-> c] /\ pc' = "persist"
               ELSE UNCHANGED host /\ pc' = "status"
            /\ UNCHANGED <<obj, cache, cr, fresh, verdict, captured, edits, faults>>

Create == pc = "create" /\ Sends(createCommand)

Update == pc = "update" /\ Sends(updateCommand)

\* What is recorded is the spec of the object the wrapped client was given,
\* the shadow's, and it is written to the object just read.
recorded == command

\* Mutant: hands off means nothing is deleted either.
DeleteIfEnabled ==
    /\ pc = "delete" /\ pc' = "status"
    /\ host' = IF cr.mode = "enabled" THEN [host EXCEPT !.loaded = FALSE, !.ready = FALSE] ELSE host
    /\ UNCHANGED <<obj, cache, cr, fresh, verdict, captured, command, edits, faults>>

Delete == /\ pc = "delete" /\ pc' = "status"
          /\ host' = [host EXCEPT !.loaded = FALSE, !.ready = FALSE]
          /\ UNCHANGED <<obj, cache, cr, fresh, verdict, captured, command, edits, faults>>

\* The object disappears with its last finalizer.
RemoveFinalizer == /\ pc = "release" /\ pc' = "idle"
                   /\ IF fresh THEN Write([cr EXCEPT !.fin = FALSE]) ELSE UNCHANGED <<obj, cache>>
                   /\ UNCHANGED <<cr, fresh, verdict, captured, command, host, edits, faults>>

Persist == /\ pc = "persist" /\ cache = obj
           /\ Write([obj EXCEPT !.ann = recorded])
           /\ pc' = "status" /\ fresh' = FALSE
           /\ UNCHANGED <<cr, verdict, captured, command, host, edits, faults>>

WriteStatus == /\ pc = "status"
               /\ IF Gone(obj) THEN UNCHANGED <<obj, cache>>
                  ELSE Write([obj EXCEPT !.cond = cr.cond])
               /\ pc' = "idle" /\ fresh' = FALSE
               /\ UNCHANGED <<cr, verdict, captured, command, host, edits, faults>>

-----------------------------------------------------------------------------
UnitStarts == /\ host.loaded /\ ~host.ready /\ host' = [host EXCEPT !.ready = TRUE]
              /\ UNCHANGED <<obj, cache, worker, edits, faults>>

\* The unit dies, or the machine is wiped.
HostFails == /\ "host" \in Faults /\ faults < MaxFaults /\ faults' = faults + 1
             /\ host' \in {[host EXCEPT !.ready = FALSE],
                           [host EXCEPT !.loaded = FALSE, !.ready = FALSE]} \ {host}
             /\ UNCHANGED <<obj, cache, worker, edits>>

\* The reply is lost, the write fails or the process dies: the reconcile ends.
WorkerFails == /\ pc # "idle" /\ (IF pc = "persist" THEN "record" ELSE "worker") \in Faults
               /\ faults < MaxFaults /\ faults' = faults + 1
               /\ pc' = "idle"
               /\ UNCHANGED <<obj, cache, cr, fresh, verdict, captured, command, host, edits>>

Reconcile == \/ StartReconcile \/ ObserveUnreadable \/ ObserveAbsent \/ ObserveUnit \/ Reobserve
             \/ AddFinalizer \/ Create \/ Update \/ Persist \/ WriteStatus
             \/ Delete \/ RemoveFinalizer

Next == \/ EditSpec \/ SetMode \/ SetIgnore \/ DeleteCluster \/ OwnerSets
        \/ Deliver \/ Reconcile
        \/ UnitStarts \/ HostFails \/ WorkerFails \/ VersionUnread

\* The poll interval, the watch and a unit that gets to start between polls.
Fairness == WF_vars(Reconcile) /\ WF_vars(Deliver) /\ SF_vars(pc = "idle" /\ UnitStarts)

Spec == Init /\ [][Next]_vars
LiveSpec == Spec /\ Fairness

-----------------------------------------------------------------------------
\* Types.  A command may hold a banner; the host and the annotation never do.
TypeOK == /\ obj \in Objects /\ cache \in Objects
          /\ cr \in Objects /\ fresh \in BOOLEAN
          /\ pc \in {"idle", "observe", "reobserve", "protect", "create", "update",
                     "persist", "status", "delete", "release"}
          /\ verdict \in [exists : BOOLEAN, upToDate : BOOLEAN]
          /\ captured \in UNION {[i -> Texts] : i \in SUBSET Fields}
          /\ command \in Commands \cup {Nothing}
          /\ host \in Hosts
          /\ edits \in 0..MaxEdits /\ faults \in 0..MaxFaults

\* A substituted value never leaks into the resource: its spec changes in
\* users' steps, in which the worker and the host stand still.
SpecIsUsers == [][obj'.spec # obj.spec => UNCHANGED <<pc, cr, host>>]_vars

\* A resource read in mode warn or disabled has nothing changed on a machine
\* that has a unit.
HandsOff == [][host.loaded /\ host'.flags # host.flags /\ pc' # pc
               => pc = "create" \/ cr.mode = "enabled"]_vars

\* An Update leaves the value an ignored path was recorded with when it was
\* observed, whatever spec says of it and whatever else the Update is for; but
\* where the version could not be read, spec's stands for it, recorded or not.
IgnoredStaysRecorded ==
    [][obj'.ann # obj.ann /\ verdict.exists
       => \A f \in IgnorePaths(cr.ignore) :
             cr.ann # Nothing /\ cr.ann[f] # Zero /\ (f \in Live => captured[f] # Zero)
               => obj'.ann[f] = cr.ann[f]]_vars

\* A configuration one path of which is ineligible is not half applied: the
\* worker sends nothing for a resource it read with such a path.
RejectedMeansUntouched ==
    [][host' # host /\ pc' # pc => \A p \in cr.ignore : Eligible(p)]_vars

\* Handing paths over does not stop the rest from being reconciled, unless the
\* path is that of the version, whose banner no Update succeeds with.
ConvergesOutsideIgnored ==
    <>[](/\ obj.mode = "enabled" /\ ~obj.deleting
         /\ ~ReadConfigFails(obj.ignore) /\ IgnorePaths(obj.ignore) \cap Live = {}
         => host.loaded /\ host.ready
            /\ \A f \in Fields \ (IgnorePaths(obj.ignore) \cup Owned) : host.flags[f] = obj.spec[f])

\* In mode warn the condition says, in the end, whether the resource and what
\* is recorded of the machine differ.
WarnTells == <>[](obj.mode = "warn" /\ ~obj.deleting /\ ~ReadConfigFails(obj.ignore)
                  => (obj.cond = "Drifted" <=> obj.ann # obj.spec))

\* Field ownership has no bearing on deletion (driftdetection.go:598), as long
\* as the fields can be read: in every mode a deleted Cluster ends.
DeletionEnds == <>[](obj.deleting /\ ~ReadConfigFails(obj.ignore) => ~obj.fin)

\* Drift confined to ignored paths never triggers an update
\* (driftdetection.go:50 and 104): the second look at a running unit settles it.
IgnoredDriftIsLeft ==
    pc = "reobserve" /\ host.loaded /\ host.ready /\ cr.ann # Nothing
       /\ (\A f \in Fields \ IgnorePaths(cr.ignore) : cr.spec[f] = cr.ann[f])
    => innerUpToDate(apply(cr.spec, captured), cr, host)
=============================================================================
