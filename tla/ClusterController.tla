------------------------- MODULE ClusterController -------------------------
(***************************************************************************)
(* One Cluster managed resource, the worker that reconciles it, the API    *)
(* server that stores it and the machine it is installed on.               *)
(*                                                                         *)
(* The external client (Observe, Create, Update, Delete and                *)
(* persistLastAppliedClusterConfig) is internal/controller/cluster/        *)
(* cluster/cluster.go; the namespaced one differs in the ProviderConfig    *)
(* Connect looks up.  The loop that calls it is crossplane-runtime's       *)
(* managed.Reconciler, which is not in the repository: its steps are       *)
(* modelled from the options Setup passes to it and from what the          *)
(* comments of cluster.go and of package criticalannotation say the        *)
(* provider relies on.                                                     *)
(*                                                                         *)
(* Simplifications:                                                        *)
(*  - mgr.GetClient() reads an informer cache.  store holds the versions   *)
(*    of the object the cache has not passed yet: its head is what the     *)
(*    cache serves, its last element what the API server has.              *)
(*  - a resourceVersion is one bit: fresh says that nobody else has        *)
(*    written since the version the reconciler's copy cr was taken from.   *)
(*  - the status subresource is left out: no decision reads it here.       *)
(*  - one worker: a workqueue never hands one key to two workers, and a    *)
(*    second replica needs leader election to be switched off.             *)
(***************************************************************************)
EXTENDS Naturals, Sequences

CONSTANTS
    Configs,     \* configurations, numbered so that a user can be said to go back
    Revisit,     \* may a user set a configuration older than the current one?
    Faults,      \* kinds of fault that may strike, out of FaultKinds
    MaxFaults,   \* how many do
    MaxEdits,    \* how many times users create, edit or delete the resource
    MaxLag       \* how many versions the cache can be behind, plus one

FaultKinds == {"crash",    \* the provider's process dies and is restarted
               "api",      \* an API request fails, before or after taking effect
               "ssh",      \* a command reports failure, or its reply is lost
               "ctx",      \* the reconcile's ten-minute budget runs out
               "lag",      \* the critical-annotation budget or retries run out
               "curl",     \* the script download fails and sh reads nothing
               "orphan",   \* a command cut off by ctx keeps running on the host
               "unit",     \* the k3s process dies
               "wipe"}     \* the machine is re-imaged out of band

ASSUME ConfigsAssumption == Configs \subseteq Nat \ {0}
ASSUME SwitchesAssumption == Revisit \in BOOLEAN /\ Faults \subseteq FaultKinds
ASSUME BoundsAssumption == MaxFaults \in Nat /\ MaxEdits \in Nat /\ MaxLag \in Nat \ {0}

NoConfig == 0    \* no configuration recorded, sent or installed

INSTANCE K3sHost

VARIABLES
    store,    \* versions of the API object, from the cached one to the current one
    pc,       \* the reconciler's next step
    cr,       \* the reconciler's in-memory copy of the object
    fresh,    \* would a full Update of cr pass the resourceVersion check?
    obs,      \* what Observe returned in this reconcile
    spent,    \* has the context of the current step's calls expired?
    host,     \* the machine
    orphan,   \* configuration of an install still running after its session closed
    sent,     \* history: configuration of the last install command sent
    faults,   \* faults so far
    silenced, \* history: has a fault struck that keeps the marker's writer from writing?
    edits     \* user actions so far

vars == <<store, pc, cr, fresh, obs, spent, host, orphan, sent, faults, silenced, edits>>
local == <<pc, cr, fresh, obs, spent>>
budgets == <<faults, silenced, edits>>

Markers == {"none", "pending", "succeeded", "failed"}

Objects == [exists   : BOOLEAN,
            cfg      : ConfigOrNone,   \* spec.forProvider, the mutable fields
            ann      : ConfigOrNone,   \* last-applied-cluster-config annotation
            fin      : BOOLEAN,        \* crossplane's finalizer
            deleting : BOOLEAN,        \* deletionTimestamp is set
            marker   : Markers]        \* latest external-create-* annotation

NoObject == [exists |-> FALSE, cfg |-> NoConfig, ann |-> NoConfig, fin |-> FALSE,
             deleting |-> FALSE, marker |-> "none"]

NoObservation == [exists |-> FALSE, upToDate |-> FALSE]

Steps == {"idle", "observe", "protect", "markPending", "create", "update",
          "persistCreate", "persistUpdate", "critical", "delete", "release"}

\* What is left of an object nobody stores any more: only what was last asked
\* for, which MayAskFor compares with.
Gone(o) == [NoObject EXCEPT !.cfg = o.cfg]

Cached == Head(store)
Current == store[Len(store)]
CacheIsCurrent == Len(store) = 1

Publish(o) == Len(store) < MaxLag /\ store' = Append(store, o)

Silencing == {"crash", "api", "lag"}

Fault(kind) == /\ kind \in Faults /\ faults < MaxFaults /\ faults' = faults + 1
               /\ silenced' = (silenced \/ kind \in Silencing)
               /\ UNCHANGED edits

EndReconcile == pc' = "idle" /\ cr' = NoObject /\ fresh' = FALSE /\ obs' = NoObservation
                /\ spent' = FALSE

Init == /\ store = <<NoObject>>
        /\ pc = "idle" /\ cr = NoObject /\ fresh = FALSE /\ obs = NoObservation
        /\ spent = FALSE
        /\ host \in {NoUnit, Adopted}
        /\ orphan = NoConfig /\ sent = NoConfig
        /\ faults = 0 /\ silenced = FALSE /\ edits = 0

-----------------------------------------------------------------------------
(* Users and the API server.                                               *)

UserWrites(o) == /\ edits < MaxEdits /\ edits' = edits + 1
                 /\ Publish(o) /\ fresh' = FALSE
                 /\ UNCHANGED <<pc, cr, obs, spent, host, orphan, sent, faults, silenced>>

MayAskFor(c) == c > Current.cfg \/ (Revisit /\ c # Current.cfg)

CreateCluster == /\ ~Current.exists
                 /\ \E c \in Configs : /\ MayAskFor(c)
                                       /\ UserWrites([NoObject EXCEPT !.exists = TRUE, !.cfg = c])

EditSpec == /\ Current.exists
            /\ \E c \in Configs : MayAskFor(c) /\ UserWrites([Current EXCEPT !.cfg = c])

\* A finalizer turns the request into a deletionTimestamp; without one the
\* object is gone.
DeleteCluster == /\ Current.exists /\ ~Current.deleting
                 /\ UserWrites(IF Current.fin THEN [Current EXCEPT !.deleting = TRUE]
                                              ELSE Gone(Current))

Deliver == /\ ~CacheIsCurrent
           /\ store' = Tail(store)
           /\ UNCHANGED <<local, host, orphan, sent, budgets>>

-----------------------------------------------------------------------------
(* Observe, and what the reconciler makes of it.                           *)

StartReconcile == /\ pc = "idle" /\ Cached.exists
                  /\ pc' = "observe" /\ cr' = Cached /\ fresh' = CacheIsCurrent
                  /\ UNCHANGED <<store, obs, spent, host, orphan, sent, budgets>>

\* Mutant: a resource without the annotation passes for up to date.
clusterIsUpToDateUnrecorded(c) == c.ann \in {NoConfig, c.cfg}

clusterIsUpToDate(c) == c.ann # NoConfig /\ c.ann = c.cfg

\* Mutants: the unit exists once is-active says so; readiness is a condition and
\* no part of the verdict.
ObservationOfActive(h, c) == [exists   |-> Ready(h),
                              upToDate |-> Ready(h) /\ clusterIsUpToDate(c)]
ObservationOfConfig(h, c) == [exists   |-> Exists(h),
                              upToDate |-> Exists(h) /\ clusterIsUpToDate(c)]

Observation(h, c) == [exists   |-> Exists(h),
                      upToDate |-> Exists(h) /\ Ready(h) /\ clusterIsUpToDate(c)]

\* Mutants: the finalizer is dropped without a look at the host; it is added only
\* on the way to a Create.
NextStepReleasing(c, o) == IF c.deleting THEN "release"
                           ELSE IF ~c.fin THEN "protect"
                           ELSE IF ~o.exists THEN "markPending"
                           ELSE IF ~o.upToDate THEN "update" ELSE "idle"
NextStepAdopting(c, o) == IF c.deleting THEN IF o.exists THEN "delete" ELSE "release"
                          ELSE IF ~o.exists THEN IF c.fin THEN "markPending" ELSE "protect"
                          ELSE IF ~o.upToDate THEN "update" ELSE "idle"

\* A deletion is finished off or carried out; otherwise the finalizer comes
\* before anything is changed outside.
NextStep(c, o) == IF c.deleting THEN IF o.exists THEN "delete" ELSE "release"
                  ELSE IF ~c.fin THEN "protect"
                  ELSE IF ~o.exists THEN "markPending"
                  ELSE IF ~o.upToDate THEN "update" ELSE "idle"

GoTo(step, c, o) == IF step = "idle"
                    THEN EndReconcile
                    ELSE pc' = step /\ cr' = c /\ obs' = o /\ UNCHANGED <<fresh, spent>>

Observe == /\ pc = "observe"
           /\ LET o == Observation(host, cr) IN GoTo(NextStep(cr, o), cr, o)
           /\ UNCHANGED <<store, host, orphan, sent, budgets>>

ObserveFails == /\ pc = "observe" /\ Fault("ssh") /\ EndReconcile
                /\ UNCHANGED <<store, host, orphan, sent>>

-----------------------------------------------------------------------------
(* The reconciler's own full updates of the object.  Each replaces it by   *)
(* the in-memory copy, and the API server refuses a stale one.             *)

Protected(c) == [c EXCEPT !.fin = TRUE]
Pending(c) == [c EXCEPT !.marker = "pending"]

AddFinalizer == /\ pc = "protect" /\ fresh
                /\ Publish(Protected(cr))
                /\ GoTo(NextStep(Protected(cr), obs), Protected(cr), obs)
                /\ UNCHANGED <<host, orphan, sent, budgets>>

\* The pending marker must have reached the API server before Create may run.
MarkPending == /\ pc = "markPending" /\ fresh
               /\ Publish(Pending(cr))
               /\ GoTo("create", Pending(cr), obs)
               /\ UNCHANGED <<host, orphan, sent, budgets>>

RemoveFinalizer == /\ pc = "release" /\ fresh
                   /\ Publish(Gone(cr))
                   /\ EndReconcile
                   /\ UNCHANGED <<host, orphan, sent, budgets>>

Conflict == /\ pc \in {"protect", "markPending", "release"} /\ ~fresh
            /\ EndReconcile
            /\ UNCHANGED <<store, host, orphan, sent, budgets>>

FullUpdate == CASE pc = "protect"     -> Protected(cr)
                [] pc = "markPending" -> Pending(cr)
                [] pc = "release"     -> Gone(cr)
                [] OTHER              -> cr

\* No answer comes back: the write was carried out, or it was not.
UpdateFails == /\ pc \in {"protect", "markPending", "release", "critical"} /\ fresh
               /\ Fault("api") /\ EndReconcile
               /\ (UNCHANGED store \/ Publish(FullUpdate))
               /\ UNCHANGED <<host, orphan, sent>>

-----------------------------------------------------------------------------
(* Create and Update: send the install command, then record what was sent. *)

\* Mutant: the marker is written under the context Create ran in.
WrapUpdaterInheriting(expired) == expired

\* The write that clears the pending marker runs on a budget of its own,
\* detached from the context Create may have used up.
WrapUpdater(expired) == FALSE

WriteMarker(result, c, f) == /\ pc' = "critical"
                             /\ cr' = [c EXCEPT !.marker = result]
                             /\ fresh' = f /\ spent' = WrapUpdater(spent)
                             /\ UNCHANGED obs

Creating == pc \in {"create", "persistCreate"}
Sending == pc \in {"create", "update"}
Persisting == pc \in {"persistCreate", "persistUpdate"}

\* A failed Create is recorded by its marker, a failed Update by the status.
Failed(f) == IF Creating THEN WriteMarker("failed", cr, f) ELSE EndReconcile

Sent == GoTo(IF Creating THEN "persistCreate" ELSE "persistUpdate", cr, obs)

InstallSucceeds == /\ Sending /\ ~spent /\ sent' = cr.cfg
                   /\ host' = Installed(host, cr.cfg)
                   /\ Sent
                   /\ UNCHANGED <<store, orphan, budgets>>

\* curl -sf fails quietly, sh reads an empty script and succeeds, and the
\* command's status is the restart's alone.
InstallMasked == /\ Sending /\ ~spent /\ sent' = cr.cfg /\ Fault("curl")
                 /\ IF Exists(host) THEN host' = Restarted(host) /\ Sent
                                    ELSE host' = host /\ Failed(fresh)
                 /\ UNCHANGED <<store, orphan>>

InstallFails == /\ Sending /\ ~spent /\ sent' = cr.cfg /\ Fault("ssh")
                /\ host' \in PartialInstalls(host, cr.cfg)
                /\ Failed(fresh)
                /\ UNCHANGED <<store, orphan>>

\* The session is gone before the command ended.  What it did stays done, and
\* without a terminal it need not notice that nobody listens any more.
CutShort == \/ host' \in PartialInstalls(host, cr.cfg) /\ UNCHANGED orphan
            \/ "orphan" \in Faults /\ orphan = NoConfig /\ orphan' = cr.cfg /\ UNCHANGED host

InstallTimesOut == /\ Sending /\ spent /\ sent' = cr.cfg
                   /\ CutShort /\ Failed(fresh)
                   /\ UNCHANGED <<store, budgets>>

ContextExpires == /\ ~spent /\ spent' = TRUE
                  /\ \/ (Sending \/ Persisting) /\ Fault("ctx")
                     \/ pc = "critical" /\ Fault("lag")
                  /\ UNCHANGED <<store, pc, cr, fresh, obs, host, orphan, sent>>

\* persistLastAppliedClusterConfig: Get, Update unless the value is already
\* there, and the same value on the copy the reconciler goes on with.  A
\* conflict is retried, which is to say it waits for the cache.
Recorded(f) == IF Creating
               THEN WriteMarker("succeeded", [cr EXCEPT !.ann = cr.cfg], f)
               ELSE EndReconcile

\* Mutants: the reconciler's copy is written, not the object just read; the
\* generation of the spec is recorded and not its mutable fields.
persistedCopy(latest) == [cr EXCEPT !.ann = cr.cfg]
persistedGeneration(latest) == [latest EXCEPT !.ann = edits]

persisted(latest) == [latest EXCEPT !.ann = cr.cfg]

PersistWrites == /\ Persisting /\ ~spent /\ CacheIsCurrent
                 /\ Cached.exists /\ Cached.ann # cr.cfg
                 /\ Publish(persisted(Cached)) /\ Recorded(FALSE)
                 /\ UNCHANGED <<host, orphan, sent, budgets>>

PersistKeeps == /\ Persisting /\ Cached.exists /\ Cached.ann = cr.cfg
                /\ Recorded(fresh)
                /\ UNCHANGED <<store, host, orphan, sent, budgets>>

PersistTimesOut == /\ Persisting /\ spent /\ Failed(fresh)
                   /\ UNCHANGED <<store, host, orphan, sent, budgets>>

PersistFails == /\ Persisting /\ Fault("api")
                /\ \/ UNCHANGED store /\ Failed(fresh)
                   \/ CacheIsCurrent /\ Publish(persisted(Cached)) /\ Failed(FALSE)
                /\ UNCHANGED <<host, orphan, sent>>

\* Four tries and the cache is still behind.
PersistGivesUp == /\ Persisting /\ ~CacheIsCurrent /\ Fault("lag") /\ Failed(fresh)
                  /\ UNCHANGED <<store, host, orphan, sent>>

-----------------------------------------------------------------------------
(* The critical-annotation write after Create: the whole object once more; *)
(* on a conflict its annotations are laid over a newly read object.        *)

AddAnnotations(latest, a) ==
    [latest EXCEPT !.marker = a.marker,
                   !.ann = IF a.ann = NoConfig THEN latest.ann ELSE a.ann]

\* Mutant: the copy is written over whatever the object has become.
CriticalWriteForced == /\ pc = "critical" /\ ~spent
                       /\ Publish(cr) /\ EndReconcile
                       /\ UNCHANGED <<host, orphan, sent, budgets>>

CriticalWrite == /\ pc = "critical" /\ ~spent /\ fresh
                 /\ Publish(cr) /\ EndReconcile
                 /\ UNCHANGED <<host, orphan, sent, budgets>>

CriticalConflict == /\ pc = "critical" /\ ~spent /\ ~fresh /\ Cached.exists
                    /\ cr' = AddAnnotations(Cached, cr) /\ fresh' = CacheIsCurrent
                    /\ UNCHANGED <<store, pc, obs, spent, host, orphan, sent, budgets>>

CriticalGivesUp == /\ pc = "critical" /\ spent /\ EndReconcile
                   /\ UNCHANGED <<store, host, orphan, sent, budgets>>

-----------------------------------------------------------------------------
(* Delete.                                                                 *)

UninstallSucceeds == /\ pc = "delete" /\ host' = NoUnit /\ EndReconcile
                     /\ UNCHANGED <<store, orphan, sent, budgets>>

UninstallFails == /\ pc = "delete" /\ Fault("ssh") /\ EndReconcile
                  /\ host' \in PartialUninstalls(host)
                  /\ UNCHANGED <<store, orphan, sent>>

-----------------------------------------------------------------------------
(* The process and the machine.                                            *)

Restart == Fault("crash") /\ EndReconcile /\ store' = <<Current>>

Crash == pc # "idle" /\ Restart /\ UNCHANGED <<host, orphan, sent>>

CrashWhileSending == Sending /\ Restart /\ sent' = cr.cfg /\ CutShort

UnitStarts == /\ host.state = "activating" /\ host' = Started(host)
              /\ UNCHANGED <<store, local, orphan, sent, budgets>>

\* systemd restarts a k3s that died, or has given up on it.
UnitFails == /\ Ready(host) /\ Fault("unit")
             /\ host' \in {Restarted(host), Down(host)}
             /\ UNCHANGED <<store, local, orphan, sent>>

HostWiped == /\ Exists(host) /\ Fault("wipe") /\ host' = NoUnit
             /\ UNCHANGED <<store, local, orphan, sent>>

OrphanFinishes == /\ orphan # NoConfig /\ orphan' = NoConfig
                  /\ host' = Installed(host, orphan)
                  /\ UNCHANGED <<store, local, sent, budgets>>

-----------------------------------------------------------------------------
Users == CreateCluster \/ EditSpec \/ DeleteCluster

\* What the worker does when nothing goes wrong, and its ways out of a
\* conflict or an expired context.
Progress == \/ StartReconcile \/ Observe
            \/ AddFinalizer \/ MarkPending \/ RemoveFinalizer \/ Conflict
            \/ InstallSucceeds \/ InstallTimesOut
            \/ PersistWrites \/ PersistKeeps \/ PersistTimesOut
            \/ CriticalWrite \/ CriticalConflict \/ CriticalGivesUp
            \/ UninstallSucceeds

Failures == \/ ObserveFails \/ UpdateFails \/ InstallMasked \/ InstallFails
            \/ ContextExpires \/ PersistFails \/ PersistGivesUp \/ UninstallFails
            \/ Crash \/ CrashWhileSending

Machine == UnitStarts \/ UnitFails \/ HostWiped \/ OrphanFinishes

Next == Users \/ Deliver \/ Progress \/ Failures \/ Machine

\* The poll interval starts a reconcile again and again, each step of one
\* returns, and watch events arrive.  A unit that is starting gets, some time,
\* to finish between two reconciles: ReadinessLoop says when it does.
Fairness == /\ WF_vars(Progress) /\ WF_vars(Deliver)
            /\ SF_vars(pc = "idle" /\ UnitStarts)

Spec == Init /\ [][Next]_vars
LiveSpec == Spec /\ Fairness

-----------------------------------------------------------------------------
\* Types, and the shape of the store: never empty, never longer than MaxLag.
TypeOK == /\ store \in Seq(Objects) /\ Len(store) \in 1..MaxLag
          /\ pc \in Steps /\ cr \in Objects /\ fresh \in BOOLEAN
          /\ obs \in [exists : BOOLEAN, upToDate : BOOLEAN]
          /\ spent \in BOOLEAN /\ host \in Hosts
          /\ orphan \in ConfigOrNone /\ sent \in ConfigOrNone
          /\ faults \in 0..MaxFaults /\ silenced \in BOOLEAN /\ edits \in 0..MaxEdits

\* The resource keeps the promise of ManagedResource, with the finalizer for
\* its guard and the unit an install command was sent for as what it guards.
Lifecycle == INSTANCE ManagedResource WITH
    declared  <- IF ~Current.exists THEN "absent"
                 ELSE IF Current.deleting THEN "withdrawn" ELSE "live",
    guarded   <- Current.fin,
    installed <- sent # NoConfig /\ Exists(host)
KeepsThePromise == Lifecycle!Spec

\* A machine this provider has sent an install to, and that has a unit, is
\* answered for: its Cluster exists and carries the finalizer, so that no
\* deletion goes through without the uninstall.
InstalledIsProtected == sent # NoConfig /\ Exists(host) => Current.exists /\ Current.fin

\* An install command goes out only while the finalizer is on the server,
\* whatever the age of the copy the decision was taken on.
SendsUnderProtection == Sending => Current.exists /\ Current.fin

\* Create never runs over a loaded unit: nothing that starts, fails or flaps
\* between the probe and the command is taken for absence.
CreatesOnlyWhenAbsent == pc = "create" => ~Exists(host)

\* A verdict of "up to date" is right about the machine: the process that is
\* active was started with exactly the configuration the verdict was about.
UpToDateMeansInstalled ==
    pc = "observe" /\ Observation(host, cr).upToDate => host.runs = cr.cfg

\* No reconcile leaves the pending marker behind, whatever it did with its own
\* context: only a process that dies, an API server that refuses the write or a
\* cache that is behind for longer than the writer's own budget can cause that.
PendingIsCleared ==
    pc = "idle" /\ Current.exists /\ Current.marker = "pending" => silenced

\* The provider never writes a spec: whoever writes the object, a change of
\* the configuration is a step in which the worker and the machine stand still.
SpecChangesAreUsers == [][Current'.cfg # Current.cfg => UNCHANGED <<pc, cr, host>>]_vars

\* Once users and faults stop, the machine runs what the resource asks for and
\* the annotation says so, for good.
Converged == Current.exists /\ ~Current.deleting
             => /\ Ready(host) /\ host.runs = Current.cfg
                /\ Current.ann = Current.cfg
Converges == <>[]Converged

\* A deletion asked for is carried out: the object does not wait for its
\* finalizer for ever.
DeletionCompletes == Current.deleting ~> ~Current.exists
=============================================================================
