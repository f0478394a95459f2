# TLA+ models of provider-k3s

provider-k3s is a Crossplane provider: it installs k3s over SSH on machines
that `Cluster` (server) and `Node` (agent or further server) resources name,
keeps the installation in line with the resource's `spec`, and uninstalls it
when the resource is deleted. These modules model what the provider does to a
machine and to the API object, under stale reads, crashes, conflicts, lost
replies and expired contexts; TLC checks them on small instances and TLAPS
proves their safety properties, and the refinement, for all values of the
constants. Around this core are the SSH client's `Execute` with its goroutines,
the start-up of the process and the decorator for drift detection.

Paths below are relative to the repository (`src/`). "Runtime" is
crossplane-runtime's `managed.Reconciler`, which is not in the repository: it
is modelled from the options `Setup` gives it and from what the comments of
this repository say the provider relies on, and marked external in
`PROJECT.json`.

## 1. Inventory

| Part | State it keeps | Operations | What it talks to |
|---|---|---|---|
| Cluster controller, cluster-scoped (`internal/controller/cluster/cluster/cluster.go`) | none of its own: the API object (spec, last-applied annotation, finalizer, create markers), the machine | Connect, Observe, Create, Update, Delete, persistLastAppliedClusterConfig, Disconnect | API server through a cached client; machine over SSH; publishes kubeconfig and token as connection secret |
| Cluster controller, namespaced (`internal/controller/namespaced/cluster/cluster.go`) | the same | the same, and the choice between ProviderConfig and ClusterProviderConfig | the same |
| Node controllers (`internal/controller/{cluster,namespaced}/node/node.go`) | the same, on Node objects | the same; resolves `clusterRef`, reads the Cluster's connection secret for the join token, defers its failure so that Delete works | the Cluster's secret; machine over SSH |
| Install commands (`internal/k3s/commands.go`) | the machine: unit file, unit state | InstallCommand, JoinCommand, ServiceProbeCommand/ParseServiceProbe, restart, uninstall | systemd and the k3s install script |
| SSH client (`internal/clients/ssh/client.go`) | the connection; per command a session, two buffers, the channel `done` | NewClient, Execute, Close | the machine; the goroutine that waits for a command races its context |
| Critical-annotation budget (`internal/criticalannotation`) | none | WrapUpdater | runtime's retrying annotation writer |
| Drift detection (`internal/driftdetection`) | the observation taken by this reconcile's Observe | decorated Observe, Create, Update, Delete; path grammar and eligibility | wraps every external client |
| Readiness (poll interval, watch filter, non-blocking restart) | the workqueue's pending entry, the unit's start | reconcile, restart, time | `Setup` options, `commands.go` |
| Reference resolver (`internal/controller/refresolver`) | the object's references | resolve on a copy, merge patch | API server |
| Start-up and SafeStart (`cmd/provider/main.go`, gated set-ups) | which controllers run | RBAC precheck with its deadline, gate on CRDs | API server, RBAC manager, package manager |
| ProviderConfig controllers | usage finalizers | wiring only | runtime |
| API types, generators, packaging (`apis`, `hack`) | - | - | - |

### What is hard

* **Stale reads.** `mgr.GetClient()` reads an informer cache. A reconcile may
  work on an object that has been edited, deleted, or deleted and created again.
* **Half-done work.** A command can change the machine and its reply be lost;
  the process can die between the install and the annotation that records it.
* **Two writers.** The provider reads and rewrites whole objects while users
  edit them; finalizer, markers, annotation and status are separate writes.
* **Budgets.** Create may use up its context; what must follow needs its own.
* **Verdicts from incomplete evidence.** k3s cannot be asked what it was
  installed with. "Up to date" is inferred from an annotation and a unit state.
* **The control loop itself.** Update restarts a unit that is not ready yet.
* **Hand-over of fields.** Drift detection looks twice at a machine that can
  change in between, and substitutes what it saw in what is sent.
* **Joining.** A Node's token comes from a secret that may be out of date.
* **Goroutines.** `Execute` selects between the end of a command and the end of
  its context, while others write the buffers it is about to read; connections
  fall silent, and not every wait looks at the context.
* **Errors that are dropped.** `Observe` goes on without three of its four
  answers, and publishes the text that came with them.
* **Start-up.** Permissions arrive one by one while they are being reviewed, and
  the kinds to be watched may be established before, after or never.

### What makes each part correct

* Cluster: nothing is installed without the finalizer on the server; the
  finalizer goes only when the unit is gone; Create never runs over a loaded
  unit; "up to date" is true of the machine; users' specs are never overwritten;
  the resource converges and deletions complete.
* Critical annotation: the pending marker does not outlive the reconcile.
* Readiness: a finite, small number of restarts after each disturbance, then rest.
* Drift detection: modes warn and disabled change nothing; ignored fields keep
  what is recorded of them; the rest still converges; conditions tell the truth.
* Node and references: a joined machine belongs to a Node with the finalizer; no
  machine is joined without a token, or to another Cluster than the one
  referenced; a Node follows its Cluster to a new server; a Node can be deleted
  when its Cluster is gone; resolution writes nothing but the reference.
* SSH client: a result without an error is the whole output; buffers are read
  when nobody writes them any more; every call ends; what is published as
  connection detail is right in the end and never forgotten in between.
* Start-up: SafeStart is enabled only where it can work, and not lost to a late
  grant or one bad review; controllers wait for their own kinds, and for no other.

`PROJECT.json` lists the hazards line by line with the properties that watch them.

## 2. Modules

```
ManagedResource       what any managed resource promises (abstract)
      ^  refinement (KeepsThePromise), of ClusterController and of NodeJoining
ClusterController --- INSTANCE K3sHost     one Cluster, its worker, its machine
      ^ EXTENDS
ClusterProtection     the inductive invariants
      ^ EXTENDS                ^ EXTENDS
MCClusterController   ClusterController_proofs <- ClusterRefinement_proofs
NodeController --- INSTANCE K3sHost        one Node, its machine, the Clusters it sees
      ^ EXTENDS
NodeJoining           what it promises beyond protection, and why
      ^ EXTENDS                ^ EXTENDS
MCNodeController      NodeController_proofs
IgnorePaths           which paths may be ignored (pure)
      ^ EXTENDS
DriftDetection <- MCDriftDetection, DriftDetection_proofs   the decorator over the Cluster client
ReadinessLoop  <- MCReadinessLoop, ReadinessLoop_proofs     when does a restarted unit get ready
SSHExecute     <- MCSSHExecute, SSHExecute_proofs           one Observe over one connection
SafeStart      <- MCSafeStart, SafeStart_proofs             a process that starts
```

**K3sHost** is the machine as the commands see it: a unit is absent, down,
activating or active, has flags in its unit file (`cfg`) and the flags its process was
started with (`runs`). `Exists` and `Ready` are the two readings of the probe
(`LoadState`, `ActiveState`). An install writes the flags and queues a restart;
interrupted, it leaves any prefix of that (`PartialInstalls`). `Adopted` is a
k3s that no Cluster installed.

**ClusterController** has one action for each step of a reconcile that another
actor can get in between: `StartReconcile` (read the cache, connect), `Observe`,
`AddFinalizer`, `MarkPending`, the install (`InstallSucceeds`, `-Fails`,
`-Masked`, `-TimesOut`) for Create and Update alike, the annotation
(`PersistWrites`, `-Keeps`, `-Fails`, `-TimesOut`, `-GivesUp`), the critical
annotation (`CriticalWrite`, `-Conflict`, `-GivesUp`), the uninstall,
`RemoveFinalizer`. `store` is the sequence of object versions the informer has
not passed yet: its head is what reads return, its last element is the API
server's. A configuration is one number, the mutable fields of `forProvider`:
`clusterIsUpToDate` only compares them. `fresh` is the resourceVersion check. The
variables `sent` and `silenced` are histories that no action reads. The status
subresource is left out here, as no decision of this controller reads it;
DriftDetection has its condition.

The cluster-scoped and the namespaced controllers have the same handlers; they
differ in the ProviderConfig that Connect looks up and in the namespace of the
Cluster and its secret. ClusterController and NodeController stand for both, and
`map` in `PROJECT.json` names lines of either.

**ManagedResource** is the promise in three variables: declared, guarded,
installed. **ClusterProtection** holds the invariants of the proofs, and what it
means that nothing is left to be done (`Settled`).

**NodeController** is reference resolution, Connect's lookup of the Cluster, and
the external client of Node. `ResolveReferences`, `NothingToResolve` and
`ResolveFails` are `refresolver.go`: the reference is resolved on the copy, the
patch touches one field of whatever the object has become, and the API server's
answer replaces the copy. `Connect` fills `conn` (server and token, or
`clusterErr`), which only `JoinRefused`, `JoinSucceeds`, `JoinMasked` and `JoinFails`
look at.
A join is an install whose configuration has two parts, the flags of the spec
and the token, so NodeController instantiates K3sHost with pairs; and it goes
through the same pipe, so its download can fail unseen (`JoinMasked`). The history
variable `doubt`, which no guard reads, remembers whether that has happened or a
user went back to earlier flags. Clusters are
there as a Node can see them: object, running server, connection secret; a
machine that loses its server and gets a new one has a new token, and the secret
follows some time later. That the provider brings a Cluster to the point where
its server runs and its secret is right is what `Converges` says in run `core`;
here it is an assumption (`ServerInstalled`, `PublishDetails`). The finalizer and
the annotation are handled as in ClusterController, whose stale cache, create
markers and expired contexts are not repeated; nor is the command that goes on
after its session, so whatever is said of Nodes assumes that there is none.

**NodeJoining** states what can be said of a Node beyond that: it is a
ManagedResource (`KeepsThePromise`), its verdict is true unless there is `doubt`
(`UpToDateMeansJoined`),
its machine joins the Cluster of its own namespace and no other
(`JoinsItsCluster`), and a settled Node is left alone; with the invariants each of
these rests on.

**ReadinessLoop** leaves objects out and counts time: ticks for a start, ticks
for a poll, one delayed workqueue entry, and the event that a changed annotation
causes through the `DesiredStateChanged` filter.

**DriftDetection** tells fields apart. A reconcile is `Observe` (inner verdict,
snapshot of ignored paths, then by mode), `Reobserve` (the second look with the
shadow's values), `Create`/`Update` with the command sent, `Persist` of what the
wrapped client was given, the status write with the condition, and `Delete`,
which looks at no field and in every mode goes straight to the wrapped client.
`VersionUnread` is an Observe whose `k3s --version` fails, or prints nothing: the
error is dropped, and the version goes unobserved. Users write paths, not fields: `ReadConfig` rejects a list with one ineligible
path, and `ObserveUnreadable` then ends the reconcile. The cache may be behind
(`Lag`).

**IgnorePaths** is `normalizePath` and `checkEligible`: a path in either grammar is
a sequence of names, `ClusterType` the sequences that lead somewhere in the Go
types (the code finds them by reflection). A path has to exist in `spec` and, with
`atProvider` for `forProvider`, in `status`, and must not be on the denylist.

**SSHExecute** is one connection, as `Observe` uses it: four commands, one after the
other, each a session with a copy goroutine and the goroutine that waits for the
session's end and reports on `done`. `SelectDone` and `SelectExpired` are the two
branches of the select, either of which may be taken when both are ready;
`Drained` is the `<-done` after `Close`. Output arrives in `Size` pieces, so that
there is such a thing as half of it. `Publish` is what the runtime makes of the
connection details: a patch, in which a missing key changes nothing. The
connection may be lost (everybody learns of it) or silent (nobody does, until the
operating system gives up).

**SafeStart** follows one process at a time from `Begin` through rounds of
`get`, `list`, `watch` reviews to `Gated` or `Ungated`, while the RBAC manager
grants verbs and the package manager establishes definitions, each when it likes.
Time is the precheck's: a review takes none, except as a fault. Ungated, a
manager whose kinds are not all served fails, and the process starts over.

The operators whose comment starts with "Mutant:" are variants of the definition
below them with a plausible mistake; `PROJECT.json` names which property each of
them breaks. Nothing else uses them.

## 3. Runs

| Run | Configuration | Question and answer |
|---|---|---|
| core | MCCore | The types, the safety properties, the refinement of ManagedResource and the inductive invariants it rests on, with up to three faults of seven kinds; and `Converges`: once users and faults stop, the machine ends up as asked and the annotation says so. They hold. |
| rough | MCRough | Every fault, masked downloads and orphaned commands included, and users who revert: commands only go out under the finalizer, deletions complete. Hold. |
| readiness | MCReadiness | Starts shorter than a poll interval settle, after at most three restarts per edit or fault (two are too few). Hold. |
| drift | MCDrift | The decorator, with users who change spec, mode and list between any two steps, write ineligible paths and delete; an owner of an ignored field; a stale cache; and a fault, a version that cannot be read among them: specs are users', warn and disabled keep their hands off, ignored paths stay as recorded where they were observed, nothing is sent for a list that cannot be read; what is not ignored converges, the condition tells the truth in mode warn, deletions end. Hold. |
| ssh | MCSSH | Four commands over a connection, the goroutines and the peer interleaved, with two of seven kinds of fault, while k3s is installed anew: a success is whole, buffers are quiet when read, every call returns, details are kept and in the end right. Hold. |
| safe_start | MCSafeStart | The precheck while grants and definitions arrive in any order, with failing and slow reviews and restarts of the process: `GatedMeansAllowed`, `SafeStartIsNotLost`, `StartsWhenServed`, `ServedKindsRun`. Hold. |
| node | MCNode | A Node, a Cluster by the name it references in its own namespace and one in the namespace the reference names, created, edited (back to earlier flags, too) and deleted while servers, agents and the provider fail and downloads fail unseen. `JoinedIsProtected`, `NeverJoinsNothing`, `KeepsThePromise` (the Node is a ManagedResource), `UpToDateMeansJoined` (a verdict is true, if no download failed unseen and nobody went back), `JoinsItsCluster` (only ever with a token of the Cluster in its own namespace), `SpecChangesAreUsers`, `DeletionCompletes` (whatever became of the Clusters), `Joining` (in the end the Node is joined to the server its Cluster runs now, with the token of that one, and with its own flags if there is no doubt). Hold. |
| curl_masked | MCCurlMasked | Is "up to date" true of the machine if a script download may fail? No. |
| readiness_slow | MCReadinessSlow | Does a start longer than a poll interval ever end? No. |
| drift_banner | MCDriftBanner | Does drift confined to ignored paths never call for an Update? Not for `k3sVersion`. |
| node_optional | MCNodeOptional | Is a Node never joined to nothing? Not with an optional selector that selects nothing. |
| details_redacted | MCRedacted | Are the published details what the machine printed? Not when a read fails after its output. |

The last five are expected to be violated: each states a sentence of the code's
own comments. The findings in `PROJECT.json` quote the sentence; in short:

* **curl_masked.** `curl -sfL ... | sh - && restart` has no pipefail. A failed
  download runs an empty script, the restart of the old unit succeeds, and the
  new configuration is recorded as applied.
* **readiness_slow.** A unit that is not active is not up to date, so each poll
  restarts it. A start longer than `--poll` (1m) is cut off for ever.
* **drift_banner.** `atProvider.k3sVersion` is the first line of
  `k3s --version`, not a version; ignoring the field makes it differ for ever
  and puts the banner on the command line.
* **node_optional.** Connect looks the Cluster up only if the reference was
  resolved, and takes an unresolved one for a Node that is only observed. A
  `clusterSelector` with `policy.resolution: Optional` that selects nothing
  resolves to nothing, without an error: Create then joins `https://:6443` with
  an empty token, and the next Observe finds a unit that never gets ready.
* **details_redacted.** `Observe` reads node-token and kubeconfig, drops the
  errors and looks at the text. `Execute` returns text beside an error as well:
  redacted, or as much as had arrived. A connection lost at that moment publishes
  `[REDACTED]`, or a fragment, as the token; `DetailsCatchUp` says that a later pass
  puts it right, but until then Nodes join with it.

### Known limits without a run

* A Node's join is piped into `sh` as a Cluster's install is (commands.go:156-158),
  so what run `curl_masked` shows is true of Nodes as well. Run `node` has the
  fault; `UpToDateMeansJoined`, and what `Joining` says of flags, are stated for
  Nodes with which it has not happened (`~doubt`).
* Update sends, then records. If the reply is lost and the user reverts the spec,
  annotation and spec agree about something the machine does not run. Hence
  `Revisit = FALSE` in run `core`, the hypothesis of `VerdictIsTrue`, `~doubt` in
  what is said of a Node's flags, and no fault `"record"` in run `drift`.
* `clusterRef.namespace` is honoured while resolving, but only the object's name is
  kept, and Connect looks that name up in the Node's own namespace. Run `node` has
  a reference to another namespace: the Node then joins the Cluster by that name
  at home (`JoinsItsCluster`), and `Joining` speaks of Nodes that have one there.
  Where there is none, a Node whose reference resolves never joins.
* `IgnoredStaysRecorded` is stated for values that are not empty.
  `status.atProvider` omits empty ones, so an ignored field recorded as empty
  reads as unobserved, and the next Update writes `spec`'s value over it.
* It excepts the version where it was not observed. `Observe` drops the error of
  `k3s --version` (cluster.go:248); an empty answer is left out of `status.atProvider`
  and the ignored path counts as unobserved. If anything else calls for an Update,
  it sends and records `spec`'s version over the one recorded, and the condition
  `IgnoredPathUnobserved` is all that says so.
* It is also stated relative to the copy that was read: when the cache is behind,
  an Update may send and record a value older than the last one recorded.
* An ineligible path fails `Observe`, on a resource that is being deleted as well,
  although driftdetection.go:598 says that field ownership has no bearing on
  deletion: until a user mends the list the Cluster stays. `DeletionEnds` is stated
  for lists that can be read.
* In mode enabled without ignored paths no branch touches the condition that mode
  warn has left, so a corrected drift stays reported. `WarnTells` speaks of warn only.
* Fields other than the version are mirrored from the annotation, so what their
  owner set on the machine is not seen; the repository's README says as much of
  drift in general.
* `NewSession`, `Start` and the `<-done` after `Close` do not look at the context.
  `ExecuteReturns` therefore rests on the keepalives Go's dialer switches on, and
  excludes an sshd that hangs on a machine whose kernel still acknowledges.

### Bounds, and why they are enough

| Constant | Value | Why |
|---|---|---|
| `Configs` | 2 or 3 | an old, a current and a newer configuration; comparisons are by equality only |
| `MaxLag` | 3 | the version a worker read, one in between, and the current one |
| `MaxEdits` | 2 to 4 | create, edit, delete and create again, between any two steps |
| `MaxFaults` | 1 to 3 | a failure, one during its repair, and one more |
| `Revisit` | by run | users who go back; FALSE where the statement is known to need it |
| `Namespaces` | 1 or 2 | the Node's own, and in run `node` the one its reference names |
| `Fields`, `Values` | 2 by 2 | an ignored and another field; the empty value and another |
| `Paths` | 3 | two eligible ones, one in each grammar, and one that is not |
| `StartTicks`, `PollTicks` | 3, 5 and 5, 3 | a start within, and beyond, one poll interval |
| `Size` | 2 | none, half and all of an output |
| `MaxInstalls` | 2 | the details of an installation that is gone, and of the one that runs |
| `Deadline`, `Interval` | 5, 2 | three rounds, and a deadline that does not fall on one |

Edits and faults are budgets in the guards of users' and fault actions alone; the
worker is never limited. `Publish` limits the versions the cache lags behind, so
a write waits for the informer when it is `MaxLag - 1` behind. The refined
specification and the proofs have no bound on any of them. The runs say
`CHECK_DEADLOCK FALSE` where a deleted resource and spent budgets leave nothing
to do, and in SafeStart, where a process that runs everything changes no more. In
ReadinessLoop time never stops and in SSHExecute the next poll always comes:
there deadlock is checked.

Liveness is checked in the finite case, faults and edits having stopped, which is
the only case in which anybody promises it.

### Fairness

* `WF(Progress)`, `WF(Reconcile)`: the poll interval starts reconciles again and
  again, and each call returns: every external call has a deadline
  (`externalTimeout`), the annotation writer has its own budget.
* `WF(Deliver)`: watch events arrive.
* `SF(pc = "idle" /\ UnitStarts)`: a unit that is starting gets, some time, to
  finish between two reconciles. This is the strong one. ReadinessLoop takes it
  apart: it is justified when a start takes less than a poll interval, and not
  otherwise (run `readiness_slow`), so `Converges` and `ConvergesOutsideIgnored`
  are conditional on that.

* SSHExecute: weak fairness for the worker, for the goroutines, for an sshd that can be
  reached (it answers an open, and a close), for a context's deadline while
  nothing is heard, and for `TransportGivesUp`, the keepalives of a connection
  nobody answers on. No command has to end, and none has to print anything.
* SafeStart: `WF(Start)`: a process that has ended is started again, and polls;
  `WF(Grant)`: the RBAC manager gets to its work. Nobody has to establish a
  definition: `ServedKindsRun` is about those that are.
* NodeController: `WF(ServerInstalled)`, `WF(PublishDetails)` are what run `core`
  shows of a Cluster, and the poll that publishes what Observe reads.
  `WF(UnitLosesServer)` is an assumption about k3s: an agent whose server is gone
  for good does not report ready for ever. `Joining` needs it, because the
  verdict compares flags and not tokens: an agent that stayed active would be up
  to date.

## 4. Proofs

`ClusterController_proofs` (checked with TLAPS), for every set of
configurations, every bound and every set of faults allowed by the named
assumptions `ConfigsAssumption`, `SwitchesAssumption` and `BoundsAssumption`:

| Theorem | Says | Extra hypothesis |
|---|---|---|
| `TypeCorrect` | `Spec => []TypeOK` | - |
| `EvidenceHolds` | `Spec => []EvidenceInv` | - |
| `AlwaysSendsUnderProtection` | `Spec => []SendsUnderProtection` | - |
| `OnlyReleaseUnguards` | the finalizer goes only in step "release", with a fresh copy of a deleted object | - |
| `ClusterSettledStays` | `Spec => SettledStays` | - |
| `ProtectionHolds` | `Spec => []ProtectionInv` | no `"orphan"` fault |
| `InstalledStaysProtected` | `Spec => []InstalledIsProtected` | no `"orphan"` fault |
| `AlwaysCreatesOnlyWhenAbsent` | `Spec => []CreatesOnlyWhenAbsent` | no `"orphan"` fault |
| `FinalizerOutlivesUnit` | the finalizer goes only from a machine without a unit | no `"orphan"` fault |

and in `ClusterRefinement_proofs`, which builds on it:

| Theorem | Says | Extra hypothesis |
|---|---|---|
| `ClusterSpecIsUsers` | `Spec => SpecChangesAreUsers` | - |
| `MarkerIsCleared` | `Spec => []PendingIsCleared` | - |
| `DeletionIsRemembered` | `Spec => []PromiseInv` | - |
| `ClusterKeepsThePromise` | `Spec => KeepsThePromise` | no `"orphan"` fault |
| `VerdictsHold` | `Spec => []VerdictInv` | no `"orphan"`, no `"curl"` fault, no user who goes back |
| `VerdictIsTrue` | `Spec => []UpToDateMeansInstalled` | the same |
| `SettledIsRight` | `Spec => [](Settled => host.runs = Current.cfg)` | the same |

In `NodeController_proofs`, for any namespaces, configurations, bounds and faults
(`NamespacesAssumption`, `NodeConfigsAssumption`, `NodeBoundsAssumption`):

| Theorem | Says | Extra hypothesis |
|---|---|---|
| `NodeTypes` | `Spec => [](TypeOK /\ AsksForSomething)` | - |
| `NodeProtection` | `Spec => []NodeInv` | - |
| `JoinedStaysProtected` | `Spec => []JoinedIsProtected` | - |
| `NodeSpecIsUsers` | `Spec => SpecChangesAreUsers` | - |
| `NodeDeletionIsRemembered` | `Spec => []DeletionInv` | - |
| `NodeKeepsThePromise` | `Spec => KeepsThePromise` | - |
| `NodeVerdicts` | `Spec => [](~doubt => VerdictInv)` | no masked download, no user who went back, so far |
| `NodeVerdictIsTrue` | `Spec => []UpToDateMeansJoined` | the same: `~doubt` is part of the property |
| `NodeSettledStays` | `Spec => SettledStays` | - |
| `NodeSettledIsRight` | `Spec => [](Settled /\ ~doubt => host.runs.cfg = node.cfg)` | the same |
| `TokensAreTheClusters` | `Spec => []TokensInv` | - |
| `NoBlindJoin` | `Spec => []NeverJoinsNothing` | the reference is not optional |
| `NodeJoinsItsCluster` | `Spec => []JoinsItsCluster` | the reference is not optional |

Of the other components:

| Module | Theorem | Says | Extra hypothesis |
|---|---|---|---|
| `DriftDetection_proofs` | `DriftTypes` | `Spec => []TypeOK` | - |
| | `DriftSpecIsUsers` | `Spec => SpecIsUsers` | - |
| | `DriftHandsOff` | `Spec => HandsOff` | - |
| | `DriftIgnoredStays` | `Spec => IgnoredStaysRecorded` | the property excepts what is recorded empty, and the version where it could not be read |
| | `DriftRejected` | `Spec => RejectedMeansUntouched` | - |
| | `DriftSendsTheRest` | an Update sends the spec at every path that is not ignored | - |
| | `DriftIgnoredIsLeft` | `IgnoredDriftIsLeft` holds in every reachable state | the version is not ignored, and something is recorded of what is |
| | `EligiblePaths` | eligible are the paths `forProvider.f`, in either grammar, f a parameter and not `host` | - |
| | `IgnoredFields` | a list yields such fields only, and one that is read yields all of them | - |
| `SSHExecute_proofs` | `ExecuteTypes` | `Spec => []TypeOK` | - |
| | `SuccessIsWhole` | `Spec => []WholeOnSuccess` | - |
| | `ReadsAreQuiet` | `Spec => BuffersAreQuiet` | - |
| | `DetailsStay` | `Spec => DetailsAreKept` | - |
| | `OnlyErrorsSpoilDetails` | a detail read without an error is published whole and unaltered | - |
| `SafeStart_proofs` | `StartTypes` | `Spec => []TypeOK` | - |
| | `GatedIsAllowed` | `Spec => []GatedMeansAllowed` | - |
| | `LateIsNotDenied` | `Spec => []SafeStartIsNotLost` | - |
| | `GatedStartsWhenServed` | `Spec => []StartsWhenServed` | - |
| `ReadinessLoop_proofs` | `LoopTypes` | `Spec => []TypeOK` | - |
| | `FewRestarts` | `Spec => []RestartsAreFew` | `StartTicks < PollTicks` |
| `ManagedResource` | `PromiseIsEnough` | whatever keeps the promise leaves no counterpart running that no resource answers for | - |

`ExecuteInvariant`, `StartInvariant` and `DriftInvariant` are the inductive
invariants these follow from.

**The argument.** `InstalledIsProtected` is not inductive: the step that sends an
install relies on a finalizer read some time ago, from a copy that may be stale.
What a stale copy can be trusted for is this: a version that *has the finalizer
and no deletionTimestamp* shows that the finalizer is on the server now. Only the
worker removes a finalizer, only after reading a deletion and finding the unit
gone, and its write is refused if anybody wrote since. So `ProtectionInv` claims
it of every version still in the cache's reach (`StoreIsEvidence`) and of the
worker's copy (`CopyIsEvidence`), says what freshness is worth (`FreshAgrees`,
`FreshIsCached`) and what a step goes by in the copy it works on
(`CopyAllowsStep`). All of this, `EvidenceInv`, is about the API server and the
worker alone: no fault of a command's or of the machine's disturbs it, and so
`AlwaysSendsUnderProtection` has no hypothesis. The rest of `ProtectionInv` is
about the machine: where Observe found no unit there is none yet when the step is
taken (`AbsenceStillHolds`). TLC checks it in run `core`; the proof has one step
per action.

**The refinement.** An uninstall must map to a step that the promise allows, and
the promise allows it only for a resource that is withdrawn. But the worker may
delete on a copy that is stale: what if the resource was created again since? So
deleted versions are evidence too (`PromiseInv`): while one is in the cache's
reach, or in the worker's hands, the current object is not owned, because the
worker adds a finalizer only to a copy that would pass the resourceVersion
check, and before its first write such a copy is all the cache has
(`FreshIsCached`). With the finalizer gone nothing is installed, by
`ProtectionInv`, so there is nothing to uninstall. A Node refines the same
specification, with its finalizer and the unit a join was sent for: there the
current object is what the worker reads, and `DeletionInv`, that a deletion once
read stays true until the worker lets go, takes the place of `PromiseInv`.

**Specs and markers.** The worker's full updates carry the configuration of its
copy, and pass only if it is fresh: a fresh copy asks for what the object asks for
(`FreshSpec`). A pending marker has somebody who will replace it or a fault to
blame (`MarkerInv`); that the replacement runs on a budget of its own is what
keeps an expired context out of the list of faults.

**The verdict.** Configurations are numbered in the order users ask for them. Then
recorded <= sent <= read <= asked for, for every version the cache can serve
(`VerdictInv`); a verdict of "up to date" finds the annotation it read equal to
the spec it read, so what was sent last is that very configuration, and somebody
recorded it, which only happens after its command succeeded. Each hypothesis is
needed: a masked download makes a command succeed that did nothing (run
`curl_masked`), an orphan writes flags after others were sent, and with users who
go back "recorded = read" no longer pins down what was sent in between.

**Why no orphans.** `Execute` closes its session when the context expires, and a
command without a terminal can go on. Such a command may write a unit after its
Cluster is gone; `InstalledIsProtected` is then false, and the invariant says
`orphan = NoConfig`. What still holds are the theorems without a hypothesis, and
the properties of run `rough`: no command goes out unprotected all the same.

**Node.** The argument is the same with a current copy in place of the list of
versions: `NodeInv` has `CopyIsEvidence`, `FreshIsCurrent` and
`StepsAreJustified`, and `AsksForSomething`, without which a join command would
have no type. `NoBlindJoin` needs `TokenInv` on top of it: who is past resolution
is being deleted or has a reference (`ConnectionIsComplete`), and who has one got
a token or an error from Connect. Its hypothesis is exactly what run
`node_optional` violates: with `Optional` the step `NothingToResolve` goes on.
`NodeVerdictIsTrue` follows as for the Cluster from the order recorded <= sent <=
read <= asked for, and under the same hypotheses. For a Cluster they are about the
constants: no such fault, no such user. Here they are about what has happened so
far: `doubt` is set when a download fails unseen and when a user writes flags that
are older than those asked for, and never reset; `VerdictInv` is inductive while it
is FALSE, whatever else strikes. That no command outlives its session is an
assumption of the module's. `NodeVerdictIsTrue` says nothing of the token: a Node is up to date with the token of a
server that is gone until its unit notices. What can be said of tokens is
`TokensInv`: they never leave the Cluster they belong to, and what Connect hands on
is the home Cluster's, whatever namespace the reference names.

**Left alone.** A resource is `Settled` when its object is owned, annotation and
spec agree, the unit is active and the cache is current (a Cluster) or the unit
has its server (a Node). From there the worker starts reconciles and ends them:
`SettledStays` has no step that writes or sends, unless a user or a fault moves a
budget. With `SettledIsRight` this is the closure half of `Converges`, for every
value of the constants; that a settled state is reached stays with TLC.

**Drift detection.** `DriftInvariant` says at each step of the worker what the copy,
the snapshot and the command have to do with each other: which paths a snapshot
covers, that of the version it holds a text which is no version or nothing, that a command takes an ignored field from it and anything else from the
copy, and that a copy whose update would be accepted is the object. Where no
ignored field is the version and each has something recorded, the snapshot is the
record, so the second look compares the record with itself: `DriftIgnoredIsLeft` is
what is left of the sentence that run `drift_banner` refutes. `EligiblePaths` needs
no invariant: it is about `normalizePath` and `checkEligible`, for paths of any
length over any names.

**Execute.** `ExecuteInvariant` orders what happens to a session: `done` is filled
only after the copy goroutine has stopped and the channel is closed, and copying
stops only when everything that arrived is in the buffer; a command that reported
success has sent everything. So whichever way the select goes, the buffer is
final when it is read, and a nil from `Wait` means all of it. `OnlyErrorsSpoilDetails`
follows: had Observe looked at the errors, `GenuineDetails` would hold.

**Start-up.** `StartInvariant` says what the round in progress has established (the
verbs reviewed so far are granted; grants are never withdrawn) and when the last
one began and ended: between two rounds no more than an interval has passed since
the last began, unless it lasted until now, and after one that ended in a denial
the grants were complete, if at all, no earlier than it began.

**Restarts.** `Left` is the number of restarts that may still come without another
edit or fault: three when the unit has not the current flags, fewer from there on.
`restarts + Left` never exceeds three for each edit and fault (and the first install).
That a started unit is ready before the next poll is where `StartTicks < PollTicks`
comes in; without it run `readiness_slow` shows the restarts going on for ever.

**Only model-checked**: liveness (out of the prover's reach): `Converges`,
`DeletionCompletes`, `Joining`, `Settles`, `ConvergesOutsideIgnored`, `WarnTells`,
`DeletionEnds`, `ExecuteReturns`, `DetailsCatchUp`, `ServedKindsRun`. Every
invariant and every action property that holds in a run is proved. The types of
DriftDetection, ReadinessLoop and SafeStart are proved and in no run.

## 5. Not modelled

* The conditions Creating, Available and Deleting, wording and logs.
* The flags of the command line: one opaque configuration, or a value per field.
  That `BuildFlags` and the quoting around it render what was asked for is a matter
  of strings, which the repository's table tests cover and a model would only spell out.
* Two replicas without leader election: the models have one worker per resource,
  as a workqueue never hands one key to two workers.
* What the ProviderConfig controllers do: it is the runtime's `providerconfig`
  reconciler, configured and not programmed here. SafeStart has when they are set up.
* Flags, logging and the wiring of the manager in `main`; generated code; `hack`.
* The namespaced Connect's choice between ProviderConfig and ClusterProviderConfig,
  and of the namespace its secret is read from: a lookup, without a state of its own.
* The option `WithKeptEmpty` of the reference resolver, which no controller passes.
* Immutable fields and API validation: enforced by the API server, assumed here.
* The annotation that cannot be parsed (cluster.go:275-278): `Observe` fails with
  it, until somebody mends the annotation; the provider writes none of that kind.
* An uninstall, and a Node's join, that goes on after its session was closed; an
  install of a Cluster's that does is the fault `"orphan"`.
* What the plan below lists.

## 6. Plan

What has been built, in this order: the Cluster and its machine; readiness; the
decorator; Nodes; the SSH client; start-up; the remaining safety proofs and the
refinement; the Node's refinement, verdict and tokens; stability; which paths may
be ignored. What is left, most important first:

1. ClusterController and NodeController composed: a Cluster that goes through its
   own reconciles in place of `ServerInstalled` and `PublishDetails`, with the
   connection secret as SSHExecute has it and a Node that reads it late, when it
   may be a fragment.
2. `Commands` and `ConnectRouting`, the pure parts (probe parsing, version against
   channel, ProviderConfig kinds and secret namespaces), against reference
   definitions.
3. A half-done uninstall in the decorator, and Clusters that are created again there.

## 7. Running

    tlc -workers 2 -config MCCore.cfg MCClusterController.tla
    tlc -workers 2 -config MCReadiness.cfg MCReadinessLoop.tla
    tlc -workers 2 -config MCDrift.cfg MCDriftDetection.tla
    tlc -workers 2 -config MCNode.cfg MCNodeController.tla
    tlc -workers 2 -config MCSSH.cfg MCSSHExecute.tla
    tlc -workers 2 -config MCSafeStart.cfg MCSafeStart.tla
    tlapm ClusterController_proofs.tla
    tlapm ClusterRefinement_proofs.tla
    tlapm NodeController_proofs.tla
    tlapm DriftDetection_proofs.tla
    tlapm SSHExecute_proofs.tla
    tlapm SafeStart_proofs.tla
    tlapm ReadinessLoop_proofs.tla
    tlapm ManagedResource.tla
