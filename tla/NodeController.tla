--------------------------- MODULE NodeController ---------------------------
(***************************************************************************)
(* One Node managed resource and the machine it joins to a Cluster: the    *)
(* reference to the Cluster (internal/controller/refresolver), the         *)
(* server's address and token looked up by Connect, and the external       *)
(* client of internal/controller/namespaced/node/node.go.  The client of   *)
(* internal/controller/cluster/node is the same without namespaces.        *)
(*                                                                         *)
(* The Clusters are modelled by what a Node can see of them: the object,   *)
(* the server that runs and the connection secret.  A token stands for one *)
(* installation of a server and for the address it answers at.             *)
(*                                                                         *)
(* Simplifications: ClusterController has the stale cache, the create      *)
(* markers and the expired context, which are handled alike here, and the  *)
(* command that outlives its session ("orphan"); in this module a          *)
(* reconcile starts from the current object, what others do after that is  *)
(* kept, and a command ends with its session.  All Clusters have the same  *)
(* name.                                                                   *)
(***************************************************************************)
EXTENDS Naturals

CONSTANTS
    Namespaces,      \* where there may be a Cluster by the name in question
    Home,            \* the Node's own namespace
    RefNamespace,    \* the namespace its clusterRef or clusterSelector names
    Optional,        \* has it a clusterSelector with resolution policy Optional?
    Configs,         \* the Node's mutable fields, numbered so that users can go back
    Faults,          \* kinds of fault that may strike, out of FaultKinds
    MaxFaults, MaxEdits

FaultKinds == {"crash",     \* the provider's process dies and is restarted
               "api",       \* an API request fails, or its reply is lost
               "ssh",       \* a command reports failure, or its reply is lost
               "curl",      \* the script download fails and sh reads nothing
               "unit",      \* the k3s process on the Node's machine dies
               "wipe",      \* that machine is re-imaged
               "server"}    \* a Cluster's machine is re-imaged

ASSUME NamespacesAssumption == {Home, RefNamespace} \subseteq Namespaces /\ Optional \in BOOLEAN
ASSUME NodeConfigsAssumption == Configs \subseteq Nat \ {0}
ASSUME NodeBoundsAssumption == Faults \subseteq FaultKinds /\ MaxFaults \in Nat /\ MaxEdits \in Nat

NoConfig == 0

\* The installations of a server, by Cluster.
Installations == Nat \ {0}
NoToken == [of |-> Home, nr |-> 0]
Tokens == [of : Namespaces, nr : Installations]
TokenOrNone == Tokens \cup {NoToken}

\* One join command line: the flags of the spec, and where to join.
Joins == [cfg : Configs, token : TokenOrNone]
NoJoin == [cfg |-> NoConfig, token |-> NoToken]

INSTANCE K3sHost WITH Configs <- Joins, NoConfig <- NoJoin

VARIABLES
    cluster,    \* the Clusters, by namespace
    minted,     \* server installations so far, by namespace
    node,       \* the Node in the API server
    pc,         \* the reconciler's next step
    cr,         \* its in-memory copy of the Node
    fresh,      \* would a full Update of cr be accepted?
    conn,       \* the external client Connect returned
    obs,        \* what Observe returned
    host,       \* the Node's machine
    faults,     \* faults so far
    doubt,      \* history: did a download fail unseen, or a user of the Node go back?
    edits       \* user actions so far

vars == <<cluster, minted, node, pc, cr, fresh, conn, obs, host, faults, doubt, edits>>
local == <<pc, cr, fresh, conn, obs>>
world == <<cluster, minted>>
budgets == <<faults, doubt, edits>>

Clusters == [exists  : BOOLEAN,
             serving : TokenOrNone,    \* token of the server that runs
             secret  : TokenOrNone]    \* node-token in its connection secret

NoCluster == [exists |-> FALSE, serving |-> NoToken, secret |-> NoToken]

Nodes == [exists   : BOOLEAN,
          cfg      : Configs \cup {NoConfig},
          resolved : BOOLEAN,                    \* is forProvider.cluster set?
          ann      : Configs \cup {NoConfig},    \* last-applied-node-config
          fin      : BOOLEAN,
          deleting : BOOLEAN]

NoNode == [exists |-> FALSE, cfg |-> NoConfig, resolved |-> FALSE, ann |-> NoConfig,
           fin |-> FALSE, deleting |-> FALSE]

\* external: where Create and Update would join, or why they cannot.
Connections == [token : TokenOrNone, clusterErr : BOOLEAN]
NoConnection == [token |-> NoToken, clusterErr |-> FALSE]

Steps == {"idle", "resolve", "connect", "observe", "protect", "create", "update",
          "persist", "delete", "release"}

Init == /\ cluster \in [Namespaces -> {NoCluster, [NoCluster EXCEPT !.exists = TRUE]}]
        /\ minted = [n \in Namespaces |-> 0]
        /\ \E c \in Configs : node = [NoNode EXCEPT !.exists = TRUE, !.cfg = c]
        /\ pc = "idle" /\ cr = NoNode /\ fresh = FALSE
        /\ conn = NoConnection /\ obs = [exists |-> FALSE, upToDate |-> FALSE]
        /\ host \in {NoUnit, Adopted}
        /\ faults = 0 /\ doubt = FALSE /\ edits = 0

Fault(kind) == /\ kind \in Faults /\ faults < MaxFaults /\ faults' = faults + 1
               /\ doubt' = (doubt \/ kind = "curl")
               /\ UNCHANGED edits

Edit(back) == /\ edits < MaxEdits /\ edits' = edits + 1
              /\ doubt' = (doubt \/ back)
              /\ UNCHANGED faults

EndReconcile == /\ pc' = "idle" /\ cr' = NoNode /\ fresh' = FALSE
                /\ conn' = NoConnection /\ obs' = [exists |-> FALSE, upToDate |-> FALSE]

Step(s) == pc' = s /\ UNCHANGED <<cr, fresh, conn, obs>>

-----------------------------------------------------------------------------
(* The Clusters.                                                           *)

UserCreatesCluster(n) == /\ ~cluster[n].exists /\ Edit(FALSE)
                         /\ cluster' = [cluster EXCEPT ![n] = [NoCluster EXCEPT !.exists = TRUE]]
                         /\ UNCHANGED <<minted, node, local, host>>

\* The server is uninstalled first; the secret goes with the Cluster it belongs to.
UserDeletesCluster(n) == /\ cluster[n].exists /\ Edit(FALSE)
                         /\ cluster' = [cluster EXCEPT ![n] = NoCluster]
                         /\ UNCHANGED <<minted, node, local, host>>

\* Each installation on an empty machine makes a token of its own.
ServerInstalled(n) == /\ cluster[n].exists /\ cluster[n].serving = NoToken
                      /\ minted' = [minted EXCEPT ![n] = @ + 1]
                      /\ cluster' = [cluster EXCEPT ![n].serving = [of |-> n, nr |-> minted'[n]]]
                      /\ UNCHANGED <<node, local, host, budgets>>

\* The Cluster's Observe reads the token and the secret is brought up to it.  A
\* token that cannot be read is left out, and the secret keeps what it has.
PublishDetails(n) == /\ cluster[n].serving \notin {NoToken, cluster[n].secret}
                     /\ cluster' = [cluster EXCEPT ![n].secret = cluster[n].serving]
                     /\ UNCHANGED <<minted, node, local, host, budgets>>

ServerLost(n) == /\ cluster[n].serving # NoToken /\ Fault("server")
                 /\ cluster' = [cluster EXCEPT ![n].serving = NoToken]
                 /\ UNCHANGED <<minted, node, local, host>>

-----------------------------------------------------------------------------
(* Users of the Node.                                                      *)

UserWrites(o) == node' = o /\ fresh' = FALSE /\ Edit(o.cfg < node.cfg)
                 /\ UNCHANGED <<world, pc, cr, conn, obs, host>>

CreateNode == /\ ~node.exists
              /\ \E c \in Configs : UserWrites([NoNode EXCEPT !.exists = TRUE, !.cfg = c])

EditNode == node.exists /\ \E c \in Configs \ {node.cfg} : UserWrites([node EXCEPT !.cfg = c])

\* Only what was last asked for is left, to tell whether a new Node goes back.
Gone(o) == [NoNode EXCEPT !.cfg = o.cfg]

DeleteNode == /\ node.exists /\ ~node.deleting
              /\ UserWrites(IF node.fin THEN [node EXCEPT !.deleting = TRUE] ELSE Gone(node))

-----------------------------------------------------------------------------
(* Reference resolution.  It is skipped for an object that is being        *)
(* deleted, and has nothing to do once forProvider.cluster is set.         *)

NeedsResolution(o) == ~o.deleting /\ ~o.resolved

StartReconcile == /\ pc = "idle" /\ node.exists
                  /\ pc' = IF NeedsResolution(node) THEN "resolve" ELSE "connect"
                  /\ cr' = node /\ fresh' = TRUE
                  /\ UNCHANGED <<world, node, conn, obs, host, budgets>>

\* Mutant: the copy with the resolved reference is written whole.
patchedWhole(latest) == [cr EXCEPT !.resolved = TRUE]

\* The merge patch holds the difference the resolution made, and nothing else.
patched(latest) == [latest EXCEPT !.resolved = TRUE]

\* The answer to a patch is decoded into the reconciler's copy.
ResolveReferences == /\ pc = "resolve" /\ cluster[RefNamespace].exists
                     /\ IF node.exists
                        THEN /\ node' = patched(node) /\ cr' = node' /\ fresh' = TRUE
                             /\ pc' = "connect" /\ UNCHANGED <<conn, obs>>
                        ELSE EndReconcile /\ UNCHANGED node
                     /\ UNCHANGED <<world, host, budgets>>

\* A required reference fails the reconcile.  An optional selector that selects
\* nothing changes nothing, and there is no patch to send.
NothingToResolve == /\ pc = "resolve" /\ ~cluster[RefNamespace].exists
                    /\ IF Optional THEN Step("connect") ELSE EndReconcile
                    /\ UNCHANGED <<world, node, host, budgets>>

ResolveFails == /\ pc = "resolve" /\ Fault("api") /\ EndReconcile
                /\ \/ UNCHANGED node
                   \/ node.exists /\ cluster[RefNamespace].exists /\ node' = patched(node)
                /\ UNCHANGED <<world, host>>

-----------------------------------------------------------------------------
(* Connect.                                                                *)

\* The Cluster by the resolved name in the Node's own namespace, its secret,
\* and the token in it: whichever is missing, that is the error.
resolveClusterInfo(c) == [token |-> c.secret, clusterErr |-> ~c.exists \/ c.secret = NoToken]

\* Mutant: a Cluster that cannot be resolved fails Connect.
ConnectedOrFailed(connection) == IF connection.clusterErr THEN "idle" ELSE "observe"

\* The error is kept for Create and Update: Observe and Delete do without.
Connected(connection) == "observe"

\* Mutant: the Cluster is looked up where the reference names it.
ConnectByReference ==
    /\ pc = "connect"
    /\ conn' = IF cr.resolved THEN resolveClusterInfo(cluster[RefNamespace]) ELSE NoConnection
    /\ pc' = Connected(conn')
    /\ UNCHANGED <<world, node, cr, fresh, obs, host, budgets>>

Connect == /\ pc = "connect"
           /\ conn' = IF cr.resolved THEN resolveClusterInfo(cluster[Home]) ELSE NoConnection
           /\ pc' = Connected(conn')
           /\ UNCHANGED <<world, node, cr, fresh, obs, host, budgets>>

\* The ProviderConfig, its credentials or the machine cannot be reached.
ConnectFails == /\ pc = "connect" /\ (Fault("api") \/ Fault("ssh")) /\ EndReconcile
                /\ UNCHANGED <<world, node, host>>

-----------------------------------------------------------------------------
(* Observe.                                                                *)

nodeIsUpToDate(o) == o.ann # NoConfig /\ o.ann = o.cfg

\* Mutants: is-active decides about existence; readiness is no part of the verdict.
ObservationOfActive(h, o) == [exists |-> Ready(h), upToDate |-> Ready(h) /\ nodeIsUpToDate(o)]
ObservationOfConfig(h, o) == [exists |-> Exists(h), upToDate |-> Exists(h) /\ nodeIsUpToDate(o)]

Observation(h, o) == [exists   |-> Exists(h),
                      upToDate |-> Exists(h) /\ Ready(h) /\ nodeIsUpToDate(o)]

NextStep(o, seen) == IF o.deleting THEN IF seen.exists THEN "delete" ELSE "release"
                     ELSE IF ~o.fin THEN "protect"
                     ELSE IF ~seen.exists THEN "create"
                     ELSE IF ~seen.upToDate THEN "update" ELSE "idle"

GoTo(s, o, seen) == IF s = "idle"
                    THEN EndReconcile
                    ELSE pc' = s /\ cr' = o /\ obs' = seen /\ UNCHANGED <<fresh, conn>>

Observe == /\ pc = "observe"
           /\ LET seen == Observation(host, cr) IN GoTo(NextStep(cr, seen), cr, seen)
           /\ UNCHANGED <<world, node, host, budgets>>

ObserveFails == /\ pc = "observe" /\ Fault("ssh") /\ EndReconcile
                /\ UNCHANGED <<world, node, host>>

-----------------------------------------------------------------------------
(* The reconciler's full updates: the finalizer comes and goes.            *)

Protected(o) == [o EXCEPT !.fin = TRUE]

AddFinalizer == /\ pc = "protect" /\ fresh
                /\ node' = Protected(cr)
                /\ GoTo(NextStep(Protected(cr), obs), Protected(cr), obs)
                /\ UNCHANGED <<world, host, budgets>>

RemoveFinalizer == /\ pc = "release" /\ fresh
                   /\ node' = Gone(cr) /\ EndReconcile
                   /\ UNCHANGED <<world, host, budgets>>

Conflict == /\ pc \in {"protect", "release"} /\ ~fresh /\ EndReconcile
            /\ UNCHANGED <<world, node, host, budgets>>

UpdateFails == /\ pc \in {"protect", "release"} /\ fresh /\ Fault("api") /\ EndReconcile
               /\ node' \in {node, IF pc = "protect" THEN Protected(cr) ELSE Gone(cr)}
               /\ UNCHANGED <<world, host>>

-----------------------------------------------------------------------------
(* Create and Update: join with what Connect found, or report why not.     *)

Sending == pc \in {"create", "update"}

\* Mutant: what was recorded last is sent, not what the spec asks for.
joinParamsForRecorded(o, c) == [cfg |-> o.ann, token |-> c.token]

joinParamsFor(o, c) == [cfg |-> o.cfg, token |-> c.token]

\* Mutant: the kept error is forgotten, and the command goes out all the same.
RefusesNever(c) == FALSE

Refuses(c) == c.clusterErr

JoinRefused == /\ Sending /\ Refuses(conn) /\ EndReconcile
               /\ UNCHANGED <<world, node, host, budgets>>

JoinSucceeds == /\ Sending /\ ~Refuses(conn)
                /\ host' = Installed(host, joinParamsFor(cr, conn))
                /\ Step("persist")
                /\ UNCHANGED <<world, node, budgets>>

\* curl -sf fails quietly, sh reads an empty script and succeeds, and the
\* command's status is the restart's alone.
JoinMasked == /\ Sending /\ ~Refuses(conn) /\ Fault("curl")
              /\ IF Exists(host) THEN host' = Restarted(host) /\ Step("persist")
                                 ELSE host' = host /\ EndReconcile
              /\ UNCHANGED <<world, node>>

JoinFails == /\ Sending /\ ~Refuses(conn) /\ Fault("ssh") /\ EndReconcile
             /\ host' \in PartialInstalls(host, joinParamsFor(cr, conn))
             /\ UNCHANGED <<world, node>>

\* Mutant: what the object asks for by then is recorded, not what was sent.
persistedLatest(latest) == [latest EXCEPT !.ann = latest.cfg]

persisted(latest) == [latest EXCEPT !.ann = cr.cfg]

\* persistLastAppliedNodeConfig.
Persist == /\ pc = "persist" /\ EndReconcile
           /\ node' = IF node.exists THEN persisted(node) ELSE node
           /\ UNCHANGED <<world, host, budgets>>

PersistFails == /\ pc = "persist" /\ Fault("api") /\ EndReconcile
                /\ \/ UNCHANGED node
                   \/ node.exists /\ node' = persisted(node)
                /\ UNCHANGED <<world, host>>

-----------------------------------------------------------------------------
UninstallSucceeds == /\ pc = "delete" /\ host' = NoUnit /\ EndReconcile
                     /\ UNCHANGED <<world, node, budgets>>

UninstallFails == /\ pc = "delete" /\ Fault("ssh") /\ EndReconcile
                  /\ host' \in PartialUninstalls(host)
                  /\ UNCHANGED <<world, node>>

Crash == /\ pc # "idle" /\ Fault("crash") /\ EndReconcile
         /\ host' \in IF Sending /\ ~Refuses(conn)
                      THEN PartialInstalls(host, joinParamsFor(cr, conn)) ELSE {host}
         /\ UNCHANGED <<world, node>>

-----------------------------------------------------------------------------
(* The Node's machine.  Its unit reports ready when it has joined a server *)
(* that accepts its token.                                                 *)

Serving == {cluster[n].serving : n \in Namespaces} \ {NoToken}

UnitStarts == /\ host.state = "activating"
              /\ host.cfg = NoJoin \/ host.cfg.token \in Serving
              /\ host' = Started(host)
              /\ UNCHANGED <<world, node, local, budgets>>

\* A unit whose server is gone does not stay ready for ever.
UnitLosesServer == /\ Ready(host) /\ host.runs # NoJoin /\ host.runs.token \notin Serving
                   /\ host' = Restarted(host)
                   /\ UNCHANGED <<world, node, local, budgets>>

UnitFails == /\ Ready(host) /\ Fault("unit")
             /\ host' \in {Restarted(host), Down(host)}
             /\ UNCHANGED <<world, node, local>>

HostWiped == /\ Exists(host) /\ Fault("wipe") /\ host' = NoUnit
             /\ UNCHANGED <<world, node, local>>

-----------------------------------------------------------------------------
Users == \/ CreateNode \/ EditNode \/ DeleteNode
         \/ \E n \in Namespaces : UserCreatesCluster(n) \/ UserDeletesCluster(n)

Servers == \E n \in Namespaces : ServerInstalled(n) \/ PublishDetails(n)

Progress == \/ StartReconcile \/ ResolveReferences \/ NothingToResolve \/ Connect \/ Observe
            \/ AddFinalizer \/ RemoveFinalizer \/ Conflict
            \/ JoinRefused \/ JoinSucceeds \/ Persist \/ UninstallSucceeds

Failures == \/ ResolveFails \/ ConnectFails \/ ObserveFails \/ UpdateFails
            \/ JoinMasked \/ JoinFails \/ PersistFails \/ UninstallFails \/ Crash
            \/ UnitFails \/ HostWiped \/ \E n \in Namespaces : ServerLost(n)

Next == Users \/ Servers \/ Progress \/ Failures \/ UnitStarts \/ UnitLosesServer

\* As in ClusterController; and the Clusters get their servers up and published.
Fairness == /\ WF_vars(Progress) /\ SF_vars(pc = "idle" /\ UnitStarts)
            /\ WF_vars(UnitLosesServer)
            /\ \A n \in Namespaces : WF_vars(ServerInstalled(n)) /\ WF_vars(PublishDetails(n))

Spec == Init /\ [][Next]_vars
LiveSpec == Spec /\ Fairness

-----------------------------------------------------------------------------
\* Types.  What is sent to the Node's machine is a configuration users asked for.
TypeOK == /\ cluster \in [Namespaces -> Clusters]
          /\ minted \in [Namespaces -> Nat]
          /\ node \in Nodes /\ cr \in Nodes /\ fresh \in BOOLEAN
          /\ pc \in Steps /\ conn \in Connections
          /\ obs \in [exists : BOOLEAN, upToDate : BOOLEAN]
          /\ host \in Hosts
          /\ faults \in 0..MaxFaults /\ doubt \in BOOLEAN /\ edits \in 0..MaxEdits

\* A machine this provider has joined to a Cluster, or has begun to, is
\* answered for by a Node that exists and carries the finalizer.
JoinedIsProtected == Exists(host) /\ host.cfg # NoJoin => node.exists /\ node.fin

\* No machine is joined to nothing (node.go:433): wherever a unit was written,
\* it was written with a token.
NeverJoinsNothing == host.cfg # NoJoin => host.cfg.token # NoToken

\* What the worker is busy with exists, or did, and asks for something.
AsksForSomething == /\ pc # "idle" => cr.exists
                    /\ node.exists => node.cfg \in Configs
                    /\ cr.exists => cr.cfg \in Configs

\* Why: what each step has been told still holds when it is taken.
StepsAreJustified ==
    /\ pc \in {"protect", "create", "update"} => ~cr.deleting
    /\ Sending => cr.fin
    /\ pc = "release" => ~Exists(host)

\* Only the worker removes a finalizer, and it forgets its copy when it does.
CopyIsEvidence == cr.fin => node.exists /\ node.fin

\* Who gets past Connect has an error, a token, or nothing to join.
ConnectionIsComplete ==
    /\ pc \notin {"idle", "resolve"} => cr.deleting \/ cr.resolved
    /\ pc \notin {"idle", "resolve", "connect"} /\ cr.resolved
         => conn.clusterErr \/ conn.token # NoToken

\* A copy whose full update would be accepted is the object itself.
FreshIsCurrent == fresh => cr = node

\* The inductive invariant, and its part for references that are required.
NodeInv == AsksForSomething /\ FreshIsCurrent /\ CopyIsEvidence /\ StepsAreJustified /\ JoinedIsProtected
TokenInv == ConnectionIsComplete /\ NeverJoinsNothing

\* Resolution writes what it resolved and leaves every other field as it is
\* (refresolver.go:32): a change of the spec is a user's, whoever writes.
SpecChangesAreUsers == [][node'.cfg # node.cfg => UNCHANGED <<pc, cr, host>>]_vars

\* A Node can be deleted whatever became of its Cluster (node.go:228).
DeletionCompletes == node.deleting ~> ~node.exists

\* Once users and faults stop, a Node whose reference can be resolved, and whose
\* Cluster is there, has a unit that is ready, and one that was joined is joined
\* to the server its Cluster runs now.  Unless a download failed unseen or a user
\* went back, it was joined, and runs what the Node asks for.
Joined == /\ Ready(host)
          /\ host.runs # NoJoin => host.runs.token = cluster[Home].serving
          /\ ~doubt => host.runs # NoJoin /\ host.runs.cfg = node.cfg
Resolvable == cluster[RefNamespace].exists /\ cluster[Home].exists
Joining == <>[](node.exists /\ ~node.deleting /\ Resolvable => Joined)
=============================================================================
