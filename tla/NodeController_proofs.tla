------------------------ MODULE NodeController_proofs ------------------------
(***************************************************************************)
(* Proofs about NodeController, for any namespaces, configurations, bounds *)
(* and faults: the types, the protection of joined machines, that no       *)
(* machine is joined to nothing where the reference is required, that the  *)
(* Node is a managed resource, that verdicts are true unless a download    *)
(* failed unseen or a user went back, whose tokens machines join with, and *)
(* that a settled Node is left alone.                                      *)
(***************************************************************************)
EXTENDS NodeJoining, TLAPS

\* What the operators on a Node do to its fields.
LEMMA NodeLemma ==
    /\ NoNode \in Nodes /\ ~NoNode.exists /\ ~NoNode.fin
    /\ \A o \in Nodes :
         /\ Protected(o) \in Nodes /\ Protected(o).fin
         /\ Protected(o).exists = o.exists /\ Protected(o).deleting = o.deleting
         /\ Protected(o).cfg = o.cfg /\ Protected(o).resolved = o.resolved
         /\ Gone(o) \in Nodes /\ ~Gone(o).exists /\ ~Gone(o).fin
BY DEF Nodes, NoNode, Protected, Gone

LEMMA PatchLemma ==
    ASSUME cr \in Nodes
    PROVE  \A o \in Nodes :
             /\ patched(o) \in Nodes /\ persisted(o) \in Nodes
             /\ patched(o).exists = o.exists /\ persisted(o).exists = o.exists
             /\ patched(o).fin = o.fin /\ persisted(o).fin = o.fin
             /\ patched(o).cfg = o.cfg /\ persisted(o).cfg = o.cfg
             /\ patched(o).deleting = o.deleting /\ patched(o).resolved
BY DEF Nodes, patched, persisted

\* What the machine's operators do to the unit and to what is written in it.
LEMMA HostLemma ==
    /\ NoUnit \in Hosts /\ ~Exists(NoUnit) /\ NoUnit.cfg = NoJoin
    /\ Adopted \in Hosts /\ Adopted.cfg = NoJoin
    /\ \A h \in Hosts :
         /\ Exists(h) \in BOOLEAN /\ Ready(h) \in BOOLEAN
         /\ Started(h) \in Hosts /\ Exists(Started(h)) = Exists(h) /\ Started(h).cfg = h.cfg
         /\ Restarted(h) \in Hosts /\ Exists(Restarted(h)) = Exists(h) /\ Restarted(h).cfg = h.cfg
         /\ Down(h) \in Hosts /\ Exists(Down(h)) = Exists(h) /\ Down(h).cfg = h.cfg
         /\ \A j \in Joins : /\ Written(h, j) \in Hosts /\ Written(h, j).cfg = j
                             /\ Installed(h, j) \in Hosts /\ Installed(h, j).cfg = j
BY DEF Hosts, ConfigOrNone, UnitStates, NoUnit, Adopted, Exists, Ready, Started, Restarted,
       Down, Written, Installed

LEMMA PartialLemma ==
    ASSUME NEW h \in Hosts
    PROVE  /\ \A j \in Joins : \A p \in PartialInstalls(h, j) : p \in Hosts /\ (p = h \/ p.cfg = j)
           /\ \A p \in PartialUninstalls(h) :
                p \in Hosts /\ (Exists(p) => Exists(h)) /\ p.cfg \in {h.cfg, NoJoin}
<1>1. \A j \in Joins : \A p \in PartialInstalls(h, j) : p \in Hosts /\ (p = h \/ p.cfg = j)
  BY HostLemma DEF PartialInstalls
<1>2. ASSUME NEW p \in PartialUninstalls(h)
      PROVE  p \in Hosts /\ (Exists(p) => Exists(h)) /\ p.cfg \in {h.cfg, NoJoin}
  <2>1. p = h \/ p = Down(h) \/ p = NoUnit
    BY <1>2 DEF PartialUninstalls
  <2>2. Down(h) \in Hosts /\ (Exists(Down(h)) => Exists(h)) /\ Down(h).cfg = h.cfg
    BY HostLemma
  <2>3. NoUnit \in Hosts /\ ~Exists(NoUnit) /\ NoUnit.cfg = NoJoin
    BY HostLemma
  <2> QED
    BY <2>1, <2>2, <2>3
<1> QED
  BY <1>1, <1>2

LEMMA FaultLemma ==
    ASSUME faults \in 0..MaxFaults, edits \in 0..MaxEdits, NEW kind, Fault(kind)
    PROVE  faults' \in 0..MaxFaults /\ doubt' \in BOOLEAN /\ edits' \in 0..MaxEdits
<1>1. doubt' \in BOOLEAN
  BY DEF Fault
<1>2. faults' \in 0..MaxFaults /\ edits' \in 0..MaxEdits
  BY NodeBoundsAssumption DEF Fault
<1>3. QED
  BY <1>1, <1>2

LEMMA EditLemma ==
    ASSUME faults \in 0..MaxFaults, edits \in 0..MaxEdits, NEW back, Edit(back)
    PROVE  faults' \in 0..MaxFaults /\ doubt' \in BOOLEAN /\ edits' \in 0..MaxEdits
<1>1. doubt' \in BOOLEAN
  BY DEF Edit
<1>2. faults' \in 0..MaxFaults /\ edits' \in 0..MaxEdits
  BY NodeBoundsAssumption DEF Edit
<1>3. QED
  BY <1>1, <1>2

\* An idle worker has no copy and no connection.
LEMMA IdleLemma ==
    ASSUME EndReconcile
    PROVE  /\ pc' = "idle" /\ pc' \in Steps /\ cr' \in Nodes /\ ~cr'.exists /\ ~cr'.fin
           /\ fresh' \in BOOLEAN
           /\ conn' \in Connections /\ obs' \in [exists : BOOLEAN, upToDate : BOOLEAN]
BY NodeLemma DEF EndReconcile, Steps, NoConnection, Connections, TokenOrNone

LEMMA NextStepLemma ==
    \A o, seen : /\ NextStep(o, seen) \in {"idle", "protect", "create", "update", "delete", "release"}
                 /\ NextStep(o, seen) \in Steps
BY DEF NextStep, Steps

\* What a step leads to, be it another step or the end of the reconcile.
LEMMA GoToLemma ==
    ASSUME NEW o, NEW seen, GoTo(NextStep(o, seen), o, seen)
    PROVE  \/ EndReconcile
           \/ pc' = NextStep(o, seen) /\ cr' = o /\ obs' = seen /\ UNCHANGED <<fresh, conn>>
BY DEF GoTo
-----------------------------------------------------------------------------
(* Type correctness.  An install takes a configuration for granted, so the *)
(* invariant says where one is to be found.                                *)

TypeInv == TypeOK /\ AsksForSomething

LEMMA TypeInit == ASSUME Init PROVE TypeInv
<1>1. cluster \in [Namespaces -> Clusters] /\ minted \in [Namespaces -> Nat]
  <2>1. NoCluster \in Clusters /\ [NoCluster EXCEPT !.exists = TRUE] \in Clusters
    BY DEF Clusters, NoCluster, TokenOrNone
  <2>2. QED
    BY <2>1 DEF Init
<1>2. /\ node \in Nodes /\ node.cfg \in Configs
      /\ pc = "idle" /\ pc \in Steps /\ cr = NoNode /\ fresh \in BOOLEAN
  BY DEF Init, Nodes, NoNode, Steps
<1>3. conn \in Connections /\ obs \in [exists : BOOLEAN, upToDate : BOOLEAN]
  BY DEF Init, NoConnection, Connections, TokenOrNone
<1>4. host \in Hosts
  BY HostLemma DEF Init
<1>5. faults \in 0..MaxFaults /\ edits \in 0..MaxEdits
  BY NodeBoundsAssumption DEF Init
<1>6. doubt \in BOOLEAN
  BY DEF Init
<1>7. QED
  BY <1>1, <1>2, <1>3, <1>4, <1>5, <1>6, NodeLemma DEF TypeInv, TypeOK, AsksForSomething

LEMMA TypeStep == ASSUME TypeInv, [Next]_vars PROVE TypeInv'
<1> DEFINE WorldOK == cluster \in [Namespaces -> Clusters] /\ minted \in [Namespaces -> Nat]
           NodeOK == node \in Nodes /\ (node.exists => node.cfg \in Configs)
           LocalOK == /\ pc \in Steps /\ cr \in Nodes /\ fresh \in BOOLEAN /\ conn \in Connections
                      /\ obs \in [exists : BOOLEAN, upToDate : BOOLEAN]
                      /\ pc # "idle" => cr.exists
                      /\ cr.exists => cr.cfg \in Configs
           BudgetsOK == faults \in 0..MaxFaults /\ doubt \in BOOLEAN /\ edits \in 0..MaxEdits
<1>0. WorldOK /\ NodeOK /\ LocalOK /\ host \in Hosts /\ BudgetsOK
  BY DEF TypeInv, TypeOK, AsksForSomething
<1>s. SUFFICES WorldOK' /\ NodeOK' /\ LocalOK' /\ host' \in Hosts /\ BudgetsOK'
  BY DEF TypeInv, TypeOK, AsksForSomething
<1>e. ASSUME EndReconcile PROVE LocalOK'
  BY <1>e, IdleLemma
<1>w. UNCHANGED world => WorldOK'
  BY <1>0 DEF world
<1>l. UNCHANGED local => LocalOK'
  BY <1>0 DEF local
<1>n. UNCHANGED node => NodeOK'
  BY <1>0
<1>b. UNCHANGED budgets => BudgetsOK'
  BY <1>0 DEF budgets
<1>f. ASSUME NEW kind, Fault(kind) PROVE BudgetsOK'
  BY <1>0, <1>f, FaultLemma
<1>c. /\ \A n \in Namespaces : cluster[n] \in Clusters
      /\ NoCluster \in Clusters /\ [NoCluster EXCEPT !.exists = TRUE] \in Clusters
  BY <1>0 DEF Clusters, NoCluster, TokenOrNone
<1>t. ASSUME NEW n \in Namespaces, NEW t \in TokenOrNone
      PROVE  /\ [cluster EXCEPT ![n].serving = t] \in [Namespaces -> Clusters]
             /\ [cluster EXCEPT ![n].secret = t] \in [Namespaces -> Clusters]
  BY <1>0 DEF Clusters
\* Clusters.
<1>1. ASSUME NEW n \in Namespaces, UserCreatesCluster(n) \/ UserDeletesCluster(n) PROVE TypeInv'
  <2>1. WorldOK'
    BY <1>0, <1>1, <1>c DEF UserCreatesCluster, UserDeletesCluster
  <2>2. BudgetsOK'
    BY <1>0, <1>1, EditLemma DEF UserCreatesCluster, UserDeletesCluster
  <2>3. UNCHANGED <<node, local, host>>
    BY <1>1 DEF UserCreatesCluster, UserDeletesCluster
  <2>4. QED
    BY <1>0, <1>n, <1>l, <2>1, <2>2, <2>3 DEF TypeInv, TypeOK, AsksForSomething
<1>2. ASSUME NEW n \in Namespaces, ServerInstalled(n) \/ PublishDetails(n) \/ ServerLost(n)
      PROVE  TypeInv'
  <2>1. CASE ServerInstalled(n)
    <3>1. minted' \in [Namespaces -> Nat] /\ minted'[n] \in Nat \ {0}
      BY <1>0, <2>1 DEF ServerInstalled
    <3>2. [of |-> n, nr |-> minted'[n]] \in TokenOrNone
      BY <3>1 DEF TokenOrNone, Tokens, Installations
    <3>3. QED
      BY <1>0, <1>n, <1>l, <1>b, <1>t, <2>1, <3>1, <3>2
         DEF ServerInstalled, TypeInv, TypeOK, AsksForSomething
  <2>2. CASE PublishDetails(n)
    <3>1. cluster[n].serving \in TokenOrNone
      BY <1>c DEF Clusters
    <3>2. QED
      BY <1>0, <1>n, <1>l, <1>b, <1>t, <2>2, <3>1
         DEF PublishDetails, TypeInv, TypeOK, AsksForSomething
  <2>3. CASE ServerLost(n)
    <3>1. NoToken \in TokenOrNone
      BY DEF TokenOrNone
    <3>2. QED
      BY <1>0, <1>n, <1>l, <1>f, <1>t, <2>3, <3>1
         DEF ServerLost, TypeInv, TypeOK, AsksForSomething
  <2>4. QED
    BY <1>2, <2>1, <2>2, <2>3
\* Users of the Node.
<1>u. ASSUME NEW o \in Nodes, o.exists => o.cfg \in Configs, UserWrites(o)
      PROVE  WorldOK' /\ NodeOK' /\ LocalOK' /\ host' \in Hosts /\ BudgetsOK'
  BY <1>0, <1>u, <1>w, EditLemma DEF UserWrites
<1>3. CASE CreateNode
  <2>1. PICK c \in Configs : UserWrites([NoNode EXCEPT !.exists = TRUE, !.cfg = c])
    BY <1>3 DEF CreateNode
  <2>2. /\ [NoNode EXCEPT !.exists = TRUE, !.cfg = c] \in Nodes
        /\ [NoNode EXCEPT !.exists = TRUE, !.cfg = c].cfg = c
    BY DEF Nodes, NoNode
  <2>3. QED
    BY <1>u, <2>1, <2>2
<1>4. CASE EditNode
  <2>1. PICK c \in Configs : UserWrites([node EXCEPT !.cfg = c])
    BY <1>4 DEF EditNode
  <2>2. [node EXCEPT !.cfg = c] \in Nodes /\ [node EXCEPT !.cfg = c].cfg = c
    BY <1>0 DEF Nodes
  <2>3. QED
    BY <1>u, <2>1, <2>2
<1>5. CASE DeleteNode
  <2>1. /\ [node EXCEPT !.deleting = TRUE] \in Nodes /\ [node EXCEPT !.deleting = TRUE].cfg = node.cfg
        /\ node.cfg \in Configs
    BY <1>0, <1>5 DEF DeleteNode, Nodes
  <2>2. Gone(node) \in Nodes /\ ~Gone(node).exists
    BY <1>0, NodeLemma
  <2>3. QED
    BY <1>5, <1>u, <2>1, <2>2 DEF DeleteNode
\* Resolution and Connect.
<1>6. CASE StartReconcile
  <2>1. LocalOK'
    BY <1>0, <1>6 DEF StartReconcile, Steps
  <2>2. QED
    BY <1>0, <1>6, <1>w, <1>n, <1>b, <2>1 DEF StartReconcile
<1>p. /\ patched(node) \in Nodes /\ persisted(node) \in Nodes
      /\ (node.exists => patched(node).cfg \in Configs /\ persisted(node).cfg \in Configs)
      /\ patched(node).exists = node.exists
  BY <1>0, PatchLemma
<1>7. CASE ResolveReferences
  <2>1. CASE node.exists
    <3>1. /\ node' = patched(node) /\ cr' = patched(node) /\ fresh' = TRUE /\ pc' = "connect"
          /\ UNCHANGED <<conn, obs, host, world, budgets>>
      BY <1>7, <2>1 DEF ResolveReferences
    <3>2. NodeOK' /\ LocalOK'
      BY <1>0, <1>p, <2>1, <3>1 DEF Steps
    <3>3. QED
      BY <1>0, <1>w, <1>b, <3>1, <3>2
  <2>2. CASE ~node.exists
    BY <1>0, <1>7, <1>w, <1>n, <1>b, <1>e, <2>2 DEF ResolveReferences
  <2>3. QED
    BY <2>1, <2>2
<1>8. CASE NothingToResolve
  <2>1. CASE Step("connect")
    BY <1>0, <1>8, <1>w, <1>n, <1>b, <2>1 DEF NothingToResolve, Step, Steps
  <2>2. CASE EndReconcile
    BY <1>0, <1>8, <1>w, <1>n, <1>b, <1>e, <2>2 DEF NothingToResolve
  <2>3. QED
    BY <1>8, <2>1, <2>2 DEF NothingToResolve
<1>9. CASE ResolveFails
  BY <1>0, <1>9, <1>w, <1>e, <1>f, <1>p DEF ResolveFails
<1>10. CASE Connect
  <2>1. resolveClusterInfo(cluster[Home]) \in Connections
    BY <1>c, NamespacesAssumption DEF resolveClusterInfo, Connections, Clusters
  <2>2. conn' \in Connections /\ pc' = "observe" /\ UNCHANGED <<cr, fresh, obs>>
    BY <1>10, <2>1 DEF Connect, Connected, NoConnection, Connections, TokenOrNone
  <2>3. LocalOK'
    BY <1>0, <1>10, <2>2 DEF Connect, Steps
  <2>4. QED
    BY <1>0, <1>10, <1>w, <1>n, <1>b, <2>3 DEF Connect
<1>11. CASE ConnectFails
  BY <1>0, <1>11, <1>w, <1>n, <1>e, <1>f DEF ConnectFails
\* Observe and the finalizer.
<1>g. ASSUME NEW o \in Nodes, o.exists, o.cfg \in Configs,
             NEW seen \in [exists : BOOLEAN, upToDate : BOOLEAN],
             GoTo(NextStep(o, seen), o, seen)
      PROVE  LocalOK'
  BY <1>0, <1>g, <1>e, GoToLemma, NextStepLemma
<1>12. CASE Observe
  <2>1. Observation(host, cr) \in [exists : BOOLEAN, upToDate : BOOLEAN]
    BY <1>0, HostLemma DEF Observation, nodeIsUpToDate
  <2>2. LocalOK'
    BY <1>0, <1>12, <1>g, <2>1 DEF Observe
  <2>3. QED
    BY <1>0, <1>12, <1>w, <1>n, <1>b, <2>2 DEF Observe
<1>13. CASE ObserveFails
  BY <1>0, <1>13, <1>w, <1>n, <1>e, <1>f DEF ObserveFails
<1>r. pc # "idle" => /\ Protected(cr) \in Nodes /\ Protected(cr).exists
                     /\ Protected(cr).cfg \in Configs
                     /\ Gone(cr) \in Nodes /\ ~Gone(cr).exists
  BY <1>0, NodeLemma
<1>14. CASE AddFinalizer
  <2>1. LocalOK'
    BY <1>0, <1>14, <1>g, <1>r DEF AddFinalizer
  <2>2. QED
    BY <1>0, <1>14, <1>w, <1>b, <1>r, <2>1 DEF AddFinalizer
<1>15. CASE RemoveFinalizer
  BY <1>0, <1>15, <1>w, <1>b, <1>e, <1>r DEF RemoveFinalizer
<1>16. CASE Conflict
  BY <1>0, <1>16, <1>w, <1>n, <1>b, <1>e DEF Conflict
<1>17. CASE UpdateFails
  BY <1>0, <1>17, <1>w, <1>e, <1>f, <1>r DEF UpdateFails
\* Create, Update and Delete.
<1>j. Sending => joinParamsFor(cr, conn) \in Joins
  BY <1>0 DEF Sending, joinParamsFor, Joins, Connections
<1>18. CASE JoinRefused
  BY <1>0, <1>18, <1>w, <1>n, <1>b, <1>e DEF JoinRefused
<1>19. CASE JoinSucceeds
  <2>1. LocalOK'
    BY <1>0, <1>19 DEF JoinSucceeds, Step, Steps, Sending
  <2>2. host' \in Hosts
    BY <1>0, <1>19, <1>j, HostLemma DEF JoinSucceeds
  <2>3. QED
    BY <1>19, <1>w, <1>n, <1>b, <2>1, <2>2 DEF JoinSucceeds
<1>20. CASE JoinFails
  <2>1. host' \in Hosts
    BY <1>0, <1>20, <1>j, PartialLemma DEF JoinFails
  <2>2. QED
    BY <1>20, <1>w, <1>n, <1>e, <1>f, <2>1 DEF JoinFails
<1>31. CASE JoinMasked
  <2>0. host' = host \/ host' = Restarted(host)
    BY <1>31 DEF JoinMasked
  <2>1. host' \in Hosts
    BY <1>0, <2>0, HostLemma
  <2>2. CASE Step("persist")
    <3>0. pc \in {"create", "update"} /\ pc' = "persist" /\ UNCHANGED <<cr, fresh, conn, obs>>
      BY <1>31, <2>2 DEF JoinMasked, Step, Sending
    <3>1. LocalOK'
      BY <1>0, <3>0 DEF Steps
    <3>2. QED
      BY <1>31, <1>w, <1>n, <1>f, <2>1, <3>1 DEF JoinMasked
  <2>3. CASE EndReconcile
    BY <1>31, <1>w, <1>n, <1>e, <1>f, <2>1, <2>3 DEF JoinMasked
  <2>4. QED
    BY <1>31, <2>2, <2>3 DEF JoinMasked
<1>21. CASE Persist
  BY <1>0, <1>21, <1>w, <1>b, <1>e, <1>p, PatchLemma DEF Persist
<1>22. CASE PersistFails
  BY <1>0, <1>22, <1>w, <1>e, <1>f, <1>p, PatchLemma DEF PersistFails
<1>23. CASE UninstallSucceeds
  BY <1>23, <1>w, <1>n, <1>b, <1>e, HostLemma DEF UninstallSucceeds
<1>24. CASE UninstallFails
  BY <1>0, <1>24, <1>w, <1>n, <1>e, <1>f, PartialLemma DEF UninstallFails
<1>25. CASE Crash
  <2>1. host' \in Hosts
    BY <1>0, <1>25, <1>j, PartialLemma DEF Crash
  <2>2. QED
    BY <1>25, <1>w, <1>n, <1>e, <1>f, <2>1 DEF Crash
\* The machine.
<1>26. CASE UnitStarts
  BY <1>0, <1>26, <1>w, <1>n, <1>l, <1>b, HostLemma DEF UnitStarts
<1>27. CASE UnitLosesServer
  BY <1>0, <1>27, <1>w, <1>n, <1>l, <1>b, HostLemma DEF UnitLosesServer
<1>28. CASE UnitFails
  BY <1>0, <1>28, <1>w, <1>n, <1>l, <1>f, HostLemma DEF UnitFails
<1>29. CASE HostWiped
  BY <1>0, <1>29, <1>w, <1>n, <1>l, <1>f, HostLemma DEF HostWiped
<1>30. CASE UNCHANGED vars
  BY <1>0, <1>30 DEF vars
<1>32. QED
  BY <1>1, <1>2, <1>3, <1>4, <1>5, <1>6, <1>7, <1>8, <1>9, <1>10, <1>11, <1>12, <1>13, <1>14,
     <1>15, <1>16, <1>17, <1>18, <1>19, <1>20, <1>21, <1>22, <1>23, <1>24, <1>25, <1>26, <1>27,
     <1>28, <1>29, <1>30, <1>31
     DEF Next, Users, Servers, Progress, Failures, TypeInv, TypeOK, AsksForSomething

\* Every variable keeps its type; no join command is sent without a
\* configuration a user asked for.
THEOREM NodeTypes == Spec => [](TypeOK /\ AsksForSomething)
<1>1. Init => TypeInv
  BY TypeInit
<1>2. TypeInv /\ [Next]_vars => TypeInv'
  BY TypeStep
<1>3. TypeInv <=> TypeOK /\ AsksForSomething
  BY DEF TypeInv
<1>4. QED
  BY <1>1, <1>2, <1>3, PTL DEF Spec
-----------------------------------------------------------------------------
(* Protection.                                                             *)

LEMMA FreshInit == ASSUME Init PROVE FreshIsCurrent
BY DEF Init, FreshIsCurrent

LEMMA FreshStep == ASSUME FreshIsCurrent, [Next]_vars PROVE FreshIsCurrent'
<1>e. ASSUME EndReconcile PROVE FreshIsCurrent'
  BY <1>e DEF EndReconcile, FreshIsCurrent
<1>g. ASSUME NEW o, NEW seen, GoTo(NextStep(o, seen), o, seen), node' = o PROVE FreshIsCurrent'
  BY <1>e, <1>g, GoToLemma DEF FreshIsCurrent
<1>1. CASE Users
  BY <1>1 DEF Users, CreateNode, EditNode, DeleteNode, UserWrites, UserCreatesCluster,
     UserDeletesCluster, local, FreshIsCurrent
<1>2. CASE Servers \/ UnitStarts \/ UnitLosesServer
  BY <1>2 DEF Servers, ServerInstalled, PublishDetails, UnitStarts, UnitLosesServer, local,
     FreshIsCurrent
<1>3. CASE StartReconcile \/ ResolveReferences
  BY <1>3, <1>e DEF StartReconcile, ResolveReferences, FreshIsCurrent
<1>4. CASE NothingToResolve \/ Connect \/ JoinSucceeds
  BY <1>4, <1>e DEF NothingToResolve, Connect, JoinSucceeds, Step, FreshIsCurrent
<1>5. CASE Observe
  <2>1. CASE EndReconcile
    BY <1>e, <2>1
  <2>2. CASE cr' = cr /\ UNCHANGED fresh
    BY <1>5, <2>2 DEF Observe, FreshIsCurrent
  <2>3. QED
    BY <1>5, <2>1, <2>2, GoToLemma DEF Observe
<1>6. CASE AddFinalizer
  BY <1>6, <1>g DEF AddFinalizer
<1>7. CASE RemoveFinalizer \/ Conflict \/ JoinRefused \/ Persist \/ UninstallSucceeds
  BY <1>7, <1>e DEF RemoveFinalizer, Conflict, JoinRefused, Persist, UninstallSucceeds
<1>8. CASE Failures
  BY <1>8, <1>e DEF Failures, ResolveFails, ConnectFails, ObserveFails, UpdateFails, JoinMasked,
     JoinFails, PersistFails, UninstallFails, Crash, UnitFails, HostWiped, ServerLost, Step, local,
     FreshIsCurrent
<1>9. CASE UNCHANGED vars
  BY <1>9 DEF vars, FreshIsCurrent
<1>10. QED
  BY <1>1, <1>2, <1>3, <1>4, <1>5, <1>6, <1>7, <1>8, <1>9 DEF Next, Progress

LEMMA ProtectionInit == ASSUME Init PROVE CopyIsEvidence /\ StepsAreJustified /\ JoinedIsProtected
<1>1. pc = "idle" /\ cr = NoNode /\ host \in {NoUnit, Adopted}
  BY DEF Init
<1>2. QED
  BY <1>1, NodeLemma, HostLemma DEF CopyIsEvidence, StepsAreJustified, JoinedIsProtected, Sending

LEMMA ProtectionStep == ASSUME TypeInv, NodeInv, [Next]_vars PROVE NodeInv'
<1> DEFINE Guarded == node.exists /\ node.fin
           Justified == CopyIsEvidence /\ StepsAreJustified
<1>0. /\ node \in Nodes /\ cr \in Nodes /\ host \in Hosts /\ conn \in Connections
      /\ CopyIsEvidence /\ StepsAreJustified /\ JoinedIsProtected
      /\ (pc # "idle" => cr.exists /\ cr.cfg \in Configs)
      /\ Exists(host) \in BOOLEAN
  BY HostLemma DEF TypeInv, TypeOK, AsksForSomething, NodeInv
<1>s. SUFFICES Justified' /\ JoinedIsProtected'
  BY TypeStep, FreshStep DEF TypeInv, NodeInv
<1>i. ASSUME EndReconcile PROVE Justified'
  BY <1>i, IdleLemma DEF CopyIsEvidence, StepsAreJustified, Sending
\* What leaves the worker alone, and neither unguards the Node nor loads its unit.
<1>k. ASSUME UNCHANGED local, Guarded => Guarded', host' \in Hosts,
             Exists(host') => Exists(host), host'.cfg \in {host.cfg, NoJoin}
      PROVE  Justified' /\ JoinedIsProtected'
  BY <1>0, <1>k DEF local, CopyIsEvidence, StepsAreJustified, JoinedIsProtected, Sending
\* A reconcile that ends without unguarding the Node or loading its unit.
<1>e. ASSUME EndReconcile, Guarded => Guarded',
             Exists(host') => Exists(host), host'.cfg \in {host.cfg, NoJoin}
      PROVE  Justified' /\ JoinedIsProtected'
  BY <1>0, <1>e, <1>i DEF JoinedIsProtected
<1>1. ASSUME NEW n \in Namespaces,
             \/ UserCreatesCluster(n) \/ UserDeletesCluster(n)
             \/ ServerInstalled(n) \/ PublishDetails(n) \/ ServerLost(n)
      PROVE  Justified' /\ JoinedIsProtected'
  BY <1>0, <1>1, <1>k DEF UserCreatesCluster, UserDeletesCluster, ServerInstalled, PublishDetails, ServerLost
\* Users: a finalizer holds back their deletions.
<1>u. ASSUME NEW o \in Nodes, UserWrites(o), Guarded => o.exists /\ o.fin
      PROVE  Justified' /\ JoinedIsProtected'
  BY <1>0, <1>u DEF UserWrites, CopyIsEvidence, StepsAreJustified, JoinedIsProtected, Sending
<1>2. CASE CreateNode
  <2>1. PICK c \in Configs : UserWrites([NoNode EXCEPT !.exists = TRUE, !.cfg = c])
    BY <1>2 DEF CreateNode
  <2>2. [NoNode EXCEPT !.exists = TRUE, !.cfg = c] \in Nodes
    BY DEF Nodes, NoNode
  <2>3. QED
    BY <1>2, <1>u, <2>1, <2>2 DEF CreateNode
<1>3. CASE EditNode
  <2>1. PICK c \in Configs : UserWrites([node EXCEPT !.cfg = c])
    BY <1>3 DEF EditNode
  <2>2. /\ [node EXCEPT !.cfg = c] \in Nodes
        /\ [node EXCEPT !.cfg = c].exists = node.exists /\ [node EXCEPT !.cfg = c].fin = node.fin
    BY <1>0 DEF Nodes
  <2>3. QED
    BY <1>u, <2>1, <2>2
<1>4. CASE DeleteNode
  <2>1. /\ [node EXCEPT !.deleting = TRUE] \in Nodes
        /\ [node EXCEPT !.deleting = TRUE].exists = node.exists
        /\ [node EXCEPT !.deleting = TRUE].fin = node.fin
    BY <1>0 DEF Nodes
  <2>2. Gone(node) \in Nodes
    BY <1>0, NodeLemma
  <2>3. QED
    BY <1>4, <1>u, <2>1, <2>2 DEF DeleteNode
<1>5. CASE StartReconcile
  <2>1. /\ pc' \in {"resolve", "connect"} /\ cr' = node /\ node.exists
        /\ UNCHANGED <<node, host>>
    BY <1>5 DEF StartReconcile
  <2>2. QED
    BY <1>0, <2>1 DEF CopyIsEvidence, StepsAreJustified, JoinedIsProtected, Sending
<1>p. /\ patched(node).exists = node.exists /\ patched(node).fin = node.fin
      /\ persisted(node).exists = node.exists /\ persisted(node).fin = node.fin
  BY <1>0, PatchLemma
<1>6. CASE ResolveReferences
  <2>1. CASE node.exists
    <3>1. node' = patched(node) /\ cr' = patched(node) /\ pc' = "connect" /\ UNCHANGED host
      BY <1>6, <2>1 DEF ResolveReferences
    <3>2. QED
      BY <1>0, <1>p, <2>1, <3>1 DEF CopyIsEvidence, StepsAreJustified, JoinedIsProtected, Sending
  <2>2. CASE ~node.exists
    BY <1>6, <1>e, <2>2 DEF ResolveReferences
  <2>3. QED
    BY <2>1, <2>2
<1>7. CASE NothingToResolve
  <2>1. CASE Step("connect")
    BY <1>0, <1>7, <2>1
       DEF NothingToResolve, Step, CopyIsEvidence, StepsAreJustified, JoinedIsProtected, Sending
  <2>2. CASE EndReconcile
    BY <1>7, <1>e, <2>2 DEF NothingToResolve
  <2>3. QED
    BY <1>7, <2>1, <2>2 DEF NothingToResolve
<1>8. CASE ResolveFails
  BY <1>8, <1>e, <1>p DEF ResolveFails
<1>9. CASE Connect
  <2>1. pc' = "observe" /\ UNCHANGED <<node, cr, host>>
    BY <1>9 DEF Connect, Connected
  <2>2. QED
    BY <1>0, <2>1 DEF CopyIsEvidence, StepsAreJustified, JoinedIsProtected, Sending
<1>10. CASE ConnectFails
  BY <1>10, <1>e DEF ConnectFails
<1>11. CASE Observe
  <2> DEFINE seen == Observation(host, cr)
  <2>1. CASE EndReconcile
    BY <1>11, <1>e, <2>1 DEF Observe
  <2>2. CASE pc' = NextStep(cr, seen) /\ cr' = cr
    <3>1. UNCHANGED <<node, host>> /\ seen.exists = Exists(host)
      BY <1>11 DEF Observe, Observation
    <3>2. StepsAreJustified'
      BY <2>2, <3>1 DEF NextStep, StepsAreJustified, Sending
    <3>3. QED
      BY <1>0, <2>2, <3>1, <3>2 DEF CopyIsEvidence, JoinedIsProtected
  <2>3. QED
    BY <1>11, <2>1, <2>2, GoToLemma DEF Observe
<1>12. CASE ObserveFails
  BY <1>12, <1>e DEF ObserveFails
\* The finalizer goes on before anything is sent.
<1>13. CASE AddFinalizer
  <2>1. /\ node' = Protected(cr) /\ UNCHANGED host /\ pc = "protect"
        /\ GoTo(NextStep(Protected(cr), obs), Protected(cr), obs)
    BY <1>13 DEF AddFinalizer
  <2>2. Protected(cr).exists /\ Protected(cr).fin /\ ~Protected(cr).deleting
    BY <1>0, <2>1, NodeLemma DEF StepsAreJustified
  <2>3. JoinedIsProtected'
    BY <2>1, <2>2 DEF JoinedIsProtected
  <2>4. CASE EndReconcile
    BY <1>i, <2>3, <2>4
  <2>5. CASE pc' = NextStep(Protected(cr), obs) /\ cr' = Protected(cr)
    BY <2>1, <2>2, <2>3, <2>5 DEF NextStep, CopyIsEvidence, StepsAreJustified, Sending
  <2>6. QED
    BY <2>1, <2>4, <2>5, GoToLemma
\* The finalizer goes only when the unit is gone.
<1>14. CASE RemoveFinalizer
  <2>1. ~Exists(host) /\ UNCHANGED host
    BY <1>0, <1>14 DEF RemoveFinalizer, StepsAreJustified
  <2>2. QED
    BY <1>14, <1>i, <2>1 DEF RemoveFinalizer, JoinedIsProtected
<1>15. CASE Conflict
  BY <1>15, <1>e DEF Conflict
<1>16. CASE UpdateFails
  <2>1. CASE node' = node
    BY <1>16, <1>e, <2>1 DEF UpdateFails
  <2>2. CASE pc = "protect" /\ node' = Protected(cr)
    BY <1>0, <1>16, <1>e, <2>2, NodeLemma DEF UpdateFails
  <2>3. CASE pc = "release"
    BY <1>0, <1>16, <1>i, <2>3 DEF UpdateFails, JoinedIsProtected, StepsAreJustified
  <2>4. QED
    BY <1>16, <2>1, <2>2, <2>3 DEF UpdateFails
<1>g. Sending => Guarded
  BY <1>0 DEF StepsAreJustified, CopyIsEvidence
<1>17. CASE JoinRefused
  BY <1>17, <1>e DEF JoinRefused
<1>18. CASE JoinSucceeds
  <2>1. pc' = "persist" /\ UNCHANGED <<node, cr>> /\ Guarded
    BY <1>18, <1>g DEF JoinSucceeds, Step
  <2>2. QED
    BY <1>0, <2>1 DEF CopyIsEvidence, StepsAreJustified, JoinedIsProtected, Sending
<1>19. CASE JoinFails
  BY <1>19, <1>g, <1>i DEF JoinFails, JoinedIsProtected
<1>30. CASE JoinMasked
  <2>1. UNCHANGED node /\ Guarded
    BY <1>30, <1>g DEF JoinMasked
  <2>2. CASE EndReconcile
    BY <1>i, <2>1, <2>2 DEF JoinedIsProtected
  <2>3. CASE Step("persist")
    BY <1>0, <2>1, <2>3 DEF Step, CopyIsEvidence, StepsAreJustified, JoinedIsProtected, Sending
  <2>4. QED
    BY <1>30, <2>2, <2>3 DEF JoinMasked
<1>20. CASE Persist
  BY <1>20, <1>e, <1>p DEF Persist
<1>21. CASE PersistFails
  BY <1>21, <1>e, <1>p DEF PersistFails
<1>22. CASE UninstallSucceeds
  BY <1>22, <1>e, HostLemma DEF UninstallSucceeds
<1>23. CASE UninstallFails
  BY <1>0, <1>23, <1>e, PartialLemma DEF UninstallFails
<1>24. CASE Crash
  BY <1>24, <1>e, <1>g, <1>i DEF Crash, JoinedIsProtected
<1>25. CASE UnitStarts
  BY <1>0, <1>25, <1>k, HostLemma DEF UnitStarts
<1>26. CASE UnitLosesServer
  BY <1>0, <1>26, <1>k, HostLemma DEF UnitLosesServer
<1>27. CASE UnitFails
  BY <1>0, <1>27, <1>k, HostLemma DEF UnitFails
<1>28. CASE HostWiped
  BY <1>0, <1>28, <1>k, HostLemma DEF HostWiped
<1>29. CASE UNCHANGED vars
  BY <1>0, <1>29, <1>k DEF vars, local
<1>31. QED
  BY <1>1, <1>2, <1>3, <1>4, <1>5, <1>6, <1>7, <1>8, <1>9, <1>10, <1>11, <1>12, <1>13, <1>14,
     <1>15, <1>16, <1>17, <1>18, <1>19, <1>20, <1>21, <1>22, <1>23, <1>24, <1>25, <1>26, <1>27,
     <1>28, <1>29, <1>30
     DEF Next, Users, Servers, Progress, Failures

\* Each step of the worker is justified when it is taken, whatever users, other
\* Clusters and faults did since it was decided on.
THEOREM NodeProtection == Spec => []NodeInv
<1>1. Init => TypeInv /\ NodeInv
  BY TypeInit, FreshInit, ProtectionInit DEF TypeInv, NodeInv
<1>2. TypeInv /\ NodeInv /\ [Next]_vars => TypeInv' /\ NodeInv'
  BY TypeStep, ProtectionStep
<1>3. QED
  BY <1>1, <1>2, PTL DEF Spec

\* A machine that was joined, or began to be, belongs to a Node that exists and
\* carries the finalizer.
THEOREM JoinedStaysProtected == Spec => []JoinedIsProtected
<1>1. NodeInv => JoinedIsProtected
  BY DEF NodeInv
<1>2. QED
  BY <1>1, NodeProtection, PTL
\* Resolution, the finalizer and the annotation leave every field of the spec as
\* users set it: no write of the worker's undoes an edit.
THEOREM NodeSpecIsUsers == Spec => SpecChangesAreUsers
<1>1. ASSUME TypeInv, NodeInv, [Next]_vars
      PROVE  [node'.cfg # node.cfg => UNCHANGED <<pc, cr, host>>]_vars
  <2>0. /\ node \in Nodes /\ cr \in Nodes /\ (fresh => cr = node)
    BY <1>1 DEF TypeInv, TypeOK, NodeInv, FreshIsCurrent
  <2>1. /\ patched(node).cfg = node.cfg /\ persisted(node).cfg = node.cfg
    BY <2>0, PatchLemma
  <2>2. Protected(cr).cfg = cr.cfg /\ Gone(cr).cfg = cr.cfg
    BY <2>0 DEF Protected, Gone, Nodes, NoNode
  <2>3. CASE Users
    BY <2>3 DEF Users, CreateNode, EditNode, DeleteNode, UserWrites, UserCreatesCluster,
       UserDeletesCluster
  <2>4. CASE Servers \/ UnitStarts \/ UnitLosesServer
    BY <2>4 DEF Servers, ServerInstalled, PublishDetails, UnitStarts, UnitLosesServer
  <2>5. CASE StartReconcile \/ NothingToResolve \/ Connect \/ Observe \/ Conflict
    BY <2>5 DEF StartReconcile, NothingToResolve, Connect, Observe, Conflict
  <2>6. CASE JoinRefused \/ JoinSucceeds \/ UninstallSucceeds
    BY <2>6 DEF JoinRefused, JoinSucceeds, UninstallSucceeds
  <2>7. CASE ResolveReferences \/ Persist
    BY <2>1, <2>7 DEF ResolveReferences, Persist
  <2>8. CASE AddFinalizer \/ RemoveFinalizer
    BY <2>0, <2>2, <2>8 DEF AddFinalizer, RemoveFinalizer
  <2>9. CASE Failures
    BY <2>0, <2>1, <2>2, <2>9 DEF Failures, ResolveFails, ConnectFails, ObserveFails,
       UpdateFails, JoinMasked, JoinFails, PersistFails, UninstallFails, Crash, UnitFails,
       HostWiped, ServerLost
  <2>10. QED
    BY <1>1, <2>3, <2>4, <2>5, <2>6, <2>7, <2>8, <2>9 DEF Next, Progress
<1>2. Spec => [](TypeInv /\ NodeInv)
  BY TypeInit, TypeStep, NodeProtection, PTL DEF Spec
<1>3. QED
  BY <1>1, <1>2, PTL DEF Spec, SpecChangesAreUsers

-----------------------------------------------------------------------------
(* Where the reference is required, no machine is joined to nothing.       *)

LEMMA TokenInit == ASSUME Init PROVE TokenInv
BY HostLemma DEF Init, TokenInv, ConnectionIsComplete, NeverJoinsNothing

LEMMA TokenStep ==
    ASSUME ~Optional, TypeInv, NodeInv, TokenInv, [Next]_vars
    PROVE  TokenInv'
<1>0. /\ node \in Nodes /\ cr \in Nodes /\ host \in Hosts /\ conn \in Connections
      /\ StepsAreJustified /\ ConnectionIsComplete /\ NeverJoinsNothing
      /\ (Sending => joinParamsFor(cr, conn) \in Joins)
  BY DEF TypeInv, TypeOK, AsksForSomething, NodeInv, TokenInv, Sending, joinParamsFor, Joins,
     Connections
<1>s. SUFFICES ConnectionIsComplete' /\ NeverJoinsNothing'
  BY DEF TokenInv
<1>i. ASSUME EndReconcile PROVE ConnectionIsComplete'
  BY <1>i DEF EndReconcile, ConnectionIsComplete
\* What leaves the worker alone, or ends its reconcile, and writes no unit.
<1>k. ASSUME UNCHANGED local \/ EndReconcile, host'.cfg \in {host.cfg, NoJoin}
      PROVE  ConnectionIsComplete' /\ NeverJoinsNothing'
  BY <1>0, <1>i, <1>k DEF local, ConnectionIsComplete, NeverJoinsNothing
<1>1. CASE Users
  BY <1>1, <1>0 DEF Users, CreateNode, EditNode, DeleteNode, UserWrites, UserCreatesCluster,
     UserDeletesCluster, local, ConnectionIsComplete, NeverJoinsNothing
<1>2. CASE Servers
  BY <1>2, <1>k DEF Servers, ServerInstalled, PublishDetails
<1>3. CASE UnitStarts \/ UnitLosesServer
  BY <1>0, <1>3, <1>k, HostLemma DEF UnitStarts, UnitLosesServer
<1>4. CASE StartReconcile
  BY <1>0, <1>4 DEF StartReconcile, NeedsResolution, ConnectionIsComplete, NeverJoinsNothing
<1>5. CASE ResolveReferences
  <2>1. CASE node.exists
    <3>1. cr' = patched(node) /\ pc' = "connect" /\ UNCHANGED host /\ patched(node).resolved
      BY <1>0, <1>5, <2>1, PatchLemma DEF ResolveReferences
    <3>2. QED
      BY <1>0, <3>1 DEF ConnectionIsComplete, NeverJoinsNothing
  <2>2. CASE ~node.exists
    BY <1>5, <1>k, <2>2 DEF ResolveReferences
  <2>3. QED
    BY <2>1, <2>2
<1>6. CASE NothingToResolve
  BY <1>6, <1>k DEF NothingToResolve
\* Connect has a token, or an error to show for it.
<1>7. CASE Connect
  <2>1. /\ pc = "connect" /\ UNCHANGED <<cr, host>>
        /\ cr.resolved => conn'.clusterErr \/ conn'.token # NoToken
    BY <1>7 DEF Connect, resolveClusterInfo
  <2>2. QED
    BY <1>0, <2>1 DEF ConnectionIsComplete, NeverJoinsNothing
<1>8. CASE Observe
  <2>1. CASE EndReconcile
    BY <1>8, <1>k, <2>1 DEF Observe
  <2>2. CASE cr' = cr /\ UNCHANGED conn
    BY <1>0, <1>8, <2>2 DEF Observe, ConnectionIsComplete, NeverJoinsNothing
  <2>3. QED
    BY <1>8, <2>1, <2>2, GoToLemma DEF Observe
<1>9. CASE AddFinalizer
  <2>1. pc = "protect" /\ UNCHANGED host
    BY <1>9 DEF AddFinalizer
  <2>2. CASE EndReconcile
    BY <1>k, <2>1, <2>2
  <2>3. CASE cr' = Protected(cr) /\ UNCHANGED conn
    BY <1>0, <2>1, <2>3, NodeLemma DEF ConnectionIsComplete, NeverJoinsNothing
  <2>4. QED
    BY <1>9, <2>2, <2>3, GoToLemma DEF AddFinalizer
<1>10. CASE RemoveFinalizer \/ Conflict \/ JoinRefused \/ Persist
  BY <1>10, <1>k DEF RemoveFinalizer, Conflict, JoinRefused, Persist
\* Only a worker with a token gets as far as sending one.
<1>t. ASSUME Sending, ~Refuses(conn)
      PROVE  joinParamsFor(cr, conn) \in Joins /\ joinParamsFor(cr, conn).token # NoToken
  <2>1. ~cr.deleting /\ cr.resolved
    BY <1>0, <1>t DEF Sending, StepsAreJustified, ConnectionIsComplete
  <2>2. conn.token # NoToken
    BY <1>0, <1>t, <2>1 DEF Sending, ConnectionIsComplete, Refuses
  <2>3. QED
    BY <1>0, <1>t, <2>2 DEF joinParamsFor
<1>p. ASSUME Sending, ~Refuses(conn), host' \in PartialInstalls(host, joinParamsFor(cr, conn))
      PROVE  NeverJoinsNothing'
  <2>1. host' = host \/ host'.cfg = joinParamsFor(cr, conn)
    BY <1>0, <1>p, PartialLemma
  <2>2. QED
    BY <1>0, <1>p, <1>t, <2>1 DEF NeverJoinsNothing
<1>11. CASE JoinSucceeds
  <2>1. host'.cfg = joinParamsFor(cr, conn)
    BY <1>0, <1>11, HostLemma DEF JoinSucceeds
  <2>2. NeverJoinsNothing'
    BY <1>11, <1>t, <2>1 DEF JoinSucceeds, NeverJoinsNothing
  <2>3. ConnectionIsComplete'
    BY <1>0, <1>11 DEF JoinSucceeds, Step, Sending, ConnectionIsComplete
  <2>4. QED
    BY <2>2, <2>3
<1>12. CASE JoinFails
  BY <1>12, <1>i, <1>p DEF JoinFails
<1>19. CASE JoinMasked
  <2>1. host'.cfg = host.cfg
    BY <1>0, <1>19, HostLemma DEF JoinMasked
  <2>2. CASE EndReconcile
    BY <1>k, <2>1, <2>2
  <2>3. CASE Step("persist")
    BY <1>0, <1>19, <2>1, <2>3 DEF JoinMasked, Step, Sending, ConnectionIsComplete, NeverJoinsNothing
  <2>4. QED
    BY <1>19, <2>2, <2>3 DEF JoinMasked
<1>13. CASE Crash
  <2>1. CASE Sending /\ ~Refuses(conn)
    BY <1>13, <1>i, <1>p, <2>1 DEF Crash
  <2>2. CASE ~(Sending /\ ~Refuses(conn))
    BY <1>13, <1>k, <2>2 DEF Crash
  <2>3. QED
    BY <2>1, <2>2
<1>14. CASE UninstallSucceeds \/ UninstallFails
  BY <1>0, <1>14, <1>k, HostLemma, PartialLemma DEF UninstallSucceeds, UninstallFails
<1>15. CASE ResolveFails \/ ConnectFails \/ ObserveFails \/ UpdateFails \/ PersistFails
  BY <1>15, <1>k DEF ResolveFails, ConnectFails, ObserveFails, UpdateFails, PersistFails
<1>16. CASE UnitFails \/ HostWiped
  BY <1>0, <1>16, <1>k, HostLemma DEF UnitFails, HostWiped
<1>17. ASSUME NEW n \in Namespaces, ServerLost(n)
       PROVE  ConnectionIsComplete' /\ NeverJoinsNothing'
  BY <1>17, <1>k DEF ServerLost
<1>18. CASE UNCHANGED vars
  BY <1>18, <1>k DEF vars, local
<1>20. QED
  BY <1>1, <1>2, <1>3, <1>4, <1>5, <1>6, <1>7, <1>8, <1>9, <1>10, <1>11, <1>12, <1>13, <1>14,
     <1>15, <1>16, <1>17, <1>18, <1>19
     DEF Next, Progress, Failures

\* With a required reference no machine is ever joined to nothing: Create and
\* Update run with a token, or report why there is none.
THEOREM NoBlindJoin == ASSUME ~Optional PROVE Spec => []NeverJoinsNothing
<1>1. Init => TypeInv /\ NodeInv /\ TokenInv
  BY TypeInit, FreshInit, ProtectionInit, TokenInit DEF TypeInv, NodeInv
<1>2. TypeInv /\ NodeInv /\ TokenInv /\ [Next]_vars => TypeInv' /\ NodeInv' /\ TokenInv'
  BY TypeStep, ProtectionStep, TokenStep
<1>3. TokenInv => NeverJoinsNothing
  BY DEF TokenInv
<1>4. QED
  BY <1>1, <1>2, <1>3, PTL DEF Spec

-----------------------------------------------------------------------------
(* Deletion: a copy with a deletionTimestamp stays right.                  *)

LEMMA DeletingLemma ==
    /\ ~NoNode.deleting
    /\ \A o \in Nodes : ~Gone(o).deleting
    /\ cr \in Nodes => \A o \in Nodes : persisted(o).deleting = o.deleting
BY DEF Nodes, NoNode, Gone, persisted

LEMMA DeletionInit == ASSUME Init PROVE DeletionInv
<1>1. PICK c \in Configs : node = [NoNode EXCEPT !.exists = TRUE, !.cfg = c]
  BY DEF Init
<1>2. node.exists
  BY <1>1 DEF NoNode
<1>3. pc = "idle" /\ cr = NoNode
  BY DEF Init
<1>4. QED
  BY <1>2, <1>3, DeletingLemma DEF DeletionInv

LEMMA DeletionStep == ASSUME TypeInv, NodeInv, DeletionInv, [Next]_vars PROVE DeletionInv'
<1> DEFINE Whole == node.fin \/ node.deleting => node.exists
<1>0. /\ node \in Nodes /\ cr \in Nodes /\ (pc # "idle" => cr.exists) /\ (fresh => cr = node)
      /\ StepsAreJustified /\ Whole
      /\ (cr.deleting => node.exists /\ node.deleting)
      /\ (pc \in {"delete", "release"} => cr.deleting)
  BY DEF TypeInv, TypeOK, AsksForSomething, NodeInv, FreshIsCurrent, DeletionInv
<1>b. node.exists \in BOOLEAN /\ node.fin \in BOOLEAN /\ node.deleting \in BOOLEAN
  BY <1>0 DEF Nodes
<1>e. ASSUME EndReconcile, Whole' PROVE DeletionInv'
  BY <1>e, DeletingLemma DEF EndReconcile, DeletionInv
\* What leaves the worker's copy and its next step alone, and the deletion too.
<1>k. ASSUME UNCHANGED <<pc, cr>>, Whole', node.exists /\ node.deleting => node'.exists /\ node'.deleting
      PROVE  DeletionInv'
  BY <1>0, <1>k DEF DeletionInv
<1>n. node' = node => Whole'
  BY <1>0
<1>1. CASE Servers \/ UnitStarts \/ UnitLosesServer
  BY <1>0, <1>1, <1>k, <1>n
     DEF Servers, ServerInstalled, PublishDetails, UnitStarts, UnitLosesServer, local
<1>2. ASSUME NEW n \in Namespaces, UserCreatesCluster(n) \/ UserDeletesCluster(n) \/ ServerLost(n)
      PROVE  DeletionInv'
  BY <1>0, <1>2, <1>k, <1>n DEF UserCreatesCluster, UserDeletesCluster, ServerLost, local
<1>3. CASE CreateNode
  <2>1. PICK c \in Configs : UserWrites([NoNode EXCEPT !.exists = TRUE, !.cfg = c])
    BY <1>3 DEF CreateNode
  <2>2. node'.exists /\ UNCHANGED <<pc, cr>> /\ ~node.exists
    BY <1>3, <2>1 DEF UserWrites, NoNode, CreateNode
  <2>3. QED
    BY <1>k, <2>2
<1>4. CASE EditNode
  <2>1. PICK c \in Configs : UserWrites([node EXCEPT !.cfg = c])
    BY <1>4 DEF EditNode
  <2>2. /\ node'.exists = node.exists /\ node'.fin = node.fin /\ node'.deleting = node.deleting
        /\ UNCHANGED <<pc, cr>>
    BY <1>0, <2>1 DEF UserWrites, Nodes
  <2>3. QED
    BY <1>0, <1>k, <2>2
<1>5. CASE DeleteNode
  <2>1. /\ node.exists /\ ~node.deleting /\ UNCHANGED <<pc, cr>>
        /\ node' = IF node.fin THEN [node EXCEPT !.deleting = TRUE] ELSE Gone(node)
    BY <1>5 DEF DeleteNode, UserWrites
  <2>2. [node EXCEPT !.deleting = TRUE].exists = node.exists
    BY <1>0 DEF Nodes
  <2>3. ~Gone(node).fin /\ ~Gone(node).deleting
    BY <1>0, NodeLemma, DeletingLemma
  <2>4. Whole'
    BY <2>1, <2>2, <2>3
  <2>5. QED
    BY <1>k, <2>1, <2>4
<1>6. CASE StartReconcile
  <2>1. cr' = node /\ node' = node /\ pc' \notin {"delete", "release"}
    BY <1>6 DEF StartReconcile
  <2>2. QED
    BY <1>0, <2>1 DEF DeletionInv
<1>p. /\ patched(node).exists = node.exists /\ persisted(node).exists = node.exists
      /\ patched(node).fin = node.fin /\ persisted(node).fin = node.fin
      /\ patched(node).deleting = node.deleting /\ persisted(node).deleting = node.deleting
  BY <1>0, PatchLemma, DeletingLemma
<1>7. CASE ResolveReferences
  <2>1. CASE node.exists
    <3>1. node' = patched(node) /\ cr' = patched(node) /\ pc' = "connect"
      BY <1>7, <2>1 DEF ResolveReferences
    <3>2. QED
      BY <1>0, <1>p, <2>1, <3>1 DEF DeletionInv
  <2>2. CASE ~node.exists
    BY <1>7, <1>e, <1>n, <2>2 DEF ResolveReferences
  <2>3. QED
    BY <2>1, <2>2
<1>8. CASE NothingToResolve \/ Connect \/ JoinSucceeds \/ JoinMasked
  <2>1. node' = node
    BY <1>8 DEF NothingToResolve, Connect, JoinSucceeds, JoinMasked
  <2>2. CASE EndReconcile
    BY <1>e, <1>n, <2>1, <2>2
  <2>3. CASE cr' = cr /\ pc' \notin {"delete", "release"}
    BY <1>0, <2>1, <2>3 DEF DeletionInv
  <2>4. QED
    BY <1>8, <2>2, <2>3 DEF NothingToResolve, Connect, Connected, JoinSucceeds, JoinMasked, Step
<1>9. CASE Observe
  <2>1. node' = node
    BY <1>9 DEF Observe
  <2>2. CASE EndReconcile
    BY <1>e, <1>n, <2>1, <2>2
  <2>3. CASE cr' = cr /\ pc' = NextStep(cr, Observation(host, cr))
    BY <1>0, <2>1, <2>3 DEF DeletionInv, NextStep
  <2>4. QED
    BY <1>9, <2>2, <2>3, GoToLemma DEF Observe
\* Only a copy that is not being deleted is given a finalizer.
<1>10. CASE AddFinalizer
  <2> DEFINE o == Protected(cr)
  <2>1. node' = o /\ o.exists /\ ~o.deleting
    BY <1>0, <1>10, NodeLemma DEF AddFinalizer, StepsAreJustified
  <2>2. CASE EndReconcile
    BY <1>e, <2>1, <2>2
  <2>3. CASE cr' = o /\ pc' = NextStep(o, obs)
    BY <2>1, <2>3 DEF DeletionInv, NextStep
  <2>4. QED
    BY <1>10, <2>2, <2>3, GoToLemma DEF AddFinalizer
<1>g. ~Gone(cr).fin /\ ~Gone(cr).deleting /\ (pc # "idle" => Protected(cr).exists)
  BY <1>0, NodeLemma, DeletingLemma
<1>11. CASE RemoveFinalizer
  BY <1>11, <1>e, <1>g DEF RemoveFinalizer
<1>12. CASE UpdateFails
  <2>1. EndReconcile /\ (node' = node \/ node' = Protected(cr) \/ node' = Gone(cr)) /\ pc # "idle"
    BY <1>12 DEF UpdateFails
  <2>2. QED
    BY <1>e, <1>g, <1>n, <2>1
<1>13. CASE Persist \/ PersistFails \/ ResolveFails
  <2>1. EndReconcile /\ (node' = node \/ node' = persisted(node) \/ node' = patched(node))
    BY <1>13 DEF Persist, PersistFails, ResolveFails
  <2>2. QED
    BY <1>0, <1>e, <1>n, <1>p, <2>1
<1>14. CASE Conflict \/ JoinRefused \/ UninstallSucceeds
  BY <1>14, <1>e, <1>n DEF Conflict, JoinRefused, UninstallSucceeds
<1>15. CASE ConnectFails \/ ObserveFails \/ JoinFails \/ UninstallFails \/ Crash
  BY <1>15, <1>e, <1>n DEF ConnectFails, ObserveFails, JoinFails, UninstallFails, Crash
<1>16. CASE UnitFails \/ HostWiped \/ UNCHANGED vars
  BY <1>0, <1>16, <1>k, <1>n DEF UnitFails, HostWiped, local, vars
<1>17. QED
  BY <1>1, <1>2, <1>3, <1>4, <1>5, <1>6, <1>7, <1>8, <1>9, <1>10, <1>11, <1>12, <1>13, <1>14,
     <1>15, <1>16
     DEF Next, Users, Progress, Failures

-----------------------------------------------------------------------------
(* The refinement of ManagedResource.                                      *)

\* What the refinement mapping makes of the Node and of its machine.
Declared == IF ~node.exists THEN "absent" ELSE IF node.deleting THEN "withdrawn" ELSE "live"
JoinSent == Exists(host) /\ host.cfg # NoJoin

Kept == Declared' = Declared /\ node'.fin = node.fin
PerhapsAFault == faults' \in {faults, faults + 1}
Mapped == [Lifecycle!Next]_(Lifecycle!vars)

LEMMA MapsToStutter ==
    ASSUME Kept, JoinSent' = JoinSent, PerhapsAFault PROVE Mapped
<1>1. CASE faults' = faults
  BY <1>1 DEF Mapped, Lifecycle!vars, Kept, Declared, JoinSent
<1>2. CASE faults' = faults + 1
  BY <1>2 DEF Mapped, Lifecycle!Next, Lifecycle!Trouble, Kept, Declared, JoinSent
<1>3. QED
  BY <1>1, <1>2 DEF PerhapsAFault

LEMMA MapsToInstall ==
    ASSUME Kept, JoinSent' = TRUE, node.exists, node.fin, PerhapsAFault PROVE Mapped
<1>1. Lifecycle!Install
  BY DEF Lifecycle!Install, Lifecycle!PerhapsFaulty, PerhapsAFault, Kept, Declared, JoinSent
<1>2. QED
  BY <1>1 DEF Mapped, Lifecycle!Next

LEMMA MapsToUninstall ==
    ASSUME Kept, JoinSent' = FALSE, Declared = "withdrawn", PerhapsAFault PROVE Mapped
<1>1. Lifecycle!Uninstall
  BY DEF Lifecycle!Uninstall, Lifecycle!PerhapsFaulty, PerhapsAFault, Kept, Declared, JoinSent
<1>2. QED
  BY <1>1 DEF Mapped, Lifecycle!Next

LEMMA MapsToLose ==
    ASSUME Kept, JoinSent' = FALSE, faults' = faults + 1 PROVE Mapped
<1>1. Lifecycle!Lose
  BY DEF Lifecycle!Lose, Kept, Declared, JoinSent
<1>2. QED
  BY <1>1 DEF Mapped, Lifecycle!Next

LEMMA MapsToGuard ==
    ASSUME Declared = "live", Declared' = "live", node'.fin = TRUE, JoinSent' = JoinSent,
           PerhapsAFault
    PROVE  Mapped
<1>1. Lifecycle!Guard
  BY DEF Lifecycle!Guard, Lifecycle!PerhapsFaulty, PerhapsAFault, Declared, JoinSent
<1>2. QED
  BY <1>1 DEF Mapped, Lifecycle!Next

LEMMA MapsToRelease ==
    ASSUME Declared = "withdrawn", Declared' = "absent", node'.fin = FALSE, JoinSent = FALSE,
           JoinSent' = JoinSent, PerhapsAFault
    PROVE  Mapped
<1>1. Lifecycle!Release
  BY DEF Lifecycle!Release, Lifecycle!PerhapsFaulty, PerhapsAFault, Declared, JoinSent
<1>2. QED
  BY <1>1 DEF Mapped, Lifecycle!Next

LEMMA MapsToDeclare ==
    ASSUME Declared = "absent", Declared' = "live", node'.fin = node.fin, JoinSent' = JoinSent,
           faults' = faults
    PROVE  Mapped
<1>1. Lifecycle!Declare
  BY DEF Lifecycle!Declare, Lifecycle!PerhapsFaulty, Declared, JoinSent
<1>2. QED
  BY <1>1 DEF Mapped, Lifecycle!Next

LEMMA MapsToWithdraw ==
    ASSUME Declared = "live", Declared' = IF node.fin THEN "withdrawn" ELSE "absent",
           node'.fin = node.fin, JoinSent' = JoinSent, faults' = faults
    PROVE  Mapped
<1>1. Lifecycle!Withdraw
  BY DEF Lifecycle!Withdraw, Lifecycle!PerhapsFaulty, Declared, JoinSent
<1>2. QED
  BY <1>1 DEF Mapped, Lifecycle!Next

LEMMA JoinedLemma ==
    /\ NoJoin.cfg = NoConfig /\ \A j \in Joins : j # NoJoin
    /\ \A h \in Hosts, j \in Joins : Exists(Written(h, j)) /\ Exists(Installed(h, j))
<1>1. \A j \in Joins : j.cfg # NoConfig
  BY NodeConfigsAssumption DEF Joins, NoConfig
<1>2. NoJoin.cfg = NoConfig
  BY DEF NoJoin
<1>3. \A h \in Hosts, j \in Joins : Exists(Written(h, j)) /\ Exists(Installed(h, j))
  BY DEF Hosts, Exists, Written, Installed, Restarted
<1>4. QED
  BY <1>1, <1>2, <1>3

LEMMA RefinementStep == ASSUME TypeInv, NodeInv, DeletionInv, [Next]_vars PROVE Mapped
<1>0. /\ node \in Nodes /\ cr \in Nodes /\ host \in Hosts /\ (pc # "idle" => cr.exists)
      /\ (fresh => cr = node)
      /\ StepsAreJustified /\ (Sending => node.exists /\ node.fin)
      /\ (node.fin \/ node.deleting => node.exists)
      /\ (cr.deleting => node.exists /\ node.deleting)
      /\ (pc \in {"delete", "release"} => cr.deleting)
      /\ (Sending => joinParamsFor(cr, conn) \in Joins)
  <2>1. Sending => joinParamsFor(cr, conn) \in Joins
    BY DEF TypeInv, TypeOK, AsksForSomething, Sending, joinParamsFor, Joins, Connections
  <2>2. QED
    BY <2>1 DEF TypeInv, TypeOK, AsksForSomething, NodeInv, FreshIsCurrent, CopyIsEvidence,
       StepsAreJustified, DeletionInv
<1>b. node.exists \in BOOLEAN /\ node.fin \in BOOLEAN /\ node.deleting \in BOOLEAN
  BY <1>0 DEF Nodes
<1>k. UNCHANGED node => Kept
  BY DEF Kept, Declared
<1>h. UNCHANGED host => JoinSent' = JoinSent
  BY DEF JoinSent
<1>m. ASSUME NEW kind, Fault(kind) PROVE faults' = faults + 1 /\ PerhapsAFault
  BY <1>m DEF Fault, PerhapsAFault
<1>n. /\ UNCHANGED budgets => faults' = faults /\ PerhapsAFault
      /\ \A back : Edit(back) => faults' = faults /\ PerhapsAFault
  BY DEF budgets, PerhapsAFault, Edit
<1>s. ASSUME UNCHANGED <<node, host>>, PerhapsAFault PROVE Mapped
  BY <1>s, <1>k, <1>h, MapsToStutter
\* A version that others see as the current one.
<1>o. ASSUME NEW o \in Nodes, node' = o, o.exists = node.exists, o.fin = node.fin,
             o.deleting = node.deleting
      PROVE  Kept
  BY <1>o DEF Kept, Declared
\* The Clusters.
<1>1. ASSUME NEW n \in Namespaces,
             \/ UserCreatesCluster(n) \/ UserDeletesCluster(n)
             \/ ServerInstalled(n) \/ PublishDetails(n) \/ ServerLost(n)
      PROVE  Mapped
  <2>1. UNCHANGED <<node, host>>
    BY <1>1 DEF UserCreatesCluster, UserDeletesCluster, ServerInstalled, PublishDetails, ServerLost
  <2>2. PerhapsAFault
    BY <1>1, <1>m, <1>n DEF UserCreatesCluster, UserDeletesCluster, ServerInstalled,
       PublishDetails, ServerLost
  <2>3. QED
    BY <1>s, <2>1, <2>2
\* Users of the Node.
<1>2. CASE CreateNode
  <2>1. PICK c \in Configs : UserWrites([NoNode EXCEPT !.exists = TRUE, !.cfg = c])
    BY <1>2 DEF CreateNode
  <2>2. node'.exists /\ ~node'.deleting /\ node'.fin = FALSE /\ UNCHANGED host /\ \E back : Edit(back)
    BY <2>1 DEF UserWrites, NoNode
  <2>3. ~node.exists /\ node.fin = FALSE
    BY <1>0, <1>2, <1>b DEF CreateNode
  <2>4. Declared = "absent" /\ Declared' = "live"
    BY <2>2, <2>3 DEF Declared
  <2>5. QED
    BY <1>h, <1>n, <2>2, <2>3, <2>4, MapsToDeclare
<1>3. CASE EditNode
  <2>1. PICK c \in Configs : UserWrites([node EXCEPT !.cfg = c])
    BY <1>3 DEF EditNode
  <2>2. /\ node'.exists = node.exists /\ node'.fin = node.fin /\ node'.deleting = node.deleting
        /\ UNCHANGED host /\ \E back : Edit(back)
    BY <1>0, <2>1 DEF UserWrites, Nodes
  <2>3. Kept
    BY <2>2 DEF Kept, Declared
  <2>4. QED
    BY <1>h, <1>n, <2>2, <2>3, MapsToStutter
<1>4. CASE DeleteNode
  <2>1. /\ node.exists /\ ~node.deleting /\ UNCHANGED host /\ \E back : Edit(back)
        /\ node' = IF node.fin THEN [node EXCEPT !.deleting = TRUE] ELSE Gone(node)
    BY <1>4 DEF DeleteNode, UserWrites
  <2>2. Declared = "live"
    BY <2>1 DEF Declared
  <2>3. CASE node.fin
    <3>1. node'.exists /\ node'.deleting /\ node'.fin = node.fin
      BY <1>0, <2>1, <2>3 DEF Nodes
    <3>2. Declared' = "withdrawn"
      BY <3>1 DEF Declared
    <3>3. QED
      BY <1>h, <1>n, <2>1, <2>2, <2>3, <3>1, <3>2, MapsToWithdraw
  <2>4. CASE ~node.fin
    <3>1. ~node'.exists /\ node'.fin = FALSE
      BY <2>1, <2>4 DEF Gone, NoNode
    <3>2. Declared' = "absent" /\ node'.fin = node.fin
      BY <1>b, <2>4, <3>1 DEF Declared
    <3>3. QED
      BY <1>h, <1>n, <2>1, <2>2, <2>4, <3>2, MapsToWithdraw
  <2>5. QED
    BY <2>3, <2>4
\* Steps of the worker's that others cannot see.
<1>5. CASE StartReconcile \/ NothingToResolve \/ Connect \/ Observe \/ Conflict \/ JoinRefused
  BY <1>5, <1>n, <1>s DEF StartReconcile, NothingToResolve, Connect, Observe, Conflict, JoinRefused
<1>6. CASE ConnectFails \/ ObserveFails
  BY <1>6, <1>m, <1>s DEF ConnectFails, ObserveFails
\* Patches and annotations keep the object as others see it.
<1>p. ASSUME node' \in {node, patched(node), persisted(node)} PROVE Kept
  BY <1>0, <1>k, <1>o, <1>p, PatchLemma, DeletingLemma
<1>7. CASE ResolveReferences \/ Persist
  <2>1. node' \in {node, patched(node), persisted(node)} /\ UNCHANGED host /\ UNCHANGED budgets
    BY <1>7 DEF ResolveReferences, Persist
  <2>2. QED
    BY <1>h, <1>n, <1>p, <2>1, MapsToStutter
<1>8. CASE ResolveFails \/ PersistFails
  <2>1. node' \in {node, patched(node), persisted(node)} /\ UNCHANGED host
    BY <1>8 DEF ResolveFails, PersistFails
  <2>2. PerhapsAFault
    BY <1>8, <1>m DEF ResolveFails, PersistFails
  <2>3. QED
    BY <1>h, <1>p, <2>1, <2>2, MapsToStutter
\* The finalizer is added to an object nobody has withdrawn.
<1>a. ASSUME pc = "protect", fresh, node' = Protected(cr), UNCHANGED host, PerhapsAFault
      PROVE  Mapped
  <2>1. node.exists /\ ~node.deleting
    BY <1>0, <1>a DEF StepsAreJustified
  <2>2. node'.exists /\ ~node'.deleting /\ node'.fin = TRUE
    BY <1>0, <1>a, <2>1 DEF Protected, Nodes
  <2>3. Declared = "live" /\ Declared' = "live"
    BY <2>1, <2>2 DEF Declared
  <2>4. QED
    BY <1>a, <1>h, <2>2, <2>3, MapsToGuard
<1>9. CASE AddFinalizer
  BY <1>9, <1>a, <1>n DEF AddFinalizer
\* The finalizer is removed from an object that is going and has no unit.
<1>r. ASSUME pc = "release", fresh, node' = Gone(cr), UNCHANGED host, PerhapsAFault
      PROVE  Mapped
  <2>1. node.exists /\ node.deleting /\ ~Exists(host)
    BY <1>0, <1>r DEF StepsAreJustified
  <2>2. ~node'.exists /\ node'.fin = FALSE
    BY <1>r DEF Gone, NoNode
  <2>3. Declared = "withdrawn" /\ Declared' = "absent" /\ JoinSent = FALSE
    BY <2>1, <2>2 DEF Declared, JoinSent
  <2>4. QED
    BY <1>r, <1>h, <2>2, <2>3, MapsToRelease
<1>10. CASE RemoveFinalizer
  BY <1>10, <1>n, <1>r DEF RemoveFinalizer
<1>11. CASE UpdateFails
  <2>1. PerhapsAFault /\ fresh /\ UNCHANGED host /\ pc \in {"protect", "release"}
    BY <1>11, <1>m DEF UpdateFails
  <2>2. CASE node' = node
    BY <1>s, <2>1, <2>2
  <2>3. CASE pc = "protect" /\ node' = Protected(cr)
    BY <1>a, <2>1, <2>3
  <2>4. CASE pc = "release" /\ node' = Gone(cr)
    BY <1>r, <2>1, <2>4
  <2>5. QED
    BY <1>11, <2>1, <2>2, <2>3, <2>4 DEF UpdateFails
\* A join goes out under the finalizer, and leaves a unit where there was one.
<1>i. ASSUME Sending, UNCHANGED node, PerhapsAFault,
             host' \in PartialInstalls(host, joinParamsFor(cr, conn))
      PROVE  Mapped
  <2> DEFINE j == joinParamsFor(cr, conn)
  <2>1. CASE host' = host
    BY <1>i, <1>s, <2>1
  <2>2. CASE host' = Written(host, j) \/ host' = Installed(host, j)
    <3>1. JoinSent' = TRUE
      BY <1>0, <1>i, <2>2, HostLemma, JoinedLemma DEF JoinSent, Exists
    <3>2. QED
      BY <1>0, <1>i, <1>k, <3>1, MapsToInstall
  <2>3. QED
    BY <1>i, <2>1, <2>2 DEF PartialInstalls
<1>12. CASE JoinSucceeds
  BY <1>12, <1>i, <1>n DEF JoinSucceeds, PartialInstalls
<1>13. CASE JoinFails
  BY <1>13, <1>i, <1>m DEF JoinFails
<1>21. CASE JoinMasked
  <2>1. UNCHANGED node /\ PerhapsAFault
    BY <1>21, <1>m DEF JoinMasked
  <2>2. host' = host \/ (Exists(host) /\ host' = Restarted(host))
    BY <1>21 DEF JoinMasked
  <2>4. host'.cfg = host.cfg /\ Exists(host') = Exists(host)
    BY <1>0, <2>2, HostLemma
  <2>5. JoinSent' = JoinSent
    BY <2>4 DEF JoinSent
  <2>3. QED
    BY <1>k, <2>1, <2>5, MapsToStutter
<1>14. CASE Crash
  <2>1. UNCHANGED node /\ PerhapsAFault
    BY <1>14, <1>m DEF Crash
  <2>2. QED
    BY <1>14, <1>i, <1>s, <2>1 DEF Crash
\* Only a Node that is being deleted is uninstalled.
<1>15. CASE UninstallSucceeds
  <2>1. node.exists /\ node.deleting /\ UNCHANGED node /\ PerhapsAFault /\ host' = NoUnit
    BY <1>0, <1>15, <1>n DEF UninstallSucceeds
  <2>2. Declared = "withdrawn" /\ JoinSent' = FALSE
    BY <2>1, HostLemma DEF Declared, JoinSent
  <2>3. QED
    BY <1>k, <2>1, <2>2, MapsToUninstall
\* What the machine loses, it loses to a fault.
<1>l. ASSUME UNCHANGED node, faults' = faults + 1,
             (host'.cfg = host.cfg /\ Exists(host') = Exists(host)) \/ ~Exists(host')
      PROVE  Mapped
  <2>1. JoinSent' = JoinSent \/ JoinSent' = FALSE
    BY <1>l DEF JoinSent
  <2>2. PerhapsAFault
    BY <1>l DEF PerhapsAFault
  <2>3. QED
    BY <1>k, <1>l, <2>1, <2>2, MapsToStutter, MapsToLose
<1>16. CASE UninstallFails
  <2>1. host' = host \/ host' = Down(host) \/ host' = NoUnit
    BY <1>16 DEF UninstallFails, PartialUninstalls
  <2>2. UNCHANGED node /\ faults' = faults + 1
    BY <1>16, <1>m DEF UninstallFails
  <2>3. QED
    BY <1>0, <1>l, <2>1, <2>2, HostLemma DEF Exists
<1>17. CASE UnitFails \/ HostWiped
  <2>1. host' = Restarted(host) \/ host' = Down(host) \/ host' = NoUnit
    BY <1>17 DEF UnitFails, HostWiped
  <2>2. UNCHANGED node /\ faults' = faults + 1
    BY <1>17, <1>m DEF UnitFails, HostWiped
  <2>3. QED
    BY <1>0, <1>l, <2>1, <2>2, HostLemma DEF Exists
<1>18. CASE UnitStarts \/ UnitLosesServer
  <2>1. host' = Started(host) \/ host' = Restarted(host)
    BY <1>18 DEF UnitStarts, UnitLosesServer
  <2>2. JoinSent' = JoinSent
    BY <1>0, <2>1, HostLemma DEF JoinSent, Exists
  <2>3. QED
    BY <1>18, <1>k, <1>n, <2>2, MapsToStutter DEF UnitStarts, UnitLosesServer
<1>19. CASE UNCHANGED vars
  BY <1>19, <1>s DEF vars, PerhapsAFault
<1>22. QED
  BY <1>1, <1>2, <1>3, <1>4, <1>5, <1>6, <1>7, <1>8, <1>9, <1>10, <1>11, <1>12, <1>13, <1>14,
     <1>15, <1>16, <1>17, <1>18, <1>19, <1>21
     DEF Next, Users, Servers, Progress, Failures

LEMMA RefinementInit == ASSUME Init PROVE Lifecycle!Init
<1>1. PICK c \in Configs : node = [NoNode EXCEPT !.exists = TRUE, !.cfg = c]
  BY DEF Init
<1>2. node.exists /\ ~node.deleting /\ ~node.fin
  BY <1>1 DEF NoNode
<1>3. host.cfg = NoJoin /\ faults = 0
  BY HostLemma DEF Init
<1>4. QED
  BY <1>2, <1>3 DEF Lifecycle!Init

\* A copy with a deletionTimestamp stays right until the worker lets go of it.
THEOREM NodeDeletionIsRemembered == Spec => []DeletionInv
<1>1. TypeInv /\ NodeInv /\ DeletionInv /\ [Next]_vars => DeletionInv'
  BY DeletionStep
<1>2. Init => TypeInv /\ DeletionInv
  BY TypeInit, DeletionInit
<1>3. TypeInv /\ [Next]_vars => TypeInv'
  BY TypeStep
<1>4. QED
  BY <1>1, <1>2, <1>3, NodeProtection, PTL DEF Spec

\* The Node controllers keep the promise of ManagedResource: a machine is joined
\* only under the finalizer and uninstalled only for a Node that is going, which
\* does not go before that, whatever faults strike.
THEOREM NodeKeepsThePromise == Spec => KeepsThePromise
<1>1. TypeInv /\ NodeInv /\ DeletionInv /\ [Next]_vars => [Lifecycle!Next]_(Lifecycle!vars)
  BY RefinementStep DEF Mapped
<1>2. Init => TypeInv /\ Lifecycle!Init
  BY TypeInit, RefinementInit
<1>3. TypeInv /\ [Next]_vars => TypeInv'
  BY TypeStep
<1>4. QED
  BY <1>1, <1>2, <1>3, NodeProtection, NodeDeletionIsRemembered, PTL
     DEF Spec, KeepsThePromise, Lifecycle!Spec

-----------------------------------------------------------------------------
(* Verdicts.                                                               *)

LEMMA NodeNumbers ==
    /\ NoConfig = 0 /\ NoNode.cfg = 0 /\ NoNode.ann = 0
    /\ \A o \in Nodes : o.cfg \in Nat /\ o.ann \in Nat
    /\ \A h \in Hosts : Sent(h) \in Nat /\ h.runs.cfg \in Nat
    /\ \A j \in Joins : j.cfg \in Nat \ {0}
<1>1. \A c \in Configs \cup {NoConfig} : c \in Nat
  BY NodeConfigsAssumption DEF NoConfig
<1>2. \A j \in Joins \cup {NoJoin} : j.cfg \in Configs \cup {NoConfig}
  BY DEF Joins, NoJoin
<1>3. \A h \in Hosts : h.cfg \in Joins \cup {NoJoin} /\ h.runs \in Joins \cup {NoJoin}
  BY DEF Hosts, ConfigOrNone
<1>4. \A o \in Nodes : o.cfg \in Configs \cup {NoConfig} /\ o.ann \in Configs \cup {NoConfig}
  BY DEF Nodes
<1>5. \A j \in Joins : j.cfg \in Nat \ {0}
  BY NodeConfigsAssumption DEF Joins
<1>6. QED
  BY <1>1, <1>2, <1>3, <1>4, <1>5 DEF NoConfig, NoNode, Sent

\* What became of the flags and of the process that runs.
LEMMA SentLemma ==
    /\ Sent(NoUnit) = 0 /\ Sent(Adopted) = 0
    /\ \A h \in Hosts :
         /\ Sent(Started(h)) = Sent(h) /\ Sent(Restarted(h)) = Sent(h) /\ Sent(Down(h)) = Sent(h)
         /\ \A j \in Joins : Sent(Written(h, j)) = j.cfg /\ Sent(Installed(h, j)) = j.cfg
<1>1. NoJoin.cfg = 0
  BY JoinedLemma DEF NoConfig
<1>2. QED
  BY <1>1, HostLemma DEF Sent

\* What is recorded stays true of a unit that is started, restarted, stopped or
\* removed, and of one that is sent something newer or the same again.
LEMMA RecordedLemma ==
    ASSUME NEW h \in Hosts, NEW a \in Nat
    PROVE  /\ Recorded(h, 0) /\ Recorded(NoUnit, a)
           /\ Recorded(h, a) => /\ Recorded(Started(h), a) /\ Recorded(Restarted(h), a)
                                /\ Recorded(Down(h), a)
           /\ \A j \in Joins : a =< j.cfg => Recorded(Installed(h, j), a)
           /\ \A j \in Joins :
                Recorded(h, a) /\ (~Exists(h) => ~Ready(h)) /\ a =< j.cfg /\ Sent(h) =< j.cfg
                  => Recorded(Written(h, j), a)
<1>n. Sent(h) \in Nat /\ h.runs.cfg \in Nat /\ NoConfig = 0 /\ \A j \in Joins : j.cfg \in Nat
  BY NodeNumbers
<1>1. Recorded(h, 0) /\ Recorded(NoUnit, a)
  BY <1>n, HostLemma DEF Recorded
<1>2. ASSUME Recorded(h, a) PROVE Recorded(Started(h), a)
  <2>1. Started(h).runs.cfg = Sent(h) /\ Sent(Started(h)) = Sent(h) /\ Exists(Started(h)) = Exists(h)
    BY HostLemma, SentLemma DEF Started, Hosts, Sent
  <2>2. QED
    BY <1>2, <1>n, <2>1 DEF Recorded
<1>3. ASSUME Recorded(h, a), NEW g, g = Restarted(h) \/ g = Down(h) PROVE Recorded(g, a)
  <2>1. Sent(g) = Sent(h) /\ Exists(g) = Exists(h)
    BY <1>3, HostLemma, SentLemma
  <2>2. ~Ready(g)
    BY <1>3 DEF Ready, Restarted, Down, Hosts
  <2>3. QED
    BY <1>3, <1>n, <2>1, <2>2 DEF Recorded
<1>4. ASSUME NEW j \in Joins, a =< j.cfg PROVE Recorded(Installed(h, j), a)
  <2>1. Sent(Installed(h, j)) = j.cfg
    BY SentLemma
  <2>2. ~Ready(Installed(h, j))
    BY DEF Ready, Installed, Restarted, Written, Hosts
  <2>3. QED
    BY <1>4, <2>1, <2>2 DEF Recorded
<1>5. ASSUME NEW j \in Joins, Recorded(h, a), ~Exists(h) => ~Ready(h), a =< j.cfg, Sent(h) =< j.cfg
      PROVE  Recorded(Written(h, j), a)
  <2>1. Sent(Written(h, j)) = j.cfg
    BY SentLemma
  <2>2. Ready(Written(h, j)) = Ready(h) /\ Written(h, j).runs = h.runs
    BY DEF Ready, Written, Hosts
  <2>3. ASSUME a # 0, a = j.cfg, Ready(h) PROVE h.runs.cfg = a
    <3>1. Exists(h)
      BY <1>5, <2>3
    <3>2. a =< Sent(h) /\ (a = Sent(h) => h.runs.cfg = a)
      BY <1>5, <1>n, <2>3, <3>1 DEF Recorded
    <3>3. QED
      BY <1>5, <1>n, <2>3, <3>2
  <2>4. QED
    BY <1>5, <1>n, <2>1, <2>2, <2>3 DEF Recorded
<1>6. QED
  BY <1>1, <1>2, <1>3, <1>4, <1>5

\* A machine without the unit runs nothing, whatever became of it.
LEMMA DownLemma ==
    ASSUME NEW h \in Hosts, ~Exists(h) => h.state = "down"
    PROVE  /\ ~Exists(h) => ~Ready(h)
           /\ \A g \in {Restarted(h), Down(h)} : Exists(h) => (~Exists(g) => g.state = "down")
           /\ ~Exists(Down(h)) => Down(h).state = "down"
           /\ h.state = "activating" => (~Exists(Started(h)) => Started(h).state = "down")
           /\ ~Exists(NoUnit) => NoUnit.state = "down"
           /\ \A j \in Joins : Exists(Written(h, j)) /\ Exists(Installed(h, j))
BY JoinedLemma DEF Hosts, Exists, Ready, Restarted, Down, Started, NoUnit

LEMMA VerdictInit == ASSUME Init PROVE VerdictInv
<1>1. PICK c \in Configs : node = [NoNode EXCEPT !.exists = TRUE, !.cfg = c]
  BY DEF Init
<1>2. node.cfg = c /\ node.ann = 0 /\ c \in Nat
  BY <1>1, NodeConfigsAssumption DEF NoNode, NoConfig
<1>3. pc = "idle" /\ cr = NoNode /\ host \in {NoUnit, Adopted} /\ host \in Hosts
  BY HostLemma DEF Init
<1>4. cr.cfg = 0 /\ cr.ann = 0 /\ Sent(host) = 0
  BY <1>3, NodeNumbers, SentLemma
<1>5. Recorded(host, 0)
  BY <1>3, RecordedLemma
<1>6. ~Exists(host) => host.state = "down"
  <2>1. NoUnit.state = "down" /\ Exists(Adopted)
    BY DEF NoUnit, Adopted, Exists
  <2>2. QED
    BY <1>3, <2>1
<1>7. QED
  BY <1>2, <1>3, <1>4, <1>5, <1>6 DEF VerdictInv, ConfigsGrow

\* Doubt does not go away again.
LEMMA DoubtStays == ASSUME [Next]_vars, doubt PROVE doubt'
<1>1. \A kind : Fault(kind) => doubt'
  BY DEF Fault
<1>2. \A back : Edit(back) => doubt'
  BY DEF Edit
<1>3. UNCHANGED budgets => doubt'
  BY DEF budgets
<1>4. CASE Users
  BY <1>2, <1>4 DEF Users, CreateNode, EditNode, DeleteNode, UserWrites, UserCreatesCluster,
     UserDeletesCluster
<1>5. CASE Servers \/ UnitStarts \/ UnitLosesServer
  BY <1>3, <1>5 DEF Servers, ServerInstalled, PublishDetails, UnitStarts, UnitLosesServer
<1>6. CASE Progress
  BY <1>3, <1>6 DEF Progress, StartReconcile, ResolveReferences, NothingToResolve, Connect, Observe,
     AddFinalizer, RemoveFinalizer, Conflict, JoinRefused, JoinSucceeds, Persist, UninstallSucceeds
<1>7. CASE Failures
  BY <1>1, <1>7 DEF Failures, ResolveFails, ConnectFails, ObserveFails, UpdateFails, JoinMasked,
     JoinFails, PersistFails, UninstallFails, Crash, UnitFails, HostWiped, ServerLost
<1>8. CASE UNCHANGED vars
  BY <1>8 DEF vars
<1>9. QED
  BY <1>4, <1>5, <1>6, <1>7, <1>8 DEF Next

LEMMA VerdictStep ==
    ASSUME TypeInv, NodeInv, VerdictInv, [Next]_vars, ~doubt'
    PROVE  VerdictInv'
<1> DEFINE Whole(h) == ~Exists(h) => h.state = "down"
           Grows(n, p, c, h) == /\ n.ann =< n.cfg /\ c.ann =< c.cfg /\ c.cfg =< n.cfg
                                /\ Sent(h) =< n.cfg
                                /\ p # "idle" => n.ann =< c.cfg /\ Sent(h) =< c.cfg
           True(n, p, c, h) == /\ Recorded(h, n.ann) /\ Recorded(h, c.ann)
                               /\ p = "persist" => Recorded(h, c.cfg)
           Good(n, p, c, h) == Grows(n, p, c, h) /\ True(n, p, c, h) /\ Whole(h)
<1>0. /\ node \in Nodes /\ cr \in Nodes /\ host \in Hosts /\ (fresh => cr = node)
      /\ Good(node, pc, cr, host)
  BY DEF TypeInv, TypeOK, NodeInv, FreshIsCurrent, VerdictInv, ConfigsGrow
<1>t. node' \in Nodes /\ cr' \in Nodes /\ host' \in Hosts
  BY TypeStep DEF TypeInv, TypeOK
<1>s. SUFFICES Good(node', pc', cr', host')
  BY DEF VerdictInv, ConfigsGrow, Recorded, Sent, Exists, Ready
<1>j. Sending => joinParamsFor(cr, conn) \in Joins /\ joinParamsFor(cr, conn).cfg = cr.cfg
  <2>1. Sending => joinParamsFor(cr, conn) \in Joins
    BY DEF TypeInv, TypeOK, AsksForSomething, Sending, joinParamsFor, Joins, Connections
  <2>2. QED
    BY <2>1 DEF joinParamsFor
<1>n. /\ node.cfg \in Nat /\ node.ann \in Nat /\ cr.cfg \in Nat /\ cr.ann \in Nat
      /\ Sent(host) \in Nat /\ node'.cfg \in Nat /\ node'.ann \in Nat /\ Sent(host') \in Nat
      /\ NoNode.cfg = 0 /\ NoNode.ann = 0 /\ NoConfig = 0
  BY <1>0, <1>t, NodeNumbers
<1>z. Recorded(host', 0)
  BY <1>t, RecordedLemma
<1> HIDE DEF Grows, True, Whole, Good
<1>g. Grows(node, pc, cr, host) /\ True(node, pc, cr, host) /\ Whole(host)
  BY <1>0 DEF Good
\* The reconcile ends, and nothing but the Node and its machine is left to ask about.
<1>e. ASSUME EndReconcile, node'.ann =< node'.cfg, Sent(host') =< node'.cfg,
             Recorded(host', node'.ann), Whole(host')
      PROVE  Good(node', pc', cr', host')
  <2>1. pc' = "idle" /\ cr'.cfg = 0 /\ cr'.ann = 0
    BY <1>e, <1>n DEF EndReconcile
  <2>2. Grows(node', pc', cr', host')
    BY <1>e, <1>n, <2>1 DEF Grows
  <2>3. True(node', pc', cr', host')
    BY <1>e, <1>z, <2>1 DEF True
  <2>4. QED
    BY <1>e, <2>2, <2>3 DEF Good
<1>f. ASSUME EndReconcile, UNCHANGED host, node'.cfg = node.cfg, node'.ann \in {node.ann, 0}
      PROVE  Good(node', pc', cr', host')
  <2>1. node'.ann =< node'.cfg /\ Sent(host') =< node'.cfg
    BY <1>f, <1>g, <1>n DEF Grows
  <2>2. Recorded(host', node'.ann) /\ Whole(host')
    BY <1>f, <1>g, <1>z DEF True
  <2>3. QED
    BY <1>e, <1>f, <2>1, <2>2
\* The machine by itself.
<1>m. ASSUME UNCHANGED <<node, pc, cr>>,
             \/ host' = host \/ host' = Down(host) \/ host' = NoUnit
             \/ host' = Started(host) /\ host.state = "activating"
             \/ host' = Restarted(host) /\ Ready(host)
      PROVE  Good(node', pc', cr', host')
  <2>1. \A a \in Nat : Recorded(host, a) => Recorded(host', a)
    BY <1>0, <1>m, RecordedLemma
  <2>2. Sent(host') = Sent(host) \/ Sent(host') = 0
    BY <1>0, <1>m, SentLemma
  <2>3. Whole(host')
    BY <1>0, <1>g, <1>m, DownLemma DEF Whole
  <2>4. Grows(node', pc', cr', host')
    BY <1>g, <1>m, <1>n, <2>2 DEF Grows
  <2>5. True(node', pc', cr', host')
    BY <1>g, <1>m, <1>n, <2>1 DEF True
  <2>6. QED
    BY <2>3, <2>4, <2>5 DEF Good
<1>1. CASE UnitStarts \/ UnitLosesServer \/ UnitFails \/ HostWiped \/ UNCHANGED vars
  BY <1>1, <1>m DEF UnitStarts, UnitLosesServer, UnitFails, HostWiped, local, vars
<1>2. CASE Servers
  BY <1>2, <1>m DEF Servers, ServerInstalled, PublishDetails, local
<1>3. ASSUME NEW n \in Namespaces, UserCreatesCluster(n) \/ UserDeletesCluster(n) \/ ServerLost(n)
      PROVE  Good(node', pc', cr', host')
  BY <1>3, <1>m DEF UserCreatesCluster, UserDeletesCluster, ServerLost, local
\* Users of the Node ask for something newer, and record nothing.
<1>v. ASSUME NEW o, UserWrites(o) PROVE node.cfg =< node'.cfg
  <2>1. node' = o /\ ~(o.cfg < node.cfg)
    BY <1>v DEF UserWrites, Edit
  <2>2. QED
    BY <1>n, <2>1
<1>u. ASSUME UNCHANGED <<pc, cr, host>>, node.cfg =< node'.cfg, node'.ann \in {node.ann, 0}
      PROVE  Good(node', pc', cr', host')
  <2>1. Grows(node', pc', cr', host')
    BY <1>u, <1>g, <1>n DEF Grows
  <2>2. True(node', pc', cr', host') /\ Whole(host')
    BY <1>u, <1>g, <1>z DEF True
  <2>3. QED
    BY <2>1, <2>2 DEF Good
<1>4. CASE CreateNode
  <2>1. PICK c \in Configs : UserWrites([NoNode EXCEPT !.exists = TRUE, !.cfg = c])
    BY <1>4 DEF CreateNode
  <2>2. node'.cfg = c /\ node'.ann = NoConfig /\ UNCHANGED <<pc, cr, host>>
    BY <2>1 DEF UserWrites, NoNode
  <2>3. node.cfg =< node'.cfg
    BY <1>n, <1>v, <2>1
  <2>4. QED
    BY <1>n, <1>u, <2>2, <2>3
<1>5. CASE EditNode
  <2>1. PICK c \in Configs : UserWrites([node EXCEPT !.cfg = c])
    BY <1>5 DEF EditNode
  <2>2. node'.cfg = c /\ node'.ann = node.ann /\ UNCHANGED <<pc, cr, host>>
    BY <1>0, <2>1 DEF UserWrites, Nodes
  <2>3. node.cfg =< node'.cfg
    BY <1>n, <1>v, <2>1
  <2>4. QED
    BY <1>n, <1>u, <2>2, <2>3
<1>6. CASE DeleteNode
  <2>1. UNCHANGED <<pc, cr, host>> /\ (node' = [node EXCEPT !.deleting = TRUE] \/ node' = Gone(node))
    BY <1>6 DEF DeleteNode, UserWrites
  <2>2. node'.cfg = node.cfg /\ node'.ann \in {node.ann, 0}
    BY <1>0, <2>1 DEF Gone, NoNode, NoConfig, Nodes
  <2>3. QED
    BY <1>n, <1>u, <2>1, <2>2
\* A copy is taken of the object.
<1>c. ASSUME node'.cfg = node.cfg, node'.ann = node.ann, cr' = node', pc' # "persist", UNCHANGED host
      PROVE  Good(node', pc', cr', host')
  <2>1. Grows(node', pc', cr', host')
    BY <1>c, <1>g, <1>n DEF Grows
  <2>2. True(node', pc', cr', host') /\ Whole(host')
    BY <1>c, <1>g DEF True
  <2>3. QED
    BY <2>1, <2>2 DEF Good
<1>7. CASE StartReconcile
  BY <1>7, <1>c DEF StartReconcile
<1>p. /\ patched(node).cfg = node.cfg /\ patched(node).ann = node.ann
      /\ persisted(node).cfg = node.cfg /\ persisted(node).ann = cr.cfg
      /\ Protected(node).cfg = node.cfg /\ Protected(node).ann = node.ann
      /\ Gone(node).cfg = node.cfg /\ Gone(node).ann = 0
  BY <1>0 DEF patched, persisted, Protected, Gone, NoNode, NoConfig, Nodes
<1>8. CASE ResolveReferences
  <2>1. CASE node.exists
    BY <1>8, <1>c, <1>p, <2>1 DEF ResolveReferences
  <2>2. CASE ~node.exists
    BY <1>8, <1>f, <2>2 DEF ResolveReferences
  <2>3. QED
    BY <2>1, <2>2
\* The worker goes on with the copy it has.
<1>k. ASSUME UNCHANGED <<node, cr, host>>, pc # "idle", pc' # "persist"
      PROVE  Good(node', pc', cr', host')
  <2>1. Grows(node', pc', cr', host')
    BY <1>g, <1>k DEF Grows
  <2>2. True(node', pc', cr', host') /\ Whole(host')
    BY <1>g, <1>k DEF True
  <2>3. QED
    BY <2>1, <2>2 DEF Good
<1>9. CASE NothingToResolve \/ Connect
  <2>1. UNCHANGED <<node, host>> /\ pc # "idle"
    BY <1>9 DEF NothingToResolve, Connect
  <2>2. EndReconcile \/ (UNCHANGED cr /\ pc' # "persist")
    BY <1>9 DEF NothingToResolve, Connect, Connected, Step
  <2>3. QED
    BY <1>f, <1>k, <2>1, <2>2
<1>10. CASE Observe
  <2>1. UNCHANGED <<node, host>> /\ pc # "idle"
    BY <1>10 DEF Observe
  <2>2. EndReconcile \/ (UNCHANGED cr /\ pc' # "persist")
    BY <1>10, GoToLemma, NextStepLemma DEF Observe
  <2>3. QED
    BY <1>f, <1>k, <2>1, <2>2
<1>11. CASE AddFinalizer
  <2>1. node' = Protected(node) /\ UNCHANGED host
    BY <1>0, <1>11 DEF AddFinalizer
  <2>2. EndReconcile \/ (cr' = node' /\ pc' # "persist")
    BY <1>11, GoToLemma, NextStepLemma DEF AddFinalizer
  <2>3. QED
    BY <1>c, <1>f, <1>p, <2>1, <2>2
<1>12. CASE RemoveFinalizer \/ UpdateFails
  <2>1. EndReconcile /\ UNCHANGED host /\ fresh
        /\ (node' = node \/ node' = Protected(cr) \/ node' = Gone(cr))
    BY <1>12 DEF RemoveFinalizer, UpdateFails
  <2>2. node'.cfg = node.cfg /\ node'.ann \in {node.ann, 0}
    BY <1>0, <1>p, <2>1
  <2>3. QED
    BY <1>f, <2>1, <2>2
<1>13. CASE Conflict \/ ConnectFails \/ ObserveFails \/ ResolveFails \/ JoinRefused
  <2>1. EndReconcile /\ UNCHANGED host /\ (node' = node \/ node' = patched(node))
    BY <1>13 DEF Conflict, ConnectFails, ObserveFails, ResolveFails, JoinRefused
  <2>2. QED
    BY <1>f, <1>p, <2>1
\* A join sends what the copy asks for, which is not older than what was recorded.
<1>q. ASSUME Sending, NEW a \in Nat, a =< cr.cfg, Recorded(host, a),
             host' \in PartialInstalls(host, joinParamsFor(cr, conn))
      PROVE  Recorded(host', a) /\ Sent(host') =< node.cfg /\ Whole(host')
  <2> DEFINE j == joinParamsFor(cr, conn)
  <2>1. j \in Joins /\ j.cfg = cr.cfg /\ Sent(host) =< cr.cfg /\ cr.cfg =< node.cfg
        /\ Sent(host) =< node.cfg
    BY <1>g, <1>j, <1>q DEF Sending, Grows
  <2>2. host' = host \/ host' = Written(host, j) \/ host' = Installed(host, j)
    BY <1>q DEF PartialInstalls
  <2>3. (~Exists(host) => ~Ready(host)) /\ (Exists(host') \/ host' = host)
    BY <1>0, <1>g, <2>1, <2>2, DownLemma DEF Whole
  <2>4. Recorded(host', a)
    <3> HIDE DEF j
    <3> QED
      BY <1>0, <1>q, <2>1, <2>2, <2>3, RecordedLemma
  <2>5. Sent(host') =< node.cfg
    <3> HIDE DEF j
    <3> QED
      BY <1>0, <2>1, <2>2, SentLemma
  <2>6. Whole(host')
    BY <1>g, <2>3 DEF Whole
  <2>7. QED
    BY <2>4, <2>5, <2>6
<1>r. Sending => node.ann =< cr.cfg /\ Recorded(host, node.ann) /\ node.ann =< node.cfg
                 /\ cr.ann =< cr.cfg /\ Recorded(host, cr.ann) /\ cr.cfg =< node.cfg
  BY <1>g DEF Sending, Grows, True
<1>14. CASE JoinFails \/ Crash
  <2>1. EndReconcile /\ UNCHANGED node
    BY <1>14 DEF JoinFails, Crash
  <2>2. CASE host' = host
    BY <1>f, <2>1, <2>2
  <2>3. CASE Sending /\ host' \in PartialInstalls(host, joinParamsFor(cr, conn))
    BY <1>e, <1>n, <1>q, <1>r, <2>1, <2>3
  <2>4. QED
    BY <1>14, <2>2, <2>3 DEF JoinFails, Crash
\* A masked download puts the verdict in doubt.
<1>19. ~JoinMasked
  BY DEF JoinMasked, Fault
<1>15. CASE JoinSucceeds
  <2> DEFINE j == joinParamsFor(cr, conn)
  <2>1. Sending /\ host' = Installed(host, j) /\ pc' = "persist" /\ UNCHANGED <<node, cr>>
    BY <1>15 DEF JoinSucceeds, Step
  <2>2. host' \in PartialInstalls(host, j)
    BY <2>1 DEF PartialInstalls
  <2>3. Whole(host') /\ Recorded(host', node.ann) /\ Recorded(host', cr.ann)
    BY <1>n, <1>q, <1>r, <2>1, <2>2
  <2>4. j \in Joins /\ j.cfg = cr.cfg
    BY <1>j, <2>1
  <2>5. Recorded(host', cr.cfg) /\ Sent(host') = cr.cfg
    <3> HIDE DEF j
    <3> QED
      BY <1>0, <1>n, <2>1, <2>4, RecordedLemma, SentLemma
  <2>6. Grows(node', pc', cr', host')
    BY <1>n, <1>r, <2>1, <2>5 DEF Grows
  <2>7. True(node', pc', cr', host')
    BY <2>1, <2>3, <2>5 DEF True
  <2>8. QED
    BY <2>3, <2>6, <2>7 DEF Good
\* What a completed join sent is recorded.
<1>16. CASE Persist \/ PersistFails
  <2>1. EndReconcile /\ UNCHANGED host /\ (node' = node \/ node' = persisted(node))
        /\ pc = "persist"
    BY <1>16 DEF Persist, PersistFails
  <2>2. CASE node' = node
    BY <1>f, <2>1, <2>2
  <2>3. CASE node' = persisted(node)
    <3>1. node'.cfg = node.cfg /\ node'.ann = cr.cfg
      BY <1>p, <2>3
    <3>2. cr.cfg =< node.cfg /\ Sent(host) =< node.cfg /\ Recorded(host, cr.cfg)
      BY <1>g, <2>1 DEF Grows, True
    <3>3. QED
      BY <1>e, <1>g, <2>1, <3>1, <3>2
  <2>4. QED
    BY <2>1, <2>2, <2>3
<1>17. CASE UninstallSucceeds \/ UninstallFails
  <2>1. EndReconcile /\ UNCHANGED node
        /\ (host' = host \/ host' = Down(host) \/ host' = NoUnit)
    BY <1>17 DEF UninstallSucceeds, UninstallFails, PartialUninstalls
  <2>2. Recorded(host', node.ann)
    BY <1>0, <1>g, <1>n, <2>1, RecordedLemma DEF True
  <2>3. Sent(host') = Sent(host) \/ Sent(host') = 0
    BY <1>0, <2>1, SentLemma
  <2>4. node.ann =< node.cfg /\ Sent(host') =< node.cfg
    BY <1>g, <1>n, <2>3 DEF Grows
  <2>5. Whole(host')
    BY <1>0, <1>g, <2>1, DownLemma DEF Whole
  <2>6. QED
    BY <1>e, <2>1, <2>2, <2>4, <2>5
<1>18. QED
  BY <1>1, <1>2, <1>3, <1>4, <1>5, <1>6, <1>7, <1>8, <1>9, <1>10, <1>11, <1>12, <1>13, <1>14,
     <1>15, <1>16, <1>17, <1>19
     DEF Next, Users, Progress, Failures

\* Unless a join script failed to download and was taken for run, or a user went
\* back to older flags, what was recorded, sent, read and asked for are in this
\* order, and what is recorded is what runs where it is also what was sent last.
\* Either of the two breaks it: see the README.
THEOREM NodeVerdicts == Spec => [](~doubt => VerdictInv)
<1>1. TypeInv /\ NodeInv /\ (~doubt => VerdictInv) /\ [Next]_vars => (~doubt => VerdictInv)'
  BY VerdictStep, DoubtStays
<1>2. Init => TypeInv /\ (~doubt => VerdictInv)
  BY TypeInit, VerdictInit
<1>3. TypeInv /\ [Next]_vars => TypeInv'
  BY TypeStep
<1>4. QED
  BY <1>1, <1>2, <1>3, NodeProtection, PTL DEF Spec

\* A Node is reported up to date only while its machine runs with the flags the
\* verdict was about, whatever faults struck before, if no download failed unseen
\* and no user went back: the hypothesis ~doubt is part of the property.
THEOREM NodeVerdictIsTrue == Spec => []UpToDateMeansJoined
<1>1. ASSUME TypeInv, ~doubt => VerdictInv PROVE UpToDateMeansJoined
  <2>1. SUFFICES ASSUME pc = "observe", Exists(host), Ready(host), nodeIsUpToDate(cr), VerdictInv
                 PROVE  host.runs.cfg = cr.cfg
    BY <1>1 DEF UpToDateMeansJoined, Observation
  <2>2. cr.ann # NoConfig /\ cr.ann = cr.cfg /\ Sent(host) =< cr.cfg /\ Recorded(host, cr.ann)
    BY <2>1 DEF VerdictInv, ConfigsGrow, nodeIsUpToDate
  <2>3. cr.ann =< Sent(host) /\ (cr.ann = Sent(host) => host.runs.cfg = cr.ann)
    BY <2>1, <2>2 DEF Recorded
  <2>4. cr.cfg \in Nat /\ Sent(host) \in Nat
    BY <1>1, NodeNumbers DEF TypeInv, TypeOK
  <2>5. QED
    BY <2>2, <2>3, <2>4
<1>2. Init => TypeInv
  BY TypeInit
<1>3. TypeInv /\ [Next]_vars => TypeInv'
  BY TypeStep
<1>4. QED
  BY <1>1, <1>2, <1>3, NodeVerdicts, PTL DEF Spec

-----------------------------------------------------------------------------
(* Tokens.                                                                 *)

\* No operation of the machine's makes a token up.
LEMMA TokenLemma ==
    /\ NoUnit.cfg.token = NoToken /\ NoUnit.runs.token = NoToken
    /\ Adopted.cfg.token = NoToken /\ Adopted.runs.token = NoToken
    /\ \A h \in Hosts : \A g \in {Started(h), Restarted(h), Down(h), NoUnit} :
         {g.cfg.token, g.runs.token} \subseteq {h.cfg.token, h.runs.token, NoToken}
    /\ \A h \in Hosts, j \in Joins : \A g \in {Written(h, j), Installed(h, j)} :
         {g.cfg.token, g.runs.token} \subseteq {j.token, h.runs.token, NoToken}
<1>1. NoJoin.token = NoToken
  BY DEF NoJoin
<1>2. /\ NoUnit.cfg.token = NoToken /\ NoUnit.runs.token = NoToken
      /\ Adopted.cfg.token = NoToken /\ Adopted.runs.token = NoToken
  BY <1>1 DEF NoUnit, Adopted
<1>3. ASSUME NEW h \in Hosts, NEW g \in {Started(h), Restarted(h), Down(h), NoUnit}
      PROVE  {g.cfg.token, g.runs.token} \subseteq {h.cfg.token, h.runs.token, NoToken}
  <2>1. g.cfg = h.cfg \/ g.cfg = NoJoin
    BY <1>3, HostLemma
  <2>2. g.runs = h.cfg \/ g.runs = NoJoin
    <3>1. Started(h).runs = h.cfg
      BY DEF Hosts, Started
    <3>2. Restarted(h).runs = NoJoin /\ Down(h).runs = NoJoin /\ NoUnit.runs = NoJoin
      BY DEF Hosts, Restarted, Down, NoUnit
    <3>3. QED
      BY <1>3, <3>1, <3>2
  <2>3. QED
    BY <1>1, <2>1, <2>2
<1>4. ASSUME NEW h \in Hosts, NEW j \in Joins, NEW g \in {Written(h, j), Installed(h, j)}
      PROVE  {g.cfg.token, g.runs.token} \subseteq {j.token, h.runs.token, NoToken}
  <2>1. g.cfg = j /\ g.runs \in {h.runs, NoJoin}
    BY <1>4 DEF Hosts, Written, Installed, Restarted
  <2>2. QED
    BY <1>1, <2>1
<1>5. QED
  BY <1>2, <1>3, <1>4

LEMMA MintedInit == ASSUME Init PROVE TokensInv
<1>1. ASSUME NEW n \in Namespaces
      PROVE  cluster[n].serving = NoToken /\ cluster[n].secret = NoToken
  <2>1. cluster[n] \in {NoCluster, [NoCluster EXCEPT !.exists = TRUE]}
    BY DEF Init
  <2>2. QED
    BY <2>1 DEF NoCluster
<1>2. conn.token = NoToken /\ host.cfg.token = NoToken /\ host.runs.token = NoToken
  BY TokenLemma DEF Init, NoConnection
<1>3. QED
  BY <1>1, <1>2 DEF TokensInv

LEMMA MintedStep == ASSUME TypeInv, TokensInv, [Next]_vars PROVE TokensInv'
<1> DEFINE Known(n) == MintedBy(n) \cup {NoToken}
           Published == \A n \in Namespaces : {cluster[n].serving, cluster[n].secret} \subseteq Known(n)
           Carried == conn.token \in Known(Home)
           Used == {host.cfg.token, host.runs.token} \subseteq Known(Home)
<1>0. /\ cluster \in [Namespaces -> Clusters] /\ minted \in [Namespaces -> Nat]
      /\ host \in Hosts /\ Home \in Namespaces
      /\ Published /\ Carried /\ Used
      /\ (Sending => joinParamsFor(cr, conn) \in Joins /\ joinParamsFor(cr, conn).token = conn.token)
  <2>1. Sending => joinParamsFor(cr, conn) \in Joins /\ joinParamsFor(cr, conn).token = conn.token
    BY DEF TypeInv, TypeOK, AsksForSomething, Sending, joinParamsFor, Joins, Connections
  <2>2. QED
    BY <2>1, NamespacesAssumption DEF TypeInv, TypeOK, TokensInv
<1>s. SUFFICES Published' /\ Carried' /\ Used'
  BY DEF TokensInv
<1>m. ASSUME UNCHANGED minted PROVE \A n \in Namespaces : Known(n)' = Known(n)
  BY <1>m DEF MintedBy
<1>z. \A n \in Namespaces : NoToken \in Known(n) /\ NoToken \in Known(n)'
  OBVIOUS
\* Nothing is minted, and no Cluster has anything it had not.
<1>w. ASSUME UNCHANGED world PROVE Published' /\ \A n \in Namespaces : Known(n)' = Known(n)
  BY <1>0, <1>m, <1>w DEF world
<1>e. ASSUME EndReconcile PROVE Carried'
  BY <1>e, <1>0, <1>z DEF EndReconcile, NoConnection
<1>k. ASSUME UNCHANGED world, EndReconcile \/ UNCHANGED conn PROVE Published' /\ Carried'
  BY <1>0, <1>e, <1>k, <1>w
<1>h. ASSUME UNCHANGED world,
             \/ host' = host \/ host' = Started(host) \/ host' = Restarted(host)
             \/ host' = Down(host) \/ host' = NoUnit
      PROVE  Used'
  <2>1. {host'.cfg.token, host'.runs.token} \subseteq {host.cfg.token, host.runs.token, NoToken}
    BY <1>0, <1>h, TokenLemma
  <2>2. QED
    BY <1>0, <1>h, <1>w, <1>z, <2>1
<1>j. ASSUME UNCHANGED world, Sending, host' \in PartialInstalls(host, joinParamsFor(cr, conn))
      PROVE  Used'
  <2> DEFINE j == joinParamsFor(cr, conn)
  <2>1. j \in Joins /\ j.token = conn.token
    BY <1>0, <1>j
  <2>2. host' = host \/ host' = Written(host, j) \/ host' = Installed(host, j)
    BY <1>j DEF PartialInstalls
  <2>3. CASE host' = host
    BY <1>h, <1>j, <2>3
  <2>4. CASE host' = Written(host, j) \/ host' = Installed(host, j)
    <3>1. {host'.cfg.token, host'.runs.token} \subseteq {conn.token, host.runs.token, NoToken}
      <4> HIDE DEF j
      <4> QED
        BY <1>0, <2>1, <2>4, TokenLemma
    <3>2. QED
      BY <1>0, <1>j, <1>w, <1>z, <3>1
  <2>5. QED
    BY <2>2, <2>3, <2>4
\* The Clusters: only one that is installed mints a token, and it mints its own.
<1>c. ASSUME NEW n \in Namespaces, NEW c, cluster' = [cluster EXCEPT ![n] = c],
             {c.serving, c.secret} \subseteq Known(n)',
             \A k \in Namespaces : Known(k) \subseteq Known(k)',
             UNCHANGED <<conn, host>>
      PROVE  Published' /\ Carried' /\ Used'
  BY <1>0, <1>c
<1>1. ASSUME NEW n \in Namespaces, UserCreatesCluster(n) \/ UserDeletesCluster(n)
      PROVE  Published' /\ Carried' /\ Used'
  <2>1. PICK c \in {NoCluster, [NoCluster EXCEPT !.exists = TRUE]} :
              cluster' = [cluster EXCEPT ![n] = c]
    BY <1>1 DEF UserCreatesCluster, UserDeletesCluster
  <2>2. c.serving = NoToken /\ c.secret = NoToken
    BY DEF NoCluster
  <2>3. UNCHANGED <<minted, conn, host>>
    BY <1>1 DEF UserCreatesCluster, UserDeletesCluster, local
  <2>4. QED
    BY <1>c, <1>m, <1>z, <2>1, <2>2, <2>3
<1>2. ASSUME NEW n \in Namespaces, ServerInstalled(n) PROVE Published' /\ Carried' /\ Used'
  <2> DEFINE t == [of |-> n, nr |-> minted[n] + 1]
             c == [cluster[n] EXCEPT !.serving = t]
  <2>1. /\ minted' = [minted EXCEPT ![n] = @ + 1] /\ UNCHANGED <<conn, host>>
        /\ minted'[n] = minted[n] + 1
    BY <1>0, <1>2 DEF ServerInstalled, local
  <2>2. cluster' = [cluster EXCEPT ![n] = c]
    BY <1>2, <2>1 DEF ServerInstalled
  <2>3. \A k \in Namespaces : Known(k) \subseteq Known(k)'
    BY <1>0, <2>1 DEF MintedBy
  <2>4. t \in Known(n)'
    BY <1>0, <2>1 DEF MintedBy
  <2>5. c.serving = t /\ c.secret = cluster[n].secret
    BY <1>0 DEF Clusters
  <2>6. {c.serving, c.secret} \subseteq Known(n)'
    BY <1>0, <2>3, <2>4, <2>5
  <2>7. QED
    BY <1>c, <2>1, <2>2, <2>3, <2>6
<1>3. ASSUME NEW n \in Namespaces, PublishDetails(n) \/ ServerLost(n)
      PROVE  Published' /\ Carried' /\ Used'
  <2>1. PICK c \in {[cluster[n] EXCEPT !.secret = cluster[n].serving],
                    [cluster[n] EXCEPT !.serving = NoToken]} :
              cluster' = [cluster EXCEPT ![n] = c]
    BY <1>3 DEF PublishDetails, ServerLost
  <2>2. {c.serving, c.secret} \subseteq {cluster[n].serving, cluster[n].secret, NoToken}
    BY <1>0 DEF Clusters
  <2>3. UNCHANGED <<minted, conn, host>>
    BY <1>3 DEF PublishDetails, ServerLost, local
  <2>4. QED
    BY <1>0, <1>c, <1>m, <1>z, <2>1, <2>2, <2>3
<1>4. CASE CreateNode \/ EditNode \/ DeleteNode
  <2>1. UNCHANGED <<world, conn, host>>
    BY <1>4 DEF CreateNode, EditNode, DeleteNode, UserWrites
  <2>2. QED
    BY <1>h, <1>k, <2>1
<1>5. CASE UnitStarts \/ UnitLosesServer \/ UnitFails \/ HostWiped \/ UNCHANGED vars
  BY <1>5, <1>h, <1>k DEF UnitStarts, UnitLosesServer, UnitFails, HostWiped, local, vars, world
<1>6. CASE StartReconcile \/ NothingToResolve \/ ResolveReferences \/ ResolveFails \/ ConnectFails
  BY <1>6, <1>h, <1>k DEF StartReconcile, NothingToResolve, ResolveReferences, ResolveFails,
     ConnectFails, Step
\* Connect reads the secret of the Cluster in the Node's own namespace.
<1>7. CASE Connect
  <2>1. conn'.token \in {cluster[Home].secret, NoToken} /\ UNCHANGED <<world, host>>
    BY <1>7 DEF Connect, resolveClusterInfo, NoConnection
  <2>2. QED
    BY <1>0, <1>h, <1>w, <1>z, <2>1
<1>8. CASE Observe \/ AddFinalizer
  <2>1. UNCHANGED <<world, host>>
    BY <1>8 DEF Observe, AddFinalizer
  <2>2. EndReconcile \/ UNCHANGED conn
    BY <1>8 DEF Observe, AddFinalizer, GoTo
  <2>3. QED
    BY <1>h, <1>k, <2>1, <2>2
<1>9. CASE ObserveFails \/ RemoveFinalizer \/ UpdateFails \/ Conflict \/ JoinRefused \/ Persist \/ PersistFails
  BY <1>9, <1>h, <1>k DEF ObserveFails, RemoveFinalizer, UpdateFails, Conflict, JoinRefused,
     Persist, PersistFails
<1>10. CASE UninstallSucceeds \/ UninstallFails
  BY <1>10, <1>h, <1>k DEF UninstallSucceeds, UninstallFails, PartialUninstalls
<1>14. CASE JoinMasked
  <2>1. UNCHANGED world /\ (EndReconcile \/ UNCHANGED conn)
        /\ (host' = host \/ host' = Restarted(host))
    BY <1>14 DEF JoinMasked, Step
  <2>2. QED
    BY <1>h, <1>k, <2>1
<1>11. CASE JoinSucceeds
  <2>1. UNCHANGED world /\ UNCHANGED conn /\ Sending
        /\ host' \in PartialInstalls(host, joinParamsFor(cr, conn))
    BY <1>11 DEF JoinSucceeds, Step, PartialInstalls
  <2>2. QED
    BY <1>j, <1>k, <2>1
<1>12. CASE JoinFails \/ Crash
  <2>1. UNCHANGED world /\ EndReconcile
        /\ (host' = host \/ (Sending /\ host' \in PartialInstalls(host, joinParamsFor(cr, conn))))
    BY <1>12 DEF JoinFails, Crash
  <2>2. QED
    BY <1>h, <1>j, <1>k, <2>1
<1>13. QED
  BY <1>1, <1>2, <1>3, <1>4, <1>5, <1>6, <1>7, <1>8, <1>9, <1>10, <1>11, <1>12, <1>14
     DEF Next, Users, Servers, Progress, Failures

\* No token is taken for another Cluster's: what a machine was joined with, or
\* would be next, was minted by a server of the Cluster in the Node's namespace.
THEOREM TokensAreTheClusters == Spec => []TokensInv
<1>1. TypeInv /\ TokensInv /\ [Next]_vars => TypeInv' /\ TokensInv'
  BY TypeStep, MintedStep
<1>2. Init => TypeInv /\ TokensInv
  BY TypeInit, MintedInit
<1>3. QED
  BY <1>1, <1>2, PTL DEF Spec

\* Where the reference is required, a machine is only ever joined to the Cluster
\* in the Node's own namespace, whatever namespace the reference names.
THEOREM NodeJoinsItsCluster == ASSUME ~Optional PROVE Spec => []JoinsItsCluster
<1>1. TokensInv /\ NeverJoinsNothing => JoinsItsCluster
  BY DEF TokensInv, NeverJoinsNothing, JoinsItsCluster
<1>2. QED
  BY <1>1, NoBlindJoin, TokensAreTheClusters, PTL
-----------------------------------------------------------------------------
(* Stability.                                                              *)

\* What moves a budget is no part of it.
LEMMA BudgetLemma ==
    ASSUME TypeOK, UNCHANGED budgets
    PROVE  ~Users /\ \A k : ~Fault(k)
<1>1. edits + 1 # edits /\ faults + 1 # faults
  BY DEF TypeOK
<1>2. (\A back : ~Edit(back)) /\ \A k : ~Fault(k)
  BY <1>1 DEF Edit, Fault, budgets
<1>3. QED
  BY <1>2 DEF Users, CreateNode, EditNode, DeleteNode, UserWrites, UserCreatesCluster, UserDeletesCluster

\* A server that comes up takes no other one's place.
LEMMA ServingGrows ==
    ASSUME TypeOK, Servers
    PROVE  Serving \subseteq Serving' /\ UNCHANGED <<node, local, host>>
<1>1. PICK n \in Namespaces : ServerInstalled(n) \/ PublishDetails(n)
  BY DEF Servers
<1>2. \A k \in Namespaces : cluster[k].serving # NoToken => cluster'[k].serving = cluster[k].serving
  <2>1. ASSUME NEW k \in Namespaces, cluster[k].serving # NoToken
        PROVE  cluster'[k].serving = cluster[k].serving
    <3>1. cluster[k] \in Clusters /\ cluster[n] \in Clusters
      BY DEF TypeOK
    <3>2. CASE ServerInstalled(n)
      BY <2>1, <3>1, <3>2 DEF ServerInstalled, TypeOK, Clusters
    <3>3. CASE PublishDetails(n)
      BY <2>1, <3>1, <3>3 DEF PublishDetails, TypeOK, Clusters
    <3>4. QED
      BY <1>1, <3>2, <3>3
  <2>2. QED
    BY <2>1
<1>3. Serving \subseteq Serving'
  BY <1>2 DEF Serving
<1>4. QED
  BY <1>1, <1>3 DEF ServerInstalled, PublishDetails

\* A settled Node stays settled, and the Node and its machine as they are, until a
\* user or a fault comes along.
THEOREM NodeSettledStays == Spec => SettledStays
<1>1. ASSUME TypeOK, [Next]_vars, Settled, UNCHANGED budgets
      PROVE  UNCHANGED <<node, host>> /\ Settled'
  <2>1. ~Users /\ \A k : ~Fault(k)
    BY <1>1, BudgetLemma
  <2>2. pc \in {"idle", "connect", "observe"} /\ host.state = "active"
        /\ (host.runs = NoJoin \/ host.runs.token \in Serving)
    BY <1>1 DEF Settled, Ready
  <2>3. ASSUME UNCHANGED <<node, host>>, Serving \subseteq Serving',
               pc' = "idle" \/ (pc' \in {"connect", "observe"} /\ cr' = node)
        PROVE  Settled'
    BY <1>1, <2>3 DEF Settled, nodeIsUpToDate, Exists, Ready
  <2>4. CASE UNCHANGED vars
    BY <1>1, <2>3, <2>4 DEF vars, Serving, Settled
  <2>5. CASE Servers
    BY <1>1, <2>3, <2>5, ServingGrows DEF local, Settled
  <2>6. CASE StartReconcile
    BY <1>1, <2>3, <2>6 DEF StartReconcile, NeedsResolution, world, Serving, Settled
  <2>7. CASE Connect
    BY <1>1, <2>3, <2>7 DEF Connect, Connected, world, Serving, Settled
  <2>8. CASE Observe
    <3>1. NextStep(cr, Observation(host, cr)) = "idle"
      BY <1>1, <2>8 DEF Observe, Settled, NextStep, Observation
    <3>2. pc' = "idle" /\ UNCHANGED <<node, host, cluster>>
      BY <2>8, <3>1 DEF Observe, GoTo, EndReconcile, world
    <3>3. QED
      BY <2>3, <3>2 DEF Serving
  <2>9. ~(UnitStarts \/ UnitLosesServer)
    BY <2>2 DEF UnitStarts, UnitLosesServer
  <2>10. ~Failures
    BY <2>1 DEF Failures, ResolveFails, ConnectFails, ObserveFails, UpdateFails, JoinMasked,
       JoinFails, PersistFails, UninstallFails, Crash, UnitFails, HostWiped, ServerLost
  <2>11. Progress => StartReconcile \/ Connect \/ Observe
    BY <2>2 DEF Progress, ResolveReferences, NothingToResolve, AddFinalizer, RemoveFinalizer,
       Conflict, JoinRefused, JoinSucceeds, Persist, UninstallSucceeds, Sending
  <2>12. QED
    BY <1>1, <2>1, <2>4, <2>5, <2>6, <2>7, <2>8, <2>9, <2>10, <2>11 DEF Next
<1>2. QED
  BY <1>1, NodeTypes, PTL DEF Spec, SettledStays

\* A Node for which nothing is left to be done runs the flags its user asks for,
\* if no download failed unseen and no user went back.  Else it may well run other
\* flags, and NodeSettledStays says that it then goes on to.
THEOREM NodeSettledIsRight == Spec => [](Settled /\ ~doubt => host.runs.cfg = node.cfg)
<1>1. TypeOK /\ (~doubt => VerdictInv) => (Settled /\ ~doubt => host.runs.cfg = node.cfg)
  <2> SUFFICES ASSUME TypeOK, VerdictInv, Settled
               PROVE  host.runs.cfg = node.cfg
    OBVIOUS
  <2>1. node.ann # NoConfig /\ node.ann = node.cfg /\ Exists(host) /\ Ready(host)
    BY DEF Settled, nodeIsUpToDate
  <2>2. node.ann =< Sent(host) /\ (node.ann = Sent(host) => host.runs.cfg = node.ann)
    BY <2>1 DEF VerdictInv, Recorded
  <2>3. Sent(host) =< node.cfg
    BY DEF VerdictInv, ConfigsGrow
  <2>4. node.cfg \in Nat /\ Sent(host) \in Nat
    BY NodeNumbers DEF TypeOK
  <2>5. QED
    BY <2>1, <2>2, <2>3, <2>4
<1>2. QED
  BY <1>1, NodeTypes, NodeVerdicts, PTL
=============================================================================
