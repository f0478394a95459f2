---------------------- MODULE ClusterController_proofs ----------------------
(***************************************************************************)
(* Proofs about ClusterController, for every set of configurations, every  *)
(* bound and every combination of faults the hypotheses do not exclude.    *)
(***************************************************************************)
EXTENDS ClusterProtection, SequenceTheorems, TLAPS

\* The operators the model is built from keep their types.
LEMMA ConfigLemma == Configs \subseteq ConfigOrNone /\ NoConfig \in ConfigOrNone
BY DEF ConfigOrNone

LEMMA ObjectLemma ==
    /\ NoObject \in Objects
    /\ \A o \in Objects : /\ Gone(o) \in Objects
                          /\ Protected(o) \in Objects /\ Pending(o) \in Objects
                          /\ \A m \in Markers : [o EXCEPT !.marker = m] \in Objects
                          /\ \A c \in ConfigOrNone : /\ [o EXCEPT !.ann = c] \in Objects
                                                     /\ [o EXCEPT !.cfg = c] \in Objects
                          /\ [o EXCEPT !.deleting = TRUE] \in Objects
    /\ \A c \in ConfigOrNone : [NoObject EXCEPT !.exists = TRUE, !.cfg = c] \in Objects
BY ConfigLemma DEF Objects, NoObject, Gone, Protected, Pending, Markers

LEMMA HostLemma ==
    /\ NoUnit \in Hosts /\ Adopted \in Hosts
    /\ \A h \in Hosts : /\ Started(h) \in Hosts /\ Restarted(h) \in Hosts /\ Down(h) \in Hosts
                        /\ \A c \in ConfigOrNone : Written(h, c) \in Hosts /\ Installed(h, c) \in Hosts
BY ConfigLemma DEF Hosts, NoUnit, Adopted, UnitStates, Started, Restarted, Down, Written, Installed

\* The three ways the store changes.
LEMMA PublishLemma ==
    ASSUME store \in Seq(Objects), Len(store) \in 1..MaxLag, NEW o \in Objects, Publish(o)
    PROVE  /\ store' \in Seq(Objects) /\ Len(store') \in 1..MaxLag
           /\ Len(store') = Len(store) + 1
           /\ Current' = o
           /\ \A i \in 1..Len(store) : store'[i] = store[i]
BY BoundsAssumption DEF Publish, Current

LEMMA DeliverLemma ==
    ASSUME store \in Seq(Objects), Len(store) \in 1..MaxLag, Deliver
    PROVE  /\ store' \in Seq(Objects) /\ Len(store') \in 1..MaxLag
           /\ Len(store') = Len(store) - 1
           /\ Current' = Current
           /\ \A i \in 1..Len(store') : store'[i] = store[i + 1]
<1>1. Len(store) > 1 /\ store' = Tail(store) /\ store # <<>>
  BY BoundsAssumption DEF Deliver, CacheIsCurrent
<1>2. QED
  BY <1>1, HeadTailProperties, BoundsAssumption DEF Current

LEMMA RestartLemma ==
    ASSUME store \in Seq(Objects), Len(store) \in 1..MaxLag, Restart
    PROVE  /\ store' \in Seq(Objects) /\ Len(store') = 1 /\ Len(store') \in 1..MaxLag
           /\ Current' = Current /\ store'[1] = Current
BY BoundsAssumption DEF Restart, Current

LEMMA ReadLemma ==
    ASSUME store \in Seq(Objects), Len(store) \in 1..MaxLag
    PROVE  /\ Current \in Objects /\ Cached \in Objects /\ Cached = store[1]
           /\ CacheIsCurrent => Cached = Current
BY BoundsAssumption DEF Current, Cached, CacheIsCurrent

-----------------------------------------------------------------------------
(* Type correctness.                                                       *)

LEMMA EndReconcileLemma ==
    ASSUME EndReconcile
    PROVE  pc' \in Steps /\ cr' \in Objects /\ fresh' \in BOOLEAN
           /\ obs' \in [exists : BOOLEAN, upToDate : BOOLEAN] /\ spent' \in BOOLEAN
BY ObjectLemma DEF EndReconcile, Steps, NoObservation

LEMMA GoToLemma ==
    ASSUME TypeOK, NEW step \in Steps, NEW c \in Objects,
           NEW o \in [exists : BOOLEAN, upToDate : BOOLEAN], GoTo(step, c, o)
    PROVE  pc' \in Steps /\ cr' \in Objects /\ fresh' \in BOOLEAN
           /\ obs' \in [exists : BOOLEAN, upToDate : BOOLEAN] /\ spent' \in BOOLEAN
BY EndReconcileLemma DEF GoTo, TypeOK

LEMMA NextStepLemma == \A c, o : NextStep(c, o) \in Steps
BY DEF NextStep, Steps

LEMMA WriteMarkerLemma ==
    ASSUME TypeOK, NEW m \in Markers, NEW c \in Objects, NEW f \in BOOLEAN, WriteMarker(m, c, f)
    PROVE  pc' \in Steps /\ cr' \in Objects /\ fresh' \in BOOLEAN
           /\ obs' \in [exists : BOOLEAN, upToDate : BOOLEAN] /\ spent' \in BOOLEAN
BY ObjectLemma DEF WriteMarker, WrapUpdater, TypeOK, Steps

LEMMA FailedLemma ==
    ASSUME TypeOK, NEW f \in BOOLEAN, Failed(f)
    PROVE  pc' \in Steps /\ cr' \in Objects /\ fresh' \in BOOLEAN
           /\ obs' \in [exists : BOOLEAN, upToDate : BOOLEAN] /\ spent' \in BOOLEAN
<1>1. "failed" \in Markers /\ cr \in Objects
  BY DEF Markers, TypeOK
<1>2. QED
  BY <1>1, WriteMarkerLemma, EndReconcileLemma DEF Failed

LEMMA RecordedLemma ==
    ASSUME TypeOK, NEW f \in BOOLEAN, Recorded(f)
    PROVE  pc' \in Steps /\ cr' \in Objects /\ fresh' \in BOOLEAN
           /\ obs' \in [exists : BOOLEAN, upToDate : BOOLEAN] /\ spent' \in BOOLEAN
<1>1. "succeeded" \in Markers /\ cr.cfg \in ConfigOrNone /\ cr \in Objects
  BY DEF Markers, TypeOK, Objects
<1>2. [cr EXCEPT !.ann = cr.cfg] \in Objects
  BY <1>1, ObjectLemma
<1>3. QED
  BY <1>1, <1>2, WriteMarkerLemma, EndReconcileLemma DEF Recorded

LEMMA FaultLemma ==
    ASSUME TypeOK, NEW kind, Fault(kind)
    PROVE  faults' \in 0..MaxFaults /\ silenced' \in BOOLEAN /\ edits' \in 0..MaxEdits
<1>1. silenced' \in BOOLEAN
  BY Zenon DEF Fault
<1>2. faults \in 0..MaxFaults /\ faults < MaxFaults /\ faults' = faults + 1
      /\ edits \in 0..MaxEdits /\ edits' = edits
  BY Zenon DEF TypeOK, Fault
<1>3. QED
  BY <1>1, <1>2, BoundsAssumption

\* Every variable keeps its type, and the store is never empty.
THEOREM TypeCorrect == Spec => []TypeOK
<1>1. Init => TypeOK
  <2> SUFFICES ASSUME Init PROVE TypeOK
    OBVIOUS
  <2>1. store \in Seq(Objects) /\ Len(store) \in 1..MaxLag
    <3>1. NoObject \in Objects /\ store = <<NoObject>>
      BY ObjectLemma DEF Init
    <3>2. QED
      BY <3>1, BoundsAssumption
  <2>2. pc \in Steps /\ cr \in Objects /\ fresh \in BOOLEAN /\ spent \in BOOLEAN
        /\ obs \in [exists : BOOLEAN, upToDate : BOOLEAN]
    BY ObjectLemma DEF Init, Steps, NoObservation
  <2>3. host \in Hosts /\ orphan \in ConfigOrNone /\ sent \in ConfigOrNone
    BY HostLemma, ConfigLemma DEF Init
  <2>4. faults \in 0..MaxFaults /\ silenced \in BOOLEAN /\ edits \in 0..MaxEdits
    <3>1. silenced \in BOOLEAN
      BY Zenon DEF Init
    <3>2. faults = 0 /\ edits = 0
      BY Zenon DEF Init
    <3>3. QED
      BY <3>1, <3>2, BoundsAssumption
  <2>5. QED
    BY <2>1, <2>2, <2>3, <2>4 DEF TypeOK
<1>2. TypeOK /\ [Next]_vars => TypeOK'
  <2> SUFFICES ASSUME TypeOK, [Next]_vars PROVE TypeOK'
    OBVIOUS
  <2> DEFINE StoreOK == store \in Seq(Objects) /\ Len(store) \in 1..MaxLag
             LocalOK == /\ pc \in Steps /\ cr \in Objects /\ fresh \in BOOLEAN
                        /\ obs \in [exists : BOOLEAN, upToDate : BOOLEAN] /\ spent \in BOOLEAN
             OutsideOK == host \in Hosts /\ orphan \in ConfigOrNone /\ sent \in ConfigOrNone
             BudgetsOK == faults \in 0..MaxFaults /\ silenced \in BOOLEAN /\ edits \in 0..MaxEdits
  <2>0. StoreOK /\ LocalOK /\ OutsideOK /\ BudgetsOK
    BY DEF TypeOK
  <2>r. Current \in Objects /\ Cached \in Objects /\ cr.cfg \in ConfigOrNone
    BY <2>0, ReadLemma DEF Objects
  <2>s. SUFFICES StoreOK' /\ LocalOK' /\ OutsideOK' /\ BudgetsOK'
    BY DEF TypeOK
  <2>h. \A h \in PartialInstalls(host, cr.cfg) \cup PartialUninstalls(host) : h \in Hosts
    BY <2>0, <2>r, HostLemma DEF PartialInstalls, PartialUninstalls
  <2>u. ASSUME NEW o \in Objects, UserWrites(o)
       PROVE  StoreOK' /\ LocalOK' /\ OutsideOK' /\ BudgetsOK'
    <3>1. StoreOK'
      BY <2>u, <2>0, PublishLemma DEF UserWrites
    <3>2. BudgetsOK'
      BY <2>u, <2>0, BoundsAssumption DEF UserWrites
    <3>3. LocalOK' /\ OutsideOK'
      BY <2>u, <2>0 DEF UserWrites
    <3>4. QED
      BY <3>1, <3>2, <3>3
  <2>1. CASE CreateCluster
    BY <2>1, <2>u, <2>r, ObjectLemma, ConfigLemma DEF CreateCluster
  <2>2. CASE EditSpec
    BY <2>2, <2>u, <2>r, ObjectLemma, ConfigLemma DEF EditSpec
  <2>3. CASE DeleteCluster
    BY <2>3, <2>u, <2>r, ObjectLemma DEF DeleteCluster
  <2>4. CASE Deliver
    <3>1. StoreOK'
      BY <2>0, <2>4, DeliverLemma
    <3>2. QED
      BY <2>0, <2>4, <3>1 DEF Deliver, local, budgets
  <2>5. CASE StartReconcile
    BY <2>0, <2>r, <2>5 DEF StartReconcile, budgets, Steps, CacheIsCurrent
  <2>6. CASE Observe
    <3>1. Observation(host, cr) \in [exists : BOOLEAN, upToDate : BOOLEAN]
      BY <2>0 DEF Observation, Exists, Ready, Hosts, clusterIsUpToDate
    <3>2. LocalOK'
      BY <2>0, <2>6, <3>1, NextStepLemma, GoToLemma DEF Observe
    <3>3. QED
      BY <2>0, <2>6, <3>2 DEF Observe, budgets
  <2>7. CASE ObserveFails
    BY <2>0, <2>7, EndReconcileLemma, FaultLemma DEF ObserveFails
  <2>8. CASE AddFinalizer
    <3>1. Protected(cr) \in Objects
      BY <2>0, ObjectLemma
    <3>2. LocalOK'
      BY <2>0, <2>8, <3>1, NextStepLemma, GoToLemma DEF AddFinalizer
    <3>3. StoreOK'
      BY <2>0, <2>8, <3>1, PublishLemma DEF AddFinalizer
    <3>4. QED
      BY <2>0, <2>8, <3>2, <3>3 DEF AddFinalizer, budgets
  <2>9. CASE MarkPending
    <3>1. Pending(cr) \in Objects /\ "create" \in Steps
      BY <2>0, ObjectLemma DEF Steps
    <3>2. LocalOK'
      BY <2>0, <2>9, <3>1, GoToLemma DEF MarkPending
    <3>3. StoreOK'
      BY <2>0, <2>9, <3>1, PublishLemma DEF MarkPending
    <3>4. QED
      BY <2>0, <2>9, <3>2, <3>3 DEF MarkPending, budgets
  <2>10. CASE RemoveFinalizer
    <3>1. Gone(cr) \in Objects
      BY <2>0, ObjectLemma
    <3>2. StoreOK'
      BY <2>0, <2>10, <3>1, PublishLemma DEF RemoveFinalizer
    <3>3. QED
      BY <2>0, <2>10, <3>2, EndReconcileLemma DEF RemoveFinalizer, budgets
  <2>11. CASE Conflict
    BY <2>0, <2>11, EndReconcileLemma DEF Conflict, budgets
  <2>12. CASE UpdateFails
    <3>1. FullUpdate \in Objects
      BY <2>0, <2>12, ObjectLemma DEF FullUpdate, UpdateFails
    <3>2. StoreOK'
      BY <2>0, <2>12, <3>1, PublishLemma DEF UpdateFails
    <3>3. QED
      BY <2>0, <2>12, <3>2, EndReconcileLemma, FaultLemma DEF UpdateFails
  <2>t. ASSUME Sent PROVE LocalOK'
    <3>1. (IF Creating THEN "persistCreate" ELSE "persistUpdate") \in Steps
      BY DEF Steps
    <3>2. QED
      BY <2>0, <2>t, <3>1, GoToLemma DEF Sent
  <2>13. CASE InstallSucceeds
    BY <2>0, <2>r, <2>13, <2>t, HostLemma DEF InstallSucceeds, budgets
  <2>14. CASE InstallMasked
    <3>1. LocalOK' /\ host' \in Hosts
      BY <2>0, <2>14, <2>t, FailedLemma, HostLemma DEF InstallMasked
    <3>2. QED
      BY <2>0, <2>r, <2>14, <3>1, FaultLemma DEF InstallMasked
  <2>15. CASE InstallFails
    BY <2>0, <2>r, <2>h, <2>15, FailedLemma, FaultLemma DEF InstallFails
  <2>c. ASSUME CutShort, sent' = cr.cfg PROVE OutsideOK'
    BY <2>0, <2>r, <2>h, <2>c DEF CutShort
  <2>16. CASE InstallTimesOut
    BY <2>0, <2>c, <2>16, FailedLemma DEF InstallTimesOut, budgets
  <2>17. CASE ContextExpires
    BY <2>0, <2>17, FaultLemma DEF ContextExpires
  <2>p. CacheIsCurrent => persisted(Cached) \in Objects
    BY <2>r, ObjectLemma DEF persisted
  <2>18. CASE PersistWrites
    <3>1. LocalOK'
      BY <2>0, <2>18, RecordedLemma DEF PersistWrites
    <3>2. StoreOK'
      BY <2>0, <2>p, <2>18, PublishLemma DEF PersistWrites
    <3>3. QED
      BY <2>0, <2>18, <3>1, <3>2 DEF PersistWrites, budgets
  <2>19. CASE PersistKeeps
    BY <2>0, <2>19, RecordedLemma DEF PersistKeeps, budgets
  <2>20. CASE PersistTimesOut
    BY <2>0, <2>20, FailedLemma DEF PersistTimesOut, budgets
  <2>21. CASE PersistFails
    <3>1. LocalOK'
      BY <2>0, <2>21, FailedLemma DEF PersistFails
    <3>2. StoreOK'
      BY <2>0, <2>p, <2>21, PublishLemma DEF PersistFails
    <3>3. QED
      BY <2>0, <2>21, <3>1, <3>2, FaultLemma DEF PersistFails
  <2>22. CASE PersistGivesUp
    BY <2>0, <2>22, FailedLemma, FaultLemma DEF PersistGivesUp
  <2>23. CASE CriticalWrite
    <3>1. StoreOK'
      BY <2>0, <2>23, PublishLemma DEF CriticalWrite
    <3>2. QED
      BY <2>0, <2>23, <3>1, EndReconcileLemma DEF CriticalWrite, budgets
  <2>24. CASE CriticalConflict
    <3>1. AddAnnotations(Cached, cr) \in Objects
      BY <2>0, <2>r DEF AddAnnotations, Objects
    <3>2. QED
      BY <2>0, <2>24, <3>1 DEF CriticalConflict, budgets, CacheIsCurrent
  <2>25. CASE CriticalGivesUp
    BY <2>0, <2>25, EndReconcileLemma DEF CriticalGivesUp, budgets
  <2>26. CASE UninstallSucceeds
    BY <2>0, <2>26, EndReconcileLemma, HostLemma DEF UninstallSucceeds, budgets
  <2>27. CASE UninstallFails
    BY <2>0, <2>h, <2>27, EndReconcileLemma, FaultLemma DEF UninstallFails
  <2>x. ASSUME Restart PROVE StoreOK' /\ LocalOK' /\ BudgetsOK'
    BY <2>0, <2>x, RestartLemma, EndReconcileLemma, FaultLemma DEF Restart
  <2>28. CASE Crash
    BY <2>0, <2>x, <2>28 DEF Crash
  <2>29. CASE CrashWhileSending
    BY <2>0, <2>c, <2>x, <2>29 DEF CrashWhileSending
  <2>30. CASE UnitStarts
    BY <2>0, <2>30, HostLemma DEF UnitStarts, local, budgets
  <2>31. CASE UnitFails
    BY <2>0, <2>31, HostLemma, FaultLemma DEF UnitFails, local
  <2>32. CASE HostWiped
    BY <2>0, <2>32, HostLemma, FaultLemma DEF HostWiped, local
  <2>33. CASE OrphanFinishes
    BY <2>0, <2>33, HostLemma, ConfigLemma DEF OrphanFinishes, local, budgets
  <2>34. CASE UNCHANGED vars
    BY <2>0, <2>34 DEF vars
  <2>35. QED
    BY <2>1, <2>2, <2>3, <2>4, <2>5, <2>6, <2>7, <2>8, <2>9, <2>10, <2>11, <2>12, <2>13,
       <2>14, <2>15, <2>16, <2>17, <2>18, <2>19, <2>20, <2>21, <2>22, <2>23, <2>24, <2>25,
       <2>26, <2>27, <2>28, <2>29, <2>30, <2>31, <2>32, <2>33, <2>34, <2>s
       DEF Next, Users, Progress, Failures, Machine
<1>3. QED
  BY <1>1, <1>2, PTL DEF Spec
-----------------------------------------------------------------------------
(* Evidence: what the worker's copies can be trusted for, whatever fault   *)
(* there is.                                                               *)

LEMMA KeptLemma ==
    ASSUME store' = store PROVE Current' = Current /\ (Guarded' <=> Guarded)
BY DEF Current, Guarded

\* A write that leaves a guarded object guarded leaves the evidence good.
LEMMA EvidenceLemma ==
    ASSUME TypeOK, StoreIsEvidence, NEW o \in Objects, Publish(o),
           Guarded => o.exists /\ o.fin
    PROVE  StoreIsEvidence' /\ (Guarded => Guarded') /\ Current' = o
<1>1. /\ Current' = o /\ Len(store') = Len(store) + 1
      /\ \A i \in 1..Len(store) : store'[i] = store[i]
      /\ Len(store) \in Nat
  BY PublishLemma, BoundsAssumption DEF TypeOK
<1>2. Guarded' <=> o.exists /\ o.fin
  BY <1>1 DEF Guarded
<1>3. ASSUME NEW i \in 1..Len(store'), Owned(store'[i]) PROVE Guarded'
  <2>1. CASE i \in 1..Len(store)
    BY <1>1, <1>2, <1>3, <2>1 DEF StoreIsEvidence
  <2>2. CASE i = Len(store')
    BY <1>1, <1>2, <1>3, <2>2 DEF Owned, Current
  <2>3. QED
    BY <1>1, <1>3, <2>1, <2>2
<1>4. QED
  BY <1>1, <1>2, <1>3 DEF StoreIsEvidence

\* What the worker has in hand.
CopyInv == CopyIsEvidence /\ FreshAgrees /\ FreshIsCached /\ CopyAllowsStep

\* What an idle worker remembers justifies nothing and needs no justification.
LEMMA IdleLemma == ASSUME EndReconcile PROVE CopyInv'
BY DEF EndReconcile, CopyInv, CopyIsEvidence, Owned, NoObject, FreshAgrees, FreshIsCached,
       CopyAllowsStep, Sending

LEMMA MarkedLemma ==
    ASSUME TypeOK, EvidenceInv, pc # "idle", Guarded => Guarded',
           NEW m \in Markers, NEW c \in Objects, NEW f \in BOOLEAN, f => fresh /\ store' = store,
           c.exists = cr.exists, c.fin = cr.fin, c.deleting = cr.deleting,
           WriteMarker(m, c, f)
    PROVE  CopyInv'
<1>1. /\ cr'.exists = cr.exists /\ cr'.fin = cr.fin /\ cr'.deleting = cr.deleting
      /\ pc' = "critical" /\ fresh' = f
  BY DEF WriteMarker, Objects
<1>2. cr.exists
  BY DEF EvidenceInv, CopyAllowsStep
<1>3. CopyIsEvidence'
  BY <1>1 DEF EvidenceInv, CopyIsEvidence, Owned
<1>4. FreshAgrees'
  BY <1>1, KeptLemma DEF EvidenceInv, FreshAgrees
<1>5. QED
  BY <1>1, <1>2, <1>3, <1>4 DEF CopyInv, FreshIsCached, CopyAllowsStep, Sending

LEMMA FailedKeeps ==
    ASSUME TypeOK, EvidenceInv, pc # "idle", Guarded => Guarded',
           NEW f \in BOOLEAN, f => fresh /\ store' = store, Failed(f)
    PROVE  CopyInv'
<1>1. "failed" \in Markers /\ cr \in Objects
  BY DEF Markers, TypeOK
<1>2. QED
  BY <1>1, MarkedLemma, IdleLemma DEF Failed

LEMMA RecordedKeeps ==
    ASSUME TypeOK, EvidenceInv, pc # "idle", Guarded => Guarded',
           NEW f \in BOOLEAN, f => fresh /\ store' = store, Recorded(f)
    PROVE  CopyInv'
<1> DEFINE c == [cr EXCEPT !.ann = cr.cfg]
<1>1. "succeeded" \in Markers /\ cr.cfg \in ConfigOrNone /\ cr \in Objects
  BY DEF Markers, TypeOK, Objects
<1>2. c \in Objects /\ c.exists = cr.exists /\ c.fin = cr.fin /\ c.deleting = cr.deleting
  BY <1>1, ObjectLemma DEF Objects
<1>3. QED
  BY <1>1, <1>2, MarkedLemma, IdleLemma DEF Recorded

\* The one step that takes a finalizer away.
Releasing == pc = "release" /\ fresh /\ pc' = "idle" /\ UNCHANGED <<host, orphan, sent>>

\* The evidence stays good, and a guarded object guarded until it is released.
LEMMA EvidenceStep ==
    ASSUME TypeOK, EvidenceInv, [Next]_vars
    PROVE  EvidenceInv' /\ (Guarded => Guarded' \/ Releasing)
<1> DEFINE Kept == Guarded => Guarded'
<1>0. StoreIsEvidence /\ CopyIsEvidence /\ FreshAgrees /\ FreshIsCached /\ CopyAllowsStep
  BY DEF EvidenceInv
<1>t. /\ store \in Seq(Objects) /\ Len(store) \in 1..MaxLag /\ MaxLag \in Nat
      /\ cr \in Objects /\ host \in Hosts /\ Current \in Objects /\ Cached \in Objects
      /\ Cached = store[1] /\ (CacheIsCurrent => Cached = Current) /\ fresh \in BOOLEAN
  BY ReadLemma, BoundsAssumption DEF TypeOK
<1>s. SUFFICES StoreIsEvidence' /\ CopyInv' /\ (Kept \/ Releasing)
  BY DEF EvidenceInv, CopyInv
<1>k. store' = store => (Guarded' <=> Guarded) /\ Current' = Current /\ StoreIsEvidence'
  BY <1>0, KeptLemma DEF StoreIsEvidence
\* A step that writes nothing and changes nothing the worker has in hand.
<1>m. ASSUME store' = store, UNCHANGED <<pc, cr, fresh>> PROVE StoreIsEvidence' /\ CopyInv' /\ Kept
  BY <1>0, <1>m, <1>k DEF CopyInv, CopyIsEvidence, FreshAgrees, FreshIsCached,
     CopyAllowsStep, Sending
\* A step that ends the reconcile and writes nothing.
<1>e. ASSUME EndReconcile, store' = store PROVE StoreIsEvidence' /\ CopyInv' /\ Kept
  BY <1>e, <1>k, IdleLemma
\* A user's write changes neither the worker's copy nor the machine.
<1>u. ASSUME NEW o \in Objects, UserWrites(o), Guarded => o.exists /\ o.fin,
             ~Guarded => ~o.fin
      PROVE  StoreIsEvidence' /\ CopyInv' /\ Kept
  <2>1. StoreIsEvidence' /\ (Guarded => Guarded') /\ Current' = o
    BY <1>u, <1>0, EvidenceLemma DEF UserWrites
  <2>2. CopyInv'
    BY <1>u, <1>0, <2>1 DEF UserWrites, CopyInv, CopyIsEvidence, FreshAgrees, FreshIsCached,
       CopyAllowsStep, Sending
  <2>3. QED
    BY <2>1, <2>2
<1>1. CASE CreateCluster
  <2>1. PICK c \in Configs : UserWrites([NoObject EXCEPT !.exists = TRUE, !.cfg = c])
    BY <1>1 DEF CreateCluster
  <2>2. ~Guarded /\ ~[NoObject EXCEPT !.exists = TRUE, !.cfg = c].fin
    BY <1>1 DEF CreateCluster, Guarded, NoObject
  <2>3. [NoObject EXCEPT !.exists = TRUE, !.cfg = c] \in Objects
    BY ObjectLemma, ConfigLemma
  <2>4. QED
    BY <2>1, <2>2, <2>3, <1>u
<1>2. CASE EditSpec
  <2>1. PICK c \in Configs : UserWrites([Current EXCEPT !.cfg = c])
    BY <1>2 DEF EditSpec
  <2> DEFINE o == [Current EXCEPT !.cfg = c]
  <2>2. o \in Objects /\ o.exists = Current.exists /\ o.fin = Current.fin
    BY <1>t, ObjectLemma, ConfigLemma DEF Objects
  <2>3. Current.exists
    BY <1>2 DEF EditSpec
  <2>4. QED
    BY <2>1, <2>2, <2>3, <1>u DEF Guarded
<1>3. CASE DeleteCluster
  <2>1. CASE Current.fin
    <3> DEFINE o == [Current EXCEPT !.deleting = TRUE]
    <3>1. o \in Objects /\ o.exists = Current.exists /\ o.fin = Current.fin
      BY <1>t, ObjectLemma DEF Objects
    <3>2. UserWrites(o) /\ Current.exists
      BY <1>3, <2>1 DEF DeleteCluster
    <3>3. QED
      BY <3>1, <3>2, <2>1, <1>u DEF Guarded
  <2>2. CASE ~Current.fin
    <3>1. Gone(Current) \in Objects /\ ~Gone(Current).fin
      BY <1>t, ObjectLemma DEF Gone, NoObject
    <3>2. UserWrites(Gone(Current))
      BY <1>3, <2>2 DEF DeleteCluster
    <3>3. QED
      BY <3>1, <3>2, <2>2, <1>u DEF Guarded
  <2>3. QED
    BY <2>1, <2>2
<1>4. CASE Deliver
  <2>1. /\ Len(store') = Len(store) - 1 /\ Len(store') \in 1..MaxLag /\ Current' = Current
        /\ \A i \in 1..Len(store') : store'[i] = store[i + 1]
    BY <1>t, <1>4, DeliverLemma
  <2>2. Guarded' <=> Guarded
    BY <2>1 DEF Guarded
  <2>3. StoreIsEvidence'
    BY <1>0, <1>t, <2>1, <2>2 DEF StoreIsEvidence
  <2>4. CopyInv'
    BY <1>0, <1>t, <1>4, <2>1, <2>2 DEF Deliver, local, CopyInv, CopyIsEvidence, FreshAgrees,
       FreshIsCached, CopyAllowsStep, Sending
  <2>5. QED
    BY <2>2, <2>3, <2>4
<1>5. CASE StartReconcile
  <2>1. Owned(Cached) => Guarded
    BY <1>0, <1>t DEF StoreIsEvidence
  <2>2. CopyInv'
    BY <1>t, <1>5, <1>k, <2>1 DEF StartReconcile, CopyInv, CopyIsEvidence, FreshAgrees,
       FreshIsCached, CopyAllowsStep, Sending, CacheIsCurrent
  <2>3. QED
    BY <1>5, <1>k, <2>2 DEF StartReconcile
<1>6. CASE Observe
  <2> DEFINE o == Observation(host, cr)
  <2>1. CASE NextStep(cr, o) = "idle"
    BY <1>6, <1>e, <2>1 DEF Observe, GoTo
  <2>2. CASE NextStep(cr, o) # "idle"
    <3>1. pc' = NextStep(cr, o) /\ cr' = cr /\ UNCHANGED <<store, fresh>> /\ pc = "observe"
      BY <1>6, <2>2 DEF Observe, GoTo
    <3>2. cr.exists
      BY <1>0, <3>1 DEF CopyAllowsStep
    <3>3. CopyAllowsStep'
      BY <3>1, <3>2 DEF CopyAllowsStep, NextStep, Owned, Sending
    <3>4. CopyInv'
      BY <1>0, <1>k, <3>1, <3>3 DEF CopyInv, CopyIsEvidence, FreshAgrees, FreshIsCached
    <3>5. QED
      BY <1>k, <3>1, <3>4
  <2>3. QED
    BY <2>1, <2>2
<1>7. CASE ObserveFails
  BY <1>7, <1>e DEF ObserveFails
<1>8. CASE AddFinalizer
  <2> DEFINE c == Protected(cr)
  <2>1. c \in Objects /\ c.exists = cr.exists /\ c.fin /\ c.deleting = cr.deleting
    BY <1>t, ObjectLemma DEF Protected, Objects
  <2>2. cr.exists /\ ~cr.deleting
    BY <1>0, <1>8 DEF AddFinalizer, CopyAllowsStep
  <2>3. StoreIsEvidence' /\ (Guarded => Guarded') /\ Current' = c
    BY <1>0, <1>8, <2>1, <2>2, EvidenceLemma DEF AddFinalizer
  <2>4. Guarded'
    BY <2>1, <2>2, <2>3 DEF Guarded
  <2>5. CopyInv'
    <3>1. CASE NextStep(c, obs) = "idle"
      BY <1>8, <3>1, IdleLemma DEF AddFinalizer, GoTo
    <3>2. CASE NextStep(c, obs) # "idle"
      <4>1. pc' = NextStep(c, obs) /\ cr' = c /\ UNCHANGED fresh
        BY <1>8, <3>2 DEF AddFinalizer, GoTo
      <4>2. CopyAllowsStep' /\ pc' \in {"markPending", "update"}
        BY <4>1, <3>2, <2>1, <2>2 DEF CopyAllowsStep, NextStep, Owned, Sending
      <4>3. QED
        BY <4>1, <4>2, <2>3, <2>4 DEF CopyInv, CopyIsEvidence, FreshAgrees, FreshIsCached
    <3>3. QED
      BY <3>1, <3>2
  <2>6. QED
    BY <2>3, <2>5
<1>9. CASE MarkPending
  <2> DEFINE c == Pending(cr)
  <2>1. c \in Objects /\ c.exists = cr.exists /\ c.fin = cr.fin /\ c.deleting = cr.deleting
    BY <1>t, ObjectLemma DEF Pending, Objects
  <2>2. Owned(cr)
    BY <1>0, <1>9 DEF MarkPending, CopyAllowsStep
  <2>3. StoreIsEvidence' /\ (Guarded => Guarded') /\ Current' = c
    BY <1>0, <1>9, <2>1, <2>2, EvidenceLemma DEF MarkPending, Owned
  <2>4. Guarded'
    BY <2>1, <2>2, <2>3 DEF Guarded, Owned
  <2>5. pc' = "create" /\ cr' = c /\ UNCHANGED fresh
    BY <1>9 DEF MarkPending, GoTo
  <2>6. CopyInv'
    BY <2>1, <2>2, <2>3, <2>4, <2>5 DEF CopyInv, CopyIsEvidence, FreshAgrees, FreshIsCached,
       CopyAllowsStep, Sending, Owned
  <2>7. QED
    BY <2>3, <2>6
\* The finalizer goes only from a version whose deletion was read while it was
\* the whole cache.
<1>r. ASSUME pc = "release", fresh, Publish(Gone(cr)) PROVE StoreIsEvidence'
  <2>1. Len(store) = 1 /\ cr.deleting /\ cr.deleting = Current.deleting
    BY <1>0, <1>r DEF FreshIsCached, CopyAllowsStep, FreshAgrees
  <2>2. Gone(cr) \in Objects /\ ~Gone(cr).exists
    BY <1>t, ObjectLemma DEF Gone, NoObject
  <2>3. Len(store') = 2 /\ store'[1] = store[1] /\ Current' = Gone(cr)
    BY <1>t, <1>r, <2>1, <2>2, PublishLemma
  <2>4. ~Owned(store'[1]) /\ ~Owned(store'[2])
    BY <2>1, <2>2, <2>3 DEF Owned, Current
  <2>5. QED
    BY <2>3, <2>4 DEF StoreIsEvidence
<1>10. CASE RemoveFinalizer
  <2>1. StoreIsEvidence' /\ CopyInv'
    BY <1>10, <1>r, IdleLemma DEF RemoveFinalizer
  <2>2. Releasing
    BY <1>10 DEF RemoveFinalizer, EndReconcile, Releasing
  <2>3. QED
    BY <2>1, <2>2
<1>11. CASE Conflict
  BY <1>11, <1>e DEF Conflict
<1>12. CASE UpdateFails
  <2>0. EndReconcile /\ CopyInv' /\ fresh
    BY <1>12, IdleLemma DEF UpdateFails
  <2>1. CASE store' = store
    BY <2>0, <2>1, <1>e
  <2>2. CASE Publish(FullUpdate) /\ pc = "release"
    <3>1. StoreIsEvidence'
      BY <2>0, <2>2, <1>r DEF FullUpdate
    <3>2. Releasing
      BY <1>12, <2>2 DEF UpdateFails, EndReconcile, Releasing
    <3>3. QED
      BY <2>0, <3>1, <3>2
  <2>3. CASE Publish(FullUpdate) /\ pc # "release"
    <3>1. /\ FullUpdate \in Objects
          /\ FullUpdate.exists = cr.exists /\ (cr.fin => FullUpdate.fin)
      BY <1>t, <1>12, <2>3, ObjectLemma
         DEF UpdateFails, FullUpdate, Protected, Pending, Objects
    <3>2. Guarded => cr.exists /\ cr.fin
      BY <1>0, <2>0 DEF FreshAgrees, Guarded
    <3>3. StoreIsEvidence' /\ (Guarded => Guarded')
      BY <1>0, <2>3, <3>1, <3>2, EvidenceLemma
    <3>4. QED
      BY <2>0, <3>3
  <2>4. QED
    BY <1>12, <2>1, <2>2, <2>3 DEF UpdateFails
\* An install writes nothing, and its result goes into the worker's own copy.
<1>f. ASSUME Sending \/ Persisting, store' = store, Failed(fresh)
      PROVE  StoreIsEvidence' /\ CopyInv' /\ Kept
  <2>1. pc # "idle"
    BY <1>f DEF Sending, Persisting
  <2>2. QED
    BY <1>f, <1>k, <1>t, <2>1, FailedKeeps
<1>n. ASSUME Sending, store' = store, Sent PROVE StoreIsEvidence' /\ CopyInv' /\ Kept
  <2>1. /\ pc' \in {"persistCreate", "persistUpdate"} /\ cr' = cr /\ UNCHANGED fresh
        /\ pc # "idle"
    BY <1>n DEF Sent, GoTo, Sending
  <2>2. cr.exists
    BY <1>0, <2>1 DEF CopyAllowsStep
  <2>3. QED
    BY <1>0, <1>n, <1>k, <2>1, <2>2
       DEF CopyInv, CopyIsEvidence, FreshAgrees, FreshIsCached, CopyAllowsStep, Sending
<1>13. CASE InstallSucceeds
  BY <1>13, <1>n DEF InstallSucceeds
<1>14. CASE InstallMasked
  BY <1>14, <1>n, <1>f DEF InstallMasked
<1>15. CASE InstallFails
  BY <1>15, <1>f DEF InstallFails
<1>16. CASE InstallTimesOut
  BY <1>16, <1>f DEF InstallTimesOut
<1>17. CASE ContextExpires
  BY <1>17, <1>m DEF ContextExpires
<1>p. ASSUME Persisting PROVE pc # "idle"
  BY <1>p DEF Persisting
\* Recording the configuration writes a version guarded like the one it read.
<1>w. ASSUME CacheIsCurrent, Publish(persisted(Cached))
      PROVE  StoreIsEvidence' /\ (Guarded => Guarded')
  <2>1. /\ persisted(Cached) \in Objects
        /\ persisted(Cached).exists = Current.exists /\ persisted(Cached).fin = Current.fin
    BY <1>t, <1>w, ObjectLemma DEF persisted, Objects
  <2>2. QED
    BY <1>0, <1>w, <2>1, EvidenceLemma DEF Guarded
<1>18. CASE PersistWrites
  <2>1. StoreIsEvidence' /\ (Guarded => Guarded') /\ pc # "idle"
    BY <1>18, <1>w, <1>p DEF PersistWrites
  <2>2. CopyInv'
    BY <1>18, <2>1, RecordedKeeps DEF PersistWrites
  <2>3. QED
    BY <2>1, <2>2
<1>19. CASE PersistKeeps
  <2>1. CopyInv'
    BY <1>19, <1>t, <1>k, <1>p, RecordedKeeps DEF PersistKeeps
  <2>2. QED
    BY <1>19, <1>k, <2>1 DEF PersistKeeps
<1>20. CASE PersistTimesOut
  BY <1>20, <1>f DEF PersistTimesOut
<1>21. CASE PersistFails
  <2>1. CASE store' = store /\ Failed(fresh)
    BY <1>21, <1>f, <2>1 DEF PersistFails
  <2>2. CASE CacheIsCurrent /\ Publish(persisted(Cached)) /\ Failed(FALSE)
    <3>1. StoreIsEvidence' /\ (Guarded => Guarded') /\ pc # "idle"
      BY <1>21, <2>2, <1>w, <1>p DEF PersistFails
    <3>2. CopyInv'
      BY <2>2, <3>1, FailedKeeps
    <3>3. QED
      BY <3>1, <3>2
  <2>3. QED
    BY <1>21, <2>1, <2>2 DEF PersistFails
<1>22. CASE PersistGivesUp
  BY <1>22, <1>f DEF PersistGivesUp
<1>23. CASE CriticalWrite
  <2>1. Guarded => cr.exists /\ cr.fin
    BY <1>0, <1>23 DEF CriticalWrite, FreshAgrees, Guarded
  <2>2. StoreIsEvidence' /\ (Guarded => Guarded')
    BY <1>0, <1>t, <1>23, <2>1, EvidenceLemma DEF CriticalWrite
  <2>3. QED
    BY <1>23, <2>2, IdleLemma DEF CriticalWrite
<1>24. CASE CriticalConflict
  <2>1. /\ cr' = AddAnnotations(Cached, cr) /\ Cached.exists /\ pc' = "critical"
        /\ fresh' = CacheIsCurrent /\ UNCHANGED store
    BY <1>24 DEF CriticalConflict
  <2>2. cr'.exists = Cached.exists /\ cr'.fin = Cached.fin /\ cr'.deleting = Cached.deleting
    BY <1>t, <2>1 DEF AddAnnotations, Objects
  <2>3. Owned(Cached) => Guarded
    BY <1>0, <1>t DEF StoreIsEvidence
  <2>4. CopyInv'
    BY <1>k, <1>t, <2>1, <2>2, <2>3 DEF CopyInv, CopyIsEvidence, FreshAgrees, FreshIsCached,
       CopyAllowsStep, Sending, Owned
  <2>5. QED
    BY <1>k, <2>1, <2>4
<1>25. CASE CriticalGivesUp \/ UninstallSucceeds \/ UninstallFails
  BY <1>25, <1>e DEF CriticalGivesUp, UninstallSucceeds, UninstallFails
\* A restarted process reads the current version alone.
<1>26. CASE Crash \/ CrashWhileSending
  <2>1. Restart
    BY <1>26 DEF Crash, CrashWhileSending
  <2>2. Len(store') = 1 /\ Current' = Current /\ store'[1] = Current
    BY <1>t, <2>1, RestartLemma
  <2>3. StoreIsEvidence' /\ (Guarded' <=> Guarded)
    BY <2>2 DEF StoreIsEvidence, Owned, Guarded
  <2>4. QED
    BY <2>1, <2>3, IdleLemma DEF Restart
<1>27. CASE Machine \/ UNCHANGED vars
  BY <1>27, <1>m DEF Machine, UnitStarts, UnitFails, HostWiped, OrphanFinishes, local, vars
<1>28. QED
  BY <1>1, <1>2, <1>3, <1>4, <1>5, <1>6, <1>7, <1>8, <1>9, <1>10, <1>11, <1>12, <1>13,
     <1>14, <1>15, <1>16, <1>17, <1>18, <1>19, <1>20, <1>21, <1>22, <1>23, <1>24, <1>25,
     <1>26, <1>27
     DEF Next, Users, Progress, Failures

LEMMA EvidenceInit == ASSUME Init PROVE EvidenceInv
<1>1. store = <<NoObject>> /\ pc = "idle" /\ cr = NoObject /\ fresh = FALSE
  BY DEF Init
<1>2. Len(store) = 1 /\ store[1] = NoObject /\ ~Owned(NoObject)
  BY <1>1 DEF Owned, NoObject
<1>3. StoreIsEvidence /\ CopyIsEvidence
  BY <1>1, <1>2 DEF StoreIsEvidence, CopyIsEvidence
<1>4. FreshAgrees /\ FreshIsCached /\ CopyAllowsStep
  BY <1>1 DEF FreshAgrees, FreshIsCached, CopyAllowsStep, Sending
<1>5. QED
  BY <1>3, <1>4 DEF EvidenceInv

\* What stale copies can be trusted for holds in every reachable state, whatever
\* faults strike, orphaned commands included.
THEOREM EvidenceHolds == Spec => []EvidenceInv
<1>1. TypeOK /\ EvidenceInv /\ [Next]_vars => EvidenceInv'
  BY EvidenceStep
<1>2. Init => EvidenceInv
  BY EvidenceInit
<1>3. QED
  BY <1>1, <1>2, TypeCorrect, PTL DEF Spec

\* Install commands are sent only while the finalizer is on the API server, in
\* every behaviour there is.
THEOREM AlwaysSendsUnderProtection == Spec => []SendsUnderProtection
<1>1. EvidenceInv => SendsUnderProtection
  BY DEF EvidenceInv, CopyAllowsStep, CopyIsEvidence, Guarded, SendsUnderProtection
<1>2. QED
  BY <1>1, EvidenceHolds, PTL

\* Nobody but a worker that has read the deletion, and has a copy nobody has
\* written over since, takes a finalizer away.
THEOREM OnlyReleaseUnguards ==
    Spec => [][Guarded /\ ~Guarded' => pc = "release" /\ fresh /\ Current.deleting]_vars
<1>1. ASSUME TypeOK, EvidenceInv, [Next]_vars, Guarded, ~Guarded'
      PROVE  pc = "release" /\ fresh /\ Current.deleting
  <2>1. pc = "release" /\ fresh
    BY <1>1, EvidenceStep DEF Releasing
  <2>2. cr.deleting /\ cr.deleting = Current.deleting
    BY <1>1, <2>1 DEF EvidenceInv, CopyAllowsStep, FreshAgrees
  <2>3. QED
    BY <2>1, <2>2
<1>2. QED
  BY <1>1, EvidenceHolds, TypeCorrect, PTL DEF Spec
-----------------------------------------------------------------------------
(* Protection, where no command outlives its session.                      *)

LEMMA MachineLemma ==
    ASSUME NEW h \in Hosts
    PROVE  /\ Exists(Started(h)) = Exists(h) /\ Exists(Restarted(h)) = Exists(h)
           /\ Exists(Down(h)) = Exists(h) /\ ~Exists(NoUnit)
           /\ \A g \in PartialUninstalls(h) : Exists(g) => Exists(h)
<1>1. /\ Exists(Started(h)) = Exists(h) /\ Exists(Restarted(h)) = Exists(h)
      /\ Exists(Down(h)) = Exists(h) /\ ~Exists(NoUnit)
  BY DEF Hosts, Exists, Started, Restarted, Down, NoUnit
<1>2. QED
  BY <1>1 DEF PartialUninstalls

\* Where no command outlives its session, the invariant is inductive.
LEMMA ProtectionStep ==
    ASSUME "orphan" \notin Faults, TypeOK, ProtectionInv, [Next]_vars
    PROVE  ProtectionInv'
<1>0. EvidenceInv /\ AbsenceStillHolds /\ InstalledIsProtected /\ orphan = NoConfig
  BY DEF ProtectionInv
<1>1. EvidenceInv' /\ (Guarded => Guarded' \/ Releasing)
  BY <1>0, EvidenceStep
<1>t. host \in Hosts
  BY DEF TypeOK
<1>s. SUFFICES AbsenceStillHolds' /\ InstalledIsProtected' /\ orphan' = NoConfig
  BY <1>1 DEF ProtectionInv
\* Steps that lead to one that relies on no absence.
<1>a. ASSUME pc' \notin {"protect", "markPending", "create", "release"} PROVE AbsenceStillHolds'
  BY <1>a DEF AbsenceStillHolds
<1>e. EndReconcile => AbsenceStillHolds'
  BY <1>a DEF EndReconcile
\* Nothing but an install loads the unit.
<1>h. ASSUME Exists(host') => Exists(host), sent' = sent, Guarded => Guarded'
      PROVE  InstalledIsProtected'
  BY <1>0, <1>h DEF InstalledIsProtected, Guarded
\* Steps of others.
<1>o. ASSUME UNCHANGED <<pc, obs, sent, orphan>>, Exists(host') => Exists(host), pc # "release" \/ pc' # "idle"
      PROVE  AbsenceStillHolds' /\ InstalledIsProtected' /\ orphan' = NoConfig
  <2>1. Guarded => Guarded'
    BY <1>1, <1>o DEF Releasing
  <2>2. AbsenceStillHolds'
    BY <1>0, <1>o DEF AbsenceStillHolds
  <2>3. QED
    BY <1>0, <1>h, <1>o, <2>1, <2>2
<1>2. CASE Users
  BY <1>2, <1>o DEF Users, CreateCluster, EditSpec, DeleteCluster, UserWrites
<1>3. CASE Deliver
  BY <1>3, <1>o DEF Deliver, local
<1>4. CASE Machine \/ UNCHANGED vars
  <2>1. UNCHANGED <<pc, obs, sent, orphan>>
    BY <1>0, <1>4 DEF Machine, UnitStarts, UnitFails, HostWiped, OrphanFinishes, local, vars
  <2>2. Exists(host') => Exists(host)
    BY <1>0, <1>4, <1>t, MachineLemma
       DEF Machine, UnitStarts, UnitFails, HostWiped, OrphanFinishes, vars
  <2>3. QED
    BY <1>o, <2>1, <2>2
\* Steps that leave the machine alone.
<1>q. ASSUME UNCHANGED <<host, sent, orphan>>, AbsenceStillHolds', pc # "release"
      PROVE  AbsenceStillHolds' /\ InstalledIsProtected' /\ orphan' = NoConfig
  BY <1>0, <1>1, <1>h, <1>q DEF Releasing
<1>5. CASE StartReconcile
  BY <1>5, <1>a, <1>q DEF StartReconcile
<1>6. CASE Observe
  <2> DEFINE o == Observation(host, cr)
  <2>1. CASE NextStep(cr, o) = "idle"
    BY <1>6, <1>e, <1>q, <2>1 DEF Observe, GoTo
  <2>2. CASE NextStep(cr, o) # "idle"
    <3>1. /\ pc' = NextStep(cr, o) /\ obs' = o /\ UNCHANGED <<host, sent, orphan>>
          /\ pc = "observe"
      BY <1>6, <2>2 DEF Observe, GoTo
    <3>2. o.exists = Exists(host)
      BY DEF Observation
    <3>3. AbsenceStillHolds'
      BY <3>1, <3>2 DEF AbsenceStillHolds, NextStep, Exists
    <3>4. QED
      BY <1>q, <3>1, <3>3
  <2>3. QED
    BY <2>1, <2>2
<1>7. CASE AddFinalizer
  <2> DEFINE c == Protected(cr)
  <2>1. ~cr.deleting /\ (~obs.exists => ~Exists(host)) /\ cr \in Objects
    BY <1>0, <1>7 DEF AddFinalizer, EvidenceInv, CopyAllowsStep, AbsenceStillHolds, TypeOK
  <2>2. c.fin /\ ~c.deleting
    BY <2>1 DEF Protected, Objects
  <2>3. AbsenceStillHolds'
    <3>1. CASE NextStep(c, obs) = "idle"
      BY <1>7, <1>e, <3>1 DEF AddFinalizer, GoTo
    <3>2. CASE NextStep(c, obs) # "idle"
      <4>1. pc' = NextStep(c, obs) /\ UNCHANGED host
        BY <1>7, <3>2 DEF AddFinalizer, GoTo
      <4>2. QED
        BY <2>1, <2>2, <4>1 DEF AbsenceStillHolds, NextStep, Exists
    <3>3. QED
      BY <3>1, <3>2
  <2>4. QED
    BY <1>7, <1>q, <2>3 DEF AddFinalizer
<1>8. CASE MarkPending
  <2>1. AbsenceStillHolds'
    BY <1>0, <1>8 DEF MarkPending, GoTo, AbsenceStillHolds, Exists
  <2>2. QED
    BY <1>8, <1>q, <2>1 DEF MarkPending
\* The finalizer goes only where Observe found no unit.
<1>r. ASSUME pc = "release", EndReconcile, UNCHANGED <<host, sent, orphan>>
      PROVE  AbsenceStillHolds' /\ InstalledIsProtected' /\ orphan' = NoConfig
  BY <1>0, <1>e, <1>r DEF AbsenceStillHolds, InstalledIsProtected, Exists
<1>9. CASE RemoveFinalizer
  BY <1>9, <1>r DEF RemoveFinalizer
<1>10. CASE Conflict \/ UpdateFails
  <2>1. EndReconcile /\ UNCHANGED <<host, sent, orphan>>
    BY <1>10 DEF Conflict, UpdateFails
  <2>2. QED
    BY <1>e, <1>q, <1>r, <2>1
<1>11. CASE ObserveFails \/ CriticalWrite \/ CriticalGivesUp
  BY <1>11, <1>e, <1>q DEF ObserveFails, CriticalWrite, CriticalGivesUp
<1>12. CASE CriticalConflict
  BY <1>12, <1>a, <1>q DEF CriticalConflict
<1>13. CASE ContextExpires
  BY <1>13, <1>o DEF ContextExpires
\* An install goes to a guarded machine, and what follows relies on no absence.
<1>l. (\E f : Failed(f) \/ Recorded(f)) \/ Sent => AbsenceStillHolds'
  BY <1>a, <1>e DEF Failed, Recorded, WriteMarker, Sent, GoTo
<1>i. ASSUME Sending, Guarded', AbsenceStillHolds', orphan' = orphan
      PROVE  AbsenceStillHolds' /\ InstalledIsProtected' /\ orphan' = NoConfig
  BY <1>0, <1>i DEF InstalledIsProtected, Guarded
<1>g. Sending => Guarded'
  BY <1>0, <1>1 DEF EvidenceInv, CopyAllowsStep, CopyIsEvidence, Sending, Releasing
<1>14. CASE InstallSucceeds
  BY <1>14, <1>g, <1>i, <1>l DEF InstallSucceeds
<1>15. CASE InstallMasked
  BY <1>15, <1>g, <1>i, <1>l DEF InstallMasked
<1>16. CASE InstallFails
  BY <1>16, <1>g, <1>i, <1>l DEF InstallFails
<1>17. CASE InstallTimesOut
  BY <1>17, <1>g, <1>i, <1>l DEF InstallTimesOut, CutShort
<1>18. CASE PersistWrites \/ PersistKeeps \/ PersistTimesOut \/ PersistFails \/ PersistGivesUp
  BY <1>18, <1>l, <1>q DEF PersistWrites, PersistKeeps, PersistTimesOut, PersistFails,
     PersistGivesUp, Persisting
<1>19. CASE UninstallSucceeds \/ UninstallFails
  <2>1. EndReconcile /\ UNCHANGED <<sent, orphan>> /\ pc = "delete"
    BY <1>19 DEF UninstallSucceeds, UninstallFails
  <2>2. Exists(host') => Exists(host)
    BY <1>19, <1>t, MachineLemma DEF UninstallSucceeds, UninstallFails
  <2>3. QED
    BY <1>0, <1>1, <1>e, <1>h, <2>1, <2>2 DEF Releasing
<1>20. CASE Crash
  <2>1. EndReconcile /\ UNCHANGED <<host, sent, orphan>>
    BY <1>20 DEF Crash, Restart
  <2>2. QED
    BY <1>e, <1>q, <1>r, <2>1
<1>21. CASE CrashWhileSending
  BY <1>21, <1>e, <1>g, <1>i DEF CrashWhileSending, Restart, CutShort
<1>22. QED
  BY <1>2, <1>3, <1>4, <1>5, <1>6, <1>7, <1>8, <1>9, <1>10, <1>11, <1>12, <1>13,
     <1>14, <1>15, <1>16, <1>17, <1>18, <1>19, <1>20, <1>21
     DEF Next, Progress, Failures

LEMMA ProtectionInit == ASSUME Init PROVE ProtectionInv
<1>1. pc = "idle" /\ sent = NoConfig /\ orphan = NoConfig
  BY DEF Init
<1>2. QED
  BY <1>1, EvidenceInit DEF AbsenceStillHolds, InstalledIsProtected, ProtectionInv

\* Protection holds in every reachable state, as long as no command outlives its
\* session.
THEOREM ProtectionHolds ==
    ASSUME "orphan" \notin Faults PROVE Spec => []ProtectionInv
<1>1. TypeOK /\ ProtectionInv /\ [Next]_vars => ProtectionInv'
  BY ProtectionStep
<1>2. Init => ProtectionInv
  BY ProtectionInit
<1>3. QED
  BY <1>1, <1>2, TypeCorrect, PTL DEF Spec

\* A machine that was sent an install and has a unit is always answered for by
\* a Cluster with a finalizer, however stale the copies the worker acts on.
THEOREM InstalledStaysProtected ==
    ASSUME "orphan" \notin Faults PROVE Spec => []InstalledIsProtected
<1>1. ProtectionInv => InstalledIsProtected
  BY DEF ProtectionInv
<1>2. QED
  BY <1>1, ProtectionHolds, PTL

\* Create never runs over a loaded unit.
THEOREM AlwaysCreatesOnlyWhenAbsent ==
    ASSUME "orphan" \notin Faults PROVE Spec => []CreatesOnlyWhenAbsent
<1>1. ProtectionInv => CreatesOnlyWhenAbsent
  BY DEF ProtectionInv, AbsenceStillHolds, CreatesOnlyWhenAbsent
<1>2. QED
  BY <1>1, ProtectionHolds, PTL

\* The finalizer outlives the unit: it is taken away only from a machine that
\* has none, whoever installed it.
THEOREM FinalizerOutlivesUnit ==
    ASSUME "orphan" \notin Faults
    PROVE  Spec => [][Guarded /\ ~Guarded' => ~Exists(host) /\ ~Exists(host')]_vars
<1>1. ASSUME TypeOK, ProtectionInv, [Next]_vars, Guarded, ~Guarded'
      PROVE  ~Exists(host) /\ ~Exists(host')
  <2>1. Releasing
    BY <1>1, EvidenceStep DEF ProtectionInv
  <2>2. QED
    BY <1>1, <2>1 DEF Releasing, ProtectionInv, AbsenceStillHolds, Exists
<1>2. QED
  BY <1>1, ProtectionHolds, TypeCorrect, PTL DEF Spec
-----------------------------------------------------------------------------
(* Stability.                                                              *)

\* What moves a budget is no part of it.
LEMMA BudgetLemma ==
    ASSUME TypeOK, UNCHANGED budgets
    PROVE  /\ \A o : ~UserWrites(o)
           /\ \A k : ~Fault(k)
<1>1. edits + 1 # edits /\ faults + 1 # faults
  BY DEF TypeOK
<1>2. QED
  BY <1>1 DEF UserWrites, Fault, budgets

\* A settled Cluster stays settled, and its object and machine as they are, until
\* a user or a fault comes along.
THEOREM ClusterSettledStays == Spec => SettledStays
<1>1. ASSUME TypeOK, [Next]_vars, Settled, UNCHANGED budgets
      PROVE  UNCHANGED <<store, host>> /\ Settled'
  <2>1. (\A o : ~UserWrites(o)) /\ (\A k : ~Fault(k))
    BY <1>1, BudgetLemma
  <2>2. CASE UNCHANGED vars
    BY <1>1, <2>2 DEF Settled, vars, CacheIsCurrent, Current, Owned, clusterIsUpToDate, Exists, Ready
  <2>3. CASE StartReconcile
    <3>1. Cached = Current
      BY <1>1, ReadLemma DEF TypeOK, Settled, CacheIsCurrent, Cached, Current
    <3>2. QED
      BY <1>1, <2>3, <3>1 DEF StartReconcile, Settled, CacheIsCurrent, Current, Owned,
         clusterIsUpToDate, Exists, Ready
  <2>4. CASE Observe
    <3>1. NextStep(cr, Observation(host, cr)) = "idle"
      BY <1>1, <2>4 DEF Observe, Settled, Owned, NextStep, Observation
    <3>2. pc' = "idle" /\ UNCHANGED <<store, host, orphan>>
      BY <2>4, <3>1 DEF Observe, GoTo, EndReconcile
    <3>3. QED
      BY <1>1, <3>2 DEF Settled, CacheIsCurrent, Current, Owned, clusterIsUpToDate, Exists, Ready
  <2>5. pc \in {"idle", "observe"} /\ Len(store) = 1 /\ host.state = "active" /\ orphan = NoConfig
    BY <1>1 DEF Settled, CacheIsCurrent, Ready
  <2>6. ~(Users \/ Deliver \/ Machine)
    BY <2>1, <2>5 DEF Users, CreateCluster, EditSpec, DeleteCluster, Deliver, CacheIsCurrent,
       Machine, UnitStarts, UnitFails, HostWiped, OrphanFinishes
  <2>7. ~Failures
    BY <2>1, <2>5 DEF Failures, ObserveFails, UpdateFails, InstallMasked, InstallFails,
       ContextExpires, PersistFails, PersistGivesUp, UninstallFails, Crash, CrashWhileSending, Restart
  <2>8. Progress => StartReconcile \/ Observe
    BY <2>5 DEF Progress, AddFinalizer, MarkPending, RemoveFinalizer, Conflict, InstallSucceeds,
       InstallTimesOut, PersistWrites, PersistKeeps, PersistTimesOut, CriticalWrite,
       CriticalConflict, CriticalGivesUp, UninstallSucceeds, Sending, Persisting
  <2>9. QED
    BY <1>1, <2>2, <2>3, <2>4, <2>6, <2>7, <2>8 DEF Next
<1>2. QED
  BY <1>1, TypeCorrect, PTL DEF Spec, SettledStays
=============================================================================
