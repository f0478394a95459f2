---------------------- MODULE ClusterRefinement_proofs ----------------------
(***************************************************************************)
(* What the first proofs about ClusterController leave to the model        *)
(* checker: the worker never writes a spec (ClusterSpecIsUsers), leaves no *)
(* pending marker behind (MarkerIsCleared), keeps the promise of           *)
(* ManagedResource (ClusterKeepsThePromise, on the evidence of             *)
(* DeletionIsRemembered), and is right when it says that a machine is up   *)
(* to date (VerdictIsTrue).                                                *)
(***************************************************************************)
EXTENDS ClusterController_proofs

-----------------------------------------------------------------------------
(* What becomes of the worker's copy.                                      *)

\* The copy as it was, but for its marker and its annotation, or none at all.
CopyKept == \/ cr'.exists = cr.exists /\ cr'.deleting = cr.deleting /\ cr'.cfg = cr.cfg
            \/ cr' = NoObject

LEMMA CopyKeptLemma ==
    ASSUME CopyKept
    PROVE  (cr'.deleting => cr.deleting) /\ (cr'.exists => cr.exists /\ cr'.cfg = cr.cfg)
<1>1. CASE cr' = NoObject
  <2>1. ~NoObject.deleting /\ ~NoObject.exists
    BY DEF NoObject
  <2> QED
    BY <1>1, <2>1
<1>2. CASE cr'.exists = cr.exists /\ cr'.deleting = cr.deleting /\ cr'.cfg = cr.cfg
  BY <1>2, Zenon
<1> QED
  BY <1>1, <1>2 DEF CopyKept

LEMMA EndDropsCopy == ASSUME EndReconcile PROVE CopyKept /\ fresh' = FALSE
BY DEF EndReconcile, CopyKept

LEMMA MarkerKeepsCopy ==
    ASSUME NEW m, NEW c \in Objects, NEW f, WriteMarker(m, c, f),
           c.exists = cr.exists, c.deleting = cr.deleting, c.cfg = cr.cfg
    PROVE  CopyKept /\ fresh' = f /\ cr'.cfg = cr.cfg
<1>1. fresh' = f /\ cr' = [c EXCEPT !.marker = m]
  BY DEF WriteMarker
<1>2. cr'.exists = c.exists /\ cr'.deleting = c.deleting /\ cr'.cfg = c.cfg
  BY <1>1 DEF Objects
<1> QED
  BY <1>1, <1>2 DEF CopyKept

LEMMA FailedKeepsCopy ==
    ASSUME TypeOK, NEW f \in BOOLEAN, Failed(f)
    PROVE  CopyKept /\ (fresh' = FALSE \/ (fresh' = f /\ cr'.cfg = cr.cfg))
<1>1. "failed" \in Markers /\ cr \in Objects
  BY DEF Markers, TypeOK
<1>2. CASE Creating
  <2>1. WriteMarker("failed", cr, f)
    BY <1>2 DEF Failed
  <2>2. CopyKept /\ fresh' = f /\ cr'.cfg = cr.cfg
    BY <1>1, <2>1, MarkerKeepsCopy
  <2> QED
    BY <2>2, Zenon
<1>3. CASE ~Creating
  <2>1. EndReconcile
    BY <1>3 DEF Failed
  <2> QED
    BY <2>1, EndDropsCopy, Zenon
<1> QED
  BY <1>2, <1>3

LEMMA RecordedKeepsCopy ==
    ASSUME TypeOK, NEW f \in BOOLEAN, Recorded(f)
    PROVE  CopyKept /\ (fresh' = FALSE \/ (fresh' = f /\ cr'.cfg = cr.cfg))
<1> DEFINE c == [cr EXCEPT !.ann = cr.cfg]
<1>1. "succeeded" \in Markers /\ cr.cfg \in ConfigOrNone /\ cr \in Objects
  BY DEF Markers, TypeOK, Objects
<1>2. c \in Objects /\ c.exists = cr.exists /\ c.deleting = cr.deleting /\ c.cfg = cr.cfg
  BY <1>1, ObjectLemma DEF Objects
<1>3. CASE Creating
  <2>1. WriteMarker("succeeded", c, f)
    BY <1>3 DEF Recorded
  <2> HIDE DEF c
  <2>2. CopyKept /\ fresh' = f /\ cr'.cfg = cr.cfg
    BY <1>1, <1>2, <2>1, MarkerKeepsCopy
  <2> QED
    BY <2>2, Zenon
<1>4. CASE ~Creating
  <2>1. EndReconcile
    BY <1>4 DEF Recorded
  <2> QED
    BY <2>1, EndDropsCopy, Zenon
<1> QED
  BY <1>3, <1>4

LEMMA SentKeepsCopy ==
    ASSUME Sent PROVE CopyKept /\ fresh' = fresh /\ cr'.cfg = cr.cfg
BY DEF Sent, GoTo, CopyKept

\* The full updates change one field of the copy.
LEMMA FullUpdateLemma ==
    ASSUME TypeOK
    PROVE  /\ Protected(cr) \in Objects /\ Protected(cr).exists = cr.exists /\ Protected(cr).fin
           /\ Protected(cr).deleting = cr.deleting /\ Protected(cr).cfg = cr.cfg
           /\ Pending(cr) \in Objects /\ Pending(cr).exists = cr.exists
           /\ Pending(cr).fin = cr.fin /\ Pending(cr).deleting = cr.deleting
           /\ Pending(cr).cfg = cr.cfg
           /\ Gone(cr) \in Objects /\ ~Gone(cr).exists /\ ~Gone(cr).fin /\ ~Gone(cr).deleting
           /\ Gone(cr).cfg = cr.cfg
<1>1. cr \in Objects
  BY DEF TypeOK
<1>2. /\ Protected(cr).exists = cr.exists /\ Protected(cr).fin
      /\ Protected(cr).deleting = cr.deleting /\ Protected(cr).cfg = cr.cfg
  BY <1>1 DEF Protected, Objects
<1>3. /\ Pending(cr).exists = cr.exists /\ Pending(cr).fin = cr.fin
      /\ Pending(cr).deleting = cr.deleting /\ Pending(cr).cfg = cr.cfg
  BY <1>1 DEF Pending, Objects
<1>4. ~Gone(cr).exists /\ ~Gone(cr).fin /\ ~Gone(cr).deleting /\ Gone(cr).cfg = cr.cfg
  BY DEF Gone, NoObject
<1> QED
  BY <1>1, <1>2, <1>3, <1>4, ObjectLemma

LEMMA PersistedLemma ==
    ASSUME TypeOK, CacheIsCurrent
    PROVE  /\ persisted(Cached) \in Objects /\ persisted(Cached).exists = Current.exists
           /\ persisted(Cached).fin = Current.fin
           /\ persisted(Cached).deleting = Current.deleting
           /\ persisted(Cached).cfg = Current.cfg
<1>1. Cached = Current /\ Current \in Objects /\ cr.cfg \in ConfigOrNone
  BY ReadLemma DEF TypeOK, Objects
<1> QED
  BY <1>1, ObjectLemma DEF persisted, Objects

LEMMA AnnotationsLemma ==
    ASSUME TypeOK
    PROVE  /\ AddAnnotations(Cached, cr).exists = Cached.exists
           /\ AddAnnotations(Cached, cr).deleting = Cached.deleting
           /\ AddAnnotations(Cached, cr).cfg = Cached.cfg
<1>1. Cached \in Objects
  BY ReadLemma DEF TypeOK
<1> QED
  BY <1>1 DEF AddAnnotations, Objects

-----------------------------------------------------------------------------
(* Specs are users'.                                                       *)

LEMMA FreshSpecStep ==
    ASSUME TypeOK, FreshSpec, [Next]_vars
    PROVE  FreshSpec' /\ (Current'.cfg = Current.cfg \/ UNCHANGED <<pc, cr, host>>)
<1> DEFINE Kept == Current'.cfg = Current.cfg
           Goal == FreshSpec' /\ (Kept \/ UNCHANGED <<pc, cr, host>>)
<1>t. /\ store \in Seq(Objects) /\ Len(store) \in 1..MaxLag /\ fresh \in BOOLEAN
      /\ (CacheIsCurrent => Cached = Current)
  BY ReadLemma DEF TypeOK
<1>k. ASSUME store' = store PROVE Current' = Current
  BY <1>k DEF Current
<1>w. ASSUME NEW o \in Objects, Publish(o) PROVE Current' = o
  BY <1>t, <1>w, PublishLemma
\* Nothing is published; the copy is dropped, or stays as fresh as it was.
<1>q. ASSUME Current' = Current, fresh' = FALSE \/ (fresh' = fresh /\ cr'.cfg = cr.cfg)
      PROVE  Goal
  BY <1>q DEF FreshSpec
<1>p. ASSUME NEW o \in Objects, Publish(o), o.cfg = Current.cfg,
             fresh' = FALSE \/ cr'.cfg = o.cfg
      PROVE  Goal
  <2>1. Current' = o
    BY <1>p, <1>w
  <2> QED
    BY <1>p, <2>1 DEF FreshSpec
<1>1. CASE Users
  <2>1. fresh' = FALSE /\ UNCHANGED <<pc, cr, host>>
    BY <1>1 DEF Users, CreateCluster, EditSpec, DeleteCluster, UserWrites
  <2> QED
    BY <2>1 DEF FreshSpec
<1>2. CASE Deliver
  <2>1. Current' = Current
    BY <1>t, <1>2, DeliverLemma
  <2> QED
    BY <1>2, <1>q, <2>1 DEF Deliver, local
<1>3. CASE StartReconcile
  <2>1. Current' = Current /\ cr' = Cached /\ fresh' = CacheIsCurrent
    BY <1>3, <1>k DEF StartReconcile
  <2> QED
    BY <1>t, <2>1 DEF FreshSpec
<1>4. CASE Observe
  <2>1. fresh' = FALSE \/ (fresh' = fresh /\ cr' = cr)
    BY <1>4, EndDropsCopy DEF Observe, GoTo
  <2> QED
    BY <1>4, <1>k, <1>q, <2>1 DEF Observe
<1>5. CASE ObserveFails \/ Conflict \/ CriticalGivesUp \/ UninstallSucceeds \/ UninstallFails
  BY <1>5, <1>k, <1>q, EndDropsCopy
     DEF ObserveFails, Conflict, CriticalGivesUp, UninstallSucceeds, UninstallFails
<1>6. CASE AddFinalizer
  <2>1. Publish(Protected(cr)) /\ fresh /\ (fresh' = FALSE \/ cr' = Protected(cr))
    BY <1>6, EndDropsCopy DEF AddFinalizer, GoTo
  <2> QED
    BY <1>p, <2>1, FullUpdateLemma DEF FreshSpec
<1>7. CASE MarkPending
  <2>1. Publish(Pending(cr)) /\ fresh /\ cr' = Pending(cr)
    BY <1>7 DEF MarkPending, GoTo
  <2> QED
    BY <1>p, <2>1, FullUpdateLemma DEF FreshSpec
<1>8. CASE RemoveFinalizer
  BY <1>8, <1>p, FullUpdateLemma, EndDropsCopy DEF RemoveFinalizer, FreshSpec
<1>9. CASE UpdateFails
  <2>1. fresh /\ fresh' = FALSE /\ (store' = store \/ Publish(FullUpdate))
    BY <1>9, EndDropsCopy DEF UpdateFails
  <2>2. FullUpdate \in Objects /\ FullUpdate.cfg = cr.cfg
    BY <1>9, FullUpdateLemma DEF UpdateFails, FullUpdate, TypeOK
  <2> QED
    BY <1>k, <1>q, <1>p, <2>1, <2>2 DEF FreshSpec
<1>10. CASE InstallSucceeds
  BY <1>10, <1>k, <1>q, SentKeepsCopy DEF InstallSucceeds
<1>11. CASE InstallMasked
  BY <1>t, <1>11, <1>k, <1>q, SentKeepsCopy, FailedKeepsCopy DEF InstallMasked
<1>12. CASE InstallFails \/ InstallTimesOut \/ PersistTimesOut \/ PersistGivesUp
  BY <1>t, <1>12, <1>k, <1>q, FailedKeepsCopy
     DEF InstallFails, InstallTimesOut, PersistTimesOut, PersistGivesUp
<1>13. CASE ContextExpires
  BY <1>13, <1>k, <1>q DEF ContextExpires
<1>14. CASE PersistWrites
  <2>1. fresh' = FALSE
    BY <1>14, RecordedKeepsCopy DEF PersistWrites
  <2> QED
    BY <1>14, <1>p, <2>1, PersistedLemma DEF PersistWrites
<1>15. CASE PersistKeeps
  BY <1>t, <1>15, <1>k, <1>q, RecordedKeepsCopy DEF PersistKeeps
<1>16. CASE PersistFails
  <2>1. CASE store' = store /\ Failed(fresh)
    BY <1>t, <1>k, <1>q, <2>1, FailedKeepsCopy
  <2>2. CASE CacheIsCurrent /\ Publish(persisted(Cached)) /\ Failed(FALSE)
    <3>1. fresh' = FALSE
      BY <2>2, FailedKeepsCopy
    <3> QED
      BY <1>p, <2>2, <3>1, PersistedLemma
  <2> QED
    BY <1>16, <2>1, <2>2 DEF PersistFails
<1>17. CASE CriticalWrite
  BY <1>17, <1>p, EndDropsCopy DEF CriticalWrite, FreshSpec, TypeOK
<1>18. CASE CriticalConflict
  <2>1. Current' = Current /\ cr'.cfg = Cached.cfg /\ fresh' = CacheIsCurrent
    BY <1>18, <1>k, AnnotationsLemma DEF CriticalConflict
  <2> QED
    BY <1>t, <2>1 DEF FreshSpec
<1>19. CASE Crash \/ CrashWhileSending
  <2>1. Restart
    BY <1>19 DEF Crash, CrashWhileSending
  <2>2. Current' = Current /\ fresh' = FALSE
    BY <1>t, <2>1, RestartLemma, EndDropsCopy DEF Restart
  <2> QED
    BY <1>q, <2>2
<1>20. CASE Machine \/ UNCHANGED vars
  BY <1>20, <1>k, <1>q DEF Machine, UnitStarts, UnitFails, HostWiped, OrphanFinishes, local, vars
<1> QED
  BY <1>1, <1>2, <1>3, <1>4, <1>5, <1>6, <1>7, <1>8, <1>9, <1>10, <1>11, <1>12, <1>13,
     <1>14, <1>15, <1>16, <1>17, <1>18, <1>19, <1>20 DEF Next, Progress, Failures

\* Whatever the worker writes (the finalizer, the markers, the annotation, laid
\* over whichever copy), the spec in it is the one the users gave: with every
\* fault there is, orphaned commands included.
THEOREM ClusterSpecIsUsers == Spec => SpecChangesAreUsers
<1>1. Init => FreshSpec
  BY DEF Init, FreshSpec
<1>2. TypeOK /\ FreshSpec /\ [Next]_vars => FreshSpec'
  BY FreshSpecStep
<1>3. TypeOK /\ FreshSpec /\ [Next]_vars
      => [Current'.cfg # Current.cfg => UNCHANGED <<pc, cr, host>>]_vars
  BY FreshSpecStep
<1> QED
  BY <1>1, <1>2, <1>3, TypeCorrect, PTL DEF Spec, SpecChangesAreUsers

-----------------------------------------------------------------------------
(* The pending marker.                                                     *)

LEMMA MarkerStep ==
    ASSUME TypeOK, MarkerInv, [Next]_vars PROVE MarkerInv'
<1> DEFINE PendingHere == Current.exists /\ Current.marker = "pending"
           AnsweredFor == PendingHere => silenced \/ Creating \/ pc = "critical"
           CriticalOK == pc = "critical" => cr.marker # "pending" /\ (spent => silenced)
           FreshOK == fresh /\ pc # "critical"
                          => cr.exists = Current.exists /\ cr.marker = Current.marker
           Goal == AnsweredFor' /\ CriticalOK' /\ FreshOK'
<1>0. AnsweredFor /\ CriticalOK /\ FreshOK
  BY DEF MarkerInv
<1>s. SUFFICES Goal
  BY DEF MarkerInv
<1>t. /\ store \in Seq(Objects) /\ Len(store) \in 1..MaxLag /\ cr \in Objects
      /\ Current \in Objects /\ fresh \in BOOLEAN /\ (CacheIsCurrent => Cached = Current)
  BY ReadLemma DEF TypeOK
<1>k. ASSUME store' = store PROVE Current' = Current
  BY <1>k DEF Current
<1>w. ASSUME NEW o \in Objects, Publish(o) PROVE Current' = o
  BY <1>t, <1>w, PublishLemma
<1>b. ASSUME NEW kind, Fault(kind)
      PROVE  (silenced => silenced') /\ (kind \in Silencing => silenced')
  BY <1>b DEF Fault
<1>n. ASSUME UNCHANGED budgets PROVE silenced => silenced'
  BY <1>n DEF budgets
<1>c. Creating => pc # "critical"
  BY DEF Creating
\* A reconcile that ends leaves no marker behind.
<1>e. ASSUME EndReconcile, PendingHere' => silenced' PROVE Goal
  BY <1>e DEF EndReconcile
\* A marker that replaces the pending one is about to be written, in time.
<1>m. ASSUME NEW m, m # "pending", NEW c \in Objects, NEW f, WriteMarker(m, c, f) PROVE Goal
  <2>1. pc' = "critical" /\ cr' = [c EXCEPT !.marker = m] /\ spent' = FALSE
    BY <1>m DEF WriteMarker, WrapUpdater
  <2>2. cr'.marker = m
    BY <2>1 DEF Objects
  <2> QED
    BY <1>m, <2>1, <2>2
<1>x. ASSUME NEW f, Failed(f), ~Creating => (PendingHere' => silenced') PROVE Goal
  <2>1. CASE Creating
    BY <1>m, <1>t, <1>x, <2>1 DEF Failed
  <2>2. CASE ~Creating
    BY <1>e, <1>x, <2>2 DEF Failed
  <2> QED
    BY <2>1, <2>2
<1>y. ASSUME NEW f, Recorded(f), ~Creating => (PendingHere' => silenced') PROVE Goal
  <2>1. CASE Creating
    <3>1. [cr EXCEPT !.ann = cr.cfg] \in Objects
      BY <1>t, ObjectLemma DEF Objects
    <3> QED
      BY <1>m, <1>y, <2>1, <3>1 DEF Recorded
  <2>2. CASE ~Creating
    BY <1>e, <1>y, <2>2 DEF Recorded
  <2> QED
    BY <2>1, <2>2
\* Where nobody is creating, a marker found pending is a fault's.
<1>q. ASSUME PendingHere' => PendingHere, silenced => silenced', ~Creating, pc # "critical"
      PROVE  PendingHere' => silenced'
  BY <1>0, <1>q
<1>z. ASSUME Sending \/ Persisting PROVE pc # "critical"
  BY <1>z DEF Sending, Persisting
<1>1. CASE Users
  <2>1. /\ UNCHANGED <<pc, cr, spent, silenced>> /\ fresh' = FALSE
    BY <1>1 DEF Users, CreateCluster, EditSpec, DeleteCluster, UserWrites
  <2>2. PendingHere' => PendingHere
    <3>1. CASE CreateCluster
      <4>1. PICK c \in Configs : UserWrites([NoObject EXCEPT !.exists = TRUE, !.cfg = c])
        BY <3>1 DEF CreateCluster
      <4>2. Current' = [NoObject EXCEPT !.exists = TRUE, !.cfg = c]
        BY <4>1, <1>w, ObjectLemma, ConfigLemma DEF UserWrites
      <4> QED
        BY <4>2 DEF NoObject
    <3>2. CASE EditSpec
      <4>1. PICK c \in Configs : UserWrites([Current EXCEPT !.cfg = c])
        BY <3>2 DEF EditSpec
      <4>2. Current' = [Current EXCEPT !.cfg = c]
        BY <4>1, <1>t, <1>w, ObjectLemma, ConfigLemma DEF UserWrites
      <4> QED
        BY <1>t, <4>2 DEF Objects
    <3>3. CASE DeleteCluster
      <4>1. Current' = [Current EXCEPT !.deleting = TRUE] \/ Current' = Gone(Current)
        BY <3>3, <1>t, <1>w, ObjectLemma DEF DeleteCluster, UserWrites
      <4> QED
        BY <1>t, <4>1 DEF Gone, NoObject, Objects
    <3> QED
      BY <1>1, <3>1, <3>2, <3>3 DEF Users
  <2> QED
    BY <1>0, <2>1, <2>2 DEF Creating
<1>2. CASE Deliver
  <2>1. Current' = Current
    BY <1>t, <1>2, DeliverLemma
  <2> QED
    BY <1>0, <1>2, <2>1 DEF Deliver, local, budgets, Creating
<1>3. CASE StartReconcile
  <2>1. Current' = Current /\ cr' = Cached /\ fresh' = CacheIsCurrent /\ pc' = "observe"
        /\ pc = "idle" /\ (silenced => silenced')
    BY <1>3, <1>k, <1>n DEF StartReconcile
  <2>2. AnsweredFor'
    BY <1>0, <2>1 DEF Creating
  <2> QED
    BY <1>t, <2>1, <2>2
<1>4. CASE Observe
  <2>1. Current' = Current /\ pc = "observe" /\ (silenced => silenced')
    BY <1>4, <1>k, <1>n DEF Observe
  <2>2. PendingHere' => silenced'
    BY <1>0, <2>1 DEF Creating
  <2>3. CASE EndReconcile
    BY <1>e, <2>2, <2>3
  <2>4. CASE pc' = NextStep(cr, Observation(host, cr)) /\ cr' = cr /\ UNCHANGED fresh
    BY <1>0, <2>1, <2>2, <2>4 DEF NextStep
  <2> QED
    BY <1>4, <2>3, <2>4 DEF Observe, GoTo
<1>5. CASE ObserveFails \/ Conflict \/ UninstallSucceeds \/ UninstallFails
  <2>1. /\ EndReconcile /\ Current' = Current /\ (silenced => silenced')
        /\ pc \notin {"create", "persistCreate", "critical"}
    BY <1>5, <1>k, <1>b, <1>n DEF ObserveFails, Conflict, UninstallSucceeds, UninstallFails
  <2> QED
    BY <1>q, <1>e, <2>1 DEF Creating
<1>6. CASE CriticalGivesUp
  BY <1>0, <1>6, <1>e, <1>n DEF CriticalGivesUp
<1>7. CASE AddFinalizer
  <2>1. Current' = Protected(cr) /\ fresh /\ pc = "protect" /\ (silenced => silenced')
    BY <1>7, <1>w, <1>n, FullUpdateLemma DEF AddFinalizer
  <2>2. Protected(cr).exists = cr.exists /\ Protected(cr).marker = cr.marker
    BY <1>t DEF Protected, Objects
  <2>3. PendingHere' => PendingHere
    BY <1>0, <2>1, <2>2
  <2>4. PendingHere' => silenced'
    BY <1>q, <2>1, <2>3 DEF Creating
  <2>5. CASE EndReconcile
    BY <1>e, <2>4, <2>5
  <2>6. CASE pc' = NextStep(Protected(cr), obs) /\ cr' = Protected(cr)
    BY <2>1, <2>4, <2>6 DEF NextStep
  <2> QED
    BY <1>7, <2>5, <2>6 DEF AddFinalizer, GoTo
<1>8. CASE MarkPending
  <2>1. Current' = Pending(cr) /\ cr' = Pending(cr) /\ pc' = "create"
    BY <1>8, <1>w, FullUpdateLemma DEF MarkPending, GoTo
  <2> QED
    BY <2>1 DEF Creating
<1>9. CASE RemoveFinalizer
  <2>1. Current' = Gone(cr) /\ EndReconcile
    BY <1>9, <1>w, FullUpdateLemma DEF RemoveFinalizer
  <2> QED
    BY <1>e, <2>1, FullUpdateLemma
<1>10. CASE UpdateFails
  <2>1. silenced' /\ EndReconcile
    BY <1>10, <1>b DEF UpdateFails, Silencing
  <2> QED
    BY <1>e, <2>1
<1>a. ASSUME Sent, Sending, store' = store, silenced => silenced' PROVE Goal
  <2>1. /\ Current' = Current /\ cr' = cr /\ UNCHANGED fresh
        /\ pc' = IF Creating THEN "persistCreate" ELSE "persistUpdate"
    BY <1>a, <1>k DEF Sent, GoTo
  <2>2. Creating' <=> Creating
    BY <2>1 DEF Creating
  <2> QED
    BY <1>0, <1>a, <1>z, <2>1, <2>2
<1>f. ASSUME NEW f, Failed(f), Sending \/ Persisting, store' = store, silenced => silenced'
      PROVE  Goal
  <2>1. Current' = Current
    BY <1>f, <1>k
  <2> QED
    BY <1>f, <1>q, <1>x, <1>z, <2>1
<1>11. CASE InstallSucceeds
  BY <1>11, <1>a, <1>n DEF InstallSucceeds
<1>12. CASE InstallMasked
  BY <1>12, <1>a, <1>b, <1>f DEF InstallMasked
<1>13. CASE InstallFails \/ PersistGivesUp
  BY <1>13, <1>b, <1>f DEF InstallFails, PersistGivesUp
<1>14. CASE InstallTimesOut \/ PersistTimesOut
  BY <1>14, <1>n, <1>f DEF InstallTimesOut, PersistTimesOut
<1>15. CASE ContextExpires
  <2>1. /\ UNCHANGED <<pc, cr, fresh>> /\ Current' = Current
        /\ (silenced => silenced') /\ (pc = "critical" => silenced')
    BY <1>15, <1>k, <1>b, <1>z DEF ContextExpires, Silencing
  <2> QED
    BY <1>0, <2>1 DEF Creating
<1>16. CASE PersistWrites
  <2>1. /\ Current' = persisted(Cached) /\ CacheIsCurrent /\ Persisting /\ Recorded(FALSE)
        /\ (silenced => silenced')
    BY <1>16, <1>w, <1>n, PersistedLemma DEF PersistWrites
  <2>2. PendingHere' => PendingHere
    BY <1>t, <2>1 DEF persisted, Objects
  <2> QED
    BY <1>q, <1>y, <1>z, <2>1, <2>2
<1>17. CASE PersistKeeps
  BY <1>17, <1>k, <1>n, <1>q, <1>y, <1>z DEF PersistKeeps
<1>18. CASE PersistFails
  <2>1. silenced' /\ (Failed(fresh) \/ Failed(FALSE))
    BY <1>18, <1>b DEF PersistFails, Silencing
  <2> QED
    BY <1>x, <2>1
<1>19. CASE CriticalWrite
  <2>1. Current' = cr /\ EndReconcile /\ cr.marker # "pending"
    BY <1>0, <1>19, <1>t, <1>w DEF CriticalWrite
  <2> QED
    BY <1>e, <2>1
<1>20. CASE CriticalConflict
  <2>1. cr' = AddAnnotations(Cached, cr) /\ pc' = "critical" /\ pc = "critical" /\ ~spent'
    BY <1>20 DEF CriticalConflict
  <2>2. cr'.marker = cr.marker
    BY <2>1, ReadLemma DEF AddAnnotations, Objects, TypeOK
  <2> QED
    BY <1>0, <2>1, <2>2
<1>21. CASE Crash \/ CrashWhileSending
  <2>1. EndReconcile /\ silenced'
    BY <1>21, <1>b DEF Crash, CrashWhileSending, Restart, Silencing
  <2> QED
    BY <1>e, <2>1
<1>22. CASE Machine \/ UNCHANGED vars
  <2>1. /\ UNCHANGED <<pc, cr, fresh, spent>> /\ Current' = Current /\ (silenced => silenced')
    BY <1>22, <1>k, <1>b, <1>n
       DEF Machine, UnitStarts, UnitFails, HostWiped, OrphanFinishes, local, vars
  <2> QED
    BY <1>0, <2>1 DEF Creating
<1> QED
  BY <1>1, <1>2, <1>3, <1>4, <1>5, <1>6, <1>7, <1>8, <1>9, <1>10, <1>11, <1>12, <1>13,
     <1>14, <1>15, <1>16, <1>17, <1>18, <1>19, <1>20, <1>21, <1>22 DEF Next, Progress, Failures

\* An idle worker has left no pending marker behind, with any number of expired
\* contexts and failed commands: only a fault that stops the marker's own writer
\* can (criticalannotation.go: WrapUpdater detaches its context from Create's).
THEOREM MarkerIsCleared == Spec => []PendingIsCleared
<1>1. Init => MarkerInv
  <2> SUFFICES ASSUME Init PROVE MarkerInv
    OBVIOUS
  <2>1. store = <<NoObject>> /\ cr = NoObject /\ pc = "idle" /\ fresh = FALSE
    BY DEF Init
  <2>2. Current = NoObject
    BY <2>1 DEF Current
  <2> QED
    BY <2>1, <2>2 DEF MarkerInv, NoObject
<1>2. TypeOK /\ MarkerInv /\ [Next]_vars => MarkerInv'
  BY MarkerStep
<1>3. MarkerInv => PendingIsCleared
  BY DEF MarkerInv, PendingIsCleared, Creating
<1> QED
  BY <1>1, <1>2, <1>3, TypeCorrect, PTL DEF Spec

-----------------------------------------------------------------------------
(* What deleted versions are evidence of, where no command outlives its    *)
(* session.                                                                *)

\* A step that publishes nothing and takes no new copy.
LEMMA QuietKeepsPromise ==
    ASSUME PromiseInv, store' = store, CopyKept PROVE PromiseInv'
<1>1. Current' = Current
  BY DEF Current
<1>2. StoreRemembersDeletion'
  BY <1>1 DEF PromiseInv, StoreRemembersDeletion, Owned
<1>3. CopyRemembersDeletion'
  BY <1>1, CopyKeptLemma DEF PromiseInv, CopyRemembersDeletion, Owned
<1>4. ObjectsAreWhole'
  BY <1>1, CopyKeptLemma DEF PromiseInv, ObjectsAreWhole
<1> QED
  BY <1>2, <1>3, <1>4 DEF PromiseInv

\* A version is published that is owned only where nothing known is a deletion.
LEMMA WriteKeepsPromise ==
    ASSUME TypeOK, PromiseInv, NEW o \in Objects, Publish(o),
           o.fin => o.exists, o.exists => o.cfg # NoConfig,
           Owned(o) => \/ Owned(Current)
                       \/ ~cr.deleting /\ \A i \in 1..Len(store) : ~store[i].deleting,
           CopyKept
    PROVE  PromiseInv'
<1>1. /\ Current' = o /\ Len(store') = Len(store) + 1 /\ Len(store) \in Nat
      /\ \A i \in 1..Len(store) : store'[i] = store[i]
      /\ store'[Len(store')] = o
  BY PublishLemma, BoundsAssumption DEF TypeOK, Current
<1>i. \A i \in 1..Len(store') : i \in 1..Len(store) \/ i = Len(store')
  BY <1>1
<1>2. StoreRemembersDeletion'
  <2> SUFFICES ASSUME NEW i \in 1..Len(store'), store'[i].deleting PROVE ~Owned(o)
    BY <1>1 DEF StoreRemembersDeletion, Owned
  <2>1. CASE i \in 1..Len(store)
    BY <1>1, <2>1 DEF PromiseInv, StoreRemembersDeletion, Owned
  <2>2. CASE i = Len(store')
    BY <1>1, <2>2 DEF Owned
  <2> QED
    BY <1>i, <2>1, <2>2
<1>3. CopyRemembersDeletion'
  BY <1>1, CopyKeptLemma DEF PromiseInv, CopyRemembersDeletion, Owned
<1>4. ObjectsAreWhole'
  <2>1. \A i \in 1..Len(store') : store'[i].exists => store'[i].cfg # NoConfig
    BY <1>1, <1>i DEF PromiseInv, ObjectsAreWhole
  <2>2. cr'.exists => cr'.cfg # NoConfig
    BY CopyKeptLemma DEF PromiseInv, ObjectsAreWhole
  <2> QED
    BY <1>1, <2>1, <2>2 DEF ObjectsAreWhole
<1> QED
  BY <1>2, <1>3, <1>4 DEF PromiseInv

\* A version is published that others see as the current one.
LEMMA RewriteKeepsPromise ==
    ASSUME TypeOK, PromiseInv, NEW o \in Objects, Publish(o), CopyKept,
           o.exists = Current.exists, o.fin = Current.fin, o.deleting = Current.deleting,
           o.exists => o.cfg # NoConfig
    PROVE  PromiseInv'
<1>1. o.fin => o.exists
  BY DEF PromiseInv, ObjectsAreWhole
<1>2. Owned(o) => Owned(Current)
  BY DEF Owned
<1> QED
  BY <1>1, <1>2, WriteKeepsPromise

LEMMA PromiseStep ==
    ASSUME TypeOK, EvidenceInv, PromiseInv, [Next]_vars PROVE PromiseInv'
<1>t. /\ store \in Seq(Objects) /\ Len(store) \in 1..MaxLag /\ MaxLag \in Nat
      /\ cr \in Objects /\ Current \in Objects /\ fresh \in BOOLEAN
      /\ Cached = store[1] /\ 1 \in 1..Len(store) /\ Len(store) \in 1..Len(store)
      /\ Current = store[Len(store)] /\ (CacheIsCurrent => Cached = Current)
  BY ReadLemma, BoundsAssumption DEF TypeOK, Current
<1>f. fresh => /\ cr.exists = Current.exists /\ cr.fin = Current.fin
               /\ cr.deleting = Current.deleting
  BY DEF EvidenceInv, FreshAgrees
<1>x. pc # "idle" => cr.exists /\ cr.cfg # NoConfig
  BY DEF EvidenceInv, CopyAllowsStep, PromiseInv, ObjectsAreWhole
<1>c. /\ Current.fin => Current.exists
      /\ Current.exists => Current.cfg # NoConfig
      /\ Cached.exists => Cached.cfg # NoConfig
      /\ Cached.deleting => ~Owned(Current)
  BY <1>t DEF PromiseInv, ObjectsAreWhole, StoreRemembersDeletion
<1>u. ASSUME NEW o \in Objects, UserWrites(o), o.fin => o.exists, o.exists => o.cfg # NoConfig,
             Owned(o) => Owned(Current)
      PROVE  PromiseInv'
  BY <1>u, WriteKeepsPromise DEF UserWrites, CopyKept
<1>1. CASE CreateCluster
  <2>1. PICK c \in Configs : UserWrites([NoObject EXCEPT !.exists = TRUE, !.cfg = c])
    BY <1>1 DEF CreateCluster
  <2> DEFINE o == [NoObject EXCEPT !.exists = TRUE, !.cfg = c]
  <2>2. o \in Objects
    BY ObjectLemma, ConfigLemma
  <2>3. o.exists /\ ~o.fin /\ o.cfg = c /\ c # NoConfig
    BY ConfigsAssumption DEF NoObject, NoConfig
  <2> HIDE DEF o
  <2> QED
    BY <1>u, <2>1, <2>2, <2>3 DEF Owned, o
<1>2. CASE EditSpec
  <2>1. PICK c \in Configs : UserWrites([Current EXCEPT !.cfg = c])
    BY <1>2 DEF EditSpec
  <2> DEFINE o == [Current EXCEPT !.cfg = c]
  <2>2. o \in Objects
    BY <1>t, ObjectLemma, ConfigLemma
  <2>3. /\ o.exists = Current.exists /\ o.fin = Current.fin /\ o.deleting = Current.deleting
        /\ o.cfg = c /\ c # NoConfig
    BY <1>t, ConfigsAssumption DEF Objects, NoConfig
  <2> HIDE DEF o
  <2> QED
    BY <1>c, <1>u, <2>1, <2>2, <2>3 DEF Owned, o
<1>3. CASE DeleteCluster
  <2>1. CASE Current.fin
    <3> DEFINE o == [Current EXCEPT !.deleting = TRUE]
    <3>1. UserWrites(o)
      BY <1>3, <2>1 DEF DeleteCluster
    <3>2. o \in Objects
      BY <1>t, ObjectLemma
    <3>3. /\ o.exists = Current.exists /\ o.fin = Current.fin /\ o.deleting
          /\ o.cfg = Current.cfg
      BY <1>t DEF Objects
    <3> HIDE DEF o
    <3> QED
      BY <1>c, <1>u, <3>1, <3>2, <3>3 DEF Owned
  <2>2. CASE ~Current.fin
    <3>1. UserWrites(Gone(Current)) /\ Gone(Current) \in Objects
      BY <1>t, <1>3, <2>2, ObjectLemma DEF DeleteCluster
    <3>2. ~Gone(Current).exists /\ ~Gone(Current).fin
      BY DEF Gone, NoObject
    <3> QED
      BY <1>u, <3>1, <3>2 DEF Owned
  <2> QED
    BY <2>1, <2>2
<1>4. CASE Deliver
  <2>1. /\ Len(store') = Len(store) - 1 /\ Len(store') \in 1..MaxLag /\ Current' = Current
        /\ \A i \in 1..Len(store') : store'[i] = store[i + 1]
    BY <1>t, <1>4, DeliverLemma
  <2>2. \A i \in 1..Len(store') : i + 1 \in 1..Len(store)
    BY <1>t, <2>1
  <2>3. cr' = cr
    BY <1>4 DEF Deliver, local
  <2>4. StoreRemembersDeletion'
    BY <2>1, <2>2 DEF PromiseInv, StoreRemembersDeletion, Owned
  <2>5. CopyRemembersDeletion'
    BY <2>1, <2>3 DEF PromiseInv, CopyRemembersDeletion, Owned
  <2>6. ObjectsAreWhole'
    BY <2>1, <2>2, <2>3 DEF PromiseInv, ObjectsAreWhole
  <2> QED
    BY <2>4, <2>5, <2>6 DEF PromiseInv
\* A copy is taken from the cache.
<1>r. ASSUME store' = store, cr'.exists = Cached.exists, cr'.deleting = Cached.deleting,
             cr'.cfg = Cached.cfg
      PROVE  PromiseInv'
  <2>1. Current' = Current
    BY <1>r DEF Current
  <2> QED
    BY <1>r, <1>c, <2>1 DEF PromiseInv, StoreRemembersDeletion, CopyRemembersDeletion,
       ObjectsAreWhole, Owned
<1>5. CASE StartReconcile
  BY <1>5, <1>r DEF StartReconcile
<1>6. CASE Observe
  <2>1. CopyKept
    BY <1>6, EndDropsCopy DEF Observe, GoTo, CopyKept
  <2> QED
    BY <1>6, <2>1, QuietKeepsPromise DEF Observe
<1>7. CASE ObserveFails \/ Conflict \/ CriticalGivesUp \/ UninstallSucceeds \/ UninstallFails
  BY <1>7, QuietKeepsPromise, EndDropsCopy
     DEF ObserveFails, Conflict, CriticalGivesUp, UninstallSucceeds, UninstallFails
\* The finalizer is added to a copy that is all the cache has.
<1>a. ASSUME pc = "protect", fresh, Publish(Protected(cr)), CopyKept PROVE PromiseInv'
  <2>1. Len(store) = 1 /\ ~cr.deleting /\ cr.exists
    BY <1>a DEF EvidenceInv, FreshIsCached, CopyAllowsStep
  <2>2. \A i \in 1..Len(store) : ~store[i].deleting
    BY <1>a, <1>f, <1>t, <2>1
  <2> QED
    BY <1>a, <1>x, <2>1, <2>2, FullUpdateLemma, WriteKeepsPromise
<1>8. CASE AddFinalizer
  <2>1. CopyKept
    BY <1>8, EndDropsCopy, FullUpdateLemma DEF AddFinalizer, GoTo, CopyKept
  <2> QED
    BY <1>8, <1>a, <2>1 DEF AddFinalizer
<1>9. CASE MarkPending
  <2>1. CopyKept
    BY <1>9, FullUpdateLemma DEF MarkPending, GoTo, CopyKept
  <2> QED
    BY <1>9, <1>f, <1>x, <2>1, FullUpdateLemma, RewriteKeepsPromise DEF MarkPending
<1>g. ASSUME Publish(Gone(cr)), CopyKept PROVE PromiseInv'
  <2>1. ~Owned(Gone(cr))
    BY FullUpdateLemma DEF Owned
  <2> QED
    BY <1>g, <2>1, FullUpdateLemma, WriteKeepsPromise
<1>10. CASE RemoveFinalizer
  BY <1>10, <1>g, EndDropsCopy DEF RemoveFinalizer
<1>11. CASE UpdateFails
  <2>1. CopyKept /\ fresh /\ pc # "idle"
    BY <1>11, EndDropsCopy DEF UpdateFails
  <2>2. CASE store' = store
    BY <2>1, <2>2, QuietKeepsPromise
  <2>3. CASE Publish(FullUpdate) /\ pc = "protect"
    BY <1>a, <2>1, <2>3 DEF FullUpdate
  <2>4. CASE Publish(FullUpdate) /\ pc = "markPending"
    <3>1. FullUpdate = Pending(cr)
      BY <2>4 DEF FullUpdate
    <3> QED
      BY <1>f, <1>x, <2>1, <2>4, <3>1, FullUpdateLemma, RewriteKeepsPromise
  <2>5. CASE Publish(FullUpdate) /\ pc = "release"
    <3>1. FullUpdate = Gone(cr)
      BY <2>5 DEF FullUpdate
    <3> QED
      BY <1>g, <2>1, <2>5, <3>1
  <2>6. CASE Publish(FullUpdate) /\ pc = "critical"
    <3>1. FullUpdate = cr
      BY <2>6 DEF FullUpdate
    <3> QED
      BY <1>f, <1>t, <1>x, <2>1, <2>6, <3>1, RewriteKeepsPromise
  <2> QED
    BY <1>11, <2>2, <2>3, <2>4, <2>5, <2>6 DEF UpdateFails
<1>12. CASE InstallSucceeds
  BY <1>12, QuietKeepsPromise, SentKeepsCopy DEF InstallSucceeds
<1>13. CASE InstallMasked
  BY <1>t, <1>13, QuietKeepsPromise, SentKeepsCopy, FailedKeepsCopy DEF InstallMasked
<1>14. CASE InstallFails \/ InstallTimesOut \/ PersistTimesOut \/ PersistGivesUp
  BY <1>t, <1>14, QuietKeepsPromise, FailedKeepsCopy
     DEF InstallFails, InstallTimesOut, PersistTimesOut, PersistGivesUp
<1>15. CASE ContextExpires
  BY <1>15, QuietKeepsPromise DEF ContextExpires, CopyKept
<1>w. ASSUME CacheIsCurrent, Publish(persisted(Cached)), CopyKept PROVE PromiseInv'
  BY <1>w, <1>c, PersistedLemma, RewriteKeepsPromise
<1>16. CASE PersistWrites
  <2>1. CopyKept
    BY <1>16, RecordedKeepsCopy DEF PersistWrites
  <2> QED
    BY <1>16, <1>w, <2>1 DEF PersistWrites
<1>17. CASE PersistKeeps
  BY <1>t, <1>17, QuietKeepsPromise, RecordedKeepsCopy DEF PersistKeeps
<1>18. CASE PersistFails
  <2>1. CASE store' = store /\ Failed(fresh)
    BY <1>t, <2>1, QuietKeepsPromise, FailedKeepsCopy
  <2>2. CASE CacheIsCurrent /\ Publish(persisted(Cached)) /\ Failed(FALSE)
    <3>1. CopyKept
      BY <2>2, FailedKeepsCopy
    <3> QED
      BY <1>w, <2>2, <3>1
  <2> QED
    BY <1>18, <2>1, <2>2 DEF PersistFails
<1>19. CASE CriticalWrite
  <2>1. CopyKept /\ Publish(cr) /\ fresh /\ pc # "idle"
    BY <1>19, EndDropsCopy DEF CriticalWrite
  <2> QED
    BY <1>f, <1>t, <1>x, <2>1, RewriteKeepsPromise
<1>20. CASE CriticalConflict
  BY <1>20, <1>r, AnnotationsLemma DEF CriticalConflict
<1>21. CASE Crash \/ CrashWhileSending
  <2>1. Restart
    BY <1>21 DEF Crash, CrashWhileSending
  <2>2. Len(store') = 1 /\ Current' = Current /\ store'[1] = Current /\ cr' = NoObject
    BY <1>t, <2>1, RestartLemma DEF Restart, EndReconcile
  <2> QED
    BY <1>c, <2>2 DEF PromiseInv, StoreRemembersDeletion, CopyRemembersDeletion,
       ObjectsAreWhole, Owned, NoObject
<1>22. CASE Machine \/ UNCHANGED vars
  <2>1. store' = store /\ cr' = cr
    BY <1>22 DEF Machine, UnitStarts, UnitFails, HostWiped, OrphanFinishes, local, vars
  <2> QED
    BY <2>1, QuietKeepsPromise DEF CopyKept
<1> QED
  BY <1>1, <1>2, <1>3, <1>4, <1>5, <1>6, <1>7, <1>8, <1>9, <1>10, <1>11, <1>12, <1>13,
     <1>14, <1>15, <1>16, <1>17, <1>18, <1>19, <1>20, <1>21, <1>22
     DEF Next, Users, Progress, Failures

LEMMA PromiseInit == Init => PromiseInv
<1> SUFFICES ASSUME Init PROVE PromiseInv
  OBVIOUS
<1>1. store = <<NoObject>> /\ cr = NoObject
  BY DEF Init
<1>2. Len(store) = 1 /\ store[1] = NoObject /\ Current = NoObject
  BY <1>1 DEF Current
<1> QED
  BY <1>1, <1>2 DEF PromiseInv, StoreRemembersDeletion, CopyRemembersDeletion,
     ObjectsAreWhole, NoObject

\* No version with a deletionTimestamp is in the worker's reach once the
\* resource has been created again and has its finalizer, whatever the faults.
THEOREM DeletionIsRemembered == Spec => []PromiseInv
<1>1. TypeOK /\ EvidenceInv /\ PromiseInv /\ [Next]_vars => PromiseInv'
  BY PromiseStep
<1> QED
  BY <1>1, PromiseInit, TypeCorrect, EvidenceHolds, PTL DEF Spec

-----------------------------------------------------------------------------
(* The refinement of ManagedResource.                                      *)

\* What the refinement mapping makes of the object and of the machine.
Declared == IF ~Current.exists THEN "absent"
            ELSE IF Current.deleting THEN "withdrawn" ELSE "live"
SetUp == sent # NoConfig /\ Exists(host)

\* An object that stays as others see it is declared and guarded as before.
ObjectKept == Declared' = Declared /\ Current'.fin = Current.fin

PerhapsAFault == faults' \in {faults, faults + 1}

Step == [Lifecycle!Next]_(Lifecycle!vars)

LEMMA MapsToStutter ==
    ASSUME ObjectKept, SetUp' = SetUp, faults' = faults PROVE Step
BY DEF Step, Lifecycle!vars, ObjectKept, Declared, SetUp

LEMMA MapsToTrouble ==
    ASSUME ObjectKept, SetUp' = SetUp, faults' = faults + 1 PROVE Step
BY DEF Step, Lifecycle!Next, Lifecycle!Trouble, ObjectKept, Declared, SetUp

LEMMA MapsToKept ==
    ASSUME ObjectKept, SetUp' = SetUp, PerhapsAFault PROVE Step
BY MapsToStutter, MapsToTrouble DEF PerhapsAFault

LEMMA MapsToInstall ==
    ASSUME ObjectKept, SetUp' = TRUE, Guarded, Current.fin \in BOOLEAN, PerhapsAFault PROVE Step
<1>1. Declared # "absent" /\ Current.fin
  BY DEF Declared, Guarded
<1>2. Lifecycle!PerhapsFaulty
  BY DEF Lifecycle!PerhapsFaulty, PerhapsAFault
<1>3. Lifecycle!Install
  BY <1>1, <1>2 DEF Lifecycle!Install, ObjectKept, Declared, SetUp
<1> QED
  BY <1>3 DEF Step, Lifecycle!Next

LEMMA MapsToUninstall ==
    ASSUME ObjectKept, SetUp' = FALSE, SetUp => Declared = "withdrawn", PerhapsAFault PROVE Step
<1>1. CASE SetUp
  <2>1. Lifecycle!PerhapsFaulty
    BY DEF Lifecycle!PerhapsFaulty, PerhapsAFault
  <2>2. Lifecycle!Uninstall
    BY <1>1, <2>1 DEF Lifecycle!Uninstall, ObjectKept, Declared, SetUp
  <2> QED
    BY <2>2 DEF Step, Lifecycle!Next
<1>2. CASE ~SetUp
  <2>1. SetUp' = SetUp
    BY <1>2 DEF SetUp
  <2> QED
    BY <2>1, MapsToKept
<1> QED
  BY <1>1, <1>2

LEMMA MapsToLose ==
    ASSUME ObjectKept, SetUp' = FALSE, faults' = faults + 1 PROVE Step
<1>1. Lifecycle!Lose
  BY DEF Lifecycle!Lose, ObjectKept, Declared, SetUp
<1> QED
  BY <1>1 DEF Step, Lifecycle!Next

LEMMA MapsToGuard ==
    ASSUME Declared = "live", Declared' = "live", Current'.fin = TRUE, SetUp' = SetUp,
           PerhapsAFault
    PROVE  Step
<1>1. Lifecycle!PerhapsFaulty
  BY DEF Lifecycle!PerhapsFaulty, PerhapsAFault
<1>2. Lifecycle!Guard
  BY <1>1 DEF Lifecycle!Guard, Declared, SetUp
<1> QED
  BY <1>2 DEF Step, Lifecycle!Next

LEMMA MapsToRelease ==
    ASSUME Declared = "withdrawn", Declared' = "absent", Current'.fin = FALSE,
           SetUp = FALSE, SetUp' = SetUp, PerhapsAFault
    PROVE  Step
<1>1. Lifecycle!PerhapsFaulty
  BY DEF Lifecycle!PerhapsFaulty, PerhapsAFault
<1>2. Lifecycle!Release
  BY <1>1 DEF Lifecycle!Release, Declared, SetUp
<1> QED
  BY <1>2 DEF Step, Lifecycle!Next

LEMMA MapsToDeclare ==
    ASSUME Declared = "absent", Declared' = "live", Current'.fin = Current.fin,
           SetUp' = SetUp, faults' = faults
    PROVE  Step
<1>1. Lifecycle!Declare
  BY DEF Lifecycle!Declare, Lifecycle!PerhapsFaulty, Declared, SetUp
<1> QED
  BY <1>1 DEF Step, Lifecycle!Next

LEMMA MapsToWithdraw ==
    ASSUME Declared = "live", Declared' = IF Current.fin THEN "withdrawn" ELSE "absent",
           Current'.fin = Current.fin, SetUp' = SetUp, faults' = faults
    PROVE  Step
<1>1. Lifecycle!Withdraw
  BY DEF Lifecycle!Withdraw, Lifecycle!PerhapsFaulty, Declared, SetUp
<1> QED
  BY <1>1 DEF Step, Lifecycle!Next

\* An interrupted or completed install leaves a unit where there was one.
LEMMA InstallLemma ==
    ASSUME NEW h \in Hosts, NEW c
    PROVE  /\ Exists(Installed(h, c))
           /\ Exists(Restarted(h)) <=> Exists(h)
           /\ Exists(Down(h)) <=> Exists(h)
           /\ Exists(Started(h)) <=> Exists(h)
           /\ \A g \in PartialInstalls(h, c) : Exists(h) => Exists(g)
           /\ \A g \in PartialUninstalls(h) : Exists(g) => Exists(h)
<1>1. Exists(Written(h, c)) /\ Exists(Installed(h, c)) /\ ~Exists(NoUnit)
  BY DEF Exists, Written, Installed, Restarted, Hosts, NoUnit
<1>2. /\ Exists(Restarted(h)) <=> Exists(h)
      /\ Exists(Down(h)) <=> Exists(h)
      /\ Exists(Started(h)) <=> Exists(h)
  BY DEF Exists, Restarted, Down, Started, Hosts
<1> QED
  BY <1>1, <1>2 DEF PartialInstalls, PartialUninstalls

LEMMA RefinementStep ==
    ASSUME "orphan" \notin Faults, TypeOK, ProtectionInv, PromiseInv, [Next]_vars
    PROVE  Step
<1>t. /\ store \in Seq(Objects) /\ Len(store) \in 1..MaxLag
      /\ cr \in Objects /\ Current \in Objects /\ fresh \in BOOLEAN /\ host \in Hosts
      /\ Current.fin \in BOOLEAN
  BY ReadLemma DEF TypeOK, Objects
<1>f. fresh => /\ cr.exists = Current.exists /\ cr.fin = Current.fin
               /\ cr.deleting = Current.deleting
  BY DEF ProtectionInv, EvidenceInv, FreshAgrees
<1>x. pc # "idle" => cr.exists /\ cr.cfg # NoConfig
  BY DEF ProtectionInv, EvidenceInv, CopyAllowsStep, PromiseInv, ObjectsAreWhole
<1>c. Current.fin => Current.exists
  BY DEF PromiseInv, ObjectsAreWhole
<1>k. ASSUME store' = store \/ Current' = Current PROVE ObjectKept
  BY <1>k DEF Current, ObjectKept, Declared
<1>h. ASSUME UNCHANGED <<host, sent>> PROVE SetUp' = SetUp
  BY <1>h DEF SetUp
<1>w. ASSUME NEW o \in Objects, Publish(o) PROVE Current' = o
  BY <1>t, <1>w, PublishLemma
\* A version is published that others see as the current one.
<1>p. ASSUME NEW o \in Objects, Publish(o), o.exists = Current.exists, o.fin = Current.fin,
             o.deleting = Current.deleting
      PROVE  ObjectKept
  BY <1>p, <1>w DEF ObjectKept, Declared
<1>m. ASSUME NEW kind, Fault(kind) PROVE faults' = faults + 1 /\ PerhapsAFault
  BY <1>m DEF Fault, PerhapsAFault
<1>n. ASSUME UNCHANGED budgets PROVE faults' = faults /\ PerhapsAFault
  BY <1>n DEF budgets, PerhapsAFault
\* An install is sent, and leaves the machine somewhere on its way.
<1>i. ASSUME Sending, ObjectKept, sent' = cr.cfg, Exists(host) => Exists(host'),
             PerhapsAFault
      PROVE  Step
  <2>1. Guarded
    BY <1>i DEF ProtectionInv, EvidenceInv, CopyAllowsStep, CopyIsEvidence
  <2>2. sent' # NoConfig
    BY <1>i, <1>x DEF Sending
  <2>3. CASE Exists(host')
    <3>1. SetUp' = TRUE
      BY <2>2, <2>3 DEF SetUp
    <3> QED
      BY <1>i, <1>t, <2>1, <3>1, MapsToInstall
  <2>4. CASE ~Exists(host')
    <3>1. SetUp' = SetUp
      BY <1>i, <2>4 DEF SetUp
    <3> QED
      BY <1>i, <3>1, MapsToKept
  <2> QED
    BY <2>3, <2>4
<1>1. CASE CreateCluster
  <2>1. PICK c \in Configs : UserWrites([NoObject EXCEPT !.exists = TRUE, !.cfg = c])
    BY <1>1 DEF CreateCluster
  <2> DEFINE o == [NoObject EXCEPT !.exists = TRUE, !.cfg = c]
  <2>2. Current' = o
    BY <2>1, <1>w, ObjectLemma, ConfigLemma DEF UserWrites
  <2>3. o.exists = TRUE /\ o.fin = FALSE /\ o.deleting = FALSE
    BY DEF NoObject
  <2> HIDE DEF o
  <2>4. Declared = "absent" /\ Declared' = "live"
    BY <1>1, <2>2, <2>3 DEF CreateCluster, Declared
  <2>5. Current'.fin = Current.fin
    BY <1>1, <1>c, <1>t, <2>2, <2>3 DEF CreateCluster
  <2> QED
    BY <2>1, <1>h, <2>4, <2>5, MapsToDeclare DEF UserWrites
<1>2. CASE EditSpec
  <2>1. PICK c \in Configs : UserWrites([Current EXCEPT !.cfg = c])
    BY <1>2 DEF EditSpec
  <2> DEFINE o == [Current EXCEPT !.cfg = c]
  <2>2. /\ o.exists = Current.exists /\ o.fin = Current.fin /\ o.deleting = Current.deleting
        /\ o \in Objects
    BY <1>t, ObjectLemma, ConfigLemma DEF Objects
  <2>3. Publish(o) /\ faults' = faults /\ UNCHANGED <<host, sent>>
    BY <2>1 DEF UserWrites
  <2> HIDE DEF o
  <2> QED
    BY <1>p, <1>h, <2>2, <2>3, MapsToStutter
<1>3. CASE DeleteCluster
  <2>1. Declared = "live"
    BY <1>3 DEF DeleteCluster, Declared
  <2>2. CASE Current.fin
    <3> DEFINE o == [Current EXCEPT !.deleting = TRUE]
    <3>1. UserWrites(o) /\ o \in Objects
      BY <1>3, <1>t, <2>2, ObjectLemma DEF DeleteCluster
    <3>2. o.exists = Current.exists /\ o.fin = Current.fin /\ o.deleting = TRUE
      BY <1>t DEF Objects
    <3> HIDE DEF o
    <3>3. Current' = o
      BY <1>w, <3>1 DEF UserWrites
    <3>4. Declared' = "withdrawn" /\ Current'.fin = Current.fin
      BY <1>3, <3>2, <3>3 DEF DeleteCluster, Declared
    <3> QED
      BY <1>h, <2>1, <2>2, <3>1, <3>4, MapsToWithdraw DEF UserWrites
  <2>3. CASE ~Current.fin
    <3>1. UserWrites(Gone(Current)) /\ Gone(Current) \in Objects
      BY <1>3, <1>t, <2>3, ObjectLemma DEF DeleteCluster
    <3>2. Gone(Current).exists = FALSE /\ Gone(Current).fin = FALSE
      BY DEF Gone, NoObject
    <3>3. Current' = Gone(Current)
      BY <1>w, <3>1 DEF UserWrites
    <3>4. Declared' = "absent" /\ Current'.fin = Current.fin
      BY <1>t, <2>3, <3>2, <3>3 DEF Declared
    <3> QED
      BY <1>h, <2>1, <2>3, <3>1, <3>4, MapsToWithdraw DEF UserWrites
  <2> QED
    BY <2>2, <2>3
<1>4. CASE Deliver
  <2>1. Current' = Current
    BY <1>t, <1>4, DeliverLemma
  <2> QED
    BY <1>4, <1>k, <1>h, <1>n, <2>1, MapsToStutter DEF Deliver
<1>5. CASE StartReconcile \/ Observe \/ Conflict \/ CriticalConflict \/ CriticalGivesUp
           \/ PersistKeeps \/ PersistTimesOut
  BY <1>5, <1>k, <1>h, <1>n, MapsToStutter
     DEF StartReconcile, Observe, Conflict, CriticalConflict, CriticalGivesUp,
         PersistKeeps, PersistTimesOut
<1>6. CASE ObserveFails \/ ContextExpires \/ PersistGivesUp
  BY <1>6, <1>k, <1>h, <1>m, MapsToTrouble DEF ObserveFails, ContextExpires, PersistGivesUp
\* The finalizer is added to an object nobody has withdrawn.
<1>a. ASSUME pc = "protect", fresh, Publish(Protected(cr)), UNCHANGED <<host, sent>>,
             PerhapsAFault
      PROVE  Step
  <2>1. cr.exists /\ ~cr.deleting
    BY <1>a, <1>x DEF ProtectionInv, EvidenceInv, CopyAllowsStep
  <2>2. Current' = Protected(cr)
    BY <1>a, <1>w, FullUpdateLemma
  <2>3. Declared = "live"
    BY <1>a, <1>f, <2>1 DEF Declared
  <2>4. Declared' = "live"
    BY <2>1, <2>2, FullUpdateLemma DEF Declared
  <2>5. Current'.fin = TRUE
    BY <2>2 DEF Protected, Objects
  <2> QED
    BY <1>a, <1>h, <2>3, <2>4, <2>5, MapsToGuard
<1>7. CASE AddFinalizer
  BY <1>7, <1>a, <1>n DEF AddFinalizer
<1>b. ASSUME fresh, Publish(Pending(cr)) PROVE ObjectKept
  BY <1>b, <1>f, <1>p, FullUpdateLemma
<1>8. CASE MarkPending
  BY <1>8, <1>b, <1>h, <1>n, MapsToStutter DEF MarkPending
\* The finalizer is removed from an object that is going and has no unit.
<1>r. ASSUME pc = "release", fresh, Publish(Gone(cr)), UNCHANGED <<host, sent>>,
             PerhapsAFault
      PROVE  Step
  <2>1. cr.exists /\ cr.deleting /\ ~Exists(host)
    BY <1>r, <1>x DEF ProtectionInv, EvidenceInv, CopyAllowsStep, AbsenceStillHolds
  <2>2. Current' = Gone(cr)
    BY <1>r, <1>w, FullUpdateLemma
  <2>3. Declared = "withdrawn"
    BY <1>r, <1>f, <2>1 DEF Declared
  <2>4. Declared' = "absent"
    BY <2>2, FullUpdateLemma DEF Declared
  <2>5. Current'.fin = FALSE
    BY <2>2 DEF Gone, NoObject
  <2>6. SetUp = FALSE
    BY <2>1 DEF SetUp
  <2> QED
    BY <1>r, <1>h, <2>3, <2>4, <2>5, <2>6, MapsToRelease
<1>9. CASE RemoveFinalizer
  BY <1>9, <1>r, <1>n DEF RemoveFinalizer
<1>d. ASSUME fresh, Publish(cr) PROVE ObjectKept
  BY <1>d, <1>t, <1>f, <1>p
<1>10. CASE UpdateFails
  <2>1. /\ fresh /\ UNCHANGED <<host, sent>> /\ PerhapsAFault /\ SetUp' = SetUp
    BY <1>10, <1>h, <1>m DEF UpdateFails
  <2>2. CASE store' = store
    BY <1>k, <2>1, <2>2, MapsToKept
  <2>3. CASE Publish(FullUpdate) /\ pc = "protect"
    BY <1>a, <2>1, <2>3 DEF FullUpdate
  <2>4. CASE Publish(FullUpdate) /\ pc = "markPending"
    <3>1. FullUpdate = Pending(cr)
      BY <2>4 DEF FullUpdate
    <3> QED
      BY <1>b, <2>1, <2>4, <3>1, MapsToKept
  <2>5. CASE Publish(FullUpdate) /\ pc = "release"
    <3>1. FullUpdate = Gone(cr)
      BY <2>5 DEF FullUpdate
    <3> QED
      BY <1>r, <2>1, <2>5, <3>1
  <2>6. CASE Publish(FullUpdate) /\ pc = "critical"
    <3>1. FullUpdate = cr
      BY <2>6 DEF FullUpdate
    <3> QED
      BY <1>d, <2>1, <2>6, <3>1, MapsToKept
  <2> QED
    BY <1>10, <2>2, <2>3, <2>4, <2>5, <2>6 DEF UpdateFails
<1>11. CASE InstallSucceeds
  BY <1>11, <1>i, <1>k, <1>n, <1>t, InstallLemma DEF InstallSucceeds
<1>12. CASE InstallMasked
  <2>1. Exists(host) => Exists(host')
    BY <1>12, <1>t, InstallLemma DEF InstallMasked
  <2> QED
    BY <1>12, <1>i, <1>k, <1>m, <2>1 DEF InstallMasked
<1>13. CASE InstallFails
  BY <1>13, <1>i, <1>k, <1>m, <1>t, InstallLemma DEF InstallFails
<1>s. ASSUME CutShort PROVE Exists(host) => Exists(host')
  BY <1>s, <1>t, InstallLemma DEF CutShort
<1>14. CASE InstallTimesOut
  BY <1>14, <1>i, <1>k, <1>n, <1>s DEF InstallTimesOut
<1>q. ASSUME CacheIsCurrent, Publish(persisted(Cached)) PROVE ObjectKept
  BY <1>q, <1>p, PersistedLemma
<1>15. CASE PersistWrites
  BY <1>15, <1>q, <1>h, <1>n, MapsToStutter DEF PersistWrites
<1>16. CASE PersistFails
  <2>1. ObjectKept
    BY <1>16, <1>k, <1>q DEF PersistFails
  <2> QED
    BY <1>16, <1>h, <1>m, <2>1, MapsToTrouble DEF PersistFails
<1>17. CASE CriticalWrite
  BY <1>17, <1>d, <1>h, <1>n, MapsToStutter DEF CriticalWrite
\* A stale copy of a deletion is still reason enough: the resource has not been
\* owned since.
<1>18. CASE UninstallSucceeds
  <2>1. cr.deleting /\ ObjectKept /\ SetUp' = FALSE /\ PerhapsAFault
    BY <1>18, <1>k, <1>n DEF UninstallSucceeds, ProtectionInv, EvidenceInv, CopyAllowsStep,
       SetUp, Exists, NoUnit
  <2>2. SetUp => Declared = "withdrawn"
    BY <2>1 DEF SetUp, ProtectionInv, InstalledIsProtected, PromiseInv,
       CopyRemembersDeletion, Owned, Declared
  <2> QED
    BY <2>1, <2>2, MapsToUninstall
<1>l. ASSUME ObjectKept, sent' = sent, Exists(host') => Exists(host), faults' = faults + 1
      PROVE  Step
  <2>1. CASE SetUp' = SetUp
    BY <1>l, <2>1, MapsToTrouble
  <2>2. CASE SetUp' # SetUp
    <3>1. SetUp' = FALSE
      BY <1>l, <2>2 DEF SetUp
    <3> QED
      BY <1>l, <3>1, MapsToLose
  <2> QED
    BY <2>1, <2>2
<1>19. CASE UninstallFails
  BY <1>19, <1>k, <1>l, <1>m, <1>t, InstallLemma DEF UninstallFails
<1>20. CASE Crash \/ CrashWhileSending
  <2>1. Restart
    BY <1>20 DEF Crash, CrashWhileSending
  <2>2. ObjectKept /\ PerhapsAFault /\ faults' = faults + 1
    BY <1>t, <1>k, <1>m, <2>1, RestartLemma DEF Restart
  <2>3. CASE Crash
    BY <1>h, <2>2, <2>3, MapsToTrouble DEF Crash
  <2>4. CASE CrashWhileSending
    BY <1>i, <1>s, <2>2, <2>4 DEF CrashWhileSending
  <2> QED
    BY <1>20, <2>3, <2>4
<1>21. CASE UnitStarts
  <2>1. ObjectKept /\ faults' = faults
    BY <1>21, <1>k, <1>n DEF UnitStarts
  <2>2. SetUp' = SetUp
    BY <1>21, <1>t, InstallLemma DEF UnitStarts, SetUp
  <2> QED
    BY <2>1, <2>2, MapsToStutter
<1>22. CASE UnitFails \/ HostWiped
  <2>1. ObjectKept /\ faults' = faults + 1 /\ sent' = sent
    BY <1>22, <1>k, <1>m DEF UnitFails, HostWiped
  <2>2. Exists(host') => Exists(host)
    BY <1>22, <1>t, InstallLemma DEF UnitFails, HostWiped
  <2> QED
    BY <1>l, <2>1, <2>2
<1>23. CASE OrphanFinishes
  BY <1>23 DEF OrphanFinishes, ProtectionInv
<1>24. CASE UNCHANGED vars
  BY <1>24, <1>k, <1>h, MapsToStutter DEF vars
<1> QED
  BY <1>1, <1>2, <1>3, <1>4, <1>5, <1>6, <1>7, <1>8, <1>9, <1>10, <1>11, <1>12, <1>13,
     <1>14, <1>15, <1>16, <1>17, <1>18, <1>19, <1>20, <1>21, <1>22, <1>23, <1>24
     DEF Next, Users, Progress, Failures, Machine

LEMMA RefinementInit == Init => Lifecycle!Init
<1> SUFFICES ASSUME Init PROVE Lifecycle!Init
  OBVIOUS
<1>1. store = <<NoObject>> /\ sent = NoConfig /\ faults = 0
  BY DEF Init
<1>2. Current = NoObject
  BY <1>1 DEF Current
<1> QED
  BY <1>1, <1>2 DEF Lifecycle!Init, NoObject

\* The Cluster controller keeps the promise of ManagedResource, whatever faults
\* strike and however stale the copies are that it works on, as long as no
\* command outlives its session.
THEOREM ClusterKeepsThePromise ==
    ASSUME "orphan" \notin Faults PROVE Spec => KeepsThePromise
<1>1. TypeOK /\ ProtectionInv /\ PromiseInv /\ [Next]_vars => [Lifecycle!Next]_(Lifecycle!vars)
  BY RefinementStep DEF Step
<1> QED
  BY <1>1, RefinementInit, TypeCorrect, ProtectionHolds, DeletionIsRemembered, PTL
     DEF Spec, KeepsThePromise, Lifecycle!Spec

-----------------------------------------------------------------------------
(* Verdicts.                                                               *)

LEMMA ConfigsAreNumbers ==
    /\ NoConfig \in Nat /\ \A c \in ConfigOrNone : c \in Nat
    /\ \A o \in Objects : o.cfg \in Nat /\ o.ann \in Nat
<1>1. NoConfig \in Nat /\ \A c \in ConfigOrNone : c \in Nat
  BY ConfigsAssumption DEF ConfigOrNone, NoConfig
<1>2. \A o \in Objects : o.cfg \in ConfigOrNone /\ o.ann \in ConfigOrNone
  BY DEF Objects
<1> QED
  BY <1>1, <1>2

\* What a step may do with the copy: drop it, carry it on, or record in it what
\* was sent.
CopyCarried ==
    /\ pc' # "idle" => pc # "idle" /\ cr'.cfg = cr.cfg
    /\ Persisting' => Persisting /\ cr'.cfg = cr.cfg
    /\ cr'.ann \in {cr.ann, NoConfig} \/ (Persisting /\ cr'.ann = cr.cfg)

\* The versions are among those there were, in their order.
StoreShrinks == /\ SpecsGrow'
                /\ \A i \in 1..Len(store') : \E j \in 1..Len(store) : store'[i] = store[j]

HostIsWhole == ~Exists(host) => host.state = "down"

LEMMA SameStoreShrinks == ASSUME SpecsGrow, store' = store PROVE StoreShrinks
<1>1. SpecsGrow'
  BY DEF SpecsGrow
<1> QED
  BY <1>1 DEF StoreShrinks

\* A step that sends and publishes nothing.
LEMMA QuietKeepsVerdict ==
    ASSUME TypeOK, VerdictInv, StoreShrinks, CopyCarried, sent' = sent,
           RunsAsSent => RunsAsSent', HostIsWhole'
    PROVE  VerdictInv'
<1>1. CopyIsPast'
  BY DEF VerdictInv, CopyIsPast, StoreShrinks, CopyCarried
<1>2. SentIsBetween'
  <2>1. \A i \in 1..Len(store') : store'[i].ann =< sent /\ sent =< store'[i].cfg
    BY DEF VerdictInv, SentIsBetween, StoreShrinks
  <2>2. sent \in Nat /\ sent =< sent /\ NoConfig =< sent
    BY ConfigsAreNumbers DEF TypeOK, NoConfig
  <2>3. cr'.ann =< sent
    BY <2>2 DEF VerdictInv, SentIsBetween, CopyCarried
  <2> QED
    BY <2>1, <2>3 DEF SentIsBetween
<1>3. RecordedIsTrue'
  <2> SUFFICES ASSUME sent # NoConfig,
                      \/ \E i \in 1..Len(store') : store'[i].ann = sent
                      \/ cr'.ann = sent
                      \/ Persisting'
               PROVE  RunsAsSent'
    BY DEF RecordedIsTrue
  <2>1. \/ \E i \in 1..Len(store) : store[i].ann = sent
        \/ cr.ann = sent
        \/ Persisting
    BY DEF StoreShrinks, CopyCarried
  <2> QED
    BY <2>1 DEF VerdictInv, RecordedIsTrue
<1>4. Persisting' => sent' = cr'.cfg
  BY DEF VerdictInv, CopyCarried
<1>5. (~Exists(host) => host.state = "down")'
  BY DEF HostIsWhole
<1> QED
  BY <1>1, <1>2, <1>3, <1>4, <1>5 DEF VerdictInv, StoreShrinks

\* A version is published that asks for no less than the last one, and that
\* records nothing the machine does not have.
LEMMA WriteKeepsVerdict ==
    ASSUME TypeOK, VerdictInv, NEW o \in Objects, Publish(o), CopyCarried,
           sent' = sent, host' = host,
           Current.cfg =< o.cfg, o.ann =< sent,
           sent # NoConfig /\ o.ann = sent => RunsAsSent
    PROVE  VerdictInv'
<1>0. /\ Len(store') = Len(store) + 1 /\ Len(store) \in Nat /\ Len(store) \in 1..Len(store)
      /\ \A i \in 1..Len(store) : store'[i] = store[i]
      /\ store'[Len(store')] = o /\ Current = store[Len(store)]
  BY PublishLemma, BoundsAssumption DEF TypeOK, Current
<1>i. \A i \in 1..Len(store') : i \in 1..Len(store) \/ i = Len(store')
  BY <1>0
<1>n. /\ o.cfg \in Nat /\ sent \in Nat /\ cr.cfg \in Nat
      /\ \A i \in 1..Len(store) : store[i].cfg \in Nat
  BY ConfigsAreNumbers DEF TypeOK
<1>c. \A i \in 1..Len(store) : store[i].cfg =< o.cfg
  <2> TAKE i \in 1..Len(store)
  <2>1. store[i].cfg =< store[Len(store)].cfg
    BY <1>0 DEF VerdictInv, SpecsGrow
  <2> QED
    BY <1>0, <1>n, <2>1
<1>1. SpecsGrow'
  <2> SUFFICES ASSUME NEW i \in 1..Len(store'), NEW j \in 1..Len(store'), i =< j
               PROVE  store'[i].cfg =< store'[j].cfg
    BY DEF SpecsGrow
  <2>1. CASE j \in 1..Len(store)
    <3>1. i \in 1..Len(store)
      BY <1>0, <2>1
    <3> QED
      BY <1>0, <2>1, <3>1 DEF VerdictInv, SpecsGrow
  <2>2. CASE j = Len(store')
    BY <1>0, <1>c, <1>i, <1>n, <2>2
  <2> QED
    BY <1>i, <2>1, <2>2
<1>2. CopyIsPast'
  <2> SUFFICES ASSUME pc' # "idle"
               PROVE  sent =< cr.cfg /\ \A i \in 1..Len(store') : cr.cfg =< store'[i].cfg
    BY DEF CopyIsPast, CopyCarried
  <2>1. sent =< cr.cfg /\ \A i \in 1..Len(store) : cr.cfg =< store[i].cfg
    BY DEF VerdictInv, CopyIsPast, CopyCarried
  <2>2. cr.cfg =< o.cfg
    BY <1>0, <1>c, <1>n, <2>1
  <2> QED
    BY <1>0, <1>i, <2>1, <2>2
<1>3. SentIsBetween'
  <2>1. sent =< o.cfg
    <3>1. sent =< store[Len(store)].cfg
      BY <1>0 DEF VerdictInv, SentIsBetween
    <3> QED
      BY <1>0, <1>c, <1>n, <3>1
  <2>2. \A i \in 1..Len(store') : store'[i].ann =< sent /\ sent =< store'[i].cfg
    BY <1>0, <1>i, <2>1 DEF VerdictInv, SentIsBetween
  <2>3. sent =< sent /\ NoConfig =< sent
    BY <1>n DEF NoConfig
  <2>4. cr'.ann =< sent
    BY <2>3 DEF VerdictInv, SentIsBetween, CopyCarried
  <2> QED
    BY <2>2, <2>4 DEF SentIsBetween
<1>4. RecordedIsTrue'
  <2> SUFFICES ASSUME sent # NoConfig,
                      \/ \E i \in 1..Len(store') : store'[i].ann = sent
                      \/ cr'.ann = sent
                      \/ Persisting'
               PROVE  RunsAsSent
    BY DEF RecordedIsTrue, RunsAsSent
  <2>1. \/ \E i \in 1..Len(store) : store[i].ann = sent
        \/ cr.ann = sent
        \/ Persisting
        \/ o.ann = sent
    BY <1>0, <1>i DEF CopyCarried
  <2> QED
    BY <2>1 DEF VerdictInv, RecordedIsTrue
<1>5. Persisting' => sent' = cr'.cfg
  BY DEF VerdictInv, CopyCarried
<1> QED
  BY <1>1, <1>2, <1>3, <1>4, <1>5 DEF VerdictInv

\* A configuration is sent, and the machine is left with it wholly, partly or not
\* at all.  Nobody has recorded it unless it was sent before.
LEMMA SendKeepsVerdict ==
    ASSUME TypeOK, VerdictInv, Sending, StoreShrinks, CopyCarried, ~Persisting',
           sent' = cr.cfg, host' \in PartialInstalls(host, cr.cfg)
    PROVE  VerdictInv'
<1>n. sent \in Nat /\ cr.cfg \in Nat /\ cr.ann \in Nat /\ host \in Hosts
      /\ \A i \in 1..Len(store) : store[i].cfg \in Nat /\ store[i].ann \in Nat
  BY ConfigsAreNumbers DEF TypeOK
<1>p. sent =< cr.cfg /\ \A i \in 1..Len(store) : cr.cfg =< store[i].cfg
  BY DEF VerdictInv, CopyIsPast, Sending
<1>h. /\ ~Exists(host') => host'.state = "down"
      /\ Exists(host') => \/ host' = host
                          \/ host'.cfg = cr.cfg /\ ~Ready(host')
                          \/ host'.cfg = cr.cfg /\ Ready(host) /\ Exists(host)
                                                /\ host'.runs = host.runs
  <2>1. ~Exists(host) => host.state = "down"
    BY DEF VerdictInv
  <2>2. CASE host' = host
    BY <2>1, <2>2
  <2>3. CASE host' = Written(host, cr.cfg)
    <3>1. /\ host'.loaded /\ host'.cfg = cr.cfg /\ host'.state = host.state
          /\ host'.runs = host.runs
      BY <1>n, <2>3 DEF Written, Hosts
    <3> QED
      BY <2>1, <3>1 DEF Exists, Ready
  <2>4. CASE host' = Installed(host, cr.cfg)
    <3>1. host'.loaded /\ host'.cfg = cr.cfg /\ host'.state = "activating"
      BY <1>n, <2>4 DEF Written, Installed, Restarted, Hosts
    <3> QED
      BY <3>1 DEF Exists, Ready
  <2> QED
    BY <2>2, <2>3, <2>4 DEF PartialInstalls
<1>1. CopyIsPast'
  <2>1. cr.cfg =< cr.cfg
    BY <1>n
  <2> QED
    BY <1>p, <2>1 DEF CopyIsPast, CopyCarried, StoreShrinks
<1>2. SentIsBetween'
  <2>1. \A i \in 1..Len(store) : store[i].ann =< cr.cfg /\ cr.cfg =< store[i].cfg
    BY <1>n, <1>p DEF VerdictInv, SentIsBetween
  <2>2. \A i \in 1..Len(store') : store'[i].ann =< cr.cfg /\ cr.cfg =< store'[i].cfg
    BY <2>1 DEF StoreShrinks
  <2>3. cr.ann =< cr.cfg /\ NoConfig =< cr.cfg /\ cr.cfg =< cr.cfg
    BY <1>n, <1>p DEF VerdictInv, SentIsBetween, NoConfig
  <2>4. cr'.ann =< cr.cfg
    BY <2>3 DEF CopyCarried
  <2> QED
    BY <2>2, <2>4 DEF SentIsBetween
<1>3. RecordedIsTrue'
  <2> SUFFICES ASSUME cr.cfg # NoConfig,
                      \/ \E i \in 1..Len(store') : store'[i].ann = cr.cfg
                      \/ cr'.ann = cr.cfg
               PROVE  RunsAsSent'
    BY DEF RecordedIsTrue
  <2>1. (\E i \in 1..Len(store) : store[i].ann = cr.cfg) \/ cr.ann = cr.cfg
    BY DEF StoreShrinks, CopyCarried, Sending, Persisting
  <2>2. sent = cr.cfg
    BY <1>n, <1>p, <2>1 DEF VerdictInv, SentIsBetween
  <2>3. RunsAsSent
    BY <2>1, <2>2 DEF VerdictInv, RecordedIsTrue
  <2> QED
    BY <1>h, <2>2, <2>3 DEF RunsAsSent
<1> QED
  BY <1>1, <1>2, <1>3, <1>h DEF VerdictInv, StoreShrinks

\* The command succeeded: the unit has the flags, and is restarted to take them.
LEMMA SuccessKeepsVerdict ==
    ASSUME TypeOK, VerdictInv, Sending, store' = store, cr' = cr, pc' # "idle",
           sent' = cr.cfg, host' = Installed(host, cr.cfg)
    PROVE  VerdictInv'
<1>n. sent \in Nat /\ cr.cfg \in Nat /\ cr.ann \in Nat /\ host \in Hosts
      /\ \A i \in 1..Len(store) : store[i].cfg \in Nat /\ store[i].ann \in Nat
  BY ConfigsAreNumbers DEF TypeOK
<1>p. sent =< cr.cfg /\ \A i \in 1..Len(store) : cr.cfg =< store[i].cfg
  BY DEF VerdictInv, CopyIsPast, Sending
<1>h. host'.loaded /\ host'.cfg = cr.cfg /\ host'.state = "activating"
  BY <1>n DEF Installed, Written, Restarted, Hosts
<1>1. CopyIsPast'
  BY <1>n, <1>p DEF CopyIsPast
<1>2. SentIsBetween'
  <2>1. \A i \in 1..Len(store) : store[i].ann =< cr.cfg /\ cr.cfg =< store[i].cfg
    BY <1>n, <1>p DEF VerdictInv, SentIsBetween
  <2>2. cr.ann =< cr.cfg
    BY <1>n, <1>p DEF VerdictInv, SentIsBetween
  <2> QED
    BY <2>1, <2>2 DEF SentIsBetween
<1>3. RunsAsSent' /\ Exists(host')
  BY <1>h DEF RunsAsSent, Exists, Ready
<1>4. RecordedIsTrue'
  BY <1>3 DEF RecordedIsTrue
<1>5. SpecsGrow'
  BY DEF VerdictInv, SpecsGrow
<1> QED
  BY <1>1, <1>2, <1>3, <1>4, <1>5 DEF VerdictInv

LEMMA EndCarriesCopy == ASSUME EndReconcile PROVE CopyCarried /\ ~Persisting'
BY DEF EndReconcile, CopyCarried, Persisting, NoObject

LEMMA FailedCarriesCopy ==
    ASSUME TypeOK, pc # "idle", NEW f, Failed(f) PROVE CopyCarried /\ ~Persisting'
<1>1. CASE Creating
  <2>1. pc' = "critical" /\ cr' = [cr EXCEPT !.marker = "failed"]
    BY <1>1 DEF Failed, WriteMarker
  <2>2. cr'.cfg = cr.cfg /\ cr'.ann = cr.ann
    BY <2>1 DEF TypeOK, Objects
  <2> QED
    BY <2>1, <2>2 DEF CopyCarried, Persisting
<1>2. CASE ~Creating
  BY <1>2, EndCarriesCopy DEF Failed
<1> QED
  BY <1>1, <1>2

LEMMA RecordedCarriesCopy ==
    ASSUME TypeOK, Persisting, NEW f, Recorded(f) PROVE CopyCarried
<1>1. CASE Creating
  <2>1. /\ pc' = "critical" /\ pc # "idle"
        /\ cr' = [[cr EXCEPT !.ann = cr.cfg] EXCEPT !.marker = "succeeded"]
    BY <1>1 DEF Recorded, WriteMarker, Persisting
  <2>2. cr'.cfg = cr.cfg /\ cr'.ann = cr.cfg
    BY <2>1 DEF TypeOK, Objects
  <2> QED
    BY <2>1, <2>2 DEF CopyCarried, Persisting
<1>2. CASE ~Creating
  BY <1>2, EndCarriesCopy DEF Recorded
<1> QED
  BY <1>1, <1>2

LEMMA VerdictStep ==
    ASSUME ~Revisit, "curl" \notin Faults, "orphan" \notin Faults,
           TypeOK, FreshSpec, VerdictInv, orphan = NoConfig, [Next]_vars
    PROVE  VerdictInv' /\ orphan' = NoConfig
<1>t. /\ store \in Seq(Objects) /\ Len(store) \in 1..MaxLag /\ Len(store) \in Nat
      /\ cr \in Objects /\ Current \in Objects /\ host \in Hosts /\ sent \in Nat
      /\ cr.cfg \in Nat /\ cr.ann \in Nat /\ Current.cfg \in Nat /\ Current.ann \in Nat
      /\ Cached = store[1] /\ 1 \in 1..Len(store) /\ Len(store) \in 1..Len(store)
      /\ Current = store[Len(store)] /\ (CacheIsCurrent => Cached = Current)
  BY ReadLemma, BoundsAssumption, ConfigsAreNumbers DEF TypeOK, Current
<1>v. /\ SpecsGrow /\ HostIsWhole
      /\ Current.ann =< sent /\ sent =< Current.cfg /\ cr.ann =< sent
      /\ sent # NoConfig /\ (Current.ann = sent \/ cr.ann = sent \/ Persisting) => RunsAsSent
      /\ Persisting => sent = cr.cfg
      /\ pc # "idle" => sent =< cr.cfg
  BY <1>t DEF VerdictInv, SentIsBetween, RecordedIsTrue, HostIsWhole, CopyIsPast
<1>k. ASSUME store' = store PROVE StoreShrinks
  BY <1>k, <1>v, SameStoreShrinks
<1>o. orphan' = NoConfig
  BY DEF Next, Users, CreateCluster, EditSpec, DeleteCluster, UserWrites, Deliver, Progress,
     StartReconcile, Observe, AddFinalizer, MarkPending, RemoveFinalizer, Conflict,
     InstallSucceeds, InstallTimesOut, CutShort, PersistWrites, PersistKeeps,
     PersistTimesOut, CriticalWrite, CriticalConflict, CriticalGivesUp, UninstallSucceeds,
     Failures, ObserveFails, UpdateFails, InstallMasked, InstallFails, ContextExpires,
     PersistFails, PersistGivesUp, UninstallFails, Crash, CrashWhileSending,
     Machine, UnitStarts, UnitFails, HostWiped, OrphanFinishes, vars
<1> SUFFICES VerdictInv'
  BY <1>o
\* A user's write: nobody goes back.
<1>u. ASSUME NEW o \in Objects, UserWrites(o), Current.cfg =< o.cfg, o.ann \in {Current.ann, NoConfig}
      PROVE  VerdictInv'
  <2>1. CopyCarried /\ Publish(o) /\ sent' = sent /\ host' = host
    BY <1>u DEF UserWrites, CopyCarried, Persisting
  <2>2. o.ann =< sent
    BY <1>t, <1>u, <1>v DEF NoConfig
  <2>3. sent # NoConfig /\ o.ann = sent => RunsAsSent
    BY <1>u, <1>v
  <2> QED
    BY <1>u, <2>1, <2>2, <2>3, WriteKeepsVerdict
<1>g. \A c \in Configs : MayAskFor(c) => Current.cfg =< c
  <2>1. \A c \in Configs : MayAskFor(c) => c > Current.cfg
    BY Zenon DEF MayAskFor
  <2>2. \A c \in Configs : c \in Nat
    BY ConfigsAssumption
  <2> QED
    BY <1>t, <2>1, <2>2
<1>1. CASE CreateCluster
  <2>1. PICK c \in Configs : MayAskFor(c) /\ UserWrites([NoObject EXCEPT !.exists = TRUE, !.cfg = c])
    BY <1>1 DEF CreateCluster
  <2> DEFINE o == [NoObject EXCEPT !.exists = TRUE, !.cfg = c]
  <2>2. o \in Objects /\ o.cfg = c /\ o.ann = NoConfig
    BY ObjectLemma, ConfigLemma DEF NoObject
  <2> HIDE DEF o
  <2>3. UserWrites(o)
    BY <2>1 DEF o
  <2> QED
    BY <1>g, <1>u, <2>1, <2>2, <2>3
<1>2. CASE EditSpec
  <2>1. PICK c \in Configs : MayAskFor(c) /\ UserWrites([Current EXCEPT !.cfg = c])
    BY <1>2 DEF EditSpec
  <2> DEFINE o == [Current EXCEPT !.cfg = c]
  <2>2. o \in Objects /\ o.cfg = c /\ o.ann = Current.ann
    BY <1>t, ObjectLemma, ConfigLemma DEF Objects
  <2> HIDE DEF o
  <2>3. UserWrites(o)
    BY <2>1 DEF o
  <2> QED
    BY <1>g, <1>u, <2>1, <2>2, <2>3
<1>3. CASE DeleteCluster
  <2>1. PICK o \in {[Current EXCEPT !.deleting = TRUE], Gone(Current)} : UserWrites(o)
    BY <1>3 DEF DeleteCluster
  <2>2. o \in Objects
    BY <1>t, <2>1, ObjectLemma
  <2>3. o.cfg = Current.cfg /\ o.ann \in {Current.ann, NoConfig}
    BY <1>t, <2>1 DEF Gone, NoObject, Objects
  <2>4. Current.cfg =< o.cfg
    BY <1>t, <2>3
  <2> QED
    BY <1>u, <2>1, <2>2, <2>3, <2>4
<1>4. CASE Deliver
  <2>1. /\ Len(store') = Len(store) - 1 /\ \A i \in 1..Len(store') : store'[i] = store[i + 1]
    BY <1>t, <1>4, DeliverLemma
  <2>2. \A i \in 1..Len(store') : i + 1 \in 1..Len(store)
    BY <1>t, <2>1
  <2>3. SpecsGrow'
    BY <1>v, <2>1, <2>2 DEF SpecsGrow
  <2>4. StoreShrinks
    BY <2>1, <2>2, <2>3 DEF StoreShrinks
  <2>5. CopyCarried /\ sent' = sent /\ host' = host
    BY <1>4 DEF Deliver, local, CopyCarried, Persisting
  <2> QED
    BY <1>v, <2>4, <2>5, QuietKeepsVerdict DEF RunsAsSent, HostIsWhole
\* Nothing is published, nothing is sent, the machine stands still.
<1>q. ASSUME store' = store, CopyCarried, sent' = sent, host' = host PROVE VerdictInv'
  BY <1>k, <1>q, <1>v, QuietKeepsVerdict DEF RunsAsSent, HostIsWhole
\* A copy is taken from the cache: the cache is in the past, and what the worker
\* has sent is in the cache's.
<1>r. ASSUME store' = store, sent' = sent, host' = host, ~Persisting',
             cr'.cfg = Cached.cfg, cr'.ann \in {Cached.ann, cr.ann}
      PROVE  VerdictInv'
  <2>1. /\ sent =< Cached.cfg /\ Cached.ann =< sent
        /\ \A i \in 1..Len(store) : Cached.cfg =< store[i].cfg
        /\ sent # NoConfig /\ Cached.ann = sent => RunsAsSent
    <3>1. \A i \in 1..Len(store) : 1 =< i
      BY <1>t
    <3> QED
      BY <1>t, <3>1 DEF VerdictInv, SentIsBetween, SpecsGrow, RecordedIsTrue
  <2>2. CopyIsPast'
    BY <1>r, <2>1 DEF CopyIsPast
  <2>3. SentIsBetween'
    BY <1>r, <2>1 DEF VerdictInv, SentIsBetween
  <2>4. RecordedIsTrue'
    BY <1>r, <1>v, <2>1 DEF VerdictInv, RecordedIsTrue, RunsAsSent
  <2> QED
    BY <1>r, <2>2, <2>3, <2>4 DEF VerdictInv, SpecsGrow
<1>5. CASE StartReconcile
  BY <1>5, <1>r DEF StartReconcile, Persisting
<1>6. CASE CriticalConflict
  <2>1. cr'.ann \in {Cached.ann, cr.ann} /\ cr'.cfg = Cached.cfg
    BY <1>6, <1>t, ReadLemma DEF CriticalConflict, AddAnnotations, Objects, TypeOK
  <2> QED
    BY <1>6, <1>r, <2>1 DEF CriticalConflict, Persisting
<1>7. CASE Observe
  <2>1. CopyCarried
    BY <1>7, EndCarriesCopy DEF Observe, GoTo, NextStep, CopyCarried, Persisting
  <2> QED
    BY <1>7, <1>q, <2>1 DEF Observe
<1>8. CASE ObserveFails \/ Conflict \/ CriticalGivesUp
  BY <1>8, <1>q, EndCarriesCopy DEF ObserveFails, Conflict, CriticalGivesUp
\* A full update of a fresh copy asks for what the object asks for.
<1>f. ASSUME NEW o \in Objects, fresh, Publish(o), CopyCarried, sent' = sent, host' = host,
             o.cfg = cr.cfg, o.ann \in {cr.ann, NoConfig}
      PROVE  VerdictInv'
  <2>1. Current.cfg =< o.cfg
    BY <1>f, <1>t DEF FreshSpec
  <2>2. o.ann =< sent
    BY <1>f, <1>t, <1>v DEF NoConfig
  <2>3. sent # NoConfig /\ o.ann = sent => RunsAsSent
    BY <1>f, <1>v
  <2> QED
    BY <1>f, <2>1, <2>2, <2>3, WriteKeepsVerdict
<1>a. /\ Protected(cr) \in Objects /\ Protected(cr).cfg = cr.cfg /\ Protected(cr).ann = cr.ann
      /\ Pending(cr) \in Objects /\ Pending(cr).cfg = cr.cfg /\ Pending(cr).ann = cr.ann
      /\ Gone(cr) \in Objects /\ Gone(cr).cfg = cr.cfg /\ Gone(cr).ann = NoConfig
  <2>1. Protected(cr).ann = cr.ann /\ Pending(cr).ann = cr.ann
    BY <1>t DEF Protected, Pending, Objects
  <2>2. Gone(cr).ann = NoConfig
    BY DEF Gone, NoObject
  <2> QED
    BY <2>1, <2>2, FullUpdateLemma
<1>9. CASE AddFinalizer
  <2>1. CopyCarried
    BY <1>9, <1>a, EndCarriesCopy DEF AddFinalizer, GoTo, NextStep, CopyCarried, Persisting
  <2> QED
    BY <1>9, <1>a, <1>f, <2>1 DEF AddFinalizer
<1>10. CASE MarkPending
  <2>1. CopyCarried
    BY <1>10, <1>a DEF MarkPending, GoTo, CopyCarried, Persisting
  <2> QED
    BY <1>10, <1>a, <1>f, <2>1 DEF MarkPending
<1>11. CASE RemoveFinalizer
  BY <1>11, <1>a, <1>f, EndCarriesCopy DEF RemoveFinalizer
<1>12. CASE UpdateFails
  <2>1. CopyCarried /\ fresh /\ sent' = sent /\ host' = host
        /\ (store' = store \/ Publish(FullUpdate))
    BY <1>12, EndCarriesCopy DEF UpdateFails
  <2>2. FullUpdate \in Objects /\ FullUpdate.cfg = cr.cfg /\ FullUpdate.ann \in {cr.ann, NoConfig}
    BY <1>12, <1>a, <1>t DEF UpdateFails, FullUpdate
  <2> QED
    BY <1>f, <1>q, <2>1, <2>2
<1>13. CASE CriticalWrite
  BY <1>13, <1>f, <1>t, EndCarriesCopy DEF CriticalWrite
<1>14. CASE InstallSucceeds
  <2>1. cr' = cr /\ pc' # "idle"
    BY <1>14 DEF InstallSucceeds, Sent, GoTo
  <2> QED
    BY <1>14, <2>1, SuccessKeepsVerdict DEF InstallSucceeds
<1>15. CASE InstallMasked
  BY <1>15 DEF InstallMasked, Fault
<1>z. Sending \/ Persisting => pc # "idle"
  BY DEF Sending, Persisting
<1>16. CASE InstallFails \/ InstallTimesOut
  <2>1. Sending /\ store' = store /\ sent' = cr.cfg /\ host' \in PartialInstalls(host, cr.cfg)
        /\ Failed(fresh)
    BY <1>16 DEF InstallFails, InstallTimesOut, CutShort
  <2> QED
    BY <1>k, <1>z, <2>1, FailedCarriesCopy, SendKeepsVerdict
<1>17. CASE ContextExpires
  BY <1>17, <1>q DEF ContextExpires, CopyCarried, Persisting
<1>p. /\ CacheIsCurrent => /\ persisted(Cached) \in Objects
                           /\ persisted(Cached).cfg = Current.cfg
                           /\ persisted(Cached).ann = cr.cfg
  <2>1. CacheIsCurrent => persisted(Cached).ann = cr.cfg
    BY <1>t DEF persisted, Objects
  <2> QED
    BY <2>1, PersistedLemma
<1>w. ASSUME Persisting, CacheIsCurrent, Publish(persisted(Cached)), CopyCarried,
             sent' = sent, host' = host
      PROVE  VerdictInv'
  <2>1. Current.cfg =< persisted(Cached).cfg /\ persisted(Cached).ann =< sent
    BY <1>p, <1>t, <1>v, <1>w
  <2>2. sent # NoConfig => RunsAsSent
    BY <1>v, <1>w
  <2> QED
    BY <1>p, <1>w, <2>1, <2>2, WriteKeepsVerdict
<1>18. CASE PersistWrites
  <2>1. CopyCarried
    BY <1>18, RecordedCarriesCopy DEF PersistWrites
  <2> QED
    BY <1>18, <1>w, <2>1 DEF PersistWrites
<1>19. CASE PersistKeeps
  <2>1. CopyCarried
    BY <1>19, RecordedCarriesCopy DEF PersistKeeps
  <2> QED
    BY <1>19, <1>q, <2>1 DEF PersistKeeps
<1>20. CASE PersistTimesOut \/ PersistGivesUp
  BY <1>20, <1>q, <1>z, FailedCarriesCopy DEF PersistTimesOut, PersistGivesUp
<1>21. CASE PersistFails
  <2>1. CopyCarried /\ Persisting /\ sent' = sent /\ host' = host
    BY <1>21, <1>z, FailedCarriesCopy DEF PersistFails
  <2>2. store' = store \/ (CacheIsCurrent /\ Publish(persisted(Cached)))
    BY <1>21 DEF PersistFails
  <2> QED
    BY <1>q, <1>w, <2>1, <2>2
\* The machine changes, and keeps its flags or loses its unit.
<1>h. ASSUME StoreShrinks, CopyCarried, sent' = sent,
             \/ host' = host \/ host' = Down(host) \/ host' = NoUnit
             \/ host' = Restarted(host) /\ Exists(host)
             \/ host' = Started(host) /\ host.state = "activating"
      PROVE  VerdictInv'
  <2>1. /\ ~Exists(host) => host.state = "down"
        /\ ~NoUnit.loaded /\ NoUnit.state = "down"
        /\ Down(host).loaded = host.loaded /\ Down(host).state = "down" /\ Down(host).cfg = host.cfg
        /\ Restarted(host).loaded = host.loaded /\ Restarted(host).state = "activating"
        /\ Restarted(host).cfg = host.cfg
        /\ Started(host).loaded = host.loaded /\ Started(host).cfg = host.cfg
        /\ Started(host).runs = host.cfg
    BY <1>t, <1>v DEF HostIsWhole, NoUnit, Down, Restarted, Started, Hosts
  <2>2. HostIsWhole'
    BY <1>h, <2>1 DEF HostIsWhole, Exists
  <2>3. RunsAsSent => RunsAsSent'
    BY <1>h, <2>1 DEF RunsAsSent, Exists, Ready
  <2> QED
    BY <1>h, <2>2, <2>3, QuietKeepsVerdict
<1>22. CASE UninstallSucceeds \/ UninstallFails
  BY <1>22, <1>h, <1>k, EndCarriesCopy DEF UninstallSucceeds, UninstallFails, PartialUninstalls
<1>23. CASE Crash \/ CrashWhileSending
  <2>1. Restart
    BY <1>23 DEF Crash, CrashWhileSending
  <2>2. Len(store') = 1 /\ store'[1] = store[Len(store)] /\ CopyCarried /\ ~Persisting'
    BY <1>t, <2>1, RestartLemma, EndCarriesCopy DEF Restart
  <2>3. SpecsGrow'
    <3>1. store'[1].cfg =< store'[1].cfg
      BY <1>t, <2>2
    <3> QED
      BY <2>2, <3>1 DEF SpecsGrow
  <2>4. StoreShrinks
    BY <1>t, <2>2, <2>3 DEF StoreShrinks
  <2>5. CASE Crash
    BY <1>h, <2>2, <2>4, <2>5 DEF Crash
  <2>6. CASE CrashWhileSending
    BY <2>2, <2>4, <2>6, SendKeepsVerdict DEF CrashWhileSending, CutShort
  <2> QED
    BY <1>23, <2>5, <2>6
<1>24. CASE UnitStarts \/ UnitFails \/ HostWiped
  <2>1. CopyCarried /\ store' = store /\ sent' = sent
    BY <1>24 DEF UnitStarts, UnitFails, HostWiped, local, CopyCarried, Persisting
  <2>2. Ready(host) => Exists(host)
    BY <1>v DEF HostIsWhole, Ready
  <2> QED
    BY <1>24, <1>h, <1>k, <2>1, <2>2 DEF UnitStarts, UnitFails, HostWiped
<1>25. CASE OrphanFinishes
  BY <1>25 DEF OrphanFinishes
<1>26. CASE UNCHANGED vars
  BY <1>26, <1>q DEF vars, CopyCarried, Persisting
<1> QED
  BY <1>o, <1>1, <1>2, <1>3, <1>4, <1>5, <1>6, <1>7, <1>8, <1>9, <1>10, <1>11, <1>12, <1>13,
     <1>14, <1>15, <1>16, <1>17, <1>18, <1>19, <1>20, <1>21, <1>22, <1>23, <1>24, <1>25, <1>26
     DEF Next, Users, Progress, Failures, Machine

\* Configurations stay in order, and a recorded one is the one that runs where it
\* is also the one sent last.
THEOREM VerdictsHold ==
    ASSUME ~Revisit, "curl" \notin Faults, "orphan" \notin Faults
    PROVE  Spec => []VerdictInv
<1> DEFINE Inv == FreshSpec /\ VerdictInv /\ orphan = NoConfig
<1>1. Init => Inv
  <2> SUFFICES ASSUME Init PROVE VerdictInv /\ FreshSpec /\ orphan = NoConfig
    OBVIOUS
  <2>1. /\ store = <<NoObject>> /\ cr = NoObject /\ pc = "idle" /\ fresh = FALSE
        /\ sent = NoConfig /\ orphan = NoConfig /\ host \in {NoUnit, Adopted}
    BY DEF Init
  <2>2. Len(store) = 1 /\ store[1] = NoObject /\ NoObject.cfg = 0 /\ NoObject.ann = 0
    BY <2>1 DEF NoObject, NoConfig
  <2>3. SpecsGrow /\ CopyIsPast /\ SentIsBetween
    BY <2>1, <2>2 DEF SpecsGrow, CopyIsPast, SentIsBetween, NoConfig
  <2>4. ~Persisting
    BY <2>1 DEF Persisting
  <2>6. RecordedIsTrue
    BY <2>1 DEF RecordedIsTrue
  <2>5. ~Exists(host) => host.state = "down"
    <3>1. NoUnit.state = "down" /\ Adopted.loaded
      BY DEF NoUnit, Adopted
    <3> QED
      BY <2>1, <3>1 DEF Exists
  <2> QED
    BY <2>1, <2>3, <2>4, <2>5, <2>6 DEF VerdictInv, FreshSpec
<1>2. TypeOK /\ Inv /\ [Next]_vars => Inv'
  BY VerdictStep, FreshSpecStep
<1> HIDE DEF Inv
<1>3. Inv => VerdictInv
  BY DEF Inv
<1> QED
  BY <1>1, <1>2, <1>3, TypeCorrect, PTL DEF Spec

\* Whatever version of the object the cache serves and whatever has been lost or
\* repeated since: if the annotation says what the spec says and the unit is
\* active, the process was started with exactly that (cluster.go: Observe,
\* clusterIsUpToDate).
THEOREM VerdictIsTrue ==
    ASSUME ~Revisit, "curl" \notin Faults, "orphan" \notin Faults
    PROVE  Spec => []UpToDateMeansInstalled
<1>1. TypeOK /\ VerdictInv => UpToDateMeansInstalled
  <2> SUFFICES ASSUME TypeOK, VerdictInv, pc = "observe", Observation(host, cr).upToDate
               PROVE  host.runs = cr.cfg
    BY DEF UpToDateMeansInstalled
  <2>1. Exists(host) /\ Ready(host) /\ cr.ann # NoConfig /\ cr.ann = cr.cfg
    BY DEF Observation, clusterIsUpToDate
  <2>2. cr.ann =< sent /\ sent =< cr.cfg
    BY DEF VerdictInv, SentIsBetween, CopyIsPast
  <2>3. sent \in Nat /\ cr.ann \in Nat /\ cr.cfg \in Nat
    BY ConfigsAreNumbers DEF TypeOK
  <2>4. sent = cr.ann
    BY <2>1, <2>2, <2>3
  <2> QED
    BY <2>1, <2>4 DEF VerdictInv, RecordedIsTrue, RunsAsSent
<1>2. QED
  BY <1>1, VerdictsHold, TypeCorrect, PTL

\* A Cluster for which nothing is left to be done is right: the process that is
\* active was started with what the user asks for now.
THEOREM SettledIsRight ==
    ASSUME ~Revisit, "curl" \notin Faults, "orphan" \notin Faults
    PROVE  Spec => [](Settled => host.runs = Current.cfg)
<1>1. TypeOK /\ VerdictInv => (Settled => host.runs = Current.cfg)
  <2> SUFFICES ASSUME TypeOK, VerdictInv, Settled
               PROVE  host.runs = Current.cfg
    OBVIOUS
  <2>1. Len(store) = 1 /\ Current = store[1] /\ Current \in Objects
    BY ReadLemma DEF TypeOK, Settled, CacheIsCurrent, Current
  <2>2. Current.ann = Current.cfg /\ Current.ann # NoConfig /\ Exists(host) /\ Ready(host)
    BY DEF Settled, clusterIsUpToDate
  <2>3. Current.ann =< sent /\ sent =< Current.cfg
    BY <2>1 DEF VerdictInv, SentIsBetween
  <2>4. sent \in Nat /\ Current.cfg \in Nat
    BY <2>1, ConfigsAreNumbers DEF TypeOK
  <2>5. sent = Current.cfg
    BY <2>2, <2>3, <2>4
  <2> QED
    BY <2>1, <2>2, <2>5 DEF VerdictInv, RecordedIsTrue, RunsAsSent
<1>2. QED
  BY <1>1, VerdictsHold, TypeCorrect, PTL
=============================================================================
