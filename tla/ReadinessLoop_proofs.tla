------------------------ MODULE ReadinessLoop_proofs ------------------------
(***************************************************************************)
(* Proofs about ReadinessLoop: its types, and that starts shorter than the *)
(* poll interval keep restarts few, by counting those still to come.       *)
(***************************************************************************)
EXTENDS ReadinessLoop, TLAPS

\* The restarts to come if no trouble does: the command's, the one for the event
\* its annotation causes, and that of a poll due before the unit has started.
Left == IF current = FALSE THEN 3
        ELSE IF unit = "active" THEN 0
        ELSE IF event = TRUE THEN 2
        ELSE IF unit = "activating" /\ due + since > StartTicks THEN 0
        ELSE 1

\* A configuration that is not applied has the resource queued.
Queued == current = FALSE => event = TRUE

Ranges == /\ unit \in {"down", "activating", "active"} /\ since \in 0..StartTicks
          /\ due \in 0..PollTicks /\ restarts \in 0..MaxRestarts
          /\ edits \in 0..MaxEdits /\ faults \in 0..MaxFaults

FewLeft == restarts + Left =< PerTrouble * (1 + edits + faults)

-----------------------------------------------------------------------------
LEMMA Counts == /\ StartTicks \in Nat /\ StartTicks > 0 /\ PollTicks \in Nat /\ PollTicks > 0
                /\ MaxEdits \in Nat /\ MaxFaults \in Nat /\ MaxRestarts \in Nat
BY TicksAssumption, CountsAssumption DEF MaxRestarts, PerTrouble

LEMMA LeftIsFew == Left \in Nat /\ Left =< 3
BY DEF Left

LEMMA LeftStaysFew == Left' \in Nat /\ Left' =< 3
BY DEF Left

LEMMA TypesInitially == Init => TypeOK
<1> SUFFICES ASSUME Init PROVE TypeOK
  OBVIOUS
<1>1. Ranges
  BY Counts DEF Init, Ranges
<1>2. event \in BOOLEAN /\ current \in BOOLEAN
  BY DEF Init
<1> QED
  BY <1>1, <1>2 DEF Ranges, TypeOK

LEMMA RestartIsTyped == Ranges /\ Restart => /\ unit' = "activating" /\ since' \in 0..StartTicks
                                             /\ restarts' \in 0..MaxRestarts
                                             /\ restarts' =< restarts + 1
BY Counts DEF Ranges, Restart

LEMMA TypesKept == TypeOK /\ [Next]_vars => TypeOK'
<1> SUFFICES ASSUME TypeOK, [Next]_vars PROVE TypeOK'
  OBVIOUS
<1>r. Ranges
  BY DEF TypeOK, Ranges
<1>f. event' \in BOOLEAN /\ current' \in BOOLEAN
  BY DEF TypeOK, Next, Reconcile, ReconcileNothingToDo, ReconcileUpdates, annotationChanges,
         ReconcileFails, UserEdits, UnitStarts, UnitDies, Tick, vars
<1>1. ASSUME ReconcileNothingToDo PROVE Ranges'
  BY <1>1, <1>r, Counts DEF Ranges, ReconcileNothingToDo, Rescheduled
<1>2. ASSUME ReconcileUpdates PROVE Ranges'
  BY <1>2, <1>r, Counts, RestartIsTyped DEF Ranges, ReconcileUpdates, Rescheduled
<1>3. ASSUME ReconcileFails PROVE Ranges'
  BY <1>3, <1>r, Counts, RestartIsTyped DEF Ranges, ReconcileFails
<1>4. ASSUME UserEdits PROVE Ranges'
  BY <1>4, <1>r, Counts DEF Ranges, UserEdits
<1>5. ASSUME UnitStarts PROVE Ranges'
  BY <1>5, <1>r, Counts DEF Ranges, UnitStarts
<1>6. ASSUME UnitDies PROVE Ranges'
  BY <1>6, <1>r, Counts DEF Ranges, UnitDies
<1>7. ASSUME Tick PROVE Ranges'
  BY <1>7, <1>r, Counts DEF Ranges, Tick, Awake
<1>8. ASSUME UNCHANGED vars PROVE Ranges'
  BY <1>8, <1>r DEF Ranges, vars
<1>9. Ranges'
  BY <1>1, <1>2, <1>3, <1>4, <1>5, <1>6, <1>7, <1>8 DEF Next, Reconcile
<1> QED
  BY <1>9, <1>f DEF Ranges, TypeOK

\* Every delay and every count stays in its range; above all, no delayed entry
\* is ever further away than one poll interval (cluster.go:128).
THEOREM LoopTypes == Spec => []TypeOK
BY TypesInitially, TypesKept, PTL DEF Spec

-----------------------------------------------------------------------------
\* A reconcile that restarts the unit uses up one of the restarts to come; this
\* is where a start has to be shorter than a poll interval.
LEMMA UpdateUsesOne ==
    ASSUME StartTicks < PollTicks, TypeOK, Queued, ReconcileUpdates
    PROVE  Left' + 1 =< Left /\ Queued'
<1>1. unit' = "activating" /\ since' = 0 /\ due' = IF due = 0 THEN PollTicks ELSE due
  BY DEF ReconcileUpdates, Restart, Rescheduled
<1>2. current' = TRUE
  BY DEF ReconcileUpdates
<1>q. Queued'
  BY <1>2 DEF Queued
<1>3. Left' + 1 =< Left
  <2>1. CASE current = FALSE
    <3>1. Left = 3
      BY <2>1 DEF Left
    <3>2. Left' + 1 =< 3
      BY <1>1, <1>2 DEF Left
    <3> QED
      BY <3>1, <3>2, Zenon
  <2>2. CASE current = TRUE
    <3>1. event' = FALSE
      BY <2>2 DEF ReconcileUpdates, annotationChanges
    <3>2. unit # "active"
      BY <2>2 DEF ReconcileUpdates, upToDate
    <3>3. CASE event = TRUE
      <4>1. Left = 2
        BY <2>2, <3>2, <3>3 DEF Left
      <4>2. Left' + 1 =< 2
        BY <1>1, <1>2, <3>1 DEF Left
      <4> QED
        BY <4>1, <4>2, Zenon
    <3>4. CASE event = FALSE
      <4>1. due = 0
        BY <3>4 DEF ReconcileUpdates, Awake
      <4>2. since \in Nat /\ since =< StartTicks
        BY Counts DEF TypeOK
      <4>3. due' + since' > StartTicks /\ ~(due + since > StartTicks)
        BY <1>1, <4>1, <4>2, Counts
      <4>4. Left = 1
        BY <2>2, <3>2, <3>4, <4>3 DEF Left
      <4>5. Left' = 0
        BY <1>1, <1>2, <3>1, <4>3 DEF Left
      <4> QED
        BY <4>4, <4>5
    <3> QED
      BY <3>3, <3>4 DEF TypeOK
  <2> QED
    BY <2>1, <2>2 DEF TypeOK
<1> QED
  BY <1>q, <1>3

\* Without trouble and without a restart there is no more to come than before.
LEMMA OthersLeaveIt ==
    ASSUME TypeOK, Queued, ReconcileNothingToDo \/ UnitStarts \/ Tick \/ UNCHANGED vars
    PROVE  Left' =< Left /\ Queued'
<1>1. CASE ReconcileNothingToDo
  <2>1. unit = "active" /\ current = TRUE /\ unit' = unit /\ current' = current
    BY <1>1 DEF ReconcileNothingToDo, upToDate, TypeOK
  <2>2. Left = 0 /\ Left' = 0
    BY <2>1 DEF Left
  <2>3. Queued'
    BY <2>1 DEF Queued
  <2> QED
    BY <2>2, <2>3
<1>2. CASE UnitStarts
  <2>1. unit' = "active" /\ current' = current /\ event' = event
    BY <1>2 DEF UnitStarts
  <2>2. Left' =< Left
    BY <2>1 DEF Left
  <2>3. Queued'
    BY <2>1 DEF Queued
  <2> QED
    BY <2>2, <2>3
<1>3. CASE Tick
  <2>r. Ranges
    BY DEF TypeOK, Ranges
  <2>1. unit' = unit /\ event' = event /\ current' = current /\ due # 0
    BY <1>3 DEF Tick, Awake
  <2>2. unit = "activating" => due' + since' = due + since
    BY <1>3, <2>r, <2>1, Counts DEF Tick, Ranges
  <2>3. Left' =< Left
    BY <2>1, <2>2 DEF Left
  <2>4. Queued'
    BY <2>1 DEF Queued
  <2> QED
    BY <2>3, <2>4
<1>4. CASE UNCHANGED vars
  <2>1. unit' = unit /\ event' = event /\ current' = current /\ due' = due /\ since' = since
    BY <1>4 DEF vars
  <2>2. Left' =< Left
    BY <2>1 DEF Left
  <2>3. Queued'
    BY <2>1 DEF Queued
  <2> QED
    BY <2>2, <2>3
<1> QED
  BY <1>1, <1>2, <1>3, <1>4

LEMMA Numbers == TypeOK => restarts \in Nat /\ edits \in Nat /\ faults \in Nat
<1> SUFFICES ASSUME TypeOK PROVE restarts \in Nat /\ edits \in Nat /\ faults \in Nat
  OBVIOUS
<1>1. Ranges
  BY DEF TypeOK, Ranges
<1> QED
  BY <1>1, Counts DEF Ranges

\* The arithmetic of the steps, for numbers of any kind.
LEMMA SumAfterFault == \A r, s, l, m \in Nat : s =< r + 1 /\ m =< l + 2 => s + m =< r + l + 3
OBVIOUS

LEMMA SumAfterEdit == \A r, l, m \in Nat : m =< 3 => r + m =< r + l + 3
OBVIOUS

LEMMA SumAfterUpdate ==
    \A r, s, l, m, e, f \in Nat :
        r + l =< 3 * (1 + e + f) /\ m + 1 =< l /\ s =< r + 1 => s + m =< 3 * (1 + e + f)
OBVIOUS

LEMMA SumAfterOthers ==
    \A r, l, m, e, f \in Nat :
        r + l =< 3 * (1 + e + f) /\ m =< l => r + m =< 3 * (1 + e + f)
OBVIOUS

LEMMA SumAfterTrouble ==
    \A r, s, l, m, e, f, d, g \in Nat :
        r + l =< 3 * (1 + e + f) /\ s + m =< r + l + 3 /\ d + g = e + f + 1
            => s + m =< 3 * (1 + d + g)
OBVIOUS

\* What an edit or a fault can add.
LEMMA TroubleAddsThree ==
    ASSUME TypeOK, TypeOK', Queued, ReconcileFails \/ UserEdits \/ UnitDies
    PROVE  restarts' + Left' =< restarts + Left + 3 /\ Queued'
<1>1. restarts \in Nat
  BY Numbers
<1>2. restarts' \in Nat
  <2>1. Ranges'
    BY DEF TypeOK, Ranges
  <2> QED
    BY <2>1, Counts DEF Ranges
<1>3. Left \in Nat
  BY LeftIsFew
<1>4. Left' \in Nat /\ Left' =< 3
  BY LeftStaysFew
<1>5. CASE ReconcileFails
  <2>r. Ranges
    BY DEF TypeOK, Ranges
  <2>1. restarts' =< restarts + 1
    BY <1>5, <2>r, RestartIsTyped DEF ReconcileFails
  <2>2. unit' = "activating" /\ event' = TRUE /\ current' = current
    BY <1>5 DEF ReconcileFails, Restart
  <2>3. unit # "active" \/ current = FALSE
    BY <1>5 DEF ReconcileFails, upToDate, TypeOK
  <2>4. Left' =< Left + 2
    BY <2>2, <2>3 DEF Left
  <2>5. restarts' + Left' =< restarts + Left + 3
    BY <1>1, <1>2, <1>3, <1>4, <2>1, <2>4, SumAfterFault, Zenon
  <2>6. Queued'
    BY <2>2 DEF Queued
  <2> QED
    BY <2>5, <2>6
<1>6. CASE UserEdits \/ UnitDies
  <2>1. restarts' = restarts
    BY <1>6 DEF UserEdits, UnitDies
  <2>2. restarts' + Left' =< restarts + Left + 3
    BY <1>1, <1>3, <1>4, <2>1, SumAfterEdit, Zenon
  <2>3. event' = TRUE \/ (event' = event /\ current' = current)
    BY <1>6 DEF UserEdits, UnitDies
  <2>4. Queued'
    BY <2>3 DEF Queued
  <2> QED
    BY <2>2, <2>4
<1> QED
  BY <1>5, <1>6

\* If a start takes less than a poll interval, an edit, a fault or the first
\* install is worth three restarts at most: whatever the polls, the events the
\* annotation causes (cluster.go:503-509, 166-172) and the ticks do meanwhile.
THEOREM FewRestarts ==
    ASSUME StartTicks < PollTicks
    PROVE  Spec => []RestartsAreFew
<1> DEFINE Inv == TypeOK /\ Queued /\ FewLeft
<1>1. Init => Inv
  <2> SUFFICES ASSUME Init PROVE Queued /\ FewLeft
    BY TypesInitially
  <2>1. restarts = 0 /\ edits = 0 /\ faults = 0
    BY DEF Init
  <2>2. current = FALSE /\ event = TRUE
    BY DEF Init
  <2>3. Left = 3
    BY <2>2 DEF Left
  <2>4. FewLeft
    BY <2>1, <2>3 DEF FewLeft, PerTrouble
  <2> QED
    BY <2>1, <2>2, <2>3, <2>4 DEF Queued
<1>2. Inv /\ [Next]_vars => Inv'
  <2> SUFFICES ASSUME Inv, [Next]_vars PROVE Queued' /\ FewLeft'
    BY TypesKept
  <2>t. TypeOK'
    BY TypesKept
  <2>n. restarts \in Nat /\ edits \in Nat /\ faults \in Nat
    BY Numbers
  <2>p. restarts' \in Nat /\ edits' \in Nat /\ faults' \in Nat
    <3>1. Ranges'
      BY <2>t DEF TypeOK, Ranges
    <3> QED
      BY <3>1, Counts DEF Ranges
  <2>k. Left \in Nat
    BY LeftIsFew
  <2>l. Left' \in Nat /\ Left' =< 3
    BY LeftStaysFew
  <2>i. restarts + Left =< 3 * (1 + edits + faults)
    BY DEF FewLeft, PerTrouble
  <2>1. CASE ReconcileUpdates
    <3>1. Left' + 1 =< Left /\ Queued'
      BY <2>1, UpdateUsesOne
    <3>2. restarts' =< restarts + 1 /\ edits' = edits /\ faults' = faults
      BY <2>1, RestartIsTyped DEF ReconcileUpdates, TypeOK, Ranges
    <3>3. restarts' + Left' =< 3 * (1 + edits' + faults')
      BY <2>n, <2>p, <2>k, <2>l, <2>i, <3>1, <3>2, SumAfterUpdate, Zenon
    <3>4. FewLeft'
      BY <3>3 DEF FewLeft, PerTrouble
    <3> QED
      BY <3>1, <3>4
  <2>2. CASE ReconcileNothingToDo \/ UnitStarts \/ Tick \/ UNCHANGED vars
    <3>1. Left' =< Left /\ Queued'
      BY <2>2, OthersLeaveIt
    <3>2. restarts' = restarts /\ edits' = edits /\ faults' = faults
      BY <2>2 DEF ReconcileNothingToDo, UnitStarts, Tick, vars
    <3>3. restarts' + Left' =< 3 * (1 + edits' + faults')
      BY <2>n, <2>p, <2>k, <2>l, <2>i, <3>1, <3>2, SumAfterOthers, Zenon
    <3>4. FewLeft'
      BY <3>3 DEF FewLeft, PerTrouble
    <3> QED
      BY <3>1, <3>4
  <2>3. CASE ReconcileFails \/ UserEdits \/ UnitDies
    <3>1. restarts' + Left' =< restarts + Left + 3 /\ Queued'
      BY <2>t, <2>3, TroubleAddsThree
    <3>2. edits' + faults' = edits + faults + 1
      BY <2>n, <2>3 DEF ReconcileFails, UserEdits, UnitDies
    <3>3. restarts' + Left' =< 3 * (1 + edits' + faults')
      BY <2>n, <2>p, <2>k, <2>l, <2>i, <3>1, <3>2, SumAfterTrouble, Zenon
    <3>4. FewLeft'
      BY <3>3 DEF FewLeft, PerTrouble
    <3> QED
      BY <3>1, <3>4
  <2> QED
    BY <2>1, <2>2, <2>3 DEF Next, Reconcile
<1>3. Inv => RestartsAreFew
  <2> SUFFICES ASSUME Inv PROVE restarts =< PerTrouble * (1 + edits + faults)
    BY DEF RestartsAreFew
  <2>1. restarts \in Nat /\ edits \in Nat /\ faults \in Nat /\ Left \in Nat
    BY Numbers, LeftIsFew
  <2> QED
    BY <2>1 DEF FewLeft, PerTrouble
<1> HIDE DEF Inv
<1> QED
  BY <1>1, <1>2, <1>3, PTL DEF Spec
=============================================================================
