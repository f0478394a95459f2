--------------------------- MODULE SafeStart_proofs ---------------------------
(***************************************************************************)
(* Proofs about SafeStart, for any deadline and interval: the types, that  *)
(* a gated process is allowed to gate and starts nothing too early, and    *)
(* that being granted late is not taken for being denied.                  *)
(***************************************************************************)
EXTENDS SafeStart, TLAPS

\* What the reviews of the round under way have shown.
Reviewed == /\ verb = "list" => "get" \in grants
            /\ verb = "watch" => {"get", "list"} \subseteq grants

\* The clock, the rounds and the time of the grants.
Clock == /\ startAt =< now /\ endAt =< now
         /\ grantedAt = Never \/ grantedAt =< now
         /\ grants # Verbs => grantedAt = Never
         /\ Between => now =< startAt + Interval \/ endAt = now
         /\ Between /\ ~lastErr => grantedAt >= startAt

IInv == /\ TypeOK /\ Reviewed /\ (proc = "precheck" => Clock)
        /\ proc \in {"down", "precheck"} => running = {}
        /\ proc = "ungated" => now = Deadline
        /\ GatedMeansAllowed /\ SafeStartIsNotLost /\ StartsWhenServed

LEMMA Times == /\ Deadline \in Nat /\ Interval \in Nat /\ MaxFaults \in Nat
               /\ Deadline > 0 /\ Interval > 0 /\ Never = Deadline + 1
BY TimesAssumption, FaultsAssumption DEF Never

LEMMA FaultIsCounted == \A f : TypeOK /\ Fault(f) => faults' \in 0..MaxFaults
BY Times DEF TypeOK, Fault

LEMMA Disjoint == Configs \cap Kinds = {}
BY DEF Configs, Kinds, Scopes

LEMMA Initially == Init => IInv
<1> SUFFICES ASSUME Init PROVE IInv
  OBVIOUS
<1>1. running \in SUBSET (Configs \cup Kinds) /\ proc \in {"down", "precheck", "gated", "ungated"}
  BY DEF Init
<1>2. grantedAt \in 0..Never /\ 0 \in 0..Deadline /\ faults \in 0..MaxFaults
  BY Times DEF Init
<1>3. TypeOK
  BY <1>1, <1>2 DEF Init, AtRest, TypeOK
<1> QED
  BY <1>3 DEF Init, AtRest, IInv, Reviewed, GatedMeansAllowed, SafeStartIsNotLost, StartsWhenServed

-----------------------------------------------------------------------------
LEMMA PrecheckKeeps ==
    IInv /\ (Begin \/ Granted \/ Denied \/ CutOff \/ Poll \/ GiveUp \/ Tick
             \/ ReviewErrs \/ ReviewTakesTime) => IInv'
<1> SUFFICES ASSUME IInv, Begin \/ Granted \/ Denied \/ CutOff \/ Poll \/ GiveUp \/ Tick
                          \/ ReviewErrs \/ ReviewTakesTime
             PROVE  IInv'
  OBVIOUS
<1>t. TypeOK
  BY DEF IInv
<1> USE Times
<1>1. CASE Begin
  <2>0. grantedAt' \in 0..Never /\ 0 \in 0..Deadline /\ "get" \in Verbs
    BY <1>1 DEF Begin, Verbs
  <2>1. TypeOK'
    BY <1>1, <1>t, <2>0 DEF Begin, TypeOK
  <2>2. Clock' /\ Reviewed'
    BY <1>1, <1>t DEF Begin, Clock, Reviewed, Between
  <2> QED
    BY <1>1, <2>1, <2>2 DEF Begin, IInv, GatedMeansAllowed, SafeStartIsNotLost, StartsWhenServed
<1>2. CASE Granted
  <2>1. CASE verb # "watch"
    <3>1. /\ verb' # "none" /\ verb' \in Verbs
          /\ UNCHANGED <<proc, now, startAt, running, allowed, lastErr, endAt, world, faults>>
      BY <1>2, <1>t, <2>1 DEF Granted, InReview, TypeOK, NextVerb, Verbs
    <3>2. TypeOK'
      BY <1>t, <3>1 DEF TypeOK, world
    <3>3. Clock'
      BY <1>2, <3>1 DEF IInv, Clock, Between, Granted, InReview, world
    <3>4. Reviewed'
      BY <1>2, <1>t, <2>1, <3>1 DEF IInv, Reviewed, Granted, InReview, NextVerb, Verbs, TypeOK, world
    <3>5. proc' = "precheck" /\ running' = {}
      BY <1>2, <3>1 DEF IInv, Granted, InReview
    <3> QED
      BY <3>2, <3>3, <3>4, <3>5 DEF IInv, GatedMeansAllowed, SafeStartIsNotLost, StartsWhenServed
  <2>2. CASE verb = "watch"
    <3>1. /\ verb' = "none" /\ proc' = "gated" /\ running' = Configs /\ allowed' = TRUE
          /\ lastErr' = FALSE /\ endAt' = now /\ UNCHANGED <<now, startAt, world, faults>>
      BY <1>2, <2>2 DEF Granted, Gated, NextVerb
    <3>2. grants = Verbs
      BY <1>2, <1>t, <2>2 DEF IInv, Reviewed, Granted, Verbs, TypeOK
    <3>3. TypeOK'
      BY <1>t, <3>1 DEF TypeOK, world
    <3> QED
      BY <3>1, <3>2, <3>3 DEF IInv, Reviewed, GatedMeansAllowed, SafeStartIsNotLost,
                              StartsWhenServed, world
  <2> QED
    BY <2>1, <2>2
<1>r. ASSUME NEW err \in BOOLEAN, InReview, RoundFails(err), faults' \in 0..MaxFaults,
             ~err => verb \notin grants
      PROVE  IInv'
  <2>1. TypeOK'
    BY <1>t, <1>r DEF RoundFails, TypeOK, world
  <2>2. Clock' /\ Reviewed'
    BY <1>t, <1>r DEF IInv, InReview, RoundFails, Clock, Reviewed, Between, TypeOK, world
  <2>3. proc' = "precheck" /\ running' = {}
    BY <1>r DEF IInv, InReview, RoundFails
  <2> QED
    BY <2>1, <2>2, <2>3 DEF IInv, GatedMeansAllowed, SafeStartIsNotLost, StartsWhenServed
<1>3. CASE Denied
  BY <1>3, <1>r, <1>t DEF Denied, TypeOK
<1>4. CASE CutOff
  BY <1>4, <1>r, <1>t DEF CutOff, TypeOK
<1>5. CASE ReviewErrs
  BY <1>5, <1>r, <1>t, FaultIsCounted DEF ReviewErrs
<1>6. CASE Poll
  <2>1. TypeOK'
    BY <1>6, <1>t DEF Poll, TypeOK, Verbs, world
  <2>2. Clock' /\ Reviewed'
    BY <1>6, <1>t DEF IInv, Poll, Clock, Reviewed, Between, TypeOK, world
  <2>3. proc' = "precheck" /\ running' = {}
    BY <1>6 DEF IInv, Poll, Between
  <2> QED
    BY <2>1, <2>2, <2>3 DEF IInv, GatedMeansAllowed, SafeStartIsNotLost, StartsWhenServed
<1>7. CASE Tick
  <2>1. TypeOK'
    BY <1>7, <1>t DEF Tick, TypeOK, world
  <2>2. Clock' /\ Reviewed'
    BY <1>7, <1>t DEF IInv, Tick, Clock, Reviewed, Between, Due, TypeOK, world
  <2>3. proc' = "precheck" /\ running' = {}
    BY <1>7 DEF IInv, Tick, Between
  <2> QED
    BY <2>1, <2>2, <2>3 DEF IInv, GatedMeansAllowed, SafeStartIsNotLost, StartsWhenServed
<1>8. CASE ReviewTakesTime
  <2>1. TypeOK'
    BY <1>8, <1>t, FaultIsCounted DEF ReviewTakesTime, TypeOK, world
  <2>2. Clock' /\ Reviewed'
    BY <1>8, <1>t DEF IInv, ReviewTakesTime, InReview, Clock, Reviewed, Between, TypeOK, world
  <2>3. proc' = "precheck" /\ running' = {}
    BY <1>8 DEF IInv, ReviewTakesTime, InReview
  <2> QED
    BY <2>1, <2>2, <2>3 DEF IInv, GatedMeansAllowed, SafeStartIsNotLost, StartsWhenServed
<1>9. CASE GiveUp
  <2>1. TypeOK'
    BY <1>9, <1>t DEF GiveUp, Ungated, TypeOK, precheck, world
  <2>2. SafeStartIsNotLost'
    BY <1>9, <1>t DEF IInv, GiveUp, Between, Clock, SafeStartIsNotLost, TypeOK, precheck, world
  <2> QED
    BY <1>9, <2>1, <2>2 DEF IInv, GiveUp, Ungated, Between, Reviewed, GatedMeansAllowed,
                            StartsWhenServed, precheck
<1> QED
  BY <1>1, <1>2, <1>3, <1>4, <1>5, <1>6, <1>7, <1>8, <1>9

LEMMA StepKeeps == IInv /\ [Next]_vars => IInv'
<1> SUFFICES ASSUME IInv, [Next]_vars PROVE IInv'
  OBVIOUS
<1>t. TypeOK
  BY DEF IInv
<1>1. CASE Begin \/ Granted \/ Denied \/ CutOff \/ Poll \/ GiveUp \/ Tick
           \/ ReviewErrs \/ ReviewTakesTime
  BY <1>1, PrecheckKeeps
<1>2. CASE GateOpens
  <2>1. PICK k \in Registered \ running : k \in served /\ running' = running \cup {k}
    BY <1>2 DEF GateOpens, GateOf
  <2>2. proc' = "gated" /\ UNCHANGED <<precheck, world, faults>>
    BY <1>2 DEF GateOpens
  <2>3. TypeOK'
    BY <1>t, <2>1, <2>2 DEF TypeOK, precheck, world, Registered
  <2> QED
    BY <1>2, <2>1, <2>2, <2>3 DEF IInv, GateOpens, Reviewed, GatedMeansAllowed,
                            SafeStartIsNotLost, StartsWhenServed, precheck, world
<1>3. CASE SyncFails \/ ProcessEnds
  <2>1. faults' \in 0..MaxFaults
    BY <1>3, <1>t, FaultIsCounted DEF SyncFails, ProcessEnds, TypeOK
  <2>2. proc' = "down" /\ running' = {} /\ UNCHANGED <<precheck, world>>
    BY <1>3 DEF SyncFails, ProcessEnds, Exits
  <2>3. TypeOK'
    BY <1>t, <2>1, <2>2 DEF TypeOK, precheck, world
  <2> QED
    BY <2>2, <2>3 DEF IInv, Reviewed, GatedMeansAllowed, SafeStartIsNotLost, StartsWhenServed,
                      precheck, world
<1>4. CASE Grant
  <2>1. PICK v \in Verbs \ grants : grants' = grants \cup {v}
    BY <1>4 DEF Grant
  <2>2. /\ grantedAt' = IF grants' = Verbs THEN now ELSE Never
        /\ UNCHANGED <<proc, precheck, running, served, faults>>
    BY <1>4 DEF Grant
  <2>3. grants # Verbs /\ grants \subseteq grants'
    BY <2>1
  <2>4. TypeOK'
    BY <1>t, <2>1, <2>2, Times DEF TypeOK, precheck
  <2>5. Reviewed' /\ GatedMeansAllowed' /\ StartsWhenServed'
    BY <2>2, <2>3 DEF IInv, Reviewed, GatedMeansAllowed, StartsWhenServed, precheck
  <2>6. proc = "precheck" => Clock'
    BY <1>t, <2>2, Times DEF IInv, Clock, Between, precheck, TypeOK
  <2>8. proc' = "ungated" => now' = Deadline
    BY <2>2 DEF IInv, precheck
  <2>7. proc' = "ungated" /\ ~lastErr' => grantedAt' + Interval >= Deadline \/ endAt' = Deadline
    BY <1>t, <2>2, Times DEF IInv, SafeStartIsNotLost, precheck, TypeOK
  <2> QED
    BY <2>2, <2>4, <2>5, <2>6, <2>7, <2>8 DEF IInv, SafeStartIsNotLost
<1>5. CASE Establish
  <2>1. PICK k \in Kinds \ served : served' = served \cup {k}
    BY <1>5 DEF Establish
  <2>2. UNCHANGED <<proc, precheck, running, grants, grantedAt, faults>>
    BY <1>5 DEF Establish
  <2>3. TypeOK'
    BY <1>t, <2>1, <2>2 DEF TypeOK, precheck
  <2> QED
    BY <2>1, <2>2, <2>3 DEF IInv, Reviewed, Clock, Between, GatedMeansAllowed,
                            SafeStartIsNotLost, StartsWhenServed, precheck
<1>6. CASE UNCHANGED vars
  <2>1. TypeOK'
    BY <1>6, <1>t DEF vars, TypeOK
  <2> QED
    BY <1>6, <2>1 DEF vars, IInv, Reviewed, Clock, Between, GatedMeansAllowed,
                      SafeStartIsNotLost, StartsWhenServed
<1> QED
  BY <1>1, <1>2, <1>3, <1>4, <1>5, <1>6 DEF Next, Start

\* IInv is inductive.
THEOREM StartInvariant == Spec => []IInv
<1>1. IInv /\ [Next]_vars => IInv'
  BY StepKeeps
<1> QED
  BY Initially, <1>1, PTL DEF Spec

\* The types (main.go:173-270).
THEOREM StartTypes == Spec => []TypeOK
<1>1. IInv => TypeOK
  BY DEF IInv
<1> QED
  BY StartInvariant, <1>1, PTL

\* hasCRDWatchPermissions reviews one verb after the other while grants
\* arrive; true means that all of them are there (main.go:245-270).
THEOREM GatedIsAllowed == Spec => []GatedMeansAllowed
<1>1. IInv => GatedMeansAllowed
  BY DEF IInv
<1> QED
  BY StartInvariant, <1>1, PTL

\* Racing the RBAC manager does not cost a process SafeStart, for any deadline
\* and interval (main.go:200-207).
THEOREM LateIsNotDenied == Spec => []SafeStartIsNotLost
<1>1. IInv => SafeStartIsNotLost
  BY DEF IInv
<1> QED
  BY StartInvariant, <1>1, PTL

\* A gated process sets up the controller of a kind only when the kind is
\* served (cluster.go:46-65, namespaced.go:50-70).
THEOREM GatedStartsWhenServed == Spec => []StartsWhenServed
<1>1. IInv => StartsWhenServed
  BY DEF IInv
<1> QED
  BY StartInvariant, <1>1, PTL
=============================================================================
