------------------------------ MODULE SafeStart ------------------------------
(***************************************************************************)
(* cmd/provider: a process that starts finds out whether it may watch      *)
(* CustomResourceDefinitions.  If so, the controller of a kind is set up   *)
(* when the kind is served (SafeStart); if not, all are set up at once,    *)
(* and the manager fails when one of their kinds is not served.            *)
(*                                                                         *)
(* Simplifications:                                                        *)
(*  - a review takes time only as a fault, and time stands still once the  *)
(*    decision is taken.                                                   *)
(*  - grants and definitions come and stay, in any order and at any time.  *)
(*  - there is one process: leader election is off by default.             *)
(***************************************************************************)
EXTENDS Integers

CONSTANTS
    Deadline,    \* safeStartPrecheckTimeout
    Interval,    \* safeStartPrecheckInterval
    Faults,      \* "error": a review fails; "slow": it takes time; "exit": the process ends
    MaxFaults

ASSUME TimesAssumption == Deadline \in Nat \ {0} /\ Interval \in Nat \ {0}
ASSUME FaultsAssumption == Faults \subseteq {"error", "slow", "exit"} /\ MaxFaults \in Nat

VARIABLES
    proc,        \* "down", in the "precheck", or set up "gated" or "ungated"
    now,         \* time since the process started
    verb,        \* the verb under review, or "none" between two rounds
    startAt,     \* when the last round began
    endAt,       \* and ended
    lastErr, allowed,
    running,     \* the kinds whose controllers are set up
    grants,      \* verbs the authorizer allows
    grantedAt,   \* when that became all of them
    served,      \* managed kinds whose definitions are established
    faults

vars == <<proc, now, verb, startAt, endAt, lastErr, allowed, running, grants, grantedAt,
          served, faults>>
precheck == <<now, verb, startAt, endAt, lastErr, allowed>>
world == <<grants, grantedAt, served>>

Verbs == {"get", "list", "watch"}
Scopes == {"cluster", "namespaced"}
Kinds == Scopes \X {"Cluster", "Node"}
Configs == {<<"cluster", "ProviderConfig">>, <<"namespaced", "ProviderConfig">>,
            <<"namespaced", "ClusterProviderConfig">>}
Never == Deadline + 1

AtRest == /\ now = 0 /\ verb = "none" /\ startAt = 0 /\ endAt = 0
          /\ lastErr = FALSE /\ allowed = FALSE

Init == /\ proc = "down" /\ AtRest /\ running = {} /\ faults = 0
        /\ grants \in SUBSET Verbs /\ served \in SUBSET Kinds
        /\ grantedAt = IF grants = Verbs THEN 0 ELSE Never

Fault(f) == f \in Faults /\ faults < MaxFaults /\ faults' = faults + 1

-----------------------------------------------------------------------------
(* The precheck.                                                           *)

Begin == /\ proc = "down" /\ proc' = "precheck"
         /\ now' = 0 /\ verb' = "get" /\ startAt' = 0 /\ endAt' = 0
         /\ lastErr' = FALSE /\ allowed' = FALSE
         /\ grantedAt' = IF grants = Verbs THEN 0 ELSE Never
         /\ UNCHANGED <<running, grants, served, faults>>

\* Set-ups that never wait: what a kind is configured with is always served.
Gated == proc' = "gated" /\ running' = Configs

Ungated == proc' = "ungated" /\ running' = Configs \cup Kinds

InReview == proc = "precheck" /\ verb # "none"

\* Mutant: permission to get is taken for permission to watch.
NextVerbGetOnly == [v \in Verbs |-> "none"]

NextVerb == [get |-> "list", list |-> "watch", watch |-> "none"]

Granted == /\ InReview /\ verb \in grants
           /\ verb' = NextVerb[verb]
           /\ IF verb' = "none" THEN Gated /\ allowed' = TRUE /\ lastErr' = FALSE /\ endAt' = now
              ELSE UNCHANGED <<proc, running, allowed, lastErr, endAt>>
           /\ UNCHANGED <<now, startAt, world, faults>>

RoundFails(err) == /\ verb' = "none" /\ endAt' = now
                   /\ lastErr' = err /\ allowed' = FALSE
                   /\ UNCHANGED <<proc, now, startAt, running, world>>

\* Mutant: the first denial is taken for an answer.
DeniedForGood == /\ InReview /\ verb \notin grants
                 /\ verb' = "none" /\ endAt' = now /\ lastErr' = FALSE /\ allowed' = FALSE
                 /\ Ungated /\ UNCHANGED <<now, startAt, world, faults>>

\* "Not yet": a denied verb ends the round, not the precheck.
Denied == InReview /\ verb \notin grants /\ RoundFails(FALSE) /\ UNCHANGED faults

ReviewErrs == InReview /\ Fault("error") /\ RoundFails(TRUE)

\* A review under way at the deadline fails with its context.
CutOff == InReview /\ now = Deadline /\ RoundFails(TRUE) /\ UNCHANGED faults

Due == now >= startAt + Interval

Between == proc = "precheck" /\ verb = "none"

Poll == /\ Between /\ now < Deadline /\ Due
        /\ verb' = "get" /\ startAt' = now
        /\ UNCHANGED <<proc, now, endAt, lastErr, allowed, running, world, faults>>

\* The deadline is no error, and the last review's error is only logged.
GiveUp == /\ Between /\ now = Deadline
          /\ Ungated
          /\ UNCHANGED <<precheck, world, faults>>

Tick == /\ Between /\ now < Deadline /\ ~Due /\ now' = now + 1
        /\ UNCHANGED <<proc, verb, startAt, endAt, lastErr, allowed, running, world, faults>>

ReviewTakesTime ==
    /\ InReview /\ now < Deadline /\ Fault("slow") /\ now' = now + 1
    /\ UNCHANGED <<proc, verb, startAt, endAt, lastErr, allowed, running, world>>

-----------------------------------------------------------------------------
(* Afterwards.                                                             *)

\* Mutant: Node is registered under the kind of the line above it.
GateOfCluster(k) == <<k[1], "Cluster">>

\* The kind whose definition lets the controller of k be set up.
GateOf(k) == k

\* Mutant: SetupGated forgets a kind.
RegisteredWithoutNode == Scopes \X {"Cluster"}

Registered == Kinds

GateOpens == /\ proc = "gated"
             /\ \E k \in Registered \ running : GateOf(k) \in served /\ running' = running \cup {k}
             /\ UNCHANGED <<proc, precheck, world, faults>>

Exits == /\ proc' = "down" /\ running' = {}
         /\ UNCHANGED <<precheck, world>>

\* The cache of a kind that is not served does not fill, and mgr.Start fails.
SyncFails == /\ proc = "ungated" /\ ~ Kinds \subseteq served
             /\ Exits /\ UNCHANGED faults

ProcessEnds == proc # "down" /\ Fault("exit") /\ Exits

\* The RBAC manager and the package manager.
Grant == /\ \E v \in Verbs \ grants : grants' = grants \cup {v}
         /\ grantedAt' = IF grants' = Verbs THEN now ELSE Never
         /\ UNCHANGED <<proc, precheck, running, served, faults>>

Establish == /\ \E k \in Kinds \ served : served' = served \cup {k}
             /\ UNCHANGED <<proc, precheck, running, grants, grantedAt, faults>>

Start == \/ Begin \/ Granted \/ Denied \/ CutOff \/ Poll \/ GiveUp \/ Tick
         \/ GateOpens \/ SyncFails

Next == \/ Start \/ ReviewErrs \/ ReviewTakesTime \/ ProcessEnds
        \/ Grant \/ Establish

\* The process is restarted and runs, and the RBAC manager does its work.
\* No definition need ever be established.
Fairness == WF_vars(Start) /\ WF_vars(Grant)

Spec == Init /\ [][Next]_vars
LiveSpec == Spec /\ Fairness

-----------------------------------------------------------------------------
\* Types.
TypeOK == /\ proc \in {"down", "precheck", "gated", "ungated"}
          /\ now \in 0..Deadline /\ verb \in Verbs \cup {"none"}
          /\ startAt \in 0..Deadline /\ endAt \in 0..Deadline
          /\ lastErr \in BOOLEAN /\ allowed \in BOOLEAN
          /\ running \in SUBSET (Configs \cup Kinds)
          /\ grants \in SUBSET Verbs /\ grantedAt \in 0..Never
          /\ served \in SUBSET Kinds /\ faults \in 0..MaxFaults

\* A gated process may do all the gate needs, however the grants arrived
\* between the reviews.
GatedMeansAllowed == proc = "gated" => grants = Verbs /\ allowed

\* A process does without SafeStart only if its last round could not complete,
\* or the grants came within an Interval of the deadline or of a round that
\* lasted until it.  Arriving late is not being denied.
SafeStartIsNotLost ==
    proc = "ungated" /\ ~lastErr => grantedAt + Interval >= Deadline \/ endAt = Deadline

\* With SafeStart no controller is set up before its kind is served.
StartsWhenServed == proc = "gated" => running \ Configs \subseteq served

\* In the end every kind that is served has its controller running, for good,
\* even if other kinds never are.
ServedKindsRun == <>[](served \subseteq running)
=============================================================================
