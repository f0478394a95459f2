--------------------------- MODULE ReadinessLoop ---------------------------
(***************************************************************************)
(* When does a restarted unit become ready?  The install command queues    *)
(* its restart and returns (commands.go, nonBlockingRestartCommand);       *)
(* Observe counts a unit that is not active as not up to date, and Update  *)
(* then restarts it.  ClusterController leaves time out and asks, in its   *)
(* fairness, that a unit gets to finish starting between two reconciles.   *)
(* Here time is counted in ticks, to see when it does.                     *)
(*                                                                         *)
(* Simplifications: a reconcile takes no time; a start takes StartTicks    *)
(* however often it was interrupted before.                                *)
(***************************************************************************)
EXTENDS Naturals

CONSTANTS StartTicks,    \* from a restart to READY=1
          PollTicks,     \* Options.PollInterval
          MaxEdits, MaxFaults

ASSUME TicksAssumption == StartTicks \in Nat \ {0} /\ PollTicks \in Nat \ {0}
ASSUME CountsAssumption == MaxEdits \in Nat /\ MaxFaults \in Nat

VARIABLES unit,      \* its ActiveState
          since,     \* ticks since it was last restarted, while activating
          due,       \* ticks until the workqueue's delayed entry is ripe
          event,     \* has a watch event queued the resource?
          current,   \* does the annotation equal the spec?
          restarts,  \* restarts so far
          edits, faults

vars == <<unit, since, due, event, current, restarts, edits, faults>>

\* What an edit or a fault can cost in restarts; see RestartsAreFew.
PerTrouble == 3
MaxRestarts == PerTrouble * (1 + MaxEdits + MaxFaults) + 1

Init == /\ unit \in {"down", "active"} /\ since = 0 /\ due = 0 /\ event = TRUE
        /\ current = FALSE /\ restarts = 0 /\ edits = 0 /\ faults = 0

\* Mutant: every Update, even one for the sake of a unit that runs the right
\* configuration already, is one too many.
upToDateNever(u, c) == FALSE

upToDate(u, c) == u = "active" /\ c

\* Mutant: the annotation is written whether or not it holds the value already.
annotationChangesAlways(c) == TRUE

\* An annotation that changes passes the DesiredStateChanged filter and queues
\* the resource again.
annotationChanges(c) == ~c

Restart == /\ unit' = "activating" /\ since' = 0
           /\ restarts' = IF restarts < MaxRestarts THEN restarts + 1 ELSE restarts

\* A delayed entry is not put off by a reconcile that an event has started.
Rescheduled == due' = IF due = 0 THEN PollTicks ELSE due

Awake == event \/ due = 0

ReconcileNothingToDo == /\ Awake /\ upToDate(unit, current)
                        /\ event' = FALSE /\ Rescheduled
                        /\ UNCHANGED <<unit, since, current, restarts, edits, faults>>

ReconcileUpdates == /\ Awake /\ ~upToDate(unit, current)
                    /\ Restart /\ current' = TRUE /\ event' = annotationChanges(current)
                    /\ Rescheduled
                    /\ UNCHANGED <<edits, faults>>

\* The restart took place, its confirmation is lost, and the rate limiter puts
\* the resource back almost at once.
ReconcileFails == /\ Awake /\ ~upToDate(unit, current) /\ faults < MaxFaults
                  /\ faults' = faults + 1
                  /\ Restart /\ event' = TRUE
                  /\ UNCHANGED <<due, current, edits>>

UserEdits == /\ edits < MaxEdits /\ edits' = edits + 1
             /\ current' = FALSE /\ event' = TRUE
             /\ UNCHANGED <<unit, since, due, restarts, faults>>

UnitStarts == /\ unit = "activating" /\ since = StartTicks
              /\ unit' = "active" /\ since' = 0
              /\ UNCHANGED <<due, event, current, restarts, edits, faults>>

\* systemd restarts a unit that died, or gives it up.
UnitDies == /\ unit = "active" /\ faults < MaxFaults /\ faults' = faults + 1
            /\ unit' \in {"activating", "down"}
            /\ UNCHANGED <<since, due, event, current, restarts, edits>>

\* Time does not pass over what is due now.
Tick == /\ ~Awake /\ ~(unit = "activating" /\ since = StartTicks)
        /\ due' = due - 1
        /\ since' = IF unit = "activating" THEN since + 1 ELSE since
        /\ UNCHANGED <<unit, event, current, restarts, edits, faults>>

Reconcile == ReconcileNothingToDo \/ ReconcileUpdates

Next == Reconcile \/ ReconcileFails \/ UserEdits \/ UnitStarts \/ UnitDies \/ Tick

Spec == Init /\ [][Next]_vars
LiveSpec == Spec /\ WF_vars(Reconcile) /\ WF_vars(UnitStarts) /\ WF_vars(Tick)

-----------------------------------------------------------------------------
\* Types; no delay is longer than a poll interval.
TypeOK == /\ unit \in {"down", "activating", "active"} /\ since \in 0..StartTicks
          /\ due \in 0..PollTicks /\ event \in BOOLEAN /\ current \in BOOLEAN
          /\ restarts \in 0..MaxRestarts
          /\ edits \in 0..MaxEdits /\ faults \in 0..MaxFaults

\* Observe's poll loop sees the unit converge (commands.go:118, node.go:430):
\* it is active and stays active once users and faults stop.
Settles == <>[](unit = "active" /\ current)

\* An edit, a fault or the first install costs the machine no more than three
\* restarts: one for the command, one for the event the annotation causes, one
\* for a poll that was due while the unit was starting.
RestartsAreFew == restarts <= PerTrouble * (1 + edits + faults)
=============================================================================
