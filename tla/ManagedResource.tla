-------------------------- MODULE ManagedResource --------------------------
(***************************************************************************)
(* What a managed resource promises whoever declares one, with nothing     *)
(* about how: the thing it stands for is set up only while the resource    *)
(* guards it, is taken down only after the resource was withdrawn, and the *)
(* resource does not go away before that.  Losing the thing to the outside *)
(* world is a fault, and is accounted for as one.                          *)
(***************************************************************************)
EXTENDS Naturals, TLAPS

VARIABLES
    declared,     \* "absent", "live", or "withdrawn" and waiting to go
    guarded,      \* deleting the resource waits for its external counterpart
    installed,    \* the counterpart has been set up on the resource's behalf
    faults        \* faults so far

vars == <<declared, guarded, installed, faults>>

\* Any step may coincide with a fault that shows nowhere else.
PerhapsFaulty == faults' \in {faults, faults + 1}

\* It may have been declared before anyone looks.
Init == declared \in {"absent", "live"} /\ ~guarded /\ ~installed /\ faults = 0

Declare == /\ declared = "absent" /\ declared' = "live"
           /\ UNCHANGED <<guarded, installed>> /\ PerhapsFaulty

Withdraw == /\ declared = "live"
            /\ declared' = IF guarded THEN "withdrawn" ELSE "absent"
            /\ UNCHANGED <<guarded, installed>> /\ PerhapsFaulty

Guard == /\ declared = "live" /\ guarded' = TRUE
         /\ UNCHANGED <<declared, installed>> /\ PerhapsFaulty

\* A withdrawal may overtake the installation it comes too late to prevent.
Install == /\ declared # "absent" /\ guarded /\ installed' = TRUE
           /\ UNCHANGED <<declared, guarded>> /\ PerhapsFaulty

Uninstall == /\ declared = "withdrawn" /\ installed' = FALSE
             /\ UNCHANGED <<declared, guarded>> /\ PerhapsFaulty

Release == /\ declared = "withdrawn" /\ ~installed
           /\ declared' = "absent" /\ guarded' = FALSE
           /\ UNCHANGED installed /\ PerhapsFaulty

Lose == /\ installed' = FALSE /\ faults' = faults + 1
        /\ UNCHANGED <<declared, guarded>>

Trouble == UNCHANGED <<declared, guarded, installed>> /\ faults' = faults + 1

Next == Declare \/ Withdraw \/ Guard \/ Install \/ Uninstall \/ Release \/ Lose \/ Trouble

Spec == Init /\ [][Next]_vars

\* What the promise is for: nothing is left running that no resource answers for.
NothingLeftBehind == installed => guarded /\ declared # "absent"

\* Nothing is ever left running that no resource answers for: whatever keeps
\* this promise needs no further argument for that.
THEOREM PromiseIsEnough == Spec => []NothingLeftBehind
<1>1. Init => NothingLeftBehind
  BY DEF Init, NothingLeftBehind
<1>2. NothingLeftBehind /\ [Next]_vars => NothingLeftBehind'
  BY DEF NothingLeftBehind, Next, Declare, Withdraw, Guard, Install, Uninstall, Release,
         Lose, Trouble, vars
<1>3. QED
  BY <1>1, <1>2, PTL DEF Spec
=============================================================================
