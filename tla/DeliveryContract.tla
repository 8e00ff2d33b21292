-------------------------- MODULE DeliveryContract --------------------------
(***************************************************************************)
(* What the server's planner promises a Store: the form of a delivery plan *)
(* and the facts about it that installing its units rests on.  StreamStore *)
(* assumes it of its planner; the planner of DeliveryUnits keeps it.       *)
(***************************************************************************)
EXTENDS Integers, Sequences

CONSTANTS
    Keys,      \* record keys the Stream may track
    BootKeys,  \* the keys of @@bootstrap Models
    MaxHead    \* bound on the Stream head

\* A cursor that is still NULL, and a unit that claims no coverage.
None == -1

\* Bootstrap selects the @@bootstrap Models, Sync all.
Selected(lane) == IF lane THEN BootKeys ELSE Keys

Unit == [through : Nat \cup {None}, keys : SUBSET Keys]

\* A plan: its lane, its range, the positions it was read from, its units.
Plan == [boot : BOOLEAN, after : 0..MaxHead, through : 0..MaxHead,
         at : [Keys -> 0..MaxHead], units : Seq(Unit)]

\* Every selected record of the plan's range up to unit i's coverage is in
\* that unit or in an earlier one.
PrefixCarried(plan, i) ==
    \A k \in Selected(plan.boot) :
        plan.at[k] > plan.after /\ plan.at[k] <= plan.units[i].through =>
            \E j \in 1..i : k \in plan.units[j].keys

\* What a plan promises of the positions it was read from: its units carry
\* selected records newer than `after`, the last one ends the range, and
\* every coverage is carried.
PlanContract(lane, after, through, at, plan) ==
    /\ plan \in Plan
    /\ plan.boot = lane /\ plan.after = after /\ plan.at = at
    /\ after <= plan.through /\ plan.through <= through
    /\ plan.units # <<>>
    /\ \A i \in 1..Len(plan.units) :
         /\ plan.units[i].keys \subseteq {k \in Selected(lane) : at[k] > after}
         /\ plan.units[i].through <= plan.through
         /\ PrefixCarried(plan, i)
    /\ plan.units[Len(plan.units)].through = plan.through

=============================================================================
