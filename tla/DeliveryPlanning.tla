-------------------------- MODULE DeliveryPlanning --------------------------
(***************************************************************************)
(* A delivery request answered over any positions of a Stream under any    *)
(* schema, and its units installed one at a time, as the client and the    *)
(* live controller step through them (DeliveryProgress::commit).           *)
(***************************************************************************)
EXTENDS DeliveryUnits

CONSTANTS
    Models,
    MaxHead      \* bound on the Stream head

ASSUME PlanningAssumption ==
    /\ Models = {ModelOf[k] : k \in Keys}
    /\ MaxHead \in Nat

VARIABLES
    schema,      \* unique and cascading Models
    selected,    \* the keys of the requested Models
    at,          \* the positions the transaction reads
    request,     \* after, through and the head read after the positions
    plan,        \* the frozen delivery, once answered
    next         \* units installed

vars == <<schema, selected, at, request, plan, next>>

NoPlan == [after |-> 0, through |-> 0, at |-> at, units |-> <<>>]

\* The cascading pairs relate different Models in one direction, as a foreign
\* key does; selections are by Model (the bootstrap Models, or all).
Schemas == [unique : SUBSET Models,
            cascades : {{}} \cup {{pair} : pair \in {p \in Models \X Models : p[1] # p[2]}}]

Init ==
    /\ schema \in Schemas
    /\ selected \in {OfModels(Keys, m) : m \in SUBSET Models}
    /\ at \in [Keys -> 0..MaxHead]
    /\ request \in {r \in [after : 0..MaxHead, through : 0..MaxHead] : r.after <= r.through}
    /\ plan = NoPlan
    /\ next = 0

\* process_delivery05 answers the request.
Serve ==
    /\ plan.units = <<>>
    /\ plan' = Delivery(schema, selected, at, request.after, request.through)
    /\ UNCHANGED <<schema, selected, at, request, next>>

\* DeliveryProgress::commit: the next unit is installed.
Install ==
    /\ next < Len(plan.units)
    /\ next' = next + 1
    /\ UNCHANGED <<schema, selected, at, request, plan>>

Next == Serve \/ Install

Spec == Init /\ [][Next]_vars

Installed == UNION {plan.units[i].keys : i \in 1..next}

\* The range the installed units prove: DeliveryProgress.covered.
Covered == Max({plan.units[i].through : i \in 1..next} \cup {plan.after})

----------------------------------------------------------------------------

\* Every delivery the server plans passes the validation that freezes it and
\* that its receiver repeats: no request is answered with an internal error or
\* a plan the client refuses.
PlansValidate == plan.units # <<>> => ValidHeader(plan, MaxHead)

\* What the installed units cover is installed: a client that stops after any
\* unit (crash, retirement, a newer plan) has the whole prefix it claims.
PrefixProven ==
    plan.units # <<>> =>
        \A k \in selected : at[k] > plan.after /\ at[k] <= Covered => k \in Installed

\* Records that a constraint ties together are installed together: none is in
\* the installed part while another newer than the request waits or was left
\* to a later page.
ComponentsAtomic ==
    \A class \in Classes(schema, {k \in selected : at[k] > request.after}, at) :
        class \cap Installed # {} => class \subseteq Installed

\* A page of a non-empty range covers some of it, so repair by pages ends.
PagesProgress ==
    plan.units # <<>> /\ request.after < request.through => plan.through > plan.after

============================================================================
