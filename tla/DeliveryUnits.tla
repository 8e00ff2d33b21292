--------------------------- MODULE DeliveryUnits ---------------------------
(***************************************************************************)
(* How the server turns the current positions of a Stream into a finite    *)
(* delivery: the page it selects and the atomic units it orders            *)
(* (crates/server/src/delivery_plan.rs, plan_units and the header          *)
(* validation of crates/protocols/src/sync/delivery.rs).                   *)
(*                                                                         *)
(* Positions are a function `at` from record keys to cursors, 0 for a key  *)
(* the Stream does not track.  The content of a record is fixed by the     *)
(* cursor it was published at, so a set of keys stands for their changes.  *)
(* A schema names the Models with unique constraints and the pairs of      *)
(* Models joined by a cascading relation.                                  *)
(***************************************************************************)
EXTENDS Integers, Sequences, FiniteSets, FiniteSetsExt, SequencesExt

CONSTANTS
    Keys,        \* record keys
    ModelOf,     \* the Model of each key
    PageSize,    \* records per page (500 in the code)
    UnitTarget   \* records a coalesced unit aims at (500 in the code)

ASSUME UnitsAssumption ==
    IsFiniteSet(Keys) /\ PageSize \in Nat \ {0} /\ UnitTarget \in Nat

\* A unit that claims no coverage.
NoThrough == -1

Cursors(ks, at) == {at[k] : k \in ks}
First(ks, at) == Min(Cursors(ks, at))
OfModels(ks, models) == {k \in ks : ModelOf[k] \in models}

----------------------------------------------------------------------------
(***************************************************************************)
(* Candidates: what deliveryCandidates answers for a cursor range.         *)
(***************************************************************************)

\* Constraint-free schemas seek a bounded page in the cursor index.
Bounded(schema) == schema.unique = {} /\ schema.cascades = {}

\* The selected records after the cursor; a bounded query returns one row of
\* lookahead with all its ties (FETCH FIRST ... WITH TIES).
Candidates(schema, selected, at, after) ==
    LET newer == {k \in selected : at[k] > after}
    IN IF Bounded(schema)
       THEN {k \in newer : Cardinality({j \in newer : at[j] < at[k]}) <= PageSize}
       ELSE newer

\* A bounded query that was cut proves nothing beyond its last position.
Reach(schema, found, at, through) ==
    IF Bounded(schema) /\ Cardinality(found) > PageSize
    THEN Min({through, Max(Cursors(found, at))}) ELSE through

----------------------------------------------------------------------------
(***************************************************************************)
(* Components: the transitive union of records that share a cursor, a      *)
(* Model with a unique constraint, or a cascading relation.                *)
(***************************************************************************)
Classes(schema, ks, at) ==
    {{k \in ks : at[k] = c} : c \in Cursors(ks, at)}
    \cup {OfModels(ks, {m}) : m \in schema.unique}
    \cup {OfModels(ks, {pair[1], pair[2]}) :
            pair \in {p \in schema.cascades : /\ OfModels(ks, {p[1]}) # {}
                                             /\ OfModels(ks, {p[2]}) # {}}}

\* A set that splits no class.
Closed(ks, classes) == \A class \in classes : class \cap ks # {} => class \subseteq ks

\* The smallest closed set around a record: what union joins with it.
Component(k, ks, classes) ==
    {j \in ks : \A S \in SUBSET ks : k \in S /\ Closed(S, classes) => j \in S}

ComponentsByCursor(schema, ks, at) == {{k \in ks : at[k] = c} : c \in Cursors(ks, at)}
Components(schema, ks, at) ==
    LET classes == Classes(schema, ks, at) IN {Component(k, ks, classes) : k \in ks}

\* Components ordered by their first cursor; no two begin at the same one.
Groups(schema, ks, at) ==
    LET components == Components(schema, ks, at)
        Rank(c) == Cardinality({d \in components : First(d, at) < First(c, at)})
    IN [i \in 1..Cardinality(components) |-> CHOOSE c \in components : Rank(c) = i - 1]

----------------------------------------------------------------------------
(***************************************************************************)
(* The page: whole components, as many as fit; its coverage ends before    *)
(* the first component it leaves out (page_positions).                     *)
(***************************************************************************)
SizeUpTo(groups, n) == Cardinality(UNION {groups[j] : j \in 1..n})

Within(groups, at, through, n) == First(groups[n], at) <= through

FitsBelowPage(groups, n) == SizeUpTo(groups, n) <= PageSize
Fits(groups, n) == n = 1 \/ SizeUpTo(groups, n) <= PageSize

\* How many components the page takes.
Taken(groups, at, through) ==
    Max({n \in 0..Len(groups) :
           \A j \in 1..n : Within(groups, at, through, j) /\ Fits(groups, j)})

PageThroughAll(groups, at, through) == through
PageThrough(groups, at, through) ==
    LET n == Taken(groups, at, through)
    IN IF n < Len(groups) /\ Within(groups, at, through, n + 1)
       THEN Min({through, First(groups[n + 1], at) - 1}) ELSE through

PageKeys(groups, at, through) ==
    UNION {groups[j] : j \in 1..Taken(groups, at, through)}

----------------------------------------------------------------------------
(***************************************************************************)
(* Units (plan_units): one per component; each but the last covers the     *)
(* prefix before the next component, if that is new coverage, and less     *)
(* than the whole range; the last covers the range.                        *)
(***************************************************************************)
BoundaryInclusive(groups, at, after, through, i) ==
    LET cap(j) == Min({through - 1, First(groups[j + 1], at)})
    IN IF i = Len(groups) THEN through
       ELSE IF cap(i) > after /\ (i = 1 \/ cap(i) > cap(i - 1)) THEN cap(i) ELSE NoThrough
Boundary(groups, at, after, through, i) ==
    LET cap(j) == Min({through - 1, First(groups[j + 1], at) - 1})
    IN IF i = Len(groups) THEN through
       ELSE IF cap(i) > after /\ (i = 1 \/ cap(i) > cap(i - 1)) THEN cap(i) ELSE NoThrough

PlanUnits(schema, ks, at, after, through) ==
    LET groups == Groups(schema, ks, at)
    IN IF ks = {} THEN <<[through |-> through, keys |-> {}]>>
       ELSE [i \in 1..Len(groups) |->
               [through |-> Boundary(groups, at, after, through, i), keys |-> groups[i]]]

\* Neighbouring units are packed up to the target (coalesce).
Pack(packed, unit) ==
    IF packed # <<>> /\ Cardinality(Last(packed).keys) + Cardinality(unit.keys) <= UnitTarget
    THEN Append(Front(packed),
                [through |-> IF unit.through = NoThrough
                             THEN Last(packed).through ELSE unit.through,
                 keys |-> Last(packed).keys \cup unit.keys])
    ELSE Append(packed, unit)

Coalesce(units) ==
    LET packed[n \in 0..Len(units)] ==
            IF n = 0 THEN <<>> ELSE Pack(packed[n - 1], units[n])
    IN packed[Len(units)]

\* process_delivery05 between its reads and the frozen response.
Delivery(schema, selected, at, after, through) ==
    LET found  == Candidates(schema, selected, at, after)
        reach  == Reach(schema, found, at, through)
        groups == Groups(schema, found, at)
        end    == PageThrough(groups, at, reach)
        page   == PageKeys(groups, at, reach)
    IN [after |-> after, through |-> end, at |-> at,
        units |-> Coalesce(PlanUnits(schema, page, at, after, end))]

----------------------------------------------------------------------------
(***************************************************************************)
(* DeliveryHeader::validate, which freezes the plan on the server and      *)
(* admits it on the client.                                                *)
(***************************************************************************)
Later(units, i) == UNION {units[j].keys : j \in (i + 1)..Len(units)}

ValidCoverage(plan, i) ==
    LET t == plan.units[i].through
        before == {plan.units[j].through : j \in 1..(i - 1)} \cup {plan.after}
    IN t = NoThrough \/ /\ Max(before) <= t /\ t <= plan.through
                        /\ i < Len(plan.units) => t # plan.through
                        /\ \A k \in Later(plan.units, i) : plan.at[k] > t

ValidHeader(plan, head) ==
    /\ plan.units # <<>>
    /\ plan.after <= plan.through /\ plan.through <= head
    /\ \A i \in DOMAIN plan.units :
         /\ \A k \in plan.units[i].keys : plan.at[k] > plan.after /\ plan.at[k] <= head
         /\ ValidCoverage(plan, i)
    /\ Last(plan.units).through = plan.through

============================================================================
