------------------------- MODULE StreamStoreProofs -------------------------
(***************************************************************************)
(* Proofs about StreamStore, for every set of keys, every planner that     *)
(* keeps PlanContract, and every bound.                                    *)
(***************************************************************************)
EXTENDS StreamStore, TLAPS

\* Positions never pass the head, and the Store never holds a position the
\* server has not given the record.
Positions ==
    /\ \A k \in Keys : pos[k] <= head /\ held[k] <= pos[k]
    /\ hello <= head

\* What remains true of an answered plan while the Stream moves on: a record
\* either is where the plan read it or has moved past the plan's range.  h is
\* the head, s is S and `at` are the positions.
PlanCurrent(plan, h, s, at) ==
    /\ plan.through <= h
    /\ ~plan.boot => s <= plan.after
    /\ \A k \in Keys :
         /\ plan.at[k] <= at[k]
         /\ plan.at[k] = at[k] \/ at[k] > plan.through
    /\ \A i \in 1..Len(plan.units) :
         /\ plan.units[i].through <= plan.through
         /\ PrefixCarried(plan, i)

PlansCurrent == \A id \in 1..Len(plans) : PlanCurrent(plans[id], head, start, pos)

\* The units counted by the durable progress of a lane are installed.
ProgressInstalled ==
    \A lane \in Lanes : \A j \in 1..progress[lane].next :
        LET plan == plans[progress[lane].plan]
        IN /\ progress[lane].plan \in 1..Len(plans)
           /\ plan.boot = lane
           /\ j <= Len(plan.units)
           /\ \A k \in plan.units[j].keys : held[k] >= plan.at[k]

\* Nothing is requested or installed before S is stamped.
Uninitialized == start = None => boot = None /\ cursor = None /\ plans = <<>>

\* The inductive invariant.
StoreInv ==
    /\ StoreTypeOK
    /\ Positions
    /\ PlansCurrent
    /\ ProgressInstalled
    /\ Uninitialized
    /\ CursorsOrdered
    /\ Coverage

----------------------------------------------------------------------------
\* The bounds and the selection, without the planner.
LEMMA ConstantFacts == BootKeys \subseteq Keys /\ MaxHead \in Nat /\ MaxPlans \in Nat
  BY StoreAssumption

\* The contract of the planner, for one answer.
LEMMA PlannerKeepsContract ==
    ASSUME NEW lane \in BOOLEAN, NEW after \in 0..MaxHead, NEW through \in 0..MaxHead,
           NEW at \in [Keys -> 0..MaxHead], after <= through
    PROVE  PlanContract(lane, after, through, at, PlanOf(lane, after, through, at))
  BY StoreAssumption

\* The parts of a plan.
LEMMA PlanParts ==
    ASSUME NEW plan \in Plan
    PROVE  /\ plan.boot \in BOOLEAN
           /\ plan.after \in 0..MaxHead /\ plan.through \in 0..MaxHead
           /\ plan.at \in [Keys -> 0..MaxHead]
           /\ plan.units \in Seq(Unit) /\ Len(plan.units) \in Nat
           /\ \A j \in 1..Len(plan.units) :
                /\ plan.units[j] \in Unit
                /\ plan.units[j].through \in Nat \cup {None}
                /\ plan.units[j].keys \in SUBSET Keys
<1>1. plan.units \in Seq(Unit) /\ Len(plan.units) \in Nat
  BY DEF Plan
<1>2. ASSUME NEW j \in 1..Len(plan.units) PROVE plan.units[j] \in Unit
  BY <1>1
<1> QED
  BY <1>1, <1>2 DEF Plan, Unit

\* The plans of a reachable state are plans.
LEMMA AnsweredPlans ==
    ASSUME StoreTypeOK, NEW id \in 1..Len(plans)
    PROVE  plans[id] \in Plan /\ id \in Nat
  BY DEF StoreTypeOK

\* An older or equal position changes nothing, a newer one is installed: the
\* positions a transaction leaves (RecordEvidence::admission).
LEMMA InstallRaises ==
    ASSUME StoreTypeOK, NEW plan \in Plan, NEW unit \in Unit
    PROVE  /\ Install(plan, unit) \in [Keys -> 0..MaxHead]
           /\ \A k \in Keys :
                /\ Install(plan, unit)[k] >= held[k]
                /\ Install(plan, unit)[k] \in {held[k], plan.at[k]}
                /\ k \in unit.keys => Install(plan, unit)[k] >= plan.at[k]
  BY ConstantFacts DEF StoreTypeOK, Plan, Unit, Install

\* A Store that was never opened satisfies the invariant.
LEMMA InitStoreInv == StoreInit => StoreInv
<1> SUFFICES ASSUME StoreInit PROVE StoreInv
  OBVIOUS
<1> USE ConstantFacts DEF StoreInit
<1>1. StoreTypeOK
  BY DEF StoreTypeOK, None, NoProgress, Lanes
<1>2. Positions /\ PlansCurrent /\ Uninitialized /\ CursorsOrdered /\ Coverage
  BY DEF Positions, PlansCurrent, Uninitialized, CursorsOrdered, Coverage, None
<1>3. ProgressInstalled
  BY DEF ProgressInstalled, NoProgress, Lanes
<1> QED
  BY <1>1, <1>2, <1>3 DEF StoreInv

\* A record that moves, moves past every plan answered before.
LEMMA PlanOutlived ==
    ASSUME NEW plan \in Plan, NEW h \in 0..MaxHead, NEW s,
           NEW at \in [Keys -> 0..MaxHead], NEW new \in [Keys -> 0..MaxHead],
           PlanCurrent(plan, h, s, at),
           \A k \in Keys : at[k] <= h,
           \A k \in Keys : new[k] = at[k] \/ new[k] = h + 1
    PROVE  PlanCurrent(plan, h + 1, s, new)
  BY ConstantFacts DEF PlanCurrent, Plan

\* A publication moves records past every plan, past every cursor and past
\* what the Store holds.
LEMMA PublishKeepsInv ==
    ASSUME StoreInv, NEW ks \in SUBSET Keys, Publish(ks)
    PROVE  StoreInv'
<1> USE ConstantFacts DEF StoreInv, Publish
<1>1. StoreTypeOK'
  BY DEF StoreTypeOK
<1>2. \A k \in Keys : pos'[k] = pos[k] \/ pos'[k] = head + 1
  BY DEF StoreTypeOK
<1>3. Positions'
  BY <1>2 DEF Positions, StoreTypeOK, None
<1>4. PlansCurrent'
  <2> SUFFICES ASSUME NEW id \in 1..Len(plans)
               PROVE  PlanCurrent(plans[id], head + 1, start, pos')
    BY DEF PlansCurrent
  <2>1. plans[id] \in Plan /\ PlanCurrent(plans[id], head, start, pos)
    BY DEF PlansCurrent, StoreTypeOK
  <2>2. \A k \in Keys : pos[k] <= head
    BY DEF Positions
  <2>3. head \in 0..MaxHead /\ pos \in [Keys -> 0..MaxHead] /\ pos' \in [Keys -> 0..MaxHead]
    BY <1>1 DEF StoreTypeOK
  <2> QED
    BY <1>2, <2>1, <2>2, <2>3, PlanOutlived
<1>5. ProgressInstalled' /\ Uninitialized' /\ CursorsOrdered'
  BY DEF ProgressInstalled, Uninitialized, CursorsOrdered, StoreTypeOK, None
<1>6. Coverage'
  BY <1>2 DEF Coverage, CursorsOrdered, Uninitialized, StoreTypeOK, None
<1> QED
  BY <1>1, <1>3, <1>4, <1>5, <1>6

\* A new plan is current, and the old ones stay.
LEMMA AnswerKeepsInv ==
    ASSUME StoreInv, NEW lane \in Lanes, NEW after \in 0..MaxHead,
           NEW through \in 0..MaxHead, Answer(lane, after, through)
    PROVE  StoreInv'
<1> USE ConstantFacts DEF StoreInv, Answer
<1> DEFINE new == PlanOf(lane, after, through, pos)
<1>1. PlanContract(lane, after, through, pos, new)
  BY PlannerKeepsContract DEF StoreTypeOK, Lanes
<1>2. /\ new \in Plan /\ plans \in Seq(Plan) /\ plans' = Append(plans, new)
      /\ plans' \in Seq(Plan) /\ Len(plans') = Len(plans) + 1
      /\ \A id \in 1..Len(plans) : plans'[id] = plans[id]
      /\ plans'[Len(plans) + 1] = new
  BY <1>1 DEF PlanContract, StoreTypeOK
<1>3. StoreTypeOK' /\ Positions'
  BY <1>2 DEF StoreTypeOK, Positions
<1>4. PlanCurrent(new, head, start, pos)
  <2>1. /\ new.through <= head
        /\ ~new.boot => start <= new.after
        /\ new.at = pos
    BY <1>1, <1>2 DEF PlanContract, StoreTypeOK, CursorsOrdered, Plan, Lanes, None
  <2>2. \A i \in 1..Len(new.units) :
          new.units[i].through <= new.through /\ PrefixCarried(new, i)
    BY <1>1 DEF PlanContract
  <2> HIDE DEF new
  <2> QED
    BY <2>1, <2>2 DEF PlanCurrent, StoreTypeOK
<1>5. PlansCurrent'
  <2> HIDE DEF new
  <2> QED
    BY <1>2, <1>4 DEF PlansCurrent, StoreTypeOK
<1>6. ProgressInstalled'
  <2> HIDE DEF new
  <2> QED BY <1>2 DEF ProgressInstalled, StoreTypeOK
<1>7. Uninitialized' /\ CursorsOrdered' /\ Coverage'
  BY DEF Uninitialized, CursorsOrdered, Coverage
<1> QED
  BY <1>3, <1>5, <1>6, <1>7

\* A connection handshake reports the head and touches no record.
LEMMA HandshakeKeepsInv ==
    ASSUME StoreInv, Handshake
    PROVE  StoreInv'
<1> USE DEF StoreInv, Handshake
<1>1. StoreTypeOK' /\ Positions'
  BY DEF StoreTypeOK, Positions
<1>2. PlansCurrent'
  BY DEF PlansCurrent
<1>3. ProgressInstalled' /\ Uninitialized' /\ CursorsOrdered' /\ Coverage'
  BY DEF ProgressInstalled, Uninitialized, CursorsOrdered, Coverage
<1> QED
  BY <1>1, <1>2, <1>3

\* S and C are stamped before any plan exists and claim nothing.
LEMMA InitializeKeepsInv ==
    ASSUME StoreInv, Initialize
    PROVE  StoreInv'
<1> USE ConstantFacts DEF StoreInv, Initialize
<1>1. StoreTypeOK' /\ Positions'
  BY DEF StoreTypeOK, Positions, None
<1>2. PlansCurrent'
  BY DEF PlansCurrent, Uninitialized, StoreTypeOK
<1>3. ProgressInstalled'
  BY DEF ProgressInstalled
<1>4. Uninitialized' /\ CursorsOrdered' /\ Coverage'
  BY DEF Uninitialized, CursorsOrdered, Coverage, Positions, StoreTypeOK, None
<1> QED
  BY <1>1, <1>2, <1>3, <1>4

\* A retained plan expires: its lane forgets its progress and keeps its cursor.
LEMMA ExpireKeepsInv ==
    ASSUME StoreInv, NEW lane \in Lanes, Expire(lane)
    PROVE  StoreInv'
<1> USE DEF StoreInv, Expire
<1>1. StoreTypeOK' /\ Positions'
  BY DEF StoreTypeOK, Positions, NoProgress, Lanes
<1>2. PlansCurrent'
  BY DEF PlansCurrent
<1>3. ProgressInstalled'
  BY DEF ProgressInstalled, NoProgress, Lanes, StoreTypeOK
<1>4. Uninitialized' /\ CursorsOrdered' /\ Coverage'
  BY DEF Uninitialized, CursorsOrdered, Coverage
<1> QED
  BY <1>1, <1>2, <1>3, <1>4

\* One unit installed with its coverage and its progress: every record the new
\* coverage claims is in this unit or in one the progress counts.
LEMMA ApplyKeepsInv ==
    ASSUME StoreInv, NEW id \in 1..Len(plans),
           NEW i \in 0..(Len(plans[id].units) - 1), ApplyUnit(id, i)
    PROVE  StoreInv' /\ Advances
<1> DEFINE plan  == plans[id]
           unit  == plan.units[i + 1]
           lane  == plan.boot
           final == i + 1 = Len(plan.units)
<1> USE ConstantFacts DEF StoreInv
<1>1. /\ plan \in Plan /\ lane \in BOOLEAN /\ plan.units \in Seq(Unit)
      /\ i \in Nat /\ i + 1 \in 1..Len(plan.units) /\ unit \in Unit
      /\ plan.at \in [Keys -> 0..MaxHead]
      /\ plan.after \in 0..MaxHead /\ plan.through \in 0..MaxHead
      /\ unit.through \in Nat \cup {None} /\ unit.keys \in SUBSET Keys
  <2>1. plan \in Plan
    BY AnsweredPlans
  <2>2. i \in Nat /\ i + 1 \in 1..Len(plan.units)
    BY <2>1, PlanParts
  <2> HIDE DEF plan
  <2> QED
    BY <2>1, <2>2, PlanParts
<1>2. PlanCurrent(plan, head, start, pos)
  BY DEF PlansCurrent
<1>3. /\ start # None
      /\ plan.after <= Reached(lane)
      /\ NextUnit(id) = i
      /\ lane => plan.through <= start
      /\ held' = Install(plan, unit)
      /\ boot' = IF lane /\ unit.through # None
                    /\ (unit.through > Reached(lane) \/ final)
                 THEN (IF unit.through > Reached(lane) THEN unit.through ELSE Reached(lane))
                 ELSE boot
      /\ cursor' = IF ~lane /\ unit.through > cursor THEN unit.through ELSE cursor
      /\ progress' = [progress EXCEPT ![lane] =
                        IF final THEN NoProgress ELSE [plan |-> id, next |-> i + 1]]
      /\ UNCHANGED <<head, pos, plans, hello, start>>
  BY DEF ApplyUnit, Applies
<1>4. \A j \in 1..i : /\ j <= Len(plan.units)
                      /\ \A k \in plan.units[j].keys : held[k] >= plan.at[k]
  <2> SUFFICES ASSUME NEW j \in 1..i
               PROVE  /\ j <= Len(plan.units)
                      /\ \A k \in plan.units[j].keys : held[k] >= plan.at[k]
    OBVIOUS
  <2>1. progress[lane].plan = id /\ progress[lane].next = i
    BY <1>1, <1>3 DEF NextUnit
  <2> QED
    BY <2>1, <1>1 DEF ProgressInstalled, Lanes
<1>5. unit.through <= plan.through /\ PrefixCarried(plan, i + 1)
  BY <1>1, <1>2 DEF PlanCurrent
<1>6. /\ held' \in [Keys -> 0..MaxHead]
      /\ \A k \in Keys : /\ held'[k] >= held[k]
                         /\ held'[k] \in {held[k], plan.at[k]}
                         /\ k \in unit.keys => held'[k] >= plan.at[k]
  BY <1>1, <1>3, InstallRaises
<1>7. plans' = plans /\ id \in 1..Len(plans)
  BY <1>3
<1>8. \A j \in 1..(i + 1) : \A k \in plan.units[j].keys : held'[k] >= plan.at[k]
  <2> SUFFICES ASSUME NEW j \in 1..(i + 1), NEW k \in plan.units[j].keys
               PROVE  held'[k] >= plan.at[k]
    OBVIOUS
  <2>1. k \in Keys /\ plan.at[k] \in Nat /\ held[k] \in Nat /\ held'[k] \in Nat
    <3>1. j \in 1..Len(plan.units)
      BY <1>1
    <3>2. plan.units[j].keys \in SUBSET Keys
      BY <3>1, <1>1, PlanParts
    <3> HIDE DEF plan
    <3> QED
      BY <3>2, <1>1, <1>6 DEF StoreTypeOK
  <2>2. CASE j = i + 1
    BY <2>1, <2>2, <1>6
  <2>3. CASE j \in 1..i
    BY <2>1, <2>3, <1>4, <1>6
  <2> QED
    BY <1>1, <2>2, <2>3
<1> HIDE DEF plan, unit, lane, final
<1>9. \A k \in Keys : held'[k] <= pos[k]
  BY <1>1, <1>2, <1>6 DEF PlanCurrent, Positions, StoreTypeOK
<1>10. ASSUME NEW k \in Selected(lane), Reached(lane) < pos[k], pos[k] <= unit.through
       PROVE  held'[k] = pos[k]
  <2>1. k \in Keys
    BY DEF Selected
  <2>2. pos[k] \in Nat /\ Reached(lane) \in Int /\ plan.at[k] \in Nat /\ held'[k] \in Nat
    BY <2>1, <1>1, <1>3, <1>6 DEF StoreTypeOK, Reached, None
  <2>3. plan.at[k] = pos[k]
    BY <1>1, <1>2, <1>5, <1>10, <2>1, <2>2 DEF PlanCurrent, None
  <2>4. plan.at[k] > plan.after
    BY <1>1, <1>3, <1>10, <2>2, <2>3
  <2>5. PICK j \in 1..(i + 1) : k \in plan.units[j].keys
    BY <1>5, <1>10, <2>3, <2>4 DEF PrefixCarried, lane, unit
  <2>6. held'[k] >= plan.at[k]
    BY <2>5, <1>8
  <2> QED
    BY <2>1, <2>2, <2>3, <2>6, <1>9
<1>11. /\ cursor' \in Int /\ cursor' >= cursor /\ cursor' <= head
       /\ boot' \in Int /\ boot' >= boot /\ boot' <= start
       /\ cursor' \in 0..MaxHead /\ boot' \in 0..MaxHead \cup {None}
  <2>1. start \in 0..MaxHead /\ cursor \in 0..MaxHead /\ boot \in 0..MaxHead \cup {None}
        /\ head \in 0..MaxHead /\ boot <= start /\ start <= cursor /\ cursor <= head
    BY <1>3 DEF StoreTypeOK, CursorsOrdered, None
  <2>2. plan.through <= head
    BY <1>2 DEF PlanCurrent
  <2>3. cursor' \in 0..MaxHead /\ cursor' >= cursor /\ cursor' <= head
    BY <1>1, <1>3, <1>5, <2>1, <2>2 DEF None
  <2>4. boot' \in 0..MaxHead \cup {None} /\ boot' >= boot /\ boot' <= start
    BY <1>1, <1>3, <1>5, <2>1, <2>2 DEF None, Reached
  <2> QED
    BY <2>3, <2>4 DEF None
<1>12. StoreTypeOK'
  <2>1. [plan |-> id, next |-> i + 1] \in [plan : Nat, next : Nat]
    BY <1>1, AnsweredPlans
  <2>2. progress' \in [Lanes -> [plan : Nat, next : Nat]]
    BY <2>1, <1>1, <1>3 DEF StoreTypeOK, NoProgress, Lanes
  <2> QED
    BY <2>2, <1>3, <1>6, <1>11 DEF StoreTypeOK
<1>13. Positions'
  BY <1>3, <1>9 DEF Positions
<1>14. PlansCurrent'
  BY <1>3 DEF PlansCurrent
<1>15. ProgressInstalled'
  <2> SUFFICES ASSUME NEW l \in Lanes, NEW j \in 1..progress'[l].next
               PROVE  /\ progress'[l].plan \in 1..Len(plans)
                      /\ plans[progress'[l].plan].boot = l
                      /\ j <= Len(plans[progress'[l].plan].units)
                      /\ \A k \in plans[progress'[l].plan].units[j].keys :
                           held'[k] >= plans[progress'[l].plan].at[k]
    BY <1>7 DEF ProgressInstalled
  <2>1. CASE l # lane
    <3> DEFINE old == plans[progress[l].plan]
    <3>1. progress'[l] = progress[l]
      BY <2>1, <1>3 DEF StoreTypeOK
    <3>2. /\ progress[l].plan \in 1..Len(plans) /\ old.boot = l /\ j <= Len(old.units)
          /\ \A k \in old.units[j].keys : held[k] >= old.at[k]
      BY <3>1 DEF ProgressInstalled
    <3>3. old \in Plan
      BY <3>2, AnsweredPlans
    <3>4. progress[l].next \in Nat
      BY DEF StoreTypeOK
    <3>5. \A k \in old.units[j].keys : held'[k] >= old.at[k]
      <4> HIDE DEF old
      <4>1. j \in 1..Len(old.units)
        BY <3>1, <3>2, <3>3, <3>4, PlanParts
      <4>2. \A k \in old.units[j].keys : k \in Keys /\ old.at[k] \in 0..MaxHead
        BY <3>3, <4>1, PlanParts
      <4>3. \A k \in Keys : held[k] \in 0..MaxHead /\ held'[k] \in 0..MaxHead
        BY <1>6 DEF StoreTypeOK
      <4> QED
        BY <3>2, <4>2, <4>3, <1>6
    <3> QED
      BY <3>1, <3>2, <3>5
  <2>2. CASE l = lane /\ ~final
    <3>1. progress'[l] = [plan |-> id, next |-> i + 1]
      BY <2>2, <1>3 DEF StoreTypeOK
    <3>2. j \in 1..(i + 1) /\ progress'[l].plan = id
      BY <3>1
    <3>3. /\ plans[id].boot = l /\ j <= Len(plans[id].units)
          /\ \A k \in plans[id].units[j].keys : held'[k] >= plans[id].at[k]
      BY <2>2, <3>2, <1>1, <1>8 DEF plan, lane
    <3> QED
      BY <3>2, <3>3, <1>7
  <2>3. CASE l = lane /\ final
    BY <2>3, <1>3 DEF NoProgress, StoreTypeOK
  <2> QED
    BY <2>1, <2>2, <2>3
<1>16. Uninitialized' /\ CursorsOrdered'
  BY <1>3, <1>11 DEF Uninitialized, CursorsOrdered, StoreTypeOK, None
<1>17. Coverage'
  <2> SUFFICES ASSUME NEW k \in Keys
               PROVE  /\ pos[k] > start /\ pos[k] <= cursor' => held'[k] = pos[k]
                      /\ boot' # None /\ k \in BootKeys /\ pos[k] # 0 /\ pos[k] <= boot'
                           => held'[k] = pos[k]
    BY <1>3 DEF Coverage
  <2>1. /\ pos[k] \in Nat /\ held[k] \in Nat /\ held'[k] \in Nat
        /\ held'[k] >= held[k] /\ held'[k] <= pos[k]
    BY <1>6, <1>9 DEF StoreTypeOK
  <2>2. ASSUME pos[k] > start, pos[k] <= cursor' PROVE held'[k] = pos[k]
    <3>1. CASE pos[k] <= cursor
      BY <3>1, <2>1, <2>2, <1>3 DEF Coverage
    <3>2. CASE ~(pos[k] <= cursor)
      <4>1. ~lane /\ unit.through = cursor'
        BY <3>2, <2>2, <1>3
      <4> QED
        BY <4>1, <3>2, <2>1, <2>2, <1>1, <1>10 DEF Selected, Reached, StoreTypeOK, None
    <3> QED
      BY <3>1, <3>2
  <2>3. ASSUME boot' # None, k \in BootKeys, pos[k] # 0, pos[k] <= boot'
        PROVE  held'[k] = pos[k]
    <3>1. CASE boot # None /\ pos[k] <= boot
      BY <3>1, <2>1, <2>3 DEF Coverage
    <3>2. CASE ~(boot # None /\ pos[k] <= boot)
      <4>1. lane /\ unit.through = boot' /\ Reached(lane) < pos[k]
        <5>1. lane
          BY <3>2, <2>3, <1>3
        <5>2. Reached(lane) < pos[k] /\ Reached(lane) \in Nat
          BY <5>1, <3>2, <2>1, <2>3 DEF Reached, StoreTypeOK, None
        <5>3. boot' # boot
          BY <3>2, <2>3
        <5>4. unit.through > Reached(lane)
          <6> SUFFICES ASSUME ~(unit.through > Reached(lane)) PROVE FALSE
            OBVIOUS
          <6>1. boot' = Reached(lane)
            BY <5>3, <1>3
          <6> QED
            BY <6>1, <5>2, <2>1, <2>3
        <5> QED
          BY <5>1, <5>2, <5>3, <5>4, <1>3
      <4> QED
        BY <4>1, <2>3, <1>10 DEF Selected
    <3> QED
      BY <3>1, <3>2
  <2> QED
    BY <2>2, <2>3
<1>18. Advances
  BY <1>3, <1>6, <1>11 DEF Advances
<1> QED
  BY <1>12, <1>13, <1>14, <1>15, <1>16, <1>17, <1>18

----------------------------------------------------------------------------
\* Every step keeps the inductive invariant.
LEMMA NextStoreInv == StoreInv /\ [StoreNext]_storeVars => StoreInv'
<1> SUFFICES ASSUME StoreInv, [StoreNext]_storeVars PROVE StoreInv'
  OBVIOUS
<1>1. ASSUME NEW ks \in SUBSET Keys, Publish(ks) PROVE StoreInv'
  BY <1>1, PublishKeepsInv
<1>2. ASSUME NEW lane \in Lanes, NEW after \in 0..MaxHead, NEW through \in 0..MaxHead,
             Answer(lane, after, through)
      PROVE  StoreInv'
  BY <1>2, AnswerKeepsInv
<1>3. CASE Handshake
  BY <1>3, HandshakeKeepsInv
<1>4. CASE Initialize
  BY <1>4, InitializeKeepsInv
<1>5. ASSUME NEW id \in 1..Len(plans), NEW i \in 0..(Len(plans[id].units) - 1),
             ApplyUnit(id, i)
      PROVE  StoreInv'
  BY <1>5, ApplyKeepsInv
<1>6. ASSUME NEW lane \in Lanes, Expire(lane) PROVE StoreInv'
  BY <1>6, ExpireKeepsInv
<1>7. CASE UNCHANGED storeVars
  BY <1>7 DEF storeVars, StoreInv, StoreTypeOK, Positions, PlansCurrent, ProgressInstalled,
              Uninitialized, CursorsOrdered, Coverage
<1> QED
  BY <1>1, <1>2, <1>3, <1>4, <1>5, <1>6, <1>7 DEF StoreNext, ServerStep, WorkerStep

\* The inductive invariant holds in every reachable state, for every planner
\* that keeps its contract.
THEOREM StoreInvariant == StoreSpec => []StoreInv
  BY InitStoreInv, NextStoreInv, PTL DEF StoreSpec

\* The types of the Stream and of the Store hold in every reachable state.
THEOREM StoreTypes == StoreSpec => []StoreTypeOK
<1>1. StoreInv => StoreTypeOK
  BY DEF StoreInv
<1> QED
  BY <1>1, StoreInvariant, PTL

\* Guarantees A2 and D9: the cursors of the Store claim only records it holds
\* at their current position, for every planner that keeps its contract and
\* every order, repetition and loss of its plans.
THEOREM CoverageProven == StoreSpec => []Coverage
<1>1. StoreInv => Coverage
  BY DEF StoreInv
<1> QED
  BY <1>1, StoreInvariant, PTL

\* B <= S <= C <= head.
THEOREM CursorsStayOrdered == StoreSpec => []CursorsOrdered
<1>1. StoreInv => CursorsOrdered
  BY DEF StoreInv
<1> QED
  BY <1>1, StoreInvariant, PTL

\* A Store that has completed both lanes holds the Stream's current positions.
THEOREM CompleteIsConverged == StoreSpec => []Converged
<1>1. StoreInv => Converged
  BY ConstantFacts DEF StoreInv, Converged, Coverage, Positions, StoreTypeOK, None
<1> QED
  BY <1>1, StoreInvariant, PTL

\* D2 and D9: no step of the server or of the worker takes S, C, B or an
\* installed record back.
THEOREM NothingRegresses == StoreSpec => NoRegress
<1>1. StoreInv /\ [StoreNext]_storeVars => [Advances]_storeVars
  <2> SUFFICES ASSUME StoreInv, StoreNext PROVE Advances
    OBVIOUS
  <2> USE ConstantFacts DEF StoreInv, StoreTypeOK, Advances, None
  <2>1. CASE ServerStep
    BY <2>1 DEF ServerStep, Publish, Answer, Handshake
  <2>2. CASE Initialize
    BY <2>2 DEF Initialize
  <2>3. ASSUME NEW id \in 1..Len(plans), NEW i \in 0..(Len(plans[id].units) - 1),
               ApplyUnit(id, i)
        PROVE  Advances
    BY <2>3, ApplyKeepsInv
  <2>4. ASSUME NEW lane \in Lanes, Expire(lane) PROVE Advances
    BY <2>4 DEF Expire
  <2> QED
    BY <2>1, <2>2, <2>3, <2>4 DEF StoreNext, WorkerStep
<1> QED
  BY <1>1, StoreInvariant, PTL DEF StoreSpec, NoRegress

============================================================================
