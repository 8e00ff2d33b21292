---------------------------- MODULE StreamStore ----------------------------
(***************************************************************************)
(* A Stream and one client Store that follows it: publication on the       *)
(* server, the deliveries it answers (live offers, HTTP repair, Bootstrap  *)
(* pages), and the Store worker's transactions that install them           *)
(* (crates/client/src/sync05/delta_applier.rs, settlement05.rs).           *)
(*                                                                         *)
(* Every delivery is a finite plan read in one transaction.  The transport *)
(* and the client's Control decide which plans arrive, in which order and  *)
(* how often; the worker is asked for unit i of a plan by a Control whose  *)
(* idea of i may be old, since a report may be lost to a reconnect or a    *)
(* process restart.  So ApplyUnit may be tried with any plan and any unit  *)
(* at any time, and nothing but the durable Store decides what it does.    *)
(*                                                                         *)
(* The planner is a parameter, PlanOf, with the contract the rest rests    *)
(* on; DeliveryUnits gives it its definition, and DeliveryPlanningProofs   *)
(* proves that it keeps the contract.                                      *)
(***************************************************************************)
EXTENDS DeliveryContract

CONSTANTS
    PlanOf(_, _, _, _), \* the plan for (boot, after, through, positions)
    MaxPlans            \* bound on the plans answered

ASSUME StoreAssumption ==
    /\ BootKeys \subseteq Keys
    /\ MaxHead \in Nat
    /\ MaxPlans \in Nat
    /\ \A lane \in BOOLEAN, after \in 0..MaxHead, through \in 0..MaxHead,
          at \in [Keys -> 0..MaxHead] :
         after <= through =>
            PlanContract(lane, after, through, at, PlanOf(lane, after, through, at))

VARIABLES
    head,        \* axton_stream.head
    pos,         \* axton_stream_record: each tracked key's cursor, 0 if untracked
    plans,       \* every plan answered so far, in order
    hello,       \* the head a handshake answered, not yet installed
    start,       \* axton_store.start_cursor (S)
    boot,        \* axton_store.bootstrap_cursor (B)
    cursor,      \* axton_store.cursor (C)
    held,        \* axton_authority: the position installed for each key, 0 if none
    progress     \* axton_delivery_progress: the partial plan of each lane

storeVars == <<head, pos, plans, hello, start, boot, cursor, held, progress>>

Lanes == BOOLEAN    \* TRUE is Bootstrap, FALSE is Sync
NoProgress == [plan |-> 0, next |-> 0]

StoreInit ==
    /\ head = 0 /\ pos = [k \in Keys |-> 0]
    /\ plans = <<>>
    /\ hello = None
    /\ start = None /\ boot = None /\ cursor = None
    /\ held = [k \in Keys |-> 0]
    /\ progress = [lane \in Lanes |-> NoProgress]

----------------------------------------------------------------------------
(***************************************************************************)
(* The server.                                                             *)
(***************************************************************************)

\* One publication scope: the records it tracks or invalidates move to the
\* next cursor together (V05_RESERVE_APPLY_MEMBERS).
Publish(ks) ==
    /\ head < MaxHead
    /\ ks # {}
    /\ head' = head + 1
    /\ pos' = [k \in Keys |-> IF k \in ks THEN head + 1 ELSE pos[k]]
    /\ UNCHANGED <<plans, hello, start, boot, cursor, held, progress>>

\* A delivery request is answered from the current positions.  Bootstrap asks
\* for a range that ends at S, Sync for one that begins at C, at an earlier C
\* or at a socket's cursor.
Answer(lane, after, through) ==
    /\ Len(plans) < MaxPlans
    /\ start # None
    /\ after <= through
    /\ IF lane THEN through = start ELSE start <= after /\ through <= head
    /\ plans' = Append(plans, PlanOf(lane, after, through, pos))
    /\ UNCHANGED <<head, pos, hello, start, boot, cursor, held, progress>>

\* handshake05 answers the head; the answer travels.
Handshake ==
    /\ hello' = head
    /\ UNCHANGED <<head, pos, plans, start, boot, cursor, held, progress>>

----------------------------------------------------------------------------
(***************************************************************************)
(* The Store worker.                                                       *)
(***************************************************************************)

InitializeAlways ==
    /\ hello # None
    /\ start' = hello /\ cursor' = hello
    /\ UNCHANGED <<head, pos, plans, hello, boot, held, progress>>
\* initialize_stream05: the first handshake stamps S and C, later ones nothing.
Initialize ==
    /\ hello # None
    /\ start' = IF start = None THEN hello ELSE start
    /\ cursor' = IF start = None THEN hello ELSE cursor
    /\ UNCHANGED <<head, pos, plans, hello, boot, held, progress>>

\* The position a lane has reached.
Reached(lane) == IF lane THEN (IF boot = None THEN 0 ELSE boot) ELSE cursor

\* Completed transfers are dropped: contiguous coverage is their receipt.
Spent(plan) == IF plan.boot THEN boot # None /\ boot >= plan.through
                            ELSE cursor >= plan.through

\* The next unit of a plan, by the durable progress.
NextUnit(id) ==
    LET saved == progress[plans[id].boot]
    IN IF saved.plan = id THEN saved.next ELSE 0

InstallOver(plan, unit) ==
    [k \in Keys |-> IF k \in unit.keys THEN plan.at[k] ELSE held[k]]
\* RecordEvidence::admission: an older or equal position changes nothing.
Install(plan, unit) ==
    [k \in Keys |-> IF k \in unit.keys /\ plan.at[k] > held[k] THEN plan.at[k] ELSE held[k]]

AppliesGap(plan) == ~Spent(plan)
\* The plan is selected: its range begins at or below what the lane reached.
Applies(plan) == ~Spent(plan) /\ plan.after <= Reached(plan.boot)

\* Unit i (from 0) of a plan: installed with its coverage and progress in one
\* transaction when it is the plan's next unit; a unit already counted is
\* skipped, a gap is an error, and both leave the Store alone.
ApplyUnit(id, i) ==
    LET plan == plans[id]
        unit == plan.units[i + 1]
        lane == plan.boot
        final == i + 1 = Len(plan.units)
    IN /\ start # None
       /\ Applies(plan)
       /\ NextUnit(id) = i
       /\ lane => plan.through <= start
       /\ held' = Install(plan, unit)
       /\ boot' = IF lane /\ unit.through # None
                     /\ (unit.through > Reached(lane) \/ final)
                  THEN (IF unit.through > Reached(lane) THEN unit.through ELSE Reached(lane))
                  ELSE boot
       /\ cursor' = IF ~lane /\ unit.through > cursor THEN unit.through ELSE cursor
       /\ progress' = [progress EXCEPT ![lane] =
                         IF final THEN NoProgress ELSE [plan |-> id, next |-> i + 1]]
       /\ UNCHANGED <<head, pos, plans, hello, start>>

\* cleanup_delivery05: an expired plan loses its progress.
Expire(lane) ==
    /\ progress[lane] # NoProgress
    /\ progress' = [progress EXCEPT ![lane] = NoProgress]
    /\ UNCHANGED <<head, pos, plans, hello, start, boot, cursor, held>>

ServerStep ==
    \/ \E ks \in SUBSET Keys : Publish(ks)
    \/ \E lane \in Lanes, after, through \in 0..MaxHead : Answer(lane, after, through)
    \/ Handshake

WorkerStep ==
    \/ Initialize
    \/ \E id \in 1..Len(plans) : \E i \in 0..(Len(plans[id].units) - 1) : ApplyUnit(id, i)
    \/ \E lane \in Lanes : Expire(lane)

StoreNext == ServerStep \/ WorkerStep

StoreSpec == StoreInit /\ [][StoreNext]_storeVars

----------------------------------------------------------------------------
\* The type of every variable.
StoreTypeOK ==
    /\ head \in 0..MaxHead /\ pos \in [Keys -> 0..MaxHead]
    /\ plans \in Seq(Plan)
    /\ hello \in 0..MaxHead \cup {None}
    /\ start \in 0..MaxHead \cup {None}
    /\ boot \in 0..MaxHead \cup {None}
    /\ cursor \in 0..MaxHead \cup {None}
    /\ held \in [Keys -> 0..MaxHead]
    /\ progress \in [Lanes -> [plan : Nat, next : Nat]]

\* C stands for a proven contiguous prefix and B for a proven prefix of the
\* Bootstrap history (guarantees A2, D9): whatever the current position of a
\* record, if the cursors claim it the Store holds exactly that position.
Coverage ==
    \A k \in Keys :
        /\ start # None /\ pos[k] > start /\ pos[k] <= cursor => held[k] = pos[k]
        /\ boot # None /\ k \in BootKeys /\ pos[k] # 0 /\ pos[k] <= boot => held[k] = pos[k]

\* B <= S <= C <= head once the Stream is initialised: Bootstrap never claims
\* past its boundary, and no cursor runs ahead of the server.
CursorsOrdered ==
    start # None => boot <= start /\ start <= cursor /\ cursor <= head

\* A step that stamps S at most once and takes C, B and every installed
\* position forward.
Advances ==
    /\ start # None => start' = start /\ cursor' >= cursor
    /\ boot' >= boot
    /\ \A k \in Keys : held'[k] >= held[k]

\* S is stamped once, C and B never retreat, and a record never goes back to
\* an older position, whatever is replayed (D2, D9).
NoRegress == [][Advances]_storeVars

\* When both lanes are complete the Store holds the current position of every
\* record of the Stream except history outside Bootstrap.
Converged ==
    start # None /\ boot = start /\ cursor = head =>
        \A k \in Keys : k \in BootKeys \/ pos[k] > start => held[k] = pos[k]

============================================================================
