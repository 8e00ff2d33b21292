------------------------------ MODULE MCStores ------------------------------
(***************************************************************************)
(* The two durable sides of a Store: the row the server executes its       *)
(* Batches under (MutationBatch), on two concurrent pushes, two            *)
(* principals, Batches of two and three members and commit groups of two,  *)
(* or the file the client installs a Stream in (StreamStore), with the     *)
(* server's planner, records of two Models in pages of two and units of    *)
(* one cursor.  A behaviour has one of the two parts.                      *)
(***************************************************************************)
EXTENDS MutationBatch, StreamStore, TLC

CONSTANTS p1, p2, d2, d3, dx, a1, a2, b1, A, B

VARIABLE part

----------------------------------------------------------------------------
\* Content dx has a handler that throws a defect in its second group.
MCCountOf == (d2 :> 2) @@ (d3 :> 3) @@ (dx :> 3)
MCDefective == {<<dx, 2>>}
Symmetry == Permutations(Pushes)

MCModelOf == (a1 :> A) @@ (a2 :> A) @@ (b1 :> B)
MCSchema == [unique |-> {}, cascades |-> {}]

Planner == INSTANCE DeliveryUnits
             WITH ModelOf <- MCModelOf, PageSize <- 2, UnitTarget <- 1

MCPlanOf(lane, after, through, at) ==
    LET plan == Planner!Delivery(MCSchema, Selected(lane), at, after, through)
    IN [boot |-> lane, after |-> after, through |-> plan.through, at |-> at,
        units |-> plan.units]

----------------------------------------------------------------------------
MCInit == part \in {"batches", "stream"} /\ Init /\ StoreInit

\* A push can always be made, so the batches part never stops; a Stream at its
\* bounds does, and rests.
MCNext ==
    \/ part = "batches" /\ Next /\ UNCHANGED <<part, storeVars>>
    \/ part = "stream" /\ StoreNext /\ UNCHANGED <<part, batchVars>>
    \/ part = "stream" /\ UNCHANGED <<part, batchVars, storeVars>>

MCSpec == MCInit /\ [][MCNext]_<<part, batchVars, storeVars>>

============================================================================
