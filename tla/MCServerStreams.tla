-------------------------- MODULE MCServerStreams --------------------------
(***************************************************************************)
(* What the server does with a Stream: transactions that publish to it     *)
(* (Publication), on two Streams and two records, or a delivery request    *)
(* answered from it (DeliveryPlanning), on four records of two Models in   *)
(* pages of three.  A behaviour has one of the two parts.                  *)
(***************************************************************************)
EXTENDS Publication, DeliveryPlanning, TLC

CONSTANTS a1, a2, a3, b1, A, B

VARIABLE part

----------------------------------------------------------------------------
Declares(track, selected_, global) ==
    [track |-> track, selected |-> selected_, global |-> global, refused |-> FALSE]
Refused(d) == [d EXCEPT !.refused = TRUE]

\* backend.transaction, backend.publish in a Read Committed transaction, and a
\* Mutation commit group.
Transaction(members) == [isolation |-> "snapshot", caller |-> FALSE,
                         grouped |-> FALSE, members |-> members]
Publish(d) == [isolation |-> "committed", caller |-> TRUE,
               grouped |-> FALSE, members |-> <<d>>]
Group(members) == [isolation |-> "snapshot", caller |-> FALSE,
                   grouped |-> TRUE, members |-> members]

Kinds == {
    Transaction(<<Declares({}, {}, {1})>>),
    Transaction(<<Declares({<<2, 1>>}, {}, {}), Declares({<<2, 2>>}, {}, {1})>>),
    Publish(Declares({<<1, 1>>, <<2, 1>>}, {}, {})),
    Publish(Declares({}, {<<2, 2>>}, {1})),
    Group(<<Refused(Declares({<<2, 1>>}, {}, {1})), Declares({<<1, 2>>}, {}, {1})>>)}

Idle == Transaction(<<>>)

\* Any two of them, and the three transactions among which a new holder of an
\* invalidated record could turn the lock order around.
Busy ==
    {<<a, b, Idle>> : a \in Kinds, b \in Kinds}
    \cup {<<Publish(Declares({}, {}, {1})), Publish(Declares({<<1, 1>>}, {}, {})),
            Publish(Declares({<<1, 1>>}, {}, {1}))>>}
Unused == <<Idle, Idle, Idle>>
MCWorkloads == Busy \cup {Unused}

MCModelOf == (a1 :> A) @@ (a2 :> A) @@ (a3 :> A) @@ (b1 :> B)

----------------------------------------------------------------------------
\* The part a behaviour does without: no request is made, nothing is published.
NoRequest ==
    /\ schema = [unique |-> {}, cascades |-> {}]
    /\ selected = {}
    /\ at = [k \in Keys |-> 0]
    /\ request = [after |-> 0, through |-> 0]
NoPublication ==
    /\ head = [s \in Stream |-> 0]
    /\ program = Unused

MCInit ==
    /\ \/ part = "publication" /\ NoRequest /\ program \in Busy
       \/ part = "planning" /\ NoPublication
    /\ PublicationInit /\ Init

MCNext ==
    \/ part = "publication" /\ PublicationNext /\ UNCHANGED <<part, vars>>
    \/ part = "planning" /\ Next /\ UNCHANGED <<part, publicationVars>>

MCSpec == MCInit /\ [][MCNext]_<<part, publicationVars, vars>>

============================================================================
