----------------------------- MODULE MCClientIO -----------------------------
(***************************************************************************)
(* The SDK against the runtime behind its queues: an application that      *)
(* observes (ClientObservers), or one that connects and calls              *)
(* (ClientConnection), on small loads that are each about one crossing.    *)
(***************************************************************************)
EXTENDS ClientObservers, ClientConnection

VARIABLE part

----------------------------------------------------------------------------
\* r1 stores its answer, r2 does not.
MCReads == {"r1", "r2"}
MCStoring == {"r1"}

Load(reads_, connects, pauses, refusals, failures, closes, txn, lacks) ==
    [reads |-> reads_, connects |-> connects, pauses |-> pauses, refusals |-> refusals,
     failures |-> failures, closes |-> closes, txn |-> txn, lacks |-> lacks]

\* A call and Control refused at once; a resume that crosses a refusal; two
\* connections; close() with a transaction and a call under way; two pauses;
\* and calls that may wait for the Store's first handshake or a changed
\* contract: refused while the connection or the client closes, beside a call
\* that does not wait, over two connections, behind a transaction.
MCLoads == {Load({"r2"}, 1, 0, 2, 0, 0, FALSE, {}), Load({}, 1, 1, 1, 0, 0, FALSE, {}),
            Load({}, 2, 0, 1, 1, 1, FALSE, {}), Load({"r1"}, 1, 0, 0, 0, 1, TRUE, {}),
            Load({}, 1, 2, 0, 0, 0, FALSE, {}),
            Load({"r1"}, 1, 0, 1, 0, 1, FALSE, {"start"}),
            Load({"r1", "r2"}, 1, 0, 0, 0, 0, FALSE, {"start"}),
            Load({"r1"}, 2, 0, 0, 0, 1, FALSE, {"start"}),
            Load({"r1"}, 1, 0, 0, 1, 0, TRUE, {"start"}),
            Load({"r2"}, 1, 0, 0, 0, 1, FALSE, {"schema"})}

Idle == Load({}, 0, 0, 0, 0, 0, FALSE, {})
MCLoadsOrIdle == MCLoads \cup {Idle}

\* One refused call: beside a failed handshake, or beside a call that waits
\* for the Store.
RefusedLoads == {Load({"r2"}, 1, 0, 1, 1, 0, FALSE, {}),
                 Load({"r1", "r2"}, 1, 0, 1, 0, 0, FALSE, {"start"})}

----------------------------------------------------------------------------
MCInit ==
    /\ ObserversInit /\ ConnectionInit
    /\ \/ part = "observers" /\ left = Idle
       \/ part = "connection" /\ left # Idle /\ use = "stream"

MCNext ==
    \/ part = "observers" /\ ObserversNext /\ UNCHANGED <<part, connectionVars>>
    \/ part = "connection" /\ ConnectionNext /\ UNCHANGED <<part, observersVars>>

MCSpec ==
    /\ MCInit /\ [][MCNext]_<<part, observersVars, connectionVars>>
    /\ ObserversFairness /\ ConnectionFairness

============================================================================
