---------------------------- MODULE MutationSync ----------------------------
(***************************************************************************)
(* The client's mutation queue (crates/client: mutation_queue.rs,          *)
(* settlement05.rs) over the server of MutationBatch: freeze a Batch, send *)
(* it until it is acknowledged, settle every accepted member locally, only *)
(* then freeze the next.  Requests and responses may be lost, duplicated   *)
(* and delayed: Send may start any number of pushes of the frozen Batch,   *)
(* and the reply of a push may reach the client at any later time or never.*)
(***************************************************************************)
EXTENDS MutationBatch

CONSTANTS
    Me,          \* the principal this client authenticates as
    MaxFaults    \* bound on lost replies, restarts and server stops

ASSUME SyncAssumption == Me \in Owners /\ MaxFaults \in Nat

VARIABLES
    acked,       \* axton_store.last_acknowledged_batch_id
    frozen,      \* digest of the Batch frozen as acked + 1, if any
    unsettled,   \* ordinals of Batch `acked` accepted and not reconciled
    received,    \* outcomes recorded in axton_mutation_queue
    faults       \* disturbances so far

clientVars == <<acked, frozen, unsettled, received, faults>>
vars == <<batchVars, clientVars>>

SyncInit ==
    /\ Init
    /\ acked = 0
    /\ frozen = NoDigest
    /\ unsettled = {}
    /\ received = {}
    /\ faults = 0

Disturbed == faults < MaxFaults /\ faults' = faults + 1

FreezeEarly(d) ==
    /\ frozen = NoDigest
    /\ acked < MaxBatch
    /\ frozen' = d
    /\ UNCHANGED <<batchVars, acked, unsettled, received, faults>>
\* freeze05: the next Batch waits until every assigned member is reconciled.
Freeze(d) ==
    /\ frozen = NoDigest
    /\ unsettled = {}
    /\ acked < MaxBatch
    /\ frozen' = d
    /\ UNCHANGED <<batchVars, acked, unsettled, received, faults>>

\* The frozen Batch is reconstructed and sent; a retry sends it again.
Send(p) ==
    /\ frozen # NoDigest
    /\ Receive(p, [owner |-> Me, batch |-> acked + 1, digest |-> frozen])
    /\ UNCHANGED clientVars

\* acknowledge05 on the first acknowledgement of the frozen Batch: outcomes
\* become durable, a rejected member is reconciled at once.
Acknowledge(p) ==
    /\ Reply(p)
    /\ push[p].batch = acked + 1
    /\ push[p].digest = frozen
    /\ acked' = acked + 1
    /\ frozen' = NoDigest
    /\ received' = received \cup push[p].answers
    /\ unsettled' = {s.ordinal : s \in {t \in push[p].answers : t.outcome = "accepted"}}
    /\ UNCHANGED faults

\* A late acknowledgement is compared with what was recorded and changes nothing.
AcknowledgedAgain(p) ==
    /\ Reply(p)
    /\ push[p].batch # acked + 1 \/ push[p].digest # frozen
    /\ UNCHANGED clientVars

\* The acknowledgement the client waits for is lost.
LoseReply(p) == Reply(p) /\ Disturbed /\ UNCHANGED <<acked, frozen, unsettled, received>>

\* Stream evidence or the fallback of the receipt settles a member.
Settle(o) ==
    /\ o \in unsettled
    /\ unsettled' = unsettled \ {o}
    /\ UNCHANGED <<batchVars, acked, frozen, received, faults>>

\* A settlement-owned materialization: the server answers it only if the
\* owner's accepted result is still saved (process_materialization05).
SettleOwned(o) ==
    /\ o \in unsettled
    /\ \E s \in results : s.batch = acked /\ s.ordinal = o /\ s.outcome = "accepted"
    /\ unsettled' = unsettled \ {o}
    /\ UNCHANGED <<batchVars, acked, frozen, received, faults>>

ServerStep(p) == Serve(p) /\ UNCHANGED clientVars

\* A serialization restart or the end of the serving process.
DisturbStep(p) == Disturb(p) /\ Disturbed /\ UNCHANGED <<acked, frozen, unsettled, received>>

SyncNext ==
    \/ \E d \in Digests : Freeze(d)
    \/ \E p \in Pushes : Send(p) \/ Acknowledge(p) \/ AcknowledgedAgain(p) \/ LoseReply(p)
    \/ \E p \in Pushes : ServerStep(p) \/ DisturbStep(p)
    \/ \E o \in Ordinals : Settle(o) \/ SettleOwned(o)

(***************************************************************************)
(* The client keeps sending its frozen Batch, the server keeps serving and *)
(* replies arrive: with finitely many disturbances (MaxFaults) weak        *)
(* fairness of each of the three is enough.  Settlement is retried until   *)
(* it completes.                                                           *)
(***************************************************************************)
Fairness ==
    /\ WF_vars(\E p \in Pushes : Send(p))
    /\ WF_vars(\E p \in Pushes : ServerStep(p))
    /\ WF_vars(\E p \in Pushes : Acknowledge(p) \/ AcknowledgedAgain(p))
    /\ WF_vars(\E o \in Ordinals : Settle(o))

SyncSpec == SyncInit /\ [][SyncNext]_vars
FairSyncSpec == SyncSpec /\ Fairness

----------------------------------------------------------------------------

\* While an accepted member awaits settlement its result is still saved, so a
\* settlement-owned materialization is never refused as an unknown owner:
\* beginning a Batch prunes the results of the one before it.
OwnedResultsRetained ==
    \A o \in unsettled :
        \E s \in results : s.batch = acked /\ s.ordinal = o /\ s.outcome = "accepted"

\* What the client records about a mutation is what the server committed for
\* it, and a recorded acceptance means the work was performed once.
RecordedIsCommitted ==
    /\ received \subseteq history
    /\ \A s \in received : s.outcome = "accepted" =>
         executions[<<s.batch, s.digest, s.ordinal>>] = 1
    /\ \A b \in 1..acked : \E s \in received : s.batch = b

\* Every frozen Batch is eventually acknowledged.
EveryBatchAnswered ==
    \A n \in 0..(MaxBatch - 1) : (acked = n /\ frozen # NoDigest) ~> (acked = n + 1)

\* website/docs/backend/api.md: a handler error that is no business rejection
\* "rejects that call with `handler.failed`".
HandlerDefectRejectsItsCall ==
    \A m \in Defective :
        (frozen = m[1]) ~> (\E s \in history : /\ s.digest = m[1] /\ s.ordinal = m[2]
                                              /\ s.outcome = "rejected")

============================================================================
