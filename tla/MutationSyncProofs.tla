------------------------- MODULE MutationSyncProofs -------------------------
(***************************************************************************)
(* Proofs about MutationSync: the client's mutation queue over the server  *)
(* whose invariants MutationBatchProofs establishes, for every number of   *)
(* pushes in flight, Batch contents, group size and disturbances.          *)
(***************************************************************************)
EXTENDS MutationSync, MutationBatchProofs

----------------------------------------------------------------------------
(***************************************************************************)
(* The inductive invariant.                                                *)
(***************************************************************************)

\* The client's own variables; a Batch is frozen only over a settled one.
ClientTypes ==
    /\ acked \in 0..MaxBatch
    /\ frozen \in Digests \cup {NoDigest}
    /\ frozen # NoDigest => acked < MaxBatch /\ unsettled = {}

\* Every push still in flight carries a Batch the client has acknowledged or
\* the frozen one, with its content: none is ahead of the client.
PushesOfClient ==
    \A p \in Pushes : push[p].state # "idle" =>
        /\ push[p].batch <= acked + 1
        /\ push[p].batch = acked + 1 => push[p].digest = frozen

\* The Store row has completed what the client acknowledged and is at most the
\* frozen Batch ahead of it; without one it is between Batches.
RowFollows ==
    /\ row.last \in {acked, acked + 1}
    /\ row.last = acked + 1 => row.current = NoDigest
    /\ row.last = acked + 1 \/ row.current # NoDigest => frozen # NoDigest

\* Progress stops short of the end of the Batch under execution.
ProgressShort == row.current # NoDigest => row.progress < CountOf[row.current]

\* Answers are those of the push's own Batch.
AnswersOwn ==
    /\ \A p \in Pushes : \A s \in push[p].answers : s.batch = push[p].batch
    /\ tx.push # NoPush => \A s \in tx.answers : s.batch = push[tx.push].batch

\* The client has recorded committed outcomes of every acknowledged Batch, and
\* waits for accepted members of the last one only.
ClientKnows ==
    /\ received \subseteq history
    /\ \A b \in 1..acked : \E s \in received : s.batch = b
    /\ \A o \in unsettled :
         \E s \in history : s.batch = acked /\ s.ordinal = o /\ s.outcome = "accepted"

SyncInv ==
    /\ BatchInv /\ AnswerInv /\ ClientTypes /\ PushesOfClient /\ RowFollows
    /\ ProgressShort /\ AnswersOwn /\ ClientKnows

----------------------------------------------------------------------------
(***************************************************************************)
(* Every step of the composition is a step of the server or leaves it      *)
(* alone, so the server's invariants carry over.                           *)
(***************************************************************************)

\* Initially nothing is frozen, acknowledged or decided.
LEMMA InitSyncInv == SyncInit => SyncInv
<1> SUFFICES ASSUME SyncInit PROVE SyncInv
  OBVIOUS
<1>1. Init
  BY DEF SyncInit
<1>2. BatchInv /\ AnswerInv
  BY <1>1, InitBatchInv, InitAnswerInv
<1>3. /\ acked = 0 /\ frozen = NoDigest /\ unsettled = {} /\ received = {}
      /\ row.last = 0 /\ row.current = NoDigest /\ tx.push = NoPush
      /\ \A p \in Pushes : push[p].state = "idle" /\ push[p].answers = {}
  BY DEF SyncInit, Init, EmptyRow, NoTx, Idle
<1>4. ClientTypes /\ PushesOfClient /\ RowFollows /\ ProgressShort
  BY <1>3, BatchAssumption
     DEF ClientTypes, PushesOfClient, RowFollows, ProgressShort
<1>5. AnswersOwn /\ ClientKnows
  BY <1>3 DEF AnswersOwn, ClientKnows
<1> QED
  BY <1>2, <1>4, <1>5 DEF SyncInv

\* The request of the frozen Batch is one the server admits.
LEMMA FrozenRequest ==
    ASSUME ClientTypes, frozen # NoDigest
    PROVE  [owner |-> Me, batch |-> acked + 1, digest |-> frozen] \in Request
  BY SyncAssumption, BatchAssumption DEF ClientTypes, Request, BatchIds

\* A step of the client and the server is a step of the server.
LEMMA SyncStepServes ==
    ASSUME ClientTypes, [SyncNext]_vars
    PROVE  [Next]_batchVars
<1>1. CASE UNCHANGED vars
  BY <1>1 DEF vars, batchVars
<1>2. CASE (\E d \in Digests : Freeze(d)) \/ (\E o \in Ordinals : Settle(o) \/ SettleOwned(o))
  BY <1>2 DEF Freeze, Settle, SettleOwned
<1>3. ASSUME NEW p \in Pushes, Send(p)
      PROVE  Next
  <2> DEFINE req == [owner |-> Me, batch |-> acked + 1, digest |-> frozen]
  <2>1. req \in Request
    BY <1>3, FrozenRequest DEF Send
  <2>2. Receive(p, req)
    BY <1>3 DEF Send
  <2> HIDE DEF req
  <2> QED
    BY <2>1, <2>2 DEF Next
<1>4. ASSUME NEW p \in Pushes, Acknowledge(p) \/ AcknowledgedAgain(p) \/ LoseReply(p)
      PROVE  Next
  BY <1>4 DEF Acknowledge, AcknowledgedAgain, LoseReply, Next
<1>5. ASSUME NEW p \in Pushes, ServerStep(p) \/ DisturbStep(p)
      PROVE  Next
  BY <1>5 DEF ServerStep, DisturbStep, Next
<1> QED
  BY <1>1, <1>2, <1>3, <1>4, <1>5 DEF SyncNext

----------------------------------------------------------------------------
(***************************************************************************)
(* What the steps of the server do to the rest of the invariant.           *)
(***************************************************************************)

\* Pushes end or stand still, and the open transaction closes or keeps its
\* push: what every step does that commits, receives and answers nothing.
Ends ==
    /\ UNCHANGED <<row, history>>
    /\ \A q \in Pushes : push'[q] = push[q] \/ push'[q] = Idle
    /\ tx'.push # NoPush => /\ tx' = tx
                            /\ push'[tx.push] = push[tx.push]

\* The steps that end a push or its transaction.
LEMMA EndingSteps ==
    ASSUME BatchInv, NEW p \in Pushes,
           Reply(p) \/ RollBack(p) \/ Restart(p) \/ Stop(p)
    PROVE  Ends
<1> USE DEF Ends
<1>1. push \in [Pushes -> [state : {"idle", "running", "answered"},
                            owner : Owners \cup {NoOwner}, batch : Nat,
                            digest : Digests \cup {NoDigest}, next : Nat,
                            answers : SUBSET Result]]
      /\ tx.push \in Pushes \cup {NoPush}
  BY DEF BatchInv, TypeOK
<1>2. NoTx.push = NoPush
  BY DEF NoTx
<1>3. CASE Reply(p)
  <2>1. tx.push # NoPush => tx.push # p
    BY <1>3 DEF BatchInv, LockHeld, Reply
  <2> QED
    BY <1>1, <1>3, <2>1 DEF Reply
<1>4. CASE RollBack(p)
  BY <1>1, <1>2, <1>4 DEF RollBack
<1>5. CASE Restart(p)
  BY <1>1, <1>2, <1>5 DEF Restart
<1>6. CASE Stop(p)
  BY <1>1, <1>2, <1>6 DEF Stop
<1> QED
  BY <1>3, <1>4, <1>5, <1>6

\* Ending a push leaves nobody ahead of the client and no foreign answers.
LEMMA EndsKeep ==
    ASSUME Ends, PushesOfClient, AnswersOwn, UNCHANGED <<acked, frozen>>,
           tx.push \in Pushes \cup {NoPush}
    PROVE  PushesOfClient' /\ AnswersOwn'
<1>1. Idle.state = "idle" /\ Idle.answers = {}
  BY DEF Idle
<1> QED
  BY <1>1 DEF Ends, PushesOfClient, AnswersOwn

\* The frozen Batch is received: the new push is the client's own.
LEMMA SendKeeps ==
    ASSUME SyncInv, NEW p \in Pushes, Send(p)
    PROVE  PushesOfClient' /\ AnswersOwn' /\ UNCHANGED <<row, history>>
<1>1. /\ push[p].state = "idle" /\ UNCHANGED <<acked, frozen>>
      /\ push' = [push EXCEPT ![p] = [state |-> "running", owner |-> Me,
                                      batch |-> acked + 1, digest |-> frozen,
                                      next |-> 0, answers |-> {}]]
      /\ UNCHANGED <<row, history, tx>>
  BY DEF Send, Receive, clientVars
<1>2. /\ push'[p].batch = acked + 1 /\ push'[p].digest = frozen /\ push'[p].answers = {}
      /\ \A q \in Pushes \ {p} : push'[q] = push[q]
  BY <1>1 DEF SyncInv, BatchInv, TypeOK
<1>3. tx.push # NoPush => tx.push \in Pushes \ {p}
  BY <1>1 DEF SyncInv, BatchInv, TypeOK, LockHeld
<1>4. acked \in Nat
  BY BatchAssumption DEF SyncInv, ClientTypes
<1>5. PushesOfClient'
  BY <1>1, <1>2, <1>4 DEF SyncInv, PushesOfClient
<1>6. AnswersOwn'
  BY <1>1, <1>2, <1>3 DEF SyncInv, AnswersOwn
<1> QED
  BY <1>1, <1>5, <1>6

\* Claiming, replaying and executing keep to the transaction; the answers they
\* add are those of the push's Batch.
LEMMA TxStepKeeps ==
    ASSUME SyncInv, NEW p \in Pushes,
           Claim(p) \/ Replay(p) \/ \E outcome \in Outcomes : Execute(p, outcome),
           UNCHANGED clientVars
    PROVE  PushesOfClient' /\ AnswersOwn' /\ UNCHANGED <<row, history>>
<1>1. UNCHANGED <<row, history, push>> /\ UNCHANGED <<acked, frozen>>
  BY DEF Claim, Replay, Execute, clientVars
<1>2. tx'.push = p /\ \A s \in tx'.answers : s.batch = push[p].batch
  <2>0. tx \in Transaction
    BY DEF SyncInv, BatchInv, TypeOK, Transaction
  <2>1. CASE Claim(p)
    BY <2>1 DEF Claim
  <2>2. CASE Replay(p)
    <3>1. PICK saved \in SavedRow(p) :
            tx' = [tx EXCEPT !.answers = @ \cup {saved}, !.at = @ + 1]
      BY <2>2 DEF Replay
    <3>2. tx.push = p /\ p # NoPush /\ saved.batch = push[p].batch
      BY <2>2, BatchAssumption DEF Replay, AtMember, SavedRow
    <3>3. tx'.push = p /\ tx'.answers = tx.answers \cup {saved}
      BY <2>0, <3>1, <3>2 DEF Transaction
    <3> QED
      BY <3>2, <3>3 DEF SyncInv, AnswersOwn
  <2>3. CASE \E outcome \in Outcomes : Execute(p, outcome)
    <3>1. PICK outcome \in Outcomes : Execute(p, outcome)
      BY <2>3
    <3> DEFINE result == [batch |-> push[p].batch, digest |-> push[p].digest,
                          ordinal |-> tx.at, outcome |-> outcome]
    <3>2. tx.push = p /\ p # NoPush
      BY <3>1, BatchAssumption DEF Execute, Fresh, AtMember
    <3>3. tx'.push = p /\ tx'.answers = tx.answers \cup {result}
      BY <2>0, <3>1, <3>2 DEF Execute, Transaction
    <3>4. result.batch = push[p].batch
      OBVIOUS
    <3> HIDE DEF result
    <3> QED
      BY <3>2, <3>3, <3>4 DEF SyncInv, AnswersOwn
  <2> QED
    BY <2>1, <2>2, <2>3
<1>3. PushesOfClient'
  BY <1>1 DEF SyncInv, PushesOfClient
<1>4. AnswersOwn'
  BY <1>1, <1>2 DEF SyncInv, AnswersOwn
<1> QED
  BY <1>1, <1>3, <1>4

\* Only the frozen Batch advances the row: a commit with fresh members is of a
\* push of the Batch after the one the row has completed, and no push is ahead
\* of the client.
LEMMA CommitKeeps ==
    ASSUME SyncInv, NEW p \in Pushes, CommitGroup(p), UNCHANGED clientVars
    PROVE  /\ PushesOfClient' /\ AnswersOwn' /\ RowFollows' /\ ProgressShort'
           /\ history \subseteq history'
<1> DEFINE digest == push[p].digest
           batch == push[p].batch
<1>1. /\ p # NoPush /\ push[p].state = "running"
      /\ digest \in Digests /\ batch \in Nat
      /\ tx.at \in Nat /\ tx.at <= CountOf[digest] /\ CountOf[digest] \in Nat
      /\ tx.first # -1 => row.last = batch - 1
      /\ tx.first = -1 => /\ row'.last = row.last /\ row'.progress = row.progress
                          /\ row'.current = row.current
      /\ tx.first # -1 /\ tx.at = CountOf[digest] =>
           row'.last = batch /\ row'.progress = 0 /\ row'.current = NoDigest
      /\ tx.first # -1 /\ tx.at # CountOf[digest] =>
           row'.last = row.last /\ row'.progress = tx.at /\ row'.current = digest
  BY CommitFacts DEF SyncInv
<1>2. /\ tx.push = p /\ tx' = NoTx /\ history' = history \cup tx.pending
      /\ push' = [push EXCEPT ![p].next = tx.at,
                              ![p].answers = @ \cup tx.answers,
                              ![p].state = IF tx.at = Count(p) THEN "answered" ELSE @]
  BY DEF CommitGroup
<1>3. /\ push'[p].batch = batch /\ push'[p].digest = digest
      /\ push'[p].answers = push[p].answers \cup tx.answers
      /\ \A q \in Pushes \ {p} : push'[q] = push[q]
  BY <1>2 DEF SyncInv, BatchInv, TypeOK
<1>4. /\ UNCHANGED <<acked, frozen>> /\ acked \in Nat
      /\ batch <= acked + 1 /\ (batch = acked + 1 => digest = frozen)
  BY <1>1, BatchAssumption DEF clientVars, SyncInv, ClientTypes, PushesOfClient
<1>5. PushesOfClient'
  BY <1>1, <1>3, <1>4 DEF SyncInv, PushesOfClient
<1>6. AnswersOwn'
  <2>1. tx'.push = NoPush
    BY <1>2 DEF NoTx
  <2>2. /\ \A q \in Pushes : \A s \in push[q].answers : s.batch = push[q].batch
        /\ \A s \in tx.answers : s.batch = batch
    BY <1>1, <1>2 DEF SyncInv, AnswersOwn
  <2>3. \A s \in push'[p].answers : s.batch = push'[p].batch
    BY <1>3, <2>2
  <2> QED
    BY <1>3, <2>1, <2>2, <2>3 DEF AnswersOwn
<1>7. RowFollows /\ ProgressShort /\ NoDigest \notin Digests
  BY BatchAssumption DEF SyncInv
<1> HIDE DEF digest, batch
<1>8. RowFollows'
  <2>1. CASE tx.first = -1
    BY <1>1, <1>4, <1>7, <2>1 DEF RowFollows
  <2>2. CASE tx.first # -1
    <3>1. row.last = acked /\ batch = acked + 1 /\ digest = frozen
      BY <1>1, <1>4, <1>7, <2>2 DEF RowFollows
    <3> QED
      BY <1>1, <1>4, <1>7, <2>2, <3>1 DEF RowFollows
  <2> QED
    BY <2>1, <2>2
<1>9. ProgressShort'
  BY <1>1, <1>7 DEF ProgressShort
<1> QED
  BY <1>2, <1>5, <1>6, <1>8, <1>9

\* A push that answers the frozen Batch found it completed: the answer to its
\* last member is decided, and the row never stops at the end of a Batch it
\* has not completed.
LEMMA AnsweredIsComplete ==
    ASSUME SyncInv, NEW p \in Pushes, push[p].state = "answered",
           push[p].batch = acked + 1
    PROVE  /\ row.last = acked + 1 /\ row.current = NoDigest
           /\ \E s \in push[p].answers : s.batch = acked + 1
<1>1. /\ push[p].digest \in Digests /\ push[p].next = Count(p)
      /\ Count(p) = CountOf[push[p].digest] /\ Count(p) \in Nat \ {0}
      /\ acked \in Nat
  BY OrdinalFacts, BatchAssumption
     DEF SyncInv, BatchInv, PushShape, AnswerInv, PushAnswers, Count, ClientTypes
<1>2. Count(p) - 1 \in 0..(push[p].next - 1)
  BY <1>1
<1>3. PICK s \in push[p].answers : AnswerTo(p, s, Count(p) - 1)
  BY <1>2 DEF SyncInv, AnswerInv, PushAnswers
<1>4. /\ s.batch = acked + 1 /\ s.digest = push[p].digest /\ s.ordinal = Count(p) - 1
      /\ s \in history
  BY <1>3 DEF AnswerTo, SyncInv, AnswerInv, PushAnswers
<1>5. \/ s.batch <= row.last
      \/ s.batch = row.last + 1 /\ s.digest = row.current /\ s.ordinal < row.progress
  BY <1>4 DEF SyncInv, BatchInv, RowCounts
<1>6. ~(s.digest = row.current /\ s.ordinal < row.progress)
  <2>1. row.progress \in Nat
    BY OrdinalFacts DEF SyncInv, BatchInv, TypeOK, Row
  <2> QED
    BY <1>1, <1>4, <2>1, BatchAssumption DEF SyncInv, ProgressShort
<1>7. row.last = acked + 1
  BY <1>1, <1>4, <1>5, <1>6 DEF SyncInv, RowFollows
<1> QED
  BY <1>3, <1>4, <1>7 DEF SyncInv, RowFollows

----------------------------------------------------------------------------
(***************************************************************************)
(* The steps of the client.                                                *)
(***************************************************************************)

\* The parts of the invariant that are not the server's.
ClientInv ==
    /\ ClientTypes /\ PushesOfClient /\ RowFollows /\ ProgressShort
    /\ AnswersOwn /\ ClientKnows

\* A step that leaves the client's record leaves what it knows: the history
\* only grows.
LEMMA RecordKept ==
    ASSUME ClientTypes, ClientKnows, history \subseteq history',
           UNCHANGED <<acked, frozen, unsettled, received>>
    PROVE  ClientTypes' /\ ClientKnows'
  BY DEF ClientTypes, ClientKnows

\* A step that leaves the row and the acknowledged and frozen Batch leaves the
\* relation between them.
LEMMA RowKept ==
    ASSUME RowFollows, ProgressShort, UNCHANGED <<row, acked, frozen>>
    PROVE  RowFollows' /\ ProgressShort'
  BY DEF RowFollows, ProgressShort

\* A new Batch is frozen: no push carries its number yet.
LEMMA FreezeKeeps ==
    ASSUME SyncInv, NEW d \in Digests, Freeze(d)
    PROVE  ClientInv'
<1>1. /\ frozen = NoDigest /\ unsettled = {} /\ acked < MaxBatch /\ frozen' = d
      /\ UNCHANGED <<acked, unsettled, received>> /\ d # NoDigest
      /\ UNCHANGED <<row, history, push, tx>>
  BY BatchAssumption DEF Freeze, batchVars
<1>2. ClientTypes' /\ ClientKnows'
  BY <1>1 DEF SyncInv, ClientTypes, ClientKnows
<1>3. PushesOfClient'
  BY <1>1, BatchAssumption DEF SyncInv, PushesOfClient, BatchInv, PushShape
<1>4. RowFollows' /\ ProgressShort'
  BY <1>1 DEF SyncInv, RowFollows, ProgressShort
<1>5. AnswersOwn'
  BY <1>1 DEF SyncInv, AnswersOwn
<1> QED
  BY <1>2, <1>3, <1>4, <1>5 DEF ClientInv

\* A member is settled.
LEMMA SettleKeeps ==
    ASSUME SyncInv, NEW o, Settle(o) \/ SettleOwned(o)
    PROVE  ClientInv'
<1>1. /\ unsettled' \subseteq unsettled /\ UNCHANGED <<acked, frozen, received>>
      /\ UNCHANGED <<row, history, push, tx>>
  BY DEF Settle, SettleOwned, batchVars
<1>2. ClientTypes' /\ ClientKnows'
  BY <1>1 DEF SyncInv, ClientTypes, ClientKnows
<1>3. PushesOfClient' /\ AnswersOwn'
  BY <1>1 DEF SyncInv, PushesOfClient, AnswersOwn
<1>4. RowFollows' /\ ProgressShort'
  BY <1>1, RowKept DEF SyncInv
<1> QED
  BY <1>2, <1>3, <1>4 DEF ClientInv

\* The frozen Batch is acknowledged: the row has completed it, so the client
\* catches up with the row, and every push left is of a Batch it has passed.
LEMMA AcknowledgeKeeps ==
    ASSUME SyncInv, NEW p \in Pushes, Acknowledge(p)
    PROVE  ClientInv'
<1>1. /\ push[p].state = "answered" /\ push[p].batch = acked + 1
      /\ push[p].digest = frozen
      /\ acked' = acked + 1 /\ frozen' = NoDigest
      /\ received' = received \cup push[p].answers
      /\ unsettled' = {s.ordinal : s \in {t \in push[p].answers : t.outcome = "accepted"}}
      /\ Reply(p)
  BY DEF Acknowledge, Reply
<1>2. Ends
  BY <1>1, EndingSteps DEF SyncInv
<1>3. UNCHANGED <<row, history>>
  BY <1>2 DEF Ends
<1>4. /\ acked \in Nat /\ MaxBatch \in Nat /\ frozen # NoDigest
      /\ acked < MaxBatch
  BY <1>1, BatchAssumption DEF SyncInv, ClientTypes, BatchInv, PushShape
<1>5. /\ row.last = acked + 1 /\ row.current = NoDigest
      /\ \E s \in push[p].answers : s.batch = acked + 1
  BY <1>1, AnsweredIsComplete
<1>6. push[p].answers \subseteq history /\ \A s \in push[p].answers : s.batch = acked + 1
  BY <1>1 DEF SyncInv, AnswerInv, PushAnswers, AnswersOwn
<1>7. ClientTypes'
  BY <1>1, <1>4 DEF ClientTypes
<1>8. RowFollows' /\ ProgressShort'
  BY <1>1, <1>3, <1>4, <1>5 DEF RowFollows, ProgressShort
<1>9. PushesOfClient'
  <2> SUFFICES ASSUME NEW q \in Pushes, push'[q].state # "idle"
               PROVE  /\ push'[q].batch <= acked' + 1
                      /\ push'[q].batch = acked' + 1 => push'[q].digest = frozen'
    BY DEF PushesOfClient
  <2>1. push'[q] = push[q]
    BY <1>2 DEF Ends, Idle
  <2>2. push[q].batch <= acked + 1 /\ push[q].batch \in Nat
    BY <2>1 DEF SyncInv, PushesOfClient, BatchInv, TypeOK
  <2> QED
    BY <1>1, <1>4, <2>1, <2>2
<1>10. AnswersOwn'
  <2>1. Idle.answers = {} /\ tx.push \in Pushes \cup {NoPush}
    BY DEF Idle, SyncInv, BatchInv, TypeOK
  <2> QED
    BY <1>2, <2>1 DEF Ends, SyncInv, AnswersOwn
<1>11. ClientKnows'
  <2>1. received' \subseteq history'
    BY <1>1, <1>3, <1>6 DEF SyncInv, ClientKnows
  <2>2. ASSUME NEW b \in 1..acked'
        PROVE  \E s \in received' : s.batch = b
    <3>1. CASE b = acked + 1
      BY <1>1, <1>5, <3>1
    <3>2. CASE b # acked + 1
      <4>1. b \in 1..acked
        BY <1>1, <1>4, <3>2
      <4> QED
        BY <1>1, <4>1 DEF SyncInv, ClientKnows
    <3> QED
      BY <3>1, <3>2
  <2>3. ASSUME NEW o \in unsettled'
        PROVE  \E s \in history' :
                  s.batch = acked' /\ s.ordinal = o /\ s.outcome = "accepted"
    <3>1. PICK s \in push[p].answers : s.outcome = "accepted" /\ s.ordinal = o
      BY <1>1, <2>3
    <3> QED
      BY <1>1, <1>3, <1>6, <3>1
  <2> QED
    BY <2>1, <2>2, <2>3 DEF ClientKnows
<1> QED
  BY <1>7, <1>8, <1>9, <1>10, <1>11 DEF ClientInv

\* Pushes that end without news for the client.
LEMMA EndingKeeps ==
    ASSUME SyncInv, NEW p \in Pushes,
           Reply(p) \/ RollBack(p) \/ Restart(p) \/ Stop(p),
           UNCHANGED <<acked, frozen, unsettled, received>>
    PROVE  ClientInv'
<1>1. Ends
  BY EndingSteps DEF SyncInv
<1>2. UNCHANGED <<row, history>>
  BY <1>1 DEF Ends
<1>3. PushesOfClient' /\ AnswersOwn'
  <2>1. tx.push \in Pushes \cup {NoPush}
    BY DEF SyncInv, BatchInv, TypeOK
  <2> QED
    BY <1>1, <2>1, EndsKeep DEF SyncInv
<1>4. ClientTypes' /\ ClientKnows'
  BY <1>2, RecordKept DEF SyncInv
<1>5. RowFollows' /\ ProgressShort'
  BY <1>2, RowKept DEF SyncInv
<1> QED
  BY <1>3, <1>4, <1>5 DEF ClientInv

\* The server serves.
LEMMA ServerStepKeeps ==
    ASSUME SyncInv, NEW p \in Pushes, ServerStep(p)
    PROVE  ClientInv'
<1>1. Serve(p) /\ UNCHANGED clientVars
  BY DEF ServerStep
<1>2. UNCHANGED <<acked, frozen, unsettled, received>>
  BY <1>1 DEF clientVars
<1>3. CASE Claim(p) \/ Replay(p) \/ \E outcome \in Outcomes : Execute(p, outcome)
  <2>1. PushesOfClient' /\ AnswersOwn' /\ UNCHANGED <<row, history>>
    BY <1>1, <1>3, TxStepKeeps
  <2>2. ClientTypes' /\ ClientKnows'
    BY <1>2, <2>1, RecordKept DEF SyncInv
  <2>3. RowFollows' /\ ProgressShort'
    BY <1>2, <2>1, RowKept DEF SyncInv
  <2> QED
    BY <2>1, <2>2, <2>3 DEF ClientInv
<1>4. CASE CommitGroup(p)
  <2>1. /\ PushesOfClient' /\ AnswersOwn' /\ RowFollows' /\ ProgressShort'
        /\ history \subseteq history'
    BY <1>1, <1>4, CommitKeeps
  <2>2. ClientTypes' /\ ClientKnows'
    BY <1>2, <2>1, RecordKept DEF SyncInv
  <2> QED
    BY <2>1, <2>2 DEF ClientInv
<1>5. CASE HandlerDefect(p) \/ Refuse(p)
  <2>1. RollBack(p)
    BY <1>5 DEF HandlerDefect, Refuse
  <2> QED
    BY <1>2, <2>1, EndingKeeps
<1> QED
  BY <1>1, <1>3, <1>4, <1>5 DEF Serve

\* Every step keeps the invariant of the composition.
LEMMA NextSyncInv ==
    ASSUME SyncInv, [SyncNext]_vars
    PROVE  SyncInv'
<1>1. [Next]_batchVars
  BY SyncStepServes DEF SyncInv
<1>2. BatchInv'
  BY <1>1, NextBatchInv DEF SyncInv
<1>3. AnswerInv'
  BY <1>1, <1>2, NextAnswerInv DEF SyncInv
<1>4. ClientInv'
  <2>1. CASE UNCHANGED vars
    <3>1. /\ UNCHANGED <<row, history, push, tx>>
          /\ UNCHANGED <<acked, frozen, unsettled, received>>
      BY <2>1 DEF vars, batchVars, clientVars
    <3>2. ClientTypes' /\ ClientKnows' /\ RowFollows' /\ ProgressShort'
      BY <3>1, RecordKept, RowKept DEF SyncInv
    <3>3. PushesOfClient' /\ AnswersOwn'
      BY <3>1 DEF SyncInv, PushesOfClient, AnswersOwn
    <3> QED
      BY <3>2, <3>3 DEF ClientInv
  <2>2. CASE \E d \in Digests : Freeze(d)
    BY <2>2, FreezeKeeps
  <2>3. CASE \E o \in Ordinals : Settle(o) \/ SettleOwned(o)
    BY <2>3, SettleKeeps
  <2>4. ASSUME NEW p \in Pushes, Send(p)
        PROVE  ClientInv'
    <3>1. PushesOfClient' /\ AnswersOwn' /\ UNCHANGED <<row, history>>
      BY <2>4, SendKeeps
    <3>2. UNCHANGED <<acked, frozen, unsettled, received>>
      BY <2>4 DEF Send, clientVars
    <3>3. ClientTypes' /\ ClientKnows' /\ RowFollows' /\ ProgressShort'
      BY <3>1, <3>2, RecordKept, RowKept DEF SyncInv
    <3> QED
      BY <3>1, <3>3 DEF ClientInv
  <2>5. ASSUME NEW p \in Pushes, Acknowledge(p)
        PROVE  ClientInv'
    BY <2>5, AcknowledgeKeeps
  <2>6. ASSUME NEW p \in Pushes, AcknowledgedAgain(p) \/ LoseReply(p)
        PROVE  ClientInv'
    <3>1. Reply(p) /\ UNCHANGED <<acked, frozen, unsettled, received>>
      BY <2>6 DEF AcknowledgedAgain, LoseReply, clientVars
    <3> QED
      BY <3>1, EndingKeeps
  <2>7. ASSUME NEW p \in Pushes, ServerStep(p)
        PROVE  ClientInv'
    BY <2>7, ServerStepKeeps
  <2>8. ASSUME NEW p \in Pushes, DisturbStep(p)
        PROVE  ClientInv'
    <3>1. (Restart(p) \/ Stop(p)) /\ UNCHANGED <<acked, frozen, unsettled, received>>
      BY <2>8 DEF DisturbStep, Disturb
    <3> QED
      BY <3>1, EndingKeeps
  <2> QED
    BY <2>1, <2>2, <2>3, <2>4, <2>5, <2>6, <2>7, <2>8 DEF SyncNext
<1> QED
  BY <1>2, <1>3, <1>4 DEF SyncInv, ClientInv

----------------------------------------------------------------------------
(***************************************************************************)
(* The theorems.                                                           *)
(***************************************************************************)

\* The invariant of the composition holds in every reachable state.
THEOREM SyncInvariant == SyncSpec => []SyncInv
  BY InitSyncInv, NextSyncInv, PTL DEF SyncSpec

\* While an accepted member awaits settlement its result is still saved,
\* whatever pushes are late, duplicated or restarted: the row cannot begin the
\* Batch that would prune it before the client freezes it.
THEOREM UnsettledResultsSaved == SyncSpec => []OwnedResultsRetained
<1>1. SyncInv => OwnedResultsRetained
  <2> SUFFICES ASSUME SyncInv, NEW o \in unsettled
               PROVE  \E s \in results : /\ s.batch = acked /\ s.ordinal = o
                                         /\ s.outcome = "accepted"
    BY DEF OwnedResultsRetained
  <2>1. frozen = NoDigest
    BY DEF SyncInv, ClientTypes
  <2>2. row.current = NoDigest /\ row.last = acked
    BY <2>1 DEF SyncInv, RowFollows
  <2>3. results = {s \in history : s.batch = acked}
    BY <2>2 DEF SyncInv, AnswerInv, ResultsRetained
  <2> QED
    BY <2>3 DEF SyncInv, ClientKnows
<1> QED
  BY <1>1, SyncInvariant, PTL

\* What the client records is what the server committed, one business
\* execution stands behind every recorded acceptance, and no acknowledged
\* Batch is without a recorded outcome.
THEOREM RecordsAreCommitted == SyncSpec => []RecordedIsCommitted
<1>1. SyncInv => RecordedIsCommitted
  <2> SUFFICES ASSUME SyncInv PROVE RecordedIsCommitted
    OBVIOUS
  <2>1. ASSUME NEW s \in received, s.outcome = "accepted"
        PROVE  executions[<<s.batch, s.digest, s.ordinal>>] = 1
    <3>1. s \in history /\ s \in Result
      BY DEF SyncInv, ClientKnows, BatchInv, TypeOK
    <3>2. <<s.batch, s.digest, s.ordinal>> \in Members
      BY <3>1 DEF Result, Members
    <3> QED
      BY <2>1, <3>1, <3>2 DEF SyncInv, BatchInv, ExactlyOnce
  <2> QED
    BY <2>1 DEF SyncInv, ClientKnows, RecordedIsCommitted
<1> QED
  BY <1>1, SyncInvariant, PTL

\* The server under the client's requests is the server of MutationBatch, so
\* everything proved of it holds in the composition.
THEOREM SyncImplementsBatch == SyncSpec => Spec
<1>1. SyncInit => Init
  BY DEF SyncInit
<1>2. SyncInv /\ [SyncNext]_vars => [Next]_batchVars
  BY SyncStepServes DEF SyncInv
<1> QED
  BY <1>1, <1>2, SyncInvariant, PTL DEF SyncSpec, Spec

\* Pushes retried, lost and repeated by the client still decide every member
\* once, in order, with its business work: the composition keeps the promise
\* of MutationOutcomes.
THEOREM SyncImplementsOutcomes == SyncSpec => ImplementsOutcomes
  BY SyncImplementsBatch, ExecutionImplements, PTL

============================================================================
