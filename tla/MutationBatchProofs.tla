------------------------ MODULE MutationBatchProofs ------------------------
(***************************************************************************)
(* Proofs about MutationBatch, for every number of concurrent pushes,      *)
(* principals, contents, Batches and members, and every group size.        *)
(***************************************************************************)
EXTENDS MutationBatch, TLAPS

----------------------------------------------------------------------------
(***************************************************************************)
(* The inductive invariant.                                                *)
(***************************************************************************)

\* A push that is not idle carries an admitted request and has finished whole
\* groups of it.
PushShape ==
    \A p \in Pushes : push[p].state # "idle" =>
        /\ push[p].owner \in Owners /\ push[p].batch \in BatchIds
        /\ push[p].digest \in Digests
        /\ push[p].next <= Count(p)

\* The row lock: the open transaction belongs to a running push, inside its
\* group.
LockHeld ==
    IF tx.push = NoPush THEN tx = NoTx
    ELSE push[tx.push].state = "running" /\ tx.at <= GroupEnd(tx.push)

\* An unclaimed row is empty, and progress is kept only under a digest.
RowShape ==
    /\ row.owner = NoOwner => row = EmptyRow
    /\ row.current = NoDigest => row.progress = 0

\* The open transaction's row is the committed one (nobody else writes it
\* while it is locked) with the Batch begun once a member has run, and its
\* copy in memory is ahead of it by the pending members exactly.
TxRow ==
    tx.push # NoPush =>
        /\ tx.row.owner # NoOwner
        /\ tx.row.last = row.last /\ tx.row.progress = row.progress
        /\ tx.first = -1 => /\ tx.row.current = row.current /\ tx.mem = tx.row
                            /\ tx.pending = {}
        /\ tx.first # -1 =>
             /\ row.current \in {NoDigest, push[tx.push].digest}
             /\ tx.row.current = push[tx.push].digest
             /\ row.last = push[tx.push].batch - 1
             /\ row.progress = tx.first /\ tx.first < tx.at
             /\ tx.mem = Advanced(tx.row, push[tx.push].batch, tx.at)

\* Each member that ran in the open transaction has one pending result, and
\* left business writes exactly if it was accepted.
TxPending ==
    tx.push # NoPush =>
        /\ \A s \in tx.pending :
             /\ s.batch = push[tx.push].batch /\ s.digest = push[tx.push].digest
             /\ tx.first <= s.ordinal /\ s.ordinal < tx.at
        /\ \A s, t \in tx.pending : s.ordinal = t.ordinal => s = t
        /\ tx.first # -1 =>
             \A o \in tx.first..(tx.at - 1) : \E s \in tx.pending : s.ordinal = o
        /\ \A m \in Members :
             m \in tx.writes <=> \E s \in tx.pending :
                                    /\ <<s.batch, s.digest, s.ordinal>> = m
                                    /\ s.outcome = "accepted"

\* What is decided is what the row counts: whole Batches up to `last`, then
\* the first `progress` members of the Batch under execution.
RowCounts ==
    /\ \A s \in history :
         \/ s.batch <= row.last
         \/ s.batch = row.last + 1 /\ s.digest = row.current /\ s.ordinal < row.progress
    /\ \A o \in 0..(row.progress - 1) :
         \E s \in history : s.batch = row.last + 1 /\ s.ordinal = o
    /\ row.last > 0 =>
         \E s \in history : s.batch = row.last /\ s.ordinal = CountOf[s.digest] - 1

\* The type of the open transaction.
Transaction == [push : Pushes \cup {NoPush}, mem : Row, row : Row,
                results : SUBSET Result, writes : SUBSET Members,
                pending : SUBSET Result, answers : SUBSET Result,
                first : Nat \cup {-1}, at : Nat]

BatchInv ==
    /\ TypeOK /\ PushShape /\ LockHeld /\ RowShape
    /\ TxRow /\ TxPending /\ RowCounts
    /\ ExactlyOnce /\ DecidedInOrder

----------------------------------------------------------------------------
(***************************************************************************)
(* Facts about the constants and the operators.                            *)
(***************************************************************************)

\* Member counts are positive and ordinals are naturals below them.
LEMMA OrdinalFacts ==
    /\ 0 \in Ordinals /\ Ordinals \subseteq Nat
    /\ \A d \in Digests : CountOf[d] \in Nat \ {0} /\ 0..(CountOf[d] - 1) \subseteq Ordinals
  BY BatchAssumption DEF Ordinals

\* A row record.
LEMMA EmptyRowTyped == EmptyRow \in Row
  BY BatchAssumption, OrdinalFacts DEF EmptyRow, Row

\* A closed transaction is typed.
LEMMA NoTxTyped == NoTx \in Transaction
  BY EmptyRowTyped DEF NoTx, Transaction

\* Saving a prefix of the Batch under execution leaves a row.
LEMMA AdvancedTyped ==
    ASSUME NEW r \in Row, r.current \in Digests, NEW batch \in Nat,
           NEW n \in Nat, n <= CountOf[r.current]
    PROVE  Advanced(r, batch, n) \in Row
<1>1. n # CountOf[r.current] => n \in Ordinals
  BY OrdinalFacts
<1> QED
  BY <1>1, OrdinalFacts DEF Advanced, Row

\* Saving a longer prefix forgets the shorter one.
LEMMA ProgressOverwritten ==
    ASSUME NEW r \in Row, NEW batch, NEW m, NEW n
    PROVE  Advanced([r EXCEPT !.progress = m], batch, n) = Advanced(r, batch, n)
<1> DEFINE q == [r EXCEPT !.progress = m]
<1>1. q.current = r.current
  BY DEF Row
<1>2. [q EXCEPT !.progress = n] = [r EXCEPT !.progress = n]
  BY DEF Row
<1>3. [q EXCEPT !.last = batch, !.lastDigest = r.current, !.current = NoDigest, !.progress = 0]
      = [r EXCEPT !.last = batch, !.lastDigest = r.current, !.current = NoDigest, !.progress = 0]
  BY DEF Row
<1> QED
  BY <1>1, <1>2, <1>3 DEF Advanced

\* A group ends within its Batch.
LEMMA GroupEndFacts ==
    ASSUME TypeOK, PushShape, NEW p \in Pushes, push[p].state # "idle"
    PROVE  /\ Count(p) \in Nat \ {0}
           /\ GroupEnd(p) \in Nat /\ push[p].next <= GroupEnd(p) /\ GroupEnd(p) <= Count(p)
  BY OrdinalFacts, BatchAssumption DEF TypeOK, PushShape, Count, GroupEnd

\* The initial state satisfies the invariant.
LEMMA InitBatchInv == Init => BatchInv
<1> SUFFICES ASSUME Init PROVE BatchInv
  OBVIOUS
<1> USE DEF Init
<1>1. TypeOK
  BY EmptyRowTyped, NoTxTyped DEF TypeOK, Transaction, Idle
<1>2. PushShape /\ LockHeld /\ RowShape
  BY DEF PushShape, LockHeld, RowShape, Idle, NoTx, EmptyRow
<1>3. TxRow /\ TxPending
  BY DEF TxRow, TxPending, NoTx
<1>4. RowCounts /\ ExactlyOnce /\ DecidedInOrder
  BY DEF RowCounts, ExactlyOnce, DecidedInOrder, EmptyRow
<1> QED
  BY <1>1, <1>2, <1>3, <1>4 DEF BatchInv

----------------------------------------------------------------------------
(***************************************************************************)
(* The committed state and the history stand still outside CommitGroup.    *)
(***************************************************************************)

\* RowShape, RowCounts, ExactlyOnce and DecidedInOrder speak of the committed
\* state only.
LEMMA CommittedUnchanged ==
    ASSUME RowShape, RowCounts, ExactlyOnce, DecidedInOrder,
           UNCHANGED <<row, executions, history>>
    PROVE  RowShape' /\ RowCounts' /\ ExactlyOnce' /\ DecidedInOrder'
  BY DEF RowShape, RowCounts, ExactlyOnce, DecidedInOrder

\* A closed transaction satisfies everything said of an open one.
LEMMA TxClosed ==
    ASSUME tx' = NoTx
    PROVE  LockHeld' /\ TxRow' /\ TxPending'
  BY DEF LockHeld, TxRow, TxPending, NoTx

\* A step of another push, or of one without a transaction, leaves what is
\* said of the open transaction.
LEMMA TxUntouched ==
    ASSUME LockHeld, TxRow, TxPending, UNCHANGED <<row, tx>>, TypeOK, TypeOK',
           tx.push # NoPush => push'[tx.push] = push[tx.push]
    PROVE  LockHeld' /\ TxRow' /\ TxPending'
<1>1. LockHeld'
  BY DEF LockHeld, GroupEnd, Count
<1>2. TxRow'
  BY DEF TxRow, Advanced
<1>3. TxPending'
  BY DEF TxPending
<1> QED
  BY <1>1, <1>2, <1>3

\* A request is received by an idle push, which holds no lock.
LEMMA ReceiveKeepsInv ==
    ASSUME BatchInv, NEW p \in Pushes, NEW req \in Request, Receive(p, req)
    PROVE  BatchInv'
<1> USE DEF BatchInv, Receive
<1>1. TypeOK'
  BY DEF TypeOK, Request, BatchIds
<1>2. PushShape'
  BY OrdinalFacts DEF TypeOK, PushShape, Request, Count
<1>3. tx.push # NoPush => push'[tx.push] = push[tx.push]
  BY DEF TypeOK, LockHeld
<1> QED
  BY <1>1, <1>2, <1>3, TxUntouched, CommittedUnchanged

\* A response leaves an answered push, which holds no lock.
LEMMA ReplyKeepsInv ==
    ASSUME BatchInv, NEW p \in Pushes, Reply(p)
    PROVE  BatchInv'
<1> USE DEF BatchInv, Reply
<1>1. TypeOK'
  BY DEF TypeOK, Idle
<1>2. PushShape'
  BY DEF TypeOK, PushShape, Idle, Count
<1>3. tx.push # NoPush => push'[tx.push] = push[tx.push]
  BY DEF TypeOK, LockHeld
<1> QED
  BY <1>1, <1>2, <1>3, TxUntouched, CommittedUnchanged

\* A roll back closes the transaction and forgets its push.
LEMMA RollBackKeepsInv ==
    ASSUME BatchInv, NEW p \in Pushes, RollBack(p)
    PROVE  BatchInv'
<1> USE DEF BatchInv, RollBack
<1>1. TypeOK'
  BY NoTxTyped DEF TypeOK, Transaction, Idle
<1>2. PushShape'
  BY DEF TypeOK, PushShape, Idle, Count
<1> QED
  BY <1>1, <1>2, TxClosed, CommittedUnchanged

\* A restart closes the transaction and keeps its push.
LEMMA RestartKeepsInv ==
    ASSUME BatchInv, NEW p \in Pushes, Restart(p)
    PROVE  BatchInv'
<1> USE DEF BatchInv, Restart
<1>1. TypeOK'
  BY NoTxTyped DEF TypeOK, Transaction
<1>2. PushShape'
  BY DEF PushShape, Count
<1> QED
  BY <1>1, <1>2, TxClosed, CommittedUnchanged

\* A stop forgets its push and closes its transaction, if it has one.
LEMMA StopKeepsInv ==
    ASSUME BatchInv, NEW p \in Pushes, Stop(p)
    PROVE  BatchInv'
<1> USE DEF BatchInv, Stop
<1>1. TypeOK'
  BY NoTxTyped DEF TypeOK, Transaction, Idle
<1>2. PushShape'
  BY DEF TypeOK, PushShape, Idle, Count
<1>3. LockHeld' /\ TxRow' /\ TxPending'
  <2>1. CASE tx.push = p
    BY <2>1, TxClosed
  <2>2. CASE tx.push # p
    <3>1. tx' = tx /\ (tx.push # NoPush => push'[tx.push] = push[tx.push])
      BY <2>2 DEF TypeOK
    <3> QED
      BY <3>1, <1>1, TxUntouched
  <2> QED
    BY <2>1, <2>2
<1> QED
  BY <1>1, <1>2, <1>3, CommittedUnchanged

\* The claimed row is the committed one; nothing has run under it.
LEMMA ClaimKeepsInv ==
    ASSUME BatchInv, NEW p \in Pushes, Claim(p)
    PROVE  BatchInv'
<1> DEFINE claimed == IF row.owner = NoOwner
                      THEN [EmptyRow EXCEPT !.owner = push[p].owner] ELSE row
<1>1. /\ push[p].state = "running" /\ UNCHANGED <<row, results, executions, history, push>>
      /\ tx' = [push |-> p, mem |-> claimed, row |-> claimed, results |-> results,
                writes |-> {}, pending |-> {}, answers |-> {}, first |-> -1,
                at |-> push[p].next]
  BY DEF Claim
<1>2. /\ claimed \in Row /\ claimed.owner # NoOwner
      /\ claimed.last = row.last /\ claimed.progress = row.progress
      /\ claimed.current = row.current
  BY <1>1, EmptyRowTyped, BatchAssumption
     DEF BatchInv, TypeOK, PushShape, RowShape, EmptyRow, Row
<1> HIDE DEF claimed
<1>3. TypeOK'
  BY <1>1, <1>2 DEF BatchInv, TypeOK
<1>4. PushShape'
  BY <1>1 DEF BatchInv, PushShape, Count
<1>5. LockHeld'
  BY <1>1, GroupEndFacts, BatchAssumption DEF BatchInv, LockHeld, GroupEnd, Count
<1>6. TxRow' /\ TxPending'
  BY <1>1, <1>2 DEF TxRow, TxPending
<1> QED
  BY <1>1, <1>3, <1>4, <1>5, <1>6, CommittedUnchanged DEF BatchInv

\* A member is replayed only before the first fresh one of its group.
LEMMA ReplayIsFirst ==
    ASSUME BatchInv, NEW p \in Pushes, Replay(p)
    PROVE  tx.first = -1
<1> SUFFICES ASSUME tx.first # -1 PROVE FALSE
  OBVIOUS
<1>1. tx.push = p /\ tx.at < GroupEnd(p) /\ Saved(p)
  BY DEF Replay, AtMember
<1>2. p # NoPush /\ push[p].state = "running"
  BY <1>1, BatchAssumption DEF BatchInv, LockHeld
<1>3. /\ tx.mem = Advanced(tx.row, push[p].batch, tx.at)
      /\ tx.row.current = push[p].digest /\ tx.row.last = push[p].batch - 1
  BY <1>1, <1>2 DEF BatchInv, TxRow
<1>4. tx.at # CountOf[push[p].digest] /\ push[p].batch \in Nat
  BY <1>1, <1>2, GroupEndFacts DEF BatchInv, TypeOK, Count
<1>5. tx.mem = [tx.row EXCEPT !.progress = tx.at]
  BY <1>3, <1>4 DEF Advanced
<1>6. tx.mem.last = push[p].batch - 1 /\ tx.mem.progress = tx.at
  BY <1>3, <1>5 DEF BatchInv, TypeOK, Row
<1> QED
  BY <1>1, <1>4, <1>6 DEF Saved, Completed, BatchInv, TypeOK

\* A replayed member only adds its saved answer.
LEMMA ReplayKeepsInv ==
    ASSUME BatchInv, NEW p \in Pushes, Replay(p)
    PROVE  BatchInv'
<1>1. PICK saved \in SavedRow(p) :
         tx' = [tx EXCEPT !.answers = @ \cup {saved}, !.at = @ + 1]
  BY DEF Replay
<1>2. /\ tx.push = p /\ tx.at < GroupEnd(p) /\ Saved(p)
      /\ UNCHANGED <<row, results, executions, history, push>>
  BY DEF Replay, AtMember
<1>3. /\ tx'.push = p /\ tx'.row = tx.row /\ tx'.mem = tx.mem /\ tx'.first = tx.first
      /\ tx'.pending = tx.pending /\ tx'.writes = tx.writes /\ tx'.at = tx.at + 1
  BY <1>1, <1>2 DEF BatchInv, TypeOK
<1>4. TypeOK'
  <2>1. tx \in Transaction /\ saved \in Result
    BY DEF BatchInv, TypeOK, SavedRow, Transaction
  <2>2. tx.answers \cup {saved} \in SUBSET Result /\ tx.at + 1 \in Nat
    BY <2>1 DEF Transaction
  <2>3. tx' \in Transaction
    BY <1>1, <2>1, <2>2 DEF Transaction
  <2> QED
    BY <1>2, <2>3 DEF BatchInv, TypeOK, Transaction
<1>5. PushShape'
  BY <1>2 DEF BatchInv, PushShape, Count
<1>6. p # NoPush /\ push[p].state = "running"
  BY <1>2, BatchAssumption DEF BatchInv, LockHeld
<1>7. LockHeld'
  BY <1>2, <1>3, <1>6, GroupEndFacts DEF BatchInv, TypeOK, LockHeld, GroupEnd, Count
<1>8. tx.first = -1
  BY ReplayIsFirst
<1>9. TxRow' /\ TxPending'
  BY <1>2, <1>3, <1>6, <1>8 DEF BatchInv, TxRow, TxPending
<1> QED
  BY <1>2, <1>4, <1>5, <1>7, <1>9, CommittedUnchanged DEF BatchInv

\* A fresh member of the Batch under execution: the memory copy and the row
\* agree on the Batch, and the member is the one after the pending ones.
LEMMA FreshFacts ==
    ASSUME BatchInv, NEW p \in Pushes, Fresh(p)
    PROVE  /\ tx.push = p /\ p # NoPush /\ push[p].state = "running"
           /\ push[p].batch \in BatchIds /\ push[p].digest \in Digests
           /\ tx.at \in Nat /\ tx.at < GroupEnd(p) /\ tx.at < CountOf[push[p].digest]
           /\ tx.row.last = push[p].batch - 1 /\ row.last = push[p].batch - 1
           /\ tx.mem.current \in {NoDigest, push[p].digest}
           /\ tx.first = -1 => tx.mem = tx.row /\ tx.row.progress = tx.at
           /\ tx.first # -1 => /\ tx.row.current = push[p].digest
                               /\ tx.mem = [tx.row EXCEPT !.progress = tx.at]
                               /\ tx.mem.current = push[p].digest
<1>1. /\ tx.push = p /\ tx.at < GroupEnd(p) /\ ~Completed(p) /\ Current(p)
      /\ SameIntent(p) /\ tx.at = tx.mem.progress
  BY DEF Fresh, AtMember, Admissible, Saved
<1>2. p # NoPush /\ push[p].state = "running"
  BY <1>1, BatchAssumption DEF BatchInv, LockHeld
<1>3. /\ push[p].batch \in BatchIds /\ push[p].digest \in Digests /\ tx.at \in Nat
      /\ tx.at < CountOf[push[p].digest]
  BY <1>1, <1>2, GroupEndFacts DEF BatchInv, TypeOK, PushShape, Count
<1>4. tx.mem.current \in {NoDigest, push[p].digest} /\ push[p].batch = tx.mem.last + 1
  BY <1>1 DEF SameIntent, Current
<1>5. tx.row \in Row /\ tx.mem \in Row
  BY DEF BatchInv, TypeOK
<1>6. tx.first # -1 => /\ tx.row.current = push[p].digest
                       /\ tx.mem = [tx.row EXCEPT !.progress = tx.at]
  BY <1>1, <1>2, <1>3 DEF BatchInv, TxRow, Advanced
<1>7. tx.mem.last = tx.row.last /\ tx.row.last = row.last
  BY <1>1, <1>2, <1>5, <1>6 DEF BatchInv, TxRow, Row
<1>8. tx.row.last = push[p].batch - 1
  BY <1>3, <1>4, <1>5, <1>7 DEF Row, BatchIds
<1>9. tx.first = -1 => tx.mem = tx.row /\ tx.row.progress = tx.at
  BY <1>1, <1>2 DEF BatchInv, TxRow
<1>10. tx.first # -1 => tx.mem.current = push[p].digest
  BY <1>5, <1>6 DEF Row
<1> QED
  BY <1>1, <1>2, <1>3, <1>4, <1>6, <1>7, <1>8, <1>9, <1>10

\* A fresh member joins the pending suffix, with its writes if accepted.
LEMMA ExecuteKeepsInv ==
    ASSUME BatchInv, NEW p \in Pushes, NEW outcome \in Outcomes, Execute(p, outcome)
    PROVE  BatchInv'
<1> DEFINE digest == push[p].digest
           batch == push[p].batch
           begins == tx.mem.current = NoDigest
           begun == IF begins THEN Begun(tx.mem, digest) ELSE tx.mem
           result == [batch |-> batch, digest |-> digest, ordinal |-> tx.at,
                      outcome |-> outcome]
           member == <<batch, digest, tx.at>>
           newRow == IF begins THEN Begun(tx.row, digest) ELSE tx.row
<1>1. Fresh(p) /\ UNCHANGED <<row, results, executions, history, push>>
  BY DEF Execute
<1>2. /\ tx.push = p /\ p # NoPush /\ push[p].state = "running"
      /\ batch \in BatchIds /\ digest \in Digests
      /\ tx.at \in Nat /\ tx.at < GroupEnd(p) /\ tx.at < CountOf[digest]
      /\ tx.row.last = batch - 1 /\ row.last = batch - 1
      /\ tx.mem.current \in {NoDigest, digest}
      /\ tx.first = -1 => tx.mem = tx.row /\ tx.row.progress = tx.at
      /\ tx.first # -1 => /\ tx.row.current = digest
                          /\ tx.mem = [tx.row EXCEPT !.progress = tx.at]
                          /\ tx.mem.current = digest
  BY <1>1, FreshFacts
<1>3. /\ tx' = [tx EXCEPT
              !.row = newRow,
              !.results = IF begins THEN Prune(tx.results, batch) ELSE tx.results,
              !.mem = Advanced(begun, batch, tx.at + 1),
              !.writes = Business(p, tx.writes, outcome),
              !.pending = tx.pending \cup {result},
              !.answers = tx.answers \cup {result},
              !.first = IF tx.first = -1 THEN tx.at ELSE tx.first,
              !.at = tx.at + 1]
  BY DEF Execute
<1>4. tx \in Transaction
  BY DEF BatchInv, TypeOK, Transaction
<1>5. /\ tx'.push = p /\ tx'.row = newRow /\ tx'.mem = Advanced(begun, batch, tx.at + 1)
      /\ tx'.writes = Business(p, tx.writes, outcome)
      /\ tx'.pending = tx.pending \cup {result}
      /\ tx'.first = (IF tx.first = -1 THEN tx.at ELSE tx.first)
      /\ tx'.at = tx.at + 1
  BY <1>2, <1>3, <1>4 DEF Transaction
<1>6. digest # NoDigest /\ tx.at \in Ordinals
  BY <1>2, BatchAssumption, OrdinalFacts
<1>7. result \in Result /\ member \in Members
  BY <1>2, <1>6 DEF Result, Members
<1>8. newRow \in Row /\ begun \in Row /\ begun.current = digest
  BY <1>2, <1>4, <1>6 DEF Begun, Row, Transaction
<1>9. newRow.owner = tx.row.owner /\ newRow.last = tx.row.last
      /\ newRow.progress = tx.row.progress /\ newRow.current = digest
  BY <1>2, <1>4, <1>6 DEF Begun, Row, BatchInv, TxRow, Transaction
<1>10. TypeOK'
  <2>1. Advanced(begun, batch, tx.at + 1) \in Row
    BY <1>2, <1>8, AdvancedTyped, OrdinalFacts DEF BatchIds
  <2>2. Business(p, tx.writes, outcome) \in SUBSET Members
    BY <1>4, <1>7 DEF Business, Transaction
  <2>3. (IF begins THEN Prune(tx.results, batch) ELSE tx.results) \in SUBSET Result
    BY <1>4 DEF Prune, Transaction
  <2>4. /\ tx.pending \cup {result} \in SUBSET Result
        /\ tx.answers \cup {result} \in SUBSET Result
        /\ (IF tx.first = -1 THEN tx.at ELSE tx.first) \in Nat \cup {-1}
        /\ tx.at + 1 \in Nat
    BY <1>4, <1>7 DEF Transaction
  <2>5. tx' \in Transaction
    <3> HIDE DEF begins, begun, result, newRow, digest, batch
    <3> QED
      BY <1>3, <1>4, <1>8, <2>1, <2>2, <2>3, <2>4 DEF Transaction
  <2> QED
    BY <1>1, <2>5 DEF BatchInv, TypeOK, Transaction
<1>11. PushShape'
  BY <1>1 DEF BatchInv, PushShape, Count
<1>12. LockHeld'
  BY <1>1, <1>2, <1>5, GroupEndFacts DEF BatchInv, LockHeld, GroupEnd, Count
<1>13. TxRow'
  <2>1. Advanced(begun, batch, tx.at + 1) = Advanced(newRow, batch, tx.at + 1)
    <3>1. CASE tx.first = -1
      BY <1>2, <3>1
    <3>2. CASE tx.first # -1
      <4>1. begun = [tx.row EXCEPT !.progress = tx.at] /\ newRow = tx.row
        BY <1>2, <1>6, <3>2
      <4> QED
        BY <1>4, <4>1, ProgressOverwritten DEF Transaction
    <3> QED
      BY <3>1, <3>2
  <2>2. tx.first # -1 => /\ row.current \in {NoDigest, digest}
                         /\ row.progress = tx.first /\ tx.first < tx.at
    BY <1>2 DEF BatchInv, TxRow
  <2>3. tx.row.owner # NoOwner /\ tx.row.last = row.last /\ tx.row.progress = row.progress
    BY <1>2 DEF BatchInv, TxRow
  <2>4. tx.first = -1 => row.current = tx.mem.current
    BY <1>2 DEF BatchInv, TxRow
  <2>5. tx'.first # -1 /\ tx'.first < tx'.at /\ row.progress = tx'.first
    BY <1>2, <1>4, <1>5, <2>2, <2>3 DEF Transaction
  <2>6. row.current \in {NoDigest, digest}
    BY <1>2, <2>2, <2>4
  <2> HIDE DEF begins, begun, result, newRow
  <2> QED
    BY <1>1, <1>2, <1>5, <1>9, <2>1, <2>3, <2>5, <2>6 DEF TxRow
<1>14. TxPending'
  <2>1. /\ \A s \in tx.pending : /\ s.batch = batch /\ s.digest = digest
                                 /\ tx.first <= s.ordinal /\ s.ordinal < tx.at
                                 /\ s.ordinal \in Nat
        /\ tx.first = -1 => tx.pending = {}
    BY <1>2, <1>4, OrdinalFacts DEF BatchInv, TxPending, TxRow, Result, Transaction
  <2>2. /\ result.batch = batch /\ result.digest = digest /\ result.ordinal = tx.at
        /\ result.outcome = outcome
    OBVIOUS
  <2>3. \A s \in tx'.pending : /\ s.batch = batch /\ s.digest = digest
                               /\ tx'.first <= s.ordinal /\ s.ordinal < tx'.at
    <3> HIDE DEF result
    <3> QED
      BY <1>2, <1>4, <1>5, <2>1, <2>2, <1>13 DEF TxRow, Transaction
  <2>4. \A s, t \in tx'.pending : s.ordinal = t.ordinal => s = t
    <3> HIDE DEF result
    <3> QED
      BY <1>2, <1>5, <2>1, <2>2 DEF BatchInv, TxPending
  <2>5. \A o \in tx'.first..(tx'.at - 1) : \E s \in tx'.pending : s.ordinal = o
    <3> SUFFICES ASSUME NEW o \in tx'.first..(tx'.at - 1)
                 PROVE  \E s \in tx'.pending : s.ordinal = o
      OBVIOUS
    <3> HIDE DEF result
    <3>1. CASE o = tx.at
      BY <1>5, <2>2, <3>1
    <3>2. CASE o # tx.at
      BY <1>2, <1>4, <1>5, <3>2 DEF BatchInv, TxPending, Transaction
    <3> QED
      BY <3>1, <3>2
  <2>6. \A m \in Members : m \in tx'.writes <=>
            \E s \in tx'.pending : /\ <<s.batch, s.digest, s.ordinal>> = m
                                   /\ s.outcome = "accepted"
    <3>1. tx'.writes = IF outcome = "accepted" THEN tx.writes \cup {member} ELSE tx.writes
      BY <1>5 DEF Business
    <3>2. <<result.batch, result.digest, result.ordinal>> = member
      BY <2>2
    <3>3. \A m \in Members : m \in tx.writes <=>
            \E s \in tx.pending : /\ <<s.batch, s.digest, s.ordinal>> = m
                                  /\ s.outcome = "accepted"
      BY <1>2 DEF BatchInv, TxPending
    <3> HIDE DEF result, member
    <3> QED
      BY <1>5, <2>2, <3>1, <3>2, <3>3
  <2> HIDE DEF result, member
  <2> QED
    BY <1>1, <1>5, <2>3, <2>4, <2>5, <2>6 DEF TxPending
<1> QED
  BY <1>1, <1>10, <1>11, <1>12, <1>13, <1>14, CommittedUnchanged DEF BatchInv

\* What a commit finds and leaves: the row, the counts, and that the pending
\* results are members of the Batch after `last`, past every decided one.
LEMMA CommitFacts ==
    ASSUME BatchInv, NEW p \in Pushes, CommitGroup(p)
    PROVE  LET digest == push[p].digest
               batch == push[p].batch
           IN
      /\ p # NoPush /\ push[p].state = "running"
      /\ batch \in BatchIds /\ digest \in Digests
      /\ tx.at \in Nat /\ tx.at <= CountOf[digest] /\ CountOf[digest] \in Nat \ {0}
      /\ tx \in Transaction /\ row \in Row /\ history \subseteq Result
      /\ executions \in [Members -> Nat]
      /\ tx.first = -1 => tx.pending = {}
      /\ tx.first # -1 => /\ row.current \in {NoDigest, digest}
                          /\ row.last = batch - 1
                          /\ row.progress = tx.first /\ tx.first < tx.at
      /\ row' \in Row /\ row'.owner # NoOwner
      /\ tx.first = -1 => /\ row'.last = row.last /\ row'.progress = row.progress
                          /\ row'.current = row.current
      /\ tx.first # -1 /\ tx.at = CountOf[digest] =>
           row'.last = batch /\ row'.progress = 0 /\ row'.current = NoDigest
      /\ tx.first # -1 /\ tx.at # CountOf[digest] =>
           row'.last = row.last /\ row'.progress = tx.at /\ row'.current = digest
      /\ \A s \in history : s.batch \in Nat /\ s.ordinal \in Nat /\ s.digest \in Digests
      /\ \A s \in tx.pending : /\ s.batch = batch /\ s.digest = digest /\ s.ordinal \in Nat
                               /\ tx.first <= s.ordinal /\ s.ordinal < tx.at
                               /\ tx.first # -1
      /\ batch \in Nat \ {0} /\ row.last \in Nat /\ row.progress \in Nat
      /\ tx.first \in Nat \cup {-1}
      /\ \A s \in history, t \in tx.pending :
           s.batch = t.batch => s.digest = t.digest /\ s.ordinal < t.ordinal
<1> DEFINE digest == push[p].digest
           batch == push[p].batch
<1>1. /\ tx.push = p /\ tx.at = GroupEnd(p)
      /\ tx.first # -1 => SaveGuard(tx.row, batch, tx.first, digest)
      /\ row' = IF tx.first = -1 THEN tx.row ELSE Advanced(tx.row, batch, tx.at)
      /\ results' = tx.results \cup tx.pending
      /\ executions' = [m \in Members |->
                          IF m \in tx.writes THEN executions[m] + 1 ELSE executions[m]]
      /\ history' = history \cup tx.pending
      /\ tx' = NoTx
  BY DEF CommitGroup
<1>3. /\ p # NoPush /\ push[p].state = "running"
      /\ batch \in BatchIds /\ digest \in Digests
      /\ tx.at \in Nat /\ tx.at <= CountOf[digest] /\ CountOf[digest] \in Nat \ {0}
  BY <1>1, BatchAssumption, GroupEndFacts DEF BatchInv, LockHeld, PushShape, TypeOK, Count
<1>4. tx \in Transaction /\ row \in Row /\ history \subseteq Result
      /\ executions \in [Members -> Nat]
  BY DEF BatchInv, TypeOK, Transaction
<1>5. /\ tx.row.owner # NoOwner
      /\ tx.row.last = row.last /\ tx.row.progress = row.progress
      /\ tx.first = -1 => /\ tx.row.current = row.current /\ tx.pending = {}
      /\ tx.first # -1 => /\ row.current \in {NoDigest, digest}
                          /\ tx.row.current = digest /\ row.last = batch - 1
                          /\ row.progress = tx.first /\ tx.first < tx.at
  BY <1>1, <1>3 DEF BatchInv, TxRow
<1>6. /\ row' \in Row /\ row'.owner # NoOwner
      /\ tx.first = -1 => /\ row'.last = row.last /\ row'.progress = row.progress
                          /\ row'.current = row.current
      /\ tx.first # -1 /\ tx.at = CountOf[digest] =>
           row'.last = batch /\ row'.progress = 0 /\ row'.current = NoDigest
      /\ tx.first # -1 /\ tx.at # CountOf[digest] =>
           row'.last = row.last /\ row'.progress = tx.at /\ row'.current = digest
  <2>1. CASE tx.first = -1
    BY <1>1, <1>4, <1>5, <2>1 DEF Transaction
  <2>2. CASE tx.first # -1
    <3>1. row' \in Row
      BY <1>1, <1>3, <1>4, <1>5, <2>2, AdvancedTyped DEF Transaction, BatchIds
    <3>2. tx.row \in Row
      BY <1>4 DEF Transaction
    <3>3. CASE tx.at = CountOf[digest]
      <4>1. row' = [tx.row EXCEPT !.last = batch, !.lastDigest = digest,
                                  !.current = NoDigest, !.progress = 0]
        BY <1>1, <1>5, <2>2, <3>3 DEF Advanced
      <4> HIDE DEF batch, digest
      <4>2. /\ row'.owner = tx.row.owner /\ row'.last = batch /\ row'.progress = 0
            /\ row'.current = NoDigest
        BY <3>2, <4>1 DEF Row
      <4> QED
        BY <1>5, <2>2, <3>1, <3>3, <4>2
    <3>4. CASE tx.at # CountOf[digest]
      <4>1. row' = [tx.row EXCEPT !.progress = tx.at]
        BY <1>1, <1>5, <2>2, <3>4 DEF Advanced
      <4>2. /\ row'.owner = tx.row.owner /\ row'.last = tx.row.last
            /\ row'.progress = tx.at /\ row'.current = tx.row.current
        BY <3>2, <4>1 DEF Row
      <4> QED
        BY <1>5, <2>2, <3>1, <3>4, <4>2
    <3> QED
      BY <3>3, <3>4
  <2> QED
    BY <2>1, <2>2
<1>7. /\ \A s \in history : s.batch \in Nat /\ s.ordinal \in Nat /\ s.digest \in Digests
      /\ \A s \in tx.pending : /\ s.batch = batch /\ s.digest = digest /\ s.ordinal \in Nat
                               /\ tx.first <= s.ordinal /\ s.ordinal < tx.at
                               /\ tx.first # -1
      /\ batch \in Nat \ {0} /\ row.last \in Nat /\ row.progress \in Nat
      /\ tx.first \in Nat \cup {-1}
  <2>1. \A s \in Result : s.batch \in Nat /\ s.ordinal \in Nat /\ s.digest \in Digests
    <3>1. Ordinals \subseteq Nat /\ BatchIds \subseteq Nat
      BY OrdinalFacts, BatchAssumption DEF BatchIds
    <3> QED
      BY <3>1 DEF Result
  <2>2. tx.pending \subseteq Result /\ tx.first \in Nat \cup {-1}
    BY <1>4 DEF Transaction
  <2>3. batch \in Nat \ {0} /\ row.last \in Nat /\ row.progress \in Nat
    <3>1. batch \in Nat \ {0}
      BY <1>3, BatchAssumption DEF BatchIds
    <3>2. row.last \in Nat /\ row.progress \in Ordinals
      BY <1>4 DEF Row
    <3> QED
      BY <3>1, <3>2, OrdinalFacts
  <2>4. \A s \in tx.pending : /\ s.batch = batch /\ s.digest = digest
                              /\ tx.first <= s.ordinal /\ s.ordinal < tx.at
    BY <1>1, <1>3 DEF BatchInv, TxPending
  <2>5. tx.pending # {} => tx.first # -1
    BY <1>5
  <2> QED
    BY <1>4, <2>1, <2>2, <2>3, <2>4, <2>5
\* A decided member of the same Batch has the same digest and lies before it.
<1>8. \A s \in history, t \in tx.pending :
        s.batch = t.batch => s.digest = t.digest /\ s.ordinal < t.ordinal
  BY <1>5, <1>7, BatchAssumption DEF BatchInv, RowCounts
<1> HIDE DEF digest, batch
<1>9. push[p].digest = digest /\ push[p].batch = batch
  BY DEF digest, batch
<1> QED
  BY <1>3, <1>4, <1>5, <1>6, <1>7, <1>8, <1>9

\* The group commits.  Its pending results are new: they are members of the
\* Batch after `last` from `progress` on, where nothing is decided yet.
LEMMA CommitGroupKeepsInv ==
    ASSUME BatchInv, NEW p \in Pushes, CommitGroup(p)
    PROVE  BatchInv'
<1> DEFINE digest == push[p].digest
           batch == push[p].batch
<1>1. /\ tx.push = p /\ tx.at = GroupEnd(p)
      /\ tx.first # -1 => SaveGuard(tx.row, batch, tx.first, digest)
      /\ row' = IF tx.first = -1 THEN tx.row ELSE Advanced(tx.row, batch, tx.at)
      /\ results' = tx.results \cup tx.pending
      /\ executions' = [m \in Members |->
                          IF m \in tx.writes THEN executions[m] + 1 ELSE executions[m]]
      /\ history' = history \cup tx.pending
      /\ tx' = NoTx
  BY DEF CommitGroup
<1>2. push' = [push EXCEPT ![p] = [push[p] EXCEPT !.next = tx.at,
                 !.answers = push[p].answers \cup tx.answers,
                 !.state = IF tx.at = Count(p) THEN "answered" ELSE push[p].state]]
  BY DEF CommitGroup, BatchInv, TypeOK
<1>3. /\ p # NoPush /\ push[p].state = "running"
      /\ batch \in BatchIds /\ digest \in Digests
      /\ tx.at \in Nat /\ tx.at <= CountOf[digest] /\ CountOf[digest] \in Nat \ {0}
  BY CommitFacts
<1>4. tx \in Transaction /\ row \in Row /\ history \subseteq Result
      /\ executions \in [Members -> Nat]
  BY CommitFacts
<1>5. /\ tx.first = -1 => tx.pending = {}
      /\ tx.first # -1 => /\ row.current \in {NoDigest, digest} /\ row.last = batch - 1
                          /\ row.progress = tx.first /\ tx.first < tx.at
  BY CommitFacts
<1>6. /\ row' \in Row /\ row'.owner # NoOwner
      /\ tx.first = -1 => /\ row'.last = row.last /\ row'.progress = row.progress
                          /\ row'.current = row.current
      /\ tx.first # -1 /\ tx.at = CountOf[digest] =>
           row'.last = batch /\ row'.progress = 0 /\ row'.current = NoDigest
      /\ tx.first # -1 /\ tx.at # CountOf[digest] =>
           row'.last = row.last /\ row'.progress = tx.at /\ row'.current = digest
  BY CommitFacts
<1>7. /\ \A s \in history : s.batch \in Nat /\ s.ordinal \in Nat /\ s.digest \in Digests
      /\ \A s \in tx.pending : /\ s.batch = batch /\ s.digest = digest /\ s.ordinal \in Nat
                               /\ tx.first <= s.ordinal /\ s.ordinal < tx.at
                               /\ tx.first # -1
      /\ batch \in Nat \ {0} /\ row.last \in Nat /\ row.progress \in Nat
      /\ tx.first \in Nat \cup {-1}
  BY CommitFacts
<1>8. \A s \in history, t \in tx.pending :
        s.batch = t.batch => s.digest = t.digest /\ s.ordinal < t.ordinal
  BY CommitFacts
<1> HIDE DEF digest, batch
<1>9. TypeOK'
  <2>1. push' \in [Pushes -> [state : {"idle", "running", "answered"},
                              owner : Owners \cup {NoOwner}, batch : Nat,
                              digest : Digests \cup {NoDigest}, next : Nat,
                              answers : SUBSET Result]]
    <3>1. push[p].answers \cup tx.answers \in SUBSET Result
      BY <1>4 DEF BatchInv, TypeOK, Transaction
    <3> DEFINE Call == [state : {"idle", "running", "answered"},
                        owner : Owners \cup {NoOwner}, batch : Nat,
                        digest : Digests \cup {NoDigest}, next : Nat,
                        answers : SUBSET Result]
               state == IF tx.at = Count(p) THEN "answered" ELSE push[p].state
    <3>2. push \in [Pushes -> Call] /\ push[p] \in Call
      BY DEF BatchInv, TypeOK
    <3>3. state \in {"idle", "running", "answered"}
      BY <1>3
    <3>4. [push[p] EXCEPT !.next = tx.at, !.answers = push[p].answers \cup tx.answers,
                          !.state = state] \in Call
      <4> HIDE DEF state
      <4> QED
        BY <1>3, <3>1, <3>2, <3>3
    <3> HIDE DEF Call
    <3>5. push' \in [Pushes -> Call]
      BY <1>2, <3>2, <3>4
    <3> QED
      BY <3>5 DEF Call
  <2>2. executions' \in [Members -> Nat]
    BY <1>1, <1>4
  <2>3. results' \subseteq Result /\ history' \subseteq Result
    BY <1>1, <1>4 DEF Transaction
  <2> QED
    BY <1>1, <1>6, <2>1, <2>2, <2>3, NoTxTyped DEF TypeOK, Transaction
<1>10. PushShape'
  BY <1>2, <1>3 DEF BatchInv, TypeOK, PushShape, Count, digest
<1>11. RowShape'
  BY <1>6, BatchAssumption, <1>3 DEF BatchInv, RowShape
<1>12. ExactlyOnce'
  <2>1. \A s, t \in history' :
          s.batch = t.batch => /\ s.digest = t.digest
                               /\ s.ordinal = t.ordinal => s = t
    <3>1. \A s, t \in history :
          s.batch = t.batch => /\ s.digest = t.digest
                               /\ s.ordinal = t.ordinal => s = t
      BY DEF BatchInv, ExactlyOnce
    <3>2. \A s, t \in tx.pending : s.digest = t.digest /\ (s.ordinal = t.ordinal => s = t)
      BY <1>1, <1>3, <1>7 DEF BatchInv, TxPending
    <3> QED
      BY <1>1, <1>7, <1>8, <3>1, <3>2
  <2>2. ASSUME NEW m \in Members
        PROVE  executions'[m] = IF \E s \in history' :
                                      /\ <<s.batch, s.digest, s.ordinal>> = m
                                      /\ s.outcome = "accepted"
                                THEN 1 ELSE 0
    <3> DEFINE In(S) == \E s \in S : /\ <<s.batch, s.digest, s.ordinal>> = m
                                     /\ s.outcome = "accepted"
    <3>1. executions[m] = IF In(history) THEN 1 ELSE 0
      BY DEF BatchInv, ExactlyOnce
    <3>2. m \in tx.writes <=> In(tx.pending)
      BY <1>1, <1>3 DEF BatchInv, TxPending
    <3>3. ~(In(history) /\ In(tx.pending))
      BY <1>7, <1>8
    <3>4. In(history') <=> In(history) \/ In(tx.pending)
      BY <1>1
    <3>5. executions'[m] = IF m \in tx.writes THEN executions[m] + 1 ELSE executions[m]
      BY <1>1
    <3> HIDE DEF In
    <3>6. executions'[m] = IF In(history') THEN 1 ELSE 0
      BY <3>1, <3>2, <3>3, <3>4, <3>5
    <3> QED
      BY <3>6 DEF In
  <2> QED
    BY <2>1, <2>2 DEF ExactlyOnce
<1>13. RowCounts'
  <2>1. \A s \in history' :
          \/ s.batch <= row'.last
          \/ /\ s.batch = row'.last + 1 /\ s.digest = row'.current
             /\ s.ordinal < row'.progress
    <3>1. \A s \in history :
            \/ s.batch <= row.last
            \/ s.batch = row.last + 1 /\ s.digest = row.current /\ s.ordinal < row.progress
      BY DEF BatchInv, RowCounts
    <3> QED
      BY <1>1, <1>3, <1>5, <1>6, <1>7, <3>1, BatchAssumption
  <2>2. \A o \in 0..(row'.progress - 1) :
          \E s \in history' : s.batch = row'.last + 1 /\ s.ordinal = o
    <3> SUFFICES ASSUME NEW o \in 0..(row'.progress - 1)
                 PROVE  \E s \in history' : s.batch = row'.last + 1 /\ s.ordinal = o
      OBVIOUS
    <3>1. row'.last = row.last
      BY <1>3, <1>6
    <3>2. CASE o < row.progress
      BY <1>1, <1>7, <3>1, <3>2 DEF BatchInv, RowCounts
    <3>3. CASE o >= row.progress
      <4>1. tx.first # -1 /\ o \in tx.first..(tx.at - 1)
        BY <1>3, <1>5, <1>6, <1>7, <3>3
      <4>2. PICK s \in tx.pending : s.ordinal = o
        BY <1>1, <1>3, <4>1 DEF BatchInv, TxPending
      <4> QED
        BY <1>1, <1>5, <1>7, <3>1, <4>1, <4>2
    <3> QED
      BY <1>7, <3>2, <3>3
  <2>3. row'.last > 0 =>
          \E s \in history' : s.batch = row'.last /\ s.ordinal = CountOf[s.digest] - 1
    <3>1. CASE tx.first # -1 /\ tx.at = CountOf[digest]
      <4>1. tx.at - 1 \in tx.first..(tx.at - 1)
        BY <1>3, <1>5, <1>7, <3>1
      <4>2. PICK s \in tx.pending : s.ordinal = tx.at - 1
        BY <1>1, <1>3, <3>1, <4>1 DEF BatchInv, TxPending
      <4> QED
        BY <1>1, <1>6, <1>7, <3>1, <4>2
    <3>2. CASE tx.first = -1 \/ tx.at # CountOf[digest]
      <4>1. row'.last = row.last
        BY <1>6, <3>2
      <4> QED
        BY <1>1, <4>1 DEF BatchInv, RowCounts
    <3> QED
      BY <3>1, <3>2
  <2> QED
    BY <2>1, <2>2, <2>3 DEF RowCounts
<1>14. DecidedInOrder'
  <2> SUFFICES ASSUME NEW s \in history'
               PROVE  /\ \A o \in 0..(s.ordinal - 1) :
                           \E t \in history' : t.batch = s.batch /\ t.ordinal = o
                      /\ s.batch > 1 => \E t \in history' :
                           t.batch = s.batch - 1 /\ t.ordinal = CountOf[t.digest] - 1
    BY DEF DecidedInOrder
  <2>1. CASE s \in history
    BY <1>1, <2>1 DEF BatchInv, DecidedInOrder
  <2>2. CASE s \in tx.pending
    <3>1. s.batch = row.last + 1 /\ row.progress = tx.first /\ tx.first # -1
      BY <1>5, <1>7, <2>2
    <3>2. ASSUME NEW o \in 0..(s.ordinal - 1)
          PROVE  \E t \in history' : t.batch = s.batch /\ t.ordinal = o
      <4>1. CASE o < tx.first
        <5>1. o \in 0..(row.progress - 1)
          BY <1>7, <2>2, <3>1, <4>1
        <5> QED
          BY <1>1, <3>1, <5>1 DEF BatchInv, RowCounts
      <4>2. CASE o >= tx.first
        <5>1. o \in tx.first..(tx.at - 1)
          BY <1>3, <1>7, <2>2, <3>1, <4>2
        <5>2. PICK t \in tx.pending : t.ordinal = o
          BY <1>1, <1>3, <3>1, <5>1 DEF BatchInv, TxPending
        <5> QED
          BY <1>1, <1>7, <2>2, <5>2
      <4> QED
        BY <1>7, <2>2, <4>1, <4>2
    <3>3. s.batch > 1 => \E t \in history' :
             t.batch = s.batch - 1 /\ t.ordinal = CountOf[t.digest] - 1
      BY <1>1, <1>7, <3>1 DEF BatchInv, RowCounts
    <3> QED
      BY <3>2, <3>3
  <2> QED
    BY <1>1, <2>1, <2>2
<1> QED
  BY <1>1, <1>9, <1>10, <1>11, <1>12, <1>13, <1>14, TxClosed DEF BatchInv

----------------------------------------------------------------------------
(***************************************************************************)
(* The theorems.                                                           *)
(***************************************************************************)

\* Every step keeps the invariant.
LEMMA NextBatchInv ==
    ASSUME BatchInv, [Next]_batchVars
    PROVE  BatchInv'
<1>1. CASE UNCHANGED batchVars
  <2> USE <1>1 DEF BatchInv, batchVars
  <2>1. TypeOK' /\ PushShape'
    BY DEF TypeOK, PushShape, Count
  <2>2. LockHeld' /\ TxRow' /\ TxPending'
    BY <2>1, TxUntouched
  <2> QED
    BY <2>1, <2>2, CommittedUnchanged
<1>2. ASSUME NEW p \in Pushes,
             \/ \E req \in Request : Receive(p, req)
             \/ Serve(p) \/ Disturb(p) \/ Reply(p)
      PROVE  BatchInv'
  <2>1. CASE \E req \in Request : Receive(p, req)
    BY <2>1, ReceiveKeepsInv
  <2>2. CASE Claim(p)
    BY <2>2, ClaimKeepsInv
  <2>3. CASE Replay(p)
    BY <2>3, ReplayKeepsInv
  <2>4. CASE \E outcome \in Outcomes : Execute(p, outcome)
    BY <2>4, ExecuteKeepsInv
  <2>5. CASE CommitGroup(p)
    BY <2>5, CommitGroupKeepsInv
  <2>6. CASE HandlerDefect(p) \/ Refuse(p)
    BY <2>6, RollBackKeepsInv DEF HandlerDefect, Refuse
  <2>7. CASE Restart(p)
    BY <2>7, RestartKeepsInv
  <2>8. CASE Stop(p)
    BY <2>8, StopKeepsInv
  <2>9. CASE Reply(p)
    BY <2>9, ReplyKeepsInv
  <2> QED
    BY <1>2, <2>1, <2>2, <2>3, <2>4, <2>5, <2>6, <2>7, <2>8, <2>9 DEF Serve, Disturb
<1> QED
  BY <1>1, <1>2 DEF Next

\* The inductive invariant holds in every reachable state.
THEOREM BatchInvariant == Spec => []BatchInv
  BY InitBatchInv, NextBatchInv, PTL DEF Spec

\* The Store row, the results, the pushes and the transaction keep their types.
THEOREM BatchTypes == Spec => []TypeOK
<1>1. BatchInv => TypeOK
  BY DEF BatchInv
<1> QED
  BY <1>1, BatchInvariant, PTL

\* A mutation is decided once and under one frozen intent, and its business
\* work is committed exactly once if it was accepted and never otherwise,
\* whatever pushes of whatever Batches interleave, restart and stop.
THEOREM DecidedExactlyOnce == Spec => []ExactlyOnce
<1>1. BatchInv => ExactlyOnce
  BY DEF BatchInv
<1> QED
  BY <1>1, BatchInvariant, PTL

\* No member is decided before the members and the Batch before it.
THEOREM OrderKept == Spec => []DecidedInOrder
<1>1. BatchInv => DecidedInOrder
  BY DEF BatchInv
<1> QED
  BY <1>1, BatchInvariant, PTL

\* The guards of V05_BATCH_BEGIN and V05_RESULTS_SAVE always match the row the
\* transaction claimed.
THEOREM GuardsMatch == Spec => []StatementsMatch
<1>1. BatchInv => StatementsMatch
  <2> SUFFICES ASSUME BatchInv, NEW p \in Pushes
               PROVE  /\ Fresh(p) /\ tx.mem.current = NoDigest =>
                            BeginGuard(tx.row, push[p].batch)
                      /\ tx.push = p /\ tx.at = GroupEnd(p) /\ tx.first # -1 =>
                            SaveGuard(tx.row, push[p].batch, tx.first, push[p].digest)
    BY DEF StatementsMatch
  <2>1. ASSUME Fresh(p), tx.mem.current = NoDigest
        PROVE  BeginGuard(tx.row, push[p].batch)
    <3>1. tx.first = -1 /\ tx.row.current = NoDigest /\ tx.row.last = push[p].batch - 1
      BY <2>1, FreshFacts, BatchAssumption
    <3>2. tx.row.progress = 0
      BY <2>1, <3>1, FreshFacts DEF BatchInv, TxRow, RowShape
    <3> QED
      BY <3>1, <3>2 DEF BeginGuard
  <2>2. ASSUME tx.push = p, tx.first # -1
        PROVE  SaveGuard(tx.row, push[p].batch, tx.first, push[p].digest)
    BY <2>2, BatchAssumption DEF BatchInv, TxRow, SaveGuard
  <2> QED
    BY <2>1, <2>2
<1> QED
  BY <1>1, BatchInvariant, PTL

----------------------------------------------------------------------------
(***************************************************************************)
(* What is retained and answered: a second invariant, over the first.      *)
(***************************************************************************)

\* The transaction sees the committed results, pruned if it began the Batch.
TxResults ==
    tx.push # NoPush =>
        /\ tx.first = -1 => tx.results = results
        /\ tx.first # -1 =>
             tx.results = IF row.current = NoDigest
                          THEN Prune(results, push[tx.push].batch) ELSE results

\* s answers member o of the request of push p.
AnswerTo(p, s, o) ==
    s.batch = push[p].batch /\ s.digest = push[p].digest /\ s.ordinal = o

\* A push holds committed answers to the groups it has finished.
PushAnswers ==
    \A p \in Pushes :
        /\ push[p].answers \subseteq history
        /\ push[p].state # "idle" =>
             \A o \in 0..(push[p].next - 1) : \E s \in push[p].answers : AnswerTo(p, s, o)
        /\ push[p].state = "answered" => push[p].next = Count(p)

\* The open transaction has an answer to every member it has passed, committed
\* or pending with it.
TxAnswers ==
    tx.push # NoPush =>
        /\ tx.answers \subseteq history \cup tx.pending
        /\ \A o \in push[tx.push].next..(tx.at - 1) :
             \E s \in tx.answers : AnswerTo(tx.push, s, o)

AnswerInv == ResultsRetained /\ TxResults /\ PushAnswers /\ TxAnswers

\* The initial state has nothing to answer.
LEMMA InitAnswerInv == Init => AnswerInv
  BY DEF Init, AnswerInv, ResultsRetained, TxResults, PushAnswers, TxAnswers, Idle, NoTx

\* A closed transaction satisfies what is said of an open one.
LEMMA TxClosedAnswers ==
    ASSUME tx' = NoTx
    PROVE  TxResults' /\ TxAnswers'
  BY DEF TxResults, TxAnswers, NoTx

\* Steps that leave the committed state, the transaction and the push it
\* belongs to leave what it has answered.
LEMMA TxUntouchedAnswers ==
    ASSUME TxResults, TxAnswers, UNCHANGED <<row, results, history, tx>>,
           tx.push # NoPush => push'[tx.push] = push[tx.push]
    PROVE  TxResults' /\ TxAnswers'
  BY DEF TxResults, TxAnswers, AnswerTo

\* Steps that set one push to an empty call leave the answers of the others.
LEMMA PushEmptied ==
    ASSUME PushAnswers, TypeOK, TypeOK', NEW p \in Pushes, UNCHANGED history,
           \A q \in Pushes \ {p} : push'[q] = push[q],
           push'[p].answers = {}, push'[p].next = 0, push'[p].state # "answered"
    PROVE  PushAnswers'
  BY DEF PushAnswers, AnswerTo, Count, TypeOK

\* Saved results are decided ones, also as the transaction sees them.
LEMMA SeenResultsDecided ==
    ASSUME AnswerInv, tx.push # NoPush
    PROVE  tx.results \subseteq results /\ results \subseteq history
  BY DEF AnswerInv, TxResults, ResultsRetained, Prune

\* The steps that do not commit keep the second invariant.
LEMMA UncommittedKeepAnswers ==
    ASSUME BatchInv, BatchInv', AnswerInv, NEW p \in Pushes,
           \/ \E req \in Request : Receive(p, req)
           \/ Reply(p) \/ RollBack(p) \/ Restart(p) \/ Stop(p) \/ Claim(p)
    PROVE  AnswerInv'
<1>1. UNCHANGED <<row, results, history>> /\ ResultsRetained'
  BY DEF Receive, Reply, RollBack, Restart, Stop, Claim, AnswerInv, ResultsRetained
<1>2. TypeOK /\ TypeOK'
  BY DEF BatchInv
<1>3. PushAnswers'
  <2>1. CASE Restart(p) \/ Claim(p)
    BY <2>1 DEF Restart, Claim, AnswerInv, PushAnswers, AnswerTo, Count
  <2>2. CASE \E req \in Request : Receive(p, req)
    <3>1. /\ \A q \in Pushes \ {p} : push'[q] = push[q]
          /\ push'[p].answers = {} /\ push'[p].next = 0 /\ push'[p].state # "answered"
      BY <1>2, <2>2 DEF Receive, TypeOK
    <3> QED
      BY <1>1, <1>2, <3>1, PushEmptied DEF AnswerInv
  <2>3. CASE Reply(p) \/ RollBack(p) \/ Stop(p)
    <3>1. /\ \A q \in Pushes \ {p} : push'[q] = push[q]
          /\ push'[p].answers = {} /\ push'[p].next = 0 /\ push'[p].state # "answered"
      BY <1>2, <2>3 DEF Reply, RollBack, Stop, Idle, TypeOK
    <3> QED
      BY <1>1, <1>2, <3>1, PushEmptied DEF AnswerInv
  <2> QED
    BY <2>1, <2>2, <2>3
<1>4. TxResults' /\ TxAnswers'
  <2>1. CASE RollBack(p) \/ Restart(p) \/ (Stop(p) /\ tx.push = p)
    BY <2>1, TxClosedAnswers DEF RollBack, Restart, Stop
  <2>2. CASE \/ \E req \in Request : Receive(p, req)
             \/ Reply(p) \/ (Stop(p) /\ tx.push # p)
    <3>1. tx' = tx /\ (tx.push # NoPush => push'[tx.push] = push[tx.push])
      BY <1>2, <2>2 DEF Receive, Reply, Stop, BatchInv, LockHeld, TypeOK
    <3> QED
      BY <1>1, <3>1, TxUntouchedAnswers DEF AnswerInv
  <2>3. CASE Claim(p)
    <3>1. /\ tx'.push = p /\ tx'.first = -1 /\ tx'.results = results /\ tx'.answers = {}
          /\ tx'.at = push[p].next /\ push' = push /\ push[p].next \in Nat
      BY <1>2, <2>3 DEF Claim, TypeOK
    <3> QED
      BY <1>1, <3>1 DEF TxResults, TxAnswers
  <2> QED
    BY <2>1, <2>2, <2>3
<1> QED
  BY <1>1, <1>3, <1>4 DEF AnswerInv

\* A replayed member is answered from a decided result of its request.
LEMMA ReplayKeepsAnswers ==
    ASSUME BatchInv, AnswerInv, NEW p \in Pushes, Replay(p)
    PROVE  AnswerInv'
<1>1. PICK saved \in SavedRow(p) :
         tx' = [tx EXCEPT !.answers = @ \cup {saved}, !.at = @ + 1]
  BY DEF Replay
<1>2. tx.push = p /\ UNCHANGED <<row, results, history, push>>
  BY DEF Replay, AtMember
<1>3. /\ tx'.push = p /\ tx'.first = tx.first /\ tx'.results = tx.results
      /\ tx'.pending = tx.pending /\ tx'.at = tx.at + 1 /\ tx'.answers = tx.answers \cup {saved}
  BY <1>1, <1>2 DEF BatchInv, TypeOK
<1>4. p # NoPush /\ tx.at \in Nat /\ push[p].next \in Nat
  BY BatchAssumption DEF BatchInv, TypeOK
<1>5. ResultsRetained' /\ TxResults' /\ PushAnswers'
  BY <1>2, <1>3 DEF AnswerInv, ResultsRetained, TxResults, PushAnswers, AnswerTo, Count
<1>6. saved \in history /\ AnswerTo(p, saved, tx.at)
  BY <1>2, <1>4, SeenResultsDecided DEF SavedRow, AnswerTo
<1>7. TxAnswers'
  <2>1. tx'.answers \subseteq history \cup tx'.pending
    BY <1>2, <1>3, <1>4, <1>6 DEF AnswerInv, TxAnswers
  <2>2. ASSUME NEW o \in push[p].next..(tx'.at - 1)
        PROVE  \E s \in tx'.answers : AnswerTo(p, s, o)
    <3>1. CASE o = tx.at
      BY <1>3, <1>6, <3>1
    <3>2. CASE o # tx.at
      <4>1. o \in push[p].next..(tx.at - 1)
        BY <1>3, <1>4, <3>2
      <4> QED
        BY <1>2, <1>3, <1>4, <4>1 DEF AnswerInv, TxAnswers
    <3> QED
      BY <3>1, <3>2
  <2> QED
    BY <1>2, <1>3, <2>1, <2>2 DEF TxAnswers, AnswerTo
<1> QED
  BY <1>5, <1>7 DEF AnswerInv

\* A fresh member is answered by its pending result; beginning the Batch
\* prunes what the transaction sees.
LEMMA ExecuteKeepsAnswers ==
    ASSUME BatchInv, AnswerInv, NEW p \in Pushes, NEW outcome \in Outcomes,
           Execute(p, outcome)
    PROVE  AnswerInv'
<1> DEFINE begins == tx.mem.current = NoDigest
           result == [batch |-> push[p].batch, digest |-> push[p].digest,
                      ordinal |-> tx.at, outcome |-> outcome]
<1>1. Fresh(p) /\ UNCHANGED <<row, results, executions, history, push>>
  BY DEF Execute
<1>2. /\ tx'.push = tx.push
      /\ tx'.results = (IF begins THEN Prune(tx.results, push[p].batch) ELSE tx.results)
      /\ tx'.pending = tx.pending \cup {result}
      /\ tx'.answers = tx.answers \cup {result}
      /\ tx'.first = (IF tx.first = -1 THEN tx.at ELSE tx.first)
      /\ tx'.at = tx.at + 1
  BY DEF Execute, BatchInv, TypeOK
<1>3. /\ tx.push = p /\ p # NoPush /\ tx.at \in Nat /\ push[p].next \in Nat
      /\ push[p].digest # NoDigest
      /\ tx.first = -1 => tx.mem.current = row.current
      /\ tx.first # -1 => tx.mem.current = push[p].digest
  BY <1>1, FreshFacts, BatchAssumption DEF BatchInv, TxRow, TypeOK
<1>4. AnswerTo(p, result, tx.at)
  BY DEF AnswerTo
<1> HIDE DEF result
<1>5. ResultsRetained' /\ PushAnswers'
  BY <1>1 DEF AnswerInv, ResultsRetained, PushAnswers, AnswerTo, Count
<1>6. TxResults'
  BY <1>1, <1>2, <1>3 DEF AnswerInv, TxResults
<1>7. TxAnswers'
  <2>1. tx'.answers \subseteq history \cup tx'.pending
    BY <1>2, <1>3 DEF AnswerInv, TxAnswers
  <2>2. ASSUME NEW o \in push[p].next..(tx'.at - 1)
        PROVE  \E s \in tx'.answers : AnswerTo(p, s, o)
    <3>1. CASE o = tx.at
      BY <1>2, <1>4, <3>1
    <3>2. CASE o # tx.at
      <4>1. o \in push[p].next..(tx.at - 1)
        BY <1>2, <1>3, <3>2
      <4> QED
        BY <1>2, <1>3, <4>1 DEF AnswerInv, TxAnswers
    <3> QED
      BY <3>1, <3>2
  <2> QED
    BY <1>1, <1>2, <1>3, <2>1, <2>2 DEF TxAnswers, AnswerTo
<1> QED
  BY <1>5, <1>6, <1>7 DEF AnswerInv

\* A commit publishes the pending answers and retains the results of its Batch.
LEMMA CommitGroupKeepsAnswers ==
    ASSUME BatchInv, AnswerInv, NEW p \in Pushes, CommitGroup(p)
    PROVE  AnswerInv'
<1> DEFINE digest == push[p].digest
           batch == push[p].batch
<1>1. /\ tx.push = p
      /\ results' = tx.results \cup tx.pending
      /\ history' = history \cup tx.pending
      /\ tx' = NoTx
  BY DEF CommitGroup
<1>2. /\ p # NoPush /\ push[p].state = "running" /\ digest \in Digests /\ tx.at \in Nat
      /\ push[p].next \in Nat
      /\ batch \in Nat /\ row.last \in Nat
      /\ tx.first = -1 => tx.pending = {}
      /\ tx.first # -1 => row.current \in {NoDigest, digest} /\ row.last = batch - 1
      /\ tx.first = -1 => row'.last = row.last /\ row'.current = row.current
      /\ tx.first # -1 /\ tx.at = CountOf[digest] =>
           row'.last = batch /\ row'.current = NoDigest
      /\ tx.first # -1 /\ tx.at # CountOf[digest] =>
           row'.last = row.last /\ row'.current = digest
      /\ \A s \in history : s.batch \in Nat /\ s.digest \in Digests
      /\ \A s \in tx.pending : s.batch = batch
  BY CommitFacts DEF BatchInv, TypeOK
<1>3. ResultsRetained'
  <2>1. CASE tx.first = -1
    BY <1>1, <1>2, <2>1 DEF AnswerInv, TxResults, ResultsRetained
  <2>2. CASE tx.first # -1
    <3>1. batch = IF row'.current = NoDigest THEN row'.last ELSE row'.last + 1
      BY <1>2, <2>2, BatchAssumption
    <3>2. tx.results = {s \in history : s.batch = batch}
      <4>1. CASE row.current = NoDigest
        <5>1. \A s \in history : s.batch # batch
          BY <1>2, <2>2, <4>1, BatchAssumption DEF BatchInv, RowCounts
        <5>2. \A s \in results : s.batch = batch - 1
          BY <1>2, <2>2, <4>1 DEF AnswerInv, ResultsRetained
        <5>3. tx.results = Prune(results, batch)
          BY <1>1, <1>2, <2>2, <4>1 DEF AnswerInv, TxResults
        <5> QED
          BY <1>2, <5>1, <5>2, <5>3 DEF Prune
      <4>2. CASE row.current # NoDigest
        <5>1. tx.results = results
          BY <1>1, <1>2, <2>2, <4>2 DEF AnswerInv, TxResults
        <5> QED
          BY <1>2, <2>2, <4>2, <5>1 DEF AnswerInv, ResultsRetained
      <4> QED
        BY <4>1, <4>2
    <3> QED
      BY <1>1, <1>2, <3>1, <3>2 DEF ResultsRetained
  <2> QED
    BY <2>1, <2>2
<1>4. /\ \A q \in Pushes \ {p} : push'[q] = push[q]
      /\ push'[p].batch = batch /\ push'[p].digest = digest /\ push'[p].next = tx.at
      /\ push'[p].answers = push[p].answers \cup tx.answers
      /\ push'[p].state = IF tx.at = Count(p) THEN "answered" ELSE "running"
  BY <1>2 DEF CommitGroup, BatchInv, TypeOK
<1>5. PushAnswers'
  <2>1. ASSUME NEW q \in Pushes \ {p}
        PROVE  /\ push'[q].answers \subseteq history'
               /\ push'[q].state # "idle" =>
                    \A o \in 0..(push'[q].next - 1) :
                        \E s \in push'[q].answers : AnswerTo(q, s, o)'
               /\ push'[q].state = "answered" => push'[q].next = Count(q)'
    BY <1>1, <1>4 DEF AnswerInv, PushAnswers, AnswerTo, Count
  <2>2. push'[p].answers \subseteq history'
    BY <1>1, <1>2, <1>4 DEF AnswerInv, PushAnswers, TxAnswers
  <2>3. ASSUME NEW o \in 0..(push'[p].next - 1)
        PROVE  \E s \in push'[p].answers : AnswerTo(p, s, o)'
    <3>1. CASE o < push[p].next
      <4>1. o \in 0..(push[p].next - 1)
        BY <1>2, <1>4, <3>1
      <4>2. PICK s \in push[p].answers : AnswerTo(p, s, o)
        BY <1>2, <4>1 DEF AnswerInv, PushAnswers
      <4> QED
        BY <1>4, <4>2 DEF AnswerTo
    <3>2. CASE o >= push[p].next
      <4>1. o \in push[p].next..(tx.at - 1)
        BY <1>2, <1>4, <3>2
      <4>2. PICK s \in tx.answers : AnswerTo(p, s, o)
        BY <1>1, <1>2, <4>1 DEF AnswerInv, TxAnswers
      <4> QED
        BY <1>4, <4>2 DEF AnswerTo
    <3> QED
      BY <1>2, <1>4, <3>1, <3>2
  <2>4. push'[p].state = "answered" => push'[p].next = Count(p)'
    BY <1>4 DEF Count
  <2> QED
    BY <2>1, <2>2, <2>3, <2>4 DEF PushAnswers
<1> QED
  BY <1>1, <1>3, <1>5, TxClosedAnswers DEF AnswerInv

\* Every step keeps the second invariant.
LEMMA NextAnswerInv ==
    ASSUME BatchInv, BatchInv', AnswerInv, [Next]_batchVars
    PROVE  AnswerInv'
<1>1. CASE UNCHANGED batchVars
  BY <1>1 DEF batchVars, AnswerInv, ResultsRetained, TxResults, PushAnswers, TxAnswers,
              AnswerTo, Count
<1>2. ASSUME NEW p \in Pushes,
             \/ \E req \in Request : Receive(p, req)
             \/ Serve(p) \/ Disturb(p) \/ Reply(p)
      PROVE  AnswerInv'
  <2>1. CASE Replay(p)
    BY <2>1, ReplayKeepsAnswers
  <2>2. CASE \E outcome \in Outcomes : Execute(p, outcome)
    BY <2>2, ExecuteKeepsAnswers
  <2>3. CASE CommitGroup(p)
    BY <2>3, CommitGroupKeepsAnswers
  <2>4. CASE HandlerDefect(p) \/ Refuse(p)
    BY <2>4, UncommittedKeepAnswers DEF HandlerDefect, Refuse
  <2>5. CASE \/ \E req \in Request : Receive(p, req)
             \/ Reply(p) \/ Restart(p) \/ Stop(p) \/ Claim(p)
    BY <2>5, UncommittedKeepAnswers
  <2> QED
    BY <1>2, <2>1, <2>2, <2>3, <2>4, <2>5 DEF Serve, Disturb
<1> QED
  BY <1>1, <1>2 DEF Next

\* Both invariants hold in every reachable state.
THEOREM AnswerInvariant == Spec => []AnswerInv
  BY InitAnswerInv, NextAnswerInv, BatchInvariant, PTL DEF Spec

\* The saved results are always those of the Batch under execution or, between
\* Batches, of the last one, so a retry of that Batch finds every one of them.
THEOREM RetriesFindResults == Spec => []ResultsRetained
<1>1. AnswerInv => ResultsRetained
  BY DEF AnswerInv
<1> QED
  BY <1>1, AnswerInvariant, PTL

\* A push that answers holds the committed outcome of every member of its
\* request, whichever pushes executed them.
THEOREM AnswersAreCommitted == Spec => []AnswersCommitted
<1>1. BatchInv /\ AnswerInv => AnswersCommitted
  <2> SUFFICES ASSUME BatchInv, AnswerInv, NEW p \in Pushes
               PROVE  /\ push[p].answers \subseteq history
                      /\ push[p].state = "answered" =>
                           \A o \in 0..(Count(p) - 1) :
                             \E s \in push[p].answers :
                               /\ s.batch = push[p].batch /\ s.digest = push[p].digest
                               /\ s.ordinal = o
    BY DEF AnswersCommitted
  <2> QED
    BY DEF AnswerInv, PushAnswers, AnswerTo
<1> QED
  BY <1>1, BatchInvariant, AnswerInvariant, PTL

----------------------------------------------------------------------------
(***************************************************************************)
(* Refinement: a commit decides the pending members, in order and at once; *)
(* every other step decides nothing.                                       *)
(***************************************************************************)

\* A commit with a fresh suffix is a Decide of exactly that suffix.
LEMMA CommitDecides ==
    ASSUME BatchInv, NEW p \in Pushes, CommitGroup(p), tx.first # -1
    PROVE  /\ push[p].batch \in Outcomes05!BatchIds /\ push[p].digest \in Digests
           /\ tx.first \in 0..(CountOf[push[p].digest] - 1)
           /\ tx.at - 1 \in tx.first..(CountOf[push[p].digest] - 1)
           /\ Outcomes05!Decide(push[p].batch, push[p].digest, tx.first, tx.at - 1)
<1> DEFINE digest == push[p].digest
           batch == push[p].batch
           from == tx.first
           to == tx.at - 1
           outcome == [o \in from..to |-> (CHOOSE s \in tx.pending : s.ordinal = o).outcome]
<1>1. /\ tx.push = p /\ history' = history \cup tx.pending
      /\ executions' = [m \in Members |->
                          IF m \in tx.writes THEN executions[m] + 1 ELSE executions[m]]
  BY DEF CommitGroup
<1>2. /\ p # NoPush /\ batch \in BatchIds /\ digest \in Digests
      /\ tx.at \in Nat /\ tx.at <= CountOf[digest] /\ CountOf[digest] \in Nat \ {0}
      /\ tx \in Transaction
      /\ row.current \in {NoDigest, digest} /\ row.last = batch - 1
      /\ row.progress = from /\ from < tx.at
      /\ \A s \in history : s.batch \in Nat /\ s.ordinal \in Nat /\ s.digest \in Digests
      /\ \A s \in tx.pending : /\ s.batch = batch /\ s.digest = digest /\ s.ordinal \in Nat
                               /\ from <= s.ordinal /\ s.ordinal < tx.at
      /\ batch \in Nat \ {0} /\ row.last \in Nat /\ from \in Nat
  BY CommitFacts
<1>3. /\ \A s, t \in tx.pending : s.ordinal = t.ordinal => s = t
      /\ \A o \in from..to : \E s \in tx.pending : s.ordinal = o
      /\ \A m \in Members :
           m \in tx.writes <=> \E s \in tx.pending :
                                  /\ <<s.batch, s.digest, s.ordinal>> = m
                                  /\ s.outcome = "accepted"
  BY <1>1, <1>2 DEF BatchInv, TxPending
<1>4. tx.pending \subseteq Result
  BY <1>2 DEF Transaction
<1>5. from \in 0..(CountOf[digest] - 1) /\ to \in from..(CountOf[digest] - 1)
  BY <1>2
<1> HIDE DEF digest, batch, from, to
<1>6. Outcomes05!NextUp(batch, digest, from)
  <2>1. \A s \in history : s.batch = batch =>
            s.digest = digest /\ s.ordinal < from
    BY <1>2, BatchAssumption DEF BatchInv, RowCounts
  <2>2. \A o \in 0..(from - 1) : \E s \in history : s.batch = batch /\ s.ordinal = o
    BY <1>2 DEF BatchInv, RowCounts
  <2>3. batch > 1 => \E s \in history : /\ s.batch = batch - 1
                                        /\ s.ordinal = CountOf[s.digest] - 1
    BY <1>2 DEF BatchInv, RowCounts
  <2> QED
    BY <2>1, <2>2, <2>3 DEF Outcomes05!NextUp, Outcomes05!DecidedOf
\* The outcome of a member is that of its one pending result.
<1>7. \A s \in tx.pending : s.ordinal \in from..to /\ s.outcome = outcome[s.ordinal]
  <2> SUFFICES ASSUME NEW s \in tx.pending
               PROVE  s.ordinal \in from..to /\ s.outcome = outcome[s.ordinal]
    OBVIOUS
  <2>1. s.ordinal \in from..to
    BY <1>2 DEF to
  <2>2. (CHOOSE t \in tx.pending : t.ordinal = s.ordinal) = s
    BY <1>3
  <2> QED
    BY <2>1, <2>2
<1>8. outcome \in [from..to -> {"accepted", "rejected"}]
  <2> SUFFICES ASSUME NEW o \in from..to
               PROVE  (CHOOSE s \in tx.pending : s.ordinal = o).outcome
                        \in {"accepted", "rejected"}
    OBVIOUS
  <2>1. (CHOOSE s \in tx.pending : s.ordinal = o) \in tx.pending
    BY <1>3
  <2>2. \A s \in Result : s.outcome \in {"accepted", "rejected"}
    BY DEF Result, Outcomes
  <2> QED
    BY <1>4, <2>1, <2>2
<1> HIDE DEF outcome
<1>9. tx.pending = {[batch |-> batch, digest |-> digest, ordinal |-> o,
                     outcome |-> outcome[o]] : o \in from..to}
  <2>1. ASSUME NEW s \in tx.pending
        PROVE  s = [batch |-> batch, digest |-> digest, ordinal |-> s.ordinal,
                    outcome |-> outcome[s.ordinal]]
    <3>1. s \in Result
      BY <1>4
    <3>2. s = [batch |-> s.batch, digest |-> s.digest, ordinal |-> s.ordinal,
               outcome |-> s.outcome]
      BY <3>1 DEF Result
    <3> QED
      BY <1>2, <1>7, <3>2
  <2>2. ASSUME NEW o \in from..to
        PROVE  [batch |-> batch, digest |-> digest, ordinal |-> o,
                outcome |-> outcome[o]] \in tx.pending
    <3>1. PICK s \in tx.pending : s.ordinal = o
      BY <1>3
    <3> QED
      BY <2>1, <3>1
  <2> QED
    BY <1>7, <2>1, <2>2
<1>10. executions' = [m \in Outcomes05!Members |->
          IF m[1] = batch /\ m[2] = digest /\ m[3] \in from..to /\ outcome[m[3]] = "accepted"
          THEN executions[m] + 1 ELSE executions[m]]
  <2>1. ASSUME NEW m \in Members
        PROVE  m \in tx.writes <=>
                 /\ m[1] = batch /\ m[2] = digest /\ m[3] \in from..to
                 /\ outcome[m[3]] = "accepted"
    <3>1. m = <<m[1], m[2], m[3]>>
      BY DEF Members
    <3>2. ASSUME m \in tx.writes
          PROVE  /\ m[1] = batch /\ m[2] = digest /\ m[3] \in from..to
                 /\ outcome[m[3]] = "accepted"
      <4>1. PICK s \in tx.pending : /\ <<s.batch, s.digest, s.ordinal>> = m
                                    /\ s.outcome = "accepted"
        BY <1>3, <3>2
      <4> QED
        BY <1>2, <1>7, <4>1
    <3>3. ASSUME m[1] = batch, m[2] = digest, m[3] \in from..to,
                 outcome[m[3]] = "accepted"
          PROVE  m \in tx.writes
      <4>1. PICK s \in tx.pending : s.ordinal = m[3]
        BY <1>3, <3>3
      <4>2. <<s.batch, s.digest, s.ordinal>> = m /\ s.outcome = "accepted"
        BY <1>2, <1>7, <3>1, <3>3, <4>1
      <4> QED
        BY <1>3, <4>2
    <3> QED
      BY <3>2, <3>3
  <2>2. Outcomes05!Members = Members
    BY DEF Members, BatchIds, Ordinals, Outcomes05!Members, Outcomes05!BatchIds,
           Outcomes05!Ordinals
  <2> QED
    BY <1>1, <2>1, <2>2
<1>11. Outcomes05!Decide(batch, digest, from, to)
  BY <1>1, <1>6, <1>8, <1>9, <1>10 DEF Outcomes05!Decide
<1>12. batch \in Outcomes05!BatchIds
  BY <1>2 DEF BatchIds, Outcomes05!BatchIds
<1> QED
  BY <1>2, <1>5, <1>11, <1>12 DEF batch, digest, from, to

\* Every step of execution is a step of the promise or leaves it alone.
LEMMA StepImplements ==
    ASSUME BatchInv, [Next]_batchVars
    PROVE  [Outcomes05!Next]_<<history, executions>>
<1>1. CASE UNCHANGED <<history, executions>>
  BY <1>1
<1>2. ASSUME NEW p \in Pushes, CommitGroup(p)
      PROVE  [Outcomes05!Next]_<<history, executions>>
  <2>1. CASE tx.first # -1
    BY <1>2, <2>1, CommitDecides DEF Outcomes05!Next
  <2>2. CASE tx.first = -1
    <3>1. tx.pending = {} /\ executions \in [Members -> Nat] /\ tx.push = p /\ p # NoPush
      BY <1>2, <2>2, CommitFacts DEF CommitGroup
    <3>2. \A m \in Members : m \notin tx.writes
      BY <3>1 DEF BatchInv, TxPending
    <3>3. history' = history /\ executions' = executions
      BY <1>2, <3>1, <3>2 DEF CommitGroup
    <3> QED
      BY <3>3
  <2> QED
    BY <2>1, <2>2
<1>3. \/ UNCHANGED <<history, executions>>
      \/ \E p \in Pushes : CommitGroup(p)
  BY DEF Next, Serve, Disturb, Receive, Claim, Replay, Execute, HandlerDefect, Refuse,
         RollBack, Restart, Stop, Reply, batchVars
<1> QED
  BY <1>1, <1>2, <1>3

\* Mutation execution implements MutationOutcomes: whatever is retried,
\* restarted or interleaved, the committed results and the committed business
\* work change as if each group of members were decided once, in order.
THEOREM ExecutionImplements == Spec => ImplementsOutcomes
<1>1. Init => Outcomes05!Init
  BY DEF Init, Outcomes05!Init, Members, BatchIds, Ordinals, Outcomes05!Members,
         Outcomes05!BatchIds, Outcomes05!Ordinals
<1> QED
  BY <1>1, StepImplements, BatchInvariant, PTL DEF Spec, ImplementsOutcomes, Outcomes05!Spec

============================================================================
