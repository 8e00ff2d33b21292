--------------------------- MODULE MutationBatch ---------------------------
(***************************************************************************)
(* Execution of frozen mutation Batches by the server runtime: one Store   *)
(* row, its saved member results, and any number of concurrent             *)
(* `backend.push` calls (packages/backend/server/api/backend.mts) that     *)
(* drive crates/server/src/mutation_batch.rs group by group.               *)
(*                                                                         *)
(* A commit group is one SERIALIZABLE transaction that holds the Store's   *)
(* row lock from `claimStore` to its end, so at most one group transaction *)
(* of a Store is open: variable tx.  Its members run one at a time; what   *)
(* they write is private to tx until the group commits.  Between two       *)
(* groups of one push anything may happen: another push of the same frozen *)
(* request (a retransmission), a push of another Batch, a crash.           *)
(*                                                                         *)
(* A member is named by <<digest, ordinal>>: the digest covers the frozen  *)
(* mutations, so it fixes their number (CountOf) and their ids.            *)
(***************************************************************************)
EXTENDS Integers, FiniteSets

CONSTANTS
    Pushes,      \* concurrent backend.push calls
    Owners,      \* authenticated principals
    Digests,     \* contents a Batch may be frozen with
    CountOf,     \* number of mutations under each digest
    Defective,   \* <<digest, ordinal>> pairs whose handler always throws a defect
    MaxBatch,    \* bound on Batch ids
    GroupSize,   \* members per commit group (backend.mts mutationGroupSize)
    NoDigest, NoOwner, NoPush

ASSUME BatchAssumption ==
    /\ MaxBatch \in Nat
    /\ GroupSize \in Nat \ {0}
    /\ Digests # {}
    /\ CountOf \in [Digests -> Nat \ {0}]
    /\ NoDigest \notin Digests
    /\ NoOwner \notin Owners
    /\ NoPush \notin Pushes

VARIABLES
    row,         \* the committed axton_store row
    results,     \* the committed axton_mutation_result rows
    executions,  \* committed business executions of a member, counted (history)
    history,     \* every result ever committed, never pruned (history)
    push,        \* the state of each backend.push call
    tx           \* the open group transaction of the Store, if any

batchVars == <<row, results, executions, history, push, tx>>

----------------------------------------------------------------------------
BatchIds == 1..MaxBatch
Ordinals == UNION {0..(CountOf[d] - 1) : d \in Digests}
Outcomes == {"accepted", "rejected"}
Members  == BatchIds \X Digests \X Ordinals
Result   == [batch : BatchIds, digest : Digests, ordinal : Ordinals,
             outcome : Outcomes]
Request  == [owner : Owners, batch : BatchIds, digest : Digests]

\* The Store row: its binding, the last completed Batch, and the progress,
\* digest and member count of the Batch under execution.
Row == [owner : Owners \cup {NoOwner}, last : Nat, progress : Ordinals,
        current : Digests \cup {NoDigest}, lastDigest : Digests \cup {NoDigest}]

EmptyRow == [owner |-> NoOwner, last |-> 0, progress |-> 0,
             current |-> NoDigest, lastDigest |-> NoDigest]

NoTx == [push |-> NoPush, mem |-> EmptyRow, row |-> EmptyRow, results |-> {},
         writes |-> {}, pending |-> {}, answers |-> {}, first |-> -1, at |-> 0]

Idle == [state |-> "idle", owner |-> NoOwner, batch |-> 0, digest |-> NoDigest,
         next |-> 0, answers |-> {}]

Init ==
    /\ row = EmptyRow
    /\ results = {}
    /\ executions = [m \in Members |-> 0]
    /\ history = {}
    /\ push = [p \in Pushes |-> Idle]
    /\ tx = NoTx

----------------------------------------------------------------------------
(***************************************************************************)
(* What execute_claimed decides from the claimed Store, in its order.      *)
(***************************************************************************)
Count(p) == CountOf[push[p].digest]

\* The group a push runs next ends here (exclusive).
GroupEnd(p) ==
    IF push[p].next + GroupSize < Count(p) THEN push[p].next + GroupSize ELSE Count(p)

Bound(p) == tx.mem.owner = push[p].owner

Completed(p) == push[p].batch = tx.mem.last

CurrentOrLater(p) == push[p].batch > tx.mem.last
Current(p) == push[p].batch = tx.mem.last + 1

SameIntent(p) ==
    IF Completed(p) THEN tx.mem.lastDigest = push[p].digest
                    ELSE tx.mem.current \in {NoDigest, push[p].digest}

Admissible(p) == Bound(p) /\ (Completed(p) \/ Current(p)) /\ SameIntent(p)

SavedIfCompleted(p) == Completed(p)
\* Store::saved: this member's outcome is already committed.
Saved(p) == Completed(p) \/ tx.at < tx.mem.progress

SavedRowOfBatch(p) == {s \in tx.results : /\ s.batch = push[p].batch
                                         /\ s.digest = push[p].digest}
\* readResult, with the check that the saved row is this mutation's.
SavedRow(p) == {s \in tx.results : /\ s.batch = push[p].batch /\ s.ordinal = tx.at
                                  /\ s.digest = push[p].digest}

(***************************************************************************)
(* The row updates of the SQL statements: V05_BATCH_BEGIN (which prunes    *)
(* the results of older Batches) and V05_RESULTS_SAVE.  Store::save        *)
(* repeats the second on the copy the transaction keeps in memory.         *)
(***************************************************************************)
BeginGuard(r, batch) == r.last = batch - 1 /\ r.current = NoDigest /\ r.progress = 0

Begun(r, digest) == [r EXCEPT !.current = digest]

PruneLate(saved, batch) == {s \in saved : s.batch >= batch - 1}
Prune(saved, batch) == {s \in saved : s.batch >= batch}

SaveGuard(r, batch, first, digest) ==
    r.last = batch - 1 /\ r.progress = first /\ r.current = digest

AdvancedEarly(r, batch, progress) ==
    IF progress >= CountOf[r.current] - 1
    THEN [r EXCEPT !.last = batch, !.lastDigest = r.current,
                   !.current = NoDigest, !.progress = 0]
    ELSE [r EXCEPT !.progress = progress]
Advanced(r, batch, progress) ==
    IF progress = CountOf[r.current]
    THEN [r EXCEPT !.last = batch, !.lastDigest = r.current,
                   !.current = NoDigest, !.progress = 0]
    ELSE [r EXCEPT !.progress = progress]

----------------------------------------------------------------------------
(***************************************************************************)
(* One push.                                                               *)
(***************************************************************************)

\* An authenticated request reaches backend.push.
Receive(p, req) ==
    /\ push[p].state = "idle"
    /\ push' = [push EXCEPT ![p] = [state |-> "running", owner |-> req.owner,
                                    batch |-> req.batch, digest |-> req.digest,
                                    next |-> 0, answers |-> {}]]
    /\ UNCHANGED <<row, results, executions, history, tx>>

\* Opens the group's transaction and claims the Store: the row is inserted
\* by its first claim and locked; a second claimer waits for the lock.
Claim(p) ==
    /\ push[p].state = "running"
    /\ tx.push = NoPush
    /\ LET claimed == IF row.owner = NoOwner
                      THEN [EmptyRow EXCEPT !.owner = push[p].owner] ELSE row
       IN tx' = [push |-> p, mem |-> claimed, row |-> claimed, results |-> results,
                 writes |-> {}, pending |-> {}, answers |-> {}, first |-> -1,
                 at |-> push[p].next]
    /\ UNCHANGED <<row, results, executions, history, push>>

AtMember(p) == tx.push = p /\ tx.at < GroupEnd(p)

\* The transaction rolls back and the push answers an error.
RollBack(p) ==
    /\ tx' = NoTx
    /\ push' = [push EXCEPT ![p] = Idle]
    /\ UNCHANGED <<row, results, executions, history>>

\* A member whose outcome is committed answers it and runs nothing.
Replay(p) ==
    /\ AtMember(p) /\ Admissible(p) /\ Saved(p)
    /\ \E s \in SavedRow(p) :
         tx' = [tx EXCEPT !.answers = @ \cup {s}, !.at = @ + 1]
    /\ UNCHANGED <<row, results, executions, history, push>>

\* This member is the next one to run.
Fresh(p) == AtMember(p) /\ Admissible(p) /\ ~Saved(p) /\ tx.at = tx.mem.progress

BusinessUnguarded(p, writes, outcome) ==
    writes \cup {<<push[p].batch, push[p].digest, tx.at>>}
BusinessDropped(p, writes, outcome) == writes
\* The business writes left by a member: the handler writes, and a refusal
\* rolls back to the member's savepoint.
Business(p, writes, outcome) ==
    IF outcome = "accepted"
    THEN writes \cup {<<push[p].batch, push[p].digest, tx.at>>} ELSE writes

\* A fresh member: the Batch begins if it has not, the handler runs in its
\* savepoint, and the outcome joins the group's pending suffix.
Execute(p, outcome) ==
    /\ Fresh(p)
    /\ <<push[p].digest, tx.at>> \notin Defective
    /\ LET begins  == tx.mem.current = NoDigest
           mem     == IF begins THEN Begun(tx.mem, push[p].digest) ELSE tx.mem
           result  == [batch |-> push[p].batch, digest |-> push[p].digest,
                       ordinal |-> tx.at, outcome |-> outcome]
       IN /\ begins => BeginGuard(tx.row, push[p].batch)
          /\ tx' = [tx EXCEPT
                !.row = IF begins THEN Begun(@, push[p].digest) ELSE @,
                !.results = IF begins THEN Prune(@, push[p].batch) ELSE @,
                !.mem = Advanced(mem, push[p].batch, tx.at + 1),
                !.writes = Business(p, @, outcome),
                !.pending = @ \cup {result},
                !.answers = @ \cup {result},
                !.first = IF @ = -1 THEN tx.at ELSE @,
                !.at = @ + 1]
    /\ UNCHANGED <<row, results, executions, history, push>>

\* store.binding, batch.sequence, batch.conflict, batch.progress, or a
\* committed result that is missing or belongs to another mutation.
Refuse(p) ==
    /\ AtMember(p)
    /\ ~Fresh(p)
    /\ ~(Admissible(p) /\ Saved(p) /\ SavedRow(p) # {})
    /\ RollBack(p)

\* A handler that throws anything but a business rejection aborts the group.
HandlerDefect(p) ==
    /\ Fresh(p)
    /\ <<push[p].digest, tx.at>> \in Defective
    /\ RollBack(p)

\* The group's fresh suffix is saved and the transaction commits.
CommitGroup(p) ==
    /\ tx.push = p
    /\ tx.at = GroupEnd(p)
    /\ tx.first # -1 => SaveGuard(tx.row, push[p].batch, tx.first, push[p].digest)
    /\ row' = IF tx.first = -1 THEN tx.row ELSE Advanced(tx.row, push[p].batch, tx.at)
    /\ results' = tx.results \cup tx.pending
    /\ executions' = [m \in Members |->
                        IF m \in tx.writes THEN executions[m] + 1 ELSE executions[m]]
    /\ history' = history \cup tx.pending
    /\ push' = [push EXCEPT ![p].next = tx.at,
                            ![p].answers = @ \cup tx.answers,
                            ![p].state = IF tx.at = Count(p) THEN "answered" ELSE @]
    /\ tx' = NoTx

\* A serialization failure: the driver re-runs the whole group transaction.
Restart(p) ==
    /\ tx.push = p
    /\ tx' = NoTx
    /\ UNCHANGED <<row, results, executions, history, push>>

\* The server process, its connection or its retries end, or a group is
\* refused for a reason outside the Store row (stream.forbidden, a Loader
\* defect): an open transaction rolls back, committed groups stay, nobody is
\* answered.
Stop(p) ==
    /\ push[p].state = "running"
    /\ push' = [push EXCEPT ![p] = Idle]
    /\ tx' = IF tx.push = p THEN NoTx ELSE tx
    /\ UNCHANGED <<row, results, executions, history>>

\* The response leaves the server.
Reply(p) ==
    /\ push[p].state = "answered"
    /\ push' = [push EXCEPT ![p] = Idle]
    /\ UNCHANGED <<row, results, executions, history, tx>>

Serve(p) ==
    \/ Claim(p)
    \/ Replay(p)
    \/ \E outcome \in Outcomes : Execute(p, outcome)
    \/ CommitGroup(p)
    \/ HandlerDefect(p)
    \/ Refuse(p)

Disturb(p) == Restart(p) \/ Stop(p)

Next == \E p \in Pushes :
    \/ \E req \in Request : Receive(p, req)
    \/ Serve(p)
    \/ Disturb(p)
    \/ Reply(p)

Spec == Init /\ [][Next]_batchVars

----------------------------------------------------------------------------
(***************************************************************************)
(* Properties.                                                             *)
(***************************************************************************)

\* The type of every variable.
TypeOK ==
    /\ row \in Row
    /\ results \subseteq Result
    /\ executions \in [Members -> Nat]
    /\ history \subseteq Result
    /\ push \in [Pushes -> [state : {"idle", "running", "answered"},
                            owner : Owners \cup {NoOwner}, batch : Nat,
                            digest : Digests \cup {NoDigest}, next : Nat,
                            answers : SUBSET Result]]
    /\ tx \in [push : Pushes \cup {NoPush}, mem : Row, row : Row,
               results : SUBSET Result, writes : SUBSET Members,
               pending : SUBSET Result, answers : SUBSET Result,
               first : Nat \cup {-1}, at : Nat]

\* The outcome of a mutation is decided once, under one frozen intent, and its
\* business work is committed exactly once if it was accepted and never
\* otherwise, however often its Batch is pushed (execute_claimed).
ExactlyOnce ==
    /\ \A s, t \in history :
         s.batch = t.batch => /\ s.digest = t.digest
                              /\ s.ordinal = t.ordinal => s = t
    /\ \A m \in Members :
         executions[m] = IF \E s \in history : /\ <<s.batch, s.digest, s.ordinal>> = m
                                               /\ s.outcome = "accepted"
                         THEN 1 ELSE 0

\* A push that answers has the committed outcome of every member of its
\* request, whichever pushes executed them (encode_batch_acknowledgement).
AnswersCommitted ==
    \A p \in Pushes :
        /\ push[p].answers \subseteq history
        /\ push[p].state = "answered" =>
             \A o \in 0..(Count(p) - 1) :
                 \E s \in push[p].answers :
                     /\ s.batch = push[p].batch /\ s.digest = push[p].digest
                     /\ s.ordinal = o

\* Batches and members are decided in order: a decided member has every
\* earlier member of its Batch and the whole preceding Batch behind it.
DecidedInOrder ==
    \A s \in history :
        /\ \A o \in 0..(s.ordinal - 1) :
             \E t \in history : t.batch = s.batch /\ t.ordinal = o
        /\ s.batch > 1 =>
             \E t \in history : t.batch = s.batch - 1 /\ t.ordinal = CountOf[t.digest] - 1

\* The saved results are those of the Batch under execution or, between
\* Batches, of the last one: a retry of that Batch finds all of them.
ResultsRetained ==
    results = {s \in history :
                 s.batch = IF row.current = NoDigest THEN row.last ELSE row.last + 1}

\* The guards of V05_BATCH_BEGIN and V05_RESULTS_SAVE match the Store the
\* transaction claimed: no group fails with "Batch progress state changed".
StatementsMatch ==
    \A p \in Pushes :
        /\ Fresh(p) /\ tx.mem.current = NoDigest => BeginGuard(tx.row, push[p].batch)
        /\ tx.push = p /\ tx.at = GroupEnd(p) /\ tx.first # -1 =>
             SaveGuard(tx.row, push[p].batch, tx.first, push[p].digest)

\* Execution implements the abstract promise: its committed results and its
\* committed business work are those of MutationOutcomes, one group at a time.
Outcomes05 == INSTANCE MutationOutcomes WITH decided <- history, performed <- executions
ImplementsOutcomes == Outcomes05!Spec

============================================================================
