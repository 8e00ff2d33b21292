---------------------------- MODULE Publication ----------------------------
(***************************************************************************)
(* Transactions that publish record changes to the Streams tracking them:  *)
(* settle_changes (crates/server/src/settlement.rs) and the statements it  *)
(* runs in PostgreSQL (packages/backend/postgres/src/persistence.mts and   *)
(* sql.mts), the session that remembers the touched Streams across         *)
(* savepoints (packages/backend/server/bindings/session.mts, host.mts) and *)
(* the runners around them: backend.transaction and Mutation commit groups,*)
(* which the driver retries, and backend.publish inside a transaction its  *)
(* caller owns (packages/backend/server/api/backend.mts).                  *)
(*                                                                         *)
(* A step is one SQL statement, or the part of it that takes one row lock. *)
(* PostgreSQL is external: row locks are held to the end of the            *)
(* transaction or to the rollback of the savepoint that took them, a       *)
(* writer of a row that changed after its snapshot fails with 40001, and a *)
(* detected deadlock fails one of its members with 40P01.  Serializable is *)
(* modelled as snapshot isolation plus a failure that may strike at        *)
(* COMMIT: no property leans on the anomalies SSI would also refuse.       *)
(***************************************************************************)
EXTENDS Integers, Sequences, FiniteSets

CONSTANTS
    Stream, Record, \* numbers: their order is the canonical byte order
    Tx,             \* concurrent transactions
    Workloads,      \* what the transactions are asked to do, see Program
    GreatestHead,   \* the greatest Stream head (2^53 - 1 in the code)
    Retries,        \* withRetries: attempts after the first (3 in the code)
    NoTx            \* owner of a free row

Pair == Stream \X Record
Row == ({"stream"} \X Stream) \cup ({"record"} \X Record)

\* One call's declarations: tracked pairs, selected invalidations and the
\* records invalidated for every Stream that tracks them (the ones the call
\* changed included).  A member of a commit group is `refused` when a Loader
\* refuses it after its declarations were settled.
Settlement == [track : SUBSET Pair, selected : SUBSET Pair,
               global : SUBSET Record, refused : BOOLEAN]

\* grouped: a Mutation commit group, each member in a savepoint and in a
\* publication scope of its own; otherwise the settlements share one scope.
\* caller: the transaction belongs to the caller of backend.publish.
Program == [isolation : {"snapshot", "committed"}, caller : BOOLEAN,
            grouped : BOOLEAN, members : Seq(Settlement)]

ASSUME PublicationAssumption ==
    /\ Stream \subseteq Nat /\ Record \subseteq Nat
    /\ IsFiniteSet(Stream) /\ IsFiniteSet(Record)
    /\ \A f \in Workloads : \A t \in Tx :
        /\ f[t] \in Program
        /\ f[t].grouped \/ \A i \in 1..Len(f[t].members) : ~f[t].members[i].refused
    /\ GreatestHead \in Nat \ {0} /\ Retries \in Nat
    /\ NoTx \notin Tx

VARIABLES
    head,    \* committed head of each Stream, 0 where it has no row
    pos,     \* committed cursor of each tracked pair, 0 where not tracked
    owner,   \* the transaction that holds each row's lock
    program, \* what each transaction does
    tx,      \* each transaction: its statements so far and its session
    fresh    \* Streams that published each record since it last changed

publicationVars == <<head, pos, owner, program, tx, fresh>>

\* The order in which a statement takes its rows.
Least(S) == CHOOSE x \in S : \A y \in S : x <= y

Zero == [head |-> [s \in Stream |-> 0], pos |-> [p \in Pair |-> 0],
         cursor |-> [s \in Stream |-> 0], rows |-> {}, touched |-> {},
         changed |-> {}]

\* phase     the next statement: begin, read, streams, guard, reread, reserve,
\*           apply, finish, commit, then committed, done or failed
\* work      what the transaction has written, and its session's touched set
\* saved     the same at the member's savepoint
\* stale     rows that others committed since the snapshot
Fresh(n) == [phase |-> "begin", attempt |-> n, member |-> 1, work |-> Zero,
             saved |-> Zero, seen |-> [head |-> Zero.head, pos |-> Zero.pos],
             stale |-> {}, locked |-> {}, todo |-> {}, publish |-> {}]

\* A Stream's row exists once something was published to it: one of these
\* records, which it then tracks, or another.
PublicationInit ==
    /\ head \in [Stream -> {0, 1}]
    /\ pos \in [Pair -> {0, 1}]
    /\ \A p \in Pair : pos[p] <= head[p[1]]
    /\ owner = [w \in Row |-> NoTx]
    /\ program \in Workloads
    /\ tx = [t \in Tx |-> IF program[t].members = <<>>
                             THEN [Fresh(0) EXCEPT !.phase = "done"] ELSE Fresh(0)]
    /\ fresh = [r \in Record |-> {s \in Stream : pos[<<s, r>>] # 0}]

-----------------------------------------------------------------------------
(* What a statement of transaction t sees and may lock.                    *)

Member(t) == program[t].members[tx[t].member]
Snapshot(t) == program[t].isolation = "snapshot"

ViewHead(t, s) ==
    IF tx[t].work.head[s] # 0 THEN tx[t].work.head[s]
    ELSE IF Snapshot(t) THEN tx[t].seen.head[s] ELSE head[s]
ViewTracked(t, p) ==
    \/ tx[t].work.pos[p] # 0
    \/ (IF Snapshot(t) THEN tx[t].seen.pos[p] ELSE pos[p]) # 0

Free(t, w) == owner[w] \in {t, NoTx}
Conflict(t, w) == Snapshot(t) /\ w \in tx[t].stale

\* READ_TRACKING: every holder of the globally invalidated records, and which
\* of the explicit pairs are tracked.
Explicit(d) == d.track \cup {p \in d.selected : p[2] \notin d.global}
Tracking(t) ==
    {p \in Pair : /\ ViewTracked(t, p)
                  /\ p[2] \in Member(t).global \/ p \in Explicit(Member(t))}

Named(d) == {p[1] : p \in d.track \cup d.selected}
Records(d) == d.global \cup {p[2] : p \in d.track \cup d.selected}

\* The identities a settlement guards.  Mutant: only those it starts to track.
GuardsTracked(d) == {p[2] : p \in d.track}
Guards(d) == Records(d)

\* The pairs of a settlement whose position moves: a pair tracked for the
\* first time, and a tracked pair an invalidation selects.
Published(d, after) ==
    {p \in after \cup d.track :
        \/ p \notin after
        \/ p[2] \in d.global
        \/ p \in d.selected}

\* Holders that appeared after the locks were chosen.  Mutant: they are
\* published like the others.
NoneMissed(t, after) == {}
Missed(t, after) ==
    {p \in after : p[2] \in Member(t).global /\ p[1] \notin tx[t].locked}

\* The head a reservation increments: the row's newest version, under its lock.
\* Mutant: the head read when the transaction began.
BaseRemembered(t, s) ==
    IF tx[t].work.head[s] # 0 THEN tx[t].work.head[s] ELSE tx[t].seen.head[s]
Base(t, s) == IF tx[t].work.head[s] # 0 THEN tx[t].work.head[s] ELSE head[s]

-----------------------------------------------------------------------------
(* The end of an attempt.                                                  *)

\* ROLLBACK, or the rollback of a failed transaction: nothing stays locked.
Released(o, t) == [w \in Row |-> IF o[w] = t THEN NoTx ELSE o[w]]

\* withRetries runs a framework transaction again with a new session; the
\* caller of backend.publish sees the original error.
Retried(t) ==
    IF ~program[t].caller /\ tx[t].attempt < Retries
      THEN Fresh(tx[t].attempt + 1)
      ELSE [Fresh(tx[t].attempt) EXCEPT !.phase = "failed"]

Abort(t, next) ==
    /\ tx' = [tx EXCEPT ![t] = next]
    /\ owner' = Released(owner, t)
    /\ UNCHANGED <<head, pos, program, fresh>>

Active(t) == tx[t].phase \notin {"begin", "committed", "done", "failed"}

\* A phase takes its rows one by one and gives way to the next after the last.
Locking(t, phase) == tx[t].phase = phase /\ tx[t].todo # {}
While(todo, phase, after) == IF todo = {} THEN after ELSE phase

-----------------------------------------------------------------------------
(* One attempt, statement by statement.                                    *)

\* BEGIN and the statements that precede the first settlement.
Begin(t) ==
    /\ tx[t].phase = "begin"
    /\ tx' = [tx EXCEPT ![t].phase = "read",
                        ![t].seen = [head |-> head, pos |-> pos]]
    /\ UNCHANGED <<head, pos, owner, program, fresh>>

\* A group member opens its savepoint (the session copies `touched`), its
\* handler runs, and settlement reads the candidate holders.  A new member
\* has a publication scope of its own.
ReadTracking(t) ==
    /\ tx[t].phase = "read"
    /\ LET d == Member(t)
           w == IF program[t].grouped
                  THEN [tx[t].work EXCEPT !.cursor = Zero.cursor]
                  ELSE tx[t].work
           locked == Named(d) \cup {p[1] : p \in Tracking(t)}
           todo == {s \in locked : ViewHead(t, s) # 0}
       IN tx' = [tx EXCEPT ![t].work = w, ![t].saved = w, ![t].locked = locked,
                    ![t].phase = IF Records(d) = {} THEN "finish" ELSE "streams",
                    ![t].todo = todo]
    /\ UNCHANGED <<head, pos, owner, program, fresh>>

\* Take the lock of one row for t, or fail if the row is newer than the
\* snapshot.  The statement waits while another transaction holds the row.
Take(t, w, next) ==
    /\ Free(t, w)
    /\ IF Conflict(t, w) THEN Abort(t, Retried(t))
       ELSE /\ owner' = [owner EXCEPT ![w] = t]
            /\ tx' = [tx EXCEPT ![t] = [next EXCEPT !.work.rows = @ \cup {w}]]
            /\ UNCHANGED <<head, pos, program, fresh>>

\* LOCK_STREAMS locks the existing rows in canonical order and gives each a
\* new version.
LockStream(t) ==
    /\ Locking(t, "streams")
    /\ LET s == Least(tx[t].todo)
       IN Take(t, <<"stream", s>>, [tx[t] EXCEPT !.todo = @ \ {s}])
StreamsLocked(t) ==
    /\ tx[t].phase = "streams" /\ tx[t].todo = {}
    /\ LET todo == Guards(Member(t))
       IN tx' = [tx EXCEPT ![t].phase = While(todo, "guard", "reread"),
                           ![t].todo = todo]
    /\ UNCHANGED <<head, pos, owner, program, fresh>>

\* ENSURE_IDENTITIES: insert or touch each identity in canonical order.
GuardRecord(t) ==
    /\ Locking(t, "guard")
    /\ LET r == Least(tx[t].todo)
           todo == tx[t].todo \ {r}
       IN Take(t, <<"record", r>>,
               [tx[t] EXCEPT !.todo = todo,
                             !.phase = While(todo, "guard", "reread")])

\* The second READ_TRACKING, under the locks.  A holder of a globally
\* invalidated record outside the lock set restarts the whole transaction.
Reread(t) ==
    /\ tx[t].phase = "reread"
    /\ LET d == Member(t)
           after == Tracking(t)
           publish == Published(d, after)
           todo == {p[1] : p \in publish}
       IN IF Missed(t, after) # {} THEN Abort(t, Retried(t))
          ELSE /\ tx' = [tx EXCEPT ![t].publish = publish, ![t].todo = todo,
                            ![t].phase = While(todo, "reserve", "apply")]
               /\ UNCHANGED <<head, pos, owner, program, fresh>>

\* V05_RESERVE_CURSOR: one cursor per Stream and publication scope, reused
\* when the scope publishes to the Stream again.  A Stream at the greatest
\* head fails the transaction for good.
Reserve(t) ==
    /\ Locking(t, "reserve")
    /\ LET s == Least(tx[t].todo)
           todo == tx[t].todo \ {s}
           row == <<"stream", s>>
           base == Base(t, s)
           next == [tx[t] EXCEPT !.todo = todo,
                                 !.phase = While(todo, "reserve", "apply")]
       IN IF tx[t].work.cursor[s] # 0
            THEN /\ tx' = [tx EXCEPT ![t] = next]
                 /\ UNCHANGED <<head, pos, owner, program, fresh>>
          ELSE IF base = GreatestHead /\ Free(t, row)
            THEN Abort(t, [Fresh(tx[t].attempt) EXCEPT !.phase = "failed"])
          ELSE Take(t, row, [next EXCEPT !.work.head[s] = base + 1,
                                         !.work.cursor[s] = base + 1])

\* V05_APPLY_MEMBERS_BATCH writes the positions; the host then adds the
\* published Streams to the session's touched set.
Apply(t) ==
    /\ tx[t].phase = "apply"
    /\ LET w == tx[t].work
       IN tx' = [tx EXCEPT ![t].phase = "finish", ![t].publish = {},
                   ![t].work = [w EXCEPT
                       !.pos = [p \in Pair |-> IF p \in tx[t].publish
                                                 THEN w.cursor[p[1]] ELSE w.pos[p]],
                       !.touched = @ \cup {p[1] : p \in tx[t].publish},
                       !.changed = @ \cup Member(t).global]]
    /\ UNCHANGED <<head, pos, owner, program, fresh>>

\* Session.rollback and ROLLBACK TO SAVEPOINT: everything since the member's
\* savepoint is undone, the locks it took and the touched set included.
\* Mutant: the session keeps the Streams the member touched.
UndoneKeepsTouched(t) == [tx[t].saved EXCEPT !.touched = tx[t].work.touched]
Undone(t) == tx[t].saved

\* The member ends: refused, it is rolled back to its savepoint; the savepoint
\* is released and the next member starts, or the transaction commits.
Finish(t) ==
    /\ tx[t].phase = "finish"
    /\ LET w == IF Member(t).refused THEN Undone(t) ELSE tx[t].work
           last == tx[t].member = Len(program[t].members)
       IN /\ tx' = [tx EXCEPT ![t].work = w, ![t].locked = {}, ![t].todo = {},
                      ![t].saved = Zero,
                      ![t].phase = IF last THEN "commit" ELSE "read",
                      ![t].member = IF last THEN @ ELSE @ + 1]
          /\ owner' = [x \in Row |-> IF owner[x] = t /\ x \notin w.rows
                                       THEN NoTx ELSE owner[x]]
    /\ UNCHANGED <<head, pos, program, fresh>>

\* COMMIT: the writes become visible, the locks go, and every snapshot taken
\* before finds the written rows newer than itself.  The touched set was
\* copied out of the session before.
Commit(t) ==
    /\ tx[t].phase = "commit"
    /\ LET w == tx[t].work
       IN /\ head' = [s \in Stream |-> IF w.head[s] # 0 THEN w.head[s] ELSE head[s]]
          /\ pos' = [p \in Pair |-> IF w.pos[p] # 0 THEN w.pos[p] ELSE pos[p]]
          /\ fresh' = [r \in Record |->
                (IF r \in w.changed THEN {} ELSE fresh[r])
                    \cup {s \in Stream : w.pos[<<s, r>>] # 0}]
          /\ tx' = [q \in Tx |->
                IF q = t THEN [tx[t] EXCEPT !.phase = "committed", !.work.rows = {}]
                ELSE IF Active(q) /\ Snapshot(q)
                  THEN [tx[q] EXCEPT !.stale = @ \cup w.rows]
                ELSE tx[q]]
    /\ owner' = Released(owner, t)
    /\ UNCHANGED program

\* `run` wakes the subscribers of the touched Streams after the driver
\* resolved; the caller of backend.publish does it with the function it got.
Notify(t) ==
    /\ tx[t].phase = "committed"
    /\ tx' = [tx EXCEPT ![t] = [Fresh(0) EXCEPT !.phase = "done"]]
    /\ UNCHANGED <<head, pos, owner, program, fresh>>

-----------------------------------------------------------------------------
(* Failures PostgreSQL or the caller brings in.                            *)

\* The row the next statement of t waits for, if any.
Waits(t) ==
    {<<"stream", s>> : s \in
        {s \in tx[t].todo : /\ \/ tx[t].phase = "streams"
                               \/ tx[t].phase = "reserve" /\ tx[t].work.cursor[s] = 0
                            /\ s = Least(tx[t].todo)}}
    \cup {<<"record", r>> : r \in
        {r \in tx[t].todo : tx[t].phase = "guard" /\ r = Least(tx[t].todo)}}
Blockers(t) == {owner[w] : w \in Waits(t)} \ {t, NoTx}

\* A set of transactions each waiting for another of the set.
Deadlocked(S) == S # {} /\ \A t \in S : Blockers(t) \cap S # {}

\* 40P01: PostgreSQL breaks a deadlock by failing one member.
DetectDeadlock(t) ==
    /\ \E S \in SUBSET Tx : t \in S /\ Deadlocked(S)
    /\ Abort(t, Retried(t))

\* 40001 at COMMIT of a Serializable transaction: SSI found a dangerous cycle.
SerializationFailure(t) ==
    /\ tx[t].phase = "commit" /\ Snapshot(t)
    /\ Abort(t, Retried(t))

\* The caller rolls back the transaction it published in, and never wakes.
CallerRollback(t) ==
    /\ tx[t].phase = "commit" /\ program[t].caller
    /\ Abort(t, [Fresh(0) EXCEPT !.phase = "failed"])

Step(t) ==
    \/ Begin(t) \/ ReadTracking(t) \/ LockStream(t) \/ StreamsLocked(t)
    \/ GuardRecord(t) \/ Reread(t) \/ Reserve(t) \/ Apply(t) \/ Finish(t)
    \/ Commit(t) \/ Notify(t)

PublicationNext ==
    \E t \in Tx : Step(t) \/ DetectDeadlock(t) \/ SerializationFailure(t)
                    \/ CallerRollback(t)

PublicationSpec == PublicationInit /\ [][PublicationNext]_publicationVars

-----------------------------------------------------------------------------
(* Properties.                                                             *)

\* No viewer misses a change: a Stream that tracks a record has published it
\* in the transaction that last invalidated the record for all Streams, or
\* since.  Settlement reads the holders before it has any lock; the locks,
\* the second read and transaction.conflict close the race with a transaction
\* that starts tracking the record meanwhile (settlement.rs, settle_changes).
NoMissedInvalidation ==
    \A p \in Pair : pos[p] # 0 => p[1] \in fresh[p[2]]

\* A position that becomes visible lies above every head committed before, so
\* a reader that advanced to that head has not passed it by: cursors commit
\* in the order they were reserved (V05_RESERVE_CURSOR).
PositionsAboveHead ==
    [][/\ \A s \in Stream : head'[s] >= head[s]
       /\ \A p \in Pair : pos'[p] # pos[p] =>
              head[p[1]] < pos'[p] /\ pos'[p] <= head'[p[1]]]_publicationVars

\* A commit wakes exactly the Streams it published to: members rolled back to
\* their savepoint and earlier attempts leave no wake behind, and none is lost
\* (Session.touched, and `committed` in backend.mts run).
WakesMatchCommits ==
    \A t \in Tx : tx[t].phase = "committed" =>
        tx[t].work.touched = {s \in Stream : \E r \in Record :
                                tx[t].work.pos[<<s, r>>] # 0}

\* Transactions in their first settlement whose Streams all had rows to lock
\* never wait on each other in a circle: the canonical order of Streams, then
\* identities.  Deadlocks are left to commit groups and to first publications.
Orderly(t) ==
    /\ tx[t].member = 1
    /\ \A s \in tx[t].locked : \/ tx[t].phase = "streams" /\ s \in tx[t].todo
                               \/ <<"stream", s>> \in tx[t].work.rows
OrderlyNeverDeadlock ==
    \A S \in SUBSET {t \in Tx : Orderly(t)} : ~Deadlocked(S)

=============================================================================
