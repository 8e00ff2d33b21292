# Axton: a TLA+ model of its synchronisation core

Axton is a local-first data system. A frontend works on a SQLite Store through a
Rust client engine; a backend executes its mutations against PostgreSQL through a
Rust server engine embedded in a TypeScript host; a synchronisation protocol
carries mutations up and record positions down. This directory models the parts
of that system whose correctness depends on interleaving, retry, loss and
restart, checks the models with TLC on small instances, and proves with TLAPS, for
every instance, the server's mutation execution, the client's queue over it,
publication, the delivery planner, the live sessions, the client's Stream
authority and what an application transaction is told.

Everything is translated from the source; `PROJECT.json` gives, for each
definition, the lines it stands for. Names follow the source (`execute_claimed`,
`plan_units`, `handle05`, ...) where TLA+ allows it.

## 1. The system

### Parts

| part | state | operations | talks to |
|---|---|---|---|
| Mutation Batch execution (`crates/server/src/mutation_batch.rs`, `protocol_v05.rs`, `backend.mts push`) | the Store row (`owner`, `last_batch`, `progress`, current and last digest), saved results, a per-transaction copy of the row | claim, replay, begin, execute in a savepoint, save the group, acknowledge | PostgreSQL, host handlers, client queue |
| Store persistence (`crates/server/src/sql.rs`, `packages/backend/postgres`) | `axton_store`, `axton_mutation_result`, `axton_stream`, `axton_stream_record` | guarded UPDATEs, row locks, serialization retries | every server component |
| Client mutation queue (`crates/client/src/mutation_queue.rs`, `sync05/settlement05.rs`, `runtime/uplink.rs`) | queue rows, frozen Batch, `last_acknowledged_batch_id`, unreconciled members | enqueue, freeze, reconstruct and send, acknowledge, reconcile | server push, delta applier |
| Publication and tracking (`crates/server/src/settlement.rs`, `persistence.mts`, `sql.mts`, `session.mts`) | head of each Stream, cursor of each tracked record, the session's touched Streams | read the tracking, lock Streams and identities, read it again, reserve a cursor, write the positions, savepoints | PostgreSQL, mutation execution, planner, hub |
| Backend transactions (`backend.mts`, `driver.mts`) | one session per transaction, `WakeHub` | transaction, publish, push, retry, notify | publication, live sessions |
| Delivery planner (`crates/server/src/delivery_plan.rs`, `crates/protocols/src/sync/delivery.rs`) | none (a function of one snapshot) | candidates, components, page, units, coalesce, validate | live pulls, repair, Bootstrap |
| Live controller and connections (`crates/server/src/live.rs`, `connection/live.mts`, `bindings/node/src/server.rs`, `WakeHub`) | per socket: cursor, outstanding pull, noted commit; controllers opened; queued wakes; shutdown state | upgrade, admit, negotiate, listen, pull, dispatch, disconnect, close | planner, transactions, process events |
| HTTP listener (`listener.mts`, `http.mts`, `admission.mts`) | requests at work, shutdown state | accept, admit, execute, answer, shut down | backend transactions, live close |
| Delta applier and Stream authority (`crates/client/src/sync05/delta_applier.rs`, `authority.rs`, `settlement05.rs`) | S, B, C, the installed position of each record, durable progress of a partial plan | initialise, apply the next unit, replace, expire | downlink control, SQLite |
| Sync control and delivery queue (`crates/client/src/sync05/downlink.rs`, `delivery_queue.rs`) | staged deliveries, effects in flight, connection epoch, the last Store status, latches | offer, evict, request, push, schedule an Apply, refresh, retry, reconnect | server, Store worker |
| Store worker (`crates/client/src/runtime/mod.rs`, `bindings/common/src/actor.rs`) | two mailboxes, the durable Store | run a fenced job, report, drop an obsolete one | sync control, applier, mutation queue |
| Application transaction (`client-js/api/transaction.mts`, `local.mts`, `command-accounting.mts`, `actions.mts`, `bindings/bridge.mts`, `runtime/transactions.rs`) | the callback's frames and failures, the SQLite session with its savepoints, Call handles | begin, submit, `local`, savepoint, commit, roll back, close | bridge, actor, SQLite |
| Observers (`api/runtime.mts`, `model-watch.mts`, `subscriptions.mts`, `runtime/observers.rs`) | the runtime's watch and registration, the SDK's cache and handle | watch, publish a splice or a snapshot, recover, stop, subscribe, bootstrap, reset | bridge, Store |
| Client connection (`api/connection.mts`, `api/runtime.mts`, `actor.rs`, `runtime/lanes.rs`, `effects.rs`, `direct.rs`) | each thread's idea of the connection, effects, the `RefreshBroker`, direct calls with their deadlines | connect, pause, resume, call, refresh, refuse, cancel, close | three queues between SDK, control and worker |
| Reset and schema transfer, direct calls, prerequisites, cancellation | Store generations, queue edges | reset, transfer, cancel, dismiss | mutation queue |
| Schema, compiler, codecs, SDKs, SQLite adapter, simulator | data | pure transformations and adapters | all |

### How they interact

A client freezes one Batch of queued mutations, sends it until it is
acknowledged and only then freezes the next. The server executes a Batch in
commit groups, one SERIALIZABLE transaction each, under the Store's row lock;
each member runs in its own savepoint. A committed transaction moves the records
it published to the next cursor of their Streams and then notifies the process's
commit hub; every live session listening there is woken, pulls the page after its
cursor, and sends it as a frame. A publication first reads which Streams
track its records, locks them and the identities in canonical order, and reads
again. The client's Control stages pages from the live
socket, from HTTP repair and from Bootstrap, and asks the Store worker to apply
one unit at a time; the worker decides from the durable Store alone. An application's
SDK reaches the same worker through the bridge and the actor: its transactions,
watches, Stream handles, connection and direct calls are conversations over
queues, in which each side keeps its own account of what the other is doing.

### What is hard

* a push is several transactions, and any other push may run between two of them;
* every request may be retried after it was executed, wholly or in part;
* the in-memory copy of the Store row and the guarded SQL must agree;
* wakes, pulls and disconnects interleave at every await of `serveLive`;
* a page that claims coverage must carry everything it claims, under page limits,
  cursor ties and constraints that tie records together;
* deliveries from three sources overlap, repeat and arrive late, a plan may be
  interrupted between two units by a crash, a newer plan or expiry;
* sync control decides from the last report it heard; its jobs and the worker's
  reports cross in two mailboxes, both fenced by an epoch and a Store context that
  either side may already have left;
* an invalidation must reach a Stream that begins to track the record at the same
  time, and publications lock rows of several Streams;
* an application's callback may catch what failed, leave commands unawaited, nest
  savepoints and end in any order; SDK and worker count failures separately and
  must agree on the outcome;
* SDK, control and worker learn of a connect, a refusal, a refresh or a close at
  different times, and each may act before it does;
* shutdown must wait for everything that owns a transaction and for nothing else.

`PROJECT.json` lists each of these at its line (`hazards`), with the properties
aimed at it.

## 2. Modules

```
MutationOutcomes                       what execution promises
      ^ implemented by
MutationBatch  <-- MutationSync        the server alone; with the client's queue
      ^              ^ theorems: MutationSyncProofs
      |---------------------- MutationBatchProofs
Publication    <-- PublicationProofs   concurrent transactions that publish
LiveDelivery   <-- LiveDeliveryProofs  sockets, HTTP requests, hub, shutdown
DeliveryUnits  <-- DeliveryPlanning    the planner; every plan it can answer
      |               ^ theorems: DeliveryPlanningProofs
      | keeps (DeliveryPlanningProofs); as PlanOf (MCStores)
DeliveryContract                       what a plan promises a Store
      ^ assumed by
StreamStore    <-- StreamStoreProofs   the Stream and one Store; theorems
SyncControl    <-- SyncControlProofs   Control, its mailboxes and the Store worker
AppTransaction <-- AppTransactionProofs  one client transaction, SDK to SQLite
ClientObservers \
                 MCClientIO            watches and Stream handles; the connection
ClientConnection/
```

### MutationBatch

Models `execute_claimed`, `process_batch_group`, `Store::{saved,save}`, the
statements `V05_STORE_INSERT`, `V05_BATCH_BEGIN`, `V05_RESULTS_SAVE`, and
`backend.push`. `row` and `results` are the committed tables; `tx` is the open
group transaction with its own view of both and the Rust copy `mem` of the row;
`push[p]` is one call of `backend.push`. The row lock makes at most one group
transaction of a Store open, so `tx` is one record; everything between two groups
interleaves. `Claim`, `Replay`, `Execute`, `Refuse`, `HandlerDefect` and
`CommitGroup` are the steps of a group, `Restart` the driver's retry after a
serialization failure, `Stop` the end of a process, connection or retry budget,
and any refusal decided outside the Store row. `executions` and `history` are
history variables: how often a member's business work was committed, and every
result ever committed.

A digest stands for the frozen content; it fixes the number of members
(`CountOf`), as the digest in the code covers the mutations.

### MutationOutcomes and MutationSync

`MutationOutcomes` is the promise: members are decided once, Batch by Batch and
in order, a contiguous group at a time, and accepting a member performs its work
in the same step. `MutationSync` adds the client: `freeze05`,
`reconstruct_batch05`, `acknowledge05`, `reconcile_ready05` and the settlement
owned by the server (`process_materialization05`). A request is any number of
pushes of the frozen Batch, a reply may arrive at any later time or never.

### Publication

Transactions that run `settle_changes` against each other. A step is one SQL
statement, or the part of it that takes one row lock; `tx` holds a transaction's
snapshot, its writes and locks, and its session's touched Streams with the copy
each savepoint keeps. A `Program` is what a transaction is asked to do:
`backend.transaction`, a Mutation commit group (a savepoint and a publication
scope per member, one of which a Loader may refuse), or `backend.publish` in a
transaction its caller owns, at Read Committed. `ReadTracking`, `LockStream`,
`GuardRecord`, `Reread`, `Reserve` and `Apply` are the steps of a settlement, `Finish`
the end of a member; `SerializationFailure` and `DetectDeadlock` go through
`withRetries`.

PostgreSQL is external. Row locks last to the end of the transaction or the
rollback of the savepoint that took them; a row newer than the snapshot fails its
writer with 40001; a cycle of waiters fails one with 40P01. Serializable is
snapshot isolation plus a failure that may strike at COMMIT: no property leans on
the anomalies that would also be refused.

### LiveDelivery

One step is one JavaScript callback; transactions run between callbacks. `sock`
holds a session and its controller (`handle05` as the operators `Committed` and
`Pulled`), `wakes` the queued microtasks of `WakeHub`, `pulls` the admitted pulls
with the snapshot they read, `registry` the native controllers, `http` a request
of the listener (admitted, at work, committed and not yet notified), `server` the
shutdown, which drains requests, upgrades and sessions. Commits of other processes, and external publications whose wake is not
called, move the head without a notification. A page ends anywhere between
its cursor and the head it read, as pages may be full; a pull may itself publish,
because Loader preparation may.

### DeliveryUnits and DeliveryPlanning

`DeliveryUnits` has no state: candidates with the bounded query's ties, the
components joined by a cursor, a unique constraint or a cascade, the page, the
units and their coverage, coalescing, and `DeliveryHeader::validate`.
`DeliveryPlanning` serves any request over any positions and schema and installs
the plan unit by unit. Digests, transport fragments and record payloads are left
out: a record's content is fixed by the cursor it was published at.

A component is stated by what `union` and `root` compute, not by how: the
smallest set around a record that splits no class of tied records. Likewise the
components are ordered by counting those that begin earlier. Both are what the
proofs reason about, and TLC evaluates the same definitions.

### DeliveryContract and StreamStore

The Stream (`head`, `pos`), every plan answered so far, and the Store: S
(`start`), B (`boot`), C (`cursor`), `held`, and the partial plan of each lane.
`ApplyUnit(id, i)` may be tried at any time for any plan and unit, which covers
every order, repetition and interruption the transport, Control or a restart can
produce; `apply_next_delivery05` decides. The planner is the constant operator
`PlanOf` with the contract `PlanContract` of `DeliveryContract`, assumed in
`StoreAssumption`. The run gives it the planner of `DeliveryUnits`, TLC evaluates
the assumption for it, and `PlannerKeepsContract` proves it of that planner.

### SyncControl

Control (`ctl`) never touches the Store. Each turn answers one input and is one
action: an effect's outcome (`HandshakeAnswered`, `DeltaAnswered`,
`OwnedAnswered`, `PushAnswered`, the socket's events, `RetryFires`,
`ExpireFires`, `Refreshed`, `EffectFails`, `Unauthorized`, `Refused`), a report
(`HearReport`), or the host (`HostConnect`, `HostReconnect`, `HostStop`,
`HostWake`). A turn ends by sending its jobs to the worker (`mail`), each fenced
with the turn's epoch and context. `Work` runs the first job against `store` and
reports; `WorkObsolete` answers a job whose fence is old; `WorkFails` is a SQLite
error. `Submit` and `Reset` are the application, `Restart` a new process on the
same Store, with every request lost.

* Epoch numbers are compared only for equality with the current one, so a job or
  report carries a flag `old` that every new epoch sets.
* A unit of a page is one cursor. Contents, digests and byte sizes are left out;
  whether a delivery fits the queue's bytes, and which speculative ones it
  evicts, is a free choice under the fault `capacity`.
* A Batch is in one of three stages, `frozen`, `owed` (acknowledged, waiting for
  its target's authority or its Stream fence) and `idle`; the server executes a
  pushed Batch whether or not its answer arrives (`PushLost`).
* `Opened` says which files a behaviour begins with: a `new` one; one reopened
  with a `changed` read contract, for which a schema transfer goes ahead of
  everything else; or one whose first Batch was `sent`, executed and published,
  and not yet acknowledged when the process ended.
* A fault is one of `FaultKinds` and `Faults` says which a run has. `slow` is a
  retry timer that fires before the worker has drained its mailbox: the timer
  waits half a second at the least, so this counts as a fault. Host events other
  than the first connect count as `lifecycle`.

### AppTransaction

One transaction of a client. The callback is any program: every piece that runs
on its own (the callback, a savepoint's body, a Mutation's `local` callback) is a
fiber, which issues commands, awaits them or not, catches failures or not and
ends well or badly. `sdk` is the `Transaction` object with its command
accounting, `bridge` and `out` the bridge and the events it has not dispatched,
`mail` and `wk` the worker with its session and savepoints, `durable` what SQLite
committed, `handle` the Calls. The client may close and the worker panic at any
step. Commands differ only in what the accounting tells apart: a submission, one
with a `local` callback, a write inside it, a savepoint. The worker runs one input
to its end before it publishes the events, so its steps are whole inputs.

### ClientObservers and ClientConnection

`ClientObservers` has a watch and the handle of the bound Stream. The runtime
publishes versioned splices or whole results; the receiver applies a splice to
its cache only if the version continues, asks for a snapshot when a decode threw,
and ignores patches until it has one. The handle survives Store resets, which close its
registration while `subscribe` and `bootstrap` tasks are on their way.

`ClientConnection` has the SDK, the control thread and the worker with the three
queues between them. Control's requests are represented by its handshake and its
socket, what they deliver being `SyncControl`'s subject. `RefreshBroker` shares
one `refreshAuth` of the host between Control and direct calls; a direct call has
an HTTP effect, a deadline, and at most one retry after a refresh, and its answer
waits for its unit of the lane (`Ready::ApplyDirect`), behind an open transaction
too; a stop lets an answer that has arrived apply. The SDK's
`connect`, `close`, `pause` and `resume` and the effects it runs are actions; so
are a refusal, a failure and the end of a transaction that held the worker.

A direct call that stores its answer waits for a Store that has not had its first
handshake, and every direct call for one whose read contract changed
(`runtime/tasks.rs:222`): it is parked without a request and without a
deadline (`worker.parked`, `Waits`), until Initialize or the Apply that ends the
transfer puts it back at the front of the queue, or a stop or close fails it.
`worker.lacks` is what the Store still lacks. Initialize is the Store job that
Control's answered handshake sends, under the epoch of that moment; a later
handshake or stop fences it (`Fence`). `ApplySchema` stands for the whole owned
exchange, which `SyncControl` has. A reset, which fails the parked calls as well,
is not in this module.

Neither touches the other's state: `MCClientIO` takes either an application that
observes or one that connects. `MCStores` (`MutationBatch` or `StreamStore`) and
`MCServerStreams` (`Publication` or `DeliveryPlanning`) put two components
into one run in the same way: `part` says which of the two a behaviour is of,
and the other one's variables keep their initial values.

## 3. Runs

| run | instance | states | shows |
|---|---|---|---|
| `stores` | a Store's row at the server: 2 pushes, 2 principals, contents of 2 and 3 members, one with a defective handler, groups of 2, 2 Batches, symmetry on pushes; or its file at the client: 3 records, one outside Bootstrap, head up to 3, 2 plans of the real planner | 721 k | `ExactlyOnce`, `AnswersCommitted`, `DecidedInOrder`, `ResultsRetained`, `StatementsMatch`; `Coverage`, `Converged`; action property `NoRegress`; deadlock is checked of the pushes |
| `mutation_sync` | the same server under one client, 2 faults | 87 k | `OwnedResultsRetained`, `RecordedIsCommitted`; liveness `EveryBatchAnswered`; refinement `ImplementsOutcomes` |
| `handler_defect` | the same with a handler that throws | violation | finding 1 |
| `server_streams` | transactions that publish: 2 Streams, 2 records, any two of five programs, and three publications around one record, 1 retry; or a delivery request: 4 records of 2 Models, head up to 3, all schemas, selections, positions and ranges, pages of 3 | 742 k | `NoMissedInvalidation`, `WakesMatchCommits`, `OrderlyNeverDeadlock`; action property `PositionsAboveHead`; `PlansValidate`, `PrefixProven`, `ComponentsAtomic`, `PagesProgress` |
| `live_delivery` | one socket with head up to 2, one beside HTTP requests, two sockets; 1 failed negotiation, 1 failed pull | 200 k | `NoLostWakeup`, `FramesContiguous`, `ReleasedIsDrained`; liveness `CommitsDelivered`, `CloseResolves` |
| `sync_delivery` | Bootstrap and Sync up to head 2, 1 fault of any of the 12 kinds | 340 k | `OneCursorRequest`, `LatchesReleased`, `NoForeignWork`; liveness `CatchesUp` |
| `sync_batches` | a Batch sent before the file was opened and one more, or a changed read contract with nothing to send; head up to 1, 1 fault: a lost answer, refused credentials, a host event, a restart or a reset | 885 k | liveness `WorkDrains`, `TransferEnds` |
| `transfer_freeze` | a changed read contract, 1 mutation, no fault | violation | finding 2 |
| `push_order` | a Batch sent before the file was opened and one more, 3 faults among refused credentials and host events | violation | finding 3: `PushBehindOwners` |
| `app_transaction` | 3 commands, 1 of them unawaited, 1 event undispatched, 1 engine failure or panic | 1018 k | `ResolvedIsDurable`, `RejectedIsUndone`, `HandlesAgree`; liveness `EverythingSettles` |
| `client_io` | a watch of 2 keys with 2 commits and 1 failed read, or a Stream handle with 2 bootstrap calls and 1 reset; or one of ten loads of a connection, with one call that stores its answer and one that does not | 259 k | `ObserversConverge`, `ConnectionAgrees`; liveness `StoppedIsReleased`, `ConnectionSettles` |
| `refused_call` | a refused direct call beside a handshake that failed, or beside a call that waits for the Store | violation | finding 4: `RefusalStops` |

What the properties of the newer runs say, in short:

* `NoMissedInvalidation`: a committed Global invalidation moved the record in every
  Stream that tracks it, also where tracking began while it ran.
  `PositionsAboveHead`: a committed position lies above every head committed
  before it, so no reader has passed it. `WakesMatchCommits`: exactly the Streams whose
  positions a transaction committed are woken, refused members and failed
  attempts left out. `OrderlyNeverDeadlock`: transactions in their first
  settlement, whose Streams all had rows to lock, never wait on each other in a
  circle; deadlocks are left to later members of commit groups and to first
  publications, and the driver retries them.
* `ResolvedIsDurable`: a transaction whose promise resolved is committed with
  everything the callback was told had succeeded and nothing of a savepoint that
  failed. `RejectedIsUndone`: a rejected one left nothing behind, unless the
  worker panicked behind its COMMIT. `HandlesAgree`: a Call reports what became of
  its Mutation. `EverythingSettles`: the promise, every command and the close settle.
* `ObserversConverge`: once the queues are empty the listener's rows are the
  Store's, the handle's status is the load's, and no bootstrap call waits for a
  complete load. `StoppedIsReleased`: the runtime gives a stopped watch up and the
  bridge its route. `ConnectionAgrees`: with empty queues the three threads agree on
  whether there is a connection and which effects run, a call waits for the Store
  only with a connection and for something it lacks, and once `close()` has
  resolved nothing is left. `ConnectionSettles`: a direct call that need not wait
  for the Store settles, because its deadline outlives its request, its refresh
  and its connection; a call that waits for the Store settles once the
  connection is gone; `close()` resolves. It is not claimed that a waiting
  call settles while the connection stands: it has no deadline, and a handshake
  nobody answers keeps it for ever
  (`bindings/common/tests/protocol05_runtime.rs:431` expects it to wait).

Every property of a passing run has a mutant in `PROJECT.json`: an altered definition under which
TLC finds it violated.

### Bounds and why they are enough

* Batches of three members with groups of two make a full group, a short last
  group and a Batch that ends with its group. Two Batches are needed for pruning
  and for stale retries of the previous Batch. Two pushes give every interleaving
  of a retransmission with the original; a third only waits for the same lock.
* `MaxFaults` bounds lost replies, restarts and stops in the runs that check
  liveness; a fault is possible at every step, and two allow a fault during the
  recovery from the first. `stores` has no such bound.
* Sockets share only the hub and the shutdown. Two show that one session's pull
  wakes another; HTTP requests are a second source of commits and of work that
  shutdown waits for, and meet one socket.
* In `server_streams` two transactions give every race of a tracking with an
  invalidation and of two reservations; the third workload is the cycle that a new
  holder of a record could close. Heads go to 4, more than the workloads reserve.
* In `app_transaction` three commands allow a savepoint in a savepoint with a
  submission inside, a `local` callback with a write, and a sibling that runs
  unawaited beside a savepoint.
* In `client_io` the values include one on which the application's decoder
  throws. Each load of the connection combines few events that meet: a call and
  Control refused at once, a resume that crosses a refusal, two connections with a failure,
  `close()` with a transaction and a call under way, two pauses, and calls that wait
  for the first handshake or a changed contract: refused while the connection or
  the client closes, beside a call that does not wait, over two connections, behind
  a transaction.
* The planner's interesting cases (a tie at the page's end, a component larger
  than a page, a component that begins past the range, a cut bounded query) need
  four records and pages of three. The code has two literals, both 500, for the
  page and for a coalesced unit; with equal values a page without an oversized
  component is one unit. The runs take a smaller `UnitTarget`, so that plans of
  several units, which the code otherwise meets only with larger pages, occur.
* In `stores` two plans suffice for a replacement, a repetition, an overlap
  and a Sync plan against a Bootstrap plan. The proof removes the bound.
* `SyncControl`: head 2 lets Bootstrap have a page and its successor while Sync
  has a gap; `MaxIds` plan identities exceed what the queue may hold of distinct
  deliveries (`Slots`), so that offers are refused and evicted; `MaxMail` keeps
  the network from answering while that many jobs and reports wait, and the runs
  still reach jobs and reports of an earlier epoch. `MaxFaults` is as in
  `MutationSync`. Two Batches over a moving head are too many states from a
  new file; `sync_batches` begins with the first Batch executed at cursor 1, so
  that its settlement waits for the Stream fence, for authority or for neither,
  and the second Batch waits for it.

### Fairness

* `LiveDelivery`: the event loop runs queued callbacks, transactions end, a
  closed connection is observed. Nothing is assumed of peers, commits or close:
  they happen when they will.
* `MutationSync`: the uplink keeps sending the frozen Batch (its retry timer),
  the server serves, a reply that is not lost arrives, settlement is retried. The
  number of faults is finite; with infinitely many no such system answers.
* `SyncControl`: weak fairness of the worker and of the control thread, which are
  loops over their mailboxes; strong fairness of `Answer`, what time and the
  network bring (an effect's answer, a timer, the server's live announcement),
  because another turn may replace a request and `MaxMail` may hold it back.
  The threads' fairness is stated of their mailboxes (`Serves`, `Hears`), and
  `AnswerOwed` is written out in place of the ENABLED of `Answer`, which TLC would
  have to find by enumerating every turn.

* `AppTransaction`: weak fairness of `Progress`: promises and threads run, and a
  fiber that waits for nothing ends. Nothing makes the application issue a
  command or close, and nothing panics of necessity.
* `ClientObservers`: the runtime runs its tasks and the SDK dispatches its events.
  `ClientConnection`: the three threads run their queues, a deadline fires, a
  close that owes nothing finishes and an open transaction ends. The network and
  `refreshAuth` may stay silent for ever; the deadline is what settles a call
  that was sent, and nothing makes the Store get what it lacks.

### Findings

1. `handler_defect`. A handler error that is no business rejection aborts the
   whole commit group and fails the push, so the client sends the same Batch for
   ever; the backend documentation says that call alone is rejected with
   `handler.failed`.
2. `transfer_freeze`. A Freeze sent while the Apply of a schema transfer is at the
   worker carries the old context, is answered Obsolete, and `freezing` is never
   released: ready mutations are not pushed until the next handshake, stop or
   failure, with the connection up. The guarantees say "Independent ready work
   can proceed."

3. `push_order`. A Push can leave beside the owner it makes the server prune. The
   socket and the owned request of Batch 1 wait for one refresh while a page
   settles Batch 1. The refresh resends the socket first, which is a handshake
   (`downlink.rs:439`): it clears `wake_after_needs`, the report of that commit is
   dropped as one of the old epoch, and the owned request goes out again. A host
   that calls `connection.wake()` (`runtime.mts:678`) before the handshake's Needs
   freezes Batch 2, and `Frozen` sends its Push. The test
   `crates/sqlite/tests/protocol05_downlink.rs:2496` asserts that the "old owner
   must be canceled before new Batch can prune its result". The trace has 32 steps
   and needs two refused credentials and a wake in this order; the attempt
   to prove `PushBehindOwners` is what showed it.
4. `refused_call`. `refused()` (`runtime/effects.rs:175`) ends a refused direct call
   with `stop_lanes()` and nothing else. Control is not told, so its backoff goes on
   and starts the next handshake, against handlers the SDK has taken
   away; and the calls parked for the Store are neither released nor failed, as
   a stop would (`runtime/lanes.rs:47`). Its comment says "the connection stops as
   `stop` stops it - no credential refresh, no backoff, no reconnect" and "every
   other call still out fails unavailable", and
   `website/docs/frontend/runtime.md:196` "nothing is retried". The two loads of the
   run are one for each half; either alone violates `RefusalStops`.

The same window as in finding 2 has a second effect, listed among the hazards and
without a run of its own: when a new epoch begins while the Committed report of the transfer is
on its way, Control drops the report and keeps the old context; every later job
is Obsolete and nothing brings the new context. `CatchesUp` shows it with
`Opened = {"changed"}`, `MaxHead = 1`, `MaxFaults = 1` and `Faults = {"lifecycle"}`,
against "pending work resumes when connectivity recovers" (guarantees.md).

Divergences met while modelling that have no run:

* `negotiate_live` opens its controller inside a transaction body that the driver
  may run again (`bindings/node/src/server.rs:104`), and only the last handle is
  closed; line 62 says "one `Subscriptions` per socket". `ReleasedIsDrained` bounds
  what is left by the failed negotiations.
* A `resume()` that crosses a refusal (`actor.rs:758`) starts Control again while the
  runtime's connection and the SDK's are gone, with the effect of finding 4. A
  later refusal may then retire the new connection. `ConnectionAgrees`
  excludes behaviours in which this or finding 4 has happened
  (`stray = "stray"`), except for what `close()` leaves behind.
* A `connection.close()` that crosses a refusal rejects with "connection not
  active", and a `connect()` behind an un-awaited `close()` may for a moment run an effect
  of the old connection with the new handlers.
* A COMMIT whose acknowledgement is lost is durable and wakes nobody
  (`backend.mts:592`); subscribers learn of it with the next commit of the Stream
  or when they reconnect.

## 4. Proofs

### Mutation execution (`MutationBatchProofs`)

For every set of pushes, principals and contents, every member count, group size
and bound on Batches:

* `BatchTypes`: `TypeOK`;
* `DecidedExactlyOnce`: `ExactlyOnce`;
* `OrderKept`: `DecidedInOrder`;
* `GuardsMatch`: `StatementsMatch`;
* `RetriesFindResults`: `ResultsRetained`;
* `AnswersAreCommitted`: `AnswersCommitted`;
* `ExecutionImplements`: the specification implements `MutationOutcomes`.

The only assumption is `BatchAssumption`: member counts and the group size are
positive and the three markers of absence are not values.

`ExactlyOnce` is not inductive: it does not say which members are decided. The
inductive invariant `BatchInv` says what the row counts (`RowCounts`: whole
Batches up to `last`, then `progress` members of the next under the row's
digest), that the open transaction's row is the committed one because nobody else
writes it while it is locked (`LockHeld`, `TxRow`), and that its memory copy is
ahead of it by exactly the pending members, each with one pending result and
with business writes if and only if accepted (`TxPending`). A commit then adds
results of the Batch after `last` from `progress` on, where nothing is decided
(`CommitFacts`). This is also why a commit maps to one `Decide` of the abstract
specification (`CommitDecides`) and every other step to a stutter.

`AnswerInv` is a second invariant proved over the first: what the transaction
sees of the saved results (`TxResults`), and that pushes and the transaction hold
an answer to every member they have passed (`PushAnswers`, `TxAnswers`).

### Stream authority (`StreamStoreProofs`)

For every set of keys, every selection of Bootstrap Models, every bound and every
planner that keeps `PlanContract`:

* `StoreTypes`: `TypeOK`;
* `CoverageProven`: whatever the current position of a record, if C or B claims it
  the Store holds exactly that position (guarantees A2 and D9);
* `CursorsStayOrdered`: B <= S <= C <= head;
* `CompleteIsConverged`: with both lanes complete the Store agrees with the Stream;
* `NothingRegresses`: the action property that S is stamped once and that C, B and
  every installed position only advance (D2).

`StoreAssumption`: the Bootstrap keys are keys, the bounds are natural numbers,
and the planner keeps its contract, which is a theorem of the real one
(`PlannerKeepsContract`, below).

`Coverage` alone is not inductive: a unit's coverage may be claimed only because
of units installed earlier, from a plan read before records moved on. `StoreInv`
adds

* `Positions`: no position passes the head and the Store holds none the server
  has not given;
* `PlansCurrent`: an answered plan stays truthful while the Stream moves on: a
  record is either where the plan read it or has moved past the plan's range, and
  every unit's coverage is carried by it and the units before it;
* `ProgressInstalled`: the units counted by the durable progress of a lane are
  installed at the plan's positions or later;
* `Uninitialized`: nothing is requested or installed before S is stamped.

A publication keeps it because new positions are past every plan's range
(`PlanOutlived`). A unit keeps it because a claimed record either was claimed
before, since the plan begins at or below what the lane reached, or is in this
unit or an earlier one, and installing never lowers a position (`InstallRaises`).
There is one lemma per action in both modules.

### The planner (`DeliveryPlanningProofs`)

For every finite set of records, any schema, selection, positions and range, and
every page size and unit target:

* `PlansValidateAlways`: `PlansValidate`;
* `PrefixProvenAlways`: `PrefixProven`;
* `ComponentsAtomicAlways`: `ComponentsAtomic`;
* `PagesProgressAlways`: `PagesProgress`;
* `PlannerKeepsContract`: the plan for either lane keeps `PlanContract`, so that the
  theorems of `StreamStoreProofs` hold with the server's own planner.

Assumptions: `UnitsAssumption` (the records are finite, a page holds at least one)
and `PlanningAssumption`.

The invariant of the specification is small (`PlanInv`: the plan is the delivery
of a legal request). The work is in what a delivery is, and follows its making:

1. `CandidatesComplete`: what the query found is complete up to the reach, and
   contains every tie of whatever it contains, also when a bounded query was cut;
2. `ComponentIsClosed`, `ComponentsDisjoint`, `GroupsAreOrdered`: components split
   no class, are disjoint and cover the candidates, and ranking them by their first cursor
   enumerates them in ascending order. Two components cannot begin at the same
   cursor, because a cursor is itself a class (`RanksEnumerate`, by counting);
3. `PageIsComplete`: the page is a union of leading components, and its end
   lies below the first component that was left out, so nothing up to the end is
   missing. The first component is always taken, which is why a page progresses;
4. `PlanUnitsCarry`: the coverage of each unit lies below everything carried later
   (`BoundaryIsBelowNext`), coverages ascend and only the last one ends the range;
5. `CoalesceCarries`: packing keeps all of this. `Packed` is the invariant of the
   recursive function, and it holds at every length because there is no least
   length at which it fails (`LeastNatural`);
6. `ClassesStayWhole`: a class of newer records that meets the page lies in it. A
   bounded query leaves out whole cursors and there are no other classes; any other
   query leaves out nothing.

`Delivers` collects the result, and `UnitsProve` turns it into the form the four
properties and the contract use.

### The client's queue over the server (`MutationSyncProofs`)

For every number of pushes in flight, every content and every bound:

* `UnsettledResultsSaved`: `OwnedResultsRetained`;
* `RecordsAreCommitted`: `RecordedIsCommitted`;
* `SyncImplementsBatch`: the composition implements the server's specification,
  because a frozen Batch is a request the server admits and every other step of
  the client leaves the server alone. The server's two invariants carry over
  step by step;
* `SyncImplementsOutcomes`: hence it implements `MutationOutcomes`.

Assumptions: `BatchAssumption`, and `SyncAssumption` (the client is one of the
owners).

That the server keeps what the client needs depends on both never being more
than one Batch apart, which neither side states. `SyncInv` does: no push still in
flight is ahead of the client (`PushesOfClient`), and the row has completed what
the client acknowledged and is at most the frozen Batch ahead (`RowFollows`). A
Batch is pruned when the one after it begins, which the client freezes only
once nothing is unsettled (`ClientTypes`). A complete answer says that the server
has passed the Batch, and all of its members are then committed
(`AnsweredIsComplete`); this is what lets the acknowledgement advance.

### Publication (`PublicationProofs`)

For any finite sets of Streams and records, any transactions and workloads, any
number of retries and any greatest head:

* `NoInvalidationMissed`: `NoMissedInvalidation`;
* `CommitsWakeTheirStreams`: `WakesMatchCommits`;
* `PositionsCommitInOrder`: the action property `PositionsAboveHead`;
* `OrderlyTransactionsNeverDeadlock`: `OrderlyNeverDeadlock`.

`PublicationAssumption`: Streams and records are finite sets of numbers, the
order in which the SQL takes their locks; workloads are programs, and only a
commit group has members that may be refused.

`PublicationInv` describes each transaction by itself (`Underway`) and connects
them through the locks (`LocksHeld`: a row's owner is the transaction that wrote
it). What is written, and what the savepoint keeps, lies above the committed head on
locked rows (`Ahead`); which statements have run says which locks are held
(`Progress`); a snapshot that does not show a tracking has been told that the
record's row is newer, and holds no such row (`SnapshotKnows`). An
invalidation guards the identity before its second read. If another transaction
committed a tracking in between, a Read Committed reader sees it, and a snapshot
holds a stale row, which its guard would have refused (`RereadSees`); if the
other has not committed, it does not hold the identity and will find the
invalidation's position. So every holder is published, and stays so
until the commit (`CommitKeepsOther`).

`OrderlyTransactionsNeverDeadlock` needs `InOrder`: in its first settlement a
transaction waits for a Stream above every Stream it holds, while it holds no
identity, then for an identity above every one it holds. In a circle the owner of
the greatest identity waited for would wait for a greater one; so none
waits for identities, and the same argument excludes Streams.

### Live sessions (`LiveDeliveryProofs`)

For every number of connection slots, every load and every bound:

* `WakeupsKept`: `NoLostWakeup`;
* `FramesAreContiguous`: `FramesContiguous`;
* `ReleaseIsDrained`: `ReleasedIsDrained`.

`LiveAssumption` types the bounds and loads.

`NoLostWakeup` speaks of sessions with nothing under way; the invariant says of
every connected session who still owes it the commits it has not been sent
(`CommitsOwed`): a notification that is due, a queued wake, a noted commit, a pull
that has not read, or one whose transaction saw them. Each step hands the debt on.
A wake that meets a running pull sets `pending`, and a pull that ends short of
what it observed, or with `pending` set, is followed by another
(`PullDispatchesKeepsInv`). This needs that a controller has at most one pull,
which begins at its cursor (`OnePull`), and that pages stay between their cursor
and the head they read (`PagesWithinHead`). `Drains` says that after `close()`
nothing connects and everything left is among what it awaits.

### Application transactions (`AppTransactionProofs`)

For every number of commands, unawaited commands, queued events, engine failures
and panics, and whatever the callback does:

* `RejectionIsUndone`: `RejectedIsUndone`;
* `HandlesTellTheTruth`: `HandlesAgree`;
* `AppInvariant`: the inductive invariant `AppInv` itself.

`AppAssumption` only says that the bounds are natural numbers.

Neither property is inductive, because the application learns of a commit from a
queue, after the fact and only if the runtime does not end first. `AppInv` says

* of the promise, that it is answered by the end of the one session there is
  (`OneSession`, `TaskTold`): a rejection, said or on its way, means that no
  session is open or will be, and a commit is followed by its answer unless the
  worker panicked;
* of the session, that its calls and its writes match, and that every savepoint
  and the running Mutation callback cut both sequences at the same moment
  (`SessionMatched`, `Cut`): a rollback then undoes exactly the calls it
  announces;
* of a Call said rolled back, or about to be, that nothing the worker has
  done or will do makes it durable (`Dead`): its command has been taken, or the
  runtime has ended, and it is neither in the session nor in SQLite. This is
  stable only because a command is sent once (`CommandsOnce`);
* of a durable Call, that its commit lies behind its answer in the event queue
  (`CommitFollows`), and that the end is the last event (`EndIsLast`): what the
  bridge still finds provisional once it has dispatched the end was not committed, so
  discarding it is right.

The steps of the worker share one lemma (`WorkerKeepsInv`: take an input, publish
events that are true of the new state), those of the SDK and the bridge
another (`ApplicationKeepsInv`).

### Control (`SyncControlProofs`)

For every head, number of mutations, plan identities, staging slots and mailbox
size, any faults of any kind and in any number, and every file it may be opened
with:

* `OneCursorSlot`: `OneCursorRequest`;
* `NothingForeign`: `NoForeignWork`;
* `ControlInvariant`: the inductive invariant `ControlInv` itself;
* `LatchesReleasedAlways`: `LatchesReleased`, for a Store opened with the read contract
  it has (`Opened \subseteq {"new", "sent"}`).

`ControlAssumption` types the bounds.

A cursor request is sent only when none is in flight, but a 401 takes it out of the
flights, where only the waiters remember it, and a refresh sends all waiters
again, one of which may be a socket whose handshake cancels what was just resent.
`Single` therefore counts flights and waiters together, and the waiters among
themselves. `NoForeignWork` depends on the mailboxes: a report carries the context
it was fenced with, and Control adopts the context of a commit. It stays in its
incarnation because no transaction of the worker changes the Store's
(`RunKeeps`), so a report that passes the fence is of Control's own Store
(`ReportOk`); only a Snapshot brings another, and it retires everything first
(`OnSnapshotIsSound`).

`Sound` is the part about Control. One lemma per operation shows that the operation keeps
it, and most follow from three shapes: work is only removed (`NarrowerIsSound`),
nothing is touched (`SameWorkIsSound`), or one effect is added (`EffectIsSound`). A turn
then only has to hand its jobs over (`TurnKeeps`).

Removing and resending waiters is recursive over their sequence. Both are
recursive functions, and what they compute at each length is proved by the least
length at which it would fail (`LeastNatural`, from the well-foundedness of the
naturals), since the induction theorems themselves are out of reach:
`RemainingIsPart` (what remains is a part of the waiters in their order) and
`ResentIsSound` (what has been resent and what has not never hold two cursor
requests).

`LatchesReleased` needs a second invariant, `LatchInv`, with `ControlInv` beside it. Its
state is spread over both threads and both mailboxes: Control sets a latch in a turn,
the letter leaves at the end of that turn, the worker turns it into a report, and a
turn in between may begin an epoch, which makes every letter old. `Holding` follows a
latch through a turn: in the middle of one, a connected Control with no retry pending has,
for each latch, the job among those it has gathered or (as long as the turn has
not begun an epoch) the kind among those under way before. Each operation keeps
it, one lemma each, and only a report that answers the latch may take its kind away
(`OnReportHolds`). `Fenced` says why a letter that is counted arrives: a fence of the
current epoch is Control's own context, and Control's context is behind the Store's only
while an unguarded Snapshot of the reset is still on its way, in order (`InOrder`).
`RunIsFaithful` is the worker's side: every command leaves the context alone and answers
what it was asked. That is what the assumption on `Opened` is for. A transfer to another read
contract changes the context at the worker, in the middle of the mailbox, and the
fence drops the letters behind it; finding 2 is that behaviour. A reset changes the
context too, but Control hears of it and begins a new epoch, so resets are included.

### Only model-checked

* Liveness and everything under fairness: `EveryBatchAnswered`,
  `CommitsDelivered`, `CloseResolves`, `CatchesUp`, `WorkDrains`, `TransferEnds`,
  `EverythingSettles`, `StoppedIsReleased`, `ConnectionSettles`.
* `SyncControl`: `LatchesReleased` is a theorem only for a fixed read contract
  (`LatchesReleasedAlways`): it is false once the contract may change (finding 2).
* `ClientObservers` and `ClientConnection`: the cache is a fold of splices, the
  broker a fold over its owners.
* `AppTransaction`: `ResolvedIsDurable`, which equates the worker's account with
  the one the SDK keeps and needs an invariant over every fiber, drain and
  savepoint of the callback.

## 5. Not modelled, and the plan

Not modelled because it is data: schema, values and codecs, the compiler, SQL
generation and query execution, the typed SDKs, the SQLite adapter. The
simulator is a test harness.

Not modelled because it is typing or presentation over modelled parts: the generated
and typed wrappers of the SDK, the views of unsent work, and the React Native and
Dart twins of the JavaScript SDK. Action results and their
materialization are assembled from one snapshot and keep no state.

Planned, in this order:

1. `MutationQueue`: enqueue, prerequisites, sequencing, cancellation, dismissal and
   rejection with its dependents. Each is one SQL transaction over the
   queue's rows; the model needs the queue's contents, which `MutationSync` and
   `SyncControl` leave out;
2. `SchemaTransfer`: what a transfer and a reset carry over (`SyncControl` has
   when they happen, not their contents);
3. the worker's half of `SyncControl` shown to implement `StreamStore`.

Theorems planned: `ResolvedIsDurable`, from an invariant that gives each command of
the callback its place in the drains; then the invariants of `ClientConnection`.
