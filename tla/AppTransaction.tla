--------------------------- MODULE AppTransaction ---------------------------
(***************************************************************************)
(* One application transaction of a client, end to end: the callback and   *)
(* the handles it is given (packages/frontend/client-js/api/transaction.mts*)
(* local.mts, command-accounting.mts), the Call handles (actions.mts), the *)
(* bridge that routes answers and callbacks (bindings/bridge.mts), the two *)
(* queues of the native actor (bindings/common/src/actor.rs) and the Store *)
(* worker that owns the SQLite session (crates/client/src/runtime/         *)
(* transactions.rs, tasks.rs).                                             *)
(*                                                                         *)
(* The callback is any program: it issues commands, awaits them or not,    *)
(* catches failures or not, nests savepoints and runs Mutation callbacks.  *)
(* Every piece of it that runs on its own is a fiber; a step of a fiber is *)
(* what JavaScript runs between two awaits.  The worker runs one input to  *)
(* its end before it publishes the events, so its steps are whole inputs.  *)
(***************************************************************************)
EXTENDS Integers, Sequences, FiniteSets

CONSTANTS
    MaxRequests, \* bound on the commands the callback issues
    MaxLoose,    \* bound on the commands it issues without awaiting them
    MaxBacklog,  \* bound on the events the bridge has not dispatched
    MaxFaults    \* bound on engine failures and worker panics together

ASSUME AppAssumption ==
    MaxRequests \in Nat /\ MaxLoose \in Nat /\ MaxBacklog \in Nat /\ MaxFaults \in Nat

\* A request is numbered by its bridge request id; 0 is the transaction task.
Id == 1..MaxRequests
Fiber == 0..MaxRequests
\* The commands of a callback: submit a Mutation without or with a `local`
\* callback, open a savepoint, and write from a `local` callback.  A direct
\* write or a read is a submission whose handle nobody uses.
Kinds == {"submit", "local", "savepoint", "companion"}

VARIABLES
    issued,  \* requests issued so far
    loose,   \* how many of them nobody awaits
    req,     \* each request: kind, issuing fiber, scope sent, state
    close,   \* the release or rollbackSavepoint command of each savepoint
    fiber,   \* the callback (0), savepoint bodies and Mutation callbacks
    sdk,     \* the Transaction object
    task,    \* the promise Client.transaction answered, and its callback
    handle,  \* the Call of each submission
    client,  \* "open", "closing" (Client.close called), "closed", "ended"
    bridge,  \* "open", "closing" or "closed" as the bridge sees the runtime
    mail,    \* inputs on their way to the worker
    out,     \* events on their way to the bridge
    wk,      \* the worker's runtime and its SQLite session
    durable, \* what SQLite has committed
    faults, panics

vars == <<issued, loose, req, close, fiber, sdk, task, handle, client, bridge, mail,
          out, wk, durable, faults, panics>>
appVars == <<issued, loose, req, close, fiber, sdk, task, handle, client, bridge>>
workerVars == <<wk, durable, faults, panics>>

NoRequest == [kind |-> "none", by |-> 0, scope |-> 0, st |-> "none"]

\* A fiber's st: none, asked (its start awaits the runtime), ready, running,
\* waiting (for request `wait`), draining (the user function ended; the SDK
\* awaits the commands in `drain`), failing (a savepoint drains to roll back),
\* closing, undoing (the savepoint's command is under way), and ok or failed
\* once its promise is settled.  `failure` is what the command
\* accounting held when a savepoint opened; a Mutation callback's own first
\* failure, for its fiber.
NoFiber == [st |-> "none", wait |-> 0, ok |-> TRUE, late |-> FALSE,
            drain |-> {}, drainClose |-> {}, failure |-> 0, parent |-> 0]

NoWorkerTx == [open |-> FALSE, scopes |-> <<>>, failure |-> FALSE,
               structural |-> FALSE, local |-> 0, localFailure |-> FALSE,
               calls |-> <<>>, writes |-> <<>>, marks |-> <<>>, up |-> TRUE]

Init ==
    /\ issued = 0 /\ loose = 0
    /\ req = [i \in Id |-> NoRequest]
    /\ close = [i \in Id |-> "none"]
    /\ fiber = [f \in Fiber |-> NoFiber]
    /\ sdk = [open |-> TRUE, structural |-> FALSE, failure |-> 0, active |-> 0,
              locals |-> 0]
    /\ task = [promise |-> "pending", callback |-> "sent"]
    /\ handle = [i \in Id |-> "none"]
    /\ client = "open" /\ bridge = "open"
    /\ mail = <<[type |-> "transaction", id |-> 0, ok |-> TRUE]>>
    /\ out = <<>>
    /\ wk = NoWorkerTx
    /\ durable = [committed |-> FALSE, writes |-> {}]
    /\ faults = 0 /\ panics = 0

-----------------------------------------------------------------------------
(* The SDK: admission and accounting of the callback's commands.           *)

Mutating == {"submit", "local"}
IsLocal(f) == f # 0 /\ req[f].kind = "local"
IsSavepoint(f) == f # 0 /\ req[f].kind = "savepoint"
Done == {"ok", "failed"}

\* The savepoint whose async context a fiber runs in: a Mutation callback runs
\* in the context of the fiber that submitted it.
Context(f) == IF IsLocal(f) THEN (IF IsSavepoint(req[f].by) THEN req[f].by ELSE 0)
              ELSE f

\* Outstanding commands of the transaction, and of one Mutation callback.
Pending == {i \in Id : req[i].st = "sent" /\ req[i].kind # "companion"}
Closing == {i \in Id : close[i] = "sent"}
PendingOf(f) == {i \in Id : req[i].st = "sent" /\ req[i].kind = "companion"
                              /\ req[i].by = f}

\* An awaited request is settled; a savepoint's promise is its fiber's.
Settled(i) == IF IsSavepoint(i) THEN fiber[i].st \in Done ELSE req[i].st \in Done

\* The fiber's user code can go on: the awaited promise is settled, and what it
\* rejects with may be caught.
Runnable(f) ==
    \/ fiber[f].st = "running"
    \/ fiber[f].st = "waiting" /\ Settled(fiber[f].wait)

\* #admit: the object is open, no Mutation callback owns the transaction, and
\* the command comes from the innermost savepoint's context.
Admitted(f) ==
    /\ sdk.open
    /\ sdk.locals = 0
    /\ sdk.active = 0 \/ Context(f) = sdk.active

\* The scope token of the innermost savepoint, once the runtime answered it.
ScopeOf(a) == IF a # 0 /\ req[a].st = "ok" THEN a ELSE 0

\* CommandAccounting.track: the first failure is kept.
FirstFailure(old, i) == IF old = 0 THEN i ELSE old

\* A request is settled in JavaScript: its route is gone, the accounting knows.
SettledSdk(i, ok) ==
    [sdk EXCEPT !.failure = IF ok \/ req[i].kind = "companion" THEN @
                            ELSE FirstFailure(@, i),
                !.locals = IF req[i].kind = "local" THEN @ - 1 ELSE @]
SettledFiber(i, ok) ==
    IF req[i].kind = "companion"
      THEN [fiber EXCEPT ![req[i].by].failure = IF ok THEN @ ELSE FirstFailure(@, i)]
    ELSE IF req[i].kind = "savepoint"
      \* `await opened` stands outside the try: a savepoint that could not be
      \* opened leaves #active behind.
      THEN [fiber EXCEPT ![i].st = IF ~ok THEN "failed"
                                   ELSE IF sdk.open THEN "running" ELSE "failing",
                         ![i].drain = Pending \ {i}, ![i].drainClose = Closing]
    ELSE IF req[i].kind = "local" /\ fiber[i].st \in {"asked", "ready"}
      THEN [fiber EXCEPT ![i].st = "failed"]
    ELSE fiber

Send(type, id, ok) == Append(mail, [type |-> type, id |-> id, ok |-> ok])

\* A command of fiber f through the handle it was given.
Issue(f, kind, await) ==
    LET i == issued + 1
        request == [kind |-> kind, by |-> f, scope |-> ScopeOf(sdk.active),
                    st |-> IF bridge = "open" THEN "sent" ELSE "failed"]
        started == [NoFiber EXCEPT !.st = IF bridge = "open" THEN "asked" ELSE "failed",
                                   !.failure = IF kind = "savepoint" THEN sdk.failure ELSE 0,
                                   !.parent = sdk.active]
    IN /\ Runnable(f)
       /\ issued < MaxRequests
       /\ IF IsLocal(f) THEN kind = "companion"
          ELSE kind # "companion" /\ Admitted(f)
       /\ issued' = i
       /\ await \/ loose < MaxLoose
       /\ loose' = IF await THEN loose ELSE loose + 1
       /\ req' = [req EXCEPT ![i] = request]
       /\ fiber' = LET g == IF kind \in {"savepoint", "local"}
                              THEN [fiber EXCEPT ![i] = started] ELSE fiber
                       h == IF kind = "companion" /\ bridge # "open"
                              THEN [g EXCEPT ![f].failure = FirstFailure(@, i)] ELSE g
                   IN [h EXCEPT ![f].st = IF await THEN "waiting" ELSE "running",
                                ![f].wait = IF await THEN i ELSE 0]
       /\ sdk' = [sdk EXCEPT
            !.active = IF kind = "savepoint" THEN i ELSE @,
            !.locals = IF kind = "local" /\ bridge = "open" THEN @ + 1 ELSE @,
            !.failure = IF bridge = "open" \/ kind = "companion" THEN @
                        ELSE FirstFailure(@, i)]
       /\ mail' = IF bridge = "open" THEN Send("command", i, TRUE) ELSE mail
       /\ UNCHANGED <<close, task, handle, client, bridge, out>>
       /\ UNCHANGED workerVars

\* A command the SDK refuses before it is sent: from the wrong context, or while
\* a Mutation callback runs (through a captured handle, the expired one of a
\* Mutation callback included).  An open transaction is poisoned for good.
Refused(f) ==
    /\ Runnable(f)
    /\ sdk.open /\ ~sdk.structural
    /\ \/ ~Admitted(f)
       \/ \E i \in Id : IsLocal(i) /\ fiber[i].st \in Done \cup {"draining"}
    /\ sdk' = [sdk EXCEPT !.structural = TRUE]
    /\ UNCHANGED <<issued, loose, req, close, fiber, task, handle, client, bridge, mail, out>>
    /\ UNCHANGED workerVars

\* What the SDK finds when a user function ends: commands nobody awaited.  The
\* callback also answers for savepoints that have not settled.
Unawaited(f) ==
    IF IsLocal(f) THEN PendingOf(f) # {}
    ELSE f = 0 /\ (\/ Pending \cup Closing # {}
                   \/ \E i \in Id : IsSavepoint(i) /\ fiber[i].st \notin Done)

\* CommandAccounting.drain: await everything tracked so far.
Draining(f, st) ==
    [fiber[f] EXCEPT !.st = st, !.wait = 0,
        !.drain = IF IsLocal(f) THEN PendingOf(f) ELSE Pending,
        !.drainClose = IF IsLocal(f) THEN {} ELSE Closing]
Drained(f, st) ==
    /\ fiber[f].st = st
    /\ \A i \in fiber[f].drain : req[i].st \in Done
    /\ \A i \in fiber[f].drainClose : close[i] \in Done

Ended(f, st) == [NoFiber EXCEPT !.st = st, !.parent = fiber[f].parent]

\* The user function of fiber f returns (ok) or throws; the SDK drains.
End(f, ok) ==
    /\ Runnable(f)
    /\ fiber' = [fiber EXCEPT ![f] = Draining(f, IF IsSavepoint(f) /\ ~ok
                                                    THEN "failing" ELSE "draining"),
                              ![f].ok = ok, ![f].late = Unawaited(f)]
    /\ sdk' = IF f = 0 THEN [sdk EXCEPT !.open = FALSE] ELSE sdk
    /\ UNCHANGED <<issued, loose, req, close, task, handle, client, bridge, mail, out>>
    /\ UNCHANGED workerVars

\* Transaction.finish, then the bridge answers the callback effect.  Mutant:
\* a failure the callback caught is forgotten.
CleanUnlessThrown == fiber[0].ok /\ ~sdk.structural /\ ~fiber[0].late
Clean == fiber[0].ok /\ ~sdk.structural /\ ~fiber[0].late /\ sdk.failure = 0

Finish ==
    /\ Drained(0, "draining")
    /\ fiber' = [fiber EXCEPT ![0] = Ended(0, IF Clean THEN "ok" ELSE "failed")]
    /\ task' = [task EXCEPT !.callback = IF Clean THEN "returned" ELSE "threw"]
    /\ mail' = IF bridge = "closed" THEN mail ELSE Send("result", 0, Clean)
    /\ UNCHANGED <<issued, loose, req, close, sdk, handle, client, bridge, out>>
    /\ UNCHANGED workerVars

\* runLocal: a Mutation callback finished; its answer carries the input.
FinishLocal(f) ==
    /\ IsLocal(f) /\ Drained(f, "draining")
    /\ LET ok == fiber[f].ok /\ ~fiber[f].late /\ fiber[f].failure = 0
       IN /\ fiber' = [fiber EXCEPT ![f] = Ended(f, IF ok THEN "ok" ELSE "failed")]
          /\ mail' = IF bridge = "closed" THEN mail ELSE Send("localResult", f, ok)
    /\ UNCHANGED <<issued, loose, req, close, sdk, task, handle, client, bridge, out>>
    /\ UNCHANGED workerVars

-----------------------------------------------------------------------------
(* Savepoints: what Transaction.savepoint does once its body has drained.  *)

\* The promise of savepoint f is settled; its parent is active again.
Leave(f, st, s) ==
    /\ fiber' = [fiber EXCEPT ![f] = Ended(f, st)]
    /\ sdk' = [s EXCEPT !.active = IF @ = f THEN fiber[f].parent ELSE @]

\* Send `release` or `rollbackSavepoint`; a closing bridge rejects it at once.
CloseCommand(f, type, st) ==
    IF bridge = "open"
      THEN /\ close' = [close EXCEPT ![f] = "sent"]
           /\ fiber' = [fiber EXCEPT ![f].st = st]
           /\ mail' = Send(type, f, TRUE)
           /\ UNCHANGED sdk
      ELSE /\ close' = [close EXCEPT ![f] = "failed"]
           /\ Leave(f, "failed", [sdk EXCEPT !.failure = FirstFailure(@, f)])
           /\ UNCHANGED mail

Intact(f) == sdk.failure = fiber[f].failure /\ ~sdk.structural

Release(f) ==
    /\ IsSavepoint(f) /\ Drained(f, "draining")
    /\ sdk.open /\ sdk.active = f /\ Intact(f)
    /\ CloseCommand(f, "release", "closing")
    /\ UNCHANGED <<issued, loose, req, task, handle, client, bridge, out>>
    /\ UNCHANGED workerVars

\* A command of the body failed, a nested savepoint was left behind, or the
\* transaction is poisoned or over: drain again, then roll back.
Spoiled(f) ==
    /\ IsSavepoint(f) /\ Drained(f, "draining")
    /\ ~(sdk.open /\ sdk.active = f /\ Intact(f))
    /\ fiber' = [fiber EXCEPT ![f] = Draining(f, "failing")]
    /\ sdk' = [sdk EXCEPT !.structural = @ \/ (sdk.open /\ sdk.active # f)]
    /\ UNCHANGED <<issued, loose, req, close, task, handle, client, bridge, mail, out>>
    /\ UNCHANGED workerVars

\* The rollback, unless the whole transaction is doomed anyway.
Undo(f) ==
    /\ IsSavepoint(f) /\ Drained(f, "failing")
    /\ IF ~sdk.open \/ sdk.structural
         THEN Leave(f, "failed", sdk) /\ UNCHANGED <<close, mail>>
       ELSE IF sdk.active # f
         THEN Leave(f, "failed", [sdk EXCEPT !.structural = TRUE]) /\ UNCHANGED <<close, mail>>
       ELSE CloseCommand(f, "rollback", "undoing")
    /\ UNCHANGED <<issued, loose, req, task, handle, client, bridge, out>>
    /\ UNCHANGED workerVars

\* The savepoint command was answered.  A rollback restores the failure the
\* enclosing scope had; a failed release is rolled back.
Closed(f) ==
    /\ fiber[f].st \in {"closing", "undoing"} /\ close[f] \in Done
    /\ CASE fiber[f].st = "closing" /\ close[f] = "ok" ->
              Leave(f, "ok", sdk)
         [] fiber[f].st = "closing" /\ close[f] = "failed" ->
              /\ fiber' = [fiber EXCEPT ![f] = Draining(f, "failing")]
              /\ UNCHANGED sdk
         [] fiber[f].st = "undoing" ->
              Leave(f, "failed", IF close[f] = "ok"
                                   THEN [sdk EXCEPT !.failure = fiber[f].failure] ELSE sdk)
    /\ UNCHANGED <<issued, loose, req, close, task, handle, client, bridge, mail, out>>
    /\ UNCHANGED workerVars

-----------------------------------------------------------------------------
(* The bridge dispatches the runtime's events in order.                    *)

\* The callback starts from a continuation, unless its batch also cancelled it.
StartBody ==
    /\ task.callback = "asked"
    /\ IF task.promise = "pending"
         THEN /\ task' = [task EXCEPT !.callback = "running"]
              /\ fiber' = [fiber EXCEPT ![0].st = "running"]
         ELSE /\ task' = [task EXCEPT !.callback = "cancelled"]
              /\ UNCHANGED fiber
    /\ UNCHANGED <<issued, loose, req, close, sdk, handle, client, bridge, mail, out>>
    /\ UNCHANGED workerVars
StartLocal(f) ==
    /\ fiber[f].st = "ready"
    /\ fiber' = [fiber EXCEPT ![f].st = "running"]
    /\ UNCHANGED <<issued, loose, req, close, sdk, task, handle, client, bridge, mail, out>>
    /\ UNCHANGED workerVars

\* ActionRegistry.transition, for a routed handle.
Transition(h, st) == IF h = "provisional" THEN st ELSE h

\* Client.#finishClose after the bridge closed: ActionRegistry.ended, which
\* leaves a committed handle alone.  Mutant: it does not.
DiscardAll(h) == IF h = "none" THEN h ELSE "rolledBack"
Discard(h) == Transition(h, "rolledBack")

Dispatch ==
    /\ out # <<>> /\ bridge # "closed"
    /\ out' = Tail(out)
    /\ LET e == Head(out)
       IN CASE e.type = "completed" /\ e.id = 0 ->
                 /\ task' = [task EXCEPT !.promise = IF e.ok THEN "resolved" ELSE "rejected"]
                 /\ UNCHANGED <<req, close, fiber, sdk, handle, bridge, client>>
            [] e.type = "completed" /\ e.id # 0 /\ req[e.id].st = "sent" ->
                 /\ req' = [req EXCEPT ![e.id].st = IF e.ok THEN "ok" ELSE "failed"]
                 /\ sdk' = SettledSdk(e.id, e.ok)
                 /\ fiber' = SettledFiber(e.id, e.ok)
                 /\ handle' = IF e.ok /\ req[e.id].kind \in {"submit", "local"}
                                THEN [handle EXCEPT ![e.id] = "provisional"] ELSE handle
                 /\ UNCHANGED <<close, task, bridge, client>>
            [] e.type = "closed" /\ e.id # 0 ->
                 /\ close' = [close EXCEPT ![e.id] = IF e.ok THEN "ok" ELSE "failed"]
                 /\ sdk' = IF e.ok THEN sdk
                           ELSE [sdk EXCEPT !.failure = FirstFailure(@, e.id)]
                 /\ UNCHANGED <<req, fiber, task, handle, bridge, client>>
            [] e.type = "callback" ->
                 /\ task' = [task EXCEPT !.callback = "asked"]
                 /\ UNCHANGED <<req, close, fiber, sdk, handle, bridge, client>>
            [] e.type = "local" ->
                 /\ fiber' = [fiber EXCEPT ![e.id].st = IF @ = "asked" THEN "ready" ELSE @]
                 /\ UNCHANGED <<req, close, sdk, task, handle, bridge, client>>
            [] e.type = "state" ->
                 /\ handle' = [handle EXCEPT ![e.id] =
                                 Transition(@, IF e.ok THEN "committed" ELSE "rolledBack")]
                 /\ UNCHANGED <<req, close, fiber, sdk, task, bridge, client>>
            [] e.type = "end" ->
                 \* #terminate: every route left rejects with client_closed.
                 /\ bridge' = "closed"
                 /\ task' = [task EXCEPT !.promise = IF @ = "pending" THEN "rejected" ELSE @]
                 /\ req' = [i \in Id |-> IF req[i].st = "sent"
                                           THEN [req[i] EXCEPT !.st = "failed"] ELSE req[i]]
                 /\ close' = [i \in Id |-> IF close[i] = "sent" THEN "failed" ELSE close[i]]
                 /\ fiber' = [f \in Fiber |->
                        IF f # 0 /\ fiber[f].st \in {"asked", "ready"}
                          THEN [fiber[f] EXCEPT !.st = "failed"]
                        ELSE IF f # 0 /\ PendingOf(f) # {}
                          THEN [fiber[f] EXCEPT !.failure = FirstFailure(@, f)]
                        ELSE fiber[f]]
                 /\ sdk' = [sdk EXCEPT !.locals = 0,
                        !.failure = IF Pending \cup Closing # {} THEN FirstFailure(@, MaxRequests)
                                    ELSE @]
                 /\ client' = IF client = "closing" THEN "ended" ELSE client
                 /\ handle' = IF client = "closing"
                                THEN [i \in Id |-> Discard(handle[i])] ELSE handle
            [] OTHER -> UNCHANGED <<req, close, fiber, sdk, task, handle, bridge, client>>
    /\ UNCHANGED <<issued, loose, mail>>
    /\ UNCHANGED workerVars

\* Client.close: committed handles settle, provisional ones wait for their
\* fate; the runtime's close is not queued behind the transaction.  Mutant:
\* what is pending rejects at once.
CloseClientRejecting ==
    /\ client = "open" /\ bridge = "open"
    /\ client' = "closing" /\ bridge' = "closing"
    /\ task' = [task EXCEPT !.promise = IF @ = "pending" THEN "rejected" ELSE @]
    /\ mail' = Send("close", 0, TRUE)
    /\ UNCHANGED <<issued, loose, req, close, fiber, sdk, handle, out>>
    /\ UNCHANGED workerVars
CloseClient ==
    /\ client = "open"
    /\ IF bridge = "closed"
         THEN /\ client' = "ended" /\ handle' = [i \in Id |-> Discard(handle[i])]
              /\ UNCHANGED <<bridge, mail>>
         ELSE /\ client' = "closing" /\ bridge' = "closing"
              /\ mail' = Send("close", 0, TRUE)
              /\ UNCHANGED handle
    /\ UNCHANGED <<issued, loose, req, close, fiber, sdk, task, out>>
    /\ UNCHANGED workerVars

-----------------------------------------------------------------------------
(* The Store worker: one input, every unit it makes ready, then the events.*)

Ev(type, id, ok) == [type |-> type, id |-> id, ok |-> ok]
States(calls, ok) == [k \in 1..Len(calls) |-> Ev("state", calls[k], ok)]
Prefix(seq, n) == SubSeq(seq, 1, n)
Suffix(seq, n) == SubSeq(seq, n + 1, Len(seq))
Last(seq) == seq[Len(seq)]
Front(seq) == Prefix(seq, Len(seq) - 1)

\* The innermost open scope token; 0 is no savepoint.
Top == IF wk.scopes = <<>> THEN 0 ELSE Last(wk.scopes).token

Input(type) ==
    /\ wk.up /\ Len(out) < MaxBacklog
    /\ mail # <<>> /\ Head(mail).type = type

\* The worker takes the input, becomes w and publishes es.
Handle(w, es) ==
    /\ mail' = Tail(mail) /\ wk' = w /\ out' = out \o es
    /\ UNCHANGED appVars

Faulty == faults + panics < MaxFaults /\ faults' = faults + 1
Sound == UNCHANGED faults

\* open_transaction: begin the session and ask for the callback.
OpenTransaction ==
    /\ Input("transaction")
    /\ \/ Sound /\ Handle([wk EXCEPT !.open = TRUE], <<Ev("callback", 0, TRUE)>>)
       \/ Faulty /\ Handle(wk, <<Ev("completed", 0, FALSE)>>)
    /\ UNCHANGED <<durable, panics>>

\* run_command: a refusal by capability or scope is structural, an engine
\* failure poisons the scope; a failure inside a Mutation callback stays with
\* the callback.
Refuse(i, w) == Handle(w, <<Ev("completed", i, FALSE)>>)
Poisoned == [wk EXCEPT !.structural = TRUE]

Own(i) == req[i].kind = "companion" /\ wk.local # 0 /\ req[i].by = wk.local
Capable(i) == Own(i) \/ (wk.local = 0 /\ req[i].kind # "companion")

\* What the command does to the session when the engine accepts it.
Executed(i) ==
    CASE req[i].kind = "submit" -> [wk EXCEPT !.writes = Append(@, i),
                                              !.calls = Append(@, i)]
      [] req[i].kind = "savepoint" ->
            [wk EXCEPT !.marks = Append(@, Len(wk.writes)),
                       !.scopes = Append(@, [token |-> i, failure |-> wk.failure,
                                             calls |-> Len(wk.calls)])]
      [] req[i].kind = "local" -> [wk EXCEPT !.marks = Append(@, Len(wk.writes)),
                                             !.local = i, !.localFailure = FALSE]
      [] req[i].kind = "companion" -> [wk EXCEPT !.writes = Append(@, i)]

RunCommand ==
    /\ Input("command")
    /\ LET i == Head(mail).id
       IN \/ /\ ~wk.open /\ Sound /\ Refuse(i, wk)
          \/ /\ wk.open /\ Sound
             /\ ~Capable(i) \/ req[i].scope # Top
             /\ Refuse(i, IF Own(i) THEN [Poisoned EXCEPT !.localFailure = TRUE] ELSE Poisoned)
          \/ /\ wk.open /\ Capable(i) /\ req[i].scope = Top
             /\ \/ /\ Sound
                   /\ Handle(Executed(i), <<Ev(IF req[i].kind = "local" THEN "local"
                                               ELSE "completed", i, TRUE)>>)
                \/ /\ Faulty
                   /\ Refuse(i, IF Own(i) THEN [wk EXCEPT !.localFailure = TRUE]
                                ELSE [wk EXCEPT !.failure = TRUE])
    /\ UNCHANGED <<durable, panics>>

\* Release and RollbackSavepoint of the scope they name, which must be the
\* innermost one, sent from it.
InScope(f) == wk.open /\ wk.local = 0 /\ Top = f
Popped == [wk EXCEPT !.scopes = Front(@), !.marks = Front(@)]
OutOfScope(f) ==
    ~InScope(f) /\ Sound /\ Handle(IF wk.open THEN Poisoned ELSE wk, <<Ev("closed", f, FALSE)>>)
\* The engine failed: the scope is popped all the same, and what was written
\* in it belongs to the enclosing one, which is poisoned.
EngineFailed(f) ==
    InScope(f) /\ Faulty /\ Handle([Popped EXCEPT !.failure = TRUE], <<Ev("closed", f, FALSE)>>)
ReleaseScope ==
    /\ Input("release")
    /\ LET f == Head(mail).id
       IN \/ InScope(f) /\ Sound /\ Handle(Popped, <<Ev("closed", f, TRUE)>>)
          \/ EngineFailed(f)
          \/ OutOfScope(f)
    /\ UNCHANGED <<durable, panics>>

Undone(s) ==
    [Popped EXCEPT !.writes = Prefix(@, Last(wk.marks)), !.failure = s.failure,
                   !.calls = Prefix(@, s.calls)]
RollbackScope ==
    /\ Input("rollback")
    /\ LET f == Head(mail).id
           s == Last(wk.scopes)
       IN \/ /\ InScope(f) /\ Sound
             /\ Handle(Undone(s), States(Suffix(wk.calls, s.calls), FALSE)
                                     \o <<Ev("closed", f, TRUE)>>)
          \/ EngineFailed(f)
          \/ OutOfScope(f)
    /\ UNCHANGED <<durable, panics>>

\* finish_local: the preview is rolled back; a callback that succeeded submits
\* its Mutation with the companions it recorded.
FinishLocalCallback ==
    /\ Input("localResult")
    /\ LET f == Head(mail).id
           w == [wk EXCEPT !.local = 0, !.marks = Front(@),
                           !.writes = Prefix(@, Last(wk.marks))]
       IN \/ /\ ~(wk.open /\ wk.local = f) /\ Sound /\ Handle(wk, <<>>)
          \/ /\ wk.open /\ wk.local = f
             /\ \/ /\ Head(mail).ok /\ ~wk.localFailure /\ Sound
                   /\ Handle([w EXCEPT !.writes = Append(@, f), !.calls = Append(@, f)],
                             <<Ev("completed", f, TRUE)>>)
                \/ /\ Head(mail).ok /\ ~wk.localFailure /\ Faulty
                   /\ Refuse(f, w)
                \/ /\ ~(Head(mail).ok /\ ~wk.localFailure) /\ Sound
                   /\ Refuse(f, w)
    /\ UNCHANGED <<durable, panics>>

\* The session is gone, its calls with it; what it still owed is refused.
\* Mutant: nobody is told of the calls.
DiscardedSilently(events) ==
    /\ out' = out \o events
    /\ UNCHANGED durable
Discarded(events) ==
    /\ out' = out \o States(wk.calls, FALSE) \o events
    /\ UNCHANGED durable
LocalRefused == IF wk.local = 0 THEN <<>> ELSE <<Ev("completed", wk.local, FALSE)>>

\* finish_transaction: commit when the callback returned and the worker's own
\* accounting agrees.
Commits ==
    /\ Head(mail).ok /\ ~wk.structural /\ ~wk.failure
    /\ wk.local = 0 /\ wk.scopes = <<>>
FinishTransaction ==
    /\ Input("result")
    /\ mail' = Tail(mail)
    /\ wk' = [NoWorkerTx EXCEPT !.structural = wk.structural]
    /\ \/ /\ ~wk.open /\ Sound /\ UNCHANGED <<out, durable>>
       \/ /\ wk.open /\ ~Commits /\ Sound
          /\ Discarded(LocalRefused \o <<Ev("completed", 0, FALSE)>>)
       \/ /\ wk.open /\ Commits /\ Faulty
          /\ Discarded(<<Ev("completed", 0, FALSE)>>)
       \/ /\ wk.open /\ Commits /\ Sound
          /\ durable' = [committed |-> TRUE,
                         writes |-> {wk.writes[k] : k \in 1..Len(wk.writes)}]
          /\ out' = out \o States(wk.calls, TRUE) \o <<Ev("completed", 0, TRUE)>>
    /\ UNCHANGED panics
    /\ UNCHANGED appVars

\* Priority close: roll back, settle everything, announce the end.
CloseRuntime ==
    /\ Input("close") /\ Sound
    /\ mail' = <<>>
    /\ wk' = [NoWorkerTx EXCEPT !.up = FALSE]
    /\ IF wk.open
         THEN Discarded(<<Ev("completed", 0, FALSE)>> \o LocalRefused \o <<Ev("end", 0, TRUE)>>)
         ELSE out' = Append(out, Ev("end", 0, TRUE)) /\ UNCHANGED durable
    /\ UNCHANGED panics
    /\ UNCHANGED appVars

\* The worker panics: the Store closes, an open session rolls back, and the
\* events of the input it was running are lost, a commit's answer included.
Panic ==
    /\ wk.up /\ mail # <<>> /\ faults + panics < MaxFaults
    /\ panics' = panics + 1
    /\ mail' = <<>>
    /\ wk' = [NoWorkerTx EXCEPT !.up = FALSE]
    /\ out' = Append(out, Ev("end", 0, TRUE))
    /\ \/ UNCHANGED durable
       \/ /\ Input("result") /\ wk.open /\ Commits
          /\ durable' = [committed |-> TRUE,
                         writes |-> {wk.writes[k] : k \in 1..Len(wk.writes)}]
    /\ UNCHANGED faults
    /\ UNCHANGED appVars

-----------------------------------------------------------------------------
FiberStep(f) ==
    \/ \E kind \in Kinds, await \in BOOLEAN : Issue(f, kind, await)
    \/ Refused(f) \/ \E ok \in BOOLEAN : End(f, ok)

SdkStep ==
    \/ Finish \/ StartBody
    \/ \E f \in Id : FinishLocal(f) \/ Release(f) \/ Spoiled(f) \/ Undo(f)
                       \/ Closed(f) \/ StartLocal(f)

WorkerStep ==
    \/ OpenTransaction \/ RunCommand \/ ReleaseScope \/ RollbackScope
    \/ FinishLocalCallback \/ FinishTransaction \/ CloseRuntime

Next ==
    \/ \E f \in Fiber : FiberStep(f)
    \/ SdkStep \/ Dispatch \/ CloseClient \/ WorkerStep \/ Panic

\* Promises and threads run, and a callback that is not waiting for the SDK
\* ends.  Every run is finite, so fairness of the whole is enough; nothing makes
\* the application issue a command or close, or the worker panic.
Progress ==
    \/ \E f \in Fiber, ok \in BOOLEAN : End(f, ok)
    \/ SdkStep \/ Dispatch \/ WorkerStep

Spec == Init /\ [][Next]_vars /\ WF_vars(Progress)

-----------------------------------------------------------------------------
(* Properties.                                                             *)

\* A savepoint that failed, or one inside it: the callback was told that
\* nothing of it remains.
InFailed[f \in Fiber] ==
    /\ IsSavepoint(f)
    /\ fiber[f].st = "failed" \/ InFailed[fiber[f].parent]
Kept(i) == ~InFailed[Context(req[i].by)]

\* A transaction that resolves has committed exactly the writes and calls the
\* callback saw succeed outside the savepoints it saw fail, and every other
\* command outside them succeeded too: no failure was swallowed, nothing was
\* left unawaited.  The SDK and the worker keep this account separately
\* (transaction.mts finish, transactions.rs finish_transaction).
ResolvedIsDurable ==
    task.promise = "resolved" =>
        /\ durable.committed
        /\ durable.writes = {i \in Id : /\ req[i].kind \in Mutating
                                        /\ req[i].st = "ok" /\ Kept(i)}
        /\ \A i \in 1..issued : Kept(i) => req[i].st = "ok"

\* A transaction that rejects left nothing behind, whatever closed, failed or
\* was cancelled on the way; only a panic can lose the answer of a commit.
RejectedIsUndone ==
    task.promise = "rejected" => ~durable.committed \/ panics > 0

\* A Call handle says committed only of a durable call, and rolledBack only of
\* one that is not: the announcements follow the SQLite savepoints
\* (transactions.rs call_transitions, actions.mts transition and ended).
HandlesAgree ==
    \A i \in Id :
        /\ handle[i] = "committed" => i \in durable.writes
        /\ handle[i] = "rolledBack" => i \notin durable.writes \/ panics > 0

\* Everything the application may wait for comes, and nothing is left behind:
\* the transaction's promise settles and the session is released, every
\* command and savepoint of the callback settles, close resolves, and a Call
\* learns its fate; after a panic that takes a Client.close (bridge.mts #terminate, actions.mts ended).
EverythingSettles ==
    <>[](/\ task.promise # "pending" /\ client # "closing" /\ ~wk.open
         /\ \A i \in 1..issued : req[i].st \in Done /\ close[i] # "sent"
         /\ \A f \in Fiber : fiber[f].st \in Done \cup {"none"}
         /\ \A i \in Id : handle[i] # "provisional" \/ (panics > 0 /\ client = "open"))

============================================================================
