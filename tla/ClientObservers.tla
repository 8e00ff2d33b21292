-------------------------- MODULE ClientObservers --------------------------
(***************************************************************************)
(* What an application observes through the client SDK: a Model watch      *)
(* (Client.watch: runtime.mts #observe, model-watch.mts) and the handle of *)
(* the bound Stream with its bootstrap calls (subscriptions.mts), against  *)
(* the runtime that publishes to them (crates/client/src/runtime/          *)
(* observers.rs).  The two sides share only the queues of the bridge:      *)
(* tasks one way, events the other (bridge.mts).                           *)
(*                                                                         *)
(* A runtime step is one unit with its publication; an SDK step dispatches *)
(* one event.  A row is an identity and a value.                           *)
(***************************************************************************)
EXTENDS Integers, Sequences, FiniteSets, SequencesExt

CONSTANTS
    Keys,            \* identities of the watched Model, in identity order
    Vals,            \* values a row may have
    Bad,             \* values the application's decoder throws on
    Calls,           \* the bootstrap() calls the application makes
    MaxCommits,      \* bound on commits
    MaxReadFailures, \* bound on watch reads that fail
    MaxResets,       \* bound on Store resets
    Uses             \* what an application uses: "watch" or "stream"

ASSUME ObserversAssumption ==
    /\ Keys \subseteq Nat /\ Vals \subseteq Nat \ {0} /\ Bad \subseteq Vals
    /\ MaxCommits \in Nat /\ MaxReadFailures \in Nat /\ MaxResets \in Nat
    /\ Uses \subseteq {"watch", "stream"}

VARIABLES
    use,       \* what this application uses
    store,     \* the committed Store: the Model's rows (0: none), and how far
               \* the load of the Stream is: 0 requested, 1 started, 2 complete
    life,      \* the runtime: "open" or "closed"
    observer,  \* the runtime's Watch, once registered
    reg,       \* the runtime's Registration of the Stream
    issued,    \* the last observer id issued
    tasks,     \* submitted tasks the runtime has not run
    events,    \* published events the SDK has not dispatched
    bridge,    \* the SDK's bridge: "open", "closing" or "closed"
    watcher,   \* the SDK's side of the watch, with its ModelWatchReceiver
    handle,    \* the cached Stream handle
    calls,     \* each bootstrap() call
    commits, readFailures, resets

observersVars == <<use, store, life, observer, reg, issued, tasks, events, bridge,
                   watcher, handle, calls, commits, readFailures, resets>>

NoWatch == [on |-> FALSE, rows |-> <<>>, version |-> 0, retry |-> FALSE]
NoRegistration == [on |-> FALSE, id |-> 0, published |-> -1, seen |-> 0,
                   waiters |-> {}]

\* phase     idle, asked (the task is submitted), failed or attached
\* routed    the bridge routes the observer's snapshots here
\* rows, version, recovering   the receiver's private cache (version 0: none)
\* refused   deliveries the receiver threw on since the last it accepted
\* shown     the rows last given to the listener
NoWatcher == [phase |-> "idle", stopped |-> FALSE, routed |-> FALSE, rows |-> <<>>,
              version |-> 0, recovering |-> FALSE, refused |-> 0, shown |-> <<>>]
NoHandle == [live |-> FALSE, id |-> 0, status |-> 0]

ObserversInit ==
    /\ use \in Uses
    /\ store = [rows |-> [k \in Keys |-> 0], load |-> 0]
    /\ life = "open" /\ bridge = "open"
    /\ observer = NoWatch /\ reg = NoRegistration /\ issued = 0
    /\ tasks = <<>> /\ events = <<>>
    /\ watcher = NoWatcher /\ handle = NoHandle
    /\ calls = [c \in Calls |-> [state |-> "unused", id |-> 0]]
    /\ commits = 0 /\ readFailures = 0 /\ resets = 0

----------------------------------------------------------------------------
(***************************************************************************)
(* The runtime's watch: its result cache and the splices that edit it.     *)
(***************************************************************************)

\* The rows of a query, in identity order.
Query(rows) ==
    LET found == SetToSortSeq({k \in Keys : rows[k] # 0}, <)
    IN [i \in DOMAIN found |-> <<found[i], rows[found[i]]>>]

Spliced(rows, splice) ==
    SubSeq(rows, 1, splice.index) \o splice.rows
        \o SubSeq(rows, splice.index + splice.deleted + 1, Len(rows))

\* One refreshed identity: an edit of the cache unless nothing differs.
Edited(rows, edit) ==
    LET at  == Cardinality({i \in DOMAIN edit.rows : edit.rows[i][1] < edit.key})
        had == \E i \in DOMAIN edit.rows : edit.rows[i][1] = edit.key
        new == IF rows[edit.key] = 0 THEN <<>> ELSE <<<<edit.key, rows[edit.key]>>>>
        splice == [index |-> at, deleted |-> IF had THEN 1 ELSE 0, rows |-> new]
    IN IF Spliced(edit.rows, splice) = edit.rows THEN edit
       ELSE [edit EXCEPT !.rows = Spliced(@, splice), !.splices = Append(@, splice)]

\* Watch.update_keys: the edits of the changed identities, in order.
UpdateKeys(cache, rows, keys) ==
    FoldLeft(LAMBDA edit, k : Edited(rows, [edit EXCEPT !.key = k]),
             [rows |-> cache, splices |-> <<>>, key |-> 0],
             SetToSortSeq(keys, <))

Full(w) == [type |-> "full", version |-> w.version, rows |-> w.rows]
Patch(w, splices) == [type |-> "patch", version |-> w.version, splices |-> splices]

\* A refresh: the new watch and what it publishes.
Quiet(w) == [watch |-> w, out |-> <<>>]
Snapshot(w) ==
    LET next == [w EXCEPT !.version = @ + 1] IN [watch |-> next, out |-> <<Full(next)>>]

RefreshedFull(w, rows) ==
    IF Query(rows) = w.rows THEN Quiet([w EXCEPT !.retry = FALSE])
    ELSE Snapshot([w EXCEPT !.retry = FALSE, !.rows = Query(rows)])

RefreshedKeys(w, rows, keys) ==
    LET edit == UpdateKeys(w.rows, rows, keys)
        next == [w EXCEPT !.rows = edit.rows, !.version = @ + 1]
    IN IF edit.splices = <<>> THEN Quiet(w)
       ELSE [watch |-> next, out |-> <<Patch(next, edit.splices)>>]

RefreshForgets(w, rows, keys, all, fails) ==
    IF ~w.on \/ fails THEN Quiet(w)
    ELSE IF all THEN RefreshedFull(w, rows) ELSE RefreshedKeys(w, rows, keys)
\* publish(), for the changes of a commit: the changed identities, or all of
\* the Model when the change is unknown or the last read failed.
Refresh(w, rows, keys, all, fails) ==
    CASE ~w.on -> Quiet(w)
      [] w.on /\ fails -> Quiet([w EXCEPT !.retry = TRUE])
      [] w.on /\ ~fails /\ (all \/ w.retry) -> RefreshedFull(w, rows)
      [] OTHER -> RefreshedKeys(w, rows, keys)

----------------------------------------------------------------------------
(***************************************************************************)
(* The runtime's registration of the Stream.                               *)
(***************************************************************************)
Completed(t, ok, value) == [type |-> "completed", task |-> t, ok |-> ok, value |-> value]
Bootstrap(c) == [kind |-> "bootstrap", call |-> c]
Task(kind) == [kind |-> kind]

\* The answers of a set of parked bootstrap tasks.
Answers(waiters, ok) ==
    SetToSeq({Completed(Bootstrap(c), ok, 0) : c \in waiters})

\* observe_run: the status never moves backwards, and a complete run answers
\* its waiters.
ObserveRun(r, load) ==
    IF ~r.on THEN [reg |-> r, out |-> <<>>]
    ELSE [reg |-> [r EXCEPT !.seen = IF load > @ THEN load ELSE @,
                            !.waiters = IF load = 2 THEN {} ELSE @],
          out |-> IF load = 2 THEN Answers(r.waiters, TRUE) ELSE <<>>]

Status(r, closed) ==
    [type |-> "status", id |-> r.id, status |-> r.seen, closed |-> closed]

\* publish_statuses: a status that differs from the one last published.
Published(r) ==
    IF r.on /\ r.id # 0 /\ r.published # r.seen
    THEN [reg |-> [r EXCEPT !.published = r.seen], out |-> <<Status(r, FALSE)>>]
    ELSE [reg |-> r, out |-> <<>>]

\* close_registration: the waiters fail, the observer's last snapshot.
ClosedRegistration(r) ==
    [reg |-> NoRegistration,
     out |-> IF ~r.on THEN <<>>
             ELSE Answers(r.waiters, FALSE)
                  \o (IF r.id = 0 THEN <<>> ELSE <<Status(r, TRUE)>>)]

----------------------------------------------------------------------------
(***************************************************************************)
(* Runtime units, each ending with its publication.                        *)
(***************************************************************************)

\* A unit commits: rows of the watched Model change, by identity or all at
\* once, or another Model's do; or the load of the Stream advances.
CommitRows ==
    /\ life = "open" /\ use = "watch" /\ commits < MaxCommits
    /\ commits' = commits + 1
    /\ \E rows \in [Keys -> Vals \cup {0}], all, fails \in BOOLEAN :
         LET keys == {k \in Keys : rows[k] # store.rows[k]}
             read == observer.on /\ (keys # {} \/ all \/ observer.retry)
             done == Refresh(observer, rows, keys, all, fails)
         IN /\ fails => read /\ readFailures < MaxReadFailures
            /\ readFailures' = IF fails THEN readFailures + 1 ELSE readFailures
            /\ store' = [store EXCEPT !.rows = rows]
            /\ observer' = done.watch
            /\ events' = events \o done.out
    /\ UNCHANGED <<use, life, reg, issued, tasks, bridge, watcher, handle, calls, resets>>

CommitLoad ==
    /\ life = "open" /\ use = "stream" /\ store.load < 2
    /\ store' = [store EXCEPT !.load = @ + 1]
    /\ LET observed == ObserveRun(reg, store.load + 1)
           done == Published(observed.reg)
       IN reg' = done.reg /\ events' = events \o observed.out \o done.out
    /\ UNCHANGED <<use, life, observer, issued, tasks, bridge, watcher, handle, calls,
                   commits, readFailures, resets>>

\* The head task, if it is of this kind.
IsNext(kind) == life = "open" /\ tasks # <<>> /\ Head(tasks).kind = kind

\* `watch`: the query runs now; its failure registers nothing.
RunWatch ==
    /\ IsNext("watch")
    /\ tasks' = Tail(tasks)
    /\ \/ LET done == Snapshot([NoWatch EXCEPT !.on = TRUE, !.rows = Query(store.rows)])
          IN /\ observer' = done.watch
             /\ events' = Append(events, Completed(Task("watch"), TRUE, 0)) \o done.out
             /\ UNCHANGED readFailures
       \/ /\ readFailures < MaxReadFailures
          /\ readFailures' = readFailures + 1
          /\ events' = Append(events, Completed(Task("watch"), FALSE, 0))
          /\ UNCHANGED observer
    /\ UNCHANGED <<use, store, life, reg, issued, bridge, watcher, handle, calls,
                   commits, resets>>

\* `watchSnapshot`: the complete cache is published under a newer version.
RunWatchSnapshot ==
    /\ IsNext("watchSnapshot")
    /\ tasks' = Tail(tasks)
    /\ LET done == IF observer.on THEN Snapshot(observer) ELSE Quiet(observer)
       IN /\ observer' = done.watch
          /\ events' = Append(events, Completed(Head(tasks), observer.on, 0)) \o done.out
    /\ UNCHANGED <<use, store, life, reg, issued, bridge, watcher, handle, calls,
                   commits, readFailures, resets>>

RunUnwatch ==
    /\ IsNext("unwatch")
    /\ tasks' = Tail(tasks)
    /\ observer' = NoWatch
    /\ events' = Append(events, Completed(Head(tasks), TRUE, 0))
    /\ UNCHANGED <<use, store, life, reg, issued, bridge, watcher, handle, calls,
                   commits, readFailures, resets>>

\* `streamSubscribe`: one observer per registration.
RunSubscribe ==
    /\ IsNext("subscribe")
    /\ tasks' = Tail(tasks)
    /\ LET id == IF reg.id = 0 THEN issued + 1 ELSE reg.id
           seen == ObserveRun([reg EXCEPT !.on = TRUE, !.id = id], store.load)
           done == Published(seen.reg)
       IN /\ issued' = IF reg.id = 0 THEN issued + 1 ELSE issued
          /\ reg' = done.reg
          /\ events' = Append(events \o seen.out, Completed(Head(tasks), TRUE, id)) \o done.out
    /\ UNCHANGED <<use, store, life, observer, bridge, watcher, handle, calls,
                   commits, readFailures, resets>>

\* `streamBootstrap`: answered at once for a complete load, else parked.
RunBootstrap ==
    /\ IsNext("bootstrap")
    /\ tasks' = Tail(tasks)
    /\ LET c == Head(tasks).call
           on == [reg EXCEPT !.on = TRUE]
           seen == ObserveRun(IF store.load = 2 THEN on
                              ELSE [on EXCEPT !.waiters = @ \cup {c}], store.load)
           done == Published(seen.reg)
       IN /\ reg' = done.reg
          /\ events' = (IF store.load = 2 THEN Append(events \o seen.out, Completed(Head(tasks), TRUE, 0))
                        ELSE events \o seen.out) \o done.out
    /\ UNCHANGED <<use, store, life, observer, issued, bridge, watcher, handle, calls,
                   commits, readFailures, resets>>

\* `resetStore`: the replica is replaced, every registration closes.
RunReset ==
    /\ IsNext("reset")
    /\ tasks' = Tail(tasks)
    /\ store' = [store EXCEPT !.load = 0]
    /\ LET done == ClosedRegistration(reg)
       IN reg' = done.reg /\ events' = Append(events \o done.out, Completed(Head(tasks), TRUE, 0))
    /\ UNCHANGED <<use, life, observer, issued, bridge, watcher, handle, calls,
                   commits, readFailures, resets>>

\* close(): every queued task fails, every observer ends, then the runtime.
RuntimeClose ==
    /\ life = "open" /\ bridge = "closing"
    /\ life' = "closed"
    /\ tasks' = <<>>
    /\ LET done == ClosedRegistration(reg)
       IN /\ reg' = done.reg
          /\ observer' = NoWatch
          /\ events' = events
               \o [i \in DOMAIN tasks |-> Completed(tasks[i], FALSE, 0)]
               \o done.out
               \o (IF observer.on THEN <<[type |-> "closed"]>> ELSE <<>>)
               \o <<[type |-> "ended"]>>
    /\ UNCHANGED <<use, store, issued, bridge, watcher, handle, calls, commits,
                   readFailures, resets>>

----------------------------------------------------------------------------
(***************************************************************************)
(* The watch receiver.                                                     *)
(***************************************************************************)

\* Every row of a delivery decodes.
Decodes(rows) == \A i \in DOMAIN rows : rows[i][2] \notin Bad

\* The delivery is valid for the receiver's version and its rows decode.
Accepts(r, e) ==
    IF e.type = "full" THEN e.version > r.version /\ Decodes(e.rows)
    ELSE /\ r.version # 0 /\ e.version = r.version + 1
         /\ \A i \in DOMAIN e.splices : Decodes(e.splices[i].rows)

\* The cache after an accepted delivery, which ends a recovery.
Received(r, e) ==
    LET next == IF e.type = "full" THEN e.rows ELSE FoldLeft(Spliced, r.rows, e.splices)
    IN [r EXCEPT !.rows = next, !.version = e.version, !.recovering = FALSE,
                 !.refused = 0, !.shown = next]

\* A patch is ignored while a recovery is due.
Ignored(r, e) == r.recovering /\ e.type = "patch"

----------------------------------------------------------------------------
(***************************************************************************)
(* SDK steps.                                                              *)
(***************************************************************************)

\* Submitting a task: refused once the bridge is closing.
Submitted(t) == IF bridge = "open" THEN Append(tasks, t) ELSE tasks

Watch ==
    /\ use = "watch" /\ watcher.phase = "idle" /\ bridge = "open"
    /\ watcher' = [watcher EXCEPT !.phase = "asked"]
    /\ tasks' = Append(tasks, Task("watch"))
    /\ UNCHANGED <<use, store, life, observer, reg, issued, events, bridge, handle,
                   calls, commits, readFailures, resets>>

\* The function watch() returned: delivery stops, and the observer is given up
\* when it is known already.  A refused `unwatch` detaches at once.
Stop ==
    /\ watcher.phase \in {"asked", "attached"} /\ ~watcher.stopped
    /\ watcher' = [watcher EXCEPT !.stopped = TRUE,
                      !.routed = @ /\ (bridge = "open" \/ watcher.phase # "attached")]
    /\ tasks' = IF watcher.phase = "attached" THEN Submitted(Task("unwatch")) ELSE tasks
    /\ UNCHANGED <<use, store, life, observer, reg, issued, events, bridge, handle,
                   calls, commits, readFailures, resets>>

\* Client.close: the bridge closes.
CloseClient ==
    /\ bridge = "open"
    /\ bridge' = "closing"
    /\ UNCHANGED <<use, store, life, observer, reg, issued, tasks, events, watcher,
                   handle, calls, commits, readFailures, resets>>

\* bootstrap(): subscribe, then the handle's own bootstrap.
CallBootstrap(c) ==
    /\ use = "stream" /\ calls[c].state = "unused" /\ bridge = "open"
    /\ calls' = [calls EXCEPT ![c].state = "subscribing"]
    /\ tasks' = Append(tasks, [kind |-> "subscribe", call |-> c])
    /\ UNCHANGED <<use, store, life, observer, reg, issued, events, bridge, watcher,
                   handle, commits, readFailures, resets>>

ResetStore ==
    /\ use = "stream" /\ resets < MaxResets /\ bridge = "open"
    /\ resets' = resets + 1
    /\ tasks' = Append(tasks, Task("reset"))
    /\ UNCHANGED <<use, store, life, observer, reg, issued, events, bridge, watcher,
                   handle, calls, commits, readFailures>>

\* The call goes on with the handle it was answered: a closed one refuses.
Continue(c) ==
    /\ calls[c].state = "subscribed"
    /\ LET open == handle.live /\ handle.id = calls[c].id /\ bridge = "open"
       IN /\ calls' = [calls EXCEPT ![c].state = IF open THEN "waiting" ELSE "rejected"]
          /\ tasks' = IF open THEN Append(tasks, Bootstrap(c)) ELSE tasks
    /\ UNCHANGED <<use, store, life, observer, reg, issued, events, bridge, watcher,
                   handle, commits, readFailures, resets>>

\* The next event is of this type.
IsEvent(type) == bridge # "closed" /\ events # <<>> /\ Head(events).type = type
OfTask(kind) == IsEvent("completed") /\ Head(events).task.kind = kind

WatchSettledForgets ==
    /\ OfTask("watch")
    /\ events' = Tail(events)
    /\ watcher' = [watcher EXCEPT !.phase = IF Head(events).ok THEN "attached" ELSE "failed",
                                  !.routed = Head(events).ok]
    /\ UNCHANGED <<use, store, life, observer, reg, issued, tasks, bridge, handle, calls,
                   commits, readFailures, resets>>
\* The watch task's `settled` hook: the snapshots are routed from here on; a
\* watch stopped meanwhile is given up.
WatchSettled ==
    /\ OfTask("watch")
    /\ events' = Tail(events)
    /\ IF Head(events).ok
       THEN /\ watcher' = [watcher EXCEPT !.phase = "attached",
                              !.routed = ~watcher.stopped \/ bridge = "open"]
            /\ tasks' = IF watcher.stopped THEN Submitted(Task("unwatch")) ELSE tasks
       ELSE watcher' = [watcher EXCEPT !.phase = "failed"] /\ UNCHANGED tasks
    /\ UNCHANGED <<use, store, life, observer, reg, issued, bridge, handle, calls,
                   commits, readFailures, resets>>

\* One published result: dropped when nobody listens or a recovery is due;
\* delivered; or a failure, which asks for one snapshot until a full result.
\* The application may stop the watch from its onError.
Delivered ==
    /\ IsEvent("full") \/ IsEvent("patch")
    /\ events' = Tail(events)
    /\ LET e == Head(events)
           listens == watcher.routed /\ ~watcher.stopped
       IN \/ /\ ~listens \/ Ignored(watcher, e)
             /\ UNCHANGED <<watcher, tasks>>
          \/ /\ listens /\ ~Ignored(watcher, e) /\ Accepts(watcher, e)
             /\ watcher' = Received(watcher, e)
             /\ UNCHANGED tasks
          \/ /\ listens /\ ~Ignored(watcher, e) /\ ~Accepts(watcher, e)
             /\ \E stops \in BOOLEAN :
                  /\ watcher' = [watcher EXCEPT !.recovering = TRUE, !.refused = @ + 1,
                                    !.stopped = stops, !.routed = ~stops \/ bridge = "open"]
                  /\ tasks' = IF stops THEN Submitted(Task("unwatch"))
                              ELSE IF watcher.recovering THEN tasks
                              ELSE Submitted(Task("watchSnapshot"))
    /\ UNCHANGED <<use, store, life, observer, reg, issued, bridge, handle, calls,
                   commits, readFailures, resets>>

\* The terminal snapshot: the watch is stopped and its route ends.
WatchClosed ==
    /\ IsEvent("closed")
    /\ events' = Tail(events)
    /\ watcher' = [watcher EXCEPT !.stopped = @ \/ watcher.routed, !.routed = FALSE]
    /\ UNCHANGED <<use, store, life, observer, reg, issued, tasks, bridge, handle,
                   calls, commits, readFailures, resets>>

\* A confirmed (or failed) `unwatch` detaches the route; the answer to
\* `watchSnapshot` or `resetStore` changes nothing.
TaskSettled ==
    /\ OfTask("unwatch") \/ OfTask("watchSnapshot") \/ OfTask("reset")
    /\ events' = Tail(events)
    /\ watcher' = [watcher EXCEPT !.routed = @ /\ ~OfTask("unwatch")]
    /\ UNCHANGED <<use, store, life, observer, reg, issued, tasks, bridge, handle,
                   calls, commits, readFailures, resets>>

\* The `settled` hook of subscribe: the cached handle, or a new one, attached
\* to the observer.
Subscribed ==
    /\ OfTask("subscribe")
    /\ events' = Tail(events)
    /\ LET c == Head(events).task.call
           ok == Head(events).ok
       IN /\ handle' = IF ok /\ ~handle.live
                       THEN [live |-> TRUE, id |-> Head(events).value, status |-> 0]
                       ELSE handle
          /\ calls' = [calls EXCEPT ![c] =
                 [state |-> IF ok THEN "subscribed" ELSE "rejected", id |-> handle'.id]]
    /\ UNCHANGED <<use, store, life, observer, reg, issued, tasks, bridge, watcher,
                   commits, readFailures, resets>>

\* A status snapshot for the handle its observer is routed to; the terminal
\* one closes the handle, which is forgotten.
StatusChanged ==
    /\ IsEvent("status")
    /\ events' = Tail(events)
    /\ LET e == Head(events) IN
         handle' = IF handle.live /\ handle.id = e.id
                   THEN [handle EXCEPT !.status = e.status, !.live = ~e.closed]
                   ELSE handle
    /\ UNCHANGED <<use, store, life, observer, reg, issued, tasks, bridge, watcher,
                   calls, commits, readFailures, resets>>

\* The answer of a bootstrap call.
BootstrapSettled ==
    /\ OfTask("bootstrap")
    /\ events' = Tail(events)
    /\ calls' = [calls EXCEPT ![Head(events).task.call].state =
                    IF Head(events).ok THEN "resolved" ELSE "rejected"]
    /\ UNCHANGED <<use, store, life, observer, reg, issued, tasks, bridge, watcher,
                   handle, commits, readFailures, resets>>

\* runtimeClosed: #terminate rejects every route and drops every observer,
\* then Subscriptions.closed stops the handle the runtime did not end.
Terminated ==
    /\ IsEvent("ended")
    /\ events' = <<>>
    /\ bridge' = "closed"
    /\ watcher' = [watcher EXCEPT !.routed = FALSE,
                      !.phase = IF @ = "asked" THEN "failed" ELSE @]
    /\ calls' = [c \in Calls |->
                    IF calls[c].state \in {"subscribing", "waiting"}
                    THEN [calls[c] EXCEPT !.state = "rejected"] ELSE calls[c]]
    /\ handle' = [handle EXCEPT !.live = FALSE]
    /\ UNCHANGED <<use, store, life, observer, reg, issued, tasks, commits,
                   readFailures, resets>>

----------------------------------------------------------------------------
RuntimeUnit ==
    \/ RunWatch \/ RunWatchSnapshot \/ RunUnwatch \/ RunSubscribe \/ RunBootstrap
    \/ RunReset \/ RuntimeClose

Dispatch ==
    \/ WatchSettled \/ Delivered \/ WatchClosed \/ TaskSettled \/ Subscribed
    \/ StatusChanged \/ BootstrapSettled \/ Terminated
    \/ \E c \in Calls : Continue(c)

ObserversNext ==
    \/ CommitRows \/ CommitLoad
    \/ RuntimeUnit \/ Dispatch
    \/ Watch \/ Stop \/ CloseClient \/ ResetStore
    \/ \E c \in Calls : CallBootstrap(c)

\* The runtime runs its units, and the event loop dispatches what it drained.
ObserversFairness == WF_observersVars(RuntimeUnit) /\ WF_observersVars(Dispatch)

ObserversSpec ==
    ObserversInit /\ [][ObserversNext]_observersVars /\ ObserversFairness

----------------------------------------------------------------------------
\* Nothing is under way between the application and the runtime.
Settled == tasks = <<>> /\ events = <<>> /\ \A c \in Calls : calls[c].state # "subscribed"

\* What the application sees is what the Store holds, once every published
\* event is dispatched: the listener's rows are the runtime's rows (the
\* committed rows unless the last read failed), a Stream handle's status is
\* the load's, and no bootstrap call waits for a load that is complete.  Only
\* a watch whose recovery snapshot was refused too stays behind.
ObserversConverge ==
    Settled /\ bridge = "open" =>
        /\ watcher.phase = "attached" /\ ~watcher.stopped =>
             /\ observer.on
             /\ ~observer.retry => observer.rows = Query(store.rows)
             /\ IF watcher.recovering THEN watcher.refused > 1
                ELSE watcher.shown = observer.rows
        /\ handle.live => reg.id = handle.id /\ handle.status = store.load
        /\ store.load = 2 => \A c \in Calls : calls[c].state # "waiting"

\* A watch the application stopped is given up by the runtime and its route
\* removed, even when it was stopped before its registration was answered.  (A
\* stopped watch stays stopped, so this says that stopping leads to it.)
StoppedIsReleased == []<>(watcher.stopped => ~observer.on /\ ~watcher.routed)

============================================================================
