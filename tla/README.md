# A TLA+ model of the grafana-app-sdk operator runtime

The grafana-app-sdk is a Go library for writing Kubernetes-style operators. What
can go wrong in it, and is hard to test, is the runtime: goroutines that start
and stop each other, queues between informers and handlers, retries that race
with newer events, and the finalizer protocol that has to survive conflicts,
lost answers and restarts. That runtime is modelled here, one module per
component, model-checked with TLC; all the safety properties are also proved with TLAPS.

Every definition that models code is listed, with its lines, under `map` in
`PROJECT.json`; definitions keep the names of the code where TLA+ allows it.
Definitions called `Mut...` are deliberately wrong variants, each placed before
the definition it replaces: exchanging the two must break the property named in
`PROJECT.json`. No specification uses them.

## The system

    API server --list/watch--> Reflector --DeltaFIFO--> informer --events--> InformerController
        ^                                                                       |  watchers, reconcilers
        |  patches of finalizers, stores, admission                             |  failed calls
        +---------------------------------------------------------------------- v
                                                                         RetryProcessor (worker pool)
    operator.Runner and the app.Runnable trees: MultiRunner, DynamicMultiRunner, SingletonRunner

| Component | State | Operations | What is hard | Correct when |
|---|---|---|---|---|
| Retry processor `operator/retry_processor.go` | a heap, a wake channel and a worker per shard | Enqueue, Dequeue, DequeueAll, Run/processReady | handlers and clock interleave between the locked phases | nothing lost, duplicated, over budget or concurrent per key; workers stop |
| OpinionatedWatcher `operator/opinionatedwatcher.go`, `finalizers.go` | only the object's finalizers | Add, Update, Delete; add/replace/remove finalizer with conflict loop | stale and shared copies, lost answers, crashes, retries racing events | finalizers leave only after DeleteFunc, tell new objects from handled ones, and do leave |
| OpinionatedReconciler `operator/reconciler.go` | the object's finalizer, the State of a request | Reconcile | as the watcher; a State that is lost | Deleted is reconciled before the object goes; the last generation is reconciled |
| InformerController `operator/informer_controller.go` | lists of informers, watchers, reconcilers; queued retries | add/remove, event handlers, doReconcile, retryTicker | retries beside events, lists changed while ranged over | the lists are what was asked for, a failed call waits exactly once |
| Reflector `k8s/cache/reflector.go`, `controller.go` | last resource version, watch | list, watch, watchList, resync | expired versions, broken watches, lagging servers | never back in time, the store converges |
| Informers, custom cache, memcached `operator/informer_*.go`, `cache_memcached.go` | object cache, key index | processDeltas, store operations, syncKeys | failing half-way, restart with an old index | handlers hear what the store holds, what is cached is listed |
| bufferedQueue, processor, concurrentWatcher `operator/informer_processor.go`, `concurrentwatcher.go` | two channels, a ring buffer, a stop flag | push, run, stop | close against send, lock held while blocked | FIFO, no send on a closed channel, nobody blocks |
| Stores `resource/*store.go`, `updater.go`, `k8s/client.go`, `gvclient.go` | none | CRUD, Upsert, UpdateObject | read-modify-write of several clients | no lost update, failure only against a race |
| WatchResponse `k8s/gvclient.go` | channels, two goroutines | WatchEvents, KubernetesWatch, Stop | switch and stop while an event is in hand | every event once, goroutines end when Stop meets the translation |
| SingletonRunner `app/runner.go` | running flag, shared context, WaitGroup | Run | calls that start and end around the reset of the flag | independent calls, restart possible |
| MultiRunner `app/runner.go` | goroutine and error per runner | Run | errors that arrive after a timeout or the return | Run returns, no goroutine hangs |
| DynamicMultiRunner `app/runner.go` | list of runners, running flag | Run, AddRunnable, RemoveRunnable | adding and removing around start and stop | what is listed runs, what is removed ends |
| Operator runner `operator/runner.go`, `metrics_server.go`, maps of `k8s/webhooks.go` | running flag, WaitGroup, registrations at shared servers | Run | several Runs sharing servers, one draining while another starts | nothing but the known reuses ends the process, flag is reset |
| Admission `k8s/admission.go`, `webhooks.go`, `apiserver/admission.go`, `strategy.go`, `simple/app.go` | configuration | Mutate, Validate, PrepareForUpdate | controllers that see each other's results, concurrent requests | protected metadata is true, honest requests are admitted |

## Modules

**`RetryProcessor`** (`MCRetryProcessor` gives it shards and a backoff). The heap of
a shard is a set of requests; popping takes the due ones with the least
`RetryAfter` first. A worker's `pc` is the phase of `processReady`: `OnWake` or
`OnTick` is phase 1 (pop, locked), `RunRetryFunc` one retry of phase 2
(unlocked), `Requeue` phase 3 (locked). `Enqueue`, `Dequeue` and `DequeueAll` are
the calls of event handlers. `Cancel`, `Advance` and `SetRetryPolicy` are the
context, the clock and the exported field that phase 3 reads when it needs it.
`fate`, `fails` and `superseded` are history variables.

**`FinalizedObject`** is what the watcher and the reconciler share: one object at the
API server, the informer that delivers it, the finalizer operations and the retries.
`log` holds the versions at the API server (external): a patch that does not carry
the latest resource version is a conflict, a JSON patch whose path is missing is
refused, a patch that adds a finalizer to an object being deleted is refused, an
object being deleted vanishes with its last finalizer. `mem` holds the operator's
copies: an object of a list is the object of the informer's cache, so that a
refresh by `PatchInto` or `GetInto` also changes what the next event has as its old
object; an object of a watch is a fresh one. Decoding JSON into an object merges
(`Merges`; k8s.Client), replacing its metadata does not (simple.App's patcher). The
conflict loops of the three finalizer operations have the same shape and are one
pair of actions.

**`OpinionatedWatcher`** adds the control flow of Add and Update: `Start...` and
`NextStep` give the step of a call after the one that succeeded. Every user function
and API call is a step of its own, so that events, the retrier and crashes come
between any two. **`OpinionatedReconciler`** adds Reconcile with its State, which
doReconcile keeps from the first handling only, and RequeueAfter.

**`ListMap`** holds the operations of the lists as pure operators on explicit arrays:
a slice is a window of an array, `remove` shifts in place, `AddItem` writes into
free capacity. **`InformerController`** dispatches the events of one object over such
lists. `handler` is an informer's goroutine: `Event` starts one of the three event
handlers, `RangeLoads` takes the slice, and for each index the element is read, the
retries of its key are dequeued, the call returns and a failure is queued.
`ticker` is the legacy retryTicker: `Tick` chooses which waiting retries are due,
`StartKey` locks a key, `RunRetry` runs one retry under the lock, `RetriesRemoved`
unlocks, `AddBack` queues what is to be repeated. Go's race between a read of an
element and an in-place shift is resolved to the old or the new element; a torn
interface value is left out. The path with a RetryProcessor is modelled by that
module, whose `Enqueue` and `Dequeue` are then the calls made here.

**`DeltaFIFO`** is client-go's queue (external) as operators. **`CustomCacheInformer`**
composes the Reflector, the queue, `processDeltas`, the store and the handler.
A resource version is a position in the log of changes. `pc` is where ListAndWatch
is; `relistResourceVersion` gives the versions a list may be answered with. Faults
are failed requests, ended watches, expired versions, evictions and failing memcached
operations, which either did nothing or were done at the server and the answer lost
(a timeout): `unanswered` are the keys of adds that were done and not heard of.
`Restart` keeps what is in memcached. `told` is the version last pushed to the queue of
the handler; delivery from there is `BufferedQueue`'s subject. The `untracked` backend is defined and not part of the run:
without key tracking the code makes no promise to check.

**`EventStream`** is what a bufferedQueue promises: a FIFO that drops what is
waiting when it is shut. **`BufferedQueue`** is the queue: a producer in `sending`
holds the read lock of `stopMux` and blocks in its send; `event` is the local
variable of `run`, `buf` the ring buffer. `ctxStops`, chosen once, selects the
consumer: a listener, whose loop ends with the channel and which the processor
stops, or a worker of concurrentWatcher, which leaves with its context and then
stops the queue. `blocking`, chosen once, says whether its handler may never return.

**`SingletonRunner`**. Executions of the
wrapped Runnable are numbered; `cur` is the one `s.ctx` and `s.cancel` belong to.
Reads of these fields without the mutex are steps that see `cur` at that
moment. `Wait` and `WaitReturns` are `sync.WaitGroup.Wait` (external) with its
documented panic on reuse; the panic ends the behaviour.

**`MultiRunner`**, **`DynamicMultiRunner`**. A runner's goroutine goes from `run` to
`failed` (wg.Done was called, the error is not delivered) to `exited`; that of a
MultiRunner is `locked` in between, when it holds `errsClosedMux` to send its error, and
`Close` waits for that mutex, so that a sender that is stuck holds up Run. `waiter` in
a DynamicMultiRunner is `sync.WaitGroup.Wait` (external), which panics when
AddRunnable has raised the counter between its being woken and its return. `main` is the
goroutine of Run. The flags `timedOut` and `mainTimedOut` are read without a lock:
a goroutine may see the old value. Whether ExitWait is set is a variable chosen
once in Init, so that a run covers both. The list of a DynamicMultiRunner is a set,
its Runnables being distinct and added once each.

**`OperatorRunner`**: calls of Runner.Run that share the WaitGroup, the flag, the
webhook server's controllers, the patterns of the metrics server and the
Prometheus registry. A call's runnable at each of the two servers is `none`, `in` or
`out`: it returns on its own, so that a call whose servers are `out` and whose `pc` is
`running` has an app that still drains. Of each server's SingletonRunner the flag and
the waiter are kept (`single`), the details being `SingletonRunner`'s subject; the
servers themselves are never cancelled. The controllers of the webhook server are in Go
maps without a lock: a write (`AddController`, `Added`) and a lookup by the server
(`HandleRequest`) have a begin and an end, and two of them at a time, one a write, may end
the process. One map stands for the three, which the same calls write and read.
**`Admission`**: the requests of users to one object, under every combination of
transport (webhook, API server), declared operations and implemented controllers.
`statusField` says whether an object at the API server always has a status to keep.
Time stamps are integers: that `admission.go:145` compares `time.Time` with `!=`, which also
compares the Location, and that text that is no time is read as the zero time, are
left out.
`MCOperator` runs the two side by side, each behaviour being one of either.

**`Store`**: the operations of the three stores and `UpdateObject` as the requests they
make; an object's content is a set of labels, of which each client adds or removes its
own. **`WatchResponse`**: the two goroutines of a watch and its user, who may call Stop at
any point, before WatchEvents, after KubernetesWatch or a second time; `WatchEvents` and
`KubernetesWatch` are each called at most once, and not after Stop. `MCClients` runs
the two side by side in the same way.

Theorems are in **`RetryProcessorProofs`**, **`InformerProofs`** (`CustomCacheInformer` and
`BufferedQueue`), **`ControllerProofs`** (`InformerController` and `DynamicMultiRunner`),
**`SingletonRunnerProofs`**, **`OpinionatedWatcherProofs`**, **`OpinionatedReconcilerProofs`**,
**`ClientsProofs`** (`Store` and `WatchResponse`) and **`OperatorProofs`** (`OperatorRunner`,
`MultiRunner` and `Admission`). Where two components share a module of proofs, the
specification of one has a prefix: `QueueSpec`, `DynamicSpec`, `RunnerSpec`, ...

## Runs

| Run | Shows |
|---|---|
| `retry` | two shards, two requests, all interleavings of handlers, workers and clock: each retry has exactly one fate and stays in its budget (`Accounted`), retries of a key are serial; a due retry is taken up, a cancelled processor stops |
| `controller` | three watchers and a reconciler, two events, the ticker and users who change the lists: the lists are what was asked for and nothing removed before an event is called for it (`ListsAsPromised`), each failed call waits for its retry exactly once, event handling ends |
| `watcher` | finalizers go only after DeleteFunc (`FinalizerGuardsDelete`), mark only added objects and hold the object during Add (`AddIsGuarded`); a deleted object goes away after faults and a crash, if the informer does not share its objects |
| `watcher_lost_delete` | *violation*: a conflict refreshes the informer's own object, the update with the deletion compares equal to it and is ignored; DeleteFunc is never called |
| `reconciler` | a marked object does not go before Deleted was reconciled, a deleted one goes, the last generation is reconciled |
| `informer` | list, watch and watch-list over failing servers: versions never go back, for the handler neither; the handler has been told of what a store in memory holds, up to tombstones; what is cached is listed unless the answer to its Add was lost, the store in memory converges |
| `queue` | FIFO refinement, no send on a closed channel; push, stop and delivery do not get stuck |
| `clients` | stores: no lost update where a version is sent, failures only against a race; watch: every event once, a Stop that meets the translation returns and ends both goroutines |
| `singleton` | independent calls, the flag reset only by its own waiter; cancelled calls return and a restart is possible |
| `multi` | with and without ExitWait: no blocked send, no return before the runners without a timeout (`WaitsForRunners`), failures handled, Run gets the mutex for its close and returns |
| `dynamic` | with and without ExitWait: listed is started, removed ends, Run returns and senders are released, unless the WaitGroup was reused |
| `operator` | which Runs that share a Runner can end the process (`PanicsOnlyOnReuse`), the flag is reset; admission keeps the protected metadata true and admits who leaves it alone |

### Refuted statements

`watcher_lost_delete` has a run. The following are refuted by TLC when the named
definition is added to the run of its module, or follow from a part of the model that
a property has to except; `findings` in `PROJECT.json` quotes the ones that contradict
a line of the repository.

Retries and dispatch
- `SupersededNotQueued` (`RetryProcessor`): "DequeueAll removes all items for a key"
  (`operator/retry_processor.go:39`) is not true of a request a worker has popped: it is pushed back
  after the dequeue. The legacy ticker does the same.
- `ListedIsCalled` (`InformerController`, four watchers): a watcher removed while it is being called
  makes Range pass over its successor (`operator/util.go:186`).

Finalizers
- ReplaceFinalizer adds `toReplace` where its comment says `replaceWith` (`operator/finalizers.go:113`).
- Update calls AddFunc for an object without a finalizer and without setting the in-progress one
  (`operator/opinionatedwatcher.go:309`), so a delete in between is missed; `AddIsGuarded` is about Add.
- A relist that skips versions is delivered as one update; a generation that was raised while the old
  object lacked the finalizer is taken for the operator's own change and ignored
  (`operator/opinionatedwatcher.go:328-387`).
- After the last foreign finalizer is gone, the JSON patch of a stale copy has no list to append to and
  is refused instead of answered with a conflict, so the conflict loop does not help.
- `DeletedIsReconciled` is about marked objects: an object deleted between a successful Created and the
  patch goes without Deleted. `reconciler.go:160` says an Update with a DeletionTimestamp is not
  delegated; the code delegates it as Deleted. A resync is reported for objects whose Created never
  succeeded, and the State returned by a retry is dropped (`informer_controller.go:629`).

Informers
- `NoDeleteMissed` (`CustomCacheInformer`): a deletion found by a relist comes as a tombstone, which
  cannot be converted; no watcher hears of it (`informer_controller.go:281`).
- In watch-list mode the store is not replaced (`k8s/cache/reflector.go`): objects deleted while the
  watch was broken stay; `Converged` excepts it.
- Memcached: keys are loaded under the name without the ShardKey (`cache_memcached.go:326`), and a
  failed operation drops the remaining deltas; `CachedIsListed` is stated up to the first restart and
  `HandlerFollowsStore` for a store in memory.
- Memcached: an Add that the server has done and the client has not heard of leaves the object cached
  and its key untracked (`cache_memcached.go:180-187`), until a later Add or Get meets it.
  `CachedIsListed` excepts these keys (`unanswered`).

Clients
- UpdateObject decodes the server's answer into the changed object, which merges maps: a label that
  another client removed comes back (`NoLostUpdate` is about what others have *added*). Store.Update
  without a version and UpdateSubresource take the current version and overwrite.
- `StopReturns` (`WatchResponse`): Stop begins with an unbuffered send on `stopCh`, under
  the lock (`k8s/gvclient.go:684`). Before WatchEvents nobody receives, and every later call waits for
  the lock; after KubernetesWatch or a first Stop the translation has closed the channel (`:673`) and
  the send panics. `StopEnds` is about a Stop that meets the translation.
- WatchResponse.Stop waits for a user who receives; a watch that the server has ended makes the
  translation read empty events until it is stopped.

Runners
- `SingleRunnable` (`SingletonRunner`): the wrapped Runnable is not cancelled when its calls end, so
  that two executions run at once (`app/runner.go:174`).
- `NoWaitGroupReuse` (`SingletonRunner`): a call that joins while the waiter of the previous instance
  is between the two steps of `WaitGroup.Wait` makes it panic (`app/runner.go:174`).
- `OneInstance` (`SingletonRunner`): the waiter passes Wait before it takes
  the mutex; a call that joins in between is left with an instance that is written off, and the next
  one starts another beside it (`app/runner.go:190`, `:207-212`).
- `CompletionEndsCalls` (`SingletonRunner`, three calls): a call can miss the completion of the wrapped
  Runnable, the shared context having been replaced (`app/runner.go:187`).
- `StopAnyStopsAll` (`SingletonRunner` with `StopOnAny = TRUE`): a cancelled call can cancel the context
  of another instance than its own (`app/runner.go:177`).
- `NoSendOnClosed` (`DynamicMultiRunner`): an error returned after cancellation is sent on the channel
  Run has closed (`app/runner.go:411`).
- `RefusedOnlyWhileRunning` (`DynamicMultiRunner`): running is never reset, so a second Run is refused
  for ever (`app/runner.go:257`).
- AddRunnable may raise the WaitGroup's counter (`app/runner.go:405`) when Run already waits for it with
  the counter at zero (`:316`, `:328`): Wait panics if it has not yet returned, and the late Runnable is
  not waited for if it has. The properties of `DynamicMultiRunner` end with the panic.
- `ServersRemain` (`OperatorRunner`): overlapping calls of Runner.Run are promised shared
  servers (`operator/runner.go:126`). But the maps of the webhook server are written by one call while
  the server, or another call, uses them (`k8s/webhooks.go:114`); a second call with the exporter or the
  profiler panics or fails; and a call that starts the metrics server again, when the others have left it
  and perhaps still drain, panics on `/livez` (`operator/metrics_server.go:68`). `PanicsOnlyOnReuse` says
  that nothing else does. Controllers and health checks of ended Runs stay registered.

Admission
- With both opinionated controllers every update of an object is refused: the mutating one sets the
  updateTimestamp, the validating one refuses a change of it (`docs/admission-control.md:87` recommends
  both). A webhook answers a declared but missing controller with a denial where the API server lets the
  request pass. `HonestAdmitted` names exactly these exceptions.
- A plain update sets the status of an untyped object that has none: PrepareForUpdate puts the stored
  status back only where there is one (`k8s/apiserver/strategy.go:78-79`).

### Bounds

Two retries, two keys and two shards are what `SerialPerKey` and the accounting
tell apart; one granted attempt above the first exercises both outcomes of the
policy; a clock of three values has room for a delay and a backoff. Three watchers
are the least of which one is removed by shifting in place; two failed calls or
changes of the lists (`MaxTroubles`) let two retries meet under one key or under two,
and a removal meet an addition. One object suffices for the watcher and the
reconciler because their calls share nothing between objects; two changes by users, a
fault and a crash reach every step and every error path; the code's three conflict
retries are cut to one, which leaves both an absorbed and an exhausted conflict. One
key and three changes let an object be created, changed and deleted, or be deleted and
created again, around a broken watch, an expiry or a restart; more keys only multiply
the interleavings of independent deltas. Two clients with five operations let an update meet more conflicts
than `UpdateObject` retries. Four events are more than the two channels and the two
goroutines of a watch can hold. Three calls of a SingletonRunner are the least in which
a late joiner, an old and a new execution meet; the same holds for Runner.Run, where two
of them have admission, for one kind, and two metrics collectors. Three
runners leave one running while two fail. Two producers of three events fill the local
variable and the buffer and leave one outside. Two users and two writes let a
write fall between another request's admission and its validation. Stopped systems may
rest, so most runs do not check for deadlock; the retry processor never does and there
it is checked. Symmetry is not used, the runs being small enough without.

### Fairness

Goroutines that can run are run by the Go scheduler: weak fairness of their
steps. Go's `select` chooses at random among ready cases, so a worker that passes
its select again and again takes `ctx.Done` in the end: strong fairness of
`OnDone`. Its mutexes do not starve a waiter: strong fairness of the event handler,
which the ticker may lock out again and again. User code is trusted only where a
property needs it: a Runnable to return after cancellation only where no ExitWait is
set or it has been removed, an event handler to return for `HandlingEnds` and
the delivery part of `NeverStuck`, but not where it is `blocking`; the user of a watch to go on
receiving for `StopEnds`. API calls succeed in the end because faults are bounded: the
properties say what holds once failures are over, and retries are enough for that many.
Environment steps (users, faults, crashes, cancellation) are never fair.

## Proofs

Every theorem below holds for every value of the constants that satisfies the named
`ASSUME`s of the modules, all of which TLC evaluates too. Bounds (`MaxOps`, `MaxFaults`,
`MaxEvents`, `MaxTime`, ...) are arbitrary naturals there.

`RetryProcessorProofs`, for every set of keys and workers, every sharding, delay,
backoff and bound:

- `TypeCorrect`: `Spec => []TypeOK`. The content is in `Request`: an attempt never
  exceeds the policy's maximum, since phase 3 increments it only after asking.
- `RetriesOfAKeyAreSerial`: `Spec => []SerialPerKey`. Not inductive by itself: the
  invariant is `Sharded`, every pending request is on the worker of its key. Each
  action either leaves the batches alone, moves requests within a worker, or
  pushes a request on the shard of its key.
- `NoRetryLostOrDoubled`: `Spec => []Accounted`. The invariant is `IInv`: that a retry has
  one place needs that queue, batch and results of a worker share no request (`Disjoint`),
  no two pending requests have one id (`Unique`), results exist only in the phases that
  fill and empty them (`Phased`), and that attempts count the errors.

`InformerProofs`, for every finite set of keys, every history of the API server and any
number of changes, faults and restarts:

- `HandlerSeesTheStore`: `Spec => []HandlerFollowsStore`, by induction over the deltas of a
  key: no round of `processDeltas` on a store in memory leaves the two apart, and
  nothing else changes either.
- `NoKeyForgotten`: `Spec => []CachedIsListed`. The operation that stores an object tracks its
  key, the one that takes it away untracks it, and one that fails does neither, at whichever
  of the deltas it fails; one that was done and not answered leaves its key in `unanswered`.
- `VersionsGoForward`: `Spec => NeverBackInTime`, an action property. For the Reflector it
  needs `Forward`: the version it is about to take as its last is not older than the
  present one. For the handler it needs `Ordered`: the deltas queued for a key are versions of that
  object, each not older than the one before, none older than what the handler knows
  and none newer than what the Reflector has seen; so an event or a list that is queued
  behind them keeps the order, and a round cannot tell the handler of an older version.

The same module, for every set of producers and number of events of a bufferedQueue:

- `ClosedMeansNoSender`: `QueueSpec => []NoSendOnClosed`: `Stop` waits for the read lock and
  `Push` checks the flag.
- `QueueImplementsStream`: `QueueSpec => ImplementsStream`. The abstract queue is
  `event \o buf`, which needs the invariant `BufferBehindEvent` (the buffer is empty
  while no event is offered): without it a new event would overtake the buffer.

`ControllerProofs`, for any finite sets of watchers and reconcilers and any number of
events, attempts and changes of the lists:

- `ListsKeepTheirPromise`: `Spec => []ListsAsPromised`. `ListsOk`: each list is a window of an
  array that shows the registered consumers, each once, and the two lists have no cell
  in common (`Apart`). `Reading`: the slice an event handler has taken is still a window,
  perhaps of an array the list has left; its cells hold only consumers that were listed
  since the handler began, because in-place shifts move such elements, appends write
  elements that are listed from then on, and no operation on the other list reaches the
  array.
- `FailedCallsWaitOnce`: `Spec => []Accounted`. `NotDoubled`: the list of a key, the ticker's
  retries to run and those to add back have no event twice, alone or together, in the
  phases of the ticker. `Owed`: the calls to which a retry is owed are those of the events
  kept in the list or held by the ticker. `CallsToCome`: no retry is owed yet under an index
  the handler has not reached for its event, so that a failing call adds one and not a
  second. What `Selected` leaves of a list is an induction over its loop.
- `NoneForgotten`: `DynamicSpec => []ListedIsStarted`, for any set of Runnables; inductive
  together with the types.

The runners:

- `OperatorProofs`, `RunWaitsAndIsNotHeldUp`: `Spec => []WaitsForRunners`, for any finite
  set of runners. The invariant `ErrsOfExited` says whose errors are in the channel, those
  of runners that have exited; so one that has yet to send, waiting for the mutex or holding
  it, is not among them, and counting the rest leaves room for it.
- `SingletonRunnerProofs`, `CallsAreIndependent`: `Spec => []IndependentLifecycles`, for any
  finite set of calls. It needs that instances are taken in order (`InOrder`), that there
  are no more of them than calls that have joined (`Counted`), and that without StopOnAny
  a context is cancelled only after some wrapped Runnable completed on its own.
- `OperatorProofs`, `KnownPanicsOnly`: `RunnerSpec => []PanicsOnlyOnReuse`, for any set of
  calls, finite or not: that only finitely many have begun is part of the invariant. `MapInv`
  says who uses the webhook server's maps: writers have admission and the server looks
  something up only if such a call has started it, so two uses at a time are of two such
  calls. `ServerInv` says that a server which can be started again, or whose waiter is woken,
  has been left by some call. The rest says which calls must exist for a pattern to be
  registered or the Runner's waiter woken.

Admission, clients and the reconciler:

- `OperatorProofs`: `MetadataIsAttributed` (`[]Attributed`) and `HonestRequestsPass`
  (`[]HonestAdmitted`), for any set of users and all set-ups. Requests overlap, so `AdmissionInv` relates what is on its
  way to what is stored: an honest request carries the protected metadata of the object
  *of its resource version*, and a write gives a new version, so that whatever passes the
  version check carries what is stored now.
- `ClientsProofs`, `OnlyRacesAreLost` (`[]LosesOnlyRaces`) and `NoUpdateIsLost`
  (`NoLostUpdate`, an action property), for any set of clients. `StoreInv` has two parts:
  while the object still has the version an update has read, what the update is about to
  send includes all the labels of others (`ReadsAll`); and where it has another version,
  others have written more often than the operation has tried (`CountsRaces`).
- `ClientsProofs`, `EventsAreDeliveredOnce` (`[]EveryEventOnce`), for every number of events
  and buffer size. What each side has received, has in its channel and has in hand is one
  ascending sequence; a goroutine in the middle of a send holds the latest event, and
  the interceptor starts only when the translator has put its event down (`OneAtATime`).
- `OpinionatedReconcilerProofs`, `FinalizerHoldsTheObject` (`[]DeletedIsReconciled`), for every
  number of attempts, conflicts, faults and crashes and any finite set of foreign
  finalizers, whether decoding merges or not. The invariant is `finished \/ Guarded`: until
  the user's reconciler has handled the deletion, no call in progress is about to remove
  the finalizer and no State kept for a retry would make a later call do so.
- `OpinionatedWatcherProofs`, `ReleasedAfterDeleteFunc` (`[]FinalizerGuardsDelete`) and
  `FinalizerMarksAdded` (`[]AddIsGuarded`), with the same generality. The invariant has three
  parts. `CopiesOk`: a copy has the finalizers of its resource version, or kept older ones
  where that version has none; so a patch that passes the version check makes of the
  object's list what it makes of the copy's. `added \/ Unadded`: before AddFunc has
  succeeded the finalizer is on no version and no copy, and no call is about to put it
  there. `finished \/ Guarded`: before DeleteFunc has succeeded, no version or copy knows of
  a finalizer of ours that the object has lost, a call after SyncFunc finds the finalizer on
  the object, and none removes it. Every step but a crash is one `Step`, a version made or
  copies renewed and one goroutine going on; `StepInv` is about it, the other lemmas show
  that the actions are such steps. What is left of a list by `doRemoveFinalizer` is an
  induction over its loop (`RemovedIsGone`), made by a least counterexample (`LeastNat`):
  the library's induction rules take predicates, which the provers cannot instantiate, but
  that there is a least element of a set they can.

The loops over sequences (`Selected`, `Filled`, `processDeltas`, `doRemoveFinalizer`) are
recursive functions, and what they compute is proved in this way.

Only model-checked is liveness, since fairness and ENABLED are out of the prover's reach:
`DueRetryLeavesHeap`, `RunReturns`, `CancelledCallReturns`, `CanStartAgain`, `RunEnds`,
`FailureReachesHandler`, `RemovedEnds`, `NeverStuck`, `DeletionCompletes`, `HandlingEnds`,
`CacheConverges`, `DeletedObjectGoes`, `EventuallyReconciled`, `StopEnds` and `FlagReset`.

## Not modelled

- Code generation, the CLI and the migration tools are offline text processing, and the
  examples are code made with them; they have no behaviour over time of their own.
- Objects, kinds and manifests are data and their encoding; what decoding does to an
  object that was read before is modelled where it matters (`Decoded`).
- The API server's installer, storage, OpenAPI and REST glue is built once before
  anything is served, and runs inside Kubernetes' generic API server.
- The client registry and manager are lookups and single API calls. Two statements there
  do not agree with the code: `k8s/dynamic.go:36-37` against `:146`, and the comment at
  `k8s/manager.go:111` against the version that gets the storage flag.
- Conversion and the wire format of webhooks; logging, metrics, health checks, tracing
  and plugin routing carry no state the operator depends on.
- Of modelled components: the fan-out of the informer processor (each listener has a
  queue of its own and shares nothing), the registration of handlers by
  ConcurrentInformer, InformerController.Run around its DynamicMultiRunner, duplicates in
  the list of a DynamicMultiRunner, the legacy Operator, lists and custom routes of the
  clients.

## Plan

1. ConcurrentInformer and the fan-out as a composition of `BufferedQueue`s.
2. InformerController.Run composed with `DynamicMultiRunner`.
