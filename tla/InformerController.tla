------------------------- MODULE InformerController -------------------------
(***************************************************************************)
(* operator/informer_controller.go with the legacy retry ticker: one kind, *)
(* one object.  The handler of an informer calls the watchers and then the *)
(* reconcilers for each event and queues the calls that failed; the ticker *)
(* repeats what is due; users add and remove watchers and reconcilers.     *)
(*                                                                         *)
(* retryAfter is abstracted to a choice at each tick of what is due, among *)
(* what was queued before the tick: a retry that is due at a tick is run   *)
(* by it.  The retry policy grants attempts up to MaxAttempts.             *)
(***************************************************************************)
EXTENDS ListMap

CONSTANTS
    Watchers, Reconcilers,
    MaxAttempts,       \* of the RetryPolicy
    MaxEvents,         \* bound: events the informer delivers
    MaxTroubles        \* bound: calls for events that do not succeed, and changes
                       \* to the lists by users, together

ASSUME ControllerAssumption ==
    /\ IsFiniteSet(Watchers) /\ IsFiniteSet(Reconcilers)
    /\ Watchers \cap Reconcilers = {}
    /\ MaxAttempts \in Nat /\ MaxEvents \in Nat /\ MaxTroubles \in Nat

VARIABLES
    opinionated,   \* is RetryDequeuePolicy the opinionated one, or nil?  Chosen once
    mem, list,     \* the arrays, and c.watchers and c.reconcilers of the kind
    toRetry,       \* retry key -> list of retryInfo
    object,        \* generation of the object as the informer knows it, 0 if it has none
    handler,       \* the informer's goroutine in one of the event handlers
    ticker,        \* the goroutine of retryTicker
    events, troubles,
    registered,    \* history: what the two lists should hold
    owed           \* history: is a retry owed to the call for an event under a key?

vars == <<opinionated, mem, list, toRetry, object, handler, ticker, events, troubles, registered, owed>>

lists == <<mem, list, registered>>

Lists == {"watchers", "reconcilers"}

Consumers(l) == IF l = "watchers" THEN Watchers ELSE Reconcilers

(* keyForWatcherEvent, keyForReconcilerEvent: the list and the index in it *)
Keys == UNION {{l} \X (0..(Cardinality(Consumers(l)) - 1)) : l \in Lists}

NoKey == <<"none", 0>>

-----------------------------------------------------------------------------
(* What a handler does next.  Elements are read one at a time, as the loop *)
(* of Range reaches them, from the slice loaded at its start.              *)
Idle == [pc |-> "idle", event |-> [n |-> 0, action |-> "none", gen |-> 0],
         list |-> "watchers", slice |-> Empty, i |-> 0, consumer |-> NoItem,
         known |-> {}, present |-> {}, called |-> {}]

AtIndex(h, i) ==
    IF i < h.slice.len
    THEN [h EXCEPT !.pc = "dequeue", !.i = i, !.consumer = ItemAt(mem, h.slice, i)]
    ELSE [h EXCEPT !.pc = "end", !.i = i, !.consumer = NoItem]

retryKey == <<handler.list, handler.i>>

(* Update is a resync for reconcilers when the resource version is the old *)
(* one; watchers do not tell the two apart.                                *)
Action(l, event) ==
    IF l = "watchers" /\ event.action = "RESYNC" THEN "UPDATE" ELSE event.action

(* OpinionatedRetryDequeuePolicy, or everything if there is no policy.     *)
Dequeues(action, gen, retry) ==
    \/ ~opinionated
    \/ action = "DELETE"
    \/ action = retry.action /\ gen # retry.gen

(* Mutant of RetryPolicy: the bound is off by one.                        *)
MutRetryPolicy(attempt) == attempt <= MaxAttempts + 1

RetryPolicy(attempt) == attempt <= MaxAttempts

(* Mutant of Locked: retryTicker adds its retries back before it unlocks.  *)
MutLocked(key) == ticker.pc \in {"run", "add"} /\ ticker.key = key

(* The lock of a retry key: RemoveItems holds it while the retries run.    *)
Locked(key) == ticker.pc = "run" /\ ticker.key = key

(* AddWatcher, AddReconciler on a record of the lists: c is added to l.    *)
Added(s, l, c) ==
    LET added == AddItem(s.mem, s.list[l], c)
    IN  [mem |-> added.mem, list |-> [s.list EXCEPT ![l] = added.slice],
         registered |-> [s.registered EXCEPT ![l] = Append(@, c)]]

(* The lists after all the consumers were added, in some order.            *)
Filled ==
    LET order == SetToSeq(Watchers \cup Reconcilers)
        filled[n \in 0..Len(order)] ==
            IF n = 0 THEN [mem |-> NoMemory, list |-> [l \in Lists |-> Empty],
                           registered |-> [l \in Lists |-> <<>>]]
            ELSE Added(filled[n - 1], IF order[n] \in Watchers THEN "watchers" ELSE "reconcilers", order[n])
    IN  filled[Len(order)]

Init ==
    /\ opinionated \in BOOLEAN
    /\ mem = Filled.mem /\ list = Filled.list /\ registered = Filled.registered
    /\ toRetry = [k \in Keys |-> <<>>]
    /\ object = 0
    /\ handler = Idle
    /\ ticker = [pc |-> "idle", due |-> {}, key |-> NoKey, todo |-> <<>>, toAdd |-> <<>>]
    /\ events = 0 /\ troubles = 0
    /\ owed = [k \in Keys |-> [n \in 1..MaxEvents |-> FALSE]]

-----------------------------------------------------------------------------
(* informerAddFunc, informerUpdateFunc, informerDeleteFunc are called with *)
(* an event of the object, whose generation an update may raise.           *)
Event(action, gen) ==
    /\ handler.pc = "idle" /\ events < MaxEvents
    /\ \/ action = "CREATE" /\ object = 0 /\ gen = 1
       \/ action = "UPDATE" /\ object # 0 /\ gen \in {object, object + 1}
       \/ action \in {"RESYNC", "DELETE"} /\ object # 0 /\ gen = object
    /\ object' = IF action = "DELETE" THEN 0 ELSE gen
    /\ events' = events + 1
    /\ handler' = [handler EXCEPT !.pc = "range", !.list = "watchers",
                      !.event = [n |-> events + 1, action |-> action, gen |-> gen]]
    /\ UNCHANGED <<opinionated, lists, toRetry, ticker, troubles, owed>>

(* Range loads the slice under the read lock and iterates without it.      *)
RangeLoads ==
    /\ handler.pc = "range"
    /\ LET items == ToSet(registered[handler.list])
       IN  handler' = AtIndex([handler EXCEPT !.slice = list[handler.list],
                                  !.called = {}, !.known = items, !.present = items], 0)
    /\ UNCHANGED <<opinionated, lists, toRetry, object, ticker, events, troubles, owed>>

(* dequeueIfRequired, when the key's lock is free.                         *)
dequeueIfRequired ==
    /\ handler.pc = "dequeue" /\ ~Locked(retryKey)
    /\ LET Dequeued(retry) == Dequeues(Action(handler.list, handler.event), handler.event.gen, retry)
           kept == Selected(toRetry[retryKey], {r \in ToSet(toRetry[retryKey]) : ~Dequeued(r)})
       IN  /\ toRetry' = [toRetry EXCEPT ![retryKey] = kept]
           /\ owed' = [owed EXCEPT ![retryKey] =
                          [n \in DOMAIN @ |->
                              @[n] /\ ~\E r \in ToSet(toRetry[retryKey]) \ ToSet(kept) : r.n = n]]
    /\ handler' = [handler EXCEPT !.pc = "call", !.called = @ \cup {handler.consumer}]
    /\ UNCHANGED <<opinionated, lists, object, ticker, events, troubles>>

(* The watcher's Add, Update or Delete, or Reconcile, returns: success, an *)
(* error, or RequeueAfter, which counts before an error.                   *)
Return(result) ==
    /\ handler.pc = "call"
    /\ result = "requeue" => handler.list = "reconcilers"
    /\ \/ /\ result = "ok"
          /\ handler' = AtIndex(handler, handler.i + 1)
          /\ UNCHANGED troubles
       \/ /\ result # "ok" /\ troubles < MaxTroubles
          /\ handler' = [handler EXCEPT !.pc = "queue"]
          /\ troubles' = troubles + 1
    /\ UNCHANGED <<opinionated, lists, toRetry, object, ticker, events, owed>>

(* queueRetry, and the RequeueAfter of doReconcile: the call is queued for *)
(* its first retry.                                                        *)
queueRetry ==
    /\ handler.pc = "queue" /\ ~Locked(retryKey)
    /\ toRetry' = [toRetry EXCEPT ![retryKey] = Append(@,
                      [n |-> handler.event.n, action |-> Action(handler.list, handler.event),
                       gen |-> handler.event.gen, attempt |-> 0])]
    /\ owed' = [owed EXCEPT ![retryKey][handler.event.n] = TRUE]
    /\ handler' = AtIndex(handler, handler.i + 1)
    /\ UNCHANGED <<opinionated, lists, object, ticker, events, troubles>>

(* The loop over one list is done.                                         *)
RangeEnds ==
    /\ handler.pc = "end"
    /\ handler' = IF handler.list = "watchers"
                  THEN [Idle EXCEPT !.pc = "range", !.list = "reconcilers", !.event = handler.event]
                  ELSE Idle
    /\ UNCHANGED <<opinionated, lists, toRetry, object, ticker, events, troubles, owed>>

-----------------------------------------------------------------------------
Queued == {q \in Keys \X (1..MaxEvents) : \E r \in ToSet(toRetry[q[1]]) : r.n = q[2]}

(* retryTicker: a tick, at which the retries of due are due.               *)
Tick(due) ==
    /\ ticker.pc = "idle" /\ due # {}
    /\ ticker' = [ticker EXCEPT !.pc = "key", !.due = due]
    /\ UNCHANGED <<opinionated, lists, toRetry, object, handler, events, troubles, owed>>

(* RemoveItems locks a key; keys without a due retry are passed over.      *)
StartKey(key) ==
    /\ ticker.pc = "key" /\ \E n \in 1..MaxEvents : <<key, n>> \in ticker.due
    /\ ticker' = [ticker EXCEPT !.pc = "run", !.key = key,
                      !.todo = Selected(toRetry[key], {r \in ToSet(toRetry[key]) : <<key, r.n>> \in ticker.due})]
    /\ UNCHANGED <<opinionated, lists, toRetry, object, handler, events, troubles, owed>>

(* One due retry is run: RequeueAfter keeps its attempt, an error counts   *)
(* one more and asks the policy.                                           *)
RunRetry(result) ==
    /\ ticker.pc = "run" /\ ticker.todo # <<>>
    /\ result = "requeue" => ticker.key[1] = "reconcilers"
    /\ LET retry == Head(ticker.todo)
           again == CASE result = "ok" -> <<>>
                      [] result = "requeue" -> <<retry>>
                      [] result = "err" -> IF RetryPolicy(retry.attempt + 1)
                                           THEN << [retry EXCEPT !.attempt = @ + 1] >>
                                           ELSE <<>>
       IN  /\ ticker' = [ticker EXCEPT !.todo = Tail(@), !.toAdd = @ \o again]
           /\ owed' = [owed EXCEPT ![ticker.key][retry.n] = again # <<>>]
    /\ UNCHANGED <<opinionated, lists, toRetry, object, handler, events, troubles>>

(* The ticker adds back what is to be repeated and goes on to another key. *)
AfterKey(t) ==
    IF t.toAdd # <<>> THEN [t EXCEPT !.pc = "add"]
                      ELSE [t EXCEPT !.pc = IF t.due = {} THEN "idle" ELSE "key", !.key = NoKey]

(* What RemoveItems leaves of the list.                                    *)
NotRun == Selected(toRetry[ticker.key],
                   {r \in ToSet(toRetry[ticker.key]) : <<ticker.key, r.n>> \notin ticker.due})

(* Mutant of RetriesRemoved: retries queued again while RemoveItems works  *)
(* on the list are overwritten by it.                                      *)
MutRetriesRemoved ==
    /\ ticker.pc = "run" /\ ticker.todo = <<>>
    /\ toRetry' = [toRetry EXCEPT ![ticker.key] = NotRun]
    /\ ticker' = AfterKey([ticker EXCEPT !.due = {d \in @ : d[1] # ticker.key}, !.toAdd = <<>>])
    /\ UNCHANGED <<opinionated, lists, object, handler, events, troubles, owed>>

(* RemoveItems stores what was not run and unlocks the key.                *)
RetriesRemoved ==
    /\ ticker.pc = "run" /\ ticker.todo = <<>>
    /\ toRetry' = [toRetry EXCEPT ![ticker.key] = NotRun]
    /\ ticker' = AfterKey([ticker EXCEPT !.due = {d \in @ : d[1] # ticker.key}])
    /\ UNCHANGED <<opinionated, lists, object, handler, events, troubles, owed>>

(* The retries to be repeated are added back one by one.                   *)
AddBack ==
    /\ ticker.pc = "add" /\ ~Locked(ticker.key)
    /\ toRetry' = [toRetry EXCEPT ![ticker.key] = Append(@, Head(ticker.toAdd))]
    /\ ticker' = AfterKey([ticker EXCEPT !.toAdd = Tail(@)])
    /\ UNCHANGED <<opinionated, lists, object, handler, events, troubles, owed>>

(* The context of Run is done and the select of the ticker sees it.        *)
TickerStops ==
    /\ ticker.pc = "idle"
    /\ ticker' = [ticker EXCEPT !.pc = "stopped"]
    /\ UNCHANGED <<opinionated, lists, toRetry, object, handler, events, troubles, owed>>

-----------------------------------------------------------------------------
Ranging(l) == handler.list = l /\ handler.pc \notin {"idle", "range"}

(* AddWatcher, AddReconciler.                                              *)
AddConsumer(l, c) ==
    /\ troubles < MaxTroubles /\ c \notin ToSet(registered[l])
    /\ LET added == Added([mem |-> mem, list |-> list, registered |-> registered], l, c)
       IN  mem' = added.mem /\ list' = added.list /\ registered' = added.registered
    /\ handler' = IF Ranging(l) THEN [handler EXCEPT !.known = @ \cup {c}] ELSE handler
    /\ troubles' = troubles + 1
    /\ UNCHANGED <<opinionated, toRetry, object, ticker, events, owed>>

(* RemoveWatcher, RemoveReconciler: the retries stay.                      *)
RemoveConsumer(l, c) ==
    /\ troubles < MaxTroubles
    /\ LET removed == RemoveItem(mem, list[l], c)
       IN  mem' = removed.mem /\ list' = [list EXCEPT ![l] = removed.slice]
    /\ \E i \in DOMAIN registered[l] :
          registered[l][i] = c /\ registered' = [registered EXCEPT ![l] = RemoveAt(@, i)]
    /\ handler' = IF Ranging(l) THEN [handler EXCEPT !.present = @ \ {c}] ELSE handler
    /\ troubles' = troubles + 1
    /\ UNCHANGED <<opinionated, toRetry, object, ticker, events, owed>>

(* RemoveAllWatchersForResource, RemoveAllReconcilersForResource.          *)
RemoveAll(l) ==
    /\ troubles < MaxTroubles /\ registered[l] # <<>>
    /\ list' = [list EXCEPT ![l] = Empty]
    /\ registered' = [registered EXCEPT ![l] = <<>>]
    /\ handler' = IF Ranging(l) THEN [handler EXCEPT !.present = {}] ELSE handler
    /\ troubles' = troubles + 1
    /\ UNCHANGED <<opinionated, mem, toRetry, object, ticker, events, owed>>

HandlerStep ==
    \/ RangeLoads \/ dequeueIfRequired \/ queueRetry \/ RangeEnds
    \/ \E result \in {"ok", "err", "requeue"} : Return(result)

TickerStep ==
    \/ \E key \in Keys : StartKey(key)
    \/ \E result \in {"ok", "err", "requeue"} : RunRetry(result)
    \/ RetriesRemoved \/ AddBack

Next ==
    \/ \E action \in {"CREATE", "UPDATE", "RESYNC", "DELETE"}, gen \in 1..MaxEvents : Event(action, gen)
    \/ HandlerStep \/ TickerStep \/ TickerStops
    \/ \E due \in SUBSET Queued : Tick(due)
    \/ \E l \in Lists : \/ RemoveAll(l)
                        \/ \E c \in Consumers(l) : AddConsumer(l, c) \/ RemoveConsumer(l, c)

Spec == Init /\ [][Next]_vars

(* Goroutines run and consumers return; a goroutine that waits for a lock  *)
(* gets it, as Go's mutexes do not starve: strong fairness of the handler, *)
(* which the ticker may lock out again and again.                          *)
FairSpec == Spec /\ SF_vars(HandlerStep) /\ WF_vars(TickerStep)

-----------------------------------------------------------------------------
(* A watcher or reconciler that was removed before a handler started on    *)
(* the list is not called for the event, whatever is done to the array     *)
(* meanwhile.                                                              *)
RemovedNotCalled == handler.pc \in {"dequeue", "call"} => handler.consumer \in handler.known

(* The lists are what AddItem and RemoveItem promise, "list order          *)
(* preserved", although removing moves windows and shifts in place and     *)
(* appending writes over what removed elements left in the array.  This    *)
(* holds for those who read a list they took before, too.                  *)
ListsAsPromised ==
    /\ \A l \in Lists : Items(mem, list[l]) = registered[l]
    /\ RemovedNotCalled

(* A failed call is waiting for its retry exactly once: in the list of its *)
(* key or in the hands of the ticker.  It is never lost or doubled by the  *)
(* ticker removing, running and adding back while handlers dequeue.  And   *)
(* it waits only for attempts the RetryPolicy has granted.                 *)
Waiting(k, n) ==
    LET kept == IF Locked(k) THEN NotRun ELSE toRetry[k]
        held == IF ticker.key = k THEN ticker.todo \o ticker.toAdd ELSE <<>>
        all  == kept \o held
    IN  Cardinality({i \in DOMAIN all : all[i].n = n})

Accounted ==
    \A k \in Keys :
        /\ \A n \in 1..MaxEvents : Waiting(k, n) = IF owed[k][n] THEN 1 ELSE 0
        /\ \A r \in ToSet(toRetry[k]) : r.attempt <= MaxAttempts

(* Every watcher and reconciler that is in the list from the moment the    *)
(* handler starts on it to its end has been called for the event.          *)
ListedIsCalled == handler.pc = "end" => handler.present \subseteq handler.called

(* The handling of an event ends: the handler and the ticker, which need   *)
(* the locks of the same keys, do not wait for each other.                 *)
HandlingEnds == (handler.pc # "idle") ~> (handler.pc = "idle")
=============================================================================
